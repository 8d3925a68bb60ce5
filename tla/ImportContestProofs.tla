------------------------- MODULE ImportContestProofs -------------------------
(***************************************************************************)
(* Theorems about contest imports, for any number of imports, problems and *)
(* tests, however the imports overlap and whatever fails.                  *)
(***************************************************************************)
EXTENDS ImportContest, SequenceTheorems, TLAPS

(***************************************************************************)
(* The inductive invariant, part by part.                                  *)
(***************************************************************************)

\* The files are there for every problem.
FilesOfAll == DOMAIN input = Problems /\ DOMAIN answer = Problems

\* Where the loops of an import are.
Place(i) ==
  /\ at[i] \in DOMAIN Package[i]
  /\ pc[i] \in {"new", "inserted", "files", "upsert", "insert"} => test[i] = 1
  /\ pc[i] \in {"copying", "generating", "solve", "solving"} => test[i] \in Tests(Current(i))
  /\ pc[i] \in {"judging", "relate"} => test[i] \notin Tests(Current(i))
  /\ pc[i] \notin Waiting => reply[i] = "none"
  /\ pc[i] \in {"solve", "solving"} \/ (pc[i] = "generating" /\ reply[i] = "ok") =>
       input[Current(i)][test[i]] # "absent"

Places == \A i \in Imports : Place(i)

\* A job is that of the call its import waits in, unless the import has failed.
JobFits(job) ==
  /\ \/ pc[job.by] = "failed"
     \/ /\ pc[job.by] = job.kind /\ reply[job.by] = "none"
        /\ job.problem = Current(job.by) /\ job.test = test[job.by]
  /\ job.kind \in {"generating", "solving"} => job.test \in Tests(job.problem)
  /\ job.kind = "solving" => input[job.problem][job.test] # "absent"

JobsFit ==
  /\ \A job \in jobs : JobFits(job)
  /\ \A job, other \in jobs : job.by = other.by => job = other

\* A problem no imports met on, and on which none failed.
Clean(p) == p \notin overlapped \cup spoiled

\* One import at most works on it, and so do its jobs.
Alone ==
  \A p \in Problems : Clean(p) =>
    /\ \A i, k \in Imports : WorksOn(i, p) /\ WorksOn(k, p) => i = k
    /\ \A job \in jobs : job.problem = p => pc[job.by] # "failed"

\* What an import has made of a problem it works on alone.
Made(i) ==
  /\ \A t \in Tests(Current(i)) : t < test[i] =>
       input[Current(i)][t] = "whole" /\ answer[Current(i)][t] = "right"
  /\ pc[i] \in {"solve", "solving"} \/ (pc[i] = "generating" /\ reply[i] = "ok") =>
       input[Current(i)][test[i]] = "whole"
  /\ pc[i] = "solving" /\ reply[i] = "ok" => answer[Current(i)][test[i]] = "right"
  /\ \A job \in jobs :
       job.by = i /\ job.kind = "solving" => job.saw \in {"queued", "whole"}

Progress == \A i \in Imports : pc[i] \in Busy /\ Clean(Current(i)) => Made(i)

\* The contest of an import is its own or a newer one.
OwnOrNewer(i) ==
  /\ pc[i] # "new" => \E id \in DOMAIN contests : contests[id] = i
  /\ pc[i] \in (Running \ {"inserted"}) \cup {"done"} =>
       \E id \in DOMAIN contests : contests[id] = i /\ id <= contest[i]

ContestsGrow == \A i \in Imports : OwnOrNewer(i)

\* The problems an import is past are related to its contest.
Behind ==
  \A i \in Imports : pc[i] \in Running =>
    \A n \in DOMAIN Package[i] :
      n < at[i] => [contest |-> contest[i], problem |-> Package[i][n], by |-> i] \in related

\* Before it has a contest it is at its first problem.
AtFirst == \A i \in Imports : pc[i] \in {"new", "inserted"} => at[i] = 1

-----------------------------------------------------------------------------
(***************************************************************************)
(* Types, and where imports and their jobs are.                            *)
(***************************************************************************)

TInv == TypeOK /\ FilesOfAll /\ Places /\ JobsFit /\ ContestsGrow

\* No file goes away, nor does a test it is for.
FilesStay ==
  \A p \in Problems : \A t \in Tests(p) : input[p][t] # "absent" => input'[p][t] # "absent"

\* The tests of a problem are numbered from one.
LEMMA TestsAreNumbered ==
  ASSUME NEW p \in Problems
  PROVE  Tests(p) = 1 .. Len(Method[p]) /\ Len(Method[p]) \in Nat
  BY ImportAssumption DEF ImportAssumption, Tests

\* An import that has its place in its package works on a problem.
LEMMA CurrentIsAProblem ==
  ASSUME NEW i \in Imports, Place(i)
  PROVE  Current(i) \in Problems
  BY ImportAssumption DEF ImportAssumption, Place, Current

\* What writing one input does to the inputs.
LEMMA InputIsSet ==
  ASSUME TypeOK, FilesOfAll, NEW p \in Problems, NEW t \in Tests(p),
         NEW content \in {"partial", "whole"}, SetInput(p, t, content)
  PROVE  /\ DOMAIN input' = Problems
         /\ \A q \in Problems : input'[q] \in [Tests(q) -> {"absent", "partial", "whole"}]
         /\ input'[p][t] = content
         /\ \A q \in Problems : \A u \in Tests(q) :
              q # p \/ u # t => input'[q][u] = input[q][u]
         /\ FilesStay
  BY DEF TypeOK, FilesOfAll, SetInput, FilesStay

\* What writing one answer does to the answers.
LEMMA AnswerIsSet ==
  ASSUME TypeOK, FilesOfAll, NEW p \in Problems, NEW t \in Tests(p),
         NEW content \in {"wrong", "right"}, SetAnswer(p, t, content)
  PROVE  /\ DOMAIN answer' = Problems
         /\ \A q \in Problems : answer'[q] \in [Tests(q) -> {"absent", "wrong", "right"}]
         /\ answer'[p][t] = content
         /\ \A q \in Problems : \A u \in Tests(q) :
              q # p \/ u # t => answer'[q][u] = answer[q][u]
  BY DEF TypeOK, FilesOfAll, SetAnswer

\* A package has a first problem.
LEMMA PackageBegins ==
  ASSUME NEW i \in Imports
  PROVE  1 \in DOMAIN Package[i] /\ DOMAIN Package[i] = 1 .. Len(Package[i]) /\ Len(Package[i]) \in Nat
  BY ImportAssumption, EmptySeq DEF ImportAssumption

\* Nothing about the import changes.
Still(i) ==
  /\ pc'[i] = pc[i] /\ at'[i] = at[i] /\ test'[i] = test[i]
  /\ reply'[i] = reply[i] /\ contest'[i] = contest[i]

StillBut(i) == \A k \in Imports \ {i} : Still(k)

\* An import that does not move keeps its place, and its job fits.
LEMMA PlaceStays ==
  ASSUME TInv, NEW i \in Imports, Still(i), FilesStay
  PROVE  Place(i)'
  BY CurrentIsAProblem DEF TInv, Places, Place, Still, FilesStay, Current

\* Rows of contest are not changed.
ContestsStay == \A id \in DOMAIN contests : id \in DOMAIN contests' /\ contests'[id] = contests[id]

\* A row of contest stays the import's.
LEMMA ContestStays ==
  ASSUME TInv, NEW i \in Imports, Still(i), ContestsStay
  PROVE  OwnOrNewer(i)'
  BY DEF TInv, ContestsGrow, OwnOrNewer, Still, ContestsStay

\* A job fits as long as its import does not move, or fails.
LEMMA JobStaysFit ==
  ASSUME TInv, NEW job \in jobs, FilesStay, Still(job.by) \/ pc'[job.by] = "failed"
  PROVE  JobFits(job)'
  <1>1. job.by \in Imports /\ job.problem \in Problems
    BY DEF TInv, TypeOK, Job
  <1>2. JobFits(job)
    BY DEF TInv, JobsFit
  <1>3. input[job.problem][job.test] # "absent" /\ job.test \in Tests(job.problem) =>
          input'[job.problem][job.test] # "absent"
    BY <1>1 DEF FilesStay
  <1> QED
    BY <1>1, <1>2, <1>3 DEF JobFits, Still, Current

\* An import that does not wait has no job, unless it has failed.
LEMMA NoJobOf ==
  ASSUME TInv, NEW i \in Imports, pc[i] \notin Waiting \/ reply[i] # "none", pc[i] # "failed"
  PROVE  \A job \in jobs : job.by # i
  BY DEF TInv, JobsFit, JobFits, TypeOK, Job

\* An import that has no job may move.
LEMMA JobsStayFit ==
  ASSUME TInv, NEW i \in Imports, StillBut(i), FilesStay, jobs' = jobs,
         \/ \A job \in jobs : job.by # i
         \/ pc'[i] = "failed"
  PROVE  JobsFit'
  <1> \A job \in jobs : Still(job.by) \/ pc'[job.by] = "failed"
    BY DEF TInv, TypeOK, Job, StillBut
  <1> \A job \in jobs : JobFits(job)'
    BY JobStaysFit
  <1> QED
    BY DEF TInv, JobsFit

\* What the failure of imports leaves.
LEMMA GivenUp ==
  ASSUME TypeOK, NEW I \in SUBSET Imports, GiveUp(I)
  PROVE  /\ pc' \in [Imports -> Running \cup {"new", "done", "failed"}]
         /\ reply' \in [Imports -> {"none", "ok", "bad"}]
         /\ spoiled' \in SUBSET Problems
         /\ \A k \in Imports \ I : pc'[k] = pc[k] /\ reply'[k] = reply[k]
         /\ \A k \in I : pc'[k] = "failed" /\ reply'[k] = "none"
  <1>1. pc' \in [Imports -> Running \cup {"new", "done", "failed"}]
    BY DEF GiveUp, TypeOK
  <1>2. reply' \in [Imports -> {"none", "ok", "bad"}]
    BY DEF GiveUp, TypeOK
  <1>3. spoiled' \in SUBSET Problems
    BY DEF GiveUp, TypeOK
  <1> QED
    BY <1>1, <1>2, <1>3 DEF GiveUp

\* Imports that fail leave everything in its place.
LEMMA GivenUpFits ==
  ASSUME TInv, NEW I \in SUBSET {i \in Imports : pc[i] \in Running}, GiveUp(I), jobs' \in SUBSET jobs,
         faults' \in 0 .. MaxFaults,
         UNCHANGED <<contests, known, related, input, answer, contest, at, test, overlapped>>
  PROVE  TInv' /\ \A k \in Imports \ I : Still(k)
  <1> USE DEF TInv
  <1>1. /\ pc' \in [Imports -> Running \cup {"new", "done", "failed"}]
        /\ reply' \in [Imports -> {"none", "ok", "bad"}]
        /\ spoiled' \in SUBSET Problems
        /\ \A k \in Imports \ I : pc'[k] = pc[k] /\ reply'[k] = reply[k]
        /\ \A k \in I : pc'[k] = "failed" /\ reply'[k] = "none"
    BY GivenUp
  <1>2. TypeOK'
    BY <1>1 DEF TypeOK
  <1>3. FilesOfAll' /\ FilesStay /\ ContestsStay
    BY DEF FilesOfAll, FilesStay, ContestsStay
  <1>4. \A k \in Imports \ I : Still(k)
    BY <1>1 DEF Still
  <1>5. \A k \in I : Place(k)' /\ OwnOrNewer(k)'
    BY <1>1 DEF Places, Place, ContestsGrow, OwnOrNewer, Running, Busy, Waiting
  <1>6. Places' /\ ContestsGrow'
    BY <1>3, <1>4, <1>5, PlaceStays, ContestStays DEF Places, ContestsGrow
  <1>7. \A job \in jobs : Still(job.by) \/ pc'[job.by] = "failed"
    BY <1>1, <1>4 DEF TypeOK, Job
  <1>8. JobsFit'
    BY <1>3, <1>7, JobStaysFit DEF JobsFit
  <1> QED
    BY <1>2, <1>3, <1>4, <1>6, <1>8

\* A call sends a job that is its own.
LEMMA CallFits ==
  ASSUME TInv, NEW i \in Imports, NEW kind \in Waiting, Call(i, kind), pc[i] \in {"tests", "solve"},
         (kind = "judging") <=> (test[i] \notin Tests(Current(i))),
         kind = "solving" => input[Current(i)][test[i]] # "absent"
  PROVE  TInv' /\ StillBut(i)
  <1> USE DEF TInv
  <1>1. PICK job : job = [by |-> i, kind |-> kind, problem |-> Current(i), test |-> test[i],
                          saw |-> "queued"]
    OBVIOUS
  <1>2. /\ jobs' = jobs \cup {job} /\ pc' = [pc EXCEPT ![i] = kind]
        /\ UNCHANGED <<tables, files, contest, at, test, reply, history, faults>>
    BY <1>1 DEF Call, Goto
  <1>3. job \in Job
    BY <1>1, CurrentIsAProblem DEF Job, Places, TypeOK
  <1>4. pc' \in [Imports -> Running \cup {"new", "done", "failed"}] /\ pc'[i] = kind
    BY <1>2 DEF TypeOK, Running, Busy
  <1>5. TypeOK'
    BY <1>2, <1>3, <1>4 DEF TypeOK, tables, files, history
  <1>6. FilesOfAll' /\ FilesStay /\ ContestsStay
    BY <1>2 DEF FilesOfAll, FilesStay, ContestsStay, tables, files
  <1>7. StillBut(i)
    BY <1>2 DEF StillBut, Still, TypeOK
  <1>8. reply[i] = "none" /\ Place(i) /\ OwnOrNewer(i)
    BY DEF Places, Place, ContestsGrow, Waiting
  <1>9. Place(i)'
    BY <1>2, <1>4, <1>8 DEF Place, Current, Waiting, files
  <1>10. OwnOrNewer(i)'
    BY <1>2, <1>4, <1>8 DEF OwnOrNewer, Running, Busy, Waiting, tables
  <1>11. Places' /\ ContestsGrow'
    BY <1>6, <1>7, <1>9, <1>10, PlaceStays, ContestStays DEF StillBut, Places, ContestsGrow
  <1>12. \A other \in jobs : other.by \in Imports \ {i}
    BY NoJobOf DEF Waiting, TypeOK, Job
  <1>13. \A other \in jobs : JobFits(other)'
    BY <1>6, <1>7, <1>12, JobStaysFit DEF StillBut
  <1>14. JobFits(job)'
    BY <1>1, <1>2, <1>4, <1>8 DEF JobFits, Current, Waiting, files
  <1>15. JobsFit'
    <2>1. \A other \in jobs' : other \in jobs \/ other = job
      BY <1>2
    <2>2. \A other \in jobs' : JobFits(other)'
      BY <1>13, <1>14, <2>1 DEF JobFits, Current
    <2>3. \A one, other \in jobs' : one.by = other.by => one = other
      BY <1>1, <1>12, <2>1 DEF JobsFit
    <2> QED
      BY <2>2, <2>3 DEF JobsFit
  <1> QED
    BY <1>5, <1>6, <1>7, <1>11, <1>15

\* The invariant of types and places holds at first ...
LEMMA TInvInit == Init => TInv
  <1> SUFFICES ASSUME Init PROVE TInv
    OBVIOUS
  <1>1. TypeOK
    BY ImportAssumption DEF Init, TypeOK, ImportAssumption, Running, Busy, Waiting
  <1>2. FilesOfAll
    BY DEF Init, FilesOfAll
  <1>3. Places
    BY PackageBegins DEF Init, Places, Place, Waiting
  <1>4. JobsFit
    BY DEF Init, JobsFit
  <1>5. ContestsGrow
    BY DEF Init, ContestsGrow, OwnOrNewer, Running, Busy, Waiting
  <1> QED
    BY <1>1, <1>2, <1>3, <1>4, <1>5 DEF TInv

\* ... each step of an import preserves it, and moves no other import, ...
LEMMA TInvImports ==
  ASSUME TInv, NEW i \in Imports, InsertContest(i) \/ Import(i) \/ Fail(i)
  PROVE  TInv' /\ StillBut(i)
  <1> USE DEF TInv
  <1> Place(i) /\ Current(i) \in Problems
    BY CurrentIsAProblem DEF Places
  <1>0. ASSUME TypeOK', FilesOfAll', FilesStay, StillBut(i), Place(i)', JobsFit',
               ContestsStay, OwnOrNewer(i)'
        PROVE  TInv' /\ StillBut(i)
    BY <1>0, PlaceStays, ContestStays DEF StillBut, Places, ContestsGrow
  <1> OwnOrNewer(i)
    BY DEF ContestsGrow
  <1>1. CASE InsertContest(i)
    <2>1. \A job \in jobs : job.by # i
      BY <1>1, NoJobOf DEF InsertContest, Waiting
    <2>5. TypeOK'
      BY <1>1 DEF InsertContest, TypeOK, Goto, Running, Busy, Waiting, Job, tables, files, history
    <2>6. FilesOfAll' /\ FilesStay
      BY <1>1 DEF InsertContest, FilesOfAll, FilesStay, files
    <2>7. StillBut(i)
      BY <1>1 DEF InsertContest, StillBut, Still, TypeOK, Goto
    <2>8. Place(i)'
      BY <1>1, PackageBegins DEF InsertContest, TypeOK, Place, Goto, Current, Busy, Waiting, files
    <2>9. JobsFit'
      BY <1>1, <2>1, <2>6, <2>7, JobsStayFit DEF InsertContest
    <2>10. ContestsStay /\ OwnOrNewer(i)'
      <3>1. /\ DOMAIN contests = 1 .. Len(contests) /\ Len(contests) \in Nat
            /\ DOMAIN contests' = 1 .. Len(contests) + 1
            /\ contests'[Len(contests) + 1] = i
            /\ \A id \in 1 .. Len(contests) : contests'[id] = contests[id]
        BY <1>1 DEF InsertContest, TypeOK
      <3>2. pc'[i] = "inserted"
        BY <1>1 DEF InsertContest, TypeOK, Goto
      <3> QED
        BY <3>1, <3>2 DEF ContestsStay, OwnOrNewer, Running, Busy, Waiting
    <2> QED
      BY <1>0, <2>5, <2>6, <2>7, <2>8, <2>9, <2>10
  <1>2. CASE SelectContest(i)
    <2>1. \A job \in jobs : job.by # i
      BY <1>2, NoJobOf DEF SelectContest, Waiting
    <2>5. TypeOK'
      BY <1>2 DEF SelectContest, TypeOK, Goto, Running, Busy, Waiting, Job, tables, files, history, Newest
    <2>6. FilesOfAll' /\ FilesStay
      BY <1>2 DEF SelectContest, FilesOfAll, FilesStay, files, Newest
    <2>7. StillBut(i)
      BY <1>2 DEF SelectContest, StillBut, Still, TypeOK, Goto, Newest
    <2>8. Place(i)'
      BY <1>2, PackageBegins DEF SelectContest, TypeOK, Place, Goto, Current, Busy, Waiting, files, Newest
    <2>9. JobsFit'
      BY <1>2, <2>1, <2>6, <2>7, JobsStayFit DEF SelectContest
    <2>10. ContestsStay /\ OwnOrNewer(i)'
      BY <1>2 DEF SelectContest, ContestsStay, OwnOrNewer, TypeOK, Goto, Running, Busy, Waiting, tables, Newest
    <2> QED
      BY <1>0, <2>5, <2>6, <2>7, <2>8, <2>9, <2>10
  <1>3. CASE ExtractFiles(i)
    <2>1. \A job \in jobs : job.by # i
      BY <1>3, NoJobOf DEF ExtractFiles, Waiting
    <2>5. TypeOK'
      BY <1>3 DEF ExtractFiles, TypeOK, Goto, Running, Busy, Waiting, Job, tables, files, history
    <2>6. FilesOfAll' /\ FilesStay
      BY <1>3 DEF ExtractFiles, FilesOfAll, FilesStay, files
    <2>7. StillBut(i)
      BY <1>3 DEF ExtractFiles, StillBut, Still, TypeOK, Goto
    <2>8. Place(i)'
      BY <1>3, PackageBegins DEF ExtractFiles, TypeOK, Place, Goto, Current, Busy, Waiting, files
    <2>9. JobsFit'
      BY <1>3, <2>1, <2>6, <2>7, JobsStayFit DEF ExtractFiles
    <2>10. ContestsStay /\ OwnOrNewer(i)'
      BY <1>3 DEF ExtractFiles, ContestsStay, OwnOrNewer, TypeOK, Goto, Running, Busy, Waiting, tables
    <2> QED
      BY <1>0, <2>5, <2>6, <2>7, <2>8, <2>9, <2>10
  <1>4. CASE FindProblem(i)
    <2>1. \A job \in jobs : job.by # i
      BY <1>4, NoJobOf DEF FindProblem, Waiting
    <2>5. TypeOK'
      BY <1>4 DEF FindProblem, TypeOK, Goto, Running, Busy, Waiting, Job, tables, files, history
    <2>6. FilesOfAll' /\ FilesStay
      BY <1>4 DEF FindProblem, FilesOfAll, FilesStay, files
    <2>7. StillBut(i)
      BY <1>4 DEF FindProblem, StillBut, Still, TypeOK, Goto
    <2>8. Place(i)'
      BY <1>4, PackageBegins DEF FindProblem, TypeOK, Place, Goto, Current, Busy, Waiting, files
    <2>9. JobsFit'
      BY <1>4, <2>1, <2>6, <2>7, JobsStayFit DEF FindProblem
    <2>10. ContestsStay /\ OwnOrNewer(i)'
      BY <1>4 DEF FindProblem, ContestsStay, OwnOrNewer, TypeOK, Goto, Running, Busy, Waiting, tables
    <2> QED
      BY <1>0, <2>5, <2>6, <2>7, <2>8, <2>9, <2>10
  <1>5. CASE InsertProblem(i)
    <2>1. \A job \in jobs : job.by # i
      BY <1>5, NoJobOf DEF InsertProblem, Waiting
    <2>2. CASE Current(i) \in known
      BY <1>5, <2>2, GivenUpFits DEF StillBut, InsertProblem, TypeOK, Running, Busy, files
    <2>3. CASE Current(i) \notin known
      <3>1. /\ known' = known \cup {Current(i)}
            /\ Goto(i, "tests")
            /\ UNCHANGED <<contests, related, files, contest, at, test, jobs,
                           overlapped, faults, reply, spoiled>>
        BY <1>5, <2>3 DEF InsertProblem
      <3>5. TypeOK'
        BY <1>5, <3>1 DEF InsertProblem, TypeOK, Goto, Running, Busy, Waiting, Job, files
      <3>6. FilesOfAll' /\ FilesStay
        BY <3>1 DEF FilesOfAll, FilesStay, files
      <3>7. StillBut(i)
        BY <3>1 DEF StillBut, Still, TypeOK, Goto
      <3>8. Place(i)'
        BY <1>5, <3>1 DEF InsertProblem, TypeOK, Place, Goto, Current, Busy, Waiting, files
      <3>9. JobsFit'
        BY <2>1, <3>1, <3>6, <3>7, JobsStayFit
      <3>10. ContestsStay /\ OwnOrNewer(i)'
        BY <1>5, <3>1 DEF InsertProblem, ContestsStay, OwnOrNewer, TypeOK, Goto, Running, Busy, Waiting
      <3> QED
        BY <1>0, <3>5, <3>6, <3>7, <3>8, <3>9, <3>10
    <2> QED
      BY <2>2, <2>3
  <1>6. CASE CreateTest(i)
    <2>2. test[i] \in Tests(Current(i))
      BY <1>6 DEF CreateTest, Place
    <2>3. SetInput(Current(i), test[i], "partial")
      BY <1>6 DEF CreateTest
    <2>4. /\ DOMAIN input' = Problems
          /\ \A q \in Problems : input'[q] \in [Tests(q) -> {"absent", "partial", "whole"}]
          /\ input'[Current(i)][test[i]] = "partial"
          /\ FilesStay
      BY <2>2, <2>3, InputIsSet
    <2>1. \A job \in jobs : job.by # i
      BY <1>6, NoJobOf DEF CreateTest, Waiting
    <2>5. TypeOK'
      BY <1>6, <2>2, <2>4, TestsAreNumbered DEF CreateTest, TypeOK, Goto, Running, Busy, Waiting, Job, tables, files, history
    <2>6. FilesOfAll' /\ FilesStay
      BY <1>6, <2>4 DEF CreateTest, FilesOfAll
    <2>7. StillBut(i)
      BY <1>6 DEF CreateTest, StillBut, Still, TypeOK, Goto
    <2>8. Place(i)'
      BY <1>6, <2>2, <2>4, TestsAreNumbered, PackageBegins DEF CreateTest, TypeOK, Place, Goto, Current, Busy, Waiting, files
    <2>9. JobsFit'
      BY <1>6, <2>1, <2>6, <2>7, JobsStayFit DEF CreateTest
    <2>10. ContestsStay /\ OwnOrNewer(i)'
      BY <1>6 DEF CreateTest, ContestsStay, OwnOrNewer, TypeOK, Goto, Running, Busy, Waiting, tables
    <2> QED
      BY <1>0, <2>5, <2>6, <2>7, <2>8, <2>9, <2>10
  <1>7. CASE CopyTest(i)
    <2>2. test[i] \in Tests(Current(i))
      BY <1>7 DEF CopyTest, Place
    <2>3. SetInput(Current(i), test[i], "whole")
      BY <1>7 DEF CopyTest
    <2>4. /\ DOMAIN input' = Problems
          /\ \A q \in Problems : input'[q] \in [Tests(q) -> {"absent", "partial", "whole"}]
          /\ input'[Current(i)][test[i]] = "whole"
          /\ FilesStay
      BY <2>2, <2>3, InputIsSet
    <2>1. \A job \in jobs : job.by # i
      BY <1>7, NoJobOf DEF CopyTest, Waiting
    <2>5. TypeOK'
      BY <1>7, <2>2, <2>4, TestsAreNumbered DEF CopyTest, TypeOK, Goto, Running, Busy, Waiting, Job, tables, files, history
    <2>6. FilesOfAll' /\ FilesStay
      BY <1>7, <2>4 DEF CopyTest, FilesOfAll
    <2>7. StillBut(i)
      BY <1>7 DEF CopyTest, StillBut, Still, TypeOK, Goto
    <2>8. Place(i)'
      BY <1>7, <2>2, <2>4, TestsAreNumbered, PackageBegins DEF CopyTest, TypeOK, Place, Goto, Current, Busy, Waiting, files
    <2>9. JobsFit'
      BY <1>7, <2>1, <2>6, <2>7, JobsStayFit DEF CopyTest
    <2>10. ContestsStay /\ OwnOrNewer(i)'
      BY <1>7 DEF CopyTest, ContestsStay, OwnOrNewer, TypeOK, Goto, Running, Busy, Waiting, tables
    <2> QED
      BY <1>0, <2>5, <2>6, <2>7, <2>8, <2>9, <2>10
  <1>8. CASE SendGenerator(i)
    BY <1>8, CallFits DEF SendGenerator, Waiting
  <1>9. CASE SendSolution(i)
    BY <1>9, CallFits DEF SendSolution, Waiting, Place
  <1>10. CASE SendJudge(i)
    BY <1>10, CallFits DEF SendJudge, Waiting
  <1>11. CASE Answered(i)
    <2>1. \A job \in jobs : job.by # i
      BY <1>11, NoJobOf DEF Answered, Waiting
    <2>2. CASE Refuses(i)
      BY <1>11, <2>2, GivenUpFits DEF StillBut, Answered, TypeOK, Running, Busy, Waiting, tables, files
    <2>3. CASE ~Refuses(i)
      <3>1. /\ \/ pc[i] = "generating" /\ Goto(i, "solve") /\ UNCHANGED test
               \/ pc[i] = "solving" /\ Goto(i, "tests") /\ NextTest(i)
               \/ pc[i] = "judging" /\ Goto(i, "relate") /\ UNCHANGED test
            /\ reply[i] = "ok"
            /\ reply' = [reply EXCEPT ![i] = "none"]
            /\ UNCHANGED <<tables, files, contest, at, jobs, history, faults>>
        BY <1>11, <2>3 DEF Answered, Refuses, Waiting, history, TypeOK
      <3>5. TypeOK'
        <4>1. pc' \in [Imports -> Running \cup {"new", "done", "failed"}]
          BY <3>1 DEF TypeOK, Goto, Running, Busy
        <4>2. test' \in [Imports -> Nat \ {0}]
          BY <3>1 DEF TypeOK, NextTest
        <4>3. reply' \in [Imports -> {"none", "ok", "bad"}]
          BY <3>1 DEF TypeOK
        <4> QED
          BY <3>1, <4>1, <4>2, <4>3 DEF TypeOK, tables, files, history
      <3>6. FilesOfAll' /\ FilesStay
        BY <3>1 DEF FilesOfAll, FilesStay, files
      <3>7. StillBut(i)
        BY <3>1 DEF StillBut, Still, TypeOK, Goto, NextTest
      <3>8. Place(i)'
        BY <3>1, PackageBegins DEF TypeOK, Place, Goto, Current, Busy, Waiting, files, NextTest
      <3>9. JobsFit'
        BY <2>1, <3>1, <3>6, <3>7, JobsStayFit
      <3>10. ContestsStay /\ OwnOrNewer(i)'
        BY <3>1 DEF ContestsStay, OwnOrNewer, TypeOK, Goto, Running, Busy, Waiting, tables
      <3> QED
        BY <1>0, <3>5, <3>6, <3>7, <3>8, <3>9, <3>10
    <2> QED
      BY <2>2, <2>3
  <1>12. CASE RelateProblem(i)
    <2>1. \A job \in jobs : job.by # i
      BY <1>12, NoJobOf DEF RelateProblem, Waiting
    <2>5. TypeOK'
      <3>1. related' \in SUBSET [contest : Nat \ {0}, problem : Problems, by : Imports]
        <4>1. contest[i] \in Nat \ {0}
          BY <1>12 DEF RelateProblem, OwnOrNewer, TypeOK, Running, Busy
        <4> QED
          BY <1>12, <4>1 DEF RelateProblem, TypeOK
      <3>2. /\ pc' \in [Imports -> Running \cup {"new", "done", "failed"}]
            /\ at' \in [Imports -> Nat \ {0}]
            /\ test' \in [Imports -> Nat \ {0}]
        <4>1. Goto(i, "done") \/ Goto(i, "files")
          BY <1>12 DEF RelateProblem, Advance
        <4>2. pc' \in [Imports -> Running \cup {"new", "done", "failed"}]
          BY <4>1 DEF Goto, TypeOK, Running
        <4>3. UNCHANGED <<at, test>> \/ (at' = [at EXCEPT ![i] = @ + 1] /\ test' = [test EXCEPT ![i] = 1])
          BY <1>12 DEF RelateProblem, Advance
        <4>4. at' \in [Imports -> Nat \ {0}]
          BY <4>3 DEF TypeOK
        <4>5. test' \in [Imports -> Nat \ {0}]
          BY <4>3 DEF TypeOK
        <4> QED
          BY <4>2, <4>4, <4>5
      <3> QED
        <4>1. UNCHANGED <<contests, known, files, contest, jobs, reply, history, faults>>
          BY <1>12 DEF RelateProblem
        <4> QED
          BY <3>1, <3>2, <4>1 DEF TypeOK, files, history
    <2>6. FilesOfAll' /\ FilesStay
      BY <1>12 DEF RelateProblem, FilesOfAll, FilesStay, files, Advance
    <2>7. StillBut(i)
      BY <1>12 DEF RelateProblem, StillBut, Still, TypeOK, Goto, Advance
    <2>8. Place(i)'
      BY <1>12, PackageBegins DEF RelateProblem, TypeOK, Place, Goto, Current, Busy, Waiting, files, Advance
    <2>9. JobsFit'
      BY <1>12, <2>1, <2>6, <2>7, JobsStayFit DEF RelateProblem
    <2>10. ContestsStay /\ OwnOrNewer(i)'
      BY <1>12 DEF RelateProblem, ContestsStay, OwnOrNewer, TypeOK, Goto, Running, Busy, Waiting, tables, Advance
    <2> QED
      BY <1>0, <2>5, <2>6, <2>7, <2>8, <2>9, <2>10
  <1>13. CASE Fail(i)
    BY <1>13, GivenUpFits, ImportAssumption DEF StillBut, ImportAssumption, Fail, TypeOK, tables, files
  <1> QED
    BY <1>1, <1>2, <1>3, <1>4, <1>5, <1>6, <1>7, <1>8, <1>9, <1>10, <1>11, <1>12, <1>13 DEF Import

\* What the end of a job, with a reply to its import or without one, leaves.
LEMMA TInvJobEnds ==
  ASSUME TInv, NEW job \in jobs, NEW outcome \in {"ok", "bad"},
         Output(job, outcome) \/ (UNCHANGED files /\ outcome = "bad"),
         jobs' = jobs \ {job}, faults' \in 0 .. MaxFaults,
         \/ UNCHANGED reply
         \/ pc[job.by] \in Waiting /\ reply' = [reply EXCEPT ![job.by] = outcome],
         UNCHANGED <<tables, pc, contest, at, test, history>>
  PROVE  TInv'
  <1> USE DEF TInv
  <1>1. /\ job.by \in Imports /\ job.problem \in Problems /\ job.kind \in Waiting
        /\ JobFits(job)
    BY DEF TypeOK, Job, JobsFit
  <1>2. /\ FilesOfAll' /\ FilesStay
        /\ \A p \in Problems :
             /\ input'[p] \in [Tests(p) -> {"absent", "partial", "whole"}]
             /\ answer'[p] \in [Tests(p) -> {"absent", "wrong", "right"}]
        /\ job.kind = "generating" /\ outcome = "ok" => input'[job.problem][job.test] # "absent"
    <2>1. CASE job.kind = "generating" /\ Output(job, outcome)
      <3> DEFINE content == IF outcome = "ok" THEN "whole" ELSE "partial"
      <3>1. SetInput(job.problem, job.test, content) /\ UNCHANGED answer
        BY <2>1 DEF Output
      <3>2. job.test \in Tests(job.problem) /\ content \in {"partial", "whole"}
        BY <1>1, <2>1 DEF JobFits
      <3> QED
        BY <1>1, <3>1, <3>2, InputIsSet DEF FilesOfAll, TypeOK
    <2>2. CASE job.kind = "solving" /\ Output(job, outcome)
      <3> DEFINE content == IF outcome = "ok" /\ job.saw = "whole" THEN "right" ELSE "wrong"
      <3>1. SetAnswer(job.problem, job.test, content) /\ UNCHANGED input
        BY <2>2 DEF Output
      <3>2. job.test \in Tests(job.problem) /\ content \in {"wrong", "right"}
        BY <1>1, <2>2 DEF JobFits
      <3> QED
        BY <1>1, <2>2, <3>1, <3>2, AnswerIsSet DEF FilesOfAll, FilesStay, TypeOK
    <2>3. CASE UNCHANGED files /\ ~(job.kind = "generating" /\ outcome = "ok")
      BY <2>3 DEF files, FilesOfAll, FilesStay, TypeOK
    <2> QED
      BY <1>1, <2>1, <2>2, <2>3 DEF Output, Waiting
  <1>3. reply' \in [Imports -> {"none", "ok", "bad"}]
    BY <1>1 DEF TypeOK
  <1>4. TypeOK'
    BY <1>2, <1>3 DEF TypeOK, tables, history
  <1>5. ContestsStay /\ \A k \in Imports \ {job.by} : Still(k)
    BY <1>1 DEF ContestsStay, Still, tables, TypeOK
  <1>6. Place(job.by)' /\ OwnOrNewer(job.by)'
    <2>1. CASE UNCHANGED reply
      BY <1>1, <1>2, <1>5, <2>1, PlaceStays, ContestStays DEF Still
    <2>2. CASE pc[job.by] \in Waiting /\ reply' = [reply EXCEPT ![job.by] = outcome]
      <3>1. OwnOrNewer(job.by)'
        BY <1>1 DEF ContestsGrow, OwnOrNewer, tables
      <3>2. /\ Place(job.by) /\ job.problem = Current(job.by) /\ job.test = test[job.by]
            /\ pc[job.by] = job.kind
        BY <1>1, <2>2 DEF Places, JobFits, Waiting
      <3>3. Current(job.by)' = Current(job.by)
        BY DEF Current
      <3>4. pc[job.by] = "solving" => input'[Current(job.by)][test[job.by]] # "absent"
        BY <1>1, <1>2, <3>2 DEF JobFits, FilesStay
      <3>5. reply'[job.by] = outcome
        BY <1>1, <2>2 DEF TypeOK
      <3> QED
        BY <1>1, <1>2, <2>2, <3>1, <3>2, <3>3, <3>4, <3>5 DEF Place, Waiting
    <2> QED
      BY <2>1, <2>2
  <1>7. Places' /\ ContestsGrow'
    BY <1>2, <1>5, <1>6, PlaceStays, ContestStays DEF Places, ContestsGrow
  <1>8. JobsFit'
    <2>1. \A other \in jobs' : other.by \in Imports \ {job.by}
      BY DEF JobsFit, TypeOK, Job
    <2> QED
      BY <1>2, <1>5, <2>1, JobStaysFit DEF JobsFit
  <1> QED
    BY <1>2, <1>4, <1>7, <1>8

\* ... so does each step of a worker, ...
LEMMA TInvJobs ==
  ASSUME TInv, NEW job \in jobs,
         \/ StartJob(job) \/ RejectJob(job) \/ KillJob(job)
         \/ \E outcome \in {"ok", "bad"} : FinishJob(job, outcome)
  PROVE  TInv'
  <1> USE DEF TInv
  <1>1. CASE StartJob(job)
    <2> DEFINE saw == IF job.kind = "solving" THEN input[job.problem][job.test] ELSE "started"
    <2>0. PICK new : new = [job EXCEPT !.saw = saw]
      OBVIOUS
    <2>1. /\ jobs' = (jobs \ {job}) \cup {new}
          /\ UNCHANGED <<tables, files, pc, contest, at, test, reply, history, faults>>
      BY <1>1, <2>0 DEF StartJob
    <2>2. job \in Job /\ JobFits(job)
      BY DEF TypeOK, JobsFit
    <2>3. saw \in {"started", "partial", "whole"}
      BY <2>2 DEF TypeOK, Job, JobFits
    <2>4. /\ new \in Job /\ new.by = job.by /\ new.kind = job.kind
          /\ new.problem = job.problem /\ new.test = job.test
      BY <2>0, <2>2, <2>3 DEF Job
    <2>5. TypeOK'
      BY <2>1, <2>4 DEF TypeOK, tables, files, history
    <2>6. FilesOfAll' /\ FilesStay /\ ContestsStay /\ \A k \in Imports : Still(k)
      BY <2>1 DEF FilesOfAll, FilesStay, ContestsStay, Still, tables, files
    <2>7. Places' /\ ContestsGrow'
      BY <2>6, PlaceStays, ContestStays DEF Places, ContestsGrow
    <2>8. JobFits(job)' /\ \A other \in jobs : JobFits(other)'
      BY <2>2, <2>6, JobStaysFit DEF Job, TypeOK
    <2>9. JobFits(new)'
      BY <2>4, <2>8 DEF JobFits, Current
    <2>10. JobsFit'
      <3>1. \A other \in jobs' : JobFits(other)'
        <4> SUFFICES ASSUME NEW other \in jobs' PROVE JobFits(other)'
          OBVIOUS
        <4>1. other \in jobs \/ other = new
          BY <2>1
        <4> QED
          BY <4>1, <2>8, <2>9 DEF JobFits, Current
      <3>2. \A one, other \in jobs' : one.by = other.by => one = other
        <4>1. /\ \A one, other \in jobs : one.by = other.by => one = other
              /\ \A one \in jobs' : one = new \/ (one \in jobs /\ one # job)
          BY <2>1 DEF JobsFit
        <4> QED
          BY <4>1, <2>4
      <3> QED
        BY <3>1, <3>2 DEF JobsFit
    <2> QED
      BY <2>5, <2>6, <2>7, <2>10
  <1>2. CASE RejectJob(job)
    <2>1. UNCHANGED reply \/ (pc[job.by] \in Waiting /\ reply' = [reply EXCEPT ![job.by] = "bad"])
      BY <1>2 DEF RejectJob, Reply
    <2>2. jobs' = jobs \ {job} /\ faults' \in 0 .. MaxFaults /\ UNCHANGED files
          /\ UNCHANGED <<tables, pc, contest, at, test, history>>
      BY <1>2 DEF RejectJob, Reply, TypeOK
    <2> QED
      BY <2>1, <2>2, TInvJobEnds
  <1>3. CASE KillJob(job)
    <2>1. /\ Output(job, "bad") /\ jobs' = jobs \ {job} /\ UNCHANGED reply
          /\ faults' \in 0 .. MaxFaults /\ UNCHANGED <<tables, pc, contest, at, test, history>>
      BY <1>3, ImportAssumption DEF KillJob, TypeOK, ImportAssumption
    <2> QED
      BY <2>1, TInvJobEnds
  <1>4. ASSUME NEW outcome \in {"ok", "bad"}, FinishJob(job, outcome) PROVE TInv'
    <2>1. UNCHANGED reply \/ (pc[job.by] \in Waiting /\ reply' = [reply EXCEPT ![job.by] = outcome])
      BY <1>4 DEF FinishJob, Reply
    <2>2. /\ Output(job, outcome) /\ jobs' = jobs \ {job} /\ faults' \in 0 .. MaxFaults
          /\ UNCHANGED <<tables, pc, contest, at, test, history>>
      BY <1>4 DEF FinishJob, Reply, TypeOK
    <2> QED
      BY <2>1, <2>2, TInvJobEnds
  <1> QED
    BY <1>1, <1>2, <1>3, <1>4

\* ... and with them every step.
LEMMA TInvStep == TInv /\ [Next]_vars => TInv'
  <1> SUFFICES ASSUME TInv, [Next]_vars PROVE TInv'
    OBVIOUS
  <1>1. ASSUME NEW i \in Imports, InsertContest(i) \/ Import(i) \/ Fail(i) PROVE TInv'
    BY <1>1, TInvImports
  <1>2. CASE Worker \/ \E job \in jobs : KillJob(job)
    BY <1>2, TInvJobs DEF Worker
  <1>3. CASE ServerCrash
    <2>1. /\ GiveUp({i \in Imports : pc[i] \in Running})
          /\ jobs' \in SUBSET jobs
          /\ UNCHANGED <<contests, known, related, input, answer, contest, at, test, overlapped>>
      BY <1>3 DEF ServerCrash, tables, files
    <2>2. faults' \in 0 .. MaxFaults
      BY <1>3, ImportAssumption DEF ServerCrash, ImportAssumption, TInv, TypeOK
    <2> QED
      BY <2>1, <2>2, GivenUpFits
  <1>4. CASE UNCHANGED vars
    <2>1. FilesStay /\ ContestsStay /\ \A k \in Imports : Still(k)
      BY <1>4 DEF vars, FilesStay, ContestsStay, Still, tables, files
    <2>2. Places' /\ ContestsGrow'
      BY <2>1, PlaceStays, ContestStays DEF Places, ContestsGrow
    <2>3. JobsFit'
      BY <1>4, <2>1, JobStaysFit DEF vars, JobsFit, TInv, TypeOK, Job
    <2>4. TypeOK' /\ FilesOfAll'
      BY <1>4 DEF vars, tables, files, history, TInv, TypeOK, FilesOfAll
    <2> QED
      BY <2>2, <2>3, <2>4 DEF TInv
  <1> QED
    BY <1>1, <1>2, <1>3, <1>4 DEF Next

\* Every variable keeps its type, for any number of imports, problems, tests
\* and failures.
THEOREM TypeCorrect == Spec => []TypeOK
  <1>1. TInv => TypeOK
    BY DEF TInv
  <1> QED
    BY <1>1, TInvInit, TInvStep, PTL DEF Spec

-----------------------------------------------------------------------------
(***************************************************************************)
(* Contests: what an import relates goes to its own contest or a newer     *)
(* one, and a finished import has related every problem.                   *)
(***************************************************************************)

\* What a step makes of one import, as far as contests are concerned.
Stays(i) ==
  pc'[i] = pc[i] /\ at'[i] = at[i] /\ contest'[i] = contest[i]

StepsOn(i) ==
  /\ pc[i] \in Busy \/ ExtractFiles(i)
  /\ pc'[i] \in Busy
  /\ at'[i] = at[i] /\ contest'[i] = contest[i]

\* There are no other moves.
LEMMA Moves ==
  ASSUME TInv, [Next]_vars, NEW i \in Imports
  PROVE  \/ Stays(i) \/ StepsOn(i) \/ pc'[i] = "failed"
         \/ InsertContest(i) \/ SelectContest(i) \/ RelateProblem(i)
  <1> USE DEF Stays, StepsOn, TInv
  <1>1. ASSUME NEW k \in Imports, InsertContest(k) \/ SelectContest(k) \/ RelateProblem(k), k # i
        PROVE  Stays(i)
    BY <1>1 DEF InsertContest, SelectContest, RelateProblem, Advance, Goto, TypeOK
  <1>2. ASSUME NEW k \in Imports, ExtractFiles(k) PROVE Stays(i) \/ StepsOn(i)
    BY <1>2 DEF ExtractFiles, Goto, TypeOK, Busy
  <1>3. ASSUME NEW k \in Imports, FindProblem(k) PROVE Stays(i) \/ StepsOn(i)
    BY <1>3 DEF FindProblem, Goto, TypeOK, Busy
  <1>4. ASSUME NEW k \in Imports, InsertProblem(k)
        PROVE  Stays(i) \/ StepsOn(i) \/ pc'[i] = "failed"
    BY <1>4, GivenUp DEF InsertProblem, Goto, TypeOK, Busy
  <1>5. ASSUME NEW k \in Imports, CreateTest(k) \/ CopyTest(k)
        PROVE  Stays(i) \/ StepsOn(i)
    BY <1>5 DEF CreateTest, CopyTest, Goto, TypeOK, Busy
  <1>6. ASSUME NEW k \in Imports, SendGenerator(k) \/ SendSolution(k) \/ SendJudge(k)
        PROVE  Stays(i) \/ StepsOn(i)
    BY <1>6 DEF SendGenerator, SendSolution, SendJudge, Call, Goto, TypeOK, Busy, Waiting
  <1>7. ASSUME NEW k \in Imports, Answered(k)
        PROVE  Stays(i) \/ StepsOn(i) \/ pc'[i] = "failed"
    <2>1. CASE GiveUp({k})
      BY <1>7, <2>1, GivenUp DEF Answered, TypeOK
    <2>2. CASE Goto(k, "solve") \/ Goto(k, "tests") \/ Goto(k, "relate")
      BY <1>7, <2>2 DEF Answered, Goto, TypeOK, Busy
    <2> QED
      BY <1>7, <2>1, <2>2 DEF Answered, Waiting
  <1>8. ASSUME NEW k \in Imports, Fail(k) PROVE Stays(i) \/ pc'[i] = "failed"
    BY <1>8, GivenUp DEF Fail, TypeOK
  <1>9. CASE Worker \/ \E job \in jobs : KillJob(job)
    BY <1>9 DEF Worker, StartJob, RejectJob, FinishJob, Reply, KillJob
  <1>10. CASE ServerCrash
    BY <1>10, GivenUp DEF ServerCrash, TypeOK
  <1>11. CASE UNCHANGED vars
    BY <1>11 DEF vars
  <1> QED
    BY <1>1, <1>2, <1>3, <1>4, <1>5, <1>6, <1>7, <1>8, <1>9, <1>10, <1>11 DEF Next, Import

\* Rows are added and never changed or removed; only RelateProblem relates.
LEMMA TablesGrow ==
  ASSUME TInv, [Next]_vars
  PROVE  /\ ContestsStay
         /\ related' = related \/ \E i \in Imports : RelateProblem(i)
         /\ related \subseteq related'
  <1> USE DEF TInv
  <1>1. ASSUME NEW i \in Imports, InsertContest(i) PROVE ContestsStay /\ related' = related
    BY <1>1 DEF InsertContest, ContestsStay, TypeOK
  <1>2. ASSUME NEW i \in Imports, Import(i) \/ Fail(i) PROVE contests' = contests
    BY <1>2 DEF Import, Fail, SelectContest, ExtractFiles, FindProblem, InsertProblem,
      CreateTest, CopyTest, SendGenerator, SendSolution, SendJudge, Call, Answered, RelateProblem, tables
  <1>3. ASSUME NEW i \in Imports, Import(i) \/ Fail(i), ~RelateProblem(i) PROVE related' = related
    BY <1>3 DEF Import, Fail, SelectContest, ExtractFiles, FindProblem, InsertProblem,
      CreateTest, CopyTest, SendGenerator, SendSolution, SendJudge, Call, Answered, tables
  <1>4. CASE Worker \/ (\E job \in jobs : KillJob(job)) \/ ServerCrash \/ UNCHANGED vars
    BY <1>4 DEF Worker, StartJob, RejectJob, FinishJob, Reply, KillJob, ServerCrash, vars, tables, ContestsStay
  <1>5. (\E i \in Imports : RelateProblem(i)) => related \subseteq related'
    BY DEF RelateProblem
  <1> QED
    BY <1>1, <1>2, <1>3, <1>4, <1>5 DEF Next, ContestsStay

\* No import adds a problem to a contest that is older than its own.
THEOREM OlderContestsStay == Spec => []OlderContestsUntouched
  <1>1. Init => OlderContestsUntouched
    BY DEF Init, OlderContestsUntouched
  <1>2. TInv /\ OlderContestsUntouched /\ [Next]_vars => OlderContestsUntouched'
    <2> SUFFICES ASSUME TInv, OlderContestsUntouched, [Next]_vars, NEW r \in related'
                 PROVE  \E id \in DOMAIN contests' : contests'[id] = r.by /\ id <= r.contest
      BY DEF OlderContestsUntouched
    <2>1. ContestsStay
      BY TablesGrow
    <2>2. CASE r \in related
      BY <2>1, <2>2 DEF OlderContestsUntouched, ContestsStay
    <2>3. CASE r \notin related
      <3>1. PICK i \in Imports : RelateProblem(i)
        BY <2>3, TablesGrow
      <3>2. r.by = i /\ r.contest = contest[i] /\ pc[i] = "relate"
        BY <2>3, <3>1 DEF RelateProblem
      <3>3. \E id \in DOMAIN contests : contests[id] = i /\ id <= contest[i]
        BY <3>2 DEF TInv, ContestsGrow, OwnOrNewer, Running, Busy
      <3> QED
        BY <2>1, <3>2, <3>3 DEF ContestsStay
    <2> QED
      BY <2>2, <2>3
  <1> QED
    BY <1>1, <1>2, TInvInit, TInvStep, PTL DEF Spec

\* An import that answers with its report has related each problem of its file
\* to one contest.
THEOREM DoneIsCompleteAlways == Spec => []DoneIsComplete
  <1> DEFINE CInv == Behind /\ AtFirst /\ DoneIsComplete
  <1>1. Init => CInv
    BY DEF Init, Behind, AtFirst, DoneIsComplete, Running, Busy, Waiting
  <1>2. TInv /\ CInv /\ [Next]_vars => CInv'
    <2> SUFFICES ASSUME TInv, CInv, [Next]_vars, NEW i \in Imports
                 PROVE  /\ pc'[i] \in {"new", "inserted"} => at'[i] = 1
                        /\ \A n \in DOMAIN Package[i] :
                             (pc'[i] \in Running /\ n < at'[i]) \/ pc'[i] = "done" =>
                               [contest |-> contest'[i], problem |-> Package[i][n], by |-> i] \in related'
      BY DEF Behind, AtFirst, DoneIsComplete
    <2> USE DEF Running, Busy, Waiting
    <2>1. TypeOK /\ related \subseteq related' /\ at[i] \in DOMAIN Package[i]
      BY TablesGrow DEF TInv, Places, Place
    <2>2. CASE Stays(i)
      BY <2>1, <2>2 DEF Stays, Behind, AtFirst, DoneIsComplete
    <2>3. CASE StepsOn(i)
      BY <2>1, <2>3 DEF StepsOn, Behind, ExtractFiles
    <2>4. CASE pc'[i] = "failed"
      BY <2>4
    <2>5. CASE InsertContest(i)
      BY <2>1, <2>5, PackageBegins DEF InsertContest, AtFirst, Goto, TypeOK
    <2>6. CASE SelectContest(i)
      BY <2>1, <2>6, PackageBegins DEF SelectContest, AtFirst, Goto, TypeOK
    <2>7. CASE RelateProblem(i)
      <3>1. \A n \in DOMAIN Package[i] : n < at[i] \/ n = at[i] =>
              [contest |-> contest[i], problem |-> Package[i][n], by |-> i] \in related'
        BY <2>1, <2>7 DEF RelateProblem, Behind, Current
      <3>2. contest'[i] = contest[i]
        BY <2>7 DEF RelateProblem
      <3>3. CASE at[i] = Len(Package[i])
        <4>1. pc'[i] = "done"
          BY <2>1, <2>7, <3>3 DEF RelateProblem, Advance, Goto, TypeOK
        <4>2. \A n \in DOMAIN Package[i] : n < at[i] \/ n = at[i]
          BY <3>3, PackageBegins
        <4> QED
          BY <3>1, <3>2, <4>1, <4>2
      <3>4. CASE at[i] # Len(Package[i])
        <4>1. pc'[i] = "files" /\ at'[i] = at[i] + 1
          BY <2>1, <2>7, <3>4 DEF RelateProblem, Advance, Goto, TypeOK
        <4>2. \A n \in DOMAIN Package[i] : n < at'[i] => n < at[i] \/ n = at[i]
          BY <4>1, <2>1, PackageBegins
        <4> QED
          BY <3>1, <3>2, <4>1, <4>2
      <3> QED
        BY <3>3, <3>4
    <2> QED
      BY <2>2, <2>3, <2>4, <2>5, <2>6, <2>7, Moves
  <1>3. CInv => DoneIsComplete
    OBVIOUS
  <1> QED
    BY <1>1, <1>2, <1>3, TInvInit, TInvStep, PTL DEF Spec

-----------------------------------------------------------------------------
(***************************************************************************)
(* Files: a problem whose imports neither met nor failed has whole tests   *)
(* once it is related.  First what a step makes of files, jobs and replies. *)
(***************************************************************************)

\* An import whose own work is about to write the input, or the answer, of a test.
WritesInput(i, p, t) ==
  /\ WorksOn(i, p) /\ test[i] = t
  /\ pc[i] \in {"tests", "copying"} \/ (pc[i] = "generating" /\ reply[i] = "none")

WritesAnswer(i, p, t) ==
  WorksOn(i, p) /\ test[i] = t /\ pc[i] = "solving" /\ reply[i] = "none"

\* The files of a clean problem are written for imports that work on it.
LEMMA WhoWrites ==
  ASSUME TInv, Alone, [Next]_vars, NEW p \in Problems, Clean(p), NEW t \in Tests(p)
  PROVE  /\ input'[p][t] # input[p][t] => \E i \in Imports : WritesInput(i, p, t)
         /\ answer'[p][t] # answer[p][t] => \E i \in Imports : WritesAnswer(i, p, t)
  <1> USE DEF TInv
  <1>1. ASSUME NEW i \in Imports, CreateTest(i) \/ CopyTest(i)
        PROVE  /\ answer' = answer
               /\ input'[p][t] # input[p][t] => WritesInput(i, p, t)
    <2>1. /\ pc[i] \in {"tests", "copying"} /\ answer' = answer
          /\ \E content \in {"partial", "whole"} : SetInput(Current(i), test[i], content)
      BY <1>1 DEF CreateTest, CopyTest
    <2>2. Current(i) \in Problems /\ test[i] \in Tests(Current(i))
      BY <1>1, CurrentIsAProblem DEF Places, Place, CreateTest, CopyTest
    <2> QED
      BY <2>1, <2>2, InputIsSet DEF WritesInput, WorksOn, Busy
  <1>2. ASSUME NEW job \in jobs, NEW outcome \in {"ok", "bad"}, Output(job, outcome)
        PROVE  /\ input'[p][t] # input[p][t] => \E i \in Imports : WritesInput(i, p, t)
               /\ answer'[p][t] # answer[p][t] => \E i \in Imports : WritesAnswer(i, p, t)
    <2>1. /\ job.by \in Imports /\ job.problem \in Problems /\ job.kind \in Waiting /\ JobFits(job)
          /\ job.problem = p => pc[job.by] # "failed"
      BY DEF TypeOK, Job, JobsFit, Alone
    <2>2. CASE job.kind = "generating"
      <3>1. /\ answer' = answer /\ job.test \in Tests(job.problem)
            /\ \E content \in {"partial", "whole"} : SetInput(job.problem, job.test, content)
        BY <1>2, <2>1, <2>2 DEF Output, JobFits
      <3>2. job.problem = p => WritesInput(job.by, p, job.test)
        BY <2>1, <2>2 DEF JobFits, WritesInput, WorksOn, Busy, Waiting
      <3> QED
        BY <2>1, <3>1, <3>2, InputIsSet
    <2>3. CASE job.kind = "solving"
      <3>1. /\ input' = input /\ job.test \in Tests(job.problem)
            /\ \E content \in {"wrong", "right"} : SetAnswer(job.problem, job.test, content)
        BY <1>2, <2>1, <2>3 DEF Output, JobFits
      <3>2. job.problem = p => WritesAnswer(job.by, p, job.test)
        BY <2>1, <2>3 DEF JobFits, WritesAnswer, WorksOn, Busy, Waiting
      <3> QED
        BY <2>1, <3>1, <3>2, AnswerIsSet
    <2>4. CASE job.kind = "judging"
      BY <1>2, <2>4 DEF Output, files
    <2> QED
      BY <2>1, <2>2, <2>3, <2>4 DEF Waiting
  <1>3. ASSUME NEW i \in Imports, InsertContest(i) \/ Import(i) \/ Fail(i),
               ~(CreateTest(i) \/ CopyTest(i))
        PROVE  UNCHANGED files
    BY <1>3 DEF InsertContest, Import, Fail, SelectContest, ExtractFiles, FindProblem, InsertProblem,
      SendGenerator, SendSolution, SendJudge, Call, Answered, RelateProblem
  <1>4. CASE UNCHANGED files
    BY <1>4 DEF files
  <1>5. CASE Worker \/ \E job \in jobs : KillJob(job)
    BY <1>5, <1>2, <1>4 DEF Worker, StartJob, RejectJob, FinishJob, KillJob
  <1>6. CASE ServerCrash \/ UNCHANGED vars
    BY <1>6, <1>4 DEF ServerCrash, vars
  <1> QED
    BY <1>1, <1>3, <1>4, <1>5, <1>6 DEF Next, Import

\* Histories only grow.
LEMMA HistoryGrows ==
  ASSUME [Next]_vars
  PROVE  \A p \in Problems : Clean(p)' => Clean(p)
  <1>1. ASSUME NEW i \in Imports, InsertContest(i) \/ Import(i) \/ Fail(i)
        PROVE  overlapped \subseteq overlapped' /\ spoiled \subseteq spoiled'
    <2>1. CASE InsertProblem(i)
      BY <2>1 DEF InsertProblem, GiveUp
    <2>2. CASE Answered(i)
      BY <2>2 DEF Answered, GiveUp
    <2>3. CASE Fail(i)
      BY <2>3 DEF Fail, GiveUp
    <2>4. CASE ExtractFiles(i)
      BY <2>4 DEF ExtractFiles
    <2>5. CASE InsertContest(i) \/ SelectContest(i) \/ FindProblem(i) \/ RelateProblem(i)
      BY <2>5 DEF InsertContest, SelectContest, FindProblem, RelateProblem, history
    <2>6. CASE CreateTest(i) \/ CopyTest(i) \/ SendGenerator(i) \/ SendSolution(i) \/ SendJudge(i)
      BY <2>6 DEF CreateTest, CopyTest, SendGenerator, SendSolution, SendJudge, Call, history
    <2> QED
      BY <1>1, <2>1, <2>2, <2>3, <2>4, <2>5, <2>6 DEF Import
  <1>2. CASE Worker \/ \E job \in jobs : KillJob(job)
    <2>1. UNCHANGED history
      BY <1>2 DEF Worker, StartJob, RejectJob, FinishJob, Reply, KillJob
    <2> QED
      BY <2>1 DEF Clean, history
  <1>3. CASE ServerCrash
    BY <1>3 DEF ServerCrash, GiveUp, Clean
  <1>4. CASE UNCHANGED vars
    BY <1>4 DEF vars, history, Clean
  <1> QED
    BY <1>1, <1>2, <1>3, <1>4 DEF Next, Clean

\* An import that fails while it works on a problem spoils it.
LEMMA FailureSpoils ==
  ASSUME TInv, [Next]_vars, NEW i \in Imports, pc'[i] = "failed", pc[i] \in Busy
  PROVE  Current(i) \in spoiled' /\ jobs' \subseteq jobs
  <1> USE DEF TInv
  <1> Current(i) \in Problems
    BY CurrentIsAProblem DEF Places
  <1>1. ASSUME NEW I \in SUBSET Imports, GiveUp(I) PROVE Current(i) \in spoiled'
    <2>1. i \in I
      BY <1>1, GivenUp DEF Busy, Waiting
    <2> QED
      BY <1>1, <2>1 DEF GiveUp, WorksOn
  <1>2. ASSUME NEW k \in Imports, InsertContest(k) \/ Import(k) \/ Fail(k)
        PROVE  GiveUp({k}) /\ jobs' = jobs
    BY <1>2 DEF InsertContest, Import, Fail, SelectContest, ExtractFiles, FindProblem, InsertProblem,
      CreateTest, CopyTest, SendGenerator, SendSolution, SendJudge, Call, Answered, RelateProblem, Advance,
      TypeOK, Goto, Busy, Waiting
  <1>3. CASE Worker \/ (\E job \in jobs : KillJob(job)) \/ UNCHANGED vars
    BY <1>3 DEF Worker, StartJob, RejectJob, FinishJob, Reply, KillJob, vars, Busy, Waiting
  <1>4. CASE ServerCrash
    BY <1>1, <1>4 DEF ServerCrash
  <1> QED
    BY <1>1, <1>2, <1>3, <1>4 DEF Next

\* Where a job comes from: it was there, it has just started, or it was just sent.
LEMMA JobsFrom ==
  ASSUME TInv, [Next]_vars, NEW job \in jobs'
  PROVE  \/ job \in jobs
         \/ \E old \in jobs :
              /\ job.by = old.by /\ job.kind = old.kind
              /\ job.problem = old.problem /\ job.test = old.test
              /\ old.kind = "solving" => job.saw = input[old.problem][old.test]
         \/ job.by \in Imports /\ job.saw = "queued" /\ pc'[job.by] \in Waiting
  <1> USE DEF TInv
  <1>1. ASSUME NEW i \in Imports, SendGenerator(i) \/ SendSolution(i) \/ SendJudge(i)
        PROVE  job \in jobs \/ (job.by = i /\ job.saw = "queued" /\ pc'[i] \in Waiting)
    <2>1. PICK kind \in Waiting : Call(i, kind)
      BY <1>1 DEF SendGenerator, SendSolution, SendJudge, Waiting
    <2> QED
      BY <2>1 DEF Call, Goto, TypeOK
  <1>2. ASSUME NEW i \in Imports, InsertContest(i) \/ Import(i) \/ Fail(i),
               ~(SendGenerator(i) \/ SendSolution(i) \/ SendJudge(i))
        PROVE  job \in jobs
    BY <1>2 DEF InsertContest, Import, Fail, SelectContest, ExtractFiles, FindProblem, InsertProblem,
      CreateTest, CopyTest, Answered, RelateProblem
  <1>3. ASSUME NEW old \in jobs, StartJob(old)
        PROVE  \/ job \in jobs
               \/ /\ job.by = old.by /\ job.kind = old.kind
                  /\ job.problem = old.problem /\ job.test = old.test
                  /\ old.kind = "solving" => job.saw = input[old.problem][old.test]
    BY <1>3 DEF StartJob, TypeOK, Job
  <1>4. ASSUME NEW old \in jobs, jobs' = jobs \ {old} PROVE job \in jobs
    BY <1>4
  <1>5. CASE Worker \/ \E old \in jobs : KillJob(old)
    BY <1>3, <1>4, <1>5 DEF Worker, RejectJob, FinishJob, Reply, KillJob
  <1>6. CASE ServerCrash \/ UNCHANGED vars
    BY <1>6 DEF ServerCrash, vars
  <1> QED
    BY <1>1, <1>2, <1>5, <1>6 DEF Next, Import

\* An import that works on a problem after a step did so before, or began.
LEMMA WorkBegins ==
  ASSUME TInv, [Next]_vars, NEW i \in Imports, pc'[i] \in Busy
  PROVE  /\ pc[i] \in Busy \/ ExtractFiles(i)
         /\ Current(i)' = Current(i)
  <1>1. Stays(i) \/ StepsOn(i)
    <2>1. ~InsertContest(i) /\ ~SelectContest(i) /\ ~RelateProblem(i) /\ pc'[i] # "failed"
      BY DEF InsertContest, SelectContest, RelateProblem, Advance, Goto, TInv, TypeOK, Busy, Waiting
    <2> QED
      BY <2>1, Moves
  <1> QED
    BY <1>1 DEF Stays, StepsOn, Current

\* Clean problems have one import at work on them at most.
LEMMA AloneStep == TInv /\ Alone /\ [Next]_vars => Alone'
  <1> SUFFICES ASSUME TInv, Alone, [Next]_vars, NEW p \in Problems, Clean(p)'
               PROVE  /\ \A i, k \in Imports : WorksOn(i, p)' /\ WorksOn(k, p)' => i = k
                      /\ \A job \in jobs' : job.problem = p => pc'[job.by] # "failed"
    BY DEF Alone
  <1>1. Clean(p)
    BY HistoryGrows
  <1>2. ASSUME NEW i \in Imports, WorksOn(i, p)'
        PROVE  WorksOn(i, p) \/ (ExtractFiles(i) /\ Current(i) = p)
    BY <1>2, WorkBegins DEF WorksOn
  <1>3. ASSUME NEW i \in Imports, ExtractFiles(i), Current(i) = p, NEW k \in Imports, k # i
        PROVE  ~WorksOn(k, p)'
    <2>1. ~WorksOn(k, p)
      BY <1>3 DEF ExtractFiles, Clean
    <2>2. pc'[k] = pc[k] /\ at'[k] = at[k]
      BY <1>3 DEF ExtractFiles, Goto, TInv, TypeOK
    <2> QED
      BY <2>1, <2>2 DEF WorksOn, Current
  <1>4. \A i, k \in Imports : WorksOn(i, p)' /\ WorksOn(k, p)' => i = k
    BY <1>1, <1>2, <1>3 DEF Alone
  <1>5. ASSUME NEW job \in jobs', job.problem = p, pc'[job.by] = "failed" PROVE FALSE
    <2>1. PICK old \in jobs : old.by = job.by /\ old.problem = p
      BY <1>5, JobsFrom DEF Waiting
    <2>2. old.by \in Imports /\ JobFits(old) /\ old.kind \in Waiting /\ pc[old.by] # "failed"
      BY <1>1, <2>1 DEF TInv, TypeOK, Job, JobsFit, Alone
    <2>3. pc[old.by] \in Busy /\ Current(old.by) = p
      BY <2>1, <2>2 DEF JobFits, Busy
    <2>4. p \in spoiled'
      BY <1>5, <2>1, <2>2, <2>3, FailureSpoils
    <2> QED
      BY <2>4 DEF Clean
  <1> QED
    BY <1>4, <1>5

\* How an import comes to believe in the files of its test.
LEMMA OwnSteps ==
  ASSUME TInv, [Next]_vars, NEW i \in Imports, pc[i] \in Busy, pc'[i] \in Busy
  PROVE  /\ \/ test'[i] = test[i]
            \/ /\ pc[i] = "solving" /\ reply[i] = "ok" /\ test'[i] = test[i] + 1
               /\ pc'[i] = "tests" /\ UNCHANGED files
         /\ pc'[i] \in {"solve", "solving"} \/ (pc'[i] = "generating" /\ reply'[i] = "ok") =>
              \/ CopyTest(i)
              \/ pc[i] \in {"solve", "solving"} \/ (pc[i] = "generating" /\ reply[i] = "ok")
              \/ \E job \in jobs : job.by = i /\ job.kind = "generating" /\ FinishJob(job, "ok")
         /\ pc'[i] = "solving" /\ reply'[i] = "ok" =>
              \/ pc[i] = "solving" /\ reply[i] = "ok"
              \/ \E job \in jobs : job.by = i /\ job.kind = "solving" /\ FinishJob(job, "ok")
  <1> USE DEF TInv
  <1> DEFINE Goal ==
        /\ \/ test'[i] = test[i]
           \/ /\ pc[i] = "solving" /\ reply[i] = "ok" /\ test'[i] = test[i] + 1
              /\ pc'[i] = "tests" /\ UNCHANGED files
        /\ pc'[i] \in {"solve", "solving"} \/ (pc'[i] = "generating" /\ reply'[i] = "ok") =>
             \/ CopyTest(i)
             \/ pc[i] \in {"solve", "solving"} \/ (pc[i] = "generating" /\ reply[i] = "ok")
             \/ \E job \in jobs : job.by = i /\ job.kind = "generating" /\ FinishJob(job, "ok")
        /\ pc'[i] = "solving" /\ reply'[i] = "ok" =>
             \/ pc[i] = "solving" /\ reply[i] = "ok"
             \/ \E job \in jobs : job.by = i /\ job.kind = "solving" /\ FinishJob(job, "ok")
  <1>1. CASE Still(i)
    BY <1>1 DEF Still
  <1>2. CASE FindProblem(i) \/ CreateTest(i)
    BY <1>2 DEF FindProblem, CreateTest, Goto, TypeOK
  <1>3. CASE InsertProblem(i)
    BY <1>3, GivenUp DEF InsertProblem, Goto, TypeOK, Busy, Waiting
  <1>4. CASE CopyTest(i)
    BY <1>4 DEF CopyTest, Goto, TypeOK
  <1>5. CASE SendGenerator(i) \/ SendSolution(i) \/ SendJudge(i)
    <2>1. Place(i)
      BY DEF Places
    <2> QED
      BY <1>5, <2>1 DEF SendGenerator, SendSolution, SendJudge, Call, Goto, TypeOK, Place, Waiting
  <1>6. CASE Answered(i)
    <2>1. CASE GiveUp({i})
      BY <2>1, GivenUp DEF Busy, Waiting
    <2>2. CASE ~Refuses(i)
      <3>1. reply[i] = "ok" /\ UNCHANGED files /\ reply'[i] = "none"
        BY <1>6, <2>2 DEF Answered, Refuses, TypeOK
      <3>2. \/ pc[i] = "generating" /\ pc'[i] = "solve" /\ test'[i] = test[i]
            \/ pc[i] = "solving" /\ pc'[i] = "tests" /\ test'[i] = test[i] + 1
            \/ pc[i] = "judging" /\ pc'[i] = "relate" /\ test'[i] = test[i]
        BY <1>6, <2>2 DEF Answered, Goto, NextTest, TypeOK, Waiting
      <3> QED
        BY <3>1, <3>2
    <2> QED
      BY <1>6, <2>1, <2>2 DEF Answered
  <1>7. CASE InsertContest(i) \/ SelectContest(i) \/ ExtractFiles(i) \/ RelateProblem(i) \/ Fail(i)
    BY <1>7, GivenUp DEF InsertContest, SelectContest, ExtractFiles, RelateProblem, Advance, Fail,
      Goto, TypeOK, Busy, Waiting
  <1>8. ASSUME NEW k \in Imports, InsertContest(k) \/ Import(k) \/ Fail(k) PROVE Goal
    <2>1. k # i => Still(i)
      BY <1>8, TInvImports DEF StillBut
    <2> QED
      BY <1>1, <1>2, <1>3, <1>4, <1>5, <1>6, <1>7, <1>8, <2>1 DEF Import
  <1>9. CASE Worker \/ \E job \in jobs : KillJob(job)
    <2>1. pc'[i] = pc[i] /\ test'[i] = test[i]
      BY <1>9 DEF Worker, StartJob, RejectJob, FinishJob, Reply, KillJob
    <2>2. ASSUME reply'[i] = "ok", reply[i] # "ok"
          PROVE  \E job \in jobs : job.by = i /\ job.kind = pc[i] /\ FinishJob(job, "ok")
      <3>1. PICK job \in jobs : RejectJob(job) \/ FinishJob(job, "ok") \/ FinishJob(job, "bad")
        BY <1>9, <2>2 DEF Worker, StartJob, KillJob
      <3>2. job.by = i /\ FinishJob(job, "ok")
        BY <2>2, <3>1 DEF RejectJob, FinishJob, Reply, TypeOK, Job
      <3>3. job.kind = pc[i]
        BY <3>2 DEF JobsFit, JobFits, Busy, Waiting
      <3> QED
        BY <3>2, <3>3
    <2> QED
      BY <2>1, <2>2
  <1>10. CASE ServerCrash
    BY <1>10, GivenUp DEF ServerCrash, Running, Busy, Waiting
  <1>11. CASE UNCHANGED vars
    BY <1>11, <1>1 DEF vars, Still
  <1> QED
    BY <1>8, <1>9, <1>10, <1>11 DEF Next

\* An import knows what it has made of a clean problem.
LEMMA ProgressStep == TInv /\ Alone /\ Progress /\ [Next]_vars => Progress'
  <1> SUFFICES ASSUME TInv, Alone, Progress, [Next]_vars, NEW i \in Imports,
                      pc'[i] \in Busy, Clean(Current(i))'
               PROVE  Made(i)'
    BY DEF Progress
  <1> DEFINE p == Current(i)
             n == test[i]
  <1>1. Current(i)' = p /\ p \in Problems /\ Place(i) /\ TypeOK
    BY WorkBegins, CurrentIsAProblem DEF TInv, Places
  <1>2. Clean(p)
    BY <1>1, HistoryGrows DEF Clean
  <1>3. CASE ExtractFiles(i)
    <2>1. pc'[i] = "upsert" /\ test'[i] = 1 /\ jobs' = jobs
      BY <1>1, <1>3 DEF ExtractFiles, Goto, TypeOK, Place
    <2>2. \A job \in jobs : job.by # i
      BY <1>3, NoJobOf DEF ExtractFiles, Waiting
    <2> QED
      BY <1>1, <2>1, <2>2, TestsAreNumbered DEF Made
  <1>4. CASE pc[i] \in Busy
    <2>1. Made(i)
      BY <1>2, <1>4 DEF Progress
    <2>2. ASSUME NEW t \in Tests(p), input'[p][t] # input[p][t]
          PROVE  t = n /\ (pc[i] \in {"tests", "copying"} \/ (pc[i] = "generating" /\ reply[i] = "none"))
      BY <1>1, <1>2, <1>4, <2>2, WhoWrites DEF Alone, WritesInput, WorksOn
    <2>3. ASSUME NEW t \in Tests(p), answer'[p][t] # answer[p][t]
          PROVE  t = n /\ pc[i] = "solving" /\ reply[i] = "none"
      BY <1>1, <1>2, <1>4, <2>3, WhoWrites DEF Alone, WritesAnswer, WorksOn
    <2>4. ASSUME NEW t \in Tests(p), t < test'[i]
          PROVE  input'[p][t] = "whole" /\ answer'[p][t] = "right"
      <3>1. Tests(p) = 1 .. Len(Method[p]) /\ Len(Method[p]) \in Nat
        BY <1>1, TestsAreNumbered
      <3>2. t \in Nat
        BY <3>1
      <3>3. n \in Nat
        BY <1>1 DEF TypeOK
      <3>4. test'[i] = n \/ (pc[i] = "solving" /\ reply[i] = "ok" /\ test'[i] = n + 1 /\ UNCHANGED files)
        BY <1>4, OwnSteps
      <3>5. CASE t < n
        BY <2>1, <2>2, <2>3, <3>2, <3>3, <3>5 DEF Made
      <3>6. CASE t = n
        <4>1. pc[i] = "solving" /\ reply[i] = "ok" /\ UNCHANGED files
          BY <2>4, <3>3, <3>4, <3>6
        <4> QED
          BY <2>1, <3>6, <4>1 DEF Made, files
      <3> QED
        BY <2>4, <3>2, <3>3, <3>4, <3>5, <3>6
    <2>5. ASSUME pc'[i] \in {"solve", "solving"} \/ (pc'[i] = "generating" /\ reply'[i] = "ok")
          PROVE  input'[p][test'[i]] = "whole"
      <3>1. test'[i] = n
        BY <1>4, <2>5, OwnSteps
      <3>2. n \in Tests(p)
        <4>1. TInv'
          BY TInvStep
        <4> QED
          BY <1>1, <2>5, <3>1, <4>1 DEF TInv, Places, Place
      <3>3. CASE CopyTest(i)
        BY <1>1, <3>1, <3>2, <3>3, InputIsSet DEF CopyTest, TInv
      <3>4. CASE pc[i] \in {"solve", "solving"} \/ (pc[i] = "generating" /\ reply[i] = "ok")
        BY <2>1, <2>2, <3>1, <3>2, <3>4 DEF Made
      <3>5. ASSUME NEW job \in jobs, job.by = i, job.kind = "generating", FinishJob(job, "ok")
            PROVE  input'[p][test'[i]] = "whole"
        <4>1. JobFits(job) /\ pc[i] # "failed"
          BY <1>4 DEF TInv, JobsFit, Busy, Waiting
        <4>2. job.problem = p /\ job.test = n
          BY <3>5, <4>1 DEF JobFits
        <4>3. SetInput(p, n, "whole")
          BY <3>5, <4>2 DEF FinishJob, Output
        <4> QED
          BY <1>1, <3>1, <3>2, <4>3, InputIsSet DEF TInv
      <3> QED
        BY <1>4, <2>5, <3>3, <3>4, <3>5, OwnSteps
    <2>6. ASSUME pc'[i] = "solving", reply'[i] = "ok" PROVE answer'[p][test'[i]] = "right"
      <3>1. test'[i] = n
        BY <1>4, <2>6, OwnSteps
      <3>2. n \in Tests(p)
        <4>1. TInv'
          BY TInvStep
        <4> QED
          BY <1>1, <2>6, <3>1, <4>1 DEF TInv, Places, Place
      <3>3. CASE pc[i] = "solving" /\ reply[i] = "ok"
        BY <2>1, <2>3, <3>1, <3>2, <3>3 DEF Made
      <3>4. ASSUME NEW job \in jobs, job.by = i, job.kind = "solving", FinishJob(job, "ok")
            PROVE  answer'[p][test'[i]] = "right"
        <4>1. JobFits(job) /\ pc[i] # "failed"
          BY <1>4 DEF TInv, JobsFit, Busy, Waiting
        <4>2. job.problem = p /\ job.test = n
          BY <3>4, <4>1 DEF JobFits
        <4>3. job.saw = "whole"
          BY <2>1, <3>4 DEF Made, FinishJob, Reply
        <4>4. SetAnswer(p, n, "right")
          BY <3>4, <4>2, <4>3 DEF FinishJob, Output
        <4> QED
          BY <1>1, <3>1, <3>2, <4>4, AnswerIsSet DEF TInv
      <3> QED
        BY <1>4, <2>6, <3>3, <3>4, OwnSteps
    <2>7. ASSUME NEW job \in jobs', job.by = i, job.kind = "solving"
          PROVE  job.saw \in {"queued", "whole"}
      <3>1. CASE job \in jobs
        BY <2>1, <2>7, <3>1 DEF Made
      <3>2. ASSUME NEW old \in jobs, job.by = old.by, job.kind = old.kind,
                   job.problem = old.problem, job.test = old.test,
                   job.saw = input[old.problem][old.test]
            PROVE  job.saw = "whole"
        <4>1. JobFits(old) /\ pc[i] # "failed"
          BY <1>4 DEF TInv, JobsFit, Busy, Waiting
        <4>2. pc[i] = "solving" /\ old.problem = p /\ old.test = n
          BY <2>7, <3>2, <4>1 DEF JobFits
        <4> QED
          BY <2>1, <3>2, <4>2 DEF Made
      <3> QED
        BY <2>7, <3>1, <3>2, JobsFrom
    <2> QED
      BY <1>1, <2>4, <2>5, <2>6, <2>7 DEF Made
  <1> QED
    BY <1>3, <1>4, WorkBegins

\* A problem of a contest has all its tests with the right answers, unless an
\* import of it is under way, one failed, or two were at work on it at once.
THEOREM RelatedIsWholeAlways == Spec => []RelatedIsWhole
  <1> DEFINE WInv == Alone /\ Progress /\ RelatedIsWhole
  <1>1. Init => WInv
    BY DEF Init, Alone, Progress, RelatedIsWhole, WorksOn, Busy, Waiting
  <1>2. TInv /\ WInv /\ [Next]_vars => WInv'
    <2> SUFFICES ASSUME TInv, WInv, [Next]_vars, NEW r \in related', Clean(r.problem)',
                        \A i \in Imports : ~WorksOn(i, r.problem)',
                        NEW t \in Tests(r.problem)
                 PROVE  input'[r.problem][t] = "whole" /\ answer'[r.problem][t] = "right"
      BY AloneStep, ProgressStep DEF RelatedIsWhole, Clean
    <2> DEFINE p == r.problem
    <2>1. p \in Problems
      BY TInvStep DEF TInv, TypeOK
    <2>2. Clean(p)
      BY <2>1, HistoryGrows
    <2>3. CASE \E i \in Imports : RelateProblem(i) /\ Current(i) = p
      <3>1. PICK i \in Imports : RelateProblem(i) /\ Current(i) = p
        BY <2>3
      <3>2. pc[i] = "relate" /\ UNCHANGED files
        BY <3>1 DEF RelateProblem
      <3>3. test[i] \in Nat \ {0} /\ test[i] \notin Tests(p)
        BY <3>1, <3>2 DEF TInv, TypeOK, Places, Place
      <3>4. t < test[i]
        BY <2>1, <3>3, TestsAreNumbered
      <3> QED
        BY <2>2, <3>1, <3>2, <3>4 DEF Progress, Made, Busy, files
    <2>4. CASE ~\E i \in Imports : RelateProblem(i) /\ Current(i) = p
      <3>1. r \in related
        BY <2>4, TablesGrow DEF RelateProblem
      <3>2. ASSUME NEW i \in Imports, WorksOn(i, p) PROVE FALSE
        <4>1. pc'[i] \notin Busy
          <5>1. pc'[i] \in Busy => WorksOn(i, p)'
            BY <3>2, WorkBegins DEF WorksOn
          <5> QED
            BY <5>1
        <4>2. pc'[i] # pc[i] /\ pc[i] \in Busy
          BY <3>2, <4>1 DEF WorksOn
        <4>3. pc'[i] = "failed"
          BY <2>4, <3>2, <4>1, <4>2, Moves DEF Stays, StepsOn, WorksOn, InsertContest, SelectContest, Busy, Waiting
        <4> QED
          BY <3>2, <4>2, <4>3, FailureSpoils DEF WorksOn, Clean
      <3>3. input'[p][t] = input[p][t] /\ answer'[p][t] = answer[p][t]
        BY <2>1, <2>2, <3>2, WhoWrites DEF WritesInput, WritesAnswer
      <3> QED
        BY <2>2, <3>1, <3>2, <3>3 DEF RelatedIsWhole, Clean
    <2> QED
      BY <2>3, <2>4
  <1>3. WInv => RelatedIsWhole
    OBVIOUS
  <1> QED
    BY <1>1, <1>2, <1>3, TInvInit, TInvStep, PTL DEF Spec

-----------------------------------------------------------------------------
(***************************************************************************)
(* The imports implement the catalog: what is created, chosen and added,   *)
(* and when, is all the tables show of them.                               *)
(***************************************************************************)

\* An import as the catalog sees it.
LEMMA PhaseOf ==
  ASSUME TypeOK, NEW i \in Imports
  PROVE  /\ pc[i] \in {"new", "done", "failed"} => Phase[i] = pc[i]
         /\ pc[i] = "inserted" => Phase[i] = "created"
         /\ pc[i] \in Busy \cup {"files"} => Phase[i] = "adding"
         /\ Joined[i] = IF pc[i] = "done" THEN at[i] ELSE at[i] - 1
  BY DEF Phase, Joined, Busy, Waiting

\* A move that is none of the catalog's: the import goes on with a problem, or fails.
Works(i) ==
  \/ pc'[i] = pc[i]
  \/ pc[i] \in Busy \cup {"files"} /\ pc'[i] \in Busy
  \/ pc[i] \in Running /\ pc'[i] = "failed"

CatalogRests ==
  /\ UNCHANGED <<contests, related, contest, at>>
  /\ \A i \in Imports : Works(i)

\* Imports that fail were running.
LEMMA OneFails ==
  ASSUME TypeOK, NEW i \in Imports, pc[i] \in Running, GiveUp({i}),
         UNCHANGED <<contests, related, contest, at>>
  PROVE  CatalogRests
  <1>1. pc'[i] = "failed" /\ \A k \in Imports \ {i} : pc'[k] = pc[k]
    BY GivenUp
  <1> QED
    BY <1>1 DEF CatalogRests, Works

\* All steps but three leave the tables as they are.
LEMMA OtherSteps ==
  ASSUME TInv, [Next]_vars,
         ~\E i \in Imports : InsertContest(i) \/ SelectContest(i) \/ RelateProblem(i)
  PROVE  CatalogRests
  <1> USE DEF CatalogRests, Works, TInv
  <1>1. ASSUME NEW i \in Imports, ExtractFiles(i) \/ FindProblem(i) \/ CreateTest(i) \/ CopyTest(i)
        PROVE  CatalogRests
    BY <1>1 DEF ExtractFiles, FindProblem, CreateTest, CopyTest, Goto, TypeOK, tables, Busy
  <1>2. ASSUME NEW i \in Imports, InsertProblem(i)
        PROVE  CatalogRests
    BY <1>2, GivenUp DEF InsertProblem, Goto, TypeOK, Busy, Running
  <1>3. ASSUME NEW i \in Imports, SendGenerator(i) \/ SendSolution(i) \/ SendJudge(i)
        PROVE  CatalogRests
    BY <1>3 DEF SendGenerator, SendSolution, SendJudge, Call, Goto, TypeOK, tables, Busy, Waiting
  <1>4. ASSUME NEW i \in Imports, Answered(i)
        PROVE  CatalogRests
    <2>1. UNCHANGED <<contests, related, contest, at>> /\ pc[i] \in Waiting
      BY <1>4 DEF Answered, tables
    <2>2. CASE GiveUp({i})
      <3>1. pc[i] \in Running
        BY <2>1 DEF Busy, Running
      <3> QED
        BY <2>1, <2>2, <3>1, OneFails
    <2>3. CASE Goto(i, "solve") \/ Goto(i, "tests") \/ Goto(i, "relate")
      BY <2>1, <2>3 DEF Goto, TypeOK, Busy
    <2> QED
      BY <1>4, <2>2, <2>3 DEF Answered, Waiting
  <1>5. ASSUME NEW i \in Imports, Fail(i)
        PROVE  CatalogRests
    BY <1>5, OneFails DEF Fail, tables
  <1>6. CASE Worker \/ \E job \in jobs : KillJob(job)
    BY <1>6 DEF Worker, StartJob, RejectJob, FinishJob, Reply, KillJob, tables
  <1>7. CASE ServerCrash
    <2> DEFINE I == {i \in Imports : pc[i] \in Running}
    <2>1. UNCHANGED <<contests, related, contest, at>> /\ I \in SUBSET Imports /\ GiveUp(I)
      BY <1>7 DEF ServerCrash, tables
    <2>2. (\A k \in Imports \ I : pc'[k] = pc[k]) /\ \A k \in I : pc'[k] = "failed"
      <3> HIDE DEF I
      <3> QED BY <2>1, GivenUp
    <2> QED
      BY <2>1, <2>2
  <1>8. CASE UNCHANGED vars
    BY <1>8 DEF vars, tables
  <1> QED
    BY <1>1, <1>2, <1>3, <1>4, <1>5, <1>6, <1>7, <1>8 DEF Next, Import

\* Seen from the catalog such a step aborts those that fail, maybe nobody.
LEMMA RestIsAbort ==
  ASSUME TInv, CatalogRests
  PROVE  Catalog!Next
  <1> DEFINE I == {i \in Imports : pc'[i] = "failed" /\ pc[i] # "failed"}
  <1>1. ASSUME NEW i \in I PROVE Phase[i] \in {"created", "adding"}
    BY <1>1, PhaseOf DEF TInv, CatalogRests, Works, Running
  <1>2. ASSUME NEW i \in Imports
        PROVE  Phase'[i] = (IF i \in I THEN "failed" ELSE Phase[i]) /\ Joined'[i] = Joined[i]
    <2>1. CASE pc'[i] = pc[i]
      BY <2>1 DEF Phase, Joined, CatalogRests
    <2>2. CASE pc[i] \in Busy \cup {"files"} /\ pc'[i] \in Busy
      BY <2>2 DEF Phase, Joined, CatalogRests, Busy, Waiting
    <2>3. CASE pc[i] \in Running /\ pc'[i] = "failed"
      BY <2>3 DEF Phase, Joined, CatalogRests, Running, Busy, Waiting
    <2> QED
      BY <2>1, <2>2, <2>3 DEF CatalogRests, Works
  <1>3. Phase' = [i \in Imports |-> IF i \in I THEN "failed" ELSE Phase[i]]
    <2> HIDE DEF I
    <2>1. Phase' = [i \in Imports |-> Phase'[i]]
      BY DEF Phase
    <2> QED
      BY <1>2, <2>1
  <1>4. Joined' = Joined
    <2>1. Joined' = [i \in Imports |-> Joined'[i]] /\ Joined = [i \in Imports |-> Joined[i]]
      BY DEF Joined
    <2> QED
      BY <1>2, <2>1
  <1>5. Catalog!Abort(I)
    BY <1>1, <1>3, <1>4 DEF Catalog!Abort, CatalogRests
  <1> QED
    BY <1>5 DEF Catalog!Next

\* The others stay where they are while one import takes a step of the catalog.
LEMMA OneMoves ==
  ASSUME NEW i \in Imports, NEW s, NEW n,
         \A k \in Imports \ {i} : pc'[k] = pc[k] /\ at'[k] = at[k],
         Phase'[i] = s, Joined'[i] = n
  PROVE  Phase' = [Phase EXCEPT ![i] = s] /\ Joined' = [Joined EXCEPT ![i] = n]
  <1>1. ASSUME NEW k \in Imports \ {i} PROVE Phase'[k] = Phase[k] /\ Joined'[k] = Joined[k]
    BY DEF Phase, Joined
  <1>2. /\ Phase' = [k \in Imports |-> Phase'[k]] /\ Joined' = [k \in Imports |-> Joined'[k]]
        /\ Phase = [k \in Imports |-> Phase[k]] /\ Joined = [k \in Imports |-> Joined[k]]
    BY DEF Phase, Joined
  <1> QED
    BY <1>1, <1>2

LEMMA CatalogStep ==
  ASSUME TInv, [Next]_vars
  PROVE  Catalog!Next
  <1>1. ASSUME NEW i \in Imports, InsertContest(i)
        PROVE  Catalog!Next
    <2>1. /\ pc[i] = "new" /\ pc' = [pc EXCEPT ![i] = "inserted"] /\ contests' = Append(contests, i)
          /\ UNCHANGED <<related, contest, at>>
      BY <1>1 DEF InsertContest, Goto
    <2>2. pc'[i] = "inserted" /\ \A k \in Imports \ {i} : pc'[k] = pc[k] /\ at'[k] = at[k]
      BY <2>1 DEF TInv, TypeOK
    <2>3. Phase[i] = "new" /\ Phase'[i] = "created" /\ Joined'[i] = Joined[i]
      BY <2>1, <2>2 DEF Phase, Joined
    <2>4. Phase' = [Phase EXCEPT ![i] = "created"] /\ Joined' = [Joined EXCEPT ![i] = Joined[i]]
      BY <2>2, <2>3, OneMoves
    <2>5. Joined' = Joined
      BY <2>4 DEF Joined
    <2> QED
      BY <2>1, <2>3, <2>4, <2>5 DEF Catalog!Next, Catalog!Create
  <1>2. ASSUME NEW i \in Imports, SelectContest(i)
        PROVE  Catalog!Next
    <2>1. /\ pc[i] = "inserted" /\ pc' = [pc EXCEPT ![i] = "files"]
          /\ contest' = [contest EXCEPT ![i] = Len(contests)]
          /\ UNCHANGED <<contests, related, at>>
      BY <1>2 DEF SelectContest, Goto, Newest, tables
    <2>2. pc'[i] = "files" /\ \A k \in Imports \ {i} : pc'[k] = pc[k] /\ at'[k] = at[k]
      BY <2>1 DEF TInv, TypeOK
    <2>3. Phase[i] = "created" /\ Phase'[i] = "adding" /\ Joined'[i] = Joined[i]
      BY <2>1, <2>2 DEF Phase, Joined
    <2>4. Phase' = [Phase EXCEPT ![i] = "adding"] /\ Joined' = [Joined EXCEPT ![i] = Joined[i]]
      BY <2>2, <2>3, OneMoves
    <2>5. Joined' = Joined
      BY <2>4 DEF Joined
    <2>6. PICK own \in DOMAIN contests : contests[own] = i
      BY <2>1 DEF TInv, ContestsGrow, OwnOrNewer
    <2>7. Len(contests) \in DOMAIN contests /\ own \in 1 .. Len(contests)
      BY <2>6 DEF TInv, TypeOK
    <2> QED
      BY <2>1, <2>3, <2>4, <2>5, <2>6, <2>7 DEF Catalog!Next, Catalog!Choose
  <1>3. ASSUME NEW i \in Imports, RelateProblem(i)
        PROVE  Catalog!Next
    <2> DEFINE s == IF at[i] = Len(Package[i]) THEN "done" ELSE "adding"
    <2>1. /\ pc[i] = "relate" /\ UNCHANGED <<contests, contest>>
          /\ related' = related \cup {[contest |-> contest[i], problem |-> Package[i][at[i]], by |-> i]}
      BY <1>3 DEF RelateProblem, Current
    <2>2. at[i] \in Nat /\ at[i] # 0
      BY DEF TInv, TypeOK
    <2>3. \A k \in Imports \ {i} : pc'[k] = pc[k] /\ at'[k] = at[k]
      BY <1>3 DEF RelateProblem, Advance, Goto, TInv, TypeOK
    <2>4. /\ at[i] = Len(Package[i]) => pc'[i] = "done" /\ at'[i] = at[i]
          /\ at[i] # Len(Package[i]) => pc'[i] = "files" /\ at'[i] = at[i] + 1
      BY <1>3 DEF RelateProblem, Advance, Goto, TInv, TypeOK
    <2>5. Phase[i] = "adding" /\ Phase'[i] = s
      BY <2>1, <2>4 DEF Phase
    <2>6. Joined[i] = at[i] - 1 /\ Joined'[i] = at[i]
      BY <2>1, <2>2, <2>4 DEF Joined
    <2>7. Phase' = [Phase EXCEPT ![i] = s] /\ Joined' = [Joined EXCEPT ![i] = at[i]]
      <3> HIDE DEF s
      <3> QED BY <2>3, <2>5, <2>6, OneMoves
    <2>8. Joined[i] + 1 = at[i]
      BY <2>2, <2>6
    <2>9. Catalog!Add(i)
      BY <2>1, <2>5, <2>6, <2>7, <2>8 DEF Catalog!Add
    <2> QED
      BY <2>9 DEF Catalog!Next
  <1> QED
    BY <1>1, <1>2, <1>3, OtherSteps, RestIsAbort

\* Imports add the problems of their files in order, each once, to a contest that is
\* not older than their own, and nothing else touches the tables: for any number of
\* imports, files and failures.
THEOREM ImportsKeepCatalog == Spec => CatalogSpec
  <1>1. Init => Catalog!Init
    BY DEF Init, Catalog!Init, Phase, Joined
  <1>2. TInv /\ [Next]_vars => [Catalog!Next]_(Catalog!cvars)
    BY CatalogStep
  <1>3. Spec => []TInv
    BY TInvInit, TInvStep, PTL DEF Spec
  <1> QED
    BY <1>1, <1>2, <1>3, PTL DEF Spec, CatalogSpec, Catalog!Spec

-----------------------------------------------------------------------------
(***************************************************************************)
(* Why the loops of an import end: problems, tests and steps of a test     *)
(* that are still before it go down in this order.                         *)
(***************************************************************************)

TestsLeft(i) ==
  IF test[i] \in Tests(Current(i)) THEN Len(Method[Current(i)]) + 1 - test[i] ELSE 0

\* How far pc[i] is from the end of a turn of the inner loop.
Distance(i) ==
  CASE pc[i] = "new"        -> 11
    [] pc[i] = "inserted"   -> 10
    [] pc[i] = "files"      -> 9
    [] pc[i] = "upsert"     -> 8
    [] pc[i] = "insert"     -> 7
    [] pc[i] = "tests"      -> 6
    [] pc[i] = "copying"    -> 5
    [] pc[i] = "generating" -> 5
    [] pc[i] = "solve"      -> 4
    [] pc[i] = "solving"    -> 3
    [] pc[i] = "judging"    -> 2
    [] pc[i] = "relate"     -> 1
    [] OTHER                -> 0

Left(i) == <<Len(Package[i]) - at[i], TestsLeft(i), Distance(i)>>

\* The order of the words in a dictionary.
Less(a, b) ==
  \/ a[1] < b[1]
  \/ a[1] = b[1] /\ a[2] < b[2]
  \/ a[1] = b[1] /\ a[2] = b[2] /\ a[3] < b[3]

LeftIsNat == \A i \in Imports : Left(i) \in Nat \X Nat \X Nat

\* Each step of an import leaves less before it, and no step of others more.
ImportsDescend ==
  [][\A i \in Imports :
       /\ InsertContest(i) \/ Import(i) \/ Fail(i) => Less(Left(i)', Left(i))
       /\ Less(Left(i)', Left(i)) \/ Left(i)' = Left(i)]_vars

\* The invariant makes them natural numbers.
LEMMA LeftNumbers ==
  ASSUME TInv, NEW i \in Imports
  PROVE  /\ Len(Package[i]) - at[i] \in Nat /\ at[i] \in Nat
         /\ TestsLeft(i) \in Nat /\ test[i] \in Nat
         /\ Distance(i) \in Nat
         /\ Current(i) \in Problems
  <1>1. at[i] \in 1 .. Len(Package[i]) /\ Len(Package[i]) \in Nat
    BY PackageBegins DEF TInv, Places, Place
  <1>2. Current(i) \in Problems
    BY CurrentIsAProblem DEF TInv, Places
  <1>3. TestsLeft(i) \in Nat
    BY <1>2, TestsAreNumbered DEF TestsLeft, TInv, TypeOK
  <1>4. Distance(i) \in Nat
    BY DEF Distance
  <1> QED
    BY <1>1, <1>2, <1>3, <1>4 DEF TInv, TypeOK

\* The import is nearer to the end of its turn.
Nearer(i) == at'[i] = at[i] /\ test'[i] = test[i] /\ Distance(i)' < Distance(i)

LEMMA NearerIsLess ==
  ASSUME TInv, NEW i \in Imports, Nearer(i)
  PROVE  Less(Left(i)', Left(i))
  <1>1. TestsLeft(i)' = TestsLeft(i)
    BY DEF Nearer, TestsLeft, Current
  <1> QED
    BY <1>1 DEF Nearer, Less, Left

\* An import that fails is at the end.
LEMMA FailedIsLess ==
  ASSUME TInv, NEW i \in Imports, pc[i] \in Running, pc'[i] = "failed", UNCHANGED <<at, test>>
  PROVE  Less(Left(i)', Left(i))
  <1>1. Nearer(i)
    BY DEF Nearer, Distance, Running, Busy, Waiting
  <1> QED
    BY <1>1, NearerIsLess

\* The answer of the main solution ends the turn of a test.
LEMMA NextTestIsLess ==
  ASSUME TInv, NEW i \in Imports, pc[i] = "solving", NextTest(i), at' = at
  PROVE  Less(Left(i)', Left(i))
  <1>1. Current(i) \in Problems /\ test[i] \in Tests(Current(i)) /\ Current(i)' = Current(i)
    BY CurrentIsAProblem DEF TInv, Places, Place, Current
  <1>2. Tests(Current(i)) = 1 .. Len(Method[Current(i)]) /\ Len(Method[Current(i)]) \in Nat
    BY <1>1, TestsAreNumbered
  <1>3. test'[i] = test[i] + 1
    BY DEF NextTest, TInv, TypeOK
  <1>4. TestsLeft(i)' < TestsLeft(i)
    BY <1>1, <1>2, <1>3 DEF TestsLeft
  <1> QED
    BY <1>4 DEF Less, Left

\* Each step of an import leaves less before it.
LEMMA ImportLeavesLess ==
  ASSUME TInv, NEW i \in Imports, InsertContest(i) \/ Import(i) \/ Fail(i)
  PROVE  Less(Left(i)', Left(i))
  <1> USE DEF TInv
  <1>t. pc \in [Imports -> Running \cup {"new", "done", "failed"}]
    BY DEF TypeOK
  <1>1. ASSUME NEW s \in Running, Goto(i, s), UNCHANGED <<at, test>>,
               \/ pc[i] = "new" /\ s = "inserted"
               \/ pc[i] = "inserted" /\ s = "files"
               \/ pc[i] = "files" /\ s = "upsert"
               \/ pc[i] = "upsert" /\ s \in {"insert", "tests"}
               \/ pc[i] = "insert" /\ s = "tests"
               \/ pc[i] = "tests" /\ s \in {"copying", "generating", "judging"}
               \/ pc[i] \in {"copying", "generating"} /\ s = "solve"
               \/ pc[i] = "solve" /\ s = "solving"
               \/ pc[i] = "judging" /\ s = "relate"
        PROVE  Less(Left(i)', Left(i))
    <2>1. pc'[i] = s
      BY <1>1, <1>t DEF Goto
    <2>2. Nearer(i)
      BY <1>1, <2>1 DEF Nearer, Distance
    <2> QED
      BY <2>2, NearerIsLess
  <1>2. ASSUME pc[i] \in Running, GiveUp({i}), UNCHANGED <<at, test>>
        PROVE  Less(Left(i)', Left(i))
    BY <1>2, GivenUp, FailedIsLess
  <1>3. CASE InsertContest(i) \/ SelectContest(i) \/ ExtractFiles(i) \/ FindProblem(i)
    BY <1>1, <1>3 DEF InsertContest, SelectContest, ExtractFiles, FindProblem, Running, Busy
  <1>4. CASE CreateTest(i) \/ CopyTest(i)
    BY <1>1, <1>4 DEF CreateTest, CopyTest, Running, Busy
  <1>5. CASE SendGenerator(i) \/ SendSolution(i) \/ SendJudge(i)
    BY <1>1, <1>5 DEF SendGenerator, SendSolution, SendJudge, Call, Running, Busy, Waiting
  <1>6. CASE InsertProblem(i)
    BY <1>1, <1>2, <1>6 DEF InsertProblem, Running, Busy
  <1>7. CASE Fail(i)
    BY <1>2, <1>7 DEF Fail
  <1>8. CASE Answered(i)
    <2>1. pc[i] \in Waiting /\ at' = at
      BY <1>8 DEF Answered
    <2>2. CASE GiveUp({i}) /\ UNCHANGED test
      BY <1>2, <2>1, <2>2 DEF Running, Busy
    <2>3. CASE pc[i] = "generating" /\ Goto(i, "solve") /\ UNCHANGED test
      BY <1>1, <2>1, <2>3 DEF Running, Busy
    <2>4. CASE pc[i] = "solving" /\ NextTest(i)
      BY <2>1, <2>4, NextTestIsLess
    <2>5. CASE pc[i] = "judging" /\ Goto(i, "relate") /\ UNCHANGED test
      BY <1>1, <2>1, <2>5 DEF Running, Busy
    <2> QED
      BY <1>8, <2>1, <2>2, <2>3, <2>4, <2>5 DEF Answered, Waiting
  <1>9. CASE RelateProblem(i)
    <2>1. CASE at[i] = Len(Package[i])
      <3>1. pc[i] = "relate" /\ pc'[i] = "done" /\ UNCHANGED <<at, test>>
        BY <1>9, <1>t, <2>1 DEF RelateProblem, Advance, Goto
      <3>2. Nearer(i)
        BY <3>1 DEF Nearer, Distance
      <3> QED
        BY <3>2, NearerIsLess
    <2>2. CASE at[i] # Len(Package[i])
      <3>1. at'[i] = at[i] + 1
        BY <1>9, <2>2 DEF RelateProblem, Advance, TypeOK
      <3>2. Len(Package[i]) - at[i] \in Nat /\ at[i] \in Nat /\ Len(Package[i]) \in Nat
        BY LeftNumbers, PackageBegins
      <3> QED
        BY <3>1, <3>2 DEF Less, Left
    <2> QED
      BY <2>1, <2>2
  <1> QED
    BY <1>3, <1>4, <1>5, <1>6, <1>7, <1>8, <1>9 DEF Import

\* The steps of others leave it as it is, or make it fail.
LEMMA OthersLeaveIt ==
  ASSUME TInv, [Next]_vars, NEW i \in Imports
  PROVE  Less(Left(i)', Left(i)) \/ Left(i)' = Left(i)
  <1> USE DEF TInv
  <1>1. ASSUME pc'[i] = pc[i], at'[i] = at[i], test'[i] = test[i]
        PROVE  Left(i)' = Left(i)
    BY <1>1 DEF Left, TestsLeft, Current, Distance
  <1>2. ASSUME NEW k \in Imports, k # i, InsertContest(k) \/ Import(k) \/ Fail(k)
        PROVE  Left(i)' = Left(i)
    <2>1. ASSUME NEW s, Goto(k, s), UNCHANGED <<at, test>> PROVE Left(i)' = Left(i)
      BY <1>1, <1>2, <2>1 DEF Goto, TypeOK
    <2>2. ASSUME GiveUp({k}), UNCHANGED <<at, test>> PROVE Left(i)' = Left(i)
      BY <1>1, <1>2, <2>2, GivenUp
    <2>3. CASE InsertContest(k) \/ SelectContest(k) \/ ExtractFiles(k) \/ FindProblem(k) \/ CreateTest(k) \/ CopyTest(k)
      BY <2>1, <2>3 DEF InsertContest, SelectContest, ExtractFiles, FindProblem, CreateTest, CopyTest
    <2>4. CASE SendGenerator(k) \/ SendSolution(k) \/ SendJudge(k)
      BY <2>1, <2>4 DEF SendGenerator, SendSolution, SendJudge, Call
    <2>5. CASE InsertProblem(k) \/ Fail(k)
      BY <2>1, <2>2, <2>5 DEF InsertProblem, Fail
    <2>6. CASE Answered(k)
      <3>1. at' = at /\ pc[k] \in Waiting
        BY <2>6 DEF Answered
      <3>2. CASE NextTest(k) /\ Goto(k, "tests")
        <4>1. pc'[i] = pc[i] /\ test'[i] = test[i]
          BY <1>2, <3>2 DEF NextTest, Goto, TypeOK
        <4> QED
          BY <1>1, <3>1, <4>1
      <3> QED
        BY <2>1, <2>2, <2>6, <3>1, <3>2 DEF Answered, Waiting
    <2>7. CASE RelateProblem(k)
      <3>1. pc'[i] = pc[i] /\ at'[i] = at[i] /\ test'[i] = test[i]
        BY <1>2, <2>7 DEF RelateProblem, Advance, Goto, TypeOK
      <3> QED
        BY <1>1, <3>1
    <2> QED
      BY <1>2, <2>3, <2>4, <2>5, <2>6, <2>7 DEF Import
  <1>3. CASE Worker \/ \E job \in jobs : KillJob(job)
    BY <1>1, <1>3 DEF Worker, StartJob, RejectJob, FinishJob, Reply, KillJob
  <1>4. CASE ServerCrash
    <2> DEFINE I == {k \in Imports : pc[k] \in Running}
    <2>1. UNCHANGED <<at, test>> /\ I \in SUBSET Imports /\ GiveUp(I)
      BY <1>4 DEF ServerCrash
    <2>2. (i \notin I => pc'[i] = pc[i]) /\ (i \in I => pc'[i] = "failed")
      <3> HIDE DEF I
      <3> QED BY <2>1, GivenUp
    <2> QED
      BY <1>1, <2>1, <2>2, FailedIsLess
  <1>5. CASE UNCHANGED vars
    BY <1>1, <1>5 DEF vars
  <1> QED
    BY <1>2, <1>3, <1>4, <1>5, ImportLeavesLess DEF Next

\* Behind the property ImportEnds of the run Import_overlap, for files of any
\* length: neither loop of an import runs forever, and no other import, worker or
\* failure sets one back.
THEOREM ImportsGetOn == Spec => []LeftIsNat /\ ImportsDescend
  <1>1. TInv => LeftIsNat
    <2> SUFFICES ASSUME TInv, NEW i \in Imports PROVE Left(i) \in Nat \X Nat \X Nat
      BY DEF LeftIsNat
    <2> QED
      BY LeftNumbers DEF Left
  <1>2. TInv /\ [Next]_vars =>
          [\A i \in Imports :
             /\ InsertContest(i) \/ Import(i) \/ Fail(i) => Less(Left(i)', Left(i))
             /\ Less(Left(i)', Left(i)) \/ Left(i)' = Left(i)]_vars
    BY ImportLeavesLess, OthersLeaveIt
  <1> QED
    BY <1>1, <1>2, TInvInit, TInvStep, PTL DEF Spec, ImportsDescend
=============================================================================
