----------------------------- MODULE JudgeProofs -----------------------------
(***************************************************************************)
(* Theorems about judging, for any number of workers, jobs, tests and      *)
(* crashes, and any sharing of checkers and of files in the boxes.         *)
(***************************************************************************)
EXTENDS Judge, SequenceTheorems, TLAPS

\* What is proved of the parser alone; no line has been read there.
Meta == INSTANCE IsolateMetaProofs WITH lines <- <<>>, MaxLines <- 0

\* Every report gives stats.
LEMMA ReportStats == \A report \in Reports : Parse(report) \in Stats
  BY Meta!ReportsGiveStats
  DEF Meta!Reports, Meta!Parse, Meta!Stats, Meta!ReadLine, Meta!ReadStatus, Meta!Line,
      Meta!NoStats, Meta!NoExit, Meta!Statuses,
      Reports, Parse, Stats, ReadLine, ReadStatus, Line, NoStats, NoExit, Statuses

(***************************************************************************)
(* The inductive invariant, part by part.                                  *)
(***************************************************************************)

\* A worker has a job exactly while it is in one, and no two have the same.
Hired(w) ==
  /\ cur[w] = Nobody <=> step[w] \in {"idle", "dead"}
  /\ cur[w] # Nobody => cur[w] \notin todo /\ result[cur[w]] = "None"

OneEach == \A v, w \in Workers : cur[v] = cur[w] /\ cur[v] # Nobody => v = w

\* Before the tests nothing ran; in them, all that ran passed, and the file that
\* is run holds the submission.
AtTests(w) ==
  LET j == cur[w]
  IN  /\ j \in Judgements
      /\ test[w] \in 1 .. TestCount[j] + 1
      /\ Len(ran[j]) = test[w] - 1
      /\ \A i \in 1 .. test[w] - 1 : Passed(ran[j][i])
      /\ Running(w) = j \/ j \in Silent

AtWork(w) ==
  /\ step[w] \in {"compiling", "installing", "ready"} /\ cur[w] \in Judgements =>
       ran[cur[w]] = <<>>
  /\ step[w] \in {"running", "checking"} => AtTests(w)
  /\ step[w] = "running" /\ test[w] > 1 => last[w] = ran[cur[w]][test[w] - 1].stats
  /\ step[w] = "checking" => test[w] <= TestCount[cur[w]] /\ Succeeded(last[w])

\* Nobody has begun with a job that is still to do.
Untouched(j) ==
  j \in todo => result[j] = "None" /\ (j \in Judgements => ran[j] = <<>>)

\* What is on record of a judgement.
Earned(j) ==
  result[j] = "Accepted" =>
    /\ Len(ran[j]) = TestCount[j] /\ TestCount[j] > 0
    /\ \A i \in DOMAIN ran[j] : Passed(ran[j][i])
    /\ ran[j][TestCount[j]].stats.status = "Ok"

Named(j) ==
  result[j] \in {"WrongAnswer"} \cup (Statuses \ {"Ok"}) =>
    /\ Len(ran[j]) \in 1 .. TestCount[j]
    /\ \A i \in 1 .. Len(ran[j]) - 1 : Passed(ran[j][i])
    /\ Passed(ran[j][Len(ran[j])]) => Len(ran[j]) = TestCount[j]
    /\ result[j] = IF ran[j][Len(ran[j])].stats.status = "Ok" THEN "WrongAnswer"
                   ELSE ran[j][Len(ran[j])].stats.status

OnRecord(j) ==
  /\ \A i \in DOMAIN ran[j] :
       /\ ran[j][i].program = j \/ j \in Silent
       /\ ran[j][i].checker = "partial" => Program[j] \in torn
  /\ Earned(j)
  /\ Named(j)

\* A truncated program is one that its opener is still writing, or died of.
Installing ==
  \A p \in Programs :
    cache[p] = "partial" /\ p \notin torn =>
      /\ opener[p] \in Workers
      /\ step[opener[p]] = "installing" /\ Program[cur[opener[p]]] = p

IInv ==
  /\ TypeOK
  /\ \A w \in Workers : Hired(w) /\ AtWork(w)
  /\ OneEach
  /\ \A j \in Jobs : Untouched(j)
  /\ \A j \in Judgements : OnRecord(j)
  /\ Installing

-----------------------------------------------------------------------------
(***************************************************************************)
(* What a step of one worker leaves to the others.                         *)
(***************************************************************************)

Quiet(v) ==
  /\ step'[v] = step[v] /\ cur'[v] = cur[v] /\ test'[v] = test[v]
  /\ last'[v] = last[v] /\ box'[v] = box[v]

\* The step of a worker on its job: nothing of other workers and jobs changes.
OnItsOwn(w) ==
  /\ cur[w] # Nobody
  /\ \A v \in Workers \ {w} : Quiet(v)
  /\ \A k \in Jobs \ {cur[w]} : result'[k] = result[k]
  /\ \A k \in Judgements \ {cur[w]} : ran'[k] = ran[k]
  /\ todo' = todo
  /\ cur'[w] \in {cur[w], Nobody}

\* The job of a worker is a job.
LEMMA JobOfWorker ==
  ASSUME IInv, NEW w \in Workers, cur[w] # Nobody
  PROVE  cur[w] \in Jobs /\ Program[cur[w]] \in Programs
  BY JudgeAssumption DEF IInv, TypeOK, JudgeAssumption

\* Workers beside the one that moves keep what they know.
LEMMA OthersKeep ==
  ASSUME IInv, NEW w \in Workers, OnItsOwn(w), NEW v \in Workers \ {w}
  PROVE  Hired(v)' /\ AtWork(v)'
  <1>1. Quiet(v) /\ Hired(v) /\ AtWork(v) /\ cur[w] # Nobody
    BY DEF IInv, OnItsOwn
  <1>2. cur[v] # cur[w]
    BY <1>1 DEF IInv, OneEach
  <1>3. cur[v] # Nobody => cur[v] \in Jobs \ {cur[w]}
    BY <1>2, JobOfWorker
  <1>4. Hired(v)'
    BY <1>1, <1>3 DEF Hired, Quiet, OnItsOwn
  <1>5. cur[v] \in Judgements => ran'[cur[v]] = ran[cur[v]]
    BY <1>2 DEF OnItsOwn
  <1>6. AtTests(v) => AtTests(v)'
    BY <1>1, <1>5 DEF AtTests, Quiet, Running
  <1>7. AtWork(v)'
    BY <1>1, <1>5, <1>6 DEF AtWork, AtTests, Quiet
  <1> QED
    BY <1>4, <1>7

\* The record of a job nobody works on stays as it is.
LEMMA RecordKeeps ==
  ASSUME NEW j \in Judgements, OnRecord(j), result'[j] = result[j], ran'[j] = ran[j],
         torn \subseteq torn'
  PROVE  OnRecord(j)'
  BY DEF OnRecord, Earned, Named

\* A worker that does not install, or that crashes, leaves Installing.
LEMMA InstallingKeeps ==
  ASSUME IInv, NEW w \in Workers, \A v \in Workers \ {w} : Quiet(v),
         UNCHANGED <<cache, opener>>, torn \subseteq torn',
         step[w] = "installing" => \A p \in Programs : opener[p] = w => p \in torn'
  PROVE  Installing'
  <1> SUFFICES ASSUME NEW p \in Programs, cache[p] = "partial", p \notin torn'
               PROVE  /\ opener[p] \in Workers
                      /\ step'[opener[p]] = "installing" /\ Program[cur'[opener[p]]] = p
    BY DEF Installing
  <1>1. /\ opener[p] \in Workers
        /\ step[opener[p]] = "installing" /\ Program[cur[opener[p]]] = p
    BY DEF IInv, Installing
  <1>2. opener[p] # w
    BY <1>1
  <1> QED
    BY <1>1, <1>2 DEF Quiet

\* The invariant after the step of a worker, from what it says of that worker.
LEMMA OwnStep ==
  ASSUME IInv, NEW w \in Workers, OnItsOwn(w), NEW j \in Jobs, cur[w] = j, torn \subseteq torn',
         TypeOK', Hired(w)', AtWork(w)', j \in Judgements => OnRecord(j)', Installing'
  PROVE  IInv'
  <1>1. \A v \in Workers : Hired(v)' /\ AtWork(v)'
    BY OthersKeep
  <1>2. OneEach'
    BY DEF IInv, OneEach, OnItsOwn, Quiet
  <1>3. ASSUME NEW k \in Jobs PROVE Untouched(k)'
    <2>1. cur[w] \notin todo
      BY DEF IInv, Hired, OnItsOwn
    <2> QED
      BY <2>1 DEF IInv, Untouched, OnItsOwn
  <1>4. ASSUME NEW k \in Judgements PROVE OnRecord(k)'
    <2>1. k # j => result'[k] = result[k] /\ ran'[k] = ran[k]
      BY DEF OnItsOwn, Jobs
    <2> QED
      BY <2>1, RecordKeeps DEF IInv
  <1> QED
    BY <1>1, <1>2, <1>3, <1>4 DEF IInv

\* A worker that panics, but not while it installs unless that is a crash.
LEMMA PanicKeeps ==
  ASSUME IInv, NEW w \in Workers, NEW j \in Jobs, cur[w] = j, Panic(w), crashes' \in 0 .. MaxCrashes,
         torn \subseteq torn', torn' \subseteq Programs,
         step[w] = "installing" => \A p \in Programs : opener[p] = w => p \in torn'
  PROVE  IInv'
  <1>1. TypeOK'
    BY JudgeAssumption DEF IInv, TypeOK, Panic, Goto, End, JudgeAssumption, Steps, NoStats, Stats, Statuses
  <1> cur[w] # Nobody
    BY JudgeAssumption DEF JudgeAssumption
  <1>2. OnItsOwn(w) /\ cur'[w] = Nobody /\ step'[w] = "dead"
    BY DEF IInv, TypeOK, OnItsOwn, Quiet, Panic, Goto, End
  <1>3. Hired(w)' /\ AtWork(w)'
    BY <1>2, JudgeAssumption DEF Hired, AtWork, JudgeAssumption, Jobs
  <1>4. j \in Judgements => OnRecord(j)'
    BY RecordKeeps DEF IInv, Panic
  <1>5. Installing'
    BY <1>2, InstallingKeeps DEF Panic, OnItsOwn
  <1> QED
    BY <1>1, <1>2, <1>3, <1>4, <1>5, OwnStep

\* A worker that answers.
LEMMA ReturnKeeps ==
  ASSUME IInv, NEW w \in Workers, NEW j \in Jobs, cur[w] = j, NEW r \in Results, Return(w, r),
         step[w] # "installing",
         ran' \in [Judgements -> Seq(FinishedTest)],
         \A k \in Judgements \ {j} : ran'[k] = ran[k],
         WipeBox(w) \/ UNCHANGED box,
         UNCHANGED <<todo, cache, opener, torn, crashes>>,
         j \in Judgements => OnRecord(j)'
  PROVE  IInv'
  <1>1. TypeOK'
    <2>1. box' \in [Workers -> [Files -> Judgements \cup {Nobody}]]
      <3>1. EmptyBox \in [Files -> Judgements \cup {Nobody}]
        BY DEF EmptyBox
      <3> QED
        BY <3>1 DEF IInv, TypeOK, WipeBox
    <2>2. result' \in [Jobs -> Results]
      BY DEF IInv, TypeOK, Return
    <2>3. step' \in [Workers -> Steps] /\ cur' \in [Workers -> Jobs \cup {Nobody}]
      BY DEF IInv, TypeOK, Return, Goto, End, Steps
    <2>4. test' \in [Workers -> Nat] /\ last' \in [Workers -> Stats]
      BY DEF IInv, TypeOK, Return, End, NoStats, Stats, Statuses
    <2> QED
      BY <2>1, <2>2, <2>3, <2>4 DEF IInv, TypeOK
  <1> cur[w] # Nobody
    BY JudgeAssumption DEF JudgeAssumption
  <1>2. OnItsOwn(w) /\ cur'[w] = Nobody /\ step'[w] = "idle"
    BY DEF IInv, TypeOK, OnItsOwn, Quiet, Return, Goto, End, WipeBox, Jobs
  <1>3. Hired(w)' /\ AtWork(w)'
    BY <1>2, JudgeAssumption DEF Hired, AtWork, JudgeAssumption, Jobs
  <1>4. Installing'
    BY <1>2, InstallingKeeps DEF OnItsOwn
  <1> QED
    BY <1>1, <1>2, <1>3, <1>4, OwnStep

\* An answer with a RunCached says nothing of tests.
LEMMA RunCachedKeeps ==
  ASSUME IInv, NEW w \in Workers, NEW j \in Jobs, cur[w] = j, Return(w, "RunCached"),
         step[w] # "installing", WipeBox(w), UNCHANGED <<todo, cache, opener, ran, torn, crashes>>
  PROVE  IInv'
  <1>1. "RunCached" \in Results /\ ran' \in [Judgements -> Seq(FinishedTest)]
    BY DEF Results, IInv, TypeOK
  <1>2. ASSUME j \in Judgements PROVE OnRecord(j)'
    <2>1. result'[j] = "RunCached" /\ ran'[j] = ran[j]
      BY <1>2 DEF Return, IInv, TypeOK, Jobs
    <2>2. OnRecord(j)
      BY <1>2 DEF IInv
    <2> QED
      BY <2>1, <2>2 DEF OnRecord, Earned, Named, Statuses
  <1> QED
    BY <1>1, <1>2, ReturnKeeps

-----------------------------------------------------------------------------
(***************************************************************************)
(* The steps of a worker.                                                  *)
(***************************************************************************)

\* The invariant holds at first ...
LEMMA IInvInit == Init => IInv
  <1> SUFFICES ASSUME Init PROVE IInv
    OBVIOUS
  <1>1. TypeOK
    BY JudgeAssumption DEF Init, TypeOK, JudgeAssumption, EmptyBox, NoStats, Stats, Statuses, Steps, Results
  <1>2. \A w \in Workers : Hired(w) /\ AtWork(w)
    BY JudgeAssumption DEF Init, Hired, AtWork, JudgeAssumption, Jobs
  <1>3. OneEach /\ Installing
    BY DEF Init, OneEach, Installing
  <1>4. \A j \in Jobs : Untouched(j)
    BY DEF Init, Untouched
  <1>5. \A j \in Judgements : OnRecord(j)
    BY DEF Init, OnRecord, Earned, Named, Jobs, Statuses
  <1> QED
    BY <1>1, <1>2, <1>3, <1>4, <1>5 DEF IInv

\* A job begins.
LEMMA BeginKeeps ==
  ASSUME IInv, NEW w \in Workers, NEW j \in Jobs, Begin(w, j)
  PROVE  IInv'
  <1>1. /\ step[w] = "idle" /\ j \in todo /\ todo' = todo \ {j}
        /\ cur[w] = Nobody /\ j # Nobody /\ result[j] = "None"
        /\ j \in Judgements => ran[j] = <<>>
    BY JudgeAssumption DEF Begin, IInv, Hired, Untouched, JudgeAssumption
  <1>2. /\ cur' = [cur EXCEPT ![w] = j]
        /\ step' = [step EXCEPT ![w] = "compiling"] \/ step' = [step EXCEPT ![w] = "ready"]
        /\ UNCHANGED <<box, cache, opener, test, ran, last, result, torn, crashes>>
    BY DEF Begin, Goto
  <1>3. TypeOK'
    BY <1>1, <1>2 DEF IInv, TypeOK, Steps
  <1>4. \A v \in Workers : cur[v] # j
    BY <1>1 DEF IInv, Hired
  <1>5. cur'[w] = j /\ step'[w] \in {"compiling", "ready"}
    BY <1>2 DEF IInv, TypeOK
  <1>6. \A v \in Workers \ {w} : Quiet(v)
    BY <1>2 DEF IInv, TypeOK, Quiet
  <1>7. Hired(w)' /\ AtWork(w)'
    BY <1>1, <1>2, <1>5 DEF Hired, AtWork
  <1>8. ASSUME NEW v \in Workers \ {w} PROVE Hired(v)' /\ AtWork(v)'
    <2>1. Quiet(v) /\ Hired(v) /\ AtWork(v)
      BY <1>6 DEF IInv
    <2>2. Hired(v)'
      BY <1>1, <1>2, <1>4, <2>1 DEF Hired, Quiet
    <2>3. AtTests(v) => AtTests(v)'
      BY <1>2, <2>1 DEF AtTests, Quiet, Running
    <2>4. AtWork(v)'
      BY <1>2, <2>1, <2>3 DEF AtWork, Quiet
    <2> QED
      BY <2>2, <2>4
  <1>9. OneEach'
    BY <1>4, <1>5, <1>6 DEF IInv, OneEach, Quiet
  <1>10. \A k \in Jobs : Untouched(k)'
    BY <1>1, <1>2 DEF IInv, Untouched
  <1>11. \A k \in Judgements : OnRecord(k)'
    BY <1>2 DEF IInv, OnRecord, Earned, Named
  <1>12. Installing'
    BY <1>1, <1>2, <1>6, InstallingKeeps
  <1> QED
    BY <1>3, <1>7, <1>8, <1>9, <1>10, <1>11, <1>12 DEF IInv

\* The compiled checker or program is opened, and it is complete.
LEMMA InstallKeeps ==
  ASSUME IInv, NEW w \in Workers, NEW j \in Jobs, cur[w] = j, OpenInstalled(w) \/ Installed(w)
  PROVE  IInv'
  <1> DEFINE p == Program[j]
  <1>1. cur[w] # Nobody /\ p \in Programs
    BY JudgeAssumption DEF JudgeAssumption
  <1>2. /\ step[w] \in {"compiling", "installing"}
        /\ WipeBox(w) \/ UNCHANGED box
        /\ UNCHANGED <<todo, cur, test, ran, last, result, torn, crashes>>
    BY DEF OpenInstalled, Installed
  <1>3. \/ /\ step[w] = "compiling" /\ step' = [step EXCEPT ![w] = "installing"]
           /\ cache' = [cache EXCEPT ![p] = "partial"] /\ opener' = [opener EXCEPT ![p] = w]
        \/ /\ step' = [step EXCEPT ![w] = "ready"] /\ opener[p] = w
           /\ cache' = [cache EXCEPT ![p] = "whole"] /\ opener' = [opener EXCEPT ![p] = Nobody]
        \/ /\ step' = [step EXCEPT ![w] = "ready"] /\ opener[p] # w
           /\ \E content \in {cache[p], "whole"} : cache' = [cache EXCEPT ![p] = content]
           /\ UNCHANGED opener
    BY DEF OpenInstalled, Installed, Goto
  <1>4. TypeOK'
    <2>1. box' \in [Workers -> [Files -> Judgements \cup {Nobody}]]
      <3>1. EmptyBox \in [Files -> Judgements \cup {Nobody}]
        BY DEF EmptyBox
      <3> QED
        BY <1>2, <3>1 DEF IInv, TypeOK, WipeBox
    <2>2. step' \in [Workers -> Steps] /\ opener' \in [Programs -> Workers \cup {Nobody}]
      BY <1>1, <1>3 DEF IInv, TypeOK, Steps
    <2>3. cache' \in [Programs -> {"absent", "partial", "whole"}]
      BY <1>1, <1>3 DEF IInv, TypeOK
    <2> QED
      BY <1>2, <2>1, <2>2, <2>3 DEF IInv, TypeOK
  <1>5. OnItsOwn(w)
    BY <1>1, <1>2, <1>3 DEF IInv, TypeOK, OnItsOwn, Quiet, WipeBox
  <1>6. step'[w] \in {"installing", "ready"}
    BY <1>3 DEF IInv, TypeOK
  <1>7. Hired(w)' /\ AtWork(w)'
    BY <1>1, <1>2, <1>6 DEF IInv, Hired, AtWork
  <1>8. j \in Judgements => OnRecord(j)'
    BY <1>2, RecordKeeps DEF IInv
  <1>9. Installing'
    <2> SUFFICES ASSUME NEW q \in Programs, cache'[q] = "partial", q \notin torn
                 PROVE  /\ opener'[q] \in Workers
                        /\ step'[opener'[q]] = "installing" /\ Program[cur'[opener'[q]]] = q
      BY <1>2 DEF Installing
    <2>1. ASSUME opener'[q] = opener[q], cache[q] = "partial", opener[q] # w
          PROVE  /\ opener'[q] \in Workers
                 /\ step'[opener'[q]] = "installing" /\ Program[cur'[opener'[q]]] = q
      <3>1. /\ opener[q] \in Workers
            /\ step[opener[q]] = "installing" /\ Program[cur[opener[q]]] = q
        BY <2>1 DEF IInv, Installing
      <3> QED
        BY <1>5, <2>1, <3>1 DEF OnItsOwn, Quiet
    <2>2. CASE q = p
      <3>1. \/ opener'[p] = w /\ step'[w] = "installing" /\ cur'[w] = j
            \/ opener'[p] = opener[p] /\ cache[p] = "partial" /\ opener[p] # w
        BY <1>1, <1>2, <1>3, <2>2 DEF IInv, TypeOK
      <3> QED
        BY <2>1, <2>2, <3>1
    <2>3. CASE q # p
      <3>1. opener'[q] = opener[q] /\ cache[q] = "partial"
        BY <1>1, <1>3, <2>3 DEF IInv, TypeOK
      <3>2. opener[q] # w
        BY <2>3, <3>1 DEF IInv, Installing
      <3> QED
        BY <2>1, <3>1, <3>2
    <2> QED
      BY <2>2, <2>3
  <1> QED
    BY <1>2, <1>4, <1>5, <1>7, <1>8, <1>9, OwnStep

\* The submission is compiled, and its first test comes.
LEMMA CompileKeeps ==
  ASSUME IInv, NEW w \in Workers, NEW j \in Jobs, cur[w] = j, CompileAccepts(w)
  PROVE  IInv'
  <1>1. /\ step[w] = "ready" /\ j \in Judgements /\ cur[w] # Nobody
        /\ step' = [step EXCEPT ![w] = "running"] /\ test' = [test EXCEPT ![w] = 1]
        /\ UNCHANGED <<todo, cur, cache, opener, ran, last, result, torn, crashes>>
    BY JudgeAssumption DEF CompileAccepts, Goto, JudgeAssumption
  <1>2. \/ Output[j] \in Files /\ box' = [box EXCEPT ![w][Output[j]] = j]
        \/ (Output[j] = NoOutput \/ j \in Silent) /\ UNCHANGED box
    BY <1>1 DEF CompileAccepts, Files
  <1>3. TypeOK'
    <2>1. box' \in [Workers -> [Files -> Judgements \cup {Nobody}]]
      <3> DEFINE new == [box[w] EXCEPT ![Output[j]] = j]
      <3>1. box[w] \in [Files -> Judgements \cup {Nobody}]
        BY DEF IInv, TypeOK
      <3>2. new \in [Files -> Judgements \cup {Nobody}]
        BY <1>1, <3>1
      <3>3. UNCHANGED box \/ box' = [box EXCEPT ![w] = new]
        BY <1>2
      <3> HIDE DEF new
      <3> QED
        BY <3>2, <3>3 DEF IInv, TypeOK
    <2>2. step' \in [Workers -> Steps] /\ test' \in [Workers -> Nat]
      BY <1>1 DEF IInv, TypeOK, Steps
    <2> QED
      BY <1>1, <2>1, <2>2 DEF IInv, TypeOK
  <1>4. OnItsOwn(w)
    BY <1>1, <1>2 DEF IInv, TypeOK, OnItsOwn, Quiet
  <1>5. step'[w] = "running" /\ test'[w] = 1 /\ ran[j] = <<>>
    BY <1>1 DEF IInv, TypeOK, AtWork
  <1>6. Running(w)' = j \/ j \in Silent
    BY <1>1, <1>2 DEF Running, IInv, TypeOK
  <1>7. TestCount[j] \in Nat
    BY <1>1, JudgeAssumption DEF JudgeAssumption
  <1>8. AtTests(w)'
    BY <1>1, <1>5, <1>6, <1>7 DEF AtTests
  <1>9. Hired(w)' /\ AtWork(w)'
    BY <1>1, <1>5, <1>8 DEF IInv, Hired, AtWork
  <1>10. OnRecord(j)'
    BY <1>1, RecordKeeps DEF IInv
  <1>11. Installing'
    BY <1>1, <1>4, InstallingKeeps DEF OnItsOwn
  <1> QED
    BY <1>1, <1>3, <1>4, <1>9, <1>10, <1>11, OwnStep

\* What recording a test adds.
LEMMA Recorded ==
  ASSUME IInv, NEW w \in Workers, NEW j \in Judgements, cur[w] = j,
         NEW stats \in Stats, NEW checker \in {"none", "absent", "partial", "whole"},
         NEW accepted \in BOOLEAN, Record(w, stats, checker, accepted)
  PROVE  /\ ran' \in [Judgements -> Seq(FinishedTest)]
         /\ \A k \in Judgements \ {j} : ran'[k] = ran[k]
         /\ Len(ran[j]) \in Nat /\ DOMAIN ran[j] = 1 .. Len(ran[j])
         /\ Len(ran'[j]) = Len(ran[j]) + 1 /\ DOMAIN ran'[j] = 1 .. Len(ran[j]) + 1
         /\ \A i \in 1 .. Len(ran[j]) : ran'[j][i] = ran[j][i]
         /\ ran'[j][Len(ran[j]) + 1] = [program |-> Running(w), stats |-> stats,
                                        checker |-> checker, accepted |-> accepted]
  <1> DEFINE e == [program |-> Running(w), stats |-> stats, checker |-> checker,
                   accepted |-> accepted]
  <1>1. Running(w) \in Judgements \cup {Nobody}
    <2>1. Output[j] # NoOutput => Output[j] \in Files
      BY DEF Files
    <2>2. box[w] \in [Files -> Judgements \cup {Nobody}]
      BY DEF IInv, TypeOK
    <2> QED
      BY <2>1, <2>2 DEF Running
  <1>2. e \in FinishedTest
    BY <1>1 DEF FinishedTest
  <1>3. ran' = [ran EXCEPT ![j] = Append(ran[j], e)]
    BY DEF Record
  <1>4. ran[j] \in Seq(FinishedTest)
    BY DEF IInv, TypeOK
  <1> HIDE DEF e
  <1>5. Append(ran[j], e) \in Seq(FinishedTest)
    BY <1>2, <1>4
  <1>6. /\ Len(ran[j]) \in Nat /\ DOMAIN ran[j] = 1 .. Len(ran[j])
        /\ Len(Append(ran[j], e)) = Len(ran[j]) + 1
        /\ \A i \in 1 .. Len(ran[j]) : Append(ran[j], e)[i] = ran[j][i]
        /\ Append(ran[j], e)[Len(ran[j]) + 1] = e
    BY <1>2, <1>4, AppendProperties
  <1>7. DOMAIN Append(ran[j], e) = 1 .. Len(ran[j]) + 1
    BY <1>5, <1>6
  <1>8. ran' \in [Judgements -> Seq(FinishedTest)]
    BY <1>3, <1>5 DEF IInv, TypeOK
  <1>9. ran'[j] = Append(ran[j], e) /\ \A k \in Judgements \ {j} : ran'[k] = ran[k]
    BY <1>3 DEF IInv, TypeOK
  <1> QED
    BY <1>6, <1>7, <1>8, <1>9 DEF e

\* A test that ends the loop gives the verdict.
LEMMA FailureKeeps ==
  ASSUME IInv, NEW w \in Workers, NEW j \in Judgements, cur[w] = j, AtTests(w),
         step[w] # "installing", test[w] <= TestCount[j],
         NEW stats \in Stats, NEW checker \in {"none", "absent", "partial", "whole"},
         Record(w, stats, checker, FALSE), Return(w, Verdict(stats.status, test[w])),
         checker = "partial" => Program[j] \in torn, UNCHANGED <<todo, box, cache, opener, torn, crashes>>
  PROVE  IInv'
  <1> DEFINE r == Verdict(stats.status, test[w])
             n == Len(ran[j]) + 1
  <1>1. /\ ran' \in [Judgements -> Seq(FinishedTest)]
        /\ \A k \in Judgements \ {j} : ran'[k] = ran[k]
        /\ Len(ran'[j]) = n /\ DOMAIN ran'[j] = 1 .. n /\ Len(ran[j]) \in Nat
        /\ DOMAIN ran[j] = 1 .. Len(ran[j])
        /\ \A i \in 1 .. Len(ran[j]) : ran'[j][i] = ran[j][i]
        /\ ran'[j][n] = [program |-> Running(w), stats |-> stats, checker |-> checker,
                         accepted |-> FALSE]
    <2>1. PICK accepted \in BOOLEAN : accepted = FALSE
      OBVIOUS
    <2>2. Record(w, stats, checker, accepted)
      BY <2>1
    <2>3. /\ ran' \in [Judgements -> Seq(FinishedTest)]
          /\ \A k \in Judgements \ {j} : ran'[k] = ran[k]
          /\ Len(ran[j]) \in Nat /\ DOMAIN ran[j] = 1 .. Len(ran[j])
          /\ Len(ran'[j]) = Len(ran[j]) + 1 /\ DOMAIN ran'[j] = 1 .. Len(ran[j]) + 1
          /\ \A i \in 1 .. Len(ran[j]) : ran'[j][i] = ran[j][i]
          /\ ran'[j][Len(ran[j]) + 1] = [program |-> Running(w), stats |-> stats,
                                         checker |-> checker, accepted |-> accepted]
      BY <2>2, Recorded
    <2> QED
      BY <2>1, <2>3
  <1>2. n = test[w] /\ n \in 1 .. TestCount[j] /\ TestCount[j] \in Nat
    BY JudgeAssumption DEF JudgeAssumption, AtTests, IInv, TypeOK
  <1>3. stats.status \in Statuses
    BY DEF Stats
  <1>4. r = IF stats.status = "Ok" THEN "WrongAnswer" ELSE stats.status
    BY <1>2 DEF Verdict
  <1>5. r \in Results /\ r # "Accepted"
    BY <1>3, <1>4 DEF Results, Statuses
  <1>6. result'[j] = r
    BY DEF Return, IInv, TypeOK, Jobs
  <1>7. Earned(j)'
    BY <1>5, <1>6 DEF Earned
  <1>8. \A i \in 1 .. n - 1 : Passed(ran'[j][i])
    BY <1>1, <1>2 DEF AtTests
  <1>9. ~Passed(ran'[j][n])
    BY <1>1 DEF Passed
  <1>10. Named(j)'
    BY <1>1, <1>2, <1>4, <1>6, <1>8, <1>9 DEF Named
  <1>11. ASSUME NEW i \in DOMAIN ran'[j]
         PROVE  /\ ran'[j][i].program = j \/ j \in Silent
                /\ ran'[j][i].checker = "partial" => Program[j] \in torn
    <2>1. CASE i \in 1 .. Len(ran[j])
      BY <1>1, <2>1 DEF IInv, OnRecord
    <2>2. CASE i = n
      BY <1>1, <2>2 DEF AtTests
    <2> QED
      BY <1>1, <2>1, <2>2
  <1>12. OnRecord(j)'
    BY <1>7, <1>10, <1>11 DEF OnRecord
  <1> HIDE DEF r, n
  <1> QED
    BY <1>1, <1>5, <1>12, ReturnKeeps DEF Jobs, r

\* The checker of a test, that is not being written, is whole or a torn one.
LEMMA CheckerOfTest ==
  ASSUME IInv, NEW j \in Judgements, ~BeingWritten(Program[j])
  PROVE  /\ cache[Program[j]] \in {"absent", "partial", "whole"}
         /\ cache[Program[j]] = "partial" => Program[j] \in torn
  <1>1. Program[j] \in Programs
    BY JudgeAssumption DEF JudgeAssumption, Jobs
  <1> QED
    BY <1>1 DEF IInv, TypeOK, Installing, BeingWritten

\* A test that passed leads to the next one.
LEMMA AcceptKeeps ==
  ASSUME IInv, NEW w \in Workers, NEW j \in Judgements, cur[w] = j, CheckerAccepts(w)
  PROVE  IInv'
  <1> DEFINE n == Len(ran[j]) + 1
             checker == cache[Program[j]]
  <1>1. /\ step[w] = "checking" /\ cur[w] # Nobody /\ ~BeingWritten(Program[j])
        /\ Record(w, last[w], checker, TRUE)
        /\ test' = [test EXCEPT ![w] = @ + 1] /\ step' = [step EXCEPT ![w] = "running"]
        /\ UNCHANGED <<todo, cur, box, cache, opener, last, result, torn, crashes>>
    BY JudgeAssumption DEF CheckerAccepts, Goto, JudgeAssumption, Jobs
  <1>2. /\ AtTests(w) /\ test[w] <= TestCount[j] /\ Succeeded(last[w])
        /\ last[w] \in Stats /\ test[w] \in Nat /\ TestCount[j] \in Nat
        /\ result[j] = "None"
    BY <1>1, JudgeAssumption DEF IInv, AtWork, TypeOK, JudgeAssumption, Hired
  <1>c. /\ checker \in {"none", "absent", "partial", "whole"}
        /\ checker = "partial" => Program[j] \in torn
    BY <1>1, CheckerOfTest
  <1> HIDE DEF checker
  <1>3. /\ ran' \in [Judgements -> Seq(FinishedTest)]
        /\ \A k \in Judgements \ {j} : ran'[k] = ran[k]
        /\ Len(ran'[j]) = n /\ DOMAIN ran'[j] = 1 .. n /\ Len(ran[j]) \in Nat
        /\ DOMAIN ran[j] = 1 .. Len(ran[j])
        /\ \A i \in 1 .. Len(ran[j]) : ran'[j][i] = ran[j][i]
        /\ ran'[j][n] = [program |-> Running(w), stats |-> last[w], checker |-> checker,
                         accepted |-> TRUE]
    <2>1. PICK accepted \in BOOLEAN : accepted = TRUE
      OBVIOUS
    <2>2. Record(w, last[w], checker, accepted)
      BY <1>1, <2>1
    <2>3. /\ ran' \in [Judgements -> Seq(FinishedTest)]
          /\ \A k \in Judgements \ {j} : ran'[k] = ran[k]
          /\ Len(ran[j]) \in Nat /\ DOMAIN ran[j] = 1 .. Len(ran[j])
          /\ Len(ran'[j]) = Len(ran[j]) + 1 /\ DOMAIN ran'[j] = 1 .. Len(ran[j]) + 1
          /\ \A i \in 1 .. Len(ran[j]) : ran'[j][i] = ran[j][i]
          /\ ran'[j][Len(ran[j]) + 1] = [program |-> Running(w), stats |-> last[w],
                                         checker |-> checker, accepted |-> accepted]
      BY <1>2, <1>c, <2>2, Recorded
    <2> QED
      BY <2>1, <2>3
  <1>4. n = test[w] /\ test'[w] = n + 1 /\ step'[w] = "running"
    BY <1>1, <1>2, <1>3 DEF AtTests, IInv, TypeOK
  <1>5. TypeOK'
    BY <1>1, <1>3 DEF IInv, TypeOK, Steps
  <1>6. OnItsOwn(w)
    BY <1>1, <1>3 DEF IInv, TypeOK, OnItsOwn, Quiet
  <1>7. \A i \in 1 .. n : Passed(ran'[j][i])
    <2>1. ASSUME NEW i \in 1 .. Len(ran[j]) PROVE Passed(ran'[j][i])
      BY <1>2, <1>3, <1>4 DEF AtTests
    <2>2. Passed(ran'[j][n])
      BY <1>2, <1>3 DEF Passed
    <2> QED
      BY <1>3, <2>1, <2>2
  <1>8. Running(w)' = Running(w)
    BY <1>1 DEF Running
  <1>9. AtTests(w)'
    BY <1>1, <1>2, <1>3, <1>4, <1>7, <1>8 DEF AtTests
  <1>10. Hired(w)' /\ AtWork(w)'
    BY <1>1, <1>2, <1>3, <1>4, <1>9 DEF IInv, Hired, AtWork
  <1>11. ASSUME NEW i \in DOMAIN ran'[j]
         PROVE  /\ ran'[j][i].program = j \/ j \in Silent
                /\ ran'[j][i].checker = "partial" => Program[j] \in torn
    <2>1. CASE i \in 1 .. Len(ran[j])
      BY <1>3, <2>1 DEF IInv, OnRecord
    <2>2. CASE i = n
      BY <1>2, <1>3, <1>c, <2>2 DEF AtTests
    <2> QED
      BY <1>3, <2>1, <2>2
  <1>12. OnRecord(j)'
    BY <1>1, <1>2, <1>11 DEF OnRecord, Earned, Named, Statuses
  <1>13. Installing'
    BY <1>1, <1>6, InstallingKeeps DEF OnItsOwn
  <1> QED
    BY <1>1, <1>5, <1>6, <1>10, <1>12, <1>13, OwnStep DEF Jobs

\* After the last test the verdict is that of the last run.
LEMMA AllPassedKeeps ==
  ASSUME IInv, NEW w \in Workers, NEW j \in Judgements, cur[w] = j, AllPassed(w)
  PROVE  IInv'
  <1> DEFINE r == Verdict(last[w].status, 0)
             n == TestCount[j]
  <1>1. /\ step[w] = "running" /\ test[w] > n /\ n > 0 /\ Return(w, r)
        /\ UNCHANGED <<todo, box, cache, opener, ran, torn, crashes>>
    BY DEF AllPassed
  <1>2. /\ AtTests(w) /\ test[w] \in Nat /\ n \in Nat /\ last[w] \in Stats
        /\ ran[j] \in Seq(FinishedTest)
    BY <1>1, JudgeAssumption DEF IInv, AtWork, TypeOK, JudgeAssumption
  <1>3. test[w] = n + 1 /\ Len(ran[j]) = n /\ DOMAIN ran[j] = 1 .. n
    BY <1>1, <1>2 DEF AtTests
  <1>4. last[w] = ran[j][n].stats
    BY <1>1, <1>2, <1>3 DEF IInv, AtWork
  <1>5. \A i \in 1 .. n : Passed(ran[j][i])
    BY <1>2, <1>3 DEF AtTests
  <1>6. last[w].status \in Statuses
    BY <1>2 DEF Stats
  <1>7. r = IF last[w].status = "Ok" THEN "Accepted" ELSE last[w].status
    BY DEF Verdict
  <1>8. r \in Results
    BY <1>6, <1>7 DEF Results
  <1>9. result'[j] = r
    BY <1>1 DEF Return, IInv, TypeOK, Jobs
  <1>10. Earned(j)'
    BY <1>1, <1>3, <1>4, <1>5, <1>6, <1>7, <1>9 DEF Earned, Statuses
  <1>11. Named(j)'
    BY <1>1, <1>2, <1>3, <1>4, <1>5, <1>6, <1>7, <1>9 DEF Named, Statuses
  <1>12. OnRecord(j)'
    BY <1>1, <1>10, <1>11 DEF IInv, OnRecord
  <1> HIDE DEF r
  <1>13. ran' \in [Judgements -> Seq(FinishedTest)]
    BY <1>1 DEF IInv, TypeOK
  <1> QED
    BY <1>1, <1>8, <1>12, <1>13, ReturnKeeps DEF Jobs

\* The program runs on a test.
LEMMA RunKeeps ==
  ASSUME IInv, NEW w \in Workers, NEW j \in Judgements, cur[w] = j,
         NEW report \in Reports, RunTest(w, report)
  PROVE  IInv'
  <1> DEFINE stats == Parse(report)
  <1>1. stats \in Stats
    BY ReportStats
  <1> HIDE DEF stats
  <1>2. /\ step[w] = "running" /\ test[w] <= TestCount[j] /\ cur[w] # Nobody
        /\ UNCHANGED <<todo, box, cache, opener, torn, crashes>>
    BY JudgeAssumption DEF RunTest, JudgeAssumption, Jobs
  <1>3. AtTests(w)
    BY <1>2 DEF IInv, AtWork
  <1>4. CASE Failed(stats)
    <2>1. Record(w, stats, "none", FALSE) /\ Return(w, Verdict(stats.status, test[w]))
      BY <1>4 DEF RunTest, stats
    <2> QED
      BY <1>1, <1>2, <1>3, <2>1, FailureKeeps
  <1>5. CASE ~Failed(stats)
    <2>1. /\ step' = [step EXCEPT ![w] = "checking"] /\ last' = [last EXCEPT ![w] = stats]
          /\ UNCHANGED <<cur, test, ran, result>>
      BY <1>5 DEF RunTest, stats, Goto
    <2>2. TypeOK'
      BY <1>1, <1>2, <2>1 DEF IInv, TypeOK, Steps
    <2>3. OnItsOwn(w)
      BY <1>2, <2>1 DEF IInv, TypeOK, OnItsOwn, Quiet
    <2>4. step'[w] = "checking" /\ last'[w] = stats
      BY <2>1 DEF IInv, TypeOK
    <2>5. AtTests(w)'
      BY <1>2, <1>3, <2>1 DEF AtTests, Running
    <2>6. Hired(w)' /\ AtWork(w)'
      BY <1>2, <1>5, <2>1, <2>4, <2>5 DEF IInv, Hired, AtWork, Failed
    <2>7. OnRecord(j)'
      BY <1>2, <2>1, RecordKeeps DEF IInv
    <2>8. Installing'
      BY <1>2, <2>3, InstallingKeeps DEF OnItsOwn
    <2> QED
      BY <1>2, <2>2, <2>3, <2>6, <2>7, <2>8, OwnStep DEF Jobs
  <1> QED
    BY <1>4, <1>5

\* The checker rejects.
LEMMA RejectKeeps ==
  ASSUME IInv, NEW w \in Workers, NEW j \in Judgements, cur[w] = j, CheckerRejects(w)
  PROVE  IInv'
  <1> DEFINE checker == cache[Program[j]]
  <1>1. /\ step[w] = "checking" /\ ~BeingWritten(Program[j]) /\ Record(w, last[w], checker, FALSE)
        /\ Return(w, Verdict(last[w].status, test[w])) /\ UNCHANGED <<todo, box, cache, opener, torn, crashes>>
    BY DEF CheckerRejects
  <1>2. AtTests(w) /\ test[w] <= TestCount[j] /\ last[w] \in Stats
    BY <1>1 DEF IInv, AtWork, TypeOK
  <1>4. /\ checker \in {"absent", "partial", "whole"}
        /\ checker = "partial" => Program[j] \in torn
    BY <1>1, CheckerOfTest
  <1> HIDE DEF checker
  <1> QED
    BY <1>1, <1>2, <1>4, FailureKeeps

\* ... and every step preserves it.
LEMMA IInvStep == IInv /\ [Next]_vars => IInv'
  <1> SUFFICES ASSUME IInv, [Next]_vars PROVE IInv'
    OBVIOUS
  <1>1. CASE UNCHANGED vars
    BY <1>1 DEF vars, IInv, TypeOK, Hired, AtWork, AtTests, Running, OneEach, Untouched, OnRecord,
      Earned, Named, Installing, BeingWritten
  <1>2. ASSUME NEW w \in Workers, NEW j \in Jobs, Begin(w, j) PROVE IInv'
    BY <1>2, BeginKeeps
  <1>3. ASSUME NEW w \in Workers, Restart(w) PROVE IInv'
    <2>1. /\ step[w] = "dead" /\ step' = [step EXCEPT ![w] = "idle"] /\ WipeBox(w)
          /\ UNCHANGED <<todo, cur, cache, opener, test, ran, last, result, torn, crashes>>
      BY <1>3 DEF Restart, Goto
    <2>2. TypeOK'
      <3>1. EmptyBox \in [Files -> Judgements \cup {Nobody}]
        BY DEF EmptyBox
      <3>2. box' \in [Workers -> [Files -> Judgements \cup {Nobody}]]
        BY <2>1, <3>1 DEF IInv, TypeOK, WipeBox
      <3> QED
        BY <2>1, <3>2 DEF IInv, TypeOK, Steps
    <2>3. \A v \in Workers \ {w} : Quiet(v)
      BY <2>1 DEF IInv, TypeOK, Quiet, WipeBox
    <2>4. step'[w] = "idle" /\ cur[w] = Nobody
      BY <2>1 DEF IInv, TypeOK, Hired
    <2>5. Hired(w)' /\ AtWork(w)'
      BY <2>1, <2>4, JudgeAssumption DEF Hired, AtWork, JudgeAssumption, Jobs
    <2>6. ASSUME NEW v \in Workers \ {w} PROVE Hired(v)' /\ AtWork(v)'
      <3>1. Quiet(v) /\ Hired(v) /\ AtWork(v)
        BY <2>3 DEF IInv
      <3>2. AtTests(v) => AtTests(v)'
        BY <2>1, <3>1 DEF AtTests, Quiet, Running
      <3> QED
        BY <2>1, <3>1, <3>2 DEF Hired, AtWork, Quiet
    <2>7. OneEach' /\ \A k \in Jobs : Untouched(k)'
      BY <2>1 DEF IInv, OneEach, Untouched
    <2>8. \A k \in Judgements : OnRecord(k)'
      BY <2>1 DEF IInv, OnRecord, Earned, Named
    <2>9. Installing'
      BY <2>1, <2>3, InstallingKeeps
    <2> QED
      BY <2>2, <2>5, <2>6, <2>7, <2>8, <2>9 DEF IInv
  <1>4. ASSUME NEW w \in Workers, step[w] \notin {"idle", "dead"}, Work(w) \/ Crash(w) PROVE IInv'
    <2>1. PICK j \in Jobs : cur[w] = j
      BY <1>4 DEF IInv, Hired, TypeOK
    <2>2. /\ cur[w] # Nobody /\ crashes \in 0 .. MaxCrashes /\ MaxCrashes \in Nat
          /\ torn \subseteq Programs
      BY <2>1, JudgeAssumption DEF JudgeAssumption, IInv, TypeOK
    <2>3. CASE ProgramRejected(w) \/ CompileRejects(w) \/ RunCachedExits(w)
      BY <2>1, <2>3, RunCachedKeeps DEF ProgramRejected, CompileRejects, RunCachedExits
    <2>4. CASE OpenInstalled(w) \/ Installed(w)
      BY <2>1, <2>4, InstallKeeps
    <2>5. CASE OpenRefused(w) \/ CheckerDoesNotStart(w) \/ NoTests(w) \/ RunCachedKilled(w)
      BY <2>1, <2>2, <2>5, PanicKeeps DEF OpenRefused, CheckerDoesNotStart, NoTests, RunCachedKilled
    <2>6. CASE Crash(w)
      <3>1. /\ Panic(w) /\ crashes' \in 0 .. MaxCrashes
            /\ torn' = torn \cup {p \in Programs : step[w] = "installing" /\ opener[p] = w}
        BY <2>2, <2>6 DEF Crash
      <3>2. torn' \subseteq Programs
        BY <3>1 DEF IInv, TypeOK
      <3>3. step[w] = "installing" => \A p \in Programs : opener[p] = w => p \in torn'
        BY <3>1
      <3> QED
        BY <2>1, <3>1, <3>2, <3>3, PanicKeeps
    <2>7. CASE CompileAccepts(w)
      BY <2>1, <2>7, CompileKeeps
    <2>8. step[w] \in {"running", "checking"} => j \in Judgements
      BY <2>1 DEF IInv, AtWork, AtTests
    <2>9. CASE \E report \in Reports : RunTest(w, report)
      BY <2>1, <2>8, <2>9, RunKeeps DEF RunTest
    <2>10. CASE CheckerRejects(w)
      BY <2>1, <2>8, <2>10, RejectKeeps DEF CheckerRejects
    <2>11. CASE CheckerAccepts(w)
      BY <2>1, <2>8, <2>11, AcceptKeeps DEF CheckerAccepts
    <2>12. CASE AllPassed(w)
      BY <2>1, <2>8, <2>12, AllPassedKeeps DEF AllPassed
    <2>13. ~Restart(w)
      BY <1>4 DEF Restart
    <2> QED
      BY <1>4, <2>3, <2>4, <2>5, <2>6, <2>7, <2>9, <2>10, <2>11, <2>12, <2>13 DEF Work
  <1>5. ASSUME NEW w \in Workers, Work(w) \/ Crash(w), step[w] \in {"idle", "dead"} PROVE Restart(w)
    BY <1>5 DEF Work, Crash, ProgramRejected, OpenInstalled, OpenRefused, Installed, CompileRejects,
      CompileAccepts, RunTest, CheckerRejects, CheckerAccepts, CheckerDoesNotStart, AllPassed, NoTests,
      RunCachedExits, RunCachedKilled
  <1> QED
    BY <1>1, <1>2, <1>3, <1>4, <1>5 DEF Next
-----------------------------------------------------------------------------
\* The inductive invariant of the workers: no two have one job; a worker at its
\* tests has seen all that ran pass, and has its own program in its file unless its
\* compiler wrote none; what is on record of a judgement agrees with its result; and
\* a truncated program is being written by its opener or torn.
THEOREM Invariant == Spec => []IInv
  BY IInvInit, IInvStep, PTL DEF Spec

\* Every variable keeps its type.
THEOREM TypeCorrect == Spec => []TypeOK
  <1>1. IInv => TypeOK
    BY DEF IInv
  <1> QED
    BY <1>1, Invariant, PTL

\* An accepted submission passed every one of its tests: each of its runs exited with
\* 0 and each of its outputs was accepted, by the checker as it was then.
THEOREM AcceptedAreEarned == Spec => []AcceptedIsEarned
  <1>1. IInv => AcceptedIsEarned
    BY DEF IInv, OnRecord, Earned, AcceptedIsEarned
  <1> QED
    BY <1>1, Invariant, PTL

\* The limits were kept on the last test at least: what Judge_limits shows can only
\* happen on a test before it, for the verdict is that of the last run.
AcceptedEndsWithinLimits ==
  \A j \in Judgements :
    result[j] = "Accepted" =>
      TestCount[j] > 0 /\ ran[j][TestCount[j]].stats.status = "Ok"

\* An accepted submission was tested, and its last run exceeded no limit: judge takes
\* its verdict from the status of that run, while it ends the loop on exit codes only.
THEOREM AcceptedEndedWithinLimits == Spec => []AcceptedEndsWithinLimits
  <1>1. IInv => AcceptedEndsWithinLimits
    BY DEF IInv, OnRecord, Earned, AcceptedEndsWithinLimits
  <1> QED
    BY <1>1, Invariant, PTL

\* Any other verdict is that of the last test that ran, the first that failed.
THEOREM VerdictsNameTheFailure == Spec => []VerdictNamesTheFailure
  <1>1. IInv => VerdictNamesTheFailure
    BY DEF IInv, OnRecord, Named, VerdictNamesTheFailure
  <1> QED
    BY <1>1, Invariant, PTL

\* What is in a file of a box, and what ran in a test, is of that file.
Filed ==
  /\ \A w \in Workers : \A f \in Files : box[w][f] # Nobody => Output[box[w][f]] = f
  /\ \A j \in Judgements : \A i \in DOMAIN ran[j] :
       ran[j][i].program # Nobody => Output[ran[j][i].program] = Output[j]

LEMMA RecordFiles ==
  ASSUME IInv, Filed, NEW w \in Workers, NEW j \in Judgements, cur[w] = j, NEW stats \in Stats,
         NEW checker \in {"none", "absent", "partial", "whole"}, NEW accepted \in BOOLEAN,
         Record(w, stats, checker, accepted), UNCHANGED box
  PROVE  Filed'
  <1>1. /\ \A k \in Judgements \ {j} : ran'[k] = ran[k]
        /\ Len(ran[j]) \in Nat /\ DOMAIN ran[j] = 1 .. Len(ran[j])
        /\ DOMAIN ran'[j] = 1 .. Len(ran[j]) + 1
        /\ \A i \in 1 .. Len(ran[j]) : ran'[j][i] = ran[j][i]
        /\ ran'[j][Len(ran[j]) + 1].program = Running(w)
    <2>1. /\ \A k \in Judgements \ {j} : ran'[k] = ran[k]
          /\ Len(ran[j]) \in Nat /\ DOMAIN ran[j] = 1 .. Len(ran[j])
          /\ DOMAIN ran'[j] = 1 .. Len(ran[j]) + 1
          /\ \A i \in 1 .. Len(ran[j]) : ran'[j][i] = ran[j][i]
          /\ ran'[j][Len(ran[j]) + 1] = [program |-> Running(w), stats |-> stats,
                                         checker |-> checker, accepted |-> accepted]
      BY Recorded
    <2> QED
      BY <2>1
  <1>2. Running(w) # Nobody => Output[Running(w)] = Output[j]
    BY DEF Filed, Running, Files
  <1>3. ASSUME NEW i \in DOMAIN ran'[j], ran'[j][i].program # Nobody
        PROVE  Output[ran'[j][i].program] = Output[j]
    <2>1. CASE i \in 1 .. Len(ran[j])
      BY <1>1, <1>3, <2>1 DEF Filed
    <2>2. CASE i = Len(ran[j]) + 1
      BY <1>1, <1>2, <1>3, <2>2
    <2> QED
      BY <1>1, <2>1, <2>2
  <1> QED
    BY <1>1, <1>3 DEF Filed

LEMMA FiledStep == IInv /\ Filed /\ [Next]_vars => Filed'
  <1> SUFFICES ASSUME IInv, Filed, [Next]_vars PROVE Filed'
    OBVIOUS
  <1>1. ASSUME UNCHANGED ran, UNCHANGED box \/ \E w \in Workers : WipeBox(w)
        PROVE  Filed'
    BY <1>1 DEF Filed, WipeBox, EmptyBox, IInv, TypeOK
  <1>2. ASSUME NEW w \in Workers, CompileAccepts(w) PROVE Filed'
    <2>1. cur[w] \in Judgements /\ UNCHANGED ran
      BY <1>2 DEF CompileAccepts
    <2>2. UNCHANGED box \/ box' = [box EXCEPT ![w][Output[cur[w]]] = cur[w]]
      BY <1>2 DEF CompileAccepts
    <2>3. ASSUME NEW v \in Workers, NEW f \in Files
          PROVE  box'[v][f] = box[v][f] \/ (box'[v][f] = cur[w] /\ Output[cur[w]] = f)
      <3> DEFINE new == [box[w] EXCEPT ![Output[cur[w]]] = cur[w]]
      <3>1. new[f] = box[w][f] \/ (new[f] = cur[w] /\ Output[cur[w]] = f)
        BY DEF IInv, TypeOK
      <3>2. UNCHANGED box \/ box' = [box EXCEPT ![w] = new]
        BY <2>2
      <3> HIDE DEF new
      <3> QED
        BY <3>1, <3>2 DEF IInv, TypeOK
    <2> QED
      BY <2>1, <2>3 DEF Filed
  <1>3. ASSUME NEW w \in Workers, step[w] \in {"running", "checking"}
        PROVE  cur[w] \in Judgements /\ last[w] \in Stats
    BY <1>3 DEF IInv, AtWork, AtTests, TypeOK
  <1>4. ASSUME NEW w \in Workers, NEW report \in Reports, RunTest(w, report) PROVE Filed'
    <2> DEFINE stats == Parse(report)
    <2>1. stats \in Stats
      BY ReportStats
    <2> HIDE DEF stats
    <2>2. (Record(w, stats, "none", FALSE) \/ UNCHANGED ran) /\ UNCHANGED box /\ step[w] = "running"
      BY <1>4 DEF RunTest, stats
    <2> QED
      BY <1>1, <1>3, <2>1, <2>2, RecordFiles
  <1>5. ASSUME NEW w \in Workers, CheckerRejects(w) \/ CheckerAccepts(w) PROVE Filed'
    <2>1. /\ step[w] = "checking" /\ ~BeingWritten(Program[cur[w]]) /\ UNCHANGED box
          /\ \E accepted \in BOOLEAN : Record(w, last[w], cache[Program[cur[w]]], accepted)
      BY <1>5 DEF CheckerRejects, CheckerAccepts
    <2>2. cache[Program[cur[w]]] \in {"none", "absent", "partial", "whole"}
      BY <1>3, <2>1, CheckerOfTest
    <2> QED
      BY <1>3, <2>1, <2>2, RecordFiles
  <1>6. ASSUME NEW w \in Workers, NEW j \in Jobs, Begin(w, j) PROVE Filed'
    BY <1>1, <1>6 DEF Begin
  <1>7. CASE UNCHANGED vars
    BY <1>1, <1>7 DEF vars
  <1>8. ASSUME NEW w \in Workers, ProgramRejected(w) \/ OpenInstalled(w) \/ Installed(w)
               \/ CompileRejects(w) \/ AllPassed(w) \/ RunCachedExits(w) \/ Restart(w)
        PROVE  Filed'
    BY <1>1, <1>8 DEF ProgramRejected, OpenInstalled, Installed, CompileRejects, AllPassed,
      RunCachedExits, Restart
  <1>9. ASSUME NEW w \in Workers, OpenRefused(w) \/ CheckerDoesNotStart(w) \/ NoTests(w)
               \/ RunCachedKilled(w) \/ Crash(w)
        PROVE  Filed'
    BY <1>1, <1>9 DEF OpenRefused, CheckerDoesNotStart, NoTests, RunCachedKilled, Crash, Panic
  <1> QED
    BY <1>2, <1>4, <1>5, <1>6, <1>7, <1>8, <1>9 DEF Next, Work

\* A submission whose compiler wrote its file, or that has none, is tested with its own
\* program and with nothing else.  The tests of one whose compiler succeeded without
\* writing it do run what an earlier submission left in the box, but only one whose
\* program is of the same file.
THEOREM TestsRunTheirOwnProgram == Spec => []RunsOwnProgram
  <1>1. Init => Filed
    BY DEF Init, Filed, EmptyBox
  <1>2. IInv /\ Filed => RunsOwnProgram
    BY DEF IInv, OnRecord, Filed, RunsOwnProgram
  <1> QED
    BY <1>1, <1>2, FiledStep, Invariant, PTL DEF Spec

\* Only the death of the worker that emptied a checker's file last, before its copy was
\* complete, can let a truncated checker speak: no number of workers that compile it at
\* once, and no order in which they open and complete it, is enough.
THEOREM PartialNeedsACrash == Spec => []PartialOnlyAfterCrash
  <1>1. IInv => PartialOnlyAfterCrash
    BY DEF IInv, OnRecord, PartialOnlyAfterCrash
  <1> QED
    BY <1>1, Invariant, PTL

(***************************************************************************)
(* The deployment that is shipped: one worker.                             *)
(***************************************************************************)

OneWorker == \A v, w \in Workers : v = w

\* What is compiled or being installed is not installed.
NotInstalled ==
  \A w \in Workers :
    step[w] \in {"compiling", "installing"} => cache[Program[cur[w]]] # "whole"

LEMMA AloneStep ==
  ASSUME OneWorker, IInv, NotInstalled, [Next]_vars
  PROVE  /\ NotInstalled'
         /\ \A p \in Programs : cache[p] = "whole" => cache'[p] = "whole"
  <1>1. CASE UNCHANGED vars
    BY <1>1 DEF vars, NotInstalled
  <1>2. ASSUME NEW w \in Workers, NEW j \in Jobs, Begin(w, j)
        PROVE  NotInstalled' /\ cache' = cache
    BY <1>2 DEF OneWorker, Begin, Goto, NotInstalled, IInv, TypeOK
  <1>3. ASSUME NEW w \in Workers, OpenInstalled(w)
        PROVE  /\ NotInstalled'
               /\ \A p \in Programs : cache[p] = "whole" => cache'[p] = "whole"
    <2>1. cur[w] # Nobody
      BY <1>3 DEF OpenInstalled, IInv, Hired
    <2>2. Program[cur[w]] \in Programs /\ cache[Program[cur[w]]] # "whole"
      BY <1>3, <2>1, JobOfWorker DEF OpenInstalled, NotInstalled
    <2>3. \A p \in Programs : cache[p] = "whole" => cache'[p] = "whole"
      BY <1>3, <2>2 DEF OpenInstalled, IInv, TypeOK
    <2>4. cache'[Program[cur'[w]]] = "partial"
      BY <1>3, <2>2 DEF OpenInstalled, IInv, TypeOK
    <2> QED
      BY <2>3, <2>4 DEF OneWorker, NotInstalled
  <1>4. ASSUME NEW w \in Workers, Installed(w)
        PROVE  /\ NotInstalled'
               /\ \A p \in Programs : cache[p] = "whole" => cache'[p] = "whole"
    BY <1>4 DEF OneWorker, Installed, Goto, NotInstalled, IInv, TypeOK
  <1>5. ASSUME NEW w \in Workers, Work(w) \/ Crash(w), ~OpenInstalled(w), ~Installed(w)
        PROVE  cache' = cache /\ step'[w] \notin {"compiling", "installing"}
    BY <1>5 DEF Work, Crash, Restart, ProgramRejected, OpenRefused, CompileRejects, CompileAccepts,
      RunTest, CheckerRejects, CheckerAccepts, CheckerDoesNotStart, AllPassed, NoTests,
      RunCachedExits, RunCachedKilled, Panic, Return, Goto, IInv, TypeOK
  <1>6. ASSUME NEW w \in Workers, Work(w) \/ Crash(w), ~OpenInstalled(w), ~Installed(w)
        PROVE  NotInstalled'
    BY <1>5, <1>6 DEF OneWorker, NotInstalled
  <1> QED
    BY <1>1, <1>2, <1>3, <1>4, <1>5, <1>6 DEF Next

\* With one worker an installed checker is never written again, although a second
\* one may empty it while it is being run.
THEOREM CacheStaysWholeAlone ==
  ASSUME OneWorker
  PROVE  Spec => CacheStaysWhole
  <1>1. Init => NotInstalled
    BY DEF Init, NotInstalled
  <1>2. IInv /\ NotInstalled /\ [Next]_vars => NotInstalled'
    BY OneWorker, AloneStep
  <1>3. IInv /\ NotInstalled /\ [Next]_vars =>
          [\A p \in Programs : cache[p] = "whole" => cache'[p] = "whole"]_vars
    BY OneWorker, AloneStep
  <1> QED
    BY <1>1, <1>2, <1>3, Invariant, PTL DEF Spec, CacheStaysWhole

-----------------------------------------------------------------------------
(***************************************************************************)
(* The workers keep their contract.                                        *)
(***************************************************************************)

LEMMA VerdictIsAnswer ==
  ASSUME NEW status \in Statuses, NEW failed
  PROVE  Verdict(status, failed) \in Results \ {"None"}
  BY DEF Verdict, Results, Statuses

\* The end of a job is an answer, if it is one the job may have ...
LEMMA ReturnAnswers ==
  ASSUME IInv, NEW w \in Workers, cur[w] # Nobody, NEW r, Return(w, r), todo' = todo,
         r \in Answers[w][cur[w]]
  PROVE  Contract!Next
  <1>1. cur[w] \in Jobs /\ result[cur[w]] = "None"
    BY JobOfWorker DEF IInv, Hired
  <1>2. r \in Results
    BY <1>1 DEF Answers, Results
  <1>3. Contract!Answer(w, r)
    BY <1>1 DEF Contract!Answer, Return, End
  <1> QED
    BY <1>2, <1>3 DEF Contract!Next

\* ... and without a result it is given up.
LEMMA PanicGivesUp ==
  ASSUME IInv, NEW w \in Workers, cur[w] # Nobody, Panic(w)
  PROVE  Contract!Next
  <1>1. cur[w] \in Jobs
    BY JobOfWorker
  <1>2. Contract!GiveUp(w)
    BY <1>1 DEF Contract!GiveUp, Panic, End
  <1> QED
    BY <1>2 DEF Contract!Next

LEMMA ContractStep == IInv /\ [Next]_vars => [Contract!Next]_(Contract!cvars)
  <1> SUFFICES ASSUME IInv, [Next]_vars PROVE Contract!Next \/ UNCHANGED <<todo, cur, result>>
    BY DEF Contract!cvars
  <1>1. CASE UNCHANGED vars
    BY <1>1 DEF vars
  <1>2. ASSUME NEW w \in Workers, NEW j \in Jobs, Begin(w, j) PROVE Contract!Next
    <2>1. cur[w] = Nobody
      BY <1>2 DEF Begin, IInv, Hired
    <2>2. Contract!Take(w, j)
      BY <1>2, <2>1 DEF Begin, Contract!Take
    <2> QED
      BY <2>2 DEF Contract!Next
  <1>3. ASSUME NEW w \in Workers, step[w] \notin {"idle", "dead"}, Work(w) \/ Crash(w)
        PROVE  Contract!Next \/ UNCHANGED <<todo, cur, result>>
    <2>1. cur[w] # Nobody /\ cur[w] \in Jobs
      BY <1>3, JobOfWorker DEF IInv, Hired
    <2>2. "RunCached" \in Answers[w][cur[w]]
      BY <2>1 DEF Answers, Results
    <2>3. CASE ProgramRejected(w) \/ CompileRejects(w) \/ RunCachedExits(w)
      BY <2>1, <2>2, <2>3, ReturnAnswers DEF ProgramRejected, CompileRejects, RunCachedExits
    <2>4. CASE OpenRefused(w) \/ CheckerDoesNotStart(w) \/ NoTests(w) \/ RunCachedKilled(w) \/ Crash(w)
      BY <2>1, <2>4, PanicGivesUp
      DEF OpenRefused, CheckerDoesNotStart, NoTests, RunCachedKilled, Crash
    <2>5. CASE OpenInstalled(w) \/ Installed(w) \/ CompileAccepts(w) \/ CheckerAccepts(w)
      BY <2>5 DEF OpenInstalled, Installed, CompileAccepts, CheckerAccepts
    <2>6. ASSUME step[w] \in {"running", "checking"}, NEW status \in Statuses, NEW failed
          PROVE  Verdict(status, failed) \in Answers[w][cur[w]]
      <3>1. cur[w] \in Judgements
        BY <2>6 DEF IInv, AtWork, AtTests
      <3>2. cur[w] \notin RunJobs
        BY <3>1, JudgeAssumption DEF JudgeAssumption
      <3> QED
        BY <2>1, <3>2, VerdictIsAnswer DEF Answers
    <2>7. last[w].status \in Statuses
      BY DEF IInv, TypeOK, Stats
    <2>8. CASE CheckerRejects(w) \/ AllPassed(w)
      BY <2>1, <2>6, <2>7, <2>8, ReturnAnswers DEF CheckerRejects, AllPassed
    <2>9. ASSUME NEW report \in Reports, RunTest(w, report)
          PROVE  Contract!Next \/ UNCHANGED <<todo, cur, result>>
      <3> DEFINE stats == Parse(report)
      <3>1. stats.status \in Statuses
        BY ReportStats DEF Stats
      <3> HIDE DEF stats
      <3>2. \/ Return(w, Verdict(stats.status, test[w]))
            \/ UNCHANGED <<cur, result>>
        BY <2>9 DEF RunTest, stats
      <3>3. step[w] = "running" /\ todo' = todo
        BY <2>9 DEF RunTest
      <3> QED
        BY <2>1, <2>6, <3>1, <3>2, <3>3, ReturnAnswers
    <2>10. ~Restart(w)
      BY <1>3 DEF Restart
    <2> QED
      BY <1>3, <2>3, <2>4, <2>5, <2>8, <2>9, <2>10 DEF Work
  <1>4. ASSUME NEW w \in Workers, step[w] \in {"idle", "dead"}, Work(w) \/ Crash(w)
        PROVE  UNCHANGED <<todo, cur, result>>
    <2>1. Restart(w)
      BY <1>4 DEF Work, Crash, ProgramRejected, OpenInstalled, OpenRefused, Installed, CompileRejects,
        CompileAccepts, RunTest, CheckerRejects, CheckerAccepts, CheckerDoesNotStart, AllPassed, NoTests,
        RunCachedExits, RunCachedKilled
    <2> QED
      BY <2>1 DEF Restart
  <1> QED
    BY <1>1, <1>2, <1>3, <1>4 DEF Next

\* Workers that crash, panic and share compiled programs do with their jobs what the
\* server expects of them, and no job is answered with anything but its own kind of
\* answer.
THEOREM WorkersKeepContract == Spec => ContractSpec
  <1>1. Init => Contract!Init
    BY DEF Init, Contract!Init
  <1> QED
    BY <1>1, ContractStep, Invariant, PTL DEF Spec, ContractSpec, Contract!Spec

-----------------------------------------------------------------------------
(***************************************************************************)
(* Why a worker comes back: a number of steps, fixed when the job begins,  *)
(* is all it can take before it is idle again.                             *)
(***************************************************************************)

\* The tests of a job; a cached run has none.
TestsOf(j) == IF j \in Judgements THEN TestCount[j] ELSE 0

\* The steps w has before it at most.
StepsLeft(w) ==
  LET tests == TestsOf(cur[w])
  IN  CASE step[w] = "idle"       -> 0
        [] step[w] = "dead"       -> 1
        [] step[w] = "checking"   -> 2 * (tests + 1 - test[w]) + 1
        [] step[w] = "running"    -> 2 * (tests + 1 - test[w]) + 2
        [] step[w] = "ready"      -> 2 * tests + 3
        [] step[w] = "installing" -> 2 * tests + 4
        [] step[w] = "compiling"  -> 2 * tests + 5

StepsLeftAreNat == \A w \in Workers : StepsLeft(w) \in Nat

\* Each step of a worker on its job, a crash too, leaves it fewer, and no step of
\* another worker gives it more.
WorkDescends ==
  [][\A w \in Workers :
       /\ Work(w) \/ Crash(w) => StepsLeft(w)' < StepsLeft(w)
       /\ step[w] # "idle" => StepsLeft(w)' <= StepsLeft(w)]_vars

\* In a job there are two steps left at least: its last one may be a panic.
LEMMA StepsAreLeft ==
  ASSUME IInv, NEW w \in Workers
  PROVE  /\ TestsOf(cur[w]) \in Nat
         /\ StepsLeft(w) \in Nat
         /\ step[w] \notin {"idle", "dead"} => StepsLeft(w) >= 2
  <1>1. TestsOf(cur[w]) \in Nat
    BY JudgeAssumption DEF JudgeAssumption, TestsOf
  <1>2. test[w] \in Nat /\ step[w] \in Steps
    BY DEF IInv, TypeOK
  <1>3. step[w] \in {"running", "checking"} => test[w] <= TestsOf(cur[w]) + 1
    BY <1>2, JudgeAssumption DEF IInv, AtWork, AtTests, TestsOf, JudgeAssumption
  <1>4. step[w] = "checking" => test[w] <= TestsOf(cur[w])
    BY <1>2, JudgeAssumption DEF IInv, AtWork, AtTests, TestsOf, JudgeAssumption
  <1> QED
    BY <1>1, <1>2, <1>3, <1>4 DEF StepsLeft, Steps

\* A worker that answers has none left, and one that panics its restart.
LEMMA AfterTheJob ==
  ASSUME IInv, NEW w \in Workers
  PROVE  /\ step'[w] = "idle" => StepsLeft(w)' = 0
         /\ step'[w] = "dead" => StepsLeft(w)' = 1
  BY DEF StepsLeft

LEMMA WorkLeavesLess ==
  ASSUME IInv, NEW w \in Workers, Work(w) \/ Crash(w)
  PROVE  StepsLeft(w)' < StepsLeft(w)
  <1>1. /\ TestsOf(cur[w]) \in Nat /\ test[w] \in Nat
        /\ step[w] \notin {"idle", "dead"} => StepsLeft(w) >= 2
        /\ StepsLeft(w) \in Nat
    BY StepsAreLeft DEF IInv, TypeOK
  <1>t. step \in [Workers -> Steps] /\ test \in [Workers -> Nat]
    BY DEF IInv, TypeOK
  <1>2. ASSUME step[w] \notin {"idle", "dead"}, NEW s \in {"idle", "dead"}, Goto(w, s)
        PROVE  StepsLeft(w)' < StepsLeft(w)
    <2>1. step'[w] = s
      BY <1>2, <1>t DEF Goto
    <2> QED
      BY <1>1, <1>2, <2>1, AfterTheJob
  <1>3. CASE OpenRefused(w) \/ CheckerDoesNotStart(w) \/ NoTests(w) \/ RunCachedKilled(w) \/ Crash(w)
    BY <1>2, <1>3 DEF OpenRefused, CheckerDoesNotStart, NoTests, RunCachedKilled, Crash, Panic
  <1>4. CASE ProgramRejected(w) \/ CompileRejects(w) \/ RunCachedExits(w) \/ CheckerRejects(w) \/ AllPassed(w)
    BY <1>2, <1>4 DEF ProgramRejected, CompileRejects, RunCachedExits, CheckerRejects, AllPassed, Return
  <1>5. CASE OpenInstalled(w) \/ Installed(w)
    BY <1>1, <1>5, <1>t DEF OpenInstalled, Installed, Goto, StepsLeft
  <1>6. CASE CompileAccepts(w)
    BY <1>1, <1>6, <1>t DEF CompileAccepts, Goto, StepsLeft
  <1>7. CASE CheckerAccepts(w)
    BY <1>1, <1>7, <1>t DEF CheckerAccepts, Goto, StepsLeft
  <1>8. ASSUME NEW report \in Reports, RunTest(w, report)
        PROVE  StepsLeft(w)' < StepsLeft(w)
    <2>1. step[w] = "running"
      BY <1>8 DEF RunTest
    <2>2. Goto(w, "idle") \/ (Goto(w, "checking") /\ UNCHANGED <<cur, test>>)
      BY <1>8 DEF RunTest, Return
    <2>3. ASSUME Goto(w, "checking"), UNCHANGED <<cur, test>>
          PROVE  StepsLeft(w)' < StepsLeft(w)
      BY <1>1, <1>t, <2>1, <2>3 DEF Goto, StepsLeft
    <2> QED
      BY <1>2, <2>1, <2>2, <2>3
  <1>9. CASE Restart(w)
    BY <1>9, <1>t, AfterTheJob DEF Restart, Goto, StepsLeft
  <1> QED
    BY <1>3, <1>4, <1>5, <1>6, <1>7, <1>8, <1>9 DEF Work

\* What w has left does not depend on other workers.
LEMMA OthersTakeNoSteps ==
  ASSUME IInv, [Next]_vars, NEW w \in Workers, step[w] # "idle"
  PROVE  StepsLeft(w)' < StepsLeft(w) \/ StepsLeft(w)' = StepsLeft(w)
  <1>t. step \in [Workers -> Steps] /\ test \in [Workers -> Nat] /\ cur \in [Workers -> Jobs \cup {Nobody}]
    BY DEF IInv, TypeOK
  <1>1. ASSUME step'[w] = step[w], cur'[w] = cur[w], test'[w] = test[w]
        PROVE  StepsLeft(w)' = StepsLeft(w)
    BY <1>1 DEF StepsLeft
  <1>2. ASSUME NEW v \in Workers, v # w, NEW j \in Jobs, Begin(v, j)
        PROVE  StepsLeft(w)' = StepsLeft(w)
    BY <1>1, <1>2, <1>t DEF Begin, Goto
  <1>3. ASSUME NEW v \in Workers, v # w, Work(v) \/ Crash(v)
        PROVE  StepsLeft(w)' = StepsLeft(w)
    <2>1. ASSUME NEW s, Goto(v, s), UNCHANGED cur \/ End(v), UNCHANGED test \/ End(v) \/ (\E n : test' = [test EXCEPT ![v] = n])
          PROVE  StepsLeft(w)' = StepsLeft(w)
      BY <1>1, <1>3, <1>t, <2>1 DEF Goto, End
    <2>2. ASSUME NEW report \in Reports, RunTest(v, report) PROVE StepsLeft(w)' = StepsLeft(w)
      BY <2>1, <2>2 DEF RunTest, Return
    <2>3. CASE OpenRefused(v) \/ CheckerDoesNotStart(v) \/ NoTests(v) \/ RunCachedKilled(v) \/ Crash(v)
      BY <2>1, <2>3 DEF OpenRefused, CheckerDoesNotStart, NoTests, RunCachedKilled, Crash, Panic
    <2>4. CASE ProgramRejected(v) \/ CompileRejects(v) \/ RunCachedExits(v) \/ CheckerRejects(v) \/ AllPassed(v)
      BY <2>1, <2>4 DEF ProgramRejected, CompileRejects, RunCachedExits, CheckerRejects, AllPassed, Return
    <2>5. CASE OpenInstalled(v) \/ Installed(v) \/ CompileAccepts(v) \/ CheckerAccepts(v) \/ Restart(v)
      BY <2>1, <2>5 DEF OpenInstalled, Installed, CompileAccepts, CheckerAccepts, Restart
    <2> QED
      BY <1>3, <2>2, <2>3, <2>4, <2>5 DEF Work
  <1>4. ASSUME NEW j \in Jobs, Begin(w, j) PROVE FALSE
    BY <1>4 DEF Begin
  <1>5. CASE UNCHANGED vars
    BY <1>1, <1>5 DEF vars
  <1> QED
    BY <1>2, <1>3, <1>4, <1>5, WorkLeavesLess DEF Next

\* Behind the property WorkerComesBack of the run Judge_one_worker, for jobs with
\* any number of tests: once a worker has a job, its own steps and panics count down
\* to its next turn, and nothing other workers do to the shared programs sets it back.
THEOREM WorkLeadsBack == Spec => []StepsLeftAreNat /\ WorkDescends
  <1>1. IInv => StepsLeftAreNat
    BY StepsAreLeft DEF StepsLeftAreNat
  <1>2. IInv /\ [Next]_vars =>
          [\A w \in Workers :
             /\ Work(w) \/ Crash(w) => StepsLeft(w)' < StepsLeft(w)
             /\ step[w] # "idle" => StepsLeft(w)' <= StepsLeft(w)]_vars
    <2> SUFFICES ASSUME IInv, [Next]_vars, NEW w \in Workers
                 PROVE  /\ Work(w) \/ Crash(w) => StepsLeft(w)' < StepsLeft(w)
                        /\ step[w] # "idle" => StepsLeft(w)' <= StepsLeft(w)
      OBVIOUS
    <2>1. StepsLeft(w) \in Nat /\ StepsLeft(w)' \in Nat
      <3>1. IInv'
        BY IInvStep
      <3>2. StepsLeftAreNat'
        BY <1>1, <3>1, PTL
      <3> QED
        BY <3>2, StepsAreLeft DEF StepsLeftAreNat
    <2> QED
      BY <2>1, WorkLeavesLess, OthersTakeNoSteps
  <1> QED
    BY <1>1, <1>2, Invariant, PTL DEF Spec, WorkDescends
=============================================================================
