---------------------------- MODULE ImportContest ----------------------------
(***************************************************************************)
(* Importing a contest (create_contest in src/main.rs).  A handler inserts *)
(* a contest and then, problem by problem, puts the files of the package   *)
(* into /data, makes the row of the problem, makes the input and the       *)
(* answer of each test, has the main solution judged and relates the       *)
(* problem to the contest.  Inputs that are generated and all answers are  *)
(* written by the workers.  Nothing is a transaction and nothing is undone *)
(* when the import fails, and imports of one problem share its files.      *)
(***************************************************************************)
EXTENDS Naturals, Sequences

CONSTANTS
  Imports,        \* requests to import a contest
  Problems,       \* ids of problems, with their revision
  Package,        \* Package[i]: the problems of the file of import i, in order
  Method,         \* Method[p]: "manual" or "generated" for each test of p
  MaxFaults       \* bound: failures in a behaviour

ASSUME ImportAssumption ==
  /\ \A i \in Imports : Package[i] \in Seq(Problems) /\ Package[i] # <<>>
  /\ \A p \in Problems : Method[p] \in Seq({"manual", "generated"})
  /\ MaxFaults \in Nat

VARIABLES
  contests,       \* the import that inserted each row of contest, by id
  known,          \* rows of problem
  related,        \* rows of contest_problems, with the import that made each
  input, answer,  \* the files of each test of each problem
  pc,             \* where each import is
  contest,        \* the contest each import adds its problems to
  at, test,       \* the problem and the test each import is at
  jobs,           \* jobs of the imports, in the channel or at a worker
  reply,          \* the result each waiting import has yet to read
  overlapped,     \* history: problems two imports worked on at once
  spoiled,        \* history: problems on which an import failed
  faults

files == <<input, answer>>
tables == <<contests, known, related>>
history == <<overlapped, spoiled>>
vars == <<tables, files, pc, contest, at, test, jobs, reply, history, faults>>

\* The calls of run_cached and of judge, whose results an import waits for.
Waiting == {"generating", "solving", "judging"}

\* Working on the problem at[i].
Busy == {"upsert", "insert", "tests", "copying", "solve", "relate"} \cup Waiting

Running == Busy \cup {"inserted", "files"}

Tests(p) == DOMAIN Method[p]

Job == [by : Imports, kind : Waiting, problem : Problems, test : Nat,
        saw : {"queued", "started", "partial", "whole"}]

TypeOK ==
  /\ contests \in Seq(Imports)
  /\ known \in SUBSET Problems
  /\ related \in SUBSET [contest : Nat \ {0}, problem : Problems, by : Imports]
  /\ \A p \in Problems :
       /\ input[p] \in [Tests(p) -> {"absent", "partial", "whole"}]
       /\ answer[p] \in [Tests(p) -> {"absent", "wrong", "right"}]
  /\ pc \in [Imports -> Running \cup {"new", "done", "failed"}]
  /\ contest \in [Imports -> 0 .. Len(contests)]
  /\ at \in [Imports -> Nat \ {0}]
  /\ test \in [Imports -> Nat \ {0}]
  /\ jobs \in SUBSET Job
  /\ reply \in [Imports -> {"none", "ok", "bad"}]
  /\ overlapped \in SUBSET Problems
  /\ spoiled \in SUBSET Problems
  /\ faults \in 0 .. MaxFaults

Init ==
  /\ contests = <<>>
  /\ known = {}
  /\ related = {}
  /\ input = [p \in Problems |-> [t \in Tests(p) |-> "absent"]]
  /\ answer = [p \in Problems |-> [t \in Tests(p) |-> "absent"]]
  /\ pc = [i \in Imports |-> "new"]
  /\ contest = [i \in Imports |-> 0]
  /\ at = [i \in Imports |-> 1]
  /\ test = [i \in Imports |-> 1]
  /\ jobs = {}
  /\ reply = [i \in Imports |-> "none"]
  /\ overlapped = {}
  /\ spoiled = {}
  /\ faults = 0

\* The problem import i is at.
Current(i) == Package[i][at[i]]

WorksOn(i, p) == pc[i] \in Busy /\ Current(i) = p

Goto(i, s) == pc' = [pc EXCEPT ![i] = s]

\* The handler returns an error or panics: all it did stays.
GiveUp(I) ==
  /\ pc' = [i \in Imports |-> IF i \in I THEN "failed" ELSE pc[i]]
  /\ reply' = [i \in Imports |-> IF i \in I THEN "none" ELSE reply[i]]
  /\ spoiled' = spoiled \cup {p \in Problems : \E i \in I : WorksOn(i, p)}

-----------------------------------------------------------------------------
(* The contest.                                                            *)

\* The insert of insert_contest.
InsertContest(i) ==
  /\ pc[i] = "new"
  /\ contests' = Append(contests, i)
  /\ Goto(i, "inserted")
  /\ UNCHANGED <<known, related, files, contest, at, test, jobs, reply, history,
                 faults>>

\* Mutants of Newest: the ids in ascending order; the id the next insert takes.
Oldest == 1

NextId == Len(contests) + 1

\* The first contest in descending order of the ids.
Newest == Len(contests)

\* Its query, a statement of its own: whatever contest is the newest by now.
SelectContest(i) ==
  /\ pc[i] = "inserted"
  /\ contest' = [contest EXCEPT ![i] = Newest]
  /\ Goto(i, "files")
  /\ UNCHANGED <<tables, files, at, test, jobs, reply, history, faults>>

-----------------------------------------------------------------------------
(* A problem.                                                              *)

\* The sources of the package go to the directory of the problem.
ExtractFiles(i) ==
  /\ pc[i] = "files"
  /\ Goto(i, "upsert")
  /\ overlapped' =
       IF \/ \E k \in Imports \ {i} : WorksOn(k, Current(i))
          \/ \E job \in jobs : job.problem = Current(i)
       THEN overlapped \cup {Current(i)} ELSE overlapped
  /\ UNCHANGED <<tables, files, contest, at, test, jobs, reply, spoiled, faults>>

\* upsert_problem finds the row, which it leaves as it is ...
FindProblem(i) ==
  /\ pc[i] = "upsert"
  /\ Goto(i, IF Current(i) \in known THEN "tests" ELSE "insert")
  /\ UNCHANGED <<tables, files, contest, at, test, jobs, reply, history, faults>>

\* ... or inserts it, unless another import was faster: the id is a key.
InsertProblem(i) ==
  /\ pc[i] = "insert"
  /\ IF Current(i) \in known
     THEN GiveUp({i}) /\ UNCHANGED known
     ELSE /\ known' = known \cup {Current(i)}
          /\ Goto(i, "tests")
          /\ UNCHANGED <<reply, spoiled>>
  /\ UNCHANGED <<contests, related, files, contest, at, test, jobs, overlapped,
                 faults>>

SetInput(p, t, content) == input' = [input EXCEPT ![p][t] = content]

SetAnswer(p, t, content) == answer' = [answer EXCEPT ![p][t] = content]

\* A manual test is copied out of the package: File::create empties the file ...
CreateTest(i) ==
  /\ pc[i] = "tests"
  /\ test[i] \in Tests(Current(i))
  /\ Method[Current(i)][test[i]] = "manual"
  /\ SetInput(Current(i), test[i], "partial")
  /\ Goto(i, "copying")
  /\ UNCHANGED <<tables, answer, contest, at, test, jobs, reply, history, faults>>

\* ... and the copy fills it.
CopyTest(i) ==
  /\ pc[i] = "copying"
  /\ SetInput(Current(i), test[i], "whole")
  /\ Goto(i, "solve")
  /\ UNCHANGED <<tables, answer, contest, at, test, jobs, reply, history, faults>>

\* A call of run_cached or judge up to its wait.
Call(i, kind) ==
  /\ jobs' = jobs \cup {[by |-> i, kind |-> kind, problem |-> Current(i),
                         test |-> test[i], saw |-> "queued"]}
  /\ Goto(i, kind)
  /\ UNCHANGED <<tables, files, contest, at, test, reply, history, faults>>

SendGenerator(i) ==
  /\ pc[i] = "tests"
  /\ test[i] \in Tests(Current(i))
  /\ Method[Current(i)][test[i]] = "generated"
  /\ Call(i, "generating")

SendSolution(i) == pc[i] = "solve" /\ Call(i, "solving")

SendJudge(i) ==
  /\ pc[i] = "tests"
  /\ test[i] \notin Tests(Current(i))
  /\ Call(i, "judging")

\* Mutant of Refuses: the exit code of the main solution is not looked at.
RefusesGenerator(i) == pc[i] = "generating" /\ reply[i] = "bad"

\* A generator must end Ok and the main solution with exit code 0; of the
\* judgement of the main solution counts only that it is one, not its verdict.
Refuses(i) == reply[i] = "bad"

\* Mutant of NextTest: the loop stays at its test.
SameTest(i) == UNCHANGED test

\* The loop over the tests goes on.
NextTest(i) == test' = [test EXCEPT ![i] = @ + 1]

\* The import reads its result.
Answered(i) ==
  /\ pc[i] \in Waiting
  /\ reply[i] # "none"
  /\ IF Refuses(i)
     THEN GiveUp({i}) /\ UNCHANGED test
     ELSE /\ CASE pc[i] = "generating" -> Goto(i, "solve") /\ UNCHANGED test
               [] pc[i] = "solving"    -> Goto(i, "tests") /\ NextTest(i)
               [] pc[i] = "judging"    -> Goto(i, "relate") /\ UNCHANGED test
          /\ reply' = [reply EXCEPT ![i] = "none"]
          /\ UNCHANGED spoiled
  /\ UNCHANGED <<tables, files, contest, at, jobs, overlapped, faults>>

\* Mutant of Advance: the problem is the last one.
AdvanceToEnd(i) ==
  Goto(i, "done") /\ UNCHANGED <<at, test>>

\* On to the next problem, or to the response.
Advance(i) ==
  IF at[i] = Len(Package[i])
  THEN Goto(i, "done") /\ UNCHANGED <<at, test>>
  ELSE /\ Goto(i, "files")
       /\ at' = [at EXCEPT ![i] = @ + 1]
       /\ test' = [test EXCEPT ![i] = 1]

\* The problem joins the contest.
RelateProblem(i) ==
  /\ pc[i] = "relate"
  /\ related' = related \cup {[contest |-> contest[i], problem |-> Current(i),
                                by |-> i]}
  /\ Advance(i)
  /\ UNCHANGED <<contests, known, files, contest, jobs, reply, history, faults>>

-----------------------------------------------------------------------------
(* The workers.                                                            *)

\* A worker takes the job; a solution reads the test as it is now.
StartJob(job) ==
  /\ job.saw = "queued"
  /\ LET saw == IF job.kind = "solving" THEN input[job.problem][job.test]
                ELSE "started"
     IN  jobs' = (jobs \ {job}) \cup {[job EXCEPT !.saw = saw]}
  /\ UNCHANGED <<tables, files, pc, contest, at, test, reply, history, faults>>

\* Standard output is copied over the file, however the program ended.
Output(job, outcome) ==
  CASE job.kind = "generating" ->
         /\ SetInput(job.problem, job.test, IF outcome = "ok" THEN "whole" ELSE "partial")
         /\ UNCHANGED answer
    [] job.kind = "solving" ->
         /\ SetAnswer(job.problem, job.test,
                      IF outcome = "ok" /\ job.saw = "whole" THEN "right" ELSE "wrong")
         /\ UNCHANGED input
    [] OTHER -> UNCHANGED files

\* The result of a job reaches its import if that still waits.
Reply(job, outcome) ==
  /\ job.saw # "queued"
  /\ jobs' = jobs \ {job}
  /\ reply' = IF pc[job.by] \in Waiting THEN [reply EXCEPT ![job.by] = outcome]
              ELSE reply
  /\ UNCHANGED <<tables, pc, contest, at, test, history, faults>>

\* The program ends.
FinishJob(job, outcome) == Output(job, outcome) /\ Reply(job, outcome)

\* The program does not compile, or its language is not there: no output.
RejectJob(job) == Reply(job, "bad") /\ UNCHANGED files

\* The program is killed: its output is copied, and the worker panics on the
\* exit code that is not there.
KillJob(job) ==
  /\ job.saw # "queued"
  /\ faults < MaxFaults
  /\ faults' = faults + 1
  /\ Output(job, "bad")
  /\ jobs' = jobs \ {job}
  /\ UNCHANGED <<tables, pc, contest, at, test, reply, history>>

-----------------------------------------------------------------------------
(* Failures.                                                               *)

\* A file, a language or the label of a problem is missing, a statement fails, a
\* result is overtaken on the bus.  The job an import waited for goes on.
Fail(i) ==
  /\ pc[i] \in Running
  /\ faults < MaxFaults
  /\ faults' = faults + 1
  /\ GiveUp({i})
  /\ UNCHANGED <<tables, files, contest, at, test, jobs, overlapped>>

\* The server dies, and with it every import and what is in the channel; the
\* workers go on.
ServerCrash ==
  /\ faults < MaxFaults
  /\ faults' = faults + 1
  /\ GiveUp({i \in Imports : pc[i] \in Running})
  /\ jobs' = {job \in jobs : job.saw # "queued"}
  /\ UNCHANGED <<tables, files, contest, at, test, overlapped>>

-----------------------------------------------------------------------------
Import(i) ==
  \/ SelectContest(i) \/ ExtractFiles(i) \/ FindProblem(i) \/ InsertProblem(i)
  \/ CreateTest(i) \/ CopyTest(i) \/ SendGenerator(i) \/ SendSolution(i)
  \/ SendJudge(i) \/ Answered(i) \/ RelateProblem(i)

Worker ==
  \E job \in jobs :
    \/ StartJob(job) \/ RejectJob(job)
    \/ \E outcome \in {"ok", "bad"} : FinishJob(job, outcome)

Next ==
  \/ \E i \in Imports : InsertContest(i) \/ Import(i) \/ Fail(i)
  \/ Worker
  \/ \E job \in jobs : KillJob(job)
  \/ ServerCrash

Spec == Init /\ [][Next]_vars

\* A request that began is polled, and the workers take jobs and end them.
FairSpec == Spec /\ WF_vars(Worker) /\ \A i \in Imports : WF_vars(Import(i))
-----------------------------------------------------------------------------
(* Properties.                                                             *)

\* A problem that is part of a contest has all its tests, each with the answer
\* of the main solution to it, unless an import of it is under way, one failed,
\* or two were at work on it at once; only these damage the files of a problem
\* that is being judged.
RelatedIsWhole ==
  \A r \in related :
    \/ \E i \in Imports : WorksOn(i, r.problem)
    \/ r.problem \in overlapped \cup spoiled
    \/ \A t \in Tests(r.problem) :
         input[r.problem][t] = "whole" /\ answer[r.problem][t] = "right"

\* An import never adds a problem to a contest that was there before its own,
\* although it asks for the newest contest and not for the one it inserted.
OlderContestsUntouched ==
  \A r \in related :
    \E id \in DOMAIN contests : contests[id] = r.by /\ id <= r.contest

\* An import that answers with its report has related each problem of its file,
\* all to one contest.
DoneIsComplete ==
  \A i \in Imports :
    pc[i] = "done" =>
      \A n \in DOMAIN Package[i] :
        [contest |-> contest[i], problem |-> Package[i][n], by |-> i] \in related

\* No import is held up by its own loops or by a job that has its answer: it
\* ends unless the worker that had its job was lost.
ImportEnds ==
  \A i \in Imports :
    pc[i] \in Running ~>
      \/ pc[i] \in {"done", "failed"}
      \/ pc[i] \in Waiting /\ reply[i] = "none" /\ ~\E job \in jobs : job.by = i

\* How far an import is, as far as the tables show it.
Phase ==
  [i \in Imports |-> CASE pc[i] \in {"new", "done", "failed"} -> pc[i]
                       [] pc[i] = "inserted"                  -> "created"
                       [] OTHER                               -> "adding"]

Joined == [i \in Imports |-> IF pc[i] = "done" THEN at[i] ELSE at[i] - 1]

Catalog == INSTANCE ContestCatalog WITH phase <- Phase, target <- contest, joined <- Joined

\* However imports overlap and whatever fails, the tables are filled as promised.
CatalogSpec == Catalog!Spec
=============================================================================
