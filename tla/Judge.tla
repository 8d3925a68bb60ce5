-------------------------------- MODULE Judge --------------------------------
(***************************************************************************)
(* How alvokanto workers judge (alvokanto/src/main.rs): each worker has    *)
(* one sandbox box, and all share the compiled programs below /data.  A    *)
(* judgement compiles its checker unless the compiled one is there,        *)
(* compiles the submission into the box, and runs test after test until    *)
(* one fails.  A cached run compiles its program the same way and runs it  *)
(* once.  The box is wiped after a cached run and after a failed           *)
(* compilation, and keeps the compiled submission otherwise.               *)
(***************************************************************************)
EXTENDS IsolateMeta

CONSTANTS
  Workers,
  Judgements,     \* jobs that judge a submission
  RunJobs,        \* jobs that run a cached program
  Programs,       \* checkers and generators with their source in /data
  Program,        \* Program[j]: the checker or the program of job j
  Output,         \* Output[j]: file the compiler of judgement j writes, or
                  \* NoOutput for an interpreted language
  NoOutput,
  Silent,         \* judgements whose compiler may succeed without that file
  TestCount,      \* TestCount[j]: tests of judgement j
  Nobody,
  MaxCrashes      \* bound: crashes of workers

Jobs == Judgements \cup RunJobs
Files == {Output[j] : j \in Judgements} \ {NoOutput}

ASSUME JudgeAssumption ==
  /\ Judgements \cap RunJobs = {}
  /\ Nobody \notin Jobs
  /\ Program \in [Jobs -> Programs]
  /\ Silent \subseteq {j \in Judgements : Output[j] # NoOutput}
  /\ TestCount \in [Judgements -> Nat]
  /\ MaxCrashes \in Nat

VARIABLES
  todo,           \* jobs nobody has taken
  step,           \* where each worker is in its job
  cur,            \* the job of each worker
  box,            \* box[w][f]: whose program file f of the box is
  cache,          \* the compiled programs in /data
  opener,         \* the worker that emptied each of them last and has not
                  \* completed its copy
  test,           \* the test each worker is at
  ran,            \* history: the finished tests of each judgement
  last,           \* the stats of the run of the current test
  result,         \* the result of each job
  torn,           \* history: programs whose opener died before its copy was complete
  crashes

vars ==
  <<todo, step, cur, box, cache, opener, test, ran, last, result, torn, crashes>>

EmptyBox == [f \in Files |-> Nobody]

\* Mutant of Verdict: the status is the verdict.
VerdictRaw(status, failed) == status

\* The arms of the verdict of judge.
Verdict(status, failed) ==
  IF status = "Ok" THEN IF failed = 0 THEN "Accepted" ELSE "WrongAnswer" ELSE status

Results == {"None", "RunCached", "Accepted", "WrongAnswer"} \cup (Statuses \ {"Ok"})

Steps == {"idle", "compiling", "installing", "ready", "running", "checking", "dead"}

FinishedTest ==
  [program : Judgements \cup {Nobody}, stats : Stats,
   checker : {"none", "absent", "partial", "whole"}, accepted : BOOLEAN]

TypeOK ==
  /\ todo \in SUBSET Jobs
  /\ step \in [Workers -> Steps]
  /\ cur \in [Workers -> Jobs \cup {Nobody}]
  /\ box \in [Workers -> [Files -> Judgements \cup {Nobody}]]
  /\ cache \in [Programs -> {"absent", "partial", "whole"}]
  /\ opener \in [Programs -> Workers \cup {Nobody}]
  /\ test \in [Workers -> Nat]
  /\ ran \in [Judgements -> Seq(FinishedTest)]
  /\ last \in [Workers -> Stats]
  /\ result \in [Jobs -> Results]
  /\ torn \subseteq Programs
  /\ crashes \in 0 .. MaxCrashes

Init ==
  /\ todo = Jobs
  /\ step = [w \in Workers |-> "idle"]
  /\ cur = [w \in Workers |-> Nobody]
  /\ box = [w \in Workers |-> EmptyBox]
  /\ cache = [p \in Programs |-> "absent"]
  /\ opener = [p \in Programs |-> Nobody]
  /\ test = [w \in Workers |-> 0]
  /\ ran = [j \in Judgements |-> <<>>]
  /\ last = [w \in Workers |-> NoStats]
  /\ result = [j \in Jobs |-> "None"]
  /\ torn = {}
  /\ crashes = 0

Goto(w, s) == step' = [step EXCEPT ![w] = s]

\* The function of the job ends, and with it its locals.
End(w) ==
  /\ cur' = [cur EXCEPT ![w] = Nobody]
  /\ test' = [test EXCEPT ![w] = 0]
  /\ last' = [last EXCEPT ![w] = NoStats]

Return(w, r) ==
  /\ result' = [result EXCEPT ![cur[w]] = r]
  /\ Goto(w, "idle")
  /\ End(w)

\* An unwrap or expect fails and ends the process; the job has no result.
Panic(w) == Goto(w, "dead") /\ End(w) /\ UNCHANGED <<todo, box, cache, opener, ran, result>>

WipeBox(w) == box' = [box EXCEPT ![w] = EmptyBox]

-----------------------------------------------------------------------------
(* Compiling a checker or a cached program into /data.                     *)

\* Mutant of Begin: the program is compiled for every job.
BeginRecompiles(w, j) ==
  /\ step[w] = "idle"
  /\ j \in todo
  /\ todo' = todo \ {j}
  /\ cur' = [cur EXCEPT ![w] = j]
  /\ Goto(w, "compiling")
  /\ UNCHANGED <<box, cache, opener, test, ran, last, result, torn, crashes>>

\* The job arrives; the compiled program is looked for, and only that it exists.
Begin(w, j) ==
  /\ step[w] = "idle"
  /\ j \in todo
  /\ todo' = todo \ {j}
  /\ cur' = [cur EXCEPT ![w] = j]
  /\ Goto(w, IF cache[Program[j]] = "absent" THEN "compiling" ELSE "ready")
  /\ UNCHANGED <<box, cache, opener, test, ran, last, result, torn, crashes>>

\* The compiler rejects the program: even a judgement answers with a RunCached.
ProgramRejected(w) ==
  /\ step[w] = "compiling"
  /\ WipeBox(w)
  /\ Return(w, "RunCached")
  /\ UNCHANGED <<todo, cache, opener, ran, torn, crashes>>

\* The compiled program is opened for writing, which empties it.  The system
\* refuses that while another worker executes it.
OpenInstalled(w) ==
  /\ step[w] = "compiling"
  /\ cache' = [cache EXCEPT ![Program[cur[w]]] = "partial"]
  /\ opener' = [opener EXCEPT ![Program[cur[w]]] = w]
  /\ Goto(w, "installing")
  /\ UNCHANGED <<todo, cur, box, test, ran, last, result, torn, crashes>>

OpenRefused(w) ==
  /\ step[w] = "compiling"
  /\ \E v \in Workers \ {w} :
       /\ step[v] = "checking" \/ (step[v] = "ready" /\ cur[v] \in RunJobs)
       /\ Program[cur[v]] = Program[cur[w]]
  /\ Panic(w)
  /\ UNCHANGED <<torn, crashes>>

\* Mutant of Installed: an error of the copy is ignored.
InstalledIgnoresError(w) ==
  /\ step[w] = "installing"
  /\ WipeBox(w)
  /\ Goto(w, "ready")
  /\ UNCHANGED <<todo, cur, cache, opener, test, ran, last, result, torn, crashes>>

\* The copy is complete and the box is wiped.  A worker that emptied the file
\* since has it whole with its own copy, and only then: what this one wrote may
\* have been cut off, or follow a hole.
Installed(w) ==
  LET p == Program[cur[w]]
  IN  /\ step[w] = "installing"
      /\ \/ /\ opener[p] = w
            /\ cache' = [cache EXCEPT ![p] = "whole"]
            /\ opener' = [opener EXCEPT ![p] = Nobody]
         \/ /\ opener[p] # w
            /\ \E content \in {cache[p], "whole"} : cache' = [cache EXCEPT ![p] = content]
            /\ UNCHANGED opener
      /\ WipeBox(w)
      /\ Goto(w, "ready")
      /\ UNCHANGED <<todo, cur, test, ran, last, result, torn, crashes>>

-----------------------------------------------------------------------------
(* A judgement.                                                            *)

\* Mutant of CompileRejects: the exit code of the compiler is ignored.
CompileRejectsIgnored(w) ==
  /\ step[w] = "ready"
  /\ cur[w] \in Judgements
  /\ test' = [test EXCEPT ![w] = 1]
  /\ Goto(w, "running")
  /\ UNCHANGED <<todo, cur, box, cache, opener, ran, last, result, torn, crashes>>

\* Mutant of CompileRejects: a return is missing after the answer.
CompileRejectsGoesOn(w) ==
  /\ step[w] = "ready"
  /\ cur[w] \in Judgements
  /\ Output[cur[w]] # NoOutput
  /\ result' = [result EXCEPT ![cur[w]] = "RunCached"]
  /\ test' = [test EXCEPT ![w] = 1]
  /\ Goto(w, "running")
  /\ UNCHANGED <<todo, cur, box, cache, opener, ran, last, torn, crashes>>

\* The compiler rejects the submission: the answer is a RunCached here too.
CompileRejects(w) ==
  /\ step[w] = "ready"
  /\ cur[w] \in Judgements
  /\ Output[cur[w]] # NoOutput
  /\ WipeBox(w)
  /\ Return(w, "RunCached")
  /\ UNCHANGED <<todo, cache, opener, ran, torn, crashes>>

\* Compilation succeeds, or there is none.  javac of a source without a public
\* class succeeds and leaves the file that will be run as it was.
CompileAccepts(w) ==
  /\ step[w] = "ready"
  /\ cur[w] \in Judgements
  /\ \/ /\ Output[cur[w]] # NoOutput
        /\ box' = [box EXCEPT ![w][Output[cur[w]]] = cur[w]]
     \/ /\ Output[cur[w]] = NoOutput \/ cur[w] \in Silent
        /\ UNCHANGED box
  /\ test' = [test EXCEPT ![w] = 1]
  /\ Goto(w, "running")
  /\ UNCHANGED <<todo, cur, cache, opener, ran, last, result, torn, crashes>>

\* Whose program a test of w runs.
Running(w) == IF Output[cur[w]] = NoOutput THEN cur[w] ELSE box[w][Output[cur[w]]]

\* A test that ended the loop, or went on to the next: what ran, how it ended
\* and what the checker, in which state, said of it.
Record(w, stats, checker, accepted) ==
  ran' = [ran EXCEPT ![cur[w]] =
            Append(@, [program |-> Running(w), stats |-> stats,
                       checker |-> checker, accepted |-> accepted])]

\* Mutant of Failed: only the status is looked at.
FailedByStatus(stats) == stats.status \notin {"Ok", "RuntimeError"}

\* The condition that ends the loop after a run.
Failed(stats) == ~Succeeded(stats)

\* The program runs on the next test.  A file that is not there cannot be run.
RunTest(w, report) ==
  /\ step[w] = "running"
  /\ test[w] <= TestCount[cur[w]]
  /\ Running(w) = Nobody => Parse(report) = [exit |-> 1, status |-> "RuntimeError"]
  /\ LET stats == Parse(report)
     IN  IF Failed(stats)
         THEN /\ Record(w, stats, "none", FALSE)
              /\ Return(w, Verdict(stats.status, test[w]))
         ELSE /\ Goto(w, "checking")
              /\ last' = [last EXCEPT ![w] = stats]
              /\ UNCHANGED <<cur, test, ran, result>>
  /\ UNCHANGED <<todo, box, cache, opener, torn, crashes>>

\* The system refuses to execute a file that is open for writing.
BeingWritten(p) == \E v \in Workers : step[v] = "installing" /\ Program[cur[v]] = p

\* Mutant of CheckerRejects: the verdict is that of the run, on which the
\* checker has no say.
CheckerRejectsUnheard(w) ==
  /\ step[w] = "checking"
  /\ ~BeingWritten(Program[cur[w]])
  /\ Record(w, last[w], cache[Program[cur[w]]], FALSE)
  /\ Return(w, Verdict(last[w].status, 0))
  /\ UNCHANGED <<todo, box, cache, opener, torn, crashes>>

\* Mutant of CheckerRejects: a rejected test is run again.
CheckerRejectsRetries(w) ==
  /\ step[w] = "checking"
  /\ ~BeingWritten(Program[cur[w]])
  /\ Goto(w, "running")
  /\ UNCHANGED <<todo, cur, box, cache, opener, test, ran, last, result, torn, crashes>>

\* The checker exits with an error.  What a truncated one does is anybody's
\* guess: it may reject, accept, or not start.
CheckerRejects(w) ==
  /\ step[w] = "checking"
  /\ ~BeingWritten(Program[cur[w]])
  /\ Record(w, last[w], cache[Program[cur[w]]], FALSE)
  /\ Return(w, Verdict(last[w].status, test[w]))
  /\ UNCHANGED <<todo, box, cache, opener, torn, crashes>>

\* The checker exits with 0, and the next test comes.
CheckerAccepts(w) ==
  /\ step[w] = "checking"
  /\ ~BeingWritten(Program[cur[w]])
  /\ Record(w, last[w], cache[Program[cur[w]]], TRUE)
  /\ test' = [test EXCEPT ![w] = @ + 1]
  /\ Goto(w, "running")
  /\ UNCHANGED <<todo, cur, box, cache, opener, last, result, torn, crashes>>

\* A checker that is being written, or is truncated, does not start: isolate
\* reports an error of its own and execute is expected to succeed.
CheckerDoesNotStart(w) ==
  /\ step[w] = "checking"
  /\ BeingWritten(Program[cur[w]]) \/ cache[Program[cur[w]]] = "partial"
  /\ Panic(w)
  /\ UNCHANGED <<torn, crashes>>

\* The loop is over: the verdict is that of the last run.
AllPassed(w) ==
  /\ step[w] = "running"
  /\ test[w] > TestCount[cur[w]]
  /\ TestCount[cur[w]] > 0
  /\ Return(w, Verdict(last[w].status, 0))
  /\ UNCHANGED <<todo, box, cache, opener, ran, torn, crashes>>

\* Without tests there is no last run to unwrap.
NoTests(w) ==
  /\ step[w] = "running"
  /\ TestCount[cur[w]] = 0
  /\ Panic(w)
  /\ UNCHANGED <<torn, crashes>>

-----------------------------------------------------------------------------
(* A cached run.                                                           *)

\* The program exits by itself and its result is returned.
RunCachedExits(w) ==
  /\ step[w] = "ready"
  /\ cur[w] \in RunJobs
  /\ ~BeingWritten(Program[cur[w]])
  /\ WipeBox(w)
  /\ Return(w, "RunCached")
  /\ UNCHANGED <<todo, cache, opener, ran, torn, crashes>>

\* It is killed, and has no exit code to unwrap, or it does not start.
RunCachedKilled(w) ==
  /\ step[w] = "ready"
  /\ cur[w] \in RunJobs
  /\ Panic(w)
  /\ UNCHANGED <<torn, crashes>>

-----------------------------------------------------------------------------
\* The process is killed at any point of a job ...
Crash(w) ==
  /\ step[w] \notin {"idle", "dead"}
  /\ crashes < MaxCrashes
  /\ crashes' = crashes + 1
  /\ torn' = torn \cup {p \in Programs : step[w] = "installing" /\ opener[p] = w}
  /\ Panic(w)

\* ... and main starts again with a fresh box.
Restart(w) ==
  /\ step[w] = "dead"
  /\ Goto(w, "idle")
  /\ WipeBox(w)
  /\ UNCHANGED <<todo, cur, cache, opener, test, ran, last, result, torn, crashes>>

Work(w) ==
  \/ ProgramRejected(w) \/ OpenInstalled(w) \/ OpenRefused(w) \/ Installed(w)
  \/ CompileRejects(w) \/ CompileAccepts(w)
  \/ \E report \in Reports : RunTest(w, report)
  \/ CheckerRejects(w) \/ CheckerAccepts(w) \/ CheckerDoesNotStart(w)
  \/ AllPassed(w) \/ NoTests(w)
  \/ RunCachedExits(w) \/ RunCachedKilled(w)
  \/ Restart(w)

Next ==
  \E w \in Workers : Work(w) \/ Crash(w) \/ \E j \in Jobs : Begin(w, j)

Spec == Init /\ [][Next]_vars

\* A worker that has a job goes on with it, and is restarted if it dies: every
\* program runs under isolate's wall clock limit.
FairSpec == Spec /\ \A w \in Workers : WF_vars(Work(w))
-----------------------------------------------------------------------------
(* Properties.                                                             *)

Passed(t) == Succeeded(t.stats) /\ t.accepted

\* An accepted submission passed every test: each run exited with 0, and the
\* checker, in whatever state its file was, accepted each output.
AcceptedIsEarned ==
  \A j \in Judgements :
    result[j] = "Accepted" =>
      Len(ran[j]) = TestCount[j] /\ \A i \in DOMAIN ran[j] : Passed(ran[j][i])

\* Any other verdict is that of the last test that ran, and only tests that
\* passed came before it; if that test passed as well it was the last of all.
VerdictNamesTheFailure ==
  \A j \in Judgements :
    result[j] \in {"WrongAnswer"} \cup (Statuses \ {"Ok"}) =>
      LET n == Len(ran[j])
          status == ran[j][n].stats.status
      IN  /\ n \in 1 .. TestCount[j]
          /\ \A i \in 1 .. n - 1 : Passed(ran[j][i])
          /\ Passed(ran[j][n]) => n = TestCount[j]
          /\ result[j] = IF status = "Ok" THEN "WrongAnswer" ELSE status

\* A test runs the submission it is of, whatever earlier jobs left in the box,
\* which judge does not wipe.  A submission whose compiler succeeded without
\* writing the file that is run is the exception: its tests run what an earlier
\* submission in a language with the same file left there, or nothing.
RunsOwnProgram ==
  \A j \in Judgements : \A i \in DOMAIN ran[j] :
    LET program == ran[j][i].program
    IN  \/ program = j
        \/ j \in Silent /\ (program # Nobody => Output[program] = Output[j])

\* A truncated checker speaks on a test only after a worker died that had emptied
\* its file, and nobody after it, and had not completed it: that several workers
\* compile and install the same checker at once, in any order, is not enough.
PartialOnlyAfterCrash ==
  \A j \in Judgements : \A i \in DOMAIN ran[j] :
    ran[j][i].checker = "partial" => Program[j] \in torn

\* With a single worker an installed checker is never written again.
CacheStaysWhole ==
  [][\A p \in Programs : cache[p] = "whole" => cache'[p] = "whole"]_vars

\* A worker always gets back to asking for jobs, after its result or after it
\* died: neither the loop over the tests nor a bad job can hold it.
WorkerComesBack ==
  \A w \in Workers : step[w] # "idle" ~> step[w] = "idle"

\* The page of a contest shows the time limit of each problem
\* (templates/contest.html.hbs:19) and the result has a verdict for exceeding it:
\* an accepted submission exceeded no limit on any test.
AcceptedWithinLimits ==
  \A j \in Judgements :
    result[j] = "Accepted" =>
      \A i \in DOMAIN ran[j] : ran[j][i].stats.status = "Ok"

\* What the workers may answer: a judgement gets a verdict, or the RunCached of a
\* program that does not compile; a run gets a RunCached.
Answers ==
  [w \in Workers |-> [j \in Jobs |-> IF j \in RunJobs THEN {"RunCached"}
                                     ELSE Results \ {"None"}]]

Contract ==
  INSTANCE WorkerContract
  WITH waiting <- todo, holds <- cur, answer <- result, Bodies <- Results,
       NoJob <- Nobody, Unanswered <- "None"

\* The workers do what the pipeline of jobs takes of them.
ContractSpec == Contract!Spec
=============================================================================
