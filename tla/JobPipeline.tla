----------------------------- MODULE JobPipeline -----------------------------
(***************************************************************************)
(* The path of a judging job through jughisto and its workers (alvokanto): *)
(* an HTTP handler records the submission and puts a job in the            *)
(* in-memory channel, a get_job handler hands it to a worker, the worker   *)
(* judges it and submits a result, the result is broadcast, update_database*)
(* writes the verdict, and a contest import that asked for the job reads   *)
(* its own result off the same broadcast.  The server process, the workers *)
(* and the connections between them fail; the database does not.           *)
(***************************************************************************)
EXTENDS ResultBus, FiniteSets

CONSTANTS
  Submissions,    \* uuids of the jobs made by create_submission
  RunCalls,       \* uuids of the calls of language::run_cached
  JudgeCalls,     \* uuids of the calls of language::judge
  Workers,        \* alvokanto processes
  Languages,
  Lang,           \* Lang[j]: the language job j names
  CheckerLang,    \* CheckerLang[j]: language of the checker of a judgement j
  Supports,       \* Supports[w]: the languages worker w announces
  Verdicts,       \* the judgement verdicts considered
  Db,             \* update_database, as a receiver of the bus
  NoJob,
  MaxFaults       \* bound: injected failures in a behaviour

Calls == RunCalls \cup JudgeCalls
Judgements == Submissions \cup JudgeCalls
Jobs == Submissions \cup Calls
Receivers == Calls \cup {Db}

\* The verdict column written for each verdict of the protocol.
Column == [Accepted |-> "AC", WrongAnswer |-> "WA", CompilationError |-> "CE",
           TimeLimitExceeded |-> "TL", MemoryLimitExceeded |-> "ML",
           RuntimeError |-> "RE"]

\* What a JobResult carries in its oneof: a judgement, shown by its verdict,
\* a RunCached, or nothing at all.
Bodies == Verdicts \cup {"RunCached", "Nothing"}

ASSUME PipelineAssumption ==
  /\ Submissions \cap RunCalls = {}
  /\ Submissions \cap JudgeCalls = {}
  /\ RunCalls \cap JudgeCalls = {}
  /\ Db \notin Jobs
  /\ NoJob \notin Jobs
  /\ Verdicts \subseteq DOMAIN Column
  /\ Lang \in [Jobs -> Languages]
  /\ CheckerLang \in [Judgements -> Languages]
  /\ Supports \in [Workers -> SUBSET Languages]
  /\ MaxFaults \in Nat

VARIABLES
  up,             \* the jughisto process runs
  languages,      \* keys of the languages map
  row,            \* the verdict column of each submission row
  pc,             \* where the task that made each job is
  queue,          \* the channel of jobs
  phase,          \* what each worker is doing
  job,            \* the job each worker holds
  stale,          \* workers for which a get_job handler outlived its connection
  answer,         \* history: the body of the result broadcast for each job
  faults          \* failures so far

vars == <<bus, next, up, languages, row, pc, queue, phase, job, stale, answer,
          faults>>

TypeOK ==
  /\ bus \in Seq([uuid : Jobs, body : Bodies])
  /\ next \in [Receivers -> Nat]
  /\ up \in BOOLEAN
  /\ languages \in SUBSET Languages
  /\ row \in [Submissions -> {"none", "WJ"} \cup {Column[v] : v \in Verdicts}]
  /\ pc \in [Jobs -> {"new", "inserted", "subscribed", "sent", "ok", "error",
                      "aborted"}]
  /\ queue \in Seq(Jobs)
  /\ phase \in [Workers -> {"idle", "polling", "working"}]
  /\ job \in [Workers -> Jobs \cup {NoJob}]
  /\ stale \in SUBSET Workers
  /\ answer \in [Jobs -> Bodies \cup {"unanswered"}]
  /\ faults \in Nat

Init ==
  /\ bus = <<>>
  /\ next = [r \in Receivers |-> IF r = Db THEN 1 ELSE 0]
  /\ up = TRUE
  /\ languages = {}
  /\ row = [s \in Submissions |-> "none"]
  /\ pc = [j \in Jobs |-> "new"]
  /\ queue = <<>>
  /\ phase = [w \in Workers |-> "idle"]
  /\ job = [w \in Workers |-> NoJob]
  /\ stale = {}
  /\ answer = [j \in Jobs |-> "unanswered"]
  /\ faults = 0

-----------------------------------------------------------------------------
(* The tasks that make jobs.                                               *)

\* create_submission up to its insert, which commits at once: there is no
\* transaction around the rest of the handler.  An unknown language is
\* refused and changes nothing.
InsertSubmission(s) ==
  /\ up
  /\ pc[s] = "new"
  /\ Lang[s] \in languages
  /\ row' = [row EXCEPT ![s] = "WJ"]
  /\ pc' = [pc EXCEPT ![s] = "inserted"]
  /\ UNCHANGED <<bus, next, up, languages, queue, phase, job, stale, answer,
                 faults>>

\* create_submission from the problem's metadata to the channel.
SendSubmission(s) ==
  /\ pc[s] = "inserted"
  /\ queue' = Append(queue, s)
  /\ pc' = [pc EXCEPT ![s] = "sent"]
  /\ UNCHANGED <<bus, next, up, languages, row, phase, job, stale, answer,
                 faults>>

\* The metadata query fails: the handler answers 500 and the row stays.
MetadataFails(s) ==
  /\ pc[s] = "inserted"
  /\ faults < MaxFaults
  /\ faults' = faults + 1
  /\ pc' = [pc EXCEPT ![s] = "aborted"]
  /\ UNCHANGED <<bus, next, up, languages, row, queue, phase, job, stale,
                 answer>>

\* run_cached and judge subscribe to the results first ...
Subscribe(c) ==
  /\ up
  /\ pc[c] = "new"
  /\ next' = [next EXCEPT ![c] = Tip]
  /\ pc' = [pc EXCEPT ![c] = "subscribed"]
  /\ UNCHANGED <<bus, up, languages, row, queue, phase, job, stale, answer,
                 faults>>

\* ... and then send their job.
SendCall(c) ==
  /\ pc[c] = "subscribed"
  /\ queue' = Append(queue, c)
  /\ pc' = [pc EXCEPT ![c] = "sent"]
  /\ UNCHANGED <<bus, next, up, languages, row, phase, job, stale, answer,
                 faults>>

\* The oneof a caller accepts as its answer.
Expects(c, body) ==
  IF c \in RunCalls THEN body = "RunCached" ELSE body \in Verdicts

\* Mutants of Mine: a caller takes the first result of any job; a caller waits
\* on for a result of the kind it wants.
MineIsAny(c, result) == TRUE

MineIsExpected(c, result) == result.uuid = c /\ Expects(c, result.body)

\* Which result ends the wait of a caller: its own, whatever it carries.
Mine(c, result) == result.uuid = c

\* The loop of run_cached and judge: results of other jobs are skipped.
ReceiveResult(c) ==
  /\ pc[c] = "sent"
  /\ HasResult(c)
  /\ LET result == bus[next[c]]
     IN  IF Mine(c, result)
         THEN /\ pc' = [pc EXCEPT ![c] = IF Expects(c, result.body)
                                         THEN "ok" ELSE "error"]
              /\ next' = [next EXCEPT ![c] = 0]
         ELSE /\ next' = [next EXCEPT ![c] = @ + 1]
              /\ UNCHANGED pc
  /\ UNCHANGED <<bus, up, languages, row, queue, phase, job, stale, answer,
                 faults>>

\* Mutant of CallLags: the caller goes on with the oldest result still kept.
CallLagsGoesOn(c) ==
  /\ pc[c] = "sent"
  /\ Lagged(c)
  /\ next' = [next EXCEPT ![c] = Tip - RxCap]
  /\ UNCHANGED <<bus, up, languages, row, pc, queue, phase, job, stale, answer,
                 faults>>

\* recv() answers Lagged and the caller gives up.
CallLags(c) ==
  /\ pc[c] = "sent"
  /\ Lagged(c)
  /\ pc' = [pc EXCEPT ![c] = "error"]
  /\ next' = [next EXCEPT ![c] = 0]
  /\ UNCHANGED <<bus, up, languages, row, queue, phase, job, stale, answer,
                 faults>>

-----------------------------------------------------------------------------
(* The job queue service and the workers.                                  *)

\* Mutant of GetJob: languages are recorded for the first worker only.
GetJobFirst(w) ==
  /\ up
  /\ phase[w] = "idle"
  /\ phase' = [phase EXCEPT ![w] = "polling"]
  /\ languages' = IF languages = {} THEN Supports[w] ELSE languages
  /\ UNCHANGED <<bus, next, up, row, pc, queue, job, stale, answer, faults>>

\* A worker connects and calls get_job, whose handler first records the
\* languages the worker announces and then waits on the channel.
GetJob(w) ==
  /\ up
  /\ phase[w] = "idle"
  /\ phase' = [phase EXCEPT ![w] = "polling"]
  /\ languages' = languages \cup Supports[w]
  /\ UNCHANGED <<bus, next, up, row, pc, queue, job, stale, answer, faults>>

\* Mutant of HandOut: the job leaves the channel only when it is answered.
HandOutPeeks(w) ==
  /\ phase[w] = "polling"
  /\ queue # <<>>
  /\ job' = [job EXCEPT ![w] = Head(queue)]
  /\ phase' = [phase EXCEPT ![w] = "working"]
  /\ UNCHANGED <<bus, next, up, languages, row, pc, queue, stale, answer, faults>>

\* The waiting handler takes the oldest job and its response reaches w.
HandOut(w) ==
  /\ phase[w] = "polling"
  /\ queue # <<>>
  /\ queue' = Tail(queue)
  /\ job' = [job EXCEPT ![w] = Head(queue)]
  /\ phase' = [phase EXCEPT ![w] = "working"]
  /\ UNCHANGED <<bus, next, up, languages, row, pc, stale, answer, faults>>

\* The response with the job does not reach w.
ResponseLost(w) ==
  /\ phase[w] = "polling"
  /\ queue # <<>>
  /\ faults < MaxFaults
  /\ faults' = faults + 1
  /\ queue' = Tail(queue)
  /\ phase' = [phase EXCEPT ![w] = "idle"]
  /\ UNCHANGED <<bus, next, up, languages, row, pc, job, stale, answer>>

\* A polling worker goes away, its handler still waiting on the channel.
Disconnect(w) ==
  /\ phase[w] = "polling"
  /\ faults < MaxFaults
  /\ faults' = faults + 1
  /\ phase' = [phase EXCEPT ![w] = "idle"]
  /\ stale' = stale \cup {w}
  /\ UNCHANGED <<bus, next, up, languages, row, pc, queue, job, answer>>

\* The handler of a connection that is gone takes a job nobody will read.
HandOutStale(w) ==
  /\ w \in stale
  /\ queue # <<>>
  /\ queue' = Tail(queue)
  /\ stale' = stale \ {w}
  /\ UNCHANGED <<bus, next, up, languages, row, pc, phase, job, answer, faults>>

\* The server notices the closed connection and drops the handler.
DropStale(w) ==
  /\ w \in stale
  /\ stale' = stale \ {w}
  /\ UNCHANGED <<bus, next, up, languages, row, pc, queue, phase, job, answer,
                 faults>>

\* Mutant of Outcomes: a worker that knows only judgements.
OutcomesOfJudgements(w, j) == IF j \in RunCalls THEN {} ELSE Verdicts

\* The results judge and run_cached can return for j on worker w: nothing for
\* a language w does not have, a RunCached for a run and for a judgement whose
\* checker or source does not compile, a verdict otherwise.
Outcomes(w, j) ==
  IF j \in RunCalls
  THEN IF Lang[j] \in Supports[w] THEN {"RunCached"} ELSE {"Nothing"}
  ELSE IF {Lang[j], CheckerLang[j]} \subseteq Supports[w]
       THEN Verdicts \cup {"RunCached"}
       ELSE {"Nothing"}

\* Mutant of SubmitJobResult: the worker may submit the same job again.
SubmitJobResultRetries(w, body) ==
  /\ up
  /\ phase[w] = "working"
  /\ body \in Outcomes(w, job[w])
  /\ bus' = Append(bus, [uuid |-> job[w], body |-> body])
  /\ Len(bus) < Cardinality(Jobs)
  /\ answer' = [answer EXCEPT ![job[w]] = body]
  /\ UNCHANGED <<next, up, languages, row, pc, queue, phase, job, stale, faults>>

\* The worker's submit_job_result and the handler that broadcasts it.
SubmitJobResult(w, body) ==
  /\ up
  /\ phase[w] = "working"
  /\ body \in Outcomes(w, job[w])
  /\ bus' = Append(bus, [uuid |-> job[w], body |-> body])
  /\ answer' = [answer EXCEPT ![job[w]] = body]
  /\ job' = [job EXCEPT ![w] = NoJob]
  /\ phase' = [phase EXCEPT ![w] = "idle"]
  /\ UNCHANGED <<next, up, languages, row, pc, queue, stale, faults>>

\* submit_job_result finds no server: job_loop returns the error and the
\* result it was sending is gone.
SubmitFails(w) ==
  /\ ~up
  /\ phase[w] = "working"
  /\ job' = [job EXCEPT ![w] = NoJob]
  /\ phase' = [phase EXCEPT ![w] = "idle"]
  /\ UNCHANGED <<bus, next, up, languages, row, pc, queue, stale, answer,
                 faults>>

\* The worker panics while it judges, or loses the connection it submits on.
WorkerFails(w) ==
  /\ phase[w] = "working"
  /\ faults < MaxFaults
  /\ faults' = faults + 1
  /\ job' = [job EXCEPT ![w] = NoJob]
  /\ phase' = [phase EXCEPT ![w] = "idle"]
  /\ UNCHANGED <<bus, next, up, languages, row, pc, queue, stale, answer>>

-----------------------------------------------------------------------------
(* update_database and the server process.                                 *)

\* Mutants of Written: the verdict is stored under its protocol name; it is
\* written to every row; only an accepted submission is written.
WrittenRaw(result) ==
  [s \in Submissions |->
     IF s = result.uuid /\ result.body \in Verdicts THEN result.body ELSE row[s]]

WrittenToAll(result) ==
  [s \in Submissions |->
     IF row[s] # "none" /\ result.body \in Verdicts
     THEN Column[result.body] ELSE row[s]]

WrittenIfAccepted(result) ==
  [s \in Submissions |->
     IF s = result.uuid /\ row[s] # "none" /\ result.body = "Accepted"
     THEN "AC" ELSE row[s]]

\* Only a judgement is written, to the row with its uuid if there is one.
Written(result) ==
  [s \in Submissions |->
     IF s = result.uuid /\ row[s] # "none" /\ result.body \in Verdicts
     THEN Column[result.body] ELSE row[s]]

\* One turn of the loop of update_database.
UpdateDatabase ==
  /\ HasResult(Db)
  /\ row' = Written(bus[next[Db]])
  /\ next' = [next EXCEPT ![Db] = @ + 1]
  /\ UNCHANGED <<bus, up, languages, pc, queue, phase, job, stale, answer,
                 faults>>

\* Everything in the memory of the server goes, and every call made to it
\* fails; rows stay, and so does what the workers are judging.
ServerDies ==
  /\ up
  /\ up' = FALSE
  /\ bus' = <<>>
  /\ next' = [r \in Receivers |-> 0]
  /\ languages' = {}
  /\ queue' = <<>>
  /\ pc' = [j \in Jobs |->
              CASE pc[j] \in {"inserted", "subscribed"}    -> "aborted"
                [] pc[j] = "sent" /\ j \in Calls           -> "error"
                [] OTHER                                   -> pc[j]]
  /\ phase' = [w \in Workers |->
                 IF phase[w] = "polling" THEN "idle" ELSE phase[w]]
  /\ stale' = {}
  /\ UNCHANGED <<row, job, answer>>

\* A crash, or a panic of update_database when it gets no connection from the
\* pool or its statement fails.
ServerCrash ==
  /\ faults < MaxFaults
  /\ faults' = faults + 1
  /\ ServerDies

\* update_database unwraps the Lagged error: main panics.
UpdateDatabaseLags ==
  /\ Lagged(Db)
  /\ faults' = faults + 1
  /\ ServerDies

\* main again: a new channel, a new bus, and update_database subscribed to
\* it.  No row is read back: nothing is queued.
ServerStart ==
  /\ ~up
  /\ up' = TRUE
  /\ next' = [next EXCEPT ![Db] = Tip]
  /\ UNCHANGED <<bus, languages, row, pc, queue, phase, job, stale, answer,
                 faults>>

-----------------------------------------------------------------------------
Server ==
  \/ \E s \in Submissions : SendSubmission(s)
  \/ \E c \in Calls : SendCall(c) \/ ReceiveResult(c) \/ CallLags(c)
  \/ UpdateDatabase
  \/ UpdateDatabaseLags
  \/ ServerStart

Worker(w) ==
  \/ GetJob(w)
  \/ HandOut(w)
  \/ \E body \in Bodies : SubmitJobResult(w, body)
  \/ SubmitFails(w)

Request ==
  \/ \E s \in Submissions : InsertSubmission(s)
  \/ \E c \in Calls : Subscribe(c)

Fault ==
  \/ \E s \in Submissions : MetadataFails(s)
  \/ \E w \in Workers : ResponseLost(w) \/ Disconnect(w) \/ WorkerFails(w)
  \/ ServerCrash

Network == \E w \in Workers : HandOutStale(w) \/ DropStale(w)

Next == Server \/ (\E w \in Workers : Worker(w)) \/ Request \/ Fault \/ Network

Spec == Init /\ [][Next]_vars

\* Every task of a running server is polled, a server and a worker that died
\* are started again, and a judgement ends: its programs run under a time
\* limit.
Fairness ==
  /\ \A s \in Submissions : WF_vars(SendSubmission(s))
  /\ \A c \in Calls : WF_vars(SendCall(c) \/ ReceiveResult(c) \/ CallLags(c))
  /\ WF_vars(UpdateDatabase \/ UpdateDatabaseLags)
  /\ WF_vars(ServerStart)
  /\ \A w \in Workers : WF_vars(Worker(w))

FairSpec == Spec /\ Fairness
-----------------------------------------------------------------------------
(* Properties.                                                             *)

Queued(j) == \E i \in DOMAIN queue : queue[i] = j

Held(j) == \E w \in Workers : job[w] = j

\* The job was put in the channel.
Sent(j) == pc[j] \in {"sent", "ok", "error"}

Answered(j) == answer[j] # "unanswered"

\* The job was sent and no task has it any more, yet no result came.
Lost(j) == Sent(j) /\ ~Queued(j) /\ ~Held(j) /\ ~Answered(j)

\* A job is never in two places: twice in the channel, at two workers, or
\* still in the channel or at a worker after its result was broadcast.  The
\* channel, the get_job handlers and the workers only ever pass it on.
AtMostOnce ==
  /\ \A i, k \in DOMAIN queue : queue[i] = queue[k] => i = k
  /\ \A w, v \in Workers : job[w] = job[v] /\ job[w] # NoJob => w = v
  /\ \A j \in Jobs : ~(Queued(j) /\ Held(j))
  /\ \A j \in Jobs : Queued(j) \/ Held(j) => Sent(j) /\ ~Answered(j)

\* A verdict in the database is the verdict a worker gave to that very
\* submission, although update_database overwrites whatever row the uuid of a
\* result selects and also sees the results of the contest imports.
VerdictIsItsOwn ==
  \A s \in Submissions :
    row[s] \notin {"none", "WJ"} =>
      /\ answer[s] \in Verdicts
      /\ row[s] = Column[answer[s]]

\* Once a verdict is written no later result, of this or of a restarted
\* server, changes it.
VerdictFinal ==
  [][\A s \in Submissions :
       row[s] \notin {"none", "WJ"} => row'[s] = row[s]]_vars

\* A call that still waits can still read its result: the result was sent
\* after the call subscribed, and reading past other results or falling behind
\* never leaves the caller waiting for one that is behind it.
ResultStillAhead ==
  \A c \in Calls :
    pc[c] = "sent" /\ Answered(c) =>
      \E i \in next[c] .. Len(bus) : bus[i].uuid = c

\* A call returns a result only after its own job was run, with that result.
CallGetsItsOwn ==
  \A c \in Calls : pc[c] = "ok" => Expects(c, answer[c])

\* As long as nothing failed, a submission waiting for judgement is on its way:
\* about to be sent, in the channel, at a worker, or its verdict is among the
\* results update_database has yet to read.  The one way out is a result
\* that is not a judgement, which update_database ignores.
WaitingIsAccountedFor ==
  faults = 0 =>
    \A s \in Submissions :
      row[s] = "WJ" =>
        \/ pc[s] = "inserted" \/ Queued(s) \/ Held(s)
        \/ answer[s] \in {"RunCached", "Nothing"}
        \/ \E i \in next[Db] .. Len(bus) : bus[i].uuid = s

\* What makes the invariants above inductive: a worker holds a job exactly while
\* it judges; only a job that was sent is answered; the bus carries the answers.
Busy == \A w \in Workers : phase[w] = "working" <=> job[w] # NoJob

AnsweredWasSent == \A j \in Jobs : Answered(j) => Sent(j)

BusCarriesAnswers ==
  \A i \in DOMAIN bus : answer[bus[i].uuid] = bus[i].body

\* Rows, and what of them is still to come.
RowsFollowTasks ==
  \A s \in Submissions : row[s] = "none" <=> pc[s] = "new"

IInv ==
  /\ TypeOK
  /\ Busy
  /\ AtMostOnce
  /\ AnsweredWasSent
  /\ BusCarriesAnswers
  /\ RowsFollowTasks
  /\ VerdictIsItsOwn

\* The same for the calls: a subscribed call has its position on the bus, not
\* after the result it waits for.
CallsKeepUp ==
  \A c \in Calls :
    pc[c] \in {"subscribed", "sent"} =>
      /\ next[c] \in 1 .. Tip
      /\ \A i \in DOMAIN bus : bus[i].uuid = c => next[c] <= i

AnswersStay ==
  \A c \in Calls :
    pc[c] = "sent" /\ Answered(c) => \E i \in DOMAIN bus : bus[i].uuid = c

CallInv == CallsKeepUp /\ AnswersStay /\ CallGetsItsOwn

\* Every job that is sent gets a result or is lost to a failure; none waits
\* forever while workers come back for jobs.
SentIsSettled ==
  \A j \in Jobs : Sent(j) ~> Answered(j) \/ Lost(j)

\* A contest import waiting for a job goes on unless that job was lost: there
\* is no timeout on the wait.
CallReturns ==
  \A c \in Calls : pc[c] = "sent" ~> pc[c] \in {"ok", "error"} \/ Lost(c)

\* While the server lives, a verdict that was broadcast reaches its row.
VerdictIsRecorded ==
  \A s \in Submissions :
    answer[s] \in Verdicts /\ faults = 0 ~> row[s] \notin {"none", "WJ"} \/ faults > 0

\* The languages a submission may name live in the memory of the server and come
\* from the workers: after every restart each language some worker has can be
\* submitted again, without anybody announcing it but the workers that come back.
LanguagesComeBack ==
  \A l \in UNION {Supports[w] : w \in Workers} : []<>(l \in languages)

\* The pipeline implements the service it promises.
Stage ==
  [j \in Jobs |->
     IF ~Sent(j) THEN "unsent"
     ELSE IF Answered(j) THEN "answered"
     ELSE IF Queued(j) THEN "queued"
     ELSE IF Held(j) THEN "taken" ELSE "lost"]

Service == INSTANCE JobService WITH stage <- Stage

ServiceSpec == Service!Spec

\* What the pipeline takes of the workers; module Judge says how they do it.
Untaken == {j \in Jobs : ~Sent(j) \/ Queued(j)}

Contract ==
  INSTANCE WorkerContract
  WITH waiting <- Untaken, holds <- job,
       Answers <- [w \in Workers |-> [j \in Jobs |-> Outcomes(w, j)]],
       Unanswered <- "unanswered"

\* The server gives no job to two workers and takes no answer but that of the
\* worker that has the job.
ContractSpec == Contract!Spec

\* The protocol has a verdict for a compilation error
\* (proto/job_queue.proto:55) and update_database a column value for it
\* (src/main.rs:66): without failures every submission is judged in the end.
EverySubmissionIsJudged ==
  \A s \in Submissions : row[s] = "WJ" ~> row[s] # "WJ"
=============================================================================
