# Jughisto in TLA+

Jughisto is a judge for programming contests. A web server (`src/`) takes
submissions and imports contests from Polygon packages; worker processes
(`alvokanto/`) compile and run programs in the isolate sandbox and send back
verdicts; the pages of contestants are refreshed by server-sent events. This
directory holds a specification of the parts where several of these meet, the
TLC runs that check it, and TLAPS proofs of the safety properties.

## 1. The system

| component | state | operations | hard behaviour | what makes it correct |
|---|---|---|---|---|
| Job queue and verdicts (`src/queue.rs`, `create_submission`, `update_database` in `src/main.rs`, `models/submission.rs`) | unbounded channel of jobs and broadcast channel of results, both in memory; the map of languages; rows of `submission` | insert and send a submission, `get_job`, `submit_job_result`, write a verdict | rows outlive the channel; jobs leave the channel before a worker has them; a lagging `update_database` takes the server down | no job twice, verdicts are one's own and final, nothing is lost without a failure |
| Calls of an import (`src/language.rs`) | a position on the broadcast | subscribe, send, wait | lag, other callers' results, no timeout | the awaited result is never behind the caller; it takes only its own |
| Worker (`alvokanto/src/main.rs`, `language.rs`) | its job, its box, the compiled programs below `/data`, which all workers share | `job_loop`, `judge`, `run_cached`, restart | two workers compile one checker; crash in the middle of a copy; a box that is not wiped; panics | verdicts follow from the tests that ran; each test runs its own submission, if its compiler wrote one |
| Isolate wrapper (`alvokanto/src/isolate.rs`) | none | run, parse the meta lines | the order of the lines | the status is the cause isolate named last |
| Live updates (`src/broadcaster.rs`, pages) | list of clients, a channel of 100 messages each | send, ping, connect, fetch | the event and the write are two tasks; full channels; a task that dies alone | a page is stale only for a known cause |
| Contest import (`create_contest`, `models/contest.rs`, `models/problem.rs`) | rows of `contest`, `problem`, `contest_problems`; test files in `/data` | insert, extract, upsert, generate and solve tests, judge, relate | no transaction, imports that overlap, jobs that outlive their import | a problem in a contest has whole tests; older contests are not touched |
| Scores and lists (`get_problems_user_by_contest_id_with_score` in `models/problem.rs`, the contest pages) | none of their own; rows of `submission` | one query for the score, one for the list, fetched again on events | verdicts out of order; score and list are two statements | a score never claims what the list does not show |
| Users, login, set-up (`models/user.rs`, `src/setup.rs`, `post_login`, `post_change_password`, `create_user`) | rows of `user`; a signed cookie | check and insert the administrator, verify, change, create | check and act are two statements; names are not unique; cookies outlive restarts | nobody becomes somebody else, no change is overwritten blindly, one administrator of set-up |
| Flash messages (`src/flash.rs`) | a cookie in the browser | set by redirects, shown by pages, removed by the response | set and removed by one response; several tabs; pages that fail | with one tab a message is shown once unless its page fails; it never comes back |
| Connection pool (`pool.get()` in `src/main.rs`) | 50 connections, blocked threads | get with a limit of one second, release | imports and logins hold connections while they wait; the main thread blocks | every request ends; only long waits can starve `update_database` |

How they interact: the handlers and the imports put jobs in one channel;
`get_job` takes them out; results go out on one broadcast channel that three
kinds of receivers read, each at its own pace: `update_database`, the
Broadcaster's task, and every call of an import. Workers and server share the
files below `/data`. Only the database, `/data` and the browsers' cookies survive
a restart. Every handler, import and login takes a connection from one pool, and
while it waits for one its thread does nothing else.

## 2. The modules

- `ResultBus`: tokio's broadcast channel as the code relies on it (external).
  `bus` is the list of results of this server process, `next[r]` the position of
  a receiver; a receiver more than `RxCap` behind has lagged. `main` asks for 40
  places, which tokio rounds up to 64.
- `JobPipeline`: queue, workers, results, `update_database`, calls of imports,
  and their failures. One action per step between two awaits or two statements:
  `create_submission` is `InsertSubmission` and then `SendSubmission` or
  `MetadataFails`; `get_job` is `GetJob` (languages recorded, handler waiting)
  and then `HandOut`, `ResponseLost`, or, when its connection is gone, `Disconnect`
  followed by `HandOutStale` or `DropStale`. `answer` is a history variable.
- `JobService`: what the pipeline promises, without channels, workers or crashes.
  `JobPipeline!ServiceSpec` is the refinement, with the mapping `Stage`.
- `WorkerContract`: what server and workers expect of each other: one job at a time,
  no job twice, one answer. `JobPipeline!ContractSpec` and `Judge!ContractSpec` are
  two refinements of it, of the server's side (where a worker's judgement is one
  step) and of the workers' (where the server is nothing but a set of jobs).
- `IsolateMeta`: the parser of meta lines, a recursive function of the number of
  lines read, with `ReferenceStatus`, its result said without one. `Reports` are the
  reports of isolate that differ for the judge (external: the submodule is not part
  of the repository).
- `Judge`: `judge` and `run_cached` on several workers: one box per worker (each
  alvokanto runs in a container of its own and uses box 0), one shared cache.
  Opening the compiled program, which empties it, and completing the copy are
  separate steps, and a crash may come between any two. `opener` is the worker that
  emptied a file last: once its own copy is complete the file is whole, while the
  copy of a worker it overtook may have been cut off or have a hole, so there
  `Installed` has two outcomes. If the opener dies the file may stay truncated;
  `torn` is the history of that. A checker that is open for writing does not start
  (`BeingWritten`); a truncated one may not start, reject, or accept.
- `Scoreboard`: the score query as an operator on the rows of one user.
- `LiveView`: `update_database`, the Broadcaster and the pages. The page of a
  contest is loaded by two statements (`Load`), score first; its list is fetched
  again on every event, its score never is. `excused` is a history variable that
  records which results could not reach a page and why.
- `ImportContest`: `create_contest` from `insert_contest` on, several imports at
  once. Calls to workers are jobs that are started, read their input when they
  start, and write their output when they end, whether or not the import is
  still there. `overlapped` and `spoiled` are history variables.
- `ContestCatalog`: what the imports promise of the tables, without files, jobs and
  replies. `ImportContest!CatalogSpec` is the refinement: `SelectContest` chooses,
  `RelateProblem` adds, everything that fails aborts.
- `Users`: the table of users, set-up and the handlers that read and write it, a
  statement at a time. A client is anyone with a cookie the server has signed. Any
  handler may fail (`HandlerFails`), also after a change or an insert was written,
  and answers with a plain 500 then.
  `verified`, `before`, `overwrote` and `writer` are history variables.
- `Session`: a browser with its two cookies in front of `Users`. A request takes the
  cookies along when it is sent (`Post`, `Browse`), a response changes them when it
  arrives (`Answer`, `Load`): with a message if it is a redirect, which the pages
  400 and 401 are too, and with none if it is a 500, a 404 or lost. The removal of
  `flash.rs` comes with any of them. `tidy` is a history variable of what the
  browser does: it waited for each response, and while it had a message it asked
  only for a page the redirect may lead to (`LeadsTo`), whatever that answered.
- `ServerPool`: who holds a connection, and on which thread; of a handler only
  what it does between `pool.get()` and dropping the connection.
- `MC...`: constants for TLC.
- `...Proofs`: the theorems, see section 6.

`JobPipeline` and `LiveView` extend `ResultBus`, `LiveView` also `Scoreboard`;
`Judge` extends `IsolateMeta`, `Session` extends `Users`. `ImportContest` and
`ServerPool` use of the calls what `JobPipeline` shows of them: a call ends with its
own result, with an error, or never.

Operators whose comment says "Mutant of" are plausible bugs in the code. The
specifications do not use them; each stands for the definition it names in a run
that must then fail, which shows that a property depends on the code it is about.

## 3. The runs

| run | properties | shows | bounds |
|---|---|---|---|
| `Pipeline_safety` | `TypeOK`, `AtMostOnce`, `VerdictIsItsOwn`, `WaitingIsAccountedFor`, `ServiceSpec` | jobs are not duplicated, verdicts are right, nothing is lost without a failure, the pipeline implements the service, by which verdicts are final | 2 submissions and 1 cached run, 2 workers of which one lacks a language |
| `Pipeline_calls` | `ResultStillAhead`, `CallGetsItsOwn`, `SentIsSettled`, `CallReturns`, `VerdictIsRecorded`, `LanguagesComeBack` | a waiting call never misses its result; every job is answered or was lost to a failure; languages are offered again after a restart | 1 submission, 1 call of each kind, a bus of 1, one failure |
| `Meta_parse` | `StatusIsLastCause` | every sequence of at most 5 meta lines | 7 different lines |
| `Judge_two_workers` | `TypeOK`, `AcceptedIsEarned`, `VerdictNamesTheFailure`, `RunsOwnProgram`, `PartialOnlyAfterCrash`, `ContractSpec` | two workers, one checker, crashes; a test runs its own submission, except those of a submission whose compiler succeeded without writing the file that is run (`Silent`), which run what an earlier one left; they implement the contract | 1 or 2 tests |
| `Judge_one_worker` | `CacheStaysWhole`, `WorkerComesBack` | the shipped deployment, with a problem without tests | 4 jobs |
| `Live_pages` | `TypeOK`, `StaleViewHasCause`, `ScoreIsListed`, `ScoreOnlyImproves`, `GoneClientsLeave`, `PageCatchesUp` | a stale page has a cause or catches up; scores while verdicts come in | 2 submissions, both accepted, in either order, and 1 cached run; bus of 1, client channels of 2, 1 page, 2 connections, 1 that breaks |
| `Import_overlap` | `TypeOK`, `RelatedIsWhole`, `DoneIsComplete`, `CatalogSpec`, `ImportEnds` | two imports that share a problem; they implement the catalog | 2 problems, a manual and a generated test, 1 failure |
| `Web_sessions` | `TypeOK`, `LoginIsOwn`, `NoBlindOverwrite`, `AdminsMakeUsers`, `SetupOnce`, `MessageShownOnce`, `MessageNeverReturns` | logins, changes of passwords and new users in several tabs, with their messages, while handlers and pages fail and set-up crashes; a tidy browser loses a message only on a page that is an error | 2 forms, 2 pages, 2 names, 2 passwords, 1 crash; an empty table or one with namesakes |
| `Server_pool` | `StarvedByWaiters`, `EveryRequestEnds` | no circle of threads and connections lasts; what starves `update_database` | 2 connections, 1 thread, 2 imports, a login, 2 short requests, 1 lost job |
| `Pipeline_compile_error` | `EverySubmissionIsJudged` | violated, see section 4 | 1 submission |
| `Judge_limits` | `AcceptedWithinLimits` | violated | 1 submission, 2 tests |
| `Live_race` | `PageShowsVerdict` | violated | nothing breaks, nothing is full |

What the properties excuse. Some hazards the code does nothing against, and a
property that forbade them would be false; where a property names such a case as its
exception it does not cover the hazard, and says that nothing else leads there:

- `WaitingIsAccountedFor` and `VerdictIsRecorded` hold while nothing has failed: a
  restart, a lost response, or a `create_submission` that fails between its insert and
  its send leaves a row that waits for ever, and so does a lag of `update_database`;
- `CallReturns` and `ImportEnds` excuse a call whose job was lost: it has no timeout;
- `RelatedIsWhole` excuses a problem that an import is at work on, that two imports
  were at work on at once, or that one failed on: nothing is undone, and late workers
  write where they were told to;
- `RunsOwnProgram` excuses the tests of a `Silent` submission, `LoginIsOwn` a
  namesake, `NoBlindOverwrite` changes of a password that overlap;
- `MessageShownOnce` excuses a page that is answered with an error.

Why the bounds are enough. Jobs are identified by their uuid and never interact
but through the channel, the bus and a worker, all of which two or three jobs
already contend for. The capacities (`RxCap`, `ClientCap`) are constants of the
specification; one or two places make a receiver lag and a channel fill in a few
steps, which 64 and 100 places would need hundreds for. The bounds on failures
(`MaxFaults`, `MaxDrops`, `MaxCrashes`, `MaxLost`) are in the guards of the failing
actions. Two forms are what a race takes: two changes of one password, a login and
a change, or a login and a new namesake; two pages carry the messages of both.
Two connections and two imports make the pool as full as fifty of each would.
A lag of `update_database` adds to `faults` without that guard: it is caused by
the code, and the number of results bounds it.
`CHECK_DEADLOCK FALSE` is in every configuration: the jobs, imports or lines of
a run are finite, and once they are settled nothing is left to do.

## 4. Where the code disagrees with itself

- **A submission that does not compile is never judged.** The worker answers with
  a `RunCached` (`alvokanto/src/main.rs:350`); `update_database` writes judgements
  only (`src/main.rs:56`), although the protocol, `update_database` and the
  template all know a compilation error. Run `Pipeline_compile_error`.
- **A limit exceeded on a test other than the last may not count.** isolate can
  find a limit exceeded after the program ended with exit code 0; the loop in
  `judge` looks at the exit code (`alvokanto/src/main.rs:408`) and keeps the
  status of the last run only. Run `Judge_limits`. It rests on isolate reporting
  `exitcode:0` and then `status:TO`, which it does for a program that ends
  between two of its checks of the clock.
- **A page may keep showing a judged submission as waiting.** The event is sent by
  a task that does not wait for the write. Run `Live_race`.

Noticed while modelling, and outside the models: the check box of
`templates/me.html.hbs` comes with a hidden field of the same name, so a browser
that ticks it sends `is_admin` twice, which the form's deserializer takes for a
duplicate field and answers with 400; `Users` has the handler as it is reached by a
form that sends it once. The score on the page of a contest is not refreshed by
events, only its list is; `ScoreIsListed` says that the two still agree as far as
the score goes.

## 5. Fairness

- Tasks of the server (`SendSubmission`, the loops of the calls, `UpdateDatabase`,
  `Notify`): weak fairness; they are futures polled by the runtime, and none
  waits for another.
- `ServerStart`, `Restart`: weak fairness; `docker-compose.prod.yml` restarts both
  processes on failure.
- `Worker(w)`, `Work(w)`: weak fairness; a judgement ends, since every program
  runs under a wall clock limit of 50 seconds (`isolate.rs:72`), and `job_loop`
  asks again at once, or after three seconds when the connection broke.
- Pages: weak fairness of reading, reconnecting (browsers do so by themselves for
  an event stream) and of the answer to a request.
- `ServerPool`: a thread that is not blocked runs, `pool.get()` returns or gives up
  after its second, a login's hash ends, and workers answer what they were sent
  unless the job is lost. `Restart` and new requests have no fairness there.
- `LanguagesComeBack` rests on workers asking again after a restart, which is the
  fairness of `Worker(w)`.
- No fairness for requests or failures: nobody has to submit, and nothing has to
  break. `Session` and `Users` promise no liveness and state no fairness.

## 6. Proofs

Every invariant and action property of the passing runs is proved for any values of
the constants, and `CacheStaysWhole` for one worker, as in its run. The only
assumptions are the `ASSUME`s of the modules (types of constants, disjoint kinds of
jobs, capacities that are not zero, finite sets where something is counted), each of
which TLC evaluates in a run, and two hypotheses that theorems state themselves: one
worker (`CacheStaysWholeAlone`), and a bus with a place for every job
(`CapacityIsEnough`). Every part of an inductive invariant that TLC can evaluate was
checked with it first.

`JobPipelineProofs` (`TypeCorrect`, `JobsInOnePlace`, `VerdictsAreTheirOwn`,
`VerdictsAreFinal`, `WaitingIsOnItsWay`, `ResultsAreAhead`, `CallsGetTheirOwn`,
`ImplementsService`, `ServerKeepsContract`, `ResultsAreOnce`, `CapacityIsEnough`).
The inductive invariant `IInv` adds to the properties what they need of the rest of
the state. `AtMostOnce` alone is not inductive: to see that a submitted result is
the first one, one needs `Busy` (a worker judges exactly while it holds a job) and
`AnsweredWasSent` (a job that is still new has no answer, so sending it cannot put
an answered job in the channel). `VerdictIsItsOwn` needs `BusCarriesAnswers`, since
the row is written from the bus and not from the worker, and `RowsFollowTasks` for
the refinement. `VerdictFinal` follows because an answer never changes
(`AnswerStands`). For the calls, `CallInv` says that the position of a call is never
after its own result; `ResultStillAhead` follows from it and `AnswersStay`.
`WaitingIsOnItsWay` follows a submission from place to place while `NothingFailed`.
`ImplementsService` maps every step to a step of `JobService` or a stutter,
`ServerKeepsContract` to one of `WorkerContract`: a job that is new or in the
channel was never taken. `VerdictFinal` is in no run, since `ServiceSpec` implies
it. `ResultsAreOnce` says that the bus never has two results of one job, because a
worker holds only jobs without an answer; so results map injectively into jobs, and
`CapacityIsEnough` follows: with a place for each job nobody lags, and the lag that
ends the server takes more results than the bus has places.

`JudgeProofs` (`AcceptedAreEarned`, `VerdictsNameTheFailure`,
`TestsRunTheirOwnProgram`, `PartialNeedsACrash`, `CacheStaysWholeAlone`,
`WorkersKeepContract`, `AcceptedEndedWithinLimits`, `WorkLeadsBack`). The invariant
says of each worker what it knows at its step (`Hired`, `AtWork`: at its tests, all
that ran passed and the file it runs is its own, unless its job is `Silent`) and of
each judgement what is on record (`Earned`, `Named`). `AcceptedAreEarned` says
nothing of the checker's file: a truncated one that exits with 0 is believed.
Workers interfere through the cache only, and `Installing` says that whatever is
truncated there is still being written by the worker that emptied it last, or
`torn`; hence `PartialNeedsACrash`, however workers overtake each other.
`TestsRunTheirOwnProgram` has the exception of the `Silent` submissions, for which
the code does nothing: their tests run what is in the box, and `Filed` says that
this is the program of a submission with the same file, or none. Of the parser the
proofs take `ReportsGiveStats`. `CacheStaysWholeAlone` takes that there is one
worker. `WorkersKeepContract` maps `Return` to an answer and `Panic` to giving up; a
worker has a job exactly while it is in one (`Hired`), so neither can happen twice.
Server and workers thus meet at one contract: `Outcomes` of `JobPipeline` are the
answers of `Judge`, with `Accepted` and `WrongAnswer` for all verdicts and `Nothing`
for a language the worker lacks. `AcceptedEndedWithinLimits` bounds what
`Judge_limits` shows: `Earned` has the status of the last test too, so only a test
before it can have been over its limit.

`IsolateMetaProofs` (`ReportsGiveStats`, `MetaInvariant`,
`StatusIsLastCauseAlways`). That a recursive function exists, with one value for
each number of lines, takes an induction the provers cannot instantiate. The machine
of `MCIsolateMeta` makes it one over steps instead: it reads one line at a time, and
`Readable` (there is one function that satisfies the recursive equation) is part of
the invariant, which the next line extends (`ParseAppend`). `ReferenceAppend` says
what a line does to the last cause, so the two agree after any number of lines.

`ImportContestProofs` (`OlderContestsStay`, `DoneIsCompleteAlways`,
`RelatedIsWholeAlways`, `ImportsKeepCatalog`, `ImportsGetOn`). `TInv` places each
import, its job and its files. An import that asks for the newest contest gets its
own or a newer one because contests only grow (`ContestsGrow`). `DoneIsComplete`
needs what is behind an import on its list (`Behind`), and that it starts with
nothing (`AtFirst`). For `RelatedIsWhole` the argument is who may write: the files
of a problem that is neither `overlapped` nor `spoiled` are written by one import
and its job only (`Alone`), which leaves behind it every test it has been through
whole (`Progress`). `ImportsKeepCatalog` has three steps of the catalog
(`InsertContest`, `SelectContest`, `RelateProblem`); all others leave its tables
alone or abort imports (`OtherSteps`). It implies `OlderContestsUntouched`, which is
in no run, and adds that problems come in the order of the file, each once.

`LiveViewProofs` (`StaleViewsHaveCauses`, `ScoresAreListed`, `ScoresOnlyImprove`,
`ViewsOnlyMoveForward`). Rows only move forward (`Older`), and `LaterRows` says what
that means for a score: the least accepted instant goes down, and counts up to a
given instant go up. `ScoreIsListed` needs that a score fits the table from the
moment it is read. `StaleViewHasCause` is not inductive, since it says nothing
before the verdict is written; `AllHeard` drops that premise: whatever result the
Broadcaster has read is shown, on its way, or excused, written or not.
`ViewsOnlyMoveForward` follows from `ViewsAreOlder`, for a page's list only ever
becomes that of the database.

`UsersProofs` and `SessionProofs` (`LoginsAreOwn`, `ChangesKnowWhatTheyReplace`,
`UsersAreMadeByAdmins`, `SetupRunsOnce`, `MessagesDoNotReturn`,
`MessagesAreShownOnce`). `UsersInvariant` is proved for clients of any behaviour:
`CookiesTrue` (an identity that was signed is that of its row), `Stages` (what a
handler knows from its earlier statements), `FirstRow`, and `Writers`: the last
writer of a row is known by its password, so a handler that verified the old one
knew every change that was answered before it came. `ImplementsUsers` shows that a
browser is such a client, so the same holds behind it. Of the messages,
`MessagesCame` (a message that is about came with a response the browser has),
`OneAtATime` (a tidy browser waits for one response at most; if there is a message,
of a page that shows it or fails) and `Redirected` (where a message leads the
browser is let in) make the two properties inductive. `Redirected` rests on
`Authorized`: only a login is handled without an identity, so a redirect back to a
private page finds the browser logged in. `MessagesAreShownOnce` is no more than the
code does: a 500 loses the message even with one tab, for `flash.rs` removes it with
the response.

`ServerPoolProofs` (`Starved`, `PoolIsEnough`, `RequestsGetOn`). `Placed` says that
a thread runs at most one client, so the running ones map injectively into the
threads. Hence a pool of more connections than threads, logins and imports together
never takes the server down.

Only model-checked: every liveness property (`SentIsSettled`, `CallReturns`,
`VerdictIsRecorded`, `LanguagesComeBack`, `WorkerComesBack`, `GoneClientsLeave`,
`PageCatchesUp`, `ImportEnds`, `EveryRequestEnds`), which together with ENABLED is
out of the prover's reach. Of three of them the half that is no matter of fairness
is proved, for values of the constants no run could reach: something that cannot go
down forever goes down with every step. For `WorkerComesBack` it is the number of
steps a job can still take (`WorkLeadsBack`); for `ImportEnds` the problems, the
tests and the steps of a test before an import, in lexicographic order
(`ImportsGetOn`); for `EveryRequestEnds` the changes of state before a request
(`RequestsGetOn`). What TLC has to add there is that some step is possible and that
the scheduler takes it.

## 7. What is not modelled

Left out of the modules on purpose:

- times, memory and the text of error output; the arguments of isolate; the
  content of sources and tests, of which only "whole" and "truncated" (or "right"
  and "wrong" answers) are told apart;
- the extraction of a package's sources, which `ImportContest` places in the order
  of steps without modelling files that are half written; clients that disconnect
  from an import, which goes on without them;
- in `Users` and `Session`: a hash is known by its password; the JSON of the
  message's cookie always parses; why a handler or a page fails (a pool without
  connections is in `ServerPool`);
- in `ServerPool`: the instant at which the second of patience ends, when r2d2 looks
  for a connection once more; the statements themselves;
- the package parser (`src/import_contest.rs`): declarations of two XML formats,
  data without state;
- the schema and its migrations, of which the keys that matter are in guards;
  templates, styles and build files; `alvokanto/src/queue.rs`, which is dead code.

`Judge` takes it that the system refuses to run a file that is open for writing, and
to open one for writing that runs. `LiveView` takes it that a
page reaches both its event stream and its list; the paths in the templates are
the deployment's business.

What could come next: the pool composed with the pages, whose requests answer 500
while imports hold every connection; `ImportContest` against `Judge`, to say what a
submission to a problem that is being imported again may be told.
