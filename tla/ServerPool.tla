----------------------------- MODULE ServerPool ------------------------------
(***************************************************************************)
(* The pool of database connections and the threads that wait for it.      *)
(* pool.get() (r2d2) blocks its thread, for at most a second, and with it  *)
(* everything else the thread would do: the other requests of an actix     *)
(* worker, or, on the main thread, update_database, the gRPC service and   *)
(* so every answer an import waits for.                                    *)
(***************************************************************************)
EXTENDS Naturals, FiniteSets

CONSTANTS
  PoolSize,       \* connections in the pool: 50 in the code
  Threads,        \* threads of actix workers
  Main,           \* the thread of update_database and the gRPC service
  Db,             \* update_database
  Shorts,         \* requests that keep their thread while they hold a connection
  Submissions,    \* those of them that submit a program
  Logins,         \* requests that verify a password on a thread of its own
  Imports,        \* imports of a contest
  Calls,          \* calls to workers each import makes, the last a judgement
  MaxLost         \* bound: jobs that get lost

Requests == Shorts \cup Logins \cup Imports
Clients == Requests \cup {Db}

ASSUME ServerPoolAssumption ==
  /\ PoolSize \in Nat \ {0}
  /\ IsFiniteSet(Threads) /\ Main \notin Threads
  /\ IsFiniteSet(Requests) /\ Db \notin Requests
  /\ Submissions \subseteq Shorts
  /\ Shorts \cap Logins = {} /\ Shorts \cap Imports = {} /\ Logins \cap Imports = {}
  /\ Calls \in Nat \ {0}
  /\ MaxLost \in Nat

VARIABLES
  up,             \* the server runs
  state,          \* where each client of the pool is
  at,             \* its thread
  left,           \* calls each import has still to make
  pending,        \* judgements on the bus that update_database has not read
  owed,           \* submissions at the workers
  lost            \* jobs that got lost

vars == <<up, state, at, left, pending, owed, lost>>

\* In getting and holding a client runs on its thread.  A login that is away and
\* an import that is waiting, answered or stuck have a connection and no thread.
Blocking == {"getting", "holding"}
Away == {"away", "waiting", "answered", "stuck"}
Ended == {"done", "failed", "gone"}

TypeOK ==
  /\ up \in BOOLEAN
  /\ state \in [Clients -> {"new"} \cup Blocking \cup Away \cup Ended]
  /\ at \in [Clients -> Threads \cup {Main}]
  /\ left \in [Imports -> 0 .. Calls]
  /\ pending \in Nat
  /\ owed \in Nat
  /\ lost \in 0 .. MaxLost

Init ==
  /\ up = TRUE
  /\ state = [c \in Clients |-> "new"]
  /\ at = [c \in Clients |-> Main]
  /\ left = [i \in Imports |-> Calls]
  /\ pending = 0
  /\ owed = 0
  /\ lost = 0

Holders == {c \in Clients : state[c] \in {"holding"} \cup Away}

HasFree == Cardinality(Holders) < PoolSize

\* Mutant of Blocked: a thread goes on once its request has the connection.
BlockedByGet(t) == \E c \in Clients : at[c] = t /\ state[c] = "getting"

Blocked(t) == \E c \in Clients : at[c] = t /\ state[c] \in Blocking

Goto(c, s) == state' = [state EXCEPT ![c] = s]

-----------------------------------------------------------------------------
(* pool.get() and what holds a connection.                                 *)

\* A worker thread that is not blocked starts the handler of a request.
Arrive(c, t) ==
  /\ up
  /\ state[c] = "new"
  /\ ~Blocked(t)
  /\ at' = [at EXCEPT ![c] = t]
  /\ Goto(c, "getting")
  /\ UNCHANGED <<up, left, pending, owed, lost>>

\* A judgement on the bus makes update_database ask for a connection.
Judgement ==
  /\ up
  /\ state[Db] = "new"
  /\ pending > 0
  /\ pending' = pending - 1
  /\ Goto(Db, "getting")
  /\ UNCHANGED <<up, at, left, owed, lost>>

\* A login takes its connection to a thread where it may block (web::block).
Get(c) ==
  /\ state[c] = "getting"
  /\ HasFree
  /\ Goto(c, IF c \in Logins THEN "away" ELSE "holding")
  /\ UNCHANGED <<up, at, left, pending, owed, lost>>

\* Mutant of TimesOut: get waits as long as it takes.
TimesOutNever(c) == FALSE

\* After a second without a connection: the request is answered with a 500.
TimesOut(c) ==
  /\ c \in Requests
  /\ state[c] = "getting"
  /\ ~HasFree
  /\ Goto(c, "failed")
  /\ UNCHANGED <<up, at, left, pending, owed, lost>>

\* update_database unwraps the error.  The process ends, with its requests, its
\* pool, its bus and its channel of jobs.
ServerDies ==
  /\ state[Db] = "getting"
  /\ ~HasFree
  /\ up' = FALSE
  /\ state' = [c \in Clients |->
                 IF c = Db THEN "new"
                 ELSE IF state[c] \in Blocking \cup Away THEN "gone" ELSE state[c]]
  /\ pending' = 0
  /\ owed' = 0
  /\ UNCHANGED <<at, left, lost>>

Restart ==
  /\ ~up
  /\ up' = TRUE
  /\ UNCHANGED <<state, at, left, pending, owed, lost>>

\* The handler ends: a short request, an import that is through, or one turn of
\* update_database.
Release(c) ==
  /\ state[c] = "holding"
  /\ c \in Imports => left[c] = 0
  /\ Goto(c, IF c = Db THEN "new" ELSE "done")
  /\ owed' = IF c \in Submissions THEN owed + 1 ELSE owed
  /\ UNCHANGED <<up, at, left, pending, lost>>

\* A statement, a file or a result makes the import return an error.
ImportFails(i) ==
  /\ state[i] = "holding"
  /\ Goto(i, "failed")
  /\ UNCHANGED <<up, at, left, pending, owed, lost>>

\* The password is verified; the closure ends and drops the connection.
Verified(c) ==
  /\ state[c] = "away"
  /\ Goto(c, "done")
  /\ UNCHANGED <<up, at, left, pending, owed, lost>>

-----------------------------------------------------------------------------
(* The calls of an import, which keeps its connection meanwhile.           *)

Send(i) ==
  /\ state[i] = "holding"
  /\ left[i] > 0
  /\ left' = [left EXCEPT ![i] = @ - 1]
  /\ Goto(i, "waiting")
  /\ UNCHANGED <<up, at, pending, owed, lost>>

\* A worker takes the job and submits its result, both through the gRPC service.
Answer(i) ==
  /\ state[i] = "waiting"
  /\ ~Blocked(Main)
  /\ Goto(i, "answered")
  /\ pending' = IF left[i] = 0 THEN pending + 1 ELSE pending
  /\ UNCHANGED <<up, at, left, owed, lost>>

\* The job is lost, and the call has no timeout.
Lose(i) ==
  /\ state[i] = "waiting"
  /\ lost < MaxLost
  /\ lost' = lost + 1
  /\ Goto(i, "stuck")
  /\ UNCHANGED <<up, at, left, pending, owed>>

\* The task of the import is polled by its own thread only.
Resume(i) ==
  /\ state[i] = "answered"
  /\ ~Blocked(at[i])
  /\ Goto(i, "holding")
  /\ UNCHANGED <<up, at, left, pending, owed, lost>>

\* The verdict of a submission comes in.
Judged ==
  /\ up
  /\ owed > 0
  /\ ~Blocked(Main)
  /\ owed' = owed - 1
  /\ pending' = pending + 1
  /\ UNCHANGED <<up, state, at, left, lost>>

-----------------------------------------------------------------------------
Import(i) == Send(i) \/ Answer(i) \/ Lose(i) \/ Resume(i) \/ ImportFails(i)

Next ==
  \/ \E c \in Requests, t \in Threads : Arrive(c, t)
  \/ Judgement \/ ServerDies \/ Restart \/ Judged
  \/ \E c \in Clients : Get(c) \/ TimesOut(c) \/ Release(c) \/ Verified(c)
  \/ \E i \in Imports : Import(i)

Spec == Init /\ [][Next]_vars

\* Threads that are not blocked run, get returns or times out, and workers answer
\* what they are sent.
Fairness ==
  /\ \A c \in Clients :
       WF_vars(Get(c) \/ TimesOut(c)) /\ WF_vars(Release(c)) /\ WF_vars(Verified(c))
  /\ WF_vars(ServerDies)
  /\ \A i \in Imports : WF_vars(Send(i)) /\ WF_vars(Answer(i)) /\ WF_vars(Resume(i))

FairSpec == Spec /\ Fairness
-----------------------------------------------------------------------------
(* Properties.                                                             *)

\* A thread runs one client at a time, and so whatever is short holds at most one
\* connection for each thread: when update_database waits for a connection in
\* vain, which ends the server, all others are with imports that wait for workers
\* and logins that verify passwords.
StarvedByWaiters ==
  state[Db] = "getting" /\ ~HasFree =>
    Cardinality({c \in Requests : state[c] \in Away}) + Cardinality(Threads)
      >= PoolSize

\* Every request is answered, or its import waits for a job that was lost, or the
\* server died: although a thread that waits for a connection keeps the imports
\* that hold one from going on, the second of patience ends every such circle.
EveryRequestEnds ==
  \A c \in Requests : state[c] \in Blocking \cup Away ~> state[c] \in Ended \cup {"stuck"}
=============================================================================
