------------------------------ MODULE LiveView -------------------------------
(***************************************************************************)
(* How a page of submissions learns of a verdict: update_database writes   *)
(* it, the task of the Broadcaster (src/broadcaster.rs) turns the same     *)
(* result into an event for every connected client, and a page that gets   *)
(* the event fetches its list of submissions again.  The two tasks read    *)
(* the same bus, each at its own pace.  The page of a contest also shows   *)
(* the score, which it gets when it is loaded and never again.             *)
(***************************************************************************)
EXTENDS ResultBus, Scoreboard

CONSTANTS
  Outcome,        \* the verdict of each submission
  RunResults,     \* results that are no judgements
  Pages,          \* browser pages that show the submissions
  Connections,    \* bound: connections to submission_updates
  Nothing,
  Db, Sse,        \* update_database and the Broadcaster's task
  ClientCap,      \* capacity of the channel of a client: 100 in the code
  MaxDrops        \* bound: connections that break

ASSUME LiveViewAssumption ==
  /\ Submissions \cap RunResults = {}
  /\ Outcome \in [Submissions -> {"AC", "WA"}]
  /\ Nothing \notin Connections
  /\ Db # Sse
  /\ ClientCap \in Nat \ {0}
  /\ MaxDrops \in Nat

VARIABLES
  up,             \* the server runs
  row,            \* the verdict column
  clients,        \* the clients of the Broadcaster, each known by its connection
  open,           \* connections whose response is still being streamed
  stream,         \* messages in the channel of each client
  conn,           \* the connection each page listens to
  fetch,          \* requests of each page for its list of submissions
  view,           \* the rows each page shows
  score,          \* the score each page shows
  excused,        \* history: results that could not reach each page
  drops

vars == <<bus, next, up, row, clients, open, stream, conn, fetch, view, score,
          excused, drops>>

Rows == [Submissions -> {"none", "WJ", "AC", "WA"}]

TypeOK ==
  /\ bus \in Seq(Submissions \cup RunResults)
  /\ next \in [{Db, Sse} -> Nat]
  /\ up \in BOOLEAN
  /\ row \in Rows
  /\ clients \in SUBSET Connections
  /\ open \in SUBSET Connections
  /\ stream \in [Connections -> Seq({"connected", "ping", "update"})]
  /\ \A c \in Connections : Len(stream[c]) <= ClientCap
  /\ conn \in [Pages -> Connections \cup {Nothing}]
  /\ fetch \in [Pages -> {"closed", "loading", "none", "asked", "again"}]
  /\ view \in [Pages -> Rows]
  /\ score \in [Pages -> [first : 0 .. Never, failed : Nat]]
  /\ excused \in [Pages -> SUBSET Submissions]
  /\ drops \in 0 .. MaxDrops

Init ==
  /\ bus = <<>>
  /\ next = [r \in {Db, Sse} |-> 1]
  /\ up = TRUE
  /\ row = [s \in Submissions |-> "none"]
  /\ clients = {}
  /\ open = {}
  /\ stream = [c \in Connections |-> <<>>]
  /\ conn = [p \in Pages |-> Nothing]
  /\ fetch = [p \in Pages |-> "closed"]
  /\ view = [p \in Pages |-> row]
  /\ score = [p \in Pages |-> Score(row)]
  /\ excused = [p \in Pages |-> {}]
  /\ drops = 0

-----------------------------------------------------------------------------
(* The results and the two tasks that read them.                           *)

\* create_submission, from whatever page, inserts a row.
InsertSubmission(s) ==
  /\ up
  /\ row[s] = "none"
  /\ row' = [row EXCEPT ![s] = "WJ"]
  /\ UNCHANGED <<bus, next, up, clients, open, stream, conn, fetch, view, score,
                 excused, drops>>

\* A worker submits a result.
SubmitJobResult(r) ==
  /\ up
  /\ r \in Submissions => row[r] # "none"
  /\ \A i \in DOMAIN bus : bus[i] # r
  /\ bus' = Append(bus, r)
  /\ UNCHANGED <<next, up, row, clients, open, stream, conn, fetch, view, score,
                 excused, drops>>

UpdateDatabase ==
  /\ up
  /\ HasResult(Db)
  /\ row' = [s \in Submissions |-> IF s = bus[next[Db]] THEN Outcome[s] ELSE row[s]]
  /\ next' = [next EXCEPT ![Db] = @ + 1]
  /\ UNCHANGED <<bus, up, clients, open, stream, conn, fetch, view, score,
                 excused, drops>>

\* It lags and panics, and the server with it.
UpdateDatabaseLags ==
  /\ up
  /\ Lagged(Db)
  /\ up' = FALSE
  /\ UNCHANGED <<bus, next, row, clients, open, stream, conn, fetch, view,
                 score, excused, drops>>

\* Mutant of Accepts: a channel that takes one message too many.
AcceptsOneMore(c) == c \in open /\ Len(stream[c]) <= ClientCap

\* try_send succeeds: the channel has room and its receiver is there.
Accepts(c) == c \in open /\ Len(stream[c]) < ClientCap

\* Mutant of Reached: the first client that fails ends the loop of send.
ReachedUntilFailure == IF \A c \in clients : Accepts(c) THEN clients ELSE {}

\* The clients an event gets to; send drops it silently for the others.
Reached == {c \in clients : Accepts(c)}

Sent(C, msg) ==
  [c \in Connections |-> IF c \in C THEN Append(stream[c], msg) ELSE stream[c]]

\* One turn of the loop of spawn_receiver: every judgement is an event.
Notify ==
  /\ up
  /\ HasResult(Sse)
  /\ next' = [next EXCEPT ![Sse] = @ + 1]
  /\ IF bus[next[Sse]] \in Submissions
     THEN /\ stream' = Sent(Reached, "update")
          /\ excused' = [p \in Pages |->
               IF conn[p] \in clients /\ Accepts(conn[p]) THEN excused[p]
               ELSE excused[p] \cup {bus[next[Sse]]}]
     ELSE UNCHANGED <<stream, excused>>
  /\ UNCHANGED <<bus, up, row, clients, open, conn, fetch, view, score, drops>>

\* It lags and its task panics; nobody waits for the task, the server goes on.
NotifierLags ==
  /\ up
  /\ Lagged(Sse)
  /\ next' = [next EXCEPT ![Sse] = 0]
  /\ UNCHANGED <<bus, up, row, clients, open, stream, conn, fetch, view, score,
                 excused, drops>>

\* Mutant of Ping: only a channel without room counts as a failure.
PingFull ==
  /\ up
  /\ clients' = {c \in clients : Len(stream[c]) < ClientCap}
  /\ stream' = Sent(Reached, "ping")
  /\ UNCHANGED <<bus, next, up, row, open, conn, fetch, view, score, excused,
                 drops>>

\* remove_stale_clients, every three seconds: who cannot take a ping is dropped.
Ping ==
  /\ up
  /\ clients' = Reached
  /\ stream' = Sent(Reached, "ping")
  /\ UNCHANGED <<bus, next, up, row, open, conn, fetch, view, score, excused,
                 drops>>

-----------------------------------------------------------------------------
(* The pages.                                                              *)

Loaded(p) == fetch[p] \notin {"closed", "loading"}

\* Mutant of Load: the list is read before the score.
LoadListFirst(p) ==
  /\ up
  /\ \/ /\ fetch[p] = "closed"
        /\ view' = [view EXCEPT ![p] = row]
        /\ fetch' = [fetch EXCEPT ![p] = "loading"]
        /\ UNCHANGED score
     \/ /\ fetch[p] = "loading"
        /\ score' = [score EXCEPT ![p] = Score(row)]
        /\ fetch' = [fetch EXCEPT ![p] = "asked"]
        /\ UNCHANGED view
  /\ UNCHANGED <<bus, next, up, row, clients, open, stream, conn, excused,
                 drops>>

\* get_contest_by_id reads the score and then, in a second statement, the list;
\* the page asks for its list once more as soon as it is loaded.
Load(p) ==
  /\ up
  /\ \/ /\ fetch[p] = "closed"
        /\ score' = [score EXCEPT ![p] = Score(row)]
        /\ fetch' = [fetch EXCEPT ![p] = "loading"]
        /\ UNCHANGED view
     \/ /\ fetch[p] = "loading"
        /\ view' = [view EXCEPT ![p] = row]
        /\ fetch' = [fetch EXCEPT ![p] = "asked"]
        /\ UNCHANGED score
  /\ UNCHANGED <<bus, next, up, row, clients, open, stream, conn, excused,
                 drops>>

\* submission_updates: a new client, greeted.
Connect(p, c) ==
  /\ up
  /\ Loaded(p)
  /\ conn[p] = Nothing
  /\ \A q \in Pages : conn[q] # c
  /\ c \notin clients \cup open
  /\ clients' = clients \cup {c}
  /\ open' = open \cup {c}
  /\ stream' = [stream EXCEPT ![c] = <<"connected">>]
  /\ conn' = [conn EXCEPT ![p] = c]
  /\ UNCHANGED <<bus, next, up, row, fetch, view, score, excused, drops>>

\* The page reads the next message of its stream.  On an event it asks for its
\* list, after the request it is waiting for if there is one.
Read(p) ==
  /\ conn[p] # Nothing
  /\ stream[conn[p]] # <<>>
  /\ stream' = [stream EXCEPT ![conn[p]] = Tail(@)]
  /\ fetch' = [fetch EXCEPT ![p] =
                 IF Head(stream[conn[p]]) # "update" THEN @
                 ELSE IF @ = "none" THEN "asked" ELSE "again"]
  /\ UNCHANGED <<bus, next, up, row, clients, open, conn, view, score, excused,
                 drops>>

\* The page comes to the end of a stream whose client was dropped.
StreamEnds(p) ==
  /\ conn[p] # Nothing
  /\ conn[p] \notin clients
  /\ stream[conn[p]] = <<>>
  /\ open' = open \ {conn[p]}
  /\ conn' = [conn EXCEPT ![p] = Nothing]
  /\ UNCHANGED <<bus, next, up, row, clients, stream, fetch, view, score,
                 excused, drops>>

Updates(c) == \E i \in DOMAIN stream[c] : stream[c][i] = "update"

\* Results the notifier has read.
Notified == {bus[i] : i \in 1 .. next[Sse] - 1}

\* The connection breaks, with what was still in its stream.
Drop(p) ==
  /\ conn[p] # Nothing
  /\ drops < MaxDrops
  /\ drops' = drops + 1
  /\ open' = open \ {conn[p]}
  /\ stream' = [stream EXCEPT ![conn[p]] = <<>>]
  /\ conn' = [conn EXCEPT ![p] = Nothing]
  /\ excused' = [excused EXCEPT ![p] =
       IF Updates(conn[p]) THEN @ \cup (Notified \cap Submissions) ELSE @]
  /\ UNCHANGED <<bus, next, up, row, clients, fetch, view, score>>

\* get_submissions answers with the rows as they are.  A result of which the
\* page has had its last event but that is not written yet is shown as waiting.
Serve(p) ==
  /\ up
  /\ fetch[p] \in {"asked", "again"}
  /\ view' = [view EXCEPT ![p] = row]
  /\ fetch' = [fetch EXCEPT ![p] = IF @ = "again" THEN "asked" ELSE "none"]
  /\ excused' = [excused EXCEPT ![p] =
                   @ \cup {s \in Notified \cap Submissions : row[s] = "WJ"}]
  /\ UNCHANGED <<bus, next, up, row, clients, open, stream, conn, score, drops>>

-----------------------------------------------------------------------------
Page(p) ==
  \/ \E c \in Connections : Connect(p, c)
  \/ Load(p) \/ Read(p) \/ StreamEnds(p) \/ Serve(p)

Next ==
  \/ \E s \in Submissions : InsertSubmission(s)
  \/ \E r \in Submissions \cup RunResults : SubmitJobResult(r)
  \/ UpdateDatabase \/ UpdateDatabaseLags \/ Notify \/ NotifierLags \/ Ping
  \/ \E p \in Pages : Page(p) \/ Drop(p)

Spec == Init /\ [][Next]_vars

\* The tasks of the server are polled, the pings come every three seconds, and
\* a page reads its stream, reconnects and waits for its requests.
Fairness ==
  /\ WF_vars(UpdateDatabase \/ UpdateDatabaseLags)
  /\ WF_vars(Notify \/ NotifierLags)
  /\ WF_vars(Ping)
  /\ \A p \in Pages :
       /\ WF_vars(Read(p) \/ StreamEnds(p))
       /\ WF_vars(\E c \in Connections : Connect(p, c))
       /\ WF_vars(Serve(p))

FairSpec == Spec /\ Fairness
-----------------------------------------------------------------------------
(* Properties.                                                             *)

Judged(rows, s) == rows[s] \in {"AC", "WA"}

\* Something is on its way that will make page p ask for its rows.
UpdateComes(p, s) ==
  \/ fetch[p] # "none"
  \/ conn[p] # Nothing /\ Updates(conn[p])
  \/ s \notin Notified

\* A page that still shows a judged submission as waiting will ask again, unless
\* the task of the Broadcaster is dead, the event of that result missed the page
\* (it was not connected, its channel was full, its connection broke), or the page
\* was served between the event and the write of the verdict.
StaleViewHasCause ==
  \A p \in Pages, s \in Submissions :
    Judged(row, s) /\ ~Judged(view[p], s) =>
      UpdateComes(p, s) \/ s \in excused[p] \/ ~Subscribed(Sse)

\* A page never shows a score its list does not bear out, however many verdicts
\* are written between the two statements that load it and whatever list it gets
\* later: the first accepted submission and those before it are on the list.
ScoreIsListed ==
  \A p \in Pages :
    Loaded(p) =>
      /\ FirstAc(view[p]) <= score[p].first
      /\ score[p].failed <= Cardinality(Before(view[p], score[p].first))

\* Verdicts arrive in any order, and a row counts as failed while it waits: still
\* the first accepted instant only moves back, and failures only disappear from
\* the score together with such a move.
ScoreOnlyImproves ==
  [][/\ FirstAc(row') <= FirstAc(row)
     /\ Failed(row') < Failed(row) => FirstAc(row') < FirstAc(row)]_vars

\* Clients that are gone do not pile up: a client whose connection broke is
\* dropped from the list within some pings.
GoneClientsLeave ==
  \A c \in Connections : c \in clients /\ c \notin open /\ up ~> c \notin clients \/ ~up

\* A page catches up with every verdict no listed cause kept from it.
PageCatchesUp ==
  \A p \in Pages, s \in Submissions :
    Judged(row, s) /\ Loaded(p) ~>
      Judged(view[p], s) \/ s \in excused[p] \/ ~Subscribed(Sse) \/ ~up

\* The README promises a frontend with SSE updates (README.md:17), and the page
\* lists its rows again on every update_submission event: a page that is connected
\* when a judgement reaches the bus shows the verdict in the end, unless its
\* connection or the server goes down.
PageShowsVerdict ==
  \A p \in Pages, s \in Submissions :
    /\ \E i \in DOMAIN bus : bus[i] = s
    /\ s \notin Notified
    /\ conn[p] \in clients
    ~> Judged(view[p], s) \/ conn[p] = Nothing \/ ~up
=============================================================================
