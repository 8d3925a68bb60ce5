-------------------------- MODULE ServerPoolProofs ---------------------------
(***************************************************************************)
(* Theorems about the pool of connections, for any number of connections,  *)
(* threads and requests.                                                   *)
(***************************************************************************)
EXTENDS ServerPool, FiniteSetTheorems, TLAPS

\* Two clients that block a thread do not share it.
OnePerThread ==
  \A c, d \in Clients :
    state[c] \in Blocking /\ state[d] \in Blocking /\ at[c] = at[d] => c = d

\* update_database stays on the main thread, and requests have threads of their own.
OnTheirThreads ==
  /\ at[Db] = Main
  /\ state[Db] \in {"new"} \cup Blocking
  /\ \A c \in Requests : state[c] \in Blocking \cup Away => at[c] \in Threads

Placed == TypeOK /\ OnePerThread /\ OnTheirThreads

(***************************************************************************)
(* The inductive invariant.                                                *)
(***************************************************************************)

\* A step that changes neither the threads nor who blocks one, except that some
\* clients stop, keeps every client on a thread of its own.
LEMMA StaysPlaced ==
  ASSUME Placed, TypeOK', at' = at,
         \A c \in Clients : state[c]' \in Blocking => state[c] \in Blocking,
         \A c \in Clients :
           state[c]' \in Blocking \cup Away => state[c] \in Blocking \cup Away,
         state[Db]' \in {"new"} \cup Blocking
  PROVE  OnePerThread' /\ OnTheirThreads'
<1>1. Requests \subseteq Clients BY DEF Clients
<1> QED BY <1>1 DEF Placed, OnePerThread, OnTheirThreads

\* Every step keeps the types.
LEMMA TypeStep ==
  ASSUME TypeOK, [Next]_vars
  PROVE  TypeOK'
<1> USE ServerPoolAssumption DEF TypeOK, Goto, Clients, Requests, Blocking, Away, Ended
<1>1. ASSUME NEW c \in Requests, NEW t \in Threads, Arrive(c, t) PROVE TypeOK'
  BY <1>1 DEF Arrive
<1>2. CASE Judgement BY <1>2 DEF Judgement
<1>3. CASE ServerDies BY <1>3 DEF ServerDies
<1>4. CASE Restart BY <1>4 DEF Restart
<1>5. CASE Judged BY <1>5 DEF Judged
<1>6. ASSUME NEW c \in Clients, Get(c) PROVE TypeOK'
  BY <1>6 DEF Get
<1>7. ASSUME NEW c \in Clients, TimesOut(c) PROVE TypeOK'
  BY <1>7 DEF TimesOut
<1>8. ASSUME NEW c \in Clients, Release(c) PROVE TypeOK'
  BY <1>8 DEF Release
<1>9. ASSUME NEW c \in Clients, Verified(c) PROVE TypeOK'
  BY <1>9 DEF Verified
<1>10. ASSUME NEW i \in Imports, Send(i) PROVE TypeOK'
  BY <1>10 DEF Send
<1>11. ASSUME NEW i \in Imports, Answer(i) PROVE TypeOK'
  BY <1>11 DEF Answer
<1>12. ASSUME NEW i \in Imports, Lose(i) PROVE TypeOK'
  BY <1>12 DEF Lose
<1>13. ASSUME NEW i \in Imports, Resume(i) PROVE TypeOK'
  BY <1>13 DEF Resume
<1>14. ASSUME NEW i \in Imports, ImportFails(i) PROVE TypeOK'
  BY <1>14 DEF ImportFails
<1>15. CASE UNCHANGED vars BY <1>15 DEF vars
<1> QED BY <1>1, <1>2, <1>3, <1>4, <1>5, <1>6, <1>7, <1>8, <1>9, <1>10, <1>11,
           <1>12, <1>13, <1>14, <1>15 DEF Next, Import

\* Every step keeps each client on a thread of its own: a thread takes on a
\* client, or goes on with an import, only if nobody blocks it.
LEMMA PlacedStep ==
  ASSUME Placed, [Next]_vars
  PROVE  Placed'
<1> SUFFICES OnePerThread' /\ OnTheirThreads'
  BY TypeStep DEF Placed
<1>t. TypeOK /\ TypeOK' BY TypeStep DEF Placed
<1>c. Requests \subseteq Clients /\ Db \in Clients /\ Imports \subseteq Requests
      /\ Db \notin Requests
  BY ServerPoolAssumption DEF Clients, Requests
<1>1. ASSUME NEW c \in Requests, NEW t \in Threads, Arrive(c, t)
      PROVE  OnePerThread' /\ OnTheirThreads'
  <2>1. /\ at' = [at EXCEPT ![c] = t]
        /\ state' = [state EXCEPT ![c] = "getting"]
        /\ \A d \in Clients : ~(at[d] = t /\ state[d] \in Blocking)
    BY <1>1 DEF Arrive, Goto, Blocked
  <2> QED BY <1>t, <1>c, <2>1 DEF TypeOK, Placed, OnePerThread, OnTheirThreads, Blocking
<1>2. CASE Judgement
  <2>1. state' = [state EXCEPT ![Db] = "getting"] /\ at' = at
    BY <1>2 DEF Judgement, Goto
  <2>2. Main \notin Threads BY ServerPoolAssumption
  <2>3. \A c \in Clients : c # Db => c \in Requests BY DEF Clients
  <2> QED BY <1>t, <1>c, <2>1, <2>2, <2>3
          DEF TypeOK, Placed, OnePerThread, OnTheirThreads, Blocking
<1>3. CASE ServerDies
  BY <1>t, <1>c, <1>3, StaysPlaced DEF ServerDies, TypeOK, Blocking, Away, Ended
<1>4. CASE Restart
  BY <1>t, <1>c, <1>4, StaysPlaced DEF Restart, Placed, OnTheirThreads
<1>5. CASE Judged
  BY <1>t, <1>c, <1>5, StaysPlaced DEF Judged, Placed, OnTheirThreads
<1>6. ASSUME NEW c \in Clients, Get(c) PROVE OnePerThread' /\ OnTheirThreads'
  <2>1. c \in Logins => c # Db BY <1>c DEF Requests
  <2> QED BY <1>t, <1>c, <1>6, <2>1, StaysPlaced
          DEF Get, Goto, TypeOK, Placed, OnTheirThreads, Blocking, Away
<1>7. ASSUME NEW c \in Clients, TimesOut(c) PROVE OnePerThread' /\ OnTheirThreads'
  BY <1>t, <1>c, <1>7, StaysPlaced
     DEF TimesOut, Goto, TypeOK, Placed, OnTheirThreads, Blocking, Away
<1>8. ASSUME NEW c \in Clients, Release(c) PROVE OnePerThread' /\ OnTheirThreads'
  BY <1>t, <1>c, <1>8, StaysPlaced
     DEF Release, Goto, TypeOK, Placed, OnTheirThreads, Blocking, Away
<1>9. ASSUME NEW c \in Clients, Verified(c) PROVE OnePerThread' /\ OnTheirThreads'
  <2>1. c # Db BY <1>9 DEF Verified, Placed, OnTheirThreads, Blocking
  <2> QED BY <1>t, <1>c, <1>9, <2>1, StaysPlaced
          DEF Verified, Goto, TypeOK, Placed, OnTheirThreads, Blocking, Away
<1>10. ASSUME NEW i \in Imports, Send(i) \/ Answer(i) \/ Lose(i) \/ ImportFails(i)
       PROVE  OnePerThread' /\ OnTheirThreads'
  <2>1. i \in Clients /\ i # Db BY <1>c
  <2>2. at' = at /\ state[i] \in Blocking \cup Away
    BY <1>10 DEF Send, Answer, Lose, ImportFails, Blocking, Away
  <2>3. PICK s \in Away \cup {"failed"} : state' = [state EXCEPT ![i] = s]
    BY <1>10 DEF Send, Answer, Lose, ImportFails, Goto, Away
  <2> QED BY <1>t, <1>c, <2>1, <2>2, <2>3, StaysPlaced
          DEF TypeOK, Placed, OnTheirThreads, Blocking, Away
<1>11. ASSUME NEW i \in Imports, Resume(i) PROVE OnePerThread' /\ OnTheirThreads'
  <2>1. /\ state' = [state EXCEPT ![i] = "holding"] /\ at' = at
        /\ \A d \in Clients : ~(at[d] = at[i] /\ state[d] \in Blocking)
        /\ state[i] \in Away
    BY <1>11 DEF Resume, Goto, Blocked, Away
  <2>2. i \in Clients /\ i # Db /\ i \in Requests BY <1>c
  <2>3. at[i] \in Threads BY <2>1, <2>2 DEF Placed, OnTheirThreads
  <2> QED BY <1>t, <1>c, <2>1, <2>2, <2>3
          DEF TypeOK, Placed, OnePerThread, OnTheirThreads, Blocking, Away
<1>12. CASE UNCHANGED vars
  BY <1>t, <1>c, <1>12, StaysPlaced DEF vars, Placed, OnTheirThreads
<1> QED BY <1>1, <1>2, <1>3, <1>4, <1>5, <1>6, <1>7, <1>8, <1>9, <1>10, <1>11,
           <1>12 DEF Next, Import

\* The pool of a server that starts satisfies the invariant.
LEMMA PlacedInit == Init => Placed
<1> SUFFICES ASSUME Init PROVE Placed OBVIOUS
<1>1. TypeOK
  BY ServerPoolAssumption DEF Init, TypeOK
<1>2. OnePerThread /\ OnTheirThreads
  BY DEF Init, OnePerThread, OnTheirThreads, Blocking, Away, Clients
<1> QED BY <1>1, <1>2 DEF Placed

\* Every reachable state satisfies it.
THEOREM PlacedAlways == Spec => []Placed
<1>1. Init => Placed BY PlacedInit
<1>2. Placed /\ [Next]_vars => Placed' BY PlacedStep
<1> QED BY <1>1, <1>2, PTL DEF Spec

\* The types of all variables are kept, with any number of clients and threads.
THEOREM TypeCorrect == Spec => []TypeOK
<1>1. Placed => TypeOK BY DEF Placed
<1> QED BY <1>1, PlacedAlways, PTL

(***************************************************************************)
(* Who holds the connections.                                              *)
(***************************************************************************)

Waiters == {c \in Requests : state[c] \in Away}

Running == {c \in Requests : state[c] = "holding"}

\* The requests that hold a connection and run are at most as many as threads,
\* since each has a thread of its own.
LEMMA RunningAreFew ==
  ASSUME Placed
  PROVE  IsFiniteSet(Running) /\ Cardinality(Running) <= Cardinality(Threads)
<1> DEFINE thread == [c \in Running |-> at[c]]
<1>1. \A c \in Running : c \in Clients /\ state[c] \in Blocking /\ at[c] \in Threads
  BY DEF Running, Clients, Placed, OnTheirThreads, Blocking
<1>2. thread \in [Running -> Threads] BY <1>1
<1>3. \A c, d \in Running : thread[c] = thread[d] => c = d
  BY <1>1 DEF Placed, OnePerThread
<1>4. thread \in Injection(Running, Threads)
  BY <1>2, <1>3 DEF Injection, IsInjective
<1>5. IsFiniteSet(Threads) BY ServerPoolAssumption
<1> HIDE DEF thread
<1> QED BY <1>4, <1>5, FS_Injection

\* While update_database waits, every connection is with a request that runs or
\* with one that waits.
LEMMA HoldersSplit ==
  ASSUME Placed, state[Db] = "getting"
  PROVE  Holders = Running \cup Waiters
BY DEF Holders, Running, Waiters, Clients, Away

\* So all others are with requests that wait, if it waits in vain.
LEMMA StarvedByThem ==
  ASSUME Placed
  PROVE  StarvedByWaiters
<1> SUFFICES ASSUME state[Db] = "getting", ~HasFree
             PROVE  Cardinality(Waiters) + Cardinality(Threads) >= PoolSize
  BY DEF StarvedByWaiters, Waiters
<1>1. Holders = Running \cup Waiters BY HoldersSplit
<1>2. IsFiniteSet(Running) /\ Cardinality(Running) <= Cardinality(Threads)
  BY RunningAreFew
<1>3. IsFiniteSet(Waiters)
  BY ServerPoolAssumption, FS_Subset DEF Waiters
<1>4. Cardinality(Holders)
        = Cardinality(Running) + Cardinality(Waiters) - Cardinality(Running \cap Waiters)
  BY <1>1, <1>2, <1>3, FS_Union
<1>5. IsFiniteSet(Running \cap Waiters)
  BY <1>2, FS_Subset
<1>6. /\ Cardinality(Running) \in Nat /\ Cardinality(Waiters) \in Nat
      /\ Cardinality(Running \cap Waiters) \in Nat
      /\ Cardinality(Threads) \in Nat
  BY <1>2, <1>3, <1>5, ServerPoolAssumption, FS_CardinalityType
<1>7. PoolSize \in Nat /\ ~(Cardinality(Holders) < PoolSize)
  BY ServerPoolAssumption DEF HasFree
<1> QED BY <1>2, <1>4, <1>6, <1>7

\* The property of the run Server_pool, for pools and loads of any size: when
\* update_database waits in vain, the connections are with imports and logins.
THEOREM Starved == Spec => []StarvedByWaiters
<1>1. Placed => StarvedByWaiters BY StarvedByThem
<1> QED BY <1>1, PlacedAlways, PTL

\* Connections are never scarce enough to end the server while there are more of
\* them than threads, logins and imports together: what the 50 of main are for.
EnoughConnections ==
  Cardinality(Logins \cup Imports) + Cardinality(Threads) < PoolSize => up

\* Only logins and imports hold a connection without a thread.
OnlyTheseWait == \A c \in Shorts : state[c] \notin Away

\* That is kept by every step.
LEMMA ShortsDoNotWait ==
  ASSUME TypeOK, OnlyTheseWait, [Next]_vars
  PROVE  OnlyTheseWait'
<1> SUFFICES ASSUME NEW c \in Shorts PROVE state[c]' \notin Away
  BY DEF OnlyTheseWait
<1>1. c \in Clients /\ c \notin Logins /\ c \notin Imports
  BY ServerPoolAssumption DEF Clients, Requests
<1>2. state \in [Clients -> {"new"} \cup Blocking \cup Away \cup Ended] /\ state[c] \notin Away
  BY DEF TypeOK, OnlyTheseWait
<1>3. ASSUME NEW i \in Imports, Import(i) PROVE state[c]' \notin Away
  BY <1>1, <1>2, <1>3 DEF Import, Send, Answer, Lose, Resume, ImportFails, Goto
<1>4. ASSUME NEW d \in Clients, Get(d) \/ TimesOut(d) \/ Release(d) \/ Verified(d)
      PROVE  state[c]' \notin Away
  BY <1>1, <1>2, <1>4 DEF Get, TimesOut, Release, Verified, Goto, Away
<1>5. ASSUME NEW d \in Requests, NEW t \in Threads, Arrive(d, t)
      PROVE  state[c]' \notin Away
  BY <1>1, <1>2, <1>5 DEF Arrive, Goto, Away
<1>6. CASE Judgement \/ ServerDies
  BY <1>1, <1>2, <1>6 DEF Judgement, ServerDies, Goto, Away
<1>7. CASE Restart \/ Judged \/ UNCHANGED vars
  BY <1>2, <1>7 DEF Restart, Judged, vars
<1> QED BY <1>3, <1>4, <1>5, <1>6, <1>7 DEF Next

\* The server stays up with a pool larger than that.
THEOREM PoolIsEnough == Spec => []EnoughConnections
<1> DEFINE Inv == Placed /\ OnlyTheseWait /\ EnoughConnections
<1>1. Init => Inv
  BY PlacedInit DEF Init, OnlyTheseWait, EnoughConnections, Clients, Requests, Away
<1>2. ASSUME Inv, [Next]_vars PROVE Inv'
  <2>1. Placed' BY <1>2, PlacedStep
  <2>t. TypeOK /\ OnTheirThreads BY <1>2 DEF Placed
  <2>2. OnlyTheseWait' BY <1>2, ShortsDoNotWait DEF Placed
  <2>3. ASSUME ServerDies PROVE EnoughConnections'
    <3> SUFFICES ASSUME Cardinality(Logins \cup Imports) + Cardinality(Threads) < PoolSize
                 PROVE  FALSE
      BY DEF EnoughConnections
    <3>1. Cardinality(Waiters) + Cardinality(Threads) >= PoolSize
      BY <1>2, <2>3, StarvedByThem DEF ServerDies, StarvedByWaiters, Waiters
    <3>2. Waiters \in SUBSET (Logins \cup Imports)
      BY <1>2 DEF OnlyTheseWait, Waiters, Requests
    <3>3. IsFiniteSet(Logins \cup Imports)
      BY ServerPoolAssumption, FS_Subset DEF Requests
    <3>4. Cardinality(Waiters) <= Cardinality(Logins \cup Imports)
      BY <3>2, <3>3, FS_Subset
    <3>5. IsFiniteSet(Waiters) BY <3>2, <3>3, FS_Subset
    <3>6. /\ Cardinality(Waiters) \in Nat /\ Cardinality(Logins \cup Imports) \in Nat
          /\ Cardinality(Threads) \in Nat /\ PoolSize \in Nat
      BY <3>3, <3>5, ServerPoolAssumption, FS_CardinalityType
    <3> QED BY <3>1, <3>4, <3>6
  <2>4. ASSUME ~ServerDies PROVE EnoughConnections'
    <3>1. up => up'
      BY <1>2, <2>4 DEF Next, Import, vars, Arrive, Judgement, Restart, Judged, Get,
         TimesOut, Release, Verified, Send, Answer, Lose, Resume, ImportFails
    <3> QED BY <1>2, <3>1 DEF EnoughConnections
  <2>5. EnoughConnections' BY <2>3, <2>4
  <2> QED BY <2>1, <2>2, <2>5
<1> QED BY <1>1, <1>2, PTL DEF Spec

(***************************************************************************)
(* Why a request ends: how often it can still change its state.            *)
(***************************************************************************)

CallsLeft(c) == IF c \in Imports THEN left[c] ELSE 0

MovesLeft(c) ==
  CASE state[c] = "new"      -> 3 * CallsLeft(c) + 5
    [] state[c] = "getting"  -> 3 * CallsLeft(c) + 4
    [] state[c] = "waiting"  -> 3 * CallsLeft(c) + 4
    [] state[c] = "answered" -> 3 * CallsLeft(c) + 3
    [] state[c] = "holding"  -> 3 * CallsLeft(c) + 2
    [] state[c] \in {"away", "stuck"} -> 1
    [] OTHER                 -> 0

MovesLeftAreNat == \A c \in Requests : MovesLeft(c) \in Nat

\* Whenever the state of a request changes it has fewer changes left, and no step
\* of others, not even the death of the server, gives it more.
RequestsDescend ==
  [][\A c \in Requests :
       /\ state'[c] # state[c] => MovesLeft(c)' < MovesLeft(c)
       /\ state'[c] = state[c] => MovesLeft(c)' = MovesLeft(c)]_vars

\* An import has a number of calls left.
LEMMA CallsAreLeft ==
  ASSUME TypeOK, NEW c \in Requests
  PROVE  CallsLeft(c) \in Nat /\ MovesLeft(c) \in Nat
<1>1. CallsLeft(c) \in Nat BY ServerPoolAssumption DEF TypeOK, CallsLeft
<1> QED BY <1>1 DEF MovesLeft

\* Where one step can take a request, and what it does to the calls.
LEMMA RequestMoves ==
  ASSUME TypeOK, [Next]_vars, NEW c \in Requests
  PROVE  \/ state'[c] = state[c] /\ CallsLeft(c)' = CallsLeft(c)
         \/ state[c] = "new" /\ state'[c] = "getting" /\ CallsLeft(c)' = CallsLeft(c)
         \/ /\ state[c] = "getting" /\ state'[c] \in {"holding", "away"}
            /\ CallsLeft(c)' = CallsLeft(c)
         \/ /\ state[c] = "holding" /\ state'[c] = "waiting"
            /\ CallsLeft(c)' + 1 = CallsLeft(c)
         \/ state[c] = "waiting" /\ state'[c] = "answered" /\ CallsLeft(c)' = CallsLeft(c)
         \/ state[c] = "waiting" /\ state'[c] = "stuck"
         \/ state[c] = "answered" /\ state'[c] = "holding" /\ CallsLeft(c)' = CallsLeft(c)
         \/ state[c] \in Blocking \cup Away /\ state'[c] \in Ended
<1>c. c \in Clients /\ c # Db BY ServerPoolAssumption DEF Clients
<1>t. /\ state \in [Clients -> {"new"} \cup Blocking \cup Away \cup Ended]
      /\ left \in [Imports -> 0 .. Calls] /\ Calls \in Nat
  BY ServerPoolAssumption DEF TypeOK
<1>1. ASSUME left' = left PROVE CallsLeft(c)' = CallsLeft(c)
  BY <1>1 DEF CallsLeft
<1>2. ASSUME NEW d \in Requests, NEW t \in Threads, Arrive(d, t)
      PROVE  \/ state'[c] = state[c] /\ left' = left
             \/ state[c] = "new" /\ state'[c] = "getting" /\ left' = left
  BY <1>2, <1>c, <1>t DEF Arrive, Goto
<1>3. CASE Judgement \/ Restart \/ Judged \/ UNCHANGED vars
  BY <1>1, <1>3, <1>c, <1>t DEF Judgement, Restart, Judged, vars, Goto
<1>4. CASE ServerDies
  BY <1>1, <1>4, <1>c, <1>t DEF ServerDies, Ended
<1>5. ASSUME NEW d \in Clients, Get(d)
      PROVE  \/ state'[c] = state[c] /\ left' = left
             \/ state[c] = "getting" /\ state'[c] \in {"holding", "away"} /\ left' = left
  BY <1>5, <1>c, <1>t DEF Get, Goto
<1>6. ASSUME NEW d \in Clients, TimesOut(d) \/ Release(d) \/ Verified(d)
      PROVE  \/ state'[c] = state[c] /\ left' = left
             \/ state[c] \in Blocking \cup Away /\ state'[c] \in Ended
  BY <1>6, <1>c, <1>t DEF TimesOut, Release, Verified, Goto, Blocking, Away, Ended
<1>7. ASSUME NEW i \in Imports, Send(i)
      PROVE  \/ state'[c] = state[c] /\ CallsLeft(c)' = CallsLeft(c)
             \/ /\ state[c] = "holding" /\ state'[c] = "waiting"
                /\ CallsLeft(c)' + 1 = CallsLeft(c)
  <2>1. CASE c = i
    BY <1>7, <1>c, <1>t, <2>1 DEF Send, Goto, CallsLeft
  <2>2. CASE c # i
    BY <1>7, <1>c, <1>t, <2>2 DEF Send, Goto, CallsLeft
  <2> QED BY <2>1, <2>2
<1>8. ASSUME NEW i \in Imports, Answer(i) \/ Lose(i) \/ Resume(i)
      PROVE  \/ state'[c] = state[c] /\ left' = left
             \/ state[c] = "waiting" /\ state'[c] \in {"answered", "stuck"} /\ left' = left
             \/ state[c] = "answered" /\ state'[c] = "holding" /\ left' = left
  BY <1>8, <1>c, <1>t DEF Answer, Lose, Resume, Goto
<1>9. ASSUME NEW i \in Imports, ImportFails(i)
      PROVE  \/ state'[c] = state[c] /\ left' = left
             \/ state[c] \in Blocking \cup Away /\ state'[c] \in Ended
  BY <1>9, <1>c, <1>t DEF ImportFails, Goto, Blocking, Ended
<1>10. ASSUME NEW i \in Imports, Import(i)
       PROVE  Send(i) \/ (Answer(i) \/ Lose(i) \/ Resume(i)) \/ ImportFails(i)
  BY <1>10 DEF Import
<1>11. ASSUME Next
       PROVE  \/ \E d \in Requests, t \in Threads : Arrive(d, t)
              \/ Judgement \/ Restart \/ Judged
              \/ ServerDies
              \/ \E d \in Clients : Get(d)
              \/ \E d \in Clients : TimesOut(d) \/ Release(d) \/ Verified(d)
              \/ \E i \in Imports : Import(i)
  BY <1>11 DEF Next
<1> QED BY <1>1, <1>2, <1>3, <1>4, <1>5, <1>6, <1>7, <1>8, <1>9, <1>10, <1>11

\* Behind the property EveryRequestEnds of the run Server_pool, for loads of any
\* size: a request changes its state at most 3 * Calls + 5 times and has ended when it
\* has no change left.
THEOREM RequestsGetOn == Spec => []MovesLeftAreNat /\ RequestsDescend
<1>1. TypeOK => MovesLeftAreNat
  BY CallsAreLeft DEF MovesLeftAreNat
<1>2. TypeOK /\ [Next]_vars =>
        [\A c \in Requests :
           /\ state'[c] # state[c] => MovesLeft(c)' < MovesLeft(c)
           /\ state'[c] = state[c] => MovesLeft(c)' = MovesLeft(c)]_vars
  <2> SUFFICES ASSUME TypeOK, [Next]_vars, NEW c \in Requests
               PROVE  /\ state'[c] # state[c] => MovesLeft(c)' < MovesLeft(c)
                      /\ state'[c] = state[c] => MovesLeft(c)' = MovesLeft(c)
    OBVIOUS
  <2>1. /\ CallsLeft(c) \in Nat
        /\ CallsLeft(c)' \in Nat
    <3>1. TypeOK' BY TypeStep
    <3>2. left' \in [Imports -> 0 .. Calls] BY <3>1 DEF TypeOK
    <3> QED BY <3>2, CallsAreLeft, ServerPoolAssumption DEF CallsLeft
  <2>2. ASSUME state'[c] = state[c], CallsLeft(c)' = CallsLeft(c)
        PROVE  MovesLeft(c)' = MovesLeft(c)
    BY <2>2 DEF MovesLeft
  <2> QED BY <2>1, <2>2, RequestMoves DEF MovesLeft, Blocking, Away, Ended
<1> QED BY <1>1, <1>2, TypeCorrect, PTL DEF Spec, RequestsDescend
=============================================================================
