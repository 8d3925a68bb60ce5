--------------------------- MODULE LiveViewProofs ----------------------------
(***************************************************************************)
(* Theorems about pages and scores, for any number of submissions, pages,  *)
(* connections and breaks, and any capacity of the bus and of a client's   *)
(* channel.                                                                *)
(***************************************************************************)
EXTENDS LiveView, FiniteSetTheorems, WellFoundedInduction, TLAPS

(***************************************************************************)
(* Scores.  Rows only move forward: from missing to waiting to a verdict   *)
(* that stays.                                                             *)
(***************************************************************************)

Older(rows, later) ==
  \A s \in Submissions :
    \/ rows[s] = "none"
    \/ (rows[s] = "WJ" /\ later[s] # "none")
    \/ rows[s] = later[s]

\* A set of naturals that is not empty has a least element.
LEMMA LeastExists ==
  ASSUME NEW T \in SUBSET Nat, T # {}
  PROVE  \E t \in T : \A u \in T : t <= u
  <1> DEFINE Up == {0 .. t : t \in T}
  <1>1. Up \subseteq FiniteSubsetsOf(Nat) /\ Up # {}
    <2>1. ASSUME NEW t \in T
          PROVE  0 .. t \in FiniteSubsetsOf(Nat)
      <3>1. IsFiniteSet(0 .. t)
        BY FS_Interval
      <3>2. 0 .. t \in SUBSET Nat
        OBVIOUS
      <3> QED
        BY <3>1, <3>2, Zenon DEF FiniteSubsetsOf
    <2>2. Up # {}
      OBVIOUS
    <2> QED
      BY <2>1, <2>2
  <1>2. IsWellFoundedOn(StrictSubsetOrdering(Nat), FiniteSubsetsOf(Nat))
    BY FS_StrictSubsetOrderingWellFounded
  <1>3. PICK m \in Up : \A k \in Up : ~(<<k, m>> \in StrictSubsetOrdering(Nat))
    <2> HIDE DEF Up
    <2> QED BY <1>1, <1>2, WFMin
  <1>4. PICK t \in T : m = 0 .. t
    BY <1>3
  <1>5. ASSUME NEW u \in T, ~(t <= u) PROVE FALSE
    <2>1. 0 .. u \subseteq 0 .. t /\ 0 .. u # 0 .. t
      <3>1. t \in 0 .. t /\ t \notin 0 .. u
        BY <1>5
      <3>2. \A n \in 0 .. u : n \in 0 .. t
        BY <1>5
      <3> QED
        BY <3>1, <3>2
    <2>2. <<0 .. u, 0 .. t>> \in StrictSubsetOrdering(Nat)
      BY <2>1 DEF StrictSubsetOrdering
    <2> QED
      BY <2>2, <1>3, <1>4
  <1> QED
    BY <1>5

LEMMA InstantsAreNat ==
  ASSUME NEW rows
  PROVE  AcInstants(rows) \in SUBSET Nat /\ \A t \in AcInstants(rows) : t < Never
  BY ScoreboardAssumption DEF ScoreboardAssumption, AcInstants

\* The first accepted instant is the least one, or Never.
LEMMA FirstAcIsLeast ==
  ASSUME NEW rows
  PROVE  /\ FirstAc(rows) \in 0 .. Never
         /\ \A t \in AcInstants(rows) : FirstAc(rows) <= t
         /\ AcInstants(rows) = {} => FirstAc(rows) = Never
         /\ AcInstants(rows) # {} => FirstAc(rows) \in AcInstants(rows)
  <1>1. CASE AcInstants(rows) = {}
    BY <1>1, ScoreboardAssumption DEF FirstAc, ScoreboardAssumption
  <1>2. CASE AcInstants(rows) # {}
    <2> DEFINE A == AcInstants(rows)
    <2>1. \E t \in A : \A u \in A : t <= u
      BY <1>2, InstantsAreNat, LeastExists
    <2>2. FirstAc(rows) = CHOOSE t \in A : \A u \in A : t <= u
      BY <1>2 DEF FirstAc
    <2>3. FirstAc(rows) \in A /\ \A u \in A : FirstAc(rows) <= u
      <3> HIDE DEF A
      <3> QED BY <2>1, <2>2
    <2> QED
      BY <1>2, <2>3, InstantsAreNat, ScoreboardAssumption DEF ScoreboardAssumption
  <1> QED
    BY <1>1, <1>2

LEMMA BeforeIsFinite ==
  ASSUME NEW rows, NEW t
  PROVE  IsFiniteSet(Before(rows, t)) /\ Cardinality(Before(rows, t)) \in Nat
  <1>1. Before(rows, t) \in SUBSET Submissions
    BY DEF Before, Listed
  <1>2. IsFiniteSet(Before(rows, t))
    BY <1>1, FS_Subset, ScoreboardAssumption DEF ScoreboardAssumption
  <1> QED
    BY <1>2, FS_CardinalityType

LEMMA ScoreType ==
  ASSUME NEW rows
  PROVE  Score(rows) \in [first : 0 .. Never, failed : Nat]
  BY FirstAcIsLeast, BeforeIsFinite DEF Score, Failed

\* Later rows have the accepted ones and the listed ones of earlier rows.
LEMMA LaterRows ==
  ASSUME NEW rows, NEW later, Older(rows, later)
  PROVE  /\ FirstAc(later) <= FirstAc(rows)
         /\ \A t : Cardinality(Before(rows, t)) <= Cardinality(Before(later, t))
  <1>1. AcInstants(rows) \subseteq AcInstants(later)
    BY DEF Older, AcInstants
  <1>2. FirstAc(later) <= FirstAc(rows)
    <2>1. CASE AcInstants(rows) = {}
      BY <2>1, FirstAcIsLeast
    <2>2. CASE AcInstants(rows) # {}
      BY <2>2, <1>1, FirstAcIsLeast
    <2> QED
      BY <2>1, <2>2
  <1>3. Listed(rows) \subseteq Listed(later)
    BY DEF Older, Listed
  <1>4. ASSUME NEW t
        PROVE  Cardinality(Before(rows, t)) <= Cardinality(Before(later, t))
    <2>1. Before(rows, t) \in SUBSET Before(later, t)
      BY <1>3 DEF Before
    <2> QED
      BY <2>1, BeforeIsFinite, FS_Subset
  <1> QED
    BY <1>2, <1>4

\* A score a list bears out.
Fits(sc, rows) ==
  /\ FirstAc(rows) <= sc.first
  /\ sc.failed <= Cardinality(Before(rows, sc.first))

LEMMA OwnScoreFits ==
  ASSUME NEW rows
  PROVE  Fits(Score(rows), rows)
  BY FirstAcIsLeast, BeforeIsFinite DEF Fits, Score, Failed

LEMMA FitsLater ==
  ASSUME NEW sc \in [first : 0 .. Never, failed : Nat], NEW rows, NEW later,
         Fits(sc, rows), Older(rows, later)
  PROVE  Fits(sc, later)
  <1>1. FirstAc(later) <= FirstAc(rows) /\ FirstAc(later) \in 0 .. Never
        /\ FirstAc(rows) \in 0 .. Never
    BY LaterRows, FirstAcIsLeast
  <1>2. /\ Cardinality(Before(rows, sc.first)) <= Cardinality(Before(later, sc.first))
        /\ Cardinality(Before(rows, sc.first)) \in Nat
        /\ Cardinality(Before(later, sc.first)) \in Nat
    BY LaterRows, BeforeIsFinite
  <1>3. sc.first \in 0 .. Never /\ sc.failed \in Nat /\ Never \in Nat
    BY ScoreboardAssumption DEF ScoreboardAssumption
  <1> QED
    BY <1>1, <1>2, <1>3 DEF Fits

LEMMA OlderItself ==
  ASSUME NEW rows
  PROVE  Older(rows, rows)
  BY DEF Older

LEMMA OlderChain ==
  ASSUME NEW rows, NEW later, NEW last, Older(rows, later), Older(later, last)
  PROVE  Older(rows, last)
  BY DEF Older

-----------------------------------------------------------------------------
(***************************************************************************)
(* The inductive invariant, part by part.                                  *)
(***************************************************************************)

\* A row holds the verdict of its submission once it holds one, and is there
\* before any result of it.
RowsAreOwn ==
  /\ \A s \in Submissions : row[s] \in {"none", "WJ", Outcome[s]}
  /\ \A i \in DOMAIN bus : bus[i] \in Submissions => row[bus[i]] # "none"

\* The Broadcaster has read nothing that is not on the bus.
SseBehind == next[Sse] <= Len(bus) + 1

\* A page that listens is loaded, and no other page reads its stream.
ConnectionsApart ==
  \A p \in Pages : conn[p] # Nothing =>
    Loaded(p) /\ \A q \in Pages : conn[q] = conn[p] => p = q

\* A score fits the rows from the moment it is read, and the list that is shown
\* beside it.
ScoresFit ==
  \A p \in Pages :
    /\ fetch[p] # "closed" => Fits(score[p], row)
    /\ Loaded(p) => Fits(score[p], view[p])

\* A result the Broadcaster has read is shown, comes, or is excused; whether its
\* verdict is in the database does not matter.
Heard(p, s) ==
  \/ Judged(view[p], s)
  \/ fetch[p] # "none"
  \/ conn[p] # Nothing /\ Updates(conn[p])
  \/ s \in excused[p]
  \/ ~Subscribed(Sse)

AllHeard == \A p \in Pages, s \in Submissions : s \in Notified => Heard(p, s)

LInv ==
  /\ TypeOK
  /\ RowsAreOwn
  /\ SseBehind
  /\ ConnectionsApart
  /\ ScoresFit
  /\ AllHeard

-----------------------------------------------------------------------------
(***************************************************************************)
(* What the steps have in common.                                          *)
(***************************************************************************)

\* Steps that leave the pages' own state alone but for what is in the streams.
PagesWait == UNCHANGED <<conn, fetch, view, score>>

LEMMA NotifiedResult ==
  ASSUME TypeOK, SseBehind, NEW s \in Notified
  PROVE  \E i \in DOMAIN bus : i < next[Sse] /\ bus[i] = s
  BY DEF TypeOK, SseBehind, Notified

\* A result that was read belongs to a row.
LEMMA NotifiedHasRow ==
  ASSUME TypeOK, SseBehind, RowsAreOwn, NEW s \in Submissions, s \in Notified
  PROVE  row[s] # "none"
  BY NotifiedResult DEF RowsAreOwn

\* New results are not read yet.
LEMMA NotifiedStays ==
  ASSUME TypeOK, SseBehind, NEW r, bus' = Append(bus, r), next' = next
  PROVE  Notified' = Notified
  <1>1. ASSUME NEW i \in 1 .. next[Sse] - 1
        PROVE  bus'[i] = bus[i]
    BY <1>1 DEF TypeOK, SseBehind
  <1> QED
    BY <1>1 DEF Notified

\* A channel that gets a message keeps the events it has.
LEMMA SentKeeps ==
  ASSUME TypeOK, NEW C \in SUBSET Connections, NEW msg, stream' = Sent(C, msg),
         NEW c \in Connections, Updates(c)
  PROVE  Updates(c)'
  <1>1. stream'[c] = stream[c] \/ stream'[c] = Append(stream[c], msg)
    BY DEF Sent
  <1>2. PICK i \in DOMAIN stream[c] : stream[c][i] = "update"
    BY DEF Updates
  <1>3. i \in DOMAIN stream'[c] /\ stream'[c][i] = "update"
    <2>1. stream[c] \in Seq({"connected", "ping", "update"})
      BY DEF TypeOK
    <2> QED
      BY <1>1, <1>2, <2>1
  <1> QED
    BY <1>3 DEF Updates

LEMMA TailShifts ==
  ASSUME NEW S, NEW q \in Seq(S), NEW i \in 2 .. Len(q)
  PROVE  i - 1 \in DOMAIN Tail(q) /\ Tail(q)[i - 1] = q[i]
  OBVIOUS

\* The channels after a message to some clients that accept it.
LEMMA SentType ==
  ASSUME TypeOK, NEW C \in SUBSET Reached, NEW msg \in {"connected", "ping", "update"}
  PROVE  /\ Sent(C, msg) \in [Connections -> Seq({"connected", "ping", "update"})]
         /\ \A c \in Connections : Len(Sent(C, msg)[c]) <= ClientCap
  <1> DEFINE Messages == {"connected", "ping", "update"}
  <1>1. ASSUME NEW c \in Connections
        PROVE  Sent(C, msg)[c] \in Seq(Messages) /\ Len(Sent(C, msg)[c]) <= ClientCap
    <2>1. stream[c] \in Seq(Messages) /\ Len(stream[c]) <= ClientCap
      BY DEF TypeOK
    <2>2. c \in C => Len(stream[c]) < ClientCap
      BY DEF Reached, Accepts
    <2>3. Sent(C, msg)[c] = IF c \in C THEN Append(stream[c], msg) ELSE stream[c]
      BY DEF Sent
    <2>4. ClientCap \in Nat
      BY LiveViewAssumption DEF LiveViewAssumption
    <2> QED
      BY <2>1, <2>2, <2>3, <2>4
  <1> QED
    BY <1>1 DEF Sent

\* Scores fit whatever later rows there are, while the pages wait.
LEMMA ScoresStay ==
  ASSUME TypeOK, ScoresFit, Older(row, row'), PagesWait
  PROVE  ScoresFit'
  <1> SUFFICES ASSUME NEW p \in Pages
               PROVE  /\ fetch'[p] # "closed" => Fits(score'[p], row')
                      /\ Loaded(p)' => Fits(score'[p], view'[p])
    BY DEF ScoresFit
  <1>1. fetch'[p] = fetch[p] /\ score'[p] = score[p] /\ view'[p] = view[p]
    BY DEF PagesWait
  <1>2. score[p] \in [first : 0 .. Never, failed : Nat]
    BY DEF TypeOK
  <1>3. fetch[p] # "closed" => Fits(score[p], row')
    BY <1>2, FitsLater DEF ScoresFit
  <1>4. Loaded(p)' => Loaded(p)
    BY <1>1 DEF Loaded
  <1> QED
    BY <1>1, <1>3, <1>4 DEF ScoresFit

\* What is heard stays heard while pages wait and nothing leaves a stream.
LEMMA HeardStays ==
  ASSUME TypeOK, AllHeard, PagesWait, Notified' \subseteq Notified,
         \A p \in Pages : excused[p] \subseteq excused'[p],
         Subscribed(Sse)' => Subscribed(Sse),
         \A c \in Connections : Updates(c) => Updates(c)'
  PROVE  AllHeard'
  <1> SUFFICES ASSUME NEW p \in Pages, NEW s \in Submissions, s \in Notified'
               PROVE  Heard(p, s)'
    BY DEF AllHeard
  <1>1. Heard(p, s)
    BY DEF AllHeard
  <1>2. conn'[p] = conn[p] /\ fetch'[p] = fetch[p] /\ view'[p] = view[p]
    BY DEF PagesWait
  <1>3. conn[p] # Nothing => conn[p] \in Connections
    BY DEF TypeOK
  <1> QED
    BY <1>1, <1>2, <1>3 DEF Heard, Judged

LEMMA InitLInv == Init => LInv
  <1> SUFFICES ASSUME Init PROVE LInv
    OBVIOUS
  <1> USE DEF Init
  <1>1. TypeOK
    <2>1. score \in [Pages -> [first : 0 .. Never, failed : Nat]]
      BY ScoreType
    <2>2. row \in Rows
      BY DEF Rows
    <2> QED
      BY <2>1, <2>2, LiveViewAssumption DEF TypeOK, LiveViewAssumption, Rows
  <1>2. RowsAreOwn /\ SseBehind /\ ConnectionsApart
    BY DEF RowsAreOwn, SseBehind, ConnectionsApart, Loaded
  <1>3. ScoresFit
    BY DEF ScoresFit, Loaded
  <1>4. AllHeard
    BY DEF AllHeard, Notified
  <1> QED
    BY <1>1, <1>2, <1>3, <1>4 DEF LInv

-----------------------------------------------------------------------------
(***************************************************************************)
(* Results and the tasks that read them.                                   *)
(***************************************************************************)

LEMMA InsertSubmissionKeeps ==
  ASSUME LInv, NEW s \in Submissions, InsertSubmission(s)
  PROVE  LInv' /\ Older(row, row')
  <1> USE DEF LInv, InsertSubmission
  <1>1. row' \in Rows /\ row'[s] = "WJ" /\ \A t \in Submissions \ {s} : row'[t] = row[t]
    BY DEF TypeOK, Rows
  <1>2. TypeOK'
    BY <1>1 DEF TypeOK, Rows
  <1>3. RowsAreOwn'
    BY <1>1 DEF RowsAreOwn
  <1>4. SseBehind' /\ ConnectionsApart'
    BY DEF SseBehind, ConnectionsApart, Loaded
  <1>5. Older(row, row')
    BY <1>1 DEF Older
  <1>6. ScoresFit'
    BY <1>5, ScoresStay DEF PagesWait
  <1>7. AllHeard'
    BY DEF AllHeard, Heard, Notified, Subscribed, Updates, Judged
  <1> QED
    BY <1>2, <1>3, <1>4, <1>5, <1>6, <1>7 DEF LInv

LEMMA SubmitJobResultKeeps ==
  ASSUME LInv, NEW r \in Submissions \cup RunResults, SubmitJobResult(r)
  PROVE  LInv' /\ Older(row, row')
  <1> USE DEF LInv, SubmitJobResult
  <1>1. TypeOK'
    BY DEF TypeOK, Rows
  <1>2. RowsAreOwn'
    <2>1. ASSUME NEW i \in DOMAIN bus', bus'[i] \in Submissions
          PROVE  row[bus'[i]] # "none"
      <3>1. CASE i \in DOMAIN bus
        BY <2>1, <3>1 DEF RowsAreOwn, TypeOK
      <3>2. CASE i = Len(bus) + 1
        BY <2>1, <3>2 DEF TypeOK
      <3> QED
        BY <2>1, <3>1, <3>2 DEF TypeOK
    <2> QED
      BY <2>1 DEF RowsAreOwn
  <1>3. ConnectionsApart'
    BY DEF ConnectionsApart, Loaded
  <1>4. SseBehind'
    <2>1. Len(bus') = Len(bus) + 1 /\ Len(bus) \in Nat /\ next[Sse] \in Nat
      BY DEF TypeOK
    <2> QED
      BY <2>1 DEF SseBehind
  <1>5. Older(row, row')
    BY OlderItself
  <1>6. ScoresFit'
    BY <1>5, ScoresStay DEF PagesWait
  <1>7. AllHeard'
    BY NotifiedStays, HeardStays DEF PagesWait, Subscribed, Updates
  <1> QED
    BY <1>1, <1>2, <1>3, <1>4, <1>5, <1>6, <1>7 DEF LInv

LEMMA UpdateDatabaseKeeps ==
  ASSUME LInv, UpdateDatabase
  PROVE  LInv' /\ Older(row, row')
  <1> USE DEF LInv, UpdateDatabase
  <1>1. next[Db] \in DOMAIN bus /\ next[Db] \in Nat /\ next[Sse] \in Nat
    BY DEF HasResult, Unread, Subscribed, TypeOK
  <1>2. next'[Sse] = next[Sse] /\ next' \in [{Db, Sse} -> Nat]
    BY <1>1, LiveViewAssumption DEF TypeOK, LiveViewAssumption
  <1>3. ASSUME NEW s \in Submissions
        PROVE  row'[s] = row[s] \/ (row'[s] = Outcome[s] /\ row[s] # "none")
    <2>1. s = bus[next[Db]] => row[s] # "none"
      BY <1>1 DEF RowsAreOwn
    <2> QED
      BY <2>1
  <1>4. \A s \in Submissions : Outcome[s] \in {"AC", "WA"}
    BY LiveViewAssumption DEF LiveViewAssumption
  <1>5. TypeOK'
    <2>1. row' \in Rows
      BY <1>4 DEF TypeOK, Rows
    <2> QED
      BY <1>2, <2>1 DEF TypeOK
  <1>6. RowsAreOwn'
    BY <1>3, <1>4 DEF RowsAreOwn
  <1>7. SseBehind' /\ ConnectionsApart'
    BY <1>2 DEF SseBehind, ConnectionsApart, Loaded
  <1>8. Older(row, row')
    BY <1>3, <1>4 DEF Older, RowsAreOwn
  <1>9. ScoresFit'
    BY <1>8, ScoresStay DEF PagesWait
  <1>10. AllHeard'
    BY <1>2 DEF AllHeard, Heard, Notified, Subscribed, Updates, Judged
  <1> QED
    BY <1>5, <1>6, <1>7, <1>8, <1>9, <1>10 DEF LInv

LEMMA UpdateDatabaseLagsKeeps ==
  ASSUME LInv, UpdateDatabaseLags
  PROVE  LInv' /\ Older(row, row')
  <1> USE DEF LInv, UpdateDatabaseLags
  <1>1. TypeOK'
    BY DEF TypeOK
  <1>2. RowsAreOwn' /\ SseBehind' /\ ConnectionsApart'
    BY DEF RowsAreOwn, SseBehind, ConnectionsApart, Loaded
  <1>3. ScoresFit' /\ AllHeard'
    BY DEF ScoresFit, Loaded, AllHeard, Heard, Notified, Subscribed, Updates, Judged
  <1> QED
    BY <1>1, <1>2, <1>3, OlderItself DEF LInv

LEMMA NotifyKeeps ==
  ASSUME LInv, Notify
  PROVE  LInv' /\ Older(row, row')
  <1> USE DEF LInv, Notify
  <1> DEFINE r == bus[next[Sse]]
  <1>1. next[Sse] \in DOMAIN bus /\ next[Sse] \in Nat \ {0}
    BY DEF HasResult, Unread, Subscribed, TypeOK
  <1>2. next'[Sse] = next[Sse] + 1 /\ next' \in [{Db, Sse} -> Nat]
    BY <1>1 DEF TypeOK
  <1>3. Reached \subseteq Connections
    BY DEF Reached, TypeOK
  <1>4. ASSUME r \in Submissions PROVE TypeOK' /\ AllHeard'
    <2>1. /\ stream' = Sent(Reached, "update")
          /\ excused' = [p \in Pages |->
               IF conn[p] \in clients /\ Accepts(conn[p]) THEN excused[p]
               ELSE excused[p] \cup {r}]
      BY <1>4
    <2>2. TypeOK'
      <3>1. excused' \in [Pages -> SUBSET Submissions]
        BY <1>4, <2>1 DEF TypeOK
      <3>2. /\ stream' \in [Connections -> Seq({"connected", "ping", "update"})]
            /\ \A c \in Connections : Len(stream'[c]) <= ClientCap
        BY <2>1, SentType
      <3> QED
        BY <1>2, <3>1, <3>2 DEF TypeOK
    <2>3. AllHeard'
      <3> SUFFICES ASSUME NEW p \in Pages, NEW s \in Submissions, s \in Notified'
                   PROVE  Heard(p, s)'
        BY DEF AllHeard
      <3>1. conn[p] # Nothing => conn[p] \in Connections
        BY DEF TypeOK
      <3>2. CASE s \in Notified
        <4>1. Heard(p, s)
          BY <3>2 DEF AllHeard
        <4>2. \A c \in Connections : Updates(c) => Updates(c)'
          BY <2>1, <1>3, SentKeeps
        <4>5. conn[p] # Nothing /\ Updates(conn[p]) => Updates(conn[p])'
          BY <3>1, <4>2 DEF Updates
        <4>3. excused[p] \subseteq excused'[p]
          BY <2>1
        <4>4. Subscribed(Sse)
          BY <1>1 DEF Subscribed
        <4> QED
          BY <4>1, <4>3, <4>4, <4>5 DEF Heard, Judged
      <3>3. CASE s = r /\ conn[p] \in clients /\ Accepts(conn[p])
        <4>1. conn[p] \in Reached /\ conn[p] \in Connections /\ conn[p] # Nothing
          BY <3>3, LiveViewAssumption DEF Reached, TypeOK, LiveViewAssumption
        <4>2. stream'[conn[p]] = Append(stream[conn[p]], "update")
          BY <2>1, <4>1 DEF Sent
        <4>3. stream[conn[p]] \in Seq({"connected", "ping", "update"})
          BY <4>1 DEF TypeOK
        <4>4. Updates(conn[p])'
          BY <4>2, <4>3 DEF Updates
        <4> QED
          BY <4>1, <4>4 DEF Heard
      <3>4. CASE s = r /\ ~(conn[p] \in clients /\ Accepts(conn[p]))
        BY <3>4, <2>1 DEF Heard
      <3>5. s \in Notified \/ s = r
        BY <1>1, <1>2 DEF Notified
      <3> QED
        BY <3>2, <3>3, <3>4, <3>5
    <2> QED
      BY <2>2, <2>3
  <1>5. ASSUME r \notin Submissions PROVE TypeOK' /\ AllHeard'
    <2>1. stream' = stream /\ excused' = excused
      BY <1>5
    <2>2. TypeOK'
      BY <1>2, <2>1 DEF TypeOK
    <2>3. AllHeard'
      <3> SUFFICES ASSUME NEW p \in Pages, NEW s \in Submissions, s \in Notified'
                   PROVE  Heard(p, s)'
        BY DEF AllHeard
      <3>1. s \in Notified
        BY <1>1, <1>2, <1>5 DEF Notified
      <3>2. Heard(p, s) /\ Subscribed(Sse)
        BY <3>1, <1>1 DEF AllHeard, Subscribed
      <3> QED
        BY <3>2, <2>1 DEF Heard, Updates, Judged
    <2> QED
      BY <2>2, <2>3
  <1>6. RowsAreOwn' /\ ConnectionsApart'
    BY DEF RowsAreOwn, ConnectionsApart, Loaded
  <1>7. SseBehind'
    BY <1>1, <1>2 DEF SseBehind, TypeOK
  <1>8. ScoresFit'
    BY OlderItself, ScoresStay DEF PagesWait
  <1> QED
    BY <1>4, <1>5, <1>6, <1>7, <1>8, OlderItself DEF LInv

LEMMA NotifierLagsKeeps ==
  ASSUME LInv, NotifierLags
  PROVE  LInv' /\ Older(row, row')
  <1> USE DEF LInv, NotifierLags
  <1>1. next'[Sse] = 0 /\ next' \in [{Db, Sse} -> Nat]
    BY DEF TypeOK
  <1>2. TypeOK'
    BY <1>1 DEF TypeOK
  <1>3. RowsAreOwn' /\ ConnectionsApart'
    BY DEF RowsAreOwn, ConnectionsApart, Loaded
  <1>4. SseBehind' /\ AllHeard'
    BY <1>1 DEF SseBehind, TypeOK, AllHeard, Heard, Subscribed
  <1>5. ScoresFit'
    BY DEF ScoresFit, Loaded
  <1> QED
    BY <1>2, <1>3, <1>4, <1>5, OlderItself DEF LInv

LEMMA PingKeeps ==
  ASSUME LInv, Ping
  PROVE  LInv' /\ Older(row, row')
  <1> USE DEF LInv, Ping
  <1>1. Reached \subseteq Connections
    BY DEF Reached, TypeOK
  <1>2. /\ stream' \in [Connections -> Seq({"connected", "ping", "update"})]
        /\ \A c \in Connections : Len(stream'[c]) <= ClientCap
    BY SentType
  <1>3. TypeOK'
    BY <1>1, <1>2 DEF TypeOK
  <1>4. RowsAreOwn' /\ SseBehind' /\ ConnectionsApart'
    BY DEF RowsAreOwn, SseBehind, ConnectionsApart, Loaded
  <1>5. ScoresFit'
    BY DEF ScoresFit, Loaded
  <1>6. Notified' = Notified /\ (Subscribed(Sse)' <=> Subscribed(Sse))
    BY DEF Notified, Subscribed
  <1>7. AllHeard'
    BY <1>1, <1>6, SentKeeps, HeardStays DEF PagesWait
  <1> QED
    BY <1>3, <1>4, <1>5, <1>7, OlderItself DEF LInv

-----------------------------------------------------------------------------
-----------------------------------------------------------------------------
(***************************************************************************)
(* The pages.                                                              *)
(***************************************************************************)

LEMMA LoadKeeps ==
  ASSUME LInv, NEW p \in Pages, Load(p)
  PROVE  LInv' /\ Older(row, row')
  <1> USE DEF LInv, Load
  <1>1. RowsAreOwn' /\ SseBehind' /\ ConnectionsApart'
    <2>1. ~Loaded(p) /\ \A q \in Pages \ {p} : fetch'[q] = fetch[q]
      BY DEF TypeOK, Loaded
    <2> QED
      BY <2>1 DEF RowsAreOwn, SseBehind, ConnectionsApart, Loaded
  <1>2. AllHeard'
    <2>1. /\ fetch'[p] # "none"
          /\ \A q \in Pages \ {p} : fetch'[q] = fetch[q] /\ view'[q] = view[q]
      BY DEF TypeOK
    <2> SUFFICES ASSUME NEW q \in Pages, NEW s \in Submissions, s \in Notified'
                 PROVE  Heard(q, s)'
      BY DEF AllHeard
    <2>2. Heard(q, s)
      BY DEF AllHeard, Notified
    <2> QED
      BY <2>1, <2>2 DEF Heard, Judged, Updates, Subscribed
  <1>3. TypeOK'
    <2>1. Score(row) \in [first : 0 .. Never, failed : Nat]
      BY ScoreType
    <2>2. /\ score' \in [Pages -> [first : 0 .. Never, failed : Nat]]
          /\ view' \in [Pages -> Rows]
          /\ fetch' \in [Pages -> {"closed", "loading", "none", "asked", "again"}]
      BY <2>1 DEF TypeOK
    <2> QED
      BY <2>2 DEF TypeOK
  <1>4. ScoresFit'
    <2> SUFFICES ASSUME NEW q \in Pages
                 PROVE  /\ fetch'[q] # "closed" => Fits(score'[q], row')
                        /\ Loaded(q)' => Fits(score'[q], view'[q])
      BY DEF ScoresFit
    <2>1. CASE q # p
      <3>1. fetch'[q] = fetch[q] /\ score'[q] = score[q] /\ view'[q] = view[q] /\ row' = row
        BY <2>1 DEF TypeOK
      <3> QED
        BY <3>1 DEF ScoresFit, Loaded
    <2>2. CASE q = p /\ fetch[p] = "closed"
      <3>1. score'[p] = Score(row) /\ fetch'[p] = "loading" /\ row' = row
        BY <2>2 DEF TypeOK
      <3> QED
        BY <2>2, <3>1, OwnScoreFits DEF Loaded
    <2>3. CASE q = p /\ fetch[p] = "loading"
      <3>1. view'[p] = row /\ score' = score /\ row' = row
        BY <2>3 DEF TypeOK
      <3>2. Fits(score[p], row)
        BY <2>3 DEF ScoresFit
      <3> QED
        BY <2>3, <3>1, <3>2
    <2> QED
      BY <2>1, <2>2, <2>3
  <1> QED
    BY <1>1, <1>2, <1>3, <1>4, OlderItself DEF LInv

LEMMA ConnectKeeps ==
  ASSUME LInv, NEW p \in Pages, NEW c \in Connections, Connect(p, c)
  PROVE  LInv' /\ Older(row, row')
  <1> USE DEF LInv, Connect
  <1>1. /\ conn[p] = Nothing /\ conn'[p] = c
        /\ \A q \in Pages \ {p} : conn'[q] = conn[q]
        /\ \A q \in Pages : conn[q] # c
        /\ \A d \in Connections \ {c} : stream'[d] = stream[d]
        /\ stream'[c] = <<"connected">>
    BY DEF TypeOK
  <1>2. TypeOK'
    <2>1. \A d \in Connections : Len(stream'[d]) <= ClientCap
      BY <1>1, LiveViewAssumption DEF TypeOK, LiveViewAssumption
    <2>2. stream' \in [Connections -> Seq({"connected", "ping", "update"})]
      BY DEF TypeOK
    <2>3. clients' \in SUBSET Connections /\ open' \in SUBSET Connections
          /\ conn' \in [Pages -> Connections \cup {Nothing}]
      BY DEF TypeOK
    <2> QED
      BY <2>1, <2>2, <2>3 DEF TypeOK
  <1>3. RowsAreOwn' /\ SseBehind'
    BY DEF RowsAreOwn, SseBehind
  <1>4. ConnectionsApart'
    BY <1>1 DEF ConnectionsApart, Loaded
  <1>5. ScoresFit'
    BY DEF ScoresFit, Loaded
  <1>6. AllHeard'
    <2> SUFFICES ASSUME NEW q \in Pages, NEW s \in Submissions, s \in Notified'
                 PROVE  Heard(q, s)'
      BY DEF AllHeard
    <2>1. Heard(q, s)
      BY DEF AllHeard, Notified
    <2>2. conn[q] # Nothing => q # p /\ conn[q] \in Connections \ {c}
      BY <1>1 DEF TypeOK
    <2>3. conn[q] # Nothing /\ Updates(conn[q]) => conn'[q] # Nothing /\ Updates(conn[q])'
      BY <2>2, <1>1 DEF Updates
    <2> QED
      BY <2>1, <2>3 DEF Heard, Judged, Subscribed
  <1> QED
    BY <1>2, <1>3, <1>4, <1>5, <1>6, OlderItself DEF LInv

LEMMA ReadKeeps ==
  ASSUME LInv, NEW p \in Pages, Read(p)
  PROVE  LInv' /\ Older(row, row')
  <1> USE DEF LInv, Read
  <1> DEFINE c == conn[p]
  <1>1. /\ c \in Connections
        /\ stream[c] \in Seq({"connected", "ping", "update"}) /\ stream[c] # <<>>
        /\ stream'[c] = Tail(stream[c])
        /\ \A d \in Connections \ {c} : stream'[d] = stream[d]
    BY DEF TypeOK
  <1>2. /\ \A q \in Pages \ {p} : fetch'[q] = fetch[q]
        /\ Head(stream[c]) = "update" => fetch'[p] \in {"asked", "again"}
        /\ Head(stream[c]) # "update" => fetch'[p] = fetch[p]
    BY DEF TypeOK
  <1>3. TypeOK'
    <2>1. Len(stream'[c]) <= Len(stream[c])
          /\ stream'[c] \in Seq({"connected", "ping", "update"})
      BY <1>1
    <2>2. ClientCap \in Nat
      BY LiveViewAssumption DEF LiveViewAssumption
    <2>3. \A d \in Connections : Len(stream'[d]) <= ClientCap
      <3>1. Len(stream[c]) <= ClientCap /\ Len(stream[c]) \in Nat /\ Len(stream'[c]) \in Nat
        BY <1>1, <2>1 DEF TypeOK
      <3> QED
        BY <1>1, <2>1, <2>2, <3>1 DEF TypeOK
    <2>4. stream' \in [Connections -> Seq({"connected", "ping", "update"})]
      BY <1>1, <2>1 DEF TypeOK
    <2>5. fetch' \in [Pages -> {"closed", "loading", "none", "asked", "again"}]
      BY DEF TypeOK
    <2> QED
      BY <2>3, <2>4, <2>5 DEF TypeOK
  <1>4. RowsAreOwn' /\ SseBehind' /\ ConnectionsApart'
    BY DEF RowsAreOwn, SseBehind, ConnectionsApart, Loaded
  <1>5. ScoresFit'
    <2> SUFFICES ASSUME NEW q \in Pages
                 PROVE  /\ fetch'[q] # "closed" => Fits(score'[q], row')
                        /\ Loaded(q)' => Fits(score'[q], view'[q])
      BY DEF ScoresFit
    <2> QED
      BY DEF ScoresFit, ConnectionsApart, Loaded, TypeOK
  <1>6. AllHeard'
    <2> SUFFICES ASSUME NEW q \in Pages, NEW s \in Submissions, s \in Notified'
                 PROVE  Heard(q, s)'
      BY DEF AllHeard
    <2>1. Heard(q, s)
      BY DEF AllHeard, Notified
    <2>2. CASE q # p
      <3>1. conn[q] # Nothing => conn[q] \in Connections \ {c}
        BY <2>2, <1>1 DEF TypeOK, ConnectionsApart, Loaded
      <3>2. conn[q] # Nothing /\ Updates(conn[q]) => Updates(conn[q])'
        BY <3>1, <1>1 DEF Updates
      <3> QED
        BY <2>1, <2>2, <3>2, <1>2 DEF Heard, Judged, Subscribed
    <2>3. CASE q = p /\ Head(stream[c]) = "update"
      BY <2>3, <1>2 DEF Heard
    <2>4. CASE q = p /\ Head(stream[c]) # "update"
      <3>1. ASSUME Updates(c) PROVE Updates(conn[p])'
        <4>1. PICK i \in DOMAIN stream[c] : stream[c][i] = "update"
          BY <3>1 DEF Updates
        <4>2. i # 1 /\ i \in 1 .. Len(stream[c])
          BY <4>1, <2>4, <1>1
        <4>3. i - 1 \in DOMAIN stream'[c] /\ stream'[c][i - 1] = "update"
          <5>1. i \in 2 .. Len(stream[c])
            BY <4>2
          <5> QED
            BY <4>1, <5>1, <1>1, TailShifts
        <4> QED
          BY <4>3 DEF Updates
      <3> QED
        BY <2>1, <2>4, <3>1, <1>2 DEF Heard, Judged, Subscribed
    <2> QED
      BY <2>2, <2>3, <2>4
  <1> QED
    BY <1>3, <1>4, <1>5, <1>6, OlderItself DEF LInv

LEMMA StreamEndsKeeps ==
  ASSUME LInv, NEW p \in Pages, StreamEnds(p)
  PROVE  LInv' /\ Older(row, row')
  <1> USE DEF LInv, StreamEnds
  <1>1. conn'[p] = Nothing /\ \A q \in Pages \ {p} : conn'[q] = conn[q]
    BY DEF TypeOK
  <1>2. TypeOK'
    BY DEF TypeOK
  <1>3. RowsAreOwn' /\ SseBehind'
    BY DEF RowsAreOwn, SseBehind
  <1>4. ConnectionsApart'
    BY <1>1 DEF ConnectionsApart, Loaded
  <1>5. ScoresFit'
    BY DEF ScoresFit, Loaded
  <1>6. AllHeard'
    <2> SUFFICES ASSUME NEW q \in Pages, NEW s \in Submissions, s \in Notified'
                 PROVE  Heard(q, s)'
      BY DEF AllHeard
    <2>1. Heard(q, s)
      BY DEF AllHeard, Notified
    <2>2. ~Updates(conn[p])
      BY DEF Updates
    <2>3. q # p /\ Updates(conn[q]) => Updates(conn[q])'
      BY <1>1 DEF Updates
    <2> QED
      BY <2>1, <2>2, <2>3, <1>1 DEF Heard, Judged, Subscribed
  <1> QED
    BY <1>2, <1>3, <1>4, <1>5, <1>6, OlderItself DEF LInv

LEMMA DropKeeps ==
  ASSUME LInv, NEW p \in Pages, Drop(p)
  PROVE  LInv' /\ Older(row, row')
  <1> USE DEF LInv, Drop
  <1> DEFINE c == conn[p]
  <1>1. /\ c \in Connections /\ stream'[c] = <<>>
        /\ \A d \in Connections \ {c} : stream'[d] = stream[d]
        /\ conn'[p] = Nothing /\ \A q \in Pages \ {p} : conn'[q] = conn[q]
    BY DEF TypeOK
  <1>2. /\ excused' \in [Pages -> SUBSET Submissions]
        /\ \A q \in Pages : excused[q] \subseteq excused'[q]
        /\ Updates(c) => Notified \cap Submissions \subseteq excused'[p]
    BY DEF TypeOK
  <1>3. TypeOK'
    <2>1. \A d \in Connections : Len(stream'[d]) <= ClientCap
      BY <1>1, LiveViewAssumption DEF TypeOK, LiveViewAssumption
    <2>2. drops' \in 0 .. MaxDrops
      BY LiveViewAssumption DEF TypeOK, LiveViewAssumption
    <2>3. stream' \in [Connections -> Seq({"connected", "ping", "update"})]
      BY DEF TypeOK
    <2> QED
      BY <1>2, <2>1, <2>2, <2>3 DEF TypeOK
  <1>4. RowsAreOwn' /\ SseBehind'
    BY DEF RowsAreOwn, SseBehind
  <1>5. ConnectionsApart'
    BY <1>1 DEF ConnectionsApart, Loaded
  <1>6. ScoresFit'
    BY DEF ScoresFit, Loaded
  <1>7. AllHeard'
    <2> SUFFICES ASSUME NEW q \in Pages, NEW s \in Submissions, s \in Notified'
                 PROVE  Heard(q, s)'
      BY DEF AllHeard
    <2>1. Heard(q, s) /\ s \in Notified
      BY DEF AllHeard, Notified
    <2>2. CASE q = p /\ Updates(c)
      BY <2>1, <2>2, <1>2 DEF Heard
    <2>3. CASE q = p /\ ~Updates(c)
      BY <2>1, <2>3, <1>2 DEF Heard, Judged, Subscribed
    <2>4. CASE q # p
      <3>1. conn[q] # Nothing => conn[q] \in Connections \ {c}
        BY <2>4, <1>1 DEF TypeOK, ConnectionsApart, Loaded
      <3>2. conn[q] # Nothing /\ Updates(conn[q]) => Updates(conn[q])'
        BY <2>4, <3>1, <1>1 DEF Updates
      <3>3. conn'[q] = conn[q]
        BY <2>4, <1>1
      <3> QED
        BY <2>1, <3>2, <3>3, <1>2 DEF Heard, Judged, Subscribed
    <2> QED
      BY <2>2, <2>3, <2>4
  <1> QED
    BY <1>3, <1>4, <1>5, <1>6, <1>7, OlderItself DEF LInv

LEMMA ServeKeeps ==
  ASSUME LInv, NEW p \in Pages, Serve(p)
  PROVE  LInv' /\ Older(row, row')
  <1> USE DEF LInv, Serve
  <1>1. /\ view'[p] = row /\ Loaded(p) /\ fetch[p] # "closed"
        /\ \A q \in Pages \ {p} : view'[q] = view[q] /\ fetch'[q] = fetch[q]
                                  /\ excused'[q] = excused[q]
        /\ excused'[p] = excused[p] \cup {s \in Notified \cap Submissions : row[s] = "WJ"}
    BY DEF TypeOK, Loaded
  <1>2. TypeOK'
    <2>1. excused' \in [Pages -> SUBSET Submissions]
      BY DEF TypeOK
    <2>2. view' \in [Pages -> Rows]
          /\ fetch' \in [Pages -> {"closed", "loading", "none", "asked", "again"}]
      BY DEF TypeOK
    <2> QED
      BY <2>1, <2>2 DEF TypeOK
  <1>3. RowsAreOwn' /\ SseBehind' /\ ConnectionsApart'
    BY DEF RowsAreOwn, SseBehind, ConnectionsApart, Loaded
  <1>4. ScoresFit'
    <2> SUFFICES ASSUME NEW q \in Pages
                 PROVE  /\ fetch'[q] # "closed" => Fits(score'[q], row')
                        /\ Loaded(q)' => Fits(score'[q], view'[q])
      BY DEF ScoresFit
    <2>1. CASE q = p
      BY <2>1, <1>1 DEF ScoresFit
    <2>2. CASE q # p
      BY <2>2, <1>1 DEF ScoresFit, Loaded
    <2> QED
      BY <2>1, <2>2
  <1>5. AllHeard'
    <2> SUFFICES ASSUME NEW q \in Pages, NEW s \in Submissions, s \in Notified'
                 PROVE  Heard(q, s)'
      BY DEF AllHeard
    <2>1. Heard(q, s) /\ s \in Notified
      BY DEF AllHeard, Notified
    <2>2. CASE q # p
      BY <2>1, <2>2, <1>1 DEF Heard, Judged, Updates, Subscribed
    <2>3. CASE q = p /\ row[s] = "WJ"
      BY <2>1, <2>3, <1>1 DEF Heard
    <2>4. CASE q = p /\ row[s] # "WJ"
      <3>1. row[s] # "none" /\ row[s] \in {"none", "WJ", "AC", "WA"}
        BY <2>1, NotifiedHasRow DEF TypeOK, Rows
      <3> QED
        BY <2>4, <3>1, <1>1 DEF Heard, Judged
    <2> QED
      BY <2>2, <2>3, <2>4
  <1> QED
    BY <1>2, <1>3, <1>4, <1>5, OlderItself DEF LInv

-----------------------------------------------------------------------------
(***************************************************************************)
(* The theorems.                                                           *)
(***************************************************************************)

LEMMA StepKeeps == LInv /\ [Next]_vars => LInv' /\ Older(row, row')
  <1> SUFFICES ASSUME LInv, [Next]_vars
               PROVE  LInv' /\ Older(row, row')
    OBVIOUS
  <1>1. ASSUME NEW p \in Pages, Page(p) \/ Drop(p)
        PROVE  LInv' /\ Older(row, row')
    BY <1>1, LoadKeeps, ConnectKeeps, ReadKeeps, StreamEndsKeeps, DropKeeps, ServeKeeps
       DEF Page
  <1>2. CASE UNCHANGED vars
    <2>1. TypeOK'
      BY <1>2 DEF LInv, vars, TypeOK
    <2>2. RowsAreOwn' /\ SseBehind' /\ ConnectionsApart' /\ ScoresFit'
      BY <1>2 DEF LInv, vars, RowsAreOwn, SseBehind, ConnectionsApart, ScoresFit, Loaded
    <2>3. AllHeard'
      BY <1>2 DEF LInv, vars, AllHeard, Heard, Judged, Updates, Subscribed, Notified
    <2> QED
      BY <1>2, <2>1, <2>2, <2>3, OlderItself DEF LInv, vars
  <1>3. CASE Next
    BY <1>1, <1>3, InsertSubmissionKeeps, SubmitJobResultKeeps, UpdateDatabaseKeeps,
       UpdateDatabaseLagsKeeps, NotifyKeeps, NotifierLagsKeeps, PingKeeps DEF Next
  <1> QED
    BY <1>2, <1>3

\* The invariant behind the others: rows move forward only, a score fits the rows
\* from the moment it is read, and what the Broadcaster has read of submissions is
\* shown, on its way to the page, or excused, whether or not it is written.
THEOREM LiveInvariant == Spec => []LInv
  <1>1. Init => LInv
    BY InitLInv
  <1>2. LInv /\ [Next]_vars => LInv'
    BY StepKeeps
  <1> QED
    BY <1>1, <1>2, PTL DEF Spec

\* Every variable keeps its type; a client's channel never holds more than it takes.
THEOREM TypeCorrect == Spec => []TypeOK
  <1>1. LInv => TypeOK
    BY DEF LInv
  <1> QED
    BY <1>1, LiveInvariant, PTL

\* A page that shows a judged submission as waiting asks again, or one of the listed
\* causes kept the verdict from it: channels that are full, connections that break,
\* the task of the Broadcaster that died, the event that came before the write.
THEOREM StaleViewsHaveCauses == Spec => []StaleViewHasCause
  <1>1. LInv => StaleViewHasCause
    BY DEF LInv, AllHeard, Heard, StaleViewHasCause, UpdateComes
  <1> QED
    BY <1>1, LiveInvariant, PTL

\* The list beside a score bears it out, however many verdicts came between the two
\* statements that read them, and whatever list is fetched later.
THEOREM ScoresAreListed == Spec => []ScoreIsListed
  <1>1. LInv => ScoreIsListed
    BY DEF LInv, ScoresFit, Loaded, Fits, ScoreIsListed
  <1> QED
    BY <1>1, LiveInvariant, PTL

\* In whatever order verdicts arrive, the first accepted instant moves back only, and
\* failures disappear from the score only together with such a move.
THEOREM ScoresOnlyImprove == Spec => ScoreOnlyImproves
  <1> DEFINE Better == /\ FirstAc(row') <= FirstAc(row)
                       /\ Failed(row') < Failed(row) => FirstAc(row') < FirstAc(row)
  <1>1. LInv /\ [Next]_vars => [Better]_vars
    <2> SUFFICES ASSUME LInv, [Next]_vars
                 PROVE  Better
      OBVIOUS
    <2>1. Older(row, row')
      BY StepKeeps
    <2>2. /\ FirstAc(row') <= FirstAc(row)
          /\ FirstAc(row') \in 0 .. Never /\ FirstAc(row) \in 0 .. Never
      BY <2>1, LaterRows, FirstAcIsLeast
    <2>3. ASSUME FirstAc(row') = FirstAc(row)
          PROVE  ~(Failed(row') < Failed(row))
      <3>1. /\ Failed(row) = Cardinality(Before(row, FirstAc(row)))
            /\ Failed(row') = Cardinality(Before(row', FirstAc(row)))
        BY <2>3 DEF Failed
      <3>2. Failed(row) <= Failed(row') /\ Failed(row) \in Nat /\ Failed(row') \in Nat
        BY <3>1, <2>1, LaterRows, BeforeIsFinite
      <3> QED
        BY <3>2
    <2>4. Never \in Nat
      BY ScoreboardAssumption DEF ScoreboardAssumption
    <2> QED
      BY <2>2, <2>3, <2>4
  <1> QED
    BY <1>1, LiveInvariant, PTL DEF Spec, ScoreOnlyImproves

-----------------------------------------------------------------------------
(***************************************************************************)
(* What a page shows, against the rows and against what it showed before.  *)
(***************************************************************************)

\* A page shows rows as they were at some time; they have only moved on since.
ViewsAreOlder == \A p \in Pages : Older(view[p], row)

\* A list is never replaced by an older one: a verdict once shown stays, and no
\* submission leaves the list.
ViewsMoveForward ==
  [][\A p \in Pages : Older(view[p], view'[p])]_vars

\* A page's list is left alone, or becomes that of the database.
LEMMA ViewStep ==
  ASSUME LInv, [Next]_vars, NEW p \in Pages
  PROVE  view'[p] = view[p] \/ (view'[p] = row /\ row' = row)
  <1>1. ASSUME NEW q \in Pages, Load(q) \/ Serve(q)
        PROVE  row' = row /\ (view' = view \/ view' = [view EXCEPT ![q] = row])
    BY <1>1 DEF Load, Serve
  <1>2. view \in [Pages -> Rows]
    BY DEF LInv, TypeOK
  <1>3. ASSUME NEW q \in Pages, Page(q) \/ Drop(q)
        PROVE  view'[p] = view[p] \/ (view'[p] = row /\ row' = row)
    <2>1. CASE Load(q) \/ Serve(q)
      BY <1>1, <1>2, <2>1
    <2>2. CASE Read(q) \/ StreamEnds(q) \/ Drop(q) \/ \E c \in Connections : Connect(q, c)
      BY <2>2 DEF Read, StreamEnds, Drop, Connect
    <2> QED
      BY <1>3, <2>1, <2>2 DEF Page
  <1>4. CASE UNCHANGED vars
    BY <1>4 DEF vars
  <1>5. CASE Next
    BY <1>3, <1>5 DEF Next, InsertSubmission, SubmitJobResult, UpdateDatabase,
       UpdateDatabaseLags, Notify, NotifierLags, Ping
  <1> QED
    BY <1>4, <1>5

LEMMA ViewsFollow ==
  ASSUME LInv, [Next]_vars, ViewsAreOlder
  PROVE  /\ ViewsAreOlder'
         /\ \A p \in Pages : Older(view[p], view'[p])
  <1> SUFFICES ASSUME NEW p \in Pages
               PROVE  Older(view'[p], row') /\ Older(view[p], view'[p])
    BY DEF ViewsAreOlder
  <1>1. Older(row, row') /\ Older(view[p], row)
    BY StepKeeps DEF ViewsAreOlder
  <1>2. CASE view'[p] = view[p]
    BY <1>1, <1>2, OlderChain, OlderItself
  <1>3. CASE view'[p] = row /\ row' = row
    BY <1>1, <1>3
  <1> QED
    BY <1>2, <1>3, ViewStep

\* Whatever pages load, miss and fetch again, none ever goes back to an older list:
\* each request is answered from the rows, which only move forward, and a page waits
\* for one answer before it asks again.
THEOREM ViewsOnlyMoveForward == Spec => []ViewsAreOlder /\ ViewsMoveForward
  <1>1. Init => ViewsAreOlder
    BY OlderItself DEF Init, ViewsAreOlder
  <1>2. LInv /\ [Next]_vars /\ ViewsAreOlder => ViewsAreOlder'
    BY ViewsFollow
  <1>3. LInv /\ [Next]_vars /\ ViewsAreOlder =>
          [\A p \in Pages : Older(view[p], view'[p])]_vars
    BY ViewsFollow
  <1> QED
    BY <1>1, <1>2, <1>3, LiveInvariant, PTL DEF Spec, ViewsMoveForward
=============================================================================
