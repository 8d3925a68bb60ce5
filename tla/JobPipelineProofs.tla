-------------------------- MODULE JobPipelineProofs --------------------------
(***************************************************************************)
(* Theorems about the job pipeline, for every set of submissions, import   *)
(* calls and workers, every capacity of the bus and any number of faults.  *)
(***************************************************************************)
EXTENDS JobPipeline, SequenceTheorems, FiniteSetTheorems, TLAPS

(***************************************************************************)
(* Queue and bus.                                                          *)
(***************************************************************************)

\* Taking the head of the queue: what is left was in the queue, and keeps its
\* order.
LEMMA TakeHead ==
  ASSUME TypeOK, queue # <<>>, queue' = Tail(queue)
  PROVE  /\ Head(queue) \in Jobs
         /\ queue' \in Seq(Jobs)
         /\ Len(queue) \in Nat \ {0}
         /\ Len(queue') = Len(queue) - 1
         /\ DOMAIN queue' = 1 .. Len(queue) - 1
         /\ DOMAIN queue = 1 .. Len(queue)
         /\ \A i \in DOMAIN queue' : queue'[i] = queue[i + 1]
         /\ Head(queue) = queue[1]
<1>1. queue \in Seq(Jobs) BY DEF TypeOK
<1>2. Len(queue) \in Nat \ {0} BY <1>1, EmptySeq
<1>3. /\ Head(queue) \in Jobs
      /\ Tail(queue) \in Seq(Jobs)
      /\ Len(Tail(queue)) = Len(queue) - 1
      /\ \A i \in 1 .. Len(Tail(queue)) : Tail(queue)[i] = queue[i + 1]
  BY <1>1, HeadTailProperties
<1>4. Head(queue) = queue[1] BY <1>1, <1>2
<1> QED BY <1>1, <1>2, <1>3, <1>4

\* A queue that lost its head has no job twice, does not have its old head, and
\* has nothing new.
LEMMA TakeHeadQueued ==
  ASSUME TypeOK, AtMostOnce, queue # <<>>, queue' = Tail(queue)
  PROVE  /\ \A i, k \in DOMAIN queue' : queue'[i] = queue'[k] => i = k
         /\ \A i \in DOMAIN queue' : queue'[i] # Head(queue)
         /\ \A i \in DOMAIN queue' : Queued(queue'[i])
         /\ Queued(Head(queue))
         /\ \A j : Queued(j) <=> Queued(j)' \/ j = Head(queue)
<1>1. /\ Len(queue) \in Nat \ {0}
      /\ DOMAIN queue' = 1 .. Len(queue) - 1
      /\ DOMAIN queue = 1 .. Len(queue)
      /\ \A i \in DOMAIN queue' : queue'[i] = queue[i + 1]
      /\ Head(queue) = queue[1]
  BY TakeHead
<1>2. \A i, k \in DOMAIN queue : queue[i] = queue[k] => i = k
  BY DEF AtMostOnce
<1>3. \A i \in DOMAIN queue' : i + 1 \in DOMAIN queue /\ i + 1 # 1
  BY <1>1
<1>4. \A i \in DOMAIN queue : i = 1 \/ i - 1 \in DOMAIN queue'
  BY <1>1
<1>5. 1 \in DOMAIN queue
  BY <1>1
<1>6. \A i, k \in DOMAIN queue' : queue'[i] = queue'[k] => i = k
  BY <1>1, <1>2, <1>3
<1>7. \A i \in DOMAIN queue' : queue'[i] # Head(queue)
  BY <1>1, <1>2, <1>3, <1>5
<1>8. \A i \in DOMAIN queue' : Queued(queue'[i])
  BY <1>1, <1>3 DEF Queued
<1>9. Queued(Head(queue))
  BY <1>1, <1>5 DEF Queued
<1>10. ASSUME NEW j, Queued(j)
       PROVE  Queued(j)' \/ j = Head(queue)
  <2>1. PICK i \in DOMAIN queue : queue[i] = j BY <1>10 DEF Queued
  <2>2. CASE i = 1 BY <2>1, <2>2, <1>1
  <2>3. CASE i # 1
    <3>1. i - 1 \in DOMAIN queue' BY <1>4, <2>3
    <3>2. queue'[i - 1] = queue[(i - 1) + 1] BY <1>1, <3>1
    <3>3. (i - 1) + 1 = i BY <1>1
    <3> QED BY <2>1, <3>1, <3>2, <3>3 DEF Queued
  <2> QED BY <2>2, <2>3
<1>11. ASSUME NEW j, Queued(j)' \/ j = Head(queue)
       PROVE  Queued(j)
  BY <1>8, <1>9, <1>11 DEF Queued
<1> QED BY <1>6, <1>7, <1>8, <1>9, <1>10, <1>11

\* Appending a job that was not in the queue.
LEMMA AppendQueued ==
  ASSUME TypeOK, AtMostOnce, NEW j \in Jobs, ~Queued(j), queue' = Append(queue, j)
  PROVE  /\ queue' \in Seq(Jobs)
         /\ \A i, k \in DOMAIN queue' : queue'[i] = queue'[k] => i = k
         /\ \A h : Queued(h)' <=> Queued(h) \/ h = j
<1>1. queue \in Seq(Jobs) BY DEF TypeOK
<1>2. /\ queue' \in Seq(Jobs)
      /\ Len(queue') = Len(queue) + 1
      /\ \A i \in 1 .. Len(queue) : queue'[i] = queue[i]
      /\ queue'[Len(queue) + 1] = j
  BY <1>1, AppendProperties
<1>3. /\ DOMAIN queue = 1 .. Len(queue)
      /\ DOMAIN queue' = 1 .. Len(queue) + 1
      /\ Len(queue) \in Nat
  BY <1>1, <1>2
<1>4. \A i \in DOMAIN queue' : i \in DOMAIN queue \/ i = Len(queue) + 1
  BY <1>3
<1>5. \A i \in DOMAIN queue : queue[i] # j
  BY DEF Queued
<1>6. \A i, k \in DOMAIN queue' : queue'[i] = queue'[k] => i = k
  BY <1>2, <1>3, <1>4, <1>5 DEF AtMostOnce
<1>7. \A h : Queued(h)' <=> Queued(h) \/ h = j
  BY <1>2, <1>3, <1>4 DEF Queued
<1> QED BY <1>2, <1>6, <1>7

\* Broadcasting a result appends it to the bus.
LEMMA Broadcast ==
  ASSUME TypeOK, NEW j \in Jobs, NEW body \in Bodies,
         bus' = Append(bus, [uuid |-> j, body |-> body])
  PROVE  /\ bus' \in Seq([uuid : Jobs, body : Bodies])
         /\ Len(bus) \in Nat
         /\ Len(bus') = Len(bus) + 1
         /\ DOMAIN bus = 1 .. Len(bus)
         /\ DOMAIN bus' = 1 .. Len(bus) + 1
         /\ \A i \in DOMAIN bus : bus'[i] = bus[i]
         /\ bus'[Len(bus) + 1] = [uuid |-> j, body |-> body]
<1>1. bus \in Seq([uuid : Jobs, body : Bodies]) BY DEF TypeOK
<1>2. [uuid |-> j, body |-> body] \in [uuid : Jobs, body : Bodies] OBVIOUS
<1> QED BY <1>1, <1>2, AppendProperties

\* What a receiver reads is a result on the bus.
LEMMA ReadsTheBus ==
  ASSUME TypeOK, NEW r \in Receivers, HasResult(r)
  PROVE  /\ next[r] \in DOMAIN bus
         /\ next[r] \in Nat
         /\ Len(bus) \in Nat
         /\ DOMAIN bus = 1 .. Len(bus)
         /\ bus[next[r]] \in [uuid : Jobs, body : Bodies]
<1>1. /\ bus \in Seq([uuid : Jobs, body : Bodies])
      /\ next[r] \in Nat
  BY DEF TypeOK
<1>2. Len(bus) \in Nat /\ DOMAIN bus = 1 .. Len(bus) BY <1>1
<1>3. next[r] \in DOMAIN bus
  BY <1>1, <1>2 DEF HasResult, Subscribed, Unread
<1>4. bus[next[r]] \in [uuid : Jobs, body : Bodies]
  BY <1>1, <1>2, <1>3, ElementOfSeq
<1> QED BY <1>1, <1>2, <1>3, <1>4

(***************************************************************************)
(* Type correctness.                                                       *)
(***************************************************************************)

\* The initial state is well typed.
LEMMA TypeInit == Init => TypeOK
<1> SUFFICES ASSUME Init PROVE TypeOK
  OBVIOUS
<1>1. bus \in Seq([uuid : Jobs, body : Bodies]) /\ queue \in Seq(Jobs)
  BY DEF Init
<1> QED BY <1>1 DEF Init, TypeOK

\* A worker that judges holds a job.
LEMMA WorkingHolds ==
  ASSUME TypeOK, Busy, NEW w \in Workers, phase[w] = "working"
  PROVE  job[w] \in Jobs
  BY DEF TypeOK, Busy

\* One case per action: every step keeps the type invariant, and a worker holds
\* a job exactly while it judges.
LEMMA TypeStep ==
  ASSUME TypeOK, Busy, [Next]_vars
  PROVE  TypeOK' /\ Busy'
<1> USE DEF Calls, Judgements, Jobs, Receivers
<1>1. ASSUME NEW s \in Submissions, InsertSubmission(s)
      PROVE  TypeOK' /\ Busy'
  BY <1>1 DEF InsertSubmission, TypeOK, Busy
<1>2. ASSUME NEW s \in Submissions, SendSubmission(s)
      PROVE  TypeOK' /\ Busy'
  <2>1. queue' \in Seq(Jobs)
    BY <1>2, AppendProperties DEF SendSubmission, TypeOK
  <2> QED BY <1>2, <2>1 DEF SendSubmission, TypeOK, Busy
<1>3. ASSUME NEW s \in Submissions, MetadataFails(s)
      PROVE  TypeOK' /\ Busy'
  BY <1>3 DEF MetadataFails, TypeOK, Busy
<1>4. ASSUME NEW c \in Calls, Subscribe(c)
      PROVE  TypeOK' /\ Busy'
  <2>1. Tip \in Nat BY DEF Tip, TypeOK
  <2> QED BY <1>4, <2>1 DEF Subscribe, TypeOK, Busy
<1>5. ASSUME NEW c \in Calls, SendCall(c)
      PROVE  TypeOK' /\ Busy'
  <2>1. queue' \in Seq(Jobs)
    BY <1>5, AppendProperties DEF SendCall, TypeOK
  <2> QED BY <1>5, <2>1 DEF SendCall, TypeOK, Busy
<1>6. ASSUME NEW c \in Calls, ReceiveResult(c)
      PROVE  TypeOK' /\ Busy'
  <2>1. pc' \in [Jobs -> {"new", "inserted", "subscribed", "sent", "ok", "error",
                         "aborted"}]
    BY <1>6 DEF ReceiveResult, TypeOK
  <2>2. next' \in [Receivers -> Nat]
    BY <1>6 DEF ReceiveResult, TypeOK
  <2> QED BY <1>6, <2>1, <2>2 DEF ReceiveResult, TypeOK, Busy
<1>7. ASSUME NEW c \in Calls, CallLags(c)
      PROVE  TypeOK' /\ Busy'
  BY <1>7 DEF CallLags, TypeOK, Busy
<1>8. ASSUME NEW w \in Workers, GetJob(w)
      PROVE  TypeOK' /\ Busy'
  <2>1. languages' \in SUBSET Languages
    BY <1>8, PipelineAssumption DEF GetJob, TypeOK
  <2> QED BY <1>8, <2>1 DEF GetJob, TypeOK, Busy
<1>9. ASSUME NEW w \in Workers, HandOut(w)
      PROVE  TypeOK' /\ Busy'
  <2>1. Head(queue) \in Jobs /\ queue' \in Seq(Jobs)
    BY <1>9, TakeHead DEF HandOut
  <2>2. Head(queue) # NoJob
    BY <2>1, PipelineAssumption
  <2> QED BY <1>9, <2>1, <2>2 DEF HandOut, TypeOK, Busy
<1>10. ASSUME NEW w \in Workers, ResponseLost(w)
       PROVE  TypeOK' /\ Busy'
  <2>1. queue' \in Seq(Jobs)
    BY <1>10, TakeHead DEF ResponseLost
  <2> QED BY <1>10, <2>1 DEF ResponseLost, TypeOK, Busy
<1>11. ASSUME NEW w \in Workers, Disconnect(w)
       PROVE  TypeOK' /\ Busy'
  BY <1>11 DEF Disconnect, TypeOK, Busy
<1>12. ASSUME NEW w \in Workers, HandOutStale(w)
       PROVE  TypeOK' /\ Busy'
  <2>1. queue' \in Seq(Jobs)
    BY <1>12, TakeHead DEF HandOutStale
  <2> QED BY <1>12, <2>1 DEF HandOutStale, TypeOK, Busy
<1>13. ASSUME NEW w \in Workers, DropStale(w)
       PROVE  TypeOK' /\ Busy'
  BY <1>13 DEF DropStale, TypeOK, Busy
<1>14. ASSUME NEW w \in Workers, NEW body \in Bodies, SubmitJobResult(w, body)
       PROVE  TypeOK' /\ Busy'
  <2>1. job[w] \in Jobs
    BY <1>14, WorkingHolds DEF SubmitJobResult
  <2>2. bus' \in Seq([uuid : Jobs, body : Bodies])
    BY <1>14, <2>1, Broadcast DEF SubmitJobResult
  <2> QED BY <1>14, <2>1, <2>2 DEF SubmitJobResult, TypeOK, Busy
<1>15. ASSUME NEW w \in Workers, SubmitFails(w)
       PROVE  TypeOK' /\ Busy'
  BY <1>15 DEF SubmitFails, TypeOK, Busy
<1>16. ASSUME NEW w \in Workers, WorkerFails(w)
       PROVE  TypeOK' /\ Busy'
  BY <1>16 DEF WorkerFails, TypeOK, Busy
<1>17. ASSUME UpdateDatabase
       PROVE  TypeOK' /\ Busy'
  BY <1>17 DEF UpdateDatabase, Written, TypeOK, Busy
<1>18. ASSUME ServerDies, faults' = faults + 1
       PROVE  TypeOK' /\ Busy'
  <2>1. bus' \in Seq([uuid : Jobs, body : Bodies]) /\ queue' \in Seq(Jobs)
    BY <1>18 DEF ServerDies
  <2>2. pc' \in [Jobs -> {"new", "inserted", "subscribed", "sent", "ok", "error",
                         "aborted"}]
    <3>1. \A j \in Jobs : pc[j] \in {"new", "inserted", "subscribed", "sent", "ok",
                                    "error", "aborted"}
      BY DEF TypeOK
    <3> QED BY <1>18, <3>1, SMT DEF ServerDies
  <2>3. next' \in [Receivers -> Nat]
    BY <1>18 DEF ServerDies
  <2>4. phase' \in [Workers -> {"idle", "polling", "working"}]
    BY <1>18 DEF ServerDies, TypeOK
  <2>5. Busy'
    BY <1>18 DEF ServerDies, Busy
  <2>6. /\ up' \in BOOLEAN /\ languages' \in SUBSET Languages
        /\ stale' \in SUBSET Workers
        /\ row' = row /\ job' = job /\ answer' = answer
    BY <1>18 DEF ServerDies
  <2>7. faults' \in Nat
    BY <1>18 DEF TypeOK
  <2> HIDE DEF Calls, Judgements, Jobs, Receivers
  <2> QED BY <2>1, <2>2, <2>3, <2>4, <2>5, <2>6, <2>7 DEF TypeOK
<1>19. ASSUME ServerStart
       PROVE  TypeOK' /\ Busy'
  <2>1. Tip \in Nat BY DEF Tip, TypeOK
  <2> QED BY <1>19, <2>1 DEF ServerStart, TypeOK, Busy
<1>20. CASE UNCHANGED vars
  BY <1>20 DEF vars, TypeOK, Busy
<1> QED
  BY <1>1, <1>2, <1>3, <1>4, <1>5, <1>6, <1>7, <1>8, <1>9, <1>10, <1>11, <1>12,
     <1>13, <1>14, <1>15, <1>16, <1>17, <1>18, <1>19, <1>20
  DEF Next, Server, Worker, Request, Fault, Network, ServerCrash,
      UpdateDatabaseLags

\* Types, and that a worker of alvokanto holds a job exactly while it judges: the
\* form of the type invariant that is inductive.
THEOREM TypeAndBusy == Spec => [](TypeOK /\ Busy)
<1>1. Init => TypeOK /\ Busy
  BY TypeInit DEF Init, Busy
<1>2. (TypeOK /\ Busy) /\ [Next]_vars => (TypeOK /\ Busy)'
  BY TypeStep
<1> QED BY <1>1, <1>2, PTL DEF Spec

\* Type correctness: every behaviour of the pipeline keeps its variables in
\* their types.
THEOREM TypeCorrect == Spec => []TypeOK
BY TypeAndBusy, PTL

(***************************************************************************)
(* A job is in one place.                                                  *)
(***************************************************************************)

\* Steps that put no job anywhere: the queue and the workers lose jobs at most,
\* and no job is unsent or answered by them.
LEMMA NothingPlaced ==
  ASSUME TypeOK, AtMostOnce, AnsweredWasSent,
         \A j \in Jobs : Queued(j)' => Queued(j),
         \A i, k \in DOMAIN queue' : queue'[i] = queue'[k] => i = k,
         \A w \in Workers : job'[w] = job[w] \/ job'[w] = NoJob,
         answer' = answer,
         \A j \in Jobs : Sent(j) => Sent(j)'
  PROVE  AtMostOnce' /\ AnsweredWasSent'
<1>1. \A j \in Jobs : Held(j)' => Held(j)
  BY PipelineAssumption DEF Held
<1>2. \A j \in Jobs : Answered(j)' <=> Answered(j)
  BY DEF Answered
<1>3. \A w, v \in Workers : job'[w] = job'[v] /\ job'[w] # NoJob => w = v
  BY DEF AtMostOnce
<1>4. \A j \in Jobs : ~(Queued(j)' /\ Held(j)')
  BY <1>1 DEF AtMostOnce
<1>5. \A j \in Jobs : Queued(j)' \/ Held(j)' => Sent(j)' /\ ~Answered(j)'
  BY <1>1, <1>2 DEF AtMostOnce
<1>6. AnsweredWasSent'
  BY <1>2 DEF AnsweredWasSent
<1> QED BY <1>3, <1>4, <1>5, <1>6 DEF AtMostOnce

\* A task puts its job, which nobody has, in the queue.
LEMMA JobSent ==
  ASSUME TypeOK, AtMostOnce, AnsweredWasSent, NEW j \in Jobs, ~Sent(j),
         queue' = Append(queue, j), pc' = [pc EXCEPT ![j] = "sent"],
         UNCHANGED <<job, answer>>
  PROVE  AtMostOnce' /\ AnsweredWasSent'
<1>1. ~Queued(j) /\ ~Held(j) /\ ~Answered(j)
  BY DEF AtMostOnce, AnsweredWasSent
<1>2. /\ \A i, k \in DOMAIN queue' : queue'[i] = queue'[k] => i = k
      /\ \A h : Queued(h)' <=> Queued(h) \/ h = j
  BY <1>1, AppendQueued
<1>3. \A h \in Jobs : (Held(h)' <=> Held(h)) /\ (Answered(h)' <=> Answered(h))
  BY DEF Held, Answered
<1>4. \A h \in Jobs : Sent(h)' <=> Sent(h) \/ h = j
  BY DEF Sent, TypeOK
<1>5. \A w, v \in Workers : job'[w] = job'[v] /\ job'[w] # NoJob => w = v
  BY DEF AtMostOnce
<1>6. \A h \in Jobs : ~(Queued(h)' /\ Held(h)')
  BY <1>1, <1>2, <1>3 DEF AtMostOnce
<1>7. \A h \in Jobs : Queued(h)' \/ Held(h)' => Sent(h)' /\ ~Answered(h)'
  BY <1>1, <1>2, <1>3, <1>4 DEF AtMostOnce
<1>8. AnsweredWasSent'
  BY <1>3, <1>4 DEF AnsweredWasSent
<1> QED BY <1>2, <1>5, <1>6, <1>7, <1>8 DEF AtMostOnce

\* A worker gets the job at the head of the queue.
LEMMA JobTaken ==
  ASSUME TypeOK, Busy, AtMostOnce, AnsweredWasSent, NEW w \in Workers, HandOut(w)
  PROVE  AtMostOnce' /\ AnsweredWasSent'
<1>1. /\ queue # <<>> /\ queue' = Tail(queue)
      /\ job' = [job EXCEPT ![w] = Head(queue)]
      /\ pc' = pc /\ answer' = answer /\ phase[w] = "polling"
  BY DEF HandOut
<1>2. PICK h \in Jobs : h = Head(queue)
  BY <1>1, TakeHead
<1>3. /\ \A i, k \in DOMAIN queue' : queue'[i] = queue'[k] => i = k
      /\ \A i \in DOMAIN queue' : queue'[i] # h
      /\ Queued(h)
      /\ \A j : Queued(j) <=> Queued(j)' \/ j = h
  BY <1>1, <1>2, TakeHeadQueued
<1>4. ~Queued(h)'
  BY <1>3 DEF Queued
<1>5. ~Held(h)
  BY <1>2, <1>3 DEF AtMostOnce
<1>6. job[w] = NoJob
  BY <1>1 DEF Busy
<1>7. \A v \in Workers : job'[v] = IF v = w THEN h ELSE job[v]
  BY <1>1, <1>2 DEF TypeOK
<1>8. \A j \in Jobs : Held(j)' <=> Held(j) \/ j = h
  BY <1>2, <1>6, <1>7, PipelineAssumption DEF Held
<1>9. \A j \in Jobs : (Sent(j)' <=> Sent(j)) /\ (Answered(j)' <=> Answered(j))
  BY <1>1 DEF Sent, Answered
<1>10. \A u, v \in Workers : job'[u] = job'[v] /\ job'[u] # NoJob => u = v
  <2>1. \A v \in Workers : job[v] # h
    BY <1>5 DEF Held
  <2> QED BY <1>7, <2>1 DEF AtMostOnce
<1>11. \A j \in Jobs : ~(Queued(j)' /\ Held(j)')
  BY <1>3, <1>4, <1>8 DEF AtMostOnce
<1>12. \A j \in Jobs : Queued(j)' \/ Held(j)' => Sent(j)' /\ ~Answered(j)'
  BY <1>3, <1>8, <1>9 DEF AtMostOnce
<1>13. AnsweredWasSent'
  BY <1>9 DEF AnsweredWasSent
<1> QED BY <1>3, <1>10, <1>11, <1>12, <1>13 DEF AtMostOnce

\* A worker submits the result of its job and no longer holds it.
LEMMA JobAnswered ==
  ASSUME TypeOK, Busy, AtMostOnce, AnsweredWasSent, NEW w \in Workers,
         NEW body \in Bodies, SubmitJobResult(w, body)
  PROVE  AtMostOnce' /\ AnsweredWasSent'
<1> DEFINE h == job[w]
<1>1. /\ queue' = queue /\ pc' = pc
      /\ job' = [job EXCEPT ![w] = NoJob]
      /\ answer' = [answer EXCEPT ![h] = body]
  BY DEF SubmitJobResult
<1>2. h \in Jobs
  BY WorkingHolds DEF SubmitJobResult
<1>3. Held(h) /\ Sent(h) /\ ~Queued(h)
  BY <1>2 DEF Held, AtMostOnce
<1> HIDE DEF h
<1>4. \A v \in Workers : job'[v] = IF v = w THEN NoJob ELSE job[v]
  BY <1>1 DEF TypeOK
<1>5. \A j \in Jobs : Held(j)' => Held(j) /\ j # h
  <2>1. \A v \in Workers : job[v] = h => v = w
    BY <1>2, PipelineAssumption DEF AtMostOnce, h
  <2> QED BY <1>4, <2>1, PipelineAssumption DEF Held
<1>6. \A j \in Jobs : Answered(j)' => Answered(j) \/ j = h
  BY <1>1, <1>2 DEF Answered, TypeOK
<1>7. \A j \in Jobs : (Sent(j)' <=> Sent(j)) /\ (Queued(j)' <=> Queued(j))
  BY <1>1 DEF Sent, Queued
<1>8. /\ \A i, k \in DOMAIN queue' : queue'[i] = queue'[k] => i = k
      /\ \A u, v \in Workers : job'[u] = job'[v] /\ job'[u] # NoJob => u = v
  BY <1>1, <1>4 DEF AtMostOnce
<1>9. \A j \in Jobs : ~(Queued(j)' /\ Held(j)')
  BY <1>5, <1>7 DEF AtMostOnce
<1>10. \A j \in Jobs : Queued(j)' \/ Held(j)' => Sent(j)' /\ ~Answered(j)'
  BY <1>3, <1>5, <1>6, <1>7 DEF AtMostOnce
<1>11. AnsweredWasSent'
  BY <1>3, <1>6, <1>7 DEF AnsweredWasSent
<1> QED BY <1>8, <1>9, <1>10, <1>11 DEF AtMostOnce

\* One case per action: every step keeps each job in one place and answers only
\* jobs that were sent.
LEMMA PlacesStep ==
  ASSUME TypeOK, Busy, AtMostOnce, AnsweredWasSent, [Next]_vars
  PROVE  AtMostOnce' /\ AnsweredWasSent'
<1> DEFINE Placed == AtMostOnce' /\ AnsweredWasSent'
<1> USE DEF Calls, Judgements, Jobs
<1>1. ASSUME UNCHANGED <<queue, job, answer>>, \A j \in Jobs : Sent(j) => Sent(j)'
      PROVE  Placed
  <2>1. \A j \in Jobs : Queued(j)' => Queued(j)
    BY <1>1 DEF Queued
  <2>2. \A i, k \in DOMAIN queue' : queue'[i] = queue'[k] => i = k
    BY <1>1 DEF AtMostOnce
  <2> QED BY <1>1, <2>1, <2>2, NothingPlaced
<1>2. ASSUME queue # <<>>, queue' = Tail(queue), UNCHANGED <<job, pc, answer>>
      PROVE  Placed
  <2>1. /\ \A j \in Jobs : Queued(j)' => Queued(j)
        /\ \A i, k \in DOMAIN queue' : queue'[i] = queue'[k] => i = k
    BY <1>2, TakeHeadQueued
  <2>2. \A j \in Jobs : Sent(j) => Sent(j)'
    BY <1>2 DEF Sent
  <2> QED BY <1>2, <2>1, <2>2, NothingPlaced
<1>3. ASSUME NEW w \in Workers, job' = [job EXCEPT ![w] = NoJob],
             UNCHANGED <<queue, pc, answer>>
      PROVE  Placed
  <2>1. \A v \in Workers : job'[v] = job[v] \/ job'[v] = NoJob
    BY <1>3 DEF TypeOK
  <2>2. \A j \in Jobs : (Queued(j)' => Queued(j)) /\ (Sent(j) => Sent(j)')
    BY <1>3 DEF Queued, Sent
  <2>3. \A i, k \in DOMAIN queue' : queue'[i] = queue'[k] => i = k
    BY <1>3 DEF AtMostOnce
  <2> QED BY <1>3, <2>1, <2>2, <2>3, NothingPlaced
<1>4. ASSUME NEW s \in Submissions, InsertSubmission(s) PROVE Placed
  BY <1>1, <1>4 DEF InsertSubmission, Sent, TypeOK
<1>5. ASSUME NEW s \in Submissions, SendSubmission(s) PROVE Placed
  BY <1>5, JobSent DEF SendSubmission, Sent
<1>6. ASSUME NEW s \in Submissions, MetadataFails(s) PROVE Placed
  BY <1>1, <1>6 DEF MetadataFails, Sent, TypeOK
<1>7. ASSUME NEW c \in Calls, Subscribe(c) PROVE Placed
  BY <1>1, <1>7 DEF Subscribe, Sent, TypeOK
<1>8. ASSUME NEW c \in Calls, SendCall(c) PROVE Placed
  BY <1>8, JobSent DEF SendCall, Sent
<1>9. ASSUME NEW c \in Calls, ReceiveResult(c) PROVE Placed
  <2>1. \A j \in Jobs : Sent(j) => Sent(j)'
    BY <1>9 DEF ReceiveResult, Sent, TypeOK
  <2> QED BY <1>1, <1>9, <2>1 DEF ReceiveResult
<1>10. ASSUME NEW c \in Calls, CallLags(c) PROVE Placed
  BY <1>1, <1>10 DEF CallLags, Sent, TypeOK
<1>11. ASSUME NEW w \in Workers, GetJob(w) \/ Disconnect(w) \/ DropStale(w)
       PROVE  Placed
  BY <1>1, <1>11 DEF GetJob, Disconnect, DropStale, Sent
<1>12. ASSUME NEW w \in Workers, HandOut(w) PROVE Placed
  BY <1>12, JobTaken
<1>13. ASSUME NEW w \in Workers, ResponseLost(w) \/ HandOutStale(w)
       PROVE  Placed
  BY <1>2, <1>13 DEF ResponseLost, HandOutStale
<1>14. ASSUME NEW w \in Workers, NEW body \in Bodies, SubmitJobResult(w, body)
       PROVE  Placed
  BY <1>14, JobAnswered
<1>15. ASSUME NEW w \in Workers, SubmitFails(w) \/ WorkerFails(w)
       PROVE  Placed
  BY <1>3, <1>15 DEF SubmitFails, WorkerFails
<1>16. ASSUME UpdateDatabase \/ ServerStart PROVE Placed
  BY <1>1, <1>16 DEF UpdateDatabase, ServerStart, Sent
<1>17. ASSUME ServerDies PROVE Placed
  <2>1. /\ queue' = <<>> /\ job' = job /\ answer' = answer
        /\ \A j \in Jobs : pc[j] = "ok" => pc'[j] = "ok"
        /\ \A j \in Jobs : pc[j] = "error" => pc'[j] = "error"
        /\ \A j \in Jobs : pc[j] = "sent" => pc'[j] \in {"sent", "error"}
    BY <1>17 DEF ServerDies
  <2>2. \A j \in Jobs : (Queued(j)' => Queued(j)) /\ (Sent(j) => Sent(j)')
    <3>1. \A j \in Jobs : ~Queued(j)' BY <2>1 DEF Queued
    <3>2. \A j \in Jobs : Sent(j) => Sent(j)' BY <2>1 DEF Sent
    <3> QED BY <3>1, <3>2
  <2>3. \A i, k \in DOMAIN queue' : queue'[i] = queue'[k] => i = k
    BY <2>1
  <2> QED BY <2>1, <2>2, <2>3, NothingPlaced
<1>18. CASE UNCHANGED vars
  BY <1>1, <1>18 DEF vars, Sent
<1> QED
  BY <1>4, <1>5, <1>6, <1>7, <1>8, <1>9, <1>10, <1>11, <1>12, <1>13, <1>14, <1>15,
     <1>16, <1>17, <1>18
  DEF Next, Server, Worker, Request, Fault, Network, ServerCrash,
      UpdateDatabaseLags

(***************************************************************************)
(* Verdicts.                                                               *)
(***************************************************************************)

\* The steps that touch the bus, the answers or the rows.
LEMMA WhoWrites ==
  ASSUME [Next]_vars
  PROVE  /\ \/ UNCHANGED <<bus, answer>>
            \/ \E w \in Workers, body \in Bodies : SubmitJobResult(w, body)
            \/ ServerDies
         /\ \/ UNCHANGED row
            \/ \E s \in Submissions : InsertSubmission(s)
            \/ UpdateDatabase
BY DEF Next, Server, Worker, Request, Fault, Network, ServerCrash, UpdateDatabaseLags,
       InsertSubmission, SendSubmission, MetadataFails, Subscribe, SendCall,
       ReceiveResult, CallLags, GetJob, HandOut, ResponseLost, Disconnect,
       HandOutStale, DropStale, SubmitJobResult, SubmitFails, WorkerFails,
       UpdateDatabase, ServerDies, ServerStart, vars

\* An answer and a column value are never the marks of what is missing.
LEMMA NamesDiffer ==
  /\ "unanswered" \notin Bodies
  /\ \A v \in Verdicts : Column[v] \notin {"none", "WJ"}
BY PipelineAssumption DEF Column, Bodies

\* The answer of a job never changes: it had none when its worker submitted.
LEMMA AnswerStands ==
  ASSUME TypeOK, Busy, AtMostOnce, [Next]_vars, NEW j \in Jobs, Answered(j)
  PROVE  answer'[j] = answer[j]
<1>1. CASE UNCHANGED <<bus, answer>>
  BY <1>1
<1>2. ASSUME NEW w \in Workers, NEW body \in Bodies, SubmitJobResult(w, body)
      PROVE  answer'[j] = answer[j]
  <2>1. job[w] \in Jobs
    BY <1>2, WorkingHolds DEF SubmitJobResult
  <2>2. job[w] # j
    BY <2>1 DEF AtMostOnce, Held
  <2> QED BY <1>2, <2>2 DEF SubmitJobResult, TypeOK
<1>3. CASE ServerDies
  BY <1>3 DEF ServerDies
<1> QED BY <1>1, <1>2, <1>3, WhoWrites

\* Every step keeps what the bus carries equal to the recorded answers.
LEMMA BusStep ==
  ASSUME TypeOK, Busy, AtMostOnce, BusCarriesAnswers, [Next]_vars
  PROVE  BusCarriesAnswers'
<1>1. CASE UNCHANGED <<bus, answer>>
  BY <1>1 DEF BusCarriesAnswers
<1>2. ASSUME NEW w \in Workers, NEW body \in Bodies, SubmitJobResult(w, body)
      PROVE  BusCarriesAnswers'
  <2>1. job[w] \in Jobs /\ bus' = Append(bus, [uuid |-> job[w], body |-> body])
    BY <1>2, WorkingHolds DEF SubmitJobResult
  <2>2. /\ Len(bus) \in Nat
        /\ DOMAIN bus = 1 .. Len(bus)
        /\ DOMAIN bus' = 1 .. Len(bus) + 1
        /\ \A i \in DOMAIN bus : bus'[i] = bus[i]
        /\ bus'[Len(bus) + 1] = [uuid |-> job[w], body |-> body]
    BY <2>1, Broadcast
  <2>3. ASSUME NEW i \in DOMAIN bus
        PROVE  answer'[bus'[i].uuid] = bus'[i].body
    <3>1. bus[i] \in [uuid : Jobs, body : Bodies]
      BY <2>2, ElementOfSeq DEF TypeOK
    <3>2. Answered(bus[i].uuid)
      BY <3>1, NamesDiffer DEF BusCarriesAnswers, Answered
    <3> QED BY <2>2, <3>1, <3>2, AnswerStands DEF BusCarriesAnswers
  <2>4. answer'[job[w]] = body
    BY <1>2, <2>1 DEF SubmitJobResult, TypeOK
  <2>5. \A i \in DOMAIN bus' : i \in DOMAIN bus \/ i = Len(bus) + 1
    BY <2>2
  <2> QED BY <2>2, <2>3, <2>4, <2>5 DEF BusCarriesAnswers
<1>3. CASE ServerDies
  <2>1. DOMAIN bus' = {}
    BY <1>3 DEF ServerDies
  <2> QED BY <2>1 DEF BusCarriesAnswers
<1> QED BY <1>1, <1>2, <1>3, WhoWrites

\* What update_database reads is the answer to the job the result names.
LEMMA DatabaseReadsAnswer ==
  ASSUME TypeOK, BusCarriesAnswers, UpdateDatabase
  PROVE  /\ bus[next[Db]].uuid \in Jobs
         /\ bus[next[Db]].body \in Bodies
         /\ bus[next[Db]].body = answer[bus[next[Db]].uuid]
<1>1. Db \in Receivers BY DEF Receivers
<1>2. next[Db] \in DOMAIN bus /\ bus[next[Db]] \in [uuid : Jobs, body : Bodies]
  BY <1>1, ReadsTheBus DEF UpdateDatabase
<1> QED BY <1>2 DEF BusCarriesAnswers

\* Every step keeps the verdicts in the rows those of their own submissions.
LEMMA VerdictStep ==
  ASSUME TypeOK, Busy, AtMostOnce, BusCarriesAnswers, RowsFollowTasks,
         VerdictIsItsOwn, [Next]_vars
  PROVE  /\ VerdictIsItsOwn'
         /\ \A s \in Submissions :
              row[s] \notin {"none", "WJ"} => row'[s] = row[s]
<1>0. \A s \in Submissions : s \in Jobs BY DEF Jobs
<1>1. \A s \in Submissions :
        row[s] \notin {"none", "WJ"} => answer'[s] = answer[s]
  <2> SUFFICES ASSUME NEW s \in Submissions, row[s] \notin {"none", "WJ"}
               PROVE  answer'[s] = answer[s]
    OBVIOUS
  <2>1. Answered(s)
    BY NamesDiffer DEF VerdictIsItsOwn, Answered, Bodies
  <2> QED BY <1>0, <2>1, AnswerStands
<1>2. CASE UNCHANGED row
  BY <1>1, <1>2 DEF VerdictIsItsOwn
<1>3. ASSUME NEW s \in Submissions, InsertSubmission(s)
      PROVE  /\ VerdictIsItsOwn'
             /\ \A t \in Submissions :
                  row[t] \notin {"none", "WJ"} => row'[t] = row[t]
  <2>1. \A t \in Submissions : row'[t] = IF t = s THEN "WJ" ELSE row[t]
    BY <1>3 DEF InsertSubmission, TypeOK
  <2>2. row[s] = "none"
    BY <1>3 DEF InsertSubmission, RowsFollowTasks
  <2> QED BY <1>1, <2>1, <2>2 DEF VerdictIsItsOwn
<1>4. CASE UpdateDatabase
  <2> DEFINE result == bus[next[Db]]
  <2>1. result.uuid \in Jobs /\ result.body = answer[result.uuid]
    BY <1>4, DatabaseReadsAnswer
  <2>2. answer' = answer /\ row' = Written(result)
    BY <1>4 DEF UpdateDatabase
  <2> HIDE DEF result
  <2>3. \A s \in Submissions :
          \/ row'[s] = row[s]
          \/ /\ row[s] # "none" /\ answer[s] \in Verdicts
             /\ row'[s] = Column[answer[s]]
    BY <2>1, <2>2 DEF Written
  <2> QED BY <2>2, <2>3 DEF VerdictIsItsOwn
<1> QED BY <1>2, <1>3, <1>4, WhoWrites

\* A row exists once its handler has inserted it.
LEMMA RowsStep ==
  ASSUME TypeOK, Busy, BusCarriesAnswers, RowsFollowTasks, [Next]_vars
  PROVE  RowsFollowTasks'
<1>1. ASSUME \A s \in Submissions : (row'[s] = "none" <=> row[s] = "none")
                                  /\ (pc'[s] = "new" <=> pc[s] = "new")
      PROVE  RowsFollowTasks'
  BY <1>1 DEF RowsFollowTasks
<1> USE DEF Calls, Jobs
<1>2. ASSUME NEW s \in Submissions, InsertSubmission(s) PROVE RowsFollowTasks'
  BY <1>2 DEF InsertSubmission, RowsFollowTasks, TypeOK
<1>3. ASSUME NEW s \in Submissions, SendSubmission(s) \/ MetadataFails(s)
      PROVE  RowsFollowTasks'
  BY <1>1, <1>3 DEF SendSubmission, MetadataFails, TypeOK
<1>4. ASSUME NEW c \in Calls,
             Subscribe(c) \/ SendCall(c) \/ ReceiveResult(c) \/ CallLags(c)
      PROVE  RowsFollowTasks'
  <2>1. \A s \in Submissions : pc'[s] = pc[s]
    BY <1>4, PipelineAssumption
    DEF Subscribe, SendCall, ReceiveResult, CallLags, TypeOK
  <2>2. row' = row
    BY <1>4 DEF Subscribe, SendCall, ReceiveResult, CallLags
  <2> QED BY <1>1, <2>1, <2>2
<1>5. CASE UpdateDatabase
  <2>1. row' = Written(bus[next[Db]]) /\ pc' = pc
    BY <1>5 DEF UpdateDatabase
  <2>2. \A s \in Submissions : row'[s] = "none" <=> row[s] = "none"
    BY <2>1, NamesDiffer DEF Written
  <2> QED BY <1>1, <2>1, <2>2
<1>6. CASE ServerDies
  <2>1. row' = row /\ \A j \in Jobs : pc'[j] = "new" <=> pc[j] = "new"
    BY <1>6 DEF ServerDies
  <2> QED BY <1>1, <2>1
<1>7. CASE UNCHANGED <<row, pc>>
  BY <1>1, <1>7
<1> QED
  BY <1>2, <1>3, <1>4, <1>5, <1>6, <1>7
  DEF Next, Server, Worker, Request, Fault, Network, ServerCrash, UpdateDatabaseLags,
      GetJob, HandOut, ResponseLost, Disconnect, HandOutStale, DropStale,
      SubmitJobResult, SubmitFails, WorkerFails, ServerStart, vars

\* The initial state satisfies the inductive invariant.
LEMMA InvInit == Init => IInv
<1> SUFFICES ASSUME Init PROVE IInv
  OBVIOUS
<1>1. TypeOK
  BY TypeInit
<1>2. DOMAIN queue = {} /\ DOMAIN bus = {}
  BY DEF Init
<1>3. \A j \in Jobs : ~Queued(j) /\ ~Held(j) /\ ~Answered(j)
  BY <1>2, PipelineAssumption DEF Init, Queued, Held, Answered
<1>4. AtMostOnce /\ AnsweredWasSent
  BY <1>2, <1>3 DEF Init, AtMostOnce, AnsweredWasSent
<1>5. Busy /\ BusCarriesAnswers
  BY <1>2 DEF Init, Busy, BusCarriesAnswers
<1>6. RowsFollowTasks /\ VerdictIsItsOwn
  BY DEF Init, RowsFollowTasks, VerdictIsItsOwn, Jobs
<1> QED BY <1>1, <1>4, <1>5, <1>6 DEF IInv

\* Every step keeps it, by the lemmas on its conjuncts.
LEMMA InvStep == IInv /\ [Next]_vars => IInv'
<1> SUFFICES ASSUME IInv, [Next]_vars PROVE IInv'
  OBVIOUS
<1>1. TypeOK' /\ Busy'                  BY TypeStep DEF IInv
<1>2. AtMostOnce' /\ AnsweredWasSent'   BY PlacesStep DEF IInv
<1>3. BusCarriesAnswers'                BY BusStep DEF IInv
<1>4. RowsFollowTasks'                  BY RowsStep DEF IInv
<1>5. VerdictIsItsOwn'                  BY VerdictStep DEF IInv
<1> QED BY <1>1, <1>2, <1>3, <1>4, <1>5 DEF IInv

\* The inductive invariant of the pipeline: types, one place for each job, answers
\* only to jobs that were sent, and rows that hold only answers.
THEOREM Invariant == Spec => []IInv
BY InvInit, InvStep, PTL DEF Spec

\* No job is ever in two places: the channel, the handlers of get_job and the
\* workers only pass it on, through any crash, restart or lost connection.
THEOREM JobsInOnePlace == Spec => []AtMostOnce
<1>1. IInv => AtMostOnce BY DEF IInv
<1> QED BY <1>1, Invariant, PTL

\* update_database writes into a row only the verdict a worker gave to that
\* submission.
THEOREM VerdictsAreTheirOwn == Spec => []VerdictIsItsOwn
<1>1. IInv => VerdictIsItsOwn BY DEF IInv
<1> QED BY <1>1, Invariant, PTL

\* A written verdict is final, although complete_submission overwrites the row
\* unconditionally.
THEOREM VerdictsAreFinal == Spec => VerdictFinal
<1>1. IInv /\ [Next]_vars =>
        [\A s \in Submissions :
           row[s] \notin {"none", "WJ"} => row'[s] = row[s]]_vars
  BY VerdictStep DEF IInv
<1> QED BY <1>1, Invariant, PTL DEF Spec, VerdictFinal

(***************************************************************************)
(* Nothing is lost without a failure.                                      *)
(***************************************************************************)

\* Until something fails the server runs, no handler is stale, and update_database
\* is at most one past the last result.
NothingFailed ==
  faults = 0 => up /\ stale = {} /\ next[Db] \in 1 .. Len(bus) + 1

\* Where a submission that waits may be.
OnItsWay(s) ==
  \/ pc[s] = "inserted" \/ Queued(s) \/ Held(s)
  \/ answer[s] \in {"RunCached", "Nothing"}
  \/ \E i \in next[Db] .. Len(bus) : bus[i].uuid = s

\* Failures are counted for good.
LEMMA FaultsStay ==
  ASSUME TypeOK, [Next]_vars, faults' = 0
  PROVE  faults = 0
<1>1. faults \in Nat BY DEF TypeOK
<1>2. faults' = faults \/ faults' = faults + 1
  BY DEF Next, Server, Worker, Request, Fault, Network, ServerCrash,
         UpdateDatabaseLags, InsertSubmission, SendSubmission, MetadataFails, Subscribe,
         SendCall, ReceiveResult, CallLags, GetJob, HandOut, ResponseLost, Disconnect,
         HandOutStale, DropStale, SubmitJobResult, SubmitFails, WorkerFails,
         UpdateDatabase, ServerStart, vars
<1> QED BY <1>1, <1>2

\* The steps of a pipeline in which nothing fails, by what they do to what a
\* submission that waits is accounted for by.
LEMMA WithoutFaults ==
  ASSUME TypeOK, NothingFailed, [Next]_vars, faults' = 0
  PROVE  \/ \E s \in Submissions : InsertSubmission(s) \/ SendSubmission(s)
         \/ \E c \in Calls : SendCall(c)
         \/ \E w \in Workers : HandOut(w)
         \/ \E w \in Workers, body \in Bodies : SubmitJobResult(w, body)
         \/ UpdateDatabase
         \/ /\ UNCHANGED <<bus, row, queue, job, answer, up, stale>>
            /\ next'[Db] = next[Db]
            /\ \A s \in Submissions : pc'[s] = pc[s]
<1> DEFINE Quiet == /\ UNCHANGED <<bus, row, queue, job, answer, up, stale>>
                    /\ next'[Db] = next[Db]
                    /\ \A s \in Submissions : pc'[s] = pc[s]
<1>0. faults = 0 /\ faults' # faults + 1 /\ up /\ stale = {}
  BY FaultsStay DEF NothingFailed
<1>1. ASSUME NEW c \in Calls, Subscribe(c) \/ ReceiveResult(c) \/ CallLags(c)
      PROVE  Quiet
  <2>1. c # Db /\ c \notin Submissions
    BY PipelineAssumption DEF Calls, Jobs
  <2>2. next \in [Receivers -> Nat] /\ pc \in [Jobs -> {"new", "inserted", "subscribed",
                                                       "sent", "ok", "error", "aborted"}]
    BY DEF TypeOK
  <2>3. CASE Subscribe(c) BY <2>1, <2>2, <2>3 DEF Subscribe, Receivers, Jobs
  <2>4. CASE ReceiveResult(c) BY <2>1, <2>2, <2>4 DEF ReceiveResult, Receivers, Jobs
  <2>5. CASE CallLags(c) BY <2>1, <2>2, <2>5 DEF CallLags, Receivers, Jobs
  <2> QED BY <1>1, <2>3, <2>4, <2>5
<1>2. ASSUME NEW w \in Workers, GetJob(w) PROVE Quiet
  BY <1>2 DEF GetJob
<1>3. CASE UNCHANGED vars BY <1>3 DEF vars
<1> QED
  BY <1>0, <1>1, <1>2, <1>3
  DEF Next, Server, Worker, Request, Fault, Network, ServerCrash, UpdateDatabaseLags,
      MetadataFails, ResponseLost, Disconnect, WorkerFails, HandOutStale, DropStale,
      SubmitFails, ServerStart

\* A submission that waits goes on from one place to the next, and leaves the last,
\* the bus, when its verdict is written.
LEMMA WaitingStep ==
  ASSUME IInv, NothingFailed, WaitingIsAccountedFor, [Next]_vars
  PROVE  NothingFailed' /\ WaitingIsAccountedFor'
<1> SUFFICES ASSUME faults' = 0
             PROVE  /\ up' /\ stale' = {} /\ next'[Db] \in 1 .. Len(bus') + 1
                    /\ \A s \in Submissions : row'[s] = "WJ" => OnItsWay(s)'
  BY DEF NothingFailed, WaitingIsAccountedFor, OnItsWay
<1> DEFINE Placed == /\ up' /\ stale' = {} /\ next'[Db] \in 1 .. Len(bus') + 1
                     /\ \A s \in Submissions : row'[s] = "WJ" => OnItsWay(s)'
<1>0. /\ TypeOK /\ Busy /\ AtMostOnce /\ BusCarriesAnswers /\ RowsFollowTasks
      /\ faults = 0 /\ up /\ stale = {} /\ next[Db] \in 1 .. Len(bus) + 1
      /\ Len(bus) \in Nat /\ DOMAIN bus = 1 .. Len(bus)
      /\ \A s \in Submissions : s \in Jobs
      /\ \A s \in Submissions : row[s] = "WJ" => OnItsWay(s)
      /\ Db \in Receivers
  <2>1. TypeOK BY DEF IInv
  <2> QED BY <2>1, FaultsStay
          DEF IInv, NothingFailed, WaitingIsAccountedFor, OnItsWay, TypeOK, Jobs, Receivers
<1>1. ASSUME NEW s \in Submissions, InsertSubmission(s) PROVE Placed
  <2>1. /\ UNCHANGED <<bus, next, up, queue, job, stale, answer>>
        /\ \A t \in Submissions : t # s => row'[t] = row[t] /\ pc'[t] = pc[t]
        /\ pc'[s] = "inserted"
    BY <1>0, <1>1 DEF InsertSubmission, TypeOK
  <2> QED BY <1>0, <2>1 DEF OnItsWay, Queued, Held
<1>2. ASSUME NEW j \in Jobs, ~Sent(j), queue' = Append(queue, j),
             pc' = [pc EXCEPT ![j] = "sent"],
             UNCHANGED <<bus, next, up, row, job, stale, answer>>
      PROVE  Placed
  <2>1. ~Queued(j) BY <1>0, <1>2 DEF AtMostOnce
  <2>2. \A h : Queued(h)' <=> Queued(h) \/ h = j BY <1>0, <1>2, <2>1, AppendQueued
  <2>3. \A s \in Submissions : s # j => pc'[s] = pc[s] BY <1>0, <1>2 DEF TypeOK
  <2> QED BY <1>0, <1>2, <2>2, <2>3 DEF OnItsWay, Held
<1>3. ASSUME NEW w \in Workers, HandOut(w) PROVE Placed
  <2>1. /\ UNCHANGED <<bus, next, up, row, pc, stale, answer>>
        /\ queue # <<>> /\ queue' = Tail(queue) /\ phase[w] = "polling"
        /\ job' = [job EXCEPT ![w] = Head(queue)]
    BY <1>3 DEF HandOut
  <2>2. \A j : Queued(j) <=> Queued(j)' \/ j = Head(queue)
    BY <1>0, <2>1, TakeHeadQueued
  <2>3. job[w] = NoJob BY <1>0, <2>1 DEF Busy
  <2>4. \A s \in Submissions : Held(s) => Held(s)'
    BY <1>0, <2>1, <2>3, PipelineAssumption DEF Held, TypeOK
  <2>5. \A s \in Submissions : s = Head(queue) => Held(s)'
    BY <1>0, <2>1 DEF Held, TypeOK
  <2> QED BY <1>0, <2>1, <2>2, <2>4, <2>5 DEF OnItsWay
<1>4. ASSUME NEW w \in Workers, NEW body \in Bodies, SubmitJobResult(w, body)
      PROVE  Placed
  <2>1. /\ job[w] \in Jobs /\ bus' = Append(bus, [uuid |-> job[w], body |-> body])
        /\ UNCHANGED <<next, up, row, pc, queue, stale>>
        /\ answer' = [answer EXCEPT ![job[w]] = body]
        /\ job' = [job EXCEPT ![w] = NoJob]
    BY <1>0, <1>4, WorkingHolds DEF SubmitJobResult
  <2>2. /\ Len(bus') = Len(bus) + 1
        /\ \A i \in DOMAIN bus : bus'[i] = bus[i]
        /\ bus'[Len(bus) + 1].uuid = job[w]
    BY <1>0, <2>1, Broadcast
  <2>3. Len(bus) + 1 \in next'[Db] .. Len(bus')
    BY <1>0, <2>1, <2>2
  <2>4. \A i \in next[Db] .. Len(bus) : i \in next'[Db] .. Len(bus') /\ bus'[i] = bus[i]
    BY <1>0, <2>1, <2>2
  <2>5. \A s \in Submissions : s # job[w] =>
          /\ Held(s) => Held(s)'
          /\ Queued(s) => Queued(s)'
          /\ answer'[s] = answer[s]
    BY <1>0, <2>1 DEF Held, Queued, TypeOK
  <2>6. next'[Db] \in 1 .. Len(bus') + 1 BY <1>0, <2>1, <2>2
  <2>7. ASSUME NEW s \in Submissions, row'[s] = "WJ" PROVE OnItsWay(s)'
    <3>1. CASE s = job[w] BY <2>2, <2>3, <3>1 DEF OnItsWay
    <3>2. CASE s # job[w] BY <1>0, <2>1, <2>4, <2>5, <2>7, <3>2 DEF OnItsWay
    <3> QED BY <3>1, <3>2
  <2> QED BY <1>0, <2>1, <2>6, <2>7
<1>5. CASE UpdateDatabase
  <2>1. /\ HasResult(Db) /\ row' = Written(bus[next[Db]])
        /\ next'[Db] = next[Db] + 1
        /\ UNCHANGED <<bus, up, pc, queue, job, stale, answer>>
    BY <1>0, <1>5 DEF UpdateDatabase, TypeOK
  <2>2. /\ next[Db] \in DOMAIN bus
        /\ bus[next[Db]].body \in Bodies
        /\ bus[next[Db]].body = answer[bus[next[Db]].uuid]
    BY <1>0, <2>1, <1>5, ReadsTheBus, DatabaseReadsAnswer
  <2>3. ASSUME NEW s \in Submissions, row'[s] = "WJ" PROVE OnItsWay(s)'
    <3>1. row[s] = "WJ"
      <4>1. \A v \in Verdicts : Column[v] # "WJ" BY NamesDiffer
      <4> QED BY <2>1, <2>3, <4>1 DEF Written
    <3>2. bus[next[Db]].uuid = s => answer[s] \in {"RunCached", "Nothing"}
      <4>1. \A v \in Verdicts : Column[v] # "WJ" BY NamesDiffer
      <4> QED BY <2>1, <2>2, <2>3, <3>1, <4>1 DEF Written, Bodies
    <3>3. \A i \in next[Db] .. Len(bus) : i = next[Db] \/ i \in next'[Db] .. Len(bus')
      BY <1>0, <2>1
    <3> QED BY <1>0, <2>1, <3>1, <3>2, <3>3 DEF OnItsWay, Queued, Held
  <2>4. next'[Db] \in 1 .. Len(bus') + 1 BY <1>0, <2>1, <2>2
  <2> QED BY <1>0, <2>1, <2>3, <2>4
<1>6. CASE /\ UNCHANGED <<bus, row, queue, job, answer, up, stale>>
           /\ next'[Db] = next[Db]
           /\ \A s \in Submissions : pc'[s] = pc[s]
  BY <1>0, <1>6 DEF OnItsWay, Queued, Held
<1>7. ASSUME NEW s \in Submissions, SendSubmission(s) PROVE Placed
  <2>1. s \in Jobs /\ ~Sent(s) BY <1>0, <1>7 DEF SendSubmission, Sent
  <2> QED BY <1>2, <1>7, <2>1 DEF SendSubmission
<1>8. ASSUME NEW c \in Calls, SendCall(c) PROVE Placed
  <2>1. c \in Jobs /\ ~Sent(c) BY <1>8 DEF SendCall, Sent, Jobs
  <2> QED BY <1>2, <1>8, <2>1 DEF SendCall
<1> QED BY <1>0, <1>1, <1>3, <1>4, <1>5, <1>6, <1>7, <1>8, WithoutFaults DEF NothingFailed

\* A submission that waits for judgement is on its way as long as nothing failed,
\* for any number of submissions, calls and workers.
THEOREM WaitingIsOnItsWay == Spec => []WaitingIsAccountedFor
<1>1. Init => NothingFailed /\ WaitingIsAccountedFor
  BY DEF Init, NothingFailed, WaitingIsAccountedFor, Receivers
<1>2. IInv /\ NothingFailed /\ WaitingIsAccountedFor /\ [Next]_vars
        => NothingFailed' /\ WaitingIsAccountedFor'
  BY WaitingStep
<1> QED BY <1>1, <1>2, Invariant, PTL DEF Spec

(***************************************************************************)
(* The calls of a contest import.                                          *)
(***************************************************************************)

\* A call that has not been sent has no result on the bus.
LEMMA NoOwnResultYet ==
  ASSUME IInv, NEW c \in Calls, ~Sent(c)
  PROVE  ~Answered(c) /\ \A i \in DOMAIN bus : bus[i].uuid # c
<1>1. ~Answered(c)
  BY DEF IInv, AnsweredWasSent, Jobs
<1>2. ASSUME NEW i \in DOMAIN bus PROVE Answered(bus[i].uuid)
  <2>0. bus \in Seq([uuid : Jobs, body : Bodies])
    BY DEF IInv, TypeOK
  <2>1. bus[i] \in [uuid : Jobs, body : Bodies]
    <3>1. i \in 1 .. Len(bus) BY <2>0
    <3> QED BY <2>0, <3>1, ElementOfSeq
  <2> QED BY <2>1, NamesDiffer DEF IInv, BusCarriesAnswers, Answered
<1> QED BY <1>1, <1>2

\* The steps that touch what CallInv is about.
LEMMA WhoMovesCalls ==
  ASSUME TypeOK, [Next]_vars
  PROVE  \/ /\ UNCHANGED <<bus, answer>>
            /\ \A c \in Calls : pc'[c] = pc[c] /\ next'[c] = next[c]
         \/ \E c \in Calls :
              Subscribe(c) \/ SendCall(c) \/ ReceiveResult(c) \/ CallLags(c)
         \/ \E w \in Workers, body \in Bodies : SubmitJobResult(w, body)
         \/ ServerDies
<1> DEFINE Quiet == /\ UNCHANGED <<bus, answer>>
                    /\ \A c \in Calls : pc'[c] = pc[c] /\ next'[c] = next[c]
<1>1. ASSUME UNCHANGED <<bus, answer, pc, next>> PROVE Quiet
  BY <1>1
<1>2. ASSUME NEW s \in Submissions,
             InsertSubmission(s) \/ SendSubmission(s) \/ MetadataFails(s)
      PROVE  Quiet
  BY <1>2, PipelineAssumption
  DEF InsertSubmission, SendSubmission, MetadataFails, TypeOK, Calls, Jobs
<1>3. ASSUME UpdateDatabase \/ ServerStart PROVE Quiet
  BY <1>3, PipelineAssumption
  DEF UpdateDatabase, ServerStart, TypeOK, Receivers, Jobs
<1> QED
  BY <1>1, <1>2, <1>3
  DEF Next, Server, Worker, Request, Fault, Network, ServerCrash, UpdateDatabaseLags,
      GetJob, HandOut, ResponseLost, Disconnect, HandOutStale, DropStale,
      SubmitFails, WorkerFails, vars

\* A call that waits stays ahead of nothing it needs, and what ends the wait is
\* its own result.
LEMMA CallStep ==
  ASSUME IInv, CallInv, [Next]_vars
  PROVE  CallInv'
<1> USE DEF CallInv
<1>0. /\ TypeOK /\ Busy /\ AtMostOnce /\ BusCarriesAnswers /\ AnsweredWasSent
      /\ Len(bus) \in Nat /\ DOMAIN bus = 1 .. Len(bus)
      /\ \A c \in Calls : c \in Jobs /\ c \in Receivers /\ next[c] \in Nat
  BY DEF IInv, TypeOK, Jobs, Receivers
<1>1. ASSUME UNCHANGED <<bus, answer>>,
             \A c \in Calls : pc'[c] = pc[c] /\ next'[c] = next[c]
      PROVE  CallInv'
  BY <1>1 DEF CallsKeepUp, AnswersStay, CallGetsItsOwn, Answered, Tip
<1>2. ASSUME NEW d \in Calls, Subscribe(d) PROVE CallInv'
  <2>1. /\ UNCHANGED <<bus, answer>> /\ pc[d] = "new"
        /\ \A c \in Calls : pc'[c] = IF c = d THEN "subscribed" ELSE pc[c]
        /\ \A c \in Calls : next'[c] = IF c = d THEN Tip ELSE next[c]
    BY <1>0, <1>2 DEF Subscribe, TypeOK
  <2>2. \A i \in DOMAIN bus : bus[i].uuid # d
    BY <2>1, NoOwnResultYet DEF Sent
  <2>3. Tip \in 1 .. Tip
    BY <1>0 DEF Tip
  <2> QED BY <2>1, <2>2, <2>3
          DEF CallsKeepUp, AnswersStay, CallGetsItsOwn, Answered, Tip
<1>3. ASSUME NEW d \in Calls, SendCall(d) PROVE CallInv'
  <2>1. /\ UNCHANGED <<bus, answer, next>> /\ pc[d] = "subscribed"
        /\ \A c \in Calls : pc'[c] = IF c = d THEN "sent" ELSE pc[c]
    BY <1>0, <1>3 DEF SendCall, TypeOK
  <2>2. ~Answered(d)
    BY <2>1, NoOwnResultYet DEF Sent
  <2> QED BY <2>1, <2>2
          DEF CallsKeepUp, AnswersStay, CallGetsItsOwn, Answered, Tip
<1>4. ASSUME NEW d \in Calls, ReceiveResult(d) PROVE CallInv'
  <2> DEFINE n == next[d]
             result == bus[n]
  <2>1. UNCHANGED <<bus, answer>> /\ pc[d] = "sent" /\ HasResult(d)
    BY <1>4 DEF ReceiveResult
  <2>2. n \in DOMAIN bus /\ result.body = answer[result.uuid]
    BY <1>0, <2>1, ReadsTheBus DEF BusCarriesAnswers
  <2>3. CASE result.uuid = d
    <3>1. /\ \A c \in Calls : c # d => pc'[c] = pc[c] /\ next'[c] = next[c]
          /\ pc'[d] \in {"ok", "error"}
          /\ pc'[d] = "ok" => Expects(d, result.body)
      BY <1>0, <1>4, <2>3 DEF ReceiveResult, Mine, TypeOK
    <3> HIDE DEF n, result
    <3> QED BY <2>1, <2>2, <2>3, <3>1
            DEF CallsKeepUp, AnswersStay, CallGetsItsOwn, Answered, Tip
  <2>4. CASE result.uuid # d
    <3>1. pc' = pc /\ \A c \in Calls : next'[c] = IF c = d THEN n + 1 ELSE next[c]
      BY <1>0, <1>4, <2>4 DEF ReceiveResult, Mine, TypeOK
    <3>2. \A i \in DOMAIN bus : bus[i].uuid = d => n + 1 <= i
      <4> SUFFICES ASSUME NEW i \in DOMAIN bus, bus[i].uuid = d PROVE n + 1 <= i
        OBVIOUS
      <4>1. n <= i BY <2>1 DEF CallsKeepUp
      <4>2. n # i BY <2>4
      <4> QED BY <1>0, <2>2, <4>1, <4>2
    <3>3. n + 1 \in 1 .. Tip
      BY <1>0, <2>2 DEF Tip
    <3> HIDE DEF n, result
    <3> QED BY <2>1, <3>1, <3>2, <3>3
            DEF CallsKeepUp, AnswersStay, CallGetsItsOwn, Answered, Tip
  <2> QED BY <2>3, <2>4
<1>5. ASSUME NEW d \in Calls, CallLags(d) PROVE CallInv'
  <2>1. /\ UNCHANGED <<bus, answer>> /\ pc'[d] = "error"
        /\ \A c \in Calls : c # d => pc'[c] = pc[c] /\ next'[c] = next[c]
    BY <1>0, <1>5 DEF CallLags, TypeOK
  <2> QED BY <2>1 DEF CallsKeepUp, AnswersStay, CallGetsItsOwn, Answered, Tip
<1>6. ASSUME NEW w \in Workers, NEW body \in Bodies, SubmitJobResult(w, body)
      PROVE  CallInv'
  <2>1. job[w] \in Jobs /\ pc' = pc /\ next' = next
    BY <1>0, <1>6, WorkingHolds DEF SubmitJobResult
  <2>2. /\ Len(bus') = Len(bus) + 1
        /\ DOMAIN bus' = 1 .. Len(bus) + 1
        /\ \A i \in DOMAIN bus : bus'[i] = bus[i]
        /\ bus'[Len(bus) + 1] = [uuid |-> job[w], body |-> body]
    BY <1>0, <1>6, <2>1, Broadcast DEF SubmitJobResult
  <2>3. CallsKeepUp'
    <3> SUFFICES ASSUME NEW c \in Calls, pc[c] \in {"subscribed", "sent"}
                 PROVE  /\ next[c] \in 1 .. Tip'
                        /\ \A i \in DOMAIN bus' : bus'[i].uuid = c => next[c] <= i
      BY <2>1 DEF CallsKeepUp
    <3>1. /\ next[c] \in 1 .. Len(bus) + 1
          /\ \A i \in DOMAIN bus : bus[i].uuid = c => next[c] <= i
      BY DEF CallsKeepUp, Tip
    <3>2. \A i \in DOMAIN bus' : i \in DOMAIN bus \/ i = Len(bus) + 1
      BY <1>0, <2>2
    <3> QED BY <1>0, <2>2, <3>1, <3>2 DEF Tip
  <2>4. AnswersStay'
    <3> SUFFICES ASSUME NEW c \in Calls, pc[c] = "sent", Answered(c)'
                 PROVE  \E i \in DOMAIN bus' : bus'[i].uuid = c
      BY <2>1 DEF AnswersStay
    <3>1. CASE c = job[w]
      BY <1>0, <2>2, <3>1
    <3>2. CASE c # job[w]
      <4>1. Answered(c)
        BY <1>0, <1>6, <3>2 DEF SubmitJobResult, Answered, TypeOK
      <4>2. PICK i \in DOMAIN bus : bus[i].uuid = c
        BY <4>1 DEF AnswersStay
      <4>3. i \in DOMAIN bus'
        BY <1>0, <2>2
      <4> QED BY <2>2, <4>2, <4>3
    <3> QED BY <3>1, <3>2
  <2>5. CallGetsItsOwn'
    <3> SUFFICES ASSUME NEW c \in Calls, pc[c] = "ok"
                 PROVE  Expects(c, answer'[c])
      BY <2>1 DEF CallGetsItsOwn, Expects
    <3>1. Expects(c, answer[c])
      BY DEF CallGetsItsOwn
    <3>2. Answered(c)
      BY <3>1, NamesDiffer DEF Expects, Answered, Bodies
    <3> QED BY <1>0, <3>1, <3>2, AnswerStands
  <2> QED BY <2>3, <2>4, <2>5
<1>7. ASSUME ServerDies PROVE CallInv'
  <2>1. /\ answer' = answer
        /\ \A c \in Jobs : pc'[c] = "ok" => pc[c] = "ok"
        /\ \A c \in Jobs : pc'[c] # "subscribed"
    BY <1>7 DEF ServerDies
  <2>2. \A c \in Calls : pc'[c] # "sent"
    BY <1>0, <1>7 DEF ServerDies
  <2> QED BY <1>0, <2>1, <2>2 DEF CallsKeepUp, AnswersStay, CallGetsItsOwn
<1> QED
  BY <1>0, <1>1, <1>2, <1>3, <1>4, <1>5, <1>6, <1>7, WhoMovesCalls

\* The inductive invariant of the calls of run_cached and judge: the position of a
\* waiting call on the bus is never after its own result.
THEOREM CallInvariant == Spec => []CallInv
<1>1. Init => CallInv
  BY DEF Init, CallInv, CallsKeepUp, AnswersStay, CallGetsItsOwn, Jobs
<1>2. IInv /\ CallInv /\ [Next]_vars => CallInv'
  BY CallStep
<1> QED BY <1>1, <1>2, Invariant, PTL DEF Spec

\* The result a waiting import needs is never behind its position on the bus:
\* it subscribed before it sent its job, and it gives up when it lags.
THEOREM ResultsAreAhead == Spec => []ResultStillAhead
<1>1. IInv /\ CallInv => ResultStillAhead
  <2> SUFFICES ASSUME IInv, CallInv, NEW c \in Calls, pc[c] = "sent", Answered(c)
               PROVE  \E i \in next[c] .. Len(bus) : bus[i].uuid = c
    BY DEF ResultStillAhead
  <2>1. PICK i \in DOMAIN bus : bus[i].uuid = c
    BY DEF CallInv, AnswersStay
  <2>2. next[c] <= i /\ next[c] \in Nat /\ DOMAIN bus = 1 .. Len(bus)
        /\ Len(bus) \in Nat
    BY <2>1 DEF IInv, TypeOK, CallInv, CallsKeepUp, Receivers
  <2> QED BY <2>1, <2>2
<1> QED BY <1>1, Invariant, CallInvariant, PTL

\* An import that goes on has the result of its own job.
THEOREM CallsGetTheirOwn == Spec => []CallGetsItsOwn
<1>1. CallInv => CallGetsItsOwn BY DEF CallInv
<1> QED BY <1>1, CallInvariant, PTL

(***************************************************************************)
(* The pipeline implements the service of JobService.                      *)
(***************************************************************************)

\* The stage of a job, case by case.
LEMMA StageOf ==
  ASSUME NEW j \in Jobs
  PROVE  /\ ~Sent(j) => Stage[j] = "unsent"
         /\ Sent(j) /\ Answered(j) => Stage[j] = "answered"
         /\ Sent(j) /\ ~Answered(j) /\ Queued(j) => Stage[j] = "queued"
         /\ Sent(j) /\ ~Answered(j) /\ ~Queued(j) /\ Held(j) => Stage[j] = "taken"
         /\ Sent(j) /\ ~Answered(j) /\ ~Queued(j) /\ ~Held(j) => Stage[j] = "lost"
BY DEF Stage

\* The same in the next state.
LEMMA StageOfPrimed ==
  ASSUME NEW j \in Jobs
  PROVE  /\ ~Sent(j)' => Stage'[j] = "unsent"
         /\ Sent(j)' /\ Answered(j)' => Stage'[j] = "answered"
         /\ Sent(j)' /\ ~Answered(j)' /\ Queued(j)' => Stage'[j] = "queued"
         /\ Sent(j)' /\ ~Answered(j)' /\ ~Queued(j)' /\ Held(j)'
              => Stage'[j] = "taken"
         /\ Sent(j)' /\ ~Answered(j)' /\ ~Queued(j)' /\ ~Held(j)'
              => Stage'[j] = "lost"
BY DEF Stage

\* The stages are the same when no job changes what its stage is made of.
LEMMA StageStays ==
  ASSUME \A j \in Jobs : /\ Sent(j)' <=> Sent(j)
                         /\ Queued(j)' <=> Queued(j)
                         /\ Held(j)' <=> Held(j)
                         /\ Answered(j)' <=> Answered(j)
  PROVE  Stage' = Stage
<1>1. \A j \in Jobs : Stage'[j] = Stage[j]
  BY StageOf, StageOfPrimed
<1>2. /\ Stage = [j \in Jobs |-> Stage[j]]
      /\ Stage' = [j \in Jobs |-> Stage'[j]]
  BY DEF Stage
<1> QED BY <1>1, <1>2

\* The stage of one job changes.
LEMMA StageMoves ==
  ASSUME NEW j \in Jobs, NEW next_stage, Stage'[j] = next_stage,
         \A h \in Jobs : h # j => /\ Sent(h)' <=> Sent(h)
                                  /\ Queued(h)' <=> Queued(h)
                                  /\ Held(h)' <=> Held(h)
                                  /\ Answered(h)' <=> Answered(h)
  PROVE  Stage' = [Stage EXCEPT ![j] = next_stage]
<1>1. \A h \in Jobs : h # j => Stage'[h] = Stage[h]
  BY StageOf, StageOfPrimed
<1>2. /\ Stage = [h \in Jobs |-> Stage[h]]
      /\ Stage' = [h \in Jobs |-> Stage'[h]]
  BY DEF Stage
<1>3. [Stage EXCEPT ![j] = next_stage] =
        [h \in Jobs |-> IF h = j THEN next_stage ELSE Stage[h]]
  BY <1>2
<1> QED BY <1>1, <1>2, <1>3

\* Losing jobs, none included.
LEMMA LoseStep ==
  ASSUME IInv, UNCHANGED <<answer, row>>,
         \A j \in Jobs : /\ Sent(j)' <=> Sent(j)
                         /\ Queued(j)' => Queued(j)
                         /\ Held(j)' => Held(j)
  PROVE  Service!Next
<1> DEFINE J == {j \in Jobs : /\ Queued(j) \/ Held(j)
                              /\ ~Queued(j)' /\ ~Held(j)'}
<1>1. \A j \in Jobs : /\ Queued(j) \/ Held(j) => Sent(j) /\ ~Answered(j)
                      /\ ~(Queued(j) /\ Held(j))
                      /\ Answered(j)' <=> Answered(j)
  BY DEF IInv, AtMostOnce, Answered
<1>2. \A j \in J : j \in Jobs /\ Stage[j] \in {"queued", "taken"}
  BY <1>1, StageOf
<1>3. \A j \in Jobs : Stage'[j] = IF j \in J THEN "lost" ELSE Stage[j]
  <2> SUFFICES ASSUME NEW j \in Jobs
               PROVE  Stage'[j] = IF j \in J THEN "lost" ELSE Stage[j]
    OBVIOUS
  <2>1. CASE j \in J
    BY <1>1, <2>1, StageOfPrimed
  <2>2. CASE j \notin J
    <3>1. (Queued(j)' <=> Queued(j)) /\ (Held(j)' <=> Held(j))
      BY <1>1, <2>2
    <3> QED BY <1>1, <2>2, <3>1, StageOf, StageOfPrimed
  <2> QED BY <2>1, <2>2
<1>4. Stage' = [j \in Jobs |-> IF j \in J THEN "lost" ELSE Stage[j]]
  <2>1. Stage' = [j \in Jobs |-> Stage'[j]] BY DEF Stage
  <2> QED BY <1>3, <2>1
<1>5. J \in SUBSET Jobs OBVIOUS
<1> HIDE DEF J
<1> QED BY <1>2, <1>4, <1>5 DEF Service!Next, Service!Lose

\* Every step of the pipeline is a step of the service or leaves its state
\* alone.
LEMMA ServiceStep ==
  ASSUME IInv, [Next]_vars
  PROVE  [Service!Next]_(Service!svars)
<1> USE DEF Service!Next, Service!svars
<1>0. /\ TypeOK /\ Busy /\ AtMostOnce /\ AnsweredWasSent
      /\ \A s \in Submissions : s \in Jobs
      /\ \A c \in Calls : c \in Jobs /\ c \notin Submissions
  BY PipelineAssumption DEF IInv, Jobs, Calls
<1>1. ASSUME UNCHANGED <<queue, job, answer, row>>,
             \A j \in Jobs : Sent(j)' <=> Sent(j)
      PROVE  UNCHANGED Service!svars
  BY <1>1, StageStays DEF Queued, Held, Answered
<1>2. ASSUME UNCHANGED <<pc, answer, row>>,
             \A j \in Jobs : (Queued(j)' => Queued(j)) /\ (Held(j)' => Held(j))
      PROVE  Service!Next
  BY <1>2, LoseStep DEF IInv, Sent
<1>3. ASSUME NEW j \in Jobs, ~Sent(j), j \in Submissions => row[j] = "WJ",
             queue' = Append(queue, j), pc' = [pc EXCEPT ![j] = "sent"],
             UNCHANGED <<job, answer, row>>
      PROVE  Service!Next
  <2>1. ~Queued(j) /\ ~Held(j) /\ ~Answered(j)
    BY <1>0, <1>3 DEF AtMostOnce, AnsweredWasSent
  <2>2. \A h : Queued(h)' <=> Queued(h) \/ h = j
    BY <1>0, <1>3, <2>1, AppendQueued
  <2>3. \A h \in Jobs : /\ Held(h)' <=> Held(h)
                        /\ Answered(h)' <=> Answered(h)
                        /\ Sent(h)' <=> Sent(h) \/ h = j
    BY <1>0, <1>3 DEF Held, Answered, Sent, TypeOK
  <2>4. Stage[j] = "unsent" /\ Stage'[j] = "queued"
    BY <1>3, <2>1, <2>2, <2>3, StageOf, StageOfPrimed
  <2>5. Stage' = [Stage EXCEPT ![j] = "queued"]
    BY <2>2, <2>3, <2>4, StageMoves
  <2> QED BY <1>3, <2>4, <2>5 DEF Service!Send
<1>4. ASSUME NEW s \in Submissions, InsertSubmission(s) PROVE Service!Next
  <2>1. /\ UNCHANGED <<queue, job, answer>> /\ ~Sent(s)
        /\ row[s] = "none" /\ row' = [row EXCEPT ![s] = "WJ"]
        /\ \A j \in Jobs : Sent(j)' <=> Sent(j)
    BY <1>0, <1>4 DEF InsertSubmission, Sent, TypeOK, IInv, RowsFollowTasks
  <2>2. Stage' = Stage
    BY <2>1, StageStays DEF Queued, Held, Answered
  <2>3. Stage[s] = "unsent"
    BY <1>0, <2>1, StageOf
  <2> QED BY <2>1, <2>2, <2>3 DEF Service!Insert
<1>5. ASSUME NEW s \in Submissions, SendSubmission(s) PROVE Service!Next
  <2>1. ~Sent(s) /\ row[s] # "none"
    BY <1>0, <1>5 DEF SendSubmission, Sent, IInv, RowsFollowTasks
  <2>2. ~Answered(s)
    BY <1>0, <2>1 DEF AnsweredWasSent
  <2>3. row[s] = "WJ"
    BY <2>1, <2>2, NamesDiffer DEF IInv, VerdictIsItsOwn, Answered, Bodies
  <2> QED BY <1>0, <1>3, <1>5, <2>1, <2>3 DEF SendSubmission
<1>6. ASSUME NEW c \in Calls, SendCall(c) PROVE Service!Next
  BY <1>0, <1>3, <1>6 DEF SendCall, Sent
<1>7. ASSUME NEW s \in Submissions, MetadataFails(s) PROVE UNCHANGED Service!svars
  BY <1>0, <1>1, <1>7 DEF MetadataFails, Sent, TypeOK
<1>8. ASSUME NEW c \in Calls, Subscribe(c) \/ CallLags(c)
      PROVE  UNCHANGED Service!svars
  BY <1>0, <1>1, <1>8 DEF Subscribe, CallLags, Sent, TypeOK
<1>9. ASSUME NEW c \in Calls, ReceiveResult(c) PROVE UNCHANGED Service!svars
  <2>1. \A j \in Jobs : Sent(j)' <=> Sent(j)
    BY <1>0, <1>9 DEF ReceiveResult, Sent, TypeOK
  <2> QED BY <1>1, <1>9, <2>1 DEF ReceiveResult
<1>10. ASSUME NEW w \in Workers, GetJob(w) \/ Disconnect(w) \/ DropStale(w)
       PROVE  UNCHANGED Service!svars
  BY <1>1, <1>10 DEF GetJob, Disconnect, DropStale, Sent
<1>11. ASSUME NEW w \in Workers, HandOut(w) PROVE Service!Next
  <2>1. /\ queue # <<>> /\ queue' = Tail(queue)
        /\ job' = [job EXCEPT ![w] = Head(queue)]
        /\ UNCHANGED <<pc, answer, row>> /\ phase[w] = "polling"
    BY <1>11 DEF HandOut
  <2>2. PICK h \in Jobs : h = Head(queue)
    BY <1>0, <2>1, TakeHead
  <2>3. /\ \A i \in DOMAIN queue' : queue'[i] # h
        /\ Queued(h)
        /\ \A j : Queued(j) <=> Queued(j)' \/ j = h
    BY <1>0, <2>1, <2>2, TakeHeadQueued
  <2>4. ~Queued(h)' /\ ~Held(h) /\ ~Answered(h) /\ Sent(h)
    BY <1>0, <2>3 DEF Queued, AtMostOnce
  <2>5. job[w] = NoJob
    BY <1>0, <2>1 DEF Busy
  <2>6. \A v \in Workers : job'[v] = IF v = w THEN h ELSE job[v]
    BY <1>0, <2>1, <2>2 DEF TypeOK
  <2>7. \A j \in Jobs : /\ Held(j)' <=> Held(j) \/ j = h
                        /\ Sent(j)' <=> Sent(j)
                        /\ Answered(j)' <=> Answered(j)
    BY <2>1, <2>5, <2>6, PipelineAssumption DEF Held, Sent, Answered
  <2>8. Stage[h] = "queued" /\ Stage'[h] = "taken"
    BY <2>3, <2>4, <2>7, StageOf, StageOfPrimed
  <2>9. Stage' = [Stage EXCEPT ![h] = "taken"]
    BY <2>3, <2>7, <2>8, StageMoves
  <2> QED BY <2>1, <2>8, <2>9 DEF Service!Take
<1>12. ASSUME NEW w \in Workers, ResponseLost(w) \/ HandOutStale(w)
       PROVE  Service!Next
  <2>1. queue # <<>> /\ queue' = Tail(queue) /\ UNCHANGED <<pc, job, answer, row>>
    BY <1>12 DEF ResponseLost, HandOutStale
  <2>2. \A j \in Jobs : (Queued(j)' => Queued(j)) /\ (Held(j)' => Held(j))
    BY <1>0, <2>1, TakeHeadQueued DEF Held
  <2> QED BY <1>2, <2>1, <2>2
<1>13. ASSUME NEW w \in Workers, SubmitFails(w) \/ WorkerFails(w)
       PROVE  Service!Next
  <2>1. job' = [job EXCEPT ![w] = NoJob] /\ UNCHANGED <<pc, queue, answer, row>>
    BY <1>13 DEF SubmitFails, WorkerFails
  <2>2. \A v \in Workers : job'[v] = job[v] \/ job'[v] = NoJob
    BY <1>0, <2>1 DEF TypeOK
  <2>3. \A j \in Jobs : (Queued(j)' => Queued(j)) /\ (Held(j)' => Held(j))
    BY <2>1, <2>2, PipelineAssumption DEF Queued, Held
  <2> QED BY <1>2, <2>1, <2>3
<1>14. ASSUME NEW w \in Workers, NEW body \in Bodies, SubmitJobResult(w, body)
       PROVE  Service!Next
  <2>1. PICK h \in Jobs : h = job[w]
    BY <1>0, <1>14, WorkingHolds DEF SubmitJobResult
  <2>2. /\ UNCHANGED <<queue, pc, row>>
        /\ answer' = [answer EXCEPT ![h] = body]
        /\ job' = [job EXCEPT ![w] = NoJob]
    BY <1>14, <2>1 DEF SubmitJobResult
  <2>3. Held(h) /\ Sent(h) /\ ~Queued(h) /\ ~Answered(h)
    BY <1>0, <2>1 DEF Held, AtMostOnce
  <2>4. \A j \in Jobs : j # h => (Held(j)' <=> Held(j))
    <3>1. \A v \in Workers : job'[v] = IF v = w THEN NoJob ELSE job[v]
      BY <1>0, <2>2 DEF TypeOK
    <3> QED BY <2>1, <3>1, PipelineAssumption DEF Held
  <2>5. \A j \in Jobs : /\ (Sent(j)' <=> Sent(j)) /\ (Queued(j)' <=> Queued(j))
                        /\ j # h => (Answered(j)' <=> Answered(j))
    BY <1>0, <2>2 DEF Sent, Queued, Answered, TypeOK
  <2>6. Answered(h)'
    BY <1>0, <2>2, NamesDiffer DEF Answered, TypeOK
  <2>7. Stage[h] = "taken" /\ Stage'[h] = "answered"
    BY <2>3, <2>5, <2>6, StageOf, StageOfPrimed
  <2>8. Stage' = [Stage EXCEPT ![h] = "answered"]
    BY <2>4, <2>5, <2>7, StageMoves
  <2> QED BY <2>2, <2>7, <2>8 DEF Service!Answer
<1>15. ASSUME UpdateDatabase PROVE Service!Next \/ UNCHANGED Service!svars
  <2> DEFINE result == bus[next[Db]]
  <2>1. result.uuid \in Jobs /\ result.body = answer[result.uuid]
    BY <1>0, <1>15, DatabaseReadsAnswer DEF IInv
  <2>2. UNCHANGED <<queue, pc, job, answer>> /\ row' = Written(result)
    BY <1>15 DEF UpdateDatabase
  <2> HIDE DEF result
  <2>3. Stage' = Stage
    BY <2>2, StageStays DEF Sent, Queued, Held, Answered
  <2>4. row = [s \in Submissions |-> row[s]]
    BY <1>0 DEF TypeOK
  <2>5. CASE /\ result.uuid \in Submissions /\ row[result.uuid] = "WJ"
             /\ result.body \in Verdicts
    <3>1. row' = [row EXCEPT ![result.uuid] = Column[answer[result.uuid]]]
      BY <2>1, <2>2, <2>4, <2>5 DEF Written
    <3> QED BY <2>1, <2>2, <2>3, <2>5, <3>1 DEF Service!Record
  <2>6. CASE ~(/\ result.uuid \in Submissions /\ row[result.uuid] = "WJ"
               /\ result.body \in Verdicts)
    <3>1. \A s \in Submissions : Written(result)[s] = row[s]
      BY <2>1, <2>6 DEF Written, IInv, VerdictIsItsOwn
    <3>2. Written(result) = [s \in Submissions |-> Written(result)[s]]
      BY DEF Written
    <3>3. row' = row
      BY <2>2, <2>4, <3>1, <3>2
    <3> QED BY <2>2, <2>3, <3>3
  <2> QED BY <2>5, <2>6
<1>16. ASSUME ServerDies PROVE Service!Next
  <2>1. /\ queue' = <<>> /\ UNCHANGED <<job, answer, row>>
        /\ \A j \in Jobs : pc[j] = "ok" => pc'[j] = "ok"
        /\ \A j \in Jobs : pc[j] = "error" => pc'[j] = "error"
        /\ \A j \in Jobs : pc[j] = "sent" => pc'[j] \in {"sent", "error"}
        /\ \A j \in Jobs :
             pc[j] \notin {"sent", "ok", "error"} =>
               pc'[j] \notin {"sent", "ok", "error"}
    BY <1>16 DEF ServerDies
  <2>2. \A j \in Jobs : Sent(j)' <=> Sent(j)
    BY <2>1 DEF Sent
  <2>3. \A j \in Jobs : ~Queued(j)' /\ (Held(j)' => Held(j))
    BY <2>1 DEF Queued, Held
  <2> QED BY <2>1, <2>2, <2>3, LoseStep
<1>17. ASSUME ServerStart PROVE UNCHANGED Service!svars
  BY <1>1, <1>17 DEF ServerStart, Sent
<1>18. CASE UNCHANGED vars
  BY <1>1, <1>18 DEF vars, Sent
<1> HIDE DEF Service!Next, Service!svars
<1> QED
  BY <1>4, <1>5, <1>6, <1>7, <1>8, <1>9, <1>10, <1>11, <1>12, <1>13, <1>14, <1>15,
     <1>16, <1>17, <1>18
  DEF Next, Server, Worker, Request, Fault, Network, ServerCrash, UpdateDatabaseLags

\* The pipeline implements the service: whatever fails, a job is handed out and
\* answered at most once, a lost job stays lost, and a verdict is recorded once
\* from the answer to its own job.
THEOREM ImplementsService == Spec => ServiceSpec
<1>1. Init => Service!Init
  <2> SUFFICES ASSUME Init PROVE Service!Init
    OBVIOUS
  <2>1. \A j \in Jobs : Stage[j] = "unsent"
    BY StageOf DEF Init, Sent
  <2>2. Stage = [j \in Jobs |-> Stage[j]]
    BY DEF Stage
  <2> QED BY <2>1, <2>2 DEF Init, Service!Init
<1>2. IInv /\ [Next]_vars => [Service!Next]_(Service!svars)
  BY ServiceStep
<1> QED BY <1>1, <1>2, Invariant, PTL DEF Spec, ServiceSpec, Service!Spec

(***************************************************************************)
(* Seen from the workers, the pipeline keeps their contract.               *)
(***************************************************************************)

\* Nobody gets or gives up a job: jobs may be lost on the way.
LEMMA LosesAtMost ==
  ASSUME UNCHANGED <<job, answer>>,
         \A j \in Jobs : /\ Sent(j)' <=> Sent(j)
                         /\ Queued(j)' => Queued(j)
  PROVE  Contract!Next
<1>1. Untaken' \in SUBSET Jobs /\ Untaken' \subseteq Untaken
  BY DEF Untaken
<1>2. Contract!Lose(Untaken \ Untaken')
  BY <1>1 DEF Contract!Lose
<1>3. Untaken \ Untaken' \in SUBSET Jobs
  BY DEF Untaken
<1> QED BY <1>2, <1>3 DEF Contract!Next

LEMMA ContractStep ==
  ASSUME IInv, [Next]_vars
  PROVE  [Contract!Next]_(Contract!cvars)
<1>0. TypeOK /\ Busy /\ AtMostOnce /\ AnsweredWasSent
  BY DEF IInv
<1>1. ASSUME UNCHANGED <<queue, job, answer>>, \A j \in Jobs : Sent(j)' <=> Sent(j)
      PROVE  Contract!Next
  BY <1>1, LosesAtMost DEF Queued
<1>2. ASSUME NEW j \in Jobs, ~Sent(j), queue' = Append(queue, j),
             pc' = [pc EXCEPT ![j] = "sent"], UNCHANGED <<job, answer>>
      PROVE  Contract!Next
  <2>1. ~Queued(j)
    BY <1>0, <1>2 DEF AtMostOnce
  <2>2. \A h : Queued(h)' <=> Queued(h) \/ h = j
    BY <1>0, <1>2, <2>1, AppendQueued
  <2>3. \A h \in Jobs : Sent(h)' <=> Sent(h) \/ h = j
    BY <1>0, <1>2 DEF Sent, TypeOK
  <2>4. Untaken' = Untaken
    BY <1>2, <2>2, <2>3 DEF Untaken
  <2>5. Contract!Lose({})
    BY <1>2, <2>4 DEF Contract!Lose
  <2> QED BY <2>5 DEF Contract!Next
<1>3. ASSUME NEW s \in Submissions,
             InsertSubmission(s) \/ SendSubmission(s) \/ MetadataFails(s)
      PROVE  Contract!Next
  <2>1. s \in Jobs
    BY DEF Jobs
  <2>2. CASE InsertSubmission(s) \/ MetadataFails(s)
    BY <1>0, <1>1, <2>1, <2>2 DEF InsertSubmission, MetadataFails, Sent, TypeOK
  <2>3. CASE SendSubmission(s)
    BY <1>2, <2>1, <2>3 DEF SendSubmission, Sent
  <2> QED BY <1>3, <2>2, <2>3
<1>4. ASSUME NEW c \in Calls,
             Subscribe(c) \/ SendCall(c) \/ ReceiveResult(c) \/ CallLags(c)
      PROVE  Contract!Next
  <2>1. c \in Jobs
    BY DEF Jobs
  <2>2. CASE Subscribe(c) \/ CallLags(c)
    BY <1>0, <1>1, <2>1, <2>2 DEF Subscribe, CallLags, Sent, TypeOK
  <2>3. CASE SendCall(c)
    BY <1>2, <2>1, <2>3 DEF SendCall, Sent
  <2>4. CASE ReceiveResult(c)
    <3>1. \A j \in Jobs : Sent(j)' <=> Sent(j)
      BY <1>0, <2>1, <2>4 DEF ReceiveResult, Sent, TypeOK
    <3> QED BY <1>1, <2>4, <3>1 DEF ReceiveResult
  <2> QED BY <1>4, <2>2, <2>3, <2>4
<1>5. ASSUME NEW w \in Workers, GetJob(w) \/ Disconnect(w) \/ DropStale(w)
      PROVE  Contract!Next
  BY <1>1, <1>5 DEF GetJob, Disconnect, DropStale, Sent
<1>6. ASSUME NEW w \in Workers, HandOut(w) PROVE Contract!Next
  <2>1. /\ queue # <<>> /\ queue' = Tail(queue)
        /\ job' = [job EXCEPT ![w] = Head(queue)]
        /\ UNCHANGED <<pc, answer>> /\ phase[w] = "polling"
    BY <1>6 DEF HandOut
  <2>2. PICK h \in Jobs : h = Head(queue)
    BY <1>0, <2>1, TakeHead
  <2>3. /\ \A i \in DOMAIN queue' : queue'[i] # h
        /\ Queued(h)
        /\ \A j : Queued(j) <=> Queued(j)' \/ j = h
    BY <1>0, <2>1, <2>2, TakeHeadQueued
  <2>4. ~Queued(h)' /\ Sent(h)
    BY <1>0, <2>3 DEF Queued, AtMostOnce
  <2>5. job[w] = NoJob
    BY <1>0, <2>1 DEF Busy
  <2>6. \A j \in Jobs : Sent(j)' <=> Sent(j)
    BY <2>1 DEF Sent
  <2>7. h \in Untaken /\ Untaken' = Untaken \ {h}
    BY <2>3, <2>4, <2>6 DEF Untaken
  <2>8. Contract!Take(w, h)
    BY <2>1, <2>2, <2>5, <2>7 DEF Contract!Take
  <2> QED BY <2>8 DEF Contract!Next
<1>7. ASSUME NEW w \in Workers, ResponseLost(w) \/ HandOutStale(w)
      PROVE  Contract!Next
  <2>1. queue # <<>> /\ queue' = Tail(queue) /\ UNCHANGED <<pc, job, answer>>
    BY <1>7 DEF ResponseLost, HandOutStale
  <2>2. \A j \in Jobs : (Queued(j)' => Queued(j)) /\ (Sent(j)' <=> Sent(j))
    BY <1>0, <2>1, TakeHeadQueued DEF Sent
  <2> QED BY <2>1, <2>2, LosesAtMost
<1>8. ASSUME NEW w \in Workers, SubmitFails(w) \/ WorkerFails(w)
      PROVE  Contract!Next
  <2>1. /\ job' = [job EXCEPT ![w] = NoJob] /\ UNCHANGED <<pc, queue, answer>>
        /\ phase[w] = "working"
    BY <1>8 DEF SubmitFails, WorkerFails
  <2>2. job[w] \in Jobs
    BY <1>0, <2>1, WorkingHolds
  <2>3. Untaken' = Untaken
    BY <2>1 DEF Untaken, Sent, Queued
  <2>4. Contract!GiveUp(w)
    BY <2>1, <2>2, <2>3 DEF Contract!GiveUp
  <2> QED BY <2>4 DEF Contract!Next
<1>9. ASSUME NEW w \in Workers, NEW body \in Bodies, SubmitJobResult(w, body)
      PROVE  Contract!Next
  <2>1. /\ job[w] \in Jobs /\ ~Answered(job[w])
    BY <1>0, <1>9, WorkingHolds DEF SubmitJobResult, AtMostOnce, Held
  <2>2. /\ UNCHANGED <<queue, pc>> /\ body \in Outcomes(w, job[w])
        /\ answer' = [answer EXCEPT ![job[w]] = body]
        /\ job' = [job EXCEPT ![w] = NoJob]
    BY <1>9 DEF SubmitJobResult
  <2>3. Untaken' = Untaken
    BY <2>2 DEF Untaken, Sent, Queued
  <2>4. Contract!Answer(w, body)
    BY <2>1, <2>2, <2>3 DEF Contract!Answer, Answered
  <2> QED BY <2>4 DEF Contract!Next
<1>10. ASSUME UpdateDatabase \/ ServerStart PROVE Contract!Next
  BY <1>1, <1>10 DEF UpdateDatabase, ServerStart, Sent
<1>11. ASSUME ServerDies PROVE Contract!Next
  <2>1. /\ queue' = <<>> /\ UNCHANGED <<job, answer>>
        /\ \A j \in Jobs : pc[j] = "ok" => pc'[j] = "ok"
        /\ \A j \in Jobs : pc[j] = "error" => pc'[j] = "error"
        /\ \A j \in Jobs : pc[j] = "sent" => pc'[j] \in {"sent", "error"}
        /\ \A j \in Jobs :
             pc[j] \notin {"sent", "ok", "error"} =>
               pc'[j] \notin {"sent", "ok", "error"}
    BY <1>11 DEF ServerDies
  <2>2. \A j \in Jobs : (Sent(j)' <=> Sent(j)) /\ ~Queued(j)'
    BY <2>1 DEF Sent, Queued
  <2> QED BY <2>1, <2>2, LosesAtMost
<1>12. CASE UNCHANGED vars
  BY <1>1, <1>12 DEF vars, Sent
<1> QED
  BY <1>3, <1>4, <1>5, <1>6, <1>7, <1>8, <1>9, <1>10, <1>11, <1>12
  DEF Next, Server, Worker, Request, Fault, Network, ServerCrash, UpdateDatabaseLags

\* The server gives each job to one worker at most, whatever happens to it there,
\* and broadcasts only what the worker that has it may answer: all it takes of the
\* workers is what JudgeProofs proves of them.
THEOREM ServerKeepsContract == Spec => ContractSpec
<1>1. Init => Contract!Init
  <2> SUFFICES ASSUME Init PROVE Contract!Init
    OBVIOUS
  <2>1. Untaken = Jobs
    BY DEF Init, Untaken, Sent
  <2> QED BY <2>1 DEF Init, Contract!Init
<1>2. IInv /\ [Next]_vars => [Contract!Next]_(Contract!cvars)
  BY ContractStep
<1> QED BY <1>1, <1>2, Invariant, PTL DEF Spec, ContractSpec, Contract!Spec

(***************************************************************************)
(* How many results there are.                                             *)
(***************************************************************************)

\* The bus never carries two results of one job.
OneResultEach == \A i, k \in DOMAIN bus : bus[i].uuid = bus[k].uuid => i = k

LEMMA OneResultStep ==
  ASSUME IInv, OneResultEach, [Next]_vars
  PROVE  OneResultEach'
<1>1. CASE UNCHANGED <<bus, answer>>
  BY <1>1 DEF OneResultEach
<1>2. ASSUME NEW w \in Workers, NEW body \in Bodies, SubmitJobResult(w, body)
      PROVE  OneResultEach'
  <2>1. job[w] \in Jobs /\ bus' = Append(bus, [uuid |-> job[w], body |-> body])
    BY <1>2, WorkingHolds DEF SubmitJobResult, IInv
  <2>2. /\ Len(bus) \in Nat
        /\ DOMAIN bus = 1 .. Len(bus)
        /\ DOMAIN bus' = 1 .. Len(bus) + 1
        /\ \A i \in DOMAIN bus : bus'[i] = bus[i]
        /\ bus'[Len(bus) + 1] = [uuid |-> job[w], body |-> body]
    BY <2>1, Broadcast DEF IInv
  <2>3. ~Answered(job[w])
    BY <2>1 DEF IInv, AtMostOnce, Held
  <2>4. ASSUME NEW i \in DOMAIN bus PROVE bus[i].uuid # job[w]
    <3>1. bus[i] \in [uuid : Jobs, body : Bodies]
      BY <2>2, ElementOfSeq DEF IInv, TypeOK
    <3>2. Answered(bus[i].uuid)
      BY <3>1, NamesDiffer DEF IInv, BusCarriesAnswers, Answered
    <3> QED BY <2>3, <3>2
  <2>5. \A i \in DOMAIN bus' : i \in DOMAIN bus \/ i = Len(bus) + 1
    BY <2>2
  <2>6. \A i, k \in DOMAIN bus' : bus'[i].uuid = bus'[k].uuid => i = k
    BY <2>2, <2>4, <2>5 DEF OneResultEach
  <2> QED BY <2>6 DEF OneResultEach
<1>3. CASE ServerDies
  <2>1. DOMAIN bus' = {}
    BY <1>3 DEF ServerDies
  <2> QED BY <2>1 DEF OneResultEach
<1> QED BY <1>1, <1>2, <1>3, WhoWrites

\* Each job has one result at most, through all retries and restarts: a call and
\* update_database that see a result of a job have seen all there is of it.
THEOREM ResultsAreOnce == Spec => []OneResultEach
<1>1. Init => OneResultEach
  BY DEF Init, OneResultEach
<1>2. IInv /\ OneResultEach /\ [Next]_vars => OneResultEach'
  BY OneResultStep
<1> QED BY <1>1, <1>2, Invariant, PTL DEF Spec

\* So the bus is no longer than there are jobs.
LEMMA BusWithinJobs ==
  ASSUME IInv, OneResultEach, IsFiniteSet(Jobs)
  PROVE  Len(bus) \in Nat /\ Len(bus) <= Cardinality(Jobs)
<1> DEFINE f == [i \in 1 .. Len(bus) |-> bus[i].uuid]
<1>1. /\ bus \in Seq([uuid : Jobs, body : Bodies])
      /\ Len(bus) \in Nat /\ DOMAIN bus = 1 .. Len(bus)
  BY DEF IInv, TypeOK
<1>2. \A i \in 1 .. Len(bus) : bus[i].uuid \in Jobs
  <2> TAKE i \in 1 .. Len(bus)
  <2>1. bus[i] \in [uuid : Jobs, body : Bodies]
    BY <1>1, ElementOfSeq
  <2> QED BY <2>1
<1>3. f \in Injection(1 .. Len(bus), Jobs)
  BY <1>1, <1>2 DEF OneResultEach, Injection, IsInjective
<1>4. Cardinality(1 .. Len(bus)) <= Cardinality(Jobs)
  BY <1>3, FS_Injection
<1>5. Cardinality(1 .. Len(bus)) = Len(bus)
  BY <1>1, FS_Interval
<1> QED BY <1>1, <1>4, <1>5

NobodyLags == \A r \in Receivers : ~Lagged(r)

\* A bus that keeps as many results as there are jobs loses none: no call gives up
\* and update_database does not bring the server down.
THEOREM CapacityIsEnough ==
  ASSUME IsFiniteSet(Jobs), Cardinality(Jobs) <= RxCap
  PROVE  Spec => []NobodyLags
<1>1. ASSUME IInv, OneResultEach PROVE NobodyLags
  <2> SUFFICES ASSUME NEW r \in Receivers, next[r] # 0
               PROVE  ~(Unread(r) > RxCap)
    BY DEF NobodyLags, Lagged, Subscribed
  <2>1. Len(bus) \in Nat /\ Len(bus) <= Cardinality(Jobs)
    BY <1>1, BusWithinJobs
  <2>2. next[r] \in Nat
    BY <1>1 DEF IInv, TypeOK
  <2>3. Cardinality(Jobs) \in Nat /\ RxCap \in Nat
    BY FS_CardinalityType, RxCapAssumption
  <2> QED BY <2>1, <2>2, <2>3 DEF Unread
<1>2. IInv /\ OneResultEach => NobodyLags
  BY <1>1
<1> QED BY <1>2, Invariant, ResultsAreOnce, PTL
=============================================================================
