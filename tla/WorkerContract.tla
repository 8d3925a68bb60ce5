--------------------------- MODULE WorkerContract ----------------------------
(***************************************************************************)
(* What the server and the workers (alvokanto) expect of each other, and   *)
(* no more: a worker has one job at a time, no job goes to a worker twice, *)
(* whatever happens to it, and a job is answered at most once, by the      *)
(* worker that has it, with an answer that worker may give to that job.    *)
(* Jobs may get lost before a worker has them and while it does.           *)
(***************************************************************************)
CONSTANTS
  Jobs, Workers, Bodies, NoJob, Unanswered,
  Answers         \* Answers[w][j]: what worker w may answer to job j

VARIABLES
  waiting,        \* jobs no worker ever had
  holds,          \* the job of each worker
  answer          \* the answer to each job

cvars == <<waiting, holds, answer>>

Init ==
  /\ waiting = Jobs
  /\ holds = [w \in Workers |-> NoJob]
  /\ answer = [j \in Jobs |-> Unanswered]

Take(w, j) ==
  /\ holds[w] = NoJob
  /\ j \in waiting
  /\ waiting' = waiting \ {j}
  /\ holds' = [holds EXCEPT ![w] = j]
  /\ UNCHANGED answer

Answer(w, body) ==
  /\ holds[w] \in Jobs
  /\ answer[holds[w]] = Unanswered
  /\ body \in Answers[w][holds[w]]
  /\ answer' = [answer EXCEPT ![holds[w]] = body]
  /\ holds' = [holds EXCEPT ![w] = NoJob]
  /\ UNCHANGED waiting

\* The worker dies, or its answer does not get through.
GiveUp(w) ==
  /\ holds[w] \in Jobs
  /\ holds' = [holds EXCEPT ![w] = NoJob]
  /\ UNCHANGED <<waiting, answer>>

\* Jobs are lost on the way to the workers.
Lose(J) ==
  /\ waiting' = waiting \ J
  /\ UNCHANGED <<holds, answer>>

Next ==
  \/ \E w \in Workers : \/ \E j \in Jobs : Take(w, j)
                        \/ \E body \in Bodies : Answer(w, body)
                        \/ GiveUp(w)
  \/ \E J \in SUBSET Jobs : Lose(J)

Spec == Init /\ [][Next]_cvars
=============================================================================
