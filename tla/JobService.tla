----------------------------- MODULE JobService ------------------------------
(***************************************************************************)
(* What the judging service promises, whatever fails underneath: a job is  *)
(* handed out at most once and answered at most once, a job that was lost  *)
(* never comes back, and the verdict of a submission is written once, from *)
(* the answer to its own job.                                              *)
(***************************************************************************)
CONSTANTS Jobs, Submissions, Bodies, Verdicts, Column

VARIABLES stage,   \* how far each job got
          answer,  \* the answer to each job
          row      \* the verdict column of each submission

svars == <<stage, answer, row>>

Init ==
  /\ stage = [j \in Jobs |-> "unsent"]
  /\ answer = [j \in Jobs |-> "unanswered"]
  /\ row = [s \in Submissions |-> "none"]

Insert(s) ==
  /\ stage[s] = "unsent"
  /\ row[s] = "none"
  /\ row' = [row EXCEPT ![s] = "WJ"]
  /\ UNCHANGED <<stage, answer>>

\* A submission is queued only once its row exists.
Send(j) ==
  /\ stage[j] = "unsent"
  /\ j \in Submissions => row[j] = "WJ"
  /\ stage' = [stage EXCEPT ![j] = "queued"]
  /\ UNCHANGED <<answer, row>>

Take(j) ==
  /\ stage[j] = "queued"
  /\ stage' = [stage EXCEPT ![j] = "taken"]
  /\ UNCHANGED <<answer, row>>

Answer(j, body) ==
  /\ stage[j] = "taken"
  /\ stage' = [stage EXCEPT ![j] = "answered"]
  /\ answer' = [answer EXCEPT ![j] = body]
  /\ UNCHANGED row

\* A failure loses any jobs that are queued or taken.
Lose(J) ==
  /\ \A j \in J : stage[j] \in {"queued", "taken"}
  /\ stage' = [j \in Jobs |-> IF j \in J THEN "lost" ELSE stage[j]]
  /\ UNCHANGED <<answer, row>>

Record(s) ==
  /\ row[s] = "WJ"
  /\ answer[s] \in Verdicts
  /\ row' = [row EXCEPT ![s] = Column[answer[s]]]
  /\ UNCHANGED <<stage, answer>>

Next ==
  \/ \E s \in Submissions : Insert(s) \/ Record(s)
  \/ \E j \in Jobs : Send(j) \/ Take(j) \/ \E body \in Bodies : Answer(j, body)
  \/ \E J \in SUBSET Jobs : Lose(J)

Spec == Init /\ [][Next]_svars
=============================================================================
