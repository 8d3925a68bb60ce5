----------------------------- MODULE Scoreboard ------------------------------
(***************************************************************************)
(* The score of one user in one problem of a contest, as the query of      *)
(* get_problems_user_by_contest_id_with_score (src/models/problem.rs)      *)
(* computes it from the rows of the user's submissions.  A row is shown by *)
(* its verdict: "none" while it is not there, "WJ" for NULL.               *)
(***************************************************************************)
EXTENDS Naturals, FiniteSets

CONSTANTS
  Submissions,
  Instant,        \* submission_instant of each
  Never           \* what a missing first accepted instant counts as

ASSUME ScoreboardAssumption ==
  /\ IsFiniteSet(Submissions)
  /\ Never \in Nat
  /\ Instant \in [Submissions -> 0 .. Never - 1]

Listed(rows) == {s \in Submissions : rows[s] # "none"}

AcInstants(rows) == {Instant[s] : s \in {t \in Submissions : rows[t] = "AC"}}

\* Mutant of FirstAc: the query takes the last accepted submission.
LastAc(rows) ==
  IF AcInstants(rows) = {} THEN Never
  ELSE CHOOSE t \in AcInstants(rows) : \A u \in AcInstants(rows) : u <= t

\* first_ac.first_ac_submission_instant
FirstAc(rows) ==
  IF AcInstants(rows) = {} THEN Never
  ELSE CHOOSE t \in AcInstants(rows) : \A u \in AcInstants(rows) : t <= u

\* What counts as failed before instant t: any row, also one that waits.
Before(rows, t) == {s \in Listed(rows) : Instant[s] < t}

Failed(rows) == Cardinality(Before(rows, FirstAc(rows)))

Score(rows) == [first |-> FirstAc(rows), failed |-> Failed(rows)]
=============================================================================
