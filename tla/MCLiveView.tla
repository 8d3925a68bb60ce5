----------------------------- MODULE MCLiveView ------------------------------
(* Two submissions, both accepted, maybe the later one first, the result of a *)
(* cached run, and one page that comes back on a new connection while the old *)
(* one is still in the list of clients.                                       *)
EXTENDS LiveView

CONSTANTS s1, s2, g1, p1, c1, c2

MCInstant == [s \in Submissions |-> IF s = s1 THEN 1 ELSE 2]

MCOutcome == [s \in Submissions |-> "AC"]
=============================================================================
