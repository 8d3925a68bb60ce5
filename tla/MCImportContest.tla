--------------------------- MODULE MCImportContest ---------------------------
(* Two imports that share a problem.  One file also has a second problem,     *)
(* which comes first, so that the imports may meet at any point.              *)
EXTENDS ImportContest

CONSTANTS i1, i2, p, q

Files == [i \in Imports |-> IF i = i1 THEN <<q, p>> ELSE <<p>>]

Methods == [x \in Problems |-> IF x = p THEN <<"manual", "generated">> ELSE <<"manual">>]
=============================================================================
