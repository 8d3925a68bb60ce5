---------------------------- MODULE MCServerPool -----------------------------
(* As many imports as connections, on the one thread they share with a login   *)
(* and two short requests, one of which submits a program.                     *)
EXTENDS ServerPool

CONSTANTS t1, s1, s2, l1, i1, i2
=============================================================================
