---------------------------- MODULE MCJobPipeline ----------------------------
(* A small judge: constants for TLC.                                       *)
EXTENDS JobPipeline, TLC

CONSTANTS s1, s2, r1, m1, w1, w2, cpp, java

\* w2 has no java, so a job may reach a worker that cannot take it ...
MixedSupports == w1 :> {cpp, java} @@ w2 :> {cpp}
MixedLang == [j \in Jobs |-> IF j = s2 THEN java ELSE cpp]
MixedChecker == [j \in Judgements |-> IF j = m1 THEN java ELSE cpp]

\* ... and the deployment in which every worker runs the same build.
SameSupports == [w \in Workers |-> Languages]
SameLang == [j \in Jobs |-> cpp]
SameChecker == [j \in Judgements |-> cpp]
=============================================================================
