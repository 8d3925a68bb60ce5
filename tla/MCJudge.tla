------------------------------- MODULE MCJudge -------------------------------
(* Two submissions with one checker, one of them in a language whose compiler *)
(* may write nothing, one interpreted, and the run of a generator.            *)
EXTENDS Judge, TLC

CONSTANTS w1, w2, cppJob, javaJob, pyJob, emptyJob, genJob, checker, generator

OneProgram == [j \in Jobs |-> IF j = genJob THEN generator ELSE checker]

\* The generator is the program of the checker's package too.
SharedProgram == [j \in Jobs |-> checker]

OutputFile ==
  [j \in Judgements |-> IF j = pyJob THEN NoOutput
                        ELSE IF j = javaJob THEN "x.class" ELSE "x"]

\* Every java job, so that one may run what an earlier one left.
OneFile == [j \in Judgements |-> "x.class"]

Counts == [j \in Judgements |-> IF j = emptyJob THEN 0
                                ELSE IF j = cppJob THEN 2 ELSE 1]
=============================================================================
