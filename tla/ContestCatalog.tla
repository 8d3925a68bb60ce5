--------------------------- MODULE ContestCatalog ---------------------------
(***************************************************************************)
(* What imports promise of the tables: a contest of its own for each, to   *)
(* which, or to a newer one, the problems of its file are added in order,  *)
(* each once, until the import is done with all of them or has failed.     *)
(* Nothing that was added is changed or removed.                           *)
(***************************************************************************)
EXTENDS Naturals, Sequences

CONSTANTS Imports, Package

VARIABLES
  contests,       \* who made each contest
  related,        \* the problems of the contests
  phase,          \* how far each import is
  target,         \* the contest it adds to, once it has chosen one
  joined          \* how many of its problems it has added

cvars == <<contests, related, phase, target, joined>>

Init ==
  /\ contests = <<>>
  /\ related = {}
  /\ phase = [i \in Imports |-> "new"]
  /\ target = [i \in Imports |-> 0]
  /\ joined = [i \in Imports |-> 0]

Create(i) ==
  /\ phase[i] = "new"
  /\ contests' = Append(contests, i)
  /\ phase' = [phase EXCEPT ![i] = "created"]
  /\ UNCHANGED <<related, target, joined>>

\* Its own contest, or one that was made meanwhile.
Choose(i, id) ==
  /\ phase[i] = "created"
  /\ \E own \in 1 .. id : contests[own] = i
  /\ target' = [target EXCEPT ![i] = id]
  /\ phase' = [phase EXCEPT ![i] = "adding"]
  /\ UNCHANGED <<contests, related, joined>>

\* The next problem of the file; after the last one the import is done.
Add(i) ==
  /\ phase[i] = "adding"
  /\ related' = related \cup {[contest |-> target[i],
                               problem |-> Package[i][joined[i] + 1], by |-> i]}
  /\ joined' = [joined EXCEPT ![i] = @ + 1]
  /\ phase' = [phase EXCEPT ![i] = IF joined'[i] = Len(Package[i]) THEN "done" ELSE @]
  /\ UNCHANGED <<contests, target>>

\* Some imports fail, wherever they are.
Abort(I) ==
  /\ \A i \in I : phase[i] \in {"created", "adding"}
  /\ phase' = [i \in Imports |-> IF i \in I THEN "failed" ELSE phase[i]]
  /\ UNCHANGED <<contests, related, target, joined>>

Next ==
  \/ \E i \in Imports : \/ Create(i) \/ Add(i)
                        \/ \E id \in DOMAIN contests : Choose(i, id)
  \/ \E I \in SUBSET Imports : Abort(I)

Spec == Init /\ [][Next]_cvars
=============================================================================
