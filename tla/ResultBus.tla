------------------------------ MODULE ResultBus ------------------------------
(***************************************************************************)
(* The tokio broadcast channel of job results (src/main.rs:116) as the     *)
(* server uses it: every receiver sees every result sent after it          *)
(* subscribed, in the order sent, and the channel keeps only the last      *)
(* RxCap results.  A receiver that falls further behind gets an error      *)
(* instead of a result.  The library is external; these operators state    *)
(* what the code in src/ relies on.                                        *)
(***************************************************************************)
EXTENDS Naturals, Sequences

CONSTANT RxCap          \* results kept for slow receivers

ASSUME RxCapAssumption == RxCap \in Nat \ {0}

VARIABLES bus,          \* every result sent by this server process, in order
          next          \* next[r]: position receiver r reads next, 0 if it is gone

Subscribed(r) == next[r] # 0

Unread(r) == (Len(bus) + 1) - next[r]

\* recv() answers Lagged: the slot at next[r] was overwritten.
Lagged(r) == Subscribed(r) /\ Unread(r) > RxCap

\* recv() answers bus[next[r]].
HasResult(r) == Subscribed(r) /\ Unread(r) \in 1 .. RxCap

\* subscribe(): only what is sent from now on.
Tip == Len(bus) + 1
=============================================================================
