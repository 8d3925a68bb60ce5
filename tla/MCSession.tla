------------------------------ MODULE MCSession ------------------------------
(* Two forms and two pages.  The server starts on an empty table, or on one    *)
(* with two users of one name, of which one is an administrator; the forms     *)
(* that change a password follow on each other, and one makes a second admin.  *)
EXTENDS Session, TLC

CONSTANTS r1, r2, g1, g2, admin, ana, p, q

UserRow(n, password, isAdmin, by) ==
  [name |-> n, password |-> password, is_admin |-> isAdmin, by |-> by]

MCTables ==
  {<<>>,
   <<UserRow(admin, q, TRUE, 0), UserRow(ana, p, FALSE, 1), UserRow(ana, q, TRUE, 1)>>}

Change(old, new, repeat) ==
  [kind |-> "change", old |-> old, new |-> new, repeat |-> repeat]

MCForms ==
  {[kind |-> "login", name |-> n, password |-> p] : n \in Names}
    \cup {Change(p, q, q), Change(q, p, p), Change(p, p, q)}
    \cup {[kind |-> "create", name |-> admin, password |-> p, is_admin |-> TRUE]}

Symmetry == Permutations(Requests) \cup Permutations(Pages)
=============================================================================
