-------------------------------- MODULE Users --------------------------------
(***************************************************************************)
(* The users of jughisto (src/models/user.rs), the handlers that log in,   *)
(* change a password and create a user (src/main.rs), and the set-up of    *)
(* the administrator when the server starts (src/setup.rs).  A handler is  *)
(* one step per SQL statement that matters: there are no transactions, and *)
(* the names of users are not unique.  A hash is shown by its password.    *)
(***************************************************************************)
EXTENDS Naturals, Sequences

CONSTANTS
  Requests,
  Names,
  Passwords,
  Admin,          \* the name of the administrator, "admin" in the code
  Default,        \* the password set-up gives it, "admin" too
  Forms,          \* the forms that are posted
  Tables,         \* tables of users earlier runs of the server may have left
  Nobody,         \* no request, no user
  MaxCrashes      \* bound: crashes of the server

\* A row of the table; its id is its position, and creation_user_id is 0 for NULL.
Row == [name : Names, password : Passwords, is_admin : BOOLEAN, by : Nat]

LoginForms == [kind : {"login"}, name : Names, password : Passwords]

ChangePasswordForms ==
  [kind : {"change"}, old : Passwords, new : Passwords, repeat : Passwords]

CreateUserForms ==
  [kind : {"create"}, name : Names, password : Passwords, is_admin : BOOLEAN]

\* What the signed cookie of a logged-in user says.
Identity == [id : Nat \ {0}, is_admin : BOOLEAN]

IdentityOf(table, id) == [id |-> id, is_admin |-> table[id].is_admin]

\* Set-up has run on a table that is not empty, and administrators made the rest.
LeftBehind(table) ==
  \A id \in DOMAIN table :
    /\ table[id].by = 0 <=> id = 1
    /\ table[id].by < id
    /\ id > 1 => table[table[id].by].is_admin
    /\ id = 1 => table[id].name = Admin /\ table[id].is_admin

ASSUME UsersAssumption ==
  /\ Admin \in Names
  /\ Default \in Passwords
  /\ Forms \subseteq LoginForms \cup ChangePasswordForms \cup CreateUserForms
  /\ Tables \subseteq Seq(Row)
  /\ \A table \in Tables : LeftBehind(table)
  /\ Nobody \notin Requests \cup Identity
  /\ MaxCrashes \in Nat

VARIABLES
  server,         \* down, in one of the two statements of set-up, or up
  user,           \* the table
  cookies,        \* the identities that were ever signed
  pc,             \* where each request is, or how it was answered
  form, who,      \* what each request asks for, and the identity it carries
  given,          \* the identity a login was answered with
  verified,       \* history: the row whose password a login matched
  before,         \* history: the changes answered when each request came
  overwrote,      \* history: the change each change replaced
  writer,         \* history: the change that wrote the password of each row
  crashes

history == <<verified, before, overwrote, writer>>
userVars == <<server, user, cookies, pc, form, who, given, history, crashes>>

InHand == {"reading", "naming", "writing", "inserting"}

\* error: a plain 500; lost: none.
Replies == {"unauthorized", "refused", "unknown", "wrong", "in", "changed",
            "created", "error", "lost"}

UsersTypeOK ==
  /\ server \in {"down", "checking", "inserting", "up"}
  /\ user \in Seq(Row)
  /\ cookies \in SUBSET Identity
  /\ pc \in [Requests -> {"new"} \cup InHand \cup Replies]
  /\ form \in [Requests -> Forms \cup {Nobody}]
  /\ who \in [Requests -> Identity \cup {Nobody}]
  /\ given \in [Requests -> Identity \cup {Nobody}]
  /\ verified \in [Requests -> Nat]
  /\ before \in [Requests -> SUBSET Requests]
  /\ overwrote \in [Requests -> Requests \cup {Nobody}]
  /\ writer \in Seq(Requests \cup {Nobody})
  /\ Len(writer) = Len(user)
  /\ crashes \in 0 .. MaxCrashes

\* The server is down; cookies of all its users may be around.
UsersInit ==
  /\ server = "down"
  /\ user \in Tables
  /\ cookies = {IdentityOf(user, id) : id \in DOMAIN user}
  /\ pc = [r \in Requests |-> "new"]
  /\ form = [r \in Requests |-> Nobody]
  /\ who = [r \in Requests |-> Nobody]
  /\ given = [r \in Requests |-> Nobody]
  /\ verified = [r \in Requests |-> 0]
  /\ before = [r \in Requests |-> {}]
  /\ overwrote = [r \in Requests |-> Nobody]
  /\ writer = [id \in DOMAIN user |-> Nobody]
  /\ crashes = 0

Goto(r, s) == pc' = [pc EXCEPT ![r] = s]

\* Any row of that name may be the first: the queries name no order, and a row
\* that is updated moves.
Named(name) == {id \in DOMAIN user : user[id].name = name}

Insert(row) ==
  /\ user' = Append(user, row)
  /\ writer' = Append(writer, Nobody)

-----------------------------------------------------------------------------
(* The server starts and stops.                                            *)

\* Mutant of SetupMissing: a changed password looks like a missing administrator.
SetupMissingPassword == \A id \in Named(Admin) : user[id].password # Default

\* check_matching_password finds nobody of that name.
SetupMissing == Named(Admin) = {}

\* main up to its call of setup_admin.
Start ==
  /\ server = "down"
  /\ server' = "checking"
  /\ UNCHANGED <<user, cookies, pc, form, who, given, history, crashes>>

\* setup_admin looks for the administrator ...
SetupCheck ==
  /\ server = "checking"
  /\ server' = IF SetupMissing THEN "inserting" ELSE "up"
  /\ UNCHANGED <<user, cookies, pc, form, who, given, history, crashes>>

\* ... and inserts it; only then does main listen.
SetupInsert ==
  /\ server = "inserting"
  /\ server' = "up"
  /\ Insert([name |-> Admin, password |-> Default, is_admin |-> TRUE, by |-> 0])
  /\ UNCHANGED <<cookies, pc, form, who, given, verified, before, overwrote, crashes>>

\* The handlers in hand go, without an answer; what they wrote stays.
Crash ==
  /\ server # "down"
  /\ crashes < MaxCrashes
  /\ crashes' = crashes + 1
  /\ server' = "down"
  /\ pc' = [r \in Requests |-> IF pc[r] \in InHand THEN "lost" ELSE pc[r]]
  /\ UNCHANGED <<user, cookies, form, who, given, history>>

-----------------------------------------------------------------------------
(* The handlers.                                                           *)

\* Mutant of MayCreate: any user creates users.
MayCreateLoggedIn(identity) == identity # Nobody

\* require_identity and is_admin of create_user.
MayCreate(identity) == identity # Nobody /\ identity.is_admin

\* Mutant of Entry: the request is routed but nothing handles it.
EntryRouted(f, identity) == f.kind

\* What a handler does before its first statement.
Entry(f, identity) ==
  CASE f.kind = "login" -> "reading"
    [] f.kind = "change" -> IF identity = Nobody THEN "unauthorized"
                            ELSE IF f.new # f.repeat THEN "refused" ELSE "reading"
    [] f.kind = "create" -> IF MayCreate(identity) THEN "inserting" ELSE "unauthorized"

Receive(r, f, identity) ==
  /\ server = "up"
  /\ pc[r] = "new"
  /\ identity \in cookies \cup {Nobody}
  /\ form' = [form EXCEPT ![r] = f]
  /\ who' = [who EXCEPT ![r] = identity]
  /\ before' = [before EXCEPT ![r] =
       IF f.kind = "change" THEN {q \in Requests : pc[q] = "changed"} ELSE {}]
  /\ Goto(r, Entry(f, identity))
  /\ UNCHANGED <<server, user, cookies, given, verified, overwrote, writer, crashes>>

\* check_matching_password reads a user of that name and verifies the password.
LoginRead(r) ==
  /\ pc[r] = "reading"
  /\ form[r].kind = "login"
  /\ IF Named(form[r].name) = {}
     THEN Goto(r, "unknown") /\ UNCHANGED verified
     ELSE \E id \in Named(form[r].name) :
            IF user[id].password = form[r].password
            THEN /\ Goto(r, "naming")
                 /\ verified' = [verified EXCEPT ![r] = id]
            ELSE Goto(r, "wrong") /\ UNCHANGED verified
  /\ UNCHANGED <<server, user, cookies, form, who, given, before, overwrote, writer,
                 crashes>>

\* Mutant of Subject: the query lost its filter.
SubjectAny(r) == DOMAIN user

\* The rows get_user_by_name may answer with.
Subject(r) == Named(form[r].name)

\* get_user_by_name, a query of its own, says who logged in; post_login signs it.
LoginName(r) ==
  /\ pc[r] = "naming"
  /\ \E id \in Subject(r) :
       /\ given' = [given EXCEPT ![r] = IdentityOf(user, id)]
       /\ cookies' = cookies \cup {IdentityOf(user, id)}
  /\ Goto(r, "in")
  /\ UNCHANGED <<server, user, form, who, history, crashes>>

\* Mutant of OldMatches: the password of any user will do.
OldMatchesAny(r) == \E id \in DOMAIN user : user[id].password = form[r].old

\* The old password is verified against the row of the identity.
OldMatches(r) == user[who[r].id].password = form[r].old

\* change_password reads the hash and verifies the old password ...
ChangeRead(r) ==
  /\ pc[r] = "reading"
  /\ form[r].kind = "change"
  /\ Goto(r, IF OldMatches(r) THEN "writing" ELSE "wrong")
  /\ UNCHANGED <<server, user, cookies, form, who, given, history, crashes>>

\* ... and writes the new one, whatever is there by now.  It stays written when
\* the user cannot be read back after it.
ChangeWrite(r) ==
  /\ pc[r] = "writing"
  /\ user' = [user EXCEPT ![who[r].id].password = form[r].new]
  /\ overwrote' = [overwrote EXCEPT ![r] = writer[who[r].id]]
  /\ writer' = [writer EXCEPT ![who[r].id] = r]
  /\ \E answer \in {"changed", "error"} : Goto(r, answer)
  /\ UNCHANGED <<server, cookies, form, who, given, verified, before, crashes>>

\* insert_new_user; the user it reads back by name is not used, but has to be read.
CreateUser(r) ==
  /\ pc[r] = "inserting"
  /\ Insert([name |-> form[r].name, password |-> form[r].password,
             is_admin |-> form[r].is_admin, by |-> who[r].id])
  /\ \E answer \in {"created", "error"} : Goto(r, answer)
  /\ UNCHANGED <<server, cookies, form, who, given, verified, before, overwrote,
                 crashes>>

\* No connection is free in time, a hash cannot be made or a statement fails: what
\* was done before stays, and the answer is an error.
HandlerFails(r) ==
  /\ pc[r] \in InHand
  /\ Goto(r, "error")
  /\ UNCHANGED <<server, user, cookies, form, who, given, history, crashes>>

-----------------------------------------------------------------------------
Handler(r) ==
  \/ LoginRead(r) \/ LoginName(r) \/ ChangeRead(r) \/ ChangeWrite(r) \/ CreateUser(r)
  \/ HandlerFails(r)

Server == Start \/ SetupCheck \/ SetupInsert \/ Crash

UsersNext ==
  \/ Server
  \/ \E r \in Requests :
       \/ Handler(r)
       \/ \E f \in Forms, identity \in cookies \cup {Nobody} : Receive(r, f, identity)

UsersSpec == UsersInit /\ [][UsersNext]_userVars
-----------------------------------------------------------------------------
(* Properties.                                                             *)

\* A login makes the browser the user whose password it knew, although password
\* and identity are read by two queries that go by the name; it makes it
\* somebody else only where two users share the name.
LoginIsOwn ==
  \A r \in Requests :
    pc[r] = "in" =>
      /\ user[given[r].id].name = form[r].name
      /\ \/ given[r].id = verified[r]
         \/ \E i, k \in Named(form[r].name) : i # k

\* A change of a password that came after another change was answered knew the
\* password that change had set, if it replaced it.  Two changes that overlap may
\* both verify the same old password and both be told they succeeded; one answered
\* with an error may have been written, and is nothing to go by.
NoBlindOverwrite ==
  \A r, q \in Requests :
    overwrote[r] = q /\ q \in before[r] => form[r].old = form[q].new

\* Whoever is an administrator was made one by an administrator, in a chain that
\* goes back to set-up: no login, namesake or cookie of an earlier run breaks it.
AdminsMakeUsers ==
  \A id \in DOMAIN user :
    user[id].by # 0 => user[id].by < id /\ user[user[id].by].is_admin

\* However often the server is restarted, in the middle of set-up or after the
\* administrator changed the password, set-up made exactly one administrator by
\* the time the server listens.
SetupOnce ==
  /\ \A i, k \in DOMAIN user : user[i].by = 0 /\ user[k].by = 0 => i = k
  /\ server = "up" => \E i \in Named(Admin) : user[i].by = 0 /\ user[i].is_admin
=============================================================================
