----------------------------- MODULE UsersProofs -----------------------------
(***************************************************************************)
(* Theorems about the users, for any number of requests, users, names and  *)
(* passwords.                                                              *)
(***************************************************************************)
EXTENDS Users, SequenceTheorems, TLAPS

(***************************************************************************)
(* The inductive invariant, part by part.                                  *)
(***************************************************************************)

\* A signed identity stays true: its row is there, with its is_admin.
CookiesTrue ==
  \A c \in cookies : c.id \in DOMAIN user /\ c.is_admin = user[c.id].is_admin

\* What a handler in hand knows from its earlier statements.
Stage(r) ==
  /\ who[r] \in cookies \cup {Nobody}
  /\ pc[r] \in InHand => server = "up" /\ form[r] \in Forms
  /\ pc[r] = "naming" => form[r].kind = "login" /\ verified[r] \in Named(form[r].name)
  /\ pc[r] = "reading" => form[r].kind \in {"login", "change"}
  /\ pc[r] = "reading" /\ form[r].kind = "change" => who[r] # Nobody
  /\ pc[r] = "writing" => form[r].kind = "change" /\ who[r] # Nobody
  /\ pc[r] = "inserting" =>
       form[r].kind = "create" /\ who[r] # Nobody /\ who[r].is_admin = TRUE

Stages == \A r \in Requests : Stage(r)

\* Set-up makes the first row, before anybody is served, and nobody else does.
FirstRow ==
  /\ LeftBehind(user)
  /\ server = "inserting" => user = <<>>
  /\ server = "up" => user # <<>>

\* A login is answered with an identity that was signed.
Logins == \A r \in Requests : pc[r] = "in" => given[r] \in cookies

\* How a change that wrote its password is answered.
Written == {"changed", "error"}

\* The last writer of a row is known by its password, and a handler that is about
\* to write has verified that of a writer that was answered before it came.
Writers ==
  /\ \A id \in DOMAIN user :
       writer[id] # Nobody =>
         pc[writer[id]] \in Written /\ user[id].password = form[writer[id]].new
  /\ \A r \in Requests : \A q \in before[r] : pc[q] = "changed"
  /\ \A r \in Requests : overwrote[r] # Nobody => pc[r] \in Written
  /\ \A r \in Requests :
       pc[r] = "writing" /\ writer[who[r].id] \in before[r] =>
         form[r].old = form[writer[who[r].id]].new

\* All of it.
UsersInv ==
  /\ UsersTypeOK
  /\ CookiesTrue
  /\ Stages
  /\ FirstRow
  /\ Logins
  /\ LoginIsOwn
  /\ Writers
  /\ NoBlindOverwrite

(***************************************************************************)
(* Facts about forms and about the table.                                  *)
(***************************************************************************)

\* The fields of a form go by its kind.
LEMMA FormFields ==
  ASSUME NEW f \in Forms
  PROVE  /\ f.kind \in {"login", "change", "create"}
         /\ f.kind = "login" => f.name \in Names /\ f.password \in Passwords
         /\ f.kind = "change" => f.old \in Passwords /\ f.new \in Passwords
         /\ f.kind = "create" =>
              f.name \in Names /\ f.password \in Passwords /\ f.is_admin \in BOOLEAN
<1>1. f \in LoginForms \cup ChangePasswordForms \cup CreateUserForms
  BY UsersAssumption
<1>2. CASE f \in LoginForms BY <1>2 DEF LoginForms
<1>3. CASE f \in ChangePasswordForms BY <1>3 DEF ChangePasswordForms
<1>4. CASE f \in CreateUserForms BY <1>4 DEF CreateUserForms
<1> QED BY <1>1, <1>2, <1>3, <1>4

\* The identity of a row is one.
LEMMA IdentityOfRow ==
  ASSUME UsersTypeOK, NEW id \in DOMAIN user
  PROVE  /\ IdentityOf(user, id) \in Identity
         /\ IdentityOf(user, id).id = id
         /\ IdentityOf(user, id).is_admin = user[id].is_admin
<1>1. user[id] \in Row /\ id \in Nat \ {0} BY DEF UsersTypeOK
<1>2. user[id].is_admin \in BOOLEAN BY <1>1 DEF Row
<1> QED BY <1>1, <1>2 DEF IdentityOf, Identity

\* An insert adds a row behind the others.
LEMMA Inserted ==
  ASSUME UsersTypeOK, NEW row \in Row, Insert(row)
  PROVE  /\ user' \in Seq(Row) /\ writer' \in Seq(Requests \cup {Nobody})
         /\ Len(user') = Len(user) + 1 /\ Len(writer') = Len(user')
         /\ \A id \in DOMAIN user : id \in DOMAIN user' /\ user'[id] = user[id]
         /\ \A id \in DOMAIN user : writer'[id] = writer[id]
         /\ user'[Len(user) + 1] = row /\ writer'[Len(user) + 1] = Nobody
         /\ DOMAIN user' = DOMAIN user \cup {Len(user) + 1}
         /\ DOMAIN user = 1 .. Len(user)
BY DEF UsersTypeOK, Insert

\* A row that is updated keeps all but its password.
LEMMA Updated ==
  ASSUME UsersTypeOK, NEW id \in DOMAIN user, NEW p \in Passwords,
         user' = [user EXCEPT ![id].password = p]
  PROVE  /\ user' \in Seq(Row) /\ DOMAIN user' = DOMAIN user /\ Len(user') = Len(user)
         /\ user'[id].password = p
         /\ \A k \in DOMAIN user : k # id => user'[k] = user[k]
         /\ \A k \in DOMAIN user :
              /\ user'[k].name = user[k].name
              /\ user'[k].is_admin = user[k].is_admin
              /\ user'[k].by = user[k].by
<1>1. user \in Seq(Row) /\ user[id] \in Row BY DEF UsersTypeOK
<1> DEFINE new == [user[id] EXCEPT !.password = p]
<1>2. new \in Row /\ new.password = p /\ new.name = user[id].name
      /\ new.is_admin = user[id].is_admin /\ new.by = user[id].by
  BY <1>1 DEF Row
<1>3. user' = [user EXCEPT ![id] = new] OBVIOUS
<1> HIDE DEF new
<1>4. user' \in Seq(Row) /\ DOMAIN user' = DOMAIN user /\ Len(user') = Len(user)
  BY <1>1, <1>2, <1>3
<1> QED BY <1>1, <1>2, <1>3, <1>4
\* A handler that changes a password or creates a user has an identity with a row.
LEMMA WhoHasRow ==
  ASSUME UsersTypeOK, CookiesTrue, Stages, NEW r \in Requests, who[r] # Nobody
  PROVE  /\ who[r] \in cookies /\ who[r].id \in DOMAIN user /\ who[r].id \in Nat \ {0}
         /\ who[r].is_admin = user[who[r].id].is_admin
<1>1. who[r] \in cookies BY DEF Stages, Stage
<1> QED BY <1>1 DEF CookiesTrue, UsersTypeOK, Identity

\* The row a handler inserts.
LEMMA CreatedRow ==
  ASSUME UsersTypeOK, CookiesTrue, Stages, NEW r \in Requests, CreateUser(r)
  PROVE  [name |-> form[r].name, password |-> form[r].password,
          is_admin |-> form[r].is_admin, by |-> who[r].id] \in Row
<1>1. /\ form[r] \in Forms /\ form[r].kind = "create" /\ who[r] # Nobody
  BY DEF CreateUser, Stages, Stage, InHand
<1>2. who[r].id \in Nat BY <1>1, WhoHasRow
<1> QED BY <1>1, <1>2, FormFields DEF Row

\* The row set-up inserts.
LEMMA FirstRowIsRow ==
  [name |-> Admin, password |-> Default, is_admin |-> TRUE, by |-> 0] \in Row
BY UsersAssumption DEF Row

\* What a change of a password writes.
LEMMA Changed ==
  ASSUME UsersTypeOK, CookiesTrue, Stages, NEW r \in Requests, ChangeWrite(r)
  PROVE  /\ who[r].id \in DOMAIN user /\ form[r].new \in Passwords
         /\ form[r].kind = "change" /\ form[r] \in Forms /\ server = "up"
         /\ user' = [user EXCEPT ![who[r].id].password = form[r].new]
<1>1. form[r] \in Forms /\ form[r].kind = "change" /\ who[r] # Nobody /\ server = "up"
  BY DEF ChangeWrite, Stages, Stage, InHand
<1> QED BY <1>1, WhoHasRow, FormFields DEF ChangeWrite

\* Rows stay, and only their passwords change.
Grows ==
  \A id \in DOMAIN user :
    /\ id \in DOMAIN user'
    /\ user'[id].name = user[id].name
    /\ user'[id].is_admin = user[id].is_admin
    /\ user'[id].by = user[id].by

\* So does every step treat the table.
LEMMA TableGrows ==
  ASSUME UsersTypeOK, CookiesTrue, Stages, [UsersNext]_userVars
  PROVE  Grows
<1>1. CASE SetupInsert
  BY <1>1, Inserted, FirstRowIsRow DEF SetupInsert, Grows
<1>2. ASSUME NEW r \in Requests, CreateUser(r) PROVE Grows
  <2> DEFINE row == [name |-> form[r].name, password |-> form[r].password,
                     is_admin |-> form[r].is_admin, by |-> who[r].id]
  <2>1. row \in Row BY <1>2, CreatedRow
  <2>2. Insert(row) BY <1>2 DEF CreateUser
  <2> HIDE DEF row
  <2> QED BY <2>1, <2>2, Inserted DEF Grows
<1>3. ASSUME NEW r \in Requests, ChangeWrite(r) PROVE Grows
  <2>1. /\ who[r].id \in DOMAIN user /\ form[r].new \in Passwords
        /\ user' = [user EXCEPT ![who[r].id].password = form[r].new]
    BY <1>3, Changed
  <2> QED BY <2>1, Updated DEF Grows
<1>4. CASE user' = user
  BY <1>4 DEF Grows
<1> QED BY <1>1, <1>2, <1>3, <1>4
        DEF UsersNext, Server, Start, SetupCheck, Crash, Handler, Receive, LoginRead,
            LoginName, ChangeRead, HandlerFails, userVars

(***************************************************************************)
(* Every step keeps the invariant.                                         *)
(***************************************************************************)

\* The types.
LEMMA UsersTypeStep ==
  ASSUME UsersTypeOK, CookiesTrue, Stages, [UsersNext]_userVars
  PROVE  UsersTypeOK'
<1> USE UsersAssumption DEF UsersTypeOK, InHand, Replies
<1>1. CASE Start BY <1>1 DEF Start, history
<1>2. CASE SetupCheck BY <1>2 DEF SetupCheck, history
<1>3. CASE SetupInsert
  <2>1. user' \in Seq(Row) /\ writer' \in Seq(Requests \cup {Nobody})
        /\ Len(writer') = Len(user')
    BY <1>3, Inserted, FirstRowIsRow DEF SetupInsert
  <2> QED BY <1>3, <2>1 DEF SetupInsert
<1>4. CASE Crash BY <1>4 DEF Crash, history
<1>5. ASSUME NEW r \in Requests, NEW f \in Forms, NEW i \in cookies \cup {Nobody},
             Receive(r, f, i)
      PROVE  UsersTypeOK'
  <2>1. Entry(f, i) \in {"reading", "unauthorized", "refused", "inserting"}
    BY FormFields DEF Entry
  <2>2. pc' \in [Requests -> {"new"} \cup InHand \cup Replies]
    BY <1>5, <2>1 DEF Receive, Goto
  <2>3. i \in Identity \cup {Nobody} OBVIOUS
  <2> QED BY <1>5, <2>2, <2>3 DEF Receive
<1>6. ASSUME NEW r \in Requests, LoginRead(r) PROVE UsersTypeOK'
  <2>1. \A id \in DOMAIN user : id \in Nat OBVIOUS
  <2>2. verified' \in [Requests -> Nat] BY <1>6, <2>1 DEF LoginRead, Named
  <2>3. \E s \in {"unknown", "naming", "wrong"} : pc' = [pc EXCEPT ![r] = s]
    BY <1>6 DEF LoginRead, Goto
  <2>4. pc' \in [Requests -> {"new"} \cup InHand \cup Replies] BY <2>3
  <2> QED BY <1>6, <2>2, <2>4 DEF LoginRead
<1>7. ASSUME NEW r \in Requests, LoginName(r) PROVE UsersTypeOK'
  <2>1. \A id \in DOMAIN user : IdentityOf(user, id) \in Identity
    BY IdentityOfRow
  <2>2. given' \in [Requests -> Identity \cup {Nobody}] /\ cookies' \in SUBSET Identity
    BY <1>7, <2>1 DEF LoginName, Subject, Named
  <2> QED BY <1>7, <2>2 DEF LoginName, Goto, history
<1>8. ASSUME NEW r \in Requests, ChangeRead(r) PROVE UsersTypeOK'
  BY <1>8 DEF ChangeRead, Goto, history
<1>9. ASSUME NEW r \in Requests, ChangeWrite(r) PROVE UsersTypeOK'
  <2>1. /\ who[r].id \in DOMAIN user /\ form[r].new \in Passwords
        /\ user' = [user EXCEPT ![who[r].id].password = form[r].new]
    BY <1>9, Changed
  <2>2. user' \in Seq(Row) /\ Len(user') = Len(user) BY <2>1, Updated
  <2>3. writer' \in Seq(Requests \cup {Nobody}) /\ Len(writer') = Len(writer)
        /\ overwrote' \in [Requests -> Requests \cup {Nobody}]
    BY <1>9, <2>1 DEF ChangeWrite
  <2> QED BY <1>9, <2>2, <2>3 DEF ChangeWrite, Goto
<1>10. ASSUME NEW r \in Requests, CreateUser(r) PROVE UsersTypeOK'
  <2> DEFINE row == [name |-> form[r].name, password |-> form[r].password,
                     is_admin |-> form[r].is_admin, by |-> who[r].id]
  <2>1. row \in Row BY <1>10, CreatedRow
  <2>2. Insert(row) BY <1>10 DEF CreateUser
  <2> HIDE DEF row
  <2>3. user' \in Seq(Row) /\ writer' \in Seq(Requests \cup {Nobody})
        /\ Len(writer') = Len(user')
    BY <2>1, <2>2, Inserted
  <2> QED BY <1>10, <2>3 DEF CreateUser, Goto
<1>11. ASSUME NEW r \in Requests, HandlerFails(r) PROVE UsersTypeOK'
  BY <1>11 DEF HandlerFails, Goto, history
<1>12. CASE UNCHANGED userVars BY <1>12 DEF userVars, history
<1> QED BY <1>1, <1>2, <1>3, <1>4, <1>5, <1>6, <1>7, <1>8, <1>9, <1>10, <1>11, <1>12
        DEF UsersNext, Server, Handler
\* The steps that sign no identity.
LEMMA Signed ==
  ASSUME UsersTypeOK, [UsersNext]_userVars
  PROVE  \A c \in cookies' : c \in cookies \/ \E id \in DOMAIN user : c = IdentityOf(user, id)
<1>1. ASSUME NEW r \in Requests, LoginName(r)
      PROVE  \A c \in cookies' : c \in cookies \/ \E id \in DOMAIN user : c = IdentityOf(user, id)
  BY <1>1 DEF LoginName, Subject, Named
<1>2. CASE cookies' = cookies BY <1>2
<1> QED BY <1>1, <1>2
        DEF UsersNext, Server, Start, SetupCheck, SetupInsert, Crash, Handler, Receive,
            LoginRead, ChangeRead, ChangeWrite, CreateUser, HandlerFails, userVars

\* Identities stay true, since no row is removed or changes its is_admin.
LEMMA CookiesStep ==
  ASSUME UsersTypeOK, CookiesTrue, Stages, [UsersNext]_userVars
  PROVE  CookiesTrue'
<1> SUFFICES ASSUME NEW c \in cookies'
             PROVE  c.id \in DOMAIN user' /\ c.is_admin = user'[c.id].is_admin
  BY DEF CookiesTrue
<1>1. c.id \in DOMAIN user /\ c.is_admin = user[c.id].is_admin
  BY Signed, IdentityOfRow DEF CookiesTrue
<1> QED BY <1>1, TableGrows DEF Grows

\* Cookies are never taken back.
LEMMA CookiesGrow ==
  ASSUME [UsersNext]_userVars
  PROVE  cookies \subseteq cookies'
BY DEF UsersNext, Server, Start, SetupCheck, SetupInsert, Crash, Handler, Receive,
       LoginRead, LoginName, ChangeRead, ChangeWrite, CreateUser, HandlerFails, userVars

\* What is known of a request holds as long as nothing of it changes but its stage
\* goes to an answer.
LEMMA StageStays ==
  ASSUME Stages, NEW r \in Requests, cookies \subseteq cookies', Grows,
         who'[r] = who[r], form'[r] = form[r], verified'[r] = verified[r],
         pc'[r] = pc[r] \/ pc'[r] \notin InHand,
         pc'[r] \in InHand => server' = server
  PROVE  Stage(r)'
<1>1. Stage(r) BY DEF Stages
<1> QED BY <1>1 DEF Stage, InHand, Named, Grows

\* Every step keeps what the handlers know.
LEMMA StagesStep ==
  ASSUME UsersTypeOK, CookiesTrue, Stages, [UsersNext]_userVars
  PROVE  Stages'
<1>1. Grows /\ cookies \subseteq cookies' BY TableGrows, CookiesGrow
<1> USE DEF UsersTypeOK
<1>2. CASE Start \/ SetupCheck \/ SetupInsert
  <2>1. \A r \in Requests : pc[r] \notin InHand
    BY <1>2 DEF Start, SetupCheck, SetupInsert, Stages, Stage
  <2>2. UNCHANGED <<pc, who, form, verified>>
    BY <1>2 DEF Start, SetupCheck, SetupInsert, history
  <2> QED BY <1>1, <2>1, <2>2, StageStays DEF Stages
<1>3. CASE Crash
  <2>1. \A r \in Requests : pc'[r] \notin InHand
    BY <1>3 DEF Crash, InHand
  <2>2. UNCHANGED <<who, form, verified>>
    BY <1>3 DEF Crash, history
  <2> QED BY <1>1, <2>1, <2>2, StageStays DEF Stages
<1>4. ASSUME NEW r \in Requests, NEW f \in Forms, NEW i \in cookies \cup {Nobody},
             Receive(r, f, i)
      PROVE  Stages'
  <2>1. /\ form' = [form EXCEPT ![r] = f] /\ who' = [who EXCEPT ![r] = i]
        /\ pc' = [pc EXCEPT ![r] = Entry(f, i)]
        /\ UNCHANGED <<server, verified, cookies>> /\ server = "up"
    BY <1>4 DEF Receive, Goto
  <2>2. \A q \in Requests : q # r =>
          who'[q] = who[q] /\ form'[q] = form[q] /\ verified'[q] = verified[q]
            /\ pc'[q] = pc[q] /\ server' = server
    BY <2>1
  <2>3. i # Nobody => i.is_admin \in BOOLEAN
    BY DEF Identity
  <2>4. /\ f.kind = "login" => Entry(f, i) = "reading"
        /\ f.kind = "change" => Entry(f, i) \in {"reading", "unauthorized", "refused"}
        /\ f.kind = "change" /\ i = Nobody => Entry(f, i) = "unauthorized"
        /\ f.kind = "create" => Entry(f, i) \in {"inserting", "unauthorized"}
        /\ f.kind \in {"login", "change", "create"}
    BY FormFields DEF Entry
  <2>5. f.kind = "create" /\ Entry(f, i) = "inserting" => MayCreate(i)
    BY DEF Entry
  <2>6. MayCreate(i) => i # Nobody /\ i.is_admin = TRUE
    BY <2>3 DEF MayCreate
  <2>7. who'[r] = i /\ form'[r] = f /\ pc'[r] = Entry(f, i)
    BY <2>1
  <2> QED BY <1>1, <2>1, <2>2, <2>4, <2>5, <2>6, <2>7, StageStays
          DEF Stages, Stage, InHand
<1>5. ASSUME NEW r \in Requests, LoginRead(r) PROVE Stages'
  <2>1. UNCHANGED <<server, user, who, form, cookies>> BY <1>5 DEF LoginRead
  <2>2. \A q \in Requests : q # r => pc'[q] = pc[q] /\ verified'[q] = verified[q]
    BY <1>5 DEF LoginRead, Goto
  <2>3. \/ pc'[r] \in {"unknown", "wrong"} /\ verified'[r] = verified[r]
        \/ pc'[r] = "naming" /\ verified'[r] \in Named(form[r].name)
    BY <1>5 DEF LoginRead, Goto, Named
  <2>4. pc[r] = "reading" /\ form[r].kind = "login" BY <1>5 DEF LoginRead
  <2>6. server = "up" /\ form[r] \in Forms BY <2>4 DEF Stages, Stage, InHand
  <2> QED BY <1>1, <2>1, <2>2, <2>3, <2>4, <2>6, StageStays
          DEF Stages, Stage, InHand, Named, Grows
<1>6. ASSUME NEW r \in Requests, LoginName(r) PROVE Stages'
  <2>1. UNCHANGED <<server, who, form, verified>> BY <1>6 DEF LoginName, history
  <2>2. \A q \in Requests : pc'[q] = pc[q] \/ pc'[q] \notin InHand
    BY <1>6 DEF LoginName, Goto, InHand
  <2> QED BY <1>1, <2>1, <2>2, StageStays DEF Stages
<1>7. ASSUME NEW r \in Requests, ChangeRead(r) PROVE Stages'
  <2>1. UNCHANGED <<server, who, form, verified, cookies>> BY <1>7 DEF ChangeRead, history
  <2>2. \A q \in Requests : q # r => pc'[q] = pc[q]
    BY <1>7 DEF ChangeRead, Goto
  <2>3. pc'[r] \in {"writing", "wrong"} BY <1>7 DEF ChangeRead, Goto
  <2>4. pc[r] = "reading" /\ form[r].kind = "change" BY <1>7 DEF ChangeRead
  <2>5. server = "up" /\ form[r] \in Forms /\ who[r] # Nobody /\ who[r] \in cookies \cup {Nobody}
    BY <2>4 DEF Stages, Stage, InHand
  <2> QED BY <1>1, <2>1, <2>2, <2>3, <2>4, <2>5, StageStays DEF Stages, Stage, InHand
<1>8. ASSUME NEW r \in Requests, ChangeWrite(r) \/ CreateUser(r) \/ HandlerFails(r) PROVE Stages'
  <2>1. UNCHANGED <<server, who, form, verified>>
    BY <1>8 DEF ChangeWrite, CreateUser, HandlerFails, history
  <2>2. \A q \in Requests : pc'[q] = pc[q] \/ pc'[q] \notin InHand
    BY <1>8 DEF ChangeWrite, CreateUser, HandlerFails, Goto, InHand
  <2> QED BY <1>1, <2>1, <2>2, StageStays DEF Stages
<1>9. CASE UNCHANGED userVars
  BY <1>1, <1>9, StageStays DEF Stages, userVars, history
<1> QED BY <1>2, <1>3, <1>4, <1>5, <1>6, <1>7, <1>8, <1>9 DEF UsersNext, Server, Handler

\* A row names its creator by a number.
LEMMA ByIsNat ==
  ASSUME UsersTypeOK
  PROVE  \A id \in DOMAIN user : user[id].by \in Nat
<1> SUFFICES ASSUME NEW id \in DOMAIN user PROVE user[id].by \in Nat OBVIOUS
<1>1. user[id] \in Row BY DEF UsersTypeOK
<1> QED BY <1>1 DEF Row

\* Set-up inserts only into an empty table, and nobody else does.
LEMMA FirstRowStep ==
  ASSUME UsersTypeOK, CookiesTrue, Stages, FirstRow, [UsersNext]_userVars
  PROVE  FirstRow'
<1> USE DEF UsersTypeOK
<1>1. CASE user' = user /\ server' # "inserting" /\ (server' = "up" => server = "up")
  BY <1>1 DEF FirstRow
<1>2. CASE SetupCheck
  <2>1. user # <<>> => Named(Admin) # {}
    <3>1. user # <<>> => 1 \in DOMAIN user OBVIOUS
    <3> QED BY <3>1 DEF FirstRow, LeftBehind, Named
  <2>2. user = <<>> => Named(Admin) = {} BY DEF Named
  <2> QED BY <1>2, <2>1, <2>2 DEF SetupCheck, SetupMissing, FirstRow
<1>3. CASE SetupInsert
  <2> DEFINE row == [name |-> Admin, password |-> Default, is_admin |-> TRUE, by |-> 0]
  <2>1. row \in Row /\ Insert(row) BY <1>3, FirstRowIsRow DEF SetupInsert
  <2>2. user = <<>> /\ server' = "up" BY <1>3 DEF SetupInsert, FirstRow
  <2>3. row.by = 0 /\ row.name = Admin /\ row.is_admin = TRUE OBVIOUS
  <2> HIDE DEF row
  <2>4. DOMAIN user' = {1} /\ user'[1] = row BY <2>1, <2>2, Inserted
  <2>5. user' # <<>>
    <3>1. Len(user') = Len(user) + 1 /\ Len(user) \in Nat BY <2>1, Inserted
    <3> QED BY <3>1
  <2> QED BY <2>2, <2>3, <2>4, <2>5 DEF FirstRow, LeftBehind
<1>4. ASSUME NEW r \in Requests, CreateUser(r) PROVE FirstRow'
  <2> DEFINE row == [name |-> form[r].name, password |-> form[r].password,
                     is_admin |-> form[r].is_admin, by |-> who[r].id]
  <2>1. row \in Row BY <1>4, CreatedRow
  <2>2. Insert(row) /\ server' = server BY <1>4 DEF CreateUser
  <2>3. row.by = who[r].id OBVIOUS
  <2> HIDE DEF row
  <2>4. who[r] # Nobody /\ who[r].is_admin = TRUE /\ server = "up"
    BY <1>4 DEF CreateUser, Stages, Stage, InHand
  <2>5. /\ who[r].id \in DOMAIN user /\ user[who[r].id].is_admin = TRUE
        /\ who[r].id \in 1 .. Len(user)
    BY <2>4, WhoHasRow
  <2>6. /\ DOMAIN user' = DOMAIN user \cup {Len(user) + 1} /\ DOMAIN user = 1 .. Len(user)
        /\ user'[Len(user) + 1] = row
        /\ \A id \in DOMAIN user : user'[id] = user[id]
    BY <2>1, <2>2, Inserted
  <2>7. LeftBehind(user) /\ Len(user) \in Nat BY DEF FirstRow
  <2>8. \A id \in DOMAIN user : user[id].by \in Nat BY ByIsNat
  <2>9. ASSUME NEW id \in DOMAIN user
        PROVE  /\ user'[id].by = 0 <=> id = 1
               /\ user'[id].by < id
               /\ id > 1 => user'[user'[id].by].is_admin
               /\ id = 1 => user'[id].name = Admin /\ user'[id].is_admin
    <3>1. id > 1 => user[id].by \in DOMAIN user
      BY <2>6, <2>7, <2>8 DEF LeftBehind
    <3> QED BY <2>6, <2>7, <3>1 DEF LeftBehind
  <2>10. LET id == Len(user) + 1 IN
           /\ user'[id].by = 0 <=> id = 1
           /\ user'[id].by < id
           /\ id > 1 => user'[user'[id].by].is_admin
           /\ id = 1 => user'[id].name = Admin /\ user'[id].is_admin
    BY <2>3, <2>5, <2>6, <2>7
  <2>11. LeftBehind(user') BY <2>6, <2>9, <2>10 DEF LeftBehind
  <2>12. user' # <<>>
    <3>1. Len(user') = Len(user) + 1 /\ Len(user) \in Nat BY <2>1, <2>2, Inserted
    <3> QED BY <3>1
  <2> QED BY <2>2, <2>4, <2>11, <2>12 DEF FirstRow
<1>5. ASSUME NEW r \in Requests, ChangeWrite(r) PROVE FirstRow'
  <2>1. /\ who[r].id \in DOMAIN user /\ form[r].new \in Passwords /\ server = "up"
        /\ user' = [user EXCEPT ![who[r].id].password = form[r].new]
    BY <1>5, Changed
  <2>2. DOMAIN user' = DOMAIN user /\ user' \in Seq(Row)
        /\ \A k \in DOMAIN user : user'[k].name = user[k].name
              /\ user'[k].is_admin = user[k].is_admin /\ user'[k].by = user[k].by
    BY <2>1, Updated
  <2>3. LeftBehind(user) BY DEF FirstRow
  <2>4. ASSUME NEW k \in DOMAIN user, k > 1 PROVE user[k].by \in DOMAIN user
    <3>1. user[k].by \in Nat /\ DOMAIN user = 1 .. Len(user) BY ByIsNat
    <3> QED BY <2>3, <2>4, <3>1 DEF LeftBehind
  <2>5. LeftBehind(user') BY <2>2, <2>3, <2>4 DEF LeftBehind
  <2>6. user' # <<>> BY <2>1, <2>2
  <2>7. server' = server BY <1>5 DEF ChangeWrite
  <2> QED BY <2>1, <2>5, <2>6, <2>7 DEF FirstRow
<1>6. CASE UNCHANGED userVars BY <1>6 DEF userVars, FirstRow
<1>7. ASSUME NEW r \in Requests,
             LoginRead(r) \/ LoginName(r) \/ ChangeRead(r) \/ HandlerFails(r)
      PROVE  FirstRow'
  <2>1. UNCHANGED <<server, user>> BY <1>7 DEF LoginRead, LoginName, ChangeRead, HandlerFails
  <2> QED BY <2>1 DEF FirstRow
<1> QED BY <1>1, <1>2, <1>3, <1>4, <1>5, <1>6, <1>7
        DEF UsersNext, Server, Handler, Start, Crash, Receive
\* A login is answered with an identity it signs in the same step, and that
\* identity has the name of the form, as the verified row has.
LEMMA LoginsStep ==
  ASSUME UsersTypeOK, CookiesTrue, Stages, Logins, LoginIsOwn, [UsersNext]_userVars
  PROVE  Logins' /\ LoginIsOwn'
<1> USE DEF UsersTypeOK
<1> DEFINE Own(r) == /\ user[given[r].id].name = form[r].name
                     /\ \/ given[r].id = verified[r]
                        \/ \E i, k \in Named(form[r].name) : i # k
<1>1. Grows /\ cookies \subseteq cookies' BY TableGrows, CookiesGrow
<1>2. ASSUME NEW r \in Requests, pc[r] = "in", given'[r] = given[r], form'[r] = form[r],
             verified'[r] = verified[r]
      PROVE  given'[r] \in cookies' /\ Own(r)'
  <2>1. given[r] \in cookies /\ given[r].id \in DOMAIN user
    BY <1>2 DEF Logins, CookiesTrue
  <2>2. Own(r) BY <1>2 DEF LoginIsOwn
  <2> QED BY <1>1, <1>2, <2>1, <2>2 DEF Grows, Named
<1>3. ASSUME NEW r \in Requests, LoginName(r)
      PROVE  given'[r] \in cookies' /\ Own(r)'
  <2>1. PICK id \in Named(form[r].name) : /\ given' = [given EXCEPT ![r] = IdentityOf(user, id)]
                                          /\ cookies' = cookies \cup {IdentityOf(user, id)}
    BY <1>3 DEF LoginName, Subject
  <2>2. UNCHANGED <<user, form, verified>> BY <1>3 DEF LoginName, history
  <2>3. verified[r] \in Named(form[r].name) BY <1>3 DEF LoginName, Stages, Stage, InHand
  <2>4. given'[r] = IdentityOf(user, id) BY <2>1
  <2>5. id \in DOMAIN user /\ user[id].name = form[r].name BY <2>1 DEF Named
  <2>6. given'[r].id = id BY <2>4, <2>5, IdentityOfRow
  <2> QED BY <2>1, <2>2, <2>3, <2>4, <2>5, <2>6 DEF Named
<1>4. ASSUME NEW r \in Requests, pc'[r] = "in", ~LoginName(r)
      PROVE  pc[r] = "in" /\ given'[r] = given[r] /\ form'[r] = form[r]
                /\ verified'[r] = verified[r]
  <2>1. CASE Server \/ UNCHANGED userVars
    BY <1>4, <2>1 DEF Server, Start, SetupCheck, SetupInsert, Crash, userVars, history
  <2>2. ASSUME NEW q \in Requests, NEW f \in Forms, NEW i \in cookies \cup {Nobody},
               Receive(q, f, i)
        PROVE  pc[r] = "in" /\ given'[r] = given[r] /\ form'[r] = form[r]
                 /\ verified'[r] = verified[r]
    <3>1. Entry(f, i) # "in" BY FormFields DEF Entry
    <3> QED BY <1>4, <2>2, <3>1 DEF Receive, Goto
  <2>3. ASSUME NEW q \in Requests, q # r, LoginName(q)
        PROVE  pc[r] = "in" /\ given'[r] = given[r] /\ form'[r] = form[r]
                 /\ verified'[r] = verified[r]
    BY <1>4, <2>3 DEF LoginName, Goto, history
  <2>4. ASSUME NEW q \in Requests,
               LoginRead(q) \/ ChangeRead(q) \/ ChangeWrite(q) \/ CreateUser(q)
                 \/ HandlerFails(q)
        PROVE  pc[r] = "in" /\ given'[r] = given[r] /\ form'[r] = form[r]
                 /\ verified'[r] = verified[r]
    BY <1>4, <2>4 DEF LoginRead, ChangeRead, ChangeWrite, CreateUser, HandlerFails, Goto,
                      history
  <2> QED BY <1>4, <2>1, <2>2, <2>3, <2>4 DEF UsersNext, Handler
<1> SUFFICES ASSUME NEW r \in Requests, pc'[r] = "in"
             PROVE  given'[r] \in cookies' /\ Own(r)'
  BY DEF Logins, LoginIsOwn
<1>5. CASE LoginName(r) BY <1>3, <1>5
<1>6. CASE ~LoginName(r) BY <1>2, <1>4, <1>6
<1> QED BY <1>5, <1>6
\* A step that writes no password and answers no change keeps what is known of
\* the writers.
LEMMA WritersStay ==
  ASSUME UsersTypeOK, CookiesTrue, Stages, Writers, NoBlindOverwrite,
         user' = user, writer' = writer, overwrote' = overwrote,
         \A q \in Requests : pc[q] \in Written => pc'[q] = pc[q],
         form' = form, before' = before,
         \A r \in Requests : pc'[r] = "writing" => pc[r] = "writing" /\ who'[r] = who[r]
  PROVE  Writers' /\ NoBlindOverwrite'
<1> USE DEF UsersTypeOK, Written
<1>1. \A id \in DOMAIN user : writer[id] \in Requests \cup {Nobody} OBVIOUS
<1>2. \A r \in Requests : before[r] \subseteq Requests OBVIOUS
<1>3. NoBlindOverwrite' BY DEF NoBlindOverwrite
<1>4. \A id \in DOMAIN user' :
        writer'[id] # Nobody =>
          pc'[writer'[id]] \in Written /\ user'[id].password = form'[writer'[id]].new
  BY <1>1 DEF Writers
<1>5. /\ \A r \in Requests : \A q \in before'[r] : pc'[q] = "changed"
      /\ \A r \in Requests : overwrote'[r] # Nobody => pc'[r] \in Written
  BY <1>2 DEF Writers
<1>6. \A r \in Requests :
        pc'[r] = "writing" /\ writer'[who'[r].id] \in before'[r] =>
          form'[r].old = form'[writer'[who'[r].id]].new
  BY DEF Writers
<1> QED BY <1>3, <1>4, <1>5, <1>6 DEF Writers

\* A row that is inserted has no writer.
LEMMA WritersInsert ==
  ASSUME UsersTypeOK, CookiesTrue, Stages, Writers, NoBlindOverwrite,
         NEW row \in Row, Insert(row),
         UNCHANGED <<overwrote, form, before, who>>,
         \A q \in Requests : pc[q] \in Written => pc'[q] = pc[q],
         \A q \in Requests : pc'[q] = "writing" => pc[q] = "writing"
  PROVE  Writers' /\ NoBlindOverwrite'
<1> USE DEF UsersTypeOK, Written
<1>1. \A id \in DOMAIN user : writer[id] \in Requests \cup {Nobody} OBVIOUS
<1>2. \A r \in Requests : before[r] \subseteq Requests OBVIOUS
<1>3. \A r \in Requests : pc[r] = "writing" => who[r].id \in DOMAIN user
  BY WhoHasRow DEF Stages, Stage
<1>4. /\ \A id \in DOMAIN user : user'[id] = user[id] /\ writer'[id] = writer[id]
      /\ writer'[Len(user) + 1] = Nobody
      /\ DOMAIN user' = DOMAIN user \cup {Len(user) + 1}
  BY Inserted
<1>5. NoBlindOverwrite' BY DEF NoBlindOverwrite
<1>6. \A id \in DOMAIN user' :
        writer'[id] # Nobody =>
          pc'[writer'[id]] \in Written /\ user'[id].password = form'[writer'[id]].new
  <2> SUFFICES ASSUME NEW id \in DOMAIN user', writer'[id] # Nobody
               PROVE  /\ pc'[writer'[id]] \in Written
                      /\ user'[id].password = form'[writer'[id]].new
    OBVIOUS
  <2>1. id \in DOMAIN user BY <1>4
  <2>2. user'[id] = user[id] /\ writer'[id] = writer[id] /\ form' = form BY <1>4, <2>1
  <2>3. writer[id] \in Requests BY <1>1, <2>1, <2>2
  <2>4. pc[writer[id]] \in Written /\ user[id].password = form[writer[id]].new
    BY <2>1, <2>2 DEF Writers
  <2> QED BY <2>2, <2>3, <2>4
<1>7. /\ \A r \in Requests : \A q \in before'[r] : pc'[q] = "changed"
      /\ \A r \in Requests : overwrote'[r] # Nobody => pc'[r] \in Written
  BY <1>2 DEF Writers
<1>8. \A r \in Requests :
        pc'[r] = "writing" /\ writer'[who'[r].id] \in before'[r] =>
          form'[r].old = form'[writer'[who'[r].id]].new
  BY <1>3, <1>4 DEF Writers
<1> QED BY <1>5, <1>6, <1>7, <1>8 DEF Writers

\* Every step keeps what is known of the writers: a change that is answered was
\* not answered before any other came that is in hand.
LEMMA WritersStep ==
  ASSUME UsersTypeOK, CookiesTrue, Stages, Writers, NoBlindOverwrite,
         [UsersNext]_userVars
  PROVE  Writers' /\ NoBlindOverwrite'
<1> USE DEF UsersTypeOK, Written
<1>1. \A id \in DOMAIN user : writer[id] \in Requests \cup {Nobody} OBVIOUS
<1>2. \A r \in Requests : before[r] \subseteq Requests OBVIOUS
<1>3. CASE Start \/ SetupCheck \/ UNCHANGED userVars
  BY <1>3, WritersStay DEF Start, SetupCheck, userVars, history
<1>4. CASE Crash
  BY <1>4, WritersStay DEF Crash, history, InHand
<1>5. CASE SetupInsert
  BY <1>5, WritersInsert, FirstRowIsRow DEF SetupInsert
<1>6. ASSUME NEW r \in Requests, CreateUser(r) PROVE Writers' /\ NoBlindOverwrite'
  <2> DEFINE row == [name |-> form[r].name, password |-> form[r].password,
                     is_admin |-> form[r].is_admin, by |-> who[r].id]
  <2>1. row \in Row BY <1>6, CreatedRow
  <2>2. /\ Insert(row) /\ UNCHANGED <<overwrote, form, before, who>>
        /\ \A q \in Requests : pc[q] \in Written => pc'[q] = pc[q]
        /\ \A q \in Requests : pc'[q] = "writing" => pc[q] = "writing"
    BY <1>6 DEF CreateUser, Goto
  <2> HIDE DEF row
  <2> QED BY <2>1, <2>2, WritersInsert
<1>7. ASSUME NEW r \in Requests, LoginRead(r) \/ LoginName(r) \/ HandlerFails(r)
      PROVE  Writers' /\ NoBlindOverwrite'
  BY <1>7, WritersStay DEF LoginRead, LoginName, HandlerFails, InHand, Goto, history
<1>8. ASSUME NEW r \in Requests, NEW f \in Forms, NEW i \in cookies \cup {Nobody},
             Receive(r, f, i)
      PROVE  Writers' /\ NoBlindOverwrite'
  <2>1. Entry(f, i) \notin {"changed", "error", "writing"} BY FormFields DEF Entry
  <2>2. /\ UNCHANGED <<user, writer, overwrote>> /\ pc[r] = "new" /\ pc'[r] = Entry(f, i)
        /\ \A q \in Requests : q # r =>
             pc'[q] = pc[q] /\ form'[q] = form[q] /\ who'[q] = who[q] /\ before'[q] = before[q]
        /\ \A q \in before'[r] : q \in Requests /\ pc[q] = "changed"
    BY <1>8 DEF Receive, Goto
  <2>3. NoBlindOverwrite'
    <3> SUFFICES ASSUME NEW a \in Requests, NEW b \in Requests,
                        overwrote[a] = b, b \in before'[a]
                 PROVE  form'[a].old = form'[b].new
      BY <2>2 DEF NoBlindOverwrite
    <3>1. pc[a] \in Written BY UsersAssumption DEF Writers
    <3>2. a # r BY <2>2, <3>1
    <3>3. pc[b] = "changed" BY <2>2, <3>2 DEF Writers
    <3> QED BY <2>2, <3>2, <3>3 DEF NoBlindOverwrite
  <2>4. \A id \in DOMAIN user' :
          writer'[id] # Nobody =>
            pc'[writer'[id]] \in Written /\ user'[id].password = form'[writer'[id]].new
    BY <1>1, <2>2 DEF Writers
  <2>5. /\ \A a \in Requests : \A b \in before'[a] : pc'[b] = "changed"
        /\ \A a \in Requests : overwrote'[a] # Nobody => pc'[a] \in Written
    BY <1>2, <2>2 DEF Writers
  <2>6. ASSUME NEW a \in Requests, pc'[a] = "writing", writer'[who'[a].id] \in before'[a]
        PROVE  form'[a].old = form'[writer'[who'[a].id]].new
    <3>1. a # r BY <2>1, <2>2, <2>6
    <3>2. pc[a] = "writing" /\ writer[who[a].id] \in before[a] BY <2>2, <2>6, <3>1
    <3>3. pc[writer[who[a].id]] = "changed" /\ writer[who[a].id] \in Requests
      BY <1>2, <3>2 DEF Writers
    <3>4. writer[who[a].id] # r BY <2>2, <3>3
    <3>5. /\ form'[a] = form[a] /\ who'[a] = who[a] /\ writer' = writer
          /\ form'[writer[who[a].id]] = form[writer[who[a].id]]
      BY <2>2, <3>1, <3>3, <3>4
    <3>6. form[a].old = form[writer[who[a].id]].new BY <3>2 DEF Writers
    <3> QED BY <3>5, <3>6
  <2> QED BY <2>3, <2>4, <2>5, <2>6 DEF Writers
<1>9. ASSUME NEW r \in Requests, ChangeRead(r) PROVE Writers' /\ NoBlindOverwrite'
  <2>1. /\ UNCHANGED <<user, writer, overwrote, form, who, before>>
        /\ \A q \in Requests : q # r => pc'[q] = pc[q]
        /\ pc'[r] \in {"writing", "wrong"} /\ pc[r] = "reading"
        /\ pc'[r] = "writing" => user[who[r].id].password = form[r].old
    BY <1>9 DEF ChangeRead, Goto, OldMatches, history
  <2>2. who[r].id \in DOMAIN user
    BY <1>9, WhoHasRow DEF ChangeRead, Stages, Stage
  <2>3. NoBlindOverwrite' BY <2>1 DEF NoBlindOverwrite
  <2>4. \A id \in DOMAIN user' :
          writer'[id] # Nobody =>
            pc'[writer'[id]] \in Written /\ user'[id].password = form'[writer'[id]].new
    BY <1>1, <2>1 DEF Writers
  <2>5. /\ \A a \in Requests : \A b \in before'[a] : pc'[b] = "changed"
        /\ \A a \in Requests : overwrote'[a] # Nobody => pc'[a] \in Written
    BY <1>2, <2>1 DEF Writers
  <2>6. writer[who[r].id] \in before[r] /\ pc'[r] = "writing" =>
          form[r].old = form[writer[who[r].id]].new
    BY <1>2, <2>1, <2>2, UsersAssumption DEF Writers
  <2>7. \A a \in Requests :
          pc'[a] = "writing" /\ writer'[who'[a].id] \in before'[a] =>
            form'[a].old = form'[writer'[who'[a].id]].new
    BY <2>1, <2>6 DEF Writers
  <2> QED BY <2>3, <2>4, <2>5, <2>7 DEF Writers
<1>10. ASSUME NEW r \in Requests, ChangeWrite(r) PROVE Writers' /\ NoBlindOverwrite'
  <2>1. /\ who[r].id \in DOMAIN user /\ form[r].new \in Passwords
        /\ user' = [user EXCEPT ![who[r].id].password = form[r].new]
    BY <1>10, Changed
  <2>2. /\ DOMAIN user' = DOMAIN user /\ user'[who[r].id].password = form[r].new
        /\ \A k \in DOMAIN user : k # who[r].id => user'[k] = user[k]
    BY <2>1, Updated
  <2>3. /\ pc[r] = "writing" /\ pc'[r] \in Written
        /\ \A q \in Requests : q # r => pc'[q] = pc[q] /\ overwrote'[q] = overwrote[q]
        /\ UNCHANGED <<form, who, before>>
        /\ overwrote'[r] = writer[who[r].id]
        /\ writer' = [writer EXCEPT ![who[r].id] = r]
    BY <1>10 DEF ChangeWrite, Goto
  <2>4. /\ writer'[who[r].id] = r
        /\ \A k \in Nat : k # who[r].id => writer'[k] = writer[k]
    <3>1. DOMAIN writer = DOMAIN user OBVIOUS
    <3> QED BY <2>1, <2>3, <3>1
  <2>5. NoBlindOverwrite'
    <3> SUFFICES ASSUME NEW a \in Requests, NEW b \in Requests,
                        overwrote'[a] = b, b \in before[a]
                 PROVE  form[a].old = form[b].new
      BY <2>3 DEF NoBlindOverwrite
    <3>1. CASE a = r BY <2>3, <3>1 DEF Writers
    <3>2. CASE a # r BY <2>3, <3>2 DEF NoBlindOverwrite
    <3> QED BY <3>1, <3>2
  <2>6. \A id \in DOMAIN user' :
          writer'[id] # Nobody =>
            pc'[writer'[id]] \in Written /\ user'[id].password = form'[writer'[id]].new
    <3> SUFFICES ASSUME NEW id \in DOMAIN user, writer'[id] # Nobody
                 PROVE  /\ pc'[writer'[id]] \in Written
                        /\ user'[id].password = form[writer'[id]].new
      BY <2>2, <2>3
    <3>1. CASE id = who[r].id BY <2>2, <2>3, <2>4, <3>1
    <3>2. CASE id # who[r].id
      <4>1. id \in Nat OBVIOUS
      <4>2. user'[id] = user[id] /\ writer'[id] = writer[id] BY <2>2, <2>4, <3>2, <4>1
      <4>3. writer[id] \in Requests /\ pc[writer[id]] \in Written
        BY <1>1, <4>2 DEF Writers
      <4>4. pc'[writer[id]] = pc[writer[id]] BY <2>3, <4>3
      <4> QED BY <4>2, <4>3, <4>4 DEF Writers
    <3> QED BY <3>1, <3>2
  <2>7. /\ \A a \in Requests : \A b \in before'[a] : pc'[b] = "changed"
        /\ \A a \in Requests : overwrote'[a] # Nobody => pc'[a] \in Written
    BY <1>2, <2>3 DEF Writers
  <2>8. ASSUME NEW a \in Requests, pc'[a] = "writing", writer'[who'[a].id] \in before'[a]
        PROVE  form'[a].old = form'[writer'[who'[a].id]].new
    <3>1. a # r /\ pc[a] = "writing" BY <2>3, <2>8
    <3>2. r \notin before[a] BY <2>3 DEF Writers
    <3>3. who[a].id # who[r].id BY <2>3, <2>4, <2>8, <3>2
    <3>4. who[a].id \in Nat BY <3>1, WhoHasRow DEF Stages, Stage
    <3>5. who'[a] = who[a] /\ form' = form /\ before' = before BY <2>3
    <3>6. writer'[who[a].id] = writer[who[a].id] BY <2>4, <3>3, <3>4
    <3>7. writer[who[a].id] \in before[a] BY <2>8, <3>5, <3>6
    <3>8. form[a].old = form[writer[who[a].id]].new BY <3>1, <3>7 DEF Writers
    <3> QED BY <3>5, <3>6, <3>8
  <2> QED BY <2>5, <2>6, <2>7, <2>8 DEF Writers
<1> QED BY <1>3, <1>4, <1>5, <1>6, <1>7, <1>8, <1>9, <1>10 DEF UsersNext, Server, Handler
(***************************************************************************)
(* The invariant, and the properties it implies.                           *)
(***************************************************************************)

\* A server that has not been started on a table of an earlier run satisfies it.
LEMMA UsersInvInit == UsersInit => UsersInv
<1> SUFFICES ASSUME UsersInit PROVE UsersInv OBVIOUS
<1>1. user \in Seq(Row) /\ LeftBehind(user) /\ server = "down"
  BY UsersAssumption DEF UsersInit
<1>2. \A id \in DOMAIN user :
        /\ IdentityOf(user, id) \in Identity /\ IdentityOf(user, id).id = id
        /\ IdentityOf(user, id).is_admin = user[id].is_admin
  <2> SUFFICES ASSUME NEW id \in DOMAIN user
               PROVE  /\ IdentityOf(user, id) \in Identity /\ IdentityOf(user, id).id = id
                      /\ IdentityOf(user, id).is_admin = user[id].is_admin
    OBVIOUS
  <2>1. user[id] \in Row /\ id \in Nat \ {0} BY <1>1
  <2>2. user[id].is_admin \in BOOLEAN BY <2>1 DEF Row
  <2> QED BY <2>1, <2>2 DEF IdentityOf, Identity
<1>3. CookiesTrue BY <1>2 DEF UsersInit, CookiesTrue
<1>4. writer \in Seq(Requests \cup {Nobody}) /\ Len(writer) = Len(user)
  <2>1. DOMAIN user = 1 .. Len(user) /\ Len(user) \in Nat BY <1>1
  <2> DEFINE none == [id \in 1 .. Len(user) |-> Nobody]
  <2>2. writer = none BY <2>1 DEF UsersInit
  <2>3. none \in Seq(Requests \cup {Nobody}) /\ Len(none) = Len(user) BY <2>1
  <2> QED BY <2>2, <2>3
<1>5. UsersTypeOK
  BY <1>1, <1>2, <1>4, UsersAssumption DEF UsersInit, UsersTypeOK
<1>6. Stages BY DEF UsersInit, Stages, Stage, InHand
<1>7. FirstRow BY <1>1 DEF FirstRow
<1>8. Logins /\ LoginIsOwn BY DEF UsersInit, Logins, LoginIsOwn
<1>9. Writers /\ NoBlindOverwrite BY DEF UsersInit, Writers, NoBlindOverwrite
<1> QED BY <1>3, <1>5, <1>6, <1>7, <1>8, <1>9 DEF UsersInv

\* Every step keeps it.
LEMMA UsersInvStep == UsersInv /\ [UsersNext]_userVars => UsersInv'
BY UsersTypeStep, CookiesStep, StagesStep, FirstRowStep, LoginsStep, WritersStep
   DEF UsersInv

\* The handlers and the set-up, whoever sends the requests, keep the invariant:
\* true cookies, handlers that know what they verified, one first row.
THEOREM UsersInvariant == UsersSpec => []UsersInv
BY UsersInvInit, UsersInvStep, PTL DEF UsersSpec

\* The first row is the administrator of set-up, and there is no other.
LEMMA SetUp ==
  ASSUME UsersInv
  PROVE  SetupOnce
<1>1. LeftBehind(user) /\ (server = "up" => user # <<>>) BY DEF UsersInv, FirstRow
<1>2. \A i, k \in DOMAIN user : user[i].by = 0 /\ user[k].by = 0 => i = k
  BY <1>1 DEF LeftBehind
<1>3. ASSUME server = "up" PROVE \E i \in Named(Admin) : user[i].by = 0 /\ user[i].is_admin
  <2>1. 1 \in DOMAIN user BY <1>1, <1>3 DEF UsersInv, UsersTypeOK
  <2> QED BY <1>1, <2>1 DEF LeftBehind, Named
<1> QED BY <1>2, <1>3 DEF SetupOnce

\* All other rows have an administrator before them that made them.
LEMMA MadeByAdmins ==
  ASSUME UsersInv
  PROVE  AdminsMakeUsers
<1>1. LeftBehind(user) /\ \A id \in DOMAIN user : id \in Nat \ {0}
  BY DEF UsersInv, FirstRow, UsersTypeOK
<1> QED BY <1>1 DEF LeftBehind, AdminsMakeUsers
=============================================================================
