---------------------------- MODULE SessionProofs ----------------------------
(***************************************************************************)
(* Theorems about the browser and its cookies, for any number of forms and *)
(* pages, and what the invariant of the users says of the whole.           *)
(***************************************************************************)
EXTENDS Session, UsersProofs

(***************************************************************************)
(* The browser sends forms like any other client.                          *)
(***************************************************************************)

\* Every step is one of the users, or leaves them alone.
LEMMA UsersStep == [Next]_vars => [UsersNext]_userVars
<1> SUFFICES ASSUME [Next]_vars PROVE [UsersNext]_userVars OBVIOUS
<1>1. CASE Server BY <1>1 DEF UsersNext
<1>2. ASSUME NEW r \in Requests, Handler(r) PROVE UsersNext
  BY <1>2 DEF UsersNext
<1>3. ASSUME NEW r \in Requests, Post(r) PROVE UsersNext
  BY <1>3 DEF Post, Receive, UsersNext
<1>4. CASE UNCHANGED userVars BY <1>4
<1> QED BY <1>1, <1>2, <1>3, <1>4 DEF Next, Answer, Browse, Load, Deliver, vars

\* The browser's requests are requests of module Users: what holds there for any
\* client holds here.
THEOREM ImplementsUsers == Spec => UsersSpec
<1>1. Init => UsersInit BY DEF Init
<1> QED BY <1>1, UsersStep, PTL DEF Spec, UsersSpec

\* A login answers with the identity whose password it verified, or with that of a
\* namesake.
THEOREM LoginsAreOwn == Spec => []LoginIsOwn
<1>1. UsersInv => LoginIsOwn BY DEF UsersInv
<1> QED BY <1>1, ImplementsUsers, UsersInvariant, PTL

\* A change of a password that came after another was answered replaces it only
\* with the password the other had set.
THEOREM ChangesKnowWhatTheyReplace == Spec => []NoBlindOverwrite
<1>1. UsersInv => NoBlindOverwrite BY DEF UsersInv
<1> QED BY <1>1, ImplementsUsers, UsersInvariant, PTL

\* Every user but the first was made by an administrator.
THEOREM UsersAreMadeByAdmins == Spec => []AdminsMakeUsers
<1>1. UsersInv => AdminsMakeUsers BY MadeByAdmins
<1> QED BY <1>1, ImplementsUsers, UsersInvariant, PTL

\* However many crashes there are, set-up makes one administrator, before the
\* server listens.
THEOREM SetupRunsOnce == Spec => []SetupOnce
<1>1. UsersInv => SetupOnce BY SetUp
<1> QED BY <1>1, ImplementsUsers, UsersInvariant, PTL
(***************************************************************************)
(* The cookies.                                                            *)
(***************************************************************************)

\* The browser's part of the type invariant.
BrowserTypeOK ==
  /\ identity \in cookies \cup {Nobody}
  /\ flash \in Exchanges \cup {Nobody}
  /\ page \in [Pages -> PageStates]
  /\ carried \in [Exchanges -> Exchanges \cup {Nobody}]
  /\ got \in SUBSET Exchanges
  /\ shown \in [Exchanges -> Nat]
  /\ tidy \in BOOLEAN

\* A message that is about, or was shown, came with a response the browser has.
MessagesCame ==
  /\ flash # Nobody => flash \in got
  /\ \A x \in Exchanges : carried[x] # Nobody => carried[x] \in got
  /\ \A x \in Exchanges : shown[x] # 0 => x \in got

\* What the browser has was answered.
Answered ==
  /\ \A g \in Pages : g \in got => page[g] \notin {"new", "lost"}
  /\ \A r \in Requests : r \in got => pc[r] \in Replies \ {"lost"}

\* Nothing but a login is done, or fails, without an identity.
Authorized ==
  \A r \in Requests :
    pc[r] \notin {"new", "unauthorized", "lost"} /\ form[r].kind # "login" =>
      who[r] # Nobody

\* A tidy browser waits for one response at most, of a request that carries the
\* identity and the message there are; if there is a message, of a page that shows it
\* or fails.
OneAtATime ==
  tidy =>
    \A x \in InFlight :
      /\ InFlight = {x}
      /\ carried[x] = flash
      /\ flash # Nobody => x \in Pages /\ page[x] \in {"shown", "error"}
      /\ x \in Requests => who[x] = identity
      /\ x \in Pages /\ page[x] = "early" => identity # Nobody

\* A tidy browser that a message sends to a private page is logged in.
Redirected ==
  tidy /\ flash # Nobody /\ "private" \in LeadsTo(flash) => identity # Nobody

SessionInv ==
  /\ UsersInv
  /\ BrowserTypeOK
  /\ MessagesCame
  /\ Answered
  /\ Authorized
  /\ OneAtATime
  /\ Redirected
  /\ MessageNeverReturns
  /\ MessageShownOnce

\* No request is a page, and none is Nobody.
LEMMA Kept ==
  /\ Requests \subseteq Exchanges /\ Pages \subseteq Exchanges
  /\ Requests \cap Pages = {} /\ Nobody \notin Exchanges
BY UsersAssumption, SessionAssumption DEF Exchanges

\* A request that is sent keeps the types and moves no message.
LEMMA Sent ==
  ASSUME BrowserTypeOK, MessagesCame, NEW x \in Exchanges, NEW kind, Send(x, kind)
  PROVE  /\ UNCHANGED <<identity, flash, got, shown>>
         /\ carried' = [carried EXCEPT ![x] = flash]
         /\ carried' \in [Exchanges -> Exchanges \cup {Nobody}]
         /\ tidy' \in BOOLEAN
         /\ MessagesCame'
<1>1. /\ UNCHANGED <<identity, flash, got, shown>>
      /\ carried' = [carried EXCEPT ![x] = flash]
      /\ tidy' \in BOOLEAN
  BY DEF Send
<1>2. carried' \in [Exchanges -> Exchanges \cup {Nobody}] BY <1>1 DEF BrowserTypeOK
<1>3. \A y \in Exchanges : carried'[y] # Nobody => carried'[y] \in got'
  BY <1>1 DEF BrowserTypeOK, MessagesCame
<1>4. MessagesCame' BY <1>1, <1>3 DEF MessagesCame
<1> QED BY <1>1, <1>2, <1>4

\* How a response changes the message and the counts.
LEMMA Delivered ==
  ASSUME BrowserTypeOK, MessagesCame, MessageNeverReturns,
         NEW x \in Exchanges, x \notin got, NEW sets \in BOOLEAN, NEW shows \in BOOLEAN,
         NEW i, Deliver(x, sets, shows, i)
  PROVE  /\ flash' \in Exchanges \cup {Nobody} /\ got' \in SUBSET Exchanges
         /\ shown' \in [Exchanges -> Nat]
         /\ flash' = IF carried[x] # Nobody THEN Nobody ELSE IF sets THEN x ELSE flash
         /\ \A y \in Exchanges :
              shown'[y] = IF shows /\ carried[x] = y THEN shown[y] + 1 ELSE shown[y]
         /\ MessagesCame' /\ MessageNeverReturns'
<1> USE DEF BrowserTypeOK
<1>1. Nobody \notin Exchanges BY Kept
<1>2. /\ got' = got \cup {x} /\ carried' = carried
      /\ flash' = IF carried[x] # Nobody THEN Nobody ELSE IF sets THEN x ELSE flash
      /\ shown' = IF shows /\ carried[x] # Nobody
                  THEN [shown EXCEPT ![carried[x]] = @ + 1] ELSE shown
  BY DEF Deliver, FlashAfter
<1>3. /\ flash' \in Exchanges \cup {Nobody} /\ got' \in SUBSET Exchanges
      /\ carried[x] \in Exchanges \cup {Nobody}
  BY <1>2
<1>4. /\ shown' \in [Exchanges -> Nat]
      /\ \A y \in Exchanges :
           shown'[y] = IF shows /\ carried[x] = y THEN shown[y] + 1 ELSE shown[y]
  <2>1. CASE shows /\ carried[x] # Nobody BY <1>2, <1>3, <2>1
  <2>2. CASE ~(shows /\ carried[x] # Nobody) BY <1>1, <1>2, <2>2
  <2> QED BY <2>1, <2>2
<1>5. MessagesCame'
  <2>1. flash' # Nobody => flash' \in got' BY <1>2 DEF MessagesCame
  <2>2. \A y \in Exchanges : shown'[y] # 0 => y \in got'
    BY <1>1, <1>2, <1>4 DEF MessagesCame
  <2> QED BY <1>2, <2>1, <2>2 DEF MessagesCame
<1>6. MessageNeverReturns'
  <2>1. ASSUME flash' # Nobody PROVE shown'[flash'] = 0
    <3>1. carried[x] = Nobody /\ shown' = shown BY <1>2, <2>1
    <3>2. CASE flash' = x BY <3>1, <3>2 DEF MessagesCame
    <3>3. CASE flash' = flash BY <2>1, <3>1, <3>3 DEF MessageNeverReturns
    <3> QED BY <1>2, <3>1, <3>2, <3>3
  <2> QED BY <2>1 DEF MessageNeverReturns
<1> QED BY <1>2, <1>3, <1>4, <1>5, <1>6
\* A handler or the server adds nothing to what is in flight.
LEMMA NothingNewInFlight ==
  ASSUME UsersTypeOK, Stages, Server \/ (\E r \in Requests : Handler(r)) \/ UNCHANGED userVars,
         UNCHANGED browserVars
  PROVE  InFlight' \subseteq InFlight /\ who' = who
<1> USE DEF UsersTypeOK
<1>1. UNCHANGED <<page, got>> BY DEF browserVars
<1>2. /\ \A q \in Requests : pc[q] \in {"new", "lost"} => pc'[q] \in {"new", "lost"}
      /\ who' = who
  <2>1. CASE Server \/ UNCHANGED userVars
    BY <2>1 DEF Server, Start, SetupCheck, SetupInsert, Crash, InHand, userVars
  <2>2. ASSUME NEW r \in Requests, Handler(r)
        PROVE  /\ \A q \in Requests : pc[q] \in {"new", "lost"} => pc'[q] \in {"new", "lost"}
               /\ who' = who
    BY <2>2 DEF Handler, LoginRead, LoginName, ChangeRead, ChangeWrite, CreateUser,
                HandlerFails, InHand, Goto
  <2> QED BY <2>1, <2>2
<1> QED BY <1>1, <1>2 DEF InFlight

\* What was answered stays as it was.
LEMMA AnswersStay ==
  ASSUME UsersTypeOK, [UsersNext]_userVars
  PROVE  \A q \in Requests :
           pc[q] \in Replies => pc'[q] = pc[q] /\ form'[q] = form[q] /\ who'[q] = who[q]
<1> USE DEF UsersTypeOK, Replies
<1>1. CASE Server \/ UNCHANGED userVars
  BY <1>1 DEF Server, Start, SetupCheck, SetupInsert, Crash, InHand, userVars
<1>2. ASSUME NEW r \in Requests, Handler(r)
      PROVE  /\ pc[r] \in InHand /\ form' = form /\ who' = who
             /\ \A q \in Requests : q # r => pc'[q] = pc[q]
  BY <1>2 DEF Handler, LoginRead, LoginName, ChangeRead, ChangeWrite, CreateUser,
              HandlerFails, InHand, Goto
<1>3. ASSUME NEW r \in Requests, NEW f \in Forms, NEW i \in cookies \cup {Nobody},
             Receive(r, f, i)
      PROVE  /\ pc[r] = "new"
             /\ \A q \in Requests :
                  q # r => pc'[q] = pc[q] /\ form'[q] = form[q] /\ who'[q] = who[q]
  BY <1>3 DEF Receive, Goto
<1> QED BY <1>1, <1>2, <1>3 DEF UsersNext, InHand

\* Every step keeps the identities of the requests that need one.
LEMMA AuthorizedStep ==
  ASSUME UsersTypeOK, Authorized, [UsersNext]_userVars
  PROVE  Authorized'
<1> USE DEF UsersTypeOK
<1>1. CASE Server \/ UNCHANGED userVars
  <2>1. /\ UNCHANGED <<form, who>>
        /\ \A q \in Requests : pc'[q] = pc[q] \/ pc'[q] = "lost"
    BY <1>1 DEF Server, Start, SetupCheck, SetupInsert, Crash, userVars
  <2> QED BY <2>1 DEF Authorized
<1>2. ASSUME NEW r \in Requests, Handler(r) PROVE Authorized'
  <2>1. /\ pc[r] \in InHand /\ form' = form /\ who' = who
        /\ \A q \in Requests : q # r => pc'[q] = pc[q]
    BY <1>2 DEF Handler, LoginRead, LoginName, ChangeRead, ChangeWrite, CreateUser,
                HandlerFails, InHand, Goto
  <2> QED BY <2>1 DEF Authorized, InHand
<1>3. ASSUME NEW r \in Requests, NEW f \in Forms, NEW i \in cookies \cup {Nobody},
             Receive(r, f, i)
      PROVE  Authorized'
  <2>1. /\ pc'[r] = Entry(f, i) /\ form'[r] = f /\ who'[r] = i
        /\ \A q \in Requests :
             q # r => pc'[q] = pc[q] /\ form'[q] = form[q] /\ who'[q] = who[q]
    BY <1>3 DEF Receive, Goto
  <2>2. f.kind # "login" /\ i = Nobody => Entry(f, i) = "unauthorized"
    BY FormFields DEF Entry, MayCreate
  <2> QED BY <2>1, <2>2 DEF Authorized
<1> QED BY <1>1, <1>2, <1>3 DEF UsersNext

\* As long as nothing comes, and what came stays as it was answered, the messages
\* stay where they are.
LEMMA MessagesStay ==
  ASSUME BrowserTypeOK, MessagesCame, Redirected, MessageShownOnce, tidy' => tidy,
         UNCHANGED <<identity, flash, got, shown>>,
         \A x \in got : carried'[x] = carried[x],
         \A g \in Pages : g \in got => page'[g] = page[g],
         \A r \in Requests : r \in got => pc'[r] = pc[r] /\ form'[r] = form[r]
  PROVE  Redirected' /\ MessageShownOnce'
<1>1. Redirected'
  <2>1. flash # Nobody => LeadsTo(flash)' = LeadsTo(flash)
    BY DEF MessagesCame, LeadsTo
  <2> QED BY <2>1 DEF Redirected
<1>2. Messages' = Messages BY DEF Messages
<1>3. MessageShownOnce'
  <2> SUFFICES ASSUME tidy, NEW x \in Messages PROVE Settled(x)'
    BY <1>2 DEF MessageShownOnce
  <2>1. Settled(x) BY DEF MessageShownOnce
  <2>2. {y \in got' : carried'[y] = x} = {y \in got : carried[y] = x} OBVIOUS
  <2>3. ASSUME NEW g \in Pages, {y \in got : carried[y] = x} = {g}
        PROVE  page'[g] = page[g]
    BY <2>3
  <2> QED BY <2>1, <2>2, <2>3 DEF Settled
<1> QED BY <1>1, <1>3

\* The steps of the server and its handlers leave the browser as it is.
LEMMA ServerStep ==
  ASSUME SessionInv, [UsersNext]_userVars,
         Server \/ (\E r \in Requests : Handler(r)) \/ UNCHANGED userVars,
         UNCHANGED browserVars
  PROVE  SessionInv'
<1>1. UNCHANGED <<identity, flash, page, carried, got, shown, tidy>>
  BY DEF browserVars
<1>2. UsersInv' /\ UsersTypeOK /\ Stages BY UsersInvStep DEF SessionInv, UsersInv
<1>3. cookies \subseteq cookies' BY CookiesGrow
<1>4. BrowserTypeOK' BY <1>1, <1>3 DEF SessionInv, BrowserTypeOK
<1>5. MessagesCame' /\ MessageNeverReturns'
  BY <1>1 DEF SessionInv, MessagesCame, MessageNeverReturns
<1>6. OneAtATime'
  <2>1. InFlight' \subseteq InFlight /\ who' = who BY <1>2, NothingNewInFlight
  <2> QED BY <1>1, <2>1 DEF SessionInv, OneAtATime
<1>7. \A r \in Requests : r \in got => pc'[r] = pc[r] /\ form'[r] = form[r]
  BY <1>2, AnswersStay DEF SessionInv, Answered
<1>8. Answered' BY <1>1, <1>7 DEF SessionInv, Answered
<1>9. Authorized' BY <1>2, AuthorizedStep DEF SessionInv
<1>10. Redirected' /\ MessageShownOnce'
  BY <1>1, <1>7, MessagesStay DEF SessionInv
<1> QED BY <1>2, <1>4, <1>5, <1>6, <1>8, <1>9, <1>10 DEF SessionInv

\* A form that is sent keeps the invariant.
LEMMA PostStep ==
  ASSUME SessionInv, NEW r \in Requests, Post(r)
  PROVE  SessionInv'
<1>1. PICK f \in Forms : Receive(r, f, identity) BY DEF Post
<1>2. Send(r, "form") /\ page' = page /\ r \in Exchanges /\ r \notin Pages
  BY Kept DEF Post
<1>3. BrowserTypeOK /\ MessagesCame /\ UsersTypeOK BY DEF SessionInv, UsersInv
<1>4. /\ UNCHANGED <<identity, flash, got, shown>>
      /\ carried' = [carried EXCEPT ![r] = flash]
      /\ carried' \in [Exchanges -> Exchanges \cup {Nobody}]
      /\ tidy' \in BOOLEAN /\ MessagesCame'
  BY <1>2, <1>3, Sent
<1>5. [UsersNext]_userVars BY <1>1, <1>3 DEF UsersNext, Receive, BrowserTypeOK
<1>6. UsersInv' BY <1>5, UsersInvStep DEF SessionInv
<1>7. /\ cookies' = cookies /\ pc' = [pc EXCEPT ![r] = Entry(f, identity)]
      /\ who' = [who EXCEPT ![r] = identity] /\ pc[r] = "new"
  BY <1>1 DEF Receive, Goto
<1>8. BrowserTypeOK' BY <1>2, <1>3, <1>4, <1>7 DEF BrowserTypeOK
<1>9. \A q \in Requests : q \in got => pc'[q] = pc[q] /\ form'[q] = form[q]
  BY <1>3, <1>5, AnswersStay DEF SessionInv, Answered
<1>10. Answered' /\ MessageNeverReturns'
  BY <1>2, <1>4, <1>9 DEF SessionInv, Answered, MessageNeverReturns
<1>11. tidy' => tidy /\ InFlight = {} /\ flash = Nobody
  BY <1>2 DEF Send, LeadsTo
<1>12. r \notin got BY <1>7 DEF SessionInv, Answered, Replies
<1>13. \A x \in got : carried'[x] = carried[x] BY <1>3, <1>4, <1>12 DEF BrowserTypeOK
<1>14. Redirected' /\ MessageShownOnce'
  BY <1>2, <1>4, <1>9, <1>11, <1>13, MessagesStay DEF SessionInv
<1>15. InFlight' \subseteq InFlight \cup {r}
  BY <1>2, <1>3, <1>4, <1>7 DEF InFlight, UsersTypeOK
<1>16. carried'[r] = flash /\ who'[r] = identity
  BY <1>2, <1>3, <1>4, <1>7 DEF BrowserTypeOK, UsersTypeOK
<1>17. OneAtATime' BY <1>2, <1>4, <1>11, <1>15, <1>16 DEF OneAtATime
<1>18. Authorized' BY <1>3, <1>5, AuthorizedStep DEF SessionInv
<1> QED BY <1>4, <1>6, <1>8, <1>10, <1>14, <1>17, <1>18 DEF SessionInv

\* A page that is asked for does as well; where a message leads to, it is shown or
\* the page fails.
LEMMA BrowseStep ==
  ASSUME SessionInv, NEW g \in Pages, Browse(g)
  PROVE  SessionInv'
<1>1. PICK k \in Kinds : /\ \E reply \in Reply(k, identity) \cup {"lost"} :
                              page' = [page EXCEPT ![g] = reply]
                         /\ Send(g, k)
  BY DEF Browse
<1>2. PICK reply \in Reply(k, identity) \cup {"lost"} : page' = [page EXCEPT ![g] = reply]
  BY <1>1
<1>3. UNCHANGED userVars /\ page[g] = "new" /\ g \in Exchanges /\ g \notin Requests
  BY Kept DEF Browse
<1>4. BrowserTypeOK /\ MessagesCame /\ UsersTypeOK BY DEF SessionInv, UsersInv
<1>5. reply \in PageStates \ {"new"}
  BY DEF Reply, Kinds, PageStates
<1>6. /\ page' \in [Pages -> PageStates] /\ page'[g] = reply
      /\ \A h \in Pages : h # g => page'[h] = page[h]
  BY <1>2, <1>4, <1>5 DEF BrowserTypeOK
<1>7. /\ UNCHANGED <<identity, flash, got, shown>>
      /\ carried' = [carried EXCEPT ![g] = flash]
      /\ carried' \in [Exchanges -> Exchanges \cup {Nobody}]
      /\ tidy' \in BOOLEAN /\ MessagesCame'
  BY <1>1, <1>3, <1>4, Sent
<1>8. UsersInv' BY <1>3, UsersInvStep DEF SessionInv
<1>9. cookies' = cookies /\ pc' = pc /\ form' = form /\ who' = who BY <1>3 DEF userVars
<1>10. BrowserTypeOK' BY <1>4, <1>6, <1>7, <1>9 DEF BrowserTypeOK
<1>11. g \notin got BY <1>3 DEF SessionInv, Answered
<1>12. Answered' /\ MessageNeverReturns'
  BY <1>6, <1>7, <1>9, <1>11 DEF SessionInv, Answered, MessageNeverReturns
<1>13. Authorized' BY <1>9 DEF SessionInv, Authorized
<1>14. tidy' => tidy /\ InFlight = {} /\ (flash = Nobody \/ k \in LeadsTo(flash))
  BY <1>1 DEF Send
<1>15. \A x \in got : carried'[x] = carried[x] BY <1>4, <1>7, <1>11 DEF BrowserTypeOK
<1>16. \A h \in Pages : h \in got => page'[h] = page[h] BY <1>6, <1>11
<1>17. Redirected' /\ MessageShownOnce'
  BY <1>7, <1>9, <1>14, <1>15, <1>16, MessagesStay DEF SessionInv
<1>18. InFlight' \subseteq InFlight \cup {g} /\ (reply = "lost" => g \notin InFlight')
  BY <1>3, <1>6, <1>7, <1>9 DEF InFlight
<1>19. carried'[g] = flash BY <1>3, <1>4, <1>7 DEF BrowserTypeOK
<1>20. ASSUME tidy', flash # Nobody PROVE reply \in {"shown", "error", "lost"}
  <2>1. k \in LeadsTo(flash) /\ tidy BY <1>14, <1>20
  <2>2. k \in {"public", "private"} BY <2>1 DEF LeadsTo
  <2>3. k = "private" => identity # Nobody
    BY <1>20, <2>1 DEF SessionInv, Redirected
  <2> QED BY <2>2, <2>3 DEF Reply
<1>21. reply = "early" => identity # Nobody BY DEF Reply, Kinds
<1>22. OneAtATime'
  <2> SUFFICES ASSUME tidy', NEW x \in InFlight'
               PROVE  /\ InFlight' = {x}
                      /\ carried'[x] = flash'
                      /\ flash' # Nobody => x \in Pages /\ page'[x] \in {"shown", "error"}
                      /\ x \in Requests => who'[x] = identity'
                      /\ x \in Pages /\ page'[x] = "early" => identity' # Nobody
    BY DEF OneAtATime
  <2>1. x = g /\ InFlight' = {g} /\ reply # "lost" BY <1>14, <1>18
  <2> QED BY <1>3, <1>6, <1>7, <1>19, <1>20, <1>21, <2>1
<1> QED BY <1>7, <1>8, <1>10, <1>12, <1>13, <1>17, <1>22 DEF SessionInv

\* A response that comes keeps the invariant: it removes the message its request
\* carried, after it has shown it or without, or leaves one of its own.
LEMMA DeliverStep ==
  ASSUME SessionInv, NEW x \in InFlight, NEW sets \in BOOLEAN, NEW shows \in BOOLEAN,
         NEW i, Deliver(x, sets, shows, i),
         x \in Requests =>
           /\ pc[x] \in Replies \ {"lost"} /\ ~shows /\ (sets <=> pc[x] # "error")
           /\ i = IF pc[x] = "in" THEN given[x] ELSE identity,
         x \in Pages =>
           /\ (shows <=> page[x] = "shown")
           /\ (sets <=> page[x] \in {"unauthorized", "early", "forget"})
           /\ i = IF page[x] = "forget" THEN Nobody ELSE identity
  PROVE  SessionInv'
<1>1. BrowserTypeOK /\ MessagesCame /\ MessageNeverReturns BY DEF SessionInv
<1>2. x \in Exchanges /\ x \notin got /\ x \in Requests \cup Pages
      /\ Requests \cap Pages = {} /\ Nobody \notin Exchanges
      /\ (x \in Pages => page[x] \notin {"new", "lost"})
  BY Kept DEF InFlight
<1>3. /\ flash' \in Exchanges \cup {Nobody} /\ got' \in SUBSET Exchanges
      /\ shown' \in [Exchanges -> Nat]
      /\ flash' = IF carried[x] # Nobody THEN Nobody ELSE IF sets THEN x ELSE flash
      /\ \A y \in Exchanges :
           shown'[y] = IF shows /\ carried[x] = y THEN shown[y] + 1 ELSE shown[y]
      /\ MessagesCame' /\ MessageNeverReturns'
  BY <1>1, <1>2, Delivered
<1>4. UNCHANGED <<page, carried, tidy, userVars>> /\ identity' = i /\ got' = got \cup {x}
  BY DEF Deliver
<1>5. UsersInv' BY <1>4, UsersInvStep DEF SessionInv
<1>6. cookies' = cookies /\ pc' = pc /\ form' = form /\ who' = who BY <1>4 DEF userVars
<1>7. i \in cookies \cup {Nobody} /\ (x \in Requests /\ pc[x] = "in" => i \in cookies)
  BY <1>1, <1>2 DEF BrowserTypeOK, SessionInv, UsersInv, Logins
<1>8. BrowserTypeOK' BY <1>1, <1>3, <1>4, <1>6, <1>7 DEF BrowserTypeOK
<1>9. Answered' BY <1>2, <1>4, <1>6 DEF SessionInv, Answered
<1>10. Authorized' BY <1>6 DEF SessionInv, Authorized
<1>11. InFlight' = InFlight \ {x} BY <1>4, <1>6 DEF InFlight
<1>12. tidy => /\ InFlight = {x} /\ carried[x] = flash
               /\ flash # Nobody => x \in Pages /\ page[x] \in {"shown", "error"}
               /\ x \in Requests => who[x] = identity
               /\ x \in Pages /\ page[x] = "early" => identity # Nobody
  BY DEF SessionInv, OneAtATime
<1>13. OneAtATime' BY <1>4, <1>11, <1>12 DEF OneAtATime
<1>14. Redirected'
  <2> SUFFICES ASSUME tidy, flash' # Nobody, "private" \in LeadsTo(flash)'
               PROVE  i # Nobody
    BY <1>4 DEF Redirected
  <2>1. flash' = x /\ carried[x] = Nobody /\ sets BY <1>3, <1>12
  <2>2. \/ x \in Requests /\ pc[x] # "unauthorized" /\ form[x].kind # "login"
        \/ x \in Pages /\ page[x] = "early"
    BY <1>4, <1>6, <2>1 DEF LeadsTo
  <2>3. CASE x \in Requests /\ pc[x] # "unauthorized" /\ form[x].kind # "login"
    <3>1. who[x] # Nobody BY <2>3 DEF SessionInv, Authorized, Replies
    <3>2. Nobody \notin cookies
      BY UsersAssumption DEF SessionInv, UsersInv, UsersTypeOK
    <3> QED BY <1>7, <1>12, <2>3, <3>1, <3>2
  <2>4. CASE x \in Pages /\ page[x] = "early" BY <1>12, <2>4
  <2> QED BY <2>2, <2>3, <2>4
<1>15. MessageShownOnce'
  <2> SUFFICES ASSUME tidy, NEW y \in Messages' PROVE Settled(y)'
    BY <1>4 DEF MessageShownOnce
  <2>1. y \in Exchanges /\ y # Nobody BY <1>2, <1>3, <1>4 DEF Messages
  <2>2. y \in Messages \/ y = x BY <1>4, <1>6 DEF Messages
  <2>3. x \in Messages' => sets
    BY <1>1, <1>2, <1>4, <1>6 DEF Messages, BrowserTypeOK, PageStates
  <2>4. y \in Messages => Settled(y) BY DEF SessionInv, MessageShownOnce
  <2> DEFINE answered == {z \in got : carried[z] = y}
  <2>5. {z \in got' : carried'[z] = y} = answered \cup (IF carried[x] = y THEN {x} ELSE {})
    BY <1>4
  <2>6. CASE y = x
    <3>1. flash' = x BY <1>2, <1>3, <1>12, <2>3, <2>6
    <3>2. answered = {} /\ carried[x] # x
      BY <1>1, <1>2, <2>1, <2>6 DEF MessagesCame, BrowserTypeOK
    <3>3. shown'[x] = 0 BY <1>1, <1>2, <1>3, <3>2 DEF MessagesCame
    <3> QED BY <2>5, <2>6, <3>1, <3>2, <3>3 DEF Settled
  <2>7. CASE y # x /\ flash = y
    <3>1. carried[x] = y /\ flash' = Nobody /\ x \in Pages /\ page[x] \in {"shown", "error"}
      BY <1>3, <1>12, <2>1, <2>7
    <3>2. answered = {} /\ shown[y] = 0 BY <2>2, <2>4, <2>7 DEF Settled
    <3>3. shown'[y] = IF page[x] = "shown" THEN 1 ELSE 0 BY <1>3, <2>1, <3>1, <3>2
    <3>4. page'[x] = page[x] BY <1>4
    <3> QED BY <2>1, <2>5, <3>1, <3>2, <3>3, <3>4 DEF Settled
  <2>8. CASE y # x /\ flash # y
    <3>1. carried[x] # y /\ flash' # y BY <1>3, <1>12, <2>1, <2>8
    <3>2. shown'[y] = shown[y] BY <1>3, <2>1, <3>1
    <3> QED BY <1>4, <2>2, <2>4, <2>5, <2>8, <3>1, <3>2 DEF Settled
  <2> QED BY <2>6, <2>7, <2>8
<1> QED BY <1>3, <1>5, <1>8, <1>9, <1>10, <1>13, <1>14, <1>15 DEF SessionInv

(***************************************************************************)
(* The invariant, and the properties it implies.                           *)
(***************************************************************************)

\* A browser that has sent nothing satisfies it.
LEMMA SessionInvInit == Init => SessionInv
<1> SUFFICES ASSUME Init PROVE SessionInv OBVIOUS
<1>1. UsersInv BY UsersInvInit DEF Init
<1>2. InFlight = {} BY DEF Init, UsersInit, InFlight
<1>3. BrowserTypeOK BY DEF Init, BrowserTypeOK, PageStates
<1>4. MessagesCame /\ Answered /\ MessageNeverReturns /\ MessageShownOnce
  BY DEF Init, MessagesCame, Answered, MessageNeverReturns, MessageShownOnce, Messages
<1>5. OneAtATime BY <1>2 DEF OneAtATime
<1>6. Authorized BY DEF Init, UsersInit, Authorized
<1>7. Redirected BY DEF Init, Redirected
<1> QED BY <1>1, <1>3, <1>4, <1>5, <1>6, <1>7 DEF SessionInv

\* Every step keeps it.
LEMMA SessionInvStep == SessionInv /\ [Next]_vars => SessionInv'
<1> SUFFICES ASSUME SessionInv, [Next]_vars PROVE SessionInv' OBVIOUS
<1>1. [UsersNext]_userVars BY UsersStep
<1>2. CASE Server /\ UNCHANGED browserVars BY <1>1, <1>2, ServerStep
<1>3. ASSUME NEW r \in Requests, Handler(r), UNCHANGED browserVars PROVE SessionInv'
  BY <1>1, <1>3, ServerStep
<1>4. ASSUME NEW r \in Requests, Answer(r) PROVE SessionInv'
  <2> DEFINE i == IF pc[r] = "in" THEN given[r] ELSE identity
             sets == pc[r] # "error"
  <2>1. Deliver(r, sets, FALSE, i) BY <1>4 DEF Answer
  <2>2. r \in InFlight BY <1>4 DEF Answer, InFlight, Replies
  <2>3. r \notin Pages /\ pc[r] \in Replies \ {"lost"} /\ sets \in BOOLEAN
        /\ (sets <=> pc[r] # "error") /\ i = IF pc[r] = "in" THEN given[r] ELSE identity
    BY <1>4, Kept DEF Answer
  <2> HIDE DEF i, sets
  <2> QED BY <2>1, <2>2, <2>3, DeliverStep
<1>5. ASSUME NEW g \in Pages, Load(g) PROVE SessionInv'
  <2> DEFINE i == IF page[g] = "forget" THEN Nobody ELSE identity
             sets == page[g] \in {"unauthorized", "early", "forget"}
             shows == page[g] = "shown"
  <2>1. Deliver(g, sets, shows, i) BY <1>5 DEF Load
  <2>2. g \in InFlight BY <1>5 DEF Load, InFlight
  <2>3. /\ g \notin Requests /\ sets \in BOOLEAN /\ shows \in BOOLEAN
        /\ sets <=> page[g] \in {"unauthorized", "early", "forget"}
        /\ shows <=> page[g] = "shown"
        /\ i = IF page[g] = "forget" THEN Nobody ELSE identity
    BY Kept
  <2> HIDE DEF i, sets, shows
  <2> QED BY <2>1, <2>2, <2>3, DeliverStep
<1>6. ASSUME NEW r \in Requests, Post(r) PROVE SessionInv' BY <1>6, PostStep
<1>7. ASSUME NEW g \in Pages, Browse(g) PROVE SessionInv' BY <1>7, BrowseStep
<1>8. CASE UNCHANGED vars
  BY <1>1, <1>8, ServerStep DEF vars, userVars, browserVars
<1> QED BY <1>2, <1>3, <1>4, <1>5, <1>6, <1>7, <1>8 DEF Next

\* The inductive invariant of browser and server together.
THEOREM SessionInvariant == Spec => []SessionInv
BY SessionInvInit, SessionInvStep, PTL DEF Spec

\* Every variable of the browser and the server keeps its type.
THEOREM TypeCorrect == Spec => []TypeOK
<1>1. SessionInv => TypeOK BY DEF SessionInv, UsersInv, BrowserTypeOK, TypeOK
<1> QED BY <1>1, SessionInvariant, PTL

\* With any number of tabs, the cookie never holds a message a page has shown.
THEOREM MessagesDoNotReturn == Spec => []MessageNeverReturns
<1>1. SessionInv => MessageNeverReturns BY DEF SessionInv
<1> QED BY <1>1, SessionInvariant, PTL

\* A browser that sends one request at a time and follows its redirects shows every
\* message once, or loses it on a page that is answered with an error.
THEOREM MessagesAreShownOnce == Spec => []MessageShownOnce
<1>1. SessionInv => MessageShownOnce BY DEF SessionInv
<1> QED BY <1>1, SessionInvariant, PTL
=============================================================================
