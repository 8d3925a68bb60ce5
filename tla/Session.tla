------------------------------- MODULE Session -------------------------------
(***************************************************************************)
(* A browser in front of the server: the forms of module Users and the     *)
(* pages it loads, in several tabs at once, with two cookies.  One is the  *)
(* identity that post_login remembers, the other the message that a        *)
(* redirect leaves for the next page (src/flash.rs).  Every response sets  *)
(* or removes cookies when the browser gets it, not when it was asked.     *)
(***************************************************************************)
EXTENDS Users

CONSTANT Pages    \* requests that are answered in one step: pages, logouts

ASSUME SessionAssumption ==
  /\ Pages \cap Requests = {}
  /\ Nobody \notin Pages

Exchanges == Requests \cup Pages

\* public: the login and main pages; private: a page of a logged-in user; early:
\* the page of a contest that has not started; part: the lists and the assets.
\* logout is posted from any page and touches no table.
Kinds == {"public", "private", "early", "part", "logout"}

\* error: a plain 500 or 404; lost: no answer comes.
PageStates ==
  {"new", "shown", "part", "unauthorized", "early", "forget", "error", "lost"}

VARIABLES
  identity,       \* the cookie "user"
  flash,          \* the cookie "_flash", known by the exchange that set it
  page,           \* how each page was answered
  carried,        \* the message each request carried
  got,            \* exchanges whose response the browser has
  shown,          \* how often the message of each exchange was shown
  tidy            \* history: one request at a time, and redirects were followed

browserVars == <<identity, flash, page, carried, got, shown, tidy>>
vars == <<userVars, browserVars>>

TypeOK ==
  /\ UsersTypeOK
  /\ identity \in cookies \cup {Nobody}
  /\ flash \in Exchanges \cup {Nobody}
  /\ page \in [Pages -> PageStates]
  /\ carried \in [Exchanges -> Exchanges \cup {Nobody}]
  /\ got \in SUBSET Exchanges
  /\ shown \in [Exchanges -> Nat]
  /\ tidy \in BOOLEAN

Init ==
  /\ UsersInit
  /\ identity \in cookies \cup {Nobody}
  /\ flash = Nobody
  /\ page = [g \in Pages |-> "new"]
  /\ carried = [x \in Exchanges |-> Nobody]
  /\ got = {}
  /\ shown = [x \in Exchanges |-> 0]
  /\ tidy = TRUE

-----------------------------------------------------------------------------
(* What the handlers of pages answer.                                      *)

\* What require_identity refuses render_401 sends to the login page; some assets are
\* for everybody.  A page takes its message from the request; lists and assets take
\* none.  What needs the database, a template or a file may fail, and takes none either.
Reply(k, i) ==
  IF k = "logout" THEN {"forget"}
  ELSE IF k \in {"private", "early"} /\ i = Nobody THEN {"unauthorized"}
  ELSE {"error"} \cup
         CASE k \in {"public", "private"} -> {"shown"}
           [] k = "early" -> {IF i.is_admin THEN "shown" ELSE "early"}
           [] k = "part" -> IF i = Nobody THEN {"part", "unauthorized"} ELSE {"part"}

-----------------------------------------------------------------------------
(* The browser.                                                            *)

InFlight ==
  {r \in Requests : pc[r] \notin {"new", "lost"} /\ r \notin got}
    \cup {g \in Pages : page[g] \notin {"new", "lost"} /\ g \notin got}

\* Where the redirect of an answer leads: render_401 to the login page, a login or
\* logout to the main page, and redirect_to_referer to the page the request was sent
\* from, or to the main page if the browser does not tell.  The login form is on the
\* login page, the other forms on a private one; a link to a contest may be on both.
LeadsTo(x) ==
  IF \/ x \in Requests /\ pc[x] # "unauthorized" /\ form[x].kind # "login"
     \/ x \in Pages /\ page[x] = "early"
  THEN {"public", "private"}
  ELSE {"public"}

\* Every request carries the cookies the browser has when it sends it.  It stays
\* tidy if nothing is in flight, and if a request that carries a message asks for
\* what the redirect that came with the message leads to.
Send(x, kind) ==
  /\ carried' = [carried EXCEPT ![x] = flash]
  /\ tidy' = (tidy /\ InFlight = {} /\ (flash = Nobody \/ kind \in LeadsTo(flash)))
  /\ UNCHANGED <<identity, flash, got, shown>>

Post(r) ==
  /\ \E f \in Forms : Receive(r, f, identity)
  /\ Send(r, "form")
  /\ UNCHANGED page

\* A page is answered at once, from its cookies alone, unless the answer is lost.
Browse(g) ==
  /\ server = "up"
  /\ page[g] = "new"
  /\ \E k \in Kinds :
       /\ \E reply \in Reply(k, identity) \cup {"lost"} : page' = [page EXCEPT ![g] = reply]
       /\ Send(g, k)
  /\ UNCHANGED userVars

\* Mutant of FlashAfter: a message is removed by whatever comes after it only.
FlashAfterKept(x, sets) == IF sets THEN x ELSE flash

\* Mutant of FlashAfter: the removal goes on every response.
FlashAfterCleared(x, sets) == Nobody

\* The middleware adds the new message to the response and then, if the request
\* carried one, a removal: the browser obeys both, in that order.
FlashAfter(x, sets) ==
  IF carried[x] # Nobody THEN Nobody ELSE IF sets THEN x ELSE flash

\* The response of x reaches the browser.
Deliver(x, sets, shows, i) ==
  /\ got' = got \cup {x}
  /\ flash' = FlashAfter(x, sets)
  /\ shown' = IF shows /\ carried[x] # Nobody
              THEN [shown EXCEPT ![carried[x]] = @ + 1] ELSE shown
  /\ identity' = i
  /\ UNCHANGED <<page, carried, tidy, userVars>>

\* An answer to a form is a redirect with a message, render_400 and render_401
\* included, unless it is an error; a login that succeeded remembers the identity.
Answer(r) ==
  /\ pc[r] \in Replies \ {"lost"}
  /\ r \notin got
  /\ Deliver(r, pc[r] # "error", FALSE, IF pc[r] = "in" THEN given[r] ELSE identity)

\* The redirect of a logout has a message too, an empty one.
Load(g) ==
  /\ page[g] \notin {"new", "lost"}
  /\ g \notin got
  /\ Deliver(g, page[g] \in {"unauthorized", "early", "forget"}, page[g] = "shown",
             IF page[g] = "forget" THEN Nobody ELSE identity)

-----------------------------------------------------------------------------
Next ==
  \/ Server /\ UNCHANGED browserVars
  \/ \E r \in Requests :
       \/ Handler(r) /\ UNCHANGED browserVars
       \/ Post(r) \/ Answer(r)
  \/ \E g \in Pages : Browse(g) \/ Load(g)

Spec == Init /\ [][Next]_vars
-----------------------------------------------------------------------------
(* Properties.                                                             *)

\* The messages that came: those of the exchanges answered with a redirect.
Messages ==
  got \ ({g \in Pages : page[g] \in {"shown", "part", "error"}}
           \cup {r \in Requests : pc[r] = "error"})

\* A message is waiting in the cookie, or was carried by one page that was answered:
\* it was shown there, and only there, or was lost because that page is an error.
Settled(x) ==
  LET answered == {y \in got : carried[y] = x}
  IN  \/ flash = x /\ answered = {} /\ shown[x] = 0
      \/ /\ flash # x
         /\ \E g \in Pages :
              /\ answered = {g}
              /\ \/ page[g] = "shown" /\ shown[x] = 1
                 \/ page[g] = "error" /\ shown[x] = 0

\* In a browser that sends one request at a time and follows its redirects, no message
\* is shown twice, and none is lost except on a page that is itself answered with an
\* error: no login, logout, changed password, late contest, lost answer or crash of
\* the server in between makes it miss its page.  With several tabs a message may be
\* lost or shown twice.
MessageShownOnce == tidy => \A x \in Messages : Settled(x)

\* Not even with several tabs does a message come back: the cookie never holds
\* one that a page has shown.
MessageNeverReturns == flash # Nobody => shown[flash] = 0
=============================================================================
