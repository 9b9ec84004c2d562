------------------------------ MODULE Dashboard ------------------------------
(* One browser tab with the dashboard of web/ts, on top of the sessions of  *)
(* the server: its pages, its cookie, its poll timers and the requests it   *)
(* has under way. A page object that has been torn down lives on as long as  *)
(* a request or a timer of it does.                                         *)
EXTENDS Sessions

CONSTANTS
  Pages,      \* page objects alive at one time
  PollPeriod  \* between an answer and the next request for certificates

ASSUME DashboardAssumption == PollPeriod \in Nat \ {0} /\ None \notin Pages

VARIABLES
  cookie,    \* doomsday-token: its session and its expiry, or None
  loading,   \* the document waits for the type of authentication
  curPage,   \* of the pager
  pages,     \* kind of each page, whether it was painted, its timer
  sender,    \* the page each request belongs to
  visible    \* which of the elements #certs and #login are shown; the first
             \* may be shown late, by a page that was torn down

tab == <<cookie, loading, curPage, pages, sender, visible>>
vars == <<serverVars, tab>>

NoPage == [kind |-> "none", painted |-> FALSE, timer |-> None]
Blank == [certs |-> "hidden", login |-> FALSE]

\* Pages that nothing refers to are gone.
Kept(ps, cur, from) ==
  [p \in Pages |->
     IF p = cur \/ ps[p].timer # None \/ \E q \in Requests : from[q] = p
     THEN ps[p] ELSE NoPage]

DashboardInit ==
  /\ Init
  /\ cookie = None /\ loading = TRUE /\ curPage = None
  /\ pages = [p \in Pages |-> NoPage]
  /\ sender = [q \in Requests |-> None]
  /\ visible = Blank

CookieID == IF cookie = None THEN None ELSE cookie.id

\* The Set-Cookie of an answer; without an expiry it lasts.
CookieOf(q) == [id |-> req[q].id, expiry |-> req[q].expiry]

\* teardown of a dashboard that was never painted fails at its button, after
\* it has stopped the timer and hidden the certificates.
TeardownThrows(ps) ==
  curPage # None /\ ps[curPage].kind = "dash" /\ ~ps[curPage].painted

\* Faulty variant of CertsAfterTeardown: teardown leaves them on the screen.
CertsStay(ps) == visible.certs

CertsAfterTeardown(ps) ==
  IF curPage # None /\ ps[curPage].kind = "dash" THEN "hidden" ELSE visible.certs

\* Faulty variant of DisplayLogin: the timer of the page that is left runs on.
DisplayLoginTimerRuns(ps, from) ==
  IF TeardownThrows(ps)
  THEN /\ pages' = Kept(ps, curPage, from)
       /\ visible' = [visible EXCEPT !.certs = CertsAfterTeardown(ps)]
       /\ UNCHANGED curPage
  ELSE \E p \in {x \in Pages : ps[x] = NoPage} :
         /\ curPage' = p
         /\ pages' = Kept([ps EXCEPT ![p].kind = "login"], p, from)
         /\ visible' = [certs |-> CertsAfterTeardown(ps), login |-> TRUE]

\* Pager.display(new LoginPage) from a state with pages ps and senders from.
DisplayLogin(ps, from) ==
  IF TeardownThrows(ps)
  THEN /\ pages' = Kept([ps EXCEPT ![curPage].timer = None], curPage, from)
       /\ visible' = [visible EXCEPT !.certs = CertsAfterTeardown(ps)]
       /\ UNCHANGED curPage
  ELSE \E p \in {x \in Pages : ps[x] = NoPage} :
         LET stopped == IF curPage = None THEN ps ELSE [ps EXCEPT ![curPage].timer = None]
         IN  /\ curPage' = p
             /\ pages' = Kept([stopped EXCEPT ![p].kind = "login"], p, from)
             /\ visible' = [certs |-> CertsAfterTeardown(ps), login |-> TRUE]

\* Pager.display(new DashboardPage), which sends request q at once.
DisplayDashboard(q, ck, ps, from) ==
  \E p \in {x \in Pages : ps[x] = NoPage} :
    /\ curPage' = p
    /\ sender' = [from EXCEPT ![q] = p]
    /\ pages' = Kept([ps EXCEPT ![p].kind = "dash"], p, sender')
    /\ visible' = [certs |-> "shown", login |-> FALSE]
    /\ req' = [req EXCEPT ![q] = [Free EXCEPT !.stage = "lookup",
                                              !.id = IF ck = None THEN None ELSE ck.id]]

-----------------------------------------------------------------------------
\* The document is opened again. Its requests are abandoned, not stopped.
Reload ==
  /\ loading' = TRUE /\ curPage' = None
  /\ pages' = [p \in Pages |-> NoPage]
  /\ sender' = [q \in Requests |-> None]
  /\ visible' = Blank
  /\ UNCHANGED <<serverVars, cookie>>

\* fetchAuthType is answered.
Loaded ==
  /\ loading /\ loading' = FALSE
  /\ IF cookie = None
     THEN DisplayLogin(pages, sender) /\ UNCHANGED <<req, sender>>
     ELSE \E q \in Requests : req[q] = Free /\ DisplayDashboard(q, cookie, pages, sender)
  /\ UNCHANGED <<refresh, table, idle, cookie>>

\* The login form, with the right credentials or not. It may be submitted
\* again before it is answered.
Submit(q) ==
  /\ curPage # None /\ pages[curPage].kind = "login"
  /\ Send(q, "login", None) \/ Send(q, "badLogin", None)
  /\ sender' = [sender EXCEPT ![q] = curPage]
  /\ UNCHANGED <<cookie, loading, curPage, pages, visible>>

\* The menu is hidden on the login page.
Logout ==
  /\ curPage # None /\ pages[curPage].kind = "dash"
  /\ cookie' = None
  /\ DisplayLogin(pages, sender)
  /\ UNCHANGED <<serverVars, loading, sender>>

\* updateCertList, from the timer.
Poll(p, q) ==
  /\ pages[p].timer = 0
  /\ pages' = [pages EXCEPT ![p].timer = None]
  /\ Send(q, "lookup", CookieID)
  /\ sender' = [sender EXCEPT ![q] = p]
  /\ UNCHANGED <<cookie, loading, curPage, visible>>

\* Faulty variant of Certs: the next poll is not scheduled.
CertsOnce(q) ==
  /\ req[q].stage = "ok" /\ sender[q] # None /\ pages[sender[q]].kind = "dash"
  /\ Received(q)
  /\ cookie' = CookieOf(q)
  /\ sender' = [sender EXCEPT ![q] = None]
  /\ pages' = Kept([pages EXCEPT ![sender[q]].painted = TRUE], curPage, sender')
  /\ visible' \in {visible, [visible EXCEPT !.certs =
                                IF sender[q] = curPage THEN "shown" ELSE "late"]}
  /\ UNCHANGED <<loading, curPage>>

\* The certificates arrive, for a page that may have been torn down: it is
\* painted, shown if there are any, and polls again.
Certs(q) ==
  /\ req[q].stage = "ok" /\ sender[q] # None /\ pages[sender[q]].kind = "dash"
  /\ Received(q)
  /\ cookie' = CookieOf(q)
  /\ sender' = [sender EXCEPT ![q] = None]
  /\ pages' = [pages EXCEPT ![sender[q]].painted = TRUE, ![sender[q]].timer = PollPeriod]
  /\ visible' \in {visible, [visible EXCEPT !.certs =
                                IF sender[q] = curPage THEN "shown" ELSE "late"]}
  /\ UNCHANGED <<loading, curPage>>

\* The login succeeds. If teardown throws, the handler of the error fails
\* there too.
LoggedIn(q) ==
  /\ req[q].stage = "ok" /\ sender[q] # None /\ pages[sender[q]].kind = "login"
  /\ cookie' = CookieOf(q)
  /\ LET from == [sender EXCEPT ![q] = None]
         ps == IF curPage # None THEN [pages EXCEPT ![curPage].timer = None] ELSE pages
     IN  IF TeardownThrows(pages)
         THEN DisplayLogin(pages, from) /\ req' = [req EXCEPT ![q] = Free] /\ sender' = from
         ELSE DisplayDashboard(q, cookie', ps, from)
  /\ UNCHANGED <<refresh, table, idle, loading>>

\* 401, or any other error. Either leads to a new login page; a dashboard
\* whose session was refused deletes the cookie.
Failed(q) ==
  /\ req[q].stage \in {"refused", "broken"} /\ sender[q] # None
  /\ Received(q)
  /\ cookie' = IF req[q].stage = "refused" /\ pages[sender[q]].kind = "dash"
               THEN None ELSE cookie
  /\ sender' = [sender EXCEPT ![q] = None]
  /\ DisplayLogin(pages, sender')
  /\ UNCHANGED loading

Abandoned(q) == sender[q] = None /\ Received(q) /\ UNCHANGED tab

Server ==
  /\ \/ \E q \in Requests : Handle(q)
     \/ \E q \in Requests, id \in SessionIDs :
          CookieID # id /\ Unknown(id) /\ New(q, id)
  /\ UNCHANGED tab

ServerRestart == Restart /\ UNCHANGED tab

\* Timers of a page go off on time.
Clock ==
  /\ \A p \in Pages : pages[p].timer # 0
  /\ Tick
  /\ cookie' = IF cookie = None THEN None
               ELSE IF cookie.expiry \in {0, 1} THEN None
               ELSE [cookie EXCEPT !.expiry = Sooner(@)]
  /\ pages' = [p \in Pages |-> [pages[p] EXCEPT !.timer = Sooner(@)]]
  /\ UNCHANGED <<loading, curPage, sender, visible>>

Answer(q) == Certs(q) \/ LoggedIn(q) \/ Failed(q) \/ Abandoned(q)

Next ==
  \/ Reload \/ Loaded \/ Logout
  \/ \E q \in Requests : Submit(q) \/ Answer(q)
  \/ \E p \in Pages, q \in Requests : Poll(p, q)
  \/ Server \/ ServerRestart \/ Clock

DashboardSpec == DashboardInit /\ [][Next]_vars

-----------------------------------------------------------------------------
(* Properties                                                              *)

TypeOK ==
  /\ refresh \in BOOLEAN
  /\ table \in [SessionIDs -> Expiry \union {None}]
  /\ req \in [Requests -> Request]
  /\ \A q \in Requests : req[q].stage = "decide" => req[q].expiry # None
  /\ cookie \in [id : SessionIDs, expiry : Expiry \union {None}] \union {None}
  /\ loading \in BOOLEAN /\ curPage \in Pages \union {None}
  /\ pages \in [Pages -> [kind : {"none", "login", "dash"}, painted : BOOLEAN,
                          timer : 0 .. PollPeriod \union {None}]]
  /\ sender \in [Requests -> Pages \union {None}]
  /\ visible \in [certs : {"hidden", "shown", "late"}, login : BOOLEAN]

\* The requests and timers a page keeps its polling alive with.
Polls(p) ==
  Cardinality({q \in Requests : sender[q] = p}) +
  (IF pages[p].timer = None THEN 0 ELSE 1)

OnDashboard == curPage # None /\ pages[curPage].kind = "dash"

\* A dashboard polls in one chain, each request after the answer to the one
\* before, and the chain of the page on display never ends. The one
\* exception is a page whose first request failed: teardown throws, and
\* nothing is left on the screen (certs.ts:23-46). This is said of each page:
\* a page that was left may still poll in a chain of its own, see below.
OnePollChain ==
  /\ \A p \in Pages : pages[p].kind = "dash" => Polls(p) <= 1
  /\ OnDashboard /\ Polls(curPage) = 0 =>
       ~pages[curPage].painted /\ visible.certs # "shown" /\ ~visible.login

\* A page that is left has no timer, and gets one only by an answer to a
\* request it had sent (certs.ts:23-36). Such an answer starts its chain
\* again, beside that of the page on display, and nothing ends it: teardown
\* has been and gone. No other step brings a second chain about.
LeavingStopsPolls ==
  [][\A p \in Pages :
       /\ p # curPage' /\ pages'[p].timer # None
       /\ p = curPage \/ pages[p].timer = None
       => \E q \in Requests : req[q].stage = "ok" /\ sender[q] = p]_vars

\* Whoever is logged out sees no certificates, unless an answer came for a
\* page that had been torn down and painted it again (certs.ts:23-36).
HiddenAfterLogout == ~OnDashboard => visible.certs # "shown"

\* While the dashboard polls, its session does not expire under it: a poll
\* of a painted page is never the one that finds the session too old. It
\* takes a Timeout that is longer than the period, the delay of the answer
\* before and that of the poll.
LongTimeout == Timeout > PollPeriod + 2 * MaxDelay
PollingKeepsSession ==
  [][\A q \in Requests :
       /\ req[q].stage = "decide" /\ req'[q].stage = "delete"
       /\ refresh /\ OnDashboard /\ LongTimeout
       => sender[q] # curPage \/ ~pages[curPage].painted]_vars
=============================================================================
