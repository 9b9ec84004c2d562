--------------------------- MODULE DashboardProofs ---------------------------
(* What holds of Sessions and Dashboard for any number of sessions,        *)
(* requests and pages, and for all times.                                  *)
EXTENDS Dashboard, TLAPS, FiniteSetTheorems

-----------------------------------------------------------------------------
(* The invariant, in parts.                                                *)

\* A request that is handled has the session it is about; one that is free
\* belongs to no page.
Named ==
  /\ \A q \in Requests :
       /\ req[q].stage \in {"decide", "extend", "delete", "cookie", "ok"} => req[q].id \in SessionIDs
       /\ req[q].stage = "free" => req[q] = Free /\ sender[q] = None
  /\ idle \in [SessionIDs -> Nat]

\* A session outlives its last use by no more than this.
Bound == Timeout + (IF refresh THEN MaxDelay ELSE 0)

\* Neither the table nor a request that has read it has an expiry further
\* off than that, and one that is about to prolong a session has just used it.
Recent ==
  /\ \A id \in SessionIDs : table[id] # None /\ table[id] > 0 => idle[id] + table[id] <= Bound
  /\ \A q \in Requests :
       /\ req[q].stage = "decide" /\ req[q].expiry > 0 => idle[req[q].id] + req[q].expiry <= Bound
       /\ req[q].stage = "extend" => refresh /\ idle[req[q].id] <= req[q].age

\* No request is for a page that is gone.
Owned ==
  \A p \in Pages : pages[p].kind = "none" => pages[p] = NoPage /\ \A q \in Requests : sender[q] # p

\* A page waits for one answer or for its timer, and never for both.
OneChain ==
  \A p \in Pages : pages[p].kind = "dash" =>
    /\ \A q, r \in Requests : sender[q] = p /\ sender[r] = p => q = r
    /\ pages[p].timer # None => pages[p].painted /\ \A q \in Requests : sender[q] # p

\* A dashboard on display that waits for nothing shows nothing.
Chained ==
  OnDashboard =>
    /\ ~visible.login
    /\ pages[curPage].timer = None /\ (\A q \in Requests : sender[q] # curPage) =>
         ~pages[curPage].painted /\ visible.certs # "shown"

Painted == OnDashboard /\ pages[curPage].painted

\* What is left of session id, if it is still there, is n at least.
Lasts(id, n) == table[id] = None \/ table[id] >= n

\* If use prolongs a session, one that was used lasts for Timeout from then on.
Prolonged ==
  \A q \in Requests : req[q].stage \in {"cookie", "ok"} => Lasts(req[q].id, Timeout - req[q].age)

\* The poll of a painted page follows such a use in time.
Polled ==
  /\ pages[curPage].timer # None /\ cookie # None =>
       Lasts(cookie.id, Timeout - MaxDelay - (PollPeriod - pages[curPage].timer))
  /\ \A q \in Requests : sender[q] = curPage =>
       /\ req[q].stage = "lookup" /\ req[q].id # None =>
            Lasts(req[q].id, Timeout - MaxDelay - PollPeriod - req[q].age)
       /\ req[q].stage = "decide" =>
            req[q].expiry >= Timeout - MaxDelay - PollPeriod - req[q].age

Fresh == refresh => Prolonged /\ (Painted => Polled)

IInv == TypeOK /\ Named /\ Recent /\ Owned /\ OneChain /\ Chained /\ HiddenAfterLogout /\ Fresh

-----------------------------------------------------------------------------
(* Requests.                                                               *)

\* Request q goes on to another stage with this id and expiry.
Moved(q, stage, id, expiry) ==
  /\ req' \in [Requests -> Request]
  /\ req'[q].stage = stage /\ req'[q].id = id /\ req'[q].expiry = expiry
  /\ req'[q].age = req[q].age
  /\ \A r \in Requests : r # q => req'[r] = req[r]

LEMMA RequestFields ==
  ASSUME TypeOK, NEW q \in Requests
  PROVE  /\ req[q].stage \in Stages /\ req[q].id \in SessionIDs \union {None}
         /\ req[q].expiry \in Expiry \union {None} /\ req[q].age \in 0 .. MaxDelay
         /\ req[q].age \in Nat /\ req[q].age <= MaxDelay
         /\ req[q].expiry # None => req[q].expiry \in Nat /\ req[q].expiry <= Timeout
<1>1. req[q] \in Request
  BY DEF TypeOK
<1> QED BY <1>1, SessionAssumption DEF Request, Expiry

LEMMA TableFields ==
  ASSUME TypeOK
  PROVE  /\ \A id \in SessionIDs : table[id] # None => table[id] \in Nat /\ table[id] <= Timeout
         /\ \A id \in SessionIDs : table[id] \in Expiry \union {None}
         /\ Timeout \in Expiry /\ Timeout \in Nat \ {0} /\ MaxDelay \in Nat
         /\ PollPeriod \in Nat \ {0} /\ Bound \in Nat /\ Bound >= Timeout
         /\ None \notin Int /\ None \notin SessionIDs /\ None \notin Pages
         /\ refresh => Bound = Timeout + MaxDelay
BY SessionAssumption, DashboardAssumption DEF TypeOK, Expiry, Bound

LEMMA Moves ==
  ASSUME TypeOK, NEW q \in Requests, NEW stage \in Stages
  PROVE  /\ Goto(q, stage) => Moved(q, stage, req[q].id, req[q].expiry)
         /\ \A id \in SessionIDs \union {None} :
              req' = [req EXCEPT ![q].stage = stage, ![q].id = id]
                => Moved(q, stage, id, req[q].expiry)
         /\ \A expiry \in Expiry \union {None} :
              req' = [req EXCEPT ![q].stage = stage, ![q].expiry = expiry]
                => Moved(q, stage, req[q].id, expiry)
<1> DEFINE R(i, e) == [stage |-> stage, id |-> i, expiry |-> e, age |-> req[q].age]
<1>1. req \in [Requests -> Request] /\ req[q] \in Request
  BY DEF TypeOK
<1>2. ASSUME NEW i \in SessionIDs \union {None}, NEW e \in Expiry \union {None},
             req' = [req EXCEPT ![q] = R(i, e)]
      PROVE  Moved(q, stage, i, e)
  <2>1. R(i, e) \in Request
    BY RequestFields DEF Request
  <2>2. R(i, e).stage = stage /\ R(i, e).id = i /\ R(i, e).expiry = e /\ R(i, e).age = req[q].age
    OBVIOUS
  <2> HIDE DEF R
  <2> QED BY <1>1, <1>2, <2>1, <2>2 DEF Moved
<1>3. ASSUME Goto(q, stage) PROVE Moved(q, stage, req[q].id, req[q].expiry)
  <2>1. [req[q] EXCEPT !.stage = stage] = R(req[q].id, req[q].expiry)
    BY <1>1 DEF Request
  <2>2. req' = [req EXCEPT ![q] = R(req[q].id, req[q].expiry)]
    BY <1>3, <2>1 DEF Goto
  <2> HIDE DEF R
  <2> QED BY <1>2, <2>2, RequestFields
<1>4. ASSUME NEW id \in SessionIDs \union {None},
             req' = [req EXCEPT ![q].stage = stage, ![q].id = id]
      PROVE  Moved(q, stage, id, req[q].expiry)
  <2>a. [req[q] EXCEPT !.stage = stage] = R(req[q].id, req[q].expiry)
    BY <1>1 DEF Request
  <2>b. [R(req[q].id, req[q].expiry) EXCEPT !.id = id] = R(id, req[q].expiry)
    OBVIOUS
  <2>1. [req[q] EXCEPT !.stage = stage, !.id = id] = R(id, req[q].expiry)
    BY <2>a, <2>b
  <2>2. req' = [req EXCEPT ![q] = [req[q] EXCEPT !.stage = stage, !.id = id]]
    BY <1>1, <1>4
  <2>3. req' = [req EXCEPT ![q] = R(id, req[q].expiry)]
    BY <2>1, <2>2
  <2> HIDE DEF R
  <2> QED BY <1>2, <2>3, RequestFields
<1>5. ASSUME NEW expiry \in Expiry \union {None},
             req' = [req EXCEPT ![q].stage = stage, ![q].expiry = expiry]
      PROVE  Moved(q, stage, req[q].id, expiry)
  <2>a. [req[q] EXCEPT !.stage = stage] = R(req[q].id, req[q].expiry)
    BY <1>1 DEF Request
  <2>b. [R(req[q].id, req[q].expiry) EXCEPT !.expiry = expiry] = R(req[q].id, expiry)
    OBVIOUS
  <2>1. [req[q] EXCEPT !.stage = stage, !.expiry = expiry] = R(req[q].id, expiry)
    BY <2>a, <2>b
  <2>2. req' = [req EXCEPT ![q] = [req[q] EXCEPT !.stage = stage, !.expiry = expiry]]
    BY <1>1, <1>5
  <2>3. req' = [req EXCEPT ![q] = R(req[q].id, expiry)]
    BY <2>1, <2>2
  <2> HIDE DEF R
  <2> QED BY <1>2, <2>3, RequestFields
<1> QED BY <1>3, <1>4, <1>5

-----------------------------------------------------------------------------
(* The steps of the server, which leave the tab alone.                     *)

\* An expiry is only renewed or removed, never shortened.
Renewed == \A id \in SessionIDs : table'[id] \in {table[id], None, Timeout}

\* What a move of request q has to see to.
WellMoved(q, stage, id, expiry) ==
  /\ Moved(q, stage, id, expiry)
  /\ UNCHANGED <<refresh, tab>>
  /\ table' \in [SessionIDs -> Expiry \union {None}] /\ Renewed
  /\ idle' \in [SessionIDs -> Nat] /\ \A s \in SessionIDs : idle'[s] <= idle[s]
  /\ \A s \in SessionIDs : table'[s] # None /\ table'[s] > 0 => idle'[s] + table'[s] <= Bound
  /\ req[q].stage # "free" /\ stage \notin {"free", "lookup"}
  /\ stage \in {"decide", "extend", "delete", "cookie", "ok"} => id \in SessionIDs
  /\ stage = "decide" =>
       /\ expiry # None
       /\ expiry > 0 => idle'[id] + expiry <= Bound
       /\ refresh /\ Painted /\ sender[q] = curPage =>
            expiry >= Timeout - MaxDelay - PollPeriod - req[q].age
  /\ stage = "extend" => refresh /\ idle'[id] <= req[q].age
  /\ refresh /\ stage \in {"cookie", "ok"} =>
       table'[id] = None \/ table'[id] >= Timeout - req[q].age

LEMMA RenewedLasts ==
  ASSUME TypeOK, Renewed, NEW id \in SessionIDs, NEW n \in Int, n <= Timeout, Lasts(id, n)
  PROVE  table'[id] = None \/ table'[id] >= n
BY TableFields DEF Renewed, Lasts

LEMMA TabFields ==
  ASSUME TypeOK
  PROVE  /\ cookie # None => cookie.id \in SessionIDs /\ cookie.expiry \in Expiry \union {None}
         /\ \A p \in Pages : /\ pages[p].kind \in {"none", "login", "dash"}
                             /\ pages[p].painted \in BOOLEAN
                             /\ pages[p].timer \in 0 .. PollPeriod \union {None}
         /\ OnDashboard => curPage \in Pages
         /\ \A q \in Requests : sender[q] \in Pages \union {None}
<1>1. pages \in [Pages -> [kind : {"none", "login", "dash"}, painted : BOOLEAN,
                           timer : 0 .. PollPeriod \union {None}]]
      /\ cookie \in [id : SessionIDs, expiry : Expiry \union {None}] \union {None}
      /\ curPage \in Pages \union {None} /\ sender \in [Requests -> Pages \union {None}]
  BY DEF TypeOK
<1>2. \A p \in Pages : pages[p] \in [kind : {"none", "login", "dash"}, painted : BOOLEAN,
                                     timer : 0 .. PollPeriod \union {None}]
  BY <1>1
<1> QED BY <1>1, <1>2 DEF OnDashboard

LEMMA ServerMoves ==
  ASSUME IInv, NEW q \in Requests, NEW stage \in Stages, NEW id \in SessionIDs \union {None},
         NEW expiry \in Expiry \union {None}, WellMoved(q, stage, id, expiry)
  PROVE  IInv'
<1> USE DEF IInv
<1>0. UNCHANGED <<refresh, cookie, loading, curPage, pages, sender, visible>>
      /\ (OnDashboard <=> OnDashboard') /\ (Painted <=> Painted') /\ Bound' = Bound
  BY DEF WellMoved, tab, OnDashboard, Painted, Bound
<1>1. /\ req' \in [Requests -> Request]
      /\ req'[q].stage = stage /\ req'[q].id = id /\ req'[q].expiry = expiry
      /\ req'[q].age = req[q].age
      /\ \A r \in Requests : r # q => req'[r] = req[r]
  BY DEF WellMoved, Moved
<1>2. TypeOK'
  <2>1. table' \in [SessionIDs -> Expiry \union {None}]
    BY DEF WellMoved
  <2>2. \A r \in Requests : req'[r].stage = "decide" => req'[r].expiry # None
    BY <1>1 DEF WellMoved, TypeOK
  <2> QED BY <1>0, <1>1, <2>1, <2>2 DEF TypeOK
<1>3. Named'
  <2>1. idle' \in [SessionIDs -> Nat]
    BY DEF WellMoved
  <2>2. \A r \in Requests :
          /\ req'[r].stage \in {"decide", "extend", "delete", "cookie", "ok"} => req'[r].id \in SessionIDs
          /\ req'[r].stage = "free" => req'[r] = Free /\ sender[r] = None
    BY <1>1 DEF WellMoved, Named
  <2> QED BY <1>0, <2>1, <2>2 DEF Named
<1>4. Recent'
  <2>1. \A s \in SessionIDs : table'[s] # None /\ table'[s] > 0 => idle'[s] + table'[s] <= Bound
    BY DEF WellMoved
  <2>2. ASSUME NEW r \in Requests
        PROVE  /\ req'[r].stage = "decide" /\ req'[r].expiry > 0
                    => idle'[req'[r].id] + req'[r].expiry <= Bound
               /\ req'[r].stage = "extend" => refresh /\ idle'[req'[r].id] <= req'[r].age
    <3>1. CASE r = q
      BY <1>1, <3>1 DEF WellMoved
    <3>2. CASE r # q
      <4>1. req'[r] = req[r]
        BY <1>1, <3>2
      <4>2. ASSUME req[r].stage \in {"decide", "extend"}
            PROVE  idle'[req[r].id] <= idle[req[r].id] /\ idle'[req[r].id] \in Nat
                   /\ idle[req[r].id] \in Nat
        BY <4>2 DEF WellMoved, Named
      <4>3. req[r].stage = "decide" => req[r].expiry \in Nat
        BY RequestFields DEF TypeOK
      <4>4. req[r].age \in Nat /\ Bound \in Nat
        BY RequestFields, TableFields
      <4> QED BY <4>1, <4>2, <4>3, <4>4 DEF Recent
    <3> QED BY <3>1, <3>2
  <2> QED BY <1>0, <2>1, <2>2 DEF Recent
<1>5. Owned' /\ OneChain' /\ Chained' /\ HiddenAfterLogout'
  BY <1>0 DEF Owned, OneChain, Chained, HiddenAfterLogout, OnDashboard
<1>6. Fresh'
  <2> SUFFICES ASSUME refresh
               PROVE  /\ \A r \in Requests : req'[r].stage \in {"cookie", "ok"} =>
                           Lasts(req[r].id, Timeout - req[r].age)'
                      /\ Painted =>
                           /\ pages[curPage].timer # None /\ cookie # None =>
                                Lasts(cookie.id, Timeout - MaxDelay - (PollPeriod - pages[curPage].timer))'
                           /\ \A r \in Requests : sender[r] = curPage =>
                                /\ req'[r].stage = "lookup" /\ req'[r].id # None =>
                                     Lasts(req[r].id, Timeout - MaxDelay - PollPeriod - req[r].age)'
                                /\ req'[r].stage = "decide" =>
                                     req'[r].expiry >= Timeout - MaxDelay - PollPeriod - req'[r].age
    BY <1>0 DEF Fresh, Prolonged, Polled, Lasts
  <2>0. TypeOK /\ Renewed
    BY DEF WellMoved
  <2>1. ASSUME NEW r \in Requests, req'[r].stage \in {"cookie", "ok"}
        PROVE  Lasts(req[r].id, Timeout - req[r].age)'
    <3>1. CASE r = q
      BY <1>1, <2>1, <3>1 DEF WellMoved, Lasts
    <3>2. CASE r # q
      <4>1. req'[r] = req[r] /\ req[r].id \in SessionIDs
            /\ Lasts(req[r].id, Timeout - req[r].age)
        BY <1>1, <2>1, <3>2 DEF Fresh, Prolonged, Polled, Named
      <4>2. Timeout - req[r].age \in Int /\ Timeout - req[r].age <= Timeout
        BY RequestFields, TableFields
      <4>3. table'[req[r].id] = None \/ table'[req[r].id] >= Timeout - req[r].age
        BY <2>0, <4>1, <4>2, RenewedLasts
      <4> QED BY <4>1, <4>3 DEF Lasts
    <3> QED BY <3>1, <3>2
  <2>2. ASSUME Painted, pages[curPage].timer # None, cookie # None
        PROVE  Lasts(cookie.id, Timeout - MaxDelay - (PollPeriod - pages[curPage].timer))'
    <3> DEFINE n == Timeout - MaxDelay - (PollPeriod - pages[curPage].timer)
    <3>1. pages[curPage].timer \in 0 .. PollPeriod /\ cookie.id \in SessionIDs
      BY <2>2, TabFields DEF Painted
    <3>2. n \in Int /\ n <= Timeout
      BY <3>1, TableFields
    <3>3. Lasts(cookie.id, n)
      BY <2>2 DEF Fresh, Prolonged, Polled
    <3> HIDE DEF n
    <3>4. table'[cookie.id] = None \/ table'[cookie.id] >= n
      BY <2>0, <3>1, <3>2, <3>3, RenewedLasts
    <3> QED BY <1>0, <3>4 DEF Lasts, n
  <2>3. ASSUME NEW r \in Requests, Painted, sender[r] = curPage
        PROVE  /\ req'[r].stage = "lookup" /\ req'[r].id # None =>
                    Lasts(req[r].id, Timeout - MaxDelay - PollPeriod - req[r].age)'
               /\ req'[r].stage = "decide" =>
                    req'[r].expiry >= Timeout - MaxDelay - PollPeriod - req'[r].age
    <3>1. CASE r = q
      BY <1>1, <2>3, <3>1 DEF WellMoved
    <3>2. CASE r # q
      <4>0. req'[r] = req[r]
        BY <1>1, <3>2
      <4>1. req[r].stage = "decide" => req[r].expiry >= Timeout - MaxDelay - PollPeriod - req[r].age
        BY <2>3 DEF Fresh, Prolonged, Polled
      <4>2. ASSUME req[r].stage = "lookup", req[r].id # None
            PROVE  Lasts(req[r].id, Timeout - MaxDelay - PollPeriod - req[r].age)'
        <5> DEFINE n == Timeout - MaxDelay - PollPeriod - req[r].age
        <5>1. n \in Int /\ n <= Timeout /\ req[r].id \in SessionIDs
          BY <4>2, RequestFields, TableFields
        <5>2. Lasts(req[r].id, n)
          BY <2>3, <4>2 DEF Fresh, Prolonged, Polled
        <5> HIDE DEF n
        <5>3. table'[req[r].id] = None \/ table'[req[r].id] >= n
          BY <2>0, <5>1, <5>2, RenewedLasts
        <5> QED BY <4>0, <5>3 DEF Lasts, n
      <4> QED BY <4>0, <4>1, <4>2
    <3> QED BY <3>1, <3>2
  <2> QED BY <2>1, <2>2, <2>3
<1> QED BY <1>2, <1>3, <1>4, <1>5, <1>6

\* What such a move has to see to when it writes no expiry.
LEMMA QuietMove ==
  ASSUME IInv, NEW q \in Requests, NEW stage \in Stages, NEW id \in SessionIDs \union {None},
         NEW expiry \in Expiry \union {None}, Moved(q, stage, id, expiry),
         UNCHANGED <<refresh, table, tab>>,
         idle' \in [SessionIDs -> Nat], \A s \in SessionIDs : idle'[s] <= idle[s],
         req[q].stage # "free", stage \notin {"free", "lookup"},
         stage \in {"decide", "extend", "delete", "cookie", "ok"} => id \in SessionIDs,
         stage = "decide" =>
           /\ expiry # None
           /\ expiry > 0 => idle'[id] + expiry <= Bound
           /\ refresh /\ Painted /\ sender[q] = curPage =>
                expiry >= Timeout - MaxDelay - PollPeriod - req[q].age,
         stage = "extend" => refresh /\ idle'[id] <= req[q].age,
         refresh /\ stage \in {"cookie", "ok"} =>
           table[id] = None \/ table[id] >= Timeout - req[q].age
  PROVE  IInv'
<1>1. table' \in [SessionIDs -> Expiry \union {None}] /\ Renewed
  BY DEF IInv, TypeOK, Renewed
<1>2. ASSUME NEW s \in SessionIDs, table'[s] # None, table'[s] > 0 PROVE idle'[s] + table'[s] <= Bound
  <2>1. idle[s] + table[s] <= Bound /\ table[s] \in Nat
    BY <1>2, TableFields DEF IInv, Recent
  <2>2. idle'[s] <= idle[s] /\ idle'[s] \in Nat /\ idle[s] \in Nat /\ Bound \in Nat
    BY TableFields DEF IInv, Named
  <2> QED BY <2>1, <2>2
<1>3. WellMoved(q, stage, id, expiry)
  BY <1>1, <1>2 DEF WellMoved
<1> QED BY <1>3, ServerMoves

LEMMA RejectInv ==
  ASSUME IInv, NEW q \in Requests, Reject(q), UNCHANGED tab
  PROVE  IInv'
<1>1. "refused" \in Stages /\ Goto(q, "refused") /\ UNCHANGED <<refresh, table, idle>>
      /\ req[q].stage # "free"
  BY DEF Reject, Stages
<1>2. Moved(q, "refused", req[q].id, req[q].expiry)
  BY <1>1, Moves DEF IInv
<1>3. req[q].id \in SessionIDs \union {None} /\ req[q].expiry \in Expiry \union {None}
  BY RequestFields DEF IInv
<1>4. idle \in [SessionIDs -> Nat] /\ \A s \in SessionIDs : idle[s] <= idle[s]
  BY DEF IInv, Named
<1> QED BY <1>1, <1>2, <1>3, <1>4, QuietMove

LEMMA LookupInv ==
  ASSUME IInv, NEW q \in Requests, Lookup(q), UNCHANGED tab
  PROVE  IInv'
<1> DEFINE id == req[q].id
<1>0. UNCHANGED <<refresh, table, idle>> /\ req[q].stage = "lookup" /\ req[q].stage # "free"
      /\ "refused" \in Stages /\ "decide" \in Stages
  BY DEF Lookup, Stages
<1>1. id \in SessionIDs \union {None} /\ req[q].expiry \in Expiry \union {None}
  BY RequestFields DEF IInv
<1>2. idle \in [SessionIDs -> Nat] /\ \A s \in SessionIDs : idle[s] <= idle[s]
  BY DEF IInv, Named
<1>3. CASE id = None \/ table[id] = None
  <2>1. Moved(q, "refused", req[q].id, req[q].expiry)
    BY <1>0, <1>3, Moves DEF IInv, Lookup
  <2> QED BY <1>0, <1>1, <1>2, <2>1, QuietMove
<1>4. CASE id # None /\ table[id] # None
  <2>1. id \in SessionIDs /\ table[id] \in Expiry \union {None}
    BY <1>1, <1>4, TableFields DEF IInv
  <2>2. req' = [req EXCEPT ![q].stage = "decide", ![q].expiry = table[id]]
    BY <1>4 DEF Lookup
  <2>3. Moved(q, "decide", id, table[id])
    BY <1>0, <2>1, <2>2, Moves DEF IInv
  <2>4. table[id] > 0 => idle[id] + table[id] <= Bound
    BY <1>4, <2>1 DEF IInv, Recent
  <2>5. refresh /\ Painted /\ sender[q] = curPage =>
          table[id] >= Timeout - MaxDelay - PollPeriod - req[q].age
    BY <1>0, <1>4 DEF IInv, Fresh, Prolonged, Polled, Lasts
  <2> HIDE DEF id
  <2> QED BY <1>0, <1>1, <1>2, <1>4, <2>1, <2>3, <2>4, <2>5, QuietMove
<1> QED BY <1>3, <1>4

LEMMA DecideInv ==
  ASSUME IInv, NEW q \in Requests, Decide(q), UNCHANGED tab
  PROVE  IInv'
<1> DEFINE id == req[q].id
<1>0. UNCHANGED <<refresh, table>> /\ req[q].stage = "decide" /\ req[q].stage # "free"
      /\ {"extend", "cookie", "delete"} \subseteq Stages
  BY DEF Decide, Stages
<1>1. id \in SessionIDs /\ req[q].expiry \in Expiry \union {None}
      /\ req[q].age \in Nat
  BY <1>0, RequestFields DEF IInv, Named
<1>2. idle \in [SessionIDs -> Nat]
  BY DEF IInv, Named
<1>3. CASE ~ (req[q].expiry > 0)
  <2>1. Goto(q, "delete") /\ idle' = idle
    BY <1>3 DEF Decide
  <2>2. Moved(q, "delete", id, req[q].expiry)
    BY <1>0, <2>1, Moves DEF IInv
  <2>3. \A s \in SessionIDs : idle[s] <= idle[s]
    BY <1>2
  <2> HIDE DEF id
  <2> QED BY <1>0, <1>1, <1>2, <2>1, <2>2, <2>3, QuietMove
<1>4. CASE req[q].expiry > 0 /\ refresh
  <2>1. Goto(q, "extend") /\ idle' = [idle EXCEPT ![id] = 0]
    BY <1>4 DEF Decide
  <2>2. Moved(q, "extend", id, req[q].expiry)
    BY <1>0, <2>1, Moves DEF IInv
  <2> HIDE DEF id
  <2>3. idle' \in [SessionIDs -> Nat] /\ idle'[id] = 0
        /\ \A s \in SessionIDs : idle'[s] <= idle[s]
    BY <1>1, <1>2, <2>1
  <2> QED BY <1>0, <1>1, <1>4, <2>2, <2>3, QuietMove
<1>5. CASE req[q].expiry > 0 /\ ~refresh
  <2>1. Goto(q, "cookie") /\ idle' = idle
    BY <1>5 DEF Decide
  <2>2. Moved(q, "cookie", id, req[q].expiry)
    BY <1>0, <2>1, Moves DEF IInv
  <2>3. \A s \in SessionIDs : idle[s] <= idle[s]
    BY <1>2
  <2> HIDE DEF id
  <2> QED BY <1>0, <1>1, <1>2, <1>5, <2>1, <2>2, <2>3, QuietMove
<1> QED BY <1>3, <1>4, <1>5

LEMMA SetCookieInv ==
  ASSUME IInv, NEW q \in Requests, SetCookie(q), UNCHANGED tab
  PROVE  IInv'
<1> DEFINE id == req[q].id
<1>0. UNCHANGED <<refresh, table, idle>> /\ req[q].stage = "cookie" /\ req[q].stage # "free"
      /\ "ok" \in Stages
  BY DEF SetCookie, Stages
<1>1. id \in SessionIDs /\ table[id] \in Expiry \union {None}
  BY <1>0, TableFields DEF IInv, Named
<1>2. idle \in [SessionIDs -> Nat] /\ \A s \in SessionIDs : idle[s] <= idle[s]
  BY DEF IInv, Named
<1>3. req' = [req EXCEPT ![q].stage = "ok", ![q].expiry = table[id]]
  BY DEF SetCookie
<1>4. Moved(q, "ok", id, table[id])
  BY <1>0, <1>1, <1>3, Moves DEF IInv
<1>5. refresh => table[id] = None \/ table[id] >= Timeout - req[q].age
  BY <1>0 DEF IInv, Fresh, Prolonged, Polled, Lasts
<1> HIDE DEF id
<1> QED BY <1>0, <1>1, <1>2, <1>4, <1>5, QuietMove

LEMMA ExtendInv ==
  ASSUME IInv, NEW q \in Requests, Extend(q), UNCHANGED tab
  PROVE  IInv'
<1> DEFINE id == req[q].id
<1>0. UNCHANGED <<refresh, idle>> /\ req[q].stage = "extend" /\ req[q].stage # "free"
      /\ "cookie" \in Stages /\ Goto(q, "cookie") /\ table' = [table EXCEPT ![id] = Timeout]
  BY DEF Extend, Stages
<1>1. id \in SessionIDs /\ req[q].expiry \in Expiry \union {None}
      /\ req[q].age \in Nat /\ req[q].age <= MaxDelay
  BY <1>0, RequestFields DEF IInv, Named
<1>2. idle \in [SessionIDs -> Nat] /\ \A s \in SessionIDs : idle'[s] <= idle[s]
  BY <1>0 DEF IInv, Named
<1>3. Moved(q, "cookie", id, req[q].expiry)
  BY <1>0, Moves DEF IInv
<1>4. refresh /\ idle[id] <= req[q].age
  BY <1>0 DEF IInv, Recent
<1> HIDE DEF id
<1>5. table' \in [SessionIDs -> Expiry \union {None}] /\ Renewed /\ table'[id] = Timeout
      /\ \A s \in SessionIDs : s # id => table'[s] = table[s]
  BY <1>0, <1>1, TableFields DEF IInv, TypeOK, Renewed
<1>6. ASSUME NEW s \in SessionIDs, table'[s] # None, table'[s] > 0 PROVE idle'[s] + table'[s] <= Bound
  <2>1. CASE s = id
    <3>1. Bound = Timeout + MaxDelay /\ Timeout \in Nat /\ MaxDelay \in Nat /\ idle[id] \in Nat
      BY <1>1, <1>2, <1>4, TableFields DEF IInv
    <3> QED BY <1>0, <1>1, <1>4, <1>5, <2>1, <3>1
  <2>2. CASE s # id
    BY <1>0, <1>5, <1>6, <2>2 DEF IInv, Recent
  <2> QED BY <2>1, <2>2
<1>7. table'[id] >= Timeout - req[q].age
  BY <1>1, <1>5, TableFields DEF IInv
<1>8. WellMoved(q, "cookie", id, req[q].expiry)
  BY <1>0, <1>1, <1>2, <1>3, <1>5, <1>6, <1>7 DEF WellMoved
<1> QED BY <1>0, <1>1, <1>8, ServerMoves

LEMMA DeleteInv ==
  ASSUME IInv, NEW q \in Requests, Delete(q), UNCHANGED tab
  PROVE  IInv'
<1> DEFINE id == req[q].id
<1>0. UNCHANGED <<refresh, idle>> /\ req[q].stage = "delete" /\ req[q].stage # "free"
      /\ "refused" \in Stages /\ Goto(q, "refused") /\ table' = [table EXCEPT ![id] = None]
  BY DEF Delete, Stages
<1>1. id \in SessionIDs /\ req[q].expiry \in Expiry \union {None}
  BY <1>0, RequestFields DEF IInv, Named
<1>2. idle \in [SessionIDs -> Nat] /\ \A s \in SessionIDs : idle'[s] <= idle[s]
  BY <1>0 DEF IInv, Named
<1>3. Moved(q, "refused", id, req[q].expiry)
  BY <1>0, Moves DEF IInv
<1> HIDE DEF id
<1>4. table' \in [SessionIDs -> Expiry \union {None}] /\ Renewed
      /\ \A s \in SessionIDs : table'[s] # None => table'[s] = table[s]
  BY <1>0, <1>1, TableFields DEF IInv, TypeOK, Renewed
<1>5. \A s \in SessionIDs : table'[s] # None /\ table'[s] > 0 => idle'[s] + table'[s] <= Bound
  BY <1>0, <1>4 DEF IInv, Recent
<1>6. WellMoved(q, "refused", id, req[q].expiry)
  BY <1>0, <1>1, <1>2, <1>3, <1>4, <1>5 DEF WellMoved
<1> QED BY <1>0, <1>1, <1>6, ServerMoves

LEMMA NewInv ==
  ASSUME IInv, NEW q \in Requests, NEW id \in SessionIDs, New(q, id), UNCHANGED tab
  PROVE  IInv'
<1>0. UNCHANGED refresh /\ req[q].stage = "login" /\ req[q].stage # "free"
      /\ "cookie" \in Stages /\ table' = [table EXCEPT ![id] = Timeout]
      /\ idle' = [idle EXCEPT ![id] = 0]
      /\ req' = [req EXCEPT ![q].stage = "cookie", ![q].id = id]
  BY DEF New, Stages
<1>1. req[q].expiry \in Expiry \union {None} /\ req[q].age \in Nat
  BY RequestFields DEF IInv
<1>2. /\ idle' \in [SessionIDs -> Nat] /\ idle'[id] = 0
      /\ \A s \in SessionIDs : idle'[s] <= idle[s]
      /\ \A s \in SessionIDs : s # id => idle'[s] = idle[s]
  <2>1. idle \in [SessionIDs -> Nat]
    BY DEF IInv, Named
  <2> QED BY <1>0, <2>1
<1>3. Moved(q, "cookie", id, req[q].expiry)
  BY <1>0, Moves DEF IInv
<1>4. table' \in [SessionIDs -> Expiry \union {None}] /\ Renewed /\ table'[id] = Timeout
      /\ \A s \in SessionIDs : s # id => table'[s] = table[s]
  BY <1>0, TableFields DEF IInv, TypeOK, Renewed
<1>5. \A s \in SessionIDs : table'[s] # None /\ table'[s] > 0 => idle'[s] + table'[s] <= Bound
  <2>1. 0 + Timeout <= Bound
    BY TableFields DEF IInv
  <2> QED BY <1>2, <1>4, <2>1 DEF IInv, Recent
<1>6. table'[id] >= Timeout - req[q].age
  BY <1>1, <1>4, TableFields DEF IInv
<1>7. WellMoved(q, "cookie", id, req[q].expiry)
  BY <1>0, <1>2, <1>3, <1>4, <1>5, <1>6 DEF WellMoved
<1> QED BY <1>0, <1>1, <1>7, ServerMoves

LEMMA HandleInv ==
  ASSUME IInv, NEW q \in Requests, Handle(q), UNCHANGED tab
  PROVE  IInv'
BY RejectInv, LookupInv, DecideInv, ExtendInv, DeleteInv, SetCookieInv DEF Handle

\* A restart ends every session and breaks every request.
LEMMA RestartInv ==
  ASSUME IInv, ServerRestart
  PROVE  IInv'
<1> USE DEF IInv
<1>0. UNCHANGED <<refresh, idle, cookie, loading, curPage, pages, sender, visible>>
  BY DEF ServerRestart, Restart, tab
<1>1. \A id \in SessionIDs : table'[id] = None
  BY DEF ServerRestart, Restart
<1>2. ASSUME NEW q \in Requests
      PROVE  /\ req'[q] \in Request
             /\ \/ req'[q] = req[q] /\ req[q].stage \in Answers \union {"free"}
                \/ req'[q].stage = "broken" /\ req[q].stage # "free"
  <2>1. CASE req[q].stage \in Answers \union {"free"}
    BY <2>1 DEF ServerRestart, Restart, TypeOK
  <2>2. CASE req[q].stage \notin Answers \union {"free"}
    <3>1. req'[q] = [req[q] EXCEPT !.stage = "broken"]
      BY <2>2 DEF ServerRestart, Restart
    <3>2. req[q] \in Request
      BY DEF TypeOK
    <3> QED BY <2>2, <3>1, <3>2 DEF Request, Stages
  <2> QED BY <2>1, <2>2
<1>3. TypeOK'
  <2>1. req' \in [Requests -> Request]
    <3>1. DOMAIN req' = Requests /\ req' = [q \in Requests |-> req'[q]]
      BY DEF ServerRestart, Restart
    <3> QED BY <1>2, <3>1
  <2>2. table' \in [SessionIDs -> Expiry \union {None}]
    BY DEF ServerRestart, Restart
  <2> QED BY <1>0, <1>2, <2>1, <2>2 DEF TypeOK, Answers
<1>4. Named'
  BY <1>0, <1>2 DEF Named
<1>5. Recent'
  BY <1>0, <1>1, <1>2 DEF Recent, Answers
<1>6. Owned' /\ OneChain' /\ Chained' /\ HiddenAfterLogout'
  BY <1>0 DEF Owned, OneChain, Chained, HiddenAfterLogout, OnDashboard
<1>7. Fresh'
  <2>1. \A q \in Requests : req'[q].stage \in {"cookie", "ok"} => req'[q].id \in SessionIDs
    BY <1>4 DEF Named
  <2>2. cookie # None => cookie.id \in SessionIDs
    BY TabFields
  <2>3. \A q \in Requests : req'[q].id # None => req'[q].id \in SessionIDs
    BY <1>2 DEF Request
  <2>4. \A q \in Requests : req'[q].stage # "decide"
    BY <1>2 DEF Answers
  <2> QED BY <1>0, <1>1, <2>1, <2>2, <2>3, <2>4 DEF Fresh, Prolonged, Polled, Lasts
<1> QED BY <1>3, <1>4, <1>5, <1>6, <1>7

-----------------------------------------------------------------------------
(* Time.                                                                   *)

LEMMA SoonerIs ==
  ASSUME NEW n \in Nat, NEW t \in 0 .. n \union {None}, None \notin Int
  PROVE  /\ Sooner(t) \in 0 .. n \union {None}
         /\ Sooner(t) = None <=> t = None
         /\ t # None => t \in Nat /\ Sooner(t) \in Nat /\ Sooner(t) >= t - 1 /\ Sooner(t) <= t
         /\ t # None /\ Sooner(t) > 0 => Sooner(t) = t - 1 /\ t > 0
BY DEF Sooner

LEMMA ClockInv ==
  ASSUME IInv, Clock
  PROVE  IInv'
<1> USE DEF IInv
<1>c. /\ Timeout \in Nat \ {0} /\ MaxDelay \in Nat /\ PollPeriod \in Nat \ {0}
      /\ Bound \in Nat /\ None \notin Int /\ Bound <= Timeout + MaxDelay
  BY TableFields DEF Bound
<1>0. /\ UNCHANGED <<refresh, loading, curPage, sender, visible>>
      /\ \A p \in Pages : pages[p].timer # 0
      /\ \A q \in Requests : req[q].stage # "free" => req[q].age < MaxDelay
      /\ Bound' = Bound
  BY DEF Clock, Tick, Bound
<1>1. ASSUME NEW id \in SessionIDs
      PROVE  /\ table'[id] \in Expiry \union {None} /\ (table'[id] = None <=> table[id] = None)
             /\ table[id] # None => /\ table[id] \in Nat /\ table'[id] \in Nat
                                    /\ table'[id] >= table[id] - 1
                                    /\ table'[id] > 0 => table'[id] = table[id] - 1 /\ table[id] > 0
  <2>1. table'[id] = Sooner(table[id])
    BY DEF Clock, Tick
  <2>2. table[id] \in 0 .. Timeout \union {None}
    BY DEF TypeOK, Expiry
  <2>3. /\ Sooner(table[id]) \in 0 .. Timeout \union {None}
        /\ Sooner(table[id]) = None <=> table[id] = None
    BY <1>c, <2>2, SoonerIs
  <2>4. table[id] # None =>
          /\ table[id] \in Nat /\ Sooner(table[id]) \in Nat
          /\ Sooner(table[id]) >= table[id] - 1
          /\ Sooner(table[id]) > 0 => Sooner(table[id]) = table[id] - 1 /\ table[id] > 0
    BY <1>c, <2>2 DEF Sooner
  <2> QED BY <2>1, <2>3, <2>4 DEF Expiry
<1>2. ASSUME NEW id \in SessionIDs
      PROVE  /\ idle[id] \in Nat /\ idle'[id] \in Nat /\ idle'[id] <= idle[id] + 1
             /\ idle[id] <= Timeout + MaxDelay => idle'[id] = idle[id] + 1
  <2>1. idle[id] \in Nat
    BY DEF Named
  <2>2. idle'[id] = IF idle[id] > Timeout + MaxDelay THEN idle[id] ELSE idle[id] + 1
    BY DEF Clock, Tick
  <2> QED BY <1>c, <2>1, <2>2
<1>3. ASSUME NEW q \in Requests
      PROVE  /\ req[q].stage = "free" => req'[q] = req[q]
             /\ req[q].stage # "free" =>
                  /\ req'[q].stage = req[q].stage /\ req'[q].id = req[q].id
                  /\ req'[q].expiry = Sooner(req[q].expiry)
                  /\ req'[q].age = req[q].age + 1
             /\ req'[q] \in Request /\ req'[q].stage = req[q].stage
             /\ req[q].age \in Nat
  <2>0. req[q] \in Request /\ req[q].age \in 0 .. MaxDelay /\ req[q].expiry \in 0 .. Timeout \union {None}
    BY RequestFields DEF TypeOK, Expiry
  <2>1. CASE req[q].stage = "free"
    <3>1. req'[q] = req[q]
      BY <2>1 DEF Clock, Tick
    <3> QED BY <2>0, <2>1, <3>1
  <2>2. CASE req[q].stage # "free"
    <3> DEFINE r == [stage |-> req[q].stage, id |-> req[q].id,
                     expiry |-> Sooner(req[q].expiry), age |-> req[q].age + 1]
    <3>1. req'[q] = [req[q] EXCEPT !.expiry = Sooner(req[q].expiry), !.age = req[q].age + 1]
      BY <2>2 DEF Clock, Tick
    <3>2. [req[q] EXCEPT !.expiry = Sooner(req[q].expiry)] =
            [stage |-> req[q].stage, id |-> req[q].id,
             expiry |-> Sooner(req[q].expiry), age |-> req[q].age]
      BY <2>0 DEF Request
    <3>3. req'[q] = r
      BY <3>1, <3>2
    <3>4. Sooner(req[q].expiry) \in Expiry \union {None}
      BY <1>c, <2>0, SoonerIs DEF Expiry
    <3>5. req[q].age + 1 \in 0 .. MaxDelay
      BY <1>0, <1>c, <2>0, <2>2
    <3>6. r \in Request
      BY <2>0, <3>4, <3>5 DEF Request
    <3> QED BY <2>0, <2>2, <3>3, <3>6
  <2> QED BY <2>1, <2>2
<1>4. ASSUME NEW p \in Pages
      PROVE  /\ pages'[p] \in [kind : {"none", "login", "dash"}, painted : BOOLEAN,
                               timer : 0 .. PollPeriod \union {None}]
             /\ pages'[p].kind = pages[p].kind /\ pages'[p].painted = pages[p].painted
             /\ (pages'[p].timer = None <=> pages[p].timer = None)
             /\ pages[p].timer # None =>
                  pages[p].timer \in 1 .. PollPeriod /\ pages'[p].timer = pages[p].timer - 1
             /\ pages[p] = NoPage => pages'[p] = NoPage
  <2>0. pages[p] \in [kind : {"none", "login", "dash"}, painted : BOOLEAN,
                      timer : 0 .. PollPeriod \union {None}]
    BY DEF TypeOK
  <2> DEFINE t == Sooner(pages[p].timer)
  <2>1. pages'[p] = [pages[p] EXCEPT !.timer = t]
    BY DEF Clock
  <2>2. pages[p].timer \in 0 .. PollPeriod \union {None} /\ pages[p].timer # 0
    BY <1>0, <2>0
  <2>3. t \in 0 .. PollPeriod \union {None} /\ (t = None <=> pages[p].timer = None)
    BY <1>c, <2>2, SoonerIs
  <2>4. pages[p].timer # None => pages[p].timer \in 1 .. PollPeriod /\ t = pages[p].timer - 1
    BY <1>c, <2>2 DEF Sooner
  <2> HIDE DEF t
  <2>5. pages'[p] = [kind |-> pages[p].kind, painted |-> pages[p].painted, timer |-> t]
    BY <2>0, <2>1
  <2>6. pages'[p].timer = t /\ pages'[p].kind = pages[p].kind /\ pages'[p].painted = pages[p].painted
    BY <2>5
  <2>7. pages'[p] \in [kind : {"none", "login", "dash"}, painted : BOOLEAN,
                       timer : 0 .. PollPeriod \union {None}]
    BY <2>0, <2>3, <2>5
  <2>8. pages[p] = NoPage => pages'[p] = NoPage
    BY <2>3, <2>5 DEF NoPage
  <2> QED BY <2>3, <2>4, <2>6, <2>7, <2>8
<1>5. /\ cookie' = None \/ (cookie # None /\ cookie' # None /\ cookie'.id = cookie.id)
      /\ cookie' \in [id : SessionIDs, expiry : Expiry \union {None}] \union {None}
  <2>1. CASE cookie = None \/ cookie' = None
    BY <2>1 DEF Clock
  <2>2. CASE cookie # None /\ cookie' # None
    <3>0. cookie \in [id : SessionIDs, expiry : Expiry \union {None}]
      BY <2>2 DEF TypeOK
    <3>1. cookie' = [cookie EXCEPT !.expiry = Sooner(cookie.expiry)]
      BY <2>2 DEF Clock
    <3>2. Sooner(cookie.expiry) \in Expiry \union {None}
      BY <1>c, <3>0, SoonerIs DEF Expiry
    <3> QED BY <2>2, <3>0, <3>1, <3>2
  <2> QED BY <2>1, <2>2
<1>6. TypeOK'
  <2>1. table' \in [SessionIDs -> Expiry \union {None}]
    <3>1. table' = [id \in SessionIDs |-> table'[id]]
      BY DEF Clock, Tick
    <3> QED BY <1>1, <3>1
  <2>2. req' \in [Requests -> Request]
    <3>1. req' = [q \in Requests |-> req'[q]]
      BY DEF Clock, Tick
    <3> QED BY <1>3, <3>1
  <2>3. pages' \in [Pages -> [kind : {"none", "login", "dash"}, painted : BOOLEAN,
                              timer : 0 .. PollPeriod \union {None}]]
    <3>1. pages' = [p \in Pages |-> pages'[p]]
      BY DEF Clock
    <3> QED BY <1>4, <3>1
  <2>4. ASSUME NEW q \in Requests, req'[q].stage = "decide" PROVE req'[q].expiry # None
    <3>1. req[q].stage = "decide" /\ req[q].expiry # None /\ req'[q].expiry = Sooner(req[q].expiry)
      BY <1>3, <2>4 DEF TypeOK
    <3>2. req[q].expiry \in 0 .. Timeout \union {None}
      BY RequestFields DEF Expiry
    <3> QED BY <1>c, <3>1, <3>2, SoonerIs
  <2> QED BY <1>0, <1>5, <2>1, <2>2, <2>3, <2>4 DEF TypeOK
<1>7. Named'
  <2>1. idle' \in [SessionIDs -> Nat]
    <3>1. idle' = [id \in SessionIDs |-> idle'[id]]
      BY DEF Clock, Tick
    <3> QED BY <1>2, <3>1
  <2> QED BY <1>0, <1>3, <2>1 DEF Named
<1>8. Recent'
  <2>1. ASSUME NEW id \in SessionIDs, table'[id] # None, table'[id] > 0
        PROVE  idle'[id] + table'[id] <= Bound
    <3>1. idle[id] + table[id] <= Bound /\ table[id] \in Nat /\ table'[id] = table[id] - 1
      BY <1>1, <2>1 DEF Recent
    <3> QED BY <1>2, <1>c, <3>1
  <2>2. ASSUME NEW q \in Requests, req'[q].stage = "decide", req'[q].expiry > 0
        PROVE  idle'[req'[q].id] + req'[q].expiry <= Bound
    <3>1. req[q].stage = "decide" /\ req[q].expiry # None /\ req'[q].expiry = Sooner(req[q].expiry)
          /\ req'[q].id = req[q].id /\ req[q].id \in SessionIDs
      BY <1>3, <2>2 DEF TypeOK, Named
    <3>2. req[q].expiry \in 0 .. Timeout \union {None}
      BY RequestFields DEF Expiry
    <3>3. req'[q].expiry = req[q].expiry - 1 /\ req[q].expiry > 0 /\ req[q].expiry \in Nat
      BY <1>c, <2>2, <3>1, <3>2 DEF Sooner
    <3>4. idle[req[q].id] + req[q].expiry <= Bound
      BY <3>1, <3>3 DEF Recent
    <3>5. idle'[req[q].id] \in Nat /\ idle[req[q].id] \in Nat /\ idle'[req[q].id] <= idle[req[q].id] + 1
      BY <1>2, <3>1
    <3> QED BY <1>c, <3>1, <3>3, <3>4, <3>5
  <2>3. ASSUME NEW q \in Requests, req'[q].stage = "extend"
        PROVE  refresh /\ idle'[req'[q].id] <= req'[q].age
    <3>1. req[q].stage = "extend" /\ req'[q].id = req[q].id /\ req[q].id \in SessionIDs
          /\ req'[q].age = req[q].age + 1 /\ req[q].age \in Nat
      BY <1>3, <2>3 DEF Named
    <3>2. refresh /\ idle[req[q].id] <= req[q].age
      BY <3>1 DEF Recent
    <3> QED BY <1>2, <3>1, <3>2
  <2> QED BY <1>0, <2>1, <2>2, <2>3 DEF Recent
<1>9. curPage \in Pages \union {None} /\ (OnDashboard <=> OnDashboard') /\ (Painted <=> Painted')
      /\ (OnDashboard => curPage \in Pages)
  BY <1>0, <1>4 DEF TypeOK, OnDashboard, Painted
<1>10. Owned'
  BY <1>0, <1>4 DEF Owned
<1>11. OneChain'
  BY <1>0, <1>4 DEF OneChain
<1>12. Chained'
  BY <1>0, <1>4, <1>9 DEF Chained
<1>13. HiddenAfterLogout'
  BY <1>0, <1>9 DEF HiddenAfterLogout
<1>14. Fresh'
  <2>0. ASSUME NEW id \in SessionIDs, NEW n \in Int, Lasts(id, n)
        PROVE  table'[id] = None \/ table'[id] >= n - 1
    BY <1>1, <2>0 DEF Lasts
  <2> SUFFICES ASSUME refresh PROVE Fresh'
    BY <1>0 DEF Fresh, Prolonged, Polled
  <2>1. ASSUME NEW q \in Requests, req'[q].stage \in {"cookie", "ok"}
        PROVE  table'[req'[q].id] = None \/ table'[req'[q].id] >= Timeout - req'[q].age
    <3>1. req[q].stage \in {"cookie", "ok"} /\ req'[q].id = req[q].id /\ req[q].id \in SessionIDs
          /\ req'[q].age = req[q].age + 1 /\ req[q].age \in Nat
      BY <1>3, <2>1 DEF Named
    <3>2. Lasts(req[q].id, Timeout - req[q].age)
      BY <3>1 DEF Fresh, Prolonged, Polled
    <3>3. table'[req[q].id] = None \/ table'[req[q].id] >= (Timeout - req[q].age) - 1
      BY <1>c, <2>0, <3>1, <3>2
    <3>4. Timeout - req'[q].age = (Timeout - req[q].age) - 1
      BY <1>c, <3>1
    <3> QED BY <3>1, <3>3, <3>4
  <2>2. ASSUME Painted, pages'[curPage].timer # None, cookie' # None
        PROVE  table'[cookie'.id] = None
               \/ table'[cookie'.id] >= Timeout - MaxDelay - (PollPeriod - pages'[curPage].timer)
    <3> DEFINE n == Timeout - MaxDelay - (PollPeriod - pages[curPage].timer)
    <3>1. curPage \in Pages /\ cookie # None /\ cookie'.id = cookie.id /\ cookie.id \in SessionIDs
      BY <1>5, <1>9, <2>2, TabFields DEF Painted
    <3>2. pages[curPage].timer \in 1 .. PollPeriod /\ pages'[curPage].timer = pages[curPage].timer - 1
      BY <1>4, <2>2, <3>1
    <3>3. Lasts(cookie.id, n)
      BY <1>c, <2>2, <3>1, <3>2 DEF Fresh, Prolonged, Polled
    <3>4. n \in Int /\ Timeout - MaxDelay - (PollPeriod - pages'[curPage].timer) = n - 1
      BY <1>c, <3>2
    <3> HIDE DEF n
    <3>5. table'[cookie.id] = None \/ table'[cookie.id] >= n - 1
      BY <2>0, <3>1, <3>3, <3>4
    <3> QED BY <3>1, <3>4, <3>5
  <2>3. ASSUME NEW q \in Requests, Painted, sender[q] = curPage, req'[q].stage = "lookup", req'[q].id # None
        PROVE  table'[req'[q].id] = None
               \/ table'[req'[q].id] >= Timeout - MaxDelay - PollPeriod - req'[q].age
    <3> DEFINE n == Timeout - MaxDelay - PollPeriod - req[q].age
    <3>1. req[q].stage = "lookup" /\ req'[q].id = req[q].id /\ req[q].id \in SessionIDs
          /\ req'[q].age = req[q].age + 1 /\ req[q].age \in Nat
      BY <1>3, <2>3, RequestFields
    <3>2. Lasts(req[q].id, n)
      BY <1>c, <2>3, <3>1 DEF Fresh, Prolonged, Polled
    <3>3. n \in Int /\ Timeout - MaxDelay - PollPeriod - req'[q].age = n - 1
      BY <1>c, <3>1
    <3> HIDE DEF n
    <3>4. table'[req[q].id] = None \/ table'[req[q].id] >= n - 1
      BY <2>0, <3>1, <3>2, <3>3
    <3> QED BY <3>1, <3>3, <3>4
  <2>4. ASSUME NEW q \in Requests, Painted, sender[q] = curPage, req'[q].stage = "decide"
        PROVE  req'[q].expiry >= Timeout - MaxDelay - PollPeriod - req'[q].age
    <3>1. req[q].stage = "decide" /\ req'[q].age = req[q].age + 1 /\ req[q].age \in Nat
          /\ req'[q].expiry = Sooner(req[q].expiry) /\ req[q].expiry # None
      BY <1>3, <2>4 DEF TypeOK
    <3>2. req[q].expiry \in 0 .. Timeout \union {None}
      BY RequestFields DEF Expiry
    <3>3. req[q].expiry \in Nat /\ req'[q].expiry \in Nat /\ req'[q].expiry >= req[q].expiry - 1
      BY <1>c, <3>1, <3>2 DEF Sooner
    <3>4. req[q].expiry >= Timeout - MaxDelay - PollPeriod - req[q].age
      BY <2>4, <3>1 DEF Fresh, Prolonged, Polled
    <3> QED BY <1>c, <3>1, <3>3, <3>4
  <2> QED BY <1>0, <1>9, <2>1, <2>2, <2>3, <2>4 DEF Fresh, Prolonged, Polled, Lasts
<1> QED BY <1>6, <1>7, <1>8, <1>10, <1>11, <1>12, <1>13, <1>14

-----------------------------------------------------------------------------
(* The steps of the tab.                                                   *)

PageType == [kind : {"none", "login", "dash"}, painted : BOOLEAN,
             timer : 0 .. PollPeriod \union {None}]
Shown == [certs : {"hidden", "shown", "late"}, login : BOOLEAN]
Senders == [Requests -> Pages \union {None}]

\* Requests change hands at their ends only.
TabRequest(q) ==
  \/ req'[q] = req[q] \/ req'[q] = Free
  \/ req'[q].stage \in {"login", "badLogin", "lookup"}

LEMMA TabStep ==
  ASSUME IInv, UNCHANGED <<refresh, table, idle>>, req' \in [Requests -> Request],
         \A q \in Requests : TabRequest(q),
         \A q \in Requests : req'[q].stage = "free" => req'[q] = Free /\ sender'[q] = None,
         cookie' \in [id : SessionIDs, expiry : Expiry \union {None}] \union {None},
         loading' \in BOOLEAN, curPage' \in Pages \union {None},
         pages' \in [Pages -> PageType], sender' \in Senders, visible' \in Shown,
         Owned', OneChain', Chained', HiddenAfterLogout',
         refresh /\ Painted' => Polled'
  PROVE  IInv'
<1> USE DEF IInv
<1>0. Bound' = Bound
  BY DEF Bound
<1>1. \A q \in Requests : req'[q] = req[q] \/
        req'[q].stage \notin {"decide", "extend", "delete", "cookie", "ok"}
  BY DEF TabRequest, Free
<1>2. TypeOK'
  BY <1>1 DEF TypeOK, PageType, Shown, Senders
<1>3. Named'
  BY <1>1 DEF Named
<1>4. Recent'
  BY <1>0, <1>1 DEF Recent
<1>5. Fresh'
  BY <1>1 DEF Fresh, Prolonged, Lasts
<1> QED BY <1>2, <1>3, <1>4, <1>5

LEMMA PageFields ==
  ASSUME NEW t \in PageType
  PROVE  /\ t = [kind |-> t.kind, painted |-> t.painted, timer |-> t.timer]
         /\ [t EXCEPT !.timer = None] = [kind |-> t.kind, painted |-> t.painted, timer |-> None]
         /\ [t EXCEPT !.timer = None] \in PageType
         /\ \A k \in {"none", "login", "dash"} :
              /\ [t EXCEPT !.kind = k] = [kind |-> k, painted |-> t.painted, timer |-> t.timer]
              /\ [t EXCEPT !.kind = k] \in PageType
         /\ NoPage \in PageType /\ NoPage.kind = "none" /\ NoPage.timer = None /\ ~NoPage.painted
BY DEF PageType, NoPage

\* A page and what it may have lost.
Weaker(s, t) == s.kind = t.kind /\ s.painted = t.painted /\ (s.timer = t.timer \/ s.timer = None)

LEMMA StopTimer ==
  ASSUME NEW ps \in [Pages -> PageType], NEW cur \in Pages
  PROVE  /\ [ps EXCEPT ![cur].timer = None] \in [Pages -> PageType]
         /\ [ps EXCEPT ![cur].timer = None][cur].timer = None
         /\ \A p \in Pages : /\ Weaker([ps EXCEPT ![cur].timer = None][p], ps[p])
                             /\ p # cur => [ps EXCEPT ![cur].timer = None][p] = ps[p]
<1> DEFINE t == [ps[cur] EXCEPT !.timer = None]
<1>1. ps[cur] \in PageType
  OBVIOUS
<1>2. t \in PageType /\ t.timer = None /\ t.kind = ps[cur].kind /\ t.painted = ps[cur].painted
  BY <1>1, PageFields
<1>3. [ps EXCEPT ![cur].timer = None] = [ps EXCEPT ![cur] = t]
  OBVIOUS
<1> HIDE DEF t
<1> QED BY <1>2, <1>3 DEF Weaker

LEMMA SetKind ==
  ASSUME NEW ps \in [Pages -> PageType], NEW new \in Pages, ps[new] = NoPage,
         NEW k \in {"none", "login", "dash"}
  PROVE  /\ [ps EXCEPT ![new].kind = k] \in [Pages -> PageType]
         /\ [ps EXCEPT ![new].kind = k][new].kind = k
         /\ [ps EXCEPT ![new].kind = k][new].timer = None
         /\ ~[ps EXCEPT ![new].kind = k][new].painted
         /\ \A p \in Pages : p # new => [ps EXCEPT ![new].kind = k][p] = ps[p]
<1> DEFINE t == [ps[new] EXCEPT !.kind = k]
<1>1. ps[new] \in PageType /\ ps[new].timer = None /\ ~ps[new].painted
  BY PageFields
<1>2. t \in PageType /\ t.timer = None /\ t.kind = k /\ ~t.painted
  <2>1. t = [kind |-> k, painted |-> ps[new].painted, timer |-> ps[new].timer] /\ t \in PageType
    BY <1>1, PageFields
  <2> HIDE DEF t
  <2> QED BY <1>1, <2>1
<1>3. [ps EXCEPT ![new].kind = k] = [ps EXCEPT ![new] = t]
  OBVIOUS
<1> HIDE DEF t
<1> QED BY <1>2, <1>3

LEMMA KeptPages ==
  ASSUME NEW ps \in [Pages -> PageType], NEW cur, NEW from \in Senders
  PROVE  /\ Kept(ps, cur, from) \in [Pages -> PageType]
         /\ cur \in Pages => Kept(ps, cur, from)[cur] = ps[cur]
         /\ \A p \in Pages :
              \/ Kept(ps, cur, from)[p] = ps[p]
              \/ Kept(ps, cur, from)[p] = NoPage /\ \A q \in Requests : from[q] # p
BY PageFields DEF Kept

\* The pages after a step in which every page is at most weakened or gone,
\* but for a new one.
LEMMA PagesKept ==
  ASSUME IInv, NEW ps \in [Pages -> PageType], NEW new \in Pages \union {None},
         NEW from \in Senders, sender' = from,
         \A p \in Pages : p # new => Weaker(ps[p], pages[p]) /\ (pages[p] = NoPage => ps[p] = NoPage),
         \A p \in Pages : \A q \in Requests : p # new /\ from[q] = p => sender[q] = p,
         new \in Pages => /\ ps[new].timer = None /\ ps[new].kind # "none"
                          /\ \A q, r \in Requests : from[q] = new /\ from[r] = new => q = r,
         pages' = Kept(ps, curPage', from)
  PROVE  Owned' /\ OneChain' /\ pages' \in [Pages -> PageType]
<1> USE DEF IInv
<1>1. pages' \in [Pages -> PageType]
      /\ \A p \in Pages : pages'[p] = ps[p] \/ (pages'[p] = NoPage /\ \A q \in Requests : from[q] # p)
  BY KeptPages
<1>2. NoPage.kind = "none" /\ NoPage.timer = None
  BY DEF NoPage
<1>3. ASSUME NEW p \in Pages, pages'[p].kind = "none"
      PROVE  pages'[p] = NoPage /\ \A q \in Requests : from[q] # p
  BY <1>1, <1>2, <1>3 DEF Owned, Weaker
<1>4. ASSUME NEW p \in Pages, pages'[p].kind = "dash"
      PROVE  /\ \A q, r \in Requests : from[q] = p /\ from[r] = p => q = r
             /\ pages'[p].timer # None => pages'[p].painted /\ \A q \in Requests : from[q] # p
  <2>1. pages'[p] = ps[p]
    BY <1>1, <1>2, <1>4
  <2>2. CASE p = new
    BY <2>1, <2>2
  <2>3. CASE p # new
    BY <1>4, <2>1, <2>3 DEF OneChain, Weaker
  <2> QED BY <2>2, <2>3
<1> QED BY <1>1, <1>3, <1>4 DEF Owned, OneChain

\* Whoever sees a login page, or a dashboard that cannot be torn down, sees
\* no certificates and waits for none.
LEMMA LoginShown ==
  ASSUME IInv, NEW from \in Senders, \A q \in Requests : from[q] = sender[q] \/ from[q] = None,
         sender' = from, DisplayLogin(pages, from)
  PROVE  /\ Owned' /\ OneChain' /\ Chained' /\ HiddenAfterLogout' /\ ~Painted'
         /\ curPage' \in Pages \union {None} /\ pages' \in [Pages -> PageType] /\ visible' \in Shown
<1> USE DEF IInv
<1>0. /\ pages \in [Pages -> PageType] /\ visible \in Shown /\ curPage \in Pages \union {None}
      /\ None \notin Pages
  BY TableFields DEF TypeOK, PageType, Shown
<1>1. \A p \in Pages : \A q \in Requests : from[q] = p => sender[q] = p
  BY <1>0
<1>2. ASSUME NEW c \in {"hidden", "shown", "late"}
      PROVE  /\ [visible EXCEPT !.certs = c] \in Shown
             /\ [visible EXCEPT !.certs = c].certs = c
             /\ [visible EXCEPT !.certs = c].login = visible.login
  BY <1>0 DEF Shown
<1>3. CertsAfterTeardown(pages) \in {"hidden", "shown", "late"} \ {"shown"}
  BY <1>0 DEF CertsAfterTeardown, HiddenAfterLogout, OnDashboard, Shown
<1>4. CASE TeardownThrows(pages)
  <2> DEFINE ps == [pages EXCEPT ![curPage].timer = None]
  <2>1. /\ curPage \in Pages /\ pages[curPage].kind = "dash" /\ ~pages[curPage].painted
        /\ OnDashboard
    BY <1>0, <1>4 DEF TeardownThrows, OnDashboard
  <2>2. /\ pages' = Kept(ps, curPage, from) /\ curPage' = curPage
        /\ visible' = [visible EXCEPT !.certs = CertsAfterTeardown(pages)]
    BY <1>4 DEF DisplayLogin
  <2>3. /\ ps \in [Pages -> PageType] /\ ps[curPage].timer = None
        /\ \A p \in Pages : Weaker(ps[p], pages[p])
        /\ \A p \in Pages : p # curPage => ps[p] = pages[p]
    BY <1>0, <2>1, StopTimer
  <2>4. \A p \in Pages : pages[p] = NoPage => ps[p] = NoPage
    <3>1. \A p \in Pages : pages[p] = NoPage => p # curPage
      BY <2>1 DEF NoPage
    <3> HIDE DEF ps
    <3> QED BY <2>3, <3>1
  <2> HIDE DEF ps
  <2>5. Owned' /\ OneChain' /\ pages' \in [Pages -> PageType]
    BY <1>0, <1>1, <2>2, <2>3, <2>4, PagesKept
  <2>6. pages'[curPage] = ps[curPage]
    BY <2>1, <2>2, <2>3, KeptPages
  <2>7. pages'[curPage].kind = "dash" /\ ~pages'[curPage].painted /\ pages'[curPage].timer = None
    BY <2>1, <2>3, <2>6 DEF Weaker
  <2>8. OnDashboard' /\ ~Painted'
    BY <2>2, <2>7, <2>1, <1>0 DEF OnDashboard, Painted
  <2>9. Chained'
    BY <1>2, <1>3, <2>1, <2>2, <2>7 DEF Chained
  <2> QED BY <1>0, <1>2, <1>3, <2>1, <2>2, <2>5, <2>8, <2>9 DEF HiddenAfterLogout
<1>5. CASE ~TeardownThrows(pages)
  <2> DEFINE stopped == IF curPage = None THEN pages ELSE [pages EXCEPT ![curPage].timer = None]
  <2>1. PICK new \in {x \in Pages : pages[x] = NoPage} :
          /\ curPage' = new
          /\ pages' = Kept([stopped EXCEPT ![new].kind = "login"], new, from)
          /\ visible' = [certs |-> CertsAfterTeardown(pages), login |-> TRUE]
    BY <1>5 DEF DisplayLogin
  <2>2. /\ stopped \in [Pages -> PageType]
        /\ \A p \in Pages : Weaker(stopped[p], pages[p])
    <3>1. CASE curPage = None
      BY <1>0, <3>1 DEF Weaker
    <3>2. CASE curPage # None
      <4>1. curPage \in Pages /\ stopped = [pages EXCEPT ![curPage].timer = None]
        BY <1>0, <3>2
      <4> QED BY <1>0, <4>1, StopTimer
    <3> QED BY <3>1, <3>2
  <2> HIDE DEF stopped
  <2>3. \A p \in Pages : pages[p] = NoPage => stopped[p] = NoPage
    <3> SUFFICES ASSUME NEW p \in Pages, pages[p] = NoPage PROVE stopped[p] = NoPage
      OBVIOUS
    <3>1. stopped[p] \in PageType /\ Weaker(stopped[p], NoPage)
      BY <2>2
    <3>2. stopped[p] = [kind |-> stopped[p].kind, painted |-> stopped[p].painted, timer |-> stopped[p].timer]
      BY <3>1, PageFields
    <3> QED BY <3>1, <3>2 DEF Weaker, NoPage
  <2> DEFINE ps == [stopped EXCEPT ![new].kind = "login"]
  <2>4. /\ ps \in [Pages -> PageType] /\ ps[new].kind = "login" /\ ps[new].timer = None
        /\ \A p \in Pages : p # new => ps[p] = stopped[p]
    BY <2>2, <2>3, SetKind
  <2>5. \A q \in Requests : from[q] # new
    BY <1>1 DEF Owned, NoPage
  <2>a. pages' = Kept(ps, curPage', from) /\ new \in Pages /\ curPage' = new
    BY <2>1
  <2> HIDE DEF ps
  <2>b. \A p \in Pages : p # new => Weaker(ps[p], pages[p]) /\ (pages[p] = NoPage => ps[p] = NoPage)
    BY <2>2, <2>3, <2>4
  <2>6. Owned' /\ OneChain' /\ pages' \in [Pages -> PageType]
    BY <1>1, <2>4, <2>5, <2>a, <2>b, PagesKept
  <2>7. pages'[new] = ps[new]
    BY <2>4, <2>a, KeptPages
  <2>8. ~OnDashboard'
    BY <2>1, <2>4, <2>7 DEF OnDashboard
  <2>9. visible' \in Shown /\ visible'.certs # "shown"
    BY <1>3, <2>1 DEF Shown
  <2> QED BY <2>1, <2>6, <2>8, <2>9 DEF HiddenAfterLogout, Chained, Painted
<1> QED BY <1>4, <1>5

\* A dashboard that is put on display has one request under way.
LEMMA DashboardShown ==
  ASSUME IInv, NEW from \in Senders, \A q \in Requests : from[q] = sender[q] \/ from[q] = None,
         NEW ck, NEW q \in Requests, from[q] = None,
         NEW ps \in [Pages -> PageType], \A p \in Pages : Weaker(ps[p], pages[p]),
         \A p \in Pages : pages[p] = NoPage => ps[p] = NoPage,
         DisplayDashboard(q, ck, ps, from)
  PROVE  /\ Owned' /\ OneChain' /\ Chained' /\ HiddenAfterLogout' /\ ~Painted'
         /\ curPage' \in Pages \union {None} /\ pages' \in [Pages -> PageType]
         /\ visible' \in Shown /\ sender' \in Senders
         /\ \A r \in Requests : sender'[r] = from[r] \/ r = q
<1> USE DEF IInv
<1>1. PICK new \in {x \in Pages : ps[x] = NoPage} :
        /\ curPage' = new
        /\ sender' = [from EXCEPT ![q] = new]
        /\ pages' = Kept([ps EXCEPT ![new].kind = "dash"], new, sender')
        /\ visible' = [certs |-> "shown", login |-> FALSE]
  BY DEF DisplayDashboard
<1>2. None \notin Pages /\ sender \in Senders
  BY TableFields DEF TypeOK, Senders
<1> DEFINE shown == [ps EXCEPT ![new].kind = "dash"]
<1>3. /\ shown \in [Pages -> PageType] /\ shown[new].kind = "dash" /\ shown[new].timer = None
      /\ ~shown[new].painted
      /\ \A p \in Pages : p # new => shown[p] = ps[p]
  BY SetKind
<1>4. \A r \in Requests : from[r] # new
  <2>1. pages[new].kind = "none"
    BY DEF Weaker, NoPage
  <2> QED BY <1>2, <2>1 DEF Owned
<1>5. /\ sender' \in Senders /\ sender'[q] = new
      /\ \A r \in Requests : r # q => sender'[r] = from[r]
  BY <1>1 DEF Senders
<1>6. /\ \A p \in Pages : \A r \in Requests : p # new /\ sender'[r] = p => sender[r] = p
      /\ \A r, s \in Requests : sender'[r] = new /\ sender'[s] = new => r = s
  BY <1>2, <1>4, <1>5
<1>7. \A p \in Pages : p # new => Weaker(shown[p], pages[p]) /\ (pages[p] = NoPage => shown[p] = NoPage)
  BY <1>3
<1> HIDE DEF shown
<1>8. pages' = Kept(shown, curPage', sender')
  BY <1>1 DEF shown
<1>a. Owned' /\ OneChain' /\ pages' \in [Pages -> PageType]
  <2> DEFINE now == sender'
  <2>1. now \in Senders /\ sender' = now
    BY <1>5
  <2>2. new \in Pages \union {None}
    BY <1>1
  <2>3. /\ \A p \in Pages : \A r \in Requests : p # new /\ now[r] = p => sender[r] = p
        /\ \A r, s \in Requests : now[r] = new /\ now[s] = new => r = s
        /\ pages' = Kept(shown, curPage', now)
    BY <1>6, <1>8
  <2> HIDE DEF now
  <2> QED BY <1>3, <1>7, <2>1, <2>2, <2>3, PagesKept
<1>9. pages'[new] = shown[new]
  BY <1>1, <1>3, <1>5, <1>8, KeptPages
<1>10. OnDashboard' /\ ~Painted'
  BY <1>1, <1>2, <1>3, <1>9 DEF OnDashboard, Painted
<1>11. Chained' /\ HiddenAfterLogout'
  BY <1>1, <1>5, <1>10 DEF Chained, HiddenAfterLogout
<1>12. visible' \in Shown
  BY <1>1 DEF Shown
<1> QED BY <1>1, <1>5, <1>a, <1>10, <1>11, <1>12

CookieType == [id : SessionIDs, expiry : Expiry \union {None}] \union {None}

LEMMA TabTypes ==
  ASSUME IInv
  PROVE  /\ Free \in Request /\ Free.stage = "free" /\ Free.age = 0 /\ Free.expiry = None
         /\ cookie \in CookieType /\ loading \in BOOLEAN /\ curPage \in Pages \union {None}
         /\ pages \in [Pages -> PageType] /\ sender \in Senders /\ visible \in Shown
         /\ req \in [Requests -> Request]
         /\ \A q \in Requests : req[q].stage = "free" => req[q] = Free /\ sender[q] = None
         /\ None \notin Pages /\ None \notin Int /\ None \notin SessionIDs
BY TableFields DEF IInv, TypeOK, CookieType, PageType, Senders, Shown, Named,
   Free, Request, Stages, Expiry

\* Request q of the tab is answered, and any more of it is nobody's.
LEMMA AnswerTaken ==
  ASSUME IInv, NEW q \in Requests, Received(q)
  PROVE  /\ UNCHANGED <<refresh, table, idle>>
         /\ req' \in [Requests -> Request] /\ req'[q] = Free
         /\ \A r \in Requests : r # q => req'[r] = req[r]
         /\ \A r \in Requests : TabRequest(r)
         /\ sender' \in Senders /\ sender'[q] = None
            /\ (\A r \in Requests : r # q => sender'[r] = sender[r])
              => \A r \in Requests : req'[r].stage = "free" => req'[r] = Free /\ sender'[r] = None
<1>1. UNCHANGED <<refresh, table, idle>> /\ req' = [req EXCEPT ![q] = Free]
  BY DEF Received
<1>2. /\ req' \in [Requests -> Request] /\ req'[q] = Free
      /\ \A r \in Requests : r # q => req'[r] = req[r]
  BY <1>1, TabTypes
<1> QED BY <1>1, <1>2, TabTypes DEF TabRequest

\* And the requests that are sent.
LEMMA RequestSent ==
  ASSUME IInv, NEW q \in Requests, NEW stage \in {"login", "badLogin", "lookup"},
         NEW id \in SessionIDs \union {None}, Send(q, stage, id),
         \A r \in Requests : r # q => sender'[r] = sender[r]
  PROVE  /\ UNCHANGED <<refresh, table, idle>> /\ sender[q] = None
         /\ req' \in [Requests -> Request]
         /\ req'[q].stage = stage /\ req'[q].id = id /\ req'[q].age = 0
         /\ \A r \in Requests : r # q => req'[r] = req[r]
         /\ \A r \in Requests : TabRequest(r)
         /\ \A r \in Requests : req'[r].stage = "free" => req'[r] = Free /\ sender'[r] = None
<1>1. /\ UNCHANGED <<refresh, table, idle>> /\ req[q].stage = "free"
      /\ req' = [req EXCEPT ![q].stage = stage, ![q].id = id]
  BY DEF Send
<1>2. stage \in Stages
  BY DEF Stages
<1>3. Moved(q, stage, id, req[q].expiry)
  BY <1>1, <1>2, Moves DEF IInv
<1>4. req[q] = Free /\ sender[q] = None /\ Free.age = 0
  BY <1>1, TabTypes
<1> QED BY <1>1, <1>3, <1>4, TabTypes DEF Moved, TabRequest

LEMMA ReloadInv == ASSUME IInv, Reload PROVE IInv' /\ \A r \in Requests : TabRequest(r)
<1>1. /\ UNCHANGED <<refresh, table, idle, req, cookie>>
      /\ loading' = TRUE /\ curPage' = None /\ visible' = Blank
      /\ pages' = [p \in Pages |-> NoPage] /\ sender' = [q \in Requests |-> None]
  BY DEF Reload, serverVars
<1>2. /\ pages' \in [Pages -> PageType] /\ sender' \in Senders /\ visible' \in Shown
      /\ \A q \in Requests : sender'[q] = None
      /\ \A p \in Pages : pages'[p] = NoPage
  BY <1>1 DEF PageType, NoPage, Senders, Shown, Blank
<1>3. ~OnDashboard' /\ ~Painted' /\ visible'.certs # "shown"
  BY <1>1 DEF OnDashboard, Painted, Blank
<1>4. Owned' /\ OneChain' /\ Chained' /\ HiddenAfterLogout'
  BY <1>2, <1>3, TabTypes DEF Owned, OneChain, Chained, HiddenAfterLogout, NoPage
<1>5. req' \in [Requests -> Request] /\ \A q \in Requests : TabRequest(q)
  BY <1>1, TabTypes DEF TabRequest
<1>6. \A q \in Requests : req'[q].stage = "free" => req'[q] = Free /\ sender'[q] = None
  BY <1>1, <1>2, TabTypes
<1>7. /\ cookie' \in [id : SessionIDs, expiry : Expiry \union {None}] \union {None}
      /\ loading' \in BOOLEAN /\ curPage' \in Pages \union {None}
  BY <1>1, TabTypes DEF CookieType
<1> QED BY <1>1, <1>2, <1>3, <1>4, <1>5, <1>6, <1>7, TabStep

\* The request of a dashboard that is put on display.
LEMMA LookupSent ==
  ASSUME IInv, NEW q \in Requests, NEW ck \in CookieType, NEW ps, NEW from \in Senders,
         DisplayDashboard(q, ck, ps, from),
         \A r \in Requests : r # q => sender'[r] = sender[r]
  PROVE  /\ req' \in [Requests -> Request]
         /\ \A r \in Requests : TabRequest(r)
         /\ \A r \in Requests : req'[r].stage = "free" => req'[r] = Free /\ sender'[r] = None
<1> DEFINE i == IF ck = None THEN None ELSE ck.id
           sent == [Free EXCEPT !.stage = "lookup", !.id = i]
<1>1. req' = [req EXCEPT ![q] = sent]
  BY DEF DisplayDashboard
<1>2. i \in SessionIDs \union {None}
  BY DEF CookieType
<1> HIDE DEF i
<1>3. sent = [stage |-> "lookup", id |-> i, expiry |-> None, age |-> 0]
  <2> DEFINE R == [stage |-> "lookup", id |-> None, expiry |-> None, age |-> 0]
  <2>1. [Free EXCEPT !.stage = "lookup"] = R
    BY DEF Free
  <2>2. [R EXCEPT !.id = i] = [stage |-> "lookup", id |-> i, expiry |-> None, age |-> 0]
    OBVIOUS
  <2> QED BY <2>1, <2>2
<1>4. sent \in Request /\ sent.stage = "lookup"
  <2>1. "lookup" \in Stages /\ None \in Expiry \union {None} /\ 0 \in 0 .. MaxDelay
    BY TableFields DEF IInv, Stages
  <2> HIDE DEF sent
  <2> QED BY <1>2, <1>3, <2>1 DEF Request
<1> HIDE DEF sent
<1>5. /\ req' \in [Requests -> Request] /\ req'[q].stage = "lookup"
      /\ \A r \in Requests : r # q => req'[r] = req[r]
  BY <1>1, <1>4, TabTypes
<1> QED BY <1>5, TabTypes DEF TabRequest

LEMMA LoadedInv == ASSUME IInv, Loaded PROVE IInv' /\ \A r \in Requests : TabRequest(r)
<1>0. UNCHANGED <<refresh, table, idle, cookie>> /\ loading' = FALSE
  BY DEF Loaded
<1>1. CASE cookie = None
  <2>1. DisplayLogin(pages, sender) /\ req' = req /\ sender' = sender
    BY <1>1 DEF Loaded
  <2>2. /\ Owned' /\ OneChain' /\ Chained' /\ HiddenAfterLogout' /\ ~Painted'
        /\ curPage' \in Pages \union {None} /\ pages' \in [Pages -> PageType] /\ visible' \in Shown
    BY <2>1, LoginShown, TabTypes
  <2>3. req' \in [Requests -> Request] /\ \A q \in Requests : TabRequest(q)
    BY <2>1, TabTypes DEF TabRequest
  <2> QED BY <1>0, <2>1, <2>2, <2>3, TabTypes, TabStep DEF CookieType
<1>2. CASE cookie # None
  <2>1. PICK q \in Requests : req[q] = Free /\ DisplayDashboard(q, cookie, pages, sender)
    BY <1>2 DEF Loaded
  <2>2. sender[q] = None /\ sender \in Senders /\ pages \in [Pages -> PageType] /\ cookie \in CookieType
    BY <2>1, TabTypes
  <2>3. \A p \in Pages : Weaker(pages[p], pages[p])
    BY DEF Weaker
  <2>4. /\ Owned' /\ OneChain' /\ Chained' /\ HiddenAfterLogout' /\ ~Painted'
        /\ curPage' \in Pages \union {None} /\ pages' \in [Pages -> PageType]
        /\ visible' \in Shown /\ sender' \in Senders
        /\ \A r \in Requests : sender'[r] = sender[r] \/ r = q
    BY <2>1, <2>2, <2>3, DashboardShown
  <2>5. /\ req' \in [Requests -> Request] /\ \A r \in Requests : TabRequest(r)
        /\ \A r \in Requests : req'[r].stage = "free" => req'[r] = Free /\ sender'[r] = None
    BY <2>1, <2>2, <2>4, LookupSent
  <2> QED BY <1>0, <2>2, <2>4, <2>5, TabStep DEF CookieType
<1> QED BY <1>1, <1>2

LEMMA LogoutInv == ASSUME IInv, Logout PROVE IInv' /\ \A r \in Requests : TabRequest(r)
<1>1. /\ UNCHANGED <<refresh, table, idle, req, loading, sender>> /\ cookie' = None
      /\ DisplayLogin(pages, sender)
  BY DEF Logout, serverVars
<1>2. /\ Owned' /\ OneChain' /\ Chained' /\ HiddenAfterLogout' /\ ~Painted'
      /\ curPage' \in Pages \union {None} /\ pages' \in [Pages -> PageType] /\ visible' \in Shown
  BY <1>1, LoginShown, TabTypes
<1>3. req' \in [Requests -> Request] /\ \A q \in Requests : TabRequest(q)
  BY <1>1, TabTypes DEF TabRequest
<1> QED BY <1>1, <1>2, <1>3, TabTypes, TabStep

LEMMA SubmitInv == ASSUME IInv, NEW q \in Requests, Submit(q) PROVE IInv' /\ \A r \in Requests : TabRequest(r)
<1>1. /\ UNCHANGED <<cookie, loading, curPage, pages, visible>>
      /\ curPage # None /\ pages[curPage].kind = "login"
      /\ sender' = [sender EXCEPT ![q] = curPage]
      /\ \E stage \in {"login", "badLogin", "lookup"} : Send(q, stage, None)
  BY DEF Submit
<1>2. /\ sender' \in Senders /\ sender'[q] = curPage
      /\ \A r \in Requests : r # q => sender'[r] = sender[r]
  BY <1>1, TabTypes DEF Senders
<1>3. /\ UNCHANGED <<refresh, table, idle>> /\ sender[q] = None
      /\ req' \in [Requests -> Request] /\ \A r \in Requests : TabRequest(r)
      /\ \A r \in Requests : req'[r].stage = "free" => req'[r] = Free /\ sender'[r] = None
  BY <1>1, <1>2, RequestSent
<1>4. ~OnDashboard /\ ~OnDashboard' /\ ~Painted'
  BY <1>1 DEF OnDashboard, Painted
<1>5. Owned' /\ OneChain' /\ Chained' /\ HiddenAfterLogout'
  BY <1>1, <1>2, <1>4 DEF IInv, Owned, OneChain, Chained, HiddenAfterLogout
<1> QED BY <1>1, <1>2, <1>3, <1>4, <1>5, TabTypes, TabStep DEF CookieType

LEMMA PollInv == ASSUME IInv, NEW p \in Pages, NEW q \in Requests, Poll(p, q) PROVE IInv' /\ \A r \in Requests : TabRequest(r)
<1>0. CookieID \in SessionIDs \union {None}
  BY TabTypes DEF CookieID, CookieType
<1>1. /\ UNCHANGED <<cookie, loading, curPage, visible>> /\ pages[p].timer = 0
      /\ pages' = [pages EXCEPT ![p].timer = None] /\ sender' = [sender EXCEPT ![q] = p]
      /\ Send(q, "lookup", CookieID)
  BY DEF Poll
<1>2. /\ sender' \in Senders /\ sender'[q] = p
      /\ \A r \in Requests : r # q => sender'[r] = sender[r]
  BY <1>1, TabTypes DEF Senders
<1>3. /\ UNCHANGED <<refresh, table, idle>> /\ sender[q] = None
      /\ req' \in [Requests -> Request] /\ \A r \in Requests : TabRequest(r)
      /\ req'[q].stage = "lookup" /\ req'[q].id = CookieID /\ req'[q].age = 0
      /\ \A r \in Requests : r # q => req'[r] = req[r]
      /\ \A r \in Requests : req'[r].stage = "free" => req'[r] = Free /\ sender'[r] = None
  BY <1>0, <1>1, <1>2, RequestSent
<1>4. /\ pages' \in [Pages -> PageType] /\ pages'[p].timer = None
      /\ \A x \in Pages : Weaker(pages'[x], pages[x])
      /\ \A x \in Pages : x # p => pages'[x] = pages[x]
  BY <1>1, StopTimer, TabTypes
<1>5. pages[p].kind # "none" /\ pages[p].timer # None
  <2>1. None # 0
    BY TabTypes
  <2>2. pages[p].timer # None
    BY <1>1, <2>1
  <2> QED BY <2>2 DEF IInv, Owned, NoPage
<1>6. Owned'
  BY <1>2, <1>4, <1>5 DEF IInv, Owned, Weaker
<1>7. OneChain'
  <2> SUFFICES ASSUME NEW x \in Pages, pages'[x].kind = "dash"
               PROVE  /\ \A r, s \in Requests : sender'[r] = x /\ sender'[s] = x => r = s
                      /\ pages'[x].timer # None => pages'[x].painted /\ \A r \in Requests : sender'[r] # x
    BY DEF OneChain
  <2>1. /\ \A r, s \in Requests : sender[r] = x /\ sender[s] = x => r = s
        /\ pages[x].timer # None => pages[x].painted /\ \A r \in Requests : sender[r] # x
    BY <1>4 DEF IInv, OneChain, Weaker
  <2>2. CASE x = p
    BY <1>2, <1>4, <1>5, <2>1, <2>2
  <2>3. CASE x # p
    BY <1>2, <1>4, <2>1, <2>3
  <2> QED BY <2>2, <2>3
<1>8. (OnDashboard' <=> OnDashboard) /\ (OnDashboard => curPage \in Pages) /\ (Painted' <=> Painted)
  BY <1>1, <1>4, TabTypes DEF OnDashboard, Painted, Weaker
<1>9. HiddenAfterLogout'
  BY <1>1, <1>8 DEF IInv, HiddenAfterLogout
<1>10. Chained'
  <2>1. CASE curPage = p
    BY <1>1, <1>2, <1>8, <2>1 DEF IInv, Chained
  <2>2. CASE curPage # p
    BY <1>1, <1>2, <1>3, <1>4, <1>8, <2>2, TabTypes DEF IInv, Chained
  <2> QED BY <2>1, <2>2
<1>11. ASSUME refresh, Painted' PROVE Polled'
  <2>0. Painted /\ OnDashboard /\ curPage \in Pages /\ pages[curPage].kind = "dash"
    BY <1>8, <1>11 DEF Painted, OnDashboard
  <2>1. Polled
    BY <1>11, <2>0 DEF IInv, Fresh
  <2>2. CASE curPage = p
    <3>1. \A r \in Requests : sender'[r] = curPage => r = q
      BY <1>2, <1>7, <2>2, <2>0, <1>4, <1>1 DEF OneChain, Weaker
    <3>2. CookieID # None => Lasts(CookieID, Timeout - MaxDelay - (PollPeriod - 0))
      BY <1>1, <1>5, <2>1, <2>2 DEF Polled, CookieID
    <3>3. Timeout - MaxDelay - (PollPeriod - 0) = Timeout - MaxDelay - PollPeriod - 0
      BY TableFields DEF IInv
    <3>4. CookieID # None => Lasts(CookieID, Timeout - MaxDelay - PollPeriod - 0)
      BY <3>2, <3>3
    <3> QED BY <1>1, <1>3, <1>4, <2>2, <3>1, <3>4 DEF Polled, Lasts
  <2>3. CASE curPage # p
    BY <1>1, <1>2, <1>3, <1>4, <2>0, <2>1, <2>3 DEF Polled, Lasts
  <2> QED BY <2>2, <2>3
<1> QED BY <1>1, <1>2, <1>3, <1>4, <1>6, <1>7, <1>9, <1>10, <1>11, TabTypes, TabStep DEF CookieType

LEMMA GoneStaysGone ==
  ASSUME NEW s \in PageType, Weaker(s, NoPage)
  PROVE  s = NoPage
<1>1. s = [kind |-> s.kind, painted |-> s.painted, timer |-> s.timer]
  BY PageFields
<1> QED BY <1>1 DEF Weaker, NoPage

LEMMA CertsInv == ASSUME IInv, NEW q \in Requests, Certs(q) PROVE IInv' /\ \A r \in Requests : TabRequest(r)
<1> DEFINE s == sender[q]
<1>1. /\ req[q].stage = "ok" /\ s # None /\ pages[s].kind = "dash" /\ Received(q)
      /\ cookie' = CookieOf(q) /\ sender' = [sender EXCEPT ![q] = None]
      /\ pages' = [pages EXCEPT ![s].painted = TRUE, ![s].timer = PollPeriod]
      /\ visible' \in {visible, [visible EXCEPT !.certs = IF s = curPage THEN "shown" ELSE "late"]}
      /\ UNCHANGED <<loading, curPage>>
  BY DEF Certs
<1>2. s \in Pages
  BY <1>1, TabTypes DEF Senders
<1>3. /\ sender' \in Senders /\ sender'[q] = None
      /\ \A r \in Requests : r # q => sender'[r] = sender[r]
  BY <1>1, TabTypes DEF Senders
<1>4. /\ UNCHANGED <<refresh, table, idle>>
      /\ req' \in [Requests -> Request] /\ \A r \in Requests : TabRequest(r)
      /\ \A r \in Requests : r # q => req'[r] = req[r]
      /\ \A r \in Requests : req'[r].stage = "free" => req'[r] = Free /\ sender'[r] = None
  BY <1>1, <1>3, AnswerTaken
<1>5. /\ req[q].id \in SessionIDs /\ req[q].age \in Nat /\ req[q].age <= MaxDelay
      /\ req[q].expiry \in Expiry \union {None}
  BY <1>1, RequestFields DEF IInv, Named
<1>6. /\ cookie' \in CookieType
      /\ cookie' # None => cookie'.id = req[q].id
  BY <1>1, <1>5 DEF CookieOf, CookieType
<1>7. /\ pages' \in [Pages -> PageType]
      /\ pages'[s].kind = "dash" /\ pages'[s].painted /\ pages'[s].timer = PollPeriod
      /\ \A p \in Pages : p # s => pages'[p] = pages[p]
  <2>1. PICK yes : yes = TRUE /\ pages' = [pages EXCEPT ![s].painted = yes, ![s].timer = PollPeriod]
    BY <1>1, Zenon
  <2> DEFINE R == [kind |-> "dash", painted |-> yes, timer |-> pages[s].timer]
             T == [kind |-> "dash", painted |-> yes, timer |-> PollPeriod]
  <2>2. pages[s] \in PageType /\ pages[s].kind = "dash" /\ yes \in BOOLEAN
    BY <1>1, <1>2, <2>1, TabTypes
  <2>3. pages[s] = [kind |-> "dash", painted |-> pages[s].painted, timer |-> pages[s].timer]
    BY <2>2, PageFields
  <2>4. [pages[s] EXCEPT !.painted = yes] = R
    BY <2>3
  <2>5. [R EXCEPT !.timer = PollPeriod] = T
    OBVIOUS
  <2>6. [pages[s] EXCEPT !.painted = yes, !.timer = PollPeriod] = T
    BY <2>4, <2>5
  <2>7. pages' = [pages EXCEPT ![s] = [pages[s] EXCEPT !.painted = yes, !.timer = PollPeriod]]
    BY <1>2, <2>1, TabTypes
  <2>8. pages' = [pages EXCEPT ![s] = T]
    BY <2>6, <2>7
  <2>9. T \in PageType /\ T.kind = "dash" /\ T.painted = yes /\ T.timer = PollPeriod
    BY <2>2, TableFields DEF IInv, PageType
  <2> HIDE DEF R, T
  <2>10. /\ pages' \in [Pages -> PageType] /\ pages'[s] = T
         /\ \A p \in Pages : p # s => pages'[p] = pages[p]
    BY <1>2, <2>8, <2>9, TabTypes
  <2>11. pages'[s].painted
    BY <2>1, <2>9, <2>10, Zenon
  <2> QED BY <2>9, <2>10, <2>11
<1>8. /\ visible' \in Shown /\ visible'.login = visible.login
      /\ s # curPage => visible'.certs = visible.certs \/ visible'.certs = "late"
  <2>1. ASSUME NEW c \in {"hidden", "shown", "late"}
        PROVE  /\ [visible EXCEPT !.certs = c] \in Shown
               /\ [visible EXCEPT !.certs = c].certs = c
               /\ [visible EXCEPT !.certs = c].login = visible.login
    BY TabTypes DEF Shown
  <2> QED BY <1>1, <2>1, TabTypes
<1> HIDE DEF s
<1>9. (OnDashboard' <=> OnDashboard) /\ (s = curPage => OnDashboard)
      /\ (OnDashboard => curPage \in Pages) /\ curPage' = curPage
  <2>1. curPage \in Pages \union {None} /\ None \notin Pages
    BY TabTypes
  <2> QED BY <1>1, <1>2, <1>7, <2>1 DEF OnDashboard
<1>10. Owned'
  BY <1>2, <1>3, <1>7, TabTypes DEF IInv, Owned
<1>11. \A r \in Requests : sender'[r] # s
  <2>1. \A r \in Requests : sender[r] = s => r = q
    BY <1>1, <1>2 DEF IInv, OneChain, s
  <2> QED BY <1>1, <1>2, <1>3, <2>1
<1>12. OneChain'
  <2> SUFFICES ASSUME NEW p \in Pages, pages'[p].kind = "dash"
               PROVE  /\ \A r, t \in Requests : sender'[r] = p /\ sender'[t] = p => r = t
                      /\ pages'[p].timer # None => pages'[p].painted /\ \A r \in Requests : sender'[r] # p
    BY DEF OneChain
  <2>1. CASE p = s
    BY <1>7, <1>11, <2>1
  <2>2. CASE p # s
    <3>1. pages'[p] = pages[p]
      BY <1>7, <2>2
    <3>2. \A r \in Requests : sender'[r] = p => sender[r] = p
      BY <1>3, TabTypes
    <3> QED BY <3>1, <3>2 DEF IInv, OneChain
  <2> QED BY <2>1, <2>2
<1>13. Chained'
  <2>1. CASE curPage = s
    BY <1>7, <1>8, <1>9, <2>1, TableFields DEF IInv, Chained
  <2>2. CASE curPage # s
    <3> SUFFICES ASSUME OnDashboard
                 PROVE  /\ ~visible'.login
                        /\ pages'[curPage].timer = None /\ (\A r \in Requests : sender'[r] # curPage) =>
                             ~pages'[curPage].painted /\ visible'.certs # "shown"
      BY <1>9 DEF Chained
    <3>1. pages'[curPage] = pages[curPage]
      BY <1>7, <1>9, <2>2
    <3>2. (\A r \in Requests : sender'[r] # curPage) => \A r \in Requests : sender[r] # curPage
      BY <1>3, <2>2 DEF s
    <3> QED BY <1>8, <2>2, <3>1, <3>2 DEF IInv, Chained
  <2> QED BY <2>1, <2>2
<1>14. HiddenAfterLogout'
  BY <1>8, <1>9 DEF IInv, HiddenAfterLogout
<1>15. ASSUME refresh, Painted' PROVE Polled'
  <2>0. curPage \in Pages /\ table' = table
    BY <1>4, <1>9, <1>15 DEF Painted
  <2>1. Lasts(req[q].id, Timeout - req[q].age)
    BY <1>1, <1>15 DEF IInv, Fresh, Prolonged
  <2>2. pages'[curPage].timer # None => pages'[curPage].timer \in 0 .. PollPeriod
    BY <1>7, <2>0 DEF PageType
  <2>3. ASSUME pages'[curPage].timer # None
        PROVE  Timeout - MaxDelay - (PollPeriod - pages'[curPage].timer) <= Timeout - req[q].age
    <3> DEFINE t == pages'[curPage].timer
    <3>1. t \in 0 .. PollPeriod
      BY <2>2, <2>3
    <3> HIDE DEF t
    <3>2. Timeout - MaxDelay - (PollPeriod - t) <= Timeout - req[q].age
      BY <1>5, <3>1, TableFields DEF IInv
    <3> QED BY <3>2 DEF t
  <2>4. pages'[curPage].timer # None =>
          \/ table[req[q].id] = None
          \/ table[req[q].id] >= Timeout - MaxDelay - (PollPeriod - pages'[curPage].timer)
    <3> SUFFICES ASSUME pages'[curPage].timer # None, table[req[q].id] # None
                 PROVE  table[req[q].id] >= Timeout - MaxDelay - (PollPeriod - pages'[curPage].timer)
      OBVIOUS
    <3> DEFINE n == Timeout - MaxDelay - (PollPeriod - pages'[curPage].timer)
               m == table[req[q].id]
               k == Timeout - req[q].age
    <3>1. m \in Nat /\ n \in Int /\ k \in Int
      BY <1>5, <2>2, TableFields DEF IInv
    <3>2. m >= k /\ n <= k
      BY <2>1, <2>3 DEF Lasts
    <3> HIDE DEF n, m, k
    <3>3. m >= n
      BY <3>1, <3>2
    <3> QED BY <3>3 DEF n, m
  <2>5. pages'[curPage].timer # None /\ cookie' # None =>
          \/ table'[cookie'.id] = None
          \/ table'[cookie'.id] >= Timeout - MaxDelay - (PollPeriod - pages'[curPage].timer)
    BY <1>6, <2>0, <2>4
  <2>6. ASSUME NEW r \in Requests, sender'[r] = curPage
        PROVE  /\ req'[r].stage = "lookup" /\ req'[r].id # None =>
                    Lasts(req[r].id, Timeout - MaxDelay - PollPeriod - req[r].age)'
               /\ req'[r].stage = "decide" =>
                    req'[r].expiry >= Timeout - MaxDelay - PollPeriod - req'[r].age
    <3>1. curPage # s /\ r # q
      BY <1>3, <1>11, <2>0, <2>6, TabTypes
    <3>2. req'[r] = req[r] /\ sender[r] = curPage /\ Painted
      BY <1>3, <1>4, <1>7, <1>9, <1>15, <2>0, <2>6, <3>1 DEF Painted
    <3> QED BY <1>15, <2>0, <3>2 DEF IInv, Fresh, Polled, Lasts
  <2> QED BY <1>9, <2>5, <2>6 DEF Polled, Lasts
<1> QED BY <1>1, <1>3, <1>4, <1>6, <1>7, <1>8, <1>9, <1>10, <1>12, <1>13, <1>14, <1>15, TabTypes, TabStep DEF CookieType

LEMMA FailedInv == ASSUME IInv, NEW q \in Requests, Failed(q) PROVE IInv' /\ \A r \in Requests : TabRequest(r)
<1> DEFINE from == [sender EXCEPT ![q] = None]
<1>1. /\ Received(q) /\ sender' = from /\ loading' = loading
      /\ cookie' = None \/ cookie' = cookie
      /\ DisplayLogin(pages, sender')
  BY DEF Failed
<1>2. DisplayLogin(pages, from)
  BY <1>1
<1>3. /\ from \in Senders /\ from[q] = None
      /\ \A r \in Requests : r # q => from[r] = sender[r]
  BY TabTypes DEF Senders
<1> HIDE DEF from
<1>4. /\ UNCHANGED <<refresh, table, idle>>
      /\ req' \in [Requests -> Request] /\ \A r \in Requests : TabRequest(r)
      /\ \A r \in Requests : req'[r].stage = "free" => req'[r] = Free /\ sender'[r] = None
  BY <1>1, <1>3, AnswerTaken
<1>5. /\ Owned' /\ OneChain' /\ Chained' /\ HiddenAfterLogout' /\ ~Painted'
      /\ curPage' \in Pages \union {None} /\ pages' \in [Pages -> PageType] /\ visible' \in Shown
  BY <1>1, <1>2, <1>3, LoginShown
<1> QED BY <1>1, <1>3, <1>4, <1>5, TabTypes, TabStep DEF CookieType

LEMMA LoggedInInv == ASSUME IInv, NEW q \in Requests, LoggedIn(q) PROVE IInv' /\ \A r \in Requests : TabRequest(r)
<1> DEFINE from == [sender EXCEPT ![q] = None]
           ps == IF curPage # None THEN [pages EXCEPT ![curPage].timer = None] ELSE pages
<1>1. /\ req[q].stage = "ok" /\ cookie' = CookieOf(q)
      /\ UNCHANGED <<refresh, table, idle, loading>>
      /\ IF TeardownThrows(pages)
         THEN DisplayLogin(pages, from) /\ req' = [req EXCEPT ![q] = Free] /\ sender' = from
         ELSE DisplayDashboard(q, cookie', ps, from)
  BY DEF LoggedIn
<1>2. /\ from \in Senders /\ from[q] = None
      /\ \A r \in Requests : r # q => from[r] = sender[r]
  BY TabTypes DEF Senders
<1>3. CookieOf(q) \in CookieType
  <2>1. req[q].id \in SessionIDs /\ req[q].expiry \in Expiry \union {None}
    BY <1>1, RequestFields DEF IInv, Named
  <2> QED BY <2>1 DEF CookieOf, CookieType
<1> HIDE DEF from
<1>4. CASE TeardownThrows(pages)
  <2>1. DisplayLogin(pages, from) /\ req' = [req EXCEPT ![q] = Free] /\ sender' = from
    BY <1>1, <1>4
  <2>2. Received(q)
    BY <1>1, <2>1 DEF Received, Answers
  <2>3. /\ req' \in [Requests -> Request] /\ \A r \in Requests : TabRequest(r)
        /\ \A r \in Requests : req'[r].stage = "free" => req'[r] = Free /\ sender'[r] = None
    BY <1>2, <2>1, <2>2, AnswerTaken
  <2>4. /\ Owned' /\ OneChain' /\ Chained' /\ HiddenAfterLogout' /\ ~Painted'
        /\ curPage' \in Pages \union {None} /\ pages' \in [Pages -> PageType] /\ visible' \in Shown
    BY <1>2, <2>1, LoginShown
  <2> QED BY <1>1, <1>2, <1>3, <2>1, <2>3, <2>4, TabTypes, TabStep DEF CookieType
<1>5. CASE ~TeardownThrows(pages)
  <2>1. DisplayDashboard(q, CookieOf(q), ps, from)
    BY <1>1, <1>5
  <2>2. ps \in [Pages -> PageType] /\ \A p \in Pages : Weaker(ps[p], pages[p])
    <3>1. CASE curPage = None
      BY <3>1, TabTypes DEF Weaker
    <3>2. CASE curPage # None
      <4>1. curPage \in Pages /\ ps = [pages EXCEPT ![curPage].timer = None]
        BY <3>2, TabTypes
      <4> QED BY <4>1, StopTimer, TabTypes
    <3> QED BY <3>1, <3>2
  <2> HIDE DEF ps
  <2>3. \A p \in Pages : pages[p] = NoPage => ps[p] = NoPage
    BY <2>2, GoneStaysGone
  <2>4. \A r \in Requests : from[r] = sender[r] \/ from[r] = None
    BY <1>2
  <2>5. /\ Owned' /\ OneChain' /\ Chained' /\ HiddenAfterLogout' /\ ~Painted'
        /\ curPage' \in Pages \union {None} /\ pages' \in [Pages -> PageType]
        /\ visible' \in Shown /\ sender' \in Senders
        /\ \A r \in Requests : sender'[r] = from[r] \/ r = q
    BY <1>2, <2>1, <2>2, <2>3, <2>4, DashboardShown
  <2>6. \A r \in Requests : r # q => sender'[r] = sender[r]
    BY <1>2, <2>5
  <2>7. /\ req' \in [Requests -> Request] /\ \A r \in Requests : TabRequest(r)
        /\ \A r \in Requests : req'[r].stage = "free" => req'[r] = Free /\ sender'[r] = None
    BY <1>2, <1>3, <2>1, <2>6, LookupSent
  <2> QED BY <1>1, <1>3, <2>5, <2>7, TabTypes, TabStep DEF CookieType
<1> QED BY <1>4, <1>5

LEMMA AbandonedInv == ASSUME IInv, NEW q \in Requests, Abandoned(q) PROVE IInv' /\ \A r \in Requests : TabRequest(r)
<1>1. /\ sender[q] = None /\ Received(q)
      /\ UNCHANGED <<cookie, loading, curPage, pages, sender, visible>>
  BY DEF Abandoned, tab
<1>2. /\ UNCHANGED <<refresh, table, idle>>
      /\ req' \in [Requests -> Request] /\ \A r \in Requests : TabRequest(r)
      /\ \A r \in Requests : r # q => req'[r] = req[r]
      /\ \A r \in Requests : req'[r].stage = "free" => req'[r] = Free /\ sender'[r] = None
  BY <1>1, AnswerTaken, TabTypes
<1>3. Owned' /\ OneChain' /\ Chained' /\ HiddenAfterLogout'
  BY <1>1 DEF IInv, Owned, OneChain, Chained, HiddenAfterLogout, OnDashboard
<1>4. ASSUME refresh, Painted' PROVE Polled'
  <2>1. Painted /\ OnDashboard
    BY <1>1, <1>4 DEF Painted, OnDashboard
  <2>2. Polled /\ curPage # None
    BY <1>4, <2>1 DEF IInv, Fresh, OnDashboard
  <2> QED BY <1>1, <1>2, <2>2 DEF Polled, Lasts
<1> QED BY <1>1, <1>2, <1>3, <1>4, TabTypes, TabStep DEF CookieType

-----------------------------------------------------------------------------
(* All steps together.                                                     *)

LEMMA InitInv == DashboardInit => IInv
<1> SUFFICES ASSUME DashboardInit PROVE IInv
  OBVIOUS
<1>1. /\ refresh \in BOOLEAN /\ cookie = None /\ loading = TRUE /\ curPage = None
      /\ table = [id \in SessionIDs |-> None] /\ idle = [id \in SessionIDs |-> 0]
      /\ req = [q \in Requests |-> Free] /\ pages = [p \in Pages |-> NoPage]
      /\ sender = [q \in Requests |-> None] /\ visible = Blank
  BY DEF DashboardInit, Init
<1>2. Free \in Request /\ Free.stage = "free"
  BY SessionAssumption DEF Free, Request, Stages, Expiry
<1>3. NoPage \in PageType /\ NoPage.kind = "none" /\ Blank \in Shown /\ Blank.certs = "hidden"
  BY DEF NoPage, PageType, Blank, Shown
<1>4. ~OnDashboard /\ ~Painted
  BY <1>1 DEF OnDashboard, Painted
<1>5. TypeOK
  BY <1>1, <1>2, <1>3 DEF TypeOK, Shown, PageType
<1>6. Named /\ Recent
  BY <1>1, <1>2 DEF Named, Recent
<1>7. Owned /\ OneChain /\ Chained /\ HiddenAfterLogout /\ Fresh
  <2>1. \A q \in Requests : sender[q] = None
    BY <1>1
  <2> QED BY <1>1, <1>2, <1>3, <1>4, <2>1, DashboardAssumption
          DEF Owned, OneChain, Chained, HiddenAfterLogout, Fresh, Prolonged
<1> QED BY <1>5, <1>6, <1>7 DEF IInv

LEMMA ServerInv == ASSUME IInv, Server PROVE IInv'
<1>1. UNCHANGED tab
  BY DEF Server
<1>2. CASE \E q \in Requests : Handle(q)
  BY <1>1, <1>2, HandleInv
<1>3. CASE \E q \in Requests, id \in SessionIDs : New(q, id)
  BY <1>1, <1>3, NewInv
<1> QED BY <1>2, <1>3 DEF Server

LEMMA AnswerInv ==
  ASSUME IInv, NEW q \in Requests, Answer(q)
  PROVE  IInv' /\ \A r \in Requests : TabRequest(r)
BY CertsInv, LoggedInInv, FailedInv, AbandonedInv DEF Answer

\* The steps of the tab, and those that are not.
Tab ==
  \/ Reload \/ Loaded \/ Logout
  \/ \E q \in Requests : Submit(q) \/ Answer(q)
  \/ \E p \in Pages, q \in Requests : Poll(p, q)

LEMMA TabInv == ASSUME IInv, Tab PROVE IInv' /\ \A r \in Requests : TabRequest(r)
BY ReloadInv, LoadedInv, LogoutInv, SubmitInv, AnswerInv, PollInv DEF Tab

LEMMA StutterInv == ASSUME IInv, UNCHANGED vars PROVE IInv'
<1> USE DEF IInv
<1>1. UNCHANGED <<refresh, table, req, idle, cookie, loading, curPage, pages, sender, visible>>
  BY DEF vars, serverVars, tab
<1>2. TypeOK' /\ Named'
  BY <1>1 DEF TypeOK, Named
<1>3. Recent' /\ Owned' /\ OneChain'
  BY <1>1 DEF Recent, Bound, Owned, OneChain
<1>4. Chained' /\ HiddenAfterLogout'
  BY <1>1 DEF Chained, HiddenAfterLogout, OnDashboard
<1>5. Fresh'
  BY <1>1 DEF Fresh, Prolonged, Polled, Painted, OnDashboard, Lasts
<1> QED BY <1>2, <1>3, <1>4, <1>5

LEMMA Invariance == DashboardSpec => []IInv
<1>1. ASSUME IInv, [Next]_vars PROVE IInv'
  <2>1. CASE Tab
    BY <1>1, <2>1, TabInv
  <2>2. CASE Server
    BY <1>1, <2>2, ServerInv
  <2>3. CASE ServerRestart
    BY <1>1, <2>3, RestartInv
  <2>4. CASE Clock
    BY <1>1, <2>4, ClockInv
  <2>5. CASE UNCHANGED vars
    BY <1>1, <2>5, StutterInv
  <2> QED BY <1>1, <2>1, <2>2, <2>3, <2>4, <2>5 DEF Next, Tab
<1> QED BY <1>1, InitInv, PTL DEF DashboardSpec

\* Only its own decision takes a request from "decide" to what follows.
LEMMA Decisions ==
  ASSUME IInv, [Next]_vars, NEW q \in Requests, req[q].stage = "decide",
         req'[q].stage \in {"extend", "cookie", "delete"}
  PROVE  Decide(q)
<1> USE DEF IInv
<1>0. req \in [Requests -> Request]
  BY DEF TypeOK
<1>1. CASE Tab
  BY <1>1, TabInv DEF TabRequest, Free
<1>2. ASSUME NEW r \in Requests, Handle(r) PROVE Decide(q)
  <2>1. CASE r = q
    BY <1>2, <2>1 DEF Handle, Reject, Lookup, Extend, Delete, SetCookie
  <2>2. CASE r # q
    <3>1. req'[q] = req[q]
      BY <1>0, <1>2, <2>2 DEF Handle, Reject, Lookup, Decide, Extend, Delete, SetCookie, Goto
    <3> QED BY <3>1
  <2> QED BY <2>1, <2>2
<1>3. ASSUME NEW r \in Requests, NEW id \in SessionIDs, New(r, id) PROVE Decide(q)
  <2>1. r # q /\ req' = [req EXCEPT ![r].stage = "cookie", ![r].id = id]
    BY <1>3 DEF New
  <2> QED BY <1>0, <2>1
<1>4. CASE ServerRestart
  BY <1>4 DEF ServerRestart, Restart, Answers
<1>5. CASE Clock
  <2>1. req'[q] = [req[q] EXCEPT !.expiry = Sooner(@), !.age = @ + 1]
    BY <1>5 DEF Clock, Tick
  <2>2. req'[q].stage = req[q].stage
    BY <1>0, <2>1 DEF Request
  <2> QED BY <2>2
<1>6. CASE UNCHANGED vars
  BY <1>6 DEF vars, serverVars
<1> QED BY <1>1, <1>2, <1>3, <1>4, <1>5, <1>6 DEF Next, Tab, Server

-----------------------------------------------------------------------------
(* Pages that are left.                                                    *)

\* While the document waits for the type of authentication there is no page.
Opening ==
  loading => /\ curPage = None
             /\ \A q \in Requests : sender[q] = None
             /\ \A p \in Pages : pages[p] = NoPage

LEMMA ClockTimer ==
  ASSUME IInv, Clock, NEW p \in Pages
  PROVE  /\ pages'[p].timer = None <=> pages[p].timer = None
         /\ pages[p] = NoPage => pages'[p] = NoPage
<1>1. pages[p] \in PageType /\ pages[p].timer \in 0 .. PollPeriod \union {None}
  BY TabTypes DEF PageType
<1> DEFINE t == Sooner(pages[p].timer)
<1>2. pages'[p] = [pages[p] EXCEPT !.timer = t] /\ pages[p].timer # 0
  BY DEF Clock
<1>3. t = None <=> pages[p].timer = None
  BY <1>1, <1>2, TableFields, SoonerIs DEF IInv
<1> HIDE DEF t
<1>4. pages'[p] = [kind |-> pages[p].kind, painted |-> pages[p].painted, timer |-> t]
  BY <1>1, <1>2 DEF PageType
<1> QED BY <1>3, <1>4 DEF NoPage

LEMMA OpeningKept == ASSUME IInv, Opening, [Next]_vars PROVE Opening'
<1> SUFFICES ASSUME loading' PROVE Opening'
  BY DEF Opening
<1>1. CASE Reload
  BY <1>1 DEF Reload, Opening
<1>2. CASE Loaded
  BY <1>2 DEF Loaded
<1>3. CASE Logout
  BY <1>3 DEF Logout, Opening
<1>4. ASSUME NEW q \in Requests, Submit(q) PROVE Opening'
  BY <1>4 DEF Submit, Opening
<1>5. ASSUME NEW q \in Requests, Answer(q) PROVE Opening'
  <2>1. CASE sender[q] # None
    BY <1>5, <2>1 DEF Answer, Certs, LoggedIn, Failed, Abandoned, Opening
  <2>2. CASE sender[q] = None
    BY <1>5, <2>2 DEF Answer, Certs, LoggedIn, Failed, Abandoned, tab, Opening
  <2> QED BY <2>1, <2>2
<1>6. ASSUME NEW p \in Pages, NEW q \in Requests, Poll(p, q) PROVE Opening'
  <2>1. pages[p].timer = 0 /\ loading
    BY <1>6 DEF Poll
  <2>2. NoPage.timer = None /\ None # 0
    BY TabTypes DEF NoPage
  <2> QED BY <2>1, <2>2 DEF Opening
<1>7. CASE Server \/ ServerRestart
  BY <1>7 DEF Server, ServerRestart, tab, Opening
<1>8. CASE Clock
  <2>1. UNCHANGED <<loading, curPage, sender>>
    BY <1>8 DEF Clock
  <2> QED BY <1>8, <2>1, ClockTimer DEF Opening
<1>9. CASE UNCHANGED vars
  BY <1>9 DEF vars, tab, Opening
<1> QED BY <1>1, <1>2, <1>3, <1>4, <1>5, <1>6, <1>7, <1>8, <1>9 DEF Next

\* A page that has no timer has none after a step that displays another, and
\* the one that is left has none either.
LEMMA LoginStops ==
  ASSUME IInv, NEW from \in Senders, DisplayLogin(pages, from),
         NEW p \in Pages, p = curPage \/ pages[p].timer = None
  PROVE  pages'[p].timer = None
<1>0. pages \in [Pages -> PageType] /\ curPage \in Pages \union {None} /\ None \notin Pages
      /\ NoPage.timer = None
  BY TabTypes DEF NoPage
<1> DEFINE stopped == IF curPage = None THEN pages ELSE [pages EXCEPT ![curPage].timer = None]
<1>1. stopped \in [Pages -> PageType] /\ stopped[p].timer = None
      /\ \A x \in Pages : Weaker(stopped[x], pages[x])
  <2>1. CASE curPage = None
    BY <1>0, <2>1 DEF Weaker
  <2>2. CASE curPage # None
    <3>1. curPage \in Pages /\ stopped = [pages EXCEPT ![curPage].timer = None]
      BY <1>0, <2>2
    <3> HIDE DEF stopped
    <3> QED BY <1>0, <3>1, StopTimer
  <2> QED BY <2>1, <2>2
<1>2. CASE TeardownThrows(pages)
  <2>1. pages' = Kept(stopped, curPage, from)
    BY <1>2 DEF DisplayLogin, TeardownThrows
  <2> HIDE DEF stopped
  <2> QED BY <1>0, <1>1, <2>1, KeptPages
<1>3. CASE ~TeardownThrows(pages)
  <2>1. PICK new \in {x \in Pages : pages[x] = NoPage} :
          pages' = Kept([stopped EXCEPT ![new].kind = "login"], new, from)
    BY <1>3 DEF DisplayLogin
  <2> HIDE DEF stopped
  <2>2. stopped[new] = NoPage
    BY <1>1, GoneStaysGone
  <2> DEFINE ps == [stopped EXCEPT ![new].kind = "login"]
  <2>3. /\ ps \in [Pages -> PageType] /\ ps[new].timer = None
        /\ \A x \in Pages : x # new => ps[x] = stopped[x]
    BY <1>1, <2>2, SetKind
  <2>4. pages' = Kept(ps, new, from)
    BY <2>1
  <2> HIDE DEF ps
  <2>5. ps[p].timer = None
    BY <1>1, <2>3
  <2> QED BY <1>0, <2>3, <2>4, <2>5, KeptPages
<1> QED BY <1>2, <1>3

LEMMA DashboardStops ==
  ASSUME IInv, NEW from \in Senders, NEW ps \in [Pages -> PageType], NEW ck, NEW q \in Requests,
         DisplayDashboard(q, ck, ps, from), NEW p \in Pages, ps[p].timer = None
  PROVE  pages'[p].timer = None
<1>1. PICK new \in {x \in Pages : ps[x] = NoPage} :
        /\ sender' = [from EXCEPT ![q] = new]
        /\ pages' = Kept([ps EXCEPT ![new].kind = "dash"], new, sender')
  BY DEF DisplayDashboard
<1> DEFINE shown == [ps EXCEPT ![new].kind = "dash"]
           now == sender'
<1>2. /\ shown \in [Pages -> PageType] /\ shown[new].timer = None
      /\ \A x \in Pages : x # new => shown[x] = ps[x]
  BY SetKind
<1>3. now \in Senders /\ pages' = Kept(shown, new, now)
  BY <1>1 DEF Senders
<1> HIDE DEF shown, now
<1>4. shown[p].timer = None
  BY <1>2
<1> QED BY <1>2, <1>3, <1>4, KeptPages DEF NoPage

LEMMA OnlyAnswersArm ==
  ASSUME IInv, Opening, [Next]_vars, NEW p \in Pages, p # curPage', pages'[p].timer # None,
         p = curPage \/ pages[p].timer = None
  PROVE  \E q \in Requests : req[q].stage = "ok" /\ sender[q] = p
<1>0. /\ pages \in [Pages -> PageType] /\ sender \in Senders /\ None \notin Pages
      /\ curPage \in Pages \union {None} /\ NoPage.timer = None
  BY TabTypes DEF NoPage
<1>1. ~UNCHANGED <<curPage, pages>>
  OBVIOUS
<1>2. CASE Reload
  BY <1>0, <1>2 DEF Reload
<1>3. CASE Loaded
  <2>1. pages[p].timer = None
    BY <1>0, <1>3 DEF Loaded, Opening
  <2> QED BY <1>0, <1>3, <2>1, LoginStops, DashboardStops DEF Loaded
<1>4. CASE Logout
  BY <1>0, <1>4, LoginStops DEF Logout
<1>5. ASSUME NEW q \in Requests, Submit(q) PROVE FALSE
  BY <1>1, <1>5 DEF Submit
<1>6. ASSUME NEW q \in Requests, Certs(q) PROVE sender[q] = p /\ req[q].stage = "ok"
  <2>1. /\ pages' = [pages EXCEPT ![sender[q]].painted = TRUE, ![sender[q]].timer = PollPeriod]
        /\ curPage' = curPage /\ req[q].stage = "ok"
    BY <1>6 DEF Certs
  <2>2. sender[q] # p => pages'[p] = pages[p]
    BY <1>0, <2>1
  <2> QED BY <2>1, <2>2
<1>7. ASSUME NEW q \in Requests, LoggedIn(q) PROVE FALSE
  <2> DEFINE from == [sender EXCEPT ![q] = None]
             ps == IF curPage # None THEN [pages EXCEPT ![curPage].timer = None] ELSE pages
  <2>1. \/ DisplayLogin(pages, from)
        \/ DisplayDashboard(q, cookie', ps, from)
    BY <1>7 DEF LoggedIn
  <2>2. from \in Senders
    BY <1>0 DEF Senders
  <2>3. ps \in [Pages -> PageType] /\ ps[p].timer = None
    <3>1. CASE curPage = None
      BY <1>0, <3>1
    <3>2. CASE curPage # None
      <4>1. curPage \in Pages /\ ps = [pages EXCEPT ![curPage].timer = None]
        BY <1>0, <3>2
      <4> HIDE DEF ps
      <4> QED BY <1>0, <4>1, StopTimer
    <3> QED BY <3>1, <3>2
  <2> HIDE DEF from, ps
  <2> QED BY <2>1, <2>2, <2>3, LoginStops, DashboardStops
<1>8. ASSUME NEW q \in Requests, Failed(q) PROVE FALSE
  <2> DEFINE from == [sender EXCEPT ![q] = None]
  <2>1. DisplayLogin(pages, from) /\ from \in Senders
    BY <1>0, <1>8 DEF Failed, Senders
  <2> HIDE DEF from
  <2> QED BY <2>1, LoginStops
<1>9. ASSUME NEW q \in Requests, Abandoned(q) PROVE FALSE
  BY <1>1, <1>9 DEF Abandoned, tab
<1>10. ASSUME NEW x \in Pages, NEW q \in Requests, Poll(x, q) PROVE FALSE
  <2>1. pages' = [pages EXCEPT ![x].timer = None] /\ curPage' = curPage
    BY <1>10 DEF Poll
  <2> QED BY <1>0, <2>1, StopTimer DEF Weaker
<1>11. CASE Server \/ ServerRestart
  BY <1>1, <1>11 DEF Server, ServerRestart, tab
<1>12. CASE Clock
  <2>1. curPage' = curPage
    BY <1>12 DEF Clock
  <2> QED BY <1>12, <2>1, ClockTimer
<1>13. CASE UNCHANGED vars
  BY <1>1, <1>13 DEF vars, tab
<1> QED BY <1>2, <1>3, <1>4, <1>5, <1>6, <1>7, <1>8, <1>9, <1>10, <1>11, <1>12, <1>13
        DEF Next, Answer

LEMMA OpeningHolds == DashboardSpec => []Opening
<1>1. DashboardInit => Opening
  <2> SUFFICES ASSUME DashboardInit PROVE Opening
    OBVIOUS
  <2> QED BY DEF DashboardInit, Opening
<1>2. IInv /\ Opening /\ [Next]_vars => Opening'
  BY OpeningKept
<1> QED BY <1>1, <1>2, Invariance, PTL DEF DashboardSpec

-----------------------------------------------------------------------------
(* Theorems.                                                               *)

\* Every variable has its type, and no request decides on an expiry it has
\* not read (userpass.go:102-138).
THEOREM TypeCorrect == DashboardSpec => []TypeOK
BY Invariance, PTL DEF IInv

\* Whoever is logged out sees no certificates, but for an answer that came
\* late (certs.ts:23-46).
THEOREM HiddenFromOthers == DashboardSpec => []HiddenAfterLogout
BY Invariance, PTL DEF IInv

LEMMA PollsOfOneChain ==
  ASSUME IInv, NEW p \in Pages, pages[p].kind = "dash"
  PROVE  /\ Polls(p) <= 1
         /\ Polls(p) = 0 => pages[p].timer = None /\ \A q \in Requests : sender[q] # p
<1> DEFINE S == {q \in Requests : sender[q] = p}
<1>1. /\ \A q, r \in Requests : sender[q] = p /\ sender[r] = p => q = r
      /\ pages[p].timer # None => \A q \in Requests : sender[q] # p
  BY DEF IInv, OneChain
<1>2. CASE S = {}
  <2>1. Cardinality(S) = 0
    BY <1>2, FS_EmptySet, Zenon
  <2> HIDE DEF S
  <2>2. Polls(p) = 0 + (IF pages[p].timer = None THEN 0 ELSE 1)
    BY <2>1 DEF Polls, S
  <2> QED BY <1>2, <2>2 DEF S
<1>3. CASE S # {}
  <2>1. PICK q \in Requests : sender[q] = p
    BY <1>3
  <2>2. S = {q} /\ pages[p].timer = None
    BY <1>1, <2>1
  <2>3. Cardinality(S) = 1
    BY <2>2, FS_Singleton, Zenon
  <2> HIDE DEF S
  <2>4. Polls(p) = 1 + 0
    BY <2>2, <2>3 DEF Polls, S
  <2> QED BY <2>4
<1> QED BY <1>2, <1>3

\* Each dashboard polls in one chain, and the chain of the one on display does
\* not end, unless that was never painted (certs.ts:28-46). Of a page that
\* was left see LeftPagesStop.
THEOREM PollsInOneChain == DashboardSpec => []OnePollChain
<1>1. IInv => OnePollChain
  <2> SUFFICES ASSUME IInv PROVE OnePollChain
    OBVIOUS
  <2>1. OnDashboard => curPage \in Pages /\ pages[curPage].kind = "dash"
    BY TabTypes DEF OnDashboard
  <2>2. OnDashboard /\ Polls(curPage) = 0 =>
          ~pages[curPage].painted /\ visible.certs # "shown" /\ ~visible.login
    BY <2>1, PollsOfOneChain DEF IInv, Chained
  <2> QED BY <2>2, PollsOfOneChain DEF OnePollChain
<1> QED BY <1>1, Invariance, PTL

\* A page that is left polls no more, unless an answer it waited for comes
\* later (certs.ts:23-36).
THEOREM LeftPagesStop == DashboardSpec => LeavingStopsPolls
<1> DEFINE Step == \A p \in Pages :
                     /\ p # curPage' /\ pages'[p].timer # None
                     /\ p = curPage \/ pages[p].timer = None
                     => \E q \in Requests : req[q].stage = "ok" /\ sender[q] = p
<1>1. IInv /\ Opening /\ [Next]_vars => [Step]_vars
  BY OnlyAnswersArm
<1>2. LeavingStopsPolls <=> [][Step]_vars
  BY PTL DEF LeavingStopsPolls
<1> QED BY <1>1, <1>2, Invariance, OpeningHolds, PTL DEF DashboardSpec

\* No late write of an expiry revives a session nobody used
\* (userpass.go:32-52), whatever the tab and the server do.
THEOREM NoLateAccess == DashboardSpec => NoAccessAfterIdle
<1> DEFINE Step == \A q \in Requests : Accepts(q) =>
                     idle[req[q].id] < Timeout + (IF refresh THEN MaxDelay ELSE 0)
<1>1. ASSUME IInv, [Next]_vars PROVE [Step]_serverVars
  <2> SUFFICES ASSUME NEW q \in Requests, Accepts(q)
               PROVE  idle[req[q].id] < Timeout + (IF refresh THEN MaxDelay ELSE 0)
    OBVIOUS
  <2>1. req[q].stage = "decide" /\ req'[q].stage \in {"extend", "cookie"}
    BY DEF Accepts
  <2>2. Decide(q)
    BY <1>1, <2>1, Decisions
  <2>3. req[q].expiry > 0
    <3> SUFFICES ASSUME ~(req[q].expiry > 0) PROVE FALSE
      OBVIOUS
    <3>1. Goto(q, "delete") /\ "delete" \in Stages
      BY <2>2 DEF Decide, Stages
    <3>2. req'[q].stage = "delete"
      BY <1>1, <3>1, Moves DEF IInv, Moved
    <3> QED BY <2>1, <3>2
  <2>4. idle[req[q].id] + req[q].expiry <= Bound
    BY <1>1, <2>1, <2>3 DEF IInv, Recent
  <2>5. req[q].expiry \in Nat /\ idle[req[q].id] \in Nat /\ Bound \in Nat
    BY <1>1, <2>1, RequestFields, TableFields DEF IInv, TypeOK, Named
  <2>6. idle[req[q].id] < Bound
    BY <2>3, <2>4, <2>5
  <2> QED BY <2>6 DEF Bound
<1>2. NoAccessAfterIdle <=> [][Step]_serverVars
  BY PTL DEF NoAccessAfterIdle
<1> QED BY <1>1, <1>2, Invariance, PTL DEF DashboardSpec

\* The dashboard's own polling keeps its session alive, whenever a session
\* lasts longer than a period and two delays (certs.ts:28-46,
\* userpass.go:102-138).
THEOREM SessionKept == DashboardSpec => PollingKeepsSession
<1> DEFINE Step == \A q \in Requests :
                     /\ req[q].stage = "decide" /\ req'[q].stage = "delete"
                     /\ refresh /\ OnDashboard /\ LongTimeout
                     => sender[q] # curPage \/ ~pages[curPage].painted
<1>1. ASSUME IInv, [Next]_vars PROVE [Step]_vars
  <2> SUFFICES ASSUME NEW q \in Requests, req[q].stage = "decide", req'[q].stage = "delete",
                      refresh, OnDashboard, LongTimeout, sender[q] = curPage, pages[curPage].painted
               PROVE  FALSE
    OBVIOUS
  <2>1. Decide(q)
    BY <1>1, Decisions
  <2>2. ~(req[q].expiry > 0)
    <3> SUFFICES ASSUME req[q].expiry > 0 PROVE FALSE
      OBVIOUS
    <3>1. Goto(q, "extend") /\ "extend" \in Stages
      BY <2>1 DEF Decide, Stages
    <3>2. req'[q].stage = "extend"
      BY <1>1, <3>1, Moves DEF IInv, Moved
    <3> QED BY <3>2
  <2>3. req[q].expiry >= Timeout - MaxDelay - PollPeriod - req[q].age
    BY <1>1 DEF IInv, Fresh, Painted, Polled
  <2>4. req[q].expiry \in Nat /\ req[q].age \in Nat /\ req[q].age <= MaxDelay
    BY <1>1, RequestFields DEF IInv, TypeOK
  <2>5. Timeout \in Nat /\ MaxDelay \in Nat /\ PollPeriod \in Nat
    BY SessionAssumption, DashboardAssumption
  <2> QED BY <2>2, <2>3, <2>4, <2>5 DEF LongTimeout
<1>2. PollingKeepsSession <=> [][Step]_vars
  BY PTL DEF PollingKeepsSession
<1> QED BY <1>1, <1>2, Invariance, PTL DEF DashboardSpec
=============================================================================
