------------------------------ MODULE Sessions ------------------------------
(* The session table of server/auth/userpass.go under requests that are     *)
(* handled side by side. A handler reads an expiry under the lock, decides  *)
(* on it later, and takes the lock again to act on the decision.            *)
(*                                                                         *)
(* A point in time is kept as the time left until it; 0 has passed.        *)
EXTENDS Integers, FiniteSets

CONSTANTS
  SessionIDs, Requests, None,
  Timeout,   \* how long a session lasts
  MaxDelay   \* how long a request is on its way, at most

ASSUME SessionAssumption ==
  /\ Timeout \in Nat \ {0} /\ MaxDelay \in Nat
  /\ None \notin SessionIDs /\ None \notin Int

VARIABLES
  refresh,  \* whether use prolongs a session
  table,    \* the expiry of each session
  req,      \* where each request is
  idle      \* history: the time since each session was created or prolonged

serverVars == <<refresh, table, req, idle>>

Expiry == 0 .. Timeout
Stages == {"free", "login", "badLogin", "lookup", "decide", "extend", "delete",
           "cookie", "ok", "refused", "broken"}
Answers == {"ok", "refused", "broken"}
Request == [stage : Stages, id : SessionIDs \union {None},
            expiry : Expiry \union {None}, age : 0 .. MaxDelay]
Free == [stage |-> "free", id |-> None, expiry |-> None, age |-> 0]

Init ==
  /\ refresh \in BOOLEAN
  /\ table = [id \in SessionIDs |-> None]
  /\ req = [q \in Requests |-> Free]
  /\ idle = [id \in SessionIDs |-> 0]

Goto(q, stage) == req' = [req EXCEPT ![q].stage = stage]

\* LoginHandler with the wrong credentials.
Reject(q) ==
  /\ req[q].stage = "badLogin"
  /\ Goto(q, "refused")
  /\ UNCHANGED <<refresh, table, idle>>

\* new, with an id nobody knows.
Unknown(id) == table[id] = None /\ \A q \in Requests : req[q].id # id
New(q, id) ==
  /\ req[q].stage = "login"
  /\ table' = [table EXCEPT ![id] = Timeout]
  /\ req' = [req EXCEPT ![q].stage = "cookie", ![q].id = id]
  /\ idle' = [idle EXCEPT ![id] = 0]
  /\ UNCHANGED refresh

\* Faulty variant of Lookup: an id that is not found has the zero time.
LookupUnchecked(q) ==
  /\ req[q].stage = "lookup"
  /\ IF req[q].id = None
     THEN Goto(q, "refused")
     ELSE req' = [req EXCEPT ![q].stage = "decide", ![q].expiry = table[req[q].id]]
  /\ UNCHANGED <<refresh, table, idle>>

\* validate: the first lock.
Lookup(q) ==
  /\ req[q].stage = "lookup"
  /\ LET id == req[q].id
     IN  IF id = None \/ table[id] = None
         THEN Goto(q, "refused")
         ELSE req' = [req EXCEPT ![q].stage = "decide", ![q].expiry = table[id]]
  /\ UNCHANGED <<refresh, table, idle>>

\* Faulty variant of Decide: a session is not looked at again.
DecideAlways(q) ==
  /\ req[q].stage = "decide"
  /\ Goto(q, IF refresh THEN "extend" ELSE "cookie")
  /\ idle' = IF refresh THEN [idle EXCEPT ![req[q].id] = 0] ELSE idle
  /\ UNCHANGED <<refresh, table>>

\* Faulty variant of Decide: use does not prolong a session.
DecideOnce(q) ==
  /\ req[q].stage = "decide"
  /\ Goto(q, IF req[q].expiry > 0 THEN "cookie" ELSE "delete")
  /\ UNCHANGED <<refresh, table, idle>>

\* time.Now().Before(expiry), of the expiry that was read.
Decide(q) ==
  /\ req[q].stage = "decide"
  /\ IF req[q].expiry > 0
     THEN /\ Goto(q, IF refresh THEN "extend" ELSE "cookie")
          /\ idle' = IF refresh THEN [idle EXCEPT ![req[q].id] = 0] ELSE idle
     ELSE Goto(q, "delete") /\ UNCHANGED idle
  /\ UNCHANGED <<refresh, table>>

Extend(q) ==
  /\ req[q].stage = "extend"
  /\ table' = [table EXCEPT ![req[q].id] = Timeout]
  /\ Goto(q, "cookie")
  /\ UNCHANGED <<refresh, idle>>

Delete(q) ==
  /\ req[q].stage = "delete"
  /\ table' = [table EXCEPT ![req[q].id] = None]
  /\ Goto(q, "refused")
  /\ UNCHANGED <<refresh, idle>>

\* The cookie of the answer: the expiry as it is now, or none if the session
\* has gone meanwhile.
SetCookie(q) ==
  /\ req[q].stage = "cookie"
  /\ req' = [req EXCEPT ![q].stage = "ok", ![q].expiry = table[req[q].id]]
  /\ UNCHANGED <<refresh, table, idle>>

Handle(q) ==
  \/ Reject(q) \/ Lookup(q) \/ Decide(q) \/ Extend(q) \/ Delete(q) \/ SetCookie(q)

\* The server is restarted: sessions live in memory, and what was being
\* handled gets no answer.
Restart ==
  /\ table' = [id \in SessionIDs |-> None]
  /\ req' = [q \in Requests |->
               IF req[q].stage \in Answers \union {"free"} THEN req[q]
               ELSE [req[q] EXCEPT !.stage = "broken"]]
  /\ UNCHANGED <<refresh, idle>>

Sooner(t) == IF t = None \/ t = 0 THEN t ELSE t - 1

\* Time passes, unless a request would take longer than MaxDelay. The
\* history counts no further than it matters.
Tick ==
  /\ \A q \in Requests : req[q].stage # "free" => req[q].age < MaxDelay
  /\ table' = [id \in SessionIDs |-> Sooner(table[id])]
  /\ req' = [q \in Requests |->
               IF req[q].stage = "free" THEN req[q]
               ELSE [req[q] EXCEPT !.expiry = Sooner(@), !.age = @ + 1]]
  /\ idle' = [id \in SessionIDs |->
                IF idle[id] > Timeout + MaxDelay THEN idle[id] ELSE idle[id] + 1]
  /\ UNCHANGED refresh

\* Any client, by itself.
Send(q, stage, id) ==
  /\ req[q].stage = "free"
  /\ req' = [req EXCEPT ![q].stage = stage, ![q].id = id]
  /\ UNCHANGED <<refresh, table, idle>>

Received(q) ==
  /\ req[q].stage \in Answers
  /\ req' = [req EXCEPT ![q] = Free]
  /\ UNCHANGED <<refresh, table, idle>>

ServerNext ==
  \/ \E q \in Requests : \E id \in SessionIDs : Unknown(id) /\ New(q, id)
  \/ \E q \in Requests : Handle(q) \/ Received(q)
  \/ \E q \in Requests : Send(q, "login", None) \/ Send(q, "badLogin", None)
  \/ \E q \in Requests, id \in SessionIDs \union {None} : Send(q, "lookup", id)
  \/ Tick

Spec == Init /\ [][ServerNext]_serverVars

-----------------------------------------------------------------------------
(* Properties                                                              *)

Accepts(q) == req[q].stage = "decide" /\ req'[q].stage \in {"extend", "cookie"}

\* Whatever handlers run beside it, a request gets through only if its
\* session was created, or used validly, less than Timeout ago (and, if use
\* prolongs it, the delay of that use): no late write of an expiry revives
\* an abandoned session (userpass.go:32-52).
NoAccessAfterIdle ==
  [][\A q \in Requests : Accepts(q) =>
       idle[req[q].id] < Timeout + (IF refresh THEN MaxDelay ELSE 0)]_serverVars
=============================================================================
