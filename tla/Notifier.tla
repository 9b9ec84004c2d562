------------------------------ MODULE Notifier ------------------------------
(* The notifications of the server: server/notify.go, its schedules         *)
(* (server/notify/schedule) and backends (server/notify/backend). Times are *)
(* relative to the clock. The cache is filled and changed by refreshes that *)
(* run beside the checks.                                                   *)
EXTENDS CacheItems, FiniteSets

CONSTANTS
  Certs,
  Absent,    \* a certificate that is not in the cache
  MaxLeft,   \* the longest time a certificate has left
  Soon,      \* four weeks
  Interval,  \* between two instants of the schedule
  MaxCheck,  \* a check that waits for the backend takes no longer
  MaxLate    \* the oldest instant a cron schedule may have to make up for

ASSUME NotifierAssumption ==
  /\ Soon \in Nat \ {0} /\ Interval \in Nat \ {0}
  /\ MaxLeft \in Nat /\ MaxCheck \in Nat /\ MaxLate \in Nat
  /\ Absent \notin 0 .. MaxLeft
  /\ NotGiven \notin Int
  /\ IsFiniteSet(Certs)

VARIABLES
  kind,      \* "constant" or "cron"
  backend,   \* "slack" or "shout"
  left,      \* the cache: the time each certificate has left, 0 once expired
  due,       \* the next instant of the schedule
  ticked,    \* constant: a tick waits in the ticker's channel
  sender,    \* the schedule goroutine: "wait", or "send" on c
  pc,        \* the check: "receive", "expired" and "soon": it filters, "post"
  items,     \* its data
  age,       \* how long ago it read them
  state,     \* what it is going to post
  said,      \* the last message the backend has taken
  unchecked  \* history: an instant has passed since the last check began

vars == <<kind, backend, left, due, ticked, sender, pc, items, age, state, said, unchecked>>
schedule == <<due, ticked, sender, unchecked>>
check == <<pc, items, age, state, said>>
fixed == <<kind, backend>>

-----------------------------------------------------------------------------
Init ==
  /\ kind \in {"constant", "cron"}
  /\ backend \in {"slack", "shout"}
  /\ left = [c \in Certs |-> Absent]
  /\ due = Interval
  /\ ticked = FALSE /\ sender = "wait"
  /\ pc = "receive" /\ items = << >> /\ age = 0
  /\ state = "ok" /\ said = "nothing"
  /\ unchecked = FALSE

\* A refresh finds a certificate, renewed or not, or finds it gone.
Refresh(c) ==
  /\ \E t \in 0 .. MaxLeft \union {Absent} : left' = [left EXCEPT ![c] = t]
  /\ UNCHANGED <<fixed, schedule, check>>

Sooner(t) == IF t \in {0, Absent} THEN t ELSE t - 1

\* The ticker keeps one tick and drops those it has no room for. A cron
\* schedule has computed its instant and is late for it.
Tick ==
  /\ pc # "receive" => age < MaxCheck
  /\ due > -MaxLate
  /\ left' = [c \in Certs |-> Sooner(left[c])]
  /\ items' = [i \in DOMAIN items |-> Sooner(items[i])]
  /\ age' = IF pc = "receive" THEN age ELSE age + 1
  /\ IF kind = "constant" /\ due = 1
     THEN due' = Interval /\ ticked' = TRUE
     ELSE due' = due - 1 /\ UNCHANGED ticked
  /\ unchecked' = (unchecked \/ due' % Interval = 0)
  /\ UNCHANGED <<fixed, sender, pc, state, said>>

\* Faulty variant of WakeUp: an instant is given up while a check runs.
WakeUpIfIdle ==
  /\ sender = "wait"
  /\ IF kind = "constant"
     THEN ticked /\ ticked' = FALSE /\ UNCHANGED due
     ELSE due <= 0 /\ due' = (IF pc = "receive" THEN due ELSE due + Interval) /\ UNCHANGED ticked
  /\ sender' = IF pc = "receive" THEN "send" ELSE "wait"
  /\ UNCHANGED <<fixed, left, unchecked, check>>

\* The goroutine receives a tick, or wakes up from time.Sleep, and sends.
WakeUp ==
  /\ sender = "wait"
  /\ IF kind = "constant" THEN ticked /\ ticked' = FALSE
                          ELSE due <= 0 /\ UNCHANGED ticked
  /\ sender' = "send"
  /\ UNCHANGED <<fixed, left, due, unchecked, check>>

\* Faulty variant of Data: the items are not sorted.
DataUnsorted ==
  LET present == {c \in Certs : left[c] # Absent}
      listings == [1 .. Cardinality(present) -> present]
  IN  {[i \in DOMAIN s |-> left[s[i]]] :
         s \in {s \in listings : \A c \in present : \E i \in DOMAIN s : s[i] = c}}

\* Faulty variant of Data: certificates that left the cache are listed.
DataWithGone ==
  LET listings == [1 .. Cardinality(Certs) -> Certs]
  IN  {[i \in DOMAIN s |-> left[s[i]]] :
         s \in {s \in listings : \A c \in Certs : \E i \in DOMAIN s : s[i] = c}}

\* SourceManager.Data: the certificates in the cache, sorted.
Data ==
  LET present == {c \in Certs : left[c] # Absent}
      listings == [1 .. Cardinality(present) -> present]
  IN  {d \in {[i \in DOMAIN s |-> left[s[i]]] :
               s \in {s \in listings : \A c \in present : \E i \in DOMAIN s : s[i] = c}} :
         Sorted(d)}

\* The check receives from c. A cron schedule computes its next instant from
\* the one it was sent for, not from the clock.
Trigger ==
  /\ sender = "send" /\ pc = "receive"
  /\ sender' = "wait"
  /\ due' = IF kind = "cron" THEN due + Interval ELSE due
  /\ pc' = "expired"
  /\ items' \in Data
  /\ age' = 0
  /\ unchecked' = FALSE
  /\ UNCHANGED <<fixed, left, ticked, state, said>>

\* Whether a certificate of the check's data has no more than within left.
Found(within) == Len(Filter(items, [beyond |-> NotGiven, within |-> within])) > 0

FilterExpired ==
  /\ pc = "expired"
  /\ IF Found(0) THEN pc' = "post" /\ state' = "expired"
                 ELSE pc' = "soon" /\ UNCHANGED state
  /\ UNCHANGED <<fixed, schedule, left, items, age, said>>

FilterSoon ==
  /\ pc = "soon"
  /\ pc' = "post"
  /\ state' = IF Found(Soon) THEN "soon" ELSE "ok"
  /\ UNCHANGED <<fixed, schedule, left, items, age, said>>

Done == pc' = "receive" /\ items' = << >> /\ age' = 0 /\ state' = "ok"

\* newSlackBackend does not take notify_ok over from its configuration, so
\* Slack.OK posts nothing, whether it is set or not.
Silent == backend = "slack" /\ state = "ok"

Post ==
  /\ pc = "post" /\ Done
  /\ said' = IF Silent THEN said ELSE state
  /\ UNCHANGED <<fixed, schedule, left>>


PostFails ==
  /\ pc = "post" /\ ~Silent /\ Done
  /\ UNCHANGED <<fixed, schedule, left, said>>

Goroutines == WakeUp \/ Trigger \/ FilterExpired \/ FilterSoon \/ Post \/ PostFails

Next == Tick \/ Goroutines \/ \E c \in Certs : Refresh(c)

Spec == Init /\ [][Next]_vars

\* The backend answers in the end, and does not fail for ever.
Fairness ==
  /\ WF_vars(Tick) /\ WF_vars(WakeUp) /\ WF_vars(Trigger)
  /\ WF_vars(FilterExpired) /\ WF_vars(FilterSoon)
  /\ WF_vars(Post \/ PostFails) /\ SF_vars(Post)

FairSpec == Spec /\ Fairness

-----------------------------------------------------------------------------
(* Properties                                                              *)

Left == 0 .. MaxLeft \union {Absent}

TypeOK ==
  /\ kind \in {"constant", "cron"} /\ backend \in {"slack", "shout"}
  /\ left \in [Certs -> Left]
  /\ due \in Int /\ due <= Interval /\ due >= -MaxLate
  /\ ticked \in BOOLEAN /\ sender \in {"wait", "send"} /\ unchecked \in BOOLEAN
  /\ pc \in {"receive", "expired", "soon", "post"}
  /\ items \in Seq(0 .. MaxLeft) /\ age \in 0 .. MaxCheck
  /\ state \in {"ok", "soon", "expired"} /\ said \in {"nothing", "ok", "soon", "expired"}

\* A message is true of the certificates the check has read, whatever time
\* passes between its two filters and until it is posted: "expired" if one of
\* them has, "ok" only if all of them had more than four weeks when they were
\* read, and "soon" otherwise (notify.go:50-58, client.go:121-146).
MessageFits ==
  pc = "post" =>
    CASE state = "expired" -> \E i \in DOMAIN items : items[i] = 0
      [] state = "soon" ->
           /\ \E i \in DOMAIN items : items[i] <= Soon
           /\ \A i \in DOMAIN items : items[i] + age > 0
      [] OTHER -> \A i \in DOMAIN items : items[i] + age > Soon

\* After each instant of its schedule a check begins, or is still to begin,
\* however long the checks before it take: what a ticker drops and what a
\* late cron schedule makes up for are covered by a later check
\* (constant.go:28-34, cron.go:35-44).
NoInstantLost ==
  unchecked =>
    \/ sender = "send"
    \/ kind = "constant" /\ ticked
    \/ kind = "cron" /\ due <= 0

\* All certificates in the cache have more than t left.
AllAbove(t) == \A c \in Certs : left[c] # Absent => left[c] > t

\* The message that is true of the cache, and stays true of data read from it
\* for as long as a check may take.
Deserves(message) ==
  CASE message = "expired" -> \E c \in Certs : left[c] = 0
    [] message = "soon" -> AllAbove(MaxCheck) /\ ~AllAbove(Soon)
    [] OTHER -> AllAbove(Soon + MaxCheck)

=============================================================================
