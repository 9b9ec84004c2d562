--------------------------- MODULE NotifierProofs ---------------------------
(* What holds of Notifier for all values of its constants.                 *)
EXTENDS Notifier, TLAPS, FiniteSetTheorems, SequenceTheorems, WellFoundedInduction

\* What the two filters have found out so far, whatever time has passed.
Filtered ==
  /\ Sorted(items)
  /\ pc = "soon" => \A i \in DOMAIN items : items[i] + age > 0

\* The instant of a constant schedule is always to come; that of a cron
\* schedule has come when it is sent.
Ticking ==
  /\ kind = "constant" => due > 0
  /\ kind = "cron" /\ sender = "send" => due <= 0

IInv == TypeOK /\ Filtered /\ Ticking /\ MessageFits /\ NoInstantLost

-----------------------------------------------------------------------------
\* A set of natural numbers has a least element, which is Min.
LEMMA MinIsLeast ==
  ASSUME NEW S \in SUBSET Nat, S # {}
  PROVE  Min(S) \in S /\ \A n \in S : Min(S) <= n
<1> DEFINE R == OpToRel(<, Nat)
<1>1. \A m, n \in Nat : <<m, n>> \in R <=> m < n
  BY DEF OpToRel
<1>2. IsWellFoundedOn(R, Nat)
  BY NatLessThanWellFounded
<1> HIDE DEF R
<1>a. S \subseteq Nat /\ S # {}
  OBVIOUS
<1>b. \E m \in S : \A n \in S : ~ (<<n, m>> \in R)
  BY <1>2, <1>a, WFMin, Zenon
<1>3. PICK m \in S : \A n \in S : ~ (<<n, m>> \in R)
  BY <1>b
<1>c. \A n \in S : ~ (n < m)
  BY <1>1, <1>3, S \subseteq Nat, Zenon
<1>4. \A n \in S : m <= n
  BY <1>c
<1> QED BY <1>4 DEF Min

\* A filter without a lower bound leaves something of a sorted list exactly
\* if something in it lies within the duration.
LEMMA FoundSome ==
  ASSUME NEW within \in Nat, items \in Seq(0 .. MaxLeft), MaxLeft \in Nat,
         Sorted(items), NotGiven \notin Int
  PROVE  Found(within) <=> \E i \in DOMAIN items : items[i] <= within
<1> DEFINE S == After(items, within)
<1>1. Filter(items, [beyond |-> NotGiven, within |-> within]) = Within(items, within)
  BY DEF Filter, Beyond
<1>2. Len(items) \in Nat /\ DOMAIN items = 1 .. Len(items)
  OBVIOUS
<1>3. \A i \in 1 .. Len(items) : items[i] \in 0 .. MaxLeft
  OBVIOUS
<1>4. S \subseteq 1 .. Len(items) /\ \A i \in 1 .. Len(items) : i \in S <=> within < items[i]
  BY <1>2 DEF After
<1>5. CASE S = {}
  <2>1. Within(items, within) = items
    BY <1>5 DEF Within
  <2>2. \A i \in DOMAIN items : items[i] <= within
    BY <1>2, <1>3, <1>4, <1>5
  <2> QED BY <1>1, <1>2, <2>1, <2>2 DEF Found
<1>6. CASE S # {}
  <2> DEFINE m == Min(S)
  <2>1. m \in S /\ \A k \in S : m <= k
    <3>1. S \in SUBSET Nat
      BY <1>2, <1>4
    <3> HIDE DEF S
    <3> QED BY <1>6, <3>1, MinIsLeast
  <2>2. m \in 1 .. Len(items)
    BY <1>4, <2>1
  <2>3. Within(items, within) = SubSeq(items, 1, m - 1)
    <3>1. within # NotGiven
      OBVIOUS
    <3> QED BY <1>6, <3>1, Zenon DEF Within
  <2> HIDE DEF m
  <2>4. Len(SubSeq(items, 1, m - 1)) = m - 1
    BY <1>2, <2>2
  <2>5. Found(within) <=> m > 1
    BY <1>1, <1>2, <2>2, <2>3, <2>4 DEF Found
  <2>6. m > 1 => items[1] <= within /\ 1 \in DOMAIN items
    BY <1>2, <1>3, <1>4, <2>1
  <2>7. m = 1 => \A i \in DOMAIN items : items[i] > within
    BY <1>2, <1>3, <1>4, <2>1 DEF Sorted
  <2> QED BY <1>2, <1>3, <1>4, <2>1, <2>5, <2>6, <2>7
<1> QED BY <1>5, <1>6

LEMMA FunctionIsSeq ==
  ASSUME NEW S, NEW n \in Nat, NEW f \in [1 .. n -> S]
  PROVE  f \in Seq(S)
<1>1. [1 .. n -> S] \in {[1 .. k -> S] : k \in Nat}
  OBVIOUS
<1>2. f \in UNION {[1 .. k -> S] : k \in Nat}
  BY <1>1, Zenon
<1> QED BY <1>2, SeqDef, Zenon

\* What Data returns is a sorted list of times.
LEMMA DataSorted ==
  ASSUME left \in [Certs -> Left], IsFiniteSet(Certs), NEW d \in Data
  PROVE  d \in Seq(0 .. MaxLeft) /\ Sorted(d)
<1> DEFINE present == {c \in Certs : left[c] # Absent}
<1>1. Cardinality(present) \in Nat
  BY FS_Subset, FS_CardinalityType, present \in SUBSET Certs
<1>2. PICK s \in [1 .. Cardinality(present) -> present] : d = [i \in DOMAIN s |-> left[s[i]]]
  BY DEF Data
<1>3. Sorted(d)
  BY DEF Data
<1>4. d \in [1 .. Cardinality(present) -> 0 .. MaxLeft]
  <2> HIDE DEF present
  <2>1. \A c \in present : left[c] \in 0 .. MaxLeft
    BY DEF present, Left
  <2> QED BY <1>2, <2>1
<1> HIDE DEF present
<1> QED BY <1>1, <1>3, <1>4, FunctionIsSeq

\* No instant lies between two instants.
LEMMA BetweenInstants ==
  ASSUME NEW N \in Nat \ {0}, NEW t \in 1 .. N - 1
  PROVE  t % N # 0
OBVIOUS

LEMMA SoonerTime ==
  ASSUME NEW t \in 0 .. MaxLeft, MaxLeft \in Nat, Absent \notin 0 .. MaxLeft
  PROVE  /\ Sooner(t) \in 0 .. MaxLeft
         /\ Sooner(t) <= t /\ t <= Sooner(t) + 1
         /\ \A u \in 0 .. MaxLeft : t <= u => Sooner(t) <= Sooner(u)
BY DEF Sooner

-----------------------------------------------------------------------------
LEMMA InitInv == Init => IInv
<1> SUFFICES ASSUME Init PROVE IInv
  OBVIOUS
<1> USE NotifierAssumption DEF Init
<1>1. TypeOK
  <2>1. left \in [Certs -> Left]
    BY Zenon DEF Left
  <2>2. items \in Seq(0 .. MaxLeft) /\ age \in 0 .. MaxCheck
    OBVIOUS
  <2>3. due \in Int /\ due <= Interval /\ due >= -MaxLate
    OBVIOUS
  <2> QED BY <2>1, <2>2, <2>3 DEF TypeOK
<1>2. Filtered /\ Ticking
  BY DEF Filtered, Sorted, Ticking
<1> QED BY <1>1, <1>2 DEF IInv, MessageFits, NoInstantLost

LEMMA StepInv ==
  ASSUME IInv, [Next]_vars
  PROVE  IInv'
<1> USE NotifierAssumption
<1>0. /\ TypeOK /\ Filtered /\ Ticking /\ MessageFits /\ NoInstantLost
      /\ items \in Seq(0 .. MaxLeft) /\ age \in 0 .. MaxCheck
      /\ left \in [Certs -> Left] /\ due \in Int
      /\ \A i \in DOMAIN items : items[i] \in 0 .. MaxLeft
  BY DEF IInv, TypeOK
<1>1. ASSUME Tick PROVE IInv'
  <2>1. items' = [i \in DOMAIN items |-> Sooner(items[i])]
    BY <1>1 DEF Tick
  <2>2. /\ items' \in Seq(0 .. MaxLeft) /\ DOMAIN items' = DOMAIN items
        /\ \A i \in DOMAIN items :
             /\ items'[i] = Sooner(items[i])
             /\ items'[i] \in 0 .. MaxLeft
             /\ items'[i] <= items[i] /\ items[i] <= items'[i] + 1
    <3>1. \A i \in DOMAIN items :
            /\ items'[i] = Sooner(items[i])
            /\ items'[i] \in 0 .. MaxLeft
            /\ items'[i] <= items[i] /\ items[i] <= items'[i] + 1
      BY <1>0, <2>1, SoonerTime
    <3>2. PICK n \in Nat : DOMAIN items = 1 .. n
      BY <1>0
    <3>3. items' \in [1 .. n -> 0 .. MaxLeft]
      BY <2>1, <3>1, <3>2
    <3> QED BY <2>1, <3>1, <3>2, <3>3, FunctionIsSeq
  <2>3. Sorted(items)'
    BY <1>0, <2>2, SoonerTime DEF Filtered, Sorted
  <2>4. age' \in 0 .. MaxCheck /\ (pc # "receive" => age' = age + 1)
    BY <1>0, <1>1 DEF Tick
  <2>5. left' \in [Certs -> Left]
    <3>1. left' = [c \in Certs |-> Sooner(left[c])]
      BY <1>1 DEF Tick
    <3>2. \A t \in Left : Sooner(t) \in Left
      BY DEF Left, Sooner
    <3> QED BY <1>0, <3>1, <3>2
  <2>6. /\ kind' = kind /\ backend' = backend /\ sender' = sender /\ pc' = pc
        /\ state' = state /\ said' = said
    BY <1>1 DEF Tick, fixed
  <2>7. /\ due' \in Int /\ due' <= Interval /\ due' >= -MaxLate /\ Ticking'
        /\ ticked' \in BOOLEAN /\ unchecked' \in BOOLEAN
    <3>1. due > -MaxLate /\ due <= Interval /\ ticked \in BOOLEAN /\ unchecked \in BOOLEAN
      BY <1>0, <1>1 DEF Tick, TypeOK
    <3>2. \/ kind = "constant" /\ due = 1 /\ due' = Interval /\ ticked' = TRUE
          \/ ~(kind = "constant" /\ due = 1) /\ due' = due - 1 /\ ticked' = ticked
      BY <1>1 DEF Tick
    <3>3. unchecked' \in BOOLEAN
      BY <1>1 DEF Tick
    <3>4. due' \in Int /\ due' <= Interval /\ due' >= -MaxLate
      <4>1. due' = Interval \/ due' = due - 1
        BY <3>2
      <4>2. Interval \in Nat /\ MaxLate \in Nat
        OBVIOUS
      <4>3. CASE due' = Interval
        BY <4>2, <4>3
      <4>4. CASE due' = due - 1
        BY <1>0, <3>1, <4>2, <4>4
      <4> QED BY <4>1, <4>3, <4>4
    <3>6. ticked' \in BOOLEAN
      BY <3>1, <3>2, Zenon
    <3>5. Ticking'
      BY <1>0, <2>6, <3>1, <3>2 DEF Ticking
    <3> QED BY <3>3, <3>4, <3>5, <3>6
  <2>8. NoInstantLost'
    <3>1. due' \in 1 .. Interval - 1 => due' % Interval # 0
      BY BetweenInstants
    <3>2. unchecked' = (unchecked \/ due' % Interval = 0)
      BY <1>1 DEF Tick
    <3>3. CASE kind = "constant"
      <4>2. due' % Interval = 0 => ticked'
        <5>1. due \in 1 .. Interval
          BY <1>0, <3>3 DEF Ticking, TypeOK
        <5>2. due = 1 => ticked'
          BY <1>1, <3>3 DEF Tick
        <5>3. due # 1 => due' = due - 1
          BY <1>1 DEF Tick
        <5>4. due # 1 => due' \in 1 .. Interval - 1
          BY <5>1, <5>3
        <5> QED BY <3>1, <5>2, <5>4, Zenon
      <4>3. ticked => ticked'
        BY <1>1, <3>3 DEF Tick
      <4> QED BY <1>0, <2>6, <3>2, <3>3, <4>2, <4>3 DEF NoInstantLost
    <3>4. CASE kind = "cron"
      <4>1. due' = due - 1
        BY <1>1, <3>4 DEF Tick
      <4>2. due' % Interval = 0 => due' <= 0
        <5>1. due' > 0 => due' \in 1 .. Interval - 1
          BY <1>0, <2>7, <4>1 DEF TypeOK
        <5>2. due' <= 0 \/ due' > 0
          BY <2>7
        <5> QED BY <3>1, <5>1, <5>2, Zenon
      <4>3. due <= 0 => due' <= 0
        BY <1>0, <4>1
      <4>4. unchecked => sender = "send" \/ due <= 0
        BY <1>0, <3>4, Zenon DEF NoInstantLost
      <4>5. unchecked' => sender = "send" \/ due' <= 0
        BY <3>2, <4>2, <4>3, <4>4, Zenon
      <4> QED BY <2>6, <3>4, <4>5, Zenon DEF NoInstantLost
    <3> QED BY <1>0, <3>3, <3>4 DEF TypeOK
  <2>9. TypeOK'
    BY <1>0, <2>2, <2>4, <2>5, <2>6, <2>7 DEF TypeOK
  <2>10. Filtered'
    BY <1>0, <2>2, <2>3, <2>4, <2>6 DEF Filtered
  <2>11. MessageFits'
    <3> SUFFICES ASSUME pc = "post" PROVE MessageFits'
      BY <2>6 DEF MessageFits
    <3>1. \A i \in DOMAIN items : items'[i] + age' >= items[i] + age
      BY <1>0, <2>2, <2>4
    <3>2. CASE state = "expired"
      BY <1>0, <2>2, <2>6, <3>2 DEF MessageFits
    <3>3. CASE state = "soon"
      <4>1. \E i \in DOMAIN items' : items'[i] <= Soon
        BY <1>0, <2>2, <3>3 DEF MessageFits
      <4>2. \A i \in DOMAIN items' : items'[i] + age' > 0
        <5>1. \A i \in DOMAIN items : items[i] + age > 0
          BY <1>0, <3>3 DEF MessageFits
        <5> QED BY <1>0, <2>2, <2>4, <3>1, <5>1
      <4> QED BY <2>6, <3>3, <4>1, <4>2 DEF MessageFits
    <3>4. CASE state \notin {"expired", "soon"}
      <4>1. \A i \in DOMAIN items' : items'[i] + age' > Soon
        BY <1>0, <2>2, <2>4, <3>1, <3>4 DEF MessageFits
      <4> QED BY <2>6, <3>4, <4>1 DEF MessageFits
    <3> QED BY <3>2, <3>3, <3>4
  <2> QED BY <2>7, <2>8, <2>9, <2>10, <2>11 DEF IInv
<1>2. ASSUME WakeUp PROVE IInv'
  BY <1>0, <1>2 DEF WakeUp, IInv, TypeOK, Filtered, Ticking, MessageFits,
     NoInstantLost, check, fixed
<1>3. ASSUME Trigger PROVE IInv'
  <2>1. items' \in Seq(0 .. MaxLeft) /\ Sorted(items)'
    BY <1>0, <1>3, DataSorted DEF Trigger, Sorted
  <2>2. /\ kind' = kind /\ backend' = backend /\ left' = left /\ ticked' = ticked
        /\ state' = state /\ said' = said /\ sender' = "wait" /\ pc' = "expired"
        /\ age' = 0 /\ unchecked' = FALSE
        /\ due' = IF kind = "cron" THEN due + Interval ELSE due
        /\ sender = "send"
    BY <1>3 DEF Trigger, fixed
  <2>3. TypeOK'
    <3>1. due' \in Int /\ due' <= Interval /\ due' >= -MaxLate
      <4>1. due <= Interval /\ due >= -MaxLate /\ Interval \in Nat /\ MaxLate \in Nat
        BY <1>0 DEF TypeOK
      <4>2. CASE kind = "cron"
        <5>1. due <= 0 /\ due' = due + Interval
          BY <1>0, <2>2, <4>2 DEF Ticking
        <5> QED BY <1>0, <4>1, <5>1
      <4>3. CASE kind # "cron"
        <5>1. due' = due
          BY <2>2, <4>3, Zenon
        <5> QED BY <1>0, <4>1, <5>1
      <4> QED BY <4>2, <4>3
    <3>2. age' \in 0 .. MaxCheck
      BY <2>2
    <3>3. /\ kind' = kind /\ backend' = backend /\ left' = left /\ ticked' = ticked
          /\ state' = state /\ said' = said
          /\ sender' = "wait" /\ pc' = "expired" /\ unchecked' = FALSE
      BY <2>2
    <3> QED BY <1>0, <2>1, <3>1, <3>2, <3>3 DEF TypeOK
  <2> QED BY <1>0, <2>1, <2>2, <2>3
          DEF IInv, Filtered, Ticking, MessageFits, NoInstantLost
<1>4. ASSUME FilterExpired PROVE IInv'
  <2>1. Found(0) <=> \E i \in DOMAIN items : items[i] <= 0
    BY <1>0, FoundSome DEF Filtered
  <2>2. /\ UNCHANGED <<kind, backend, left, due, ticked, sender, items, age, said, unchecked>>
        /\ IF Found(0) THEN pc' = "post" /\ state' = "expired"
                       ELSE pc' = "soon" /\ state' = state
    BY <1>4 DEF FilterExpired, fixed, schedule
  <2>3. TypeOK' /\ Ticking' /\ NoInstantLost'
    BY <1>0, <2>2 DEF TypeOK, Ticking, NoInstantLost
  <2>4. Sorted(items)'
    BY <1>0, <2>2 DEF Filtered, Sorted
  <2>5. MessageFits'
    BY <1>0, <2>1, <2>2 DEF MessageFits
  <2>6. pc' = "soon" => \A i \in DOMAIN items : items[i] + age > 0
    BY <1>0, <2>1, <2>2
  <2>7. Filtered'
    BY <2>2, <2>4, <2>6 DEF Filtered
  <2> QED BY <2>3, <2>5, <2>7 DEF IInv
<1>5. ASSUME FilterSoon PROVE IInv'
  <2>1. Found(Soon) <=> \E i \in DOMAIN items : items[i] <= Soon
    BY <1>0, FoundSome DEF Filtered
  <2>2. /\ UNCHANGED <<kind, backend, left, due, ticked, sender, items, age, said, unchecked>>
        /\ pc = "soon" /\ pc' = "post"
        /\ state' = IF Found(Soon) THEN "soon" ELSE "ok"
    BY <1>5 DEF FilterSoon, fixed, schedule
  <2>3. TypeOK' /\ Ticking' /\ NoInstantLost'
    BY <1>0, <2>2 DEF TypeOK, Ticking, NoInstantLost
  <2>4. Sorted(items)'
    BY <1>0, <2>2 DEF Filtered, Sorted
  <2> QED BY <1>0, <2>1, <2>2, <2>3, <2>4 DEF IInv, Filtered, MessageFits
<1>6. ASSUME Post \/ PostFails PROVE IInv'
  <2>1. /\ UNCHANGED <<kind, backend, left, due, ticked, sender, unchecked>>
        /\ pc' = "receive" /\ items' = << >> /\ age' = 0 /\ state' = "ok"
        /\ said' \in {said, state}
    BY <1>6 DEF Post, PostFails, Done, fixed, schedule
  <2>2. TypeOK'
    BY <1>0, <2>1 DEF TypeOK
  <2> QED BY <1>0, <2>1, <2>2
          DEF IInv, Filtered, Sorted, Ticking, MessageFits, NoInstantLost
<1>7. ASSUME NEW c \in Certs, Refresh(c) PROVE IInv'
  <2>1. left' \in [Certs -> Left]
    BY <1>0, <1>7 DEF Refresh, Left
  <2>2. UNCHANGED <<kind, backend, due, ticked, sender, pc, items, age, state, said, unchecked>>
    BY <1>7 DEF Refresh, fixed, schedule, check
  <2> QED BY <1>0, <2>1, <2>2
          DEF IInv, TypeOK, Filtered, Sorted, Ticking, MessageFits, NoInstantLost
<1>8. ASSUME UNCHANGED vars PROVE IInv'
  BY <1>8 DEF vars, IInv, TypeOK, Filtered, Ticking, MessageFits, NoInstantLost
<1> QED BY <1>1, <1>2, <1>3, <1>4, <1>5, <1>6, <1>7, <1>8 DEF Next, Goroutines

LEMMA Invariance == Spec => []IInv
BY InitInv, StepInv, PTL DEF Spec

\* Every variable keeps its type: what is listed and filtered is always a
\* sequence of times in the cache's range (notify.go:40-76).
THEOREM NotifierTyped == Spec => []TypeOK
BY Invariance, PTL DEF IInv

\* Whatever time passes while a check filters and posts, its message is true
\* of the data it has read (notify.go:50-58).
THEOREM MessagesFit == Spec => []MessageFits
BY Invariance, PTL DEF IInv

\* However late the schedule goroutine and the checks are, each instant that
\* has passed is followed by a check, or is still in hand (constant.go:28-34,
\* cron.go:35-44).
THEOREM InstantsKept == Spec => []NoInstantLost
BY Invariance, PTL DEF IInv
=============================================================================
