--------------------------- MODULE PopulateProofs ---------------------------
(* What holds of Populate for all paths, secrets and numbers of workers.   *)
EXTENDS Populate, TLAPS, FiniteSetTheorems, SequenceTheorems, WellFoundedInduction

-----------------------------------------------------------------------------
(* Sequences and path lists.                                               *)

LEMMA FunctionIsSeq ==
  ASSUME NEW S, NEW n \in Nat, NEW f \in [1 .. n -> S]
  PROVE  f \in Seq(S) /\ Len(f) = n /\ DOMAIN f = 1 .. n
<1>1. [1 .. n -> S] \in {[1 .. k -> S] : k \in Nat}
  OBVIOUS
<1>2. f \in UNION {[1 .. k -> S] : k \in Nat}
  BY <1>1, Zenon
<1>3. f \in Seq(S)
  BY <1>2, SeqDef, Zenon
<1>4. DOMAIN f = 1 .. n
  OBVIOUS
<1> QED BY <1>3, <1>4

\* The element taken from a list, and those that remain, are the list.
LEMMA HeadAndTail ==
  ASSUME NEW S, NEW s \in Seq(S), s # << >>
  PROVE  /\ Head(s) \in S /\ Tail(s) \in Seq(S) /\ Len(Tail(s)) = Len(s) - 1
         /\ Len(s) \in Nat \ {0} /\ Head(s) = s[1]
         /\ Elements(s) = {Head(s)} \union Elements(Tail(s))
<1>1. /\ Head(s) \in S /\ Tail(s) \in Seq(S) /\ Len(Tail(s)) = Len(s) - 1
      /\ \A i \in 1 .. Len(Tail(s)) : Tail(s)[i] = s[i + 1]
      /\ Len(s) \in Nat \ {0} /\ Head(s) = s[1]
      /\ DOMAIN s = 1 .. Len(s) /\ DOMAIN Tail(s) = 1 .. Len(s) - 1
  BY HeadTailProperties, EmptySeq
<1>2. ASSUME NEW x PROVE x \in Elements(s) <=> x = Head(s) \/ x \in Elements(Tail(s))
  <2>1. ASSUME NEW i \in 1 .. Len(s), x = s[i] PROVE x = Head(s) \/ x \in Elements(Tail(s))
    <3>1. i = 1 \/ (i - 1 \in DOMAIN Tail(s) /\ s[i] = Tail(s)[i - 1])
      BY <1>1
    <3> QED BY <1>1, <2>1, <3>1 DEF Elements
  <2>2. ASSUME NEW i \in DOMAIN Tail(s) PROVE i + 1 \in DOMAIN s /\ Tail(s)[i] = s[i + 1]
    BY <1>1
  <2>3. 1 \in DOMAIN s
    BY <1>1
  <2> QED BY <1>1, <2>1, <2>2, <2>3 DEF Elements
<1> QED BY <1>1, <1>2

LEMMA AppendElements ==
  ASSUME NEW S, NEW s \in Seq(S), NEW e \in S
  PROVE  Append(s, e) \in Seq(S) /\ Len(Append(s, e)) = Len(s) + 1 /\ Append(s, e) # << >>
BY AppendProperties

\* A set of natural numbers has a least element.
LEMMA LeastNat ==
  ASSUME NEW S \in SUBSET Nat, S # {}
  PROVE  \E m \in S : \A n \in S : ~ (n < m)
<1> DEFINE R == OpToRel(<, Nat)
<1>1. \A m, n \in Nat : <<m, n>> \in R <=> m < n
  BY DEF OpToRel
<1>2. IsWellFoundedOn(R, Nat)
  BY NatLessThanWellFounded
<1> HIDE DEF R
<1>3. S \subseteq Nat /\ S # {}
  OBVIOUS
<1>4. \E m \in S : \A n \in S : ~ (<<n, m>> \in R)
  BY <1>2, <1>3, WFMin, Zenon
<1> QED BY <1>1, <1>3, <1>4, Zenon

Ordered(list) == \A i, j \in DOMAIN list : i <= j => list[i] <= list[j]

Rank(list, l) == Cardinality({i \in DOMAIN list : list[i] <= l})

LEMMA RankType ==
  ASSUME NEW list \in Seq(Locations), NEW l \in Locations
  PROVE  Rank(list, l) \in 0 .. Len(list)
<1> DEFINE S == {i \in DOMAIN list : list[i] <= l}
<1>1. S \in SUBSET (1 .. Len(list)) /\ Len(list) \in Nat
  OBVIOUS
<1>2. IsFiniteSet(1 .. Len(list)) /\ Cardinality(1 .. Len(list)) = Len(list)
  BY <1>1, FS_Interval
<1> HIDE DEF S
<1>3. Cardinality(S) \in Nat /\ Cardinality(S) <= Len(list)
  BY <1>1, <1>2, FS_Subset, FS_CardinalityType
<1> QED BY <1>1, <1>3 DEF Rank, S

LEMMA InsertedType ==
  ASSUME NEW list \in Seq(Locations), NEW l \in Locations
  PROVE  /\ Inserted(list, l) \in Seq(Locations)
         /\ Len(Inserted(list, l)) = Len(list) + 1
         /\ DOMAIN Inserted(list, l) = 1 .. Len(list) + 1
         /\ \A i \in 1 .. Len(list) + 1 :
              Inserted(list, l)[i] = IF i <= Rank(list, l) THEN list[i]
                                     ELSE IF i = Rank(list, l) + 1 THEN l ELSE list[i - 1]
<1> DEFINE r == Rank(list, l)
           f == [i \in 1 .. Len(list) + 1 |->
                   IF i <= r THEN list[i] ELSE IF i = r + 1 THEN l ELSE list[i - 1]]
<1>1. r \in 0 .. Len(list) /\ Len(list) \in Nat
  BY RankType
<1>2. Inserted(list, l) = f
  BY DEF Inserted, Rank
<1> HIDE DEF r
<1>3. f \in [1 .. Len(list) + 1 -> Locations]
  BY <1>1
<1>4. \A i \in 1 .. Len(list) + 1 :
        f[i] = IF i <= r THEN list[i] ELSE IF i = r + 1 THEN l ELSE list[i - 1]
  OBVIOUS
<1> HIDE DEF f
<1>5. f \in Seq(Locations) /\ Len(f) = Len(list) + 1 /\ DOMAIN f = 1 .. Len(list) + 1
  BY <1>1, <1>3, FunctionIsSeq
<1> QED BY <1>2, <1>4, <1>5 DEF r

LEMMA InsertedElements ==
  ASSUME NEW list \in Seq(Locations), NEW l \in Locations
  PROVE  Elements(Inserted(list, l)) = Elements(list) \union {l}
<1> DEFINE f == Inserted(list, l)
           r == Rank(list, l)
<1>a. r \in 0 .. Len(list) /\ Len(list) \in Nat /\ DOMAIN list = 1 .. Len(list)
  BY RankType
<1>b. /\ DOMAIN f = 1 .. Len(list) + 1
      /\ \A i \in 1 .. Len(list) + 1 :
           f[i] = IF i <= r THEN list[i] ELSE IF i = r + 1 THEN l ELSE list[i - 1]
  BY InsertedType, Zenon
<1> HIDE DEF f, r
<1>1. /\ r \in 0 .. Len(list) /\ Len(list) \in Nat
      /\ DOMAIN f = 1 .. Len(list) + 1 /\ DOMAIN list = 1 .. Len(list)
      /\ \A i \in 1 .. Len(list) + 1 :
           f[i] = IF i <= r THEN list[i] ELSE IF i = r + 1 THEN l ELSE list[i - 1]
  BY <1>a, <1>b, Zenon
<1>2. ASSUME NEW i \in DOMAIN f PROVE f[i] \in Elements(list) \union {l}
  BY <1>1 DEF Elements
<1>3. l \in Elements(f)
  <2>1. r + 1 \in DOMAIN f /\ f[r + 1] = l
    BY <1>1
  <2> QED BY <2>1 DEF Elements
<1>4. ASSUME NEW i \in DOMAIN list PROVE list[i] \in Elements(f)
  <2>1. i \in DOMAIN f /\ i + 1 \in DOMAIN f /\ (i <= r \/ (~(i + 1 <= r) /\ i + 1 # r + 1))
    BY <1>1
  <2>2. f[i] = list[i] \/ f[i + 1] = list[i]
    BY <1>1, <2>1
  <2> QED BY <2>1, <2>2 DEF Elements
<1>5. \A x : x \in Elements(f) <=> x \in Elements(list) \union {l}
  BY <1>2, <1>3, <1>4 DEF Elements
<1> QED BY <1>5 DEF f

LEMMA MergeType ==
  ASSUME NEW list \in Seq(Locations), NEW l \in Locations
  PROVE  /\ Merge(list, l) \in Seq(Locations)
         /\ Elements(Merge(list, l)) = Elements(list) \union {l}
         /\ Len(Merge(list, l)) <= Len(list) + 1
<1>1. CASE list # << >> /\ Head(list) = l
  <2>1. Merge(list, l) = list
    BY <1>1 DEF Merge
  <2>2. l \in Elements(list) /\ Len(list) \in Nat
    BY <1>1, HeadAndTail
  <2> QED BY <2>1, <2>2
<1>2. CASE ~(list # << >> /\ Head(list) = l)
  <2>1. Merge(list, l) = Inserted(list, l) /\ Len(list) \in Nat
    BY <1>2 DEF Merge
  <2>2. Len(Inserted(list, l)) <= Len(list) + 1
    BY <2>1, InsertedType
  <2> QED BY <2>1, <2>2, InsertedType, InsertedElements
<1> QED BY <1>1, <1>2

-----------------------------------------------------------------------------
(* The invariant that every other proof of this module rests on.           *)

\* The barrier counts the workers that have been started and have not ended.
Barrier == barrier = Cardinality({w \in Workers : pc[w] # "off"})

\* Only a worker that merges has something to merge.
Merging == \A w \in Workers : pc[w] # "merge" => finds[w] = << >>

\* While paths wait, some worker will ask for another one.
Served == queue # << >> => \E w \in Workers : pc[w] \in {"receive", "get", "merge"}

Idle == phase = "idle" => \A w \in Workers : pc[w] = "off"

IInv == TypeOK /\ Barrier /\ Merging /\ Served /\ Idle

LEMMA WorkersFinite ==
  /\ MaxWorkers \in Nat \ {0} /\ IsFiniteSet(Workers) /\ 1 \in Workers
  /\ \A S : S \subseteq Workers => IsFiniteSet(S) /\ Cardinality(S) \in Nat
<1>1. MaxWorkers \in Nat \ {0}
  BY PopulateAssumption DEF MaxWorkers
<1>2. IsFiniteSet(Workers)
  BY <1>1, FS_Interval DEF Workers
<1>3. ASSUME NEW S, S \subseteq Workers PROVE IsFiniteSet(S) /\ Cardinality(S) \in Nat
  BY <1>2, <1>3, FS_Subset, FS_CardinalityType
<1> QED BY <1>1, <1>2, <1>3 DEF Workers

LEMMA NumWorkersBound ==
  ASSUME NEW S, NEW list \in Seq(S)
  PROVE  /\ NumWorkers(list) \in 0 .. MaxWorkers
         /\ list # << >> => NumWorkers(list) >= 1
         /\ Len(list) \in Nat
BY WorkersFinite, EmptySeq DEF NumWorkers

\* The workers that are not off, of those that one leaves.
LEMMA WorkerLeaves ==
  ASSUME TypeOK, Barrier, NEW w \in Workers, pc[w] # "off",
         pc' = [pc EXCEPT ![w] = "off"]
  PROVE  barrier - 1 \in Nat /\ barrier - 1 = Cardinality({v \in Workers : pc'[v] # "off"})
<1> DEFINE On == {v \in Workers : pc[v] # "off"}
<1>1. IsFiniteSet(On) /\ w \in On
  BY WorkersFinite
<1>2. {v \in Workers : pc'[v] # "off"} = On \ {w}
  BY DEF TypeOK
<1> HIDE DEF On
<1>3. Cardinality(On \ {w}) = Cardinality(On) - 1 /\ IsFiniteSet(On \ {w})
  BY <1>1, FS_RemoveElement
<1>4. Cardinality(On \ {w}) \in Nat
  BY <1>3, FS_CardinalityType
<1>5. barrier = Cardinality(On)
  BY DEF Barrier, On
<1> QED BY <1>2, <1>3, <1>4, <1>5

\* A worker that goes on is counted as before.
LEMMA WorkerStays ==
  ASSUME TypeOK, Barrier, NEW w \in Workers, pc[w] # "off", NEW next, next # "off",
         pc' = [pc EXCEPT ![w] = next], barrier' = barrier
  PROVE  Barrier'
<1>1. {v \in Workers : pc'[v] # "off"} = {v \in Workers : pc[v] # "off"}
  BY DEF TypeOK
<1> QED BY <1>1 DEF Barrier

LEMMA NewCacheType ==
  ASSUME TypeOK, NEW w \in Workers, MergeCert(w)
  PROVE  /\ Head(finds[w]) \in Certs \X Locations /\ Tail(finds[w]) \in Seq(Certs \X Locations)
         /\ newCache' \in [Certs -> Seq(Locations)]
         /\ finds' \in [Workers -> Seq(Certs \X Locations)]
         /\ Elements(finds[w]) = {Head(finds[w])} \union Elements(finds'[w])
         /\ \A c \in Certs :
              /\ c # Head(finds[w])[1] => newCache'[c] = newCache[c]
              /\ c = Head(finds[w])[1] => newCache'[c] = Merge(newCache[c], Head(finds[w])[2])
         /\ \A v \in Workers : v # w => finds'[v] = finds[v]
         /\ finds'[w] = Tail(finds[w])
<1>1. finds[w] \in Seq(Certs \X Locations) /\ finds[w] # << >>
  BY DEF TypeOK, MergeCert
<1>2. /\ Head(finds[w]) \in Certs \X Locations /\ Tail(finds[w]) \in Seq(Certs \X Locations)
      /\ Elements(finds[w]) = {Head(finds[w])} \union Elements(Tail(finds[w]))
  BY <1>1, HeadAndTail
<1> DEFINE c0 == Head(finds[w])[1]
           l0 == Head(finds[w])[2]
<1>3. c0 \in Certs /\ l0 \in Locations
  BY <1>2
<1>4. newCache' = [newCache EXCEPT ![c0] = Merge(@, l0)] /\ finds' = [finds EXCEPT ![w] = Tail(@)]
  BY DEF MergeCert
<1> HIDE DEF c0, l0
<1>5. newCache[c0] \in Seq(Locations) /\ Merge(newCache[c0], l0) \in Seq(Locations)
  BY <1>3, MergeType DEF TypeOK
<1>6. newCache' \in [Certs -> Seq(Locations)] /\ finds' \in [Workers -> Seq(Certs \X Locations)]
  BY <1>2, <1>3, <1>4, <1>5 DEF TypeOK
<1>7. finds'[w] = Tail(finds[w]) /\ \A v \in Workers : v # w => finds'[v] = finds[v]
  BY <1>4 DEF TypeOK
<1>8. \A c \in Certs : /\ c # c0 => newCache'[c] = newCache[c]
                       /\ c = c0 => newCache'[c] = Merge(newCache[c], l0)
  BY <1>4 DEF TypeOK
<1> QED BY <1>2, <1>6, <1>7, <1>8 DEF c0, l0

\* A worker counts one more path or certificate.
LEMMA OneMore ==
  ASSUME TypeOK, NEW w \in Workers
  PROVE  /\ mine' = [mine EXCEPT ![w].certs = @ + 1] =>
              /\ mine' \in [Workers -> Counts]
              /\ mine'[w].certs = mine[w].certs + 1 /\ mine'[w].success = mine[w].success
              /\ \A v \in Workers : v # w => mine'[v] = mine[v]
         /\ mine' = [mine EXCEPT ![w].success = @ + 1] =>
              /\ mine' \in [Workers -> Counts]
              /\ mine'[w].success = mine[w].success + 1 /\ mine'[w].certs = mine[w].certs
              /\ \A v \in Workers : v # w => mine'[v] = mine[v]
<1>1. mine \in [Workers -> Counts] /\ mine[w] \in Counts
  BY DEF TypeOK
<1> DEFINE cert == [success |-> mine[w].success, certs |-> mine[w].certs + 1]
           path1 == [success |-> mine[w].success + 1, certs |-> mine[w].certs]
<1>2. mine[w].success \in Nat /\ mine[w].certs \in Nat /\ cert \in Counts /\ path1 \in Counts
  BY <1>1 DEF Counts
<1>3. ASSUME mine' = [mine EXCEPT ![w].certs = @ + 1] PROVE mine' = [mine EXCEPT ![w] = cert]
  <2>1. [mine[w] EXCEPT !.certs = mine[w].certs + 1] = cert
    BY <1>1 DEF Counts
  <2> QED BY <1>3, <2>1
<1>4. ASSUME mine' = [mine EXCEPT ![w].success = @ + 1] PROVE mine' = [mine EXCEPT ![w] = path1]
  <2>1. [mine[w] EXCEPT !.success = mine[w].success + 1] = path1
    BY <1>1 DEF Counts
  <2> QED BY <1>4, <2>1
<1>5. cert.certs = mine[w].certs + 1 /\ cert.success = mine[w].success
      /\ path1.success = mine[w].success + 1 /\ path1.certs = mine[w].certs
  OBVIOUS
<1> HIDE DEF cert, path1
<1> QED BY <1>1, <1>2, <1>3, <1>4, <1>5

LEMMA InitInv == Init => IInv
<1> SUFFICES ASSUME Init PROVE IInv
  OBVIOUS
<1>1. TypeOK
  BY DEF Init, TypeOK, Empty, NoCount, Counts
<1>2. {w \in Workers : pc[w] # "off"} = {}
  BY DEF Init
<1>3. Barrier
  BY <1>2, FS_EmptySet DEF Init, Barrier
<1> QED BY <1>1, <1>3 DEF Init, IInv, Merging, Served, Idle

LEMMA StartInv == IInv /\ Start => IInv'
<1> SUFFICES ASSUME IInv, Start PROVE IInv'
  OBVIOUS
<1> USE DEF IInv
<1>1. PICK list \in Listings :
        /\ paths' = list /\ queue' = list /\ barrier' = NumWorkers(list)
        /\ pc' = [w \in Workers |-> IF w <= NumWorkers(list) THEN "receive" ELSE "off"]
  BY DEF Start
<1>2. list \in Seq(DOMAIN Secrets)
  BY PopulateAssumption
<1>3. NumWorkers(list) \in 0 .. MaxWorkers /\ (list # << >> => NumWorkers(list) >= 1)
  BY <1>2, NumWorkersBound
<1>4. TypeOK'
  <2>1. pc' \in [Workers -> {"off", "receive", "get", "merge", "count"}] /\ barrier' \in Nat
    BY <1>1, <1>3, WorkersFinite
  <2>2. newCache' \in [Certs -> Seq(Locations)] /\ mine' \in [Workers -> Counts]
        /\ stats' \in Counts /\ errors' \in Seq(DOMAIN Secrets)
    BY DEF Start, Empty, NoCount, Counts
  <2> QED BY <1>1, <1>2, <2>1, <2>2 DEF TypeOK, Start
<1>5. {w \in Workers : pc'[w] # "off"} = 1 .. NumWorkers(list)
  BY <1>1, <1>3, WorkersFinite DEF Workers
<1>6. Barrier'
  <2>1. Cardinality(1 .. NumWorkers(list)) = NumWorkers(list)
    BY <1>3, FS_Interval
  <2> QED BY <1>1, <1>5, <2>1 DEF Barrier
<1>7. Merging'
  BY DEF Start, Merging, Idle
<1>8. Served'
  BY <1>1, <1>3, WorkersFinite DEF Served
<1> QED BY <1>4, <1>6, <1>7, <1>8 DEF Start, Idle

LEMMA ReturnInv == IInv /\ Return => IInv'
<1> SUFFICES ASSUME IInv, Return PROVE IInv'
  OBVIOUS
<1> DEFINE On == {w \in Workers : pc[w] # "off"}
<1>1. On = {}
  <2>1. IsFiniteSet(On) /\ Cardinality(On) = 0
    BY WorkersFinite DEF IInv, Barrier, Return
  <2> QED BY <2>1, FS_EmptySet
<1>2. TypeOK' /\ Barrier' /\ Merging' /\ Served'
  BY DEF IInv, TypeOK, Barrier, Merging, Served, Return
<1> QED BY <1>1, <1>2 DEF IInv, Idle, Return

LEMMA StepInv ==
  ASSUME IInv, NEW w \in Workers, Step(w)
  PROVE  IInv'
<1> USE DEF IInv
<1>0. pc[w] # "off" /\ phase' = phase /\ phase # "idle"
  BY DEF Step, Receive, GetFails, GetSucceeds, MergeCert, SecretDone, Count, caller, Idle
<1>1. ASSUME Receive(w) PROVE IInv'
  <2>1. CASE queue = << >>
    <3>1. /\ pc' = [pc EXCEPT ![w] = "count"] /\ barrier' = barrier
          /\ UNCHANGED <<cache, phase, paths, newCache, path, queue, finds, mine, stats, errors>>
      BY <1>1, <2>1 DEF Receive, caller
    <3>2. TypeOK'
      BY <3>1 DEF TypeOK
    <3>3. Barrier'
      BY <1>0, <3>1, WorkerStays
    <3> QED BY <1>0, <1>1, <2>1, <3>1, <3>2, <3>3 DEF Receive, Merging, Served, Idle, TypeOK
  <2>2. CASE queue # << >>
    <3>1. /\ pc' = [pc EXCEPT ![w] = "get"] /\ barrier' = barrier
          /\ path' = [path EXCEPT ![w] = Head(queue)] /\ queue' = Tail(queue)
          /\ UNCHANGED <<cache, phase, paths, newCache, finds, mine, stats, errors>>
      BY <1>1, <2>2 DEF Receive, caller
    <3>2. Head(queue) \in DOMAIN Secrets /\ Tail(queue) \in Seq(DOMAIN Secrets)
      BY <2>2, HeadAndTail DEF TypeOK
    <3>3. TypeOK'
      BY <3>1, <3>2 DEF TypeOK
    <3>4. Barrier'
      BY <1>0, <3>1, WorkerStays
    <3>5. pc'[w] = "get"
      BY <3>1 DEF TypeOK
    <3> QED BY <1>0, <1>1, <3>1, <3>3, <3>4, <3>5 DEF Receive, Merging, Served, Idle, TypeOK
  <2> QED BY <2>1, <2>2
<1>2. ASSUME GetFails(w) PROVE IInv'
  <2>1. /\ pc' = [pc EXCEPT ![w] = "receive"] /\ barrier' = barrier
        /\ errors' = Append(errors, path[w])
        /\ UNCHANGED <<cache, phase, paths, newCache, queue, path, finds, mine, stats>>
    BY <1>2 DEF GetFails, caller
  <2>2. TypeOK'
    BY <2>1, AppendElements DEF TypeOK
  <2>3. Barrier'
    BY <1>0, <2>1, WorkerStays
  <2>4. pc'[w] = "receive"
    BY <2>1 DEF TypeOK
  <2> QED BY <1>0, <1>2, <2>1, <2>2, <2>3, <2>4 DEF GetFails, Merging, Served, Idle, TypeOK
<1>3. ASSUME GetSucceeds(w) PROVE IInv'
  <2>1. PICK secret \in Secrets[path[w]] : finds' = [finds EXCEPT ![w] = secret]
    BY <1>3 DEF GetSucceeds
  <2>2. /\ pc' = [pc EXCEPT ![w] = "merge"] /\ barrier' = barrier
        /\ UNCHANGED <<cache, phase, paths, newCache, queue, path, mine, stats, errors>>
    BY <1>3 DEF GetSucceeds, caller
  <2>3. secret \in Seq(Certs \X Locations)
    BY PopulateAssumption DEF TypeOK
  <2>4. TypeOK'
    BY <2>1, <2>2, <2>3 DEF TypeOK
  <2>5. Barrier'
    BY <1>0, <2>2, WorkerStays
  <2>6. pc'[w] = "merge"
    BY <2>2 DEF TypeOK
  <2>7. Merging'
    BY <2>1, <2>2, <2>6 DEF Merging, TypeOK
  <2> QED BY <1>0, <2>2, <2>4, <2>5, <2>6, <2>7 DEF Served, Idle
<1>4. ASSUME MergeCert(w) PROVE IInv'
  <2>1. UNCHANGED <<cache, phase, paths, queue, pc, path, stats, errors, barrier>>
        /\ mine' = [mine EXCEPT ![w].certs = @ + 1] /\ pc[w] = "merge"
    BY <1>4 DEF MergeCert, caller
  <2>2. mine' \in [Workers -> Counts]
    BY <2>1, OneMore
  <2>3. TypeOK'
    BY <1>4, <2>1, <2>2, NewCacheType DEF TypeOK
  <2>4. Merging'
    BY <1>4, <2>1, NewCacheType DEF Merging
  <2> QED BY <2>1, <2>3, <2>4 DEF Barrier, Served, Idle
<1>5. ASSUME SecretDone(w) PROVE IInv'
  <2>1. /\ pc' = [pc EXCEPT ![w] = "receive"] /\ barrier' = barrier
        /\ mine' = [mine EXCEPT ![w].success = @ + 1] /\ finds[w] = << >>
        /\ UNCHANGED <<cache, phase, paths, newCache, queue, path, finds, stats, errors>>
    BY <1>5 DEF SecretDone, caller
  <2>2. mine' \in [Workers -> Counts]
    BY <2>1, OneMore
  <2>3. TypeOK'
    BY <2>1, <2>2 DEF TypeOK
  <2>4. Barrier'
    BY <1>0, <2>1, WorkerStays
  <2>5. pc'[w] = "receive"
    BY <2>1 DEF TypeOK
  <2> QED BY <1>0, <2>1, <2>3, <2>4, <2>5 DEF Merging, Served, Idle, TypeOK
<1>6. ASSUME Count(w) PROVE IInv'
  <2>1. /\ pc[w] = "count" /\ pc' = [pc EXCEPT ![w] = "off"] /\ barrier' = barrier - 1
        /\ stats' = [success |-> stats.success + mine[w].success,
                     certs |-> stats.certs + mine[w].certs]
        /\ UNCHANGED <<cache, phase, paths, newCache, queue, path, finds, mine, errors>>
    BY <1>6 DEF Count, caller
  <2>2. stats' \in Counts
    BY <2>1 DEF TypeOK, Counts
  <2>3. barrier' \in Nat /\ Barrier'
    BY <1>0, <2>1, WorkerLeaves DEF Barrier
  <2>4. TypeOK'
    BY <2>1, <2>2, <2>3 DEF TypeOK
  <2>5. Merging' /\ Idle'
    BY <1>0, <2>1 DEF Merging, Idle, TypeOK
  <2>6. Served'
    BY <2>1 DEF Served, TypeOK
  <2> QED BY <2>3, <2>4, <2>5, <2>6
<1> QED BY <1>1, <1>2, <1>3, <1>4, <1>5, <1>6 DEF Step

LEMMA Invariance == Spec => []IInv
<1>1. IInv /\ [Next]_vars => IInv'
  <2> SUFFICES ASSUME IInv, [Next]_vars PROVE IInv'
    OBVIOUS
  <2>1. CASE UNCHANGED vars
    BY <2>1 DEF vars, caller, IInv, TypeOK, Barrier, Merging, Served, Idle
  <2> QED BY <2>1, StartInv, ReturnInv, StepInv DEF Next
<1> QED BY <1>1, InitInv, PTL DEF Spec

\* The state has its type and the counter of the barrier, above all, is
\* never negative: the WaitGroup would panic (core.go:71-76, 139-140).
THEOREM TypeCorrect == Spec => []TypeOK
BY Invariance, PTL DEF IInv

-----------------------------------------------------------------------------
(* Populate implements AtomicFetch, step by step.                          *)

Waiting == {w \in Workers : pc[w] = "get"}

LEMMA UnansweredType ==
  ASSUME TypeOK
  PROVE  /\ IsFiniteSet(Waiting) /\ Cardinality(Waiting) \in Nat
         /\ Len(queue) \in Nat /\ Unanswered = Len(queue) + Cardinality(Waiting)
         /\ Unanswered \in Nat
         /\ \A w \in Waiting : Unanswered > 0
<1>1. IsFiniteSet(Waiting) /\ Cardinality(Waiting) \in Nat
  BY WorkersFinite DEF Waiting
<1>2. Len(queue) \in Nat
  BY DEF TypeOK
<1>3. Unanswered = Len(queue) + Cardinality(Waiting)
  BY DEF Unanswered, Waiting
<1>4. \A w \in Waiting : Cardinality(Waiting) # 0
  BY <1>1, FS_EmptySet
<1> QED BY <1>1, <1>2, <1>3, <1>4

\* A worker that is answered waits no more.
LEMMA AnsweredLeaves ==
  ASSUME TypeOK, TypeOK', NEW w \in Workers, pc[w] = "get", queue' = queue,
         NEW next, next # "get", pc' = [pc EXCEPT ![w] = next]
  PROVE  Unanswered > 0 /\ Unanswered' = Unanswered - 1
<1>1. w \in Waiting /\ Waiting' = Waiting \ {w}
  BY DEF Waiting, TypeOK
<1>2. Cardinality(Waiting \ {w}) = Cardinality(Waiting) - 1
  BY <1>1, UnansweredType, FS_RemoveElement
<1>3. Unanswered' = Len(queue) + Cardinality(Waiting')
  BY DEF Unanswered, Waiting
<1> QED BY <1>1, <1>2, <1>3, UnansweredType

LEMMA FoundNothing ==
  ASSUME IInv, \A w \in Workers : pc[w] = "off"
  PROVE  /\ Findings = {f \in Certs \X Locations : f[2] \in Elements(newCache[f[1]])}
         /\ \A c \in Certs : Elements(newCache[c]) = {l \in Locations : <<c, l>> \in Findings}
<1>1. \A w \in Workers : Elements(finds[w]) = {}
  BY DEF IInv, Merging, Elements
<1>2. Findings = {f \in Certs \X Locations : f[2] \in Elements(newCache[f[1]])}
  BY <1>1 DEF Findings
<1>3. \A c \in Certs : Elements(newCache[c]) \subseteq Locations
  BY DEF IInv, TypeOK, Elements
<1>4. ASSUME NEW c \in Certs
      PROVE  Elements(newCache[c]) = {l \in Locations : <<c, l>> \in Findings}
  BY <1>2, <1>3
<1> QED BY <1>2, <1>4

LEMMA EachIn ==
  ASSUME NEW f
  PROVE  f \in Findings <=>
           \/ f \in Certs \X Locations /\ f[2] \in Elements(newCache[f[1]])
           \/ \E w \in Workers : f \in Elements(finds[w])
BY DEF Findings

LEMMA FetchInit == Init => Fetch!Init
<1> SUFFICES ASSUME Init PROVE Fetch!Init
  OBVIOUS
<1>1. Elements(<< >>) = {}
  BY DEF Elements
<1>2. [c \in Certs |-> Elements(cache[c])] = [c \in Certs |-> {}]
  BY <1>1 DEF Init, Empty
<1>3. Cardinality({w \in Workers : pc[w] = "get"}) = 0
  <2>1. {w \in Workers : pc[w] = "get"} = {}
    BY DEF Init
  <2> QED BY <2>1, FS_EmptySet, Zenon
<1>4. Unanswered = 0
  <2>1. queue = << >>
    BY DEF Init
  <2>2. Len(queue) = 0
    BY <2>1, EmptySeq
  <2> QED BY <1>3, <2>2 DEF Unanswered
<1>5. Findings = {}
  BY <1>1, EachIn DEF Init, Empty
<1> QED BY <1>2, <1>4, <1>5 DEF Init, Fetch!Init

LEMMA StartBegins ==
  ASSUME IInv, IInv', Start
  PROVE  Fetch!Begin
<1>1. Unanswered' \in Nat
  <2>1. {w \in Workers : pc'[w] = "get"} = {} /\ queue' \in Seq(DOMAIN Secrets)
    BY DEF Start, IInv, TypeOK
  <2>2. Len(queue') \in Nat
    BY <2>1
  <2>3. Cardinality({w \in Workers : pc'[w] = "get"}) = 0
    BY <2>1, FS_EmptySet, Zenon
  <2> QED BY <2>2, <2>3 DEF Unanswered
<1>2. Findings' = {}
  <2>1. \A w \in Workers : Elements(finds'[w]) = {}
    BY DEF Start, IInv, Merging, Idle, Elements
  <2>2. \A c \in Certs : Elements(newCache'[c]) = {}
    BY DEF Start, Empty, Elements
  <2> QED BY <2>1, <2>2 DEF Findings
<1> QED BY <1>1, <1>2 DEF Start, Fetch!Begin

LEMMA GetFailsRefused ==
  ASSUME IInv, IInv', NEW w \in Workers, GetFails(w)
  PROVE  Fetch!Refused
<1>1. Unanswered > 0 /\ Unanswered' = Unanswered - 1
  BY AnsweredLeaves DEF GetFails, IInv
<1>2. (errors # << >>)'
  <2>1. errors \in Seq(DOMAIN Secrets) /\ path[w] \in DOMAIN Secrets
    BY DEF IInv, TypeOK
  <2> QED BY <2>1, AppendElements DEF GetFails
<1>3. Findings' = Findings
  BY DEF Findings, GetFails
<1>4. phase = "fetching" /\ phase' = phase /\ cache' = cache
  BY DEF GetFails, caller, IInv, Idle, TypeOK
<1> QED BY <1>1, <1>2, <1>3, <1>4 DEF Fetch!Refused

LEMMA GetSucceedsFound ==
  ASSUME IInv, IInv', NEW w \in Workers, GetSucceeds(w)
  PROVE  Fetch!Found
<1>1. Unanswered > 0 /\ Unanswered' = Unanswered - 1
  BY AnsweredLeaves DEF GetSucceeds, IInv
<1>2. PICK secret \in Secrets[path[w]] : finds' = [finds EXCEPT ![w] = secret]
  BY DEF GetSucceeds
<1>3. secret \in Seq(Certs \X Locations)
  BY PopulateAssumption DEF IInv, TypeOK
<1>4. Elements(secret) \in SUBSET (Certs \X Locations)
  BY <1>3 DEF Elements
<1>5. Elements(finds[w]) = {}
  BY DEF IInv, Merging, GetSucceeds, Elements
<1>6. finds'[w] = secret /\ \A v \in Workers : v # w => finds'[v] = finds[v]
  BY <1>2 DEF IInv, TypeOK
<1>7. newCache' = newCache
  BY DEF GetSucceeds
<1>8. ASSUME NEW f PROVE f \in Findings' <=> f \in Findings \/ f \in Elements(secret)
  <2>1. f \in Findings' <=>
           \/ f \in Certs \X Locations /\ f[2] \in Elements(newCache[f[1]])
           \/ \E v \in Workers : f \in Elements(finds'[v])
    BY <1>7 DEF Findings
  <2>2. (\E v \in Workers : f \in Elements(finds'[v])) <=>
           \/ \E v \in Workers : f \in Elements(finds[v])
           \/ f \in Elements(secret)
    BY <1>5, <1>6
  <2> QED BY <2>1, <2>2, EachIn
<1>9. Findings' = Findings \union Elements(secret)
  BY <1>8
<1>10. phase = "fetching" /\ phase' = phase /\ cache' = cache /\ errors' = errors
  BY DEF GetSucceeds, caller, IInv, Idle, TypeOK
<1> QED BY <1>1, <1>4, <1>9, <1>10 DEF Fetch!Found

LEMMA ReturnEnds ==
  ASSUME IInv, Return
  PROVE  Fetch!End
<1>1. \A w \in Workers : pc[w] = "off"
  <2> DEFINE On == {w \in Workers : pc[w] # "off"}
  <2>1. IsFiniteSet(On) /\ Cardinality(On) = 0
    BY WorkersFinite DEF IInv, Barrier, Return
  <2> QED BY <2>1, FS_EmptySet
<1>2. Unanswered = 0
  <2>1. queue = << >> /\ Waiting = {}
    BY <1>1 DEF IInv, Served, Waiting
  <2> QED BY <2>1, FS_EmptySet DEF Unanswered, Waiting
<1>3. \A c \in Certs : Elements(newCache[c]) = {l \in Locations : <<c, l>> \in Findings}
  BY <1>1, FoundNothing
<1>4. [c \in Certs |-> Elements(cache'[c])] =
        IF errors # << >> THEN [c \in Certs |-> Elements(cache[c])]
        ELSE [c \in Certs |-> {l \in Locations : <<c, l>> \in Findings}]
  BY <1>3 DEF Return
<1>5. Unanswered' = Unanswered /\ Findings' = Findings
  BY DEF Return, Unanswered, Findings
<1> QED BY <1>2, <1>4, <1>5 DEF Return, Fetch!End

\* The other steps of a worker change nothing that AtomicFetch speaks of.
LEMMA WorkerStutters ==
  ASSUME IInv, IInv', NEW w \in Workers,
         Receive(w) \/ MergeCert(w) \/ SecretDone(w) \/ Count(w)
  PROVE  UNCHANGED Fetch!vars
<1>1. UNCHANGED <<cache, phase, errors>>
  BY DEF Receive, MergeCert, SecretDone, Count, caller
<1>2. Unanswered' = Unanswered
  <2>1. CASE Receive(w) /\ queue # << >>
    <3>1. w \notin Waiting /\ Waiting' = Waiting \union {w}
      BY <2>1 DEF Receive, Waiting, IInv, TypeOK
    <3>2. Cardinality(Waiting') = Cardinality(Waiting) + 1
      BY <3>1, UnansweredType, FS_AddElement DEF IInv
    <3>3. Len(queue') = Len(queue) - 1 /\ Len(queue) \in Nat
      BY <2>1, HeadAndTail DEF Receive, IInv, TypeOK
    <3>4. Unanswered' = Len(queue') + Cardinality(Waiting')
      BY DEF Unanswered, Waiting
    <3> QED BY <3>2, <3>3, <3>4, UnansweredType DEF IInv
  <2>2. CASE ~(Receive(w) /\ queue # << >>)
    <3>1. queue' = queue /\ {v \in Workers : pc'[v] = "get"} = {v \in Workers : pc[v] = "get"}
      BY <2>2 DEF Receive, MergeCert, SecretDone, Count, IInv, TypeOK
    <3> QED BY <3>1 DEF Unanswered
  <2> QED BY <2>1, <2>2
<1>3. Findings' = Findings
  <2>1. CASE MergeCert(w)
    <3> DEFINE h == Head(finds[w])
    <3>1. /\ h \in Certs \X Locations
          /\ Elements(finds[w]) = {h} \union Elements(finds'[w])
          /\ \A c \in Certs : /\ c # h[1] => newCache'[c] = newCache[c]
                              /\ c = h[1] => newCache'[c] = Merge(newCache[c], h[2])
          /\ \A v \in Workers : v # w => finds'[v] = finds[v]
      BY <2>1, NewCacheType DEF IInv
    <3> HIDE DEF h
    <3>2. \A c \in Certs : Elements(newCache'[c]) =
                             Elements(newCache[c]) \union (IF c = h[1] THEN {h[2]} ELSE {})
      <4> SUFFICES ASSUME NEW c \in Certs
                   PROVE Elements(newCache'[c]) =
                           Elements(newCache[c]) \union (IF c = h[1] THEN {h[2]} ELSE {})
        OBVIOUS
      <4>1. newCache[c] \in Seq(Locations) /\ h[2] \in Locations
        BY <3>1 DEF IInv, TypeOK
      <4> QED BY <3>1, <4>1, MergeType
    <3>3. ASSUME NEW f \in Certs \X Locations
          PROVE  f[2] \in Elements(newCache'[f[1]]) <=> f[2] \in Elements(newCache[f[1]]) \/ f = h
      BY <3>1, <3>2
    <3>4. ASSUME NEW f
          PROVE (\E v \in Workers : f \in Elements(finds[v])) <=>
                  f = h \/ \E v \in Workers : f \in Elements(finds'[v])
      BY <3>1
    <3>5. ASSUME NEW f PROVE f \in Findings' <=> f \in Findings
      <4>1. f \in Findings' <=>
              \/ f \in Certs \X Locations /\ f[2] \in Elements(newCache'[f[1]])
              \/ \E v \in Workers : f \in Elements(finds'[v])
        BY DEF Findings
      <4>2. CASE f \in Certs \X Locations
        BY <3>3, <3>4, <4>1, <4>2, EachIn
      <4>3. CASE f \notin Certs \X Locations
        BY <3>1, <3>4, <4>1, <4>3, EachIn
      <4> QED BY <4>2, <4>3
    <3> QED BY <3>5 DEF Findings
  <2>2. CASE ~MergeCert(w)
    BY <2>2 DEF Receive, SecretDone, Count, Findings
  <2> QED BY <2>1, <2>2
<1> QED BY <1>1, <1>2, <1>3 DEF Fetch!vars

\* However many workers interleave however they like, Populate is one atomic
\* fetch: nothing of a refresh shows in the cache before all of it does, and
\* nothing does after an error (core.go:41-55, 144).
THEOREM FetchIsAtomic == Spec => ImplementsAtomicFetch
<1>1. IInv /\ IInv' /\ [Next]_vars => [Fetch!Next]_(Fetch!vars)
  <2> SUFFICES ASSUME IInv, IInv', [Next]_vars PROVE Fetch!Next \/ UNCHANGED Fetch!vars
    OBVIOUS
  <2>1. CASE Start
    BY <2>1, StartBegins DEF Fetch!Next
  <2>2. CASE Return
    BY <2>2, ReturnEnds DEF Fetch!Next
  <2>3. CASE \E w \in Workers : Step(w)
    <3>1. PICK w \in Workers : Step(w)
      BY <2>3
    <3>2. CASE GetFails(w)
      BY <3>2, GetFailsRefused DEF Fetch!Next
    <3>3. CASE GetSucceeds(w)
      BY <3>3, GetSucceedsFound DEF Fetch!Next
    <3>4. CASE Receive(w) \/ MergeCert(w) \/ SecretDone(w) \/ Count(w)
      BY <3>4, WorkerStutters
    <3> QED BY <3>1, <3>2, <3>3, <3>4 DEF Step
  <2>4. CASE UNCHANGED vars
    BY <2>4 DEF vars, caller, Fetch!vars, Unanswered, Findings
  <2> QED BY <2>1, <2>2, <2>3, <2>4 DEF Next
<1> QED BY <1>1, FetchInit, Invariance, PTL DEF Spec, ImplementsAtomicFetch, Fetch!Spec

-----------------------------------------------------------------------------
(* What the workers count.                                                 *)

\* s[i] is the sum of g[1], ..., g[i].
Sums(g, s) ==
  /\ s \in [0 .. MaxWorkers -> Int] /\ s[0] = 0
  /\ \A i \in Workers : s[i] = s[i - 1] + g[i]

\* The total over all workers is n.
Total(g, n) == \E s \in [0 .. MaxWorkers -> Int] : Sums(g, s) /\ n = s[MaxWorkers]

\* When one summand changes so does the total.
LEMMA OneSummand ==
  ASSUME NEW g \in [Workers -> Int], NEW h \in [Workers -> Int], NEW w \in Workers,
         \A v \in Workers : v # w => h[v] = g[v],
         NEW n \in Int, Total(g, n)
  PROVE  Total(h, n + (h[w] - g[w]))
<1>1. PICK s \in [0 .. MaxWorkers -> Int] : Sums(g, s) /\ n = s[MaxWorkers]
  BY DEF Total
<1> DEFINE d == h[w] - g[w]
           t == [i \in 0 .. MaxWorkers |-> IF i < w THEN s[i] ELSE s[i] + d]
<1>2. MaxWorkers \in Nat \ {0} /\ w \in 1 .. MaxWorkers /\ d \in Int
  BY WorkersFinite DEF Workers
<1>3. h[w] = g[w] + d
  OBVIOUS
<1> HIDE DEF d
<1>4. t \in [0 .. MaxWorkers -> Int] /\ t[0] = 0 /\ t[MaxWorkers] = n + d
  BY <1>1, <1>2 DEF Sums
<1>5. ASSUME NEW i \in Workers PROVE t[i] = t[i - 1] + h[i]
  <2>1. i \in 1 .. MaxWorkers /\ i - 1 \in 0 .. MaxWorkers /\ i \in 0 .. MaxWorkers
        /\ s[i] = s[i - 1] + g[i] /\ s[i] \in Int /\ s[i - 1] \in Int /\ g[i] \in Int
    BY <1>1, <1>2 DEF Workers, Sums
  <2>2. CASE i < w
    BY <1>2, <2>1, <2>2
  <2>3. CASE i = w
    BY <1>2, <1>3, <2>1, <2>3
  <2>4. CASE i > w
    BY <1>2, <2>1, <2>4
  <2> QED BY <1>2, <2>1, <2>2, <2>3, <2>4
<1> HIDE DEF t
<1>6. Sums(h, t)
  BY <1>4, <1>5 DEF Sums
<1> QED BY <1>4, <1>6 DEF Total, d

\* The total of nothing is nothing: the first sum that were not would follow
\* one that is.
LEMMA NoSummands ==
  ASSUME NEW g \in [Workers -> Int], \A w \in Workers : g[w] = 0
  PROVE  Total(g, 0) /\ \A n : Total(g, n) => n = 0
<1>0. MaxWorkers \in Nat \ {0}
  BY WorkersFinite
<1>1. Total(g, 0)
  <2> DEFINE s == [i \in 0 .. MaxWorkers |-> 0]
  <2>1. s \in [0 .. MaxWorkers -> Int] /\ Sums(g, s) /\ s[MaxWorkers] = 0
    BY <1>0 DEF Sums, Workers
  <2> QED BY <2>1 DEF Total
<1>2. ASSUME NEW s \in [0 .. MaxWorkers -> Int], Sums(g, s) PROVE s[MaxWorkers] = 0
  <2> DEFINE Bad == {i \in 0 .. MaxWorkers : s[i] # 0}
  <2>1. SUFFICES ASSUME Bad # {} PROVE FALSE
    BY <1>0
  <2>2. Bad \subseteq Nat
    BY <1>0
  <2>3. PICK i \in Bad : \A j \in Bad : ~ (j < i)
    BY <2>1, <2>2, LeastNat
  <2>a. i \in 0 .. MaxWorkers /\ i # 0
    BY <1>2, <2>3 DEF Sums
  <2>b. i \in Workers /\ i - 1 \in 0 .. MaxWorkers /\ i - 1 < i
    BY <1>0, <2>a DEF Workers
  <2>c. i - 1 \notin Bad
    BY <2>3, <2>b, Zenon
  <2>4. i \in Workers /\ i - 1 \in 0 .. MaxWorkers /\ i - 1 \notin Bad
    BY <2>b, <2>c
  <2>5. s[i - 1] = 0 /\ s[i] = s[i - 1] + g[i] /\ g[i] = 0 /\ s[i] # 0
    BY <1>2, <2>3, <2>4 DEF Sums
  <2> QED BY <2>5
<1> QED BY <1>1, <1>2 DEF Total

\* What worker w has yet to add to the statistics and the paths it reads.
Success(w) == IF pc[w] = "off" THEN 0
              ELSE mine[w].success + (IF pc[w] \in {"get", "merge"} THEN 1 ELSE 0)
Found(w) == IF pc[w] = "off" THEN 0 ELSE mine[w].certs

Successes == [w \in Workers |-> Success(w)]
Founds == [w \in Workers |-> Found(w)]

\* Each listed path is in the queue, with a worker, or accounted for.
Accounted ==
  Total(Successes, Len(paths) - Len(queue) - Len(errors) - stats.success)

\* No list has more entries than certificates were merged.
Merged == \E n \in Int : /\ Total(Founds, n)
                         /\ \A c \in Certs : Len(newCache[c]) <= stats.certs + n

Sum == Accounted /\ Merged

LEMMA CountTypes ==
  ASSUME TypeOK
  PROVE  /\ Successes \in [Workers -> Int] /\ Founds \in [Workers -> Int]
         /\ \A w \in Workers : /\ mine[w].success \in Nat /\ mine[w].certs \in Nat
                               /\ Successes[w] = Success(w) /\ Founds[w] = Found(w)
         /\ stats.success \in Nat /\ stats.certs \in Nat
         /\ Len(paths) \in Nat /\ Len(queue) \in Nat /\ Len(errors) \in Nat
         /\ \A c \in Certs : Len(newCache[c]) \in Nat
<1>1. \A w \in Workers : mine[w] \in Counts
  BY DEF TypeOK
<1>2. \A w \in Workers : mine[w].success \in Nat /\ mine[w].certs \in Nat
  BY <1>1 DEF Counts
<1>3. \A w \in Workers : Success(w) \in Int /\ Found(w) \in Int
  BY <1>2 DEF Success, Found
<1>4. stats.success \in Nat /\ stats.certs \in Nat
  BY DEF TypeOK, Counts
<1>5. /\ Len(paths) \in Nat /\ Len(queue) \in Nat /\ Len(errors) \in Nat
      /\ \A c \in Certs : Len(newCache[c]) \in Nat
  BY DEF TypeOK
<1> QED BY <1>2, <1>3, <1>4, <1>5 DEF Successes, Founds

LEMMA InitSum == Init => Sum
<1> SUFFICES ASSUME Init PROVE Sum
  OBVIOUS
<1>1. TypeOK
  BY InitInv DEF IInv
<1>2. \A w \in Workers : Successes[w] = 0 /\ Founds[w] = 0
  BY DEF Init, Successes, Founds, Success, Found
<1>3. Total(Successes, 0) /\ Total(Founds, 0)
  BY <1>1, <1>2, CountTypes, NoSummands
<1>4. /\ Len(paths) = 0 /\ Len(queue) = 0 /\ Len(errors) = 0
      /\ stats.success = 0 /\ stats.certs = 0
      /\ \A c \in Certs : Len(newCache[c]) = 0
  BY EmptySeq DEF Init, Empty, NoCount
<1>5. Len(paths) - Len(queue) - Len(errors) - stats.success = 0
  BY <1>4
<1>6. \A c \in Certs : Len(newCache[c]) <= stats.certs + 0
  BY <1>4
<1> QED BY <1>3, <1>5, <1>6 DEF Sum, Accounted, Merged

LEMMA StartSum == IInv' /\ Start => Sum'
<1> SUFFICES ASSUME IInv', Start PROVE Sum'
  OBVIOUS
<1>1. \A w \in Workers : Success(w)' = 0 /\ Found(w)' = 0
  BY DEF Start, Success, Found, NoCount
<1> DEFINE z == [w \in Workers |-> 0]
<1>2. Successes' = z /\ Founds' = z
  BY <1>1 DEF Successes, Founds
<1>3. Total(z, 0)
  BY NoSummands
<1> HIDE DEF z
<1>4. /\ paths' = queue' /\ Len(queue') \in Nat /\ Len(errors') = 0
      /\ stats'.success = 0 /\ stats'.certs = 0
      /\ \A c \in Certs : Len(newCache'[c]) = 0
  BY EmptySeq DEF Start, Empty, NoCount, IInv, TypeOK
<1>5. Len(paths') - Len(queue') - Len(errors') - stats'.success = 0
  BY <1>4
<1>6. \A c \in Certs : Len(newCache'[c]) <= stats'.certs + 0
  BY <1>4
<1>7. Accounted'
  BY <1>2, <1>3, <1>5 DEF Accounted, Total
<1>8. Merged'
  BY <1>2, <1>3, <1>6 DEF Merged, Total
<1> QED BY <1>7, <1>8 DEF Sum

\* A step by which the share of one worker changes as the rest does.
LEMMA SumKept ==
  ASSUME IInv, IInv', Sum, NEW w \in Workers,
         \A v \in Workers : v # w => pc'[v] = pc[v] /\ mine'[v] = mine[v],
         Success(w)' - Success(w) =
           (Len(paths') - Len(queue') - Len(errors') - stats'.success)
             - (Len(paths) - Len(queue) - Len(errors) - stats.success),
         \A c \in Certs :
           Len(newCache'[c]) - Len(newCache[c]) <=
             (stats'.certs - stats.certs) + (Found(w)' - Found(w))
  PROVE  Sum'
<1> DEFINE n1 == Len(paths) - Len(queue) - Len(errors) - stats.success
           n2 == Len(paths') - Len(queue') - Len(errors') - stats'.success
           g == Successes
           h == Successes'
           f == Founds
           k == Founds'
<1>1. /\ g \in [Workers -> Int] /\ f \in [Workers -> Int] /\ n1 \in Int
      /\ \A v \in Workers : g[v] = Success(v) /\ f[v] = Found(v)
      /\ stats.certs \in Nat /\ \A c \in Certs : Len(newCache[c]) \in Nat
  BY CountTypes DEF IInv
<1>2. TypeOK'
  BY DEF IInv
<1>3. /\ h \in [Workers -> Int] /\ k \in [Workers -> Int] /\ n2 \in Int
      /\ \A v \in Workers : h[v] = Success(v)' /\ k[v] = Found(v)'
      /\ stats'.certs \in Nat /\ \A c \in Certs : Len(newCache'[c]) \in Nat
  <2>1. \A v \in Workers : mine'[v] \in Counts
    BY <1>2 DEF TypeOK
  <2>2. \A v \in Workers : mine'[v].success \in Nat /\ mine'[v].certs \in Nat
    BY <2>1 DEF Counts
  <2>3. \A v \in Workers : Success(v)' \in Int /\ Found(v)' \in Int
    BY <2>2 DEF Success, Found
  <2>4. stats'.success \in Nat /\ stats'.certs \in Nat
    BY <1>2 DEF TypeOK, Counts
  <2>5. /\ Len(paths') \in Nat /\ Len(queue') \in Nat /\ Len(errors') \in Nat
        /\ \A c \in Certs : Len(newCache'[c]) \in Nat
    BY <1>2 DEF TypeOK
  <2> QED BY <2>3, <2>4, <2>5 DEF Successes, Founds
<1>4. \A v \in Workers : v # w => h[v] = g[v] /\ k[v] = f[v]
  <2>1. \A v \in Workers : v # w => Success(v)' = Success(v) /\ Found(v)' = Found(v)
    BY DEF Success, Found
  <2> HIDE DEF g, h, f, k
  <2> QED BY <1>1, <1>3, <2>1, Zenon
<1>5. h[w] - g[w] = n2 - n1
  BY <1>1, <1>3
<1>6. \A c \in Certs : Len(newCache'[c]) - Len(newCache[c])
                         <= (stats'.certs - stats.certs) + (k[w] - f[w])
  BY <1>1, <1>3
<1>7. Total(g, n1)
  BY DEF Sum, Accounted
<1>8. PICK n \in Int : Total(f, n) /\ \A c \in Certs : Len(newCache[c]) <= stats.certs + n
  BY DEF Sum, Merged
<1>9. g[w] \in Int /\ h[w] \in Int /\ f[w] \in Int /\ k[w] \in Int
  BY <1>1, <1>3
<1> HIDE DEF n1, n2, g, h, f, k
<1>10. Total(h, n1 + (h[w] - g[w]))
  BY <1>1, <1>3, <1>4, <1>7, OneSummand
<1>11. n1 + (h[w] - g[w]) = n2
  BY <1>1, <1>3, <1>5, <1>9
<1>12. Total(k, n + (k[w] - f[w]))
  BY <1>1, <1>3, <1>4, <1>8, OneSummand
<1>13. n + (k[w] - f[w]) \in Int
       /\ \A c \in Certs : Len(newCache'[c]) <= stats'.certs + (n + (k[w] - f[w]))
  <2> DEFINE fw == f[w]
             kw == k[w]
  <2>1. fw \in Int /\ kw \in Int
    BY <1>9
  <2>2. \A c \in Certs : Len(newCache'[c]) - Len(newCache[c]) <= (stats'.certs - stats.certs) + (kw - fw)
    BY <1>6
  <2>3. /\ stats.certs \in Nat /\ \A c \in Certs : Len(newCache[c]) \in Nat
        /\ stats'.certs \in Nat /\ \A c \in Certs : Len(newCache'[c]) \in Nat
        /\ n \in Int /\ \A c \in Certs : Len(newCache[c]) <= stats.certs + n
    BY <1>1, <1>3, <1>8
  <2> HIDE DEF fw, kw
  <2>4. ASSUME NEW c \in Certs PROVE Len(newCache'[c]) <= stats'.certs + (n + (kw - fw))
    <3> DEFINE a == Len(newCache[c])
               b == Len(newCache'[c])
               p == stats.certs
               q == stats'.certs
    <3>1. a \in Nat /\ b \in Nat /\ p \in Nat /\ q \in Nat /\ n \in Int
      BY <2>3
    <3>2. a <= p + n /\ b - a <= (q - p) + (kw - fw)
      BY <2>2, <2>3
    <3> HIDE DEF a, b, p, q
    <3>3. b <= q + (n + (kw - fw))
      BY <2>1, <3>1, <3>2
    <3> QED BY <3>3 DEF b, q
  <2>5. n + (kw - fw) \in Int
    BY <2>1, <2>3
  <2> QED BY <2>4, <2>5 DEF fw, kw
<1>14. Total(h, n2)
  BY <1>10, <1>11
<1> QED BY <1>12, <1>13, <1>14 DEF Sum, Accounted, Merged, Total, h, k, n2

LEMMA StepSum ==
  ASSUME IInv, IInv', Sum, NEW w \in Workers, Step(w)
  PROVE  Sum'
<1>0. /\ mine[w].success \in Nat /\ mine[w].certs \in Nat
      /\ stats.success \in Nat /\ stats.certs \in Nat
      /\ Len(paths) \in Nat /\ Len(queue) \in Nat /\ Len(errors) \in Nat
      /\ \A c \in Certs : Len(newCache[c]) \in Nat
      /\ pc \in [Workers -> {"off", "receive", "get", "merge", "count"}]
  BY CountTypes DEF IInv, TypeOK
<1> DEFINE dn == (Len(paths') - Len(queue') - Len(errors') - stats'.success)
                   - (Len(paths) - Len(queue) - Len(errors) - stats.success)
<1>1. ASSUME Receive(w) PROVE Sum'
  <2>1. paths' = paths /\ errors' = errors /\ stats' = stats /\ mine' = mine
        /\ newCache' = newCache /\ \A v \in Workers : v # w => pc'[v] = pc[v]
    BY <1>0, <1>1 DEF Receive, caller
  <2>2. CASE queue = << >>
    <3>1. queue' = queue /\ Success(w)' = Success(w) /\ Found(w)' = Found(w)
      BY <1>0, <1>1, <2>1, <2>2 DEF Receive, Success, Found
    <3>2. Success(w) \in Int /\ Found(w) \in Int
      BY <1>0 DEF Success, Found
    <3> QED BY <1>0, <2>1, <3>1, <3>2, SumKept
  <2>3. CASE queue # << >>
    <3>1. Len(queue') = Len(queue) - 1
      BY <1>1, <2>3, HeadAndTail DEF Receive, IInv, TypeOK
    <3>2. pc[w] = "receive" /\ pc'[w] = "get"
      BY <1>0, <1>1, <2>3 DEF Receive
    <3>3. /\ Success(w) = mine[w].success /\ Success(w)' = mine[w].success + 1
          /\ Found(w) = mine[w].certs /\ Found(w)' = mine[w].certs
      BY <1>0, <2>1, <3>2 DEF Success, Found
    <3> QED BY <1>0, <2>1, <3>1, <3>3, SumKept
  <2> QED BY <2>2, <2>3
<1>2. ASSUME GetFails(w) PROVE Sum'
  <2>1. paths' = paths /\ queue' = queue /\ stats' = stats /\ mine' = mine
        /\ newCache' = newCache /\ \A v \in Workers : v # w => pc'[v] = pc[v]
    BY <1>0, <1>2 DEF GetFails, caller
  <2>2. Len(errors') = Len(errors) + 1
    <3>1. errors \in Seq(DOMAIN Secrets) /\ path[w] \in DOMAIN Secrets
      BY DEF IInv, TypeOK
    <3> QED BY <1>2, <3>1, AppendElements DEF GetFails
  <2>3. pc[w] = "get" /\ pc'[w] = "receive"
    BY <1>0, <1>2 DEF GetFails
  <2>4. /\ Success(w) = mine[w].success + 1 /\ Success(w)' = mine[w].success
        /\ Found(w) = mine[w].certs /\ Found(w)' = mine[w].certs
    BY <1>0, <2>1, <2>3 DEF Success, Found
  <2>5. /\ Success(w)' - Success(w) = dn /\ Found(w)' - Found(w) = 0
    BY <1>0, <2>1, <2>2, <2>4
  <2>6. \A c \in Certs : Len(newCache'[c]) - Len(newCache[c])
                           <= (stats'.certs - stats.certs) + (Found(w)' - Found(w))
    BY <1>0, <2>1, <2>5
  <2> QED BY <2>1, <2>5, <2>6, SumKept
<1>3. ASSUME GetSucceeds(w) PROVE Sum'
  <2>1. paths' = paths /\ queue' = queue /\ errors' = errors /\ stats' = stats /\ mine' = mine
        /\ newCache' = newCache /\ \A v \in Workers : v # w => pc'[v] = pc[v]
    BY <1>0, <1>3 DEF GetSucceeds, caller
  <2>2. pc[w] = "get" /\ pc'[w] = "merge"
    BY <1>0, <1>3 DEF GetSucceeds
  <2>3. /\ Success(w) = mine[w].success + 1 /\ Success(w)' = mine[w].success + 1
        /\ Found(w) = mine[w].certs /\ Found(w)' = mine[w].certs
    BY <1>0, <2>1, <2>2 DEF Success, Found
  <2> QED BY <1>0, <2>1, <2>3, SumKept
<1>4. ASSUME MergeCert(w) PROVE Sum'
  <2>1. paths' = paths /\ queue' = queue /\ errors' = errors /\ stats' = stats /\ pc' = pc
        /\ pc[w] = "merge"
    BY <1>4 DEF MergeCert, caller
  <2>2. /\ mine'[w].success = mine[w].success /\ mine'[w].certs = mine[w].certs + 1
        /\ \A v \in Workers : v # w => mine'[v] = mine[v]
    BY <1>4, OneMore DEF MergeCert, IInv
  <2>3. /\ Success(w) = mine[w].success + 1 /\ Success(w)' = mine[w].success + 1
        /\ Found(w) = mine[w].certs /\ Found(w)' = mine[w].certs + 1
    BY <1>0, <2>1, <2>2 DEF Success, Found
  <2>4. \A c \in Certs : Len(newCache'[c]) \in Nat /\ Len(newCache'[c]) <= Len(newCache[c]) + 1
    <3> SUFFICES ASSUME NEW c \in Certs
                 PROVE  Len(newCache'[c]) \in Nat /\ Len(newCache'[c]) <= Len(newCache[c]) + 1
      OBVIOUS
    <3>1. newCache[c] \in Seq(Locations) /\ Head(finds[w])[2] \in Locations
      BY <1>4, NewCacheType DEF IInv, TypeOK
    <3>2. newCache'[c] = newCache[c] \/ newCache'[c] = Merge(newCache[c], Head(finds[w])[2])
      BY <1>4, NewCacheType DEF IInv
    <3>3. newCache'[c] \in Seq(Locations)
      BY DEF IInv, TypeOK
    <3>4. Len(Merge(newCache[c], Head(finds[w])[2])) <= Len(newCache[c]) + 1
      BY <3>1, MergeType
    <3>5. Len(newCache'[c]) \in Nat /\ Len(newCache[c]) \in Nat
      BY <3>1, <3>3
    <3>6. CASE newCache'[c] = newCache[c]
      BY <3>5, <3>6
    <3>7. CASE newCache'[c] = Merge(newCache[c], Head(finds[w])[2])
      BY <3>4, <3>5, <3>7
    <3> QED BY <3>2, <3>6, <3>7
  <2>5. Success(w)' - Success(w) = dn /\ Found(w)' - Found(w) = 1 /\ stats'.certs - stats.certs = 0
    BY <1>0, <2>1, <2>3
  <2>6. \A c \in Certs : Len(newCache'[c]) - Len(newCache[c])
                           <= (stats'.certs - stats.certs) + (Found(w)' - Found(w))
    <3>1. ASSUME NEW c \in Certs PROVE Len(newCache'[c]) - Len(newCache[c]) <= 0 + 1
      BY <1>0, <2>4
    <3> QED BY <2>5, <3>1
  <2>7. \A v \in Workers : v # w => pc'[v] = pc[v] /\ mine'[v] = mine[v]
    BY <2>1, <2>2
  <2> QED BY <2>5, <2>6, <2>7, SumKept
<1>5. ASSUME SecretDone(w) PROVE Sum'
  <2>1. paths' = paths /\ queue' = queue /\ errors' = errors /\ stats' = stats
        /\ newCache' = newCache /\ \A v \in Workers : v # w => pc'[v] = pc[v]
    BY <1>0, <1>5 DEF SecretDone, caller
  <2>2. /\ mine'[w].certs = mine[w].certs /\ mine'[w].success = mine[w].success + 1
        /\ \A v \in Workers : v # w => mine'[v] = mine[v]
    BY <1>5, OneMore DEF SecretDone, IInv
  <2>3. pc[w] = "merge" /\ pc'[w] = "receive"
    BY <1>0, <1>5 DEF SecretDone
  <2>4. /\ Success(w) = mine[w].success + 1 /\ Success(w)' = mine[w].success + 1
        /\ Found(w) = mine[w].certs /\ Found(w)' = mine[w].certs
    BY <1>0, <2>1, <2>2, <2>3 DEF Success, Found
  <2> QED BY <1>0, <2>1, <2>2, <2>4, SumKept
<1>6. ASSUME Count(w) PROVE Sum'
  <2>1. paths' = paths /\ queue' = queue /\ errors' = errors /\ mine' = mine
        /\ newCache' = newCache /\ \A v \in Workers : v # w => pc'[v] = pc[v]
    BY <1>0, <1>6 DEF Count, caller
  <2>2. stats'.success = stats.success + mine[w].success
        /\ stats'.certs = stats.certs + mine[w].certs
    BY <1>6 DEF Count
  <2>3. pc[w] = "count" /\ pc'[w] = "off"
    BY <1>0, <1>6 DEF Count
  <2>4. /\ Success(w) = mine[w].success /\ Success(w)' = 0
        /\ Found(w) = mine[w].certs /\ Found(w)' = 0
    BY <1>0, <2>1, <2>3 DEF Success, Found
  <2> QED BY <1>0, <2>1, <2>2, <2>4, SumKept
<1> QED BY <1>1, <1>2, <1>3, <1>4, <1>5, <1>6 DEF Step

LEMMA SumInvariance == Spec => [](IInv /\ Sum)
<1>1. Init => Sum
  BY InitSum
<1>2. IInv /\ IInv' /\ Sum /\ [Next]_vars => Sum'
  <2> SUFFICES ASSUME IInv, IInv', Sum, [Next]_vars PROVE Sum'
    OBVIOUS
  <2>1. CASE Return \/ UNCHANGED vars
    <3>1. UNCHANGED <<newCache, paths, queue, pc, mine, stats, errors>>
      BY <2>1 DEF Return, vars, caller
    <3> QED BY <3>1 DEF Sum, Accounted, Merged, Total, Successes, Founds, Success, Found
  <2> QED BY <2>1, StartSum, StepSum DEF Next
<1> QED BY <1>1, <1>2, Invariance, PTL DEF Spec

\* The barrier opens when every listed path has been read or has left an
\* error, exactly once, and no worker is left that could still add to the new
\* cache or to the statistics (core.go:131-151).
THEOREM StatisticsAddUp == Spec => []StatsAddUp
<1>1. IInv /\ Sum => StatsAddUp
  <2> SUFFICES ASSUME IInv, Sum, phase = "fetching", barrier = 0
               PROVE  /\ stats.success + Len(errors) = Len(paths)
                      /\ \A c \in Certs : stats.certs >= Len(newCache[c])
                      /\ \A w \in Workers : pc[w] = "off"
    BY DEF StatsAddUp
  <2>1. \A w \in Workers : pc[w] = "off"
    <3> DEFINE On == {w \in Workers : pc[w] # "off"}
    <3>1. IsFiniteSet(On) /\ Cardinality(On) = 0
      BY WorkersFinite DEF IInv, Barrier
    <3> QED BY <3>1, FS_EmptySet
  <2>2. Len(queue) = 0
    <3>1. queue = << >>
      BY <2>1 DEF IInv, Served
    <3> QED BY <3>1, EmptySeq
  <2>3. \A w \in Workers : Successes[w] = 0 /\ Founds[w] = 0
    BY <2>1 DEF Successes, Founds, Success, Found
  <2>4. \A n : (Total(Successes, n) => n = 0) /\ (Total(Founds, n) => n = 0)
    BY <2>3, NoSummands, CountTypes DEF IInv
  <2>5. Len(paths) - Len(queue) - Len(errors) - stats.success = 0
    BY <2>4 DEF Sum, Accounted
  <2>6. \A c \in Certs : Len(newCache[c]) <= stats.certs + 0
    BY <2>4 DEF Sum, Merged
  <2> QED BY <2>1, <2>2, <2>5, <2>6, CountTypes DEF IInv
<1> QED BY <1>1, SumInvariance, PTL

-----------------------------------------------------------------------------
(* The order of the path lists.                                            *)

\* In a sorted list the entries up to l are the first ones.
LEMMA RankIsPrefix ==
  ASSUME NEW list \in Seq(Locations), Ordered(list), NEW l \in Locations
  PROVE  \A i \in 1 .. Len(list) : i <= Rank(list, l) <=> list[i] <= l
<1> DEFINE n == Len(list)
           S == {i \in DOMAIN list : list[i] <= l}
           Beyond == {i \in 1 .. n + 1 : i = n + 1 \/ ~ (list[i] <= l)}
<1>1. n \in Nat /\ DOMAIN list = 1 .. n /\ l \in Nat /\ \A i \in 1 .. n : list[i] \in Nat
  BY PopulateAssumption
<1>2. Beyond \in SUBSET Nat /\ n + 1 \in Beyond
  BY <1>1
<1>3. PICK m \in Beyond : \A i \in Beyond : ~ (i < m)
  BY <1>2, LeastNat
<1>4. m \in 1 .. n + 1 /\ (m = n + 1 \/ ~ (list[m] <= l))
  BY <1>3
<1>5. ASSUME NEW i \in 1 .. n PROVE i \in S <=> i < m
  <2>1. CASE i < m
    <3>1. i \notin Beyond
      BY <1>3, <2>1
    <3> QED BY <1>1, <2>1, <3>1
  <2>2. CASE ~ (i < m)
    <3>1. m \in DOMAIN list /\ i \in DOMAIN list /\ m <= i
      BY <1>1, <1>4, <2>2
    <3>2. list[m] <= list[i] /\ ~ (list[m] <= l)
      BY <1>1, <1>4, <3>1 DEF Ordered
    <3>3. ~ (list[i] <= l)
      BY <1>1, <3>1, <3>2
    <3> QED BY <2>2, <3>3
  <2> QED BY <2>1, <2>2
<1>6. S = 1 .. m - 1
  <2>1. S \subseteq 1 .. n
    BY <1>1
  <2>2. 1 .. m - 1 \subseteq 1 .. n /\ \A i \in 1 .. n : i \in 1 .. m - 1 <=> i < m
    BY <1>1, <1>4
  <2> HIDE DEF S, n
  <2> QED BY <1>5, <2>1, <2>2
<1> HIDE DEF S
<1>7. Cardinality(S) = m - 1
  BY <1>4, <1>6, FS_Interval
<1>8. Rank(list, l) = m - 1
  BY <1>7 DEF Rank, S
<1>9. \A i \in 1 .. n : i <= Rank(list, l) <=> i \in S
  BY <1>1, <1>4, <1>5, <1>8
<1> QED BY <1>1, <1>9 DEF S

LEMMA MergeOrdered ==
  ASSUME NEW list \in Seq(Locations), Ordered(list), NEW l \in Locations
  PROVE  Ordered(Merge(list, l))
<1>1. SUFFICES ASSUME Merge(list, l) = Inserted(list, l) PROVE Ordered(Inserted(list, l))
  BY DEF Merge
<1> DEFINE n == Len(list)
           r == Rank(list, l)
           f == Inserted(list, l)
<1>2. r \in 0 .. n /\ n \in Nat /\ DOMAIN list = 1 .. n
  BY RankType
<1>3. /\ DOMAIN f = 1 .. n + 1
      /\ \A i \in 1 .. n + 1 :
           f[i] = IF i <= r THEN list[i] ELSE IF i = r + 1 THEN l ELSE list[i - 1]
  BY InsertedType, Zenon
<1>4. l \in Nat /\ \A i \in 1 .. n : list[i] \in Nat
  <2>1. Locations \subseteq Nat /\ list \in Seq(Locations)
    BY PopulateAssumption
  <2>2. \A i \in 1 .. n : list[i] \in Locations
    BY <2>1
  <2> QED BY <2>1, <2>2
<1>5. \A i \in 1 .. n : i <= r <=> list[i] <= l
  BY RankIsPrefix
<1>6. \A i, j \in 1 .. n : i <= j => list[i] <= list[j]
  BY <1>2 DEF Ordered
<1> HIDE DEF n, r, f
<1>7. ASSUME NEW i \in 1 .. n + 1, NEW j \in 1 .. n + 1, i <= j PROVE f[i] <= f[j]
  <2>1. CASE j <= r
    BY <1>2, <1>3, <1>6, <1>7, <2>1
  <2>2. CASE j = r + 1 /\ i <= r
    <3>1. f[i] = list[i] /\ f[j] = l /\ i \in 1 .. n
      BY <1>2, <1>3, <2>2
    <3> QED BY <1>5, <2>2, <3>1
  <2>3. CASE j = r + 1 /\ i = r + 1
    <3>1. f[i] = l /\ f[j] = l
      BY <1>2, <1>3, <2>3
    <3> QED BY <1>4, <3>1
  <2>4. CASE j > r + 1 /\ i <= r + 1
    <3>1. j - 1 \in 1 .. n /\ f[j] = list[j - 1] /\ ~ (j - 1 <= r)
      BY <1>2, <1>3, <2>4
    <3>2. l <= f[j] /\ f[j] \in Nat
      BY <1>4, <1>5, <3>1
    <3>3. f[i] \in Nat /\ f[i] <= l
      <4>1. CASE i = r + 1
        BY <1>2, <1>3, <1>4, <4>1
      <4>2. CASE i <= r
        BY <1>2, <1>3, <1>4, <1>5, <4>2
      <4> QED BY <1>2, <2>4, <4>1, <4>2
    <3> QED BY <1>4, <3>2, <3>3
  <2>5. CASE j > r + 1 /\ i > r + 1
    <3>1. j - 1 \in 1 .. n /\ i - 1 \in 1 .. n /\ i - 1 <= j - 1
          /\ f[j] = list[j - 1] /\ f[i] = list[i - 1]
      BY <1>2, <1>3, <1>7, <2>5
    <3> QED BY <1>6, <3>1
  <2> QED BY <1>2, <1>7, <2>1, <2>2, <2>3, <2>4, <2>5
<1> QED BY <1>3, <1>7 DEF Ordered, f

-----------------------------------------------------------------------------
(* Second copies in a path list.                                           *)

Twice(list, x) == \E i, j \in DOMAIN list : i # j /\ list[i] = x /\ list[j] = x

LEMMA TwiceIsCopies ==
  ASSUME NEW S, NEW list \in Seq(S), NEW x
  PROVE  Copies(list, x) > 1 <=> Twice(list, x)
<1> DEFINE T == {i \in DOMAIN list : list[i] = x}
<1>1. T \in SUBSET (1 .. Len(list)) /\ Len(list) \in Nat
  OBVIOUS
<1>2. IsFiniteSet(T)
  <2>1. IsFiniteSet(1 .. Len(list))
    BY <1>1, FS_Interval
  <2> QED BY <1>1, <2>1, FS_Subset
<1>3. Twice(list, x) <=> \E i, j \in T : i # j
  BY DEF Twice
<1> HIDE DEF T
<1>4. Cardinality(T) \in Nat /\ (Cardinality(T) = 0 <=> T = {})
      /\ (Cardinality(T) = 1 <=> \E y : T = {y})
  BY <1>2, FS_CardinalityType, FS_EmptySet, FS_Singleton
<1>5. (\E i, j \in T : i # j) <=> T # {} /\ ~ \E y : T = {y}
  OBVIOUS
<1>6. Cardinality(T) > 1 <=> \E i, j \in T : i # j
  <2>1. Cardinality(T) > 1 <=> Cardinality(T) # 0 /\ Cardinality(T) # 1
    BY <1>4
  <2> QED BY <1>4, <1>5, <2>1, Zenon
<1> QED BY <1>3, <1>6 DEF Copies, T

LEMMA MergeTwice ==
  ASSUME NEW list \in Seq(Locations), NEW l \in Locations, NEW x, Twice(Merge(list, l), x)
  PROVE  Twice(list, x) \/ (x = l /\ l \in Elements(list))
<1>1. CASE Merge(list, l) = list
  BY <1>1
<1>2. CASE Merge(list, l) = Inserted(list, l)
  <2> DEFINE n == Len(list)
             r == Rank(list, l)
             f == Inserted(list, l)
  <2>1. r \in 0 .. n /\ n \in Nat /\ DOMAIN list = 1 .. n
    BY RankType
  <2>2. /\ DOMAIN f = 1 .. n + 1
        /\ \A i \in 1 .. n + 1 :
             f[i] = IF i <= r THEN list[i] ELSE IF i = r + 1 THEN l ELSE list[i - 1]
    BY InsertedType, Zenon
  <2>3. PICK i, j \in DOMAIN f : i # j /\ f[i] = x /\ f[j] = x
    BY <1>2 DEF Twice
  <2> HIDE DEF n, r, f
  <2> DEFINE At(k) == IF k <= r THEN k ELSE k - 1
  <2>4. ASSUME NEW k \in 1 .. n + 1, k # r + 1
        PROVE  At(k) \in DOMAIN list /\ f[k] = list[At(k)]
    BY <2>1, <2>2, <2>4
  <2>5. CASE i # r + 1 /\ j # r + 1
    <3>1. At(i) # At(j)
      BY <2>1, <2>2, <2>3, <2>5
    <3> HIDE DEF At
    <3> QED BY <2>2, <2>3, <2>4, <2>5, <3>1 DEF Twice
  <2>6. CASE i = r + 1 \/ j = r + 1
    <3>1. f[r + 1] = l
      BY <2>1, <2>2
    <3>2. PICK k \in 1 .. n + 1 : k # r + 1 /\ f[k] = x
      BY <2>2, <2>3, <2>6
    <3>3. x = l
      BY <2>3, <2>6, <3>1
    <3> HIDE DEF At
    <3> QED BY <2>4, <3>2, <3>3 DEF Elements
  <2> QED BY <2>5, <2>6
<1> QED BY <1>1, <1>2 DEF Merge

LEMMA TailTwice ==
  ASSUME NEW S, NEW s \in Seq(S), s # << >>
  PROVE  /\ \A x : Twice(Tail(s), x) => Twice(s, x)
         /\ Head(s) \in Elements(Tail(s)) => Twice(s, Head(s))
<1>1. /\ \A i \in 1 .. Len(Tail(s)) : Tail(s)[i] = s[i + 1]
      /\ Len(s) \in Nat \ {0} /\ Head(s) = s[1]
      /\ DOMAIN s = 1 .. Len(s) /\ DOMAIN Tail(s) = 1 .. Len(s) - 1
      /\ Len(Tail(s)) = Len(s) - 1
  BY HeadTailProperties, EmptySeq
<1>2. \A i \in DOMAIN Tail(s) : i + 1 \in DOMAIN s /\ Tail(s)[i] = s[i + 1] /\ i + 1 # 1
  BY <1>1
<1>3. \A i, j \in DOMAIN Tail(s) : i # j => i + 1 # j + 1
  BY <1>1
<1>4. 1 \in DOMAIN s
  BY <1>1
<1>5. ASSUME NEW x, Twice(Tail(s), x) PROVE Twice(s, x)
  <2>1. PICK i, j \in DOMAIN Tail(s) : i # j /\ Tail(s)[i] = x /\ Tail(s)[j] = x
    BY <1>5 DEF Twice
  <2> QED BY <1>2, <1>3, <2>1 DEF Twice
<1>6. ASSUME Head(s) \in Elements(Tail(s)) PROVE Twice(s, Head(s))
  <2>1. PICK i \in DOMAIN Tail(s) : Head(s) = Tail(s)[i]
    BY <1>6 DEF Elements
  <2> QED BY <1>1, <1>2, <1>4, <2>1 DEF Twice
<1> QED BY <1>5, <1>6

Reading(w) == pc[w] \in {"get", "merge"}

Yields(p, f) == \E secret \in Secrets[p] : f \in Elements(secret)

Repeated(f) == \E p \in DOMAIN Secrets : \E secret \in Secrets[p] : Twice(secret, f)

\* Each path is read by one worker, once.
ReadOnce ==
  /\ \A i, j \in DOMAIN queue : queue[i] = queue[j] => i = j
  /\ \A w \in Workers : Reading(w) => path[w] \notin Elements(queue)
  /\ \A v, w \in Workers : Reading(v) /\ Reading(w) /\ path[v] = path[w] => v = w

\* What a worker has still to merge comes of the path it reads.
Sourced ==
  \A w \in Workers : \A f \in Certs \X Locations :
    /\ f \in Elements(finds[w]) => Yields(path[w], f)
    /\ Twice(finds[w], f) => Repeated(f)

\* What is in the new cache, and in no secret twice, is found nowhere else.
NotAgain ==
  \A f \in Certs \X Locations :
    f[2] \in Elements(newCache[f[1]]) /\ ~Repeated(f) =>
      /\ \A p \in Elements(queue) : ~Yields(p, f)
      /\ \A w \in Workers : pc[w] = "get" => ~Yields(path[w], f)
      /\ \A w \in Workers : f \notin Elements(finds[w])
      /\ ~Twice(newCache[f[1]], f[2])

Sorting == \A c \in Certs : Ordered(newCache[c])

Once == ReadOnce /\ Sourced /\ NotAgain

LEMMA SortingInvariance == Spec => [](IInv /\ Sorting)
<1>0. Ordered(<< >>)
  BY DEF Ordered
<1>1. Init => Sorting
  BY <1>0 DEF Init, Empty, Sorting
<1>2. IInv /\ Sorting /\ [Next]_vars => Sorting'
  <2> SUFFICES ASSUME IInv, Sorting, [Next]_vars PROVE Sorting'
    OBVIOUS
  <2>1. CASE newCache' = newCache
    BY <2>1 DEF Sorting
  <2>2. CASE Start
    BY <1>0, <2>2 DEF Start, Empty, Sorting
  <2>3. ASSUME NEW w \in Workers, MergeCert(w) PROVE Sorting'
    <3> SUFFICES ASSUME NEW c \in Certs PROVE Ordered(newCache'[c])
      BY DEF Sorting
    <3>1. newCache[c] \in Seq(Locations) /\ Head(finds[w])[2] \in Locations /\ Ordered(newCache[c])
      BY <2>3, NewCacheType DEF IInv, TypeOK, Sorting
    <3>2. newCache'[c] = newCache[c] \/ newCache'[c] = Merge(newCache[c], Head(finds[w])[2])
      BY <2>3, NewCacheType DEF IInv
    <3> QED BY <3>1, <3>2, MergeOrdered
  <2>4. CASE \E w \in Workers : Step(w)
    <3>1. PICK w \in Workers : Step(w)
      BY <2>4
    <3> QED BY <2>1, <2>3, <3>1 DEF Step, Receive, GetFails, GetSucceeds, SecretDone, Count
  <2> QED BY <2>1, <2>2, <2>4 DEF Next, Return, vars
<1> QED BY <1>1, <1>2, Invariance, PTL DEF Spec

LEMMA StartOnce ==
  ASSUME IInv, Start, DistinctPaths
  PROVE  Once'
<1>1. queue' \in Listings /\ \A c \in Certs : newCache'[c] = << >>
  BY DEF Start, Empty
<1>2. \A w \in Workers : pc'[w] \notin {"get", "merge"} /\ finds'[w] = << >>
  BY DEF Start, IInv, Merging, Idle
<1>3. \A x : Elements(<< >>) = {} /\ ~Twice(<< >>, x)
  BY DEF Elements, Twice
<1>4. ReadOnce'
  BY <1>1, <1>2 DEF ReadOnce, Reading, DistinctPaths
<1>5. Sourced'
  BY <1>2, <1>3 DEF Sourced
<1>6. NotAgain'
  BY <1>1, <1>3 DEF NotAgain
<1> QED BY <1>4, <1>5, <1>6 DEF Once

LEMMA ReceiveOnce ==
  ASSUME IInv, Once, NEW w \in Workers, Receive(w)
  PROVE  Once'
<1>0. pc \in [Workers -> {"off", "receive", "get", "merge", "count"}]
      /\ path \in [Workers -> DOMAIN Secrets] /\ queue \in Seq(DOMAIN Secrets)
  BY DEF IInv, TypeOK
<1>1. finds' = finds /\ newCache' = newCache /\ finds[w] = << >>
  BY DEF Receive, IInv, Merging
<1>2. CASE queue = << >>
  <2>1. path' = path /\ queue' = queue /\ \A v \in Workers : pc'[v] = pc[v] \/ pc'[v] = "count"
    BY <1>0, <1>2 DEF Receive
  <2>2. ReadOnce'
    BY <2>1 DEF Once, ReadOnce, Reading
  <2>3. Sourced'
    BY <1>1, <2>1 DEF Once, Sourced
  <2>4. NotAgain'
    BY <1>1, <2>1 DEF Once, NotAgain
  <2> QED BY <2>2, <2>3, <2>4 DEF Once
<1>3. CASE queue # << >>
  <2> DEFINE p == Head(queue)
  <2>1. /\ path'[w] = p /\ pc'[w] = "get" /\ queue' = Tail(queue)
        /\ \A v \in Workers : v # w => pc'[v] = pc[v] /\ path'[v] = path[v]
    BY <1>0, <1>3 DEF Receive
  <2>2. /\ Elements(queue) = {p} \union Elements(queue')
        /\ \A i \in DOMAIN queue' : i + 1 \in DOMAIN queue /\ queue'[i] = queue[i + 1]
        /\ 1 \in DOMAIN queue /\ p = queue[1]
        /\ \A i, j \in DOMAIN queue' : (i + 1 = j + 1 => i = j) /\ i + 1 # 1
    <3>1. Elements(queue) = {p} \union Elements(Tail(queue))
      BY <1>0, <1>3, HeadAndTail
    <3>2. /\ \A i \in 1 .. Len(Tail(queue)) : Tail(queue)[i] = queue[i + 1]
          /\ Len(queue) \in Nat \ {0} /\ p = queue[1]
          /\ DOMAIN queue = 1 .. Len(queue) /\ DOMAIN Tail(queue) = 1 .. Len(queue) - 1
          /\ Len(Tail(queue)) = Len(queue) - 1
      BY <1>0, <1>3, HeadTailProperties, EmptySeq
    <3> QED BY <2>1, <3>1, <3>2
  <2> HIDE DEF p
  <2>3. /\ \A i, j \in DOMAIN queue' : queue'[i] = queue'[j] => i = j
        /\ p \notin Elements(queue')
    <3>1. \A i, j \in DOMAIN queue : queue[i] = queue[j] => i = j
      BY DEF Once, ReadOnce
    <3>2. \A i, j \in DOMAIN queue' : queue'[i] = queue'[j] => i = j
      BY <2>2, <3>1
    <3>3. p \notin Elements(queue')
      BY <2>2, <3>1 DEF Elements
    <3> QED BY <3>2, <3>3
  <2>4. \A v \in Workers : Reading(v) => v # w /\ path[v] \notin Elements(queue)
    BY DEF Once, ReadOnce, Receive, Reading
  <2>5. ReadOnce'
    <3>1. \A v \in Workers : Reading(v)' => v = w \/ Reading(v)
      BY <2>1 DEF Reading
    <3>2. ASSUME NEW v \in Workers, Reading(v)' PROVE path'[v] \notin Elements(queue')
      BY <2>1, <2>2, <2>3, <2>4, <3>1, <3>2
    <3>3. ASSUME NEW v \in Workers, NEW u \in Workers, Reading(v)', Reading(u)', path'[v] = path'[u]
          PROVE  v = u
      BY <2>1, <2>2, <2>4, <3>1, <3>3 DEF Once, ReadOnce
    <3> QED BY <2>3, <3>2, <3>3 DEF ReadOnce
  <2>6. Sourced'
    <3>1. \A x : Elements(finds[w]) = {} /\ ~Twice(finds[w], x)
      BY <1>1 DEF Elements, Twice
    <3> QED BY <1>1, <2>1, <3>1 DEF Once, Sourced
  <2>7. NotAgain'
    BY <1>1, <2>1, <2>2 DEF Once, NotAgain
  <2> QED BY <2>5, <2>6, <2>7 DEF Once
<1> QED BY <1>2, <1>3

LEMMA GetSucceedsOnce ==
  ASSUME IInv, Once, NEW w \in Workers, GetSucceeds(w)
  PROVE  Once'
<1>1. path' = path /\ queue' = queue /\ newCache' = newCache
      /\ pc[w] = "get" /\ pc'[w] = "merge" /\ \A v \in Workers : v # w => pc'[v] = pc[v]
  BY DEF GetSucceeds, IInv, TypeOK
<1>2. PICK secret \in Secrets[path[w]] :
        finds'[w] = secret /\ \A v \in Workers : v # w => finds'[v] = finds[v]
  BY DEF GetSucceeds, IInv, TypeOK
<1>3. path[w] \in DOMAIN Secrets
  BY DEF IInv, TypeOK
<1>4. ReadOnce'
  BY <1>1 DEF Once, ReadOnce, Reading
<1>5. Sourced'
  BY <1>1, <1>2, <1>3 DEF Once, Sourced, Yields, Repeated
<1>6. NotAgain'
  <2> SUFFICES ASSUME NEW f \in Certs \X Locations,
                      f[2] \in Elements(newCache[f[1]]), ~Repeated(f)
               PROVE  /\ \A p \in Elements(queue) : ~Yields(p, f)
                      /\ \A v \in Workers : pc'[v] = "get" => ~Yields(path[v], f)
                      /\ \A v \in Workers : f \notin Elements(finds'[v])
                      /\ ~Twice(newCache[f[1]], f[2])
    BY <1>1 DEF NotAgain
  <2>1. /\ \A p \in Elements(queue) : ~Yields(p, f)
        /\ \A v \in Workers : pc[v] = "get" => ~Yields(path[v], f)
        /\ \A v \in Workers : f \notin Elements(finds[v])
        /\ ~Twice(newCache[f[1]], f[2])
    BY DEF Once, NotAgain
  <2>2. f \notin Elements(secret)
    BY <1>1, <2>1 DEF Yields
  <2> QED BY <1>1, <1>2, <2>1, <2>2
<1> QED BY <1>4, <1>5, <1>6 DEF Once

LEMMA MergeCertOnce ==
  ASSUME IInv, Once, NEW w \in Workers, MergeCert(w), DistinctPaths
  PROVE  Once'
<1>1. path' = path /\ queue' = queue /\ pc' = pc /\ pc[w] = "merge"
  BY DEF MergeCert, caller
<1> DEFINE h == Head(finds[w])
<1>2. /\ h \in Certs \X Locations /\ finds'[w] = Tail(finds[w])
      /\ Elements(finds[w]) = {h} \union Elements(finds'[w])
      /\ \A c \in Certs : /\ c # h[1] => newCache'[c] = newCache[c]
                          /\ c = h[1] => newCache'[c] = Merge(newCache[c], h[2])
      /\ \A v \in Workers : v # w => finds'[v] = finds[v]
  BY NewCacheType DEF IInv
<1>3. /\ \A x : Twice(finds'[w], x) => Twice(finds[w], x)
      /\ h \in Elements(finds'[w]) => Twice(finds[w], h)
  BY <1>2, TailTwice DEF IInv, TypeOK, MergeCert
<1> HIDE DEF h
<1>4. ReadOnce'
  BY <1>1 DEF Once, ReadOnce, Reading
<1>5. Sourced'
  <2> SUFFICES ASSUME NEW v \in Workers, NEW f \in Certs \X Locations
               PROVE  /\ f \in Elements(finds'[v]) => Yields(path[v], f)
                      /\ Twice(finds'[v], f) => Repeated(f)
    BY <1>1 DEF Sourced
  <2>1. (f \in Elements(finds[v]) => Yields(path[v], f)) /\ (Twice(finds[v], f) => Repeated(f))
    BY DEF Once, Sourced
  <2>2. CASE v = w
    BY <1>2, <1>3, <2>1, <2>2
  <2>3. CASE v # w
    BY <1>2, <2>1, <2>3
  <2> QED BY <2>2, <2>3
<1>6. NotAgain'
  <2> SUFFICES ASSUME NEW f \in Certs \X Locations,
                      f[2] \in Elements(newCache'[f[1]]), ~Repeated(f)
               PROVE  /\ \A p \in Elements(queue) : ~Yields(p, f)
                      /\ \A v \in Workers : pc[v] = "get" => ~Yields(path[v], f)
                      /\ \A v \in Workers : f \notin Elements(finds'[v])
                      /\ ~Twice(newCache'[f[1]], f[2])
    BY <1>1 DEF NotAgain
  <2>1. f[1] \in Certs /\ f[2] \in Locations /\ h[1] \in Certs /\ h[2] \in Locations
        /\ newCache[f[1]] \in Seq(Locations)
        /\ (f = h <=> f[1] = h[1] /\ f[2] = h[2])
    <3>1. f[1] \in Certs /\ f[2] \in Locations /\ h[1] \in Certs /\ h[2] \in Locations
          /\ f = <<f[1], f[2]>> /\ h = <<h[1], h[2]>>
      BY <1>2
    <3>2. newCache[f[1]] \in Seq(Locations)
      BY <3>1 DEF IInv, TypeOK
    <3> QED BY <3>1, <3>2, Zenon
  <2>2. f[2] \in Elements(newCache[f[1]]) =>
          /\ \A p \in Elements(queue) : ~Yields(p, f)
          /\ \A v \in Workers : pc[v] = "get" => ~Yields(path[v], f)
          /\ \A v \in Workers : f \notin Elements(finds[v])
          /\ ~Twice(newCache[f[1]], f[2])
    BY DEF Once, NotAgain
  <2>3. \A v \in Workers : f \notin Elements(finds[v]) => f \notin Elements(finds'[v])
    BY <1>2
  <2>4. CASE f # h
    <3>1. newCache'[f[1]] = newCache[f[1]]
          \/ (newCache'[f[1]] = Merge(newCache[f[1]], h[2]) /\ f[2] # h[2])
      BY <1>2, <2>1, <2>4
    <3>2. f[2] \in Elements(newCache[f[1]])
      BY <2>1, <3>1, MergeType
    <3>3. ~Twice(newCache'[f[1]], f[2])
      BY <2>1, <2>2, <3>1, <3>2, MergeTwice
    <3> QED BY <2>2, <2>3, <3>2, <3>3
  <2>5. CASE f = h
    <3>1. f \in Elements(finds[w]) /\ f[2] \notin Elements(newCache[f[1]])
      BY <1>2, <2>2, <2>5
    <3>2. Yields(path[w], f) /\ path[w] \in DOMAIN Secrets
      BY <3>1 DEF Once, Sourced, IInv, TypeOK
    <3>3. ASSUME NEW p \in DOMAIN Secrets, Yields(p, f) PROVE p = path[w]
      BY <3>2, <3>3 DEF DistinctPaths, Yields
    <3>4. path[w] \notin Elements(queue)
          /\ \A v \in Workers : Reading(v) /\ path[v] = path[w] => v = w
      BY <1>1 DEF Once, ReadOnce, Reading
    <3>5. \A p \in Elements(queue) : ~Yields(p, f)
      <4>1. Elements(queue) \subseteq DOMAIN Secrets
        BY DEF IInv, TypeOK, Elements
      <4> QED BY <3>3, <3>4, <4>1
    <3>6. ASSUME NEW v \in Workers, pc[v] = "get" PROVE ~Yields(path[v], f)
      <4>1. path[v] \in DOMAIN Secrets /\ v # w /\ Reading(v)
        BY <1>1, <3>6 DEF IInv, TypeOK, Reading
      <4> QED BY <3>3, <3>4, <4>1
    <3>7. ASSUME NEW v \in Workers PROVE f \notin Elements(finds'[v])
      <4>1. CASE v = w
        BY <1>3, <2>5, <4>1 DEF Once, Sourced
      <4>2. CASE v # w
        <5>1. SUFFICES ASSUME f \in Elements(finds[v]) PROVE FALSE
          BY <1>2, <4>2
        <5>2. Yields(path[v], f) /\ path[v] \in DOMAIN Secrets
          BY <5>1 DEF Once, Sourced, IInv, TypeOK
        <5>3. finds[v] # << >>
          BY <5>1 DEF Elements
        <5>4. Reading(v)
          BY <5>3 DEF IInv, Merging, Reading
        <5> QED BY <3>3, <3>4, <4>2, <5>2, <5>4
      <4> QED BY <4>1, <4>2
    <3>8. ~Twice(newCache'[f[1]], f[2])
      <4>1. newCache'[f[1]] = Merge(newCache[f[1]], f[2])
        BY <1>2, <2>1, <2>5
      <4>2. ~Twice(newCache[f[1]], f[2])
        BY <3>1 DEF Twice, Elements
      <4> QED BY <2>1, <3>1, <4>1, <4>2, MergeTwice
    <3> QED BY <3>5, <3>6, <3>7, <3>8
  <2> QED BY <2>4, <2>5
<1> QED BY <1>4, <1>5, <1>6 DEF Once

LEMMA OnceInvariance ==
  ASSUME DistinctPaths
  PROVE  Spec => [](IInv /\ Once)
<1>1. Init => Once
  <2>1. \A x : Elements(<< >>) = {} /\ ~Twice(<< >>, x)
    BY DEF Elements, Twice
  <2> QED BY <2>1 DEF Init, Empty, Once, ReadOnce, Sourced, NotAgain, Reading
<1>2. IInv /\ Once /\ [Next]_vars => Once'
  <2> SUFFICES ASSUME IInv, Once, [Next]_vars PROVE Once'
    OBVIOUS
  <2>1. CASE UNCHANGED <<newCache, queue, path, finds>>
             /\ \A w \in Workers : pc'[w] = pc[w] \/ pc'[w] \notin {"get", "merge"}
    BY <2>1 DEF Once, ReadOnce, Sourced, NotAgain, Reading
  <2>2. CASE Start
    BY <2>2, StartOnce
  <2>3. CASE \E w \in Workers : Step(w)
    <3>1. PICK w \in Workers : Step(w)
      BY <2>3
    <3>2. CASE GetFails(w) \/ SecretDone(w) \/ Count(w)
      BY <2>1, <3>2 DEF GetFails, SecretDone, Count, IInv, TypeOK
    <3> QED BY <3>1, <3>2, ReceiveOnce, GetSucceedsOnce, MergeCertOnce DEF Step
  <2> QED BY <2>1, <2>2, <2>3 DEF Next, Return, vars, caller
<1> QED BY <1>1, <1>2, Invariance, PTL DEF Spec

\* Whatever the order in which the workers merge what they find, each path
\* list is sorted, and if the paths are distinct it repeats a path only when
\* one secret yields the certificate twice (core.go:112-127).
THEOREM ListsStayInOrder == Spec => []ListsInOrder
<1>1. IInv /\ Sorting =>
        \A c \in Certs : \A i \in 1 .. Len(newCache[c]) - 1 : newCache[c][i] <= newCache[c][i + 1]
  <2> SUFFICES ASSUME IInv, Sorting, NEW c \in Certs, NEW i \in 1 .. Len(newCache[c]) - 1
               PROVE  newCache[c][i] <= newCache[c][i + 1]
    OBVIOUS
  <2>1. newCache[c] \in Seq(Locations)
    BY DEF IInv, TypeOK
  <2>2. i \in DOMAIN newCache[c] /\ i + 1 \in DOMAIN newCache[c] /\ i <= i + 1
    BY <2>1
  <2> QED BY <2>2 DEF Sorting, Ordered
<1>2. IInv /\ Once =>
        \A c \in Certs : \A l \in Elements(newCache[c]) : Copies(newCache[c], l) > 1 =>
          \E p \in DOMAIN Secrets : \E secret \in Secrets[p] : Copies(secret, <<c, l>>) > 1
  <2> SUFFICES ASSUME IInv, Once, NEW c \in Certs, NEW l \in Elements(newCache[c]),
                      Copies(newCache[c], l) > 1
               PROVE  \E p \in DOMAIN Secrets : \E secret \in Secrets[p] :
                        Copies(secret, <<c, l>>) > 1
    OBVIOUS
  <2>1. newCache[c] \in Seq(Locations) /\ l \in Locations
    BY DEF IInv, TypeOK, Elements
  <2>2. Twice(newCache[c], l)
    BY <2>1, TwiceIsCopies
  <2>3. Repeated(<<c, l>>)
    BY <2>1, <2>2 DEF Once, NotAgain
  <2>4. PICK p \in DOMAIN Secrets : \E secret \in Secrets[p] : Twice(secret, <<c, l>>)
    BY <2>3 DEF Repeated
  <2>6. PICK secret \in Secrets[p] : Twice(secret, <<c, l>>)
    BY <2>4
  <2>5. secret \in Seq(Certs \X Locations)
    BY PopulateAssumption
  <2> QED BY <2>5, <2>6, TwiceIsCopies
<1>3. CASE DistinctPaths
  <2>1. Spec => [](IInv /\ Once)
    BY <1>3, OnceInvariance
  <2>2. IInv /\ Sorting /\ Once => ListsInOrder
    BY <1>1, <1>2 DEF ListsInOrder
  <2> QED BY <2>1, <2>2, SortingInvariance, PTL
<1>4. CASE ~DistinctPaths
  <2>1. IInv /\ Sorting => ListsInOrder
    BY <1>1, <1>4 DEF ListsInOrder
  <2> QED BY <2>1, SortingInvariance, PTL
<1> QED BY <1>3, <1>4
=============================================================================
