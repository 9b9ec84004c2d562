--------------------------- MODULE CertCacheProofs ---------------------------
(* What holds of CertCache for any number of sources and of locations. The  *)
(* lemmas on single iterations of its loops are those of PathListProofs.    *)
EXTENDS CertCache, PathListProofs, FiniteSetTheorems, NaturalsInduction

-----------------------------------------------------------------------------
(* Loops.                                                                  *)

\* A set of natural numbers has a least element.
LEMMA LeastNat ==
  ASSUME NEW S \in SUBSET Nat, S # {}
  PROVE  \E m \in S : \A n \in S : ~ (n < m)
<1> DEFINE R == OpToRel(<, Nat)
<1>1. \A m, n \in Nat : <<m, n>> \in R <=> m < n
  BY DEF OpToRel
<1>2. IsWellFoundedOn(R, Nat)
  BY NatLessThanWellFounded
<1> HIDE DEF R
<1>3. S \subseteq Nat /\ S # {}
  OBVIOUS
<1>4. \E m \in S : \A n \in S : ~ (<<n, m>> \in R)
  BY <1>2, <1>3, WFMin, Zenon
<1> QED BY <1>1, <1>3, <1>4, Zenon

\* f is what becomes of start when step G is done again and again.
IsRun(f, X, G, start, bound) ==
  /\ f \in [0 .. bound -> X] /\ f[0] = start
  /\ \A k \in 1 .. bound : f[k] = G[f[k - 1]]

\* A step that keeps to X can be repeated any number of times.
LEMMA Repeated ==
  ASSUME NEW X, NEW G, NEW start, NEW bound,
         G \in [X -> X], start \in X, bound \in Nat
  PROVE  \E f : IsRun(f, X, G, start, bound)
<1> DEFINE Good(n) == \E f \in [0 .. n -> X] :
                        f[0] = start /\ \A k \in 1 .. n : f[k] = G[f[k - 1]]
           Bad == {n \in Nat : ~ Good(n)}
<1>1. CASE Bad = {}
  BY <1>1 DEF IsRun
<1>2. CASE Bad # {}
  <2>1. PICK n \in Bad : \A k \in Bad : ~ (k < n)
    BY <1>2, LeastNat
  <2>2. CASE n = 0
    <3> DEFINE f == [k \in 0 .. n |-> start]
    <3>1. f \in [0 .. n -> X] /\ f[0] = start /\ 1 .. n = {}
      BY <2>2
    <3> HIDE DEF f
    <3>2. Good(n)
      BY <3>1
    <3> QED BY <2>1, <3>2
  <2>3. CASE n # 0
    <3>1. n - 1 \in Nat /\ n - 1 < n /\ n - 1 \notin Bad
      <4>1. n \in Nat
        OBVIOUS
      <4>2. n - 1 \in Nat /\ n - 1 < n
        BY <2>3, <4>1
      <4> QED BY <2>1, <4>2, Zenon
    <3>2. PICK f \in [0 .. n - 1 -> X] :
            f[0] = start /\ \A k \in 1 .. n - 1 : f[k] = G[f[k - 1]]
      BY <3>1, Zenon
    <3> DEFINE g == [k \in 0 .. n |-> IF k = n THEN G[f[n - 1]] ELSE f[k]]
    <3>3. g \in [0 .. n -> X]
      BY <3>1
    <3>4. g[0] = start /\ \A k \in 1 .. n : g[k] = G[g[k - 1]]
      BY <2>3, <3>1, <3>2
    <3>5. Good(n)
      BY <3>3, <3>4
    <3> QED BY <2>1, <3>5
  <2> QED BY <2>2, <2>3
<1> QED BY <1>1, <1>2

\* The loop is over in End; anywhere else in X an iteration leaves less to do.
Advances(X, End, G, R) ==
  /\ \A x \in X : R[x] \in Nat
  /\ \A x \in X \intersect End : G[x] = x
  /\ \A x \in X \ End : G[x] \in X /\ R[G[x]] < R[x]

Follows(g, X, G, start, bound) ==
  g[0] = start /\ \A k \in 1 .. bound : g[k - 1] \in X => g[k] = G[g[k - 1]]

\* A loop that advances is over after as many iterations as it had to do.
LEMMA LoopEnds ==
  ASSUME NEW X, NEW End, NEW G, NEW R, NEW start, NEW bound, NEW g,
         start \in X, bound \in Nat, Advances(X, End, G, R), R[start] <= bound,
         Follows(g, X, G, start, bound)
  PROVE  g[bound] \in X \intersect End
<1> USE DEF Advances, Follows
<1> DEFINE Good(k) == g[k] \in X /\ (g[k] \in End \/ R[g[k]] + k <= bound)
           Bad == {k \in 0 .. bound : ~ Good(k)}
<1>1. ASSUME NEW k \in 1 .. bound, Good(k - 1) PROVE Good(k)
  <2>1. k - 1 \in Nat /\ g[k] = G[g[k - 1]] /\ g[k - 1] \in X
    BY <1>1
  <2>2. CASE g[k - 1] \in End
    BY <2>1, <2>2
  <2>3. CASE g[k - 1] \notin End
    <3>1. g[k] \in X /\ R[g[k]] < R[g[k - 1]] /\ R[g[k - 1]] + (k - 1) <= bound
      BY <1>1, <2>1, <2>3
    <3>2. R[g[k]] \in Nat /\ R[g[k - 1]] \in Nat
      BY <2>1, <3>1
    <3>3. R[g[k]] + k <= bound
      BY <2>1, <3>1, <3>2
    <3> QED BY <3>1, <3>3
  <2> QED BY <2>2, <2>3
<1>2. Good(0)
  BY DEF Good
<1> HIDE DEF Good
<1>3. Bad = {}
  <2> SUFFICES ASSUME Bad # {} PROVE FALSE
    OBVIOUS
  <2>1. PICK k \in Bad : \A l \in Bad : ~ (l < k)
    <3>1. Bad \subseteq Nat
      OBVIOUS
    <3> QED BY <3>1, LeastNat
  <2>2. k # 0 /\ k \in 1 .. bound /\ k - 1 \in 0 .. bound /\ k - 1 < k
    BY <1>2, <2>1
  <2>3. Good(k - 1)
    BY <2>1, <2>2
  <2> QED BY <1>1, <2>1, <2>2, <2>3
<1>4. g[bound] \in X /\ (g[bound] \in End \/ R[g[bound]] + bound <= bound)
  BY <1>3 DEF Good
<1>5. CASE g[bound] \notin End
  <2>1. R[g[bound]] = 0
    BY <1>4, <1>5
  <2>2. G[g[bound]] \in X /\ R[G[g[bound]]] < 0
    BY <1>4, <1>5, <2>1
  <2> QED BY <2>2
<1> QED BY <1>4, <1>5

\* The lists calcDiff gets from pathListDiff (cache.go:95-118).
LEMMA DiffIs ==
  ASSUME NEW o \in Seq(PathObject), NEW n \in Seq(PathObject), Sorted(o), Sorted(n)
  PROVE  /\ Diff(o, n).toDelete \in Seq(PathObject) /\ Diff(o, n).toAdd \in Seq(PathObject)
         /\ Range(Diff(o, n).toDelete) = Range(o) \ Range(n)
         /\ Range(Diff(o, n).toAdd) = Range(n) \ Range(o)
         /\ Sorted(Diff(o, n).toDelete) /\ Sorted(Diff(o, n).toAdd)
<1> DEFINE start == DiffStart(o, n)
           bound == Len(o) + Len(n)
           X == {c \in DiffCalls : DiffInv(c) /\ c.o = o /\ c.n = n}
           End == {c \in X : DiffDone(c)}
           G == [c \in X |-> IF DiffDone(c) THEN c ELSE DiffStep(c)]
           R == [c \in X |-> Remaining(c)]
           Body(g) == [k \in 0 .. bound |->
                         IF k = 0 THEN start
                         ELSE IF DiffDone(g[k - 1]) THEN g[k - 1] ELSE DiffStep(g[k - 1])]
           at == CHOOSE g : g = Body(g)
<1>1. start \in X /\ Remaining(start) = bound /\ bound \in Nat
  <2>1. Passed(o, n, 0, 0, << >>) /\ Passed(n, o, 0, 0, << >>)
    BY EmptyList DEF Passed
  <2>2. start \in DiffCalls
    BY EmptyList DEF DiffCalls, DiffStart
  <2> QED BY <2>1, <2>2 DEF DiffStart, DiffInv, Remaining
<1>2. ASSUME NEW c \in X
      PROVE  /\ Remaining(c) \in Nat
             /\ ~ DiffDone(c) => DiffStep(c) \in X /\ Remaining(DiffStep(c)) < Remaining(c)
  <2>1. Remaining(c) \in Nat
    BY DEF DiffInv, DiffCalls, Passed, Remaining
  <2>2. ASSUME ~ DiffDone(c) PROVE DiffStep(c) \in X /\ Remaining(DiffStep(c)) < Remaining(c)
    <3>1. DiffInv(DiffStep(c)) /\ Remaining(DiffStep(c)) < Remaining(c)
      BY <2>2, DiffStepKeepsInv
    <3>2. DiffStep(c).o = c.o /\ DiffStep(c).n = c.n
      BY DEF DiffStep, DropOld, TakeNew, KeepBoth, DiffCalls
    <3> QED BY <3>1, <3>2 DEF DiffInv
  <2> QED BY <2>1, <2>2
<1>3. G \in [X -> X]
  BY <1>2
<1>4. /\ \A c \in X : G[c] = IF DiffDone(c) THEN c ELSE DiffStep(c)
      /\ start \in X /\ bound \in Nat /\ R[start] = bound
  BY <1>1
<1>5. Advances(X, End, G, R)
  BY <1>2 DEF Advances
<1>6. Diff(o, n) = at[bound]
  BY DEF Diff, Finished
<1> HIDE DEF start, bound, X, End, G, R
<1>7. \E f : f = Body(f)
  <2>1. PICK f : IsRun(f, X, G, start, bound)
    BY <1>3, <1>4, Repeated
  <2>2. ASSUME NEW k \in 0 .. bound PROVE f[k] = Body(f)[k]
    <3>1. k \in 1 .. bound => k - 1 \in 0 .. bound
      BY <1>4
    <3>2. k # 0 => k \in 1 .. bound
      BY <1>4
    <3> QED BY <1>4, <2>1, <3>1, <3>2 DEF IsRun
  <2> QED BY <2>1, <2>2 DEF IsRun
<1>8. at[bound] \in X \intersect End
  <2>1. at = Body(at)
    BY <1>7
  <2> HIDE DEF at
  <2>2. Follows(at, X, G, start, bound)
    BY <1>4, <2>1 DEF Follows
  <2> QED BY <1>4, <1>5, <2>2, LoopEnds
<1>9. PICK c : c = Diff(o, n)
  OBVIOUS
<1>10. c \in X /\ DiffDone(c)
  BY <1>6, <1>8, <1>9 DEF End
<1>11. c \in DiffCalls /\ DiffInv(c) /\ c.o = o /\ c.n = n
  BY <1>10 DEF X
<1>12. c.toDelete \in Seq(PathObject) /\ c.toAdd \in Seq(PathObject)
  BY <1>11 DEF DiffCalls
<1> QED BY <1>9, <1>10, <1>11, <1>12, DiffAtEnd

\* A slice as the code makes them: no longer than its array.
IsSlice(slice) == slice.arr \in Seq(PathObject) /\ slice.len \in 0 .. Len(slice.arr)

LEMMA HoldsContent ==
  ASSUME NEW slice, IsSlice(slice)
  PROVE  Holding(slice, Content(slice)) /\ Content(slice) \in Seq(PathObject)
BY ContentFacts DEF Holding, IsSlice

\* The loop of deletePaths (cache.go:127-146).
LEMMA DeleteLoopIs ==
  ASSUME NEW slice, IsSlice(slice), Sorted(Content(slice)),
         NEW del \in Seq(PathObject), Sorted(del),
         NEW shared \in BOOLEAN, shared => del = Content(slice),
         NEW end, end = Finished(DeleteStart(slice, del, shared), slice.len + Len(del),
                                 DeleteDone, DeleteStep)
  PROVE  /\ IsSlice(end) /\ Len(end.arr) = Len(slice.arr)
         /\ Range(Content(end)) = Range(Content(slice)) \ Range(del)
         /\ Sorted(Content(end))
<1> DEFINE start == DeleteStart(slice, del, shared)
           bound == slice.len + Len(del)
           b == Content(slice)
           X == {c \in DeleteCalls : DeleteInv(c, b) /\ c.toDelete = del
                                       /\ Len(c.arr) = Len(slice.arr)}
           End == {c \in X : DeleteDone(c)}
           G == [c \in X |-> IF DeleteDone(c) THEN c ELSE DeleteStep(c)]
           R == [c \in X |-> Remaining(c)]
           Body(g) == [k \in 0 .. bound |->
                         IF k = 0 THEN start
                         ELSE IF DeleteDone(g[k - 1]) THEN g[k - 1] ELSE DeleteStep(g[k - 1])]
           at == CHOOSE g : g = Body(g)
<1>0. b \in Seq(PathObject) /\ slice.len \in Nat /\ Len(del) \in Nat /\ Len(slice.arr) \in Nat
  BY HoldsContent DEF IsSlice
<1>1. start \in X /\ Remaining(start) = bound /\ bound \in Nat
  <2>1. DeleteInv(start, b)
    BY HoldsContent, DeleteStartInv
  <2> QED BY <1>0, <2>1 DEF DeleteStart, DeleteInv, Remaining
<1>2. ASSUME NEW c \in X
      PROVE  /\ Remaining(c) \in Nat
             /\ ~ DeleteDone(c) => DeleteStep(c) \in X /\ Remaining(DeleteStep(c)) < Remaining(c)
  <2>1. Remaining(c) \in Nat
    <3>1. c.len \in Nat /\ c.wIdx \in 0 .. c.len /\ c.dIdx \in 0 .. Len(del) /\ c.fn = "deletePaths"
      BY DEF DeleteInv, DeleteCalls, Pruned
    <3> QED BY <1>0, <3>1 DEF Remaining
  <2>2. ASSUME ~ DeleteDone(c) PROVE DeleteStep(c) \in X /\ Remaining(DeleteStep(c)) < Remaining(c)
    <3>1. DeleteInv(DeleteStep(c), b) /\ Remaining(DeleteStep(c)) < Remaining(c)
      BY <2>2, DeleteStepKeepsInv
    <3>2. DeleteStep(c).toDelete = c.toDelete
      BY DEF DeleteStep, DeleteCalls
    <3>3. Len(DeleteStep(c).arr) = Len(c.arr)
      <4>1. c.arr \in Seq(PathObject) /\ Len(c.arr) \in Nat
        BY DEF DeleteCalls
      <4>2. Len(Closed(c)) = Len(c.arr)
        BY <4>1 DEF Closed
      <4> QED BY <4>2 DEF DeleteStep, DeleteCalls
    <3> QED BY <3>1, <3>2, <3>3 DEF DeleteInv
  <2> QED BY <2>1, <2>2
<1>3. G \in [X -> X]
  BY <1>2
<1>4. /\ \A c \in X : G[c] = IF DeleteDone(c) THEN c ELSE DeleteStep(c)
      /\ start \in X /\ bound \in Nat /\ R[start] = bound
  BY <1>1
<1>5. Advances(X, End, G, R)
  BY <1>2 DEF Advances
<1>6. end = at[bound]
  BY DEF Finished
<1> HIDE DEF start, bound, X, End, G, R
<1>7. \E f : f = Body(f)
  <2>1. PICK f : IsRun(f, X, G, start, bound)
    BY <1>3, <1>4, Repeated
  <2>2. ASSUME NEW k \in 0 .. bound PROVE f[k] = Body(f)[k]
    <3>1. k \in 1 .. bound => k - 1 \in 0 .. bound
      BY <1>4
    <3>2. k # 0 => k \in 1 .. bound
      BY <1>4
    <3> QED BY <1>4, <2>1, <3>1, <3>2 DEF IsRun
  <2> QED BY <2>1, <2>2 DEF IsRun
<1>8. at[bound] \in X \intersect End
  <2>1. at = Body(at)
    BY <1>7
  <2> HIDE DEF at
  <2>2. Follows(at, X, G, start, bound)
    BY <1>4, <2>1 DEF Follows
  <2> QED BY <1>4, <1>5, <2>2, LoopEnds
<1>9. end \in DeleteCalls /\ DeleteInv(end, b) /\ end.toDelete = del /\ DeleteDone(end)
      /\ Len(end.arr) = Len(slice.arr)
  BY <1>6, <1>8, Zenon DEF X, End
<1>10. IsSlice(end)
  BY <1>9 DEF IsSlice, DeleteCalls, DeleteInv, Pruned
<1> QED BY <1>0, <1>9, <1>10, DeleteAtEnd

\* The loop of addNewFrom (cache.go:171-187). An array that has no room grows
\* when something new is appended; one that starts from nil is full as long
\* as it has two elements at most.
LEMMA MergedIs ==
  ASSUME NEW slice, IsSlice(slice), NEW list \in Seq(PathObject)
  PROVE  /\ IsSlice(Merged(slice, list))
         /\ Range(Content(slice)) \intersect Range(list) = {} =>
              Content(Merged(slice, list)) = Content(slice) \o list
         /\ slice.arr = << >> /\ Merged(slice, list).len <= 2 =>
              Len(Merged(slice, list).arr) = Merged(slice, list).len
         /\ list = << >> => Merged(slice, list).arr = slice.arr
<1> DEFINE start == MergeStart(slice, list)
           bound == slice.len + Len(list)
           b == Content(slice)
           Full(c) == /\ slice.arr = << >> /\ c.len <= 2 => Len(c.arr) = c.len
                      /\ list = << >> => c.arr = slice.arr
           X == {c \in MergeCalls : MergeInv(c, b) /\ c.obj = list /\ Full(c)}
           End == {c \in X : MergeDone(c)}
           G == [c \in X |-> IF MergeDone(c) THEN c ELSE MergeStep(c)]
           R == [c \in X |-> Remaining(c)]
           Body(g) == [k \in 0 .. bound |->
                         IF k = 0 THEN start
                         ELSE IF MergeDone(g[k - 1]) THEN g[k - 1] ELSE MergeStep(g[k - 1])]
           at == CHOOSE g : g = Body(g)
<1>0. b \in Seq(PathObject) /\ slice.len \in Nat /\ Len(list) \in Nat /\ Len(slice.arr) \in Nat
  BY HoldsContent DEF IsSlice
<1>1. start \in X /\ Remaining(start) = bound /\ bound \in Nat
  <2>1. MergeInv(start, b)
    BY HoldsContent, MergeStartInv
  <2>2. Full(start)
    BY DEF MergeStart, IsSlice
  <2> QED BY <1>0, <2>1, <2>2 DEF MergeStart, MergeInv, Remaining
<1>2. ASSUME NEW c \in X
      PROVE  /\ Remaining(c) \in Nat
             /\ ~ MergeDone(c) => MergeStep(c) \in X /\ Remaining(MergeStep(c)) < Remaining(c)
  <2>0. /\ c \in MergeCalls /\ MergeInv(c, b) /\ c.obj = list /\ Full(c)
        /\ c.arr \in Seq(PathObject) /\ c.len \in 0 .. Len(c.arr)
        /\ c.oIdx \in 0 .. Len(list) /\ c.existingLen \in Nat /\ c.eIdx \in 0 .. c.existingLen
        /\ c.fn = "addNewFrom"
    <3>1. /\ c.eIdx \in Nat /\ c.existingLen \in Nat /\ c.eIdx <= c.existingLen
      BY DEF MergeInv, MergeCalls
    <3>2. /\ c.arr \in Seq(PathObject) /\ Len(c.arr) \in Nat /\ c.oIdx \in 0 .. Len(c.obj)
          /\ c.len \in Len(b) .. Len(c.arr) /\ Len(b) \in Nat
      BY <1>0 DEF MergeInv, MergeCalls, Joined
    <3> QED BY <3>1, <3>2 DEF MergeCalls
  <2>1. Remaining(c) \in Nat
    BY <1>0, <2>0 DEF Remaining
  <2>2. ASSUME ~ MergeDone(c) PROVE MergeStep(c) \in X /\ Remaining(MergeStep(c)) < Remaining(c)
    <3>1. MergeInv(MergeStep(c), b) /\ Remaining(MergeStep(c)) < Remaining(c)
      BY <2>0, <2>2, MergeStepKeepsInv
    <3>2. MergeStep(c).obj = c.obj
      BY DEF MergeStep, AppendObj, MergeCalls
    <3>3. Full(MergeStep(c))
      <4>1. CASE MergeStep(c) = AppendObj(c)
        <5>1. AppendObj(c).len = c.len + 1
              /\ Len(AppendObj(c).arr) = Room(c.arr, c.len)
          <6>1. Room(c.arr, c.len) \in Nat
            BY <2>0 DEF Room
          <6>2. PICK p : p = c.obj[c.oIdx + 1]
            OBVIOUS
          <6>3. Len(Appended(c.arr, c.len, p)) = Room(c.arr, c.len)
            BY <6>1 DEF Appended
          <6> QED BY <2>0, <6>2, <6>3 DEF AppendObj, MergeCalls
        <5>2. ASSUME slice.arr = << >>, c.len + 1 <= 2 PROVE Room(c.arr, c.len) = c.len + 1
          <6>1. Len(c.arr) = c.len /\ c.len \in Nat
            BY <2>0, <5>2
          <6> QED BY <5>2, <6>1 DEF Room
        <5>3. list # << >>
          BY <2>0, <2>2 DEF MergeDone
        <5> QED BY <4>1, <5>1, <5>2, <5>3
      <4>2. CASE MergeStep(c).arr = c.arr /\ MergeStep(c).len = c.len
        BY <2>0, <4>2
      <4> QED BY <2>0, <4>1, <4>2 DEF MergeStep, MergeCalls
    <3> QED BY <2>0, <3>1, <3>2, <3>3 DEF MergeInv
  <2> QED BY <2>1, <2>2
<1>3. G \in [X -> X]
  BY <1>2
<1>4. /\ \A c \in X : G[c] = IF MergeDone(c) THEN c ELSE MergeStep(c)
      /\ start \in X /\ bound \in Nat /\ R[start] = bound
  BY <1>1
<1>5. Advances(X, End, G, R)
  BY <1>2 DEF Advances
<1>6. Merged(slice, list) = at[bound]
  BY DEF Merged, Finished
<1> HIDE DEF start, bound, X, End, G, R
<1>7. \E f : f = Body(f)
  <2>1. PICK f : IsRun(f, X, G, start, bound)
    BY <1>3, <1>4, Repeated
  <2>2. ASSUME NEW k \in 0 .. bound PROVE f[k] = Body(f)[k]
    <3>1. k \in 1 .. bound => k - 1 \in 0 .. bound
      BY <1>4
    <3>2. k # 0 => k \in 1 .. bound
      BY <1>4
    <3> QED BY <1>4, <2>1, <3>1, <3>2 DEF IsRun
  <2> QED BY <2>1, <2>2 DEF IsRun
<1>8. at[bound] \in X \intersect End
  <2>1. at = Body(at)
    BY <1>7
  <2> HIDE DEF at
  <2>2. Follows(at, X, G, start, bound)
    BY <1>4, <2>1 DEF Follows
  <2> QED BY <1>4, <1>5, <2>2, LoopEnds
<1>9. PICK c : c = Merged(slice, list)
  OBVIOUS
<1>10. c \in MergeCalls /\ MergeInv(c, b) /\ c.obj = list /\ Full(c) /\ MergeDone(c)
  BY <1>6, <1>8, <1>9, Zenon DEF X, End
<1>11. IsSlice(c)
  BY <1>10 DEF IsSlice, MergeCalls, MergeInv, Joined
<1> QED BY <1>9, <1>10, <1>11, MergeAtEnd

-----------------------------------------------------------------------------
(* Order.                                                                  *)

\* p puts the first n elements of arr in order.
Orders(p, n, arr) ==
  /\ p \in Bijection(1 .. n, 1 .. n)
  /\ \A i, j \in 1 .. n : i < j => ~ LessThan(arr[p[j]], arr[p[i]])

\* One more element goes behind all that are not greater.
LEMMA OrderOneMore ==
  ASSUME NEW n \in Nat, NEW arr, \A k \in 1 .. n + 1 : arr[k] \in PathObject,
         NEW p, Orders(p, n, arr)
  PROVE  \E q : Orders(q, n + 1, arr)
<1> DEFINE new == arr[n + 1]
           After == {i \in 1 .. n + 1 : i = n + 1 \/ LessThan(new, arr[p[i]])}
<1>0. /\ p \in [1 .. n -> 1 .. n]
      /\ \A i, j \in 1 .. n : p[i] = p[j] => i = j
      /\ \A k \in 1 .. n : \E i \in 1 .. n : p[i] = k
      /\ \A i, j \in 1 .. n : i < j => ~ LessThan(arr[p[j]], arr[p[i]])
  BY DEF Orders, Bijection, Injection, Surjection, IsInjective
<1>1. PICK m \in After : \A i \in After : ~ (i < m)
  <2>1. After \subseteq Nat /\ n + 1 \in After
    OBVIOUS
  <2> HIDE DEF After
  <2> QED BY <2>1, LeastNat
<1>2. /\ m \in 1 .. n + 1
      /\ m # n + 1 => LessThan(new, arr[p[m]])
      /\ \A i \in 1 .. n : i < m => ~ LessThan(new, arr[p[i]])
  BY <1>1
<1> HIDE DEF After
<1> DEFINE q == [i \in 1 .. n + 1 |-> IF i < m THEN p[i] ELSE IF i = m THEN n + 1 ELSE p[i - 1]]
<1>3. \A i \in 1 .. n + 1 : /\ i < m => i \in 1 .. n /\ q[i] = p[i] /\ p[i] \in 1 .. n
                            /\ i = m => q[i] = n + 1
                            /\ m < i => i - 1 \in 1 .. n /\ q[i] = p[i - 1] /\ p[i - 1] \in 1 .. n
  <2> SUFFICES ASSUME NEW i \in 1 .. n + 1
               PROVE  /\ i < m => i \in 1 .. n /\ q[i] = p[i] /\ p[i] \in 1 .. n
                      /\ i = m => q[i] = n + 1
                      /\ m < i => i - 1 \in 1 .. n /\ q[i] = p[i - 1] /\ p[i - 1] \in 1 .. n
    OBVIOUS
  <2>1. q[i] = IF i < m THEN p[i] ELSE IF i = m THEN n + 1 ELSE p[i - 1]
    OBVIOUS
  <2> HIDE DEF q
  <2>2. ASSUME i < m PROVE i \in 1 .. n
    BY <1>2, <2>2
  <2>3. ASSUME m < i PROVE i - 1 \in 1 .. n /\ ~ (i < m) /\ i # m
    BY <1>2, <2>3
  <2>4. ASSUME i = m PROVE ~ (i < m)
    BY <1>2, <2>4
  <2> QED BY <1>0, <2>1, <2>2, <2>3, <2>4
<1>4. q \in [1 .. n + 1 -> 1 .. n + 1]
  <2>1. ASSUME NEW i \in 1 .. n + 1 PROVE q[i] \in 1 .. n + 1
    <3>1. i < m \/ i = m \/ m < i
      BY <1>2
    <3>2. n + 1 \in 1 .. n + 1 /\ 1 .. n \subseteq 1 .. n + 1
      OBVIOUS
    <3> HIDE DEF q
    <3> QED BY <1>3, <3>1, <3>2
  <2> QED BY <2>1
<1> HIDE DEF q
<1>5. ASSUME NEW i \in 1 .. n + 1, NEW j \in 1 .. n + 1, q[i] = q[j] PROVE i = j
  <2>1. CASE i = m \/ j = m
    BY <1>2, <1>3, <1>5, <2>1
  <2>2. CASE i < m /\ j < m
    BY <1>0, <1>3, <1>5, <2>2
  <2>3. CASE i < m /\ m < j
    <3>1. p[i] = p[j - 1] /\ i \in 1 .. n /\ j - 1 \in 1 .. n
      BY <1>3, <1>5, <2>3
    <3>2. i = j - 1
      BY <1>0, <3>1
    <3> QED BY <1>2, <2>3, <3>2
  <2>4. CASE m < i /\ j < m
    <3>1. p[i - 1] = p[j] /\ i - 1 \in 1 .. n /\ j \in 1 .. n
      BY <1>3, <1>5, <2>4
    <3>2. i - 1 = j
      BY <1>0, <3>1
    <3> QED BY <1>2, <2>4, <3>2
  <2>5. CASE m < i /\ m < j
    <3>1. p[i - 1] = p[j - 1] /\ i - 1 \in 1 .. n /\ j - 1 \in 1 .. n
      BY <1>3, <1>5, <2>5
    <3>2. i - 1 = j - 1
      BY <1>0, <3>1
    <3> QED BY <3>2
  <2> QED BY <1>2, <2>1, <2>2, <2>3, <2>4, <2>5
<1>6. ASSUME NEW k \in 1 .. n + 1 PROVE \E i \in 1 .. n + 1 : q[i] = k
  <2>1. CASE k = n + 1
    BY <1>2, <1>3, <2>1
  <2>2. CASE k # n + 1
    <3>1. PICK i \in 1 .. n : p[i] = k
      BY <1>0, <2>2
    <3>2. CASE i < m
      BY <1>3, <3>1, <3>2
    <3>3. CASE m <= i
      <4>1. i + 1 \in 1 .. n + 1 /\ m < i + 1 /\ (i + 1) - 1 = i
        BY <1>2, <3>3
      <4> QED BY <1>3, <3>1, <4>1
    <3> QED BY <1>2, <3>2, <3>3
  <2> QED BY <2>1, <2>2
<1>7. ASSUME NEW i \in 1 .. n + 1, NEW j \in 1 .. n + 1, i < j
      PROVE  ~ LessThan(arr[q[j]], arr[q[i]])
  <2>1. CASE j < m
    <3>1. i < m
      BY <1>2, <1>7, <2>1
    <3>2. i \in 1 .. n /\ j \in 1 .. n /\ q[i] = p[i] /\ q[j] = p[j]
      BY <1>3, <2>1, <3>1
    <3> QED BY <1>0, <1>7, <3>2
  <2>2. CASE j = m
    BY <1>2, <1>3, <1>7, <2>2
  <2>3. CASE m < j /\ i < m
    <3>1. i < j - 1
      BY <1>2, <2>3
    <3>2. i \in 1 .. n /\ j - 1 \in 1 .. n /\ q[i] = p[i] /\ q[j] = p[j - 1]
      BY <1>3, <2>3
    <3> QED BY <1>0, <3>1, <3>2
  <2>4. CASE m < j /\ i = m
    <3>1. /\ q[i] = n + 1 /\ q[j] = p[j - 1] /\ j - 1 \in 1 .. n /\ p[j - 1] \in 1 .. n
          /\ m \in 1 .. n /\ m <= j - 1 /\ m # n + 1
      BY <1>2, <1>3, <2>4
    <3>2. LessThan(new, arr[p[m]]) /\ p[m] \in 1 .. n
      BY <1>0, <1>2, <3>1
    <3>3. new \in PathObject /\ arr[p[m]] \in PathObject /\ arr[p[j - 1]] \in PathObject
      BY <3>1, <3>2
    <3>4. ~ LessThan(arr[p[j - 1]], arr[p[m]])
      <4>1. CASE m = j - 1
        BY <3>3, <4>1, LessThanOrder
      <4>2. CASE m < j - 1
        BY <1>0, <3>1, <4>2
      <4> QED BY <1>2, <3>1, <4>1, <4>2
    <3> QED BY <3>1, <3>2, <3>3, <3>4, LessThanOrder
  <2>5. CASE m < j /\ m < i
    <3>1. i - 1 < j - 1
      BY <1>7
    <3>2. i - 1 \in 1 .. n /\ j - 1 \in 1 .. n /\ q[i] = p[i - 1] /\ q[j] = p[j - 1]
      BY <1>3, <2>5
    <3> QED BY <1>0, <3>1, <3>2
  <2> QED BY <1>2, <2>1, <2>2, <2>3, <2>4, <2>5
<1>8. Orders(q, n + 1, arr)
  BY <1>4, <1>5, <1>6, <1>7 DEF Orders, Bijection, Injection, Surjection, IsInjective
<1> QED BY <1>8

LEMMA OrderExists ==
  ASSUME NEW n \in Nat, NEW arr, \A k \in 1 .. n : arr[k] \in PathObject
  PROVE  \E p : Orders(p, n, arr)
<1> DEFINE Bad == {l \in 0 .. n : \A p : ~ Orders(p, l, arr)}
<1>1. CASE Bad = {}
  BY <1>1
<1>2. CASE Bad # {}
  <2>1. PICK l \in Bad : \A k \in Bad : ~ (k < l)
    <3>1. Bad \subseteq Nat
      OBVIOUS
    <3> HIDE DEF Bad
    <3> QED BY <1>2, <3>1, LeastNat
  <2>2. CASE l = 0
    <3> DEFINE p == [i \in 1 .. l |-> i]
    <3>1. Orders(p, l, arr)
      BY <2>2 DEF Orders, Bijection, Injection, Surjection, IsInjective
    <3> HIDE DEF p
    <3> QED BY <2>1, <3>1
  <2>3. CASE l # 0
    <3>1. l - 1 \in 0 .. n /\ l - 1 \in Nat /\ l - 1 < l /\ (l - 1) + 1 = l /\ l \in 0 .. n
      BY <2>3
    <3>2. l - 1 \notin Bad
      BY <2>1, <3>1, Zenon
    <3>3. PICK p : Orders(p, l - 1, arr)
      BY <3>1, <3>2
    <3>4. \E q : Orders(q, (l - 1) + 1, arr)
      <4>1. \A k \in 1 .. (l - 1) + 1 : arr[k] \in PathObject
        BY <3>1
      <4> QED BY <3>1, <3>3, <4>1, OrderOneMore
    <3>5. \E q : Orders(q, l, arr)
      BY <3>1, <3>4
    <3> QED BY <2>1, <3>5
  <2> QED BY <2>2, <2>3
<1> QED BY <1>1, <1>2

\* sort.Slice (cache.go:189) keeps the elements of a slice and sorts them.
LEMMA InOrderIs ==
  ASSUME NEW arr \in Seq(PathObject), NEW len \in 0 .. Len(arr),
         \A i, j \in 1 .. len : arr[i] = arr[j] => i = j,
         NEW out, out = [arr |-> InOrder(arr, len), len |-> len]
  PROVE  /\ IsSlice(out) /\ Len(out.arr) = Len(arr)
         /\ Sorted(Content(out)) /\ Range(Content(out)) = {arr[k] : k \in 1 .. len}
<1> DEFINE p == CHOOSE p \in Bijection(1 .. len, 1 .. len) :
                  \A i, j \in 1 .. len : i < j => ~ LessThan(arr[p[j]], arr[p[i]])
           new == [k \in 1 .. Len(arr) |-> arr[IF k <= len THEN p[k] ELSE k]]
<1>0. len \in Nat /\ Len(arr) \in Nat /\ len <= Len(arr)
      /\ \A k \in 1 .. len : k \in 1 .. Len(arr) /\ arr[k] \in PathObject
  OBVIOUS
<1>1. Orders(p, len, arr)
  <2>1. \E q : Orders(q, len, arr)
    BY <1>0, OrderExists
  <2> QED BY <2>1 DEF Orders
<1>2. out = [arr |-> new, len |-> len]
  BY DEF InOrder
<1> HIDE DEF p
<1>3. /\ p \in [1 .. len -> 1 .. len]
      /\ \A i, j \in 1 .. len : p[i] = p[j] => i = j
      /\ \A k \in 1 .. len : \E i \in 1 .. len : p[i] = k
      /\ \A i, j \in 1 .. len : i < j => ~ LessThan(arr[p[j]], arr[p[i]])
  BY <1>1 DEF Orders, Bijection, Injection, Surjection, IsInjective
<1>4. new \in [1 .. Len(arr) -> PathObject]
  BY <1>0, <1>3
<1>5. new \in Seq(PathObject) /\ Len(new) = Len(arr)
  BY <1>0, <1>4
<1>6. \A k \in 1 .. len : new[k] = arr[p[k]]
  BY <1>0
<1> HIDE DEF new
<1>7. IsSlice(out) /\ Len(out.arr) = Len(arr)
  BY <1>0, <1>2, <1>5 DEF IsSlice
<1>8. /\ DOMAIN Content(out) = 1 .. len
      /\ \A k \in 1 .. len : Content(out)[k] = arr[p[k]]
      /\ Range(Content(out)) = {new[k] : k \in 1 .. len}
  BY <1>2, <1>5, <1>6, <1>7, ContentFacts DEF IsSlice
<1>9. Range(Content(out)) = {arr[k] : k \in 1 .. len}
  <2>1. ASSUME NEW k \in 1 .. len PROVE \E i \in 1 .. len : new[k] = arr[i]
    <3>1. p[k] \in 1 .. len /\ new[k] = arr[p[k]]
      BY <1>3, <1>6
    <3> QED BY <3>1
  <2>2. ASSUME NEW k \in 1 .. len PROVE \E i \in 1 .. len : arr[k] = new[i]
    <3>1. PICK i \in 1 .. len : p[i] = k
      BY <1>3
    <3>2. new[i] = arr[k]
      BY <1>6, <3>1
    <3> QED BY <3>2
  <2>3. ASSUME NEW x \in {new[k] : k \in 1 .. len} PROVE x \in {arr[k] : k \in 1 .. len}
    <3>1. PICK k \in 1 .. len : x = new[k]
      OBVIOUS
    <3> QED BY <2>1, <3>1
  <2>4. ASSUME NEW x \in {arr[k] : k \in 1 .. len} PROVE x \in {new[k] : k \in 1 .. len}
    <3>1. PICK k \in 1 .. len : x = arr[k]
      OBVIOUS
    <3> QED BY <2>2, <3>1
  <2>5. {new[k] : k \in 1 .. len} = {arr[k] : k \in 1 .. len}
    BY <2>3, <2>4, Zenon
  <2> QED BY <1>8, <2>5
<1>10. ASSUME NEW i \in 1 .. len, NEW j \in 1 .. len, i < j
       PROVE  LessThan(arr[p[i]], arr[p[j]])
  <2>1. p[i] \in 1 .. len /\ p[j] \in 1 .. len /\ p[i] # p[j]
    BY <1>3, <1>10
  <2>2. arr[p[i]] \in PathObject /\ arr[p[j]] \in PathObject /\ arr[p[i]] # arr[p[j]]
    BY <1>0, <2>1
  <2> QED BY <1>3, <1>10, <2>2, LessThanOrder
<1>11. Sorted(Content(out))
  BY <1>8, <1>10 DEF Sorted
<1> QED BY <1>7, <1>9, <1>11

\* Two sorted lists of the same paths are one list.
LEMMA SortedPrefix ==
  ASSUME NEW s \in Seq(PathObject), NEW t \in Seq(PathObject), Sorted(s), Sorted(t),
         Range(s) = Range(t)
  PROVE  Len(s) <= Len(t) /\ \A k \in 1 .. Len(s) : s[k] = t[k]
<1> DEFINE Bad == {k \in 1 .. Len(s) : k > Len(t) \/ s[k] # t[k]}
<1>0. /\ Len(s) \in Nat /\ Len(t) \in Nat
      /\ DOMAIN s = 1 .. Len(s) /\ DOMAIN t = 1 .. Len(t)
      /\ \A k \in 1 .. Len(s) : s[k] \in PathObject
      /\ \A k \in 1 .. Len(t) : t[k] \in PathObject
  OBVIOUS
<1>1. CASE Bad = {}
  BY <1>0, <1>1
<1>2. CASE Bad # {}
  <2>1. PICK k \in Bad : \A l \in Bad : ~ (l < k)
    <3>1. Bad \subseteq Nat
      OBVIOUS
    <3> HIDE DEF Bad
    <3> QED BY <1>2, <3>1, LeastNat
  <2>2. /\ k \in 1 .. Len(s) /\ (k > Len(t) \/ s[k] # t[k])
        /\ \A l \in 1 .. Len(s) : l < k => l <= Len(t) /\ s[l] = t[l]
    BY <1>0, <2>1
  <2>3. PICK j \in 1 .. Len(t) : t[j] = s[k]
    BY <1>0, <2>2 DEF Range
  <2>4. ~ (j < k)
    <3> SUFFICES ASSUME j < k PROVE FALSE
      OBVIOUS
    <3>1. j \in 1 .. Len(s) /\ s[j] = t[j]
      BY <1>0, <2>2, <2>3
    <3>2. LessThan(s[j], s[k])
      BY <1>0, <2>2, <3>1 DEF Sorted
    <3> QED BY <1>0, <2>2, <2>3, <3>1, <3>2, LessThanOrder
  <2>5. k \in 1 .. Len(t) /\ s[k] # t[k] /\ k < j
    BY <1>0, <2>2, <2>3, <2>4
  <2>6. LessThan(t[k], s[k])
    BY <1>0, <2>3, <2>5 DEF Sorted
  <2>7. PICK i \in 1 .. Len(s) : s[i] = t[k]
    BY <1>0, <2>5 DEF Range
  <2>8. CASE i < k
    <3>1. t[i] = t[k] /\ i \in 1 .. Len(t)
      BY <2>2, <2>5, <2>7, <2>8
    <3>2. LessThan(t[i], t[k])
      BY <1>0, <2>5, <2>8, <3>1 DEF Sorted
    <3> QED BY <1>0, <2>5, <3>1, <3>2, LessThanOrder
  <2>9. CASE k < i
    <3>1. LessThan(s[k], s[i])
      BY <1>0, <2>2, <2>7, <2>9 DEF Sorted
    <3> QED BY <1>0, <2>2, <2>6, <2>7, <3>1, LessThanOrder
  <2> QED BY <2>5, <2>7, <2>8, <2>9
<1> QED BY <1>1, <1>2

LEMMA SortedUnique ==
  ASSUME NEW s \in Seq(PathObject), NEW t \in Seq(PathObject), Sorted(s), Sorted(t),
         Range(s) = Range(t)
  PROVE  s = t
<1>1. Len(s) <= Len(t) /\ Len(t) <= Len(s) /\ \A k \in 1 .. Len(s) : t[k] = s[k]
  BY SortedPrefix
<1>2. Len(t) = Len(s)
  BY <1>1
<1> QED BY <1>1, <1>2, SeqEqual

-----------------------------------------------------------------------------
(* The invariant. Its parts take memory and entries as parameters, so that *)
(* they can be said of two memories.                                       *)

\* Where the global entry lies in an array that it has taken from one source,
\* that array has no room for a path another source may append. The list of
\* that source then fills it, as lists of 1, 2, 4, 8 paths do.
RoomNotShared ==
  \A r, s \in Sources :
    r # s /\ global # Absent /\ Applied(r) # Absent /\ Applied(r).arr = global.arr =>
      Len(mem[global.arr]) = global.len

Memory == [Arrays -> Seq(PathObject)]

\* An entry that holds paths, in order.
Held(m, e) ==
  /\ e \in Slices /\ e.arr \in Arrays /\ e.len \in 1 .. Len(m[e.arr])
  /\ Sorted(Paths(m, e))

\* An entry that s has made, and of its own paths.
Own(m, s, e) ==
  /\ Held(m, e) /\ e.arr[1] = s
  /\ \A p \in Range(Paths(m, e)) : p.Source = s

\* An entry of the cache of s.
Cached(m, s, e) ==
  \/ e = Absent
  \/ Own(m, s, e) /\ (MaxPaths <= 2 => Len(m[e.arr]) = e.len)

\* A list that calcDiff has made.
Made(m, s, e) == e = NilSlice \/ Own(m, s, e)

\* The entries of one source: of its cache c, of the cache o that its Refresh
\* started from, and the difference d and a of the two.
Stage(m, s, st, c, o, d, a) ==
  /\ st \in {"idle", "populated", "diffed"}
  /\ Cached(m, s, c) /\ Cached(m, s, o)
  /\ st = "idle" => o = Absent
  /\ st # "diffed" => d = Absent /\ a = Absent
  /\ st = "diffed" /\ (o = Absent \/ c = Absent) => d = o /\ a = c
  /\ st = "diffed" /\ o # Absent /\ c # Absent =>
       /\ Made(m, s, d) /\ Made(m, s, a) /\ a.arr # c.arr
       /\ Sorted(Paths(m, d)) /\ Sorted(Paths(m, a))
       /\ Range(Paths(m, d)) = Range(Paths(m, o)) \ Range(Paths(m, c))
       /\ Range(Paths(m, a)) = Range(Paths(m, c)) \ Range(Paths(m, o))

Known(st, c, o) == IF st = "idle" THEN c ELSE o

\* The global entry g lies in an array of a source only if it is the list of
\* that source, as the global cache knows it.
Sharing(g, st, c, o, d, a) ==
  /\ st # "idle" /\ c # Absent => c.arr # g.arr
  /\ Known(st, c, o) # Absent /\ Known(st, c, o).arr = g.arr => Known(st, c, o) = g
  /\ st = "diffed" /\ o # Absent /\ c # Absent => d.arr # g.arr /\ a.arr # g.arr

Staged == \A s \in Sources : Stage(mem, s, refresh[s], cache[s], old[s], toDelete[s], toAdd[s])

Shared ==
  global # Absent =>
    \A s \in Sources : Sharing(global, refresh[s], cache[s], old[s], toDelete[s], toAdd[s])

Union ==
  /\ global = Absent \/ Held(mem, global)
  /\ Range(Paths(mem, global)) = UNION {Range(Paths(mem, Applied(s))) : s \in Sources}

Typed ==
  /\ mem \in Memory
  /\ refresh \in [Sources -> {"idle", "populated", "diffed"}]
  /\ DOMAIN cache = Sources /\ DOMAIN old = Sources
  /\ DOMAIN toDelete = Sources /\ DOMAIN toAdd = Sources

CacheInv == Typed /\ Staged /\ Shared /\ Union

-----------------------------------------------------------------------------
(* Entries, and the arrays they lie in.                                    *)

\* A slice that lies within its array.
InMem(m, e) ==
  /\ e \in Slices
  /\ e.arr = NoArray => e.len = 0
  /\ e.arr # NoArray => e.len \in 0 .. Len(m[e.arr])

LEMMA NoArrayIsNone == NoArray \notin Arrays
BY DEF NoArray, Arrays

LEMMA NilIs ==
  /\ NilSlice \in Slices /\ NilSlice.arr = NoArray /\ NilSlice.len = 0
  /\ NilSlice # Absent
BY AbsentAssumption DEF NilSlice, Slices

LEMMA PathsFacts ==
  ASSUME NEW m \in Memory, NEW e, InMem(m, e)
  PROVE  /\ e # Absent /\ e.len \in Nat
         /\ IsSlice(SliceAt(m, e)) /\ SliceAt(m, e).len = e.len
         /\ e.arr # NoArray => e.arr \in Arrays /\ SliceAt(m, e).arr = m[e.arr]
         /\ Paths(m, e) = Content(SliceAt(m, e))
         /\ Paths(m, e) \in Seq(PathObject) /\ Len(Paths(m, e)) = e.len
         /\ DOMAIN Paths(m, e) = 1 .. e.len
<1>1. e \in Slices /\ e # Absent /\ e.arr \in Arrays \union {NoArray} /\ e.len \in Nat
  BY AbsentAssumption DEF InMem, Slices
<1>2. IsSlice(SliceAt(m, e)) /\ SliceAt(m, e).len = e.len
      /\ (e.arr # NoArray => e.arr \in Arrays /\ SliceAt(m, e).arr = m[e.arr])
  <2>1. CASE e.arr = NoArray
    <3>1. e.len = 0 /\ SliceAt(m, e) = [arr |-> << >>, len |-> 0]
      BY <2>1 DEF InMem, SliceAt
    <3> QED BY <2>1, <3>1 DEF IsSlice
  <2>2. CASE e.arr # NoArray
    <3>1. m[e.arr] \in Seq(PathObject) /\ e.len \in 0 .. Len(m[e.arr])
          /\ SliceAt(m, e) = [arr |-> m[e.arr], len |-> e.len]
      BY <1>1, <2>2 DEF InMem, SliceAt, Memory
    <3> QED BY <1>1, <2>2, <3>1 DEF IsSlice
  <2> QED BY <2>1, <2>2
<1>3. Paths(m, e) = Content(SliceAt(m, e))
  BY <1>1 DEF Paths
<1>4. /\ Content(SliceAt(m, e)) \in Seq(PathObject)
      /\ Len(Content(SliceAt(m, e))) = e.len /\ DOMAIN Content(SliceAt(m, e)) = 1 .. e.len
  BY <1>2, ContentFacts DEF IsSlice
<1> QED BY <1>1, <1>2, <1>3, <1>4

LEMMA EmptyPaths ==
  ASSUME NEW m
  PROVE  /\ Paths(m, Absent) = << >> /\ Paths(m, NilSlice) = << >>
         /\ Range(<< >>) = {} /\ Sorted(<< >>) /\ << >> \in Seq(PathObject)
         /\ InMem(m, NilSlice)
<1>1. Paths(m, Absent) = << >>
  BY DEF Paths
<1>2. Paths(m, NilSlice) = << >>
  <2>1. Paths(m, NilSlice) = SubSeq(<< >>, 1, 0)
    BY NilIs DEF Paths, Content, SliceAt
  <2> QED BY <2>1
<1>3. Range(<< >>) = {} /\ Sorted(<< >>) /\ << >> \in Seq(PathObject)
  BY EmptyList
<1> QED BY <1>1, <1>2, <1>3, NilIs DEF InMem

LEMMA HeldFacts ==
  ASSUME NEW m \in Memory, NEW e, Held(m, e)
  PROVE  /\ InMem(m, e) /\ e.arr # NoArray /\ e.arr \in Arrays /\ e # Absent
         /\ e.len \in Nat /\ e.len > 0 /\ Paths(m, e) # << >>
<1>1. /\ e.arr \in Arrays /\ m[e.arr] \in Seq(PathObject)
      /\ e \in Slices /\ e.len \in 1 .. Len(m[e.arr])
  BY DEF Held, Memory
<1>2. InMem(m, e) /\ e.arr # NoArray /\ e.len \in Nat /\ e.len > 0
  BY <1>1, NoArrayIsNone DEF InMem
<1>3. Len(Paths(m, e)) = e.len /\ e # Absent
  BY <1>2, PathsFacts
<1> QED BY <1>1, <1>2, <1>3

\* What is in the array of e is the same in both memories, as far as e goes.
Same(m2, m, e) ==
  /\ Paths(m2, e) = Paths(m, e)
  /\ e # Absent /\ e.arr \in Arrays => Len(m2[e.arr]) = Len(m[e.arr])

LEMMA SameArray ==
  ASSUME NEW m, NEW m2, NEW e, e = Absent \/ e.arr = NoArray \/ m2[e.arr] = m[e.arr]
  PROVE  Same(m2, m, e)
BY NoArrayIsNone DEF Same, Paths, SliceAt

LEMMA SameStage ==
  ASSUME NEW m, NEW m2, NEW s, NEW st, NEW c, NEW o, NEW d, NEW a,
         Stage(m, s, st, c, o, d, a),
         Same(m2, m, c), Same(m2, m, o), Same(m2, m, d), Same(m2, m, a)
  PROVE  Stage(m2, s, st, c, o, d, a)
<1>1. ASSUME NEW e, Same(m2, m, e)
      PROVE  /\ Cached(m, s, e) => Cached(m2, s, e)
             /\ Made(m, s, e) => Made(m2, s, e)
  <2>1. e \in Slices => e # Absent
    BY AbsentAssumption
  <2>2. Own(m, s, e) => Own(m2, s, e) /\ Len(m2[e.arr]) = Len(m[e.arr])
    BY <1>1, <2>1 DEF Same, Own, Held
  <2> QED BY <2>2 DEF Cached, Made
<1>2. Cached(m2, s, c) /\ Cached(m2, s, o)
  BY <1>1 DEF Stage
<1>3. ASSUME st = "diffed", o # Absent, c # Absent PROVE Made(m2, s, d) /\ Made(m2, s, a)
  BY <1>1, <1>3 DEF Stage
<1>4. /\ Paths(m2, c) = Paths(m, c) /\ Paths(m2, o) = Paths(m, o)
      /\ Paths(m2, d) = Paths(m, d) /\ Paths(m2, a) = Paths(m, a)
  BY DEF Same
<1> QED BY <1>2, <1>3, <1>4 DEF Stage

\* Each source's entries lie in arrays it has made itself.
LEMMA OwnArrays ==
  ASSUME NEW m, NEW s, NEW st, NEW c, NEW o, NEW d, NEW a,
         Stage(m, s, st, c, o, d, a), NEW e \in {c, o, d, a}, e # Absent
  PROVE  /\ e \in Slices /\ (e.arr = NoArray \/ (e.arr \in Arrays /\ e.arr[1] = s))
         /\ e.arr = NoArray => e = NilSlice
<1>1. Cached(m, s, e) \/ Made(m, s, e)
  BY DEF Stage
<1>2. CASE Cached(m, s, e)
  BY <1>2, NoArrayIsNone DEF Cached, Own, Held
<1>3. CASE Made(m, s, e)
  BY <1>3, NilIs, NoArrayIsNone DEF Made, Own, Held
<1> QED BY <1>1, <1>2, <1>3
LEMMA TwoOfFive ==
  ASSUME NEW o, NEW x, NEW y, NEW z
  PROVE  \E k, l \in 1 .. 5 : k # l /\ <<o, k>> \notin {x, y, z} /\ <<o, l>> \notin {x, y, z}
<1> DEFINE A(k) == <<o, k>>
<1>1. \A k, l \in 1 .. 5 : k # l => A(k) # A(l)
  OBVIOUS
<1>2. 1 \in 1 .. 5 /\ 2 \in 1 .. 5 /\ 3 \in 1 .. 5 /\ 4 \in 1 .. 5 /\ 5 \in 1 .. 5
  OBVIOUS
<1> HIDE DEF A
<1>3. \E k, l \in 1 .. 5 : k # l /\ A(k) \notin {x, y, z} /\ A(l) \notin {x, y, z}
  BY <1>1, <1>2
<1> QED BY <1>3 DEF A

\* An allocator with three arrays in use at most has two left.
LEMMA SlotsLeft ==
  ASSUME NEW o \in Sources \union {0}, NEW x, NEW y, NEW z,
         \A k \in 1 .. Slots : <<o, k>> \in InUse(Entries) => <<o, k>> \in {x, y, z}
  PROVE  /\ NewArray(o) \in Arrays /\ AnotherArray(o) \in Arrays
         /\ NewArray(o) # AnotherArray(o)
         /\ NewArray(o)[1] = o /\ AnotherArray(o)[1] = o
         /\ NewArray(o) # NoArray /\ AnotherArray(o) # NoArray
         /\ NewArray(o) \notin InUse(Entries) /\ AnotherArray(o) \notin InUse(Entries)
<1>1. PICK k, l \in 1 .. 5 : k # l /\ <<o, k>> \notin {x, y, z} /\ <<o, l>> \notin {x, y, z}
  BY TwoOfFive
<1>2. k \in 1 .. Slots /\ l \in 1 .. Slots
  BY CacheAssumption
<1>3. k \in FreeSlots(o) /\ l \in FreeSlots(o) /\ k # l
  BY <1>1, <1>2 DEF FreeSlots
<1>4. FreeSlot(o) \in FreeSlots(o)
  BY <1>3 DEF FreeSlot
<1>5. \E i \in FreeSlots(o) : i # FreeSlot(o)
  BY <1>3
<1>6. PICK j : j = CHOOSE i \in FreeSlots(o) : i # FreeSlot(o)
  OBVIOUS
<1>7. j \in FreeSlots(o) /\ j # FreeSlot(o)
  BY <1>5, <1>6
<1>8. NewArray(o) = <<o, FreeSlot(o)>> /\ AnotherArray(o) = <<o, j>>
  BY <1>6 DEF NewArray, AnotherArray
<1>9. \A i \in FreeSlots(o) : i \in 1 .. Slots /\ <<o, i>> \notin InUse(Entries)
  BY DEF FreeSlots
<1>10. \A i \in FreeSlots(o) : <<o, i>> \in Arrays /\ <<o, i>>[1] = o /\ <<o, i>> # NoArray
  <2> SUFFICES ASSUME NEW i \in FreeSlots(o)
               PROVE  <<o, i>> \in Arrays /\ <<o, i>>[1] = o /\ <<o, i>> # NoArray
    OBVIOUS
  <2>1. <<o, i>> \in Arrays
    BY <1>9 DEF Arrays
  <2> QED BY <2>1, NoArrayIsNone
<1>11. <<o, FreeSlot(o)>> # <<o, j>>
  BY <1>7
<1> QED BY <1>4, <1>7, <1>8, <1>9, <1>10, <1>11

LEMMA InUseBy ==
  ASSUME Staged, NEW o, NEW k \in 1 .. Slots, <<o, k>> \in InUse(Entries)
  PROVE  \/ <<o, k>> = global.arr
         \/ /\ o \in Sources
            /\ \E e \in {cache[o], old[o], toDelete[o], toAdd[o]} : e # Absent /\ <<o, k>> = e.arr
<1>1. PICK e \in Entries : e # Absent /\ <<o, k>> = e.arr
  BY DEF InUse
<1>2. CASE e = global
  BY <1>1, <1>2
<1>3. CASE e # global
  <2>1. PICK s \in Sources : e \in {cache[s], old[s], toDelete[s], toAdd[s]}
    BY <1>3 DEF Entries
  <2>2. e.arr = NoArray \/ (e.arr \in Arrays /\ e.arr[1] = s)
    BY <1>1, <2>1, OwnArrays DEF Staged
  <2>3. <<o, k>> # NoArray /\ <<o, k>>[1] = o
    BY DEF NoArray
  <2>4. o = s
    BY <1>1, <2>2, <2>3
  <2> QED BY <1>1, <2>1, <2>4
<1> QED BY <1>2, <1>3

LEMMA NewForSource ==
  ASSUME Staged, NEW s \in Sources, refresh[s] # "diffed"
  PROVE  /\ NewArray(s) \in Arrays /\ AnotherArray(s) \in Arrays
         /\ NewArray(s) # AnotherArray(s)
         /\ NewArray(s)[1] = s /\ AnotherArray(s)[1] = s
         /\ NewArray(s) # NoArray /\ AnotherArray(s) # NoArray
         /\ NewArray(s) \notin InUse(Entries) /\ AnotherArray(s) \notin InUse(Entries)
<1>1. toDelete[s] = Absent /\ toAdd[s] = Absent
  BY DEF Staged, Stage
<1>2. ASSUME NEW k \in 1 .. Slots, <<s, k>> \in InUse(Entries)
      PROVE  <<s, k>> \in {global.arr, cache[s].arr, old[s].arr}
  BY <1>1, <1>2, InUseBy
<1> QED BY <1>2, SlotsLeft

LEMMA NewForGlobal ==
  ASSUME Staged
  PROVE  /\ NewArray(0) \in Arrays /\ NewArray(0)[1] = 0 /\ NewArray(0) # NoArray
         /\ NewArray(0) \notin InUse(Entries)
<1>1. 0 \notin Sources
  BY CacheAssumption
<1>2. ASSUME NEW k \in 1 .. Slots, <<0, k>> \in InUse(Entries)
      PROVE  <<0, k>> \in {global.arr, global.arr, global.arr}
  BY <1>1, <1>2, InUseBy
<1> QED BY <1>2, SlotsLeft

\* Writing to an array that an entry does not lie in leaves the entry alone.
LEMMA WriteElsewhere ==
  ASSUME NEW m \in Memory, NEW x \in Arrays, NEW content \in Seq(PathObject)
  PROVE  /\ Write(m, x, content) \in Memory
         /\ Write(m, x, content)[x] = content
         /\ \A y \in Arrays : y # x => Write(m, x, content)[y] = m[y]
BY DEF Write, Memory

-----------------------------------------------------------------------------
(* What the operations make of memory.                                     *)

\* A new list (cache.go:107-116, and 50-62 for Merge).
LEMMA GrownIs ==
  ASSUME NEW list \in Seq(PathObject)
  PROVE  /\ Grown(list) \in Seq(PathObject) /\ Len(list) <= Len(Grown(list))
         /\ Len(list) <= 2 => Len(Grown(list)) = Len(list)
         /\ Content([arr |-> Grown(list), len |-> Len(list)]) = list
<1>1. PICK nil, c : nil = [arr |-> << >>, len |-> 0] /\ c = Merged(nil, list)
  OBVIOUS
<1>2. IsSlice(nil) /\ nil.arr = << >>
  BY <1>1 DEF IsSlice
<1>3. Content(nil) = << >>
  BY <1>1 DEF Content
<1>4. IsSlice(c) /\ Content(c) = << >> \o list /\ (c.len <= 2 => Len(c.arr) = c.len)
  BY <1>1, <1>2, <1>3, EmptyList, MergedIs
<1>5. Content(c) = list /\ Len(Content(c)) = c.len
  BY <1>4, ContentFacts DEF IsSlice
<1>6. Grown(list) = c.arr
  BY <1>1 DEF Grown
<1>7. Content([arr |-> c.arr, len |-> c.len]) = Content(c)
  BY DEF Content
<1> QED BY <1>4, <1>5, <1>6, <1>7 DEF IsSlice

\* A list in an array of its own.
LEMMA FreshEntry ==
  ASSUME NEW m \in Memory, NEW list \in Seq(PathObject), NEW x \in Arrays,
         m[x] = Grown(list), NEW e, e = [arr |-> x, len |-> Len(list)]
  PROVE  /\ InMem(m, e) /\ e.arr = x /\ e.arr # NoArray /\ Paths(m, e) = list
         /\ Sorted(list) /\ list # << >> => Held(m, e)
         /\ Len(list) <= 2 => Len(m[e.arr]) = e.len
<1>1. e.arr = x /\ e.len = Len(list) /\ Len(list) \in Nat /\ x # NoArray /\ e \in Slices
  BY NoArrayIsNone DEF Slices
<1>2. m[x] \in Seq(PathObject) /\ Len(m[x]) \in Nat
  BY DEF Memory
<1>3. e.len \in 0 .. Len(m[x])
  <2>1. Len(list) <= Len(m[x])
    BY GrownIs
  <2> QED BY <1>1, <1>2, <2>1
<1>4. e # Absent
  BY <1>1, AbsentAssumption
<1>5. SliceAt(m, e) = [arr |-> Grown(list), len |-> Len(list)]
  BY <1>1 DEF SliceAt
<1>6. Paths(m, e) = list
  BY <1>4, <1>5, GrownIs DEF Paths
<1>7. ASSUME list # << >> PROVE e.len \in 1 .. Len(m[x])
  <2>1. Len(list) # 0
    BY <1>7
  <2> QED BY <1>1, <1>3, <2>1
<1> QED BY <1>1, <1>3, <1>6, <1>7, GrownIs DEF InMem, Held

\* What Populate leaves is sorted, and of one source (cache.go:50-62).
LEMMA PopulatedSorted ==
  ASSUME Repeats = {}, NEW s \in Sources, NEW list \in Populated(s)
  PROVE  /\ list \in Seq(PathObject) /\ Sorted(list) /\ Len(list) <= MaxPaths
         /\ \A p \in Range(list) : p.Source = s
<1>1. PICK n \in 0 .. MaxPaths : list \in [1 .. n -> [Source : {s}, Location : Locations]]
  BY DEF Populated
<1>2. s \in Nat /\ Locations \subseteq Nat /\ MaxPaths \in Nat /\ n \in Nat /\ n <= MaxPaths
  BY <1>1, CacheAssumption
<1>3. \A k \in 1 .. n : list[k] \in PathObject /\ list[k].Source = s
  BY <1>1, <1>2 DEF PathObject
<1>4. DOMAIN list = 1 .. n /\ list = [k \in 1 .. n |-> list[k]]
  BY <1>1
<1>5. list \in Seq(PathObject) /\ Len(list) = n
  BY <1>2, <1>3, <1>4
<1>6. ASSUME NEW i \in 1 .. n, NEW j \in 1 .. n, i < j PROVE LessThan(list[i], list[j])
  <2>1. \/ LessThan(list[i], list[j])
        \/ list[i].Location \in Repeats /\ 1 < i
    BY <1>4, <1>6 DEF Populated
  <2> QED BY <2>1
<1> QED BY <1>2, <1>3, <1>4, <1>5, <1>6 DEF Sorted, Range

\* deletePaths takes what it is given from the global entry, in the array of
\* that entry (cache.go:121-161).
LEMMA DeletePathsIs ==
  ASSUME NEW m \in Memory, NEW g, g = Absent \/ Held(m, g),
         NEW d, d = Absent \/ InMem(m, d), Sorted(Paths(m, d)),
         d # Absent /\ g # Absent /\ d.arr = g.arr => d = g,
         NEW now, now = DeletePaths([mem |-> m, entry |-> g], d)
  PROVE  /\ now.mem \in Memory /\ (now.entry = Absent \/ Held(now.mem, now.entry))
         /\ Range(Paths(now.mem, now.entry)) = Range(Paths(m, g)) \ Range(Paths(m, d))
         /\ now.entry # Absent => g # Absent /\ now.entry.arr = g.arr
         /\ \A x \in Arrays : (g # Absent => x # g.arr) => now.mem[x] = m[x]
         /\ Range(Paths(m, g)) \intersect Range(Paths(m, d)) = {} =>
              now.entry = g /\ Same(now.mem, m, g)
<1>1. CASE g = Absent \/ d = Absent
  <2>1. now = [mem |-> m, entry |-> g]
    BY <1>1 DEF DeletePaths
  <2>2. Range(Paths(m, g)) = Range(Paths(m, g)) \ Range(Paths(m, d))
    BY <1>1, EmptyPaths
  <2> QED BY <2>1, <2>2 DEF Same
<1>2. CASE g # Absent /\ d # Absent
  <2> DEFINE shared == d.arr = g.arr /\ d.arr # NoArray
             del == Paths(m, d)
             there == SliceAt(m, g)
  <2>1. PICK end : end = Finished(DeleteStart(there, del, shared), g.len + Len(del),
                                  DeleteDone, DeleteStep)
    OBVIOUS
  <2>2. now = [mem |-> Write(m, g.arr, end.arr),
               entry |-> IF end.len = 0 THEN Absent ELSE [g EXCEPT !.len = end.len]]
    BY <1>2, <2>1 DEF DeletePaths
  <2>3. /\ Held(m, g) /\ InMem(m, g) /\ g.arr \in Arrays /\ g.arr # NoArray /\ g \in Slices
        /\ Sorted(Paths(m, g)) /\ g.len \in Nat
    BY <1>2, HeldFacts DEF Held
  <2>4. /\ IsSlice(there) /\ there.len = g.len /\ there.arr = m[g.arr]
        /\ Paths(m, g) = Content(there) /\ Len(Paths(m, g)) = g.len
        /\ Paths(m, g) \in Seq(PathObject)
    BY <2>3, PathsFacts
  <2>5. del \in Seq(PathObject) /\ Sorted(del)
    BY <1>2, PathsFacts
  <2>6. shared \in BOOLEAN /\ (shared => del = Content(there))
    BY <1>2, <2>4
  <2>7. /\ IsSlice(end) /\ Len(end.arr) = Len(m[g.arr])
        /\ Range(Content(end)) = Range(Paths(m, g)) \ Range(del)
        /\ Sorted(Content(end))
    <3> HIDE DEF shared, del, there
    <3>1. end = Finished(DeleteStart(there, del, shared), there.len + Len(del),
                         DeleteDone, DeleteStep)
      BY <2>1, <2>4
    <3> QED BY <2>3, <2>4, <2>5, <2>6, <3>1, DeleteLoopIs
  <2>8. /\ now.mem \in Memory /\ now.mem[g.arr] = end.arr
        /\ \A x \in Arrays : x # g.arr => now.mem[x] = m[x]
    BY <2>2, <2>3, <2>7, WriteElsewhere DEF IsSlice
  <2>9. /\ end.len \in 0 .. Len(end.arr) /\ end.arr \in Seq(PathObject)
        /\ Content(end) \in Seq(PathObject) /\ Len(Content(end)) = end.len
    BY <2>7, ContentFacts DEF IsSlice
  <2>10. PICK e : e = [arr |-> g.arr, len |-> end.len]
    OBVIOUS
  <2>11. e \in Slices /\ e.arr = g.arr /\ e.len = end.len /\ e # Absent
    BY <2>3, <2>9, <2>10, AbsentAssumption DEF Slices
  <2>12. now.entry = IF end.len = 0 THEN Absent ELSE e
    BY <2>2, <2>3, <2>10 DEF Slices
  <2>13. Paths(now.mem, e) = Content(end)
    <3>1. SliceAt(now.mem, e) = [arr |-> end.arr, len |-> end.len]
      BY <2>3, <2>8, <2>11 DEF SliceAt
    <3>2. PICK there2 : there2 = SliceAt(now.mem, e)
      OBVIOUS
    <3>3. there2.arr = end.arr /\ there2.len = end.len
      BY <3>1, <3>2
    <3>4. Content(there2) = Content(end)
      BY <3>3 DEF Content
    <3> QED BY <2>11, <3>2, <3>4 DEF Paths
  <2>14. CASE end.len = 0
    <3>1. Content(end) = << >> /\ Range(Content(end)) = {}
      BY <2>9, <2>14, EmptyList
    <3>2. Range(Paths(m, g)) # {}
      <4>1. Len(Paths(m, g)) > 0 /\ Paths(m, g) \in Seq(PathObject)
        BY <2>3, <2>4, HeldFacts
      <4>2. Paths(m, g)[1] \in Range(Paths(m, g))
        BY <4>1 DEF Range
      <4> QED BY <4>2
    <3>3. now.entry = Absent
      BY <2>12, <2>14
    <3> QED BY <2>7, <2>8, <3>1, <3>2, <3>3, EmptyPaths
  <2>15. CASE end.len # 0
    <3>1. now.entry = e
      BY <2>12, <2>15
    <3>2. Held(now.mem, e)
      <4>1. e.len \in 1 .. Len(now.mem[e.arr])
        BY <2>8, <2>9, <2>11, <2>15
      <4> QED BY <2>3, <2>7, <2>11, <2>13, <4>1 DEF Held
    <3>3. ASSUME Range(Paths(m, g)) \intersect Range(del) = {}
          PROVE  e = g /\ Same(now.mem, m, g)
      <4>1. Content(end) = Paths(m, g)
        BY <2>3, <2>4, <2>7, <2>9, <3>3, SortedUnique
      <4>2. e = g
        BY <2>3, <2>4, <2>9, <2>10, <4>1 DEF Slices
      <4> QED BY <2>7, <2>8, <2>13, <4>1, <4>2 DEF Same
    <3> QED BY <1>2, <2>7, <2>8, <2>11, <2>13, <3>1, <3>2, <3>3
  <2> QED BY <2>14, <2>15
<1> QED BY <1>1, <1>2

\* No path twice.
Once(u) == \A i, j \in 1 .. Len(u) : u[i] = u[j] => i = j

\* Two sorted lists without a common path have no path twice.
LEMMA JoinedOnce ==
  ASSUME NEW s \in Seq(PathObject), NEW t \in Seq(PathObject), Sorted(s), Sorted(t),
         Range(s) \intersect Range(t) = {}, NEW u, u = s \o t
  PROVE  /\ u \in Seq(PathObject) /\ Len(u) = Len(s) + Len(t)
         /\ Range(u) = Range(s) \union Range(t)
         /\ Once(u)
<1>1. /\ Len(s) \in Nat /\ Len(t) \in Nat /\ u \in Seq(PathObject) /\ Len(u) = Len(s) + Len(t)
      /\ DOMAIN s = 1 .. Len(s) /\ DOMAIN t = 1 .. Len(t) /\ DOMAIN u = 1 .. Len(u)
      /\ \A k \in 1 .. Len(s) : u[k] = s[k]
      /\ \A k \in 1 .. Len(t) : u[Len(s) + k] = t[k]
  OBVIOUS
<1>2. ASSUME NEW k \in 1 .. Len(u), k \notin 1 .. Len(s)
      PROVE  \E l \in 1 .. Len(t) : k = Len(s) + l /\ u[k] = t[l]
  <2>1. k - Len(s) \in 1 .. Len(t) /\ k = Len(s) + (k - Len(s))
    BY <1>1, <1>2
  <2> QED BY <1>1, <2>1
<1>3. \A k \in 1 .. Len(s) : u[k] \in Range(s) /\ k \in 1 .. Len(u)
  BY <1>1 DEF Range
<1>4. \A k \in 1 .. Len(t) : u[Len(s) + k] \in Range(t) /\ Len(s) + k \in 1 .. Len(u)
  <2> SUFFICES ASSUME NEW k \in 1 .. Len(t)
               PROVE  u[Len(s) + k] \in Range(t) /\ Len(s) + k \in 1 .. Len(u)
    OBVIOUS
  <2>1. Len(s) + k \in 1 .. Len(u)
    BY <1>1
  <2>2. u[Len(s) + k] = t[k] /\ k \in DOMAIN t
    BY <1>1
  <2> QED BY <2>1, <2>2 DEF Range
<1>5. Range(u) = Range(s) \union Range(t)
  <2>1. ASSUME NEW p \in Range(u) PROVE p \in Range(s) \union Range(t)
    <3>1. PICK k \in 1 .. Len(u) : p = u[k]
      BY <1>1 DEF Range
    <3> QED BY <1>2, <1>3, <1>4, <3>1
  <2>2. ASSUME NEW p \in Range(s) PROVE p \in Range(u)
    <3>1. PICK k \in 1 .. Len(s) : p = s[k]
      BY <1>1 DEF Range
    <3> QED BY <1>1, <1>3, <3>1 DEF Range
  <2>3. ASSUME NEW p \in Range(t) PROVE p \in Range(u)
    <3>1. PICK k \in 1 .. Len(t) : p = t[k]
      BY <1>1 DEF Range
    <3>2. u[Len(s) + k] = p /\ Len(s) + k \in 1 .. Len(u)
      BY <1>1, <1>4, <3>1
    <3> QED BY <1>1, <3>2 DEF Range
  <2> QED BY <2>1, <2>2, <2>3
<1>6. ASSUME NEW v \in Seq(PathObject), Sorted(v), NEW i \in 1 .. Len(v), NEW j \in 1 .. Len(v),
             v[i] = v[j]
      PROVE  i = j
  <2>1. Len(v) \in Nat /\ DOMAIN v = 1 .. Len(v) /\ v[i] \in PathObject /\ v[j] \in PathObject
    OBVIOUS
  <2>2. ~ (i < j) /\ ~ (j < i)
    BY <1>6, <2>1, LessThanOrder DEF Sorted
  <2> QED BY <2>1, <2>2
<1>7. ASSUME NEW i \in 1 .. Len(u), NEW j \in 1 .. Len(u), u[i] = u[j] PROVE i = j
  <2>1. CASE i \in 1 .. Len(s) /\ j \in 1 .. Len(s)
    BY <1>1, <1>6, <1>7, <2>1
  <2>2. CASE i \notin 1 .. Len(s) /\ j \notin 1 .. Len(s)
    <3>1. PICK k \in 1 .. Len(t) : i = Len(s) + k /\ u[i] = t[k]
      BY <1>2, <2>2
    <3>2. PICK l \in 1 .. Len(t) : j = Len(s) + l /\ u[j] = t[l]
      BY <1>2, <2>2
    <3>3. k = l
      BY <1>6, <1>7, <3>1, <3>2
    <3> QED BY <3>1, <3>2, <3>3
  <2>3. CASE i \in 1 .. Len(s) /\ j \notin 1 .. Len(s)
    BY <1>2, <1>3, <1>4, <1>7, <2>3
  <2>4. CASE i \notin 1 .. Len(s) /\ j \in 1 .. Len(s)
    BY <1>2, <1>3, <1>4, <1>7, <2>4
  <2> QED BY <2>1, <2>2, <2>3, <2>4
<1> QED BY <1>1, <1>5, <1>7 DEF Once

\* addNewFrom adds paths the global entry lacks: in its array while that has
\* room, else in a new one (cache.go:164-194).
LEMMA AddNewFromIs ==
  ASSUME NEW m \in Memory, NEW g, g = Absent \/ Held(m, g),
         NEW obj, obj = Absent \/ InMem(m, obj), Sorted(Paths(m, obj)),
         g = Absent /\ obj # Absent => Paths(m, obj) # << >>,
         Range(Paths(m, g)) \intersect Range(Paths(m, obj)) = {},
         NewArray(0) \in Arrays, NewArray(0) # NoArray,
         NEW now, now = AddNewFrom([mem |-> m, entry |-> g], obj)
  PROVE  /\ now.mem \in Memory /\ (now.entry = Absent \/ Held(now.mem, now.entry))
         /\ Range(Paths(now.mem, now.entry)) = Range(Paths(m, g)) \union Range(Paths(m, obj))
         /\ \A x \in Arrays : (now.entry # Absent => x # now.entry.arr) => now.mem[x] = m[x]
         /\ g = Absent => now = [mem |-> m, entry |-> obj]
         /\ g # Absent => now.entry # Absent /\ now.entry.arr \in {g.arr, NewArray(0)}
         /\ g # Absent /\ Paths(m, obj) = << >> => now.entry = g /\ Same(now.mem, m, g)
         /\ g # Absent /\ Paths(m, obj) # << >> /\ Len(m[g.arr]) = g.len =>
              now.entry.arr = NewArray(0)
<1>0. /\ Paths(m, g) \in Seq(PathObject) /\ Paths(m, obj) \in Seq(PathObject)
      /\ Sorted(Paths(m, g))
  <2>1. g = Absent \/ InMem(m, g)
    BY HeldFacts
  <2> QED BY <2>1, EmptyPaths, PathsFacts DEF Held
<1>1. CASE obj = Absent
  <2>1. now = [mem |-> m, entry |-> g]
    BY <1>1 DEF AddNewFrom
  <2> QED BY <1>1, <2>1, EmptyPaths DEF Same
<1>2. CASE obj # Absent /\ g = Absent
  <2>1. now = [mem |-> m, entry |-> obj]
    BY <1>2 DEF AddNewFrom
  <2>2. InMem(m, obj) /\ Len(Paths(m, obj)) = obj.len /\ obj.len \in Nat
        /\ Paths(m, obj) # << >>
    BY <1>2, PathsFacts
  <2>3. obj.len # 0
    BY <1>0, <2>2, EmptyList
  <2>4. Held(m, obj)
    <3>1. obj.arr # NoArray /\ obj.arr \in Arrays
      BY <2>2, <2>3, PathsFacts DEF InMem
    <3>2. m[obj.arr] \in Seq(PathObject) /\ obj.len \in 0 .. Len(m[obj.arr])
      BY <2>2, <3>1 DEF InMem, Memory
    <3>3. obj.len \in 1 .. Len(m[obj.arr])
      BY <2>3, <3>2
    <3> QED BY <2>2, <3>1, <3>3 DEF Held, InMem
  <2> QED BY <1>2, <2>1, <2>4, EmptyPaths
<1>3. CASE obj # Absent /\ g # Absent
  <2> DEFINE there == SliceAt(m, g)
             list == Paths(m, obj)
  <2>1. PICK end, array :
          /\ end = Merged(there, list)
          /\ array = IF Len(end.arr) = Len(there.arr) THEN g.arr ELSE NewArray(0)
    OBVIOUS
  <2>2. now = [mem |-> Write(m, array, InOrder(end.arr, end.len)),
               entry |-> [arr |-> array, len |-> end.len]]
    BY <1>3, <2>1 DEF AddNewFrom
  <2>3. /\ Held(m, g) /\ InMem(m, g) /\ g.arr \in Arrays /\ g.arr # NoArray /\ g \in Slices
        /\ g.len \in Nat /\ g.len > 0
    BY <1>3, HeldFacts DEF Held
  <2>4. /\ IsSlice(there) /\ there.len = g.len /\ there.arr = m[g.arr]
        /\ Paths(m, g) = Content(there) /\ Len(Paths(m, g)) = g.len
    BY <2>3, PathsFacts
  <2>5. /\ IsSlice(end) /\ Content(end) = Paths(m, g) \o list
        /\ list = << >> => end.arr = m[g.arr]
    <3> HIDE DEF there, list
    <3>1. list \in Seq(PathObject) /\ Range(Content(there)) \intersect Range(list) = {}
      BY <1>0, <2>4 DEF list
    <3> QED BY <2>1, <2>4, <3>1, MergedIs
  <2>6. /\ Content(end) \in Seq(PathObject) /\ Len(Content(end)) = Len(Paths(m, g)) + Len(list)
        /\ Range(Content(end)) = Range(Paths(m, g)) \union Range(list)
        /\ Once(Content(end))
    <3>1. PICK s, t, u : s = Paths(m, g) /\ t = list /\ u = Content(end)
      OBVIOUS
    <3>2. /\ s \in Seq(PathObject) /\ t \in Seq(PathObject) /\ Sorted(s) /\ Sorted(t)
          /\ Range(s) \intersect Range(t) = {} /\ u = s \o t
      BY <1>0, <2>5, <3>1
    <3> HIDE DEF there, list
    <3>3. /\ u \in Seq(PathObject) /\ Len(u) = Len(s) + Len(t)
          /\ Range(u) = Range(s) \union Range(t)
          /\ Once(u)
      BY <3>2, JoinedOnce
    <3> QED BY <3>1, <3>3
  <2>7. PICK arr, len : arr = end.arr /\ len = end.len
    OBVIOUS
  <2>8. /\ arr \in Seq(PathObject) /\ len \in 0 .. Len(arr) /\ len \in Nat /\ Len(arr) \in Nat
        /\ Len(Content(end)) = len /\ (\A k \in 1 .. len : Content(end)[k] = arr[k])
        /\ Range(Content(end)) = {arr[k] : k \in 1 .. len}
    <3>1. end.arr \in Seq(PathObject) /\ end.len \in 0 .. Len(end.arr)
      BY <2>5 DEF IsSlice
    <3>2. arr \in Seq(PathObject) /\ len \in 0 .. Len(arr)
      BY <2>7, <3>1
    <3>3. Len(arr) \in Nat /\ len \in Nat
      BY <3>2
    <3> QED BY <2>7, <3>1, <3>2, <3>3, ContentFacts
  <2>9. \A i, j \in 1 .. len : arr[i] = arr[j] => i = j
    BY <2>6, <2>8 DEF Once
  <2>10. PICK out : out = [arr |-> InOrder(arr, len), len |-> len]
    OBVIOUS
  <2>11. /\ IsSlice(out) /\ Len(out.arr) = Len(arr) /\ Sorted(Content(out))
         /\ Range(Content(out)) = {arr[k] : k \in 1 .. len}
    BY <2>8, <2>9, <2>10, InOrderIs
  <2>12. PICK e : e = [arr |-> array, len |-> len]
    OBVIOUS
  <2>13. array \in Arrays /\ array # NoArray
    BY <2>1, <2>3
  <2>14. /\ now.entry = e /\ e.arr = array /\ e.len = len /\ e \in Slices /\ e # Absent
    BY <2>2, <2>7, <2>8, <2>12, <2>13, AbsentAssumption DEF Slices
  <2>15. /\ now.mem = Write(m, array, out.arr) /\ out.arr \in Seq(PathObject) /\ out.len = len
    BY <2>2, <2>7, <2>10, <2>11 DEF IsSlice
  <2>16. /\ now.mem \in Memory /\ now.mem[array] = out.arr
         /\ \A x \in Arrays : x # array => now.mem[x] = m[x]
    BY <2>13, <2>15, WriteElsewhere
  <2>17. Paths(now.mem, e) = Content(out)
    <3>1. PICK sl : sl = SliceAt(now.mem, e)
      OBVIOUS
    <3>2. sl.arr = out.arr /\ sl.len = out.len
      BY <2>13, <2>14, <2>15, <2>16, <3>1 DEF SliceAt
    <3>3. Content(sl) = Content(out)
      BY <3>2 DEF Content
    <3> QED BY <2>14, <3>1, <3>3 DEF Paths
  <2>18. len = g.len + Len(list) /\ Len(list) \in Nat /\ len > 0
    BY <1>0, <2>3, <2>4, <2>6, <2>8
  <2>19. Held(now.mem, e)
    <3>1. e.len \in 1 .. Len(now.mem[e.arr])
      BY <2>8, <2>11, <2>14, <2>16, <2>18
    <3> QED BY <2>11, <2>13, <2>14, <2>17, <3>1 DEF Held
  <2>20. Range(Paths(now.mem, e)) = Range(Paths(m, g)) \union Range(list)
    BY <2>6, <2>8, <2>11, <2>17
  <2>21. ASSUME list = << >> PROVE e = g /\ Same(now.mem, m, g)
    <3>1. arr = m[g.arr] /\ array = g.arr /\ Len(list) = 0
      BY <2>1, <2>4, <2>5, <2>7, <2>21
    <3>2. e = g
      BY <2>3, <2>12, <2>18, <3>1 DEF Slices
    <3>3. Range(Content(out)) = Range(Paths(m, g))
      BY <2>6, <2>8, <2>11, <2>21, EmptyList
    <3>4. Content(out) \in Seq(PathObject)
      BY <2>11, HoldsContent
    <3>5. Content(out) = Paths(m, g)
      BY <1>0, <2>11, <3>3, <3>4, SortedUnique
    <3>6. Len(now.mem[g.arr]) = Len(m[g.arr])
      BY <2>11, <2>16, <3>1
    <3> QED BY <2>17, <3>2, <3>5, <3>6 DEF Same
  <2>22. ASSUME list # << >>, Len(m[g.arr]) = g.len PROVE array = NewArray(0)
    <3>1. Len(list) # 0
      BY <1>0, <2>22, EmptyList
    <3>2. Len(arr) > g.len
      BY <2>3, <2>8, <2>18, <3>1
    <3>3. Len(end.arr) # Len(there.arr)
      BY <2>3, <2>4, <2>7, <2>22, <3>2
    <3> QED BY <2>1, <3>3
  <2> QED BY <1>3, <2>1, <2>14, <2>16, <2>19, <2>20, <2>21, <2>22
<1> QED BY <1>1, <1>2, <1>3

-----------------------------------------------------------------------------
(* The steps.                                                              *)

LEMMA InitInv == Init => CacheInv
<1> SUFFICES ASSUME Init PROVE CacheInv
  OBVIOUS
<1>1. mem \in Memory
  BY EmptyList DEF Init, Memory
<1>2. Typed
  BY <1>1 DEF Init, Typed
<1>3. Staged
  BY DEF Init, Staged, Stage, Cached
<1>4. Shared
  BY DEF Init, Shared
<1>5. Union
  <2>1. \A s \in Sources : Applied(s) = Absent
    BY DEF Init, Applied
  <2>2. Range(Paths(mem, Absent)) = {}
    BY EmptyPaths
  <2> QED BY <2>1, <2>2 DEF Init, Union
<1> QED BY <1>2, <1>3, <1>4, <1>5 DEF CacheInv

\* What an entry holds depends only on its array.
LEMMA InUseSame ==
  ASSUME Staged, global = Absent \/ Held(mem, global), NEW m2,
         \A x \in Arrays : x \in InUse(Entries) => m2[x] = mem[x]
  PROVE  \A e \in Entries \union {Absent} : Same(m2, mem, e)
<1> SUFFICES ASSUME NEW e \in Entries, e # Absent PROVE Same(m2, mem, e)
  BY SameArray
<1>1. e.arr \in InUse(Entries)
  BY DEF InUse
<1>2. e.arr = NoArray \/ e.arr \in Arrays
  <2>1. CASE e = global
    BY <2>1 DEF Held
  <2>2. CASE e # global
    <3>1. PICK s \in Sources : e \in {cache[s], old[s], toDelete[s], toAdd[s]}
      BY <2>2 DEF Entries
    <3> QED BY <3>1, OwnArrays DEF Staged
  <2> QED BY <2>1, <2>2
<1> QED BY <1>1, <1>2, SameArray

LEMMA HeldSame ==
  ASSUME NEW m, NEW m2, NEW e, Held(m, e), Same(m2, m, e)
  PROVE  Held(m2, e)
<1>1. e # Absent
  BY AbsentAssumption DEF Held
<1> QED BY <1>1 DEF Held, Same

\* A step that leaves alone what the entries hold, and what the global cache
\* knows of the sources.
LEMMA UnionKept ==
  ASSUME Union, global' = global,
         \A e \in Entries \union {Absent} : Same(mem', mem, e),
         \A s \in Sources : Applied(s)' = Applied(s)
  PROVE  Union'
<1>1. Paths(mem', global) = Paths(mem, global) /\ (global = Absent \/ Held(mem', global))
  BY HeldSame DEF Entries, Union, Same
<1>2. ASSUME NEW s \in Sources PROVE Range(Paths(mem', Applied(s)')) = Range(Paths(mem, Applied(s)))
  BY DEF Entries, Same, Applied
<1>3. UNION {Range(Paths(mem', Applied(s)')) : s \in Sources}
        = UNION {Range(Paths(mem, Applied(s))) : s \in Sources}
  BY <1>2
<1> QED BY <1>1, <1>3 DEF Union

LEMMA PopulateKeepsInv ==
  ASSUME Repeats = {}, CacheInv, NEW s \in Sources, Populate(s)
  PROVE  CacheInv'
<1> USE DEF CacheInv
<1>1. PICK list \in Populated(s) :
        /\ cache' = [cache EXCEPT ![s] = IF list = << >> THEN Absent
                                         ELSE [arr |-> NewArray(s), len |-> Len(list)]]
        /\ mem' = IF list = << >> THEN mem ELSE Write(mem, NewArray(s), Grown(list))
  BY DEF Populate
<1>2. /\ refresh[s] = "idle" /\ global' = global /\ toDelete' = toDelete /\ toAdd' = toAdd
      /\ refresh' = [refresh EXCEPT ![s] = "populated"]
      /\ old' = [old EXCEPT ![s] = cache[s]]
  BY DEF Populate
<1>3. PICK x, n : x = NewArray(s) /\ n = IF list = << >> THEN Absent
                                         ELSE [arr |-> x, len |-> Len(list)]
  OBVIOUS
<1>4. x \in Arrays /\ x[1] = s /\ x # NoArray /\ x \notin InUse(Entries)
  BY <1>2, <1>3, NewForSource
<1>5. /\ list \in Seq(PathObject) /\ Sorted(list) /\ Len(list) <= MaxPaths
      /\ Grown(list) \in Seq(PathObject)
      /\ \A p \in Range(list) : p.Source = s
  BY PopulatedSorted, GrownIs
<1>6. /\ mem' \in Memory /\ (\A y \in Arrays : y # x => mem'[y] = mem[y])
      /\ list # << >> => mem'[x] = Grown(list)
  BY <1>1, <1>3, <1>4, <1>5, WriteElsewhere DEF Typed
<1>7. \A e \in Entries \union {Absent} : Same(mem', mem, e)
  <2>1. \A y \in Arrays : y \in InUse(Entries) => mem'[y] = mem[y]
    BY <1>4, <1>6
  <2> QED BY <2>1, InUseSame DEF Union
<1>8. Cached(mem', s, n) /\ (n # Absent => n.arr = x)
  <2>1. CASE list = << >>
    BY <1>3, <2>1 DEF Cached
  <2>2. CASE list # << >>
    <3>1. n = [arr |-> x, len |-> Len(list)] /\ mem'[x] = Grown(list)
      BY <1>3, <1>6, <2>2
    <3>2. /\ Held(mem', n) /\ n.arr = x /\ Paths(mem', n) = list
          /\ Len(list) <= 2 => Len(mem'[n.arr]) = n.len
      BY <1>4, <1>5, <1>6, <2>2, <3>1, FreshEntry
    <3>3. MaxPaths <= 2 => Len(list) <= 2
      BY <1>5, CacheAssumption
    <3> QED BY <1>4, <1>5, <3>2, <3>3 DEF Cached, Own
  <2> QED BY <2>1, <2>2
<1>9. /\ cache'[s] = n /\ old'[s] = cache[s] /\ refresh'[s] = "populated"
      /\ toDelete'[s] = Absent /\ toAdd'[s] = Absent
  BY <1>1, <1>2, <1>3 DEF Typed, Staged, Stage
<1>10. \A r \in Sources : r # s =>
         /\ cache'[r] = cache[r] /\ old'[r] = old[r] /\ refresh'[r] = refresh[r]
         /\ toDelete'[r] = toDelete[r] /\ toAdd'[r] = toAdd[r]
  BY <1>1, <1>2 DEF Typed
<1>11. ASSUME NEW r \in Sources
       PROVE  Stage(mem', r, refresh[r], cache[r], old[r], toDelete[r], toAdd[r])
  <2>1. Same(mem', mem, cache[r]) /\ Same(mem', mem, old[r])
        /\ Same(mem', mem, toDelete[r]) /\ Same(mem', mem, toAdd[r])
    BY <1>7 DEF Entries
  <2> QED BY <2>1, SameStage DEF Staged
<1>12. Staged'
  <2>1. ASSUME NEW r \in Sources
        PROVE  Stage(mem', r, refresh'[r], cache'[r], old'[r], toDelete'[r], toAdd'[r])
    <3>1. CASE r = s
      <4>1. Cached(mem', s, cache[s])
        BY <1>11 DEF Stage
      <4> QED BY <1>8, <1>9, <3>1, <4>1 DEF Stage
    <3>2. CASE r # s
      BY <1>10, <1>11, <3>2
    <3> QED BY <3>1, <3>2
  <2> QED BY <2>1 DEF Staged
<1>13. Shared'
  <2>1. ASSUME global # Absent, NEW r \in Sources
        PROVE  Sharing(global, refresh'[r], cache'[r], old'[r], toDelete'[r], toAdd'[r])
    <3>1. Sharing(global, refresh[r], cache[r], old[r], toDelete[r], toAdd[r])
      BY <2>1 DEF Shared
    <3>2. CASE r = s
      <4>1. x # global.arr
        BY <1>4, <2>1 DEF InUse, Entries
      <4> QED BY <1>2, <1>8, <1>9, <3>1, <3>2, <4>1 DEF Sharing, Known
    <3>3. CASE r # s
      BY <1>10, <3>1, <3>3
    <3> QED BY <3>2, <3>3
  <2> QED BY <1>2, <2>1 DEF Shared
<1>14. Union'
  <2>1. \A r \in Sources : Applied(r)' = Applied(r)
    BY <1>2, <1>9, <1>10 DEF Applied
  <2> QED BY <1>2, <1>7, <2>1, UnionKept
<1>15. Typed'
  BY <1>1, <1>2, <1>6 DEF Typed
<1> QED BY <1>12, <1>13, <1>14, <1>15

LEMMA CalcDiffKeepsInv ==
  ASSUME CacheInv, NEW s \in Sources, CalcDiff(s)
  PROVE  CacheInv'
<1> USE DEF CacheInv
<1>1. PICK o, c, x, y, dl, al :
        /\ o = old[s] /\ c = cache[s] /\ x = NewArray(s) /\ y = AnotherArray(s)
        /\ dl = Diff(Paths(mem, o), Paths(mem, c)).toDelete
        /\ al = Diff(Paths(mem, o), Paths(mem, c)).toAdd
  OBVIOUS
<1>2. PICK d, a :
        /\ d = IF o = Absent \/ c = Absent THEN o
               ELSE IF dl = << >> THEN NilSlice ELSE [arr |-> x, len |-> Len(dl)]
        /\ a = IF o = Absent \/ c = Absent THEN c
               ELSE IF al = << >> THEN NilSlice ELSE [arr |-> y, len |-> Len(al)]
  OBVIOUS
<1>3. /\ refresh[s] = "populated" /\ refresh' = [refresh EXCEPT ![s] = "diffed"]
      /\ toDelete' = [toDelete EXCEPT ![s] = d] /\ toAdd' = [toAdd EXCEPT ![s] = a]
      /\ mem' = IF o = Absent \/ c = Absent THEN mem
                ELSE Write(Write(mem, x, Grown(dl)), y, Grown(al))
      /\ cache' = cache /\ global' = global /\ old' = old
  BY <1>1, <1>2 DEF CalcDiff
<1>4. /\ x \in Arrays /\ y \in Arrays /\ x # y /\ x[1] = s /\ y[1] = s
      /\ x # NoArray /\ y # NoArray /\ x \notin InUse(Entries) /\ y \notin InUse(Entries)
  BY <1>1, <1>3, NewForSource
<1>5. Cached(mem, s, o) /\ Cached(mem, s, c) /\ mem \in Memory
  BY <1>1 DEF Staged, Stage, Typed
<1>6. ASSUME o # Absent, c # Absent
      PROVE  /\ Own(mem, s, o) /\ Own(mem, s, c)
             /\ dl \in Seq(PathObject) /\ al \in Seq(PathObject) /\ Sorted(dl) /\ Sorted(al)
             /\ Range(dl) = Range(Paths(mem, o)) \ Range(Paths(mem, c))
             /\ Range(al) = Range(Paths(mem, c)) \ Range(Paths(mem, o))
  <2>1. Own(mem, s, o) /\ Own(mem, s, c)
    BY <1>5, <1>6 DEF Cached
  <2>2. /\ Paths(mem, o) \in Seq(PathObject) /\ Sorted(Paths(mem, o))
        /\ Paths(mem, c) \in Seq(PathObject) /\ Sorted(Paths(mem, c))
    BY <1>5, <2>1, HeldFacts, PathsFacts DEF Own, Held
  <2> QED BY <1>1, <2>1, <2>2, DiffIs
<1>7. /\ mem' \in Memory /\ (\A z \in Arrays : z # x /\ z # y => mem'[z] = mem[z])
      /\ o # Absent /\ c # Absent => mem'[x] = Grown(dl) /\ mem'[y] = Grown(al)
  <2>1. CASE o = Absent \/ c = Absent
    BY <1>3, <1>5, <2>1
  <2>2. CASE o # Absent /\ c # Absent
    <3>1. Grown(dl) \in Seq(PathObject) /\ Grown(al) \in Seq(PathObject)
      BY <1>6, <2>2, GrownIs
    <3>2. PICK gd, ga, m0, m, m2 :
            /\ gd = Grown(dl) /\ ga = Grown(al)
            /\ m0 = mem /\ m = Write(m0, x, gd) /\ m2 = Write(m, y, ga)
      OBVIOUS
    <3>3. m0 \in Memory /\ gd \in Seq(PathObject) /\ ga \in Seq(PathObject)
      BY <1>5, <3>1, <3>2
    <3>4. m \in Memory /\ m[x] = gd /\ (\A z \in Arrays : z # x => m[z] = m0[z])
      BY <1>4, <3>2, <3>3 DEF Write, Memory
    <3>5. m2 \in Memory /\ m2[y] = ga /\ (\A z \in Arrays : z # y => m2[z] = m[z])
      BY <1>4, <3>2, <3>3, <3>4 DEF Write, Memory
    <3>6. mem' = m2
      BY <1>3, <2>2, <3>2
    <3> QED BY <1>4, <3>2, <3>4, <3>5, <3>6
  <2> QED BY <2>1, <2>2
<1>8. \A e \in Entries \union {Absent} : Same(mem', mem, e)
  <2>1. \A z \in Arrays : z \in InUse(Entries) => mem'[z] = mem[z]
    BY <1>4, <1>7
  <2> QED BY <2>1, InUseSame DEF Union
<1>9. ASSUME NEW r \in Sources
      PROVE  Stage(mem', r, refresh[r], cache[r], old[r], toDelete[r], toAdd[r])
  <2>1. Same(mem', mem, cache[r]) /\ Same(mem', mem, old[r])
        /\ Same(mem', mem, toDelete[r]) /\ Same(mem', mem, toAdd[r])
    BY <1>8 DEF Entries
  <2> QED BY <2>1, SameStage DEF Staged
<1>10. ASSUME o # Absent, c # Absent
       PROVE  /\ Made(mem', s, d) /\ Paths(mem', d) = dl /\ d.arr \in {x, NoArray}
              /\ Made(mem', s, a) /\ Paths(mem', a) = al /\ a.arr \in {y, NoArray}
  <2>1. ASSUME NEW z \in Arrays, NEW list \in Seq(PathObject), mem'[z] = Grown(list),
               Sorted(list), \A p \in Range(list) : p.Source = s, z[1] = s,
               NEW e, e = IF list = << >> THEN NilSlice ELSE [arr |-> z, len |-> Len(list)]
        PROVE  Made(mem', s, e) /\ Paths(mem', e) = list /\ e.arr \in {z, NoArray}
    <3>1. CASE list = << >>
      BY <2>1, <3>1, EmptyPaths, NilIs DEF Made
    <3>2. CASE list # << >>
      <4>1. e = [arr |-> z, len |-> Len(list)]
        BY <2>1, <3>2
      <4>2. Held(mem', e) /\ e.arr = z /\ Paths(mem', e) = list
        BY <1>7, <2>1, <3>2, <4>1, FreshEntry
      <4> QED BY <2>1, <4>2 DEF Made, Own
    <3> QED BY <3>1, <3>2
  <2>2. /\ \A p \in Range(dl) : p.Source = s
        /\ \A p \in Range(al) : p.Source = s
    BY <1>6, <1>10 DEF Own
  <2>3. Made(mem', s, d) /\ Paths(mem', d) = dl /\ d.arr \in {x, NoArray}
    BY <1>2, <1>4, <1>6, <1>7, <1>10, <2>1, <2>2
  <2>4. Made(mem', s, a) /\ Paths(mem', a) = al /\ a.arr \in {y, NoArray}
    BY <1>2, <1>4, <1>6, <1>7, <1>10, <2>1, <2>2
  <2> QED BY <2>3, <2>4
<1>11. /\ cache'[s] = c /\ old'[s] = o /\ refresh'[s] = "diffed"
       /\ toDelete'[s] = d /\ toAdd'[s] = a
  BY <1>1, <1>3 DEF Typed
<1>12. \A r \in Sources : r # s =>
         /\ cache'[r] = cache[r] /\ old'[r] = old[r] /\ refresh'[r] = refresh[r]
         /\ toDelete'[r] = toDelete[r] /\ toAdd'[r] = toAdd[r]
  BY <1>3 DEF Typed
<1>13. Stage(mem', s, "diffed", c, o, d, a)
  <2>1. Cached(mem', s, c) /\ Cached(mem', s, o)
    BY <1>1, <1>9 DEF Stage
  <2>2. CASE o = Absent \/ c = Absent
    BY <1>2, <2>1, <2>2 DEF Stage
  <2>3. CASE o # Absent /\ c # Absent
    <3>1. Paths(mem', o) = Paths(mem, o) /\ Paths(mem', c) = Paths(mem, c)
      BY <1>1, <1>8 DEF Entries, Same
    <3>2. a.arr # c.arr
      <4>1. c.arr \in InUse(Entries)
        BY <1>1, <2>3 DEF Entries, InUse
      <4>2. c.arr \in Arrays
        BY <1>6, <2>3 DEF Own, Held
      <4> QED BY <1>4, <1>10, <2>3, <4>1, <4>2, NoArrayIsNone
    <3> QED BY <1>6, <1>10, <2>1, <2>3, <3>1, <3>2 DEF Stage
  <2> QED BY <2>2, <2>3
<1>14. Staged'
  <2>1. ASSUME NEW r \in Sources
        PROVE  Stage(mem', r, refresh'[r], cache'[r], old'[r], toDelete'[r], toAdd'[r])
    BY <1>9, <1>11, <1>12, <1>13
  <2> QED BY <2>1 DEF Staged
<1>15. Shared'
  <2>1. ASSUME global # Absent, NEW r \in Sources
        PROVE  Sharing(global, refresh'[r], cache'[r], old'[r], toDelete'[r], toAdd'[r])
    <3>1. Sharing(global, refresh[r], cache[r], old[r], toDelete[r], toAdd[r])
      BY <2>1 DEF Shared
    <3>2. CASE r = s
      <4>1. global.arr \in InUse(Entries) /\ global.arr \in Arrays
        BY <2>1 DEF Entries, InUse, Union, Held
      <4>2. o # Absent /\ c # Absent => d.arr # global.arr /\ a.arr # global.arr
        BY <1>4, <1>10, <4>1, NoArrayIsNone
      <4>3. refresh[s] # "idle"
        BY <1>3
      <4>4. Sharing(global, "diffed", c, o, d, a)
        BY <1>1, <3>1, <3>2, <4>2, <4>3 DEF Sharing, Known
      <4> QED BY <1>11, <3>2, <4>4
    <3>3. CASE r # s
      BY <1>12, <3>1, <3>3
    <3> QED BY <3>2, <3>3
  <2> QED BY <1>3, <2>1 DEF Shared
<1>16. Union'
  <2>1. \A r \in Sources : Applied(r)' = Applied(r)
    BY <1>1, <1>3, <1>11, <1>12 DEF Applied
  <2> QED BY <1>3, <1>8, <2>1, UnionKept
<1>17. Typed'
  BY <1>3, <1>7 DEF Typed
<1> QED BY <1>14, <1>15, <1>16, <1>17

\* What the global cache knows of s, and of no other source.
LEMMA AppliedFacts ==
  ASSUME CacheInv, NEW r \in Sources
  PROVE  /\ Cached(mem, r, Applied(r)) /\ Applied(r) \in {cache[r], old[r]}
         /\ Applied(r) = Known(refresh[r], cache[r], old[r])
         /\ Range(Paths(mem, Applied(r))) \subseteq Range(Paths(mem, global))
         /\ \A p \in Range(Paths(mem, Applied(r))) : p.Source = r
         /\ \A p \in Range(Paths(mem, global)) : p.Source = r => p \in Range(Paths(mem, Applied(r)))
<1>1. ASSUME NEW q \in Sources
      PROVE  /\ Cached(mem, q, Applied(q)) /\ Applied(q) \in {cache[q], old[q]}
             /\ Applied(q) = Known(refresh[q], cache[q], old[q])
             /\ \A p \in Range(Paths(mem, Applied(q))) : p.Source = q
  <2>1. Cached(mem, q, Applied(q)) /\ Applied(q) \in {cache[q], old[q]}
        /\ Applied(q) = Known(refresh[q], cache[q], old[q])
    BY DEF CacheInv, Staged, Stage, Applied, Known
  <2>2. \A p \in Range(Paths(mem, Applied(q))) : p.Source = q
    BY <2>1, EmptyPaths DEF Cached, Own
  <2> QED BY <2>1, <2>2
<1>2. Range(Paths(mem, global)) = UNION {Range(Paths(mem, Applied(q))) : q \in Sources}
  BY DEF CacheInv, Union
<1>3. Range(Paths(mem, Applied(r))) \subseteq Range(Paths(mem, global))
  BY <1>2
<1>4. ASSUME NEW p \in Range(Paths(mem, global)), p.Source = r
      PROVE  p \in Range(Paths(mem, Applied(r)))
  <2>1. PICK q \in Sources : p \in Range(Paths(mem, Applied(q)))
    BY <1>2
  <2>2. q = r
    BY <1>1, <1>4, <2>1
  <2> QED BY <2>1, <2>2
<1> QED BY <1>1, <1>3, <1>4

\* The difference of s, as Apply finds it.
LEMMA DifferenceOf ==
  ASSUME CacheInv, NEW s \in Sources, refresh[s] = "diffed"
  PROVE  /\ toDelete[s] = Absent \/ InMem(mem, toDelete[s])
         /\ toAdd[s] = Absent \/ InMem(mem, toAdd[s])
         /\ Sorted(Paths(mem, toDelete[s])) /\ Sorted(Paths(mem, toAdd[s]))
         /\ Range(Paths(mem, toDelete[s])) \subseteq Range(Paths(mem, old[s]))
         /\ Range(Paths(mem, toAdd[s])) \intersect Range(Paths(mem, old[s])) = {}
         /\ (Range(Paths(mem, old[s])) \ Range(Paths(mem, toDelete[s])))
               \union Range(Paths(mem, toAdd[s])) = Range(Paths(mem, cache[s]))
         /\ toAdd[s] # Absent => cache[s] # Absent /\ Range(Paths(mem, cache[s])) # {}
         /\ \A p \in Range(Paths(mem, toAdd[s])) : p.Source = s
         /\ global # Absent =>
              /\ toDelete[s] # Absent /\ toDelete[s].arr = global.arr => toDelete[s] = global
              /\ toAdd[s] # Absent => toAdd[s].arr # global.arr
<1> USE DEF CacheInv
<1>1. PICK m, st, c, o, d, a :
        /\ m = mem /\ st = "diffed" /\ c = cache[s] /\ o = old[s]
        /\ d = toDelete[s] /\ a = toAdd[s]
  OBVIOUS
<1>2. m \in Memory /\ Stage(m, s, st, c, o, d, a)
  BY <1>1 DEF Typed, Staged
<1>3. /\ Cached(m, s, c) /\ Cached(m, s, o)
      /\ o = Absent \/ c = Absent => d = o /\ a = c
      /\ o # Absent /\ c # Absent =>
           /\ Made(m, s, d) /\ Made(m, s, a)
           /\ Sorted(Paths(m, d)) /\ Sorted(Paths(m, a))
           /\ Range(Paths(m, d)) = Range(Paths(m, o)) \ Range(Paths(m, c))
           /\ Range(Paths(m, a)) = Range(Paths(m, c)) \ Range(Paths(m, o))
  BY <1>1, <1>2 DEF Stage
<1>4. ASSUME NEW e, Cached(m, s, e)
      PROVE  /\ e = Absent \/ InMem(m, e)
             /\ Sorted(Paths(m, e)) /\ (e # Absent => Range(Paths(m, e)) # {})
             /\ \A p \in Range(Paths(m, e)) : p.Source = s
  <2>1. CASE e = Absent
    BY <2>1, EmptyPaths
  <2>2. CASE e # Absent
    <3>1. Own(m, s, e) /\ Held(m, e) /\ InMem(m, e) /\ e.len > 0 /\ e.len \in Nat
      BY <1>2, <1>4, <2>2, HeldFacts DEF Cached, Own
    <3>2. 1 \in DOMAIN Paths(m, e)
      BY <1>2, <3>1, PathsFacts
    <3>3. Range(Paths(m, e)) # {}
      BY <3>2 DEF Range
    <3> QED BY <3>1, <3>3 DEF Own, Held
  <2> QED BY <2>1, <2>2
<1>5. ASSUME NEW e, Made(m, s, e) PROVE InMem(m, e)
  BY <1>2, <1>5, EmptyPaths, HeldFacts DEF Made, Own
<1>6. /\ d = Absent \/ InMem(m, d)
      /\ a = Absent \/ InMem(m, a)
      /\ Sorted(Paths(m, d)) /\ Sorted(Paths(m, a))
  BY <1>3, <1>4, <1>5
<1>7. Paths(m, Absent) = << >> /\ Range(<< >>) = {}
  BY EmptyPaths
<1>8. /\ Range(Paths(m, d)) \subseteq Range(Paths(m, o))
      /\ Range(Paths(m, a)) \intersect Range(Paths(m, o)) = {}
      /\ (Range(Paths(m, o)) \ Range(Paths(m, d))) \union Range(Paths(m, a)) = Range(Paths(m, c))
  <2>1. CASE o = Absent
    BY <1>3, <1>7, <2>1
  <2>2. CASE c = Absent
    BY <1>3, <1>7, <2>2
  <2>3. CASE o # Absent /\ c # Absent
    BY <1>3, <2>3
  <2> QED BY <2>1, <2>2, <2>3
<1>9. a # Absent => c # Absent
  BY <1>3
<1>10. \A p \in Range(Paths(m, a)) : p.Source = s
  BY <1>3, <1>4, <1>8
<1>11. ASSUME global # Absent
       PROVE  /\ d # Absent /\ d.arr = global.arr => d = global
              /\ a # Absent => a.arr # global.arr
  <2>1. Sharing(global, st, c, o, d, a)
    BY <1>1, <1>11 DEF Shared
  <2> QED BY <1>1, <1>3, <2>1 DEF Sharing, Known
<1> QED BY <1>1, <1>3, <1>4, <1>6, <1>8, <1>9, <1>10, <1>11

\* What the locked part of ApplyDiff makes of memory and of the global entry.
LEMMA ApplyMakes ==
  ASSUME RoomNotShared, CacheInv, NEW s \in Sources, refresh[s] = "diffed",
         NEW after,
         after = AddNewFrom(DeletePaths([mem |-> mem, entry |-> global], toDelete[s]), toAdd[s])
  PROVE  /\ after.mem \in Memory
         /\ after.entry = Absent \/ Held(after.mem, after.entry)
         /\ Range(Paths(after.mem, after.entry)) =
              (Range(Paths(mem, global)) \ Range(Paths(mem, toDelete[s])))
                \union Range(Paths(mem, toAdd[s]))
         /\ \A x \in Arrays : x \in InUse(Entries) /\ (global # Absent => x # global.arr) =>
              after.mem[x] = mem[x]
         /\ after.entry # Absent =>
              \/ global # Absent /\ after.entry.arr = global.arr
              \/ after.entry.arr \notin InUse(Entries)
              \/ after.entry = toAdd[s]
         /\ \A r \in Sources : r # s /\ global # Absent /\ Applied(r) # Absent
                                /\ Applied(r).arr = global.arr =>
              /\ Same(after.mem, mem, Applied(r)) /\ Applied(r) = global /\ after.entry # Absent
              /\ after.entry = global \/ after.entry.arr # global.arr
<1> USE DEF CacheInv
<1>1. PICK m, g, d, a, now :
        /\ m = mem /\ g = global /\ d = toDelete[s] /\ a = toAdd[s]
        /\ now = DeletePaths([mem |-> m, entry |-> g], d)
  OBVIOUS
<1>2. /\ m \in Memory /\ (g = Absent \/ Held(m, g))
      /\ d = Absent \/ InMem(m, d)
      /\ a = Absent \/ InMem(m, a)
      /\ Sorted(Paths(m, d)) /\ Sorted(Paths(m, a))
      /\ g # Absent /\ d # Absent /\ d.arr = g.arr => d = g
      /\ g # Absent /\ a # Absent => a.arr # g.arr
  BY <1>1, DifferenceOf DEF Typed, Union
<1>3. PICK O, C, G, D, A :
        /\ O = Range(Paths(m, old[s])) /\ C = Range(Paths(m, cache[s]))
        /\ G = Range(Paths(m, g)) /\ D = Range(Paths(m, d)) /\ A = Range(Paths(m, a))
  OBVIOUS
<1>4. /\ D \subseteq O /\ A \intersect O = {} /\ (O \ D) \union A = C
      /\ a # Absent => C # {}
      /\ \A p \in A : p.Source = s
  BY <1>1, <1>3, DifferenceOf
<1>5. O \subseteq G /\ (\A p \in G : p.Source = s => p \in O) /\ (\A p \in O : p.Source = s)
  <2>1. Applied(s) = old[s]
    BY DEF Applied
  <2> QED BY <1>1, <1>3, <2>1, AppliedFacts
<1>6. /\ now.mem \in Memory /\ (now.entry = Absent \/ Held(now.mem, now.entry))
      /\ Range(Paths(now.mem, now.entry)) = G \ D
      /\ now.entry # Absent => g # Absent /\ now.entry.arr = g.arr
      /\ \A x \in Arrays : (g # Absent => x # g.arr) => now.mem[x] = m[x]
      /\ G \intersect D = {} => now.entry = g /\ Same(now.mem, m, g)
  BY <1>1, <1>2, <1>3, DeletePathsIs
<1>7. after = AddNewFrom([mem |-> now.mem, entry |-> now.entry], a)
  <2>1. now = [mem |-> now.mem, entry |-> now.entry]
    BY <1>1 DEF DeletePaths
  <2> QED BY <1>1, <2>1
<1>8. Same(now.mem, m, a) /\ (a = Absent \/ InMem(now.mem, a))
  <2>1. CASE a = Absent \/ a.arr = NoArray
    BY <1>2, <2>1, SameArray DEF InMem
  <2>2. CASE a # Absent /\ a.arr # NoArray
    <3>1. a.arr \in Arrays
      BY <1>2, <2>2, PathsFacts
    <3>2. now.mem[a.arr] = m[a.arr]
      BY <1>2, <1>6, <2>2, <3>1
    <3> QED BY <1>2, <3>2, SameArray DEF InMem
  <2> QED BY <2>1, <2>2
<1>9. Paths(now.mem, a) = Paths(m, a) /\ Range(Paths(now.mem, a)) = A
  BY <1>3, <1>8 DEF Same
<1>10. (G \ D) \intersect A = {}
  BY <1>4, <1>5
<1>11. ASSUME now.entry = Absent, a # Absent PROVE Paths(m, a) # << >>
  <2>1. G \ D = {}
    BY <1>6, <1>11, EmptyPaths
  <2>2. A # {}
    BY <1>4, <1>5, <1>11, <2>1
  <2> QED BY <1>3, <2>2, EmptyPaths
<1>12. NewArray(0) \in Arrays /\ NewArray(0) # NoArray /\ NewArray(0) \notin InUse(Entries)
  BY NewForGlobal
<1>13. PICK m1, g1 : m1 = now.mem /\ g1 = now.entry
  OBVIOUS
<1>14. /\ after.mem \in Memory /\ (after.entry = Absent \/ Held(after.mem, after.entry))
       /\ Range(Paths(after.mem, after.entry)) = Range(Paths(m1, g1)) \union Range(Paths(m1, a))
       /\ \A x \in Arrays : (after.entry # Absent => x # after.entry.arr) => after.mem[x] = m1[x]
       /\ g1 = Absent => after = [mem |-> m1, entry |-> a]
       /\ g1 # Absent => after.entry # Absent /\ after.entry.arr \in {g1.arr, NewArray(0)}
       /\ g1 # Absent /\ Paths(m1, a) = << >> => after.entry = g1 /\ Same(after.mem, m1, g1)
       /\ g1 # Absent /\ Paths(m1, a) # << >> /\ Len(m1[g1.arr]) = g1.len =>
            after.entry.arr = NewArray(0)
  <2>1. /\ m1 \in Memory /\ (g1 = Absent \/ Held(m1, g1))
        /\ a = Absent \/ InMem(m1, a)
        /\ Sorted(Paths(m1, a))
        /\ g1 = Absent /\ a # Absent => Paths(m1, a) # << >>
        /\ Range(Paths(m1, g1)) \intersect Range(Paths(m1, a)) = {}
        /\ after = AddNewFrom([mem |-> m1, entry |-> g1], a)
    BY <1>2, <1>6, <1>7, <1>8, <1>9, <1>10, <1>11, <1>13
  <2> QED BY <1>12, <2>1, AddNewFromIs
<1>15. Range(Paths(after.mem, after.entry)) = (G \ D) \union A
  BY <1>6, <1>9, <1>13, <1>14
<1>16. ASSUME NEW x \in Arrays, x \in InUse(Entries), g # Absent => x # g.arr
       PROVE  after.mem[x] = m[x]
  <2>1. m1[x] = m[x]
    BY <1>6, <1>13, <1>16
  <2>2. CASE g1 = Absent
    BY <1>14, <2>1, <2>2
  <2>3. CASE g1 # Absent
    <3>1. g # Absent /\ g1.arr = g.arr
      BY <1>6, <1>13, <2>3
    <3>2. x # after.entry.arr
      BY <1>12, <1>14, <1>16, <2>3, <3>1
    <3> QED BY <1>14, <2>1, <3>2
  <2> QED BY <2>2, <2>3
<1>17. ASSUME after.entry # Absent
       PROVE  \/ g # Absent /\ after.entry.arr = g.arr
              \/ after.entry.arr \notin InUse(Entries)
              \/ after.entry = a
  <2>1. CASE g1 = Absent
    BY <1>14, <2>1
  <2>2. CASE g1 # Absent
    BY <1>6, <1>12, <1>13, <1>14, <2>2
  <2> QED BY <2>1, <2>2
<1>18. ASSUME NEW r \in Sources, r # s, g # Absent, Applied(r) # Absent, Applied(r).arr = g.arr
       PROVE  /\ Same(after.mem, m, g) /\ Applied(r) = g /\ after.entry # Absent
              /\ after.entry = g \/ after.entry.arr # g.arr
  <2>1. Applied(r) = g /\ Cached(m, r, g)
    <3>1. Applied(r) = Known(refresh[r], cache[r], old[r]) /\ Cached(m, r, Applied(r))
      BY <1>1, AppliedFacts
    <3>2. Sharing(g, refresh[r], cache[r], old[r], toDelete[r], toAdd[r])
      BY <1>1, <1>18 DEF Shared
    <3> QED BY <1>18, <3>1, <3>2 DEF Sharing
  <2>2. (\A p \in G : p.Source = r) /\ Len(m[g.arr]) = g.len
    <3>1. Len(m[g.arr]) = g.len
      BY <1>1, <1>18 DEF RoomNotShared
    <3> QED BY <1>3, <1>18, <2>1, <3>1 DEF Cached, Own
  <2>3. G \intersect D = {}
    BY <1>4, <1>5, <1>18, <2>2
  <2>4. g1 = g /\ Same(m1, m, g) /\ g.arr \in Arrays
    BY <1>2, <1>6, <1>13, <1>18, <2>3 DEF Held
  <2>5. CASE Paths(m1, a) = << >>
    BY <1>14, <1>18, <2>1, <2>4, <2>5 DEF Same
  <2>6. CASE Paths(m1, a) # << >>
    <3>1. Len(m1[g.arr]) = g.len
      BY <1>18, <2>2, <2>4 DEF Same
    <3>2. after.entry # Absent /\ after.entry.arr = NewArray(0)
      BY <1>14, <1>18, <2>4, <2>6, <3>1
    <3>3. g.arr # NewArray(0)
      BY <1>1, <1>12, <1>18 DEF InUse, Entries
    <3>4. after.mem[g.arr] = m1[g.arr]
      BY <1>14, <2>4, <3>2, <3>3
    <3>5. Same(after.mem, m1, g)
      BY <3>4, SameArray
    <3> QED BY <2>1, <2>4, <3>2, <3>3, <3>5 DEF Same
  <2> QED BY <2>5, <2>6
<1> QED BY <1>1, <1>3, <1>14, <1>15, <1>16, <1>17, <1>18

\* Of the entries of a source only the one the global cache knows can lie in
\* the array of the global entry.
LEMMA OnlyKnownShared ==
  ASSUME CacheInv, NEW r \in Sources,
         NEW e \in {cache[r], old[r], toDelete[r], toAdd[r]},
         e # Absent, global # Absent, e.arr = global.arr
  PROVE  e = Applied(r)
<1>1. PICK st, c, o, d, a :
        /\ st = refresh[r] /\ c = cache[r] /\ o = old[r] /\ d = toDelete[r] /\ a = toAdd[r]
  OBVIOUS
<1>2. Stage(mem, r, st, c, o, d, a) /\ Sharing(global, st, c, o, d, a)
  BY <1>1 DEF CacheInv, Staged, Shared
<1>3. Applied(r) = Known(st, c, o)
  BY <1>1 DEF Applied, Known
<1>4. /\ st = "idle" => o = Absent
      /\ st # "diffed" => d = Absent /\ a = Absent
      /\ st = "diffed" /\ (o = Absent \/ c = Absent) => d = o /\ a = c
  BY <1>2 DEF Stage
<1>5. /\ st # "idle" /\ c # Absent => c.arr # global.arr
      /\ st = "diffed" /\ o # Absent /\ c # Absent => d.arr # global.arr /\ a.arr # global.arr
  BY <1>2 DEF Sharing
<1>6. e \in {c, o, d, a}
  BY <1>1
<1> QED BY <1>3, <1>4, <1>5, <1>6 DEF Known

LEMMA ApplyKeepsInv ==
  ASSUME RoomNotShared, CacheInv, NEW s \in Sources, Apply(s)
  PROVE  CacheInv'
<1> USE DEF CacheInv
<1>1. PICK after, kept :
        /\ after = AddNewFrom(DeletePaths([mem |-> mem, entry |-> global], toDelete[s]), toAdd[s])
        /\ kept = {after.entry} \union {cache[r] : r \in Sources} \union
                  UNION {{old[r], toDelete[r], toAdd[r]} : r \in Sources \ {s}}
  OBVIOUS
<1>2. /\ refresh[s] = "diffed" /\ refresh' = [refresh EXCEPT ![s] = "idle"]
      /\ global' = after.entry /\ old' = [old EXCEPT ![s] = Absent]
      /\ toDelete' = [toDelete EXCEPT ![s] = Absent] /\ toAdd' = [toAdd EXCEPT ![s] = Absent]
      /\ mem' = Collected(after.mem, kept) /\ cache' = cache
  BY <1>1 DEF Apply
<1>3. PICK m2, g2 : m2 = after.mem /\ g2 = after.entry
  OBVIOUS
<1>4. /\ m2 \in Memory /\ (g2 = Absent \/ Held(m2, g2))
      /\ Range(Paths(m2, g2)) =
           (Range(Paths(mem, global)) \ Range(Paths(mem, toDelete[s])))
             \union Range(Paths(mem, toAdd[s]))
      /\ \A x \in Arrays : x \in InUse(Entries) /\ (global # Absent => x # global.arr) =>
           m2[x] = mem[x]
      /\ g2 # Absent => \/ global # Absent /\ g2.arr = global.arr
                        \/ g2.arr \notin InUse(Entries)
                        \/ g2 = toAdd[s]
      /\ \A r \in Sources : r # s /\ global # Absent /\ Applied(r) # Absent
                             /\ Applied(r).arr = global.arr =>
           /\ Same(m2, mem, Applied(r)) /\ Applied(r) = global /\ g2 # Absent
           /\ g2 = global \/ g2.arr # global.arr
  BY <1>1, <1>2, <1>3, ApplyMakes
<1>5. /\ mem' \in Memory
      /\ \A x \in Arrays : x \in InUse(kept) => mem'[x] = m2[x]
  BY <1>2, <1>3, <1>4, EmptyList DEF Collected, Memory
<1>6. ASSUME NEW e \in kept, e = Absent \/ e.arr = NoArray \/ e.arr \in Arrays
      PROVE  Same(mem', m2, e)
  <2>1. CASE e = Absent \/ e.arr = NoArray
    BY <2>1, SameArray
  <2>2. CASE e # Absent /\ e.arr \in Arrays
    <3>1. e.arr \in InUse(kept)
      BY <2>2 DEF InUse
    <3> QED BY <1>5, <2>2, <3>1, SameArray
  <2> QED BY <1>6, <2>1, <2>2
<1>7. ASSUME NEW r \in Sources, NEW e \in {cache[r], old[r], toDelete[r], toAdd[r]}
      PROVE  /\ e = Absent \/ e.arr = NoArray \/ (e.arr \in Arrays /\ e.arr[1] = r)
             /\ e # Absent => e.arr \in InUse(Entries)
  <2>1. e \in Entries
    BY DEF Entries
  <2> QED BY <2>1, OwnArrays DEF Staged, InUse
<1>8. ASSUME NEW r \in Sources, NEW e \in {cache[r], old[r], toDelete[r], toAdd[r]},
             r # s \/ e = cache[s]
      PROVE  Same(mem', mem, e)
  <2>1. Same(m2, mem, e)
    <3>1. CASE e = Absent \/ e.arr = NoArray
      BY <3>1, SameArray
    <3>2. CASE e # Absent /\ e.arr \in Arrays /\ (global = Absent \/ e.arr # global.arr)
      <4>1. m2[e.arr] = mem[e.arr]
        BY <1>4, <1>7, <3>2
      <4> QED BY <4>1, SameArray
    <3>3. CASE e # Absent /\ global # Absent /\ e.arr = global.arr
      <4>1. e = Applied(r)
        BY <3>3, OnlyKnownShared
      <4>2. r # s
        <5>1. Sharing(global, refresh[s], cache[s], old[s], toDelete[s], toAdd[s])
          BY <3>3 DEF Shared
        <5> QED BY <1>2, <1>8, <3>3, <5>1 DEF Sharing
      <4> QED BY <1>4, <3>3, <4>1, <4>2
    <3> QED BY <1>7, <3>1, <3>2, <3>3
  <2>2. e \in kept
    BY <1>1, <1>8
  <2>3. Same(mem', m2, e)
    BY <1>6, <1>7, <2>2
  <2> QED BY <2>1, <2>3 DEF Same
<1>9. /\ cache'[s] = cache[s] /\ old'[s] = Absent /\ refresh'[s] = "idle"
      /\ toDelete'[s] = Absent /\ toAdd'[s] = Absent
  BY <1>2 DEF Typed
<1>10. \A r \in Sources : r # s =>
         /\ cache'[r] = cache[r] /\ old'[r] = old[r] /\ refresh'[r] = refresh[r]
         /\ toDelete'[r] = toDelete[r] /\ toAdd'[r] = toAdd[r]
  BY <1>2 DEF Typed
<1>11. Staged'
  <2>1. ASSUME NEW r \in Sources
        PROVE  Stage(mem', r, refresh'[r], cache'[r], old'[r], toDelete'[r], toAdd'[r])
    <3>1. CASE r = s
      <4>1. Cached(mem, s, cache[s]) /\ Same(mem', mem, cache[s])
        BY <1>8 DEF Staged, Stage
      <4>2. Stage(mem, s, "idle", cache[s], Absent, Absent, Absent)
        BY <4>1 DEF Stage, Cached
      <4>3. Stage(mem', s, "idle", cache[s], Absent, Absent, Absent)
        BY <4>1, <4>2, SameArray, SameStage
      <4> QED BY <1>9, <3>1, <4>3
    <3>2. CASE r # s
      <4>1. /\ Same(mem', mem, cache[r]) /\ Same(mem', mem, old[r])
            /\ Same(mem', mem, toDelete[r]) /\ Same(mem', mem, toAdd[r])
        BY <1>8, <3>2
      <4>2. Stage(mem', r, refresh[r], cache[r], old[r], toDelete[r], toAdd[r])
        BY <4>1, SameStage DEF Staged
      <4> QED BY <1>10, <3>2, <4>2
    <3> QED BY <3>1, <3>2
  <2> QED BY <2>1 DEF Staged
<1>12. ASSUME g2 # Absent, NEW r \in Sources
       PROVE  Sharing(g2, refresh'[r], cache'[r], old'[r], toDelete'[r], toAdd'[r])
  <2>1. Held(m2, g2) /\ g2.arr \in Arrays /\ g2.arr # NoArray
    BY <1>4, <1>12, NoArrayIsNone DEF Held
  <2>2. CASE r = s
    <3>1. ASSUME cache[s] # Absent, cache[s].arr = g2.arr PROVE cache[s] = g2
      <4>1. g2.arr \in InUse(Entries)
        BY <1>7, <3>1
      <4>2. ~ (global # Absent /\ g2.arr = global.arr)
        <5>1. global # Absent => Sharing(global, refresh[s], cache[s], old[s], toDelete[s], toAdd[s])
          BY DEF Shared
        <5> QED BY <1>2, <3>1, <5>1 DEF Sharing
      <4>3. g2 = toAdd[s]
        BY <1>4, <1>12, <4>1, <4>2
      <4>4. Stage(mem, s, "diffed", cache[s], old[s], toDelete[s], toAdd[s])
        BY <1>2 DEF Staged
      <4> QED BY <3>1, <4>3, <4>4 DEF Stage
    <3> QED BY <1>9, <2>2, <3>1 DEF Sharing, Known
  <2>3. CASE r # s /\ g2 = global
    BY <1>10, <1>12, <2>3 DEF Shared
  <2>4. CASE r # s /\ g2 # global
    <3>1. ASSUME NEW e \in {cache[r], old[r], toDelete[r], toAdd[r]}, e # Absent
          PROVE  e.arr # g2.arr
      <4> SUFFICES ASSUME e.arr = g2.arr PROVE FALSE
        OBVIOUS
      <4>1. e.arr[1] = r /\ g2.arr \in InUse(Entries)
        BY <1>7, <2>1, <3>1
      <4>2. g2 # toAdd[s]
        BY <1>7, <1>12, <2>1, <2>4, <4>1
      <4>3. global # Absent /\ e.arr = global.arr
        BY <1>4, <1>12, <4>1, <4>2
      <4>4. e = Applied(r)
        BY <3>1, <4>3, OnlyKnownShared
      <4> QED BY <1>4, <2>4, <3>1, <4>3, <4>4
    <3>2. refresh[r] = "diffed" /\ old[r] # Absent /\ cache[r] # Absent =>
            toDelete[r] # Absent /\ toAdd[r] # Absent
      <4>1. ASSUME NEW e, Made(mem, r, e) PROVE e # Absent
        BY <4>1, NilIs, HeldFacts DEF Made, Own, Typed
      <4>2. Stage(mem, r, refresh[r], cache[r], old[r], toDelete[r], toAdd[r])
        BY DEF Staged
      <4> QED BY <4>1, <4>2 DEF Stage
    <3> QED BY <1>10, <2>4, <3>1, <3>2 DEF Sharing, Known
  <2> QED BY <2>2, <2>3, <2>4
<1>13. Shared'
  BY <1>2, <1>3, <1>12 DEF Shared
<1>14. (g2 = Absent \/ Held(mem', g2)) /\ Paths(mem', g2) = Paths(m2, g2)
  <2>1. g2 \in kept /\ (g2 = Absent \/ g2.arr \in Arrays)
    BY <1>1, <1>3, <1>4 DEF Held
  <2>2. Same(mem', m2, g2)
    BY <1>6, <2>1
  <2> QED BY <1>4, <2>2, HeldSame DEF Same
<1>15. PICK R, R2, G2, D, A :
         /\ R = [r \in Sources |-> Range(Paths(mem, Applied(r)))]
         /\ R2 = [r \in Sources |-> Range(Paths(mem', Applied(r)'))]
         /\ G2 = Range(Paths(mem', g2))
         /\ D = Range(Paths(mem, toDelete[s])) /\ A = Range(Paths(mem, toAdd[s]))
  OBVIOUS
<1>16. /\ R2[s] = (R[s] \ D) \union A /\ D \subseteq R[s]
       /\ \A r \in Sources : r # s => R2[r] = R[r]
       /\ \A r \in Sources : \A p \in R[r] : p.Source = r
       /\ G2 = ((UNION {R[r] : r \in Sources}) \ D) \union A
  <2>1. R[s] = Range(Paths(mem, old[s]))
    BY <1>2, <1>15 DEF Applied
  <2>2. R2[s] = Range(Paths(mem, cache[s]))
    <3>1. Applied(s)' = cache[s] /\ Paths(mem', cache[s]) = Paths(mem, cache[s])
      BY <1>8, <1>9 DEF Applied, Same
    <3> QED BY <1>15, <3>1
  <2>3. R2[s] = (R[s] \ D) \union A /\ D \subseteq R[s]
    BY <1>2, <1>15, <2>1, <2>2, DifferenceOf
  <2>4. ASSUME NEW r \in Sources, r # s PROVE R2[r] = R[r]
    <3>1. Applied(r)' = Applied(r)
      BY <1>10, <2>4 DEF Applied
    <3>2. Same(mem', mem, Applied(r))
      BY <1>8, <2>4, AppliedFacts
    <3> QED BY <1>15, <3>1, <3>2 DEF Same
  <2>5. ASSUME NEW r \in Sources, NEW p \in R[r] PROVE p.Source = r
    BY <1>15, <2>5, AppliedFacts
  <2>6. UNION {R[r] : r \in Sources} = Range(Paths(mem, global))
    <3>1. \A r \in Sources : R[r] = Range(Paths(mem, Applied(r)))
      BY <1>15
    <3>2. UNION {R[r] : r \in Sources} = UNION {Range(Paths(mem, Applied(r))) : r \in Sources}
      BY <3>1
    <3> QED BY <3>2 DEF Union
  <2>7. G2 = ((UNION {R[r] : r \in Sources}) \ D) \union A
    BY <1>4, <1>14, <1>15, <2>6
  <2> QED BY <2>3, <2>4, <2>5, <2>7
<1>17. G2 = UNION {R2[r] : r \in Sources}
  <2>1. ASSUME NEW p \in G2 PROVE \E r \in Sources : p \in R2[r]
    BY <1>16
  <2>2. ASSUME NEW r \in Sources, NEW p \in R2[r] PROVE p \in G2
    BY <1>16
  <2> QED BY <2>1, <2>2
<1>18. Union'
  <2>1. \A r \in Sources : R2[r] = Range(Paths(mem', Applied(r)'))
    BY <1>15
  <2>2. UNION {R2[r] : r \in Sources} = UNION {Range(Paths(mem', Applied(r)')) : r \in Sources}
    BY <2>1
  <2>3. global' = g2
    BY <1>2, <1>3
  <2> QED BY <1>14, <1>15, <1>17, <2>2, <2>3 DEF Union
<1>19. Typed'
  BY <1>2, <1>5 DEF Typed
<1> QED BY <1>11, <1>13, <1>18, <1>19

LEMMA NextKeepsInv ==
  ASSUME Repeats = {}, RoomNotShared, CacheInv, [Next]_vars
  PROVE  CacheInv'
<1>1. ASSUME NEW s \in Sources, Populate(s) PROVE CacheInv'
  BY <1>1, PopulateKeepsInv
<1>2. ASSUME NEW s \in Sources, CalcDiff(s) PROVE CacheInv'
  BY <1>2, CalcDiffKeepsInv
<1>3. ASSUME NEW s \in Sources, Apply(s) PROVE CacheInv'
  BY <1>3, ApplyKeepsInv
<1>4. CASE UNCHANGED vars
  <2>1. \A s \in Sources : Applied(s)' = Applied(s)
    BY <1>4 DEF vars, Applied
  <2>2. UNION {Range(Paths(mem', Applied(s)')) : s \in Sources}
          = UNION {Range(Paths(mem, Applied(s))) : s \in Sources}
    BY <1>4, <2>1 DEF vars
  <2>3. Union'
    BY <1>4, <2>2 DEF vars, CacheInv, Union
  <2> QED BY <1>4, <2>3 DEF vars, CacheInv, Typed, Staged, Shared
<1> QED BY <1>1, <1>2, <1>3, <1>4 DEF Next

LEMMA InvHolds == Repeats = {} => (Spec /\ []RoomNotShared => []CacheInv)
<1> SUFFICES ASSUME Repeats = {} PROVE Spec /\ []RoomNotShared => []CacheInv
  OBVIOUS
<1>1. CacheInv /\ RoomNotShared /\ [Next]_vars => CacheInv'
  BY NextKeepsInv
<1> QED BY <1>1, InitInv, PTL DEF Spec

\* The paths of the global entry, once the difference of s is applied.
LEMMA ApplyGives ==
  ASSUME RoomNotShared, CacheInv, NEW s \in Sources, Apply(s)
  PROVE  Range(Paths(mem', global')) =
           (Range(Paths(mem, global)) \ Range(Paths(mem, toDelete[s])))
             \union Range(Paths(mem, toAdd[s]))
<1>1. PICK after, kept :
        /\ after = AddNewFrom(DeletePaths([mem |-> mem, entry |-> global], toDelete[s]), toAdd[s])
        /\ kept = {after.entry} \union {cache[r] : r \in Sources} \union
                  UNION {{old[r], toDelete[r], toAdd[r]} : r \in Sources \ {s}}
  OBVIOUS
<1>2. refresh[s] = "diffed" /\ global' = after.entry /\ mem' = Collected(after.mem, kept)
  BY <1>1 DEF Apply
<1>3. PICK m2, g2 : m2 = after.mem /\ g2 = after.entry
  OBVIOUS
<1>4. /\ g2 = Absent \/ Held(m2, g2)
      /\ Range(Paths(m2, g2)) =
           (Range(Paths(mem, global)) \ Range(Paths(mem, toDelete[s])))
             \union Range(Paths(mem, toAdd[s]))
  BY <1>1, <1>2, <1>3, ApplyMakes
<1>5. g2 = Absent \/ mem'[g2.arr] = m2[g2.arr]
  BY <1>1, <1>2, <1>3, <1>4 DEF Held, Collected, InUse
<1>6. Paths(mem', g2) = Paths(m2, g2)
  BY <1>5, SameArray DEF Same
<1> QED BY <1>2, <1>3, <1>4, <1>6

-----------------------------------------------------------------------------
(* The theorems. The first four hold for any number of sources and lists   *)
(* of any length, where no value holds the certificate twice, for as long  *)
(* as no array that the global cache shares with a source has room for a   *)
(* path of another source. The run shared_array shows what happens when    *)
(* one has. The last says that none has while the lists are short.         *)

\* As long as shared arrays have no room, no slice of the caches or of a
\* difference reaches beyond its array (cache.go:121-194).
THEOREM TypeCorrect == Repeats = {} => (Spec /\ []RoomNotShared => []TypeOK)
<1> SUFFICES ASSUME Repeats = {} PROVE Spec /\ []RoomNotShared => []TypeOK
  OBVIOUS
<1>1. CacheInv => TypeOK
  <2> SUFFICES ASSUME CacheInv PROVE TypeOK
    OBVIOUS
  <2>1. ASSUME NEW e \in Entries, e # Absent PROVE InMem(mem, e)
    <3>1. CASE e = global
      BY <2>1, <3>1, HeldFacts DEF CacheInv, Typed, Union
    <3>2. CASE e # global
      <4>1. PICK s \in Sources : e \in {cache[s], old[s], toDelete[s], toAdd[s]}
        BY <3>2 DEF Entries
      <4>2. Stage(mem, s, refresh[s], cache[s], old[s], toDelete[s], toAdd[s])
        BY DEF CacheInv, Staged
      <4>3. Cached(mem, s, e) \/ Made(mem, s, e)
        BY <2>1, <4>1, <4>2 DEF Stage
      <4> QED BY <2>1, <4>3, EmptyPaths, HeldFacts DEF Cached, Made, Own, CacheInv, Typed
    <3> QED BY <3>1, <3>2
  <2>2. ASSUME NEW e \in Entries, e # Absent
        PROVE  e.arr \in Arrays \union {NoArray} /\ e.len \in 0 .. Len(SliceAt(mem, e).arr)
    BY <2>1, <2>2, PathsFacts DEF InMem, IsSlice, CacheInv, Typed
  <2> QED BY <2>2 DEF TypeOK, CacheInv, Typed, Memory
<1> QED BY <1>1, InvHolds, PTL

\* As long as shared arrays have no room, the global cache holds the paths of
\* all sources, each once, whatever the sources find and however their
\* refreshes overlap (cache.go:64-92, 121-194).
THEOREM GlobalHoldsAll == Repeats = {} => (Spec /\ []RoomNotShared => []GlobalIsUnion)
<1> SUFFICES ASSUME Repeats = {} PROVE Spec /\ []RoomNotShared => []GlobalIsUnion
  OBVIOUS
<1>1. CacheInv => GlobalIsUnion
  BY EmptyPaths, HeldFacts DEF CacheInv, Typed, Union, Held, GlobalIsUnion
<1> QED BY <1>1, InvHolds, PTL

\* As long as shared arrays have no room, the lists of a source's cache stay
\* its own and in order, although the global cache changes arrays it has
\* taken from them (cache.go:83, 167).
THEOREM SourcesKept == Repeats = {} => (Spec /\ []RoomNotShared => []SourcesKeepTheirLists)
<1> SUFFICES ASSUME Repeats = {} PROVE Spec /\ []RoomNotShared => []SourcesKeepTheirLists
  OBVIOUS
<1>1. CacheInv => SourcesKeepTheirLists
  <2> SUFFICES ASSUME CacheInv, NEW s \in Sources
               PROVE  /\ Sorted(Paths(mem, cache[s]))
                      /\ \A p \in Range(Paths(mem, cache[s])) : p.Source = s
    BY DEF SourcesKeepTheirLists
  <2>1. Cached(mem, s, cache[s])
    BY DEF CacheInv, Staged, Stage
  <2> QED BY <2>1, EmptyPaths DEF Cached, Own, Held
<1> QED BY <1>1, InvHolds, PTL

\* As long as shared arrays have no room, applying a difference touches no
\* path of another source (core.go:119-124, cache.go:50-62).
THEOREM OthersLeftAlone == Repeats = {} => (Spec /\ []RoomNotShared => OthersUntouched)
<1> SUFFICES ASSUME Repeats = {} PROVE Spec /\ []RoomNotShared => OthersUntouched
  OBVIOUS
<1> DEFINE Step == \A s \in Sources :
                     refresh[s] = "diffed" /\ refresh'[s] = "idle" =>
                       Foreign(s, Paths(mem', global')) = Foreign(s, Paths(mem, global))
<1>1. CacheInv /\ RoomNotShared /\ [Next]_vars => [Step]_vars
  <2> SUFFICES ASSUME CacheInv, RoomNotShared, Next, NEW s \in Sources,
                      refresh[s] = "diffed", refresh'[s] = "idle"
               PROVE  Foreign(s, Paths(mem', global')) = Foreign(s, Paths(mem, global))
    OBVIOUS
  <2>1. PICK r \in Sources : Populate(r) \/ CalcDiff(r) \/ Apply(r)
    BY DEF Next
  <2>2. DOMAIN refresh = Sources
    BY DEF CacheInv, Typed
  <2>3. Apply(s)
    BY <2>1, <2>2 DEF Populate, CalcDiff, Apply
  <2>4. Range(Paths(mem', global')) =
          (Range(Paths(mem, global)) \ Range(Paths(mem, toDelete[s])))
            \union Range(Paths(mem, toAdd[s]))
    BY <2>3, ApplyGives
  <2>5. /\ \A p \in Range(Paths(mem, toDelete[s])) : p.Source = s
        /\ \A p \in Range(Paths(mem, toAdd[s])) : p.Source = s
    <3>1. Applied(s) = old[s]
      BY DEF Applied
    <3> QED BY <3>1, AppliedFacts, DifferenceOf
  <2> QED BY <2>4, <2>5 DEF Foreign
<1> QED BY <1>1, InvHolds, PTL DEF Spec, OthersUntouched

\* Lists of one or two paths leave no room in their arrays, which grow from
\* nothing by doubling (cache.go:107-116): with such lists alone the four
\* theorems above hold of every behaviour.
THEOREM ShortListsLeaveNoRoom ==
  Repeats = {} /\ MaxPaths <= 2 => (Spec => []RoomNotShared)
<1> SUFFICES ASSUME Repeats = {}, MaxPaths <= 2 PROVE Spec => []RoomNotShared
  OBVIOUS
<1>1. CacheInv => RoomNotShared
  <2> SUFFICES ASSUME CacheInv, NEW r \in Sources, global # Absent, Applied(r) # Absent,
                      Applied(r).arr = global.arr
               PROVE  Len(mem[global.arr]) = global.len
    BY DEF RoomNotShared
  <2>1. /\ Cached(mem, r, Applied(r))
        /\ Applied(r) = Known(refresh[r], cache[r], old[r])
    BY AppliedFacts
  <2>2. Sharing(global, refresh[r], cache[r], old[r], toDelete[r], toAdd[r])
    BY DEF CacheInv, Shared
  <2>3. Applied(r) = global
    BY <2>1, <2>2 DEF Sharing
  <2> QED BY <2>1, <2>3 DEF Cached
<1>2. CacheInv /\ [Next]_vars => CacheInv'
  BY <1>1, NextKeepsInv
<1> QED BY <1>1, <1>2, InitInv, PTL DEF Spec

=============================================================================
