--------------------------- MODULE PathListProofs ---------------------------
(* Proofs about the path list loops, for lists of any length.              *)
EXTENDS PathListLoops, TLAPS

(* The order of the paths, and what an append does to a list.              *)

LEMMA LessThanOrder ==
  /\ \A p \in PathObject : ~ LessThan(p, p)
  /\ \A p, q, r \in PathObject : LessThan(p, q) /\ LessThan(q, r) => LessThan(p, r)
  /\ \A p, q \in PathObject : LessThan(p, q) \/ LessThan(q, p) \/ p = q
<1>1. \A p \in PathObject : ~ LessThan(p, p)
  BY DEF LessThan, PathObject
<1>2. \A p, q, r \in PathObject : LessThan(p, q) /\ LessThan(q, r) => LessThan(p, r)
  BY DEF LessThan, PathObject
<1>3. ASSUME NEW p \in PathObject, NEW q \in PathObject,
             ~ LessThan(p, q), ~ LessThan(q, p)
      PROVE  p = q
  <2>1. p.Source = q.Source /\ p.Location = q.Location
    BY <1>3 DEF LessThan, PathObject
  <2> QED  BY <2>1 DEF PathObject
<1> QED  BY <1>1, <1>2, <1>3

LEMMA AppendFacts ==
  ASSUME NEW s \in Seq(PathObject), NEW p \in PathObject
  PROVE  /\ Append(s, p) \in Seq(PathObject)
         /\ Range(Append(s, p)) = Range(s) \union {p}
         /\ Sorted(s) /\ (\A q \in Range(s) : LessThan(q, p)) => Sorted(Append(s, p))
<1>1. /\ Append(s, p) \in Seq(PathObject)
      /\ Len(Append(s, p)) = Len(s) + 1
      /\ \A i \in 1 .. Len(s) : Append(s, p)[i] = s[i]
      /\ Append(s, p)[Len(s) + 1] = p
  OBVIOUS
<1>2. DOMAIN s = 1 .. Len(s) /\ DOMAIN Append(s, p) = 1 .. Len(s) + 1 /\ Len(s) \in Nat
  OBVIOUS
<1>3. Range(Append(s, p)) = Range(s) \union {p}
  <2>1. ASSUME NEW q \in Range(Append(s, p)) PROVE q \in Range(s) \union {p}
    BY <1>1, <1>2 DEF Range
  <2>2. ASSUME NEW q \in Range(s) PROVE q \in Range(Append(s, p))
    BY <1>1, <1>2 DEF Range
  <2>3. p \in Range(Append(s, p))
    BY <1>1, <1>2 DEF Range
  <2> QED  BY <2>1, <2>2, <2>3
<1>4. ASSUME Sorted(s), \A q \in Range(s) : LessThan(q, p)
      PROVE  Sorted(Append(s, p))
  BY <1>1, <1>2, <1>4 DEF Sorted, Range
<1> QED  BY <1>1, <1>3, <1>4

\* How much a call has still to do: what its indices have not passed.
Remaining(c) ==
  CASE c.fn = "pathListDiff" -> (Len(c.o) - c.oIdx) + (Len(c.n) - c.nIdx)
    [] c.fn = "deletePaths"  -> (c.len - c.wIdx) + (Len(c.toDelete) - c.dIdx)
    [] OTHER -> (Len(c.obj) - c.oIdx) + (c.existingLen - c.eIdx)

-----------------------------------------------------------------------------
(* pathListDiff                                                            *)

\* Between two iterations, for either list x and its result out: what has
\* been passed of x lies before what remains of the other list y, and out
\* holds what y lacks of it.
Passed(x, y, i, j, out) ==
  /\ x \in Seq(PathObject) /\ y \in Seq(PathObject) /\ Sorted(x) /\ Sorted(y)
  /\ i \in 0 .. Len(x) /\ j \in 0 .. Len(y)
  /\ \A k \in 1 .. i, l \in j + 1 .. Len(y) : LessThan(x[k], y[l])
  /\ out \in Seq(PathObject) /\ Sorted(out)
  /\ Range(out) = {x[k] : k \in 1 .. i} \ Range(y)

DiffCalls ==
  [fn : {"pathListDiff"}, o : Seq(PathObject), n : Seq(PathObject),
   oIdx : Nat, nIdx : Nat, toDelete : Seq(PathObject), toAdd : Seq(PathObject)]

DiffInv(c) ==
  /\ c \in DiffCalls
  /\ Passed(c.o, c.n, c.oIdx, c.nIdx, c.toDelete)
  /\ Passed(c.n, c.o, c.nIdx, c.oIdx, c.toAdd)

\* A smallest element of x that y lacks goes to the result.
LEMMA PassOne ==
  ASSUME NEW x, NEW y, NEW i, NEW j, NEW out, NEW other,
         Passed(x, y, i, j, out), Passed(y, x, j, i, other),
         i < Len(x), j < Len(y) => LessThan(x[i + 1], y[j + 1])
  PROVE  /\ Passed(x, y, i + 1, j, Append(out, x[i + 1]))
         /\ Passed(y, x, j, i + 1, other)
<1>1. /\ x \in Seq(PathObject) /\ y \in Seq(PathObject) /\ out \in Seq(PathObject)
      /\ i \in Nat /\ j \in Nat /\ Len(x) \in Nat /\ Len(y) \in Nat /\ j <= Len(y)
      /\ DOMAIN x = 1 .. Len(x) /\ DOMAIN y = 1 .. Len(y)
      /\ Sorted(x) /\ Sorted(y)
  BY DEF Passed
<1>2. /\ \A k, l \in 1 .. Len(x) : x[k] \in PathObject /\ (k < l => LessThan(x[k], x[l]))
      /\ \A k, l \in 1 .. Len(y) : y[k] \in PathObject /\ (k < l => LessThan(y[k], y[l]))
  <2>1. /\ \A k \in 1 .. Len(x) : x[k] \in PathObject
        /\ \A k \in 1 .. Len(y) : y[k] \in PathObject
    BY <1>1
  <2>2. /\ \A k, l \in 1 .. Len(x) : k < l => LessThan(x[k], x[l])
        /\ \A k, l \in 1 .. Len(y) : k < l => LessThan(y[k], y[l])
    BY <1>1 DEF Sorted
  <2> QED  BY <2>1, <2>2
<1>3. PICK p \in PathObject : p = x[i + 1]
  BY <1>1, <1>2
<1>4. \A l \in j + 1 .. Len(y) : LessThan(p, y[l])
  <2> SUFFICES ASSUME NEW l \in j + 1 .. Len(y) PROVE LessThan(p, y[l])
    OBVIOUS
  <2>1. j < Len(y) /\ j + 1 \in 1 .. Len(y) /\ l \in 1 .. Len(y)
    BY <1>1
  <2>2. LessThan(p, y[j + 1])
    BY <1>3, <2>1
  <2>3. CASE l = j + 1
    BY <2>2, <2>3
  <2>4. CASE l # j + 1
    <3>1. j + 1 < l
      BY <1>1, <2>4
    <3>2. LessThan(y[j + 1], y[l])
      BY <1>2, <2>1, <3>1
    <3> QED  BY <1>2, <2>1, <2>2, <3>2, LessThanOrder
  <2> QED  BY <2>3, <2>4
<1>5. p \notin Range(y)
  <2> SUFFICES ASSUME NEW l \in 1 .. Len(y), y[l] = p PROVE FALSE
    BY <1>1 DEF Range
  <2>1. CASE l <= j
    <3>1. LessThan(y[l], x[i + 1])
      BY <1>1, <2>1 DEF Passed
    <3> QED  BY <1>3, <3>1, LessThanOrder
  <2>2. CASE l > j
    BY <1>1, <1>4, <2>2, LessThanOrder
  <2> QED  BY <1>1, <2>1, <2>2
<1>6. \A q \in Range(out) : LessThan(q, p)
  <2> SUFFICES ASSUME NEW q \in Range(out) PROVE LessThan(q, p)
    OBVIOUS
  <2>1. PICK k \in 1 .. i : q = x[k]
    BY DEF Passed
  <2>2. k \in 1 .. Len(x) /\ i + 1 \in 1 .. Len(x) /\ k < i + 1
    BY <1>1
  <2> QED  BY <1>2, <1>3, <2>1, <2>2
<1>7. /\ Append(out, p) \in Seq(PathObject) /\ Sorted(Append(out, p))
      /\ Range(Append(out, p)) = Range(out) \union {p}
  BY <1>1, <1>6, AppendFacts DEF Passed
<1>8. {x[k] : k \in 1 .. i + 1} = {x[k] : k \in 1 .. i} \union {p}
  BY <1>1, <1>3
<1>9. Range(Append(out, p)) = {x[k] : k \in 1 .. i + 1} \ Range(y)
  BY <1>5, <1>7, <1>8 DEF Passed
<1>10. \A k \in 1 .. i + 1, l \in j + 1 .. Len(y) : LessThan(x[k], y[l])
  <2> SUFFICES ASSUME NEW k \in 1 .. i + 1, NEW l \in j + 1 .. Len(y)
               PROVE  LessThan(x[k], y[l])
    OBVIOUS
  <2>1. CASE k = i + 1
    BY <1>3, <1>4, <2>1
  <2>2. CASE k # i + 1
    <3>1. k \in 1 .. i
      BY <1>1, <2>2
    <3> QED  BY <3>1 DEF Passed
  <2> QED  BY <2>1, <2>2
<1>11. Passed(x, y, i + 1, j, Append(out, x[i + 1]))
  BY <1>1, <1>3, <1>7, <1>9, <1>10 DEF Passed
<1>12. \A l \in 1 .. j, k \in i + 2 .. Len(x) : LessThan(y[l], x[k])
  <2> SUFFICES ASSUME NEW l \in 1 .. j, NEW k \in i + 2 .. Len(x)
               PROVE  LessThan(y[l], x[k])
    OBVIOUS
  <2>1. k \in i + 1 .. Len(x)
    BY <1>1
  <2> QED  BY <2>1 DEF Passed
<1>13. Passed(y, x, j, i + 1, other)
  <2>1. i + 1 \in 0 .. Len(x) /\ (i + 1) + 1 = i + 2
    BY <1>1
  <2> QED  BY <1>12, <2>1 DEF Passed
<1> QED  BY <1>11, <1>13

\* An element of both lists goes to neither result.
LEMMA PassBoth ==
  ASSUME NEW x, NEW y, NEW i, NEW j, NEW out,
         Passed(x, y, i, j, out), i < Len(x), j < Len(y), x[i + 1] = y[j + 1]
  PROVE  Passed(x, y, i + 1, j + 1, out)
<1>1. /\ x \in Seq(PathObject) /\ y \in Seq(PathObject)
      /\ i \in Nat /\ j \in Nat /\ Len(x) \in Nat /\ Len(y) \in Nat
      /\ DOMAIN y = 1 .. Len(y) /\ Sorted(y)
  BY DEF Passed
<1>2. j + 1 \in 1 .. Len(y) /\ i + 1 \in 0 .. Len(x) /\ j + 1 \in 0 .. Len(y)
  BY <1>1
<1>3. PICK p : p = x[i + 1] /\ p = y[j + 1] /\ p \in Range(y)
  BY <1>1, <1>2 DEF Range
<1>4. {x[k] : k \in 1 .. i + 1} = {x[k] : k \in 1 .. i} \union {p}
  BY <1>1, <1>3
<1>5. Range(out) = {x[k] : k \in 1 .. i + 1} \ Range(y)
  BY <1>3, <1>4 DEF Passed
<1>6. \A k \in 1 .. i + 1, l \in (j + 1) + 1 .. Len(y) : LessThan(x[k], y[l])
  <2> SUFFICES ASSUME NEW k \in 1 .. i + 1, NEW l \in (j + 1) + 1 .. Len(y)
               PROVE  LessThan(x[k], y[l])
    OBVIOUS
  <2>1. l \in j + 1 .. Len(y) /\ l \in 1 .. Len(y) /\ j + 1 < l
    BY <1>1
  <2>2. CASE k = i + 1
    BY <1>1, <1>2, <1>3, <2>1, <2>2 DEF Sorted
  <2>3. CASE k # i + 1
    <3>1. k \in 1 .. i
      BY <1>1, <2>3
    <3> QED  BY <2>1, <3>1 DEF Passed
  <2> QED  BY <2>2, <2>3
<1> QED  BY <1>2, <1>5, <1>6 DEF Passed

LEMMA DropOldKeepsInv ==
  ASSUME NEW c, DiffInv(c), c.oIdx < Len(c.o),
         c.nIdx < Len(c.n) => LessThan(c.o[c.oIdx + 1], c.n[c.nIdx + 1])
  PROVE  DiffInv(DropOld(c)) /\ Remaining(DropOld(c)) < Remaining(c)
<1>0. /\ c \in DiffCalls
      /\ Passed(c.o, c.n, c.oIdx, c.nIdx, c.toDelete)
      /\ Passed(c.n, c.o, c.nIdx, c.oIdx, c.toAdd)
  BY DEF DiffInv
<1>1. PICK d : d = DropOld(c)
  OBVIOUS
<1>2. /\ d.fn = "pathListDiff" /\ d.o = c.o /\ d.n = c.n /\ d.nIdx = c.nIdx
      /\ d.oIdx = c.oIdx + 1 /\ d.toAdd = c.toAdd
      /\ d.toDelete = Append(c.toDelete, c.o[c.oIdx + 1])
  BY <1>0, <1>1 DEF DiffCalls, DropOld
<1>3. /\ Passed(d.o, d.n, d.oIdx, d.nIdx, d.toDelete)
      /\ Passed(d.n, d.o, d.nIdx, d.oIdx, d.toAdd)
  BY <1>0, <1>2, PassOne
<1>4. d.toDelete \in Seq(PathObject)
  BY <1>3 DEF Passed
<1>5. d \in DiffCalls
  <2>1. d = [fn |-> d.fn, o |-> d.o, n |-> d.n, oIdx |-> d.oIdx, nIdx |-> d.nIdx,
             toDelete |-> d.toDelete, toAdd |-> d.toAdd]
    BY <1>0, <1>1 DEF DiffCalls, DropOld
  <2>2. d.oIdx \in Nat /\ d.nIdx \in Nat
    BY <1>0, <1>2 DEF DiffCalls
  <2> QED  BY <1>0, <1>2, <1>4, <2>1, <2>2 DEF DiffCalls
<1>6. Remaining(d) < Remaining(c)
  BY <1>0, <1>2 DEF DiffCalls, Remaining
<1> QED  BY <1>1, <1>3, <1>5, <1>6 DEF DiffInv

LEMMA TakeNewKeepsInv ==
  ASSUME NEW c, DiffInv(c), c.nIdx < Len(c.n),
         c.oIdx < Len(c.o) => LessThan(c.n[c.nIdx + 1], c.o[c.oIdx + 1])
  PROVE  DiffInv(TakeNew(c)) /\ Remaining(TakeNew(c)) < Remaining(c)
<1>0. /\ c \in DiffCalls
      /\ Passed(c.o, c.n, c.oIdx, c.nIdx, c.toDelete)
      /\ Passed(c.n, c.o, c.nIdx, c.oIdx, c.toAdd)
  BY DEF DiffInv
<1>1. PICK d : d = TakeNew(c)
  OBVIOUS
<1>2. /\ d.fn = "pathListDiff" /\ d.o = c.o /\ d.n = c.n /\ d.oIdx = c.oIdx
      /\ d.nIdx = c.nIdx + 1 /\ d.toDelete = c.toDelete
      /\ d.toAdd = Append(c.toAdd, c.n[c.nIdx + 1])
  BY <1>0, <1>1 DEF DiffCalls, TakeNew
<1>3. /\ Passed(d.o, d.n, d.oIdx, d.nIdx, d.toDelete)
      /\ Passed(d.n, d.o, d.nIdx, d.oIdx, d.toAdd)
  BY <1>0, <1>2, PassOne
<1>4. d.toAdd \in Seq(PathObject)
  BY <1>3 DEF Passed
<1>5. d \in DiffCalls
  <2>1. d = [fn |-> d.fn, o |-> d.o, n |-> d.n, oIdx |-> d.oIdx, nIdx |-> d.nIdx,
             toDelete |-> d.toDelete, toAdd |-> d.toAdd]
    BY <1>0, <1>1 DEF DiffCalls, TakeNew
  <2>2. d.oIdx \in Nat /\ d.nIdx \in Nat
    BY <1>0, <1>2 DEF DiffCalls
  <2> QED  BY <1>0, <1>2, <1>4, <2>1, <2>2 DEF DiffCalls
<1>6. Remaining(d) < Remaining(c)
  BY <1>0, <1>2 DEF DiffCalls, Remaining
<1> QED  BY <1>1, <1>3, <1>5, <1>6 DEF DiffInv

LEMMA KeepBothKeepsInv ==
  ASSUME NEW c, DiffInv(c), c.oIdx < Len(c.o), c.nIdx < Len(c.n),
         c.o[c.oIdx + 1] = c.n[c.nIdx + 1]
  PROVE  DiffInv(KeepBoth(c)) /\ Remaining(KeepBoth(c)) < Remaining(c)
<1>0. /\ c \in DiffCalls
      /\ Passed(c.o, c.n, c.oIdx, c.nIdx, c.toDelete)
      /\ Passed(c.n, c.o, c.nIdx, c.oIdx, c.toAdd)
  BY DEF DiffInv
<1>1. PICK d : d = KeepBoth(c)
  OBVIOUS
<1>2. /\ d.fn = "pathListDiff" /\ d.o = c.o /\ d.n = c.n /\ d.oIdx = c.oIdx + 1
      /\ d.nIdx = c.nIdx + 1 /\ d.toDelete = c.toDelete /\ d.toAdd = c.toAdd
  BY <1>0, <1>1 DEF DiffCalls, KeepBoth
<1>3. /\ Passed(d.o, d.n, d.oIdx, d.nIdx, d.toDelete)
      /\ Passed(d.n, d.o, d.nIdx, d.oIdx, d.toAdd)
  BY <1>0, <1>2, PassBoth
<1>4. d \in DiffCalls
  <2>1. d = [fn |-> d.fn, o |-> d.o, n |-> d.n, oIdx |-> d.oIdx, nIdx |-> d.nIdx,
             toDelete |-> d.toDelete, toAdd |-> d.toAdd]
    BY <1>0, <1>1 DEF DiffCalls, KeepBoth
  <2>2. d.oIdx \in Nat /\ d.nIdx \in Nat
    BY <1>0, <1>2 DEF DiffCalls
  <2> QED  BY <1>0, <1>2, <2>1, <2>2 DEF DiffCalls
<1>5. Remaining(d) < Remaining(c)
  BY <1>0, <1>2 DEF DiffCalls, Remaining
<1> QED  BY <1>1, <1>3, <1>4, <1>5 DEF DiffInv

LEMMA DiffStepKeepsInv ==
  ASSUME NEW c, DiffInv(c), ~ DiffDone(c)
  PROVE  /\ DiffInv(DiffStep(c))
         /\ Remaining(DiffStep(c)) \in Nat /\ Remaining(DiffStep(c)) < Remaining(c)
<1>1. DiffInv(DiffStep(c)) /\ Remaining(DiffStep(c)) < Remaining(c)
  <2>0. /\ c.o \in Seq(PathObject) /\ c.n \in Seq(PathObject)
        /\ c.oIdx \in 0 .. Len(c.o) /\ c.nIdx \in 0 .. Len(c.n)
        /\ Len(c.o) \in Nat /\ Len(c.n) \in Nat
    BY DEF DiffInv, Passed
  <2>1. CASE c.nIdx = Len(c.n)
    <3>1. c.oIdx < Len(c.o) /\ DiffStep(c) = DropOld(c)
      BY <2>0, <2>1 DEF DiffDone, DiffStep
    <3> QED  BY <2>0, <2>1, <3>1, DropOldKeepsInv
  <2>2. CASE c.nIdx # Len(c.n) /\ c.oIdx = Len(c.o)
    <3>1. c.nIdx < Len(c.n) /\ DiffStep(c) = TakeNew(c)
      BY <2>0, <2>2 DEF DiffStep
    <3> QED  BY <2>0, <2>2, <3>1, TakeNewKeepsInv
  <2>3. CASE c.nIdx # Len(c.n) /\ c.oIdx # Len(c.o)
    <3>1. c.nIdx < Len(c.n) /\ c.oIdx < Len(c.o)
      BY <2>0, <2>3
    <3>2. c.o[c.oIdx + 1] \in PathObject /\ c.n[c.nIdx + 1] \in PathObject
      BY <2>0, <3>1
    <3>3. CASE c.o[c.oIdx + 1] = c.n[c.nIdx + 1]
      <4>1. DiffStep(c) = KeepBoth(c)
        BY <2>3, <3>3 DEF DiffStep
      <4> QED  BY <2>0, <3>1, <3>3, <4>1, KeepBothKeepsInv
    <3>4. CASE LessThan(c.o[c.oIdx + 1], c.n[c.nIdx + 1])
      <4>1. DiffStep(c) = DropOld(c)
        BY <2>3, <3>2, <3>4, LessThanOrder DEF DiffStep
      <4> QED  BY <2>0, <3>1, <3>4, <4>1, DropOldKeepsInv
    <3>5. CASE /\ c.o[c.oIdx + 1] # c.n[c.nIdx + 1]
               /\ ~ LessThan(c.o[c.oIdx + 1], c.n[c.nIdx + 1])
      <4>1. DiffStep(c) = TakeNew(c)
        BY <2>3, <3>5 DEF DiffStep
      <4>2. LessThan(c.n[c.nIdx + 1], c.o[c.oIdx + 1])
        BY <3>2, <3>5, LessThanOrder
      <4> QED  BY <2>0, <3>1, <4>1, <4>2, TakeNewKeepsInv
    <3> QED  BY <3>3, <3>4, <3>5
  <2> QED  BY <2>1, <2>2, <2>3
<1>2. Remaining(DiffStep(c)) \in Nat
  BY <1>1 DEF DiffInv, DiffCalls, Passed, Remaining
<1> QED  BY <1>1, <1>2

-----------------------------------------------------------------------------
(* deletePaths                                                             *)

\* Between two iterations over an array of its own: the slice holds what is
\* left of list b, sorted; nothing up to w is to be deleted, and what comes
\* after w lies behind the first d paths of del.
Pruned(arr, len, del, w, d, b) ==
  /\ arr \in Seq(PathObject) /\ del \in Seq(PathObject) /\ Sorted(del)
  /\ len \in 0 .. Len(arr) /\ w \in 0 .. len /\ d \in 0 .. Len(del)
  /\ \A k, l \in 1 .. len : k < l => LessThan(arr[k], arr[l])
  /\ \A k \in 1 .. len : arr[k] \in Range(b)
  /\ \A p \in Range(b) : p \in Range(del) \/ \E k \in 1 .. len : arr[k] = p
  /\ \A k \in 1 .. w : arr[k] \notin Range(del)
  /\ \A k \in w + 1 .. len, l \in 1 .. d : LessThan(del[l], arr[k])

DeleteCalls ==
  [fn : {"deletePaths"}, arr : Seq(PathObject), len : Nat,
   toDelete : Seq(PathObject), shared : BOOLEAN, wIdx : Nat, dIdx : Nat]

\* In an array shared with the list of deletions the first element is always
\* the one to be deleted.
DeleteInv(c, b) ==
  /\ c \in DeleteCalls
  /\ c.shared => /\ c.len <= Len(c.arr) /\ c.wIdx = 0 /\ c.dIdx = 0
                 /\ c.toDelete = b /\ c.len <= Len(b)
  /\ ~ c.shared => Pruned(c.arr, c.len, c.toDelete, c.wIdx, c.dIdx, b)

\* The gap left by a deleted path is closed.
LEMMA PruneOne ==
  ASSUME NEW arr, NEW len, NEW del, NEW w, NEW d, NEW b, NEW new,
         Pruned(arr, len, del, w, d, b), w < len, d < Len(del),
         arr[w + 1] = del[d + 1],
         new \in Seq(PathObject), Len(new) = Len(arr),
         \A k \in 1 .. w : new[k] = arr[k],
         \A k \in w + 1 .. len - 1 : new[k] = arr[k + 1]
  PROVE  Pruned(new, len - 1, del, w, d, b)
<1>1. /\ len \in Nat /\ w \in Nat /\ d \in Nat /\ Len(arr) \in Nat /\ Len(del) \in Nat
      /\ len <= Len(arr) /\ DOMAIN del = 1 .. Len(del)
  BY DEF Pruned
<1>2. \A k, l \in 1 .. len - 1 : k < l => LessThan(new[k], new[l])
  <2> SUFFICES ASSUME NEW k \in 1 .. len - 1, NEW l \in 1 .. len - 1, k < l
               PROVE  LessThan(new[k], new[l])
    OBVIOUS
  <2>1. \A i, j \in 1 .. len : i < j => LessThan(arr[i], arr[j])
    BY DEF Pruned
  <2>2. CASE l <= w
    BY <1>1, <2>1, <2>2
  <2>3. CASE k <= w /\ l > w
    <3>1. new[k] = arr[k] /\ new[l] = arr[l + 1]
      BY <1>1, <2>3
    <3> QED  BY <1>1, <2>1, <3>1
  <2>4. CASE k > w
    <3>1. new[k] = arr[k + 1] /\ new[l] = arr[l + 1]
      BY <1>1, <2>4
    <3> QED  BY <1>1, <2>1, <3>1
  <2> QED  BY <1>1, <2>2, <2>3, <2>4
<1>3. \A k \in 1 .. len - 1 : \E i \in 1 .. len : new[k] = arr[i]
  <2> SUFFICES ASSUME NEW k \in 1 .. len - 1
               PROVE  \E i \in 1 .. len : new[k] = arr[i]
    OBVIOUS
  <2>1. CASE k <= w
    BY <1>1, <2>1
  <2>2. CASE k > w
    BY <1>1, <2>2
  <2> QED  BY <1>1, <2>1, <2>2
<1>4. \A k \in 1 .. len - 1 : new[k] \in Range(b)
  BY <1>3 DEF Pruned
<1>5. \A p \in Range(b) : p \in Range(del) \/ \E k \in 1 .. len - 1 : new[k] = p
  <2> SUFFICES ASSUME NEW p \in Range(b), p \notin Range(del)
               PROVE  \E k \in 1 .. len - 1 : new[k] = p
    OBVIOUS
  <2>1. PICK i \in 1 .. len : arr[i] = p
    BY DEF Pruned
  <2>2. i # w + 1
    BY <1>1, <2>1 DEF Range
  <2>3. CASE i <= w
    BY <1>1, <2>1, <2>3
  <2>4. CASE i > w + 1
    <3>1. i - 1 \in w + 1 .. len - 1 /\ (i - 1) + 1 = i
      BY <1>1, <2>4
    <3>2. new[i - 1] = p
      BY <2>1, <3>1
    <3> QED  BY <1>1, <3>1, <3>2
  <2> QED  BY <1>1, <2>2, <2>3, <2>4
<1>6. \A k \in 1 .. w : new[k] \notin Range(del)
  BY DEF Pruned
<1>7. \A k \in w + 1 .. len - 1, l \in 1 .. d : LessThan(del[l], new[k])
  <2> SUFFICES ASSUME NEW k \in w + 1 .. len - 1, NEW l \in 1 .. d
               PROVE  LessThan(del[l], new[k])
    OBVIOUS
  <2>1. k + 1 \in w + 1 .. len /\ new[k] = arr[k + 1]
    BY <1>1
  <2> QED  BY <2>1 DEF Pruned
<1>8. len - 1 \in 0 .. Len(new) /\ w \in 0 .. len - 1
  BY <1>1
<1> QED  BY <1>2, <1>4, <1>5, <1>6, <1>7, <1>8 DEF Pruned

\* A path that lies before what is still to be deleted stays.
LEMMA KeepOne ==
  ASSUME NEW arr, NEW len, NEW del, NEW w, NEW d, NEW b,
         Pruned(arr, len, del, w, d, b), w < len, d < Len(del),
         LessThan(arr[w + 1], del[d + 1])
  PROVE  Pruned(arr, len, del, w + 1, d, b)
<1>1. /\ len \in Nat /\ w \in Nat /\ d \in Nat /\ Len(arr) \in Nat /\ Len(del) \in Nat
      /\ len <= Len(arr) /\ DOMAIN del = 1 .. Len(del)
      /\ arr \in Seq(PathObject) /\ del \in Seq(PathObject)
  BY DEF Pruned
<1>2. PICK p \in PathObject : p = arr[w + 1]
  BY <1>1
<1>3. p \notin Range(del)
  <2> SUFFICES ASSUME NEW l \in 1 .. Len(del), del[l] = p PROVE FALSE
    BY <1>1 DEF Range
  <2>1. CASE l <= d
    <3>1. LessThan(del[l], arr[w + 1])
      BY <1>1, <2>1 DEF Pruned
    <3> QED  BY <1>2, <3>1, LessThanOrder
  <2>2. CASE l = d + 1
    BY <1>2, <2>2, LessThanOrder
  <2>3. CASE l > d + 1
    <3>1. LessThan(del[d + 1], del[l])
      <4>1. d + 1 \in DOMAIN del /\ l \in DOMAIN del /\ d + 1 < l
        BY <1>1, <2>3
      <4>2. Sorted(del)
        BY DEF Pruned
      <4> QED  BY <4>1, <4>2 DEF Sorted
    <3>2. del[d + 1] \in PathObject
      BY <1>1
    <3> QED  BY <1>2, <3>1, <3>2, LessThanOrder
  <2> QED  BY <1>1, <2>1, <2>2, <2>3
<1>4. \A k \in 1 .. w + 1 : arr[k] \notin Range(del)
  <2> SUFFICES ASSUME NEW k \in 1 .. w + 1 PROVE arr[k] \notin Range(del)
    OBVIOUS
  <2>1. CASE k = w + 1
    BY <1>2, <1>3, <2>1
  <2>2. CASE k # w + 1
    <3>1. k \in 1 .. w
      BY <1>1, <2>2
    <3> QED  BY <3>1 DEF Pruned
  <2> QED  BY <2>1, <2>2
<1>5. \A k \in (w + 1) + 1 .. len, l \in 1 .. d : LessThan(del[l], arr[k])
  <2> SUFFICES ASSUME NEW k \in (w + 1) + 1 .. len, NEW l \in 1 .. d
               PROVE  LessThan(del[l], arr[k])
    OBVIOUS
  <2>1. k \in w + 1 .. len
    BY <1>1
  <2> QED  BY <2>1 DEF Pruned
<1>6. w + 1 \in 0 .. len
  BY <1>1
<1> QED  BY <1>4, <1>5, <1>6 DEF Pruned

\* A path to be deleted that lies before the rest of the slice is not in it.
LEMMA PassDeletion ==
  ASSUME NEW arr, NEW len, NEW del, NEW w, NEW d, NEW b,
         Pruned(arr, len, del, w, d, b), w < len, d < Len(del),
         LessThan(del[d + 1], arr[w + 1])
  PROVE  Pruned(arr, len, del, w, d + 1, b)
<1>1. /\ len \in Nat /\ w \in Nat /\ d \in Nat /\ Len(arr) \in Nat /\ Len(del) \in Nat
      /\ len <= Len(arr)
      /\ arr \in Seq(PathObject) /\ del \in Seq(PathObject)
  BY DEF Pruned
<1>2. \A k \in w + 1 .. len, l \in 1 .. d + 1 : LessThan(del[l], arr[k])
  <2> SUFFICES ASSUME NEW k \in w + 1 .. len, NEW l \in 1 .. d + 1
               PROVE  LessThan(del[l], arr[k])
    OBVIOUS
  <2>1. CASE l # d + 1
    <3>1. l \in 1 .. d
      BY <1>1, <2>1
    <3> QED  BY <3>1 DEF Pruned
  <2>2. CASE l = d + 1 /\ k = w + 1
    BY <2>2
  <2>3. CASE l = d + 1 /\ k # w + 1
    <3>1. LessThan(arr[w + 1], arr[k])
      <4>1. w + 1 \in 1 .. len /\ k \in 1 .. len /\ w + 1 < k
        BY <1>1, <2>3
      <4> QED  BY <4>1 DEF Pruned
    <3>2. arr[w + 1] \in PathObject /\ arr[k] \in PathObject /\ del[l] \in PathObject
      BY <1>1
    <3> QED  BY <2>3, <3>1, <3>2, LessThanOrder
  <2> QED  BY <2>1, <2>2, <2>3
<1>3. d + 1 \in 0 .. Len(del)
  BY <1>1
<1> QED  BY <1>2, <1>3 DEF Pruned

\* The indices of an iteration, and what each of its cases leaves to do.
LEMMA LessToDo ==
  ASSUME NEW l \in Nat, NEW w \in Nat, NEW n \in Nat, NEW d \in Nat, w < l, d < n
  PROVE  /\ (l - (w + 1)) + (n - d) \in Nat /\ (l - (w + 1)) + (n - d) < (l - w) + (n - d)
         /\ (l - w) + (n - (d + 1)) \in Nat /\ (l - w) + (n - (d + 1)) < (l - w) + (n - d)
         /\ (l - 1 - w) + (n - d) \in Nat /\ (l - 1 - w) + (n - d) < (l - w) + (n - d)
OBVIOUS

LEMMA DeleteStepKeepsInv ==
  ASSUME NEW c, NEW b, DeleteInv(c, b), ~ DeleteDone(c)
  PROVE  /\ DeleteInv(DeleteStep(c), b)
         /\ Remaining(DeleteStep(c)) \in Nat /\ Remaining(DeleteStep(c)) < Remaining(c)
<1>1. /\ c \in DeleteCalls /\ c.arr \in Seq(PathObject) /\ c.toDelete \in Seq(PathObject)
      /\ c.len \in Nat /\ c.wIdx \in Nat /\ c.dIdx \in Nat
      /\ Len(c.arr) \in Nat /\ Len(c.toDelete) \in Nat
  BY DEF DeleteInv, DeleteCalls
<1>2. c.len <= Len(c.arr) /\ c.wIdx < c.len /\ c.dIdx < Len(c.toDelete)
  <2>1. c.len <= Len(c.arr) /\ c.wIdx <= c.len /\ c.dIdx <= Len(c.toDelete)
    BY <1>1 DEF DeleteInv, DeleteCalls, Pruned
  <2> QED  BY <1>1, <2>1 DEF DeleteDone
<1>3. Remaining(c) = (c.len - c.wIdx) + (Len(c.toDelete) - c.dIdx)
  BY <1>1 DEF DeleteCalls, Remaining
<1>31. /\ (c.len - (c.wIdx + 1)) + (Len(c.toDelete) - c.dIdx) \in Nat
       /\ (c.len - (c.wIdx + 1)) + (Len(c.toDelete) - c.dIdx) < Remaining(c)
       /\ (c.len - c.wIdx) + (Len(c.toDelete) - (c.dIdx + 1)) \in Nat
       /\ (c.len - c.wIdx) + (Len(c.toDelete) - (c.dIdx + 1)) < Remaining(c)
       /\ (c.len - 1 - c.wIdx) + (Len(c.toDelete) - c.dIdx) \in Nat
       /\ (c.len - 1 - c.wIdx) + (Len(c.toDelete) - c.dIdx) < Remaining(c)
  <2>1. PICK l, w, n, d : l = c.len /\ w = c.wIdx /\ n = Len(c.toDelete) /\ d = c.dIdx
    OBVIOUS
  <2>2. l \in Nat /\ w \in Nat /\ n \in Nat /\ d \in Nat /\ w < l /\ d < n
    BY <1>1, <1>2, <2>1
  <2>3. /\ (l - (w + 1)) + (n - d) \in Nat /\ (l - (w + 1)) + (n - d) < (l - w) + (n - d)
        /\ (l - w) + (n - (d + 1)) \in Nat /\ (l - w) + (n - (d + 1)) < (l - w) + (n - d)
        /\ (l - 1 - w) + (n - d) \in Nat /\ (l - 1 - w) + (n - d) < (l - w) + (n - d)
    BY <2>2, LessToDo
  <2> QED  BY <1>3, <2>1, <2>3
<1>4. PICK p \in PathObject : p = c.arr[c.wIdx + 1]
  BY <1>1, <1>2
<1>5. CASE p = Candidate(c)
  <2>1. PICK e : e = DeleteStep(c)
    OBVIOUS
  <2>2. e = [c EXCEPT !.arr = Closed(c), !.len = c.len - 1]
    BY <1>4, <1>5, <2>1 DEF DeleteStep
  <2>3. /\ e.fn = "deletePaths" /\ e.arr = Closed(c) /\ e.len = c.len - 1
        /\ e.toDelete = c.toDelete /\ e.shared = c.shared
        /\ e.wIdx = c.wIdx /\ e.dIdx = c.dIdx
        /\ e = [fn |-> e.fn, arr |-> e.arr, len |-> e.len, toDelete |-> e.toDelete,
                shared |-> e.shared, wIdx |-> e.wIdx, dIdx |-> e.dIdx]
    BY <1>1, <2>2 DEF DeleteCalls
  <2>4. /\ e.arr \in Seq(PathObject) /\ Len(e.arr) = Len(c.arr)
        /\ \A k \in 1 .. c.wIdx : e.arr[k] = c.arr[k]
        /\ \A k \in c.wIdx + 1 .. c.len - 1 : e.arr[k] = c.arr[k + 1]
    <3>1. \A k \in 1 .. Len(c.arr) :
            (IF k \in c.wIdx + 1 .. c.len - 1 THEN c.arr[k + 1] ELSE c.arr[k])
              \in PathObject
      BY <1>1, <1>2
    <3>2. Closed(c) \in [1 .. Len(c.arr) -> PathObject]
      BY <3>1 DEF Closed
    <3>3. Closed(c) \in Seq(PathObject) /\ Len(Closed(c)) = Len(c.arr)
      <4>1. PICK n, new : n = Len(c.arr) /\ new = Closed(c)
        OBVIOUS
      <4>2. n \in Nat /\ new \in [1 .. n -> PathObject]
        BY <1>1, <3>2, <4>1
      <4>3. new \in Seq(PathObject) /\ Len(new) = n
        BY <4>2
      <4> QED  BY <4>1, <4>3
    <3> QED  BY <1>1, <1>2, <2>3, <3>3 DEF Closed
  <2>5. e \in DeleteCalls
    <3>1. e.shared \in BOOLEAN
      BY <1>1, <2>3 DEF DeleteCalls
    <3>2. e.len \in Nat /\ e.wIdx \in Nat /\ e.dIdx \in Nat
      BY <1>1, <1>2, <2>3
    <3>3. e.toDelete \in Seq(PathObject)
      BY <1>1, <2>3
    <3> QED  BY <2>3, <2>4, <3>1, <3>2, <3>3 DEF DeleteCalls
  <2>6. CASE c.shared
    <3>1. /\ c.wIdx = 0 /\ c.dIdx = 0 /\ c.toDelete = b /\ c.len <= Len(b)
      BY <2>6 DEF DeleteInv
    <3>2. e.len <= Len(e.arr) /\ e.len <= Len(b)
      BY <1>1, <1>2, <2>3, <2>4, <3>1
    <3> QED  BY <1>1, <1>2, <1>3, <2>1, <2>3, <2>5, <2>6, <3>1, <3>2
             DEF DeleteInv, Remaining
  <2>7. CASE ~ c.shared
    <3>1. p = c.toDelete[c.dIdx + 1]
      BY <1>5, <2>7 DEF Candidate
    <3>2. Pruned(c.arr, c.len, c.toDelete, c.wIdx, c.dIdx, b)
      BY <2>7 DEF DeleteInv
    <3>3. Pruned(e.arr, c.len - 1, c.toDelete, c.wIdx, c.dIdx, b)
      BY <1>2, <1>4, <2>4, <3>1, <3>2, PruneOne
    <3>4. DeleteInv(e, b)
      BY <2>3, <2>5, <2>7, <3>3 DEF DeleteInv
    <3>5. Remaining(e) = (c.len - 1 - c.wIdx) + (Len(c.toDelete) - c.dIdx)
      BY <2>3 DEF Remaining
    <3>6. Remaining(e) \in Nat /\ Remaining(e) < Remaining(c)
      BY <1>3, <1>31, <3>5
    <3> QED  BY <2>1, <3>4, <3>6
  <2> QED  BY <2>6, <2>7
<1>6. CASE p # Candidate(c)
  <2>1. ~ c.shared
    <3> SUFFICES ASSUME c.shared PROVE FALSE
      OBVIOUS
    <3>1. c.wIdx = 0 /\ c.dIdx = 0
      BY DEF DeleteInv
    <3> QED  BY <1>4, <1>6, <3>1 DEF Candidate
  <2>2. PICK q \in PathObject : q = c.toDelete[c.dIdx + 1] /\ q = Candidate(c)
    BY <1>1, <1>2, <2>1 DEF Candidate
  <2>3. Pruned(c.arr, c.len, c.toDelete, c.wIdx, c.dIdx, b)
    BY <2>1 DEF DeleteInv
  <2>4. PICK e : e = DeleteStep(c)
    OBVIOUS
  <2>5. CASE LessThan(p, q)
    <3>1. e = [c EXCEPT !.wIdx = c.wIdx + 1]
      BY <1>4, <1>6, <2>2, <2>4, <2>5 DEF DeleteStep
    <3>2. /\ e \in DeleteCalls
          /\ e.fn = "deletePaths" /\ e.arr = c.arr /\ e.len = c.len
          /\ e.toDelete = c.toDelete /\ e.shared = c.shared
          /\ e.wIdx = c.wIdx + 1 /\ e.dIdx = c.dIdx
      BY <1>1, <3>1 DEF DeleteCalls
    <3>3. Pruned(c.arr, c.len, c.toDelete, c.wIdx + 1, c.dIdx, b)
      BY <1>2, <1>4, <2>2, <2>3, <2>5, KeepOne
    <3>4. DeleteInv(e, b)
      BY <2>1, <3>2, <3>3 DEF DeleteInv
    <3>5. Remaining(e) = (c.len - (c.wIdx + 1)) + (Len(c.toDelete) - c.dIdx)
      BY <3>2 DEF Remaining
    <3>6. Remaining(e) \in Nat /\ Remaining(e) < Remaining(c)
      BY <1>3, <1>31, <3>5
    <3> QED  BY <2>4, <3>4, <3>6
  <2>6. CASE ~ LessThan(p, q)
    <3>1. LessThan(q, p)
      BY <1>4, <1>6, <2>2, <2>6, LessThanOrder
    <3>2. e = [c EXCEPT !.dIdx = c.dIdx + 1]
      BY <1>4, <1>6, <2>2, <2>4, <2>6 DEF DeleteStep
    <3>3. /\ e \in DeleteCalls
          /\ e.fn = "deletePaths" /\ e.arr = c.arr /\ e.len = c.len
          /\ e.toDelete = c.toDelete /\ e.shared = c.shared
          /\ e.wIdx = c.wIdx /\ e.dIdx = c.dIdx + 1
      BY <1>1, <3>2 DEF DeleteCalls
    <3>4. Pruned(c.arr, c.len, c.toDelete, c.wIdx, c.dIdx + 1, b)
      BY <1>2, <1>4, <2>2, <2>3, <3>1, PassDeletion
    <3>5. DeleteInv(e, b)
      BY <2>1, <3>3, <3>4 DEF DeleteInv
    <3>6. Remaining(e) = (c.len - c.wIdx) + (Len(c.toDelete) - (c.dIdx + 1))
      BY <3>3 DEF Remaining
    <3>7. Remaining(e) \in Nat /\ Remaining(e) < Remaining(c)
      BY <1>3, <1>31, <3>6
    <3> QED  BY <2>4, <3>5, <3>7
  <2> QED  BY <2>5, <2>6
<1> QED  BY <1>5, <1>6

-----------------------------------------------------------------------------
(* addNewFrom                                                              *)

\* Between two iterations: list b is still at the front of the array, all
\* that follows comes from obj, the first i paths of obj are there, and they
\* are what follows b if none of them is in b.
Joined(arr, len, obj, i, b) ==
  /\ arr \in Seq(PathObject) /\ obj \in Seq(PathObject) /\ b \in Seq(PathObject)
  /\ len \in Len(b) .. Len(arr) /\ i \in 0 .. Len(obj)
  /\ \A k \in 1 .. Len(b) : arr[k] = b[k]
  /\ \A k \in 1 .. len : arr[k] \in Range(b) \union Range(obj)
  /\ \A l \in 1 .. i : \E k \in 1 .. len : arr[k] = obj[l]
  /\ Range(b) \intersect Range(obj) = {} =>
       len = Len(b) + i /\ \A l \in 1 .. i : arr[Len(b) + l] = obj[l]

MergeCalls ==
  [fn : {"addNewFrom"}, arr : Seq(PathObject), len : Nat, obj : Seq(PathObject),
   existingLen : Nat, oIdx : Nat, eIdx : Nat]

MergeInv(c, b) ==
  /\ c \in MergeCalls
  /\ c.existingLen = Len(b) /\ c.eIdx <= c.existingLen
  /\ Joined(c.arr, c.len, c.obj, c.oIdx, b)

\* append keeps what the slice holds and puts the path behind it.
LEMMA AppendedFacts ==
  ASSUME NEW arr \in Seq(PathObject), NEW len \in 0 .. Len(arr), NEW p \in PathObject
  PROVE  /\ Appended(arr, len, p) \in Seq(PathObject)
         /\ len + 1 <= Len(Appended(arr, len, p))
         /\ \A k \in 1 .. len : Appended(arr, len, p)[k] = arr[k]
         /\ Appended(arr, len, p)[len + 1] = p
<1>1. Room(arr, len) \in Nat /\ len + 1 <= Room(arr, len)
  BY DEF Room
<1>2. \A k \in 1 .. Room(arr, len) :
        (IF k = len + 1 THEN p ELSE IF k \in DOMAIN arr THEN arr[k] ELSE ZeroPath)
          \in PathObject
  <2>1. ZeroPath \in PathObject
    BY DEF ZeroPath, PathObject
  <2>2. \A k \in DOMAIN arr : arr[k] \in PathObject
    OBVIOUS
  <2> QED  BY <2>1, <2>2
<1>3. Appended(arr, len, p) \in [1 .. Room(arr, len) -> PathObject]
  BY <1>2 DEF Appended
<1>4. Appended(arr, len, p) \in Seq(PathObject) /\ Len(Appended(arr, len, p)) = Room(arr, len)
  BY <1>1, <1>3
<1>5. \A k \in 1 .. len : Appended(arr, len, p)[k] = arr[k]
  <2> SUFFICES ASSUME NEW k \in 1 .. len PROVE Appended(arr, len, p)[k] = arr[k]
    OBVIOUS
  <2>1. k \in 1 .. Room(arr, len) /\ k # len + 1 /\ k \in DOMAIN arr
    BY <1>1
  <2> QED  BY <2>1 DEF Appended
<1>6. Appended(arr, len, p)[len + 1] = p
  BY <1>1 DEF Appended
<1> QED  BY <1>1, <1>4, <1>5, <1>6

\* An appended path.
LEMMA JoinOne ==
  ASSUME NEW arr, NEW len, NEW obj, NEW i, NEW b, NEW new,
         Joined(arr, len, obj, i, b), i < Len(obj),
         new \in Seq(PathObject), len + 1 <= Len(new),
         \A k \in 1 .. len : new[k] = arr[k], new[len + 1] = obj[i + 1]
  PROVE  Joined(new, len + 1, obj, i + 1, b)
<1>1. /\ len \in Nat /\ i \in Nat /\ Len(b) \in Nat /\ Len(obj) \in Nat
      /\ Len(b) <= len /\ DOMAIN obj = 1 .. Len(obj) /\ Len(new) \in Nat
  BY DEF Joined
<1>2. obj[i + 1] \in Range(obj)
  BY <1>1 DEF Range
<1>3. \A k \in 1 .. len + 1 : new[k] \in Range(b) \union Range(obj)
  <2> SUFFICES ASSUME NEW k \in 1 .. len + 1
               PROVE  new[k] \in Range(b) \union Range(obj)
    OBVIOUS
  <2>1. CASE k = len + 1
    BY <1>2, <2>1
  <2>2. CASE k # len + 1
    <3>1. k \in 1 .. len
      BY <1>1, <2>2
    <3> QED  BY <3>1 DEF Joined
  <2> QED  BY <2>1, <2>2
<1>4. \A l \in 1 .. i + 1 : \E k \in 1 .. len + 1 : new[k] = obj[l]
  <2> SUFFICES ASSUME NEW l \in 1 .. i + 1
               PROVE  \E k \in 1 .. len + 1 : new[k] = obj[l]
    OBVIOUS
  <2>1. CASE l = i + 1
    BY <1>1, <2>1
  <2>2. CASE l # i + 1
    <3>1. l \in 1 .. i
      BY <1>1, <2>2
    <3>2. PICK k \in 1 .. len : arr[k] = obj[l]
      BY <3>1 DEF Joined
    <3> QED  BY <1>1, <3>2
  <2> QED  BY <2>1, <2>2
<1>5. ASSUME Range(b) \intersect Range(obj) = {}
      PROVE  /\ len + 1 = Len(b) + (i + 1)
             /\ \A l \in 1 .. i + 1 : new[Len(b) + l] = obj[l]
  <2>1. len = Len(b) + i /\ \A l \in 1 .. i : arr[Len(b) + l] = obj[l]
    BY <1>5 DEF Joined
  <2>2. ASSUME NEW l \in 1 .. i + 1 PROVE new[Len(b) + l] = obj[l]
    <3>1. CASE l = i + 1
      BY <1>1, <2>1, <3>1
    <3>2. CASE l # i + 1
      <4>1. l \in 1 .. i /\ Len(b) + l \in 1 .. len
        BY <1>1, <2>1, <3>2
      <4> QED  BY <2>1, <4>1
    <3> QED  BY <3>1, <3>2
  <2> QED  BY <1>1, <2>1, <2>2
<1>6. \A k \in 1 .. Len(b) : new[k] = b[k]
  <2> SUFFICES ASSUME NEW k \in 1 .. Len(b) PROVE new[k] = b[k]
    OBVIOUS
  <2>1. k \in 1 .. len
    BY <1>1
  <2> QED  BY <2>1 DEF Joined
<1>7. len + 1 \in Len(b) .. Len(new) /\ i + 1 \in 0 .. Len(obj)
  BY <1>1
<1> QED  BY <1>3, <1>4, <1>5, <1>6, <1>7 DEF Joined

\* A path that is there already.
LEMMA JoinPresent ==
  ASSUME NEW arr, NEW len, NEW obj, NEW i, NEW b, NEW e,
         Joined(arr, len, obj, i, b), i < Len(obj),
         e \in 1 .. Len(b), obj[i + 1] = arr[e]
  PROVE  Joined(arr, len, obj, i + 1, b)
<1>1. /\ len \in Nat /\ i \in Nat /\ Len(b) \in Nat /\ Len(obj) \in Nat
      /\ Len(b) <= len /\ DOMAIN obj = 1 .. Len(obj) /\ DOMAIN b = 1 .. Len(b)
  BY DEF Joined
<1>2. obj[i + 1] \in Range(obj) /\ obj[i + 1] \in Range(b)
  <2>1. arr[e] = b[e]
    BY DEF Joined
  <2> QED  BY <1>1, <2>1 DEF Range
<1>3. \A l \in 1 .. i + 1 : \E k \in 1 .. len : arr[k] = obj[l]
  <2> SUFFICES ASSUME NEW l \in 1 .. i + 1
               PROVE  \E k \in 1 .. len : arr[k] = obj[l]
    OBVIOUS
  <2>1. CASE l = i + 1
    BY <1>1, <2>1
  <2>2. CASE l # i + 1
    <3>1. l \in 1 .. i
      BY <1>1, <2>2
    <3> QED  BY <3>1 DEF Joined
  <2> QED  BY <2>1, <2>2
<1>4. i + 1 \in 0 .. Len(obj)
  BY <1>1
<1> QED  BY <1>2, <1>3, <1>4 DEF Joined

LEMMA AppendObjKeepsInv ==
  ASSUME NEW c, NEW b, MergeInv(c, b), c.oIdx < Len(c.obj)
  PROVE  /\ MergeInv(AppendObj(c), b)
         /\ Remaining(AppendObj(c)) \in Nat /\ Remaining(AppendObj(c)) < Remaining(c)
<1>1. /\ c \in MergeCalls /\ c.arr \in Seq(PathObject) /\ c.obj \in Seq(PathObject)
      /\ c.len \in 0 .. Len(c.arr) /\ c.oIdx \in Nat /\ c.eIdx \in Nat
      /\ c.existingLen \in Nat /\ c.eIdx <= c.existingLen /\ Len(c.obj) \in Nat
      /\ Len(c.arr) \in Nat
  BY DEF MergeInv, MergeCalls, Joined
<1>2. PICK p \in PathObject : p = c.obj[c.oIdx + 1]
  BY <1>1
<1>3. PICK new : new = Appended(c.arr, c.len, p)
  OBVIOUS
<1>4. /\ new \in Seq(PathObject) /\ c.len + 1 <= Len(new)
      /\ \A k \in 1 .. c.len : new[k] = c.arr[k]
      /\ new[c.len + 1] = p
  BY <1>1, <1>3, AppendedFacts
<1>5. PICK e : e = AppendObj(c)
  OBVIOUS
<1>6. e = [c EXCEPT !.arr = new, !.len = c.len + 1, !.oIdx = c.oIdx + 1]
  BY <1>1, <1>2, <1>3, <1>5 DEF AppendObj, MergeCalls
<1>7. /\ e.fn = "addNewFrom" /\ e.arr = new /\ e.len = c.len + 1
      /\ e.obj = c.obj /\ e.existingLen = c.existingLen
      /\ e.oIdx = c.oIdx + 1 /\ e.eIdx = c.eIdx
      /\ e = [fn |-> e.fn, arr |-> e.arr, len |-> e.len, obj |-> e.obj,
              existingLen |-> e.existingLen, oIdx |-> e.oIdx, eIdx |-> e.eIdx]
  BY <1>1, <1>6 DEF MergeCalls
<1>8. e \in MergeCalls
  <2>1. e.len \in Nat /\ e.oIdx \in Nat
    BY <1>1, <1>7
  <2> QED  BY <1>1, <1>4, <1>7, <2>1 DEF MergeCalls
<1>9. Joined(new, c.len + 1, c.obj, c.oIdx + 1, b)
  BY <1>2, <1>4, JoinOne DEF MergeInv
<1>10. MergeInv(e, b)
  BY <1>7, <1>8, <1>9 DEF MergeInv
<1>11. /\ Remaining(c) = (Len(c.obj) - c.oIdx) + (c.existingLen - c.eIdx)
       /\ Remaining(e) = (Len(c.obj) - (c.oIdx + 1)) + (c.existingLen - c.eIdx)
  BY <1>1, <1>7 DEF MergeCalls, Remaining
<1>12. Remaining(e) \in Nat /\ Remaining(e) < Remaining(c)
  <2>1. PICK l, o, x, i :
          l = Len(c.obj) /\ o = c.oIdx /\ x = c.existingLen /\ i = c.eIdx
    OBVIOUS
  <2>2. l \in Nat /\ o \in Nat /\ x \in Nat /\ i \in Nat /\ o < l /\ i <= x
    BY <1>1, <2>1
  <2>3. (l - (o + 1)) + (x - i) \in Nat /\ (l - (o + 1)) + (x - i) < (l - o) + (x - i)
    BY <2>2
  <2> QED  BY <1>11, <2>1, <2>3
<1> QED  BY <1>5, <1>10, <1>12

\* Passing an element of either list leaves less to do.
LEMMA BothAdvance ==
  ASSUME NEW l \in Nat, NEW o \in Nat, NEW x \in Nat, NEW i \in Nat, o < l, i < x
  PROVE  /\ (l - (o + 1)) + (x - (i + 1)) \in Nat
         /\ (l - (o + 1)) + (x - (i + 1)) < (l - o) + (x - i)
OBVIOUS

LEMMA MergeStepKeepsInv ==
  ASSUME NEW c, NEW b, MergeInv(c, b), ~ MergeDone(c)
  PROVE  /\ MergeInv(MergeStep(c), b)
         /\ Remaining(MergeStep(c)) \in Nat /\ Remaining(MergeStep(c)) < Remaining(c)
<1>1. /\ c \in MergeCalls /\ c.oIdx \in Nat /\ c.eIdx \in Nat
      /\ c.existingLen \in Nat /\ c.existingLen = Len(b)
      /\ c.eIdx <= c.existingLen /\ Len(c.obj) \in Nat
  BY DEF MergeInv, MergeCalls, Joined
<1>2. c.oIdx < Len(c.obj)
  <2>1. c.oIdx <= Len(c.obj)
    BY DEF MergeInv, Joined
  <2> QED  BY <1>1, <2>1 DEF MergeDone
<1>3. Remaining(c) = (Len(c.obj) - c.oIdx) + (c.existingLen - c.eIdx)
  BY <1>1 DEF MergeCalls, Remaining
<1>4. PICK p : p = c.obj[c.oIdx + 1]
  OBVIOUS
<1>5. PICK q : q = c.arr[c.eIdx + 1]
  OBVIOUS
<1>6. CASE c.eIdx = c.existingLen \/ (p # q /\ ~ LessThan(p, q))
  <2>1. MergeStep(c) = AppendObj(c)
    BY <1>4, <1>5, <1>6 DEF MergeStep
  <2> QED  BY <1>2, <2>1, AppendObjKeepsInv
<1>7. CASE c.eIdx # c.existingLen /\ p = q
  <2>1. PICK e : e = MergeStep(c)
    OBVIOUS
  <2>2. e = [c EXCEPT !.oIdx = c.oIdx + 1, !.eIdx = c.eIdx + 1]
    BY <1>4, <1>5, <1>7, <2>1 DEF MergeStep
  <2>3. /\ e \in MergeCalls
        /\ e.fn = "addNewFrom" /\ e.arr = c.arr /\ e.len = c.len /\ e.obj = c.obj
        /\ e.existingLen = c.existingLen
        /\ e.oIdx = c.oIdx + 1 /\ e.eIdx = c.eIdx + 1
    <3>1. c.oIdx + 1 \in Nat /\ c.eIdx + 1 \in Nat
      BY <1>1
    <3>2. PICK i, j : i = c.oIdx + 1 /\ j = c.eIdx + 1 /\ i \in Nat /\ j \in Nat
      BY <3>1
    <3>3. e = [c EXCEPT !.oIdx = i, !.eIdx = j]
      BY <2>2, <3>2
    <3>4. /\ e \in MergeCalls
          /\ e.fn = "addNewFrom" /\ e.arr = c.arr /\ e.len = c.len /\ e.obj = c.obj
          /\ e.existingLen = c.existingLen /\ e.oIdx = i /\ e.eIdx = j
      BY <1>1, <3>2, <3>3 DEF MergeCalls
    <3> QED  BY <3>2, <3>4
  <2>4. c.eIdx + 1 \in 1 .. Len(b)
    BY <1>1, <1>7
  <2>5. Joined(c.arr, c.len, c.obj, c.oIdx + 1, b)
    BY <1>2, <1>4, <1>5, <1>7, <2>4, JoinPresent DEF MergeInv
  <2>6. MergeInv(e, b)
    BY <1>1, <2>3, <2>4, <2>5 DEF MergeInv
  <2>7. Remaining(e) = (Len(c.obj) - (c.oIdx + 1)) + (c.existingLen - (c.eIdx + 1))
    BY <2>3 DEF Remaining
  <2>8. c.eIdx < c.existingLen
    BY <1>1, <1>7
  <2>9. Remaining(e) \in Nat /\ Remaining(e) < Remaining(c)
    <3>1. /\ Len(c.obj) \in Nat /\ c.oIdx \in Nat /\ c.existingLen \in Nat
          /\ c.eIdx \in Nat /\ c.oIdx < Len(c.obj) /\ c.eIdx < c.existingLen
      BY <1>1, <1>2, <2>8
    <3>2. /\ (Len(c.obj) - (c.oIdx + 1)) + (c.existingLen - (c.eIdx + 1)) \in Nat
          /\ (Len(c.obj) - (c.oIdx + 1)) + (c.existingLen - (c.eIdx + 1))
               < (Len(c.obj) - c.oIdx) + (c.existingLen - c.eIdx)
      BY <3>1, BothAdvance
    <3> QED  BY <1>3, <2>7, <3>2
  <2> QED  BY <2>1, <2>6, <2>9
<1>8. CASE c.eIdx # c.existingLen /\ p # q /\ LessThan(p, q)
  <2>1. PICK e : e = MergeStep(c)
    OBVIOUS
  <2>2. e = [c EXCEPT !.eIdx = c.eIdx + 1]
    BY <1>4, <1>5, <1>8, <2>1 DEF MergeStep
  <2>3. /\ e \in MergeCalls
        /\ e.fn = "addNewFrom" /\ e.arr = c.arr /\ e.len = c.len /\ e.obj = c.obj
        /\ e.existingLen = c.existingLen
        /\ e.oIdx = c.oIdx /\ e.eIdx = c.eIdx + 1
    BY <1>1, <2>2 DEF MergeCalls
  <2>4. MergeInv(e, b)
    BY <1>1, <1>8, <2>3 DEF MergeInv
  <2>5. Remaining(e) = (Len(c.obj) - c.oIdx) + (c.existingLen - (c.eIdx + 1))
    BY <2>3 DEF Remaining
  <2> QED  BY <1>1, <1>2, <1>3, <1>8, <2>1, <2>4, <2>5
<1> QED  BY <1>6, <1>7, <1>8

-----------------------------------------------------------------------------
(* The invariant of a call                                                 *)

\* The call under way keeps the invariant of its loop.
CallInv ==
  /\ before \in Lists
  /\ \/ call.fn = "pathListDiff" /\ DiffInv(call)
     \/ call.fn = "deletePaths" /\ DeleteInv(call, before)
     \/ call.fn = "addNewFrom" /\ MergeInv(call, before)

LEMMA SliceFacts ==
  ASSUME NEW l \in Seq(PathObject), NEW room \in Nat
  PROVE  /\ Slice(l, room).arr \in Seq(PathObject)
         /\ Len(Slice(l, room).arr) = Len(l) + room
         /\ Slice(l, room).len = Len(l)
         /\ \A k \in 1 .. Len(l) : Slice(l, room).arr[k] = l[k]
<1> DEFINE arr == [k \in 1 .. Len(l) + room |-> IF k <= Len(l) THEN l[k] ELSE ZeroPath]
<1>1. Slice(l, room).arr = arr /\ Slice(l, room).len = Len(l)
  BY DEF Slice
<1>2. arr \in [1 .. Len(l) + room -> PathObject]
  <2>1. ZeroPath \in PathObject
    BY DEF ZeroPath, PathObject
  <2> QED  BY <2>1
<1>3. arr \in Seq(PathObject) /\ Len(arr) = Len(l) + room
  BY <1>2
<1>4. \A k \in 1 .. Len(l) : arr[k] = l[k]
  OBVIOUS
<1> QED  BY <1>1, <1>3, <1>4

LEMMA EmptyList == << >> \in Seq(PathObject) /\ Sorted(<< >>) /\ Range(<< >>) = {}
BY DEF Sorted, Range

\* A slice that holds list b.
Holding(slice, b) ==
  /\ slice.arr \in Seq(PathObject) /\ slice.len = Len(b)
  /\ b \in Seq(PathObject) /\ Len(b) <= Len(slice.arr)
  /\ \A k \in 1 .. Len(b) : slice.arr[k] = b[k]

LEMMA DiffStartInv ==
  ASSUME NEW o \in Seq(PathObject), NEW n \in Seq(PathObject), Sorted(o), Sorted(n)
  PROVE  DiffInv(DiffStart(o, n))
<1>1. DiffStart(o, n) \in DiffCalls
  BY EmptyList DEF DiffStart, DiffCalls
<1>2. \A x, y \in Seq(PathObject) : Sorted(x) /\ Sorted(y) => Passed(x, y, 0, 0, << >>)
  BY EmptyList DEF Passed
<1> QED BY <1>1, <1>2 DEF DiffInv, DiffStart

LEMMA DeleteStartInv ==
  ASSUME NEW slice, NEW b, Holding(slice, b), Sorted(b),
         NEW del \in Seq(PathObject), Sorted(del), NEW shared \in BOOLEAN, shared => del = b
  PROVE  DeleteInv(DeleteStart(slice, del, shared), b)
<1>1. PICK arr, c : arr = slice.arr /\ c = DeleteStart(slice, del, shared)
  OBVIOUS
<1>2. /\ arr \in Seq(PathObject) /\ Len(arr) \in Nat /\ Len(b) <= Len(arr)
      /\ b \in Seq(PathObject) /\ Len(b) \in Nat /\ DOMAIN b = 1 .. Len(b)
      /\ \A k \in 1 .. Len(b) : arr[k] = b[k]
  BY <1>1 DEF Holding
<1>3. c = [fn |-> "deletePaths", arr |-> arr, len |-> Len(b), toDelete |-> del,
           shared |-> shared, wIdx |-> 0, dIdx |-> 0]
  BY <1>1 DEF Holding, DeleteStart
<1>4. c \in DeleteCalls
  BY <1>2, <1>3 DEF DeleteCalls
<1>5. Pruned(arr, Len(b), del, 0, 0, b)
  <2>1. \A k, l \in 1 .. Len(b) : k < l => LessThan(arr[k], arr[l])
    BY <1>2 DEF Sorted
  <2>2. /\ \A k \in 1 .. Len(b) : arr[k] \in Range(b)
        /\ \A p \in Range(b) : \E k \in 1 .. Len(b) : arr[k] = p
    BY <1>2 DEF Range
  <2>3. Len(b) \in 0 .. Len(arr)
    BY <1>2
  <2> QED BY <1>2, <2>1, <2>2, <2>3 DEF Pruned
<1> QED BY <1>1, <1>2, <1>3, <1>4, <1>5 DEF DeleteInv

LEMMA MergeStartInv ==
  ASSUME NEW slice, NEW b, Holding(slice, b), NEW obj \in Seq(PathObject)
  PROVE  MergeInv(MergeStart(slice, obj), b)
<1>1. PICK arr, c : arr = slice.arr /\ c = MergeStart(slice, obj)
  OBVIOUS
<1>2. /\ arr \in Seq(PathObject) /\ Len(arr) \in Nat /\ Len(b) <= Len(arr)
      /\ b \in Seq(PathObject) /\ Len(b) \in Nat /\ DOMAIN b = 1 .. Len(b)
      /\ \A k \in 1 .. Len(b) : arr[k] = b[k]
  BY <1>1 DEF Holding
<1>3. c = [fn |-> "addNewFrom", arr |-> arr, len |-> Len(b), obj |-> obj,
           existingLen |-> Len(b), oIdx |-> 0, eIdx |-> 0]
  BY <1>1 DEF Holding, MergeStart
<1>4. c \in MergeCalls
  BY <1>2, <1>3 DEF MergeCalls
<1>5. Joined(arr, Len(b), obj, 0, b)
  <2>1. \A k \in 1 .. Len(b) : arr[k] \in Range(b)
    BY <1>2 DEF Range
  <2>2. Len(b) \in Len(b) .. Len(arr)
    BY <1>2
  <2> QED BY <1>2, <2>1, <2>2 DEF Joined
<1> QED BY <1>1, <1>3, <1>4, <1>5 DEF MergeInv

LEMMA InitCallInv == LoopInit => CallInv
<1> SUFFICES ASSUME LoopInit PROVE CallInv
  OBVIOUS
<1>1. before \in Lists /\ before \in Seq(PathObject) /\ Sorted(before)
  BY ListAssumption DEF LoopInit
<1>2. ASSUME NEW n \in Lists, call = DiffStart(before, n)
      PROVE  CallInv
  BY <1>1, <1>2, ListAssumption, DiffStartInv DEF CallInv, DiffStart
<1>3. ASSUME NEW room \in Spare PROVE Holding(Slice(before, room), before)
  <2>1. room \in Nat /\ Len(before) \in Nat
    BY <1>1, ListAssumption
  <2> QED BY <1>1, <2>1, SliceFacts DEF Holding
<1>4. ASSUME NEW room \in Spare, NEW toDelete \in Lists, NEW shared \in BOOLEAN,
             shared => toDelete = before,
             call = DeleteStart(Slice(before, room), toDelete, shared)
      PROVE  CallInv
  <2>1. DeleteInv(call, before)
    BY <1>1, <1>3, <1>4, ListAssumption, DeleteStartInv
  <2> QED BY <1>1, <1>4, <2>1 DEF CallInv, DeleteStart
<1>5. ASSUME NEW room \in Spare, NEW obj \in Lists,
             call = MergeStart(Slice(before, room), obj)
      PROVE  CallInv
  <2>1. MergeInv(call, before)
    BY <1>1, <1>3, <1>5, ListAssumption, MergeStartInv
  <2> QED BY <1>1, <1>5, <2>1 DEF CallInv, MergeStart
<1>6. CASE \E n \in Lists : call = DiffStart(before, n)
  BY <1>2, <1>6
<1>7. CASE \E room \in Spare, toDelete \in Lists :
             call = DeleteStart(Slice(before, room), toDelete, FALSE)
  BY <1>4, <1>7
<1>8. CASE \E room \in Spare : call = DeleteStart(Slice(before, room), before, TRUE)
  BY <1>1, <1>4, <1>8
<1>9. CASE \E room \in Spare, obj \in Lists : call = MergeStart(Slice(before, room), obj)
  BY <1>5, <1>9
<1> QED  BY <1>6, <1>7, <1>8, <1>9 DEF LoopInit

\* One iteration keeps the invariant and leaves less to do.
LEMMA NextCallInv ==
  ASSUME CallInv, Iterate
  PROVE  /\ CallInv'
         /\ Remaining(call') \in Nat /\ Remaining(call') < Remaining(call)
<1>1. CASE DiffLoop
  <2>1. DiffInv(call)
    BY <1>1 DEF DiffLoop, CallInv
  <2>2. /\ DiffInv(call') /\ call'.fn = "pathListDiff"
        /\ Remaining(call') \in Nat /\ Remaining(call') < Remaining(call)
    BY <1>1, <2>1, DiffStepKeepsInv DEF DiffLoop, DiffInv, DiffCalls
  <2> QED  BY <1>1, <2>2 DEF DiffLoop, CallInv
<1>2. CASE DeleteLoop
  <2>1. DeleteInv(call, before)
    BY <1>2 DEF DeleteLoop, CallInv
  <2>2. /\ DeleteInv(call', before') /\ call'.fn = "deletePaths"
        /\ Remaining(call') \in Nat /\ Remaining(call') < Remaining(call)
    BY <1>2, <2>1, DeleteStepKeepsInv DEF DeleteLoop, DeleteInv, DeleteCalls
  <2> QED  BY <1>2, <2>2 DEF DeleteLoop, CallInv
<1>3. CASE MergeLoop
  <2>1. MergeInv(call, before)
    BY <1>3 DEF MergeLoop, CallInv
  <2>2. /\ MergeInv(call', before') /\ call'.fn = "addNewFrom"
        /\ Remaining(call') \in Nat /\ Remaining(call') < Remaining(call)
    BY <1>3, <2>1, MergeStepKeepsInv DEF MergeLoop, MergeInv, MergeCalls
  <2> QED  BY <1>3, <2>2 DEF MergeLoop, CallInv
<1> QED  BY <1>1, <1>2, <1>3 DEF Iterate

LEMMA SpecCallInv == LoopSpec => []CallInv
<1>1. ASSUME CallInv, [Iterate]_callVars PROVE CallInv'
  <2>1. CASE Iterate
    BY <1>1, <2>1, NextCallInv
  <2>2. CASE UNCHANGED callVars
    BY <1>1, <2>2 DEF CallInv, callVars
  <2> QED  BY <1>1, <2>1, <2>2
<1> QED  BY <1>1, InitCallInv, PTL DEF LoopSpec

-----------------------------------------------------------------------------
(* What the invariants say of a call that has ended                        *)

\* What a slice holds.
LEMMA ContentFacts ==
  ASSUME NEW slice, slice.arr \in Seq(PathObject), slice.len \in 0 .. Len(slice.arr)
  PROVE  /\ Content(slice) \in Seq(PathObject) /\ Len(Content(slice)) = slice.len
         /\ \A k \in 1 .. slice.len : Content(slice)[k] = slice.arr[k]
         /\ DOMAIN Content(slice) = 1 .. slice.len
         /\ Range(Content(slice)) = {slice.arr[k] : k \in 1 .. slice.len}
<1>1. PICK arr, len : /\ arr = slice.arr /\ len = slice.len
                      /\ arr \in Seq(PathObject) /\ len \in 0 .. Len(arr)
  OBVIOUS
<1>2. PICK s : s = SubSeq(arr, 1, len)
  OBVIOUS
<1>3. /\ s \in Seq(PathObject) /\ Len(s) = len /\ DOMAIN s = 1 .. len
      /\ \A k \in 1 .. len : s[k] = arr[k]
  BY <1>1, <1>2
<1>4. Range(s) = {arr[k] : k \in 1 .. len}
  BY <1>3 DEF Range
<1> QED  BY <1>1, <1>2, <1>3, <1>4 DEF Content

\* Lists that agree everywhere are equal.
LEMMA SeqEqual ==
  ASSUME NEW s \in Seq(PathObject), NEW t \in Seq(PathObject),
         Len(t) = Len(s), \A k \in 1 .. Len(s) : t[k] = s[k]
  PROVE  t = s
<1>1. s \in [1 .. Len(s) -> PathObject] /\ t \in [1 .. Len(s) -> PathObject]
  OBVIOUS
<1> QED  BY <1>1

LEMMA DiffAtEnd ==
  ASSUME NEW c, DiffInv(c), DiffDone(c)
  PROVE  /\ Range(c.toDelete) = Range(c.o) \ Range(c.n)
         /\ Range(c.toAdd) = Range(c.n) \ Range(c.o)
         /\ Sorted(c.toDelete) /\ Sorted(c.toAdd)
<1>1. DiffInv(c) /\ c.oIdx = Len(c.o) /\ c.nIdx = Len(c.n)
  BY DEF DiffDone
<1>2. ASSUME NEW x, NEW y, NEW out, Passed(x, y, Len(x), Len(y), out)
      PROVE  Range(out) = Range(x) \ Range(y) /\ Sorted(out)
  <2>1. DOMAIN x = 1 .. Len(x)
    BY <1>2 DEF Passed
  <2> QED  BY <1>2, <2>1 DEF Passed, Range
<1> QED  BY <1>1, <1>2 DEF DiffInv

LEMMA DeleteAtEnd ==
  ASSUME NEW c, NEW b \in Seq(PathObject), DeleteInv(c, b), DeleteDone(c)
  PROVE  /\ Range(Content(c)) = Range(b) \ Range(c.toDelete)
         /\ Sorted(Content(c))
<1>1. /\ DeleteInv(c, b) /\ b \in Seq(PathObject)
      /\ c.dIdx = Len(c.toDelete) \/ c.wIdx = c.len
  BY DEF DeleteDone
<1>2. CASE c.shared
  <2>1. /\ c.arr \in Seq(PathObject) /\ c.len \in Nat /\ c.len <= Len(c.arr)
        /\ c.toDelete = b
        /\ c.len = 0
    <3>1. /\ c.arr \in Seq(PathObject) /\ c.len \in Nat
          /\ c.len <= Len(c.arr) /\ c.wIdx = 0 /\ c.dIdx = 0
          /\ c.toDelete = b /\ c.len <= Len(b) /\ Len(b) \in Nat
      BY <1>1, <1>2 DEF DeleteInv, DeleteCalls
    <3> QED  BY <1>1, <3>1
  <2>2. c.len \in 0 .. Len(c.arr)
    BY <2>1
  <2>3. Range(Content(c)) = {} /\ DOMAIN Content(c) = {}
    BY <2>1, <2>2, ContentFacts
  <2> QED  BY <2>1, <2>3 DEF Sorted
<1>3. CASE ~ c.shared
  <2>1. Pruned(c.arr, c.len, c.toDelete, c.wIdx, c.dIdx, b)
    BY <1>1, <1>3 DEF DeleteInv
  <2>2. PICK arr, len, del : arr = c.arr /\ len = c.len /\ del = c.toDelete
    OBVIOUS
  <2>3. /\ Range(Content(c)) = {arr[k] : k \in 1 .. len}
        /\ DOMAIN Content(c) = 1 .. len
        /\ \A k \in 1 .. len : Content(c)[k] = arr[k]
    BY <2>1, <2>2, ContentFacts DEF Pruned
  <2>4. Sorted(Content(c))
    BY <2>1, <2>2, <2>3 DEF Pruned, Sorted
  <2>5. \A k \in 1 .. len : arr[k] \notin Range(del)
    <3>1. CASE c.wIdx = c.len
      BY <2>1, <2>2, <3>1 DEF Pruned
    <3>2. CASE c.dIdx = Len(c.toDelete)
      <4>1. /\ \A k \in 1 .. c.wIdx : arr[k] \notin Range(del)
            /\ \A k \in c.wIdx + 1 .. len, l \in 1 .. Len(del) : LessThan(del[l], arr[k])
            /\ c.wIdx \in 0 .. len /\ len \in Nat
            /\ arr \in Seq(PathObject) /\ len \in 0 .. Len(arr)
            /\ del \in Seq(PathObject) /\ DOMAIN del = 1 .. Len(del)
        BY <2>1, <2>2, <3>2 DEF Pruned
      <4>2. ASSUME NEW k \in c.wIdx + 1 .. len, arr[k] \in Range(del) PROVE FALSE
        <5>1. PICK l \in 1 .. Len(del) : arr[k] = del[l]
          BY <4>1, <4>2 DEF Range
        <5>2. LessThan(del[l], arr[k]) /\ arr[k] \in PathObject
          BY <4>1
        <5> QED  BY <5>1, <5>2, LessThanOrder
      <4> QED  BY <4>1, <4>2
    <3> QED  BY <1>1, <3>1, <3>2
  <2>6. /\ \A k \in 1 .. len : arr[k] \in Range(b)
        /\ \A p \in Range(b) : p \in Range(del) \/ \E k \in 1 .. len : arr[k] = p
    BY <2>1, <2>2 DEF Pruned
  <2>7. Range(Content(c)) = Range(b) \ Range(del)
    BY <2>3, <2>5, <2>6
  <2> QED  BY <2>2, <2>4, <2>7
<1> QED  BY <1>2, <1>3

LEMMA MergeAtEnd ==
  ASSUME NEW c, NEW b, MergeInv(c, b), MergeDone(c)
  PROVE  /\ Range(Content(c)) = Range(b) \union Range(c.obj)
         /\ Range(b) \intersect Range(c.obj) = {} => Content(c) = b \o c.obj
<1>1. PICK arr, len, obj : arr = c.arr /\ len = c.len /\ obj = c.obj
  OBVIOUS
<1>2. Joined(arr, len, obj, Len(obj), b)
  BY <1>1 DEF MergeInv, MergeDone
<1>3. /\ arr \in Seq(PathObject) /\ obj \in Seq(PathObject) /\ b \in Seq(PathObject)
      /\ Len(b) \in Nat /\ Len(obj) \in Nat /\ len \in Len(b) .. Len(arr)
      /\ DOMAIN obj = 1 .. Len(obj) /\ DOMAIN b = 1 .. Len(b)
      /\ len \in 0 .. Len(arr)
  BY <1>2 DEF Joined
<1>4. /\ Content(c) \in Seq(PathObject) /\ Len(Content(c)) = len
      /\ \A k \in 1 .. len : Content(c)[k] = arr[k]
      /\ Range(Content(c)) = {arr[k] : k \in 1 .. len}
  BY <1>1, <1>3, ContentFacts
<1>5. Range(Content(c)) = Range(b) \union Range(obj)
  <2>1. \A k \in 1 .. len : arr[k] \in Range(b) \union Range(obj)
    BY <1>2 DEF Joined
  <2>2. ASSUME NEW p \in Range(b) PROVE \E k \in 1 .. len : arr[k] = p
    <3>1. PICK k \in 1 .. Len(b) : p = b[k]
      BY <1>3 DEF Range
    <3>2. k \in 1 .. len /\ arr[k] = b[k]
      BY <1>2, <1>3 DEF Joined
    <3> QED  BY <3>1, <3>2
  <2>3. ASSUME NEW p \in Range(obj) PROVE \E k \in 1 .. len : arr[k] = p
    BY <1>2, <1>3 DEF Joined, Range
  <2> QED  BY <1>4, <2>1, <2>2, <2>3
<1>6. ASSUME Range(b) \intersect Range(obj) = {}
      PROVE  Content(c) = b \o obj
  <2>1. /\ len = Len(b) + Len(obj)
        /\ \A l \in 1 .. Len(obj) : arr[Len(b) + l] = obj[l]
        /\ \A k \in 1 .. Len(b) : arr[k] = b[k]
    BY <1>2, <1>6 DEF Joined
  <2>2. PICK s : s = b \o obj
    OBVIOUS
  <2>3. /\ s \in Seq(PathObject) /\ Len(s) = len
        /\ \A k \in 1 .. Len(b) : s[k] = b[k]
        /\ \A l \in 1 .. Len(obj) : s[Len(b) + l] = obj[l]
    BY <1>3, <2>1, <2>2
  <2>4. ASSUME NEW k \in 1 .. len PROVE s[k] = arr[k]
    <3>1. CASE k \in 1 .. Len(b)
      BY <2>1, <2>3, <3>1
    <3>2. CASE k \notin 1 .. Len(b)
      <4>1. PICK l \in 1 .. Len(obj) : k = Len(b) + l
        <5>1. k - Len(b) \in 1 .. Len(obj) /\ k = Len(b) + (k - Len(b))
          BY <1>3, <2>1, <3>2
        <5> QED  BY <5>1
      <4> QED  BY <2>1, <2>3, <4>1
    <3> QED  BY <3>1, <3>2
  <2>5. PICK t : t = Content(c)
    OBVIOUS
  <2>6. t \in Seq(PathObject) /\ Len(t) = Len(s) /\ \A k \in 1 .. Len(s) : t[k] = s[k]
    BY <1>4, <2>3, <2>4, <2>5
  <2>7. t = s
    BY <2>3, <2>6, SeqEqual
  <2> QED  BY <2>2, <2>5, <2>7
<1> QED  BY <1>1, <1>5, <1>6

LEMMA CallAtEnd == CallInv => DiffIsDifference /\ DeleteIsDifference /\ MergeIsUnion
<1> SUFFICES ASSUME CallInv PROVE DiffIsDifference /\ DeleteIsDifference /\ MergeIsUnion
  OBVIOUS
<1>1. DiffIsDifference
  BY DiffAtEnd DEF CallInv, DiffIsDifference, DeleteInv, DeleteCalls, MergeInv, MergeCalls
<1>2. DeleteIsDifference
  BY ListAssumption, DeleteAtEnd DEF CallInv, DeleteIsDifference, DiffInv, DiffCalls, MergeInv, MergeCalls
<1>3. MergeIsUnion
  BY MergeAtEnd DEF CallInv, MergeIsUnion, DiffInv, DiffCalls, DeleteInv, DeleteCalls
<1> QED BY <1>1, <1>2, <1>3

LEMMA TypeAtCall == CallInv => LoopsInBounds
<1> SUFFICES ASSUME CallInv PROVE LoopsInBounds
  OBVIOUS
<1>1. CASE DiffInv(call)
  BY <1>1 DEF CallInv, DiffInv, DiffCalls, Passed, LoopsInBounds
<1>2. CASE DeleteInv(call, before)
  <2>1. before \in Lists /\ call \in DeleteCalls
    BY <1>2 DEF CallInv, DeleteInv
  <2>2. /\ call.len \in 0 .. Len(call.arr)
        /\ call.wIdx \in 0 .. call.len /\ call.dIdx \in 0 .. Len(call.toDelete)
    <3>1. /\ call.len \in Nat /\ Len(call.arr) \in Nat /\ Len(call.toDelete) \in Nat
      BY <2>1 DEF DeleteCalls
    <3>2. CASE call.shared
      BY <1>2, <3>1, <3>2 DEF DeleteInv
    <3>3. CASE ~ call.shared
      BY <1>2, <3>3 DEF DeleteInv, Pruned
    <3> QED  BY <3>2, <3>3
  <2> QED  BY <2>1, <2>2 DEF DeleteCalls, LoopsInBounds
<1>3. CASE MergeInv(call, before)
  <2>1. before \in Lists /\ call \in MergeCalls
    BY <1>3 DEF CallInv, MergeInv
  <2>2. /\ call.len \in 0 .. Len(call.arr) /\ call.oIdx \in 0 .. Len(call.obj)
    BY <1>3 DEF MergeInv, Joined
  <2>3. call.eIdx \in 0 .. call.existingLen
    BY <1>3, <2>1 DEF MergeInv, MergeCalls
  <2> QED  BY <2>1, <2>2, <2>3 DEF MergeCalls, LoopsInBounds
<1> QED  BY <1>1, <1>2, <1>3 DEF CallInv

-----------------------------------------------------------------------------
(* How long a call lasts                                                   *)

\* Each iteration takes one from what remains to be done, so that the two
\* together never exceed what there was.
CountInv ==
  iterations \in Nat /\ iterations + Remaining(call) <= Len(before) + Len(Given(call))

LEMMA RemainingNat ==
  ASSUME CallInv
  PROVE  Remaining(call) \in Nat /\ Len(before) \in Nat /\ Len(Given(call)) \in Nat
<1>1. before \in Seq(PathObject)
  BY ListAssumption DEF CallInv
<1>2. CASE DiffInv(call)
  <2>1. /\ call.fn = "pathListDiff" /\ call.o \in Seq(PathObject) /\ call.n \in Seq(PathObject)
        /\ call.oIdx \in 0 .. Len(call.o) /\ call.nIdx \in 0 .. Len(call.n)
    BY <1>2 DEF DiffInv, DiffCalls, Passed
  <2> QED BY <1>1, <2>1 DEF Remaining, Given
<1>3. CASE DeleteInv(call, before)
  <2>1. /\ call.fn = "deletePaths" /\ call.toDelete \in Seq(PathObject)
        /\ call.len \in Nat /\ call.wIdx \in 0 .. call.len
        /\ call.dIdx \in 0 .. Len(call.toDelete)
    BY <1>1, <1>3 DEF DeleteInv, DeleteCalls, Pruned
  <2> QED BY <1>1, <2>1 DEF Remaining, Given
<1>4. CASE MergeInv(call, before)
  <2>1. /\ call.fn = "addNewFrom" /\ call.obj \in Seq(PathObject)
        /\ call.oIdx \in 0 .. Len(call.obj) /\ call.existingLen \in Nat
        /\ call.eIdx \in 0 .. call.existingLen
    BY <1>1, <1>4 DEF MergeInv, MergeCalls, Joined
  <2> QED BY <1>1, <2>1 DEF Remaining, Given
<1> QED BY <1>2, <1>3, <1>4 DEF CallInv

LEMMA InitCountInv == LoopInit => CountInv
<1> SUFFICES ASSUME LoopInit PROVE CountInv
  OBVIOUS
<1>1. before \in Seq(PathObject) /\ iterations = 0 /\ Len(before) \in Nat
  BY ListAssumption DEF LoopInit
<1>2. Remaining(call) = Len(before) + Len(Given(call))
  <2>1. ASSUME NEW n \in Lists, call = DiffStart(before, n)
        PROVE  Remaining(call) = Len(before) + Len(Given(call))
    <3>1. n \in Seq(PathObject) /\ Len(n) \in Nat
      BY ListAssumption
    <3> QED BY <1>1, <2>1, <3>1 DEF DiffStart, Remaining, Given
  <2>2. ASSUME NEW room \in Spare, NEW toDelete \in Lists, NEW shared \in BOOLEAN,
               call = DeleteStart(Slice(before, room), toDelete, shared)
        PROVE  Remaining(call) = Len(before) + Len(Given(call))
    <3>1. toDelete \in Seq(PathObject) /\ Len(toDelete) \in Nat
      BY ListAssumption
    <3>2. Slice(before, room).len = Len(before)
      BY DEF Slice
    <3> QED BY <1>1, <2>2, <3>1, <3>2 DEF DeleteStart, Remaining, Given
  <2>3. ASSUME NEW room \in Spare, NEW obj \in Lists,
               call = MergeStart(Slice(before, room), obj)
        PROVE  Remaining(call) = Len(before) + Len(Given(call))
    <3>1. obj \in Seq(PathObject) /\ Len(obj) \in Nat
      BY ListAssumption
    <3>2. Slice(before, room).len = Len(before)
      BY DEF Slice
    <3> QED BY <1>1, <2>3, <3>1, <3>2 DEF MergeStart, Remaining, Given
  <2>4. before \in Lists
    BY DEF LoopInit
  <2>5. CASE \E n \in Lists : call = DiffStart(before, n)
    BY <2>1, <2>5
  <2>6. CASE \E room \in Spare, toDelete \in Lists :
               call = DeleteStart(Slice(before, room), toDelete, FALSE)
    BY <2>2, <2>6
  <2>7. CASE \E room \in Spare : call = DeleteStart(Slice(before, room), before, TRUE)
    BY <2>2, <2>4, <2>7
  <2>8. CASE \E room \in Spare, obj \in Lists : call = MergeStart(Slice(before, room), obj)
    BY <2>3, <2>8
  <2> QED BY <2>5, <2>6, <2>7, <2>8 DEF LoopInit
<1>3. Len(Given(call)) \in Nat
  BY InitCallInv, RemainingNat
<1> QED BY <1>1, <1>2, <1>3 DEF CountInv

\* No iteration changes the list the loop was given.
LEMMA GivenStays ==
  ASSUME CallInv, Iterate
  PROVE  Given(call') = Given(call) /\ before' = before /\ iterations' = iterations + 1
<1>1. CASE DiffLoop
  <2>1. call \in DiffCalls /\ call' = DiffStep(call) /\ call.fn = "pathListDiff"
    BY <1>1 DEF DiffLoop, CallInv, DiffInv, DeleteInv, MergeInv, DeleteCalls, MergeCalls
  <2>2. call'.n = call.n /\ call'.fn = "pathListDiff"
    BY <2>1 DEF DiffCalls, DiffStep, DropOld, TakeNew, KeepBoth
  <2> QED BY <1>1, <2>1, <2>2 DEF DiffLoop, Given
<1>2. CASE DeleteLoop
  <2>1. call \in DeleteCalls /\ call' = DeleteStep(call) /\ call.fn = "deletePaths"
    BY <1>2 DEF DeleteLoop, CallInv, DiffInv, DeleteInv, MergeInv, DiffCalls, MergeCalls
  <2>2. call'.toDelete = call.toDelete /\ call'.fn = "deletePaths"
    BY <2>1 DEF DeleteCalls, DeleteStep
  <2> QED BY <1>2, <2>1, <2>2 DEF DeleteLoop, Given
<1>3. CASE MergeLoop
  <2>1. call \in MergeCalls /\ call' = MergeStep(call) /\ call.fn = "addNewFrom"
    BY <1>3 DEF MergeLoop, CallInv, DiffInv, DeleteInv, MergeInv, DiffCalls, DeleteCalls
  <2>2. call'.obj = call.obj /\ call'.fn = "addNewFrom"
    BY <2>1 DEF MergeCalls, MergeStep, AppendObj
  <2> QED BY <1>3, <2>1, <2>2 DEF MergeLoop, Given
<1> QED BY <1>1, <1>2, <1>3 DEF Iterate

LEMMA SpecCountInv == LoopSpec => [](CallInv /\ CountInv)
<1>1. LoopInit => CallInv /\ CountInv
  BY InitCallInv, InitCountInv
<1>2. ASSUME CallInv, CountInv, [Iterate]_callVars PROVE CallInv' /\ CountInv'
  <2>1. CASE Iterate
    <3>1. CallInv' /\ Remaining(call') \in Nat /\ Remaining(call') < Remaining(call)
      BY <1>2, <2>1, NextCallInv
    <3>2. Given(call') = Given(call) /\ before' = before /\ iterations' = iterations + 1
      BY <1>2, <2>1, GivenStays
    <3>3. Remaining(call) \in Nat /\ Len(before) \in Nat /\ Len(Given(call)) \in Nat
      BY <1>2, RemainingNat
    <3>4. iterations' + Remaining(call') <= Len(before) + Len(Given(call))
      BY <1>2, <3>1, <3>2, <3>3 DEF CountInv
    <3> QED BY <1>2, <3>1, <3>2, <3>4 DEF CountInv
  <2>2. CASE UNCHANGED callVars
    BY <1>2, <2>2 DEF CallInv, CountInv, callVars
  <2> QED BY <1>2, <2>1, <2>2
<1> QED BY <1>1, <1>2, PTL DEF LoopSpec

-----------------------------------------------------------------------------
(* The theorems                                                            *)

\* The indices of the three loops of cache.go stay within the lists and the
\* arrays, for lists of any length and arrays with any spare room.
THEOREM LoopsTyped == LoopSpec => []LoopsInBounds
BY SpecCallInv, TypeAtCall, PTL

\* pathListDiff splits any two sorted lists into what is to be deleted and
\* what is to be added (cache.go:93-118).
THEOREM DiffCorrect == LoopSpec => []DiffIsDifference
BY SpecCallInv, CallAtEnd, PTL

\* deletePaths removes from a sorted list what any other sorted list holds,
\* or everything when that list is the same slice (cache.go:121-140).
THEOREM DeleteCorrect == LoopSpec => []DeleteIsDifference
BY SpecCallInv, CallAtEnd, PTL

\* addNewFrom loses no path, and where the two lists share none it puts the
\* new list behind the old one (cache.go:164-187).
THEOREM MergeCorrect == LoopSpec => []MergeIsUnion
BY SpecCallInv, CallAtEnd, PTL

\* Whatever the lists, each of the three loops ends: its iterations are never
\* more than its two lists have elements (cache.go:97-116, 127-140, 172-187).
THEOREM LoopsTerminate == LoopSpec => []LoopsEnd
<1>1. CallInv /\ CountInv => LoopsEnd
  BY RemainingNat DEF CountInv, LoopsEnd
<1> QED BY <1>1, SpecCountInv, PTL

=============================================================================
