----------------------------- MODULE PathLists -----------------------------
(* The path lists of server/cache.go and the three loops over them, one    *)
(* iteration at a time. A loop is a record of its arguments and its local   *)
(* variables; indices count from 0 as in the code, sequences from 1.       *)
(*                                                                         *)
(* A slice is an array with a length; its capacity is the length of the    *)
(* array. What lies beyond the length of a slice may belong to another.    *)
EXTENDS Integers, Sequences, Functions

\* PathObject: strings are numbers, compared as strings are.
PathObject == [Source : Nat, Location : Nat]

\* PathObject.LessThan.
LessThan(lhs, rhs) ==
  IF lhs.Source = rhs.Source
  THEN lhs.Location < rhs.Location
  ELSE lhs.Source < rhs.Source

\* Strictly sorted: without repetitions.
Sorted(paths) ==
  \A i, j \in DOMAIN paths : i < j => LessThan(paths[i], paths[j])

\* What a slot that nobody has written holds.
ZeroPath == [Source |-> 0, Location |-> 0]

Content(slice) == SubSeq(slice.arr, 1, slice.len)

-----------------------------------------------------------------------------
(* pathListDiff                                                            *)

DiffStart(o, n) ==
  [fn |-> "pathListDiff", o |-> o, n |-> n, oIdx |-> 0, nIdx |-> 0,
   toDelete |-> << >>, toAdd |-> << >>]

DiffDone(c) == c.oIdx = Len(c.o) /\ c.nIdx = Len(c.n)

\* Faulty variant of DropOld: advances both indices.
DropOldBoth(c) ==
  [c EXCEPT !.toDelete = Append(@, c.o[c.oIdx + 1]), !.oIdx = @ + 1, !.nIdx = @ + 1]

DropOld(c) == [c EXCEPT !.toDelete = Append(@, c.o[c.oIdx + 1]), !.oIdx = @ + 1]
TakeNew(c) == [c EXCEPT !.toAdd = Append(@, c.n[c.nIdx + 1]), !.nIdx = @ + 1]
KeepBoth(c) == [c EXCEPT !.oIdx = @ + 1, !.nIdx = @ + 1]

\* Faulty variant of DiffStep: the comparison is turned round.
DiffStepTurned(c) ==
  IF c.nIdx = Len(c.n) THEN DropOld(c)
  ELSE IF c.oIdx = Len(c.o) THEN TakeNew(c)
  ELSE LET old == c.o[c.oIdx + 1]
           new == c.n[c.nIdx + 1]
       IN  IF old = new THEN KeepBoth(c)
           ELSE IF LessThan(new, old) THEN DropOld(c) ELSE TakeNew(c)

DiffStep(c) ==
  IF c.nIdx = Len(c.n) THEN DropOld(c)
  ELSE IF c.oIdx = Len(c.o) THEN TakeNew(c)
  ELSE LET old == c.o[c.oIdx + 1]
           new == c.n[c.nIdx + 1]
       IN  IF old = new THEN KeepBoth(c)
           ELSE IF LessThan(old, new) THEN DropOld(c) ELSE TakeNew(c)

-----------------------------------------------------------------------------
(* The loop of deletePaths, which closes the gaps in the array of the      *)
(* cache. toDelete may be a slice of that very array (shared): its         *)
(* elements then move too.                                                 *)

DeleteStart(slice, toDelete, shared) ==
  [fn |-> "deletePaths", arr |-> slice.arr, len |-> slice.len,
   toDelete |-> toDelete, shared |-> shared, wIdx |-> 0, dIdx |-> 0]

DeleteDone(c) == c.dIdx = Len(c.toDelete) \/ c.wIdx = c.len

\* append(workingCopy[:wIdx], workingCopy[wIdx+1:]...): no array is
\* allocated, and the last element stays behind in its slot.
Closed(c) ==
  [k \in 1 .. Len(c.arr) |->
     IF k \in c.wIdx + 1 .. c.len - 1 THEN c.arr[k + 1] ELSE c.arr[k]]

Candidate(c) == IF c.shared THEN c.arr[c.dIdx + 1] ELSE c.toDelete[c.dIdx + 1]

\* Faulty variant of DeleteStep: steps over the element that moved into the
\* gap.
DeleteStepOver(c) ==
  LET path == c.arr[c.wIdx + 1]
  IN  IF path = Candidate(c)
      THEN [c EXCEPT !.arr = Closed(c), !.len = @ - 1, !.wIdx = @ + 1]
      ELSE IF LessThan(path, Candidate(c))
      THEN [c EXCEPT !.wIdx = @ + 1]
      ELSE [c EXCEPT !.dIdx = @ + 1]

DeleteStep(c) ==
  LET path == c.arr[c.wIdx + 1]
  IN  IF path = Candidate(c)
      THEN [c EXCEPT !.arr = Closed(c), !.len = @ - 1]
      ELSE IF LessThan(path, Candidate(c))
      THEN [c EXCEPT !.wIdx = @ + 1]
      ELSE [c EXCEPT !.dIdx = @ + 1]

-----------------------------------------------------------------------------
(* The loop of addNewFrom, which appends to the slice of the cache.        *)

MergeStart(slice, obj) ==
  [fn |-> "addNewFrom", arr |-> slice.arr, len |-> slice.len, obj |-> obj,
   existingLen |-> slice.len, oIdx |-> 0, eIdx |-> 0]

MergeDone(c) == c.oIdx = Len(c.obj)

\* Go's append: in place while there is room, else in an array of twice the
\* capacity.
Room(arr, len) ==
  IF len < Len(arr) THEN Len(arr) ELSE IF len = 0 THEN 1 ELSE 2 * len

Appended(arr, len, path) ==
  [k \in 1 .. Room(arr, len) |->
     IF k = len + 1 THEN path ELSE IF k \in DOMAIN arr THEN arr[k] ELSE ZeroPath]

AppendObj(c) ==
  [c EXCEPT !.arr = Appended(c.arr, c.len, c.obj[c.oIdx + 1]),
            !.len = @ + 1, !.oIdx = @ + 1]

\* Faulty variant of MergeStep: an element that is behind the existing one
\* is taken for a copy of it.
MergeStepDrops(c) ==
  IF c.eIdx = c.existingLen THEN AppendObj(c)
  ELSE LET new == c.obj[c.oIdx + 1]
           old == c.arr[c.eIdx + 1]
       IN  IF new = old THEN [c EXCEPT !.oIdx = @ + 1, !.eIdx = @ + 1]
           ELSE IF LessThan(new, old) THEN [c EXCEPT !.eIdx = @ + 1]
           ELSE [c EXCEPT !.oIdx = @ + 1]

\* Faulty variant of MergeStep: an existing element that is behind the new
\* one is not passed.
MergeStepStays(c) ==
  IF c.eIdx = c.existingLen THEN AppendObj(c)
  ELSE LET new == c.obj[c.oIdx + 1]
           old == c.arr[c.eIdx + 1]
       IN  IF new = old THEN [c EXCEPT !.oIdx = @ + 1, !.eIdx = @ + 1]
           ELSE IF LessThan(new, old) THEN c
           ELSE AppendObj(c)

MergeStep(c) ==
  IF c.eIdx = c.existingLen THEN AppendObj(c)
  ELSE LET new == c.obj[c.oIdx + 1]
           old == c.arr[c.eIdx + 1]
       IN  IF new = old THEN [c EXCEPT !.oIdx = @ + 1, !.eIdx = @ + 1]
           ELSE IF LessThan(new, old) THEN [c EXCEPT !.eIdx = @ + 1]
           ELSE AppendObj(c)

=============================================================================
