--------------------------- MODULE PathListLoops ---------------------------
(* One call of pathListDiff, or of the loop in deletePaths or addNewFrom,  *)
(* on any of the lists a cache holds.                                      *)
EXTENDS PathLists

CONSTANTS
  Lists,  \* the path lists the loops are called with
  Spare   \* how many free slots an array may have behind its slice

ASSUME ListAssumption ==
  /\ \A l \in Lists : l \in Seq(PathObject) /\ Sorted(l)
  /\ Spare \subseteq Nat

VARIABLES
  call,       \* the call under way: its arguments and local variables
  before,     \* the list its slice held when it began
  iterations  \* history: how often its loop has been round

callVars == <<call, before, iterations>>

\* A slice that holds a list, with room behind it.
Slice(l, room) ==
  [arr |-> [k \in 1 .. Len(l) + room |-> IF k <= Len(l) THEN l[k] ELSE ZeroPath],
   len |-> Len(l)]

LoopInit ==
  /\ before \in Lists
  /\ iterations = 0
  /\ \/ \E n \in Lists : call = DiffStart(before, n)
     \/ \E room \in Spare, toDelete \in Lists :
          call = DeleteStart(Slice(before, room), toDelete, FALSE)
     \/ \E room \in Spare :
          call = DeleteStart(Slice(before, room), before, TRUE)
     \/ \E room \in Spare, obj \in Lists :
          call = MergeStart(Slice(before, room), obj)

DiffLoop ==
  /\ call.fn = "pathListDiff"
  /\ ~ DiffDone(call)
  /\ call' = DiffStep(call)
  /\ iterations' = iterations + 1
  /\ UNCHANGED before

DeleteLoop ==
  /\ call.fn = "deletePaths"
  /\ ~ DeleteDone(call)
  /\ call' = DeleteStep(call)
  /\ iterations' = iterations + 1
  /\ UNCHANGED before

MergeLoop ==
  /\ call.fn = "addNewFrom"
  /\ ~ MergeDone(call)
  /\ call' = MergeStep(call)
  /\ iterations' = iterations + 1
  /\ UNCHANGED before

Iterate == DiffLoop \/ DeleteLoop \/ MergeLoop

LoopSpec == LoopInit /\ [][Iterate]_callVars

-----------------------------------------------------------------------------
(* Properties                                                              *)

\* The loops stay inside their lists and arrays.
LoopsInBounds ==
  /\ before \in Lists
  /\ call.fn \in {"pathListDiff", "deletePaths", "addNewFrom"}
  /\ call.fn = "pathListDiff" =>
       call.oIdx \in 0 .. Len(call.o) /\ call.nIdx \in 0 .. Len(call.n)
  /\ call.fn = "deletePaths" =>
       /\ call.len \in 0 .. Len(call.arr)
       /\ call.wIdx \in 0 .. call.len /\ call.dIdx \in 0 .. Len(call.toDelete)
  /\ call.fn = "addNewFrom" =>
       /\ call.len \in 0 .. Len(call.arr)
       /\ call.oIdx \in 0 .. Len(call.obj) /\ call.eIdx \in 0 .. call.existingLen

\* pathListDiff returns the elements of each list that the other one lacks,
\* sorted, as the merge of two sorted lists should (cache.go:93-118).
DiffIsDifference ==
  call.fn = "pathListDiff" /\ DiffDone(call) =>
    /\ Range(call.toDelete) = Range(call.o) \ Range(call.n)
    /\ Range(call.toAdd) = Range(call.n) \ Range(call.o)
    /\ Sorted(call.toDelete) /\ Sorted(call.toAdd)

\* deletePaths leaves the elements that are not to be deleted, sorted, also
\* when the list of those is a slice of the array it is closing the gaps of:
\* calcDiff passes the list of a cache itself when the certificate has gone
\* (cache.go:71, 121-140).
DeleteIsDifference ==
  call.fn = "deletePaths" /\ DeleteDone(call) =>
    /\ Range(Content(call)) = Range(before) \ Range(call.toDelete)
    /\ Sorted(Content(call))

\* addNewFrom keeps what was there and misses no new element, although it
\* advances the wrong index when the new element is the smaller one
\* (cache.go:181). It adds no second copy of an element as long as the new
\* list shares none with the old.
MergeIsUnion ==
  call.fn = "addNewFrom" /\ MergeDone(call) =>
    /\ Range(Content(call)) = Range(before) \union Range(call.obj)
    /\ Range(before) \intersect Range(call.obj) = {} =>
         Content(call) = before \o call.obj

\* The list a loop is given beside the one in its slice.
Given(c) ==
  CASE c.fn = "pathListDiff" -> c.n
    [] c.fn = "deletePaths"  -> c.toDelete
    [] OTHER -> c.obj

\* Each of the three loops ends: it goes round at most once for each element
\* of its two lists, so no case of a switch comes again and again without
\* moving an index or the end of the slice (cache.go:98, 130, 173).
LoopsEnd == iterations <= Len(before) + Len(Given(call))

=============================================================================
