----------------------------- MODULE CertCache -----------------------------
(* The caches of the sources and the global cache of server/cache.go, with *)
(* the arrays their path lists share.                                      *)
(*                                                                         *)
(* The entries of different certificates never meet, so this is the entry  *)
(* of one certificate in each cache. An entry is Absent or a slice: an     *)
(* array and a length. All slices begin at the start of their array, as    *)
(* the code makes no other.                                                *)
EXTENDS PathLists, FiniteSets

CONSTANTS
  Sources,    \* their names, as numbers
  Locations,  \* where a source may hold the certificate
  MaxPaths,   \* the longest list a Populate leaves
  Repeats,    \* locations whose value holds the certificate twice
  Slots,      \* how many arrays of one allocator are in use, at most: two and
              \* those of calcDiff, and the one the global cache has kept
  Absent      \* no entry for the certificate

ASSUME CacheAssumption ==
  /\ Sources \subseteq Nat \ {0} /\ IsFiniteSet(Sources)
  /\ Locations \subseteq Nat \ {0} /\ IsFiniteSet(Locations)
  /\ MaxPaths \in Nat /\ Repeats \subseteq Locations
  /\ Slots \in Nat /\ Slots >= 5

VARIABLES
  mem,       \* what each array holds; arrays nothing refers to are empty
  cache,     \* the entry in each source's cache
  global,    \* the entry in the global cache
  refresh,   \* where each source's Refresh is
  old,       \* the entry of the cache a Refresh started from
  toDelete,  \* the paths calcDiff found for deletion
  toAdd      \* and those to be added

vars == <<mem, cache, global, refresh, old, toDelete, toAdd>>

\* Arrays are told apart by who made them, which keeps their names few: the
\* Refresh of a source, or (0) an append to the global cache.
Arrays == (Sources \union {0}) \X (1 .. Slots)

\* A nil slice has no array.
NoArray == <<0, 0>>
NilSlice == [arr |-> NoArray, len |-> 0]

Slices == [arr : Arrays \union {NoArray}, len : Nat]
ASSUME AbsentAssumption == Absent \notin Slices

SliceAt(m, e) ==
  [arr |-> IF e.arr = NoArray THEN << >> ELSE m[e.arr], len |-> e.len]

\* Memory m with other content in one array.
Write(m, array, content) ==
  [a \in Arrays |-> IF a = array THEN content ELSE m[a]]

Paths(m, e) == IF e = Absent THEN << >> ELSE Content(SliceAt(m, e))

Entries ==
  {global} \union
  UNION {{cache[s], old[s], toDelete[s], toAdd[s]} : s \in Sources}

InUse(entries) == {e.arr : e \in entries \ {Absent}}

\* Two arrays nothing in the state refers to; the first is new for any one
\* allocation.
FreeSlots(owner) == {k \in 1 .. Slots : <<owner, k>> \notin InUse(Entries)}
FreeSlot(owner) == CHOOSE k \in FreeSlots(owner) : TRUE
NewArray(owner) == <<owner, FreeSlot(owner)>>
AnotherArray(owner) ==
  <<owner, CHOOSE k \in FreeSlots(owner) : k # FreeSlot(owner)>>

\* Go's collector: arrays that no entry refers to are empty.
Collected(m, entries) ==
  [a \in Arrays |-> IF a \in InUse(entries) THEN m[a] ELSE << >>]

\* A loop run to its end, which comes within bound iterations.
Finished(start, bound, Done(_), Step(_)) ==
  LET at[k \in 0 .. bound] ==
        IF k = 0 THEN start
        ELSE IF Done(at[k - 1]) THEN at[k - 1] ELSE Step(at[k - 1])
  IN  at[bound]

\* What the loop of addNewFrom makes of a slice: its array, grown or not, and
\* its length.
Merged(slice, list) ==
  Finished(MergeStart(slice, list), slice.len + Len(list), MergeDone, MergeStep)

\* Faulty variant of Grown: new lists are made with room for four paths.
GrownWithRoom(list) ==
  Merged([arr |-> [k \in 1 .. 4 |-> ZeroPath], len |-> 0], list).arr

\* The array that a list ends up in when its elements are appended one by
\* one to a nil slice.
Grown(list) == Merged([arr |-> << >>, len |-> 0], list).arr

Diff(o, n) == Finished(DiffStart(o, n), Len(o) + Len(n), DiffDone, DiffStep)

\* sort.Slice on the part of an array that belongs to a slice.
InOrder(arr, len) ==
  LET order == CHOOSE p \in Bijection(1 .. len, 1 .. len) :
                 \A i, j \in 1 .. len : i < j => ~ LessThan(arr[p[j]], arr[p[i]])
  IN  [k \in 1 .. Len(arr) |-> arr[IF k <= len THEN order[k] ELSE k]]

\* The lists Populate can leave for a source. Merge adds one path at a time
\* and sorts. When a value holds the certificate twice, the second Merge
\* finds the path and drops it only if it is the first of the list so far,
\* which depends on the order of the fetch workers.
Populated(s) ==
  {list \in UNION {[1 .. n -> [Source : {s}, Location : Locations]] : n \in 0 .. MaxPaths} :
     \A i, j \in DOMAIN list : i < j =>
       \/ LessThan(list[i], list[j])
       \/ /\ list[i] = list[j] /\ list[i].Location \in Repeats
          /\ 1 < i /\ j = i + 1}

-----------------------------------------------------------------------------
Init ==
  /\ mem = [a \in Arrays |-> << >>]
  /\ cache = [s \in Sources |-> Absent]
  /\ global = Absent
  /\ refresh = [s \in Sources |-> "idle"]
  /\ old = [s \in Sources |-> Absent]
  /\ toDelete = [s \in Sources |-> Absent]
  /\ toAdd = [s \in Sources |-> Absent]

\* Refresh takes the old cache and Populate succeeds: the new cache, with
\* arrays of its own, replaces it. A Populate that fails changes nothing.
Populate(s) ==
  /\ refresh[s] = "idle"
  /\ refresh' = [refresh EXCEPT ![s] = "populated"]
  /\ old' = [old EXCEPT ![s] = cache[s]]
  /\ \E list \in Populated(s) :
       /\ cache' = [cache EXCEPT ![s] =
                      IF list = << >> THEN Absent
                      ELSE [arr |-> NewArray(s), len |-> Len(list)]]
       /\ mem' = IF list = << >> THEN mem
                 ELSE Write(mem, NewArray(s), Grown(list))
  /\ UNCHANGED <<global, toDelete, toAdd>>

\* calcDiff, before ApplyDiff has the lock of the global cache. Where only
\* one of the caches has an entry its own slice is handed on.
CalcDiff(s) ==
  LET o == old[s]
      n == cache[s]
      diff == Diff(Paths(mem, o), Paths(mem, n))
      d == NewArray(s)
      a == AnotherArray(s)
      Fresh(array, list) ==
        IF list = << >> THEN NilSlice ELSE [arr |-> array, len |-> Len(list)]
  IN  /\ refresh[s] = "populated"
      /\ refresh' = [refresh EXCEPT ![s] = "diffed"]
      /\ toDelete' = [toDelete EXCEPT ![s] =
                        IF o = Absent \/ n = Absent THEN o
                        ELSE Fresh(d, diff.toDelete)]
      /\ toAdd' = [toAdd EXCEPT ![s] =
                     IF o = Absent \/ n = Absent THEN n
                     ELSE Fresh(a, diff.toAdd)]
      /\ mem' = IF o = Absent \/ n = Absent THEN mem
                ELSE Write(Write(mem, d, Grown(diff.toDelete)), a, Grown(diff.toAdd))
      /\ UNCHANGED <<cache, global, old>>

\* Faulty variant of DeletePaths: an entry that has lost all its paths stays.
DeletePathsKeepsEmpty(now, paths) ==
  IF now.entry = Absent \/ paths = Absent THEN now
  ELSE LET list == Paths(now.mem, paths)
           end == Finished(DeleteStart(SliceAt(now.mem, now.entry), list,
                                       paths.arr = now.entry.arr /\ paths.arr # NoArray),
                           now.entry.len + Len(list), DeleteDone, DeleteStep)
       IN  [mem |-> Write(now.mem, now.entry.arr, end.arr),
            entry |-> [now.entry EXCEPT !.len = end.len]]

\* Memory and the global entry, after deletePaths(paths).
DeletePaths(now, paths) ==
  IF now.entry = Absent \/ paths = Absent THEN now
  ELSE LET list == Paths(now.mem, paths)
           end == Finished(DeleteStart(SliceAt(now.mem, now.entry), list,
                                       paths.arr = now.entry.arr /\ paths.arr # NoArray),
                           now.entry.len + Len(list), DeleteDone, DeleteStep)
       IN  [mem |-> Write(now.mem, now.entry.arr, end.arr),
            entry |-> IF end.len = 0 THEN Absent
                      ELSE [now.entry EXCEPT !.len = end.len]]

\* Faulty variant of AddNewFrom: a grown array is not stored with its length.
AddNewFromOldArray(now, obj) ==
  IF obj = Absent THEN now
  ELSE IF now.entry = Absent THEN [now EXCEPT !.entry = obj]
  ELSE LET end == Merged(SliceAt(now.mem, now.entry), Paths(now.mem, obj))
       IN  [now EXCEPT !.entry.len = end.len]

\* Memory and the global entry, after addNewFrom(obj). An append that
\* outgrows the array leaves the old one as it was: what an earlier append
\* put in its spare room is within no other slice.
AddNewFrom(now, obj) ==
  IF obj = Absent THEN now
  ELSE IF now.entry = Absent THEN [now EXCEPT !.entry = obj]
  ELSE LET there == SliceAt(now.mem, now.entry)
           end == Merged(there, Paths(now.mem, obj))
           array == IF Len(end.arr) = Len(there.arr) THEN now.entry.arr ELSE NewArray(0)
       IN  [mem |-> Write(now.mem, array, InOrder(end.arr, end.len)),
            entry |-> [arr |-> array, len |-> end.len]]

\* The locked part of ApplyDiff, and the end of Refresh, where its slices go.
Apply(s) ==
  LET after == AddNewFrom(DeletePaths([mem |-> mem, entry |-> global], toDelete[s]),
                          toAdd[s])
      others == Sources \ {s}
      kept == {after.entry} \union {cache[r] : r \in Sources} \union
              UNION {{old[r], toDelete[r], toAdd[r]} : r \in others}
  IN  /\ refresh[s] = "diffed"
      /\ refresh' = [refresh EXCEPT ![s] = "idle"]
      /\ global' = after.entry
      /\ old' = [old EXCEPT ![s] = Absent]
      /\ toDelete' = [toDelete EXCEPT ![s] = Absent]
      /\ toAdd' = [toAdd EXCEPT ![s] = Absent]
      /\ mem' = Collected(after.mem, kept)
      /\ UNCHANGED cache

Next == \E s \in Sources : Populate(s) \/ CalcDiff(s) \/ Apply(s)

Spec == Init /\ [][Next]_vars

-----------------------------------------------------------------------------
(* Properties                                                              *)

\* Every slice lies within its array.
TypeOK ==
  /\ \A a \in Arrays : mem[a] \in Seq(PathObject)
  /\ refresh \in [Sources -> {"idle", "populated", "diffed"}]
  /\ \A e \in Entries \ {Absent} :
       /\ e.arr \in Arrays \union {NoArray}
       /\ e.len \in 0 .. Len(SliceAt(mem, e).arr)

\* The cache of s as the global cache should know it: until its difference
\* has been applied, the cache its Refresh started from.
Applied(s) == IF refresh[s] = "idle" THEN cache[s] ELSE old[s]

\* The global cache holds the paths of all sources, each once, and has an
\* entry only for a certificate some source holds (cache.go:48-62, used by
\* source.go:61).
GlobalIsUnion ==
  /\ Range(Paths(mem, global)) = UNION {Range(Paths(mem, Applied(s))) : s \in Sources}
  /\ Sorted(Paths(mem, global))
  /\ global # Absent => Paths(mem, global) # << >>

\* What is done to the global cache leaves the caches of the sources alone,
\* although they share arrays with it (cache.go:83, 167): a source's list
\* keeps its own paths, in order.
SourcesKeepTheirLists ==
  \A s \in Sources :
    /\ Sorted(Paths(mem, cache[s]))
    /\ \A p \in Range(Paths(mem, cache[s])) : p.Source = s

Foreign(s, paths) == {p \in Range(paths) : p.Source # s}

\* Applying the difference between two caches of one source neither removes
\* nor adds a path of another source: both caches hold paths of that source
\* alone (core.go:119-124, cache.go:50-62).
OthersUntouched ==
  [][\A s \in Sources :
       refresh[s] = "diffed" /\ refresh'[s] = "idle" =>
         Foreign(s, Paths(mem', global')) = Foreign(s, Paths(mem, global))]_vars
=============================================================================
