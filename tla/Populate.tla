------------------------------ MODULE Populate ------------------------------
(* Core.Populate: the fetch workers that read every listed path into a new  *)
(* cache, the barrier they are awaited at, and what becomes of the cache of *)
(* the source. All paths of one Core bear its name, so a PathObject is its  *)
(* location, a number compared as strings are.                              *)
EXTENDS Integers, Sequences, FiniteSets

CONSTANTS
  Certs,
  Locations,
  Listings,  \* the lists of paths Backend.List can return
  Secrets,   \* for each path, the certificates and their locations that
             \* ranging over what Get returns can yield, in order
  NumCPU

ASSUME PopulateAssumption ==
  /\ Locations \subseteq Nat /\ NumCPU \in Nat
  /\ Listings \subseteq Seq(DOMAIN Secrets)
  /\ \A p \in DOMAIN Secrets : Secrets[p] \subseteq Seq(Certs \X Locations)

VARIABLES
  cache,     \* the path lists of the source's cache; of none, << >>
  newCache,  \* and of the one being populated
  phase,     \* of the caller of Populate
  paths,     \* what List returned
  queue,     \* the closed channel of paths
  pc, path, finds,  \* of each worker: where it is, the path it reads, what it
                    \* has still to merge of it,
  mine,      \* and its mySuccessCount and myCertCount
  stats,     \* successCount and certCount
  errors,    \* the paths whose Get failed
  barrier    \* the counter of the WaitGroup

caller == <<cache, phase, paths>>
vars == <<caller, newCache, queue, pc, path, finds, mine, stats, errors, barrier>>

MaxWorkers == IF NumCPU - 1 < 1 THEN 1 ELSE NumCPU - 1
Workers == 1 .. MaxWorkers
NumWorkers(list) == IF Len(list) < MaxWorkers THEN Len(list) ELSE MaxWorkers

Counts == [success : Nat, certs : Nat]
NoCount == [success |-> 0, certs |-> 0]
Empty == [c \in Certs |-> << >>]

\* The new list, sorted by sort.Slice, when l is appended to a sorted list.
Inserted(list, l) ==
  LET rank == Cardinality({i \in DOMAIN list : list[i] <= l})
  IN  [i \in 1 .. Len(list) + 1 |->
         IF i <= rank THEN list[i] ELSE IF i = rank + 1 THEN l ELSE list[i - 1]]

\* addNewFrom with one path, on a sorted list. Its loop passes over every
\* element behind the new one and stops at the first: only a path that is
\* first in the list is recognised.
Merge(list, l) ==
  IF list # << >> /\ Head(list) = l THEN list ELSE Inserted(list, l)

-----------------------------------------------------------------------------
Init ==
  /\ cache = Empty /\ newCache = Empty
  /\ phase = "idle" /\ paths = << >> /\ queue = << >>
  /\ pc = [w \in Workers |-> "off"]
  /\ path \in [Workers -> DOMAIN Secrets]
  /\ finds = [w \in Workers |-> << >>]
  /\ mine = [w \in Workers |-> NoCount]
  /\ stats = NoCount /\ errors = << >> /\ barrier = 0

\* Populate up to the start of its workers. When List fails it returns at
\* once, and nothing has changed.
Start ==
  /\ phase = "idle" /\ phase' = "fetching"
  /\ newCache' = Empty
  /\ \E list \in Listings :
       /\ paths' = list /\ queue' = list
       /\ barrier' = NumWorkers(list)
       /\ pc' = [w \in Workers |-> IF w <= NumWorkers(list) THEN "receive" ELSE "off"]
  /\ mine' = [w \in Workers |-> NoCount]
  /\ stats' = NoCount /\ errors' = << >>
  /\ UNCHANGED <<cache, path, finds>>

\* for path := range queue
Receive(w) ==
  /\ pc[w] = "receive"
  /\ IF queue = << >>
     THEN /\ pc' = [pc EXCEPT ![w] = "count"]
          /\ UNCHANGED <<path, queue>>
     ELSE /\ path' = [path EXCEPT ![w] = Head(queue)]
          /\ queue' = Tail(queue)
          /\ pc' = [pc EXCEPT ![w] = "get"]
  /\ UNCHANGED <<caller, newCache, finds, mine, stats, errors, barrier>>

\* Faulty variant of GetFails: the worker returns, past barrier.Done.
GetFailsReturn(w) ==
  /\ pc[w] = "get" /\ pc' = [pc EXCEPT ![w] = "off"]
  /\ errors' = Append(errors, path[w])
  /\ UNCHANGED <<caller, newCache, queue, path, finds, mine, stats, barrier>>

\* Faulty variant of GetFails: the error is dropped.
GetFailsSilently(w) ==
  /\ pc[w] = "get" /\ pc' = [pc EXCEPT ![w] = "receive"]
  /\ UNCHANGED <<caller, newCache, queue, path, finds, mine, stats, errors, barrier>>

GetFails(w) ==
  /\ pc[w] = "get" /\ pc' = [pc EXCEPT ![w] = "receive"]
  /\ errors' = Append(errors, path[w])
  /\ UNCHANGED <<caller, newCache, queue, path, finds, mine, stats, barrier>>

GetSucceeds(w) ==
  /\ pc[w] = "get" /\ pc' = [pc EXCEPT ![w] = "merge"]
  /\ \E secret \in Secrets[path[w]] : finds' = [finds EXCEPT ![w] = secret]
  /\ UNCHANGED <<caller, newCache, queue, path, mine, stats, errors, barrier>>

\* Faulty variant of MergeCert: the new path stays at the end of the list.
MergeCertUnsorted(w) ==
  /\ pc[w] = "merge" /\ finds[w] # << >>
  /\ newCache' = [newCache EXCEPT ![Head(finds[w])[1]] = Append(@, Head(finds[w])[2])]
  /\ finds' = [finds EXCEPT ![w] = Tail(@)]
  /\ mine' = [mine EXCEPT ![w].certs = @ + 1]
  /\ UNCHANGED <<caller, queue, pc, path, stats, errors, barrier>>

\* The next certificate, under the lock of the new cache.
MergeCert(w) ==
  /\ pc[w] = "merge" /\ finds[w] # << >>
  /\ newCache' = [newCache EXCEPT ![Head(finds[w])[1]] = Merge(@, Head(finds[w])[2])]
  /\ finds' = [finds EXCEPT ![w] = Tail(@)]
  /\ mine' = [mine EXCEPT ![w].certs = @ + 1]
  /\ UNCHANGED <<caller, queue, pc, path, stats, errors, barrier>>

\* Faulty variant of SecretDone: barrier.Done for each path.
SecretDoneEach(w) ==
  /\ pc[w] = "merge" /\ finds[w] = << >> /\ pc' = [pc EXCEPT ![w] = "receive"]
  /\ mine' = [mine EXCEPT ![w].success = @ + 1]
  /\ barrier' = barrier - 1
  /\ UNCHANGED <<caller, newCache, queue, path, finds, stats, errors>>

SecretDone(w) ==
  /\ pc[w] = "merge" /\ finds[w] = << >> /\ pc' = [pc EXCEPT ![w] = "receive"]
  /\ mine' = [mine EXCEPT ![w].success = @ + 1]
  /\ UNCHANGED <<caller, newCache, queue, path, finds, stats, errors, barrier>>

\* The counts, under their lock, and barrier.Done.
Count(w) ==
  /\ pc[w] = "count" /\ pc' = [pc EXCEPT ![w] = "off"]
  /\ stats' = [success |-> stats.success + mine[w].success,
               certs |-> stats.certs + mine[w].certs]
  /\ barrier' = barrier - 1
  /\ UNCHANGED <<caller, newCache, queue, path, finds, mine, errors>>

\* Faulty variant of Return: what could be read is kept.
ReturnPartial ==
  /\ phase = "fetching" /\ barrier = 0 /\ phase' = "idle"
  /\ cache' = newCache
  /\ UNCHANGED <<newCache, paths, queue, pc, path, finds, mine, stats, errors, barrier>>

\* barrier.Wait, the first error if there is one, and SetCache if not.
Return ==
  /\ phase = "fetching" /\ barrier = 0 /\ phase' = "idle"
  /\ cache' = IF errors = << >> THEN newCache ELSE cache
  /\ UNCHANGED <<newCache, paths, queue, pc, path, finds, mine, stats, errors, barrier>>

Step(w) ==
  \/ Receive(w) \/ GetFails(w) \/ GetSucceeds(w)
  \/ MergeCert(w) \/ SecretDone(w) \/ Count(w)

Next == Start \/ Return \/ \E w \in Workers : Step(w)

Spec == Init /\ [][Next]_vars

\* Goroutines that can proceed do, and Get answers or fails in the end.
FairSpec == Spec /\ WF_vars(Return) /\ \A w \in Workers : WF_vars(Step(w))

-----------------------------------------------------------------------------
(* Properties                                                              *)

\* The counter of the barrier, above all, is never negative: the WaitGroup
\* would panic.
TypeOK ==
  /\ cache \in [Certs -> Seq(Locations)] /\ newCache \in [Certs -> Seq(Locations)]
  /\ phase \in {"idle", "fetching"}
  /\ paths \in Seq(DOMAIN Secrets) /\ queue \in Seq(DOMAIN Secrets)
  /\ pc \in [Workers -> {"off", "receive", "get", "merge", "count"}]
  /\ path \in [Workers -> DOMAIN Secrets]
  /\ finds \in [Workers -> Seq(Certs \X Locations)]
  /\ mine \in [Workers -> Counts] /\ stats \in Counts
  /\ errors \in Seq(DOMAIN Secrets)
  /\ barrier \in Nat

Elements(list) == {list[i] : i \in DOMAIN list}
Copies(list, x) == Cardinality({i \in DOMAIN list : list[i] = x})

\* When the workers are awaited each listed path has been read, or has left
\* an error, exactly once, and the statistics that are logged count every
\* path and every certificate (core.go:131-151).
StatsAddUp ==
  phase = "fetching" /\ barrier = 0 =>
    /\ stats.success + Len(errors) = Len(paths)
    /\ \A c \in Certs : stats.certs >= Len(newCache[c])
    /\ \A w \in Workers : pc[w] = "off"

\* No path is listed twice, and no two paths hold one certificate at one
\* location. (A host that the configuration of a tlsclient names twice is.)
DistinctPaths ==
  /\ \A list \in Listings : \A i, j \in DOMAIN list : list[i] = list[j] => i = j
  /\ \A p, q \in DOMAIN Secrets : \A s \in Secrets[p], t \in Secrets[q] :
       p # q => Elements(s) \intersect Elements(t) = {}

\* In whatever order the workers merge what they find, a path list stays
\* sorted, which the loops of ApplyDiff rely on, and, if the paths are
\* distinct, has a second copy of one only if one secret yields the
\* certificate twice (core.go:112-127).
ListsInOrder ==
  \A c \in Certs :
    /\ \A i \in 1 .. Len(newCache[c]) - 1 : newCache[c][i] <= newCache[c][i + 1]
    /\ DistinctPaths => \A l \in Elements(newCache[c]) : Copies(newCache[c], l) > 1 =>
         \E p \in DOMAIN Secrets : \E secret \in Secrets[p] : Copies(secret, <<c, l>>) > 1

\* What the workers have merged or are about to merge.
Findings ==
  {f \in Certs \X Locations : f[2] \in Elements(newCache[f[1]])} \union
  UNION {Elements(finds[w]) : w \in Workers}

Unanswered == Len(queue) + Cardinality({w \in Workers : pc[w] = "get"})

Fetch == INSTANCE AtomicFetch WITH
  cache <- [c \in Certs |-> Elements(cache[c])],
  busy <- phase = "fetching",
  left <- Unanswered,
  got <- Findings,
  failed <- errors # << >>

\* However the workers interleave, Populate is one atomic fetch: the cache
\* is replaced by all that the paths held, or after any error stays as it
\* was (core.go:41-55, 144).
ImplementsAtomicFetch == Fetch!Spec

\* A refresh ends: every worker reaches the barrier whatever the answers
\* are, and without paths there is nobody to wait for (core.go:71-76, 142).
PopulateEnds == phase = "fetching" ~> phase = "idle"
=============================================================================
