---------------------------- MODULE CacheListing ----------------------------
(* What the list and dashboard commands (cmd/list.go, cmd/dashboard.go)      *)
(* print of the certificates they get, sorted, from the server.             *)
EXTENDS CacheItems

CONSTANTS MaxItems, MaxLeft

VARIABLES
  items,   \* the answer of GET /v1/cache
  groups,  \* the filter of each table printed
  shown    \* its content

vars == <<items, groups, shown>>

\* Three days, two and four weeks.
Days3 == 1
Weeks2 == 2
Weeks4 == 3

Group(beyond, within) == [beyond |-> beyond, within |-> within]

Init ==
  /\ items \in {s \in UNION {[1 .. n -> 0 .. MaxLeft] : n \in 0 .. MaxItems} : Sorted(s)}
  /\ groups = << >>
  /\ shown = << >>

Show(gs) ==
  /\ groups = << >>
  /\ groups' = gs
  /\ shown' = [i \in DOMAIN gs |-> Filter(items, gs[i])]
  /\ UNCHANGED items

List ==
  \E beyond, within \in {NotGiven} \union 0 .. MaxLeft : Show(<<Group(beyond, within)>>)

Dashboard ==
  Show(<<Group(NotGiven, 0), Group(0, Days3), Group(Days3, Weeks2), Group(Weeks2, Weeks4)>>)

Next == List \/ Dashboard

Spec == Init /\ [][Next]_vars

\* What a filter asks for.
Asked(left, filter) ==
  /\ filter.beyond # NotGiven => filter.beyond < left
  /\ filter.within # NotGiven => left <= filter.within

\* Each table holds the certificates its duration asks for and no others
\* (main.go:49-52): also when none expires beyond it.
ShownAsAsked ==
  \A i \in DOMAIN groups :
    shown[i] = SelectSeq(items, LAMBDA left : Asked(left, groups[i]))
=============================================================================
