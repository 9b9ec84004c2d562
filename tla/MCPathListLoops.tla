-------------------------- MODULE MCPathListLoops --------------------------
(* Constants of PathListLoops for TLC.                                     *)
EXTENDS PathListLoops, SequencesExt

\* Two sources with three and two locations.
MCPaths ==
  {[Source |-> 1, Location |-> l] : l \in 1 .. 3} \union
  {[Source |-> 2, Location |-> l] : l \in 1 .. 2}
\* Every sorted list of them.
MCLists == {SetToSortSeq(S, LessThan) : S \in SUBSET MCPaths}
MCSpare == {0, 1, 3}
=============================================================================
