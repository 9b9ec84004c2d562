---------------------------- MODULE MCTaskQueue ----------------------------
(* Constants of TaskQueue for TLC.                                         *)
EXTENDS TaskQueue, TLC

\* Two sources that share a name.
MCOneName       == <<"a", "a">>
MCInterval      == [s \in Sources |-> 2]
MCOneSourceName == <<"a">>
MCTTLs          == {4, -1}
MCForever       == {-1}

MCSymmetry == Permutations(Workers)
=============================================================================
