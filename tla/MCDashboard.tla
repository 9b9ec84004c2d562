---------------------------- MODULE MCDashboard ----------------------------
(* Model values of Dashboard that may be exchanged.                        *)
EXTENDS Dashboard, TLC

MCSymmetry == Permutations(SessionIDs) \union Permutations(Requests) \union Permutations(Pages)
=============================================================================
