--------------------------- MODULE MCCLIConfig ---------------------------
(* CLIConfig for TLC: processes, names and addresses are alike.           *)
EXTENDS CLIConfig, TLC

Symmetry == Permutations(Processes) \union Permutations(Names)
=============================================================================
