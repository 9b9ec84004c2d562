--------------------------- MODULE ExclusiveRuns ---------------------------
(***************************************************************************)
(* What the scheduler promises the sources: a job (the authentication, or  *)
(* the refresh, of the sources of one name) is run by one worker at a      *)
(* time, and a worker runs one job at a time.                              *)
(***************************************************************************)
CONSTANTS Workers, Jobs

VARIABLE runs  \* the pairs <<worker, job>> being run

Init == runs = {}

Begin(w, j) ==
  /\ \A r \in runs : r[1] # w /\ r[2] # j
  /\ runs' = runs \cup {<<w, j>>}

End(w, j) ==
  /\ <<w, j>> \in runs
  /\ runs' = runs \ {<<w, j>>}

Next == \E w \in Workers, j \in Jobs : Begin(w, j) \/ End(w, j)

Spec == Init /\ [][Next]_runs
=============================================================================
