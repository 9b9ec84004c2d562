----------------------------- MODULE AtomicFetch -----------------------------
(* What Core.Populate promises to Source.Refresh: one fetch at a time asks  *)
(* for each listed path once and, only if every path was answered,          *)
(* replaces the cache by all that was found, at once.                       *)
EXTENDS Naturals

CONSTANTS Certs, Locations

VARIABLES cache,   \* where each certificate is
          busy,    \* a fetch is going on
          left,    \* the number of paths not yet answered
          got,     \* pairs of certificate and location found so far
          failed   \* some path could not be read

vars == <<cache, busy, left, got, failed>>

Init ==
  /\ cache = [c \in Certs |-> {}]
  /\ busy = FALSE /\ left = 0 /\ got = {} /\ failed = FALSE

Begin ==
  /\ ~busy /\ busy' = TRUE
  /\ left' \in Nat /\ got' = {} /\ failed' = FALSE
  /\ UNCHANGED cache

Found ==
  /\ busy /\ left > 0 /\ left' = left - 1
  /\ \E finds \in SUBSET (Certs \X Locations) : got' = got \union finds
  /\ UNCHANGED <<cache, busy, failed>>

Refused ==
  /\ busy /\ left > 0 /\ left' = left - 1
  /\ failed' = TRUE
  /\ UNCHANGED <<cache, busy, got>>

End ==
  /\ busy /\ left = 0 /\ busy' = FALSE
  /\ cache' = IF failed THEN cache
              ELSE [c \in Certs |-> {l \in Locations : <<c, l>> \in got}]
  /\ UNCHANGED <<left, got, failed>>

Next == Begin \/ Found \/ Refused \/ End

Spec == Init /\ [][Next]_vars
=============================================================================
