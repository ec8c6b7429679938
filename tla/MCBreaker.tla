----------------------------- MODULE MCBreaker -----------------------------
(* Breaker on a small instance: two searches' calls and the prober, two    *)
(* policies, windows of a few ticks.  Streaks of two, so that a streak is  *)
(* begun, broken and completed; a backoff of two doublings, its last one   *)
(* capped by probeMax.                                                     *)
EXTENDS Breaker

MCPolicies ==
  {[degradedThreshold |-> 2, degradedWindow |-> 4, probeMin |-> 4, probeMax |-> 6],
   [degradedThreshold |-> 1, degradedWindow |-> 3, probeMin |-> 4, probeMax |-> 4]}
=============================================================================
