----------------------------- MODULE MCPermits -----------------------------
(* Permits on small instances: two engines at t=0 and one deferred, each   *)
(* with its own id, or two entries of one id.                              *)
EXTENDS Permits

DistinctIds == <<"a", "b", "c">>
SharedId == <<"a", "a">>
=============================================================================
