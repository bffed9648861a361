----------------------------- MODULE MCRunLease -----------------------------
(***************************************************************************)
(* Instances of RunLease for TLC: two requests with run ids of their own,  *)
(* each at a replica of its own or both at the same.                       *)
(***************************************************************************)
EXTENDS RunLeaseRefinement, TLC

CONSTANTS a1, a2, i1, i2, r1, r2

DistinctRunOf == (a1 :> r1) @@ (a2 :> r2)
Served        == (a1 :> i1) @@ (a2 :> i2)
SameServer    == (a1 :> i1) @@ (a2 :> i1)
=============================================================================
