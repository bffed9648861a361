----------------------------- MODULE MCWorkspace -----------------------------
(***************************************************************************)
(* Instances of Workspace for TLC: two sessions, two runs for the first,   *)
(* while the second competes for the pool.                                 *)
(***************************************************************************)
EXTENDS Workspace, TLC

CONSTANTS s1, s2, r1, r2

RunsOfTwo == (r1 :> s1) @@ (r2 :> s1)

\* Handles are interchangeable.
Symmetric == Permutations(Handles)
=============================================================================
