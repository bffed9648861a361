------------------------- MODULE RunLeaseRefinement -------------------------
(***************************************************************************)
(* The run lease implements ExclusiveRun.  The owner is read off the       *)
(* session's row; an attempt is inside from the UPDATE that gives it the   *)
(* row to the one that takes it back.                                      *)
(***************************************************************************)
EXTENDS RunLease

Owner == IF row = Free THEN Free ELSE CHOOSE a \in Attempts : Own(a) = row

Asking == {"idle", "reap", "key", "row"}

PhaseOf(p) ==
  CASE p \in Asking  -> "out"
    [] p \in Driving -> "in"
    [] OTHER         -> "gone"

Phase == [a \in Attempts |-> PhaseOf(pc[a])]

Exclusive == INSTANCE ExclusiveRun
               WITH Nobody <- Free, owner <- Owner, phase <- Phase

\* The lease of quota.rs and db.rs, with the exits of run.rs drive, keeps
\* the promise: only the one run inside persists the tree, and the reaper
\* never evicts it.
ImplementsExclusiveRun == Exclusive!Spec
=============================================================================
