---------------------------- MODULE ExclusiveRun ----------------------------
(***************************************************************************)
(* What the run lease of a session promises: one run at a time is inside,  *)
(* and only the run inside writes the session's tree.  A grant may be lost *)
(* with its run (a crash, an early return, a reply that never came); it    *)
(* is then evicted, but never from under a run that is inside.             *)
(***************************************************************************)
CONSTANTS Attempts, Nobody

VARIABLES
  owner,  \* the attempt the session is granted to, or Nobody
  phase,  \* "out" before the grant, "in" while it drives, "gone" after
  saved   \* the attempt that wrote the tree last, or Nobody

vars == <<owner, phase, saved>>

Init ==
  /\ owner = Nobody
  /\ phase = [a \in Attempts |-> "out"]
  /\ saved = Nobody

Enter(a) ==
  /\ owner = Nobody /\ phase[a] = "out"
  /\ owner' = a
  /\ phase' = [phase EXCEPT ![a] = "in"]
  /\ UNCHANGED saved

\* The grant is recorded but its holder never learns of it.
Orphan(a) ==
  /\ owner = Nobody /\ phase[a] = "out"
  /\ owner' = a
  /\ phase' = [phase EXCEPT ![a] = "gone"]
  /\ UNCHANGED saved

Save(a) ==
  /\ phase[a] = "in"
  /\ saved' = a
  /\ \/ UNCHANGED phase
     \/ phase' = [phase EXCEPT ![a] = "gone"]
  /\ UNCHANGED owner

Leave(a) ==
  /\ owner = a /\ phase[a] = "in"
  /\ owner' = Nobody
  /\ phase' = [phase EXCEPT ![a] = "gone"]
  /\ UNCHANGED saved

\* Refused, failed or crashed attempts; what they were granted stays.
Quit(A) ==
  /\ phase' = [a \in Attempts |-> IF a \in A THEN "gone" ELSE phase[a]]
  /\ UNCHANGED <<owner, saved>>

Evict ==
  /\ \A a \in Attempts : phase[a] # "in"
  /\ owner' = Nobody
  /\ UNCHANGED <<phase, saved>>

Next ==
  \/ \E a \in Attempts : Enter(a) \/ Orphan(a) \/ Save(a) \/ Leave(a)
  \/ \E A \in SUBSET Attempts : Quit(A)
  \/ Evict

Spec == Init /\ [][Next]_vars

=============================================================================
