--------------------------- MODULE RunLeaseProofs ---------------------------
(***************************************************************************)
(* The run lease excludes: proofs of the type invariant, of mutual         *)
(* exclusion and of the refinement of ExclusiveRun, for any set of         *)
(* attempts and replicas and any bounds that satisfy WellTimed, whatever   *)
(* Redis and Postgres do.                                                  *)
(***************************************************************************)
EXTENDS RunLeaseRefinement, TLAPS

(***************************************************************************)
(* What the inductive invariant adds to HolderOwnsRow: before the run      *)
(* starts there is no heartbeat task; an attempt that is still asking does *)
(* not own the row and has its set-up ahead of it.                         *)
(***************************************************************************)
Fresh ==
  \A a \in Attempts :
    /\ pc[a] \in Asking \cup Setup => hb[a] = "none"
    /\ pc[a] \in Asking => row # Own(a)
    /\ pc[a] = "row" => due[a] <= MaxSetup

IInv == TypeOK /\ HolderOwnsRow /\ Fresh

\* Every step keeps the variables in their types, whatever the constants.
LEMMA InitType == Init => TypeOK
BY LeaseConstants DEF Init, TypeOK, Leases, Driving, Setup, Exits, Beating

LEMMA OwnIsLease == \A a \in Attempts : Own(a) \in Leases
BY LeaseConstants DEF Own, Leases

LEMMA NextType == TypeOK /\ [Next]_vars => TypeOK'
<1> SUFFICES ASSUME TypeOK, [Next]_vars PROVE TypeOK'
  OBVIOUS
<1> USE LeaseConstants, OwnIsLease
        DEF pgVars, redisVars, taskVars, Goto, Owes, BeatGoto, BeatStops,
            BeatLost, DropKey, ClearStale, ClearRun
<1> DEFINE PC == Driving \cup {"idle", "reap", "key", "row", "rollback",
                               "abort", "over", "leaked", "crashed"}
           HB == Beating \cup {"none", "dead"}
<1>0. /\ {"setup", "running", "finish", "park", "relGet", "relDel", "relRow"} \subseteq PC
      /\ {"reap", "key", "row", "rollback", "abort", "over", "leaked", "crashed"} \subseteq PC
      /\ {"wait", "renew", "claim", "touch", "none", "dead"} \subseteq HB
  BY DEF Driving, Setup, Exits, Beating
<1> HIDE DEF PC, HB
<1>a. /\ row \in Leases \cup {Free}
      /\ age \in 0..(StaleAfter + 1)
      /\ saved \in Attempts \cup {Free}
      /\ key \in Leases \cup {Free}
      /\ ttl \in 0..LeaseTTL
      /\ linked \subseteq Instances
      /\ reachable \in BOOLEAN
      /\ pc \in [Attempts -> PC]
      /\ hb \in [Attempts -> HB]
      /\ cancelled \subseteq Attempts
      /\ due \in [Attempts -> Nat]
      /\ (TypeOK' <=> /\ row' \in Leases \cup {Free}
                      /\ age' \in 0..(StaleAfter + 1)
                      /\ saved' \in Attempts \cup {Free}
                      /\ key' \in Leases \cup {Free}
                      /\ ttl' \in 0..LeaseTTL
                      /\ linked' \subseteq Instances
                      /\ reachable' \in BOOLEAN
                      /\ pc' \in [Attempts -> PC]
                      /\ hb' \in [Attempts -> HB]
                      /\ cancelled' \subseteq Attempts
                      /\ due' \in [Attempts -> Nat])
  BY DEF TypeOK, PC, HB
<1>1. ASSUME NEW a \in Attempts, Request(a) PROVE TypeOK'
  BY <1>0, <1>a, <1>1 DEF Request, Start, AcquireReap, AcquireKey, SkipKey, KeyRefused,
     AcquireRow, RowRefused, Rollback
<1>2. ASSUME NEW a \in Attempts,
             SetupDone(a) \/ SetupTouch(a) \/ EarlyExit(a) \/ Disconnect(a)
      PROVE  TypeOK'
  BY <1>0, <1>a, <1>2 DEF SetupDone, SetupTouch, EarlyExit, Disconnect
<1>3. ASSUME NEW a \in Attempts, Exit(a) PROVE TypeOK'
  BY <1>0, <1>a, <1>3 DEF Exit, Unwind, RunEnds, FinishPersist, ParkPersist, ReleaseGet, ReleaseDel,
     ReleaseRow, AbortHeartbeat
<1>4. ASSUME NEW a \in Attempts, Beat(a) PROVE TypeOK'
  <2>1. CASE BeatCancelled(a) \/ BeatSkipKey(a) \/ BeatGet(a)
    BY <1>0, <1>a, <2>1 DEF BeatCancelled, BeatSkipKey, BeatGet
  <2>2. CASE BeatRenew(a)
    BY <1>0, <1>a, <2>2 DEF BeatRenew
  <2>3. CASE BeatClaim(a)
    BY <1>0, <1>a, <2>3 DEF BeatClaim
  <2>4. CASE BeatTouch(a)
    BY <1>0, <1>a, <2>4 DEF BeatTouch
  <2> QED BY <1>4, <2>1, <2>2, <2>3, <2>4 DEF Beat
<1>5. ASSUME Environment PROVE TypeOK'
  <2>0. CASE RedisOutage
    <3>1. reachable' \in BOOLEAN
      BY <2>0 DEF RedisOutage
    <3> QED BY <1>a, <2>0, <3>1 DEF RedisOutage
  <2>1. CASE Reap \/ RedisLosesKey
    BY <1>a, <2>1 DEF Reap, RedisLosesKey
  <2>2. CASE Tick
    BY <1>a, <2>2 DEF Tick
  <2>3. CASE \E i \in Instances : Crash(i)
    BY <1>0, <1>a, <2>3 DEF Crash
  <2> QED BY <1>5, <2>0, <2>1, <2>2, <2>3 DEF Environment
<1>6. CASE UNCHANGED vars
  BY <1>a, <1>6 DEF vars
<1> QED BY <1>1, <1>2, <1>3, <1>4, <1>5, <1>6 DEF Next

\* The variables of RunLease keep their types.
THEOREM TypeCorrect == Spec => []TypeOK
BY InitType, NextType, PTL DEF Spec

(***************************************************************************)
(* Mutual exclusion.                                                       *)
(***************************************************************************)
LEMMA InitInv == Init => HolderOwnsRow /\ Fresh
BY LeaseConstants, OwnIsLease
   DEF Init, HolderOwnsRow, Fresh, Holding, Driving, Setup, Exits, Asking

\* With distinct run ids, the row tells whose it is.
LEMMA OwnDistinct ==
  ASSUME DistinctRuns, NEW a \in Attempts, NEW b \in Attempts, Own(a).run = Own(b).run
  PROVE  a = b
BY DEF DistinctRuns, Own

\* A step that starts where nobody else can be disturbed: the pieces of the
\* invariant it may change are those of the attempt that takes it.
LEMMA NextInv ==
  ASSUME DistinctRuns, WellTimed, IInv, TypeOK', [Next]_vars
  PROVE  HolderOwnsRow' /\ Fresh'
<1> USE LeaseConstants
<1>t. /\ MaxSetup \in Nat /\ MaxUnwind \in Nat /\ Heartbeat \in Nat /\ StaleAfter \in Nat
      /\ MaxSetup + MaxUnwind <= StaleAfter /\ Heartbeat + MaxUnwind <= StaleAfter
      /\ Punctual = TRUE
      /\ age \in Nat /\ age' \in Nat /\ due \in [Attempts -> Nat] /\ due' \in [Attempts -> Nat]
  BY DEF WellTimed, IInv, TypeOK
<1>d. \A a, b \in Attempts : Own(a).run = Own(b).run => a = b
  BY OwnDistinct
<1>f. \A a \in Attempts : Own(a) # Free /\ Own(a).run = RunOf[a]
  BY OwnIsLease DEF Own
<1>p. /\ \A a \in Attempts : pc[a] \in Asking => ~Holding(a)
      /\ \A a \in Attempts : (pc[a] \in Asking => ~Holding(a))'
  BY DEF Asking, Holding, Driving, Setup, Exits
<1>h. HolderOwnsRow /\ Fresh /\ TypeOK
  BY DEF IInv
<1>1. ASSUME NEW b \in Attempts, Request(b) PROVE HolderOwnsRow' /\ Fresh'
  <2> USE <1>t, <1>d, <1>f, <1>h, <1>1
          DEF HolderOwnsRow, Fresh, Holding, Driving, Setup, Exits, Asking, Slack, TypeOK,
              Goto, Owes, pgVars, redisVars, taskVars, DropKey, ClearStale
  <2>1. CASE Start(b) \/ KeyRefused(b) \/ Rollback(b)
    BY <2>1 DEF Start, KeyRefused, Rollback
  <2>2. CASE AcquireReap(b)
    BY <2>2 DEF AcquireReap
  <2>3. CASE AcquireKey(b) \/ SkipKey(b)
    BY <2>3 DEF AcquireKey, SkipKey
  <2>4. CASE AcquireRow(b)
    BY <2>4 DEF AcquireRow
  <2>5. CASE RowRefused(b)
    BY <2>5 DEF RowRefused
  <2> QED BY <2>1, <2>2, <2>3, <2>4, <2>5 DEF Request
<1>2. ASSUME NEW b \in Attempts, SetupDone(b) \/ SetupTouch(b) \/ EarlyExit(b) \/ Disconnect(b)
      PROVE  HolderOwnsRow' /\ Fresh'
  <2> USE <1>t, <1>f, <1>h, <1>2
          DEF HolderOwnsRow, Fresh, Holding, Driving, Setup, Exits, Asking, Slack, TypeOK,
              Goto, Owes, pgVars, redisVars, taskVars
  <2>1. CASE SetupDone(b)
    <3>1. age' = 0 \/ age' = age
      BY <2>1 DEF SetupDone
    <3>2. /\ row' = row /\ hb' = [hb EXCEPT ![b] = "wait"]
          /\ due' = [due EXCEPT ![b] = 0] /\ pc' = [pc EXCEPT ![b] = "running"]
          /\ pc[b] = "setup" /\ hb[b] # "dead"
      BY <2>1 DEF SetupDone
    <3> QED BY <3>1, <3>2
  <2>2. CASE SetupTouch(b)
    BY <2>2 DEF SetupTouch
  <2>3. CASE EarlyExit(b) \/ Disconnect(b)
    BY <2>3 DEF EarlyExit, Disconnect
  <2> QED BY <1>2, <2>1, <2>2, <2>3
<1>3. ASSUME NEW b \in Attempts, Exit(b) PROVE HolderOwnsRow' /\ Fresh'
  <2> USE <1>t, <1>d, <1>f, <1>h, <1>3
          DEF HolderOwnsRow, Fresh, Holding, Driving, Setup, Exits, Asking, Slack, TypeOK,
              Goto, Owes, pgVars, redisVars, taskVars, DropKey
  <2>1. CASE RunEnds(b) \/ ReleaseGet(b) \/ ReleaseDel(b)
    BY <2>1 DEF RunEnds, ReleaseGet, ReleaseDel
  <2>2. CASE FinishPersist(b) \/ ParkPersist(b)
    BY <2>2 DEF FinishPersist, ParkPersist
  <2>3. CASE ReleaseRow(b)
    BY <2>3 DEF ReleaseRow, ClearRun
  <2>4. CASE AbortHeartbeat(b)
    BY <2>4 DEF AbortHeartbeat
  <2> QED BY <1>3, <2>1, <2>2, <2>3, <2>4 DEF Exit, Unwind
<1>4. ASSUME NEW b \in Attempts, Beat(b) PROVE HolderOwnsRow' /\ Fresh'
  <2>0. hb[b] \in Beating /\ pc[b] \notin Asking \cup Setup
    BY <1>4, <1>h DEF Beat, BeatCancelled, BeatSkipKey, BeatGet, BeatRenew, BeatClaim,
       BeatTouch, BeatGoto, Beating, Fresh
  <2>1. /\ row' = row /\ pc' = pc
        /\ age' = age \/ age' = 0
    BY <1>4 DEF Beat, BeatCancelled, BeatSkipKey, BeatGet, BeatRenew, BeatClaim,
       BeatTouch, pgVars, redisVars
  <2>2. \A a \in Attempts \ {b} : hb'[a] = hb[a] /\ due'[a] = due[a]
    BY <1>4, <1>h DEF TypeOK, Beat, BeatCancelled, BeatSkipKey, BeatGet, BeatRenew, BeatClaim,
       BeatTouch, BeatGoto, BeatLost, BeatStops, Owes
  <2>3. \/ hb'[b] \in Beating /\ due'[b] = due[b]
        \/ hb'[b] = "dead" /\ due'[b] = MaxUnwind
        \/ hb'[b] \in Beating /\ due'[b] = Heartbeat /\ age' = 0
    BY <1>4, <1>h, <1>t DEF TypeOK, Beat, BeatCancelled, BeatSkipKey, BeatGet, BeatRenew,
       BeatClaim, BeatTouch, BeatGoto, BeatLost, BeatStops, Owes, Beating
  <2>4. Fresh'
    BY <2>0, <2>1, <2>2, <1>h DEF Fresh, Asking, Setup, Own
  <2>5. HolderOwnsRow'
    BY <2>0, <2>1, <2>2, <2>3, <1>h, <1>t DEF HolderOwnsRow, Holding, Slack, Beating, Own
  <2> QED BY <2>4, <2>5
<1>5. ASSUME Environment PROVE HolderOwnsRow' /\ Fresh'
  <2> USE <1>t, <1>f, <1>h, <1>5
          DEF HolderOwnsRow, Fresh, Holding, Driving, Setup, Exits, Asking, Slack, TypeOK,
              pgVars, redisVars, taskVars
  <2>1. CASE Reap
    BY <2>1 DEF Reap, ClearStale
  <2>2. CASE RedisOutage \/ RedisLosesKey
    BY <2>2 DEF RedisOutage, RedisLosesKey
  <2>3. CASE Tick
    BY <2>3 DEF Tick, OnTime
  <2>4. CASE \E i \in Instances : Crash(i)
    BY <2>4 DEF Crash
  <2> QED BY <1>5, <2>1, <2>2, <2>3, <2>4 DEF Environment
<1>6. CASE UNCHANGED vars
  BY <1>6, <1>h DEF vars, pgVars, taskVars, HolderOwnsRow, Fresh, Holding, Slack, Own
<1> QED BY <1>1, <1>2, <1>3, <1>4, <1>5, <1>6 DEF Next

\* Under distinct run ids and the deadlines of WellTimed, every run that
\* drives the session owns its row.
THEOREM HolderOwnsRowAlways ==
  ASSUME DistinctRuns, WellTimed
  PROVE  Spec => []HolderOwnsRow
<1>1. Init => IInv
  BY InitType, InitInv DEF IInv
<1>2. IInv /\ [Next]_vars => IInv'
  BY NextType, NextInv DEF IInv
<1>3. IInv => HolderOwnsRow
  BY DEF IInv
<1> QED BY <1>1, <1>2, <1>3, PTL DEF Spec

\* ... hence no two runs drive it at once, whatever Redis and Postgres do.
THEOREM Exclusion ==
  ASSUME DistinctRuns, WellTimed
  PROVE  Spec => []MutualExclusion
<1>1. HolderOwnsRow => MutualExclusion
  BY OwnDistinct DEF HolderOwnsRow, MutualExclusion
<1> QED BY <1>1, HolderOwnsRowAlways, PTL

(***************************************************************************)
(* Who may clear the row: needs no deadline.                               *)
(***************************************************************************)

\* Under distinct run ids, no step but its owner's release and the reaper
\* takes the row from a run, however late the replicas are.
THEOREM OnlyOwnReleased ==
  ASSUME DistinctRuns
  PROVE  Spec => ReleaseOnlyOwn
<1>1. ASSUME TypeOK, [Next]_vars PROVE RowTaken
  <2> SUFFICES ASSUME NEW a \in Attempts, row = Own(a), row' # row, age <= StaleAfter
               PROVE  pc[a] = "relRow" /\ pc'[a] = "abort"
    BY <1>1, LeaseConstants DEF TypeOK, RowTaken
  <2>1. row # Free
    BY OwnIsLease, LeaseConstants
  <2>2. age \in Nat /\ StaleAfter \in Nat /\ pc \in [Attempts -> Driving \cup
          {"idle", "reap", "key", "row", "rollback", "abort", "over", "leaked", "crashed"}]
    BY <1>1, LeaseConstants DEF TypeOK
  <2>3. \A b \in Attempts : row.run = RunOf[b] => b = a
    BY DEF DistinctRuns, Own
  <2>4. ASSUME NEW b \in Attempts, Request(b) PROVE FALSE
    BY <2>1, <2>2, <2>4 DEF Request, Start, AcquireReap, AcquireKey, SkipKey, KeyRefused,
       AcquireRow, RowRefused, Rollback, ClearStale, pgVars
  <2>5. ASSUME NEW b \in Attempts,
               SetupDone(b) \/ SetupTouch(b) \/ EarlyExit(b) \/ Disconnect(b) \/ Beat(b)
        PROVE  FALSE
    BY <2>5 DEF SetupDone, SetupTouch, EarlyExit, Disconnect, Beat, BeatCancelled, BeatSkipKey,
       BeatGet, BeatRenew, BeatClaim, BeatTouch, pgVars
  <2>6. ASSUME NEW b \in Attempts, Exit(b) PROVE pc[a] = "relRow" /\ pc'[a] = "abort"
    <3>1. ReleaseRow(b)
      BY <2>6 DEF Exit, Unwind, RunEnds, FinishPersist, ParkPersist, ReleaseGet, ReleaseDel,
         AbortHeartbeat, pgVars
    <3> QED BY <2>2, <2>3, <3>1 DEF ReleaseRow, ClearRun, Goto, Driving
  <2>7. ASSUME Environment PROVE FALSE
    BY <2>2, <2>7 DEF Environment, Reap, RedisOutage, RedisLosesKey, Tick, Crash, pgVars
  <2> QED BY <1>1, <2>4, <2>5, <2>6, <2>7 DEF Next, vars, pgVars
<1>2. TypeOK /\ [Next]_vars => [RowTaken]_vars
  BY <1>1
<1> QED BY <1>2, TypeCorrect, PTL DEF Spec, ReleaseOnlyOwn

(***************************************************************************)
(* Refinement.                                                             *)
(***************************************************************************)
LEMMA PhaseValues ==
  /\ \A p \in Asking : PhaseOf(p) = "out"
  /\ \A p \in Driving : PhaseOf(p) = "in"
  /\ \A p \in {"rollback", "abort", "over", "leaked", "crashed"} : PhaseOf(p) = "gone"
BY DEF PhaseOf, Asking, Driving, Setup, Exits

\* The owner of the abstract lease, read off the row before and after a step.
LEMMA OwnerOfRow ==
  ASSUME DistinctRuns
  PROVE  /\ row = Free => Owner = Free
         /\ row' = Free => Owner' = Free
         /\ \A a \in Attempts : row = Own(a) => Owner = a
         /\ \A a \in Attempts : row' = Own(a) => Owner' = a
         /\ row' = row => Owner' = Owner
<1>1. \A a, b \in Attempts : Own(a) = Own(b) => a = b
  BY OwnDistinct
<1>2. \A a \in Attempts : Own(a) # Free
  BY OwnIsLease, LeaseConstants
<1>3. ASSUME NEW a \in Attempts
      PROVE  (CHOOSE b \in Attempts : Own(b) = Own(a)) = a
  BY <1>1
<1>4. ASSUME NEW a \in Attempts PROVE row = Own(a) => Owner = a
  BY <1>2, <1>3 DEF Owner
<1>5. ASSUME NEW a \in Attempts PROVE row' = Own(a) => Owner' = a
  BY <1>2, <1>3 DEF Owner
<1>6. (row = Free => Owner = Free) /\ (row' = Free => Owner' = Free)
  BY DEF Owner
<1>7. row' = row => Owner' = Owner
  BY DEF Owner, Own
<1> QED BY <1>4, <1>5, <1>6, <1>7

\* A step that leaves row and tree alone and only sends attempts away.
LEMMA QuietStep ==
  ASSUME DistinctRuns, TypeOK, TypeOK', row' = row, saved' = saved,
         \A a \in Attempts : PhaseOf(pc'[a]) \in {PhaseOf(pc[a]), "gone"}
  PROVE  Exclusive!Next
<1> DEFINE A == {a \in Attempts : PhaseOf(pc'[a]) = "gone"}
<1>1. Exclusive!Quit(A)
  BY OwnerOfRow DEF Exclusive!Quit, Phase
<1> QED BY <1>1 DEF Exclusive!Next

LEMMA NextRefines ==
  ASSUME DistinctRuns, WellTimed, IInv, TypeOK', [Next]_vars
  PROVE  [Exclusive!Next]_(Exclusive!vars)
<1>0. UNCHANGED vars => UNCHANGED Exclusive!vars
  BY DEF vars, pgVars, taskVars, Exclusive!vars, Owner, Phase, Own
<1> USE LeaseConstants, PhaseValues DEF pgVars, Goto
<1>t. /\ StaleAfter \in Nat /\ age \in Nat /\ due \in [Attempts -> Nat]
      /\ TypeOK /\ HolderOwnsRow
      /\ pc \in [Attempts -> Driving \cup Asking \cup
                   {"rollback", "abort", "over", "leaked", "crashed"}]
  BY DEF IInv, TypeOK, Asking
<1>s. /\ Driving = {"setup", "running", "finish", "park", "relGet", "relDel", "relRow"}
      /\ Asking = {"idle", "reap", "key", "row"}
  BY DEF Driving, Setup, Exits, Asking
<1>e. ASSUME row # Free, age > StaleAfter, row' = Free, saved' = saved,
             \A a \in Attempts : PhaseOf(pc'[a]) = PhaseOf(pc[a])
      PROVE  Exclusive!Next
  <2>1. \A a \in Attempts : ~Holding(a)
    BY <1>e, <1>t DEF HolderOwnsRow, Slack, WellTimed
  <2>2. \A a \in Attempts : Phase[a] # "in"
    BY <2>1, <1>t DEF Phase, Holding
  <2>3. Phase' = Phase
    BY <1>e DEF Phase
  <2> QED BY <1>e, <2>2, <2>3, OwnerOfRow DEF Exclusive!Next, Exclusive!Evict
<1>1. ASSUME NEW b \in Attempts, Request(b) PROVE Exclusive!Next
  <2>1. CASE Start(b) \/ AcquireKey(b) \/ SkipKey(b) \/ KeyRefused(b) \/ Rollback(b)
    BY <1>t, <1>s, <2>1, QuietStep DEF Start, AcquireKey, SkipKey, KeyRefused, Rollback
  <2>2. CASE AcquireReap(b)
    <3>1. \A a \in Attempts : PhaseOf(pc'[a]) = PhaseOf(pc[a])
      BY <1>t, <1>s, <2>2 DEF AcquireReap
    <3> QED BY <1>e, <1>t, <2>2, <3>1, QuietStep DEF AcquireReap, ClearStale
  <2>3. CASE AcquireRow(b)
    <3>1. Phase' = [Phase EXCEPT ![b] = "in"] /\ Phase[b] = "out"
      BY <1>t, <1>s, <2>3 DEF AcquireRow, Phase
    <3>2. Exclusive!Enter(b)
      BY <2>3, <3>1, OwnerOfRow DEF AcquireRow, Exclusive!Enter
    <3> QED BY <3>2 DEF Exclusive!Next
  <2>4. CASE RowRefused(b)
    <3>1. Phase' = [Phase EXCEPT ![b] = "gone"] /\ Phase[b] = "out"
      BY <1>t, <1>s, <2>4 DEF RowRefused, Phase
    <3>2. CASE row' = row
      BY <1>t, <1>s, <2>4, <3>2, QuietStep DEF RowRefused
    <3>3. CASE row' # row
      <4>1. Exclusive!Orphan(b)
        BY <2>4, <3>1, <3>3, OwnerOfRow DEF RowRefused, Exclusive!Orphan
      <4> QED BY <4>1 DEF Exclusive!Next
    <3> QED BY <3>2, <3>3
  <2> QED BY <1>1, <2>1, <2>2, <2>3, <2>4 DEF Request
<1>2. ASSUME NEW b \in Attempts,
             SetupDone(b) \/ SetupTouch(b) \/ EarlyExit(b) \/ Disconnect(b) \/ Beat(b)
      PROVE  Exclusive!Next
  <2>1. row' = row /\ saved' = saved
    BY <1>2 DEF SetupDone, SetupTouch, EarlyExit, Disconnect, Beat, BeatCancelled, BeatSkipKey,
       BeatGet, BeatRenew, BeatClaim, BeatTouch
  <2>2. \A a \in Attempts : PhaseOf(pc'[a]) \in {PhaseOf(pc[a]), "gone"}
    BY <1>2, <1>t, <1>s DEF SetupDone, SetupTouch, EarlyExit, Disconnect, Beat, BeatCancelled,
       BeatSkipKey, BeatGet, BeatRenew, BeatClaim, BeatTouch, taskVars
  <2> QED BY <1>t, <2>1, <2>2, QuietStep
<1>3. ASSUME NEW b \in Attempts, Exit(b) PROVE Exclusive!Next
  <2>1. CASE RunEnds(b) \/ ReleaseGet(b) \/ ReleaseDel(b) \/ AbortHeartbeat(b)
    BY <1>t, <1>s, <2>1, QuietStep DEF RunEnds, ReleaseGet, ReleaseDel, AbortHeartbeat
  <2>2. CASE FinishPersist(b) \/ ParkPersist(b)
    <3>1. /\ row' = row
          /\ saved' \in {saved, b}
          /\ Phase[b] = "in"
          /\ Phase' = Phase \/ Phase' = [Phase EXCEPT ![b] = "gone"]
      <4>1. pc[b] \in {"finish", "park"} /\ row' = row /\ saved' \in {saved, b}
        BY <2>2 DEF FinishPersist, ParkPersist
      <4>2. \/ pc' = [pc EXCEPT ![b] = "relGet"]
            \/ pc' = [pc EXCEPT ![b] = "leaked"]
        BY <2>2 DEF FinishPersist, ParkPersist
      <4>3. Phase[b] = "in"
        BY <1>s, <4>1 DEF Phase
      <4>4. ASSUME pc' = [pc EXCEPT ![b] = "relGet"] PROVE Phase' = Phase
        BY <1>t, <1>s, <4>1, <4>4 DEF Phase
      <4>5. ASSUME pc' = [pc EXCEPT ![b] = "leaked"]
            PROVE  Phase' = [Phase EXCEPT ![b] = "gone"]
        BY <1>t, <1>s, <4>5 DEF Phase
      <4> QED BY <4>1, <4>2, <4>3, <4>4, <4>5
    <3>2. CASE saved' = b
      <4>1. Exclusive!Save(b)
        BY <3>1, <3>2, OwnerOfRow DEF Exclusive!Save
      <4> QED BY <4>1 DEF Exclusive!Next
    <3>3. CASE saved' = saved
      <4>1. \A a \in Attempts : PhaseOf(pc'[a]) \in {PhaseOf(pc[a]), "gone"}
        BY <1>t, <1>s, <2>2 DEF FinishPersist, ParkPersist
      <4> QED BY <1>t, <3>1, <3>3, <4>1, QuietStep
    <3> QED BY <3>1, <3>2, <3>3
  <2>3. CASE ReleaseRow(b)
    <3>1. row = Own(b) /\ row # Free /\ row.run = RunOf[b]
      BY <1>t, <1>s, <2>3, OwnIsLease DEF ReleaseRow, HolderOwnsRow, Holding, Own
    <3>2. /\ Phase[b] = "in" /\ Phase' = [Phase EXCEPT ![b] = "gone"]
          /\ saved' = saved
          /\ \A a \in Attempts : PhaseOf(pc'[a]) \in {PhaseOf(pc[a]), "gone"}
      BY <1>t, <1>s, <2>3 DEF ReleaseRow, Phase
    <3>3. CASE row' = Free
      <4>1. Exclusive!Leave(b)
        BY <3>1, <3>2, <3>3, OwnerOfRow DEF Exclusive!Leave
      <4> QED BY <4>1 DEF Exclusive!Next
    <3>4. CASE row' = row
      BY <1>t, <3>2, <3>4, QuietStep
    <3> QED BY <2>3, <3>1, <3>3, <3>4 DEF ReleaseRow, ClearRun
  <2> QED BY <1>3, <2>1, <2>2, <2>3 DEF Exit, Unwind
<1>4. ASSUME Environment PROVE Exclusive!Next
  <2>1. CASE Reap
    BY <1>e, <2>1 DEF Reap, ClearStale, taskVars
  <2>2. CASE RedisOutage \/ RedisLosesKey \/ Tick \/ \E i \in Instances : Crash(i)
    <3>1. row' = row /\ saved' = saved
      BY <2>2 DEF RedisOutage, RedisLosesKey, Tick, Crash
    <3>2. \A a \in Attempts : PhaseOf(pc'[a]) \in {PhaseOf(pc[a]), "gone"}
      BY <2>2 DEF RedisOutage, RedisLosesKey, Tick, Crash, taskVars
    <3> QED BY <1>t, <3>1, <3>2, QuietStep
  <2> QED BY <1>4, <2>1, <2>2 DEF Environment
<1> QED BY <1>0, <1>1, <1>2, <1>3, <1>4 DEF Next

\* The detailed lease implements ExclusiveRun.
THEOREM Refinement ==
  ASSUME DistinctRuns, WellTimed
  PROVE  Spec => ImplementsExclusiveRun
<1>1. Init => Exclusive!Init
  BY PhaseValues DEF Init, Exclusive!Init, Owner, Phase, Asking
<1>2. IInv /\ TypeOK' /\ [Next]_vars => [Exclusive!Next]_(Exclusive!vars)
  BY NextRefines
<1>3. Init => IInv
  BY InitType, InitInv DEF IInv
<1>4. IInv /\ [Next]_vars => IInv'
  BY NextType, NextInv DEF IInv
<1>5. IInv' => TypeOK'
  BY DEF IInv
<1> QED BY <1>1, <1>2, <1>3, <1>4, <1>5, PTL
       DEF Spec, ImplementsExclusiveRun, Exclusive!Spec

(***************************************************************************)
(* The heartbeat of a healthy run.                                         *)
(***************************************************************************)

\* The deadlines keep the key of a run alive as well: it outlasts a set-up or
\* two heartbeats, and the release that may follow.
KeyTimed ==
  /\ MaxSetup + MaxUnwind < LeaseTTL
  /\ Heartbeat + Heartbeat + MaxUnwind < LeaseTTL

\* The attempts whose Redis key nobody else may hold or drop.
Keyed == {"row", "rollback", "setup", "running", "finish", "park", "relGet", "relDel"}

\* An attempt that asked Redis holds the key until it lets go of it, and the
\* key outlives its next obligation; a beat has renewed it just before.
KeyHeld ==
  \A a \in Attempts :
    InstOf[a] \in linked /\ pc[a] \in Keyed =>
      /\ key = Own(a) /\ due[a] + Slack(a) < ttl
      /\ hb[a] # "claim"
      /\ hb[a] \in Beating => due[a] <= Heartbeat
      /\ hb[a] = "touch" => due[a] + LeaseTTL <= ttl + Heartbeat

\* Only a linked replica beats on the key, and Redis answers.
Linked ==
  /\ reachable
  /\ \A a \in Attempts : hb[a] \in {"renew", "claim"} => InstOf[a] \in linked

\* A task that beats belongs to a run that began.
Begun == \A a \in Attempts : pc[a] \in {"row", "rollback", "setup"} => hb[a] = "none"

KeyInv == KeyHeld /\ Linked /\ Begun

LEMMA InitKeyInv == Init => KeyInv
BY DEF Init, KeyInv, KeyHeld, Linked, Begun, Keyed

LEMMA NextKeyInv ==
  ASSUME DistinctRuns, WellTimed, KeyTimed, RedisFaults = FALSE,
         IInv, TypeOK', KeyInv, [Next]_vars
  PROVE  KeyInv'
<1> USE LeaseConstants
<1>t. /\ MaxSetup \in Nat /\ MaxUnwind \in Nat /\ Heartbeat \in Nat /\ LeaseTTL \in Nat
      /\ MaxSetup + MaxUnwind < LeaseTTL /\ Heartbeat + Heartbeat + MaxUnwind < LeaseTTL
      /\ Punctual = TRUE
      /\ ttl \in Nat /\ ttl' \in Nat /\ ttl <= LeaseTTL
      /\ due \in [Attempts -> Nat] /\ due' \in [Attempts -> Nat]
      /\ pc \in [Attempts -> Driving \cup {"idle", "reap", "key", "row", "rollback",
                                           "abort", "over", "leaked", "crashed"}]
      /\ hb \in [Attempts -> Beating \cup {"none", "dead"}]
  BY DEF WellTimed, KeyTimed, IInv, TypeOK
<1>d. \A a, b \in Attempts : Own(a) = Own(b) => a = b
  BY OwnDistinct
<1>f. \A a \in Attempts : Own(a) # Free
  BY OwnIsLease
<1>h. KeyHeld /\ Linked /\ Begun
  BY DEF KeyInv
<1>n. \A a \in Attempts : Own(a)' = Own(a)
  BY DEF Own
<1>1. ASSUME NEW b \in Attempts, Request(b) PROVE KeyInv'
  <2> USE <1>t, <1>d, <1>f, <1>h, <1>n
          DEF KeyInv, KeyHeld, Linked, Begun, Keyed, Slack, Beating, Goto, Owes, pgVars,
              redisVars, taskVars, DropKey, RedisOk
  <2>1. CASE Start(b) \/ AcquireReap(b) \/ KeyRefused(b)
    <3>1. CASE Start(b)
      BY <3>1 DEF Start
    <3>2. CASE AcquireReap(b)
      BY <3>2 DEF AcquireReap
    <3>3. CASE KeyRefused(b)
      BY <3>3 DEF KeyRefused
    <3> QED BY <2>1, <3>1, <3>2, <3>3
  <2>2. CASE AcquireKey(b)
    <3>1. hb[b] = "none"
      BY <2>2 DEF AcquireKey, IInv, Fresh, Asking
    <3> QED BY <2>2, <3>1 DEF AcquireKey
  <2>3. CASE SkipKey(b)
    <3>1. hb[b] = "none"
      BY <2>3 DEF SkipKey, IInv, Fresh, Asking
    <3> QED BY <2>3, <3>1 DEF SkipKey
  <2>4. CASE AcquireRow(b) \/ RowRefused(b)
    <3>1. CASE AcquireRow(b)
      BY <3>1 DEF AcquireRow
    <3>2. CASE RowRefused(b)
      BY <3>2 DEF RowRefused
    <3> QED BY <2>4, <3>1, <3>2
  <2>5. CASE Rollback(b)
    BY <2>5 DEF Rollback
  <2> QED BY <1>1, <2>1, <2>2, <2>3, <2>4, <2>5 DEF Request
<1>2. ASSUME NEW b \in Attempts, SetupDone(b) \/ SetupTouch(b) \/ EarlyExit(b) \/ Disconnect(b)
      PROVE  KeyInv'
  <2> USE <1>t, <1>h, <1>n
          DEF KeyInv, KeyHeld, Linked, Begun, Keyed, Slack, Beating, Goto, Owes, pgVars,
              redisVars, taskVars
  <2>1. CASE SetupDone(b)
    BY <2>1 DEF SetupDone
  <2>2. CASE SetupTouch(b) \/ Disconnect(b)
    BY <2>2 DEF SetupTouch, Disconnect
  <2>3. CASE EarlyExit(b)
    BY <2>3 DEF EarlyExit
  <2> QED BY <1>2, <2>1, <2>2, <2>3
<1>3. ASSUME NEW b \in Attempts, Exit(b) PROVE KeyInv'
  <2> USE <1>t, <1>d, <1>h, <1>n
          DEF KeyInv, KeyHeld, Linked, Begun, Keyed, Slack, Beating, Goto, Owes, pgVars,
              redisVars, taskVars, DropKey, RedisOk
  <2>1. CASE RunEnds(b)
    BY <2>1 DEF RunEnds
  <2>2. CASE FinishPersist(b) \/ ParkPersist(b)
    <3>1. CASE FinishPersist(b)
      BY <3>1 DEF FinishPersist
    <3>2. CASE ParkPersist(b)
      BY <3>2 DEF ParkPersist
    <3> QED BY <2>2, <3>1, <3>2
  <2>3. CASE ReleaseGet(b)
    BY <2>3 DEF ReleaseGet
  <2>4. CASE ReleaseDel(b)
    BY <2>4 DEF ReleaseDel
  <2>5. CASE ReleaseRow(b) \/ AbortHeartbeat(b)
    <3>1. CASE ReleaseRow(b)
      BY <3>1 DEF ReleaseRow
    <3>2. CASE AbortHeartbeat(b)
      BY <3>2 DEF AbortHeartbeat
    <3> QED BY <2>5, <3>1, <3>2
  <2> QED BY <1>3, <2>1, <2>2, <2>3, <2>4, <2>5 DEF Exit, Unwind
<1>4. ASSUME NEW b \in Attempts, Beat(b) PROVE KeyInv'
  <2> USE <1>t, <1>d, <1>f, <1>h, <1>n
          DEF KeyInv, KeyHeld, Linked, Begun, Keyed, Slack, Beating, BeatGoto, Owes, pgVars,
              redisVars, taskVars, BeatStops, BeatLost, RedisOk
  <2>1. CASE BeatCancelled(b) \/ BeatSkipKey(b)
    <3>1. CASE BeatCancelled(b)
      BY <3>1 DEF BeatCancelled
    <3>2. CASE BeatSkipKey(b)
      BY <3>2 DEF BeatSkipKey
    <3> QED BY <2>1, <3>1, <3>2
  <2>2. CASE BeatGet(b)
    BY <2>2 DEF BeatGet, Seen
  <2>3. CASE BeatRenew(b)
    BY <2>3 DEF BeatRenew
  <2>4. CASE BeatClaim(b)
    BY <2>4 DEF BeatClaim
  <2>5. CASE BeatTouch(b)
    BY <2>5 DEF BeatTouch
  <2> QED BY <1>4, <2>1, <2>2, <2>3, <2>4, <2>5 DEF Beat
<1>5. ASSUME Environment PROVE KeyInv'
  <2> USE <1>t, <1>h, <1>n
          DEF KeyInv, KeyHeld, Linked, Begun, Keyed, Slack, Beating, pgVars, redisVars, taskVars
  <2>1. CASE Reap
    BY <2>1 DEF Reap
  <2>2. CASE RedisOutage \/ RedisLosesKey
    BY <2>2 DEF RedisOutage, RedisLosesKey
  <2>3. CASE Tick
    BY <2>3 DEF Tick, OnTime, Driving, Setup, Exits
  <2>4. CASE \E i \in Instances : Crash(i)
    BY <2>4 DEF Crash
  <2> QED BY <1>5, <2>1, <2>2, <2>3, <2>4 DEF Environment
<1>6. CASE UNCHANGED vars
  BY <1>6, <1>h, <1>n DEF vars, redisVars, taskVars, KeyInv, KeyHeld, Linked, Begun, Slack
<1> QED BY <1>1, <1>2, <1>3, <1>4, <1>5, <1>6 DEF Next

\* Under distinct run ids and the deadlines, and without faults, the heartbeat
\* never cancels a run that is not yet releasing, whatever other requests try
\* (quota.rs heartbeat, acquire_lease and its rollback).
THEOREM HeartbeatsHold ==
  ASSUME DistinctRuns, WellTimed, KeyTimed, RedisFaults = FALSE, PgFaults = FALSE
  PROVE  Spec => HealthyRunKeepsLease
<1> DEFINE Healthy ==
      \A a \in Attempts :
        /\ pc[a] \in {"setup", "running", "finish", "park"}
        /\ a \notin cancelled /\ a \in cancelled'
        => hb'[a] = hb[a]
<1>1. IInv /\ KeyInv /\ [Next]_vars => Healthy
  <2> SUFFICES ASSUME IInv, KeyInv, [Next]_vars,
                      NEW a \in Attempts, pc[a] \in {"setup", "running", "finish", "park"},
                      a \notin cancelled, a \in cancelled'
               PROVE  hb'[a] = hb[a]
    OBVIOUS
  <2>t. /\ hb \in [Attempts -> Beating \cup {"none", "dead"}]
        /\ row = Own(a) /\ row # Free /\ row.run = RunOf[a] /\ reachable
    BY OwnIsLease, LeaseConstants
       DEF IInv, TypeOK, HolderOwnsRow, Holding, Driving, Setup, Exits, Own, KeyInv, Linked
  <2>1. ASSUME NEW b \in Attempts, Beat(b)
        PROVE  FALSE
    <3> USE <2>t DEF BeatLost, BeatStops, BeatGoto, redisVars, taskVars
    <3>1. b = a
      BY <2>1 DEF Beat, BeatCancelled, BeatSkipKey, BeatGet, BeatRenew, BeatClaim, BeatTouch
    <3>2. CASE BeatCancelled(a) \/ BeatSkipKey(a)
      BY <3>2 DEF BeatCancelled, BeatSkipKey
    <3>3. CASE BeatGet(a)
      BY <3>3 DEF BeatGet, Seen, KeyInv, KeyHeld, Keyed
    <3>4. CASE BeatRenew(a)
      BY <3>4, OwnIsLease, LeaseConstants DEF BeatRenew, RedisOk, KeyInv, KeyHeld, Linked, Keyed
    <3>5. CASE BeatClaim(a)
      BY <3>5 DEF BeatClaim, KeyInv, KeyHeld, Linked, Keyed
    <3>6. CASE BeatTouch(a)
      BY <3>6 DEF BeatTouch, TouchRun
    <3> QED BY <2>1, <3>1, <3>2, <3>3, <3>4, <3>5, <3>6 DEF Beat
  <2>2. ASSUME NEW b \in Attempts,
               Request(b) \/ SetupDone(b) \/ SetupTouch(b) \/ EarlyExit(b) \/ Exit(b)
        PROVE  FALSE
    BY <2>2 DEF Request, Start, AcquireReap, AcquireKey, SkipKey, KeyRefused, AcquireRow,
       RowRefused, Rollback, SetupDone, SetupTouch, EarlyExit, Exit, Unwind, RunEnds,
       FinishPersist, ParkPersist, ReleaseGet, ReleaseDel, ReleaseRow, AbortHeartbeat, taskVars
  <2>3. ASSUME NEW b \in Attempts, Disconnect(b)
        PROVE  hb'[a] = hb[a]
    BY <2>3 DEF Disconnect
  <2>4. ASSUME Environment PROVE FALSE
    BY <2>4 DEF Environment, Reap, RedisOutage, RedisLosesKey, Tick, Crash, taskVars
  <2> QED BY <2>1, <2>2, <2>3, <2>4 DEF Next, vars, taskVars
<1>2. Init => IInv /\ KeyInv
  BY InitType, InitInv, InitKeyInv DEF IInv
<1>3. IInv /\ [Next]_vars => IInv'
  BY NextType, NextInv DEF IInv
<1>4. IInv /\ KeyInv /\ [Next]_vars => KeyInv'
  BY <1>3, NextKeyInv DEF IInv
<1>5. Spec => [][Healthy]_vars
  BY <1>1, <1>2, <1>3, <1>4, PTL DEF Spec
<1> QED BY <1>5 DEF HealthyRunKeepsLease
=============================================================================
