------------------------------ MODULE RunLease ------------------------------
(***************************************************************************)
(* The run lease of one session of the control plane (crates/rupi-server). *)
(*                                                                         *)
(* A request to run the agent on a session may reach any replica.  The     *)
(* session's row in Postgres carries the pair (run_id, instance_id) of the *)
(* run in progress, a Redis key carries the same pair with a TTL, a        *)
(* heartbeat task of the run renews both every HEARTBEAT_SECS, and any     *)
(* replica clears a row that nobody has updated for 180 seconds.  Every    *)
(* call to Postgres or Redis is one action, so that the steps of requests, *)
(* heartbeats, the reaper and the clock interleave as they do in the code. *)
(*                                                                         *)
(* Time is counted in ticks: `age' is the time since sessions.updated_at,  *)
(* `ttl' the time the Redis key has left, `due[a]' the time attempt a has  *)
(* left for its next obligation (first heartbeat, next heartbeat, end of   *)
(* the run once it is cancelled).  If Punctual, the clock waits for        *)
(* obligations; otherwise a replica may be arbitrarily slow.               *)
(***************************************************************************)
EXTENDS Naturals

CONSTANTS
  Attempts,     \* requests to run the agent on this session
  Instances,    \* replicas of the control plane (App.instance_id)
  Runs,         \* run ids the clients send (RunAgentInput.run_id)
  RunOf,        \* the run id of an attempt: a retry may reuse one
  InstOf,       \* the replica that serves an attempt
  Free,         \* no lease: run_id IS NULL, or no Redis key
  LeaseTTL,     \* LEASE_TTL_SECS
  StaleAfter,   \* the argument of reap_stale_runs
  Heartbeat,    \* HEARTBEAT_SECS
  MaxSetup,     \* bound on the time from the lease to the first heartbeat
  MaxUnwind,    \* bound on the time from the last heartbeat to the release
  Punctual,     \* whether replicas meet these bounds
  RedisFaults,  \* whether Redis may be unreachable or lose the key
  PgFaults      \* whether a statement of Postgres may fail

Leases == [run : Runs, inst : Instances]

ASSUME LeaseConstants ==
  /\ RunOf \in [Attempts -> Runs]
  /\ InstOf \in [Attempts -> Instances]
  /\ Free \notin Leases
  /\ LeaseTTL \in Nat \ {0}
  /\ {StaleAfter, Heartbeat, MaxSetup, MaxUnwind} \subseteq Nat
  /\ {Punctual, RedisFaults, PgFaults} \subseteq BOOLEAN

VARIABLES
  row,        \* (run_id, instance_id) of the session's row, or Free
  age,        \* ticks since updated_at, counted up to StaleAfter + 1
  saved,      \* the attempt whose tree was persisted last, or Free
  key,        \* the payload of the Redis lease key, or Free
  ttl,        \* ticks until the key expires
  linked,     \* the replicas whose Cache.redis is Some
  reachable,  \* Redis answers
  pc,         \* where an attempt is between start_run and the end of drive
  hb,         \* where the attempt's heartbeat task is
  cancelled,  \* the attempts whose CancelFlag is set
  due         \* ticks the attempt has left for its next obligation

pgVars == <<row, age, saved>>
redisVars == <<key, ttl, linked, reachable>>
taskVars == <<pc, hb, cancelled, due>>
vars == <<pgVars, redisVars, taskVars>>

Setup   == {"setup"}
Exits   == {"finish", "park", "relGet", "relDel", "relRow"}
Driving == Setup \cup {"running"} \cup Exits
Beating == {"wait", "renew", "claim", "touch"}

\* An attempt between its successful acquire and the end of its release.
Holding(a) == pc[a] \in Driving

Own(a) == [run |-> RunOf[a], inst |-> InstOf[a]]

\* A Redis command of a's replica succeeds.
RedisOk(a) == InstOf[a] \in linked /\ reachable

\* cache.get: an unreachable Redis reads like a missing key.
Seen == IF reachable THEN key ELSE Free

TypeOK ==
  /\ row \in Leases \cup {Free}
  /\ age \in 0..(StaleAfter + 1)
  /\ saved \in Attempts \cup {Free}
  /\ key \in Leases \cup {Free}
  /\ ttl \in 0..LeaseTTL
  /\ linked \in SUBSET Instances
  /\ reachable \in BOOLEAN
  /\ pc \in [Attempts -> Driving \cup {"idle", "reap", "key", "row", "rollback",
                                       "abort", "over", "leaked", "crashed"}]
  /\ hb \in [Attempts -> Beating \cup {"none", "dead"}]
  /\ cancelled \subseteq Attempts
  /\ due \in [Attempts -> Nat]

Init ==
  /\ row = Free /\ age = 0 /\ saved = Free
  /\ key = Free /\ ttl = 0
  /\ linked \in SUBSET Instances
  /\ reachable = TRUE
  /\ pc = [a \in Attempts |-> "idle"]
  /\ hb = [a \in Attempts |-> "none"]
  /\ cancelled = {}
  /\ due = [a \in Attempts |-> 0]

\* DEL.
DropKey == key' = Free /\ ttl' = 0

\* a's next obligation is n ticks away (only a punctual replica has any).
Owes(a, n) == due' = [due EXCEPT ![a] = IF Punctual THEN n ELSE 0]

Goto(a, from, to) == pc[a] = from /\ pc' = [pc EXCEPT ![a] = to]

(***************************************************************************)
(* acquire_lease: reap, SET NX, conditional UPDATE, rollback on failure.   *)
(***************************************************************************)
Start(a) ==
  /\ Goto(a, "idle", "reap")
  /\ UNCHANGED <<pgVars, redisVars, hb, cancelled, due>>

\* Mutant: a row counts as stale after one missed heartbeat.
ClearStaleEarly ==
  IF row # Free /\ age > 0
    THEN row' = Free /\ age' = 0
    ELSE UNCHANGED <<row, age>>

\* UPDATE sessions SET run_id = NULL WHERE updated_at is too old.
ClearStale ==
  IF row # Free /\ age > StaleAfter
    THEN row' = Free /\ age' = 0
    ELSE UNCHANGED <<row, age>>

AcquireReap(a) ==
  /\ Goto(a, "reap", "key")
  /\ ClearStale
  /\ UNCHANGED <<saved, redisVars, hb, cancelled, due>>

\* Mutant: SET without NX.
OverwriteKey(a) ==
  /\ Goto(a, "key", "row")
  /\ RedisOk(a)
  /\ key' = Own(a) /\ ttl' = LeaseTTL
  /\ Owes(a, MaxSetup)
  /\ UNCHANGED <<pgVars, linked, reachable, hb, cancelled>>

AcquireKey(a) ==
  /\ Goto(a, "key", "row")
  /\ RedisOk(a) /\ key = Free
  /\ key' = Own(a) /\ ttl' = LeaseTTL
  /\ Owes(a, MaxSetup)
  /\ UNCHANGED <<pgVars, linked, reachable, hb, cancelled>>

\* No Redis handle: Postgres alone decides.
SkipKey(a) ==
  /\ Goto(a, "key", "row")
  /\ InstOf[a] \notin linked
  /\ Owes(a, MaxSetup)
  /\ UNCHANGED <<pgVars, redisVars, hb, cancelled>>

\* SET NX finds a key, or fails because Redis does not answer.
KeyRefused(a) ==
  /\ Goto(a, "key", "over")
  /\ InstOf[a] \in linked
  /\ ~(reachable /\ key = Free)
  /\ UNCHANGED <<pgVars, redisVars, hb, cancelled, due>>

\* Mutant: the UPDATE without its condition on run_id.
TakeRow(a) ==
  /\ Goto(a, "row", "setup")
  /\ row' = Own(a) /\ age' = 0
  /\ UNCHANGED <<saved, redisVars, hb, cancelled, due>>

AcquireRow(a) ==
  /\ Goto(a, "row", "setup")
  /\ row = Free
  /\ row' = Own(a) /\ age' = 0
  /\ UNCHANGED <<saved, redisVars, hb, cancelled, due>>

\* The row is taken, or the statement fails: before or after its commit.
RowRefused(a) ==
  /\ Goto(a, "row", "rollback")
  /\ \/ row # Free /\ UNCHANGED <<row, age>>
     \/ PgFaults /\ UNCHANGED <<row, age>>
     \/ PgFaults /\ row = Free /\ row' = Own(a) /\ age' = 0
  /\ UNCHANGED <<saved, redisVars, hb, cancelled, due>>

\* cache.del(&key), whoever's key it is; then release_run and 409.
Rollback(a) ==
  /\ Goto(a, "rollback", "over")
  /\ IF RedisOk(a) THEN DropKey ELSE UNCHANGED <<key, ttl>>
  /\ UNCHANGED <<pgVars, linked, reachable, hb, cancelled, due>>

(***************************************************************************)
(* drive: set up, run, and one of its exits.                               *)
(***************************************************************************)

\* apply_state, load_tree and ensure_hot succeed; touch_session (its error
\* is dropped); the heartbeat task is spawned and its first tick is due.
SetupDone(a) ==
  /\ Goto(a, "setup", "running")
  /\ hb' = [hb EXCEPT ![a] = "wait"]
  /\ Owes(a, 0)
  /\ age' \in {0} \cup (IF PgFaults THEN {age} ELSE {})
  /\ UNCHANGED <<row, saved, redisVars, cancelled>>

\* Some UPDATE of the set-up refreshes updated_at (apply_state, mark_hot).
SetupTouch(a) ==
  /\ pc[a] = "setup"
  /\ age' = 0
  /\ UNCHANGED <<row, saved, redisVars, taskVars>>

\* A `?' of drive: it returns Err, nothing is released, the heartbeat task
\* (if spawned) goes on.
EarlyExit(a) ==
  /\ pc[a] \in {"setup", "running"}
  /\ pc' = [pc EXCEPT ![a] = "leaked"]
  /\ UNCHANGED <<pgVars, redisVars, hb, cancelled, due>>

\* The agent loop returns: with a pending interrupt ("park") or without.
RunEnds(a) ==
  /\ pc[a] = "running"
  /\ \E exit \in {"finish", "park"} : pc' = [pc EXCEPT ![a] = exit]
  /\ UNCHANGED <<pgVars, redisVars, hb, cancelled, due>>

\* finish: persist_tree, its error dropped.
FinishPersist(a) ==
  /\ Goto(a, "finish", "relGet")
  /\ \/ saved' = a /\ age' = 0
     \/ PgFaults /\ UNCHANGED <<saved, age>>
  /\ UNCHANGED <<row, redisVars, hb, cancelled, due>>

\* The interrupt path: insert_interrupt, persist_tree and load_tree, with `?'.
ParkPersist(a) ==
  /\ pc[a] = "park"
  /\ \/ /\ pc' = [pc EXCEPT ![a] = "relGet"]
        /\ saved' = a /\ age' = 0
     \/ /\ PgFaults
        /\ pc' = [pc EXCEPT ![a] = "leaked"]
        /\ \/ saved' = a /\ age' = 0
           \/ UNCHANGED <<saved, age>>
  /\ UNCHANGED <<row, redisVars, hb, cancelled, due>>

(***************************************************************************)
(* release_lease: GET, DEL if it is ours, clear_run_id.                    *)
(***************************************************************************)
ReleaseGet(a) ==
  /\ pc[a] = "relGet"
  /\ pc' = [pc EXCEPT ![a] =
              IF RedisOk(a) /\ key = Own(a) THEN "relDel" ELSE "relRow"]
  /\ UNCHANGED <<pgVars, redisVars, hb, cancelled, due>>

ReleaseDel(a) ==
  /\ Goto(a, "relDel", "relRow")
  /\ IF RedisOk(a) THEN DropKey ELSE UNCHANGED <<key, ttl>>
  /\ UNCHANGED <<pgVars, linked, reachable, hb, cancelled, due>>

\* Mutant: the release does not look whose run the row holds.
ClearAnyRun(a) ==
  IF row # Free
    THEN row' = Free /\ age' = 0
    ELSE UNCHANGED <<row, age>>

\* clear_run_id: WHERE run_id = $3, the instance is not compared.
ClearRun(a) ==
  IF row # Free /\ row.run = RunOf[a]
    THEN row' = Free /\ age' = 0
    ELSE UNCHANGED <<row, age>>

ReleaseRow(a) ==
  /\ Goto(a, "relRow", "abort")
  /\ ClearRun(a) \/ (PgFaults /\ UNCHANGED <<row, age>>)
  /\ UNCHANGED <<saved, redisVars, hb, cancelled, due>>

\* hb.abort(), after release_run's round trip.
AbortHeartbeat(a) ==
  /\ Goto(a, "abort", "over")
  /\ hb' = [hb EXCEPT ![a] = "dead"]
  /\ UNCHANGED <<pgVars, redisVars, cancelled, due>>

(***************************************************************************)
(* The heartbeat task, one Redis or Postgres call at a time.               *)
(***************************************************************************)
BeatGoto(a, from, to) == hb[a] = from /\ hb' = [hb EXCEPT ![a] = to]

\* The task ends; what is left of the run now has MaxUnwind ticks.
BeatStops(a) ==
  /\ hb' = [hb EXCEPT ![a] = "dead"]
  /\ Owes(a, MaxUnwind)

\* heartbeat returned false: the run is cancelled.
BeatLost(a) ==
  /\ BeatStops(a)
  /\ cancelled' = cancelled \cup {a}

BeatCancelled(a) ==
  /\ hb[a] = "wait" /\ a \in cancelled
  /\ BeatStops(a)
  /\ UNCHANGED <<pgVars, redisVars, pc, cancelled>>

BeatSkipKey(a) ==
  /\ BeatGoto(a, "wait", "touch")
  /\ a \notin cancelled /\ InstOf[a] \notin linked
  /\ UNCHANGED <<pgVars, redisVars, pc, cancelled, due>>

BeatGet(a) ==
  /\ hb[a] = "wait" /\ a \notin cancelled /\ InstOf[a] \in linked
  /\ CASE Seen = Own(a) -> /\ hb' = [hb EXCEPT ![a] = "renew"]
                           /\ UNCHANGED <<cancelled, due>>
       [] Seen = Free   -> /\ hb' = [hb EXCEPT ![a] = "claim"]
                           /\ UNCHANGED <<cancelled, due>>
       [] OTHER         -> BeatLost(a)
  /\ UNCHANGED <<pgVars, redisVars, pc>>

\* Mutant: the TTL is added to what is left.
BeatExtend(a) ==
  /\ hb[a] = "renew"
  /\ RedisOk(a) /\ key # Free
  /\ ttl' = ttl + LeaseTTL
  /\ hb' = [hb EXCEPT ![a] = "touch"]
  /\ UNCHANGED <<pgVars, key, linked, reachable, pc, cancelled, due>>

\* EXPIRE: it renews whatever key is there now.
BeatRenew(a) ==
  /\ hb[a] = "renew"
  /\ IF RedisOk(a) /\ key # Free
       THEN /\ ttl' = LeaseTTL
            /\ hb' = [hb EXCEPT ![a] = "touch"]
            /\ UNCHANGED <<cancelled, due>>
       ELSE BeatLost(a) /\ UNCHANGED ttl
  /\ UNCHANGED <<pgVars, key, linked, reachable, pc>>

\* Redis lost the key: SET NX again.
BeatClaim(a) ==
  /\ hb[a] = "claim"
  /\ IF RedisOk(a) /\ key = Free
       THEN /\ key' = Own(a) /\ ttl' = LeaseTTL
            /\ hb' = [hb EXCEPT ![a] = "touch"]
            /\ UNCHANGED <<cancelled, due>>
       ELSE BeatLost(a) /\ UNCHANGED <<key, ttl>>
  /\ UNCHANGED <<pgVars, linked, reachable, pc>>

\* Mutant: the number of updated rows is not looked at.
TouchAlways(a) == TRUE

\* touch_run: WHERE run_id = $3.
TouchRun(a) == row # Free /\ row.run = RunOf[a]

\* Mutant: updated_at is not refreshed.
BeatPing(a) ==
  /\ hb[a] = "touch" /\ TouchRun(a)
  /\ hb' = [hb EXCEPT ![a] = "wait"]
  /\ Owes(a, Heartbeat)
  /\ UNCHANGED <<pgVars, redisVars, pc, cancelled>>

BeatTouch(a) ==
  /\ hb[a] = "touch"
  /\ \/ /\ TouchRun(a)
        /\ age' = 0
        /\ hb' = [hb EXCEPT ![a] = "wait"]
        /\ Owes(a, Heartbeat)
        /\ UNCHANGED cancelled
     \/ /\ ~TouchRun(a) \/ PgFaults
        /\ BeatLost(a)
        /\ UNCHANGED age
  /\ UNCHANGED <<row, saved, redisVars, pc>>

(***************************************************************************)
(* The environment: clients, the reaper of any replica, crashes, Redis and *)
(* the clock.                                                              *)
(***************************************************************************)

\* CancelOnDrop: the client goes away, or the stream ends after drive.
Disconnect(a) ==
  /\ pc[a] \in Driving \cup {"abort", "leaked"}
  /\ a \notin cancelled
  /\ cancelled' = cancelled \cup {a}
  /\ UNCHANGED <<pgVars, redisVars, pc, hb, due>>

\* Mutant: no replica runs the loop (idle.enabled is off).
NoReaper == FALSE /\ UNCHANGED vars

\* loop_forever of some replica: reap_stale_runs.
Reap ==
  /\ row # Free /\ age > StaleAfter
  /\ ClearStale
  /\ UNCHANGED <<saved, redisVars, taskVars>>

Crash(i) ==
  LET dead == {a \in Attempts : InstOf[a] = i /\ pc[a] \notin {"idle", "over", "crashed"}}
  IN  /\ dead # {}
      /\ pc' = [a \in Attempts |-> IF a \in dead THEN "crashed" ELSE pc[a]]
      /\ hb' = [a \in Attempts |-> IF a \in dead THEN "dead" ELSE hb[a]]
      /\ UNCHANGED <<pgVars, redisVars, cancelled, due>>

\* Redis stops or resumes answering; the key's TTL runs on.
RedisOutage ==
  /\ RedisFaults
  /\ reachable' = ~reachable
  /\ UNCHANGED <<pgVars, key, ttl, linked, taskVars>>

\* Eviction, or a restart of a Redis without persistence.
RedisLosesKey ==
  /\ RedisFaults /\ key # Free
  /\ DropKey
  /\ UNCHANGED <<pgVars, linked, reachable, taskVars>>

\* What must happen before the clock may pass a's deadline.
OnTime(a) == pc[a] \in Driving \cup {"row", "rollback"} => due[a] > 0

Tick ==
  /\ Punctual => \A a \in Attempts : OnTime(a)
  /\ age' = IF age > StaleAfter THEN age ELSE age + 1
  /\ ttl' = IF ttl = 0 THEN 0 ELSE ttl - 1
  /\ key' = IF ttl <= 1 THEN Free ELSE key
  /\ due' = [a \in Attempts |-> IF due[a] = 0 THEN 0 ELSE due[a] - 1]
  /\ UNCHANGED <<row, saved, linked, reachable, pc, hb, cancelled>>

Request(a) ==
  \/ Start(a) \/ AcquireReap(a) \/ AcquireKey(a) \/ SkipKey(a) \/ KeyRefused(a)
  \/ AcquireRow(a) \/ RowRefused(a) \/ Rollback(a)

Unwind(a) ==
  \/ FinishPersist(a) \/ ParkPersist(a)
  \/ ReleaseGet(a) \/ ReleaseDel(a) \/ ReleaseRow(a) \/ AbortHeartbeat(a)

Exit(a) == RunEnds(a) \/ Unwind(a)

Beat(a) ==
  \/ BeatCancelled(a) \/ BeatSkipKey(a) \/ BeatGet(a)
  \/ BeatRenew(a) \/ BeatClaim(a) \/ BeatTouch(a)

Environment ==
  \/ Reap \/ RedisOutage \/ RedisLosesKey \/ Tick
  \/ \E i \in Instances : Crash(i)

Next ==
  \/ \E a \in Attempts : \/ Request(a) \/ SetupDone(a) \/ SetupTouch(a) \/ EarlyExit(a)
                         \/ Exit(a) \/ Beat(a) \/ Disconnect(a)
  \/ Environment

Spec == Init /\ [][Next]_vars

\* What the runtime owes: a spawned task goes on, a loop ticks, time passes,
\* and a client whose stream has ended lets go of it.  It does not owe that
\* the agent loop returns: no RunEnds.
Fairness ==
  /\ WF_vars(Tick) /\ WF_vars(Reap)
  /\ \A a \in Attempts :
       /\ WF_vars(pc[a] # "idle" /\ Request(a))
       /\ WF_vars(SetupDone(a)) /\ WF_vars(Unwind(a))
       /\ WF_vars(Beat(a))
       /\ WF_vars(pc[a] \in {"leaked", "abort"} /\ Disconnect(a))

LiveSpec == Spec /\ Fairness

(***************************************************************************)
(* Properties.                                                             *)
(***************************************************************************)

\* The clients never reuse a run id on this session.
DistinctRuns == \A a, b \in Attempts : RunOf[a] = RunOf[b] => a = b

\* The deadlines keep a run's row younger than the reaper's limit.
WellTimed ==
  /\ Punctual
  /\ MaxSetup + MaxUnwind <= StaleAfter
  /\ Heartbeat + MaxUnwind <= StaleAfter

\* At most one run drives the session at a time: sets it up, runs the agent
\* loop, writes the tree or releases (quota.rs acquire_lease, run.rs drive).
MutualExclusion ==
  \A a, b \in Attempts : Holding(a) /\ Holding(b) => a = b

\* A run that drives the session owns the row, and its obligations come due
\* before the reaper may clear it (db.rs reap_stale_runs, touch_run).
Slack(a) == IF hb[a] = "dead" THEN 0 ELSE MaxUnwind
HolderOwnsRow ==
  \A a \in Attempts :
    Holding(a) => row = Own(a) /\ age + due[a] + Slack(a) <= StaleAfter

\* A row changes hands only by its owner's release or by the reaper: a late
\* finish never clears the lease of another replica (quota.rs release_lease).
RowTaken ==
  \A a \in Attempts :
    row = Own(a) /\ row' # row => \/ age > StaleAfter
                                 \/ (pc[a] = "relRow" /\ pc'[a] = "abort")
ReleaseOnlyOwn == [][RowTaken]_vars

\* Without faults, the heartbeat of a run that is not yet releasing never
\* cancels it, not even while other requests try for the lease: a cancelled
\* flag is the client's doing (quota.rs heartbeat, acquire_lease).
HealthyRunKeepsLease ==
  [][\A a \in Attempts :
       /\ pc[a] \in {"setup", "running", "finish", "park"}
       /\ a \notin cancelled /\ a \in cancelled'
       => hb'[a] = hb[a]]_vars

\* A run that has lost the row to the reaper is told so: its heartbeat
\* cancels it, though its agent loop may hang (run.rs drive, heartbeat task).
LoserIsCancelled ==
  \A a \in Attempts :
    (pc[a] = "running" /\ row # Own(a)) ~> (a \in cancelled \/ pc[a] # "running")

\* No lease outlives its run: once a run has finished, failed or crashed, its
\* row and its key are gone some day (db.rs reap_stale_runs, the TTL).
LeaseEnds ==
  \A a \in Attempts :
    (pc[a] # "running" /\ (row = Own(a) \/ key = Own(a)))
      ~> (pc[a] = "running" \/ (row # Own(a) /\ key # Own(a)))
=============================================================================
