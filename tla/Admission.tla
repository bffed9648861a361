----------------------------- MODULE Admission -----------------------------
(***************************************************************************)
(* The quota on a tenant's concurrent runs: admit_run, release_run and     *)
(* reconcile over the counter in Redis and the leased rows in Postgres.    *)
(* Each run belongs to a session of its own, so that its lease is refused  *)
(* only when another request of that session has it.                       *)
(***************************************************************************)
EXTENDS Integers, FiniteSets

CONSTANTS Attempts,  \* the requests of one tenant
          Max,       \* max_concurrent_runs
          MaxQps,    \* max_qps
          Overlap    \* what may overlap an admission or the end of a run:
                     \* "reconcile", "admit" (another one, without Redis),
                     \* "correct" (another one, while the counter lags)

VARIABLES conc,     \* the counter of running runs
          qps,      \* the counter of the current second
          leased,   \* the attempts whose sessions hold a run id
          pa,       \* where each attempt is
          active,   \* the number of leased rows each attempt has read
          redis,    \* Redis answers
          tallied   \* what reconcile has counted, or -1

admVars == <<conc, qps, leased, pa, active, redis, tallied>>

Init ==
  /\ conc = 0 /\ qps = 0 /\ leased = {} /\ tallied = -1
  /\ pa = [a \in Attempts |-> "idle"]
  /\ active = [a \in Attempts |-> 0]
  /\ redis \in BOOLEAN

TypeOK ==
  /\ conc \in Int /\ qps \in Nat /\ tallied \in Int /\ redis \in BOOLEAN
  /\ leased \subseteq Attempts
  /\ active \in [Attempts -> Nat]

\* The local copy of the count is gone once it was compared.
Forget(a) == active' = [active EXCEPT ![a] = 0]

Goto(a, from, to) == pa[a] = from /\ pa' = [pa EXCEPT ![a] = to]

\* Attempts between the count of the rows and their own row, or between giving
\* the row back and the counter.
Amid == {a \in Attempts : pa[a] \in {"counted", "raised", "undo", "paced", "admitted", "giveback"}}

\* Without the overlap a reconcile is over before an admission or a run's end.
Undisturbed == "reconcile" \in Overlap \/ tallied = -1

\* A lagging counter counts less than the slots taken (the key was lost); then,
\* and while one attempt corrects the counter, admissions wait for each other.
Slots ==
  {a \in Attempts : pa[a] \in {"undo", "paced", "admitted", "running", "giveback", "lost"}}
Alone(a) ==
  \/ "correct" \in Overlap
  \/ /\ \A b \in Attempts \ {a} : pa[b] # "raised"
     /\ conc < Cardinality(Slots) => Amid \subseteq {a}

-----------------------------------------------------------------------------
\* The day's ledger allows the run, and the leased rows are counted.
Count(a) ==
  /\ Goto(a, "idle", IF Max = 0 THEN "over" ELSE "counted")
  /\ Undisturbed /\ Alone(a) /\ (redis \/ "admit" \in Overlap \/ Amid = {})
  /\ active' = [active EXCEPT ![a] = Cardinality(leased)]
  /\ UNCHANGED <<conc, qps, leased, redis, tallied>>

\* The ledger refuses: runs or tokens of the day are used up.
LedgerRefuses(a) ==
  /\ Goto(a, "idle", "over")
  /\ UNCHANGED <<conc, qps, leased, active, redis, tallied>>

\* Without Redis: one run at a time, by the rows alone.
AdmitByRows(a) ==
  /\ ~redis
  /\ Goto(a, "counted", IF active[a] >= 1 THEN "over" ELSE "admitted")
  /\ Forget(a)
  /\ UNCHANGED <<conc, qps, leased, redis, tallied>>

\* (a bug: INCR answers the value it found)
RaiseOffByOne(a) ==
  /\ redis /\ Alone(a)
  /\ conc' = conc + 1
  /\ Goto(a, "counted", IF conc < active[a] THEN "raised"
                        ELSE IF conc > Max \/ active[a] >= Max THEN "undo"
                        ELSE "paced")
  /\ IF pa'[a] = "raised" THEN UNCHANGED active ELSE Forget(a)
  /\ UNCHANGED <<qps, leased, redis, tallied>>

\* INCR.  A counter below the rows is then raised to them, and one above the
\* limit, like rows that reach it, leads to a DECR.
Raise(a) ==
  /\ redis /\ Alone(a)
  /\ conc' = conc + 1
  /\ Goto(a, "counted", IF conc + 1 < active[a] THEN "raised"
                        ELSE IF conc + 1 > Max \/ active[a] >= Max THEN "undo"
                        ELSE "paced")
  /\ IF pa'[a] = "raised" THEN UNCHANGED active ELSE Forget(a)
  /\ UNCHANGED <<qps, leased, redis, tallied>>

Correct(a) ==
  /\ Goto(a, "raised", IF active[a] >= Max THEN "undo" ELSE "paced")
  /\ conc' = active[a] /\ Forget(a)
  /\ UNCHANGED <<qps, leased, redis, tallied>>

Undo(a) ==
  /\ Goto(a, "undo", "over")
  /\ conc' = conc - 1
  /\ UNCHANGED <<qps, leased, active, redis, tallied>>

Pace(a) ==
  /\ qps' = qps + 1
  /\ Goto(a, "paced", IF qps + 1 > (IF MaxQps = 0 THEN 1 ELSE MaxQps) THEN "undo" ELSE "admitted")
  /\ UNCHANGED <<conc, leased, active, redis, tallied>>

\* acquire_lease of the run's session, or its refusal (then release_run).
Lease(a) ==
  /\ Goto(a, "admitted", "running")
  /\ leased' = leased \cup {a}
  /\ UNCHANGED <<conc, qps, active, redis, tallied>>

LeaseRefused(a) ==
  /\ Goto(a, "admitted", IF redis THEN "undo" ELSE "over")
  /\ UNCHANGED <<conc, qps, leased, active, redis, tallied>>

\* The end of a run: the lease goes, then the counter.
Unlease(a) ==
  /\ Undisturbed /\ Goto(a, "running", "giveback")
  /\ leased' = leased \ {a}
  /\ UNCHANGED <<conc, qps, active, redis, tallied>>

ReleaseRun(a) ==
  /\ Goto(a, "giveback", "over")
  /\ conc' = IF redis THEN conc - 1 ELSE conc
  /\ UNCHANGED <<qps, leased, active, redis, tallied>>

\* drive fails or its replica dies: the row stays until it is reaped, and the
\* counter until it is reconciled.
Lost(a) ==
  /\ Goto(a, "running", "lost")
  /\ UNCHANGED <<conc, qps, leased, active, redis, tallied>>

Reap(a) ==
  /\ Goto(a, "lost", "over")
  /\ leased' = leased \ {a}
  /\ UNCHANGED <<conc, qps, active, redis, tallied>>

-----------------------------------------------------------------------------
\* reconcile, of every replica at every tick: count the rows, set the counter.
Tally ==
  /\ redis /\ tallied = -1
  /\ "reconcile" \in Overlap \/ Amid = {}
  /\ tallied' = Cardinality(leased)
  /\ UNCHANGED <<conc, qps, leased, pa, active, redis>>

\* (a bug: reconcile raises the counter only)
OverwriteUp ==
  /\ tallied # -1
  /\ conc' = (IF tallied > conc THEN tallied ELSE conc) /\ tallied' = -1
  /\ UNCHANGED <<qps, leased, pa, active, redis>>

Overwrite ==
  /\ tallied # -1
  /\ conc' = tallied /\ tallied' = -1
  /\ UNCHANGED <<qps, leased, pa, active, redis>>

\* Redis restarts empty: INCR and DECR begin at zero.
CounterLost ==
  /\ redis /\ conc > 0 /\ conc' = 0
  /\ "correct" \in Overlap \/ Amid = {}
  /\ UNCHANGED <<qps, leased, pa, active, redis, tallied>>

NewSecond ==
  /\ qps > 0 /\ qps' = 0
  /\ UNCHANGED <<conc, leased, pa, active, redis, tallied>>

-----------------------------------------------------------------------------
Admit(a) ==
  \/ Count(a) \/ LedgerRefuses(a) \/ AdmitByRows(a)
  \/ Raise(a) \/ Correct(a) \/ Undo(a) \/ Pace(a)

Step(a) == Admit(a) \/ Lease(a) \/ LeaseRefused(a) \/ Unlease(a) \/ ReleaseRun(a)

Next ==
  \/ \E a \in Attempts : Step(a) \/ Lost(a) \/ Reap(a)
  \/ Tally \/ Overwrite \/ CounterLost \/ NewSecond

\* A request and a run's end go on; replicas reap and reconcile at every tick.
Proceeds(a) == Admit(a) \/ Lease(a) \/ LeaseRefused(a) \/ ReleaseRun(a) \/ Reap(a)
Reconciles == Tally \/ Overwrite

Fairness ==
  /\ \A a \in Attempts : WF_admVars(Proceeds(a))
  /\ WF_admVars(Reconciles)

Spec == Init /\ [][Next]_admVars /\ Fairness

-----------------------------------------------------------------------------
(* Properties *)

\* A tenant never has more runs than max_concurrent_runs, and one at most
\* without Redis, however requests interleave.
WithinMax == Cardinality(leased) <= (IF redis THEN Max ELSE 1)

\* Slots that a lost run or a failed drive left behind come back: the counter
\* returns to the number of leased rows, again and again.
SlotsReturn == redis => []<>(conc = Cardinality(leased))
=============================================================================
