------------------------------ MODULE Workspace ------------------------------
(***************************************************************************)
(* The workspaces of the sessions of the control plane: crates/rupi-server *)
(* (reclaim.rs, ensure_hot and the handlers that create and delete a       *)
(* session) over the execution pool of crates/rupi-runtime.                *)
(*                                                                         *)
(* A session is hot (its row names a handle, the pool leases a directory)  *)
(* or snapshotted (its row names an object of the store).  A run makes its *)
(* session hot; idle sessions are snapshotted by the loop of any replica,  *)
(* or by a request that finds the pool full.  Each of these tasks works on *)
(* a copy of the row it read once, one call at a time.                     *)
(*                                                                         *)
(* The work of a run is the run itself, as a file: it is in a directory,   *)
(* in an object, or lost.  An object's key ends with the handle it was     *)
(* taken from, so that handles name the objects as well.                   *)
(***************************************************************************)
EXTENDS Naturals, FiniteSets

CONSTANTS
  Sessions, Runs, Loops,  \* Loops: the loop_forever of each replica
  SessionOf,   \* the session a run is for (RunAgentInput.thread_id)
  Handles,     \* the ids of leases, never used twice
  None,
  Capacity,    \* directories the pool leases at a time
  MaxHandles,  \* tenants.max_handles
  Races,       \* which races between tasks the schedule admits
  Faults       \* which calls may fail

ASSUME WorkspaceConstants ==
  /\ SessionOf \in [Runs -> Sessions]
  /\ None \notin Handles \cup Runs
  /\ {Capacity, MaxHandles} \subseteq Nat
  \* a row changes between a request's read and its lease; a listed session
  \* is leased to a run; two tasks reclaim one session; a session is deleted
  \* while it is used
  /\ Races \subseteq {"stale", "reclaim", "double", "delete"}
  \* snapshot, put or release; the set-up of a run; a replica; the object
  \* store's get; whatever comes between release and mark_snapshotted
  /\ Faults \subseteq {"reclaim", "setup", "crash", "get", "cut"}

Tasks == Sessions \cup Runs \cup Loops

VARIABLES
  row,     \* the sessions' rows: state, handle, snapshot key, run
  leased,  \* the handles the pool knows
  unused,  \* the handles to come
  dir,     \* the files of a handle's directory
  objects, \* the objects of the store
  blob,    \* the files of an object
  pc,      \* where a task is; a session's own task creates and deletes it
  copy,    \* the row as the task read it
  wh,      \* the handle the task sets up or works in; a creation forgets it
           \* once the row names it
  tries,   \* allocations that found the pool full
  listed,  \* what is left of the task's list_reclaim_candidates
  job,     \* the task's call of snapshot_and_release
  saved    \* the work a session's user was told is done

poolVars == <<leased, unused, dir>>
storeVars == <<objects, blob>>
taskVars == <<pc, copy, wh, tries, listed, job>>
vars == <<row, poolVars, storeVars, taskVars, saved>>

Row == [state : {"none", "hot", "snapshotted"}, handle : Handles \cup {None},
        snap : Handles \cup {None}, run : Runs \cup {None}]

NoRow == [state |-> "none", handle |-> None, snap |-> None, run |-> None]
NoJob == [at |-> "none", s |-> None, h |-> None, data |-> {}]

Candidate == [s : Sessions, h : Handles]

\* ensure_hot, or alloc_workspace and mark_hot, with preempt_one inside.
Setup == {"alloc", "preempt", "own", "others", "reclaim", "restore", "mark"}

TypeOK ==
  /\ row \in [Sessions -> Row]
  /\ leased \subseteq Handles /\ unused \subseteq Handles \ leased
  /\ dir \in [Handles -> SUBSET Runs]
  /\ objects \subseteq Handles
  /\ blob \in [Handles -> SUBSET Runs]
  /\ pc \in [Tasks -> Setup \cup
               {"idle", "lease", "work", "open", "destroy", "drop", "over", "leaked"}]
  /\ copy \in [Tasks -> Row]
  /\ wh \in [Tasks -> Handles \cup {None}]
  /\ tries \in [Tasks -> 0..2]
  /\ listed \in [Tasks -> SUBSET Candidate]
  /\ job \in [Tasks -> {NoJob} \cup
               [at : {"open", "tar", "put", "release", "mark"}, s : Sessions,
                h : Handles, data : SUBSET Runs]]
  /\ saved \in [Sessions -> SUBSET Runs]

Init ==
  /\ row = [s \in Sessions |-> NoRow]
  /\ leased = {} /\ unused = Handles
  /\ dir = [h \in Handles |-> {}]
  /\ objects = {} /\ blob = [h \in Handles |-> {}]
  /\ pc = [t \in Tasks |-> "idle"]
  /\ copy = [t \in Tasks |-> NoRow]
  /\ wh = [t \in Tasks |-> None]
  /\ tries = [t \in Tasks |-> 0]
  /\ listed = [t \in Tasks |-> {}]
  /\ job = [t \in Tasks |-> NoJob]
  /\ saved = [s \in Sessions |-> {}]

\* The session a task sets up.
Home(t) == IF t \in Runs THEN SessionOf[t] ELSE t

Exists(s) == row[s].state # "none"

\* The clients learn a session's id when it has been created; a session under
\* deletion is used only by a client that races with the one who deletes it.
Usable(s) == \/ pc[s] = "open"
             \/ pc[s] \in {"destroy", "drop"} /\ "delete" \in Races

InReclaim(s) == \E t \in Tasks : job[t].s = s \/ \E c \in listed[t] : c.s = s

Driven(s) == \E r \in Runs :
  SessionOf[r] = s /\ pc[r] \in Setup \cup {"work"}

Goto(t, from, to) == pc[t] = from /\ pc' = [pc EXCEPT ![t] = to]

\* A task is done with the row it read and with its tries.
Forget(t) ==
  /\ copy' = [copy EXCEPT ![t] = NoRow]
  /\ tries' = [tries EXCEPT ![t] = 0]

\* What remains of a failed request: drive returns Err and keeps the lease; a
\* creation deletes its row.  What was allocated stays allocated.
GiveUp(t) ==
  /\ pc' = [pc EXCEPT ![t] = IF t \in Runs THEN "leaked" ELSE "over"]
  /\ row' = IF t \in Sessions THEN [row EXCEPT ![t] = NoRow] ELSE row
  /\ Forget(t)

(***************************************************************************)
(* Requests: create_session, start_run and drive, delete_session.          *)
(***************************************************************************)

\* insert_session_if_under_cap: every session not snapshotted counts.
Reserve(s) ==
  /\ Goto(s, "idle", "alloc")
  /\ Cardinality({x \in Sessions : row[x].state = "hot"}) < MaxHandles
  /\ row' = [row EXCEPT ![s] = [NoRow EXCEPT !.state = "hot"]]
  /\ UNCHANGED <<poolVars, storeVars, copy, wh, tries, listed, job, saved>>

\* start_run: get_session.
GetSession(r) ==
  /\ Exists(SessionOf[r]) /\ Usable(SessionOf[r])
  /\ Goto(r, "idle", "lease")
  /\ copy' = [copy EXCEPT ![r] = row[SessionOf[r]]]
  /\ UNCHANGED <<row, poolVars, storeVars, wh, tries, listed, job, saved>>

\* ensure_hot: the copy names a live workspace.
Hot(c) == c.state = "hot" /\ c.handle # None

\* start_run: acquire_lease (see RunLease).  drive begins with ensure_hot.
Lease(r) ==
  LET s == SessionOf[r]
  IN  /\ pc[r] = "lease"
      /\ Exists(s) /\ Usable(s) /\ row[s].run = None
      /\ "stale" \in Races \/ copy[r] = [row[s] EXCEPT !.run = copy[r].run]
      /\ "reclaim" \in Races \/ ~InReclaim(s)
      /\ row' = [row EXCEPT ![s].run = r]
      /\ pc' = [pc EXCEPT ![r] = IF Hot(copy[r]) THEN "work" ELSE "alloc"]
      /\ wh' = [wh EXCEPT ![r] = IF Hot(copy[r]) THEN copy[r].handle ELSE None]
      /\ IF Hot(copy[r]) THEN Forget(r) ELSE UNCHANGED <<copy, tries>>
      /\ UNCHANGED <<poolVars, storeVars, listed, job, saved>>

\* 409: another run, or no row any more.
Refused(r) ==
  /\ Goto(r, "lease", "over")
  /\ row[SessionOf[r]].run # None \/ ~Exists(SessionOf[r])
  /\ Forget(r)
  /\ UNCHANGED <<row, poolVars, storeVars, wh, listed, job, saved>>

\* Mutant: an id is handed out twice.
AllocAgain(t) ==
  /\ Goto(t, "alloc", IF t \in Runs THEN "restore" ELSE "mark")
  /\ Cardinality(leased) < Capacity
  /\ \E h \in unused : leased' = leased \cup {h} /\ wh' = [wh EXCEPT ![t] = h]
  /\ UNCHANGED <<row, unused, dir, storeVars, copy, tries, listed, job, saved>>

\* alloc_pref.
Alloc(t) ==
  /\ Goto(t, "alloc", IF t \in Runs THEN "restore" ELSE "mark")
  /\ Cardinality(leased) < Capacity
  /\ \E h \in unused :
       /\ leased' = leased \cup {h} /\ unused' = unused \ {h}
       /\ wh' = [wh EXCEPT ![t] = h]
  /\ UNCHANGED <<row, dir, storeVars, copy, tries, listed, job, saved>>

\* The pool is full.  ensure_hot preempts after each of two failures, a
\* creation only after the first.
AllocFull(t) ==
  /\ pc[t] = "alloc"
  /\ Cardinality(leased) >= Capacity
  /\ IF t \in Runs \/ tries[t] = 0
       THEN /\ pc' = [pc EXCEPT ![t] = "preempt"]
            /\ tries' = [tries EXCEPT ![t] = @ + 1]
            /\ UNCHANGED <<row, copy>>
       ELSE GiveUp(t)
  /\ UNCHANGED <<poolVars, storeVars, wh, listed, job, saved>>

\* Mutant: the object is fetched, and the directory stays empty.
Fetch(r) ==
  /\ Goto(r, "restore", "mark")
  /\ UNCHANGED <<row, poolVars, storeVars, copy, wh, tries, listed, job, saved>>

\* object_store.get and restore.  An object that cannot be read is logged and
\* the workspace stays empty.
Restore(r) ==
  /\ Goto(r, "restore", "mark")
  /\ \/ /\ copy[r].snap \in objects /\ wh[r] \in leased
        /\ dir' = [dir EXCEPT ![wh[r]] = blob[copy[r].snap]]
     \/ /\ copy[r].snap \notin objects \/ "get" \in Faults
        /\ UNCHANGED dir
  /\ UNCHANGED <<row, leased, unused, storeVars, copy, wh, tries, listed, job, saved>>

\* mark_hot; a creation goes on if the UPDATE fails.
MarkHot(t) ==
  LET s == Home(t)
      hot == [row[s] EXCEPT !.state = "hot", !.handle = wh[t],
                            !.snap = IF copy[t].snap = None THEN @ ELSE copy[t].snap]
  IN  /\ Goto(t, "mark", IF t \in Runs THEN "work" ELSE "open")
      /\ \/ /\ row' = IF Exists(s) THEN [row EXCEPT ![s] = hot] ELSE row
            /\ wh' = IF t \in Runs THEN wh ELSE [wh EXCEPT ![t] = None]
         \/ t \in Sessions /\ "setup" \in Faults /\ UNCHANGED <<row, wh>>
      /\ Forget(t)
      /\ UNCHANGED <<poolVars, storeVars, listed, job, saved>>

\* A `?' of drive or of alloc_workspace.
SetupFails(t) ==
  /\ "setup" \in Faults
  /\ pc[t] = "alloc" \/ (t \in Runs /\ pc[t] \in {"restore", "mark"})
  /\ GiveUp(t)
  /\ UNCHANGED <<poolVars, storeVars, wh, listed, job, saved>>

\* A tool of the run writes its file; without a lease the pool answers 404.
Exec(r) ==
  /\ pc[r] = "work" /\ wh[r] \in leased
  /\ dir' = [dir EXCEPT ![wh[r]] = @ \cup {r}]
  /\ saved' = [saved EXCEPT ![SessionOf[r]] = @ \cup {r}]
  /\ UNCHANGED <<row, leased, unused, storeVars, taskVars>>

ClearRun(s, r) == row' = IF row[s].run = r THEN [row EXCEPT ![s].run = None] ELSE row

Finish(r) ==
  /\ Goto(r, "work", "over")
  /\ ClearRun(SessionOf[r], r)
  /\ wh' = [wh EXCEPT ![r] = None]
  /\ UNCHANGED <<poolVars, storeVars, copy, tries, listed, job, saved>>

\* reap_stale_runs.
Reap(r) ==
  /\ pc[r] = "leaked" /\ row[SessionOf[r]].run = r
  /\ ClearRun(SessionOf[r], r)
  /\ UNCHANGED <<poolVars, storeVars, taskVars, saved>>

\* delete_session: session_guard.
Teardown(s) ==
  /\ pc[s] = "open" /\ Exists(s)
  /\ "delete" \in Races \/ ~(Driven(s) \/ InReclaim(s))
  /\ pc' = [pc EXCEPT ![s] = "destroy"]
  /\ copy' = [copy EXCEPT ![s] = row[s]]
  /\ saved' = [saved EXCEPT ![s] = {}]
  /\ UNCHANGED <<row, poolVars, storeVars, wh, tries, listed, job>>

\* executor.destroy; its error is ignored.
Destroy(s) ==
  /\ Goto(s, "destroy", "drop")
  /\ leased' = leased \ {copy[s].handle}
  /\ dir' = [h \in Handles |-> IF h = copy[s].handle THEN {} ELSE dir[h]]
  /\ UNCHANGED <<row, unused, storeVars, copy, wh, tries, listed, job, saved>>

\* object_store.delete, delete_session: the row and all that refers to it.
DropRow(s) ==
  /\ Goto(s, "drop", "over")
  /\ objects' = objects \ {copy[s].snap}
  /\ blob' = [h \in Handles |-> IF h = copy[s].snap THEN {} ELSE blob[h]]
  /\ row' = [row EXCEPT ![s] = NoRow]
  /\ saved' = [saved EXCEPT ![s] = {}]
  /\ Forget(s)
  /\ UNCHANGED <<poolVars, wh, listed, job>>

(***************************************************************************)
(* Reclaiming: reclaim_once of a loop, preempt_one of a request.           *)
(***************************************************************************)
Reclaimable(s) == row[s].state = "hot" /\ row[s].handle # None /\ row[s].run = None

\* list_reclaim_candidates: some of them, by age and up to a limit.  A request
\* lists those of its tenant (the one tenant there is here), then everybody's.
List(t) ==
  /\ \/ t \in Loops /\ Goto(t, "idle", "reclaim")
     \/ Goto(t, "preempt", "own")
     \/ Goto(t, "others", "reclaim")
  /\ \E S \in SUBSET {s \in Sessions : Reclaimable(s)} :
       listed' = [listed EXCEPT ![t] = {[s |-> s, h |-> row[s].handle] : s \in S}]
  /\ UNCHANGED <<row, poolVars, storeVars, copy, wh, tries, job, saved>>

\* The next row of the list.  Its run_id was empty when it was read.
Take(t) ==
  /\ pc[t] \in {"own", "reclaim"} /\ job[t] = NoJob
  /\ \E c \in listed[t] :
       /\ "double" \in Races \/ \A u \in Tasks : job[u].s # c.s
       /\ job' = [job EXCEPT ![t] = [at |-> "open", s |-> c.s, h |-> c.h, data |-> {}]]
       /\ listed' = [listed EXCEPT ![t] = @ \ {c}]
  /\ UNCHANGED <<row, poolVars, storeVars, pc, copy, wh, tries, saved>>

JobStep(t, from, to) == job[t].at = from /\ job' = [job EXCEPT ![t].at = to]

\* snapshot: the pool looks the handle up,
SnapshotOpen(t) ==
  /\ JobStep(t, "open", "tar")
  /\ job[t].h \in leased
  /\ UNCHANGED <<row, poolVars, storeVars, pc, copy, wh, tries, listed, saved>>

\* and tar packs what is in the directory then.
SnapshotTar(t) ==
  /\ job[t].at = "tar"
  /\ job' = [job EXCEPT ![t].at = "put", ![t].data = dir[job[t].h]]
  /\ UNCHANGED <<row, poolVars, storeVars, pc, copy, wh, tries, listed, saved>>

\* Mutant: an object that is there is not written again.
PutOnce(t) ==
  /\ job[t].at = "put"
  /\ job' = [job EXCEPT ![t].at = "release", ![t].data = {}]
  /\ objects' = objects \cup {job[t].h}
  /\ blob' = IF job[t].h \in objects THEN blob ELSE [blob EXCEPT ![job[t].h] = job[t].data]
  /\ UNCHANGED <<row, poolVars, pc, copy, wh, tries, listed, saved>>

Put(t) ==
  /\ job[t].at = "put"
  /\ job' = [job EXCEPT ![t].at = "release", ![t].data = {}]
  /\ objects' = objects \cup {job[t].h}
  /\ blob' = [blob EXCEPT ![job[t].h] = job[t].data]
  /\ UNCHANGED <<row, poolVars, pc, copy, wh, tries, listed, saved>>

\* Mutant: an error of release is ignored.
ReleaseAnyway(t) ==
  /\ JobStep(t, "release", "mark")
  /\ \/ /\ leased' = leased \ {job[t].h}
        /\ dir' = [dir EXCEPT ![job[t].h] = {}]
     \/ "reclaim" \in Faults /\ UNCHANGED <<leased, dir>>
  /\ UNCHANGED <<row, unused, storeVars, pc, copy, wh, tries, listed, saved>>

\* executor.release: the directory is wiped.
Release(t) ==
  /\ JobStep(t, "release", "mark")
  /\ job[t].h \in leased
  /\ leased' = leased \ {job[t].h}
  /\ dir' = [dir EXCEPT ![job[t].h] = {}]
  /\ UNCHANGED <<row, unused, storeVars, pc, copy, wh, tries, listed, saved>>

\* preempt_one: true, and the request allocates again; its second success is
\* too late for ensure_hot.  A loop goes on with its list.
Reclaimed(t) ==
  /\ job' = [job EXCEPT ![t] = NoJob]
  /\ listed' = IF t \in Loops THEN listed ELSE [listed EXCEPT ![t] = {}]
  /\ pc' = [pc EXCEPT ![t] = CASE t \in Loops  -> "reclaim"
                                [] tries[t] = 2 -> "leaked"
                                [] OTHER        -> "alloc"]
  /\ IF tries[t] = 2 THEN Forget(t) ELSE UNCHANGED <<copy, tries>>

\* mark_snapshotted, whatever the row says now.
MarkSnapshotted(t) ==
  /\ job[t].at = "mark"
  /\ row' = IF ~Exists(job[t].s) THEN row
            ELSE [row EXCEPT ![job[t].s].state = "snapshotted",
                             ![job[t].s].handle = None, ![job[t].s].snap = job[t].h]
  /\ Reclaimed(t)
  /\ UNCHANGED <<poolVars, storeVars, wh, saved>>

\* A `?' of snapshot_and_release: the next row's turn.
JobFails(t) ==
  /\ \/ job[t].at \in {"open", "release"} /\ job[t].h \notin leased
     \/ job[t].at \in {"open", "tar", "put", "release"} /\ "reclaim" \in Faults
     \/ job[t].at = "mark" /\ "cut" \in Faults
  /\ job' = [job EXCEPT ![t] = NoJob]
  /\ UNCHANGED <<row, poolVars, storeVars, pc, copy, wh, tries, listed, saved>>

\* The list is done: a loop waits for its next tick, a request fails.
ListDone(t) ==
  /\ job[t] = NoJob /\ listed[t] = {}
  /\ \/ Goto(t, "own", "others") /\ UNCHANGED <<row, copy, tries>>
     \/ t \in Loops /\ Goto(t, "reclaim", "idle") /\ UNCHANGED <<row, copy, tries>>
     \/ t \notin Loops /\ pc[t] = "reclaim" /\ GiveUp(t)
  /\ UNCHANGED <<poolVars, storeVars, wh, listed, job, saved>>

\* The replica of a task stops: a run leaves its lease behind, a creation or a
\* deletion a row that other clients may use or delete.
Crash(t) ==
  /\ "crash" \in Faults
  /\ pc[t] \notin {"idle", "over", "open", "leaked"}
  /\ job[t].at = "mark" => "cut" \in Faults
  /\ pc' = [pc EXCEPT ![t] = CASE t \in Loops -> "idle"
                                [] t \in Runs  -> IF pc[t] = "lease" THEN "over" ELSE "leaked"
                                [] OTHER       -> "open"]
  /\ wh' = IF pc[t] = "work" THEN [wh EXCEPT ![t] = None] ELSE wh
  /\ listed' = [listed EXCEPT ![t] = {}]
  /\ job' = [job EXCEPT ![t] = NoJob]
  /\ Forget(t)
  /\ UNCHANGED <<row, poolVars, storeVars, saved>>

Request(t) == Alloc(t) \/ AllocFull(t) \/ MarkHot(t) \/ SetupFails(t)

Drive(r) ==
  GetSession(r) \/ Lease(r) \/ Refused(r) \/ Restore(r) \/ Exec(r) \/ Finish(r) \/ Reap(r)

Client(s) == Reserve(s) \/ Teardown(s) \/ Destroy(s) \/ DropRow(s)

Reclaim(t) ==
  \/ List(t) \/ Take(t) \/ ListDone(t)
  \/ SnapshotOpen(t) \/ SnapshotTar(t) \/ Put(t) \/ Release(t) \/ MarkSnapshotted(t)
  \/ JobFails(t)

Next ==
  \/ \E r \in Runs : Drive(r)
  \/ \E s \in Sessions : Client(s)
  \/ \E t \in Runs \cup Sessions : Request(t)
  \/ \E t \in Tasks : Reclaim(t) \/ Crash(t)

Spec == Init /\ [][Next]_vars

(***************************************************************************)
(* Properties.                                                             *)
(***************************************************************************)

\* What the next run of a session finds: the directory its row names, else
\* the object its row names, else the object a reclaim is about to name.
Kept(s) ==
  IF \E t \in Tasks : job[t].at = "mark" /\ job[t].s = s
    THEN UNION {blob[job[t].h] : t \in {u \in Tasks : job[u].at = "mark" /\ job[u].s = s}}
    ELSE IF row[s].handle # None THEN dir[row[s].handle]
    ELSE IF row[s].snap \in objects THEN blob[row[s].snap] ELSE {}

\* No work that a user was told is done is lost while the session exists:
\* through any number of snapshots, restores, preemptions and failed tries it
\* is where the next run finds it (reclaim.rs, the order of its calls).
WorkKept == \A s \in Sessions : Exists(s) => saved[s] \subseteq Kept(s)

\* A run begins its work on top of all the work done before it, whether its
\* session was hot or had to be restored (ensure_hot).
BeginsWithWork(r) ==
  pc[r] # "work" /\ pc'[r] = "work" => saved[SessionOf[r]] \subseteq dir'[wh'[r]]
RunsResume == [][\A r \in Runs : BeginsWithWork(r)]_vars

\* A directory that is leased is named by a row, or belongs to a request that
\* is setting it up or failed to: reclaiming, restoring and deleting leave
\* none behind (snapshot_and_release, ensure_hot, teardown_session).
NoOrphans ==
  \A h \in leased : \/ \E s \in Sessions : row[s].handle = h
                    \/ \E t \in Tasks : wh[t] = h /\ pc[t] # "work"

\* The workspace of a session that has an active run is not taken away by a
\* reclaim (snapshot_and_release, "session has active run").
ActiveRunKept ==
  [][\A t \in Tasks :
       job[t].at = "release" /\ job'[t].at = "mark" => row[job[t].s].run = None]_vars
=============================================================================
