--------------------------- MODULE WorkspaceProofs ---------------------------
(***************************************************************************)
(* No work is lost and no directory is orphaned, for any number of         *)
(* sessions, runs, replicas and handles, if no two tasks race for a        *)
(* session (Races = {}) and neither the store nor the update of the row    *)
(* that follows a release fails; every other call may fail, and replicas   *)
(* may stop.                                                               *)
(*                                                                         *)
(* WorkKept looks at one session, the steps at one task.  Apart says that  *)
(* they meet: a handle belongs to one session, whoever has read it where,  *)
(* so that a directory or an object is touched for its own session only.   *)
(* The other parts follow one session through its life.                    *)
(***************************************************************************)
EXTENDS Workspace, TLAPS

\* The calls of snapshot_and_release under way.
Jobs == [at : {"open", "tar", "put", "release", "mark"}, s : Sessions,
         h : Handles, data : SUBSET Runs]

\* What the proofs assume of the schedule and of the constants.
Setting ==
  /\ Races = {} /\ {"cut", "get"} \cap Faults = {}
  /\ Sessions \cap Runs = {} /\ Sessions \cap Loops = {} /\ Runs \cap Loops = {}
  /\ None \notin Sessions

\* Where a handle of a session is remembered.
Names(s, h) ==
  \/ row[s].handle = h \/ row[s].snap = h
  \/ \E t \in Runs \cup Sessions :
       Home(t) = s /\ (wh[t] = h \/ copy[t].handle = h \/ copy[t].snap = h)
  \/ \E t \in Tasks : (job[t].s = s /\ job[t].h = h) \/ [s |-> s, h |-> h] \in listed[t]

\* A handle belongs to one session, and is not handed out again.
Apart ==
  \A s \in Sessions, h \in Handles : Names(s, h) =>
    h \notin unused /\ \A q \in Sessions : Names(q, h) => q = s

\* A session from its creation to its deletion.
Life(s) ==
  /\ row[s].handle # None => row[s].state = "hot"
  /\ pc[s] \in {"idle", "over"} => row[s] = NoRow
  /\ pc[s] \in {"idle"} \cup Setup =>
       ~InReclaim(s) /\ row[s].handle = None /\ row[s].run = None
  /\ pc[s] \in Setup => Exists(s)
  /\ pc[s] # "open" => saved[s] = {}
  /\ pc[s] \in {"destroy", "drop"} => row[s].handle \in {None, copy[s].handle}
  /\ pc[s] = "drop" => copy[s].handle \notin leased

\* A task that has not allocated yet has no directory; a job is a reclaim's.
Starts(t) ==
  /\ pc[t] \in {"idle", "lease", "alloc", "preempt", "own", "others", "reclaim"} =>
       wh[t] = None
  /\ job[t] # NoJob => pc[t] \in {"own", "reclaim"}
  /\ t \in Loops => pc[t] \in {"idle", "reclaim"}
  /\ t \in Sessions => pc[t] \notin {"lease", "restore", "work"}
  /\ t \in Runs => pc[t] \notin {"open", "destroy", "drop"}

\* A run that drives its session, alone.
Drives(r) ==
  /\ pc[r] \in Setup \cup {"work"} =>
       /\ row[SessionOf[r]].run = r
       /\ pc[SessionOf[r]] = "open" /\ Exists(SessionOf[r])
  /\ pc[r] \in Setup =>
       row[SessionOf[r]].handle = None /\ copy[r].snap = row[SessionOf[r]].snap
  /\ pc[r] = "work" => wh[r] = row[SessionOf[r]].handle
  /\ pc[r] \in {"restore", "mark", "work"} => wh[r] # None
  /\ pc[r] = "mark" => saved[SessionOf[r]] \subseteq dir[wh[r]]

\* A job of a reclaim, alone with its session, and how far it has come.
Job(t) ==
  LET s == job[t].s
      h == job[t].h
  IN  job[t] # NoJob =>
        /\ row[s].run = None
        /\ \A u \in Tasks \ {t} : job[u].s # s
        /\ job[t].at = "mark" => h \notin leased
        /\ Exists(s) =>
             /\ IF job[t].at = "open" THEN row[s].handle = h \/ h \notin leased
                                      ELSE row[s].handle = h
             /\ job[t].at = "put" => saved[s] \subseteq job[t].data
             /\ job[t].at \in {"release", "mark"} => saved[s] \subseteq blob[h]
                   /\ h \in objects

\* A listed session is idle, and still on the listed directory or on none.
Cands(t) ==
  \A c \in listed[t] :
    row[c.s].run = None /\ (Exists(c.s) => row[c.s].handle = c.h \/ c.h \notin leased)

\* The directory is gone and the row does not name the object yet.
Marked(s) == \E t \in Tasks : job[t].s = s /\ job[t].at = "mark"

\* The work of a session is in its directory, or in its object.
Work(s) ==
  Exists(s) /\ ~Marked(s) =>
    IF row[s].handle # None THEN saved[s] \subseteq dir[row[s].handle]
    ELSE saved[s] = {} \/ (row[s].snap \in objects /\ saved[s] \subseteq blob[row[s].snap])

\* A leased directory is named by a row or by a request.
Held(h) == \/ \E s \in Sessions : row[s].handle = h
           \/ \E t \in Tasks : wh[t] = h /\ pc[t] # "work"

\* The inductive invariant, with TypeOK and Tries.
IInv ==
  /\ Apart
  /\ \A s \in Sessions : Life(s) /\ Work(s)
  /\ \A t \in Tasks : Starts(t) /\ Job(t) /\ Cands(t)
  /\ \A r \in Runs : Drives(r)
  /\ \A h \in leased : Held(h)

\* A request that allocates has failed at most once before.
Tries ==
  \A t \in Tasks : pc[t] \in {"idle", "lease", "alloc"} \/ t \in Loops => tries[t] <= 1

\* TypeOK, variable by variable.
LEMMA Typed ==
  ASSUME TypeOK
  PROVE /\ row \in [Sessions -> Row]
      /\ leased \subseteq Handles /\ unused \subseteq Handles \ leased
      /\ dir \in [Handles -> SUBSET Runs] /\ objects \subseteq Handles
      /\ blob \in [Handles -> SUBSET Runs]
      /\ copy \in [Tasks -> Row] /\ wh \in [Tasks -> Handles \cup {None}]
      /\ tries \in [Tasks -> 0..2] /\ listed \in [Tasks -> SUBSET Candidate]
      /\ job \in [Tasks -> {NoJob} \cup Jobs]
      /\ saved \in [Sessions -> SUBSET Runs]
      /\ SessionOf \in [Runs -> Sessions] /\ None \notin Handles \cup Runs
      /\ pc \in [Tasks -> Setup \cup
               {"idle", "lease", "work", "open", "destroy", "drop", "over", "leaked"}]
  BY WorkspaceConstants DEF TypeOK, Jobs

\* The fields of a row and of a job.
RowOK(q) == /\ q.state \in {"none", "hot", "snapshotted"} /\ q.run \in Runs \cup {None}
            /\ {q.handle, q.snap} \subseteq Handles \cup {None}
JobOK(j) == \/ j = NoJob /\ j.at = "none" /\ j.s = None /\ j.h = None
            \/ /\ j # NoJob /\ j.at \in {"open", "tar", "put", "release", "mark"}
               /\ j.s \in Sessions /\ j.h \in Handles /\ j.data \subseteq Runs

\* TypeOK, field by field.
LEMMA Fields ==
  ASSUME TypeOK
  PROVE /\ \A s \in Sessions : RowOK(row[s])
        /\ \A t \in Tasks : RowOK(copy[t])
        /\ \A t \in Tasks : JobOK(job[t])
        /\ \A t \in Tasks : \A c \in listed[t] : c.s \in Sessions /\ c.h \in Handles
              /\ c = [s |-> c.s, h |-> c.h]
<1> USE Typed
<1>1. \A s \in Sessions : RowOK(row[s])
  BY DEF Row, RowOK
<1>2. \A t \in Tasks : RowOK(copy[t])
  BY DEF Row, RowOK
<1>3. \A t \in Tasks : JobOK(job[t])
  BY DEF Jobs, JobOK, NoJob
<1>4. \A t \in Tasks : \A c \in listed[t] : c.s \in Sessions /\ c.h \in Handles
      /\ c = [s |-> c.s, h |-> c.h]
  BY DEF Candidate
<1> QED BY <1>1, <1>2, <1>3, <1>4
\* A step after which nobody remembers a handle anew keeps the sessions apart.
LEMMA ApartKept ==
  ASSUME Apart, unused' \subseteq unused,
         \A s \in Sessions, h \in Handles : Names(s, h)' => Names(s, h)
  PROVE Apart'
BY DEF Apart

(***************************************************************************)
(* Types.                                                                  *)
(***************************************************************************)
\* An update of a row is a row.
LEMMA RowUpdates ==
  ASSUME NEW q \in Row, NEW h \in Handles, NEW r \in Runs \cup {None}
  PROVE /\ [q EXCEPT !.run = r] \in Row
        /\ [q EXCEPT !.state = "snapshotted", !.handle = None, !.snap = h] \in Row
BY DEF Row

\* Every step keeps the types: one step per action.
LEMMA TypeStep ==
  ASSUME TypeOK, Tries, Loops \cap (Runs \cup Sessions) = {}, [Next]_vars
  PROVE TypeOK' /\ Tries'
<1>a. /\ row \in [Sessions -> Row]
      /\ leased \subseteq Handles /\ unused \subseteq Handles \ leased
      /\ dir \in [Handles -> SUBSET Runs] /\ objects \subseteq Handles
      /\ blob \in [Handles -> SUBSET Runs]
      /\ copy \in [Tasks -> Row] /\ wh \in [Tasks -> Handles \cup {None}]
      /\ tries \in [Tasks -> 0..2] /\ listed \in [Tasks -> SUBSET Candidate]
      /\ job \in [Tasks -> {NoJob} \cup Jobs]
      /\ saved \in [Sessions -> SUBSET Runs]
      /\ SessionOf \in [Runs -> Sessions] /\ None \notin Handles \cup Runs
  BY WorkspaceConstants DEF TypeOK, Jobs
<1>n. NoRow \in Row
  BY DEF NoRow, Row
<1> USE DEF Tasks, vars, poolVars, storeVars, taskVars
<1>1. ASSUME NEW s \in Sessions, Client(s) PROVE TypeOK' /\ Tries'
  <2>1. CASE Reserve(s) BY <1>a, <1>n, <2>1
          DEF TypeOK, Tries, Reserve, Goto, Setup, NoRow, Row
  <2>2. CASE Teardown(s) BY <1>a, <1>n, <2>2 DEF TypeOK, Tries, Teardown
  <2>3. CASE Destroy(s) BY <1>a, <1>n, <2>3 DEF TypeOK, Tries, Destroy, Goto
  <2>4. CASE DropRow(s) BY <1>a, <1>n, <2>4 DEF TypeOK, Tries, DropRow, Goto, Forget
  <2> QED BY <1>1, <2>1, <2>2, <2>3, <2>4 DEF Client
<1>2. ASSUME NEW r \in Runs, Drive(r) PROVE TypeOK' /\ Tries'
  <2>1. CASE GetSession(r) BY <1>a, <1>n, <2>1 DEF TypeOK, Tries, GetSession, Goto
  <2>2. CASE Lease(r)
    <3>1. /\ [row[SessionOf[r]] EXCEPT !.run = r] \in Row
          /\ copy[r].handle \in Handles \cup {None}
      <4>1. row[SessionOf[r]] \in Row /\ copy[r] \in Row
        BY <1>a
      <4> QED BY <4>1 DEF Row
    <3>2. row' \in [Sessions -> Row]
      BY <1>a, <2>2, <3>1 DEF Lease
    <3>3. tries[r] <= 1
      BY <2>2 DEF Lease, Tries
    <3>4. copy' \in [Tasks -> Row] /\ tries' \in [Tasks -> 0..2]
          /\ wh' \in [Tasks -> Handles \cup {None}]
      BY <1>a, <1>n, <2>2, <3>1 DEF Lease, Forget
    <3>5. pc' \in [Tasks -> Setup \cup
               {"idle", "lease", "work", "open", "destroy", "drop", "over", "leaked"}]
      BY <2>2 DEF Lease, Setup, TypeOK
    <3>6. Tries'
      BY <1>a, <2>2, <3>3 DEF Tries, Lease, Forget, TypeOK
    <3> QED BY <1>a, <2>2, <3>2, <3>4, <3>5, <3>6 DEF TypeOK, Lease
  <2>3. CASE Refused(r) BY <1>a, <1>n, <2>3 DEF TypeOK, Tries, Refused, Goto, Forget
  <2>4. CASE Restore(r) BY <1>a, <1>n, <2>4 DEF TypeOK, Tries, Restore, Goto, Setup
  <2>5. CASE Exec(r) BY <1>a, <1>n, <2>5 DEF TypeOK, Tries, Exec
  <2>c. [row[SessionOf[r]] EXCEPT !.run = None] \in Row
    <3>1. row[SessionOf[r]] \in Row
      BY <1>a
    <3> QED BY <3>1 DEF Row
  <2>6. CASE Finish(r) BY <1>a, <2>c, <2>6 DEF TypeOK, Tries, Finish, Goto, ClearRun
  <2>7. CASE Reap(r) BY <1>a, <2>c, <2>7 DEF TypeOK, Tries, Reap, ClearRun
  <2> QED BY <1>2, <2>1, <2>2, <2>3, <2>4, <2>5, <2>6, <2>7 DEF Drive
<1>3. ASSUME NEW t \in Runs \cup Sessions, Request(t) PROVE TypeOK' /\ Tries'
  <2>1. CASE Alloc(t) BY <1>a, <1>n, <2>1 DEF TypeOK, Tries, Alloc, Goto, Setup
  <2>2. CASE AllocFull(t)
    <3>1. tries[t] + 1 \in 0..2
      BY <1>a, <2>2 DEF Tries, AllocFull
    <3>2. /\ row' \in [Sessions -> Row] /\ copy' \in [Tasks -> Row]
          /\ tries' \in [Tasks -> 0..2]
      BY <1>a, <1>n, <2>2, <3>1 DEF AllocFull, GiveUp, Forget
    <3>3. pc' \in [Tasks -> Setup \cup
               {"idle", "lease", "work", "open", "destroy", "drop", "over", "leaked"}]
      BY <2>2 DEF AllocFull, GiveUp, Setup, TypeOK
    <3>4. Tries'
      BY <1>a, <2>2 DEF Tries, AllocFull, GiveUp, Forget, TypeOK
    <3> QED BY <1>a, <2>2, <3>2, <3>3, <3>4 DEF TypeOK, AllocFull
  <2>3. CASE MarkHot(t)
    <3>1. Home(t) \in Sessions /\ wh[t] \in Handles \cup {None} /\ copy[t] \in Row
          /\ row[Home(t)] \in Row
      BY <1>a DEF Home
    <3>2. [row[Home(t)] EXCEPT !.state = "hot", !.handle = wh[t],
             !.snap = IF copy[t].snap = None THEN @ ELSE copy[t].snap] \in Row
      BY <3>1 DEF Row
    <3> QED BY <1>a, <1>n, <2>3, <3>1, <3>2 DEF TypeOK, Tries, MarkHot, Goto, Forget
  <2>4. CASE SetupFails(t) BY <1>a, <1>n, <2>4
          DEF TypeOK, Tries, SetupFails, GiveUp, Forget
  <2> QED BY <1>3, <2>1, <2>2, <2>3, <2>4 DEF Request
<1>4. ASSUME NEW t \in Tasks, Reclaim(t) PROVE TypeOK' /\ Tries'
  <2>j. job[t].at # "none" => job[t] \in Jobs
    BY <1>a DEF NoJob
  <2>1. CASE List(t)
    <3>1. \A s \in Sessions : Reclaimable(s) => [s |-> s, h |-> row[s].handle] \in Candidate
      BY <1>a DEF Reclaimable, Candidate, Row
    <3>2. listed' \in [Tasks -> SUBSET Candidate]
      BY <1>a, <2>1, <3>1 DEF List
    <3> QED BY <1>a, <2>1, <3>2 DEF TypeOK, Tries, List, Goto, Setup
  <2>2. CASE Take(t) BY <1>a, <1>n, <2>2 DEF TypeOK, Tries, Take, Candidate
  <2>3. CASE SnapshotOpen(t)
    <3>1. [job[t] EXCEPT !.at = "tar"] \in Jobs
      BY <2>3, <2>j DEF SnapshotOpen, JobStep, Jobs
    <3> QED BY <1>a, <2>3, <3>1 DEF TypeOK, Tries, SnapshotOpen, JobStep, Jobs
  <2>4. CASE SnapshotTar(t)
    <3>1. job[t] \in Jobs
      BY <2>4, <2>j DEF SnapshotTar
    <3>2. [job[t] EXCEPT !.at = "put", !.data = dir[job[t].h]] \in Jobs
      BY <1>a, <3>1 DEF Jobs
    <3>3. job' = [job EXCEPT ![t] = [@ EXCEPT !.at = "put", !.data = dir[job[t].h]]]
      BY <1>a, <2>4 DEF SnapshotTar
    <3> QED BY <1>a, <2>4, <3>2, <3>3 DEF TypeOK, Tries, SnapshotTar, Jobs
  <2>5. CASE Put(t)
    <3>1. job[t] \in Jobs
      BY <2>5, <2>j DEF Put
    <3>2. [job[t] EXCEPT !.at = "release", !.data = {}] \in Jobs
      BY <3>1 DEF Jobs
    <3>3. job' = [job EXCEPT ![t] = [@ EXCEPT !.at = "release", !.data = {}]]
      BY <1>a, <2>5 DEF Put
    <3>4. objects' \subseteq Handles /\ blob' \in [Handles -> SUBSET Runs]
      BY <1>a, <2>5, <3>1 DEF Put, Jobs
    <3> QED BY <1>a, <2>5, <3>2, <3>3, <3>4 DEF TypeOK, Tries, Put, Jobs
  <2>6. CASE Release(t)
    <3>1. [job[t] EXCEPT !.at = "mark"] \in Jobs
      BY <2>6, <2>j DEF Release, JobStep, Jobs
    <3> QED BY <1>a, <2>6, <3>1 DEF TypeOK, Tries, Release, JobStep, Jobs
  <2>7. CASE MarkSnapshotted(t)
    <3>1. job[t] \in Jobs
      BY <2>7, <2>j DEF MarkSnapshotted
    <3>2. /\ job[t].s \in Sessions
          /\ [row[job[t].s] EXCEPT !.state = "snapshotted", !.handle = None, !.snap = job[t].h] \in Row
      <4>1. job[t].s \in Sessions /\ job[t].h \in Handles
        BY <3>1 DEF Jobs
      <4>2. row[job[t].s] \in Row
        BY <1>a, <4>1
      <4> QED BY <4>1, <4>2, RowUpdates
    <3>3. row' \in [Sessions -> Row]
      BY <1>a, <2>7, <3>2 DEF MarkSnapshotted
    <3>4. tries[t] # 2 => tries[t] <= 1
      BY <1>a
    <3> QED BY <1>a, <1>n, <2>7, <3>3, <3>4
    DEF TypeOK, Tries, MarkSnapshotted, Reclaimed, Forget, Setup, Jobs
  <2>8. CASE JobFails(t) BY <1>a, <1>n, <2>8 DEF TypeOK, Tries, JobFails
  <2>9. CASE ListDone(t) BY <1>a, <1>n, <2>9
          DEF TypeOK, Tries, ListDone, Goto, GiveUp, Forget, Setup
  <2> QED BY <1>4, <2>1, <2>2, <2>3, <2>4, <2>5, <2>6, <2>7, <2>8, <2>9 DEF Reclaim
<1>5. ASSUME NEW t \in Tasks, Crash(t) PROVE TypeOK' /\ Tries'
  BY <1>a, <1>n, <1>5 DEF TypeOK, Tries, Crash, Forget
<1>6. ASSUME UNCHANGED vars PROVE TypeOK' /\ Tries'
  BY <1>6 DEF TypeOK, Tries, Candidate, Row, NoJob
<1> QED BY <1>1, <1>2, <1>3, <1>4, <1>5, <1>6 DEF Next

(***************************************************************************)
(* The requests, and the steps that only move a task.                      *)
(***************************************************************************)
\* A step of one task that leaves the rows, the pool and the store alone, gives
\* at most its own list and job up, or lists what can be reclaimed now.
LEMMA Quiet ==
  ASSUME Setting, TypeOK, IInv, NEW t \in Tasks,
         UNCHANGED <<row, leased, unused, dir, objects, blob, saved>>,
         \A u \in Tasks \ {t} : /\ pc'[u] = pc[u] /\ wh'[u] = wh[u]
         /\ copy'[u] = copy[u]
                                /\ listed'[u] = listed[u] /\ job'[u] = job[u],
         pc[t] # "open", pc'[t] # "work", wh'[t] = wh[t] \/ (pc[t] = "work" /\ wh'[t] = None),
         job'[t] = job[t] \/ (job'[t] = NoJob /\ job[t].at # "mark"),
         t \in Runs \cup Sessions => \A h \in Handles :
           copy'[t].handle = h \/ copy'[t].snap = h => Names(Home(t), h),
         \A c \in listed'[t] :
           c \in listed[t] \/ (/\ Reclaimable(c.s) /\ row[c.s].handle = c.h
                               /\ c = [s |-> c.s, h |-> c.h] /\ c.s \in Sessions),
         Starts(t)', t \in Sessions => Life(t)', t \in Runs => Drives(t)'
  PROVE  IInv'
<1>a. None \notin Handles /\ None \notin Sessions /\ Runs \subseteq Tasks
      /\ Sessions \subseteq Tasks
  BY Typed DEF Tasks, Setting
<1>n. NoJob.s = None /\ NoJob.h = None /\ NoJob.at = "none"
  BY DEF NoJob
<1>1. Apart'
  <2>1. ASSUME NEW q \in Sessions, NEW h \in Handles, Names(q, h)' PROVE Names(q, h)
    <3>2. CASE row'[q].handle = h \/ row'[q].snap = h
      BY <3>2 DEF Names
    <3>3. ASSUME NEW u \in Runs \cup Sessions, Home(u) = q,
                 wh'[u] = h \/ copy'[u].handle = h \/ copy'[u].snap = h
          PROVE  Names(q, h)
      <4>0. u \in Tasks
        BY <1>a
      <4>1. CASE u = t
        BY <1>a, <3>3, <4>1 DEF Names
      <4>2. CASE u # t
        BY <3>3, <4>0, <4>2 DEF Names
      <4> QED BY <4>1, <4>2
    <3>4. ASSUME NEW u \in Tasks,
                 (job'[u].s = q /\ job'[u].h = h) \/ [s |-> q, h |-> h] \in listed'[u]
          PROVE  Names(q, h)
      BY <1>a, <1>n, <3>4 DEF Names
    <3> QED BY <2>1, <3>2, <3>3, <3>4 DEF Names, Home
  <2> QED BY <2>1, ApartKept DEF IInv
<1>2. ASSUME NEW q \in Sessions PROVE Life(q)'
  <2>1. Life(q) /\ q \in Tasks
    BY <1>a DEF IInv
  <2>2. InReclaim(q)' => InReclaim(q) \/ (Reclaimable(q) /\ q \in Sessions)
    BY <1>a, <1>n DEF InReclaim
  <2> QED BY <2>1, <2>2 DEF Life, Exists, Reclaimable
<1>3. ASSUME NEW q \in Sessions PROVE Work(q)'
  BY <1>n DEF IInv, Work, Exists, Marked
<1>4. ASSUME NEW u \in Tasks PROVE Starts(u)'
  BY DEF IInv, Starts
<1>5. ASSUME NEW u \in Tasks PROVE Job(u)'
  <2>1. CASE job'[u] = NoJob
    BY <2>1 DEF Job
  <2>2. CASE job'[u] # NoJob
    <3>1. job'[u] = job[u] /\ Job(u)
      BY <2>2 DEF IInv
    <3>2. job[u] # NoJob => job[u].s # None
      BY <1>a, Fields DEF JobOK
    <3>3. \A v \in Tasks : job'[v] = job[v] \/ job'[v].s = None
      BY <1>n
    <3> QED BY <2>2, <3>1, <3>2, <3>3 DEF Job, Exists
  <2> QED BY <2>1, <2>2
<1>6. ASSUME NEW u \in Tasks PROVE Cands(u)'
  BY DEF IInv, Cands, Exists, Reclaimable
<1>7. ASSUME NEW q \in Runs PROVE Drives(q)'
  <2>1. Drives(q) /\ q \in Tasks /\ SessionOf[q] \in Tasks
    BY <1>a, Typed DEF IInv
  <2> QED BY <1>a, <2>1 DEF Drives, Exists
<1>8. ASSUME NEW h \in leased' PROVE Held(h)'
  BY <1>a DEF IInv, Held
<1> QED BY <1>1, <1>2, <1>3, <1>4, <1>5, <1>6, <1>7, <1>8 DEF IInv

\* create_session puts the row.
LEMMA StepReserve ==
  ASSUME Setting, TypeOK, IInv, NEW s \in Sessions, Reserve(s) PROVE IInv'
<1>a. s \in Tasks /\ s # None /\ None \notin Handles /\ None \notin Runs
  BY Typed DEF Setting, Tasks
<1>b. /\ pc[s] = "idle" /\ row[s] = NoRow /\ saved[s] = {} /\ ~InReclaim(s)
      /\ NoRow.handle = None /\ NoRow.snap = None /\ NoRow.run = None
      /\ NoRow.state = "none"
  BY DEF IInv, Life, Reserve, Goto, NoRow
<1>c. /\ UNCHANGED <<leased, unused, dir, objects, blob, copy, wh, listed, job, saved>>
      /\ \A q \in Sessions \ {s} : row'[q] = row[q]
      /\ row'[s].run = None /\ row'[s].handle = None /\ row'[s].snap = None
      /\ row'[s].state = "hot"
      /\ pc'[s] = "alloc" /\ \A t \in Tasks \ {s} : pc'[t] = pc[t]
  BY <1>a, Typed DEF Reserve, Goto, poolVars, storeVars, NoRow
<1>1. Apart'
  <2>1. ASSUME NEW q \in Sessions, NEW h \in Handles, Names(q, h)' PROVE Names(q, h)
    BY <1>a, <1>c, <2>1 DEF Names, Home
  <2> QED BY <1>c, <2>1, ApartKept DEF IInv
<1>2. ASSUME NEW q \in Sessions PROVE Life(q)'
  <2>1. Life(q) /\ q \in Tasks /\ InReclaim(q)' = InReclaim(q)
    BY <1>c DEF IInv, Tasks, InReclaim
  <2> QED BY <1>a, <1>b, <1>c, <2>1 DEF Life, Exists, Setup
<1>3. ASSUME NEW q \in Sessions PROVE Work(q)'
  BY <1>a, <1>b, <1>c DEF IInv, Work, Exists, Marked
<1>4. ASSUME NEW u \in Tasks PROVE Starts(u)'
  BY <1>a, <1>b, <1>c DEF IInv, Starts, Setting
<1>5. ASSUME NEW u \in Tasks PROVE Job(u)'
  BY <1>a, <1>b, <1>c, Fields DEF IInv, Job, InReclaim, Exists, JobOK
<1>6. ASSUME NEW u \in Tasks PROVE Cands(u)'
  BY <1>a, <1>b, <1>c, Fields DEF IInv, Cands, InReclaim, Exists
<1>7. ASSUME NEW q \in Runs PROVE Drives(q)'
  <2>1. Drives(q) /\ q \in Tasks \ {s} /\ SessionOf[q] \in Sessions
        /\ SessionOf[q] \in Tasks
    BY <1>a, Typed DEF IInv, Tasks, Setting
  <2> QED BY <1>a, <1>b, <1>c, <2>1 DEF Drives, Setup, Exists
<1>8. ASSUME NEW h \in leased' PROVE Held(h)'
  BY <1>a, <1>b, <1>c, Typed DEF IInv, Held
<1> QED BY <1>1, <1>2, <1>3, <1>4, <1>5, <1>6, <1>7, <1>8 DEF IInv

\* start_run takes the lease: the row it read is the row there is.
LEMMA StepLease ==
  ASSUME Setting, TypeOK, IInv, NEW r \in Runs, Lease(r) PROVE IInv'
<1> DEFINE s == SessionOf[r]
<1>a. /\ s \in Sessions /\ r # None /\ r \in Tasks /\ s \in Tasks /\ r # s
      /\ RowOK(row[s]) /\ RowOK(copy[r]) /\ None \notin Handles
  BY Typed, Fields DEF Setting, Tasks
<1>b. /\ pc[r] = "lease" /\ Exists(s) /\ pc[s] = "open" /\ row[s].run = None
      /\ ~InReclaim(s)
      /\ copy[r].handle = row[s].handle /\ copy[r].snap = row[s].snap
      /\ copy[r].state = row[s].state
  <2>1. copy[r] = [row[s] EXCEPT !.run = copy[r].run]
    BY DEF Lease, Setting
  <2>2. row[s] \in Row
    BY <1>a, Typed
  <2>3. [row[s] EXCEPT !.run = copy[r].run].handle = row[s].handle
        /\ [row[s] EXCEPT !.run = copy[r].run].snap = row[s].snap
        /\ [row[s] EXCEPT !.run = copy[r].run].state = row[s].state
    BY <2>2 DEF Row
  <2> QED BY <1>a, <2>1, <2>3 DEF Lease, Setting, Usable
<1>c. /\ UNCHANGED <<leased, unused, dir, objects, blob, listed, job, saved>>
      /\ \A q \in Sessions \ {s} : row'[q] = row[q]
      /\ row'[s].run = r /\ row'[s].handle = row[s].handle /\ row'[s].snap = row[s].snap
      /\ row'[s].state = row[s].state
      /\ pc'[r] = IF Hot(copy[r]) THEN "work" ELSE "alloc"
      /\ wh'[r] = IF Hot(copy[r]) THEN copy[r].handle ELSE None
      /\ \A t \in Tasks \ {r} : pc'[t] = pc[t] /\ wh'[t] = wh[t] /\ copy'[t] = copy[t]
      /\ copy'[r] = IF Hot(copy[r]) THEN NoRow ELSE copy[r]
  BY <1>a, Typed DEF Lease, poolVars, storeVars, Forget, Row
<1> HIDE DEF s
<1>1. Apart'
  <2>1. ASSUME NEW q \in Sessions, NEW h \in Handles, Names(q, h)' PROVE Names(q, h)
    <3>1. NoRow.handle = None /\ NoRow.snap = None
      BY DEF NoRow
    <3>2. CASE row'[q].handle = h \/ row'[q].snap = h
      BY <1>a, <1>c, <3>2 DEF Names
    <3>3. CASE \E t \in Runs \cup Sessions :
       Home(t) = q /\ (wh'[t] = h \/ copy'[t].handle = h \/ copy'[t].snap = h)
      BY <1>a, <1>c, <3>1, <3>3 DEF Names, Tasks
    <3>4. CASE \E t \in Tasks :
                (job'[t].s = q /\ job'[t].h = h) \/ [s |-> q, h |-> h] \in listed'[t]
      BY <1>c, <3>4 DEF Names
    <3> QED BY <2>1, <3>2, <3>3, <3>4 DEF Names, Home
  <2> QED BY <1>c, <2>1, ApartKept DEF IInv
<1>2. ASSUME NEW q \in Sessions PROVE Life(q)'
  <2>1. Life(q) /\ q \in Tasks \ {r} /\ InReclaim(q)' = InReclaim(q)
    BY <1>a, <1>c DEF IInv, Tasks, Setting, InReclaim
  <2>2. CASE q = s
    BY <1>a, <1>b, <1>c, <2>1, <2>2 DEF Life, Exists, Setup
  <2>3. CASE q # s
    BY <1>a, <1>b, <1>c, <2>1, <2>3 DEF Life, Exists
  <2> QED BY <2>2, <2>3
<1>3. ASSUME NEW q \in Sessions PROVE Work(q)'
  BY <1>a, <1>b, <1>c DEF IInv, Work, Exists, Marked
<1>4. ASSUME NEW t \in Tasks PROVE Starts(t)'
  BY <1>a, <1>b, <1>c DEF IInv, Starts, Setting
<1>5. ASSUME NEW t \in Tasks PROVE Job(t)'
  BY <1>a, <1>b, <1>c, Fields DEF IInv, Job, InReclaim, Exists, JobOK
<1>6. ASSUME NEW t \in Tasks PROVE Cands(t)'
  BY <1>a, <1>b, <1>c, Fields DEF IInv, Cands, InReclaim, Exists
<1>7. ASSUME NEW q \in Runs PROVE Drives(q)'
  <2>1. Drives(q) /\ Life(s) /\ q \in Tasks /\ SessionOf[q] \in Sessions
        /\ SessionOf[q] \in Tasks \ {r} /\ q # None
    BY <1>a, Typed DEF IInv, Tasks, Setting
  <2>2. CASE q = r
    <3>1. s = SessionOf[r]
      BY DEF s
    <3> QED BY <1>a, <1>b, <1>c, <2>1, <2>2, <3>1
    DEF Drives, Life, Setup, Exists, Hot, RowOK
  <2>3. CASE q # r
    BY <1>a, <1>b, <1>c, <2>1, <2>3 DEF Drives, Setup, Exists
  <2> QED BY <2>2, <2>3
<1>8. ASSUME NEW h \in leased' PROVE Held(h)'
  BY <1>a, <1>b, <1>c, Typed DEF IInv, Held, Starts
<1> QED BY <1>1, <1>2, <1>3, <1>4, <1>5, <1>6, <1>7, <1>8 DEF IInv

\* A creation that fails deletes its row.
LEMMA Undone ==
  ASSUME Setting, TypeOK, IInv, NEW s \in Sessions, pc[s] \in Setup, job[s] = NoJob, GiveUp(s),
         UNCHANGED <<leased, unused, dir, objects, blob, wh, listed, job, saved>>
  PROVE  IInv'
<1>a. s \in Tasks \ Runs /\ None \notin Handles /\ None \notin Runs
      /\ NoRow.handle = None /\ NoRow.snap = None
      /\ NoRow.run = None /\ NoRow.state = "none"
  BY Typed DEF Setting, Tasks, NoRow
<1>b. ~InReclaim(s) /\ row[s].handle = None /\ row[s].run = None /\ saved[s] = {}
  BY DEF IInv, Life, Setup
<1>c. /\ row'[s] = NoRow /\ pc'[s] = "over" /\ copy'[s] = NoRow
      /\ \A q \in Sessions \ {s} : row'[q] = row[q]
      /\ \A u \in Tasks \ {s} : pc'[u] = pc[u] /\ copy'[u] = copy[u]
  BY <1>a, Typed DEF GiveUp, Forget
<1>1. Apart'
  <2>1. ASSUME NEW q \in Sessions, NEW h \in Handles, Names(q, h)' PROVE Names(q, h)
    BY <1>a, <1>c, <2>1 DEF Names, Home, Tasks
  <2> QED BY <2>1, ApartKept DEF IInv
<1>2. ASSUME NEW q \in Sessions PROVE Life(q)'
  <2>1. Life(q) /\ q \in Tasks /\ InReclaim(q)' = InReclaim(q)
    BY DEF IInv, Tasks, InReclaim
  <2> QED BY <1>a, <1>b, <1>c, <2>1 DEF Life, Exists, Setup
<1>3. ASSUME NEW q \in Sessions PROVE Work(q)'
  BY <1>a, <1>b, <1>c DEF IInv, Work, Exists, Marked
<1>4. ASSUME NEW u \in Tasks PROVE Starts(u)'
  BY <1>a, <1>c DEF IInv, Starts, Setting
<1>5. ASSUME NEW u \in Tasks PROVE Job(u)'
  BY <1>a, <1>b, <1>c, Fields DEF IInv, Job, InReclaim, Exists, JobOK
<1>6. ASSUME NEW u \in Tasks PROVE Cands(u)'
  BY <1>a, <1>b, <1>c, Fields DEF IInv, Cands, InReclaim, Exists
<1>7. ASSUME NEW q \in Runs PROVE Drives(q)'
  <2>1. Drives(q) /\ q \in Tasks \ {s} /\ SessionOf[q] \in Sessions
        /\ SessionOf[q] \in Tasks
    BY <1>a, Typed DEF IInv, Tasks, Setting
  <2> QED BY <1>a, <1>b, <1>c, <2>1 DEF Drives, Setup, Exists
<1>8. ASSUME NEW h \in leased' PROVE Held(h)'
  BY <1>a, <1>b, <1>c, Typed DEF IInv, Held
<1> QED BY <1>1, <1>2, <1>3, <1>4, <1>5, <1>6, <1>7, <1>8 DEF IInv

\* The steps that only move a task: see Quiet; a failed request: see Undone.
LEMMA StepQuiet ==
  ASSUME Setting, TypeOK, IInv, NEW t \in Tasks,
         \/ t \in Runs /\ (GetSession(t) \/ Refused(t))
         \/ t \in Runs \cup Sessions /\ (AllocFull(t) \/ SetupFails(t))
         \/ List(t) \/ JobFails(t) \/ ListDone(t) \/ Crash(t)
  PROVE  IInv'
<1>a. /\ None \notin Handles /\ None \notin Sessions /\ NoRow.handle = None
      /\ NoRow.snap = None /\ NoJob.at = "none"
      /\ Starts(t) /\ (t \in Sessions => Life(t))
            /\ (t \in Runs => Drives(t) /\ SessionOf[t] \in Sessions /\ SessionOf[t] \in Tasks \ {t})
      /\ (t \in Runs => t \notin Sessions)
            /\ (t \in Loops => t \notin Runs \cup Sessions)
  BY Typed DEF IInv, Tasks, Setting, NoRow, NoJob
<1> USE Typed DEF poolVars, storeVars, taskVars
<1>1. CASE t \in Runs /\ GetSession(t)
  <2>1. /\ UNCHANGED <<row, leased, unused, dir, objects, blob, wh, listed, job, saved>>
        /\ pc[t] = "idle" /\ pc'[t] = "lease" /\ copy'[t] = row[SessionOf[t]]
        /\ \A u \in Tasks \ {t} : pc'[u] = pc[u] /\ copy'[u] = copy[u]
    BY <1>1 DEF GetSession, Goto
  <2>2. \A h \in Handles : copy'[t].handle = h \/ copy'[t].snap = h => Names(Home(t), h)
    BY <1>1, <2>1 DEF Names, Home
  <2>3. Starts(t)' /\ Drives(t)'
    BY <1>a, <1>1, <2>1 DEF Starts, Drives, Setup
  <2> QED BY <1>a, <1>1, <2>1, <2>2, <2>3, Quiet
<1>2. CASE t \in Runs /\ Refused(t)
  <2>1. /\ UNCHANGED <<row, leased, unused, dir, objects, blob, wh, listed, job, saved>>
        /\ pc[t] = "lease" /\ pc'[t] = "over" /\ copy'[t] = NoRow
        /\ \A u \in Tasks \ {t} : pc'[u] = pc[u] /\ copy'[u] = copy[u]
    BY <1>2 DEF Refused, Goto, Forget
  <2>3. Starts(t)' /\ Drives(t)'
    BY <1>a, <1>2, <2>1 DEF Starts, Drives, Setup
  <2> QED BY <1>a, <1>2, <2>1, <2>3, Quiet
<1>g. ASSUME t \in Runs \cup Sessions, GiveUp(t), pc[t] \in Setup, job[t] = NoJob,
             UNCHANGED <<leased, unused, dir, objects, blob, wh, listed, job, saved>>
      PROVE  IInv'
  <2>1. CASE t \in Sessions
    BY <1>g, <2>1, Undone
  <2>2. CASE t \in Runs
    <3>1. /\ row' = row /\ pc'[t] = "leaked" /\ copy'[t] = NoRow
          /\ \A u \in Tasks \ {t} : pc'[u] = pc[u] /\ copy'[u] = copy[u]
      BY <1>a, <1>g, <2>2 DEF GiveUp, Forget
    <3>2. Starts(t)' /\ Drives(t)'
      BY <1>a, <1>g, <2>2, <3>1 DEF Starts, Drives, Setup
    <3>3. pc[t] # "open"
      BY <1>g DEF Setup
    <3> QED BY <1>a, <1>g, <2>2, <3>1, <3>2, <3>3, Quiet
  <2> QED BY <1>g, <2>1, <2>2
<1>3. CASE t \in Runs \cup Sessions /\ AllocFull(t)
  <2>0. pc[t] = "alloc" /\ job[t] = NoJob /\ pc[t] \in Setup
    BY <1>a, <1>3 DEF AllocFull, Starts, Setup
  <2>1. CASE t \in Runs \/ tries[t] = 0
    <3>1. /\ UNCHANGED <<row, leased, unused, dir, objects, blob, wh, listed, job, saved, copy>>
          /\ pc'[t] = "preempt" /\ \A u \in Tasks \ {t} : pc'[u] = pc[u]
      BY <1>3, <2>1 DEF AllocFull
    <3>2. Starts(t)' /\ (t \in Runs => Drives(t)') /\ (t \in Sessions => Life(t)')
      <4>1. Starts(t)'
        BY <1>a, <1>3, <2>0, <3>1 DEF Starts
      <4>2. t \in Runs => Drives(t)'
        BY <1>a, <2>0, <3>1 DEF Drives, Setup, Exists
      <4>3. InReclaim(t)' = InReclaim(t) /\ pc'[t] \in Setup
        BY <3>1 DEF InReclaim, Setup
      <4>4. t \in Sessions => Life(t)'
        BY <1>a, <2>0, <3>1, <4>3 DEF Life, Exists, Setup
      <4> QED BY <4>1, <4>2, <4>4
    <3>3. \A h \in Handles : copy'[t].handle = h \/ copy'[t].snap = h => Names(Home(t), h)
      BY <1>3, <3>1 DEF Names
    <3> QED BY <1>a, <1>3, <2>0, <3>1, <3>2, <3>3, Quiet
  <2>2. CASE ~(t \in Runs \/ tries[t] = 0)
    <3>1. GiveUp(t)
          /\ UNCHANGED <<leased, unused, dir, objects, blob, wh, listed, job, saved>>
      BY <1>3, <2>2 DEF AllocFull
    <3> QED BY <1>3, <2>0, <3>1, <1>g
  <2> QED BY <2>1, <2>2
<1>4. CASE t \in Runs \cup Sessions /\ SetupFails(t)
  <2>1. pc[t] \in Setup /\ job[t] = NoJob
    BY <1>a, <1>4 DEF SetupFails, Setup, Starts
  <2>2. GiveUp(t)
        /\ UNCHANGED <<leased, unused, dir, objects, blob, wh, listed, job, saved>>
    BY <1>4 DEF SetupFails
  <2> QED BY <1>4, <2>1, <2>2, <1>g
<1>k. \A h \in Handles : t \in Runs \cup Sessions =>
        (copy[t].handle = h \/ copy[t].snap = h => Names(Home(t), h))
  BY DEF Names
<1>5. CASE List(t)
  <2>1. /\ UNCHANGED <<row, leased, unused, dir, objects, blob, wh, job, saved, copy>>
        /\ pc[t] \in {"idle", "preempt", "others"} /\ pc'[t] \in {"own", "reclaim"}
              /\ (t \notin Loops => pc[t] # "idle")
                    /\ (pc'[t] = "own" => pc[t] = "preempt")
        /\ \A u \in Tasks \ {t} : pc'[u] = pc[u] /\ listed'[u] = listed[u]
    BY <1>5, <1>a DEF List, Goto
  <2>2. \A c \in listed'[t] : c.s \in Sessions /\ Reclaimable(c.s)
        /\ row[c.s].handle = c.h /\ c = [s |-> c.s, h |-> c.h]
    BY <1>5 DEF List
  <2>3. Starts(t)'
    BY <1>a, <2>1 DEF Starts
  <2>4. t \in Runs => Drives(t)'
    BY <1>a, <2>1 DEF Drives, Setup, Exists
  <2>5. t \in Sessions => Life(t)'
    <3>1. ASSUME t \in Sessions PROVE ~InReclaim(t)' /\ pc[t] \in Setup
                 /\ pc'[t] \in Setup
      <4>1. pc[t] \in Setup /\ pc'[t] \in Setup /\ ~InReclaim(t) /\ row[t].handle = None
        BY <1>a, <2>1, <3>1 DEF Life, Setup
      <4> QED BY <2>1, <2>2, <4>1 DEF InReclaim, Reclaimable
    <3> QED BY <1>a, <2>1, <3>1 DEF Life, Exists, Setup
  <2>6. pc'[t] # "work" /\ pc[t] # "open"
    BY <2>1
  <2> QED BY <1>a, <1>k, <2>1, <2>2, <2>3, <2>4, <2>5, <2>6, Quiet
<1>6. CASE JobFails(t)
  <2>1. /\ UNCHANGED <<row, leased, unused, dir, objects, blob, wh, listed, pc, saved, copy>>
        /\ job'[t] = NoJob /\ \A u \in Tasks \ {t} : job'[u] = job[u]
    BY <1>6 DEF JobFails
  <2>2. job[t].at # "mark" /\ job[t] # NoJob /\ pc[t] \in {"own", "reclaim"}
    BY <1>a, <1>6 DEF JobFails, Setting, Starts
  <2>3. Starts(t)' /\ (t \in Runs => Drives(t)')
    BY <1>a, <2>1, <2>2 DEF Starts, Drives, Exists
  <2>4. t \in Sessions => Life(t)'
    <3>1. InReclaim(t)' => InReclaim(t) \/ t = None
      BY <2>1 DEF InReclaim, NoJob
    <3> QED BY <1>a, <2>1, <3>1 DEF Life, Exists
  <2> QED BY <1>a, <1>k, <2>1, <2>2, <2>3, <2>4, Quiet
<1>7. CASE ListDone(t)
  <2>0. job[t] = NoJob /\ listed[t] = {}
        /\ UNCHANGED <<leased, unused, dir, objects, blob, wh, listed, job, saved>>
    BY <1>7 DEF ListDone
  <2>1. CASE t \notin Loops /\ pc[t] = "reclaim" /\ GiveUp(t)
    <3>1. t \in Runs \cup Sessions /\ pc[t] \in Setup
      BY <2>1 DEF Tasks, Setup
    <3> QED BY <1>g, <2>0, <2>1, <3>1
  <2>2. CASE ~(t \notin Loops /\ pc[t] = "reclaim" /\ GiveUp(t))
    <3>1. /\ UNCHANGED <<row, copy>> /\ \A u \in Tasks \ {t} : pc'[u] = pc[u]
          /\ \/ pc[t] = "own" /\ pc'[t] = "others"
             \/ t \in Loops /\ pc[t] = "reclaim" /\ pc'[t] = "idle"
      BY <1>7, <2>2 DEF ListDone, Goto
    <3>2. Starts(t)'
      BY <1>a, <2>0, <3>1 DEF Starts
    <3>3. t \in Runs => Drives(t)'
      BY <1>a, <2>0, <3>1 DEF Drives, Setup, Exists
    <3>4. InReclaim(t)' = InReclaim(t)
      BY <2>0 DEF InReclaim
    <3>5. t \in Sessions => Life(t)'
      BY <1>a, <2>0, <3>1, <3>4 DEF Life, Exists, Setup
    <3> QED BY <1>a, <1>k, <2>0, <3>1, <3>2, <3>3, <3>5, Quiet
  <2> QED BY <2>1, <2>2
<1>8. CASE Crash(t)
  <2>1. /\ UNCHANGED <<row, leased, unused, dir, objects, blob, saved>>
        /\ pc[t] \notin {"idle", "over", "open", "leaked"} /\ job[t].at # "mark"
        /\ pc'[t] = CASE t \in Loops -> "idle"
                     [] t \in Runs  -> IF pc[t] = "lease" THEN "over" ELSE "leaked"
                     [] OTHER       -> "open"
        /\ wh'[t] = IF pc[t] = "work" THEN None ELSE wh[t]
        /\ listed'[t] = {} /\ job'[t] = NoJob /\ copy'[t] = NoRow
        /\ \A u \in Tasks \ {t} : /\ pc'[u] = pc[u] /\ wh'[u] = wh[u]
              /\ copy'[u] = copy[u]
                                   /\ listed'[u] = listed[u] /\ job'[u] = job[u]
    BY <1>8 DEF Crash, Forget, Setting
  <2>2. pc'[t] \in {"idle", "over", "leaked", "open"}
        /\ (t \in Loops => pc'[t] = "idle")
              /\ (t \in Runs => pc'[t] \in {"over", "leaked"})
        /\ (t \in Sessions => pc'[t] = "open")
    BY <1>a, <2>1 DEF Tasks
  <2>3. Starts(t)'
    BY <1>a, <2>1, <2>2 DEF Starts
  <2>4. t \in Runs => Drives(t)'
    BY <1>a, <2>1, <2>2 DEF Drives, Setup
  <2>5. t \in Sessions => Life(t)'
    BY <1>a, <2>1, <2>2 DEF Life, Setup
  <2> QED BY <1>a, <2>1, <2>2, <2>3, <2>4, <2>5, Quiet
<1> QED BY <1>1, <1>2, <1>3, <1>4, <1>5, <1>6, <1>7, <1>8

\* The handle that is allocated is new to everybody.
LEMMA StepAlloc ==
  ASSUME Setting, TypeOK, IInv, NEW t \in Runs \cup Sessions, Alloc(t) PROVE IInv'
<1>a. None \notin Handles /\ t \in Tasks /\ (t \in Sessions => t \notin Runs)
      /\ t \notin Loops
  BY Typed DEF Setting, Tasks
<1>1. PICK f \in unused : leased' = leased \cup {f} /\ unused' = unused \ {f}
             /\ wh' = [wh EXCEPT ![t] = f]
  BY DEF Alloc
<1>b. /\ pc[t] = "alloc" /\ wh[t] = None /\ job[t] = NoJob /\ f \in Handles
      /\ f \notin leased
      /\ \A s \in Sessions : ~Names(s, f)
  BY <1>a, Typed DEF Alloc, Goto, IInv, Starts, Apart
<1>c. /\ UNCHANGED <<row, dir, objects, blob, copy, listed, job, saved>>
      /\ wh'[t] = f /\ pc'[t] = IF t \in Runs THEN "restore" ELSE "mark"
      /\ \A u \in Tasks \ {t} : pc'[u] = pc[u] /\ wh'[u] = wh[u]
  BY <1>a, <1>1, Typed DEF Alloc, Goto, storeVars
<1>2. Apart'
  <2>1. ASSUME NEW q \in Sessions, NEW h \in Handles, Names(q, h)'
        PROVE Names(q, h) \/ (h = f /\ q = Home(t))
    BY <1>a, <1>b, <1>c, <2>1 DEF Names, Home, Tasks
  <2>2. \A h \in unused' : h # f /\ h \in unused
    BY <1>1
  <2> QED BY <1>b, <2>1, <2>2 DEF IInv, Apart
<1>3. ASSUME NEW q \in Sessions PROVE Life(q)'
  <2>1. Life(q) /\ q \in Tasks /\ InReclaim(q)' = InReclaim(q)
    BY <1>c DEF IInv, Tasks, InReclaim
  <2>2. pc[q] = "drop" => copy[q].handle # f
    BY <1>b DEF Names, Home, Setting
  <2> QED BY <1>a, <1>1, <1>b, <1>c, <2>1, <2>2 DEF Life, Exists, Setup
<1>4. ASSUME NEW q \in Sessions PROVE Work(q)'
  BY <1>c DEF IInv, Work, Exists, Marked
<1>5. ASSUME NEW u \in Tasks PROVE Starts(u)'
  BY <1>a, <1>b, <1>c DEF IInv, Starts, Setting
<1>6. ASSUME NEW u \in Tasks PROVE Job(u)'
  <2>1. job[u] # NoJob => job[u].h # f /\ job[u].s \in Sessions
    BY <1>b, Fields DEF Names, JobOK
  <2> QED BY <1>1, <1>c, <2>1 DEF IInv, Job, Exists
<1>7. ASSUME NEW u \in Tasks PROVE Cands(u)'
  <2>1. \A c \in listed[u] : c.h # f
    BY <1>b, Fields DEF Names
  <2> QED BY <1>1, <1>c, <2>1 DEF IInv, Cands, Exists
<1>8. ASSUME NEW q \in Runs PROVE Drives(q)'
  <2>1. Drives(q) /\ q \in Tasks /\ SessionOf[q] \in Tasks /\ SessionOf[q] \in Sessions
        /\ (t \in Sessions => Life(t))
              /\ (pc[SessionOf[q]] = "open" => SessionOf[q] # t)
    BY <1>b, Typed DEF IInv, Tasks
  <2> QED BY <1>a, <1>b, <1>c, <2>1 DEF Drives, Setup, Exists
<1>9. ASSUME NEW h \in leased' PROVE Held(h)'
  <2>1. CASE h = f
    BY <1>a, <1>c, <2>1 DEF Held
  <2>2. CASE h # f
    BY <1>a, <1>b, <1>c, <1>1, <2>2, Typed DEF IInv, Held
  <2> QED BY <2>1, <2>2
<1> QED BY <1>2, <1>3, <1>4, <1>5, <1>6, <1>7, <1>8, <1>9 DEF IInv

\* ensure_hot fills the directory that only its own session names.
LEMMA StepRestore ==
  ASSUME Setting, TypeOK, IInv, NEW r \in Runs, Restore(r) PROVE IInv'
<1> DEFINE s == SessionOf[r]
<1>a. None \notin Handles /\ None \notin Runs /\ r \in Tasks /\ s \in Sessions
      /\ s \in Tasks \ {r}
  BY Typed DEF Setting, Tasks
<1>b. /\ pc[r] = "restore" /\ wh[r] # None /\ wh[r] \in Handles /\ job[r] = NoJob
      /\ row[s].handle = None /\ copy[r].snap = row[s].snap /\ row[s].run = r
      /\ Exists(s) /\ pc[s] = "open"
      /\ Names(s, wh[r])
  <2>1. pc[r] = "restore" /\ Drives(r) /\ Starts(r)
    BY <1>a DEF Restore, Goto, IInv
  <2> QED BY <1>a, <2>1, Typed DEF Drives, Starts, Setup, Names, Home
<1>c. /\ UNCHANGED <<row, leased, unused, objects, blob, copy, wh, listed, job, saved>>
      /\ pc'[r] = "mark" /\ \A u \in Tasks \ {r} : pc'[u] = pc[u]
      /\ \A h \in Handles \ {wh[r]} : dir'[h] = dir[h]
      /\ \/ copy[r].snap \in objects /\ dir'[wh[r]] = blob[copy[r].snap]
         \/ copy[r].snap \notin objects /\ dir' = dir
  BY <1>a, <1>b, Typed DEF Restore, Goto, storeVars, Setting
<1> HIDE DEF s
<1>1. Apart'
  <2>1. ASSUME NEW q \in Sessions, NEW h \in Handles, Names(q, h)' PROVE Names(q, h)
    BY <1>c, <2>1 DEF Names, Home
  <2> QED BY <1>c, <2>1, ApartKept DEF IInv
<1>2. ASSUME NEW q \in Sessions PROVE Life(q)'
  <2>1. Life(q) /\ q \in Tasks \ {r} /\ InReclaim(q)' = InReclaim(q)
    BY <1>c DEF IInv, Tasks, InReclaim, Setting
  <2> QED BY <1>c, <2>1 DEF Life, Exists
<1>d. ASSUME NEW q \in Sessions, Names(q, wh[r]) PROVE q = s
  BY <1>a, <1>b, <1>d DEF IInv, Apart
<1>3. ASSUME NEW q \in Sessions PROVE Work(q)'
  <2>1. row[q].handle # wh[r]
    BY <1>b, <1>d DEF Names
  <2>2. row[q].handle \in Handles \cup {None}
    BY Fields DEF RowOK
  <2> QED BY <1>c, <2>1, <2>2 DEF IInv, Work, Exists, Marked
<1>4. ASSUME NEW u \in Tasks PROVE Starts(u)'
  BY <1>a, <1>b, <1>c DEF IInv, Starts, Setting
<1>5. ASSUME NEW u \in Tasks PROVE Job(u)'
  BY <1>c DEF IInv, Job, Exists
<1>6. ASSUME NEW u \in Tasks PROVE Cands(u)'
  BY <1>c DEF IInv, Cands, Exists
<1>7. ASSUME NEW q \in Runs PROVE Drives(q)'
  <2>1. Drives(q) /\ q \in Tasks /\ SessionOf[q] \in Tasks \ {r}
        /\ SessionOf[q] \in Sessions
    BY <1>a, Typed DEF IInv, Tasks, Setting
  <2>2. CASE q = r
    <3>1. Work(s) /\ SessionOf[r] = s /\ ~Marked(s)
      <4>1. ASSUME NEW u \in Tasks, job[u].s = s PROVE FALSE
        <5>1. job[u] # NoJob
          BY <1>a, <4>1 DEF NoJob, Setting
        <5> QED BY <1>a, <1>b, <4>1, <5>1 DEF IInv, Job
      <4> QED BY <1>a, <4>1 DEF IInv, Marked, s
    <3>2. saved[s] \subseteq dir'[wh[r]]
      BY <1>b, <1>c, <3>1 DEF Work
    <3> QED BY <1>a, <1>b, <1>c, <2>1, <2>2, <3>1, <3>2 DEF Drives, Setup, Exists
  <2>3. CASE q # r
    <3>1. pc[q] = "mark" => wh[q] \in Handles \ {wh[r]}
      <4>1. ASSUME pc[q] = "mark", wh[q] = wh[r] PROVE FALSE
        <5>1. Names(SessionOf[q], wh[r])
          BY <4>1 DEF Names, Home
        <5>2. SessionOf[q] = s
          BY <2>1, <5>1, <1>d
        <5> QED BY <1>b, <2>1, <2>3, <4>1, <5>2 DEF Drives, Setup
      <4> QED BY <2>1, <4>1, Typed DEF Drives
    <3> QED BY <1>a, <1>b, <1>c, <2>1, <2>3, <3>1 DEF Drives, Setup, Exists
  <2> QED BY <2>2, <2>3
<1>8. ASSUME NEW h \in leased' PROVE Held(h)'
  BY <1>a, <1>b, <1>c, Typed DEF IInv, Held
<1> QED BY <1>1, <1>2, <1>3, <1>4, <1>5, <1>6, <1>7, <1>8 DEF IInv

\* mark_hot: the row names a directory that has all the work.
LEMMA StepMarkHot ==
  ASSUME Setting, TypeOK, IInv, NEW t \in Runs \cup Sessions, MarkHot(t) PROVE IInv'
<1> DEFINE s == Home(t)
<1>a. None \notin Handles /\ None \notin Runs /\ None \notin Sessions /\ t \in Tasks
      /\ s \in Sessions /\ s \in Tasks
      /\ (t \in Runs => s # t /\ s = SessionOf[t] /\ t \notin Sessions)
            /\ (t \in Sessions => s = t /\ t \notin Runs) /\ t \notin Loops
      /\ NoRow.handle = None /\ NoRow.snap = None
  BY Typed DEF Setting, Tasks, Home, NoRow
<1>b. /\ pc[t] = "mark" /\ job[t] = NoJob /\ wh[t] \in Handles \cup {None}
            /\ (t \in Runs => wh[t] # None)
      /\ row[s].handle = None /\ Exists(s) /\ RowOK(row[s]) /\ RowOK(copy[t])
      /\ (t \in Runs => row[s].run = t /\ pc[s] = "open" /\ copy[t].snap = row[s].snap)
      /\ (t \in Runs => saved[s] \subseteq dir[wh[t]])
      /\ (t \in Sessions => saved[s] = {} /\ row[s].run = None)
      /\ \A h \in Handles : wh[t] = h \/ copy[t].snap = h => Names(s, h)
  <2>1. pc[t] = "mark" /\ Starts(t) /\ RowOK(row[s]) /\ RowOK(copy[t])
        /\ wh[t] \in Handles \cup {None}
    BY <1>a, Fields, Typed DEF MarkHot, Goto, IInv
  <2>2. CASE t \in Runs
    BY <1>a, <2>1, <2>2 DEF IInv, Drives, Starts, Setup, Names
  <2>3. CASE t \in Sessions
    BY <1>a, <2>1, <2>3 DEF IInv, Life, Starts, Setup, Names
  <2> QED BY <2>2, <2>3
<1>c. /\ UNCHANGED <<leased, unused, dir, objects, blob, listed, job, saved>>
      /\ pc'[t] = IF t \in Runs THEN "work" ELSE "open"
      /\ \A u \in Tasks \ {t} : pc'[u] = pc[u] /\ copy'[u] = copy[u] /\ wh'[u] = wh[u]
      /\ copy'[t] = NoRow
      /\ \A q \in Sessions \ {s} : row'[q] = row[q]
      /\ row'[s].run = row[s].run
      /\ \/ /\ row'[s].state = "hot" /\ row'[s].handle = wh[t]
            /\ row'[s].snap = IF copy[t].snap = None THEN row[s].snap ELSE copy[t].snap
            /\ wh'[t] = IF t \in Runs THEN wh[t] ELSE None
         \/ t \in Sessions /\ row' = row /\ wh' = wh
  <2>1. row[s] \in Row
    BY <1>a, Typed
  <2> DEFINE hot == [row[s] EXCEPT !.state = "hot", !.handle = wh[t],
                                   !.snap = IF copy[t].snap = None THEN @ ELSE copy[t].snap]
  <2>2. /\ hot.state = "hot" /\ hot.handle = wh[t] /\ hot.run = row[s].run
        /\ hot.snap = IF copy[t].snap = None THEN row[s].snap ELSE copy[t].snap
    BY <2>1 DEF Row
  <2>3. /\ \/ row' = [row EXCEPT ![s] = hot]
              /\ wh' = IF t \in Runs THEN wh ELSE [wh EXCEPT ![t] = None]
           \/ t \in Sessions /\ UNCHANGED <<row, wh>>
        /\ pc' = [pc EXCEPT ![t] = IF t \in Runs THEN "work" ELSE "open"]
        /\ copy' = [copy EXCEPT ![t] = NoRow]
        /\ UNCHANGED <<leased, unused, dir, objects, blob, listed, job, saved>>
    BY <1>b DEF MarkHot, Goto, Forget, poolVars, storeVars
  <2> HIDE DEF hot
  <2>4. /\ pc'[t] = IF t \in Runs THEN "work" ELSE "open"
        /\ \A u \in Tasks \ {t} : pc'[u] = pc[u] /\ copy'[u] = copy[u]
        /\ copy'[t] = NoRow
    BY <1>a, <2>3, Typed
  <2>5. \A u \in Tasks \ {t} : wh'[u] = wh[u]
    BY <1>a, <2>3, Typed
  <2>6. CASE row' = [row EXCEPT ![s] = hot]
               /\ wh' = IF t \in Runs THEN wh ELSE [wh EXCEPT ![t] = None]
    <3>1. row'[s] = hot /\ \A q \in Sessions \ {s} : row'[q] = row[q]
      BY <1>a, <2>6, Typed
    <3>2. wh'[t] = IF t \in Runs THEN wh[t] ELSE None
      BY <1>a, <2>6, Typed
    <3> QED BY <2>2, <2>3, <2>4, <2>5, <3>1, <3>2
  <2>7. CASE t \in Sessions /\ UNCHANGED <<row, wh>>
    BY <2>3, <2>4, <2>5, <2>7
  <2> QED BY <2>3, <2>6, <2>7
<1> HIDE DEF s
<1>1. Apart'
  <2>1. ASSUME NEW q \in Sessions, NEW h \in Handles, Names(q, h)' PROVE Names(q, h)
    <3>2. CASE row'[q].handle = h \/ row'[q].snap = h
      BY <1>a, <1>b, <1>c, <3>2 DEF Names
    <3>3. CASE \E u \in Runs \cup Sessions :
       Home(u) = q /\ (wh'[u] = h \/ copy'[u].handle = h \/ copy'[u].snap = h)
      BY <1>a, <1>c, <3>3 DEF Names, Tasks
    <3>4. CASE \E u \in Tasks :
                (job'[u].s = q /\ job'[u].h = h) \/ [s |-> q, h |-> h] \in listed'[u]
      BY <1>c, <3>4 DEF Names
    <3> QED BY <2>1, <3>2, <3>3, <3>4 DEF Names, Home
  <2> QED BY <1>c, <2>1, ApartKept DEF IInv
<1>d. ASSUME NEW u \in Tasks, job[u].s = s PROVE FALSE
  <2>1. CASE t \in Runs
    <3>1. job[u] # NoJob
      BY <1>a, <1>d DEF NoJob
    <3> QED BY <1>a, <1>b, <1>d, <2>1, <3>1 DEF IInv, Job
  <2>2. CASE t \in Sessions
    BY <1>a, <1>b, <1>d, <2>2 DEF IInv, Life, InReclaim, Setup
  <2> QED BY <2>1, <2>2
<1>2. ASSUME NEW q \in Sessions PROVE Life(q)'
  <2>1. Life(q) /\ q \in Tasks /\ InReclaim(q)' = InReclaim(q)
    BY <1>c DEF IInv, Tasks, InReclaim, Setting
  <2>2. CASE q = s
    BY <1>a, <1>b, <1>c, <2>1, <2>2 DEF Life, Exists, Setup
  <2>3. CASE q # s
    BY <1>a, <1>b, <1>c, <2>1, <2>3 DEF Life, Exists, Setup
  <2> QED BY <2>2, <2>3
<1>3. ASSUME NEW q \in Sessions PROVE Work(q)'
  BY <1>a, <1>b, <1>c DEF IInv, Work, Exists, Marked
<1>4. ASSUME NEW u \in Tasks PROVE Starts(u)'
  BY <1>a, <1>b, <1>c DEF IInv, Starts, Setting
<1>5. ASSUME NEW u \in Tasks PROVE Job(u)'
  BY <1>a, <1>c, <1>d, Fields DEF IInv, Job, Exists, JobOK
<1>6. ASSUME NEW u \in Tasks PROVE Cands(u)'
  <2>1. \A c \in listed[u] : c.s # s
    <3>1. SUFFICES ASSUME NEW c \in listed[u], c.s = s PROVE FALSE
      OBVIOUS
    <3>2. CASE t \in Runs
      BY <1>a, <1>b, <3>1, <3>2 DEF IInv, Cands
    <3>3. CASE t \in Sessions
      BY <1>a, <1>b, <3>1, <3>3 DEF IInv, Life, InReclaim, Setup
    <3> QED BY <3>2, <3>3
  <2> QED BY <1>c, <2>1, Fields DEF IInv, Cands, Exists
<1>7. ASSUME NEW q \in Runs PROVE Drives(q)'
  <2>1. Drives(q) /\ q \in Tasks /\ SessionOf[q] \in Tasks /\ SessionOf[q] \in Sessions
    BY <1>a, Typed DEF IInv, Tasks, Setting
  <2>2. CASE q = t
    BY <1>a, <1>b, <1>c, <2>1, <2>2 DEF Drives, Setup, Exists
  <2>3. CASE q # t
    <3>1. pc[q] \in Setup \cup {"work"} => SessionOf[q] # s
      BY <1>a, <1>b, <2>1, <2>3 DEF Drives
    <3> QED BY <1>a, <1>b, <1>c, <2>1, <2>3, <3>1 DEF Drives, Setup, Exists
  <2> QED BY <2>2, <2>3
<1>8. ASSUME NEW h \in leased' PROVE Held(h)'
  <2>1. h \in Handles /\ h # None
    BY <1>a, <1>c, Typed
  <2>2. CASE \E q \in Sessions : row[q].handle = h
    BY <1>a, <1>b, <1>c, <2>1, <2>2 DEF Held
  <2>3. CASE \E u \in Tasks : wh[u] = h /\ pc[u] # "work"
    BY <1>a, <1>b, <1>c, <2>1, <2>3 DEF Held
  <2> QED BY <1>c, <2>2, <2>3 DEF IInv, Held
<1> QED BY <1>1, <1>2, <1>3, <1>4, <1>5, <1>6, <1>7, <1>8 DEF IInv

(***************************************************************************)
(* A run at work; the deletion of a session.                               *)
(***************************************************************************)
\* A tool writes in the directory that the row of its session names.
LEMMA StepExec ==
  ASSUME Setting, TypeOK, IInv, NEW r \in Runs, Exec(r) PROVE IInv'
<1> DEFINE s == SessionOf[r]
<1>a. None \notin Handles /\ None \notin Runs /\ None \notin Sessions /\ r \in Tasks
      /\ s \in Sessions /\ s \in Tasks \ {r}
  BY Typed DEF Setting, Tasks
<1>b. /\ pc[r] = "work" /\ row[s].run = r /\ Exists(s) /\ pc[s] = "open"
      /\ wh[r] = row[s].handle /\ wh[r] \in Handles
  <2>1. pc[r] = "work" /\ wh[r] \in Handles
    BY Typed DEF Exec
  <2> QED BY <2>1 DEF IInv, Drives
<1>c. /\ UNCHANGED <<row, leased, unused, objects, blob, pc, copy, wh, listed, job>>
      /\ dir'[wh[r]] = dir[wh[r]] \cup {r}
      /\ \A h \in Handles : dir[h] \subseteq dir'[h]
      /\ saved'[s] = saved[s] \cup {r} /\ \A q \in Sessions \ {s} : saved'[q] = saved[q]
  BY <1>a, <1>b, Typed DEF Exec, storeVars, taskVars
<1> HIDE DEF s
<1>1. Apart'
  <2>1. ASSUME NEW q \in Sessions, NEW h \in Handles, Names(q, h)' PROVE Names(q, h)
    BY <1>c, <2>1 DEF Names, Home
  <2> QED BY <1>c, <2>1, ApartKept DEF IInv
<1>2. ASSUME NEW q \in Sessions PROVE Life(q)'
  <2>1. Life(q) /\ InReclaim(q)' = InReclaim(q)
    BY <1>c DEF IInv, InReclaim
  <2> QED BY <1>b, <1>c, <2>1 DEF Life, Exists
<1>3. ASSUME NEW q \in Sessions PROVE Work(q)'
  <2>1. Work(q) /\ RowOK(row[q])
    BY Fields DEF IInv
  <2>2. CASE q = s
    <3>1. ~Marked(q)
      <4>1. ASSUME NEW u \in Tasks, job[u].s = s PROVE FALSE
        <5>1. job[u] # NoJob
          BY <1>a, <4>1 DEF NoJob
        <5> QED BY <1>a, <1>b, <4>1, <5>1 DEF IInv, Job
      <4> QED BY <2>2, <4>1 DEF Marked
    <3> QED BY <1>a, <1>b, <1>c, <2>1, <2>2, <3>1 DEF Work, Exists, Marked
  <2>3. CASE q # s
    BY <1>c, <2>1, <2>3 DEF Work, Exists, Marked, RowOK
  <2> QED BY <2>2, <2>3
<1>4. ASSUME NEW u \in Tasks PROVE Starts(u)'
  BY <1>c DEF IInv, Starts
<1>5. ASSUME NEW u \in Tasks PROVE Job(u)'
  BY <1>a, <1>b, <1>c, Fields DEF IInv, Job, Exists, JobOK
<1>6. ASSUME NEW u \in Tasks PROVE Cands(u)'
  BY <1>c DEF IInv, Cands, Exists
<1>7. ASSUME NEW q \in Runs PROVE Drives(q)'
  <2>1. Drives(q) /\ SessionOf[q] \in Sessions /\ wh[q] \in Handles \cup {None}
    BY <1>a, Typed DEF IInv, Tasks
  <2> QED BY <1>a, <1>b, <1>c, <2>1 DEF Drives, Setup, Exists
<1>8. ASSUME NEW h \in leased' PROVE Held(h)'
  BY <1>c DEF IInv, Held
<1> QED BY <1>1, <1>2, <1>3, <1>4, <1>5, <1>6, <1>7, <1>8 DEF IInv

\* clear_run_id, by finish or by the reaper.
LEMMA StepCleared ==
  ASSUME Setting, TypeOK, IInv, NEW r \in Runs, Finish(r) \/ Reap(r) PROVE IInv'
<1> DEFINE s == SessionOf[r]
<1>a. None \notin Handles /\ None \notin Runs /\ None \notin Sessions /\ r \in Tasks
      /\ s \in Sessions /\ s \in Tasks \ {r}
  BY Typed DEF Setting, Tasks
<1>b. pc[r] \in {"work", "leaked"} /\ pc'[r] \in {"over", "leaked"} /\ job[r] = NoJob
  BY <1>a, Typed DEF Finish, Reap, Goto, taskVars, IInv, Starts
<1>c. /\ UNCHANGED <<leased, unused, dir, objects, blob, copy, listed, job, saved>>
      /\ \A q \in Sessions \ {s} : row'[q] = row[q]
      /\ row'[s].state = row[s].state /\ row'[s].handle = row[s].handle
      /\ row'[s].snap = row[s].snap
      /\ row'[s].run \in {row[s].run, None} /\ (row[s].run # r => row'[s] = row[s])
      /\ \A u \in Tasks \ {r} : pc'[u] = pc[u] /\ wh'[u] = wh[u]
      /\ wh'[r] = wh[r] \/ (pc[r] = "work" /\ wh'[r] = None)
  <2>1. row[s] \in Row
    BY <1>a, Typed
  <2>2. /\ [row[s] EXCEPT !.run = None].state = row[s].state
        /\ [row[s] EXCEPT !.run = None].handle = row[s].handle
        /\ [row[s] EXCEPT !.run = None].snap = row[s].snap
        /\ [row[s] EXCEPT !.run = None].run = None
    BY <2>1 DEF Row
  <2>3. row' = row \/ (row[s].run = r /\ row' = [row EXCEPT ![s] = [row[s] EXCEPT !.run = None]])
    BY <1>a, Typed DEF Finish, Reap, ClearRun
  <2>4. /\ \A q \in Sessions \ {s} : row'[q] = row[q]
        /\ row'[s] = row[s] \/ (row[s].run = r /\ row'[s] = [row[s] EXCEPT !.run = None])
    BY <1>a, <2>3, Typed
  <2>5. /\ UNCHANGED <<leased, unused, dir, objects, blob, copy, listed, job, saved>>
        /\ \A u \in Tasks \ {r} : pc'[u] = pc[u] /\ wh'[u] = wh[u]
        /\ wh'[r] = wh[r] \/ (pc[r] = "work" /\ wh'[r] = None)
    BY <1>a, Typed DEF Finish, Reap, Goto, taskVars, poolVars, storeVars
  <2> HIDE DEF s
  <2> QED BY <2>2, <2>4, <2>5
<1> HIDE DEF s
<1>1. Apart'
  <2>1. ASSUME NEW q \in Sessions, NEW h \in Handles, Names(q, h)' PROVE Names(q, h)
    <3>2. CASE row'[q].handle = h \/ row'[q].snap = h
      BY <1>a, <1>c, <3>2 DEF Names
    <3>3. CASE \E u \in Runs \cup Sessions :
       Home(u) = q /\ (wh'[u] = h \/ copy'[u].handle = h \/ copy'[u].snap = h)
      BY <1>a, <1>c, <3>3 DEF Names, Tasks
    <3>4. CASE \E u \in Tasks :
                (job'[u].s = q /\ job'[u].h = h) \/ [s |-> q, h |-> h] \in listed'[u]
      BY <1>c, <3>4 DEF Names
    <3> QED BY <2>1, <3>2, <3>3, <3>4 DEF Names, Home
  <2> QED BY <1>c, <2>1, ApartKept DEF IInv
<1>2. ASSUME NEW q \in Sessions PROVE Life(q)'
  <2>1. Life(q) /\ q \in Tasks \ {r} /\ InReclaim(q)' = InReclaim(q) /\ NoRow.run = None
    BY <1>c DEF IInv, Tasks, InReclaim, Setting, NoRow
  <2>2. row[q] = NoRow => row'[q] = NoRow
    BY <1>a, <1>c, <2>1
  <2> QED BY <1>c, <2>1, <2>2 DEF Life, Exists, Setup
<1>3. ASSUME NEW q \in Sessions PROVE Work(q)'
  BY <1>c DEF IInv, Work, Exists, Marked
<1>4. ASSUME NEW u \in Tasks PROVE Starts(u)'
  BY <1>a, <1>b, <1>c DEF IInv, Starts, Setting
<1>5. ASSUME NEW u \in Tasks PROVE Job(u)'
  BY <1>c, Fields DEF IInv, Job, Exists, JobOK
<1>6. ASSUME NEW u \in Tasks PROVE Cands(u)'
  BY <1>c, Fields DEF IInv, Cands, Exists
<1>7. ASSUME NEW q \in Runs PROVE Drives(q)'
  <2>1. Drives(q) /\ q \in Tasks /\ SessionOf[q] \in Tasks \ {r}
        /\ SessionOf[q] \in Sessions
    BY <1>a, Typed DEF IInv, Tasks, Setting
  <2>2. CASE q = r
    BY <1>b, <2>2 DEF Drives, Setup
  <2>3. CASE q # r
    BY <1>a, <1>b, <1>c, <2>1, <2>3 DEF Drives, Setup, Exists
  <2> QED BY <2>2, <2>3
<1>8. ASSUME NEW h \in leased' PROVE Held(h)'
  BY <1>a, <1>b, <1>c, Typed DEF IInv, Held
<1> QED BY <1>1, <1>2, <1>3, <1>4, <1>5, <1>6, <1>7, <1>8 DEF IInv

\* delete_session begins: nobody drives or reclaims the session.
LEMMA StepTeardown ==
  ASSUME Setting, TypeOK, IInv, NEW s \in Sessions, Teardown(s) PROVE IInv'
<1>a. s \in Tasks \ Runs /\ s # None /\ None \notin Handles /\ None \notin Runs
  BY Typed DEF Setting, Tasks
<1>b. pc[s] = "open" /\ Exists(s) /\ ~Driven(s) /\ ~InReclaim(s) /\ job[s] = NoJob
  BY <1>a DEF Teardown, Setting, IInv, Starts
<1>c. /\ UNCHANGED <<row, leased, unused, dir, objects, blob, wh, listed, job>>
      /\ pc'[s] = "destroy" /\ copy'[s] = row[s] /\ saved'[s] = {}
      /\ \A q \in Sessions \ {s} : saved'[q] = saved[q]
      /\ \A u \in Tasks \ {s} : pc'[u] = pc[u] /\ copy'[u] = copy[u]
  BY <1>a, Typed DEF Teardown, poolVars, storeVars
<1>1. Apart'
  <2>1. ASSUME NEW q \in Sessions, NEW h \in Handles, Names(q, h)' PROVE Names(q, h)
    BY <1>a, <1>c, <2>1 DEF Names, Home, Tasks
  <2> QED BY <1>c, <2>1, ApartKept DEF IInv
<1>2. ASSUME NEW q \in Sessions PROVE Life(q)'
  <2>1. Life(q) /\ q \in Tasks /\ InReclaim(q)' = InReclaim(q)
    BY <1>c DEF IInv, Tasks, InReclaim
  <2> QED BY <1>c, <2>1 DEF Life, Exists, Setup
<1>3. ASSUME NEW q \in Sessions PROVE Work(q)'
  BY <1>c DEF IInv, Work, Exists, Marked
<1>4. ASSUME NEW u \in Tasks PROVE Starts(u)'
  BY <1>a, <1>b, <1>c DEF IInv, Starts, Setting
<1>5. ASSUME NEW u \in Tasks PROVE Job(u)'
  BY <1>b, <1>c, Fields DEF IInv, Job, Exists, InReclaim, JobOK
<1>6. ASSUME NEW u \in Tasks PROVE Cands(u)'
  BY <1>c DEF IInv, Cands, Exists
<1>7. ASSUME NEW q \in Runs PROVE Drives(q)'
  <2>1. Drives(q) /\ q \in Tasks \ {s} /\ SessionOf[q] \in Tasks
        /\ SessionOf[q] \in Sessions
    BY <1>a, Typed DEF IInv, Tasks, Setting
  <2>2. SessionOf[q] = s => pc[q] \notin Setup \cup {"work"}
    BY <1>b DEF Driven
  <2> QED BY <1>c, <2>1, <2>2 DEF Drives, Setup, Exists
<1>8. ASSUME NEW h \in leased' PROVE Held(h)'
  BY <1>a, <1>c DEF IInv, Held
<1> QED BY <1>1, <1>2, <1>3, <1>4, <1>5, <1>6, <1>7, <1>8 DEF IInv

\* The directory that goes is the session's own.
LEMMA StepDestroy ==
  ASSUME Setting, TypeOK, IInv, NEW s \in Sessions, Destroy(s) PROVE IInv'
<1>a. s \in Tasks \ Runs /\ s # None /\ None \notin Handles /\ None \notin Runs
  BY Typed DEF Setting, Tasks
<1>b. /\ pc[s] = "destroy" /\ saved[s] = {} /\ job[s] = NoJob
      /\ row[s].handle \in {None, copy[s].handle}
      /\ \A q \in Sessions : q # s => ~Names(q, copy[s].handle) \/ copy[s].handle = None
  <2>1. pc[s] = "destroy" /\ copy[s].handle \in Handles \cup {None}
    BY <1>a, Fields DEF Destroy, Goto, RowOK
  <2>2. copy[s].handle \in Handles => Names(s, copy[s].handle)
    BY DEF Names, Home, Setting
  <2> QED BY <1>a, <2>1, <2>2 DEF IInv, Life, Starts, Apart
<1>c. /\ UNCHANGED <<row, objects, blob, copy, wh, listed, job, saved>>
      /\ unused' = unused /\ leased' = leased \ {copy[s].handle}
      /\ \A h \in Handles : h # copy[s].handle => dir'[h] = dir[h]
      /\ pc'[s] = "drop" /\ \A u \in Tasks \ {s} : pc'[u] = pc[u]
  BY <1>a, Typed DEF Destroy, Goto, storeVars
<1>1. Apart'
  <2>1. ASSUME NEW q \in Sessions, NEW h \in Handles, Names(q, h)' PROVE Names(q, h)
    BY <1>c, <2>1 DEF Names, Home
  <2> QED BY <1>c, <2>1, ApartKept DEF IInv
<1>2. ASSUME NEW q \in Sessions PROVE Life(q)'
  <2>1. Life(q) /\ q \in Tasks /\ InReclaim(q)' = InReclaim(q)
    BY <1>c DEF IInv, Tasks, InReclaim
  <2> QED BY <1>b, <1>c, <2>1 DEF Life, Exists, Setup
<1>3. ASSUME NEW q \in Sessions PROVE Work(q)'
  <2>1. Work(q) /\ row[q].handle \in Handles \cup {None}
    BY Fields DEF IInv, RowOK
  <2>2. q # s /\ row[q].handle # None => row[q].handle # copy[s].handle
    BY <1>b DEF Names
  <2> QED BY <1>b, <1>c, <2>1, <2>2 DEF Work, Exists, Marked
<1>4. ASSUME NEW u \in Tasks PROVE Starts(u)'
  BY <1>a, <1>b, <1>c DEF IInv, Starts, Setting
<1>5. ASSUME NEW u \in Tasks PROVE Job(u)'
  BY <1>c DEF IInv, Job, Exists
<1>6. ASSUME NEW u \in Tasks PROVE Cands(u)'
  BY <1>c DEF IInv, Cands, Exists
<1>7. ASSUME NEW q \in Runs PROVE Drives(q)'
  <2>1. Drives(q) /\ q \in Tasks \ {s} /\ SessionOf[q] \in Tasks
        /\ SessionOf[q] \in Sessions /\ wh[q] \in Handles \cup {None}
    BY <1>a, Typed DEF IInv, Tasks, Setting
  <2>2. wh[q] \in Handles => Names(SessionOf[q], wh[q])
    BY DEF Names, Home
  <2>3. pc[q] = "mark" => wh[q] \in Handles /\ wh[q] # copy[s].handle
    BY <1>a, <1>b, <2>1, <2>2 DEF Drives, Setup
  <2> QED BY <1>b, <1>c, <2>1, <2>3 DEF Drives, Setup, Exists
<1>8. ASSUME NEW h \in leased' PROVE Held(h)'
  BY <1>a, <1>c DEF IInv, Held
<1> QED BY <1>1, <1>2, <1>3, <1>4, <1>5, <1>6, <1>7, <1>8 DEF IInv

\* The object that goes is the session's own, and its directory is gone.
LEMMA StepDropRow ==
  ASSUME Setting, TypeOK, IInv, NEW s \in Sessions, DropRow(s) PROVE IInv'
<1>a. s \in Tasks \ Runs /\ s # None /\ None \notin Handles /\ None \notin Runs
      /\ NoRow.handle = None /\ NoRow.snap = None /\ NoRow.run = None
      /\ NoRow.state = "none"
  BY Typed DEF Setting, Tasks, NoRow
<1>b. /\ pc[s] = "drop" /\ saved[s] = {} /\ job[s] = NoJob
      /\ row[s].handle \in {None, copy[s].handle} /\ copy[s].handle \notin leased
      /\ \A q \in Sessions : q # s => ~Names(q, copy[s].snap) \/ copy[s].snap = None
  <2>1. pc[s] = "drop" /\ copy[s].snap \in Handles \cup {None}
    BY <1>a, Fields DEF DropRow, Goto, RowOK
  <2>2. copy[s].snap \in Handles => Names(s, copy[s].snap)
    BY DEF Names, Home, Setting
  <2> QED BY <1>a, <2>1, <2>2 DEF IInv, Life, Starts, Apart
<1>c. /\ UNCHANGED <<leased, unused, dir, wh, listed, job>>
      /\ row'[s] = NoRow /\ \A q \in Sessions \ {s} : row'[q] = row[q]
            /\ saved'[q] = saved[q]
      /\ saved'[s] = {} /\ objects' = objects \ {copy[s].snap}
      /\ \A h \in Handles : h # copy[s].snap => blob'[h] = blob[h]
      /\ pc'[s] = "over" /\ copy'[s] = NoRow
      /\ \A u \in Tasks \ {s} : pc'[u] = pc[u] /\ copy'[u] = copy[u]
  BY <1>a, Typed DEF DropRow, Goto, Forget, poolVars
<1>1. Apart'
  <2>1. ASSUME NEW q \in Sessions, NEW h \in Handles, Names(q, h)' PROVE Names(q, h)
    BY <1>a, <1>c, <2>1 DEF Names, Home, Tasks
  <2> QED BY <1>c, <2>1, ApartKept DEF IInv
<1>2. ASSUME NEW q \in Sessions PROVE Life(q)'
  <2>1. Life(q) /\ q \in Tasks /\ InReclaim(q)' = InReclaim(q)
    BY <1>c DEF IInv, Tasks, InReclaim
  <2> QED BY <1>a, <1>b, <1>c, <2>1 DEF Life, Exists, Setup
<1>3. ASSUME NEW q \in Sessions PROVE Work(q)'
  <2>1. Work(q) /\ row[q].snap \in Handles \cup {None}
    BY Fields DEF IInv, RowOK
  <2>2. q # s /\ row[q].snap # None => row[q].snap # copy[s].snap
    BY <1>b DEF Names
  <2>3. row[q].snap \in objects => row[q].snap \in Handles
    BY <1>a, Typed
  <2> QED BY <1>a, <1>b, <1>c, <2>1, <2>2, <2>3 DEF Work, Exists, Marked
<1>4. ASSUME NEW u \in Tasks PROVE Starts(u)'
  BY <1>a, <1>b, <1>c DEF IInv, Starts, Setting
<1>5. ASSUME NEW u \in Tasks PROVE Job(u)'
  <2>1. Job(u) /\ JobOK(job[u])
    BY Fields DEF IInv
  <2>2. CASE job[u].s = s
    BY <1>a, <1>c, <2>1, <2>2 DEF Job, Exists
  <2>3. CASE job[u].s # s
    <3>1. job[u] # NoJob => job[u].h # copy[s].snap
      BY <1>a, <1>b, <2>1, <2>3 DEF JobOK, Names
    <3> QED BY <1>c, <2>1, <2>3, <3>1 DEF Job, Exists, JobOK
  <2> QED BY <2>2, <2>3
<1>6. ASSUME NEW u \in Tasks PROVE Cands(u)'
  BY <1>a, <1>c, Fields DEF IInv, Cands, Exists
<1>7. ASSUME NEW q \in Runs PROVE Drives(q)'
  <2>1. Drives(q) /\ q \in Tasks \ {s} /\ SessionOf[q] \in Tasks
        /\ SessionOf[q] \in Sessions
    BY <1>a, Typed DEF IInv, Tasks, Setting
  <2> QED BY <1>b, <1>c, <2>1 DEF Drives, Setup, Exists
<1>8. ASSUME NEW h \in leased' PROVE Held(h)'
  BY <1>a, <1>b, <1>c, Typed DEF IInv, Held
<1> QED BY <1>1, <1>2, <1>3, <1>4, <1>5, <1>6, <1>7, <1>8 DEF IInv

(***************************************************************************)
(* The reclaims.                                                           *)
(***************************************************************************)
\* A reclaim turns to the next session of its list.
LEMMA StepTake ==
  ASSUME Setting, TypeOK, IInv, NEW t \in Tasks, Take(t) PROVE IInv'
<1>1. PICK c \in listed[t] :
        /\ "double" \in Races \/ \A u \in Tasks : job[u].s # c.s
        /\ job' = [job EXCEPT ![t] = [at |-> "open", s |-> c.s, h |-> c.h, data |-> {}]]
        /\ listed' = [listed EXCEPT ![t] = @ \ {c}]
  BY DEF Take
<1>a. None \notin Handles /\ None \notin Runs /\ None \notin Sessions
      /\ c.s \in Sessions /\ c.h \in Handles /\ c = [s |-> c.s, h |-> c.h]
      /\ NoJob.s = None /\ NoJob.at = "none"
  BY Typed, Fields DEF Setting, NoJob
<1>b. /\ pc[t] \in {"own", "reclaim"} /\ job[t] = NoJob
            /\ \A u \in Tasks : job[u].s # c.s
      /\ row[c.s].run = None
            /\ (Exists(c.s) => row[c.s].handle = c.h \/ c.h \notin leased)
  BY <1>1 DEF Take, Setting, IInv, Cands
<1>c. /\ UNCHANGED <<row, leased, unused, dir, objects, blob, pc, copy, wh, saved>>
      /\ job'[t].at = "open" /\ job'[t].s = c.s /\ job'[t].h = c.h
      /\ listed'[t] = listed[t] \ {c}
      /\ \A u \in Tasks \ {t} : job'[u] = job[u] /\ listed'[u] = listed[u]
  BY <1>1, Typed DEF Take, poolVars, storeVars
<1>2. Apart'
  <2>1. ASSUME NEW q \in Sessions, NEW h \in Handles, Names(q, h)' PROVE Names(q, h)
    BY <1>a, <1>c, <2>1 DEF Names, Home
  <2> QED BY <1>c, <2>1, ApartKept DEF IInv
<1>3. ASSUME NEW q \in Sessions PROVE Life(q)'
  <2>1. Life(q) /\ (InReclaim(q)' => InReclaim(q))
    BY <1>a, <1>c DEF IInv, InReclaim
  <2> QED BY <1>c, <2>1 DEF Life, Exists
<1>4. ASSUME NEW q \in Sessions PROVE Work(q)'
  BY <1>a, <1>b, <1>c DEF IInv, Work, Exists, Marked
<1>5. ASSUME NEW u \in Tasks PROVE Starts(u)'
  BY <1>b, <1>c DEF IInv, Starts
<1>6. ASSUME NEW u \in Tasks PROVE Job(u)'
  BY <1>a, <1>b, <1>c DEF IInv, Job, Exists
<1>7. ASSUME NEW u \in Tasks PROVE Cands(u)'
  BY <1>c DEF IInv, Cands, Exists
<1>8. ASSUME NEW q \in Runs PROVE Drives(q)'
  BY <1>c DEF IInv, Drives, Exists
<1>9. ASSUME NEW h \in leased' PROVE Held(h)'
  BY <1>c DEF IInv, Held
<1> QED BY <1>2, <1>3, <1>4, <1>5, <1>6, <1>7, <1>8, <1>9 DEF IInv

\* snapshot, put and release: the work is in the directory, then in the data,
\* then in the object; only then does the directory go.
LEMMA StepJob ==
  ASSUME Setting, TypeOK, IInv, NEW t \in Tasks,
         SnapshotOpen(t) \/ SnapshotTar(t) \/ Put(t) \/ Release(t)
  PROVE  IInv'
<1> DEFINE s == job[t].s
           h == job[t].h
<1>a. None \notin Handles /\ None \notin Runs /\ None \notin Sessions
      /\ NoJob.at = "none" /\ NoJob.s = None
  BY Typed DEF Setting, NoJob
<1>b. /\ job[t] \in Jobs /\ job[t] # NoJob /\ s \in Sessions /\ h \in Handles
      /\ pc[t] \in {"own", "reclaim"}
      /\ row[s].run = None /\ \A u \in Tasks \ {t} : job[u].s # s
      /\ \A q \in Sessions \ {s} : ~Names(q, h)
  <2>1. job[t].at # "none" /\ JobOK(job[t])
    BY Fields DEF SnapshotOpen, SnapshotTar, Put, Release, JobStep
  <2>2. job[t] \in Jobs /\ job[t] # NoJob
    BY <1>a, <2>1, Typed
  <2>3. Names(s, h)
    BY DEF Names
  <2> QED BY <2>1, <2>2, <2>3 DEF JobOK, IInv, Starts, Job, Apart
<1>c. /\ UNCHANGED <<row, unused, pc, copy, wh, listed, saved>>
      /\ job'[t] # NoJob /\ job'[t].s = s /\ job'[t].h = h
      /\ \A u \in Tasks \ {t} : job'[u] = job[u]
      /\ \/ /\ job[t].at = "open" /\ job'[t].at = "tar" /\ h \in leased
            /\ UNCHANGED <<leased, dir, objects, blob>>
         \/ /\ job[t].at = "tar" /\ job'[t].at = "put" /\ job'[t].data = dir[h]
            /\ UNCHANGED <<leased, dir, objects, blob>>
         \/ /\ job[t].at = "put" /\ job'[t].at = "release"
            /\ objects' = objects \cup {h} /\ blob' = [blob EXCEPT ![h] = job[t].data]
            /\ UNCHANGED <<leased, dir>>
         \/ /\ job[t].at = "release" /\ job'[t].at = "mark"
            /\ leased' = leased \ {h} /\ dir' = [dir EXCEPT ![h] = {}]
            /\ UNCHANGED <<objects, blob>>
  <2>0. job'[t].at # "none" => job'[t] # NoJob
    BY <1>a
  <2>1. CASE SnapshotOpen(t)
    <3>1. job' = [job EXCEPT ![t] = [job[t] EXCEPT !.at = "tar"]]
      BY <2>1, Typed DEF SnapshotOpen, JobStep
    <3>2. /\ [job[t] EXCEPT !.at = "tar"].at = "tar"
          /\ [job[t] EXCEPT !.at = "tar"].s = s
          /\ [job[t] EXCEPT !.at = "tar"].h = h
      BY <1>b DEF Jobs
    <3>3. job'[t] = [job[t] EXCEPT !.at = "tar"]
          /\ \A u \in Tasks \ {t} : job'[u] = job[u]
      BY <3>1, Typed
    <3> QED BY <2>0, <2>1, <3>2, <3>3 DEF SnapshotOpen, JobStep, poolVars, storeVars
  <2>2. CASE SnapshotTar(t)
    <3> DEFINE new == [job[t] EXCEPT !.at = "put", !.data = dir[job[t].h]]
    <3>1. job' = [job EXCEPT ![t] = new]
      BY <2>2, Typed DEF SnapshotTar
    <3>2. new.at = "put" /\ new.s = s /\ new.h = h /\ new.data = dir[h]
      BY <1>b DEF Jobs
    <3> HIDE DEF new
    <3>3. job'[t] = new /\ \A u \in Tasks \ {t} : job'[u] = job[u]
      BY <3>1, Typed
    <3> QED BY <2>0, <2>2, <3>2, <3>3 DEF SnapshotTar, poolVars, storeVars
  <2>3. CASE Put(t)
    <3> DEFINE new == [job[t] EXCEPT !.at = "release", !.data = {}]
    <3>1. job' = [job EXCEPT ![t] = new]
      BY <2>3, Typed DEF Put
    <3>2. new.at = "release" /\ new.s = s /\ new.h = h
      BY <1>b DEF Jobs
    <3> HIDE DEF new
    <3>3. job'[t] = new /\ \A u \in Tasks \ {t} : job'[u] = job[u]
      BY <3>1, Typed
    <3> QED BY <2>0, <2>3, <3>2, <3>3 DEF Put, poolVars
  <2>4. CASE Release(t)
    <3> DEFINE new == [job[t] EXCEPT !.at = "mark"]
    <3>1. job' = [job EXCEPT ![t] = new]
      BY <2>4, Typed DEF Release, JobStep
    <3>2. new.at = "mark" /\ new.s = s /\ new.h = h
      BY <1>b DEF Jobs
    <3> HIDE DEF new
    <3>3. job'[t] = new /\ \A u \in Tasks \ {t} : job'[u] = job[u]
      BY <3>1, Typed
    <3> QED BY <2>0, <2>4, <3>2, <3>3 DEF Release, JobStep, storeVars
  <2> QED BY <2>1, <2>2, <2>3, <2>4
<1> HIDE DEF s, h
<1>d. /\ leased' \subseteq leased /\ objects \subseteq objects'
      /\ \A x \in Handles \ {h} : dir'[x] = dir[x] /\ blob'[x] = blob[x]
      /\ job[t].at # "put" => blob' = blob
      /\ job[t].at # "release" => dir' = dir
      /\ job[t].at = "put" => h \in objects' /\ blob'[h] = job[t].data
  BY <1>b, <1>c, Typed
<1>1. Apart'
  <2>1. ASSUME NEW q \in Sessions, NEW x \in Handles, Names(q, x)' PROVE Names(q, x)
    BY <1>c, <2>1 DEF Names, Home, s, h
  <2> QED BY <1>c, <2>1, ApartKept DEF IInv
<1>2. ASSUME NEW q \in Sessions PROVE Life(q)'
  <2>1. Life(q) /\ (InReclaim(q)' => InReclaim(q))
    BY <1>b, <1>c DEF IInv, InReclaim, s
  <2> QED BY <1>c, <1>d, <2>1 DEF Life, Exists
<1>3. ASSUME NEW q \in Sessions PROVE Work(q)'
  <2>1. Work(q) /\ RowOK(row[q])
    BY Fields DEF IInv
  <2>2. CASE q # s
    <3>1. row[q].handle # h /\ row[q].snap # h
      BY <1>b, <2>2 DEF Names
    <3>2. Marked(q)' <=> Marked(q)
      BY <1>c, <2>2 DEF Marked, s
    <3>3. None \notin objects
      BY <1>a, Typed
    <3> QED BY <1>a, <1>c, <1>d, <2>1, <3>1, <3>2, <3>3 DEF Work, Exists, RowOK
  <2>3. CASE q = s
    <3>1. Job(t)
      BY DEF IInv
    <3>2. (Marked(q)' <=> job'[t].at = "mark") /\ (Marked(q) <=> job[t].at = "mark")
      BY <1>b, <1>c, <2>3 DEF Marked, s
    <3>3. Exists(q) /\ job[t].at # "open" => row[q].handle = h
      BY <1>b, <2>3, <3>1 DEF Job, s, h
    <3>4. CASE job[t].at = "put"
      BY <1>a, <1>b, <1>c, <1>d, <2>1, <3>2, <3>3, <3>4 DEF Work, Exists
    <3>5. CASE job[t].at # "put"
      BY <1>a, <1>b, <1>c, <1>d, <2>1, <3>2, <3>3, <3>5 DEF Work, Exists
    <3> QED BY <3>4, <3>5
  <2> QED BY <2>2, <2>3
<1>4. ASSUME NEW u \in Tasks PROVE Starts(u)'
  BY <1>b, <1>c DEF IInv, Starts
<1>5. ASSUME NEW u \in Tasks PROVE Job(u)'
  <2>1. Job(u) /\ JobOK(job[u])
    BY Fields DEF IInv
  <2>2. CASE u = t
    <3>1. /\ Exists(s) /\ job[t].at = "open" => row[s].handle = h \/ h \notin leased
          /\ Exists(s) /\ job[t].at # "open" => row[s].handle = h
          /\ Exists(s) /\ job[t].at = "put" => saved[s] \subseteq job[t].data
          /\ Exists(s) /\ job[t].at = "release" => saved[s] \subseteq blob[h]
                /\ h \in objects
      BY <1>b, <2>1, <2>2 DEF Job, s, h
    <3>2. Exists(s) /\ job[t].at = "tar" => saved[s] \subseteq dir[h]
      <4>1. Work(s) /\ (job[t].at = "tar" => ~Marked(s))
        BY <1>b DEF IInv, Marked, s
      <4> QED BY <1>a, <1>b, <3>1, <4>1 DEF Work
    <3>4. \A v \in Tasks \ {t} : job'[v].s # job'[t].s
      BY <1>b, <1>c
    <3>5. /\ job'[t].at = "mark" => h \notin leased'
          /\ Exists(s) => /\ job'[t].at # "open" => row[s].handle = h
                          /\ job'[t].at = "put" => saved[s] \subseteq job'[t].data
                          /\ job'[t].at \in {"release", "mark"} =>
                               saved[s] \subseteq blob'[h] /\ h \in objects'
                          /\ job'[t].at # "open"
      BY <1>c, <1>d, <3>1, <3>2
    <3> QED BY <1>b, <1>c, <2>2, <3>4, <3>5 DEF Job, Exists
  <2>3. CASE u # t
    <3>1. job'[u] = job[u] /\ (job[u] # NoJob => job[u].s # s)
      BY <1>b, <1>c, <2>3
    <3>2. job[u] # NoJob => job[u].h # h
      BY <1>b, <2>1, <3>1 DEF Names, JobOK
    <3>3. \A v \in Tasks : job'[v].s = job[v].s
      BY <1>c DEF s
    <3> QED BY <1>c, <1>d, <2>1, <3>1, <3>2, <3>3 DEF Job, Exists, JobOK
  <2> QED BY <2>2, <2>3
<1>6. ASSUME NEW u \in Tasks PROVE Cands(u)'
  BY <1>c, <1>d DEF IInv, Cands, Exists
<1>7. ASSUME NEW q \in Runs PROVE Drives(q)'
  <2>1. Drives(q) /\ SessionOf[q] \in Sessions /\ wh[q] \in Handles \cup {None}
        /\ q # None
    BY <1>a, Typed DEF IInv, Tasks
  <2>2. pc[q] = "mark" => wh[q] \in Handles \ {h}
    <3>1. ASSUME pc[q] = "mark", wh[q] = h PROVE FALSE
      <4>1. Names(SessionOf[q], h)
        BY <3>1 DEF Names, Home
      <4>2. SessionOf[q] = s
        BY <1>b, <2>1, <4>1
      <4> QED BY <1>b, <2>1, <3>1, <4>2 DEF Drives, Setup
    <3> QED BY <2>1, <3>1 DEF Drives
  <2> QED BY <1>c, <1>d, <2>1, <2>2 DEF Drives, Exists
<1>8. ASSUME NEW x \in leased' PROVE Held(x)'
  BY <1>c, <1>d DEF IInv, Held
<1> QED BY <1>1, <1>2, <1>3, <1>4, <1>5, <1>6, <1>7, <1>8 DEF IInv

\* mark_snapshotted: the row names the object that has all the work.
LEMMA StepMarkSnapshotted ==
  ASSUME Setting, TypeOK, IInv, Tries, NEW t \in Tasks, MarkSnapshotted(t) PROVE IInv'
<1> DEFINE s == job[t].s
           h == job[t].h
<1>a. None \notin Handles /\ None \notin Runs /\ None \notin Sessions
      /\ NoJob.at = "none" /\ NoJob.s = None /\ NoJob.h = None
      /\ NoRow.handle = None /\ NoRow.snap = None /\ t \in Tasks
  BY Typed DEF Setting, NoJob, NoRow
<1>b. /\ job[t].at = "mark" /\ job[t] # NoJob /\ s \in Sessions /\ h \in Handles
      /\ pc[t] \in {"own", "reclaim"}
      /\ row[s].run = None /\ (\A u \in Tasks \ {t} : job[u].s # s) /\ h \notin leased
      /\ Exists(s) => row[s].handle = h /\ saved[s] \subseteq blob[h] /\ h \in objects
      /\ Names(s, h) /\ \A q \in Sessions \ {s} : ~Names(q, h)
  <2>1. job[t].at = "mark" /\ JobOK(job[t]) /\ job[t] # NoJob
    BY <1>a, Fields DEF MarkSnapshotted
  <2>2. Names(s, h)
    BY DEF Names
  <2> QED BY <2>1, <2>2 DEF JobOK, IInv, Starts, Job, Apart
<1>c. /\ UNCHANGED <<leased, unused, dir, objects, blob, wh, saved>>
      /\ \A q \in Sessions \ {s} : row'[q] = row[q]
      /\ ~Exists(s) => row'[s] = row[s]
      /\ Exists(s) => /\ row'[s].state = "snapshotted" /\ row'[s].handle = None
                      /\ row'[s].snap = h /\ row'[s].run = row[s].run
      /\ job'[t] = NoJob /\ listed'[t] \subseteq listed[t]
      /\ pc'[t] \in {"reclaim", "leaked", "alloc"}
            /\ (t \in Loops => pc'[t] = "reclaim")
      /\ (t \notin Loops => pc'[t] # "reclaim")
      /\ copy'[t] \in {copy[t], NoRow}
            /\ (pc'[t] # "leaked" => copy'[t] = copy[t] \/ t \in Loops)
      /\ \A u \in Tasks \ {t} : /\ pc'[u] = pc[u] /\ copy'[u] = copy[u]
                                /\ listed'[u] = listed[u] /\ job'[u] = job[u]
  <2>1. row[s] \in Row /\ s \in Sessions
    BY <1>b, Typed
  <2> DEFINE new == [row[s] EXCEPT !.state = "snapshotted", !.handle = None, !.snap = h]
  <2>2. new.state = "snapshotted" /\ new.handle = None /\ new.snap = h
        /\ new.run = row[s].run
    BY <2>1 DEF Row
  <2>3. row' = IF Exists(s) THEN [row EXCEPT ![s] = new] ELSE row
    BY DEF MarkSnapshotted
  <2> HIDE DEF new, s, h
  <2>4. /\ \A q \in Sessions \ {s} : row'[q] = row[q]
        /\ ~Exists(s) => row'[s] = row[s]
        /\ Exists(s) => row'[s] = new
    BY <2>1, <2>3, Typed
  <2>5. /\ UNCHANGED <<leased, unused, dir, objects, blob, wh, saved>>
        /\ job' = [job EXCEPT ![t] = NoJob]
        /\ listed' = IF t \in Loops THEN listed ELSE [listed EXCEPT ![t] = {}]
    BY DEF MarkSnapshotted, Reclaimed, poolVars, storeVars
  <2>6. /\ pc'[t] \in {"reclaim", "leaked", "alloc"}
              /\ (t \in Loops => pc'[t] = "reclaim")
        /\ (t \notin Loops => pc'[t] # "reclaim")
        /\ \A u \in Tasks \ {t} : pc'[u] = pc[u]
    <3>1. t \in Loops => tries[t] # 2
      BY <1>a, Typed DEF Tries
    <3> QED BY <1>a, <3>1, Typed DEF MarkSnapshotted, Reclaimed
  <2>7. /\ copy'[t] \in {copy[t], NoRow}
              /\ (pc'[t] # "leaked" => copy'[t] = copy[t] \/ t \in Loops)
        /\ \A u \in Tasks \ {t} : copy'[u] = copy[u]
    BY Typed DEF MarkSnapshotted, Reclaimed, Forget
  <2>8. /\ job'[t] = NoJob /\ listed'[t] \subseteq listed[t]
        /\ \A u \in Tasks \ {t} : listed'[u] = listed[u] /\ job'[u] = job[u]
    BY <2>5, Typed
  <2> QED BY <2>2, <2>4, <2>5, <2>6, <2>7, <2>8
<1> HIDE DEF s, h
<1>1. Apart'
  <2>1. ASSUME NEW q \in Sessions, NEW x \in Handles, Names(q, x)' PROVE Names(q, x)
    <3>2. CASE row'[q].handle = x \/ row'[q].snap = x
      BY <1>a, <1>b, <1>c, <3>2 DEF Names
    <3>3. CASE \E u \in Runs \cup Sessions :
       Home(u) = q /\ (wh'[u] = x \/ copy'[u].handle = x \/ copy'[u].snap = x)
      BY <1>a, <1>c, <3>3 DEF Names, Tasks
    <3>4. CASE \E u \in Tasks :
                (job'[u].s = q /\ job'[u].h = x) \/ [s |-> q, h |-> x] \in listed'[u]
      BY <1>a, <1>c, <3>4 DEF Names
    <3> QED BY <2>1, <3>2, <3>3, <3>4 DEF Names, Home
  <2> QED BY <1>c, <2>1, ApartKept DEF IInv
<1>2. ASSUME NEW q \in Sessions PROVE Life(q)'
  <2>1. Life(q) /\ q \in Tasks /\ (InReclaim(q)' => InReclaim(q))
    BY <1>a, <1>c DEF IInv, Tasks, InReclaim
  <2>2. InReclaim(s)
    BY DEF InReclaim, s
  <2>3. row[q] = NoRow => ~Exists(q)
    BY DEF NoRow, Exists
  <2>4. CASE q = s
    BY <1>a, <1>b, <1>c, <2>1, <2>2, <2>3, <2>4 DEF Life, Exists, Setup
  <2>5. CASE q # s
    BY <1>a, <1>b, <1>c, <2>1, <2>3, <2>5 DEF Life, Exists, Setup
  <2> QED BY <2>4, <2>5
<1>3. ASSUME NEW q \in Sessions PROVE Work(q)'
  <2>1. CASE q = s
    BY <1>a, <1>b, <1>c, <2>1 DEF Work, Exists
  <2>2. CASE q # s
    BY <1>a, <1>b, <1>c, <2>2 DEF IInv, Work, Exists, Marked, s
  <2> QED BY <2>1, <2>2
<1>4. ASSUME NEW u \in Tasks PROVE Starts(u)'
  <2>1. CASE u = t
    <3>1. t \in Runs \cup Sessions => pc'[t] \in {"reclaim", "alloc", "leaked"}
      BY <1>c
    <3> QED BY <1>b, <1>c, <2>1 DEF IInv, Starts
  <2>2. CASE u # t
    BY <1>c, <2>2 DEF IInv, Starts
  <2> QED BY <2>1, <2>2
<1>5. ASSUME NEW u \in Tasks PROVE Job(u)'
  <2>1. CASE u = t
    BY <1>c, <2>1 DEF Job
  <2>2. CASE u # t
    <3>1. Job(u) /\ JobOK(job[u]) /\ job'[u] = job[u] /\ job[u].s # s
      BY <1>b, <1>c, <2>2, Fields DEF IInv
    <3>2. \A v \in Tasks : job'[v].s \in {job[v].s, None}
      BY <1>a, <1>c
    <3> QED BY <1>a, <1>c, <3>1, <3>2 DEF Job, Exists, JobOK
  <2> QED BY <2>1, <2>2
<1>6. ASSUME NEW u \in Tasks PROVE Cands(u)'
  <2>1. \A c \in listed[u] : c \in listed[u] /\ c.s \in Sessions /\ c.h \in Handles
        /\ Names(c.s, c.h) /\ (c.s = s /\ Exists(s) => c.h = h \/ c.h \notin leased)
    BY <1>b, Fields DEF IInv, Cands, Names
  <2> QED BY <1>b, <1>c, <2>1 DEF IInv, Cands, Exists
<1>7. ASSUME NEW q \in Runs PROVE Drives(q)'
  <2>1. Drives(q) /\ q \in Tasks /\ SessionOf[q] \in Tasks
        /\ SessionOf[q] \in Sessions /\ q # None /\ q \notin Loops
    BY <1>a, Typed DEF IInv, Tasks, Setting
  <2>2. pc[q] \in Setup \cup {"work"} => SessionOf[q] # s
    BY <1>b, <2>1 DEF Drives
  <2>3. pc[SessionOf[q]] = "open" => SessionOf[q] # t
    BY <1>b
  <2> QED BY <1>b, <1>c, <2>1, <2>2, <2>3 DEF Drives, Setup, Exists
<1>8. ASSUME NEW x \in leased' PROVE Held(x)'
  <2>1. x \in Handles /\ x # h /\ Held(x)
    BY <1>b, <1>c, Typed DEF IInv
  <2>2. CASE \E q \in Sessions : row[q].handle = x
    BY <1>b, <1>c, <2>1, <2>2 DEF Held
  <2>3. CASE \E u \in Tasks : wh[u] = x /\ pc[u] # "work"
    BY <1>b, <1>c, <2>1, <2>3 DEF Held
  <2> QED BY <2>1, <2>2, <2>3 DEF Held
<1> QED BY <1>1, <1>2, <1>3, <1>4, <1>5, <1>6, <1>7, <1>8 DEF IInv

(***************************************************************************)
(* The theorems.                                                           *)
(***************************************************************************)
\* The invariant holds at first.
LEMMA InitInv == Setting /\ Init => TypeOK /\ Tries /\ IInv
<1>0. SUFFICES ASSUME Setting, Init PROVE TypeOK /\ Tries /\ IInv
  OBVIOUS
<1>n. NoRow \in Row /\ NoRow.handle = None /\ NoRow.snap = None
      /\ NoRow.state = "none" /\ NoJob.at = "none" /\ NoJob.s = None /\ NoJob.h = None
  BY DEF NoRow, Row, NoJob
<1>a. None \notin Handles /\ None \notin Sessions
  BY <1>0, WorkspaceConstants DEF Setting
<1>1. TypeOK
  BY <1>0, <1>n DEF Init, TypeOK
<1>2. Tries
  BY <1>0 DEF Init, Tries
<1>3. Apart
  BY <1>0, <1>a, <1>n DEF Init, Apart, Names, Tasks
<1>4. ASSUME NEW s \in Sessions PROVE Life(s) /\ Work(s)
  BY <1>0, <1>a, <1>n DEF Init, Life, Work, Tasks, InReclaim, Exists, Setup, NoRow
<1>5. ASSUME NEW t \in Tasks PROVE Starts(t) /\ Job(t) /\ Cands(t)
  BY <1>0 DEF Init, Starts, Job, Cands
<1>6. ASSUME NEW r \in Runs PROVE Drives(r)
  BY <1>0 DEF Init, Drives, Setup, Tasks
<1>7. leased = {}
  BY <1>0 DEF Init
<1> QED BY <1>1, <1>2, <1>3, <1>4, <1>5, <1>6, <1>7 DEF IInv

\* Every step keeps the invariant.
LEMMA NextInv ==
  ASSUME Setting, TypeOK, Tries, IInv, [Next]_vars PROVE TypeOK' /\ Tries' /\ IInv'
<1>1. TypeOK' /\ Tries'
  BY TypeStep DEF Setting
<1>2. IInv'
  <2>1. ASSUME NEW r \in Runs, Drive(r) PROVE IInv'
    <3>1. r \in Tasks
      BY DEF Tasks
    <3> QED BY <2>1, <3>1, StepQuiet, StepLease, StepRestore, StepExec, StepCleared
    DEF Drive
  <2>2. ASSUME NEW s \in Sessions, Client(s) PROVE IInv'
    BY <2>2, StepReserve, StepTeardown, StepDestroy, StepDropRow DEF Client
  <2>3. ASSUME NEW t \in Runs \cup Sessions, Request(t) PROVE IInv'
    <3>1. t \in Tasks
      BY DEF Tasks
    <3> QED BY <2>3, <3>1, StepAlloc, StepMarkHot, StepQuiet DEF Request
  <2>4. ASSUME NEW t \in Tasks, Reclaim(t) \/ Crash(t) PROVE IInv'
    BY <2>4, StepQuiet, StepTake, StepJob, StepMarkSnapshotted DEF Reclaim
  <2>5. ASSUME UNCHANGED vars PROVE IInv'
    <3>1. UNCHANGED <<row, leased, unused, dir, objects, blob, pc, copy, wh, tries, listed, job, saved>>
      BY <2>5 DEF vars, poolVars, storeVars, taskVars
    <3>2. Apart'
      BY <3>1 DEF IInv, Apart, Names, Home
    <3>3. \A s \in Sessions : Life(s)' /\ Work(s)'
      BY <3>1 DEF IInv, Life, Work, InReclaim, Exists, Marked
    <3>4. \A t \in Tasks : Starts(t)' /\ Job(t)' /\ Cands(t)'
      BY <3>1 DEF IInv, Starts, Job, Cands, Exists
    <3>5. \A r \in Runs : Drives(r)'
      BY <3>1 DEF IInv, Drives, Exists
    <3>6. \A h \in leased' : Held(h)'
      BY <3>1 DEF IInv, Held
    <3> QED BY <3>2, <3>3, <3>4, <3>5, <3>6 DEF IInv
  <2> QED BY <2>1, <2>2, <2>3, <2>4, <2>5 DEF Next
<1> QED BY <1>1, <1>2

\* Type correctness (the state of reclaim.rs, lib.rs and db.rs has its shape).
THEOREM TypeCorrect == ASSUME Setting PROVE Spec => []TypeOK
<1>1. Init => TypeOK /\ Tries /\ IInv
  BY InitInv
<1>2. TypeOK /\ Tries /\ IInv /\ [Next]_vars => (TypeOK /\ Tries /\ IInv)'
  BY NextInv
<1> QED BY <1>1, <1>2, PTL DEF Spec

\* The inductive invariant holds always.
LEMMA Invariant == ASSUME Setting PROVE Spec => [](TypeOK /\ Tries /\ IInv)
<1>1. Init => TypeOK /\ Tries /\ IInv
  BY InitInv
<1>2. TypeOK /\ Tries /\ IInv /\ [Next]_vars => (TypeOK /\ Tries /\ IInv)'
  BY NextInv
<1> QED BY <1>1, <1>2, PTL DEF Spec

\* The invariant implies WorkKept.
LEMMA InvWork == ASSUME Setting, TypeOK, IInv PROVE WorkKept
<1>1. SUFFICES ASSUME NEW s \in Sessions, Exists(s) PROVE saved[s] \subseteq Kept(s)
  BY DEF WorkKept
<1>a. None \notin Handles /\ None \notin Sessions /\ NoJob.at = "none"
  BY Typed DEF Setting, NoJob
<1>2. CASE Marked(s)
  <2>1. PICK t \in Tasks : job[t].s = s /\ job[t].at = "mark"
    BY <1>2 DEF Marked
  <2>2. saved[s] \subseteq blob[job[t].h]
    BY <1>1, <1>a, <2>1 DEF IInv, Job
  <2> QED BY <2>1, <2>2 DEF Kept
<1>3. CASE ~Marked(s)
  BY <1>1, <1>a, <1>3 DEF IInv, Work, Kept, Marked
<1> QED BY <1>2, <1>3

\* No work that a user was told is done is lost while its session exists, through
\* any number of snapshots, restores, preemptions, failed tries and crashes
\* (the order of the calls of snapshot_and_release and ensure_hot).
THEOREM WorkSafe == ASSUME Setting PROVE Spec => []WorkKept
<1>1. TypeOK /\ IInv => WorkKept
  BY InvWork
<1> QED BY <1>1, Invariant, PTL

\* Every leased directory is named by a row, or by a request that sets it up or
\* failed to (snapshot_and_release, ensure_hot, teardown_session).
THEOREM NothingOrphaned == ASSUME Setting PROVE Spec => []NoOrphans
<1>1. TypeOK /\ IInv => NoOrphans
  BY DEF IInv, Held, NoOrphans
<1> QED BY <1>1, Invariant, PTL

\* A run that works is on top of all the work of its session.
LEMMA Tops ==
  ASSUME Setting, TypeOK, IInv, NEW r \in Runs, pc[r] = "work"
  PROVE  pc[SessionOf[r]] = "open" /\ saved[SessionOf[r]] \subseteq dir[wh[r]]
<1> DEFINE s == SessionOf[r]
<1>a. s \in Sessions /\ r \in Tasks /\ None \notin Sessions /\ None \notin Runs
      /\ NoJob.s = None
  BY Typed DEF Setting, Tasks, NoJob
<1>1. /\ row[s].run = r /\ pc[s] = "open" /\ Exists(s)
      /\ wh[r] = row[s].handle /\ wh[r] # None
  BY DEF IInv, Drives
<1>2. ~Marked(s)
  <2>1. ASSUME NEW t \in Tasks, job[t].s = s PROVE FALSE
    <3>1. job[t] # NoJob
      BY <1>a, <2>1
    <3> QED BY <1>a, <1>1, <2>1, <3>1 DEF IInv, Job
  <2> QED BY <2>1 DEF Marked
<1> QED BY <1>a, <1>1, <1>2 DEF IInv, Work

\* Work is forgotten by the deletion of its session only.
LEMMA SavedKept ==
  ASSUME TypeOK, [Next]_vars, NEW s \in Sessions, Sessions \subseteq Tasks
  PROVE  saved[s] \subseteq saved'[s] \/ pc'[s] \in {"destroy", "over"}
<1> USE Typed DEF vars, taskVars
<1>1. ASSUME NEW r \in Runs, Drive(r) PROVE saved[s] \subseteq saved'[s]
  BY <1>1 DEF Drive, GetSession, Lease, Refused, Restore, Exec, Finish, Reap
<1>2. ASSUME NEW q \in Sessions, Client(q)
      PROVE saved[s] \subseteq saved'[s] \/ pc'[s] \in {"destroy", "over"}
  BY <1>2 DEF Client, Reserve, Teardown, Destroy, DropRow, Goto
<1>3. ASSUME NEW t \in Runs \cup Sessions, Request(t) PROVE saved' = saved
  BY <1>3 DEF Request, Alloc, AllocFull, MarkHot, SetupFails
<1>4. ASSUME NEW t \in Tasks, Reclaim(t) \/ Crash(t) PROVE saved' = saved
  BY <1>4 DEF Reclaim, List, Take, ListDone, SnapshotOpen, SnapshotTar, Put, Release,
              MarkSnapshotted, JobFails, Crash
<1> QED BY <1>1, <1>2, <1>3, <1>4 DEF Next

\* A run begins its work on top of all the work done before it, whether its session
\* was hot or had to be restored (ensure_hot).
THEOREM ResumesWithWork == ASSUME Setting PROVE Spec => RunsResume
<1> DEFINE Step == \A r \in Runs : BeginsWithWork(r)
           OnTop == TypeOK /\ IInv => \A r \in Runs : pc[r] = "work" =>
                      pc[SessionOf[r]] = "open"
                      /\ saved[SessionOf[r]] \subseteq dir[wh[r]]
<1>a. OnTop
  BY Tops
<1>b. OnTop'
  BY <1>a, PTL
<1>1. TypeOK /\ Tries /\ IInv /\ [Next]_vars => Step
  <2>1. SUFFICES ASSUME TypeOK, Tries, IInv, [Next]_vars, NEW r \in Runs, pc'[r] = "work"
                 PROVE  saved[SessionOf[r]] \subseteq dir'[wh'[r]]
    BY DEF BeginsWithWork
  <2>2. TypeOK' /\ IInv'
    BY <2>1, NextInv
  <2>3. pc'[SessionOf[r]] = "open" /\ saved'[SessionOf[r]] \subseteq dir'[wh'[r]]
    BY <1>b, <2>1, <2>2
  <2>4. SessionOf[r] \in Sessions /\ Sessions \subseteq Tasks
    BY <2>1, Typed DEF Tasks
  <2> QED BY <2>1, <2>3, <2>4, SavedKept
<1>2. Spec => [][Step]_vars
  BY <1>1, Invariant, PTL DEF Spec
<1> QED BY <1>2 DEF RunsResume
=============================================================================
