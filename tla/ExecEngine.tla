----------------------------- MODULE ExecEngine -----------------------------
(***************************************************************************)
(* The execution nodes behind the control plane: PoolScheduler, which      *)
(* tries the nodes of a region one after the other, and the Engine of each *)
(* node, with its leased map, its queue for a free slot, its pool of warm  *)
(* directories and the processes of `bash'.                                *)
(*                                                                         *)
(* A request r asks for a workspace; its handle is r itself (the code      *)
(* draws a fresh uuid).  A directory is an inode, which keeps its identity *)
(* when it is renamed: a process keeps it as its working directory.        *)
(* One action is one critical section of the code, or one system call.     *)
(*                                                                         *)
(* A command is a shell and the processes it leaves in the background.     *)
(* Under bwrap all of them end with the shell (--unshare-pid and           *)
(* --die-with-parent).  Without it only the shell is kill_on_drop: the     *)
(* others are reached by abort, as the process group of a listed pid, and  *)
(* by nothing else.                                                        *)
(***************************************************************************)
EXTENDS Integers, FiniteSets, Sequences

CONSTANTS Reqs,      \* allocation requests, and the handles they get
          Execs,     \* requests to run a command or a file tool in a handle
          Nodes,     \* the nodes the scheduler may choose from
          Cap,       \* max_workspaces of a node
          WarmMax,   \* warm_pool of a node
          Queue,     \* alloc_queue is not zero
          Dirs,      \* inodes, enough for every directory there may be
          Jailed,    \* the nodes on which command_with finds bwrap
          None,
          Overlap    \* overlaps the clients of a handle allow themselves

ExecEngineAssumption ==
  /\ Cap \in Nat \ {0} /\ WarmMax \in Nat
  /\ Overlap \subseteq {"gap", "sibling"} /\ Jailed \subseteq Nodes

VARIABLES
  rpc,       \* [Reqs]: where alloc_pref and the release of the handle are
  ranked,    \* [Reqs]: the nodes alloc_pref has still to try
  late,      \* requests whose deadline in the queue has passed
  leased,    \* handles in the leased maps of the nodes
  node,      \* [Reqs]: the node of a handle
  children,  \* [Reqs]: Slot.children
  at,        \* [Reqs]: the inode at the path of the handle
  warm,      \* [Nodes]: the warm directories
  refill,    \* [Reqs]: the refill task spawned by an alloc, with its `want'
  files,     \* [Dirs]: who wrote into a directory
  unwiped,   \* directories in which the last wipe left something
  epc, on, cwd,   \* [Execs]: a call, its handle, its working directory
  alive,     \* calls whose shell runs
  back       \* [Execs]: the background processes of a call: none, in the
             \* group of its shell, or where no kill of the engine reaches them

vars == <<rpc, ranked, late, leased, node, children, at, warm, refill, files,
          unwiped, epc, on, cwd, alive, back>>
engine == <<leased, node, children, at, warm, files, unwiped>>
calls == <<epc, on, cwd, alive, back>>

\* A refill task: none, one that has not counted yet, or its `want'.
NoTask == -1
Spawned == -2

Used(n) == {h \in leased : node[h] = n}
Seqs(S) == {s \in UNION {[1..k -> S] : k \in 0..Cardinality(S)} :
              \A i, j \in DOMAIN s : s[i] = s[j] => i = j}
Linked == {at[r] : r \in Reqs} \union UNION {{warm[n][i] : i \in DOMAIN warm[n]} : n \in Nodes}
Running == alive \union {e \in Execs : back[e] # "none"}
Fresh == CHOOSE d \in Dirs : d \notin Linked \union {cwd[e] : e \in Running}
Busy(r) == {e \in Execs : on[e] = r /\ epc[e] \notin {"idle", "done"}}

TypeOK ==
  /\ rpc \in [Reqs -> {"idle", "try", "unlocked", "waiting", "inserted", "held",
                       "refused", "failed", "kill", "unlease", "wipe", "park",
                       "destroy", "rmdir", "gone"}]
  /\ ranked \in [Reqs -> Seqs(Nodes)]
  /\ late \subseteq Reqs /\ leased \subseteq Reqs
  /\ node \in [Reqs -> Nodes \union {None}]
  /\ children \in [Reqs -> SUBSET Execs]
  /\ at \in [Reqs -> Dirs \union {None}]
  /\ \A n \in Nodes : warm[n] \in Seq(Dirs) /\ Len(warm[n]) <= WarmMax
  /\ refill \in [Reqs -> {NoTask, Spawned} \union 0..WarmMax]
  /\ files \in [Dirs -> SUBSET Execs] /\ unwiped \subseteq Dirs
  /\ epc \in [Execs -> {"idle", "ready", "gap", "waiting", "late", "abort", "done"}]
  /\ on \in [Execs -> Reqs \union {None}]
  /\ cwd \in [Execs -> Dirs \union {None}]
  /\ alive \subseteq Execs
  /\ back \in [Execs -> {"none", "group", "loose"}]

Init ==
  /\ rpc = [r \in Reqs |-> "idle"]
  /\ ranked = [r \in Reqs |-> <<>>]
  /\ late = {} /\ leased = {} /\ alive = {} /\ unwiped = {}
  /\ node = [r \in Reqs |-> None]
  /\ children = [r \in Reqs |-> {}]
  /\ at = [r \in Reqs |-> None]
  /\ warm = [n \in Nodes |-> <<>>]
  /\ refill = [r \in Reqs |-> NoTask]
  /\ files = [d \in Dirs |-> {}]
  /\ epc = [e \in Execs |-> "idle"]
  /\ on = [e \in Execs |-> None]
  /\ cwd = [e \in Execs |-> None]
  /\ back = [e \in Execs |-> "none"]

-----------------------------------------------------------------------------
(* Allocation. *)

\* notify_waiters: every future created before the call returns to the loop.
Notify(n, pc) == [r \in Reqs |->
                    IF pc[r] = "waiting" /\ Head(ranked[r]) = n THEN "try" ELSE pc[r]]

\* alloc_pref keeps the nodes of the wanted region and kind, and ranks them by
\* the free slots they report.  The reports are old when they are used, and a
\* node that does not answer counts as full: any order may result.
Rank(r) ==
  /\ rpc[r] = "idle"
  /\ \E s \in Seqs(Nodes) \ {<<>>} : ranked' = [ranked EXCEPT ![r] = s]
  /\ rpc' = [rpc EXCEPT ![r] = "try"]
  /\ UNCHANGED <<late, refill, engine, calls>>

\* (a bug: the slots are counted under one lock and taken under another)
InsertUnlocked(r) ==
  LET n == Head(ranked[r]) IN
  /\ rpc[r] = "try"
  /\ Cardinality(Used(n)) <= Cap
  /\ leased' = leased \union {r}
  /\ node' = [node EXCEPT ![r] = n]
  /\ rpc' = [rpc EXCEPT ![r] = "inserted"]
  /\ UNCHANGED <<ranked, late, children, at, warm, refill, files, unwiped, calls>>

\* alloc_with finds a slot and takes it under one lock.
Insert(r) ==
  LET n == Head(ranked[r]) IN
  /\ rpc[r] = "try"
  /\ Cardinality(Used(n)) < Cap
  /\ leased' = leased \union {r}
  /\ node' = [node EXCEPT ![r] = n]
  /\ rpc' = [rpc EXCEPT ![r] = "inserted"]
  /\ UNCHANGED <<ranked, late, children, at, warm, refill, files, unwiped, calls>>

\* The node is full and does not queue, or the deadline has passed: the
\* scheduler goes on to the next node, with a new deadline, or reports the
\* pool exhausted.
Exhausted(r) ==
  /\ rpc[r] = "try"
  /\ Cardinality(Used(Head(ranked[r]))) >= Cap
  /\ ~Queue \/ r \in late
  /\ ranked' = [ranked EXCEPT ![r] = Tail(@)]
  /\ rpc' = [rpc EXCEPT ![r] = IF Len(ranked[r]) = 1 THEN "refused" ELSE "try"]
  /\ late' = late \ {r}
  /\ UNCHANGED <<refill, engine, calls>>

\* The node is full: the lock is dropped, and only then is the future of
\* `freed' created.
Unlock(r) ==
  /\ rpc[r] = "try" /\ Queue /\ r \notin late
  /\ Cardinality(Used(Head(ranked[r]))) >= Cap
  /\ rpc' = [rpc EXCEPT ![r] = "unlocked"]
  /\ UNCHANGED <<ranked, late, refill, engine, calls>>

Arm(r) ==
  /\ rpc[r] = "unlocked"
  /\ rpc' = [rpc EXCEPT ![r] = "waiting"]
  /\ UNCHANGED <<ranked, late, refill, engine, calls>>

Deadline(r) ==
  /\ Queue /\ rpc[r] \in {"try", "unlocked", "waiting"} /\ r \notin late
  /\ late' = late \union {r}
  /\ UNCHANGED <<rpc, ranked, refill, engine, calls>>

\* (a bug: the wait has no timer of its own and relies on the wake-up)
SleepNever(r) == FALSE /\ UNCHANGED vars /\ r \in Reqs

\* The sleep of the select: the loop looks at the map once more.
SleepOver(r) ==
  /\ rpc[r] = "waiting" /\ r \in late
  /\ rpc' = [rpc EXCEPT ![r] = "try"]
  /\ UNCHANGED <<ranked, late, refill, engine, calls>>

\* A directory that is made new.
MadeNew(d) == files' = [files EXCEPT ![d] = {}] /\ unwiped' = unwiped \ {d}

\* materialize_dir: the last warm directory is renamed, or, where there is none
\* or the rename fails, a new one is made; the route then spawns a refill.
Materialize(r) ==
  LET n == node[r]
      w == warm[n]
      last == w[Len(w)] IN
  /\ rpc[r] = "inserted"
  /\ \/ /\ w # <<>>
        /\ at' = [x \in Reqs |-> IF x = r THEN last ELSE IF at[x] = last THEN None ELSE at[x]]
        /\ UNCHANGED <<files, unwiped>>
     \/ /\ at' = [at EXCEPT ![r] = Fresh]
        /\ MadeNew(Fresh)
  /\ warm' = [warm EXCEPT ![n] = IF w = <<>> THEN w ELSE SubSeq(w, 1, Len(w) - 1)]
  /\ rpc' = [rpc EXCEPT ![r] = "held"]
  /\ refill' = [refill EXCEPT ![r] = Spawned]
  /\ late' = late \ {r}
  /\ UNCHANGED <<ranked, leased, node, children, calls>>

\* The directory cannot be made: the slot is given back; this error ends
\* alloc_pref, which goes on to another node only when one is exhausted.
MaterializeFails(r) ==
  /\ rpc[r] = "inserted"
  /\ leased' = leased \ {r}
  /\ rpc' = Notify(node[r], [rpc EXCEPT ![r] = "failed"])
  /\ late' = late \ {r}
  /\ UNCHANGED <<ranked, node, children, at, warm, refill, files, unwiped, calls>>

\* refill_warm counts the leases first and takes the lock of the warm pool
\* afterwards.
RefillCount(r) ==
  LET left == Cap - Cardinality(Used(node[r])) IN
  /\ refill[r] = Spawned
  /\ refill' = [refill EXCEPT ![r] = IF left < WarmMax THEN left ELSE WarmMax]
  /\ UNCHANGED <<rpc, ranked, late, engine, calls>>

RefillPush(r) ==
  LET n == node[r] IN
  /\ refill[r] \in 0..WarmMax
  /\ IF Len(warm[n]) < refill[r]
     THEN /\ warm' = [warm EXCEPT ![n] = Append(@, Fresh)]
          /\ MadeNew(Fresh)
          /\ UNCHANGED refill
     ELSE /\ refill' = [refill EXCEPT ![r] = NoTask]
          /\ UNCHANGED <<warm, files, unwiped>>
  /\ UNCHANGED <<rpc, ranked, late, leased, node, children, at, calls>>

-----------------------------------------------------------------------------
(* Release, destroy, abort. *)

\* What the background processes of the calls in S become.
Become(S, x) == back' = [e \in Execs |-> IF e \in S /\ back[e] = "group" THEN x ELSE back[e]]
Listed(r) == IF r \in leased THEN children[r] ELSE {}

\* The children of a slot are taken and their process groups killed.
Take(r) ==
  /\ children' = [children EXCEPT ![r] = {}]
  /\ alive' = alive \ Listed(r)
  /\ Become(Listed(r), "none")

\* The routes check the tenant and the handle.  A command may be running: it is
\* killed.  That one is just being started, between its lookup and the moment
\* its pid is registered, is left to Overlap.
ReleaseRoute(r) ==
  /\ rpc[r] = "held" /\ r \in leased
  /\ "gap" \in Overlap \/ \A e \in Busy(r) : epc[e] \notin {"ready", "gap"}
  /\ \E k \in {"kill", "destroy"} : rpc' = [rpc EXCEPT ![r] = k]
  /\ UNCHANGED <<ranked, late, refill, engine, calls>>

Kill(r) ==
  /\ rpc[r] \in {"kill", "destroy"}
  /\ Take(r)
  /\ rpc' = [rpc EXCEPT ![r] = IF rpc[r] = "kill" THEN "unlease" ELSE "rmdir"]
  /\ UNCHANGED <<ranked, late, leased, node, at, warm, refill, files,
                 unwiped, epc, on, cwd>>

Unlease(r) ==
  /\ rpc[r] = "unlease"
  /\ leased' = leased \ {r}
  /\ children' = [children EXCEPT ![r] = {}]
  /\ rpc' = [rpc EXCEPT ![r] = "wipe"]
  /\ UNCHANGED <<ranked, late, node, at, warm, refill, files, unwiped, calls>>

\* wipe_dir goes over every removal that fails.
Wipe(r) ==
  /\ rpc[r] = "wipe"
  /\ \E left \in SUBSET files[at[r]] :
       /\ files' = [files EXCEPT ![at[r]] = left]
       /\ unwiped' = IF left = {} THEN unwiped \ {at[r]} ELSE unwiped \union {at[r]}
  /\ rpc' = [rpc EXCEPT ![r] = "park"]
  /\ UNCHANGED <<ranked, late, leased, node, children, at, warm, refill, calls>>

\* The wiped directory joins the warm pool, under its old path, if there is
\* room; otherwise it is removed.  The waiters are told in either case.
Park(r) ==
  LET n == node[r] IN
  /\ rpc[r] = "park"
  /\ IF Len(warm[n]) < WarmMax
     THEN warm' = [warm EXCEPT ![n] = Append(@, at[r])] /\ UNCHANGED at
     ELSE at' = [at EXCEPT ![r] = None] /\ UNCHANGED warm
  /\ rpc' = Notify(n, [rpc EXCEPT ![r] = "gone"])
  /\ UNCHANGED <<ranked, late, leased, node, children, refill, files, unwiped, calls>>

\* destroy, after its abort: the slot, the directory, the waiters.  (A directory
\* that cannot be removed, here or in Park, has a path nobody asks for again.)
Destroy(r) ==
  /\ rpc[r] = "rmdir"
  /\ leased' = leased \ {r}
  /\ children' = [children EXCEPT ![r] = {}]
  /\ at' = [at EXCEPT ![r] = None]
  /\ rpc' = Notify(node[r], [rpc EXCEPT ![r] = "gone"])
  /\ UNCHANGED <<ranked, late, node, warm, refill, files, unwiped, calls>>

\* The abort route.  PoolScheduler does not forward abort (the default of the
\* trait does nothing): only a client of the node itself reaches this.
Abort(r) ==
  /\ rpc[r] = "held" /\ r \in leased /\ children[r] # {}
  /\ Take(r)
  /\ UNCHANGED <<rpc, ranked, late, leased, node, at, warm, refill, files,
                 unwiped, epc, on, cwd>>

-----------------------------------------------------------------------------
(* Commands and file tools. *)

Handles == {r \in Reqs : rpc[r] \in {"held", "kill", "unlease", "wipe", "park",
                                     "destroy", "rmdir", "gone"}}

\* exec_paths, dir_for: the handle is looked up, its path is remembered.
Lookup(e, r) ==
  /\ epc[e] = "idle" /\ r \in Handles
  /\ "sibling" \in Overlap \/ Busy(r) = {}
  /\ "gap" \in Overlap \/ rpc[r] \notin {"kill", "unlease", "destroy", "rmdir"}
  /\ on' = [on EXCEPT ![e] = r]
  /\ epc' = [epc EXCEPT ![e] = IF r \in leased THEN "ready" ELSE "done"]
  /\ UNCHANGED <<cwd, alive, back, rpc, ranked, late, refill, engine>>

\* The command starts in the directory that has the remembered path now, or
\* fails when there is none.
Spawn(e) ==
  /\ epc[e] = "ready"
  /\ IF at[on[e]] = None
     THEN epc' = [epc EXCEPT ![e] = "done"] /\ UNCHANGED <<cwd, alive>>
     ELSE /\ epc' = [epc EXCEPT ![e] = "gap"]
          /\ cwd' = [cwd EXCEPT ![e] = at[on[e]]]
          /\ alive' = alive \union {e}
  /\ UNCHANGED <<on, back, rpc, ranked, late, refill, engine>>

\* The pid is put into the slot, if the slot is still there.
Register(e) ==
  /\ epc[e] = "gap"
  /\ IF on[e] \in leased
     THEN children' = [children EXCEPT ![on[e]] = @ \union {e}] /\ UNCHANGED back
     ELSE Become({e}, "loose") /\ UNCHANGED children
  /\ epc' = [epc EXCEPT ![e] = "waiting"]
  /\ UNCHANGED <<on, cwd, alive, rpc, ranked, late, refill, leased, node, at, warm, files, unwiped>>

\* fs_tool_for: read, write, edit, glob and grep go to the path, not the inode.
FsTool(e) ==
  /\ epc[e] = "ready"
  /\ epc' = [epc EXCEPT ![e] = "done"]
  /\ files' = IF at[on[e]] = None THEN files
              ELSE [files EXCEPT ![at[on[e]]] = @ \union {e}]
  /\ UNCHANGED <<on, cwd, alive, back, rpc, ranked, late, refill, leased, node, children, at,
                 warm, unwiped>>

\* The processes of a command.  One that is over and one that does nothing more
\* are the same, so that only the shell's end is a step.
Write(e) ==
  /\ e \in Running /\ cwd[e] \in Linked /\ e \notin files[cwd[e]]
  /\ files' = [files EXCEPT ![cwd[e]] = @ \union {e}]
  /\ UNCHANGED <<calls, rpc, ranked, late, refill, leased, node, children, at, warm, unwiped>>

\* The shell starts a process that may outlive it: where bwrap is, none can.
Fork(e) ==
  /\ e \in alive /\ back[e] = "none" /\ node[on[e]] \notin Jailed
  /\ back' = [back EXCEPT ![e] = "group"]
  /\ UNCHANGED <<epc, on, cwd, alive, rpc, ranked, late, refill, engine>>

\* (setsid)
LeaveGroup(e) ==
  /\ back[e] = "group"
  /\ Become({e}, "loose")
  /\ UNCHANGED <<epc, on, cwd, alive, rpc, ranked, late, refill, engine>>

Exit(e) ==
  /\ e \in alive
  /\ alive' = alive \ {e}
  /\ UNCHANGED <<epc, on, cwd, back, rpc, ranked, late, refill, engine>>

\* The wait ends: by the end of the shell, when no other process holds its pipes,
\* or by the timeout.  The list of the slot is cleared, whoever is in it, and
\* with it the way to the processes that are left.
Clear(e) ==
  /\ epc[e] = "late" \/ (epc[e] = "waiting" /\ e \notin alive)
  /\ children' = IF on[e] \in leased THEN [children EXCEPT ![on[e]] = {}] ELSE children
  /\ Become(Listed(on[e]), "loose")
  /\ epc' = [epc EXCEPT ![e] = IF epc[e] = "late" THEN "abort" ELSE "done"]
  /\ UNCHANGED <<on, cwd, alive, rpc, ranked, late, refill, leased, node, at, warm, files, unwiped>>

\* (a bug: the child is not kill_on_drop, and its pid has left the list)
TimedOutAlive(e) ==
  /\ epc[e] = "waiting" /\ e \in Running
  /\ epc' = [epc EXCEPT ![e] = "late"]
  /\ UNCHANGED <<on, cwd, alive, back, rpc, ranked, late, refill, engine>>

\* The timeout drops the child: its shell dies.  A process that holds the pipes
\* makes the wait last as long as the shell would.
TimedOut(e) ==
  /\ epc[e] = "waiting" /\ e \in Running
  /\ alive' = alive \ {e}
  /\ epc' = [epc EXCEPT ![e] = "late"]
  /\ UNCHANGED <<on, cwd, back, rpc, ranked, late, refill, engine>>

\* The abort of the timeout comes after the list was cleared.
AbortOwn(e) ==
  /\ epc[e] = "abort"
  /\ Take(on[e])
  /\ epc' = [epc EXCEPT ![e] = "done"]
  /\ UNCHANGED <<on, cwd, rpc, ranked, late, refill, leased, node, at, warm, files, unwiped>>

\* The client of the call goes away (a cancelled run drops its request): the
\* handler is dropped with its child, and a pid that is in the list stays there.
Disconnect(e) ==
  /\ epc[e] \in {"ready", "gap", "waiting"}
  /\ alive' = alive \ {e}
  /\ Become(IF epc[e] = "gap" THEN {e} ELSE {}, "loose")
  /\ epc' = [epc EXCEPT ![e] = "done"]
  /\ UNCHANGED <<on, cwd, rpc, ranked, late, refill, engine>>

-----------------------------------------------------------------------------
AllocStep(r) ==
  \/ Rank(r) \/ Insert(r) \/ Exhausted(r) \/ Unlock(r) \/ Arm(r) \/ Deadline(r)
  \/ SleepOver(r) \/ Materialize(r) \/ MaterializeFails(r)

ReleaseStep(r) == Kill(r) \/ Unlease(r) \/ Wipe(r) \/ Park(r) \/ Destroy(r)

ExecStep(e) ==
  \/ Spawn(e) \/ Register(e) \/ FsTool(e) \/ Write(e) \/ Fork(e) \/ LeaveGroup(e) \/ Exit(e)
  \/ Clear(e) \/ TimedOut(e) \/ AbortOwn(e) \/ Disconnect(e)

Next ==
  \/ \E r \in Reqs : AllocStep(r) \/ ReleaseRoute(r) \/ ReleaseStep(r) \/ Abort(r)
                     \/ RefillCount(r) \/ RefillPush(r)
  \/ \E e \in Execs : ExecStep(e) \/ \E r \in Reqs : Lookup(e, r)

Spec == Init /\ [][Next]_vars

\* The tasks of the runtime run on, and its timers fire.
Fairness ==
  /\ \A r \in Reqs : WF_vars(AllocStep(r) /\ rpc[r] # "idle") /\ WF_vars(Deadline(r))
LiveSpec == Spec /\ Fairness

-----------------------------------------------------------------------------
(* A node never has more leases than max_workspaces, whatever allocations,   *)
(* failures and releases overlap (tests concurrent_alloc_never_exceeds_cap). *)
CapacityKept == \A n \in Nodes : Cardinality(Used(n)) <= Cap

(* The shell of a command outlives neither its slot nor its directory: the   *)
(* release kills what runs, and so do a timeout, although it clears the list *)
(* of children first, and a client that goes away.  The processes the shell  *)
(* left behind die with the slot as well, but for the loose ones, whose pid  *)
(* has left the list or which have left the group; where bwrap is there are  *)
(* none.  The run assumes Overlap = {}; with "gap" or "sibling" TLC finds    *)
(* the property violated.                                                    *)
NoStray == \A e \in Execs :
  e \in alive \/ back[e] = "group" => on[e] \in leased /\ cwd[e] = at[on[e]]

(* A workspace is handed over clean, from the warm pool or new: what is in   *)
(* it was written by calls on its own handle, and no two handles share it;   *)
(* but for what a loose process writes into the directory it stands in, and  *)
(* for a directory whose wipe failed.                                        *)
Excused(e, d) == back[e] = "loose" \/ d \in unwiped
CleanHandover ==
  /\ \A r \in leased : at[r] # None /\ rpc[r] # "inserted" =>
       /\ \A e \in files[at[r]] : on[e] = r \/ Excused(e, at[r])
       /\ \A q \in leased \ {r} : at[q] # at[r]
  /\ \A n \in Nodes : \A i \in DOMAIN warm[n] :
       \A e \in files[warm[n][i]] : Excused(e, warm[n][i])

(* The two together: a workspace changes hands with nothing of its last one  *)
(* but what no kill reaches and what could not be removed.                   *)
HandedOverClean == NoStray /\ CleanHandover

(* Every allocation is answered, although the wake-up of a release can be    *)
(* lost between the unlock and the wait: with a workspace, with "exhausted"  *)
(* or with an error.                                                         *)
AllocEnds == \A r \in Reqs :
  rpc[r] = "try" ~> rpc[r] \notin {"try", "unlocked", "waiting", "inserted"}
=============================================================================
