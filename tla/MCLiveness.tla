----------------------------- MODULE MCLiveness -----------------------------
(***************************************************************************)
(* Five modules that share no state and whose properties are about        *)
(* progress, checked side by side: Init chooses one of them (part), whose  *)
(* variables then move while those of the others keep their initial        *)
(* values.  The states of the parts add up instead of multiplying.         *)
(***************************************************************************)
EXTENDS Integers, Sequences, FiniteSets

CONSTANTS Attempts, Max, MaxQps, Overlap, Waiters, Local, Cancellers, Calls, Transports,
          Jobs, PipeSize, TailSize, MaxOutput,
          Reqs, Execs, Nodes, Cap, WarmMax, Queue, Dirs, Jailed, None

ASSUME MCLivenessAssumption ==
  {Max, MaxQps, PipeSize, TailSize, MaxOutput} \subseteq Nat /\ Local \subseteq Waiters

VARIABLES part,
  conc, qps, leased, pa, active, redis, tallied,
  flag, at, woken, by,
  transport, peer, call, pending, taken, answers, question, dialogs, stream,
  shell, left, hangs, group, loose, open, written, pipe, tail, reader, cancel, late,
  phase, end, answer,
  alloc, ranked, expired, slots, node, children, inode, warm, refill, files,
  unwiped, epc, on, cwd, alive, back

admVars == <<conc, qps, leased, pa, active, redis, tallied>>
cancelVars == <<flag, at, woken, by>>
rpcVars == <<transport, peer, call, pending, taken, answers, question, dialogs, stream>>
bashVars ==
  <<shell, left, hangs, group, loose, open, written, pipe, tail, reader, cancel, late,
    phase, end, answer>>
engineVars ==
  <<alloc, ranked, expired, slots, node, children, inode, warm, refill, files,
    unwiped, epc, on, cwd, alive, back>>

AD == INSTANCE Admission
CF == INSTANCE CancelFlag
RP == INSTANCE RpcPeer
BC == INSTANCE BashCall
EE == INSTANCE ExecEngineProofs
        WITH rpc <- alloc, late <- expired, leased <- slots, at <- inode

ASSUME EngineAssumption == EE!ExecEngineAssumption

Init ==
  /\ part \in {"admission", "cancel", "rpc", "bash", "engine"}
  /\ AD!Init /\ CF!Init /\ RP!Init /\ BC!Init /\ EE!Init
  /\ part # "admission" => redis
  /\ part # "rpc" => transport = CHOOSE t \in Transports : TRUE
  /\ part # "bash" => left = 0 /\ ~hangs

\* The variables of every part but p.
Others(p) ==
  /\ p # "admission" => UNCHANGED admVars
  /\ p # "cancel" => UNCHANGED cancelVars
  /\ p # "rpc" => UNCHANGED rpcVars
  /\ p # "bash" => UNCHANGED bashVars
  /\ p # "engine" => UNCHANGED engineVars

Next ==
  /\ UNCHANGED part /\ Others(part)
  /\ \/ part = "admission" /\ AD!Next
     \/ part = "cancel" /\ CF!Next
     \/ part = "rpc" /\ RP!Next
     \/ part = "bash" /\ BC!Next
     \/ part = "engine" /\ EE!Next

\* A request and a run's end go on; replicas reap and reconcile at every tick.
\* Woken futures are polled; a loop of select! comes round again.
\* Tasks answer and clocks advance; a peer that is up serves its calls, so that
\* nothing is owed to the clock then.  Allocations go on, and their deadlines pass.
Fairness ==
  /\ \A a \in Attempts : WF_admVars(part = "admission" /\ AD!Proceeds(a))
  /\ WF_admVars(part = "admission" /\ AD!Reconciles)
  /\ \A w \in Local : WF_cancelVars(part = "cancel" /\ CF!Poll(w))
  /\ \A c \in Cancellers : WF_cancelVars(part = "cancel" /\ CF!NotifyWaiters(c))
  /\ \A w \in Waiters \ Local :
       /\ WF_cancelVars(part = "cancel" /\ at[w] = "wait" /\ CF!Drop(w))
       /\ WF_cancelVars(part = "cancel" /\ CF!Enter(w))
       /\ SF_cancelVars(part = "cancel" /\ CF!Poll(w))
  /\ \A c \in Calls :
       /\ WF_rpcVars(part = "rpc" /\ (RP!Route(c) \/ RP!StreamEnds(c)))
       /\ WF_rpcVars(part = "rpc" /\ (RP!AnswerByTask(c) \/ RP!AnswerInStream(c) \/ RP!OpenDialog(c)))
       /\ WF_rpcVars(part = "rpc" /\ RP!DialogTimeout(c))
       /\ WF_rpcVars(part = "rpc" /\ RP!PeerAnswers(c))
       /\ WF_rpcVars(part = "rpc" /\ peer # "up" /\ RP!Timeout(c))
  /\ WF_bashVars(part = "bash" /\ BC!ShellGoesOn) /\ WF_bashVars(part = "bash" /\ BC!Reads)
  /\ WF_bashVars(part = "bash" /\ BC!Proceeds)
  /\ WF_bashVars(part = "bash" /\ hangs /\ BC!Elapse)
  /\ \A r \in Reqs :
       /\ WF_engineVars(part = "engine" /\ EE!AllocStep(r) /\ alloc[r] # "idle")
       /\ WF_engineVars(part = "engine" /\ EE!Deadline(r))

vars == <<part, admVars, cancelVars, rpcVars, bashVars, engineVars>>

Spec == Init /\ [][Next]_vars /\ Fairness

TypesOK == AD!TypeOK /\ CF!TypeOK /\ RP!TypeOK /\ BC!TypeOK
           /\ (part = "engine" => EE!TypeOK)

\* No tenant has more runs than its quota, whatever requests, rollbacks and
\* losses of the counter interleave, but for what Overlap names (Admission).
WithinMax == AD!WithinMax

\* A slot that a run has left, or whose owner has died, is free again
\* (Admission).
SlotsReturn == AD!SlotsReturn

\* A cancelled flag is heard: a waiter of the run wakes, and the flag of the
\* others is found when it is looked at (CancelFlag).
CancelHeard == CF!LocalWakes /\ CF!CancelFound

\* What a call leaves behind is backed by somebody: an entry of the table of
\* pending calls by its caller (RpcPeer), a process of a shell by a call that
\* has not returned (BashCall).
CallBacked == RP!PendingBacked /\ BC!CallClosed

\* Every call of a tool server, of an extension and of the shell returns
\* (RpcPeer, BashCall).
CallsEnd == RP!CallsEnd /\ (part = "bash" => BC!CallReturns /\ BC!NeverStuck)

\* A node never has more leases than its capacity, whatever allocations,
\* failures and releases overlap (ExecEngine).
CapacityKept == EE!CapacityKept

\* Every allocation ends, with a workspace or with an error (ExecEngine).
AllocEnds == EE!AllocEnds
=============================================================================
