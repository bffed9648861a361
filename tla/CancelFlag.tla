----------------------------- MODULE CancelFlag -----------------------------
(***************************************************************************)
(* CancelFlag of crates/rupi-core: an atomic flag and a tokio Notify.  One *)
(* cancel() stores the flag and then calls notify_waiters; cancelled()     *)
(* reads the flag and, while it is off, creates a Notified and awaits it.  *)
(*                                                                         *)
(* notify_waiters keeps no permit: it wakes the Notified futures that      *)
(* exist, and nothing of it is left for those created later.               *)
(***************************************************************************)
EXTENDS FiniteSets

CONSTANTS
  Waiters,     \* futures of cancelled(): the agent loop's, the running tool's
  Local,       \* those of them polled in the task that also cancels (the RPC host)
  Cancellers   \* callers of cancel(): Esc, a dropped stream, a lost lease

VARIABLES
  flag,   \* CancelInner.cancelled
  at,     \* where a future of cancelled() is
  woken,  \* the futures whose Notified has been woken
  by      \* where a call of cancel() is

cancelVars == <<flag, at, woken, by>>

TypeOK ==
  /\ flag \in BOOLEAN
  /\ at \in [Waiters -> {"none", "check", "arm", "wait", "ready"}]
  /\ woken \subseteq {w \in Waiters : at[w] = "wait"}
  /\ by \in [Cancellers -> {"none", "notify"}]

Init ==
  /\ flag = FALSE
  /\ at = [w \in Waiters |-> "none"]
  /\ woken = {}
  /\ by = [c \in Cancellers |-> "none"]

\* The first poll of cancelled().
Enter(w) ==
  /\ at[w] = "none"
  /\ at' = [at EXCEPT ![w] = "check"]
  /\ UNCHANGED <<flag, woken, by>>

\* is_cancelled().  In its own task nobody cancels before the await.
Check(w) ==
  /\ at[w] = "check"
  /\ at' = [at EXCEPT ![w] = IF flag THEN "ready"
                             ELSE IF w \in Local THEN "wait" ELSE "arm"]
  /\ UNCHANGED <<flag, woken, by>>

\* notify.notified(): from here on a notify_waiters reaches w.
Arm(w) ==
  /\ at[w] = "arm"
  /\ at' = [at EXCEPT ![w] = "wait"]
  /\ UNCHANGED <<flag, woken, by>>

\* The await returns; the loop reads the flag again.
Wake(w) ==
  /\ at[w] = "wait" /\ w \in woken
  /\ at' = [at EXCEPT ![w] = "check"]
  /\ woken' = woken \ {w}
  /\ UNCHANGED <<flag, by>>

\* (a bug: the dropped Notified stays in the list of tokio)
LeaveLinked(w) ==
  /\ at[w] # "none"
  /\ at' = [at EXCEPT ![w] = "none"]
  /\ UNCHANGED <<flag, woken, by>>

\* select! took another branch (a delta, the answer) and dropped the future;
\* or the caller has seen that cancelled() is ready.
Drop(w) ==
  /\ at[w] # "none"
  /\ at' = [at EXCEPT ![w] = "none"]
  /\ woken' = woken \ {w}
  /\ UNCHANGED <<flag, by>>

Store(c) ==
  /\ by[c] = "none"
  /\ flag' = TRUE
  /\ by' = [by EXCEPT ![c] = "notify"]
  /\ UNCHANGED <<at, woken>>

\* (a bug: notify_one)
NotifyOne(c) ==
  /\ by[c] = "notify"
  /\ by' = [by EXCEPT ![c] = "none"]
  /\ \E w \in Waiters : woken' = woken \cup ({w} \cap {v \in Waiters : at[v] = "wait"})
  /\ UNCHANGED <<flag, at>>

NotifyWaiters(c) ==
  /\ by[c] = "notify"
  /\ by' = [by EXCEPT ![c] = "none"]
  /\ woken' = woken \cup {w \in Waiters : at[w] = "wait"}
  /\ UNCHANGED <<flag, at>>

\* AgentSession::prompt_queued starts the next prompt with the same flag.
Reset ==
  /\ flag
  /\ flag' = FALSE
  /\ UNCHANGED <<at, woken, by>>

Poll(w) == Check(w) \/ Arm(w) \/ Wake(w)

Next ==
  \/ \E w \in Waiters : Enter(w) \/ Poll(w) \/ Drop(w)
  \/ \E c \in Cancellers : Store(c) \/ NotifyWaiters(c)
  \/ Reset

Spec == Init /\ [][Next]_cancelVars

\* Woken futures are polled and a cancel() that has stored goes on to notify.
Scheduled ==
  /\ \A w \in Waiters : WF_cancelVars(Poll(w))
  /\ \A c \in Cancellers : WF_cancelVars(NotifyWaiters(c))

QuietSpec == Spec /\ Scheduled

\* The loop of select! comes round again, because the provider keeps sending,
\* and its random order of branches does not leave cancelled() out for ever.
ComesRound(w) ==
  /\ WF_cancelVars(at[w] = "wait" /\ Drop(w))
  /\ WF_cancelVars(Enter(w)) /\ SF_cancelVars(Poll(w))

Woken(w) == (flag /\ at[w] # "none") ~> (~flag \/ at[w] \in {"ready", "none"})

\* A cancellation that lasts is seen by everyone who awaits it in the task that
\* cancels, even if the provider is silent: the future is ready, or nobody
\* awaits it any more (CancelFlag::cancelled in the RPC host and the TUI).
LocalWakes == \A w \in Local : Woken(w)

\* "Returns as soon as the flag is set": for the futures of other tasks too
\* (CancelFlag::cancelled in the control plane).
CancelWakes == \A w \in Waiters : Woken(w)

\* Between two deltas of the provider the loop of another task asks again, so
\* that a cancellation that lasts is found at the latest then (run_turns,
\* select!).
CancelFound ==
  \A w \in Waiters \ Local, c \in Cancellers :
    (by[c] = "notify") ~> (~flag \/ at[w] = "ready")
=============================================================================
