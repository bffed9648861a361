---------------------------- MODULE AgentSession ----------------------------
(***************************************************************************)
(* The agent loop of crates/rupi-agent (run_with_user, run_turns), the SDK *)
(* session that drives it (AgentSession::prompt_queued), its MessageInbox, *)
(* and the host that talks to it over JSON lines (crates/rupi-cli, rpc.rs).*)
(*                                                                         *)
(* One step is what the loop does between two awaits: a command of the     *)
(* host (steer, follow_up, abort, clear_queue) may come between any two.   *)
(* The transcript is the current path of the session tree.                 *)
(***************************************************************************)
EXTENDS Integers, SequencesExt

CONSTANTS
  Msgs,            \* user messages, each sent at most once
  MaxTurns,        \* AgentLoop.max_turns
  MaxRecoveries,   \* MAX_OVERFLOW_RECOVERIES
  MaxCalls,        \* bound on the tool calls of one answer
  Parallel         \* the modes an agent may have: TRUE is ToolExecution::Parallel

ASSUME SessionConstants ==
  /\ {MaxTurns, MaxRecoveries, MaxCalls} \subseteq Nat
  /\ Parallel \subseteq BOOLEAN

VARIABLES
  transcript,  \* the messages on the path, oldest first
  steering, followUp,  \* the two queues of MessageInbox
  cancelled,   \* the CancelFlag of the session
  streaming,   \* AgentSession.streaming
  pc,          \* the await the loop is at; "idle" when the host is
  turn, recoveries,    \* the locals of run_turns
  gated,       \* the verdicts of the batch's calls so far
  results,     \* the outcomes of the batch's calls so far
  open,        \* TurnStart events minus TurnEnd events of this run
  requests,    \* requests sent to the provider by this run
  unsent,      \* messages the user has not sent yet
  withdrawn    \* messages given back by clear_queue or dropped with a session

queues == <<steering, followUp>>
run == <<turn, recoveries, requests>>
batch == <<gated, results>>
vars == <<transcript, queues, cancelled, streaming, pc, run, batch, open,
          unsent, withdrawn>>

\* Messages of the transcript: a user message (merge_queued may join several),
\* an answer with n tool calls, the results of n calls.
User(ms)  == [role |-> "user", n |-> 0, from |-> ms]
Answer(n) == [role |-> "assistant", n |-> n, from |-> <<>>]
Tool(n)   == [role |-> "tool", n |-> n, from |-> <<>>]

Message ==
  [role : {"user", "assistant", "tool"}, n : 0..MaxCalls, from : Seq(Msgs)]

Verdicts == {"allow", "deny"}
Outcomes == {"ran", "denied", "cancelled"}

\* The user's messages of a path.
Said(log) == UNION {ToSet(log[i].from) : i \in DOMAIN log}

TypeOK ==
  /\ transcript \in Seq(Message)
  /\ steering \in Seq(Msgs) /\ followUp \in Seq(Msgs)
  /\ cancelled \in BOOLEAN /\ streaming \in BOOLEAN
  /\ open \in Int
  /\ pc \in {"idle", "compress", "boundary", "stream", "review", "gate", "exec",
             "collect", "squeeze"}
  /\ turn \in 0..MaxTurns
  /\ recoveries \in 0..MaxRecoveries
  /\ requests \in Nat
  /\ gated \in Seq(Verdicts) /\ results \in Seq(Outcomes)
  /\ unsent \subseteq Msgs /\ withdrawn \subseteq Msgs

Init ==
  /\ transcript = <<>> /\ steering = <<>> /\ followUp = <<>>
  /\ cancelled = FALSE /\ streaming = FALSE /\ open = 0
  /\ pc = "idle"
  /\ turn = 0 /\ recoveries = 0 /\ requests = 0
  /\ gated = <<>> /\ results = <<>>
  /\ unsent = Msgs /\ withdrawn = {}

Goto(from, to) == pc = from /\ pc' = to

\* The calls of the answer the loop is working on.
Calls == Last(transcript).n

\* run_with_user: push the user message, start run_turns.
Begin(log, ms) ==
  /\ transcript' = Append(log, User(ms))
  /\ turn' = 0 /\ recoveries' = 0 /\ requests' = 0 /\ open' = 0
  /\ pc' = "compress"

(***************************************************************************)
(* prompt_queued: one run, then the follow-ups, until there is none.       *)
(***************************************************************************)

\* take_by_mode, for either QueueMode (the host sets the mode at any time).
TakeByMode(q) == {<<Head(q)>>, q}

\* The run returns Done or MaxTurns: take_follow_up_msgs, merge_queued.
RunReturns(left) ==
  \/ /\ followUp = <<>>
     /\ streaming' = FALSE
     /\ open' = left /\ pc' = "idle"
     /\ UNCHANGED <<transcript, run, followUp>>
  \/ /\ followUp # <<>>
     /\ \E more \in TakeByMode(followUp) :
          /\ Begin(transcript, more)
          /\ followUp' = SubSeq(followUp, Len(more) + 1, Len(followUp))
     /\ UNCHANGED streaming

\* finish_aborted, and the break of prompt_queued.
FinishAborted(log) ==
  /\ open' = IF turn > 0 THEN open - 1 ELSE open
  /\ streaming' = FALSE
  /\ transcript' = log /\ pc' = "idle"
  /\ UNCHANGED <<run, followUp>>

\* The `?' of prompt_queued: streaming is not reset.
RunFails ==
  /\ pc' = "idle"
  /\ UNCHANGED <<transcript, streaming, run, followUp>>

(***************************************************************************)
(* run_turns, from await to await.                                         *)
(***************************************************************************)

\* maybe_compress or force_compress, and prefetch: the path is not touched.
Compressed ==
  /\ Goto("compress", "boundary")
  /\ UNCHANGED <<transcript, queues, cancelled, streaming, run, batch, open,
                 unsent, withdrawn>>

\* The head of the while loop: TurnStart and the request.
TurnStarts ==
  /\ Goto("boundary", "stream")
  /\ turn < MaxTurns /\ ~cancelled
  /\ turn' = turn + 1 /\ requests' = requests + 1
  /\ open' = open + 1
  /\ UNCHANGED <<transcript, queues, cancelled, streaming, recoveries, batch,
                 unsent, withdrawn>>

AbortedAtBoundary ==
  /\ pc = "boundary"
  /\ turn < MaxTurns /\ cancelled
  /\ FinishAborted(transcript)
  /\ UNCHANGED <<steering, cancelled, batch, unsent, withdrawn>>

OutOfTurns ==
  /\ pc = "boundary"
  /\ turn = MaxTurns
  /\ RunReturns(open)
  /\ UNCHANGED <<steering, cancelled, batch, unsent, withdrawn>>

\* Mutant: select! has no branch for the flag.
StreamDeaf == FALSE /\ UNCHANGED vars

\* StreamEnd::Cancelled: what has been shown of the answer is kept.
StreamCancelled ==
  /\ pc = "stream" /\ cancelled
  /\ \E log \in {transcript, Append(transcript, Answer(0))} : FinishAborted(log)
  /\ UNCHANGED <<steering, cancelled, batch, unsent, withdrawn>>

\* Mutant: the limit is not looked at.
OverflowUnbounded ==
  /\ Goto("stream", "compress")
  /\ recoveries' = recoveries + 1
  /\ turn' = turn - 1
  /\ UNCHANGED <<transcript, queues, cancelled, streaming, requests, batch,
                 open, unsent, withdrawn>>

\* The provider reports a context overflow: compress and send the turn again.
Overflow ==
  /\ Goto("stream", "compress")
  /\ recoveries < MaxRecoveries
  /\ recoveries' = recoveries + 1
  /\ turn' = turn - 1
  /\ UNCHANGED <<transcript, queues, cancelled, streaming, requests, batch,
                 open, unsent, withdrawn>>

\* Any other error, one overflow too many, or stop_reason "error".
ProviderFails ==
  /\ pc = "stream"
  /\ RunFails
  /\ UNCHANGED <<steering, cancelled, batch, open, unsent, withdrawn>>

\* Mutant: the messages are taken and announced, and not pushed.
InjectNothing(log, ms) ==
  /\ transcript' = log
  /\ steering' = SubSeq(steering, Len(ms) + 1, Len(steering))

\* inject_steering: one user message for each message taken.
Inject(log, ms) ==
  /\ transcript' = log \o [i \in 1..Len(ms) |-> User(<<ms[i]>>)]
  /\ steering' = SubSeq(steering, Len(ms) + 1, Len(steering))

\* An answer without calls while messages are queued: steer and go on.
AnswerSteered ==
  /\ Goto("stream", "boundary")
  /\ steering # <<>>
  /\ \E ms \in TakeByMode(steering) : Inject(Append(transcript, Answer(0)), ms)
  /\ open' = open - 1
  /\ UNCHANGED <<followUp, cancelled, streaming, run, batch, unsent, withdrawn>>

\* An answer without calls and nothing queued: sync_all and run_review.
AnswerFinal ==
  /\ Goto("stream", "review")
  /\ steering = <<>>
  /\ transcript' = Append(transcript, Answer(0))
  /\ UNCHANGED <<queues, cancelled, streaming, run, batch, open, unsent, withdrawn>>


\* TurnEnd, RunEnd: Done.
Reviewed ==
  /\ pc = "review"
  /\ RunReturns(open - 1)
  /\ UNCHANGED <<steering, cancelled, batch, unsent, withdrawn>>

AnswerCalls ==
  /\ Goto("stream", "gate")
  /\ \E n \in 1..MaxCalls : transcript' = Append(transcript, Answer(n))
  /\ gated' = <<>> /\ results' = <<>>
  /\ UNCHANGED <<queues, cancelled, streaming, run, open, unsent, withdrawn>>

\* Phase 1: the before hooks, ToolStart, the policy, the approval, plan mode.
Gate ==
  /\ pc = "gate"
  /\ \E v \in Verdicts : gated' = Append(gated, v)
  /\ pc' = IF Len(gated) + 1 = Calls THEN "exec" ELSE "gate"
  /\ UNCHANGED <<transcript, queues, cancelled, streaming, run, results, open,
                 unsent, withdrawn>>

\* Mutant: a call that was allowed runs.
OutcomeAnyway(v) == IF v = "deny" THEN "denied" ELSE "ran"

\* A denied call is answered as such; an allowed one runs unless cancelled.
Outcome(v) == CASE v = "deny" -> "denied"
                [] v = "allow" /\ cancelled -> "cancelled"
                [] OTHER -> "ran"

\* Mutant: a cancelled call is left out of the outcomes.
ExecuteUntilCancelled ==
  /\ pc = "exec"
  /\ IF cancelled
       THEN results' = results /\ pc' = "collect"
       ELSE /\ results' = Append(results, Outcome(gated[Len(results) + 1]))
            /\ pc' = IF Len(results') = Calls THEN "collect" ELSE "exec"
  /\ UNCHANGED <<transcript, queues, cancelled, streaming, run, gated, open,
                 unsent, withdrawn>>

\* Phase 2: one call after the other, or the whole batch at once.
Execute ==
  /\ pc = "exec"
  /\ \/ /\ TRUE \in Parallel /\ results = <<>>
        /\ results' = [i \in 1..Calls |-> Outcome(gated[i])]
     \/ /\ FALSE \in Parallel
        /\ results' = Append(results, Outcome(gated[Len(results) + 1]))
  /\ pc' = IF Len(results') = Calls THEN "collect" ELSE "exec"
  /\ UNCHANGED <<transcript, queues, cancelled, streaming, run, gated, open,
                 unsent, withdrawn>>

\* Phase 3: the after hooks, ToolEnd, one message with every result.
Collect ==
  /\ pc = "collect" /\ ~cancelled
  /\ transcript' = Append(transcript, Tool(Len(results)))
  /\ pc' = "squeeze"
  /\ UNCHANGED <<queues, cancelled, streaming, run, batch, open, unsent, withdrawn>>

CollectCancelled ==
  /\ pc = "collect" /\ cancelled
  /\ FinishAborted(Append(transcript, Tool(Len(results))))
  /\ UNCHANGED <<steering, cancelled, batch, unsent, withdrawn>>

\* Mutant: a turn that is steered on ends without its TurnEnd.
TurnEndsUnlessSteered ==
  /\ Goto("squeeze", "boundary")
  /\ \/ steering = <<>> /\ open' = open - 1 /\ UNCHANGED <<transcript, steering>>
     \/ /\ steering # <<>> /\ UNCHANGED open
        /\ \E ms \in TakeByMode(steering) : Inject(transcript, ms)
  /\ UNCHANGED <<followUp, cancelled, streaming, run, batch, unsent, withdrawn>>

\* maybe_compress inside the turn, inject_steering, TurnEnd.
TurnEnds ==
  /\ Goto("squeeze", "boundary")
  /\ \/ steering = <<>> /\ UNCHANGED <<transcript, steering>>
     \/ steering # <<>> /\ \E ms \in TakeByMode(steering) : Inject(transcript, ms)
  /\ open' = open - 1
  /\ UNCHANGED <<followUp, cancelled, streaming, run, batch, unsent, withdrawn>>

(***************************************************************************)
(* The host: idle in serve, or in run_prompt.                              *)
(***************************************************************************)

\* prompt, steer or follow_up while idle.  While `streaming' is set the host
\* refuses them.
Prompt(m) ==
  /\ pc = "idle" /\ ~streaming /\ m \in unsent
  /\ cancelled' = FALSE /\ streaming' = TRUE
  /\ Begin(transcript, <<m>>)
  /\ unsent' = unsent \ {m}
  /\ UNCHANGED <<queues, batch, withdrawn>>

\* Mutant: the message overtakes the queue.
SteerFirst(m) ==
  /\ pc # "idle" /\ m \in unsent
  /\ steering' = <<m>> \o steering
  /\ unsent' = unsent \ {m}
  /\ UNCHANGED <<transcript, followUp, cancelled, streaming, pc, run, batch, open, withdrawn>>

Steer(m) ==
  /\ pc # "idle" /\ m \in unsent
  /\ steering' = Append(steering, m)
  /\ unsent' = unsent \ {m}
  /\ UNCHANGED <<transcript, followUp, cancelled, streaming, pc, run, batch, open, withdrawn>>

FollowUp(m) ==
  /\ pc # "idle" /\ m \in unsent
  /\ followUp' = Append(followUp, m)
  /\ unsent' = unsent \ {m}
  /\ UNCHANGED <<transcript, steering, cancelled, streaming, pc, run, batch, open, withdrawn>>

\* abort, while prompting or idle.
Abort ==
  /\ ~cancelled
  /\ cancelled' = TRUE
  /\ UNCHANGED <<transcript, queues, streaming, pc, run, batch, open, unsent, withdrawn>>

\* clear_queue gives the texts back.
ClearQueue ==
  /\ steering \o followUp # <<>>
  /\ steering' = <<>> /\ followUp' = <<>>
  /\ withdrawn' = withdrawn \cup ToSet(steering) \cup ToSet(followUp)
  /\ UNCHANGED <<transcript, cancelled, streaming, pc, run, batch, open, unsent>>

\* new_session (it resets the flag), or switch_session to an empty session.
NewSession ==
  /\ pc = "idle" /\ transcript # <<>>
  /\ transcript' = <<>> /\ steering' = <<>> /\ followUp' = <<>>
  /\ cancelled' \in {FALSE, cancelled}
  /\ withdrawn' = withdrawn \cup ToSet(steering) \cup ToSet(followUp)
                   \cup Said(transcript)
  /\ UNCHANGED <<streaming, pc, run, batch, open, unsent>>

\* What the loop does by itself, whatever the provider does.
Loop ==
  \/ Compressed \/ TurnStarts \/ AbortedAtBoundary \/ OutOfTurns
  \/ StreamCancelled \/ Reviewed \/ Gate \/ Execute
  \/ Collect \/ CollectCancelled \/ TurnEnds

Provider ==
  Overflow \/ ProviderFails \/ AnswerSteered \/ AnswerFinal \/ AnswerCalls

Host ==
  \/ \E m \in Msgs : Prompt(m) \/ Steer(m) \/ FollowUp(m)
  \/ Abort \/ ClearQueue \/ NewSession

Next == Loop \/ Provider \/ Host

Spec == Init /\ [][Next]_vars

\* The tasks of the loop are scheduled, and what no cancellation interrupts
\* returns: tools, hooks, approvals, and the request for a summary.  The
\* provider answers or fails, unless the user aborts: then it may keep silent.
LiveSpec == Spec /\ WF_vars(Loop) /\ WF_vars(~cancelled /\ Provider)

(***************************************************************************)
(* Properties.                                                             *)
(***************************************************************************)

\* Whenever the provider is asked, each answer with tool calls on the path is
\* followed at once by the results of all its calls, whatever was denied,
\* cancelled, steered or retried before (run_turns, the transcript invariant).
Answered(log, i) ==
  log[i].role = "assistant" /\ log[i].n > 0 =>
    i < Len(log) /\ log[i + 1] = Tool(log[i].n)
EveryCallAnswered ==
  pc = "stream" => \A i \in DOMAIN transcript : Answered(transcript, i)

\* The provider is never asked to continue its own answer: the path it gets
\* ends with a user message or with results (run_turns, inject_steering).
AsksWithInput ==
  pc = "stream" => transcript # <<>> /\ Last(transcript).role # "assistant"

\* Recoveries do not use up turns, and yet a run asks the provider a bounded
\* number of times (run_turns, turn -= 1).
RequestsBounded == requests <= MaxTurns + MaxRecoveries

\* No two places of a path hold the same message.
SaidOnce(log) ==
  /\ \A i \in DOMAIN log : IsInjective(log[i].from)
  /\ \A i, j \in DOMAIN log : i # j => ToSet(log[i].from) \cap ToSet(log[j].from) = {}

\* A message sent is on the path, in one queue or given back: exactly one of
\* them, and once (MessageInbox, inject_steering, merge_queued).
NothingLost ==
  LET parts == <<Said(transcript), ToSet(steering), ToSet(followUp), unsent, withdrawn>>
  IN  /\ SaidOnce(transcript) /\ IsInjective(steering) /\ IsInjective(followUp)
      /\ UNION {parts[i] : i \in 1..5} = Msgs
      /\ \A i, j \in 1..5 : i # j => parts[i] \cap parts[j] = {}

\* Steering messages reach the path in the order in which they were accepted:
\* of two that are queued, or one that is and one that comes, the first stays
\* first on the path and in the queue behind it (inject_steering, take_by_mode).
Precedes(q, a, b) == \E i, j \in DOMAIN q : i < j /\ q[i] = a /\ q[j] = b
SaidBefore(log, a, b) ==
  \/ \E i \in DOMAIN log : Precedes(log[i].from, a, b)
  \/ \E i, j \in DOMAIN log : i < j /\ a \in ToSet(log[i].from) /\ b \in ToSet(log[j].from)
InOrder(log, q, a, b) ==
  SaidBefore(log, a, b) \/ Precedes(q, a, b) \/ (a \in Said(log) /\ b \in ToSet(q))
OrderKept ==
  \A a, b \in Msgs :
    /\ \/ Precedes(steering, a, b)
       \/ a \in ToSet(steering) /\ b \in ToSet(steering') \ ToSet(steering)
    /\ b \in Said(transcript') \cup ToSet(steering')
    => InOrder(transcript', steering', a, b) \/ a \in withdrawn'
SteeringInOrder == [][OrderKept]_vars

\* Once aborted, the run sends no request and starts no tool: the gate of
\* effects stays shut until the next prompt (run_turns, the cancel points).
Ran(outcomes) == {i \in DOMAIN outcomes : outcomes[i] = "ran"}
EffectGate ==
  [][cancelled /\ cancelled' => /\ requests' <= requests
                               /\ Ran(results') \subseteq Ran(results)]_vars

\* At each boundary every turn that began has ended, except those sent again
\* after an overflow: their TurnStart is repeated without a TurnEnd
\* (run_turns, turn -= 1; a front end that counts turns relies on it).
TurnsClosed == pc \in {"compress", "boundary"} => open = recoveries

\* When no prompt runs, the session does not call itself busy: the next
\* prompt is taken (prompt_queued, serve).
IdleIsFree == pc = "idle" => ~streaming

\* A prompt ends, whatever the provider answers and the user queues; and once
\* aborted it ends even if the answer of the provider never comes (run_turns,
\* the race of the stream and cancelled()).
PromptEnds == pc # "idle" ~> pc = "idle"
=============================================================================
