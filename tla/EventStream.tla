---------------------------- MODULE EventStream ----------------------------
(***************************************************************************)
(* What a client of the control plane sees of a run: the events of the     *)
(* agent loop go through a bounded queue to the mapper, what it makes of   *)
(* them through another to the SSE body.  Neither waits: what finds a full *)
(* queue is dropped.  The user's message comes in, the snapshot of the     *)
(* messages goes out.                                                      *)
(***************************************************************************)
EXTENDS Integers, Sequences, SequencesExt, FiniteSets

CONSTANTS
  Scripts,   \* the parts of a user's message, what the agent loop emits, and how
             \* the run ends: [post, events, ends]
  AgentCap, SseCap

EventStreamAssumption == {AgentCap, SseCap} \subseteq Nat \ {0}

VARIABLES
  run,      \* one of Scripts
  prompt,   \* the blocks made of the message
  pos,      \* events the agent loop has emitted
  queue,    \* the first queue
  text,     \* EventMapper: the open message, or 0
  ids,      \* ids given to messages and thoughts
  body,     \* the second queue
  whole,    \* a reader of all that was offered to it, dropped or not: what is
            \* open, whether the run is over, whether it met what it should not
  seen,     \* the text the client has read
  dropped,  \* something found a queue full
  billed,   \* usage events counted against the tenant's quota
  stage,    \* of drive: "run", "drained", "ended"
  cli       \* of rupi cloud prompt: "waits", "printed", "gave up"

eventVars == <<run, prompt, pos, queue, text, ids, body, whole, seen, dropped, billed, stage, cli>>

\* AguiEvent::new: a type, the message, call or step it is about, its delta.
AguiEvent(typ, id, delta) == [typ |-> typ, id |-> id, delta |-> delta]

\* The order a client relies on: one message or thought open at a time, text
\* only in the one that is open, nothing after the last event.
Terminal == {"RUN_FINISHED", "RUN_ERROR", "RUN_INTERRUPTED"}
Follow(w, e) ==
  [open |-> CASE e.typ \in {"TEXT_START", "REASONING_START"} -> e.id
              [] e.typ \in {"TEXT_END", "REASONING_END"} -> 0
              [] OTHER -> w.open,
   over |-> w.over \/ e.typ \in Terminal,
   bad |-> \/ w.bad \/ w.over
           \/ e.typ \in {"TEXT_START", "REASONING_START", "CALL_START"} \cup Terminal /\ w.open # 0
           \/ e.typ \in {"TEXT_CONTENT", "TEXT_END", "REASONING_CONTENT", "REASONING_END"} /\ w.open # e.id]

\* emit / try_offer: a full queue, or a client that has gone, drops the event.
Room(n) == IF cli = "gave up" THEN 0 ELSE IF n < SseCap - Len(body) THEN n ELSE SseCap - Len(body)
EmitAll(es) ==
  /\ body' = body \o SubSeq(es, 1, Room(Len(es)))
  /\ dropped' = (dropped \/ Room(Len(es)) < Len(es))
  /\ whole' = FoldLeft(Follow, whole, es)
  /\ ids' = ids + Len(SelectSeq(es, LAMBDA e : e.typ \in {"TEXT_START", "REASONING_START"}))

----------------------------------------------------------------------------
\* blocks_to_user_message: the parts in order, but images named by a URL, or
\* why they were refused, come last; a part of another kind is skipped.
UserMessage(parts, fetched) ==
  LET inPlace(p) == p.kind \in {"text", "data"}
      byUrl(p) == p.kind = "url"
      extra == [i \in DOMAIN SelectSeq(parts, byUrl) |->
                  LET u == SelectSeq(parts, byUrl)[i]
                  IN [kind |-> IF u.what \in fetched THEN "data" ELSE "text", what |-> u.what]]
      blocks == SelectSeq(parts, inPlace) \o extra
  IN IF blocks = <<>> THEN <<[kind |-> "text", what |-> ""]>> ELSE blocks

\* fetch_image_url: https, or the loopback, and nothing too large.
Fetchable(parts) == {parts[i].what : i \in {j \in DOMAIN parts : parts[j].kind = "url"}} \ {"ftp"}

\* message_to_agui: of the results of one message only the first goes out.
AguiMessage(m) ==
  LET results == SelectSeq(m, LAMBDA b : b.kind = "result")
  IN [parts |-> SelectSeq(m, LAMBDA b : b.kind \in {"text", "image", "reasoning"}),
      calls |-> {m[i].id : i \in {j \in DOMAIN m : m[j].kind = "call"}},
      result |-> IF results = <<>> THEN 0 ELSE results[1].id]
TreeToAgui(tree) == [i \in DOMAIN tree |-> AguiMessage(tree[i])]

----------------------------------------------------------------------------
CloseText == IF text = 0 THEN <<>> ELSE <<AguiEvent("TEXT_END", text, "")>>

\* uuid::Uuid::new_v4
NewId == ids + 1

MapText(e) ==
  /\ e.kind = "text"
  /\ text' = IF text = 0 THEN NewId ELSE text
  /\ EmitAll((IF text = 0 THEN <<AguiEvent("TEXT_START", NewId, "")>> ELSE <<>>)
                        \o <<AguiEvent("TEXT_CONTENT", text', e.what)>>)

MapToolStart(e) ==
  /\ e.kind = "call" /\ text' = 0
  /\ EmitAll(CloseText \o
                        <<AguiEvent("CALL_START", e.what, ""), AguiEvent("CALL_END", e.what, "")>>)

MapToolEnd(e) ==
  /\ e.kind = "result" /\ text' = 0
  /\ EmitAll(CloseText \o <<AguiEvent("CALL_RESULT", e.what, "")>>)

\* A thought arrives whole: opened, filled and closed at once, so that no
\* reasoning is open between two events (close_reason finds none).
MapThinking(e) ==
  /\ e.kind = "think" /\ text' = 0
  /\ EmitAll(CloseText \o
                        <<AguiEvent("REASONING_START", NewId, ""), AguiEvent("REASONING_CONTENT", NewId, e.what),
                          AguiEvent("REASONING_END", NewId, "")>>)

MapStep(e) ==
  /\ e.kind \in {"step", "compaction"} /\ UNCHANGED text
  /\ EmitAll(<<AguiEvent("STEP_STARTED", e.what, "")>>)

MapTurnEnd(e) ==
  /\ e.kind = "step end" /\ text' = 0
  /\ EmitAll(CloseText \o <<AguiEvent("STEP_FINISHED", e.what, "")>>)

MapCompactionEnd(e) ==
  /\ e.kind = "compacted" /\ UNCHANGED text
  /\ EmitAll(<<AguiEvent("STEP_FINISHED", e.what, "")>>)

MapUsage(e) ==
  /\ e.kind = "usage" /\ UNCHANGED text
  /\ EmitAll(<<AguiEvent("STATE_DELTA", 0, "")>>)

MapOther(e) == e.kind = "other" /\ UNCHANGED <<text, ids, body, whole, dropped>>

\* The map task takes the next event, counts what it cost and maps it.
MapNext ==
  /\ queue # <<>> /\ queue' = Tail(queue)
  /\ LET e == queue[1] IN
       /\ \/ MapText(e) \/ MapToolStart(e) \/ MapToolEnd(e) \/ MapThinking(e) \/ MapStep(e)
          \/ MapTurnEnd(e) \/ MapCompactionEnd(e) \/ MapUsage(e) \/ MapOther(e)
       /\ billed' = IF e.kind = "usage" THEN billed + 1 ELSE billed
  /\ UNCHANGED <<run, prompt, pos, seen, stage, cli>>

SayUnbounded == (* (a bug: the channel to the mapper takes everything) *)
  /\ pos < Len(run.events) /\ pos' = pos + 1 /\ queue' = Append(queue, run.events[pos'])
  /\ UNCHANGED <<run, prompt, text, ids, body, whole, seen, dropped, billed, stage, cli>>

\* offer_agent_event, called by the loop, which does not wait.
Say ==
  /\ pos < Len(run.events) /\ pos' = pos + 1
  /\ IF Len(queue) < AgentCap
     THEN queue' = Append(queue, run.events[pos']) /\ UNCHANGED dropped
     ELSE dropped' = TRUE /\ UNCHANGED queue
  /\ UNCHANGED <<run, prompt, text, ids, body, whole, seen, billed, stage, cli>>

\* The loop has returned: the map task ends with the queue, finish_open.
FinishOpen ==
  /\ stage = "run" /\ pos = Len(run.events) /\ queue = <<>>
  /\ EmitAll(CloseText)
  /\ text' = 0 /\ stage' = "drained"
  /\ UNCHANGED <<run, prompt, pos, queue, seen, billed, cli>>

\* What the run has left in the tree: the calls of a batch are one message,
\* their results another.
Of(kind) == SelectSeq(run.events, LAMBDA e : e.kind = kind)
Calls(kind) == [i \in DOMAIN Of(kind) |-> [kind |-> kind, id |-> Of(kind)[i].what]]
Tree == <<Calls("call"), Calls("result")>>

\* drive: one last event, after a snapshot when the run has been parked. A
\* failure of the database while it is parked makes an error of it.
Snapshots == <<AguiEvent("MESSAGES_SNAPSHOT", 0, TreeToAgui(Tree)), AguiEvent("STATE_SNAPSHOT", 0, "")>>
Finish ==
  /\ stage = "drained" /\ stage' = "ended"
  /\ EmitAll(CASE run.ends = "ok" -> <<AguiEvent("RUN_FINISHED", 0, "")>>
                          [] run.ends = "parked" -> Snapshots \o <<AguiEvent("RUN_INTERRUPTED", 0, "")>>
                          [] OTHER -> <<AguiEvent("RUN_ERROR", 0, "")>>)
  /\ UNCHANGED <<run, prompt, pos, queue, text, seen, billed, cli>>

\* ReceiverStream: the client takes what waits, in order.
Read ==
  /\ cli = "waits" /\ body # <<>> /\ body' = Tail(body)
  /\ seen' = IF body[1].typ = "TEXT_CONTENT" THEN Append(seen, body[1].delta) ELSE seen
  /\ UNCHANGED <<run, prompt, pos, queue, text, ids, whole, dropped, billed, stage, cli>>

\* rupi cloud prompt takes the body as a whole, and an empty one when its two
\* minutes are over first (unwrap_or_default): it prints nothing and succeeds.
Printed == cli = "waits" /\ stage = "ended" /\ body = <<>> /\ cli' = "printed"
         /\ UNCHANGED <<run, prompt, pos, queue, text, ids, body, whole, seen, dropped, billed, stage>>
GiveUp == cli = "waits" /\ cli' = "gave up"
          /\ UNCHANGED <<run, prompt, pos, queue, text, ids, body, whole, seen, dropped, billed, stage>>

Init ==
  /\ run \in Scripts /\ prompt = UserMessage(run.post, Fetchable(run.post))
  /\ pos = 0 /\ queue = <<>> /\ text = 0 /\ ids = 0 /\ billed = 0
  /\ body = <<AguiEvent("RUN_STARTED", 0, "")>> /\ seen = <<>> /\ dropped = FALSE
  /\ whole = [open |-> 0, over |-> FALSE, bad |-> FALSE]
  /\ stage = "run" /\ cli = "waits"

Next == Say \/ MapNext \/ FinishOpen \/ Finish \/ Read \/ Printed \/ GiveUp

Spec == Init /\ [][Next]_eventVars

----------------------------------------------------------------------------
TypeOK ==
  /\ pos \in 0..Len(run.events) /\ Len(queue) <= AgentCap /\ Len(body) <= SseCap /\ text \in 0..ids

\* Whatever the first queue drops, what the mapper sends is well formed: one
\* message or thought open at a time, nothing left open and nothing sent when
\* the run is over. A client that has lost nothing prints what the model said
\* (parse_sse), and its tenant
\* has paid for every usage event.
WellFormed == ~whole.bad /\ (stage = "ended" => whole.over)
AnswerPrinted ==
  cli = "printed" /\ ~dropped => /\ seen = [i \in DOMAIN Of("text") |-> Of("text")[i].what]
                                 /\ billed = Len(Of("usage"))

\* Every part of the user's message reaches the prompt, a refused image as a
\* note, and its texts keep their order.
MessageTaken ==
  LET known(p) == p.kind \in {"text", "data", "url"}
      given == SelectSeq(run.post, known)
      written(p) == p.kind = "text" /\ p.what \notin {given[i].what : i \in {j \in DOMAIN given : given[j].kind = "url"}}
  IN given # <<>> => /\ {prompt[i].what : i \in DOMAIN prompt} = {given[i].what : i \in DOMAIN given}
                     /\ SelectSeq(prompt, written) = SelectSeq(given, written)

\* The snapshot that follows a parked run shows its calls, and answers those
\* that have a result; but of a batch only the first one.
SnapshotTrue ==
  LET shown == TreeToAgui(Tree)
  IN /\ shown[1].calls = {Calls("call")[j].id : j \in DOMAIN Calls("call")}
     /\ Tree[2] # <<>> => shown[2].result = Tree[2][1].id

EventsTrue == SnapshotTrue /\ WellFormed /\ AnswerPrinted /\ MessageTaken
=============================================================================
