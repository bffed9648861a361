------------------------------- MODULE RpcPeer -------------------------------
(***************************************************************************)
(* One JSON-RPC peer over the transports of McpBridge - "stdio" and "ws",  *)
(* where a task routes answers to the pending calls and another answers    *)
(* the peer's own requests, and "http", where both come in the stream of a *)
(* call - and the long-lived extension ("ext", RpcHost), whose requests    *)
(* may open a dialog that waits for the user.                              *)
(*                                                                         *)
(* Every call carries a new id, so a call stands for its id.  The peer may *)
(* ask back before it answers a call, or outside of any call; c names both *)
(* the call and the question the peer asks with it.                        *)
(***************************************************************************)
EXTENDS FiniteSets

CONSTANTS
  Calls,        \* the calls made
  Transports    \* a subset of {"stdio", "ws", "http", "ext"}

VARIABLES
  transport,
  peer,         \* "up", "hung" (it reads and never answers) or "dead"
  call,         \* "idle", "wait", "ok", "failed", "timeout" or "cancelled"
  pending,      \* PendingMap: calls whose answer is routed
  taken,        \* calls the peer has read and not answered
  answers,      \* answers on their way
  question,     \* "none", "queued", "open", "shown" or "answered"
  dialogs,      \* RpcHost.ui_wait: questions with a waiting dialog
  stream        \* the standing GET stream of HTTP: "open", "down" or "off"

rpcVars == <<transport, peer, call, pending, taken, answers, question, dialogs, stream>>

Routed == transport # "http"
Waiting(c) == call[c] = "wait"

\* A call of an extension blocks the thread of the session (block_on_async).
Blocked == transport = "ext" /\ \E c \in Calls : Waiting(c)

\* call_timeout: the entry is made before the line is written; a write that
\* fails leaves it behind.  A WebSocket may take the frame although its peer is
\* gone.
Write(c) ==
  /\ Routed /\ call[c] = "idle" /\ ~Blocked
  /\ pending' = pending \cup {c}
  /\ taken' = IF peer = "dead" THEN taken ELSE taken \cup {c}
  /\ call' = [call EXCEPT ![c] = IF peer = "dead" /\ transport # "ws" THEN "failed" ELSE "wait"]
  /\ UNCHANGED <<transport, peer, answers, question, dialogs, stream>>

\* call_http: nothing is kept but the response the caller reads.
Post(c) ==
  /\ ~Routed /\ call[c] = "idle"
  /\ taken' = IF peer = "dead" THEN taken ELSE taken \cup {c}
  /\ call' = [call EXCEPT ![c] = IF peer = "dead" THEN "failed" ELSE "wait"]
  /\ UNCHANGED <<transport, peer, pending, answers, question, dialogs, stream>>

\* The peer: it asks with a call it is serving, or outside of any.
PeerAsks(c) ==
  /\ peer = "up" /\ question[c] = "none"
  /\ c \in taken \/ (call[c] = "idle" /\ (Routed \/ stream = "open"))
  /\ question' = [question EXCEPT ![c] = "queued"]
  /\ UNCHANGED <<transport, peer, call, pending, taken, answers, dialogs, stream>>

\* It answers once its question is answered, a result or an error.
PeerAnswers(c) ==
  /\ peer = "up" /\ c \in taken /\ question[c] \in {"none", "answered"}
  /\ taken' = taken \ {c} /\ answers' = answers \cup {c}
  /\ UNCHANGED <<transport, peer, call, pending, question, dialogs, stream>>

\* dispatch_rpc_value: the answer, a result or an error, goes to the call that
\* waits under its id; one nobody waits for is dropped.
Route(c) ==
  /\ Routed /\ c \in answers
  /\ answers' = answers \ {c} /\ pending' = pending \ {c}
  /\ \/ call' = [call EXCEPT ![c] = IF Waiting(c) THEN "ok" ELSE @]
     \/ Waiting(c) /\ call' = [call EXCEPT ![c] = "failed"]
  /\ UNCHANGED <<transport, peer, taken, question, dialogs, stream>>

\* read_sse_stream: the caller reads the stream of its call to the end, which
\* has the answer in it or not.
StreamEnds(c) ==
  /\ ~Routed /\ c \in answers
  /\ answers' = answers \ {c}
  /\ \/ call' = [call EXCEPT ![c] = IF Waiting(c) THEN "ok" ELSE @]
     \/ Waiting(c) /\ call' = [call EXCEPT ![c] = "failed"]
  /\ UNCHANGED <<transport, peer, pending, taken, question, dialogs, stream>>

\* The extension's requests are handled one after the other, dialogs included.
Busy == \E c \in Calls : question[c] \in {"open", "shown"}

\* server_request_response: known or not, a question has its answer at once.
Answered(c) ==
  /\ question[c] = "queued"
  /\ question' = [question EXCEPT ![c] = "answered"]
  /\ UNCHANGED <<transport, peer, call, pending, taken, answers, dialogs, stream>>

\* The task over the incoming channel, of a bridge or of an extension.
AnswerByTask(c) == Routed /\ ~Busy /\ Answered(c)

AnswerBuffered(c) == (* (a bug: the stream of a call is read to its end first) *)
  ~Routed /\ ~Waiting(c) /\ c \notin taken /\ Answered(c)

\* handle_sse_payload: a POST while the stream of the call is still read.
AnswerInStream(c) == ~Routed /\ Waiting(c) /\ Answered(c)

\* handle_server_push: what came with the standing stream.
AnswerPush(c) == ~Routed /\ call[c] = "idle" /\ stream = "open" /\ Answered(c)

\* run_server_stream: the stream ends, what was not read yet is lost; it is
\* opened again after a second, unless the server refuses.
StreamDrops ==
  /\ ~Routed /\ stream = "open" /\ stream' = "down"
  /\ question' = [c \in Calls |-> IF question[c] = "queued" /\ call[c] = "idle"
                                  THEN "none" ELSE question[c]]
  /\ UNCHANGED <<transport, peer, call, pending, taken, answers, dialogs>>

StreamReopens ==
  /\ ~Routed /\ stream = "down"
  /\ stream' \in IF peer = "up" THEN {"open", "off"} ELSE {"down"}
  /\ UNCHANGED <<transport, peer, call, pending, taken, answers, question, dialogs>>

\* ui/select and the like of an extension: the event is queued for the host
\* and the request waits.
OpenDialog(c) ==
  /\ transport = "ext" /\ question[c] = "queued" /\ ~Busy
  /\ question' = [question EXCEPT ![c] = "open"]
  /\ dialogs' = dialogs \cup {c}
  /\ UNCHANGED <<transport, peer, call, pending, taken, answers, stream>>

\* poll_ui_requests, by the host when it runs.
ShowDialog(c) ==
  /\ question[c] = "open" /\ ~Blocked
  /\ question' = [question EXCEPT ![c] = "shown"]
  /\ UNCHANGED <<transport, peer, call, pending, taken, answers, dialogs, stream>>

\* complete_ui_request: the sender is taken out; when the dialog ran out of
\* time the reply goes nowhere.
Reply(c) ==
  /\ c \in dialogs /\ ~Blocked /\ question[c] # "open"
  /\ dialogs' = dialogs \ {c}
  /\ question' = [question EXCEPT ![c] = "answered"]
  /\ UNCHANGED <<transport, peer, call, pending, taken, answers, stream>>

\* dialog_timeout_reply: "cancelled"; the sender stays in the map.
DialogTimeout(c) ==
  /\ question[c] \in {"open", "shown"}
  /\ question' = [question EXCEPT ![c] = "answered"]
  /\ UNCHANGED <<transport, peer, call, pending, taken, answers, dialogs, stream>>

\* Thirty seconds, or those of the manifest; of the HTTP client, for HTTP.
Timeout(c) ==
  /\ Waiting(c) /\ call' = [call EXCEPT ![c] = "timeout"]
  /\ pending' = pending \ {c}
  /\ UNCHANGED <<transport, peer, taken, answers, question, dialogs, stream>>

\* execute_with_cancel drops the call; its entry stays until the answer comes.
Cancel(c) ==
  /\ transport # "ext"
  /\ Waiting(c) /\ call' = [call EXCEPT ![c] = "cancelled"]
  /\ UNCHANGED <<transport, peer, pending, taken, answers, question, dialogs, stream>>

\* The process ends or the connection breaks.  The reader stops, the entries
\* of the calls stay; the streams of HTTP calls break.
Die ==
  /\ peer # "dead" /\ peer' = "dead"
  /\ taken' = {}
  /\ call' = [c \in Calls |-> IF Waiting(c) /\ ~Routed /\ c \notin answers
                              THEN "failed" ELSE call[c]]
  /\ question' = [c \in Calls |-> IF question[c] = "queued" THEN "none" ELSE question[c]]
  /\ stream' = IF stream = "open" THEN "down" ELSE stream
  /\ UNCHANGED <<transport, pending, answers, dialogs>>

Hang ==
  /\ peer = "up" /\ peer' = "hung"
  /\ UNCHANGED <<transport, call, pending, taken, answers, question, dialogs, stream>>

Init ==
  /\ transport \in Transports /\ peer = "up"
  /\ call = [c \in Calls |-> "idle"]
  /\ pending = {} /\ taken = {} /\ answers = {}
  /\ question = [c \in Calls |-> "none"]
  /\ dialogs = {} /\ stream = "open"

Next ==
  \/ \E c \in Calls :
       \/ Write(c) \/ Post(c) \/ PeerAsks(c) \/ PeerAnswers(c) \/ Route(c) \/ StreamEnds(c)
       \/ AnswerByTask(c) \/ AnswerInStream(c) \/ AnswerPush(c)
       \/ OpenDialog(c) \/ ShowDialog(c) \/ Reply(c) \/ DialogTimeout(c)
       \/ Timeout(c) \/ Cancel(c)
  \/ StreamDrops \/ StreamReopens \/ Hang \/ Die

\* Tasks run and clocks advance; a peer that is up serves its calls, in which
\* case nothing is owed to the clock.
Fair(c) ==
  /\ WF_rpcVars(Route(c) \/ StreamEnds(c))
  /\ WF_rpcVars(AnswerByTask(c) \/ AnswerInStream(c) \/ OpenDialog(c))
  /\ WF_rpcVars(DialogTimeout(c))
  /\ WF_rpcVars(PeerAnswers(c))
  /\ WF_rpcVars(peer # "up" /\ Timeout(c))

Spec == Init /\ [][Next]_rpcVars /\ \A c \in Calls : Fair(c)

-----------------------------------------------------------------------------
TypeOK ==
  /\ transport \in Transports /\ peer \in {"up", "hung", "dead"}
  /\ call \in [Calls -> {"idle", "wait", "ok", "failed", "timeout", "cancelled"}]
  /\ question \in [Calls -> {"none", "queued", "open", "shown", "answered"}]
  /\ pending \cup taken \cup answers \cup dialogs \subseteq Calls
  /\ stream \in {"open", "down", "off"}

\* An entry of the pending map outlives its call only when the call was
\* dropped or could not be written: a session with a slow server does not
\* collect the entries of calls that ran out of time.
PendingBacked ==
  \A c \in pending : Waiting(c) \/ call[c] \in {"cancelled", "failed"}

\* A call never hangs: the peer that asks back before it answers has its
\* answer while the call still waits, whoever it asks, so that caller and
\* peer do not wait for each other.
CallsEnd == \A c \in Calls : Waiting(c) ~> ~Waiting(c)
=============================================================================
