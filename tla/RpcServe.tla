------------------------------ MODULE RpcServe ------------------------------
(***************************************************************************)
(* `rupi --mode rpc': one loop that reads commands as lines of JSON and    *)
(* answers each with a line (serve), with a second loop while a prompt     *)
(* runs (run_prompt, handle_during_prompt) and a third while a command of  *)
(* the shell runs (run_bash, handle_during_bash); and one extension that   *)
(* asks the user through it (RpcHost).  Each loop has its own idea of what *)
(* a command does, so that what a client is told depends on when it asks.  *)
(*                                                                         *)
(* The queues of messages are AgentSession's, the tree and its rows        *)
(* SessionHost's.  What the client was told (told, screen, registered) is  *)
(* no state of the program: the property compares with it.  unheard names  *)
(* what was answered with success and not done.                            *)
(***************************************************************************)
EXTENDS Integers, FiniteSets

CONSTANTS
  Live,       \* settings a running prompt sees change: auto retry is an
              \* atomic, the queue modes are the inbox's
  Kept,       \* those of the agent, which the prompt borrows: the level of
              \* thought ("thinking"), compaction
  Dialogs,    \* ids of questions of the extension
  Commands,   \* slash commands it may register
  Declared,   \* the ones of its manifest
  Answered,   \* the ones of its answer to `initialize' (may be empty)
  MaxSid      \* bound: sessions ever opened

VARIABLES
  mode,       \* the loop that reads: "idle", "prompt" or "bash"
  flags,      \* of "streaming", "cancel" (the session's) and "job" (the shell's)
  on,         \* the settings that are on
  sid, name, affinity, \* the open session, the one that was named (0: none),
              \* the one the provider was made for
  snap,       \* what get_state answers while a prompt runs
  wait,       \* the questions the extension's reader waits for: at most one
  entries, out, \* RpcHost.ui_wait and ui_out
  cmds, ready, \* RpcHost.commands; whether `initialize' was answered
  told, screen, registered, unheard

serveVars == <<mode, flags, on, sid, name, affinity, snap, wait, entries, out,
               cmds, ready, told, screen, registered, unheard>>
sessVars == <<sid, name, affinity>>
askVars == <<wait, entries, out, screen>>
extVars == <<cmds, ready, registered>>

Settings == Live \cup Kept

\* unheard may hold settings, questions, commands and "affinity".
RpcServeAssumption ==
  /\ MaxSid \in Nat \ {0}
  /\ "thinking" \in Settings
  /\ Declared \cup Answered \subseteq Commands
  /\ Settings \cap Dialogs = {} /\ Commands \cap (Settings \cup Dialogs) = {}
  /\ "affinity" \notin Settings \cup Dialogs \cup Commands

Put(S, x, v) == IF v THEN S \cup {x} ELSE S \ {x}

\* StateSnap
NoSnap == [sid |-> 0, name |-> 0, on |-> {}]
Snap == [sid |-> sid, name |-> name, on |-> on \ Live]

-----------------------------------------------------------------------------
(* Between prompts *)

Idle == mode = "idle"

\* A prompt, or a steer or follow_up that finds none running: answered at once.
StartPrompt ==
  /\ Idle /\ "streaming" \notin flags
  /\ mode' = "prompt"
  /\ snap' = Snap
  /\ flags' = (flags \ {"cancel"}) \cup {"streaming"}
  /\ UNCHANGED <<on, told, unheard>> /\ UNCHANGED <<sessVars, askVars, extVars>>

\* An error of the run leaves `streaming' set: every later prompt is refused.
EndPrompt(failed) ==
  /\ mode = "prompt"
  /\ mode' = "idle"
  /\ flags' = IF failed THEN flags ELSE flags \ {"streaming"}
  /\ snap' = NoSnap
  /\ UNCHANGED <<on, told, unheard>> /\ UNCHANGED <<sessVars, askVars, extVars>>

\* The shell command has a flag of its own; its answer is sent when it ends.
StartBash ==
  /\ Idle
  /\ mode' = "bash"
  /\ UNCHANGED <<flags, on, told, unheard, snap>> /\ UNCHANGED <<sessVars, askVars, extVars>>

EndBash ==
  /\ mode = "bash"
  /\ mode' = "idle"
  /\ flags' = flags \ {"job"}
  /\ UNCHANGED <<on, told, unheard, snap>> /\ UNCHANGED <<sessVars, askVars, extVars>>

-----------------------------------------------------------------------------
(* Commands, whatever runs *)

\* set_thinking_level, set_auto_compaction, set_auto_retry, set_steering_mode:
\* while a prompt runs only the last two, while the shell runs none, though
\* set_auto_retry is answered with success.
Set(s, v) ==
  /\ \/ Idle \/ (mode = "prompt" /\ s \in Live)
     \/ mode = "bash" /\ s = "retry"
  /\ on' = IF mode = "bash" THEN on ELSE Put(on, s, v)
  /\ told' = Put(told, s, v)
  /\ unheard' = IF mode = "bash" THEN unheard \cup {s} ELSE unheard \ {s}
  /\ UNCHANGED <<mode, flags, snap>> /\ UNCHANGED <<sessVars, askVars, extVars>>

\* set_model: a spec may carry a level of thought.
SetModel(thinking) ==
  /\ Idle
  /\ affinity' = sid
  /\ on' = IF thinking THEN on \cup {"thinking"} ELSE on
  /\ told' = IF thinking THEN told \cup {"thinking"} ELSE told
  /\ UNCHANGED <<mode, flags, sid, name, snap, unheard>> /\ UNCHANGED <<askVars, extVars>>

\* abort cancels what runs; between prompts it sets a flag the next prompt clears.
Abort ==
  /\ flags' = flags \cup {IF mode = "bash" THEN "job" ELSE "cancel"}
  /\ UNCHANGED <<mode, on, snap, told, unheard>> /\ UNCHANGED <<sessVars, askVars, extVars>>

\* abort_bash is answered with success always, and does something only while the
\* shell runs and for its handle or none.
AbortBash(mine) ==
  /\ flags' = IF mode = "bash" /\ mine THEN flags \cup {"job"} ELSE flags
  /\ UNCHANGED <<mode, on, snap, told, unheard>> /\ UNCHANGED <<sessVars, askVars, extVars>>

\* new_session keeps the name and the provider of the session before.
NewSession ==
  /\ Idle /\ sid < MaxSid
  /\ sid' = sid + 1
  /\ flags' = flags \ {"cancel"}
  /\ unheard' = unheard \cup {"affinity"}
  /\ UNCHANGED <<mode, on, name, affinity, snap, told>> /\ UNCHANGED <<askVars, extVars>>

\* switch_session, fork, clone (adopt_session): a provider for the session.
Adopt ==
  /\ Idle /\ sid < MaxSid
  /\ sid' = sid + 1 /\ affinity' = sid + 1
  /\ unheard' = unheard \ {"affinity"}
  /\ UNCHANGED <<mode, flags, on, name, snap, told>> /\ UNCHANGED <<askVars, extVars>>

SetName(v) ==
  /\ Idle
  /\ name' = IF v THEN sid ELSE 0
  /\ UNCHANGED <<mode, flags, on, sid, affinity, snap, told, unheard>> /\ UNCHANGED <<askVars, extVars>>

-----------------------------------------------------------------------------
(* Questions of the extension *)

Free == wait = {}

\* push_dialog, for a request that is waited for or for a notification; the reader
\* handles one message after the other, so that a question holds up the rest.
Ask(d, waits) ==
  /\ Free /\ d \notin out \cup screen
  /\ out' = out \cup {d}
  /\ wait' = IF waits THEN {d} ELSE {}
  /\ entries' = IF waits THEN entries \cup {d} ELSE entries
  /\ UNCHANGED <<mode, flags, on, snap, told, screen, unheard>> /\ UNCHANGED <<sessVars, extVars>>

\* emit_pending_ui, after a command and every 50 ms, in the loop of serve alone.
Show ==
  /\ Idle /\ out # {}
  /\ screen' = screen \cup out /\ out' = {}
  /\ UNCHANGED <<mode, flags, on, snap, told, wait, entries, unheard>>
  /\ UNCHANGED <<sessVars, extVars>>

\* extension_ui_response: dropped, with success, while anything runs.
Reply(d) ==
  /\ d \in screen
  /\ screen' = screen \ {d}
  /\ IF Idle
     THEN /\ entries' = entries \ {d} /\ wait' = wait \ {d}
          /\ UNCHANGED unheard
     ELSE /\ unheard' = unheard \cup (wait \cap {d})
          /\ UNCHANGED <<wait, entries>>
  /\ UNCHANGED <<mode, flags, on, snap, told, out>> /\ UNCHANGED <<sessVars, extVars>>

\* The reader gives up; the entry stays, and the question on the screen.
GiveUp ==
  /\ ~Free
  /\ wait' = {}
  /\ unheard' = unheard \ wait
  /\ UNCHANGED <<mode, flags, on, snap, told, entries, out, screen>>
  /\ UNCHANGED <<sessVars, extVars>>

-----------------------------------------------------------------------------
(* What the extension registers *)

\* apply_initialize: the commands of the answer replace what there is, if any.
Initialized ==
  /\ ~ready
  /\ ready' = TRUE
  /\ cmds' = IF Answered = {} THEN cmds ELSE Answered
  /\ unheard' = IF Answered = {} THEN unheard ELSE unheard \cup (registered \ Answered)
  /\ UNCHANGED <<mode, flags, on, snap, told, registered>> /\ UNCHANGED <<sessVars, askVars>>

\* `initialize' failed or was not answered in time: the manifest counts.
NotInitialized ==
  /\ ~ready
  /\ ready' = TRUE
  /\ UNCHANGED <<mode, flags, on, snap, told, cmds, registered, unheard>>
  /\ UNCHANGED <<sessVars, askVars>>

\* registerCommand, a request the reader answers with success.
Register(c) ==
  /\ Free /\ c \notin registered
  /\ cmds' = cmds \cup {c} /\ registered' = registered \cup {c}
  /\ UNCHANGED <<mode, flags, on, snap, told, ready, unheard>> /\ UNCHANGED <<sessVars, askVars>>

Init ==
  /\ mode = "idle" /\ flags = {} /\ on = Settings \ {"thinking"}
  /\ sid = 1 /\ name = 0 /\ affinity = 1
  /\ snap = NoSnap
  /\ wait = {} /\ entries = {} /\ out = {}
  /\ cmds = Declared /\ ready = FALSE
  /\ told = on /\ screen = {} /\ registered = {} /\ unheard = {}

Next ==
  \/ StartPrompt
  \/ \E failed \in BOOLEAN : EndPrompt(failed)
  \/ StartBash \/ EndBash
  \/ \E s \in Settings, v \in BOOLEAN : Set(s, v)
  \/ \E v \in BOOLEAN : SetModel(v) \/ SetName(v)
  \/ Abort
  \/ \E mine \in BOOLEAN : AbortBash(mine)
  \/ NewSession \/ Adopt
  \/ \E d \in Dialogs : Reply(d) \/ \E waits \in BOOLEAN : Ask(d, waits)
  \/ Show \/ GiveUp
  \/ Initialized \/ NotInitialized
  \/ \E c \in Commands : Register(c)

Spec == Init /\ [][Next]_serveVars

-----------------------------------------------------------------------------
(* Properties *)

TypeOK ==
  /\ mode \in {"idle", "prompt", "bash"} /\ flags \subseteq {"streaming", "cancel", "job"}
  /\ on \cup told \subseteq Settings
  /\ {sid, affinity} \subseteq 1..MaxSid /\ name \in 0..MaxSid
  /\ wait \cup entries \cup out \cup screen \subseteq Dialogs /\ Cardinality(wait) <= 1
  /\ cmds \cup registered \subseteq Commands

\* What a client was told is so.  While a prompt runs get_state answers from a
\* copy, and the copy is true; a setting answered with success is in force,
\* unless the shell ran; the provider is the open session's, until
\* new_session; a question that is waited for is on the screen or on its way
\* there, unless its answer came while something ran; and a command answered with
\* success is known, unless the answer to `initialize' came after it.
ToldTrue ==
  /\ mode = "prompt" => snap = Snap
  /\ \A s \in Settings \ unheard : s \in on <=> s \in told
  /\ "affinity" \in unheard \/ affinity = sid
  /\ wait \ unheard \subseteq out \cup screen
  /\ wait \subseteq entries
  /\ registered \ unheard \subseteq cmds

=============================================================================
