------------------------------- MODULE TuiApp --------------------------------
(***************************************************************************)
(* The terminal front end: one loop that waits for a key, dispatches a     *)
(* line as a command or sends it as a prompt, and drives the turn while it *)
(* goes on reading keys; what is entered then is steering, a follow-up, or *)
(* stays in the buffer and is sent when the turn is over.  The front end   *)
(* owns the open session (its tree, its id) and, between turns, switches   *)
(* it; a turn that ends well is saved under the id of the moment.          *)
(*                                                                         *)
(* An item is what the user entered in one go: <<"say", n>>, or a command  *)
(* <<"new", n>>.  A node of the tree is the path of items that leads to    *)
(* it.  A prompt and its answer are one item.                              *)
(***************************************************************************)
EXTENDS Integers, Sequences, FiniteSets, SequencesExt

CONSTANTS
  Commands,    \* of "new", "resume", "fork", "clone", "import", "rewind",
               \* "goto", "bang", "quit", "editor", "tree", "sessions"
               \* and any other, which leaves the session as it is
  MaxItems,    \* bound: items entered
  MaxSessions  \* bound: sessions made

VARIABLES
  mode,        \* "keys" (waits for a key), "line" (dispatches), "turn", "quit"
  overlay,     \* "none", "sessions", "tree" or "editor"
  entered,     \* items entered so far
  buffer,      \* the input line; while a turn runs, what is typed meanwhile
  line,        \* the line being dispatched
  steering, followUps, \* the inbox
  oneAtATime,  \* its follow-up mode
  nodes, path, \* the open tree: its nodes and the current path
  begun,        \* nodes of the path when the turn began
  openId,         \* the id cell, which the saving of a turn reads
  logged,      \* saved items of each session
  gone,        \* items nobody will look for: commands, and what failed
  unsaved,     \* items in the tree that no save covers
  stalled      \* a follow-up was a command: the others wait

tuiVars == <<mode, overlay, entered, buffer, line, steering, followUps, oneAtATime,
             nodes, path, begun, openId, logged, gone, unsaved, stalled>>
inputVars == <<buffer, steering, followUps, oneAtATime>>
treeVars == <<nodes, path, begun, openId, logged, unsaved>>

Stems(p) == {SubSeq(p, 1, n) : n \in 1..Len(p)}
Drop(p, n) == SubSeq(p, n + 1, Len(p))
Items(ps) == UNION {Range(p) : p \in ps}
IsCommand(text) == Len(text) = 1 /\ text[1][1] # "say"

-----------------------------------------------------------------------------
(* Keys *)

Enter(kind) ==
  /\ entered < MaxItems /\ entered' = entered + 1
  /\ buffer' = Append(buffer, <<kind, entered + 1>>)

\* Keys and pastes go into the line; the session picker and the editor take
\* them for themselves.
Type ==
  /\ mode \in {"keys", "turn"} /\ overlay \in {"none", "tree"}
  /\ \E kind \in {"say"} \cup Commands : Enter(kind)
  /\ UNCHANGED <<mode, overlay, line, steering, followUps, oneAtATime, treeVars, gone, stalled>>

Send ==
  /\ mode = "keys" /\ overlay = "none" /\ buffer # <<>>
  /\ mode' = "line" /\ line' = buffer /\ buffer' = <<>>
  /\ UNCHANGED <<overlay, entered, steering, followUps, oneAtATime, treeVars, gone, stalled>>

\* Ctrl-C leaves at once, a turn or not; the session picker does not know it.
CtrlC ==
  /\ mode \in {"keys", "turn"} /\ overlay # "sessions" /\ mode' = "quit"
  /\ UNCHANGED <<overlay, entered, inputVars, line, treeVars, gone, stalled>>

\* /settings: the mode in which follow-ups are taken.
SetFollowUpMode ==
  /\ mode = "keys" /\ overlay = "none" /\ oneAtATime' = ~oneAtATime
  /\ UNCHANGED <<mode, overlay, entered, buffer, steering, followUps, line, treeVars, gone, stalled>>

\* Esc or q in an overlay, and the key that opens the editor.
ChangeOverlay ==
  /\ mode = "keys"
  /\ \/ overlay # "none" /\ overlay' = "none"
     \/ overlay \in {"none", "tree"} /\ overlay' = "editor"
  /\ UNCHANGED <<mode, entered, inputVars, line, treeVars, gone, stalled>>

-----------------------------------------------------------------------------
(* Commands *)

\* Resume and Adopt: the tree, the id cell, the id of tools and provider.
Switch(s, p, ns) == path' = p /\ nodes' = ns /\ openId' = s

\* replay_session: the rows in the order they were written, as one path.
Replay(s) == Switch(s, logged[s], Stems(logged[s])) /\ UNCHANGED <<logged, unsaved, begun>>

\* Enter in the picker.
SessionEnter ==
  /\ mode = "keys" /\ overlay = "sessions"
  /\ \E s \in DOMAIN logged : Replay(s)
  /\ overlay' = "none"
  /\ UNCHANGED <<mode, entered, inputVars, line, gone, stalled>>

NewSession(s, content) == logged' = Append(logged, content) /\ s = Len(logged) + 1 /\ s <= MaxSessions

\* Any order of the nodes in which each comes after its parent.
Flat(ns) == SetToSortSeq(Items(ns), LAMBDA a, b : a[2] < b[2])

New ==
  \E s \in 1..MaxSessions :
    NewSession(s, <<>>) /\ Switch(s, <<>>, {}) /\ UNCHANGED <<begun, unsaved>>

\* /resume with the id of another session; its own is refused.
Resume == \E s \in DOMAIN logged \ {openId} : Replay(s)

\* /fork copies the path, /clone the tree, into a session of their own, which
\* is saved whole, with what was not saved before.
Fork ==
  \E s \in 1..MaxSessions :
    /\ NewSession(s, path) /\ Switch(s, path, Stems(path))
    /\ unsaved' = unsaved \ Range(path) /\ UNCHANGED begun

Clone ==
  \E s \in 1..MaxSessions :
    /\ NewSession(s, Flat(nodes)) /\ Switch(s, path, nodes)
    /\ unsaved' = unsaved \ Items(nodes) /\ UNCHANGED begun

\* /import: the file may be anything, an empty session here.
Import == New

\* /goto and Enter in the tree.
GoTo == path' \in nodes /\ UNCHANGED <<nodes, begun, openId, logged, unsaved>>

\* /rewind, by one node or to a node of the path.
Rewind == path' \in Stems(Front(path)) /\ UNCHANGED <<nodes, begun, openId, logged, unsaved>>

\* !command: what it printed goes into the tree, and into no save.
Bang(item) ==
  /\ path' = Append(path, item) /\ nodes' = nodes \cup {path'}
  /\ unsaved' = unsaved \cup {item} /\ UNCHANGED <<begun, openId, logged>>

Stay == UNCHANGED treeVars

\* Enter in the tree.
TreeEnter ==
  /\ mode = "keys" /\ overlay = "tree" /\ overlay' = "none"
  /\ GoTo \/ Stay
  /\ UNCHANGED <<mode, entered, inputVars, line, gone, stalled>>

\* dispatch_builtin: what a command does to the tree and the session; one that
\* cannot be done says so.
Perform(item) ==
  CASE item[1] = "new" /\ Len(logged) < MaxSessions -> New
    [] item[1] = "import" /\ Len(logged) < MaxSessions -> Import \/ Stay
    [] item[1] = "fork" /\ Len(logged) < MaxSessions -> Fork \/ Stay
    [] item[1] = "clone" /\ Len(logged) < MaxSessions -> Clone \/ Stay
    [] item[1] = "resume" /\ Len(logged) > 1 -> Resume
    [] item[1] = "goto" -> GoTo \/ Stay
    [] item[1] = "rewind" /\ Len(path) >= 2 -> Rewind
    [] item[1] = "bang" -> Bang(item) \/ Stay
    [] OTHER -> Stay

\* A command ends the dispatch: follow-ups that wait go on waiting.
Command ==
  /\ mode = "line" /\ IsCommand(line)
  /\ mode' = IF line[1][1] = "quit" THEN "quit" ELSE "keys"
  /\ overlay' = IF line[1][1] \in {"editor", "tree", "sessions"} THEN line[1][1] ELSE "none"
  /\ Perform(line[1])
  /\ gone' = gone \cup {line[1]} /\ line' = <<>>
  /\ stalled' = (followUps # <<>>)
  /\ UNCHANGED <<entered, inputVars>>

-----------------------------------------------------------------------------
(* Turns *)

Push(items) ==
  /\ path' = path \o items
  /\ nodes' = nodes \cup {SubSeq(path', 1, n) : n \in (Len(path) + 1)..Len(path')}

\* The line is sent, whatever stands in it next to something else.
BeginTurn ==
  /\ mode = "line" /\ ~IsCommand(line)
  /\ mode' = "turn" /\ begun' = Len(path) /\ Push(line) /\ line' = <<>>
  /\ UNCHANGED <<overlay, entered, inputVars, openId, logged, gone, unsaved, stalled>>

\* Enter and Alt+Enter while the turn runs.
SubmitSteer ==
  /\ mode = "turn" /\ buffer # <<>>
  /\ steering' = Append(steering, buffer) /\ buffer' = <<>>
  /\ UNCHANGED <<mode, overlay, entered, line, followUps, oneAtATime, treeVars, gone, stalled>>

SubmitFollowUp ==
  /\ mode = "turn" /\ buffer # <<>>
  /\ followUps' = Append(followUps, buffer) /\ buffer' = <<>>
  /\ UNCHANGED <<mode, overlay, entered, line, steering, oneAtATime, treeVars, gone, stalled>>

\* The agent takes steering between two requests.
InjectSteering ==
  /\ mode = "turn" /\ steering # <<>>
  /\ Push(Head(steering)) /\ steering' = Tail(steering)
  /\ UNCHANGED <<mode, overlay, entered, buffer, followUps, oneAtATime, line, begun, openId, logged,
                 gone, unsaved, stalled>>

\* What is typed comes first, then what was queued, joined into one line.
Queued(n) == buffer \o FlattenSeq(SubSeq(followUps, 1, n))

\* The next line is what was typed and queued; with nothing there, keys.
GoOn ==
  LET n == IF oneAtATime /\ followUps # <<>> THEN 1 ELSE Len(followUps)
      q == Queued(n)
  IN  /\ line' = q /\ mode' = IF q = <<>> THEN "keys" ELSE "line"
      /\ buffer' = <<>> /\ followUps' = Drop(followUps, n) /\ stalled' = FALSE
      /\ UNCHANGED <<overlay, entered, steering, oneAtATime, openId, begun>>

\* on_turn: saved under the id of the moment; a failure is a line in the log.
Save(items) ==
  \/ logged' = [logged EXCEPT ![openId] = @ \o items] /\ UNCHANGED unsaved
  \/ unsaved' = unsaved \cup Range(items) /\ UNCHANGED logged

\* The turn ends well, or by Esc: the nodes it added are saved.
EndTurn ==
  /\ mode = "turn" /\ Save(Drop(path, begun))
  /\ GoOn /\ UNCHANGED <<nodes, path, gone>>

\* The turn fails: its nodes leave the tree.
FailTurn ==
  LET kept == SubSeq(path, 1, begun)
  IN  /\ mode = "turn"
      /\ gone' = gone \cup Range(Drop(path, begun))
      /\ path' = kept /\ nodes' = nodes \ (Stems(path) \ Stems(kept))
      /\ GoOn /\ UNCHANGED <<logged, unsaved>>

Init ==
  /\ mode = "keys" /\ overlay \in {"none", "sessions"} /\ entered = 0
  /\ buffer = <<>> /\ line = <<>> /\ steering = <<>> /\ followUps = <<>> /\ oneAtATime = TRUE
  /\ nodes = {} /\ path = <<>> /\ begun = 0 /\ openId = 1 /\ logged = <<<<>>>>
  /\ gone = {} /\ unsaved = {} /\ stalled = FALSE

Next ==
  \/ Type \/ Send \/ CtrlC \/ SetFollowUpMode \/ ChangeOverlay \/ TreeEnter \/ SessionEnter
  \/ Command \/ BeginTurn \/ SubmitSteer \/ SubmitFollowUp \/ InjectSteering
  \/ EndTurn \/ FailTurn

Spec == Init /\ [][Next]_tuiVars

-----------------------------------------------------------------------------
TypeOK ==
  /\ mode \in {"keys", "line", "turn", "quit"}
  /\ overlay \in {"none", "sessions", "tree", "editor"}
  /\ entered \in 0..MaxItems /\ openId \in DOMAIN logged /\ Len(logged) <= MaxSessions
  /\ path = <<>> \/ path \in nodes

\* Until the user quits nothing that was entered disappears: it is in the line, in the inbox, in the
\* open tree or in a saved session, unless it was a command, its turn failed,
\* or no save covered it.
InputKept ==
  LET there == Range(buffer) \cup Range(line) \cup Items(Range(steering) \cup Range(followUps))
               \cup Items(nodes) \cup Items(Range(logged))
  IN  mode # "quit" =>
        \A n \in 1..entered : \E i \in there \cup gone \cup unsaved : i[2] = n

\* A turn is saved where its session is: between turns, what the path shows is
\* among the rows of the session that is open.
SavedInPlace ==
  mode \in {"keys", "line"} => Range(path) \ unsaved \subseteq Range(logged[openId])

\* When the front end waits for a key, no follow-up waits with it, unless one
\* of them was a command.
FollowUpsSent == mode = "keys" /\ ~stalled => followUps = <<>>

InputServed == InputKept /\ SavedInPlace /\ FollowUpsSent
=============================================================================
