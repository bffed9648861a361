------------------------------ MODULE MCClient -------------------------------
(***************************************************************************)
(* The modules of front end, models, settings and files, which             *)
(* share no state and have safety properties only, checked side by side:   *)
(* Init chooses one of them (part), whose variables then move while those  *)
(* of the others keep one of their initial values.  The states of the      *)
(* parts add up instead of multiplying.                                    *)
(***************************************************************************)
EXTENDS Integers, Sequences, FiniteSets, TLC

CONSTANTS
  Packages, Procs, MaxReleases, Facts, Core, Credentials, Docs, Writers,
  Limit, MaxWrites, Tasks, Spellings, MaxSlots, MaxCalls, Slashes, MaxItems,
  MaxSessions, MaxRetries, Apis, MaxHist, MaxChanges, MaxDrifts, MaxGated,
  MaxEvents, MaxEdits, Handles, MaxAsked, MaxHits, Live, Held, Dialogs,
  Declared, InReply, MaxSid, MaxBytes, MaxMeddled

ASSUME MCClientAssumption ==
  {MaxReleases, Limit, MaxWrites, MaxSlots, MaxCalls, MaxItems, MaxSessions,
   MaxRetries, MaxHist, MaxChanges, MaxDrifts, MaxGated, MaxEvents, MaxEdits,
   MaxAsked, MaxHits, MaxSid, MaxBytes, MaxMeddled} \subseteq Nat \ {0}

VARIABLES part,
  offers, releases, checkout, placed, lock, job, torn,
  doc, table, writer, writes, noted, frail,
  present, content, lanes, made, used, task, apart,
  mode, overlay, entered, buffer, line, steering, followUps, oneAtATime,
  nodes, path, begun, openId, logged, gone, unsaved, stalled,
  script, phase, tries, asked, stripped, wire, held, buf, acc, shown, cut,
  hist, api, fresh, repeated, stripping,
  files, live, wanted, changes,
  tree, spot, userRule, says, trusted, proc, drifts, vowed, amiss,
  plan, filter, approver, hooks, tools, snap, depth, approved, found,
  executed, count,
  run, prompt, pos, queue, text, ids, body, whole, seen, dropped, billed,
  stage, cli,
  channel, lines, cache, fold, spoken,
  skillMd, ignores, registry, edits,
  slots, disk, call, answer, result, did, stray, archive, calls,
  file, offset, shownLines, lost, size, tool, todo, at, hits, extra, forest,
  loop, flags, on, sid, title, affinity, copy, wait, entries, out, cmds,
  ready, told, screen, registered, unheard,
  onDisk, leads, ed, base, warned, thrown, strayed, meddled

pkgVars ==
  <<offers, releases, checkout, placed, lock, job, torn>>
memoryVars ==
  <<doc, table, writer, writes, noted, frail>>
filesVars ==
  <<present, content, lanes, made, used, task, apart>>
tuiVars ==
  <<mode, overlay, entered, buffer, line, steering, followUps, oneAtATime,
    nodes, path, begun, openId, logged, gone, unsaved, stalled>>
streamVars ==
  <<script, phase, tries, asked, stripped, wire, held, buf, acc, shown, cut>>
requestVars ==
  <<hist, api, fresh, repeated, stripping>>
settingsVars ==
  <<files, live, wanted, changes>>
launchVars ==
  <<tree, spot, userRule, says, trusted, proc, drifts, vowed, amiss>>
gateVars ==
  <<plan, filter, approver, hooks, tools, snap, depth, approved, found,
    executed, count>>
eventsVars ==
  <<run, prompt, pos, queue, text, ids, body, whole, seen, dropped, billed,
    stage, cli>>
viewVars ==
  <<channel, lines, cache, fold, spoken>>
scanVars ==
  <<skillMd, ignores, registry, edits>>
servicesVars ==
  <<slots, disk, call, answer, result, did, stray, archive, calls>>
pagesVars ==
  <<file, offset, shownLines, lost, size, tool, todo, at, hits, extra, forest>>
dispatchVars ==
  <<loop, flags, on, sid, title, affinity, copy, wait, entries, out, cmds,
    ready, told, screen, registered, unheard>>
editorVars ==
  <<onDisk, leads, ed, base, warned, thrown, strayed, meddled>>

Itself(x) == x

\* The files that packages may offer.
PkgNames == {<<"skill", "a">>, <<"skill", "b">>, <<"theme", "a">>}

Text == <<"x", "y">>
Edit(list, all) == [tool |-> "edit", text |-> <<>>, edits |-> list, all |-> all]
Swap == <<[old |-> <<"y">>, new |-> <<"x">>], [old |-> <<"x">>, new |-> <<"y">>]>>
Asked ==
  {[tool |-> "write", text |-> Text, edits |-> <<>>, all |-> FALSE], Edit(Swap, FALSE),
   Edit(<<[old |-> <<"y">>, new |-> <<"x">>]>>, TRUE)}

\* What the servers send to ModelStream: interleaved calls; a line that is no
\* JSON and an error; a last event without its blank line; thinking before a
\* call; calls of Gemini in fragments, two of one tool among them.
Ev(e, n, id, name, piece) == [e |-> e, at |-> n, id |-> id, name |-> name, piece |-> piece]
No == "absent"
Say(x) == Ev("text", 1, No, No, <<x>>)
Control(e) == Ev(e, 1, No, No, <<>>)
Reply(a, events, bare) == [api |-> a, events |-> events, bare |-> bare]
Replies == {
  Reply("openai", <<Say("a"), Ev("call", 1, "x", "read", <<"1">>), Ev("call", 2, No, "grep", <<"2">>),
                    Ev("call", 1, "", No, <<"}">>), Ev("call", 2, No, No, <<"}">>),
                    Control("usage"), Control("end")>>, FALSE),
  Reply("openai", <<Control("junk"), Say("a"), Control("error"), Say("b")>>, FALSE),
  Reply("openai", <<Say("a"), Say("b"), Control("end")>>, TRUE),
  Reply("anthropic", <<Ev("think", 1, No, No, <<"t">>), Ev("think", 1, No, No, <<"s">>), Say("a"),
                       Ev("tool", 3, "x", "read", <<>>), Ev("json", 3, No, No, <<"1">>),
                       Ev("json", 3, No, No, <<"}">>), Control("end")>>, FALSE),
  Reply("gemini", <<Say("a"), Ev("fn", 1, No, "read", <<"1">>), Ev("fn", 2, No, "grep", <<"2">>),
                    Ev("fn", 1, No, "read", <<"3">>)>>, FALSE),
  Reply("bedrock", <<Say("a"), Ev("tool", 2, "x", "read", <<"}">>),
                     Ev("tool", 3, "y", "read", <<"2", "}">>)>>, FALSE),
  Reply("vertex", <<Say("a"), Ev("fn", 1, No, "read", <<"1">>), Control("end")>>, FALSE),
  Reply("gemini", <<Ev("fn", 1, No, "read", <<"1">>), Ev("fn", 2, No, "read", <<"2">>)>>, FALSE),
  Reply("gemini", <<Say("a"), Say("b")>>, TRUE)}

\* What EventStream is asked and what the loop emits: a compaction, a thought and
\* a text; a batch of two calls with parts of every kind; a run that fails.
Step(kind, what) == [kind |-> kind, what |-> what]
Turns == {
  [post |-> <<>>, ends |-> "ok",
   events |-> <<Step("compaction", "c"), Step("compacted", "c"), Step("step", 1), Step("think", "h"),
                Step("text", "a"), Step("text", "b"), Step("usage", 0), Step("step end", 1)>>],
  [post |-> <<Step("url", "u"), Step("text", "x"), Step("data", "d"), Step("text", "y"), Step("url", "ftp")>>,
   ends |-> "parked",
   events |-> <<Step("text", "a"), Step("usage", 0), Step("call", 1), Step("call", 2), Step("result", 1),
                Step("other", 0), Step("result", 2), Step("step end", 1)>>],
  [post |-> <<Step("file", "f"), Step("text", "x")>>, ends |-> "error",
   events |-> <<Step("step", 1), Step("text", "a"), Step("call", 1), Step("text", "b")>>]}

\* The directories SkillScan knows: two of the search path, and what is below.
SkillDirs == <<<<"home">>, <<"home", "d">>, <<"home", "g">>, <<"home", "g", "s">>,
               <<"project">>, <<"project", "s">>>>

\* Files of up to three lines, and two with a line that no page can hold.
Texts == {[lens |-> l, width |-> w] :
            l \in UNION {[1..n -> 0..3] : n \in 0..3} \cup {<<9>>, <<1, 9, 1>>}, w \in {1, 3}}
\* Trees for a path: a directory `a' with `x', and `b'; each of the two may be a
\* link, up or down, inside or outside, with or without an end.
Links == {<<"top", "root", "a">>, <<"top", "out">>, <<"top", "out", "new">>,
          <<"here", "..", "out">>, <<"here", "..", "..", "out">>, <<"here", "b", "x">>}
Forests == {[p \in {<<"root">>, <<"root", "a">>, <<"out">>, <<"out", "x">>} |-> <<>>]
            @@ (<<"root", "b">> :> b) @@ (<<"root", "a", "x">> :> x) :
              b \in Links \cup {<<>>}, x \in {<<>>, <<"top", "out">>, <<"here", "..", "..", "out">>}}
Paths == {<<"root">> \o s : s \in UNION {[1..n -> {"a", "b", "x", ".."}] : n \in 0..2}
                             \cup {<<"a", "x", "n">>, <<"b", "x", "n">>, <<"b", "..", "x">>}}

\* The commands an extension may register.
Registrable == {"c1", "c2"}

\* What the editor finds in a file, the last with ends of both kinds, and pastes.
Originals == {<<>>, <<"x", "cr", "lf">>, <<"x", "lf">>, <<"lf", "cr", "lf">>}
Pastes == {<<"x">>, <<"x", "cr", "lf">>}

PK == INSTANCE PkgInstall
        WITH Names <- PkgNames, Title <- Itself, Overlap <- FALSE
MF == INSTANCE MemoryFile WITH Secrets <- Credentials, told <- noted
FQ == INSTANCE FileQueue WITH Ops <- Asked, queue <- lanes, calls <- used
TA == INSTANCE TuiApp WITH Commands <- Slashes
MS == INSTANCE ModelStream WITH Scripts <- Replies
MR == INSTANCE ModelRequest WITH Names <- {"read", "grep"}
ST == INSTANCE Settings WITH Names <- {"a", "b"}
LA == INSTANCE Launch
TG == INSTANCE ToolGate
ES == INSTANCE EventStream WITH Scripts <- Turns, AgentCap <- 2, SseCap <- 3
CV == INSTANCE ChatView
SK == INSTANCE SkillScan
        WITH Places <- SkillDirs, Distilled <- <<"home", "d">>, Names <- {"one", "distilled"}
XS == INSTANCE ExecService
FT == INSTANCE FileTools
        WITH Files <- Texts, Trees <- Forests, Asked <- Paths, MaxOut <- 8, Threads <- {"t1", "t2"}, shown <- shownLines, tree <- forest
RS == INSTANCE RpcServe
        WITH mode <- loop, snap <- copy, name <- title, Kept <- Held, Answered <- InReply, Commands <- Registrable
FE == INSTANCE FileEditor WITH Paths <- {"note"}, dropped <- thrown

ASSUME PartsAssumption ==
  /\ ST!SettingsAssumption
  /\ LA!LaunchAssumption
  /\ TG!ToolGateAssumption
  /\ ES!EventStreamAssumption
  /\ CV!ChatViewAssumption
  /\ SK!SkillScanAssumption
  /\ XS!ExecServiceAssumption
  /\ FT!FileToolsAssumption
  /\ RS!RpcServeAssumption
  /\ FE!FileEditorAssumption

Init ==
  /\ part \in {"pkg", "memory", "files", "tui", "stream", "request",
               "settings", "launch", "gate", "events", "view", "scan",
               "services", "pages", "dispatch", "editor"}
  /\ PK!Init
  /\ MF!Init
  /\ FQ!Init
  /\ part # "files" => present = "folder"
  /\ TA!Init
  /\ part # "tui" => overlay = "none"
  /\ MS!Init
  /\ part # "stream" => script = CHOOSE s \in Replies : TRUE
  /\ MR!Init
  /\ part # "request" => api = "openai"
  /\ ST!Init
  /\ part # "settings" => files = [l \in {"pi", "pi project", "home", "project"} |-> ST!Absent]
  /\ LA!Init
  /\ part # "launch" => tree = {"context"} /\ userRule = "ask" /\ ~says.paths /\ says.rule = "unset" /\ trusted = {} /\ spot = [git |-> TRUE, at |-> "root"]
  /\ TG!Init
  /\ part # "gate" => ~plan /\ ~hooks /\ filter = {} /\ approver = "none"
  /\ ES!Init
  /\ part # "events" => run = CHOOSE r \in Turns : TRUE
  /\ CV!Init
  /\ SK!Init
  /\ XS!Init
  /\ FT!Init
  /\ part # "pages" => file = CHOOSE f \in Texts : TRUE
  /\ part # "pages" => tool = "path"
  /\ part # "pages" => forest = CHOOSE f \in Forests : TRUE
  /\ RS!Init
  /\ part # "dispatch" => loop = "idle"
  /\ FE!Init
  /\ part # "editor" => onDisk = [p \in {"note"} |-> [is |-> "nothing", text |-> <<>>]]

\* The variables of every part but p.
Others(p) ==
  /\ p # "pkg" => UNCHANGED pkgVars
  /\ p # "memory" => UNCHANGED memoryVars
  /\ p # "files" => UNCHANGED filesVars
  /\ p # "tui" => UNCHANGED tuiVars
  /\ p # "stream" => UNCHANGED streamVars
  /\ p # "request" => UNCHANGED requestVars
  /\ p # "settings" => UNCHANGED settingsVars
  /\ p # "launch" => UNCHANGED launchVars
  /\ p # "gate" => UNCHANGED gateVars
  /\ p # "events" => UNCHANGED eventsVars
  /\ p # "view" => UNCHANGED viewVars
  /\ p # "scan" => UNCHANGED scanVars
  /\ p # "services" => UNCHANGED servicesVars
  /\ p # "pages" => UNCHANGED pagesVars
  /\ p # "dispatch" => UNCHANGED dispatchVars
  /\ p # "editor" => UNCHANGED editorVars

Next ==
  /\ UNCHANGED part /\ Others(part)
  /\ \/ part = "pkg" /\ PK!Next
     \/ part = "memory" /\ MF!Next
     \/ part = "files" /\ FQ!Next
     \/ part = "tui" /\ TA!Next
     \/ part = "stream" /\ MS!Next
     \/ part = "request" /\ MR!Next
     \/ part = "settings" /\ ST!Next
     \/ part = "launch" /\ LA!Next
     \/ part = "gate" /\ TG!Next
     \/ part = "events" /\ ES!Next
     \/ part = "view" /\ CV!Next
     \/ part = "scan" /\ SK!Next
     \/ part = "services" /\ XS!Next
     \/ part = "pages" /\ FT!Next
     \/ part = "dispatch" /\ RS!Next
     \/ part = "editor" /\ FE!Next

vars ==
  <<part, pkgVars, memoryVars, filesVars, tuiVars, streamVars, requestVars,
    settingsVars, launchVars, gateVars, eventsVars, viewVars, scanVars,
    servicesVars, pagesVars, dispatchVars, editorVars>>

Spec == Init /\ [][Next]_vars

TypesOK ==
  /\ part = "pkg" => PK!TypeOK
  /\ part = "memory" => MF!TypeOK
  /\ part = "files" => FQ!TypeOK
  /\ part = "tui" => TA!TypeOK
  /\ part = "stream" => MS!TypeOK
  /\ part = "request" => MR!TypeOK
  /\ part = "settings" => ST!TypeOK
  /\ part = "launch" => LA!TypeOK
  /\ part = "gate" => TG!TypeOK
  /\ part = "events" => ES!TypeOK
  /\ part = "view" => CV!TypeOK
  /\ part = "scan" => SK!TypeOK
  /\ part = "services" => XS!TypeOK
  /\ part = "pages" => FT!TypeOK
  /\ part = "dispatch" => RS!TypeOK
  /\ part = "editor" => FE!TypeOK


\* The lock file names no file of another owner and, between the installations,
\* every file of a package but for those whose record, copies or removal were
\* cut short or failed (PkgInstall).
LockIsTrue == part = "pkg" => PK!LockIsTrue

\* A fact of the memory file is in the search mirror (MemoryFile).
FactsReachable == part = "memory" => MF!FactsReachable

\* No edit that succeeded is overwritten by a task that read the file before it
\* (FileQueue).
EditsKept == part = "files" => FQ!EditsKept

\* What was entered is sent, saved or still shown, and a turn is saved under
\* the session that is open (TuiApp).
InputServed == part = "tui" => TA!InputServed

\* A complete answer holds what the server sent; a cut one no half of a call
\* (ModelStream).
AnswerTrue == part = "stream" => MS!AnswerTrue

\* Each call of a request is answered right after it, and no image is left out
\* (ModelRequest).
RequestTrue == part = "request" => MR!RequestTrue

\* What a person has set through the program holds at the next start, and what
\* was switched on or off stays so, unless the file is broken, hidden or was
\* emptied by a failing write (Settings).
SettingsHeld == part = "settings" => ST!SettingsHeld

\* A session that skips the project never touches what is gated, but for what
\* the settings of the project name by path; their rule for trust is the other
\* exception (Launch).
TrustKept == part = "launch" => LA!TrustKept

\* What ran was let through by filter, plan mode and approver (ToolGate).
GateKept == part = "gate" => TG!GateKept

\* The events of a run are well formed and say what the model said
\* (EventStream).
EventsTrue == part = "events" => ES!EventsTrue

\* The chat window holds what was said (ChatView).
ViewTrue == part = "view" => CV!ViewTrue

\* A scan offers what is there and not ignored, once (SkillScan).
SkillsTrue == part = "scan" => SK!SkillsTrue

\* What a caller of an execution node is told was done there, in its own
\* workspace (ExecService).
AnswersTrue == part = "services" => XS!AnswersTrue

\* Who follows the hints of the reading tools sees all, or is told what is not
\* shown (FileTools).
PagesTrue == part = "pages" => FT!PagesTrue

\* What a client of `rupi --mode rpc' was told is so, with the exceptions the
\* loops of rpc.rs make (RpcServe).
ToldTrue == part = "dispatch" => RS!ToldTrue

\* What is typed into the editor is kept until it is saved or given up twice
\* (FileEditor).
BufferKept == part = "editor" => FE!BufferKept

\* What is typed is sent, saved or still shown, and what is shown is what was
\* said.
ScreenTrue == InputServed /\ EventsTrue /\ ViewTrue /\ ToldTrue /\ BufferKept

\* What a record on disk says is what is on disk: the package lock names no
\* file of anybody else and, but for what a failing step or a write cut short
\* cost, all that is installed, every fact of MEMORY.md is found by a search,
\* and an edit of a file is never lost to another.
FilesTrue == LockIsTrue /\ FactsReachable /\ EditsKept

\* What is said to and by a model arrives whole: a complete answer holds the
\* text and the calls that the server sent, however its bytes are cut, and
\* every call of a request is answered right after it, whatever provider wrote
\* the path; the tools that read leave nothing out unsaid; and what a tool on
\* another host answers was done there.
ModelTalk == AnswerTrue /\ RequestTrue /\ AnswersTrue /\ PagesTrue

\* What a person has set up stays so: the settings at the next start, the
\* project that was not to be loaded in every turn, the skills on disk those on
\* offer, and the gate before every tool call.
SetupKept == SettingsHeld /\ TrustKept /\ GateKept /\ SkillsTrue
=============================================================================
