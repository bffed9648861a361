------------------------------- MODULE Launch -------------------------------
(***************************************************************************)
(* The start of the command line (rupi-cli main.rs) in a directory, and    *)
(* what of that directory comes into the prompt: which front end serves,   *)
(* whether the project's resources are loaded (the trust gate, the store   *)
(* of trusted roots, /trust), what is read once at the start and what is   *)
(* read again at every turn.  The project's own settings file is merged    *)
(* over the user's before anybody is asked: it has a say in the gate, and  *)
(* what it names by path is used on either side of it.                     *)
(***************************************************************************)
EXTENDS Naturals, FiniteSets

CONSTANT MaxDrifts      \* bound: changes of the directory by other hands

LaunchAssumption == MaxDrifts \in Nat

VARIABLES
  tree,       \* the resources that the project has
  spot,       \* where the program is started: git, and whether at its root
  userRule,   \* defaultProjectTrust of the user's own settings
  says,       \* the project's settings: its rule, and whether it names
              \* skills, prompts and extensions of the project by path
  trusted,    \* the store of trusted roots
  proc,       \* the process, or Down
  drifts,
  vowed,      \* auxiliary: the store was told to trust the root
  amiss       \* auxiliary: a session that skips the project has touched it, or
              \* a person was asked about a root the store was told of

launchVars == <<tree, spot, userRule, says, trusted, proc, drifts, vowed, amiss>>

\* What is gated, and what of it the gate looks for.
Seen == {"memory", "skills", "shared skills", "commands"}
Gated == Seen \cup {"prompts", "context", "system"}
Muted == "home skill that the settings switch off"
Named == "skill file named by --skill"
Pathed == {"skill by path", "prompt by path", "extension by path"}

\* A process, or none.  held: the settings of the session name what is Pathed;
\* dirs: and so do its directories of templates.
Down == [mode |-> "down", load |-> FALSE, why |-> "", frozen |-> {}, held |-> FALSE,
         dirs |-> FALSE, skills |-> {}, used |-> {}, flags |-> {}]
Flags == {"--trust-project", "--no-context-files", "--no-skills", "--no-memory"}
Roots == {"root", "sub"}
Answers == {"always", "once", "skip"}
Sayings == {[rule |-> "unset", paths |-> FALSE], [rule |-> "never", paths |-> TRUE],
            [rule |-> "always", paths |-> TRUE]}

\* Settings::load: the project's file is merged over the user's.
Rule == IF says.rule = "unset" THEN userRule ELSE says.rule

TypeOK ==
  /\ tree \subseteq Gated /\ trusted \subseteq Roots
  /\ userRule \in {"ask", "always", "never"} /\ says \in Sayings
  /\ proc.used \subseteq Gated \cup {Muted, Named} \cup Pathed /\ DOMAIN proc = DOMAIN Down
  /\ drifts \in 0..MaxDrifts /\ vowed \in BOOLEAN /\ amiss \in BOOLEAN

Init ==
  /\ tree \in {{"context"}, {"memory", "commands"}, Gated}
  /\ spot \in [git : BOOLEAN, at : Roots]
  /\ spot.at = "sub" => spot.git
  /\ userRule \in {"ask", "always", "never"} /\ says \in Sayings
  /\ trusted \in {{}, {"root"}}
  /\ proc = Down /\ drifts = 0 /\ vowed = FALSE /\ amiss = FALSE

\* discover_project: the root that memory is kept under.
HasRoot == spot.git \/ "memory" \in tree

\* project_resources.
Detected == tree \cap Seen

\* Whose rule it is.
RuleOf == IF says.rule = "unset" THEN "user's rule" ELSE "project's rule"

\* load_project_resources.
Asking(flags) ==
  CASE Detected = {} -> {<<TRUE, "nothing found">>}
    [] Detected # {} /\ "--trust-project" \in flags -> {<<TRUE, "flag">>}
    [] OTHER ->
       CASE Rule = "always" -> {<<TRUE, RuleOf>>}
         [] Rule = "never" -> {<<FALSE, RuleOf>>}
         [] "root" \in trusted -> {<<TRUE, "remembered">>}
         [] OTHER -> {<<TRUE, "always">>, <<TRUE, "once">>, <<FALSE, "skip">>}

\* The gate of run and rpc, which neither looks into the store nor asks.
NotAsking(flags) ==
  CASE Detected = {} -> {<<TRUE, "nothing found">>}
    [] Detected # {} /\ "--trust-project" \in flags -> {<<TRUE, "flag">>}
    [] Detected # {} /\ "--trust-project" \notin flags /\ Rule = "always" -> {<<TRUE, RuleOf>>}
    [] OTHER -> {<<FALSE, "not asked">>}

\* skill_search_dirs, skill_dirs_runtime: with or without the project's.
Skills(load, flags) ==
  IF "--no-skills" \in flags THEN {}
  ELSE {Muted} \cup IF load THEN tree \cap {"skills", "shared skills"} ELSE {}

\* discover_skills: with the named files and those of the settings' paths,
\* without what the settings switch off.
Discovered(load, flags) ==
  (Skills(load, flags) \ {Muted}) \cup {Named} \cup IF says.paths THEN {"skill by path"} ELSE {}

\* load_extensions, apply_resource_filters: read once.
Extensions == IF says.paths THEN {"extension by path"} ELSE {}

\* load_system_prompt_files, memory_store: read once.
SystemFiles(load) == IF load THEN tree \cap {"system"} ELSE {}
ProjectMemory(load, flags) ==
  IF load /\ HasRoot /\ "--no-memory" \notin flags THEN tree \cap {"memory"} ELSE {}

\* TrustStore.add: the file may not be writable, which is only warned of.
Store(answer) ==
  IF answer = "always"
  THEN \/ trusted' = trusted \cup {"root"} /\ vowed' = TRUE
       \/ UNCHANGED <<trusted, vowed>>
  ELSE UNCHANGED <<trusted, vowed>>

Begin(mode, verdicts, flags) ==
  /\ proc = Down
  /\ \E v \in verdicts :
       /\ proc' = [mode |-> mode, load |-> v[1], why |-> v[2], flags |-> flags,
                   frozen |-> SystemFiles(v[1]) \cup ProjectMemory(v[1], flags) \cup Extensions,
                   held |-> says.paths, dirs |-> says.paths,
                   skills |-> Discovered(v[1], flags), used |-> {}]
       /\ Store(v[2])
       /\ amiss' = (amiss \/ (vowed /\ v[2] \in Answers))
  /\ UNCHANGED <<tree, spot, userRule, says, drifts>>

\* run_chat, run_tui, run_once and run_rpc, up to their first turn.
Chat(flags) == Begin("chat", Asking(flags), flags)
Tui(flags) == Begin("tui", Asking(flags), flags)
Once(flags) == Begin("run", NotAsking(flags), flags)
Rpc(flags) == Begin("rpc", NotAsking(flags), flags)

\* run_tui_or_fallback.
TuiOrOnce(tty, words, flags) ==
  \/ tty /\ Tui(flags)
  \/ ~tty /\ words /\ Once(flags)

\* main without a sub-command: what the terminal and the words on the line make of it.
Plain(print, tty, words, flags) ==
  \/ (print \/ (~tty /\ words)) /\ Once(flags)
  \/ ~print /\ tty /\ Tui(flags)
  \/ ~print /\ ~tty /\ ~words /\ Chat(flags)

\* load_context_files, command_dirs_for: read again at every turn.
Context(p) == IF p.load /\ "--no-context-files" \notin p.flags THEN tree \cap {"context"} ELSE {}
Templates(p) ==
  (IF p.load THEN tree \cap {"commands", "prompts"} ELSE {})
    \cup IF p.dirs THEN {"prompt by path"} ELSE {}

\* What the prompt of a turn holds of the project, given the skills known.
Prompt(p, known) == p.frozen \cup known \cup Context(p) \cup Templates(p)

Used(known) ==
  /\ proc' = [proc EXCEPT !.skills = known, !.used = Prompt(proc, known)]
  /\ amiss' = (amiss \/ (~proc.load /\ Prompt(proc, known) \cap Gated # {}))
  /\ UNCHANGED <<tree, spot, userRule, says, trusted, drifts, vowed>>

\* A turn of chat scans the skills again, without the settings' filter; one of
\* tui does, without the named files too; run and rpc keep those of their start.
ChatTurn == proc.mode = "chat" /\ Used(Skills(proc.load, proc.flags) \cup {Named})
TuiTurn == proc.mode = "tui" /\ Used(Skills(proc.load, proc.flags))
PlainTurn == proc.mode \in {"run", "rpc"} /\ Used(proc.skills)

\* /reload: chat computes its directories from the settings at every turn, tui
\* when a setting has been changed.
Reload ==
  /\ proc.mode \in {"chat", "tui"}
  /\ proc' = [proc EXCEPT !.held = says.paths,
                          !.dirs = IF proc.mode = "chat" THEN says.paths ELSE @]
  /\ UNCHANGED <<tree, spot, userRule, says, trusted, drifts, vowed, amiss>>

\* /settings in tui, of a key that names no path.
TuiSettings ==
  /\ proc.mode = "tui"
  /\ proc' = [proc EXCEPT !.dirs = proc.held]
  /\ UNCHANGED <<tree, spot, userRule, says, trusted, drifts, vowed, amiss>>

\* The memory tool with scope "project"; refused without a project layer.
Remember ==
  /\ proc # Down /\ proc.load /\ HasRoot /\ "--no-memory" \notin proc.flags
  /\ tree' = tree \cup {"memory"}
  /\ amiss' = (amiss \/ ~proc.load)
  /\ UNCHANGED <<spot, userRule, says, trusted, proc, drifts, vowed>>

\* `rupi memory-write --scope project`: a person's own command passes the gate.
MemoryWrite ==
  /\ proc = Down /\ HasRoot
  /\ tree' = tree \cup {"memory"}
  /\ UNCHANGED <<spot, userRule, says, trusted, proc, drifts, vowed, amiss>>

\* /trust always stores the current directory, the gate asks for the root.
TrustSlash ==
  /\ proc.mode \in {"chat", "tui"}
  /\ trusted' = trusted \cup {spot.at}
  /\ vowed' = (vowed \/ spot.at = "root")
  /\ UNCHANGED <<tree, spot, userRule, says, proc, drifts, amiss>>

Quit == proc # Down /\ proc' = Down /\ UNCHANGED <<tree, spot, userRule, says, trusted, drifts, vowed, amiss>>

\* Other hands change the directory: a tool of the session, git, a person.
Drift ==
  /\ drifts < MaxDrifts /\ drifts' = drifts + 1
  /\ \/ /\ \E r \in Gated : tree' = IF r \in tree THEN tree \ {r} ELSE tree \cup {r}
        /\ UNCHANGED says
     \/ /\ \E new \in Sayings : new # says /\ says' = new
        /\ UNCHANGED tree
  /\ UNCHANGED <<spot, userRule, trusted, proc, vowed, amiss>>

Next ==
  \/ \E flags \in {{}, {"--trust-project"}, Flags \ {"--trust-project"}} :
       \/ Chat(flags) \/ Rpc(flags) \/ Once(flags)
       \/ \E tty, words \in BOOLEAN : TuiOrOnce(tty, words, flags)
       \/ \E print, tty, words \in BOOLEAN : Plain(print, tty, words, flags)
  \/ ChatTurn \/ TuiTurn \/ PlainTurn \/ Reload \/ TuiSettings \/ Remember \/ MemoryWrite \/ TrustSlash \/ Quit \/ Drift

Spec == Init /\ [][Next]_launchVars

----------------------------------------------------------------------------
\* A session that skips the project never touches what the gate is for,
\* whatever appears there later, and a root the store was told of is not asked
\* about again; a session in which the gate found something and let it in has
\* the flag, the user's own rule, the store or an answer behind it; run and rpc
\* ask nobody.  A skill file named at the start serves in every turn of chat,
\* run and rpc, and the latter two never use a skill that is switched off.
\* Two exceptions, both of the project's own settings file, which is merged
\* before the gate: its defaultProjectTrust answers the question asked about
\* the project, in either sense, and what it names by path (Pathed) is used by
\* a session that skips the project.
TrustKept ==
  /\ ~amiss
  /\ proc.load => \/ proc.why \in {"nothing found", "project's rule"}
                  \/ "--trust-project" \in proc.flags \/ userRule = "always"
                  \/ "root" \in trusted \/ proc.why \in {"always", "once"}
  /\ proc.why \in Answers => proc.mode \in {"chat", "tui"}
  /\ proc.mode \in {"chat", "run", "rpc"} => Named \in proc.skills
  /\ proc.mode \in {"run", "rpc"} => Muted \notin proc.used
=============================================================================
