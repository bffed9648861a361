------------------------------ MODULE Settings ------------------------------
(***************************************************************************)
(* The settings files of the command line (rupi-config): four layers, of   *)
(* which the later one that gives a key wins, the copy a session holds in  *)
(* memory, /settings, which changes the copy and one file, and `rupi       *)
(* config`, which switches a resource on or off in one file. A file that   *)
(* is not JSON, or has one value of a wrong type, counts as empty.         *)
(* The keys stand for the ways a key is merged and cleared: theme for the  *)
(* plain ones, models for a list whose empty value counts as none, prompts *)
(* and skills for the lists of specs, the two of which are read in         *)
(* different ways.                                                         *)
(***************************************************************************)
EXTENDS Integers, Sequences, SequencesExt

CONSTANTS
  Names,        \* of skills and prompts
  MaxChanges    \* bound: changes of a file in a behaviour

SettingsAssumption == MaxChanges \in Nat

VARIABLES
  files,      \* layer -> what the file holds
  live,       \* the settings of the running session, or None
  wanted,     \* auxiliary: what a person has set through the program, in which
              \* file, since the files were last edited: a key, or a resource
  changes

settingsVars == <<files, live, wanted, changes>>

Layers == <<"pi", "pi project", "home", "project">>
Own == {"home", "project"}
Keys == {"theme", "models", "prompts", "skills"}
Lists == {"prompts", "skills"}

Unset == [is |-> "unset"]
Null == [is |-> "null"]
Bad == [is |-> "bad"]
Value(list) == [is |-> "list", of |-> list]
One(x) == Value(<<<<"name", x>>>>)
None == [state |-> "none"]

On(n) == <<"+", n>>
Off(n) == <<"!", n>>
Path(n) == <<"path", n>>       \* a path that ends in /n
Specs == {On(n) : n \in Names} \cup {Off(n) : n \in Names} \cup {Path(n) : n \in Names}

Nothing == [k \in Keys |-> Unset]
Absent == [state |-> "absent", vals |-> Nothing]
Broken == [state |-> "broken", vals |-> Nothing]
Text(vals) == [state |-> "text", vals |-> vals]

TypeOK ==
  /\ \A l \in ToSet(Layers) :
       /\ files[l].state \in {"absent", "broken", "text"}
       /\ \A k \in Lists : files[l].vals[k].is = "list" => ToSet(files[l].vals[k].of) \subseteq Specs
  /\ live = None \/ DOMAIN live = Keys
  /\ changes \in 0..MaxChanges

\* load_file: the whole file, or nothing of it.
Read(f) == IF f.state = "text" /\ \A k \in Keys : f.vals[k] # Bad THEN f.vals ELSE Nothing

\* merge: whether a value stands for something.
Given(k, v) == v \notin {Unset, Null} /\ ~(k = "models" /\ v = Value(<<>>))

Merged(over, base) == [k \in Keys |-> IF Given(k, over[k]) THEN over[k] ELSE base[k]]
Load == FoldLeft(LAMBDA base, l : Merged(Read(files[l]), base), Nothing, Layers)

\* write_target: the project's file when there is one.
WriteTarget == IF files["project"].state = "absent" THEN "home" ELSE "project"

\* The patch alone becomes the file.
PatchedAlone(f, k, v) == Text([Nothing EXCEPT ![k] = v])

\* persist_patch: the other keys stay, but for those of a file that is not JSON.
Patched(f, k, v) == Text([IF f.state = "text" THEN f.vals ELSE Nothing EXCEPT ![k] = v])

\* What a person may have written: a file with one value of a wrong type, and
\* one that names a skill by its path.
Written == {Broken, Text([Nothing EXCEPT !["theme"] = Bad, !["models"] = One("m2")]),
            Text([Nothing EXCEPT !["skills"] = Value(<<Path(CHOOSE n \in Names : TRUE)>>)])}

Init ==
  /\ \E pi \in {Absent, Text([Nothing EXCEPT !["theme"] = One("dark"), !["prompts"] = Value(<<>>)])} :
     \E home \in Written \cup {Absent}, project \in Written \cup {Absent} :
       files = [l \in ToSet(Layers) |-> CASE l = "pi" -> pi [] l = "home" -> home
                                          [] l = "project" -> project [] OTHER -> Absent]
  /\ live = None /\ wanted = {} /\ changes = 0

Start == live = None /\ live' = Load /\ UNCHANGED <<files, wanted, changes>>
Quit == live # None /\ live' = None /\ UNCHANGED <<files, wanted, changes>>

\* /reload: the lists of resources and the theme are read again, the models not.
Reload ==
  /\ live # None
  /\ live' = [Load EXCEPT !["models"] = live["models"]]
  /\ UNCHANGED <<files, wanted, changes>>

\* What a person can ask for: a list cleared, switched off, or of one name.
Asked(k) ==
  CASE k = "theme" -> {One("light")}
    [] k = "models" -> {Value(<<>>), One("m1")}
    [] k = "prompts" -> {Null, Value(<<>>), Value(<<On(CHOOSE n \in Names : TRUE)>>)}
    [] OTHER -> {}

\* A write that fails: the file stays as it was, or has been truncated by then
\* (fs::write), and is no JSON any more.
Lost(l) ==
  \/ UNCHANGED <<files, wanted>>
  \/ /\ files' = [files EXCEPT ![l] = Broken]
     /\ wanted' = {t \in wanted : t.at # l}

\* What stays wanted when the value of k in l is set, or one name of it
\* switched: all that was asked for of other keys, names and files.
Besides(k, l) == {t \in wanted : t.key # k \/ t.at # l}
BesidesName(k, n, l) ==
  Besides(k, l) \cup {t \in wanted : t.key = k /\ t.how # "set" /\ t.value # n}

\* apply_setting.
Applied(settings, k, v) == [settings EXCEPT ![k] = v]

\* /settings: the session has the value, also when the file cannot be written.
Slash(k, v) ==
  /\ live # None /\ changes < MaxChanges
  /\ live' = Applied(live, k, v)
  /\ changes' = changes + 1
  /\ \/ /\ files' = [files EXCEPT ![WriteTarget] = Patched(@, k, v)]
        /\ wanted' = Besides(k, WriteTarget)
                       \cup {[key |-> k, how |-> "set", value |-> v, at |-> WriteTarget]}
     \/ Lost(WriteTarget)

\* toggle_spec_list: every spec of that name goes, also a path that ends in it.
Toggled(specs, n, on) ==
  Append(SelectSeq(specs, LAMBDA s : s[2] # n), IF on THEN On(n) ELSE Off(n))

ListOf(vals, k) == IF Given(k, vals[k]) THEN vals[k].of ELSE <<>>

\* persist_toggle: from the list of that file alone, not from the merged one.
Switched(f, k, n, on) == Patched(f, k, Value(Toggled(ListOf(Read(f), k), n, on)))

Switch(k, n, on, l) == [key |-> k, how |-> IF on THEN "on" ELSE "off", value |-> n, at |-> l]

\* `rupi config enable` and `disable`, in the home file or the project's.
Toggle(k, n, on, l) ==
  /\ changes < MaxChanges
  /\ \/ /\ files' = [files EXCEPT ![l] = Switched(@, k, n, on)]
        /\ wanted' = BesidesName(k, n, l) \cup {Switch(k, n, on, l)}
     \/ Lost(l)
  /\ changes' = changes + 1
  /\ UNCHANGED live

\* A package: what it has installed, of each kind, one write after the other,
\* until one fails.
TogglePackage(n, on, l) ==
  /\ changes < MaxChanges
  /\ \/ /\ files' = [files EXCEPT ![l] = Switched(Switched(@, "skills", n, on), "prompts", n, on)]
        /\ wanted' = (BesidesName("skills", n, l) \cap BesidesName("prompts", n, l))
                       \cup {Switch(k, n, on, l) : k \in Lists}
     \/ /\ files' = [files EXCEPT ![l] = Switched(@, "skills", n, on)]
        /\ wanted' = BesidesName("skills", n, l) \cup {Switch("skills", n, on, l)}
     \/ Lost(l)
  /\ changes' = changes + 1
  /\ UNCHANGED live

\* A person edits a file: it appears, breaks, or has a value of a wrong type.
Edit(l) ==
  /\ changes < MaxChanges
  /\ \E f \in Written : f # files[l] /\ files' = [files EXCEPT ![l] = f]
  /\ wanted' = {} /\ changes' = changes + 1 /\ UNCHANGED live

Next ==
  \/ Start \/ Quit \/ Reload
  \/ \E k \in Keys : \E v \in Asked(k) : Slash(k, v)
  \/ \E k \in Lists, n \in Names, on \in BOOLEAN, l \in Own : Toggle(k, n, on, l)
  \/ \E n \in Names, on \in BOOLEAN, l \in Own : TogglePackage(n, on, l)
  \/ \E l \in Own : Edit(l)

Spec == Init /\ [][Next]_settingsVars

----------------------------------------------------------------------------
\* ResourceFilter.allows.
SkillAllowed(specs, n) == On(n) \in specs \/ Off(n) \notin specs

\* PromptFilter.allows_prompt: a name that is switched on makes of the list the
\* names allowed.
PromptAllowed(specs, n) ==
  /\ Off(n) \notin specs
  /\ On(n) \in specs \/ (\A m \in Names : On(m) \notin specs)

Allows(k, n) ==
  LET specs == ToSet(ListOf(Load, k)) IN
  IF k = "skills" THEN SkillAllowed(specs, n) ELSE PromptAllowed(specs, n)

\* Whether a file is read at all, and whether a later one hides its key.
Unread(l) == \E k \in Keys : files[l].vals[k] = Bad
Hidden(l, k) == l = "home" /\ Given(k, Read(files["project"])[k])

\* A setting a person has made holds at the next start, and every resource that
\* was switched on or off is so, whatever else was set or switched since,
\* unless: the file has another value of a wrong type; the project's file hides
\* the one that was written; the value clears the key, which lets a layer below
\* show; or a later write has failed half way, which empties the file.
SettingsHeld ==
  \A t \in wanted :
    \/ Unread(t.at) \/ Hidden(t.at, t.key)
    \/ t.how = "set" /\ IF Given(t.key, t.value) THEN Load[t.key] = t.value
                        ELSE ~Given(t.key, Read(files[t.at])[t.key])
    \/ t.how # "set" /\ Allows(t.key, t.value) = (t.how = "on")
=============================================================================
