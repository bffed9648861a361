----------------------------- MODULE SkillScan -----------------------------
(***************************************************************************)
(* The skills a session offers: directories are scanned for SKILL.md, with *)
(* ignore files and nesting; explicit paths are added; the review writes   *)
(* new ones; the model loads them by name.                                 *)
(***************************************************************************)
EXTENDS Integers, Sequences, SequencesExt, FiniteSets

CONSTANTS
  Places,    \* directories of the search path and below, in the order of a scan
  Distilled, \* one of them: where the review puts the skill it may distill
  Names,     \* of skills
  MaxEdits

SkillScanAssumption ==
  /\ MaxEdits \in Nat \ {0} /\ Distilled \in ToSet(Places) /\ "distilled" \in Names
  /\ \A p \in ToSet(Places) : Len(p) > 1 => Front(p) \in ToSet(Places)

VARIABLES
  skillMd,   \* the name SKILL.md declares in a directory; "" none, "bad" invalid
  ignores,   \* ignore lines: [at, on, neg]; on is a directory, or [md |-> directory]
  registry,  \* SkillRegistry.skills: [name, at]
  edits

scanVars == <<skillMd, ignores, registry, edits>>

Dirs == ToSet(Places)
Dir(p) == [dir |-> p]
Md(p) == [md |-> p]
PathOf(x) == IF "dir" \in DOMAIN x THEN x.dir ELSE x.md

\* Skill::load_file: frontmatter with a description and a valid name.
Loads(disk, p) == disk.skillMd[p] \notin {"", "bad"}

\* collect_ignore_lines: down to the first directory with a SKILL.md, whatever
\* becomes of that file; the rules of the directories passed are in force.
Collected(disk) ==
  LET passed[p \in Dirs] == Len(p) = 1 \/ (passed[Front(p)] /\ disk.skillMd[Front(p)] = "")
  IN {l \in disk.ignores : passed[l.at]}

\* Gitignore::matched: the last line that matches wins, and the lines of a
\* directory come after those of its parents.
Ignored(disk, x) ==
  LET about == {l \in Collected(disk) : l.on = x}
      last == {l \in about : \A k \in about : Len(k.at) <= Len(l.at)}
  IN about # {} /\ \A l \in last : ~l.neg

\* visit: a SKILL.md that is not ignored is taken, and ends the way down even
\* when it does not load; a directory that is ignored is not entered.
Ends(disk, p) == disk.skillMd[p] # "" /\ ~Ignored(disk, Md(p))
Visited(disk) ==
  LET reached[p \in Dirs] ==
        Len(p) = 1 \/ (reached[Front(p)] /\ ~Ends(disk, Front(p)) /\ ~Ignored(disk, Dir(p)))
  IN {p \in Dirs : reached[p]}

\* refresh: of two skills with one name the first stays.
Merge(reg, e) == IF \E i \in DOMAIN reg : reg[i].name = e.name THEN reg ELSE Append(reg, e)
Collect(disk) ==
  LET found == SelectSeq(Places, LAMBDA p : p \in Visited(disk) /\ Ends(disk, p) /\ Loads(disk, p))
  IN [i \in DOMAIN found |-> [name |-> disk.skillMd[found[i]], at |-> found[i]]]
Scan(disk) == FoldLeft(Merge, <<>>, Collect(disk))

Disk == [skillMd |-> skillMd, ignores |-> ignores]

----------------------------------------------------------------------------
Refresh ==
  /\ registry' = Scan(Disk)
  /\ UNCHANGED <<skillMd, ignores, edits>>

\* ingest_paths: a directory named on the command line, or markdown that the
\* control plane read from a workspace; ignore files do not matter here.
IngestPaths(p) ==
  /\ Loads(Disk, p) /\ registry' = Merge(registry, [name |-> skillMd[p], at |-> p])
  /\ UNCHANGED <<skillMd, ignores, edits>>

\* retain_allowed
RetainAllowed(name) ==
  /\ registry' = SelectSeq(registry, LAMBDA e : e.name # name)
  /\ UNCHANGED <<skillMd, ignores, edits>>

\* SkillAccumulator::propose: never over a directory that is there.
Propose ==
  /\ edits < MaxEdits /\ skillMd[Distilled] = "" /\ edits' = edits + 1
  /\ skillMd' = [skillMd EXCEPT ![Distilled] = "distilled"]
  /\ UNCHANGED <<ignores, registry>>

\* Someone edits the directories.
WriteSkill(p, name) ==
  /\ edits < MaxEdits /\ edits' = edits + 1 /\ skillMd[p] # name
  /\ skillMd' = [skillMd EXCEPT ![p] = name] /\ UNCHANGED <<ignores, registry>>
WriteIgnore(l) ==
  /\ edits < MaxEdits /\ edits' = edits + 1 /\ l \notin ignores
  /\ ignores' = ignores \cup {l} /\ UNCHANGED <<skillMd, registry>>

Init ==
  /\ skillMd = [p \in Dirs |-> ""] /\ ignores = {} /\ edits = 0
  /\ registry = <<>>

Lines == {l \in [at : Dirs, on : {Dir(p) : p \in Dirs} \cup {Md(p) : p \in Dirs}, neg : BOOLEAN] :
            IsPrefix(l.at, PathOf(l.on)) /\ l.on # Dir(l.at)}

Next ==
  \/ Refresh \/ Propose
  \/ \E p \in Dirs : IngestPaths(p) \/ \E name \in Names \cup {"", "bad"} : WriteSkill(p, name)
  \/ \E l \in Lines : WriteIgnore(l)
  \/ \E name \in Names : RetainAllowed(name)

Spec == Init /\ [][Next]_scanVars

----------------------------------------------------------------------------
TypeOK == edits \in 0..MaxEdits /\ \A i \in DOMAIN registry : registry[i].name \in Names

\* The lines that a scan which reads them on its way would know.
OnTheWay(disk) == {l \in disk.ignores : l.at \in Visited(disk)}

\* What a scan offers: one skill of a name; a skill that loads, unless an
\* ancestor of its directory is a skill itself, a line on the way ignores it or
\* an earlier one has its name; none that such a line ignores, but below a
\* SKILL.md that is itself ignored, where lines are not read.
SkillsTrue ==
  LET disk == Disk
      reg == Scan(disk)
      overruled(x, lines) == \E l \in lines : l.on = x /\ ~l.neg
      blind(p) == \E q \in Dirs : IsStrictPrefix(q, p) /\ disk.skillMd[q] # "" /\ Ignored(disk, Md(q))
      ancestors(p) == {q \in Dirs : IsStrictPrefix(q, p)}
  IN /\ \A i, j \in DOMAIN registry : registry[i].name = registry[j].name => i = j
     /\ \A p \in Dirs : Loads(disk, p) =>
          \/ \E i \in DOMAIN reg : reg[i].name = disk.skillMd[p]
          \/ \E q \in ancestors(p) : disk.skillMd[q] # ""
          \/ \E q \in ancestors(p) \cup {p} : overruled(Dir(q), disk.ignores) \/ overruled(Md(p), disk.ignores)
     /\ \A i \in DOMAIN reg :
          /\ \A q \in ancestors(reg[i].at) :
               /\ ~Ends(disk, q)
               /\ Len(q) > 1 => ~Ignored(disk, Dir(q))
          /\ \A l \in OnTheWay(disk) :
               l.on = Md(reg[i].at) /\ ~l.neg =>
                 blind(reg[i].at) \/ \E k \in OnTheWay(disk) : k.on = l.on /\ k.neg /\ Len(k.at) >= Len(l.at)
=============================================================================
