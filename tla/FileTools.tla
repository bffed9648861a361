----------------------------- MODULE FileTools -----------------------------
(***************************************************************************)
(* The tools that only read.  A model pages through a file by following    *)
(* the hints of `read'; `glob', `find' and `grep' walk a tree with several *)
(* threads and stop at a limit; and every path of a sandboxed tool is      *)
(* resolved before it is used.                                             *)
(***************************************************************************)
EXTENDS Integers, Sequences, SequencesExt, FiniteSets, FiniteSetsExt

CONSTANTS
  Files,     \* what may be read: the lengths of the lines, and bytes of a character
  Trees,     \* what a path may lead through: functions from paths to entries
  Asked,     \* paths a tool is asked for
  MaxOut,    \* MAX_TOOL_OUTPUT, in bytes
  MaxHits,   \* of a search
  Threads    \* of a walk

FileToolsAssumption == {MaxOut, MaxHits} \subseteq Nat \ {0}

VARIABLES
  file, offset, shown, lost, size,    \* the reader of a file
  tool, todo, at, hits, extra,        \* a search: what is left, what a thread looks at
  tree                                \* a tree of files

fileVars == <<file, offset, shown, lost, size, tool, todo, at, hits, extra, tree>>
Lines == Len(file.lens)
Hint == 2     \* characters of `[truncated: pass offset=...]'
Finished == -1

----------------------------------------------------------------------------
(***************************************************************************)
(* read                                                                    *)
(***************************************************************************)
Chars(from, n) == FoldSet(LAMBDA i, sum : sum + file.lens[i], 0, from + 1 .. from + n)
Bytes(from, n) == file.width * Chars(from, n)

\* How many lines a page takes: up to the limit, and up to the line that fills it.
Taken(from, limit) ==
  CHOOSE n \in 0..limit :
    /\ from + n <= Lines /\ (n > 0 => Bytes(from, n - 1) < MaxOut)
    /\ n = limit \/ from + n = Lines \/ Bytes(from, n) >= MaxOut
More(from, n) == from + n < Lines
\* What follows the lines: a hint, or the end of the file for who came this far.
Trailer(from, n) == IF More(from, n) \/ from > 0 THEN Hint ELSE 0

\* truncate_middle: as many characters at either end as half the limit has
\* bytes.  The lines (of the page) that it does not leave whole.
CutLines(from, n) ==
  LET total == Chars(from, n) + n - 1 + Trailer(from, n)
      last(i) == Chars(from, i) + i - 1
  IN IF Bytes(from, n) + n - 1 + Trailer(from, n) <= MaxOut THEN {}
     ELSE {i \in 1..n : /\ last(i) > MaxOut \div 2
                        /\ last(i) - file.lens[from + i] < total - MaxOut \div 2}
\* Characters of what is left; a text of wide characters may come out twice.
Out(from, n) ==
  LET total == Chars(from, n) + n - 1 + Trailer(from, n)
  IN IF Bytes(from, n) + n - 1 + Trailer(from, n) <= MaxOut THEN total
     ELSE 2 * Min({total, MaxOut \div 2})

NextOffset(from, n) == IF More(from, n) THEN from + n ELSE Finished

\* read_path_paged, and the model that follows the hint.
ReadPage(limit) ==
  /\ tool = "read" /\ offset # Finished
  /\ LET n == Taken(offset, limit)
         cut == CutLines(offset, n)
     IN /\ shown' = shown \cup {offset + i : i \in (1..n) \ cut}
        /\ lost' = lost \cup {offset + i : i \in cut}
        /\ size' = IF n = 0 THEN 0 ELSE Out(offset, n)
        /\ offset' = NextOffset(offset, n)
  /\ UNCHANGED <<file, tool, todo, at, hits, extra, tree>>

----------------------------------------------------------------------------
(***************************************************************************)
(* glob, find, grep: a tree is a bag of matches per file.                  *)
(***************************************************************************)
Idle == "none"
\* The walker hands a thread the next file.
Walk(t) ==
  /\ tool # "ls" /\ at[t] = Idle
  /\ \E f \in DOMAIN todo :
       at' = [at EXCEPT ![t] = f] /\ todo' = [g \in DOMAIN todo \ {f} |-> todo[g]]
  /\ UNCHANGED <<file, offset, shown, lost, size, tool, hits, extra, tree>>

\* Quit ends the walk for every thread, after the file it is at.
QuitAll(t) ==
  /\ todo' = <<>> /\ at' = [at EXCEPT ![t] = Idle]
Continue(t) == UNCHANGED todo /\ at' = [at EXCEPT ![t] = Idle]

\* glob_blocking: a match beyond the limit is dropped and nobody hears of it.
GlobFile(t) ==
  /\ tool = "glob" /\ at[t] # Idle
  /\ IF hits >= MaxHits THEN QuitAll(t) /\ UNCHANGED hits
     ELSE Continue(t) /\ hits' = hits + 1
  /\ UNCHANGED <<file, offset, shown, lost, size, tool, extra, tree>>

\* find_blocking counts it.
FindFile(t) ==
  /\ tool = "find" /\ at[t] # Idle
  /\ IF hits >= MaxHits THEN QuitAll(t) /\ extra' = extra + 1 /\ UNCHANGED hits
     ELSE Continue(t) /\ hits' = hits + 1 /\ UNCHANGED extra
  /\ UNCHANGED <<file, offset, shown, lost, size, tool, tree>>

\* grep_blocking: no further file when the limit is met, and nobody hears of it;
\* push_line_hits: but one that was begun before is searched to its end.
GrepQuits(t) ==
  /\ tool = "grep" /\ at[t] # Idle /\ hits >= MaxHits /\ QuitAll(t)
  /\ UNCHANGED <<file, offset, shown, lost, size, tool, hits, extra, tree>>
GrepFile(t) ==
  /\ tool = "grep" /\ at[t] # Idle
  /\ LET found == tree[at[t]]
         room == MaxHits - hits
         full == hits + found >= MaxHits
     IN /\ hits' = hits + Min({found, room})
        /\ extra' = extra + found - Min({found, room})
        /\ IF full THEN QuitAll(t) ELSE Continue(t)
  /\ UNCHANGED <<file, offset, shown, lost, size, tool, tree>>

\* ls_blocking: one directory, at once.
ListDir ==
  /\ tool = "ls" /\ todo # <<>> /\ todo' = <<>>
  /\ LET total == Cardinality(DOMAIN todo)
     IN hits' = Min({total, MaxHits}) /\ extra' = total - hits'
  /\ UNCHANGED <<file, offset, shown, lost, size, tool, at, tree>>

----------------------------------------------------------------------------
(***************************************************************************)
(* SandboxedTool::resolve.  A path is a sequence of names from the top; an *)
(* entry is a file or directory, or a link: to a path from the top, or to  *)
(* one from its own directory, up and down.                                *)
(***************************************************************************)
Root == <<"root">>
Inside(p) == IsPrefix(Root, p)
Depth == 4   \* SYMLINK_MAX
NoPath == <<"none">>
IsLink(e) == e # <<>>
Target(e, dir) == IF e[1] = "top" THEN Tail(e) ELSE dir \o Tail(e)

\* normalize_path: a name and the `..' after it go, whatever the name is.
Normalize(p) ==
  FoldLeft(LAMBDA q, n : IF n # ".." THEN Append(q, n) ELSE IF q = <<>> THEN q ELSE Front(q), <<>>, p)

\* The file system's own way through a path: links first, `..' from there.
Real(entries, p) ==
  LET real[d \in 0..Depth, q \in Seq(STRING)] ==
        IF q \in {<<>>, NoPath} THEN q
        ELSE LET up == real[d, Front(q)]
                 here == Append(up, Last(q))
             IN CASE up = NoPath -> NoPath
                  [] Last(q) = ".." -> IF up = <<>> THEN up ELSE Front(up)
                  [] here \in DOMAIN entries /\ IsLink(entries[here]) ->
                       IF d = 0 THEN NoPath ELSE real[d - 1, Target(entries[here], up)]
                  [] OTHER -> here
  IN real[Depth, p]

\* resolve_sandbox_path: a link, be its target there or not, is followed from
\* where the path says it is; what is there and no link is canonicalised; of
\* what is not there the parent is resolved.
Resolve(entries, p) ==
  LET found(q) == Append(Real(entries, Front(q)), Last(q))
      resolve[d \in 0..2 * Depth, path \in Seq(STRING)] ==
        LET q == Normalize(path)
            up == resolve[d - 1, Front(q)]
        IN CASE d = 0 -> NoPath
             [] q = <<>> -> q
             [] found(q) \in DOMAIN entries ->
                  IF IsLink(entries[found(q)]) THEN resolve[d - 1, Target(entries[found(q)], Front(q))]
                  ELSE Real(entries, q)
             [] OTHER -> IF up = NoPath THEN up ELSE Append(up, Last(q))
  IN resolve[2 * Depth, p]
\* execute: inside the root, or the call is refused.
Allowed(entries, p) == Inside(Resolve(entries, p))

----------------------------------------------------------------------------
Init ==
  /\ offset = 0 /\ shown = {} /\ lost = {} /\ size = 0 /\ hits = 0 /\ extra = 0
  /\ at = [t \in Threads |-> Idle] /\ file \in Files
  /\ \/ tool = "read" /\ todo = <<>> /\ tree = <<>>
     \/ tool = "path" /\ todo = <<>> /\ tree \in Trees /\ file = CHOOSE f \in Files : TRUE
     \/ /\ tool \in {"glob", "find", "grep", "ls"} /\ file = CHOOSE f \in Files : TRUE
        /\ tree \in [{"a", "b", "c", "d"} -> 1..2] /\ todo = tree

Next ==
  \/ ListDir \/ \E limit \in 1..3 : ReadPage(limit)
  \/ \E t \in Threads : Walk(t) \/ GlobFile(t) \/ FindFile(t) \/ GrepFile(t) \/ GrepQuits(t)

Spec == Init /\ [][Next]_fileVars

----------------------------------------------------------------------------
TypeOK ==
  /\ offset \in {Finished} \cup 0..Lines /\ {hits, extra, size} \subseteq Nat
  /\ shown \cup lost \subseteq 1..Lines /\ \A t \in Threads : at[t] = Idle \/ at[t] \in DOMAIN tree

Total == FoldSet(LAMBDA f, sum : sum + tree[f], 0, DOMAIN tree)
Searched == tool \in {"find", "grep", "ls"} /\ todo = <<>> /\ \A t \in Threads : at[t] = Idle

\* Who follows the hints of `read' has seen every line of the file, or been
\* told that the middle of its page is cut; a page is no longer than the limit,
\* unless its characters take more bytes than one.  A search that stops early
\* says so, but for `glob', and for `grep' when the file it stopped at was just
\* enough.  A path that is let through leads into the workspace.
PagesTrue ==
  /\ tool = "read" /\ offset = Finished => shown \cup lost = 1..Lines
  /\ file.width = 1 => size <= MaxOut
  /\ hits <= MaxHits
  /\ Searched /\ tool \in {"find", "ls"} => extra > 0 \/ hits = Cardinality(DOMAIN tree)
  /\ Searched /\ tool = "grep" => extra > 0 \/ hits = Total \/ hits = MaxHits
  /\ tool = "path" =>
       \A p \in Asked : Allowed(tree, p) => Inside(Real(tree, Resolve(tree, p)))
=============================================================================
