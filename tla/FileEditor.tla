----------------------------- MODULE FileEditor -----------------------------
(***************************************************************************)
(* The file editor of the terminal (/edit, Ctrl-E): one buffer at a time,  *)
(* opened from a path below the directory the program was started in.      *)
(* Other programs use the same files.  A file's text is a sequence of      *)
(* letters, "cr" and "lf"; where a line ends, and that a file comes back   *)
(* with the ends it had, is part of what the properties are about.         *)
(***************************************************************************)
EXTENDS Integers, Sequences, FiniteSets, SequencesExt, FiniteSetsExt

CONSTANTS
  Paths,       \* what a person may type for a path
  Originals,   \* texts a file may have before it is opened
  Pastes,      \* what may be pasted
  MaxBytes,    \* MAX_BYTES
  MaxMeddled   \* bound: changes made by other programs

FileEditorAssumption == {MaxBytes, MaxMeddled} \subseteq Nat

VARIABLES
  onDisk,   \* by path: [is, text]
  leads,    \* by path: "inside" the directory, or "outside" or through a file
  ed,       \* run_loop's editor, an Option<FileEditor>
  base,     \* the file as read or written last, while the buffer has no edits
  warned,   \* the lines for which "Esc again to discard" was shown last
  dropped,  \* edits were thrown away for which it had not been shown
  strayed,  \* something outside the directory was written
  meddled

editorVars == <<onDisk, leads, ed, base, warned, dropped, strayed, meddled>>

Kinds == {"text", "nothing", "folder", "binary"}
Closed == [on |-> "closed", path |-> "", lines |-> <<>>, row |-> 1, col |-> 0, dirty |-> FALSE,
           created |-> FALSE, crlf |-> FALSE, confirm |-> FALSE]
Prompt(hint) == [Closed EXCEPT !.on = "prompt", !.path = hint, !.lines = <<<<>>>>]

-----------------------------------------------------------------------------
\* The text with "lf" for every end of a line.
Plain(text) ==
  FlattenSeq([i \in DOMAIN text |->
    IF text[i] = "cr" THEN IF i < Len(text) /\ text[i + 1] = "lf" THEN <<>> ELSE <<"lf">>
    ELSE <<text[i]>>])

SplitLines(text) ==
  LET p == Plain(text)
      ends == <<0>> \o SetToSortSeq({i \in DOMAIN p : p[i] = "lf"}, <) \o <<Len(p) + 1>>
  IN  [k \in 1 .. Len(ends) - 1 |-> SubSeq(p, ends[k] + 1, ends[k + 1] - 1)]

JoinLines(lines, crlf) ==
  LET end == IF crlf THEN <<"cr", "lf">> ELSE <<"lf">>
  IN  FlattenSeq([k \in DOMAIN lines |-> IF k = 1 THEN lines[k] ELSE end \o lines[k]])

HasCrlf(text) == \E i \in 1 .. Len(text) - 1 : text[i] = "cr" /\ text[i + 1] = "lf"
Text(e) == JoinLines(e.lines, e.crlf)

\* resolve_workspace_path
Resolves(p) == p # "" /\ leads[p] = "inside"

\* open: a path within the directory, no directory itself, not too large, text.
Opens(p) ==
  /\ Resolves(p)
  /\ onDisk[p].is \in {"nothing", "text"} /\ Len(onDisk[p].text) <= MaxBytes

Opened(p) ==
  [Closed EXCEPT !.on = "file", !.path = p, !.lines = SplitLines(onDisk[p].text),
                 !.created = onDisk[p].is = "nothing", !.crlf = HasCrlf(onDisk[p].text)]

Line(e) == e.lines[e.row]
Edited(e, lines, row, col) ==
  [e EXCEPT !.lines = lines, !.row = row, !.col = col, !.dirty = TRUE, !.confirm = FALSE]
Joined(e, k) == RemoveAt(ReplaceAt(e.lines, k, e.lines[k] \o e.lines[k + 1]), k + 1)

InsertChar(e, c) ==
  Edited(e, ReplaceAt(e.lines, e.row, InsertAt(Line(e), e.col + 1, c)), e.row, e.col + 1)

Newline(e) ==
  LET left == SubSeq(Line(e), 1, e.col)
      right == SubSeq(Line(e), e.col + 1, Len(Line(e)))
  IN  Edited(e, InsertAt(ReplaceAt(e.lines, e.row, left), e.row + 1, right), e.row + 1, 0)

\* A paste: "cr" is left out, "lf" is a new line.
InsertStr(e, s) ==
  FoldLeft(LAMBDA d, c : IF c = "cr" THEN d ELSE IF c = "lf" THEN Newline(d) ELSE InsertChar(d, c),
           e, s)

Backspace(e) ==
  CASE e.col > 0 -> Edited(e, ReplaceAt(e.lines, e.row, RemoveAt(Line(e), e.col)), e.row, e.col - 1)
    [] e.col = 0 /\ e.row > 1 -> Edited(e, Joined(e, e.row - 1), e.row - 1, Len(e.lines[e.row - 1]))
    [] OTHER -> [e EXCEPT !.confirm = FALSE]

Delete(e) ==
  CASE e.col < Len(Line(e)) ->
         Edited(e, ReplaceAt(e.lines, e.row, RemoveAt(Line(e), e.col + 1)), e.row, e.col)
    [] e.col >= Len(Line(e)) /\ e.row < Len(e.lines) -> Edited(e, Joined(e, e.row), e.row, e.col)
    [] OTHER -> [e EXCEPT !.confirm = FALSE]

\* page_by with a page of 10 lines, and a column within the line arrived at.
To(e, row) ==
  LET r == Max({1, Min({row, Len(e.lines)})}) IN
  [e EXCEPT !.row = r, !.col = Min({e.col, Len(e.lines[r])})]

\* Left and right go on to the line before and the line after.
Moved(e, key) ==
  CASE key = "left" /\ e.col > 0 -> [e EXCEPT !.col = @ - 1]
    [] key = "left" /\ e.col = 0 /\ e.row > 1 ->
         [e EXCEPT !.row = @ - 1, !.col = Len(e.lines[e.row - 1])]
    [] key = "right" /\ e.col < Len(Line(e)) -> [e EXCEPT !.col = @ + 1]
    [] key = "right" /\ e.col >= Len(Line(e)) /\ e.row < Len(e.lines) ->
         [e EXCEPT !.row = @ + 1, !.col = 0]
    [] key = "up" -> To(e, e.row - 1)
    [] key = "down" -> To(e, e.row + 1)
    [] key = "home" -> [e EXCEPT !.col = 0]
    [] key = "end" -> [e EXCEPT !.col = Len(Line(e))]
    [] key = "page up" -> To(e, e.row - 10)
    [] key = "page down" -> To(e, e.row + 10)
    [] OTHER -> e

-----------------------------------------------------------------------------
Keep == UNCHANGED <<onDisk, leads, strayed, meddled>>

\* The editor becomes e; what it held is gone unless it was saved.
Becomes(e) ==
  /\ ed' = e
  /\ dropped' = (dropped \/ (ed.dirty /\ ~(ed.confirm /\ ed.lines = warned)))
  /\ warned' = <<>>

\* /edit and Ctrl-E: from_hint.
Edit(hint) ==
  /\ ed.on = "closed" /\ (hint = "" \/ Opens(hint))
  /\ Becomes(IF hint = "" THEN Prompt("") ELSE Opened(hint))
  /\ base' = IF hint = "" THEN <<>> ELSE onDisk[hint].text
  /\ Keep

\* handle_prompt_key: the path is typed, pasted or taken back.
TypePath(p) ==
  /\ ed.on = "prompt" /\ ed' = [ed EXCEPT !.path = p, !.confirm = FALSE]
  /\ UNCHANGED <<base, warned, dropped>> /\ Keep

PromptEnter ==
  /\ ed.on = "prompt" /\ Opens(ed.path)
  /\ Becomes(Opened(ed.path)) /\ base' = onDisk[ed.path].text
  /\ Keep

\* handle_key and insert_str, the keys that change the buffer or move in it.
Key ==
  /\ ed.on = "file"
  /\ \/ \E s \in Pastes : ed' = InsertStr(ed, s)
     \/ ed' = Newline(ed)
     \/ ed' = Backspace(ed)
     \/ ed' = Delete(ed)
     \/ \E key \in {"left", "right", "up", "down", "home", "end", "page up", "page down"} :
          ed' = Moved(ed, key)
  /\ Len(Text(ed')) <= MaxBytes + 1
  /\ warned' = (IF ed'.confirm THEN warned ELSE <<>>)
  /\ base' = (IF ed'.dirty THEN <<>> ELSE base)
  /\ UNCHANGED dropped /\ Keep

\* Ctrl-S: resolved again, then written to the path that open found.  A write
\* that fails has made the file shorter; on a directory it does nothing.
Save ==
  /\ ed.on = "file" /\ Resolves(ed.path)
  /\ Len(Text(ed)) <= MaxBytes /\ onDisk[ed.path].is # "folder"
  /\ \/ /\ onDisk' = [onDisk EXCEPT ![ed.path] = [is |-> "text", text |-> Text(ed)]]
        /\ ed' = [ed EXCEPT !.dirty = FALSE, !.created = FALSE, !.confirm = FALSE]
        /\ base' = Text(ed) /\ warned' = <<>>
     \/ /\ \E n \in 0 .. Len(Text(ed)) :
             onDisk' = [onDisk EXCEPT ![ed.path] = [is |-> "text", text |-> SubSeq(Text(ed), 1, n)]]
        /\ UNCHANGED <<ed, base, warned>>
  /\ strayed' = (strayed \/ leads[ed.path] = "outside")
  /\ UNCHANGED <<leads, dropped, meddled>>

\* Esc and Ctrl-Q: a buffer with edits is closed when asked a second time.
RequestClose ==
  /\ ed.on # "closed"
  /\ IF ed.on = "file" /\ ed.dirty /\ ~ed.confirm
     THEN ed' = [ed EXCEPT !.confirm = TRUE] /\ warned' = ed.lines /\ UNCHANGED <<base, dropped>>
     ELSE Becomes(Closed) /\ base' = <<>>
  /\ Keep

\* Another program writes, removes or replaces a file, or puts a link or a file
\* where a directory of the path was.
Meddle(p) ==
  /\ meddled < MaxMeddled /\ meddled' = meddled + 1
  /\ \/ /\ \E is \in Kinds, t \in Originals :
             onDisk' = [onDisk EXCEPT ![p] = [is |-> is, text |-> IF is = "text" THEN t ELSE <<>>]]
        /\ UNCHANGED leads
     \/ /\ \E where \in {"inside", "outside"} :
             leads' = [leads EXCEPT ![p] = where]
        /\ UNCHANGED onDisk
  /\ UNCHANGED <<ed, base, warned, dropped, strayed>>

Init ==
  /\ onDisk \in [Paths -> {[is |-> "text", text |-> t] : t \in Originals}
                           \cup {[is |-> "nothing", text |-> <<>>]}]
  /\ leads = [p \in Paths |-> "inside"]
  /\ ed = Closed /\ base = <<>> /\ warned = <<>>
  /\ dropped = FALSE /\ strayed = FALSE /\ meddled = 0

Next ==
  \/ \E p \in Paths \cup {""} : Edit(p) \/ TypePath(p)
  \/ PromptEnter \/ Key \/ Save \/ RequestClose
  \/ \E p \in Paths : Meddle(p)

Spec == Init /\ [][Next]_editorVars

TypeOK ==
  /\ \A p \in Paths : onDisk[p].is \in Kinds /\ leads[p] \in {"inside", "outside"}
  /\ ed.on \in {"closed", "prompt", "file"}
  /\ {ed.dirty, ed.created, ed.crlf, ed.confirm, dropped, strayed} \subseteq BOOLEAN
  /\ ed.path \in Paths \cup {""} /\ meddled \in 0..MaxMeddled

\* Every end of a line is written alike.
Uniform(text) == JoinLines(SplitLines(text), HasCrlf(text)) = text

(***************************************************************************)
(* The buffer holds what was typed until it is saved or the person, told   *)
(* that there are edits, asks once more with no edit in between            *)
(* (request_close).  The cursor stays in the text whatever keys join, cut  *)
(* or leave its line (an index outside it is a panic).  A buffer that is   *)
(* not marked as edited is the file as last read or written, to the byte   *)
(* when its lines all end alike (split_lines, join_lines).  Nothing outside*)
(* the directory is written, also when the path has changed its meaning    *)
(* since it was opened (save).  Ctrl-C, which ends the program, is left    *)
(* out: it asks nobody.                                                    *)
(***************************************************************************)
BufferKept ==
  /\ ~dropped /\ ~strayed
  /\ ed.on = "file" => ed.row \in DOMAIN ed.lines /\ ed.col \in 0 .. Len(Line(ed))
  /\ ed.on = "file" /\ ed.confirm => ed.dirty /\ ed.lines = warned
  /\ ed.on = "file" /\ ~ed.dirty =>
       ed.lines = SplitLines(base) /\ (Uniform(base) => Text(ed) = base)

=============================================================================
