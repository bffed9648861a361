----------------------------- MODULE MemoryFile -----------------------------
(***************************************************************************)
(* Long-term memory of the local programs: MEMORY.md and failures.md,      *)
(* lists of lines with a size limit, and the copy of what was written in   *)
(* the full-text table of sessions.db.  They are written by the memory     *)
(* tool, whose calls of one batch run on threads of their own, by the      *)
(* review of each turn, and by any other process of the same home; nothing *)
(* locks them.  A writer reads the file, writes it, copies the entry into  *)
(* the table, and reads and writes the file again to compact it.           *)
(***************************************************************************)
EXTENDS Integers, Sequences, FiniteSets, Functions

CONSTANTS
  Facts,        \* entries that may be remembered
  Core,         \* those that begin with [core]
  Secrets,      \* those that look like a credential
  Docs,         \* the files
  Writers,
  Limit,        \* lines a file holds (memory_char_limit)
  MaxWrites     \* bound: calls of writers

VARIABLES
  doc,          \* lines of each file
  table,        \* rows of the table memories: the facts each one mentions
  writer,       \* [step, doc, text, row]: what each writer is about to write
  writes,
  told,         \* facts a caller was told are stored, and none has taken back
  frail         \* facts written to a file only: no row was made of them

memVars == <<doc, table, writer, writes, told, frail>>

Mark == "compacted"      \* the line that says older ones were dropped
Lines == Facts \cup {Mark}

Free == [step |-> "free", doc |-> "", text |-> <<>>, row |-> {}, keeps |-> {}, drops |-> {}]

\* fit_to_limit: the newest lines that fit, under a mark.
Fit(text) ==
  IF Len(text) <= Limit THEN text
  ELSE <<Mark>> \o SubSeq(text, Len(text) - Limit + 1, Len(text))

\* replace(entry, ""): the lines that do not say e, in order.
Retain(text, e) ==
  LET kept[i \in 0..Len(text)] ==
        IF i = 0 THEN <<>>
        ELSE IF text[i] = e THEN kept[i - 1] ELSE Append(kept[i - 1], text[i])
  IN  kept[Len(text)]

\* core_tier of what is read: only the [core] lines when there is one.
Injected(text) ==
  LET lines == Range(Fit(text))
  IN  IF lines \cap Core # {} THEN lines \cap Core ELSE lines

\* What a session started now has in its prompt for its whole life.
Snapshot == UNION {Injected(doc[d]) : d \in Docs}

\* memory_search: the rows that mention the words, then the lines of the files.
InTable(e) == e \in UNION table
InFiles(e) == \E d \in Docs : e \in Range(doc[d])
Found(e) == InTable(e) \/ InFiles(e)

-----------------------------------------------------------------------------
Begin(w, d, text, row, keeps, drops) ==
  /\ writer[w] = Free /\ writes < MaxWrites /\ writes' = writes + 1
  /\ writer' = [writer EXCEPT ![w] =
       [step |-> "write", doc |-> d, text |-> text, row |-> row, keeps |-> keeps, drops |-> drops]]
  /\ UNCHANGED <<doc, table, told, frail>>

\* A line that is there already is not written again.
AddNothing(w, d, e) ==
  /\ writer[w] = Free /\ writes < MaxWrites /\ writes' = writes + 1
  /\ e \notin Secrets /\ e \in Range(doc[d])
  /\ told' = told \cup {e}
  /\ UNCHANGED <<doc, table, writer, frail>>

\* op "add", and record_failure for the file of failures.
Add(w, d, e) ==
  /\ e \notin Secrets /\ e \notin Range(doc[d])
  /\ Begin(w, d, Append(doc[d], e), {e}, {e}, {})

\* op "replace" with OLD ||| NEW: the first line that says OLD, or none.
Replace(w, d, old, new) ==
  /\ {old, new} \cap Secrets = {} /\ old # new
  /\ LET says == {i \in DOMAIN doc[d] : doc[d][i] = old}
     IN  \/ says = {} /\ Begin(w, d, doc[d], {old, new}, {}, {})
         \/ \E at \in says :
              /\ \A i \in says : at <= i
              /\ Begin(w, d, [doc[d] EXCEPT ![at] = new], {old, new}, {new}, {old})

\* op "replace" without |||: the entry becomes the file.
ReplaceFile(w, d, e) ==
  e \notin Secrets /\ Begin(w, d, <<e>>, {e}, {e}, {})

\* op "remove": each occurrence; the table has the words all the same.
RemoveLines(w, d, e) ==
  e \notin Secrets /\ Begin(w, d, Retain(doc[d], e), {e}, {}, {e})

Write(w) ==
  /\ writer[w].step = "write"
  /\ doc' = [doc EXCEPT ![writer[w].doc] = writer[w].text]
  /\ writer' = [writer EXCEPT ![w].step = "mirror"]
  /\ told' = told \ writer[w].drops
  /\ UNCHANGED <<table, writes, frail>>

\* mirror_memory: a row that cannot be written is a line in the log.
Mirror(w) ==
  /\ writer[w].step = "mirror"
  /\ \/ table' = table \cup {writer[w].row} /\ frail' = frail \ writer[w].row
     \/ frail' = frail \cup (writer[w].row \ UNION table) /\ UNCHANGED table
  /\ writer' = [writer EXCEPT ![w].step = "fit"]
  /\ UNCHANGED <<doc, writes, told>>

\* compact_file: read, and write when something fell out.
ReadAgain(w) ==
  /\ writer[w].step = "fit"
  /\ LET text == doc[writer[w].doc]
     IN  IF Fit(text) = text
         THEN writer' = [writer EXCEPT ![w].step = "done"]
         ELSE writer' = [writer EXCEPT ![w].step = "compact", ![w].text = Fit(text)]
  /\ UNCHANGED <<doc, table, writes, told, frail>>

Compact(w) ==
  /\ writer[w].step = "compact"
  /\ doc' = [doc EXCEPT ![writer[w].doc] = writer[w].text]
  /\ writer' = [writer EXCEPT ![w].step = "done"]
  /\ UNCHANGED <<table, writes, told, frail>>

\* "memory updated (live)": the caller has its answer.
Answer(w) ==
  /\ writer[w].step = "done"
  /\ told' = told \cup (writer[w].keeps)
  /\ writer' = [writer EXCEPT ![w] = Free]
  /\ UNCHANGED <<doc, table, writes, frail>>

Crash(w) ==
  /\ writer[w] # Free
  /\ writer' = [writer EXCEPT ![w] = Free]
  /\ frail' = IF writer[w].step = "mirror" THEN frail \cup (writer[w].row \ UNION table)
              ELSE frail
  /\ UNCHANGED <<doc, table, writes, told>>

EditByHand ==
  /\ writes < MaxWrites /\ writes' = writes + 1
  /\ \E d \in Docs, e \in Facts :
       /\ e \notin Range(doc[d])
       /\ doc' = [doc EXCEPT ![d] = Append(@, e)] /\ told' = told \cup {e}
       /\ frail' = frail \cup ({e} \ UNION table)
  /\ UNCHANGED <<table, writer>>

Init ==
  /\ doc = [d \in Docs |-> <<>>] /\ table = {}
  /\ writer = [w \in Writers |-> Free] /\ writes = 0
  /\ told = {} /\ frail = {}

Next ==
  \/ \E w \in Writers :
       \/ \E d \in Docs, e \in Facts :
            \/ AddNothing(w, d, e) \/ Add(w, d, e) \/ ReplaceFile(w, d, e) \/ RemoveLines(w, d, e)
            \/ \E new \in Facts : Replace(w, d, e, new)
       \/ Write(w) \/ Mirror(w) \/ ReadAgain(w) \/ Compact(w) \/ Answer(w) \/ Crash(w)
  \/ EditByHand

Spec == Init /\ [][Next]_memVars

-----------------------------------------------------------------------------
TypeOK ==
  /\ \A d \in Docs : Range(doc[d]) \subseteq Lines
  /\ table \subseteq SUBSET Facts /\ told \cup frail \subseteq Facts /\ writes \in 0..MaxWrites
  /\ \A w \in Writers :
       writer[w].step \in {"free", "write", "mirror", "fit", "compact", "done"}

\* When no writer is at work, a fact somebody was told is stored, and nobody
\* has taken back since, is in the prompt of a session started now or is found
\* by memory_search, although writers overwrite each other's lines, compaction
\* drops the oldest, and the prompt shows the core tier only.  What may be lost
\* is a fact no row was made of: its writer died, the table could not be
\* written, or the user wrote it into the file.
FactsReachable ==
  (\A w \in Writers : writer[w] = Free) =>
    \A e \in told \ frail : e \in Snapshot \/ Found(e)
=============================================================================
