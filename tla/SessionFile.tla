---------------------------- MODULE SessionFile -----------------------------
(***************************************************************************)
(* The three shapes of a local conversation and the ways between them: the *)
(* open SessionTree, the rows of its session in sessions.db, and a JSONL   *)
(* file (export_tree_jsonl, import_jsonl).  What a message is made of is   *)
(* modelled block by block, for each way keeps other blocks; when a turn   *)
(* is saved, and what a crash or a summary does, is SessionHost's matter,  *)
(* so that here a turn is said and saved in one step.                      *)
(*                                                                         *)
(* A block is [kind, of, nr]: the nr-th of its kind in message number of;  *)
(* a result has the numbers of its call.  Nodes are numbered in the order  *)
(* of created_at, lines by their place.  A parent is 0 for none and -1 for *)
(* an entry that is no message.  told, in a session and in a file, is what *)
(* was said in the conversation, block by block: the code has no such      *)
(* record, the property compares with it.  A session is read back up to a  *)
(* number of rows, the oldest first; what is made of a tree or of rows     *)
(* that were read in part tells that part.                                 *)
(***************************************************************************)
EXTENDS Integers, Sequences, FiniteSets, SequencesExt

CONSTANTS
  Asks, Replies, \* kinds of blocks of a prompt, and of an answer without calls
  Callings,      \* kinds of blocks of an answer with calls
  Answers,       \* kinds of blocks that may follow the results of a batch
  Foreign,       \* files that another program wrote
  Dirs, SessionIds,
  ListMax,       \* sessions that list_sessions is asked for (200 in the code)
  ResumeListMax, \* the same, of the TUI's /resume (100)
  ReadMax,       \* rows that session_records is asked for (10,000 in the code)
  ResumeReadMax, \* the same, of the TUI's /resume (500)
  MaxTurns,      \* bound: turns said in one conversation
  MaxMade        \* bound: sessions in the table

VARIABLES
  store,  \* the sessions, the one that was updated last at the end
  open,   \* the open session: its id, nodes and cursor (the leaf, 0 if none)
  page,   \* a JSONL file
  cut     \* of "open" and "page", those whose path was cut short: by a line that
          \* names no message as its parent, or by ReadMax (for the property)

sfVars == <<store, open, page, cut>>

Said(n, role, kinds) ==
  [role |-> role,
   has  |-> [i \in 1..Len(kinds) |->
               [kind |-> kinds[i], of |-> n,
                nr |-> Cardinality({j \in 1..i : kinds[j] = kinds[i]})]]]

AnyBlock ==
  [kind : {"text", "image", "thought", "secret", "call", "result"}, of : Nat, nr : Nat]

\* The blocks that are in S, in their order.
Only(has, S) ==
  FlattenSeq([i \in 1..Len(has) |-> IF has[i] \in S THEN <<has[i]>> ELSE <<>>])

OfKind(has, kinds) == Only(has, {b \in AnyBlock : b.kind \in kinds})
\* A block that no way may lose: a file has neither images nor encrypted
\* thoughts, and only the first result of a batch stays on the path.
Lasting ==
  {b \in AnyBlock : \/ b.kind \in {"text", "thought", "call"}
                    \/ b.kind = "result" /\ b.nr = 1}

Blocks(msgs) == FlattenSeq([i \in 1..Len(msgs) |-> msgs[i].has])
Node(m, up) == [role |-> m.role, has |-> m.has, up |-> up]

Chain(nodes, leaf) ==
  LET up[n \in -1..Len(nodes)] == IF n < 1 THEN <<>> ELSE Append(up[nodes[n].up], n)
  IN  up[leaf]

\* goto_node gives up on a way to the root that meets an entry not in the tree.
Whole(nodes, leaf) == \A n \in ToSet(Chain(nodes, leaf)) : nodes[n].up # -1

Path(t) == LET c == Chain(t.nodes, t.at) IN [i \in 1..Len(c) |-> t.nodes[c[i]]]

\* push_with_id: each message under the one before.
Under(nodes, leaf, msgs) ==
  nodes \o [i \in 1..Len(msgs) |-> Node(msgs[i], IF i = 1 THEN leaf ELSE Len(nodes) + i - 1)]

Linear(msgs) == [nodes |-> Under(<<>>, 0, msgs), at |-> Len(msgs)]

-----------------------------------------------------------------------------
(* The file *)

\* One line for each message, and one for each result of a batch; no image and
\* no encrypted thought is written.
Entries(m) ==
  IF m.role = "tool"
  THEN LET rs == OfKind(m.has, {"result"})
       IN  [i \in 1..Len(rs) |-> [role |-> "tool", has |-> <<rs[i]>>]]
  ELSE <<[role |-> m.role, has |-> OfKind(m.has, {"text", "thought", "call"})]>>

FirstLine(nodes, n) == 1 + Len(FlattenSeq([i \in 1..(n - 1) |-> Entries(nodes[i])]))

\* Each node under its parent's first line, a root under the line before it, and
\* the further results of a batch under one another: nothing is under the last.
Lines(nodes) ==
  FlattenSeq([n \in 1..Len(nodes) |->
    LET es == Entries(nodes[n])
        at == FirstLine(nodes, n)
        up == IF nodes[n].up > 0 THEN FirstLine(nodes, nodes[n].up) ELSE at - 1
    IN  [i \in 1..Len(es) |-> Node(es[i], IF i = 1 THEN up ELSE at + i - 2)]])

\* pi_message_to_rupi: of a prompt its text is read, of a result the text and
\* the call, of an answer its text, thoughts and calls.
Parsed(line) ==
  [line EXCEPT !.has = OfKind(@, CASE line.role = "user" -> {"text"}
                                   [] line.role = "tool" -> {"result"}
                                   [] OTHER -> {"text", "thought", "call"})]

\* import_jsonl puts the cursor on the last line, if it can be reached.
Read(lines) ==
  [nodes |-> [i \in 1..Len(lines) |-> Parsed(lines[i])],
   at |-> IF Whole(lines, Len(lines)) THEN Len(lines) ELSE 0]

\* remap_tree: new ids; an unknown parent is none, and without a cursor any
\* node is taken.
Copies(t) ==
  LET nodes == [n \in 1..Len(t.nodes) |->
                  Node(t.nodes[n], IF t.nodes[n].up = -1 THEN 0 ELSE t.nodes[n].up)]
  IN  {[nodes |-> nodes, at |-> a] : a \in IF t.at = 0 THEN 1..Len(nodes) ELSE {t.at}}

\* The copy of /fork and --fork has the path alone.
Forked(t) == Linear(Path(t))

\* What a message of each role is made of: the results of a batch come first,
\* and only the first of them is numbered 1.
Fits(m) ==
  /\ m.has \in Seq(AnyBlock)
  /\ \/ m.role = "user" /\ \A i \in 1..Len(m.has) : m.has[i].kind \in {"text", "image"}
     \/ /\ m.role = "assistant"
        /\ \A i \in 1..Len(m.has) : m.has[i].kind \in {"text", "thought", "secret", "call"}
     \/ /\ m.role = "tool" /\ m.has # <<>> /\ m.has[1].kind = "result"
        /\ \A i \in 2..Len(m.has) :
             m.has[i].kind = "image" \/ (m.has[i].kind = "result" /\ m.has[i].nr # 1)

Anyhow == [role : {"user", "assistant", "tool"}, has : Seq(AnyBlock), up : Int]

\* A file that tells what was said: each line is read as a message, and all that
\* lasts of it is read once.
Telling(f) ==
  LET t == Read(f.lines)
  IN  /\ f.lines \in Seq(Anyhow) /\ f.told \in Seq(AnyBlock) /\ f.filed \subseteq {"file", "fork"}
      /\ \A l \in 1..Len(f.lines) : f.lines[l].up \in -1..(l - 1) /\ Fits(t.nodes[l])
      /\ "file" \in f.filed
      /\ Only(Blocks(t.nodes), Lasting) = Only(f.told, Lasting)
      /\ "fork" \notin f.filed => OfKind(Blocks(t.nodes), {"result"}) = OfKind(f.told, {"result"})

\* Beside the way from its last line to the first there is nothing that lasts.
OneWay(lines) ==
  Read(lines).at # 0 =>
    \A l \in 1..Len(lines) \ ToSet(Chain(lines, Len(lines))) :
      ToSet(Parsed(lines[l]).has) \cap Lasting = {}

SessionFileAssumption ==
  /\ {ReadMax, ResumeReadMax} \subseteq Nat \ {0}
  /\ Asks \subseteq Seq({"text", "image"})
  /\ Replies \subseteq Seq({"text", "thought", "secret"})
  /\ Callings \subseteq Seq({"text", "thought", "secret", "call"})
  /\ \A c \in Callings : "call" \in ToSet(c)
  /\ Answers \subseteq Seq({"image"})
  /\ \A f \in Foreign : /\ f \in [lines : Seq(Anyhow), told : Seq(AnyBlock), filed : SUBSET {"file", "fork"}]
                        /\ Telling(f) /\ OneWay(f.lines)

-----------------------------------------------------------------------------
(* The table *)

At(id) == CHOOSE i \in 1..Len(store) : store[i].id = id
Known(id) == \E i \in 1..Len(store) : store[i].id = id

\* session_records: the oldest rows, in the order they were written, as a tree.
FromTable(id, most) ==
  LET rows == store[At(id)].rows
  IN  Linear([i \in 1..(IF Len(rows) < most THEN Len(rows) ELSE most) |-> rows[i]])

TooLong(id, most) == Len(store[At(id)].rows) > most

Cut(place, short) == cut' = IF short THEN cut \cup {place} ELSE cut \ {place}

\* What a tree that was read in part tells of the session.
Tale(s, nodes, short) == IF short THEN Blocks(nodes) ELSE s.told

\* list_sessions
Newest(s, n) == {s[i].id : i \in {j \in 1..Len(s) : j > Len(s) - n}}

\* The one id of the list that ref begins.
Begun(ref, most) ==
  LET hits == {id \in Newest(store, most) : IsPrefix(ref, id)}
  IN  IF Cardinality(hits) = 1 THEN hits ELSE {}

\* resolve_session_ref: the whole id comes first.
Resolve(ref) == IF Known(ref) THEN {ref} ELSE Begun(ref, ListMax)

Latest(dir) ==
  LET here == {i \in 1..Len(store) : store[i].cwd = dir}
      from == IF here = {} THEN 1..Len(store) ELSE here
  IN  {store[i].id : i \in {j \in from : \A k \in from : k <= j}}

\* create_session_ex and persist_tree, in a row of its own; the copy is open.
Adopt(t, dir, told, filed) ==
  /\ Len(store) < MaxMade
  /\ \E id \in SessionIds :
       /\ ~Known(id)
       /\ store' = Append(store, [id |-> id, cwd |-> dir, told |-> told, filed |-> filed,
                                  rows |-> [n \in 1..Len(t.nodes) |->
                                              [role |-> t.nodes[n].role, has |-> t.nodes[n].has]]])
       /\ open' = [id |-> id, nodes |-> t.nodes, at |-> t.at]

-----------------------------------------------------------------------------
(* Operations *)

NextNr(told) == IF told = <<>> THEN 0 ELSE Last(told).of + 1

\* A turn, with or without calls, and its rows (persist_turn: one transaction).
Turn(ask, calling, extra, reply) ==
  LET s == store[At(open.id)]
      n == NextNr(s.told)
      results == [i \in 1..Len(OfKind(Said(n + 1, "assistant", calling).has, {"call"})) |-> "result"]
      with == IF calling = <<>> THEN <<>>
              ELSE <<Said(n + 1, "assistant", calling), Said(n + 1, "tool", results \o extra)>>
      msgs == <<Said(n, "user", ask)>> \o with \o <<Said(n + 2, "assistant", reply)>>
  IN  /\ n < 3 * MaxTurns
      /\ open' = [open EXCEPT !.nodes = Under(open.nodes, open.at, msgs),
                              !.at = Len(open.nodes) + Len(msgs)]
      /\ store' = Append(RemoveAt(store, At(open.id)),
                         [s EXCEPT !.rows = @ \o msgs, !.told = @ \o Blocks(msgs)])
      /\ UNCHANGED <<page, cut>>

\* /export writes the open tree, --export and the RPC the rows of a session.
Export(nodes, s, told) ==
  /\ nodes # <<>>
  /\ page' = [lines |-> Lines(nodes), told |-> told, filed |-> {"file"} \cup s.filed]
  /\ UNCHANGED <<store, open>>

ExportOpen ==
  LET s == store[At(open.id)]
  IN  /\ Export(open.nodes, s, Tale(s, open.nodes, "open" \in cut))
      /\ Cut("page", "open" \in cut)

ExportStored(id) ==
  LET s == store[At(id)] t == FromTable(id, ReadMax)
  IN  /\ Known(id)
      /\ Export(t.nodes, s, Tale(s, t.nodes, TooLong(id, ReadMax)))
      /\ Cut("page", FALSE)

\* /import, --session <file>; "jsonl contained no messages" is an error.
Import(dir) ==
  /\ page.lines # <<>>
  /\ LET t == Read(page.lines)
     IN  /\ \E c \in Copies(t) : Adopt(c, dir, page.told, page.filed)
         /\ Cut("open", t.at = 0 \/ "page" \in cut)
  /\ UNCHANGED page

\* --fork <file> copies the path of the file, if it has one.
ForkFile(dir) ==
  /\ page.lines # <<>>
  /\ Adopt(Forked(Read(page.lines)), dir,
           IF Read(page.lines).at = 0 \/ "page" \in cut
           THEN Blocks(Path(Read(page.lines))) ELSE page.told,
           {"fork"} \cup page.filed)
  /\ Cut("open", FALSE)
  /\ UNCHANGED page

Reopen(ids, most) ==
  \E id \in ids :
    LET t == FromTable(id, most)
    IN  /\ open' = [id |-> id, nodes |-> t.nodes, at |-> t.at]
        /\ Cut("open", TooLong(id, most))
        /\ UNCHANGED <<store, page>>

\* The TUI's /resume: another session than the open one, of a shorter list and
\* read to a lower limit.
Resume(ref) == Reopen(Begun(ref, ResumeListMax) \ {open.id}, ResumeReadMax)

\* --fork <id>: restore_tree first.
ForkStored(ref, dir) ==
  /\ \E id \in Resolve(ref) :
       LET s == store[At(id)] t == FromTable(id, ReadMax)
       IN  Adopt(Forked(t), dir, Tale(s, t.nodes, TooLong(id, ReadMax)), s.filed)
  /\ Cut("open", FALSE)
  /\ UNCHANGED page

\* /clone copies the open tree, /fork its path (duplicate_session).
Clone(dir) ==
  LET s == store[At(open.id)]
  IN  /\ open.nodes # <<>>
      /\ \E t \in Copies(open) :
           Adopt(t, dir, Tale(s, open.nodes, "open" \in cut), s.filed)
      /\ UNCHANGED <<page, cut>>

Fork(dir) ==
  LET s == store[At(open.id)]
  IN  /\ Adopt(Forked(open), dir, Tale(s, Path(open), "open" \in cut),
                s.filed \cup IF s.filed = {} THEN {} ELSE {"fork"})
      /\ Cut("open", FALSE)
      /\ UNCHANGED page

NewSession(dir) ==
  /\ Adopt(Linear(<<>>), dir, <<>>, {})
  /\ Cut("open", FALSE)
  /\ UNCHANGED page

Init ==
  /\ \E id \in SessionIds, dir \in Dirs :
       /\ store = <<[id |-> id, cwd |-> dir, told |-> <<>>, filed |-> {}, rows |-> <<>>]>>
       /\ open = [id |-> id, nodes |-> <<>>, at |-> 0]
  /\ page \in Foreign \cup {[lines |-> <<>>, told |-> <<>>, filed |-> {"file"}]}
  /\ cut = {}

References == UNION {Prefixes(id) : id \in SessionIds} \ {<<>>}

Next ==
  \/ \E a \in Asks, c \in Callings \cup {<<>>}, x \in Answers, r \in Replies : Turn(a, c, x, r)
  \/ ExportOpen
  \/ \E id \in SessionIds : ExportStored(id)
  \/ \E d \in Dirs :
       \/ Import(d) \/ ForkFile(d) \/ Clone(d) \/ Fork(d) \/ NewSession(d)
       \/ Reopen(Latest(d), ReadMax)
  \/ \E ref \in References : \/ Reopen(Resolve(ref), ReadMax)
                            \/ Resume(ref)
                            \/ \E d \in Dirs : ForkStored(ref, d)

Spec == Init /\ [][Next]_sfVars

-----------------------------------------------------------------------------
(* Properties *)

TypeOK ==
  /\ Known(open.id)
  /\ open.at \in 0..Len(open.nodes)
  /\ \A n \in 1..Len(open.nodes) : open.nodes[n].up \in 0..(n - 1)
  /\ IsInjective([i \in 1..Len(store) |-> store[i].id])

\* Whatever a conversation went through - exported, imported, forked, left and
\* opened again, in any order and many times - all its text, thoughts, calls
\* and first results are saved, and are what the model is sent next, in the
\* order they were said, once; a conversation that never was in a file is saved
\* and open whole; a result is lost for good only where the path of a file was
\* forked; and the open path is cut short only by an imported file that names
\* an entry as a parent that is no message, or by the limit of session_records.
\* The rows past that limit, the newest, stay in the table, unseen at every
\* reopening; a copy, a file or a fork made of such a reading is held to what
\* was read.
StoryKept ==
  LET s == store[At(open.id)]
      now == Blocks(Path(open))
      rows == Blocks(s.rows)
  IN  /\ Only(rows, Lasting) = Only(s.told, Lasting)
      /\ "open" \notin cut => Only(now, Lasting) = Only(s.told, Lasting)
      /\ s.filed = {} => rows = s.told /\ ("open" \notin cut => now = s.told)
      /\ "fork" \notin s.filed => OfKind(s.told, {"result"}) = OfKind(rows, {"result"})
      /\ ToSet(now) \subseteq ToSet(rows)

=============================================================================
