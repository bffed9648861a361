---------------------------- MODULE SessionHost -----------------------------
(***************************************************************************)
(* The local session: the tree of messages with its cursor and summary     *)
(* (SessionTree), the table of messages and sessions it is saved in        *)
(* (SessionStore), the JSONL file it travels in, and the three hosts that  *)
(* decide when what is saved: the prompt loop ("repl"), one prompt and out *)
(* ("run"), and the JSONL service on standard input ("rpc").               *)
(*                                                                         *)
(* Node ids grow in the order of creation, so that "sorted by created_at"  *)
(* is the order of the ids, a path is the set of the ancestors of its      *)
(* leaf, and the rows of a session are a set.  A node keeps its message    *)
(* under a new id when a tree is copied: of[id] is the message.  A summary *)
(* is the set of the messages its text was made from (cov, {} when there   *)
(* is none) and the node it reaches to (thr).                              *)
(***************************************************************************)
EXTENDS Integers, Sequences, FiniteSets

CONSTANTS
  Hosts,        \* hosts to run: a subset of {"repl", "run", "rpc"}
  Faults,       \* of "persist" (a save fails), "fallback" (a summary is made
                \* by cutting lines), "rollback" (a turn that fails after a
                \* compaction of its own)
  ReadMax,      \* rows that session_records is asked for (10,000 in the code)
  MaxId,        \* bound: node ids ever handed out
  MaxSession    \* bound: sessions ever made

SessionHostAssumption ==
  Hosts \subseteq {"repl", "run", "rpc"} /\ {ReadMax, MaxId, MaxSession} \subseteq Nat \ {0}

VARIABLES
  host, up,     \* the process: "up", "quit" (it ended by itself) or "dead"
  parent, leaf, sum, \* the open SessionTree
  sid, turn, base,   \* its id; "idle" or "run"; the leaf when the turn began
  saved,        \* the summary the host knows to be stored
  of,           \* the message of each node id handed out
  rows, stored, known, \* SessionStore: messages, summary, rows of sessions
  file,         \* an exported JSONL file, or None
  warned        \* messages whose save failed, with a warning in the log

hostVars == <<host, up, parent, leaf, sum, sid, turn, base, saved, of,
              rows, stored, known, file, warned>>

None == [parent |-> <<>>, kept |-> 0, cov |-> {}]
NoSummary == [thr |-> 0, cov |-> {}]
SessionIds == 1..MaxSession

-----------------------------------------------------------------------------
(* SessionTree *)

\* The nodes from the root to n, by the parent links of par.
Chain(par, n) ==
  LET up2root[k \in 0..MaxId] ==
        IF k \in DOMAIN par THEN {k} \cup up2root[par[k]] ELSE {}
  IN  up2root[n]

Path == Chain(parent, leaf)

Messages(ids) == {of[i] : i \in ids}

Least(S) == CHOOSE x \in S : \A y \in S : x <= y

WindowEarly(p, s) == (* (a bug: the window starts one node too late) *)
  IF s.cov = {} \/ s.thr \notin p THEN p ELSE {i \in p : i > s.thr + 1}

\* What of the path is sent to the model next to the summary.
Window(p, s) == IF s.cov = {} \/ s.thr \notin p THEN p ELSE {i \in p : i > s.thr}

\* The nodes of par under a new set of ids, in the same order.
Copy(S) == [i \in S |-> Len(of) + Cardinality({j \in S : j <= i})]

\* The row ids of a session as a tree: one chain, whatever the tree was; a
\* summary reaches to the first node, for the store does not keep its thr.
Linear(S) ==
  [i \in S |-> LET older == {j \in S : j < i}
               IN  IF older = {} THEN 0 ELSE CHOOSE j \in older : \A k \in older : k <= j]

Newest(S) == IF S = {} THEN 0 ELSE CHOOSE i \in S : \A j \in S : j <= i

Restored(S, cov) ==
  IF cov = {} \/ S = {} THEN NoSummary ELSE [thr |-> Least(S), cov |-> cov]

-----------------------------------------------------------------------------
(* SessionStore *)

\* session_records: the oldest rows of a session; the newer ones stay in the
\* table, and are not of the branch that goes on from there.
Oldest(S) == {i \in S : Cardinality({j \in S : j <= i}) <= ReadMax}

AllRows == UNION {rows[s] : s \in SessionIds}

\* persist_turn: one transaction; a second row with an id undoes all of it,
\* and the caller only warns.  cov = {} leaves the stored summary alone.
Persist(s, ids, cov) ==
  \/ /\ ids \cap AllRows = {}
     /\ rows' = [rows EXCEPT ![s] = @ \cup ids]
     /\ stored' = IF cov # {} /\ s \in known THEN [stored EXCEPT ![s] = cov] ELSE stored
     /\ UNCHANGED warned
  \/ /\ ids \cap AllRows # {} \/ "persist" \in Faults
     /\ warned' = IF ids \cap AllRows = {} THEN warned \cup Messages(ids) ELSE warned
     /\ UNCHANGED <<rows, stored>>

\* create_session_ex: an id no row and no open session has.
FreshSession == IF known = SessionIds THEN 0
                ELSE Least({s \in SessionIds : s \notin known /\ rows[s] = {} /\ s # sid})

CanMake == \E s \in SessionIds : s \notin known /\ rows[s] = {} /\ s # sid

-----------------------------------------------------------------------------
(* A turn *)

Up == up = "up"
Idle == Up /\ turn = "idle"

Push ==
  /\ Len(of) < MaxId
  /\ of' = Append(of, Len(of) + 1)
  /\ parent' = [i \in DOMAIN parent \cup {Len(of) + 1} |->
                  IF i = Len(of) + 1 THEN leaf ELSE parent[i]]
  /\ leaf' = Len(of) + 1

\* The user's message; before_len is noted first.
BeginTurn ==
  /\ Idle /\ Push
  /\ turn' = "run" /\ base' = leaf
  /\ UNCHANGED <<host, up, sum, sid, saved, rows, stored, known, file, warned>>

\* An answer of the model, or a message with the results of its calls.
AddMessage ==
  /\ Up /\ turn = "run" /\ Push
  /\ UNCHANGED <<host, up, sum, sid, turn, base, saved, rows, stored, known, file, warned>>

\* compress_inner, past the tests that skip it: the messages up to the cut
\* and the old summary make the new one; when the provider fails, the first
\* line of some of them does, and the old summary is gone.
Summarised(cut) ==
  LET prefix == {i \in Path : i <= cut}
  IN  \/ sum' = [thr |-> cut, cov |-> sum.cov \cup Messages(prefix)]
      \/ /\ "fallback" \in Faults
         /\ \E some \in SUBSET prefix \ {{}} :
              sum' = [thr |-> cut, cov |-> Messages(some)]

CompressInTurn ==
  /\ Up /\ turn = "run"
  /\ \E cut \in Path : cut # leaf /\ Summarised(cut)
  /\ UNCHANGED <<host, up, parent, leaf, sid, turn, base, saved, of,
                 rows, stored, known, file, warned>>

\* The nodes of the turn that ends.
TurnRows == {i \in Path : i > base}

\* The turn ended: the prompt loop and the single run save its nodes, and the
\* summary when it is another one; the service saves nothing yet.
EndTurn ==
  /\ Up /\ turn = "run"
  /\ turn' = "idle" /\ base' = 0
  /\ IF host = "rpc" THEN UNCHANGED <<rows, stored, warned, saved>>
     ELSE /\ Persist(sid, TurnRows, IF sum.cov # saved \/ host = "run" THEN sum.cov ELSE {})
          /\ saved' = IF sum.cov # {} THEN sum.cov ELSE saved
  /\ up' = IF host = "run" THEN "quit" ELSE up
  /\ UNCHANGED <<host, parent, leaf, sum, sid, of, known, file>>

\* The turn failed: the prompt loop takes its nodes out of the tree again, the
\* summary stays; the single run ends and saves nothing; the service goes on
\* with the nodes in the tree.
FailTurn ==
  /\ Up /\ turn = "run"
  /\ sum.cov # {} /\ sum.thr > base => "rollback" \in Faults
  /\ turn' = "idle" /\ base' = 0
  /\ IF host = "repl"
     THEN /\ parent' = [i \in DOMAIN parent \ TurnRows |-> parent[i]]
          /\ leaf' = base
     ELSE UNCHANGED <<parent, leaf>>
  /\ up' = IF host = "run" THEN "dead" ELSE up
  /\ UNCHANGED <<host, sum, sid, saved, of, rows, stored, known, file, warned>>

-----------------------------------------------------------------------------
(* Commands between turns *)

\* "/compact" saves the summary at once in the prompt loop.
CompactCommand ==
  /\ Idle /\ host # "run"
  /\ \E cut \in Path : cut # leaf /\ Summarised(cut)
  /\ IF host = "repl" /\ sum' # sum /\ sum'.cov # sum.cov
     THEN Persist(sid, {}, sum'.cov) /\ saved' = sum'.cov
     ELSE UNCHANGED <<rows, stored, warned, saved>>
  /\ UNCHANGED <<host, up, parent, leaf, sid, turn, base, of, known, file>>

\* "/rewind": to the parent or to a node of the path; "/goto": to any node
\* whose ancestors are there.  Neither removes a node nor drops a summary.
MoveCursor ==
  /\ Idle /\ host = "repl"
  /\ \E n \in DOMAIN parent \ {leaf} : leaf' = n
  /\ UNCHANGED <<host, up, parent, sum, sid, turn, base, saved, of,
                 rows, stored, known, file, warned>>

\* "/new": the service gives the session an id and no row.
NewSession ==
  /\ Idle /\ host # "run" /\ CanMake
  /\ sid' = FreshSession
  /\ known' = IF host = "rpc" THEN known ELSE known \cup {sid'}
  /\ parent' = <<>> /\ leaf' = 0 /\ sum' = NoSummary
  /\ UNCHANGED <<host, up, turn, base, saved, of, rows, stored, file, warned>>

\* firstKeptEntryId of the compaction line: the node after thr, when thr is on
\* the path and is not its end.
FirstKept ==
  LET later == {i \in Path : i > sum.thr}
  IN  IF sum.cov # {} /\ sum.thr \in Path /\ later # {} THEN Least(later) ELSE 0

\* Every node of the tree goes into the file.  message_entries writes an entry
\* for each result of a message; one with several is outside this model.
Exported ==
  [parent |-> parent, kept |-> FirstKept, cov |-> IF FirstKept = 0 THEN {} ELSE sum.cov]

Export ==
  /\ Idle /\ host = "repl" /\ DOMAIN parent # {} /\ file = None
  /\ file' = Exported
  /\ UNCHANGED <<host, up, parent, leaf, sum, sid, turn, base, saved, of,
                 rows, stored, known, warned>>

\* persist_tree: all the nodes of a tree, in a session made for them.
SaveTree(ids, cov) ==
  /\ sid' = FreshSession
  /\ known' = known \cup {FreshSession}
  /\ rows' = [rows EXCEPT ![FreshSession] = ids]
  /\ stored' = [stored EXCEPT ![FreshSession] = cov]

\* A tree copied to new ids and saved as a new session, which is opened.
Adopt(par, end, s, m) ==
  LET old(i) == CHOOSE j \in DOMAIN m : m[j] = i
      ids == {m[i] : i \in DOMAIN m}
      kept == IF s.thr \in DOMAIN m THEN [s EXCEPT !.thr = m[s.thr]] ELSE NoSummary
  IN  /\ Len(of) + Cardinality(ids) <= MaxId /\ CanMake
      /\ of' = of \o [k \in 1..Cardinality(ids) |-> of[old(Len(of) + k)]]
      /\ parent' = [i \in ids |-> IF par[old(i)] \in DOMAIN m THEN m[par[old(i)]] ELSE 0]
      /\ leaf' = IF end \in DOMAIN m THEN m[end] ELSE 0
      /\ sum' = kept
      /\ SaveTree(ids, kept.cov)

\* "/import": the cursor goes to the last message of the file; the summary
\* reaches to the parent of the first entry it kept.
ImportFile ==
  LET through == IF file.parent[file.kept] # 0 THEN file.parent[file.kept] ELSE file.kept
      s == IF file.kept = 0 THEN NoSummary ELSE [thr |-> through, cov |-> file.cov]
  IN  Adopt(file.parent, Newest(DOMAIN file.parent), s, Copy(DOMAIN file.parent))

Import ==
  /\ Idle /\ host # "run" /\ file # None /\ ImportFile
  /\ UNCHANGED <<host, up, turn, base, saved, file, warned>>

\* "/fork" copies the path, "/clone" the whole tree.
Duplicate ==
  /\ Idle /\ host # "run"
  /\ \/ Adopt(parent, leaf, sum, Copy(Path))
     \/ Path # DOMAIN parent /\ Adopt(parent, leaf, sum, Copy(DOMAIN parent))
  /\ UNCHANGED <<host, up, turn, base, saved, file, warned>>

Open(s) ==
  LET read == Oldest(rows[s])
  IN  /\ parent' = Linear(read) /\ leaf' = Newest(read)
      /\ sum' = Restored(read, stored[s])
      /\ sid' = s

\* "switch_session" of the service; what the open session did not save is gone.
Switch ==
  /\ Idle /\ host = "rpc"
  /\ \E s \in known \ {sid} : Open(s)
  /\ UNCHANGED <<host, up, turn, base, saved, of, rows, stored, known, file, warned>>

-----------------------------------------------------------------------------
(* The process *)

\* End of input: the service saves the whole path now, and only now.
Quit ==
  /\ Idle /\ host # "run"
  /\ up' = "quit"
  /\ IF host = "rpc" THEN Persist(sid, Path, sum.cov) ELSE UNCHANGED <<rows, stored, warned>>
  /\ UNCHANGED <<host, parent, leaf, sum, sid, turn, base, saved, of, known, file>>

Kill ==
  /\ Up /\ up' = "dead" /\ turn' = "idle" /\ base' = 0
  /\ UNCHANGED <<host, parent, leaf, sum, sid, saved, of, rows, stored, known, file, warned>>

\* The next process: a new session, one that is stored ("--resume",
\* "--continue", "--session"), a copy of one ("--fork") or a file.
Start ==
  /\ ~Up /\ up' = "up" /\ host' \in Hosts
  /\ \/ /\ CanMake
        /\ sid' = FreshSession /\ known' = known \cup {FreshSession}
        /\ parent' = <<>> /\ leaf' = 0 /\ sum' = NoSummary
        /\ UNCHANGED <<of, rows, stored>>
     \/ \E s \in known : Open(s) /\ UNCHANGED <<of, rows, stored, known>>
     \/ \E s \in known :
          LET read == Oldest(rows[s])
          IN  Adopt(Linear(read), Newest(read), Restored(read, stored[s]), Copy(read))
     \/ file # None /\ ImportFile
  /\ saved' = sum'.cov
  /\ UNCHANGED <<turn, base, file, warned>>

Init ==
  /\ host \in Hosts /\ up = "up"
  /\ parent = <<>> /\ leaf = 0 /\ sum = NoSummary
  /\ sid = 1 /\ turn = "idle" /\ base = 0 /\ saved = {}
  /\ of = <<>>
  /\ rows = [s \in SessionIds |-> {}]
  /\ stored = [s \in SessionIds |-> {}]
  /\ known = {1}
  /\ file = None
  /\ warned = {}

Next ==
  \/ BeginTurn \/ AddMessage \/ CompressInTurn \/ EndTurn \/ FailTurn
  \/ CompactCommand \/ MoveCursor \/ NewSession
  \/ Export \/ Import \/ Duplicate \/ Switch
  \/ Quit \/ Kill \/ Start

Spec == Init /\ [][Next]_hostVars

-----------------------------------------------------------------------------
Ids == 1..MaxId

TypeOK ==
  /\ host \in Hosts /\ up \in {"up", "quit", "dead"} /\ turn \in {"idle", "run"}
  /\ DOMAIN parent \subseteq Ids /\ \A i \in DOMAIN parent : parent[i] \in 0..(i - 1)
  /\ leaf \in {0} \cup DOMAIN parent /\ base \in 0..MaxId
  /\ sum.thr \in 0..MaxId /\ sum.cov \cup saved \cup warned \subseteq Ids
  /\ Len(of) <= MaxId /\ \A i \in DOMAIN of : of[i] \in 1..i
  /\ sid \in SessionIds /\ known \subseteq SessionIds
  /\ \A s \in SessionIds : rows[s] \subseteq Ids /\ stored[s] \subseteq Ids
  /\ DOMAIN file.parent \subseteq Ids /\ file.kept \in 0..MaxId /\ file.cov \subseteq Ids

\* The model never loses sight of a message of the branch it continues: each
\* one is in the window that is sent (prompt_history) or was given to the
\* summary that stands for it, across compactions, rewinds, copies, files and
\* restarts, where the two are stored apart.  A branch that was read back goes
\* on from the ReadMax oldest rows: the later ones are of the table alone.
NothingForgotten ==
  \A i \in Path : i \in Window(Path, sum) \/ of[i] \in sum.cov

Unsaved == ~(sid \in known /\ Messages(Path) \subseteq Messages(rows[sid]) \cup warned)

\* Between turns, and after a process that ended by itself, each message of
\* the open branch is a row of the open session, which can be opened again,
\* unless its save failed with a warning (turn_rows from before_len on).
TurnsSaved ==
  turn = "idle" /\ (up = "quit" \/ (up = "up" /\ host = "repl")) /\ host # "rpc" => ~Unsaved

\* The README, of every host: "Every turn is saved to sessions.db"; at least
\* when the process has ended by itself.
EveryTurnSaved == up = "quit" /\ Path # {} => ~Unsaved
=============================================================================
