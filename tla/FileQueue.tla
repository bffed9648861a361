------------------------------ MODULE FileQueue ------------------------------
(***************************************************************************)
(* The write and edit tools and the queue that keeps the calls on one file *)
(* one after the other (FileMutationQueue): a map from the key of a file   *)
(* to a mutex, its slots made on demand and taken out again when nobody    *)
(* else holds them.  The calls of a batch run as tasks of their own.  The  *)
(* key is computed before the queue is entered, from what the file system  *)
(* shows at that moment.                                                   *)
(***************************************************************************)
EXTENDS Integers, Sequences, FiniteSets

CONSTANTS
  Tasks,
  Ops,        \* what a call may ask: [tool, text, edits, all]
  Spellings,  \* ways to write the path; "plain" is the canonical one
  MaxSlots,   \* bound: mutexes made
  MaxCalls    \* bound: calls

VARIABLES
  present,       \* what exists: "nothing", "folder" (its parent does) or "file"
  content,    \* the words of the file
  queue,      \* FileMutationQueue.inner: slot by key
  made,       \* mutexes made so far
  calls,
  task,       \* [step, op, as, key, slot, read]
  apart       \* a task queued under a key that is not the file's own

fileVars == <<present, content, queue, made, calls, task, apart>>

NoOp == [tool |-> "", text |-> <<>>, edits |-> <<>>, all |-> FALSE]
Idle == [step |-> "idle", op |-> NoOp, key |-> "", slot |-> 0, read |-> <<>>]

-----------------------------------------------------------------------------
(* apply_edits *)

\* match_indices: where old is in text, from the left, none inside another.
Hits(text, old) ==
  LET found[i \in 1..(Len(text) + 1)] ==
        IF i + Len(old) - 1 > Len(text) THEN {}
        ELSE IF SubSeq(text, i, i + Len(old) - 1) = old
             THEN {i} \cup found[i + Len(old)] ELSE found[i + 1]
  IN  found[1]

\* text with new in place of old at each of the places, from the left.
PutAt(text, places, old, new) ==
  LET from[i \in 1..(Len(text) + 1)] ==
        IF i > Len(text) THEN <<>>
        ELSE IF i \in places THEN new \o from[i + Len(old)] ELSE <<text[i]>> \o from[i + 1]
  IN  from[1]

Refused == <<"refused">>

\* Every edit is matched against the text as it was: its old words must be
\* there exactly once, and no two edits may touch.
ApplyEdits(text, edits) ==
  LET hit(k) == CHOOSE i \in Hits(text, edits[k].old) : TRUE
      part(k) == hit(k)..(hit(k) + Len(edits[k].old) - 1)
      clash == \E j, k \in DOMAIN edits : j # k /\ part(j) \cap part(k) # {}
      from[i \in 1..(Len(text) + 1)] ==
        LET here == {k \in DOMAIN edits : hit(k) = i}
        IN  IF i > Len(text) THEN <<>>
            ELSE IF here = {} THEN <<text[i]>> \o from[i + 1]
            ELSE LET k == CHOOSE k \in here : TRUE
                 IN  edits[k].new \o from[i + Len(edits[k].old)]
  IN  IF \E k \in DOMAIN edits : Cardinality(Hits(text, edits[k].old)) # 1 \/ edits[k].old = <<>>
      THEN Refused
      ELSE IF clash THEN Refused ELSE from[1]

ReplaceEvery(text, edit) ==
  IF edit.old = <<>> \/ Hits(text, edit.old) = {} THEN Refused
  ELSE PutAt(text, Hits(text, edit.old), edit.old, edit.new)

\* What a call makes of the text it read; parse_edit_args takes "all" for one
\* edit only, and at least one.
Outcome(op, text) ==
  CASE op.tool = "write" -> op.text
    [] op.edits = <<>> \/ (op.all /\ Len(op.edits) > 1) -> Refused
    [] op.all -> ReplaceEvery(text, op.edits[1])
    [] OTHER -> ApplyEdits(text, op.edits)

-----------------------------------------------------------------------------
\* mutation_key: the file's own name when it or its parent is there, else the
\* path as it was written.
MutationKey(path) == IF present = "nothing" THEN path ELSE "plain"

Move(t, step) == task' = [task EXCEPT ![t].step = step]

Call(t, op, path) ==
  /\ task[t] = Idle /\ calls < MaxCalls /\ calls' = calls + 1
  /\ task' = [task EXCEPT ![t] = [@ EXCEPT !.step = "enter", !.op = op, !.key = MutationKey(path)]]
  /\ apart' = (apart \/ MutationKey(path) # "plain")
  /\ UNCHANGED <<present, content, queue, made>>

\* The slot of the key, a new one when there is none.
Enter(t) ==
  LET key == task[t].key
      slot == IF key \in DOMAIN queue THEN queue[key] ELSE made + 1
  IN  /\ task[t].step = "enter"
      /\ slot <= MaxSlots /\ made' = IF key \in DOMAIN queue THEN made ELSE made + 1
      /\ queue' = [k \in DOMAIN queue \cup {key} |-> IF k = key THEN slot ELSE queue[k]]
      /\ task' = [task EXCEPT ![t].step = "wait", ![t].slot = slot]
      /\ UNCHANGED <<present, content, calls, apart>>

Inside == {"read", "write", "fill"}

Lock(t) ==
  /\ task[t].step = "wait"
  /\ \A u \in Tasks : task[u].slot = task[t].slot => task[u].step \notin Inside
  /\ Move(t, IF task[t].op.tool = "write" THEN "write" ELSE "read")
  /\ UNCHANGED <<present, content, queue, made, calls, apart>>

\* edit: read_to_string, then apply_edits; a refusal goes back to the model.
Read(t) ==
  /\ task[t].step = "read"
  /\ IF present = "file" /\ Outcome(task[t].op, content) # Refused
     THEN task' = [task EXCEPT ![t].step = "write", ![t].read = content]
     ELSE Move(t, "reclaim")
  /\ UNCHANGED <<present, content, queue, made, calls, apart>>

\* write makes the folders first.  fs::write empties the file and then fills
\* it; it may fail before, or between the two.
Truncate(t) ==
  /\ task[t].step = "write"
  /\ present' = "file" /\ content' = <<>> /\ Move(t, "fill")
  /\ UNCHANGED <<queue, made, calls, apart>>

WriteFails(t) ==
  /\ task[t].step \in {"write", "fill"} /\ Move(t, "reclaim")
  /\ present' \in {present} \cup IF present = "nothing" THEN {"folder"} ELSE {}
  /\ UNCHANGED <<content, queue, made, calls, apart>>

Fill(t) ==
  /\ task[t].step = "fill"
  /\ content' = Outcome(task[t].op, task[t].read)
  /\ task' = [task EXCEPT ![t].step = "reclaim", ![t].read = <<>>]
  /\ UNCHANGED <<present, queue, made, calls, apart>>

\* Arc::strong_count of the slot: the tasks that hold it, and the map.
Strong(slot) ==
  Cardinality({t \in Tasks : task[t].slot = slot})
    + Cardinality({k \in DOMAIN queue : queue[k] = slot})

ReclaimAlways(t) == (* (a bug: the slot goes although others wait for it) *)
  /\ task[t].step = "reclaim" /\ Move(t, "drop")
  /\ queue' = [k \in DOMAIN queue \ {task[t].key} |-> queue[k]]
  /\ UNCHANGED <<present, content, made, calls, apart>>

\* Only the map and this task hold it: it is taken out.
Reclaim(t) ==
  /\ task[t].step = "reclaim" /\ Move(t, "drop")
  /\ queue' = IF Strong(task[t].slot) = 2
              THEN [k \in DOMAIN queue \ {task[t].key} |-> queue[k]] ELSE queue
  /\ UNCHANGED <<present, content, made, calls, apart>>

\* The task's own reference is dropped after the map is unlocked.
DropSlot(t) ==
  /\ task[t].step = "drop" /\ task' = [task EXCEPT ![t] = Idle]
  /\ UNCHANGED <<present, content, queue, made, calls, apart>>

Init ==
  /\ present \in {"nothing", "folder"} /\ content = <<>>
  /\ queue = <<>> /\ made = 0 /\ calls = 0
  /\ task = [t \in Tasks |-> Idle] /\ apart = FALSE

Next ==
  \E t \in Tasks :
    \/ \E op \in Ops, path \in Spellings : Call(t, op, path)
    \/ Enter(t) \/ Lock(t) \/ Read(t) \/ Truncate(t) \/ WriteFails(t) \/ Fill(t)
    \/ Reclaim(t) \/ DropSlot(t)

Spec == Init /\ [][Next]_fileVars

-----------------------------------------------------------------------------
TypeOK ==
  /\ present \in {"nothing", "folder", "file"} /\ apart \in BOOLEAN
  /\ made \in 0..MaxSlots /\ calls \in 0..MaxCalls
  /\ \A k \in DOMAIN queue : k \in Spellings /\ queue[k] \in 1..made
  /\ \A t \in Tasks : task[t].slot \in 0..made
  /\ \A t, u \in Tasks :
       task[t].step \in Inside /\ task[u].step \in Inside /\ task[t].slot = task[u].slot => t = u

\* No update is lost: what an edit is about to write is made of the text that
\* is in the file now, whatever the calls that came and went while it waited,
\* and although slots are taken out of the queue and made again; nobody writes
\* into a file between the emptying and the filling of another call.  A call
\* that computed its key while neither the file nor its folder was there may
\* queue elsewhere than the others.
EditsKept ==
  ~apart => \A t \in Tasks :
    /\ task[t].step = "write" /\ task[t].op.tool = "edit" => task[t].read = content
    /\ task[t].step = "fill" => content = <<>>
=============================================================================
