------------------------------ MODULE ChatView ------------------------------
(***************************************************************************)
(* The chat window of the terminal: events of a turn become lines, lines   *)
(* become rows once, and rows are kept from one frame to the next.         *)
(***************************************************************************)
EXTENDS Integers, Sequences, SequencesExt

CONSTANT MaxEvents

ChatViewAssumption == MaxEvents \in Nat \ {0}

VARIABLES
  channel,  \* events the loop has sent and the window has not taken
  lines,    \* ChatView.lines: [kind, says]
  cache,    \* VisualCache: the rows of the first lines, the fingerprint of the
            \* line rendered last, the fold they were rendered for
  fold,     \* tools and thoughts are shown folded
  spoken    \* the text of the turn so far

viewVars == <<channel, lines, cache, fold, spoken>>

\* push_event: a delta continues the text that is the last line; a tool has a
\* line when it starts and another when it ends; a turn's limits have none.
PushEvent(ls, e) ==
  IF e.kind = "text" /\ ls # <<>> /\ Last(ls).kind = "text"
  THEN Append(Front(ls), [kind |-> "text", says |-> Last(ls).says \o e.says])
  ELSE IF e.kind \in {"text", "think", "tool", "tool end", "system"}
       THEN Append(ls, [kind |-> e.kind, says |-> e.says])
       ELSE ls

\* render_item: folded, a tool's line is its summary and a thought's its head.
RenderItem(l, folded) ==
  [kind |-> l.kind, says |-> IF folded /\ l.kind \in {"tool end", "think"} THEN <<Head(l.says)>> ELSE l.says]

\* line_fp
LineFp(l) == l

\* append_item, for all the lines that have no rows yet.
AppendItems(c, ls) ==
  [c EXCEPT !.rows = @ \o [i \in 1 .. Len(ls) - Len(c.rows) |-> RenderItem(ls[Len(c.rows) + i], c.key)],
            !.fp = IF Len(ls) > Len(c.rows) THEN <<LineFp(Last(ls))>> ELSE @]

\* rebuild and rebuild_from
RebuildFrom(c, from, ls) == AppendItems([c EXCEPT !.rows = SubSeq(@, 1, from - 1)], ls)

VisualLinesAppended(c, ls) == (* (a bug: rows are only ever added) *)
  IF c.key # fold THEN RebuildFrom([c EXCEPT !.key = fold], 1, ls) ELSE AppendItems(c, ls)

\* visual_lines: everything anew when the fold has changed; else the new lines,
\* and the last line again when it is not the one rendered last.
VisualLines(c, ls) ==
  IF c.key # fold THEN RebuildFrom([c EXCEPT !.key = fold], 1, ls)
  ELSE LET d == AppendItems(c, ls)
       IN IF ls # <<>> /\ d.fp # <<LineFp(Last(ls))>> THEN RebuildFrom(d, Len(ls), ls) ELSE d

----------------------------------------------------------------------------
\* on_event: an unbounded channel.
Emit(e) ==
  /\ Len(channel) + Len(lines) + Len(spoken) < MaxEvents
  /\ channel' = Append(channel, e)
  /\ spoken' = IF e.kind = "text" THEN spoken \o e.says ELSE spoken
  /\ UNCHANGED <<lines, cache, fold>>

\* drive_turn, one round: what the select took and what flush_turn_view finds
\* waiting are pushed, all of it, before the next frame is drawn.
Round ==
  /\ lines' = FoldLeft(PushEvent, lines, channel) /\ channel' = <<>>
  /\ cache' = VisualLines(cache, lines')
  /\ UNCHANGED <<fold, spoken>>

\* Ctrl-O and Ctrl-T
ToggleFold == fold' = ~fold /\ UNCHANGED <<channel, lines, cache, spoken>>

Init ==
  /\ channel = <<>> /\ lines = <<>> /\ spoken = <<>> /\ fold = TRUE
  /\ cache = [rows |-> <<>>, fp |-> <<>>, key |-> TRUE]

Next ==
  \/ \E kind \in {"text", "think", "tool end", "system", "turn"} :
       Emit([kind |-> kind, says |-> IF kind = "text" THEN <<Len(spoken) + 1>> ELSE <<0, 1>>])
  \/ Round \/ ToggleFold

Spec == Init /\ [][Next]_viewVars

----------------------------------------------------------------------------
TypeOK == fold \in BOOLEAN /\ cache.key \in BOOLEAN /\ Len(cache.rows) <= Len(lines)

\* A frame shows what its lines say (visual_lines): not so when a text grew and
\* another line came before the next frame.
RowsFresh == cache.rows = [i \in DOMAIN cache.rows |-> RenderItem(lines[i], cache.key)]

\* The text of a turn is in the lines, in order and once. A frame has a row for
\* every line, the last one as it is now; a row that is behind belongs to a
\* text that had begun before another line came, and shows how it began.
ViewTrue ==
  /\ FlattenSeq([i \in DOMAIN lines |-> IF lines[i].kind = "text" THEN lines[i].says ELSE <<>>])
       \o FlattenSeq([i \in DOMAIN channel |-> IF channel[i].kind = "text" THEN channel[i].says ELSE <<>>])
     = spoken
  /\ Len(cache.rows) = Len(lines)
  /\ lines # <<>> => Last(cache.rows) = RenderItem(Last(lines), cache.key)
  /\ \A i \in DOMAIN cache.rows :
       cache.rows[i] # RenderItem(lines[i], cache.key) =>
         lines[i].kind = "text" /\ IsStrictPrefix(cache.rows[i].says, lines[i].says)
=============================================================================
