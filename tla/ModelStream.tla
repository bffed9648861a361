----------------------------- MODULE ModelStream -----------------------------
(***************************************************************************)
(* One streamed request to a model: the POST with its retries, the bytes   *)
(* of the answer cut anywhere by the network, the SSE parser that makes    *)
(* events of them, and the accumulator that makes a message of the events, *)
(* for the wire formats of the providers.                                  *)
(*                                                                         *)
(* A script is what the server means to send: events, of which each says   *)
(* to which part of the answer it belongs (at).  On the wire an event is   *)
(* two bytes of one character, so that a cut may fall into it, and a blank *)
(* line of two bytes (LF LF or CR LF CR LF).                               *)
(***************************************************************************)
EXTENDS Integers, Sequences, FiniteSets, SequencesExt

CONSTANTS
  Scripts,     \* [api, events, bare]: bare, the last blank line is missing
  MaxRetries   \* of one POST

VARIABLES
  script, phase, \* phase: "post", "stream", "done", "failed"
  tries, asked,  \* retries of this POST; requests sent
  stripped,      \* the request was repeated without its thinking blocks
  wire,          \* bytes the server has yet to send
  held, buf,     \* the parser: the start of a character, text without its blank line
  acc,           \* the accumulator
  shown,         \* text the user has seen
  cut            \* the connection was closed before the answer was complete

streamVars == <<script, phase, tries, asked, stripped, wire, held, buf, acc, shown, cut>>

Half == <<0, 1>>
LineEnd == <<0, 2>>
Bytes(s) ==
  FlattenSeq([i \in DOMAIN s.events |->
    <<<<i, 1>>, <<i, 2>>>> \o IF s.bare /\ i = Len(s.events) THEN <<>> ELSE <<Half, LineEnd>>])

-----------------------------------------------------------------------------
(* The parser *)

\* decode: the start of a character waits for the rest of it.
Decoded(bytes) == IF bytes # <<>> /\ Last(bytes)[2] = 1 /\ Last(bytes) # Half THEN Front(bytes) ELSE bytes

\* How much of the text is complete blocks: up to the last blank line.
Cut(b) == SelectLastInSeq(b, LAMBDA t : t = LineEnd)

\* push: the events of all complete blocks, by their number.
Complete(b) == LET whole == SelectSeq(SubSeq(b, 1, Cut(b)), LAMBDA t : t[1] # 0 /\ t[2] = 2)
               IN  [i \in DOMAIN whole |-> whole[i][1]]

RestDropped(b) == (* (a bug: a block that is not complete is forgotten) *)
  <<>>

Rest(b) == SubSeq(b, Cut(b) + 1, Len(b))

-----------------------------------------------------------------------------
(* The accumulators *)

Blank == [kind |-> "", id |-> "", name |-> "", data |-> <<>>]
NoAcc == [text |-> <<>>, frags |-> <<>>]
Absent == "absent"
\* What an event says replaces what was said before, also by nothing ("").
Given(new, old) == IF new = Absent THEN old ELSE new

\* slot: the fragment at this index, blank ones up to it made.
Grown(frags, n) == frags \o [i \in 1..(n - Len(frags)) |-> Blank]
Feed(a, n, kind, ev) ==
  [a EXCEPT !.frags = [Grown(@, n) EXCEPT ![n] =
     [kind |-> Given(kind, @.kind), id |-> Given(ev.id, @.id), name |-> Given(ev.name, @.name),
      data |-> @.data \o ev.piece]]]

\* Gemini has no index: the fragments of a call are those with its name.
ByName(a, ev) ==
  LET same == {i \in DOMAIN a.frags : a.frags[i].name = ev.name}
  IN  Feed(a, IF same = {} THEN Len(a.frags) + 1 ELSE CHOOSE i \in same : TRUE, "fn", ev)

SseApply(a, ev) == IF ev.e = "call" THEN Feed(a, ev.at, "call", ev) ELSE a  \* tool_calls

\* content_block_start of a tool_use; its input_json_delta; thinking and signature.
AnthropicApply(a, ev) ==
  CASE ev.e = "tool" -> Feed(a, ev.at, "call", ev)
    [] ev.e = "json" -> Feed(a, ev.at, Absent, ev)
    [] ev.e = "think" -> Feed(a, ev.at, "think", ev)
    [] OTHER -> a

GeminiApply(a, ev) == IF ev.e = "fn" THEN ByName(a, ev) ELSE a

\* Arguments that are no JSON become {}.
Args(f) == IF f.kind = "fn" \/ (f.data # <<>> /\ Last(f.data) = "}") THEN f.data ELSE <<>>
CallId(i) == <<"call-0", "call-1", "call-2", "call-3">>[i]

\* finish: thinking first, then the text, then the calls.
Thoughts(a) == SelectSeq(a.frags, LAMBDA f : f.kind = "think")
Finished(a, made) ==
  LET kept == SelectSeq([i \in DOMAIN a.frags |-> i], LAMBDA i : i \in made)
      call(f, i) == [id |-> IF f.id = "" THEN CallId(i) ELSE f.id,
                     name |-> IF f.name = "" THEN "unknown" ELSE f.name, args |-> Args(f)]
  IN  [k \in DOMAIN kept |-> call(a.frags[kept[k]], kept[k])]

SseFinish(a) ==
  Finished(a, {i \in DOMAIN a.frags : a.frags[i].name # "" \/ a.frags[i].data # <<>>})
AnthropicFinish(a) == Finished(a, {i \in DOMAIN a.frags : a.frags[i].kind = "call"})
GeminiFinish(a) == Finished(a, DOMAIN a.frags)

\* An answer that is not streamed is parsed as one: there each call stands by
\* itself, and one without an id is "call-0".
ParseAnthropic(events) ==
  LET a == FoldLeft(AnthropicApply, NoAcc, events)
  IN  [a EXCEPT !.frags = [i \in DOMAIN @ |-> [@[i] EXCEPT !.id = IF @ = "" THEN "call-0" ELSE @]]]

Calls(a) ==
  CASE script.api = "openai" -> SseFinish(a)
    [] script.api \in {"anthropic", "bedrock"} -> AnthropicFinish(a)
    [] script.api \in {"gemini", "vertex"} -> GeminiFinish(a)

-----------------------------------------------------------------------------
(* Actions *)

Retry ==
  /\ tries < MaxRetries /\ tries' = tries + 1 /\ asked' = asked + 1
  /\ UNCHANGED <<script, phase, stripped, wire, held, buf, acc, shown, cut>>

Fail == phase' = "failed" /\ UNCHANGED <<script, tries, asked, stripped, wire, held, buf, acc, shown, cut>>

\* 429, 5xx or no answer at all: wait and ask again, at most MaxRetries times.
Unavailable == phase = "post" /\ (Retry \/ (tries = MaxRetries /\ Fail))

\* Any other error.
Refused == phase = "post" /\ Fail

\* 400 about a signature or thinking: once more, without the thinking blocks.
SignatureMismatch ==
  /\ phase = "post" /\ script.api = "anthropic" /\ ~stripped
  /\ stripped' = TRUE /\ tries' = 0 /\ asked' = asked + 1
  /\ UNCHANGED <<script, phase, wire, held, buf, acc, shown, cut>>

Accepted ==
  /\ phase = "post" /\ script.api # "bedrock" /\ phase' = "stream" /\ wire' = Bytes(script)
  /\ UNCHANGED <<script, tries, asked, stripped, held, buf, acc, shown, cut>>

\* The text of events, shown as they come.
Texts(evs) == FlattenSeq([i \in DOMAIN evs |-> IF evs[i].e = "text" THEN evs[i].piece ELSE <<>>])

\* Each provider's accumulator takes an event in its own way.
Apply(a, ev) ==
  CASE script.api = "openai" -> SseApply(a, ev)
    [] script.api = "anthropic" -> AnthropicApply(a, ev)
    [] script.api \in {"gemini", "vertex"} -> GeminiApply(a, ev)

\* A chunk: its events up to the one that ends the answer.  An error in the
\* stream fails the request; a text is shown and kept.
Chunk(api) ==
  /\ script.api = api /\ phase = "stream"
  /\ \E n \in 1..Len(wire) :
       LET bytes == held \o SubSeq(wire, 1, n)
           text == Decoded(bytes)
           done == Complete(buf \o text)
           evs == [i \in DOMAIN done |-> script.events[done[i]]]
           stops == {i \in DOMAIN evs : evs[i].e \in {"end", "error"}}
           last == IF stops = {} THEN Len(evs) ELSE CHOOSE i \in stops : \A j \in stops : i <= j
           used == SubSeq(evs, 1, last)
       IN  /\ wire' = SubSeq(wire, n + 1, Len(wire))
           /\ held' = SubSeq(bytes, Len(text) + 1, Len(bytes))
           /\ buf' = Rest(buf \o text)
           /\ acc' = [FoldLeft(Apply, acc, used) EXCEPT !.text = @ \o Texts(used)]
           /\ shown' = shown \o Texts(used)
           /\ phase' = IF stops = {} THEN "stream" ELSE IF evs[last].e = "end" THEN "done" ELSE "failed"
  /\ UNCHANGED <<script, tries, asked, stripped, cut>>

OpenAiChunk == Chunk("openai")
AnthropicChunk == Chunk("anthropic")
GeminiChunk == Chunk("gemini")
VertexChunk == Chunk("vertex")

\* Bedrock answers at once; its answer is shown then.
BedrockInvoke ==
  /\ phase = "post" /\ script.api = "bedrock" /\ phase' = "done"
  /\ acc' = [ParseAnthropic(script.events) EXCEPT !.text = Texts(script.events)]
  /\ shown' = Texts(script.events)
  /\ UNCHANGED <<script, tries, asked, stripped, wire, held, buf, cut>>

\* The server closes: an answer without its end counts as one; a block that
\* still waits for its blank line is left.
Closed ==
  /\ phase = "stream" /\ phase' = "done" /\ cut' = (wire # <<>>)
  /\ UNCHANGED <<script, tries, asked, stripped, wire, held, buf, acc, shown>>

\* The connection breaks.
Broken == phase = "stream" /\ Fail

Init ==
  /\ script \in Scripts /\ phase = "post" /\ tries = 0 /\ asked = 1 /\ stripped = FALSE
  /\ wire = <<>> /\ held = <<>> /\ buf = <<>> /\ acc = NoAcc /\ shown = <<>> /\ cut = FALSE

Next ==
  \/ Unavailable \/ Refused \/ SignatureMismatch \/ Accepted \/ Closed \/ Broken
  \/ OpenAiChunk \/ AnthropicChunk \/ GeminiChunk \/ VertexChunk \/ BedrockInvoke

Spec == Init /\ [][Next]_streamVars

-----------------------------------------------------------------------------
TypeOK ==
  /\ phase \in {"post", "stream", "done", "failed"} /\ tries \in 0..MaxRetries
  /\ Len(held) <= 1 /\ stripped \in BOOLEAN /\ cut \in BOOLEAN

(* What the script says, part by part.  A part is known by its place in the *)
(* answer (at), which the wire format of Gemini leaves out.                 *)
Of(kinds) == SelectSeq(script.events, LAMBDA ev : ev.e \in kinds)
Pieces(evs) == FlattenSeq([i \in DOMAIN evs |-> evs[i].piece])
Part(kinds, n) == Pieces(SelectSeq(Of(kinds), LAMBDA ev : ev.at = n))
CallKinds == {"call", "tool", "json", "fn"}
Meant(kinds) == {Part(kinds, n) : n \in {Of(kinds)[i].at : i \in DOMAIN Of(kinds)}}

\* Two calls of one tool in one answer: Gemini's accumulator makes one of them.
SameName ==
  \E i, j \in DOMAIN script.events :
    LET a == script.events[i]  b == script.events[j]
    IN  a.e = "fn" /\ b.e = "fn" /\ a.name = b.name /\ a.at # b.at

\* The last event carries content and has no blank line: it is lost.
TailLost == script.bare /\ Last(script.events).e \notin {"end", "usage", "junk"}

\* However the bytes are cut, a complete answer holds the text, the thinking
\* and the calls, with their arguments, that the server sent.
ReplyWhole ==
  phase = "done" /\ ~cut /\ ~SameName /\ ~TailLost =>
    /\ acc.text = Pieces(Of({"text"}))
    /\ {Calls(acc)[i].args : i \in DOMAIN Calls(acc)} = Meant(CallKinds)
    /\ Len(Calls(acc)) = Cardinality(Meant(CallKinds))
    /\ {Thoughts(acc)[i].data : i \in DOMAIN Thoughts(acc)} = Meant({"think"})

\* An answer that was cut short holds no call with half of its arguments: with
\* all of them or, what the tool must refuse, with none.  (Of the fragments of a
\* call of Gemini each is whole, so that half a call cannot be told.)
NoHalfCall ==
  phase = "done" /\ cut /\ script.api \notin {"gemini", "vertex"} =>
    \A i \in DOMAIN Calls(acc) : Calls(acc)[i].args \in Meant(CallKinds) \cup {<<>>}

\* The message repeats what the user has seen, and the ids of its calls differ
\* (of an answer that is not streamed, if the API gave them).
ShownIsSaid ==
  phase = "done" =>
    /\ shown = acc.text
    /\ \A i, j \in DOMAIN Calls(acc) : i # j => Calls(acc)[i].id # Calls(acc)[j].id

\* One request, three retries, and that once more for a signature.
RetriesBounded == asked <= 2 * (MaxRetries + 1) /\ (~stripped => asked <= MaxRetries + 1)

AnswerTrue == ReplyWhole /\ NoHalfCall /\ ShownIsSaid /\ RetriesBounded
=============================================================================
