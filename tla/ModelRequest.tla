---------------------------- MODULE ModelRequest -----------------------------
(***************************************************************************)
(* The messages of a request: the path of a session, as the agent and the  *)
(* providers make it grow, and what each wire format makes of it.  The     *)
(* provider may change from one turn to the next, so that each format has  *)
(* to carry what another one produced.                                     *)
(*                                                                         *)
(* A block is [b, id, name]: "text", "call" and "result" (of id), "image"  *)
(* (of the call id, which the block itself does not say), "think" (signed) *)
(* "bare" (thinking without signature).  On the wire an item has the       *)
(* images that it carries as well.                                         *)
(***************************************************************************)
EXTENDS Integers, Sequences, FiniteSets, SequencesExt

CONSTANTS
  Apis,      \* of "openai", "anthropic" and "gemini"
  Names,     \* of tools
  MaxHist    \* bound: messages of the path

VARIABLES
  hist,      \* the path
  api,       \* the provider
  fresh,     \* ids handed out by providers that do so
  repeated,  \* an id was used by two calls of the path
  stripping  \* the request is the repetition without thinking blocks

requestVars == <<hist, api, fresh, repeated, stripping>>

B(b, id, name) == [b |-> b, id |-> id, name |-> name]
Text == B("text", 0, "")
Msg(role, blocks) == [role |-> role, blocks |-> blocks]
Having(blocks, kinds) == SelectSeq(blocks, LAMBDA x : x.b \in kinds)
CallsOf(m) == Having(m.blocks, {"call"})
EndRole == IF hist = <<>> THEN "none" ELSE Last(hist).role
OpenCalls == IF hist = <<>> THEN <<>> ELSE CallsOf(Last(hist))

-----------------------------------------------------------------------------
(* The path *)

\* A user speaks first, after an answer, or while the tools run (steering).
User ==
  /\ Len(hist) < MaxHist
  /\ OpenCalls = <<>>
  /\ hist' = Append(hist, Msg("user", <<Text>>))
  /\ UNCHANGED <<api, fresh, repeated, stripping>>

\* The ids of n calls: those of the API, or "call-0", "call-1" in each answer.
Ids(n) == IF api = "gemini" THEN [i \in 1..n |-> i] ELSE [i \in 1..n |-> 10 + fresh + i]

\* An answer: thinking first, then the text, which may be empty, then calls.
Answer ==
  /\ Len(hist) < MaxHist /\ EndRole \in {"user", "tool"}
  /\ \E n \in 0..2, think \in {<<>>, <<B("think", 0, "")>>, <<B("bare", 0, "")>>},
        text \in {<<>>, <<Text>>} :
       \E names \in [1..n -> Names] :
         LET calls == [i \in 1..n |-> B("call", Ids(n)[i], names[i])]
         IN  /\ think # <<>> => api = "anthropic"
             /\ hist' = Append(hist, Msg("assistant", think \o text \o calls))
             /\ fresh' = IF api = "gemini" THEN fresh ELSE fresh + n
             /\ repeated' = (repeated \/ \E i \in DOMAIN hist, c \in ToSet(calls) :
                               \E d \in ToSet(CallsOf(hist[i])) : c.id = d.id)
  /\ UNCHANGED <<api, stripping>>

\* All results of the batch are one message, the images of a result after it.
Results ==
  /\ Len(hist) < MaxHist /\ OpenCalls # <<>>
  /\ LET calls == OpenCalls
     IN  \E seen \in SUBSET DOMAIN calls :
           hist' = Append(hist, Msg("tool", FlattenSeq([i \in DOMAIN calls |->
                     <<B("result", calls[i].id, "")>> \o
                     IF i \in seen THEN <<B("image", calls[i].id, "")>> ELSE <<>>])))
  /\ UNCHANGED <<api, fresh, repeated, stripping>>

\* /model, between two turns.
Switch ==
  /\ EndRole \in {"none", "assistant"} /\ OpenCalls = <<>>
  /\ api' \in Apis \ {api} /\ stripping' = FALSE
  /\ UNCHANGED <<hist, fresh, repeated>>

\* strip_thinking_for_retry, of the request that is on its way.
Strip ==
  /\ api = "anthropic" /\ EndRole \in {"user", "tool"}
  /\ stripping' = ~stripping
  /\ UNCHANGED <<hist, api, fresh, repeated>>

Init ==
  /\ hist = <<>> /\ api \in Apis /\ fresh = 0 /\ repeated = FALSE /\ stripping = FALSE

Next == User \/ Answer \/ Results \/ Switch \/ Strip

Spec == Init /\ [][Next]_requestVars

-----------------------------------------------------------------------------
(* The wire *)

Item(x, imgs) == [b |-> x.b, id |-> x.id, name |-> x.name, imgs |-> imgs]
Plain(blocks) == [i \in DOMAIN blocks |-> Item(blocks[i], <<>>)]

\* push: messages of one role that follow each other become one.
Push(out, m) ==
  IF m.items = <<>> THEN out
  ELSE IF out # <<>> /\ Last(out).role = m.role
  THEN [out EXCEPT ![Len(out)].items = @ \o m.items]
  ELSE Append(out, m)
W(role, items) == [role |-> role, items |-> items]

\* An image waits for the next result; those at the end go to the last one.
AnthropicTool(blocks) ==
  LET step(s, x) ==
        IF x.b = "result" THEN [items |-> Append(s.items, Item(x, s.wait)), wait |-> <<>>]
        ELSE [s EXCEPT !.wait = Append(@, x.id)]
      end == FoldLeft(step, [items |-> <<>>, wait |-> <<>>], blocks)
  IN  [end.items EXCEPT ![Len(end.items)].imgs = @ \o end.wait]

\* Thinking without a signature is text; stripped, all thinking is gone.
AnthropicItems(m) ==
  LET kept == IF stripping THEN Having(m.blocks, {"text", "call"}) ELSE m.blocks
  IN  [i \in DOMAIN kept |-> Item(IF kept[i].b = "bare" THEN Text ELSE kept[i], <<>>)]

ToAnthropic(h) ==
  FoldLeft(LAMBDA out, m :
    Push(out, IF m.role = "tool" THEN W("user", AnthropicTool(m.blocks))
               ELSE W(m.role, AnthropicItems(m))), <<>>, h)

\* Thinking stays behind; each result is a message, the images follow as the user's.
ToOpenAi(h) ==
  LET one(m) ==
        LET results == Plain(Having(m.blocks, {"result"}))
            images == Plain(Having(m.blocks, {"image"}))
        IN  IF m.role = "tool"
            THEN [i \in DOMAIN results |-> W("tool", <<results[i]>>)]
                 \o IF images = <<>> THEN <<>> ELSE <<W("user", images)>>
            ELSE <<W(m.role, Plain(Having(m.blocks, {"text", "call"})))>>
  IN  FlattenSeq([i \in DOMAIN h |-> one(h[i])])

\* A response names its call by the table of all ids of the path: the last one
\* that has the id.
NameOf(h, id) ==
  LET all == FlattenSeq([i \in DOMAIN h |-> CallsOf(h[i])])
      at == {i \in DOMAIN all : all[i].id = id}
  IN  all[CHOOSE i \in at : \A j \in at : j <= i].name

ToGemini(h) ==
  FoldLeft(LAMBDA out, m :
    Push(out, CASE m.role = "user" -> W("user", Plain(m.blocks))
                 [] m.role = "assistant" -> W("model", Plain(Having(m.blocks, {"text", "call"})))
                 [] m.role = "tool" -> W("user", [i \in DOMAIN m.blocks |->
                      IF m.blocks[i].b = "image" THEN Item(m.blocks[i], <<>>)
                      ELSE Item(B("result", m.blocks[i].id, NameOf(h, m.blocks[i].id)), <<>>)])),
    <<>>, h)

Request ==
  CASE api = "openai" -> ToOpenAi(hist) [] api = "anthropic" -> ToAnthropic(hist)
    [] api = "gemini" -> ToGemini(hist)

\* A request goes out when the path ends with what the model has to answer.
Asked == EndRole \in {"user", "tool"}

-----------------------------------------------------------------------------
TypeOK ==
  /\ Len(hist) <= MaxHist /\ api \in Apis /\ fresh \in 0..(2 * MaxHist)
  /\ repeated \in BOOLEAN /\ stripping \in BOOLEAN

Uses(m) == SelectSeq(m.items, LAMBDA x : x.b = "call")
Answers(m) == SelectSeq(m.items, LAMBDA x : x.b = "result")

\* The results that a message of the wire is answered by: those of the next
\* message, and with OpenAI of as many messages as it has calls.
AnswersTo(req, i) ==
  IF api = "openai"
  THEN FlattenSeq([k \in 1..Len(Uses(req[i])) |-> IF i + k \in DOMAIN req THEN Answers(req[i + k]) ELSE <<>>])
  ELSE IF i + 1 \in DOMAIN req THEN Answers(req[i + 1]) ELSE <<>>

\* Whatever provider wrote the path, each call of the request is answered right
\* after it, in order, and nothing else is; roles alternate where they have to,
\* and the results come before what the user said meanwhile.
RequestPaired ==
  LET req == Request
  IN  Asked =>
        /\ \A i \in DOMAIN req :
             [k \in DOMAIN AnswersTo(req, i) |-> AnswersTo(req, i)[k].id]
               = [k \in DOMAIN Uses(req[i]) |-> Uses(req[i])[k].id]
        /\ api # "openai" => /\ \A i \in 1..(Len(req) - 1) : req[i].role # req[i + 1].role
                             /\ Last(req).role = "user"
                             /\ \A i \in DOMAIN req : \A k \in 1..(Len(req[i].items) - 1) :
                                  req[i].items[k + 1].b = "result" => req[i].items[k].b # "text"

\* A response of Gemini names the tool that was called, unless two calls of the
\* path have one id.
NamesMatch ==
  LET req == Request
  IN  Asked /\ api = "gemini" /\ ~repeated =>
        \A i \in 1..(Len(req) - 1) :
          [k \in DOMAIN Answers(req[i + 1]) |-> Answers(req[i + 1])[k].name]
            = [k \in DOMAIN Uses(req[i]) |-> Uses(req[i])[k].name]

\* No image of the path is left out of the request, and none is sent twice.
\* With Anthropic each goes into a result of its own batch, but not into that of
\* its call: an image waits for the result after it, so that those of the first
\* call of a batch are read as what the second returned.
ImagesSent ==
  LET req == Request
      items == FlattenSeq([i \in DOMAIN req |-> req[i].items])
      sent == Having(items, {"image"})
      carried == FlattenSeq([i \in DOMAIN items |-> items[i].imgs])
      seen == Having(FlattenSeq([i \in DOMAIN hist |-> hist[i].blocks]), {"image"})
  IN  Asked =>
        /\ Len(sent) + Len(carried) = Len(seen)
        /\ \A i \in DOMAIN req : \A k \in DOMAIN req[i].items :
             ToSet(req[i].items[k].imgs) \subseteq {x.id : x \in ToSet(Answers(req[i]))}

\* The calls, their results and the images of a path arrive, whatever provider
\* wrote it.
RequestTrue == RequestPaired /\ NamesMatch /\ ImagesSent
=============================================================================
