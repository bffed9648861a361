------------------------- MODULE AgentSessionProofs -------------------------
(***************************************************************************)
(* Proofs about AgentSession, for any number of messages, turns,           *)
(* recoveries and calls: the types, the bound on the requests of a run,    *)
(* the pairing of tool calls and results on the path, the gate of effects, *)
(* and where the user's messages are and in which order.                   *)
(***************************************************************************)
EXTENDS AgentSession, SequenceTheorems, TLAPS

Batching == {"gate", "exec", "collect"}
Asking   == {"compress", "boundary", "stream", "squeeze"}

\* A recovery gives its turn back, so that requests, turns and recoveries add
\* up; a turn that streams has been counted.
Counted ==
  /\ requests = turn + recoveries
  /\ pc = "stream" => turn > 0

\* Only the answer whose batch is being worked on lacks its results, and it is
\* the last message; when the batch is done there is a result for each call.
Paired ==
  /\ \A i \in DOMAIN transcript :
       Answered(transcript, i) \/ (pc \in Batching /\ i = Len(transcript))
  /\ pc \in Batching => /\ transcript # <<>>
                        /\ Last(transcript).role = "assistant"
                        /\ Last(transcript).n > 0
  /\ pc = "collect" => Len(results) = Calls

\* Before each request the path ends with a user message or with results.
Prompted == pc \in Asking => transcript # <<>> /\ Last(transcript).role # "assistant"

IInv == TypeOK /\ Counted /\ Paired /\ Prompted

\* What a queue keeps after a take is a queue.
LEMMA RestIsQueue ==
  ASSUME NEW q \in Seq(Msgs), q # <<>>, NEW ms \in TakeByMode(q)
  PROVE  /\ ms \in Seq(Msgs)
         /\ SubSeq(q, Len(ms) + 1, Len(q)) \in Seq(Msgs)
<1>0. Head(q) \in Msgs
  BY HeadTailProperties
<1>1. ms \in Seq(Msgs)
  <2>1. <<Head(q)>> \in Seq(Msgs)
    BY <1>0
  <2> QED BY <2>1 DEF TakeByMode
<1>2. \A i \in (Len(ms) + 1)..Len(q) : q[i] \in Msgs
  BY <1>1
<1>3. Len(ms) + 1 \in Int /\ Len(q) \in Int
  BY <1>1
<1> QED
  BY <1>1, <1>2, <1>3, SubSeqProperties

\* A message that asks for nothing leaves the answered path answered.
LEMMA AppendAnswered ==
  ASSUME NEW log \in Seq(Message), NEW m \in Message,
         \A i \in DOMAIN log : Answered(log, i),
         m.role # "assistant" \/ m.n = 0
  PROVE  /\ Append(log, m) \in Seq(Message)
         /\ \A i \in DOMAIN Append(log, m) : Answered(Append(log, m), i)
         /\ Append(log, m) # <<>>
         /\ Last(Append(log, m)) = m
BY DEF Answered, Last

\* Results for every call close the batch of the last answer.
LEMMA CloseBatch ==
  ASSUME NEW log \in Seq(Message), log # <<>>,
         Last(log).role = "assistant",
         \A i \in DOMAIN log : Answered(log, i) \/ i = Len(log)
  PROVE  LET closed == Append(log, Tool(Last(log).n)) IN
         /\ closed \in Seq(Message)
         /\ \A i \in DOMAIN closed : Answered(closed, i)
         /\ closed # <<>>
         /\ Last(closed).role = "tool"
<1> DEFINE closed == Append(log, Tool(Last(log).n))
<1>1. Last(log) \in Message /\ Tool(Last(log).n) \in Message
  <2>1. Len(log) \in 1..Len(log)
    OBVIOUS
  <2>2. Last(log) \in Message
    BY <2>1 DEF Last
  <2>3. Last(log).n \in 0..MaxCalls
    BY <2>2 DEF Message
  <2>4. <<>> \in Seq(Msgs)
    OBVIOUS
  <2> QED BY <2>2, <2>3, <2>4 DEF Message, Tool
<1>2. closed \in Seq(Message) /\ Len(closed) = Len(log) + 1
  BY <1>1
<1>3. \A i \in DOMAIN log : closed[i] = log[i]
  BY <1>1
<1>4. closed[Len(log) + 1] = Tool(Last(log).n)
  BY <1>1
<1>5. ASSUME NEW i \in DOMAIN closed
      PROVE  Answered(closed, i)
  <2>1. CASE i = Len(log) + 1
    BY <2>1, <1>4 DEF Answered, Tool
  <2>2. CASE i = Len(log)
    BY <2>2, <1>2, <1>3, <1>4 DEF Answered, Last
  <2>3. CASE i \in DOMAIN log /\ i # Len(log)
    BY <2>3, <1>2, <1>3 DEF Answered
  <2> QED BY <2>1, <2>2, <2>3, <1>2
<1> QED BY <1>2, <1>4, <1>5 DEF Last, Tool

\* Injected messages are user messages: the path stays answered.
LEMMA InjectAnswered ==
  ASSUME NEW log \in Seq(Message), NEW ms \in Seq(Msgs), ms # <<>>,
         \A i \in DOMAIN log : Answered(log, i)
  PROVE  LET said == log \o [i \in 1..Len(ms) |-> User(<<ms[i]>>)] IN
         /\ said \in Seq(Message)
         /\ \A i \in DOMAIN said : Answered(said, i)
         /\ said # <<>>
         /\ Last(said).role = "user"
<1> DEFINE new == [i \in 1..Len(ms) |-> User(<<ms[i]>>)]
           said == log \o new
<1>1. \A i \in 1..Len(ms) : new[i].role = "user" /\ new[i] \in Message
  <2> SUFFICES ASSUME NEW i \in 1..Len(ms)
               PROVE  User(<<ms[i]>>) \in Message
    BY DEF User
  <2>1. ms[i] \in Msgs
    OBVIOUS
  <2>2. <<ms[i]>> \in Seq(Msgs)
    BY <2>1
  <2> QED BY <2>2, SessionConstants DEF User, Message
<1>2. new \in Seq(Message) /\ Len(new) = Len(ms)
  BY <1>1
<1> HIDE DEF new
<1>3. /\ said \in Seq(Message)
      /\ Len(said) = Len(log) + Len(ms)
      /\ \A i \in 1..(Len(log) + Len(ms)) :
           said[i] = IF i <= Len(log) THEN log[i] ELSE new[i - Len(log)]
  <2>1. said \in Seq(Message)
    BY <1>2
  <2>2. Len(said) = Len(log) + Len(ms)
    BY <1>2
  <2>3. ASSUME NEW i \in 1..(Len(log) + Len(ms))
        PROVE  said[i] = IF i <= Len(log) THEN log[i] ELSE new[i - Len(log)]
    BY <1>2
  <2> QED BY <2>1, <2>2, <2>3
<1> HIDE DEF said
<1>4. Len(ms) > 0
  OBVIOUS
<1>5. ASSUME NEW i \in DOMAIN said
      PROVE  Answered(said, i)
  <2>0. i \in 1..(Len(log) + Len(ms))
    BY <1>3
  <2>1. CASE i <= Len(log)
    <3>1. i \in DOMAIN log /\ said[i] = log[i]
      BY <2>0, <2>1, <1>3
    <3>2. i < Len(log) => said[i + 1] = log[i + 1]
      BY <2>0, <2>1, <1>3
    <3> QED BY <3>1, <3>2, <1>3 DEF Answered
  <2>2. CASE i > Len(log)
    <3>1. i - Len(log) \in 1..Len(ms) /\ said[i] = new[i - Len(log)]
      BY <2>0, <2>2, <1>3
    <3>2. said[i].role = "user"
      BY <3>1, <1>1
    <3> QED BY <3>2 DEF Answered
  <2> QED BY <2>0, <2>1, <2>2
<1>6. Last(said).role = "user"
  <2>1. Len(said) - Len(log) \in 1..Len(ms) /\ said[Len(said)] = new[Len(said) - Len(log)]
    BY <1>3, <1>4
  <2> QED BY <2>1, <1>1 DEF Last
<1>7. said # <<>>
  BY <1>3, <1>4
<1> QED BY <1>3, <1>5, <1>6, <1>7 DEF said, new

\* So does inject_steering, which ends the path with a user message.
LEMMA InjectKeeps ==
  ASSUME steering \in Seq(Msgs), steering # <<>>, NEW log \in Seq(Message),
         \A i \in DOMAIN log : Answered(log, i),
         NEW ms \in TakeByMode(steering), Inject(log, ms)
  PROVE  /\ transcript' \in Seq(Message) /\ steering' \in Seq(Msgs)
         /\ \A i \in DOMAIN transcript' : Answered(transcript', i)
         /\ transcript' # <<>>
         /\ Last(transcript').role = "user"
<1>1. ms \in Seq(Msgs) /\ SubSeq(steering, Len(ms) + 1, Len(steering)) \in Seq(Msgs)
  BY RestIsQueue
<1>2. ms # <<>>
  <2>1. <<Head(steering)>> # <<>>
    OBVIOUS
  <2> QED BY <2>1 DEF TakeByMode
<1>3. steering' \in Seq(Msgs)
  BY <1>1 DEF Inject
<1> QED BY <1>1, <1>2, <1>3, InjectAnswered DEF Inject

\* Outside a batch the path is answered throughout.
LEMMA PathAnswered ==
  ASSUME IInv, pc \notin Batching
  PROVE  transcript \in Seq(Message) /\ \A i \in DOMAIN transcript : Answered(transcript, i)
BY DEF IInv, TypeOK, Paired

\* The messages the actions make are messages.
LEMMA MessagesMade ==
  /\ \A ms \in Seq(Msgs) : User(ms) \in Message /\ User(ms).role = "user"
  /\ \A n \in 0..MaxCalls : /\ Answer(n) \in Message
                            /\ Answer(n).role = "assistant" /\ Answer(n).n = n
<1>1. <<>> \in Seq(Msgs) /\ 0 \in 0..MaxCalls
  BY SessionConstants
<1> QED BY <1>1 DEF User, Answer, Message

\* A run begins on an answered path.
LEMMA BeginKeeps ==
  ASSUME IInv, pc \notin Batching, NEW ms \in Seq(Msgs), Begin(transcript, ms)
  PROVE  /\ transcript' \in Seq(Message)
         /\ turn' \in 0..MaxTurns /\ recoveries' \in 0..MaxRecoveries
         /\ requests' \in Nat /\ open' \in Int /\ pc' = "compress"
         /\ Counted' /\ Paired' /\ Prompted'
<1>1. User(ms) \in Message /\ User(ms).role # "assistant"
  BY MessagesMade
<1>2. /\ transcript' \in Seq(Message)
      /\ \A i \in DOMAIN transcript' : Answered(transcript', i)
      /\ transcript' # <<>>
      /\ Last(transcript') = User(ms)
  BY <1>1, PathAnswered, AppendAnswered DEF Begin
<1>3. /\ turn' = 0 /\ recoveries' = 0 /\ requests' = 0 /\ open' = 0
      /\ pc' = "compress"
  BY DEF Begin
<1> QED
  BY <1>1, <1>2, <1>3, SessionConstants DEF Counted, Paired, Prompted, Batching

\* A prompt that ends leaves an answered path behind.
LEMMA EndKeeps ==
  ASSUME transcript' \in Seq(Message),
         \A i \in DOMAIN transcript' : Answered(transcript', i),
         pc' = "idle", UNCHANGED run, Counted
  PROVE  Counted' /\ Paired' /\ Prompted'
BY DEF Counted, Paired, Prompted, Batching, Asking, run

\* The two ways a run returns: the prompt ends, or a follow-up begins.
LEMMA ReturnsKeeps ==
  ASSUME IInv, pc \notin Batching, NEW left \in Int, RunReturns(left)
  PROVE  /\ transcript' \in Seq(Message) /\ followUp' \in Seq(Msgs)
         /\ streaming' \in BOOLEAN
         /\ turn' \in 0..MaxTurns /\ recoveries' \in 0..MaxRecoveries
         /\ requests' \in Nat /\ open' \in Int /\ pc' \in {"idle", "compress"}
         /\ Counted' /\ Paired' /\ Prompted'
<1> USE DEF TypeOK
<1>1. CASE /\ followUp = <<>> /\ streaming' = FALSE /\ open' = left /\ pc' = "idle"
           /\ UNCHANGED <<transcript, run, followUp>>
  BY <1>1, PathAnswered, EndKeeps DEF IInv, run
<1>2. CASE /\ followUp # <<>>
           /\ \E more \in TakeByMode(followUp) :
                /\ Begin(transcript, more)
                /\ followUp' = SubSeq(followUp, Len(more) + 1, Len(followUp))
           /\ UNCHANGED streaming
  <2>1. PICK more \in TakeByMode(followUp) :
                /\ Begin(transcript, more)
                /\ followUp' = SubSeq(followUp, Len(more) + 1, Len(followUp))
    BY <1>2
  <2>2. more \in Seq(Msgs) /\ followUp' \in Seq(Msgs)
    BY <1>2, <2>1, RestIsQueue DEF IInv
  <2> HIDE DEF TypeOK
  <2>3. /\ transcript' \in Seq(Message)
        /\ turn' \in 0..MaxTurns /\ recoveries' \in 0..MaxRecoveries
        /\ requests' \in Nat /\ open' \in Int /\ pc' = "compress"
        /\ Counted' /\ Paired' /\ Prompted'
    BY <2>1, <2>2, BeginKeeps
  <2> QED BY <1>2, <2>2, <2>3 DEF IInv, TypeOK
<1> QED BY <1>1, <1>2 DEF RunReturns

\* An aborted run leaves the path it was given.
LEMMA AbortedKeeps ==
  ASSUME IInv, NEW log \in Seq(Message), \A i \in DOMAIN log : Answered(log, i),
         FinishAborted(log), UNCHANGED <<steering, cancelled, batch, unsent, withdrawn>>
  PROVE  IInv'
<1>1. Counted' /\ Paired' /\ Prompted'
  BY EndKeeps DEF IInv, FinishAborted
<1>2. open' \in Int
  BY DEF IInv, TypeOK, FinishAborted
<1>3. transcript' \in Seq(Message) /\ pc' = "idle" /\ streaming' = FALSE
  BY DEF FinishAborted
<1>4. UNCHANGED <<steering, followUp, cancelled, turn, recoveries, requests,
                  gated, results, unsent, withdrawn>>
  BY DEF FinishAborted, run, batch
<1>5. TypeOK'
  BY <1>2, <1>3, <1>4 DEF IInv, TypeOK
<1> QED BY <1>1, <1>5 DEF IInv

\* IInv holds at the start.
LEMMA InitIInv == Init => IInv
<1>1. /\ <<>> \in Seq(Message) /\ <<>> \in Seq(Msgs)
      /\ <<>> \in Seq(Verdicts) /\ <<>> \in Seq(Outcomes)
  OBVIOUS
<1> SUFFICES ASSUME Init PROVE IInv
  OBVIOUS
<1>2. 0 \in 0..MaxTurns /\ 0 \in 0..MaxRecoveries
  BY SessionConstants
<1>3. TypeOK
  <2>1. /\ transcript \in Seq(Message)
        /\ steering \in Seq(Msgs) /\ followUp \in Seq(Msgs)
        /\ gated \in Seq(Verdicts) /\ results \in Seq(Outcomes)
    BY <1>1 DEF Init
  <2>2. /\ open \in Int /\ requests \in Nat
        /\ turn \in 0..MaxTurns /\ recoveries \in 0..MaxRecoveries
    BY <1>2 DEF Init
  <2>3. cancelled \in BOOLEAN /\ streaming \in BOOLEAN
    BY DEF Init
  <2>4. pc = "idle" /\ unsent \subseteq Msgs /\ withdrawn \subseteq Msgs
    BY DEF Init
  <2> QED BY <2>1, <2>2, <2>3, <2>4 DEF TypeOK
<1> QED
  BY <1>3 DEF IInv, Init, Counted, Paired, Prompted, Batching, Asking

\* What the loop does by itself keeps IInv.
LEMMA LoopKeeps == IInv /\ Loop => IInv'
<1> SUFFICES ASSUME IInv, Loop PROVE IInv'
  OBVIOUS
<1>a. TypeOK /\ Counted /\ Paired /\ Prompted
  BY DEF IInv
<1>1. CASE Compressed
  BY <1>1 DEF IInv, Compressed, Goto, TypeOK, Counted, Paired, Prompted, Batching,
              Asking, queues, run, batch
<1>2. CASE TurnStarts
  BY <1>2, SessionConstants
     DEF IInv, TurnStarts, Goto, TypeOK, Counted, Paired, Prompted, Batching,
         Asking, queues, batch
<1>3. CASE AbortedAtBoundary
  BY <1>3, PathAnswered, AbortedKeeps DEF AbortedAtBoundary, Batching
<1>4. CASE OutOfTurns
  <2>1. open \in Int /\ pc \notin Batching
    BY <1>a, <1>4 DEF OutOfTurns, TypeOK, Batching
  <2>2. RunReturns(open) /\ UNCHANGED <<steering, cancelled, batch, unsent, withdrawn>>
    BY <1>4 DEF OutOfTurns
  <2>3. /\ transcript' \in Seq(Message) /\ followUp' \in Seq(Msgs)
        /\ streaming' \in BOOLEAN
        /\ turn' \in 0..MaxTurns /\ recoveries' \in 0..MaxRecoveries
        /\ requests' \in Nat /\ open' \in Int /\ pc' \in {"idle", "compress"}
        /\ Counted' /\ Paired' /\ Prompted'
    BY <2>1, <2>2, ReturnsKeeps
  <2> QED BY <1>a, <2>2, <2>3 DEF IInv, TypeOK, batch
<1>5. CASE StreamCancelled
  <2>1. pc \notin Batching
    BY <1>5 DEF StreamCancelled, Batching
  <2>2. 0 \in 0..MaxCalls
    BY SessionConstants
  <2>3. Answer(0) \in Message /\ Answer(0).n = 0
    BY <2>2, MessagesMade
  <2>4. PICK log \in {transcript, Append(transcript, Answer(0))} : FinishAborted(log)
    BY <1>5 DEF StreamCancelled
  <2>5. log \in Seq(Message) /\ \A i \in DOMAIN log : Answered(log, i)
    BY <2>1, <2>3, <2>4, PathAnswered, AppendAnswered
  <2>6. UNCHANGED <<steering, cancelled, batch, unsent, withdrawn>>
    BY <1>5 DEF StreamCancelled
  <2> QED BY <2>4, <2>5, <2>6, AbortedKeeps
<1>6. CASE Reviewed
  <2>1. open - 1 \in Int /\ pc \notin Batching
    BY <1>a, <1>6 DEF Reviewed, TypeOK, Batching
  <2>2. RunReturns(open - 1) /\ UNCHANGED <<steering, cancelled, batch, unsent, withdrawn>>
    BY <1>6 DEF Reviewed
  <2>3. /\ transcript' \in Seq(Message) /\ followUp' \in Seq(Msgs)
        /\ streaming' \in BOOLEAN
        /\ turn' \in 0..MaxTurns /\ recoveries' \in 0..MaxRecoveries
        /\ requests' \in Nat /\ open' \in Int /\ pc' \in {"idle", "compress"}
        /\ Counted' /\ Paired' /\ Prompted'
    BY <2>1, <2>2, ReturnsKeeps
  <2> QED BY <1>a, <2>2, <2>3 DEF IInv, TypeOK, batch
<1>7. CASE Gate
  <2>1. PICK v \in Verdicts : gated' = Append(gated, v)
    BY <1>7 DEF Gate
  <2>2. gated' \in Seq(Verdicts)
    BY <1>a, <2>1 DEF TypeOK
  <2>3. pc = "gate" /\ pc' \in {"gate", "exec"}
    BY <1>7 DEF Gate
  <2> QED
    BY <1>7, <1>a, <2>2, <2>3
       DEF IInv, Gate, TypeOK, Counted, Paired, Prompted, Batching, Asking,
           queues, run
<1>8. CASE Execute
  <2>1. results' \in Seq(Outcomes)
    <3>1. \A v : Outcome(v) \in Outcomes
      BY DEF Outcome, Outcomes
    <3>2. [i \in 1..Calls |-> Outcome(gated[i])] \in Seq(Outcomes)
      <4>1. Len(transcript) \in 1..Len(transcript)
        BY <1>8, <1>a DEF Execute, Paired, Batching, TypeOK
      <4>2. transcript[Len(transcript)] \in Message
        BY <4>1, <1>a DEF TypeOK
      <4>3. Calls \in 0..MaxCalls
        BY <4>2 DEF Calls, Last, Message
      <4>4. Calls \in Nat
        BY <4>3, SessionConstants
      <4> QED BY <4>4, <3>1
    <3>3. Append(results, Outcome(gated[Len(results) + 1])) \in Seq(Outcomes)
      BY <3>1, <1>a DEF TypeOK
    <3> QED BY <1>8, <3>2, <3>3 DEF Execute
  <2>2. pc = "exec" /\ pc' \in {"exec", "collect"} /\ Calls' = Calls
    BY <1>8 DEF Execute, Calls
  <2>3. pc' = "collect" => Len(results') = Calls'
    BY <1>8, <2>2 DEF Execute
  <2> QED
    BY <1>8, <1>a, <2>1, <2>2, <2>3
       DEF IInv, Execute, TypeOK, Counted, Paired, Prompted, Batching, Asking,
           queues, run
<1>b. ASSUME pc = "collect"
      PROVE  LET closed == Append(transcript, Tool(Len(results))) IN
             /\ closed \in Seq(Message)
             /\ \A i \in DOMAIN closed : Answered(closed, i)
             /\ closed # <<>>
             /\ Last(closed).role = "tool"
  <2>1. Len(results) = Last(transcript).n
    BY <1>a, <1>b DEF Paired, Calls
  <2>2. /\ transcript \in Seq(Message) /\ transcript # <<>>
        /\ Last(transcript).role = "assistant"
        /\ \A i \in DOMAIN transcript : Answered(transcript, i) \/ i = Len(transcript)
    BY <1>a, <1>b DEF Paired, Batching, TypeOK
  <2> QED BY <2>1, <2>2, CloseBatch
<1>9. CASE Collect
  <2>1. /\ transcript' \in Seq(Message)
        /\ \A i \in DOMAIN transcript' : Answered(transcript', i)
        /\ transcript' # <<>>
        /\ Last(transcript').role = "tool"
    BY <1>9, <1>b DEF Collect
  <2>2. pc' = "squeeze"
    BY <1>9 DEF Collect
  <2> QED
    BY <1>9, <1>a, <2>1, <2>2
       DEF IInv, Collect, TypeOK, Counted, Paired, Prompted, Batching, Asking,
           queues, run, batch
<1>10. CASE CollectCancelled
  BY <1>10, <1>b, AbortedKeeps DEF CollectCancelled
<1>11. CASE TurnEnds
  <2>0. /\ pc = "squeeze" /\ pc' = "boundary" /\ open' = open - 1
        /\ UNCHANGED <<followUp, cancelled, streaming, run, batch, unsent, withdrawn>>
    BY <1>11 DEF TurnEnds, Goto
  <2>1. /\ transcript \in Seq(Message)
        /\ \A i \in DOMAIN transcript : Answered(transcript, i)
    BY <2>0, PathAnswered DEF Batching
  <2>2. /\ transcript' \in Seq(Message) /\ steering' \in Seq(Msgs)
        /\ \A i \in DOMAIN transcript' : Answered(transcript', i)
        /\ transcript' # <<>>
        /\ Last(transcript').role # "assistant"
    <3>1. CASE steering = <<>> /\ UNCHANGED <<transcript, steering>>
      BY <3>1, <2>0, <2>1, <1>a DEF Prompted, Asking, TypeOK
    <3>2. CASE steering # <<>> /\ \E ms \in TakeByMode(steering) : Inject(transcript, ms)
      BY <3>2, <2>1, <1>a, InjectKeeps DEF TypeOK
    <3> QED BY <3>1, <3>2, <1>11 DEF TurnEnds
  <2> QED
    BY <2>0, <2>2, <1>a
       DEF IInv, TypeOK, Counted, Paired, Prompted, Batching, Asking, run, batch
<1> QED
  BY <1>1, <1>2, <1>3, <1>4, <1>5, <1>6, <1>7, <1>8, <1>9, <1>10, <1>11 DEF Loop

\* So does what the provider answers.
LEMMA ProviderKeeps == IInv /\ Provider => IInv'
<1> SUFFICES ASSUME IInv, Provider PROVE IInv'
  OBVIOUS
<1>a. TypeOK /\ Counted /\ Paired /\ Prompted
  BY DEF IInv
<1>b. pc = "stream" /\ pc \notin Batching /\ pc \in Asking
  BY DEF Provider, Overflow, ProviderFails, AnswerSteered, AnswerFinal,
         AnswerCalls, Goto, Batching, Asking
<1>c. /\ transcript \in Seq(Message)
      /\ \A i \in DOMAIN transcript : Answered(transcript, i)
  BY <1>b, PathAnswered
<1>d. LET final == Append(transcript, Answer(0)) IN
      /\ final \in Seq(Message)
      /\ \A i \in DOMAIN final : Answered(final, i)
  <2>1. 0 \in 0..MaxCalls
    BY SessionConstants
  <2>2. Answer(0) \in Message /\ Answer(0).n = 0
    BY <2>1, MessagesMade
  <2> QED BY <2>2, <1>c, AppendAnswered
<1>1. CASE Overflow
  <2>1. /\ recoveries' = recoveries + 1 /\ recoveries < MaxRecoveries
        /\ turn' = turn - 1 /\ pc' = "compress"
        /\ UNCHANGED <<transcript, queues, cancelled, streaming, requests, batch,
                       open, unsent, withdrawn>>
    BY <1>1 DEF Overflow, Goto
  <2>2. turn' \in 0..MaxTurns /\ recoveries' \in 0..MaxRecoveries
    BY <2>1, <1>a, <1>b, SessionConstants DEF TypeOK, Counted
  <2>3. requests' = turn' + recoveries'
    BY <2>1, <1>a, SessionConstants DEF TypeOK, Counted
  <2> QED
    BY <2>1, <2>2, <2>3, <1>a, <1>b
       DEF IInv, TypeOK, Counted, Paired, Prompted, Batching, Asking, queues, batch
<1>2. CASE ProviderFails
  <2>1. /\ pc' = "idle"
        /\ UNCHANGED <<transcript, streaming, run, followUp>>
        /\ UNCHANGED <<steering, cancelled, batch, open, unsent, withdrawn>>
    BY <1>2 DEF ProviderFails, RunFails
  <2>2. Counted' /\ Paired' /\ Prompted'
    BY <2>1, <1>a, <1>c, EndKeeps
  <2> QED BY <2>1, <2>2, <1>a DEF IInv, TypeOK, run, batch
<1>3. CASE AnswerSteered
  <2>1. /\ steering # <<>> /\ pc' = "boundary" /\ open' = open - 1
        /\ UNCHANGED <<followUp, cancelled, streaming, run, batch, unsent, withdrawn>>
    BY <1>3 DEF AnswerSteered, Goto
  <2>2. PICK ms \in TakeByMode(steering) : Inject(Append(transcript, Answer(0)), ms)
    BY <1>3 DEF AnswerSteered
  <2>3. steering \in Seq(Msgs)
    BY <1>a DEF TypeOK
  <2>4. /\ transcript' \in Seq(Message) /\ steering' \in Seq(Msgs)
        /\ \A i \in DOMAIN transcript' : Answered(transcript', i)
        /\ transcript' # <<>>
        /\ Last(transcript').role = "user"
    BY <2>1, <2>2, <2>3, <1>d, InjectKeeps
  <2> QED
    BY <2>1, <2>4, <1>a
       DEF IInv, TypeOK, Counted, Paired, Prompted, Batching, Asking, run, batch
<1>4. CASE AnswerFinal
  <2>1. /\ pc' = "review" /\ transcript' = Append(transcript, Answer(0))
        /\ UNCHANGED <<queues, cancelled, streaming, run, batch, open, unsent, withdrawn>>
    BY <1>4 DEF AnswerFinal, Goto
  <2> QED
    BY <2>1, <1>a, <1>d
       DEF IInv, TypeOK, Counted, Paired, Prompted, Batching, Asking, queues, run, batch
<1>5. CASE AnswerCalls
  <2>1. PICK n \in 1..MaxCalls : transcript' = Append(transcript, Answer(n))
    BY <1>5 DEF AnswerCalls
  <2>2. /\ pc' = "gate" /\ gated' = <<>> /\ results' = <<>>
        /\ UNCHANGED <<queues, cancelled, streaming, run, open, unsent, withdrawn>>
    BY <1>5 DEF AnswerCalls, Goto
  <2>3. /\ Answer(n) \in Message
        /\ Answer(n).role = "assistant" /\ Answer(n).n = n
    <3>1. n \in 0..MaxCalls
      BY SessionConstants
    <3> QED BY <3>1, MessagesMade
  <2>4. /\ transcript' \in Seq(Message)
        /\ Len(transcript') = Len(transcript) + 1
        /\ transcript'[Len(transcript')] = Answer(n)
        /\ \A i \in DOMAIN transcript : transcript'[i] = transcript[i]
    BY <2>1, <2>3, <1>c
  <2>5. \A i \in DOMAIN transcript' : Answered(transcript', i) \/ i = Len(transcript')
    <3> SUFFICES ASSUME NEW i \in DOMAIN transcript', i # Len(transcript')
                 PROVE  Answered(transcript', i)
      OBVIOUS
    <3>1. i \in DOMAIN transcript /\ Answered(transcript, i)
      BY <2>4, <1>c
    <3>2. i < Len(transcript) => transcript'[i + 1] = transcript[i + 1]
      BY <3>1, <2>4, <1>c
    <3> QED BY <3>1, <3>2, <2>4, <1>c DEF Answered
  <2>6. Paired'
    <3>1. transcript' # <<>> /\ Last(transcript') = Answer(n)
      BY <2>4, <1>c DEF Last
    <3> QED BY <3>1, <2>2, <2>3, <2>5 DEF Paired, Batching
  <2>7. gated' \in Seq(Verdicts) /\ results' \in Seq(Outcomes)
    BY <2>2
  <2>8. TypeOK'
    BY <2>2, <2>4, <2>7, <1>a DEF TypeOK, queues, run
  <2> QED BY <2>2, <2>6, <2>8, <1>a DEF IInv, Counted, Prompted, Asking, run
<1> QED BY <1>1, <1>2, <1>3, <1>4, <1>5 DEF Provider

\* So does whatever the host sends.
LEMMA HostKeeps == IInv /\ Host => IInv'
<1> SUFFICES ASSUME IInv, Host PROVE IInv'
  OBVIOUS
<1>a. TypeOK /\ Counted /\ Paired /\ Prompted
  BY DEF IInv
<1>q. /\ steering \in Seq(Msgs) /\ followUp \in Seq(Msgs)
      /\ ToSet(steering) \subseteq Msgs /\ ToSet(followUp) \subseteq Msgs
  BY <1>a DEF TypeOK, ToSet
<1>1. ASSUME NEW m \in Msgs, Prompt(m)
      PROVE  IInv'
  <2>1. /\ pc = "idle" /\ Begin(transcript, <<m>>)
        /\ cancelled' = FALSE /\ streaming' = TRUE
        /\ unsent' = unsent \ {m}
        /\ UNCHANGED <<queues, batch, withdrawn>>
    BY <1>1 DEF Prompt
  <2>2. <<m>> \in Seq(Msgs) /\ pc \notin Batching
    BY <2>1 DEF Batching
  <2>3. /\ transcript' \in Seq(Message)
        /\ turn' \in 0..MaxTurns /\ recoveries' \in 0..MaxRecoveries
        /\ requests' \in Nat /\ open' \in Int /\ pc' = "compress"
        /\ Counted' /\ Paired' /\ Prompted'
    BY <2>1, <2>2, BeginKeeps
  <2> QED BY <2>1, <2>3, <1>a DEF IInv, TypeOK, queues, batch
<1>2. ASSUME NEW m \in Msgs, Steer(m)
      PROVE  IInv'
  <2>1. steering' \in Seq(Msgs)
    BY <1>2, <1>q DEF Steer
  <2> QED
    BY <1>2, <2>1, <1>a
       DEF IInv, Steer, TypeOK, Counted, Paired, Prompted, Calls, run, batch
<1>3. ASSUME NEW m \in Msgs, FollowUp(m)
      PROVE  IInv'
  <2>1. followUp' \in Seq(Msgs)
    BY <1>3, <1>q DEF FollowUp
  <2> QED
    BY <1>3, <2>1, <1>a
       DEF IInv, FollowUp, TypeOK, Counted, Paired, Prompted, Calls, run, batch
<1>4. CASE Abort
  BY <1>4, <1>a
     DEF IInv, Abort, TypeOK, Counted, Paired, Prompted, Calls, queues, run, batch
<1>5. CASE ClearQueue
  <2>1. /\ steering' \in Seq(Msgs) /\ followUp' \in Seq(Msgs)
        /\ withdrawn' \subseteq Msgs
    BY <1>5, <1>a, <1>q DEF ClearQueue, TypeOK
  <2> QED
    BY <1>5, <2>1, <1>a
       DEF IInv, ClearQueue, TypeOK, Counted, Paired, Prompted, Calls, run, batch
<1>6. CASE NewSession
  <2>1. Said(transcript) \subseteq Msgs
    <3> SUFFICES ASSUME NEW i \in DOMAIN transcript
                 PROVE  ToSet(transcript[i].from) \subseteq Msgs
      BY DEF Said
    <3>1. transcript[i] \in Message
      BY <1>a DEF TypeOK
    <3>2. transcript[i].from \in Seq(Msgs)
      BY <3>1 DEF Message
    <3> QED BY <3>2 DEF ToSet
  <2>2. /\ transcript' = <<>> /\ pc = "idle"
        /\ steering' = <<>> /\ followUp' = <<>> /\ cancelled' \in BOOLEAN
        /\ UNCHANGED <<streaming, pc, run, batch, open, unsent>>
    BY <1>6, <1>a DEF NewSession, TypeOK
  <2>3. withdrawn' \subseteq Msgs
    BY <1>6, <1>a, <1>q, <2>1 DEF NewSession, TypeOK
  <2>4. /\ transcript' \in Seq(Message)
        /\ steering' \in Seq(Msgs) /\ followUp' \in Seq(Msgs)
        /\ \A i \in DOMAIN transcript' : Answered(transcript', i)
    BY <2>2
  <2>5. TypeOK'
    BY <2>2, <2>3, <2>4, <1>a DEF TypeOK, run, batch
  <2>6. Counted' /\ Paired' /\ Prompted'
    BY <2>2, <2>4, <1>a, EndKeeps
  <2> QED BY <2>5, <2>6 DEF IInv
<1> QED BY <1>1, <1>2, <1>3, <1>4, <1>5, <1>6 DEF Host

\* IInv is an invariant.
LEMMA Inductive == Spec => []IInv
<1>1. Init => IInv
  BY InitIInv
<1>2. IInv /\ [Next]_vars => IInv'
  <2>1. IInv /\ UNCHANGED vars => IInv'
    BY DEF IInv, vars, queues, run, batch, TypeOK, Counted, Paired, Prompted, Calls
  <2> QED BY <2>1, LoopKeeps, ProviderKeeps, HostKeeps DEF Next
<1> QED BY <1>1, <1>2, PTL DEF Spec

(***************************************************************************)
(* The theorems.                                                           *)
(***************************************************************************)

\* The state of a session keeps its types; in particular the recoveries of a
\* run never exceed their limit and its turns never become negative.
THEOREM TypeCorrect == Spec => []TypeOK
<1>1. IInv => TypeOK
  BY DEF IInv
<1> QED BY <1>1, Inductive, PTL

\* A run asks the provider at most MaxTurns + MaxRecoveries times.
THEOREM RunBounded == Spec => []RequestsBounded
<1>1. IInv => RequestsBounded
  BY SessionConstants DEF IInv, TypeOK, Counted, RequestsBounded
<1> QED BY <1>1, Inductive, PTL

\* Each request carries a path in which every tool call has its result.
THEOREM CallsAnswered == Spec => []EveryCallAnswered
<1>1. IInv => EveryCallAnswered
  BY DEF IInv, Paired, EveryCallAnswered, Batching
<1> QED BY <1>1, Inductive, PTL

\* Each request carries a path that ends with input for the model.
THEOREM InputFirst == Spec => []AsksWithInput
<1>1. IInv => AsksWithInput
  BY DEF IInv, Prompted, AsksWithInput, Asking
<1> QED BY <1>1, Inductive, PTL

\* A turn that streams or works on its calls is one turn open.
Opened ==
  /\ TurnsClosed
  /\ pc \in {"stream", "review", "squeeze"} \cup Batching => open = recoveries + 1

\* Every step opens and closes turns in pairs.
LEMMA OpenedKeeps == TypeOK /\ Opened /\ [Next]_vars => Opened'
<1> SUFFICES ASSUME TypeOK, Opened, [Next]_vars PROVE Opened'
  OBVIOUS
<1>a. open \in Int /\ recoveries \in Int
  BY DEF TypeOK
<1> USE DEF Opened, TurnsClosed, Batching
<1>1. CASE Loop
  <2>1. CASE Compressed \/ TurnStarts \/ TurnEnds \/ Collect
    BY <1>a, <2>1 DEF Compressed, TurnStarts, TurnEnds, Collect, Goto, run
  <2>4. CASE Gate
    <3>1. pc = "gate" /\ pc' \in {"gate", "exec"} /\ open' = open /\ recoveries' = recoveries
      BY <2>4 DEF Gate, run
    <3> QED BY <3>1
  <2>5. CASE Execute
    <3>1. pc = "exec" /\ pc' \in {"exec", "collect"} /\ open' = open /\ recoveries' = recoveries
      BY <2>5 DEF Execute, run
    <3> QED BY <3>1
  <2>2. CASE AbortedAtBoundary \/ StreamCancelled \/ CollectCancelled
    BY <2>2 DEF AbortedAtBoundary, StreamCancelled, CollectCancelled, FinishAborted
  <2>3. CASE OutOfTurns \/ Reviewed
    BY <2>3 DEF OutOfTurns, Reviewed, RunReturns, Begin
  <2> QED BY <1>1, <2>1, <2>2, <2>3, <2>4, <2>5 DEF Loop
<1>2. CASE Provider
  BY <1>a, <1>2 DEF Provider, Overflow, ProviderFails, RunFails, AnswerSteered,
                    AnswerFinal, AnswerCalls, Goto, run
<1>3. CASE Host
  BY <1>3 DEF Host, Prompt, Steer, FollowUp, Abort, ClearQueue, NewSession, Begin, run
<1>4. CASE UNCHANGED vars
  BY <1>4 DEF vars, run
<1> QED BY <1>1, <1>2, <1>3, <1>4 DEF Next

\* At each boundary the turns that began have ended, except those sent again
\* after an overflow (run_turns).
THEOREM TurnsEnd == Spec => []TurnsClosed
<1>1. Init => Opened
  BY DEF Init, Opened, TurnsClosed, Batching
<1>2. TypeOK /\ Opened /\ [Next]_vars => Opened'
  BY OpenedKeeps
<1>3. Opened => TurnsClosed
  BY DEF Opened
<1> QED BY <1>1, <1>2, <1>3, TypeCorrect, PTL DEF Spec

\* The calls of a batch have their verdicts before the first one runs.
Batched ==
  /\ pc = "gate" => Len(gated) < Calls /\ results = <<>>
  /\ pc = "exec" => Len(gated) = Calls /\ Len(results) < Calls

\* Every step keeps the verdicts with the calls.
LEMMA BatchedKeeps == IInv /\ Batched /\ [Next]_vars => Batched'
<1> SUFFICES ASSUME IInv, Batched, [Next]_vars PROVE Batched'
  OBVIOUS
<1>a. /\ gated \in Seq(Verdicts) /\ results \in Seq(Outcomes) /\ transcript \in Seq(Message)
      /\ Len(gated) \in Nat /\ Len(results) \in Nat
  BY DEF IInv, TypeOK
<1>b. pc \in Batching => Calls \in Nat
  <2>1. ASSUME pc \in Batching PROVE Calls \in Nat
    <3>1. transcript # <<>>
      BY <2>1 DEF IInv, Paired
    <3>2. Len(transcript) \in 1..Len(transcript)
      BY <1>a, <3>1
    <3>3. Last(transcript) \in Message
      BY <1>a, <3>2 DEF Last
    <3> QED BY <3>3, SessionConstants DEF Calls, Message
  <2> QED BY <2>1
<1>1. CASE AnswerCalls
  <2>1. PICK n \in 1..MaxCalls : transcript' = Append(transcript, Answer(n))
    BY <1>1 DEF AnswerCalls
  <2>2. Calls' = n
    BY <1>a, <2>1 DEF Calls, Last, Answer
  <2>3. n \in Nat /\ n > 0 /\ Len(<<>>) = 0
    BY SessionConstants
  <2> QED BY <1>1, <2>2, <2>3 DEF AnswerCalls, Goto, Batched
<1>2. CASE Gate
  <2>1. pc = "gate" /\ Calls' = Calls /\ results' = results
    BY <1>2 DEF Gate, Calls
  <2>2. PICK v \in Verdicts : gated' = Append(gated, v)
    BY <1>2 DEF Gate
  <2>3. Len(gated') = Len(gated) + 1
    BY <1>a, <2>2
  <2>4. pc' = IF Len(gated) + 1 = Calls THEN "exec" ELSE "gate"
    BY <1>2 DEF Gate
  <2>5. Calls \in Nat /\ Len(gated) < Calls /\ results = <<>>
    BY <1>b, <2>1 DEF Batched, Batching
  <2>6. Len(results) = 0
    BY <2>5
  <2> QED BY <1>a, <2>1, <2>3, <2>4, <2>5, <2>6 DEF Batched
<1>3. CASE Execute
  <2>1. /\ pc = "exec" /\ Calls' = Calls /\ gated' = gated
        /\ pc' = IF Len(results') = Calls THEN "collect" ELSE "exec"
    BY <1>3 DEF Execute, Calls
  <2>2. Calls \in Nat /\ Len(results) < Calls /\ Len(gated) = Calls
    BY <1>b, <2>1 DEF Batched, Batching
  <2>3. Len(results') = Calls \/ Len(results') = Len(results) + 1
    <3>1. CASE results' = [i \in 1..Calls |-> Outcome(gated[i])]
      BY <2>2, <3>1
    <3>2. CASE results' = Append(results, Outcome(gated[Len(results) + 1]))
      BY <1>a, <3>2
    <3> QED BY <1>3, <3>1, <3>2 DEF Execute
  <2> QED BY <1>a, <2>1, <2>2, <2>3 DEF Batched
<1>4. CASE Loop /\ ~Gate /\ ~Execute
  <2>1. pc' \notin {"gate", "exec"}
    BY <1>4 DEF Loop, Compressed, TurnStarts, AbortedAtBoundary, OutOfTurns, StreamCancelled,
                Reviewed, Collect, CollectCancelled, TurnEnds, FinishAborted, RunReturns, Begin,
                Goto
  <2> QED BY <2>1 DEF Batched
<1>5. CASE Provider /\ ~AnswerCalls
  <2>1. pc' \notin {"gate", "exec"}
    BY <1>5 DEF Provider, Overflow, ProviderFails, AnswerSteered, AnswerFinal, RunFails, Goto
  <2> QED BY <2>1 DEF Batched
<1>6. CASE Host
  <2>1. \/ pc' \notin {"gate", "exec"}
        \/ pc' = pc /\ transcript' = transcript /\ gated' = gated /\ results' = results
    BY <1>6 DEF Host, Prompt, Steer, FollowUp, Abort, ClearQueue, NewSession, Begin, batch
  <2> QED BY <2>1 DEF Batched, Calls
<1>7. CASE UNCHANGED vars
  BY <1>7 DEF vars, batch, Batched, Calls
<1> QED BY <1>1, <1>2, <1>3, <1>4, <1>5, <1>6, <1>7 DEF Next

\* A cancelled call does not run, one by one or in a batch.
LEMMA CancelledRunsNone ==
  ASSUME IInv, Batched, cancelled, Execute
  PROVE  Ran(results') \subseteq Ran(results)
<1>1. \A v \in Verdicts : Outcome(v) # "ran"
  BY DEF Outcome, Verdicts
<1>2. results \in Seq(Outcomes) /\ gated \in Seq(Verdicts) /\ Len(results) \in Nat
  BY DEF IInv, TypeOK
<1>3. Len(gated) = Calls /\ Len(results) < Calls
  BY DEF Execute, Batched
<1>4. \A i \in 1..Calls : Outcome(gated[i]) # "ran"
  BY <1>1, <1>2, <1>3
<1>5. CASE results' = [i \in 1..Calls |-> Outcome(gated[i])]
  BY <1>4, <1>5 DEF Ran
<1>6. CASE results' = Append(results, Outcome(gated[Len(results) + 1]))
  <2>1. Len(results) + 1 \in 1..Calls
    <3>1. Len(gated) \in Nat
      BY <1>2
    <3> QED BY <1>2, <1>3, <3>1
  <2>2. Outcome(gated[Len(results) + 1]) # "ran"
    BY <1>4, <2>1
  <2> QED BY <1>2, <1>6, <2>2 DEF Ran
<1> QED BY <1>5, <1>6 DEF Execute

\* Once aborted, a run sends no request and starts no tool until the next
\* prompt (run_turns, the cancel points).
THEOREM GateOfEffects == Spec => EffectGate
<1> DEFINE Shut == cancelled /\ cancelled' => /\ requests' <= requests
                                             /\ Ran(results') \subseteq Ran(results)
<1>1. IInv /\ Batched /\ [Next]_vars => Shut
  <2> SUFFICES ASSUME IInv, Batched, [Next]_vars, cancelled, cancelled'
               PROVE  requests' <= requests /\ Ran(results') \subseteq Ran(results)
    OBVIOUS
  <2>a. requests \in Nat /\ TypeOK
    BY DEF IInv, TypeOK
  <2>1. CASE Execute
    <3>1. Ran(results') \subseteq Ran(results)
      BY <2>1, CancelledRunsNone
    <3>2. requests' = requests
      BY <2>1 DEF Execute, run
    <3> QED BY <2>a, <3>1, <3>2
  <2>2. CASE Loop /\ ~Execute
    <3>1. CASE Compressed \/ Gate \/ Collect \/ CollectCancelled \/ TurnEnds \/ AbortedAtBoundary
               \/ StreamCancelled
      BY <2>a, <3>1 DEF Compressed, Gate, Collect, CollectCancelled, TurnEnds, AbortedAtBoundary,
                        StreamCancelled, FinishAborted, run, batch, Ran
    <3>2. CASE OutOfTurns \/ Reviewed
      BY <2>a, <3>2 DEF OutOfTurns, Reviewed, RunReturns, Begin, run, batch, Ran
    <3>3. CASE TurnStarts
      BY <3>3 DEF TurnStarts
    <3> QED BY <2>2, <3>1, <3>2, <3>3 DEF Loop
  <2>3. CASE Provider
    BY <2>a, <2>3 DEF Provider, Overflow, ProviderFails, RunFails, AnswerSteered, AnswerFinal,
                      AnswerCalls, run, batch, Ran
  <2>4. CASE Host
    BY <2>a, <2>4 DEF Host, Prompt, Steer, FollowUp, Abort, ClearQueue, NewSession, run, batch, Ran
  <2>5. CASE UNCHANGED vars
    BY <2>a, <2>5 DEF vars, run, batch, Ran
  <2> QED BY <2>1, <2>2, <2>3, <2>4, <2>5 DEF Next
<1>2. Init => Batched
  BY DEF Init, Batched
<1>3. IInv /\ Batched /\ [Next]_vars => Batched'
  BY BatchedKeeps
<1>4. Spec => [][Shut]_vars
  BY <1>1, <1>2, <1>3, Inductive, PTL DEF Spec
<1> QED BY <1>4 DEF EffectGate

(***************************************************************************)
(* Where the messages are.                                                 *)
(***************************************************************************)

\* A take splits a queue in two: its messages are the first ones, in order.
LEMMA TakeSplits ==
  ASSUME NEW q \in Seq(Msgs), q # <<>>, NEW ms \in TakeByMode(q)
  PROVE  LET rest == SubSeq(q, Len(ms) + 1, Len(q)) IN
         /\ ms \in Seq(Msgs) /\ rest \in Seq(Msgs)
         /\ Len(ms) \in 1..Len(q) /\ Len(rest) = Len(q) - Len(ms)
         /\ \A i \in 1..Len(ms) : ms[i] = q[i]
         /\ \A i \in 1..Len(rest) : rest[i] = q[Len(ms) + i]
<1>1. ms \in Seq(Msgs) /\ SubSeq(q, Len(ms) + 1, Len(q)) \in Seq(Msgs)
  BY RestIsQueue
<1>2. Len(q) \in Nat /\ Len(q) # 0
  OBVIOUS
<1>3. Len(ms) \in 1..Len(q) /\ \A i \in 1..Len(ms) : ms[i] = q[i]
  <2>1. CASE ms = <<Head(q)>>
    BY <2>1, <1>2
  <2>2. CASE ms = q
    BY <2>2, <1>2
  <2> QED BY <2>1, <2>2 DEF TakeByMode
<1>4. \A i \in (Len(ms) + 1)..Len(q) : q[i] \in Msgs
  BY <1>3
<1>5. Len(ms) + 1 \in Int /\ Len(q) \in Int
  BY <1>2, <1>3
<1>6. /\ Len(SubSeq(q, Len(ms) + 1, Len(q))) = Len(q) - Len(ms)
      /\ \A i \in 1..(Len(q) - Len(ms)) :
           SubSeq(q, Len(ms) + 1, Len(q))[i] = q[Len(ms) + i]
  BY <1>2, <1>3, <1>4, <1>5, SubSeqProperties
<1> QED BY <1>1, <1>3, <1>6

\* The two halves hold the messages of the queue, each once and in one half.
LEMMA TakeParts ==
  ASSUME NEW q \in Seq(Msgs), q # <<>>, NEW ms \in TakeByMode(q), IsInjective(q)
  PROVE  LET rest == SubSeq(q, Len(ms) + 1, Len(q)) IN
         /\ IsInjective(ms) /\ IsInjective(rest)
         /\ ToSet(ms) \cup ToSet(rest) = ToSet(q)
         /\ ToSet(ms) \cap ToSet(rest) = {}
<1> DEFINE rest == SubSeq(q, Len(ms) + 1, Len(q))
<1>1. /\ ms \in Seq(Msgs) /\ rest \in Seq(Msgs)
      /\ Len(ms) \in 1..Len(q) /\ Len(rest) = Len(q) - Len(ms)
      /\ \A i \in 1..Len(ms) : ms[i] = q[i]
      /\ \A i \in 1..Len(rest) : rest[i] = q[Len(ms) + i]
  BY TakeSplits
<1> HIDE DEF rest
<1>2. /\ DOMAIN q = 1..Len(q) /\ DOMAIN ms = 1..Len(ms) /\ DOMAIN rest = 1..Len(rest)
      /\ Len(q) \in Nat /\ Len(ms) \in Nat /\ Len(rest) \in Nat
  BY <1>1
<1>3. \A i, j \in 1..Len(q) : q[i] = q[j] => i = j
  BY <1>2 DEF IsInjective
<1>4. IsInjective(ms)
  BY <1>1, <1>2, <1>3 DEF IsInjective
<1>5. IsInjective(rest)
  <2> SUFFICES ASSUME NEW i \in 1..Len(rest), NEW j \in 1..Len(rest), rest[i] = rest[j]
               PROVE  i = j
    BY <1>2 DEF IsInjective
  <2>1. /\ Len(ms) + i \in 1..Len(q) /\ Len(ms) + j \in 1..Len(q)
        /\ q[Len(ms) + i] = q[Len(ms) + j]
    BY <1>1, <1>2
  <2> QED BY <2>1, <1>2, <1>3
<1>6. ToSet(ms) \cup ToSet(rest) = ToSet(q)
  <2>1. ToSet(ms) \subseteq ToSet(q)
    BY <1>1, <1>2 DEF ToSet
  <2>2. ToSet(rest) \subseteq ToSet(q)
    <3> SUFFICES ASSUME NEW i \in 1..Len(rest)
                 PROVE  \E j \in 1..Len(q) : q[j] = rest[i]
      BY <1>2 DEF ToSet
    <3>1. Len(ms) + i \in 1..Len(q) /\ q[Len(ms) + i] = rest[i]
      BY <1>1, <1>2
    <3> QED BY <3>1
  <2>3. ASSUME NEW j \in 1..Len(q)
        PROVE  q[j] \in ToSet(ms) \cup ToSet(rest)
    <3>1. CASE j <= Len(ms)
      BY <3>1, <1>1, <1>2 DEF ToSet
    <3>2. CASE j > Len(ms)
      <4>1. j - Len(ms) \in 1..Len(rest)
        BY <3>2, <1>1, <1>2
      <4>2. rest[j - Len(ms)] = q[j]
        BY <4>1, <1>1, <1>2
      <4> QED BY <4>1, <4>2, <1>2 DEF ToSet
    <3> QED BY <3>1, <3>2, <1>2
  <2> QED BY <2>1, <2>2, <2>3, <1>2 DEF ToSet
<1>7. ToSet(ms) \cap ToSet(rest) = {}
  <2> SUFFICES ASSUME NEW i \in 1..Len(ms), NEW j \in 1..Len(rest), ms[i] = rest[j]
               PROVE  FALSE
    BY <1>2 DEF ToSet
  <2>1. i \in 1..Len(q) /\ Len(ms) + j \in 1..Len(q) /\ q[i] = q[Len(ms) + j]
    BY <1>1, <1>2
  <2> QED BY <2>1, <1>2, <1>3
<1> QED BY <1>4, <1>5, <1>6, <1>7 DEF rest

\* What is said after one more message.
LEMMA AppendSays ==
  ASSUME NEW log \in Seq(Message), NEW m \in Message
  PROVE  /\ Said(Append(log, m)) = Said(log) \cup ToSet(m.from)
         /\ SaidOnce(log) /\ IsInjective(m.from) /\ ToSet(m.from) \cap Said(log) = {}
            => SaidOnce(Append(log, m))
<1> DEFINE longer == Append(log, m)
<1>1. /\ DOMAIN longer = 1..(Len(log) + 1) /\ DOMAIN log = 1..Len(log)
      /\ Len(log) \in Nat
      /\ \A i \in 1..Len(log) : longer[i] = log[i]
      /\ longer[Len(log) + 1] = m
  OBVIOUS
<1> HIDE DEF longer
<1>2. \A i \in DOMAIN longer : i \in DOMAIN log \/ i = Len(log) + 1
  BY <1>1
<1>3. \A i \in DOMAIN log : i \in DOMAIN longer /\ longer[i] = log[i]
  BY <1>1
<1>4. Len(log) + 1 \in DOMAIN longer
  BY <1>1
<1>5. Said(longer) = Said(log) \cup ToSet(m.from)
  BY <1>1, <1>2, <1>3, <1>4 DEF Said
<1>6. ASSUME SaidOnce(log), IsInjective(m.from), ToSet(m.from) \cap Said(log) = {}
      PROVE  SaidOnce(longer)
  <2>1. \A i \in DOMAIN log : ToSet(log[i].from) \cap ToSet(m.from) = {}
    BY <1>6 DEF Said
  <2>2. ASSUME NEW i \in DOMAIN longer
        PROVE  IsInjective(longer[i].from)
    BY <1>1, <1>2, <1>3, <1>6 DEF SaidOnce
  <2>3. ASSUME NEW i \in DOMAIN longer, NEW j \in DOMAIN longer, i # j
        PROVE  ToSet(longer[i].from) \cap ToSet(longer[j].from) = {}
    <3>1. CASE i \in DOMAIN log /\ j \in DOMAIN log
      BY <3>1, <2>3, <1>3, <1>6 DEF SaidOnce
    <3>2. CASE i \in DOMAIN log /\ j = Len(log) + 1
      BY <3>2, <2>1, <1>1, <1>3
    <3>3. CASE i = Len(log) + 1 /\ j \in DOMAIN log
      BY <3>3, <2>1, <1>1, <1>3
    <3> QED BY <3>1, <3>2, <3>3, <2>3, <1>2
  <2> QED BY <2>2, <2>3 DEF SaidOnce
<1> QED BY <1>5, <1>6 DEF longer

\* inject_steering after `log': a user message for each message taken.
Injected(log, ms) == log \o [i \in 1..Len(ms) |-> User(<<ms[i]>>)]

\* Where the messages of a path and those injected after it stand.
LEMMA InjectPlaces ==
  ASSUME NEW log \in Seq(Message), NEW ms \in Seq(Msgs)
  PROVE  LET said == Injected(log, ms) IN
         /\ DOMAIN said = 1..(Len(log) + Len(ms))
         /\ \A i \in DOMAIN log : said[i].from = log[i].from
         /\ \A i \in DOMAIN ms : said[Len(log) + i].from = <<ms[i]>>
<1> DEFINE new == [i \in 1..Len(ms) |-> User(<<ms[i]>>)]
<1>1. \A i \in 1..Len(ms) : new[i] \in Message /\ new[i].from = <<ms[i]>>
  <2> SUFFICES ASSUME NEW i \in 1..Len(ms)
               PROVE  User(<<ms[i]>>) \in Message /\ User(<<ms[i]>>).from = <<ms[i]>>
    OBVIOUS
  <2>1. <<ms[i]>> \in Seq(Msgs)
    OBVIOUS
  <2> QED BY <2>1, MessagesMade DEF User
<1>2. new \in Seq(Message) /\ Len(new) = Len(ms)
  BY <1>1
<1> HIDE DEF new
<1>3. /\ log \o new \in Seq(Message) /\ Len(log \o new) = Len(log) + Len(ms)
      /\ \A i \in 1..Len(log) + Len(ms) :
           (log \o new)[i] = IF i <= Len(log) THEN log[i] ELSE new[i - Len(log)]
  <2>1. log \o new \in Seq(Message)
    BY <1>2
  <2>2. Len(log \o new) = Len(log) + Len(ms)
    BY <1>2
  <2>3. ASSUME NEW i \in 1..Len(log) + Len(ms)
        PROVE  (log \o new)[i] = IF i <= Len(log) THEN log[i] ELSE new[i - Len(log)]
    BY <1>2
  <2> QED BY <2>1, <2>2, <2>3
<1>4. DOMAIN (log \o new) = 1..(Len(log) + Len(ms))
  BY <1>3
<1>5. \A i \in DOMAIN log : (log \o new)[i].from = log[i].from
  BY <1>3
<1>6. ASSUME NEW i \in DOMAIN ms
      PROVE  (log \o new)[Len(log) + i].from = <<ms[i]>>
  <2>1. Len(log) + i \in 1..Len(log) + Len(ms) /\ ~(Len(log) + i <= Len(log))
        /\ Len(log) + i - Len(log) = i /\ i \in 1..Len(ms)
    OBVIOUS
  <2>2. (log \o new)[Len(log) + i] = new[i]
    BY <2>1, <1>3
  <2> QED BY <2>1, <2>2, <1>1
<1> QED BY <1>4, <1>5, <1>6 DEF Injected, new

\* What is said after an injection.
LEMMA InjectSays ==
  ASSUME NEW log \in Seq(Message), NEW ms \in Seq(Msgs)
  PROVE  /\ Said(Injected(log, ms)) = Said(log) \cup ToSet(ms)
         /\ SaidOnce(log) /\ IsInjective(ms) /\ ToSet(ms) \cap Said(log) = {}
            => SaidOnce(Injected(log, ms))
<1> DEFINE said == Injected(log, ms)
<1>1. /\ DOMAIN said = 1..(Len(log) + Len(ms))
      /\ \A i \in DOMAIN log : said[i].from = log[i].from
      /\ \A i \in DOMAIN ms : said[Len(log) + i].from = <<ms[i]>>
  BY InjectPlaces
<1> HIDE DEF said
<1>2. /\ Len(log) \in Nat /\ Len(ms) \in Nat
      /\ DOMAIN log = 1..Len(log) /\ DOMAIN ms = 1..Len(ms)
  OBVIOUS
<1>3. \A x : ToSet(<<x>>) = {x} /\ IsInjective(<<x>>)
  BY DEF ToSet, IsInjective
<1>4. \A i \in DOMAIN log : i \in DOMAIN said
  BY <1>1, <1>2
<1>5. \A i \in DOMAIN ms : Len(log) + i \in DOMAIN said
  BY <1>1, <1>2
<1>6. ASSUME NEW k \in DOMAIN said
      PROVE  \/ k \in DOMAIN log
             \/ \E i \in DOMAIN ms : k = Len(log) + i
  <2>1. CASE k <= Len(log)
    BY <2>1, <1>1, <1>2
  <2>2. CASE k > Len(log)
    <3>1. k - Len(log) \in DOMAIN ms /\ k = Len(log) + (k - Len(log))
      BY <2>2, <1>1, <1>2
    <3> QED BY <3>1
  <2> QED BY <2>1, <2>2, <1>1, <1>2
<1>7. Said(said) = Said(log) \cup ToSet(ms)
  <2>1. ASSUME NEW x \in Said(said)
        PROVE  x \in Said(log) \cup ToSet(ms)
    <3>1. PICK k \in DOMAIN said : x \in ToSet(said[k].from)
      BY <2>1 DEF Said
    <3>2. CASE k \in DOMAIN log
      BY <3>1, <3>2, <1>1 DEF Said
    <3>3. CASE \E i \in DOMAIN ms : k = Len(log) + i
      <4>1. PICK i \in DOMAIN ms : k = Len(log) + i
        BY <3>3
      <4>2. x \in {ms[i]}
        BY <4>1, <3>1, <1>1, <1>3
      <4> QED BY <4>2 DEF ToSet
    <3> QED BY <3>2, <3>3, <1>6
  <2>2. Said(log) \subseteq Said(said)
    BY <1>1, <1>4 DEF Said
  <2>3. ASSUME NEW i \in DOMAIN ms
        PROVE  ms[i] \in Said(said)
    <3>1. ms[i] \in ToSet(said[Len(log) + i].from)
      BY <1>1, <1>3
    <3> QED BY <3>1, <1>5 DEF Said
  <2> QED BY <2>1, <2>2, <2>3 DEF ToSet
<1>8. ASSUME SaidOnce(log), IsInjective(ms), ToSet(ms) \cap Said(log) = {}
      PROVE  SaidOnce(said)
  <2>1. ASSUME NEW k \in DOMAIN said
        PROVE  IsInjective(said[k].from)
    <3>1. CASE k \in DOMAIN log
      BY <3>1, <1>1, <1>8 DEF SaidOnce
    <3>2. CASE \E i \in DOMAIN ms : k = Len(log) + i
      BY <3>2, <1>1, <1>3
    <3> QED BY <3>1, <3>2, <1>6
  <2>2. ASSUME NEW i \in DOMAIN log, NEW j \in DOMAIN ms
        PROVE  ToSet(said[i].from) \cap ToSet(said[Len(log) + j].from) = {}
    <3>1. ToSet(said[i].from) \subseteq Said(log)
      BY <1>1 DEF Said
    <3>2. ToSet(said[Len(log) + j].from) = {ms[j]}
      BY <1>1, <1>3
    <3>3. ms[j] \in ToSet(ms)
      BY DEF ToSet
    <3> QED BY <3>1, <3>2, <3>3, <1>8
  <2>3. ASSUME NEW k \in DOMAIN said, NEW l \in DOMAIN said, k # l
        PROVE  ToSet(said[k].from) \cap ToSet(said[l].from) = {}
    <3>1. CASE k \in DOMAIN log /\ l \in DOMAIN log
      BY <3>1, <2>3, <1>1, <1>8 DEF SaidOnce
    <3>2. CASE k \in DOMAIN log /\ \E j \in DOMAIN ms : l = Len(log) + j
      BY <3>2, <2>2
    <3>3. CASE l \in DOMAIN log /\ \E j \in DOMAIN ms : k = Len(log) + j
      BY <3>3, <2>2
    <3>4. CASE /\ \E i \in DOMAIN ms : k = Len(log) + i
               /\ \E j \in DOMAIN ms : l = Len(log) + j
      <4>1. PICK i \in DOMAIN ms : k = Len(log) + i
        BY <3>4
      <4>2. PICK j \in DOMAIN ms : l = Len(log) + j
        BY <3>4
      <4>3. ms[i] # ms[j]
        BY <4>1, <4>2, <2>3, <1>8 DEF IsInjective
      <4>4. ToSet(said[k].from) = {ms[i]} /\ ToSet(said[l].from) = {ms[j]}
        BY <4>1, <4>2, <1>1, <1>3
      <4> QED BY <4>3, <4>4
    <3> QED BY <3>1, <3>2, <3>3, <3>4, <1>6
  <2> QED BY <2>1, <2>3 DEF SaidOnce
<1> QED BY <1>7, <1>8 DEF said

\* The five places a message can be in share none and leave none out.
Apart(A, B, C, D, E) ==
  /\ A \cup B \cup C \cup D \cup E = Msgs
  /\ A \cap B = {} /\ A \cap C = {} /\ A \cap D = {} /\ A \cap E = {}
  /\ B \cap C = {} /\ B \cap D = {} /\ B \cap E = {}
  /\ C \cap D = {} /\ C \cap E = {} /\ D \cap E = {}

Placed ==
  /\ SaidOnce(transcript) /\ IsInjective(steering) /\ IsInjective(followUp)
  /\ Apart(Said(transcript), ToSet(steering), ToSet(followUp), unsent, withdrawn)

LEMMA FiveApart ==
  ASSUME NEW A, NEW B, NEW C, NEW D, NEW E
  PROVE  LET parts == <<A, B, C, D, E>>
         IN  /\ UNION {parts[i] : i \in 1..5} = Msgs
             /\ \A i, j \in 1..5 : i # j => parts[i] \cap parts[j] = {}
             <=> Apart(A, B, C, D, E)
<1> DEFINE parts == <<A, B, C, D, E>>
<1>1. /\ 1..5 = {1, 2, 3, 4, 5}
      /\ parts[1] = A /\ parts[2] = B /\ parts[3] = C /\ parts[4] = D /\ parts[5] = E
  OBVIOUS
<1> HIDE DEF parts
<1>2. UNION {parts[i] : i \in 1..5} = A \cup B \cup C \cup D \cup E
  BY <1>1
<1>3. (\A i, j \in 1..5 : i # j => parts[i] \cap parts[j] = {})
      <=> /\ A \cap B = {} /\ A \cap C = {} /\ A \cap D = {} /\ A \cap E = {}
          /\ B \cap C = {} /\ B \cap D = {} /\ B \cap E = {}
          /\ C \cap D = {} /\ C \cap E = {} /\ D \cap E = {}
  BY <1>1
<1> QED BY <1>2, <1>3 DEF Apart, parts

LEMMA PlacedIs == (NothingLost <=> Placed) /\ (NothingLost' <=> Placed')
<1>1. NothingLost <=> Placed
  BY FiveApart DEF NothingLost, Placed
<1>2. NothingLost' <=> Placed'
  BY FiveApart DEF NothingLost, Placed
<1> QED BY <1>1, <1>2

\* An answer or results say nothing of the user's.
LEMMA AnswerSays ==
  ASSUME NEW log \in Seq(Message), NEW m \in Message, m.from = <<>>
  PROVE  /\ Said(Append(log, m)) = Said(log)
         /\ SaidOnce(log) => SaidOnce(Append(log, m))
<1>1. IsInjective(m.from)
  BY DEF IsInjective
<1>2. ToSet(m.from) = {}
  BY DEF ToSet
<1> QED BY <1>1, <1>2, AppendSays

\* The results of a finished batch are a message.
LEMMA ResultsAreMessage ==
  ASSUME IInv, pc = "collect"
  PROVE  Tool(Len(results)) \in Message /\ Tool(Len(results)).from = <<>>
<1>1. Len(transcript) \in 1..Len(transcript) /\ transcript \in Seq(Message)
  BY DEF IInv, TypeOK, Paired, Batching
<1>2. Last(transcript) \in Message
  BY <1>1 DEF Last
<1>3. Len(results) \in 0..MaxCalls
  BY <1>2 DEF IInv, Paired, Batching, Calls, Message
<1>4. <<>> \in Seq(Msgs)
  OBVIOUS
<1> QED BY <1>3, <1>4 DEF Tool, Message

\* The messages stay where they are when a step says none and moves none.
LEMMA NoneMoves ==
  ASSUME Placed, Said(transcript') = Said(transcript), SaidOnce(transcript'),
         UNCHANGED <<queues, unsent, withdrawn>>
  PROVE  Placed'
BY DEF Placed, queues

\* A steered turn moves what it takes from the queue onto the path.
LEMMA InjectMoves ==
  ASSUME IInv, Placed, steering # <<>>, NEW log \in Seq(Message),
         Said(log) = Said(transcript), SaidOnce(log),
         NEW ms \in TakeByMode(steering), Inject(log, ms),
         UNCHANGED <<followUp, unsent, withdrawn>>
  PROVE  Placed'
<1>1. steering \in Seq(Msgs) /\ IsInjective(steering)
  BY DEF IInv, TypeOK, Placed
<1>2. /\ IsInjective(ms) /\ IsInjective(steering')
      /\ ToSet(ms) \cup ToSet(steering') = ToSet(steering)
      /\ ToSet(ms) \cap ToSet(steering') = {}
  BY <1>1, TakeParts DEF Inject
<1>3. ms \in Seq(Msgs) /\ transcript' = Injected(log, ms)
  BY <1>1, TakeSplits DEF Inject, Injected
<1>4. ToSet(ms) \cap Said(log) = {}
  BY <1>2 DEF Placed, Apart
<1>5. Said(transcript') = Said(transcript) \cup ToSet(ms) /\ SaidOnce(transcript')
  BY <1>2, <1>3, <1>4, InjectSays
<1>6. Apart(Said(transcript'), ToSet(steering'), ToSet(followUp'), unsent', withdrawn')
  BY <1>2, <1>5 DEF Placed, Apart
<1> QED BY <1>2, <1>5, <1>6 DEF Placed

\* A run says the messages it begins with.
LEMMA BeginMoves ==
  ASSUME IInv, Placed, NEW ms \in Seq(Msgs), IsInjective(ms),
         ToSet(ms) \cap Said(transcript) = {}, Begin(transcript, ms)
  PROVE  /\ Said(transcript') = Said(transcript) \cup ToSet(ms)
         /\ SaidOnce(transcript')
<1>1. User(ms) \in Message /\ User(ms).from = ms
  BY MessagesMade DEF User
<1>2. transcript' = Append(transcript, User(ms)) /\ transcript \in Seq(Message)
  BY DEF Begin, IInv, TypeOK
<1> QED BY <1>1, <1>2, AppendSays DEF Placed

\* A run that returns ends the prompt, or begins with follow-ups it takes.
LEMMA ReturnsMoves ==
  ASSUME IInv, Placed, NEW left, RunReturns(left), UNCHANGED <<steering, unsent, withdrawn>>
  PROVE  Placed'
<1>1. CASE followUp = <<>> /\ UNCHANGED <<transcript, run, followUp>>
  BY <1>1 DEF Placed
<1>2. CASE /\ followUp # <<>>
           /\ \E more \in TakeByMode(followUp) :
                /\ Begin(transcript, more)
                /\ followUp' = SubSeq(followUp, Len(more) + 1, Len(followUp))
  <2>1. PICK more \in TakeByMode(followUp) :
                /\ Begin(transcript, more)
                /\ followUp' = SubSeq(followUp, Len(more) + 1, Len(followUp))
    BY <1>2
  <2>2. followUp \in Seq(Msgs) /\ IsInjective(followUp)
    BY DEF IInv, TypeOK, Placed
  <2>3. /\ IsInjective(more) /\ IsInjective(followUp')
        /\ ToSet(more) \cup ToSet(followUp') = ToSet(followUp)
        /\ ToSet(more) \cap ToSet(followUp') = {}
    BY <1>2, <2>1, <2>2, TakeParts
  <2>4. more \in Seq(Msgs)
    BY <1>2, <2>2, TakeSplits
  <2>5. ToSet(more) \cap Said(transcript) = {}
    BY <2>3 DEF Placed, Apart
  <2>6. Said(transcript') = Said(transcript) \cup ToSet(more) /\ SaidOnce(transcript')
    BY <2>1, <2>3, <2>4, <2>5, BeginMoves
  <2>7. Apart(Said(transcript'), ToSet(steering'), ToSet(followUp'), unsent', withdrawn')
    BY <2>3, <2>6 DEF Placed, Apart
  <2> QED BY <2>3, <2>6, <2>7 DEF Placed
<1> QED BY <1>1, <1>2 DEF RunReturns

\* What the loop does moves the messages from place to place.
LEMMA LoopMoves == IInv /\ Placed /\ Loop => Placed'
<1> SUFFICES ASSUME IInv, Placed, Loop PROVE Placed'
  OBVIOUS
<1>a. transcript \in Seq(Message) /\ SaidOnce(transcript)
  BY DEF IInv, TypeOK, Placed
<1>b. Answer(0) \in Message /\ Answer(0).from = <<>>
  BY MessagesMade, SessionConstants DEF Answer
<1>1. CASE Compressed \/ TurnStarts \/ AbortedAtBoundary \/ Gate \/ Execute
  <2>1. UNCHANGED <<transcript, queues, unsent, withdrawn>>
    BY <1>1 DEF Compressed, TurnStarts, AbortedAtBoundary, FinishAborted, Gate, Execute, queues
  <2> QED BY <1>a, <2>1, NoneMoves
<1>2. CASE OutOfTurns
  BY <1>2, ReturnsMoves DEF OutOfTurns
<1>3. CASE Reviewed
  BY <1>3, ReturnsMoves DEF Reviewed
<1>4. CASE StreamCancelled
  <2>1. /\ transcript' \in {transcript, Append(transcript, Answer(0))}
        /\ UNCHANGED <<queues, unsent, withdrawn>>
    BY <1>4 DEF StreamCancelled, FinishAborted, queues
  <2>2. Said(transcript') = Said(transcript) /\ SaidOnce(transcript')
    BY <1>a, <1>b, <2>1, AnswerSays
  <2> QED BY <2>1, <2>2, NoneMoves
<1>5. CASE Collect \/ CollectCancelled
  <2>1. /\ pc = "collect" /\ transcript' = Append(transcript, Tool(Len(results)))
        /\ UNCHANGED <<queues, unsent, withdrawn>>
    BY <1>5 DEF Collect, CollectCancelled, FinishAborted, queues
  <2>2. Said(transcript') = Said(transcript) /\ SaidOnce(transcript')
    BY <1>a, <2>1, AnswerSays, ResultsAreMessage
  <2> QED BY <2>1, <2>2, NoneMoves
<1>6. CASE TurnEnds
  <2>1. UNCHANGED <<followUp, unsent, withdrawn>>
    BY <1>6 DEF TurnEnds
  <2>2. CASE steering = <<>> /\ UNCHANGED <<transcript, steering>>
    BY <1>a, <2>1, <2>2, NoneMoves DEF queues
  <2>3. CASE steering # <<>> /\ \E ms \in TakeByMode(steering) : Inject(transcript, ms)
    BY <1>a, <2>1, <2>3, InjectMoves
  <2> QED BY <1>6, <2>2, <2>3 DEF TurnEnds
<1> QED BY <1>1, <1>2, <1>3, <1>4, <1>5, <1>6 DEF Loop

\* So does what the provider answers.
LEMMA ProviderMoves == IInv /\ Placed /\ Provider => Placed'
<1> SUFFICES ASSUME IInv, Placed, Provider PROVE Placed'
  OBVIOUS
<1>a. transcript \in Seq(Message) /\ SaidOnce(transcript)
  BY DEF IInv, TypeOK, Placed
<1>b. \A n \in 0..MaxCalls :
        /\ Said(Append(transcript, Answer(n))) = Said(transcript)
        /\ SaidOnce(Append(transcript, Answer(n)))
        /\ Append(transcript, Answer(n)) \in Seq(Message)
  <2> SUFFICES ASSUME NEW n \in 0..MaxCalls
               PROVE  /\ Said(Append(transcript, Answer(n))) = Said(transcript)
                      /\ SaidOnce(Append(transcript, Answer(n)))
                      /\ Append(transcript, Answer(n)) \in Seq(Message)
    OBVIOUS
  <2>1. Answer(n) \in Message /\ Answer(n).from = <<>>
    BY MessagesMade DEF Answer
  <2> QED BY <1>a, <2>1, AnswerSays
<1>c. 0 \in 0..MaxCalls /\ 1..MaxCalls \subseteq 0..MaxCalls
  BY SessionConstants
<1>1. CASE Overflow \/ ProviderFails
  <2>1. UNCHANGED <<transcript, queues, unsent, withdrawn>>
    BY <1>1 DEF Overflow, ProviderFails, RunFails, queues
  <2> QED BY <1>a, <2>1, NoneMoves
<1>2. CASE AnswerSteered
  <2>1. steering # <<>> /\ UNCHANGED <<followUp, unsent, withdrawn>>
    BY <1>2 DEF AnswerSteered
  <2>2. PICK ms \in TakeByMode(steering) : Inject(Append(transcript, Answer(0)), ms)
    BY <1>2 DEF AnswerSteered
  <2> QED BY <1>b, <1>c, <2>1, <2>2, InjectMoves
<1>3. CASE AnswerFinal \/ AnswerCalls
  <2>1. PICK n \in 0..MaxCalls : transcript' = Append(transcript, Answer(n))
    BY <1>3, <1>c DEF AnswerFinal, AnswerCalls
  <2>2. UNCHANGED <<queues, unsent, withdrawn>>
    BY <1>3 DEF AnswerFinal, AnswerCalls
  <2> QED BY <1>b, <2>1, <2>2, NoneMoves
<1> QED BY <1>1, <1>2, <1>3 DEF Provider

\* A queue that accepts a message holds it once.
LEMMA QueueAccepts ==
  ASSUME NEW q \in Seq(Msgs), NEW m \in Msgs
  PROVE  /\ ToSet(Append(q, m)) = ToSet(q) \cup {m}
         /\ IsInjective(q) /\ m \notin ToSet(q) => IsInjective(Append(q, m))
<1>1. /\ DOMAIN Append(q, m) = 1..(Len(q) + 1) /\ DOMAIN q = 1..Len(q) /\ Len(q) \in Nat
      /\ \A i \in 1..Len(q) : Append(q, m)[i] = q[i]
      /\ Append(q, m)[Len(q) + 1] = m
  OBVIOUS
<1>2. ToSet(Append(q, m)) = ToSet(q) \cup {m}
  <2>1. \A i \in 1..(Len(q) + 1) : i \in 1..Len(q) \/ i = Len(q) + 1
    BY <1>1
  <2>2. Len(q) + 1 \in 1..(Len(q) + 1) /\ 1..Len(q) \subseteq 1..(Len(q) + 1)
    BY <1>1
  <2> QED BY <1>1, <2>1, <2>2 DEF ToSet
<1>3. ASSUME IsInjective(q), m \notin ToSet(q) PROVE IsInjective(Append(q, m))
  BY <1>1, <1>3 DEF IsInjective, ToSet
<1> QED BY <1>2, <1>3

\* So does the host.
LEMMA HostMoves == IInv /\ Placed /\ Host => Placed'
<1> SUFFICES ASSUME IInv, Placed, Host PROVE Placed'
  OBVIOUS
<1>a. steering \in Seq(Msgs) /\ followUp \in Seq(Msgs) /\ transcript \in Seq(Message)
  BY DEF IInv, TypeOK
<1>b. /\ \A x : ToSet(<<x>>) = {x} /\ IsInjective(<<x>>)
      /\ ToSet(<<>>) = {} /\ IsInjective(<<>>)
  BY DEF ToSet, IsInjective
<1>1. ASSUME NEW m \in Msgs, Prompt(m)
      PROVE  Placed'
  <2>1. /\ m \in unsent /\ Begin(transcript, <<m>>) /\ unsent' = unsent \ {m}
        /\ UNCHANGED <<steering, followUp, withdrawn>>
    BY <1>1 DEF Prompt, queues
  <2>2. m \notin Said(transcript) /\ <<m>> \in Seq(Msgs)
    BY <2>1 DEF Placed, Apart
  <2>3. ToSet(<<m>>) \cap Said(transcript) = {} /\ IsInjective(<<m>>)
    BY <1>b, <2>2
  <2>4. Said(transcript') = Said(transcript) \cup {m} /\ SaidOnce(transcript')
    BY <1>b, <2>1, <2>2, <2>3, BeginMoves
  <2>5. Apart(Said(transcript'), ToSet(steering'), ToSet(followUp'), unsent', withdrawn')
    BY <2>1, <2>4 DEF Placed, Apart
  <2> QED BY <2>1, <2>4, <2>5 DEF Placed
<1>2. ASSUME NEW m \in Msgs, Steer(m)
      PROVE  Placed'
  <2>1. /\ m \in unsent /\ steering' = Append(steering, m) /\ unsent' = unsent \ {m}
        /\ UNCHANGED <<transcript, followUp, withdrawn>>
    BY <1>2 DEF Steer
  <2>2. m \notin ToSet(steering)
    BY <2>1 DEF Placed, Apart
  <2>3. ToSet(steering') = ToSet(steering) \cup {m} /\ IsInjective(steering')
    BY <1>a, <2>1, <2>2, QueueAccepts DEF Placed
  <2>4. Apart(Said(transcript'), ToSet(steering'), ToSet(followUp'), unsent', withdrawn')
    BY <2>1, <2>3 DEF Placed, Apart
  <2> QED BY <2>1, <2>3, <2>4 DEF Placed
<1>3. ASSUME NEW m \in Msgs, FollowUp(m)
      PROVE  Placed'
  <2>1. /\ m \in unsent /\ followUp' = Append(followUp, m) /\ unsent' = unsent \ {m}
        /\ UNCHANGED <<transcript, steering, withdrawn>>
    BY <1>3 DEF FollowUp
  <2>2. m \notin ToSet(followUp)
    BY <2>1 DEF Placed, Apart
  <2>3. ToSet(followUp') = ToSet(followUp) \cup {m} /\ IsInjective(followUp')
    BY <1>a, <2>1, <2>2, QueueAccepts DEF Placed
  <2>4. Apart(Said(transcript'), ToSet(steering'), ToSet(followUp'), unsent', withdrawn')
    BY <2>1, <2>3 DEF Placed, Apart
  <2> QED BY <2>1, <2>3, <2>4 DEF Placed
<1>4. CASE Abort
  BY <1>4, NoneMoves DEF Abort, Placed
<1>5. CASE ClearQueue
  <2>1. /\ steering' = <<>> /\ followUp' = <<>>
        /\ withdrawn' = withdrawn \cup ToSet(steering) \cup ToSet(followUp)
        /\ UNCHANGED <<transcript, unsent>>
    BY <1>5 DEF ClearQueue
  <2>2. Apart(Said(transcript'), ToSet(steering'), ToSet(followUp'), unsent', withdrawn')
    BY <1>b, <2>1 DEF Placed, Apart
  <2> QED BY <1>b, <2>1, <2>2 DEF Placed
<1>6. CASE NewSession
  <2>1. /\ transcript' = <<>> /\ steering' = <<>> /\ followUp' = <<>>
        /\ withdrawn' = withdrawn \cup ToSet(steering) \cup ToSet(followUp)
                         \cup Said(transcript)
        /\ UNCHANGED unsent
    BY <1>6 DEF NewSession
  <2>2. Said(<<>>) = {} /\ SaidOnce(<<>>)
    BY DEF Said, SaidOnce
  <2>3. Apart(Said(transcript'), ToSet(steering'), ToSet(followUp'), unsent', withdrawn')
    BY <1>b, <2>1, <2>2 DEF Placed, Apart
  <2> QED BY <1>b, <2>1, <2>2, <2>3 DEF Placed
<1> QED BY <1>1, <1>2, <1>3, <1>4, <1>5, <1>6 DEF Host

\* A message sent is on the path, in one queue or given back: exactly one of
\* them, and once, whatever is steered, aborted, retried or cleared meanwhile
\* (MessageInbox, inject_steering, merge_queued).
THEOREM MessagesKept == Spec => []NothingLost
<1>1. Init => Placed
  <2> SUFFICES ASSUME Init PROVE Placed
    OBVIOUS
  <2>1. /\ Said(<<>>) = {} /\ SaidOnce(<<>>)
        /\ ToSet(<<>>) = {} /\ IsInjective(<<>>)
    BY DEF Said, SaidOnce, ToSet, IsInjective
  <2> QED BY <2>1 DEF Init, Placed, Apart
<1>2. IInv /\ Placed /\ [Next]_vars => Placed'
  <2>1. IInv /\ Placed /\ UNCHANGED vars => Placed'
    BY DEF vars, queues, Placed
  <2> QED BY <2>1, LoopMoves, ProviderMoves, HostMoves DEF Next
<1>3. Placed => NothingLost
  BY PlacedIs
<1> QED BY <1>1, <1>2, <1>3, Inductive, PTL DEF Spec

(***************************************************************************)
(* The order of the messages.                                              *)
(***************************************************************************)

\* An injection says the messages it takes in the order of the queue, and
\* before those it leaves.
LEMMA InjectOrders ==
  ASSUME TypeOK, steering # <<>>, NEW log \in Seq(Message),
         NEW ms \in TakeByMode(steering), Inject(log, ms)
  PROVE  OrderKept
<1>a. steering \in Seq(Msgs)
  BY DEF TypeOK
<1>1. /\ ms \in Seq(Msgs) /\ steering' \in Seq(Msgs)
      /\ Len(ms) \in 1..Len(steering) /\ Len(steering') = Len(steering) - Len(ms)
      /\ \A i \in 1..Len(ms) : ms[i] = steering[i]
      /\ \A i \in 1..Len(steering') : steering'[i] = steering[Len(ms) + i]
  BY <1>a, TakeSplits DEF Inject
<1>2. /\ DOMAIN steering = 1..Len(steering) /\ DOMAIN steering' = 1..Len(steering')
      /\ DOMAIN ms = 1..Len(ms) /\ Len(log) \in Nat
      /\ Len(steering) \in Nat /\ Len(steering') \in Nat /\ Len(ms) \in Nat
  BY <1>a, <1>1
<1>3. /\ DOMAIN transcript' = 1..(Len(log) + Len(ms))
      /\ \A i \in DOMAIN ms : transcript'[Len(log) + i].from = <<ms[i]>>
  BY <1>1, InjectPlaces DEF Inject, Injected
<1>4. ASSUME NEW i \in 1..Len(ms)
      PROVE  /\ Len(log) + i \in DOMAIN transcript'
             /\ steering[i] \in ToSet(transcript'[Len(log) + i].from)
  <2>1. Len(log) + i \in DOMAIN transcript'
    BY <1>2, <1>3
  <2>2. transcript'[Len(log) + i].from = <<steering[i]>>
    BY <1>1, <1>2, <1>3
  <2>3. \A x : x \in ToSet(<<x>>)
    BY DEF ToSet
  <2> QED BY <2>1, <2>2, <2>3
<1>5. ToSet(steering') \subseteq ToSet(steering)
  <2> SUFFICES ASSUME NEW i \in 1..Len(steering')
               PROVE  \E j \in 1..Len(steering) : steering[j] = steering'[i]
    BY <1>2 DEF ToSet
  <2>1. Len(ms) + i \in 1..Len(steering) /\ steering[Len(ms) + i] = steering'[i]
    BY <1>1, <1>2
  <2> QED BY <2>1
<1>l. ASSUME NEW k \in 1..Len(steering), Len(ms) < k
      PROVE  k - Len(ms) \in 1..Len(steering') /\ steering'[k - Len(ms)] = steering[k]
  <2>1. k - Len(ms) \in 1..Len(steering') /\ Len(ms) + (k - Len(ms)) = k
    BY <1>l, <1>1, <1>2
  <2>2. steering'[k - Len(ms)] = steering[Len(ms) + (k - Len(ms))]
    BY <2>1, <1>1
  <2> QED BY <2>1, <2>2
<1>6. ASSUME NEW a \in Msgs, NEW b \in Msgs, Precedes(steering, a, b)
      PROVE  InOrder(transcript', steering', a, b)
  <2>1. PICK i \in 1..Len(steering), j \in 1..Len(steering) :
               i < j /\ steering[i] = a /\ steering[j] = b
    BY <1>2, <1>6 DEF Precedes
  <2>2. CASE j <= Len(ms)
    <3>1. i \in 1..Len(ms) /\ j \in 1..Len(ms) /\ Len(log) + i < Len(log) + j
      BY <2>1, <2>2, <1>2
    <3>2. SaidBefore(transcript', a, b)
      BY <3>1, <2>1, <1>4 DEF SaidBefore
    <3> QED BY <3>2 DEF InOrder
  <2>3. CASE i <= Len(ms) /\ Len(ms) < j
    <3>1. i \in 1..Len(ms) /\ j - Len(ms) \in 1..Len(steering')
      BY <2>1, <2>3, <1>1, <1>2
    <3>2. steering'[j - Len(ms)] = b
      BY <2>1, <2>3, <1>l
    <3>3. a \in Said(transcript')
      BY <3>1, <2>1, <1>4 DEF Said
    <3>4. b \in ToSet(steering')
      BY <3>1, <3>2, <1>2 DEF ToSet
    <3> QED BY <3>3, <3>4 DEF InOrder
  <2>4. CASE Len(ms) < i
    <3>1. /\ i - Len(ms) \in 1..Len(steering') /\ j - Len(ms) \in 1..Len(steering')
          /\ i - Len(ms) < j - Len(ms)
      BY <2>1, <2>4, <1>1, <1>2
    <3>2. steering'[i - Len(ms)] = a
      BY <2>1, <2>4, <1>l
    <3>3. steering'[j - Len(ms)] = b
      BY <2>1, <2>4, <1>2, <1>l
    <3>4. Precedes(steering', a, b)
      BY <3>1, <3>2, <3>3, <1>2 DEF Precedes
    <3> QED BY <3>4 DEF InOrder
  <2> QED BY <2>1, <2>2, <2>3, <2>4, <1>2
<1> QED BY <1>5, <1>6 DEF OrderKept

\* A step that leaves the queue alone keeps its order.
LEMMA QueueRests ==
  ASSUME UNCHANGED steering
  PROVE  OrderKept
BY DEF OrderKept, InOrder

\* Steering messages reach the path in the order in which they were accepted
\* (inject_steering, take_by_mode).
THEOREM SteeringOrdered == Spec => SteeringInOrder
<1>1. TypeOK /\ [Next]_vars => OrderKept
  <2> SUFFICES ASSUME TypeOK, [Next]_vars PROVE OrderKept
    OBVIOUS
  <2>a. transcript \in Seq(Message) /\ steering \in Seq(Msgs)
    BY DEF TypeOK
  <2>1. CASE Loop /\ ~TurnEnds
    <3>1. UNCHANGED steering
      BY <2>1 DEF Loop, Compressed, TurnStarts, AbortedAtBoundary, OutOfTurns, StreamCancelled,
                  Reviewed, Gate, Execute, Collect, CollectCancelled, queues
    <3> QED BY <3>1, QueueRests
  <2>2. CASE TurnEnds
    BY <2>2, <2>a, QueueRests, InjectOrders DEF TurnEnds
  <2>3. CASE AnswerSteered
    <3>1. Append(transcript, Answer(0)) \in Seq(Message)
      BY <2>a, MessagesMade, SessionConstants
    <3> QED BY <2>3, <3>1, InjectOrders DEF AnswerSteered
  <2>4. CASE Provider /\ ~AnswerSteered
    <3>1. UNCHANGED steering
      BY <2>4 DEF Provider, Overflow, ProviderFails, AnswerFinal, AnswerCalls, queues
    <3> QED BY <3>1, QueueRests
  <2>5. ASSUME NEW m \in Msgs, Steer(m)
        PROVE  OrderKept
    <3>1. steering' = Append(steering, m)
      BY <2>5 DEF Steer
    <3>2. /\ DOMAIN steering' = 1..(Len(steering) + 1) /\ DOMAIN steering = 1..Len(steering)
          /\ Len(steering) \in Nat
          /\ \A i \in 1..Len(steering) : steering'[i] = steering[i]
          /\ steering'[Len(steering) + 1] = m
      BY <2>a, <3>1
    <3>3. ToSet(steering') \ ToSet(steering) \subseteq {m}
      BY <2>a, <3>1, QueueAccepts
    <3>4. ASSUME NEW a \in Msgs, NEW b \in Msgs, Precedes(steering, a, b)
          PROVE  Precedes(steering', a, b)
      BY <3>2, <3>4 DEF Precedes
    <3>5. ASSUME NEW a \in ToSet(steering)
          PROVE  Precedes(steering', a, m)
      <4>1. PICK i \in 1..Len(steering) : steering[i] = a
        BY <3>2, <3>5 DEF ToSet
      <4>2. i \in DOMAIN steering' /\ Len(steering) + 1 \in DOMAIN steering' /\ i < Len(steering) + 1
        BY <3>2
      <4> QED BY <3>2, <4>1, <4>2 DEF Precedes
    <3> QED BY <3>3, <3>4, <3>5 DEF OrderKept, InOrder
  <2>6. CASE ClearQueue \/ NewSession
    <3>1. ToSet(steering) \subseteq withdrawn'
      BY <2>6 DEF ClearQueue, NewSession
    <3>2. \A a, b : Precedes(steering, a, b) => a \in ToSet(steering)
      BY DEF Precedes, ToSet
    <3> QED BY <3>1, <3>2 DEF OrderKept
  <2>7. CASE Abort \/ \E m \in Msgs : Prompt(m) \/ FollowUp(m)
    <3>1. UNCHANGED steering
      BY <2>7 DEF Abort, Prompt, FollowUp, queues
    <3> QED BY <3>1, QueueRests
  <2>8. CASE UNCHANGED vars
    BY <2>8, QueueRests DEF vars, queues
  <2> QED BY <2>1, <2>2, <2>3, <2>4, <2>5, <2>6, <2>7, <2>8 DEF Next, Host
<1> QED BY <1>1, TypeCorrect, PTL DEF Spec, SteeringInOrder
=============================================================================
