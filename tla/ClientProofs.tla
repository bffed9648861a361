---------------------------- MODULE ClientProofs ----------------------------
(***************************************************************************)
(* Three parts of the user's end, for any values of their constants.       *)
(*                                                                         *)
(* Nothing runs that the gate of its agent did not let through, for any    *)
(* number of calls and any interleaving of searches, reloads, /plan and    *)
(* delegation.                                                             *)
(*                                                                         *)
(* What the loops of rpc.rs tell a client is true, for every set of        *)
(* settings and questions, and every number of sessions.  ToldTrue is      *)
(* inductive together with the types: each of its conjuncts relates what   *)
(* was told with what is so, and each handler that moves one of the two    *)
(* moves the other or names the difference in unheard.                     *)
(*                                                                         *)
(* Files keep what was put into them: the edits of a file in its queue,    *)
(* the facts of the memory, the packages in their record.  What is taken   *)
(* out of a sequence is a recursive function there; what it returns is     *)
(* shown by induction with a set of naturals (SetInduction).               *)
(***************************************************************************)
EXTENDS MCClient, FiniteSetTheorems, SequenceTheorems, WellFoundedInduction, TLAPS

-----------------------------------------------------------------------------
(* The gate before a tool *)

\* What was executed, and why it could be.
Ran ==
  \A r \in executed :
    /\ r.cmd = "erase" => r.said
    /\ r.said => approver # "none"
    /\ r.tool \in TG!Mutating => ~r.planning /\ (r.at > 0 => ~snap.plan)
    /\ r.tool \in TG!Builtin /\ r.at = 0 => r.tool \notin filter

\* The table of the session never holds a built-in tool that is left out:
\* apply_tool_filter was there first, and reloading adds extensions only.
Filtered == tools \cap TG!Builtin \cap filter = {}

GateTypes ==
  /\ depth \in Nat
  /\ snap.plan \in BOOLEAN /\ plan \in BOOLEAN

GateInv == GateTypes /\ Filtered /\ Ran

\* The bits of a call that Call's disjuncts leave behind.
Ordered(t, cmd, said) ==
  /\ cmd = "erase" => said
  /\ said => approver # "none"
  /\ ~(TG!Planning /\ t \in TG!Mutating)

LEMMA InitGate == TG!Init => GateInv
<1> SUFFICES ASSUME TG!Init PROVE GateInv
  OBVIOUS
<1>1. GateTypes
  BY DEF TG!Init, GateTypes
<1>2. Filtered
  BY DEF TG!Init, Filtered, TG!Kept
<1>3. Ran
  BY DEF TG!Init, Ran
<1> QED BY <1>1, <1>2, <1>3 DEF GateInv

\* A call of the model executes only what hooks, policy, approval and plan mode
\* have passed, in this order.
LEMMA CallOrdered ==
  ASSUME NEW t, NEW cmd, t # "bash" => cmd = "", TG!Call(t, cmd)
  PROVE  \/ TG!Refused
         \/ \E c, said : TG!Executed(t, c, said) /\ Ordered(t, c, said)
<1> DEFINE c == TG!Hooked(t, cmd)
<1>1. CASE TG!Asks(t, c)
  <2>1. PICK yes \in BOOLEAN :
          /\ TG!Approve(c, yes)
          /\ IF ~yes \/ (TG!Planning /\ t \in TG!Mutating) THEN TG!Refused ELSE TG!Executed(t, c, TRUE)
    BY <1>1 DEF TG!Call
  <2>2. CASE ~yes \/ (TG!Planning /\ t \in TG!Mutating)
    BY <2>1, <2>2
  <2>3. CASE ~(~yes \/ (TG!Planning /\ t \in TG!Mutating))
    <3>1. approver # "none"
      BY <2>1, <2>3 DEF TG!Approve
    <3>2. TG!Executed(t, c, TRUE) /\ Ordered(t, c, TRUE)
      BY <2>1, <2>3, <3>1 DEF Ordered
    <3> QED BY <3>2
  <2> QED BY <2>2, <2>3
<1>2. CASE ~TG!Asks(t, c)
  <2>1. IF TG!Planning /\ t \in TG!Mutating THEN TG!Refused ELSE TG!Executed(t, c, FALSE)
    BY <1>2 DEF TG!Call
  <2>2. CASE TG!Planning /\ t \in TG!Mutating
    BY <2>1, <2>2
  <2>3. CASE ~(TG!Planning /\ t \in TG!Mutating)
    <3>1. c # "erase"
      BY <1>2 DEF TG!Asks, TG!Hooked
    <3>2. TG!Executed(t, c, FALSE) /\ Ordered(t, c, FALSE)
      BY <2>1, <2>3, <3>1 DEF Ordered
    <3> QED BY <3>2
  <2> QED BY <2>2, <2>3
<1> QED BY <1>1, <1>2

LEMMA NextGate == GateInv /\ [TG!Next]_TG!toolGateVars => GateInv'
<1> SUFFICES ASSUME GateInv, [TG!Next]_TG!toolGateVars PROVE GateInv'
  OBVIOUS
<1>a. GateTypes /\ Filtered /\ Ran
  BY DEF GateInv
<1>1. ASSUME NEW query, TG!SearchTools(query) PROVE GateInv'
  BY <1>1, <1>a DEF TG!SearchTools, GateInv, GateTypes, Filtered, Ran
<1>2. ASSUME NEW t, NEW cmd, t # "bash" => cmd = "", TG!Call(t, cmd) PROVE GateInv'
  <2>1. UNCHANGED <<plan, filter, approver, tools, snap>>
    BY <1>2 DEF TG!Call
  <2>2. Filtered'
    BY <2>1, <1>a DEF Filtered
  <2>3. CASE TG!Refused
    BY <2>1, <2>2, <2>3, <1>a DEF TG!Refused, GateInv, GateTypes, Ran
  <2>4. ASSUME NEW c, NEW said, TG!Executed(t, c, said), Ordered(t, c, said) PROVE GateInv'
    <3>1. GateTypes'
      BY <2>1, <2>4, <1>a DEF GateTypes, TG!Executed
    <3>2. ASSUME NEW r \in executed', r \notin executed, t \in TG!Table \cup {"memory"}
          PROVE  /\ r.cmd = "erase" => r.said
                 /\ r.said => approver # "none"
                 /\ r.tool \in TG!Mutating => ~r.planning /\ (r.at > 0 => ~snap.plan)
                 /\ r.tool \in TG!Builtin /\ r.at = 0 => r.tool \notin filter
      <4>1. r = [tool |-> t, cmd |-> c, at |-> depth, planning |-> TG!Planning, said |-> said]
        BY <2>4, <3>2 DEF TG!Executed
      <4>2. r.tool = t /\ r.cmd = c /\ r.at = depth /\ r.planning = TG!Planning /\ r.said = said
        BY <4>1
      <4>3. t \in TG!Mutating => ~TG!Planning /\ (depth > 0 => ~snap.plan)
        BY <2>4, <1>a DEF Ordered, TG!Planning, GateTypes
      <4>4. t \in TG!Builtin /\ depth = 0 => t \notin filter
        BY <3>2, <1>a DEF TG!Table, Filtered, TG!Builtin
      <4> QED BY <4>2, <4>3, <4>4, <2>4 DEF Ordered
    <3>3. Ran'
      BY <3>2, <2>1, <2>4, <1>a DEF Ran, TG!Executed
    <3> QED BY <3>1, <2>2, <3>3 DEF GateInv
  <2> QED BY <1>2, <2>3, <2>4, CallOrdered
<1>3. CASE TG!SubagentEnds
  BY <1>3, <1>a DEF TG!SubagentEnds, GateInv, GateTypes, Filtered, Ran
<1>4. CASE TG!PlanSlash
  BY <1>4, <1>a DEF TG!PlanSlash, GateInv, GateTypes, Filtered, Ran
<1>5. CASE TG!Reloaded
  BY <1>5, <1>a DEF TG!Reloaded, GateInv, GateTypes, Filtered, Ran, TG!Builtin
<1>6. CASE UNCHANGED TG!toolGateVars
  BY <1>6, <1>a DEF TG!toolGateVars, GateInv, GateTypes, Filtered, Ran
<1>7. CASE \E cmd \in TG!Commands : TG!Call("bash", cmd)
  BY <1>7, <1>2
<1>8. CASE \E t \in {"read", "write", "extension", "memory", "subagent"} : TG!Call(t, "")
  BY <1>8, <1>2
<1> QED BY <1>1, <1>3, <1>4, <1>5, <1>6, <1>7, <1>8 DEF TG!Next

\* What is shown went through the filter, found or not: Shown is cut out of
\* Visible, which Kept has cut.
LEMMA ShownIsKept == depth = 0 => (TG!Shown \ {"search_tools"}) \cap filter = {}
BY DEF TG!Shown, TG!Visible, TG!Kept

\* No blocked command without the approver's word, nothing that changes files in
\* plan mode, no tool that was left out, and none shown (rupi-agent: hooks,
\* policy, approval, plan mode, tool filter, discovery).
THEOREM GateHolds == Spec => []GateKept
<1>1. Init => GateInv
  BY InitGate DEF Init
<1>2. [Next]_vars => [TG!Next]_TG!toolGateVars
  BY DEF Next, vars, Others, gateVars, TG!toolGateVars
<1>3. GateInv /\ [Next]_vars => GateInv'
  BY <1>2, NextGate
<1>4. GateInv => GateKept
  BY ShownIsKept DEF GateInv, Ran, GateKept, TG!GateKept
<1> QED BY <1>1, <1>3, <1>4, PTL DEF Spec

-----------------------------------------------------------------------------
(* The JSON-lines service *)

\* At most one question is waited for, said without Cardinality.
OneWait == wait = {} \/ \E d \in Dialogs : wait = {d}

\* TypeOK, as it is proved inductive.
ServeTypes ==
  /\ loop \in {"idle", "prompt", "bash"} /\ flags \subseteq {"streaming", "cancel", "job"}
  /\ on \cup told \subseteq RS!Settings
  /\ {sid, affinity} \subseteq 1..MaxSid /\ title \in 0..MaxSid
  /\ wait \cup entries \cup out \cup screen \subseteq Dialogs /\ OneWait
  /\ cmds \cup registered \subseteq Registrable

LEMMA SameSize == \A S : RS!Cardinality(S) = Cardinality(S)
BY DEF Cardinality, RS!Cardinality

LEMMA ServeTypesGiveTypeOK == ServeTypes => RS!TypeOK
<1> SUFFICES ASSUME ServeTypes PROVE RS!TypeOK
  OBVIOUS
<1>1. Cardinality(wait) <= 1
  <2>1. CASE wait = {}
    BY <2>1, FS_EmptySet
  <2>2. ASSUME NEW d \in Dialogs, wait = {d} PROVE Cardinality(wait) <= 1
    BY <2>2, FS_Singleton
  <2> QED BY <2>1, <2>2 DEF ServeTypes, OneWait
<1> QED BY <1>1, SameSize DEF ServeTypes, RS!TypeOK

LEMMA InitServeTypes == RS!RpcServeAssumption /\ RS!Init => ServeTypes
BY DEF RS!RpcServeAssumption, RS!Init, ServeTypes, OneWait, RS!Settings

LEMMA NextServeTypes == RS!RpcServeAssumption /\ ServeTypes /\ [RS!Next]_RS!serveVars => ServeTypes'
<1> SUFFICES ASSUME RS!RpcServeAssumption, ServeTypes, [RS!Next]_RS!serveVars PROVE ServeTypes'
  OBVIOUS
<1> USE DEF ServeTypes, OneWait, RS!sessVars, RS!askVars, RS!extVars
<1>1. CASE RS!StartPrompt
  BY <1>1 DEF RS!StartPrompt, RS!Idle
<1>2. ASSUME NEW failed \in BOOLEAN, RS!EndPrompt(failed) PROVE ServeTypes'
  BY <1>2 DEF RS!EndPrompt
<1>3. CASE RS!StartBash \/ RS!EndBash
  BY <1>3 DEF RS!StartBash, RS!EndBash, RS!Idle
<1>4. ASSUME NEW s \in RS!Settings, NEW v \in BOOLEAN, RS!Set(s, v) PROVE ServeTypes'
  BY <1>4 DEF RS!Set, RS!Put
<1>5. ASSUME NEW v \in BOOLEAN, RS!SetModel(v) PROVE ServeTypes'
  BY <1>5 DEF RS!SetModel, RS!RpcServeAssumption
<1>6. ASSUME NEW v \in BOOLEAN, RS!SetName(v) PROVE ServeTypes'
  BY <1>6 DEF RS!SetName, RS!RpcServeAssumption
<1>7. CASE RS!Abort \/ \E mine \in BOOLEAN : RS!AbortBash(mine)
  BY <1>7 DEF RS!Abort, RS!AbortBash
<1>8. CASE RS!NewSession \/ RS!Adopt
  <2>1. MaxSid \in Nat /\ sid \in 1..MaxSid /\ sid < MaxSid
    BY <1>8 DEF RS!NewSession, RS!Adopt, RS!RpcServeAssumption
  <2>2. sid + 1 \in 1..MaxSid
    BY <2>1
  <2> QED BY <1>8, <2>2 DEF RS!NewSession, RS!Adopt
<1>9. ASSUME NEW d \in Dialogs, NEW waits \in BOOLEAN, RS!Ask(d, waits) PROVE ServeTypes'
  BY <1>9 DEF RS!Ask, RS!Free
<1>10. ASSUME NEW d \in Dialogs, RS!Reply(d) PROVE ServeTypes'
  BY <1>10 DEF RS!Reply, RS!Idle
<1>11. CASE RS!Show \/ RS!GiveUp
  BY <1>11 DEF RS!Show, RS!GiveUp, RS!Idle
<1>12. CASE RS!Initialized \/ RS!NotInitialized
  BY <1>12 DEF RS!Initialized, RS!NotInitialized, RS!RpcServeAssumption
<1>13. ASSUME NEW c \in Registrable, RS!Register(c) PROVE ServeTypes'
  BY <1>13 DEF RS!Register
<1>14. CASE UNCHANGED RS!serveVars
  BY <1>14 DEF RS!serveVars
<1> QED
  BY <1>1, <1>2, <1>3, <1>4, <1>5, <1>6, <1>7, <1>8, <1>9, <1>10, <1>11,
     <1>12, <1>13, <1>14 DEF RS!Next

-----------------------------------------------------------------------------
(* The conjuncts of ToldTrue, one by one *)

SnapTrue == loop = "prompt" => copy = RS!Snap
SettingsTrue == \A s \in RS!Settings \ unheard : s \in on <=> s \in told
AffinityTrue == "affinity" \in unheard \/ affinity = sid
WaitTrue == wait \ unheard \subseteq out \cup screen /\ wait \subseteq entries
CommandsTrue == registered \ unheard \subseteq cmds

Told == SnapTrue /\ SettingsTrue /\ AffinityTrue /\ WaitTrue /\ CommandsTrue

LEMMA ToldIsToldTrue == Told <=> RS!ToldTrue
BY DEF Told, RS!ToldTrue, SnapTrue, SettingsTrue, AffinityTrue, WaitTrue, CommandsTrue

LEMMA InitTold == RS!Init => Told
BY DEF RS!Init, Told, SnapTrue, SettingsTrue, AffinityTrue, WaitTrue, CommandsTrue

\* What get_state copies changes only while no prompt runs, but for the
\* settings a prompt shares, which are not of the copy.
LEMMA NextSnap == ServeTypes /\ SnapTrue /\ [RS!Next]_RS!serveVars => SnapTrue'
<1> SUFFICES ASSUME ServeTypes, SnapTrue, [RS!Next]_RS!serveVars PROVE SnapTrue'
  OBVIOUS
<1> USE DEF SnapTrue, RS!Snap, RS!sessVars
<1>1. CASE RS!StartPrompt
  BY <1>1 DEF RS!StartPrompt
<1>2. ASSUME NEW failed \in BOOLEAN, RS!EndPrompt(failed) PROVE SnapTrue'
  BY <1>2 DEF RS!EndPrompt
<1>3. CASE RS!StartBash \/ RS!EndBash
  BY <1>3 DEF RS!StartBash, RS!EndBash
<1>4. ASSUME NEW s \in RS!Settings, NEW v \in BOOLEAN, RS!Set(s, v) PROVE SnapTrue'
  <2>1. CASE loop = "prompt"
    <3>1. s \in Live /\ on' = RS!Put(on, s, v)
      BY <1>4, <2>1 DEF RS!Set, RS!Idle
    <3>2. on' \ Live = on \ Live
      BY <3>1 DEF RS!Put
    <3> QED BY <1>4, <2>1, <3>2 DEF RS!Set
  <2>2. CASE loop # "prompt"
    BY <1>4, <2>2 DEF RS!Set
  <2> QED BY <2>1, <2>2
<1>5. ASSUME NEW v \in BOOLEAN, RS!SetModel(v) \/ RS!SetName(v) PROVE SnapTrue'
  BY <1>5 DEF RS!SetModel, RS!SetName, RS!Idle
<1>6. CASE RS!Abort \/ \E mine \in BOOLEAN : RS!AbortBash(mine)
  BY <1>6 DEF RS!Abort, RS!AbortBash
<1>7. CASE RS!NewSession \/ RS!Adopt
  BY <1>7 DEF RS!NewSession, RS!Adopt, RS!Idle
<1>8. ASSUME NEW d \in Dialogs, RS!Reply(d) \/ \E waits \in BOOLEAN : RS!Ask(d, waits) PROVE SnapTrue'
  BY <1>8 DEF RS!Ask, RS!Reply
<1>9. CASE RS!Show \/ RS!GiveUp \/ RS!Initialized \/ RS!NotInitialized
  BY <1>9 DEF RS!Show, RS!GiveUp, RS!Initialized, RS!NotInitialized
<1>10. ASSUME NEW c \in Registrable, RS!Register(c) PROVE SnapTrue'
  BY <1>10 DEF RS!Register
<1>11. CASE UNCHANGED RS!serveVars
  BY <1>11 DEF RS!serveVars
<1> QED
  BY <1>1, <1>2, <1>3, <1>4, <1>5, <1>6, <1>7, <1>8, <1>9, <1>10, <1>11 DEF RS!Next

\* on and told move together, or the setting is unheard; what leaves unheard is
\* that setting, or no setting at all.
LEMMA NextSettings ==
  RS!RpcServeAssumption /\ ServeTypes /\ SettingsTrue /\ [RS!Next]_RS!serveVars => SettingsTrue'
<1> SUFFICES ASSUME RS!RpcServeAssumption, ServeTypes, SettingsTrue, [RS!Next]_RS!serveVars
             PROVE  SettingsTrue'
  OBVIOUS
<1> USE DEF SettingsTrue
<1>1. ASSUME UNCHANGED <<on, told>>, \A s \in RS!Settings : s \in unheard => s \in unheard'
      PROVE  SettingsTrue'
  BY <1>1
<1>2. CASE RS!StartPrompt \/ (\E failed \in BOOLEAN : RS!EndPrompt(failed)) \/ RS!StartBash \/ RS!EndBash
  BY <1>1, <1>2 DEF RS!StartPrompt, RS!EndPrompt, RS!StartBash, RS!EndBash
<1>3. ASSUME NEW s \in RS!Settings, NEW v \in BOOLEAN, RS!Set(s, v) PROVE SettingsTrue'
  BY <1>3 DEF RS!Set, RS!Put
<1>4. ASSUME NEW v \in BOOLEAN, RS!SetModel(v) PROVE SettingsTrue'
  BY <1>4 DEF RS!SetModel
<1>5. ASSUME NEW v \in BOOLEAN, RS!SetName(v) PROVE SettingsTrue'
  BY <1>1, <1>5 DEF RS!SetName
<1>6. CASE RS!Abort \/ \E mine \in BOOLEAN : RS!AbortBash(mine)
  BY <1>1, <1>6 DEF RS!Abort, RS!AbortBash
<1>7. CASE RS!NewSession \/ RS!Adopt
  BY <1>1, <1>7 DEF RS!NewSession, RS!Adopt, RS!RpcServeAssumption
<1>8. ASSUME NEW d \in Dialogs, RS!Reply(d) \/ \E waits \in BOOLEAN : RS!Ask(d, waits)
      PROVE  SettingsTrue'
  BY <1>1, <1>8 DEF RS!Ask, RS!Reply, RS!Idle
<1>9. CASE RS!GiveUp
  BY <1>1, <1>9 DEF RS!GiveUp, RS!RpcServeAssumption, ServeTypes
<1>10. CASE RS!Show \/ RS!Initialized \/ RS!NotInitialized
  BY <1>1, <1>10 DEF RS!Show, RS!Initialized, RS!NotInitialized
<1>11. ASSUME NEW c \in Registrable, RS!Register(c) PROVE SettingsTrue'
  BY <1>1, <1>11 DEF RS!Register
<1>12. CASE UNCHANGED RS!serveVars
  BY <1>1, <1>12 DEF RS!serveVars
<1> QED
  BY <1>2, <1>3, <1>4, <1>5, <1>6, <1>7, <1>8, <1>9, <1>10, <1>11, <1>12 DEF RS!Next

\* The provider is made for another session only together with it; nothing but
\* adopt_session takes "affinity" out of unheard.
LEMMA NextAffinity ==
  RS!RpcServeAssumption /\ ServeTypes /\ AffinityTrue /\ [RS!Next]_RS!serveVars => AffinityTrue'
<1> SUFFICES ASSUME RS!RpcServeAssumption, ServeTypes, AffinityTrue, [RS!Next]_RS!serveVars
             PROVE  AffinityTrue'
  OBVIOUS
<1> USE DEF AffinityTrue, RS!sessVars
<1>1. CASE RS!StartPrompt \/ (\E failed \in BOOLEAN : RS!EndPrompt(failed)) \/ RS!StartBash \/ RS!EndBash
  BY <1>1 DEF RS!StartPrompt, RS!EndPrompt, RS!StartBash, RS!EndBash
<1>2. ASSUME NEW s \in RS!Settings, NEW v \in BOOLEAN, RS!Set(s, v) PROVE AffinityTrue'
  BY <1>2 DEF RS!Set, RS!RpcServeAssumption
<1>3. ASSUME NEW v \in BOOLEAN, RS!SetModel(v) \/ RS!SetName(v) PROVE AffinityTrue'
  BY <1>3 DEF RS!SetModel, RS!SetName
<1>4. CASE RS!Abort \/ \E mine \in BOOLEAN : RS!AbortBash(mine)
  BY <1>4 DEF RS!Abort, RS!AbortBash
<1>5. CASE RS!NewSession \/ RS!Adopt
  BY <1>5 DEF RS!NewSession, RS!Adopt
<1>6. ASSUME NEW d \in Dialogs, RS!Reply(d) \/ \E waits \in BOOLEAN : RS!Ask(d, waits)
      PROVE  AffinityTrue'
  BY <1>6 DEF RS!Ask, RS!Reply
<1>7. CASE RS!GiveUp
  BY <1>7 DEF RS!GiveUp, RS!RpcServeAssumption, ServeTypes
<1>8. CASE RS!Show \/ RS!Initialized \/ RS!NotInitialized
  BY <1>8 DEF RS!Show, RS!Initialized, RS!NotInitialized
<1>9. ASSUME NEW c \in Registrable, RS!Register(c) PROVE AffinityTrue'
  BY <1>9 DEF RS!Register
<1>10. CASE UNCHANGED RS!serveVars
  BY <1>10 DEF RS!serveVars
<1> QED
  BY <1>1, <1>2, <1>3, <1>4, <1>5, <1>6, <1>7, <1>8, <1>9, <1>10 DEF RS!Next

\* A question leaves out for the screen, and the screen with its answer: then
\* it is waited for no more, or it is unheard.
LEMMA NextWait ==
  RS!RpcServeAssumption /\ ServeTypes /\ WaitTrue /\ [RS!Next]_RS!serveVars => WaitTrue'
<1> SUFFICES ASSUME RS!RpcServeAssumption, ServeTypes, WaitTrue, [RS!Next]_RS!serveVars PROVE WaitTrue'
  OBVIOUS
<1> USE DEF WaitTrue, RS!askVars
<1>1. ASSUME UNCHANGED RS!askVars, \A d \in Dialogs : d \in unheard => d \in unheard'
      PROVE  WaitTrue'
  BY <1>1 DEF ServeTypes
<1>2. CASE RS!StartPrompt \/ (\E failed \in BOOLEAN : RS!EndPrompt(failed)) \/ RS!StartBash \/ RS!EndBash
  BY <1>1, <1>2 DEF RS!StartPrompt, RS!EndPrompt, RS!StartBash, RS!EndBash
<1>3. ASSUME NEW s \in RS!Settings, NEW v \in BOOLEAN, RS!Set(s, v) PROVE WaitTrue'
  BY <1>1, <1>3 DEF RS!Set, RS!RpcServeAssumption
<1>4. ASSUME NEW v \in BOOLEAN, RS!SetModel(v) \/ RS!SetName(v) PROVE WaitTrue'
  BY <1>1, <1>4 DEF RS!SetModel, RS!SetName
<1>5. CASE RS!Abort \/ \E mine \in BOOLEAN : RS!AbortBash(mine)
  BY <1>1, <1>5 DEF RS!Abort, RS!AbortBash
<1>6. CASE RS!NewSession \/ RS!Adopt
  BY <1>1, <1>6 DEF RS!NewSession, RS!Adopt, RS!RpcServeAssumption
<1>7. ASSUME NEW d \in Dialogs, NEW waits \in BOOLEAN, RS!Ask(d, waits) PROVE WaitTrue'
  BY <1>7 DEF RS!Ask
<1>8. ASSUME NEW d \in Dialogs, RS!Reply(d) PROVE WaitTrue'
  <2>1. CASE RS!Idle
    BY <1>8, <2>1 DEF RS!Reply
  <2>2. CASE ~RS!Idle
    BY <1>8, <2>2 DEF RS!Reply
  <2> QED BY <2>1, <2>2
<1>9. CASE RS!Show
  BY <1>9 DEF RS!Show
<1>10. CASE RS!GiveUp
  BY <1>10 DEF RS!GiveUp
<1>11. CASE RS!Initialized \/ RS!NotInitialized
  BY <1>1, <1>11 DEF RS!Initialized, RS!NotInitialized
<1>12. ASSUME NEW c \in Registrable, RS!Register(c) PROVE WaitTrue'
  BY <1>1, <1>12 DEF RS!Register
<1>13. CASE UNCHANGED RS!serveVars
  BY <1>1, <1>13 DEF RS!serveVars
<1> QED
  BY <1>2, <1>3, <1>4, <1>5, <1>6, <1>7, <1>8, <1>9, <1>10, <1>11, <1>12, <1>13 DEF RS!Next

\* A registered command stays in the table, unless the answer to `initialize'
\* replaces the table: then it is unheard, and stays so.
LEMMA NextCommands ==
  RS!RpcServeAssumption /\ ServeTypes /\ CommandsTrue /\ [RS!Next]_RS!serveVars => CommandsTrue'
<1> SUFFICES ASSUME RS!RpcServeAssumption, ServeTypes, CommandsTrue, [RS!Next]_RS!serveVars
             PROVE  CommandsTrue'
  OBVIOUS
<1> USE DEF CommandsTrue, RS!extVars
<1>1. ASSUME UNCHANGED <<cmds, registered>>, \A c \in Registrable : c \in unheard => c \in unheard'
      PROVE  CommandsTrue'
  BY <1>1 DEF ServeTypes
<1>2. CASE RS!StartPrompt \/ (\E failed \in BOOLEAN : RS!EndPrompt(failed)) \/ RS!StartBash \/ RS!EndBash
  BY <1>1, <1>2 DEF RS!StartPrompt, RS!EndPrompt, RS!StartBash, RS!EndBash
<1>3. ASSUME NEW s \in RS!Settings, NEW v \in BOOLEAN, RS!Set(s, v) PROVE CommandsTrue'
  BY <1>1, <1>3 DEF RS!Set, RS!RpcServeAssumption
<1>4. ASSUME NEW v \in BOOLEAN, RS!SetModel(v) \/ RS!SetName(v) PROVE CommandsTrue'
  BY <1>1, <1>4 DEF RS!SetModel, RS!SetName
<1>5. CASE RS!Abort \/ \E mine \in BOOLEAN : RS!AbortBash(mine)
  BY <1>1, <1>5 DEF RS!Abort, RS!AbortBash
<1>6. CASE RS!NewSession \/ RS!Adopt
  BY <1>1, <1>6 DEF RS!NewSession, RS!Adopt, RS!RpcServeAssumption
<1>7. ASSUME NEW d \in Dialogs, RS!Reply(d) \/ \E waits \in BOOLEAN : RS!Ask(d, waits)
      PROVE  CommandsTrue'
  BY <1>1, <1>7 DEF RS!Ask, RS!Reply, RS!Idle
<1>8. CASE RS!GiveUp
  BY <1>1, <1>8 DEF RS!GiveUp, RS!RpcServeAssumption, ServeTypes
<1>9. CASE RS!Show \/ RS!NotInitialized
  BY <1>1, <1>9 DEF RS!Show, RS!NotInitialized
<1>10. CASE RS!Initialized
  BY <1>10 DEF RS!Initialized
<1>11. ASSUME NEW c \in Registrable, RS!Register(c) PROVE CommandsTrue'
  BY <1>11 DEF RS!Register
<1>12. CASE UNCHANGED RS!serveVars
  BY <1>1, <1>12 DEF RS!serveVars
<1> QED
  BY <1>2, <1>3, <1>4, <1>5, <1>6, <1>7, <1>8, <1>9, <1>10, <1>11, <1>12 DEF RS!Next

\* What a client was told is so, but for the differences unheard names: the
\* copy that get_state answers from while a prompt runs, the settings, the
\* session of the provider, the question that is waited for and the commands
\* of an extension (rpc.rs handle_during_prompt, handle_during_bash, RpcHost).
THEOREM ToldIsTrue == Spec => []ToldTrue
<1>1. Init => ServeTypes /\ Told
  BY InitServeTypes, InitTold, PartsAssumption DEF Init
<1>2. [Next]_vars => [RS!Next]_RS!serveVars
  BY DEF Next, vars, Others, dispatchVars, RS!serveVars
<1>3. ServeTypes /\ Told /\ [Next]_vars => ServeTypes' /\ Told'
  BY <1>2, NextServeTypes, NextSnap, NextSettings, NextAffinity, NextWait, NextCommands,
     PartsAssumption DEF Told
<1>4. Told => ToldTrue
  BY ToldIsToldTrue DEF ToldTrue
<1> QED BY <1>1, <1>3, <1>4, PTL DEF Spec

-----------------------------------------------------------------------------
(* The queue before a file *)

\* What the proof needs of the constants: a call is made by one of finitely
\* many tasks.
FewTasks == IsFiniteSet(Tasks)

Holding == {"wait", "read", "write", "fill", "reclaim"}

TaskTypes ==
  /\ made \in Nat /\ apart \in BOOLEAN /\ DOMAIN task = Tasks
  /\ \A t \in Tasks :
       /\ DOMAIN task[t] = {"step", "op", "key", "slot", "read"}
       /\ task[t].slot \in Nat

\* One key, and who holds a slot and has not given it back holds the one in
\* the map.
OneSlot ==
  /\ DOMAIN lanes \subseteq {"plain"}
  /\ \A k \in DOMAIN lanes : lanes[k] \in 1..made
  /\ \A t \in Tasks :
       /\ task[t].step # "idle" => task[t].key = "plain"
       /\ task[t].step \in Holding => "plain" \in DOMAIN lanes /\ task[t].slot = lanes["plain"]

\* One task works on the file, and what it read is still there.
OneInside ==
  \A t \in Tasks :
    /\ task[t].step \in FQ!Inside => \A u \in Tasks : task[u].step \in FQ!Inside => u = t
    /\ task[t].step = "write" /\ task[t].op.tool = "edit" => task[t].read = content
    /\ task[t].step = "fill" => content = <<>>

EditInv == TaskTypes /\ (~apart => OneSlot /\ OneInside)

LEMMA InitEdit == FQ!Init => EditInv
<1> SUFFICES ASSUME FQ!Init PROVE EditInv
  OBVIOUS
<1>1. DOMAIN lanes = {}
  BY DEF FQ!Init
<1>2. TaskTypes
  BY DEF FQ!Init, FQ!Idle, TaskTypes
<1>3. \A t \in Tasks : task[t].step = "idle"
  BY DEF FQ!Init, FQ!Idle
<1>4. OneSlot /\ OneInside
  BY <1>1, <1>3 DEF FQ!Inside, Holding, OneSlot, OneInside
<1> QED BY <1>2, <1>4 DEF EditInv

LEMMA SameCount == \A S : FQ!Cardinality(S) = Cardinality(S)
BY DEF Cardinality, FQ!Cardinality

\* strong_count is 2: the map and one task hold it.
LEMMA LastHolders ==
  ASSUME FewTasks, NEW t \in Tasks, DOMAIN lanes \subseteq {"plain"},
         "plain" \in DOMAIN lanes, lanes["plain"] = task[t].slot,
         FQ!Strong(task[t].slot) = 2
  PROVE  {u \in Tasks : task[u].slot = task[t].slot} = {t}
<1> DEFINE H == {u \in Tasks : task[u].slot = task[t].slot}
           K == {k \in DOMAIN lanes : lanes[k] = task[t].slot}
<1>1. FQ!Cardinality(H) + FQ!Cardinality(K) = 2
  BY DEF FQ!Strong
<1>2. K = {"plain"}
  OBVIOUS
<1>3. H \subseteq Tasks /\ t \in H
  OBVIOUS
<1> HIDE DEF H, K
<1>4. Cardinality(K) = 1
  BY <1>2, FS_Singleton
<1>5. IsFiniteSet(H) /\ Cardinality(H) \in Nat
  BY <1>3, FS_Subset, FS_CardinalityType DEF FewTasks
<1>6. Cardinality(H) + Cardinality(K) = 2
  BY <1>1, SameCount
<1>7. PICK x : H = {x}
  <2>1. Cardinality(H) = 1
    BY <1>4, <1>5, <1>6
  <2> QED BY <2>1, <1>5, FS_Singleton
<1> QED BY <1>3, <1>7 DEF H

\* Where a step moves one task, the others keep what they hold.
LEMMA NextEdit == FewTasks /\ EditInv /\ [FQ!Next]_FQ!fileVars => EditInv'
<1> SUFFICES ASSUME FewTasks, EditInv, [FQ!Next]_FQ!fileVars PROVE EditInv'
  OBVIOUS
<1> USE DEF FQ!Inside, Holding
<1>a. TaskTypes /\ (~apart => OneSlot /\ OneInside)
  BY DEF EditInv
<1>1. ASSUME NEW t \in Tasks, NEW op \in Asked, NEW way \in Spellings, FQ!Call(t, op, way)
      PROVE EditInv'
  <2>1. TaskTypes'
    BY <1>1, <1>a DEF TaskTypes, FQ!Call, FQ!Idle
  <2>2. ASSUME ~apart' PROVE OneSlot' /\ OneInside'
    <3>1. task[t].step = "idle" /\ ~apart /\ FQ!MutationKey(way) = "plain"
      <4>1. apart' = (apart \/ FQ!MutationKey(way) # "plain") /\ task[t] = FQ!Idle
        BY <1>1 DEF FQ!Call
      <4>2. FQ!Idle.step = "idle"
        BY DEF FQ!Idle
      <4> QED BY <4>1, <4>2, <2>2
    <3>2. /\ UNCHANGED <<lanes, made, content>>
          /\ \A u \in Tasks \ {t} : task'[u] = task[u]
          /\ task'[t].step = "enter" /\ task'[t].key = "plain"
      BY <1>1, <1>a, <3>1 DEF TaskTypes, FQ!Call
    <3>3. OneSlot'
      BY <1>a, <3>1, <3>2 DEF OneSlot
    <3>4. OneInside'
      BY <1>a, <3>1, <3>2 DEF OneInside
    <3> QED BY <3>3, <3>4
  <2> QED BY <2>1, <2>2 DEF EditInv
<1>2. ASSUME NEW t \in Tasks, FQ!Enter(t) PROVE EditInv'
  <2>1. TaskTypes'
    BY <1>2, <1>a DEF TaskTypes, OneSlot, FQ!Enter
  <2>2. ASSUME ~apart' PROVE OneSlot' /\ OneInside'
    <3>1. OneSlot'
      BY <1>2, <1>a, <2>2 DEF TaskTypes, OneSlot, FQ!Enter
    <3>2. OneInside'
      BY <1>2, <1>a, <2>2 DEF TaskTypes, OneInside, FQ!Enter
    <3> QED BY <3>1, <3>2
  <2> QED BY <2>1, <2>2 DEF EditInv
<1>3. ASSUME NEW t \in Tasks, FQ!Lock(t) PROVE EditInv'
  <2>1. TaskTypes'
    BY <1>3, <1>a DEF TaskTypes, FQ!Lock, FQ!Move
  <2>2. ASSUME ~apart' PROVE OneSlot' /\ OneInside'
    BY <1>3, <1>a, <2>2 DEF TaskTypes, OneSlot, OneInside, FQ!Lock, FQ!Move
  <2> QED BY <2>1, <2>2 DEF EditInv
<1>4. ASSUME NEW t \in Tasks, FQ!Read(t) PROVE EditInv'
  <2>1. TaskTypes'
    BY <1>4, <1>a DEF TaskTypes, FQ!Read, FQ!Move
  <2>2. ASSUME ~apart' PROVE OneSlot' /\ OneInside'
    BY <1>4, <1>a, <2>2 DEF TaskTypes, OneSlot, OneInside, FQ!Read, FQ!Move
  <2> QED BY <2>1, <2>2 DEF EditInv
<1>5. ASSUME NEW t \in Tasks, FQ!Truncate(t) PROVE EditInv'
  <2>1. TaskTypes'
    BY <1>5, <1>a DEF TaskTypes, FQ!Truncate, FQ!Move
  <2>2. ASSUME ~apart' PROVE OneSlot' /\ OneInside'
    BY <1>5, <1>a, <2>2 DEF TaskTypes, OneSlot, OneInside, FQ!Truncate, FQ!Move
  <2> QED BY <2>1, <2>2 DEF EditInv
<1>6. ASSUME NEW t \in Tasks, FQ!WriteFails(t) PROVE EditInv'
  <2>1. TaskTypes'
    BY <1>6, <1>a DEF TaskTypes, FQ!WriteFails, FQ!Move
  <2>2. ASSUME ~apart' PROVE OneSlot' /\ OneInside'
    BY <1>6, <1>a, <2>2 DEF TaskTypes, OneSlot, OneInside, FQ!WriteFails, FQ!Move
  <2> QED BY <2>1, <2>2 DEF EditInv
<1>7. ASSUME NEW t \in Tasks, FQ!Fill(t) PROVE EditInv'
  <2>1. TaskTypes'
    BY <1>7, <1>a DEF TaskTypes, FQ!Fill
  <2>2. ASSUME ~apart' PROVE OneSlot' /\ OneInside'
    BY <1>7, <1>a, <2>2 DEF TaskTypes, OneSlot, OneInside, FQ!Fill
  <2> QED BY <2>1, <2>2 DEF EditInv
<1>8. ASSUME NEW t \in Tasks, FQ!Reclaim(t) PROVE EditInv'
  <2>1. TaskTypes'
    BY <1>8, <1>a DEF TaskTypes, FQ!Reclaim, FQ!Move
  <2>2. ASSUME ~apart' PROVE OneSlot' /\ OneInside'
    <3>0. ~apart /\ OneSlot /\ OneInside /\ task[t].step = "reclaim" /\ task[t].key = "plain"
      BY <1>8, <1>a, <2>2 DEF OneSlot, FQ!Reclaim
    <3>1. CASE FQ!Strong(task[t].slot) = 2
      <4>1. "plain" \in DOMAIN lanes /\ lanes["plain"] = task[t].slot
        BY <3>0 DEF OneSlot
      <4>2. \A u \in Tasks : task[u].step \in Holding => u = t
        <5>1. \A u \in Tasks : task[u].slot = task[t].slot => u = t
          <6>1. {u \in Tasks : task[u].slot = task[t].slot} = {t}
            BY <1>8, <3>0, <3>1, <4>1, LastHolders DEF OneSlot
          <6> QED BY <6>1
        <5> QED BY <5>1, <3>0, <4>1 DEF OneSlot
      <4>3. lanes' = [k \in {} |-> lanes[k]]
        BY <1>8, <3>0, <3>1 DEF OneSlot, FQ!Reclaim
      <4>4. OneSlot'
        BY <1>8, <1>a, <3>0, <4>2, <4>3 DEF TaskTypes, OneSlot, FQ!Reclaim, FQ!Move
      <4>5. OneInside'
        BY <1>8, <1>a, <3>0 DEF TaskTypes, OneInside, FQ!Reclaim, FQ!Move
      <4> QED BY <4>4, <4>5
    <3>2. CASE FQ!Strong(task[t].slot) # 2
      BY <1>8, <1>a, <3>0, <3>2 DEF TaskTypes, OneSlot, OneInside, FQ!Reclaim, FQ!Move
    <3> QED BY <3>1, <3>2
  <2> QED BY <2>1, <2>2 DEF EditInv
<1>9. ASSUME NEW t \in Tasks, FQ!DropSlot(t) PROVE EditInv'
  <2>1. TaskTypes'
    BY <1>9, <1>a DEF TaskTypes, FQ!DropSlot, FQ!Idle
  <2>2. ASSUME ~apart' PROVE OneSlot' /\ OneInside'
    BY <1>9, <1>a, <2>2 DEF TaskTypes, OneSlot, OneInside, FQ!DropSlot, FQ!Idle
  <2> QED BY <2>1, <2>2 DEF EditInv
<1>10. CASE UNCHANGED FQ!fileVars
  BY <1>10, <1>a DEF FQ!fileVars, EditInv, TaskTypes, OneSlot, OneInside
<1> QED BY <1>1, <1>2, <1>3, <1>4, <1>5, <1>6, <1>7, <1>8, <1>9, <1>10 DEF FQ!Next

-----------------------------------------------------------------------------
(* Induction over the naturals, as a statement about sets *)

\* A set of naturals has a least element.
LEMMA LeastNat ==
  ASSUME NEW T, T \subseteq Nat, T # {}
  PROVE  \E x \in T : \A y \in T : x <= y
<1> DEFINE R == {p \in Nat \X Nat : p[1] < p[2]}
<1>1. IsWellFoundedOn(R, Nat)
  BY NatLessThanWellFounded DEF OpToRel
<1>2. \A x, y \in Nat : x < y => <<x, y>> \in R
  OBVIOUS
<1> HIDE DEF R
<1>3. PICK x \in T : \A y \in T : ~(<<y, x>> \in R)
  BY <1>1, WFMin
<1>4. \A y \in T : x <= y
  <2> TAKE y \in T
  <2>1. x \in Nat /\ y \in Nat
    OBVIOUS
  <2>2. ~(y < x)
    BY <1>2, <1>3, <2>1
  <2> QED BY <2>1, <2>2
<1> QED BY <1>4

LEMMA SetInduction ==
  ASSUME NEW T, 0 \in T, \A n \in Nat : n \in T => n + 1 \in T
  PROVE  Nat \subseteq T
<1> SUFFICES ASSUME Nat \ T # {} PROVE FALSE
  OBVIOUS
<1>1. PICK m \in Nat \ T : \A y \in Nat \ T : m <= y
  BY LeastNat
<1>2. m # 0 /\ m - 1 \in Nat
  BY <1>1
<1>3. m - 1 \in T
  BY <1>1, <1>2
<1> QED BY <1>1, <1>2, <1>3

\* There is the function that takes the elements of s outside B one by one, and
\* what it ends with is a sequence of what s has.
KeepsFrom(f, s, B, m) ==
  f = [i \in 0..m |-> IF i = 0 THEN <<>>
                      ELSE IF i \in B THEN f[i - 1] ELSE Append(f[i - 1], s[i])]

LEMMA KeptExists ==
  ASSUME NEW S, NEW s \in Seq(S), NEW B
  PROVE  \E f : KeepsFrom(f, s, B, Len(s))
<1> DEFINE T == {n \in Nat : n <= Len(s) => \E f : KeepsFrom(f, s, B, n)}
<1>1. 0 \in T
  <2> DEFINE f == [i \in 0..0 |-> <<>>]
  <2>1. KeepsFrom(f, s, B, 0)
    BY DEF KeepsFrom
  <2> QED BY <2>1
<1>2. ASSUME NEW n \in Nat, n \in T PROVE n + 1 \in T
  <2> SUFFICES ASSUME n + 1 <= Len(s) PROVE \E f : KeepsFrom(f, s, B, n + 1)
    OBVIOUS
  <2>1. PICK f : KeepsFrom(f, s, B, n)
    BY <1>2
  <2> DEFINE g == [i \in 0..(n + 1) |->
                     IF i <= n THEN f[i]
                     ELSE IF i \in B THEN f[n] ELSE Append(f[n], s[i])]
             h == [i \in 0..(n + 1) |->
                     IF i = 0 THEN <<>>
                     ELSE IF i \in B THEN g[i - 1] ELSE Append(g[i - 1], s[i])]
  <2>2. \A i \in 0..n : g[i] = f[i]
    OBVIOUS
  <2>3. ASSUME NEW i \in 0..(n + 1) PROVE g[i] = h[i]
    <3>1. CASE i = 0
      BY <2>1, <3>1 DEF KeepsFrom
    <3>2. CASE i \in 1..n
      <4>1. f[i] = IF i \in B THEN f[i - 1] ELSE Append(f[i - 1], s[i])
        <5>1. i \in 0..n /\ i # 0
          BY <3>2
        <5> QED BY <2>1, <5>1 DEF KeepsFrom
      <4>2. g[i - 1] = f[i - 1] /\ g[i] = f[i]
        BY <3>2
      <4>3. h[i] = IF i \in B THEN g[i - 1] ELSE Append(g[i - 1], s[i])
        BY <3>2
      <4> HIDE DEF g, h
      <4> QED BY <4>1, <4>2, <4>3
    <3>3. CASE i = n + 1
      <4>1. g[i - 1] = f[n]
        BY <3>3
      <4>2. h[i] = IF i \in B THEN g[i - 1] ELSE Append(g[i - 1], s[i])
        BY <3>3
      <4>3. g[i] = IF i \in B THEN f[n] ELSE Append(f[n], s[i])
        BY <3>3
      <4> HIDE DEF g, h
      <4> QED BY <4>1, <4>2, <4>3
    <3> QED BY <3>1, <3>2, <3>3
  <2>4. g = h
    BY <2>3
  <2>5. KeepsFrom(g, s, B, n + 1)
    BY <2>4 DEF KeepsFrom
  <2> QED BY <2>5
<1>3. Len(s) \in T
  <2> HIDE DEF T
  <2> QED BY <1>1, <1>2, SetInduction
<1> QED BY <1>3

\* What is kept of a sequence over S is one over S.
LEMMA KeptInside ==
  ASSUME NEW S, NEW s \in Seq(S), NEW B, NEW f, KeepsFrom(f, s, B, Len(s))
  PROVE  f[Len(s)] \in Seq(S)
<1> DEFINE T == {n \in Nat : n <= Len(s) => f[n] \in Seq(S)}
<1>1. 0 \in T
  BY DEF KeepsFrom
<1>2. ASSUME NEW n \in Nat, n \in T PROVE n + 1 \in T
  <2> SUFFICES ASSUME n + 1 <= Len(s) PROVE f[n + 1] \in Seq(S)
    OBVIOUS
  <2>1. f[n + 1] = IF n + 1 \in B THEN f[n] ELSE Append(f[n], s[n + 1])
    <3>1. n + 1 \in 0..Len(s) /\ n + 1 # 0 /\ (n + 1) - 1 = n
      OBVIOUS
    <3> QED BY <3>1 DEF KeepsFrom
  <2>2. f[n] \in Seq(S) /\ s[n + 1] \in S
    BY <1>2
  <2> QED BY <2>1, <2>2
<1>3. Len(s) \in T
  <2> HIDE DEF T
  <2> QED BY <1>1, <1>2, SetInduction
<1> QED BY <1>3

LEMMA RetainInside ==
  ASSUME NEW S, NEW s \in Seq(S), NEW e
  PROVE  MF!Retain(s, e) \in Seq(S)
<1> DEFINE B == {i \in 1..Len(s) : s[i] = e}
           Is(f) == f = [i \in 0..Len(s) |->
                           IF i = 0 THEN <<>>
                           ELSE IF s[i] = e THEN f[i - 1] ELSE Append(f[i - 1], s[i])]
<1>1. ASSUME NEW f PROVE Is(f) <=> KeepsFrom(f, s, B, Len(s))
  <2> DEFINE g == [i \in 0..Len(s) |->
                           IF i = 0 THEN <<>>
                           ELSE IF s[i] = e THEN f[i - 1] ELSE Append(f[i - 1], s[i])]
             h == [i \in 0..Len(s) |->
                           IF i = 0 THEN <<>>
                           ELSE IF i \in B THEN f[i - 1] ELSE Append(f[i - 1], s[i])]
  <2>1. g = h
    <3>1. ASSUME NEW i \in 0..Len(s) PROVE g[i] = h[i]
      <4>1. i # 0 => (i \in B <=> s[i] = e)
        OBVIOUS
      <4> HIDE DEF B
      <4> QED BY <4>1
    <3> QED BY <3>1
  <2> QED BY <2>1 DEF KeepsFrom
<1>2. MF!Retain(s, e) = (CHOOSE f : Is(f))[Len(s)]
  BY DEF MF!Retain
<1>3. \E f : Is(f)
  BY <1>1, KeptExists
<1> HIDE DEF Is
<1>4. Is(CHOOSE f : Is(f))
  BY <1>3
<1> QED BY <1>1, <1>2, <1>4, KeptInside

-----------------------------------------------------------------------------
(* The memory of the local programs *)

\* What the proof needs of the constants: the line that says others were
\* dropped is no fact.
MarkIsNoFact == MF!Mark \notin Facts

LEMMA SeqGrows == ASSUME NEW S, NEW T, S \subseteq T, NEW s \in Seq(S) PROVE s \in Seq(T)
<1>1. \A i \in 1..Len(s) : s[i] \in T
  OBVIOUS
<1> QED BY <1>1

LEMMA FitInside ==
  ASSUME NEW S, NEW s \in Seq(S), MF!Mark \in S
  PROVE  MF!Fit(s) \in Seq(S)
<1>1. Limit \in Nat /\ Limit # 0
  BY MCClientAssumption
<1>2. ASSUME Len(s) > Limit
      PROVE  <<MF!Mark>> \o SubSeq(s, Len(s) - Limit + 1, Len(s)) \in Seq(S)
  <2>1. SubSeq(s, Len(s) - Limit + 1, Len(s)) \in Seq(S)
    <3>1. \A i \in (Len(s) - Limit + 1)..Len(s) : s[i] \in S
      BY <1>1, <1>2
    <3> QED BY <3>1, <1>1, <1>2, SubSeqProperties
  <2>2. <<MF!Mark>> \in Seq(S)
    OBVIOUS
  <2> QED BY <2>1, <2>2
<1>3. Len(s) \in Nat
  OBVIOUS
<1> QED BY <1>1, <1>2, <1>3 DEF MF!Fit

LEMMA ReplaceInside ==
  ASSUME NEW S, NEW s \in Seq(S), NEW i, NEW e \in S
  PROVE  [s EXCEPT ![i] = e] \in Seq(S)
<1> DEFINE t == [s EXCEPT ![i] = e]
<1>1. DOMAIN t = 1..Len(s) /\ \A k \in 1..Len(s) : t[k] \in S
  OBVIOUS
<1>2. t = [k \in 1..Len(s) |-> t[k]]
  OBVIOUS
<1> HIDE DEF t
<1>3. t \in [1..Len(s) -> S]
  BY <1>1, <1>2
<1>4. t \in Seq(S)
  BY <1>3
<1> QED BY <1>4 DEF t

Steps == {"free", "write", "mirror", "fit", "compact", "done"}
Jobs ==
  [step : Steps, doc : Docs \cup {""}, text : Seq(MF!Lines), row : SUBSET Facts,
   keeps : SUBSET Facts, drops : SUBSET Facts]

MemTypes ==
  /\ doc \in [Docs -> Seq(MF!Lines)]
  /\ table \subseteq SUBSET Facts /\ noted \subseteq Facts /\ frail \subseteq Facts
  /\ writer \in [Writers -> Jobs]
  /\ \A w \in Writers : writer[w].step # "free" => writer[w].doc \in Docs /\ writer[w].keeps \subseteq writer[w].row

LEMMA JobMoves ==
  ASSUME NEW w \in Writers, MemTypes, NEW s \in Steps, writer' = [writer EXCEPT ![w].step = s]
  PROVE  /\ \A u \in Writers \ {w} : writer'[u] = writer[u]
         /\ writer' \in [Writers -> Jobs]
         /\ writer'[w].step = s /\ writer'[w].doc = writer[w].doc
         /\ writer'[w].row = writer[w].row /\ writer'[w].keeps = writer[w].keeps
<1> DEFINE j == [writer[w] EXCEPT !.step = s]
<1>1. writer[w] \in Jobs
  BY DEF MemTypes
<1>2. j \in Jobs /\ j.step = s /\ j.doc = writer[w].doc /\ j.row = writer[w].row /\ j.keeps = writer[w].keeps
  BY <1>1 DEF Jobs
<1>3. writer' = [writer EXCEPT ![w] = j]
  OBVIOUS
<1> HIDE DEF j
<1> QED BY <1>2, <1>3 DEF MemTypes

\* The facts that are in the table, that are named as frail, or that a writer
\* is about to put into one of the two.
Recorded ==
  {e \in Facts :
     \/ \E r \in table : e \in r
     \/ e \in frail
     \/ \E w \in Writers : writer[w].step = "mirror" /\ e \in writer[w].row}

Readable == Recorded \cup {MF!Mark}

\* No file has a line, and nobody was told of a fact, that is not recorded; what
\* a writer holds is recorded but for the row it brings.
MemCovered ==
  /\ noted \subseteq Recorded
  /\ \A d \in Docs : doc[d] \in Seq(Readable)
  /\ \A w \in Writers :
       /\ writer[w].step = "write" => writer[w].text \in Seq(Readable \cup writer[w].row)
       /\ writer[w].step = "compact" => writer[w].text \in Seq(Readable)
       /\ writer[w].step \in {"mirror", "fit", "compact", "done"} => writer[w].row \subseteq Recorded

MemInv == MemTypes /\ MemCovered

LEMMA InitMem == MF!Init => MemInv
<1> SUFFICES ASSUME MF!Init PROVE MemInv
  OBVIOUS
<1>1. MF!Free \in Jobs /\ MF!Free.step = "free"
  BY DEF MF!Free, Jobs, Steps
<1>2. \A S : <<>> \in Seq(S)
  OBVIOUS
<1>3. MemTypes
  BY <1>1, <1>2 DEF MF!Init, MemTypes
<1>4. MemCovered
  BY <1>1, <1>2 DEF MF!Init, MemCovered
<1> QED BY <1>3, <1>4 DEF MemInv

\* A step that keeps every record and writes nothing unrecorded keeps what is
\* covered: the conjuncts for the files and the writers it leaves alone.
LEMMA CoveredGrows ==
  ASSUME MemInv, Recorded \subseteq Recorded'
  PROVE  /\ noted \subseteq Recorded'
         /\ \A d \in Docs : doc[d] \in Seq(Readable')
         /\ \A w \in Writers :
              /\ writer[w].step = "write" => writer[w].text \in Seq(Readable' \cup writer[w].row)
              /\ writer[w].step = "compact" => writer[w].text \in Seq(Readable')
              /\ writer[w].step \in {"mirror", "fit", "compact", "done"} => writer[w].row \subseteq Recorded'
<1>1. Readable \subseteq Readable'
  BY DEF Readable
<1>2. \A w \in Writers : Readable \cup writer[w].row \subseteq Readable' \cup writer[w].row
  BY <1>1
<1>3. \A d \in Docs : doc[d] \in Seq(Readable')
  <2> TAKE d \in Docs
  <2>1. doc[d] \in Seq(Readable)
    BY DEF MemInv, MemCovered
  <2> QED BY <1>1, <2>1, SeqGrows
<1>4. ASSUME NEW w \in Writers, writer[w].step = "write"
      PROVE  writer[w].text \in Seq(Readable' \cup writer[w].row)
  <2>1. writer[w].text \in Seq(Readable \cup writer[w].row)
    BY <1>4 DEF MemInv, MemCovered
  <2> QED BY <1>2, <2>1, SeqGrows
<1>5. ASSUME NEW w \in Writers, writer[w].step = "compact" PROVE writer[w].text \in Seq(Readable')
  <2>1. writer[w].text \in Seq(Readable)
    BY <1>5 DEF MemInv, MemCovered
  <2> QED BY <1>1, <2>1, SeqGrows
<1> QED BY <1>3, <1>4, <1>5 DEF MemInv, MemCovered

\* Begin: a text of recorded lines and the row it brings.
LEMMA NextBegin ==
  ASSUME MemInv, NEW w \in Writers, NEW d \in Docs, NEW words, NEW row \in SUBSET Facts,
         NEW keeps \in SUBSET Facts, NEW drops \in SUBSET Facts, keeps \subseteq row,
         words \in Seq(Readable \cup row), words \in Seq(MF!Lines),
         MF!Begin(w, d, words, row, keeps, drops)
  PROVE  MemInv'
<1> DEFINE n == [step |-> "write", doc |-> d, text |-> words, row |-> row, keeps |-> keeps, drops |-> drops]
<1>1. /\ UNCHANGED <<doc, table, noted, frail>>
      /\ writer[w].step = "free"
      /\ writer' = [writer EXCEPT ![w] = n]
  <2>1. MF!Free.step = "free"
    BY DEF MF!Free
  <2> QED BY <2>1 DEF MF!Begin
<1>2. n \in Jobs /\ n.step = "write" /\ n.doc = d /\ n.keeps = keeps /\ n.row = row /\ n.text = words
  BY DEF Jobs, Steps
<1> HIDE DEF n
<1>3. writer'[w] = n /\ \A u \in Writers \ {w} : writer'[u] = writer[u]
  BY <1>1 DEF MemInv, MemTypes
<1>4. MemTypes'
  BY <1>1, <1>2, <1>3 DEF MemInv, MemTypes
<1>5. Recorded' = Recorded
  BY <1>1, <1>2, <1>3 DEF Recorded
<1>6. MemCovered'
  BY <1>1, <1>2, <1>3, <1>5 DEF MemInv, MemCovered, Readable
<1> QED BY <1>4, <1>6 DEF MemInv

LEMMA NextMem == MarkIsNoFact /\ MemInv /\ [MF!Next]_MF!memVars => MemInv'
<1> SUFFICES ASSUME MarkIsNoFact, MemInv, [MF!Next]_MF!memVars PROVE MemInv'
  OBVIOUS
<1>a. MemTypes /\ MemCovered
  BY DEF MemInv
<1>b. \A d \in Docs : doc[d] \in Seq(Readable) /\ doc[d] \in Seq(MF!Lines)
  BY <1>a DEF MemTypes, MemCovered
<1>c. Facts \subseteq MF!Lines /\ MF!Mark \in MF!Lines /\ MF!Mark \in Readable
  BY DEF MF!Lines, Readable
<1>1. ASSUME NEW w \in Writers, NEW d \in Docs, NEW e \in Facts, MF!AddNothing(w, d, e)
      PROVE MemInv'
  <2>1. UNCHANGED <<doc, table, writer, frail>> /\ noted' = noted \cup {e}
    BY <1>1 DEF MF!AddNothing
  <2>2. e \in Readable
    BY <1>1, <1>b DEF MF!AddNothing, MF!Range
  <2>3. e \in Recorded
    BY <2>2 DEF Readable, MarkIsNoFact
  <2>4. Recorded' = Recorded
    BY <2>1 DEF Recorded
  <2>5. MemTypes'
    BY <2>1, <1>a DEF MemTypes
  <2>6. MemCovered'
    BY <2>1, <2>3, <2>4, <1>a DEF MemCovered, Readable
  <2> QED BY <2>5, <2>6 DEF MemInv
<1>2. ASSUME NEW w \in Writers, NEW d \in Docs, NEW e \in Facts, MF!Add(w, d, e) PROVE MemInv'
  <2>1. doc[d] \in Seq(Readable \cup {e})
    BY <1>b, SeqGrows
  <2>2. Append(doc[d], e) \in Seq(Readable \cup {e}) /\ Append(doc[d], e) \in Seq(MF!Lines)
    BY <2>1, <1>b, <1>c
  <2>3. MF!Begin(w, d, Append(doc[d], e), {e}, {e}, {})
    BY <1>2 DEF MF!Add
  <2> DEFINE words == Append(doc[d], e)
  <2> HIDE DEF words
  <2>4. {e} \in SUBSET Facts /\ {} \in SUBSET Facts
    OBVIOUS
  <2> QED BY <2>2, <2>3, <2>4, NextBegin DEF words
<1>3. ASSUME NEW w \in Writers, NEW d \in Docs, NEW e \in Facts, MF!ReplaceFile(w, d, e) PROVE MemInv'
  <2>1. <<e>> \in Seq(Readable \cup {e}) /\ <<e>> \in Seq(MF!Lines)
    BY <1>c
  <2>2. MF!Begin(w, d, <<e>>, {e}, {e}, {})
    BY <1>3 DEF MF!ReplaceFile
  <2>3. {e} \in SUBSET Facts /\ {} \in SUBSET Facts
    OBVIOUS
  <2> DEFINE words == <<e>>
  <2>4. words = <<e>>
    OBVIOUS
  <2> HIDE DEF words
  <2> QED BY <2>1, <2>2, <2>3, <2>4, NextBegin
<1>4. ASSUME NEW w \in Writers, NEW d \in Docs, NEW e \in Facts, MF!RemoveLines(w, d, e) PROVE MemInv'
  <2>1. MF!Retain(doc[d], e) \in Seq(Readable) /\ MF!Retain(doc[d], e) \in Seq(MF!Lines)
    BY <1>b, RetainInside
  <2>2. MF!Retain(doc[d], e) \in Seq(Readable \cup {e})
    BY <2>1, SeqGrows
  <2>3. MF!Begin(w, d, MF!Retain(doc[d], e), {e}, {}, {e})
    BY <1>4 DEF MF!RemoveLines
  <2> QED BY <2>1, <2>2, <2>3, NextBegin
<1>5. ASSUME NEW w \in Writers, NEW d \in Docs, NEW e \in Facts, NEW new \in Facts,
             MF!Replace(w, d, e, new)
      PROVE MemInv'
  <2>1. doc[d] \in Seq(Readable \cup {e, new})
    BY <1>b, SeqGrows
  <2>2. CASE MF!Begin(w, d, doc[d], {e, new}, {}, {})
    BY <2>1, <2>2, <1>b, NextBegin
  <2>3. ASSUME NEW k, MF!Begin(w, d, [doc[d] EXCEPT ![k] = new], {e, new}, {new}, {e})
        PROVE  MemInv'
    <3>1. /\ [doc[d] EXCEPT ![k] = new] \in Seq(Readable \cup {e, new})
          /\ [doc[d] EXCEPT ![k] = new] \in Seq(MF!Lines)
      BY <2>1, <1>b, <1>c, ReplaceInside
    <3>2. {new} \subseteq {e, new} /\ {e, new} \in SUBSET Facts /\ {e} \in SUBSET Facts /\ {new} \in SUBSET Facts
      OBVIOUS
    <3> DEFINE words == [doc[d] EXCEPT ![k] = new]
    <3>3. words \in Seq(Readable \cup {e, new}) /\ words \in Seq(MF!Lines)
      BY <3>1
    <3>4. MF!Begin(w, d, words, {e, new}, {new}, {e})
      BY <2>3
    <3> HIDE DEF words
    <3> QED BY <3>2, <3>3, <3>4, NextBegin
  <2> QED BY <1>5, <2>2, <2>3 DEF MF!Replace
<1>6. ASSUME NEW w \in Writers, MF!Write(w) PROVE MemInv'
  <2>1. /\ writer[w].step = "write" /\ writer[w].doc \in Docs
        /\ doc' = [doc EXCEPT ![writer[w].doc] = writer[w].text]
        /\ writer' = [writer EXCEPT ![w].step = "mirror"]
        /\ noted' \subseteq noted /\ UNCHANGED <<table, frail>>
    BY <1>6, <1>a DEF MF!Write, MemTypes
  <2>2. /\ \A u \in Writers \ {w} : writer'[u] = writer[u]
        /\ writer'[w].step = "mirror" /\ writer'[w].row = writer[w].row
        /\ writer'[w].keeps = writer[w].keeps /\ writer'[w].doc = writer[w].doc
        /\ writer' \in [Writers -> Jobs] /\ writer[w].row \subseteq Facts
    <3>1. writer[w].row \subseteq Facts
      BY <1>a DEF MemTypes, Jobs
    <3> QED BY <2>1, <3>1, <1>a, JobMoves DEF Steps
  <2>3. Recorded \subseteq Recorded' /\ writer[w].row \subseteq Recorded'
    BY <2>1, <2>2 DEF Recorded
  <2>4. MemTypes'
    BY <2>1, <2>2, <1>a DEF MemTypes, Jobs
  <2>5. writer[w].text \in Seq(Readable')
    <3>1. Readable \cup writer[w].row \subseteq Readable'
      BY <2>3 DEF Readable
    <3>2. writer[w].text \in Seq(Readable \cup writer[w].row)
      BY <2>1, <1>a DEF MemCovered
    <3> QED BY <3>1, <3>2, SeqGrows
  <2>6. MemCovered'
    BY <2>1, <2>2, <2>3, <2>5, <1>a, CoveredGrows DEF MemCovered, MemTypes
  <2> QED BY <2>4, <2>6 DEF MemInv
<1>7. ASSUME NEW w \in Writers, MF!Mirror(w) PROVE MemInv'
  <2>1. /\ writer[w].step = "mirror"
        /\ writer' = [writer EXCEPT ![w].step = "fit"]
        /\ UNCHANGED <<doc, noted>>
    BY <1>7 DEF MF!Mirror
  <2>2. /\ \A u \in Writers \ {w} : writer'[u] = writer[u]
        /\ writer'[w].step = "fit" /\ writer'[w].row = writer[w].row
        /\ writer'[w].keeps = writer[w].keeps /\ writer'[w].doc = writer[w].doc
        /\ writer' \in [Writers -> Jobs] /\ writer[w].row \subseteq Facts
    <3>1. writer[w].row \subseteq Facts
      BY <1>a DEF MemTypes, Jobs
    <3> QED BY <2>1, <3>1, <1>a, JobMoves DEF Steps
  <2>3. Recorded \subseteq Recorded' /\ writer[w].row \subseteq Recorded'
    <3>1. CASE table' = table \cup {writer[w].row} /\ frail' = frail \ writer[w].row
      BY <3>1, <2>1, <2>2 DEF Recorded
    <3>2. CASE frail' = frail \cup (writer[w].row \ UNION table) /\ UNCHANGED table
      <4>1. \A e \in Facts : e \in UNION table => \E r \in table : e \in r
        OBVIOUS
      <4> QED BY <3>2, <2>1, <2>2, <4>1 DEF Recorded
    <3> QED BY <1>7, <3>1, <3>2 DEF MF!Mirror
  <2>4. MemTypes'
    <3>1. table' \subseteq SUBSET Facts /\ frail' \subseteq Facts
      BY <1>7, <2>2, <1>a DEF MF!Mirror, MemTypes
    <3> QED BY <2>1, <2>2, <3>1, <1>a DEF MemTypes, Jobs
  <2>5. MemCovered'
    BY <2>1, <2>2, <2>3, <1>a, CoveredGrows DEF MemCovered, MemTypes
  <2> QED BY <2>4, <2>5 DEF MemInv
<1>8. ASSUME NEW w \in Writers, MF!ReadAgain(w) PROVE MemInv'
  <2>1. writer[w].step = "fit" /\ writer[w].doc \in Docs /\ UNCHANGED <<doc, table, noted, frail>>
    BY <1>8, <1>a DEF MF!ReadAgain, MemTypes
  <2> DEFINE fit == MF!Fit(doc[writer[w].doc])
  <2>2. fit \in Seq(Readable) /\ fit \in Seq(MF!Lines)
    BY <2>1, <1>b, <1>c, FitInside
  <2> HIDE DEF fit
  <2>3. \/ writer' = [writer EXCEPT ![w].step = "done"]
        \/ writer' = [writer EXCEPT ![w].step = "compact", ![w].text = fit]
    BY <1>8 DEF MF!ReadAgain, fit
  <2>4. /\ \A u \in Writers \ {w} : writer'[u] = writer[u]
        /\ writer'[w].step \in {"done", "compact"} /\ writer'[w].row = writer[w].row
        /\ writer'[w].step = "compact" => writer'[w].text = fit
        /\ writer'[w].keeps = writer[w].keeps /\ writer'[w].doc = writer[w].doc
        /\ writer' \in [Writers -> Jobs]
    <3>1. CASE writer' = [writer EXCEPT ![w].step = "done"]
      BY <3>1, <1>a, JobMoves DEF Steps
    <3>2. CASE writer' = [writer EXCEPT ![w].step = "compact", ![w].text = fit]
      <4> DEFINE j == [writer[w] EXCEPT !.step = "compact", !.text = fit]
      <4>1. writer[w] \in Jobs
        BY <1>a DEF MemTypes
      <4>2. /\ j \in Jobs /\ j.step = "compact" /\ j.text = fit
            /\ j.doc = writer[w].doc /\ j.row = writer[w].row /\ j.keeps = writer[w].keeps
        BY <4>1, <2>2 DEF Jobs, Steps
      <4>3. writer' = [writer EXCEPT ![w] = j]
        BY <3>2
      <4> HIDE DEF j
      <4> QED BY <4>2, <4>3, <1>a DEF MemTypes
    <3> QED BY <2>3, <3>1, <3>2
  <2>5. Recorded' = Recorded
    BY <2>1, <2>4 DEF Recorded
  <2>6. MemTypes'
    BY <2>1, <2>4, <1>a DEF MemTypes
  <2>7. MemCovered'
    BY <2>1, <2>2, <2>4, <2>5, <1>a DEF MemCovered, Readable
  <2> QED BY <2>6, <2>7 DEF MemInv
<1>9. ASSUME NEW w \in Writers, MF!Compact(w) PROVE MemInv'
  <2>1. /\ writer[w].step = "compact" /\ writer[w].doc \in Docs
        /\ doc' = [doc EXCEPT ![writer[w].doc] = writer[w].text]
        /\ writer' = [writer EXCEPT ![w].step = "done"]
        /\ UNCHANGED <<table, noted, frail>>
    BY <1>9, <1>a DEF MF!Compact, MemTypes
  <2>2. /\ \A u \in Writers \ {w} : writer'[u] = writer[u]
        /\ writer'[w].step = "done" /\ writer'[w].row = writer[w].row
        /\ writer'[w].keeps = writer[w].keeps /\ writer'[w].doc = writer[w].doc
        /\ writer' \in [Writers -> Jobs]
    BY <2>1, <1>a, JobMoves DEF Steps
  <2>3. Recorded' = Recorded
    BY <2>1, <2>2 DEF Recorded
  <2>4. MemTypes'
    BY <2>1, <2>2, <1>a DEF MemTypes, Jobs
  <2>5. MemCovered'
    BY <2>1, <2>2, <2>3, <1>a DEF MemCovered, Readable, MemTypes
  <2> QED BY <2>4, <2>5 DEF MemInv
<1>f. MF!Free \in Jobs /\ MF!Free.step = "free"
  BY DEF MF!Free, Jobs, Steps
<1>10. ASSUME NEW w \in Writers, MF!Answer(w) PROVE MemInv'
  <2>1. /\ writer[w].step = "done" /\ UNCHANGED <<doc, table, frail>>
        /\ noted' = noted \cup writer[w].keeps /\ writer' = [writer EXCEPT ![w] = MF!Free]
    BY <1>10 DEF MF!Answer
  <2>2. writer'[w].step = "free" /\ \A u \in Writers \ {w} : writer'[u] = writer[u]
    BY <2>1, <1>a, <1>f DEF MemTypes
  <2>3. Recorded' = Recorded
    BY <2>1, <2>2 DEF Recorded
  <2>4. MemTypes'
    BY <2>1, <2>2, <1>a, <1>f DEF MemTypes, Jobs
  <2>5. MemCovered'
    BY <2>1, <2>2, <2>3, <1>a DEF MemCovered, MemTypes, Readable
  <2> QED BY <2>4, <2>5 DEF MemInv
<1>11. ASSUME NEW w \in Writers, MF!Crash(w) PROVE MemInv'
  <2>1. /\ UNCHANGED <<doc, table, noted>> /\ writer' = [writer EXCEPT ![w] = MF!Free]
        /\ frail' = IF writer[w].step = "mirror" THEN frail \cup (writer[w].row \ UNION table)
                    ELSE frail
    BY <1>11 DEF MF!Crash
  <2>2. writer'[w].step = "free" /\ \A u \in Writers \ {w} : writer'[u] = writer[u]
    BY <2>1, <1>a, <1>f DEF MemTypes
  <2>3. Recorded \subseteq Recorded'
    <3>1. \A e \in Facts : e \in UNION table => \E r \in table : e \in r
      OBVIOUS
    <3> QED BY <2>1, <2>2, <3>1 DEF Recorded
  <2>4. MemTypes'
    <3>1. frail' \subseteq Facts
      BY <2>1, <1>a DEF MemTypes, Jobs
    <3> QED BY <2>1, <2>2, <3>1, <1>a, <1>f DEF MemTypes
  <2>5. MemCovered'
    BY <2>1, <2>2, <2>3, <1>a, CoveredGrows DEF MemCovered, MemTypes
  <2> QED BY <2>4, <2>5 DEF MemInv
<1>12. CASE MF!EditByHand
  <2>1. PICK d \in Docs, e \in Facts :
          /\ doc' = [doc EXCEPT ![d] = Append(doc[d], e)] /\ noted' = noted \cup {e}
          /\ frail' = frail \cup ({e} \ UNION table)
    BY <1>12 DEF MF!EditByHand
  <2>2. UNCHANGED <<table, writer>>
    BY <1>12 DEF MF!EditByHand
  <2>3. Recorded \subseteq Recorded' /\ e \in Recorded'
    <3>1. e \in UNION table => \E r \in table : e \in r
      OBVIOUS
    <3> QED BY <2>1, <2>2, <3>1 DEF Recorded
  <2>4. doc[d] \in Seq(Readable') /\ e \in Readable'
    BY <2>3, CoveredGrows DEF Readable
  <2>5. Append(doc[d], e) \in Seq(Readable') /\ Append(doc[d], e) \in Seq(MF!Lines)
    BY <2>4, <1>b, <1>c
  <2>6. MemTypes'
    BY <2>1, <2>2, <2>5, <1>a DEF MemTypes
  <2>7. MemCovered'
    BY <2>1, <2>2, <2>3, <2>5, <1>a, CoveredGrows DEF MemCovered, MemTypes
  <2> QED BY <2>6, <2>7 DEF MemInv
<1>13. CASE UNCHANGED MF!memVars
  <2>1. UNCHANGED <<doc, table, writer, noted, frail>>
    BY <1>13 DEF MF!memVars
  <2>2. Recorded' = Recorded
    BY <2>1 DEF Recorded
  <2>3. MemTypes'
    BY <2>1, <1>a DEF MemTypes
  <2>4. MemCovered'
    BY <2>1, <2>2, <1>a DEF MemCovered, Readable
  <2> QED BY <2>3, <2>4 DEF MemInv
<1> QED BY <1>1, <1>2, <1>3, <1>4, <1>5, <1>6, <1>7, <1>8, <1>9, <1>10, <1>11, <1>12, <1>13 DEF MF!Next

\* When nobody writes, what is recorded and not frail is in the table.
LEMMA MemGives == MemInv => MF!FactsReachable
<1> SUFFICES ASSUME MemInv, \A w \in Writers : writer[w] = MF!Free,
                    NEW e \in noted, e \notin frail
             PROVE  e \in UNION table
  BY DEF MF!FactsReachable, MF!Found, MF!InTable
<1>1. MF!Free.step # "mirror"
  BY DEF MF!Free
<1> QED BY <1>1 DEF MemInv, MemCovered, Recorded

-----------------------------------------------------------------------------
(* Packages and their record *)

\* What the proof needs of the constants: one process installs, and the names
\* for who else puts files there are no packages.
OneInstaller ==
  /\ \A q, r \in Procs : q = r
  /\ {"user", "nobody"} \cap Packages = {}

Recs == [id : Packages, files : SUBSET PkgNames]

\* Package p has n in the records l.
InLock(l, p, n) == \E i \in DOMAIN l : l[i].id = p /\ n \in l[i].files

OneRecord(l) == \A i, j \in DOMAIN l : l[i].id = l[j].id => i = j

LEMMA FilesInLock == \A l, p, n : n \in PK!FilesOf(l, p) <=> InLock(l, p, n)
BY DEF PK!FilesOf, PK!Range, InLock

\* The rest of a sequence of records without those of one package.
LEMMA KeptRecords ==
  ASSUME NEW l \in Seq(Recs), NEW B, NEW f, KeepsFrom(f, l, B, Len(l))
  PROVE  /\ \A r : (\E k \in DOMAIN f[Len(l)] : f[Len(l)][k] = r)
                     <=> \E i \in DOMAIN l : i \notin B /\ l[i] = r
         /\ OneRecord(l) => OneRecord(f[Len(l)])
<1> DEFINE Has(n) == \A r : (\E k \in DOMAIN f[n] : f[n][k] = r) <=> \E i \in 1..n : i \notin B /\ l[i] = r
           T == {n \in Nat : n <= Len(l) =>
                   f[n] \in Seq(Recs) /\ Has(n) /\ (OneRecord(l) => OneRecord(f[n]))}
<1>1. 0 \in T
  <2>1. f[0] = <<>>
    BY DEF KeepsFrom
  <2>2. f[0] \in Seq(Recs) /\ DOMAIN f[0] = {}
    BY <2>1
  <2>3. Has(0)
    BY <2>2
  <2>4. OneRecord(f[0])
    BY <2>2 DEF OneRecord
  <2> QED BY <2>2, <2>3, <2>4
<1>2. ASSUME NEW n \in Nat, n \in T PROVE n + 1 \in T
  <2> SUFFICES ASSUME n + 1 <= Len(l)
               PROVE  f[n + 1] \in Seq(Recs) /\ Has(n + 1) /\ (OneRecord(l) => OneRecord(f[n + 1]))
    OBVIOUS
  <2>1. f[n + 1] = IF n + 1 \in B THEN f[n] ELSE Append(f[n], l[n + 1])
    <3>1. n + 1 \in 0..Len(l) /\ n + 1 # 0 /\ (n + 1) - 1 = n
      OBVIOUS
    <3> QED BY <3>1 DEF KeepsFrom
  <2>2. f[n] \in Seq(Recs) /\ l[n + 1] \in Recs /\ Has(n) /\ (OneRecord(l) => OneRecord(f[n]))
    <3>1. l[n + 1] \in Recs
      OBVIOUS
    <3> HIDE DEF Has
    <3> QED BY <1>2, <3>1
  <2>3. \A i : i \in 1..(n + 1) <=> i \in 1..n \/ i = n + 1
    OBVIOUS
  <2>4. CASE n + 1 \in B
    <3>1. f[n + 1] = f[n]
      BY <2>1, <2>4
    <3>2. Has(n + 1)
      BY <2>2, <2>3, <2>4, <3>1
    <3> QED BY <2>2, <3>1, <3>2
  <2>5. CASE n + 1 \notin B
    <3> DEFINE g == Append(f[n], l[n + 1])
    <3>1. f[n + 1] = g
      BY <2>1, <2>5
    <3>2. /\ g \in Seq(Recs)
          /\ \A k \in DOMAIN f[n] : k \in DOMAIN g /\ g[k] = f[n][k]
          /\ Len(g) \in DOMAIN g /\ g[Len(g)] = l[n + 1]
          /\ \A k \in DOMAIN g : k # Len(g) => k \in DOMAIN f[n]
      BY <2>2
    <3> HIDE DEF g
    <3>3. Has(n + 1)
      <4> SUFFICES ASSUME NEW r
                   PROVE  (\E k \in DOMAIN g : g[k] = r) <=> \E i \in 1..(n + 1) : i \notin B /\ l[i] = r
        BY <3>1
      <4>1. (\E k \in DOMAIN f[n] : f[n][k] = r) <=> \E i \in 1..n : i \notin B /\ l[i] = r
        BY <2>2
      <4> QED BY <4>1, <2>3, <2>5, <3>2
    <3>4. ASSUME OneRecord(l) PROVE OneRecord(g)
      <4>1. \A k \in DOMAIN f[n] : f[n][k].id # l[n + 1].id
        <5> TAKE k \in DOMAIN f[n]
        <5>1. PICK i \in 1..n : l[i] = f[n][k]
          BY <2>2
        <5>2. i \in DOMAIN l /\ n + 1 \in DOMAIN l /\ i # n + 1
          OBVIOUS
        <5> QED BY <5>1, <5>2, <3>4 DEF OneRecord
      <4>2. OneRecord(f[n])
        BY <2>2, <3>4
      <4> QED BY <4>1, <4>2, <3>2 DEF OneRecord
    <3> QED BY <3>1, <3>2, <3>3, <3>4
  <2> QED BY <2>4, <2>5
<1>3. Len(l) \in T
  <2> HIDE DEF T
  <2> QED BY <1>1, <1>2, SetInduction
<1>4. DOMAIN l = 1..Len(l)
  OBVIOUS
<1>5. Has(Len(l)) /\ (OneRecord(l) => OneRecord(f[Len(l)]))
  <2> HIDE DEF Has
  <2> QED BY <1>3
<1> QED BY <1>4, <1>5

LEMMA WithoutOne ==
  ASSUME NEW l \in Seq(Recs), NEW p
  PROVE  /\ PK!Without(l, p) \in Seq(Recs)
         /\ \A r, n : InLock(PK!Without(l, p), r, n) <=> r # p /\ InLock(l, r, n)
         /\ OneRecord(l) => OneRecord(PK!Without(l, p))
         /\ \A i \in DOMAIN PK!Without(l, p) : PK!Without(l, p)[i].id # p
<1> DEFINE B == {i \in 1..Len(l) : l[i].id = p}
           Is(f) == f = [i \in 0..Len(l) |->
                           IF i = 0 THEN <<>>
                           ELSE IF l[i].id = p THEN f[i - 1] ELSE Append(f[i - 1], l[i])]
<1>1. ASSUME NEW f PROVE Is(f) <=> KeepsFrom(f, l, B, Len(l))
  <2> DEFINE g == [i \in 0..Len(l) |->
                           IF i = 0 THEN <<>>
                           ELSE IF l[i].id = p THEN f[i - 1] ELSE Append(f[i - 1], l[i])]
             h == [i \in 0..Len(l) |->
                           IF i = 0 THEN <<>>
                           ELSE IF i \in B THEN f[i - 1] ELSE Append(f[i - 1], l[i])]
  <2>1. g = h
    <3>1. ASSUME NEW i \in 0..Len(l) PROVE g[i] = h[i]
      <4>1. i # 0 => (i \in B <=> l[i].id = p)
        OBVIOUS
      <4> HIDE DEF B
      <4> QED BY <4>1
    <3> QED BY <3>1
  <2> QED BY <2>1 DEF KeepsFrom
<1>2. PK!Without(l, p) = (CHOOSE f : Is(f))[Len(l)]
  BY DEF PK!Without
<1>3. \E f : Is(f)
  BY <1>1, KeptExists
<1> HIDE DEF Is
<1>4. Is(CHOOSE f : Is(f))
  BY <1>3
<1> DEFINE f == CHOOSE f : Is(f)
           w == PK!Without(l, p)
<1>5. KeepsFrom(f, l, B, Len(l)) /\ w = f[Len(l)]
  BY <1>1, <1>2, <1>4
<1> HIDE DEF f
<1>6. w \in Seq(Recs)
  BY <1>5, KeptInside
<1>7. /\ \A r : (\E k \in DOMAIN w : w[k] = r) <=> \E i \in DOMAIN l : i \notin B /\ l[i] = r
      /\ OneRecord(l) => OneRecord(w)
  <2>1. \A r : (\E k \in DOMAIN f[Len(l)] : f[Len(l)][k] = r) <=> \E i \in DOMAIN l : i \notin B /\ l[i] = r
    <3> HIDE DEF B
    <3> QED BY <1>5, KeptRecords
  <2>2. OneRecord(l) => OneRecord(f[Len(l)])
    <3> HIDE DEF B
    <3> QED BY <1>5, KeptRecords
  <2> HIDE DEF w, B
  <2> QED BY <2>1, <2>2, <1>5
<1>8. \A i \in DOMAIN l : i \notin B <=> l[i].id # p
  OBVIOUS
<1> HIDE DEF w, B
<1>9. \A r, n : InLock(w, r, n) <=> r # p /\ InLock(l, r, n)
  BY <1>7, <1>8 DEF InLock
<1>10. \A i \in DOMAIN w : w[i].id # p
  BY <1>7, <1>8
<1> QED BY <1>6, <1>7, <1>9, <1>10 DEF w

\* The records with one that is appended, of a package that has none.
LEMMA AppendRecord ==
  ASSUME NEW l \in Seq(Recs), NEW r \in Recs, \A i \in DOMAIN l : l[i].id # r.id
  PROVE  /\ Append(l, r) \in Seq(Recs)
         /\ \A p, n : InLock(Append(l, r), p, n) <=> InLock(l, p, n) \/ (p = r.id /\ n \in r.files)
         /\ OneRecord(l) => OneRecord(Append(l, r))
<1> DEFINE g == Append(l, r)
<1>1. /\ g \in Seq(Recs)
      /\ \A k \in DOMAIN l : k \in DOMAIN g /\ g[k] = l[k]
      /\ Len(g) \in DOMAIN g /\ g[Len(g)] = r
      /\ \A k \in DOMAIN g : k # Len(g) => k \in DOMAIN l
  OBVIOUS
<1> HIDE DEF g
<1>2. \A p, n : InLock(g, p, n) <=> InLock(l, p, n) \/ (p = r.id /\ n \in r.files)
  BY <1>1 DEF InLock
<1>3. OneRecord(l) => OneRecord(g)
  BY <1>1 DEF OneRecord
<1> QED BY <1>1, <1>2, <1>3 DEF g

\* The records without the one at i, when each package has one.
LEMMA RemoveRecord ==
  ASSUME NEW l \in Seq(Recs), NEW i \in DOMAIN l, OneRecord(l)
  PROVE  /\ PK!Remove(l, i) \in Seq(Recs)
         /\ \A p, n : InLock(PK!Remove(l, i), p, n) <=> p # l[i].id /\ InLock(l, p, n)
         /\ OneRecord(PK!Remove(l, i))
<1> DEFINE g == PK!Remove(l, i)
<1>0. i \in 1..Len(l) /\ Len(l) \in Nat /\ DOMAIN l = 1..Len(l)
  OBVIOUS
<1>1. /\ SubSeq(l, 1, i - 1) \in Seq(Recs) /\ Len(SubSeq(l, 1, i - 1)) = i - 1
      /\ \A k \in 1..(i - 1) : SubSeq(l, 1, i - 1)[k] = l[k]
  BY <1>0, SubSeqProperties
<1>2. /\ SubSeq(l, i + 1, Len(l)) \in Seq(Recs) /\ Len(SubSeq(l, i + 1, Len(l))) = Len(l) - i
      /\ \A k \in 1..(Len(l) - i) : SubSeq(l, i + 1, Len(l))[k] = l[k + i]
  BY <1>0, SubSeqProperties
<1>3. /\ g \in Seq(Recs) /\ Len(g) = Len(l) - 1
      /\ \A k \in 1..(Len(l) - 1) : g[k] = IF k < i THEN l[k] ELSE l[k + 1]
  <2> DEFINE a == SubSeq(l, 1, i - 1)
             b == SubSeq(l, i + 1, Len(l))
  <2>1. g = a \o b
    BY DEF PK!Remove
  <2>2. /\ a \in Seq(Recs) /\ Len(a) = i - 1 /\ \A k \in 1..(i - 1) : a[k] = l[k]
        /\ b \in Seq(Recs) /\ Len(b) = Len(l) - i /\ \A k \in 1..(Len(l) - i) : b[k] = l[k + i]
    BY <1>1, <1>2
  <2> HIDE DEF a, b, g
  <2>3. g \in Seq(Recs) /\ Len(g) = Len(l) - 1
    <3>1. g \in Seq(Recs) /\ Len(g) = Len(a) + Len(b)
      BY <2>1, <2>2, ConcatProperties
    <3>2. i \in Int
      BY <1>0
    <3> QED BY <3>1, <3>2, <2>2, <1>0
  <2>4. ASSUME NEW k \in 1..(Len(l) - 1) PROVE g[k] = IF k < i THEN l[k] ELSE l[k + 1]
    <3>1. CASE k < i
      BY <2>1, <2>2, <1>0, <3>1
    <3>2. CASE ~(k < i)
      <4>1. g[k] = b[k - (i - 1)]
        BY <2>1, <2>2, <1>0, <3>2
      <4>2. k - (i - 1) \in 1..(Len(l) - i) /\ (k - (i - 1)) + i = k + 1
        BY <1>0, <3>2
      <4> QED BY <4>1, <4>2, <2>2, <3>2
    <3> QED BY <3>1, <3>2
  <2> QED BY <2>3, <2>4
<1> HIDE DEF g
<1>4. /\ \A k \in DOMAIN g : \E j \in DOMAIN l : j # i /\ g[k] = l[j] /\ j = IF k < i THEN k ELSE k + 1
      /\ \A j \in DOMAIN l : j # i => \E k \in DOMAIN g : g[k] = l[j]
  <2>1. DOMAIN g = 1..(Len(l) - 1)
    BY <1>3
  <2>2. ASSUME NEW k \in DOMAIN g PROVE \E j \in DOMAIN l : j # i /\ g[k] = l[j] /\ j = IF k < i THEN k ELSE k + 1
    <3>1. CASE k < i
      BY <1>0, <1>3, <2>1, <3>1
    <3>2. CASE ~(k < i)
      <4>1. k + 1 \in DOMAIN l /\ k + 1 # i /\ g[k] = l[k + 1]
        BY <1>0, <1>3, <2>1, <3>2
      <4> QED BY <4>1, <3>2
    <3> QED BY <3>1, <3>2
  <2>3. ASSUME NEW j \in DOMAIN l, j # i PROVE \E k \in DOMAIN g : g[k] = l[j]
    <3>1. CASE j < i
      BY <1>0, <1>3, <2>1, <3>1
    <3>2. CASE ~(j < i)
      <4>1. j - 1 \in DOMAIN g /\ g[j - 1] = l[j]
        BY <1>0, <1>3, <2>1, <2>3, <3>2
      <4> QED BY <4>1
    <3> QED BY <3>1, <3>2
  <2> QED BY <2>2, <2>3
<1>5. \A p, n : InLock(g, p, n) <=> p # l[i].id /\ InLock(l, p, n)
  BY <1>4 DEF InLock, OneRecord
<1>6. OneRecord(g)
  <2> SUFFICES ASSUME NEW a \in DOMAIN g, NEW b \in DOMAIN g, g[a].id = g[b].id PROVE a = b
    BY DEF OneRecord
  <2>1. PICK c \in DOMAIN l : g[a] = l[c] /\ c = IF a < i THEN a ELSE a + 1
    BY <1>4
  <2>2. PICK d \in DOMAIN l : g[b] = l[d] /\ d = IF b < i THEN b ELSE b + 1
    BY <1>4
  <2>3. c = d
    BY <2>1, <2>2 DEF OneRecord
  <2>4. a \in Nat /\ b \in Nat /\ i \in Nat
    BY <1>0, <1>3
  <2> QED BY <2>1, <2>2, <2>3, <2>4
<1> QED BY <1>3, <1>5, <1>6 DEF g

PkgJobs ==
  [step : {"idle", "fetched", "place", "removed", "save"}, id : Packages \cup {""},
   todo : SUBSET PkgNames, done : SUBSET PkgNames, lock : Seq(Recs)]

PkgTypes ==
  /\ offers \in [Packages -> SUBSET PkgNames]
  /\ placed \in [PkgNames -> Packages \cup {"user", "nobody"}]
  /\ lock \in Seq(Recs) /\ OneRecord(lock)
  /\ job \in [Procs -> PkgJobs] /\ torn \subseteq Packages
  /\ \A q \in Procs : job[q].step # "idle" => job[q].id \in Packages

\* Package p has used n or is about to.
Claimed(p, n) ==
  \/ n \in offers[p]
  \/ InLock(lock, p, n)
  \/ \E q \in Procs : InLock(job[q].lock, p, n)
  \/ \E q \in Procs : job[q].id = p /\ (n \in job[q].todo \/ n \in job[q].done)

\* No name is claimed by two, and none that another has.
NoOverlap ==
  \A p \in Packages, n \in PkgNames :
    Claimed(p, n) => placed[n] \in {"nobody", p} /\ \A r \in Packages : Claimed(r, n) => r = p

\* What a process holds of the record, and who put which file there.
PkgWork ==
  /\ \A q \in Procs :
       /\ job[q].step = "idle" => job[q] = PK!Idle
       /\ job[q].step = "fetched" => job[q].done = {}
       /\ job[q].step = "place" => job[q].lock = lock
       /\ job[q].step = "removed" =>
            /\ OneRecord(job[q].lock)
            /\ \A p, n : InLock(job[q].lock, p, n) <=> p # job[q].id /\ InLock(lock, p, n)
       /\ job[q].step = "save" => lock = <<>> /\ OneRecord(job[q].lock)
  /\ \A p \in Packages \ torn, n \in PkgNames :
       /\ \A q \in Procs :
            job[q].id = p =>
              /\ job[q].step = "place" => (placed[n] = p <=> n \in job[q].done)
              /\ job[q].step = "removed" => placed[n] # p
       /\ \A q \in Procs :
            job[q].step = "save" => (placed[n] = p <=> InLock(job[q].lock, p, n))
       /\ (\A q \in Procs : /\ job[q].id = p => job[q].step \notin {"place", "removed"}
                           /\ job[q].step # "save") =>
            (placed[n] = p <=> InLock(lock, p, n))

PkgInv == PkgTypes /\ NoOverlap /\ PkgWork

LEMMA ClaimsClaimed ==
  ASSUME NEW p, NEW n
  PROVE  n \in PK!Claims(p) <=> Claimed(p, n)
<1>1. /\ n \in PK!FilesOf(lock, p) <=> InLock(lock, p, n)
      /\ \A q : n \in PK!FilesOf(job[q].lock, p) <=> InLock(job[q].lock, p, n)
  BY FilesInLock
<1> DEFINE Here  == PK!FilesOf(lock, p)
           Locks == UNION {PK!FilesOf(job[q].lock, p) : q \in Procs}
           Works == UNION {job[q].todo \cup job[q].done : q \in {q \in Procs : job[q].id = p}}
<1>2. n \in Locks <=> \E q \in Procs : InLock(job[q].lock, p, n)
  <2>1. n \in Locks <=> \E q \in Procs : n \in PK!FilesOf(job[q].lock, p)
    OBVIOUS
  <2> QED BY <2>1, <1>1
<1>3. n \in Works <=>
        \E q \in Procs : job[q].id = p /\ (n \in job[q].todo \/ n \in job[q].done)
  OBVIOUS
<1>4. PK!Claims(p) = offers[p] \cup Here \cup Locks \cup Works
  BY DEF PK!Claims
<1>5. n \in Here <=> InLock(lock, p, n)
  BY <1>1
<1> HIDE DEF Here, Locks, Works
<1>6. n \in PK!Claims(p) <=> n \in offers[p] \/ n \in Here \/ n \in Locks \/ n \in Works
  BY <1>4
<1> QED BY <1>2, <1>3, <1>5, <1>6 DEF Claimed

LEMMA IdleJob ==
  /\ PK!Idle \in PkgJobs /\ PK!Idle.step = "idle" /\ PK!Idle.id = ""
  /\ PK!Idle.todo = {} /\ PK!Idle.done = {} /\ PK!Idle.lock = <<>>
  /\ \A p, n : ~InLock(PK!Idle.lock, p, n)
<1>1. <<>> \in Seq(Recs) /\ DOMAIN <<>> = {}
  OBVIOUS
<1> QED BY <1>1 DEF PK!Idle, PkgJobs, InLock

\* What remove_materialized does to the files of p, whichever removal fails.
LEMMA SomeRemoved ==
  ASSUME OneInstaller, PkgTypes, NEW p \in Packages, NEW these, PK!Removed(these, p)
  PROVE  /\ placed' \in [PkgNames -> Packages \cup {"user", "nobody"}]
         /\ \A n \in PkgNames : placed'[n] \in {placed[n], "nobody"}
         /\ \A n \in PkgNames \ these : placed'[n] = placed[n]
         /\ torn \subseteq torn' /\ torn' \subseteq torn \cup {p}
         /\ p \notin torn' => \A n \in these \cap PkgNames : placed'[n] = "nobody"
<1>1. PICK stay \in SUBSET {n \in these : placed[n] # "nobody"} :
        /\ placed' = [n \in PkgNames |-> IF n \in these \ stay THEN "nobody" ELSE placed[n]]
        /\ torn' = IF stay = {} THEN torn ELSE torn \cup {p}
  BY DEF PK!Removed
<1>2. \A n \in PkgNames : placed'[n] = IF n \in these \ stay THEN "nobody" ELSE placed[n]
  BY <1>1
<1>3. placed' \in [PkgNames -> Packages \cup {"user", "nobody"}]
  BY <1>1 DEF PkgTypes
<1> QED BY <1>1, <1>2, <1>3

LEMMA RecordedInNames ==
  ASSUME PkgTypes, NEW p, NEW n, InLock(lock, p, n)
  PROVE  p \in Packages /\ n \in PkgNames
<1>1. PICK i \in DOMAIN lock : lock[i].id = p /\ n \in lock[i].files
  BY DEF InLock
<1>2. lock[i] \in Recs
  BY DEF PkgTypes
<1> QED BY <1>1, <1>2 DEF Recs

LEMMA InitPkg == OneInstaller /\ PK!Init => PkgInv
<1> SUFFICES ASSUME OneInstaller, PK!Init PROVE PkgInv
  OBVIOUS
<1>1. /\ offers = [p \in Packages |-> {}] /\ placed = [n \in PkgNames |-> "nobody"]
      /\ lock = <<>> /\ job = [q \in Procs |-> PK!Idle] /\ torn = {}
  BY DEF PK!Init
<1>2. lock \in Seq(Recs) /\ DOMAIN lock = {}
  BY <1>1
<1>3. \A p, n : ~InLock(lock, p, n)
  BY <1>2 DEF InLock
<1>4. PkgTypes
  BY <1>1, <1>2, IdleJob DEF PkgTypes, OneRecord
<1>5. \A p, n : p \in Packages => ~Claimed(p, n)
  <2>1. \A q \in Procs : job[q] = PK!Idle
    BY <1>1
  <2> QED BY <1>1, <1>3, <2>1, IdleJob DEF Claimed
<1>6. NoOverlap
  BY <1>5 DEF NoOverlap
<1>7. PkgWork
  <2>1. \A p \in Packages, n \in PkgNames : placed[n] # p
    BY <1>1 DEF OneInstaller
  <2>2. \A q \in Procs : job[q] = PK!Idle /\ job[q].step = "idle"
    BY <1>1, IdleJob
  <2> QED BY <1>3, <2>1, <2>2 DEF PkgWork
<1> QED BY <1>4, <1>6, <1>7 DEF PkgInv

\* A step after which no more is claimed, and that gives no claimed name to
\* another.
LEMMA ClaimsShrink ==
  ASSUME NoOverlap,
         \A p \in Packages, n \in PkgNames : Claimed(p, n)' => Claimed(p, n),
         \A p \in Packages, n \in PkgNames :
           Claimed(p, n)' => placed'[n] = placed[n] \/ placed'[n] \in {"nobody", p}
  PROVE  NoOverlap'
BY DEF NoOverlap

\* A step of the process that installs, to the job j.
LEMMA JobSet ==
  ASSUME OneInstaller, PkgTypes, NEW q \in Procs, NEW j \in PkgJobs, job' = [job EXCEPT ![q] = j]
  PROVE  /\ job' \in [Procs -> PkgJobs]
         /\ \A r \in Procs : job'[r] = j /\ job[r] = job[q]
BY DEF OneInstaller, PkgTypes

LEMMA NextFetch ==
  ASSUME OneInstaller, PkgInv, NEW q \in Procs, NEW p \in Packages, PK!Fetch(q, p)
  PROVE  PkgInv'
<1>a. PkgTypes /\ NoOverlap /\ PkgWork
  BY DEF PkgInv
<1>1. job[q].step = "idle" /\ UNCHANGED <<offers, placed, lock, torn>>
  BY IdleJob DEF PK!Fetch
<1>2. CASE UNCHANGED job
  BY <1>1, <1>2, <1>a DEF PkgInv, PkgTypes, NoOverlap, PkgWork, Claimed
<1>3. ASSUME NEW these \in PK!Found(p),
             job' = [job EXCEPT ![q] = [PK!Idle EXCEPT !.step = "fetched", !.id = p, !.todo = these]]
      PROVE  PkgInv'
  <2>1. these \subseteq offers[p] /\ these \subseteq PkgNames
    BY <1>a DEF PK!Found, PK!Filter, PkgTypes
  <2> DEFINE j == [PK!Idle EXCEPT !.step = "fetched", !.id = p, !.todo = these]
  <2>2. /\ j \in PkgJobs /\ j.step = "fetched" /\ j.id = p /\ j.todo = these /\ j.done = {}
        /\ \A r, n : ~InLock(j.lock, r, n)
    <3>1. <<>> \in Seq(Recs) /\ j.lock = PK!Idle.lock
      BY DEF PK!Idle
    <3> QED BY <2>1, <3>1, IdleJob DEF PK!Idle, PkgJobs
  <2> HIDE DEF j
  <2>3. job' \in [Procs -> PkgJobs] /\ \A r \in Procs : job'[r] = j /\ job[r].step = "idle"
    BY <1>1, <1>3, <1>a, <2>2, JobSet DEF j
  <2>4. PkgTypes'
    BY <1>1, <2>2, <2>3, <1>a DEF PkgTypes
  <2>5. \A r \in Packages, n \in PkgNames : Claimed(r, n)' => Claimed(r, n)
    BY <1>1, <2>1, <2>2, <2>3 DEF Claimed
  <2>6. NoOverlap'
    BY <1>1, <2>5, <1>a, ClaimsShrink
  <2>7. PkgWork'
    BY <1>1, <2>2, <2>3, <1>a DEF PkgWork
  <2> QED BY <2>4, <2>6, <2>7 DEF PkgInv
<1> QED BY <1>2, <1>3 DEF PK!Fetch

LEMMA NextReplace ==
  ASSUME OneInstaller, PkgInv, NEW q \in Procs, PK!Replace(q)
  PROVE  PkgInv'
<1>a. PkgTypes /\ NoOverlap /\ PkgWork
  BY DEF PkgInv
<1> DEFINE p == job[q].id
<1>1. /\ job[q].step = "fetched" /\ UNCHANGED <<offers, lock>>
      /\ PK!Removed(PK!FilesOf(lock, p), p)
      /\ job' = [job EXCEPT ![q].step = "place", ![q].lock = lock]
  BY DEF PK!Replace
<1>2. p \in Packages /\ job[q] \in PkgJobs /\ job[q].done = {} /\ lock \in Seq(Recs)
  BY <1>1, <1>a DEF PkgTypes, PkgWork
<1>3. /\ placed' \in [PkgNames -> Packages \cup {"user", "nobody"}]
      /\ \A n \in PkgNames : placed'[n] \in {placed[n], "nobody"}
      /\ \A n \in PkgNames : ~InLock(lock, p, n) => placed'[n] = placed[n]
      /\ torn \subseteq torn' /\ torn' \subseteq torn \cup {p}
      /\ p \notin torn' => \A n \in PkgNames : InLock(lock, p, n) => placed'[n] = "nobody"
  BY <1>1, <1>2, <1>a, SomeRemoved, FilesInLock
<1> DEFINE j == [job[q] EXCEPT !.step = "place", !.lock = lock]
<1>4. /\ j \in PkgJobs /\ j.step = "place" /\ j.id = p /\ j.todo = job[q].todo /\ j.done = {}
      /\ j.lock = lock
  BY <1>2 DEF PkgJobs
<1>5. job' = [job EXCEPT ![q] = j]
  BY <1>1
<1> HIDE DEF j
<1>6. job' \in [Procs -> PkgJobs] /\ \A r \in Procs : job'[r] = j /\ job[r] = job[q]
  BY <1>4, <1>5, <1>a, JobSet
<1>7. PkgTypes'
  BY <1>1, <1>2, <1>3, <1>4, <1>6, <1>a DEF PkgTypes
<1>8. \A r \in Packages, n \in PkgNames : Claimed(r, n)' => Claimed(r, n)
  BY <1>1, <1>4, <1>6 DEF Claimed
<1>9. NoOverlap'
  BY <1>3, <1>8, <1>a, ClaimsShrink
<1>10. PkgWork'
  <2>1. ASSUME NEW r \in Packages \ torn', NEW n \in PkgNames
        PROVE  /\ r = p => placed'[n] # p
               /\ r # p => (placed'[n] = r <=> InLock(lock, r, n))
    <3>1. placed[n] = r <=> InLock(lock, r, n)
      BY <1>1, <1>3, <1>6, <1>a DEF PkgWork
    <3>2. InLock(lock, p, n) /\ r # p => ~InLock(lock, r, n)
      BY <1>2, <1>a DEF NoOverlap, Claimed
    <3>3. CASE r = p
      BY <1>3, <3>1, <3>3 DEF OneInstaller
    <3>4. CASE r # p
      <4>1. placed'[n] \in {placed[n], "nobody"} /\ r # "nobody"
        BY <1>3 DEF OneInstaller
      <4>2. InLock(lock, r, n) => placed'[n] = placed[n]
        BY <1>3, <3>2, <3>4
      <4> QED BY <3>1, <3>4, <4>1, <4>2
    <3> QED BY <3>3, <3>4
  <2> QED BY <1>1, <1>2, <1>4, <1>6, <2>1 DEF PkgWork
<1> QED BY <1>7, <1>9, <1>10 DEF PkgInv

LEMMA NextPlace ==
  ASSUME OneInstaller, PkgInv, NEW q \in Procs, PK!Place(q)
  PROVE  PkgInv'
<1>a. PkgTypes /\ NoOverlap /\ PkgWork
  BY DEF PkgInv
<1> DEFINE p == job[q].id
<1>1. job[q].step = "place" /\ UNCHANGED <<offers, lock, torn>>
  BY DEF PK!Place
<1>2. PICK m \in job[q].todo :
        /\ placed' = [placed EXCEPT ![m] = p]
        /\ job' = [job EXCEPT ![q].todo = @ \ {m}, ![q].done = @ \cup {m}]
  BY DEF PK!Place
<1>3. p \in Packages /\ job[q] \in PkgJobs /\ m \in PkgNames /\ job[q].lock = lock
  BY <1>1, <1>2, <1>a DEF PkgTypes, PkgWork, PkgJobs
<1> DEFINE j == [job[q] EXCEPT !.todo = @ \ {m}, !.done = @ \cup {m}]
<1>4. /\ j \in PkgJobs /\ j.step = "place" /\ j.id = p /\ j.todo = job[q].todo \ {m}
      /\ j.done = job[q].done \cup {m} /\ j.lock = lock
  BY <1>1, <1>3 DEF PkgJobs
<1>5. job' = [job EXCEPT ![q] = j]
  BY <1>2
<1> HIDE DEF j
<1>6. job' \in [Procs -> PkgJobs] /\ \A r \in Procs : job'[r] = j /\ job[r] = job[q]
  BY <1>4, <1>5, <1>a, JobSet
<1>7. \A n \in PkgNames : placed'[n] = IF n = m THEN p ELSE placed[n]
  BY <1>2, <1>a DEF PkgTypes
<1>8. PkgTypes'
  <2>1. placed' \in [PkgNames -> Packages \cup {"user", "nobody"}]
    BY <1>2, <1>3, <1>a DEF PkgTypes
  <2> QED BY <1>1, <1>3, <1>4, <1>6, <2>1, <1>a DEF PkgTypes
<1>9. \A r \in Packages, n \in PkgNames : Claimed(r, n)' => Claimed(r, n)
  BY <1>1, <1>2, <1>4, <1>6 DEF Claimed
<1>10. Claimed(p, m)
  BY <1>2 DEF Claimed
<1>11. \A r \in Packages : Claimed(r, m) => r = p
  BY <1>3, <1>10, <1>a DEF NoOverlap
<1>12. placed[m] \in {"nobody", p}
  BY <1>3, <1>10, <1>a DEF NoOverlap
<1>13. NoOverlap'
  BY <1>3, <1>7, <1>9, <1>11, <1>a, ClaimsShrink
<1>14. PkgWork'
  <2>1. ASSUME NEW r \in Packages \ torn, NEW n \in PkgNames
        PROVE  /\ r = p => (placed'[n] = r <=> n \in j.done)
               /\ r # p => (placed'[n] = r <=> InLock(lock, r, n))
    <3>1. CASE r = p
      <4>1. placed[n] = p <=> n \in job[q].done
        BY <1>1, <3>1, <1>a DEF PkgWork
      <4> QED BY <1>4, <1>7, <3>1, <4>1
    <3>2. CASE r # p
      <4>1. placed[n] = r <=> InLock(lock, r, n)
        BY <1>1, <1>6, <3>2, <1>a DEF PkgWork
      <4>2. n = m => ~InLock(lock, r, n)
        BY <1>11, <3>2 DEF Claimed
      <4>3. n = m => placed[n] # r
        BY <4>1, <4>2
      <4> QED BY <1>7, <3>2, <4>1, <4>3
    <3> QED BY <3>1, <3>2
  <2> QED BY <1>1, <1>4, <1>6, <2>1 DEF PkgWork
<1> QED BY <1>8, <1>13, <1>14 DEF PkgInv

\* A process that stops at p: what it had copied of p stays, and p is torn
\* unless nothing of it was touched.
LEMMA NextStop ==
  ASSUME OneInstaller, PkgInv, NEW q \in Procs, job' = [job EXCEPT ![q] = PK!Idle],
         torn \subseteq torn', torn' \subseteq Packages,
         job[q].step \in {"place", "removed"} => job[q].id \in torn',
         job[q].step = "save" => \A r \in Packages \ torn' : \A n : ~InLock(job[q].lock, r, n),
         job[q].step # "idle", UNCHANGED <<offers, placed, lock>>
  PROVE  PkgInv'
<1>a. PkgTypes /\ NoOverlap /\ PkgWork
  BY DEF PkgInv
<1>1. job' \in [Procs -> PkgJobs] /\ \A r \in Procs : job'[r] = PK!Idle /\ job[r] = job[q]
  BY <1>a, IdleJob, JobSet
<1>2. PkgTypes'
  BY <1>1, <1>a, IdleJob DEF PkgTypes
<1>3. \A r \in Packages, n \in PkgNames : Claimed(r, n)' => Claimed(r, n)
  BY <1>1, IdleJob DEF Claimed
<1>4. NoOverlap'
  BY <1>3, <1>a, ClaimsShrink
<1>5. PkgWork'
  <2>1. ASSUME NEW r \in Packages \ torn', NEW n \in PkgNames PROVE placed[n] = r <=> InLock(lock, r, n)
    <3>1. CASE job[q].step = "save"
      <4>1. ~InLock(job[q].lock, r, n) /\ placed[n] # r
        BY <3>1, <1>a DEF PkgWork
      <4>2. lock = <<>>
        BY <3>1, <1>a DEF PkgWork
      <4>3. ~InLock(lock, r, n)
        BY <4>2, IdleJob
      <4> QED BY <4>1, <4>3
    <3>2. CASE job[q].step # "save"
      BY <1>1, <3>2, <1>a DEF PkgWork
    <3> QED BY <3>1, <3>2
  <2> QED BY <1>1, <2>1, IdleJob DEF PkgWork
<1> QED BY <1>2, <1>4, <1>5 DEF PkgInv

\* A process that truncates packages.json, with the records of l to write.
LEMMA NextTruncate ==
  ASSUME OneInstaller, PkgInv, NEW q \in Procs, NEW l \in Seq(Recs), OneRecord(l),
         PK!Truncate(q, l), UNCHANGED <<offers, placed, torn>>, job[q].step # "idle",
         \A r \in Packages, n \in PkgNames : InLock(l, r, n) => Claimed(r, n),
         \A r \in Packages \ torn, n \in PkgNames : placed[n] = r <=> InLock(l, r, n)
  PROVE  PkgInv'
<1>a. PkgTypes /\ NoOverlap /\ PkgWork
  BY DEF PkgInv
<1>1. lock' = <<>> /\ job' = [job EXCEPT ![q].step = "save", ![q].lock = l]
  BY DEF PK!Truncate
<1>2. job[q] \in PkgJobs /\ job[q].id \in Packages
  BY <1>a DEF PkgTypes
<1> DEFINE j == [job[q] EXCEPT !.step = "save", !.lock = l]
<1>3. /\ j \in PkgJobs /\ j.step = "save" /\ j.id = job[q].id /\ j.todo = job[q].todo
      /\ j.done = job[q].done /\ j.lock = l
  BY <1>2 DEF PkgJobs
<1>4. job' = [job EXCEPT ![q] = j]
  BY <1>1, <1>a DEF PkgTypes
<1> HIDE DEF j
<1>5. job' \in [Procs -> PkgJobs] /\ \A r \in Procs : job'[r] = j /\ job[r] = job[q]
  BY <1>3, <1>4, <1>a, JobSet
<1>6. lock' \in Seq(Recs) /\ OneRecord(lock') /\ \A r, n : ~InLock(lock', r, n)
  <2>1. <<>> \in Seq(Recs) /\ DOMAIN <<>> = {}
    OBVIOUS
  <2> QED BY <1>1, <2>1 DEF OneRecord, InLock
<1>7. PkgTypes'
  BY <1>2, <1>3, <1>5, <1>6, <1>a DEF PkgTypes
<1>8. \A r \in Packages, n \in PkgNames : Claimed(r, n)' => Claimed(r, n)
  BY <1>3, <1>5, <1>6 DEF Claimed
<1>9. NoOverlap'
  BY <1>8, <1>a, ClaimsShrink
<1>10. PkgWork'
  BY <1>1, <1>3, <1>5 DEF PkgWork
<1> QED BY <1>7, <1>9, <1>10 DEF PkgInv

LEMMA NextSave ==
  ASSUME OneInstaller, PkgInv, NEW q \in Procs, PK!Save(q)
  PROVE  PkgInv'
<1>a. PkgTypes /\ NoOverlap /\ PkgWork
  BY DEF PkgInv
<1> DEFINE p == job[q].id
           rest == PK!Without(lock, p)
           rec == [id |-> p, files |-> job[q].done]
<1>1. /\ job[q].step = "place" /\ UNCHANGED <<offers, placed, torn>>
      /\ PK!Truncate(q, Append(rest, rec))
  BY <1>a DEF PK!Save, PkgWork
<1>2. p \in Packages /\ rec \in Recs /\ rec.id = p /\ rec.files = job[q].done
  <2>1. job[q] \in PkgJobs /\ p \in Packages
    BY <1>1, <1>a DEF PkgTypes
  <2> QED BY <2>1 DEF PkgJobs, Recs
<1> HIDE DEF rec
<1>3. /\ rest \in Seq(Recs) /\ OneRecord(rest)
      /\ \A r, n : InLock(rest, r, n) <=> r # p /\ InLock(lock, r, n)
      /\ \A i \in DOMAIN rest : rest[i].id # p
  BY <1>a, WithoutOne DEF PkgTypes
<1> HIDE DEF rest
<1> DEFINE l == Append(rest, rec)
<1>4. /\ l \in Seq(Recs) /\ OneRecord(l)
      /\ \A r, n : InLock(l, r, n) <=> InLock(rest, r, n) \/ (r = p /\ n \in job[q].done)
  BY <1>2, <1>3, AppendRecord
<1> HIDE DEF l
<1>5. \A r \in Packages, n \in PkgNames : InLock(l, r, n) => Claimed(r, n)
  BY <1>3, <1>4 DEF Claimed
<1>6. ASSUME NEW r \in Packages \ torn, NEW n \in PkgNames PROVE placed[n] = r <=> InLock(l, r, n)
  <2>1. CASE r = p
    BY <1>1, <1>3, <1>4, <2>1, <1>a DEF PkgWork
  <2>2. CASE r # p
    <3>1. \A x \in Procs : job[x] = job[q]
      BY DEF OneInstaller
    <3> QED BY <1>1, <1>3, <1>4, <2>2, <3>1, <1>a DEF PkgWork
  <2> QED BY <2>1, <2>2
<1>7. PK!Truncate(q, l)
  BY <1>1 DEF l
<1> QED BY <1>1, <1>4, <1>5, <1>6, <1>7, NextTruncate

LEMMA NextSaved ==
  ASSUME OneInstaller, PkgInv, NEW q \in Procs, PK!Saved(q)
  PROVE  PkgInv'
<1>a. PkgTypes /\ NoOverlap /\ PkgWork
  BY DEF PkgInv
<1>1. /\ job[q].step = "save" /\ UNCHANGED <<offers, placed, torn>>
      /\ lock' = job[q].lock /\ job' = [job EXCEPT ![q] = PK!Idle]
  BY DEF PK!Saved
<1>2. lock' \in Seq(Recs) /\ OneRecord(lock')
  <2>1. job[q] \in PkgJobs
    BY <1>a DEF PkgTypes
  <2> QED BY <1>1, <2>1, <1>a DEF PkgJobs, PkgWork
<1>3. job' \in [Procs -> PkgJobs] /\ \A r \in Procs : job'[r] = PK!Idle /\ job[r] = job[q]
  BY <1>1, <1>a, IdleJob, JobSet
<1>4. PkgTypes'
  BY <1>1, <1>2, <1>3, <1>a, IdleJob DEF PkgTypes
<1>5. \A r \in Packages, n \in PkgNames : Claimed(r, n)' => Claimed(r, n)
  BY <1>1, <1>3, IdleJob DEF Claimed
<1>6. NoOverlap'
  BY <1>1, <1>5, <1>a, ClaimsShrink
<1>7. PkgWork'
  <2>1. \A r \in Packages \ torn, n \in PkgNames : placed[n] = r <=> InLock(lock', r, n)
    BY <1>1, <1>a DEF PkgWork
  <2> QED BY <1>1, <1>3, <2>1, IdleJob DEF PkgWork
<1> QED BY <1>4, <1>6, <1>7 DEF PkgInv

LEMMA NextUninstall ==
  ASSUME OneInstaller, PkgInv, NEW q \in Procs, NEW p \in Packages, PK!Uninstall(q, p)
  PROVE  PkgInv'
<1>a. PkgTypes /\ NoOverlap /\ PkgWork
  BY DEF PkgInv
<1>1. job[q].step = "idle" /\ UNCHANGED <<offers, lock>>
  BY IdleJob DEF PK!Uninstall
<1>2. PICK i \in DOMAIN lock :
        /\ PK!Removed(lock[i].files, lock[i].id)
        /\ job' = [job EXCEPT ![q] = [PK!Idle EXCEPT !.step = "removed", !.id = lock[i].id,
                                        !.lock = PK!Remove(lock, i)]]
  BY DEF PK!Uninstall
<1> DEFINE a == lock[i].id
           left == PK!Remove(lock, i)
           j == [PK!Idle EXCEPT !.step = "removed", !.id = a, !.lock = left]
<1>3. a \in Packages /\ \A n : n \in lock[i].files <=> InLock(lock, a, n)
  <2>1. lock[i] \in Recs
    BY <1>2, <1>a DEF PkgTypes
  <2> QED BY <2>1, <1>2, <1>a DEF Recs, PkgTypes, InLock, OneRecord
<1>4. /\ left \in Seq(Recs) /\ OneRecord(left)
      /\ \A r, n : InLock(left, r, n) <=> r # a /\ InLock(lock, r, n)
  BY <1>2, <1>a, RemoveRecord DEF PkgTypes
<1> HIDE DEF left
<1>5. /\ j \in PkgJobs /\ j.step = "removed" /\ j.id = a /\ j.todo = {} /\ j.done = {} /\ j.lock = left
  BY <1>3, <1>4 DEF PK!Idle, PkgJobs
<1>6. job' = [job EXCEPT ![q] = j]
  BY <1>2 DEF left
<1> HIDE DEF j
<1>7. job' \in [Procs -> PkgJobs] /\ \A r \in Procs : job'[r] = j /\ job[r] = job[q]
  BY <1>5, <1>6, <1>a, JobSet
<1>8. /\ placed' \in [PkgNames -> Packages \cup {"user", "nobody"}]
      /\ \A n \in PkgNames : placed'[n] \in {placed[n], "nobody"}
      /\ \A n \in PkgNames : ~InLock(lock, a, n) => placed'[n] = placed[n]
      /\ torn \subseteq torn' /\ torn' \subseteq torn \cup {a}
      /\ a \notin torn' => \A n \in PkgNames : InLock(lock, a, n) => placed'[n] = "nobody"
  BY <1>2, <1>3, <1>a, SomeRemoved
<1>9. PkgTypes'
  BY <1>1, <1>3, <1>5, <1>7, <1>8, <1>a DEF PkgTypes
<1>10. \A r \in Packages, n \in PkgNames : Claimed(r, n)' => Claimed(r, n)
  BY <1>1, <1>4, <1>5, <1>7 DEF Claimed
<1>11. NoOverlap'
  BY <1>8, <1>10, <1>a, ClaimsShrink
<1>12. PkgWork'
  <2>1. ASSUME NEW r \in Packages \ torn', NEW n \in PkgNames
        PROVE  /\ r = a => placed'[n] # a
               /\ r # a => (placed'[n] = r <=> InLock(lock, r, n))
    <3>1. placed[n] = r <=> InLock(lock, r, n)
      BY <1>1, <1>7, <1>8, <1>a DEF PkgWork
    <3>2. InLock(lock, a, n) /\ r # a => ~InLock(lock, r, n)
      BY <1>3, <1>a DEF NoOverlap, Claimed
    <3>3. CASE r = a
      BY <1>8, <3>1, <3>3 DEF OneInstaller
    <3>4. CASE r # a
      <4>1. placed'[n] \in {placed[n], "nobody"} /\ r # "nobody"
        BY <1>8 DEF OneInstaller
      <4>2. InLock(lock, r, n) => placed'[n] = placed[n]
        BY <1>8, <3>2, <3>4
      <4> QED BY <3>1, <3>4, <4>1, <4>2
    <3> QED BY <3>3, <3>4
  <2> QED BY <1>1, <1>3, <1>4, <1>5, <1>7, <2>1 DEF PkgWork
<1> QED BY <1>9, <1>11, <1>12 DEF PkgInv

LEMMA NextSaveRemoved ==
  ASSUME OneInstaller, PkgInv, NEW q \in Procs, PK!SaveRemoved(q)
  PROVE  PkgInv'
<1>a. PkgTypes /\ NoOverlap /\ PkgWork
  BY DEF PkgInv
<1> DEFINE p == job[q].id
           l == job[q].lock
<1>1. /\ job[q].step = "removed" /\ UNCHANGED <<offers, placed, torn>>
      /\ PK!Truncate(q, l)
  BY DEF PK!SaveRemoved
<1>2. /\ l \in Seq(Recs) /\ OneRecord(l)
      /\ \A r, n : InLock(l, r, n) <=> r # p /\ InLock(lock, r, n)
  <2>1. job[q] \in PkgJobs
    BY <1>a DEF PkgTypes
  <2> QED BY <1>1, <2>1, <1>a DEF PkgJobs, PkgWork
<1>3. \A r \in Packages, n \in PkgNames : InLock(l, r, n) => Claimed(r, n)
  BY <1>2 DEF Claimed
<1>4. ASSUME NEW r \in Packages \ torn, NEW n \in PkgNames PROVE placed[n] = r <=> InLock(l, r, n)
  <2>1. CASE r = p
    BY <1>1, <1>2, <2>1, <1>a DEF PkgWork
  <2>2. CASE r # p
    <3>1. \A x \in Procs : job[x] = job[q]
      BY DEF OneInstaller
    <3> QED BY <1>1, <1>2, <2>2, <3>1, <1>a DEF PkgWork
  <2> QED BY <2>1, <2>2
<1> QED BY <1>1, <1>2, <1>3, <1>4, NextTruncate

LEMMA NextRelease == OneInstaller /\ PkgInv /\ PK!Release => PkgInv'
<1> SUFFICES ASSUME OneInstaller, PkgInv, PK!Release PROVE PkgInv'
  OBVIOUS
<1>a. PkgTypes /\ NoOverlap /\ PkgWork
  BY DEF PkgInv
<1>1. UNCHANGED <<placed, lock, job, torn>>
  BY DEF PK!Release
<1>2. PICK p \in Packages, these \in SUBSET PkgNames :
        /\ \A n \in these : PK!MayTake(p, n)
        /\ offers' = [offers EXCEPT ![p] = these]
  BY DEF PK!Release
<1>3. \A n \in these : placed[n] \in {"nobody", p} /\ \A r \in Packages \ {p} : ~Claimed(r, n)
  BY <1>2, ClaimsClaimed DEF PK!MayTake
<1>4. offers'[p] = these /\ \A r \in Packages \ {p} : offers'[r] = offers[r]
  BY <1>2, <1>a DEF PkgTypes
<1>5. PkgTypes'
  BY <1>1, <1>2, <1>a DEF PkgTypes
<1>6. \A r \in Packages, n \in PkgNames : Claimed(r, n)' => Claimed(r, n) \/ (r = p /\ n \in these)
  BY <1>1, <1>4 DEF Claimed
<1>7. NoOverlap'
  BY <1>1, <1>3, <1>6, <1>a DEF NoOverlap
<1>8. PkgWork'
  BY <1>1, <1>a DEF PkgWork
<1> QED BY <1>5, <1>7, <1>8 DEF PkgInv

LEMMA NextUser == OneInstaller /\ PkgInv /\ PK!UserWrites => PkgInv'
<1> SUFFICES ASSUME OneInstaller, PkgInv, PK!UserWrites PROVE PkgInv'
  OBVIOUS
<1>a. PkgTypes /\ NoOverlap /\ PkgWork
  BY DEF PkgInv
<1>1. UNCHANGED <<offers, lock, job, torn>>
  BY DEF PK!UserWrites
<1>2. PICK m \in PkgNames :
        placed[m] = "nobody" /\ PK!MayTake("user", m) /\ placed' = [placed EXCEPT ![m] = "user"]
  BY DEF PK!UserWrites
<1>3. \A r \in Packages : ~Claimed(r, m)
  BY <1>2, ClaimsClaimed DEF PK!MayTake, OneInstaller
<1>4. \A n \in PkgNames : placed'[n] = IF n = m THEN "user" ELSE placed[n]
  BY <1>2, <1>a DEF PkgTypes
<1>5. PkgTypes'
  BY <1>1, <1>2, <1>a DEF PkgTypes
<1>6. \A r \in Packages, n \in PkgNames : Claimed(r, n)' <=> Claimed(r, n)
  BY <1>1 DEF Claimed
<1>7. NoOverlap'
  BY <1>3, <1>4, <1>6, <1>a, ClaimsShrink
<1>8. PkgWork'
  <2>1. \A r \in Packages, n \in PkgNames : placed'[n] = r <=> placed[n] = r
    BY <1>2, <1>4 DEF OneInstaller
  <2> QED BY <1>1, <2>1, <1>a DEF PkgWork
<1> QED BY <1>5, <1>7, <1>8 DEF PkgInv

LEMMA NextPkg == OneInstaller /\ PkgInv /\ [PK!Next]_PK!pkgVars => PkgInv'
<1> SUFFICES ASSUME OneInstaller, PkgInv, [PK!Next]_PK!pkgVars PROVE PkgInv'
  OBVIOUS
<1>1. ASSUME UNCHANGED <<offers, placed, lock, job, torn>> PROVE PkgInv'
  BY <1>1 DEF PkgInv, PkgTypes, NoOverlap, PkgWork, Claimed
<1>2. ASSUME NEW q \in Procs, NEW p \in Packages, PK!FetchFails(q, p) PROVE PkgInv'
  BY <1>1, <1>2 DEF PK!FetchFails
<1>3. ASSUME NEW q \in Procs, PK!CopyFails(q) PROVE PkgInv'
  <2>1. /\ job[q].step = "place" /\ job' = [job EXCEPT ![q] = PK!Idle]
        /\ torn' = torn \cup {job[q].id} /\ UNCHANGED <<offers, placed, lock>>
    BY <1>3 DEF PK!CopyFails
  <2>2. job[q].id \in Packages /\ torn \subseteq Packages
    BY <2>1 DEF PkgInv, PkgTypes
  <2> QED BY <2>1, <2>2, NextStop
<1>4. ASSUME NEW q \in Procs, PK!Crash(q) PROVE PkgInv'
  <2>1. /\ job' = [job EXCEPT ![q] = PK!Idle] /\ UNCHANGED <<offers, placed, lock>>
        /\ torn' = torn \cup PK!Cut(job[q])
    BY <1>4 DEF PK!Crash
  <2>2. CASE job[q].step = "idle"
    BY <1>4, <2>2 DEF PK!Crash, PkgInv, PkgWork
  <2>3. CASE job[q].step # "idle"
    <3>1. job[q] \in PkgJobs /\ job[q].id \in Packages /\ torn \subseteq Packages
      BY <2>3 DEF PkgInv, PkgTypes
    <3>2. job[q].lock \in Seq(Recs)
      BY <3>1 DEF PkgJobs
    <3>3. \A i \in DOMAIN job[q].lock : job[q].lock[i].id \in Packages
      <4> SUFFICES ASSUME NEW i \in DOMAIN job[q].lock PROVE job[q].lock[i] \in Recs
        BY DEF Recs
      <4> QED BY <3>2, ElementOfSeq
    <3>a. \A r \in PK!Range(job[q].lock) : r.id \in Packages
      BY <3>3 DEF PK!Range
    <3>4. PK!Cut(job[q]) \subseteq Packages
      <4>1. CASE job[q].step = "fetched"
        BY <4>1 DEF PK!Cut
      <4>2. CASE job[q].step = "save"
        BY <3>1, <3>a, <4>2 DEF PK!Cut
      <4>3. CASE job[q].step \notin {"fetched", "save"}
        BY <3>1, <4>3 DEF PK!Cut
      <4> QED BY <4>1, <4>2, <4>3
    <3>5. job[q].step \in {"place", "removed"} => job[q].id \in PK!Cut(job[q])
      BY DEF PK!Cut
    <3>6. job[q].step = "save" =>
            \A i \in DOMAIN job[q].lock : job[q].lock[i].id \in PK!Cut(job[q])
      BY DEF PK!Cut, PK!Range
    <3>7. job[q].step = "save" => \A r \in Packages \ torn' : \A n : ~InLock(job[q].lock, r, n)
      BY <2>1, <3>6 DEF InLock
    <3> QED BY <2>1, <2>3, <3>1, <3>4, <3>5, <3>7, NextStop
  <2> QED BY <2>2, <2>3
<1> QED
  BY <1>1, <1>2, <1>3, <1>4, NextFetch, NextReplace, NextPlace, NextSave, NextSaved,
     NextUninstall, NextSaveRemoved, NextRelease, NextUser DEF PK!Next, PK!pkgVars

\* No name is another's, and when no process is at work, what PkgWork says of
\* the packages at work is void.
LEMMA PkgGives == PkgInv => PK!LockIsTrue
<1> SUFFICES ASSUME PkgInv PROVE PK!LockIsTrue
  OBVIOUS
<1>1. \A p, n : n \in PK!FilesOf(lock, p) <=> InLock(lock, p, n)
  BY FilesInLock
<1>2. \A p, n : InLock(lock, p, n) => p \in Packages /\ n \in PkgNames
  BY RecordedInNames DEF PkgInv
<1>3. ASSUME NEW p \in Packages, NEW n \in PK!FilesOf(lock, p) PROVE placed[n] \in {"nobody", p}
  BY <1>1, <1>2 DEF PkgInv, NoOverlap, Claimed
<1>4. ASSUME \A q \in Procs : job[q] = PK!Idle, NEW p \in Packages \ torn
      PROVE  PK!FilesOf(lock, p) = {n \in PkgNames : placed[n] = p}
  <2>1. \A q \in Procs : job[q].step = "idle"
    BY <1>4, IdleJob
  <2>2. \A n \in PkgNames : placed[n] = p <=> InLock(lock, p, n)
    BY <2>1 DEF PkgInv, PkgWork
  <2> QED BY <1>1, <1>2, <2>2
<1> QED BY <1>3, <1>4 DEF PK!LockIsTrue

-----------------------------------------------------------------------------
(* The files on disk *)

FilesInv == EditInv /\ MemInv /\ PkgInv

\* Edits of one file do not overwrite each other, a remembered fact is found,
\* and packages.json never names a file of another owner and, between the
\* installations, all files of each package (rupi-tools FileMutationQueue,
\* rupi-memory files and their table, rupi-cli install and uninstall).  Crashes
\* may come anywhere, also between the truncation of packages.json and its
\* write, and removals may fail: the packages whose record, copies or removal
\* that cost are in torn, and of them only the first half is claimed.
THEOREM FilesHold ==
  ASSUME FewTasks, MarkIsNoFact, OneInstaller
  PROVE  Spec => []FilesTrue
<1>1. Init => FilesInv
  BY InitEdit, InitMem, InitPkg DEF Init, FilesInv
<1>2. [Next]_vars => [FQ!Next]_FQ!fileVars /\ [MF!Next]_MF!memVars /\ [PK!Next]_PK!pkgVars
  BY DEF Next, vars, Others, filesVars, memoryVars, pkgVars, FQ!fileVars, MF!memVars, PK!pkgVars
<1>3. FilesInv /\ [Next]_vars => FilesInv'
  BY <1>2, NextEdit, NextMem, NextPkg DEF FilesInv
<1>4. FilesInv => FilesTrue
  <2>1. EditInv => FQ!EditsKept
    BY DEF EditInv, OneInside, FQ!EditsKept, FQ!Inside, TaskTypes
  <2> QED BY <2>1, MemGives, PkgGives DEF FilesInv, FilesTrue, LockIsTrue, FactsReachable, EditsKept
<1> QED BY <1>1, <1>3, <1>4, PTL DEF Spec
=============================================================================
