------------------------------ MODULE ToolGate ------------------------------
(***************************************************************************)
(* What stands between a tool call of the model and its execution          *)
(* (rupi-agent: hooks, policy, approval, plan mode, tool filter, discovery)*)
(* and what of it reaches a subagent, which is built once, at the start of *)
(* the session, as a copy of the tools and of the gate of that moment.     *)
(***************************************************************************)
EXTENDS Naturals, FiniteSets

CONSTANT MaxGated       \* bound: calls of a behaviour

ToolGateAssumption == MaxGated \in Nat

VARIABLES
  plan,       \* plan mode of the session's agent
  filter,     \* the tools that --tools and --exclude-tools leave out
  approver,   \* who answers: "none", "all" (--approve) or "person"
  hooks,      \* whether commands are redirected
  tools,      \* the tool table of the session
  snap,       \* the subagent's copy: the tools, and plan mode at the start
  depth,      \* 0: the session's agent; n: n subagents deep
  approved,   \* the reasons that a person has approved for the session
  found,      \* tools that search_tools has revealed
  executed,        \* auxiliary: what was executed, where, and on whose word
  count

toolGateVars == <<plan, filter, approver, hooks, tools, snap, depth, approved, found, executed, count>>

Builtin == {"read", "bash", "write"}
Mutating == {"bash", "write"}
Other == {"extension", "memory", "subagent", "search_tools"}
Commands == {"ls", "wipe", "erase"}     \* bash_block names "erase"; a hook may turn wipe into it
MaxDepth == 2
Always == Builtin

TypeOK ==
  /\ plan \in BOOLEAN /\ filter \subseteq Builtin \cup Other
  /\ tools \subseteq Builtin \cup Other /\ snap.tools \subseteq Builtin /\ snap.plan \in BOOLEAN
  /\ depth \in 0..MaxDepth /\ approved \subseteq Commands
  /\ found \subseteq Builtin \cup Other /\ count \in 0..MaxGated

\* tool_allowed.
Kept(set) == set \ filter

\* SubagentTool::new and inherit_from come before apply_tool_filter.
Init ==
  /\ plan \in BOOLEAN /\ hooks \in BOOLEAN
  /\ filter \in {{}, {"bash", "extension"}, Builtin \cup Other}
  /\ approver \in {"none", "all", "person"}
  /\ snap = [tools |-> Builtin, plan |-> plan]
  /\ tools = Kept(Builtin \cup {"subagent"})
  /\ depth = 0 /\ approved = {} /\ found = {} /\ executed = {} /\ count = 0

\* The gate of the agent that is at work: a subagent has no tool filter, and its
\* own delegate only while the depth allows.
Planning == IF depth = 0 THEN plan ELSE snap.plan
Table ==
  IF depth = 0 THEN tools ELSE snap.tools \cup IF depth < MaxDepth THEN {"subagent"} ELSE {}

\* tool_visible, and discovery: what the model is shown. Memory is not in the table.
Visible == IF depth = 0 THEN Kept(Table \cup {"memory"}) ELSE Table \cup {"memory"}
Shown == IF depth = 0 THEN (Visible \cap (Always \cup found)) \cup {"search_tools"} ELSE Visible

\* search_definitions: among what is visible and not always there.
SearchTools(query) ==
  /\ count < MaxGated /\ depth = 0
  /\ found' = found \cup (query \cap (Visible \ Always))
  /\ count' = count + 1
  /\ UNCHANGED <<plan, filter, approver, hooks, tools, snap, depth, approved, executed>>

\* RedirectCommandHook.before: hooks see the call first and may rewrite it.
Hooked(tool, cmd) == IF hooks /\ depth = 0 /\ tool = "bash" /\ cmd = "wipe" THEN "erase" ELSE cmd

\* RulePolicy.decide, with the rules of the command line.
Asks(tool, cmd) == tool = "bash" /\ cmd = "erase"

\* Approver.approve by way of decide_with: the session's memory first, then the
\* person, whose answer may stand for the session.
Approve(cmd, yes) ==
  \/ approver = "all" /\ yes /\ UNCHANGED approved
  \/ approver = "none" /\ ~yes /\ UNCHANGED approved
  \/ /\ approver = "person"
     /\ \/ cmd \in approved /\ yes /\ UNCHANGED approved
        \/ cmd \notin approved /\ yes /\ approved' \in {approved, approved \cup {cmd}}
        \/ cmd \notin approved /\ ~yes /\ UNCHANGED approved

\* execute_allowed: memory is asked before the table; the filter is not consulted.
Executed(tool, cmd, said) ==
  /\ executed' = IF tool \in Table \cup {"memory"}
            THEN executed \cup {[tool |-> tool, cmd |-> cmd, at |-> depth, planning |-> Planning, said |-> said]}
            ELSE executed
  /\ depth' = IF tool = "subagent" /\ tool \in Table THEN depth + 1 ELSE depth

Refused == UNCHANGED <<executed, depth>>

\* One call: hooks, policy, approval, then plan mode, which refuses even what a
\* person has just approved. The model may call what it is not shown.
Call(tool, cmd) ==
  LET c == Hooked(tool, cmd) IN
  /\ count < MaxGated /\ count' = count + 1
  /\ IF Asks(tool, c)
     THEN \E yes \in BOOLEAN :
            /\ Approve(c, yes)
            /\ IF ~yes \/ (Planning /\ tool \in Mutating) THEN Refused ELSE Executed(tool, c, TRUE)
     ELSE /\ UNCHANGED approved
          /\ IF Planning /\ tool \in Mutating THEN Refused ELSE Executed(tool, c, FALSE)
  /\ UNCHANGED <<plan, filter, approver, hooks, tools, snap, found>>

\* The subagent answers with its summary.
SubagentEnds == depth > 0 /\ depth' = depth - 1
                /\ UNCHANGED <<plan, filter, approver, hooks, tools, snap, approved, found, executed, count>>

\* /plan, between two turns: the agent's own, not the subagent's copy.
PlanSlash ==
  /\ depth = 0 /\ count < MaxGated /\ count' = count + 1 /\ plan' = ~plan
  /\ UNCHANGED <<filter, approver, hooks, tools, snap, depth, approved, found, executed>>

\* refresh_extensions: a new tool enters the table, past the filter.
Reloaded ==
  /\ depth = 0 /\ tools' = tools \cup {"extension"}
  /\ UNCHANGED <<plan, filter, approver, hooks, snap, depth, approved, found, executed, count>>

Next ==
  \/ \E query \in {{"extension"}, {"memory", "subagent"}} : SearchTools(query)
  \/ \E cmd \in Commands : Call("bash", cmd)
  \/ \E tool \in {"read", "write", "extension", "memory", "subagent"} : Call(tool, "")
  \/ SubagentEnds \/ PlanSlash \/ Reloaded

Spec == Init /\ [][Next]_toolGateVars

----------------------------------------------------------------------------
\* What ran was let through: a blocked command, as it was executed, only on the
\* word of the approver; nothing that changes files while its agent plans, and
\* not in a subagent of a session started in plan mode; no built-in tool that
\* the filter leaves out, but in a subagent; and nothing is shown that is left
\* out, however it was found.
GateKept ==
  /\ \A r \in executed :
       /\ r.cmd = "erase" => r.said /\ approver # "none"
       /\ r.tool \in Mutating => ~r.planning /\ (r.at > 0 => ~snap.plan)
       /\ r.tool \in Builtin /\ r.at = 0 => r.tool \notin filter
  /\ depth = 0 => (Shown \ {"search_tools"}) \cap filter = {}
=============================================================================
