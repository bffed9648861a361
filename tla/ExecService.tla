---------------------------- MODULE ExecService ----------------------------
(***************************************************************************)
(* A workspace used over HTTP: the tools of a cloud session, the clients   *)
(* of the control plane (HttpExecutor, SandboxExecutor), and the routes of *)
(* rupi-execd and rupi-sandboxd, which differ in names and in the image    *)
(* only.  What the routes call is ExecEngine; here a route is one step, a  *)
(* directory the set of what is in it, and a call can be given up while    *)
(* its request is still on the way.                                        *)
(***************************************************************************)
EXTENDS Integers, FiniteSets

CONSTANTS
  Handles,
  MaxAsked   \* calls in a behaviour

ExecServiceAssumption == MaxAsked \in Nat \ {0}

VARIABLES
  slots,    \* the node's leased map: the tenant of a handle; "" free, "gone" for ever
  disk,     \* what is in the directory of a handle
  call,     \* the call under way, and where it is
  answer,   \* of the node to it
  result,   \* what the tool, or the caller, makes of the answer
  did,      \* what the node did for the call
  stray,    \* requests whose caller has given up
  archive,  \* the last archive a caller got; <<>> before
  calls     \* how many

serviceVars == <<slots, disk, call, answer, result, did, stray, archive, calls>>

\* In a directory: a file, one whose text holds "pool_exhausted", a link that
\* leads out of it (a venv's python), and what git brings.
Items == {"file", "mark", "link", "repo"}
Tenants == {"t", "u"}
\* cloud_tools, and what else the control plane asks of a node.
CloudTools == {"read", "write", "edit", "glob", "grep", "bash"}
Ops == CloudTools \cup {"create", "release", "destroy", "abort", "bootstrap", "snapshot", "restore"}

NoCall == [at |-> "none", op |-> "none", token |-> TRUE, tenant |-> "", h |-> "", item |-> ""]
Nothing == [done |-> FALSE, saw |-> {}]
Answer(status, text, err) == [status |-> status, text |-> text, err |-> err]
NoAnswer == Answer(0, {}, FALSE)

----------------------------------------------------------------------------
(***************************************************************************)
(* The routes.                                                             *)
(***************************************************************************)
AuthOk(c) == c.token
TenantOf(c) == c.tenant # ""
\* require_tenant, and the status map_err gives to what it says.
MapErr(c) ==
  CASE ~AuthOk(c) -> 401
    [] c.op = "create" -> IF slots[c.h] = "" THEN 200 ELSE 429
    [] ~TenantOf(c) -> 403
    [] slots[c.h] \in {"", "gone"} -> 404
    [] slots[c.h] # c.tenant -> 403
    [] OTHER -> 200

\* What a route does: the slots and the directory after it, what it read, and
\* whether its tool reports an error.
Effect(leases, dir, saw, err) == [leases |-> leases, dir |-> dir, saw |-> saw, err |-> err]
Same(c, saw, err) == Effect(slots, disk[c.h], saw, err)

\* The image is `default' whoever asks.
Create(c) == {Effect([slots EXCEPT ![c.h] = c.tenant], {}, {}, FALSE)}
Release(c) == {Effect([slots EXCEPT ![c.h] = "gone"], {}, {}, FALSE)}
Destroy(c) == Release(c)
\* The command writes, or fails, or runs out of time after it wrote.
Exec(c) == {Effect(slots, d, d, err) : d \in {disk[c.h], disk[c.h] \cup {c.item}}, err \in BOOLEAN}
Abort(c) == {Same(c, {}, FALSE)}
FsRead(c) == {Same(c, disk[c.h] \cap {c.item}, c.item \notin disk[c.h])}
FsWrite(c) == {Effect(slots, disk[c.h] \cup {c.item}, {}, FALSE)}
\* The edit takes the text away; without it, it is refused.
FsEdit(c) == IF c.item \in disk[c.h] THEN {Effect(slots, disk[c.h] \ {c.item}, {}, FALSE)}
                                     ELSE {Same(c, {}, TRUE)}
Glob(c) == {Same(c, disk[c.h] \ {"mark"}, FALSE)}
Grep(c) == {Same(c, disk[c.h], FALSE)}
\* git clones into an empty directory only, and may fail.
Bootstrap(c) ==
  {Same(c, {}, FALSE)} \cup
  IF disk[c.h] = {} THEN {Effect(slots, {"repo"}, {}, FALSE)} ELSE {}
Snapshot(c) == {Same(c, disk[c.h], FALSE)}
\* assert_extracted_inside: a link that leads out fails the whole archive.
ExtractedInside(blob) == "link" \notin blob
\* restore_for: wiped first, and wiped again when the archive is refused.
Restore(c) ==
  {IF ExtractedInside(archive[1]) THEN Effect(slots, archive[1], {}, FALSE)
                                  ELSE Effect(slots, {}, {}, TRUE)}

Route(c) ==
  CASE c.op = "create" -> Create(c)       [] c.op = "release" -> Release(c)
    [] c.op = "destroy" -> Destroy(c)     [] c.op = "bash" -> Exec(c)
    [] c.op = "abort" -> Abort(c)         [] c.op = "read" -> FsRead(c)
    [] c.op = "write" -> FsWrite(c)       [] c.op = "edit" -> FsEdit(c)
    [] c.op = "glob" -> Glob(c)           [] c.op = "grep" -> Grep(c)
    [] c.op = "bootstrap" -> Bootstrap(c) [] c.op = "snapshot" -> Snapshot(c)
    [] c.op = "restore" -> Restore(c)

\* A restore that fails is a 500; a tool that fails is an answer like another.
Reply(c, e) ==
  IF e.err /\ c.op = "restore" THEN Answer(500, {}, TRUE)
  ELSE Answer(200, IF c.op = "snapshot" THEN {} ELSE e.saw, e.err)

----------------------------------------------------------------------------
(***************************************************************************)
(* The callers.                                                            *)
(***************************************************************************)
\* The executor's methods: the body names the handle and its tenant.
Ask(c) ==
  /\ call.at \in {"none", "over"} /\ calls < MaxAsked
  /\ c.op = "restore" => archive # <<>>
  /\ call' = c /\ answer' = NoAnswer /\ result' = "none" /\ did' = Nothing
  /\ stray' = {s \in stray : s.at = "sent"}
  /\ calls' = calls + 1 /\ UNCHANGED <<slots, disk, archive>>

Serve(c, e) ==
  IF MapErr(c) # 200 THEN UNCHANGED <<slots, disk>>
  ELSE slots' = e.leases /\ disk' = [disk EXCEPT ![c.h] = e.dir]
Serving ==
  /\ call.at = "sent"
  /\ \E e \in Route(call) :
       /\ Serve(call, e)
       /\ IF MapErr(call) # 200 THEN answer' = Answer(MapErr(call), {}, TRUE) /\ UNCHANGED did
          ELSE answer' = Reply(call, e) /\ did' = [done |-> TRUE, saw |-> e.saw]
  /\ call' = [call EXCEPT !.at = "served"]
  /\ UNCHANGED <<result, stray, archive, calls>>

\* A request whose caller is gone: done, or dropped when the connection is seen
\* to be closed.
Straying ==
  \E c \in {s \in stray : s.at = "sent"} :
    /\ \/ stray' = stray \ {c} /\ UNCHANGED <<slots, disk>>
       \/ /\ stray' = (stray \ {c}) \cup {[c EXCEPT !.at = "ran"]}
          /\ \E e \in Route(c) : Serve(c, e)
    /\ UNCHANGED <<call, answer, result, did, archive, calls>>

\* post, send: whatever the status, an answer that holds the words is a full pool.
Post(a) ==
  CASE a.status = 429 \/ "mark" \in a.text -> "exhausted"
    [] a.status # 200 -> "refused"
    [] OTHER -> "text"
\* ExecFsTool and ExecBashTool make the tool's output of it.
ToolOutput(c, a) ==
  CASE Post(a) # "text" -> Post(a) [] a.err -> "error" [] OTHER -> "ok"
Answered ==
  /\ call.at = "served" /\ call' = [call EXCEPT !.at = "over"]
  /\ result' = ToolOutput(call, answer)
  /\ archive' = IF call.op = "snapshot" /\ result' = "ok" THEN <<did.saw>> ELSE archive
  /\ UNCHANGED <<slots, disk, answer, did, stray, calls>>

\* execute_with_cancel: the request is dropped where it is, and abort is asked
\* for; it has its own request, which may come first.  A stray request that
\* would only read, or be refused, is forgotten.
Cancelled ==
  /\ call.at \in {"sent", "served"} /\ call.op \in CloudTools
  /\ call' = [call EXCEPT !.at = "over"] /\ result' = "cancelled"
  /\ stray' = IF call.at = "sent" /\ MapErr(call) = 200 /\ call.op \in {"write", "edit", "bash"}
            THEN stray \cup {call} ELSE stray
  /\ UNCHANGED <<slots, disk, answer, did, archive, calls>>

Init ==
  /\ slots = [h \in Handles |-> ""] /\ disk = [h \in Handles |-> {}]
  /\ call = NoCall /\ answer = NoAnswer /\ result = "none" /\ did = Nothing
  /\ stray = {} /\ archive = <<>> /\ calls = 0

Next ==
  \/ \E op \in Ops, ok \in BOOLEAN, t \in Tenants \cup {""}, h \in Handles, x \in Items \ {"repo"} :
       \* a bad token, another tenant or none, and the choice of an item are
       \* each worth a few kinds of calls
       /\ ~ok => op = "write" /\ t = "t"
       /\ t # "t" => op \in {"read", "write", "release"}
       /\ CASE op \in {"read", "write"} /\ t = "t" /\ ok -> x # "link"
            [] op = "bash" -> x = "link"
            [] OTHER -> x = "file"
       /\ Ask([at |-> "sent", op |-> op, token |-> ok, tenant |-> t, h |-> h, item |-> x])
  \/ Serving \/ Straying \/ Answered \/ Cancelled

Spec == Init /\ [][Next]_serviceVars

----------------------------------------------------------------------------
TypeOK ==
  /\ slots \in [Handles -> Tenants \cup {"", "gone"}] /\ disk \in [Handles -> SUBSET Items]
  /\ result \in {"none", "ok", "error", "refused", "exhausted", "cancelled"} /\ calls \in 0..MaxAsked

\* What a caller is told is so: `ok' of a call the node carried out, in a
\* workspace of the caller's tenant, with what was there as the answer;
\* refused, of one it did not; a full pool, of one that was refused for that,
\* or, and this the caller cannot tell, one whose answer held those words.  A
\* restore gives back what the snapshot took, or, told as such, nothing; until
\* a request does its work whose caller has given up.
AnswersTrue ==
  call.at = "over" =>
    /\ result = "ok" => did.done
    /\ result = "refused" => ~did.done \/ call.op = "restore"
    /\ result = "exhausted" =>
         ~did.done \/ (answer.status = 200 /\ "mark" \in did.saw)
    /\ did.done => call.token /\ call.tenant # ""
    /\ result = "ok" /\ call.op = "read" => did.saw = {call.item}
    /\ call.op = "restore" /\ did.done =>
         \/ disk[call.h] = IF result = "ok" THEN archive[1] ELSE {}
         \/ \E c \in stray : c.at = "ran"
    /\ \A h \in Handles : slots[h] \in {"", "gone"} => disk[h] = {}
=============================================================================
