---------------------------- MODULE TenantAdmin ----------------------------
(***************************************************************************)
(* The tables of the control plane and the requests that read and change  *)
(* them: those of a tenant (http.rs) and those of the operators (admin.rs). *)
(* A request is a sequence of SQL statements and calls of the executor;    *)
(* each is one step here, and the steps of different requests interleave.  *)
(* What a request read first (the tenant's settings, a session's row) it   *)
(* keeps in seen and uses later.                                           *)
(***************************************************************************)
EXTENDS Integers, FiniteSets

CONSTANTS
  Tenants, Sessions, Keys,     \* ids; each is given out once
  Callers,                       \* requests in flight at a time
  MaxRequests                  \* bound: requests in a behaviour

TenantAdminAssumption == MaxRequests \in Nat \ {0}

VARIABLES
  config,     \* the rows of tenants: id -> [settings, cap]
  keys,       \* the rows of api_keys: id -> [tenant, live]
  sessions,   \* the rows of sessions: id -> [tenant, handle, data]
  born,       \* the session ids given out
  boxes,      \* the sandboxes allocated, each by the session it is for
  req,        \* the request of each process
  requests,   \* how many were made
  promised,   \* auxiliary: tenant -> the settings its patches said were stored
  overlapped, \* auxiliary: tenants with two patches at once
  crossed     \* auxiliary: sessions deleted while they were being created

adminVars == <<config, keys, sessions, born, boxes, req, requests, promised, overlapped, crossed>>

Secrets == {"api_key"}
Settings == {"model", "api_key"}
Masked == "***"
Values == {"none", "x", "y", Masked}
Roles == {"viewer", "operator", "admin"}
NoId == "none"
Idle == [op |-> "idle"]

Plain == [k \in Settings |-> "none"]

Restrict(f, S) == [x \in DOMAIN f \cap S |-> f[x]]

Put(f, x, v) == [y \in DOMAIN f \cup {x} |-> IF y = x THEN v ELSE f[y]]

TypeOK ==
  /\ DOMAIN config \subseteq Tenants
  /\ \A t \in DOMAIN config :
       config[t] \in [settings : [Settings -> Values], cap : 0..Cardinality(Sessions)]
  /\ DOMAIN keys \subseteq Keys /\ \A k \in DOMAIN keys : keys[k].tenant \in Tenants
  /\ DOMAIN sessions \subseteq born /\ born \subseteq Sessions /\ boxes \subseteq born
  /\ DOMAIN req = Callers /\ requests \in 0..MaxRequests

Init ==
  /\ \E t \in Tenants, k \in Keys :
       /\ config = [x \in {t} |-> [settings |-> Plain, cap |-> Cardinality(Sessions)]]
       /\ keys = [x \in {k} |-> [tenant |-> t, live |-> TRUE]]
       /\ promised = [x \in {t} |-> Plain]
  /\ sessions = [x \in {} |-> NoId] /\ born = {} /\ boxes = {}
  /\ req = [p \in Callers |-> Idle] /\ requests = 0
  /\ overlapped = {} /\ crossed = {}

\* What a handler may answer: a masked copy of the settings.
MaskSettings(s) == [k \in Settings |-> IF k \in Secrets /\ s[k] # "none" THEN Masked ELSE s[k]]

\* A bug: a secret is stored as it was shown.
MergeShown(old, patch) == [k \in Settings |-> IF k \in DOMAIN patch THEN patch[k] ELSE old[k]]

\* A secret whose value is the mask is left alone.
MergeAllowed(old, patch) ==
  [k \in Settings |->
     IF k \in DOMAIN patch /\ ~(k \in Secrets /\ patch[k] = Masked) THEN patch[k] ELSE old[k]]

\* A change of one setting, or a changed copy of what a request was shown.
Patches == (UNION {[K -> {"x"}] : K \in {{"model"}, {"api_key"}}})
           \cup {[k \in Settings |-> IF k = "model" THEN "y" ELSE Masked]}

\* A request that was admitted: its steps, and what it knows. The tenant's
\* own requests carry the row of the tenant that the key named.
Take(p, r) ==
  /\ req[p] = Idle /\ requests < MaxRequests
  /\ requests' = requests + 1
  /\ req' = [req EXCEPT ![p] = r]
  /\ UNCHANGED <<config, keys, sessions, born, boxes, promised, overlapped, crossed>>

Request(op, t, s, patch, step) ==
  [op |-> op, tenant |-> t, sid |-> s, patch |-> patch, step |-> step,
   seen |-> IF t \in DOMAIN config THEN config[t].settings ELSE Plain,
   row |-> NoId, new |-> NoId, told |-> {}]

\* tenant_of: the tenants that a key which is not revoked stands for.
Authenticated == {keys[k].tenant : k \in {x \in DOMAIN keys : keys[x].live}} \cap DOMAIN config

CreateSession(p) == \E t \in Authenticated : Take(p, Request("create", t, NoId, NoId, "reserve"))

Duplicate(p) == \E t \in Authenticated, s \in born : Take(p, Request("fork", t, s, NoId, "guard"))

GetSession(p) == \E t \in Authenticated, s \in born : Take(p, Request("read", t, s, NoId, "guard"))

ImportSession(p) == \E t \in Authenticated, s \in born : Take(p, Request("import", t, s, NoId, "guard"))

DeleteSession(p) == \E t \in Authenticated, s \in born : Take(p, Request("remove", t, s, NoId, "guard"))

ListSessions(p) == \E t \in Authenticated : Take(p, Request("list", t, NoId, NoId, "list"))

PatchSettings(p) ==
  \E t \in Authenticated, patch \in Patches : Take(p, Request("patch", t, NoId, patch, "update"))

\* require_admin: the environment's token is an admin, a key has its role, and
\* a role that cannot be read counts as admin. require_write follows.
MayWrite == {"operator", "admin"}

GetTenant(p) == \E role \in Roles, t \in Tenants : Take(p, Request("view", t, NoId, NoId, "view"))

CreateTenant(p) ==
  \E role \in MayWrite, t \in Tenants \ DOMAIN config :
    Take(p, Request("newTenant", t, NoId, NoId, "tenant"))

DeleteTenant(p) ==
  \E role \in MayWrite, t \in DOMAIN config : Take(p, Request("drop", t, NoId, NoId, "sessions"))

CreateKey(p) ==
  \E role \in MayWrite, t \in DOMAIN config : Take(p, Request("newKey", t, NoId, NoId, "key"))

RevokeKey(p) ==
  \E role \in MayWrite, k \in DOMAIN keys :
    keys[k].live /\ Take(p, Request("revoke", keys[k].tenant, k, NoId, "revoke"))

PatchQuota(p) ==
  \E role \in MayWrite, t \in DOMAIN config : Take(p, Request("cap", t, NoId, NoId, "cap"))

\* The console's patch of any tenant's settings, and its removal of any session.
AdminPatchSettings(p) ==
  \E role \in MayWrite, t \in DOMAIN config, patch \in Patches :
    Take(p, Request("patchAny", t, NoId, patch, "update"))

AdminDeleteSession(p) ==
  \E role \in MayWrite, s \in DOMAIN sessions :
    Take(p, [Request("removeAny", sessions[s].tenant, s, NoId, "destroy") EXCEPT !.row = sessions[s]])

Goto(p, step) == req' = [req EXCEPT ![p].step = step]
Answer(p) == req' = [req EXCEPT ![p] = Idle]

\* session_guard: the row of the tenant, or 403 and 404.
Guard(p) ==
  LET r == req[p]
      mine == r.sid \in DOMAIN sessions /\ sessions[r.sid].tenant = r.tenant IN
  /\ r.op \in {"fork", "read", "import", "remove"} /\ r.step = "guard"
  /\ IF mine
     THEN req' = [req EXCEPT ![p].row = sessions[r.sid], ![p].told = {sessions[r.sid].tenant},
                             ![p].step = CASE r.op = "fork" -> "tree" [] r.op = "read" -> "tree"
                                           [] r.op = "import" -> "persist" [] OTHER -> "destroy"]
     ELSE Answer(p)
  /\ UNCHANGED <<config, keys, sessions, born, boxes, requests, promised, overlapped, crossed>>

\* load_tree of get_session, export and duplicate: the tenant's messages only.
ReadTree(p) ==
  LET r == req[p] IN
  /\ r.op \in {"fork", "read"} /\ r.step = "tree"
  /\ IF r.op = "read" \/ r.sid \notin DOMAIN sessions
     THEN Answer(p)
     ELSE req' = [req EXCEPT ![p].told = @ \cup sessions[r.sid].data, ![p].step = "reserve"]
  /\ UNCHANGED <<config, keys, sessions, born, boxes, requests, promised, overlapped, crossed>>

\* insert_session_if_under_cap: the tenant's row is locked, its sessions are
\* counted and the row is inserted in one transaction.
Reserve(p) ==
  LET r == req[p]
      used == {s \in DOMAIN sessions : sessions[s].tenant = r.tenant} IN
  /\ r.op \in {"create", "fork"} /\ r.step = "reserve"
  /\ IF r.tenant \notin DOMAIN config \/ Cardinality(used) >= config[r.tenant].cap
     THEN Answer(p) /\ UNCHANGED <<sessions, born>>
     ELSE \E s \in Sessions \ born :
            /\ born' = born \cup {s}
            /\ sessions' = Put(sessions, s, [tenant |-> r.tenant, handle |-> FALSE, data |-> {}])
            /\ req' = [req EXCEPT ![p].new = s, ![p].step = "alloc"]
  /\ UNCHANGED <<config, keys, boxes, requests, promised, overlapped, crossed>>

\* alloc_workspace; when no node takes it, the row is deleted again.
Alloc(p) ==
  LET r == req[p] IN
  /\ r.op \in {"create", "fork"} /\ r.step = "alloc"
  /\ \/ boxes' = boxes \cup {r.new} /\ Goto(p, "hot") /\ UNCHANGED sessions
     \/ sessions' = Restrict(sessions, born \ {r.new}) /\ Answer(p) /\ UNCHANGED boxes
  /\ UNCHANGED <<config, keys, born, requests, promised, overlapped, crossed>>

\* set_runtime and mark_hot: nothing happens when the row is gone.
MarkHot(p) ==
  LET r == req[p] IN
  /\ r.op \in {"create", "fork"} /\ r.step = "hot"
  /\ sessions' = [s \in DOMAIN sessions |->
                  IF s = r.new THEN [sessions[s] EXCEPT !.handle = TRUE] ELSE sessions[s]]
  /\ Goto(p, IF r.op = "fork" THEN "persist" ELSE "done")
  /\ UNCHANGED <<config, keys, born, boxes, requests, promised, overlapped, crossed>>

\* persist_tree of a fork and of an import: every message refers to its
\* session's row, so that without it the transaction fails.
Persist(p) ==
  LET r == req[p]
      s == IF r.op = "fork" THEN r.new ELSE r.sid
      data == IF r.op = "fork" THEN r.told ELSE {r.tenant} IN
  /\ r.op \in {"fork", "import"} /\ r.step = "persist"
  /\ sessions' = IF s \in DOMAIN sessions /\ sessions[s].tenant = r.tenant
             THEN [sessions EXCEPT ![s].data = data] ELSE sessions
  /\ Answer(p)
  /\ UNCHANGED <<config, keys, born, boxes, requests, promised, overlapped, crossed>>

\* The answer of a creation; "session vanished" when it was deleted.
Created(p) ==
  /\ req[p].op = "create" /\ req[p].step = "done" /\ Answer(p)
  /\ UNCHANGED <<config, keys, sessions, born, boxes, requests, promised, overlapped, crossed>>

InCreation(s) == \E p \in Callers : /\ req[p].op \in {"create", "fork"}
                                  /\ req[p].new = s /\ req[p].step \in {"alloc", "hot"}

\* teardown_session, first half: the sandbox that the row, as read, names.
Destroy(p) ==
  LET r == req[p] IN
  /\ r.op \in {"remove", "removeAny"} /\ r.step = "destroy"
  /\ boxes' = IF r.row.handle THEN boxes \ {r.sid} ELSE boxes
  /\ req' = [req EXCEPT ![p].step = "row"]
  /\ crossed' = IF ~r.row.handle /\ (r.sid \in boxes \/ InCreation(r.sid))
                THEN crossed \cup {r.sid} ELSE crossed
  /\ UNCHANGED <<config, keys, sessions, born, requests, promised, overlapped>>

\* Second half: the row, of that tenant, and its messages with it.
DropRow(p) ==
  LET r == req[p] IN
  /\ r.op \in {"remove", "removeAny"} /\ r.step = "row"
  /\ sessions' = IF r.sid \in DOMAIN sessions /\ sessions[r.sid].tenant = r.tenant
             THEN Restrict(sessions, born \ {r.sid}) ELSE sessions
  /\ Answer(p)
  /\ UNCHANGED <<config, keys, born, boxes, requests, promised, overlapped, crossed>>

\* list_sessions. (It reads the replica, which may lag behind.)
Listed(p) ==
  LET r == req[p] IN
  /\ r.op = "list" /\ r.step = "list"
  /\ req' = [req EXCEPT ![p].step = "shown",
               ![p].told = {sessions[s].tenant :
                              s \in {x \in DOMAIN sessions : sessions[x].tenant = r.tenant}}]
  /\ UNCHANGED <<config, keys, sessions, born, boxes, requests, promised, overlapped, crossed>>

\* get_tenant and get_settings of the console: masked.
View(p) ==
  LET r == req[p] IN
  /\ r.op = "view" /\ r.step = "view"
  /\ IF r.tenant \in DOMAIN config
     THEN req' = [req EXCEPT ![p].seen = MaskSettings(config[r.tenant].settings),
                             ![p].step = "shown"]
     ELSE Answer(p)
  /\ UNCHANGED <<config, keys, sessions, born, boxes, requests, promised, overlapped, crossed>>

Shown(p) ==
  /\ req[p].op \in {"list", "view"} /\ req[p].step = "shown" /\ Answer(p)
  /\ UNCHANGED <<config, keys, sessions, born, boxes, requests, promised, overlapped, crossed>>

\* patch_settings: the whole object, merged into what was read, is written.
Update(p) ==
  LET r == req[p]
      merged == MergeAllowed(r.seen, r.patch)
      live == r.tenant \in DOMAIN config IN
  /\ r.op \in {"patch", "patchAny"} /\ r.step = "update"
  /\ config' = IF live THEN [config EXCEPT ![r.tenant].settings = merged] ELSE config
  /\ overlapped' = IF live /\ config[r.tenant].settings # r.seen
                   THEN overlapped \cup {r.tenant} ELSE overlapped
  /\ promised' = IF live THEN [promised EXCEPT ![r.tenant] = MergeAllowed(@, r.patch)] ELSE promised
  /\ Answer(p)
  /\ UNCHANGED <<keys, sessions, born, boxes, requests, crossed>>

\* patch_quota and patch_tenant: each column that is given, in one statement.
\* A number below zero is refused before anything is written.
PatchCap(p) ==
  LET r == req[p] IN
  /\ r.op = "cap" /\ r.step = "cap"
  /\ IF r.tenant \in DOMAIN config
     THEN \E n \in {-1, 1} : IF n < 0 THEN UNCHANGED config
                             ELSE config' = [config EXCEPT ![r.tenant].cap = n]
     ELSE UNCHANGED config
  /\ Answer(p)
  /\ UNCHANGED <<keys, sessions, born, boxes, requests, promised, overlapped, crossed>>

\* create_tenant inserts the tenant and then its key; the key is answered at
\* the end, unless the quota of the request is refused.
InsertTenant(p) ==
  LET r == req[p] IN
  /\ r.op = "newTenant" /\ r.step = "tenant"
  /\ IF r.tenant \in DOMAIN config THEN Answer(p) /\ UNCHANGED <<config, promised>>
     ELSE /\ config' = Put(config, r.tenant, [settings |-> Plain, cap |-> 1])
          /\ promised' = Put(promised, r.tenant, Plain)
          /\ req' = [req EXCEPT ![p].op = "newKey", ![p].step = "key"]
  /\ UNCHANGED <<keys, sessions, born, boxes, requests, overlapped, crossed>>

\* create_api_key: the key refers to its tenant's row.
InsertKey(p) ==
  LET r == req[p] IN
  /\ r.op = "newKey" /\ r.step = "key"
  /\ IF r.tenant \in DOMAIN config /\ Keys \ DOMAIN keys # {}
     THEN \E k \in Keys \ DOMAIN keys :
            keys' = Put(keys, k, [tenant |-> r.tenant, live |-> TRUE])
     ELSE UNCHANGED keys
  /\ Answer(p)
  /\ UNCHANGED <<config, sessions, born, boxes, requests, promised, overlapped, crossed>>

Revoke(p) ==
  LET r == req[p] IN
  /\ r.op = "revoke" /\ r.step = "revoke"
  /\ keys' = IF r.sid \in DOMAIN keys THEN [keys EXCEPT ![r.sid].live = FALSE] ELSE keys
  /\ Answer(p)
  /\ UNCHANGED <<config, sessions, born, boxes, requests, promised, overlapped, crossed>>

\* delete_tenant, first: the list of its sessions, each torn down as it was
\* listed. One step: the races of a teardown are those of Destroy.
DropSessions(p) ==
  LET r == req[p]
      listed == {s \in DOMAIN sessions : sessions[s].tenant = r.tenant} IN
  /\ r.op = "drop" /\ r.step = "sessions"
  /\ boxes' = boxes \ {s \in listed : sessions[s].handle}
  /\ crossed' = crossed \cup {s \in listed : ~sessions[s].handle /\ (s \in boxes \/ InCreation(s))}
  /\ sessions' = Restrict(sessions, born \ listed)
  /\ Goto(p, "keys")
  /\ UNCHANGED <<config, keys, born, requests, promised, overlapped>>

\* Then its keys are revoked, in a statement of its own,
RevokeAll(p) ==
  LET r == req[p] IN
  /\ r.op = "drop" /\ r.step = "keys"
  /\ keys' = [k \in DOMAIN keys |-> IF keys[k].tenant = r.tenant
                                    THEN [keys[k] EXCEPT !.live = FALSE] ELSE keys[k]]
  /\ Goto(p, "tenant")
  /\ UNCHANGED <<config, sessions, born, boxes, requests, promised, overlapped, crossed>>

\* and its row is deleted, with whatever refers to it: the sessions that were
\* created since they were listed lose their rows, not their sandboxes.
DropTenant(p) ==
  LET r == req[p]
      late == {s \in DOMAIN sessions : sessions[s].tenant = r.tenant} IN
  /\ r.op = "drop" /\ r.step = "tenant"
  /\ config' = Restrict(config, Tenants \ {r.tenant})
  /\ keys' = Restrict(keys, {k \in DOMAIN keys : keys[k].tenant # r.tenant})
  /\ sessions' = Restrict(sessions, born \ late)
  /\ promised' = Restrict(promised, Tenants \ {r.tenant})
  /\ crossed' = crossed \cup late
  /\ Answer(p)
  /\ UNCHANGED <<born, boxes, requests, overlapped>>

TenantAsks(p) ==
  \/ CreateSession(p) \/ Duplicate(p) \/ GetSession(p) \/ ImportSession(p) \/ DeleteSession(p)
  \/ ListSessions(p) \/ PatchSettings(p)

OperatorAsks(p) ==
  \/ GetTenant(p) \/ CreateTenant(p) \/ DeleteTenant(p) \/ CreateKey(p) \/ RevokeKey(p)
  \/ PatchQuota(p) \/ AdminPatchSettings(p) \/ AdminDeleteSession(p)

Goes(p) ==
  \/ Guard(p) \/ ReadTree(p) \/ Reserve(p) \/ Alloc(p) \/ MarkHot(p) \/ Persist(p) \/ Created(p)
  \/ Destroy(p) \/ DropRow(p) \/ Listed(p) \/ View(p) \/ Shown(p) \/ Update(p) \/ PatchCap(p)
  \/ InsertTenant(p) \/ InsertKey(p) \/ Revoke(p) \/ DropSessions(p) \/ RevokeAll(p) \/ DropTenant(p)

Next == \E p \in Callers : TenantAsks(p) \/ OperatorAsks(p) \/ Goes(p)

Spec == Init /\ [][Next]_adminVars

----------------------------------------------------------------------------
\* A request of a tenant is shown, and a session of it holds, nothing of another
\* tenant, although sessions are named by id and trees are copied and imported.
TenantsApart ==
  /\ \A s \in DOMAIN sessions : sessions[s].data \subseteq {sessions[s].tenant}
  /\ \A p \in Callers : req[p].op \in {"create", "fork", "read", "import", "remove", "list"}
                        => req[p].told \subseteq {req[p].tenant}

\* The mask that the console and GET /v1/settings show in the place of a secret
\* is never stored in its place, and a secret is never shown to an operator.
SecretsKept ==
  /\ \A t \in DOMAIN config, k \in Secrets : config[t].settings[k] # Masked
  /\ \A p \in Callers : req[p].op = "view" /\ req[p].step = "shown"
                        => \A k \in Secrets : req[p].seen[k] \in {"none", Masked}

\* A setting that a patch was told is stored is stored, whatever else was
\* patched since, unless two patches of the tenant were in flight at once: each
\* writes the whole object that it read (admin.rs:836, http.rs:189).
PatchesKept ==
  \A t \in DOMAIN config \ overlapped : config[t].settings = promised[t]

\* A sandbox belongs to a row that names it, or its creation is still running;
\* only a session that was deleted while it was being created leaves one behind.
BoxesNamed ==
  \A s \in boxes : \/ s \in DOMAIN sessions /\ sessions[s].handle
                   \/ InCreation(s) \/ s \in crossed

=============================================================================
