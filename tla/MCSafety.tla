------------------------------ MODULE MCSafety -------------------------------
(***************************************************************************)
(* The modules of the control plane, the sessions and the tools, which     *)
(* share no state and have safety properties only, checked side by side:   *)
(* Init chooses one of them (part), whose variables then move while those  *)
(* of the others keep one of their initial values.  The states of the      *)
(* parts add up instead of multiplying.                                    *)
(***************************************************************************)
EXTENDS Integers, Sequences, FiniteSets, TLC

CONSTANTS
  Requests, Batch, Races, Hosts, ReadMax, MaxId, MaxSession, Servers, Tools,
  Files, Declared, Upsets, MaxVersion, Asks, Replies, Callings, Answers,
  Foreign, SessionNames, Places, ListMax, ResumeListMax, FileReadMax,
  ResumeReadMax, MaxTurns, MaxMade, Reqs, Execs, Nodes, Cap, WarmMax, Queue,
  Dirs, Jailed, Nowhere, Tenants, Sessions, Keys, Callers, MaxRequests,
  Owners, MaxRows, MaxCrashes

ASSUME MCSafetyAssumption ==
  {Batch, ReadMax, MaxId, MaxSession, MaxVersion, ListMax, ResumeListMax,
   FileReadMax, ResumeReadMax, MaxTurns, MaxMade, Cap, MaxRequests, MaxRows} \subseteq Nat \ {0}

VARIABLES part,
  db, cache, fill, ask, ran, holder, at, resume, work, todo, importing,
  host, up, parent, leaf, sum, sid, turn, base, saved, of, rows, stored,
  known, file, warned,
  started, remote, watch, missed, disk, version, snapshot, hosts, registry,
  shelf, opened, jsonl, short,
  alloc, ranked, expired, slots, node, children, inode, warm, refill, wrote,
  unwiped, epc, on, cwd, alive, back,
  config, keys, sessions, born, boxes, req, requests, promised, overlapped,
  crossed,
  memories, added, frozenAt, frozenKey, storing,
  parts, stamps, boot, crashes, early

runVars ==
  <<db, cache, fill, ask, ran, holder, at, resume, work, todo, importing>>
sessionVars ==
  <<host, up, parent, leaf, sum, sid, turn, base, saved, of, rows, stored,
    known, file, warned>>
toolsVars ==
  <<started, remote, watch, missed, disk, version, snapshot, hosts, registry>>
fileVars ==
  <<shelf, opened, jsonl, short>>
engineVars ==
  <<alloc, ranked, expired, slots, node, children, inode, warm, refill, wrote,
    unwiped, epc, on, cwd, alive, back>>
tenantsVars ==
  <<config, keys, sessions, born, boxes, req, requests, promised, overlapped,
    crossed>>
memoriesVars ==
  <<memories, added, frozenAt, frozenKey, storing>>
schemaVars ==
  <<parts, stamps, boot, crashes, early>>

\* Files of another program: a prompt with an image, two calls and their results,
\* one of them with an answer below an entry that is no message.
Block(k, n, i) == [kind |-> k, of |-> n, nr |-> i]
Line(r, u, bs) == [role |-> r, has |-> bs, up |-> u]
Batch2 == <<Block("call", 1, 1), Block("call", 1, 2)>>
Pages == {[lines |-> <<Line("user", 0, <<Block("text", 0, 1), Block("image", 0, 1)>>),
                       Line("assistant", 1, Batch2),
                       Line("tool", 2, <<Block("result", 1, 1)>>),
                       Line("tool", 3, <<Block("result", 1, 2)>>),
                       Line("assistant", u, <<Block("text", 2, 1)>>)>>,
           told |-> <<Block("text", 0, 1), Block("image", 0, 1)>> \o Batch2 \o
                    <<Block("result", 1, 1), Block("result", 1, 2), Block("text", 2, 1)>>,
           filed |-> {"file"}] : u \in {4, -1}}
OneAsk == {<<"text", "image">>}
OneReply == {<<"secret", "text">>}
OneCalling == {<<"thought", "call", "call">>}
OneAnswer == {<<"image">>}
TwoIds == {<<"a", "a">>, <<"a", "b">>}
TwoPlaces == {"here", "there"}

\* Two sessions of one tenant and one of another.
ThreeSessions == [s1 |-> "t1", s2 |-> "t1", s3 |-> "t2"]

CR == INSTANCE CloudRun WITH Runs <- Requests, Faults <- {}
SH == INSTANCE SessionHost WITH Faults <- {}
TH == INSTANCE ToolHost
        WITH ExtNames <- {<<"ext", i>> : i \in Declared},
             Builtins <- {<<"read", 0>>}, Inner <- {}
SF == INSTANCE SessionFile
        WITH store <- shelf, open <- opened, page <- jsonl, cut <- short,
             Dirs <- Places, SessionIds <- SessionNames, ReadMax <- FileReadMax
EE == INSTANCE ExecEngine
        WITH rpc <- alloc, late <- expired, leased <- slots, at <- inode,
             files <- wrote, Overlap <- {}, None <- Nowhere
TN == INSTANCE TenantAdmin
TM == INSTANCE TenantMemory WITH OwnerOf <- Owners
SM == INSTANCE Schema

ASSUME PartsAssumption ==
  /\ SH!SessionHostAssumption
  /\ SF!SessionFileAssumption
  /\ EE!ExecEngineAssumption
  /\ TN!TenantAdminAssumption
  /\ TM!TenantMemoryAssumption
  /\ SM!SchemaAssumption

Init ==
  /\ part \in {"run", "session", "tools", "file", "engine", "tenants",
               "memories", "schema"}
  /\ CR!Init
  /\ SH!Init
  /\ part # "session" => host = "run"
  /\ TH!Init
  /\ part # "tools" => \A s \in Servers : remote[s] = {}
  /\ SF!Init
  /\ part # "file" => Len(jsonl.lines) = 0
  /\ part # "file" => opened.id = CHOOSE i \in SessionNames : TRUE
  /\ part # "file" => shelf[1].cwd = CHOOSE d \in Places : TRUE
  /\ EE!Init
  /\ TN!Init
  /\ part # "tenants" => config = [t \in {CHOOSE x \in Tenants : TRUE} |-> [settings |-> TN!Plain, cap |-> 2]]
  /\ part # "tenants" => DOMAIN keys = {CHOOSE k \in Keys : TRUE}
  /\ TM!Init
  /\ SM!Init
  /\ part # "schema" => parts = {}

\* The variables of every part but p.
Others(p) ==
  /\ p # "run" => UNCHANGED runVars
  /\ p # "session" => UNCHANGED sessionVars
  /\ p # "tools" => UNCHANGED toolsVars
  /\ p # "file" => UNCHANGED fileVars
  /\ p # "engine" => UNCHANGED engineVars
  /\ p # "tenants" => UNCHANGED tenantsVars
  /\ p # "memories" => UNCHANGED memoriesVars
  /\ p # "schema" => UNCHANGED schemaVars

Next ==
  /\ UNCHANGED part /\ Others(part)
  /\ \/ part = "run" /\ CR!Next
     \/ part = "session" /\ SH!Next
     \/ part = "tools" /\ TH!Next
     \/ part = "file" /\ SF!Next
     \/ part = "engine" /\ EE!Next
     \/ part = "tenants" /\ TN!Next
     \/ part = "memories" /\ TM!Next
     \/ part = "schema" /\ SM!Next

vars ==
  <<part, runVars, sessionVars, toolsVars, fileVars, engineVars, tenantsVars,
    memoriesVars, schemaVars>>

Spec == Init /\ [][Next]_vars

TypesOK ==
  /\ part = "run" => CR!TypeOK
  /\ part = "session" => SH!TypeOK
  /\ part = "tools" => TH!TypeOK
  /\ part = "file" => SF!TypeOK
  /\ part = "engine" => EE!TypeOK
  /\ part = "tenants" => TN!TypeOK
  /\ part = "memories" => TM!TypeOK
  /\ part = "schema" => SM!TypeOK


\* A call that waits for an approval is executed at most once, and only after
\* the approval, however the run is resumed (CloudRun).
ApprovedOnce == part = "run" => CR!ApprovedOnce

\* The cached tree of a session is its stored tree, or is not used (CloudRun).
CacheCoherent == part = "run" => CR!CacheCoherent

\* When a run has ended, every call of its tree has a result (CloudRun).
CallsSettled == part = "run" => CR!CallsSettled

\* No message of the path is missing from the next prompt without a summary
\* that covers it (SessionHost).
NothingForgotten == part = "session" => SH!NothingForgotten

\* A turn that ended well is stored, unless the user was told that it is not
\* (SessionHost).
TurnsSaved == part = "session" => SH!TurnsSaved

\* The tool table offers what the servers and extensions offered when it was
\* last told (ToolHost).
TableIsTrue == part = "tools" => TH!TableIsTrue

\* A conversation keeps its text, thoughts, calls and first results through
\* every export, import, fork and restart, but for rows past the limit of a
\* reading (SessionFile).
StoryKept == part = "file" => SF!StoryKept

\* A workspace is handed over clean, and its processes end with its lease, but
\* for those no kill reaches (ExecEngine).
HandedOverClean == part = "engine" => EE!HandedOverClean

\* No request shows, and no session holds, what is another tenant's
\* (TenantAdmin).
TenantsApart == part = "tenants" => TN!TenantsApart

\* The mask is never stored for a secret, nor a secret shown (TenantAdmin).
SecretsKept == part = "tenants" => TN!SecretsKept

\* A patch that was answered is stored, but for patches at the same time
\* (TenantAdmin).
PatchesKept == part = "tenants" => TN!PatchesKept

\* A sandbox is named by a row, or its session was deleted while it was created
\* (TenantAdmin).
BoxesNamed == part = "tenants" => TN!BoxesNamed

\* The memory rows of a tenant hold what its own sessions wrote (TenantMemory).
MemoryApart == part = "memories" => TM!MemoryApart

\* A server that serves finds every table and column (Schema).
SchemaServes == part = "schema" => SM!SchemaServes

\* What was said in a session is in the session or in its rows: the window of
\* the prompt forgets nothing, and every turn that ended well is stored; and a
\* conversation keeps what was said through files, copies and restarts.
SessionKept == NothingForgotten /\ TurnsSaved /\ StoryKept

\* What the tables of the control plane promise their tenants: nothing of one
\* tenant reaches another by a session, a copy or a memory, no secret is
\* replaced by its mask, a stored setting stays, a sandbox belongs to a
\* session, and a server that serves has its whole schema.
TenantsKept == TenantsApart /\ SecretsKept /\ PatchesKept /\ BoxesNamed /\ MemoryApart /\ SchemaServes
=============================================================================
