# Verification of rupi

rupi is an agent runtime in Rust: a loop that talks to a model provider and
runs tools (`rupi-agent`), terminal, RPC and SDK front ends around it, and a
cloud control plane (`rupi-server`) whose replicas share PostgreSQL, Redis, an
object store and a pool of execution nodes (`rupi-runtime`). This directory
holds TLA+ specifications of the parts where interleavings, crashes and retries
decide whether it is correct, TLC configurations that check them, and TLAPS
proofs about them.

`PROJECT.json` lists the components, the runs, the mutant that each property
catches, the source lines behind every definition, the hazards and the theorems.

    tlc -workers 2 -config RunLeaseExclusive.cfg MCRunLease.tla
    tlapm RunLeaseProofs.tla

## 1. Inventory

| Component | State | Operations | What is hard | What makes it correct |
|---|---|---|---|---|
| Run lease (`server/quota.rs`, `run.rs`, `db.rs`, `cache.rs`) | the session's row (run_id, instance_id, updated_at), the Redis key with its TTL, the tasks of a run | acquire, heartbeat, release, reap, disconnect | three requests and a clock race over two stores; crashes; Redis outages | one run per session; a late finish clears nobody else's lease; the loser of a lease is told; no lease outlives its run |
| Workspace lifecycle (`server/reclaim.rs`, `http.rs`) | the session's row (hot or snapshotted, handle, snapshot key), leased directories, objects | create, ensure_hot, reclaim, preempt, delete | every task works on a copy of a row it read earlier, one call at a time | finished work is never lost; a run finds it; nothing is left leased |
| Agent loop and session (`agent/lib.rs`, `session.rs`, `queue.rs`) | path of messages, steering and follow-up queues, cancel flag, turn and batch | prompt, steer, follow_up, abort, clear_queue, new session; the turns | a command may come between any two awaits | every call has a result; messages enter once and in order; no effect without permission; the prompt ends |
| The gate (`agent/hooks.rs`, `policy.rs`, `discovery.rs`, `subagent.rs`) | plan mode, tool filter, approver, hooks, the copy a subagent has | call, search_tools, /plan, reload | what is asked in which order; copies of a moment | nothing runs that was not let through |
| Cancel flag (`core/lib.rs`) | an atomic flag and a Notify | cancel, cancelled, reset | check and registration are two steps | whoever awaits a cancellation sees it |
| Admission quota (`server/quota.rs`) | counters in Redis, leased rows | admit_run, release_run, reconcile | counters raised, overwritten and lowered by different tasks | never more runs than max_concurrent_runs, and the counter returns to the truth |
| Cloud run (`server/run.rs`, `cache.rs`, `agui.rs`) | messages, cached tree, fill lock, interrupts | start, load, park, resume, finish, import | a batch split over two runs; a fill races with a persist | an approved call runs once, a denied one never; the cache is what was saved |
| Events of a run (`server/run.rs`, `agui.rs`, `cli/cloud.rs`) | two bounded queues, the mapper | emit, map, read | what finds a queue full is dropped | what is sent is well formed; who lost nothing sees all |
| Tenants (`server/http.rs`, `admin.rs`, `db.rs`, `memory.rs`) | tables of tenants, keys, sessions, memory rows, schema versions | the handlers of tenants and operators, migrate | statements of several requests interleave | tenants stay apart; secrets stay; patches hold; sandboxes have rows |
| Execution engine and pool (`runtime/engine.rs`, `pool.rs`) | leased map, warm pool, children, ranked nodes | alloc (with a queue), exec, abort, release, refill | gaps between lock regions | never above capacity; a workspace is handed over clean; a waiter ends |
| Execution service (`runtime/execd.rs`, `sandbox.rs`, `http.rs`, `tar.rs`, `server/tools.rs`) | handles, directories, archives, requests on the way | read, write, bash, snapshot, restore, release | a call given up while its request travels | an answer says what was done |
| Session tree, rows and files (`core/lib.rs`, `rupi-memory`) | nodes, path, summary; rows; JSONL | push, branch, rewind, compress, save, export, import, fork | three shapes of one conversation, saved at different moments | nothing that was said is lost or doubled |
| Memory (`memory/lib.rs`) | MEMORY.md, its mirror in the search table | add, replace, remove, compact | files read and written back by several processes | what was told is found |
| Tool table (`mcp/lib.rs`, `ext/lib.rs`, `tools/lib.rs`) | registry, servers, manifests | start, refresh, edit | announcements and edits while lists are read | the table is what servers and files offer |
| JSON-RPC peers (`mcp/jsonrpc.rs`, `ws.rs`, `ext/rpc.rs`) | pending requests by id, questions of the peer | call, answer, ask back, timeout, loss | both sides wait for each other | every call returns and leaves nothing |
| Tools (`tools/lib.rs`, `shell.rs`, `optional.rs`) | a process group and a pipe; a queue per file; a page | bash, write, edit, read, glob, grep | children, names, limits | calls return; edits are kept; nothing is left out unsaid |
| Providers (`rupi-llm`) | one request | stream, retry, format | an answer cut anywhere; three wire formats | what is shown is what is kept and what is sent again |
| Front ends (`tui/app.rs`, `view.rs`, `cli/rpc.rs`, `cli/main.rs`) | buffer, overlay, open session; rows of the window; three loops | keys, commands, turns; RPC commands and dialogs | what comes while a turn runs | what was entered is sent or kept; what was told is so |
| Set-up (`rupi-config`, `rupi-skills`, `rupi-pkg`, `core/trust.rs`) | layers of files, trusted roots, skills, lock file | set, toggle, /reload, trust, scan, install | files that others edit; crashes between and inside of steps; the project's own settings | a choice holds at the next start; what is gated is not loaded unasked |
| TLS, listeners, drawing, themes, jail, S3, git, prices | | | I/O or pure text | |

How they meet. A request reaches any replica; `start_run` reads the session's
row, admits the run (`Admission`), takes the **lease** (`RunLease`) and spawns
`drive`, which loads the tree (`CloudRun`), heats the **workspace**
(`Workspace`, over `ExecEngine` and `ExecService`), starts a heartbeat task and
runs the **agent loop** (`AgentSession`, through `ToolGate`) with the tools bound
to the workspace; its events go through `EventStream`. The stream of the client
owns the **cancel flag** (`CancelFlag`): dropping it cancels the run, and so does
a heartbeat that has lost the lease. The loop of each replica reaps stale leases,
reconciles the counters of the **quota** and reclaims idle workspaces. Locally
the same loop is driven by the prompt loop, the terminal (`TuiApp`) or JSON lines
(`RpcServe`), its tree is saved by `SessionHost`'s rules, and its tools come from
`ToolHost`'s table.

## 2. Modules

| Module | What it is |
|---|---|
| `RunLease` | the lease of one session, call by call, with a clock |
| `ExclusiveRun` | what the lease promises, in three variables and six steps: Enter, Save, Leave, Orphan, Quit, Evict |
| `RunLeaseRefinement` | the mapping of the first to the second |
| `RunLeaseProofs` | theorems about both |
| `CancelFlag` | the flag and the futures that await it |
| `AgentSession`, `AgentSessionProofs` | loop, session host and inbox; theorems |
| `Workspace`, `WorkspaceProofs` | rows, pool and object store, and the tasks on them; theorems |
| `Admission` | the quota of concurrent runs: counter, rows, reconcile |
| `CloudRun` | the runs of one cloud session: load, park, resume, finish, import; the cache |
| `SessionProofs` | theorems about `CloudRun` and `SessionFile`: what is promised of one session |
| `ExecEngine`, `ExecEngineProofs` | the nodes' engine and the scheduler; theorems |
| `ExecService` | the routes of a node and their clients |
| `EventStream` | the events of a run on their way to a client |
| `TenantAdmin`, `TenantMemory`, `Schema` | handlers on the tables; memory rows; migrations |
| `SessionHost`, `SessionFile` | when a turn is saved; what of a message survives rows and files |
| `MemoryFile`, `PkgInstall`, `FileQueue` | files on disk and what is recorded of them |
| `ToolHost`, `RpcPeer`, `BashCall`, `FileTools` | the table of tools, peers over four transports, the shell, the tools that read |
| `ToolGate` | what stands between a call and its execution |
| `ModelStream`, `ModelRequest` | the answer of a model, and the request made of the path |
| `TuiApp`, `ChatView`, `FileEditor` | the terminal, its window, its file editor |
| `RpcServe` | the JSON-lines service |
| `Settings`, `Launch`, `SkillScan` | layers of settings, trust at start, the skills found |
| `MCRunLease`, `MCWorkspace` | instances for TLC |
| `MCLiveness`, `MCSafety`, `MCClient` | several modules side by side, for TLC |
| `LivenessProofs`, `SafetyProofs`, `ClientProofs` | theorems about the parts of each of the three |

**Side by side.** The modules after `Workspace` share no variables with each
other. Each of the last three `MC` modules of the table declares the
variables of its parts, instantiates each part and lets Init choose one (`part`);
Next is a disjunction of `part = "x" /\ X!Next /\ UNCHANGED` the rest, so that the
states of the parts add up instead of multiplying. A property of such a run is a
conjunction of properties of its parts, each under `part = "x" =>` where it does
not hold of an idle part by itself.

### RunLease

`row` and `age` are the columns run_id, instance_id and updated_at; `key` and
`ttl` the Redis key; `pc[a]` says where attempt `a` is between `start_run` and
the end of `drive`, `hb[a]` where its heartbeat task is; `cancelled` is its
flag. Every call to a store is one action: acquire is Start, AcquireReap,
AcquireKey/SkipKey/KeyRefused, AcquireRow/RowRefused, Rollback; the heartbeat is
BeatCancelled, BeatSkipKey, BeatGet, BeatRenew, BeatClaim, BeatTouch; the
release is ReleaseGet, ReleaseDel, ReleaseRow; a run ends by FinishPersist or
ParkPersist. Reap is the loop of a replica, RedisOutage, RedisLosesKey and Crash
are the faults, and Tick is the clock.

Time. The code compares `updated_at` with 180 seconds and never bounds how long
a run's task may be delayed. `Punctual` says that replicas meet their
obligations in time (`due`): the first beat within MaxSetup of the lease, a beat
every Heartbeat, the release within MaxUnwind of the cancellation or of the last
beat. Exclusion depends on it: a drive that is paused longer than the reaper's
180 seconds can finish beside its successor. **WellTimed** states what is needed:
Punctual, MaxSetup + MaxUnwind <= StaleAfter, Heartbeat + MaxUnwind <=
StaleAfter. The code does not enforce it; a tool may run 300 seconds, and only
a beat stops the reaper.

### CancelFlag

`at[w]` is where a future of `cancelled()` is: before the check, between the
check and `notified()` ("arm"), waiting, ready. `NotifyWaiters` wakes the
futures that wait and leaves nothing behind, as tokio's notify_waiters does.
Futures in `Local` are polled in the task that also cancels, so that nothing
comes between their check and their wait.

### AgentSession

One step is what the loop does between two awaits; `pc` names the await.
`transcript` is the current path; `gated` and `results` are the verdicts and
outcomes of the batch of calls. The provider's steps are the answers the loop
tells apart (final text, calls, overflow, another error, nothing before a
cancellation); the host's are the commands of `rpc.rs` and the SDK, which may
come between any two steps. Messages are model values, each sent at most once.

### Workspace

A task is a session's client (create, delete), a run, or the loop of a replica.
`copy[t]` is the row as the task read it, `wh[t]` the handle it sets up or works
in, `job[t]` its call of `snapshot_and_release`: open, tar, put, release, mark.
The work of a run is the run itself, as a file in a directory (`dir`), in an
object (`blob`) or nowhere. `saved[s]` is what the user was told is done.
Every call to the database, the pool or the store is one action; a request that
finds the pool full preempts (its own tenant's sessions, then everybody's).

Nothing in the code makes these tasks exclude each other: the row they act on
may be stale. The constant `Races` names the overlaps that the schedule admits:

| race | effect with the code as it is |
|---|---|
| "reclaim": a session is leased to a run after it was listed | the run's directory is released under it: ActiveRunKept, WorkKept and RunsResume fail |
| "stale": the row changes between a request's read and its lease | the run works in a handle that is gone or restores an older object: RunsResume, WorkKept fail |
| "double": two tasks reclaim one session | the second packs the wiped directory and overwrites the good object: WorkKept, RunsResume fail |
| "delete": a session is deleted while used | a run heats a session that is going away: its directory stays leased, NoOrphans fails |

and `Faults` the failures: "reclaim" (snapshot, put, release), "setup", "crash",
"get" (the object store's get is taken for "missing"), "cut" (between release
and mark_snapshotted). The passing run has no race and the first three faults;
the first race is a run of its own.

### Admission

`conc` is the counter in Redis, `leased` the rows, `pa[a]` where a request is
between `admit_run` and `release_run`. Every call is a step; CounterLost is a
Redis that restarts empty, Lost a drive that failed or whose replica died.
`Overlap` names what the code lets pass together: "reconcile" (its SET uses an
older count than the admissions around it), "admit" (without Redis two requests
count the same rows), "correct" (two requests raise a lagging counter). The run
has none; with any of the three TLC finds WithinMax violated.

### CloudRun

A tree is a sequence of messages; `db` is what is stored, `cache` at most one
cached tree, `ask[c]` the row of an interrupt, `ran[c]` how often its call was
executed. The steps are those of start_run, drive, park, resume_and_continue and
finish, with the fill lock, the expiry of keys, an import by another request, and
crashes. Excluded by name: `Races` "preflight" (two requests pass the test for
pending interrupts before either has the lease) and "import" (import_session
ignores the lease); `Faults` "batch" (a parked batch of several calls), "parkcut"
(a crash while parking), "answercut" (a crash between the interrupt's
"resolved" and the stored result), "cachecut", "persist", "redis" (of two saves
one fails) and "guide" (a guidance file pushed between a parked call and its
result). With each of them TLC finds one of the three properties violated.

### ExecEngine and ExecService

ExecEngine has a step for each region under a lock of `Engine` and for each
system call between them: alloc with its queue and deadline, the warm pool and
its refill, exec with its child, abort, release. `Overlap` "gap" (a release
between a spawn and the registration of its pid) and "sibling" (two commands in
one handle, which clear each other's list of children) leave processes in a
directory that is handed on, and are excluded.

A command is a shell and, in `back`, the background processes it forked. On a
node in `Jailed`, where `command_with` finds bwrap, they end with the shell
(--unshare-pid, --die-with-parent); elsewhere the end of a call (Exit, TimedOut,
Disconnect) ends the shell only, for kill_on_drop kills the direct child. Those in
"group" die when `abort` kills the group of a listed pid; they become "loose" when
the list is cleared before (engine.rs:327, ahead of the abort of the time-out) or
when they leave the group. So **without bwrap the processes of an ended command
outlive its slot and go on writing into the directory of the next owner**, as
`docs/backlog/tracks/executor-output-bounds.md` says too (B5 and F195):
HandedOverClean claims nothing of what a loose process writes. Nor does it of a
directory in `unwiped`, in which a removal of `wipe_dir` failed, as it ignores.
It claims that every *shell* ends with its slot, that what is still in its group
does, and that these two are the only ways in which a file of a former owner is
met. Jailed is {} in the run and any set of nodes in the theorem.

ExecService takes a route as one
step and models what is around it: tokens, tenants, status codes and how clients
read them, requests that go on after their caller has given up, links in
archives.

### EventStream, TenantAdmin, TenantMemory, Schema

EventStream: the queues have 2 and 3 places; every event that finds one full is
dropped, and `dropped` says so, so that AnswerPrinted is about those who lost
nothing. TenantAdmin: a request is a sequence of statements, `seen` and `row` are
what it read first. `overlapped` (two patches of the settings in flight) and
`crossed` (a session deleted while it is created) are the two exceptions its
properties make. TenantMemory keeps its rows as a set, the ids in the order of
insertion, and has a formula, CorePinned, that no run checks: it
says that core rows are always in the frozen prompt, and TLC refutes it (extended
rows are dropped first, but a replaced row keeps its layer, memory.rs:79). Schema:
servers start together, crash between statements and stamp versions.

### SessionHost and SessionFile

SessionHost decides *when* things are saved by the three hosts, with messages as
ids and summaries as the sets they cover. Its `Faults` are "persist" (a save
fails with a warning), "fallback" (a summary made by cutting lines) and
"rollback" (a failed turn whose own compaction reached into it); the run has
none. SessionFile decides *what* survives, block by block, through rows, JSONL
files, forks and imports; StoryKept names what does not: images and redacted
thinking in files, the results of a batch after its first once an imported path
was forked, and paths that an imported file cuts itself.

Both read a session to a limit. Reopening, export and fork call
`session_records(id, 10_000)`, oldest first (session_io.rs:618, 636, 792), the
TUI's /resume 500: of a longer session **the newest rows are dropped**, so that
`rupi --continue`, which README.md:93 says "picks up where you left off", goes on
from its 10,000th message and saves what follows behind rows it has not seen.
`ReadMax` and `ResumeReadMax` are these limits, small in the run (two rows in
SessionHost, five and four in SessionFile), so that it meets them. What holds
nevertheless, and is claimed: the rows of the table lose nothing; the open branch
forgets nothing of itself; a copy, a file or a fork holds what was read. `cut` says
whether the open tree or the file was made of a reading that fell short.

### MemoryFile, PkgInstall, FileQueue

Each has the steps of the code that reads, changes and writes back a file, by
several writers. `frail`, `torn` and the slots name what a crash or a write by
hand costs, and the properties claim the rest. In PkgInstall a save of
packages.json is two steps, Truncate and Saved, for `save_lock` opens the file
with truncation and then writes (install.rs:382); in between it is empty, and
`load_lock` reads an empty or broken file as no packages at all. A crash or a full
disk there (Crash in step "save") **loses the record of every package**: Cut puts
all of them in `torn`. `Removed` may leave any file behind, as
`remove_materialized` ignores failures, which puts its package there too. LockIsTrue
claims for every package, torn or not, that its record names no file of another
owner, and for the others that it names all they have placed. FileQueue's keys are computed
before the queue is entered, from the links of the moment.

### ToolHost, RpcPeer, BashCall, FileTools, ToolGate

ToolHost: `remote` is what servers offer, `disk` and `snapshot` the manifests as
they are and as they were seen. RpcPeer: one peer over "stdio", "ws", "http" or
"ext"; both sides ask, either may die, hang or lose its stream. BashCall: a
shell, what it leaves behind, a pipe of limited size, cancellation and the clock.
FileTools: pages, walks with two threads and limits, paths through links.
ToolGate: hooks, policy, approval, plan mode and filter in the code's order, and
the copy a subagent has of them.

### ModelStream and ModelRequest

ModelStream: the server's script, the bytes cut anywhere, the parser, the
accumulator of each format, retries before the first byte. ModelRequest: a path
that grows by answers of any of the three formats, and what each format makes of
it. RequestTrue pairs calls and results, and says of images that each is sent in its
batch or in the user's message it came with. In the Anthropic format the images of
a result that is not the last of its batch stand beside the next result
(anthropic.rs:203), so that no image is said to stand with its own call. MaxHist =
5 messages are a batch, its results, an answer, a switch of the provider and the
next user message, and two batches one after the other.

### TuiApp, ChatView, FileEditor, RpcServe

TuiApp: keys, a line, a turn; items are what was entered in one go. ChatView: rows
kept from frame to frame. Its formula RowsFresh (rows are always those of the
lines) is refuted by TLC and checked by no run: a change of the fold or of the
theme that marks no line leaves rows of before (view.rs:293). FileEditor: a buffer
of lines, the file on disk as other programs change it too, and what the person was
warned of; a write that fails half way; a save overwrites what another program has
written since (editor.rs:172), which no property forbids. RpcServe: the three
loops of `rupi --mode rpc`, and one extension; `told`, `screen` and `registered`
are what a client and an extension were told, `unheard` what was answered with
success and not done, which is every exception ToldTrue makes.

### Settings, Launch, SkillScan

Settings: four layers, the copy in memory, changes by /settings, `rupi config` and
by hand; a file may be absent, broken or have one value of a wrong type. A write
truncates first (`persist_patch`, config/lib.rs:418), and one that fails (`Lost`)
leaves an empty file and no claim about what was in it. `wanted` remembers every
switch of a resource, so that a switch of one name must keep those of the others.

Launch: which front end starts with which flags, the trust gate and its store, what
is read at the start and what at every turn. `says` is what the project's own
settings file says, which `Settings::load` merges **before the gate and whatever it
answers** (config/lib.rs:138, main.rs:477, 2178): its `defaultProjectTrust`
can answer the question asked about the project itself, and the paths it names
for skills, prompts and extensions are followed by a session that refused the
project, also after /reload (main.rs:537, 853, 1231, 2351), although trust.rs:6
and main.rs:498 say that nothing of it is loaded. TrustKept names the two,
"project's rule" and Pathed, as its only exceptions. SkillScan: directories, ignore rules,
explicit paths, drafts of the review.

## 3. Runs

| Run | Instance | Properties |
|---|---|---|
| `RunLeaseExclusive` | two attempts on two replicas, LeaseTTL = StaleAfter = 2 ticks, punctual, Redis and Postgres faults | TypeOK, MutualExclusion, HolderOwnsRow, ImplementsExclusiveRun |
| `RunLeaseHealthy` | the same without store faults, LeaseTTL = StaleAfter = 4, MaxSetup = 2 | HealthyRunKeepsLease |
| `RunLeaseLate` | two attempts on one replica, which may be late, no store faults, LiveSpec | ReleaseOnlyOwn, LoserIsCancelled, LeaseEnds |
| `CancelFlagCross` | futures of other tasks, silent provider | CancelWakes, **violated** |
| `AgentSessionSafe` | three messages, two turns, one overflow recovery, two calls, sequential and parallel | TypeOK, EveryCallAnswered, NothingLost, TurnsClosed, SteeringInOrder, EffectGate, PromptEnds |
| `AgentSessionBusy` | an error ends a prompt | IdleIsFree, **violated** |
| `WorkspaceKept` | two sessions, two runs of one of them, one loop, a pool of one directory, three handles | TypeOK, WorkKept, NoOrphans, RunsResume |
| `WorkspaceActive` | the same with the race "reclaim" | ActiveRunKept, **violated** |
| `MCLiveness` | three admissions, Max = 2; three futures, two cancellers; two calls of a peer over each transport; a shell with one job; two allocations on two nodes of one place | TypesOK, WithinMax, CallBacked, CapacityKept, SlotsReturn, CancelHeard, CallsEnd, AllocEnds |
| `MCSafety` | three cloud runs; three hosts with four nodes and two sessions; two servers and two manifests; two sessions through a file; two handles of one place and a command; two tenants, three requests; two servers that migrate | TypesOK, ApprovedOnce, CacheCoherent, CallsSettled, TableIsTrue, HandedOverClean, SessionKept, TenantsKept |
| `MCClient` | two packages; two writers of memory; three edits of a file under two names; three inputs, two sessions; answers of three formats with up to three retries; paths of five messages; two changes of settings; one drift of a project; three gated calls; five events; four calls of a service; files of three lines, trees with links; a client of RPC with two settings, a dialog, two commands; a file of up to four bytes in the editor | TypesOK, ScreenTrue, FilesTrue, ModelTalk, SetupKept |
| `SessionRpc` | a JSON-lines service, a new session, a turn | EveryTurnSaved, **violated** |

The properties of the joint runs, in words:

- **WithinMax, SlotsReturn** (`Admission`): never more runs than the quota; the
  counter comes back to the number of leased rows, again and again.
- **CancelHeard** (`CancelFlag`): LocalWakes, a future in the cancelling task wakes;
  CancelFound, any other sees the flag when its loop comes round.
- **CallBacked, CallsEnd** (`RpcPeer`, `BashCall`): an entry of the pending table
  has its caller, a process of the group its call; every call returns.
- **CapacityKept, AllocEnds, HandedOverClean** (`ExecEngine`): no overbooking,
  every allocation ends, and a directory is handed over with no file and no
  process of another, but for loose processes and what could not be removed.
- **ApprovedOnce, CacheCoherent, CallsSettled** (`CloudRun`).
- **SessionKept**: NothingForgotten and TurnsSaved (`SessionHost`), StoryKept
  (`SessionFile`).
- **TableIsTrue** (`ToolHost`), **FilesTrue**: LockIsTrue (`PkgInstall`),
  FactsReachable (`MemoryFile`), EditsKept (`FileQueue`).
- **TenantsKept**: TenantsApart, SecretsKept, PatchesKept, BoxesNamed
  (`TenantAdmin`), MemoryApart (`TenantMemory`), SchemaServes (`Schema`).
- **ScreenTrue**: InputServed (`TuiApp`), EventsTrue (`EventStream`), ViewTrue
  (`ChatView`), ToldTrue (`RpcServe`), BufferKept (`FileEditor`).
- **ModelTalk**: AnswerTrue (`ModelStream`), RequestTrue (`ModelRequest`),
  AnswersTrue (`ExecService`), PagesTrue (`FileTools`).
- **SetupKept**: SettingsHeld (`Settings`), TrustKept (`Launch`), GateKept
  (`ToolGate`), SkillsTrue (`SkillScan`).

What the four violated runs show, each against a sentence of the source:

- `CancelWakes`: `cancelled()` checks the flag and then creates its Notified;
  a cancel() of another task between the two wakes nobody, though the comment
  above it says the order is free of races. `CancelFound` is what remains: the
  loop sees the flag when the provider sends its next delta.
- `IdleIsFree`: an error leaves `prompt_queued` by `?` before `streaming` is
  cleared, and the host then answers "busy" to every prompt.
- `ActiveRunKept`: `snapshot_and_release` asks for an active run in a row read
  long before.
- `EveryTurnSaved`: the JSON-lines service saves when its input has ended, under
  the id of the session then open, and a session it made has no row, though the
  README says that every turn is saved and can be continued.

Replicas crash in every run of RunLease.

**Why the bounds are enough.** Two attempts are a holder and its rival, or a
run and its successor; an attempt is made once, so a third would only repeat a
role, and the proofs below are for any number. A deadline of one tick and a limit
of two or three separate in time, just in time and too late for the TTL and the
reaper; the limits of `RunLeaseExclusive` satisfy WellTimed with equality. For
AgentSession two turns make MaxTurns, a final answer after calls and a steered
turn reachable; two calls make a batch that is cut in the middle; three messages
make two queued ones that can change places. For Workspace a pool of one
directory is full as soon as one session is hot, so that creations, runs and the
loop preempt each other; the third handle lets a snapshotted session be heated
and snapshotted again. Handles are interchangeable, which the symmetry set says.

In the joint runs: three admissions against two slots are one too many, and one
more than two that race; three cloud runs are one that parks, one that answers and
one that comes between or after; four nodes are a path, a branch, a copy and a
turn on top of it; three edits of a file are a holder, a waiter and a newcomer
who finds the slot; one place on a node with two requests makes the queue and the
handing over of a directory; three retries are one more than the code's limit; a
queue of two or three events is full after as many; MaxHits = 3 is met exactly
and exceeded by the trees of one or two hits per file. Other limits (MaxId,
MaxSession, MaxVersion, MaxReleases, MaxWrites, MaxSlots, MaxCalls, MaxTurns,
MaxMade, MaxRequests, MaxRows, MaxCrashes, MaxItems, MaxSessions, MaxHist,
MaxChanges, MaxDrifts, MaxGated, MaxEvents, MaxEdits, MaxAsked, MaxSid) only end a
history, at the longest that TLC explores in a minute or two.

The bounds in the specifications themselves are named constants or the cap of
`age` at StaleAfter + 1, beyond which no comparison of the code tells two values
apart.

`CHECK_DEADLOCK FALSE` where the system may stop: all messages sent and every
run over. RunLease's clock never stops.

**Fairness.** RunLease: time passes, the reaper's loop ticks, a spawned task
that is not stopped goes on, and a client whose stream ended lets go of it; it is
not assumed that an agent loop returns (no fairness on RunEnds). AgentSession:
the loop goes on, and the provider answers unless cancelled; so PromptEnds relies
on whatever a cancellation does not interrupt (a tool, a hook, an approval, the
summary request) to return. In MCLiveness, each for its part: a request and the
end of a run go on, and replicas reap and reconcile at every tick (Admission; a
run itself need not end); woken futures are polled, cancel() goes on to notify,
and the random order of `select!` does not leave a future out for ever, which is
the one strong fairness (CancelFlag); a peer's tasks route and answer, a peer that
is up answers what it was asked, dialogs time out, and calls of a peer that is not
up do (RpcPeer); the shell and its reader go on, and the clock moves when the
shell hangs (BashCall); a step of an allocation is taken and its deadline passes
(ExecEngine).

## 4. Proofs

TLC shows each of these on a small instance (section 3); the theorems hold for
every value of the constants that satisfies what is assumed here.

`RunLeaseProofs`, for all sets of attempts and replicas and all deadlines:

- `TypeCorrect`: Spec => []TypeOK, from the constants' types only.
- `HolderOwnsRowAlways`, `Exclusion`: under DistinctRuns (no run id is used twice
  on a session) and WellTimed, a holder owns the row and two never hold. Mutual
  exclusion is not inductive: nothing in it says why the row cannot be reaped
  under a holder. HolderOwnsRow adds that the row's age plus the time left to the
  holder's next obligation stays below the reaper's limit, and `Fresh` the same
  for an attempt that is about to enter. Each action then either keeps the sum,
  or the clock is stopped by an obligation that is due.
- `OnlyOwnReleased`: the action property behind "a late finish never clears
  another's lease", with no assumption about time.
- `HeartbeatsHold`: HealthyRunKeepsLease without store faults, if the key outlives
  a set-up, and two beats, with the unwinding (`KeyTimed`). KeyInv: who asked Redis
  holds the key, which lives longer than the time to the next obligation
  (KeyHeld); a replica that had no Redis leaves the key alone (Linked).
- `Refinement`: the lease implements ExclusiveRun. Every call maps to one
  abstract step or to a stutter; the reaper maps to Evict, which is possible only
  with nobody inside.

`AgentSessionProofs`, for every set of messages and all limits:

- `TypeCorrect`, `RunBounded` (requests <= MaxTurns + MaxRecoveries),
  `CallsAnswered` (every call on the path has its results directly after it, but
  for the batch at work), `InputFirst` (the provider is asked only when the path
  ends with a user message or results). The inductive invariant IInv is TypeOK,
  Counted (requests against turns and recoveries), Paired (the batch at work
  belongs to the last answer, and what is collected never exceeds it) and
  Prompted.
- `TurnsEnd`: TurnsClosed speaks of the boundaries only; Opened adds that inside
  a turn exactly one more is open than there were recoveries.
- `GateOfEffects`: the action property EffectGate, with Batched: the verdicts of
  a batch are complete before its first call is executed, so that a step under a
  standing cancellation can only add "cancelled" results.
- `MessagesKept`: NothingLost, by `Placed`: the five places are disjoint and hold
  each message once; the lemmas say of each way to take from a queue or to append
  to the path what moves.
- `SteeringOrdered`: the action property SteeringInOrder; it needs the types only.

`WorkspaceProofs`, for every number of sessions, runs, loops and handles. What is
assumed is `Setting`: none of the named races, a store whose reads answer, an
update of the row that follows its release; every other call may fail and
replicas may stop.

- `TypeCorrect`, `WorkSafe`, `NothingOrphaned`, `ResumesWithWork`. WorkKept says
  where the work of one session is, and a step writes one directory, so the
  invariant must say that the two do not meet: `Apart`, a handle belongs to one
  session wherever it is remembered (row, copy, list, job, request), and is never
  handed out again. The rest follows a session: `Life` (hot iff it has a handle),
  `Work` (its work is in the directory or in the object), `Job` (a reclaim is
  alone with its session, and what it has read contains the work once it is to be
  put), `Cands` (what was listed is idle still), `Drives` (a run has the row) and
  `Held`. With "cut" among the faults or a race, TLC refutes one of them.

`SessionProofs` has two halves. About CloudRun, for every number of requests, runs
and calls:

- `CacheTrue`: with no run and no import at work the cached tree is the stored
  one, if neither the race "import" nor the faults "cachecut", "persist" and
  "redis" occur (`Steady`). Invariant: Exclusive (the lease; whoever works is
  alone) and Cached (what a run has read for the cache is what is stored until it
  fills it).
- `ApprovalOnce`: a parked call is executed at most once and only on an approval,
  with **every** race and fault of the model. Invariant `Settled`: what a resumed
  run has set aside is pending and has no repetition, but for the call it
  executes, which is resolved, approved and has not run; and a call whose
  interrupt is not resolved has not run.
- `CallsAnswered`, without races and faults (`Calm`): the settled tree of a batch
  is known only when each run at work tells how far it is. `Story` is Trees (the
  calls of a tree are asked for, each has one place), Stored (who waits in the
  stored tree has a pending row) and `Tale(r)`, by the place where r is: what it
  has loaded, set aside, executed or appended, against the rows.

About SessionFile, for any messages, trees, files and sessions: `StoryInv` is kept
by each of its steps (StoryInit, StoryStep) and tells the story (StoryTold). It
says of the table (ShelfInv), of the open tree (OpenInv) and of the file (PageInv)
that they keep what was told: what lasts of their blocks is what lasts of the
blocks told, in the same order and each once, and so are the results unless a fork
of a file is among what was done. That a *path* keeps it too rests on `Spine`:
beside the way from the leaf to the root there is nothing that lasts. A fork
copies the path only, an export puts the further results of a batch beside it, a
turn grows it, and each of them leaves a Spine (LinearFits, AgainSpine,
CopySpine). `short` marks the trees that an import could not open up to their
root; of those only the rows are spoken of. Under it lies a theory of FlattenSeq:
that its recursive function exists (Laid), what it returns (FlattenStep,
FlattenTwo, FlattenAt: where the parts of a sequence lie in it), and of Only, which
commutes with it; and that the recursive function of Chain exists and climbs a
tree (WayExists, ChainIs).

`ExecEngineProofs`, for every number of requests, commands, nodes, directories:

- `CapacityHolds`, with every overlap: who holds a slot is read off where the
  request is (Slots), so that a full node admits nobody.
- `TypeCorrect` and `HandoverClean`, with Overlap = {} and any Jailed. That a
  directory is clean rests on `Apart` (two owners and a warm pool never share
  one), `Called` (a command is alone on its handle; its shell, and what is still in
  the group, is in the list the release kills) and `Clean` (who wrote into a
  directory is a command of its owner, a loose process, or left there by a failed
  wipe).
  Assumed are `Named` (None is no directory and no node; finitely many nodes) and
  `EnoughDirs`: there is always one more directory, for the code draws a random
  name that no live one has. `Endless` shows it of every infinite set.

`LivenessProofs`, about the parts of MCLiveness:

- `QuotaHolds`, for every finite set of requests and every limit, with Overlap =
  {}: the counter in Redis is not enough, because it lags behind after a loss of
  data and is overwritten by a count of rows read earlier. AInv counts the
  requests that have or will have a row (`Taken`), and says of a request that has
  read the rows and not yet decided (Raised, Counted) that its count covers all
  that is taken.
- `CapacityHolds`, from ExecEngineProofs.
- `CallsBacked`, for any peers, calls and pipe. For a peer, `Backed` (and that
  a transport without a table has an empty one). For the shell, Kept (the pipe
  goes on where what was kept ends), Closed (the reader comes to the end only when
  nobody can write any more) and Cleared (who was killed does not come back).
- `TypeCorrect`: TypesOK of the five parts, under the assumptions above.

`SafetyProofs`, about the parts of MCSafety. A step of MCSafety is a step of each
part or a stutter of it (`Parts`), so what a part keeps, MCSafety keeps.

- `CacheTrue`, `ApprovalOnce`, `CallsAnswered`, `HandoverClean`: from the two
  modules above, with what the instance fixes (no faults, Overlap = {}); left are
  the named races, finiteness, `Named` and `EnoughDirs`. The two modules are
  instantiated late, as CP and EP, and short lemmas say that a step of the part is
  a step there (RunPart, FileNext, EngineNext).
- `SessionsKeep`: no message leaves the window without a summary, and each ended
  turn is in the rows (NothingForgotten, TurnsSaved), for any hosts, nodes and
  sessions. HostInv: types; TreesSound (the open tree and the file are trees with
  one root, and a summary is of all up to a node: Covers); TurnOpen (the nodes of
  a turn at work are the end of the path and no rows yet); RowsSound (every session
  can be opened: a stored summary has its first row, and the rows of the open one
  have its root); TreeSaved (outside of a turn the hosts that save have saved the
  tree). MCSafety has no faults here, and the theorem needs that: after a save
  that failed the root may be unsaved, and a summary that is restored then does not
  begin with the first row.
- `StoriesKeep`: all of SessionKept, the other half from `StoryInv` above, for any
  ReadMax and ResumeReadMax: of a reading that met the limit, `cut` and the tale
  that goes with it say what it holds. Assumed
  is `SessionFileAssumption` only: of a file that another program wrote, that each
  line reads as a message, that what lasts of what it tells is read once and in
  that order, and that this is on one way.
- `TenantsKeep`, with no assumption but the types of the bounds: any number of
  tenants, sessions, keys, requests, rows, servers and crashes. Three invariants.
  SchemaInv: the parts of the schema come in their order, each stamp has its
  parts (Whole), and what a server in the middle has read or done is so whoever
  else migrates (`Booted`). MemoryInv: the notes in a row, a prompt or the cache
  are of one tenant (RowsApart, PromptsApart, CacheApart). AdminInv: types;
  SettingsInv (no stored secret is a mask, and what a patch has read of a secret
  is not one); OwnInv (what a request was told or copies is of its tenant);
  BoxesInv, which says what a creation and a removal in the middle know of the
  session that both may have (CreatingOk, RemovingOk, OneCreates).
- `TableIsKept`, for any servers, tools and files, while announcements are lost
  and lists fail. `Undisturbed` excludes the upsets "shared", "protocol" and
  "spawn", and servers called as the program's own tools or as a manifest's.
  TableIsTrue speaks of the moment at which files were looked at; TableInv of all
  others: NamesApart (a name is one file's: on the disk, in the snapshot, and
  between a file that became unreadable and the others), TableShot (table and
  processes are those of the snapshot), TableServers.

`ClientProofs`, about three of the parts of MCClient, for every value of their
constants:

- `GateHolds`, with GateInv: types, Filtered (no builtin tool that the filter left
  out is in the table), Ran (what was executed could be).
- `ToldIsTrue`: Told is inductive together with the types: each conjunct relates
  what was told with what is so, and `unheard` names the difference exactly where
  a handler makes one.
- `FilesHold`: FilesTrue, for any tasks, edits, writers, facts, packages and
  crashes. Assumed are finitely many tasks (FewTasks), that the line "dropped" of
  a shortened memory is not itself a fact (MarkIsNoFact), and one process that
  installs (OneInstaller): packages.json is read, changed and written back with
  no lock, so that of two processes one can lose what the other recorded: with
  two, TLC finds LockIsTrue violated. Crashes may come anywhere, the truncated
  packages.json included, and removals may fail (`torn`). EditInv: every task that waits or works
  has the one slot of the file, which leaves the map with its last holder
  (OneSlot), and what a task has read is there still when it writes (OneInside).
  MemInv: a writer brings no line into a file that is not recorded, as a row of
  the table or among the frail, unless it is about to be (MemCovered). PkgInv
  says of an installation in the middle what it has read of the record, what it
  is about to write into the truncated file and which of its files are placed
  (PkgWork), and that no name is of two packages (NoOverlap).

The prover cannot use the library's induction theorems, whose parameter is an
operator. `SetInduction` says the same of a *set* of naturals and follows from a
least element; with it ClientProofs shows that the recursive functions behind
Vec::remove and retain exist and what they return (RetainInside, WithoutOne).

**Out of the prover's reach**, and only model-checked: liveness under fairness
(LoserIsCancelled, LeaseEnds, PromptEnds, SlotsReturn, CancelHeard, CallsEnd,
AllocEnds). **Not proved, though they could be**: TypesOK
of MCSafety; of MCClient TypesOK, ModelTalk, ScreenTrue but for ToldTrue, and
SetupKept but for GateKept. Those of MCClient compute with recursive functions
over paths, lines and bytes, each of which would need its own induction first.

## 5. What is not modelled

- Run ids that a client uses twice: `clear_run_id` and `touch_run` compare the
  run id only (db.rs:900), so that two drives of one id share a lease.
- The prompt window as blocks: EveryCallAnswered and AsksWithInput are about the
  path; `compaction_cut` (core/lib.rs:284) may cut between a call and its result,
  and SessionHost shows only that a window forgets nothing.
- An abort that comes between the dispatch of a prompt and the reset of the flag
  (session.rs:325) is forgotten; nothing in the repository claims otherwise.
- The end of standard input during a prompt (cli/rpc.rs:635) makes its loop spin:
  a question of processor time, not of states.
- Workspace: several tenants and regions, idle age and pending interrupts (a
  session may always be listed), bootstrap from git. The cap on hot sessions is
  not tested when a session is heated again (db.rs:741), which no text promises.
- Two snapshots of one handle at once write the same temporary file
  (engine.rs:436).
- Tokens, prices and the amounts of the daily ledger; usage accounting beyond
  what EventStream counts.
- Isolation (`jail.rs`), object-store signatures, git and npm fetches, TLS,
  listeners, metrics: what the operating system or a service does.
- Pure text: markdown, highlighting, mermaid, kitty images, themes, templates and
  @-mentions, package specs, prompts and summaries.
- Benchmarks.

Where the code does what a comment denies and no run shows it: the stored trust
of a project is not asked by `run` and `rpc` (trust.rs:3); ignore files below an
ignored SKILL.md are not read (skills/lib.rs:376); `import_jsonl` refuses a file
for one bad line it says it skips (session_io.rs:306, 319). The tracks under
`docs/backlog` know several more.

## 6. Plan

What a next step would be, in this order:

1. ExecEngine composed with Workspace through the pool's promises (a lease's
   directory is its own), and CloudRun with RunLease, whose lease it takes as
   exclusive.
2. The windows of SessionHost as sequences of blocks, so that the cut of a
   compaction meets the formats of ModelRequest.
3. Proofs of the other parts of MCClient, each with the induction of its
   recursive functions, as SessionProofs has it for FlattenSeq and Chain.
