------------------------------ MODULE CloudRun ------------------------------
(***************************************************************************)
(* The runs of one cloud session: the request (start_run), the drive that  *)
(* loads the tree through the cache, the agent loop that parks on a call   *)
(* which asks for approval, the resume that answers it, and the import of  *)
(* a tree by another request.  Every call to Postgres or Redis is one      *)
(* action.  The lease is what RunLease shows it to be: one run at a time.  *)
(***************************************************************************)
EXTENDS Integers, Sequences, FiniteSets, SequencesExt

CONSTANTS Runs,      \* requests to run, each made at most once
          Batch,     \* calls in one answer of the model, at most
          Races,     \* overlaps the schedule admits: "preflight", "import"
          Faults     \* failures: "batch", "parkcut", "answercut", "cachecut",
                     \* "persist", "redis"; and "guide", a workspace with a
                     \* guidance file (see the actions)

Calls == Runs \X (1 .. Batch)
Verdicts == {"approve", "deny", "cancel"}

\* A tree is the sequence of its messages; a result stands for its call's id.
Msg(kind, id) == [kind |-> kind, id |-> id]
Entries == [kind : {"user", "call", "result", "final", "imported", "guide"},
            id : Runs \X (0 .. Batch)]

VARIABLES db,       \* the messages in Postgres
          cache,    \* the cached tree: a set of at most one
          fill,     \* the fill lock of the cached tree is taken
          ask,      \* status of each call's interrupt row
          ran,      \* how often each parked call was executed
          holder,   \* the run that holds the lease: a set of at most one
          at,       \* where each run is
          resume,   \* the answers each request carries
          work,     \* the tree in the memory of each run
          todo,     \* the pending calls a resumed run has still to settle
          importing \* an import has persisted and not yet invalidated

runVars == <<db, cache, fill, ask, ran, holder, at, resume, work, todo, importing>>

NoAnswers == [c \in {} |-> "deny"]
Asked == {c \in Calls : ask[c] # "none"}

Pending == {c \in Calls : ask[c] = "pending"}

TypeOK ==
  /\ db \in Seq(Entries)
  /\ cache \subseteq Seq(Entries) /\ Cardinality(cache) <= 1
  /\ fill \in BOOLEAN /\ importing \in BOOLEAN
  /\ ask \in [Calls -> {"none", "pending", "resolved", "cancelled"}]
  /\ ran \in [Calls -> Nat]
  /\ holder \subseteq Runs /\ Cardinality(holder) <= 1
  /\ \A r \in Runs : /\ DOMAIN resume[r] \subseteq Calls
                     /\ work[r] \in Seq(Entries)
                     /\ ToSet(todo[r]) \subseteq Calls

Init ==
  /\ db = <<>> /\ cache = {} /\ fill = FALSE /\ importing = FALSE
  /\ ask = [c \in Calls |-> "none"]
  /\ ran = [c \in Calls |-> 0]
  /\ holder = {}
  /\ at = [r \in Runs |-> "idle"]
  /\ resume = [r \in Runs |-> NoAnswers]
  /\ work = [r \in Runs |-> <<>>]
  /\ todo = [r \in Runs |-> <<>>]

Goto(r, from, to) == at[r] = from /\ at' = [at EXCEPT ![r] = to]
Append1(r, m) == work' = [work EXCEPT ![r] = Append(@, m)]

-----------------------------------------------------------------------------
(* The request *)

\* start_run up to the lease: a session with pending interrupts is refused a
\* run whose resume does not cover all of them; a resume may also repeat
\* answers given before.
Preflight(r) ==
  /\ Goto(r, "idle", "checked")
  /\ \E S \in SUBSET Asked :
       /\ Pending \subseteq S
       /\ \E v \in [S -> Verdicts] : resume' = [resume EXCEPT ![r] = v]
  /\ UNCHANGED <<db, cache, fill, ask, ran, holder, work, todo, importing>>

\* (a bug: set_run_id takes the row over whoever holds it)
LeaseTwice(r) ==
  /\ Goto(r, "checked", "load")
  /\ "preflight" \in Races \/ Pending = {} \/ resume[r] # NoAnswers
  /\ "import" \in Races \/ ~importing
  /\ holder' = holder \cup {r}
  /\ UNCHANGED <<db, cache, fill, ask, ran, resume, work, todo, importing>>

\* acquire_lease.  Without the race "preflight" no call was parked between the
\* check and the lease of a run that brings no answers; without "import" no
\* import is half done.
Lease(r) ==
  /\ Goto(r, "checked", IF holder = {} THEN "load" ELSE "over")
  /\ "preflight" \in Races \/ Pending = {} \/ resume[r] # NoAnswers
  /\ "import" \in Races \/ ~importing
  /\ holder' = IF holder = {} THEN {r} ELSE holder
  /\ UNCHANGED <<db, cache, fill, ask, ran, resume, work, todo, importing>>

-----------------------------------------------------------------------------
(* drive: the tree, through the cache *)

\* The first look: a hit is the tree; on a miss the run takes the fill lock,
\* or, if another holds it, waits and looks again.
LoadTree(r) ==
  /\ \/ /\ cache # {} /\ Goto(r, "load", "heat")
        /\ work' = [work EXCEPT ![r] = CHOOSE t \in cache : TRUE]
        /\ UNCHANGED fill
     \/ /\ cache = {} /\ ~fill /\ fill' = TRUE
        /\ Goto(r, "load", "read") /\ UNCHANGED work
     \/ /\ cache = {} /\ fill
        /\ Goto(r, "load", "again") /\ UNCHANGED <<fill, work>>
  /\ UNCHANGED <<db, cache, ask, ran, holder, resume, todo, importing>>

LookAgain(r) ==
  /\ Goto(r, "again", "heat")
  /\ work' = [work EXCEPT ![r] = IF cache = {} THEN db ELSE CHOOSE t \in cache : TRUE]
  /\ UNCHANGED <<db, cache, fill, ask, ran, holder, resume, todo, importing>>

ReadTree(r) ==
  /\ Goto(r, "read", "fill")
  /\ work' = [work EXCEPT ![r] = db]
  /\ UNCHANGED <<db, cache, fill, ask, ran, holder, resume, todo, importing>>

FillCache(r) ==
  /\ Goto(r, "fill", "unlock")
  /\ cache' = {work[r]}
  /\ UNCHANGED <<db, fill, ask, ran, holder, resume, work, todo, importing>>

\* fill_unlock deletes the lock, whoever took it.
FillUnlock(r) ==
  /\ Goto(r, "unlock", "heat")
  /\ fill' = FALSE
  /\ UNCHANGED <<db, cache, ask, ran, holder, resume, work, todo, importing>>

\* ensure_hot fails: drive returns and leaves the lease to the reaper.
HeatFails(r) ==
  /\ Goto(r, "heat", "dead")
  /\ UNCHANGED <<db, cache, fill, ask, ran, holder, resume, work, todo, importing>>

Guidance(r) == IF "guide" \in Faults THEN <<Msg("guide", <<r, 0>>)>> ELSE <<>>

\* load_remote_guidance adds a system message for each guidance file (fault
\* "guide"), in every run again.  A run with answers then settles the pending
\* calls, another adds its user turn.
Begin(r) ==
  /\ IF resume[r] # NoAnswers
     THEN /\ Goto(r, "heat", "settle")
          /\ todo' = [todo EXCEPT ![r] = SetToSeq(Pending)]
          /\ work' = [work EXCEPT ![r] = @ \o Guidance(r)]
     ELSE /\ Goto(r, "heat", "loop")
          /\ work' = [work EXCEPT ![r] = @ \o Guidance(r) \o <<Msg("user", <<r, 0>>)>>]
          /\ UNCHANGED todo
  /\ UNCHANGED <<db, cache, fill, ask, ran, holder, resume, importing>>

-----------------------------------------------------------------------------
(* resume_and_continue *)

Current(r) == Head(todo[r])

\* (a bug: a call the user cancelled gets no result)
CancelWithoutResult(r) ==
  /\ at[r] = "settle" /\ todo[r] # <<>> /\ Current(r) \in DOMAIN resume[r]
  /\ LET c == Current(r)
         v == resume[r][c]
     IN /\ ask' = [ask EXCEPT ![c] = IF v = "cancel" THEN "cancelled" ELSE "resolved"]
        /\ IF v = "approve"
           THEN at' = [at EXCEPT ![r] = "execute"] /\ UNCHANGED <<work, todo>>
           ELSE /\ IF v = "cancel" THEN UNCHANGED work ELSE Append1(r, Msg("result", c))
                /\ todo' = [todo EXCEPT ![r] = Tail(@)]
                /\ UNCHANGED at
  /\ UNCHANGED <<db, cache, fill, ran, holder, resume, importing>>

\* The status is set before anything is done; a call that is not approved has
\* its result at once.
Settle(r) ==
  /\ at[r] = "settle" /\ todo[r] # <<>> /\ Current(r) \in DOMAIN resume[r]
  /\ LET c == Current(r)
         v == resume[r][c]
     IN /\ ask' = [ask EXCEPT ![c] = IF v = "cancel" THEN "cancelled" ELSE "resolved"]
        /\ IF v = "approve"
           THEN /\ at' = [at EXCEPT ![r] = "execute"]
                /\ UNCHANGED <<work, todo>>
           ELSE /\ Append1(r, Msg("result", c))
                /\ todo' = [todo EXCEPT ![r] = Tail(@)]
                /\ UNCHANGED at
  /\ UNCHANGED <<db, cache, fill, ran, holder, resume, importing>>

\* A pending call the request has no answer for: the run ends with an error.
Uncovered(r) ==
  /\ Goto(r, "settle", "persist")
  /\ todo[r] # <<>> /\ Current(r) \notin DOMAIN resume[r]
  /\ UNCHANGED <<db, cache, fill, ask, ran, holder, resume, work, todo, importing>>

Execute(r) ==
  /\ Goto(r, "execute", "settle")
  /\ ran' = [ran EXCEPT ![Current(r)] = @ + 1]
  /\ Append1(r, Msg("result", Current(r)))
  /\ todo' = [todo EXCEPT ![r] = Tail(@)]
  /\ UNCHANGED <<db, cache, fill, ask, holder, resume, importing>>

\* The executor fails (`?`): the call is resolved and has no result.
ExecuteFails(r) ==
  /\ Goto(r, "execute", "persist")
  /\ UNCHANGED <<db, cache, fill, ask, ran, holder, resume, work, todo, importing>>

Continue(r) ==
  /\ Goto(r, "settle", "loop") /\ todo[r] = <<>>
  /\ UNCHANGED <<db, cache, fill, ask, ran, holder, resume, work, todo, importing>>

-----------------------------------------------------------------------------
(* The agent loop and the end of a run *)

Final(r) ==
  /\ Goto(r, "loop", "persist")
  /\ Append1(r, Msg("final", <<r, 0>>))
  /\ UNCHANGED <<db, cache, fill, ask, ran, holder, resume, todo, importing>>

LoopFails(r) ==
  /\ Goto(r, "loop", "persist")
  /\ UNCHANGED <<db, cache, fill, ask, ran, holder, resume, work, todo, importing>>

\* A call of the answer asks: the loop returns at once and keeps that call
\* only.  The others of its batch (fault "batch") never get a result.
Ask(r) ==
  /\ Goto(r, "loop", "insert")
  /\ \E n \in IF "batch" \in Faults THEN 1 .. Batch ELSE {1} : \E k \in 1 .. n :
       /\ work' = [work EXCEPT ![r] = @ \o [i \in 1 .. n |-> Msg("call", <<r, i>>)]]
       /\ todo' = [todo EXCEPT ![r] = <<<<r, k>>>>]
  /\ UNCHANGED <<db, cache, fill, ask, ran, holder, resume, importing>>

ParkInsert(r) ==
  /\ Goto(r, "insert", "parkPersist")
  /\ ask' = [ask EXCEPT ![Current(r)] = "pending"]
  /\ UNCHANGED <<db, cache, fill, ran, holder, resume, work, todo, importing>>

ParkPersist(r) ==
  /\ Goto(r, "parkPersist", "invalidate")
  /\ db' = work[r]
  /\ UNCHANGED <<cache, fill, ask, ran, holder, resume, work, todo, importing>>

\* (a bug: parking keeps the cached tree)
ParkForgetsCache(r) ==
  /\ Goto(r, "invalidate", "release")
  /\ UNCHANGED <<db, cache, fill, ask, ran, holder, resume, work, todo, importing>>

\* Errors of Redis are ignored (fault "redis").
ParkInvalidate(r) ==
  /\ Goto(r, "invalidate", "release")
  /\ cache' = {} \/ ("redis" \in Faults /\ UNCHANGED cache)
  /\ UNCHANGED <<db, fill, ask, ran, holder, resume, work, todo, importing>>

\* finish ignores the error of persist_tree (fault "persist") ...
FinishPersist(r) ==
  /\ Goto(r, "persist", "recache")
  /\ db' = work[r] \/ ("persist" \in Faults /\ UNCHANGED db)
  /\ UNCHANGED <<cache, fill, ask, ran, holder, resume, work, todo, importing>>

\* ... and caches the tree in any case.
FinishCache(r) ==
  /\ Goto(r, "recache", "release")
  /\ cache' = {work[r]} \/ ("redis" \in Faults /\ UNCHANGED cache)
  /\ UNCHANGED <<db, fill, ask, ran, holder, resume, work, todo, importing>>

Release(r) ==
  /\ Goto(r, "release", "over")
  /\ holder' = holder \ {r}
  /\ work' = [work EXCEPT ![r] = <<>>]
  /\ todo' = [todo EXCEPT ![r] = <<>>]
  /\ UNCHANGED <<db, cache, fill, ask, ran, resume, importing>>

-----------------------------------------------------------------------------
(* Faults, expiry, and the import *)

\* A settled call whose result is not persisted yet.
Unsaved == \E c \in Calls : ask[c] \in {"resolved", "cancelled"} /\
                Msg("call", c) \in ToSet(db) /\ Msg("result", c) \notin ToSet(db)

\* A replica dies; three places where that breaks the session have a fault of
\* their own: between the interrupt's row and the tree, between the tree and
\* its cached copy, and between a call's status and its result.
Crash(r) ==
  /\ at[r] \notin {"idle", "checked", "over", "dead"}
  /\ "parkcut" \in Faults \/ at[r] # "parkPersist"
  /\ "cachecut" \in Faults \/ at[r] \notin {"invalidate", "recache"}
  /\ "answercut" \in Faults \/ ~Unsaved
  /\ at' = [at EXCEPT ![r] = "dead"]
  /\ UNCHANGED <<db, cache, fill, ask, ran, holder, resume, work, todo, importing>>

\* reap_stale_runs takes the lease from a run that is gone.
Reap(r) ==
  /\ Goto(r, "dead", "over") /\ r \in holder
  /\ holder' = {}
  /\ work' = [work EXCEPT ![r] = <<>>]
  /\ todo' = [todo EXCEPT ![r] = <<>>]
  /\ UNCHANGED <<db, cache, fill, ask, ran, resume, importing>>

CacheExpires ==
  /\ cache # {} /\ cache' = {}
  /\ UNCHANGED <<db, fill, ask, ran, holder, at, resume, work, todo, importing>>

FillExpires ==
  /\ fill /\ fill' = FALSE
  /\ UNCHANGED <<db, cache, ask, ran, holder, at, resume, work, todo, importing>>

\* import_session persists a tree without asking for the lease or for pending
\* interrupts (race "import"), and then invalidates.
ImportPersist ==
  /\ ~importing /\ importing' = TRUE
  /\ "import" \in Races \/ (holder = {} /\ Pending = {})
  /\ \E r \in Runs : /\ Msg("imported", <<r, 0>>) \notin ToSet(db)
                     /\ db' = <<Msg("imported", <<r, 0>>)>>
  /\ UNCHANGED <<cache, fill, ask, ran, holder, at, resume, work, todo>>

ImportInvalidate ==
  /\ importing /\ importing' = FALSE
  /\ cache' = {}
  /\ UNCHANGED <<db, fill, ask, ran, holder, at, resume, work, todo>>

-----------------------------------------------------------------------------
Step(r) ==
  \/ Preflight(r) \/ Lease(r)
  \/ LoadTree(r) \/ LookAgain(r) \/ ReadTree(r) \/ FillCache(r) \/ FillUnlock(r)
  \/ HeatFails(r) \/ Begin(r)
  \/ Settle(r) \/ Uncovered(r) \/ Execute(r) \/ ExecuteFails(r) \/ Continue(r)
  \/ Final(r) \/ LoopFails(r) \/ Ask(r)
  \/ ParkInsert(r) \/ ParkPersist(r) \/ ParkInvalidate(r)
  \/ FinishPersist(r) \/ FinishCache(r) \/ Release(r)
  \/ Crash(r) \/ Reap(r)

Next ==
  \/ \E r \in Runs : Step(r)
  \/ CacheExpires \/ FillExpires \/ ImportPersist \/ ImportInvalidate

Spec == Init /\ [][Next]_runVars

-----------------------------------------------------------------------------
(* Properties *)

Approved(c) == \E r \in Runs : c \in DOMAIN resume[r] /\ resume[r][c] = "approve"

\* A parked call is executed at most once, and only if a request approved it:
\* neither a repeated resume nor a resume of the next run does it again.
ApprovedOnce ==
  \A c \in Calls :
    /\ ran[c] <= 1
    /\ ran[c] = 1 => Approved(c)

\* With no run and no import at work, a cached tree is the persisted one, so
\* that the next run starts from what the last one saved.
CacheCoherent == holder = {} /\ ~importing => cache \subseteq {db}

\* With no run at work, every call in the persisted tree is either pending or
\* answered, by a result that only calls and results separate from it, and
\* every pending call is in the tree: the provider takes the session on.  The
\* exception is an approved call that could not be executed.
CallsSettled ==
  holder = {} =>
    /\ \A c \in Pending : Msg("call", c) \in ToSet(db)
    /\ \A i \in DOMAIN db : db[i].kind = "call" =>
         \/ ask[db[i].id] = "pending" /\ \A j \in i .. Len(db) : db[j].kind \in {"call", "result"}
         \/ ask[db[i].id] = "resolved" /\ ran[db[i].id] = 0 /\ Approved(db[i].id)
         \/ \E k \in i + 1 .. Len(db) :
              /\ db[k] = Msg("result", db[i].id)
              /\ \A j \in i .. k : db[j].kind \in {"call", "result"}
=============================================================================
