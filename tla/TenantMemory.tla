---------------------------- MODULE TenantMemory ----------------------------
(***************************************************************************)
(* The long-term memory of the cloud (memory.rs and the memory rows of     *)
(* db.rs): the tools of a run add, replace, remove and search rows, and    *)
(* each run begins with a frozen copy of the rows in its prompt.           *)
(***************************************************************************)
EXTENDS Integers

CONSTANTS
  OwnerOf,      \* session -> tenant
  MaxRows       \* bound: rows ever added

TenantMemoryAssumption == MaxRows \in Nat \ {0}

VARIABLES
  memories,  \* the rows: [id, tenant, session, layer, note], ids in the order of insertion
  added,     \* how many were added
  frozenAt,  \* session -> the notes in the prompt of its run, NoRun between runs
  frozenKey, \* the cache: tenant -> the notes that a run of it froze, NoRun for none
  storing    \* the sessions whose run has frozen the rows and not yet cached them

memoryVars == <<memories, added, frozenAt, frozenKey, storing>>

Runs == DOMAIN OwnerOf
OwningTenants == {OwnerOf[s] : s \in Runs}
Layers == {"core", "extended"}
NoRun == {-1}

\* A note carries who wrote it and whether its text has the [core] mark.
Note(n, s, mark) == [n |-> n, by |-> s, mark |-> mark]

TypeOK ==
  /\ \A r \in memories : r.layer \in Layers /\ {r.session, r.note.by} \subseteq Runs
  /\ added \in 0..MaxRows /\ DOMAIN frozenAt = Runs

Init ==
  /\ memories = {} /\ added = 0 /\ frozenAt = [s \in Runs |-> NoRun]
  /\ frozenKey = [t \in OwningTenants |-> NoRun] /\ storing = {}

\* list_memories: the tenant's rows that are of this session or of none.
\* Those of the tools always name their session.
List(s) == {r \in memories : r.tenant = OwnerOf[s] /\ r.session = s}

\* frozen: with a core row, the extended ones are left out of the prompt.
Frozen(s) ==
  LET core == {r \in List(s) : r.layer = "core"} IN
  {r.note.n : r \in IF core # {} THEN core ELSE List(s)}

\* A run of the session begins. The cache is kept by tenant, not by session:
\* what another session's run froze is used as it is. The prompt stays as it
\* is until the run ends.
BeginRun(s) ==
  LET held == frozenKey[OwnerOf[s]] IN
  /\ frozenAt[s] = NoRun
  /\ frozenAt' = [frozenAt EXCEPT ![s] = IF held # NoRun THEN held ELSE Frozen(s)]
  /\ storing' = IF held # NoRun THEN storing ELSE storing \cup {s}
  /\ UNCHANGED <<memories, added, frozenKey>>

\* set_ex, after the rows were read; it holds for five minutes.
Store(s) ==
  /\ s \in storing /\ storing' = storing \ {s}
  /\ frozenKey' = [frozenKey EXCEPT ![OwnerOf[s]] = frozenAt[s]]
  /\ UNCHANGED <<memories, added, frozenAt>>

Expire(s) ==
  /\ frozenKey[OwnerOf[s]] # NoRun /\ frozenKey' = [frozenKey EXCEPT ![OwnerOf[s]] = NoRun]
  /\ UNCHANGED <<memories, added, frozenAt, storing>>

EndRun(s) ==
  /\ frozenAt[s] # NoRun /\ s \notin storing
  /\ frozenAt' = [frozenAt EXCEPT ![s] = NoRun]
  /\ UNCHANGED <<memories, added, frozenKey, storing>>

\* The memory tool of a run: the rows are changed and the cache is cleared.
Change(s, new) ==
  /\ frozenAt[s] # NoRun /\ s \notin storing
  /\ memories' = new
  /\ frozenKey' = [frozenKey EXCEPT ![OwnerOf[s]] = NoRun]
  /\ UNCHANGED <<frozenAt, storing>>

\* insert_memory: the layer is read from the text, once.
Add(s) ==
  /\ added < MaxRows /\ added' = added + 1
  /\ \E mark \in Layers :
       Change(s, memories \cup {[id |-> added + 1, tenant |-> OwnerOf[s], session |-> s,
                                 layer |-> mark, note |-> Note(added + 1, s, mark)]})

\* memory_search: the rows of the tenant, of all its sessions.
Search(s) == {r \in memories : r.tenant = OwnerOf[s]}

\* The newest row of the tenant, whichever session added it, if there is one.
Newest(s) == {r \in Search(s) : \A q \in Search(s) : q.id <= r.id}

\* replace_memory: the row that is named, or the newest; none when the id is
\* none of the tenant's. Its layer stays.
Replace(s) ==
  /\ added < MaxRows /\ added' = added + 1
  /\ \E mark \in Layers, old \in {{}, Newest(s)} \cup {{r} : r \in Search(s)} :
       Change(s, (memories \ old) \cup {[r EXCEPT !.note = Note(added + 1, s, mark)] : r \in old})

\* delete_memory: every row of the tenant with that text.
Delete(s) ==
  /\ \E q \in memories :
       Change(s, {r \in memories : ~(r.tenant = OwnerOf[s] /\ r.note = q.note)})
  /\ UNCHANGED added

Next == \E s \in Runs : BeginRun(s) \/ Store(s) \/ Expire(s) \/ EndRun(s) \/ Add(s) \/ Replace(s) \/ Delete(s)

Spec == Init /\ [][Next]_memoryVars

----------------------------------------------------------------------------
\* A row of a tenant holds what a session of that tenant wrote, and nothing
\* else is found by its searches and in its prompts, although the rows of all
\* tenants are in one table and are replaced without being named.
MemoryApart ==
  \A s \in Runs :
    /\ \A r \in Search(s) : OwnerOf[r.note.by] = OwnerOf[s]
    /\ \A r \in memories : r.note.n \in frozenAt[s] => OwnerOf[r.note.by] = OwnerOf[s]

\* "Prefix `[core]` to pin into every prompt" (memory.rs, system_prompt_block):
\* a run that begins now would have every core note of its tenant in its prompt.
CorePinned ==
  \A s \in Runs : frozenAt[s] = NoRun =>
    \A r \in Search(s) :
      r.note.mark = "core" => r.note.n \in (IF frozenKey[OwnerOf[s]] # NoRun
                                            THEN frozenKey[OwnerOf[s]] ELSE Frozen(s))

=============================================================================
