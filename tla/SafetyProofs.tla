---------------------------- MODULE SafetyProofs ----------------------------
(***************************************************************************)
(* Theorems about the parts of MCSafety, each for every value of the       *)
(* constants.  A step of MCSafety is a step of each part, or a stutter of  *)
(* it (Parts), so that what a part keeps, MCSafety keeps.  The schema, the *)
(* memory, the tables of the tenants, the tool table and the local session *)
(* are proved here, each by an invariant of its part; the runs and the     *)
(* files of a session and the engine in modules of their own, which are    *)
(* instantiated where they are used.                                       *)
(***************************************************************************)
EXTENDS MCSafety, FiniteSetTheorems, SequenceTheorems, WellFoundedInduction, TLAPS

-----------------------------------------------------------------------------
(* The parts *)

LEMMA Parts ==
  /\ Init => CR!Init /\ TH!Init /\ EE!Init /\ TN!Init /\ TM!Init /\ SM!Init
              /\ SH!Init /\ SF!Init
  /\ [Next]_vars => /\ [CR!Next]_CR!runVars /\ [TH!Next]_TH!toolVars /\ [EE!Next]_EE!vars
                    /\ [TN!Next]_TN!adminVars /\ [TM!Next]_TM!memoryVars
                    /\ [SM!Next]_SM!schemaVars /\ [SH!Next]_SH!hostVars
                    /\ [SF!Next]_SF!sfVars
<1>1. Init => /\ CR!Init /\ TH!Init /\ EE!Init /\ TN!Init /\ TM!Init /\ SM!Init
              /\ SH!Init /\ SF!Init
  BY DEF Init
<1>2. ASSUME [Next]_vars PROVE [CR!Next]_CR!runVars
  BY <1>2 DEF Next, vars, Others, runVars, CR!runVars
<1>3. ASSUME [Next]_vars PROVE [TH!Next]_TH!toolVars
  BY <1>3 DEF Next, vars, Others, toolsVars, TH!toolVars
<1>4. ASSUME [Next]_vars PROVE [EE!Next]_EE!vars
  BY <1>4 DEF Next, vars, Others, engineVars, EE!vars
<1>5. ASSUME [Next]_vars PROVE [TN!Next]_TN!adminVars
  BY <1>5 DEF Next, vars, Others, tenantsVars, TN!adminVars
<1>6. ASSUME [Next]_vars PROVE [TM!Next]_TM!memoryVars
  BY <1>6 DEF Next, vars, Others, memoriesVars, TM!memoryVars
<1>7. ASSUME [Next]_vars PROVE [SM!Next]_SM!schemaVars
  BY <1>7 DEF Next, vars, Others, schemaVars, SM!schemaVars
<1>8. ASSUME [Next]_vars PROVE [SH!Next]_SH!hostVars
  BY <1>8 DEF Next, vars, Others, sessionVars, SH!hostVars
<1>9. ASSUME [Next]_vars PROVE [SF!Next]_SF!sfVars
  BY <1>9 DEF Next, vars, Others, fileVars, SF!sfVars
<1> QED BY <1>1, <1>2, <1>3, <1>4, <1>5, <1>6, <1>7, <1>8, <1>9

-----------------------------------------------------------------------------
(* The schema *)

\* What a batch alters was there when it was applied, and stays; a version is
\* stamped after its last batch.
Whole ==
  /\ "columns" \in parts => "core" \in parts
  /\ "admin" \in parts => "columns" \in parts
  /\ "role" \in parts => "admin" \in parts
  /\ 4 \in stamps => "role" \in parts
  /\ ~early => /\ 1 \in stamps => "core" \in parts
               /\ 2 \in stamps => "admin" \in parts

\* What the statement a server is at says of what it has done: has are the
\* parts there are, signed the stamps.
Booted(b, has, signed) ==
  \/ b = SM!Off
  \/ b = [at |-> "serving"] /\ "role" \in has
  \/ \E v \in 1..3 : b = [at |-> "adopt", version |-> v]
  \/ \E v \in 1..4, n \in 1..3, seen \in SUBSET signed :
       /\ b = SM!Running(v, n, seen)
       /\ n = 1 \/ (v = 2 /\ "columns" \in has)
  \/ \E v \in 1..4, n \in 1..3, seen \in SUBSET signed :
       /\ b = [at |-> "stamp", version |-> v, batch |-> n, seen |-> seen]
       /\ v = 1 => "core" \in has
       /\ v = 2 => "admin" \in has
       /\ v = 4 => "role" \in has

BootsKnown == \A s \in Servers : Booted(boot[s], parts, stamps)

\* An old database is whole, unless it was taken for one too early.
Adopting == ~early => \A s \in Servers : boot[s].at = "adopt" => "admin" \in parts

SchemaInv ==
  /\ Whole /\ BootsKnown /\ Adopting
  /\ stamps \subseteq 1..4 /\ early \in BOOLEAN /\ DOMAIN boot = Servers

\* The batches, by version and place.
LEMMA BatchTable ==
  /\ SM!Batches[1] = <<"core">> /\ Len(SM!Batches[1]) = 1 /\ SM!Batches[1][1] = "core"
  /\ Len(SM!Batches[2]) = 3 /\ SM!Batches[2][1] = "columns"
  /\ SM!Batches[2][2] = "search" /\ SM!Batches[2][3] = "admin"
  /\ Len(SM!Batches[3]) = 1 /\ SM!Batches[3][1] = "cjk"
  /\ Len(SM!Batches[4]) = 1 /\ SM!Batches[4][1] = "role"
BY DEF SM!Batches

LEMMA InitSchema == SM!Init => SchemaInv
<1> SUFFICES ASSUME SM!Init PROVE SchemaInv
  OBVIOUS
<1>1. \A s \in Servers : boot[s] = SM!Off
  BY DEF SM!Init
<1>2. BootsKnown /\ Adopting
  BY <1>1 DEF BootsKnown, Adopting, Booted, SM!Off
<1>3. Whole
  BY DEF SM!Init, Whole
<1> QED BY <1>2, <1>3 DEF SM!Init, SchemaInv

\* A server that does not move keeps what is said of it: nothing is ever taken
\* out of the database, and no stamp is removed.
LEMMA BootedStays ==
  ASSUME NEW b, NEW has, NEW signed, Booted(b, has, signed),
         NEW has2, NEW signed2, has \subseteq has2, signed \subseteq signed2
  PROVE  Booted(b, has2, signed2)
BY DEF Booted

LEMMA RunningBooted ==
  ASSUME NEW v \in 1..4, NEW n \in 1..3, NEW has, NEW signed, NEW seen \in SUBSET signed,
         n = 1 \/ (v = 2 /\ "columns" \in has)
  PROVE  Booted(SM!Running(v, n, seen), has, signed)
BY Zenon DEF Booted

LEMMA StampBooted ==
  ASSUME NEW v \in 1..4, NEW n \in 1..3, NEW has, NEW signed, NEW seen \in SUBSET signed,
         v = 1 => "core" \in has, v = 2 => "admin" \in has, v = 4 => "role" \in has
  PROVE  Booted([at |-> "stamp", version |-> v, batch |-> n, seen |-> seen], has, signed)
BY Zenon DEF Booted

\* One server moves.
LEMMA BootMoves ==
  ASSUME SchemaInv, NEW s \in Servers, NEW b,
         boot' = [boot EXCEPT ![s] = b], Booted(b, parts', stamps'), Whole',
         b.at = "adopt" /\ ~early' => "admin" \in parts',
         early' \in BOOLEAN, stamps' \subseteq 1..4,
         parts \subseteq parts', stamps \subseteq stamps', early => early'
  PROVE  SchemaInv'
<1>1. ASSUME NEW t \in Servers
      PROVE  /\ Booted(boot'[t], parts', stamps')
             /\ ~early' /\ boot'[t].at = "adopt" => "admin" \in parts'
  <2>1. CASE t = s
    BY <2>1 DEF SchemaInv
  <2>2. CASE t # s
    <3>1. boot'[t] = boot[t] /\ Booted(boot[t], parts, stamps)
      BY <2>2 DEF SchemaInv, BootsKnown
    <3>2. Booted(boot'[t], parts', stamps')
      BY <3>1, BootedStays
    <3> QED BY <3>1, <3>2 DEF SchemaInv, Adopting
  <2> QED BY <2>1, <2>2
<1> QED BY <1>1 DEF SchemaInv, BootsKnown, Adopting

\* The next version after v: to apply it needs nothing but its own first batch.
LEMMA AfterBooted ==
  ASSUME NEW s, NEW v \in 1..4, NEW has, NEW signed, NEW seen \in SUBSET signed,
         v = 4 => "role" \in has
  PROVE  Booted(SM!After(s, v, seen), has, signed) /\ SM!After(s, v, seen).at # "adopt"
<1>1. CASE v < 4
  <2>1. v + 1 \in 1..4 /\ SM!After(s, v, seen) = SM!Running(v + 1, 1, seen)
    BY <1>1 DEF SM!After
  <2>2. SM!After(s, v, seen).at # "adopt"
    BY <2>1 DEF SM!Running
  <2> QED BY <2>1, <2>2, RunningBooted
<1>2. CASE v = 4
  BY <1>2 DEF SM!After, Booted
<1> QED BY <1>1, <1>2

LEMMA NextSchema == SchemaInv /\ [SM!Next]_SM!schemaVars => SchemaInv'
<1> SUFFICES ASSUME SchemaInv, [SM!Next]_SM!schemaVars PROVE SchemaInv'
  OBVIOUS
<1>0. ASSUME UNCHANGED <<parts, stamps, early>>
      PROVE  Whole' /\ early' \in BOOLEAN /\ stamps' \subseteq 1..4
  BY <1>0 DEF SchemaInv, Whole
<1>1. ASSUME NEW s \in Servers, SM!Start(s) PROVE SchemaInv'
  <2>1. /\ UNCHANGED <<parts, stamps>>
        /\ early' = (early \/ (  /\ stamps = {} /\ "core" \in parts
                               /\ ~({"columns", "admin"} \subseteq parts)))
    BY <1>1 DEF SM!Start
  <2>2. early' \in BOOLEAN /\ (early => early') /\ stamps' \subseteq 1..4
    BY <2>1 DEF SchemaInv
  <2>3. Whole'
    BY <2>1, <2>2 DEF SchemaInv, Whole
  <2>4. CASE boot' = [boot EXCEPT ![s] = [at |-> "adopt", version |-> 1]]
    <3>1. CASE stamps = {} /\ "core" \in parts
      <4>1. ~early' => "admin" \in parts
        BY <2>1, <3>1
      <4>2. Booted([at |-> "adopt", version |-> 1], parts', stamps')
        BY DEF Booted
      <4> QED BY <2>1, <2>2, <2>3, <2>4, <4>1, <4>2, BootMoves
    <3>2. CASE ~(stamps = {} /\ "core" \in parts)
      <4>1. boot' = [boot EXCEPT ![s] = SM!Running(1, 1, stamps)]
        BY <1>1, <3>2 DEF SM!Start
      <4>2. FALSE
        BY <2>4, <4>1 DEF SchemaInv, SM!Running
      <4> QED BY <4>2
    <3> QED BY <3>1, <3>2
  <2>5. CASE boot' = [boot EXCEPT ![s] = SM!Running(1, 1, stamps)]
    <3>1. Booted(SM!Running(1, 1, stamps), parts', stamps')
      BY <2>1, RunningBooted
    <3>2. SM!Running(1, 1, stamps).at # "adopt"
      BY DEF SM!Running
    <3> QED BY <2>1, <2>2, <2>3, <2>5, <3>1, <3>2, BootMoves
  <2> QED BY <1>1, <2>4, <2>5 DEF SM!Start
<1>2. ASSUME NEW s \in Servers, SM!Adopt(s) PROVE SchemaInv'
  <2>1. PICK v \in 1..3 : boot[s] = [at |-> "adopt", version |-> v]
    BY <1>2 DEF SM!Adopt, SchemaInv, BootsKnown, Booted, SM!Off, SM!Running
  <2>2. ~early => "admin" \in parts
    BY <2>1 DEF SchemaInv, Adopting
  <2>3. stamps' = stamps \cup {v} /\ UNCHANGED <<parts, early>>
    BY <1>2, <2>1 DEF SM!Adopt
  <2>4. Whole' /\ early' \in BOOLEAN /\ stamps' \subseteq 1..4
    BY <2>2, <2>3 DEF SchemaInv, Whole
  <2>5. CASE v < 3
    <3>1. boot' = [boot EXCEPT ![s] = [at |-> "adopt", version |-> v + 1]]
      <4>1. [boot[s] EXCEPT !.version = @ + 1] = [at |-> "adopt", version |-> v + 1]
        BY <2>1
      <4>2. boot[s].version < 3
        BY <2>1, <2>5
      <4> QED BY <1>2, <4>1, <4>2, Zenon DEF SM!Adopt
    <3>2. v + 1 \in 1..4 /\ v + 1 < 4
      BY <2>5
    <3>3. Booted([at |-> "adopt", version |-> v + 1], parts', stamps')
      BY <3>2 DEF Booted
    <3> QED BY <2>2, <2>3, <2>4, <3>1, <3>3, BootMoves
  <2>6. CASE v = 3
    <3>1. boot' = [boot EXCEPT ![s] = SM!Running(1, 1, stamps')]
      BY <1>2, <2>1, <2>6 DEF SM!Adopt
    <3>2. Booted(SM!Running(1, 1, stamps'), parts', stamps')
      BY RunningBooted
    <3>3. SM!Running(1, 1, stamps').at # "adopt"
      BY DEF SM!Running
    <3> QED BY <2>3, <2>4, <3>1, <3>2, <3>3, BootMoves
  <2> QED BY <2>5, <2>6
<1>3. ASSUME NEW s \in Servers, SM!Skip(s) PROVE SchemaInv'
  <2>1. PICK v \in 1..4, n \in 1..3, seen \in SUBSET stamps : boot[s] = SM!Running(v, n, seen)
    BY <1>3 DEF SM!Skip, SchemaInv, BootsKnown, Booted, SM!Off
  <2>2. /\ v \in seen /\ UNCHANGED <<parts, stamps, early>>
        /\ boot' = [boot EXCEPT ![s] = SM!After(s, v, seen)]
    BY <1>3, <2>1 DEF SM!Skip, SM!Running
  <2>3. v = 4 => "role" \in parts
    BY <2>2 DEF SchemaInv, Whole
  <2>4. Booted(SM!After(s, v, seen), parts', stamps') /\ SM!After(s, v, seen).at # "adopt"
    BY <2>2, <2>3, AfterBooted
  <2> QED BY <1>0, <2>2, <2>4, BootMoves
<1>4. ASSUME NEW s \in Servers, SM!Apply(s) PROVE SchemaInv'
  <2>1. PICK v \in 1..4, n \in 1..3, seen \in SUBSET stamps :
          /\ boot[s] = SM!Running(v, n, seen)
          /\ n = 1 \/ (v = 2 /\ "columns" \in parts)
    BY <1>4 DEF SM!Apply, SchemaInv, BootsKnown, Booted, SM!Off
  <2> DEFINE batch == SM!Batches[v][n]
             done == IF n = Len(SM!Batches[v])
                     THEN [at |-> "stamp", version |-> v, batch |-> n, seen |-> seen]
                     ELSE SM!Running(v, n + 1, seen)
  <2>2. UNCHANGED <<stamps, early>>
    BY <1>4 DEF SM!Apply
  <2>3. \/ /\ SM!Needs(batch) \subseteq parts
           /\ parts' = parts \cup {batch} /\ boot' = [boot EXCEPT ![s] = done]
        \/ /\ batch \in SM!Optional /\ parts' = parts
           /\ boot' = [boot EXCEPT ![s] = IF batch = "cjk" THEN SM!After(s, 3, seen) ELSE done]
        \/ parts' = parts /\ boot' = [boot EXCEPT ![s] = SM!Off]
    BY <1>4, <2>1 DEF SM!Apply, SM!Running
  <2>4. /\ v # 2 => n = 1 /\ Len(SM!Batches[v]) = 1
        /\ v = 1 => batch = "core"
        /\ v = 2 => /\ Len(SM!Batches[v]) = 3
                    /\ n = 1 => batch = "columns"
                    /\ n = 2 => batch = "search"
                    /\ n = 3 => batch = "admin"
        /\ v = 3 => batch = "cjk"
        /\ v = 4 => batch = "role"
    BY <2>1, BatchTable
  <2> HIDE DEF batch
  <2>5. ASSUME parts' \in {parts, parts \cup {batch}},
               v \in {1, 4} \/ (v = 2 /\ n # 2) => batch \in parts'
        PROVE  Booted(done, parts', stamps') /\ done.at # "adopt"
    <3>1. CASE v = 2 /\ n # 3
      <4>1. n + 1 \in 1..3 /\ done = SM!Running(v, n + 1, seen)
        BY <2>4, <3>1
      <4>2. "columns" \in parts'
        BY <2>1, <2>4, <2>5, <3>1
      <4>3. seen \in SUBSET stamps' /\ v = 2
        BY <2>2, <3>1
      <4>4. Booted(SM!Running(v, n + 1, seen), parts', stamps')
        BY <4>1, <4>2, <4>3, RunningBooted
      <4> QED BY <4>1, <4>4 DEF SM!Running
    <3>2. CASE ~(v = 2 /\ n # 3)
      <4>1. done = [at |-> "stamp", version |-> v, batch |-> n, seen |-> seen]
        BY <2>4, <3>2
      <4>2. /\ v = 1 => "core" \in parts'
            /\ v = 2 => "admin" \in parts'
            /\ v = 4 => "role" \in parts'
        BY <2>4, <2>5, <3>2
      <4>3. seen \in SUBSET stamps'
        BY <2>2
      <4>4. Booted([at |-> "stamp", version |-> v, batch |-> n, seen |-> seen], parts', stamps')
        BY <4>2, <4>3, StampBooted
      <4> QED BY <4>1, <4>4
    <3> QED BY <3>1, <3>2
  <2> HIDE DEF done
  <2>6. CASE /\ SM!Needs(batch) \subseteq parts
             /\ parts' = parts \cup {batch} /\ boot' = [boot EXCEPT ![s] = done]
    <3>1. Whole'
      <4>1. "core" \in parts \/ batch \notin {"columns", "admin"}
        BY <2>6 DEF SM!Needs
      <4>2. batch = "role" => "admin" \in parts
        BY <2>6 DEF SM!Needs
      <4>3. batch = "admin" => "columns" \in parts
        BY <2>1, <2>4
      <4> QED BY <2>2, <2>6, <4>1, <4>2, <4>3 DEF SchemaInv, Whole
    <3>2. Booted(done, parts', stamps') /\ done.at # "adopt"
      BY <2>5, <2>6
    <3> QED BY <2>2, <2>6, <3>1, <3>2, BootMoves DEF SchemaInv
  <2>7. CASE /\ batch \in SM!Optional /\ parts' = parts
             /\ boot' = [boot EXCEPT ![s] = IF batch = "cjk" THEN SM!After(s, 3, seen) ELSE done]
    <3>1. seen \in SUBSET stamps'
      BY <2>2
    <3>2. Booted(SM!After(s, 3, seen), parts', stamps') /\ SM!After(s, 3, seen).at # "adopt"
      BY <3>1, AfterBooted
    <3>3. Booted(done, parts', stamps') /\ done.at # "adopt"
      BY <2>4, <2>5, <2>7 DEF SM!Optional
    <3>4. CASE batch = "cjk"
      BY <1>0, <2>2, <2>7, <3>2, <3>4, BootMoves
    <3>5. CASE batch # "cjk"
      BY <1>0, <2>2, <2>7, <3>3, <3>5, BootMoves
    <3> QED BY <3>4, <3>5
  <2>8. CASE parts' = parts /\ boot' = [boot EXCEPT ![s] = SM!Off]
    <3>1. Booted(SM!Off, parts', stamps') /\ SM!Off.at # "adopt"
      BY DEF Booted, SM!Off
    <3> QED BY <1>0, <2>2, <2>8, <3>1, BootMoves
  <2> QED BY <2>3, <2>6, <2>7, <2>8
<1>5. ASSUME NEW s \in Servers, SM!Stamp(s) PROVE SchemaInv'
  <2>1. PICK v \in 1..4, n \in 1..3, seen \in SUBSET stamps :
          /\ boot[s] = [at |-> "stamp", version |-> v, batch |-> n, seen |-> seen]
          /\ v = 1 => "core" \in parts
          /\ v = 2 => "admin" \in parts
          /\ v = 4 => "role" \in parts
    BY <1>5 DEF SM!Stamp, SchemaInv, BootsKnown, Booted, SM!Off, SM!Running
  <2>2. /\ stamps' = stamps \cup {v} /\ UNCHANGED <<parts, early>>
        /\ boot' = [boot EXCEPT ![s] = SM!After(s, v, seen)]
    BY <1>5, <2>1 DEF SM!Stamp
  <2>3. Whole'
    BY <2>1, <2>2 DEF SchemaInv, Whole
  <2>4. Booted(SM!After(s, v, seen), parts', stamps') /\ SM!After(s, v, seen).at # "adopt"
    BY <2>1, <2>2, AfterBooted
  <2> QED BY <2>2, <2>3, <2>4, BootMoves DEF SchemaInv
<1>6. ASSUME NEW s \in Servers, SM!Crash(s) PROVE SchemaInv'
  <2>1. Booted(SM!Off, parts', stamps') /\ SM!Off.at # "adopt"
    BY DEF Booted, SM!Off
  <2> QED BY <1>0, <1>6, <2>1, BootMoves DEF SM!Crash
<1>7. CASE UNCHANGED SM!schemaVars
  BY <1>7 DEF SM!schemaVars, SchemaInv, Whole, BootsKnown, Adopting, Booted
<1> QED BY <1>1, <1>2, <1>3, <1>4, <1>5, <1>6, <1>7 DEF SM!Next

LEMMA SchemaHolds == SchemaInv => SM!SchemaServes
<1> SUFFICES ASSUME SchemaInv PROVE SM!SchemaServes
  OBVIOUS
<1>1. ASSUME NEW s \in Servers, boot[s].at = "serving"
      PROVE  {"core", "columns", "admin", "role"} \subseteq parts
  BY <1>1 DEF SchemaInv, Whole, BootsKnown, Booted, SM!Off, SM!Running
<1>2. ASSUME NEW v \in stamps \ {3}, ~early
      PROVE  {SM!Batches[v][n] : n \in 1..Len(SM!Batches[v])} \ SM!Optional \subseteq parts
  <2>1. CASE v = 1
    BY <1>2, <2>1, BatchTable DEF SchemaInv, Whole, SM!Optional
  <2>2. CASE v = 2
    BY <1>2, <2>2, BatchTable DEF SchemaInv, Whole, SM!Optional
  <2>3. CASE v = 4
    BY <1>2, <2>3, BatchTable DEF SchemaInv, Whole, SM!Optional
  <2> QED BY <2>1, <2>2, <2>3 DEF SchemaInv
<1> QED BY <1>1, <1>2 DEF SM!SchemaServes

-----------------------------------------------------------------------------
(* The long-term memory *)

Note == [n : Nat, by : TM!Runs, mark : TM!Layers]
Row == [id : Nat, tenant : TM!OwningTenants, session : TM!Runs, layer : TM!Layers, note : Note]

\* A row and its note are of one tenant; a number names the notes of one tenant.
RowsApart ==
  /\ memories \subseteq Row
  /\ \A r \in memories : Owners[r.note.by] = r.tenant /\ r.note.n \in 1..added
  /\ \A r, q \in memories : r.note.n = q.note.n => r.tenant = q.tenant

Frozen == {-1} \cup 1..added

\* What is in a prompt or in the cache is of that session's or that tenant.
PromptsApart ==
  /\ frozenAt \in [TM!Runs -> SUBSET Frozen]
  /\ \A s \in TM!Runs : \A r \in memories : r.note.n \in frozenAt[s] => r.tenant = Owners[s]

CacheApart ==
  /\ frozenKey \in [TM!OwningTenants -> SUBSET Frozen]
  /\ \A t \in TM!OwningTenants : \A r \in memories : r.note.n \in frozenKey[t] => r.tenant = t

MemoryInv == added \in Nat /\ RowsApart /\ PromptsApart /\ CacheApart

LEMMA InitMemory == TM!Init => MemoryInv
<1> SUFFICES ASSUME TM!Init PROVE MemoryInv
  OBVIOUS
<1>1. added = 0 /\ memories = {}
  BY DEF TM!Init
<1>2. RowsApart
  BY <1>1 DEF RowsApart
<1>3. PromptsApart
  BY <1>1 DEF TM!Init, TM!NoRun, PromptsApart, Frozen
<1>4. CacheApart
  BY <1>1 DEF TM!Init, TM!NoRun, CacheApart, Frozen
<1> QED BY <1>1, <1>2, <1>3, <1>4 DEF MemoryInv

\* The tenant of a session is a tenant.
LEMMA OwnersOwn == \A s \in TM!Runs : Owners[s] \in TM!OwningTenants
BY DEF TM!OwningTenants

\* What a prompt freezes is of the tenant.
LEMMA FrozenOwn ==
  ASSUME MemoryInv, NEW s \in TM!Runs
  PROVE  /\ TM!Frozen(s) \subseteq Frozen
         /\ \A r \in memories : r.note.n \in TM!Frozen(s) => r.tenant = Owners[s]
<1> DEFINE core == {r \in TM!List(s) : r.layer = "core"}
           from == IF core # {} THEN core ELSE TM!List(s)
<1>1. TM!Frozen(s) = {r.note.n : r \in from}
  BY DEF TM!Frozen
<1>2. \A r \in from : r \in memories /\ r.tenant = Owners[s]
  BY DEF TM!List
<1> HIDE DEF from
<1>3. TM!Frozen(s) \subseteq Frozen
  BY <1>1, <1>2 DEF MemoryInv, RowsApart, Frozen
<1>4. ASSUME NEW r \in memories, r.note.n \in TM!Frozen(s) PROVE r.tenant = Owners[s]
  <2>1. PICK q \in from : r.note.n = q.note.n
    BY <1>1, <1>4
  <2> QED BY <2>1, <1>2 DEF MemoryInv, RowsApart
<1> QED BY <1>3, <1>4

\* The step of a tool: the new rows keep apart, and their numbers are those
\* of the old rows of the same tenant, or new.
LEMMA ChangeApart ==
  ASSUME MemoryInv, NEW s \in TM!Runs, NEW new, TM!Change(s, new),
         added' \in {added, added + 1}, new \subseteq Row,
         \A r \in new : Owners[r.note.by] = r.tenant /\ r.note.n \in 1..added',
         \A r \in new : \/ \E q \in memories : r.note.n = q.note.n /\ r.tenant = q.tenant
                        \/ r.note.n = added + 1 /\ r.tenant = Owners[s]
  PROVE  MemoryInv'
<1>1. memories' = new /\ frozenAt' = frozenAt
  BY DEF TM!Change
<1>2. added \in Nat /\ added' \in Nat /\ Frozen \subseteq Frozen' /\ added + 1 \notin Frozen
  BY DEF MemoryInv, Frozen
<1>3. \A r, q \in new : r.note.n = q.note.n => r.tenant = q.tenant
  <2> SUFFICES ASSUME NEW r \in new, NEW q \in new, r.note.n = q.note.n PROVE r.tenant = q.tenant
    OBVIOUS
  <2>1. \A x \in memories : x.note.n # added + 1
    BY <1>2 DEF MemoryInv, RowsApart
  <2> QED BY <2>1 DEF MemoryInv, RowsApart
<1>4. RowsApart'
  BY <1>1, <1>3 DEF RowsApart
<1>5. PromptsApart'
  <2>1. ASSUME NEW t \in TM!Runs, NEW r \in new, r.note.n \in frozenAt[t]
        PROVE  r.tenant = Owners[t]
    <3>1. frozenAt[t] \subseteq Frozen
      BY DEF MemoryInv, PromptsApart
    <3> QED BY <2>1, <3>1, <1>2 DEF MemoryInv, PromptsApart
  <2>2. frozenAt \in [TM!Runs -> SUBSET Frozen']
    BY <1>2 DEF MemoryInv, PromptsApart
  <2> QED BY <1>1, <2>1, <2>2 DEF PromptsApart
<1>6. CacheApart'
  <2> DEFINE o == Owners[s]
  <2>1. o \in TM!OwningTenants /\ frozenKey' = [frozenKey EXCEPT ![o] = TM!NoRun]
    BY OwnersOwn DEF TM!Change
  <2> HIDE DEF o
  <2>2. frozenKey \in [TM!OwningTenants -> SUBSET Frozen] /\ TM!NoRun \subseteq Frozen /\ added + 1 \notin TM!NoRun
    BY <1>2 DEF MemoryInv, CacheApart, TM!NoRun, Frozen
  <2>3. frozenKey' \in [TM!OwningTenants -> SUBSET Frozen']
    BY <1>2, <2>1, <2>2
  <2>4. ASSUME NEW t \in TM!OwningTenants, NEW r \in new, r.note.n \in frozenKey'[t] PROVE r.tenant = t
    <3>1. CASE t = o
      <4>1. r.note.n = -1
        BY <2>1, <2>2, <2>4, <3>1 DEF TM!NoRun
      <4> QED BY <4>1, <1>2
    <3>2. CASE t # o
      <4>1. frozenKey'[t] = frozenKey[t] /\ frozenKey[t] \subseteq Frozen
        BY <2>1, <2>2, <3>2
      <4>2. PICK q \in memories : r.note.n = q.note.n /\ r.tenant = q.tenant
        BY <4>1, <2>4, <1>2
      <4> QED BY <4>1, <4>2, <2>4 DEF MemoryInv, CacheApart
    <3> QED BY <3>1, <3>2
  <2> QED BY <1>1, <2>3, <2>4 DEF CacheApart
<1> QED BY <1>2, <1>4, <1>5, <1>6 DEF MemoryInv

LEMMA NextMemory == MemoryInv /\ [TM!Next]_TM!memoryVars => MemoryInv'
<1> SUFFICES ASSUME MemoryInv, [TM!Next]_TM!memoryVars PROVE MemoryInv'
  OBVIOUS
<1>1. CASE UNCHANGED TM!memoryVars
  BY <1>1 DEF TM!memoryVars, MemoryInv, RowsApart, PromptsApart, CacheApart, Frozen
<1>2. ASSUME NEW s \in TM!Runs, TM!BeginRun(s) PROVE MemoryInv'
  <2> DEFINE held == frozenKey[Owners[s]]
             got == IF held # TM!NoRun THEN held ELSE TM!Frozen(s)
  <2>1. frozenAt' = [frozenAt EXCEPT ![s] = got] /\ UNCHANGED <<memories, added, frozenKey>>
    BY <1>2 DEF TM!BeginRun
  <2>2. Owners[s] \in TM!OwningTenants
    BY OwnersOwn
  <2>3. got \subseteq Frozen /\ \A r \in memories : r.note.n \in got => r.tenant = Owners[s]
    <3>1. CASE held # TM!NoRun
      BY <3>1, <2>2 DEF MemoryInv, CacheApart
    <3>2. CASE held = TM!NoRun
      BY <3>2, FrozenOwn
    <3> QED BY <3>1, <3>2
  <2> HIDE DEF got
  <2>4. PromptsApart'
    BY <2>1, <2>3 DEF MemoryInv, PromptsApart, Frozen
  <2> QED BY <2>1, <2>4 DEF MemoryInv, RowsApart, CacheApart, Frozen
<1>3. ASSUME NEW s \in TM!Runs, TM!Store(s) PROVE MemoryInv'
  <2> DEFINE o == Owners[s]
  <2>1. /\ frozenKey' = [frozenKey EXCEPT ![o] = frozenAt[s]]
        /\ UNCHANGED <<memories, added, frozenAt>> /\ o \in TM!OwningTenants
    BY <1>3, OwnersOwn DEF TM!Store
  <2>2. frozenAt[s] \subseteq Frozen /\ \A r \in memories : r.note.n \in frozenAt[s] => r.tenant = o
    BY DEF MemoryInv, PromptsApart
  <2> HIDE DEF o
  <2>3. CacheApart'
    BY <2>1, <2>2 DEF MemoryInv, CacheApart, Frozen
  <2> QED BY <2>1, <2>3 DEF MemoryInv, RowsApart, PromptsApart, Frozen
<1>4. ASSUME NEW s \in TM!Runs, TM!Expire(s) PROVE MemoryInv'
  <2> DEFINE o == Owners[s]
  <2>1. /\ frozenKey' = [frozenKey EXCEPT ![o] = TM!NoRun]
        /\ UNCHANGED <<memories, added, frozenAt>> /\ o \in TM!OwningTenants
    BY <1>4, OwnersOwn DEF TM!Expire
  <2> HIDE DEF o
  <2>2. TM!NoRun \subseteq Frozen /\ \A r \in memories : r.note.n \notin TM!NoRun
    BY DEF TM!NoRun, Frozen, MemoryInv, RowsApart
  <2>3. CacheApart'
    BY <2>1, <2>2 DEF MemoryInv, CacheApart, Frozen
  <2> QED BY <2>1, <2>3 DEF MemoryInv, RowsApart, PromptsApart, Frozen
<1>5. ASSUME NEW s \in TM!Runs, TM!EndRun(s) PROVE MemoryInv'
  <2>1. frozenAt' = [frozenAt EXCEPT ![s] = TM!NoRun] /\ UNCHANGED <<memories, added, frozenKey>>
    BY <1>5 DEF TM!EndRun
  <2>2. TM!NoRun \subseteq Frozen /\ \A r \in memories : r.note.n \notin TM!NoRun
    BY DEF TM!NoRun, Frozen, MemoryInv, RowsApart
  <2>3. PromptsApart'
    BY <2>1, <2>2 DEF MemoryInv, PromptsApart, Frozen
  <2> QED BY <2>1, <2>3 DEF MemoryInv, RowsApart, CacheApart, Frozen
<1>6. ASSUME NEW s \in TM!Runs, TM!Add(s) PROVE MemoryInv'
  <2>1. PICK mark \in TM!Layers :
          TM!Change(s, memories \cup {[id |-> added + 1, tenant |-> Owners[s], session |-> s,
                                       layer |-> mark, note |-> TM!Note(added + 1, s, mark)]})
    BY <1>6 DEF TM!Add
  <2> DEFINE nu == [id |-> added + 1, tenant |-> Owners[s], session |-> s,
                    layer |-> mark, note |-> TM!Note(added + 1, s, mark)]
  <2>2. added' = added + 1 /\ added \in Nat /\ Owners[s] \in TM!OwningTenants
    BY <1>6, OwnersOwn DEF TM!Add, MemoryInv
  <2>3. nu \in Row /\ nu.note.n = added + 1 /\ nu.note.by = s /\ nu.tenant = Owners[s]
    BY <2>2 DEF Row, Note, TM!Note
  <2> HIDE DEF nu
  <2>4. TM!Change(s, memories \cup {nu})
    BY <2>1 DEF nu
  <2>5. memories \cup {nu} \subseteq Row
    BY <2>3 DEF MemoryInv, RowsApart
  <2>6. \A r \in memories \cup {nu} : Owners[r.note.by] = r.tenant /\ r.note.n \in 1..added'
    BY <2>2, <2>3 DEF MemoryInv, RowsApart
  <2> QED BY <2>2, <2>3, <2>4, <2>5, <2>6, ChangeApart
<1>7. ASSUME NEW s \in TM!Runs, TM!Replace(s) PROVE MemoryInv'
  <2>1. PICK mark \in TM!Layers, old \in {{}, TM!Newest(s)} \cup {{r} : r \in TM!Search(s)} :
          TM!Change(s, (memories \ old) \cup
                       {[r EXCEPT !.note = TM!Note(added + 1, s, mark)] : r \in old})
    BY <1>7 DEF TM!Replace
  <2> DEFINE neu(r) == [r EXCEPT !.note = TM!Note(added + 1, s, mark)]
             new == (memories \ old) \cup {neu(r) : r \in old}
  <2>2. added' = added + 1 /\ added \in Nat
    BY <1>7 DEF TM!Replace, MemoryInv
  <2>3. \A r \in old : r \in memories /\ r.tenant = Owners[s]
    BY <2>1 DEF TM!Newest, TM!Search
  <2>4. \A r \in old : /\ neu(r) \in Row /\ neu(r).note.n = added + 1
                       /\ neu(r).note.by = s /\ neu(r).tenant = Owners[s]
    BY <2>2, <2>3 DEF Row, Note, TM!Note, MemoryInv, RowsApart
  <2> HIDE DEF neu
  <2>5. new \subseteq Row
    BY <2>4 DEF MemoryInv, RowsApart
  <2>6. \A r \in new : Owners[r.note.by] = r.tenant /\ r.note.n \in 1..added'
    BY <2>2, <2>4 DEF MemoryInv, RowsApart
  <2>7. \A r \in new : \/ \E q \in memories : r.note.n = q.note.n /\ r.tenant = q.tenant
                       \/ r.note.n = added + 1 /\ r.tenant = Owners[s]
    BY <2>4
  <2>8. TM!Change(s, new)
    BY <2>1 DEF neu
  <2> HIDE DEF new
  <2> QED BY <2>2, <2>5, <2>6, <2>7, <2>8, ChangeApart
<1>8. ASSUME NEW s \in TM!Runs, TM!Delete(s) PROVE MemoryInv'
  <2>1. PICK q \in memories :
          TM!Change(s, {r \in memories : ~(r.tenant = Owners[s] /\ r.note = q.note)})
    BY <1>8 DEF TM!Delete
  <2> DEFINE new == {r \in memories : ~(r.tenant = Owners[s] /\ r.note = q.note)}
  <2>2. added' = added
    BY <1>8 DEF TM!Delete
  <2>3. \A r \in new : r \in memories
    OBVIOUS
  <2>4. TM!Change(s, new)
    BY <2>1
  <2> HIDE DEF new
  <2>5. new \subseteq Row /\ \A r \in new : Owners[r.note.by] = r.tenant /\ r.note.n \in 1..added'
    BY <2>2, <2>3 DEF MemoryInv, RowsApart
  <2> QED BY <2>2, <2>3, <2>4, <2>5, ChangeApart
<1> QED BY <1>1, <1>2, <1>3, <1>4, <1>5, <1>6, <1>7, <1>8 DEF TM!Next

LEMMA MemoryHolds == MemoryInv => TM!MemoryApart
<1> SUFFICES ASSUME MemoryInv, NEW s \in TM!Runs
             PROVE  /\ \A r \in TM!Search(s) : Owners[r.note.by] = Owners[s]
                    /\ \A r \in memories : r.note.n \in frozenAt[s] => Owners[r.note.by] = Owners[s]
  BY DEF TM!MemoryApart
<1> QED BY DEF MemoryInv, RowsApart, PromptsApart, TM!Search

-----------------------------------------------------------------------------
(* The tables of the tenants *)

Conf == [settings : [TN!Settings -> TN!Values], cap : Int \cup {TN!Cardinality(Sessions)}]
Session == [tenant : Tenants, handle : BOOLEAN, data : SUBSET Tenants]
Ops == {"create", "fork", "read", "import", "remove", "list", "patch", "view", "newTenant",
        "drop", "newKey", "revoke", "cap", "patchAny", "removeAny"}
FirstSteps == {"reserve", "guard", "list", "update", "view", "tenant", "sessions", "key",
               "revoke", "cap", "destroy"}
Steps == FirstSteps \cup {"tree", "persist", "alloc", "hot", "done", "row", "shown", "keys"}
Asked == [op : Ops, tenant : Tenants, sid : Sessions \cup Keys \cup {TN!NoId},
          patch : TN!Patches \cup {TN!NoId}, step : Steps,
          seen : [TN!Settings -> TN!Values], row : Session \cup {TN!NoId},
          new : Sessions \cup {TN!NoId}, told : SUBSET Tenants]

TablesTyped ==
  /\ DOMAIN config \subseteq Tenants /\ \A t \in DOMAIN config : config[t] \in Conf
  /\ DOMAIN keys \subseteq Keys
  /\ \A k \in DOMAIN keys : keys[k] \in [tenant : Tenants, live : BOOLEAN]
  /\ DOMAIN sessions \subseteq born /\ born \subseteq Sessions /\ boxes \subseteq born
  /\ \A s \in DOMAIN sessions : sessions[s] \in Session

AdminTypes == TablesTyped /\ req \in [Callers -> Asked \cup {TN!Idle}]

\* What a request may be when it is admitted.
Started(r) ==
  /\ r \in Asked /\ r.told = {}
  /\ \A k \in TN!Secrets : r.seen[k] # TN!Masked
  /\ r.step \in FirstSteps
  /\ r.step = "destroy" => /\ r.op = "removeAny" /\ r.sid \in DOMAIN sessions
                           /\ r.row = sessions[r.sid]
  /\ r.op \in {"patch", "patchAny"} => r.patch \in TN!Patches
  /\ r.op = "view" => r.step = "view"

\* No mask is stored for a secret.
Unmasked == \A t \in DOMAIN config : \A k \in TN!Secrets : config[t].settings[k] # TN!Masked

LEMMA PlainTyped ==
  /\ TN!Plain \in [TN!Settings -> TN!Values] /\ TN!Secrets \subseteq TN!Settings
  /\ \A k \in TN!Secrets : TN!Plain[k] # TN!Masked
BY DEF TN!Plain, TN!Settings, TN!Values, TN!Secrets, TN!Masked

\* What a request of a tenant that is known begins with.
LEMMA RequestTyped ==
  ASSUME AdminTypes, Unmasked, NEW o \in Ops, NEW t \in Tenants,
         NEW i \in Sessions \cup Keys \cup {TN!NoId},
         NEW c \in TN!Patches \cup {TN!NoId}, NEW e \in FirstSteps
  PROVE  LET r == TN!Request(o, t, i, c, e) IN
         /\ r \in Asked /\ r.told = {} /\ r.op = o /\ r.step = e /\ r.sid = i /\ r.patch = c
         /\ \A k \in TN!Secrets : r.seen[k] # TN!Masked
<1> DEFINE see == IF t \in DOMAIN config THEN config[t].settings ELSE TN!Plain
           r == [op |-> o, tenant |-> t, sid |-> i, patch |-> c, step |-> e, seen |-> see,
                 row |-> TN!NoId, new |-> TN!NoId, told |-> {}]
<1>1. TN!Request(o, t, i, c, e) = r
  BY DEF TN!Request
<1>2. see \in [TN!Settings -> TN!Values]
  BY PlainTyped DEF AdminTypes, TablesTyped, Conf
<1>3. \A k \in TN!Secrets : see[k] # TN!Masked
  BY PlainTyped DEF Unmasked
<1> HIDE DEF see
<1>4. r \in Asked
  BY <1>2 DEF Asked, Steps
<1> QED BY <1>1, <1>3, <1>4

Begins(p) == \E r : TN!Take(p, r) /\ Started(r)

LEMMA RequestBegins ==
  ASSUME AdminTypes, Unmasked, NEW p \in Callers, NEW o \in Ops, NEW t \in Tenants,
         NEW i \in Sessions \cup Keys \cup {TN!NoId},
         NEW c \in TN!Patches \cup {TN!NoId},
         NEW e \in FirstSteps \ {"destroy"},
         o \in {"patch", "patchAny"} => c \in TN!Patches, o = "view" => e = "view"
  PROVE  TN!Take(p, TN!Request(o, t, i, c, e)) => Begins(p)
<1> DEFINE r == TN!Request(o, t, i, c, e)
<1>1. /\ r \in Asked /\ r.told = {} /\ r.op = o /\ r.step = e /\ r.sid = i /\ r.patch = c
      /\ \A k \in TN!Secrets : r.seen[k] # TN!Masked
  BY RequestTyped DEF FirstSteps
<1> HIDE DEF r
<1>2. Started(r)
  BY <1>1 DEF Started
<1>3. TN!Take(p, r) => Begins(p)
  BY <1>2 DEF Begins
<1> QED BY <1>3 DEF r

\* The operator's removal of a session, which the console lists.
LEMMA RemovalBegins ==
  ASSUME AdminTypes, Unmasked, NEW p \in Callers, TN!AdminDeleteSession(p)
  PROVE  Begins(p)
<1>1. PICK s \in DOMAIN sessions :
        TN!Take(p, [TN!Request("removeAny", sessions[s].tenant, s, TN!NoId, "destroy")
                      EXCEPT !.row = sessions[s]])
  BY DEF TN!AdminDeleteSession
<1>2. s \in Sessions /\ sessions[s] \in Session /\ sessions[s].tenant \in Tenants
  BY DEF AdminTypes, TablesTyped, Session
<1>3. PICK t \in Tenants : t = sessions[s].tenant
  BY <1>2
<1> DEFINE a == TN!Request("removeAny", t, s, TN!NoId, "destroy")
           r == [a EXCEPT !.row = sessions[s]]
<1>4. /\ a \in Asked /\ a.told = {} /\ a.op = "removeAny" /\ a.step = "destroy" /\ a.sid = s
      /\ a.patch = TN!NoId /\ \A k \in TN!Secrets : a.seen[k] # TN!Masked
  BY <1>2, RequestTyped DEF Ops, Steps, FirstSteps
<1>5. TN!Take(p, r)
  BY <1>1, <1>3
<1> HIDE DEF a
<1>6. /\ r \in Asked /\ r.told = {} /\ r.op = "removeAny" /\ r.step = "destroy" /\ r.sid = s
      /\ r.row = sessions[s] /\ r.seen = a.seen
  BY <1>2, <1>4 DEF Asked
<1> HIDE DEF r
<1>7. Started(r)
  BY <1>4, <1>6 DEF Started, FirstSteps
<1> QED BY <1>5, <1>7 DEF Begins

LEMMA AsksBegin ==
  ASSUME AdminTypes, Unmasked, NEW p \in Callers, TN!TenantAsks(p) \/ TN!OperatorAsks(p)
  PROVE  Begins(p)
<1>1. TN!Authenticated \subseteq Tenants /\ DOMAIN config \subseteq Tenants
  BY DEF TN!Authenticated, AdminTypes, TablesTyped
<1>2. \A s \in born : s \in Sessions \cup Keys \cup {TN!NoId}
  BY DEF AdminTypes, TablesTyped
<1>3. \A k \in DOMAIN keys : k \in Sessions \cup Keys \cup {TN!NoId} /\ keys[k].tenant \in Tenants
  BY DEF AdminTypes, TablesTyped
<1>4. TN!NoId \in Sessions \cup Keys \cup {TN!NoId} /\ TN!NoId \in TN!Patches \cup {TN!NoId}
  OBVIOUS
<1>5. CASE TN!CreateSession(p)
  <2>1. PICK t \in Tenants : TN!Take(p, TN!Request("create", t, TN!NoId, TN!NoId, "reserve"))
    BY <1>1, <1>3, <1>5 DEF TN!CreateSession
  <2> QED BY <1>2, <1>3, <1>4, <2>1, RequestBegins DEF Ops, FirstSteps
<1>6. CASE TN!Duplicate(p)
  <2>1. PICK t \in Tenants, s \in born : TN!Take(p, TN!Request("fork", t, s, TN!NoId, "guard"))
    BY <1>1, <1>3, <1>6 DEF TN!Duplicate
  <2> QED BY <1>2, <1>3, <1>4, <2>1, RequestBegins DEF Ops, FirstSteps
<1>7. CASE TN!GetSession(p)
  <2>1. PICK t \in Tenants, s \in born : TN!Take(p, TN!Request("read", t, s, TN!NoId, "guard"))
    BY <1>1, <1>3, <1>7 DEF TN!GetSession
  <2> QED BY <1>2, <1>3, <1>4, <2>1, RequestBegins DEF Ops, FirstSteps
<1>8. CASE TN!ImportSession(p)
  <2>1. PICK t \in Tenants, s \in born : TN!Take(p, TN!Request("import", t, s, TN!NoId, "guard"))
    BY <1>1, <1>3, <1>8 DEF TN!ImportSession
  <2> QED BY <1>2, <1>3, <1>4, <2>1, RequestBegins DEF Ops, FirstSteps
<1>9. CASE TN!DeleteSession(p)
  <2>1. PICK t \in Tenants, s \in born : TN!Take(p, TN!Request("remove", t, s, TN!NoId, "guard"))
    BY <1>1, <1>3, <1>9 DEF TN!DeleteSession
  <2> QED BY <1>2, <1>3, <1>4, <2>1, RequestBegins DEF Ops, FirstSteps
<1>10. CASE TN!ListSessions(p)
  <2>1. PICK t \in Tenants : TN!Take(p, TN!Request("list", t, TN!NoId, TN!NoId, "list"))
    BY <1>1, <1>3, <1>10 DEF TN!ListSessions
  <2> QED BY <1>2, <1>3, <1>4, <2>1, RequestBegins DEF Ops, FirstSteps
<1>11. CASE TN!PatchSettings(p)
  <2>1. PICK t \in Tenants, c \in TN!Patches : TN!Take(p, TN!Request("patch", t, TN!NoId, c, "update"))
    BY <1>1, <1>3, <1>11 DEF TN!PatchSettings
  <2> QED BY <1>2, <1>3, <1>4, <2>1, RequestBegins DEF Ops, FirstSteps
<1>12. CASE TN!GetTenant(p)
  <2>1. PICK t \in Tenants : TN!Take(p, TN!Request("view", t, TN!NoId, TN!NoId, "view"))
    BY <1>1, <1>3, <1>12 DEF TN!GetTenant
  <2> QED BY <1>2, <1>3, <1>4, <2>1, RequestBegins DEF Ops, FirstSteps
<1>13. CASE TN!CreateTenant(p)
  <2>1. PICK t \in Tenants : TN!Take(p, TN!Request("newTenant", t, TN!NoId, TN!NoId, "tenant"))
    BY <1>1, <1>3, <1>13 DEF TN!CreateTenant
  <2> QED BY <1>2, <1>3, <1>4, <2>1, RequestBegins DEF Ops, FirstSteps
<1>14. CASE TN!DeleteTenant(p)
  <2>1. PICK t \in Tenants : TN!Take(p, TN!Request("drop", t, TN!NoId, TN!NoId, "sessions"))
    BY <1>1, <1>3, <1>14 DEF TN!DeleteTenant
  <2> QED BY <1>2, <1>3, <1>4, <2>1, RequestBegins DEF Ops, FirstSteps
<1>15. CASE TN!CreateKey(p)
  <2>1. PICK t \in Tenants : TN!Take(p, TN!Request("newKey", t, TN!NoId, TN!NoId, "key"))
    BY <1>1, <1>3, <1>15 DEF TN!CreateKey
  <2> QED BY <1>2, <1>3, <1>4, <2>1, RequestBegins DEF Ops, FirstSteps
<1>16. CASE TN!RevokeKey(p)
  <2>1. PICK t \in Tenants, k \in DOMAIN keys : TN!Take(p, TN!Request("revoke", t, k, TN!NoId, "revoke"))
    BY <1>1, <1>3, <1>16 DEF TN!RevokeKey
  <2> QED BY <1>2, <1>3, <1>4, <2>1, RequestBegins DEF Ops, FirstSteps
<1>17. CASE TN!PatchQuota(p)
  <2>1. PICK t \in Tenants : TN!Take(p, TN!Request("cap", t, TN!NoId, TN!NoId, "cap"))
    BY <1>1, <1>3, <1>17 DEF TN!PatchQuota
  <2> QED BY <1>2, <1>3, <1>4, <2>1, RequestBegins DEF Ops, FirstSteps
<1>18. CASE TN!AdminPatchSettings(p)
  <2>1. PICK t \in Tenants, c \in TN!Patches : TN!Take(p, TN!Request("patchAny", t, TN!NoId, c, "update"))
    BY <1>1, <1>3, <1>18 DEF TN!AdminPatchSettings
  <2> QED BY <1>2, <1>3, <1>4, <2>1, RequestBegins DEF Ops, FirstSteps
<1>19. CASE TN!AdminDeleteSession(p)
  BY <1>19, RemovalBegins
<1> QED BY <1>5, <1>6, <1>7, <1>8, <1>9, <1>10, <1>11, <1>12, <1>13, <1>14, <1>15, <1>16, <1>17, <1>18, <1>19 DEF TN!TenantAsks, TN!OperatorAsks

\* A request that is under way.
LEMMA UnderWay ==
  ASSUME AdminTypes, NEW p \in Callers, req[p].op \in Ops
  PROVE  req[p] \in Asked
BY DEF AdminTypes, TN!Idle, Ops

LEMMA MergeTyped ==
  ASSUME NEW see \in [TN!Settings -> TN!Values], NEW c \in TN!Patches
  PROVE  /\ TN!MergeAllowed(see, c) \in [TN!Settings -> TN!Values]
         /\ \A k \in TN!Secrets : see[k] # TN!Masked => TN!MergeAllowed(see, c)[k] # TN!Masked
<1>1. \A k \in DOMAIN c : c[k] \in TN!Values
  <2>1. CASE c \in (UNION {[K -> {"x"}] : K \in {{"model"}, {"api_key"}}})
    <3>1. PICK K : c \in [K -> {"x"}]
      BY <2>1
    <3> QED BY <3>1 DEF TN!Values
  <2>2. CASE c = [k \in TN!Settings |-> IF k = "model" THEN "y" ELSE TN!Masked]
    BY <2>2 DEF TN!Values
  <2> QED BY <2>1, <2>2 DEF TN!Patches
<1> QED BY <1>1, PlainTyped DEF TN!MergeAllowed

\* A change of one request's record.
LEMMA ReqTyped ==
  ASSUME AdminTypes, NEW p \in Callers, NEW x \in Asked \cup {TN!Idle},
         req' = [req EXCEPT ![p] = x], TablesTyped'
  PROVE  AdminTypes'
BY DEF AdminTypes

LEMMA AnswerTyped ==
  ASSUME AdminTypes, NEW p \in Callers, TN!Answer(p), TablesTyped'
  PROVE  AdminTypes'
BY DEF AdminTypes, TN!Answer

LEMMA GotoTyped ==
  ASSUME AdminTypes, NEW p \in Callers, req[p].op \in Ops, NEW e \in Steps, TN!Goto(p, e), TablesTyped'
  PROVE  AdminTypes'
<1>1. req[p] \in Asked
  BY UnderWay
<1>2. [req[p] EXCEPT !.step = e] \in Asked
  BY <1>1 DEF Asked
<1> QED BY <1>2 DEF AdminTypes, TN!Goto

\* A step that writes no table but changes at most the key of a tenant.
LEMMA TablesSame ==
  ASSUME TablesTyped, UNCHANGED <<config, keys, sessions, born, boxes>>
  PROVE  TablesTyped'
BY DEF TablesTyped

\* A step that changes the rows of the sessions, and their sandboxes.
LEMMA SessionsTyped ==
  ASSUME TablesTyped, UNCHANGED <<config, keys>>, boxes' \subseteq born', born' \subseteq Sessions,
         DOMAIN sessions' \subseteq born', \A s \in DOMAIN sessions' : sessions'[s] \in Session
  PROVE  TablesTyped'
BY DEF TablesTyped

LEMMA TakeTyped ==
  ASSUME AdminTypes, NEW p \in Callers, NEW r, TN!Take(p, r), Started(r)
  PROVE  AdminTypes'
<1>1. TablesTyped'
  BY TablesSame DEF TN!Take, AdminTypes
<1> QED BY <1>1, ReqTyped DEF TN!Take, Started

LEMMA GoesTyped ==
  ASSUME AdminTypes, NEW p \in Callers, TN!Goes(p),
         req[p].op \in {"create", "fork"} /\ req[p].step = "alloc" => req[p].new \in born,
         req[p].op \in {"patch", "patchAny"} => req[p].patch \in TN!Patches
  PROVE  AdminTypes'
<1> DEFINE r == req[p]
<1>0. TablesTyped /\ (r.op \in Ops => r \in Asked)
  BY UnderWay DEF AdminTypes
<1>1. CASE TN!Guard(p)
  <2>1. TablesTyped'
    BY <1>0, <1>1, TablesSame DEF TN!Guard
  <2>2. CASE r.sid \in DOMAIN sessions /\ sessions[r.sid].tenant = r.tenant
    <3> DEFINE e == CASE r.op = "fork" -> "tree" [] r.op = "read" -> "tree"
                      [] r.op = "import" -> "persist" [] OTHER -> "destroy"
               x == [r EXCEPT !.row = sessions[r.sid], !.told = {sessions[r.sid].tenant}, !.step = e]
    <3>1. r \in Asked
      BY <1>0, <1>1 DEF TN!Guard, Ops
    <3>2. sessions[r.sid] \in Session /\ sessions[r.sid].tenant \in Tenants /\ e \in Steps
      BY <1>0, <2>2 DEF TablesTyped, Session, Steps, FirstSteps
    <3>3. req' = [req EXCEPT ![p] = x]
      BY <1>1, <2>2 DEF TN!Guard
    <3> HIDE DEF e
    <3>4. x \in Asked
      BY <3>1, <3>2 DEF Asked
    <3> QED BY <2>1, <3>3, <3>4, ReqTyped
  <2>3. CASE ~(r.sid \in DOMAIN sessions /\ sessions[r.sid].tenant = r.tenant)
    BY <1>1, <2>1, <2>3, AnswerTyped DEF TN!Guard
  <2> QED BY <2>2, <2>3
<1>2. CASE TN!ReadTree(p)
  <2>1. TablesTyped'
    BY <1>0, <1>2, TablesSame DEF TN!ReadTree
  <2>2. CASE r.op = "read" \/ r.sid \notin DOMAIN sessions
    BY <1>2, <2>1, <2>2, AnswerTyped DEF TN!ReadTree
  <2>3. CASE ~(r.op = "read" \/ r.sid \notin DOMAIN sessions)
    <3> DEFINE x == [r EXCEPT !.told = @ \cup sessions[r.sid].data, !.step = "reserve"]
    <3>1. r \in Asked /\ sessions[r.sid].data \subseteq Tenants
      BY <1>0, <1>2, <2>3 DEF TN!ReadTree, Ops, TablesTyped, Session
    <3>2. req' = [req EXCEPT ![p] = x]
      BY <1>2, <2>3 DEF TN!ReadTree
    <3>3. x \in Asked
      BY <3>1 DEF Asked, Steps, FirstSteps
    <3> QED BY <2>1, <3>2, <3>3, ReqTyped
  <2> QED BY <2>2, <2>3
<1>3. CASE TN!Reserve(p)
  <2>1. r \in Asked
    BY <1>0, <1>3 DEF TN!Reserve, Ops
  <2>2. CASE TN!Answer(p) /\ UNCHANGED <<sessions, born>>
    BY <1>0, <1>3, <2>2, TablesSame, AnswerTyped DEF TN!Reserve
  <2>3. CASE \E s \in Sessions \ born :
               /\ born' = born \cup {s}
               /\ sessions' = TN!Put(sessions, s, [tenant |-> r.tenant, handle |-> FALSE, data |-> {}])
               /\ req' = [req EXCEPT ![p].new = s, ![p].step = "alloc"]
    <3>1. PICK s \in Sessions \ born :
               /\ born' = born \cup {s}
               /\ sessions' = TN!Put(sessions, s, [tenant |-> r.tenant, handle |-> FALSE, data |-> {}])
               /\ req' = [req EXCEPT ![p].new = s, ![p].step = "alloc"]
      BY <2>3
    <3> DEFINE x == [r EXCEPT !.new = s, !.step = "alloc"]
    <3>2. x \in Asked
      BY <2>1 DEF Asked, Steps
    <3>3. [tenant |-> r.tenant, handle |-> FALSE, data |-> {}] \in Session
      BY <2>1 DEF Asked, Session
    <3>4. /\ DOMAIN sessions' = DOMAIN sessions \cup {s}
          /\ \A y \in DOMAIN sessions' : sessions'[y] \in Session
      BY <1>0, <3>1, <3>3 DEF TN!Put, TablesTyped
    <3>5. TablesTyped'
      BY <1>0, <1>3, <3>1, <3>4, SessionsTyped DEF TN!Reserve, TablesTyped
    <3>6. req' = [req EXCEPT ![p] = x]
      BY <3>1
    <3> QED BY <3>2, <3>5, <3>6, ReqTyped
  <2> QED BY <1>3, <2>2, <2>3 DEF TN!Reserve
<1>4. CASE TN!Alloc(p)
  <2>1. r \in Asked /\ r.op \in Ops /\ r.new \in Sessions \cup {TN!NoId}
    BY <1>0, <1>4 DEF TN!Alloc, Ops, Asked
  <2>2. CASE boxes' = boxes \cup {r.new} /\ TN!Goto(p, "hot") /\ UNCHANGED sessions
    <3>1. r.new \in born
      BY <1>4 DEF TN!Alloc
    <3>2. TablesTyped'
      BY <1>0, <1>4, <2>2, <3>1, SessionsTyped DEF TN!Alloc, TablesTyped
    <3> QED BY <2>1, <2>2, <3>2, GotoTyped DEF Steps
  <2>3. CASE sessions' = TN!Restrict(sessions, born \ {r.new}) /\ TN!Answer(p) /\ UNCHANGED boxes
    <3>1. TablesTyped'
      BY <1>0, <1>4, <2>3, SessionsTyped DEF TN!Alloc, TablesTyped, TN!Restrict
    <3> QED BY <2>3, <3>1, AnswerTyped
  <2> QED BY <1>4, <2>2, <2>3 DEF TN!Alloc
<1>5. CASE TN!MarkHot(p)
  <2>1. \A s \in DOMAIN sessions : [sessions[s] EXCEPT !.handle = TRUE] \in Session
    BY <1>0 DEF TablesTyped, Session
  <2>2. DOMAIN sessions' = DOMAIN sessions /\ \A s \in DOMAIN sessions' : sessions'[s] \in Session
    BY <1>0, <1>5, <2>1 DEF TN!MarkHot, TablesTyped
  <2>3. TablesTyped'
    BY <1>0, <1>5, <2>2, SessionsTyped DEF TN!MarkHot, TablesTyped
  <2>4. r.op \in Ops /\ "persist" \in Steps /\ "done" \in Steps
    BY <1>5 DEF TN!MarkHot, Ops, Steps
  <2> QED BY <1>5, <2>3, <2>4, GotoTyped DEF TN!MarkHot
<1>6. CASE TN!Persist(p)
  <2> DEFINE s == IF r.op = "fork" THEN r.new ELSE r.sid
             data == IF r.op = "fork" THEN r.told ELSE {r.tenant}
  <2>1. data \subseteq Tenants
    BY <1>0, <1>6 DEF TN!Persist, Ops, Asked
  <2>2. sessions' = IF s \in DOMAIN sessions /\ sessions[s].tenant = r.tenant
                    THEN [sessions EXCEPT ![s].data = data] ELSE sessions
    BY <1>6 DEF TN!Persist
  <2> HIDE DEF s, data
  <2>3. \A y \in DOMAIN sessions : [sessions[y] EXCEPT !.data = data] \in Session
    BY <1>0, <2>1 DEF TablesTyped, Session
  <2>4. DOMAIN sessions' = DOMAIN sessions /\ \A y \in DOMAIN sessions' : sessions'[y] \in Session
    BY <1>0, <2>2, <2>3 DEF TablesTyped
  <2>5. TablesTyped'
    BY <1>0, <1>6, <2>4, SessionsTyped DEF TN!Persist, TablesTyped
  <2> QED BY <1>6, <2>5, AnswerTyped DEF TN!Persist
<1>7. CASE TN!Created(p) \/ TN!Shown(p)
  BY <1>0, <1>7, TablesSame, AnswerTyped DEF TN!Created, TN!Shown
<1>8. CASE TN!Destroy(p)
  <2>1. TablesTyped'
    BY <1>0, <1>8, SessionsTyped DEF TN!Destroy, TablesTyped
  <2>2. TN!Goto(p, "row") /\ r.op \in Ops /\ "row" \in Steps
    BY <1>8 DEF TN!Destroy, TN!Goto, Ops, Steps
  <2> QED BY <2>1, <2>2, GotoTyped
<1>9. CASE TN!DropRow(p)
  <2>1. TablesTyped'
    BY <1>0, <1>9, SessionsTyped DEF TN!DropRow, TablesTyped, TN!Restrict
  <2> QED BY <1>9, <2>1, AnswerTyped DEF TN!DropRow
<1>10. CASE TN!Listed(p)
  <2> DEFINE all == {sessions[s].tenant : s \in {y \in DOMAIN sessions : sessions[y].tenant = r.tenant}}
             x == [r EXCEPT !.step = "shown", !.told = all]
  <2>1. TablesTyped'
    BY <1>0, <1>10, TablesSame DEF TN!Listed
  <2>2. req' = [req EXCEPT ![p] = x]
    BY <1>10 DEF TN!Listed
  <2>3. all \subseteq Tenants /\ r \in Asked
    BY <1>0, <1>10 DEF TN!Listed, Ops, TablesTyped, Session
  <2> HIDE DEF all
  <2>4. x \in Asked
    BY <2>3 DEF Asked, Steps
  <2> QED BY <2>1, <2>2, <2>4, ReqTyped
<1>11. CASE TN!View(p)
  <2>1. TablesTyped'
    BY <1>0, <1>11, TablesSame DEF TN!View
  <2>2. CASE r.tenant \in DOMAIN config
    <3> DEFINE m == TN!MaskSettings(config[r.tenant].settings)
               x == [r EXCEPT !.seen = m, !.step = "shown"]
    <3>1. req' = [req EXCEPT ![p] = x]
      BY <1>11, <2>2 DEF TN!View
    <3>2. r \in Asked
      BY <1>0, <1>11 DEF TN!View, Ops
    <3>3. m \in [TN!Settings -> TN!Values]
      BY <1>0, <2>2 DEF TablesTyped, Conf, TN!MaskSettings, TN!Values
    <3> HIDE DEF m
    <3>4. x \in Asked
      BY <3>2, <3>3 DEF Asked, Steps
    <3> QED BY <2>1, <3>1, <3>4, ReqTyped
  <2>3. CASE r.tenant \notin DOMAIN config
    BY <1>11, <2>1, <2>3, AnswerTyped DEF TN!View
  <2> QED BY <2>2, <2>3
<1>12. CASE TN!Update(p)
  <2> DEFINE merged == TN!MergeAllowed(r.seen, r.patch)
  <2>1. TablesTyped'
    <3>1. CASE r.tenant \in DOMAIN config
      <4>1. config' = [config EXCEPT ![r.tenant].settings = merged]
        BY <1>12, <3>1 DEF TN!Update
      <4>2. merged \in [TN!Settings -> TN!Values]
        BY <1>0, <1>12, MergeTyped DEF TN!Update, Ops, Asked
      <4> HIDE DEF merged
      <4>3. [config[r.tenant] EXCEPT !.settings = merged] \in Conf
        BY <1>0, <3>1, <4>2 DEF TablesTyped, Conf
      <4> QED BY <1>0, <1>12, <3>1, <4>1, <4>3 DEF TN!Update, TablesTyped
    <3>2. CASE r.tenant \notin DOMAIN config
      BY <1>0, <1>12, <3>2, TablesSame DEF TN!Update
    <3> QED BY <3>1, <3>2
  <2> QED BY <1>12, <2>1, AnswerTyped DEF TN!Update
<1>13. CASE TN!PatchCap(p)
  <2>1. TablesTyped'
    <3>1. CASE UNCHANGED config
      BY <1>0, <1>13, <3>1, TablesSame DEF TN!PatchCap
    <3>2. CASE r.tenant \in DOMAIN config /\ config' = [config EXCEPT ![r.tenant].cap = 1]
      <4>1. [config[r.tenant] EXCEPT !.cap = 1] \in Conf
        BY <1>0, <3>2 DEF TablesTyped, Conf
      <4> QED BY <1>0, <1>13, <3>2, <4>1 DEF TN!PatchCap, TablesTyped
    <3> QED BY <1>13, <3>1, <3>2 DEF TN!PatchCap
  <2> QED BY <1>13, <2>1, AnswerTyped DEF TN!PatchCap
<1>14. CASE TN!InsertTenant(p)
  <2>1. CASE r.tenant \in DOMAIN config
    BY <1>0, <1>14, <2>1, TablesSame, AnswerTyped DEF TN!InsertTenant
  <2>2. CASE r.tenant \notin DOMAIN config
    <3> DEFINE x == [r EXCEPT !.op = "newKey", !.step = "key"]
    <3>1. req' = [req EXCEPT ![p] = x]
      BY <1>14, <2>2 DEF TN!InsertTenant
    <3>2. r \in Asked /\ r.tenant \in Tenants
      BY <1>0, <1>14 DEF TN!InsertTenant, Ops, Asked
    <3>3. x \in Asked
      BY <3>2 DEF Asked, Ops, Steps, FirstSteps
    <3>4. [settings |-> TN!Plain, cap |-> 1] \in Conf
      BY PlainTyped DEF Conf
    <3>5. TablesTyped'
      BY <1>0, <1>14, <2>2, <3>2, <3>4 DEF TN!InsertTenant, TN!Put, TablesTyped
    <3> QED BY <3>1, <3>3, <3>5, ReqTyped
  <2> QED BY <2>1, <2>2
<1>15. CASE TN!InsertKey(p)
  <2>1. r.tenant \in Tenants
    BY <1>0, <1>15 DEF TN!InsertKey, Ops, Asked
  <2>2. CASE UNCHANGED keys
    BY <1>0, <1>15, <2>2, TablesSame, AnswerTyped DEF TN!InsertKey
  <2>3. CASE \E k \in Keys \ DOMAIN keys :
               keys' = TN!Put(keys, k, [tenant |-> r.tenant, live |-> TRUE])
    <3>1. PICK k \in Keys \ DOMAIN keys :
            keys' = TN!Put(keys, k, [tenant |-> r.tenant, live |-> TRUE])
      BY <2>3
    <3>2. /\ DOMAIN keys' = DOMAIN keys \cup {k}
          /\ \A y \in DOMAIN keys' : keys'[y] \in [tenant : Tenants, live : BOOLEAN]
      BY <1>0, <2>1, <3>1 DEF TN!Put, TablesTyped
    <3>3. TablesTyped'
      BY <1>0, <1>15, <3>2 DEF TN!InsertKey, TablesTyped
    <3> QED BY <1>15, <3>3, AnswerTyped DEF TN!InsertKey
  <2> QED BY <1>15, <2>2, <2>3 DEF TN!InsertKey
<1>16. CASE TN!Revoke(p)
  <2>1. TablesTyped'
    BY <1>0, <1>16 DEF TN!Revoke, TablesTyped
  <2> QED BY <1>16, <2>1, AnswerTyped DEF TN!Revoke
<1>17. CASE TN!DropSessions(p)
  <2>1. TablesTyped'
    BY <1>0, <1>17, SessionsTyped DEF TN!DropSessions, TablesTyped, TN!Restrict
  <2>2. r.op \in Ops /\ "keys" \in Steps
    BY <1>17 DEF TN!DropSessions, Ops, Steps
  <2> QED BY <1>17, <2>1, <2>2, GotoTyped DEF TN!DropSessions
<1>18. CASE TN!RevokeAll(p)
  <2>1. TablesTyped'
    BY <1>0, <1>18 DEF TN!RevokeAll, TablesTyped
  <2>2. r.op \in Ops /\ "tenant" \in Steps
    BY <1>18 DEF TN!RevokeAll, Ops, Steps, FirstSteps
  <2> QED BY <1>18, <2>1, <2>2, GotoTyped DEF TN!RevokeAll
<1>19. CASE TN!DropTenant(p)
  <2>1. TablesTyped'
    BY <1>0, <1>19 DEF TN!DropTenant, TablesTyped, TN!Restrict
  <2> QED BY <1>19, <2>1, AnswerTyped DEF TN!DropTenant
<1> QED BY <1>1, <1>2, <1>3, <1>4, <1>5, <1>6, <1>7, <1>8, <1>9, <1>10, <1>11, <1>12, <1>13,
           <1>14, <1>15, <1>16, <1>17, <1>18, <1>19 DEF TN!Goes

\* The settings a request holds: a patch knows the secrets, a view does not.
Fit(r) ==
  /\ r.op \in {"patch", "patchAny"} => /\ r.patch \in TN!Patches
                                       /\ \A k \in TN!Secrets : r.seen[k] # TN!Masked
  /\ r.op = "view" /\ r.step = "shown" => \A k \in TN!Secrets : r.seen[k] \in {"none", TN!Masked}

SettingsInv ==
  /\ Unmasked /\ DOMAIN promised = DOMAIN config /\ TN!PatchesKept
  /\ \A p \in Callers : Fit(req[p])

\* A step is one request's.
LEMMA GoesAlone ==
  ASSUME AdminTypes, NEW p \in Callers, NEW q \in Callers \ {p}, TN!Goes(p)
  PROVE  req'[q] = req[q]
<1>1. req \in [Callers -> Asked \cup {TN!Idle}]
  BY DEF AdminTypes
<1>2. CASE TN!Guard(p) \/ TN!ReadTree(p) \/ TN!Reserve(p) \/ TN!Alloc(p) \/ TN!MarkHot(p) \/ TN!Persist(p)
  BY <1>1, <1>2 DEF TN!Guard, TN!ReadTree, TN!Reserve, TN!Alloc, TN!MarkHot, TN!Persist, TN!Answer, TN!Goto
<1>3. CASE TN!Created(p) \/ TN!Destroy(p) \/ TN!DropRow(p) \/ TN!Listed(p) \/ TN!View(p) \/ TN!Shown(p)
  BY <1>1, <1>3 DEF TN!Created, TN!Destroy, TN!DropRow, TN!Listed, TN!View, TN!Shown, TN!Answer
<1>4. CASE TN!Update(p) \/ TN!PatchCap(p) \/ TN!InsertTenant(p) \/ TN!InsertKey(p) \/ TN!Revoke(p)
  BY <1>1, <1>4 DEF TN!Update, TN!PatchCap, TN!InsertTenant, TN!InsertKey, TN!Revoke, TN!Answer
<1>5. CASE TN!DropSessions(p) \/ TN!RevokeAll(p) \/ TN!DropTenant(p)
  BY <1>1, <1>5 DEF TN!DropSessions, TN!RevokeAll, TN!DropTenant, TN!Goto, TN!Answer
<1> QED BY <1>2, <1>3, <1>4, <1>5 DEF TN!Goes

\* Of the steps, only those of four handlers write the settings of a tenant.
LEMMA GoesFit ==
  ASSUME AdminTypes, SettingsInv, NEW p \in Callers, TN!Goes(p)
  PROVE  \A q \in Callers : Fit(req'[q])
<1> DEFINE r == req[p]
<1>1. req \in [Callers -> Asked \cup {TN!Idle}] /\ Fit(r) /\ (r.op \in Ops => r \in Asked)
  BY UnderWay DEF AdminTypes, SettingsInv
<1>2. \A q \in Callers \ {p} : Fit(req'[q])
  BY GoesAlone DEF SettingsInv
<1>3. Fit(req'[p])
  <2>1. CASE TN!Answer(p)
    BY <1>1, <2>1 DEF TN!Answer, TN!Idle, Fit
  <2>2. CASE TN!Guard(p) /\ ~TN!Answer(p)
    <3>1. req'[p].op = r.op /\ r.op \in {"fork", "read", "import", "remove"}
      BY <1>1, <2>2 DEF TN!Guard, Ops, Asked
    <3> QED BY <3>1 DEF Fit
  <2>3. CASE TN!ReadTree(p) /\ ~TN!Answer(p)
    <3>1. req'[p].op = r.op /\ r.op \in {"fork", "read"}
      BY <1>1, <2>3 DEF TN!ReadTree, Ops, Asked
    <3> QED BY <3>1 DEF Fit
  <2>4. CASE (TN!Reserve(p) \/ TN!Alloc(p) \/ TN!MarkHot(p)) /\ ~TN!Answer(p)
    <3>1. r.op \in {"fork", "create"} /\ r \in Asked
      BY <1>1, <2>4 DEF TN!Reserve, TN!Alloc, TN!MarkHot, Ops
    <3>2. CASE TN!Reserve(p)
      <4>1. PICK s : req' = [req EXCEPT ![p].new = s, ![p].step = "alloc"]
        BY <2>4, <3>2 DEF TN!Reserve
      <4> QED BY <1>1, <3>1, <4>1 DEF Asked, Fit
    <3>3. CASE TN!Alloc(p)
      BY <1>1, <2>4, <3>1, <3>3 DEF TN!Alloc, TN!Goto, Asked, Fit
    <3>4. CASE TN!MarkHot(p)
      BY <1>1, <2>4, <3>1, <3>4 DEF TN!MarkHot, TN!Goto, Asked, Fit
    <3> QED BY <2>4, <3>2, <3>3, <3>4
  <2>5. CASE TN!Destroy(p)
    <3>1. req'[p].op = r.op /\ r.op \in {"remove", "removeAny"}
      BY <1>1, <2>5 DEF TN!Destroy, Ops, Asked
    <3> QED BY <3>1 DEF Fit
  <2>6. CASE TN!Listed(p)
    <3>1. req'[p].op = r.op /\ r.op = "list"
      BY <1>1, <2>6 DEF TN!Listed, Ops, Asked
    <3> QED BY <3>1 DEF Fit
  <2>7. CASE TN!View(p) /\ ~TN!Answer(p)
    <3> DEFINE m == TN!MaskSettings(config[r.tenant].settings)
    <3>1. req'[p].op = "view" /\ req'[p].seen = m
      BY <1>1, <2>7 DEF TN!View, Ops, Asked
    <3>2. \A k \in TN!Secrets : m[k] \in {"none", TN!Masked}
      BY PlainTyped DEF TN!MaskSettings
    <3> QED BY <3>1, <3>2 DEF Fit
  <2>8. CASE TN!InsertTenant(p) /\ ~TN!Answer(p)
    <3>1. req'[p].op = "newKey"
      BY <1>1, <2>8 DEF TN!InsertTenant, Ops, Asked
    <3> QED BY <3>1 DEF Fit
  <2>9. CASE TN!DropSessions(p) \/ TN!RevokeAll(p)
    <3>1. req'[p].op = r.op /\ r.op = "drop"
      BY <1>1, <2>9 DEF TN!DropSessions, TN!RevokeAll, TN!Goto, Ops, Asked
    <3> QED BY <3>1 DEF Fit
  <2>10. \/ TN!Answer(p) \/ TN!Guard(p) \/ TN!ReadTree(p) \/ TN!Reserve(p) \/ TN!Alloc(p) \/ TN!MarkHot(p)
         \/ TN!Destroy(p) \/ TN!Listed(p) \/ TN!View(p) \/ TN!InsertTenant(p)
         \/ TN!DropSessions(p) \/ TN!RevokeAll(p)
    BY DEF TN!Goes, TN!Persist, TN!Created, TN!DropRow, TN!Shown, TN!Update, TN!PatchCap, TN!InsertKey,
           TN!Revoke, TN!DropTenant
  <2> QED BY <2>1, <2>2, <2>3, <2>4, <2>5, <2>6, <2>7, <2>8, <2>9, <2>10
<1> QED BY <1>2, <1>3

SettingsOnly == Unmasked /\ DOMAIN promised = DOMAIN config /\ TN!PatchesKept

LEMMA GoesSettings ==
  ASSUME AdminTypes, SettingsInv, NEW p \in Callers, TN!Goes(p)
  PROVE  SettingsOnly'
<1> DEFINE r == req[p]
<1>1. /\ Unmasked /\ DOMAIN promised = DOMAIN config /\ TN!PatchesKept /\ Fit(r)
      /\ (r.op \in Ops => r \in Asked) /\ \A t \in DOMAIN config : config[t] \in Conf
  BY UnderWay DEF AdminTypes, TablesTyped, SettingsInv
<1>2. CASE UNCHANGED <<config, promised, overlapped>>
  BY <1>1, <1>2 DEF SettingsOnly, Unmasked, TN!PatchesKept
<1>3. CASE TN!Update(p) /\ r.tenant \in DOMAIN config
  <2> DEFINE merged == TN!MergeAllowed(r.seen, r.patch)
             kept == TN!MergeAllowed(promised[r.tenant], r.patch)
  <2>1. \A k \in TN!Secrets : merged[k] # TN!Masked
    BY <1>1, <1>3, MergeTyped DEF Fit, TN!Update, Ops, Asked
  <2>2. /\ config' = [config EXCEPT ![r.tenant].settings = merged]
        /\ promised' = [promised EXCEPT ![r.tenant] = kept]
        /\ overlapped' = IF config[r.tenant].settings # r.seen
                         THEN overlapped \cup {r.tenant} ELSE overlapped
    BY <1>3 DEF TN!Update
  <2>3. ~(r.tenant \in overlapped') => merged = kept
    BY <1>1, <1>3, <2>2 DEF TN!PatchesKept
  <2> HIDE DEF merged, kept
  <2>4. \A t \in DOMAIN config : config'[t].settings = IF t = r.tenant THEN merged ELSE config[t].settings
    BY <1>1, <2>2 DEF Conf
  <2>5. /\ DOMAIN config' = DOMAIN config /\ DOMAIN promised' = DOMAIN promised
        /\ \A t \in DOMAIN config : promised'[t] = IF t = r.tenant THEN kept ELSE promised[t]
        /\ overlapped \subseteq overlapped'
    BY <1>1, <2>2
  <2>6. Unmasked'
    BY <1>1, <2>1, <2>4, <2>5 DEF Unmasked
  <2>7. TN!PatchesKept'
    BY <1>1, <2>3, <2>4, <2>5 DEF TN!PatchesKept
  <2> QED BY <1>1, <2>5, <2>6, <2>7 DEF SettingsOnly
<1>4. CASE TN!PatchCap(p) /\ ~UNCHANGED config
  <2>1. config' = [config EXCEPT ![r.tenant].cap = 1] /\ UNCHANGED <<promised, overlapped>>
    BY <1>4 DEF TN!PatchCap
  <2>2. DOMAIN config' = DOMAIN config /\ \A t \in DOMAIN config : config'[t].settings = config[t].settings
    BY <1>1, <2>1 DEF Conf
  <2> QED BY <1>1, <2>1, <2>2 DEF SettingsOnly, Unmasked, TN!PatchesKept
<1>5. CASE TN!InsertTenant(p) /\ ~UNCHANGED config
  <2> DEFINE row == [settings |-> TN!Plain, cap |-> 1]
  <2>1. /\ config' = TN!Put(config, r.tenant, row) /\ promised' = TN!Put(promised, r.tenant, TN!Plain)
        /\ overlapped' = overlapped
    BY <1>5 DEF TN!InsertTenant
  <2>2. row.settings = TN!Plain
    OBVIOUS
  <2> HIDE DEF row
  <2>3. /\ DOMAIN config' = DOMAIN config \cup {r.tenant} /\ DOMAIN promised' = DOMAIN config'
        /\ \A t \in DOMAIN config' : /\ config'[t] = IF t = r.tenant THEN row ELSE config[t]
                                     /\ promised'[t] = IF t = r.tenant THEN TN!Plain ELSE promised[t]
    BY <1>1, <2>1 DEF TN!Put
  <2>4. Unmasked'
    BY <1>1, <2>2, <2>3, PlainTyped DEF Unmasked
  <2>5. TN!PatchesKept'
    BY <1>1, <2>1, <2>2, <2>3 DEF TN!PatchesKept
  <2> QED BY <2>3, <2>4, <2>5 DEF SettingsOnly
<1>6. CASE TN!DropTenant(p)
  <2>1. /\ DOMAIN config' = DOMAIN promised' /\ DOMAIN config' \subseteq DOMAIN config
        /\ \A t \in DOMAIN config' : config'[t] = config[t] /\ promised'[t] = promised[t]
        /\ overlapped' = overlapped
    BY <1>1, <1>6 DEF TN!DropTenant, TN!Restrict
  <2>2. Unmasked' /\ TN!PatchesKept'
    BY <1>1, <2>1 DEF Unmasked, TN!PatchesKept
  <2> QED BY <2>1, <2>2 DEF SettingsOnly
<1>7. \/ UNCHANGED <<config, promised, overlapped>>
      \/ TN!Update(p) /\ r.tenant \in DOMAIN config
      \/ TN!PatchCap(p) /\ ~UNCHANGED config
      \/ TN!InsertTenant(p) /\ ~UNCHANGED config
      \/ TN!DropTenant(p)
  <2>1. CASE TN!Guard(p) \/ TN!ReadTree(p) \/ TN!Reserve(p) \/ TN!Alloc(p) \/ TN!MarkHot(p) \/ TN!Persist(p)
    BY <2>1 DEF TN!Guard, TN!ReadTree, TN!Reserve, TN!Alloc, TN!MarkHot, TN!Persist
  <2>2. CASE TN!Created(p) \/ TN!Destroy(p) \/ TN!DropRow(p) \/ TN!Listed(p) \/ TN!View(p) \/ TN!Shown(p)
    BY <2>2 DEF TN!Created, TN!Destroy, TN!DropRow, TN!Listed, TN!View, TN!Shown
  <2>3. CASE TN!InsertKey(p) \/ TN!Revoke(p) \/ TN!DropSessions(p) \/ TN!RevokeAll(p) \/ TN!DropTenant(p)
    BY <2>3 DEF TN!InsertKey, TN!Revoke, TN!DropSessions, TN!RevokeAll
  <2>4. CASE TN!Update(p)
    BY <2>4 DEF TN!Update
  <2>5. CASE TN!PatchCap(p)
    BY <2>5 DEF TN!PatchCap
  <2>6. CASE TN!InsertTenant(p)
    BY <1>1, <2>6 DEF TN!InsertTenant, TN!Put
  <2> QED BY <2>1, <2>2, <2>3, <2>4, <2>5, <2>6 DEF TN!Goes
<1> QED BY <1>2, <1>3, <1>4, <1>5, <1>6, <1>7

\* What a request was told, and the session it copies, are of its tenant.
Own(r) ==
  /\ r.op \in {"create", "fork", "read", "import", "remove", "list"} => r.told \subseteq {r.tenant}
  /\ r.op \in {"fork", "read"} /\ r.step = "tree"
     => r.sid \in born /\ (r.sid \in DOMAIN sessions => sessions[r.sid].tenant = r.tenant)

RowsOwn == \A s \in DOMAIN sessions : sessions[s].data \subseteq {sessions[s].tenant}

OwnInv == RowsOwn /\ \A p \in Callers : Own(req[p])

\* An id is given out once, and its row does not change its tenant.
RowsStay ==
  /\ born \subseteq born'
  /\ \A s \in DOMAIN sessions' : \/ s \in DOMAIN sessions /\ sessions'[s].tenant = sessions[s].tenant
                                 \/ s \notin born

LEMMA GoesStay ==
  ASSUME AdminTypes, NEW p \in Callers, TN!Goes(p)
  PROVE  RowsStay
<1> DEFINE r == req[p]
<1>1. DOMAIN sessions \subseteq born /\ \A s \in DOMAIN sessions : sessions[s] \in Session
  BY DEF AdminTypes, TablesTyped
<1>2. CASE UNCHANGED <<sessions, born>>
  BY <1>1, <1>2 DEF RowsStay
<1>3. CASE TN!Reserve(p) /\ ~UNCHANGED <<sessions, born>>
  <2>1. PICK s \in Sessions \ born :
             /\ born' = born \cup {s}
             /\ sessions' = TN!Put(sessions, s, [tenant |-> r.tenant, handle |-> FALSE, data |-> {}])
    BY <1>3 DEF TN!Reserve
  <2> QED BY <1>1, <2>1 DEF TN!Put, RowsStay
<1>4. CASE TN!Alloc(p) \/ TN!DropRow(p) \/ TN!DropSessions(p) \/ TN!DropTenant(p)
  BY <1>1, <1>4 DEF TN!Alloc, TN!DropRow, TN!DropSessions, TN!DropTenant, TN!Restrict, RowsStay
<1>5. CASE TN!MarkHot(p)
  <2>1. \A s \in DOMAIN sessions : [sessions[s] EXCEPT !.handle = TRUE].tenant = sessions[s].tenant
    BY <1>1 DEF Session
  <2> QED BY <1>1, <1>5, <2>1 DEF TN!MarkHot, RowsStay
<1>6. CASE TN!Persist(p)
  <2>1. \A s \in DOMAIN sessions : \A d : [sessions[s] EXCEPT !.data = d].tenant = sessions[s].tenant
    BY <1>1 DEF Session
  <2>2. PICK s, d : sessions' = sessions \/ sessions' = [sessions EXCEPT ![s].data = d]
    BY <1>6 DEF TN!Persist
  <2> QED BY <1>1, <1>6, <2>1, <2>2 DEF TN!Persist, RowsStay
<1>7. \/ UNCHANGED <<sessions, born>> \/ TN!Reserve(p) \/ TN!Alloc(p) \/ TN!DropRow(p)
      \/ TN!DropSessions(p) \/ TN!DropTenant(p) \/ TN!MarkHot(p) \/ TN!Persist(p)
  BY DEF TN!Goes, TN!Guard, TN!ReadTree, TN!Created, TN!Destroy, TN!Listed, TN!View, TN!Shown, TN!Update,
         TN!PatchCap, TN!InsertTenant, TN!InsertKey, TN!Revoke, TN!RevokeAll
<1> QED BY <1>2, <1>3, <1>4, <1>5, <1>6, <1>7

LEMMA OwnStays ==
  ASSUME AdminTypes, OwnInv, NEW q \in Callers, RowsStay, req'[q] = req[q]
  PROVE  Own(req[q])'
BY DEF OwnInv, Own, RowsStay

LEMMA GoesOwn ==
  ASSUME AdminTypes, OwnInv, NEW p \in Callers, TN!Goes(p)
  PROVE  \A q \in Callers : Own(req[q])'
<1> DEFINE r == req[p]
<1>1. /\ req \in [Callers -> Asked \cup {TN!Idle}] /\ Own(r) /\ RowsOwn
      /\ (r.op \in Ops => r \in Asked) /\ DOMAIN sessions \subseteq born
  BY UnderWay DEF AdminTypes, TablesTyped, OwnInv
<1>2. \A q \in Callers \ {p} : Own(req[q])'
  BY GoesAlone, GoesStay, OwnStays
<1>3. Own(req[p])'
  <2>1. CASE TN!Answer(p)
    BY <1>1, <2>1 DEF TN!Answer, TN!Idle, Own
  <2>2. CASE TN!Guard(p) /\ ~TN!Answer(p)
    <3>1. r \in Asked
      BY <1>1, <2>2 DEF TN!Guard, Ops
    <3>2. /\ r.sid \in DOMAIN sessions /\ sessions[r.sid].tenant = r.tenant
          /\ UNCHANGED <<sessions, born>>
          /\ req' = [req EXCEPT ![p].row = sessions[r.sid], ![p].told = {sessions[r.sid].tenant},
                                ![p].step = CASE r.op = "fork" -> "tree" [] r.op = "read" -> "tree"
                                              [] r.op = "import" -> "persist" [] OTHER -> "destroy"]
      BY <2>2 DEF TN!Guard
    <3>3. req'[p].told = {r.tenant} /\ req'[p].tenant = r.tenant /\ req'[p].sid = r.sid
      BY <1>1, <3>1, <3>2 DEF Asked
    <3> QED BY <1>1, <3>2, <3>3 DEF Own
  <2>3. CASE TN!ReadTree(p) /\ ~TN!Answer(p)
    <3>1. r \in Asked /\ r.op = "fork" /\ r.sid \in DOMAIN sessions
      BY <1>1, <2>3 DEF TN!ReadTree, Ops
    <3>2. /\ sessions[r.sid].data \subseteq {r.tenant} /\ r.told \subseteq {r.tenant}
      BY <1>1, <2>3, <3>1 DEF TN!ReadTree, Own, RowsOwn
    <3>3. req' = [req EXCEPT ![p].told = @ \cup sessions[r.sid].data, ![p].step = "reserve"]
      BY <2>3 DEF TN!ReadTree
    <3>4. req'[p].told \subseteq {r.tenant} /\ req'[p].tenant = r.tenant /\ req'[p].step = "reserve"
      BY <1>1, <3>1, <3>2, <3>3 DEF Asked
    <3> QED BY <3>4 DEF Own
  <2>4. CASE (TN!Reserve(p) \/ TN!Alloc(p) \/ TN!MarkHot(p)) /\ ~TN!Answer(p)
    <3>1. r.op \in {"fork", "create"} /\ r \in Asked /\ r.told \subseteq {r.tenant}
      BY <1>1, <2>4 DEF TN!Reserve, TN!Alloc, TN!MarkHot, Ops, Own
    <3>2. req'[p].told = r.told /\ req'[p].tenant = r.tenant /\ req'[p].step # "tree"
      <4>1. CASE TN!Reserve(p)
        <5>1. PICK s : req' = [req EXCEPT ![p].new = s, ![p].step = "alloc"]
          BY <2>4, <4>1 DEF TN!Reserve
        <5> QED BY <1>1, <3>1, <5>1 DEF Asked
      <4>2. CASE TN!Alloc(p)
        BY <1>1, <2>4, <3>1, <4>2 DEF TN!Alloc, TN!Goto, Asked
      <4>3. CASE TN!MarkHot(p)
        BY <1>1, <2>4, <3>1, <4>3 DEF TN!MarkHot, TN!Goto, Asked
      <4> QED BY <2>4, <4>1, <4>2, <4>3
    <3> QED BY <3>1, <3>2 DEF Own
  <2>5. CASE TN!Destroy(p)
    <3>1. r \in Asked /\ r.op \in {"remove", "removeAny"} /\ req' = [req EXCEPT ![p].step = "row"]
      BY <1>1, <2>5 DEF TN!Destroy, Ops
    <3>2. /\ req'[p].op = r.op /\ req'[p].step = "row" /\ req'[p].told = r.told
          /\ req'[p].tenant = r.tenant
      BY <1>1, <3>1 DEF Asked
    <3> QED BY <1>1, <3>1, <3>2 DEF Own
  <2>6. CASE TN!Listed(p)
    <3> DEFINE all == {sessions[s].tenant : s \in {y \in DOMAIN sessions : sessions[y].tenant = r.tenant}}
    <3>1. all \subseteq {r.tenant}
      OBVIOUS
    <3>2. r \in Asked /\ req' = [req EXCEPT ![p].step = "shown", ![p].told = all]
      BY <1>1, <2>6 DEF TN!Listed, Ops
    <3> HIDE DEF all
    <3>3. req'[p].told = all /\ req'[p].tenant = r.tenant /\ req'[p].step = "shown"
      BY <1>1, <3>2 DEF Asked
    <3> QED BY <3>1, <3>3 DEF Own
  <2>7. CASE TN!View(p) /\ ~TN!Answer(p)
    <3>1. req'[p].op = "view"
      BY <1>1, <2>7 DEF TN!View, Ops, Asked
    <3> QED BY <3>1 DEF Own
  <2>8. CASE TN!InsertTenant(p) /\ ~TN!Answer(p)
    <3>1. req'[p].op = "newKey"
      BY <1>1, <2>8 DEF TN!InsertTenant, Ops, Asked
    <3> QED BY <3>1 DEF Own
  <2>9. CASE TN!DropSessions(p) \/ TN!RevokeAll(p)
    <3>1. req'[p].op = r.op /\ r.op = "drop"
      BY <1>1, <2>9 DEF TN!DropSessions, TN!RevokeAll, TN!Goto, Ops, Asked
    <3> QED BY <3>1 DEF Own
  <2>10. \/ TN!Answer(p) \/ TN!Guard(p) \/ TN!ReadTree(p) \/ TN!Reserve(p) \/ TN!Alloc(p) \/ TN!MarkHot(p)
         \/ TN!Destroy(p) \/ TN!Listed(p) \/ TN!View(p) \/ TN!InsertTenant(p)
         \/ TN!DropSessions(p) \/ TN!RevokeAll(p)
    BY DEF TN!Goes, TN!Persist, TN!Created, TN!DropRow, TN!Shown, TN!Update, TN!PatchCap, TN!InsertKey,
           TN!Revoke, TN!DropTenant
  <2> QED BY <2>1, <2>2, <2>3, <2>4, <2>5, <2>6, <2>7, <2>8, <2>9, <2>10
<1> QED BY <1>2, <1>3

LEMMA GoesRows ==
  ASSUME AdminTypes, OwnInv, NEW p \in Callers, TN!Goes(p)
  PROVE  RowsOwn'
<1> DEFINE r == req[p]
<1>1. /\ Own(r) /\ RowsOwn /\ (r.op \in Ops => r \in Asked)
      /\ \A s \in DOMAIN sessions : sessions[s] \in Session
  BY UnderWay DEF AdminTypes, TablesTyped, OwnInv
<1>2. CASE UNCHANGED sessions
  BY <1>1, <1>2 DEF RowsOwn
<1>3. CASE TN!Reserve(p) /\ ~UNCHANGED sessions
  <2> DEFINE row == [tenant |-> r.tenant, handle |-> FALSE, data |-> {}]
  <2>1. PICK s : sessions' = TN!Put(sessions, s, row)
    BY <1>3 DEF TN!Reserve
  <2>2. row.data = {}
    OBVIOUS
  <2> HIDE DEF row
  <2> QED BY <1>1, <2>1, <2>2 DEF TN!Put, RowsOwn
<1>4. CASE TN!Alloc(p) \/ TN!DropRow(p) \/ TN!DropSessions(p) \/ TN!DropTenant(p)
  BY <1>1, <1>4 DEF TN!Alloc, TN!DropRow, TN!DropSessions, TN!DropTenant, TN!Restrict, RowsOwn
<1>5. CASE TN!MarkHot(p)
  <2>1. \A s \in DOMAIN sessions : /\ [sessions[s] EXCEPT !.handle = TRUE].tenant = sessions[s].tenant
                                   /\ [sessions[s] EXCEPT !.handle = TRUE].data = sessions[s].data
    BY <1>1 DEF Session
  <2> QED BY <1>1, <1>5, <2>1 DEF TN!MarkHot, RowsOwn
<1>6. CASE TN!Persist(p)
  <2> DEFINE s == IF r.op = "fork" THEN r.new ELSE r.sid
             data == IF r.op = "fork" THEN r.told ELSE {r.tenant}
  <2>1. data \subseteq {r.tenant}
    BY <1>1, <1>6 DEF TN!Persist, Own
  <2>2. sessions' = IF s \in DOMAIN sessions /\ sessions[s].tenant = r.tenant
                    THEN [sessions EXCEPT ![s].data = data] ELSE sessions
    BY <1>6 DEF TN!Persist
  <2> HIDE DEF s, data
  <2>3. \A y \in DOMAIN sessions : /\ [sessions[y] EXCEPT !.data = data].tenant = sessions[y].tenant
                                   /\ [sessions[y] EXCEPT !.data = data].data = data
    BY <1>1 DEF Session
  <2> QED BY <1>1, <2>1, <2>2, <2>3 DEF RowsOwn
<1>7. \/ UNCHANGED sessions \/ TN!Reserve(p) \/ TN!Alloc(p) \/ TN!DropRow(p)
      \/ TN!DropSessions(p) \/ TN!DropTenant(p) \/ TN!MarkHot(p) \/ TN!Persist(p)
  BY DEF TN!Goes, TN!Guard, TN!ReadTree, TN!Created, TN!Destroy, TN!Listed, TN!View, TN!Shown, TN!Update,
         TN!PatchCap, TN!InsertTenant, TN!InsertKey, TN!Revoke, TN!RevokeAll
<1> QED BY <1>2, <1>3, <1>4, <1>5, <1>6, <1>7

\* A request that creates a session, with the row inserted and not yet hot.
Creating(q) == req[q].op \in {"create", "fork"} /\ req[q].step \in {"alloc", "hot"}

\* What holds of the session that is being created: no other request creates
\* it, and its row, if it is not gone, names no sandbox yet.
CreatingOk(q) ==
  Creating(q) => /\ req[q].new \in born
                 /\ req[q].new \in DOMAIN sessions \/ req[q].new \in crossed
                 /\ req[q].new \in DOMAIN sessions => ~sessions[req[q].new].handle
                 /\ req[q].step = "alloc" => req[q].new \notin boxes

OneCreates == \A q, t \in Callers : Creating(q) /\ Creating(t) /\ req[q].new = req[t].new => q = t

\* What a removal knows of its session: a row that was read with a sandbox is
\* of a session that was created, and after the sandbox only a session that
\* was being created can still have one.
RemovingOk(q) ==
  req[q].op \in {"remove", "removeAny"} =>
    /\ req[q].step = "destroy" => /\ req[q].sid \in born
                                  /\ req[q].row.handle => ~TN!InCreation(req[q].sid)
    /\ req[q].step = "row" => /\ req[q].sid \in born
                              /\ req[q].sid \in boxes \/ TN!InCreation(req[q].sid) => req[q].sid \in crossed

BoxesInv ==
  /\ \A q \in Callers : CreatingOk(q) /\ RemovingOk(q)
  /\ OneCreates /\ TN!BoxesNamed

LEMMA InCreationIs ==
  ASSUME NEW s
  PROVE  /\ TN!InCreation(s) <=> \E q \in Callers : Creating(q) /\ req[q].new = s
         /\ TN!InCreation(s)' <=> \E q \in Callers : Creating(q)' /\ req'[q].new = s
BY DEF TN!InCreation, Creating

\* A step of another request keeps what a removal knows, if it starts no
\* creation and makes no sandbox for a session that is not being created.
LEMMA RemovingStays ==
  ASSUME BoxesInv, NEW q \in Callers, req'[q] = req[q], born \subseteq born', crossed \subseteq crossed',
         \A s \in born : TN!InCreation(s)' => TN!InCreation(s),
         \A s \in born : s \in boxes' => s \in boxes \/ TN!InCreation(s)
  PROVE  RemovingOk(q)'
BY DEF BoxesInv, RemovingOk

\* A step of p that creates no session starts no creation.
LEMMA CreationStays ==
  ASSUME NEW p \in Callers, \A q \in Callers \ {p} : req'[q] = req[q],
         Creating(p)' => Creating(p) /\ req'[p].new = req[p].new
  PROVE  /\ \A s : TN!InCreation(s)' => TN!InCreation(s)
         /\ OneCreates => OneCreates'
<1>1. \A q \in Callers : Creating(q)' => Creating(q) /\ req'[q].new = req[q].new
  BY DEF Creating
<1>2. \A s : TN!InCreation(s)' => TN!InCreation(s)
  BY <1>1, InCreationIs
<1>3. OneCreates => OneCreates'
  BY <1>1 DEF OneCreates
<1> QED BY <1>2, <1>3

\* A step that touches no row and no sandbox, of a request that creates none.
LEMMA QuietBoxes ==
  ASSUME AdminTypes, BoxesInv, NEW p \in Callers, \A q \in Callers \ {p} : req'[q] = req[q],
         UNCHANGED <<sessions, born, boxes, crossed>>, ~Creating(p), ~Creating(p)',
         req'[p].op \in {"remove", "removeAny"} =>
           /\ req'[p].step # "row"
           /\ req'[p].step = "destroy" => /\ req'[p].sid \in DOMAIN sessions
                                          /\ req'[p].row = sessions[req'[p].sid]
  PROVE  BoxesInv'
<1>1. \A s : TN!InCreation(s)' <=> TN!InCreation(s)
  <2>1. \A q \in Callers : (Creating(q)' <=> Creating(q)) /\ (Creating(q) => req'[q].new = req[q].new)
    BY DEF Creating
  <2> QED BY <2>1, InCreationIs
<1>2. OneCreates'
  BY CreationStays DEF BoxesInv
<1>3. \A q \in Callers : CreatingOk(q)'
  <2>1. \A q \in Callers \ {p} : CreatingOk(q)'
    BY DEF BoxesInv, CreatingOk, Creating
  <2>2. CreatingOk(p)'
    BY DEF CreatingOk
  <2> QED BY <2>1, <2>2
<1>4. \A q \in Callers \ {p} : RemovingOk(q)'
  BY <1>1, RemovingStays
<1>5. RemovingOk(p)'
  <2> SUFFICES ASSUME req'[p].op \in {"remove", "removeAny"}, req'[p].step = "destroy"
               PROVE  /\ req'[p].sid \in born'
                      /\ req'[p].row.handle => ~(TN!InCreation(req[p].sid)')
    BY DEF RemovingOk
  <2>1. req'[p].sid \in DOMAIN sessions /\ req'[p].row = sessions[req'[p].sid]
    OBVIOUS
  <2>2. \A s \in DOMAIN sessions : TN!InCreation(s) => ~sessions[s].handle
    BY InCreationIs DEF BoxesInv, CreatingOk
  <2>3. \A s \in DOMAIN sessions : TN!InCreation(s)' => ~sessions[s].handle
    BY <1>1, <2>2
  <2>4. DOMAIN sessions \subseteq born /\ born' = born
    BY DEF AdminTypes, TablesTyped
  <2> QED BY <2>1, <2>3, <2>4
<1>6. TN!BoxesNamed'
  BY <1>1 DEF BoxesInv, TN!BoxesNamed
<1> QED BY <1>2, <1>3, <1>4, <1>5, <1>6 DEF BoxesInv

\* A step of p keeps what a creation of another request knows.
LEMMA CreatingStays ==
  ASSUME BoxesInv, NEW q \in Callers, req'[q] = req[q], born \subseteq born', crossed \subseteq crossed',
         Creating(q) => LET s == req[q].new IN
           /\ s \in DOMAIN sessions => s \in DOMAIN sessions' \/ s \in crossed'
           /\ s \in DOMAIN sessions' => s \in DOMAIN sessions /\ sessions'[s].handle = sessions[s].handle
           /\ s \in boxes' => s \in boxes
  PROVE  CreatingOk(q)'
BY DEF BoxesInv, CreatingOk, Creating

LEMMA ReserveBoxes ==
  ASSUME AdminTypes, BoxesInv, NEW p \in Callers, \A q \in Callers \ {p} : req'[q] = req[q],
         TN!Reserve(p), ~TN!Answer(p)
  PROVE  BoxesInv'
<1> DEFINE r == req[p]
           row == [tenant |-> r.tenant, handle |-> FALSE, data |-> {}]
<1>1. PICK s \in Sessions \ born :
             /\ born' = born \cup {s} /\ sessions' = TN!Put(sessions, s, row)
             /\ req' = [req EXCEPT ![p].new = s, ![p].step = "alloc"]
  BY DEF TN!Reserve
<1>2. /\ r.op \in {"create", "fork"} /\ r.step = "reserve" /\ UNCHANGED <<boxes, crossed>>
      /\ req \in [Callers -> Asked \cup {TN!Idle}] /\ r \in Asked
      /\ DOMAIN sessions \subseteq born /\ boxes \subseteq born
  BY UnderWay DEF TN!Reserve, AdminTypes, TablesTyped, Ops
<1>3. row.handle = FALSE
  OBVIOUS
<1> HIDE DEF row
<1>4. /\ DOMAIN sessions' = DOMAIN sessions \cup {s} /\ sessions'[s] = row
      /\ \A t \in DOMAIN sessions : t # s /\ sessions'[t] = sessions[t]
  BY <1>1, <1>2 DEF TN!Put
<1>5. req'[p].op = r.op /\ req'[p].new = s /\ req'[p].step = "alloc"
  BY <1>1, <1>2 DEF Asked
<1>6. \A q \in Callers \ {p} : (Creating(q)' <=> Creating(q)) /\ (Creating(q) => req[q].new \in born)
  BY DEF Creating, BoxesInv, CreatingOk
<1>7. \A t \in born : TN!InCreation(t)' <=> TN!InCreation(t)
  <2>1. ~Creating(p)
    BY <1>2 DEF Creating
  <2>2. ASSUME NEW t \in born, NEW q \in Callers, Creating(q)', req'[q].new = t
        PROVE  q # p /\ Creating(q) /\ req[q].new = t
    BY <1>1, <1>5, <1>6, <2>2
  <2>3. ASSUME NEW t \in born, NEW q \in Callers, Creating(q), req[q].new = t
        PROVE  Creating(q)' /\ req'[q].new = t
    BY <1>6, <2>1, <2>3
  <2> QED BY <2>2, <2>3, InCreationIs
<1>8. \A q \in Callers : CreatingOk(q)'
  <2>1. \A q \in Callers \ {p} : CreatingOk(q)'
    BY <1>1, <1>2, <1>4, <1>6, CreatingStays
  <2>2. CreatingOk(p)'
    BY <1>1, <1>2, <1>3, <1>4, <1>5 DEF CreatingOk
  <2> QED BY <2>1, <2>2
<1>9. \A q \in Callers : RemovingOk(q)'
  <2>1. \A q \in Callers \ {p} : RemovingOk(q)'
    BY <1>1, <1>2, <1>7, RemovingStays
  <2>2. RemovingOk(p)'
    BY <1>2, <1>5 DEF RemovingOk
  <2> QED BY <2>1, <2>2
<1>10. OneCreates'
  <2>1. \A q, t \in Callers \ {p} : Creating(q)' /\ Creating(t)' /\ req'[q].new = req'[t].new => q = t
    BY <1>6 DEF BoxesInv, OneCreates
  <2>2. \A q \in Callers \ {p} : Creating(q)' => req'[q].new # req'[p].new
    BY <1>1, <1>5, <1>6
  <2> QED BY <2>1, <2>2 DEF OneCreates
<1>11. TN!BoxesNamed'
  BY <1>2, <1>4, <1>7 DEF BoxesInv, TN!BoxesNamed
<1> QED BY <1>8, <1>9, <1>10, <1>11 DEF BoxesInv

LEMMA AllocBoxes ==
  ASSUME AdminTypes, BoxesInv, NEW p \in Callers, \A q \in Callers \ {p} : req'[q] = req[q], TN!Alloc(p)
  PROVE  BoxesInv'
<1> DEFINE r == req[p]
<1>1. /\ r.op \in {"create", "fork"} /\ r.step = "alloc" /\ UNCHANGED <<born, crossed>>
      /\ req \in [Callers -> Asked \cup {TN!Idle}] /\ r \in Asked /\ Creating(p)
      /\ DOMAIN sessions \subseteq born
  BY UnderWay DEF TN!Alloc, AdminTypes, TablesTyped, Ops, Creating
<1>2. r.new \in born /\ r.new \notin boxes
  BY <1>1 DEF BoxesInv, CreatingOk
<1>3. \A q \in Callers \ {p} : (Creating(q)' <=> Creating(q)) /\ (Creating(q) => req[q].new # r.new)
  BY <1>1 DEF Creating, BoxesInv, OneCreates
<1>4. CASE boxes' = boxes \cup {r.new} /\ TN!Goto(p, "hot") /\ UNCHANGED sessions
  <2>1. req'[p].op = r.op /\ req'[p].new = r.new /\ req'[p].step = "hot"
    BY <1>1, <1>4 DEF Asked, TN!Goto
  <2>2. /\ \A t : TN!InCreation(t)' <=> TN!InCreation(t)
        /\ TN!InCreation(r.new)
    BY <1>1, <1>3, <2>1, InCreationIs DEF Creating
  <2>3. \A q \in Callers : CreatingOk(q)'
    <3>1. \A q \in Callers \ {p} : CreatingOk(q)'
      BY <1>1, <1>3, <1>4, CreatingStays
    <3>2. CreatingOk(p)'
      BY <1>1, <1>4, <2>1 DEF BoxesInv, CreatingOk
    <3> QED BY <3>1, <3>2
  <2>4. \A q \in Callers : RemovingOk(q)'
    <3>1. \A q \in Callers \ {p} : RemovingOk(q)'
      BY <1>1, <1>4, <2>2, RemovingStays
    <3>2. RemovingOk(p)'
      BY <1>1, <2>1 DEF RemovingOk
    <3> QED BY <3>1, <3>2
  <2>5. OneCreates'
    BY <1>1, <1>3, <2>1 DEF BoxesInv, OneCreates, Creating
  <2>6. TN!BoxesNamed'
    BY <1>1, <1>4, <2>2 DEF BoxesInv, TN!BoxesNamed
  <2> QED BY <2>3, <2>4, <2>5, <2>6 DEF BoxesInv
<1>5. CASE sessions' = TN!Restrict(sessions, born \ {r.new}) /\ TN!Answer(p) /\ UNCHANGED boxes
  <2>1. req'[p] = TN!Idle /\ ~Creating(p)'
    BY <1>1, <1>5 DEF TN!Answer, TN!Idle, Creating
  <2>2. \A t : t # r.new => (TN!InCreation(t)' <=> TN!InCreation(t))
    BY <1>3, <2>1, InCreationIs DEF Creating
  <2>3. /\ DOMAIN sessions' = DOMAIN sessions \ {r.new}
        /\ \A t \in DOMAIN sessions' : sessions'[t] = sessions[t]
    BY <1>1, <1>5 DEF TN!Restrict
  <2>4. \A q \in Callers : CreatingOk(q)'
    <3>1. \A q \in Callers \ {p} : CreatingOk(q)'
      BY <1>1, <1>3, <1>5, <2>3, CreatingStays
    <3>2. CreatingOk(p)'
      BY <2>1 DEF CreatingOk
    <3> QED BY <3>1, <3>2
  <2>5. (\A t : TN!InCreation(t)' => TN!InCreation(t)) /\ OneCreates'
    BY <2>1, CreationStays DEF BoxesInv
  <2>6. \A q \in Callers : RemovingOk(q)'
    <3>1. \A q \in Callers \ {p} : RemovingOk(q)'
      BY <1>1, <1>5, <2>5, RemovingStays
    <3>2. RemovingOk(p)'
      BY <2>1 DEF RemovingOk, TN!Idle
    <3> QED BY <3>1, <3>2
  <2>7. TN!BoxesNamed'
    BY <1>1, <1>2, <1>5, <2>2, <2>3 DEF BoxesInv, TN!BoxesNamed
  <2> QED BY <2>4, <2>5, <2>6, <2>7 DEF BoxesInv
<1> QED BY <1>4, <1>5 DEF TN!Alloc

LEMMA HotBoxes ==
  ASSUME AdminTypes, BoxesInv, NEW p \in Callers, \A q \in Callers \ {p} : req'[q] = req[q], TN!MarkHot(p)
  PROVE  BoxesInv'
<1> DEFINE r == req[p]
<1>1. /\ r.op \in {"create", "fork"} /\ r.step = "hot" /\ UNCHANGED <<born, boxes, crossed>>
      /\ req \in [Callers -> Asked \cup {TN!Idle}] /\ r \in Asked /\ Creating(p)
  BY UnderWay DEF TN!MarkHot, AdminTypes, Ops, Creating
<1>2. /\ DOMAIN sessions' = DOMAIN sessions
      /\ \A t \in DOMAIN sessions : sessions'[t].handle = IF t = r.new THEN TRUE ELSE sessions[t].handle
  <2>1. \A t \in DOMAIN sessions : [sessions[t] EXCEPT !.handle = TRUE].handle = TRUE
    BY DEF AdminTypes, TablesTyped, Session
  <2> QED BY <2>1 DEF TN!MarkHot
<1>3. \A q \in Callers \ {p} : (Creating(q)' <=> Creating(q)) /\ (Creating(q) => req[q].new # r.new)
  BY <1>1 DEF Creating, BoxesInv, OneCreates
<1>4. ~Creating(p)' /\ req'[p].op = r.op
  BY <1>1 DEF TN!MarkHot, TN!Goto, Creating, Asked
<1>5. \A t : t # r.new => (TN!InCreation(t)' <=> TN!InCreation(t))
  BY <1>3, <1>4, InCreationIs DEF Creating
<1>6. (\A t : TN!InCreation(t)' => TN!InCreation(t)) /\ OneCreates'
  BY <1>4, CreationStays DEF BoxesInv
<1>7. \A q \in Callers : CreatingOk(q)'
  <2>1. \A q \in Callers \ {p} : CreatingOk(q)'
    BY <1>1, <1>2, <1>3, CreatingStays
  <2>2. CreatingOk(p)'
    BY <1>4 DEF CreatingOk
  <2> QED BY <2>1, <2>2
<1>8. \A q \in Callers : RemovingOk(q)'
  <2>1. \A q \in Callers \ {p} : RemovingOk(q)'
    BY <1>1, <1>6, RemovingStays
  <2>2. RemovingOk(p)'
    BY <1>1, <1>4 DEF RemovingOk
  <2> QED BY <2>1, <2>2
<1>9. r.new \in DOMAIN sessions \/ r.new \in crossed
  BY <1>1 DEF BoxesInv, CreatingOk
<1>10. TN!BoxesNamed'
  BY <1>1, <1>2, <1>5, <1>9 DEF BoxesInv, TN!BoxesNamed
<1> QED BY <1>6, <1>7, <1>8, <1>10 DEF BoxesInv

\* A tree that is stored changes no handle.
LEMMA PersistBoxes ==
  ASSUME AdminTypes, BoxesInv, NEW p \in Callers, \A q \in Callers \ {p} : req'[q] = req[q], TN!Persist(p)
  PROVE  BoxesInv'
<1> DEFINE r == req[p]
<1>1. /\ r.step = "persist" /\ UNCHANGED <<born, boxes, crossed>> /\ ~Creating(p)
      /\ req \in [Callers -> Asked \cup {TN!Idle}]
  BY DEF TN!Persist, AdminTypes, Creating
<1>2. DOMAIN sessions' = DOMAIN sessions /\ \A t \in DOMAIN sessions : sessions'[t].handle = sessions[t].handle
  <2>1. \A s \in DOMAIN sessions : \A d : [sessions[s] EXCEPT !.data = d].handle = sessions[s].handle
    BY DEF AdminTypes, TablesTyped, Session
  <2>2. PICK s, d : sessions' = sessions \/ sessions' = [sessions EXCEPT ![s].data = d]
    BY DEF TN!Persist
  <2>3. CASE sessions' = [sessions EXCEPT ![s].data = d]
    <3>1. /\ DOMAIN sessions' = DOMAIN sessions
          /\ \A t \in DOMAIN sessions :
               sessions'[t] = IF t = s THEN [sessions[t] EXCEPT !.data = d] ELSE sessions[t]
      BY <2>3
    <3>2. \A t \in DOMAIN sessions : [sessions[t] EXCEPT !.data = d].handle = sessions[t].handle
      BY <2>1
    <3> QED BY <3>1, <3>2
  <2> QED BY <2>2, <2>3
<1>3. req'[p] = TN!Idle /\ ~Creating(p)'
  BY <1>1 DEF TN!Persist, TN!Answer, TN!Idle, Creating
<1>4. \A t : TN!InCreation(t)' <=> TN!InCreation(t)
  BY <1>1, <1>3, InCreationIs DEF Creating
<1>5. OneCreates'
  BY <1>3, CreationStays DEF BoxesInv
<1>6. \A q \in Callers : CreatingOk(q)'
  <2>1. \A q \in Callers \ {p} : CreatingOk(q)'
    BY <1>1, <1>2, CreatingStays
  <2> QED BY <1>3, <2>1 DEF CreatingOk
<1>7. \A q \in Callers : RemovingOk(q)'
  <2>1. \A q \in Callers \ {p} : RemovingOk(q)'
    BY <1>1, <1>4, RemovingStays
  <2>2. RemovingOk(p)'
    BY <1>3 DEF RemovingOk, TN!Idle
  <2> QED BY <2>1, <2>2
<1>8. TN!BoxesNamed'
  BY <1>1, <1>2, <1>4 DEF BoxesInv, TN!BoxesNamed
<1> QED BY <1>5, <1>6, <1>7, <1>8 DEF BoxesInv

LEMMA DestroyBoxes ==
  ASSUME AdminTypes, BoxesInv, NEW p \in Callers, \A q \in Callers \ {p} : req'[q] = req[q], TN!Destroy(p)
  PROVE  BoxesInv'
<1> DEFINE r == req[p]
<1>1. /\ r.op \in {"remove", "removeAny"} /\ r.step = "destroy" /\ UNCHANGED <<born, sessions>>
      /\ req \in [Callers -> Asked \cup {TN!Idle}] /\ r \in Asked /\ ~Creating(p)
      /\ boxes' = (IF r.row.handle THEN boxes \ {r.sid} ELSE boxes)
      /\ crossed' = (IF ~r.row.handle /\ (r.sid \in boxes \/ TN!InCreation(r.sid))
                     THEN crossed \cup {r.sid} ELSE crossed)
      /\ req' = [req EXCEPT ![p].step = "row"]
  BY UnderWay DEF TN!Destroy, AdminTypes, Ops, Creating
<1>2. r.sid \in born /\ (r.row.handle => ~TN!InCreation(r.sid))
  BY <1>1 DEF BoxesInv, RemovingOk
<1>3. req'[p].op = r.op /\ req'[p].step = "row" /\ req'[p].sid = r.sid /\ ~Creating(p)'
  BY <1>1 DEF Asked, Creating
<1>4. \A t : TN!InCreation(t)' <=> TN!InCreation(t)
  BY <1>1, <1>3, InCreationIs DEF Creating
<1>5. boxes' \subseteq boxes /\ crossed \subseteq crossed'
  BY <1>1
<1>6. OneCreates'
  BY <1>3, CreationStays DEF BoxesInv
<1>7. \A q \in Callers : CreatingOk(q)'
  <2>1. \A q \in Callers \ {p} : CreatingOk(q)'
    BY <1>1, <1>5, CreatingStays
  <2> QED BY <1>3, <2>1 DEF CreatingOk
<1>8. \A q \in Callers : RemovingOk(q)'
  <2>1. \A q \in Callers \ {p} : RemovingOk(q)'
    BY <1>1, <1>4, <1>5, RemovingStays
  <2>2. r.sid \in boxes' \/ TN!InCreation(r.sid) => r.sid \in crossed'
    BY <1>1, <1>2
  <2>3. RemovingOk(p)'
    BY <1>1, <1>2, <1>3, <1>4, <2>2 DEF RemovingOk
  <2> QED BY <2>1, <2>3
<1>9. TN!BoxesNamed'
  BY <1>1, <1>4, <1>5 DEF BoxesInv, TN!BoxesNamed
<1> QED BY <1>6, <1>7, <1>8, <1>9 DEF BoxesInv

\* Rows are deleted: those of a creation under way, and those of a sandbox that
\* stays, are of the sessions in crossed.
LEMMA DropBoxes ==
  ASSUME AdminTypes, BoxesInv, NEW p \in Callers, \A q \in Callers \ {p} : req'[q] = req[q],
         ~Creating(p), ~Creating(p)', RemovingOk(p)', born' = born, boxes' \subseteq boxes,
         crossed \subseteq crossed', DOMAIN sessions' \subseteq DOMAIN sessions,
         \A t \in DOMAIN sessions' : sessions'[t] = sessions[t],
         \A t \in DOMAIN sessions \ DOMAIN sessions' :
           TN!InCreation(t) \/ t \in boxes' => t \in crossed'
  PROVE  BoxesInv'
<1>1. \A t : TN!InCreation(t)' <=> TN!InCreation(t)
  BY InCreationIs DEF Creating
<1>2. OneCreates'
  BY CreationStays DEF BoxesInv
<1>3. \A q \in Callers : CreatingOk(q)'
  <2>1. \A q \in Callers \ {p} : CreatingOk(q)'
    <3> SUFFICES ASSUME NEW q \in Callers \ {p} PROVE CreatingOk(q)'
      OBVIOUS
    <3>1. Creating(q) => TN!InCreation(req[q].new)
      BY DEF Creating, TN!InCreation
    <3> QED BY <3>1, CreatingStays
  <2> QED BY <2>1 DEF CreatingOk
<1>4. \A q \in Callers : RemovingOk(q)'
  BY <1>1, RemovingStays
<1>5. TN!BoxesNamed'
  BY <1>1 DEF BoxesInv, TN!BoxesNamed
<1> QED BY <1>2, <1>3, <1>4, <1>5 DEF BoxesInv

LEMMA GoesBoxes ==
  ASSUME AdminTypes, BoxesInv, NEW p \in Callers, TN!Goes(p)
  PROVE  BoxesInv'
<1> DEFINE r == req[p]
<1>1. \A q \in Callers \ {p} : req'[q] = req[q]
  BY GoesAlone
<1>2. /\ req \in [Callers -> Asked \cup {TN!Idle}] /\ (r.op \in Ops => r \in Asked)
      /\ DOMAIN sessions \subseteq born
  BY UnderWay DEF AdminTypes, TablesTyped
<1>3. TN!Answer(p) => req'[p] = TN!Idle /\ ~Creating(p)' /\ RemovingOk(p)'
  BY <1>2 DEF TN!Answer, TN!Idle, Creating, RemovingOk
<1>4. TN!Answer(p) /\ ~Creating(p) /\ UNCHANGED <<sessions, born, boxes, crossed>> => BoxesInv'
  BY <1>1, <1>3, QuietBoxes DEF TN!Idle
<1>5. CASE TN!Guard(p)
  <2>1. ~Creating(p) /\ UNCHANGED <<sessions, born, boxes, crossed>> /\ r.op \in {"fork", "read", "import", "remove"}
    BY <1>5 DEF TN!Guard, Creating
  <2>2. CASE ~TN!Answer(p)
    <3> DEFINE e == CASE r.op = "fork" -> "tree" [] r.op = "read" -> "tree"
                      [] r.op = "import" -> "persist" [] OTHER -> "destroy"
    <3>1. /\ r.sid \in DOMAIN sessions /\ r \in Asked
          /\ req' = [req EXCEPT ![p].row = sessions[r.sid], ![p].told = {sessions[r.sid].tenant},
                                ![p].step = e]
      BY <1>2, <1>5, <2>1, <2>2 DEF TN!Guard, Ops
    <3>2. e \in {"tree", "persist", "destroy"}
      OBVIOUS
    <3> HIDE DEF e
    <3>3. /\ req'[p].op = r.op /\ req'[p].sid = r.sid /\ req'[p].row = sessions[r.sid] /\ req'[p].step = e
      BY <1>2, <3>1 DEF Asked
    <3>4. ~Creating(p)'
      BY <3>2, <3>3 DEF Creating
    <3> QED BY <1>1, <2>1, <3>1, <3>2, <3>3, <3>4, QuietBoxes
  <2> QED BY <1>4, <2>1, <2>2
<1>6. CASE TN!ReadTree(p)
  <2>1. /\ ~Creating(p) /\ UNCHANGED <<sessions, born, boxes, crossed>> /\ r.op \in {"fork", "read"}
        /\ r \in Asked
    BY <1>2, <1>6 DEF TN!ReadTree, Creating, Ops
  <2>2. CASE ~TN!Answer(p)
    <3>1. req'[p].op = r.op /\ req'[p].step = "reserve"
      BY <1>2, <1>6, <2>1, <2>2 DEF TN!ReadTree, Asked
    <3>2. ~Creating(p)'
      BY <3>1 DEF Creating
    <3> QED BY <1>1, <2>1, <3>1, <3>2, QuietBoxes
  <2> QED BY <1>4, <2>1, <2>2
<1>7. CASE TN!Reserve(p)
  <2>1. CASE TN!Answer(p)
    <3>1. /\ ~Creating(p) /\ r \in Asked /\ UNCHANGED <<boxes, crossed>>
          /\ r.step = "reserve" /\ r.op \in {"create", "fork"}
      BY <1>2, <1>7 DEF TN!Reserve, Creating, Ops
    <3>2. UNCHANGED <<sessions, born>>
      <4>1. req'[p].op = "idle"
        BY <1>3, <2>1 DEF TN!Idle
      <4>2. ASSUME NEW s, req' = [req EXCEPT ![p].new = s, ![p].step = "alloc"] PROVE FALSE
        <5>1. req'[p].op = r.op
          BY <1>2, <3>1, <4>2 DEF Asked
        <5> QED BY <3>1, <4>1, <5>1
      <4> QED BY <1>7, <4>2 DEF TN!Reserve
    <3> QED BY <1>4, <2>1, <3>1, <3>2
  <2> QED BY <1>1, <1>7, <2>1, ReserveBoxes
<1>8. CASE TN!Alloc(p)
  BY <1>1, <1>8, AllocBoxes
<1>9. CASE TN!MarkHot(p)
  BY <1>1, <1>9, HotBoxes
<1>10. CASE TN!Persist(p)
  BY <1>1, <1>10, PersistBoxes
<1>11. CASE TN!Created(p) \/ TN!Shown(p) \/ TN!Update(p) \/ TN!PatchCap(p) \/ TN!InsertKey(p) \/ TN!Revoke(p)
  BY <1>4, <1>11 DEF TN!Created, TN!Shown, TN!Update, TN!PatchCap, TN!InsertKey, TN!Revoke, Creating
<1>12. CASE TN!Destroy(p)
  BY <1>1, <1>12, DestroyBoxes
<1>13. CASE TN!DropRow(p)
  <2>1. /\ r.op \in {"remove", "removeAny"} /\ r.step = "row" /\ TN!Answer(p) /\ ~Creating(p)
        /\ UNCHANGED <<born, boxes, crossed>>
    BY <1>13 DEF TN!DropRow, Creating
  <2>2. r.sid \in boxes \/ TN!InCreation(r.sid) => r.sid \in crossed
    BY <2>1 DEF BoxesInv, RemovingOk
  <2>3. /\ DOMAIN sessions' \subseteq DOMAIN sessions /\ DOMAIN sessions \ DOMAIN sessions' \subseteq {r.sid}
        /\ \A t \in DOMAIN sessions' : sessions'[t] = sessions[t]
    BY <1>2, <1>13 DEF TN!DropRow, TN!Restrict
  <2> QED BY <1>1, <1>3, <2>1, <2>2, <2>3, DropBoxes
<1>14. CASE TN!Listed(p)
  <2>1. /\ ~Creating(p) /\ UNCHANGED <<sessions, born, boxes, crossed>> /\ r.op = "list" /\ r \in Asked
    BY <1>2, <1>14 DEF TN!Listed, Creating, Ops
  <2>2. req'[p].op = r.op
    BY <1>2, <1>14, <2>1 DEF TN!Listed, Asked
  <2>3. ~Creating(p)'
    BY <2>1, <2>2 DEF Creating
  <2> QED BY <1>1, <2>1, <2>2, <2>3, QuietBoxes
<1>15. CASE TN!View(p)
  <2>1. /\ ~Creating(p) /\ UNCHANGED <<sessions, born, boxes, crossed>> /\ r.op = "view" /\ r \in Asked
    BY <1>2, <1>15 DEF TN!View, Creating, Ops
  <2>2. CASE ~TN!Answer(p)
    <3>1. req'[p].op = r.op
      BY <1>2, <1>15, <2>1, <2>2 DEF TN!View, Asked
    <3>2. ~Creating(p)'
      BY <2>1, <3>1 DEF Creating
    <3> QED BY <1>1, <2>1, <3>1, <3>2, QuietBoxes
  <2> QED BY <1>4, <2>1, <2>2
<1>16. CASE TN!InsertTenant(p)
  <2>1. /\ ~Creating(p) /\ UNCHANGED <<sessions, born, boxes, crossed>> /\ r \in Asked
    BY <1>2, <1>16 DEF TN!InsertTenant, Creating, Ops
  <2>2. CASE ~TN!Answer(p)
    <3>1. req'[p].op = "newKey"
      BY <1>2, <1>16, <2>1, <2>2 DEF TN!InsertTenant, Asked
    <3>2. ~Creating(p)'
      BY <3>1 DEF Creating
    <3> QED BY <1>1, <2>1, <3>1, <3>2, QuietBoxes
  <2> QED BY <1>4, <2>1, <2>2
<1>17. CASE TN!DropSessions(p)
  <2> DEFINE listed == {s \in DOMAIN sessions : sessions[s].tenant = r.tenant}
  <2>1. /\ r.op = "drop" /\ r \in Asked /\ ~Creating(p) /\ born' = born
        /\ boxes' = boxes \ {s \in listed : sessions[s].handle}
        /\ crossed' = crossed \cup {s \in listed : ~sessions[s].handle /\ (s \in boxes \/ TN!InCreation(s))}
        /\ sessions' = TN!Restrict(sessions, born \ listed)
    BY <1>2, <1>17 DEF TN!DropSessions, Creating, Ops
  <2>2. /\ DOMAIN sessions' \subseteq DOMAIN sessions /\ DOMAIN sessions \ DOMAIN sessions' \subseteq listed
        /\ \A t \in DOMAIN sessions' : sessions'[t] = sessions[t]
    BY <1>2, <2>1 DEF TN!Restrict
  <2>3. \A t \in listed : TN!InCreation(t) => ~sessions[t].handle
    BY InCreationIs DEF BoxesInv, CreatingOk
  <2>4. req'[p].op = "drop"
    BY <1>2, <1>17, <2>1 DEF TN!DropSessions, TN!Goto, Asked
  <2>5. ~Creating(p)' /\ RemovingOk(p)'
    BY <2>4 DEF Creating, RemovingOk
  <2>6. \A t \in listed : TN!InCreation(t) \/ t \in boxes' => t \in crossed'
    BY <2>1, <2>3
  <2>7. boxes' \subseteq boxes /\ crossed \subseteq crossed'
    BY <2>1
  <2> HIDE DEF listed
  <2> QED BY <1>1, <2>1, <2>2, <2>5, <2>6, <2>7, DropBoxes
<1>18. CASE TN!RevokeAll(p)
  <2>1. /\ ~Creating(p) /\ UNCHANGED <<sessions, born, boxes, crossed>> /\ r.op = "drop" /\ r \in Asked
    BY <1>2, <1>18 DEF TN!RevokeAll, Creating, Ops
  <2>2. req'[p].op = r.op
    BY <1>2, <1>18, <2>1 DEF TN!RevokeAll, TN!Goto, Asked
  <2>3. ~Creating(p)'
    BY <2>1, <2>2 DEF Creating
  <2> QED BY <1>1, <2>1, <2>2, <2>3, QuietBoxes
<1>19. CASE TN!DropTenant(p)
  <2> DEFINE late == {s \in DOMAIN sessions : sessions[s].tenant = r.tenant}
  <2>1. /\ TN!Answer(p) /\ ~Creating(p) /\ UNCHANGED <<born, boxes>> /\ crossed' = crossed \cup late
        /\ sessions' = TN!Restrict(sessions, born \ late)
    BY <1>19 DEF TN!DropTenant, Creating
  <2>2. /\ DOMAIN sessions' \subseteq DOMAIN sessions /\ DOMAIN sessions \ DOMAIN sessions' \subseteq late
        /\ \A t \in DOMAIN sessions' : sessions'[t] = sessions[t]
    BY <1>2, <2>1 DEF TN!Restrict
  <2> HIDE DEF late
  <2> QED BY <1>1, <1>3, <2>1, <2>2, DropBoxes
<1> QED BY <1>5, <1>6, <1>7, <1>8, <1>9, <1>10, <1>11, <1>12, <1>13, <1>14, <1>15, <1>16, <1>17,
           <1>18, <1>19 DEF TN!Goes

AdminInv == AdminTypes /\ SettingsInv /\ OwnInv /\ BoxesInv

LEMMA InitAdmin == TN!Init => AdminInv
<1> SUFFICES ASSUME TN!Init PROVE AdminInv
  OBVIOUS
<1>1. /\ sessions = [x \in {} |-> TN!NoId] /\ born = {} /\ boxes = {}
      /\ req = [p \in Callers |-> TN!Idle] /\ overlapped = {} /\ crossed = {}
  BY DEF TN!Init
<1>2. PICK t \in Tenants, k \in Keys :
        /\ config = [x \in {t} |-> [settings |-> TN!Plain, cap |-> TN!Cardinality(Sessions)]]
        /\ keys = [x \in {k} |-> [tenant |-> t, live |-> TRUE]]
        /\ promised = [x \in {t} |-> TN!Plain]
  BY DEF TN!Init
<1> DEFINE n == TN!Cardinality(Sessions)
<1>3. AdminTypes
  <2>1. [settings |-> TN!Plain, cap |-> n] \in Conf
    BY PlainTyped DEF Conf
  <2> QED BY <1>1, <1>2, <2>1 DEF AdminTypes, TablesTyped
<1>4. \A p \in Callers : req[p].op = "idle"
  BY <1>1 DEF TN!Idle
<1>5. SettingsInv
  <2>1. [settings |-> TN!Plain, cap |-> n].settings = TN!Plain
    OBVIOUS
  <2>2. \A x \in DOMAIN config : x = t /\ config[x].settings = TN!Plain
    BY <1>2, <2>1
  <2> QED BY <1>2, <1>4, <2>2, PlainTyped DEF SettingsInv, Unmasked, TN!PatchesKept, Fit
<1>6. OwnInv
  BY <1>1, <1>4 DEF OwnInv, RowsOwn, Own
<1>7. BoxesInv
  BY <1>1, <1>4 DEF BoxesInv, CreatingOk, Creating, RemovingOk, OneCreates, TN!BoxesNamed
<1> QED BY <1>3, <1>5, <1>6, <1>7 DEF AdminInv

LEMMA TakeAdmin ==
  ASSUME AdminInv, NEW p \in Callers, NEW r, TN!Take(p, r), Started(r)
  PROVE  AdminInv'
<1>1. /\ AdminTypes /\ SettingsInv /\ OwnInv /\ BoxesInv /\ req \in [Callers -> Asked \cup {TN!Idle}]
      /\ DOMAIN sessions \subseteq born
  BY DEF AdminInv, AdminTypes, TablesTyped
<1>2. /\ req[p] = TN!Idle /\ req' = [req EXCEPT ![p] = r]
      /\ UNCHANGED <<config, keys, sessions, born, boxes, promised, overlapped, crossed>>
  BY DEF TN!Take
<1>3. req'[p] = r /\ \A q \in Callers \ {p} : req'[q] = req[q]
  BY <1>1, <1>2
<1>4. AdminTypes'
  BY <1>1, TakeTyped
<1>5. SettingsInv'
  <2>1. Fit(r)
    BY DEF Started, Fit
  <2> QED BY <1>1, <1>2, <1>3, <2>1 DEF SettingsInv, Unmasked, TN!PatchesKept
<1>6. OwnInv'
  <2>1. Own(req[p])'
    BY <1>3 DEF Started, FirstSteps, Own
  <2>2. \A q \in Callers \ {p} : Own(req[q])'
    BY <1>1, <1>2, <1>3 DEF OwnInv, Own
  <2> QED BY <1>1, <1>2, <2>1, <2>2 DEF OwnInv, RowsOwn
<1>7. BoxesInv'
  <2>1. ~Creating(p)
    BY <1>2 DEF Creating, TN!Idle
  <2>2. ~Creating(p)' /\ req'[p].step # "row"
    BY <1>3 DEF Creating, Started, FirstSteps
  <2>3. req'[p].step = "destroy" => req'[p].sid \in DOMAIN sessions /\ req'[p].row = sessions[req'[p].sid]
    BY <1>3 DEF Started
  <2> QED BY <1>1, <1>2, <1>3, <2>1, <2>2, <2>3, QuietBoxes
<1> QED BY <1>4, <1>5, <1>6, <1>7 DEF AdminInv

LEMMA NextAdmin == AdminInv /\ [TN!Next]_TN!adminVars => AdminInv'
<1> SUFFICES ASSUME AdminInv, [TN!Next]_TN!adminVars PROVE AdminInv'
  OBVIOUS
<1>1. AdminTypes /\ SettingsInv /\ OwnInv /\ BoxesInv /\ Unmasked
  BY DEF AdminInv, SettingsInv
<1>2. CASE UNCHANGED TN!adminVars
  <2>1. AdminTypes'
    BY <1>1, <1>2, TablesSame DEF TN!adminVars, AdminTypes
  <2>2. SettingsInv'
    BY <1>1, <1>2 DEF TN!adminVars, SettingsInv, Unmasked, TN!PatchesKept
  <2>3. OwnInv'
    BY <1>1, <1>2 DEF TN!adminVars, OwnInv, RowsOwn, Own
  <2>4. BoxesInv'
    BY <1>1, <1>2 DEF TN!adminVars, BoxesInv, CreatingOk, Creating, RemovingOk, OneCreates,
                      TN!BoxesNamed, TN!InCreation
  <2> QED BY <2>1, <2>2, <2>3, <2>4 DEF AdminInv
<1>3. ASSUME NEW p \in Callers, TN!TenantAsks(p) \/ TN!OperatorAsks(p) PROVE AdminInv'
  BY <1>1, <1>3, AsksBegin, TakeAdmin DEF Begins
<1>4. ASSUME NEW p \in Callers, TN!Goes(p) PROVE AdminInv'
  <2>1. Fit(req[p]) /\ CreatingOk(p)
    BY <1>1 DEF SettingsInv, BoxesInv
  <2>2. AdminTypes'
    BY <1>1, <1>4, <2>1, GoesTyped DEF Fit, CreatingOk, Creating
  <2>3. SettingsInv'
    BY <1>1, <1>4, GoesFit, GoesSettings DEF SettingsInv, SettingsOnly
  <2>4. OwnInv'
    BY <1>1, <1>4, GoesOwn, GoesRows DEF OwnInv
  <2>5. BoxesInv'
    BY <1>1, <1>4, GoesBoxes
  <2> QED BY <2>2, <2>3, <2>4, <2>5 DEF AdminInv
<1> QED BY <1>2, <1>3, <1>4 DEF TN!Next

LEMMA AdminHolds == AdminInv => TN!TenantsApart /\ TN!SecretsKept /\ TN!PatchesKept /\ TN!BoxesNamed
<1> SUFFICES ASSUME AdminInv PROVE TN!TenantsApart /\ TN!SecretsKept /\ TN!PatchesKept /\ TN!BoxesNamed
  OBVIOUS
<1>1. TN!TenantsApart
  BY DEF AdminInv, OwnInv, RowsOwn, Own, TN!TenantsApart
<1>2. TN!SecretsKept
  BY DEF AdminInv, SettingsInv, Unmasked, Fit, TN!SecretsKept
<1> QED BY <1>1, <1>2 DEF AdminInv, SettingsInv, BoxesInv

-----------------------------------------------------------------------------
(* What the tables promise their tenants *)

\* Nothing of one tenant reaches another by a session, a copy or a memory, no
\* secret is replaced by its mask or shown, a setting that a patch was told is
\* stored is stored, a sandbox belongs to a session, and a server that serves
\* has its whole schema, whatever requests, runs and crashes interleave
\* (http.rs, admin.rs, memory.rs, db.rs).
THEOREM TenantsKeep == Spec => []TenantsKept
<1>1. Init => SchemaInv /\ MemoryInv /\ AdminInv
  BY Parts, InitSchema, InitMemory, InitAdmin
<1>2. SchemaInv /\ MemoryInv /\ AdminInv /\ [Next]_vars => (SchemaInv /\ MemoryInv /\ AdminInv)'
  BY Parts, NextSchema, NextMemory, NextAdmin
<1>3. SchemaInv /\ MemoryInv /\ AdminInv => TenantsKept
  BY SchemaHolds, MemoryHolds, AdminHolds
     DEF TenantsKept, TenantsApart, SecretsKept, PatchesKept, BoxesNamed, MemoryApart, SchemaServes
<1> QED BY <1>1, <1>2, <1>3, PTL DEF Spec

-----------------------------------------------------------------------------
(* The table of tools *)

ExtNames == {<<"ext", i>> : i \in Declared}
Manifest == [name : ExtNames, rpc : BOOLEAN, ok : BOOLEAN, version : Nat \ {0}]
Entry == [name : ExtNames, version : Nat \ {0}]

\* No server has the name that those of the manifests or of the program begin
\* with, no two manifests have one name, a manifest keeps its protocol, and
\* its process starts.
Undisturbed ==
  /\ Servers \cap {"ext", "read"} = {}
  /\ Upsets \cap {"shared", "protocol", "spawn"} = {}

ToolTypes ==
  /\ remote \in [Servers -> SUBSET Tools] /\ watch \subseteq Servers /\ version \in Nat
  /\ disk \in [Files -> Manifest \cup {TH!NoFile}]
  /\ snapshot \in [Files -> Entry \cup {TH!Unseen}]
  /\ \A f \in Files : disk[f].version <= version /\ snapshot[f].version <= version

There(f) == disk[f] # TH!NoFile
Shot(f) == snapshot[f] # TH!Unseen

\* A name is one file's: on the disk, in the snapshot, and between a file that
\* became unreadable, which keeps its name, and the others.
NamesApart ==
  /\ \A f, g \in Files : f # g /\ There(f) /\ There(g) => disk[f].name # disk[g].name
  /\ \A f, g \in Files : f # g /\ Shot(f) /\ Shot(g) => snapshot[f].name # snapshot[g].name
  /\ \A f, g \in Files : f # g /\ There(f) /\ There(g) /\ ~disk[g].ok /\ Shot(g)
                         => disk[f].name # snapshot[g].name
  /\ \A f \in Files : There(f) /\ Shot(f) /\ snapshot[f].version = disk[f].version
                      => snapshot[f].name = disk[f].name

\* The table and the processes are those of the snapshot.
Served(f) == [by |-> "ext", of |-> {f}, version |-> snapshot[f].version]

TableShot ==
  /\ \A f \in Files : Shot(f) => /\ snapshot[f].name \in DOMAIN registry
                                 /\ registry[snapshot[f].name] = Served(f)
  /\ \A n \in DOMAIN registry : registry[n].by = "ext" =>
       \E f \in Files : Shot(f) /\ registry[n].of = {f} /\ snapshot[f].name = n
  /\ \A n \in DOMAIN hosts : /\ n \in DOMAIN registry /\ hosts[n] = registry[n]
                             /\ \E f \in Files : Shot(f) /\ hosts[n].of = {f} /\ snapshot[f].name = n
  /\ \A f \in Files : There(f) /\ Shot(f) => (disk[f].rpc <=> snapshot[f].name \in DOMAIN hosts)

\* The tools of a server that nothing was missed of, and those of the program.
TableServers ==
  /\ ~started => /\ registry = <<>> /\ hosts = <<>> /\ watch = {} /\ missed = {}
                 /\ \A f \in Files : ~Shot(f)
  /\ TH!ServersAreTrue
  /\ started => {<<"read", 0>>} \subseteq DOMAIN registry

TableInv == ToolTypes /\ NamesApart /\ TableShot /\ TableServers

\* What the names begin with.
LEMMA Heads ==
  ASSUME Undisturbed
  PROVE  /\ \A n \in ExtNames : n # <<"read", 0>> /\ n # <<>> /\ \A s \in Servers : n[1] # s
         /\ \A s \in Servers : \A t : /\ <<s, t>> \notin ExtNames /\ <<s, t>> # <<"read", 0>>
                                      /\ <<s, t>>[1] = s /\ <<"read", 0>>[1] # s
         /\ \A n : \A s \in Servers : TH!HasPrefix(n, s) <=> n[1] = s
BY DEF Undisturbed, ExtNames, TH!HasPrefix

LEMMA FilesTyped ==
  ASSUME ToolTypes, NEW f \in Files
  PROVE  /\ There(f) => disk[f] \in Manifest /\ disk[f].version > 0
         /\ ~There(f) => disk[f].name = <<>> /\ ~disk[f].ok
         /\ Shot(f) => snapshot[f] \in Entry /\ snapshot[f].version > 0
         /\ ~Shot(f) => snapshot[f].version = 0
         /\ TH!Enabled(f) <=> There(f) /\ disk[f].ok
BY DEF ToolTypes, There, Shot, Manifest, Entry, TH!NoFile, TH!Unseen, TH!Enabled

LEMMA InitTable == TH!Init => TableInv
<1> SUFFICES ASSUME TH!Init PROVE TableInv
  OBVIOUS
<1>1. /\ started = FALSE /\ remote \in [Servers -> SUBSET Tools] /\ watch = {} /\ missed = {}
      /\ disk = [f \in Files |-> TH!NoFile] /\ version = 0
      /\ snapshot = [f \in Files |-> TH!Unseen] /\ hosts = <<>> /\ registry = <<>>
  BY DEF TH!Init
<1>2. ToolTypes
  BY <1>1 DEF ToolTypes, TH!NoFile, TH!Unseen
<1>3. \A f \in Files : ~There(f) /\ ~Shot(f)
  BY <1>1 DEF There, Shot
<1>4. NamesApart
  BY <1>3 DEF NamesApart
<1>5. DOMAIN registry = {} /\ DOMAIN hosts = {}
  BY <1>1
<1>6. TableShot
  BY <1>3, <1>5 DEF TableShot
<1>7. TableServers
  BY <1>1, <1>3 DEF TableServers, TH!ServersAreTrue, TH!Followed
<1> QED BY <1>2, <1>4, <1>6, <1>7 DEF TableInv

LEMMA TableHolds == TableInv => TH!TableIsTrue
<1> SUFFICES ASSUME TableInv PROVE TH!TableIsTrue
  OBVIOUS
<1>1. ASSUME TH!FilesSeen PROVE TH!FilesAreTrue /\ TH!HostsAreTrue
  <2>1. ASSUME NEW f \in Files, TH!Enabled(f)
        PROVE  disk[f].name \in DOMAIN registry /\ registry[disk[f].name] = TH!Ext(f, disk[f])
    <3>1. snapshot[f] = [name |-> disk[f].name, version |-> disk[f].version]
      BY <1>1, <2>1 DEF TH!FilesSeen, TH!Seen
    <3>2. Shot(f)
      BY <2>1, <3>1, FilesTyped DEF TableInv
    <3> QED BY <3>1, <3>2 DEF TableInv, TableShot, Served, TH!Ext
  <2>2. TH!FilesAreTrue
    BY <2>1 DEF TH!FilesAreTrue, TableInv, TableShot
  <2>3. TH!HostsAreTrue
    <3> SUFFICES ASSUME NEW n \in DOMAIN hosts
                 PROVE  \E f \in Files : /\ hosts[n].of = {f} /\ snapshot[f].name = n /\ hosts[n] = registry[n]
                                         /\ TH!Enabled(f) => disk[f].rpc
      BY DEF TH!HostsAreTrue
    <3>1. PICK f \in Files : Shot(f) /\ hosts[n].of = {f} /\ snapshot[f].name = n
      BY DEF TableInv, TableShot
    <3>2. TH!Enabled(f) => disk[f].rpc
      BY <3>1, FilesTyped DEF TableInv, TableShot
    <3> QED BY <3>1, <3>2 DEF TableInv, TableShot
  <2> QED BY <2>2, <2>3
<1> QED BY <1>1 DEF TableInv, TableServers, TH!TableIsTrue

LEMMA EditTable == ASSUME Undisturbed, TableInv, TH!EditFile PROVE TableInv'
<1>1. PICK f \in Files :
        \/ \E n \in ExtNames, r, valid \in BOOLEAN :
             /\ n \notin TH!Taken(f)
             /\ ~valid /\ snapshot[f] # TH!Unseen =>
                  \A g \in Files \ {f} : disk[g].name # snapshot[f].name
             /\ TH!SameProtocol(f, r)
             /\ disk' = [disk EXCEPT ![f] =
                           [name |-> n, rpc |-> r, ok |-> valid, version |-> version']]
        \/ disk' = [disk EXCEPT ![f] = TH!NoFile]
  BY DEF TH!EditFile, Undisturbed, ExtNames
<1>2. /\ version' = version + 1
      /\ UNCHANGED <<started, remote, watch, missed, snapshot, hosts, registry>>
  BY DEF TH!EditFile
<1>3. ToolTypes /\ NamesApart /\ TableShot /\ TableServers
  BY DEF TableInv
<1>4. \A g \in Files \ {f} : disk'[g] = disk[g]
  BY <1>1, <1>3 DEF ToolTypes
<1>5. \A g \in Files : Shot(g)' <=> Shot(g)
  BY <1>2 DEF Shot
<1>6. TableServers'
  BY <1>2, <1>3, <1>5 DEF TableServers, TH!ServersAreTrue, TH!Followed
<1>7. \A g \in Files : snapshot[g].version < version'
  BY <1>2, <1>3 DEF ToolTypes, Entry, TH!Unseen
<1>8. CASE disk' = [disk EXCEPT ![f] = TH!NoFile]
  <2>1. ~There(f)' /\ \A g \in Files \ {f} : There(g)' <=> There(g)
    BY <1>3, <1>4, <1>8 DEF There, ToolTypes
  <2>2. ToolTypes'
    BY <1>2, <1>3, <1>8 DEF ToolTypes, TH!NoFile, Entry, TH!Unseen, Manifest
  <2>3. NamesApart'
    BY <1>2, <1>3, <1>4, <1>5, <2>1 DEF NamesApart
  <2>4. TableShot'
    BY <1>2, <1>3, <1>4, <1>5, <2>1 DEF TableShot, Served
  <2> QED BY <1>6, <2>2, <2>3, <2>4 DEF TableInv
<1>9. ASSUME NEW n \in ExtNames, NEW r \in BOOLEAN, NEW valid \in BOOLEAN, n \notin TH!Taken(f),
             ~valid /\ Shot(f) => \A g \in Files \ {f} : disk[g].name # snapshot[f].name,
             TH!SameProtocol(f, r),
             disk' = [disk EXCEPT ![f] = [name |-> n, rpc |-> r, ok |-> valid, version |-> version']]
      PROVE  TableInv'
  <2> DEFINE m == [name |-> n, rpc |-> r, ok |-> valid, version |-> version']
  <2>1. disk'[f] = m /\ m.name = n /\ m.rpc = r /\ m.ok = valid /\ m.version = version'
    BY <1>3, <1>9 DEF ToolTypes
  <2>2. There(f)' /\ \A g \in Files \ {f} : There(g)' <=> There(g)
    <3>1. TH!NoFile.version = 0 /\ m.version # 0
      BY <1>2, <1>3, <2>1 DEF TH!NoFile, ToolTypes
    <3> HIDE DEF m
    <3> QED BY <1>4, <2>1, <3>1 DEF There
  <2>3. ToolTypes'
    <3>1. m \in Manifest
      BY <1>2, <1>3 DEF Manifest, ToolTypes
    <3>2. disk' \in [Files -> Manifest \cup {TH!NoFile}]
      BY <1>3, <1>9, <3>1 DEF ToolTypes
    <3>3. \A g \in Files : disk[g].version <= version'
      BY <1>2, <1>3 DEF ToolTypes, Manifest, TH!NoFile
    <3>4. version' \in Nat /\ \A g \in Files : disk'[g].version <= version'
      BY <1>2, <1>3, <1>4, <2>1, <3>3 DEF ToolTypes
    <3>5. \A g \in Files : snapshot[g].version <= version'
      BY <1>2, <1>3 DEF ToolTypes, Entry, TH!Unseen
    <3> QED BY <1>2, <1>3, <3>2, <3>4, <3>5 DEF ToolTypes
  <2>4. \A g \in Files \ {f} : n # disk[g].name /\ (~TH!Enabled(g) => n # snapshot[g].name)
    BY <1>9 DEF TH!Taken
  <2>5. NamesApart'
    <3>1. ASSUME NEW g \in Files, NEW h \in Files, g # h, There(g)', There(h)'
          PROVE  disk'[g].name # disk'[h].name
      BY <1>3, <1>4, <2>1, <2>2, <2>4, <3>1 DEF NamesApart
    <3>2. ASSUME NEW g \in Files, NEW h \in Files, g # h, There(g)', There(h)', ~disk'[h].ok, Shot(h)'
          PROVE  disk'[g].name # snapshot'[h].name
      <4>1. CASE g = f
        <5>1. ~TH!Enabled(h)
          BY <1>4, <3>2, <4>1 DEF TH!Enabled
        <5> QED BY <1>2, <2>1, <2>4, <3>2, <4>1, <5>1
      <4>2. CASE h = f
        BY <1>2, <1>4, <1>5, <1>9, <2>1, <3>2, <4>2
      <4>3. CASE g # f /\ h # f
        BY <1>2, <1>3, <1>4, <1>5, <2>2, <3>2, <4>3 DEF NamesApart
      <4> QED BY <4>1, <4>2, <4>3
    <3>3. \A g \in Files : There(g)' /\ Shot(g)' /\ snapshot'[g].version = disk'[g].version
                           => snapshot'[g].name = disk'[g].name
      BY <1>2, <1>3, <1>4, <1>5, <1>7, <2>1, <2>2 DEF NamesApart, ToolTypes, Entry, TH!Unseen
    <3> QED BY <1>2, <1>3, <1>5, <3>1, <3>2, <3>3 DEF NamesApart
  <2>6. TableShot'
    <3>1. ASSUME NEW g \in Files, There(g)', Shot(g)' PROVE disk'[g].rpc <=> snapshot'[g].name \in DOMAIN hosts'
      <4>1. CASE g = f
        BY <1>2, <1>5, <1>9, <2>1, <3>1, <4>1 DEF TH!SameProtocol, Shot
      <4>2. CASE g # f
        BY <1>2, <1>3, <1>4, <1>5, <2>2, <3>1, <4>2 DEF TableShot
      <4> QED BY <4>1, <4>2
    <3> QED BY <1>2, <1>3, <1>5, <3>1 DEF TableShot, Served
  <2> QED BY <1>6, <2>3, <2>5, <2>6 DEF TableInv
<1> QED BY <1>1, <1>8, <1>9 DEF Shot

NamesOf(fs) == {disk[f].name : f \in fs}
Lived(fs) == {f \in fs : disk[f].rpc}

\* install_one over files with names of their own: each has its name, and the
\* long-lived ones their processes; the other names stay.
Installed(fs, table, running) ==
  /\ DOMAIN registry' = DOMAIN table \cup NamesOf(fs)
  /\ \A f \in fs : registry'[disk[f].name] = TH!Ext(f, disk[f])
  /\ \A n \in DOMAIN table \ NamesOf(fs) : registry'[n] = table[n]
  /\ DOMAIN hosts' = DOMAIN running \cup NamesOf(Lived(fs))
  /\ \A f \in fs : disk[f].rpc => hosts'[disk[f].name] = TH!Ext(f, disk[f])
  /\ \A n \in DOMAIN running \ NamesOf(Lived(fs)) : hosts'[n] = running[n]

LEMMA InstallIs ==
  ASSUME Undisturbed, NEW fs, NEW table, NEW running, TH!Install(fs, table, running),
         \A f, g \in fs : f # g => disk[f].name # disk[g].name
  PROVE  Installed(fs, table, running)
<1> DEFINE names == NamesOf(fs)
           own(n) == CHOOSE f \in fs : disk[f].name = n
           rpcs == NamesOf(Lived(fs))
           runs == {n \in names : disk[own(n)].rpc}
<1>1. /\ registry' = [n \in DOMAIN table \cup names |->
                         IF n \in names THEN TH!Ext(own(n), disk[own(n)]) ELSE table[n]]
      /\ hosts' = [n \in (DOMAIN running \ rpcs) \cup runs |->
                      IF n \in runs THEN TH!Ext(own(n), disk[own(n)]) ELSE running[n]]
  <2>1. "spawn" \notin Upsets /\ fs \ {} = fs
    BY DEF Undisturbed
  <2> QED BY <2>1 DEF TH!Install, NamesOf, Lived
<1>2. \A f \in fs : own(disk[f].name) = f
  <2> SUFFICES ASSUME NEW f \in fs PROVE own(disk[f].name) = f
    OBVIOUS
  <2>1. own(disk[f].name) \in fs /\ disk[own(disk[f].name)].name = disk[f].name
    OBVIOUS
  <2> QED BY <2>1
<1> HIDE DEF own
<1>3. runs = rpcs
  BY <1>2 DEF NamesOf, Lived
<1> HIDE DEF runs
<1> QED BY <1>1, <1>2, <1>3 DEF NamesOf, Lived, Installed

LEMMA ExtOf ==
  \A f, m : TH!Ext(f, m).of = {f} /\ TH!Ext(f, m).by = "ext" /\ TH!Ext(f, m).version = m.version
BY DEF TH!Ext

LEMMA StartTable == ASSUME Undisturbed, TableInv, TH!Startup PROVE TableInv'
<1>1. ToolTypes /\ NamesApart /\ TableShot /\ TableServers
  BY DEF TableInv
<1>2. /\ ~started /\ started' = TRUE /\ UNCHANGED <<remote, watch, missed, disk, version>>
      /\ snapshot' = [f \in Files |-> IF TH!Enabled(f) THEN TH!Seen(f) ELSE TH!Unseen]
  BY DEF TH!Startup
<1>3. PICK fs \in SUBSET Files : fs = {f \in Files : TH!Enabled(f)}
  OBVIOUS
<1>4. PICK table : table = TH!RegisterAll([n \in {<<"read", 0>>} |-> TH!Builtin])
  OBVIOUS
<1>5. TH!Install(fs, table, <<>>)
  BY <1>3, <1>4 DEF TH!Startup
<1>6. \A f \in fs : There(f) /\ disk[f] \in Manifest /\ disk[f].version > 0
  BY <1>1, <1>3, FilesTyped
<1>7. \A f, g \in fs : f # g => disk[f].name # disk[g].name
  BY <1>1, <1>6 DEF NamesApart
<1>8. PICK running : running = <<>>
  OBVIOUS
<1>9. DOMAIN running = {}
  BY <1>8
<1>10. TH!Install(fs, table, running)
  BY <1>5, <1>8
<1>11. /\ DOMAIN registry' = DOMAIN table \cup NamesOf(fs)
       /\ \A f \in fs : registry'[disk[f].name] = TH!Ext(f, disk[f])
       /\ \A n \in DOMAIN table \ NamesOf(fs) : registry'[n] = table[n]
       /\ DOMAIN hosts' = DOMAIN running \cup NamesOf(Lived(fs))
       /\ \A f \in fs : disk[f].rpc => hosts'[disk[f].name] = TH!Ext(f, disk[f])
  <2>1. Installed(fs, table, running)
    BY <1>7, <1>10, InstallIs
  <2> QED BY <2>1 DEF Installed
<1>12. /\ DOMAIN table = {<<"read", 0>>} \cup UNION {TH!Offered(s) : s \in Servers}
       /\ \A n \in DOMAIN table : table[n].by # "ext"
  BY <1>4 DEF TH!RegisterAll, TH!Builtin, TH!Mcp
<1>13. \A f \in Files : /\ Shot(f)' <=> f \in fs
                        /\ f \in fs => snapshot'[f] = TH!Seen(f)
                        /\ f \notin fs => snapshot'[f] = TH!Unseen
  <2>1. \A f \in fs : TH!Seen(f).version # TH!Unseen.version
    BY <1>6 DEF TH!Seen, TH!Unseen
  <2> QED BY <1>2, <1>3, <2>1 DEF Shot
<1>14. \A f \in fs : TH!Seen(f).name = disk[f].name /\ TH!Seen(f).version = disk[f].version
  BY DEF TH!Seen
<1>15. ToolTypes'
  <2>1. \A f \in fs : TH!Seen(f) \in Entry /\ TH!Seen(f).version <= version
    BY <1>1, <1>3, <1>6 DEF TH!Seen, Entry, Manifest, ToolTypes
  <2>2. TH!Unseen.version <= version
    BY <1>1 DEF ToolTypes, TH!Unseen
  <2> QED BY <1>1, <1>2, <1>3, <1>13, <2>1, <2>2 DEF ToolTypes
<1>16. NamesApart'
  <2>1. \A f \in Files : There(f)' <=> There(f)
    BY <1>2 DEF There
  <2>2. \A f \in Files : There(f) /\ ~disk[f].ok => f \notin fs
    BY <1>1, <1>3, FilesTyped
  <2> QED BY <1>1, <1>2, <1>7, <1>13, <1>14, <2>1, <2>2 DEF NamesApart
<1>17. TableShot'
  <2>1. \A f \in Files : Shot(f)' => /\ snapshot'[f].name \in DOMAIN registry'
                                     /\ registry'[snapshot'[f].name] = Served(f)'
    BY <1>11, <1>13, <1>14 DEF Served, TH!Ext, NamesOf
  <2>2. ASSUME NEW n \in DOMAIN registry', registry'[n].by = "ext"
        PROVE  \E f \in Files : Shot(f)' /\ registry'[n].of = {f} /\ snapshot'[f].name = n
    <3>1. PICK f \in fs : disk[f].name = n
      BY <1>11, <1>12, <2>2 DEF NamesOf
    <3>2. f \in Files /\ Shot(f)' /\ snapshot'[f].name = n
      BY <1>3, <1>13, <1>14, <3>1
    <3>3. registry'[n].of = {f}
      BY <1>11, <3>1, ExtOf
    <3> QED BY <3>2, <3>3
  <2>3. ASSUME NEW n \in DOMAIN hosts'
        PROVE  /\ n \in DOMAIN registry' /\ hosts'[n] = registry'[n]
               /\ \E f \in Files : Shot(f)' /\ hosts'[n].of = {f} /\ snapshot'[f].name = n
    <3>1. PICK f \in fs : disk[f].name = n /\ disk[f].rpc
      BY <1>9, <1>11, <2>3 DEF NamesOf, Lived
    <3>2. f \in Files /\ Shot(f)' /\ snapshot'[f].name = n
      BY <1>3, <1>13, <1>14, <3>1
    <3>3. hosts'[n] = registry'[n] /\ n \in DOMAIN registry'
      BY <1>11, <3>1 DEF NamesOf
    <3>4. hosts'[n].of = {f}
      BY <1>11, <3>1, ExtOf
    <3> QED BY <3>2, <3>3, <3>4
  <2>4. ASSUME NEW f \in Files, Shot(f)' PROVE disk'[f].rpc <=> snapshot'[f].name \in DOMAIN hosts'
    <3>1. f \in fs /\ snapshot'[f].name = disk[f].name
      BY <1>13, <1>14, <2>4
    <3> QED BY <1>2, <1>7, <1>9, <1>11, <3>1 DEF NamesOf, Lived
  <2> QED BY <2>1, <2>2, <2>3, <2>4 DEF TableShot
<1>18. TableServers'
  <2>1. \A f \in fs : disk[f].name \in ExtNames
    BY <1>6 DEF Manifest
  <2>2. \A s \in Servers : \A t : <<s, t>> \in DOMAIN registry' <=> t \in remote[s]
    <3>1. \A s \in Servers : \A t : <<s, t>> \in DOMAIN table <=> t \in remote[s]
      <4>1. \A s, x \in Servers : \A t : <<s, t>> \in TH!Offered(x) <=> s = x /\ t \in remote[s]
        BY DEF TH!Offered
      <4>2. \A s \in Servers : \A t : <<s, t>> # <<"read", 0>>
        BY Heads
      <4>3. ASSUME NEW s \in Servers, NEW t, <<s, t>> \in DOMAIN table PROVE t \in remote[s]
        <5>1. PICK x \in Servers : <<s, t>> \in TH!Offered(x)
          BY <1>12, <4>2, <4>3
        <5> QED BY <4>1, <5>1
      <4>4. ASSUME NEW s \in Servers, NEW t, t \in remote[s] PROVE <<s, t>> \in DOMAIN table
        BY <1>12, <4>1, <4>4
      <4> QED BY <4>3, <4>4
    <3>2. \A s \in Servers : \A t : <<s, t>> \notin NamesOf(fs)
      <4>1. \A s \in Servers : \A t : <<s, t>> \notin ExtNames
        BY Heads
      <4> QED BY <2>1, <4>1 DEF NamesOf
    <3> QED BY <1>11, <3>1, <3>2
  <2> QED BY <1>2, <1>11, <1>12, <2>2 DEF TableServers, TH!ServersAreTrue
<1> QED BY <1>15, <1>16, <1>17, <1>18 DEF TableInv

\* A server's list touches no name but those of that server.
LEMMA ListTable ==
  ASSUME Undisturbed, TableInv, TH!RefreshServer
  PROVE  TableInv'
<1>1. ToolTypes /\ NamesApart /\ TableShot /\ TableServers
  BY DEF TableInv
<1>2. PICK s \in watch :
        /\ watch' = watch \ {s}
        /\ \/ registry' = TH!Refreshed(registry, s) /\ missed' = missed \ {s}
           \/ missed' = missed \cup {s} /\ UNCHANGED registry
  BY DEF TH!RefreshServer
<1>3. started /\ UNCHANGED <<started, remote, disk, version, snapshot, hosts>>
  BY DEF TH!RefreshServer
<1>4. ToolTypes' /\ NamesApart' /\ \A f \in Files : (Shot(f)' <=> Shot(f)) /\ (There(f)' <=> There(f))
  BY <1>1, <1>2, <1>3 DEF ToolTypes, NamesApart, Shot, There
<1>5. CASE missed' = missed \cup {s} /\ UNCHANGED registry
  <2>1. TableShot'
    BY <1>1, <1>3, <1>4, <1>5 DEF TableShot, Served
  <2>2. TableServers'
    BY <1>1, <1>2, <1>3, <1>5 DEF TableServers, TH!ServersAreTrue, TH!Followed
  <2> QED BY <1>4, <2>1, <2>2 DEF TableInv
<1>6. CASE registry' = TH!Refreshed(registry, s) /\ missed' = missed \ {s} /\ s \in Servers
  <2> DEFINE offered == TH!Offered(s)
  <2>1. /\ \A n : n \in DOMAIN registry' <=> \/ n \in DOMAIN registry /\ (n[1] = s => n \in offered)
                                             \/ n \in offered /\ n \notin DOMAIN registry
        /\ \A n \in DOMAIN registry' : registry'[n] = IF n \in DOMAIN registry THEN registry[n] ELSE TH!Mcp(s)
    <3>1. \A n : TH!HasPrefix(n, s) <=> n[1] = s
      BY <1>6, Heads
    <3> HIDE DEF offered
    <3>2. registry' = [n \in (DOMAIN registry \cup (offered \ DOMAIN registry))
                               \ ({n \in DOMAIN registry : TH!HasPrefix(n, s)} \ offered) |->
                         IF n \in offered \ DOMAIN registry THEN TH!Mcp(s) ELSE registry[n]]
      BY <1>6 DEF TH!Refreshed, offered
    <3> QED BY <3>1, <3>2
  <2>2. \A x \in Servers : \A t : <<x, t>> \in offered <=> x = s /\ t \in remote[s]
    BY DEF TH!Offered
  <2>3. \A n \in offered : n[1] = s
    BY DEF TH!Offered
  <2> HIDE DEF offered
  <2>4. \A n \in ExtNames : /\ n \in DOMAIN registry' <=> n \in DOMAIN registry
                            /\ n \in DOMAIN registry => registry'[n] = registry[n]
    <3>1. \A n \in ExtNames : n[1] # s
      BY <1>6, Heads
    <3> QED BY <2>1, <2>3, <3>1
  <2>5. \A f \in Files : Shot(f) => snapshot[f].name \in ExtNames
    BY <1>1, FilesTyped DEF Entry
  <2>6. TableShot'
    <3>1. \A f \in Files : Shot(f)' => /\ snapshot'[f].name \in DOMAIN registry'
                                       /\ registry'[snapshot'[f].name] = Served(f)'
      BY <1>1, <1>3, <1>4, <2>4, <2>5 DEF TableShot, Served
    <3>2. ASSUME NEW n \in DOMAIN registry', registry'[n].by = "ext"
          PROVE  \E f \in Files : Shot(f)' /\ registry'[n].of = {f} /\ snapshot'[f].name = n
      <4>1. TH!Mcp(s).by = "mcp"
        BY DEF TH!Mcp
      <4>2. n \in DOMAIN registry /\ registry'[n] = registry[n]
        BY <2>1, <3>2, <4>1
      <4> QED BY <1>1, <1>3, <1>4, <3>2, <4>2 DEF TableShot
    <3>3. ASSUME NEW n \in DOMAIN hosts'
          PROVE  /\ n \in DOMAIN registry' /\ hosts'[n] = registry'[n]
                 /\ \E f \in Files : Shot(f)' /\ hosts'[n].of = {f} /\ snapshot'[f].name = n
      <4>1. PICK f \in Files : Shot(f) /\ hosts[n].of = {f} /\ snapshot[f].name = n
        BY <1>1, <1>3, <3>3 DEF TableShot
      <4>2. n \in DOMAIN registry /\ hosts[n] = registry[n]
        BY <1>1, <1>3, <3>3 DEF TableShot
      <4> QED BY <1>3, <1>4, <2>4, <2>5, <4>1, <4>2
    <3> QED BY <1>1, <1>3, <1>4, <3>1, <3>2, <3>3 DEF TableShot
  <2>7. TableServers'
    <3>1. \A t : <<s, t>> \in DOMAIN registry' <=> t \in remote[s]
      <4>1. \A t : <<s, t>>[1] = s
        OBVIOUS
      <4> QED BY <1>6, <2>1, <2>2, <4>1
    <3>2. \A x \in Servers \ {s} : \A t : <<x, t>> \in DOMAIN registry' <=> <<x, t>> \in DOMAIN registry
      <4>1. \A x \in Servers \ {s} : \A t : <<x, t>>[1] # s
        OBVIOUS
      <4> QED BY <2>1, <2>3, <4>1
    <3>3. <<"read", 0>> \in DOMAIN registry'
      <4>1. <<"read", 0>>[1] # s
        BY <1>6, Heads
      <4> QED BY <1>1, <1>3, <2>1, <4>1 DEF TableServers
    <3>4. \A x \in Servers \ {s} : TH!Followed(x)' => TH!Followed(x)
      BY <1>2, <1>3, <1>6 DEF TH!Followed
    <3>5. TH!ServersAreTrue'
      BY <1>1, <1>3, <3>1, <3>2, <3>4 DEF TableServers, TH!ServersAreTrue
    <3> QED BY <1>3, <3>3, <3>5 DEF TableServers
  <2> QED BY <1>4, <2>6, <2>7 DEF TableInv
<1>7. s \in Servers
  BY <1>1, <1>2 DEF ToolTypes
<1> QED BY <1>2, <1>5, <1>6, <1>7

\* What a server changes is announced, or noted as missed.
LEMMA RemoteTable == ASSUME TableInv, TH!RemoteChange PROVE TableInv'
<1>1. ToolTypes /\ NamesApart /\ TableShot /\ TableServers
  BY DEF TableInv
<1>2. PICK s \in Servers, ts \in SUBSET Tools :
        /\ remote' = [remote EXCEPT ![s] = ts]
        /\ \/ watch' = watch \cup {s} /\ UNCHANGED missed
           \/ missed' = missed \cup {s} /\ UNCHANGED watch
  BY DEF TH!RemoteChange
<1>3. started /\ UNCHANGED <<started, disk, version, snapshot, hosts, registry>>
  BY DEF TH!RemoteChange
<1>4. /\ remote' \in [Servers -> SUBSET Tools] /\ watch' \subseteq Servers
      /\ \A x \in Servers \ {s} : remote'[x] = remote[x]
  BY <1>1, <1>2 DEF ToolTypes
<1>5. ToolTypes' /\ NamesApart' /\ TableShot'
  BY <1>1, <1>3, <1>4 DEF ToolTypes, NamesApart, TableShot, Shot, There, Served
<1>6. ~TH!Followed(s)' /\ \A x \in Servers : TH!Followed(x)' => TH!Followed(x)
  BY <1>2, <1>3 DEF TH!Followed
<1>7. TableServers'
  BY <1>1, <1>3, <1>4, <1>6 DEF TableServers, TH!ServersAreTrue
<1> QED BY <1>5, <1>7 DEF TableInv

LEMMA FollowTable == ASSUME Undisturbed, TableInv, TH!RefreshExtensions PROVE TableInv'
<1>1. ToolTypes /\ NamesApart /\ TableShot /\ TableServers
  BY DEF TableInv
<1>2. PICK fs \in SUBSET Files : fs = {f \in Files : TH!Enabled(f) /\ snapshot[f].version # disk[f].version}
  OBVIOUS
<1>3. PICK gone : gone = TH!Gone(fs)
  OBVIOUS
<1>4. PICK table : table = TH!Drop(registry, gone)
  OBVIOUS
<1>5. PICK running : running = TH!Drop(hosts, gone)
  OBVIOUS
<1>6. /\ started /\ UNCHANGED <<started, remote, watch, missed, disk, version>>
      /\ snapshot' = [f \in Files |-> CASE f \in fs -> TH!Seen(f)
                                        [] disk[f] = TH!NoFile -> TH!Unseen
                                        [] OTHER -> snapshot[f]]
      /\ TH!Install(fs, table, running)
  BY <1>2, <1>3, <1>4, <1>5 DEF TH!RefreshExtensions
<1>7. \A f \in fs : f \in Files /\ There(f) /\ disk[f] \in Manifest /\ disk[f].version > 0
  BY <1>1, <1>2, FilesTyped
<1>8. \A f, g \in fs : f # g => disk[f].name # disk[g].name
  BY <1>1, <1>7 DEF NamesApart
<1>9. Installed(fs, table, running)
  BY <1>6, <1>8, InstallIs
<1>10. /\ DOMAIN table = DOMAIN registry \ gone /\ \A n \in DOMAIN table : table[n] = registry[n]
       /\ DOMAIN running = DOMAIN hosts \ gone /\ \A n \in DOMAIN running : running[n] = hosts[n]
  BY <1>4, <1>5 DEF TH!Drop
<1>11. \A n : n \in gone <=>
         \E f \in Files : /\ Shot(f) /\ snapshot[f].name = n
                          /\ ~There(f) \/ (f \in fs /\ snapshot[f].name # disk[f].name)
  <2> DEFINE lost == {f \in Files : disk[f] = TH!NoFile /\ snapshot[f] # TH!Unseen}
             renamed == {f \in fs : snapshot[f] # TH!Unseen /\ snapshot[f].name # disk[f].name}
  <2>1. gone = {snapshot[f].name : f \in lost \cup renamed}
    BY <1>3 DEF TH!Gone
  <2>2. \A f : f \in lost \cup renamed <=>
          /\ f \in Files /\ Shot(f)
          /\ ~There(f) \/ (f \in fs /\ snapshot[f].name # disk[f].name)
    BY <1>2 DEF Shot, There
  <2> HIDE DEF lost, renamed
  <2> QED BY <2>1, <2>2
<1>12. \A f \in fs : TH!Seen(f).name = disk[f].name /\ TH!Seen(f).version = disk[f].version
  BY DEF TH!Seen
\* What the snapshot becomes.
<1>13. \A f \in Files : /\ f \in fs => Shot(f)' /\ snapshot'[f] = TH!Seen(f)
                        /\ f \notin fs /\ ~There(f) => ~Shot(f)'
                        /\ f \notin fs /\ There(f) => snapshot'[f] = snapshot[f] /\ (Shot(f)' <=> Shot(f))
  <2>1. \A f \in fs : TH!Seen(f).version # TH!Unseen.version
    BY <1>7, <1>12 DEF TH!Unseen
  <2> QED BY <1>6, <1>7, <2>1 DEF Shot, There
\* A file that is there and did not change keeps its name for itself.
<1>14. ASSUME NEW f \in Files \ fs, There(f), Shot(f), NEW g \in fs
       PROVE  disk[g].name # snapshot[f].name
  <2>1. f # g /\ There(g)
    BY <1>7
  <2>2. CASE disk[f].ok
    <3>1. snapshot[f].version = disk[f].version
      BY <1>1, <1>2, <1>14, <2>2, FilesTyped
    <3> QED BY <1>1, <1>7, <1>14, <2>1, <3>1 DEF NamesApart
  <2>3. CASE ~disk[f].ok
    BY <1>1, <1>7, <1>14, <2>1, <2>3 DEF NamesApart
  <2> QED BY <2>2, <2>3
<1>15. ASSUME NEW f \in Files \ fs, There(f), Shot(f) PROVE snapshot[f].name \notin gone
  BY <1>1, <1>11, <1>15 DEF NamesApart
<1>16. ASSUME NEW f \in Files, Shot(f), snapshot[f].name \notin gone
       PROVE  There(f) /\ (f \in fs => snapshot[f].name = disk[f].name)
  BY <1>11, <1>16
<1>17. ToolTypes'
  <2>1. \A f \in fs : TH!Seen(f) \in Entry /\ TH!Seen(f).version <= version
    BY <1>1, <1>7 DEF TH!Seen, Entry, Manifest, ToolTypes
  <2>2. TH!Unseen.version <= version
    BY <1>1 DEF ToolTypes, TH!Unseen
  <2>3. \A f \in Files : /\ snapshot'[f] \in Entry \cup {TH!Unseen} /\ snapshot'[f].version <= version
    BY <1>1, <1>6, <2>1, <2>2 DEF ToolTypes
  <2> QED BY <1>1, <1>6, <2>3 DEF ToolTypes
<1>18. NamesApart'
  <2>1. \A f \in Files : There(f)' <=> There(f)
    BY <1>6 DEF There
  <2>2. \A f \in Files : There(f) /\ ~disk[f].ok => f \notin fs
    BY <1>1, <1>2, FilesTyped
  <2>3. ASSUME NEW f \in Files, NEW g \in Files, f # g, Shot(f)', Shot(g)'
        PROVE  snapshot'[f].name # snapshot'[g].name
    <3>1. \A h \in Files : Shot(h)' => h \in fs \/ (There(h) /\ Shot(h))
      BY <1>13
    <3>2. CASE f \in fs /\ g \in fs
      BY <1>8, <1>12, <1>13, <2>3, <3>2
    <3>3. CASE f \in fs /\ g \notin fs
      BY <1>12, <1>13, <1>14, <2>3, <3>1, <3>3
    <3>4. CASE f \notin fs /\ g \in fs
      BY <1>12, <1>13, <1>14, <2>3, <3>1, <3>4
    <3>5. CASE f \notin fs /\ g \notin fs
      BY <1>1, <1>13, <2>3, <3>1, <3>5 DEF NamesApart
    <3> QED BY <3>2, <3>3, <3>4, <3>5
  <2>4. \A f, g \in Files : f # g /\ There(f) /\ There(g) /\ ~disk[g].ok /\ Shot(g)'
                            => disk[f].name # snapshot'[g].name
    BY <1>1, <1>13, <2>2 DEF NamesApart
  <2>5. \A f \in Files : There(f) /\ Shot(f)' /\ snapshot'[f].version = disk[f].version
                         => snapshot'[f].name = disk[f].name
    BY <1>1, <1>12, <1>13 DEF NamesApart
  <2> QED BY <1>1, <1>6, <2>1, <2>3, <2>4, <2>5 DEF NamesApart
\* A file that is served as before.
<1>19. ASSUME NEW f \in Files \ fs, There(f), Shot(f)
       PROVE  LET n == snapshot[f].name IN
              /\ n \in DOMAIN registry' /\ registry'[n] = registry[n]
              /\ n \in DOMAIN hosts' <=> n \in DOMAIN hosts
              /\ n \in DOMAIN hosts => hosts'[n] = hosts[n]
  <2> DEFINE n == snapshot[f].name
  <2>1. n \notin gone /\ n \notin NamesOf(fs) /\ n \notin NamesOf(Lived(fs)) /\ n \in DOMAIN registry
    BY <1>1, <1>14, <1>15, <1>19 DEF NamesOf, Lived, TableShot
  <2> HIDE DEF n
  <2>2. n \in DOMAIN registry' /\ registry'[n] = registry[n]
    BY <1>9, <1>10, <2>1 DEF Installed
  <2>3. n \in DOMAIN hosts' <=> n \in DOMAIN hosts
    BY <1>9, <1>10, <2>1 DEF Installed
  <2>4. n \in DOMAIN hosts => hosts'[n] = hosts[n]
    BY <1>9, <1>10, <2>1 DEF Installed
  <2> QED BY <2>2, <2>3, <2>4 DEF n
<1>20. TableShot'
  <2>1. ASSUME NEW f \in Files, Shot(f)'
        PROVE  snapshot'[f].name \in DOMAIN registry' /\ registry'[snapshot'[f].name] = Served(f)'
    <3>1. CASE f \in fs
      <4>1. snapshot'[f].name = disk[f].name /\ snapshot'[f].version = disk[f].version
        BY <1>12, <1>13, <3>1
      <4> QED BY <1>9, <3>1, <4>1 DEF Installed, NamesOf, Served, TH!Ext
    <3>2. CASE f \notin fs
      BY <1>1, <1>13, <1>19, <2>1, <3>2 DEF TableShot, Served
    <3> QED BY <3>1, <3>2
  \* A file whose name stays in the table and is not written anew did not change.
  <2>2. ASSUME NEW n, n \notin gone, NEW f \in Files, Shot(f), snapshot[f].name = n,
               n \notin NamesOf(fs)
        PROVE  f \notin fs /\ There(f)
    BY <1>16, <2>2 DEF NamesOf
  <2>3. ASSUME NEW n \in DOMAIN registry', registry'[n].by = "ext"
        PROVE  \E f \in Files : Shot(f)' /\ registry'[n].of = {f} /\ snapshot'[f].name = n
    <3>1. CASE n \in NamesOf(fs)
      <4>1. PICK f \in fs : disk[f].name = n
        BY <3>1 DEF NamesOf
      <4>2. registry'[n].of = {f}
        BY <1>9, <4>1, ExtOf DEF Installed
      <4> QED BY <1>7, <1>12, <1>13, <4>1, <4>2
    <3>2. CASE n \notin NamesOf(fs)
      <4>1. n \in DOMAIN registry /\ n \notin gone /\ registry'[n] = registry[n]
        BY <1>9, <1>10, <2>3, <3>2 DEF Installed
      <4>2. PICK f \in Files : Shot(f) /\ registry[n].of = {f} /\ snapshot[f].name = n
        BY <1>1, <2>3, <4>1 DEF TableShot
      <4> QED BY <1>13, <2>2, <3>2, <4>1, <4>2
    <3> QED BY <3>1, <3>2
  <2>4. ASSUME NEW n \in DOMAIN hosts'
        PROVE  /\ n \in DOMAIN registry' /\ hosts'[n] = registry'[n]
               /\ \E f \in Files : Shot(f)' /\ hosts'[n].of = {f} /\ snapshot'[f].name = n
    <3>1. CASE n \in NamesOf(Lived(fs))
      <4>1. PICK f \in fs : disk[f].name = n /\ disk[f].rpc
        BY <3>1 DEF NamesOf, Lived
      <4>2. registry'[n] = TH!Ext(f, disk[f]) /\ hosts'[n] = TH!Ext(f, disk[f]) /\ n \in DOMAIN registry'
        BY <1>9, <4>1 DEF Installed, NamesOf
      <4>3. hosts'[n].of = {f}
        BY <4>2, ExtOf
      <4> QED BY <1>7, <1>12, <1>13, <4>1, <4>2, <4>3
    <3>2. CASE n \notin NamesOf(Lived(fs))
      <4>1. n \in DOMAIN hosts /\ n \notin gone /\ hosts'[n] = hosts[n]
        BY <1>9, <1>10, <2>4, <3>2 DEF Installed
      <4>2. PICK f \in Files : Shot(f) /\ hosts[n].of = {f} /\ snapshot[f].name = n
        BY <1>1, <4>1 DEF TableShot
      <4>3. There(f) /\ (f \in fs => disk[f].name = n)
        BY <1>16, <4>1, <4>2
      <4>4. disk[f].rpc
        BY <1>1, <4>1, <4>2, <4>3 DEF TableShot
      <4>5. f \notin fs
        BY <3>2, <4>3, <4>4 DEF NamesOf, Lived
      <4> QED BY <1>1, <1>13, <1>19, <4>1, <4>2, <4>3, <4>5 DEF TableShot
    <3> QED BY <3>1, <3>2
  <2>5. ASSUME NEW f \in Files, There(f), Shot(f)'
        PROVE  disk[f].rpc <=> snapshot'[f].name \in DOMAIN hosts'
    <3>1. CASE f \notin fs
      BY <1>1, <1>13, <1>19, <2>5, <3>1 DEF TableShot
    <3>2. CASE f \in fs /\ disk[f].rpc
      BY <1>9, <1>12, <1>13, <3>2 DEF Installed, NamesOf, Lived
    <3>3. CASE f \in fs /\ ~disk[f].rpc
      <4>1. snapshot'[f].name = disk[f].name
        BY <1>12, <1>13, <3>3
      <4>2. ASSUME disk[f].name \in DOMAIN hosts' PROVE FALSE
        <5>1. PICK g \in Files : Shot(g)' /\ hosts'[disk[f].name].of = {g} /\ snapshot'[g].name = disk[f].name
          BY <2>4, <4>2
        <5>2. g = f
          BY <1>7, <1>18, <3>3, <4>1, <5>1, <2>5 DEF NamesApart
        <5>3. disk[f].name \notin NamesOf(Lived(fs))
          BY <1>8, <3>3 DEF NamesOf, Lived
        <5>4. disk[f].name \in DOMAIN hosts /\ disk[f].name \notin gone /\ hosts'[disk[f].name] = hosts[disk[f].name]
          BY <1>9, <1>10, <4>2, <5>3 DEF Installed
        <5>5. PICK h \in Files : Shot(h) /\ hosts[disk[f].name].of = {h} /\ snapshot[h].name = disk[f].name
          BY <1>1, <5>4 DEF TableShot
        <5>6. h = f
          BY <5>1, <5>2, <5>4, <5>5
        <5> QED BY <1>1, <2>5, <3>3, <5>4, <5>5, <5>6 DEF TableShot
      <4> QED BY <3>3, <4>1, <4>2
    <3> QED BY <3>1, <3>2, <3>3
  <2>6. \A f \in Files : There(f)' <=> There(f)
    BY <1>6 DEF There
  <2>7. \A f \in Files : There(f)' /\ Shot(f)' => (disk'[f].rpc <=> snapshot'[f].name \in DOMAIN hosts')
    BY <1>6, <2>5, <2>6
  <2> QED BY <2>1, <2>3, <2>4, <2>7 DEF TableShot
<1>21. TableServers'
  <2>1. gone \subseteq ExtNames /\ NamesOf(fs) \subseteq ExtNames
    BY <1>1, <1>7, <1>11, FilesTyped DEF NamesOf, Manifest, Entry
  <2>2. \A n : n \notin ExtNames => (n \in DOMAIN registry' <=> n \in DOMAIN registry)
    BY <1>9, <1>10, <2>1 DEF Installed
  <2>3. \A s \in Servers : \A t : <<s, t>> \in DOMAIN registry' <=> <<s, t>> \in DOMAIN registry
    <3>1. \A s \in Servers : \A t : <<s, t>> \notin ExtNames
      BY Heads
    <3> QED BY <2>2, <3>1
  <2>4. <<"read", 0>> \in DOMAIN registry'
    <3>1. <<"read", 0>> \notin ExtNames
      BY Heads
    <3> QED BY <1>1, <1>6, <2>2, <3>1 DEF TableServers
  <2>5. TH!ServersAreTrue'
    BY <1>1, <1>6, <2>3 DEF TableServers, TH!ServersAreTrue, TH!Followed
  <2> QED BY <1>6, <2>4, <2>5 DEF TableServers
<1> QED BY <1>17, <1>18, <1>20, <1>21 DEF TableInv

LEMMA NextTable == ASSUME Undisturbed PROVE TableInv /\ [TH!Next]_TH!toolVars => TableInv'
<1> SUFFICES ASSUME TableInv, [TH!Next]_TH!toolVars PROVE TableInv'
  OBVIOUS
<1>1. CASE UNCHANGED TH!toolVars
  <2>1. ToolTypes' /\ NamesApart' /\ TableShot'
    BY <1>1 DEF TH!toolVars, TableInv, ToolTypes, NamesApart, TableShot, Shot, There, Served
  <2>2. TableServers'
    BY <1>1 DEF TH!toolVars, TableInv, TableServers, TH!ServersAreTrue, TH!Followed, Shot
  <2> QED BY <2>1, <2>2 DEF TableInv
<1> QED BY <1>1, RemoteTable, ListTable, StartTable, FollowTable, EditTable DEF TH!Next

\* When the announcements are worked off and the files were looked at, the
\* table of tools is what servers and manifests say, for any number of servers,
\* tools and files; a list that fails and an announcement that is lost are
\* allowed (rupi-mcp, rupi-tools, rupi-ext).
THEOREM TableIsKept == ASSUME Undisturbed PROVE Spec => []TableIsTrue
<1>1. Init => TableInv
  BY Parts, InitTable
<1>2. TableInv /\ [Next]_vars => TableInv'
  BY Parts, NextTable
<1>3. TableInv => TableIsTrue
  BY TableHolds DEF TableIsTrue
<1> QED BY <1>1, <1>2, <1>3, PTL DEF Spec
(* Induction over the naturals, as a statement about sets *)

\* A set of naturals has a least element.
LEMMA LeastNat ==
  ASSUME NEW T, T \subseteq Nat, T # {}
  PROVE  \E x \in T : \A y \in T : x <= y
<1> DEFINE R == {p \in Nat \X Nat : p[1] < p[2]}
<1>1. IsWellFoundedOn(R, Nat)
  BY NatLessThanWellFounded DEF OpToRel
<1>2. \A x, y \in Nat : x < y => <<x, y>> \in R
  OBVIOUS
<1> HIDE DEF R
<1>3. PICK x \in T : \A y \in T : ~(<<y, x>> \in R)
  BY <1>1, WFMin
<1>4. \A y \in T : x <= y
  <2> TAKE y \in T
  <2>1. x \in Nat /\ y \in Nat
    OBVIOUS
  <2>2. ~(y < x)
    BY <1>2, <1>3, <2>1
  <2> QED BY <2>1, <2>2
<1> QED BY <1>4

LEMMA SetInduction ==
  ASSUME NEW T, 0 \in T, \A n \in Nat : n \in T => n + 1 \in T
  PROVE  Nat \subseteq T
<1> SUFFICES ASSUME Nat \ T # {} PROVE FALSE
  OBVIOUS
<1>1. PICK m \in Nat \ T : \A y \in Nat \ T : m <= y
  BY LeastNat
<1>2. m # 0 /\ m - 1 \in Nat
  BY <1>1
<1>3. m - 1 \in T
  BY <1>1, <1>2
<1> QED BY <1>1, <1>2, <1>3


-----------------------------------------------------------------------------
(* The tree of a session *)

\* Parents are older nodes; there is one root.
Tree(par) ==
  /\ DOMAIN par \subseteq 1..MaxId
  /\ \A i \in DOMAIN par : par[i] \in {0} \cup DOMAIN par /\ par[i] < i

OneRoot(par) == \A i, j \in DOMAIN par : par[i] = 0 /\ par[j] = 0 => i = j

\* What holds of a node when it holds of its parent, holds of all nodes.
LEMMA TreeInduction ==
  ASSUME NEW par, Tree(par), NEW T,
         \A n \in DOMAIN par : (par[n] # 0 => par[n] \in T) => n \in T
  PROVE  DOMAIN par \subseteq T
<1> SUFFICES ASSUME DOMAIN par \ T # {} PROVE FALSE
  OBVIOUS
<1>1. DOMAIN par \ T \subseteq Nat
  BY DEF Tree
<1>2. PICK m \in DOMAIN par \ T : \A y \in DOMAIN par \ T : m <= y
  BY <1>1, LeastNat
<1>3. par[m] # 0 /\ par[m] \in DOMAIN par \ T
  BY <1>2 DEF Tree
<1>4. m \in Nat /\ par[m] \in Nat /\ par[m] < m
  BY <1>1, <1>2, <1>3 DEF Tree
<1> QED BY <1>2, <1>3, <1>4

\* The function by which SessionHost computes the ancestors of a node exists.
LEMMA ChainExists ==
  ASSUME NEW par, Tree(par), NEW m \in Nat
  PROVE  \E f : f = [k \in 0..m |-> IF k \in DOMAIN par THEN {k} \cup f[par[k]] ELSE {}]
<1> DEFINE T == {n \in Nat : \E f : f = [k \in 0..n |-> IF k \in DOMAIN par THEN {k} \cup f[par[k]] ELSE {}]}
<1>1. 0 \in T
  <2> DEFINE f == [k \in 0..0 |-> {}]
             g == [k \in 0..0 |-> IF k \in DOMAIN par THEN {k} \cup f[par[k]] ELSE {}]
  <2>1. \A k \in 0..0 : k \notin DOMAIN par
    BY DEF Tree
  <2>2. f = g
    BY <2>1
  <2> HIDE DEF f
  <2> QED BY <2>2
<1>2. ASSUME NEW n \in Nat, n \in T PROVE n + 1 \in T
  <2>1. PICK f : f = [k \in 0..n |-> IF k \in DOMAIN par THEN {k} \cup f[par[k]] ELSE {}]
    BY <1>2
  <2> DEFINE g == [k \in 0..(n + 1) |->
                     IF k <= n THEN f[k]
                     ELSE IF k \in DOMAIN par THEN {k} \cup f[par[k]] ELSE {}]
             h == [k \in 0..(n + 1) |-> IF k \in DOMAIN par THEN {k} \cup g[par[k]] ELSE {}]
  <2>2. ASSUME NEW k \in 0..(n + 1) PROVE g[k] = h[k]
    <3>1. k \in DOMAIN par => par[k] \in 0..n /\ g[par[k]] = f[par[k]]
      <4> SUFFICES ASSUME k \in DOMAIN par PROVE par[k] \in 0..n /\ g[par[k]] = f[par[k]]
        OBVIOUS
      <4>1. par[k] \in Nat /\ par[k] < k
        BY DEF Tree
      <4>2. par[k] \in 0..n
        BY <4>1
      <4> QED BY <4>2
    <3>2. h[k] = IF k \in DOMAIN par THEN {k} \cup g[par[k]] ELSE {}
      OBVIOUS
    <3>3. CASE k <= n
      <4>1. g[k] = f[k] /\ k \in 0..n
        BY <3>3
      <4>2. f[k] = IF k \in DOMAIN par THEN {k} \cup f[par[k]] ELSE {}
        BY <2>1, <4>1
      <4> HIDE DEF g, h
      <4> QED BY <3>1, <3>2, <4>1, <4>2
    <3>4. CASE ~(k <= n)
      <4>1. g[k] = IF k \in DOMAIN par THEN {k} \cup f[par[k]] ELSE {}
        BY <3>4
      <4> HIDE DEF g, h
      <4> QED BY <3>1, <3>2, <4>1
    <3> QED BY <3>3, <3>4
  <2>3. g = h
    BY <2>2
  <2> HIDE DEF g
  <2> QED BY <2>3
<1>3. m \in T
  <2> HIDE DEF T
  <2> QED BY <1>1, <1>2, SetInduction
<1> QED BY <1>3

\* A node of the tree is on its chain, before it the chain of its parent.
LEMMA ChainStep ==
  ASSUME NEW par, Tree(par), NEW n \in 0..MaxId
  PROVE  SH!Chain(par, n) = IF n \in DOMAIN par THEN {n} \cup SH!Chain(par, par[n]) ELSE {}
<1> DEFINE Is(f) == f = [k \in 0..MaxId |-> IF k \in DOMAIN par THEN {k} \cup f[par[k]] ELSE {}]
           c == CHOOSE f : Is(f)
<1>1. MaxId \in Nat
  BY MCSafetyAssumption
<1>2. \E f : Is(f)
  BY <1>1, ChainExists
<1>3. \A k : SH!Chain(par, k) = c[k]
  BY DEF SH!Chain
<1>4. Is(c)
  <2> HIDE DEF Is
  <2> QED BY <1>2
<1> HIDE DEF c
<1>5. c[n] = IF n \in DOMAIN par THEN {n} \cup c[par[n]] ELSE {}
  BY <1>4
<1> QED BY <1>3, <1>5

LEMMA ChainZero == ASSUME NEW par, Tree(par) PROVE SH!Chain(par, 0) = {}
<1>1. 0 \notin DOMAIN par /\ 0 \in 0..MaxId
  BY MCSafetyAssumption DEF Tree
<1> QED BY <1>1, ChainStep

LEMMA ChainNode ==
  ASSUME NEW par, Tree(par), NEW n \in DOMAIN par
  PROVE  SH!Chain(par, n) = {n} \cup SH!Chain(par, par[n])
<1>1. n \in 0..MaxId
  BY DEF Tree
<1> QED BY <1>1, ChainStep

\* A chain is made of nodes up to its end; what it has of a node's parents is
\* the chain of that node.
LEMMA ChainInside ==
  ASSUME NEW par, Tree(par)
  PROVE  \A n \in DOMAIN par :
           /\ n \in SH!Chain(par, n)
           /\ \A i \in SH!Chain(par, n) : i \in DOMAIN par /\ i <= n
<1> DEFINE T == {n \in DOMAIN par : \A i \in SH!Chain(par, n) : i \in DOMAIN par /\ i <= n}
<1>1. ASSUME NEW n \in DOMAIN par, par[n] # 0 => par[n] \in T PROVE n \in T
  <2> SUFFICES ASSUME NEW i \in SH!Chain(par, n) PROVE i \in DOMAIN par /\ i <= n
    OBVIOUS
  <2>1. i = n \/ i \in SH!Chain(par, par[n])
    BY ChainNode
  <2>2. i \in SH!Chain(par, par[n]) => par[n] \in T /\ i \in DOMAIN par /\ i <= par[n]
    BY <1>1, ChainZero
  <2>3. n \in Nat /\ par[n] \in Nat /\ par[n] < n /\ (i \in DOMAIN par => i \in Nat)
    BY DEF Tree
  <2> QED BY <2>1, <2>2, <2>3
<1>2. DOMAIN par \subseteq T
  <2> HIDE DEF T
  <2> QED BY <1>1, TreeInduction
<1> QED BY <1>2, ChainNode

LEMMA ChainBelow ==
  ASSUME NEW par, Tree(par)
  PROVE  \A n \in DOMAIN par : \A i \in SH!Chain(par, n) :
           SH!Chain(par, i) = {j \in SH!Chain(par, n) : j <= i}
<1> DEFINE C(n) == SH!Chain(par, n)
           T == {n \in DOMAIN par : \A i \in C(n) : C(i) = {j \in C(n) : j <= i}}
<1>1. ASSUME NEW n \in DOMAIN par, par[n] # 0 => par[n] \in T PROVE n \in T
  <2> SUFFICES ASSUME NEW i \in C(n) PROVE C(i) = {j \in C(n) : j <= i}
    OBVIOUS
  <2>1. C(n) = {n} \cup C(par[n])
    BY ChainNode
  <2>2. n \in Nat /\ \A j \in C(n) : j \in Nat /\ j <= n
    BY ChainInside DEF Tree
  <2>3. CASE i = n
    <3> HIDE DEF C
    <3> QED BY <2>2, <2>3
  <2>4. CASE i # n
    <3>1. i \in C(par[n]) /\ par[n] # 0
      BY <2>1, <2>4, ChainZero
    <3>2. C(i) = {j \in C(par[n]) : j <= i}
      BY <1>1, <3>1
    <3>3. ~(n <= i)
      <4>1. i \in Nat /\ i <= n
        BY <2>2
      <4> QED BY <4>1, <2>2, <2>4
    <3> HIDE DEF C
    <3> QED BY <2>1, <3>2, <3>3
  <2> QED BY <2>3, <2>4
<1>2. DOMAIN par \subseteq T
  <2> HIDE DEF T
  <2> QED BY <1>1, TreeInduction
<1> QED BY <1>2

\* Each chain begins at a root.
LEMMA ChainRoot ==
  ASSUME NEW par, Tree(par)
  PROVE  \A n \in DOMAIN par : \E r \in SH!Chain(par, n) : r \in DOMAIN par /\ par[r] = 0
<1> DEFINE T == {n \in DOMAIN par : \E r \in SH!Chain(par, n) : r \in DOMAIN par /\ par[r] = 0}
<1>1. ASSUME NEW n \in DOMAIN par, par[n] # 0 => par[n] \in T PROVE n \in T
  BY <1>1, ChainNode
<1>2. DOMAIN par \subseteq T
  <2> HIDE DEF T
  <2> QED BY <1>1, TreeInduction
<1> QED BY <1>2

\* With a node its parent is on the chain.
LEMMA ChainClosed ==
  ASSUME NEW par, Tree(par), NEW n \in DOMAIN par, NEW i \in SH!Chain(par, n), par[i] # 0
  PROVE  par[i] \in SH!Chain(par, n)
<1>1. i \in DOMAIN par /\ par[i] \in DOMAIN par
  BY ChainInside DEF Tree
<1>2. par[i] \in SH!Chain(par, i)
  BY <1>1, ChainNode, ChainInside
<1> QED BY <1>2, ChainBelow

\* Nodes added or taken away elsewhere do not change a chain.
LEMMA ChainSame ==
  ASSUME NEW par, NEW new, Tree(par), Tree(new),
         \A i \in DOMAIN par : i \in DOMAIN new /\ new[i] = par[i]
  PROVE  \A n \in DOMAIN par : SH!Chain(new, n) = SH!Chain(par, n)
<1> DEFINE T == {n \in DOMAIN par : SH!Chain(new, n) = SH!Chain(par, n)}
<1>1. ASSUME NEW n \in DOMAIN par, par[n] # 0 => par[n] \in T PROVE n \in T
  <2>1. SH!Chain(new, n) = {n} \cup SH!Chain(new, par[n])
    BY ChainNode
  <2>2. SH!Chain(par, n) = {n} \cup SH!Chain(par, par[n])
    BY ChainNode
  <2> QED BY <1>1, <2>1, <2>2, ChainZero
<1>2. DOMAIN par \subseteq T
  <2> HIDE DEF T
  <2> QED BY <1>1, TreeInduction
<1> QED BY <1>2

\* m gives new ids to nodes that are closed under parents.
Copied(par, S, m, new) ==
  /\ S \subseteq DOMAIN par /\ \A i \in S : par[i] \in {0} \cup S
  /\ \A i \in S : m[i] \in DOMAIN new /\ new[m[i]] = IF par[i] \in S THEN m[par[i]] ELSE 0

LEMMA ChainCopied ==
  ASSUME NEW par, NEW S, NEW m, NEW new, Tree(par), Tree(new), Copied(par, S, m, new)
  PROVE  \A n \in S : \A j \in SH!Chain(new, m[n]) : \E i \in SH!Chain(par, n) : i \in S /\ j = m[i]
<1> DEFINE Holds(n) == \A j \in SH!Chain(new, m[n]) : \E i \in SH!Chain(par, n) : i \in S /\ j = m[i]
           T == {n \in DOMAIN par : n \in S => Holds(n)}
<1>1. ASSUME NEW n \in DOMAIN par, par[n] # 0 => par[n] \in T PROVE n \in T
  <2> SUFFICES ASSUME n \in S, NEW j \in SH!Chain(new, m[n])
               PROVE  \E i \in SH!Chain(par, n) : i \in S /\ j = m[i]
    OBVIOUS
  <2>1. SH!Chain(new, m[n]) = {m[n]} \cup SH!Chain(new, new[m[n]])
    BY ChainNode DEF Copied
  <2>2. SH!Chain(par, n) = {n} \cup SH!Chain(par, par[n])
    BY ChainNode
  <2>3. CASE j = m[n]
    BY <2>2, <2>3
  <2>4. CASE j \in SH!Chain(new, new[m[n]])
    <3>1. new[m[n]] # 0
      BY <2>4, ChainZero
    <3>2. par[n] \in S /\ new[m[n]] = m[par[n]]
      BY <3>1 DEF Copied
    <3>3. par[n] # 0
      BY <3>2 DEF Copied, Tree
    <3>4. Holds(par[n])
      BY <1>1, <3>2, <3>3
    <3> QED BY <2>2, <2>4, <3>2, <3>4
  <2> QED BY <2>1, <2>3, <2>4
<1>2. DOMAIN par \subseteq T
  <2> HIDE DEF T
  <2> QED BY <1>1, TreeInduction
<1> QED BY <1>2 DEF Copied

-----------------------------------------------------------------------------
(* The local session *)

Summary == [thr : 0..MaxId, cov : SUBSET (1..MaxId)]

\* A summary is of all messages up to a node of the tree.
Covers(o, par, s) ==
  s.cov # {} => s.thr \in DOMAIN par /\ \A i \in SH!Chain(par, s.thr) : o[i] \in s.cov

\* A tree with its cursor and its summary.
Sound(o, par, end, s) ==
  /\ Tree(par) /\ OneRoot(par) /\ DOMAIN par \subseteq 1..Len(o)
  /\ end \in DOMAIN par \/ (end = 0 /\ DOMAIN par = {})
  /\ s \in Summary /\ Covers(o, par, s)

\* What is stored of a session can be opened: its summary has its first message.
Openable(o, ids, cov) ==
  /\ ids \subseteq 1..Len(o) /\ cov \subseteq 1..MaxId
  /\ cov # {} => ids # {} /\ o[SH!Least(ids)] \in cov

Made(o) == o \in Seq(1..MaxId) /\ Len(o) <= MaxId /\ \A i \in 1..Len(o) : o[i] \in 1..i

LEMMA LeastIs ==
  ASSUME NEW S, S \subseteq Nat, S # {}
  PROVE  SH!Least(S) \in S /\ \A y \in S : SH!Least(S) <= y
<1>1. \E x \in S : \A y \in S : x <= y
  BY LeastNat
<1> QED BY <1>1 DEF SH!Least

\* A finite set of naturals has a greatest element.
LEMMA GreatestNat ==
  ASSUME NEW S, NEW n \in Nat, S \subseteq 0..n, S # {}
  PROVE  \E x \in S : \A y \in S : y <= x
<1> DEFINE B == {k \in Nat : \A y \in S : y <= k}
<1>1. n \in B
  OBVIOUS
<1>2. PICK k \in B : \A y \in B : k <= y
  <2> HIDE DEF B
  <2>1. B \subseteq Nat
    BY DEF B
  <2> QED BY <1>1, <2>1, LeastNat
<1>3. CASE k \in S
  BY <1>2, <1>3
<1>4. CASE k \notin S
  <2>1. \A y \in S : y \in Nat /\ y < k
    <3> TAKE y \in S
    <3>1. y \in Nat /\ y <= k /\ y # k /\ k \in Nat
      BY <1>2, <1>4
    <3> QED BY <3>1
  <2>2. k # 0 /\ k - 1 \in Nat
    <3>1. PICK y \in S : TRUE
      OBVIOUS
    <3>2. y \in Nat /\ y < k /\ k \in Nat
      BY <1>2, <2>1, <3>1
    <3> QED BY <3>2
  <2>3. k - 1 \in B
    BY <1>2, <2>1, <2>2
  <2> QED BY <1>2, <2>2, <2>3
<1> QED BY <1>3, <1>4

\* The root of a tree is its oldest node and on every chain.
LEMMA RootIsLeast ==
  ASSUME NEW par, Tree(par), OneRoot(par), DOMAIN par # {}
  PROVE  /\ SH!Least(DOMAIN par) \in DOMAIN par /\ par[SH!Least(DOMAIN par)] = 0
         /\ \A y \in DOMAIN par : SH!Least(DOMAIN par) <= y
         /\ \A n \in DOMAIN par : SH!Least(DOMAIN par) \in SH!Chain(par, n)
<1> DEFINE r == SH!Least(DOMAIN par)
<1>1. r \in DOMAIN par /\ \A y \in DOMAIN par : r <= y
  BY LeastIs DEF Tree
<1>2. par[r] = 0
  <2> HIDE DEF r
  <2>1. par[r] # 0 => par[r] \in DOMAIN par /\ par[r] < r /\ r \in Nat /\ par[r] \in Nat
    BY <1>1 DEF Tree
  <2>2. par[r] # 0 => r <= par[r]
    BY <1>1, <2>1
  <2> QED BY <2>1, <2>2
<1>3. \A n \in DOMAIN par : r \in SH!Chain(par, n)
  <2> HIDE DEF r
  <2> TAKE n \in DOMAIN par
  <2>1. PICK q \in SH!Chain(par, n) : q \in DOMAIN par /\ par[q] = 0
    BY ChainRoot
  <2>2. q = r
    BY <1>1, <1>2, <2>1 DEF OneRoot
  <2> QED BY <2>1, <2>2
<1> QED BY <1>1, <1>2, <1>3

\* The rows of a session have the root of its tree, as the oldest of them; of
\* the later ones, not all need to be in the tree.
Based(ids, par) ==
  ids # {} => \E r \in ids : r \in DOMAIN par /\ par[r] = 0 /\ \A x \in ids : r <= x

LEMMA LeastBased ==
  ASSUME NEW par, Tree(par), OneRoot(par), NEW S, S \subseteq Nat, S # {}, Based(S, par)
  PROVE  /\ SH!Least(S) \in S /\ SH!Least(S) \in DOMAIN par /\ par[SH!Least(S)] = 0
         /\ SH!Least(S) = SH!Least(DOMAIN par)
<1>1. PICK r \in S : r \in DOMAIN par /\ par[r] = 0 /\ \A x \in S : r <= x
  BY DEF Based
<1>2. SH!Least(S) \in S /\ \A y \in S : SH!Least(S) <= y
  BY LeastIs
<1>3. SH!Least(S) \in Nat /\ r \in Nat /\ SH!Least(S) <= r /\ r <= SH!Least(S)
  BY <1>1, <1>2
<1>4. SH!Least(S) = r
  BY <1>3
<1>5. r = SH!Least(DOMAIN par)
  BY <1>1, RootIsLeast DEF OneRoot
<1> QED BY <1>1, <1>4, <1>5

\* More nodes of the tree among the rows leave the root the oldest of them.
LEMMA BasedMore ==
  ASSUME NEW par, Tree(par), OneRoot(par), NEW S, S \subseteq Nat, Based(S, par),
         NEW ids, ids \subseteq DOMAIN par,
         S = {} /\ ids # {} => \E r \in ids : par[r] = 0
  PROVE  Based(S \cup ids, par)
<1>1. CASE S = {}
  <2> SUFFICES ASSUME ids # {} PROVE Based(ids, par)
    BY <1>1 DEF Based
  <2>1. PICK r \in ids : par[r] = 0
    BY <1>1
  <2>2. r = SH!Least(DOMAIN par) /\ \A y \in DOMAIN par : SH!Least(DOMAIN par) <= y
    BY <2>1, RootIsLeast DEF OneRoot
  <2> QED BY <2>1, <2>2 DEF Based
<1>2. CASE S # {}
  <2>1. PICK r \in S : r \in DOMAIN par /\ par[r] = 0 /\ \A x \in S : r <= x
    BY <1>2 DEF Based
  <2>2. r = SH!Least(DOMAIN par) /\ \A y \in DOMAIN par : SH!Least(DOMAIN par) <= y
    BY <2>1, RootIsLeast DEF OneRoot
  <2> QED BY <2>1, <2>2 DEF Based
<1> QED BY <1>1, <1>2

\* A summary that is not empty has the first message.
LEMMA RootCovered ==
  ASSUME NEW o, NEW par, NEW end, NEW s, Sound(o, par, end, s), s.cov # {}
  PROVE  DOMAIN par # {} /\ o[SH!Least(DOMAIN par)] \in s.cov
BY RootIsLeast DEF Sound, Covers

\* What was opened from the table is a chain with its summary.
LEMMA LinearSound ==
  ASSUME NEW o, NEW S, NEW cov, Made(o), Openable(o, S, cov)
  PROVE  /\ DOMAIN SH!Linear(S) = S
         /\ Sound(o, SH!Linear(S), SH!Newest(S), SH!Restored(S, cov))
<1> DEFINE par == SH!Linear(S)
           Older(i) == {j \in S : j < i}
<1>1. S \subseteq 1..MaxId /\ S \subseteq Nat /\ MaxId \in Nat
  BY MCSafetyAssumption DEF Made, Openable
<1>2. DOMAIN par = S /\ \A i \in S :
        /\ Older(i) = {} => par[i] = 0
        /\ Older(i) # {} => par[i] \in Older(i)
  <2>1. \A i \in S : par[i] = IF Older(i) = {} THEN 0
                              ELSE CHOOSE j \in Older(i) : \A k \in Older(i) : k <= j
    BY DEF SH!Linear
  <2>2. ASSUME NEW i \in S, Older(i) # {}
        PROVE  \E j \in Older(i) : \A k \in Older(i) : k <= j
    <3>1. S \subseteq 0..MaxId /\ Older(i) \subseteq S
      BY <1>1
    <3> HIDE DEF Older
    <3> QED BY <1>1, <2>2, <3>1, GreatestNat
  <2>3. DOMAIN par = S
    BY DEF SH!Linear
  <2> HIDE DEF par, Older
  <2> QED BY <2>1, <2>2, <2>3
<1> HIDE DEF par
<1>3. Tree(par)
  <2>1. \A i \in S : par[i] \in {0} \cup S /\ par[i] < i
    BY <1>1, <1>2
  <2> QED BY <1>1, <1>2, <2>1 DEF Tree
<1>4. OneRoot(par)
  <2> SUFFICES ASSUME NEW i \in S, NEW j \in S, par[i] = 0, par[j] = 0 PROVE i = j
    BY <1>2 DEF OneRoot
  <2>1. Older(i) = {} /\ Older(j) = {}
    BY <1>1, <1>2
  <2>2. ~(i < j) /\ ~(j < i)
    BY <2>1
  <2> QED BY <1>1, <2>2
<1>5. SH!Newest(S) \in S \/ (SH!Newest(S) = 0 /\ S = {})
  <2>1. S # {} => \E x \in S : \A y \in S : y <= x
    <3>1. S \subseteq 0..MaxId
      BY <1>1
    <3> QED BY <1>1, <3>1, GreatestNat
  <2> QED BY <2>1 DEF SH!Newest
<1>6. SH!Restored(S, cov) \in Summary /\ Covers(o, par, SH!Restored(S, cov))
  <2>1. CASE cov = {} \/ S = {}
    BY <1>1, <2>1 DEF SH!Restored, SH!NoSummary, Summary, Covers
  <2>2. CASE cov # {} /\ S # {}
    <3> DEFINE l == SH!Least(S)
    <3>1. l \in S /\ \A y \in S : l <= y
      BY <1>1, <2>2, LeastIs
    <3>2. SH!Restored(S, cov) = [thr |-> l, cov |-> cov]
      BY <2>2 DEF SH!Restored
    <3> HIDE DEF l
    <3>3. \A i \in SH!Chain(par, l) : i = l
      <4> TAKE i \in SH!Chain(par, l)
      <4>1. i \in S /\ i <= l /\ l <= i
        BY <1>2, <1>3, <3>1, ChainInside
      <4> QED BY <1>1, <3>1, <4>1
    <3>4. o[l] \in cov
      BY <2>2 DEF Openable, l
    <3>5. [thr |-> l, cov |-> cov] \in Summary
      BY <1>1, <3>1 DEF Summary, Openable
    <3>6. Covers(o, par, [thr |-> l, cov |-> cov])
      BY <1>2, <3>1, <3>3, <3>4 DEF Covers
    <3> QED BY <3>2, <3>5, <3>6
  <2> QED BY <2>1, <2>2
<1>7. DOMAIN par \subseteq 1..Len(o)
  BY <1>2 DEF Openable
<1> QED BY <1>2, <1>3, <1>4, <1>5, <1>6, <1>7 DEF Sound, par

LEMMA SameCard == \A S : SH!Cardinality(S) = Cardinality(S)
BY DEF Cardinality, SH!Cardinality

\* The rows that are read back of a session have its first one.
LEMMA OldestIs ==
  ASSUME NEW S, S \subseteq Nat
  PROVE  /\ SH!Oldest(S) \subseteq S
         /\ S # {} => SH!Oldest(S) # {} /\ SH!Least(SH!Oldest(S)) = SH!Least(S)
<1>1. SH!Oldest(S) = {i \in S : Cardinality({j \in S : j <= i}) <= ReadMax}
  BY SameCard DEF SH!Oldest
<1>2. ASSUME S # {} PROVE SH!Oldest(S) # {} /\ SH!Least(SH!Oldest(S)) = SH!Least(S)
  <2> DEFINE l == SH!Least(S)
  <2>1. l \in S /\ l \in Nat /\ \A y \in S : l <= y
    BY <1>2, LeastIs
  <2> HIDE DEF l
  <2>2. {j \in S : j <= l} = {l}
    <3>1. ASSUME NEW j \in S, j <= l PROVE j = l
      <4>1. j \in Nat /\ l <= j
        BY <2>1
      <4> QED BY <2>1, <3>1, <4>1
    <3> QED BY <2>1, <3>1
  <2>3. Cardinality({l}) = 1
    BY FS_Singleton
  <2>4. ReadMax \in Nat /\ 1 <= ReadMax
    BY PartsAssumption DEF SH!SessionHostAssumption
  <2>5. l \in SH!Oldest(S)
    BY <1>1, <2>1, <2>2, <2>3, <2>4
  <2>6. SH!Oldest(S) \subseteq S
    BY <1>1
  <2>7. SH!Least(SH!Oldest(S)) \in SH!Oldest(S) /\ \A y \in SH!Oldest(S) : SH!Least(SH!Oldest(S)) <= y
    <3> DEFINE O == SH!Oldest(S)
    <3>1. O \subseteq Nat /\ O # {}
      BY <2>5, <2>6
    <3> HIDE DEF O
    <3>2. SH!Least(O) \in O /\ \A y \in O : SH!Least(O) <= y
      BY <3>1, LeastIs
    <3> QED BY <3>2 DEF O
  <2>8. SH!Least(SH!Oldest(S)) = l
    <3> DEFINE k == SH!Least(SH!Oldest(S))
    <3>1. k \in S /\ k <= l
      BY <2>5, <2>6, <2>7
    <3>2. k \in Nat /\ l <= k
      BY <2>1, <3>1
    <3> HIDE DEF k
    <3>3. k = l
      BY <2>1, <3>1, <3>2
    <3> QED BY <3>3 DEF k
  <2> QED BY <2>5, <2>8 DEF l
<1> QED BY <1>1, <1>2

LEMMA OldestOpens ==
  ASSUME NEW o, Len(o) \in Nat, NEW S, NEW cov, Openable(o, S, cov)
  PROVE  Openable(o, SH!Oldest(S), cov)
<1>1. S \subseteq 1..Len(o) /\ S \subseteq Nat
  BY DEF Openable
<1> QED BY <1>1, OldestIs DEF Openable

\* New ids are given in the order of the old ones, without a gap.
LEMMA CopyIs ==
  ASSUME Made(of), NEW S, S \subseteq 1..Len(of)
  PROVE  /\ Cardinality(S) \in Nat /\ DOMAIN SH!Copy(S) = S
         /\ \A i \in S : SH!Copy(S)[i] \in (Len(of) + 1)..(Len(of) + Cardinality(S))
         /\ \A i, j \in S : i < j => SH!Copy(S)[i] < SH!Copy(S)[j]
         /\ {SH!Copy(S)[i] : i \in S} = (Len(of) + 1)..(Len(of) + Cardinality(S))
<1> DEFINE Rank(i) == Cardinality({j \in S : j <= i})
           n == Len(of)
           c == Cardinality(S)
           T == (n + 1)..(n + c)
           m == SH!Copy(S)
<1>1. n \in Nat
  BY DEF Made
<1>2. IsFiniteSet(S) /\ c \in Nat
  <2>1. IsFiniteSet(1..n)
    BY <1>1, FS_Interval
  <2> QED BY <2>1, FS_Subset, FS_CardinalityType
<1>3. DOMAIN m = S /\ \A i \in S : m[i] = n + Rank(i)
  BY SameCard DEF SH!Copy
<1>4. ASSUME NEW i \in S PROVE Rank(i) \in 1..c
  <2> DEFINE B == {j \in S : j <= i}
  <2>1. B \subseteq S /\ i \in B
    BY <1>1
  <2> HIDE DEF B
  <2>2. IsFiniteSet(B) /\ Cardinality(B) <= c
    BY <1>2, <2>1, FS_Subset
  <2>3. Cardinality(B) \in Nat /\ Cardinality(B) # 0
    BY <2>1, <2>2, FS_CardinalityType, FS_EmptySet
  <2>4. Cardinality(B) \in 1..c
    <3> HIDE DEF c
    <3> QED BY <1>2, <2>2, <2>3
  <2> QED BY <2>4 DEF B
<1>5. ASSUME NEW i \in S, NEW j \in S, i < j PROVE Rank(i) < Rank(j)
  <2> DEFINE A == {k \in S : k <= i}
             B == {k \in S : k <= j}
  <2>0. S \subseteq Nat
    BY <1>1
  <2>1. A \subseteq B /\ B \subseteq S /\ j \in B /\ j \notin A
    <3>1. A \subseteq B
      <4> SUFFICES ASSUME NEW k \in S, k <= i PROVE k <= j
        OBVIOUS
      <4> QED BY <2>0, <1>5
    <3>2. j \in B /\ j \notin A
      BY <2>0, <1>5
    <3> QED BY <3>1, <3>2
  <2> HIDE DEF A, B
  <2>2. IsFiniteSet(B) /\ A \in SUBSET B
    BY <1>2, <2>1, FS_Subset
  <2>3. IsFiniteSet(A) /\ Cardinality(A) <= Cardinality(B) /\ Cardinality(A) # Cardinality(B)
    BY <2>1, <2>2, FS_Subset
  <2>4. Cardinality(A) \in Nat /\ Cardinality(B) \in Nat
    BY <2>2, <2>3, FS_CardinalityType
  <2>5. Cardinality(A) < Cardinality(B)
    BY <2>3, <2>4
  <2> QED BY <2>5 DEF A, B
<1> HIDE DEF Rank
<1>6. \A i \in S : m[i] \in T
  <2> TAKE i \in S
  <2>1. Rank(i) \in 1..c /\ m[i] = n + Rank(i)
    BY <1>3, <1>4
  <2> HIDE DEF n, c, m
  <2> QED BY <1>1, <1>2, <2>1
<1>7. \A i, j \in S : i < j => m[i] < m[j]
  <2> SUFFICES ASSUME NEW i \in S, NEW j \in S, i < j PROVE m[i] < m[j]
    OBVIOUS
  <2>1. Rank(i) \in 1..c /\ Rank(j) \in 1..c /\ Rank(i) < Rank(j) /\ m[i] = n + Rank(i) /\ m[j] = n + Rank(j)
    BY <1>3, <1>4, <1>5
  <2> HIDE DEF n, c, m
  <2> QED BY <1>1, <1>2, <2>1
<1>8. {m[i] : i \in S} = T
  <2> DEFINE f == [i \in S |-> m[i]]
  <2>1. f \in [S -> T]
    BY <1>6
  <2>2. \A i, j \in S : f[i] = f[j] => i = j
    <3> SUFFICES ASSUME NEW i \in S, NEW j \in S, i # j PROVE m[i] # m[j]
      OBVIOUS
    <3>1. i \in Nat /\ j \in Nat /\ m[i] \in Int /\ m[j] \in Int
      BY <1>1, <1>6
    <3>2. i < j \/ j < i
      BY <3>1
    <3> HIDE DEF m
    <3> QED BY <1>7, <3>1, <3>2
  <2>3. f \in Injection(S, T)
    <3> HIDE DEF f, T
    <3> QED BY <2>1, <2>2 DEF Injection, IsInjective
  <2>4. IsFiniteSet(T) /\ Cardinality(T) = c
    <3>1. n + 1 \in Int /\ n + c \in Int
      BY <1>1, <1>2
    <3>2. IsFiniteSet(T) /\ Cardinality(T) = IF n + 1 > n + c THEN 0 ELSE (n + c) - (n + 1) + 1
      BY <3>1, FS_Interval
    <3> HIDE DEF n, c, T
    <3> QED BY <1>1, <1>2, <3>2
  <2>5. f \in Surjection(S, T)
    <3> HIDE DEF f, T
    <3> QED BY <2>3, <2>4, FS_Injection
  <2>6. \A y \in T : \E i \in S : f[i] = y
    <3> HIDE DEF f, T
    <3> QED BY <2>5 DEF Surjection
  <2>7. \A y \in T : \E i \in S : m[i] = y
    BY <2>6
  <2> HIDE DEF m, T
  <2> QED BY <1>6, <2>7
<1> QED BY <1>2, <1>3, <1>6, <1>7, <1>8

HostTypes ==
  /\ host \in Hosts /\ up \in {"up", "quit", "dead"} /\ turn \in {"idle", "run"}
  /\ Made(of) /\ base \in 0..MaxId /\ saved \cup warned \subseteq 1..MaxId
  /\ sid \in SH!SessionIds /\ known \subseteq SH!SessionIds
  /\ DOMAIN rows = SH!SessionIds /\ DOMAIN stored = SH!SessionIds

\* An id that no row and no open session has.
LEMMA FreshIs ==
  ASSUME SH!CanMake
  PROVE  SH!FreshSession \in SH!SessionIds \ (known \cup {sid}) /\ rows[SH!FreshSession] = {}
<1> DEFINE F == {s \in SH!SessionIds : s \notin known /\ rows[s] = {} /\ s # sid}
<1>1. F # {} /\ F \subseteq Nat
  BY MCSafetyAssumption DEF SH!CanMake, SH!SessionIds
<1>2. SH!Least(F) \in F
  <2> HIDE DEF F
  <2> QED BY <1>1, LeastIs
<1>3. SH!FreshSession = SH!Least(F)
  BY <1>1 DEF SH!FreshSession
<1> HIDE DEF F
<1>4. SH!FreshSession \in F
  BY <1>2, <1>3
<1> QED BY <1>4 DEF F

LEMMA FunctionIsSeq ==
  ASSUME NEW A, NEW c \in Nat, NEW f \in [1..c -> A]
  PROVE  f \in Seq(A) /\ Len(f) = c
OBVIOUS

\* A tree under new ids, saved as a session of its own.
Adopted ==
  /\ Made(of') /\ Len(of) <= Len(of') /\ \A i \in 1..Len(of) : of'[i] = of[i]
  /\ Sound(of', parent', leaf', sum')
  /\ sid' \in SH!SessionIds \ (known \cup {sid}) /\ rows[sid'] = {}
  /\ known' = known \cup {sid'}
  /\ rows' = [rows EXCEPT ![sid'] = DOMAIN parent']
  /\ stored' = [stored EXCEPT ![sid'] = sum'.cov]

\* A copy of a tree, or of a path of it, is one again and has its messages.
LEMMA AdoptSound ==
  ASSUME HostTypes, NEW par, NEW end, NEW s, NEW S,
         Tree(par), OneRoot(par), DOMAIN par \subseteq 1..Len(of),
         S \subseteq DOMAIN par, \A i \in S : par[i] \in {0} \cup S,
         end \in S \/ (end = 0 /\ S = {}),
         s \in Summary, Covers(of, par, s),
         SH!Adopt(par, end, s, SH!Copy(S))
  PROVE  Adopted
<1> DEFINE m == SH!Copy(S)
           old(i) == CHOOSE j \in DOMAIN m : m[j] = i
           n == Len(of)
           ids == {m[i] : i \in DOMAIN m}
           kept == IF s.thr \in DOMAIN m THEN [s EXCEPT !.thr = m[s.thr]] ELSE SH!NoSummary
           c == Cardinality(S)
<1>1. /\ n + SH!Cardinality(ids) <= MaxId /\ SH!CanMake
      /\ of' = of \o [k \in 1..SH!Cardinality(ids) |-> of[old(n + k)]]
      /\ parent' = [i \in ids |-> IF par[old(i)] \in DOMAIN m THEN m[par[old(i)]] ELSE 0]
      /\ leaf' = IF end \in DOMAIN m THEN m[end] ELSE 0
      /\ sum' = kept
      /\ SH!SaveTree(ids, kept.cov)
  BY DEF SH!Adopt
<1>2. n \in Nat /\ MaxId \in Nat /\ S \subseteq 1..n /\ S \subseteq Nat
  <2>1. MaxId \in Nat
    BY MCSafetyAssumption
  <2>2. n \in Nat
    BY DEF HostTypes, Made
  <2> QED BY <2>1, <2>2
<1>3. /\ c \in Nat /\ DOMAIN m = S
      /\ \A i \in S : m[i] \in (n + 1)..(n + c)
      /\ \A i, j \in S : i < j => m[i] < m[j]
      /\ ids = (n + 1)..(n + c)
  BY <1>2, CopyIs DEF HostTypes
<1>4. SH!Cardinality(ids) = c
  <2>1. n + 1 \in Int /\ n + c \in Int
    BY <1>2, <1>3
  <2>2. Cardinality((n + 1)..(n + c)) = IF n + 1 > n + c THEN 0 ELSE (n + c) - (n + 1) + 1
    BY <2>1, FS_Interval
  <2> HIDE DEF n, c, ids, m
  <2> QED BY <1>2, <1>3, <2>2, SameCard
<1>5. \A i, j \in S : m[i] = m[j] => i = j
  <2> SUFFICES ASSUME NEW i \in S, NEW j \in S, i # j PROVE m[i] # m[j]
    OBVIOUS
  <2>1. i < j \/ j < i
    BY <1>2
  <2>2. m[i] \in Int /\ m[j] \in Int
    BY <1>2, <1>3
  <2> HIDE DEF m
  <2> QED BY <1>3, <2>1, <2>2
<1>6. \A i \in S : old(m[i]) = i
  <2> HIDE DEF m, ids, c, n
  <2> QED BY <1>3, <1>5
<1>7. \A y \in ids : old(y) \in S /\ m[old(y)] = y
  <2> TAKE y \in ids
  <2>1. PICK i \in S : m[i] = y
    BY <1>3
  <2> HIDE DEF m, old
  <2> QED BY <1>6, <2>1
<1> HIDE DEF m, old, kept
<1>8. Made(of') /\ n <= Len(of') /\ Len(of') = n + c
      /\ (\A i \in 1..n : of'[i] = of[i])
      /\ \A i \in S : of'[m[i]] = of[i]
  <2> DEFINE more == [k \in 1..c |-> of[old(n + k)]]
  <2>1. \A k \in 1..c : n + k \in ids
    <3> HIDE DEF n, c, ids
    <3> QED BY <1>2, <1>3
  <2>2. of \in Seq(1..MaxId) /\ Len(of) = n /\ \A i \in 1..n : of[i] \in 1..i /\ of[i] \in 1..MaxId
    <3>1. of \in Seq(1..MaxId) /\ \A i \in 1..Len(of) : of[i] \in 1..i
      BY DEF HostTypes, Made
    <3>2. \A i \in 1..Len(of) : of[i] \in 1..MaxId
      BY <3>1, ElementOfSeq
    <3> QED BY <3>1, <3>2
  <2>3. \A k \in 1..c : old(n + k) \in 1..n /\ of[old(n + k)] \in 1..MaxId /\ of[old(n + k)] \in 1..n
    <3> TAKE k \in 1..c
    <3>1. old(n + k) \in 1..n
      BY <1>2, <1>7, <2>1
    <3>2. of[old(n + k)] \in 1..old(n + k)
      BY <2>2, <3>1
    <3> HIDE DEF n
    <3> QED BY <1>2, <2>2, <3>1, <3>2
  <2>4. more \in Seq(1..MaxId) /\ Len(more) = c
    <3>1. more \in [1..c -> 1..MaxId] /\ c \in Nat
      BY <1>3, <2>3
    <3> HIDE DEF c, more
    <3> QED BY <3>1, FunctionIsSeq
  <2>5. of' = of \o more
    BY <1>1, <1>4
  <2> HIDE DEF more
  <2>6. /\ of' \in Seq(1..MaxId) /\ Len(of') = n + c
        /\ \A i \in 1..(n + c) : of'[i] = IF i <= n THEN of[i] ELSE more[i - n]
    <3> HIDE DEF n, c, ids
    <3> QED BY <2>2, <2>4, <2>5, ConcatProperties
  <2>7. \A i \in 1..n : of'[i] = of[i]
    <3>1. n \in Nat /\ c \in Nat
      BY <1>2, <1>3
    <3> HIDE DEF n, c
    <3> QED BY <2>6, <3>1
  <2>8. \A y \in ids : of'[y] = of[old(y)]
    <3> TAKE y \in ids
    <3>1. y \in (n + 1)..(n + c)
      BY <1>3
    <3>2. y \in 1..(n + c) /\ ~(y <= n) /\ y - n \in 1..c /\ n + (y - n) = y
      <4> HIDE DEF n, c, ids
      <4> QED BY <1>2, <1>3, <3>1
    <3>3. of'[y] = more[y - n] /\ more[y - n] = of[old(n + (y - n))]
      BY <2>6, <3>2 DEF more
    <3> QED BY <3>2, <3>3
  <2>9. \A i \in 1..(n + c) : of'[i] \in 1..i
    <3> TAKE i \in 1..(n + c)
    <3>1. CASE i <= n
      BY <1>2, <2>2, <2>7, <3>1
    <3>2. CASE ~(i <= n)
      <4>1. i - n \in 1..c /\ i \in Nat
        <5> HIDE DEF n, c
        <5> QED BY <1>2, <1>3, <3>2
      <4>2. of'[i] = of[old(n + (i - n))]
        BY <2>6, <3>2, <4>1 DEF more
      <4>3. of'[i] \in 1..n
        BY <2>3, <4>1, <4>2
      <4> HIDE DEF n, c
      <4> QED BY <1>2, <3>2, <4>1, <4>3
    <3> QED BY <3>1, <3>2
  <2>10. \A i \in S : of'[m[i]] = of[i]
    <3> TAKE i \in S
    <3>1. m[i] \in ids
      BY <1>3
    <3> QED BY <1>6, <2>8, <3>1
  <2>11. n + c <= MaxId
    BY <1>1, <1>4
  <2>12. Made(of')
    BY <2>6, <2>9, <2>11 DEF Made
  <2>13. n <= n + c
    BY <1>2, <1>3
  <2> QED BY <2>6, <2>7, <2>10, <2>12, <2>13
<1>9. DOMAIN parent' = ids /\ \A i \in S : m[i] \in ids
  BY <1>1, <1>3
<1>10. Copied(par, S, m, parent')
  <2> SUFFICES ASSUME NEW i \in S PROVE parent'[m[i]] = IF par[i] \in S THEN m[par[i]] ELSE 0
    BY <1>9 DEF Copied
  <2> HIDE DEF ids
  <2> QED BY <1>1, <1>3, <1>6, <1>9
<1>11. Tree(parent')
  <2>1. ids \subseteq 1..MaxId
    <3>1. n + c <= MaxId
      BY <1>1, <1>4
    <3> HIDE DEF n, c, ids
    <3> QED BY <1>2, <1>3, <3>1
  <2>2. ASSUME NEW y \in ids PROVE parent'[y] \in {0} \cup ids /\ parent'[y] < y
    <3> DEFINE i == old(y)
    <3>1. i \in S /\ m[i] = y /\ par[i] < i
      BY <1>7 DEF Tree
    <3> HIDE DEF i
    <3>2. parent'[y] = IF par[i] \in S THEN m[par[i]] ELSE 0
      BY <1>10, <3>1 DEF Copied
    <3>3. par[i] \in S => m[par[i]] \in ids /\ m[par[i]] < y
      BY <1>3, <3>1
    <3>4. y \in Nat /\ y # 0
      BY <2>1
    <3> QED BY <3>2, <3>3, <3>4
  <2> QED BY <1>9, <2>1, <2>2 DEF Tree
<1>12. OneRoot(parent')
  <2> SUFFICES ASSUME NEW x \in ids, NEW y \in ids, parent'[x] = 0, parent'[y] = 0 PROVE x = y
    BY <1>9 DEF OneRoot
  <2> DEFINE i == old(x)
             j == old(y)
  <2>1. i \in S /\ j \in S /\ m[i] = x /\ m[j] = y
    BY <1>7
  <2> HIDE DEF i, j
  <2>2. \A k \in S : m[k] # 0
    BY <1>2, <1>3
  <2>3. par[i] = 0 /\ par[j] = 0
    BY <1>10, <2>1, <2>2 DEF Copied
  <2>4. i = j
    BY <2>1, <2>3 DEF OneRoot
  <2> QED BY <2>1, <2>4
<1>13. leaf' \in DOMAIN parent' \/ (leaf' = 0 /\ DOMAIN parent' = {})
  <2>1. CASE end \in S
    BY <1>1, <1>3, <1>9, <2>1
  <2>2. CASE end = 0 /\ S = {}
    BY <1>1, <1>3, <1>9, <2>2
  <2> QED BY <2>1, <2>2
<1>14. sum' \in Summary /\ Covers(of', parent', sum')
  <2>1. CASE s.thr \notin S
    BY <1>1, <1>2, <1>3, <2>1 DEF kept, SH!NoSummary, Summary, Covers
  <2>2. CASE s.thr \in S
    <3>1. sum' = [s EXCEPT !.thr = m[s.thr]]
      BY <1>1, <1>3, <2>2 DEF kept
    <3>2. m[s.thr] \in ids /\ m[s.thr] \in 0..MaxId
      <4>1. m[s.thr] \in ids /\ ids \subseteq 1..MaxId
        BY <1>9, <1>11, <2>2 DEF Tree
      <4>2. \A y \in 1..MaxId : y \in 0..MaxId
        BY <1>2
      <4> HIDE DEF ids, n, c
      <4> QED BY <4>1, <4>2
    <3>3. sum' \in Summary /\ sum'.thr = m[s.thr] /\ sum'.cov = s.cov
      BY <3>1, <3>2 DEF Summary
    <3>4. ASSUME s.cov # {}, NEW j \in SH!Chain(parent', m[s.thr]) PROVE of'[j] \in s.cov
      <4>1. PICK i \in SH!Chain(par, s.thr) : i \in S /\ j = m[i]
        BY <1>10, <1>11, <2>2, <3>4, ChainCopied
      <4>2. of[i] \in s.cov
        BY <3>4, <4>1 DEF Covers
      <4> QED BY <1>8, <4>1, <4>2
    <3> QED BY <1>9, <3>2, <3>3, <3>4 DEF Covers
  <2> QED BY <2>1, <2>2
<1>15. DOMAIN parent' \subseteq 1..Len(of')
  <2> HIDE DEF n, c
  <2> QED BY <1>2, <1>3, <1>8, <1>9
<1>16. Sound(of', parent', leaf', sum')
  BY <1>11, <1>12, <1>13, <1>14, <1>15 DEF Sound
<1>17. sid' = SH!FreshSession /\ known' = known \cup {sid'}
       /\ rows' = [rows EXCEPT ![sid'] = DOMAIN parent'] /\ stored' = [stored EXCEPT ![sid'] = sum'.cov]
  BY <1>1, <1>9 DEF SH!SaveTree
<1> QED BY <1>1, <1>8, <1>16, <1>17, FreshIs DEF Adopted

\* A file has a tree, and a summary that reaches to before the node it kept.
FileSound ==
  /\ file.kept \in 0..MaxId /\ file.cov \subseteq 1..MaxId
  /\ DOMAIN file.parent \subseteq 1..MaxId
  /\ file # SH!None =>
       /\ Tree(file.parent) /\ OneRoot(file.parent)
       /\ DOMAIN file.parent \subseteq 1..Len(of) /\ DOMAIN file.parent # {}
       /\ file.kept # 0 =>
            /\ file.kept \in DOMAIN file.parent /\ file.parent[file.kept] # 0
            /\ Covers(of, file.parent, [thr |-> file.parent[file.kept], cov |-> file.cov])

TreesSound == Sound(of, parent, leaf, sum) /\ FileSound

\* The nodes of the turn at work are the end of the path, and no row yet.
TurnOpen ==
  /\ turn = "idle" => base = 0
  /\ turn = "run" =>
       /\ up = "up" /\ leaf # 0
       /\ base # 0 => base \in SH!Path
       /\ base = 0 => DOMAIN parent \subseteq SH!Path
       /\ \A i \in DOMAIN parent : parent[i] \in SH!TurnRows => i \in SH!TurnRows
       /\ SH!TurnRows \cap SH!AllRows = {}

\* Each session can be opened; the oldest row of the open one is the root of
\* its tree.
RowsSound ==
  /\ \A s \in SH!SessionIds : Openable(of, rows[s], stored[s])
  /\ up = "up" => Based(rows[sid], parent)

\* Outside of the turn at work the hosts that save turns have saved the tree.
TreeSaved ==
  host # "rpc" =>
    /\ sid \in known
    /\ up # "dead" =>
         \A i \in DOMAIN parent : i \in rows[sid] \/ (turn = "run" /\ i \in SH!TurnRows)

HostInv == HostTypes /\ TreesSound /\ TurnOpen /\ RowsSound /\ TreeSaved

\* More messages do not change what is said of those there are.
LEMMA Grown ==
  ASSUME NEW o, NEW p, Len(o) \in Nat, Len(p) \in Nat, Len(o) <= Len(p),
         \A i \in 1..Len(o) : p[i] = o[i]
  PROVE  /\ \A par, s : Tree(par) /\ DOMAIN par \subseteq 1..Len(o) /\ Covers(o, par, s) => Covers(p, par, s)
         /\ \A par, end, s : Sound(o, par, end, s) => Sound(p, par, end, s)
         /\ \A ids, cov : Openable(o, ids, cov) => Openable(p, ids, cov)
<1>1. 1..Len(o) \subseteq 1..Len(p)
  OBVIOUS
<1>2. ASSUME NEW par, NEW s, Tree(par), DOMAIN par \subseteq 1..Len(o), Covers(o, par, s)
      PROVE  Covers(p, par, s)
  <2> SUFFICES ASSUME s.cov # {}, NEW i \in SH!Chain(par, s.thr) PROVE p[i] \in s.cov
    BY <1>2 DEF Covers
  <2>1. s.thr \in DOMAIN par /\ o[i] \in s.cov
    BY <1>2 DEF Covers
  <2>2. i \in DOMAIN par
    BY <1>2, <2>1, ChainInside
  <2> QED BY <1>2, <2>1, <2>2
<1>3. ASSUME NEW ids, NEW cov, Openable(o, ids, cov) PROVE Openable(p, ids, cov)
  <2>1. ids # {} => SH!Least(ids) \in ids
    <3>1. ids \subseteq Nat
      BY <1>3 DEF Openable
    <3> QED BY <3>1, LeastIs
  <2> QED BY <1>1, <1>3, <2>1 DEF Openable
<1>4. ASSUME NEW par, NEW end, NEW s, Sound(o, par, end, s) PROVE Sound(p, par, end, s)
  BY <1>1, <1>2, <1>4 DEF Sound
<1> QED BY <1>2, <1>3, <1>4

LEMMA GrownFile ==
  ASSUME HostTypes, FileSound, UNCHANGED file, Made(of'), Len(of) <= Len(of'),
         \A i \in 1..Len(of) : of'[i] = of[i]
  PROVE  FileSound'
<1>1. Len(of) \in Nat /\ Len(of') \in Nat
  BY DEF HostTypes, Made
<1>2. 1..Len(of) \subseteq 1..Len(of')
  BY <1>1
<1> QED BY <1>1, <1>2, Grown DEF FileSound

LEMMA GrownRows ==
  ASSUME HostTypes, RowsSound, Made(of'), Len(of) <= Len(of'),
         \A i \in 1..Len(of) : of'[i] = of[i]
  PROVE  \A s \in SH!SessionIds : Openable(of', rows[s], stored[s])
<1>1. Len(of) \in Nat /\ Len(of') \in Nat
  BY DEF HostTypes, Made
<1> QED BY <1>1, Grown DEF RowsSound

\* The path, the nodes of the turn and the rows are nodes there are.
LEMMA PathInside ==
  ASSUME HostTypes, TreesSound
  PROVE  /\ SH!Path \subseteq DOMAIN parent /\ SH!TurnRows \subseteq SH!Path
         /\ Tree(parent) /\ leaf \in Nat /\ Len(of) \in Nat /\ DOMAIN parent \subseteq Nat
         /\ \A i \in SH!Path : i <= leaf
         /\ leaf # 0 => leaf \in SH!Path
         /\ leaf = 0 => SH!Path = {}
         /\ \A i \in SH!Path : parent[i] \in {0} \cup SH!Path
<1>1. Tree(parent) /\ (leaf \in DOMAIN parent \/ leaf = 0) /\ DOMAIN parent \subseteq 1..Len(of)
  BY DEF TreesSound, Sound
<1>2. Len(of) \in Nat /\ DOMAIN parent \subseteq Nat
  BY <1>1 DEF HostTypes, Made
<1>3. CASE leaf = 0
  BY <1>1, <1>2, <1>3, ChainZero DEF SH!Path, SH!TurnRows
<1>4. CASE leaf \in DOMAIN parent
  <2>1. leaf \in Nat /\ leaf # 0
    BY <1>1, <1>2, <1>4
  <2>2. \A i \in SH!Path : i \in DOMAIN parent /\ i <= leaf /\ parent[i] \in {0} \cup SH!Path
    BY <1>1, <1>4, ChainInside, ChainClosed DEF SH!Path
  <2> QED BY <1>1, <1>2, <1>4, <2>1, <2>2, ChainInside DEF SH!Path, SH!TurnRows
<1> QED BY <1>1, <1>3, <1>4

\* push: a node under the cursor.
LEMMA PushSound ==
  ASSUME HostTypes, TreesSound, SH!Push, UNCHANGED sum
  PROVE  /\ Made(of') /\ Len(of') = Len(of) + 1 /\ \A i \in 1..Len(of) : of'[i] = of[i]
         /\ leaf' = Len(of) + 1 /\ DOMAIN parent' = DOMAIN parent \cup {leaf'}
         /\ leaf' \notin DOMAIN parent /\ parent'[leaf'] = leaf
         /\ \A i \in DOMAIN parent : parent'[i] = parent[i]
         /\ Sound(of', parent', leaf', sum')
         /\ SH!Path' = SH!Path \cup {leaf'}
<1> DEFINE n == Len(of) + 1
<1>1. /\ Made(of) /\ Tree(parent) /\ OneRoot(parent) /\ DOMAIN parent \subseteq 1..Len(of)
      /\ leaf \in DOMAIN parent \/ (leaf = 0 /\ DOMAIN parent = {})
      /\ sum \in Summary /\ Covers(of, parent, sum)
  BY DEF HostTypes, TreesSound, Sound
<1>2. Len(of) \in Nat /\ MaxId \in Nat /\ n \in Nat /\ n <= MaxId /\ n \in 1..MaxId /\ n \notin DOMAIN parent
  <2>1. Len(of) \in Nat
    BY <1>1 DEF Made
  <2>2. MaxId \in Nat
    BY MCSafetyAssumption
  <2>3. Len(of) < MaxId
    BY DEF SH!Push
  <2>4. n \notin DOMAIN parent
    BY <1>1, <2>1
  <2> QED BY <2>1, <2>2, <2>3, <2>4
<1>3. of' = Append(of, n) /\ leaf' = n
      /\ parent' = [i \in DOMAIN parent \cup {n} |-> IF i = n THEN leaf ELSE parent[i]]
  BY DEF SH!Push
<1> HIDE DEF n
<1>4. of' \in Seq(1..MaxId) /\ Len(of') = Len(of) + 1 /\ of'[n] = n
      /\ \A i \in 1..Len(of) : of'[i] = of[i]
  BY <1>1, <1>2, <1>3, AppendProperties DEF Made, n
<1>5. Made(of')
  <2>1. \A i \in 1..Len(of') : of'[i] \in 1..i
    <3> TAKE i \in 1..Len(of')
    <3>1. i \in 1..Len(of) \/ i = n
      BY <1>2, <1>4 DEF n
    <3>2. i \in 1..Len(of) => of'[i] \in 1..i
      BY <1>1, <1>4 DEF Made
    <3>3. n \in 1..n
      BY <1>2
    <3> QED BY <1>4, <3>1, <3>2, <3>3
  <2> QED BY <1>2, <1>4, <2>1 DEF Made, n
<1>6. DOMAIN parent' = DOMAIN parent \cup {n} /\ parent'[n] = leaf
      /\ \A i \in DOMAIN parent : parent'[i] = parent[i]
  BY <1>2, <1>3
<1>7. Tree(parent')
  <2>1. leaf < n /\ leaf \in {0} \cup DOMAIN parent
    BY <1>1, <1>2 DEF n
  <2> QED BY <1>1, <1>2, <1>6, <2>1 DEF Tree
<1>8. OneRoot(parent')
  BY <1>1, <1>2, <1>6 DEF OneRoot, Tree
<1>9. \A k \in DOMAIN parent : SH!Chain(parent', k) = SH!Chain(parent, k)
  BY <1>1, <1>6, <1>7, ChainSame
<1>10. SH!Chain(parent', n) = {n} \cup SH!Chain(parent, leaf)
  <2>1. SH!Chain(parent', n) = {n} \cup SH!Chain(parent', leaf)
    BY <1>6, <1>7, ChainNode
  <2> QED BY <1>1, <1>7, <1>9, <2>1, ChainZero
<1>11. Covers(of', parent', sum')
  <2> SUFFICES ASSUME sum.cov # {}
               PROVE  sum.thr \in DOMAIN parent' /\ \A i \in SH!Chain(parent', sum.thr) : of'[i] \in sum.cov
    BY DEF Covers
  <2>1. sum.thr \in DOMAIN parent /\ \A i \in SH!Chain(parent, sum.thr) : of[i] \in sum.cov
    BY <1>1 DEF Covers
  <2>2. \A i \in SH!Chain(parent, sum.thr) : i \in 1..Len(of)
    BY <1>1, <2>1, ChainInside
  <2> QED BY <1>4, <1>6, <1>9, <2>1, <2>2
<1>12. DOMAIN parent' \subseteq 1..Len(of')
  BY <1>1, <1>2, <1>4, <1>6 DEF n
<1>13. Sound(of', parent', leaf', sum')
  BY <1>1, <1>3, <1>6, <1>7, <1>8, <1>11, <1>12 DEF Sound
<1>14. SH!Path' = SH!Path \cup {leaf'}
  BY <1>3, <1>10 DEF SH!Path
<1> QED BY <1>2, <1>3, <1>4, <1>5, <1>6, <1>13, <1>14 DEF n

\* The user's message, or an answer: nothing is saved yet.
LEMMA TurnGrows ==
  ASSUME HostInv, SH!BeginTurn \/ SH!AddMessage
  PROVE  HostInv'
<1>1. /\ SH!Push /\ up = "up" /\ turn' = "run"
      /\ UNCHANGED <<host, up, sum, sid, saved, rows, stored, known, file, warned>>
      /\ \/ turn = "idle" /\ base' = leaf
         \/ turn = "run" /\ base' = base
  BY DEF SH!BeginTurn, SH!AddMessage, SH!Idle, SH!Up
<1> DEFINE n == leaf'
<1>2. /\ Made(of') /\ Len(of') = Len(of) + 1 /\ \A i \in 1..Len(of) : of'[i] = of[i]
      /\ n = Len(of) + 1 /\ DOMAIN parent' = DOMAIN parent \cup {n}
      /\ n \notin DOMAIN parent /\ parent'[n] = leaf
      /\ \A i \in DOMAIN parent : parent'[i] = parent[i]
      /\ Sound(of', parent', n, sum')
      /\ SH!Path' = SH!Path \cup {n}
  BY <1>1, PushSound DEF HostInv
<1>3. Len(of) \in Nat /\ n \in Nat /\ n # 0 /\ Len(of) <= Len(of')
  BY <1>2 DEF HostInv, HostTypes, Made
<1> HIDE DEF n
<1>4. leaf \in 0..Len(of) /\ base \in 0..Len(of) /\ base' \in 0..Len(of)
      /\ (\A i \in DOMAIN parent : i \in 1..Len(of)) /\ leaf # n
  <2>1. leaf \in 0..Len(of) /\ DOMAIN parent \subseteq 1..Len(of)
    BY <1>3 DEF HostInv, TreesSound, Sound
  <2>2. base # 0 => base \in SH!Path
    BY DEF HostInv, TurnOpen, HostTypes
  <2>3. SH!Path \subseteq DOMAIN parent
    BY PathInside DEF HostInv
  <2>4. base \in 0..Len(of)
    BY <1>3, <2>1, <2>2, <2>3
  <2> QED BY <1>1, <1>2, <1>3, <2>1, <2>4
<1>5. HostTypes'
  <2>1. base' \in 0..MaxId
    <3>1. base \in 0..MaxId /\ leaf \in 0..MaxId
      BY <1>4, MCSafetyAssumption DEF HostInv, HostTypes, Made
    <3> QED BY <1>1, <3>1
  <2> QED BY <1>1, <1>2, <2>1 DEF HostInv, HostTypes, SH!SessionIds
<1>6. FileSound'
  BY <1>1, <1>2, <1>3, GrownFile DEF HostInv, TreesSound
<1>7. \A i \in SH!AllRows : i \in 1..Len(of)
  BY DEF SH!AllRows, HostInv, RowsSound, Openable
<1>8. SH!AllRows' = SH!AllRows
  BY <1>1 DEF SH!AllRows
<1>9. SH!TurnRows' = {n} \cup (IF turn = "run" THEN SH!TurnRows ELSE {})
  <2>1. SH!TurnRows' = {i \in SH!Path \cup {n} : i > base'}
    BY <1>2 DEF SH!TurnRows
  <2>2. n > base'
    BY <1>2, <1>3, <1>4
  <2>3. CASE turn = "run"
    <3>1. base' = base
      BY <1>1, <2>3
    <3> QED BY <2>1, <2>2, <2>3, <3>1 DEF SH!TurnRows
  <2>4. CASE turn = "idle"
    <3>1. base' = leaf
      BY <1>1, <2>4
    <3>2. \A i \in SH!Path : i \in Nat /\ ~(i > leaf)
      <4>1. \A i \in SH!Path : i \in Nat /\ i <= leaf
        BY PathInside DEF HostInv
      <4>2. leaf \in Nat
        BY <1>4
      <4> QED BY <4>1, <4>2
    <3> QED BY <2>1, <2>2, <2>4, <3>1, <3>2
  <2> QED BY <2>3, <2>4 DEF HostInv, HostTypes
<1>10. TurnOpen'
  <2>1. base' # 0 => base' \in SH!Path'
    <3>1. leaf # 0 => leaf \in SH!Path
      BY PathInside DEF HostInv
    <3> QED BY <1>1, <1>2, <3>1 DEF HostInv, TurnOpen
  <2>2. base' = 0 => DOMAIN parent' \subseteq SH!Path'
    <3>1. leaf = 0 => DOMAIN parent = {}
      BY DEF HostInv, TreesSound, Sound, Tree
    <3> QED BY <1>1, <1>2, <3>1 DEF HostInv, TurnOpen
  <2>3. \A i \in DOMAIN parent' : parent'[i] \in SH!TurnRows' => i \in SH!TurnRows'
    <3> SUFFICES ASSUME NEW i \in DOMAIN parent, parent[i] \in SH!TurnRows' PROVE i \in SH!TurnRows'
      BY <1>2, <1>9
    <3>1. parent[i] # n
      BY <1>2, <1>3 DEF HostInv, TreesSound, Sound, Tree
    <3> QED BY <1>9, <3>1 DEF HostInv, TurnOpen
  <2>4. SH!TurnRows' \cap SH!AllRows' = {}
    <3>1. n \notin SH!AllRows
      BY <1>2, <1>3, <1>7
    <3> QED BY <1>8, <1>9, <3>1 DEF HostInv, TurnOpen
  <2> QED BY <1>1, <1>3, <2>1, <2>2, <2>3, <2>4 DEF TurnOpen, n
<1>11. RowsSound'
  <2>1. \A s \in SH!SessionIds : Openable(of', rows[s], stored[s])
    BY <1>2, <1>3, GrownRows DEF HostInv
  <2>2. Based(rows[sid], parent')
    BY <1>1, <1>2 DEF HostInv, RowsSound, Based
  <2> QED BY <1>1, <2>1, <2>2 DEF RowsSound, SH!SessionIds
<1>12. TreeSaved'
  BY <1>1, <1>2, <1>9 DEF HostInv, TreeSaved
<1> QED BY <1>2, <1>5, <1>6, <1>10, <1>11, <1>12 DEF HostInv, TreesSound, n

\* Between turns: another tree, or more of it in the table.
LEMMA Replaced ==
  ASSUME HostInv, turn = "idle", UNCHANGED <<turn, base, warned>>, FileSound',
         saved' \subseteq 1..MaxId, host' \in Hosts, up' \in {"up", "quit", "dead"},
         Made(of'), Sound(of', parent', leaf', sum'),
         sid' \in SH!SessionIds, known' \subseteq SH!SessionIds,
         DOMAIN rows' = SH!SessionIds, DOMAIN stored' = SH!SessionIds,
         \A s \in SH!SessionIds : Openable(of', rows'[s], stored'[s]),
         up' = "up" => Based(rows'[sid'], parent'),
         host' # "rpc" => sid' \in known',
         host' # "rpc" /\ up' # "dead" => DOMAIN parent' \subseteq rows'[sid']
  PROVE  HostInv'
<1>1. SH!SessionIds' = SH!SessionIds
  BY DEF SH!SessionIds
<1>2. HostTypes'
  BY <1>1 DEF HostInv, HostTypes
<1>3. TreesSound'
  BY DEF TreesSound
<1>4. TurnOpen'
  BY DEF HostInv, TurnOpen
<1>5. RowsSound'
  BY <1>1 DEF RowsSound
<1>6. TreeSaved'
  BY DEF TreeSaved
<1> QED BY <1>2, <1>3, <1>4, <1>5, <1>6 DEF HostInv

\* A summary of the path up to a node covers it.
LEMMA SummaryCovers ==
  ASSUME HostTypes, TreesSound, NEW cut \in SH!Path, SH!Summarised(cut)
  PROVE  Sound(of, parent, leaf, sum')
<1> DEFINE prefix == {i \in SH!Path : i <= cut}
<1>1. sum' = [thr |-> cut, cov |-> sum.cov \cup SH!Messages(prefix)]
  BY DEF SH!Summarised
<1>2. Tree(parent) /\ SH!Path \subseteq DOMAIN parent /\ DOMAIN parent \subseteq 1..Len(of) /\ sum \in Summary
  BY PathInside DEF TreesSound, Sound
<1>3. leaf \in DOMAIN parent
  <2>1. leaf # 0
    BY PathInside
  <2> QED BY <2>1 DEF TreesSound, Sound
<1>4. SH!Chain(parent, cut) = prefix
  BY <1>2, <1>3, ChainBelow DEF SH!Path
<1>5. sum' \in Summary
  <2>1. \A i \in 1..Len(of) : of[i] \in 1..MaxId
    BY ElementOfSeq DEF HostTypes, Made
  <2>2. SH!Messages(prefix) \subseteq 1..MaxId
    BY <1>2, <2>1 DEF SH!Messages
  <2>3. cut \in 0..MaxId
    <3>1. cut \in 1..MaxId
      BY <1>2 DEF Tree
    <3> QED BY <3>1, MCSafetyAssumption
  <2> QED BY <1>1, <1>2, <2>2, <2>3 DEF Summary
<1>6. Covers(of, parent, sum')
  <2>1. \A i \in prefix : of[i] \in sum'.cov
    BY <1>1 DEF SH!Messages
  <2>2. sum'.thr = cut /\ cut \in DOMAIN parent
    BY <1>1, <1>2
  <2> HIDE DEF prefix
  <2> QED BY <1>4, <2>1, <2>2 DEF Covers
<1> QED BY <1>5, <1>6 DEF TreesSound, Sound

LEMMA TurnCompresses == ASSUME HostInv, SH!CompressInTurn PROVE HostInv'
<1>1. PICK cut \in SH!Path : SH!Summarised(cut)
  BY DEF SH!CompressInTurn
<1>2. UNCHANGED <<host, up, parent, leaf, sid, turn, base, saved, of,
                  rows, stored, known, file, warned>>
  BY DEF SH!CompressInTurn
<1>3. Sound(of, parent, leaf, sum')
  BY <1>1, SummaryCovers DEF HostInv
<1>4. SH!Path' = SH!Path /\ SH!TurnRows' = SH!TurnRows /\ SH!AllRows' = SH!AllRows
      /\ SH!SessionIds' = SH!SessionIds
  BY <1>2 DEF SH!Path, SH!TurnRows, SH!AllRows, SH!SessionIds
<1>5. HostTypes'
  BY <1>2, <1>4 DEF HostInv, HostTypes
<1>6. TreesSound'
  BY <1>2, <1>3 DEF HostInv, TreesSound, FileSound
<1>7. TurnOpen'
  BY <1>2, <1>4 DEF HostInv, TurnOpen
<1>8. RowsSound'
  BY <1>2, <1>4 DEF HostInv, RowsSound
<1>9. TreeSaved'
  BY <1>2, <1>4 DEF HostInv, TreeSaved
<1> QED BY <1>5, <1>6, <1>7, <1>8, <1>9 DEF HostInv

\* What is saved of the open tree with its root keeps the session openable.
LEMMA PersistSound ==
  ASSUME HostTypes, TreesSound, RowsSound, up = "up", NEW ids, NEW s,
         ids \subseteq DOMAIN parent, Sound(of, parent, leaf, s),
         Based(rows[sid] \cup ids, parent),
         s.cov # {} => rows[sid] \cup ids # {},
         NEW cov \in {{}, s.cov}, SH!Persist(sid, ids, cov)
  PROVE  /\ DOMAIN rows' = SH!SessionIds /\ DOMAIN stored' = SH!SessionIds /\ UNCHANGED warned
         /\ \A x \in SH!SessionIds : Openable(of, rows'[x], stored'[x])
         /\ Based(rows'[sid], parent)
         /\ rows[sid] \subseteq rows'[sid]
         /\ ids \cap SH!AllRows = {} => ids \subseteq rows'[sid]
         /\ \A x \in SH!SessionIds \ {sid} : rows'[x] = rows[x]
<1>1. sid \in SH!SessionIds /\ DOMAIN rows = SH!SessionIds /\ DOMAIN stored = SH!SessionIds
  BY DEF HostTypes
<1>2. CASE /\ ids \cap SH!AllRows # {}
           /\ UNCHANGED <<rows, stored>>
  BY <1>1, <1>2 DEF SH!Persist, RowsSound
<1>3. CASE /\ rows' = [rows EXCEPT ![sid] = @ \cup ids]
           /\ stored' = IF cov # {} /\ sid \in known THEN [stored EXCEPT ![sid] = cov] ELSE stored
           /\ UNCHANGED warned
  <2>1. rows'[sid] = rows[sid] \cup ids /\ DOMAIN rows' = SH!SessionIds /\ DOMAIN stored' = SH!SessionIds
        /\ \A x \in SH!SessionIds \ {sid} : rows'[x] = rows[x] /\ stored'[x] = stored[x]
    BY <1>1, <1>3
  <2>2. stored'[sid] = stored[sid] \/ (stored'[sid] = s.cov /\ s.cov # {})
    BY <1>1, <1>3
  <2>3. Openable(of, rows[sid], stored[sid]) /\ Based(rows[sid], parent)
    BY <1>1 DEF RowsSound
  <2>4. Tree(parent) /\ OneRoot(parent) /\ DOMAIN parent \subseteq 1..Len(of) /\ s \in Summary
    BY DEF Sound
  <2>5. /\ rows[sid] \subseteq 1..Len(of) /\ rows'[sid] \subseteq 1..Len(of)
        /\ rows[sid] \subseteq Nat /\ rows'[sid] \subseteq Nat /\ Based(rows'[sid], parent)
    <3>1. rows[sid] \subseteq 1..Len(of) /\ ids \subseteq 1..Len(of)
      BY <2>3, <2>4 DEF Openable
    <3>2. \A x \in 1..Len(of) : x \in Nat
      OBVIOUS
    <3> QED BY <2>1, <3>1, <3>2
  <2>6. Openable(of, rows'[sid], stored'[sid])
    <3>1. CASE stored'[sid] = {}
      BY <2>5, <3>1 DEF Openable
    <3>2. CASE stored'[sid] = stored[sid] /\ stored[sid] # {}
      <4>1. rows[sid] # {} /\ of[SH!Least(rows[sid])] \in stored[sid] /\ stored[sid] \subseteq 1..MaxId
        BY <2>3, <3>2 DEF Openable
      <4>2. rows'[sid] # {} /\ SH!Least(rows[sid]) = SH!Least(DOMAIN parent)
        BY <2>1, <2>3, <2>4, <2>5, <4>1, LeastBased
      <4>3. SH!Least(rows'[sid]) = SH!Least(DOMAIN parent)
        BY <2>4, <2>5, <4>2, LeastBased
      <4> QED BY <2>5, <3>2, <4>1, <4>2, <4>3 DEF Openable
    <3>3. CASE stored'[sid] = s.cov /\ s.cov # {}
      <4>1. rows'[sid] # {}
        BY <2>1, <3>3
      <4>2. SH!Least(rows'[sid]) = SH!Least(DOMAIN parent)
        BY <2>4, <2>5, <4>1, LeastBased
      <4>3. of[SH!Least(DOMAIN parent)] \in s.cov
        BY <3>3, RootCovered
      <4>4. s.cov \subseteq 1..MaxId
        BY <2>4 DEF Summary
      <4> QED BY <2>5, <3>3, <4>1, <4>2, <4>3, <4>4 DEF Openable
    <3> QED BY <2>2, <3>1, <3>2, <3>3
  <2>7. \A x \in SH!SessionIds : Openable(of, rows'[x], stored'[x])
    <3> TAKE x \in SH!SessionIds
    <3>1. CASE x = sid
      BY <2>6, <3>1
    <3>2. CASE x # sid
      BY <2>1, <3>2 DEF RowsSound
    <3> QED BY <3>1, <3>2
  <2> QED BY <1>3, <2>1, <2>5, <2>7
<1> QED BY <1>2, <1>3 DEF SH!Persist

\* A root is on the path and is saved, or is one of the nodes of the turn.
LEMMA RootOnPath ==
  ASSUME HostTypes, TreesSound, leaf # 0
  PROVE  \E r \in SH!Path : r \in DOMAIN parent /\ parent[r] = 0
<1>1. leaf \in DOMAIN parent /\ Tree(parent)
  BY DEF TreesSound, Sound
<1> QED BY <1>1, ChainRoot DEF SH!Path

LEMMA RowsAre ==
  ASSUME HostTypes, RowsSound
  PROVE  rows[sid] \subseteq 1..Len(of) /\ rows[sid] \subseteq Nat
<1>1. rows[sid] \subseteq 1..Len(of)
  BY DEF HostTypes, RowsSound, Openable
<1> QED BY <1>1

LEMMA RootBefore ==
  ASSUME HostTypes, TreesSound, DOMAIN parent # {}
  PROVE  \E r \in DOMAIN parent : parent[r] = 0 /\ (sum.cov # {} => of[r] \in sum.cov)
<1>1. Tree(parent) /\ OneRoot(parent) /\ Sound(of, parent, leaf, sum)
  BY DEF TreesSound, Sound
<1> QED BY <1>1, RootIsLeast, RootCovered

\* A turn that ended is saved.
LEMMA TurnEnds == ASSUME HostInv, SH!EndTurn PROVE HostInv'
<1>1. /\ up = "up" /\ turn = "run" /\ turn' = "idle" /\ base' = 0
      /\ up' = IF host = "run" THEN "quit" ELSE up
      /\ UNCHANGED <<host, parent, leaf, sum, sid, of, known, file>>
  BY DEF SH!EndTurn, SH!Up
<1> DEFINE cov == IF sum.cov # saved \/ host = "run" THEN sum.cov ELSE {}
<1>2. IF host = "rpc" THEN UNCHANGED <<rows, stored, warned, saved>>
      ELSE SH!Persist(sid, SH!TurnRows, cov) /\ saved' = IF sum.cov # {} THEN sum.cov ELSE saved
  BY DEF SH!EndTurn
<1>3. sum \in Summary /\ Sound(of, parent, leaf, sum) /\ Tree(parent) /\ SH!TurnRows \subseteq DOMAIN parent
  BY PathInside DEF HostInv, TreesSound, Sound
<1>4. host # "rpc" =>
        /\ sid \in known /\ SH!TurnRows \cap SH!AllRows = {}
        /\ \A i \in DOMAIN parent : i \in rows[sid] \/ i \in SH!TurnRows
  BY <1>1 DEF HostInv, TurnOpen, TreeSaved
<1>5. host # "rpc" => DOMAIN parent \subseteq rows[sid] \cup SH!TurnRows
  BY <1>4
<1>6. CASE host = "rpc"
  <2>1. SH!SessionIds' = SH!SessionIds
    BY DEF SH!SessionIds
  <2>2. HostTypes'
    BY MCSafetyAssumption, <1>1, <1>2, <1>6, <2>1 DEF HostInv, HostTypes
  <2>3. TreesSound'
    BY <1>1 DEF HostInv, TreesSound, FileSound
  <2>4. TurnOpen'
    BY <1>1 DEF TurnOpen
  <2>5. RowsSound'
    BY <1>1, <1>2, <1>6, <2>1 DEF HostInv, RowsSound
  <2>6. TreeSaved'
    BY <1>1, <1>6 DEF TreeSaved
  <2> QED BY <2>2, <2>3, <2>4, <2>5, <2>6 DEF HostInv
<1>7. CASE host # "rpc"
  <2>1. SH!SessionIds' = SH!SessionIds
    BY DEF SH!SessionIds
  <2>2. Based(rows[sid] \cup SH!TurnRows, parent)
    <3>1. Based(rows[sid], parent) /\ rows[sid] \subseteq Nat
      BY <1>1, RowsAre DEF HostInv, RowsSound
    <3>2. rows[sid] = {} /\ SH!TurnRows # {} => \E r \in SH!TurnRows : parent[r] = 0
      BY <1>3, <1>5, <1>7, RootBefore DEF HostInv
    <3> QED BY <1>3, <3>1, <3>2, BasedMore DEF Sound
  <2>3. sum.cov # {} => rows[sid] \cup SH!TurnRows # {}
    BY <1>3, <1>5, <1>7, RootCovered
  <2>4. cov \in {{}, sum.cov} /\ SH!Persist(sid, SH!TurnRows, cov)
    BY <1>2, <1>7
  <2> HIDE DEF cov
  <2>5. /\ DOMAIN rows' = SH!SessionIds /\ DOMAIN stored' = SH!SessionIds /\ UNCHANGED warned
        /\ \A x \in SH!SessionIds : Openable(of, rows'[x], stored'[x])
        /\ Based(rows'[sid], parent)
        /\ rows[sid] \subseteq rows'[sid] /\ SH!TurnRows \subseteq rows'[sid]
    BY <1>1, <1>3, <1>4, <1>7, <2>2, <2>3, <2>4, PersistSound DEF HostInv
  <2>6. saved' \subseteq 1..MaxId
    BY <1>2, <1>3, <1>7 DEF HostInv, HostTypes, Summary
  <2>7. HostTypes'
    <3>1. base' \in 0..MaxId /\ up' \in {"up", "quit", "dead"}
      BY MCSafetyAssumption, <1>1
    <3>2. saved' \cup warned' \subseteq 1..MaxId
      BY <2>5, <2>6 DEF HostInv, HostTypes
    <3> QED BY <1>1, <2>1, <2>5, <3>1, <3>2 DEF HostInv, HostTypes
  <2>8. TreesSound'
    BY <1>1 DEF HostInv, TreesSound, FileSound
  <2>9. TurnOpen'
    BY <1>1 DEF TurnOpen
  <2>10. RowsSound'
    BY <1>1, <2>1, <2>5 DEF RowsSound
  <2>11. TreeSaved'
    BY <1>1, <1>4, <1>5, <1>7, <2>5 DEF TreeSaved
  <2> QED BY <2>7, <2>8, <2>9, <2>10, <2>11 DEF HostInv
<1> QED BY <1>6, <1>7

\* The nodes of a failed turn are taken out of the tree again, and nothing else.
LEMMA RolledBack ==
  ASSUME HostInv, turn = "run", sum.cov # {} => sum.thr <= base, host # "rpc",
         parent' = [i \in DOMAIN parent \ SH!TurnRows |-> parent[i]], leaf' = base,
         UNCHANGED <<of, sum>>
  PROVE  /\ Sound(of', parent', leaf', sum')
         /\ DOMAIN parent' = DOMAIN parent \ SH!TurnRows
         /\ \A i \in DOMAIN parent' : parent'[i] = parent[i]
<1> DEFINE D == DOMAIN parent \ SH!TurnRows
<1>1. /\ Tree(parent) /\ OneRoot(parent) /\ DOMAIN parent \subseteq 1..Len(of)
      /\ sum \in Summary /\ Covers(of, parent, sum)
      /\ SH!Path \subseteq DOMAIN parent /\ DOMAIN parent \subseteq Nat
      /\ \A i \in DOMAIN parent : parent[i] \in SH!TurnRows => i \in SH!TurnRows
  BY PathInside DEF HostInv, TreesSound, Sound, TurnOpen
<1>2. DOMAIN parent' = D /\ \A i \in D : parent'[i] = parent[i]
  OBVIOUS
<1>3. Tree(parent')
  BY <1>1, <1>2 DEF Tree
<1>4. OneRoot(parent')
  BY <1>1, <1>2 DEF OneRoot
<1>5. base \in D \/ (base = 0 /\ D = {})
  <2>1. CASE base # 0
    <3>1. base \in SH!Path /\ base \in Nat
      BY <1>1, <2>1 DEF HostInv, TurnOpen
    <3>2. base \notin SH!TurnRows
      BY <3>1 DEF SH!TurnRows
    <3> QED BY <1>1, <3>1, <3>2
  <2>2. CASE base = 0
    <3>1. \A i \in DOMAIN parent : i \in SH!Path /\ i > base
      BY <1>1, <2>2 DEF HostInv, TurnOpen
    <3> QED BY <2>2, <3>1 DEF SH!TurnRows
  <2> QED BY <2>1, <2>2
<1>6. Covers(of, parent', sum)
  <2> SUFFICES ASSUME sum.cov # {}
               PROVE  sum.thr \in D /\ \A i \in SH!Chain(parent', sum.thr) : of[i] \in sum.cov
    BY <1>2 DEF Covers
  <2>1. sum.thr \in DOMAIN parent /\ \A i \in SH!Chain(parent, sum.thr) : of[i] \in sum.cov
    BY <1>1 DEF Covers
  <2>2. sum.thr \notin SH!TurnRows
    <3>1. sum.thr <= base /\ sum.thr \in Nat /\ base \in Nat
      BY <1>1, <2>1, MCSafetyAssumption DEF HostInv, HostTypes
    <3> QED BY <3>1 DEF SH!TurnRows
  <2>3. SH!Chain(parent, sum.thr) = SH!Chain(parent', sum.thr)
    <3>1. \A i \in DOMAIN parent' : i \in DOMAIN parent /\ parent[i] = parent'[i]
      BY <1>2
    <3>2. sum.thr \in DOMAIN parent'
      BY <1>2, <2>1, <2>2
    <3> QED BY <1>1, <1>3, <3>1, <3>2, ChainSame
  <2> QED BY <2>1, <2>2, <2>3
<1> QED BY <1>1, <1>2, <1>3, <1>4, <1>5, <1>6 DEF Sound

LEMMA TurnFails == ASSUME HostInv, SH!FailTurn PROVE HostInv'
<1>1. /\ up = "up" /\ turn = "run" /\ turn' = "idle" /\ base' = 0
      /\ up' = IF host = "run" THEN "dead" ELSE up
      /\ UNCHANGED <<host, sum, sid, saved, of, rows, stored, known, file, warned>>
  BY DEF SH!FailTurn, SH!Up
<1>2. sum.cov # {} => sum.thr <= base
  <2>1. sum.cov # {} => ~(sum.thr > base)
    BY DEF SH!FailTurn
  <2>2. sum.thr \in Nat /\ base \in Nat
    BY MCSafetyAssumption DEF HostInv, HostTypes, TreesSound, Sound, Summary
  <2> QED BY <2>1, <2>2
<1>3. SH!SessionIds' = SH!SessionIds
  BY DEF SH!SessionIds
<1>4. HostTypes'
  BY MCSafetyAssumption, <1>1, <1>3 DEF HostInv, HostTypes
<1>5. FileSound'
  BY <1>1 DEF HostInv, TreesSound, FileSound
<1>6. TurnOpen'
  BY <1>1 DEF TurnOpen
<1>7. CASE host = "repl"
  <2>1. parent' = [i \in DOMAIN parent \ SH!TurnRows |-> parent[i]] /\ leaf' = base
    BY <1>7 DEF SH!FailTurn
  <2>2. /\ Sound(of', parent', leaf', sum')
        /\ DOMAIN parent' = DOMAIN parent \ SH!TurnRows
        /\ \A i \in DOMAIN parent' : parent'[i] = parent[i]
    BY <1>1, <1>2, <1>7, <2>1, RolledBack
  <2>3. rows[sid] \cap SH!TurnRows = {}
    BY <1>1 DEF HostInv, HostTypes, TurnOpen, SH!AllRows
  <2>4. Based(rows[sid], parent)
    BY <1>1 DEF HostInv, RowsSound
  <2>5. Based(rows[sid], parent')
    BY <2>2, <2>3, <2>4 DEF Based
  <2>6. RowsSound'
    BY <1>1, <1>3, <2>5 DEF HostInv, RowsSound
  <2>7. TreeSaved'
    BY <1>1, <2>2 DEF HostInv, TreeSaved
  <2> QED BY <1>4, <1>5, <1>6, <2>2, <2>6, <2>7 DEF HostInv, TreesSound
<1>8. CASE host # "repl"
  <2>1. UNCHANGED <<parent, leaf>>
    BY <1>8 DEF SH!FailTurn
  <2>2. Sound(of', parent', leaf', sum')
    BY <1>1, <2>1 DEF HostInv, TreesSound
  <2>3. RowsSound'
    BY <1>1, <1>3, <2>1 DEF HostInv, RowsSound
  <2>4. TreeSaved'
    <3>1. host = "run" => up' = "dead"
      BY <1>1
    <3>2. host \in {"run", "rpc"}
      BY <1>8, PartsAssumption DEF HostInv, HostTypes, SH!SessionHostAssumption
    <3> QED BY <1>1, <2>1, <3>1, <3>2 DEF HostInv, TreeSaved
  <2> QED BY <1>4, <1>5, <1>6, <2>2, <2>3, <2>4 DEF HostInv, TreesSound
<1> QED BY <1>7, <1>8

\* "/compact"
LEMMA CommandCompacts == ASSUME HostInv, SH!CompactCommand PROVE HostInv'
<1>1. PICK cut \in SH!Path : SH!Summarised(cut)
  BY DEF SH!CompactCommand
<1>2. /\ up = "up" /\ turn = "idle" /\ host # "run"
      /\ UNCHANGED <<host, up, parent, leaf, sid, turn, base, of, known, file>>
  BY DEF SH!CompactCommand, SH!Idle, SH!Up
<1>3. Sound(of, parent, leaf, sum') /\ sum' \in Summary
  BY <1>1, SummaryCovers DEF HostInv, Sound
<1>4. FileSound'
  BY <1>2 DEF HostInv, TreesSound, FileSound
<1>5. CASE UNCHANGED <<rows, stored, warned, saved>>
  <2>1. TurnOpen'
    BY <1>2 DEF HostInv, TurnOpen
  <2>2. SH!SessionIds' = SH!SessionIds
    BY DEF SH!SessionIds
  <2>3. HostTypes' /\ RowsSound'
    BY <1>2, <1>5, <2>2 DEF HostInv, HostTypes, RowsSound
  <2>4. TreeSaved'
    BY <1>2, <1>5 DEF HostInv, TreeSaved
  <2> QED BY <1>2, <1>3, <1>4, <2>1, <2>3, <2>4 DEF HostInv, TreesSound
<1>6. CASE host = "repl" /\ SH!Persist(sid, {}, sum'.cov) /\ saved' = sum'.cov
  <2>1. sid \in known /\ \A i \in DOMAIN parent : i \in rows[sid]
    BY <1>2, <1>6 DEF HostInv, TreeSaved
  <2>2. Based(rows[sid], parent)
    BY <1>2 DEF HostInv, RowsSound
  <2>3. sum'.cov # {} => rows[sid] # {}
    BY <1>3, <2>1, RootCovered
  <2>4. {} \subseteq DOMAIN parent /\ rows[sid] \cup {} = rows[sid] /\ sum'.cov \in {{}, sum'.cov}
    OBVIOUS
  <2>5. /\ DOMAIN rows' = SH!SessionIds /\ DOMAIN stored' = SH!SessionIds /\ UNCHANGED warned
        /\ \A x \in SH!SessionIds : Openable(of, rows'[x], stored'[x])
        /\ Based(rows'[sid], parent)
        /\ rows[sid] \subseteq rows'[sid]
    BY <1>2, <1>3, <1>6, <2>2, <2>3, <2>4, PersistSound DEF HostInv
  <2>6. saved' \subseteq 1..MaxId
    BY <1>3, <1>6 DEF Summary
  <2>7. /\ host' \in Hosts /\ up' \in {"up", "quit", "dead"} /\ sid' \in SH!SessionIds
        /\ known' \subseteq SH!SessionIds /\ Made(of') /\ UNCHANGED <<turn, base>>
    BY <1>2 DEF HostInv, HostTypes
  <2>8. Sound(of', parent', leaf', sum')
    BY <1>2, <1>3
  <2> QED BY <1>2, <1>4, <2>1, <2>5, <2>6, <2>7, <2>8, Replaced
<1> QED BY <1>5, <1>6 DEF SH!CompactCommand

\* "/rewind" and "/goto"
LEMMA CursorMoves == ASSUME HostInv, SH!MoveCursor PROVE HostInv'
<1>1. /\ up = "up" /\ turn = "idle" /\ host = "repl" /\ leaf' \in DOMAIN parent
      /\ UNCHANGED <<host, up, parent, sum, sid, turn, base, saved, of,
                     rows, stored, known, file, warned>>
  BY DEF SH!MoveCursor, SH!Idle, SH!Up
<1>2. SH!SessionIds' = SH!SessionIds
  BY DEF SH!SessionIds
<1>3. HostTypes' /\ RowsSound' /\ TurnOpen'
  BY <1>1, <1>2 DEF HostInv, HostTypes, RowsSound, TurnOpen
<1>4. TreesSound'
  BY <1>1 DEF HostInv, TreesSound, FileSound, Sound
<1>5. TreeSaved'
  BY <1>1 DEF HostInv, TreeSaved
<1> QED BY <1>3, <1>4, <1>5 DEF HostInv

\* An empty session.
LEMMA EmptySound ==
  ASSUME NEW o
  PROVE  Sound(o, <<>>, 0, SH!NoSummary)
<1>1. DOMAIN <<>> = {}
  OBVIOUS
<1>2. SH!NoSummary \in Summary /\ SH!NoSummary.cov = {}
  BY MCSafetyAssumption DEF SH!NoSummary, Summary
<1> QED BY <1>1, <1>2 DEF Sound, Tree, OneRoot, Covers

LEMMA SessionNew == ASSUME HostInv, SH!NewSession PROVE HostInv'
<1>1. /\ up = "up" /\ turn = "idle" /\ SH!CanMake /\ sid' = SH!FreshSession
      /\ known' = IF host = "rpc" THEN known ELSE known \cup {sid'}
      /\ parent' = <<>> /\ leaf' = 0 /\ sum' = SH!NoSummary
      /\ UNCHANGED <<host, up, turn, base, saved, of, rows, stored, file, warned>>
  BY DEF SH!NewSession, SH!Idle, SH!Up
<1>2. sid' \in SH!SessionIds /\ rows[sid'] = {}
  BY <1>1, FreshIs
<1>3. Sound(of', parent', leaf', sum') /\ DOMAIN parent' = {}
  BY <1>1, EmptySound
<1>4. FileSound'
  BY <1>1 DEF HostInv, TreesSound, FileSound
<1>5. /\ host' \in Hosts /\ up' \in {"up", "quit", "dead"} /\ saved' \subseteq 1..MaxId
      /\ known' \subseteq SH!SessionIds /\ Made(of') /\ UNCHANGED <<turn, base, warned>>
      /\ DOMAIN rows' = SH!SessionIds /\ DOMAIN stored' = SH!SessionIds
  BY <1>1, <1>2 DEF HostInv, HostTypes
<1>6. \A s \in SH!SessionIds : Openable(of', rows'[s], stored'[s])
  BY <1>1 DEF HostInv, RowsSound
<1>7. host' # "rpc" => sid' \in known'
  BY <1>1
<1>8. Based(rows'[sid'], parent')
  BY <1>1, <1>2 DEF Based
<1> QED BY <1>1, <1>2, <1>3, <1>4, <1>5, <1>6, <1>7, <1>8, Replaced

\* The file has the summary of the path, up to before the first node it keeps.
LEMMA FileWritten == ASSUME HostInv, SH!Export PROVE HostInv'
<1>1. /\ DOMAIN parent # {} /\ file' = SH!Exported
      /\ UNCHANGED <<host, up, parent, leaf, sum, sid, turn, base, saved, of,
                     rows, stored, known, warned>>
  BY DEF SH!Export
<1>2. /\ Tree(parent) /\ OneRoot(parent) /\ DOMAIN parent \subseteq 1..Len(of)
      /\ sum \in Summary /\ Covers(of, parent, sum) /\ leaf \in DOMAIN parent
  BY <1>1 DEF HostInv, TreesSound, Sound
<1>3. /\ SH!Path \subseteq DOMAIN parent /\ DOMAIN parent \subseteq Nat /\ Len(of) \in Nat
      /\ \A i \in SH!Path : parent[i] \in {0} \cup SH!Path
  BY PathInside DEF HostInv
<1> DEFINE later == {i \in SH!Path : i > sum.thr}
           k == SH!FirstKept
<1>4. /\ file'.parent = parent /\ file'.kept = k
      /\ file'.cov = IF k = 0 THEN {} ELSE sum.cov
  BY <1>1 DEF SH!Exported
<1>5. k # 0 => sum.cov # {} /\ sum.thr \in SH!Path /\ later # {} /\ k = SH!Least(later)
  BY DEF SH!FirstKept
<1>6. k # 0 => k \in later /\ \A y \in later : k <= y
  <2>1. later \subseteq Nat
    BY <1>3
  <2> HIDE DEF later, k
  <2> QED BY <1>5, <2>1, LeastIs
<1>7. k = 0 \/ (k \in SH!Path /\ k > sum.thr)
  BY <1>6
<1> HIDE DEF k
<1>8. ASSUME k # 0
      PROVE  parent[k] # 0 /\ Covers(of, parent, [thr |-> parent[k], cov |-> sum.cov])
  <2>1. k \in SH!Path /\ k \in DOMAIN parent /\ sum.thr \in SH!Path /\ sum.thr < k /\ sum.thr \in DOMAIN parent
    BY <1>3, <1>5, <1>7, <1>8
  <2>2. sum.thr \in Nat /\ k \in Nat
    BY <1>3, <2>1
  <2>3. sum.thr \in SH!Chain(parent, k)
    <3>1. SH!Chain(parent, k) = {j \in SH!Path : j <= k}
      BY <1>2, <2>1, ChainBelow DEF SH!Path
    <3>2. sum.thr <= k
      BY <2>1, <2>2
    <3> QED BY <2>1, <3>1, <3>2
  <2>4. sum.thr \in SH!Chain(parent, parent[k])
    <3>1. SH!Chain(parent, k) = {k} \cup SH!Chain(parent, parent[k])
      BY <1>2, <2>1, ChainNode
    <3>2. sum.thr # k
      BY <2>1, <2>2
    <3> QED BY <2>3, <3>1, <3>2
  <2>5. parent[k] # 0
    BY <1>2, <2>4, ChainZero
  <2>6. parent[k] \in SH!Path /\ parent[k] < k /\ parent[k] \in Nat
    BY <1>2, <1>3, <2>1, <2>5 DEF Tree
  <2>7. parent[k] <= sum.thr
    <3>1. parent[k] \in later => k <= parent[k]
      BY <1>6, <1>8
    <3>2. parent[k] \notin later
      <4> HIDE DEF later
      <4> QED BY <2>2, <2>6, <3>1
    <3> QED BY <2>2, <2>6, <3>2
  <2>8. \A i \in SH!Chain(parent, parent[k]) : i \in SH!Chain(parent, sum.thr)
    <3>1. SH!Chain(parent, parent[k]) = {j \in SH!Path : j <= parent[k]}
      BY <1>2, <2>6, ChainBelow DEF SH!Path
    <3>2. SH!Chain(parent, sum.thr) = {j \in SH!Path : j <= sum.thr}
      BY <1>2, <2>1, ChainBelow DEF SH!Path
    <3>3. \A j \in SH!Path : j \in Nat
      BY <1>3
    <3> QED BY <2>2, <2>6, <2>7, <3>1, <3>2, <3>3
  <2>9. parent[k] \in DOMAIN parent
    BY <1>3, <2>6
  <2> QED BY <1>2, <1>5, <1>8, <2>5, <2>8, <2>9 DEF Covers
<1>9. k \in 0..MaxId
  <2>1. k \in SH!Path => k \in 1..MaxId
    BY <1>2, <1>3 DEF Tree
  <2> QED BY <1>7, <2>1, MCSafetyAssumption
<1>10. FileSound'
  <2>1. file'.cov \subseteq 1..MaxId
    BY <1>2, <1>4 DEF Summary
  <2>2. file'.kept # 0 =>
          /\ file'.kept \in DOMAIN file'.parent /\ file'.parent[file'.kept] # 0
          /\ Covers(of', file'.parent, [thr |-> file'.parent[file'.kept], cov |-> file'.cov])
    BY <1>1, <1>3, <1>4, <1>7, <1>8
  <2>3. Tree(file'.parent) /\ OneRoot(file'.parent) /\ DOMAIN file'.parent \subseteq 1..Len(of')
        /\ DOMAIN file'.parent # {} /\ DOMAIN file'.parent \subseteq 1..MaxId
    BY <1>1, <1>2, <1>4 DEF Tree
  <2> QED BY <1>4, <1>9, <2>1, <2>2, <2>3 DEF FileSound
<1>11. SH!Path' = SH!Path /\ SH!TurnRows' = SH!TurnRows /\ SH!AllRows' = SH!AllRows
       /\ SH!SessionIds' = SH!SessionIds
  BY <1>1 DEF SH!Path, SH!TurnRows, SH!AllRows, SH!SessionIds
<1>12. HostTypes' /\ RowsSound' /\ TurnOpen' /\ TreeSaved'
  BY <1>1, <1>11 DEF HostInv, HostTypes, RowsSound, TurnOpen, TreeSaved
<1>13. TreesSound'
  BY <1>1, <1>10 DEF HostInv, TreesSound
<1> QED BY <1>12, <1>13 DEF HostInv

\* A tree that is adopted is the open session, with all its rows.
LEMMA AdoptedKeeps ==
  ASSUME HostInv, turn = "idle", Adopted, UNCHANGED <<turn, base, file, warned>>,
         host' \in Hosts, up' = "up", saved' \subseteq 1..MaxId
  PROVE  HostInv'
<1>1. FileSound'
  BY GrownFile DEF Adopted, HostInv, TreesSound
<1>2. /\ Sound(of', parent', leaf', sum') /\ Made(of') /\ sid' \in SH!SessionIds
      /\ known' = known \cup {sid'} /\ rows' = [rows EXCEPT ![sid'] = DOMAIN parent']
      /\ stored' = [stored EXCEPT ![sid'] = sum'.cov]
  BY DEF Adopted
<1>3. /\ DOMAIN rows = SH!SessionIds /\ DOMAIN stored = SH!SessionIds /\ known \subseteq SH!SessionIds
  BY DEF HostInv, HostTypes
<1>4. DOMAIN rows' = SH!SessionIds /\ DOMAIN stored' = SH!SessionIds /\ known' \subseteq SH!SessionIds
      /\ rows'[sid'] = DOMAIN parent' /\ stored'[sid'] = sum'.cov
      /\ \A s \in SH!SessionIds \ {sid'} : rows'[s] = rows[s] /\ stored'[s] = stored[s]
  BY <1>2, <1>3
<1>5. Tree(parent') /\ OneRoot(parent') /\ DOMAIN parent' \subseteq 1..Len(of') /\ sum' \in Summary
  BY <1>2 DEF Sound
<1>6. Openable(of', DOMAIN parent', sum'.cov)
  <2>1. sum'.cov \subseteq 1..MaxId
    BY <1>5 DEF Summary
  <2>2. sum'.cov # {} => DOMAIN parent' # {} /\ of'[SH!Least(DOMAIN parent')] \in sum'.cov
    BY <1>2, RootCovered
  <2> QED BY <1>5, <2>1, <2>2 DEF Openable
<1>7. \A s \in SH!SessionIds : Openable(of', rows'[s], stored'[s])
  <2> TAKE s \in SH!SessionIds
  <2>1. CASE s = sid'
    BY <1>4, <1>6, <2>1
  <2>2. CASE s # sid'
    <3>1. Openable(of', rows[s], stored[s])
      BY GrownRows DEF Adopted, HostInv
    <3> QED BY <1>4, <2>2, <3>1
  <2> QED BY <2>1, <2>2
<1>8. Based(rows'[sid'], parent')
  BY <1>4, <1>5, RootIsLeast DEF Based
<1> QED BY <1>1, <1>2, <1>4, <1>7, <1>8, Replaced

\* "/import": the cursor goes to the last message of the file.
LEMMA FileAdopted ==
  ASSUME HostTypes, FileSound, file # SH!None, SH!ImportFile
  PROVE  Adopted
<1> DEFINE D == DOMAIN file.parent
           through == IF file.parent[file.kept] # 0 THEN file.parent[file.kept] ELSE file.kept
           s == IF file.kept = 0 THEN SH!NoSummary ELSE [thr |-> through, cov |-> file.cov]
<1>1. /\ Tree(file.parent) /\ OneRoot(file.parent) /\ D \subseteq 1..Len(of) /\ D # {}
      /\ file.cov \subseteq 1..MaxId
      /\ file.kept # 0 =>
           /\ file.kept \in D /\ file.parent[file.kept] # 0
           /\ Covers(of, file.parent, [thr |-> file.parent[file.kept], cov |-> file.cov])
  BY DEF FileSound
<1>2. SH!Adopt(file.parent, SH!Newest(D), s, SH!Copy(D))
  BY DEF SH!ImportFile
<1>3. SH!Newest(D) \in D
  <2>1. Len(of) \in Nat /\ D \subseteq 0..Len(of)
    BY <1>1 DEF HostTypes, Made
  <2> HIDE DEF D
  <2>2. \E x \in D : \A y \in D : y <= x
    BY <1>1, <2>1, GreatestNat
  <2> QED BY <1>1, <2>2 DEF SH!Newest
<1>4. s \in Summary /\ Covers(of, file.parent, s)
  <2>1. CASE file.kept = 0
    BY <2>1, MCSafetyAssumption DEF SH!NoSummary, Summary, Covers
  <2>2. CASE file.kept # 0
    <3>1. s = [thr |-> file.parent[file.kept], cov |-> file.cov]
      BY <1>1, <2>2
    <3>2. file.parent[file.kept] \in 0..MaxId
      <4>1. file.parent[file.kept] \in {0} \cup D /\ D \subseteq 1..MaxId
        BY <1>1, <2>2 DEF Tree
      <4>2. \A x \in 1..MaxId : x \in 0..MaxId
        BY MCSafetyAssumption
      <4>3. 0 \in 0..MaxId
        BY MCSafetyAssumption
      <4> HIDE DEF D
      <4> QED BY <4>1, <4>2, <4>3
    <3> QED BY <1>1, <2>2, <3>1, <3>2 DEF Summary
  <2> QED BY <2>1, <2>2
<1>5. \A i \in D : file.parent[i] \in {0} \cup D
  BY <1>1 DEF Tree
<1> HIDE DEF s
<1> QED BY <1>1, <1>2, <1>3, <1>4, <1>5, AdoptSound

LEMMA FileImported == ASSUME HostInv, SH!Import PROVE HostInv'
<1>1. /\ up = "up" /\ turn = "idle" /\ file # SH!None /\ SH!ImportFile
      /\ UNCHANGED <<host, up, turn, base, saved, file, warned>>
  BY DEF SH!Import, SH!Idle, SH!Up
<1>2. Adopted
  BY <1>1, FileAdopted DEF HostInv, TreesSound
<1> QED BY <1>1, <1>2, AdoptedKeeps DEF HostInv, HostTypes

\* "/fork" and "/clone"
LEMMA TreeDuplicated == ASSUME HostInv, SH!Duplicate PROVE HostInv'
<1>1. /\ up = "up" /\ turn = "idle"
      /\ UNCHANGED <<host, up, turn, base, saved, file, warned>>
      /\ \/ SH!Adopt(parent, leaf, sum, SH!Copy(SH!Path))
         \/ SH!Adopt(parent, leaf, sum, SH!Copy(DOMAIN parent))
  BY DEF SH!Duplicate, SH!Idle, SH!Up
<1>2. /\ Tree(parent) /\ OneRoot(parent) /\ DOMAIN parent \subseteq 1..Len(of)
      /\ leaf \in DOMAIN parent \/ (leaf = 0 /\ DOMAIN parent = {})
      /\ sum \in Summary /\ Covers(of, parent, sum)
  BY DEF HostInv, TreesSound, Sound
<1>3. Adopted
  <2>1. CASE SH!Adopt(parent, leaf, sum, SH!Copy(SH!Path))
    <3>1. /\ SH!Path \subseteq DOMAIN parent /\ \A i \in SH!Path : parent[i] \in {0} \cup SH!Path
          /\ leaf \in SH!Path \/ (leaf = 0 /\ SH!Path = {})
      BY PathInside DEF HostInv
    <3> QED BY <1>2, <2>1, <3>1, AdoptSound DEF HostInv
  <2>2. CASE SH!Adopt(parent, leaf, sum, SH!Copy(DOMAIN parent))
    <3>1. \A i \in DOMAIN parent : parent[i] \in {0} \cup DOMAIN parent
      BY <1>2 DEF Tree
    <3> QED BY <1>2, <2>2, <3>1, AdoptSound DEF HostInv
  <2> QED BY <1>1, <2>1, <2>2
<1> QED BY <1>1, <1>3, AdoptedKeeps DEF HostInv, HostTypes

\* A stored session as it is opened.
LEMMA OpenSound ==
  ASSUME HostTypes, RowsSound, NEW s \in SH!SessionIds, SH!Open(s)
  PROVE  /\ Sound(of, parent', leaf', sum') /\ DOMAIN parent' \subseteq rows[s] /\ sid' = s
         /\ Based(rows[s], parent')
<1> DEFINE read == SH!Oldest(rows[s])
<1>1. /\ parent' = SH!Linear(read) /\ leaf' = SH!Newest(read)
      /\ sum' = SH!Restored(read, stored[s]) /\ sid' = s
  BY DEF SH!Open
<1>2. Made(of) /\ Openable(of, rows[s], stored[s]) /\ Len(of) \in Nat /\ rows[s] \subseteq Nat
  BY DEF HostTypes, RowsSound, Openable, Made
<1>3. /\ read \subseteq rows[s] /\ Openable(of, read, stored[s])
      /\ rows[s] # {} => read # {} /\ SH!Least(read) = SH!Least(rows[s])
  BY <1>2, OldestIs, OldestOpens
<1> HIDE DEF read
<1>4. Sound(of, parent', leaf', sum') /\ DOMAIN parent' = read
  BY <1>1, <1>2, <1>3, LinearSound
<1>5. Based(rows[s], parent')
  <2> SUFFICES ASSUME rows[s] # {}
               PROVE  LET r == SH!Least(rows[s])
                      IN  r \in rows[s] /\ r \in DOMAIN parent' /\ parent'[r] = 0 /\ \A x \in rows[s] : r <= x
    BY DEF Based
  <2>1. SH!Least(rows[s]) \in rows[s] /\ \A x \in rows[s] : SH!Least(rows[s]) <= x
    BY <1>2, LeastIs
  <2>2. Tree(parent') /\ OneRoot(parent') /\ DOMAIN parent' # {}
    BY <1>3, <1>4 DEF Sound
  <2>3. SH!Least(DOMAIN parent') \in DOMAIN parent' /\ parent'[SH!Least(DOMAIN parent')] = 0
    BY <2>2, RootIsLeast
  <2> QED BY <1>3, <1>4, <2>1, <2>3
<1> QED BY <1>1, <1>3, <1>4, <1>5

\* What opening a stored session leaves is kept as well.
LEMMA OpenKeeps ==
  ASSUME HostInv, turn = "idle", NEW s \in known, SH!Open(s),
         UNCHANGED <<of, rows, stored, known, turn, base, file, warned>>,
         host' \in Hosts, up' = "up", saved' \subseteq 1..MaxId
  PROVE  HostInv'
<1>1. s \in SH!SessionIds
  BY DEF HostInv, HostTypes
<1>2. /\ Sound(of, parent', leaf', sum') /\ DOMAIN parent' \subseteq rows[s] /\ sid' = s
      /\ Based(rows[s], parent')
  BY <1>1, OpenSound DEF HostInv
<1>3. FileSound'
  BY DEF HostInv, TreesSound, FileSound
<1>4. /\ Sound(of', parent', leaf', sum') /\ Made(of') /\ known' \subseteq SH!SessionIds
      /\ DOMAIN rows' = SH!SessionIds /\ DOMAIN stored' = SH!SessionIds
      /\ \A x \in SH!SessionIds : Openable(of', rows'[x], stored'[x])
  BY <1>2 DEF HostInv, HostTypes, RowsSound
<1> QED BY <1>1, <1>2, <1>3, <1>4, Replaced

LEMMA SessionSwitched == ASSUME HostInv, SH!Switch PROVE HostInv'
<1>1. /\ up = "up" /\ turn = "idle"
      /\ UNCHANGED <<host, up, turn, base, saved, of, rows, stored, known, file, warned>>
  BY DEF SH!Switch, SH!Idle, SH!Up
<1>2. PICK s \in known : SH!Open(s)
  BY DEF SH!Switch
<1> QED BY <1>1, <1>2, OpenKeeps DEF HostInv, HostTypes

\* The end of input: the service saves the whole path now, with its root.
LEMMA HostQuits == ASSUME HostInv, SH!Quit PROVE HostInv'
<1>1. /\ up = "up" /\ turn = "idle" /\ up' = "quit"
      /\ UNCHANGED <<host, parent, leaf, sum, sid, turn, base, saved, of, known, file>>
      /\ IF host = "rpc" THEN SH!Persist(sid, SH!Path, sum.cov) ELSE UNCHANGED <<rows, stored, warned>>
  BY DEF SH!Quit, SH!Idle, SH!Up
<1>2. /\ Sound(of, parent, leaf, sum) /\ Tree(parent) /\ SH!Path \subseteq DOMAIN parent
  BY PathInside DEF HostInv, TreesSound
<1>3. FileSound'
  BY <1>1 DEF HostInv, TreesSound, FileSound
<1>4. /\ host' \in Hosts /\ up' \in {"up", "quit", "dead"} /\ sid' \in SH!SessionIds
      /\ known' \subseteq SH!SessionIds /\ Made(of') /\ saved' \subseteq 1..MaxId
      /\ UNCHANGED <<turn, base>> /\ (host' # "rpc" => sid' \in known')
      /\ Sound(of', parent', leaf', sum')
  BY <1>1, <1>2 DEF HostInv, HostTypes, TreeSaved
<1>5. CASE host = "rpc"
  <2>1. Based(rows[sid] \cup SH!Path, parent)
    <3>1. SH!Path # {} => leaf # 0
      BY PathInside DEF HostInv
    <3>2. leaf # 0 => \E r \in SH!Path : parent[r] = 0
      BY RootOnPath DEF HostInv
    <3>3. Based(rows[sid], parent) /\ rows[sid] \subseteq Nat
      BY <1>1, RowsAre DEF HostInv, RowsSound
    <3> QED BY <1>2, <3>1, <3>2, <3>3, BasedMore DEF Sound
  <2>2. sum.cov # {} => rows[sid] \cup SH!Path # {}
    <3>1. sum.cov # {} => DOMAIN parent # {}
      BY <1>2, RootCovered
    <3>2. DOMAIN parent # {} => leaf # 0
      <4>1. leaf \in DOMAIN parent \/ DOMAIN parent = {}
        BY <1>2 DEF Sound
      <4> QED BY <1>2, <4>1 DEF Tree
    <3>3. leaf # 0 => SH!Path # {}
      BY PathInside DEF HostInv
    <3> QED BY <3>1, <3>2, <3>3
  <2>3. SH!Persist(sid, SH!Path, sum.cov) /\ sum.cov \in {{}, sum.cov}
    BY <1>1, <1>5
  <2>4. /\ DOMAIN rows' = SH!SessionIds /\ DOMAIN stored' = SH!SessionIds /\ UNCHANGED warned
        /\ \A x \in SH!SessionIds : Openable(of, rows'[x], stored'[x])
    BY <1>1, <1>2, <2>1, <2>2, <2>3, PersistSound DEF HostInv
  <2> QED BY <1>1, <1>3, <1>4, <1>5, <2>4, Replaced
<1>6. CASE host # "rpc"
  <2>1. UNCHANGED <<rows, stored, warned>>
    BY <1>1, <1>6
  <2>2. DOMAIN parent \subseteq rows[sid]
    BY <1>1, <1>6 DEF HostInv, TreeSaved
  <2>3. /\ DOMAIN rows' = SH!SessionIds /\ DOMAIN stored' = SH!SessionIds
        /\ \A x \in SH!SessionIds : Openable(of', rows'[x], stored'[x])
    BY <1>1, <2>1 DEF HostInv, HostTypes, RowsSound
  <2> QED BY <1>1, <1>3, <1>4, <2>1, <2>2, <2>3, Replaced
<1> QED BY <1>5, <1>6

LEMMA HostKilled == ASSUME HostInv, SH!Kill PROVE HostInv'
<1>1. /\ up' = "dead" /\ turn' = "idle" /\ base' = 0
      /\ UNCHANGED <<host, parent, leaf, sum, sid, saved, of, rows, stored, known, file, warned>>
  BY DEF SH!Kill
<1>2. SH!SessionIds' = SH!SessionIds
  BY DEF SH!SessionIds
<1>3. HostTypes'
  <2>1. base' \in 0..MaxId
    BY <1>1, MCSafetyAssumption
  <2> QED BY <1>1, <1>2, <2>1 DEF HostInv, HostTypes
<1>4. TreesSound'
  BY <1>1 DEF HostInv, TreesSound, FileSound
<1>5. TurnOpen' /\ TreeSaved'
  BY <1>1 DEF HostInv, TurnOpen, TreeSaved
<1>6. RowsSound'
  BY <1>1, <1>2 DEF HostInv, RowsSound
<1> QED BY <1>3, <1>4, <1>5, <1>6 DEF HostInv

\* The next process: a new session, a stored one, a copy of one or a file.
LEMMA HostStarts == ASSUME HostInv, SH!Start PROVE HostInv'
<1>1. /\ up # "up" /\ up' = "up" /\ host' \in Hosts /\ saved' = sum'.cov
      /\ UNCHANGED <<turn, base, file, warned>>
  BY DEF SH!Start, SH!Up
<1>2. turn = "idle"
  BY <1>1 DEF HostInv, HostTypes, TurnOpen
<1>3. ASSUME sum' \in Summary PROVE saved' \subseteq 1..MaxId
  BY <1>1, <1>3 DEF Summary
<1>4. CASE /\ SH!CanMake
           /\ sid' = SH!FreshSession /\ known' = known \cup {SH!FreshSession}
           /\ parent' = <<>> /\ leaf' = 0 /\ sum' = SH!NoSummary
           /\ UNCHANGED <<of, rows, stored>>
  <2>1. sid' \in SH!SessionIds /\ rows[sid'] = {}
    BY <1>4, FreshIs
  <2>2. Sound(of', parent', leaf', sum') /\ DOMAIN parent' = {}
    BY <1>4, EmptySound
  <2>3. FileSound'
    BY <1>1, <1>4 DEF HostInv, TreesSound, FileSound
  <2>4. saved' \subseteq 1..MaxId
    BY <1>3, <2>2 DEF Sound
  <2>5. /\ known' \subseteq SH!SessionIds /\ Made(of') /\ sid' \in known'
        /\ DOMAIN rows' = SH!SessionIds /\ DOMAIN stored' = SH!SessionIds
        /\ \A s \in SH!SessionIds : Openable(of', rows'[s], stored'[s])
    BY <1>4, <2>1 DEF HostInv, HostTypes, RowsSound
  <2>6. Based(rows'[sid'], parent')
    BY <1>4, <2>1 DEF Based
  <2> QED BY <1>1, <1>2, <1>4, <2>1, <2>2, <2>3, <2>4, <2>5, <2>6, Replaced
<1>5. ASSUME NEW s \in known, SH!Open(s), UNCHANGED <<of, rows, stored, known>> PROVE HostInv'
  <2>1. s \in SH!SessionIds
    BY DEF HostInv, HostTypes
  <2>2. sum' \in Summary
    BY <1>5, <2>1, OpenSound DEF HostInv, Sound
  <2> QED BY <1>1, <1>2, <1>3, <1>5, <2>2, OpenKeeps
<1>6. ASSUME Adopted PROVE HostInv'
  <2>1. sum' \in Summary
    BY <1>6 DEF Adopted, Sound
  <2> QED BY <1>1, <1>2, <1>3, <1>6, <2>1, AdoptedKeeps
<1>7. ASSUME NEW s \in known, NEW read, read = SH!Oldest(rows[s]),
             SH!Adopt(SH!Linear(read), SH!Newest(read), SH!Restored(read, stored[s]), SH!Copy(read))
      PROVE  Adopted
  <2>1. Made(of) /\ Openable(of, read, stored[s])
    <3>1. Made(of) /\ Len(of) \in Nat /\ Openable(of, rows[s], stored[s])
      BY DEF HostInv, HostTypes, RowsSound, Made
    <3> QED BY <1>7, <3>1, OldestOpens
  <2>2. /\ DOMAIN SH!Linear(read) = read
        /\ Sound(of, SH!Linear(read), SH!Newest(read), SH!Restored(read, stored[s]))
    BY <2>1, LinearSound
  <2> DEFINE par == SH!Linear(read)
             end == SH!Newest(read)
             res == SH!Restored(read, stored[s])
  <2>3. /\ Tree(par) /\ OneRoot(par) /\ DOMAIN par \subseteq 1..Len(of)
        /\ end \in DOMAIN par \/ (end = 0 /\ DOMAIN par = {})
        /\ res \in Summary /\ Covers(of, par, res) /\ DOMAIN par = read
        /\ SH!Adopt(par, end, res, SH!Copy(read))
    BY <1>7, <2>2 DEF Sound
  <2> HIDE DEF par, end, res
  <2>4. \A i \in read : par[i] \in {0} \cup read
    BY <2>3 DEF Tree
  <2> QED BY <2>3, <2>4, AdoptSound DEF HostInv
<1>8. file # SH!None /\ SH!ImportFile => Adopted
  BY FileAdopted DEF HostInv, TreesSound
<1> QED BY <1>4, <1>5, <1>6, <1>7, <1>8 DEF SH!Start

LEMMA InitHost == SH!Init => HostInv
<1> SUFFICES ASSUME SH!Init PROVE HostInv
  OBVIOUS
<1>1. /\ host \in Hosts /\ up = "up" /\ parent = <<>> /\ leaf = 0 /\ sum = SH!NoSummary
      /\ sid = 1 /\ turn = "idle" /\ base = 0 /\ saved = {} /\ of = <<>>
      /\ rows = [s \in SH!SessionIds |-> {}] /\ stored = [s \in SH!SessionIds |-> {}]
      /\ known = {1} /\ file = SH!None /\ warned = {}
  BY DEF SH!Init
<1>2. 1 \in SH!SessionIds /\ 0 \in 0..MaxId /\ MaxId \in Nat
  BY MCSafetyAssumption DEF SH!SessionIds
<1>3. Made(of)
  <2>1. <<>> \in Seq(1..MaxId) /\ Len(<<>>) = 0
    OBVIOUS
  <2> QED BY <1>1, <1>2, <2>1 DEF Made
<1>4. HostTypes
  BY <1>1, <1>2, <1>3 DEF HostTypes
<1>5. Sound(of, parent, leaf, sum)
  BY <1>1, EmptySound
<1>6. FileSound
  <2>1. file.kept = 0 /\ file.cov = {} /\ file.parent = <<>> /\ DOMAIN <<>> = {}
    BY <1>1 DEF SH!None
  <2> QED BY <1>1, <1>2, <2>1 DEF FileSound
<1>7. TurnOpen
  BY <1>1 DEF TurnOpen
<1>8. \A s \in SH!SessionIds : rows[s] = {} /\ stored[s] = {}
  BY <1>1
<1>9. RowsSound
  BY <1>1, <1>2, <1>8 DEF RowsSound, Openable, Based
<1>10. TreeSaved
  <2>1. DOMAIN parent = {}
    BY <1>1
  <2> QED BY <1>1, <2>1 DEF TreeSaved
<1> QED BY <1>4, <1>5, <1>6, <1>7, <1>9, <1>10 DEF HostInv, TreesSound

LEMMA NextHost == HostInv /\ [SH!Next]_SH!hostVars => HostInv'
<1> SUFFICES ASSUME HostInv, [SH!Next]_SH!hostVars PROVE HostInv'
  OBVIOUS
<1>1. CASE UNCHANGED SH!hostVars
  <2>1. UNCHANGED <<host, up, parent, leaf, sum, sid, turn, base, saved, of,
                    rows, stored, known, file, warned>>
    BY <1>1 DEF SH!hostVars
  <2>2. SH!Path' = SH!Path /\ SH!TurnRows' = SH!TurnRows /\ SH!AllRows' = SH!AllRows
        /\ SH!SessionIds' = SH!SessionIds
    BY <2>1 DEF SH!Path, SH!TurnRows, SH!AllRows, SH!SessionIds
  <2>3. HostTypes' /\ RowsSound' /\ TurnOpen' /\ TreeSaved'
    BY <2>1, <2>2 DEF HostInv, HostTypes, RowsSound, TurnOpen, TreeSaved
  <2>4. TreesSound'
    BY <2>1 DEF HostInv, TreesSound, FileSound
  <2> QED BY <2>3, <2>4 DEF HostInv
<1>2. CASE SH!BeginTurn \/ SH!AddMessage \/ SH!CompressInTurn \/ SH!EndTurn \/ SH!FailTurn
  BY <1>2, TurnGrows, TurnCompresses, TurnEnds, TurnFails
<1>3. CASE SH!CompactCommand \/ SH!MoveCursor \/ SH!NewSession \/ SH!Export \/ SH!Import
           \/ SH!Duplicate \/ SH!Switch
  BY <1>3, CommandCompacts, CursorMoves, SessionNew, FileWritten, FileImported,
     TreeDuplicated, SessionSwitched
<1>4. CASE SH!Quit \/ SH!Kill \/ SH!Start
  BY <1>4, HostQuits, HostKilled, HostStarts
<1> QED BY <1>1, <1>2, <1>3, <1>4 DEF SH!Next

\* What the window leaves out is older than the node the summary reaches to.
LEMMA HostForgetsNot == HostInv => SH!NothingForgotten
<1> SUFFICES ASSUME HostInv, NEW i \in SH!Path, i \notin SH!Window(SH!Path, sum) PROVE of[i] \in sum.cov
  BY DEF SH!NothingForgotten
<1>1. sum.cov # {} /\ sum.thr \in SH!Path /\ ~(i > sum.thr)
  BY DEF SH!Window
<1>2. /\ Tree(parent) /\ SH!Path \subseteq DOMAIN parent /\ DOMAIN parent \subseteq Nat
      /\ Covers(of, parent, sum) /\ (leaf # 0 => leaf \in DOMAIN parent) /\ (leaf = 0 => SH!Path = {})
  BY PathInside DEF HostInv, TreesSound, Sound
<1>3. i <= sum.thr
  BY <1>1, <1>2
<1>4. SH!Chain(parent, sum.thr) = {j \in SH!Path : j <= sum.thr}
  BY <1>1, <1>2, ChainBelow DEF SH!Path
<1> QED BY <1>1, <1>2, <1>3, <1>4 DEF Covers

LEMMA HostSaves == HostInv => SH!TurnsSaved
<1> SUFFICES ASSUME HostInv, turn = "idle", up = "quit" \/ up = "up", host # "rpc"
             PROVE  sid \in known /\ SH!Messages(SH!Path) \subseteq SH!Messages(rows[sid]) \cup warned
  BY DEF SH!TurnsSaved, SH!Unsaved
<1>1. sid \in known /\ \A i \in DOMAIN parent : i \in rows[sid]
  BY DEF HostInv, TreeSaved
<1>2. SH!Path \subseteq DOMAIN parent
  BY PathInside DEF HostInv
<1> QED BY <1>1, <1>2 DEF SH!Messages

LEMMA HostTyped == HostInv => SH!TypeOK
<1> SUFFICES ASSUME HostInv PROVE SH!TypeOK
  OBVIOUS
<1>1. Made(of) /\ HostTypes /\ FileSound /\ Sound(of, parent, leaf, sum) /\ MaxId \in Nat
  BY MCSafetyAssumption DEF HostInv, HostTypes, TreesSound
<1>2. /\ DOMAIN parent \subseteq SH!Ids /\ leaf \in {0} \cup DOMAIN parent
      /\ \A i \in DOMAIN parent : parent[i] \in 0..(i - 1)
  <2>1. Tree(parent) /\ leaf \in {0} \cup DOMAIN parent
    BY <1>1 DEF Sound
  <2>2. ASSUME NEW i \in DOMAIN parent PROVE parent[i] \in 0..(i - 1)
    <3>1. i \in Nat /\ parent[i] \in Nat /\ parent[i] < i
      BY <2>1 DEF Tree
    <3> QED BY <3>1
  <2> QED BY <2>1, <2>2 DEF Tree, SH!Ids
<1>3. sum.thr \in 0..MaxId /\ sum.cov \cup saved \cup warned \subseteq SH!Ids
  BY <1>1 DEF HostTypes, Sound, Summary, SH!Ids
<1>4. Len(of) <= MaxId /\ \A i \in DOMAIN of : of[i] \in 1..i
  <2>1. DOMAIN of = 1..Len(of)
    BY <1>1 DEF Made
  <2> QED BY <1>1, <2>1 DEF Made
<1>5. \A s \in SH!SessionIds : rows[s] \subseteq SH!Ids /\ stored[s] \subseteq SH!Ids
  <2>1. \A x \in 1..Len(of) : x \in 1..MaxId
    <3>1. Len(of) \in Nat /\ Len(of) <= MaxId
      BY <1>1 DEF Made
    <3> QED BY <1>1, <3>1
  <2> QED BY <2>1 DEF HostInv, RowsSound, Openable, SH!Ids
<1>6. DOMAIN file.parent \subseteq SH!Ids /\ file.kept \in 0..MaxId /\ file.cov \subseteq SH!Ids
  BY <1>1 DEF FileSound, SH!Ids
<1> QED BY <1>1, <1>2, <1>3, <1>4, <1>5, <1>6 DEF HostTypes, SH!TypeOK

\* The window of the next prompt forgets no message of the branch without a
\* summary that was made from it, and every turn that ended is in the rows of
\* its session, through compactions, rewinds, copies, files, kills and starts,
\* for any number of messages and sessions and any of the hosts; a save that
\* fails and a summary of cut lines are left out (rupi-agent session.rs,
\* rupi-memory, main.rs).
THEOREM SessionsKeep == Spec => [](NothingForgotten /\ TurnsSaved)
<1>1. Init => HostInv
  BY Parts, InitHost
<1>2. HostInv /\ [Next]_vars => HostInv'
  BY Parts, NextHost
<1>3. HostInv => NothingForgotten /\ TurnsSaved
  BY HostForgetsNot, HostSaves DEF NothingForgotten, TurnsSaved
<1> QED BY <1>1, <1>2, <1>3, PTL DEF Spec

-----------------------------------------------------------------------------
(* The runs of a session, its files, and the nodes of the engine: CP is CR   *)
(* and SF, EP is EE, with the theorems about them.                           *)

CP == INSTANCE SessionProofs WITH Runs <- Requests, Faults <- {}

LEMMA RunInit == CR!Init => CP!Init
BY DEF
  CR!Calls, CR!NoAnswers, CR!Init, CR!SetToSeq, CR!IsInjective,
  CR!Cardinality, CR!ToSet, CR!IsFiniteSet, CP!Calls, CP!NoAnswers, CP!Init,
  CP!SetToSeq, CP!IsInjective, CP!Cardinality, CP!ToSet, CP!IsFiniteSet

LEMMA RunNext == [CR!Next]_CR!runVars => [CP!Next]_CP!runVars
BY DEF
  CR!Calls, CR!Verdicts, CR!Msg, CR!runVars, CR!NoAnswers, CR!Asked,
  CR!Pending, CR!Goto, CR!Append1, CR!Preflight, CR!Lease, CR!LoadTree,
  CR!LookAgain, CR!ReadTree, CR!FillCache, CR!FillUnlock, CR!HeatFails,
  CR!Guidance, CR!Begin, CR!Current, CR!Settle, CR!Uncovered, CR!Execute,
  CR!ExecuteFails, CR!Continue, CR!Final, CR!LoopFails, CR!Ask,
  CR!ParkInsert, CR!ParkPersist, CR!ParkInvalidate, CR!FinishPersist,
  CR!FinishCache, CR!Release, CR!Unsaved, CR!Crash, CR!Reap,
  CR!CacheExpires, CR!FillExpires, CR!ImportPersist, CR!ImportInvalidate,
  CR!Step, CR!Next, CR!SetToSeq, CR!IsInjective, CR!Cardinality, CR!ToSet,
  CR!IsFiniteSet, CP!Calls, CP!Verdicts, CP!Msg, CP!runVars, CP!NoAnswers,
  CP!Asked, CP!Pending, CP!Goto, CP!Append1, CP!Preflight, CP!Lease,
  CP!LoadTree, CP!LookAgain, CP!ReadTree, CP!FillCache, CP!FillUnlock,
  CP!HeatFails, CP!Guidance, CP!Begin, CP!Current, CP!Settle, CP!Uncovered,
  CP!Execute, CP!ExecuteFails, CP!Continue, CP!Final, CP!LoopFails, CP!Ask,
  CP!ParkInsert, CP!ParkPersist, CP!ParkInvalidate, CP!FinishPersist,
  CP!FinishCache, CP!Release, CP!Unsaved, CP!Crash, CP!Reap,
  CP!CacheExpires, CP!FillExpires, CP!ImportPersist, CP!ImportInvalidate,
  CP!Step, CP!Next, CP!SetToSeq, CP!IsInjective, CP!Cardinality, CP!ToSet,
  CP!IsFiniteSet

LEMMA RunKept ==
  /\ CP!ApprovedOnce => ApprovedOnce
  /\ CP!CacheCoherent => CacheCoherent
  /\ CP!CallsSettled => CallsSettled
BY DEF ApprovedOnce, CacheCoherent, CallsSettled,
  CR!Calls, CR!Msg, CR!Pending, CR!Approved, CR!ApprovedOnce,
  CR!CacheCoherent, CR!CallsSettled, CR!SetToSeq, CR!IsInjective,
  CR!Cardinality, CR!ToSet, CR!IsFiniteSet, CP!Calls, CP!Msg, CP!Pending,
  CP!Approved, CP!ApprovedOnce, CP!CacheCoherent, CP!CallsSettled,
  CP!SetToSeq, CP!IsInjective, CP!Cardinality, CP!ToSet, CP!IsFiniteSet

LEMMA RunPart == Spec => CP!Spec
BY Parts, RunInit, RunNext, PTL DEF Spec, CP!Spec

\* The cached tree of a session is its stored one, or is not used, without an
\* import during the run (run.rs, cache.rs).
THEOREM CacheTrue == ASSUME "import" \notin Races PROVE Spec => []CacheCoherent
<1>1. CP!Steady
  BY DEF CP!Steady
<1>2. CP!Spec => []CP!CacheCoherent
  BY <1>1, CP!CacheTrue
<1> QED BY RunPart, RunKept, <1>2, PTL

\* A call that waits for an approval is executed at most once, and only after
\* the approval, whatever races, for any number of requests (interrupt.rs).
THEOREM ApprovalOnce == ASSUME IsFiniteSet(Requests) PROVE Spec => []ApprovedOnce
<1>1. Batch \in Nat \ {0}
  BY MCSafetyAssumption
<1>2. CP!Spec => []CP!ApprovedOnce
  BY <1>1, CP!ApprovalOnce DEF IsFiniteSet, CP!IsFiniteSet
<1> QED BY RunPart, RunKept, <1>2, PTL

\* When no run and no import is at work, each call of the stored tree has its
\* result, or is parked for an approval (run.rs, interrupt.rs).
THEOREM CallsAnswered ==
  ASSUME Races \cap {"preflight", "import"} = {}, IsFiniteSet(Requests)
  PROVE  Spec => []CallsSettled
<1>1. Batch \in Nat \ {0} /\ CP!Calm
  BY MCSafetyAssumption DEF CP!Calm
<1>2. CP!Spec => []CP!CallsSettled
  BY <1>1, CP!CallsAnswered DEF IsFiniteSet, CP!IsFiniteSet
<1> QED BY RunPart, RunKept, <1>2, PTL

LEMMA FileInit == SF!Init => CP!SF!Init
BY DEF
  SF!Init, CP!SF!Init

LEMMA FileWords ==
  /\ \A S : CP!SF!Cardinality(S) = SF!Cardinality(S)
  /\ \A s : CP!SF!FlattenSeq(s) = SF!FlattenSeq(s)
  /\ \A s : CP!SF!ToSet(s) = SF!ToSet(s)
  /\ \A s, i : CP!SF!RemoveAt(s, i) = SF!RemoveAt(s, i)
  /\ CP!SF!AnyBlock = SF!AnyBlock
  /\ CP!SF!Lasting = SF!Lasting
  /\ CP!SF!Anyhow = SF!Anyhow
  /\ \A m, root : CP!SF!Node(m, root) = SF!Node(m, root)
  /\ \A n, role, kinds : CP!SF!Said(n, role, kinds) = SF!Said(n, role, kinds)
  /\ \A has, S : CP!SF!Only(has, S) = SF!Only(has, S)
  /\ \A has, kinds : CP!SF!OfKind(has, kinds) = SF!OfKind(has, kinds)
  /\ \A msgs : CP!SF!Blocks(msgs) = SF!Blocks(msgs)
  /\ \A nodes, tip : CP!SF!Chain(nodes, tip) = SF!Chain(nodes, tip)
  /\ \A nodes, tip : (CP!SF!Whole(nodes, tip) <=> SF!Whole(nodes, tip))
  /\ \A nodes, tip, msgs : CP!SF!Under(nodes, tip, msgs) = SF!Under(nodes, tip, msgs)
  /\ \A msgs : CP!SF!Linear(msgs) = SF!Linear(msgs)
  /\ \A t : CP!SF!Path(t) = SF!Path(t)
  /\ \A t : CP!SF!Forked(t) = SF!Forked(t)
  /\ \A t : CP!SF!Copies(t) = SF!Copies(t)
  /\ \A m : CP!SF!Entries(m) = SF!Entries(m)
  /\ \A nodes, n : CP!SF!FirstLine(nodes, n) = SF!FirstLine(nodes, n)
  /\ \A nodes : CP!SF!Lines(nodes) = SF!Lines(nodes)
  /\ \A line : CP!SF!Parsed(line) = SF!Parsed(line)
  /\ \A lines : CP!SF!Read(lines) = SF!Read(lines)
  /\ \A m : (CP!SF!Fits(m) <=> SF!Fits(m))
  /\ \A f : (CP!SF!Telling(f) <=> SF!Telling(f))
  /\ \A lines : (CP!SF!OneWay(lines) <=> SF!OneWay(lines))
  /\ \A id : CP!SF!At(id) = SF!At(id)
  /\ \A id : (CP!SF!Known(id) <=> SF!Known(id))
  /\ \A id, most : CP!SF!FromTable(id, most) = SF!FromTable(id, most)
  /\ \A id, most : (CP!SF!TooLong(id, most) <=> SF!TooLong(id, most))
  /\ \A s, nodes, lack : CP!SF!Tale(s, nodes, lack) = SF!Tale(s, nodes, lack)
  /\ \A place, lack : (CP!SF!Cut(place, lack) <=> SF!Cut(place, lack))
  /\ \A told : CP!SF!NextNr(told) = SF!NextNr(told)
  /\ \A ref, most : CP!SF!Begun(ref, most) = SF!Begun(ref, most)
  /\ \A ref : CP!SF!Resolve(ref) = SF!Resolve(ref)
  /\ \A d : CP!SF!Latest(d) = SF!Latest(d)
  /\ CP!SF!References = SF!References
<1>1. \A S : CP!SF!Cardinality(S) = SF!Cardinality(S)
  BY ZenonT(60) DEF SF!Cardinality, SF!IsFiniteSet, CP!SF!Cardinality, CP!SF!IsFiniteSet
<1>2. \A s : CP!SF!FlattenSeq(s) = SF!FlattenSeq(s)
  BY ZenonT(60) DEF SF!FlattenSeq, CP!SF!FlattenSeq
<1>3. \A s : CP!SF!ToSet(s) = SF!ToSet(s)
  BY ZenonT(60) DEF SF!ToSet, CP!SF!ToSet
<1>4. \A s, i : CP!SF!RemoveAt(s, i) = SF!RemoveAt(s, i)
  BY ZenonT(60) DEF SF!RemoveAt, CP!SF!RemoveAt
<1>5. CP!SF!AnyBlock = SF!AnyBlock
  BY ZenonT(60) DEF SF!AnyBlock, CP!SF!AnyBlock
<1>6. CP!SF!Lasting = SF!Lasting
  BY <1>5, ZenonT(60) DEF SF!Lasting, CP!SF!Lasting
<1>7. CP!SF!Anyhow = SF!Anyhow
  BY <1>5, ZenonT(60) DEF SF!Anyhow, CP!SF!Anyhow
<1>8. \A m, root : CP!SF!Node(m, root) = SF!Node(m, root)
  BY ZenonT(60) DEF SF!Node, CP!SF!Node
<1>9. \A n, role, kinds : CP!SF!Said(n, role, kinds) = SF!Said(n, role, kinds)
  BY <1>1, ZenonT(60) DEF SF!Said, CP!SF!Said
<1>10. \A has, S : CP!SF!Only(has, S) = SF!Only(has, S)
  BY <1>2, ZenonT(60) DEF SF!Only, CP!SF!Only
<1>11. \A has, kinds : CP!SF!OfKind(has, kinds) = SF!OfKind(has, kinds)
  BY <1>5, <1>10, ZenonT(60) DEF SF!OfKind, CP!SF!OfKind
<1>12. \A msgs : CP!SF!Blocks(msgs) = SF!Blocks(msgs)
  BY <1>2, ZenonT(60) DEF SF!Blocks, CP!SF!Blocks
<1>13. \A nodes, tip : CP!SF!Chain(nodes, tip) = SF!Chain(nodes, tip)
  BY ZenonT(60) DEF SF!Chain, CP!SF!Chain
<1>14. \A nodes, tip : CP!SF!Whole(nodes, tip) <=> SF!Whole(nodes, tip)
  BY <1>3, <1>13, ZenonT(60) DEF SF!Whole, CP!SF!Whole
<1>15. \A nodes, tip, msgs : CP!SF!Under(nodes, tip, msgs) = SF!Under(nodes, tip, msgs)
  BY <1>8, ZenonT(60) DEF SF!Under, CP!SF!Under
<1>16. \A msgs : CP!SF!Linear(msgs) = SF!Linear(msgs)
  BY <1>15, ZenonT(60) DEF SF!Linear, CP!SF!Linear
<1>17. \A t : CP!SF!Path(t) = SF!Path(t)
  BY <1>13, ZenonT(60) DEF SF!Path, CP!SF!Path
<1>18. \A t : CP!SF!Forked(t) = SF!Forked(t)
  BY <1>16, <1>17, ZenonT(60) DEF SF!Forked, CP!SF!Forked
<1>19. \A t : CP!SF!Copies(t) = SF!Copies(t)
  BY <1>8, ZenonT(60) DEF SF!Copies, CP!SF!Copies
<1>20. \A m : CP!SF!Entries(m) = SF!Entries(m)
  BY <1>11, ZenonT(60) DEF SF!Entries, CP!SF!Entries
<1>21. \A nodes, n : CP!SF!FirstLine(nodes, n) = SF!FirstLine(nodes, n)
  BY <1>2, <1>20, ZenonT(60) DEF SF!FirstLine, CP!SF!FirstLine
<1>22. \A nodes : CP!SF!Lines(nodes) = SF!Lines(nodes)
  BY <1>2, <1>8, <1>20, <1>21, ZenonT(60) DEF SF!Lines, CP!SF!Lines
<1>23. \A line : CP!SF!Parsed(line) = SF!Parsed(line)
  BY <1>11, ZenonT(60) DEF SF!Parsed, CP!SF!Parsed
<1>24. \A lines : CP!SF!Read(lines) = SF!Read(lines)
  BY <1>14, <1>23, ZenonT(60) DEF SF!Read, CP!SF!Read
<1>25. \A m : CP!SF!Fits(m) <=> SF!Fits(m)
  BY <1>5, ZenonT(60) DEF SF!Fits, CP!SF!Fits
<1>26. \A f : CP!SF!Telling(f) <=> SF!Telling(f)
  BY <1>5, <1>6, <1>7, <1>10, <1>11, <1>12, <1>24, <1>25, ZenonT(60) DEF SF!Telling, CP!SF!Telling
<1>27. \A lines : CP!SF!OneWay(lines) <=> SF!OneWay(lines)
  BY <1>3, <1>6, <1>13, <1>23, <1>24, ZenonT(60) DEF SF!OneWay, CP!SF!OneWay
<1>28. \A id : CP!SF!At(id) = SF!At(id)
  BY ZenonT(60) DEF SF!At, CP!SF!At
<1>29. \A id : CP!SF!Known(id) <=> SF!Known(id)
  BY ZenonT(60) DEF SF!Known, CP!SF!Known
<1>30. \A id, most : CP!SF!FromTable(id, most) = SF!FromTable(id, most)
  BY <1>16, <1>28, ZenonT(60) DEF SF!FromTable, CP!SF!FromTable
<1>31. \A told : CP!SF!NextNr(told) = SF!NextNr(told)
  BY ZenonT(60) DEF SF!NextNr, SF!Last, CP!SF!NextNr, CP!SF!Last
<1>35. \A ref, most : CP!SF!Begun(ref, most) = SF!Begun(ref, most)
  BY <1>1, ZenonT(60) DEF SF!Begun, SF!Newest, SF!IsPrefix, CP!SF!Begun, CP!SF!Newest, CP!SF!IsPrefix
<1>32. \A ref : CP!SF!Resolve(ref) = SF!Resolve(ref)
  BY <1>29, <1>35, ZenonT(60) DEF SF!Resolve, CP!SF!Resolve
<1>36. \A id, most : CP!SF!TooLong(id, most) <=> SF!TooLong(id, most)
  BY <1>28, ZenonT(60) DEF SF!TooLong, CP!SF!TooLong
<1>37. \A s, nodes, lack : CP!SF!Tale(s, nodes, lack) = SF!Tale(s, nodes, lack)
  BY <1>12, ZenonT(60) DEF SF!Tale, CP!SF!Tale
<1>38. \A place, lack : CP!SF!Cut(place, lack) <=> SF!Cut(place, lack)
  BY ZenonT(60) DEF SF!Cut, CP!SF!Cut
<1>33. \A d : CP!SF!Latest(d) = SF!Latest(d)
  BY ZenonT(60) DEF SF!Latest, CP!SF!Latest
<1>34. CP!SF!References = SF!References
  BY ZenonT(60) DEF SF!References, SF!Prefixes, CP!SF!References, CP!SF!Prefixes
<1> QED
  BY <1>1, <1>2, <1>3, <1>4, <1>5, <1>6, <1>7, <1>8, <1>9, <1>10, <1>11,
     <1>12, <1>13, <1>14, <1>15, <1>16, <1>17, <1>18, <1>19, <1>20, <1>21,
     <1>22, <1>23, <1>24, <1>25, <1>26, <1>27, <1>28, <1>29, <1>30, <1>31,
     <1>32, <1>33, <1>34, <1>35, <1>36, <1>37, <1>38

LEMMA TaleWord ==
  ASSUME NEW s, NEW nodes, NEW id, NEW most
  PROVE  CP!SF!Tale(s, nodes, CP!SF!TooLong(id, most)) = SF!Tale(s, nodes, SF!TooLong(id, most))
<1>1. CASE SF!TooLong(id, most)
  <2>1. CP!SF!TooLong(id, most)
    BY <1>1, FileWords, Zenon
  <2> QED BY <1>1, <2>1, FileWords, Zenon DEF SF!Tale, CP!SF!Tale
<1>2. CASE ~SF!TooLong(id, most)
  <2>1. ~CP!SF!TooLong(id, most)
    BY <1>2, FileWords, Zenon
  <2> QED BY <1>2, <2>1, Zenon DEF SF!Tale, CP!SF!Tale
<1> QED BY <1>1, <1>2

LEMMA CutWord ==
  ASSUME NEW place, NEW id, NEW most, SF!Cut(place, SF!TooLong(id, most))
  PROVE  CP!SF!Cut(place, CP!SF!TooLong(id, most))
<1>1. CASE SF!TooLong(id, most)
  <2>1. CP!SF!TooLong(id, most)
    BY <1>1, FileWords, Zenon
  <2> QED BY <1>1, <2>1, Zenon DEF SF!Cut, CP!SF!Cut
<1>2. CASE ~SF!TooLong(id, most)
  <2>1. ~CP!SF!TooLong(id, most)
    BY <1>2, FileWords, Zenon
  <2> QED BY <1>2, <2>1, Zenon DEF SF!Cut, CP!SF!Cut
<1> QED BY <1>1, <1>2

LEMMA FileNext == [SF!Next]_SF!sfVars => [CP!SF!Next]_CP!SF!sfVars
<1>1. ASSUME NEW asked, NEW calling, NEW extra, NEW reply, SF!Turn(asked, calling, extra, reply)
      PROVE  CP!SF!Turn(asked, calling, extra, reply)
  BY <1>1, FileWords, ZenonT(60) DEF SF!Turn, CP!SF!Turn
<1>2. ASSUME SF!ExportOpen
      PROVE  CP!SF!ExportOpen
  BY <1>2, FileWords, ZenonT(60) DEF
    SF!ExportOpen, SF!Export, CP!SF!ExportOpen, CP!SF!Export
<1>3. ASSUME NEW id, SF!ExportStored(id)
      PROVE  CP!SF!ExportStored(id)
  <2>1. PICK s, t : s = shelf[SF!At(id)] /\ t = SF!FromTable(id, FileReadMax)
    OBVIOUS
  <2>2. /\ SF!Known(id) /\ SF!Export(t.nodes, s, SF!Tale(s, t.nodes, SF!TooLong(id, FileReadMax)))
        /\ SF!Cut("page", FALSE)
    BY <1>3, <2>1, Zenon DEF SF!ExportStored
  <2>3. s = shelf[CP!SF!At(id)] /\ t = CP!SF!FromTable(id, FileReadMax)
    BY <2>1, FileWords, Zenon
  <2>4. CP!SF!Known(id) /\ CP!SF!Cut("page", FALSE)
    BY <2>2, FileWords, Zenon
  <2>5. CP!SF!Export(t.nodes, s, CP!SF!Tale(s, t.nodes, CP!SF!TooLong(id, FileReadMax)))
    <3>1. CP!SF!Tale(s, t.nodes, CP!SF!TooLong(id, FileReadMax))
            = SF!Tale(s, t.nodes, SF!TooLong(id, FileReadMax))
      BY TaleWord, Zenon
    <3> QED BY <2>2, <3>1, FileWords, ZenonT(60) DEF SF!Export, CP!SF!Export
  <2> QED BY <2>3, <2>4, <2>5, Zenon DEF CP!SF!ExportStored
<1>4. ASSUME NEW d, SF!Import(d)
      PROVE  CP!SF!Import(d)
  BY <1>4, FileWords, ZenonT(60) DEF
    SF!Import, SF!Adopt, CP!SF!Import, CP!SF!Adopt
<1>5. ASSUME NEW d, SF!ForkFile(d)
      PROVE  CP!SF!ForkFile(d)
  BY <1>5, FileWords, ZenonT(60) DEF
    SF!ForkFile, SF!Adopt, CP!SF!ForkFile, CP!SF!Adopt
<1>6. ASSUME NEW d, SF!Clone(d)
      PROVE  CP!SF!Clone(d)
  BY <1>6, FileWords, ZenonT(60) DEF
    SF!Clone, SF!Adopt, CP!SF!Clone, CP!SF!Adopt
<1>7. ASSUME NEW d, SF!Fork(d)
      PROVE  CP!SF!Fork(d)
  BY <1>7, FileWords, ZenonT(60) DEF
    SF!Fork, SF!Adopt, CP!SF!Fork, CP!SF!Adopt
<1>8. ASSUME NEW d, SF!NewSession(d)
      PROVE  CP!SF!NewSession(d)
  BY <1>8, FileWords, ZenonT(60) DEF
    SF!NewSession, SF!Adopt, CP!SF!NewSession, CP!SF!Adopt
<1>9. ASSUME NEW ids, NEW most, SF!Reopen(ids, most)
      PROVE  CP!SF!Reopen(ids, most)
  <2>1. PICK id, t :
          /\ id \in ids /\ t = SF!FromTable(id, most) /\ opened' = [id |-> id, nodes |-> t.nodes, at |-> t.at]
          /\ SF!Cut("open", SF!TooLong(id, most)) /\ UNCHANGED <<shelf, jsonl>>
    BY <1>9, Zenon DEF SF!Reopen
  <2>2. t = CP!SF!FromTable(id, most)
    BY <2>1, FileWords, Zenon
  <2>3. CP!SF!Cut("open", CP!SF!TooLong(id, most))
    BY <2>1, CutWord, Zenon
  <2> QED BY <2>1, <2>2, <2>3, Zenon DEF CP!SF!Reopen
<1>10. ASSUME NEW ref, NEW d, SF!ForkStored(ref, d)
       PROVE  CP!SF!ForkStored(ref, d)
  <2>1. PICK id, s, t :
          /\ id \in SF!Resolve(ref) /\ s = shelf[SF!At(id)] /\ t = SF!FromTable(id, FileReadMax)
          /\ SF!Adopt(SF!Forked(t), d, SF!Tale(s, t.nodes, SF!TooLong(id, FileReadMax)), s.filed)
    BY <1>10, Zenon DEF SF!ForkStored
  <2>2. /\ id \in CP!SF!Resolve(ref) /\ s = shelf[CP!SF!At(id)]
        /\ t = CP!SF!FromTable(id, FileReadMax) /\ CP!SF!Forked(t) = SF!Forked(t)
    BY <2>1, FileWords, Zenon
  <2>3. CP!SF!Tale(s, t.nodes, CP!SF!TooLong(id, FileReadMax))
          = SF!Tale(s, t.nodes, SF!TooLong(id, FileReadMax))
    BY TaleWord, Zenon
  <2>4. PICK told : told = SF!Tale(s, t.nodes, SF!TooLong(id, FileReadMax))
    OBVIOUS
  <2>5. SF!Adopt(SF!Forked(t), d, told, s.filed)
    BY <2>1, <2>4, Zenon
  <2>6. CP!SF!Adopt(SF!Forked(t), d, told, s.filed)
    BY <2>5, FileWords, ZenonT(60) DEF SF!Adopt, CP!SF!Adopt
  <2>7. CP!SF!Adopt(CP!SF!Forked(t), d, CP!SF!Tale(s, t.nodes, CP!SF!TooLong(id, FileReadMax)), s.filed)
    BY <2>2, <2>3, <2>4, <2>6, Zenon
  <2>8. CP!SF!Cut("open", FALSE) /\ UNCHANGED jsonl
    BY <1>10, FileWords, Zenon DEF SF!ForkStored
  <2> QED BY <2>2, <2>7, <2>8, Zenon DEF CP!SF!ForkStored
<1>11. ASSUME NEW ref, SF!Resume(ref)
       PROVE  CP!SF!Resume(ref)
  BY <1>9, <1>11, FileWords, ZenonT(60) DEF SF!Resume, CP!SF!Resume
<1> QED
  BY FileWords, <1>1, <1>2, <1>3, <1>4, <1>5, <1>6, <1>7, <1>8, <1>9, <1>10, <1>11,
     ZenonT(60) DEF SF!Next, CP!SF!Next, SF!sfVars, CP!SF!sfVars

LEMMA FileAssumption == CP!FileAssumed
BY PartsAssumption, FileWords, ZenonT(120) DEF CP!FileAssumed,
  SF!SessionFileAssumption, CP!SF!SessionFileAssumption

LEMMA FileKept == CP!SF!StoryKept => StoryKept
BY FileWords, ZenonT(60) DEF StoryKept, SF!StoryKept, CP!SF!StoryKept

\* A conversation keeps what was said, whatever becomes of it: no message of the
\* branch that goes on is missing from the next prompt without a summary of it,
\* every turn that ended well is stored, and its text, thoughts, calls and first
\* results are in the rows, and in every export, import, fork and copy of it but
\* for those that cut short names: what was opened, exported or forked through a
\* reading of ReadMax rows that did not reach the end (10,000, and 500 for the
\* TUI's /resume) has the oldest rows only, and what comes from it no more.
THEOREM StoriesKeep == Spec => []SessionKept
<1>1. Init => CP!StoryInv
  BY Parts, FileAssumption, FileInit, CP!StoryInit
<1>2. CP!StoryInv /\ [Next]_vars => CP!StoryInv'
  BY Parts, FileAssumption, FileNext, CP!StoryStep
<1>3. CP!StoryInv => StoryKept
  BY CP!StoryTold, FileKept
<1>4. Spec => []StoryKept
  BY <1>1, <1>2, <1>3, PTL DEF Spec
<1>5. NothingForgotten /\ TurnsSaved /\ StoryKept => SessionKept
  BY DEF SessionKept
<1> QED BY SessionsKeep, <1>4, <1>5, PTL

EP == INSTANCE ExecEngineProofs
        WITH rpc <- alloc, late <- expired, leased <- slots, at <- inode,
             files <- wrote, Overlap <- {}, None <- Nowhere

LEMMA EngineInit == EE!Init => EP!Init
BY DEF
  EE!NoTask, EE!Init, EE!Cardinality, EE!IsFiniteSet, EP!NoTask, EP!Init,
  EP!Cardinality, EP!IsFiniteSet

LEMMA EngineNext == [EE!Next]_EE!vars => [EP!Next]_EP!vars
BY DEF
  EE!vars, EE!engine, EE!calls, EE!NoTask, EE!Spawned, EE!Used, EE!Seqs,
  EE!Linked, EE!Running, EE!Fresh, EE!Busy, EE!Notify, EE!Rank, EE!Insert,
  EE!Exhausted, EE!Unlock, EE!Arm, EE!Deadline, EE!SleepOver, EE!MadeNew,
  EE!Materialize, EE!MaterializeFails, EE!RefillCount, EE!RefillPush,
  EE!Become, EE!Listed, EE!Take, EE!ReleaseRoute, EE!Kill, EE!Unlease,
  EE!Wipe, EE!Park, EE!Destroy, EE!Abort, EE!Handles, EE!Lookup, EE!Spawn,
  EE!Register, EE!FsTool, EE!Write, EE!Fork, EE!LeaveGroup, EE!Exit, EE!Clear,
  EE!TimedOut, EE!AbortOwn, EE!Disconnect, EE!AllocStep, EE!ReleaseStep,
  EE!ExecStep, EE!Next, EE!Cardinality, EE!IsFiniteSet, EP!vars, EP!engine,
  EP!calls, EP!NoTask, EP!Spawned, EP!Used, EP!Seqs, EP!Linked, EP!Running,
  EP!Fresh, EP!Busy, EP!Notify, EP!Rank, EP!Insert, EP!Exhausted, EP!Unlock,
  EP!Arm, EP!Deadline, EP!SleepOver, EP!MadeNew, EP!Materialize,
  EP!MaterializeFails, EP!RefillCount, EP!RefillPush, EP!Become, EP!Listed,
  EP!Take, EP!ReleaseRoute, EP!Kill, EP!Unlease, EP!Wipe, EP!Park, EP!Destroy,
  EP!Abort, EP!Handles, EP!Lookup, EP!Spawn, EP!Register, EP!FsTool, EP!Write,
  EP!Fork, EP!LeaveGroup, EP!Exit, EP!Clear, EP!TimedOut, EP!AbortOwn,
  EP!Disconnect, EP!AllocStep, EP!ReleaseStep, EP!ExecStep, EP!Next,
  EP!Cardinality, EP!IsFiniteSet

LEMMA EngineKept == EP!HandedOverClean => HandedOverClean
BY DEF HandedOverClean,
  EE!NoStray, EE!Excused, EE!CleanHandover, EE!HandedOverClean,
  EE!Cardinality, EE!IsFiniteSet, EP!NoStray, EP!Excused, EP!CleanHandover,
  EP!HandedOverClean, EP!Cardinality, EP!IsFiniteSet

LEMMA EnginePart == Spec => EP!Spec
BY Parts, EngineInit, EngineNext, PTL DEF Spec, EP!Spec

\* A workspace is handed over clean and its processes end with its lease, but
\* for those no kill reaches and for what could not be removed, for any number
\* of requests, nodes and directories (rupi-exec, exec_service).
THEOREM HandoverClean == ASSUME EP!Named, EP!EnoughDirs PROVE Spec => []HandedOverClean
<1>1. EP!Spec => []EP!HandedOverClean
  BY EP!HandoverClean
<1> QED BY EnginePart, EngineKept, <1>1, PTL

=============================================================================
