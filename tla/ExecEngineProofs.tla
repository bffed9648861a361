-------------------------- MODULE ExecEngineProofs --------------------------
(***************************************************************************)
(* That a node keeps its capacity, and hands its workspaces over clean,    *)
(* for every number of requests, calls, nodes and directories.             *)
(*                                                                         *)
(* The invariant is a conjunction, one part per piece of state: who holds  *)
(* a slot (Slots), what is where (Typed), that no two owners and no pool   *)
(* share a directory (Apart), where the calls and their processes may be   *)
(* (Called), and who wrote into a directory (Clean).  The capacity needs   *)
(* only the first, with every overlap; the rest assumes Overlap = {}.      *)
(***************************************************************************)
EXTENDS ExecEngine, SequenceTheorems, FiniteSetTheorems, TLAPS

\* Where a request holds a slot, and where it has a directory of its own.
Holding == {"inserted", "held", "kill", "unlease", "destroy", "rmdir"}
Owning == {"held", "kill", "unlease", "wipe", "park", "destroy", "rmdir"}
Asking == {"try", "unlocked", "waiting"}

Slots ==
  /\ DOMAIN rpc = Reqs /\ DOMAIN node = Reqs
  /\ leased \subseteq Reqs /\ IsFiniteSet(leased)
  /\ \A r \in Reqs : r \in leased <=> rpc[r] \in Holding

Pools == {s \in Seq(Dirs) : Len(s) <= WarmMax}

\* However the paths and the pools are filled and wherever the processes stand,
\* there is another directory.
EnoughDirs ==
  \A a \in [Reqs -> Dirs \cup {None}], c \in [Execs -> Dirs \cup {None}] :
    \A w \in [Nodes -> Pools] : \E d \in Dirs :
      /\ \A r \in Reqs : a[r] # d
      /\ \A e \in Execs : c[e] # d
      /\ \A n \in Nodes : \A i \in 1 .. Len(w[n]) : w[n][i] # d

Typed ==
  /\ TypeOK
  /\ warm \in [Nodes -> Pools]
  /\ \A r \in Reqs : /\ rpc[r] \in Asking => ranked[r] # <<>>
                     /\ node[r] = None => /\ rpc[r] \in Asking \cup {"idle", "refused"}
                                          /\ refill[r] = NoTask

Apart ==
  /\ \A r, q \in Reqs : r # q /\ at[r] # None => at[q] # at[r]
  /\ \A r \in Reqs : rpc[r] \in Owning =>
       at[r] # None /\ \A n \in Nodes : \A i \in 1 .. Len(warm[n]) : warm[n][i] # at[r]
  /\ \A m, n \in Nodes : \A i \in 1 .. Len(warm[m]) : \A j \in 1 .. Len(warm[n]) :
       warm[m][i] = warm[n][j] => m = n /\ i = j

\* The processes that go with their slot: shells, and what is in their groups.
Bound == alive \cup {e \in Execs : back[e] = "group"}

\* A call is alone on its handle, and its processes are ones the release can kill.
Called ==
  /\ \A e, f \in Execs : epc[e] \notin {"idle", "done"} /\ epc[f] \notin {"idle", "done"} /\ on[e] = on[f] => e = f
  /\ \A e \in Execs : epc[e] \notin {"idle", "done"} => on[e] \in Reqs
  /\ \A e \in Execs : epc[e] \in {"ready", "gap"} => rpc[on[e]] = "held"
  /\ \A e \in alive : epc[e] \in {"gap", "waiting"}
  /\ \A e \in Execs : back[e] # "none" => epc[e] \notin {"idle", "ready"}
  /\ \A e \in Bound : /\ on[e] \in Reqs /\ cwd[e] = at[on[e]]
                      /\ rpc[on[e]] \in {"held", "kill", "destroy"}
                      /\ epc[e] # "gap" => e \in children[on[e]]

Clean ==
  /\ \A r \in Reqs : rpc[r] \in Owning =>
       \A e \in files[at[r]] : on[e] = r \/ Excused(e, at[r])
  /\ \A r \in Reqs : rpc[r] = "park" => \A e \in files[at[r]] : Excused(e, at[r])
  /\ \A n \in Nodes : \A i \in 1 .. Len(warm[n]) :
       \A e \in files[warm[n][i]] : Excused(e, warm[n][i])
  /\ \A d \in Dirs : \A e \in files[d] : epc[e] # "idle"

-----------------------------------------------------------------------------
(* Slots *)

LEMMA Notified ==
  ASSUME DOMAIN rpc = Reqs, NEW r \in Reqs, NEW n, NEW x \in {"failed", "gone"},
         rpc' = Notify(n, [rpc EXCEPT ![r] = x])
  PROVE  /\ rpc'[r] = x /\ DOMAIN rpc' = Reqs
         /\ \A q \in Reqs \ {r} : rpc'[q] = rpc[q] \/ (rpc[q] = "waiting" /\ rpc'[q] = "try")
BY DEF Notify

\* The wait for a slot, up to the answer that there is none.
AskStep(r) == Rank(r) \/ Exhausted(r) \/ Unlock(r) \/ Arm(r) \/ Deadline(r) \/ SleepOver(r)

LEMMA Asks ==
  ASSUME DOMAIN rpc = Reqs, NEW r \in Reqs, AskStep(r)
  PROVE  /\ UNCHANGED <<refill, engine, calls>> /\ DOMAIN rpc' = Reqs
         /\ rpc[r] \in Asking \cup {"idle"} /\ rpc'[r] \in Asking \cup {"refused"}
         /\ \A q \in Reqs \ {r} : rpc'[q] = rpc[q]
BY DEF AskStep, Rank, Exhausted, Unlock, Arm, Deadline, SleepOver, Asking

\* What does not touch the maps of the engine's slots.
LEMMA CallsOnly ==
  ASSUME NEW e \in Execs, ExecStep(e) \/ \E r \in Reqs : Lookup(e, r)
  PROVE  UNCHANGED <<rpc, ranked, late, refill, leased, node, at, warm>>
BY DEF ExecStep, Spawn, Register, FsTool, Write, Fork, LeaveGroup, Exit, Clear, TimedOut,
       AbortOwn, Disconnect, Lookup, engine, Take

LEMMA InitSlots == Init => Slots
BY FS_EmptySet DEF Init, Slots, Holding

LEMMA NextSlots == Slots /\ [Next]_vars => Slots'
<1> SUFFICES ASSUME Slots, [Next]_vars PROVE Slots'
  OBVIOUS
<1>1. ASSUME NEW r \in Reqs, AskStep(r) PROVE Slots'
  BY <1>1, Asks DEF Slots, Asking, Holding, engine
<1>2. ASSUME NEW r \in Reqs, Insert(r) PROVE Slots'
  <2>1. IsFiniteSet(leased \cup {r})
    BY FS_AddElement DEF Slots
  <2> QED BY <1>2, <2>1 DEF Insert, Slots, Holding
<1>3. ASSUME NEW r \in Reqs, Materialize(r) \/ ReleaseRoute(r) \/ Kill(r) \/ Wipe(r) PROVE Slots'
  BY <1>3 DEF Materialize, ReleaseRoute, Kill, Wipe, Take, engine, Slots, Holding
<1>4. ASSUME NEW r \in Reqs, MaterializeFails(r) \/ Unlease(r) \/ Park(r) \/ Destroy(r) PROVE Slots'
  <2>1. leased' \subseteq Reqs /\ IsFiniteSet(leased') /\ node' = node
    BY <1>4, FS_RemoveElement DEF MaterializeFails, Unlease, Park, Destroy, Slots
  <2>2. CASE Unlease(r)
    BY <2>1, <2>2 DEF Unlease, Slots, Holding
  <2>3. CASE MaterializeFails(r)
    <3>1. rpc' = Notify(node[r], [rpc EXCEPT ![r] = "failed"]) /\ leased' = leased \ {r}
      BY <2>3 DEF MaterializeFails
    <3> QED BY <2>1, <3>1, Notified DEF Slots, Holding
  <2>4. CASE Park(r)
    <3>1. rpc' = Notify(node[r], [rpc EXCEPT ![r] = "gone"]) /\ leased' = leased /\ rpc[r] = "park"
      BY <2>4 DEF Park
    <3> QED BY <2>1, <3>1, Notified DEF Slots, Holding
  <2>5. CASE Destroy(r)
    <3>1. rpc' = Notify(node[r], [rpc EXCEPT ![r] = "gone"]) /\ leased' = leased \ {r}
      BY <2>5 DEF Destroy
    <3> QED BY <2>1, <3>1, Notified DEF Slots, Holding
  <2> QED BY <1>4, <2>2, <2>3, <2>4, <2>5
<1>5. ASSUME NEW r \in Reqs, Abort(r) \/ RefillCount(r) \/ RefillPush(r) PROVE Slots'
  BY <1>5 DEF Abort, RefillCount, RefillPush, engine, Slots, Holding
<1>6. ASSUME NEW e \in Execs, ExecStep(e) \/ \E r \in Reqs : Lookup(e, r) PROVE Slots'
  BY <1>6, CallsOnly DEF Slots
<1>7. CASE UNCHANGED vars
  BY <1>7 DEF vars, Slots
<1> QED
  BY <1>1, <1>2, <1>3, <1>4, <1>5, <1>6, <1>7 DEF Next, AllocStep, AskStep, ReleaseStep

\* A slot is taken only where one is free.
LEMMA NextCapacity ==
  ASSUME Slots, CapacityKept, [Next]_vars, Cap \in Nat
  PROVE  CapacityKept'
<1>1. CASE UNCHANGED node /\ leased' \subseteq leased
  <2> SUFFICES ASSUME NEW n \in Nodes PROVE Cardinality(Used(n)') <= Cap
    BY DEF CapacityKept
  <2>1. Used(n)' \subseteq Used(n) /\ Used(n) \subseteq leased
    BY <1>1 DEF Used
  <2>2. IsFiniteSet(Used(n))
    BY <2>1, FS_Subset DEF Slots
  <2>3. Cardinality(Used(n)') <= Cardinality(Used(n))
    BY <2>1, <2>2, FS_Subset
  <2>4. IsFiniteSet(Used(n)')
    BY <2>1, <2>2, FS_Subset
  <2>5. Cardinality(Used(n)') \in Nat /\ Cardinality(Used(n)) \in Nat
    BY <2>2, <2>4, FS_CardinalityType
  <2> QED BY <2>3, <2>5 DEF CapacityKept
<1>2. ASSUME NEW r \in Reqs, Insert(r) PROVE CapacityKept'
  <2> SUFFICES ASSUME NEW n \in Nodes PROVE Cardinality(Used(n)') <= Cap
    BY DEF CapacityKept
  <2>1. /\ Cardinality(Used(Head(ranked[r]))) < Cap /\ leased' = leased \cup {r} /\ r \notin leased
        /\ node'[r] = Head(ranked[r]) /\ \A q \in Reqs \ {r} : node'[q] = node[q]
    BY <1>2 DEF Insert, Slots, Holding
  <2>2. IsFiniteSet(Used(n)) /\ Cardinality(Used(n)) \in Nat
    <3>1. Used(n) \subseteq leased
      BY DEF Used
    <3> QED BY <3>1, FS_Subset, FS_CardinalityType DEF Slots
  <2>3. CASE n = Head(ranked[r])
    <3>1. Used(n)' = Used(n) \cup {r}
      BY <2>1, <2>3 DEF Used, Slots
    <3>2. Cardinality(Used(n) \cup {r}) <= Cardinality(Used(n)) + 1
      BY <2>2, FS_AddElement
    <3>3. IsFiniteSet(Used(n)')
      BY <2>2, <3>1, FS_AddElement
    <3>4. Cardinality(Used(n)') \in Nat
      BY <3>3, FS_CardinalityType
    <3> QED BY <2>1, <2>2, <2>3, <3>1, <3>2, <3>4
  <2>4. CASE n # Head(ranked[r])
    <3>1. Used(n)' = Used(n)
      BY <2>1, <2>4 DEF Used, Slots
    <3> QED BY <3>1 DEF CapacityKept
  <2> QED BY <2>3, <2>4
<1>3. ASSUME NEW r \in Reqs, AskStep(r) PROVE CapacityKept'
  BY <1>1, <1>3, Asks DEF Slots, engine
<1>4. ASSUME NEW r \in Reqs,
             \/ Materialize(r) \/ MaterializeFails(r) \/ ReleaseRoute(r) \/ ReleaseStep(r)
             \/ Abort(r) \/ RefillCount(r) \/ RefillPush(r)
      PROVE  CapacityKept'
  <2>1. UNCHANGED node /\ leased' \subseteq leased
    BY <1>4 DEF Materialize, MaterializeFails, ReleaseRoute, ReleaseStep, Kill, Unlease, Wipe,
                Park, Destroy, Abort, RefillCount, RefillPush, engine
  <2> QED BY <1>1, <2>1
<1>5. ASSUME NEW e \in Execs, ExecStep(e) \/ \E r \in Reqs : Lookup(e, r) PROVE CapacityKept'
  BY <1>1, <1>5, CallsOnly
<1>6. CASE UNCHANGED vars
  BY <1>1, <1>6 DEF vars
<1> QED
  BY <1>2, <1>3, <1>4, <1>5, <1>6 DEF Next, AllocStep, AskStep

\* No node has more leases than its capacity, whatever allocations, failures
\* and releases overlap (engine.rs alloc_with, release, destroy), for any number
\* of requests, calls and nodes and with every overlap.
THEOREM CapacityHolds == ASSUME Cap \in Nat PROVE Spec => []CapacityKept
<1>1. Init => Slots /\ CapacityKept
  <2> SUFFICES ASSUME Init PROVE CapacityKept
    BY InitSlots
  <2>1. \A n \in Nodes : Used(n) = {}
    BY DEF Init, Used
  <2> QED BY <2>1, FS_EmptySet DEF CapacityKept
<1>2. Slots /\ CapacityKept /\ [Next]_vars => Slots' /\ CapacityKept'
  BY NextSlots, NextCapacity
<1> QED BY <1>1, <1>2, PTL DEF Spec

-----------------------------------------------------------------------------
(* Directories *)

\* The names of nothing and of what there is differ.
Named == None \notin Dirs \cup Nodes /\ IsFiniteSet(Nodes) /\ ExecEngineAssumption

\* EnoughDirs asks no more than this: a filesystem never runs out of inodes.
LEMMA Endless ==
  ASSUME IsFiniteSet(Reqs), IsFiniteSet(Execs), IsFiniteSet(Nodes), WarmMax \in Nat,
         ~IsFiniteSet(Dirs)
  PROVE  EnoughDirs
<1> SUFFICES ASSUME NEW a \in [Reqs -> Dirs \cup {None}], NEW c \in [Execs -> Dirs \cup {None}],
                    NEW w \in [Nodes -> Pools]
             PROVE  \E d \in Dirs : /\ \A r \in Reqs : a[r] # d
                                    /\ \A e \in Execs : c[e] # d
                                    /\ \A n \in Nodes : \A i \in 1 .. Len(w[n]) : w[n][i] # d
  BY DEF EnoughDirs
<1> DEFINE P == Nodes \X (1 .. WarmMax)
           f == [p \in P |-> w[p[1]][p[2]]]
           A == {a[r] : r \in Reqs}
           C == {c[e] : e \in Execs}
           W == {f[p] : p \in P}
<1>1. IsFiniteSet(A)
  <2>1. a \in Surjection(Reqs, A)
    <3>1. a \in [Reqs -> A] /\ \A t \in A : \E r \in Reqs : a[r] = t
      OBVIOUS
    <3> QED BY <3>1 DEF Surjection
  <2> QED BY <2>1, FS_Surjection
<1>c. IsFiniteSet(C)
  <2>1. c \in Surjection(Execs, C)
    <3>1. c \in [Execs -> C] /\ \A t \in C : \E e \in Execs : c[e] = t
      OBVIOUS
    <3> QED BY <3>1 DEF Surjection
  <2> QED BY <2>1, FS_Surjection
<1>2. IsFiniteSet(W)
  <2>1. IsFiniteSet(P)
    <3>1. IsFiniteSet(1 .. WarmMax)
      BY FS_Interval
    <3> HIDE DEF f, W
    <3> QED BY <3>1, FS_Product
  <2>2. f \in Surjection(P, W)
    <3>1. f \in [P -> W] /\ \A t \in W : \E p \in P : f[p] = t
      OBVIOUS
    <3> QED BY <3>1 DEF Surjection
  <2> HIDE DEF P, f, W
  <2> QED BY <2>1, <2>2, FS_Surjection
<1>3. IsFiniteSet(A \cup C \cup W)
  <2> HIDE DEF A, C, W
  <2> QED BY <1>1, <1>c, <1>2, FS_Union
<1>4. PICK d \in Dirs : d \notin A \cup C \cup W
  <2> HIDE DEF A, C, W
  <2> QED BY <1>3, FS_Subset
<1>5. (\A r \in Reqs : a[r] # d) /\ \A e \in Execs : c[e] # d
  BY <1>4
<1>6. ASSUME NEW n \in Nodes, NEW i \in 1 .. Len(w[n]) PROVE w[n][i] # d
  <2>1. w[n] \in Pools /\ Len(w[n]) \in Nat /\ Len(w[n]) <= WarmMax
    BY DEF Pools
  <2>2. <<n, i>> \in P /\ f[<<n, i>>] = w[n][i]
    BY <2>1
  <2>3. w[n][i] \in W
    BY <2>2
  <2> QED BY <2>3, <1>4
<1> QED BY <1>5, <1>6

LEMMA SeqsAre ==
  ASSUME NEW S, IsFiniteSet(S), NEW s \in Seqs(S)
  PROVE  /\ s \in Seq(S)
         /\ s # <<>> => Head(s) \in S /\ Tail(s) \in Seqs(S) /\ (Len(s) # 1 => Tail(s) # <<>>)
<1>0. Cardinality(S) \in Nat
  BY FS_CardinalityType
<1>1. PICK k \in 0 .. Cardinality(S) : s \in [1 .. k -> S]
  BY DEF Seqs
<1>2. s \in Seq(S) /\ Len(s) = k /\ k \in Nat /\ DOMAIN s = 1 .. k
  BY <1>0, <1>1
<1>3. \A i, j \in 1 .. k : s[i] = s[j] => i = j
  BY <1>2 DEF Seqs
<1>4. ASSUME s # <<>> PROVE Head(s) \in S /\ Tail(s) \in Seqs(S) /\ (Len(s) # 1 => Tail(s) # <<>>)
  <2>1. k # 0 /\ Head(s) \in S /\ Len(Tail(s)) = k - 1 /\ Tail(s) \in Seq(S)
    BY <1>2, <1>4
  <2>2. Tail(s) \in [1 .. k - 1 -> S] /\ \A i \in 1 .. k - 1 : Tail(s)[i] = s[i + 1]
    BY <1>2, <1>4, <2>1, HeadTailProperties, LenProperties
  <2>3. k - 1 \in 0 .. Cardinality(S)
    BY <1>0, <1>1, <1>2, <2>1
  <2>4. \A i, j \in DOMAIN Tail(s) : Tail(s)[i] = Tail(s)[j] => i = j
    <3> SUFFICES ASSUME NEW i \in 1 .. k - 1, NEW j \in 1 .. k - 1, Tail(s)[i] = Tail(s)[j]
                 PROVE  i = j
      BY <2>2
    <3>1. i + 1 \in 1 .. k /\ j + 1 \in 1 .. k /\ s[i + 1] = s[j + 1]
      BY <1>2, <2>2
    <3>2. i + 1 = j + 1
      BY <1>3, <3>1
    <3> QED BY <3>2
  <2>5. Tail(s) \in Seqs(S)
    BY <2>2, <2>3, <2>4 DEF Seqs
  <2>6. Len(s) # 1 => Tail(s) # <<>>
    BY <1>2, <2>1
  <2> QED BY <2>1, <2>5, <2>6
<1> QED BY <1>2, <1>4

\* What one more or one less directory makes of a pool.
LEMMA PoolGrows ==
  ASSUME NEW s \in Pools, NEW d \in Dirs, Len(s) < WarmMax, WarmMax \in Nat
  PROVE  /\ Append(s, d) \in Pools /\ Len(Append(s, d)) = Len(s) + 1 /\ Len(s) \in Nat
         /\ \A i \in 1 .. Len(s) : Append(s, d)[i] = s[i]
         /\ Append(s, d)[Len(s) + 1] = d
BY DEF Pools

LEMMA PoolShrinks ==
  ASSUME NEW s \in Pools, s # <<>>, WarmMax \in Nat
  PROVE  LET p == SubSeq(s, 1, Len(s) - 1) IN
         /\ p \in Pools /\ Len(p) = Len(s) - 1 /\ Len(s) \in Nat \ {0}
         /\ \A i \in 1 .. Len(p) : p[i] = s[i] /\ i \in 1 .. Len(s) /\ i # Len(s)
         /\ s[Len(s)] \in Dirs
<1> DEFINE p == SubSeq(s, 1, Len(s) - 1)
<1>1. s \in Seq(Dirs) /\ Len(s) \in Nat \ {0} /\ Len(s) <= WarmMax /\ s[Len(s)] \in Dirs
  BY DEF Pools
<1>2. 1 \in 1 .. Len(s) + 1 /\ Len(s) - 1 \in 1 - 1 .. Len(s) /\ Len(s) - 1 - 1 + 1 = Len(s) - 1
  BY <1>1
<1>3. p \in Seq(Dirs) /\ Len(p) = Len(s) - 1 /\ \A i \in 1 .. Len(s) - 1 : p[i] = s[1 + i - 1]
  BY <1>1, <1>2, SubSeqProperties
<1> HIDE DEF p
<1>4. \A i \in 1 .. Len(p) : p[i] = s[i] /\ i \in 1 .. Len(s) /\ i # Len(s)
  BY <1>1, <1>3
<1> QED BY <1>1, <1>3, <1>4 DEF Pools, p

\* A new directory is no one's.
LEMMA FreshIs ==
  ASSUME EnoughDirs, Typed
  PROVE  /\ Fresh \in Dirs /\ \A r \in Reqs : at[r] # Fresh
         /\ \A n \in Nodes : \A i \in 1 .. Len(warm[n]) : warm[n][i] # Fresh
<1>1. /\ at \in [Reqs -> Dirs \cup {None}] /\ warm \in [Nodes -> Pools]
      /\ cwd \in [Execs -> Dirs \cup {None}] /\ Running \subseteq Execs
  BY DEF Typed, TypeOK, Running
<1>2. \A n \in Nodes : DOMAIN warm[n] = 1 .. Len(warm[n])
  BY <1>1 DEF Pools
<1>3. PICK d \in Dirs : /\ \A r \in Reqs : at[r] # d
                        /\ \A e \in Execs : cwd[e] # d
                        /\ \A n \in Nodes : \A i \in 1 .. Len(warm[n]) : warm[n][i] # d
  BY <1>1 DEF EnoughDirs
<1>4. d \notin Linked \union {cwd[e] : e \in Running}
  BY <1>1, <1>2, <1>3 DEF Linked
<1>5. Fresh \in Dirs /\ Fresh \notin Linked \union {cwd[e] : e \in Running}
  BY <1>4 DEF Fresh
<1> QED BY <1>2, <1>5 DEF Linked

\* What Materialize gives a handle: a directory no other owner and no pool has.
LEMMA Given ==
  ASSUME Named, EnoughDirs, Typed, Apart, NEW r \in Reqs, Materialize(r)
  PROVE  /\ at' \in [Reqs -> Dirs \cup {None}] /\ warm' \in [Nodes -> Pools] /\ at'[r] \in Dirs
         /\ \A q \in Reqs \ {r} : at'[q] \in {at[q], None} /\ at'[q] # at'[r]
         /\ \A q \in Reqs \ {r} : rpc[q] \in Owning => at'[q] = at[q]
         /\ \A m \in Nodes : \A i \in 1 .. Len(warm'[m]) :
              i \in 1 .. Len(warm[m]) /\ warm'[m][i] = warm[m][i] /\ warm'[m][i] # at'[r]
         /\ \/ files' = [files EXCEPT ![at'[r]] = {}] /\ unwiped' = unwiped \ {at'[r]}
            \/ /\ UNCHANGED <<files, unwiped>>
               /\ \E m \in Nodes : \E i \in 1 .. Len(warm[m]) : warm[m][i] = at'[r]
<1> DEFINE n == node[r]
           w == warm[n]
           p == IF w = <<>> THEN w ELSE SubSeq(w, 1, Len(w) - 1)
           last == w[Len(w)]
<1>0. warm \in [Nodes -> Pools] /\ WarmMax \in Nat /\ TypeOK /\ None \notin Dirs
  BY DEF Typed, Named, ExecEngineAssumption
<1>1. n \in Nodes
  BY <1>0 DEF Materialize, Typed, TypeOK, Asking
<1>2. w \in Pools /\ Len(w) \in Nat /\ (w # <<>> => last \in Dirs /\ Len(w) \in 1 .. Len(w))
  BY <1>0, <1>1, PoolShrinks DEF Pools
<1>3. /\ p \in Pools
      /\ \A i \in 1 .. Len(p) : p[i] = w[i] /\ i \in 1 .. Len(w) /\ i # Len(w)
  <2>1. CASE w = <<>>
    <3>1. p = w /\ Len(w) = 0
      BY <2>1
    <3> HIDE DEF p, w
    <3> QED BY <3>1, <1>2
  <2>2. CASE w # <<>>
    <3>1. p = SubSeq(w, 1, Len(w) - 1)
      BY <2>2
    <3> HIDE DEF p, w
    <3> QED BY <3>1, <2>2, <1>0, <1>2, PoolShrinks
  <2> QED BY <2>1, <2>2
<1>4. /\ warm' = [warm EXCEPT ![n] = p]
      /\ \/ /\ w # <<>> /\ UNCHANGED <<files, unwiped>>
            /\ at' = [x \in Reqs |-> IF x = r THEN last ELSE IF at[x] = last THEN None ELSE at[x]]
         \/ at' = [at EXCEPT ![r] = Fresh] /\ MadeNew(Fresh)
  BY DEF Materialize
<1> HIDE DEF n, w, p, last
<1>5. warm' \in [Nodes -> Pools] /\ warm'[n] = p /\ \A m \in Nodes \ {n} : warm'[m] = warm[m]
  BY <1>0, <1>1, <1>3, <1>4
<1>6. \A m \in Nodes : \A i \in 1 .. Len(warm'[m]) :
        i \in 1 .. Len(warm[m]) /\ warm'[m][i] = warm[m][i] /\ (m = n => i # Len(w))
  BY <1>1, <1>3, <1>5 DEF w
<1>7. CASE /\ w # <<>> /\ UNCHANGED <<files, unwiped>>
           /\ at' = [x \in Reqs |-> IF x = r THEN last ELSE IF at[x] = last THEN None ELSE at[x]]
  <2>1. at'[r] = last /\ last \in Dirs /\ Len(w) \in 1 .. Len(warm[n]) /\ warm[n][Len(w)] = last
    BY <1>2, <1>7 DEF w, last
  <2>2. at' \in [Reqs -> Dirs \cup {None}]
    BY <1>0, <1>7, <2>1 DEF TypeOK
  <2>3. \A q \in Reqs \ {r} : at'[q] \in {at[q], None} /\ at'[q] # last
    BY <1>0, <1>7, <2>1
  <2>4. \A q \in Reqs \ {r} : rpc[q] \in Owning => at'[q] = at[q]
    BY <1>1, <1>7, <2>1 DEF Apart
  <2>5. \A m \in Nodes : \A i \in 1 .. Len(warm'[m]) : warm'[m][i] # last
    BY <1>1, <1>6, <2>1 DEF Apart
  <2> QED BY <1>1, <1>5, <1>6, <1>7, <2>1, <2>2, <2>3, <2>4, <2>5
<1>8. CASE at' = [at EXCEPT ![r] = Fresh] /\ MadeNew(Fresh)
  <2>1. /\ Fresh \in Dirs /\ \A q \in Reqs : at[q] # Fresh
        /\ \A m \in Nodes : \A i \in 1 .. Len(warm[m]) : warm[m][i] # Fresh
    BY FreshIs
  <2>2. /\ at' \in [Reqs -> Dirs \cup {None}] /\ at'[r] = Fresh
        /\ \A q \in Reqs \ {r} : at'[q] = at[q]
    BY <1>0, <1>8, <2>1 DEF TypeOK
  <2>3. files' = [files EXCEPT ![at'[r]] = {}] /\ unwiped' = unwiped \ {at'[r]}
    BY <1>8, <2>2 DEF MadeNew
  <2> QED BY <1>5, <1>6, <2>1, <2>2, <2>3
<1> QED BY <1>4, <1>7, <1>8

LEMMA InitTyped == Named /\ Init => Typed
<1> SUFFICES ASSUME Named, Init PROVE Typed
  OBVIOUS
<1>1. <<>> \in Pools /\ <<>> \in Seq(Dirs) /\ Len(<<>>) = 0 /\ WarmMax \in Nat
  BY DEF Named, ExecEngineAssumption, Pools
<1>2. <<>> \in Seqs(Nodes)
  <2>1. Cardinality(Nodes) \in Nat
    BY FS_CardinalityType DEF Named
  <2>2. <<>> \in [1 .. 0 -> Nodes] /\ 0 \in 0 .. Cardinality(Nodes) /\ DOMAIN <<>> = {}
    BY <2>1
  <2> QED BY <2>2 DEF Seqs
<1>3. TypeOK
  BY <1>1, <1>2 DEF Init, TypeOK
<1>4. warm \in [Nodes -> Pools]
  BY <1>1 DEF Init
<1> QED BY <1>3, <1>4 DEF Init, Typed, Asking

\* Loose processes stay loose.
LEMMA BecomeIs ==
  ASSUME back \in [Execs -> {"none", "group", "loose"}], NEW S, NEW x \in {"none", "loose"}, Become(S, x)
  PROVE  /\ back' \in [Execs -> {"none", "group", "loose"}]
         /\ \A e \in Execs : back'[e] # "none" => back[e] # "none"
         /\ \A e \in Execs : back[e] = "loose" => back'[e] = "loose"
         /\ \A e \in Execs : back'[e] = "group" => back[e] = "group" /\ e \notin S
BY DEF Become

\* Which types a step can disturb.
LEMMA NextTyped ==
  ASSUME Named, EnoughDirs, Typed, Apart, Called, Slots, CapacityKept, [Next]_vars
  PROVE  Typed'
<1>a. TypeOK /\ warm \in [Nodes -> Pools] /\ WarmMax \in Nat /\ Cap \in Nat
  BY DEF Typed, Named, ExecEngineAssumption
<1>w. \A n \in Nodes : warm[n] \in Seq(Dirs) /\ Len(warm[n]) <= WarmMax
  BY <1>a DEF Pools
<1>f. Fresh \in Dirs
  BY FreshIs
<1>1. ASSUME NEW r \in Reqs, AskStep(r) PROVE Typed'
  <2>1. \A q \in Reqs : ranked[q] # <<>> =>
          /\ Tail(ranked[q]) \in Seqs(Nodes) /\ (Len(ranked[q]) # 1 => Tail(ranked[q]) # <<>>)
    BY <1>a, SeqsAre DEF TypeOK, Named
  <2>2. TypeOK'
    <3>1. rpc' \in [Reqs -> {"idle", "try", "unlocked", "waiting", "inserted", "held",
                       "refused", "failed", "kill", "unlease", "wipe", "park",
                       "destroy", "rmdir", "gone"}] /\ late' \subseteq Reqs
      BY <1>1, <1>a DEF AskStep, Rank, Exhausted, Unlock, Arm, Deadline, SleepOver, TypeOK
    <3>2. ranked' \in [Reqs -> Seqs(Nodes)]
      <4>1. CASE Exhausted(r)
        <5>1. ranked[r] # <<>>
          BY <4>1 DEF Exhausted, Typed, Asking
        <5> QED BY <4>1, <5>1, <2>1, <1>a DEF Exhausted, TypeOK
      <4>2. CASE ~Exhausted(r)
        BY <4>2, <1>1, <1>a DEF AskStep, Rank, Unlock, Arm, Deadline, SleepOver, TypeOK
      <4> QED BY <4>1, <4>2
    <3>3. UNCHANGED <<refill, leased, node, children, at, warm, files, unwiped, epc, on, cwd, alive, back>>
      BY <1>1, Asks DEF Slots, engine, calls
    <3> QED BY <3>1, <3>2, <3>3, <1>a DEF TypeOK
  <2>3. UNCHANGED <<node, refill, warm>>
    BY <1>1, Asks DEF Slots, engine
  <2>4. \A q \in Reqs : rpc'[q] \in Asking => ranked'[q] # <<>>
    BY <1>1, <1>a, <2>1 DEF AskStep, Rank, Exhausted, Unlock, Arm, Deadline, SleepOver, engine,
                            calls, TypeOK, Typed, Asking
  <2>5. \A q \in Reqs : rpc'[q] = rpc[q] \/ rpc'[q] \in Asking \cup {"refused"}
    BY <1>1, Asks DEF Slots
  <2> QED BY <2>2, <2>3, <2>4, <2>5, <1>a DEF Typed
<1>2. ASSUME NEW r \in Reqs, Insert(r) PROVE Typed'
  <2>1. Head(ranked[r]) \in Nodes
    <3>1. ranked[r] \in Seqs(Nodes) /\ ranked[r] # <<>>
      BY <1>2, <1>a DEF Insert, Typed, TypeOK, Asking
    <3> QED BY <3>1, SeqsAre DEF Named
  <2>2. /\ rpc' = [rpc EXCEPT ![r] = "inserted"] /\ node' = [node EXCEPT ![r] = Head(ranked[r])]
        /\ leased' = leased \union {r}
        /\ UNCHANGED <<ranked, late, children, at, warm, refill, files, unwiped, epc, on, cwd, alive, back>>
    BY <1>2 DEF Insert, calls
  <2>3. TypeOK'
    BY <2>1, <2>2, <1>a DEF TypeOK
  <2>4. Head(ranked[r]) # None
    BY <2>1 DEF Named
  <2> QED BY <2>2, <2>3, <2>4, <1>a DEF Typed, TypeOK, Asking
<1>3. ASSUME NEW r \in Reqs, Materialize(r) PROVE Typed'
  <2>1. /\ at' \in [Reqs -> Dirs \cup {None}] /\ warm' \in [Nodes -> Pools] /\ at'[r] \in Dirs
        /\ \/ files' = [files EXCEPT ![at'[r]] = {}] /\ unwiped' = unwiped \ {at'[r]}
           \/ UNCHANGED <<files, unwiped>>
    BY <1>3, Given
  <2>2. /\ rpc' = [rpc EXCEPT ![r] = "held"] /\ refill' = [refill EXCEPT ![r] = Spawned]
        /\ late' = late \ {r} /\ rpc[r] = "inserted"
        /\ UNCHANGED <<ranked, leased, node, children, epc, on, cwd, alive, back>>
    BY <1>3 DEF Materialize, calls
  <2>3. files' \in [Dirs -> SUBSET Execs] /\ unwiped' \subseteq Dirs
    BY <2>1, <1>a DEF TypeOK
  <2>4. \A m \in Nodes : warm'[m] \in Seq(Dirs) /\ Len(warm'[m]) <= WarmMax
    BY <2>1 DEF Pools
  <2>5. TypeOK'
    BY <2>1, <2>2, <2>3, <2>4, <1>a DEF TypeOK
  <2>6. node[r] # None
    BY <2>2 DEF Typed, Asking
  <2> QED BY <2>1, <2>2, <2>5, <2>6, <1>a DEF Typed, TypeOK, Asking
<1>4. ASSUME NEW r \in Reqs, ReleaseRoute(r) \/ Kill(r) \/ Unlease(r) \/ Wipe(r) PROVE Typed'
  <2>1. TypeOK'
    <3>1. CASE ReleaseRoute(r)
      BY <3>1, <1>a DEF ReleaseRoute, engine, calls, TypeOK
    <3>2. CASE Kill(r)
      <4>1. back' \in [Execs -> {"none", "group", "loose"}]
        BY <3>2, <1>a, BecomeIs DEF Kill, Take, TypeOK
      <4> QED BY <3>2, <4>1, <1>a DEF Kill, Take, TypeOK
    <3>3. CASE Unlease(r)
      BY <3>3, <1>a DEF Unlease, calls, TypeOK
    <3>4. CASE Wipe(r)
      <4>1. PICK left \in SUBSET files[at[r]] :
              /\ files' = [files EXCEPT ![at[r]] = left]
              /\ unwiped' = IF left = {} THEN unwiped \ {at[r]} ELSE unwiped \union {at[r]}
        BY <3>4 DEF Wipe
      <4>2. at[r] \in Dirs
        BY <3>4, <1>a DEF Wipe, Apart, Owning, TypeOK
      <4>3. files' \in [Dirs -> SUBSET Execs] /\ unwiped' \subseteq Dirs
        BY <4>1, <4>2, <1>a DEF TypeOK
      <4> QED BY <3>4, <4>3, <1>a DEF Wipe, calls, TypeOK
    <3> QED BY <1>4, <3>1, <3>2, <3>3, <3>4
  <2>2. UNCHANGED <<ranked, node, refill, warm>>
    BY <1>4 DEF ReleaseRoute, Kill, Unlease, Wipe, engine
  <2>3. rpc[r] \notin Asking \cup {"idle", "refused"}
    BY <1>4 DEF ReleaseRoute, Kill, Unlease, Wipe, Asking
  <2>4. rpc'[r] \notin Asking /\ \A q \in Reqs \ {r} : rpc'[q] = rpc[q]
    BY <1>4, <1>a DEF ReleaseRoute, Kill, Unlease, Wipe, TypeOK, Asking
  <2> QED BY <2>1, <2>2, <2>3, <2>4, <1>a DEF Typed
<1>5. ASSUME NEW r \in Reqs, MaterializeFails(r) \/ Park(r) \/ Destroy(r) PROVE Typed'
  <2>1. PICK x \in {"failed", "gone"} : rpc' = Notify(node[r], [rpc EXCEPT ![r] = x])
    BY <1>5 DEF MaterializeFails, Park, Destroy
  <2>2. /\ rpc'[r] = x
        /\ \A q \in Reqs \ {r} : rpc'[q] = rpc[q] \/ (rpc[q] = "waiting" /\ rpc'[q] = "try")
    BY <2>1, Notified DEF Slots
  <2>3. rpc' \in [Reqs -> {"idle", "try", "unlocked", "waiting", "inserted", "held",
                       "refused", "failed", "kill", "unlease", "wipe", "park",
                       "destroy", "rmdir", "gone"}]
    BY <2>1, <1>a DEF Notify, TypeOK
  <2>4. UNCHANGED <<ranked, node, refill>> /\ rpc[r] \notin Asking \cup {"idle", "refused"}
    BY <1>5 DEF MaterializeFails, Park, Destroy, Asking
  <2>5. warm' \in [Nodes -> Pools]
    <3>1. CASE Park(r)
      <4>1. node[r] \in Nodes /\ at[r] \in Dirs
        BY <2>4, <3>1, <1>a DEF Typed, TypeOK, Park, Apart, Owning
      <4>2. CASE Len(warm[node[r]]) < WarmMax
        <5>1. warm' = [warm EXCEPT ![node[r]] = Append(warm[node[r]], at[r])]
          BY <3>1, <4>2 DEF Park
        <5>2. Append(warm[node[r]], at[r]) \in Pools
          BY <4>1, <4>2, <1>a, PoolGrows
        <5> QED BY <5>1, <5>2, <4>1, <1>a
      <4>3. CASE ~(Len(warm[node[r]]) < WarmMax)
        BY <3>1, <4>3, <1>a DEF Park
      <4> QED BY <4>2, <4>3
    <3>2. CASE ~Park(r)
      BY <3>2, <1>5, <1>a DEF MaterializeFails, Destroy
    <3> QED BY <3>1, <3>2
  <2>6. \A m \in Nodes : warm'[m] \in Seq(Dirs) /\ Len(warm'[m]) <= WarmMax
    BY <2>5 DEF Pools
  <2>7. /\ late' \subseteq Reqs /\ leased' \subseteq Reqs /\ children' \in [Reqs -> SUBSET Execs]
        /\ at' \in [Reqs -> Dirs \cup {None}]
    BY <1>5, <1>a DEF MaterializeFails, Park, Destroy, TypeOK
  <2>8. UNCHANGED <<files, unwiped, epc, on, cwd, alive, back>>
    BY <1>5 DEF MaterializeFails, Park, Destroy, calls
  <2>9. TypeOK'
    BY <2>3, <2>4, <2>6, <2>7, <2>8, <1>a DEF TypeOK
  <2> QED BY <2>2, <2>4, <2>5, <2>9 DEF Typed, Asking
<1>6. ASSUME NEW r \in Reqs, RefillCount(r) PROVE Typed'
  <2>1. node[r] \in Nodes /\ refill[r] # NoTask
    BY <1>6, <1>a DEF RefillCount, Typed, TypeOK, Spawned, NoTask
  <2>2. Cardinality(Used(node[r])) \in Nat /\ Cardinality(Used(node[r])) <= Cap
    <3>1. Used(node[r]) \subseteq leased
      BY DEF Used
    <3> QED BY <2>1, <3>1, FS_Subset, FS_CardinalityType DEF Slots, CapacityKept
  <2>3. PICK k \in 0 .. WarmMax : refill' = [refill EXCEPT ![r] = k]
    <3> DEFINE left == Cap - Cardinality(Used(node[r]))
    <3>1. refill' = [refill EXCEPT ![r] = IF left < WarmMax THEN left ELSE WarmMax]
      BY <1>6 DEF RefillCount
    <3>2. left \in Nat
      BY <1>a, <2>2
    <3> HIDE DEF left
    <3>3. (IF left < WarmMax THEN left ELSE WarmMax) \in 0 .. WarmMax
      BY <3>2, <1>a
    <3> QED BY <3>1, <3>3
  <2> QED BY <1>6, <1>a, <2>1, <2>3 DEF RefillCount, engine, calls, TypeOK, Typed
<1>7. ASSUME NEW r \in Reqs, RefillPush(r) PROVE Typed'
  <2>1. node[r] \in Nodes
    BY <1>7, <1>a DEF RefillPush, Typed, TypeOK, NoTask
  <2>2. /\ UNCHANGED <<rpc, ranked, late, leased, node, children, at, calls>>
        /\ \/ /\ warm' = [warm EXCEPT ![node[r]] = Append(warm[node[r]], Fresh)]
              /\ files' = [files EXCEPT ![Fresh] = {}] /\ unwiped' = unwiped \ {Fresh}
              /\ UNCHANGED refill
              /\ Len(warm[node[r]]) < refill[r] /\ refill[r] \in 0 .. WarmMax
           \/ refill' = [refill EXCEPT ![r] = NoTask] /\ UNCHANGED <<warm, files, unwiped>>
    BY <1>7 DEF RefillPush, MadeNew
  <2>3. warm' \in [Nodes -> Pools]
    <3>1. CASE Len(warm[node[r]]) < refill[r] /\ refill[r] \in 0 .. WarmMax
      <4>1. Append(warm[node[r]], Fresh) \in Pools
        <5>1. Len(warm[node[r]]) < WarmMax /\ warm[node[r]] \in Pools
          <6>1. warm[node[r]] \in Pools
            BY <2>1, <1>a
          <6>2. Len(warm[node[r]]) \in Nat
            BY <6>1 DEF Pools
          <6> QED BY <3>1, <6>1, <6>2, <1>a
        <5> QED BY <5>1, <1>a, <1>f, PoolGrows
      <4> QED BY <4>1, <2>1, <2>2, <1>a
    <3>2. CASE UNCHANGED warm
      BY <3>2, <1>a
    <3> QED BY <3>1, <3>2, <2>2
  <2>4. \A m \in Nodes : warm'[m] \in Seq(Dirs) /\ Len(warm'[m]) <= WarmMax
    BY <2>3 DEF Pools
  <2>5. refill' \in [Reqs -> {NoTask, Spawned} \union 0..WarmMax] /\ files' \in [Dirs -> SUBSET Execs]
        /\ unwiped' \subseteq Dirs
    BY <2>2, <1>a, <1>f DEF TypeOK
  <2>6. TypeOK'
    BY <2>2, <2>4, <2>5, <1>a DEF TypeOK, calls
  <2>7. \A q \in Reqs : refill'[q] = refill[q] \/ refill'[q] = NoTask
    BY <2>2, <1>a DEF TypeOK
  <2> QED BY <2>2, <2>3, <2>6, <2>7, <1>a DEF Typed
<1>8. ASSUME NEW r \in Reqs, Abort(r) PROVE Typed'
  BY <1>8, <1>a, BecomeIs DEF Abort, Take, Typed, TypeOK
<1>9. ASSUME NEW e \in Execs, ExecStep(e) \/ \E r \in Reqs : Lookup(e, r) PROVE Typed'
  <2>0. /\ UNCHANGED <<rpc, ranked, late, refill, leased, node, at, warm>>
        /\ epc[e] \notin {"idle", "done"} => on[e] \in Reqs
    BY <1>9, CallsOnly DEF Called
  <2>1. /\ epc' \in [Execs -> {"idle", "ready", "gap", "waiting", "late", "abort", "done"}]
        /\ on' \in [Execs -> Reqs \union {None}]
        /\ cwd' \in [Execs -> Dirs \union {None}]
        /\ alive' \subseteq Execs
        /\ children' \in [Reqs -> SUBSET Execs]
        /\ unwiped' = unwiped
    <3>1. CASE \E r \in Reqs : Lookup(e, r)
      BY <3>1, <1>a DEF Lookup, engine, TypeOK
    <3>2. CASE \/ Spawn(e) \/ Exit(e) \/ TimedOut(e) \/ Disconnect(e) \/ FsTool(e) \/ Write(e)
               \/ Fork(e) \/ LeaveGroup(e)
      <4>1. CASE Spawn(e)
        BY <4>1, <2>0, <1>a DEF Spawn, engine, TypeOK
      <4>2. CASE Exit(e) \/ TimedOut(e) \/ Disconnect(e)
        <5>1. UNCHANGED <<on, cwd, children, unwiped>> /\ alive' = alive \ {e}
          BY <4>2 DEF Exit, TimedOut, Disconnect, engine
        <5>2. epc' = epc \/ epc' = [epc EXCEPT ![e] = "late"] \/ epc' = [epc EXCEPT ![e] = "done"]
          BY <4>2 DEF Exit, TimedOut, Disconnect
        <5>3. epc' \in [Execs -> {"idle", "ready", "gap", "waiting", "late", "abort", "done"}]
          BY <5>2, <1>a DEF TypeOK
        <5> QED BY <5>1, <5>3, <1>a DEF TypeOK
      <4>3. CASE FsTool(e) \/ Write(e)
        BY <4>3, <1>a DEF FsTool, Write, calls, TypeOK
      <4>4. CASE Fork(e) \/ LeaveGroup(e)
        BY <4>4, <1>a DEF Fork, LeaveGroup, engine, TypeOK
      <4> QED BY <3>2, <4>1, <4>2, <4>3, <4>4
    <3>3. CASE Register(e) \/ Clear(e) \/ AbortOwn(e)
      <4>1. UNCHANGED <<on, cwd, unwiped>> /\ alive' \subseteq alive
        BY <3>3 DEF Register, Clear, AbortOwn, Take
      <4>2. epc' \in [Execs -> {"idle", "ready", "gap", "waiting", "late", "abort", "done"}]
        BY <3>3, <1>a DEF Register, Clear, AbortOwn, TypeOK
      <4>3. on[e] \in Reqs
        BY <3>3, <2>0 DEF Register, Clear, AbortOwn
      <4>4. children' = children \/ children' = [children EXCEPT ![on[e]] = @ \union {e}]
            \/ children' = [children EXCEPT ![on[e]] = {}]
        BY <3>3 DEF Register, Clear, AbortOwn, Take
      <4>5. children' \in [Reqs -> SUBSET Execs]
        BY <4>3, <4>4, <1>a DEF TypeOK
      <4> QED BY <4>1, <4>2, <4>5, <1>a DEF TypeOK
    <3> QED BY <1>9, <3>1, <3>2, <3>3 DEF ExecStep
  <2>2. files' \in [Dirs -> SUBSET Execs]
    <3>1. files' = files \/ \E d : files' = [files EXCEPT ![d] = @ \union {e}]
      BY <1>9 DEF ExecStep, Spawn, Register, FsTool, Write, Fork, LeaveGroup, Exit, Clear, TimedOut,
                  AbortOwn, Disconnect, Lookup, engine
    <3> QED BY <3>1, <1>a DEF TypeOK
  <2>b. back' \in [Execs -> {"none", "group", "loose"}]
    <3>1. UNCHANGED back \/ back' = [back EXCEPT ![e] = "group"]
          \/ \E S : Become(S, "loose") \/ Become(S, "none")
      BY <1>9 DEF ExecStep, Spawn, Register, FsTool, Write, Fork, LeaveGroup, Exit, Clear, TimedOut,
                  AbortOwn, Disconnect, Lookup, Take, calls
    <3> QED BY <3>1, <1>a, BecomeIs DEF TypeOK
  <2>3. TypeOK'
    BY <2>0, <2>1, <2>2, <2>b, <1>a DEF TypeOK
  <2> QED BY <2>0, <2>3 DEF Typed
<1>10. CASE UNCHANGED vars
  BY <1>10 DEF vars, calls, Typed, TypeOK
<1> QED
  BY <1>1, <1>2, <1>3, <1>4, <1>5, <1>6, <1>7, <1>8, <1>9, <1>10
     DEF Next, AllocStep, AskStep, ReleaseStep

\* What is in the pools after a directory joins one of them.
LEMMA Joined ==
  ASSUME Typed, WarmMax \in Nat, NEW n \in Nodes, NEW d \in Dirs, Len(warm[n]) < WarmMax,
         warm' = [warm EXCEPT ![n] = Append(@, d)]
  PROVE  \A m \in Nodes : \A i \in 1 .. Len(warm'[m]) :
           \/ i \in 1 .. Len(warm[m]) /\ warm'[m][i] = warm[m][i]
           \/ m = n /\ i = Len(warm[n]) + 1 /\ warm'[m][i] = d
<1>1. warm \in [Nodes -> Pools]
  BY DEF Typed
<1>2. warm[n] \in Pools /\ warm'[n] = Append(warm[n], d) /\ \A m \in Nodes \ {n} : warm'[m] = warm[m]
  BY <1>1
<1>3. /\ Len(warm'[n]) = Len(warm[n]) + 1 /\ Len(warm[n]) \in Nat
      /\ \A i \in 1 .. Len(warm[n]) : warm'[n][i] = warm[n][i]
      /\ warm'[n][Len(warm[n]) + 1] = d
  BY <1>2, PoolGrows
<1> TAKE m \in Nodes
<1> TAKE i \in 1 .. Len(warm'[m])
<1> QED BY <1>2, <1>3

LEMMA InitApart == Init => Apart
BY DEF Init, Apart, Owning

\* A step that moves no directory.
LEMMA StillApart ==
  ASSUME Apart, UNCHANGED <<at, warm>>,
         \A q \in Reqs : rpc'[q] \in Owning => rpc[q] \in Owning
  PROVE  Apart'
BY DEF Apart

LEMMA NextApart ==
  ASSUME Named, EnoughDirs, Typed, Apart, Called, Slots, [Next]_vars
  PROVE  Apart'
<1>a. TypeOK /\ WarmMax \in Nat /\ None \notin Dirs
  BY DEF Typed, Named, ExecEngineAssumption
<1>1. ASSUME NEW r \in Reqs, AskStep(r) PROVE Apart'
  <2>1. UNCHANGED <<at, warm>> /\ \A q \in Reqs : rpc'[q] = rpc[q] \/ rpc'[q] \notin Owning
    BY <1>1, Asks DEF Slots, Asking, Owning, engine
  <2> QED BY <2>1, StillApart
<1>2. ASSUME NEW r \in Reqs, Insert(r) \/ ReleaseRoute(r) \/ Kill(r) \/ Unlease(r) \/ Wipe(r)
      PROVE  Apart'
  <2>1. UNCHANGED <<at, warm>> /\ \A q \in Reqs : rpc'[q] \in Owning => rpc[q] \in Owning
    BY <1>2, <1>a DEF Insert, ReleaseRoute, Kill, Unlease, Wipe, Owning, engine, TypeOK
  <2> QED BY <2>1, StillApart
<1>3. ASSUME NEW r \in Reqs, Materialize(r) PROVE Apart'
  <2>1. /\ at'[r] \in Dirs
        /\ \A q \in Reqs \ {r} : at'[q] \in {at[q], None} /\ at'[q] # at'[r]
        /\ \A q \in Reqs \ {r} : rpc[q] \in Owning => at'[q] = at[q]
        /\ \A m \in Nodes : \A i \in 1 .. Len(warm'[m]) :
             i \in 1 .. Len(warm[m]) /\ warm'[m][i] = warm[m][i] /\ warm'[m][i] # at'[r]
    BY <1>3, Given
  <2>2. \A q \in Reqs \ {r} : rpc'[q] = rpc[q]
    BY <1>3, <1>a DEF Materialize, TypeOK
  <2>3. \A q, x \in Reqs : q # x /\ at'[q] # None => at'[x] # at'[q]
    <3> SUFFICES ASSUME NEW q \in Reqs, NEW x \in Reqs, q # x, at'[q] # None PROVE at'[x] # at'[q]
      OBVIOUS
    <3>1. CASE q = r \/ x = r
      BY <3>1, <2>1
    <3>2. CASE q # r /\ x # r
      <4>1. at'[q] = at[q] /\ at'[x] \in {at[x], None}
        BY <3>2, <2>1
      <4> QED BY <4>1 DEF Apart
    <3> QED BY <3>1, <3>2
  <2>4. \A q \in Reqs : rpc'[q] \in Owning =>
       at'[q] # None /\ \A n \in Nodes : \A i \in 1 .. Len(warm'[n]) : warm'[n][i] # at'[q]
    <3> SUFFICES ASSUME NEW q \in Reqs, rpc'[q] \in Owning
                 PROVE  at'[q] # None /\ \A n \in Nodes : \A i \in 1 .. Len(warm'[n]) : warm'[n][i] # at'[q]
      OBVIOUS
    <3>1. CASE q = r
      BY <3>1, <2>1, <1>a
    <3>2. CASE q # r
      <4>1. rpc[q] \in Owning /\ at'[q] = at[q]
        BY <3>2, <2>1, <2>2
      <4> QED BY <4>1, <2>1 DEF Apart
    <3> QED BY <3>1, <3>2
  <2>5. \A m, n \in Nodes : \A i \in 1 .. Len(warm'[m]) : \A j \in 1 .. Len(warm'[n]) :
          warm'[m][i] = warm'[n][j] => m = n /\ i = j
    BY <2>1 DEF Apart
  <2> QED BY <2>3, <2>4, <2>5 DEF Apart
<1>4. ASSUME NEW r \in Reqs, MaterializeFails(r) \/ Park(r) \/ Destroy(r) PROVE Apart'
  <2>1. PICK x \in {"failed", "gone"} : rpc' = Notify(node[r], [rpc EXCEPT ![r] = x])
    BY <1>4 DEF MaterializeFails, Park, Destroy
  <2>2. \A q \in Reqs : rpc'[q] \in Owning => q # r /\ rpc[q] \in Owning
    BY <2>1, Notified DEF Slots, Owning
  <2>3. CASE UNCHANGED <<at, warm>>
    BY <2>2, <2>3, StillApart
  <2>4. CASE at' = [at EXCEPT ![r] = None] /\ UNCHANGED warm
    <3>1. at'[r] = None /\ \A q \in Reqs \ {r} : at'[q] = at[q]
      BY <2>4, <1>a DEF TypeOK
    <3> QED BY <2>2, <2>4, <3>1 DEF Apart
  <2>5. CASE Park(r) /\ Len(warm[node[r]]) < WarmMax
    <3>1. /\ warm' = [warm EXCEPT ![node[r]] = Append(@, at[r])] /\ UNCHANGED at
          /\ node[r] \in Nodes /\ rpc[r] \in Owning
      BY <2>5, <1>a DEF Park, Owning, Asking, Typed, TypeOK
    <3>2. /\ at[r] \in Dirs /\ \A q \in Reqs : q # r /\ rpc[q] \in Owning => at[q] # at[r]
          /\ \A n \in Nodes : \A i \in 1 .. Len(warm[n]) : warm[n][i] # at[r]
      BY <3>1, <1>a DEF Apart, TypeOK
    <3>3. \A m \in Nodes : \A i \in 1 .. Len(warm'[m]) :
           \/ i \in 1 .. Len(warm[m]) /\ warm'[m][i] = warm[m][i]
           \/ m = node[r] /\ i = Len(warm[node[r]]) + 1 /\ warm'[m][i] = at[r]
      BY <2>5, <3>1, <3>2, <1>a, Joined
    <3>4. \A m, n \in Nodes : \A i \in 1 .. Len(warm'[m]) : \A j \in 1 .. Len(warm'[n]) :
          warm'[m][i] = warm'[n][j] => m = n /\ i = j
      BY <3>2, <3>3 DEF Apart
    <3>5. \A q \in Reqs : rpc'[q] \in Owning =>
       at'[q] # None /\ \A n \in Nodes : \A i \in 1 .. Len(warm'[n]) : warm'[n][i] # at'[q]
      BY <2>2, <3>1, <3>2, <3>3 DEF Apart
    <3> QED BY <3>1, <3>4, <3>5 DEF Apart
  <2> QED BY <1>4, <2>3, <2>4, <2>5 DEF MaterializeFails, Park, Destroy
<1>5. ASSUME NEW r \in Reqs, RefillPush(r) PROVE Apart'
  <2>1. UNCHANGED <<rpc, at>>
    BY <1>5 DEF RefillPush
  <2>2. CASE Len(warm[node[r]]) < refill[r]
    <3>1. /\ warm' = [warm EXCEPT ![node[r]] = Append(@, Fresh)] /\ node[r] \in Nodes
          /\ refill[r] \in 0 .. WarmMax
      BY <1>5, <2>2, <1>a DEF RefillPush, Typed, TypeOK, NoTask
    <3>2. /\ Fresh \in Dirs /\ \A q \in Reqs : at[q] # Fresh
          /\ \A m \in Nodes : \A i \in 1 .. Len(warm[m]) : warm[m][i] # Fresh
      BY FreshIs
    <3>3. Len(warm[node[r]]) < WarmMax
      <4>1. Len(warm[node[r]]) \in Nat
        BY <3>1 DEF Typed, Pools
      <4> QED BY <2>2, <3>1, <4>1, <1>a
    <3>4. \A m \in Nodes : \A i \in 1 .. Len(warm'[m]) :
           \/ i \in 1 .. Len(warm[m]) /\ warm'[m][i] = warm[m][i]
           \/ m = node[r] /\ i = Len(warm[node[r]]) + 1 /\ warm'[m][i] = Fresh
      BY <3>1, <3>2, <3>3, <1>a, Joined
    <3>5. \A m, n \in Nodes : \A i \in 1 .. Len(warm'[m]) : \A j \in 1 .. Len(warm'[n]) :
          warm'[m][i] = warm'[n][j] => m = n /\ i = j
      <4>0. \A m, n \in Nodes : \A i \in 1 .. Len(warm[m]) : \A j \in 1 .. Len(warm[n]) :
              warm[m][i] = warm[n][j] => m = n /\ i = j
        BY DEF Apart
      <4> TAKE m, n \in Nodes
      <4> TAKE i \in 1 .. Len(warm'[m])
      <4> TAKE j \in 1 .. Len(warm'[n])
      <4>1. CASE i \in 1 .. Len(warm[m]) /\ j \in 1 .. Len(warm[n])
                 /\ warm'[m][i] = warm[m][i] /\ warm'[n][j] = warm[n][j]
        <5> SUFFICES ASSUME warm'[m][i] = warm'[n][j] PROVE m = n /\ i = j
          OBVIOUS
        <5>1. warm[m][i] = warm[n][j]
          BY <4>1
        <5>2. i \in 1 .. Len(warm[m]) /\ j \in 1 .. Len(warm[n])
          BY <4>1
        <5> QED BY <4>0, <5>1, <5>2, Zenon
      <4>2. CASE warm'[m][i] = Fresh /\ m = node[r] /\ i = Len(warm[node[r]]) + 1
        BY <4>2, <3>2, <3>4
      <4>3. CASE warm'[n][j] = Fresh /\ n = node[r] /\ j = Len(warm[node[r]]) + 1
        BY <4>3, <3>2, <3>4
      <4>4. /\ (i \in 1 .. Len(warm[m]) /\ warm'[m][i] = warm[m][i])
               \/ (warm'[m][i] = Fresh /\ m = node[r] /\ i = Len(warm[node[r]]) + 1)
            /\ (j \in 1 .. Len(warm[n]) /\ warm'[n][j] = warm[n][j])
               \/ (warm'[n][j] = Fresh /\ n = node[r] /\ j = Len(warm[node[r]]) + 1)
        BY <3>4
      <4> QED BY <4>1, <4>2, <4>3, <4>4
    <3>6. \A q \in Reqs : rpc'[q] \in Owning =>
       at'[q] # None /\ \A n \in Nodes : \A i \in 1 .. Len(warm'[n]) : warm'[n][i] # at'[q]
      BY <2>1, <3>2, <3>4 DEF Apart
    <3> QED BY <2>1, <3>5, <3>6 DEF Apart
  <2>3. CASE ~(Len(warm[node[r]]) < refill[r])
    BY <1>5, <2>1, <2>3, StillApart DEF RefillPush
  <2> QED BY <2>2, <2>3
<1>6. ASSUME NEW r \in Reqs, RefillCount(r) \/ Abort(r) PROVE Apart'
  BY <1>6, StillApart DEF RefillCount, Abort, engine
<1>7. ASSUME NEW e \in Execs, ExecStep(e) \/ \E r \in Reqs : Lookup(e, r) PROVE Apart'
  BY <1>7, CallsOnly, StillApart
<1>8. CASE UNCHANGED vars
  BY <1>8, StillApart DEF vars
<1> QED
  BY <1>1, <1>2, <1>3, <1>4, <1>5, <1>6, <1>7, <1>8 DEF Next, AllocStep, AskStep, ReleaseStep

-----------------------------------------------------------------------------
(* Calls *)

LEMMA InitCalled == Init => Called
BY DEF Init, Called, Bound

\* A step of the requests: the calls stay where they are, or die.
LEMMA StillCalled ==
  ASSUME Called, UNCHANGED <<epc, on, cwd>>, alive' \subseteq alive, Bound' \subseteq Bound,
         \A e \in Execs : back'[e] # "none" => back[e] # "none",
         \A e \in Execs : epc[e] \in {"ready", "gap"} => rpc'[on[e]] = "held",
         \A e \in Bound' : /\ at'[on[e]] = at[on[e]] /\ rpc'[on[e]] \in {"held", "kill", "destroy"}
                           /\ epc[e] # "gap" => e \in children'[on[e]]
  PROVE  Called'
BY DEF Called

\* A request that moves no call of its own leaves the others alone.
LEMMA OthersCalled ==
  ASSUME Called, TypeOK, NEW r \in Reqs, UNCHANGED calls,
         rpc[r] \notin {"held", "kill", "destroy"},
         \A q \in Reqs \ {r} : rpc'[q] = rpc[q] \/ rpc[q] \notin {"held", "kill", "destroy"},
         \A q \in Reqs \ {r} : rpc[q] \in Owning => at'[q] = at[q],
         \A q \in Reqs \ {r} : children'[q] = children[q]
  PROVE  Called'
<1>0. UNCHANGED <<epc, on, cwd, alive, back>> /\ Bound' = Bound
  BY DEF calls, Bound
<1>1. \A e \in Bound : e \in Execs /\ on[e] \in Reqs /\ rpc[on[e]] \in {"held", "kill", "destroy"} /\ on[e] # r
  BY DEF Called, TypeOK, Bound
<1>2. \A e \in Execs : epc[e] \in {"ready", "gap"} =>
        on[e] \in Reqs /\ rpc[on[e]] = "held" /\ on[e] # r
  BY DEF Called
<1>3. \A e \in Bound : /\ at'[on[e]] = at[on[e]] /\ rpc'[on[e]] = rpc[on[e]]
                       /\ children'[on[e]] = children[on[e]]
  BY <1>1 DEF Owning
<1>4. \A e \in Execs : epc[e] \in {"ready", "gap"} => rpc'[on[e]] = "held"
  BY <1>2
<1>5. \A e \in Bound : epc[e] # "gap" => e \in children'[on[e]]
  BY <1>3 DEF Called
<1> QED BY <1>0, <1>1, <1>3, <1>4, <1>5, StillCalled

LEMMA NextCalled ==
  ASSUME Named, EnoughDirs, Typed, Apart, Called, Slots, Overlap = {}, [Next]_vars
  PROVE  Called'
<1>a. TypeOK
  BY DEF Typed
<1>b. /\ \A e \in Bound : /\ e \in Execs /\ on[e] \in Reqs /\ cwd[e] = at[on[e]]
                          /\ rpc[on[e]] \in {"held", "kill", "destroy"}
                          /\ epc[e] # "gap" => e \in children[on[e]]
      /\ \A e \in alive : e \in Execs /\ epc[e] \in {"gap", "waiting"}
  BY <1>a DEF Called, TypeOK, Bound
<1>1. ASSUME NEW r \in Reqs, AskStep(r) PROVE Called'
  <2>1. /\ UNCHANGED <<at, children, calls>>
        /\ rpc[r] \notin {"held", "kill", "destroy"}
        /\ \A q \in Reqs \ {r} : rpc'[q] = rpc[q]
    BY <1>1, Asks DEF Slots, Asking, engine
  <2> QED BY <2>1, <1>a, OthersCalled
<1>2. ASSUME NEW r \in Reqs, Insert(r) \/ Unlease(r) \/ Wipe(r) \/ RefillCount(r) \/ RefillPush(r)
      PROVE  Called'
  <2>1. /\ UNCHANGED <<at, epc, on, cwd, alive, back>>
        /\ \A q \in Reqs : rpc[q] \in {"held", "kill", "destroy"} => rpc'[q] = rpc[q] /\ children'[q] = children[q]
    BY <1>2, <1>a DEF Insert, Unlease, Wipe, RefillCount, RefillPush, engine, calls, TypeOK
  <2>2. Bound' = Bound /\ \A e \in Bound : epc[e] # "gap" => e \in children'[on[e]]
    BY <2>1, <1>b DEF Bound
  <2>3. \A e \in Execs : epc[e] \in {"ready", "gap"} => rpc'[on[e]] = "held"
    BY <2>1 DEF Called
  <2> QED BY <2>1, <2>2, <2>3, <1>b, StillCalled
<1>3. ASSUME NEW r \in Reqs, Materialize(r) PROVE Called'
  <2>1. \A q \in Reqs \ {r} : rpc[q] \in Owning => at'[q] = at[q]
    BY <1>3, Given
  <2>2. /\ UNCHANGED <<children, calls>> /\ rpc[r] = "inserted"
        /\ \A q \in Reqs \ {r} : rpc'[q] = rpc[q]
    BY <1>3, <1>a DEF Materialize, TypeOK
  <2> QED BY <2>1, <2>2, <1>a, OthersCalled
<1>4. ASSUME NEW r \in Reqs, MaterializeFails(r) \/ Park(r) \/ Destroy(r) PROVE Called'
  <2>1. PICK x \in {"failed", "gone"} : rpc' = Notify(node[r], [rpc EXCEPT ![r] = x])
    BY <1>4 DEF MaterializeFails, Park, Destroy
  <2>2. \A q \in Reqs \ {r} : rpc'[q] = rpc[q] \/ rpc[q] \notin {"held", "kill", "destroy"}
    BY <2>1, Notified DEF Slots
  <2>3. /\ UNCHANGED calls /\ rpc[r] \notin {"held", "kill", "destroy"}
        /\ \A q \in Reqs \ {r} : at'[q] = at[q] /\ children'[q] = children[q]
    BY <1>4, <1>a DEF MaterializeFails, Park, Destroy, TypeOK
  <2> QED BY <2>2, <2>3, <1>a, OthersCalled
<1>5. ASSUME NEW r \in Reqs, ReleaseRoute(r) PROVE Called'
  <2>1. \A e \in Busy(r) : epc[e] \notin {"ready", "gap"}
    BY <1>5 DEF ReleaseRoute
  <2>2. /\ UNCHANGED <<at, children, epc, on, cwd, alive, back>>
        /\ rpc'[r] \in {"kill", "destroy"} /\ \A q \in Reqs \ {r} : rpc'[q] = rpc[q]
    BY <1>5, <1>a DEF ReleaseRoute, engine, calls, TypeOK
  <2>3. \A e \in Execs : epc[e] \in {"ready", "gap"} => rpc'[on[e]] = "held"
    <3> SUFFICES ASSUME NEW e \in Execs, epc[e] \in {"ready", "gap"} PROVE rpc'[on[e]] = "held"
      OBVIOUS
    <3>1. on[e] \in Reqs /\ rpc[on[e]] = "held" /\ on[e] # r
      BY <2>1 DEF Called, Busy
    <3> QED BY <2>2, <3>1
  <2>4. \A e \in Bound : rpc'[on[e]] \in {"held", "kill", "destroy"}
    BY <1>b, <2>2
  <2>5. Bound' = Bound
    BY <2>2 DEF Bound
  <2> QED BY <2>2, <2>3, <2>4, <2>5, <1>b, StillCalled
<1>6. ASSUME NEW r \in Reqs, Kill(r) \/ Abort(r) PROVE Called'
  <2>1. /\ UNCHANGED <<at, epc, on, cwd>> /\ r \in leased
        /\ alive' = alive \ children[r] /\ children' = [children EXCEPT ![r] = {}]
        /\ Become(children[r], "none")
        /\ \A q \in Reqs \ {r} : rpc'[q] = rpc[q]
        /\ rpc[r] # "held" \/ rpc'[r] = rpc[r]
    BY <1>6, <1>a DEF Kill, Abort, Take, Listed, TypeOK, Slots, Holding
  <2>2. \A e \in Execs : epc[e] \in {"ready", "gap"} => rpc'[on[e]] = "held"
    BY <2>1 DEF Called
  <2>3. /\ \A e \in Bound' : e \in Bound /\ e \notin children[r]
        /\ \A e \in Execs : back'[e] # "none" => back[e] # "none"
    BY <2>1, <1>a, BecomeIs DEF Bound, TypeOK
  <2>4. ASSUME NEW e \in Bound'
        PROVE  /\ rpc'[on[e]] \in {"held", "kill", "destroy"}
               /\ epc[e] # "gap" => e \in children'[on[e]]
    <3>1. e \in Bound /\ e \notin children[r]
      BY <2>3
    <3>2. CASE on[e] = r
      <4>1. epc[e] = "gap" /\ rpc[r] = "held"
        BY <3>1, <3>2, <1>b DEF Called
      <4> QED BY <4>1, <2>1, <3>2
    <3>3. CASE on[e] # r
      <4>1. on[e] \in Reqs \ {r} /\ children'[on[e]] = children[on[e]]
        BY <2>1, <3>1, <3>3, <1>a, <1>b DEF TypeOK
      <4> QED BY <4>1, <2>1, <3>1, <1>b
    <3> QED BY <3>2, <3>3
  <2> QED BY <2>1, <2>2, <2>3, <2>4, StillCalled
<1>7. ASSUME NEW e \in Execs, ExecStep(e) \/ \E r \in Reqs : Lookup(e, r) PROVE Called'
  <2>0. UNCHANGED <<rpc, ranked, late, refill, leased, node, at, warm>>
    BY <1>7, CallsOnly
  <2>a. /\ epc \in [Execs -> {"idle", "ready", "gap", "waiting", "late", "abort", "done"}]
        /\ on \in [Execs -> Reqs \union {None}] /\ cwd \in [Execs -> Dirs \union {None}]
        /\ children \in [Reqs -> SUBSET Execs] /\ alive \subseteq Execs
        /\ back \in [Execs -> {"none", "group", "loose"}]
    BY <1>a DEF TypeOK
  <2>1. CASE \E r \in Reqs : Lookup(e, r)
    <3>1. PICK r \in Reqs : Lookup(e, r)
      BY <2>1
    <3>2. /\ epc[e] = "idle" /\ Busy(r) = {} /\ UNCHANGED <<cwd, alive, back, children>>
          /\ on' = [on EXCEPT ![e] = r]
          /\ epc' = [epc EXCEPT ![e] = IF r \in leased THEN "ready" ELSE "done"]
          /\ r \in leased => rpc[r] = "held"
      BY <3>1 DEF Lookup, engine, Slots, Holding, Handles
    <3>3. Bound' = Bound /\ e \notin Bound /\ back[e] = "none"
      BY <3>2 DEF Called, Bound
    <3>4. /\ on'[e] = r /\ epc'[e] \in {"ready", "done"}
          /\ epc'[e] = "ready" => rpc[r] = "held"
          /\ \A f \in Execs \ {e} : on'[f] = on[f] /\ epc'[f] = epc[f]
      BY <3>2, <2>a
    <3>5. \A f \in Execs : epc[f] \notin {"idle", "done"} => on[f] # r
      BY <3>2 DEF Busy
    <3>6. \A x, f \in Execs : epc'[x] \notin {"idle", "done"} /\ epc'[f] \notin {"idle", "done"}
                              /\ on'[x] = on'[f] => x = f
      <4> SUFFICES ASSUME NEW x \in Execs, NEW f \in Execs, epc'[x] \notin {"idle", "done"},
                          epc'[f] \notin {"idle", "done"}, on'[x] = on'[f], x # f
                   PROVE  FALSE
        OBVIOUS
      <4>1. CASE x # e /\ f # e
        BY <4>1, <3>4 DEF Called
      <4>2. CASE x = e
        BY <4>2, <3>4, <3>5
      <4>3. CASE f = e
        BY <4>3, <3>4, <3>5
      <4> QED BY <4>1, <4>2, <4>3
    <3>7. /\ \A f \in Execs : epc'[f] \notin {"idle", "done"} => on'[f] \in Reqs
          /\ \A f \in Execs : epc'[f] \in {"ready", "gap"} => rpc'[on'[f]] = "held"
          /\ \A f \in Execs : back'[f] # "none" => epc'[f] \notin {"idle", "ready"}
      BY <2>0, <3>2, <3>3, <3>4 DEF Called
    <3>8. /\ \A f \in alive' : epc'[f] \in {"gap", "waiting"}
          /\ \A f \in Bound' : /\ on'[f] \in Reqs /\ cwd'[f] = at'[on'[f]]
                               /\ rpc'[on'[f]] \in {"held", "kill", "destroy"}
                               /\ epc'[f] # "gap" => f \in children'[on'[f]]
      <4>1. \A f \in Bound : f \in Execs \ {e}
        BY <3>3, <1>b
      <4>2. alive \subseteq Bound
        BY DEF Bound
      <4> QED BY <2>0, <3>2, <3>3, <3>4, <4>1, <4>2, <1>b
    <3> QED BY <3>6, <3>7, <3>8 DEF Called
  <2>2. ASSUME UNCHANGED on, epc[e] # "idle", epc'[e] \notin {"idle", "ready"},
               epc[e] = "done" => epc'[e] = "done",
               \A f \in Execs \ {e} : /\ epc'[f] = epc[f] /\ cwd'[f] = cwd[f]
                                      /\ f \in alive' => f \in alive
                                      /\ back'[f] # "none" => back[f] # "none"
                                      /\ f \in Bound' => /\ f \in Bound
                                                         /\ epc[f] # "gap" => f \in children'[on[f]],
               epc'[e] = "gap" => epc[e] \in {"ready", "gap"},
               e \in alive' => epc'[e] \in {"gap", "waiting"},
               e \in Bound' => /\ on[e] \in Reqs /\ cwd'[e] = at[on[e]]
                               /\ rpc[on[e]] \in {"held", "kill", "destroy"}
                               /\ epc'[e] # "gap" => e \in children'[on[e]],
               alive' \subseteq Execs
        PROVE  Called'
    <3>1. \A x \in Execs : epc'[x] \notin {"idle", "done"} => epc[x] \notin {"idle", "done"}
      BY <2>2
    <3>2. \A x, f \in Execs : epc'[x] \notin {"idle", "done"} /\ epc'[f] \notin {"idle", "done"}
                              /\ on[x] = on[f] => x = f
      BY <3>1 DEF Called
    <3>3. /\ \A f \in Execs : epc'[f] \notin {"idle", "done"} => on[f] \in Reqs
          /\ \A f \in Execs : epc'[f] \in {"ready", "gap"} => rpc[on[f]] = "held"
          /\ \A f \in Execs : back'[f] # "none" => epc'[f] \notin {"idle", "ready"}
      BY <3>1, <2>2 DEF Called
    <3>4. \A f \in alive' : epc'[f] \in {"gap", "waiting"}
      BY <2>2 DEF Called
    <3>5. \A f \in Bound' : /\ on[f] \in Reqs /\ cwd'[f] = at[on[f]]
                            /\ rpc[on[f]] \in {"held", "kill", "destroy"}
                            /\ epc'[f] # "gap" => f \in children'[on[f]]
      <4>1. \A f \in Bound' : f \in Execs
        BY <2>2 DEF Bound
      <4> QED BY <4>1, <2>2, <1>b
    <3> QED BY <3>2, <3>3, <3>4, <3>5, <2>0, <2>2 DEF Called
  <2>3. CASE Spawn(e) \/ FsTool(e)
    <3>1. /\ epc[e] = "ready" /\ on[e] \in Reqs /\ rpc[on[e]] = "held"
          /\ e \notin alive /\ back[e] = "none"
      BY <2>3 DEF Spawn, FsTool, Called
    <3>2. /\ UNCHANGED <<on, children, back>> /\ epc'[e] \in {"gap", "done"}
          /\ \A f \in Execs \ {e} : epc'[f] = epc[f] /\ cwd'[f] = cwd[f]
          /\ alive' \subseteq alive \cup {e}
          /\ e \in alive' => epc'[e] = "gap" /\ cwd'[e] = at[on[e]]
      BY <2>3, <2>a, <3>1 DEF Spawn, FsTool, engine
    <3>3. \A f \in Execs \ {e} : f \in Bound' => f \in Bound /\ (epc[f] # "gap" => f \in children'[on[f]])
      BY <3>2, <1>b DEF Bound
    <3>4. e \in Bound' => e \in alive'
      BY <3>1, <3>2, <2>a DEF Bound
    <3> QED BY <2>2, <3>1, <3>2, <3>3, <3>4, <2>a
  <2>4. CASE Register(e)
    <3>1. epc[e] = "gap" /\ on[e] \in Reqs /\ rpc[on[e]] = "held" /\ on[e] \in leased
      BY <2>4 DEF Register, Called, Slots, Holding
    <3>2. /\ UNCHANGED <<on, cwd, alive, back>> /\ epc'[e] = "waiting"
          /\ \A f \in Execs \ {e} : epc'[f] = epc[f]
          /\ children' = [children EXCEPT ![on[e]] = @ \union {e}]
      BY <2>4, <2>a, <3>1 DEF Register
    <3>3. /\ e \in children'[on[e]] /\ Bound' = Bound
          /\ \A f \in Bound : epc[f] # "gap" => f \in children'[on[f]]
      BY <3>1, <3>2, <2>a, <1>b DEF Bound
    <3> QED BY <2>2, <3>1, <3>2, <3>3, <2>a, <1>b
  <2>5. CASE Write(e)
    <3>1. UNCHANGED <<epc, on, cwd, alive, back, children>>
      BY <2>5 DEF Write, calls
    <3> QED BY <3>1, <2>0 DEF Called, Bound
  <2>6. CASE Exit(e) \/ TimedOut(e) \/ Fork(e) \/ LeaveGroup(e)
    <3>1. /\ UNCHANGED <<on, cwd, children>> /\ alive' \subseteq alive
          /\ epc[e] \notin {"idle", "ready"}
          /\ epc'[e] = epc[e] \/ (epc[e] = "waiting" /\ epc'[e] = "late" /\ e \notin alive')
          /\ \A f \in Execs \ {e} : epc'[f] = epc[f] /\ back'[f] = back[f]
          /\ back'[e] = "group" => e \in Bound
      <4>1. epc[e] \notin {"idle", "ready"} /\ UNCHANGED <<on, cwd, children>>
        <5>1. e \in alive \/ epc[e] = "waiting" \/ back[e] = "group"
          BY <2>6 DEF Exit, TimedOut, Fork, LeaveGroup
        <5>2. UNCHANGED <<on, cwd, children>>
          BY <2>6 DEF Exit, TimedOut, Fork, LeaveGroup, engine
        <5> QED BY <5>1, <5>2, <1>b DEF Called
      <4>2. CASE Exit(e)
        <5>1. UNCHANGED <<epc, back>> /\ alive' = alive \ {e}
          BY <4>2 DEF Exit
        <5> QED BY <4>1, <5>1 DEF Bound
      <4>5. CASE TimedOut(e)
        <5>1. UNCHANGED back /\ alive' = alive \ {e} /\ epc[e] = "waiting" /\ epc' = [epc EXCEPT ![e] = "late"]
          BY <4>5 DEF TimedOut
        <5> QED BY <4>1, <5>1, <2>a DEF Bound
      <4>3. CASE Fork(e)
        <5>1. UNCHANGED <<epc, alive>> /\ e \in Bound /\ back' = [back EXCEPT ![e] = "group"]
          BY <4>3 DEF Fork, Bound
        <5> QED BY <4>1, <5>1, <2>a
      <4>4. CASE LeaveGroup(e)
        <5>1. UNCHANGED <<epc, alive>> /\ back' = [back EXCEPT ![e] = "loose"]
          BY <4>4, <2>a DEF LeaveGroup, Become
        <5> QED BY <4>1, <5>1, <2>a
      <4> QED BY <2>6, <4>2, <4>3, <4>4, <4>5
    <3>2. \A f \in Bound' : f \in Bound
      BY <3>1, <2>a DEF Bound
    <3>3. e \in alive' => epc'[e] \in {"gap", "waiting"}
      BY <3>1, <1>b
    <3>4. e \in Bound' => /\ on[e] \in Reqs /\ cwd'[e] = at[on[e]]
                          /\ rpc[on[e]] \in {"held", "kill", "destroy"}
                          /\ epc'[e] # "gap" => e \in children'[on[e]]
      BY <3>1, <3>2, <1>b
    <3> QED BY <2>2, <3>1, <3>2, <3>3, <3>4, <2>a, <1>b
  <2>7. CASE Disconnect(e)
    <3>1. /\ UNCHANGED <<on, cwd, children>> /\ alive' = alive \ {e}
          /\ epc[e] \in {"ready", "gap", "waiting"} /\ epc'[e] = "done"
          /\ Become(IF epc[e] = "gap" THEN {e} ELSE {}, "loose")
          /\ \A f \in Execs \ {e} : epc'[f] = epc[f]
      BY <2>7, <2>a DEF Disconnect, engine
    <3>2. \A f \in Execs : /\ back'[f] # "none" => back[f] # "none"
                           /\ back'[f] = "group" => back[f] = "group" /\ (f = e => epc[e] # "gap")
      BY <3>1, <2>a, BecomeIs
    <3>3. \A f \in Bound' : f \in Bound /\ (f = e => epc[e] # "gap")
      BY <3>1, <3>2 DEF Bound
    <3> QED BY <2>2, <3>1, <3>2, <3>3, <2>a, <1>b
  <2>8. CASE Clear(e) \/ AbortOwn(e)
    <3>1. /\ UNCHANGED <<on, cwd>> /\ e \notin alive /\ alive' \subseteq alive
          /\ epc[e] \in {"late", "waiting", "abort"} /\ epc'[e] \in {"abort", "done"}
          /\ \A f \in Execs \ {e} : epc'[f] = epc[f]
      BY <2>8, <2>a DEF Clear, AbortOwn, Take, Called
    <3>2. PICK x \in {"none", "loose"} : Become(Listed(on[e]), x)
      BY <2>8 DEF Clear, AbortOwn, Take
    <3>3. on[e] \in Reqs /\ \A f \in alive : f # e /\ on[f] # on[e]
      BY <3>1, <1>b DEF Called
    <3>4. \A f \in Execs : /\ back'[f] # "none" => back[f] # "none"
                           /\ back'[f] = "group" => back[f] = "group" /\ f \notin Listed(on[e])
      BY <3>2, <2>a, BecomeIs
    <3>5. \A f \in Bound' : f \in Bound /\ (f \in alive \/ f \notin Listed(on[e]))
      BY <3>1, <3>4 DEF Bound
    <3>6. \A f \in Bound' : epc[f] # "gap" => on[f] # on[e]
      <4> SUFFICES ASSUME NEW f \in Bound', epc[f] # "gap", on[f] = on[e] PROVE FALSE
        OBVIOUS
      <4>1. f \in Bound /\ f \notin alive /\ f \notin Listed(on[e])
        BY <3>3, <3>5
      <4>2. on[e] \in leased /\ f \in children[on[e]]
        BY <4>1, <1>b DEF Slots, Holding
      <4> QED BY <4>1, <4>2 DEF Listed
    <3>7. \A q \in Reqs \ {on[e]} : children'[q] = children[q]
      BY <2>8, <2>a DEF Clear, AbortOwn, Take
    <3>8. \A f \in Bound' : epc[f] # "gap" => f # e /\ f \in children'[on[f]]
      BY <3>5, <3>6, <3>7, <1>b
    <3>9. e \notin Bound'
      BY <3>1, <3>8
    <3> QED BY <2>2, <3>1, <3>4, <3>5, <3>8, <3>9, <2>a
  <2> QED BY <1>7, <2>1, <2>3, <2>4, <2>5, <2>6, <2>7, <2>8 DEF ExecStep
<1>8. CASE UNCHANGED vars
  BY <1>8 DEF vars, Called, Bound
<1> QED
  BY <1>1, <1>2, <1>3, <1>4, <1>5, <1>6, <1>7, <1>8 DEF Next, AllocStep, AskStep, ReleaseStep

-----------------------------------------------------------------------------
(* What is in the directories *)

LEMMA InitClean == Init => Clean
BY DEF Init, Clean, Owning

\* Who is loose stays so, and a directory stays unwiped.
Excusing(S) == /\ \A e \in Execs : back[e] = "loose" => back'[e] = "loose"
               /\ \A d \in Dirs \ S : d \in unwiped => d \in unwiped'

\* A step that writes nothing, and gives no directory away.
LEMMA StillClean ==
  ASSUME Clean, TypeOK, Apart, UNCHANGED <<files, at, warm, on>>, unwiped' = unwiped, Excusing({}),
         \A n \in Nodes : \A i \in 1 .. Len(warm[n]) : warm[n][i] \in Dirs,
         \A q \in Reqs : rpc'[q] \in Owning => rpc[q] \in Owning,
         \A q \in Reqs : rpc'[q] = "park" => rpc[q] = "park",
         \A e \in Execs : epc'[e] = "idle" => epc[e] = "idle"
  PROVE  Clean'
<1>1. \A d \in Dirs : files[d] \subseteq Execs
  BY DEF TypeOK
<1>2. \A d \in Dirs : \A e \in files[d] : Excused(e, d) => (back'[e] = "loose" \/ d \in unwiped')
  BY <1>1 DEF Excused, Excusing
<1>3. \A q \in Reqs : rpc[q] \in Owning \cup {"park"} => at[q] \in Dirs
  BY DEF Apart, TypeOK, Owning
<1>4. \A q \in Reqs : rpc'[q] \in Owning =>
        \A e \in files[at[q]] : on[e] = q \/ back'[e] = "loose" \/ at[q] \in unwiped'
  BY <1>2, <1>3 DEF Clean
<1>5. \A q \in Reqs : rpc'[q] = "park" =>
        \A e \in files[at[q]] : back'[e] = "loose" \/ at[q] \in unwiped'
  BY <1>2, <1>3 DEF Clean
<1>6. \A n \in Nodes : \A i \in 1 .. Len(warm[n]) :
        \A e \in files[warm[n][i]] : back'[e] = "loose" \/ warm[n][i] \in unwiped'
  BY <1>2 DEF Clean
<1>7. \A d \in Dirs : \A e \in files[d] : epc'[e] # "idle"
  BY <1>1 DEF Clean
<1> QED BY <1>4, <1>5, <1>6, <1>7 DEF Clean, Excused

\* A call writes where it holds the handle, or it is a loose process that writes.
LEMMA WritesClean ==
  ASSUME Clean, TypeOK, Apart, NEW e \in Execs, NEW d \in Dirs, epc[e] # "idle",
         files' = [files EXCEPT ![d] = @ \union {e}],
         UNCHANGED <<rpc, at, warm, on>>, unwiped' = unwiped, Excusing({}),
         \A n \in Nodes : \A i \in 1 .. Len(warm[n]) : warm[n][i] \in Dirs,
         \A f \in Execs : epc'[f] = "idle" => epc[f] = "idle",
         \/ back[e] = "loose"
         \/ on[e] \in Reqs /\ d = at[on[e]] /\ rpc[on[e]] \in Owning \ {"park"}
  PROVE  Clean'
<1>1. \A x \in Dirs : \A f \in files'[x] : f \in Execs /\ (f \in files[x] \/ (f = e /\ x = d))
  BY DEF TypeOK
<1>2. \A x \in Dirs : \A f \in Execs : Excused(f, x) => (back'[f] = "loose" \/ x \in unwiped')
  BY DEF Excused, Excusing
<1>3. \A q \in Reqs : rpc[q] \in Owning => at[q] \in Dirs
  BY DEF Apart, TypeOK
<1>4. ASSUME NEW q \in Reqs, rpc[q] \in Owning, NEW f \in files'[at[q]]
      PROVE  /\ on[f] = q \/ back'[f] = "loose" \/ at[q] \in unwiped'
             /\ rpc[q] = "park" => back'[f] = "loose" \/ at[q] \in unwiped'
  <2>1. at[q] \in Dirs /\ f \in Execs /\ (f \in files[at[q]] \/ (f = e /\ at[q] = d))
    BY <1>1, <1>3, <1>4
  <2>2. CASE f \in files[at[q]]
    <3>1. /\ on[f] = q \/ Excused(f, at[q])
          /\ rpc[q] = "park" => Excused(f, at[q])
      BY <1>4, <2>2 DEF Clean
    <3> QED BY <3>1, <2>1, <1>2
  <2>3. CASE f = e /\ at[q] = d /\ back[e] = "loose"
    BY <2>3 DEF Excusing
  <2>4. CASE f = e /\ at[q] = d /\ back[e] # "loose"
    <3>1. q = on[e]
      BY <2>4, <2>1 DEF Apart, TypeOK
    <3> QED BY <3>1, <2>4
  <2> QED BY <2>1, <2>2, <2>3, <2>4
<1>5. ASSUME NEW n \in Nodes, NEW i \in 1 .. Len(warm[n]), NEW f \in files'[warm[n][i]]
      PROVE  back'[f] = "loose" \/ warm[n][i] \in unwiped'
  <2>1. warm[n][i] \in Dirs /\ f \in Execs /\ (f \in files[warm[n][i]] \/ (f = e /\ warm[n][i] = d))
    BY <1>1
  <2>2. CASE f \in files[warm[n][i]]
    <3>1. Excused(f, warm[n][i])
      BY <2>2 DEF Clean
    <3> QED BY <3>1, <2>1, <1>2
  <2>3. CASE f = e /\ warm[n][i] = d
    <3>1. back[e] = "loose"
      BY <2>3 DEF Apart
    <3> QED BY <3>1, <2>3 DEF Excusing
  <2> QED BY <2>1, <2>2, <2>3
<1>6. \A x \in Dirs : \A f \in files'[x] : epc'[f] # "idle"
  <2> SUFFICES ASSUME NEW x \in Dirs, NEW f \in files'[x] PROVE epc'[f] # "idle"
    OBVIOUS
  <2>1. f \in Execs /\ (f \in files[x] \/ f = e)
    BY <1>1
  <2> QED BY <2>1 DEF Clean
<1>7. \A q \in Reqs : rpc'[q] = "park" => rpc'[q] \in Owning
  BY DEF Owning
<1> QED BY <1>4, <1>5, <1>6, <1>7 DEF Clean, Excused

LEMMA NextClean ==
  ASSUME Named, EnoughDirs, Typed, Apart, Called, Slots, Clean, Overlap = {}, [Next]_vars
  PROVE  Clean'
<1>a. TypeOK /\ WarmMax \in Nat /\ warm \in [Nodes -> Pools]
  BY DEF Typed, Named, ExecEngineAssumption
<1>p. \A n \in Nodes : \A i \in 1 .. Len(warm[n]) : warm[n][i] \in Dirs
  <2> SUFFICES ASSUME NEW n \in Nodes, NEW i \in 1 .. Len(warm[n]) PROVE warm[n][i] \in Dirs
    OBVIOUS
  <2>1. warm[n] \in Seq(Dirs)
    BY <1>a DEF Pools
  <2> QED BY <2>1
<1>o. \A q \in Reqs : rpc[q] \in Owning => at[q] \in Dirs
  BY <1>a DEF Apart, TypeOK
<1>k. \A q \in Reqs : rpc'[q] = "park" => rpc'[q] \in Owning
  BY DEF Owning
<1>e. ASSUME NEW d \in Dirs, UNCHANGED <<on, epc>>, Excusing({d}),
             \A x \in Dirs \ {d} : files'[x] = files[x],
             \A f \in files'[d] : /\ back'[f] = "loose" \/ d \in unwiped' \/ \A q \in Reqs : rpc'[q] \in Owning => at'[q] # d
                                  /\ f \in files[d],
             \A q \in Reqs : rpc'[q] \in Owning /\ at'[q] # d =>
               /\ rpc[q] \in Owning /\ at'[q] = at[q]
               /\ rpc'[q] = "park" => rpc[q] = "park",
             \A n \in Nodes : \A i \in 1 .. Len(warm'[n]) :
               \/ warm'[n][i] = d /\ \A f \in files'[d] : back'[f] = "loose" \/ d \in unwiped'
               \/ i \in 1 .. Len(warm[n]) /\ warm'[n][i] = warm[n][i] /\ warm[n][i] # d
      PROVE  Clean'
  <2>0. \A q \in Reqs : rpc'[q] \in Owning /\ at'[q] # d =>
          /\ rpc[q] \in Owning /\ at'[q] = at[q]
          /\ rpc'[q] = "park" => rpc[q] = "park"
    BY <1>e
  <2>1. \A x \in Dirs \ {d} : \A f \in files[x] :
          /\ f \in Execs /\ f \in files'[x]
          /\ Excused(f, x) => (back'[f] = "loose" \/ x \in unwiped')
    BY <1>e, <1>a DEF Excused, Excusing, TypeOK
  <2>2. ASSUME NEW q \in Reqs, rpc'[q] \in Owning, NEW f \in files'[at'[q]]
        PROVE  /\ on[f] = q \/ back'[f] = "loose" \/ at'[q] \in unwiped'
               /\ rpc'[q] = "park" => back'[f] = "loose" \/ at'[q] \in unwiped'
    <3>1. CASE at'[q] = d
      BY <3>1, <2>2, <1>e
    <3>2. CASE at'[q] # d
      <4>1. /\ rpc[q] \in Owning /\ at'[q] = at[q] /\ at[q] \in Dirs \ {d}
            /\ rpc'[q] = "park" => rpc[q] = "park"
        BY <3>2, <2>2, <2>0, <1>o
      <4>2. f \in files[at[q]]
        BY <4>1, <2>2, <1>e
      <4>3. /\ on[f] = q \/ Excused(f, at[q])
            /\ rpc[q] = "park" => Excused(f, at[q])
        BY <4>1, <4>2 DEF Clean
      <4> QED BY <4>1, <4>2, <4>3, <2>1
    <3> QED BY <3>1, <3>2
  <2>3. ASSUME NEW n \in Nodes, NEW i \in 1 .. Len(warm'[n]), NEW f \in files'[warm'[n][i]]
        PROVE  back'[f] = "loose" \/ warm'[n][i] \in unwiped'
    <3>1. CASE warm'[n][i] = d
      BY <3>1, <2>3, <1>e
    <3>2. CASE warm'[n][i] # d
      <4>1. i \in 1 .. Len(warm[n]) /\ warm'[n][i] = warm[n][i] /\ warm[n][i] \in Dirs \ {d}
        BY <3>2, <1>e, <1>p
      <4>2. f \in files[warm[n][i]]
        BY <4>1, <2>3, <1>e
      <4>3. Excused(f, warm[n][i])
        BY <4>1, <4>2 DEF Clean
      <4> QED BY <4>1, <4>2, <4>3, <2>1
    <3> QED BY <3>1, <3>2
  <2>4. \A x \in Dirs : \A f \in files'[x] : epc'[f] # "idle"
    <3> SUFFICES ASSUME NEW x \in Dirs, NEW f \in files'[x] PROVE epc'[f] # "idle"
      OBVIOUS
    <3>1. f \in files[x]
      BY <1>e
    <3> QED BY <3>1, <1>e DEF Clean
  <2> QED BY <2>2, <2>3, <2>4, <1>e, <1>k DEF Clean, Excused
<1>1. ASSUME NEW r \in Reqs, AskStep(r) PROVE Clean'
  <2>1. /\ UNCHANGED <<files, unwiped, at, warm, on, epc, back>>
        /\ \A q \in Reqs : rpc'[q] = rpc[q] \/ rpc'[q] \notin Owning \cup {"park"}
    BY <1>1, Asks DEF Slots, Asking, Owning, engine, calls
  <2> QED BY <2>1, <1>a, <1>p, StillClean DEF Excusing
<1>2. ASSUME NEW r \in Reqs,
             Insert(r) \/ ReleaseRoute(r) \/ Kill(r) \/ Unlease(r) \/ RefillCount(r) \/ Abort(r)
      PROVE  Clean'
  <2>1. /\ UNCHANGED <<files, unwiped, at, warm, on, epc>>
        /\ \A q \in Reqs : rpc'[q] \in Owning => rpc[q] \in Owning
        /\ \A q \in Reqs : rpc'[q] = "park" => rpc[q] = "park"
    BY <1>2, <1>a DEF Insert, ReleaseRoute, Kill, Unlease, RefillCount, Abort, Owning, engine,
                      calls, TypeOK
  <2>2. UNCHANGED back \/ Become(Listed(r), "none")
    BY <1>2 DEF Insert, ReleaseRoute, Kill, Unlease, RefillCount, Abort, Take, calls
  <2>3. Excusing({})
    BY <2>1, <2>2, <1>a, BecomeIs DEF Excusing, TypeOK
  <2> QED BY <2>1, <2>3, <1>a, <1>p, StillClean
<1>3. ASSUME NEW r \in Reqs, Materialize(r) PROVE Clean'
  <2> DEFINE d == at'[r]
  <2>1. /\ d \in Dirs
        /\ \A q \in Reqs \ {r} : rpc[q] \in Owning => at'[q] = at[q]
        /\ \A m \in Nodes : \A i \in 1 .. Len(warm'[m]) :
             i \in 1 .. Len(warm[m]) /\ warm'[m][i] = warm[m][i] /\ warm'[m][i] # d
        /\ \/ files' = [files EXCEPT ![d] = {}] /\ unwiped' = unwiped \ {d}
           \/ /\ UNCHANGED <<files, unwiped>>
              /\ \E m \in Nodes : \E i \in 1 .. Len(warm[m]) : warm[m][i] = d
    BY <1>3, Given
  <2>2. /\ UNCHANGED <<on, epc, back>> /\ rpc'[r] = "held"
        /\ \A q \in Reqs \ {r} : rpc'[q] = rpc[q]
    BY <1>3, <1>a DEF Materialize, calls, TypeOK
  <2>d. at'[r] = d
    OBVIOUS
  <2> HIDE DEF d
  <2>3. /\ \A x \in Dirs \ {d} : files'[x] = files[x]
        /\ \A x \in Dirs \ {d} : x \in unwiped => x \in unwiped'
        /\ \A f \in files'[d] : (back'[f] = "loose" \/ d \in unwiped') /\ f \in files[d]
    <3>1. CASE files' = [files EXCEPT ![d] = {}] /\ unwiped' = unwiped \ {d}
      BY <3>1, <2>1, <1>a DEF TypeOK
    <3>2. CASE UNCHANGED <<files, unwiped>> /\ \E m \in Nodes : \E i \in 1 .. Len(warm[m]) : warm[m][i] = d
      BY <3>2, <2>2 DEF Clean, Excused
    <3> QED BY <2>1, <3>1, <3>2
  <2>4. \A q \in Reqs : rpc'[q] \in Owning /\ at'[q] # d =>
          /\ rpc[q] \in Owning /\ at'[q] = at[q]
          /\ rpc'[q] = "park" => rpc[q] = "park"
    BY <2>1, <2>2, <2>d
  <2>5. Excusing({d})
    BY <2>2, <2>3 DEF Excusing
  <2> QED BY <1>e, <2>1, <2>2, <2>3, <2>4, <2>5
<1>4. ASSUME NEW r \in Reqs, MaterializeFails(r) \/ Destroy(r) \/ Park(r) PROVE Clean'
  <2>1. PICK x \in {"failed", "gone"} : rpc' = Notify(node[r], [rpc EXCEPT ![r] = x])
    BY <1>4 DEF MaterializeFails, Park, Destroy
  <2>2. \A q \in Reqs : rpc'[q] \in Owning => q # r /\ rpc'[q] = rpc[q]
    BY <2>1, Notified DEF Slots, Owning
  <2>3. /\ UNCHANGED <<files, unwiped, on, epc, back>> /\ \A q \in Reqs \ {r} : at'[q] = at[q]
    BY <1>4, <1>a DEF MaterializeFails, Park, Destroy, calls, TypeOK
  <2>4. \A n \in Nodes : \A i \in 1 .. Len(warm'[n]) :
          \A e \in files[warm'[n][i]] : Excused(e, warm'[n][i])
    <3>1. CASE Park(r) /\ Len(warm[node[r]]) < WarmMax
      <4>1. /\ warm' = [warm EXCEPT ![node[r]] = Append(@, at[r])]
            /\ node[r] \in Nodes /\ rpc[r] = "park" /\ rpc[r] \in Owning
        BY <3>1, <1>a DEF Park, Owning, Asking, Typed, TypeOK
      <4>2. at[r] \in Dirs /\ \A e \in files[at[r]] : Excused(e, at[r])
        BY <4>1, <1>o DEF Clean
      <4>3. \A m \in Nodes : \A i \in 1 .. Len(warm'[m]) :
             \/ i \in 1 .. Len(warm[m]) /\ warm'[m][i] = warm[m][i]
             \/ m = node[r] /\ i = Len(warm[node[r]]) + 1 /\ warm'[m][i] = at[r]
        BY <3>1, <4>1, <4>2, <1>a, Joined
      <4> QED BY <4>2, <4>3 DEF Clean
    <3>2. CASE UNCHANGED warm
      BY <3>2 DEF Clean
    <3> QED BY <1>4, <3>1, <3>2 DEF MaterializeFails, Destroy, Park
  <2> QED BY <2>2, <2>3, <2>4, <1>k DEF Clean, Excused
<1>5. ASSUME NEW r \in Reqs, Wipe(r) PROVE Clean'
  <2>1. PICK left \in SUBSET files[at[r]] :
          /\ files' = [files EXCEPT ![at[r]] = left]
          /\ unwiped' = IF left = {} THEN unwiped \ {at[r]} ELSE unwiped \union {at[r]}
    BY <1>5 DEF Wipe
  <2>2. /\ UNCHANGED <<at, warm, on, epc, back>> /\ rpc[r] \in Owning
        /\ rpc'[r] = "park" /\ \A q \in Reqs \ {r} : rpc'[q] = rpc[q]
    BY <1>5, <1>a DEF Wipe, calls, Owning, TypeOK
  <2>3. /\ at[r] \in Dirs /\ files'[at[r]] = left
        /\ \A x \in Dirs \ {at[r]} : files'[x] = files[x]
    BY <2>1, <2>2, <1>a, <1>o DEF TypeOK
  <2>4. \A f \in files'[at[r]] : at[r] \in unwiped' /\ f \in files[at[r]]
    BY <2>1, <2>3
  <2>5. Excusing({at[r]})
    BY <2>1, <2>2 DEF Excusing
  <2>6. \A q \in Reqs : rpc'[q] \in Owning /\ at'[q] # at[r] =>
          /\ rpc[q] \in Owning /\ at'[q] = at[q]
          /\ rpc'[q] = "park" => rpc[q] = "park"
    BY <2>2
  <2>7. \A n \in Nodes : \A i \in 1 .. Len(warm[n]) : warm[n][i] # at[r]
    BY <2>2 DEF Apart
  <2> QED BY <1>e, <2>2, <2>3, <2>4, <2>5, <2>6, <2>7
<1>6. ASSUME NEW r \in Reqs, RefillPush(r) PROVE Clean'
  <2>1. UNCHANGED <<rpc, at, on, epc, back>>
    BY <1>6 DEF RefillPush, calls
  <2>2. CASE Len(warm[node[r]]) < refill[r]
    <3>1. /\ warm' = [warm EXCEPT ![node[r]] = Append(@, Fresh)] /\ node[r] \in Nodes
          /\ refill[r] \in 0 .. WarmMax /\ files' = [files EXCEPT ![Fresh] = {}]
          /\ unwiped' = unwiped \ {Fresh}
      BY <1>6, <2>2, <1>a DEF RefillPush, MadeNew, Typed, TypeOK, NoTask
    <3>2. /\ Fresh \in Dirs /\ \A q \in Reqs : at[q] # Fresh
          /\ \A n \in Nodes : \A i \in 1 .. Len(warm[n]) : warm[n][i] # Fresh
      BY FreshIs
    <3>3. Len(warm[node[r]]) < WarmMax
      <4>1. Len(warm[node[r]]) \in Nat
        BY <3>1 DEF Typed, Pools
      <4> QED BY <2>2, <3>1, <4>1, <1>a
    <3>4. \A m \in Nodes : \A i \in 1 .. Len(warm'[m]) :
           \/ i \in 1 .. Len(warm[m]) /\ warm'[m][i] = warm[m][i]
           \/ m = node[r] /\ i = Len(warm[node[r]]) + 1 /\ warm'[m][i] = Fresh
      BY <3>1, <3>2, <3>3, <1>a, Joined
    <3>5. files'[Fresh] = {} /\ \A x \in Dirs \ {Fresh} : files'[x] = files[x]
      BY <3>1, <3>2, <1>a DEF TypeOK
    <3>6. Excusing({Fresh})
      BY <2>1, <3>1 DEF Excusing
    <3> QED BY <1>e, <2>1, <3>2, <3>4, <3>5, <3>6
  <2>3. CASE ~(Len(warm[node[r]]) < refill[r])
    BY <1>6, <2>1, <2>3, <1>a, <1>p, StillClean DEF RefillPush, Excusing
  <2> QED BY <2>2, <2>3
<1>7. ASSUME NEW e \in Execs, ExecStep(e) \/ \E r \in Reqs : Lookup(e, r) PROVE Clean'
  <2>0. UNCHANGED <<rpc, ranked, late, refill, leased, node, at, warm>>
    BY <1>7, CallsOnly
  <2>b. \A f \in Execs : back[f] = "loose" => back'[f] = "loose"
    <3>1. UNCHANGED back \/ (back[e] = "none" /\ back' = [back EXCEPT ![e] = "group"])
          \/ \E S : Become(S, "loose") \/ Become(S, "none")
      BY <1>7 DEF ExecStep, Spawn, Register, FsTool, Write, Fork, LeaveGroup, Exit, Clear, TimedOut,
                  AbortOwn, Disconnect, Lookup, Take, calls
    <3> QED BY <3>1, <1>a, BecomeIs DEF TypeOK
  <2>c. unwiped' = unwiped
    BY <1>7 DEF ExecStep, Spawn, Register, FsTool, Write, Fork, LeaveGroup, Exit, Clear, TimedOut,
                AbortOwn, Disconnect, Lookup, engine
  <2>x. Excusing({})
    BY <2>b, <2>c DEF Excusing
  <2>1. CASE \E r \in Reqs : Lookup(e, r)
    <3>1. PICK r \in Reqs : Lookup(e, r)
      BY <2>1
    <3>2. /\ epc[e] = "idle" /\ files' = files /\ epc'[e] # "idle"
          /\ \A f \in Execs \ {e} : on'[f] = on[f] /\ epc'[f] = epc[f]
      BY <3>1, <1>a DEF Lookup, engine, TypeOK
    <3>3. \A x \in Dirs : \A f \in files[x] : f \in Execs \ {e}
      BY <3>2, <1>a DEF Clean, TypeOK
    <3>4. \A x \in Dirs : \A f \in files[x] : Excused(f, x) => (back'[f] = "loose" \/ x \in unwiped')
      BY <3>3, <2>b, <2>c DEF Excused
    <3>5. \A q \in Reqs : rpc[q] \in Owning =>
            \A f \in files[at[q]] : on'[f] = q \/ back'[f] = "loose" \/ at[q] \in unwiped'
      BY <3>2, <3>3, <3>4, <1>o DEF Clean
    <3>6. \A q \in Reqs : rpc[q] = "park" =>
            \A f \in files[at[q]] : back'[f] = "loose" \/ at[q] \in unwiped'
      <4>1. \A q \in Reqs : rpc[q] = "park" => at[q] \in Dirs
        BY <1>o DEF Owning
      <4> QED BY <4>1, <3>4 DEF Clean
    <3>7. \A n \in Nodes : \A i \in 1 .. Len(warm[n]) :
            \A f \in files[warm[n][i]] : back'[f] = "loose" \/ warm[n][i] \in unwiped'
      BY <3>4, <1>p DEF Clean
    <3>8. \A x \in Dirs : \A f \in files[x] : epc'[f] # "idle"
      BY <3>2, <3>3 DEF Clean
    <3> QED BY <2>0, <3>2, <3>5, <3>6, <3>7, <3>8 DEF Clean, Excused
  <2>2. CASE (Write(e) /\ cwd[e] \in Dirs) \/ (FsTool(e) /\ at[on[e]] # None)
    <3> DEFINE d == IF Write(e) THEN cwd[e] ELSE at[on[e]]
    <3>1. CASE Write(e) /\ cwd[e] \in Dirs
      <4>1. /\ epc[e] # "idle" /\ files' = [files EXCEPT ![cwd[e]] = @ \union {e}]
            /\ UNCHANGED <<on, epc>>
        BY <3>1, <1>a DEF Write, Running, Called, calls
      <4>2. \/ back[e] = "loose"
            \/ on[e] \in Reqs /\ cwd[e] = at[on[e]] /\ rpc[on[e]] \in Owning \ {"park"}
        <5>1. back[e] = "loose" \/ e \in Bound
          BY <3>1, <1>a DEF Write, Running, Bound, TypeOK
        <5> QED BY <5>1 DEF Called, Owning
      <4> QED BY <2>0, <2>c, <2>x, <3>1, <4>1, <4>2, <1>a, <1>p, WritesClean
    <3>2. CASE FsTool(e) /\ at[on[e]] # None
      <4>1. /\ epc[e] = "ready" /\ on[e] \in Reqs /\ rpc[on[e]] = "held" /\ UNCHANGED on
            /\ files' = [files EXCEPT ![at[on[e]]] = @ \union {e}]
            /\ epc' = [epc EXCEPT ![e] = "done"]
        BY <3>2 DEF FsTool, Called
      <4>2. at[on[e]] \in Dirs /\ \A f \in Execs : epc'[f] = "idle" => epc[f] = "idle"
        BY <4>1, <3>2, <1>a DEF TypeOK
      <4>3. rpc[on[e]] \in Owning \ {"park"}
        BY <4>1 DEF Owning
      <4> QED BY <2>0, <2>c, <2>x, <4>1, <4>2, <4>3, <1>a, <1>p, WritesClean
    <3> QED BY <2>2, <3>1, <3>2
  <2>3. CASE \/ Spawn(e) \/ Register(e) \/ Fork(e) \/ LeaveGroup(e) \/ Exit(e) \/ Clear(e)
             \/ TimedOut(e) \/ AbortOwn(e) \/ Disconnect(e) \/ (FsTool(e) /\ at[on[e]] = None)
             \/ (Write(e) /\ cwd[e] \notin Dirs)
    <3>1. UNCHANGED <<on, files>>
      <4>1. CASE Write(e) /\ cwd[e] \notin Dirs
        BY <4>1, <1>a DEF Write, calls, TypeOK
      <4>2. CASE \/ Spawn(e) \/ Register(e) \/ Fork(e) \/ LeaveGroup(e) \/ Exit(e) \/ Clear(e)
                 \/ TimedOut(e) \/ AbortOwn(e) \/ Disconnect(e) \/ (FsTool(e) /\ at[on[e]] = None)
        BY <4>2 DEF Spawn, Register, Fork, LeaveGroup, Exit, Clear, TimedOut, AbortOwn,
                          Disconnect, FsTool, engine
      <4> QED BY <2>3, <4>1, <4>2
    <3>2. \A f \in Execs : epc'[f] = "idle" => epc[f] = "idle"
      BY <2>3, <1>a DEF Spawn, Register, Fork, LeaveGroup, Exit, Clear, TimedOut, AbortOwn,
                        Disconnect, FsTool, Write, calls, TypeOK
    <3> QED BY <2>0, <2>c, <2>x, <3>1, <3>2, <1>a, <1>p, StillClean
  <2> QED BY <1>7, <2>1, <2>2, <2>3 DEF ExecStep
<1>8. CASE UNCHANGED vars
  BY <1>8, <1>a, <1>p, StillClean DEF vars, calls, Excusing
<1> QED
  BY <1>1, <1>2, <1>3, <1>4, <1>5, <1>6, <1>7, <1>8 DEF Next, AllocStep, AskStep, ReleaseStep

IInv == Slots /\ CapacityKept /\ Typed /\ Apart /\ Called /\ Clean

LEMMA InitIInv == Named /\ Init => IInv
<1> SUFFICES ASSUME Named, Init PROVE IInv
  OBVIOUS
<1>1. CapacityKept
  <2>1. \A n \in Nodes : Used(n) = {}
    BY DEF Init, Used
  <2> QED BY <2>1, FS_EmptySet DEF CapacityKept, Named, ExecEngineAssumption
<1> QED BY <1>1, InitSlots, InitTyped, InitApart, InitCalled, InitClean DEF IInv

LEMMA NextIInv ==
  ASSUME Named, EnoughDirs, Overlap = {}
  PROVE  IInv /\ [Next]_vars => IInv'
<1> SUFFICES ASSUME IInv, [Next]_vars PROVE IInv'
  OBVIOUS
<1>1. Cap \in Nat
  BY DEF Named, ExecEngineAssumption
<1> QED
  BY <1>1, NextSlots, NextCapacity, NextTyped, NextApart, NextCalled, NextClean DEF IInv

\* The state of the engine has its types (engine.rs Slot, Engine; scheduler.rs).
THEOREM TypeCorrect ==
  ASSUME Named, EnoughDirs, Overlap = {} PROVE Spec => []TypeOK
<1>1. IInv => TypeOK
  BY DEF IInv, Typed
<1> QED BY <1>1, InitIInv, NextIInv, PTL DEF Spec

\* A workspace changes hands with nothing of its last one but what no kill
\* reaches and what could not be removed: no shell and no process in its group
\* outlives the slot or the directory, no file another handle wrote is in it and
\* the warm directories are empty, but for what a loose process writes and for
\* directories whose wipe failed (engine.rs release, abort, exec, destroy,
\* wipe_dir, refill_warm, materialize_dir; jail.rs command_with).
THEOREM HandoverClean ==
  ASSUME Named, EnoughDirs, Overlap = {} PROVE Spec => []HandedOverClean
<1>1. IInv => HandedOverClean
  <2> SUFFICES ASSUME IInv PROVE HandedOverClean
    OBVIOUS
  <2>a. Slots /\ TypeOK /\ warm \in [Nodes -> Pools] /\ Apart /\ Called /\ Clean
    BY DEF IInv, Typed
  <2>1. NoStray
    <3> SUFFICES ASSUME NEW e \in Execs, e \in alive \/ back[e] = "group"
                 PROVE  on[e] \in leased /\ cwd[e] = at[on[e]]
      BY DEF NoStray
    <3>1. on[e] \in Reqs /\ cwd[e] = at[on[e]] /\ rpc[on[e]] \in {"held", "kill", "destroy"}
      BY <2>a DEF Called, Bound
    <3> QED BY <2>a, <3>1 DEF Slots, Holding
  <2>2. CleanHandover
    <3>1. ASSUME NEW r \in leased, at[r] # None, rpc[r] # "inserted"
          PROVE  /\ \A e \in files[at[r]] : on[e] = r \/ Excused(e, at[r])
                 /\ \A q \in leased \ {r} : at[q] # at[r]
      <4>1. r \in Reqs /\ rpc[r] \in Owning /\ leased \subseteq Reqs
        BY <2>a, <3>1 DEF Slots, Holding, Owning
      <4> QED BY <2>a, <3>1, <4>1 DEF Apart, Clean
    <3>2. \A n \in Nodes : \A i \in DOMAIN warm[n] :
            \A e \in files[warm[n][i]] : Excused(e, warm[n][i])
      <4>1. \A n \in Nodes : DOMAIN warm[n] = 1 .. Len(warm[n])
        BY <2>a DEF Pools
      <4> QED BY <2>a, <4>1 DEF Clean
    <3> QED BY <3>1, <3>2 DEF CleanHandover
  <2> QED BY <2>1, <2>2 DEF HandedOverClean
<1> QED BY <1>1, InitIInv, NextIInv, PTL DEF Spec
=============================================================================
