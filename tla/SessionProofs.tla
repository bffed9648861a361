--------------------------- MODULE SessionProofs ---------------------------
(***************************************************************************)
(* What is promised of one session.                                        *)
(*                                                                         *)
(* Of its runs, for any number of requests, runs and calls: the cached     *)
(* tree is the stored one whenever nobody works on it, a parked call is    *)
(* executed once at most, on a person's word, and every call of the stored *)
(* tree is pending or answered.  All rest on the lease (Exclusive): what a *)
(* run has read or set aside is still so when it acts on it, because       *)
(* nobody else works meanwhile.                                            *)
(*                                                                         *)
(* Of its story, for any messages, trees, files and sessions: what was     *)
(* said and lasts is in the rows, in the open tree and in every file, once *)
(* and in its order.  It rests on one notion: beside the way from the leaf *)
(* of a tree to its root there is nothing that lasts (Spine).              *)
(***************************************************************************)
EXTENDS CloudRun, SequenceTheorems, FiniteSetTheorems, WellFoundedInduction, TLAPS

Working ==
  {"load", "again", "read", "fill", "unlock", "heat", "settle", "execute", "loop",
   "insert", "parkPersist", "invalidate", "persist", "recache", "release", "dead"}
Stops == Working \cup {"idle", "checked", "over"}

\* A run at work holds the lease, alone.
Exclusive ==
  /\ at \in [Runs -> Stops] /\ DOMAIN work = Runs
  /\ \A r \in Runs : at[r] \in Working => holder = {r}

LEMMA InitExclusive == Init => Exclusive
BY DEF Init, Exclusive, Stops, Working

LEMMA NextExclusive == Exclusive /\ [Next]_runVars => Exclusive'
<1> SUFFICES ASSUME Exclusive, [Next]_runVars PROVE Exclusive'
  OBVIOUS
<1>1. ASSUME NEW r \in Runs, Lease(r) PROVE Exclusive'
  BY <1>1 DEF Lease, Goto, Exclusive, Stops, Working
<1>2. ASSUME NEW r \in Runs, Release(r) \/ Reap(r) PROVE Exclusive'
  BY <1>2 DEF Release, Reap, Goto, Exclusive, Stops, Working
<1>3. ASSUME NEW r \in Runs, LoadTree(r) PROVE Exclusive'
  BY <1>3 DEF LoadTree, Goto, Exclusive, Stops, Working
<1>4. ASSUME NEW r \in Runs,
             LookAgain(r) \/ ReadTree(r) \/ FillCache(r) \/ FillUnlock(r) \/ HeatFails(r)
      PROVE  Exclusive'
  BY <1>4 DEF LookAgain, ReadTree, FillCache, FillUnlock, HeatFails, Goto, Exclusive,
              Stops, Working
<1>5. ASSUME NEW r \in Runs, Begin(r) PROVE Exclusive'
  BY <1>5 DEF Begin, Goto, Exclusive, Stops, Working
<1>6. ASSUME NEW r \in Runs, Settle(r) PROVE Exclusive'
  BY <1>6 DEF Settle, Append1, Goto, Exclusive, Stops, Working
<1>7. ASSUME NEW r \in Runs, Uncovered(r) \/ Execute(r) \/ ExecuteFails(r) \/ Continue(r)
      PROVE  Exclusive'
  BY <1>7 DEF Uncovered, Execute, ExecuteFails, Continue, Append1, Goto, Exclusive,
              Stops, Working
<1>8. ASSUME NEW r \in Runs, Final(r) \/ LoopFails(r) \/ Ask(r) PROVE Exclusive'
  BY <1>8 DEF Final, LoopFails, Ask, Append1, Goto, Exclusive, Stops, Working
<1>9. ASSUME NEW r \in Runs,
             \/ ParkInsert(r) \/ ParkPersist(r) \/ ParkInvalidate(r)
             \/ FinishPersist(r) \/ FinishCache(r)
      PROVE  Exclusive'
  BY <1>9 DEF ParkInsert, ParkPersist, ParkInvalidate, FinishPersist, FinishCache, Goto,
              Exclusive, Stops, Working
<1>10. ASSUME NEW r \in Runs, Crash(r) \/ Preflight(r) PROVE Exclusive'
  BY <1>10 DEF Crash, Preflight, Goto, Exclusive, Stops, Working
<1>11. CASE CacheExpires \/ FillExpires \/ ImportPersist \/ ImportInvalidate \/ UNCHANGED runVars
  BY <1>11 DEF CacheExpires, FillExpires, ImportPersist, ImportInvalidate, runVars, Exclusive
<1> QED
  BY <1>1, <1>2, <1>3, <1>4, <1>5, <1>6, <1>7, <1>8, <1>9, <1>10, <1>11 DEF Next, Step

\* No two runs of a session are at work at once.
LEMMA OneWorks ==
  ASSUME Exclusive, NEW r \in Runs, NEW q \in Runs, at[r] \in Working, at[q] \in Working
  PROVE  r = q
BY DEF Exclusive

-----------------------------------------------------------------------------
(* The cache *)

\* Between storing a tree and caching or dropping it, and while an import is
\* half done, the cache may be old; a run that fills it has read the tree and
\* nobody has stored another since.
Cached ==
  /\ (\A r \in Runs : at[r] \notin {"invalidate", "recache"}) /\ ~importing => cache \subseteq {db}
  /\ \A r \in Runs : at[r] \in {"fill", "recache"} => work[r] = db
  /\ importing => holder = {}

\* No overlap with an import, and no failure at the three places that part the
\* cache from the tree.
Steady == "import" \notin Races /\ Faults \cap {"cachecut", "persist", "redis"} = {}

LEMMA InitCached == Init => Cached
BY DEF Init, Cached

LEMMA NextCached == Steady /\ Exclusive /\ Cached /\ [Next]_runVars => Cached'
<1> SUFFICES ASSUME Steady, Exclusive, Cached, [Next]_runVars PROVE Cached'
  OBVIOUS
<1>1. ASSUME NEW r \in Runs, Lease(r) PROVE Cached'
  BY <1>1 DEF Lease, Goto, Exclusive, Stops, Working, Cached, Steady
<1>2. ASSUME NEW r \in Runs, Release(r) \/ Reap(r) PROVE Cached'
  BY <1>2 DEF Release, Reap, Goto, Exclusive, Stops, Working, Cached
<1>3. ASSUME NEW r \in Runs, LoadTree(r) PROVE Cached'
  BY <1>3 DEF LoadTree, Goto, Exclusive, Stops, Working, Cached
<1>4. ASSUME NEW r \in Runs, LookAgain(r) \/ FillUnlock(r) \/ HeatFails(r) PROVE Cached'
  BY <1>4 DEF LookAgain, FillUnlock, HeatFails, Goto, Exclusive, Stops, Working, Cached
<1>5. ASSUME NEW r \in Runs, ReadTree(r) PROVE Cached'
  BY <1>5 DEF ReadTree, Goto, Exclusive, Stops, Working, Cached
<1>6. ASSUME NEW r \in Runs, FillCache(r) PROVE Cached'
  BY <1>6 DEF FillCache, Goto, Exclusive, Stops, Working, Cached
<1>7. ASSUME NEW r \in Runs, Begin(r) PROVE Cached'
  BY <1>7 DEF Begin, Goto, Exclusive, Stops, Working, Cached
<1>8. ASSUME NEW r \in Runs, Settle(r) PROVE Cached'
  BY <1>8 DEF Settle, Append1, Goto, Exclusive, Stops, Working, Cached
<1>9. ASSUME NEW r \in Runs, Uncovered(r) \/ Execute(r) \/ ExecuteFails(r) \/ Continue(r)
      PROVE  Cached'
  BY <1>9 DEF Uncovered, Execute, ExecuteFails, Continue, Append1, Goto, Exclusive,
              Stops, Working, Cached
<1>10. ASSUME NEW r \in Runs, Final(r) \/ LoopFails(r) \/ Ask(r) PROVE Cached'
  BY <1>10 DEF Final, LoopFails, Ask, Append1, Goto, Exclusive, Stops, Working, Cached
<1>11. ASSUME NEW r \in Runs, ParkInsert(r) PROVE Cached'
  BY <1>11 DEF ParkInsert, Goto, Exclusive, Stops, Working, Cached
<1>12. ASSUME NEW r \in Runs, ParkPersist(r) \/ FinishPersist(r) PROVE Cached'
  <2>1. \A q \in Runs \ {r} : at[q] \notin Working
    BY <1>12, OneWorks DEF ParkPersist, FinishPersist, Goto, Working
  <2>2. db' = work[r] /\ work' = work /\ holder' = holder /\ importing' = importing
    BY <1>12 DEF ParkPersist, FinishPersist, Steady
  <2>3. at'[r] \in {"invalidate", "recache"} /\ \A q \in Runs \ {r} : at'[q] = at[q]
    BY <1>12 DEF ParkPersist, FinishPersist, Goto, Exclusive
  <2> QED BY <2>1, <2>2, <2>3 DEF Cached, Working
<1>13. ASSUME NEW r \in Runs, ParkInvalidate(r) \/ FinishCache(r) PROVE Cached'
  <2>1. \A q \in Runs \ {r} : at[q] \notin Working
    BY <1>13, OneWorks DEF ParkInvalidate, FinishCache, Goto, Working
  <2>2. cache' \subseteq {db}
    BY <1>13 DEF ParkInvalidate, FinishCache, Goto, Cached, Steady
  <2>3. at'[r] = "release" /\ \A q \in Runs \ {r} : at'[q] = at[q]
    BY <1>13 DEF ParkInvalidate, FinishCache, Goto, Exclusive
  <2>4. UNCHANGED <<db, work, holder, importing>>
    BY <1>13 DEF ParkInvalidate, FinishCache
  <2> QED BY <2>1, <2>2, <2>3, <2>4 DEF Cached, Working
<1>14. ASSUME NEW r \in Runs, Crash(r) PROVE Cached'
  BY <1>14 DEF Crash, Exclusive, Stops, Working, Cached, Steady
<1>15. ASSUME NEW r \in Runs, Preflight(r) PROVE Cached'
  BY <1>15 DEF Preflight, Goto, Exclusive, Stops, Working, Cached
<1>16. CASE ImportPersist
  BY <1>16 DEF ImportPersist, Exclusive, Working, Cached, Steady
<1>17. CASE CacheExpires \/ FillExpires \/ ImportInvalidate \/ UNCHANGED runVars
  BY <1>17 DEF CacheExpires, FillExpires, ImportInvalidate, runVars, Cached
<1> QED
  BY <1>1, <1>2, <1>3, <1>4, <1>5, <1>6, <1>7, <1>8, <1>9, <1>10, <1>11, <1>12,
     <1>13, <1>14, <1>15, <1>16, <1>17 DEF Next, Step

\* With no run and no import at work the cached tree is the stored one, so that
\* the next run starts from what the last one saved (tree_cache.rs, lib.rs drive
\* and finish), if none of the failures strikes that keep them apart.
THEOREM CacheTrue == ASSUME Steady PROVE Spec => []CacheCoherent
<1>1. Init => Exclusive /\ Cached
  BY InitExclusive, InitCached
<1>2. Exclusive /\ Cached /\ [Next]_runVars => Exclusive' /\ Cached'
  BY NextExclusive, NextCached
<1>3. Exclusive /\ Cached => CacheCoherent
  BY DEF Exclusive, Cached, CacheCoherent, Working
<1> QED BY <1>1, <1>2, <1>3, PTL DEF Spec

-----------------------------------------------------------------------------
(* Approvals *)

Given == UNION {[S -> Verdicts] : S \in SUBSET Calls}

\* Before its own call is parked, a run has no interrupt.
Before == {"idle", "checked", "load", "again", "read", "fill", "unlock", "heat",
           "settle", "execute", "loop", "insert"}

Types ==
  /\ ask \in [Calls -> {"none", "pending", "resolved", "cancelled"}]
  /\ ran \in [Calls -> Nat]
  /\ resume \in [Runs -> Given]
  /\ todo \in [Runs -> Seq(Calls)]

Distinct(s) == \A i, j \in 1 .. Len(s) : s[i] = s[j] => i = j

\* What a resumed run has set aside is pending, but for the call it executes,
\* which it has marked as resolved, because it was approved.
SetAside ==
  \A r \in Runs :
    /\ at[r] = "settle" => /\ Distinct(todo[r])
                           /\ \A i \in 1 .. Len(todo[r]) : ask[todo[r][i]] = "pending"
    /\ at[r] = "execute" =>
         /\ todo[r] # <<>> /\ Distinct(todo[r])
         /\ \A i \in 2 .. Len(todo[r]) : ask[todo[r][i]] = "pending"
         /\ ask[todo[r][1]] = "resolved" /\ ran[todo[r][1]] = 0
         /\ Approved(todo[r][1])
    /\ at[r] = "insert" => todo[r] # <<>> /\ \E k \in 1 .. Batch : todo[r][1] = <<r, k>>

\* A call is executed after its interrupt is resolved, and the interrupt of a
\* run comes from that run.
Ordered ==
  /\ \A c \in Calls : ask[c] \in {"none", "pending"} => ran[c] = 0
  /\ \A r \in Runs : at[r] \in Before => \A k \in 1 .. Batch : ask[<<r, k>>] = "none"
  /\ \A r \in Runs : at[r] = "idle" => resume[r] = NoAnswers

Settled == Types /\ SetAside /\ Ordered /\ ApprovedOnce

LEMMA NoAnswersIs == NoAnswers \in Given /\ DOMAIN NoAnswers = {}
<1>1. NoAnswers \in [{} -> Verdicts]
  BY DEF NoAnswers
<1> QED BY <1>1 DEF Given

\* SetToSeq makes a sequence of a finite set, without repetition.
LEMMA SeqOfSet ==
  ASSUME NEW S, IsFiniteSet(S)
  PROVE  /\ SetToSeq(S) \in Seq(S) /\ Distinct(SetToSeq(S))
<1>1. PICK f : f \in Bijection(1 .. Cardinality(S), S)
  BY FS_CardinalityType DEF ExistsBijection
<1>2. f \in [1 .. Cardinality(S) -> S] /\ IsInjective(f)
  BY <1>1 DEF Bijection, Injection
<1>3. SetToSeq(S) \in [1 .. Cardinality(S) -> S] /\ IsInjective(SetToSeq(S))
  BY <1>2 DEF SetToSeq
<1>4. Cardinality(S) \in Nat
  BY FS_CardinalityType
<1>5. SetToSeq(S) \in Seq(S) /\ DOMAIN SetToSeq(S) = 1 .. Len(SetToSeq(S))
  BY <1>3, <1>4
<1> QED BY <1>3, <1>5 DEF Distinct, IsInjective

LEMMA InitSettled == Init => Settled
<1> SUFFICES ASSUME Init PROVE Settled
  OBVIOUS
<1>1. Types
  <2>1. <<>> \in Seq(Calls)
    OBVIOUS
  <2> QED BY <2>1, NoAnswersIs DEF Init, Types
<1>2. SetAside
  BY DEF Init, SetAside
<1>3. Ordered
  BY DEF Init, Ordered, Calls
<1>4. ApprovedOnce
  BY DEF Init, ApprovedOnce
<1> QED BY <1>1, <1>2, <1>3, <1>4 DEF Settled

\* A step that goes elsewhere keeps what is set aside for the others.
Elsewhere == {"checked", "load", "again", "read", "fill", "unlock", "heat", "loop",
              "parkPersist", "invalidate", "persist", "recache", "release", "dead", "over"}

LEMMA MoveKeeps ==
  ASSUME Exclusive, Settled, NEW r \in Runs, NEW to \in Elsewhere,
         at' = [at EXCEPT ![r] = to], to \in Before => at[r] \in Before,
         UNCHANGED <<ask, ran, resume>>,
         todo' = todo \/ todo' = [todo EXCEPT ![r] = <<>>]
  PROVE  Settled'
<1>a. Types /\ SetAside /\ Ordered /\ ApprovedOnce
  BY DEF Settled
<1>b. at'[r] = to /\ \A q \in Runs \ {r} : at'[q] = at[q]
  BY DEF Exclusive
<1>1. Types'
  <2>1. <<>> \in Seq(Calls)
    OBVIOUS
  <2> QED BY <2>1, <1>a DEF Types
<1>2. \A q \in Runs \ {r} : todo'[q] = todo[q]
  BY <1>a DEF Types
<1>3. ApprovedOnce' /\ \A c \in Calls : Approved(c)' <=> Approved(c)
  BY <1>a DEF ApprovedOnce, Approved
<1>4. SetAside'
  <2> SUFFICES ASSUME NEW q \in Runs, at'[q] \in {"settle", "execute", "insert"}
               PROVE  q # r /\ todo'[q] = todo[q] /\ at'[q] = at[q]
    BY <1>a, <1>3 DEF SetAside, Approved
  <2> QED BY <1>b, <1>2 DEF Elsewhere
<1>5. Ordered'
  BY <1>a, <1>b DEF Ordered, Elsewhere
<1> QED BY <1>1, <1>3, <1>4, <1>5 DEF Settled

\* What neither parks, nor answers, nor executes.
LEMMA OthersKeep ==
  ASSUME Exclusive, Settled, NEW r \in Runs,
         \/ Lease(r) \/ LoadTree(r) \/ LookAgain(r) \/ ReadTree(r) \/ FillCache(r)
         \/ FillUnlock(r) \/ HeatFails(r) \/ Uncovered(r) \/ ExecuteFails(r)
         \/ Continue(r) \/ Final(r) \/ LoopFails(r) \/ ParkPersist(r)
         \/ ParkInvalidate(r) \/ FinishPersist(r) \/ FinishCache(r) \/ Release(r)
         \/ Crash(r) \/ Reap(r)
  PROVE  Settled'
<1>1. UNCHANGED <<ask, ran, resume>>
  BY DEF Lease, LoadTree, LookAgain, ReadTree, FillCache, FillUnlock, HeatFails, Uncovered,
         ExecuteFails, Continue, Final, LoopFails, ParkPersist, ParkInvalidate,
         FinishPersist, FinishCache, Release, Crash, Reap
<1>2. todo' = todo \/ todo' = [todo EXCEPT ![r] = <<>>]
  BY DEF Lease, LoadTree, LookAgain, ReadTree, FillCache, FillUnlock, HeatFails, Uncovered,
         ExecuteFails, Continue, Final, LoopFails, ParkPersist, ParkInvalidate,
         FinishPersist, FinishCache, Release, Crash, Reap
<1>3. \E to \in Elsewhere :
        at' = [at EXCEPT ![r] = to] /\ (to \in Before => at[r] \in Before)
  <2>1. CASE Lease(r) \/ LoadTree(r) \/ LookAgain(r) \/ ReadTree(r)
    BY <2>1 DEF Lease, LoadTree, LookAgain, ReadTree, Goto, Elsewhere, Before
  <2>2. CASE FillCache(r) \/ FillUnlock(r) \/ HeatFails(r) \/ Uncovered(r) \/ ExecuteFails(r)
    BY <2>2 DEF FillCache, FillUnlock, HeatFails, Uncovered, ExecuteFails, Goto, Elsewhere, Before
  <2>3. CASE Continue(r) \/ Final(r) \/ LoopFails(r) \/ ParkPersist(r) \/ ParkInvalidate(r)
    BY <2>3 DEF Continue, Final, LoopFails, ParkPersist, ParkInvalidate, Goto, Elsewhere, Before
  <2>4. CASE FinishPersist(r) \/ FinishCache(r) \/ Release(r) \/ Crash(r) \/ Reap(r)
    BY <2>4 DEF FinishPersist, FinishCache, Release, Crash, Reap, Goto, Elsewhere, Before
  <2> QED BY <2>1, <2>2, <2>3, <2>4
<1> QED BY <1>1, <1>2, <1>3, MoveKeeps

\* A request brings its answers, once.
LEMMA PreflightKeeps ==
  ASSUME Exclusive, Settled, NEW r \in Runs, Preflight(r) PROVE Settled'
<1>a. Types /\ SetAside /\ Ordered /\ ApprovedOnce
  BY DEF Settled
<1>1. /\ at[r] = "idle" /\ at'[r] = "checked" /\ UNCHANGED <<ask, ran, todo>>
      /\ \A q \in Runs \ {r} : at'[q] = at[q]
  BY DEF Preflight, Goto, Exclusive
<1>2. PICK v \in Given : resume' = [resume EXCEPT ![r] = v]
  <2>1. PICK S \in SUBSET Asked : \E v \in [S -> Verdicts] : resume' = [resume EXCEPT ![r] = v]
    BY DEF Preflight
  <2>2. [S -> Verdicts] \subseteq Given
    BY DEF Given, Asked
  <2> QED BY <2>1, <2>2
<1>3. \A q \in Runs \ {r} : resume'[q] = resume[q]
  BY <1>2, <1>a DEF Types
<1>4. \A c \in Calls : Approved(c) => Approved(c)'
  <2>1. DOMAIN resume[r] = {}
    BY <1>1, <1>a, NoAnswersIs DEF Ordered
  <2> QED BY <2>1, <1>3 DEF Approved
<1>5. Types'
  BY <1>1, <1>2, <1>a DEF Types
<1>6. SetAside'
  <2> SUFFICES ASSUME NEW q \in Runs, at'[q] \in {"settle", "execute", "insert"}
               PROVE  /\ q # r /\ at'[q] = at[q]
                      /\ at[q] = "execute" => todo[q][1] \in Calls
    BY <1>1, <1>4, <1>a DEF SetAside
  <2>1. q # r /\ at'[q] = at[q]
    BY <1>1
  <2>2. ASSUME at[q] = "execute" PROVE todo[q][1] \in Calls
    <3>1. todo[q] \in Seq(Calls) /\ todo[q] # <<>>
      BY <2>2, <1>a DEF Types, SetAside
    <3> QED BY <3>1
  <2> QED BY <2>1, <2>2
<1>7. Ordered'
  BY <1>1, <1>3, <1>a DEF Ordered, Before
<1>8. ApprovedOnce'
  BY <1>1, <1>4, <1>a DEF ApprovedOnce
<1> QED BY <1>5, <1>6, <1>7, <1>8 DEF Settled

\* A resumed run sets the pending calls aside, each once.
LEMMA BeginKeeps ==
  ASSUME IsFiniteSet(Calls), Exclusive, Settled, NEW r \in Runs, Begin(r) PROVE Settled'
<1>a. Types /\ SetAside /\ Ordered /\ ApprovedOnce
  BY DEF Settled
<1>1. CASE resume[r] # NoAnswers
  <2>1. /\ at[r] = "heat" /\ at' = [at EXCEPT ![r] = "settle"]
        /\ todo' = [todo EXCEPT ![r] = SetToSeq(Pending)] /\ UNCHANGED <<ask, ran, resume>>
    BY <1>1 DEF Begin, Goto
  <2>2. IsFiniteSet(Pending)
    BY FS_Subset DEF Pending
  <2>3. SetToSeq(Pending) \in Seq(Pending) /\ Distinct(SetToSeq(Pending))
    BY <2>2, SeqOfSet
  <2>4. SetToSeq(Pending) \in Seq(Calls)
        /\ \A i \in 1 .. Len(SetToSeq(Pending)) : ask[SetToSeq(Pending)[i]] = "pending"
    <3> DEFINE s == SetToSeq(Pending)
    <3>1. s \in Seq(Pending) /\ Pending \subseteq Calls /\ \A d \in Pending : ask[d] = "pending"
      BY <2>3 DEF Pending
    <3> HIDE DEF s
    <3>2. s \in Seq(Calls) /\ \A i \in 1 .. Len(s) : s[i] \in Pending
      BY <3>1
    <3> QED BY <3>1, <3>2 DEF s
  <2>5. Types'
    BY <2>1, <2>4, <1>a DEF Types
  <2>6. /\ at'[r] = "settle" /\ todo'[r] = SetToSeq(Pending)
        /\ \A q \in Runs \ {r} : at'[q] = at[q] /\ todo'[q] = todo[q]
    BY <2>1, <1>a DEF Exclusive, Types
  <2>7. SetAside'
    BY <2>1, <2>3, <2>4, <2>6, <1>a DEF SetAside, Approved
  <2>8. Ordered'
    BY <2>1, <2>6, <1>a DEF Ordered, Before
  <2>9. ApprovedOnce'
    BY <2>1, <1>a DEF ApprovedOnce, Approved
  <2> QED BY <2>5, <2>7, <2>8, <2>9 DEF Settled
<1>2. CASE resume[r] = NoAnswers
  <2>1. at[r] = "heat" /\ at' = [at EXCEPT ![r] = "loop"] /\ UNCHANGED <<ask, ran, resume, todo>>
    BY <1>2 DEF Begin, Goto
  <2>2. "loop" \in Elsewhere /\ at[r] \in Before
    BY <2>1 DEF Elsewhere, Before
  <2> QED BY <2>1, <2>2, MoveKeeps
<1> QED BY <1>1, <1>2

\* Removing the first of distinct calls.
LEMMA TailDistinct ==
  ASSUME NEW s \in Seq(Calls), s # <<>>, Distinct(s)
  PROVE  /\ Tail(s) \in Seq(Calls) /\ Distinct(Tail(s))
         /\ \A i \in 1 .. Len(Tail(s)) : i + 1 \in 2 .. Len(s) /\ Tail(s)[i] = s[i + 1]
         /\ \A i \in 2 .. Len(s) : s[i] # s[1]
         /\ s[1] \in Calls /\ Head(s) = s[1]
<1>1. Len(s) \in Nat \ {0} /\ Tail(s) \in Seq(Calls) /\ Len(Tail(s)) = Len(s) - 1
  OBVIOUS
<1>2. \A i \in 1 .. Len(Tail(s)) : i + 1 \in 2 .. Len(s) /\ Tail(s)[i] = s[i + 1]
  BY <1>1
<1>3. Distinct(Tail(s))
  BY <1>1, <1>2 DEF Distinct
<1>4. \A i \in 2 .. Len(s) : s[i] # s[1]
  BY <1>1 DEF Distinct
<1> QED BY <1>1, <1>2, <1>3, <1>4

\* The interrupt is settled before anything is done for it.
LEMMA SettleKeeps ==
  ASSUME Exclusive, Settled, NEW r \in Runs, Settle(r) PROVE Settled'
<1>a. Types /\ SetAside /\ Ordered /\ ApprovedOnce
  BY DEF Settled
<1>1. at[r] = "settle" /\ todo[r] \in Seq(Calls) /\ todo[r] # <<>> /\ Distinct(todo[r])
  BY <1>a DEF Settle, SetAside, Types
<1>2. /\ Tail(todo[r]) \in Seq(Calls) /\ Distinct(Tail(todo[r]))
      /\ \A i \in 1 .. Len(Tail(todo[r])) :
           i + 1 \in 2 .. Len(todo[r]) /\ Tail(todo[r])[i] = todo[r][i + 1]
      /\ \A i \in 2 .. Len(todo[r]) : todo[r][i] # todo[r][1]
  BY <1>1, TailDistinct
<1>c. PICK c \in Calls : c = Current(r) /\ c = todo[r][1]
  BY <1>1, TailDistinct DEF Current
<1>3. \A i \in 1 .. Len(todo[r]) : ask[todo[r][i]] = "pending"
  BY <1>1, <1>a DEF SetAside
<1>4. ask[c] = "pending" /\ ran[c] = 0
  <2>1. 1 \in 1 .. Len(todo[r])
    BY <1>1
  <2> QED BY <2>1, <1>c, <1>3, <1>a DEF Ordered
<1>5. PICK st \in {"resolved", "cancelled"} :
        /\ ask' = [ask EXCEPT ![c] = st]
        /\ resume[r][c] = "approve" => st = "resolved"
  BY <1>c DEF Settle
<1>6. UNCHANGED <<ran, resume>> /\ c \in DOMAIN resume[r]
  BY <1>c DEF Settle
<1>7. /\ ask' \in [Calls -> {"none", "pending", "resolved", "cancelled"}] /\ ask'[c] = st
      /\ \A d \in Calls \ {c} : ask'[d] = ask[d]
  BY <1>5, <1>c, <1>a DEF Types
<1>8. \A q \in Runs \ {r} : at[q] \notin Working
  BY <1>1, OneWorks DEF Working
<1>9. ApprovedOnce' /\ \A d \in Calls : Approved(d)' <=> Approved(d)
  BY <1>6, <1>a DEF ApprovedOnce, Approved
<1>10. /\ at'[r] \in {"settle", "execute"} /\ \A q \in Runs \ {r} : at'[q] = at[q]
       /\ todo' \in [Runs -> Seq(Calls)]
  <2>1. CASE resume[r][c] = "approve"
    BY <2>1, <1>1, <1>c, <1>a DEF Settle, Exclusive, Types
  <2>2. CASE resume[r][c] # "approve"
    BY <2>2, <1>1, <1>2, <1>c, <1>a DEF Settle, Exclusive, Types
  <2> QED BY <2>1, <2>2
<1>11. Types'
  BY <1>6, <1>7, <1>10, <1>a DEF Types
<1>12. Ordered'
  <2>1. \A d \in Calls : ask'[d] \in {"none", "pending"} => ran'[d] = 0
    BY <1>5, <1>6, <1>7, <1>a DEF Ordered
  <2>2. ASSUME NEW q \in Runs, at'[q] \in Before, NEW k \in 1 .. Batch
        PROVE  ask'[<<q, k>>] = "none"
    <3>1. at[q] \in Before
      BY <2>2, <1>1, <1>10 DEF Before
    <3>2. ask[<<q, k>>] = "none" /\ <<q, k>> \in Calls
      BY <3>1, <1>a DEF Ordered, Calls
    <3>3. <<q, k>> # c
      BY <3>2, <1>4
    <3> QED BY <3>2, <3>3, <1>7
  <2>3. \A q \in Runs : at'[q] = "idle" => resume'[q] = NoAnswers
    BY <1>6, <1>10, <1>a DEF Ordered
  <2> QED BY <2>1, <2>2, <2>3 DEF Ordered
<1>13. SetAside'
  <2>1. \A q \in Runs \ {r} : at'[q] \notin {"settle", "execute", "insert"}
    BY <1>8, <1>10 DEF Working
  <2>2. CASE resume[r][c] = "approve"
    <3>1. at'[r] = "execute" /\ todo' = todo
      BY <2>2, <1>1, <1>c DEF Settle, Exclusive
    <3>2. Approved(c)' /\ c = todo'[r][1]
      BY <2>2, <1>6, <1>c, <3>1 DEF Approved
    <3>3. \A i \in 2 .. Len(todo[r]) : ask'[todo[r][i]] = "pending"
      <4> SUFFICES ASSUME NEW i \in 2 .. Len(todo[r]) PROVE ask'[todo[r][i]] = "pending"
        OBVIOUS
      <4>1. i \in 1 .. Len(todo[r]) /\ todo[r][i] \in Calls
        BY <1>1
      <4> QED BY <4>1, <1>2, <1>c, <1>3, <1>7
    <3>4. ask'[todo[r][1]] = "resolved" /\ ran'[todo[r][1]] = 0
      BY <2>2, <1>c, <1>4, <1>5, <1>6, <1>7
    <3> QED BY <2>1, <3>1, <3>2, <3>3, <3>4, <1>1, <1>c DEF SetAside
  <2>3. CASE resume[r][c] # "approve"
    <3>1. at'[r] = "settle" /\ todo'[r] = Tail(todo[r])
      BY <2>3, <1>1, <1>c, <1>a DEF Settle, Types
    <3>2. \A i \in 1 .. Len(Tail(todo[r])) : ask'[Tail(todo[r])[i]] = "pending"
      <4> SUFFICES ASSUME NEW i \in 1 .. Len(Tail(todo[r]))
                   PROVE  ask'[Tail(todo[r])[i]] = "pending"
        OBVIOUS
      <4>1. i + 1 \in 2 .. Len(todo[r]) /\ Tail(todo[r])[i] = todo[r][i + 1]
        BY <1>2
      <4>2. i + 1 \in 1 .. Len(todo[r]) /\ todo[r][i + 1] \in Calls
        BY <4>1, <1>1
      <4> QED BY <4>1, <4>2, <1>2, <1>c, <1>3, <1>7
    <3> QED BY <2>1, <3>1, <3>2, <1>2 DEF SetAside
  <2> QED BY <2>2, <2>3
<1> QED BY <1>9, <1>11, <1>12, <1>13 DEF Settled

\* The call is executed that was approved and has not been executed.
LEMMA ExecuteKeeps ==
  ASSUME Exclusive, Settled, NEW r \in Runs, Execute(r) PROVE Settled'
<1>a. Types /\ SetAside /\ Ordered /\ ApprovedOnce
  BY DEF Settled
<1>1. /\ at[r] = "execute" /\ at' = [at EXCEPT ![r] = "settle"]
      /\ todo[r] \in Seq(Calls) /\ todo[r] # <<>> /\ Distinct(todo[r])
  BY <1>a DEF Execute, Goto, SetAside, Types
<1>2. /\ Tail(todo[r]) \in Seq(Calls) /\ Distinct(Tail(todo[r]))
      /\ \A i \in 1 .. Len(Tail(todo[r])) :
           i + 1 \in 2 .. Len(todo[r]) /\ Tail(todo[r])[i] = todo[r][i + 1]
  BY <1>1, TailDistinct
<1>c. PICK c \in Calls : c = Current(r) /\ c = todo[r][1]
  BY <1>1, TailDistinct DEF Current
<1>3. ask[c] = "resolved" /\ ran[c] = 0 /\ Approved(c)
  BY <1>1, <1>c, <1>a DEF SetAside
<1>4. /\ ran' = [ran EXCEPT ![c] = @ + 1] /\ todo' = [todo EXCEPT ![r] = Tail(todo[r])]
      /\ UNCHANGED <<ask, resume>>
  BY <1>c DEF Execute
<1>5. ran'[c] = 1 /\ \A d \in Calls \ {c} : ran'[d] = ran[d]
  BY <1>3, <1>4, <1>a DEF Types
<1>6. \A d \in Calls : Approved(d)' <=> Approved(d)
  BY <1>4 DEF Approved
<1>7. Types'
  BY <1>2, <1>4, <1>a DEF Types
<1>8. /\ at'[r] = "settle" /\ todo'[r] = Tail(todo[r])
      /\ \A q \in Runs \ {r} : at'[q] = at[q] /\ at[q] \notin Working
  BY <1>1, <1>4, <1>a, OneWorks DEF Exclusive, Working, Types
<1>9. SetAside'
  <2>1. \A i \in 1 .. Len(Tail(todo[r])) : ask'[Tail(todo[r])[i]] = "pending"
    BY <1>1, <1>2, <1>4, <1>a DEF SetAside
  <2> QED BY <1>2, <1>8, <2>1 DEF SetAside, Working
<1>10. Ordered'
  BY <1>1, <1>3, <1>4, <1>5, <1>8, <1>a DEF Ordered, Before
<1>11. ApprovedOnce'
  BY <1>3, <1>5, <1>6, <1>a DEF ApprovedOnce
<1> QED BY <1>7, <1>9, <1>10, <1>11 DEF Settled

\* A run parks one of its own calls ...
LEMMA AskKeeps ==
  ASSUME Exclusive, Settled, Batch \in Nat \ {0}, NEW r \in Runs, Ask(r) PROVE Settled'
<1>a. Types /\ SetAside /\ Ordered /\ ApprovedOnce
  BY DEF Settled
<1>1. PICK k \in 1 .. Batch : todo' = [todo EXCEPT ![r] = <<<<r, k>>>>]
  <2>1. 1 \in 1 .. Batch
    OBVIOUS
  <2>2. PICK n \in IF "batch" \in Faults THEN 1 .. Batch ELSE {1} :
          \E k \in 1 .. n : todo' = [todo EXCEPT ![r] = <<<<r, k>>>>]
    BY Zenon DEF Ask
  <2>3. n \in 1 .. Batch
    BY <2>1, <2>2
  <2>4. \A k \in 1 .. n : k \in 1 .. Batch
    BY <2>3
  <2> QED BY <2>2, <2>4
<1>2. at[r] = "loop" /\ at' = [at EXCEPT ![r] = "insert"] /\ UNCHANGED <<ask, ran, resume>>
  BY DEF Ask, Goto
<1>3. <<<<r, k>>>> \in Seq(Calls)
  <2>1. <<r, k>> \in Calls
    BY DEF Calls
  <2> QED BY <2>1
<1>4. Types'
  BY <1>1, <1>2, <1>3, <1>a DEF Types
<1>5. /\ at'[r] = "insert" /\ todo'[r] = <<<<r, k>>>>
      /\ \A q \in Runs \ {r} : at'[q] = at[q] /\ at[q] \notin Working
  BY <1>1, <1>2, <1>a, OneWorks DEF Exclusive, Working, Types
<1>6. SetAside'
  <2>1. todo'[r] # <<>> /\ todo'[r][1] = <<r, k>>
    BY <1>5
  <2> QED BY <1>5, <2>1 DEF SetAside, Working
<1>7. Ordered'
  BY <1>2, <1>5, <1>a DEF Ordered, Before
<1>8. ApprovedOnce'
  BY <1>2, <1>a DEF ApprovedOnce, Approved
<1> QED BY <1>4, <1>6, <1>7, <1>8 DEF Settled

\* ... whose interrupt nobody has seen yet.
LEMMA ParkInsertKeeps ==
  ASSUME Exclusive, Settled, NEW r \in Runs, ParkInsert(r) PROVE Settled'
<1>a. Types /\ SetAside /\ Ordered /\ ApprovedOnce
  BY DEF Settled
<1>1. /\ at[r] = "insert" /\ at' = [at EXCEPT ![r] = "parkPersist"]
      /\ UNCHANGED <<ran, resume, todo>>
  BY DEF ParkInsert, Goto
<1>2. PICK k \in 1 .. Batch : todo[r] # <<>> /\ todo[r][1] = <<r, k>>
  BY <1>1, <1>a DEF SetAside
<1>c. PICK c \in Calls : c = Current(r) /\ c = <<r, k>>
  <2>1. Head(todo[r]) = todo[r][1]
    BY <1>2, <1>a DEF Types
  <2> QED BY <1>2, <2>1 DEF Current, Calls
<1>3. ask' = [ask EXCEPT ![c] = "pending"] /\ ask[c] = "none" /\ ran[c] = 0
  BY <1>1, <1>c, <1>a DEF ParkInsert, Ordered, Before
<1>4. Types' /\ \A d \in Calls \ {c} : ask'[d] = ask[d]
  BY <1>1, <1>3, <1>a DEF Types
<1>5. /\ at'[r] = "parkPersist"
      /\ \A q \in Runs \ {r} : at'[q] = at[q] /\ at[q] \notin Working
  BY <1>1, OneWorks DEF Exclusive, Working
<1>6. SetAside'
  BY <1>5 DEF SetAside, Working
<1>7. Ordered'
  <2>1. \A d \in Calls : ask'[d] \in {"none", "pending"} => ran'[d] = 0
    BY <1>1, <1>3, <1>4, <1>a DEF Ordered
  <2>2. ASSUME NEW q \in Runs, at'[q] \in Before, NEW j \in 1 .. Batch
        PROVE  ask'[<<q, j>>] = "none"
    <3>1. q # r /\ at[q] \in Before
      BY <2>2, <1>5 DEF Before
    <3>2. ask[<<q, j>>] = "none" /\ <<q, j>> \in Calls /\ <<q, j>> # c
      BY <3>1, <1>c, <1>a DEF Ordered, Calls
    <3> QED BY <3>2, <1>4
  <2>3. \A q \in Runs : at'[q] = "idle" => resume'[q] = NoAnswers
    BY <1>1, <1>5, <1>a DEF Ordered
  <2> QED BY <2>1, <2>2, <2>3 DEF Ordered
<1>8. ApprovedOnce'
  BY <1>1, <1>a DEF ApprovedOnce, Approved
<1> QED BY <1>4, <1>6, <1>7, <1>8 DEF Settled

\* Expiry and the import touch neither runs nor interrupts.
LEMMA StillKeeps ==
  ASSUME Settled, UNCHANGED <<at, ask, ran, resume, todo>> PROVE Settled'
BY DEF Settled, Types, SetAside, Ordered, ApprovedOnce, Approved

LEMMA NextSettled ==
  ASSUME IsFiniteSet(Calls), Batch \in Nat \ {0}, Exclusive, Settled, [Next]_runVars
  PROVE  Settled'
<1>1. CASE CacheExpires \/ FillExpires \/ ImportPersist \/ ImportInvalidate \/ UNCHANGED runVars
  <2>1. UNCHANGED <<at, ask, ran, resume, todo>>
    BY <1>1 DEF CacheExpires, FillExpires, ImportPersist, ImportInvalidate, runVars
  <2> QED BY <2>1, StillKeeps
<1> QED
  BY <1>1, OthersKeep, PreflightKeeps, BeginKeeps, SettleKeeps, ExecuteKeeps, AskKeeps,
     ParkInsertKeeps DEF Next, Step

\* A parked call is executed at most once, and only on an approval, however
\* often its answer is sent and whatever fails: crashes at any point, with every
\* race and fault of the model (lib.rs start_run, drive, resume_and_continue).
THEOREM ApprovalOnce ==
  ASSUME IsFiniteSet(Runs), Batch \in Nat \ {0}
  PROVE  Spec => []ApprovedOnce
<1>0. IsFiniteSet(Calls)
  <2>1. IsFiniteSet(1 .. Batch)
    BY FS_Interval
  <2> QED BY <2>1, FS_Product DEF Calls
<1>1. Init => Exclusive /\ Settled
  BY InitExclusive, InitSettled
<1>2. Exclusive /\ Settled /\ [Next]_runVars => Exclusive' /\ Settled'
  BY <1>0, NextExclusive, NextSettled
<1>3. Settled => ApprovedOnce
  BY DEF Settled
<1> QED BY <1>1, <1>2, <1>3, PTL DEF Spec

-----------------------------------------------------------------------------
(* The calls in the tree *)

\* Nothing overlaps a run and nothing fails in the places that have a name.
Calm == Races \cap {"preflight", "import"} = {} /\ Faults = {}

Sound(e) == e.kind \in {"call", "result"}

\* From entry i on the tree has calls and results only; its call has its result.
Open(t, i) == \A j \in i .. Len(t) : Sound(t[j])
Answered(t, i) ==
  \E k \in i + 1 .. Len(t) : /\ t[k] = Msg("result", t[i].id)
                             /\ \A j \in i .. k : Sound(t[j])

HasCall(t, c) == \E k \in 1 .. Len(t) : t[k] = Msg("call", c)
HasResult(t, c) == \E k \in 1 .. Len(t) : t[k] = Msg("result", c)

\* Every call of a tree is pending (P), failed (F) or answered ...
Whole(t, P, F) ==
  \A i \in 1 .. Len(t) : t[i].kind = "call" =>
    (t[i].id \in P /\ Open(t, i)) \/ t[i].id \in F \/ Answered(t, i)

\* ... or, of the calls that were asked for (A), has been settled and not stored.
Loose(t, P, F, A) ==
  \A i \in 1 .. Len(t) : t[i].kind = "call" =>
    \/ t[i].id \in A /\ Open(t, i) /\ (t[i].id \in P \/ ~HasResult(t, t[i].id))
    \/ t[i].id \in F \/ Answered(t, i)

\* Results are those of calls that were settled (D).
Results(t, D) == \A k \in 1 .. Len(t) : t[k].kind = "result" => t[k].id \in D

\* The calls of c end the tree.
Ready(t, c) == \A i \in 1 .. Len(t) : t[i] = Msg("call", c) => Open(t, i)

Failing == {c \in Calls : ask[c] = "resolved" /\ ran[c] = 0 /\ Approved(c)}
Done == Asked \ Pending

Early == {"load", "again", "read", "fill", "unlock", "heat"}
Told == {"settle", "execute", "loop", "insert", "parkPersist", "persist"}

Trees ==
  /\ db \in Seq(Entries)
  /\ work \in [Runs -> Seq(Entries)]

\* What the run has in memory.
Tale(r) ==
  /\ at[r] \in {"fill", "unlock", "heat"} => work[r] = db
  /\ at[r] \in Early => resume[r] # NoAnswers \/ Pending = {}
  /\ at[r] \in Told => Results(work[r], Done)
  /\ at[r] \in {"settle", "execute", "loop", "parkPersist", "persist"} =>
       Whole(work[r], Pending, Failing) /\ \A c \in Pending : HasCall(work[r], c)
  /\ at[r] = "settle" => \A c \in Pending : \E i \in 1 .. Len(todo[r]) : todo[r][i] = c
  /\ at[r] = "execute" =>
       /\ \A c \in Pending : \E i \in 2 .. Len(todo[r]) : todo[r][i] = c
       /\ Ready(work[r], todo[r][1])
       /\ Ready(db, todo[r][1]) /\ ~HasResult(db, todo[r][1])
  /\ at[r] \in {"loop", "insert"} => Pending = {}
  /\ at[r] = "insert" =>
       \E t \in Seq(Entries) : Whole(t, {}, Failing) /\ work[r] = Append(t, Msg("call", todo[r][1]))

\* What Postgres has.
Stored ==
  /\ Results(db, Done)
  /\ Loose(db, Pending, Failing, Asked)
  /\ (\A r \in Runs : at[r] \notin Told) => Whole(db, Pending, Failing)
  /\ (\A r \in Runs : at[r] # "parkPersist") => \A c \in Pending : HasCall(db, c)

Story == Trees /\ Stored /\ \A r \in Runs : Tale(r)

-----------------------------------------------------------------------------
LEMMA MsgIs ==
  ASSUME NEW k, NEW c PROVE Msg(k, c).kind = k /\ Msg(k, c).id = c
BY DEF Msg

LEMMA EntryIs ==
  ASSUME NEW e \in Entries PROVE e = Msg(e.kind, e.id)
BY DEF Entries, Msg

LEMMA Appended ==
  ASSUME NEW t \in Seq(Entries), NEW e \in Entries
  PROVE  /\ Append(t, e) \in Seq(Entries) /\ Len(Append(t, e)) = Len(t) + 1 /\ Len(t) \in Nat
         /\ \A i \in 1 .. Len(t) : Append(t, e)[i] = t[i] /\ i \in 1 .. Len(t) + 1
         /\ Append(t, e)[Len(t) + 1] = e
OBVIOUS

\* An answer stays one; a sound entry leaves the calls open that were.
LEMMA AnsweredStays ==
  ASSUME NEW t \in Seq(Entries), NEW e \in Entries, NEW i \in 1 .. Len(t), Answered(t, i)
  PROVE  Answered(Append(t, e), i)
<1>1. PICK k \in i + 1 .. Len(t) :
        t[k] = Msg("result", t[i].id) /\ \A j \in i .. k : Sound(t[j])
  BY DEF Answered
<1>2. \A j \in i .. k : Append(t, e)[j] = t[j]
  BY Appended
<1>3. k \in i + 1 .. Len(Append(t, e)) /\ k \in i .. k /\ i \in i .. k
  BY Appended
<1>4. Append(t, e)[k] = Msg("result", Append(t, e)[i].id)
  BY <1>1, <1>2, <1>3
<1>5. \A j \in i .. k : Sound(Append(t, e)[j])
  BY <1>1, <1>2
<1> QED BY <1>3, <1>4, <1>5 DEF Answered

LEMMA OpenStays ==
  ASSUME NEW t \in Seq(Entries), NEW e \in Entries, NEW i \in 1 .. Len(t), Open(t, i), Sound(e)
  PROVE  Open(Append(t, e), i)
BY Appended DEF Open

\* With no call pending anything but a call may follow ...
LEMMA AnyFollows ==
  ASSUME NEW t \in Seq(Entries), NEW e \in Entries, e.kind # "call", NEW F, Whole(t, {}, F)
  PROVE  Whole(Append(t, e), {}, F)
<1> SUFFICES ASSUME NEW i \in 1 .. Len(t) + 1, Append(t, e)[i].kind = "call"
             PROVE  Append(t, e)[i].id \in F \/ Answered(Append(t, e), i)
  BY Appended DEF Whole
<1>1. i \in 1 .. Len(t) /\ Append(t, e)[i] = t[i]
  BY Appended
<1>2. t[i].id \in F \/ Answered(t, i)
  BY <1>1 DEF Whole
<1> QED BY <1>1, <1>2, AnsweredStays

\* ... or a call, which is then pending.
LEMMA CallFollows ==
  ASSUME NEW t \in Seq(Entries), NEW c, Msg("call", c) \in Entries, NEW F, Whole(t, {}, F)
  PROVE  LET s == Append(t, Msg("call", c)) IN Whole(s, {c}, F) /\ HasCall(s, c)
<1> DEFINE s == Append(t, Msg("call", c))
<1>1. HasCall(s, c)
  BY Appended DEF HasCall
<1>2. ASSUME NEW i \in 1 .. Len(t) + 1, s[i].kind = "call"
      PROVE  (s[i].id \in {c} /\ Open(s, i)) \/ s[i].id \in F \/ Answered(s, i)
  <2>1. CASE i = Len(t) + 1
    <3>1. s[i] = Msg("call", c) /\ Len(s) = i
      BY <2>1, Appended
    <3> QED BY <3>1, MsgIs DEF Open, Sound
  <2>2. CASE i # Len(t) + 1
    <3>1. i \in 1 .. Len(t) /\ s[i] = t[i]
      BY <2>2, Appended
    <3>2. t[i].id \in F \/ Answered(t, i)
      BY <1>2, <3>1 DEF Whole
    <3> QED BY <3>1, <3>2, AnsweredStays
  <2> QED BY <2>1, <2>2
<1>3. Len(s) = Len(t) + 1
  BY Appended
<1> HIDE DEF s
<1>4. Whole(s, {c}, F)
  BY <1>2, <1>3 DEF Whole
<1> QED BY <1>1, <1>4 DEF s

\* A result answers the calls of its id, if these end the tree.
LEMMA ResultFollows ==
  ASSUME NEW t \in Seq(Entries), NEW c, Msg("result", c) \in Entries, NEW P, NEW F,
         Whole(t, P, F), Ready(t, c)
  PROVE  Whole(Append(t, Msg("result", c)), P \ {c}, F \ {c})
<1> DEFINE e == Msg("result", c)
           s == Append(t, e)
<1>0. e.kind = "result" /\ Sound(e) /\ e \in Entries
  BY MsgIs DEF Sound
<1>1. ASSUME NEW i \in 1 .. Len(t) + 1, s[i].kind = "call"
      PROVE  (s[i].id \in P \ {c} /\ Open(s, i)) \/ s[i].id \in F \ {c} \/ Answered(s, i)
  <2>1. i \in 1 .. Len(t) /\ s[i] = t[i] /\ t[i] \in Entries
    BY <1>0, <1>1, Appended
  <2>2. CASE t[i].id = c
    <3>1. Open(t, i)
      BY <1>1, <2>1, <2>2, EntryIs DEF Ready
    <3>2. Open(s, i)
      BY <1>0, <2>1, <3>1, OpenStays
    <3>3. Len(s) = Len(t) + 1 /\ s[Len(t) + 1] = e /\ Len(t) \in Nat
      BY <1>0, Appended
    <3>4. \A j \in i .. Len(t) + 1 : Sound(s[j])
      BY <3>2, <3>3 DEF Open
    <3>5. Len(t) + 1 \in i + 1 .. Len(s) /\ s[Len(t) + 1] = Msg("result", s[i].id)
      BY <2>1, <2>2, <3>3
    <3> HIDE DEF s
    <3> QED BY <3>4, <3>5 DEF Answered
  <2>3. CASE t[i].id # c
    <3>1. (t[i].id \in P /\ Open(t, i)) \/ t[i].id \in F \/ Answered(t, i)
      BY <1>1, <2>1 DEF Whole
    <3> QED BY <1>0, <2>1, <2>3, <3>1, OpenStays, AnsweredStays
  <2> QED BY <2>2, <2>3
<1>2. Len(s) = Len(t) + 1
  BY <1>0, Appended
<1> HIDE DEF s
<1>3. Whole(s, P \ {c}, F \ {c})
  BY <1>1, <1>2 DEF Whole
<1> QED BY <1>3 DEF s

LEMMA WholeGrows ==
  ASSUME NEW t, NEW P, NEW F, NEW P2, NEW F2, Whole(t, P, F), P \subseteq P2, F \subseteq F2
  PROVE  Whole(t, P2, F2)
BY DEF Whole

LEMMA LooseGrows ==
  ASSUME NEW t, NEW P, NEW F, NEW A, NEW P2, NEW F2, NEW A2, Loose(t, P, F, A),
         P \subseteq P2, F \subseteq F2, A \subseteq A2
  PROVE  Loose(t, P2, F2, A2)
BY DEF Loose

\* A pending call that is approved has failed until it is executed.
LEMMA WholeMoves ==
  ASSUME NEW t, NEW P, NEW F, NEW F2, NEW c, Whole(t, P, F), F \cup {c} \subseteq F2
  PROVE  Whole(t, P \ {c}, F2)
BY DEF Whole

LEMMA WholeIsLoose ==
  ASSUME NEW t, NEW P, NEW F, NEW A, Whole(t, P, F), P \subseteq A
  PROVE  Loose(t, P, F, A)
BY DEF Whole, Loose

\* A call that was not settled has no result, and ends the tree.
LEMMA UnsettledReady ==
  ASSUME NEW t \in Seq(Entries), NEW P, NEW F, NEW A, NEW D, NEW c,
         Loose(t, P, F, A), Results(t, D), c \notin D, c \notin F
  PROVE  Ready(t, c) /\ ~HasResult(t, c)
<1>1. ~HasResult(t, c)
  BY MsgIs DEF HasResult, Results
<1>2. ASSUME NEW i \in 1 .. Len(t), t[i] = Msg("call", c) PROVE Open(t, i)
  <2>1. t[i].kind = "call" /\ t[i].id = c
    BY <1>2, MsgIs
  <2>2. ~Answered(t, i)
    <3> SUFFICES ASSUME NEW k \in i + 1 .. Len(t), t[k] = Msg("result", c) PROVE FALSE
      BY <2>1 DEF Answered
    <3>1. k \in 1 .. Len(t)
      OBVIOUS
    <3> QED BY <3>1, <1>1 DEF HasResult
  <2> QED BY <2>1, <2>2 DEF Loose
<1> QED BY <1>1, <1>2 DEF Ready

\* Settling or executing a call of the stored tree before its result is stored.
LEMMA LooseMoves ==
  ASSUME NEW t \in Seq(Entries), NEW P, NEW F, NEW A, NEW c, NEW P2, NEW F2, c \in A,
         Loose(t, P, F, A), Ready(t, c), ~HasResult(t, c), P \ {c} \subseteq P2, F \ {c} \subseteq F2
  PROVE  Loose(t, P2, F2, A)
<1> SUFFICES ASSUME NEW i \in 1 .. Len(t), t[i].kind = "call"
             PROVE  \/ t[i].id \in A /\ Open(t, i) /\ (t[i].id \in P2 \/ ~HasResult(t, t[i].id))
                    \/ t[i].id \in F2 \/ Answered(t, i)
  BY DEF Loose
<1>1. CASE t[i].id = c
  <2>1. t[i] \in Entries
    OBVIOUS
  <2>2. t[i] = Msg("call", c)
    BY <1>1, <2>1, EntryIs
  <2> QED BY <1>1, <2>2 DEF Ready
<1>2. CASE t[i].id # c
  BY <1>2 DEF Loose
<1> QED BY <1>1, <1>2

LEMMA ResultsFollow ==
  ASSUME NEW t \in Seq(Entries), NEW e \in Entries, NEW D, NEW D2, Results(t, D), D \subseteq D2,
         e.kind = "result" => e.id \in D2
  PROVE  Results(Append(t, e), D2)
BY Appended DEF Results

LEMMA HasCallStays ==
  ASSUME NEW t \in Seq(Entries), NEW e \in Entries, NEW c, HasCall(t, c)
  PROVE  HasCall(Append(t, e), c)
BY Appended DEF HasCall

-----------------------------------------------------------------------------
LEMMA KindsAre ==
  ASSUME Batch \in Nat \ {0}
  PROVE  /\ \A c \in Calls : {Msg("call", c), Msg("result", c)} \subseteq Entries
         /\ \A r \in Runs : {Msg("user", <<r, 0>>), Msg("final", <<r, 0>>),
                             Msg("imported", <<r, 0>>)} \subseteq Entries
BY DEF Msg, Entries, Calls

LEMMA SetsAre ==
  ASSUME Settled
  PROVE  /\ Pending \subseteq Asked /\ Asked \subseteq Calls
         /\ Done = {c \in Calls : ask[c] \in {"resolved", "cancelled"}}
         /\ Failing \subseteq Done
BY DEF Settled, Types, Pending, Asked, Done, Failing

LEMMA SameSets ==
  ASSUME UNCHANGED <<ask, ran, resume>>
  PROVE  Pending' = Pending /\ Asked' = Asked /\ Done' = Done /\ Failing' = Failing
BY DEF Pending, Asked, Done, Failing, Approved

LEMMA SameTale ==
  ASSUME NEW q \in Runs, Tale(q), UNCHANGED <<db, ask, ran, resume>>,
         at'[q] = at[q], work'[q] = work[q], todo'[q] = todo[q]
  PROVE  Tale(q)'
BY SameSets DEF Tale

LEMMA NoTale ==
  ASSUME NEW q \in Runs, at[q] \notin Working PROVE Tale(q)
BY DEF Tale, Working, Early, Told

\* A run at work decides alone.
LEMMA Alone ==
  ASSUME Exclusive, NEW r \in Runs, at[r] \in Working, NEW to, at' = [at EXCEPT ![r] = to]
  PROVE  /\ at'[r] = to /\ \A q \in Runs \ {r} : at'[q] = at[q] /\ at'[q] \notin Working
         /\ \A q \in Runs \ {r} : at'[q] \notin Told /\ at'[q] # "parkPersist"
         /\ \A q \in Runs \ {r} : Tale(q)'
<1>1. at'[r] = to /\ \A q \in Runs \ {r} : at'[q] = at[q] /\ at'[q] \notin Working
  BY OneWorks DEF Exclusive
<1>2. ASSUME NEW q \in Runs \ {r} PROVE Tale(q)'
  BY <1>1 DEF Tale, Working, Early, Told
<1> QED BY <1>1, <1>2 DEF Working, Told

\* The next tree is read: from the cache, or from Postgres.
LEMMA ReadsTell ==
  ASSUME Exclusive, Cached, Story, NEW r \in Runs,
         \/ LoadTree(r) \/ LookAgain(r) \/ ReadTree(r) \/ FillCache(r) \/ FillUnlock(r)
         \/ HeatFails(r)
  PROVE  Story'
<1>a. Trees /\ Stored /\ Tale(r)
  BY DEF Story
<1>1. at[r] \in Early /\ UNCHANGED <<db, ask, ran, resume, todo>>
  BY DEF LoadTree, LookAgain, ReadTree, FillCache, FillUnlock, HeatFails, Goto, Early
<1>2. cache # {} => (CHOOSE t \in cache : TRUE) = db
  <2>1. (\A q \in Runs : at[q] \notin {"invalidate", "recache"}) /\ ~importing
    BY <1>1, OneWorks DEF Exclusive, Cached, Early, Working
  <2> QED BY <2>1 DEF Cached
<1>3. PICK to \in Early \cup {"dead"} :
        /\ at' = [at EXCEPT ![r] = to]
        /\ work' = work \/ work' = [work EXCEPT ![r] = db]
        /\ to \in {"fill", "unlock", "heat"} => work'[r] = db
  <2>1. CASE LoadTree(r)
    BY <2>1, <1>2, <1>a DEF LoadTree, Goto, Early, Trees
  <2>2. CASE LookAgain(r)
    BY <2>2, <1>2, <1>a DEF LookAgain, Goto, Early, Trees
  <2>3. CASE ReadTree(r)
    BY <2>3, <1>a DEF ReadTree, Goto, Early, Trees
  <2>4. CASE FillCache(r) \/ FillUnlock(r)
    BY <2>4, <1>a DEF FillCache, FillUnlock, Goto, Early, Tale
  <2>5. CASE HeatFails(r)
    BY <2>5 DEF HeatFails, Goto, Early
  <2> QED BY <2>1, <2>2, <2>3, <2>4, <2>5
<1>4. at[r] \in Working
  BY <1>1 DEF Early, Working
<1>5. Tale(r)'
  <2>1. at'[r] \in Early \cup {"dead"} /\ (at'[r] \in {"fill", "unlock", "heat"} => work'[r] = db)
    BY <1>3, <1>4, Alone
  <2>2. resume'[r] # NoAnswers \/ Pending' = {}
    BY <1>1, <1>a, SameSets DEF Tale
  <2> QED BY <1>1, <2>1, <2>2 DEF Tale, Early, Told
<1>6. Stored'
  BY <1>1, <1>3, <1>4, <1>a, Alone, SameSets DEF Stored, Early, Told
<1>7. Trees'
  BY <1>1, <1>3, <1>a DEF Trees
<1> QED BY <1>3, <1>4, <1>5, <1>6, <1>7, Alone DEF Story

\* SetToSeq leaves nothing out.
LEMMA SeqHasAll ==
  ASSUME NEW S, IsFiniteSet(S), NEW c \in S
  PROVE  \E i \in 1 .. Len(SetToSeq(S)) : SetToSeq(S)[i] = c
<1> DEFINE s == SetToSeq(S)
<1>1. PICK f : f \in Bijection(1 .. Cardinality(S), S)
  BY FS_CardinalityType DEF ExistsBijection
<1>2. f \in [1 .. Cardinality(S) -> S] /\ IsInjective(f)
  BY <1>1 DEF Bijection, Injection
<1>3. s \in [1 .. Cardinality(S) -> S] /\ IsInjective(s)
  BY <1>2 DEF SetToSeq
<1>4. Cardinality(S) \in Nat
  BY FS_CardinalityType
<1> HIDE DEF s
<1>5. s \in Injection(1 .. Cardinality(S), S)
  BY <1>3 DEF Injection
<1>6. Cardinality(1 .. Cardinality(S)) = Cardinality(S)
  BY <1>4, FS_Interval
<1>7. s \in Surjection(1 .. Cardinality(S), S)
  BY <1>5, <1>6, FS_Injection
<1>8. \E i \in 1 .. Cardinality(S) : s[i] = c
  BY <1>7 DEF Surjection
<1>9. Len(s) = Cardinality(S)
  BY <1>3, <1>4
<1> QED BY <1>8, <1>9 DEF s

LEMMA BeginTells ==
  ASSUME Calm, IsFiniteSet(Calls), Batch \in Nat \ {0}, Exclusive, Settled, Story,
         NEW r \in Runs, Begin(r)
  PROVE  Story'
<1>a. Trees /\ Stored /\ Tale(r)
  BY DEF Story
<1>1. at[r] = "heat" /\ at[r] \in Working /\ UNCHANGED <<db, ask, ran, resume>>
  BY DEF Begin, Goto, Working
<1>2. /\ work[r] = db /\ db \in Seq(Entries) /\ Results(db, Done)
      /\ resume[r] # NoAnswers \/ Pending = {}
  BY <1>1, <1>a DEF Tale, Stored, Trees, Early
<1>3. Whole(db, Pending, Failing) /\ \A c \in Pending : HasCall(db, c)
  <2>1. \A q \in Runs : at[q] \notin Told /\ at[q] # "parkPersist"
    BY <1>1, OneWorks DEF Told, Working
  <2> QED BY <2>1, <1>a DEF Stored
<1>4. Guidance(r) = <<>>
  BY DEF Guidance, Calm
<1>5. CASE resume[r] # NoAnswers
  <2>1. at' = [at EXCEPT ![r] = "settle"] /\ todo' = [todo EXCEPT ![r] = SetToSeq(Pending)]
    BY <1>5 DEF Begin, Goto
  <2>2. work' = work /\ work'[r] = db
    <3>1. work' = [work EXCEPT ![r] = work[r] \o <<>>]
      BY <1>4, <1>5 DEF Begin
    <3>2. work[r] \o <<>> = work[r]
      BY <1>2
    <3> QED BY <3>1, <3>2, <1>2, <1>a DEF Trees
  <2>3. \A c \in Pending : \E i \in 1 .. Len(SetToSeq(Pending)) : SetToSeq(Pending)[i] = c
    BY SeqHasAll, FS_Subset, SetsAre DEF Pending
  <2>4. todo'[r] = SetToSeq(Pending)
    BY <2>1 DEF Settled, Types
  <2>5. Tale(r)'
    BY <1>1, <1>2, <1>3, <2>1, <2>2, <2>3, <2>4, Alone, SameSets DEF Tale, Early, Told
  <2>6. Stored'
    BY <1>1, <1>3, <2>1, <1>a, Alone, SameSets DEF Stored, Told
  <2>7. Trees'
    BY <1>1, <2>2, <1>a DEF Trees
  <2> QED BY <1>1, <2>1, <2>5, <2>6, <2>7, Alone DEF Story
<1>6. CASE resume[r] = NoAnswers
  <2> DEFINE e == Msg("user", <<r, 0>>)
  <2>1. at' = [at EXCEPT ![r] = "loop"] /\ UNCHANGED todo
    BY <1>6 DEF Begin, Goto
  <2>2. e \in Entries /\ e.kind = "user"
    BY KindsAre, MsgIs
  <2>3. work' = [work EXCEPT ![r] = Append(db, e)]
    <3>1. work' = [work EXCEPT ![r] = work[r] \o <<>> \o <<e>>]
      BY <1>4, <1>6 DEF Begin
    <3> HIDE DEF e
    <3>2. work[r] \o <<>> \o <<e>> = Append(db, e)
      BY <1>2, <2>2
    <3> QED BY <3>1, <3>2
  <2> HIDE DEF e
  <2>4. work'[r] = Append(db, e) /\ Append(db, e) \in Seq(Entries)
    BY <2>2, <2>3, <1>2, <1>a DEF Trees
  <2>5. Pending = {}
    BY <1>2, <1>6
  <2>6. Whole(work'[r], {}, Failing) /\ Results(work'[r], Done)
    BY <1>2, <1>3, <2>2, <2>4, <2>5, AnyFollows, ResultsFollow
  <2>7. Tale(r)'
    <3>1. at'[r] = "loop" /\ Pending' = {} /\ Failing' = Failing /\ Done' = Done
      BY <1>1, <2>1, <2>5, Alone, SameSets
    <3> QED BY <2>6, <3>1 DEF Tale, Early
  <2>8. Stored'
    BY <1>1, <1>3, <2>1, <1>a, Alone, SameSets DEF Stored, Told
  <2>9. Trees'
    BY <1>1, <1>a, <2>3, <2>4 DEF Trees
  <2> QED BY <1>1, <2>1, <2>7, <2>8, <2>9, Alone DEF Story
<1> QED BY <1>5, <1>6

\* What SettleKeeps and ExecuteKeeps say of the call in hand.
LEMMA InHand ==
  ASSUME Settled, NEW r \in Runs, at[r] = "execute" \/ (at[r] = "settle" /\ todo[r] # <<>>)
  PROVE  /\ Current(r) = todo[r][1] /\ Current(r) \in Calls
         /\ at[r] = "settle" => Current(r) \in Pending
         /\ at[r] = "execute" => Current(r) \in Failing /\ Current(r) \notin Pending
         /\ \A i \in 2 .. Len(todo[r]) : /\ todo[r][i] # todo[r][1]
                                         /\ i - 1 \in 1 .. Len(Tail(todo[r]))
                                         /\ Tail(todo[r])[i - 1] = todo[r][i]
         /\ todo[r] \in Seq(Calls) /\ todo[r] # <<>>
<1>a. Types /\ SetAside
  BY DEF Settled
<1>1. todo[r] \in Seq(Calls) /\ todo[r] # <<>> /\ Distinct(todo[r])
  BY <1>a DEF SetAside, Types
<1>2. /\ todo[r][1] \in Calls /\ Head(todo[r]) = todo[r][1]
      /\ \A i \in 2 .. Len(todo[r]) : todo[r][i] # todo[r][1]
  BY <1>1, TailDistinct
<1>3. \A i \in 2 .. Len(todo[r]) : /\ i - 1 \in 1 .. Len(Tail(todo[r]))
                                   /\ Tail(todo[r])[i - 1] = todo[r][i]
  BY <1>1
<1>4. 1 \in 1 .. Len(todo[r])
  BY <1>1
<1>5. at[r] = "settle" => ask[todo[r][1]] = "pending"
  BY <1>4, <1>a DEF SetAside
<1>6. at[r] = "execute" =>
        ask[todo[r][1]] = "resolved" /\ ran[todo[r][1]] = 0 /\ Approved(todo[r][1])
  BY <1>a DEF SetAside
<1> QED BY <1>1, <1>2, <1>3, <1>5, <1>6 DEF Current, Pending, Failing

LEMMA SettleTells ==
  ASSUME Batch \in Nat \ {0}, Exclusive, Settled, Story, NEW r \in Runs, Settle(r)
  PROVE  Story'
<1>a. Trees /\ Stored /\ Tale(r) /\ Types
  BY DEF Story, Settled
<1>0. at[r] = "settle" /\ at[r] \in Working /\ todo[r] # <<>> /\ UNCHANGED <<db, ran, resume>>
  BY DEF Settle, Working
<1>c. PICK c \in Pending :
        /\ c = Current(r) /\ c = todo[r][1] /\ c \in Calls
        /\ \A i \in 2 .. Len(todo[r]) : /\ todo[r][i] # c
                                        /\ i - 1 \in 1 .. Len(Tail(todo[r]))
                                        /\ Tail(todo[r])[i - 1] = todo[r][i]
  BY <1>0, InHand
<1>1. PICK st \in {"resolved", "cancelled"} :
        /\ ask' = [ask EXCEPT ![c] = st]
        /\ resume[r][c] = "approve" => st = "resolved"
  BY <1>c DEF Settle
<1>2. /\ Pending' = Pending \ {c} /\ Asked' = Asked /\ Done' = Done \cup {c}
      /\ Failing \subseteq Failing' /\ c \notin Done /\ c \notin Failing /\ c \in Asked
  <2>1. ask'[c] = st /\ \A d \in Calls \ {c} : ask'[d] = ask[d]
    BY <1>1, <1>c, <1>a DEF Types
  <2>2. ask[c] = "pending"
    BY <1>c DEF Pending
  <2>3. \A d \in Calls : Approved(d)' <=> Approved(d)
    BY <1>0 DEF Approved
  <2>4. Pending' = Pending \ {c} /\ Asked' = Asked
    BY <2>1, <2>2, <1>c DEF Pending, Asked
  <2>5. Done' = Done \cup {c} /\ c \notin Done /\ c \in Asked
    BY <2>2, <2>4, <1>c DEF Done, Asked
  <2>6. Failing \subseteq Failing' /\ c \notin Failing
    BY <2>1, <2>2, <2>3, <1>0, <1>c DEF Failing
  <2> QED BY <2>4, <2>5, <2>6
<1>3. /\ Ready(db, c) /\ ~HasResult(db, c) /\ Results(db, Done') /\ Loose(db, Pending', Failing', Asked')
      /\ db \in Seq(Entries) /\ work[r] \in Seq(Entries)
  <2>1. Results(db, Done) /\ Loose(db, Pending, Failing, Asked) /\ db \in Seq(Entries)
    BY <1>a DEF Stored, Trees
  <2>2. Ready(db, c) /\ ~HasResult(db, c)
    BY <2>1, <1>2, UnsettledReady
  <2>3. Results(db, Done')
    BY <2>1, <1>2 DEF Results
  <2>4. Pending \ {c} \subseteq Pending' /\ Failing \ {c} \subseteq Failing'
    BY <1>2
  <2>5. Loose(db, Pending', Failing', Asked)
    BY <2>1, <2>2, <2>4, <1>2, LooseMoves
  <2> QED BY <2>1, <2>2, <2>3, <2>5, <1>2, <1>a DEF Trees
<1>4. /\ Whole(work[r], Pending, Failing) /\ Results(work[r], Done) /\ Ready(work[r], c)
      /\ \A d \in Pending : HasCall(work[r], d) /\ \E i \in 1 .. Len(todo[r]) : todo[r][i] = d
  <2>1. /\ Whole(work[r], Pending, Failing) /\ Results(work[r], Done)
        /\ \A d \in Pending : HasCall(work[r], d) /\ \E i \in 1 .. Len(todo[r]) : todo[r][i] = d
    BY <1>0, <1>a DEF Tale, Told
  <2>2. Loose(work[r], Pending, Failing, Asked)
    BY <2>1, SetsAre, WholeIsLoose
  <2> QED BY <2>1, <2>2, <1>2, <1>3, UnsettledReady
<1>5. \A d \in Pending' : \E i \in 2 .. Len(todo[r]) : todo[r][i] = d
  <2> SUFFICES ASSUME NEW d \in Pending, d # c
               PROVE  \E i \in 2 .. Len(todo[r]) : todo[r][i] = d
    BY <1>2
  <2>1. PICK i \in 1 .. Len(todo[r]) : todo[r][i] = d
    BY <1>4
  <2>2. i # 1
    BY <2>1, <1>c
  <2> QED BY <2>1, <2>2
<1>6. CASE resume[r][c] = "approve"
  <2>1. at' = [at EXCEPT ![r] = "execute"] /\ UNCHANGED <<work, todo>>
    BY <1>6, <1>c DEF Settle
  <2>2. c \in Failing'
    <3>1. st = "resolved" /\ ask'[c] = "resolved"
      BY <1>6, <1>1, <1>c, <1>a DEF Types
    <3>2. c \in DOMAIN resume[r]
      BY <1>c DEF Settle
    <3>3. Approved(c)'
      BY <3>2, <1>0, <1>6 DEF Approved
    <3>4. ran'[c] = 0
      BY <1>0, <1>c DEF Settled, Ordered, Pending
    <3> QED BY <3>1, <3>3, <3>4, <1>c DEF Failing
  <2>3. Whole(work[r], Pending', Failing')
    BY <1>2, <1>4, <2>2, WholeMoves
  <2>4. Results(work[r], Done')
    BY <1>2, <1>4 DEF Results
  <2>5. at'[r] = "execute"
    BY <2>1, <1>0, Alone
  <2>6. Tale(r)'
    BY <2>1, <2>3, <2>4, <2>5, <1>0, <1>2, <1>3, <1>4, <1>5, <1>c DEF Tale, Early, Told
  <2>7. \A d \in Pending' : HasCall(db, d)
    <3>1. \A q \in Runs : at[q] # "parkPersist"
      BY <1>0, OneWorks DEF Working
    <3> QED BY <3>1, <1>2, <1>a DEF Stored
  <2>8. Stored'
    BY <2>5, <2>7, <1>0, <1>3 DEF Stored, Told
  <2> QED BY <2>1, <2>6, <2>8, <1>0, <1>a, Alone DEF Story, Trees
<1>7. CASE resume[r][c] # "approve"
  <2> DEFINE e == Msg("result", c)
  <2>1. /\ todo' = [todo EXCEPT ![r] = Tail(todo[r])] /\ UNCHANGED at
        /\ work' = [work EXCEPT ![r] = Append(work[r], e)]
    BY <1>7, <1>c DEF Settle, Append1
  <2>2. e \in Entries /\ e.kind = "result" /\ e.id = c
    BY <1>c, KindsAre, MsgIs
  <2>3. Whole(Append(work[r], e), Pending \ {c}, Failing \ {c})
    BY <2>2, <1>3, <1>4, ResultFollows
  <2> HIDE DEF e
  <2>4. Whole(Append(work[r], e), Pending', Failing')
    <3>1. Pending \ {c} \subseteq Pending' /\ Failing \ {c} \subseteq Failing'
      BY <1>2
    <3> QED BY <2>3, <3>1, WholeGrows
  <2>5. Results(Append(work[r], e), Done')
    <3>1. Done \subseteq Done' /\ c \in Done'
      BY <1>2
    <3> QED BY <2>2, <3>1, <1>3, <1>4, ResultsFollow
  <2>6. \A d \in Pending' : HasCall(Append(work[r], e), d)
    BY <2>2, <1>2, <1>3, <1>4, HasCallStays
  <2>7. \A d \in Pending' : \E i \in 1 .. Len(Tail(todo[r])) : Tail(todo[r])[i] = d
    BY <1>5, <1>c
  <2>8. work'[r] = Append(work[r], e) /\ todo'[r] = Tail(todo[r]) /\ at'[r] = "settle"
    BY <2>1, <1>0, <1>a DEF Trees, Types
  <2>9. Tale(r)'
    BY <2>4, <2>5, <2>6, <2>7, <2>8 DEF Tale, Early, Told
  <2>10. \A q \in Runs \ {r} : Tale(q)'
    BY <2>1, <1>0, OneWorks DEF Tale, Working, Early, Told
  <2>11. Stored'
    <3>1. \A q \in Runs : at[q] # "parkPersist"
      BY <1>0, OneWorks DEF Working
    <3>2. \A d \in Pending' : HasCall(db, d)
      BY <3>1, <1>2, <1>a DEF Stored
    <3> QED BY <2>8, <3>2, <1>0, <1>3 DEF Stored, Told
  <2>12. Trees'
    <3>1. Append(work[r], e) \in Seq(Entries)
      BY <2>2, <1>3, Appended
    <3> QED BY <2>1, <3>1, <1>0, <1>a DEF Trees
  <2> QED BY <2>9, <2>10, <2>11, <2>12 DEF Story
<1> QED BY <1>6, <1>7

\* The result of what was executed.
LEMMA ExecuteTells ==
  ASSUME Batch \in Nat \ {0}, Exclusive, Settled, Story, NEW r \in Runs, Execute(r)
  PROVE  Story'
<1> DEFINE c == todo[r][1]
           e == Msg("result", c)
<1>a. Trees /\ Stored /\ Tale(r) /\ Types
  BY DEF Story, Settled
<1>0. at[r] = "execute" /\ at[r] \in Working /\ UNCHANGED <<db, ask, resume>>
  BY DEF Execute, Goto, Working
<1>c. /\ c = Current(r) /\ c \in Calls /\ c \in Failing /\ c \notin Pending
      /\ \A i \in 2 .. Len(todo[r]) : /\ i - 1 \in 1 .. Len(Tail(todo[r]))
                                      /\ Tail(todo[r])[i - 1] = todo[r][i]
  BY <1>0, InHand
<1>1. /\ at' = [at EXCEPT ![r] = "settle"] /\ ran' = [ran EXCEPT ![c] = @ + 1]
      /\ work' = [work EXCEPT ![r] = Append(work[r], e)]
      /\ todo' = [todo EXCEPT ![r] = Tail(todo[r])]
  BY <1>c DEF Execute, Goto, Append1
<1>2. /\ Pending' = Pending /\ Asked' = Asked /\ Done' = Done /\ Failing' = Failing \ {c}
      /\ c \in Done /\ c \in Asked
  <2>1. Pending' = Pending /\ Asked' = Asked /\ Done' = Done
    BY <1>0 DEF Pending, Asked, Done
  <2>2. \A d \in Calls : Approved(d)' <=> Approved(d)
    BY <1>0 DEF Approved
  <2>3. ran'[c] = 1 /\ \A d \in Calls \ {c} : ran'[d] = ran[d]
    BY <1>1, <1>c, <1>a DEF Types, Failing
  <2>4. Failing' = Failing \ {c}
    BY <2>2, <2>3, <1>0 DEF Failing
  <2>5. c \in Done /\ c \in Asked
    BY <1>c, SetsAre DEF Done
  <2> QED BY <2>1, <2>4, <2>5
<1>3. /\ Whole(work[r], Pending, Failing) /\ Results(work[r], Done)
      /\ \A d \in Pending : HasCall(work[r], d) /\ \E i \in 2 .. Len(todo[r]) : todo[r][i] = d
      /\ Ready(work[r], c) /\ Ready(db, c) /\ ~HasResult(db, c)
      /\ work[r] \in Seq(Entries) /\ db \in Seq(Entries)
  BY <1>0, <1>a DEF Tale, Told, Trees
<1>4. e \in Entries /\ e.kind = "result" /\ e.id = c
  BY <1>c, KindsAre, MsgIs
<1>5. Whole(Append(work[r], e), Pending \ {c}, Failing \ {c})
  BY <1>3, <1>4, ResultFollows
<1> HIDE DEF e, c
<1>6. /\ Whole(Append(work[r], e), Pending, Failing \ {c}) /\ Results(Append(work[r], e), Done)
      /\ \A d \in Pending : HasCall(Append(work[r], e), d)
      /\ Append(work[r], e) \in Seq(Entries)
  <2>1. Pending \ {c} = Pending
    BY <1>c
  <2> QED BY <2>1, <1>2, <1>3, <1>4, <1>5, ResultsFollow, HasCallStays, Appended
<1>7. /\ work'[r] = Append(work[r], e) /\ todo'[r] = Tail(todo[r]) /\ at'[r] = "settle"
  BY <1>0, <1>1, <1>a, Alone DEF Trees, Types
<1>8. \A d \in Pending : \E i \in 1 .. Len(Tail(todo[r])) : Tail(todo[r])[i] = d
  BY <1>3, <1>c
<1>9. Tale(r)'
  BY <1>2, <1>6, <1>7, <1>8 DEF Tale, Early, Told
<1>10. Stored'
  <2>1. Results(db, Done) /\ Loose(db, Pending, Failing, Asked)
    BY <1>a DEF Stored
  <2>2. Loose(db, Pending, Failing \ {c}, Asked)
    <3>1. Pending \ {c} \subseteq Pending /\ Failing \ {c} \subseteq Failing \ {c}
      OBVIOUS
    <3> QED BY <2>1, <3>1, <1>2, <1>3, LooseMoves
  <2>3. \A d \in Pending : HasCall(db, d)
    <3>1. \A q \in Runs : at[q] # "parkPersist"
      BY <1>0, OneWorks DEF Working
    <3> QED BY <3>1, <1>a DEF Stored
  <2> QED BY <2>1, <2>2, <2>3, <1>0, <1>2, <1>7 DEF Stored, Told
<1>11. Trees'
  BY <1>0, <1>1, <1>6, <1>a DEF Trees
<1> QED BY <1>0, <1>1, <1>9, <1>10, <1>11, Alone DEF Story

\* The run ends early, with what it has settled; or it goes on, with nothing pending.
LEMMA TurnsTell ==
  ASSUME Batch \in Nat \ {0}, Exclusive, Settled, Story, NEW r \in Runs,
         Uncovered(r) \/ ExecuteFails(r) \/ Continue(r) \/ Final(r) \/ LoopFails(r)
  PROVE  Story'
<1>a. Trees /\ Stored /\ Tale(r)
  BY DEF Story
<1>0. /\ at[r] \in {"settle", "execute", "loop"} /\ at[r] \in Working
      /\ UNCHANGED <<db, ask, ran, resume, todo>>
  BY DEF Uncovered, ExecuteFails, Continue, Final, LoopFails, Goto, Working
<1>1. /\ Whole(work[r], Pending, Failing) /\ Results(work[r], Done)
      /\ \A c \in Pending : HasCall(work[r], c)
      /\ work[r] \in Seq(Entries)
  BY <1>0, <1>a DEF Tale, Told, Trees
<1>2. PICK to \in {"persist", "loop"} :
        /\ at' = [at EXCEPT ![r] = to]
        /\ to = "loop" => at[r] = "settle" /\ todo[r] = <<>> /\ UNCHANGED work
        /\ UNCHANGED work \/ (Final(r) /\ at[r] = "loop")
  BY DEF Uncovered, ExecuteFails, Continue, Final, LoopFails, Goto
<1>3. to = "loop" => Pending = {}
  <2> SUFFICES ASSUME to = "loop", NEW c \in Pending PROVE FALSE
    OBVIOUS
  <2>1. \E i \in 1 .. Len(todo[r]) : todo[r][i] = c
    BY <1>2, <1>a DEF Tale
  <2> QED BY <2>1, <1>2
<1>4. /\ Whole(work'[r], Pending, Failing) /\ Results(work'[r], Done)
      /\ \A c \in Pending : HasCall(work'[r], c)
      /\ Trees'
  <2>1. CASE UNCHANGED work
    BY <2>1, <1>0, <1>1, <1>a DEF Trees
  <2>2. CASE Final(r) /\ at[r] = "loop"
    <3> DEFINE e == Msg("final", <<r, 0>>)
    <3>1. work' = [work EXCEPT ![r] = Append(work[r], e)] /\ Pending = {}
      BY <2>2, <1>a DEF Final, Append1, Tale
    <3>2. e \in Entries /\ e.kind = "final"
      BY KindsAre, MsgIs
    <3> HIDE DEF e
    <3>3. Whole(Append(work[r], e), {}, Failing) /\ Results(Append(work[r], e), Done)
          /\ Append(work[r], e) \in Seq(Entries)
      BY <3>1, <3>2, <1>1, AnyFollows, ResultsFollow, Appended
    <3> QED BY <3>1, <3>3, <1>0, <1>a DEF Trees
  <2> QED BY <2>1, <2>2, <1>2
<1>5. Tale(r)'
  <2>1. at'[r] \in {"persist", "loop"} /\ (at'[r] = "loop" => Pending' = {})
    BY <1>0, <1>2, <1>3, Alone, SameSets
  <2>2. Pending' = Pending /\ Failing' = Failing /\ Done' = Done
    BY <1>0, SameSets
  <2> QED BY <1>4, <2>1, <2>2 DEF Tale, Early
<1>6. Stored'
  <2>1. \A q \in Runs : at[q] # "parkPersist"
    BY <1>0, OneWorks DEF Working
  <2>2. at'[r] \in Told
    BY <1>0, <1>2, Alone DEF Told
  <2> QED BY <2>1, <2>2, <1>0, <1>a, SameSets DEF Stored
<1> QED BY <1>0, <1>2, <1>4, <1>5, <1>6, Alone DEF Story

\* The loop parks on the one call of its answer.
LEMMA AskTells ==
  ASSUME Calm, Batch \in Nat \ {0}, Exclusive, Settled, Story, NEW r \in Runs, Ask(r)
  PROVE  Story'
<1> DEFINE c == <<r, 1>>
           e == Msg("call", c)
<1>a. Trees /\ Stored /\ Tale(r) /\ Types
  BY DEF Story, Settled
<1>0. /\ at[r] = "loop" /\ at[r] \in Working /\ at' = [at EXCEPT ![r] = "insert"]
      /\ UNCHANGED <<db, ask, ran, resume>>
  BY DEF Ask, Goto, Working
<1>1. /\ Whole(work[r], {}, Failing) /\ Results(work[r], Done) /\ Pending = {}
      /\ work[r] \in Seq(Entries)
  <2>1. Pending = {}
    BY <1>0, <1>a DEF Tale
  <2> QED BY <2>1, <1>0, <1>a DEF Tale, Told, Trees
<1>2. c \in Calls /\ e \in Entries /\ e.kind = "call"
  <2>1. c \in Calls
    BY DEF Calls
  <2> QED BY <2>1, KindsAre, MsgIs
<1>3. work' = [work EXCEPT ![r] = Append(work[r], e)] /\ todo' = [todo EXCEPT ![r] = <<c>>]
  <2>1. PICK n \in {1} : \E k \in 1 .. n :
          /\ work' = [work EXCEPT ![r] = work[r] \o [i \in 1 .. n |-> Msg("call", <<r, i>>)]]
          /\ todo' = [todo EXCEPT ![r] = <<<<r, k>>>>]
    BY DEF Ask, Calm
  <2>2. [i \in 1 .. 1 |-> Msg("call", <<r, i>>)] = <<Msg("call", <<r, 1>>)>>
    OBVIOUS
  <2> HIDE DEF e
  <2>3. work[r] \o <<e>> = Append(work[r], e)
    BY <1>1, <1>2
  <2>4. n = 1 /\ \A k \in 1 .. n : k = 1
    BY <2>1
  <2> QED BY <2>1, <2>2, <2>3, <2>4 DEF e
<1> HIDE DEF e, c
<1>4. /\ at'[r] = "insert" /\ work'[r] = Append(work[r], e) /\ todo'[r] = <<c>> /\ todo'[r][1] = c
  BY <1>0, <1>3, <1>a, Alone DEF Trees, Types
<1>5. Results(Append(work[r], e), Done) /\ Append(work[r], e) \in Seq(Entries)
  BY <1>1, <1>2, ResultsFollow, Appended
<1>6. Tale(r)'
  <2>1. Pending' = {} /\ Failing' = Failing /\ Done' = Done
    BY <1>0, <1>1, SameSets
  <2>2. \E t \in Seq(Entries) : Whole(t, {}, Failing) /\ work'[r] = Append(t, Msg("call", todo'[r][1]))
    BY <1>1, <1>4 DEF e
  <2> QED BY <2>1, <2>2, <1>4, <1>5 DEF Tale, Early
<1>7. Stored'
  BY <1>0, <1>1, <1>4, <1>a, SameSets DEF Stored, Told
<1>8. Trees'
  BY <1>0, <1>3, <1>5, <1>a DEF Trees
<1> QED BY <1>0, <1>6, <1>7, <1>8, Alone DEF Story

\* Its interrupt comes before its tree.
LEMMA ParkInsertTells ==
  ASSUME Exclusive, Settled, Story, NEW r \in Runs, ParkInsert(r)
  PROVE  Story'
<1> DEFINE c == todo[r][1]
<1>a. Trees /\ Stored /\ Tale(r) /\ Types
  BY DEF Story, Settled
<1>0. /\ at[r] = "insert" /\ at[r] \in Working /\ at' = [at EXCEPT ![r] = "parkPersist"]
      /\ UNCHANGED <<db, ran, resume, work, todo>>
  BY DEF ParkInsert, Goto, Working
<1>1. PICK t \in Seq(Entries) : Whole(t, {}, Failing) /\ work[r] = Append(t, Msg("call", c))
  BY <1>0, <1>a DEF Tale
<1>2. c \in Calls /\ c = Current(r) /\ ask[c] = "none"
  <2>1. PICK k \in 1 .. Batch : todo[r] # <<>> /\ todo[r][1] = <<r, k>>
    BY <1>0 DEF Settled, SetAside
  <2>2. Head(todo[r]) = todo[r][1]
    BY <2>1, <1>a DEF Types
  <2>3. ask[<<r, k>>] = "none"
    BY <1>0 DEF Settled, Ordered, Before
  <2> QED BY <2>1, <2>2, <2>3 DEF Current, Calls
<1>3. Pending = {} /\ Results(work[r], Done)
  BY <1>0, <1>a DEF Tale, Told
<1>4. /\ Pending' = {c} /\ Asked' = Asked \cup {c} /\ Done' = Done /\ Failing' = Failing
  <2>1. ask' = [ask EXCEPT ![c] = "pending"]
    BY <1>2 DEF ParkInsert
  <2>2. ask'[c] = "pending" /\ \A d \in Calls \ {c} : ask'[d] = ask[d]
    BY <2>1, <1>2, <1>a DEF Types
  <2>3. \A d \in Calls : Approved(d)' <=> Approved(d)
    BY <1>0 DEF Approved
  <2>4. Pending' = {c} /\ Asked' = Asked \cup {c}
    BY <2>2, <1>2, <1>3 DEF Pending, Asked
  <2>5. Done' = Done
    BY <2>4, <1>2, <1>3 DEF Done, Asked
  <2>6. Failing' = Failing
    BY <2>2, <2>3, <1>0, <1>2 DEF Failing
  <2> QED BY <2>4, <2>5, <2>6
<1>5. Whole(work[r], {c}, Failing) /\ HasCall(work[r], c)
  <2>1. Msg("call", c) \in Entries
    BY <1>2 DEF Msg, Entries, Calls
  <2> QED BY <2>1, <1>1, CallFollows
<1>6. at'[r] = "parkPersist"
  BY <1>0, Alone
<1> HIDE DEF c
<1>7. Tale(r)'
  BY <1>0, <1>3, <1>4, <1>5, <1>6 DEF Tale, Early
<1>8. Stored'
  <2>1. Loose(db, {c}, Failing, Asked \cup {c}) /\ Results(db, Done)
    BY <1>3, <1>a, LooseGrows DEF Stored
  <2> QED BY <2>1, <1>0, <1>4, <1>6 DEF Stored, Told
<1> QED BY <1>0, <1>7, <1>8, <1>a, Alone DEF Story, Trees

\* The tree in memory is stored.
LEMMA PersistTells ==
  ASSUME Calm, Exclusive, Settled, Story, NEW r \in Runs, ParkPersist(r) \/ FinishPersist(r)
  PROVE  Story'
<1>a. Trees /\ Stored /\ Tale(r)
  BY DEF Story
<1>0. PICK to \in {"invalidate", "recache"} :
        /\ at[r] \in {"parkPersist", "persist"} /\ at[r] \in Working /\ at' = [at EXCEPT ![r] = to]
        /\ db' = work[r] /\ UNCHANGED <<ask, ran, resume, work, todo>>
  BY DEF ParkPersist, FinishPersist, Goto, Working, Calm
<1>1. /\ Whole(work[r], Pending, Failing) /\ Results(work[r], Done)
      /\ \A c \in Pending : HasCall(work[r], c) /\ work[r] \in Seq(Entries)
  BY <1>0, <1>a DEF Tale, Told, Trees
<1>2. at'[r] \in {"invalidate", "recache"}
  BY <1>0, Alone
<1>3. Tale(r)'
  BY <1>2 DEF Tale, Early, Told
<1>4. Stored'
  <2>1. Loose(work[r], Pending, Failing, Asked)
    BY <1>1, SetsAre, WholeIsLoose
  <2> QED BY <2>1, <1>0, <1>1, SameSets DEF Stored
<1>5. Trees'
  BY <1>0, <1>1, <1>a DEF Trees
<1> QED BY <1>0, <1>3, <1>4, <1>5, Alone DEF Story

\* What is after the tree is stored, and the reaper.
LEMMA EndsTell ==
  ASSUME Exclusive, Story, NEW r \in Runs,
         ParkInvalidate(r) \/ FinishCache(r) \/ Release(r) \/ Reap(r)
  PROVE  Story'
<1>a. Trees /\ Stored
  BY DEF Story
<1>0. PICK to \in {"release", "over"} :
        /\ at[r] \in {"invalidate", "recache", "release", "dead"} /\ at[r] \in Working
        /\ at' = [at EXCEPT ![r] = to]
        /\ UNCHANGED <<db, ask, ran, resume>>
        /\ work' = work \/ work' = [work EXCEPT ![r] = <<>>]
  <2>1. CASE ParkInvalidate(r)
    BY <2>1 DEF ParkInvalidate, Goto, Working
  <2>2. CASE FinishCache(r)
    BY <2>2 DEF FinishCache, Goto, Working
  <2>3. CASE Release(r)
    BY <2>3 DEF Release, Goto, Working
  <2>4. CASE Reap(r)
    BY <2>4 DEF Reap, Goto, Working
  <2> QED BY <2>1, <2>2, <2>3, <2>4
<1>1. at'[r] \in {"release", "over"}
  BY <1>0, Alone
<1>2. Tale(r)'
  BY <1>1 DEF Tale, Early, Told
<1>3. Stored'
  <2>1. \A q \in Runs : at[q] \notin Told /\ at[q] # "parkPersist"
    BY <1>0, OneWorks DEF Told, Working
  <2> QED BY <2>1, <1>0, <1>a, SameSets DEF Stored
<1>4. Trees'
  <2>1. <<>> \in Seq(Entries)
    OBVIOUS
  <2> QED BY <2>1, <1>0, <1>a DEF Trees
<1> QED BY <1>0, <1>2, <1>3, <1>4, Alone DEF Story

\* A replica that dies leaves the stored tree, in which nothing is unsaved.
LEMMA CrashTells ==
  ASSUME Calm, Exclusive, Settled, Story, NEW r \in Runs, Crash(r)
  PROVE  Story'
<1>a. Trees /\ Stored /\ Types
  BY DEF Story, Settled
<1>0. /\ at[r] \in Working \ {"parkPersist"} /\ ~Unsaved /\ at' = [at EXCEPT ![r] = "dead"]
      /\ UNCHANGED <<db, ask, ran, resume, work, todo>>
  BY DEF Crash, Calm, Working, Exclusive, Stops
<1>1. at'[r] = "dead"
  BY <1>0, Alone
<1>2. Tale(r)'
  BY <1>1 DEF Tale, Early, Told
<1>3. Whole(db, Pending, Failing)
  <2> SUFFICES ASSUME NEW i \in 1 .. Len(db), db[i].kind = "call"
               PROVE  \/ db[i].id \in Pending /\ Open(db, i)
                      \/ db[i].id \in Failing \/ Answered(db, i)
    BY DEF Whole
  <2> DEFINE c == db[i].id
  <2>1. \/ c \in Asked /\ Open(db, i) /\ (c \in Pending \/ ~HasResult(db, c))
        \/ c \in Failing \/ Answered(db, i)
    BY <1>a DEF Stored, Loose
  <2>2. CASE c \in Asked /\ ~HasResult(db, c) /\ c \notin Pending
    <3>1. c \in Calls /\ ask[c] \in {"resolved", "cancelled"}
      BY <2>2, <1>a DEF Asked, Pending, Types
    <3>2. db[i] = Msg("call", c)
      BY <1>a, EntryIs DEF Trees
    <3>3. DOMAIN db = 1 .. Len(db)
      BY <1>a DEF Trees
    <3>4. Msg("call", c) \in ToSet(db) /\ Msg("result", c) \notin ToSet(db)
      BY <2>2, <3>2, <3>3 DEF ToSet, HasResult
    <3> QED BY <3>1, <3>4, <1>0 DEF Unsaved
  <2> QED BY <2>1, <2>2
<1>4. Stored'
  <2>1. \A q \in Runs : at[q] # "parkPersist"
    BY <1>0, OneWorks DEF Working
  <2> QED BY <2>1, <1>0, <1>3, <1>a, SameSets DEF Stored
<1> QED BY <1>0, <1>2, <1>4, <1>a, Alone DEF Story, Trees

\* A request brings approvals, and changes nothing else.
LEMMA PreflightTells ==
  ASSUME Settled, Story, NEW r \in Runs, Preflight(r), at \in [Runs -> Stops]
  PROVE  Story'
<1>a. Trees /\ Stored /\ Types
  BY DEF Story, Settled
<1>1. /\ at[r] = "idle" /\ at' = [at EXCEPT ![r] = "checked"]
      /\ UNCHANGED <<db, ask, ran, work, todo>>
      /\ \E v \in Given : resume' = [resume EXCEPT ![r] = v]
  <2>1. PICK S \in SUBSET Asked : \E v \in [S -> Verdicts] : resume' = [resume EXCEPT ![r] = v]
    BY DEF Preflight
  <2>2. [S -> Verdicts] \subseteq Given
    BY DEF Given, Asked
  <2> QED BY <2>1, <2>2 DEF Preflight, Goto
<1>2. \A q \in Runs \ {r} : resume'[q] = resume[q] /\ at'[q] = at[q]
  BY <1>1, <1>a DEF Types
<1>3. at'[r] = "checked"
  BY <1>1
<1>4. Failing \subseteq Failing' /\ Pending' = Pending /\ Asked' = Asked /\ Done' = Done
  <2>1. DOMAIN resume[r] = {}
    BY <1>1, NoAnswersIs DEF Settled, Ordered
  <2>2. \A c \in Calls : Approved(c) => Approved(c)'
    BY <2>1, <1>2 DEF Approved
  <2> QED BY <2>2, <1>1 DEF Failing, Pending, Asked, Done
<1>5. \A t \in Seq(Entries) : \A P : Whole(t, P, Failing) => Whole(t, P, Failing')
  BY <1>4, WholeGrows
<1>6. ASSUME NEW q \in Runs \ {r} PROVE Tale(q)'
  <2>1. Tale(q) /\ work[q] \in Seq(Entries)
    BY <1>a DEF Story, Trees
  <2> QED BY <2>1, <1>1, <1>2, <1>4, <1>5 DEF Tale
<1>7. Tale(r)'
  BY <1>3 DEF Tale, Early, Told
<1>8. Stored'
  <2>1. Loose(db, Pending, Failing', Asked)
    BY <1>4, <1>a, LooseGrows DEF Stored
  <2>2. \A q \in Runs : at'[q] \notin Told <=> at[q] \notin Told
    BY <1>1, <1>2, <1>3 DEF Told
  <2>3. \A q \in Runs : at'[q] = "parkPersist" <=> at[q] = "parkPersist"
    BY <1>1, <1>2, <1>3
  <2> QED BY <2>1, <2>2, <2>3, <1>1, <1>4, <1>5, <1>a DEF Stored, Trees
<1> QED BY <1>1, <1>6, <1>7, <1>8, <1>a DEF Story, Trees

\* A run begins with answers, or with nothing pending.
LEMMA LeaseTells ==
  ASSUME Calm, Exclusive, Story, NEW r \in Runs, Lease(r)
  PROVE  Story'
<1>a. Trees /\ Stored
  BY DEF Story
<1>1. PICK to \in {"load", "over"} :
        /\ at[r] = "checked" /\ at' = [at EXCEPT ![r] = to]
        /\ UNCHANGED <<db, ask, ran, resume, work, todo>>
        /\ resume[r] # NoAnswers \/ Pending = {}
  BY DEF Lease, Goto, Calm
<1>2. at'[r] \in {"load", "over"} /\ \A q \in Runs \ {r} : at'[q] = at[q]
  BY <1>1 DEF Exclusive
<1>3. \A q \in Runs \ {r} : Tale(q)'
  BY <1>1, <1>2, SameTale DEF Story
<1>4. Tale(r)'
  BY <1>1, <1>2, SameSets DEF Tale, Early, Told
<1>5. Stored'
  <2>1. \A q \in Runs : /\ at'[q] \notin Told <=> at[q] \notin Told
                        /\ at'[q] = "parkPersist" <=> at[q] = "parkPersist"
    BY <1>1, <1>2 DEF Told
  <2> QED BY <2>1, <1>1, <1>a, SameSets DEF Stored
<1> QED BY <1>1, <1>3, <1>4, <1>5, <1>a DEF Story, Trees

\* Another tree is imported when nobody works and nothing is pending.
LEMMA ImportTells ==
  ASSUME Calm, Batch \in Nat \ {0}, Exclusive, Story, ImportPersist
  PROVE  Story'
<1>a. Trees /\ Stored
  BY DEF Story
<1>1. /\ holder = {} /\ Pending = {} /\ UNCHANGED <<at, ask, ran, resume, work, todo>>
  BY DEF ImportPersist, Calm
<1>2. PICK e \in Entries : e.kind = "imported" /\ db' = <<e>>
  <2>1. PICK r \in Runs : db' = <<Msg("imported", <<r, 0>>)>>
    BY DEF ImportPersist
  <2> QED BY <2>1, KindsAre, MsgIs
<1>3. \A q \in Runs : at'[q] \notin Working
  BY <1>1 DEF Exclusive
<1>4. \A q \in Runs : Tale(q)'
  BY <1>3 DEF Tale, Working, Early, Told
<1>5. Len(<<e>>) = 1 /\ <<e>>[1] = e /\ <<e>> \in Seq(Entries)
  OBVIOUS
<1>6. Results(<<e>>, Done) /\ Loose(<<e>>, Pending, Failing, Asked) /\ Whole(<<e>>, Pending, Failing)
  BY <1>2, <1>5 DEF Results, Loose, Whole
<1>7. Stored'
  BY <1>1, <1>2, <1>6, SameSets DEF Stored
<1> QED BY <1>1, <1>2, <1>4, <1>5, <1>7, <1>a DEF Story, Trees

LEMMA InitStory == Init => Story
<1> SUFFICES ASSUME Init PROVE Story
  OBVIOUS
<1>1. Len(<<>>) = 0 /\ <<>> \in Seq(Entries)
  OBVIOUS
<1>2. Trees
  BY <1>1 DEF Init, Trees
<1>3. \A r \in Runs : Tale(r)
  BY DEF Init, Tale, Early, Told
<1>4. Stored
  <2>1. Pending = {}
    BY DEF Init, Pending
  <2> QED BY <2>1, <1>1 DEF Init, Stored, Results, Loose, Whole
<1> QED BY <1>2, <1>3, <1>4 DEF Story

LEMMA NextStory ==
  ASSUME Calm, IsFiniteSet(Calls), Batch \in Nat \ {0}, Exclusive, Cached, Settled, Story,
         [Next]_runVars
  PROVE  Story'
<1>1. CASE CacheExpires \/ FillExpires \/ ImportInvalidate \/ UNCHANGED runVars
  <2>1. UNCHANGED <<db, at, ask, ran, resume, work, todo>>
    BY <1>1 DEF CacheExpires, FillExpires, ImportInvalidate, runVars
  <2>2. \A q \in Runs : Tale(q)'
    BY <2>1, SameTale DEF Story
  <2>3. Stored' /\ Trees'
    BY <2>1, SameSets DEF Story, Stored, Trees
  <2> QED BY <2>2, <2>3 DEF Story
<1>2. at \in [Runs -> Stops]
  BY DEF Exclusive
<1> QED
  BY <1>1, <1>2, PreflightTells, LeaseTells, ReadsTell, BeginTells, SettleTells, ExecuteTells,
     TurnsTell, AskTells, ParkInsertTells, PersistTells, EndsTell, CrashTells, ImportTells
     DEF Next, Step

\* When no run is at work every call of the stored tree is pending, answered or
\* one that was approved and could not be executed, and every pending call is in
\* the tree (lib.rs drive, resume_and_continue, finish; db.rs interrupts), if
\* nothing overlaps and none of the named failures strikes.
THEOREM CallsAnswered ==
  ASSUME Calm, IsFiniteSet(Runs), Batch \in Nat \ {0}
  PROVE  Spec => []CallsSettled
<1>0. IsFiniteSet(Calls)
  <2>1. IsFiniteSet(1 .. Batch)
    BY FS_Interval
  <2> QED BY <2>1, FS_Product DEF Calls
<1>1. Init => Exclusive /\ Cached /\ Settled /\ Story
  BY InitExclusive, InitCached, InitSettled, InitStory
<1>2. Exclusive /\ Cached /\ Settled /\ Story /\ [Next]_runVars
        => Exclusive' /\ Cached' /\ Settled' /\ Story'
  <2>1. Steady
    BY DEF Calm, Steady
  <2> QED BY <2>1, <1>0, NextExclusive, NextCached, NextSettled, NextStory
<1>3. Exclusive /\ Settled /\ Story => CallsSettled
  <2> SUFFICES ASSUME Exclusive, Settled, Story, holder = {} PROVE CallsSettled
    BY DEF CallsSettled
  <2>1. \A q \in Runs : at[q] \notin Told /\ at[q] # "parkPersist"
    BY DEF Exclusive, Told, Working
  <2>2. /\ Whole(db, Pending, Failing) /\ \A c \in Pending : HasCall(db, c)
        /\ db \in Seq(Entries)
    BY <2>1 DEF Story, Stored, Trees
  <2>3. DOMAIN db = 1 .. Len(db)
    BY <2>2
  <2>4. \A c \in Pending : Msg("call", c) \in ToSet(db)
    BY <2>2, <2>3 DEF HasCall, ToSet
  <2>5. ASSUME NEW i \in DOMAIN db, db[i].kind = "call"
        PROVE  \/ ask[db[i].id] = "pending" /\ \A j \in i .. Len(db) : db[j].kind \in {"call", "result"}
               \/ ask[db[i].id] = "resolved" /\ ran[db[i].id] = 0 /\ Approved(db[i].id)
               \/ \E k \in i + 1 .. Len(db) :
                    /\ db[k] = Msg("result", db[i].id)
                    /\ \A j \in i .. k : db[j].kind \in {"call", "result"}
    <3>1. \/ db[i].id \in Pending /\ Open(db, i)
          \/ db[i].id \in Failing \/ Answered(db, i)
      BY <2>2, <2>3, <2>5 DEF Whole
    <3> QED BY <3>1 DEF Pending, Failing, Open, Answered, Sound
  <2> QED BY <2>4, <2>5 DEF CallsSettled
<1> QED BY <1>1, <1>2, <1>3, PTL DEF Spec

-----------------------------------------------------------------------------
(* The files of a conversation *)

CONSTANTS Asks, Replies, Callings, Answers, Foreign, SessionNames, Places, ListMax,
  ResumeListMax, FileReadMax, ResumeReadMax, MaxTurns, MaxMade

VARIABLES shelf, opened, jsonl, short

SF == INSTANCE SessionFile
        WITH store <- shelf, open <- opened, page <- jsonl, cut <- short,
             Dirs <- Places, SessionIds <- SessionNames, ReadMax <- FileReadMax

-----------------------------------------------------------------------------
(* Induction over an interval of the numbers *)

LEMMA LeastNat ==
  ASSUME NEW T, T \subseteq Nat, T # {}
  PROVE  \E x \in T : \A y \in T : x <= y
<1> DEFINE R == {p \in Nat \X Nat : p[1] < p[2]}
<1>1. IsWellFoundedOn(R, Nat)
  BY NatLessThanWellFounded DEF OpToRel
<1>2. \A x, y \in Nat : x < y => <<x, y>> \in R
  OBVIOUS
<1> HIDE DEF R
<1>3. PICK x \in T : \A y \in T : ~(<<y, x>> \in R)
  BY <1>1, WFMin
<1>4. \A y \in T : x <= y
  <2> TAKE y \in T
  <2>1. x \in Nat /\ y \in Nat
    OBVIOUS
  <2>2. ~(y < x)
    BY <1>2, <1>3, <2>1
  <2> QED BY <2>1, <2>2
<1> QED BY <1>4

LEMMA SetInduction ==
  ASSUME NEW T, 0 \in T, \A n \in Nat : n \in T => n + 1 \in T
  PROVE  Nat \subseteq T
<1> SUFFICES ASSUME Nat \ T # {} PROVE FALSE
  OBVIOUS
<1>1. PICK m \in Nat \ T : \A y \in Nat \ T : m <= y
  BY LeastNat
<1>2. m # 0 /\ m - 1 \in Nat
  BY <1>1
<1>3. m - 1 \in T
  BY <1>1, <1>2
<1> QED BY <1>1, <1>2, <1>3

-----------------------------------------------------------------------------
(* Sequences put together (FlattenSeq) *)

LEMMA InSeq ==
  ASSUME NEW V, NEW n \in Nat, NEW g \in [1..n -> V]
  PROVE  g \in Seq(V) /\ Len(g) = n
<1>1. g \in Seq(V)
  BY SeqDef
<1>2. Len(g) \in Nat /\ DOMAIN g = 1..Len(g) /\ DOMAIN g = 1..n
  BY <1>1, LenProperties
<1> QED BY <1>1, <1>2

LEMMA SeqFrom ==
  ASSUME NEW V, NEW g \in Seq(V)
  PROVE  Len(g) \in Nat /\ g \in [1..Len(g) -> V] /\ DOMAIN g = 1..Len(g)
BY LenProperties

\* The function by which FlattenSeq is computed exists, and is the only one.
Laid(f, g, m) == f = [i \in 1..m |-> IF i = 1 THEN g[i] ELSE f[i - 1] \o g[i]]

LEMMA LaidFirst ==
  ASSUME NEW g, NEW m \in Nat \ {0}, NEW f, Laid(f, g, m)
  PROVE  f[1] = g[1]
<1>1. \A i \in 1..m : f[i] = IF i = 1 THEN g[i] ELSE f[i - 1] \o g[i]
  BY Zenon DEF Laid
<1>2. 1 \in 1..m
  OBVIOUS
<1> QED BY <1>1, <1>2

LEMMA LaidNext ==
  ASSUME NEW g, NEW m \in Nat, NEW f, Laid(f, g, m), NEW i \in Nat \ {0}, i + 1 <= m
  PROVE  f[i + 1] = f[i] \o g[i + 1]
<1>1. \A k \in 1..m : f[k] = IF k = 1 THEN g[k] ELSE f[k - 1] \o g[k]
  BY Zenon DEF Laid
<1>2. i + 1 \in 1..m /\ i + 1 # 1 /\ (i + 1) - 1 = i
  OBVIOUS
<1> QED BY <1>1, <1>2, Zenon

LEMMA LaidExists == ASSUME NEW g, NEW m \in Nat PROVE \E f : Laid(f, g, m)
<1> DEFINE T == {n \in Nat : \E f : Laid(f, g, n)}
<1>1. 0 \in T
  <2> DEFINE f == [i \in 1..0 |-> g[i]]
  <2>1. f = [i \in 1..0 |-> IF i = 1 THEN g[i] ELSE f[i - 1] \o g[i]]
    OBVIOUS
  <2>2. Laid(f, g, 0)
    BY <2>1 DEF Laid
  <2> HIDE DEF f
  <2> QED BY <2>2
<1>2. ASSUME NEW n \in Nat, n \in T PROVE n + 1 \in T
  <2>1. PICK f : Laid(f, g, n)
    BY <1>2
  <2> DEFINE e == [i \in 1..(n + 1) |->
                     IF i <= n THEN f[i] ELSE IF i = 1 THEN g[i] ELSE f[i - 1] \o g[i]]
             h == [i \in 1..(n + 1) |-> IF i = 1 THEN g[i] ELSE e[i - 1] \o g[i]]
  <2>2. ASSUME NEW i \in 1..(n + 1) PROVE e[i] = h[i]
    <3>1. i # 1 => e[i - 1] = f[i - 1]
      OBVIOUS
    <3>2. CASE i <= n
      <4>1. e[i] = f[i] /\ i \in 1..n
        BY <3>2
      <4>2. f[i] = IF i = 1 THEN g[i] ELSE f[i - 1] \o g[i]
        BY <2>1, <4>1, Zenon DEF Laid
      <4>3. h[i] = IF i = 1 THEN g[i] ELSE e[i - 1] \o g[i]
        OBVIOUS
      <4> HIDE DEF e, h
      <4> QED BY <3>1, <4>1, <4>2, <4>3
    <3>3. CASE ~(i <= n)
      <4>1. e[i] = IF i = 1 THEN g[i] ELSE f[i - 1] \o g[i]
        BY <3>3
      <4>2. h[i] = IF i = 1 THEN g[i] ELSE e[i - 1] \o g[i]
        OBVIOUS
      <4> HIDE DEF e, h
      <4> QED BY <3>1, <4>1, <4>2
    <3> QED BY <3>2, <3>3
  <2>3. e = h
    BY <2>2
  <2>4. Laid(e, g, n + 1)
    <3> HIDE DEF e
    <3> QED BY <2>3 DEF Laid
  <2> HIDE DEF e, h
  <2> QED BY <2>4
<1>3. m \in T
  <2> HIDE DEF T
  <2> QED BY <1>1, <1>2, SetInduction
<1> QED BY <1>3

LEMMA LaidOnce ==
  ASSUME NEW g, NEW h, NEW m \in Nat, NEW n \in Nat, m <= n, \A i \in 1..m : g[i] = h[i],
         NEW f, Laid(f, g, m), NEW e, Laid(e, h, n)
  PROVE  \A i \in 1..m : f[i] = e[i]
<1> DEFINE T == {i \in Nat : i \in 1..m => f[i] = e[i]}
<1>1. 0 \in T
  OBVIOUS
<1>2. ASSUME NEW i \in Nat, i \in T PROVE i + 1 \in T
  <2> SUFFICES ASSUME i + 1 \in 1..m PROVE f[i + 1] = e[i + 1]
    OBVIOUS
  <2>1. i # 0 => f[i] = e[i] /\ g[i + 1] = h[i + 1]
    BY <1>2
  <2> HIDE DEF T
  <2>2. m \in Nat \ {0} /\ n \in Nat \ {0} /\ i + 1 <= m /\ i + 1 <= n /\ 1 \in 1..m
    OBVIOUS
  <2>3. CASE i = 0
    <3>1. f[1] = g[1]
      BY <2>2, LaidFirst
    <3>2. e[1] = h[1]
      BY <2>2, LaidFirst
    <3>3. g[1] = h[1]
      BY <2>2
    <3> QED BY <2>3, <3>1, <3>2, <3>3
  <2>4. CASE i \in Nat \ {0}
    <3>1. f[i + 1] = f[i] \o g[i + 1]
      BY <2>2, <2>4, LaidNext, ZenonT(60)
    <3>2. e[i + 1] = e[i] \o h[i + 1]
      BY <2>2, <2>4, LaidNext, ZenonT(60)
    <3>3. i # 0
      BY <2>4
    <3> QED BY <2>1, <3>1, <3>2, <3>3, Zenon
  <2> QED BY <2>3, <2>4
<1>3. Nat \subseteq T
  <2> HIDE DEF T
  <2> QED BY <1>1, <1>2, SetInduction
<1> QED BY <1>3

LEMMA FlattenIs ==
  ASSUME NEW V, NEW n \in Nat \ {0}, NEW g \in [1..n -> V], NEW f, Laid(f, g, n)
  PROVE  SF!FlattenSeq(g) = f[n]
<1> DEFINE c == CHOOSE e : Laid(e, g, n)
<1>1. Len(g) = n
  BY InSeq
<1>2. Laid(c, g, n)
  OBVIOUS
<1>3. SF!FlattenSeq(g) = c[n]
  BY <1>1 DEF SF!FlattenSeq, Laid
<1> HIDE DEF c
<1>4. \A i \in 1..n : f[i] = c[i]
  BY <1>2, LaidOnce
<1> QED BY <1>3, <1>4

LEMMA NoneIs == ASSUME NEW g, g \in [1..0 -> {}] PROVE g = <<>>
<1>1. g \in Seq({}) /\ Len(g) = 0
  BY InSeq
<1>2. <<>> \in Seq({}) /\ Len(<<>>) = 0
  BY EmptySeq
<1> QED BY <1>1, <1>2, SeqEqual

LEMMA FlattenNone == SF!FlattenSeq(<<>>) = <<>>
<1>1. Len(<<>>) = 0
  BY EmptySeq
<1> QED BY <1>1 DEF SF!FlattenSeq

LEMMA FlattenStep ==
  ASSUME NEW S, NEW n \in Nat, NEW g \in [1..(n + 1) -> Seq(S)]
  PROVE  SF!FlattenSeq(g) = SF!FlattenSeq([i \in 1..n |-> g[i]]) \o g[n + 1]
<1> DEFINE h == [i \in 1..n |-> g[i]]
<1>0. n + 1 \in Nat /\ n + 1 \in Nat \ {0} /\ n <= n + 1 /\ n + 1 <= n + 1
  OBVIOUS
<1>1. PICK f : Laid(f, g, n + 1)
  BY <1>0, LaidExists
<1>2. SF!FlattenSeq(g) = f[n + 1]
  <2>1. n + 1 \in Nat \ {0}
    OBVIOUS
  <2> QED BY <1>1, <2>1, FlattenIs
<1>3. h \in [1..n -> Seq(S)]
  OBVIOUS
<1>4. CASE n = 0
  <2>1. h \in [1..0 -> {}]
    BY <1>4
  <2>2. h = <<>>
    BY <2>1, NoneIs
  <2>3. f[1] = g[1]
    BY <1>0, <1>1, LaidFirst
  <2>4. <<>> \o g[1] = g[1]
    <3>1. g[1] \in Seq(S)
      OBVIOUS
    <3> QED BY <3>1, ConcatEmptySeq
  <2> HIDE DEF h
  <2> QED BY <1>2, <1>4, <2>2, <2>3, <2>4, FlattenNone
<1>5. CASE n # 0
  <2>1. PICK e : Laid(e, h, n)
    BY LaidExists
  <2>2. SF!FlattenSeq(h) = e[n]
    <3>1. n \in Nat \ {0}
      BY <1>5
    <3> HIDE DEF h
    <3> QED BY <1>3, <2>1, <3>1, FlattenIs
  <2>3. \A i \in 1..n : h[i] = g[i]
    OBVIOUS
  <2> HIDE DEF h
  <2>4. e[n] = f[n]
    <3>1. n + 1 \in Nat /\ n <= n + 1 /\ n \in 1..n
      BY <1>5
    <3> QED BY <1>1, <2>1, <2>3, <3>1, LaidOnce, SMTT(60)
  <2>5. n \in Nat \ {0}
    BY <1>5
  <2>6. f[n + 1] = f[n] \o g[n + 1]
    BY <1>0, <1>1, <2>5, LaidNext
  <2>7. SF!FlattenSeq(g) = SF!FlattenSeq(h) \o g[n + 1]
    BY <1>2, <2>2, <2>4, <2>6, Zenon
  <2> QED BY <2>7 DEF h
<1> QED BY <1>4, <1>5

LEMMA FlattenType ==
  ASSUME NEW S, NEW n \in Nat, NEW g \in [1..n -> Seq(S)]
  PROVE  SF!FlattenSeq(g) \in Seq(S)
<1> DEFINE T == {k \in Nat : \A h \in [1..k -> Seq(S)] : SF!FlattenSeq(h) \in Seq(S)}
<1>1. 0 \in T
  <2> SUFFICES ASSUME NEW h \in [1..0 -> Seq(S)] PROVE SF!FlattenSeq(h) \in Seq(S)
    OBVIOUS
  <2>1. h \in [1..0 -> {}]
    OBVIOUS
  <2>2. h = <<>>
    BY <2>1, NoneIs
  <2> QED BY <2>2, FlattenNone, EmptySeq
<1>2. ASSUME NEW k \in Nat, k \in T PROVE k + 1 \in T
  <2> SUFFICES ASSUME NEW h \in [1..(k + 1) -> Seq(S)] PROVE SF!FlattenSeq(h) \in Seq(S)
    OBVIOUS
  <2>1. [i \in 1..k |-> h[i]] \in [1..k -> Seq(S)]
    OBVIOUS
  <2>2. SF!FlattenSeq([i \in 1..k |-> h[i]]) \in Seq(S)
    BY <1>2, <2>1
  <2>3. h[k + 1] \in Seq(S)
    OBVIOUS
  <2>4. SF!FlattenSeq(h) = SF!FlattenSeq([i \in 1..k |-> h[i]]) \o h[k + 1]
    BY FlattenStep
  <2> QED BY <2>2, <2>3, <2>4, ConcatProperties
<1>3. n \in T
  <2> HIDE DEF T
  <2> QED BY <1>1, <1>2, SetInduction
<1> QED BY <1>3

LEMMA ConcatAt ==
  ASSUME NEW V, NEW m \in Nat, NEW n \in Nat, NEW g \in [1..m -> V], NEW h \in [1..n -> V]
  PROVE  /\ g \o h \in [1..(m + n) -> V]
         /\ \A i \in 1..m : (g \o h)[i] = g[i]
         /\ \A i \in 1..n : (g \o h)[m + i] = h[i]
<1>1. g \in Seq(V) /\ Len(g) = m /\ h \in Seq(V) /\ Len(h) = n
  BY InSeq
<1>2. /\ g \o h \in Seq(V) /\ Len(g \o h) = m + n
      /\ \A i \in 1..(m + n) : (g \o h)[i] = IF i <= m THEN g[i] ELSE h[i - m]
  BY <1>1, ConcatProperties
<1>3. g \o h \in [1..(m + n) -> V]
  BY <1>2, LenProperties
<1>4. ASSUME NEW i \in 1..m PROVE (g \o h)[i] = g[i]
  BY <1>2
<1>5. ASSUME NEW i \in 1..n PROVE (g \o h)[m + i] = h[i]
  <2>1. m + i \in 1..(m + n) /\ ~(m + i <= m) /\ (m + i) - m = i
    OBVIOUS
  <2> QED BY <1>2, <2>1
<1> QED BY <1>3, <1>4, <1>5

LEMMA ConcatType ==
  \A V, m, n, g, h :
    m \in Nat /\ n \in Nat /\ g \in [1..m -> V] /\ h \in [1..n -> V] =>
      g \o h \in [1..(m + n) -> V]
BY ConcatAt

LEMMA ConcatLeft ==
  \A V, m, n, g, h :
    m \in Nat /\ n \in Nat /\ g \in [1..m -> V] /\ h \in [1..n -> V] =>
      \A i \in 1..m : (g \o h)[i] = g[i]
BY ConcatAt

LEMMA ConcatRight ==
  \A V, m, n, g, h :
    m \in Nat /\ n \in Nat /\ g \in [1..m -> V] /\ h \in [1..n -> V] =>
      \A i \in 1..n : (g \o h)[m + i] = h[i]
BY ConcatAt

LEMMA ConcatThree ==
  \A S : \A a, b, c \in Seq(S) : (a \o b) \o c = a \o (b \o c)
BY ConcatAssociative

LEMMA FlattenTwo ==
  ASSUME NEW S, NEW m \in Nat, NEW g \in [1..m -> Seq(S)],
         NEW n \in Nat, NEW h \in [1..n -> Seq(S)]
  PROVE  SF!FlattenSeq(g \o h) = SF!FlattenSeq(g) \o SF!FlattenSeq(h)
<1> DEFINE T == {k \in Nat : \A e \in [1..k -> Seq(S)] :
                   SF!FlattenSeq(g \o e) = SF!FlattenSeq(g) \o SF!FlattenSeq(e)}
<1>0. SF!FlattenSeq(g) \in Seq(S) /\ g \in Seq(Seq(S))
  BY FlattenType, InSeq
<1>1. 0 \in T
  <2> SUFFICES ASSUME NEW e \in [1..0 -> Seq(S)]
               PROVE  SF!FlattenSeq(g \o e) = SF!FlattenSeq(g) \o SF!FlattenSeq(e)
    OBVIOUS
  <2>1. e \in [1..0 -> {}]
    OBVIOUS
  <2>2. e = <<>>
    BY <2>1, NoneIs
  <2>3. g \o <<>> = g /\ SF!FlattenSeq(g) \o <<>> = SF!FlattenSeq(g)
    BY <1>0, ConcatEmptySeq
  <2> QED BY <2>2, <2>3, FlattenNone
<1>2. ASSUME NEW k \in Nat, k \in T PROVE k + 1 \in T
  <2> SUFFICES ASSUME NEW e \in [1..(k + 1) -> Seq(S)]
               PROVE  SF!FlattenSeq(g \o e) = SF!FlattenSeq(g) \o SF!FlattenSeq(e)
    OBVIOUS
  <2> DEFINE d == [i \in 1..k |-> e[i]]
  <2>1. d \in [1..k -> Seq(S)]
    OBVIOUS
  <2>2. SF!FlattenSeq(g \o d) = SF!FlattenSeq(g) \o SF!FlattenSeq(d)
    BY <1>2, <2>1
  <2>3. SF!FlattenSeq(e) = SF!FlattenSeq(d) \o e[k + 1]
    BY FlattenStep
  <2> DEFINE ge == g \o e
             gd == g \o d
             r == [i \in 1..(m + k) |-> ge[i]]
  <2>4. /\ ge \in [1..(m + (k + 1)) -> Seq(S)]
        /\ \A i \in 1..m : ge[i] = g[i]
        /\ \A i \in 1..(k + 1) : ge[m + i] = e[i]
    <3>1. k + 1 \in Nat
      OBVIOUS
    <3>2. ge \in [1..(m + (k + 1)) -> Seq(S)]
      BY <3>1, ConcatAt
    <3>3. \A i \in 1..m : ge[i] = g[i]
      BY <3>1, ConcatAt, SMTT(60)
    <3>4. \A i \in 1..(k + 1) : ge[m + i] = e[i]
      BY <3>1, ConcatAt, SMTT(60)
    <3> QED BY <3>2, <3>3, <3>4
  <2>5. /\ gd \in [1..(m + k) -> Seq(S)]
        /\ \A i \in 1..m : gd[i] = g[i]
        /\ \A i \in 1..k : gd[m + i] = d[i]
    <3> HIDE DEF d
    <3>1. gd \in [1..(m + k) -> Seq(S)]
      BY <2>1, ConcatAt
    <3>2. \A i \in 1..m : gd[i] = g[i]
      BY <2>1, ConcatAt, SMTT(60)
    <3>3. \A i \in 1..k : gd[m + i] = d[i]
      BY <2>1, ConcatRight, SMTT(60)
    <3> QED BY <3>1, <3>2, <3>3
  <2>6. r = gd
    <3>1. ASSUME NEW i \in 1..(m + k) PROVE ge[i] = gd[i]
      <4>1. CASE i <= m
        <5>1. i \in 1..m
          BY <4>1
        <5> HIDE DEF ge, gd
        <5> QED BY <2>4, <2>5, <5>1
      <4>2. CASE ~(i <= m)
        <5>1. i - m \in 1..k /\ i - m \in 1..(k + 1) /\ m + (i - m) = i
          BY <4>2
        <5>2. ge[i] = e[i - m] /\ gd[i] = d[i - m]
          <6> HIDE DEF ge, gd, d
          <6>1. ge[m + (i - m)] = e[i - m] /\ gd[m + (i - m)] = d[i - m]
            BY <2>4, <2>5, <5>1
          <6> QED BY <5>1, <6>1
        <5>3. d[i - m] = e[i - m]
          BY <5>1
        <5> HIDE DEF ge, gd, d
        <5> QED BY <5>2, <5>3
      <4> QED BY <4>1, <4>2
    <3> HIDE DEF ge, gd
    <3> QED BY <2>5, <3>1
  <2>7. SF!FlattenSeq(ge) = SF!FlattenSeq(r) \o ge[(m + k) + 1]
    <3>1. m + k \in Nat /\ ge \in [1..((m + k) + 1) -> Seq(S)]
      <4> HIDE DEF ge
      <4>1. m + (k + 1) = (m + k) + 1
        OBVIOUS
      <4> QED BY <2>4, <4>1
    <3> HIDE DEF ge
    <3> QED BY <3>1, FlattenStep
  <2>8. ge[(m + k) + 1] = e[k + 1]
    <3>1. k + 1 \in 1..(k + 1) /\ m + (k + 1) = (m + k) + 1
      OBVIOUS
    <3> HIDE DEF ge
    <3>2. ge[m + (k + 1)] = e[k + 1]
      BY <2>4, <3>1
    <3> QED BY <3>1, <3>2
  <2>9. SF!FlattenSeq(d) \in Seq(S) /\ e[k + 1] \in Seq(S)
    <3>1. k + 1 \in 1..(k + 1)
      OBVIOUS
    <3> HIDE DEF d
    <3> QED BY <2>1, <3>1, FlattenType
  <2>10. (SF!FlattenSeq(g) \o SF!FlattenSeq(d)) \o e[k + 1]
           = SF!FlattenSeq(g) \o (SF!FlattenSeq(d) \o e[k + 1])
    <3> HIDE DEF d
    <3>1. PICK a \in Seq(S) : a = SF!FlattenSeq(g)
      BY <1>0
    <3>2. PICK b \in Seq(S) : b = SF!FlattenSeq(d)
      BY <2>9
    <3>3. PICK c \in Seq(S) : c = e[k + 1]
      BY <2>9
    <3>4. (a \o b) \o c = a \o (b \o c)
      BY ConcatThree, SMTT(60)
    <3> QED BY <3>1, <3>2, <3>3, <3>4, Zenon
  <2>11. SF!FlattenSeq(ge) = SF!FlattenSeq(gd) \o e[k + 1]
    BY <2>6, <2>7, <2>8, Zenon
  <2>12. SF!FlattenSeq(gd) = SF!FlattenSeq(g) \o SF!FlattenSeq(d)
    BY <2>2
  <2>13. SF!FlattenSeq(ge) = SF!FlattenSeq(g) \o SF!FlattenSeq(e)
    <3> HIDE DEF ge, gd, d
    <3> QED BY <2>3, <2>10, <2>11, <2>12, Zenon
  <2> QED BY <2>13
<1>3. n \in T
  <2> HIDE DEF T
  <2> QED BY <1>1, <1>2, SetInduction
<1> QED BY <1>3

LEMMA ToSetIs ==
  ASSUME NEW V, NEW n \in Nat, NEW g \in [1..n -> V]
  PROVE  SF!ToSet(g) = {g[i] : i \in 1..n} /\ SF!ToSet(g) \subseteq V
BY DEF SF!ToSet

LEMMA ToSetSeq ==
  ASSUME NEW V, NEW g \in Seq(V)
  PROVE  SF!ToSet(g) = {g[i] : i \in 1..Len(g)} /\ SF!ToSet(g) \subseteq V
<1>1. Len(g) \in Nat /\ g \in [1..Len(g) -> V]
  BY SeqFrom
<1> QED BY <1>1, ToSetIs

LEMMA ToSetNone == SF!ToSet(<<>>) = {}
<1>1. <<>> \in Seq({}) /\ Len(<<>>) = 0
  BY EmptySeq
<1> DEFINE e == <<>>
<1>2. e \in Seq({})
  BY <1>1
<1> HIDE DEF e
<1>3. SF!ToSet(e) \subseteq {}
  BY <1>2, ToSetSeq
<1> QED BY <1>3 DEF e

LEMMA ToSetEmpty == ASSUME NEW V, NEW g \in Seq(V), SF!ToSet(g) = {} PROVE g = <<>>
<1>1. SF!ToSet(g) = {g[i] : i \in 1..Len(g)} /\ Len(g) \in Nat
  BY ToSetSeq, LenProperties
<1>2. Len(g) = 0
  <2>1. CASE Len(g) # 0
    <3>1. 1 \in 1..Len(g)
      BY <1>1, <2>1
    <3> QED BY <1>1, <3>1
  <2> QED BY <2>1
<1> QED BY <1>2, EmptySeq

LEMMA ToSetOne == ASSUME NEW b PROVE SF!ToSet(<<b>>) = {b}
<1>1. <<b>> \in [1..1 -> {b}] /\ <<b>>[1] = b /\ 1 \in Nat
  OBVIOUS
<1>2. SF!ToSet(<<b>>) = {<<b>>[i] : i \in 1..1} /\ SF!ToSet(<<b>>) \subseteq {b}
  BY <1>1, ToSetIs, Zenon
<1>3. <<b>>[1] \in {<<b>>[i] : i \in 1..1}
  OBVIOUS
<1> QED BY <1>1, <1>2, <1>3

LEMMA ToSetTwo ==
  ASSUME NEW V, NEW g \in Seq(V), NEW h \in Seq(V)
  PROVE  SF!ToSet(g \o h) = SF!ToSet(g) \cup SF!ToSet(h)
<1> DEFINE e == g \o h
<1>0. Len(h) \in Nat /\ h \in [1..Len(h) -> V]
  BY SeqFrom
<1>1. /\ Len(g) \in Nat /\ g \in [1..Len(g) -> V]
      /\ Len(h) \in Nat /\ h \in [1..Len(h) -> V]
  BY SeqFrom
<1>2. /\ e \in [1..(Len(g) + Len(h)) -> V]
      /\ \A i \in 1..Len(g) : e[i] = g[i]
      /\ \A i \in 1..Len(h) : e[Len(g) + i] = h[i]
  <2>1. e \in [1..(Len(g) + Len(h)) -> V]
    BY <1>1, ConcatAt
  <2>2. \A i \in 1..Len(g) : e[i] = g[i]
    BY <1>1, ConcatAt, SMTT(60)
  <2>3. \A i \in 1..Len(h) : e[Len(g) + i] = h[i]
    BY <1>1, ConcatAt, SMTT(60)
  <2> QED BY <2>1, <2>2, <2>3
<1>3. /\ SF!ToSet(e) = {e[i] : i \in 1..(Len(g) + Len(h))}
      /\ SF!ToSet(g) = {g[i] : i \in 1..Len(g)}
      /\ SF!ToSet(h) = {h[i] : i \in 1..Len(h)}
  <2>1. Len(g) + Len(h) \in Nat
    BY <1>1
  <2> HIDE DEF e
  <2>2. SF!ToSet(e) = {e[i] : i \in 1..(Len(g) + Len(h))}
    BY <1>2, <2>1, ToSetIs, SMTT(60)
  <2>3. SF!ToSet(g) = {g[i] : i \in 1..Len(g)}
    BY <1>1, ToSetIs
  <2>4. SF!ToSet(h) = {h[i] : i \in 1..Len(h)}
    BY <1>0, ToSetIs
  <2> QED BY <2>2, <2>3, <2>4
<1> HIDE DEF e
<1>4. ASSUME NEW x \in SF!ToSet(e) PROVE x \in SF!ToSet(g) \cup SF!ToSet(h)
  <2>1. PICK i \in 1..(Len(g) + Len(h)) : x = e[i]
    BY <1>3
  <2>2. CASE i <= Len(g)
    BY <1>1, <1>2, <1>3, <2>1, <2>2
  <2>3. CASE ~(i <= Len(g))
    <3>1. i - Len(g) \in 1..Len(h) /\ Len(g) + (i - Len(g)) = i
      BY <1>1, <2>3
    <3>2. e[Len(g) + (i - Len(g))] = h[i - Len(g)]
      BY <1>2, <3>1
    <3> QED BY <1>3, <2>1, <3>1, <3>2
  <2> QED BY <2>2, <2>3
<1>5. ASSUME NEW x \in SF!ToSet(g) PROVE x \in SF!ToSet(e)
  <2>1. PICK i \in 1..Len(g) : x = g[i]
    BY <1>3
  <2>2. i \in 1..(Len(g) + Len(h))
    BY <1>1
  <2> QED BY <1>2, <1>3, <2>1, <2>2
<1>6. ASSUME NEW x \in SF!ToSet(h) PROVE x \in SF!ToSet(e)
  <2>1. PICK i \in 1..Len(h) : x = h[i]
    BY <1>3
  <2>2. Len(g) + i \in 1..(Len(g) + Len(h))
    BY <1>1
  <2> QED BY <1>2, <1>3, <2>1, <2>2
<1>7. SF!ToSet(e) = SF!ToSet(g) \cup SF!ToSet(h)
  BY <1>4, <1>5, <1>6
<1> QED BY <1>7 DEF e

LEMMA FlattenHas ==
  ASSUME NEW S, NEW n \in Nat, NEW g \in [1..n -> Seq(S)]
  PROVE  \A x : x \in SF!ToSet(SF!FlattenSeq(g)) <=> \E i \in 1..n : x \in SF!ToSet(g[i])
<1> DEFINE T == {k \in Nat : \A h \in [1..k -> Seq(S)] :
                   \A x : x \in SF!ToSet(SF!FlattenSeq(h)) <=> \E i \in 1..k : x \in SF!ToSet(h[i])}
<1>1. 0 \in T
  <2> SUFFICES ASSUME NEW h \in [1..0 -> Seq(S)], NEW x
               PROVE  x \in SF!ToSet(SF!FlattenSeq(h)) <=> \E i \in 1..0 : x \in SF!ToSet(h[i])
    OBVIOUS
  <2>1. h \in [1..0 -> {}]
    OBVIOUS
  <2>2. h = <<>>
    BY <2>1, NoneIs
  <2>3. SF!ToSet(SF!FlattenSeq(h)) = {}
    BY <2>2, FlattenNone, ToSetNone
  <2> QED BY <2>3
<1>2. ASSUME NEW k \in Nat, k \in T PROVE k + 1 \in T
  <2> SUFFICES ASSUME NEW h \in [1..(k + 1) -> Seq(S)], NEW x
               PROVE  x \in SF!ToSet(SF!FlattenSeq(h)) <=> \E i \in 1..(k + 1) : x \in SF!ToSet(h[i])
    OBVIOUS
  <2> DEFINE d == [i \in 1..k |-> h[i]]
  <2>1. d \in [1..k -> Seq(S)] /\ \A i \in 1..k : d[i] = h[i]
    OBVIOUS
  <2>2. SF!FlattenSeq(h) = SF!FlattenSeq(d) \o h[k + 1]
    BY FlattenStep
  <2> HIDE DEF d
  <2>3. x \in SF!ToSet(SF!FlattenSeq(d)) <=> \E i \in 1..k : x \in SF!ToSet(d[i])
    BY <1>2, <2>1
  <2>4. SF!FlattenSeq(d) \in Seq(S) /\ h[k + 1] \in Seq(S)
    BY <2>1, FlattenType
  <2>5. SF!ToSet(SF!FlattenSeq(h)) = SF!ToSet(SF!FlattenSeq(d)) \cup SF!ToSet(h[k + 1])
    BY <2>2, <2>4, ToSetTwo
  <2>6. x \in SF!ToSet(SF!FlattenSeq(d)) <=> \E i \in 1..k : x \in SF!ToSet(h[i])
    BY <2>1, <2>3
  <2>7. ASSUME NEW i \in 1..(k + 1), x \in SF!ToSet(h[i])
        PROVE  x \in SF!ToSet(SF!FlattenSeq(h))
    <3>1. i \in 1..k \/ i = k + 1
      OBVIOUS
    <3> QED BY <2>5, <2>6, <2>7, <3>1
  <2>8. ASSUME x \in SF!ToSet(SF!FlattenSeq(h))
        PROVE  \E i \in 1..(k + 1) : x \in SF!ToSet(h[i])
    <3>1. CASE x \in SF!ToSet(h[k + 1])
      <4>1. k + 1 \in 1..(k + 1)
        OBVIOUS
      <4> QED BY <3>1, <4>1
    <3>2. CASE \E i \in 1..k : x \in SF!ToSet(h[i])
      <4>1. PICK i \in 1..k : x \in SF!ToSet(h[i])
        BY <3>2
      <4>2. i \in 1..(k + 1)
        OBVIOUS
      <4> QED BY <4>1, <4>2
    <3> QED BY <2>5, <2>6, <2>8, <3>1, <3>2
  <2> QED BY <2>7, <2>8
<1>3. n \in T
  <2> HIDE DEF T
  <2> QED BY <1>1, <1>2, SetInduction
<1> QED BY <1>3

LEMMA FlattenOne == ASSUME NEW S, NEW x \in Seq(S) PROVE SF!FlattenSeq(<<x>>) = x
<1> DEFINE g == <<x>>
           h == [i \in 1..0 |-> g[i]]
<1>1. g \in [1..1 -> Seq(S)] /\ g[1] = x
  OBVIOUS
<1>2. h = <<>>
  <2>1. h \in [1..0 -> {}]
    OBVIOUS
  <2> HIDE DEF h
  <2> QED BY <2>1, NoneIs
<1>3. SF!FlattenSeq(g) = SF!FlattenSeq(h) \o g[1]
  <2>1. 0 \in Nat /\ 0 + 1 = 1
    OBVIOUS
  <2>2. g \in [1..(0 + 1) -> Seq(S)]
    BY <1>1, <2>1
  <2> HIDE DEF g
  <2>3. SF!FlattenSeq(g) = SF!FlattenSeq([i \in 1..0 |-> g[i]]) \o g[0 + 1]
    BY <2>1, <2>2, FlattenStep
  <2> QED BY <2>1, <2>3
<1>4. <<>> \o x = x
  BY ConcatEmptySeq
<1>5. SF!FlattenSeq(g) = x
  <2> HIDE DEF g, h
  <2> QED BY <1>1, <1>2, <1>3, <1>4, FlattenNone
<1> QED BY <1>5

(* Blocks that are kept (Only) *)

\* A sequence with one more element than another.
LEMMA SeqLast ==
  ASSUME NEW X, NEW k \in Nat, NEW x \in [1..(k + 1) -> X]
  PROVE  x = [i \in 1..k |-> x[i]] \o <<x[k + 1]>>
<1> DEFINE r == [i \in 1..k |-> x[i]]
<1>1. r \in [1..k -> X] /\ \A i \in 1..k : r[i] = x[i]
  OBVIOUS
<1>2. PICK b \in X : b = x[k + 1]
  <2>1. k + 1 \in 1..(k + 1)
    OBVIOUS
  <2> QED BY <2>1
<1>3. <<b>> \in [1..1 -> X] /\ <<b>>[1] = b /\ 1 \in Nat
  OBVIOUS
<1> HIDE DEF r
<1> DEFINE y == r \o <<b>>
<1>4. y \in [1..(k + 1) -> X] /\ \A i \in 1..k : y[i] = r[i]
  <2>1. y \in [1..(k + 1) -> X]
    BY <1>1, <1>3, ConcatType
  <2>2. \A i \in 1..k : y[i] = r[i]
    BY <1>1, <1>3, ConcatLeft
  <2> QED BY <2>1, <2>2
<1>5. y[k + 1] = b
  <2>1. \A i \in 1..1 : (r \o <<b>>)[k + i] = <<b>>[i]
    BY <1>1, <1>3, ConcatRight, SMTT(60)
  <2>2. 1 \in 1..1
    OBVIOUS
  <2> QED BY <1>3, <2>1, <2>2
<1> HIDE DEF y
<1>6. ASSUME NEW i \in 1..(k + 1) PROVE x[i] = y[i]
  <2>1. i \in 1..k \/ i = k + 1
    OBVIOUS
  <2> QED BY <1>1, <1>2, <1>4, <1>5, <2>1
<1>7. x = y
  BY <1>4, <1>6
<1> QED BY <1>2, <1>7 DEF y, r

LEMMA SinglesOf ==
  ASSUME NEW X, NEW n \in Nat, NEW x \in [1..n -> X]
  PROVE  SF!FlattenSeq([i \in 1..n |-> <<x[i]>>]) = x
<1> DEFINE T == {k \in Nat : \A y \in [1..k -> X] : SF!FlattenSeq([i \in 1..k |-> <<y[i]>>]) = y}
<1>1. 0 \in T
  <2> SUFFICES ASSUME NEW y \in [1..0 -> X] PROVE SF!FlattenSeq([i \in 1..0 |-> <<y[i]>>]) = y
    OBVIOUS
  <2>1. y \in [1..0 -> {}] /\ [i \in 1..0 |-> <<y[i]>>] \in [1..0 -> {}]
    OBVIOUS
  <2>2. y = <<>> /\ [i \in 1..0 |-> <<y[i]>>] = <<>>
    BY <2>1, NoneIs
  <2> QED BY <2>2, FlattenNone, Zenon
<1>2. ASSUME NEW k \in Nat, k \in T PROVE k + 1 \in T
  <2> SUFFICES ASSUME NEW y \in [1..(k + 1) -> X]
               PROVE  SF!FlattenSeq([i \in 1..(k + 1) |-> <<y[i]>>]) = y
    OBVIOUS
  <2> DEFINE r == [i \in 1..k |-> y[i]]
             f == [i \in 1..(k + 1) |-> <<y[i]>>]
             d == [i \in 1..k |-> f[i]]
             e == [i \in 1..k |-> <<r[i]>>]
  <2>1. r \in [1..k -> X]
    OBVIOUS
  <2>2. SF!FlattenSeq(e) = r
    BY <1>2, <2>1
  <2>3. d = e
    OBVIOUS
  <2>4. f \in [1..(k + 1) -> Seq(X)] /\ f[k + 1] = <<y[k + 1]>>
    OBVIOUS
  <2>5. SF!FlattenSeq(f) = SF!FlattenSeq(d) \o f[k + 1]
    <3> HIDE DEF f
    <3> QED BY <2>4, FlattenStep
  <2>6. y = r \o <<y[k + 1]>>
    BY SeqLast
  <2>7. SF!FlattenSeq(f) = y
    <3> HIDE DEF r, f, d, e
    <3> QED BY <2>2, <2>3, <2>4, <2>5, <2>6, Zenon
  <2> QED BY <2>7
<1>3. n \in T
  <2> HIDE DEF T
  <2> QED BY <1>1, <1>2, SetInduction
<1> QED BY <1>3

Sift(x, S) == [i \in 1..Len(x) |-> IF x[i] \in S THEN <<x[i]>> ELSE <<>>]

LEMMA OnlyIs == \A x, S : SF!Only(x, S) = SF!FlattenSeq(Sift(x, S))
BY DEF SF!Only, Sift

LEMMA SiftType ==
  \A X, S : \A x \in Seq(X) : Sift(x, S) \in [1..Len(x) -> Seq(X)] /\ Len(x) \in Nat
<1> TAKE X, S
<1> TAKE x \in Seq(X)
<1>1. Len(x) \in Nat /\ x \in [1..Len(x) -> X]
  BY SeqFrom
<1>2. ASSUME NEW i \in 1..Len(x)
      PROVE  (IF x[i] \in S THEN <<x[i]>> ELSE <<>>) \in Seq(X)
  <2>1. x[i] \in X
    BY <1>1
  <2>2. <<x[i]>> \in Seq(X) /\ <<>> \in Seq(X)
    BY <2>1
  <2> QED BY <2>2
<1> QED BY <1>1, <1>2 DEF Sift

LEMMA OnlyType == \A X, S : \A x \in Seq(X) : SF!Only(x, S) \in Seq(X)
BY OnlyIs, SiftType, FlattenType

LEMMA OnlyHas ==
  \A X, S : \A x \in Seq(X) : SF!ToSet(SF!Only(x, S)) = SF!ToSet(x) \cap S
<1> TAKE X, S
<1> TAKE x \in Seq(X)
<1>1. Len(x) \in Nat /\ Sift(x, S) \in [1..Len(x) -> Seq(X)]
  BY SiftType
<1>2. \A b : b \in SF!ToSet(SF!Only(x, S)) <=> \E i \in 1..Len(x) : b \in SF!ToSet(Sift(x, S)[i])
  BY <1>1, OnlyIs, FlattenHas
<1>3. ASSUME NEW i \in 1..Len(x)
      PROVE  SF!ToSet(Sift(x, S)[i]) = IF x[i] \in S THEN {x[i]} ELSE {}
  <2>1. Sift(x, S)[i] = IF x[i] \in S THEN <<x[i]>> ELSE <<>>
    BY DEF Sift
  <2> QED BY <2>1, ToSetOne, ToSetNone
<1>4. SF!ToSet(x) = {x[i] : i \in 1..Len(x)}
  BY ToSetSeq
<1>5. ASSUME NEW b PROVE b \in SF!ToSet(SF!Only(x, S)) <=> b \in SF!ToSet(x) /\ b \in S
  <2>1. b \in SF!ToSet(SF!Only(x, S)) <=> \E i \in 1..Len(x) : x[i] \in S /\ b = x[i]
    BY <1>2, <1>3
  <2> QED BY <1>4, <2>1
<1> QED BY <1>5

LEMMA OnlyTwo ==
  \A X, S : \A x, y \in Seq(X) : SF!Only(x \o y, S) = SF!Only(x, S) \o SF!Only(y, S)
<1> TAKE X, S
<1> TAKE x, y \in Seq(X)
<1> DEFINE m == Len(x)
           n == Len(y)
           z == x \o y
           e == Sift(x, S) \o Sift(y, S)
<1>1. m \in Nat /\ n \in Nat /\ x \in [1..m -> X] /\ y \in [1..n -> X]
  BY SeqFrom
<1>2. Sift(x, S) \in [1..m -> Seq(X)] /\ Sift(y, S) \in [1..n -> Seq(X)]
  BY SiftType
<1> HIDE DEF m, n
<1>3. z \in [1..(m + n) -> X] /\ \A i \in 1..m : z[i] = x[i]
  <2>1. z \in [1..(m + n) -> X]
    BY <1>1, ConcatType
  <2>2. \A i \in 1..m : z[i] = x[i]
    BY <1>1, ConcatLeft
  <2> QED BY <2>1, <2>2
<1>4. \A i \in 1..n : z[m + i] = y[i]
  BY <1>1, ConcatRight, SMTT(60)
<1>5. e \in [1..(m + n) -> Seq(X)] /\ \A i \in 1..m : e[i] = Sift(x, S)[i]
  <2>1. e \in [1..(m + n) -> Seq(X)]
    BY <1>1, <1>2, ConcatType
  <2>2. \A i \in 1..m : e[i] = Sift(x, S)[i]
    BY <1>1, <1>2, ConcatLeft
  <2> QED BY <2>1, <2>2
<1>6. \A i \in 1..n : e[m + i] = Sift(y, S)[i]
  BY <1>1, <1>2, ConcatRight, SMTT(60)
<1>7. m + n \in Nat
  BY <1>1
<1> HIDE DEF z, e
<1>8. Len(z) = m + n
  BY <1>3, <1>7, InSeq
<1>9. /\ \A i \in 1..m : Sift(x, S)[i] = IF x[i] \in S THEN <<x[i]>> ELSE <<>>
      /\ \A i \in 1..n : Sift(y, S)[i] = IF y[i] \in S THEN <<y[i]>> ELSE <<>>
  BY DEF Sift, m, n
<1>10. ASSUME NEW i \in 1..(m + n)
       PROVE  e[i] = IF z[i] \in S THEN <<z[i]>> ELSE <<>>
  <2>1. CASE i <= m
    <3>1. i \in 1..m
      BY <1>1, <2>1
    <3>2. e[i] = Sift(x, S)[i] /\ z[i] = x[i]
      BY <1>3, <1>5, <3>1
    <3>3. Sift(x, S)[i] = IF x[i] \in S THEN <<x[i]>> ELSE <<>>
      BY <1>9, <3>1
    <3> QED BY <3>2, <3>3
  <2>2. CASE ~(i <= m)
    <3>1. i - m \in 1..n /\ m + (i - m) = i
      BY <1>1, <2>2
    <3>2. e[m + (i - m)] = Sift(y, S)[i - m] /\ z[m + (i - m)] = y[i - m]
      BY <1>4, <1>6, <3>1
    <3>3. Sift(y, S)[i - m] = IF y[i - m] \in S THEN <<y[i - m]>> ELSE <<>>
      BY <1>9, <3>1
    <3>4. e[i] = Sift(y, S)[i - m] /\ z[i] = y[i - m]
      BY <3>1, <3>2
    <3> QED BY <3>3, <3>4
  <2> QED BY <2>1, <2>2
<1>11. Sift(z, S) = e
  BY <1>5, <1>8, <1>10 DEF Sift
<1>12. SF!FlattenSeq(e) = SF!FlattenSeq(Sift(x, S)) \o SF!FlattenSeq(Sift(y, S))
  <2>1. PICK g \in [1..m -> Seq(X)] : g = Sift(x, S)
    BY <1>2
  <2>2. PICK h \in [1..n -> Seq(X)] : h = Sift(y, S)
    BY <1>2
  <2>3. SF!FlattenSeq(g \o h) = SF!FlattenSeq(g) \o SF!FlattenSeq(h)
    <3>1. m \in Nat /\ n \in Nat
      BY <1>1
    <3> QED BY <3>1, FlattenTwo
  <2> QED BY <2>1, <2>2, <2>3 DEF e
<1>13. SF!Only(z, S) = SF!Only(x, S) \o SF!Only(y, S)
  BY <1>11, <1>12, OnlyIs
<1> QED BY <1>13 DEF z

LEMMA OnlyOne == \A b, S : SF!Only(<<b>>, S) = IF b \in S THEN <<b>> ELSE <<>>
<1> TAKE b, S
<1> DEFINE p == IF b \in S THEN <<b>> ELSE <<>>
<1>1. Len(<<b>>) = 1 /\ <<b>>[1] = b
  OBVIOUS
<1>2. Sift(<<b>>, S) = [i \in 1..1 |-> p]
  BY <1>1 DEF Sift
<1>3. [i \in 1..1 |-> p] = <<p>>
  OBVIOUS
<1>4. p \in Seq({b})
  OBVIOUS
<1>5. SF!FlattenSeq(<<p>>) = p
  <2> HIDE DEF p
  <2> QED BY <1>4, FlattenOne
<1> QED BY <1>2, <1>3, <1>5, OnlyIs

LEMMA OnlyNone ==
  \A X, S : \A x \in Seq(X) : SF!ToSet(x) \cap S = {} => SF!Only(x, S) = <<>>
BY OnlyType, OnlyHas, ToSetEmpty

LEMMA OnlySame ==
  \A X, S, R : \A x \in Seq(X) :
    (\A b \in SF!ToSet(x) : b \in S <=> b \in R) => SF!Only(x, S) = SF!Only(x, R)
<1> TAKE X, S, R
<1> TAKE x \in Seq(X)
<1> SUFFICES ASSUME \A b \in SF!ToSet(x) : b \in S <=> b \in R PROVE Sift(x, S) = Sift(x, R)
  BY OnlyIs
<1>1. \A i \in 1..Len(x) : x[i] \in SF!ToSet(x)
  BY ToSetSeq
<1> QED BY <1>1 DEF Sift

LEMMA OnlyAll ==
  \A X, S : \A x \in Seq(X) : SF!ToSet(x) \subseteq S => SF!Only(x, S) = x
<1> TAKE X, S
<1> TAKE x \in Seq(X)
<1> SUFFICES ASSUME SF!ToSet(x) \subseteq S PROVE SF!Only(x, S) = x
  OBVIOUS
<1>1. \A i \in 1..Len(x) : x[i] \in SF!ToSet(x)
  BY ToSetSeq
<1>2. Sift(x, S) = [i \in 1..Len(x) |-> <<x[i]>>]
  BY <1>1 DEF Sift
<1>3. Len(x) \in Nat /\ x \in [1..Len(x) -> X]
  BY SeqFrom
<1>4. SF!FlattenSeq([i \in 1..Len(x) |-> <<x[i]>>]) = x
  BY <1>3, SinglesOf
<1> QED BY <1>2, <1>4, OnlyIs

LEMMA OnlyFlatten ==
  ASSUME NEW X, NEW S, NEW n \in Nat, NEW g \in [1..n -> Seq(X)]
  PROVE  SF!Only(SF!FlattenSeq(g), S) = SF!FlattenSeq([i \in 1..n |-> SF!Only(g[i], S)])
<1> DEFINE T == {k \in Nat : \A h \in [1..k -> Seq(X)] :
                   SF!Only(SF!FlattenSeq(h), S) = SF!FlattenSeq([i \in 1..k |-> SF!Only(h[i], S)])}
<1>1. 0 \in T
  <2> SUFFICES ASSUME NEW h \in [1..0 -> Seq(X)]
               PROVE  SF!Only(SF!FlattenSeq(h), S) = SF!FlattenSeq([i \in 1..0 |-> SF!Only(h[i], S)])
    OBVIOUS
  <2>1. h \in [1..0 -> {}] /\ [i \in 1..0 |-> SF!Only(h[i], S)] \in [1..0 -> {}]
    OBVIOUS
  <2>2. h = <<>> /\ [i \in 1..0 |-> SF!Only(h[i], S)] = <<>>
    BY <2>1, NoneIs
  <2>3. <<>> \in Seq(X) /\ SF!ToSet(<<>>) \cap S = {}
    BY ToSetNone, EmptySeq
  <2>4. SF!Only(<<>>, S) = <<>>
    BY <2>3, OnlyNone
  <2> QED BY <2>2, <2>4, FlattenNone, Zenon
<1>2. ASSUME NEW k \in Nat, k \in T PROVE k + 1 \in T
  <2> SUFFICES ASSUME NEW h \in [1..(k + 1) -> Seq(X)]
               PROVE  SF!Only(SF!FlattenSeq(h), S) = SF!FlattenSeq([i \in 1..(k + 1) |-> SF!Only(h[i], S)])
    OBVIOUS
  <2> DEFINE d == [i \in 1..k |-> h[i]]
             f == [i \in 1..(k + 1) |-> SF!Only(h[i], S)]
             e == [i \in 1..k |-> f[i]]
             c == [i \in 1..k |-> SF!Only(d[i], S)]
  <2>1. d \in [1..k -> Seq(X)]
    OBVIOUS
  <2>2. SF!Only(SF!FlattenSeq(d), S) = SF!FlattenSeq(c)
    BY <1>2, <2>1
  <2>3. c = e
    OBVIOUS
  <2>4. f \in [1..(k + 1) -> Seq(X)] /\ f[k + 1] = SF!Only(h[k + 1], S)
    BY OnlyType
  <2>5. SF!FlattenSeq(f) = SF!FlattenSeq(e) \o f[k + 1]
    <3> HIDE DEF f
    <3> QED BY <2>4, FlattenStep
  <2>6. SF!FlattenSeq(h) = SF!FlattenSeq(d) \o h[k + 1]
    BY FlattenStep
  <2>7. PICK a \in Seq(X) : a = SF!FlattenSeq(d)
    <3> HIDE DEF d
    <3> QED BY <2>1, FlattenType
  <2>8. PICK b \in Seq(X) : b = h[k + 1]
    <3>1. k + 1 \in 1..(k + 1)
      OBVIOUS
    <3> QED BY <3>1
  <2>9. SF!Only(a \o b, S) = SF!Only(a, S) \o SF!Only(b, S)
    BY OnlyTwo
  <2>10. SF!Only(SF!FlattenSeq(h), S) = SF!FlattenSeq(f)
    <3> HIDE DEF d, f, e, c
    <3> QED BY <2>2, <2>3, <2>4, <2>5, <2>6, <2>7, <2>8, <2>9, Zenon
  <2> QED BY <2>10
<1>3. n \in T
  <2> HIDE DEF T
  <2> QED BY <1>1, <1>2, SetInduction
<1> QED BY <1>3

LEMMA OnlyOnly ==
  \A X, A, B : \A x \in Seq(X) : SF!Only(SF!Only(x, A), B) = SF!Only(x, A \cap B)
<1> TAKE X, A, B
<1> TAKE x \in Seq(X)
<1>1. Len(x) \in Nat /\ Sift(x, A) \in [1..Len(x) -> Seq(X)]
  BY SiftType
<1>2. SF!Only(SF!FlattenSeq(Sift(x, A)), B) = SF!FlattenSeq([i \in 1..Len(x) |-> SF!Only(Sift(x, A)[i], B)])
  BY <1>1, OnlyFlatten
<1>3. SF!Only(<<>>, B) = <<>>
  <2>1. <<>> \in Seq(X) /\ SF!ToSet(<<>>) \cap B = {}
    BY ToSetNone, EmptySeq
  <2> QED BY <2>1, OnlyNone
<1>4. ASSUME NEW i \in 1..Len(x)
      PROVE  SF!Only(Sift(x, A)[i], B) = IF x[i] \in A \cap B THEN <<x[i]>> ELSE <<>>
  <2>1. Sift(x, A)[i] = IF x[i] \in A THEN <<x[i]>> ELSE <<>>
    BY DEF Sift
  <2> QED BY <1>3, <2>1, OnlyOne
<1>5. [i \in 1..Len(x) |-> SF!Only(Sift(x, A)[i], B)] = Sift(x, A \cap B)
  BY <1>4 DEF Sift
<1> QED BY <1>2, <1>5, OnlyIs

-----------------------------------------------------------------------------
(* The blocks of messages, and the path of a tree *)

\* The members of V are messages, or nodes.
Messages(V) == \A v \in V : v.has \in Seq(SF!AnyBlock)

LEMMA NodesAre == Messages(SF!Anyhow)
BY DEF Messages, SF!Anyhow

HasOf(x) == [i \in 1..Len(x) |-> x[i].has]

LEMMA BlocksAre == \A x : SF!Blocks(x) = SF!FlattenSeq(HasOf(x))
BY DEF SF!Blocks, HasOf

LEMMA HasType ==
  \A V : Messages(V) => \A x \in Seq(V) :
    Len(x) \in Nat /\ HasOf(x) \in [1..Len(x) -> Seq(SF!AnyBlock)]
<1> SUFFICES ASSUME NEW V, Messages(V), NEW x \in Seq(V)
             PROVE  Len(x) \in Nat /\ HasOf(x) \in [1..Len(x) -> Seq(SF!AnyBlock)]
  OBVIOUS
<1>1. Len(x) \in Nat /\ \A i \in 1..Len(x) : x[i] \in V
  BY SeqFrom
<1>2. \A i \in 1..Len(x) : x[i].has \in Seq(SF!AnyBlock)
  BY <1>1 DEF Messages
<1> QED BY <1>1, <1>2 DEF HasOf

LEMMA BlocksType ==
  \A V : Messages(V) => \A x \in Seq(V) : SF!Blocks(x) \in Seq(SF!AnyBlock)
BY BlocksAre, HasType, FlattenType

LEMMA BlocksHas ==
  \A V : Messages(V) => \A x \in Seq(V) : \A b :
    b \in SF!ToSet(SF!Blocks(x)) <=> \E i \in 1..Len(x) : b \in SF!ToSet(x[i].has)
<1> SUFFICES ASSUME NEW V, Messages(V), NEW x \in Seq(V), NEW b
             PROVE  b \in SF!ToSet(SF!Blocks(x)) <=> \E i \in 1..Len(x) : b \in SF!ToSet(x[i].has)
  OBVIOUS
<1>1. Len(x) \in Nat /\ HasOf(x) \in [1..Len(x) -> Seq(SF!AnyBlock)]
  BY HasType
<1>2. b \in SF!ToSet(SF!FlattenSeq(HasOf(x))) <=> \E i \in 1..Len(x) : b \in SF!ToSet(HasOf(x)[i])
  BY <1>1, FlattenHas
<1>3. \A i \in 1..Len(x) : HasOf(x)[i] = x[i].has
  BY DEF HasOf
<1> QED BY <1>2, <1>3, BlocksAre

LEMMA BlocksTwo ==
  \A V : Messages(V) => \A x, y \in Seq(V) : SF!Blocks(x \o y) = SF!Blocks(x) \o SF!Blocks(y)
<1> SUFFICES ASSUME NEW V, Messages(V), NEW x \in Seq(V), NEW y \in Seq(V)
             PROVE  SF!Blocks(x \o y) = SF!Blocks(x) \o SF!Blocks(y)
  OBVIOUS
<1>1. PICK m \in Nat : m = Len(x) /\ x \in [1..m -> V]
  BY SeqFrom
<1>2. PICK n \in Nat : n = Len(y) /\ y \in [1..n -> V]
  BY SeqFrom
<1>3. PICK g \in [1..m -> Seq(SF!AnyBlock)] : g = HasOf(x)
  BY <1>1, HasType
<1>4. PICK h \in [1..n -> Seq(SF!AnyBlock)] : h = HasOf(y)
  BY <1>2, HasType
<1> DEFINE z == x \o y
           e == g \o h
<1>5. z \in [1..(m + n) -> V]
  BY <1>1, <1>2, ConcatType
<1>6. \A i \in 1..m : z[i] = x[i]
  BY <1>1, <1>2, ConcatLeft
<1>7. \A i \in 1..n : z[m + i] = y[i]
  BY <1>1, <1>2, ConcatRight, SMTT(60)
<1>8. e \in [1..(m + n) -> Seq(SF!AnyBlock)]
  BY <1>3, <1>4, ConcatType
<1>9. \A i \in 1..m : e[i] = g[i]
  BY <1>3, <1>4, ConcatLeft
<1>10. \A i \in 1..n : e[m + i] = h[i]
  BY ConcatRight, SMTT(60)
<1>11. SF!FlattenSeq(e) = SF!FlattenSeq(g) \o SF!FlattenSeq(h)
  BY FlattenTwo, ZenonT(60)
<1> HIDE DEF z, e
<1>12. Len(z) = m + n
  <2>1. m + n \in Nat
    OBVIOUS
  <2> QED BY <1>5, <2>1, InSeq
<1>13. (\A i \in 1..m : g[i] = x[i].has) /\ (\A i \in 1..n : h[i] = y[i].has)
  BY <1>1, <1>2, <1>3, <1>4 DEF HasOf
<1>14. ASSUME NEW i \in 1..(m + n) PROVE e[i] = z[i].has
  <2>1. CASE i <= m
    <3>1. i \in 1..m
      BY <2>1
    <3> QED BY <1>6, <1>9, <1>13, <3>1
  <2>2. CASE ~(i <= m)
    <3>1. i - m \in 1..n /\ m + (i - m) = i
      BY <2>2
    <3>2. e[m + (i - m)] = h[i - m] /\ z[m + (i - m)] = y[i - m] /\ h[i - m] = y[i - m].has
      BY <1>7, <1>10, <1>13, <3>1
    <3> QED BY <3>1, <3>2
  <2> QED BY <2>1, <2>2
<1>15. HasOf(z) = e
  BY <1>8, <1>12, <1>14 DEF HasOf
<1>16. SF!Blocks(z) = SF!Blocks(x) \o SF!Blocks(y)
  BY <1>3, <1>4, <1>11, <1>15, BlocksAre
<1> QED BY <1>16 DEF z

LEMMA BlocksNone == SF!Blocks(<<>>) = <<>>
<1>1. Len(<<>>) = 0
  BY EmptySeq
<1>2. HasOf(<<>>) \in [1..0 -> {}]
  BY <1>1 DEF HasOf
<1>3. HasOf(<<>>) = <<>>
  BY <1>2, NoneIs
<1> QED BY <1>3, BlocksAre, FlattenNone

LEMMA BlocksOne ==
  \A V : Messages(V) => \A v \in V : SF!Blocks(<<v>>) = v.has
<1> SUFFICES ASSUME NEW V, Messages(V), NEW v \in V PROVE SF!Blocks(<<v>>) = v.has
  OBVIOUS
<1>1. v.has \in Seq(SF!AnyBlock)
  BY DEF Messages
<1>2. HasOf(<<v>>) = <<v.has>>
  BY DEF HasOf
<1>3. SF!FlattenSeq(<<v.has>>) = v.has
  BY <1>1, FlattenOne
<1> QED BY <1>2, <1>3, BlocksAre

LEMMA BlocksSame ==
  \A x, y : Len(x) = Len(y) /\ (\A i \in 1..Len(x) : x[i].has = y[i].has)
              => SF!Blocks(x) = SF!Blocks(y)
<1> SUFFICES ASSUME NEW x, NEW y, Len(x) = Len(y), \A i \in 1..Len(x) : x[i].has = y[i].has
             PROVE  HasOf(x) = HasOf(y)
  BY BlocksAre
<1> QED BY DEF HasOf

\* Nodes in the order they were made: a parent is before its children, or none,
\* or no message.
Climbing(nodes) ==
  nodes \in Seq(SF!Anyhow) /\ \A n \in 1..Len(nodes) : nodes[n].up \in -1..(n - 1)

LEMMA UpInduction ==
  ASSUME NEW nodes, Climbing(nodes), NEW T,
         \A n \in 1..Len(nodes) : (nodes[n].up > 0 => nodes[n].up \in T) => n \in T
  PROVE  1..Len(nodes) \subseteq T
<1> SUFFICES ASSUME 1..Len(nodes) \ T # {} PROVE FALSE
  OBVIOUS
<1>1. Len(nodes) \in Nat
  BY SeqFrom DEF Climbing
<1>2. PICK m \in 1..Len(nodes) \ T : \A y \in 1..Len(nodes) \ T : m <= y
  <2>1. 1..Len(nodes) \ T \subseteq Nat
    BY <1>1
  <2> QED BY <2>1, LeastNat
<1>3. nodes[m].up \in -1..(m - 1) /\ m \in Nat
  BY <1>2 DEF Climbing
<1>4. nodes[m].up > 0 /\ nodes[m].up \notin T
  BY <1>2
<1>5. nodes[m].up \in 1..Len(nodes) \ T
  BY <1>1, <1>2, <1>3, <1>4
<1> QED BY <1>2, <1>3, <1>5

\* The function by which Chain is computed exists.
Way(f, nodes, m) == f = [n \in -1..m |-> IF n < 1 THEN <<>> ELSE Append(f[nodes[n].up], n)]

LEMMA WayExists ==
  ASSUME NEW nodes, Climbing(nodes), NEW m \in 0..Len(nodes)
  PROVE  \E f : Way(f, nodes, m)
<1> DEFINE T == {n \in Nat : n <= Len(nodes) => \E f : Way(f, nodes, n)}
<1>0. Len(nodes) \in Nat
  BY SeqFrom DEF Climbing
<1>1. 0 \in T
  <2> DEFINE f == [n \in -1..0 |-> <<>>]
  <2>1. f = [n \in -1..0 |-> IF n < 1 THEN <<>> ELSE Append(f[nodes[n].up], n)]
    OBVIOUS
  <2>2. Way(f, nodes, 0)
    BY <2>1 DEF Way
  <2> HIDE DEF f
  <2> QED BY <2>2
<1>2. ASSUME NEW n \in Nat, n \in T PROVE n + 1 \in T
  <2> SUFFICES ASSUME n + 1 <= Len(nodes) PROVE \E f : Way(f, nodes, n + 1)
    OBVIOUS
  <2>1. PICK f : Way(f, nodes, n)
    BY <1>0, <1>2
  <2> DEFINE e == [i \in -1..(n + 1) |->
                     IF i <= n THEN f[i] ELSE Append(f[nodes[i].up], i)]
             h == [i \in -1..(n + 1) |-> IF i < 1 THEN <<>> ELSE Append(e[nodes[i].up], i)]
  <2>2. ASSUME NEW i \in -1..(n + 1) PROVE e[i] = h[i]
    <3>1. ~(i < 1) => e[nodes[i].up] = f[nodes[i].up]
      <4> SUFFICES ASSUME ~(i < 1) PROVE e[nodes[i].up] = f[nodes[i].up]
        OBVIOUS
      <4>1. i \in 1..Len(nodes)
        BY <1>0
      <4>2. nodes[i].up \in -1..(i - 1)
        BY <4>1 DEF Climbing
      <4>3. nodes[i].up \in -1..n /\ nodes[i].up \in -1..(n + 1) /\ nodes[i].up <= n
        BY <4>2
      <4> QED BY <4>3
    <3>2. h[i] = IF i < 1 THEN <<>> ELSE Append(e[nodes[i].up], i)
      OBVIOUS
    <3>3. CASE i <= n
      <4>1. e[i] = f[i] /\ i \in -1..n
        BY <3>3
      <4>2. f[i] = IF i < 1 THEN <<>> ELSE Append(f[nodes[i].up], i)
        BY <2>1, <4>1, Zenon DEF Way
      <4> HIDE DEF e, h
      <4> QED BY <3>1, <3>2, <4>1, <4>2
    <3>4. CASE ~(i <= n)
      <4>1. e[i] = Append(f[nodes[i].up], i) /\ ~(i < 1)
        BY <3>4
      <4> HIDE DEF e, h
      <4> QED BY <3>1, <3>2, <4>1
    <3> QED BY <3>3, <3>4
  <2>3. e = h
    BY <2>2
  <2>4. Way(e, nodes, n + 1)
    <3> HIDE DEF e
    <3> QED BY <2>3 DEF Way
  <2> HIDE DEF e, h
  <2> QED BY <2>4
<1>3. m \in T
  <2> HIDE DEF T
  <2> QED BY <1>0, <1>1, <1>2, SetInduction
<1> QED BY <1>0, <1>3

LEMMA ChainIs ==
  ASSUME NEW nodes, Climbing(nodes)
  PROVE  /\ SF!Chain(nodes, 0) = <<>> /\ SF!Chain(nodes, -1) = <<>>
         /\ \A n \in 1..Len(nodes) :
              SF!Chain(nodes, n) = Append(SF!Chain(nodes, nodes[n].up), n)
<1> DEFINE c == CHOOSE f : Way(f, nodes, Len(nodes))
<1>1. Len(nodes) \in Nat
  BY SeqFrom DEF Climbing
<1>2. \E f : Way(f, nodes, Len(nodes))
  <2>1. Len(nodes) \in 0..Len(nodes)
    BY <1>1
  <2> QED BY <2>1, WayExists
<1>3. Way(c, nodes, Len(nodes))
  BY <1>2
<1>4. \A n : SF!Chain(nodes, n) = c[n]
  BY DEF SF!Chain, Way
<1> HIDE DEF c
<1>5. \A n \in -1..Len(nodes) : c[n] = IF n < 1 THEN <<>> ELSE Append(c[nodes[n].up], n)
  BY <1>3, Zenon DEF Way
<1>6. c[0] = <<>> /\ c[-1] = <<>>
  <2>1. 0 \in -1..Len(nodes) /\ -1 \in -1..Len(nodes) /\ 0 < 1 /\ -1 < 1
    BY <1>1
  <2> QED BY <1>5, <2>1
<1>7. ASSUME NEW n \in 1..Len(nodes) PROVE c[n] = Append(c[nodes[n].up], n)
  <2>1. n \in -1..Len(nodes) /\ ~(n < 1)
    BY <1>1
  <2> QED BY <1>5, <2>1
<1> QED BY <1>4, <1>6, <1>7

LEMMA OneType == \A V : \A e \in V : <<e>> \in Seq(V)
OBVIOUS

LEMMA ToSetAppend ==
  \A V : \A s \in Seq(V) : \A e \in V : SF!ToSet(Append(s, e)) = SF!ToSet(s) \cup {e}
<1> SUFFICES ASSUME NEW V, NEW s \in Seq(V), NEW e \in V
             PROVE  SF!ToSet(Append(s, e)) = SF!ToSet(s) \cup {e}
  OBVIOUS
<1>1. Append(s, e) = s \o <<e>>
  BY AppendIsConcat
<1>2. PICK t \in Seq(V) : t = <<e>>
  BY OneType, Zenon
<1>3. SF!ToSet(s \o t) = SF!ToSet(s) \cup SF!ToSet(t)
  BY ToSetTwo
<1> QED BY <1>1, <1>2, <1>3, ToSetOne

\* A chain is made of nodes up to its end.
LEMMA ChainType ==
  ASSUME NEW nodes, Climbing(nodes)
  PROVE  \A n \in 1..Len(nodes) :
           /\ SF!Chain(nodes, n) \in Seq(1..Len(nodes))
           /\ n \in SF!ToSet(SF!Chain(nodes, n))
           /\ \A k \in SF!ToSet(SF!Chain(nodes, n)) : k <= n
<1> DEFINE L == 1..Len(nodes)
           T == {n \in L : /\ SF!Chain(nodes, n) \in Seq(L)
                           /\ n \in SF!ToSet(SF!Chain(nodes, n))
                           /\ \A k \in SF!ToSet(SF!Chain(nodes, n)) : k <= n}
<1>1. ASSUME NEW n \in L, nodes[n].up > 0 => nodes[n].up \in T PROVE n \in T
  <2> DEFINE c == SF!Chain(nodes, nodes[n].up)
  <2>0. nodes[n].up \in -1..(n - 1) /\ n \in Nat
    BY SeqFrom DEF Climbing
  <2>1. c \in Seq(L) /\ \A k \in SF!ToSet(c) : k <= n
    <3>1. CASE nodes[n].up > 0
      <4>1. c \in Seq(L) /\ \A k \in SF!ToSet(c) : k <= nodes[n].up
        BY <1>1, <3>1
      <4>2. SF!ToSet(c) \subseteq L
        BY <4>1, ToSetSeq
      <4>3. \A k \in L : k \in Int
        OBVIOUS
      <4>4. nodes[n].up \in Int /\ nodes[n].up <= n
        BY <2>0
      <4> HIDE DEF c, L
      <4>5. ASSUME NEW k \in SF!ToSet(c) PROVE k <= n
        <5>1. k \in Int /\ k <= nodes[n].up
          BY <4>1, <4>2, <4>3
        <5> QED BY <2>0, <4>4, <5>1
      <4> QED BY <4>1, <4>5
    <3>2. CASE ~(nodes[n].up > 0)
      <4>1. nodes[n].up = 0 \/ nodes[n].up = -1
        BY <2>0, <3>2
      <4>2. c = <<>>
        BY <4>1, ChainIs
      <4>3. <<>> \in Seq(L)
        OBVIOUS
      <4> HIDE DEF c
      <4> QED BY <4>2, <4>3, ToSetNone
    <3> QED BY <3>1, <3>2
  <2>2. SF!Chain(nodes, n) = Append(c, n)
    BY ChainIs
  <2>3. Append(c, n) \in Seq(L) /\ SF!ToSet(Append(c, n)) = SF!ToSet(c) \cup {n}
    <3> HIDE DEF c, L
    <3> QED BY <2>1, AppendProperties, ToSetAppend
  <2> HIDE DEF c, L
  <2>4. \A k \in SF!ToSet(Append(c, n)) : k <= n
    BY <2>0, <2>1, <2>3
  <2> QED BY <2>2, <2>3, <2>4
<1>2. L \subseteq T
  <2> HIDE DEF T
  <2> QED BY <1>1, UpInduction
<1> QED BY <1>2

\* The nodes of a chain.
Walk(nodes, n) ==
  LET c == SF!Chain(nodes, n) IN [i \in 1..Len(c) |-> nodes[c[i]]]

LEMMA PathIs == \A t : SF!Path(t) = Walk(t.nodes, t.at)
BY DEF SF!Path, Walk

LEMMA WalkNone ==
  ASSUME NEW nodes, Climbing(nodes), NEW n \in {-1, 0} PROVE Walk(nodes, n) = <<>>
<1>1. SF!Chain(nodes, n) = <<>> /\ Len(<<>>) = 0
  BY ChainIs, EmptySeq
<1>2. Walk(nodes, n) \in [1..0 -> {}]
  BY <1>1 DEF Walk
<1> QED BY <1>2, NoneIs

LEMMA ChainAny ==
  ASSUME NEW nodes, Climbing(nodes), NEW n \in -1..Len(nodes)
  PROVE  SF!Chain(nodes, n) \in Seq(1..Len(nodes))
<1>1. CASE n \in 1..Len(nodes)
  BY <1>1, ChainType
<1>2. CASE n \notin 1..Len(nodes)
  <2>1. Len(nodes) \in Nat
    BY SeqFrom DEF Climbing
  <2>2. n = 0 \/ n = -1
    BY <1>2, <2>1
  <2>3. SF!Chain(nodes, n) = <<>>
    BY <2>2, ChainIs
  <2> QED BY <2>3
<1> QED BY <1>1, <1>2

LEMMA WalkType ==
  ASSUME NEW nodes, Climbing(nodes), NEW n \in -1..Len(nodes)
  PROVE  /\ Walk(nodes, n) \in Seq(SF!Anyhow)
         /\ \A i \in 1..Len(Walk(nodes, n)) : \E k \in 1..Len(nodes) : Walk(nodes, n)[i] = nodes[k]
<1>1. PICK c \in Seq(1..Len(nodes)) : c = SF!Chain(nodes, n)
  BY ChainAny
<1>2. PICK m \in Nat : m = Len(c) /\ c \in [1..m -> 1..Len(nodes)]
  BY SeqFrom
<1>3. Walk(nodes, n) = [i \in 1..m |-> nodes[c[i]]]
  BY <1>1, <1>2 DEF Walk
<1>4. \A k \in 1..Len(nodes) : nodes[k] \in SF!Anyhow
  BY SeqFrom DEF Climbing
<1>5. Walk(nodes, n) \in [1..m -> SF!Anyhow]
  BY <1>2, <1>3, <1>4
<1>6. Walk(nodes, n) \in Seq(SF!Anyhow) /\ Len(Walk(nodes, n)) = m
  BY <1>5, InSeq
<1>7. \A i \in 1..m : c[i] \in 1..Len(nodes) /\ Walk(nodes, n)[i] = nodes[c[i]]
  BY <1>2, <1>3
<1> QED BY <1>6, <1>7

LEMMA WalkStep ==
  ASSUME NEW nodes, Climbing(nodes), NEW n \in 1..Len(nodes)
  PROVE  Walk(nodes, n) = Walk(nodes, nodes[n].up) \o <<nodes[n]>>
<1>0. nodes[n].up \in -1..Len(nodes) /\ Len(nodes) \in Nat
  <2>1. nodes[n].up \in -1..(n - 1) /\ Len(nodes) \in Nat
    BY SeqFrom DEF Climbing
  <2> QED BY <2>1
<1>1. PICK c \in Seq(1..Len(nodes)) : c = SF!Chain(nodes, nodes[n].up)
  BY <1>0, ChainAny
<1>2. PICK m \in Nat : m = Len(c) /\ c \in [1..m -> 1..Len(nodes)]
  BY SeqFrom
<1>3. SF!Chain(nodes, n) = Append(c, n)
  BY <1>1, ChainIs
<1> DEFINE d == Append(c, n)
           w == [i \in 1..(m + 1) |-> nodes[d[i]]]
<1>4. d \in Seq(1..Len(nodes)) /\ Len(d) = m + 1 /\ d[m + 1] = n /\ \A i \in 1..m : d[i] = c[i]
  BY <1>2, AppendProperties
<1> HIDE DEF d
<1>5. \A k \in 1..Len(nodes) : nodes[k] \in SF!Anyhow
  BY SeqFrom DEF Climbing
<1>6. w \in [1..(m + 1) -> SF!Anyhow]
  <2>1. \A i \in 1..(m + 1) : d[i] \in 1..Len(nodes)
    BY <1>4, SeqFrom
  <2> QED BY <1>5, <2>1
<1>7. Walk(nodes, n) = w
  BY <1>3, <1>4 DEF Walk, d
<1>8. [i \in 1..m |-> w[i]] = Walk(nodes, nodes[n].up)
  <2>1. Walk(nodes, nodes[n].up) = [i \in 1..m |-> nodes[c[i]]]
    BY <1>1, <1>2 DEF Walk
  <2>2. ASSUME NEW i \in 1..m PROVE w[i] = nodes[c[i]]
    BY <1>4
  <2> HIDE DEF w
  <2> QED BY <2>1, <2>2
<1>9. w[m + 1] = nodes[n]
  BY <1>4
<1> HIDE DEF w
<1>10. w = [i \in 1..m |-> w[i]] \o <<w[m + 1]>>
  BY <1>6, SeqLast
<1> QED BY <1>7, <1>8, <1>9, <1>10, Zenon

-----------------------------------------------------------------------------
(* A path beside which nothing of S is *)

\* A message without blocks of S.
Bare(m, S) == SF!ToSet(m.has) \cap S = {}

\* The way of the nodes T to at: a node's parent is on it, and between them is
\* nothing of S.
Way2(nodes, T, tip, S) ==
  /\ T \subseteq 1..Len(nodes) /\ tip \in T \cup {0}
  /\ \A n \in T : /\ nodes[n].up \in T \cup {0}
                  /\ \A k \in 1..Len(nodes) : nodes[n].up < k /\ k < n => Bare(nodes[k], S)

Spine(nodes, tip, S) == \E T : Way2(nodes, T, tip, S)

Upto(nodes, n) == [i \in 1..n |-> nodes[i]]

LEMMA UptoType ==
  ASSUME NEW V, NEW nodes \in Seq(V), NEW n \in 0..Len(nodes)
  PROVE  Upto(nodes, n) \in Seq(V) /\ Len(Upto(nodes, n)) = n
<1>1. Len(nodes) \in Nat /\ \A i \in 1..Len(nodes) : nodes[i] \in V
  BY SeqFrom
<1>2. Upto(nodes, n) \in [1..n -> V] /\ n \in Nat
  BY <1>1 DEF Upto
<1> QED BY <1>2, InSeq

LEMMA UptoStep ==
  ASSUME NEW V, NEW nodes \in Seq(V), NEW n \in Nat, n + 1 <= Len(nodes)
  PROVE  Upto(nodes, n + 1) = Upto(nodes, n) \o <<nodes[n + 1]>>
<1>1. Len(nodes) \in Nat /\ \A i \in 1..Len(nodes) : nodes[i] \in V
  BY SeqFrom
<1> DEFINE x == Upto(nodes, n + 1)
<1>2. x \in [1..(n + 1) -> V] /\ x[n + 1] = nodes[n + 1]
  BY <1>1 DEF Upto
<1>3. [i \in 1..n |-> x[i]] = Upto(nodes, n)
  BY DEF Upto
<1> HIDE DEF x
<1>4. x = [i \in 1..n |-> x[i]] \o <<x[n + 1]>>
  BY <1>2, SeqLast
<1>5. x = Upto(nodes, n) \o <<nodes[n + 1]>>
  BY <1>2, <1>3, <1>4, Zenon
<1> QED BY <1>5 DEF x

\* What of S is in the first messages, is that of the messages before the last of
\* them and of the last.
LEMMA KeptStep ==
  ASSUME NEW V, Messages(V), NEW x \in Seq(V), NEW v \in V, NEW S
  PROVE  SF!Only(SF!Blocks(x \o <<v>>), S) = SF!Only(SF!Blocks(x), S) \o SF!Only(v.has, S)
<1>1. PICK y \in Seq(V) : y = <<v>>
  BY OneType, Zenon
<1>2. SF!Blocks(x \o y) = SF!Blocks(x) \o SF!Blocks(y)
  BY BlocksTwo
<1>3. SF!Blocks(y) = v.has
  BY <1>1, BlocksOne
<1>4. PICK a \in Seq(SF!AnyBlock) : a = SF!Blocks(x)
  BY BlocksType
<1>5. PICK b \in Seq(SF!AnyBlock) : b = v.has
  BY DEF Messages
<1>6. SF!Only(a \o b, S) = SF!Only(a, S) \o SF!Only(b, S)
  BY OnlyTwo
<1> QED BY <1>1, <1>2, <1>3, <1>4, <1>5, <1>6, Zenon

LEMMA BareSkipped ==
  ASSUME NEW V, Messages(V), NEW nodes \in Seq(V), NEW S, NEW a \in 0..Len(nodes),
         NEW b \in 0..Len(nodes), a <= b, \A k \in 1..Len(nodes) : a < k /\ k <= b => Bare(nodes[k], S)
  PROVE  SF!Only(SF!Blocks(Upto(nodes, b)), S) = SF!Only(SF!Blocks(Upto(nodes, a)), S)
<1>0. Len(nodes) \in Nat /\ \A i \in 1..Len(nodes) : nodes[i] \in V
  BY SeqFrom
<1> DEFINE K(n) == SF!Only(SF!Blocks(Upto(nodes, n)), S)
           T == {n \in Nat : a <= n /\ n <= b => K(n) = K(a)}
<1>1. 0 \in T
  <2>1. a <= 0 => a = 0
    BY <1>0
  <2> HIDE DEF K
  <2> QED BY <2>1
<1>2. ASSUME NEW n \in Nat, n \in T PROVE n + 1 \in T
  <2> SUFFICES ASSUME a <= n + 1, n + 1 <= b PROVE K(n + 1) = K(a)
    OBVIOUS
  <2>1. CASE a = n + 1
    <3> HIDE DEF K
    <3> QED BY <2>1
  <2>2. CASE a # n + 1
    <3>1. a <= n /\ n <= b /\ n + 1 <= Len(nodes) /\ n + 1 \in 1..Len(nodes) /\ n \in 0..Len(nodes) /\ a < n + 1
      BY <1>0, <2>2
    <3>2. K(n) = K(a)
      <4> HIDE DEF K
      <4> QED BY <1>2, <3>1
    <3>3. PICK v \in V : v = nodes[n + 1]
      BY <1>0, <3>1
    <3>4. Bare(v, S)
      BY <3>1, <3>3
    <3>5. SF!Only(v.has, S) = <<>>
      <4>1. v.has \in Seq(SF!AnyBlock)
        BY DEF Messages
      <4> QED BY <3>4, <4>1, OnlyNone DEF Bare
    <3>6. PICK x \in Seq(V) : x = Upto(nodes, n)
      BY <3>1, UptoType
    <3>7. Upto(nodes, n + 1) = x \o <<v>>
      BY <3>1, <3>3, <3>6, UptoStep
    <3>8. SF!Only(SF!Blocks(x \o <<v>>), S) = SF!Only(SF!Blocks(x), S) \o SF!Only(v.has, S)
      BY KeptStep
    <3>9. SF!Only(SF!Blocks(x), S) \in Seq(SF!AnyBlock)
      BY BlocksType, OnlyType
    <3>10. SF!Only(SF!Blocks(x), S) \o <<>> = SF!Only(SF!Blocks(x), S)
      BY <3>9, ConcatEmptySeq
    <3>11. K(n + 1) = K(n)
      BY <3>5, <3>6, <3>7, <3>8, <3>10, Zenon
    <3> HIDE DEF K
    <3> QED BY <3>2, <3>11
  <2> QED BY <2>1, <2>2
<1>3. b \in T
  <2> HIDE DEF T
  <2>1. b \in Nat
    BY <1>0
  <2> QED BY <1>1, <1>2, <2>1, SetInduction
<1> HIDE DEF K
<1>4. K(b) = K(a)
  BY <1>0, <1>3
<1> QED BY <1>4 DEF K

\* The path of such a tree has all of S that its nodes up to the leaf have.
LEMMA SpineKeeps ==
  ASSUME NEW nodes, Climbing(nodes), NEW S, NEW tip, Spine(nodes, tip, S)
  PROVE  SF!Only(SF!Blocks(Walk(nodes, tip)), S) = SF!Only(SF!Blocks(Upto(nodes, tip)), S)
<1>0. nodes \in Seq(SF!Anyhow) /\ Len(nodes) \in Nat /\ \A i \in 1..Len(nodes) : nodes[i] \in SF!Anyhow
  BY SeqFrom DEF Climbing
<1>1. PICK T : Way2(nodes, T, tip, S)
  BY DEF Spine
<1> DEFINE K(n) == SF!Only(SF!Blocks(Upto(nodes, n)), S)
           P(n) == SF!Only(SF!Blocks(Walk(nodes, n)), S)
           R == {n \in 1..Len(nodes) : n \in T => P(n) = K(n)}
<1>2. P(0) = K(0)
  <2>1. Walk(nodes, 0) = <<>>
    BY WalkNone
  <2>2. Upto(nodes, 0) \in [1..0 -> {}]
    BY DEF Upto
  <2>3. Upto(nodes, 0) = <<>>
    BY <2>2, NoneIs
  <2> QED BY <2>1, <2>3
<1>3. ASSUME NEW n \in 1..Len(nodes), nodes[n].up > 0 => nodes[n].up \in R PROVE n \in R
  <2> SUFFICES ASSUME n \in T PROVE P(n) = K(n)
    OBVIOUS
  <2>1. PICK u : u = nodes[n].up
    OBVIOUS
  <2>2. u \in T \cup {0} /\ u \in -1..(n - 1)
    BY <1>1, <2>1 DEF Way2, Climbing
  <2>3. u \in 0..Len(nodes) /\ u <= n - 1 /\ n - 1 \in 0..Len(nodes) /\ u \in -1..Len(nodes) /\ n - 1 \in Nat /\ (n - 1) + 1 = n
    BY <1>0, <1>1, <2>2 DEF Way2
  <2>4. P(u) = K(u)
    <3> HIDE DEF P, K
    <3>1. CASE u = 0
      BY <1>2, <3>1
    <3>2. CASE u # 0
      <4>1. u > 0 /\ u \in T
        BY <2>2, <2>3, <3>2
      <4> QED BY <1>3, <2>1, <4>1
    <3> QED BY <3>1, <3>2
  <2>5. K(n - 1) = K(u)
    <3>1. ASSUME NEW k \in 1..Len(nodes), u < k, k <= n - 1 PROVE Bare(nodes[k], S)
      <4>1. nodes[n].up < k /\ k < n
        BY <1>0, <2>1, <2>3, <3>1
      <4> QED BY <1>1, <4>1 DEF Way2
    <3> QED BY <1>0, <2>3, <3>1, NodesAre, BareSkipped
  <2>6. PICK v \in SF!Anyhow : v = nodes[n]
    BY <1>0
  <2>7. PICK x \in Seq(SF!Anyhow) : x = Upto(nodes, n - 1)
    BY <1>0, <2>3, UptoType
  <2>8. Upto(nodes, n) = x \o <<v>>
    <3>1. Upto(nodes, (n - 1) + 1) = Upto(nodes, n - 1) \o <<nodes[(n - 1) + 1]>>
      BY <1>0, <2>3, UptoStep
    <3> QED BY <2>3, <2>6, <2>7, <3>1
  <2>9. PICK w \in Seq(SF!Anyhow) : w = Walk(nodes, u)
    BY <2>3, WalkType
  <2>10. Walk(nodes, n) = w \o <<v>>
    BY <2>1, <2>6, <2>9, WalkStep
  <2>11. /\ SF!Only(SF!Blocks(x \o <<v>>), S) = SF!Only(SF!Blocks(x), S) \o SF!Only(v.has, S)
         /\ SF!Only(SF!Blocks(w \o <<v>>), S) = SF!Only(SF!Blocks(w), S) \o SF!Only(v.has, S)
    BY NodesAre, KeptStep
  <2> QED BY <2>4, <2>5, <2>7, <2>8, <2>9, <2>10, <2>11, Zenon
<1>4. 1..Len(nodes) \subseteq R
  <2> HIDE DEF R
  <2> QED BY <1>3, UpInduction
<1>5. P(tip) = K(tip)
  <2> HIDE DEF P, K
  <2>1. tip = 0 \/ (tip \in 1..Len(nodes) /\ tip \in T)
    BY <1>1 DEF Way2
  <2> QED BY <1>2, <1>4, <2>1
<1> QED BY <1>5

-----------------------------------------------------------------------------
(* Nodes that are made of messages *)

Mess == [role : {"user", "assistant", "tool"}, has : Seq(SF!AnyBlock)]

LEMMA MessAre == Messages(Mess)
BY DEF Messages, Mess

Content(nodes) ==
  [n \in 1..Len(nodes) |-> [role |-> nodes[n].role, has |-> nodes[n].has]]

LEMMA ContentIs ==
  ASSUME NEW nodes \in Seq(SF!Anyhow)
  PROVE  /\ Content(nodes) \in Seq(Mess) /\ Len(Content(nodes)) = Len(nodes)
         /\ SF!Blocks(Content(nodes)) = SF!Blocks(nodes)
<1>1. Len(nodes) \in Nat /\ \A n \in 1..Len(nodes) : nodes[n] \in SF!Anyhow
  BY SeqFrom
<1>2. Content(nodes) \in [1..Len(nodes) -> Mess]
  <2>1. \A m \in SF!Anyhow : [role |-> m.role, has |-> m.has] \in Mess
    BY DEF SF!Anyhow, Mess
  <2> QED BY <1>1, <2>1 DEF Content
<1>3. Content(nodes) \in Seq(Mess) /\ Len(Content(nodes)) = Len(nodes)
  BY <1>1, <1>2, InSeq
<1>4. \A n \in 1..Len(nodes) : Content(nodes)[n].has = nodes[n].has
  BY DEF Content
<1>5. SF!Blocks(Content(nodes)) = SF!Blocks(nodes)
  BY <1>3, <1>4, BlocksSame
<1> QED BY <1>3, <1>5

LEMMA SeqSame ==
  \A X : \A s, t \in Seq(X) : Len(s) = Len(t) /\ (\A i \in 1..Len(s) : s[i] = t[i]) => s = t
BY SeqEqual

\* Messages under a node: the first under the leaf, each other under the one before.
LEMMA UnderIs ==
  ASSUME NEW nodes \in Seq(SF!Anyhow), NEW below \in Int, NEW msgs \in Seq(Mess)
  PROVE  LET new == SF!Under(nodes, below, msgs)
         IN  /\ new \in Seq(SF!Anyhow) /\ Len(new) = Len(nodes) + Len(msgs)
             /\ \A i \in 1..Len(nodes) : new[i] = nodes[i]
             /\ \A i \in 1..Len(msgs) :
                  new[Len(nodes) + i]
                    = SF!Node(msgs[i], IF i = 1 THEN below ELSE Len(nodes) + i - 1)
<1>1. PICK m \in Nat : m = Len(nodes) /\ nodes \in [1..m -> SF!Anyhow]
  BY SeqFrom
<1>2. PICK n \in Nat : n = Len(msgs) /\ msgs \in [1..n -> Mess]
  BY SeqFrom
<1> DEFINE more == [i \in 1..n |-> SF!Node(msgs[i], IF i = 1 THEN below ELSE m + i - 1)]
           new == nodes \o more
<1>3. more \in [1..n -> SF!Anyhow]
  <2>1. ASSUME NEW k \in Mess, NEW u \in Int PROVE SF!Node(k, u) \in SF!Anyhow
    BY DEF SF!Node, SF!Anyhow, Mess
  <2>2. ASSUME NEW i \in 1..n PROVE msgs[i] \in Mess /\ (IF i = 1 THEN below ELSE m + i - 1) \in Int
    BY <1>2
  <2>3. \A i \in 1..n : SF!Node(msgs[i], IF i = 1 THEN below ELSE m + i - 1) \in SF!Anyhow
    BY <2>1, <2>2
  <2> QED BY <2>3
<1>4. \A i \in 1..n : more[i] = SF!Node(msgs[i], IF i = 1 THEN below ELSE m + i - 1)
  OBVIOUS
<1>5. SF!Under(nodes, below, msgs) = new
  BY <1>1, <1>2 DEF SF!Under
<1> HIDE DEF more
<1>6. new \in [1..(m + n) -> SF!Anyhow]
  BY <1>1, <1>3, ConcatType
<1>7. \A i \in 1..m : new[i] = nodes[i]
  BY <1>1, <1>3, ConcatLeft
<1>8. \A i \in 1..n : new[m + i] = more[i]
  BY <1>1, <1>3, ConcatRight, SMTT(60)
<1> HIDE DEF new
<1>9. new \in Seq(SF!Anyhow) /\ Len(new) = m + n
  BY <1>6, InSeq
<1> QED BY <1>1, <1>2, <1>4, <1>5, <1>7, <1>8, <1>9

LEMMA NodeIs ==
  \A m, u : SF!Node(m, u).has = m.has /\ SF!Node(m, u).role = m.role /\ SF!Node(m, u).up = u
BY DEF SF!Node

LEMMA ContentUnder ==
  ASSUME NEW nodes \in Seq(SF!Anyhow), NEW below \in Int, NEW msgs \in Seq(Mess)
  PROVE  Content(SF!Under(nodes, below, msgs)) = Content(nodes) \o msgs
<1> DEFINE new == SF!Under(nodes, below, msgs)
<1>1. PICK m \in Nat : m = Len(nodes) /\ Content(nodes) \in [1..m -> Mess]
  BY ContentIs, SeqFrom
<1>2. PICK n \in Nat : n = Len(msgs) /\ msgs \in [1..n -> Mess]
  BY SeqFrom
<1>3. /\ new \in Seq(SF!Anyhow) /\ Len(new) = m + n
      /\ \A i \in 1..m : new[i] = nodes[i]
      /\ \A i \in 1..n : new[m + i] = SF!Node(msgs[i], IF i = 1 THEN below ELSE m + i - 1)
  BY <1>1, <1>2, UnderIs, ZenonT(60)
<1> HIDE DEF new
<1> DEFINE z == Content(nodes) \o msgs
<1>4. z \in [1..(m + n) -> Mess]
  BY <1>1, <1>2, ConcatType
<1>5. \A i \in 1..m : z[i] = Content(nodes)[i]
  BY <1>1, <1>2, ConcatLeft
<1>6. \A i \in 1..n : z[m + i] = msgs[i]
  BY <1>1, <1>2, ConcatRight, SMTT(60)
<1> HIDE DEF z
<1>7. ASSUME NEW i \in 1..(m + n) PROVE [role |-> new[i].role, has |-> new[i].has] = z[i]
  <2>1. CASE i <= m
    <3>1. i \in 1..m
      BY <2>1
    <3> QED BY <1>1, <1>3, <1>5, <3>1 DEF Content
  <2>2. CASE ~(i <= m)
    <3>1. i - m \in 1..n /\ m + (i - m) = i
      BY <2>2
    <3>2. new[m + (i - m)].role = msgs[i - m].role /\ new[m + (i - m)].has = msgs[i - m].has
      BY <1>3, <3>1, NodeIs
    <3>3. z[m + (i - m)] = msgs[i - m] /\ msgs[i - m] \in Mess
      BY <1>2, <1>6, <3>1
    <3>4. \A k \in Mess : [role |-> k.role, has |-> k.has] = k
      BY DEF Mess
    <3> QED BY <3>1, <3>2, <3>3, <3>4
  <2> QED BY <2>1, <2>2
<1>8. Content(new) = [i \in 1..(m + n) |-> [role |-> new[i].role, has |-> new[i].has]]
  BY <1>3 DEF Content
<1>9. Content(new) = z
  BY <1>4, <1>7, <1>8
<1> QED BY <1>9 DEF new, z

LEMMA LinearIs ==
  ASSUME NEW msgs \in Seq(Mess)
  PROVE  LET t == SF!Linear(msgs)
         IN  /\ t.nodes \in Seq(SF!Anyhow) /\ Len(t.nodes) = Len(msgs) /\ t.at = Len(msgs)
             /\ \A i \in 1..Len(msgs) : t.nodes[i] = SF!Node(msgs[i], i - 1)
             /\ Content(t.nodes) = msgs
<1>1. SF!Linear(msgs).nodes = SF!Under(<<>>, 0, msgs) /\ SF!Linear(msgs).at = Len(msgs)
  BY DEF SF!Linear
<1>2. PICK e \in Seq(SF!Anyhow) : e = <<>> /\ Len(e) = 0
  BY EmptySeq
<1>3. PICK n \in Nat : n = Len(msgs)
  BY SeqFrom
<1> DEFINE new == SF!Under(e, 0, msgs)
<1>4. /\ new \in Seq(SF!Anyhow) /\ Len(new) = 0 + n
      /\ \A i \in 1..n : new[0 + i] = SF!Node(msgs[i], IF i = 1 THEN 0 ELSE 0 + i - 1)
  <2>1. 0 \in Int
    OBVIOUS
  <2>2. /\ new \in Seq(SF!Anyhow) /\ Len(new) = Len(e) + Len(msgs)
        /\ \A i \in 1..Len(msgs) :
             new[Len(e) + i] = SF!Node(msgs[i], IF i = 1 THEN 0 ELSE Len(e) + i - 1)
    BY <2>1, UnderIs, SMTT(60)
  <2> HIDE DEF new
  <2>3. Len(e) = 0 /\ Len(msgs) = n
    BY <1>2, <1>3
  <2> QED BY <2>2, <2>3
<1>5. Content(new) = Content(e) \o msgs
  BY ContentUnder
<1>6. Content(e) = <<>>
  <2>1. Content(e) \in [1..0 -> {}]
    BY <1>2 DEF Content
  <2> QED BY <2>1, NoneIs
<1>7. <<>> \o msgs = msgs
  BY ConcatEmptySeq
<1> HIDE DEF new
<1>8. \A i \in 1..n : new[i] = SF!Node(msgs[i], i - 1)
  <2> TAKE i \in 1..n
  <2>1. 0 + i = i /\ (IF i = 1 THEN 0 ELSE 0 + i - 1) = i - 1
    OBVIOUS
  <2> QED BY <1>4, <2>1
<1>9. /\ new \in Seq(SF!Anyhow) /\ Len(new) = n
      /\ Content(new) = msgs
  BY <1>4, <1>5, <1>6, <1>7
<1>10. SF!Linear(msgs).nodes = new
  BY <1>1, <1>2 DEF new
<1> QED BY <1>1, <1>3, <1>8, <1>9, <1>10

\* A tree without branches, its leaf the last node.
Straight(nodes, tip) ==
  tip = Len(nodes) /\ \A n \in 1..Len(nodes) : nodes[n].up = n - 1

LEMMA StraightSpine ==
  ASSUME NEW nodes \in Seq(SF!Anyhow), NEW tip, Straight(nodes, tip), NEW S
  PROVE  Spine(nodes, tip, S) /\ Climbing(nodes) /\ tip \in Nat
<1>1. Len(nodes) \in Nat
  BY SeqFrom
<1>2. Climbing(nodes)
  BY <1>1 DEF Straight, Climbing
<1>3. Way2(nodes, 1..Len(nodes), tip, S)
  <2>1. tip \in 1..Len(nodes) \cup {0}
    BY <1>1 DEF Straight
  <2>2. ASSUME NEW n \in 1..Len(nodes)
        PROVE  /\ nodes[n].up \in 1..Len(nodes) \cup {0}
               /\ \A k \in 1..Len(nodes) : ~(nodes[n].up < k /\ k < n)
    BY <1>1 DEF Straight
  <2> QED BY <2>1, <2>2 DEF Way2
<1> QED BY <1>1, <1>2, <1>3 DEF Spine, Straight

LEMMA UptoAll == \A V : \A nodes \in Seq(V) : Upto(nodes, Len(nodes)) = nodes
BY SeqFrom DEF Upto

LEMMA StraightPath ==
  ASSUME NEW nodes \in Seq(SF!Anyhow), NEW tip, Straight(nodes, tip)
  PROVE  SF!Blocks(Walk(nodes, tip)) = SF!Blocks(nodes)
<1>1. Spine(nodes, tip, SF!AnyBlock) /\ Climbing(nodes) /\ tip = Len(nodes)
  BY StraightSpine DEF Straight
<1>2. SF!Only(SF!Blocks(Walk(nodes, tip)), SF!AnyBlock) = SF!Only(SF!Blocks(Upto(nodes, tip)), SF!AnyBlock)
  BY <1>1, SpineKeeps
<1>3. Upto(nodes, tip) = nodes
  BY <1>1, UptoAll
<1>4. PICK w \in Seq(SF!Anyhow) : w = Walk(nodes, tip)
  <2>1. tip \in -1..Len(nodes)
    BY <1>1, SeqFrom
  <2> QED BY <1>1, <2>1, WalkType
<1>5. SF!Blocks(w) \in Seq(SF!AnyBlock) /\ SF!Blocks(nodes) \in Seq(SF!AnyBlock)
  BY NodesAre, BlocksType
<1>6. \A x \in Seq(SF!AnyBlock) : SF!Only(x, SF!AnyBlock) = x
  BY OnlyAll, ToSetSeq
<1> QED BY <1>2, <1>3, <1>4, <1>5, <1>6, Zenon

-----------------------------------------------------------------------------
(* Where the parts of a sequence lie that is put together of them *)

Ahead(g, k) == Len(SF!FlattenSeq(Upto(g, k)))

LEMMA UptoFlatten ==
  ASSUME NEW S, NEW n \in Nat, NEW g \in [1..n -> Seq(S)], NEW k \in 0..n
  PROVE  SF!FlattenSeq(Upto(g, k)) \in [1..Ahead(g, k) -> S] /\ Ahead(g, k) \in Nat
<1>1. Upto(g, k) \in [1..k -> Seq(S)] /\ k \in Nat
  BY DEF Upto
<1>2. PICK y \in Seq(S) : y = SF!FlattenSeq(Upto(g, k))
  BY <1>1, FlattenType
<1>3. Len(y) \in Nat /\ y \in [1..Len(y) -> S]
  BY SeqFrom
<1> QED BY <1>2, <1>3 DEF Ahead

LEMMA UptoFlattenStep ==
  ASSUME NEW S, NEW n \in Nat, NEW g \in [1..n -> Seq(S)], NEW k \in Nat, k + 1 <= n
  PROVE  SF!FlattenSeq(Upto(g, k + 1)) = SF!FlattenSeq(Upto(g, k)) \o g[k + 1]
<1> DEFINE h == Upto(g, k + 1)
<1>1. h \in [1..(k + 1) -> Seq(S)] /\ h[k + 1] = g[k + 1]
  BY DEF Upto
<1>2. [i \in 1..k |-> h[i]] = Upto(g, k)
  BY DEF Upto
<1> HIDE DEF h
<1>3. SF!FlattenSeq(h) = SF!FlattenSeq([i \in 1..k |-> h[i]]) \o h[k + 1]
  BY <1>1, FlattenStep
<1> QED BY <1>1, <1>2, <1>3 DEF h

LEMMA BeforeIs ==
  ASSUME NEW S, NEW n \in Nat, NEW g \in [1..n -> Seq(S)]
  PROVE  /\ Ahead(g, 0) = 0
         /\ Ahead(g, n) = Len(SF!FlattenSeq(g))
         /\ \A k \in 0..n : Ahead(g, k) \in Nat
         /\ \A k \in Nat : k + 1 <= n => Ahead(g, k + 1) = Ahead(g, k) + Len(g[k + 1])
<1>1. Ahead(g, 0) = 0
  <2>1. Upto(g, 0) \in [1..0 -> {}]
    BY DEF Upto
  <2>2. Upto(g, 0) = <<>>
    BY <2>1, NoneIs
  <2> QED BY <2>2, FlattenNone DEF Ahead
<1>2. Upto(g, n) = g
  BY DEF Upto
<1>3. ASSUME NEW k \in 0..n PROVE Ahead(g, k) \in Nat
  BY UptoFlatten
<1>4. ASSUME NEW k \in Nat, k + 1 <= n
      PROVE  Ahead(g, k + 1) = Ahead(g, k) + Len(g[k + 1])
  <2>1. PICK y \in Seq(S) : y = SF!FlattenSeq(Upto(g, k))
    <3>1. Upto(g, k) \in [1..k -> Seq(S)]
      BY <1>4 DEF Upto
    <3> QED BY <3>1, FlattenType
  <2>2. PICK z \in Seq(S) : z = g[k + 1]
    <3>1. k + 1 \in 1..n
      BY <1>4
    <3> QED BY <3>1
  <2>3. SF!FlattenSeq(Upto(g, k + 1)) = y \o z
    BY <1>4, <2>1, <2>2, UptoFlattenStep
  <2>4. Len(y \o z) = Len(y) + Len(z)
    BY ConcatProperties
  <2> QED BY <2>1, <2>2, <2>3, <2>4 DEF Ahead
<1> QED BY <1>1, <1>2, <1>3, <1>4 DEF Ahead

\* The first m parts lie one after the other.
InPlace(g, m) ==
  /\ \A k \in 1..m : \A i \in 1..Len(g[k]) :
       /\ Ahead(g, k - 1) + i \in 1..Ahead(g, m)
       /\ SF!FlattenSeq(Upto(g, m))[Ahead(g, k - 1) + i] = g[k][i]
  /\ \A l \in 1..Ahead(g, m) : \E k \in 1..m : \E i \in 1..Len(g[k]) : l = Ahead(g, k - 1) + i

LEMMA InPlaceStep ==
  ASSUME NEW S, NEW n \in Nat, NEW g \in [1..n -> Seq(S)], NEW m \in Nat, m + 1 <= n, InPlace(g, m)
  PROVE  InPlace(g, m + 1)
<1>1. PICK b \in Nat : b = Ahead(g, m)
  <2>1. m \in 0..n
    OBVIOUS
  <2>2. Ahead(g, m) \in Nat
    BY <2>1, BeforeIs
  <2> QED BY <2>2
<1>2. PICK x \in [1..b -> S] : x = SF!FlattenSeq(Upto(g, m))
  BY <1>1, UptoFlatten
<1>3. g[m + 1] \in Seq(S)
  BY m + 1 \in 1..n
<1>4. PICK c \in Nat : c = Len(g[m + 1]) /\ g[m + 1] \in [1..c -> S]
  BY <1>3, SeqFrom
<1> DEFINE z == x \o g[m + 1]
<1>5. SF!FlattenSeq(Upto(g, m + 1)) = z
  BY <1>2, UptoFlattenStep
<1>6. Ahead(g, m + 1) = b + c
  BY <1>1, <1>4, BeforeIs
<1>7. \A i \in 1..b : z[i] = x[i]
  BY <1>2, <1>4, ConcatLeft
<1>8. \A i \in 1..c : z[b + i] = g[m + 1][i]
  BY <1>2, <1>4, ConcatRight, SMTT(60)
<1> HIDE DEF z
<1>9. ASSUME NEW k \in 1..(m + 1), NEW i \in 1..Len(g[k])
      PROVE  Ahead(g, k - 1) + i \in 1..(b + c) /\ z[Ahead(g, k - 1) + i] = g[k][i]
  <2>1. CASE k = m + 1
    <3>1. Ahead(g, k - 1) = b /\ i \in 1..c
      BY <1>1, <1>4, <2>1
    <3> QED BY <1>1, <1>4, <1>8, <2>1, <3>1
  <2>2. CASE k # m + 1
    <3>1. k \in 1..m
      BY <2>2
    <3>2. Ahead(g, k - 1) + i \in 1..b /\ x[Ahead(g, k - 1) + i] = g[k][i]
      BY <1>1, <1>2, <3>1 DEF InPlace
    <3> QED BY <1>1, <1>4, <1>7, <3>2
  <2> QED BY <2>1, <2>2
<1>10. ASSUME NEW l \in 1..(b + c)
       PROVE  \E k \in 1..(m + 1) : \E i \in 1..Len(g[k]) : l = Ahead(g, k - 1) + i
  <2>1. CASE l <= b
    <3>1. l \in 1..b
      BY <1>1, <2>1
    <3>2. PICK k \in 1..m : \E i \in 1..Len(g[k]) : l = Ahead(g, k - 1) + i
      BY <1>1, <3>1 DEF InPlace
    <3>3. k \in 1..(m + 1)
      OBVIOUS
    <3> QED BY <3>2, <3>3
  <2>2. CASE ~(l <= b)
    <3>1. l - b \in 1..Len(g[m + 1]) /\ l = Ahead(g, (m + 1) - 1) + (l - b)
      BY <1>1, <1>4, <2>2
    <3>2. m + 1 \in 1..(m + 1)
      OBVIOUS
    <3> QED BY <3>1, <3>2
  <2> QED BY <2>1, <2>2
<1> QED BY <1>5, <1>6, <1>9, <1>10 DEF InPlace

LEMMA FlattenAt ==
  ASSUME NEW S, NEW n \in Nat, NEW g \in [1..n -> Seq(S)]
  PROVE  InPlace(g, n)
<1> DEFINE T == {m \in Nat : m <= n => InPlace(g, m)}
<1>1. 0 \in T
  <2>1. Ahead(g, 0) = 0
    BY BeforeIs
  <2> QED BY <2>1 DEF InPlace
<1>2. ASSUME NEW m \in Nat, m \in T PROVE m + 1 \in T
  <2>1. m + 1 \in Nat
    OBVIOUS
  <2>2. ASSUME m + 1 <= n PROVE InPlace(g, m + 1)
    <3>1. InPlace(g, m)
      BY <1>2, <2>2
    <3> QED BY <2>2, <3>1, InPlaceStep
  <2> QED BY <2>1, <2>2
<1> HIDE DEF T
<1>3. Nat \subseteq T
  BY <1>1, <1>2, SetInduction
<1> QED BY <1>3 DEF T

-----------------------------------------------------------------------------
(* What is written of a message, and read again *)

Sort(kinds) == {b \in SF!AnyBlock : b.kind \in kinds}
ResultBlocks == Sort({"result"})

LEMMA OfKindIs == \A x, kinds : SF!OfKind(x, kinds) = SF!Only(x, Sort(kinds))
BY DEF SF!OfKind, Sort

LEMMA SeqFirst ==
  ASSUME NEW X, NEW k \in Nat, NEW x \in [1..(k + 1) -> X]
  PROVE  x = <<x[1]>> \o [i \in 1..k |-> x[i + 1]]
<1> DEFINE a == <<x[1]>>
           r == [i \in 1..k |-> x[i + 1]]
           z == a \o r
<1>1. a \in [1..1 -> X] /\ a[1] = x[1]
  <2>1. x[1] \in X
    OBVIOUS
  <2> QED BY <2>1
<1>2. r \in [1..k -> X] /\ \A i \in 1..k : r[i] = x[i + 1]
  OBVIOUS
<1> HIDE DEF a, r
<1>0. PICK u \in Nat : u = 1
  OBVIOUS
<1>10. u \in Nat /\ k \in Nat /\ a \in [1..u -> X] /\ r \in [1..k -> X]
  BY <1>0, <1>1, <1>2
<1>3. z \in [1..(u + k) -> X]
  BY <1>10, ConcatType
<1>4. \A i \in 1..u : z[i] = a[i]
  BY <1>10, ConcatLeft
<1>5. \A i \in 1..k : z[u + i] = r[i]
  BY <1>10, ConcatRight, SMTT(60)
<1> HIDE DEF z
<1>6. ASSUME NEW i \in 1..(k + 1) PROVE z[i] = x[i]
  <2>1. CASE i = 1
    BY <1>0, <1>1, <1>4, <2>1
  <2>2. CASE i # 1
    <3>1. i - 1 \in 1..k /\ 1 + (i - 1) = i /\ (i - 1) + 1 = i
      BY <2>2
    <3>2. z[1 + (i - 1)] = r[i - 1] /\ r[i - 1] = x[(i - 1) + 1]
      BY <1>0, <1>2, <1>5, <3>1
    <3> QED BY <3>1, <3>2
  <2> QED BY <2>1, <2>2
<1>7. z \in [1..(k + 1) -> X]
  BY <1>0, <1>3
<1>8. z = x
  BY <1>6, <1>7
<1> QED BY <1>8 DEF z, a, r

\* The kinds that are read of a line.
Kinds(role) ==
  CASE role = "user" -> {"text"}
    [] role = "tool" -> {"result"}
    [] OTHER -> {"text", "thought", "call"}

\* What is read of the lines of a message.
Kept(m) ==
  [i \in 1..Len(SF!Entries(m)) |->
     SF!OfKind(SF!Entries(m)[i].has, Kinds(SF!Entries(m)[i].role))]

Kinships == {SF!Lasting, ResultBlocks}

\* What a line of the message reads as, but for its place.
Telltale(m) ==
  /\ SF!Entries(m) \in Seq(Mess) /\ Len(SF!Entries(m)) \in Nat \ {0}
  /\ Kept(m) \in [1..Len(SF!Entries(m)) -> Seq(SF!AnyBlock)]
  /\ \A S \in Kinships : SF!Only(SF!FlattenSeq(Kept(m)), S) = SF!Only(m.has, S)
  /\ \A i \in 1..Len(SF!Entries(m)) :
       /\ SF!Entries(m)[i].role = m.role
       /\ SF!Fits([role |-> m.role, has |-> Kept(m)[i]])
       /\ SF!ToSet(Kept(m)[i]) \subseteq SF!ToSet(m.has)
       /\ i # 1 => SF!ToSet(Kept(m)[i]) \cap SF!Lasting = {}

LEMMA SortKept ==
  ASSUME NEW x \in Seq(SF!AnyBlock), NEW A, NEW S,
         \A b \in SF!ToSet(x) : b \in S => b \in A
  PROVE  SF!Only(SF!Only(x, A), S) = SF!Only(x, S)
<1>1. SF!Only(SF!Only(x, A), S) = SF!Only(x, A \cap S)
  BY OnlyOnly
<1>2. \A b \in SF!ToSet(x) : b \in A \cap S <=> b \in S
  OBVIOUS
<1>3. SF!Only(x, A \cap S) = SF!Only(x, S)
  BY <1>2, OnlySame
<1> QED BY <1>1, <1>3

\* One line, for a prompt or an answer.
LEMMA OneLine ==
  ASSUME NEW m, SF!Fits(m), m.role \in {"user", "assistant"}
  PROVE  Telltale(m)
<1> DEFINE A == Sort({"text", "thought", "call"})
           K == Sort(Kinds(m.role))
           e == [role |-> m.role, has |-> SF!Only(m.has, A)]
           h == SF!Only(SF!Only(m.has, A), K)
<1>1. m.has \in Seq(SF!AnyBlock)
  BY DEF SF!Fits
<1>2. SF!Entries(m) = <<e>>
  BY OfKindIs DEF SF!Entries
<1>3. SF!Only(m.has, A) \in Seq(SF!AnyBlock)
  BY <1>1, OnlyType
<1>4. h \in Seq(SF!AnyBlock)
  BY <1>3, OnlyType
<1>5. SF!ToSet(h) = (SF!ToSet(m.has) \cap A) \cap K
  <2>1. SF!ToSet(SF!Only(m.has, A)) = SF!ToSet(m.has) \cap A
    BY <1>1, OnlyHas
  <2>2. SF!ToSet(h) = SF!ToSet(SF!Only(m.has, A)) \cap K
    BY <1>3, OnlyHas
  <2> QED BY <2>1, <2>2
<1>6. e \in Mess
  BY <1>3 DEF Mess
<1>7. /\ Len(SF!Entries(m)) = 1 /\ SF!Entries(m)[1] = e
      /\ SF!OfKind(SF!Entries(m)[1].has, Kinds(SF!Entries(m)[1].role)) = h
  BY <1>2, OfKindIs
<1>8. \A b \in SF!ToSet(m.has) : \A S \in Kinships : b \in S => b \in A \cap K
  <2>1. SF!ToSet(m.has) = {m.has[i] : i \in 1..Len(m.has)} /\ SF!ToSet(m.has) \subseteq SF!AnyBlock
    BY <1>1, ToSetSeq
  <2>2. CASE m.role = "user"
    <3>1. \A b \in SF!ToSet(m.has) : b.kind \in {"text", "image"}
      BY <2>1, <2>2 DEF SF!Fits
    <3> QED BY <2>1, <2>2, <3>1 DEF Kinships, SF!Lasting, ResultBlocks, Sort, Kinds
  <2>3. CASE m.role = "assistant"
    <3>1. \A b \in SF!ToSet(m.has) : b.kind \in {"text", "thought", "secret", "call"}
      BY <2>1, <2>3 DEF SF!Fits
    <3> QED BY <2>1, <2>3, <3>1 DEF Kinships, SF!Lasting, ResultBlocks, Sort, Kinds
  <2> QED BY <2>2, <2>3
<1>9. ASSUME NEW S \in Kinships PROVE SF!Only(h, S) = SF!Only(m.has, S)
  <2>1. SF!Only(SF!Only(m.has, A), S) = SF!Only(m.has, S)
    BY <1>1, <1>8, SortKept
  <2>2. \A b \in SF!ToSet(SF!Only(m.has, A)) : b \in S => b \in K
    <3>1. SF!ToSet(SF!Only(m.has, A)) = SF!ToSet(m.has) \cap A
      BY <1>1, OnlyHas
    <3> QED BY <1>8, <3>1
  <2>3. SF!Only(h, S) = SF!Only(SF!Only(m.has, A), S)
    BY <1>3, <2>2, SortKept
  <2> QED BY <2>1, <2>3
<1>10. SF!Fits([role |-> m.role, has |-> h])
  <2>1. SF!ToSet(h) = {h[i] : i \in 1..Len(h)}
    BY <1>4, ToSetSeq
  <2>2. \A i \in 1..Len(h) : h[i] \in A \cap K
    BY <1>5, <2>1
  <2> HIDE DEF h
  <2>3. CASE m.role = "user"
    <3>1. \A i \in 1..Len(h) : h[i].kind \in {"text", "image"}
      BY <2>2, <2>3 DEF Sort, Kinds
    <3> QED BY <1>4, <2>3, <3>1 DEF SF!Fits
  <2>4. CASE m.role = "assistant"
    <3>1. \A i \in 1..Len(h) : h[i].kind \in {"text", "thought", "secret", "call"}
      BY <2>2, <2>4 DEF Sort, Kinds
    <3> QED BY <1>4, <2>4, <3>1 DEF SF!Fits
  <2> QED BY <2>3, <2>4
<1> HIDE DEF h, e, A, K
<1>11. Kept(m) = [i \in 1..1 |-> h]
  <2>1. \A i \in 1..1 : SF!OfKind(SF!Entries(m)[i].has, Kinds(SF!Entries(m)[i].role)) = h
    BY <1>7
  <2> QED BY <1>7, <2>1 DEF Kept
<1>12. Kept(m) = <<h>> /\ Kept(m)[1] = h
  BY <1>11
<1>13. SF!FlattenSeq(Kept(m)) = h
  BY <1>4, <1>12, FlattenOne
<1>14. SF!Entries(m) \in Seq(Mess)
  BY <1>2, <1>6
<1>15. Kept(m) \in [1..1 -> Seq(SF!AnyBlock)]
  BY <1>4, <1>11
<1>16. \A i \in 1..1 : i = 1
  OBVIOUS
<1>17. e.role = m.role
  BY DEF e
<1>18. SF!ToSet(h) \subseteq SF!ToSet(m.has)
  BY <1>5
<1>19. ASSUME NEW i \in 1..1
       PROVE /\ SF!Entries(m)[i].role = m.role
             /\ SF!Fits([role |-> m.role, has |-> Kept(m)[i]])
             /\ SF!ToSet(Kept(m)[i]) \subseteq SF!ToSet(m.has)
             /\ i = 1
  BY <1>7, <1>10, <1>12, <1>16, <1>17, <1>18, Zenon
<1> QED BY <1>7, <1>9, <1>13, <1>14, <1>15, <1>19 DEF Telltale

\* A line for each result; a further one has nothing that lasts.
LEMMA ToolLines ==
  ASSUME NEW m, SF!Fits(m), m.role = "tool"
  PROVE  Telltale(m)
<1>1. /\ m.has \in Seq(SF!AnyBlock) /\ m.has # <<>> /\ m.has[1].kind = "result"
      /\ \A i \in 2..Len(m.has) :
           m.has[i].kind = "image" \/ (m.has[i].kind = "result" /\ m.has[i].nr # 1)
  BY DEF SF!Fits
<1>2. PICK k \in Nat : Len(m.has) = k + 1 /\ m.has \in [1..(k + 1) -> SF!AnyBlock]
  <2>1. Len(m.has) \in Nat /\ m.has \in [1..Len(m.has) -> SF!AnyBlock]
    BY <1>1, SeqFrom
  <2>2. Len(m.has) # 0
    BY <1>1, EmptySeq
  <2>3. Len(m.has) - 1 \in Nat /\ Len(m.has) = (Len(m.has) - 1) + 1
    BY <2>1, <2>2
  <2> QED BY <2>1, <2>3
<1> DEFINE t == [i \in 1..k |-> m.has[i + 1]]
           b == m.has[1]
           rs == SF!Only(m.has, ResultBlocks)
           more == SF!Only(t, ResultBlocks)
<1>3. m.has = <<b>> \o t
  BY <1>2, SeqFirst
<1>4. b \in ResultBlocks /\ b \in SF!AnyBlock
  <2>1. b \in SF!AnyBlock
    BY <1>2
  <2> QED BY <1>1, <2>1 DEF ResultBlocks, Sort
<1>5. t \in [1..k -> SF!AnyBlock]
  BY <1>2
<1>6. t \in Seq(SF!AnyBlock) /\ Len(t) = k
  BY <1>5, InSeq
<1>7. \A x \in SF!ToSet(t) : x \in SF!AnyBlock /\ x \notin SF!Lasting
  <2>1. SF!ToSet(t) = {t[i] : i \in 1..k} /\ SF!ToSet(t) \subseteq SF!AnyBlock
    BY <1>5, ToSetIs
  <2>2. ASSUME NEW i \in 1..k PROVE t[i] \notin SF!Lasting
    <3>1. i + 1 \in 2..Len(m.has) /\ t[i] = m.has[i + 1]
      BY <1>2
    <3>2. t[i].kind = "image" \/ (t[i].kind = "result" /\ t[i].nr # 1)
      BY <1>1, <3>1
    <3> QED BY <3>2 DEF SF!Lasting
  <2> QED BY <2>1, <2>2
<1>8. SF!ToSet(m.has) = {b} \cup SF!ToSet(t)
  <2>1. <<b>> \in Seq(SF!AnyBlock)
    BY <1>4, OneType
  <2>2. SF!ToSet(<<b>> \o t) = SF!ToSet(<<b>>) \cup SF!ToSet(t)
    BY <1>6, <2>1, ToSetTwo, ZenonT(60)
  <2>3. SF!ToSet(<<b>>) = {b}
    BY ToSetOne
  <2> QED BY <1>3, <2>2, <2>3
<1>9. rs = <<b>> \o more
  <2>1. <<b>> \in Seq(SF!AnyBlock)
    BY <1>4, OneType
  <2>2. SF!Only(<<b>> \o t, ResultBlocks) = SF!Only(<<b>>, ResultBlocks) \o SF!Only(t, ResultBlocks)
    BY <1>6, <2>1, OnlyTwo
  <2>3. SF!Only(<<b>>, ResultBlocks) = <<b>>
    BY <1>4, OnlyOne
  <2> QED BY <1>3, <2>2, <2>3
<1>10. /\ rs \in Seq(SF!AnyBlock) /\ SF!ToSet(rs) = SF!ToSet(m.has) \cap ResultBlocks
       /\ more \in Seq(SF!AnyBlock) /\ SF!ToSet(more) = SF!ToSet(t) \cap ResultBlocks
  <2>1. rs \in Seq(SF!AnyBlock) /\ more \in Seq(SF!AnyBlock)
    BY <1>1, <1>6, OnlyType
  <2>2. SF!ToSet(rs) = SF!ToSet(m.has) \cap ResultBlocks
    BY <1>1, OnlyHas
  <2>3. SF!ToSet(more) = SF!ToSet(t) \cap ResultBlocks
    BY <1>6, OnlyHas
  <2> QED BY <2>1, <2>2, <2>3
<1>11. \A S \in Kinships : SF!Only(rs, S) = SF!Only(m.has, S)
  <2>1. \A x \in SF!ToSet(m.has) : \A S \in Kinships : x \in S => x \in ResultBlocks
    BY <1>4, <1>7, <1>8 DEF Kinships
  <2> HIDE DEF t, b
  <2>2. ASSUME NEW S \in Kinships PROVE SF!Only(rs, S) = SF!Only(m.has, S)
    BY <1>1, <2>1, SortKept
  <2> QED BY <2>2
<1>12. SF!Entries(m) = [i \in 1..Len(rs) |-> [role |-> "tool", has |-> <<rs[i]>>]]
  BY OfKindIs DEF SF!Entries, ResultBlocks
<1> HIDE DEF t, rs
<1>13. PICK c \in Nat : Len(more) = c /\ more \in [1..c -> SF!AnyBlock]
  BY <1>10, SeqFrom
<1> HIDE DEF more, b
<1>14. /\ rs \in [1..(c + 1) -> SF!AnyBlock] /\ Len(rs) = c + 1 /\ rs[1] = b
       /\ \A i \in 1..c : rs[1 + i] = more[i]
  <2>1. PICK u \in Nat : u = 1
    OBVIOUS
  <2>2. /\ u \in Nat /\ c \in Nat /\ <<b>> \in [1..u -> SF!AnyBlock]
        /\ more \in [1..c -> SF!AnyBlock]
    BY <1>4, <1>13, <2>1
  <2>3. rs \in [1..(u + c) -> SF!AnyBlock]
    BY <1>9, <2>2, ConcatType
  <2>4. \A i \in 1..u : rs[i] = <<b>>[i]
    BY <1>9, <2>2, ConcatLeft
  <2>5. \A i \in 1..c : rs[u + i] = more[i]
    BY <1>9, <2>2, ConcatRight, SMTT(60)
  <2>6. Len(rs) = u + c
    BY <2>1, <2>3, InSeq
  <2>7. rs \in [1..(c + 1) -> SF!AnyBlock] /\ Len(rs) = c + 1
    BY <2>1, <2>3, <2>6
  <2>8. rs[1] = b
    BY <2>1, <2>4
  <2> QED BY <2>1, <2>5, <2>7, <2>8
<1>15. ASSUME NEW i \in 1..(c + 1)
       PROVE  rs[i] \in ResultBlocks /\ rs[i] \in SF!ToSet(m.has) /\ (i # 1 => rs[i] \notin SF!Lasting)
  <2>1. rs[i] \in SF!ToSet(rs)
    BY <1>14, ToSetIs
  <2>2. ASSUME i # 1 PROVE rs[i] \notin SF!Lasting
    <3>1. i - 1 \in 1..c /\ 1 + (i - 1) = i
      BY <2>2
    <3>2. rs[i] = more[i - 1]
      BY <1>14, <3>1
    <3>3. more[i - 1] \in SF!ToSet(more)
      BY <1>13, <3>1, ToSetIs
    <3> QED BY <1>7, <1>10, <3>2, <3>3
  <2> QED BY <1>10, <2>1, <2>2
<1>16. /\ SF!Entries(m) \in [1..(c + 1) -> Mess]
       /\ \A i \in 1..(c + 1) : SF!Entries(m)[i].role = "tool" /\ SF!Entries(m)[i].has = <<rs[i]>>
  <2>1. \A i \in 1..(c + 1) : <<rs[i]>> \in Seq(SF!AnyBlock)
    BY <1>14, OneType
  <2>2. \A x \in Seq(SF!AnyBlock) : [role |-> "tool", has |-> x] \in Mess
    BY DEF Mess
  <2>3. SF!Entries(m) = [i \in 1..(c + 1) |-> [role |-> "tool", has |-> <<rs[i]>>]]
    BY <1>12, <1>14
  <2>4. \A i \in 1..(c + 1) : [role |-> "tool", has |-> <<rs[i]>>] \in Mess
    BY <2>1, <2>2
  <2>5. \A i \in 1..(c + 1) : SF!Entries(m)[i] = [role |-> "tool", has |-> <<rs[i]>>]
    BY <2>3
  <2>6. SF!Entries(m) \in [1..(c + 1) -> Mess]
    BY <2>3, <2>4
  <2> QED BY <2>5, <2>6
<1>17. SF!Entries(m) \in Seq(Mess) /\ Len(SF!Entries(m)) = c + 1
  <2>1. c + 1 \in Nat
    OBVIOUS
  <2> QED BY <1>16, <2>1, InSeq
<1>18. ASSUME NEW i \in 1..(c + 1)
       PROVE  SF!OfKind(SF!Entries(m)[i].has, Kinds(SF!Entries(m)[i].role)) = <<rs[i]>>
  <2>1. Kinds("tool") = {"result"}
    BY DEF Kinds
  <2>2. SF!OfKind(<<rs[i]>>, {"result"}) = SF!Only(<<rs[i]>>, ResultBlocks)
    BY OfKindIs DEF ResultBlocks
  <2>3. SF!Only(<<rs[i]>>, ResultBlocks) = <<rs[i]>>
    BY <1>15, OnlyOne
  <2> QED BY <1>16, <2>1, <2>2, <2>3
<1>19. Kept(m) = [i \in 1..(c + 1) |-> <<rs[i]>>]
  BY <1>17, <1>18 DEF Kept
<1>20. SF!FlattenSeq(Kept(m)) = rs
  <2>1. c + 1 \in Nat
    OBVIOUS
  <2> QED BY <1>14, <1>19, <2>1, SinglesOf
<1>21. Kept(m) \in [1..(c + 1) -> Seq(SF!AnyBlock)] /\ \A i \in 1..(c + 1) : Kept(m)[i] = <<rs[i]>>
  <2>1. \A i \in 1..(c + 1) : <<rs[i]>> \in Seq(SF!AnyBlock)
    BY <1>14, OneType
  <2> QED BY <1>19, <2>1
<1>22. ASSUME NEW i \in 1..(c + 1)
       PROVE  /\ SF!Entries(m)[i].role = m.role
              /\ SF!Fits([role |-> m.role, has |-> Kept(m)[i]])
              /\ SF!ToSet(Kept(m)[i]) \subseteq SF!ToSet(m.has)
              /\ i # 1 => SF!ToSet(Kept(m)[i]) \cap SF!Lasting = {}
  <2>1. SF!ToSet(Kept(m)[i]) = {rs[i]}
    BY <1>21, ToSetOne
  <2>2. SF!Fits([role |-> m.role, has |-> Kept(m)[i]])
    <3> DEFINE x == <<rs[i]>>
    <3>1. x \in Seq(SF!AnyBlock) /\ x # <<>> /\ Len(x) = 1 /\ x[1] = rs[i]
      BY <1>14, OneType
    <3>2. x[1].kind = "result"
      BY <1>15, <3>1 DEF ResultBlocks, Sort
    <3> HIDE DEF x
    <3>3. SF!Fits([role |-> "tool", has |-> x])
      <4>1. \A j : j \notin 2..1
        OBVIOUS
      <4> QED BY <3>1, <3>2, <4>1 DEF SF!Fits
    <3> QED BY <1>21, <3>3 DEF x
  <2> QED BY <1>15, <1>16, <2>1, <2>2
<1>23. c + 1 \in Nat \ {0}
  OBVIOUS
<1> QED BY <1>11, <1>17, <1>20, <1>21, <1>22, <1>23 DEF Telltale

LEMMA EntriesAre == \A m : SF!Fits(m) => Telltale(m)
<1> SUFFICES ASSUME NEW m, SF!Fits(m) PROVE Telltale(m)
  OBVIOUS
<1>1. m.role \in {"user", "assistant"} \/ m.role = "tool"
  BY DEF SF!Fits
<1> QED BY <1>1, OneLine, ToolLines

-----------------------------------------------------------------------------
(* The lines of a tree *)

\* A tree as the program builds it: every parent is in it, or none.
Neat(nodes) ==
  /\ nodes \in Seq(SF!Anyhow)
  /\ \A n \in 1..Len(nodes) : nodes[n].up \in 0..(n - 1) /\ SF!Fits(nodes[n])

Size(nodes, n) == Len(SF!Entries(nodes[n]))
Ents(nodes) == [n \in 1..Len(nodes) |-> SF!Entries(nodes[n])]
UpLine(nodes, n) ==
  IF nodes[n].up > 0 THEN SF!FirstLine(nodes, nodes[n].up) ELSE SF!FirstLine(nodes, n) - 1
LineOf(nodes, n, i) ==
  SF!Node(SF!Entries(nodes[n])[i],
          IF i = 1 THEN UpLine(nodes, n) ELSE SF!FirstLine(nodes, n) + i - 2)
Written(nodes) ==
  [n \in 1..Len(nodes) |-> [i \in 1..Size(nodes, n) |-> LineOf(nodes, n, i)]]

LEMMA WrittenIs == \A nodes : SF!Lines(nodes) = SF!FlattenSeq(Written(nodes))
<1> SUFFICES ASSUME NEW nodes PROVE SF!Lines(nodes) = SF!FlattenSeq(Written(nodes))
  OBVIOUS
<1> DEFINE row(n) ==
      LET es == SF!Entries(nodes[n])
          tip == SF!FirstLine(nodes, n)
          upper == IF nodes[n].up > 0 THEN SF!FirstLine(nodes, nodes[n].up) ELSE tip - 1
      IN  [i \in 1..Len(es) |-> SF!Node(es[i], IF i = 1 THEN upper ELSE tip + i - 2)]
<1>1. \A n : row(n) = [i \in 1..Size(nodes, n) |-> LineOf(nodes, n, i)]
  BY DEF Size, LineOf, UpLine
<1>2. SF!Lines(nodes) = SF!FlattenSeq([n \in 1..Len(nodes) |-> row(n)])
  BY DEF SF!Lines
<1> HIDE DEF row
<1>3. [n \in 1..Len(nodes) |-> row(n)] = Written(nodes)
  BY <1>1 DEF Written
<1> QED BY <1>2, <1>3

LEMMA SizeIs ==
  ASSUME NEW nodes, Neat(nodes), NEW n \in 1..Len(nodes)
  PROVE  Size(nodes, n) \in Nat \ {0} /\ SF!Entries(nodes[n]) \in [1..Size(nodes, n) -> Mess]
<1>1. Telltale(nodes[n])
  BY EntriesAre DEF Neat
<1>2. SF!Entries(nodes[n]) \in Seq(Mess) /\ Size(nodes, n) \in Nat \ {0}
  BY <1>1 DEF Telltale, Size
<1> QED BY <1>2, SeqFrom DEF Size

LEMMA EntsAre ==
  ASSUME NEW nodes, Neat(nodes)
  PROVE  Len(nodes) \in Nat /\ Ents(nodes) \in [1..Len(nodes) -> Seq(Mess)]
<1>1. Len(nodes) \in Nat
  BY SeqFrom DEF Neat
<1>2. \A n \in 1..Len(nodes) : SF!Entries(nodes[n]) \in Seq(Mess)
  BY EntriesAre DEF Neat, Telltale
<1> QED BY <1>1, <1>2 DEF Ents

\* The first line of a node is after those of the nodes before it.
LEMMA FirstLineIs ==
  ASSUME NEW nodes, Neat(nodes)
  PROVE  /\ SF!FirstLine(nodes, 1) = 1
         /\ \A n \in 1..(Len(nodes) + 1) :
              /\ SF!FirstLine(nodes, n) = 1 + Ahead(Ents(nodes), n - 1)
              /\ SF!FirstLine(nodes, n) \in Nat \ {0}
         /\ \A n \in 1..Len(nodes) :
              SF!FirstLine(nodes, n + 1) = SF!FirstLine(nodes, n) + Size(nodes, n)
<1>1. PICK k \in Nat : k = Len(nodes) /\ Ents(nodes) \in [1..k -> Seq(Mess)]
  BY EntsAre
<1>2. /\ Ahead(Ents(nodes), 0) = 0
      /\ \A j \in 0..k : Ahead(Ents(nodes), j) \in Nat
      /\ \A j \in Nat : j + 1 <= k =>
           Ahead(Ents(nodes), j + 1) = Ahead(Ents(nodes), j) + Len(Ents(nodes)[j + 1])
  BY <1>1, BeforeIs
<1>3. ASSUME NEW n \in 1..(k + 1)
      PROVE  SF!FirstLine(nodes, n) = 1 + Ahead(Ents(nodes), n - 1)
  <2>1. [i \in 1..(n - 1) |-> SF!Entries(nodes[i])] = Upto(Ents(nodes), n - 1)
    <3>1. \A i \in 1..(n - 1) : i \in 1..Len(nodes)
      BY <1>1
    <3> QED BY <3>1 DEF Upto, Ents
  <2> QED BY <2>1 DEF SF!FirstLine, Ahead
<1>4. ASSUME NEW n \in 1..(k + 1) PROVE SF!FirstLine(nodes, n) \in Nat \ {0}
  <2>1. n - 1 \in 0..k
    OBVIOUS
  <2> QED BY <1>2, <1>3, <2>1
<1>5. ASSUME NEW n \in 1..k
      PROVE  SF!FirstLine(nodes, n + 1) = SF!FirstLine(nodes, n) + Size(nodes, n)
  <2>1. /\ n - 1 \in Nat /\ (n - 1) + 1 = n /\ n + 1 \in 1..(k + 1) /\ (n + 1) - 1 = n
        /\ n \in 1..(k + 1) /\ n - 1 \in 0..k
    OBVIOUS
  <2>2. Ahead(Ents(nodes), n) = Ahead(Ents(nodes), n - 1) + Len(Ents(nodes)[n])
    BY <1>2, <2>1
  <2>3. Len(Ents(nodes)[n]) = Size(nodes, n)
    BY <1>1 DEF Ents, Size
  <2>4. SF!FirstLine(nodes, n + 1) = 1 + Ahead(Ents(nodes), n)
    BY <1>3, <2>1
  <2>5. SF!FirstLine(nodes, n) = 1 + Ahead(Ents(nodes), n - 1)
    BY <1>3, <2>1
  <2>6. Size(nodes, n) \in Nat /\ Ahead(Ents(nodes), n - 1) \in Nat
    BY <1>1, <1>2, <2>1, SizeIs
  <2> QED BY <2>2, <2>3, <2>4, <2>5, <2>6
<1>6. SF!FirstLine(nodes, 1) = 1
  <2>1. 1 \in 1..(k + 1) /\ 1 - 1 = 0
    OBVIOUS
  <2> QED BY <1>2, <1>3, <2>1
<1> QED BY <1>1, <1>3, <1>4, <1>5, <1>6

LEMMA FirstGrows ==
  ASSUME NEW nodes, Neat(nodes), NEW m \in 1..Len(nodes), NEW n \in 1..(Len(nodes) + 1), m < n
  PROVE  SF!FirstLine(nodes, m) + Size(nodes, m) <= SF!FirstLine(nodes, n)
<1>1. PICK k \in Nat : k = Len(nodes)
  BY EntsAre
<1> DEFINE F(x) == SF!FirstLine(nodes, x)
           T == {j \in Nat : m + 1 + j <= k + 1 => F(m) + Size(nodes, m) <= F(m + 1 + j)}
<1>2. /\ \A x \in 1..(k + 1) : F(x) \in Nat
      /\ \A x \in 1..k : F(x + 1) = F(x) + Size(nodes, x)
  BY <1>1, FirstLineIs
<1>3. \A x \in 1..k : Size(nodes, x) \in Nat
  BY <1>1, SizeIs
<1> HIDE DEF F
<1>4. 0 \in T
  <2>1. F(m + 1) = F(m) + Size(nodes, m) /\ F(m) \in Nat /\ Size(nodes, m) \in Nat /\ m + 1 + 0 = m + 1
    <3>1. m \in 1..k /\ m \in 1..(k + 1)
      BY <1>1
    <3> QED BY <1>2, <1>3, <3>1
  <2> QED BY <2>1
<1>5. ASSUME NEW j \in Nat, j \in T PROVE j + 1 \in T
  <2>1. SUFFICES ASSUME m + 1 + (j + 1) <= k + 1 PROVE F(m) + Size(nodes, m) <= F(m + 1 + (j + 1))
    OBVIOUS
  <2>2. m + 1 + j \in 1..k /\ m + 1 + j <= k + 1 /\ m + 1 + (j + 1) = (m + 1 + j) + 1
        /\ m \in 1..k /\ m \in 1..(k + 1) /\ m + 1 + j \in 1..(k + 1)
    BY <1>1, <2>1
  <2>3. F(m) + Size(nodes, m) <= F(m + 1 + j)
    BY <1>5, <2>2
  <2>4. F(m + 1 + (j + 1)) = F(m + 1 + j) + Size(nodes, m + 1 + j)
    BY <1>2, <2>2
  <2>5. /\ F(m) \in Nat /\ Size(nodes, m) \in Nat /\ F(m + 1 + j) \in Nat
        /\ Size(nodes, m + 1 + j) \in Nat
    BY <1>2, <1>3, <2>2
  <2> QED BY <2>3, <2>4, <2>5
<1> HIDE DEF T
<1>6. Nat \subseteq T
  BY <1>4, <1>5, SetInduction
<1>7. n - (m + 1) \in Nat /\ m + 1 + (n - (m + 1)) = n
  BY <1>1
<1>8. n - (m + 1) \in T
  BY <1>6, <1>7
<1> QED BY <1>1, <1>7, <1>8 DEF T, F

LEMMA LineType ==
  ASSUME NEW nodes, Neat(nodes), NEW n \in 1..Len(nodes), NEW i \in 1..Size(nodes, n)
  PROVE  LineOf(nodes, n, i) \in SF!Anyhow
<1>1. SF!Entries(nodes[n])[i] \in Mess
  BY SizeIs
<1>2. SF!FirstLine(nodes, n) \in Nat
  <2>1. n \in 1..(Len(nodes) + 1)
    BY EntsAre
  <2> QED BY <2>1, FirstLineIs
<1>3. UpLine(nodes, n) \in Int
  <2>1. nodes[n].up \in 0..(n - 1)
    BY DEF Neat
  <2>2. ASSUME nodes[n].up > 0 PROVE SF!FirstLine(nodes, nodes[n].up) \in Nat
    <3>1. nodes[n].up \in 1..(Len(nodes) + 1)
      BY <2>1, <2>2, EntsAre
    <3> QED BY <3>1, FirstLineIs
  <2> QED BY <1>2, <2>2 DEF UpLine
<1>4. (IF i = 1 THEN UpLine(nodes, n) ELSE SF!FirstLine(nodes, n) + i - 2) \in Int
  BY <1>2, <1>3
<1>5. \A x \in Mess, u \in Int : SF!Node(x, u) \in SF!Anyhow
  BY DEF Mess, SF!Anyhow, SF!Node
<1> QED BY <1>1, <1>4, <1>5 DEF LineOf

LEMMA LinesAre ==
  ASSUME NEW nodes, Neat(nodes)
  PROVE  /\ SF!Lines(nodes) \in Seq(SF!Anyhow)
         /\ Len(SF!Lines(nodes)) = SF!FirstLine(nodes, Len(nodes) + 1) - 1
         /\ \A n \in 1..Len(nodes) : \A i \in 1..Size(nodes, n) :
              /\ SF!FirstLine(nodes, n) + i - 1 \in 1..Len(SF!Lines(nodes))
              /\ SF!Lines(nodes)[SF!FirstLine(nodes, n) + i - 1] = LineOf(nodes, n, i)
         /\ \A l \in 1..Len(SF!Lines(nodes)) : \E n \in 1..Len(nodes) :
              \E i \in 1..Size(nodes, n) : l = SF!FirstLine(nodes, n) + i - 1
<1>1. PICK k \in Nat : k = Len(nodes) /\ Ents(nodes) \in [1..k -> Seq(Mess)]
  BY EntsAre
<1> DEFINE g == Written(nodes)
           F(x) == SF!FirstLine(nodes, x)
<1>2. /\ g \in [1..k -> Seq(SF!Anyhow)]
      /\ \A n \in 1..k : Len(g[n]) = Size(nodes, n)
                         /\ \A i \in 1..Size(nodes, n) : g[n][i] = LineOf(nodes, n, i)
  <2>1. ASSUME NEW n \in 1..k
        PROVE  LET r == [i \in 1..Size(nodes, n) |-> LineOf(nodes, n, i)]
               IN  r \in Seq(SF!Anyhow) /\ Len(r) = Size(nodes, n)
    <3> DEFINE r == [i \in 1..Size(nodes, n) |-> LineOf(nodes, n, i)]
    <3>1. Size(nodes, n) \in Nat
      BY <1>1, SizeIs
    <3>2. r \in [1..Size(nodes, n) -> SF!Anyhow]
      BY <1>1, LineType
    <3> HIDE DEF r
    <3>3. r \in Seq(SF!Anyhow) /\ Len(r) = Size(nodes, n)
      BY <3>1, <3>2, InSeq
    <3> QED BY <3>3 DEF r
  <2>2. g = [n \in 1..k |-> [i \in 1..Size(nodes, n) |-> LineOf(nodes, n, i)]]
    BY <1>1 DEF Written
  <2> HIDE DEF g
  <2>3. ASSUME NEW n \in 1..k
        PROVE  /\ g[n] \in Seq(SF!Anyhow) /\ Len(g[n]) = Size(nodes, n)
               /\ \A i \in 1..Size(nodes, n) : g[n][i] = LineOf(nodes, n, i)
    <3>1. g[n] = [i \in 1..Size(nodes, n) |-> LineOf(nodes, n, i)]
      BY <2>2
    <3>2. g[n] \in Seq(SF!Anyhow) /\ Len(g[n]) = Size(nodes, n)
      BY <2>1, <3>1
    <3>3. \A i \in 1..Size(nodes, n) : g[n][i] = LineOf(nodes, n, i)
      BY <3>1
    <3> QED BY <3>2, <3>3
  <2>4. g \in [1..k -> Seq(SF!Anyhow)]
    <3> DEFINE r(n) == [i \in 1..Size(nodes, n) |-> LineOf(nodes, n, i)]
    <3>1. \A n \in 1..k : r(n) \in Seq(SF!Anyhow)
      BY <2>1
    <3>2. g = [n \in 1..k |-> r(n)]
      BY <2>2
    <3> HIDE DEF r
    <3> QED BY <3>1, <3>2
  <2> QED BY <2>3, <2>4
<1>3. SF!Lines(nodes) = SF!FlattenSeq(g)
  BY WrittenIs
<1> HIDE DEF g
<1>4. /\ Ahead(g, 0) = 0 /\ Ahead(g, k) = Len(SF!FlattenSeq(g))
      /\ \A j \in Nat : j + 1 <= k => Ahead(g, j + 1) = Ahead(g, j) + Len(g[j + 1])
  BY <1>2, BeforeIs
<1>5. /\ F(1) = 1
      /\ \A n \in 1..(k + 1) : F(n) \in Nat
      /\ \A n \in 1..k : F(n + 1) = F(n) + Size(nodes, n)
  BY <1>1, FirstLineIs
<1> HIDE DEF F
<1>6. \A j \in 0..k : F(j + 1) = Ahead(g, j) + 1
  <2> DEFINE T == {j \in Nat : j <= k => F(j + 1) = Ahead(g, j) + 1}
  <2>1. 0 \in T
    BY <1>4, <1>5
  <2>2. ASSUME NEW j \in Nat, j \in T PROVE j + 1 \in T
    <3>1. SUFFICES ASSUME j + 1 <= k PROVE F((j + 1) + 1) = Ahead(g, j + 1) + 1
      OBVIOUS
    <3>2. j + 1 \in 1..k /\ j <= k
      BY <3>1
    <3>3. F(j + 1) = Ahead(g, j) + 1
      BY <2>2, <3>2
    <3>4. F((j + 1) + 1) = F(j + 1) + Size(nodes, j + 1)
      BY <1>5, <3>2
    <3>5. Ahead(g, j + 1) = Ahead(g, j) + Size(nodes, j + 1)
      BY <1>2, <1>4, <3>1, <3>2
    <3>6. Size(nodes, j + 1) \in Nat /\ Ahead(g, j) \in Nat
      <4>1. j \in 0..k
        BY <3>2
      <4>2. Ahead(g, j) \in Nat
        BY <1>2, <4>1, BeforeIs
      <4> QED BY <1>1, <3>2, <4>2, SizeIs
    <3> QED BY <3>3, <3>4, <3>5, <3>6
  <2> HIDE DEF T
  <2>3. Nat \subseteq T
    BY <2>1, <2>2, SetInduction
  <2> QED BY <2>3 DEF T
<1>7. PICK y \in Seq(SF!Anyhow) : y = SF!FlattenSeq(g)
  BY <1>2, FlattenType
<1>8. InPlace(g, k)
  BY <1>2, FlattenAt
<1>9. Upto(g, k) = g
  BY <1>2 DEF Upto
<1>10. ASSUME NEW n \in 1..k PROVE F(n) = Ahead(g, n - 1) + 1 /\ Ahead(g, n - 1) \in Nat
  <2>1. n - 1 \in 0..k /\ (n - 1) + 1 = n
    OBVIOUS
  <2>2. Ahead(g, n - 1) \in Nat
    BY <1>2, <2>1, BeforeIs
  <2> QED BY <1>6, <2>1, <2>2
<1>11. Len(y) = F(k + 1) - 1
  <2>1. k \in 0..k /\ Ahead(g, k) \in Nat
    BY <1>2, BeforeIs
  <2> QED BY <1>4, <1>6, <1>7, <2>1
<1>12. ASSUME NEW n \in 1..k, NEW i \in 1..Size(nodes, n)
       PROVE  F(n) + i - 1 \in 1..Len(y) /\ y[F(n) + i - 1] = LineOf(nodes, n, i)
  <2>1. i \in 1..Len(g[n]) /\ g[n][i] = LineOf(nodes, n, i)
    BY <1>2
  <2>2. Ahead(g, n - 1) + i \in 1..Ahead(g, k) /\ SF!FlattenSeq(Upto(g, k))[Ahead(g, n - 1) + i] = g[n][i]
    BY <1>8, <2>1 DEF InPlace
  <2>3. i \in Nat
    BY <1>1, SizeIs
  <2>4. F(n) + i - 1 = Ahead(g, n - 1) + i
    BY <1>10, <2>3
  <2> QED BY <1>4, <1>7, <1>9, <2>1, <2>2, <2>4
<1>13. ASSUME NEW l \in 1..Len(y)
       PROVE  \E n \in 1..k : \E i \in 1..Size(nodes, n) : l = F(n) + i - 1
  <2>1. l \in 1..Ahead(g, k)
    BY <1>4, <1>7
  <2>2. PICK n \in 1..k : \E i \in 1..Len(g[n]) : l = Ahead(g, n - 1) + i
    BY <1>8, <2>1 DEF InPlace
  <2>3. PICK i \in 1..Size(nodes, n) : l = Ahead(g, n - 1) + i
    BY <1>2, <2>2
  <2>4. i \in Nat
    BY <1>1, SizeIs
  <2>5. F(n) + i - 1 = Ahead(g, n - 1) + i
    BY <1>10, <2>4
  <2> QED BY <2>3, <2>5
<1> QED BY <1>1, <1>3, <1>7, <1>11, <1>12, <1>13 DEF F

\* A file, as it is read.
LEMMA ReadAre ==
  ASSUME NEW lines \in Seq(SF!Anyhow)
  PROVE  LET p == SF!Read(lines).nodes
         IN  /\ p \in Seq(SF!Anyhow) /\ Len(p) = Len(lines)
             /\ \A l \in 1..Len(lines) :
                  /\ p[l] = SF!Parsed(lines[l]) /\ p[l].up = lines[l].up
                  /\ p[l].role = lines[l].role
                  /\ p[l].has = SF!OfKind(lines[l].has, Kinds(lines[l].role))
<1>1. PICK k \in Nat : k = Len(lines) /\ lines \in [1..k -> SF!Anyhow]
  BY SeqFrom
<1> DEFINE p == SF!Read(lines).nodes
<1>2. p = [l \in 1..k |-> SF!Parsed(lines[l])]
  BY <1>1 DEF SF!Read
<1>3. ASSUME NEW x \in SF!Anyhow
      PROVE  /\ SF!Parsed(x) \in SF!Anyhow
             /\ SF!Parsed(x).up = x.up /\ SF!Parsed(x).role = x.role
             /\ SF!Parsed(x).has = SF!OfKind(x.has, Kinds(x.role))
  <2>1. PICK y : y = SF!OfKind(x.has, Kinds(x.role))
    OBVIOUS
  <2>2. x.has \in Seq(SF!AnyBlock)
    BY DEF SF!Anyhow
  <2>3. y \in Seq(SF!AnyBlock)
    BY <2>1, <2>2, OfKindIs, OnlyType
  <2>4. SF!Parsed(x) = [x EXCEPT !.has = y]
    BY <2>1 DEF SF!Parsed, Kinds
  <2> QED BY <2>1, <2>3, <2>4 DEF SF!Anyhow
<1> HIDE DEF p
<1>4. p \in [1..k -> SF!Anyhow]
  BY <1>1, <1>2, <1>3
<1>5. p \in Seq(SF!Anyhow) /\ Len(p) = k
  BY <1>4, InSeq
<1>6. \A l \in 1..k :
        /\ p[l] = SF!Parsed(lines[l]) /\ p[l].up = lines[l].up
        /\ p[l].role = lines[l].role
        /\ p[l].has = SF!OfKind(lines[l].has, Kinds(lines[l].role))
  BY <1>1, <1>2, <1>3
<1> QED BY <1>1, <1>5, <1>6 DEF p

LEMMA FitsAlike ==
  \A m, n : m.role = n.role /\ m.has = n.has => (SF!Fits(m) <=> SF!Fits(n))
BY DEF SF!Fits

\* What an export reads as, when it is imported.
Again(nodes) == SF!Read(SF!Lines(nodes)).nodes

LEMMA AgainIs ==
  ASSUME NEW nodes, Neat(nodes)
  PROVE  /\ Again(nodes) \in Seq(SF!Anyhow)
         /\ Len(Again(nodes)) = SF!FirstLine(nodes, Len(nodes) + 1) - 1
         /\ \A n \in 1..Len(nodes) : \A i \in 1..Size(nodes, n) :
              /\ SF!FirstLine(nodes, n) + i - 1 \in 1..Len(Again(nodes))
              /\ Again(nodes)[SF!FirstLine(nodes, n) + i - 1].has = Kept(nodes[n])[i]
              /\ Again(nodes)[SF!FirstLine(nodes, n) + i - 1].role = nodes[n].role
              /\ Again(nodes)[SF!FirstLine(nodes, n) + i - 1].up
                   = IF i = 1 THEN UpLine(nodes, n) ELSE SF!FirstLine(nodes, n) + i - 2
         /\ \A l \in 1..Len(Again(nodes)) : \E n \in 1..Len(nodes) :
              \E i \in 1..Size(nodes, n) : l = SF!FirstLine(nodes, n) + i - 1
<1>1. PICK lines \in Seq(SF!Anyhow) : lines = SF!Lines(nodes)
  BY LinesAre
<1>2. PICK p \in Seq(SF!Anyhow) : p = SF!Read(lines).nodes
  BY ReadAre
<1>3. /\ Len(p) = Len(lines)
      /\ \A l \in 1..Len(lines) :
           /\ p[l].up = lines[l].up /\ p[l].role = lines[l].role
           /\ p[l].has = SF!OfKind(lines[l].has, Kinds(lines[l].role))
  BY <1>2, ReadAre
<1>4. Again(nodes) = p
  BY <1>1, <1>2 DEF Again
<1>5. Len(p) = SF!FirstLine(nodes, Len(nodes) + 1) - 1
  BY <1>1, <1>3, LinesAre
<1>6. \A l \in 1..Len(p) : \E n \in 1..Len(nodes) :
        \E i \in 1..Size(nodes, n) : l = SF!FirstLine(nodes, n) + i - 1
  BY <1>1, <1>3, LinesAre
<1>7. ASSUME NEW n \in 1..Len(nodes), NEW i \in 1..Size(nodes, n)
      PROVE  /\ SF!FirstLine(nodes, n) + i - 1 \in 1..Len(p)
             /\ p[SF!FirstLine(nodes, n) + i - 1].has = Kept(nodes[n])[i]
             /\ p[SF!FirstLine(nodes, n) + i - 1].role = nodes[n].role
             /\ p[SF!FirstLine(nodes, n) + i - 1].up
                  = IF i = 1 THEN UpLine(nodes, n) ELSE SF!FirstLine(nodes, n) + i - 2
  <2>1. PICK l : l = SF!FirstLine(nodes, n) + i - 1
    OBVIOUS
  <2>2. l \in 1..Len(lines) /\ lines[l] = LineOf(nodes, n, i)
    BY <1>1, <2>1, LinesAre
  <2>3. PICK e : e = SF!Entries(nodes[n])[i]
    OBVIOUS
  <2>4. PICK u : u = IF i = 1 THEN UpLine(nodes, n) ELSE SF!FirstLine(nodes, n) + i - 2
    OBVIOUS
  <2>5. lines[l] = SF!Node(e, u)
    BY <2>2, <2>3, <2>4 DEF LineOf
  <2>6. lines[l].has = e.has /\ lines[l].role = e.role /\ lines[l].up = u
    BY <2>5, NodeIs
  <2>7. e.role = nodes[n].role
    <3>1. Telltale(nodes[n])
      BY EntriesAre DEF Neat
    <3> QED BY <2>3, <3>1 DEF Telltale, Size
  <2>8. Kept(nodes[n])[i] = SF!OfKind(e.has, Kinds(e.role))
    BY <2>3 DEF Kept, Size
  <2>9. p[l].up = u /\ p[l].role = nodes[n].role /\ p[l].has = Kept(nodes[n])[i]
    BY <1>3, <2>2, <2>6, <2>7, <2>8
  <2> QED BY <1>3, <2>1, <2>2, <2>4, <2>9
<1> QED BY <1>4, <1>5, <1>6, <1>7

LEMMA UptoMore ==
  ASSUME NEW V, NEW x \in Seq(V), NEW a \in Nat, NEW c \in Nat, a + c <= Len(x)
  PROVE  Upto(x, a + c) = Upto(x, a) \o [i \in 1..c |-> x[a + i]]
<1>1. Len(x) \in Nat /\ x \in [1..Len(x) -> V]
  BY SeqFrom
<1> DEFINE g == Upto(x, a)
           h == [i \in 1..c |-> x[a + i]]
           z == g \o h
<1>2. g \in [1..a -> V] /\ \A i \in 1..a : g[i] = x[i]
  BY <1>1 DEF Upto
<1>3. h \in [1..c -> V] /\ \A i \in 1..c : h[i] = x[a + i]
  BY <1>1
<1>4. Upto(x, a + c) \in [1..(a + c) -> V] /\ \A i \in 1..(a + c) : Upto(x, a + c)[i] = x[i]
  BY <1>1 DEF Upto
<1> HIDE DEF g, h
<1>5. g \in [1..a -> V] /\ h \in [1..c -> V]
  BY <1>2, <1>3
<1>6. z \in [1..(a + c) -> V]
  BY <1>5, ConcatType
<1>7. \A i \in 1..a : z[i] = g[i]
  BY <1>5, ConcatLeft
<1>8. \A i \in 1..c : z[a + i] = h[i]
  BY <1>5, ConcatRight, SMTT(60)
<1> HIDE DEF z
<1>9. ASSUME NEW i \in 1..(a + c) PROVE z[i] = x[i]
  <2>1. CASE i <= a
    <3>1. i \in 1..a
      BY <2>1
    <3> QED BY <1>2, <1>7, <3>1
  <2>2. CASE ~(i <= a)
    <3>1. i - a \in 1..c /\ a + (i - a) = i
      BY <2>2
    <3> QED BY <1>3, <1>8, <3>1
  <2> QED BY <2>1, <2>2
<1>10. Upto(x, a + c) = z
  BY <1>4, <1>6, <1>9
<1> QED BY <1>10 DEF z, g, h

\* What lasts, and each result, is in the file as it is in the tree.
LEMMA AgainKeeps ==
  ASSUME NEW nodes, Neat(nodes), NEW S \in Kinships
  PROVE  SF!Only(SF!Blocks(Again(nodes)), S) = SF!Only(SF!Blocks(nodes), S)
<1>1. PICK k \in Nat : k = Len(nodes)
  BY EntsAre
<1>2. PICK p \in Seq(SF!Anyhow) : p = Again(nodes)
  BY AgainIs
<1> DEFINE F(x) == SF!FirstLine(nodes, x)
           R(j) == SF!Only(SF!Blocks(Upto(p, F(j + 1) - 1)), S)
           N(j) == SF!Only(SF!Blocks(Upto(nodes, j)), S)
           T == {j \in Nat : j <= k => R(j) = N(j)}
<1>3. /\ F(1) = 1
      /\ \A n \in 1..(k + 1) : F(n) \in Nat \ {0}
      /\ \A n \in 1..k : F(n + 1) = F(n) + Size(nodes, n)
  BY <1>1, FirstLineIs
<1>4. Len(p) = F(k + 1) - 1
  BY <1>1, <1>2, AgainIs
<1>5. \A n \in 1..k : \A i \in 1..Size(nodes, n) :
        F(n) + i - 1 \in 1..Len(p) /\ p[F(n) + i - 1].has = Kept(nodes[n])[i]
  <2>1. \A n \in 1..Len(nodes) : \A i \in 1..Size(nodes, n) :
          /\ SF!FirstLine(nodes, n) + i - 1 \in 1..Len(Again(nodes))
          /\ Again(nodes)[SF!FirstLine(nodes, n) + i - 1].has = Kept(nodes[n])[i]
    BY AgainIs, SMTT(60)
  <2>2. \A n \in 1..k : \A i \in 1..Size(nodes, n) :
          /\ SF!FirstLine(nodes, n) + i - 1 \in 1..Len(p)
          /\ p[SF!FirstLine(nodes, n) + i - 1].has = Kept(nodes[n])[i]
    BY <1>1, <1>2, <2>1
  <2> QED BY <2>2
<1>6. \A n \in 1..k : Size(nodes, n) \in Nat \ {0}
  BY <1>1, SizeIs
<1> HIDE DEF F
<1>7. 0 \in T
  <2>1. Upto(p, F(0 + 1) - 1) = <<>>
    <3>1. F(0 + 1) - 1 = 0
      BY <1>3
    <3>2. Upto(p, 0) \in [1..0 -> {}]
      BY DEF Upto
    <3> QED BY <3>1, <3>2, NoneIs
  <2>2. Upto(nodes, 0) = <<>>
    <3>1. Upto(nodes, 0) \in [1..0 -> {}]
      BY DEF Upto
    <3> QED BY <3>1, NoneIs
  <2> QED BY <2>1, <2>2
<1>8. ASSUME NEW j \in Nat, j \in T PROVE j + 1 \in T
  <2>1. SUFFICES ASSUME j + 1 <= k PROVE R(j + 1) = N(j + 1)
    OBVIOUS
  <2>2. j + 1 \in 1..k /\ j <= k /\ j + 1 \in 1..(k + 1) /\ (j + 1) + 1 \in 1..(k + 1)
    BY <2>1
  <2>3. R(j) = N(j)
    BY <1>8, <2>2
  <2>4. PICK c \in Nat : c = Size(nodes, j + 1)
    BY <1>6, <2>2
  <2>5. PICK a \in Nat : a = F(j + 1) - 1
    <3>1. F(j + 1) \in Nat \ {0}
      BY <1>3, <2>2
    <3>2. F(j + 1) - 1 \in Nat
      BY <3>1
    <3> QED BY <3>2
  <2>6. F((j + 1) + 1) - 1 = a + c
    <3>1. F(j + 1) \in Nat /\ F((j + 1) + 1) = F(j + 1) + c
      BY <1>3, <2>2, <2>4
    <3> QED BY <2>5, <3>1
  <2>7. a + c <= Len(p)
    <3>1. CASE j + 1 = k
      BY <1>4, <2>6, <3>1
    <3>2. CASE j + 1 # k
      <4>1. (j + 1) + 1 \in 1..Len(nodes) /\ k + 1 \in 1..(Len(nodes) + 1) /\ (j + 1) + 1 < k + 1
        BY <1>1, <2>2, <3>2
      <4>2. F((j + 1) + 1) + Size(nodes, (j + 1) + 1) <= F(k + 1)
        BY <4>1, FirstGrows DEF F
      <4>3. F((j + 1) + 1) \in Nat /\ Size(nodes, (j + 1) + 1) \in Nat /\ F(k + 1) \in Nat
        BY <1>1, <1>3, <1>6, <4>1
      <4> QED BY <1>4, <2>6, <4>2, <4>3
    <3> QED BY <3>1, <3>2
  <2> DEFINE more == [i \in 1..c |-> p[a + i]]
  <2>8. Upto(p, a + c) = Upto(p, a) \o more
    BY <2>7, UptoMore
  <2>9. more \in [1..c -> SF!Anyhow] /\ \A i \in 1..c : more[i].has = Kept(nodes[j + 1])[i]
    <3>1. p \in [1..Len(p) -> SF!Anyhow] /\ Len(p) \in Nat
      BY SeqFrom
    <3>2. ASSUME NEW i \in 1..c
          PROVE  p[a + i] \in SF!Anyhow /\ p[a + i].has = Kept(nodes[j + 1])[i]
      <4>1. F(j + 1) + i - 1 = a + i
        <5>1. F(j + 1) \in Nat
          BY <1>3, <2>2
        <5> QED BY <2>5, <5>1
      <4>2. a + i \in 1..Len(p) /\ p[a + i].has = Kept(nodes[j + 1])[i]
        BY <1>5, <2>2, <2>4, <4>1
      <4> QED BY <3>1, <4>2
    <3> QED BY <3>2
  <2> HIDE DEF more
  <2>10. more \in Seq(SF!Anyhow) /\ Len(more) = c
    BY <2>9, InSeq
  <2>11. SF!Fits(nodes[j + 1])
    BY <1>1, <2>2 DEF Neat
  <2>12. HasOf(more) = Kept(nodes[j + 1])
    <3>1. Kept(nodes[j + 1]) = [i \in 1..c |-> Kept(nodes[j + 1])[i]]
      BY <2>4 DEF Kept, Size
    <3>2. HasOf(more) = [i \in 1..c |-> more[i].has]
      BY <2>10 DEF HasOf
    <3> QED BY <2>9, <3>1, <3>2
  <2>13. SF!Only(SF!Blocks(more), S) = SF!Only(nodes[j + 1].has, S)
    <3>1. SF!Blocks(more) = SF!FlattenSeq(Kept(nodes[j + 1]))
      BY <2>12, BlocksAre
    <3>2. Telltale(nodes[j + 1])
      BY <2>11, EntriesAre
    <3> QED BY <3>1, <3>2 DEF Telltale
  <2>14. PICK x \in Seq(SF!Anyhow) : x = Upto(p, a)
    <3>1. a \in 0..Len(p)
      BY <2>7, SeqFrom
    <3> QED BY <3>1, UptoType
  <2>15. SF!Only(SF!Blocks(x \o more), S) = SF!Only(SF!Blocks(x), S) \o SF!Only(SF!Blocks(more), S)
    <3>1. SF!Blocks(x \o more) = SF!Blocks(x) \o SF!Blocks(more)
      BY <2>10, NodesAre, BlocksTwo
    <3>2. SF!Blocks(x) \in Seq(SF!AnyBlock) /\ SF!Blocks(more) \in Seq(SF!AnyBlock)
      BY <2>10, NodesAre, BlocksType
    <3> QED BY <3>1, <3>2, OnlyTwo
  <2>16. R(j + 1) = R(j) \o SF!Only(nodes[j + 1].has, S)
    BY <2>5, <2>6, <2>8, <2>13, <2>14, <2>15
  <2>17. N(j + 1) = N(j) \o SF!Only(nodes[j + 1].has, S)
    <3>1. nodes \in Seq(SF!Anyhow) /\ j + 1 <= Len(nodes)
      BY <1>1, <2>2 DEF Neat
    <3>2. Upto(nodes, j + 1) = Upto(nodes, j) \o <<nodes[j + 1]>>
      BY <3>1, UptoStep
    <3>3. PICK y \in Seq(SF!Anyhow) : y = Upto(nodes, j)
      <4>1. j \in 0..Len(nodes)
        BY <1>1, <2>2
      <4> QED BY <3>1, <4>1, UptoType
    <3>4. nodes[j + 1] \in SF!Anyhow
      BY <1>1, <2>2, <3>1, SeqFrom
    <3>5. SF!Only(SF!Blocks(y \o <<nodes[j + 1]>>), S)
            = SF!Only(SF!Blocks(y), S) \o SF!Only(nodes[j + 1].has, S)
      BY <3>4, NodesAre, KeptStep
    <3> QED BY <3>2, <3>3, <3>5
  <2> QED BY <2>3, <2>16, <2>17
<1> HIDE DEF T
<1>9. Nat \subseteq T
  BY <1>7, <1>8, SetInduction
<1>10. R(k) = N(k)
  BY <1>9 DEF T
<1>11. Upto(p, F(k + 1) - 1) = p /\ Upto(nodes, k) = nodes
  BY <1>1, <1>4, UptoAll DEF Neat
<1> QED BY <1>2, <1>10, <1>11

LEMMA AgainNeat ==
  ASSUME NEW nodes, Neat(nodes)
  PROVE  \A l \in 1..Len(Again(nodes)) :
           Again(nodes)[l].up \in 0..(l - 1) /\ SF!Fits(Again(nodes)[l])
<1> SUFFICES ASSUME NEW l \in 1..Len(Again(nodes))
             PROVE  Again(nodes)[l].up \in 0..(l - 1) /\ SF!Fits(Again(nodes)[l])
  OBVIOUS
<1>1. PICK n \in 1..Len(nodes) : \E i \in 1..Size(nodes, n) : l = SF!FirstLine(nodes, n) + i - 1
  BY AgainIs
<1>2. PICK i \in 1..Size(nodes, n) : l = SF!FirstLine(nodes, n) + i - 1
  BY <1>1
<1>3. /\ Again(nodes)[SF!FirstLine(nodes, n) + i - 1].has = Kept(nodes[n])[i]
      /\ Again(nodes)[SF!FirstLine(nodes, n) + i - 1].role = nodes[n].role
      /\ Again(nodes)[SF!FirstLine(nodes, n) + i - 1].up
           = IF i = 1 THEN UpLine(nodes, n) ELSE SF!FirstLine(nodes, n) + i - 2
  BY AgainIs
<1>4. SF!Fits(Again(nodes)[l])
  <2>1. SF!Fits(nodes[n])
    BY DEF Neat
  <2>2. SF!Fits([role |-> nodes[n].role, has |-> Kept(nodes[n])[i]])
    BY <2>1, EntriesAre DEF Telltale, Size
  <2>3. PICK x : x = [role |-> nodes[n].role, has |-> Kept(nodes[n])[i]]
    OBVIOUS
  <2>4. Again(nodes)[l].role = x.role /\ Again(nodes)[l].has = x.has
    BY <1>2, <1>3, <2>3
  <2> QED BY <2>2, <2>3, <2>4, FitsAlike
<1>5. PICK k \in Nat : k = Len(nodes)
  BY EntsAre
<1>6. PICK f \in Nat \ {0} : f = SF!FirstLine(nodes, n)
  <2>1. n \in 1..(Len(nodes) + 1)
    BY <1>5
  <2> QED BY <2>1, FirstLineIs
<1>7. i \in Nat /\ i >= 1
  BY SizeIs
<1>8. CASE i # 1
  <2>1. Again(nodes)[l].up = f + i - 2 /\ l = f + i - 1
    BY <1>2, <1>3, <1>6, <1>8
  <2>2. f + i - 2 \in 0..(l - 1)
    BY <1>6, <1>7, <1>8, <2>1, SMTT(60)
  <2> QED BY <1>4, <2>1, <2>2
<1>9. CASE i = 1
  <2>1. Again(nodes)[l].up = UpLine(nodes, n) /\ l = f
    BY <1>2, <1>3, <1>6, <1>9
  <2>2. CASE nodes[n].up > 0
    <3>1. nodes[n].up \in 0..(n - 1)
      BY DEF Neat
    <3>2. PICK u \in 1..k : u = nodes[n].up /\ u < n
      BY <1>5, <2>2, <3>1
    <3>3. SF!FirstLine(nodes, u) + Size(nodes, u) <= f
      <4>1. u \in 1..Len(nodes) /\ n \in 1..(Len(nodes) + 1)
        BY <1>5, <3>2
      <4> QED BY <1>6, <3>2, <4>1, FirstGrows
    <3>4. Size(nodes, u) \in Nat \ {0} /\ SF!FirstLine(nodes, u) \in Nat
      <4>1. u \in 1..(Len(nodes) + 1) /\ u \in 1..Len(nodes)
        BY <1>5
      <4> QED BY <4>1, SizeIs, FirstLineIs
    <3>5. UpLine(nodes, n) = SF!FirstLine(nodes, u)
      BY <2>2, <3>2 DEF UpLine
    <3> QED BY <1>4, <2>1, <3>3, <3>4, <3>5
  <2>3. CASE ~(nodes[n].up > 0)
    <3>1. UpLine(nodes, n) = f - 1
      BY <1>6, <2>3 DEF UpLine
    <3> QED BY <1>4, <1>6, <2>1, <3>1
  <2> QED BY <2>2, <2>3
<1> QED BY <1>8, <1>9

LEMMA LineBare ==
  ASSUME NEW nodes, Neat(nodes), NEW n \in 1..Len(nodes), NEW i \in 1..Size(nodes, n),
         Bare(nodes[n], SF!Lasting) \/ i # 1
  PROVE  Bare(Again(nodes)[SF!FirstLine(nodes, n) + i - 1], SF!Lasting)
<1>1. Telltale(nodes[n])
  BY EntriesAre DEF Neat
<1>2. Again(nodes)[SF!FirstLine(nodes, n) + i - 1].has = Kept(nodes[n])[i]
  BY AgainIs
<1>3. /\ SF!ToSet(Kept(nodes[n])[i]) \subseteq SF!ToSet(nodes[n].has)
      /\ i # 1 => SF!ToSet(Kept(nodes[n])[i]) \cap SF!Lasting = {}
  BY <1>1 DEF Telltale, Size
<1>4. SF!ToSet(Kept(nodes[n])[i]) \cap SF!Lasting = {}
  BY <1>3 DEF Bare
<1> QED BY <1>2, <1>4 DEF Bare

\* A line between the first lines of two nodes is of a node between them, or a
\* further line of the first of them.
LEMMA LineBetween ==
  ASSUME NEW nodes, Neat(nodes), NEW m \in 1..Len(nodes), NEW i \in 1..Size(nodes, m),
         NEW n \in 1..Len(nodes), SF!FirstLine(nodes, m) + i - 1 < SF!FirstLine(nodes, n)
  PROVE  /\ m < n
         /\ \A u \in 1..Len(nodes) :
              SF!FirstLine(nodes, u) < SF!FirstLine(nodes, m) + i - 1 => u < m \/ (u = m /\ i # 1)
<1>1. PICK k \in Nat : k = Len(nodes)
  BY EntsAre
<1> DEFINE F(x) == SF!FirstLine(nodes, x)
<1>2. \A x \in 1..k : F(x) \in Nat /\ Size(nodes, x) \in Nat \ {0}
  <2>1. \A x \in 1..k : x \in 1..(Len(nodes) + 1) /\ x \in 1..Len(nodes)
    BY <1>1
  <2> QED BY <2>1, SizeIs, FirstLineIs
<1>3. \A x, y \in 1..k : x < y => F(x) + Size(nodes, x) <= F(y)
  <2>1. \A y \in 1..k : y \in 1..(Len(nodes) + 1) /\ y \in 1..Len(nodes)
    BY <1>1
  <2> QED BY <2>1, FirstGrows
<1> HIDE DEF F
<1>4. F(m) + i - 1 < F(n)
  BY DEF F
<1>5. i \in Nat /\ i >= 1 /\ i <= Size(nodes, m) /\ F(m) \in Nat /\ F(n) \in Nat
      /\ m \in 1..k /\ n \in 1..k
  BY <1>1, <1>2
<1>6. m < n
  <2> SUFFICES ASSUME ~(m < n) PROVE FALSE
    OBVIOUS
  <2>1. CASE m = n
    BY <1>4, <1>5, <2>1
  <2>2. CASE n < m
    <3>1. F(n) + Size(nodes, n) <= F(m) /\ Size(nodes, n) \in Nat
      BY <1>2, <1>3, <1>5, <2>2
    <3> QED BY <1>4, <1>5, <3>1
  <2> QED BY <1>5, <2>1, <2>2
<1>7. ASSUME NEW u \in 1..k, F(u) < F(m) + i - 1 PROVE u < m \/ (u = m /\ i # 1)
  <2>1. CASE u = m
    BY <1>5, <1>7, <2>1
  <2>2. CASE m < u
    <3>1. F(m) + Size(nodes, m) <= F(u) /\ F(u) \in Nat /\ Size(nodes, m) \in Nat
      BY <1>2, <1>3, <1>5, <2>2
    <3> QED BY <1>5, <1>7, <3>1
  <2> QED BY <1>5, <2>1, <2>2
<1> QED BY <1>1, <1>6, <1>7 DEF F

\* Beside the way from the last line of an export there is nothing that lasts, as
\* beside the path of the tree.
LEMMA AgainSpine ==
  ASSUME NEW nodes, Neat(nodes), Len(nodes) # 0, Spine(nodes, Len(nodes), SF!Lasting)
  PROVE  Spine(Again(nodes), Len(Again(nodes)), SF!Lasting)
<1>1. PICK k \in Nat \ {0} : k = Len(nodes)
  BY EntsAre
<1>2. PICK T : Way2(nodes, T, k, SF!Lasting)
  BY <1>1 DEF Spine
<1>3. /\ T \subseteq 1..k /\ k \in T
      /\ \A n \in T : /\ nodes[n].up \in T \cup {0}
                      /\ \A j \in 1..k : nodes[n].up < j /\ j < n => Bare(nodes[j], SF!Lasting)
  BY <1>1, <1>2 DEF Way2
<1>4. PICK p \in Seq(SF!Anyhow) : p = Again(nodes)
  BY AgainIs
<1>5. PICK z \in Nat : z = Len(p)
  BY SeqFrom
<1> DEFINE F(x) == SF!FirstLine(nodes, x)
           B == {l \in 1..z : \A x \in 1..l : Bare(p[x], SF!Lasting)}
           H == {F(n) : n \in T}
           E == {F(k) + i - 1 : i \in 1..Size(nodes, k)}
           W == H \cup E \cup B
<1>6. \A n \in 1..k : F(n) \in Nat \ {0} /\ Size(nodes, n) \in Nat \ {0}
  <2>1. \A n \in 1..k : n \in 1..(Len(nodes) + 1) /\ n \in 1..Len(nodes)
    BY <1>1
  <2> QED BY <2>1, SizeIs, FirstLineIs
<1>7. \A n \in 1..k : \A i \in 1..Size(nodes, n) :
        /\ F(n) + i - 1 \in 1..z
        /\ p[F(n) + i - 1].up = IF i = 1 THEN UpLine(nodes, n) ELSE F(n) + i - 2
  <2>1. \A n \in 1..Len(nodes) : \A i \in 1..Size(nodes, n) :
          /\ F(n) + i - 1 \in 1..Len(Again(nodes))
          /\ Again(nodes)[F(n) + i - 1].up = IF i = 1 THEN UpLine(nodes, n) ELSE F(n) + i - 2
    BY AgainIs
  <2> HIDE DEF F
  <2> QED BY <1>1, <1>4, <1>5, <2>1
<1>8. \A l \in 1..z : \E n \in 1..k : \E i \in 1..Size(nodes, n) : l = F(n) + i - 1
  <2>1. \A l \in 1..Len(Again(nodes)) : \E n \in 1..Len(nodes) :
          \E i \in 1..Size(nodes, n) : l = F(n) + i - 1
    BY AgainIs
  <2> HIDE DEF F
  <2> QED BY <1>1, <1>4, <1>5, <2>1
<1>9. z = F(k) + Size(nodes, k) - 1
  <2>1. Len(Again(nodes)) = F(Len(nodes) + 1) - 1
    BY AgainIs
  <2>2. F(k + 1) = F(k) + Size(nodes, k)
    <3>1. k \in 1..Len(nodes)
      BY <1>1
    <3> QED BY <3>1, FirstLineIs
  <2> HIDE DEF F
  <2>3. z = F(k + 1) - 1
    BY <1>1, <1>4, <1>5, <2>1
  <2>4. k \in 1..k
    BY <1>1
  <2>5. F(k) \in Nat /\ Size(nodes, k) \in Nat
    BY <1>6, <2>4
  <2> QED BY <2>2, <2>3, <2>5
<1>10. \A n \in 1..k : \A i \in 1..Size(nodes, n) :
         Bare(nodes[n], SF!Lasting) \/ i # 1 => Bare(p[F(n) + i - 1], SF!Lasting)
  BY <1>1, <1>4, LineBare
<1>11. \A m, n \in 1..k : \A i \in 1..Size(nodes, m) :
         F(m) + i - 1 < F(n) =>
           /\ m < n
           /\ \A u \in 1..k : F(u) < F(m) + i - 1 => u < m \/ (u = m /\ i # 1)
  BY <1>1, LineBetween
<1>12. \A n \in 1..k : UpLine(nodes, n) = IF nodes[n].up > 0 THEN F(nodes[n].up) ELSE F(n) - 1
  BY DEF UpLine
<1>13. \A l \in 1..z : p[l].up \in 0..(l - 1)
  BY <1>4, <1>5, AgainNeat
<1> HIDE DEF F
<1>14. \A n \in 1..k : F(n) \in 1..z
  <2> TAKE n \in 1..k
  <2>1. 1 \in 1..Size(nodes, n) /\ F(n) + 1 - 1 = F(n)
    BY <1>6
  <2> QED BY <1>7, <2>1
<1>15. W \subseteq 1..z
  BY <1>1, <1>3, <1>7, <1>14
<1>16. z \in W
  <2>1. Size(nodes, k) \in 1..Size(nodes, k) /\ k \in 1..k
    BY <1>1, <1>6
  <2> QED BY <1>9, <2>1
<1>17. ASSUME NEW l \in B
       PROVE  /\ p[l].up \in W \cup {0}
              /\ \A x \in 1..z : p[l].up < x /\ x < l => Bare(p[x], SF!Lasting)
  <2>1. l \in 1..z /\ \A x \in 1..l : Bare(p[x], SF!Lasting)
    OBVIOUS
  <2>2. p[l].up \in 0..(l - 1)
    BY <1>13, <2>1
  <2>3. CASE p[l].up = 0
    BY <2>1, <2>3
  <2>4. CASE p[l].up # 0
    <3>1. p[l].up \in 1..z /\ \A x \in 1..p[l].up : x \in 1..l
      BY <2>1, <2>2, <2>4
    <3>2. p[l].up \in B
      BY <2>1, <3>1
    <3> QED BY <2>1, <3>2
  <2> QED BY <2>3, <2>4
<1>18. ASSUME NEW i \in 1..Size(nodes, k), i # 1
       PROVE  /\ p[F(k) + i - 1].up \in W \cup {0}
              /\ \A x \in 1..z : p[F(k) + i - 1].up < x /\ x < F(k) + i - 1 => Bare(p[x], SF!Lasting)
  <2>1. k \in 1..k
    OBVIOUS
  <2>2. p[F(k) + i - 1].up = F(k) + i - 2 /\ F(k) \in Nat /\ Size(nodes, k) \in Nat
    BY <1>6, <1>7, <1>18, <2>1
  <2>3. i - 1 \in 1..Size(nodes, k) /\ F(k) + (i - 1) - 1 = F(k) + i - 2
    BY <1>18, <2>2
  <2>4. F(k) + (i - 1) - 1 \in E
    BY <2>3
  <2>5. F(k) + i - 2 \in E
    BY <2>3, <2>4
  <2> HIDE DEF E
  <2> QED BY <2>2, <2>5
<1>19. ASSUME NEW n \in T
       PROVE  /\ p[F(n)].up \in W \cup {0}
              /\ \A x \in 1..z : p[F(n)].up < x /\ x < F(n) => Bare(p[x], SF!Lasting)
  <2>1. n \in 1..k /\ F(n) \in 1..z
    BY <1>3, <1>14
  <2>2. p[F(n)].up = UpLine(nodes, n)
    <3>1. 1 \in 1..Size(nodes, n) /\ F(n) + 1 - 1 = F(n)
      BY <1>6, <2>1
    <3> QED BY <1>7, <2>1, <3>1
  <2>3. PICK u \in T \cup {0} : u = nodes[n].up
    BY <1>3
  <2>4. \A j \in 1..k : u < j /\ j < n => Bare(nodes[j], SF!Lasting)
    BY <1>3, <2>3
  <2>5. CASE u > 0
    <3>1. u \in T /\ u \in 1..k /\ p[F(n)].up = F(u)
      BY <1>3, <1>12, <2>1, <2>2, <2>3, <2>5
    <3>2. ASSUME NEW x \in 1..z, F(u) < x, x < F(n) PROVE Bare(p[x], SF!Lasting)
      <4>1. PICK m \in 1..k : \E i \in 1..Size(nodes, m) : x = F(m) + i - 1
        BY <1>8
      <4>2. PICK i \in 1..Size(nodes, m) : x = F(m) + i - 1
        BY <4>1
      <4>3. m < n /\ (u < m \/ (u = m /\ i # 1))
        BY <1>11, <2>1, <3>1, <3>2, <4>2
      <4>4. Bare(nodes[m], SF!Lasting) \/ i # 1
        BY <2>4, <4>3
      <4> QED BY <1>10, <4>2, <4>4
    <3> QED BY <3>1, <3>2
  <2>6. CASE ~(u > 0)
    <3>1. u = 0
      <4>1. T \subseteq 1..k
        BY <1>3
      <4>2. \A x \in 1..k : x > 0
        OBVIOUS
      <4> QED BY <2>6, <4>1, <4>2
    <3>2. p[F(n)].up = F(n) - 1
      BY <1>12, <2>1, <2>2, <2>3, <2>6
    <3>3. ASSUME NEW x \in 1..(F(n) - 1) PROVE Bare(p[x], SF!Lasting)
      <4>0. x \in 1..z /\ x < F(n)
        BY <2>1
      <4>1. PICK m \in 1..k : \E i \in 1..Size(nodes, m) : x = F(m) + i - 1
        BY <1>8, <4>0
      <4>2. PICK i \in 1..Size(nodes, m) : x = F(m) + i - 1
        BY <4>1
      <4>3. m < n
        BY <1>11, <2>1, <4>0, <4>2
      <4>4. Bare(nodes[m], SF!Lasting)
        BY <2>4, <3>1, <4>3
      <4> QED BY <1>10, <4>2, <4>4
    <3>4. F(n) - 1 \in B \cup {0}
      <4>1. CASE F(n) = 1
        BY <4>1
      <4>2. CASE F(n) # 1
        <5>1. F(n) - 1 \in 1..z
          BY <2>1, <4>2
        <5> QED BY <3>3, <5>1
      <4> QED BY <4>1, <4>2
    <3>5. \A x \in 1..z : ~(F(n) - 1 < x /\ x < F(n))
      BY <2>1
    <3> QED BY <3>2, <3>4, <3>5
  <2> QED BY <2>5, <2>6
<1>20. ASSUME NEW l \in W
       PROVE  /\ p[l].up \in W \cup {0}
              /\ \A x \in 1..z : p[l].up < x /\ x < l => Bare(p[x], SF!Lasting)
  <2>1. CASE l \in B
    BY <1>17, <2>1
  <2>2. CASE l \in H
    <3>1. PICK n \in T : l = F(n)
      BY <2>2
    <3> QED BY <1>19, <3>1
  <2>3. CASE l \in E
    <3>1. PICK i \in 1..Size(nodes, k) : l = F(k) + i - 1
      BY <2>3
    <3>2. CASE i = 1
      <4>1. l = F(k)
        BY <1>1, <1>6, <3>1, <3>2
      <4> QED BY <1>3, <1>19, <4>1
    <3>3. CASE i # 1
      BY <1>18, <3>1, <3>3
    <3> QED BY <3>2, <3>3
  <2> QED BY <2>1, <2>2, <2>3
<1> HIDE DEF W
<1>21. Way2(p, W, z, SF!Lasting)
  BY <1>5, <1>15, <1>16, <1>20 DEF Way2
<1> QED BY <1>4, <1>5, <1>21 DEF Spine

-----------------------------------------------------------------------------
(* A chain has no gaps, and a copy's chains are those of its original *)

LEMMA ChainGaps ==
  ASSUME NEW nodes, Climbing(nodes)
  PROVE  \A tip \in 1..Len(nodes) :
           LET C == SF!ToSet(SF!Chain(nodes, tip))
           IN  \A n \in C : /\ nodes[n].up > 0 => nodes[n].up \in C
                            /\ \A k \in C : k < n => k <= nodes[n].up
<1> DEFINE C(tip) == SF!ToSet(SF!Chain(nodes, tip))
           Ok(tip) == \A n \in C(tip) : /\ nodes[n].up > 0 => nodes[n].up \in C(tip)
                                      /\ \A k \in C(tip) : k < n => k <= nodes[n].up
           T == {tip \in 1..Len(nodes) : Ok(tip)}
<1>1. PICK m \in Nat : m = Len(nodes)
  BY SeqFrom DEF Climbing
<1>2. \A n \in 1..m : nodes[n].up \in -1..(n - 1)
  BY <1>1 DEF Climbing
<1>3. /\ C(0) = {} /\ C(-1) = {}
      /\ \A n \in 1..m : C(n) = C(nodes[n].up) \cup {n}
  <2>1. C(0) = {} /\ C(-1) = {}
    BY ChainIs, ToSetNone
  <2>2. ASSUME NEW n \in 1..m PROVE C(n) = C(nodes[n].up) \cup {n}
    <3>1. PICK x : x = SF!Chain(nodes, nodes[n].up)
      OBVIOUS
    <3>2. nodes[n].up \in -1..Len(nodes)
      BY <1>1, <1>2
    <3>3. x \in Seq(1..m)
      BY <1>1, <3>1, <3>2, ChainAny
    <3>4. SF!Chain(nodes, n) = Append(x, n)
      BY <1>1, <3>1, ChainIs
    <3>5. SF!ToSet(Append(x, n)) = SF!ToSet(x) \cup {n}
      BY <3>3, ToSetAppend
    <3> QED BY <3>1, <3>4, <3>5
  <2> QED BY <2>1, <2>2
<1>4. \A n \in 1..m : C(n) \subseteq 1..m /\ n \in C(n) /\ \A k \in C(n) : k <= n
  <2> SUFFICES ASSUME NEW n \in 1..m PROVE C(n) \subseteq 1..m /\ n \in C(n) /\ \A k \in C(n) : k <= n
    OBVIOUS
  <2>1. SF!Chain(nodes, n) \in Seq(1..Len(nodes)) /\ n \in C(n) /\ \A k \in C(n) : k <= n
    BY <1>1, ChainType
  <2>2. C(n) \subseteq 1..Len(nodes)
    BY <2>1, ToSetSeq
  <2> QED BY <1>1, <2>1, <2>2
<1> HIDE DEF C
<1>5. ASSUME NEW tip \in 1..Len(nodes), nodes[tip].up > 0 => nodes[tip].up \in T PROVE tip \in T
  <2>1. PICK u \in -1..(tip - 1) : u = nodes[tip].up
    BY <1>1, <1>2
  <2>2. C(tip) = C(u) \cup {tip} /\ tip \in 1..m
    BY <1>1, <1>3, <2>1
  <2>3. u > 0 => u \in 1..m /\ u \in C(u) /\ C(u) \subseteq 1..m /\ \A k \in C(u) : k <= u
    BY <1>1, <1>4, <2>1
  <2>4. u <= 0 => C(u) = {}
    BY <1>3, <2>1
  <2>5. u > 0 => Ok(u)
    BY <1>5, <2>1
  <2>6. ASSUME NEW n \in C(tip)
        PROVE  /\ nodes[n].up > 0 => nodes[n].up \in C(tip)
               /\ \A k \in C(tip) : k < n => k <= nodes[n].up
    <3>1. CASE n = tip
      <4>1. ASSUME NEW k \in C(tip), k < n PROVE k <= nodes[n].up
        <5>1. k \in C(u)
          BY <2>2, <3>1, <4>1
        <5>2. u > 0
          BY <2>1, <2>4, <5>1
        <5> QED BY <2>1, <2>3, <3>1, <5>1, <5>2
      <4> QED BY <2>1, <2>2, <2>3, <3>1, <4>1
    <3>2. CASE n # tip
      <4>1. n \in C(u)
        BY <2>2, <3>2
      <4>2. u > 0 /\ u \in Int
        BY <2>1, <2>4, <4>1
      <4>3. n <= u /\ n \in 1..m /\ Ok(u)
        BY <2>3, <2>5, <4>1, <4>2
      <4>4. ASSUME NEW k \in C(tip), k < n PROVE k <= nodes[n].up
        <5>1. k # tip
          BY <2>1, <4>2, <4>3, <4>4
        <5>2. k \in C(u)
          BY <2>2, <5>1
        <5> QED BY <4>1, <4>3, <4>4, <5>2
      <4> QED BY <2>2, <4>1, <4>3, <4>4
    <3> QED BY <3>1, <3>2
  <2> QED BY <2>6
<1> HIDE DEF T
<1>6. 1..Len(nodes) \subseteq T
  BY <1>5, UpInduction
<1> QED BY <1>6 DEF T, C

\* A file that another program wrote, with one way that lasts.
LEMMA OneWaySpine ==
  ASSUME NEW lines \in Seq(SF!Anyhow), \A l \in 1..Len(lines) : lines[l].up \in -1..(l - 1),
         SF!OneWay(lines), SF!Read(lines).at # 0
  PROVE  Spine(SF!Read(lines).nodes, Len(lines), SF!Lasting)
<1>1. PICK m \in Nat : m = Len(lines)
  BY SeqFrom
<1>2. Climbing(lines)
  BY DEF Climbing
<1>3. SF!Whole(lines, m) /\ m # 0
  BY <1>1 DEF SF!Read
<1>4. PICK p \in Seq(SF!Anyhow) : p = SF!Read(lines).nodes
  BY ReadAre
<1>5. /\ Len(p) = m
      /\ \A l \in 1..m : p[l].up = lines[l].up /\ p[l] = SF!Parsed(lines[l])
  BY <1>1, <1>4, ReadAre
<1> DEFINE C == SF!ToSet(SF!Chain(lines, m))
<1>6. m \in 1..Len(lines)
  BY <1>1, <1>3
<1>7. C \subseteq 1..m /\ m \in C
  <2>1. SF!Chain(lines, m) \in Seq(1..Len(lines)) /\ m \in C
    BY <1>2, <1>6, ChainType
  <2>2. C \subseteq 1..Len(lines)
    BY <2>1, ToSetSeq
  <2> QED BY <1>1, <2>1, <2>2
<1>8. \A n \in C : lines[n].up # -1
  BY <1>3 DEF SF!Whole
<1>9. \A n \in C : /\ lines[n].up > 0 => lines[n].up \in C
                   /\ \A k \in C : k < n => k <= lines[n].up
  BY <1>2, <1>6, ChainGaps
<1>10. \A l \in 1..m \ C : Bare(p[l], SF!Lasting)
  <2>1. \A l \in 1..Len(lines) \ SF!ToSet(SF!Chain(lines, Len(lines))) :
          SF!ToSet(SF!Parsed(lines[l]).has) \cap SF!Lasting = {}
    BY DEF SF!OneWay
  <2> QED BY <1>1, <1>5, <2>1 DEF Bare
<1> HIDE DEF C
<1>11. ASSUME NEW n \in C
       PROVE  /\ p[n].up \in C \cup {0}
              /\ \A k \in 1..m : p[n].up < k /\ k < n => Bare(p[k], SF!Lasting)
  <2>1. p[n].up = lines[n].up /\ lines[n].up \in -1..(n - 1) /\ n \in 1..m
    BY <1>1, <1>5, <1>7
  <2>2. p[n].up \in C \cup {0}
    BY <1>8, <1>9, <2>1
  <2>3. ASSUME NEW k \in 1..m, p[n].up < k, k < n PROVE Bare(p[k], SF!Lasting)
    <3>1. k \notin C
      BY <1>9, <2>1, <2>3
    <3> QED BY <1>10, <3>1
  <2> QED BY <2>2, <2>3
<1>12. Way2(p, C, m, SF!Lasting)
  BY <1>5, <1>7, <1>11 DEF Way2
<1> QED BY <1>1, <1>4, <1>12 DEF Spine

LEMMA CopiesAre ==
  ASSUME NEW t, Climbing(t.nodes), \A n \in 1..Len(t.nodes) : SF!Fits(t.nodes[n]),
         t.at \in 0..Len(t.nodes), NEW c \in SF!Copies(t)
  PROVE  /\ Neat(c.nodes) /\ c.at \in 0..Len(c.nodes) /\ Len(c.nodes) = Len(t.nodes)
         /\ Len(c.nodes) # 0
         /\ Content(c.nodes) = Content(t.nodes)
         /\ \A n \in 1..Len(t.nodes) :
              /\ c.nodes[n].up = IF t.nodes[n].up = -1 THEN 0 ELSE t.nodes[n].up
              /\ c.nodes[n].has = t.nodes[n].has
         /\ t.at # 0 => c.at = t.at
<1>1. PICK m \in Nat : m = Len(t.nodes) /\ t.nodes \in [1..m -> SF!Anyhow]
  BY SeqFrom DEF Climbing
<1> DEFINE x == [n \in 1..m |-> SF!Node(t.nodes[n], IF t.nodes[n].up = -1 THEN 0 ELSE t.nodes[n].up)]
<1>2. PICK y : y = x
  OBVIOUS
<1>3. /\ y \in [1..m -> SF!Anyhow]
      /\ \A n \in 1..m : /\ y[n].up = IF t.nodes[n].up = -1 THEN 0 ELSE t.nodes[n].up
                         /\ y[n].has = t.nodes[n].has
                         /\ y[n].role = t.nodes[n].role
  <2>1. \A n \in 1..m : t.nodes[n] \in SF!Anyhow
    BY <1>1
  <2>2. \A v \in SF!Anyhow : \A u \in Int : SF!Node(v, u) \in SF!Anyhow
    BY DEF SF!Anyhow, SF!Node
  <2>3. \A n \in 1..m : (IF t.nodes[n].up = -1 THEN 0 ELSE t.nodes[n].up) \in Int
    BY <2>1 DEF SF!Anyhow
  <2>4. y \in [1..m -> SF!Anyhow]
    BY <1>2, <2>1, <2>2, <2>3
  <2>5. \A n \in 1..m : y[n] = SF!Node(t.nodes[n], IF t.nodes[n].up = -1 THEN 0 ELSE t.nodes[n].up)
    BY <1>2
  <2> QED BY <2>4, <2>5, NodeIs
<1>4. y \in Seq(SF!Anyhow) /\ Len(y) = m
  BY <1>3, InSeq
<1>5. SF!Copies(t) = {[nodes |-> y, at |-> a] : a \in IF t.at = 0 THEN 1..Len(y) ELSE {t.at}}
  BY <1>1, <1>2 DEF SF!Copies
<1>6. PICK a \in IF t.at = 0 THEN 1..m ELSE {t.at} : c = [nodes |-> y, at |-> a]
  BY <1>4, <1>5
<1>7. c.nodes = y /\ c.at = a
  BY <1>6
<1>8. a \in 0..m /\ m # 0 /\ (t.at # 0 => a = t.at)
  BY <1>1, <1>6
<1>9. Neat(y)
  <2>1. \A n \in 1..m : y[n].up \in 0..(n - 1)
    BY <1>1, <1>3 DEF Climbing
  <2>2. \A n \in 1..m : SF!Fits(y[n])
    BY <1>1, <1>3, FitsAlike
  <2> QED BY <1>4, <2>1, <2>2 DEF Neat
<1>10. Content(y) = Content(t.nodes)
  BY <1>1, <1>3, <1>4 DEF Content
<1> QED BY <1>1, <1>3, <1>4, <1>7, <1>8, <1>9, <1>10

LEMMA CopySpine ==
  ASSUME NEW t, Climbing(t.nodes), \A n \in 1..Len(t.nodes) : SF!Fits(t.nodes[n]),
         t.at \in 0..Len(t.nodes), NEW c \in SF!Copies(t), NEW S, Spine(t.nodes, t.at, S), t.at # 0
  PROVE  Spine(c.nodes, c.at, S)
<1>1. PICK m \in Nat : m = Len(t.nodes)
  BY SeqFrom DEF Climbing
<1>2. /\ c.at = t.at /\ Len(c.nodes) = m
      /\ \A n \in 1..m : /\ c.nodes[n].up = IF t.nodes[n].up = -1 THEN 0 ELSE t.nodes[n].up
                         /\ c.nodes[n].has = t.nodes[n].has
  BY <1>1, CopiesAre
<1>3. PICK T : Way2(t.nodes, T, t.at, S)
  BY DEF Spine
<1>4. /\ T \subseteq 1..m /\ t.at \in T \cup {0}
      /\ \A n \in T : /\ t.nodes[n].up \in T \cup {0}
                      /\ \A k \in 1..m : t.nodes[n].up < k /\ k < n => Bare(t.nodes[k], S)
  BY <1>1, <1>3 DEF Way2
<1>5. \A n \in T : c.nodes[n].up = t.nodes[n].up
  BY <1>2, <1>4
<1>6. \A k \in 1..m : Bare(t.nodes[k], S) <=> Bare(c.nodes[k], S)
  BY <1>2 DEF Bare
<1>7. Way2(c.nodes, T, c.at, S)
  BY <1>2, <1>4, <1>5, <1>6 DEF Way2
<1> QED BY <1>7 DEF Spine

LEMMA CopyStraight ==
  ASSUME NEW t, Climbing(t.nodes), \A n \in 1..Len(t.nodes) : SF!Fits(t.nodes[n]),
         t.at \in 0..Len(t.nodes), NEW c \in SF!Copies(t), Straight(t.nodes, t.at)
  PROVE  Straight(c.nodes, c.at)
<1>1. PICK m \in Nat : m = Len(t.nodes)
  BY SeqFrom DEF Climbing
<1>2. /\ Len(c.nodes) = m /\ m # 0 /\ (t.at # 0 => c.at = t.at)
      /\ \A n \in 1..m : c.nodes[n].up = IF t.nodes[n].up = -1 THEN 0 ELSE t.nodes[n].up
  BY <1>1, CopiesAre
<1>3. t.at = m /\ \A n \in 1..m : t.nodes[n].up = n - 1
  BY <1>1 DEF Straight
<1>4. c.at = Len(c.nodes)
  BY <1>2, <1>3
<1>5. ASSUME NEW n \in 1..m PROVE c.nodes[n].up = n - 1
  <2>1. c.nodes[n].up = IF t.nodes[n].up = -1 THEN 0 ELSE t.nodes[n].up
    BY <1>2
  <2>2. t.nodes[n].up = n - 1 /\ n - 1 # -1
    BY <1>3
  <2> QED BY <2>1, <2>2
<1>6. Len(c.nodes) = m
  BY <1>2
<1> QED BY <1>4, <1>5, <1>6 DEF Straight

-----------------------------------------------------------------------------
(* The table, the open tree and the file keep what was said *)

\* What is assumed of the files of other programs, and of the kinds of a message.
FileAssumed == SF!SessionFileAssumption

\* What is kept of what was told.
Keeps(has, told, filed) ==
  /\ SF!Only(has, SF!Lasting) = SF!Only(told, SF!Lasting)
  /\ filed = {} => has = told
  /\ "fork" \notin filed => SF!Only(has, ResultBlocks) = SF!Only(told, ResultBlocks)

Shelved ==
  {s \in [id : SessionNames, cwd : Places, told : Seq(SF!AnyBlock),
          filed : SUBSET {"file", "fork"}, rows : Seq(Mess)] :
     /\ \A i \in 1..Len(s.rows) : SF!Fits(s.rows[i])
     /\ Keeps(SF!Blocks(s.rows), s.told, s.filed)}

IdsApart(x) == \A i, j \in 1..Len(x) : x[i].id = x[j].id => i = j

\* A tree; whole: its path was not cut short.
TreeOf(nodes, tip, filed, whole) ==
  /\ Neat(nodes) /\ tip \in 0..Len(nodes)
  /\ whole => tip = Len(nodes) /\ Spine(nodes, tip, SF!Lasting)
  /\ filed = {} => Straight(nodes, tip)

OpenTree == [id : SessionNames, nodes : Seq(SF!Anyhow), at : Int]

ShelfInv ==
  /\ shelf \in Seq(Shelved) /\ IdsApart(shelf)

\* All that is in the nodes of a tree is in the rows.
Seen(nodes, rows) == SF!ToSet(SF!Blocks(nodes)) \subseteq SF!ToSet(SF!Blocks(rows))

\* The nodes of the open tree are the rows of its session, or some of them.
OpenInv(whole) ==
  /\ opened \in OpenTree
  /\ \E i \in 1..Len(shelf) :
       /\ shelf[i].id = opened.id
       /\ whole => shelf[i].rows = Content(opened.nodes)
       /\ Seen(opened.nodes, shelf[i].rows)
       /\ TreeOf(opened.nodes, opened.at, shelf[i].filed, whole)

PageInv(whole) ==
  /\ SF!Telling(jsonl)
  /\ whole /\ SF!Read(jsonl.lines).at # 0 =>
       Spine(SF!Read(jsonl.lines).nodes, Len(jsonl.lines), SF!Lasting)

StoryInv == ShelfInv /\ OpenInv("open" \notin short) /\ PageInv("page" \notin short)

LEMMA AtIs ==
  ASSUME IdsApart(shelf), NEW i \in 1..Len(shelf)
  PROVE  SF!At(shelf[i].id) = i /\ SF!Known(shelf[i].id)
<1>1. \A j \in 1..Len(shelf) : shelf[j].id = shelf[i].id => j = i
  BY DEF IdsApart
<1>2. SF!Known(shelf[i].id)
  BY DEF SF!Known
<1>3. SF!At(shelf[i].id) = CHOOSE j \in 1..Len(shelf) : shelf[j].id = shelf[i].id
  BY DEF SF!At
<1> QED BY <1>1, <1>2, <1>3

LEMMA KnownIs ==
  ASSUME ShelfInv, NEW id, SF!Known(id)
  PROVE  /\ SF!At(id) \in 1..Len(shelf) /\ shelf[SF!At(id)].id = id
         /\ shelf[SF!At(id)] \in Shelved
<1>1. PICK i \in 1..Len(shelf) : shelf[i].id = id
  BY DEF SF!Known
<1>2. SF!At(id) = i
  BY <1>1, AtIs DEF ShelfInv
<1>3. shelf[i] \in Shelved
  BY SeqFrom DEF ShelfInv
<1> QED BY <1>1, <1>2, <1>3

\* Messages as a tree without branches.
LEMMA LinearFits ==
  ASSUME NEW msgs \in Seq(Mess), \A i \in 1..Len(msgs) : SF!Fits(msgs[i])
  PROVE  LET t == SF!Linear(msgs)
         IN  /\ Neat(t.nodes) /\ Straight(t.nodes, t.at) /\ t.at \in 0..Len(t.nodes)
             /\ Content(t.nodes) = msgs /\ SF!Blocks(t.nodes) = SF!Blocks(msgs)
             /\ \A filed, whole : TreeOf(t.nodes, t.at, filed, whole)
<1>1. PICK m \in Nat : m = Len(msgs)
  BY SeqFrom
<1>2. PICK x \in Seq(SF!Anyhow) : x = SF!Linear(msgs).nodes
  BY LinearIs
<1>3. /\ Len(x) = m /\ SF!Linear(msgs).at = m
      /\ \A i \in 1..m : x[i] = SF!Node(msgs[i], i - 1)
      /\ Content(x) = msgs
  BY <1>1, <1>2, LinearIs
<1>4. \A i \in 1..m : x[i].up = i - 1 /\ x[i].role = msgs[i].role /\ x[i].has = msgs[i].has
  BY <1>3, NodeIs
<1>5. \A i \in 1..m : SF!Fits(x[i])
  BY <1>1, <1>4, FitsAlike
<1>6. Neat(x)
  BY <1>3, <1>4, <1>5 DEF Neat
<1>7. Straight(x, m)
  BY <1>3, <1>4 DEF Straight
<1>8. SF!Blocks(x) = SF!Blocks(msgs)
  BY <1>2, <1>3, ContentIs
<1>9. Spine(x, m, SF!Lasting)
  BY <1>7, StraightSpine
<1>10. \A filed, whole : TreeOf(x, m, filed, whole)
  BY <1>3, <1>6, <1>7, <1>9 DEF TreeOf
<1> QED BY <1>2, <1>3, <1>6, <1>7, <1>8, <1>10

LEMMA LinearAny ==
  ASSUME NEW msgs \in Seq(SF!Anyhow)
  PROVE  SF!Linear(msgs) = SF!Linear(Content(msgs))
<1>1. PICK m \in Nat : m = Len(msgs)
  BY SeqFrom
<1>2. PICK x \in Seq(Mess) : x = Content(msgs)
  BY ContentIs
<1>3. Len(x) = m /\ \A i \in 1..m : x[i].role = msgs[i].role /\ x[i].has = msgs[i].has
  BY <1>1, <1>2, ContentIs DEF Content
<1>4. \A i \in 1..m : \A u : SF!Node(x[i], u) = SF!Node(msgs[i], u)
  BY <1>3 DEF SF!Node
<1>5. SF!Under(<<>>, 0, x) = SF!Under(<<>>, 0, msgs)
  <2> DEFINE u(i) == IF i = 1 THEN 0 ELSE Len(<<>>) + i - 1
  <2>1. SF!Under(<<>>, 0, x) = <<>> \o [i \in 1..m |-> SF!Node(x[i], u(i))]
    BY <1>3 DEF SF!Under
  <2>2. SF!Under(<<>>, 0, msgs) = <<>> \o [i \in 1..m |-> SF!Node(msgs[i], u(i))]
    BY <1>1 DEF SF!Under
  <2> HIDE DEF u
  <2>3. [i \in 1..m |-> SF!Node(x[i], u(i))] = [i \in 1..m |-> SF!Node(msgs[i], u(i))]
    BY <1>4
  <2> QED BY <2>1, <2>2, <2>3
<1> QED BY <1>1, <1>2, <1>3, <1>5 DEF SF!Linear

\* A fork: the path as a tree of its own.
LEMMA ForkedIs ==
  ASSUME NEW t, Climbing(t.nodes), \A n \in 1..Len(t.nodes) : SF!Fits(t.nodes[n]),
         t.at \in 0..Len(t.nodes)
  PROVE  LET f == SF!Forked(t)
         IN  /\ Neat(f.nodes) /\ SF!Blocks(f.nodes) = SF!Blocks(SF!Path(t))
             /\ SF!Blocks(SF!Path(t)) \in Seq(SF!AnyBlock)
             /\ \A filed, whole : TreeOf(f.nodes, f.at, filed, whole)
<1>1. PICK w \in Seq(SF!Anyhow) : w = SF!Path(t)
  <2>1. t.at \in -1..Len(t.nodes)
    BY SeqFrom DEF Climbing
  <2>2. Walk(t.nodes, t.at) \in Seq(SF!Anyhow)
    BY <2>1, WalkType
  <2> QED BY <2>2, PathIs
<1>2. \A i \in 1..Len(w) : SF!Fits(w[i])
  <2>1. t.at \in -1..Len(t.nodes)
    BY SeqFrom DEF Climbing
  <2>2. w = Walk(t.nodes, t.at)
    BY <1>1, PathIs
  <2>3. \A i \in 1..Len(w) : \E k \in 1..Len(t.nodes) : w[i] = t.nodes[k]
    BY <2>1, <2>2, WalkType, SMTT(60)
  <2> QED BY <2>3
<1>3. PICK x \in Seq(Mess) : x = Content(w)
  BY ContentIs
<1>4. Len(x) = Len(w) /\ SF!Blocks(x) = SF!Blocks(w)
  BY <1>3, ContentIs
<1>5. \A i \in 1..Len(x) : SF!Fits(x[i])
  <2>1. \A i \in 1..Len(w) : x[i].role = w[i].role /\ x[i].has = w[i].has
    BY <1>3 DEF Content
  <2> QED BY <1>2, <1>4, <2>1, FitsAlike
<1>6. SF!Forked(t) = SF!Linear(x)
  BY <1>1, <1>3, LinearAny DEF SF!Forked
<1>7. SF!Blocks(w) \in Seq(SF!AnyBlock)
  BY NodesAre, BlocksType
<1>8. LET f == SF!Linear(x)
      IN  /\ Neat(f.nodes) /\ SF!Blocks(f.nodes) = SF!Blocks(x)
          /\ \A filed, whole : TreeOf(f.nodes, f.at, filed, whole)
  BY <1>5, LinearFits
<1> QED BY <1>1, <1>4, <1>6, <1>7, <1>8

\* A path that is whole has all that lasts.
LEMMA PathKeeps ==
  ASSUME NEW t, Climbing(t.nodes), t.at = Len(t.nodes), Spine(t.nodes, t.at, SF!Lasting)
  PROVE  SF!Only(SF!Blocks(SF!Path(t)), SF!Lasting) = SF!Only(SF!Blocks(t.nodes), SF!Lasting)
<1>1. SF!Only(SF!Blocks(Walk(t.nodes, t.at)), SF!Lasting)
        = SF!Only(SF!Blocks(Upto(t.nodes, t.at)), SF!Lasting)
  BY SpineKeeps
<1>2. Upto(t.nodes, t.at) = t.nodes
  BY UptoAll DEF Climbing
<1> QED BY <1>1, <1>2, PathIs

LEMMA NeatGrown ==
  ASSUME NEW nodes, Neat(nodes)
  PROVE  Climbing(nodes) /\ \A n \in 1..Len(nodes) : SF!Fits(nodes[n])
<1>1. \A n \in 1..Len(nodes) : nodes[n].up \in -1..(n - 1)
  BY DEF Neat
<1> QED BY <1>1 DEF Neat, Climbing

\* A new session whose tree has what was told.
LEMMA AdoptKeeps ==
  ASSUME ShelfInv, NEW t, NEW dir \in Places, NEW told \in Seq(SF!AnyBlock),
         NEW filed \in SUBSET {"file", "fork"}, NEW whole,
         Keeps(SF!Blocks(t.nodes), told, filed), TreeOf(t.nodes, t.at, filed, whole),
         SF!Adopt(t, dir, told, filed)
  PROVE  ShelfInv' /\ OpenInv(whole)'
<1>1. PICK id \in SessionNames :
        /\ ~SF!Known(id)
        /\ shelf' = Append(shelf, [id |-> id, cwd |-> dir, told |-> told, filed |-> filed,
                                   rows |-> Content(t.nodes)])
        /\ opened' = [id |-> id, nodes |-> t.nodes, at |-> t.at]
  BY DEF SF!Adopt, Content
<1>2. Neat(t.nodes) /\ t.nodes \in Seq(SF!Anyhow) /\ t.at \in Int
  BY SeqFrom DEF TreeOf, Neat
<1>3. PICK table \in Seq(Mess) : table = Content(t.nodes)
  BY <1>2, ContentIs
<1>4. Len(table) = Len(t.nodes) /\ SF!Blocks(table) = SF!Blocks(t.nodes)
  BY <1>2, <1>3, ContentIs
<1>5. \A i \in 1..Len(table) : SF!Fits(table[i])
  <2>1. \A i \in 1..Len(table) : table[i].role = t.nodes[i].role /\ table[i].has = t.nodes[i].has
    BY <1>3, <1>4 DEF Content
  <2> QED BY <1>2, <1>4, <2>1, FitsAlike DEF Neat
<1>6. PICK s : s = [id |-> id, cwd |-> dir, told |-> told, filed |-> filed, rows |-> table]
  OBVIOUS
<1>7. s \in Shelved
  BY <1>4, <1>5, <1>6 DEF Shelved
<1>8. PICK m \in Nat : m = Len(shelf)
  BY SeqFrom DEF ShelfInv
<1>9. shelf \in Seq(Shelved) /\ shelf' = Append(shelf, s)
  BY <1>1, <1>3, <1>6 DEF ShelfInv
<1>10. /\ shelf' \in Seq(Shelved) /\ Len(shelf') = m + 1 /\ shelf'[m + 1] = s
       /\ \A i \in 1..m : shelf'[i] = shelf[i]
  BY <1>7, <1>8, <1>9
<1>11. \A i \in 1..m : shelf[i].id # id
  BY <1>1, <1>8 DEF SF!Known
<1>12. IdsApart(shelf')
  <2>1. \A i, j \in 1..m : shelf[i].id = shelf[j].id => i = j
    BY <1>8 DEF ShelfInv, IdsApart
  <2>2. s.id = id
    BY <1>6
  <2>3. \A i \in 1..(m + 1) : i = m + 1 \/ i \in 1..m
    OBVIOUS
  <2>4. \A i, j \in 1..(m + 1) : shelf'[i].id = shelf'[j].id => i = j
    BY <1>10, <1>11, <2>1, <2>2, <2>3
  <2> QED BY <1>10, <2>4 DEF IdsApart
<1>13. opened' \in OpenTree /\ opened'.id = id /\ opened'.nodes = t.nodes /\ opened'.at = t.at
  BY <1>1, <1>2 DEF OpenTree
<1>14. m + 1 \in 1..Len(shelf')
  BY <1>8, <1>10
<1>15. shelf'[m + 1].id = id /\ shelf'[m + 1].rows = Content(t.nodes) /\ shelf'[m + 1].filed = filed
  BY <1>3, <1>6, <1>10
<1>16. OpenInv(whole)'
  <2>1. Seen(opened'.nodes, shelf'[m + 1].rows)
    BY <1>3, <1>4, <1>13, <1>15 DEF Seen
  <2> QED BY <1>13, <1>14, <1>15, <2>1 DEF OpenInv
<1> QED BY <1>10, <1>12, <1>16 DEF ShelfInv

\* The open session, and its tree.
LEMMA OpenIs ==
  ASSUME ShelfInv, NEW whole, OpenInv(whole)
  PROVE  /\ SF!At(opened.id) \in 1..Len(shelf) /\ SF!Known(opened.id)
         /\ opened \in OpenTree
         /\ LET s == shelf[SF!At(opened.id)]
            IN  /\ s \in Shelved /\ s.id = opened.id
                /\ whole => s.rows = Content(opened.nodes)
                /\ Seen(opened.nodes, s.rows)
                /\ TreeOf(opened.nodes, opened.at, s.filed, whole)
                /\ whole => Keeps(SF!Blocks(opened.nodes), s.told, s.filed)
<1>1. PICK i \in 1..Len(shelf) :
        /\ shelf[i].id = opened.id
        /\ whole => shelf[i].rows = Content(opened.nodes)
        /\ Seen(opened.nodes, shelf[i].rows)
        /\ TreeOf(opened.nodes, opened.at, shelf[i].filed, whole)
  BY DEF OpenInv
<1>2. SF!At(opened.id) = i /\ SF!Known(opened.id)
  <2>1. SF!At(shelf[i].id) = i /\ SF!Known(shelf[i].id)
    BY AtIs DEF ShelfInv
  <2> QED BY <1>1, <2>1
<1>3. shelf[i] \in Shelved
  BY SeqFrom DEF ShelfInv
<1>4. whole => SF!Blocks(opened.nodes) = SF!Blocks(shelf[i].rows)
  <2>1. opened.nodes \in Seq(SF!Anyhow)
    BY DEF OpenInv, OpenTree
  <2>2. SF!Blocks(Content(opened.nodes)) = SF!Blocks(opened.nodes)
    BY <2>1, ContentIs
  <2> QED BY <1>1, <2>2
<1>5. whole => Keeps(SF!Blocks(opened.nodes), shelf[i].told, shelf[i].filed)
  BY <1>3, <1>4 DEF Shelved
<1>6. opened \in OpenTree
  BY DEF OpenInv
<1> QED BY <1>1, <1>2, <1>3, <1>5, <1>6

\* What is told of the open tree.
LEMMA OpenTold ==
  ASSUME NEW nodes, Neat(nodes), NEW s \in Shelved, NEW part \in BOOLEAN,
         ~part => Keeps(SF!Blocks(nodes), s.told, s.filed),
         NEW told, told = SF!Tale(s, nodes, part)
  PROVE  told \in Seq(SF!AnyBlock) /\ Keeps(SF!Blocks(nodes), told, s.filed)
<1>1. SF!Blocks(nodes) \in Seq(SF!AnyBlock)
  BY NodesAre, BlocksType DEF Neat
<1>2. s.told \in Seq(SF!AnyBlock)
  BY DEF Shelved
<1>3. CASE part
  <2>1. told = SF!Blocks(nodes)
    BY <1>3 DEF SF!Tale
  <2> QED BY <1>1, <2>1 DEF Keeps
<1>4. CASE ~part
  <2>1. told = s.told
    BY <1>4 DEF SF!Tale
  <2> QED BY <1>2, <1>4, <2>1
<1> QED BY <1>3, <1>4

LEMMA SessionTyped ==
  \A s \in Shelved : /\ s.told \in Seq(SF!AnyBlock) /\ s.filed \in SUBSET {"file", "fork"}
                      /\ s.rows \in Seq(Mess) /\ s.id \in SessionNames
                      /\ \A i \in 1..Len(s.rows) : SF!Fits(s.rows[i])
                      /\ Keeps(SF!Blocks(s.rows), s.told, s.filed)
BY DEF Shelved

LEMMA SessionKeeps == \A s \in Shelved : Keeps(SF!Blocks(s.rows), s.told, s.filed)
BY DEF Shelved

\* The file, as it is read.
LEMMA PageIs ==
  ASSUME NEW whole, PageInv(whole)
  PROVE  LET t == SF!Read(jsonl.lines)
         IN  /\ Climbing(t.nodes) /\ \A n \in 1..Len(t.nodes) : SF!Fits(t.nodes[n])
             /\ t.at \in {0, Len(t.nodes)}
             /\ jsonl.told \in Seq(SF!AnyBlock) /\ jsonl.filed \in SUBSET {"file", "fork"}
             /\ Keeps(SF!Blocks(t.nodes), jsonl.told, jsonl.filed)
             /\ whole /\ t.at # 0 => t.at = Len(t.nodes) /\ Spine(t.nodes, t.at, SF!Lasting)
<1>1. PICK lines \in Seq(SF!Anyhow) : lines = jsonl.lines
  BY DEF PageInv, SF!Telling
<1>2. PICK p \in Seq(SF!Anyhow) : p = SF!Read(lines).nodes
  BY ReadAre
<1>3. Len(p) = Len(lines) /\ \A l \in 1..Len(lines) : p[l].up = lines[l].up
  BY <1>2, ReadAre
<1>4. /\ \A l \in 1..Len(lines) : lines[l].up \in -1..(l - 1) /\ SF!Fits(p[l])
      /\ jsonl.told \in Seq(SF!AnyBlock) /\ jsonl.filed \in SUBSET {"file", "fork"}
      /\ "file" \in jsonl.filed
      /\ SF!Only(SF!Blocks(p), SF!Lasting) = SF!Only(jsonl.told, SF!Lasting)
      /\ "fork" \notin jsonl.filed => SF!OfKind(SF!Blocks(p), {"result"}) = SF!OfKind(jsonl.told, {"result"})
  BY <1>1, <1>2 DEF PageInv, SF!Telling
<1>5. Climbing(p) /\ \A n \in 1..Len(p) : SF!Fits(p[n])
  BY <1>3, <1>4 DEF Climbing
<1>6. SF!Read(lines).at \in {0, Len(p)}
  BY <1>3 DEF SF!Read
<1>7. Keeps(SF!Blocks(p), jsonl.told, jsonl.filed)
  <2>1. \A x : SF!OfKind(x, {"result"}) = SF!Only(x, ResultBlocks)
    BY OfKindIs DEF ResultBlocks
  <2> QED BY <1>4, <2>1 DEF Keeps
<1>8. ASSUME whole, SF!Read(lines).at # 0
      PROVE  SF!Read(lines).at = Len(p) /\ Spine(p, SF!Read(lines).at, SF!Lasting)
  <2>1. Spine(p, Len(lines), SF!Lasting)
    BY <1>1, <1>2, <1>8 DEF PageInv
  <2> QED BY <1>3, <1>6, <1>8, <2>1
<1> QED BY <1>1, <1>2, <1>4, <1>5, <1>6, <1>7, <1>8

LEMMA ImportKeeps ==
  ASSUME ShelfInv, NEW whole, PageInv(whole), NEW dir \in Places,
         NEW c \in SF!Copies(SF!Read(jsonl.lines)), NEW now,
         now => whole /\ SF!Read(jsonl.lines).at # 0,
         SF!Adopt(c, dir, jsonl.told, jsonl.filed)
  PROVE  ShelfInv' /\ OpenInv(now)'
<1>1. PICK t : t = SF!Read(jsonl.lines)
  OBVIOUS
<1>2. /\ Climbing(t.nodes) /\ \A n \in 1..Len(t.nodes) : SF!Fits(t.nodes[n])
      /\ t.at \in {0, Len(t.nodes)}
      /\ jsonl.told \in Seq(SF!AnyBlock) /\ jsonl.filed \in SUBSET {"file", "fork"}
      /\ Keeps(SF!Blocks(t.nodes), jsonl.told, jsonl.filed)
      /\ whole /\ t.at # 0 => t.at = Len(t.nodes) /\ Spine(t.nodes, t.at, SF!Lasting)
  BY <1>1, PageIs
<1>3. t.at \in 0..Len(t.nodes) /\ c \in SF!Copies(t)
  <2>1. Len(t.nodes) \in Nat
    BY <1>2, SeqFrom DEF Climbing
  <2> QED BY <1>1, <1>2, <2>1
<1>4. /\ Neat(c.nodes) /\ c.at \in 0..Len(c.nodes) /\ Len(c.nodes) = Len(t.nodes)
      /\ Content(c.nodes) = Content(t.nodes)
      /\ t.at # 0 => c.at = t.at
  BY <1>2, <1>3, CopiesAre
<1>5. SF!Blocks(c.nodes) = SF!Blocks(t.nodes)
  <2>1. c.nodes \in Seq(SF!Anyhow) /\ t.nodes \in Seq(SF!Anyhow)
    BY <1>2, <1>4 DEF Neat, Climbing
  <2>2. SF!Blocks(Content(c.nodes)) = SF!Blocks(c.nodes) /\ SF!Blocks(Content(t.nodes)) = SF!Blocks(t.nodes)
    BY <2>1, ContentIs
  <2> QED BY <1>4, <2>2
<1>7. ASSUME now PROVE c.at = Len(c.nodes) /\ Spine(c.nodes, c.at, SF!Lasting)
  <2>1. t.at # 0 /\ t.at = Len(t.nodes) /\ Spine(t.nodes, t.at, SF!Lasting)
    BY <1>1, <1>2, <1>7
  <2>2. Spine(c.nodes, c.at, SF!Lasting)
    BY <1>2, <1>3, <2>1, CopySpine
  <2> QED BY <1>4, <2>1, <2>2
<1>8. jsonl.filed # {}
  BY DEF PageInv, SF!Telling
<1>9. TreeOf(c.nodes, c.at, jsonl.filed, now)
  BY <1>4, <1>7, <1>8 DEF TreeOf
<1>10. Keeps(SF!Blocks(c.nodes), jsonl.told, jsonl.filed)
  BY <1>2, <1>5
<1>11. PICK told \in Seq(SF!AnyBlock), filed \in SUBSET {"file", "fork"} :
         told = jsonl.told /\ filed = jsonl.filed
  BY <1>2
<1> QED BY <1>9, <1>10, <1>11, AdoptKeeps

LEMMA StoryNow ==
  ASSUME StoryInv
  PROVE  \E a, b \in BOOLEAN : /\ a = ("open" \notin short) /\ b = ("page" \notin short)
                               /\ ShelfInv /\ OpenInv(a) /\ PageInv(b)
<1>1. PICK a \in BOOLEAN : a = ("open" \notin short)
  <2>1. ("open" \notin short) \in BOOLEAN
    BY SMT
  <2> QED BY <2>1
<1>2. PICK b \in BOOLEAN : b = ("page" \notin short)
  <2>1. ("page" \notin short) \in BOOLEAN
    BY SMT
  <2> QED BY <2>1
<1>3. ShelfInv /\ OpenInv(a) /\ PageInv(b)
  BY <1>1, <1>2 DEF StoryInv
<1> QED BY <1>1, <1>2, <1>3

LEMMA StoryThen ==
  ASSUME NEW a \in BOOLEAN, NEW b \in BOOLEAN, a = ("open" \notin short'), b = ("page" \notin short'),
         ShelfInv', OpenInv(a)', PageInv(b)'
  PROVE  StoryInv'
<1>1. OpenInv("open" \notin short)'
  BY DEF OpenInv
<1>2. PageInv("page" \notin short)'
  BY DEF PageInv
<1> QED BY <1>1, <1>2 DEF StoryInv

LEMMA PageSame ==
  ASSUME NEW a, NEW b, PageInv(a), b => a, UNCHANGED jsonl
  PROVE  PageInv(b)'
BY DEF PageInv

LEMMA NewSessionStep ==
  ASSUME StoryInv, NEW dir \in Places, SF!NewSession(dir)
  PROVE  StoryInv'
<1>1. PICK a, b \in BOOLEAN : /\ a = ("open" \notin short) /\ b = ("page" \notin short)
                              /\ ShelfInv /\ OpenInv(a) /\ PageInv(b)
  BY StoryNow
<1>2. /\ SF!Adopt(SF!Linear(<<>>), dir, <<>>, {}) /\ short' = short \ {"open"}
      /\ UNCHANGED jsonl
  BY DEF SF!NewSession, SF!Cut
<1>3. PICK e \in Seq(Mess) : e = <<>> /\ Len(e) = 0
  BY EmptySeq
<1>4. PICK t : t = SF!Linear(e)
  OBVIOUS
<1>5. SF!Blocks(t.nodes) = <<>> /\ \A filed, whole : TreeOf(t.nodes, t.at, filed, whole)
  <2>1. \A i \in 1..Len(e) : SF!Fits(e[i])
    BY <1>3
  <2>2. SF!Blocks(e) = <<>>
    BY <1>3, BlocksNone
  <2> QED BY <1>4, <2>1, <2>2, LinearFits
<1>6. PICK told \in Seq(SF!AnyBlock), filed \in SUBSET {"file", "fork"} : told = <<>> /\ filed = {}
  BY EmptySeq
<1>7. Keeps(SF!Blocks(t.nodes), told, filed)
  BY <1>5, <1>6 DEF Keeps
<1>8. TreeOf(t.nodes, t.at, filed, TRUE)
  BY <1>5
<1>9. ShelfInv' /\ OpenInv(TRUE)'
  <2>1. SF!Adopt(t, dir, told, filed)
    BY <1>2, <1>3, <1>4, <1>6
  <2> QED BY <1>1, <1>7, <1>8, <2>1, AdoptKeeps
<1>10. PageInv(b)' /\ b = ("page" \notin short') /\ TRUE = ("open" \notin short')
  BY <1>1, <1>2, PageSame
<1> QED BY <1>9, <1>10, StoryThen

LEMMA ImportStep ==
  ASSUME StoryInv, NEW dir \in Places, SF!Import(dir)
  PROVE  StoryInv'
<1>1. PICK a, b \in BOOLEAN : /\ a = ("open" \notin short) /\ b = ("page" \notin short)
                              /\ ShelfInv /\ OpenInv(a) /\ PageInv(b)
  BY StoryNow
<1>2. PICK c \in SF!Copies(SF!Read(jsonl.lines)) : SF!Adopt(c, dir, jsonl.told, jsonl.filed)
  BY DEF SF!Import
<1>3. short' = IF SF!Read(jsonl.lines).at = 0 \/ "page" \in short THEN short \cup {"open"} ELSE short \ {"open"}
  BY DEF SF!Import, SF!Cut
<1>4. UNCHANGED jsonl
  BY DEF SF!Import
<1>5. PICK now \in BOOLEAN : now = ("open" \notin short')
  <2>1. ("open" \notin short') \in BOOLEAN
    BY SMT
  <2> QED BY <2>1
<1>6. now => b /\ SF!Read(jsonl.lines).at # 0
  BY <1>1, <1>3, <1>5
<1>7. ShelfInv' /\ OpenInv(now)'
  BY <1>1, <1>2, <1>6, ImportKeeps
<1>8. PageInv(b)'
  BY <1>1, <1>4, PageSame
<1>9. b = ("page" \notin short')
  BY <1>1, <1>3
<1> QED BY <1>5, <1>7, <1>8, <1>9, StoryThen

LEMMA ForkFileStep ==
  ASSUME StoryInv, NEW dir \in Places, SF!ForkFile(dir)
  PROVE  StoryInv'
<1>1. PICK a, b \in BOOLEAN : /\ a = ("open" \notin short) /\ b = ("page" \notin short)
                              /\ ShelfInv /\ OpenInv(a) /\ PageInv(b)
  BY StoryNow
<1>2. PICK t : t = SF!Read(jsonl.lines)
  OBVIOUS
<1>3. PICK told : told = IF t.at = 0 \/ "page" \in short THEN SF!Blocks(SF!Path(t)) ELSE jsonl.told
  OBVIOUS
<1>4. PICK filed : filed = {"fork"} \cup jsonl.filed
  OBVIOUS
<1>5. SF!Adopt(SF!Forked(t), dir, told, filed) /\ short' = short \ {"open"} /\ UNCHANGED jsonl
  BY <1>2, <1>3, <1>4 DEF SF!ForkFile, SF!Cut
<1>6. /\ Climbing(t.nodes) /\ \A n \in 1..Len(t.nodes) : SF!Fits(t.nodes[n])
      /\ t.at \in {0, Len(t.nodes)}
      /\ jsonl.told \in Seq(SF!AnyBlock) /\ jsonl.filed \in SUBSET {"file", "fork"}
      /\ Keeps(SF!Blocks(t.nodes), jsonl.told, jsonl.filed)
      /\ b /\ t.at # 0 => t.at = Len(t.nodes) /\ Spine(t.nodes, t.at, SF!Lasting)
  BY <1>1, <1>2, PageIs
<1>7. t.at \in 0..Len(t.nodes)
  <2>1. Len(t.nodes) \in Nat
    BY <1>6, SeqFrom DEF Climbing
  <2> QED BY <1>6, <2>1
<1>8. PICK f : f = SF!Forked(t)
  OBVIOUS
<1>9. /\ SF!Blocks(f.nodes) = SF!Blocks(SF!Path(t)) /\ SF!Blocks(SF!Path(t)) \in Seq(SF!AnyBlock)
      /\ \A x, whole : TreeOf(f.nodes, f.at, x, whole)
  BY <1>6, <1>7, <1>8, ForkedIs
<1>10. told \in Seq(SF!AnyBlock) /\ filed \in SUBSET {"file", "fork"}
  BY <1>3, <1>4, <1>6, <1>9
<1>11. Keeps(SF!Blocks(f.nodes), told, filed)
  <2>1. SF!Only(SF!Blocks(f.nodes), SF!Lasting) = SF!Only(told, SF!Lasting)
    <3>1. CASE t.at = 0 \/ "page" \in short
      BY <1>3, <1>9, <3>1
    <3>2. CASE ~(t.at = 0 \/ "page" \in short)
      <4>1. t.at = Len(t.nodes) /\ Spine(t.nodes, t.at, SF!Lasting) /\ told = jsonl.told
        BY <1>1, <1>3, <1>6, <3>2
      <4>2. SF!Only(SF!Blocks(SF!Path(t)), SF!Lasting) = SF!Only(SF!Blocks(t.nodes), SF!Lasting)
        BY <1>6, <4>1, PathKeeps
      <4>3. SF!Only(SF!Blocks(t.nodes), SF!Lasting) = SF!Only(jsonl.told, SF!Lasting)
        BY <1>6 DEF Keeps
      <4> QED BY <1>9, <4>1, <4>2, <4>3
    <3> QED BY <3>1, <3>2
  <2>2. "fork" \in filed
    BY <1>4
  <2> QED BY <2>1, <2>2 DEF Keeps
<1>12. ShelfInv' /\ OpenInv(TRUE)'
  <2>1. TreeOf(f.nodes, f.at, filed, TRUE)
    BY <1>9
  <2>2. SF!Adopt(f, dir, told, filed)
    BY <1>5, <1>8
  <2> QED BY <1>1, <1>10, <1>11, <2>1, <2>2, AdoptKeeps
<1>13. PageInv(b)' /\ b = ("page" \notin short') /\ TRUE = ("open" \notin short')
  BY <1>1, <1>5, PageSame
<1> QED BY <1>12, <1>13, StoryThen

LEMMA CloneStep ==
  ASSUME StoryInv, NEW dir \in Places, SF!Clone(dir)
  PROVE  StoryInv'
<1>1. PICK a, b \in BOOLEAN : /\ a = ("open" \notin short) /\ b = ("page" \notin short)
                              /\ ShelfInv /\ OpenInv(a) /\ PageInv(b)
  BY StoryNow
<1>2. PICK s : s = shelf[SF!At(opened.id)]
  OBVIOUS
<1>3. PICK c \in SF!Copies(opened) :
        SF!Adopt(c, dir, SF!Tale(s, opened.nodes, "open" \in short), s.filed)
  BY <1>2 DEF SF!Clone
<1>4. UNCHANGED jsonl /\ UNCHANGED short
  BY DEF SF!Clone
<1>5. /\ s \in Shelved /\ TreeOf(opened.nodes, opened.at, s.filed, a)
      /\ a => Keeps(SF!Blocks(opened.nodes), s.told, s.filed)
  BY <1>1, <1>2, OpenIs
<1>6. Neat(opened.nodes) /\ opened.at \in 0..Len(opened.nodes)
      /\ (a => opened.at = Len(opened.nodes) /\ Spine(opened.nodes, opened.at, SF!Lasting))
      /\ (s.filed = {} => Straight(opened.nodes, opened.at))
  BY <1>5 DEF TreeOf
<1>7. Climbing(opened.nodes) /\ \A n \in 1..Len(opened.nodes) : SF!Fits(opened.nodes[n])
  BY <1>6, NeatGrown
<1>8. /\ Neat(c.nodes) /\ c.at \in 0..Len(c.nodes) /\ Len(c.nodes) = Len(opened.nodes)
      /\ Len(c.nodes) # 0
      /\ Content(c.nodes) = Content(opened.nodes)
      /\ opened.at # 0 => c.at = opened.at
  BY <1>6, <1>7, CopiesAre
<1>9. a => c.at = Len(c.nodes) /\ Spine(c.nodes, c.at, SF!Lasting)
  <2> SUFFICES ASSUME a PROVE c.at = Len(c.nodes) /\ Spine(c.nodes, c.at, SF!Lasting)
    OBVIOUS
  <2>1. opened.at # 0 /\ c.at = Len(c.nodes) /\ Spine(opened.nodes, opened.at, SF!Lasting)
    BY <1>6, <1>8
  <2> QED BY <1>6, <1>7, <2>1, CopySpine
<1>10. s.filed = {} => Straight(c.nodes, c.at)
  BY <1>6, <1>7, CopyStraight
<1>11. TreeOf(c.nodes, c.at, s.filed, a)
  BY <1>8, <1>9, <1>10 DEF TreeOf
<1>12. SF!Blocks(c.nodes) = SF!Blocks(opened.nodes)
  <2>1. c.nodes \in Seq(SF!Anyhow) /\ opened.nodes \in Seq(SF!Anyhow)
    BY <1>6, <1>8 DEF Neat
  <2>2. /\ SF!Blocks(Content(c.nodes)) = SF!Blocks(c.nodes)
        /\ SF!Blocks(Content(opened.nodes)) = SF!Blocks(opened.nodes)
    BY <2>1, ContentIs
  <2> QED BY <1>8, <2>2
<1>13. PICK told \in Seq(SF!AnyBlock), filed \in SUBSET {"file", "fork"} :
         /\ told = SF!Tale(s, opened.nodes, "open" \in short) /\ filed = s.filed
         /\ Keeps(SF!Blocks(opened.nodes), told, s.filed)
  <2>1. PICK part \in BOOLEAN : part = ("open" \in short)
    <3>1. ("open" \in short) \in BOOLEAN
      BY SMT
    <3> QED BY <3>1
  <2>2. PICK told : told = SF!Tale(s, opened.nodes, part)
    OBVIOUS
  <2>3. ~part => Keeps(SF!Blocks(opened.nodes), s.told, s.filed)
    BY <1>1, <1>5, <2>1
  <2>4. told \in Seq(SF!AnyBlock) /\ Keeps(SF!Blocks(opened.nodes), told, s.filed)
    BY <1>5, <1>6, <2>2, <2>3, OpenTold
  <2>5. s.filed \in SUBSET {"file", "fork"}
    BY <1>5, SessionTyped
  <2> QED BY <2>1, <2>2, <2>4, <2>5
<1>14. ShelfInv' /\ OpenInv(a)'
  <2>1. Keeps(SF!Blocks(c.nodes), told, filed) /\ TreeOf(c.nodes, c.at, filed, a)
    BY <1>11, <1>12, <1>13
  <2>2. SF!Adopt(c, dir, told, filed)
    BY <1>3, <1>13
  <2> QED BY <1>1, <2>1, <2>2, AdoptKeeps
<1>15. PageInv(b)' /\ b = ("page" \notin short') /\ a = ("open" \notin short')
  BY <1>1, <1>4, PageSame
<1> QED BY <1>14, <1>15, StoryThen

\* The path of an open tree that has all that was told, or of what is left of it.
LEMMA ForkKeeps ==
  ASSUME ShelfInv, NEW t, NEW s \in Shelved, NEW dir \in Places, NEW whole \in BOOLEAN,
         TreeOf(t.nodes, t.at, s.filed, whole),
         whole => Keeps(SF!Blocks(t.nodes), s.told, s.filed),
         NEW told, told = IF whole THEN s.told ELSE SF!Blocks(SF!Path(t)),
         NEW filed, filed = s.filed \cup IF s.filed = {} THEN {} ELSE {"fork"},
         SF!Adopt(SF!Forked(t), dir, told, filed)
  PROVE  ShelfInv' /\ OpenInv(TRUE)'
<1>1. /\ Neat(t.nodes) /\ t.at \in 0..Len(t.nodes)
      /\ whole => t.at = Len(t.nodes) /\ Spine(t.nodes, t.at, SF!Lasting)
      /\ s.filed = {} => Straight(t.nodes, t.at)
  BY DEF TreeOf
<1>2. Climbing(t.nodes) /\ \A n \in 1..Len(t.nodes) : SF!Fits(t.nodes[n])
  BY <1>1, NeatGrown
<1>3. PICK f : f = SF!Forked(t)
  OBVIOUS
<1>4. /\ SF!Blocks(f.nodes) = SF!Blocks(SF!Path(t)) /\ SF!Blocks(SF!Path(t)) \in Seq(SF!AnyBlock)
      /\ \A x, w : TreeOf(f.nodes, f.at, x, w)
  BY <1>1, <1>2, <1>3, ForkedIs
<1>5. s.told \in Seq(SF!AnyBlock) /\ s.filed \in SUBSET {"file", "fork"}
  BY SessionTyped
<1>6. told \in Seq(SF!AnyBlock) /\ filed \in SUBSET {"file", "fork"}
  BY <1>4, <1>5
<1>7. SF!Only(SF!Blocks(f.nodes), SF!Lasting) = SF!Only(told, SF!Lasting)
  <2>1. CASE whole
    <3>1. SF!Only(SF!Blocks(SF!Path(t)), SF!Lasting) = SF!Only(SF!Blocks(t.nodes), SF!Lasting)
      BY <1>1, <1>2, <2>1, PathKeeps
    <3>2. SF!Only(SF!Blocks(t.nodes), SF!Lasting) = SF!Only(s.told, SF!Lasting)
      BY <2>1 DEF Keeps
    <3> QED BY <1>4, <2>1, <3>1, <3>2
  <2>2. CASE ~whole
    BY <1>4, <2>2
  <2> QED BY <2>1, <2>2
<1>8. ASSUME s.filed = {} PROVE SF!Blocks(f.nodes) = told
  <2>1. SF!Blocks(Walk(t.nodes, t.at)) = SF!Blocks(t.nodes)
    BY <1>1, <1>8, StraightPath DEF Neat
  <2>2. whole => SF!Blocks(t.nodes) = s.told
    BY <1>8 DEF Keeps
  <2>3. SF!Path(t) = Walk(t.nodes, t.at)
    BY PathIs
  <2> QED BY <1>4, <2>1, <2>2, <2>3
<1>9. Keeps(SF!Blocks(f.nodes), told, filed)
  <2>1. CASE s.filed = {}
    BY <1>8, <2>1 DEF Keeps
  <2>2. CASE s.filed # {}
    BY <1>7, <2>2 DEF Keeps
  <2> QED BY <2>1, <2>2
<1>10. TreeOf(f.nodes, f.at, filed, TRUE) /\ SF!Adopt(f, dir, told, filed)
  BY <1>3, <1>4
<1> QED BY <1>6, <1>9, <1>10, AdoptKeeps

LEMMA ForkStep ==
  ASSUME StoryInv, NEW dir \in Places, SF!Fork(dir)
  PROVE  StoryInv'
<1>1. PICK a, b \in BOOLEAN : /\ a = ("open" \notin short) /\ b = ("page" \notin short)
                              /\ ShelfInv /\ OpenInv(a) /\ PageInv(b)
  BY StoryNow
<1>2. PICK s : s = shelf[SF!At(opened.id)]
  OBVIOUS
<1>3. PICK told : told = IF a THEN s.told ELSE SF!Blocks(SF!Path(opened))
  OBVIOUS
<1>4. PICK filed : filed = s.filed \cup IF s.filed = {} THEN {} ELSE {"fork"}
  OBVIOUS
<1>5. SF!Adopt(SF!Forked(opened), dir, told, filed) /\ short' = short \ {"open"} /\ UNCHANGED jsonl
  <2>1. told = SF!Tale(s, SF!Path(opened), "open" \in short)
    BY <1>1, <1>3 DEF SF!Tale
  <2> QED BY <1>2, <1>4, <2>1 DEF SF!Fork, SF!Cut
<1>6. /\ s \in Shelved /\ TreeOf(opened.nodes, opened.at, s.filed, a)
      /\ a => Keeps(SF!Blocks(opened.nodes), s.told, s.filed)
  BY <1>1, <1>2, OpenIs
<1>7. PICK t : t = opened
  OBVIOUS
<1>8. ShelfInv' /\ OpenInv(TRUE)'
  BY <1>1, <1>3, <1>4, <1>5, <1>6, <1>7, ForkKeeps
<1>9. PageInv(b)' /\ b = ("page" \notin short') /\ TRUE = ("open" \notin short')
  BY <1>1, <1>5, PageSame
<1> QED BY <1>8, <1>9, StoryThen

\* The first rows of a session.
LEMMA FirstRows ==
  ASSUME NEW rows \in Seq(Mess), \A i \in 1..Len(rows) : SF!Fits(rows[i]), NEW most \in Nat,
         NEW first, first = [i \in 1..(IF Len(rows) < most THEN Len(rows) ELSE most) |-> rows[i]]
  PROVE  /\ first \in Seq(Mess) /\ \A i \in 1..Len(first) : SF!Fits(first[i])
         /\ Seen(first, rows)
         /\ ~(Len(rows) > most) => first = rows
<1>1. PICK n \in Nat : n = IF Len(rows) < most THEN Len(rows) ELSE most
  BY SeqFrom
<1>2. PICK m \in Nat : m = Len(rows) /\ rows \in [1..m -> Mess]
  BY SeqFrom
<1>3. n <= m /\ first = [i \in 1..n |-> rows[i]]
  <2>1. n <= m
    <3>1. m = Len(rows)
      BY <1>2
    <3> HIDE DEF Mess
    <3> QED BY <1>1, <3>1
  <2>2. (IF Len(rows) < most THEN Len(rows) ELSE most) = n
    BY <1>1
  <2>3. first = [i \in 1..n |-> rows[i]]
    BY <2>2, Zenon
  <2> QED BY <2>1, <2>3
<1>4. first \in [1..n -> Mess]
  <2>1. \A i \in 1..n : i \in 1..m
    BY <1>3
  <2>2. \A i \in 1..n : rows[i] \in Mess
    BY <1>2, <2>1
  <2> QED BY <1>3, <2>2, Zenon
<1>5. first \in Seq(Mess) /\ Len(first) = n
  BY <1>4, InSeq
<1>6. \A i \in 1..n : i \in 1..m /\ first[i] = rows[i]
  BY <1>3
<1>7. \A i \in 1..Len(first) : SF!Fits(first[i])
  BY <1>2, <1>5, <1>6
<1>8. Seen(first, rows)
  <2> SUFFICES ASSUME NEW x \in SF!ToSet(SF!Blocks(first)) PROVE x \in SF!ToSet(SF!Blocks(rows))
    BY DEF Seen
  <2>1. PICK i \in 1..Len(first) : x \in SF!ToSet(first[i].has)
    BY <1>5, MessAre, BlocksHas
  <2>2. i \in 1..Len(rows) /\ x \in SF!ToSet(rows[i].has)
    BY <1>2, <1>5, <1>6, <2>1
  <2> QED BY <2>2, MessAre, BlocksHas
<1>9. ASSUME ~(Len(rows) > most) PROVE first = rows
  <2>1. n = m
    <3>1. m = Len(rows)
      BY <1>2
    <3> QED BY <1>1, <1>9, <3>1
  <2>2. first = [i \in 1..m |-> rows[i]]
    BY <1>3, <2>1, Zenon
  <2>3. rows = [i \in 1..m |-> rows[i]]
    BY <1>2, Zenon
  <2> QED BY <2>2, <2>3, Zenon
<1> QED BY <1>5, <1>7, <1>8, <1>9

\* A session of the table, as a tree.
LEMMA FromTableIs ==
  ASSUME ShelfInv, NEW id, SF!Known(id), NEW most \in Nat
  PROVE  LET t == SF!FromTable(id, most)
             s == shelf[SF!At(id)]
         IN  /\ Neat(t.nodes) /\ Straight(t.nodes, t.at) /\ t.at \in 0..Len(t.nodes)
             /\ Seen(t.nodes, s.rows)
             /\ ~SF!TooLong(id, most) => Content(t.nodes) = s.rows
             /\ ~SF!TooLong(id, most) => Keeps(SF!Blocks(t.nodes), s.told, s.filed)
             /\ \A filed, whole : TreeOf(t.nodes, t.at, filed, whole)
             /\ SF!At(id) \in 1..Len(shelf) /\ s.id = id /\ s \in Shelved /\ id \in SessionNames
<1>1. PICK s : s = shelf[SF!At(id)]
  OBVIOUS
<1>2. SF!At(id) \in 1..Len(shelf) /\ s.id = id /\ s \in Shelved
  BY <1>1, KnownIs
<1>3. s.rows \in Seq(Mess) /\ (\A i \in 1..Len(s.rows) : SF!Fits(s.rows[i])) /\ s.id \in SessionNames
  BY <1>2, SessionTyped
<1>4. PICK t : t = SF!FromTable(id, most)
  OBVIOUS
<1>5. PICK first : first = [i \in 1..(IF Len(s.rows) < most THEN Len(s.rows) ELSE most) |-> s.rows[i]]
  OBVIOUS
<1>6. t = SF!Linear(first)
  BY <1>1, <1>4, <1>5 DEF SF!FromTable
<1>7. /\ first \in Seq(Mess) /\ \A i \in 1..Len(first) : SF!Fits(first[i])
      /\ Seen(first, s.rows)
      /\ ~(Len(s.rows) > most) => first = s.rows
  BY <1>3, <1>5, FirstRows
<1>8. /\ Neat(t.nodes) /\ Straight(t.nodes, t.at) /\ t.at \in 0..Len(t.nodes)
      /\ Content(t.nodes) = first /\ SF!Blocks(t.nodes) = SF!Blocks(first)
      /\ \A filed, whole : TreeOf(t.nodes, t.at, filed, whole)
  BY <1>6, <1>7, LinearFits
<1>9. SF!TooLong(id, most) = (Len(s.rows) > most)
  BY <1>1 DEF SF!TooLong
<1>10. Seen(t.nodes, s.rows)
  BY <1>7, <1>8 DEF Seen
<1>11. ASSUME ~SF!TooLong(id, most) PROVE Keeps(SF!Blocks(t.nodes), s.told, s.filed)
  <2>1. Keeps(SF!Blocks(s.rows), s.told, s.filed)
    BY <1>2, SessionKeeps, Zenon
  <2>2. first = s.rows
    BY <1>7, <1>9, <1>11
  <2> QED BY <1>8, <2>1, <2>2
<1> QED BY <1>1, <1>2, <1>3, <1>4, <1>7, <1>8, <1>9, <1>10, <1>11

\* The limits are numbers.
LEMMA Limits == ASSUME FileAssumed PROVE FileReadMax \in Nat /\ ResumeReadMax \in Nat
BY DEF FileAssumed, SF!SessionFileAssumption

LEMMA BegunKnown ==
  ASSUME NEW ref, NEW most, NEW id \in SF!Begun(ref, most)
  PROVE  SF!Known(id)
<1>1. id \in SF!Newest(shelf, most)
  BY DEF SF!Begun
<1> QED BY <1>1 DEF SF!Newest, SF!Known

LEMMA ResolveKnown ==
  ASSUME NEW ref, NEW id \in SF!Resolve(ref), ShelfInv
  PROVE  SF!Known(id)
<1>1. CASE SF!Known(ref)
  BY <1>1 DEF SF!Resolve
<1>2. CASE ~SF!Known(ref)
  <2>1. id \in SF!Begun(ref, ListMax)
    BY <1>2 DEF SF!Resolve
  <2> QED BY <2>1, BegunKnown
<1> QED BY <1>1, <1>2

LEMMA LatestKnown ==
  ASSUME NEW dir, NEW id \in SF!Latest(dir)
  PROVE  SF!Known(id)
BY DEF SF!Latest, SF!Known

LEMMA ForkStoredStep ==
  ASSUME FileAssumed, StoryInv, NEW ref, NEW dir \in Places, SF!ForkStored(ref, dir)
  PROVE  StoryInv'
<1>1. PICK a, b \in BOOLEAN : /\ a = ("open" \notin short) /\ b = ("page" \notin short)
                              /\ ShelfInv /\ OpenInv(a) /\ PageInv(b)
  BY StoryNow
<1>2. PICK id \in SF!Resolve(ref) :
        SF!Adopt(SF!Forked(SF!FromTable(id, FileReadMax)), dir,
                 SF!Tale(shelf[SF!At(id)], SF!FromTable(id, FileReadMax).nodes,
                         SF!TooLong(id, FileReadMax)),
                 shelf[SF!At(id)].filed)
  BY DEF SF!ForkStored
<1>3. short' = short \ {"open"} /\ UNCHANGED jsonl
  BY DEF SF!ForkStored, SF!Cut
<1>4. SF!Known(id)
  BY <1>1, ResolveKnown
<1>5. PICK s : s = shelf[SF!At(id)]
  OBVIOUS
<1>6. PICK t : t = SF!FromTable(id, FileReadMax)
  OBVIOUS
<1>7. /\ Neat(t.nodes) /\ Straight(t.nodes, t.at) /\ t.at \in 0..Len(t.nodes)
      /\ ~SF!TooLong(id, FileReadMax) => Keeps(SF!Blocks(t.nodes), s.told, s.filed)
      /\ s \in Shelved
  BY <1>1, <1>4, <1>5, <1>6, FromTableIs, Limits
<1>8. Climbing(t.nodes) /\ \A n \in 1..Len(t.nodes) : SF!Fits(t.nodes[n])
  BY <1>7, NeatGrown
<1>9. PICK f : f = SF!Forked(t)
  OBVIOUS
<1>10. SF!Blocks(f.nodes) = SF!Blocks(SF!Path(t)) /\ \A x, w : TreeOf(f.nodes, f.at, x, w)
  BY <1>7, <1>8, <1>9, ForkedIs
<1>11. SF!Blocks(SF!Path(t)) = SF!Blocks(t.nodes)
  <2>1. SF!Blocks(Walk(t.nodes, t.at)) = SF!Blocks(t.nodes)
    BY <1>7, StraightPath DEF Neat
  <2> QED BY <2>1, PathIs
<1>12. PICK told \in Seq(SF!AnyBlock), filed \in SUBSET {"file", "fork"} :
         /\ told = SF!Tale(s, t.nodes, SF!TooLong(id, FileReadMax)) /\ filed = s.filed
         /\ Keeps(SF!Blocks(t.nodes), told, s.filed)
  <2>1. PICK part \in BOOLEAN : part = SF!TooLong(id, FileReadMax)
    <3>1. SF!TooLong(id, FileReadMax) \in BOOLEAN
      BY SMT DEF SF!TooLong
    <3> QED BY <3>1
  <2>2. PICK told : told = SF!Tale(s, t.nodes, part)
    OBVIOUS
  <2>3. told \in Seq(SF!AnyBlock) /\ Keeps(SF!Blocks(t.nodes), told, s.filed)
    BY <1>7, <2>1, <2>2, OpenTold
  <2>4. s.filed \in SUBSET {"file", "fork"}
    BY <1>7, SessionTyped
  <2> QED BY <2>1, <2>2, <2>3, <2>4
<1>13. Keeps(SF!Blocks(f.nodes), told, filed)
  BY <1>10, <1>11, <1>12
<1>14. ShelfInv' /\ OpenInv(TRUE)'
  <2>1. TreeOf(f.nodes, f.at, filed, TRUE)
    BY <1>10
  <2>2. SF!Adopt(f, dir, told, filed)
    BY <1>2, <1>5, <1>6, <1>9, <1>12
  <2> QED BY <1>1, <1>13, <2>1, <2>2, AdoptKeeps
<1>15. PageInv(b)' /\ b = ("page" \notin short') /\ TRUE = ("open" \notin short')
  BY <1>1, <1>3, PageSame
<1> QED BY <1>14, <1>15, StoryThen

LEMMA ReopenStep ==
  ASSUME StoryInv, NEW ids, \A id \in ids : SF!Known(id), NEW most \in Nat,
         SF!Reopen(ids, most)
  PROVE  StoryInv'
<1>1. PICK a, b \in BOOLEAN : /\ a = ("open" \notin short) /\ b = ("page" \notin short)
                              /\ ShelfInv /\ OpenInv(a) /\ PageInv(b)
  BY StoryNow
<1>2. PICK id \in ids :
        /\ opened' = [id |-> id, nodes |-> SF!FromTable(id, most).nodes,
                      at |-> SF!FromTable(id, most).at]
        /\ short' = IF SF!TooLong(id, most) THEN short \cup {"open"} ELSE short \ {"open"}
        /\ UNCHANGED <<shelf, jsonl>>
  BY DEF SF!Reopen, SF!Cut
<1>3. PICK now \in BOOLEAN : now = ("open" \notin short')
  <2>1. ("open" \notin short') \in BOOLEAN
    BY SMT
  <2> QED BY <2>1
<1>4. PICK t : t = SF!FromTable(id, most)
  OBVIOUS
<1>5. PICK i : i = SF!At(id)
  OBVIOUS
<1>6. /\ Neat(t.nodes) /\ t.at \in 0..Len(t.nodes)
      /\ Seen(t.nodes, shelf[i].rows)
      /\ ~SF!TooLong(id, most) => Content(t.nodes) = shelf[i].rows
      /\ \A filed, whole : TreeOf(t.nodes, t.at, filed, whole)
      /\ i \in 1..Len(shelf) /\ shelf[i].id = id /\ id \in SessionNames
  BY <1>1, <1>4, <1>5, FromTableIs
<1>7. opened' = [id |-> id, nodes |-> t.nodes, at |-> t.at]
  BY <1>2, <1>4
<1>8. opened' \in OpenTree /\ opened'.id = id /\ opened'.nodes = t.nodes /\ opened'.at = t.at
  BY <1>6, <1>7 DEF OpenTree, Neat
<1>9. shelf' = shelf
  BY <1>2
<1>10. ShelfInv'
  BY <1>1, <1>9 DEF ShelfInv
<1>11. OpenInv(now)'
  <2>1. now => ~SF!TooLong(id, most)
    BY <1>2, <1>3
  <2>2. /\ i \in 1..Len(shelf') /\ shelf'[i].id = opened'.id
        /\ now => shelf'[i].rows = Content(opened'.nodes)
        /\ Seen(opened'.nodes, shelf'[i].rows)
        /\ TreeOf(opened'.nodes, opened'.at, shelf'[i].filed, now)
    BY <1>6, <1>8, <1>9, <2>1
  <2> QED BY <1>8, <2>2 DEF OpenInv
<1>12. PageInv(b)' /\ b = ("page" \notin short')
  BY <1>1, <1>2, PageSame
<1> QED BY <1>3, <1>10, <1>11, <1>12, StoryThen

\* A file that is written of a tree.
LEMMA ExportKeeps ==
  ASSUME NEW nodes, Neat(nodes), NEW s \in Shelved, NEW cut, NEW told \in Seq(SF!AnyBlock),
         ~cut => Spine(nodes, Len(nodes), SF!Lasting),
         Keeps(SF!Blocks(nodes), told, s.filed), SF!Export(nodes, s, told)
  PROVE  PageInv(~cut)'
<1>1. nodes # <<>> /\ jsonl' = [lines |-> SF!Lines(nodes), told |-> told, filed |-> {"file"} \cup s.filed]
  BY DEF SF!Export
<1>2. PICK lines \in Seq(SF!Anyhow) : lines = SF!Lines(nodes)
  BY LinesAre
<1>3. jsonl'.lines = lines /\ jsonl'.told = told /\ jsonl'.filed = {"file"} \cup s.filed
  BY <1>1, <1>2
<1>4. PICK p \in Seq(SF!Anyhow) : p = SF!Read(lines).nodes
  BY ReadAre
<1>5. Len(p) = Len(lines) /\ \A l \in 1..Len(lines) : p[l].up = lines[l].up
  BY <1>4, ReadAre
<1>6. p = Again(nodes)
  BY <1>2, <1>4 DEF Again
<1>7. \A l \in 1..Len(lines) : lines[l].up \in 0..(l - 1) /\ SF!Fits(p[l])
  BY <1>5, <1>6, AgainNeat
<1>8. \A S \in Kinships : SF!Only(SF!Blocks(p), S) = SF!Only(SF!Blocks(nodes), S)
  BY <1>6, AgainKeeps
<1>9. /\ SF!Only(SF!Blocks(p), SF!Lasting) = SF!Only(told, SF!Lasting)
      /\ "fork" \notin s.filed => SF!Only(SF!Blocks(p), ResultBlocks) = SF!Only(told, ResultBlocks)
  BY <1>8 DEF Kinships, Keeps
<1>10. s.filed \in SUBSET {"file", "fork"}
  BY SessionTyped
<1>11. SF!Telling(jsonl)'
  <2>1. \A x : SF!OfKind(x, {"result"}) = SF!Only(x, ResultBlocks)
    BY OfKindIs DEF ResultBlocks
  <2>2. \A l \in 1..Len(lines) : lines[l].up \in -1..(l - 1)
    BY <1>7
  <2>3. "fork" \notin {"file"} \cup s.filed => SF!OfKind(SF!Blocks(p), {"result"}) = SF!OfKind(told, {"result"})
    BY <1>9, <2>1
  <2> QED BY <1>3, <1>4, <1>7, <1>9, <1>10, <2>2, <2>3 DEF SF!Telling
<1>12. ASSUME ~cut PROVE Spine(p, Len(lines), SF!Lasting)
  <2>1. Len(nodes) # 0
    <3>1. nodes \in Seq(SF!Anyhow)
      BY DEF Neat
    <3> QED BY <1>1, <3>1, EmptySeq
  <2> QED BY <1>5, <1>6, <1>12, <2>1, AgainSpine
<1>13. ~cut => Spine(SF!Read(jsonl'.lines).nodes, Len(jsonl'.lines), SF!Lasting)
  BY <1>3, <1>4, <1>12
<1> QED BY <1>11, <1>13 DEF PageInv

LEMMA TableSame ==
  ASSUME ShelfInv, NEW a, OpenInv(a), UNCHANGED <<shelf, opened>>
  PROVE  ShelfInv' /\ OpenInv(a)'
BY DEF ShelfInv, OpenInv

LEMMA ExportOpenStep ==
  ASSUME StoryInv, SF!ExportOpen
  PROVE  StoryInv'
<1>1. PICK a, b \in BOOLEAN : /\ a = ("open" \notin short) /\ b = ("page" \notin short)
                              /\ ShelfInv /\ OpenInv(a) /\ PageInv(b)
  BY StoryNow
<1>2. PICK s : s = shelf[SF!At(opened.id)]
  OBVIOUS
<1>3. PICK nodes : nodes = opened.nodes
  OBVIOUS
<1>4. PICK cut \in BOOLEAN : cut = ("open" \in short)
  <2>1. ("open" \in short) \in BOOLEAN
    BY SMT
  <2> QED BY <2>1
<1>5. PICK told : told = SF!Tale(s, nodes, cut)
  OBVIOUS
<1>6. /\ s \in Shelved /\ TreeOf(nodes, opened.at, s.filed, a)
      /\ a => Keeps(SF!Blocks(nodes), s.told, s.filed)
  BY <1>1, <1>2, <1>3, OpenIs
<1>7. Neat(nodes) /\ (~cut => Spine(nodes, Len(nodes), SF!Lasting))
  BY <1>1, <1>4, <1>6 DEF TreeOf
<1>8. /\ SF!Export(nodes, s, told)
      /\ short' = (IF cut THEN short \cup {"page"} ELSE short \ {"page"})
  BY <1>2, <1>3, <1>4, <1>5 DEF SF!ExportOpen, SF!Cut
<1>9. UNCHANGED <<shelf, opened>> /\ PageInv(~cut)'
  <2>1. told \in Seq(SF!AnyBlock) /\ Keeps(SF!Blocks(nodes), told, s.filed)
    BY <1>1, <1>4, <1>5, <1>6, <1>7, OpenTold
  <2>2. PageInv(~cut)'
    BY <1>6, <1>7, <1>8, <2>1, ExportKeeps
  <2> QED BY <1>8, <2>2 DEF SF!Export
<1>10. PICK now \in BOOLEAN : now = ~cut
  <2>1. (~cut) \in BOOLEAN
    BY SMT
  <2> QED BY <2>1
<1>11. ShelfInv' /\ OpenInv(a)'
  BY <1>1, <1>9, TableSame
<1>12. a = ("open" \notin short') /\ now = ("page" \notin short') /\ PageInv(now)'
  BY <1>1, <1>4, <1>8, <1>9, <1>10 DEF PageInv
<1> QED BY <1>11, <1>12, StoryThen

LEMMA ExportStoredStep ==
  ASSUME FileAssumed, StoryInv, NEW id, SF!ExportStored(id)
  PROVE  StoryInv'
<1>1. PICK a, b \in BOOLEAN : /\ a = ("open" \notin short) /\ b = ("page" \notin short)
                              /\ ShelfInv /\ OpenInv(a) /\ PageInv(b)
  BY StoryNow
<1>2. PICK s : s = shelf[SF!At(id)]
  OBVIOUS
<1>3. PICK t : t = SF!FromTable(id, FileReadMax)
  OBVIOUS
<1>4. PICK part \in BOOLEAN : part = SF!TooLong(id, FileReadMax)
  <2>1. SF!TooLong(id, FileReadMax) \in BOOLEAN
    BY SMT DEF SF!TooLong
  <2> QED BY <2>1
<1>5. PICK told : told = SF!Tale(s, t.nodes, part)
  OBVIOUS
<1>6. /\ SF!Known(id) /\ SF!Export(t.nodes, s, told) /\ short' = short \ {"page"}
  BY <1>2, <1>3, <1>4, <1>5 DEF SF!ExportStored, SF!Cut
<1>7. /\ Neat(t.nodes) /\ Straight(t.nodes, t.at) /\ s \in Shelved
      /\ ~part => Keeps(SF!Blocks(t.nodes), s.told, s.filed)
  BY <1>1, <1>2, <1>3, <1>4, <1>6, FromTableIs, Limits
<1>8. Spine(t.nodes, Len(t.nodes), SF!Lasting)
  BY <1>7, StraightSpine DEF Straight, Neat
<1>9. PageInv(~FALSE)' /\ UNCHANGED <<shelf, opened>>
  <2>1. told \in Seq(SF!AnyBlock) /\ Keeps(SF!Blocks(t.nodes), told, s.filed)
    BY <1>5, <1>7, OpenTold
  <2>2. PageInv(~FALSE)'
    BY <1>6, <1>7, <1>8, <2>1, ExportKeeps
  <2> QED BY <1>6, <2>2 DEF SF!Export
<1>10. ShelfInv' /\ OpenInv(a)'
  BY <1>1, <1>9, TableSame
<1>11. a = ("open" \notin short') /\ TRUE = ("page" \notin short') /\ PageInv(TRUE)'
  BY <1>1, <1>6, <1>9 DEF PageInv
<1> QED BY <1>10, <1>11, StoryThen

-----------------------------------------------------------------------------
(* A turn *)

BlockKinds == {"text", "image", "thought", "secret", "call", "result"}
Fitting == {m \in Mess : SF!Fits(m)}

LEMMA SaidCount == \A S : SF!Cardinality(S) = Cardinality(S)
BY DEF Cardinality, SF!Cardinality

LEMMA SaidIs ==
  ASSUME NEW n \in Nat, NEW role \in {"user", "assistant", "tool"},
         NEW kinds \in Seq(BlockKinds)
  PROVE  LET m == SF!Said(n, role, kinds)
         IN  /\ m \in Mess /\ m.role = role /\ Len(m.has) = Len(kinds)
             /\ \A i \in 1..Len(kinds) :
                  /\ m.has[i].kind = kinds[i]
                  /\ \A j \in 1..i : j # i /\ kinds[j] = kinds[i] => m.has[i].nr # 1
<1>1. PICK k \in Nat : k = Len(kinds) /\ kinds \in [1..k -> BlockKinds]
  BY SeqFrom
<1> DEFINE Like(i) == {j \in 1..i : kinds[j] = kinds[i]}
           has == [i \in 1..k |-> [kind |-> kinds[i], of |-> n, nr |-> Cardinality(Like(i))]]
<1>2. ASSUME NEW i \in 1..k
      PROVE  /\ Cardinality(Like(i)) \in Nat
             /\ \A j \in 1..i : j # i /\ kinds[j] = kinds[i] => Cardinality(Like(i)) # 1
  <2>1. IsFiniteSet(1..i)
    BY FS_Interval
  <2>2. IsFiniteSet(Like(i)) /\ i \in Like(i)
    BY <2>1, FS_Subset
  <2>3. Cardinality(Like(i)) \in Nat
    BY <2>2, FS_CardinalityType
  <2>4. ASSUME NEW j \in 1..i, j # i, kinds[j] = kinds[i], Cardinality(Like(i)) = 1 PROVE FALSE
    <3>1. j \in Like(i)
      BY <2>4
    <3> HIDE DEF Like
    <3>2. PICK x : Like(i) = {x}
      BY <2>2, <2>4, FS_Singleton
    <3> QED BY <2>2, <2>4, <3>1, <3>2
  <2> QED BY <2>3, <2>4
<1>3. SF!Said(n, role, kinds) = [role |-> role, has |-> has]
  <2>1. SF!Said(n, role, kinds)
          = [role |-> role,
             has |-> [i \in 1..Len(kinds) |->
                        [kind |-> kinds[i], of |-> n, nr |-> SF!Cardinality(Like(i))]]]
    BY DEF SF!Said
  <2> HIDE DEF Like
  <2>2. \A i : SF!Cardinality(Like(i)) = Cardinality(Like(i))
    BY SaidCount
  <2> QED BY <1>1, <2>1, <2>2
<1> HIDE DEF Like
<1>4. ASSUME NEW i \in 1..k
      PROVE  [kind |-> kinds[i], of |-> n, nr |-> Cardinality(Like(i))] \in SF!AnyBlock
  BY <1>1, <1>2 DEF SF!AnyBlock, BlockKinds
<1>5. /\ has \in [1..k -> SF!AnyBlock]
      /\ \A i \in 1..k : has[i].kind = kinds[i] /\ has[i].nr = Cardinality(Like(i))
  BY <1>4
<1> HIDE DEF has
<1>6. has \in Seq(SF!AnyBlock) /\ Len(has) = k
  BY <1>5, InSeq
<1>7. PICK m : m = SF!Said(n, role, kinds)
  OBVIOUS
<1>8. m \in Mess /\ m.role = role /\ m.has = has
  BY <1>3, <1>6, <1>7 DEF Mess
<1>9. \A i \in 1..k : \A j \in 1..i : j # i /\ kinds[j] = kinds[i] => has[i].nr # 1
  BY <1>2, <1>5
<1> QED BY <1>1, <1>5, <1>6, <1>7, <1>8, <1>9

LEMMA SaidFits ==
  ASSUME NEW n \in Nat, NEW role \in {"user", "assistant"}, NEW K, NEW kinds \in Seq(K),
         K = IF role = "user" THEN {"text", "image"} ELSE {"text", "thought", "secret", "call"}
  PROVE  SF!Said(n, role, kinds) \in Fitting
<1>1. PICK k \in Nat : k = Len(kinds) /\ kinds \in [1..k -> K]
  BY SeqFrom
<1>2. K \subseteq BlockKinds
  BY DEF BlockKinds
<1>3. kinds \in [1..k -> BlockKinds]
  BY <1>1, <1>2
<1>4. kinds \in Seq(BlockKinds)
  BY <1>3, InSeq
<1>5. PICK m : m = SF!Said(n, role, kinds)
  OBVIOUS
<1>6. m \in Mess /\ m.role = role /\ Len(m.has) = k /\ \A i \in 1..k : m.has[i].kind = kinds[i]
  <2>1. LET x == SF!Said(n, role, kinds)
        IN  /\ x \in Mess /\ x.role = role /\ Len(x.has) = Len(kinds)
            /\ \A i \in 1..Len(kinds) : x.has[i].kind = kinds[i]
    BY <1>4, SaidIs
  <2> QED BY <1>1, <1>5, <2>1
<1>7. \A i \in 1..k : m.has[i].kind \in K
  BY <1>1, <1>6
<1>8. m.has \in Seq(SF!AnyBlock)
  BY <1>6 DEF Mess
<1>9. SF!Fits(m)
  <2>1. CASE role = "user"
    BY <1>6, <1>7, <1>8, <2>1 DEF SF!Fits
  <2>2. CASE role = "assistant"
    BY <1>6, <1>7, <1>8, <2>2 DEF SF!Fits
  <2> QED BY <2>1, <2>2
<1> QED BY <1>5, <1>6, <1>9 DEF Fitting

\* The results of a batch, one for each call, and what follows them.
LEMMA ResultsFit ==
  ASSUME NEW n \in Nat, NEW c \in Nat \ {0}, NEW extra \in Seq({"image"})
  PROVE  SF!Said(n, "tool", [i \in 1..c |-> "result"] \o extra) \in Fitting
<1> DEFINE rs == [i \in 1..c |-> "result"]
           kinds == rs \o extra
<1>1. PICK e \in Nat : e = Len(extra) /\ extra \in [1..e -> {"image"}]
  BY SeqFrom
<1>2. c \in Nat /\ e \in Nat /\ rs \in [1..c -> BlockKinds] /\ extra \in [1..e -> BlockKinds]
  BY <1>1 DEF BlockKinds
<1>3. \A i \in 1..c : rs[i] = "result"
  OBVIOUS
<1> HIDE DEF rs
<1>4. kinds \in [1..(c + e) -> BlockKinds]
  BY <1>2, ConcatType
<1>5. \A i \in 1..c : kinds[i] = rs[i]
  BY <1>2, ConcatLeft
<1>6. \A i \in 1..e : kinds[c + i] = extra[i]
  BY <1>2, ConcatRight, SMTT(60)
<1> HIDE DEF kinds
<1>7. kinds \in Seq(BlockKinds) /\ Len(kinds) = c + e
  BY <1>4, InSeq
<1>8. PICK m : m = SF!Said(n, "tool", kinds)
  OBVIOUS
<1>9. /\ m \in Mess /\ m.role = "tool" /\ Len(m.has) = c + e
      /\ \A i \in 1..(c + e) :
           /\ m.has[i].kind = kinds[i]
           /\ \A j \in 1..i : j # i /\ kinds[j] = kinds[i] => m.has[i].nr # 1
  <2>1. LET x == SF!Said(n, "tool", kinds)
        IN  /\ x \in Mess /\ x.role = "tool" /\ Len(x.has) = Len(kinds)
            /\ \A i \in 1..Len(kinds) :
                 /\ x.has[i].kind = kinds[i]
                 /\ \A j \in 1..i : j # i /\ kinds[j] = kinds[i] => x.has[i].nr # 1
    BY <1>7, SaidIs
  <2> QED BY <1>7, <1>8, <2>1
<1>10. kinds[1] = "result" /\ 1 \in 1..(c + e)
  <2>1. 1 \in 1..c /\ 1 \in 1..(c + e)
    OBVIOUS
  <2> QED BY <1>3, <1>5, <2>1
<1>11. m.has \in Seq(SF!AnyBlock) /\ m.has # <<>> /\ m.has[1].kind = "result"
  <2>1. m.has \in Seq(SF!AnyBlock)
    BY <1>9 DEF Mess
  <2>2. Len(m.has) # 0
    BY <1>9
  <2> QED BY <1>9, <1>10, <2>1, <2>2, EmptySeq
<1>12. ASSUME NEW i \in 2..Len(m.has)
       PROVE  m.has[i].kind = "image" \/ (m.has[i].kind = "result" /\ m.has[i].nr # 1)
  <2>1. i \in 1..(c + e) /\ 1 \in 1..i /\ i # 1
    BY <1>9
  <2>2. CASE i <= c
    <3>1. kinds[i] = "result"
      <4>1. i \in 1..c
        BY <2>1, <2>2
      <4> QED BY <1>3, <1>5, <4>1
    <3>2. m.has[i].nr # 1
      BY <1>9, <1>10, <2>1, <3>1
    <3> QED BY <1>9, <2>1, <3>1, <3>2
  <2>3. CASE ~(i <= c)
    <3>1. i - c \in 1..e /\ c + (i - c) = i
      BY <2>1, <2>3
    <3>2. kinds[i] = "image"
      BY <1>1, <1>6, <3>1
    <3> QED BY <1>9, <2>1, <3>2
  <2> QED BY <2>2, <2>3
<1>13. SF!Fits(m)
  BY <1>9, <1>11, <1>12 DEF SF!Fits
<1> QED BY <1>8, <1>9, <1>13 DEF Fitting, kinds, rs

LEMMA NextNrIs == ASSUME NEW told \in Seq(SF!AnyBlock) PROVE SF!NextNr(told) \in Nat
<1>1. CASE told = <<>>
  BY <1>1 DEF SF!NextNr
<1>2. CASE told # <<>>
  <2>1. Len(told) \in Nat /\ told \in [1..Len(told) -> SF!AnyBlock]
    BY SeqFrom
  <2>2. Len(told) # 0
    BY <1>2, EmptySeq
  <2>3. told[Len(told)] \in SF!AnyBlock
    BY <2>1, <2>2
  <2>4. told[Len(told)].of \in Nat
    BY <2>3 DEF SF!AnyBlock
  <2> QED BY <1>2, <2>4 DEF SF!NextNr, SF!Last
<1> QED BY <1>1, <1>2

\* What a turn adds.
TurnMess(told, asked, calling, extra, reply) ==
  LET n == SF!NextNr(told)
      results == [i \in 1..Len(SF!OfKind(SF!Said(n + 1, "assistant", calling).has, {"call"})) |-> "result"]
      with == IF calling = <<>> THEN <<>>
              ELSE <<SF!Said(n + 1, "assistant", calling), SF!Said(n + 1, "tool", results \o extra)>>
  IN  <<SF!Said(n, "user", asked)>> \o with \o <<SF!Said(n + 2, "assistant", reply)>>

LEMMA TurnMessFit ==
  ASSUME FileAssumed, NEW told \in Seq(SF!AnyBlock), NEW asked \in Asks, NEW calling \in Callings \cup {<<>>},
         NEW extra \in Answers, NEW reply \in Replies
  PROVE  TurnMess(told, asked, calling, extra, reply) \in Seq(Fitting)
<1>1. PICK n \in Nat : n = SF!NextNr(told)
  BY NextNrIs
<1>2. /\ Asks \subseteq Seq({"text", "image"}) /\ Replies \subseteq Seq({"text", "thought", "secret"})
      /\ Callings \subseteq Seq({"text", "thought", "secret", "call"})
      /\ \A c \in Callings : "call" \in SF!ToSet(c)
      /\ Answers \subseteq Seq({"image"})
  BY DEF FileAssumed, SF!SessionFileAssumption
<1> DEFINE C == {"text", "thought", "secret", "call"}
<1>3. SF!Said(n, "user", asked) \in Fitting
  BY <1>2, SaidFits
<1>4. SF!Said(n + 2, "assistant", reply) \in Fitting
  <2>1. PICK k \in Nat : k = Len(reply) /\ reply \in [1..k -> {"text", "thought", "secret"}]
    <3>1. reply \in Seq({"text", "thought", "secret"})
      BY <1>2
    <3> QED BY <3>1, SeqFrom
  <2>2. reply \in [1..k -> C]
    BY <2>1
  <2>3. reply \in Seq(C) /\ n + 2 \in Nat
    BY <2>2, InSeq
  <2> QED BY <2>3, SaidFits
<1> DEFINE call == SF!Said(n + 1, "assistant", calling)
           rs == [i \in 1..Len(SF!OfKind(call.has, {"call"})) |-> "result"]
           back == SF!Said(n + 1, "tool", rs \o extra)
<1>5. ASSUME calling # <<>> PROVE call \in Fitting /\ back \in Fitting
  <2>1. calling \in Seq(C) /\ "call" \in SF!ToSet(calling) /\ extra \in Seq({"image"}) /\ n + 1 \in Nat
    BY <1>2, <1>5
  <2>2. call \in Fitting
    BY <2>1, SaidFits
  <2>3. PICK k \in Nat : k = Len(calling) /\ calling \in [1..k -> C]
    BY <2>1, SeqFrom
  <2>5. calling \in Seq(BlockKinds)
    <3>1. calling \in [1..k -> BlockKinds]
      BY <2>3 DEF BlockKinds
    <3> QED BY <3>1, InSeq
  <2>4. PICK j \in 1..k : calling[j] = "call"
    <3>1. SF!ToSet(calling) = {calling[i] : i \in 1..Len(calling)}
      BY <2>5, ToSetSeq
    <3> QED BY <2>1, <2>3, <3>1
  <2>6. call.has \in Seq(SF!AnyBlock) /\ Len(call.has) = k /\ call.has[j].kind = "call"
    BY <2>1, <2>3, <2>4, <2>5, SaidIs DEF Mess
  <2> HIDE DEF call
  <2>7. PICK y \in Seq(SF!AnyBlock) : y = SF!OfKind(call.has, {"call"})
    BY <2>6, OfKindIs, OnlyType
  <2>8. call.has[j] \in SF!ToSet(y)
    <3>1. SF!ToSet(y) = SF!ToSet(call.has) \cap Sort({"call"})
      BY <2>6, <2>7, OfKindIs, OnlyHas
    <3>2. call.has[j] \in SF!ToSet(call.has) /\ call.has[j] \in SF!AnyBlock
      BY <2>6, ToSetSeq
    <3> QED BY <2>6, <3>1, <3>2 DEF Sort
  <2>9. PICK c \in Nat \ {0} : c = Len(y)
    <3>1. Len(y) \in Nat
      BY SeqFrom
    <3>2. y # <<>>
      BY <2>8, ToSetNone
    <3> QED BY <3>1, <3>2, EmptySeq
  <2>10. rs = [i \in 1..c |-> "result"]
    BY <2>7, <2>9
  <2>11. SF!Said(n + 1, "tool", [i \in 1..c |-> "result"] \o extra) \in Fitting
    BY <2>1, <2>9, ResultsFit
  <2> QED BY <2>2, <2>10, <2>11
<1> DEFINE first == SF!Said(n, "user", asked)
           last == SF!Said(n + 2, "assistant", reply)
           with == IF calling = <<>> THEN <<>> ELSE <<call, back>>
<1>6. TurnMess(told, asked, calling, extra, reply) = <<first>> \o with \o <<last>>
  BY <1>1 DEF TurnMess
<1> HIDE DEF call, back, first, last
<1>7. with \in Seq(Fitting)
  BY <1>5
<1> HIDE DEF with
<1>8. <<first>> \in Seq(Fitting) /\ <<last>> \in Seq(Fitting)
  BY <1>3, <1>4, OneType DEF first, last
<1>9. <<first>> \o with \in Seq(Fitting)
  BY <1>7, <1>8, ConcatProperties
<1>10. (<<first>> \o with) \o <<last>> \in Seq(Fitting)
  BY <1>8, <1>9, ConcatProperties
<1> QED BY <1>6, <1>10

\* A session that is replaced, and is the last of the table then.
LEMMA MovedKeeps ==
  ASSUME ShelfInv, NEW i \in 1..Len(shelf), NEW s \in Shelved, s.id = shelf[i].id,
         shelf' = Append(SF!RemoveAt(shelf, i), s)
  PROVE  ShelfInv' /\ Len(shelf') = Len(shelf) /\ shelf'[Len(shelf)] = s
<1>1. PICK m \in Nat : m = Len(shelf) /\ shelf \in [1..m -> Shelved]
  BY SeqFrom DEF ShelfInv
<1>0. i \in 1..m
  BY <1>1
<1> DEFINE a == SubSeq(shelf, 1, i - 1)
           b == SubSeq(shelf, i + 1, m)
<1>2. \A j \in 1..m : shelf[j] \in Shelved
  BY <1>1
<1>3. /\ a \in Seq(Shelved) /\ Len(a) = i - 1
      /\ \A j \in 1..(i - 1) : a[j] = shelf[j]
  <2>1. 1 \in Int /\ i - 1 \in Int /\ \A j \in 1..(i - 1) : shelf[j] \in Shelved
    BY <1>1, <1>2
  <2>2. /\ a \in Seq(Shelved)
        /\ Len(a) = IF 1 <= i - 1 THEN (i - 1) - 1 + 1 ELSE 0
        /\ \A j \in 1..((i - 1) - 1 + 1) : a[j] = shelf[1 + j - 1]
    BY <2>1, SubSeqProperties
  <2> HIDE DEF a
  <2>3. Len(a) = i - 1
    BY <1>1, <2>2
  <2>4. \A j \in 1..(i - 1) : 1 + j - 1 = j /\ j \in 1..((i - 1) - 1 + 1)
    BY <1>1
  <2> QED BY <2>2, <2>3, <2>4
<1>4. /\ b \in Seq(Shelved) /\ Len(b) = m - i
      /\ \A j \in 1..(m - i) : b[j] = shelf[i + j]
  <2>1. i + 1 \in Int /\ m \in Int /\ \A j \in (i + 1)..m : shelf[j] \in Shelved
    BY <1>1, <1>2
  <2>2. /\ b \in Seq(Shelved)
        /\ Len(b) = IF i + 1 <= m THEN m - (i + 1) + 1 ELSE 0
        /\ \A j \in 1..(m - (i + 1) + 1) : b[j] = shelf[(i + 1) + j - 1]
    BY <2>1, SubSeqProperties
  <2> HIDE DEF b
  <2>3. Len(b) = m - i
    <3>1. CASE i + 1 <= m
      <4>1. m - (i + 1) + 1 = m - i
        BY <1>0
      <4> QED BY <2>2, <3>1, <4>1
    <3>2. CASE ~(i + 1 <= m)
      <4>1. m - i = 0
        BY <1>0, <3>2
      <4> QED BY <2>2, <3>2, <4>1
    <3> QED BY <3>1, <3>2
  <2>4. \A j \in 1..(m - i) : (i + 1) + j - 1 = i + j /\ j \in 1..(m - (i + 1) + 1)
    BY <1>1
  <2> QED BY <2>2, <2>3, <2>4
<1>5. SF!RemoveAt(shelf, i) = a \o b
  BY <1>1 DEF SF!RemoveAt
<1> HIDE DEF a, b
<1> DEFINE z == a \o b
<1>6. z \in Seq(Shelved) /\ Len(z) = m - 1
  <2>1. z \in Seq(Shelved) /\ Len(z) = Len(a) + Len(b)
    BY <1>3, <1>4, ConcatProperties
  <2> HIDE DEF z
  <2>2. Len(a) + Len(b) = m - 1
    BY <1>0, <1>3, <1>4
  <2> QED BY <2>1, <2>2
<1>7. \A j \in 1..(m - 1) : z[j] = IF j < i THEN shelf[j] ELSE shelf[j + 1]
  <2>1. \A j \in 1..(Len(a) + Len(b)) : z[j] = IF j <= Len(a) THEN a[j] ELSE b[j - Len(a)]
    BY <1>3, <1>4, ConcatProperties
  <2> HIDE DEF z
  <2> TAKE j \in 1..(m - 1)
  <2>2. CASE j < i
    <3>1. j \in 1..(i - 1) /\ j \in 1..(Len(a) + Len(b)) /\ j <= Len(a)
      BY <1>0, <1>3, <1>4, <2>2
    <3> QED BY <1>3, <2>1, <2>2, <3>1
  <2>3. CASE ~(j < i)
    <3>1. /\ j - (i - 1) \in 1..(m - i) /\ i + (j - (i - 1)) = j + 1
          /\ j \in 1..(Len(a) + Len(b)) /\ ~(j <= Len(a)) /\ Len(a) = i - 1
      BY <1>0, <1>3, <1>4, <2>3
    <3>2. z[j] = b[j - (i - 1)] /\ b[j - (i - 1)] = shelf[i + (j - (i - 1))]
      BY <1>4, <2>1, <3>1
    <3> QED BY <2>3, <3>1, <3>2
  <2> QED BY <2>2, <2>3
<1> HIDE DEF z
<1>8. shelf' = Append(z, s)
  BY <1>5 DEF z
<1>9. /\ shelf' \in Seq(Shelved) /\ Len(shelf') = m /\ shelf'[m] = s
      /\ \A j \in 1..(m - 1) : shelf'[j] = z[j]
  <2>1. /\ Append(z, s) \in Seq(Shelved) /\ Len(Append(z, s)) = (m - 1) + 1
        /\ \A j \in 1..(m - 1) : Append(z, s)[j] = z[j]
        /\ Append(z, s)[(m - 1) + 1] = s
    BY <1>6, AppendProperties
  <2>2. (m - 1) + 1 = m
    BY <1>1
  <2> QED BY <1>8, <2>1, <2>2
<1> DEFINE old(j) == IF j = m THEN i ELSE IF j < i THEN j ELSE j + 1
<1>10. ASSUME NEW j \in 1..m PROVE old(j) \in 1..m /\ shelf'[j].id = shelf[old(j)].id
  <2>1. CASE j = m
    BY <1>0, <1>9, <2>1
  <2>2. CASE j # m
    <3>1. j \in 1..(m - 1)
      BY <2>2
    <3>2. shelf'[j] = IF j < i THEN shelf[j] ELSE shelf[j + 1]
      BY <1>7, <1>9, <3>1
    <3>3. shelf'[j] = shelf[old(j)]
      BY <2>2, <3>2
    <3>4. old(j) \in 1..m
      BY <1>0, <2>2, <3>1
    <3> QED BY <3>3, <3>4
  <2> QED BY <2>1, <2>2
<1>11. \A j, k \in 1..m : old(j) = old(k) => j = k
  BY <1>0
<1> HIDE DEF old
<1>12. \A j, k \in 1..m : shelf'[j].id = shelf'[k].id => j = k
  <2>1. \A j, k \in 1..m : shelf[j].id = shelf[k].id => j = k
    BY <1>1 DEF ShelfInv, IdsApart
  <2> TAKE j, k \in 1..m
  <2> HAVE shelf'[j].id = shelf'[k].id
  <2>2. shelf[old(j)].id = shelf[old(k)].id /\ old(j) \in 1..m /\ old(k) \in 1..m
    BY <1>10
  <2>3. old(j) = old(k)
    BY <2>1, <2>2
  <2> QED BY <1>11, <2>3
<1>13. IdsApart(shelf')
  BY <1>9, <1>12 DEF IdsApart
<1> QED BY <1>1, <1>9, <1>13 DEF ShelfInv

\* Messages under the leaf of a tree.
LEMMA UnderTree ==
  ASSUME NEW nodes, NEW tip, NEW filed, NEW whole, TreeOf(nodes, tip, filed, whole),
         NEW msgs \in Seq(Fitting)
  PROVE  TreeOf(SF!Under(nodes, tip, msgs), Len(nodes) + Len(msgs), filed, whole)
<1>1. PICK m \in Nat : m = Len(nodes)
  BY SeqFrom DEF TreeOf, Neat
<1>2. PICK k \in Nat : k = Len(msgs) /\ msgs \in [1..k -> Fitting]
  BY SeqFrom
<1>3. msgs \in Seq(Mess)
  <2>1. msgs \in [1..k -> Mess]
    BY <1>2 DEF Fitting
  <2> QED BY <2>1, InSeq
<1>4. nodes \in Seq(SF!Anyhow) /\ tip \in 0..m
  BY <1>1 DEF TreeOf, Neat
<1>5. \A n \in 1..m : nodes[n].up \in 0..(n - 1) /\ SF!Fits(nodes[n])
  BY <1>1 DEF TreeOf, Neat
<1>6. PICK x \in Seq(SF!Anyhow) : x = SF!Under(nodes, tip, msgs)
  <2>1. tip \in Int
    BY <1>4
  <2> QED BY <1>3, <1>4, <2>1, UnderIs
<1>7. /\ Len(x) = m + k
      /\ \A i \in 1..m : x[i] = nodes[i]
      /\ \A i \in 1..k : x[m + i] = SF!Node(msgs[i], IF i = 1 THEN tip ELSE m + i - 1)
  <2>1. tip \in Int
    BY <1>4
  <2>2. /\ Len(x) = Len(nodes) + Len(msgs)
        /\ \A i \in 1..Len(nodes) : x[i] = nodes[i]
        /\ \A i \in 1..Len(msgs) :
             x[Len(nodes) + i] = SF!Node(msgs[i], IF i = 1 THEN tip ELSE Len(nodes) + i - 1)
    BY <1>3, <1>4, <1>6, <2>1, UnderIs
  <2> QED BY <1>1, <1>2, <2>2
<1>8. ASSUME NEW l \in 1..(m + k), ~(l <= m)
      PROVE  /\ x[l].up = IF l = m + 1 THEN tip ELSE l - 1
             /\ SF!Fits(x[l])
  <2>1. PICK i \in 1..k : l = m + i
    <3>1. l - m \in 1..k /\ l = m + (l - m)
      BY <1>8
    <3> QED BY <3>1
  <2>2. x[l] = SF!Node(msgs[i], IF i = 1 THEN tip ELSE m + i - 1)
    BY <1>7, <2>1
  <2>3. /\ x[l].up = (IF i = 1 THEN tip ELSE m + i - 1)
        /\ x[l].role = msgs[i].role /\ x[l].has = msgs[i].has
    BY <2>2, NodeIs
  <2>4. SF!Fits(msgs[i])
    BY <1>2 DEF Fitting
  <2> QED BY <2>1, <2>3, <2>4, FitsAlike
<1>9. Neat(x)
  <2>1. ASSUME NEW l \in 1..(m + k) PROVE x[l].up \in 0..(l - 1) /\ SF!Fits(x[l])
    <3>1. CASE l <= m
      <4>1. l \in 1..m
        BY <3>1
      <4> QED BY <1>5, <1>7, <4>1
    <3>2. CASE ~(l <= m)
      BY <1>4, <1>8, <3>2
    <3> QED BY <3>1, <3>2
  <2> QED BY <1>7, <2>1 DEF Neat
<1>10. ASSUME whole PROVE Spine(x, m + k, SF!Lasting)
  <2>1. tip = m /\ Spine(nodes, tip, SF!Lasting)
    BY <1>1, <1>10 DEF TreeOf
  <2>2. PICK T : Way2(nodes, T, tip, SF!Lasting)
    BY <2>1 DEF Spine
  <2>3. /\ T \subseteq 1..m /\ m \in T \cup {0}
        /\ \A n \in T : /\ nodes[n].up \in T \cup {0}
                        /\ \A j \in 1..m : nodes[n].up < j /\ j < n => Bare(nodes[j], SF!Lasting)
    BY <1>1, <2>1, <2>2 DEF Way2
  <2> DEFINE W == T \cup (m + 1)..(m + k)
  <2>4. W \subseteq 1..(m + k) /\ m + k \in W \cup {0}
    <3>1. CASE k = 0
      BY <2>3, <3>1
    <3>2. CASE k # 0
      <4>1. m + k \in (m + 1)..(m + k)
        BY <3>2
      <4>2. 1..m \subseteq 1..(m + k) /\ (m + 1)..(m + k) \subseteq 1..(m + k)
        OBVIOUS
      <4> QED BY <2>3, <4>1, <4>2
    <3> QED BY <3>1, <3>2
  <2>5. ASSUME NEW l \in W
        PROVE  /\ x[l].up \in W \cup {0}
               /\ \A j \in 1..(m + k) : x[l].up < j /\ j < l => Bare(x[j], SF!Lasting)
    <3>1. CASE l <= m
      <4>0. l \notin (m + 1)..(m + k)
        BY <3>1
      <4>1. l \in T /\ l \in 1..m /\ x[l] = nodes[l]
        BY <1>7, <2>3, <4>0
      <4>2. \A j \in 1..(m + k) : j < l => j \in 1..m /\ x[j] = nodes[j]
        <5> TAKE j \in 1..(m + k)
        <5> HAVE j < l
        <5>1. j \in 1..m
          BY <4>1
        <5> QED BY <1>7, <5>1
      <4> QED BY <2>3, <4>1, <4>2
    <3>2. CASE ~(l <= m)
      <4>1. l \in 1..(m + k) /\ x[l].up = IF l = m + 1 THEN tip ELSE l - 1
        BY <1>8, <2>4, <3>2
      <4>2. x[l].up = l - 1
        BY <2>1, <4>1
      <4>3. l - 1 \in W \cup {0}
        <5>1. CASE l = m + 1
          BY <2>3, <5>1
        <5>2. CASE l # m + 1
          <6>1. l - 1 \in (m + 1)..(m + k)
            BY <3>2, <4>1, <5>2
          <6> QED BY <6>1
        <5> QED BY <5>1, <5>2
      <4> QED BY <4>1, <4>2, <4>3
    <3> QED BY <3>1, <3>2
  <2> HIDE DEF W
  <2>6. Way2(x, W, m + k, SF!Lasting)
    BY <1>7, <2>4, <2>5 DEF Way2
  <2> QED BY <2>6 DEF Spine
<1>11. ASSUME filed = {} PROVE Straight(x, m + k)
  <2>1. tip = m /\ \A n \in 1..m : nodes[n].up = n - 1
    BY <1>1, <1>11 DEF TreeOf, Straight
  <2>2. ASSUME NEW l \in 1..(m + k) PROVE x[l].up = l - 1
    <3>1. CASE l <= m
      <4>1. l \in 1..m
        BY <3>1
      <4> QED BY <1>7, <2>1, <4>1
    <3>2. CASE ~(l <= m)
      <4>1. x[l].up = IF l = m + 1 THEN tip ELSE l - 1
        BY <1>8, <3>2
      <4>2. l \in Int /\ m \in Int
        OBVIOUS
      <4>3. CASE l = m + 1
        BY <2>1, <4>1, <4>2, <4>3
      <4>4. CASE l # m + 1
        BY <4>1, <4>4
      <4> QED BY <4>3, <4>4
    <3> QED BY <3>1, <3>2
  <2> QED BY <1>7, <2>2 DEF Straight
<1>12. m + k \in 0..Len(x)
  BY <1>7
<1>13. TreeOf(x, m + k, filed, whole)
  BY <1>7, <1>9, <1>10, <1>11, <1>12 DEF TreeOf
<1> QED BY <1>1, <1>2, <1>6, <1>13

LEMMA KeepsMore ==
  ASSUME NEW has \in Seq(SF!AnyBlock), NEW told \in Seq(SF!AnyBlock), NEW filed,
         Keeps(has, told, filed), NEW more \in Seq(SF!AnyBlock)
  PROVE  Keeps(has \o more, told \o more, filed)
<1>1. \A S : /\ SF!Only(has \o more, S) = SF!Only(has, S) \o SF!Only(more, S)
             /\ SF!Only(told \o more, S) = SF!Only(told, S) \o SF!Only(more, S)
  BY OnlyTwo
<1> QED BY <1>1 DEF Keeps

LEMMA SeenMore ==
  ASSUME NEW x \in Seq(Mess), NEW y \in Seq(Mess), Seen(x, y), NEW more \in Seq(Mess)
  PROVE  Seen(x \o more, y \o more)
<1>1. /\ SF!Blocks(x) \in Seq(SF!AnyBlock) /\ SF!Blocks(y) \in Seq(SF!AnyBlock)
      /\ SF!Blocks(more) \in Seq(SF!AnyBlock)
  BY MessAre, BlocksType
<1>2. /\ SF!Blocks(x \o more) = SF!Blocks(x) \o SF!Blocks(more)
      /\ SF!Blocks(y \o more) = SF!Blocks(y) \o SF!Blocks(more)
  BY MessAre, BlocksTwo
<1>3. \A f, g \in Seq(SF!AnyBlock) : SF!ToSet(f \o g) = SF!ToSet(f) \cup SF!ToSet(g)
  <2> SUFFICES ASSUME NEW f \in Seq(SF!AnyBlock), NEW g \in Seq(SF!AnyBlock)
               PROVE  SF!ToSet(f \o g) = SF!ToSet(f) \cup SF!ToSet(g)
    OBVIOUS
  <2>1. PICK m, n \in Nat : /\ m = Len(f) /\ n = Len(g)
                            /\ f \in [1..m -> SF!AnyBlock] /\ g \in [1..n -> SF!AnyBlock]
    BY SeqFrom
  <2>2. PICK h \in Seq(SF!AnyBlock) :
          /\ h = f \o g /\ Len(h) = m + n
          /\ \A i \in 1..(m + n) : h[i] = IF i <= m THEN f[i] ELSE g[i - m]
    <3>1. PICK h : h = f \o g
      OBVIOUS
    <3>2. /\ h \in Seq(SF!AnyBlock) /\ Len(h) = Len(f) + Len(g)
          /\ \A i \in 1..(Len(f) + Len(g)) : h[i] = IF i <= Len(f) THEN f[i] ELSE g[i - Len(f)]
      BY <3>1, ConcatProperties
    <3>3. Len(f) = m /\ Len(g) = n
      BY <2>1
    <3> QED BY <3>1, <3>2, <3>3
  <2>3. SF!ToSet(f) = {f[i] : i \in 1..m} /\ SF!ToSet(g) = {g[i] : i \in 1..n}
    BY <2>1 DEF SF!ToSet
  <2>4. SF!ToSet(h) = {h[i] : i \in 1..(m + n)}
    BY <2>2, SeqFrom DEF SF!ToSet
  <2>5. \A i \in 1..m : i \in 1..(m + n) /\ h[i] = f[i]
    BY <2>2
  <2>6. \A i \in 1..n : m + i \in 1..(m + n) /\ h[m + i] = g[i]
    BY <2>2
  <2>7. \A i \in 1..(m + n) : i \in 1..m \/ (i - m \in 1..n /\ h[i] = g[i - m])
    BY <2>2
  <2>8. SF!ToSet(f) \cup SF!ToSet(g) \subseteq SF!ToSet(h)
    BY <2>3, <2>4, <2>5, <2>6
  <2>9. SF!ToSet(h) \subseteq SF!ToSet(f) \cup SF!ToSet(g)
    BY <2>3, <2>4, <2>5, <2>7
  <2> QED BY <2>2, <2>8, <2>9
<1> QED BY <1>1, <1>2, <1>3 DEF Seen

LEMMA TurnStep ==
  ASSUME FileAssumed, StoryInv, NEW asked \in Asks, NEW calling \in Callings \cup {<<>>},
         NEW extra \in Answers, NEW reply \in Replies, SF!Turn(asked, calling, extra, reply)
  PROVE  StoryInv'
<1>1. PICK a, b \in BOOLEAN : /\ a = ("open" \notin short) /\ b = ("page" \notin short)
                              /\ ShelfInv /\ OpenInv(a) /\ PageInv(b)
  BY StoryNow
<1>2. PICK i : i = SF!At(opened.id)
  OBVIOUS
<1>3. PICK s : s = shelf[i]
  OBVIOUS
<1>4. PICK msgs : msgs = TurnMess(s.told, asked, calling, extra, reply)
  OBVIOUS
<1>5. /\ opened' = [opened EXCEPT !.nodes = SF!Under(opened.nodes, opened.at, msgs),
                                  !.at = Len(opened.nodes) + Len(msgs)]
      /\ shelf' = Append(SF!RemoveAt(shelf, i),
                         [s EXCEPT !.rows = @ \o msgs, !.told = @ \o SF!Blocks(msgs)])
      /\ UNCHANGED <<jsonl, short>>
  BY <1>2, <1>3, <1>4 DEF SF!Turn, TurnMess
<1>6. /\ i \in 1..Len(shelf) /\ s \in Shelved /\ s.id = opened.id
      /\ a => s.rows = Content(opened.nodes)
      /\ Seen(opened.nodes, s.rows)
      /\ TreeOf(opened.nodes, opened.at, s.filed, a)
      /\ opened \in OpenTree
  BY <1>1, <1>2, <1>3, OpenIs
<1>7. /\ s.told \in Seq(SF!AnyBlock) /\ s.rows \in Seq(Mess)
      /\ \A j \in 1..Len(s.rows) : SF!Fits(s.rows[j])
      /\ Keeps(SF!Blocks(s.rows), s.told, s.filed)
  <2>1. Keeps(SF!Blocks(s.rows), s.told, s.filed)
    BY <1>6, SessionKeeps, Zenon
  <2>2. s.told \in Seq(SF!AnyBlock) /\ s.rows \in Seq(Mess)
    BY <1>6, SessionTyped
  <2>3. \A j \in 1..Len(s.rows) : SF!Fits(s.rows[j])
    BY <1>6, SessionTyped
  <2> QED BY <2>1, <2>2, <2>3
<1>8. msgs \in Seq(Fitting)
  BY <1>4, <1>7, TurnMessFit
<1>9. msgs \in Seq(Mess) /\ \A j \in 1..Len(msgs) : SF!Fits(msgs[j])
  <2>1. Len(msgs) \in Nat /\ msgs \in [1..Len(msgs) -> Fitting]
    BY <1>8, SeqFrom
  <2>2. msgs \in [1..Len(msgs) -> Mess]
    BY <2>1 DEF Fitting
  <2>3. msgs \in Seq(Mess)
    BY <2>1, <2>2, InSeq
  <2> QED BY <2>1, <2>3 DEF Fitting
<1>10. PICK more \in Seq(SF!AnyBlock) : more = SF!Blocks(msgs)
  BY <1>9, MessAre, BlocksType
<1>11. PICK table \in Seq(Mess) : table = s.rows \o msgs
  BY <1>7, <1>9, ConcatProperties
<1>12. PICK told \in Seq(SF!AnyBlock) : told = s.told \o more
  BY <1>7, ConcatProperties
<1>13. PICK r : r = [s EXCEPT !.rows = table, !.told = told]
  OBVIOUS
<1>14. r \in Shelved /\ r.id = s.id /\ r.filed = s.filed /\ r.rows = table
  <2>1. /\ r \in [id : SessionNames, cwd : Places, told : Seq(SF!AnyBlock),
                  filed : SUBSET {"file", "fork"}, rows : Seq(Mess)]
        /\ r.id = s.id /\ r.filed = s.filed /\ r.rows = table /\ r.told = told
    BY <1>6, <1>13 DEF Shelved
  <2>2. \A j \in 1..Len(table) : SF!Fits(table[j])
    <3>1. Len(s.rows) \in Nat /\ Len(msgs) \in Nat
      BY <1>7, <1>9, SeqFrom
    <3>2. /\ Len(table) = Len(s.rows) + Len(msgs)
          /\ \A j \in 1..(Len(s.rows) + Len(msgs)) :
               table[j] = IF j <= Len(s.rows) THEN s.rows[j] ELSE msgs[j - Len(s.rows)]
      BY <1>7, <1>9, <1>11, ConcatProperties
    <3> TAKE j \in 1..Len(table)
    <3>3. CASE j <= Len(s.rows)
      BY <1>7, <3>1, <3>2, <3>3
    <3>4. CASE ~(j <= Len(s.rows))
      <4>1. j - Len(s.rows) \in 1..Len(msgs)
        BY <3>1, <3>2, <3>4
      <4> QED BY <1>9, <3>2, <3>4, <4>1
    <3> QED BY <3>3, <3>4
  <2>3. Keeps(SF!Blocks(table), told, s.filed)
    <3>1. SF!Blocks(table) = SF!Blocks(s.rows) \o more
      BY <1>7, <1>9, <1>10, <1>11, MessAre, BlocksTwo
    <3>2. SF!Blocks(s.rows) \in Seq(SF!AnyBlock)
      BY <1>7, MessAre, BlocksType
    <3> QED BY <1>7, <1>12, <3>1, <3>2, KeepsMore
  <2> QED BY <2>1, <2>2, <2>3 DEF Shelved
<1>15. shelf' = Append(SF!RemoveAt(shelf, i), r)
  <2>1. [s EXCEPT !.rows = @ \o msgs, !.told = @ \o SF!Blocks(msgs)] = r
    BY <1>6, <1>10, <1>11, <1>12, <1>13 DEF Shelved
  <2> QED BY <1>5, <2>1
<1>16. ShelfInv' /\ Len(shelf') = Len(shelf) /\ shelf'[Len(shelf)] = r
  BY <1>1, <1>3, <1>6, <1>14, <1>15, MovedKeeps
<1>17. PICK nodes : nodes = SF!Under(opened.nodes, opened.at, msgs)
  OBVIOUS
<1>18. PICK tip : tip = Len(opened.nodes) + Len(msgs)
  OBVIOUS
<1>19. TreeOf(nodes, tip, r.filed, a)
  BY <1>6, <1>8, <1>14, <1>17, <1>18, UnderTree
<1>20. (a => Content(nodes) = table) /\ Seen(nodes, table)
  <2>1. opened.nodes \in Seq(SF!Anyhow) /\ opened.at \in Int
    BY <1>6 DEF OpenTree
  <2>2. Content(nodes) = Content(opened.nodes) \o msgs
    BY <1>9, <1>17, <2>1, ContentUnder
  <2>3. a => Content(nodes) = table
    BY <1>6, <1>11, <2>2
  <2>4. PICK before \in Seq(Mess) : before = Content(opened.nodes)
    BY <2>1, ContentIs
  <2>5. Seen(before, s.rows)
    BY <1>6, <2>1, <2>4, ContentIs DEF Seen
  <2>6. Seen(before \o msgs, s.rows \o msgs)
    BY <1>7, <1>9, <2>5, SeenMore
  <2>7. nodes \in Seq(SF!Anyhow)
    BY <1>19 DEF TreeOf, Neat
  <2>8. SF!Blocks(nodes) = SF!Blocks(before \o msgs)
    BY <2>2, <2>4, <2>7, ContentIs
  <2> QED BY <1>11, <2>3, <2>6, <2>8 DEF Seen
<1>21. /\ opened' \in OpenTree /\ opened'.id = opened.id /\ opened'.nodes = nodes
       /\ opened'.at = tip
  <2>1. nodes \in Seq(SF!Anyhow) /\ tip \in Int
    BY <1>19, SeqFrom DEF TreeOf, Neat
  <2>2. opened' = [opened EXCEPT !.nodes = nodes, !.at = tip]
    BY <1>5, <1>17, <1>18
  <2> QED BY <1>6, <2>1, <2>2 DEF OpenTree
<1>22. OpenInv(a)'
  <2>1. Len(shelf) \in 1..Len(shelf')
    BY <1>1, <1>6, <1>16, SeqFrom DEF ShelfInv
  <2>2. /\ shelf'[Len(shelf)].id = opened'.id
        /\ a => shelf'[Len(shelf)].rows = Content(opened'.nodes)
        /\ Seen(opened'.nodes, shelf'[Len(shelf)].rows)
        /\ TreeOf(opened'.nodes, opened'.at, shelf'[Len(shelf)].filed, a)
    BY <1>6, <1>14, <1>16, <1>19, <1>20, <1>21
  <2> QED BY <1>21, <2>1, <2>2 DEF OpenInv
<1>23. PageInv(b)' /\ b = ("page" \notin short') /\ a = ("open" \notin short')
  BY <1>1, <1>5, PageSame
<1> QED BY <1>16, <1>22, <1>23, StoryThen

-----------------------------------------------------------------------------
(* The invariant, and what it says of the open conversation *)

LEMMA EmptyPage ==
  ASSUME jsonl = [lines |-> <<>>, told |-> <<>>, filed |-> {"file"}]
  PROVE  PageInv(TRUE)
<1>1. PICK lines \in Seq(SF!Anyhow) : lines = <<>> /\ Len(lines) = 0
  BY EmptySeq
<1>2. PICK told \in Seq(SF!AnyBlock) : told = <<>>
  BY EmptySeq
<1>3. PICK p \in Seq(SF!Anyhow) : p = SF!Read(lines).nodes
  BY ReadAre
<1>4. Len(p) = 0
  BY <1>1, <1>3, ReadAre
<1>5. p = <<>>
  BY <1>4, EmptySeq
<1>6. jsonl.lines = lines /\ jsonl.told = told /\ jsonl.filed = {"file"}
  BY <1>1, <1>2
<1>7. SF!Blocks(p) = told
  BY <1>2, <1>5, BlocksNone
<1>8. SF!Telling(jsonl)
  <2>1. \A l \in 1..Len(lines) : lines[l].up \in -1..(l - 1) /\ SF!Fits(p[l])
    BY <1>1
  <2> QED BY <1>3, <1>6, <1>7, <2>1 DEF SF!Telling
<1>9. SF!Read(lines).at = 0
  BY <1>1 DEF SF!Read
<1> QED BY <1>6, <1>8, <1>9 DEF PageInv

LEMMA ForeignPage ==
  ASSUME FileAssumed, jsonl \in Foreign
  PROVE  PageInv(TRUE)
<1>1. SF!Telling(jsonl) /\ SF!OneWay(jsonl.lines)
  BY DEF FileAssumed, SF!SessionFileAssumption
<1>2. jsonl.lines \in Seq(SF!Anyhow) /\ \A l \in 1..Len(jsonl.lines) : jsonl.lines[l].up \in -1..(l - 1)
  BY <1>1 DEF SF!Telling
<1>3. PICK lines \in Seq(SF!Anyhow) : lines = jsonl.lines
  BY <1>2
<1>4. ASSUME SF!Read(lines).at # 0 PROVE Spine(SF!Read(lines).nodes, Len(lines), SF!Lasting)
  BY <1>1, <1>2, <1>3, <1>4, OneWaySpine
<1> QED BY <1>1, <1>3, <1>4 DEF PageInv

LEMMA StoryInit == ASSUME FileAssumed, SF!Init PROVE StoryInv
<1>1. PICK id \in SessionNames, dir \in Places :
        /\ shelf = <<[id |-> id, cwd |-> dir, told |-> <<>>, filed |-> {}, rows |-> <<>>]>>
        /\ opened = [id |-> id, nodes |-> <<>>, at |-> 0]
  BY DEF SF!Init
<1>2. short = {}
  BY DEF SF!Init
<1>3. PageInv(TRUE)
  <2>1. jsonl \in Foreign \/ jsonl = [lines |-> <<>>, told |-> <<>>, filed |-> {"file"}]
    BY DEF SF!Init
  <2> QED BY <2>1, EmptyPage, ForeignPage
<1>4. PICK table \in Seq(Mess) : table = <<>> /\ Len(table) = 0
  BY EmptySeq
<1>5. PICK nodes \in Seq(SF!Anyhow) : nodes = <<>> /\ Len(nodes) = 0
  BY EmptySeq
<1>6. PICK told \in Seq(SF!AnyBlock) : told = <<>>
  BY EmptySeq
<1>7. PICK s : s = [id |-> id, cwd |-> dir, told |-> told, filed |-> {}, rows |-> table]
  OBVIOUS
<1>8. SF!Blocks(table) = told
  BY <1>4, <1>6, BlocksNone
<1>9. s \in Shelved
  <2>1. \A i \in 1..Len(table) : SF!Fits(table[i])
    BY <1>4
  <2>2. Keeps(SF!Blocks(table), told, {})
    BY <1>8 DEF Keeps
  <2> QED BY <1>7, <2>1, <2>2 DEF Shelved
<1>10. shelf = <<s>>
  BY <1>1, <1>4, <1>6, <1>7
<1>11. shelf \in Seq(Shelved) /\ Len(shelf) = 1 /\ shelf[1] = s
  BY <1>9, <1>10
<1>12. ShelfInv
  <2>1. \A i \in 1..1 : i = 1
    OBVIOUS
  <2> QED BY <1>11, <2>1 DEF ShelfInv, IdsApart
<1>13. opened = [id |-> id, nodes |-> nodes, at |-> 0]
  BY <1>1, <1>5
<1>14. opened \in OpenTree /\ opened.id = id /\ opened.nodes = nodes /\ opened.at = 0
  BY <1>13 DEF OpenTree
<1>15. Straight(nodes, 0)
  BY <1>5 DEF Straight
<1>16. TreeOf(nodes, 0, {}, TRUE)
  <2>1. Neat(nodes)
    BY <1>5 DEF Neat
  <2>2. Spine(nodes, 0, SF!Lasting)
    BY <1>15, StraightSpine
  <2> QED BY <1>5, <1>15, <2>1, <2>2 DEF TreeOf
<1>17. table = Content(nodes)
  <2>1. Content(nodes) \in [1..0 -> {}]
    BY <1>5 DEF Content
  <2> QED BY <1>4, <2>1, NoneIs
<1>18. OpenInv(TRUE)
  <2>1. 1 \in 1..Len(shelf) /\ shelf[1].id = opened.id /\ shelf[1].rows = Content(opened.nodes)
        /\ shelf[1].filed = {}
    BY <1>7, <1>11, <1>14, <1>17
  <2>2. Seen(opened.nodes, shelf[1].rows)
    BY <1>14, <1>17, <2>1, ContentIs DEF Seen
  <2> QED BY <1>14, <1>16, <2>1, <2>2 DEF OpenInv
<1>19. OpenInv("open" \notin short) /\ PageInv("page" \notin short)
  BY <1>2, <1>3, <1>18 DEF OpenInv, PageInv
<1> QED BY <1>12, <1>19 DEF StoryInv

LEMMA StoryStep == ASSUME FileAssumed, StoryInv, [SF!Next]_SF!sfVars PROVE StoryInv'
<1>1. CASE UNCHANGED SF!sfVars
  <2>1. PICK a, b \in BOOLEAN : /\ a = ("open" \notin short) /\ b = ("page" \notin short)
                                /\ ShelfInv /\ OpenInv(a) /\ PageInv(b)
    BY StoryNow
  <2>2. UNCHANGED <<shelf, opened>> /\ UNCHANGED jsonl /\ UNCHANGED short
    BY <1>1 DEF SF!sfVars
  <2>3. ShelfInv' /\ OpenInv(a)'
    BY <2>1, <2>2, TableSame
  <2>4. PageInv(b)'
    BY <2>1, <2>2, PageSame
  <2>5. b = ("page" \notin short') /\ a = ("open" \notin short')
    BY <2>1, <2>2
  <2> QED BY <2>3, <2>4, <2>5, StoryThen
<1>2. ASSUME NEW asked \in Asks, NEW c \in Callings \cup {<<>>}, NEW x \in Answers, NEW r \in Replies,
             SF!Turn(asked, c, x, r)
      PROVE  StoryInv'
  BY <1>2, TurnStep
<1>3. CASE SF!ExportOpen
  BY <1>3, ExportOpenStep
<1>4. ASSUME NEW id \in SessionNames, SF!ExportStored(id) PROVE StoryInv'
  BY <1>4, ExportStoredStep
<1>5. ASSUME NEW d \in Places, SF!Import(d) PROVE StoryInv'
  BY <1>5, ImportStep
<1>6. ASSUME NEW d \in Places, SF!ForkFile(d) PROVE StoryInv'
  BY <1>6, ForkFileStep
<1>7. ASSUME NEW d \in Places, SF!Clone(d) PROVE StoryInv'
  BY <1>7, CloneStep
<1>8. ASSUME NEW d \in Places, SF!Fork(d) PROVE StoryInv'
  BY <1>8, ForkStep
<1>9. ASSUME NEW d \in Places, SF!NewSession(d) PROVE StoryInv'
  BY <1>9, NewSessionStep
<1>10. ASSUME NEW d \in Places, SF!Reopen(SF!Latest(d), FileReadMax) PROVE StoryInv'
  <2>1. \A id \in SF!Latest(d) : SF!Known(id)
    BY LatestKnown
  <2> QED BY <1>10, <2>1, ReopenStep, Limits
<1>11. ASSUME NEW ref, SF!Reopen(SF!Resolve(ref), FileReadMax) PROVE StoryInv'
  <2>1. \A id \in SF!Resolve(ref) : SF!Known(id)
    BY ResolveKnown DEF StoryInv
  <2> QED BY <1>11, <2>1, ReopenStep, Limits
<1>13. ASSUME NEW ref, SF!Resume(ref) PROVE StoryInv'
  <2>1. PICK ids : ids = SF!Begun(ref, ResumeListMax) \ {opened.id}
    OBVIOUS
  <2>2. \A id \in ids : SF!Known(id)
    BY <2>1, BegunKnown
  <2>3. SF!Reopen(ids, ResumeReadMax)
    BY <1>13, <2>1 DEF SF!Resume
  <2> QED BY <2>2, <2>3, ReopenStep, Limits
<1>12. ASSUME NEW ref, NEW d \in Places, SF!ForkStored(ref, d) PROVE StoryInv'
  BY <1>12, ForkStoredStep
<1> QED BY <1>1, <1>2, <1>3, <1>4, <1>5, <1>6, <1>7, <1>8, <1>9, <1>10, <1>11, <1>12, <1>13 DEF SF!Next

LEMMA StoryTyped == StoryInv => SF!TypeOK
<1> SUFFICES ASSUME StoryInv PROVE SF!TypeOK
  OBVIOUS
<1>1. PICK a, b \in BOOLEAN : /\ a = ("open" \notin short) /\ b = ("page" \notin short)
                              /\ ShelfInv /\ OpenInv(a) /\ PageInv(b)
  BY StoryNow
<1>2. /\ SF!Known(opened.id)
      /\ \E filed : TreeOf(opened.nodes, opened.at, filed, a)
  BY <1>1, OpenIs
<1>3. opened.at \in 0..Len(opened.nodes) /\ Neat(opened.nodes)
  BY <1>2 DEF TreeOf
<1>4. SF!IsInjective([i \in 1..Len(shelf) |-> shelf[i].id])
  BY <1>1 DEF SF!IsInjective, ShelfInv, IdsApart
<1> QED BY <1>2, <1>3, <1>4 DEF SF!TypeOK, Neat

LEMMA StoryTold == StoryInv => SF!StoryKept
<1> SUFFICES ASSUME StoryInv PROVE SF!StoryKept
  OBVIOUS
<1>1. PICK a, b \in BOOLEAN : /\ a = ("open" \notin short) /\ b = ("page" \notin short)
                              /\ ShelfInv /\ OpenInv(a) /\ PageInv(b)
  BY StoryNow
<1>2. PICK s : s = shelf[SF!At(opened.id)]
  OBVIOUS
<1>3. /\ s \in Shelved /\ Seen(opened.nodes, s.rows)
      /\ TreeOf(opened.nodes, opened.at, s.filed, a)
      /\ a => Keeps(SF!Blocks(opened.nodes), s.told, s.filed)
  BY <1>1, <1>2, OpenIs
<1>4. /\ Neat(opened.nodes) /\ opened.at \in 0..Len(opened.nodes)
      /\ a => opened.at = Len(opened.nodes) /\ Spine(opened.nodes, opened.at, SF!Lasting)
      /\ s.filed = {} => Straight(opened.nodes, opened.at)
  BY <1>3 DEF TreeOf
<1>5. Climbing(opened.nodes) /\ opened.nodes \in Seq(SF!Anyhow)
  BY <1>4, NeatGrown DEF Neat
<1>6. PICK now : now = SF!Blocks(SF!Path(opened))
  OBVIOUS
<1>7. PICK table : table = SF!Blocks(s.rows)
  OBVIOUS
<1>8. SF!ToSet(SF!Blocks(opened.nodes)) \subseteq SF!ToSet(table)
  BY <1>3, <1>7 DEF Seen
<1>9. Keeps(table, s.told, s.filed)
  BY <1>3, <1>7, SessionKeeps, Zenon
<1>10. "open" \notin short => SF!Only(now, SF!Lasting) = SF!Only(s.told, SF!Lasting)
  <2> SUFFICES ASSUME "open" \notin short PROVE SF!Only(now, SF!Lasting) = SF!Only(s.told, SF!Lasting)
    OBVIOUS
  <2>1. opened.at = Len(opened.nodes) /\ Spine(opened.nodes, opened.at, SF!Lasting)
    BY <1>1, <1>4
  <2>2. SF!Only(now, SF!Lasting) = SF!Only(SF!Blocks(opened.nodes), SF!Lasting)
    BY <1>5, <1>6, <2>1, PathKeeps
  <2>3. Keeps(SF!Blocks(opened.nodes), s.told, s.filed)
    BY <1>1, <1>3
  <2> QED BY <2>2, <2>3 DEF Keeps
<1>11. SF!Path(opened) = Walk(opened.nodes, opened.at)
  BY PathIs
<1>12. s.filed = {} => table = s.told /\ ("open" \notin short => now = s.told)
  <2> SUFFICES ASSUME s.filed = {} PROVE table = s.told /\ ("open" \notin short => now = s.told)
    OBVIOUS
  <2>1. SF!Blocks(Walk(opened.nodes, opened.at)) = SF!Blocks(opened.nodes)
    BY <1>4, <1>5, StraightPath
  <2>2. table = s.told
    BY <1>9 DEF Keeps
  <2>3. "open" \notin short => SF!Blocks(opened.nodes) = s.told
    BY <1>1, <1>3 DEF Keeps
  <2> QED BY <1>6, <1>11, <2>1, <2>2, <2>3
<1>13. SF!ToSet(now) \subseteq SF!ToSet(table)
  <2>1. opened.at \in -1..Len(opened.nodes)
    BY <1>4, <1>5, SeqFrom
  <2>2. PICK w \in Seq(SF!Anyhow) : w = Walk(opened.nodes, opened.at)
    BY <1>5, <2>1, WalkType
  <2>3. \A i \in 1..Len(w) : \E k \in 1..Len(opened.nodes) : w[i] = opened.nodes[k]
    BY <1>5, <2>1, <2>2, WalkType
  <2>4. ASSUME NEW x \in SF!ToSet(now) PROVE x \in SF!ToSet(table)
    <3>1. x \in SF!ToSet(SF!Blocks(w))
      BY <1>6, <1>11, <2>2
    <3>2. PICK i \in 1..Len(w) : x \in SF!ToSet(w[i].has)
      BY <3>1, NodesAre, BlocksHas
    <3>3. PICK k \in 1..Len(opened.nodes) : w[i] = opened.nodes[k]
      BY <2>3
    <3>4. x \in SF!ToSet(SF!Blocks(opened.nodes))
      BY <1>5, <3>2, <3>3, NodesAre, BlocksHas
    <3> QED BY <1>8, <3>4
  <2> QED BY <2>4
<1>14. /\ SF!Only(table, SF!Lasting) = SF!Only(s.told, SF!Lasting)
       /\ "fork" \notin s.filed => SF!OfKind(s.told, {"result"}) = SF!OfKind(table, {"result"})
  BY <1>9, OfKindIs DEF Keeps, ResultBlocks
<1> QED BY <1>2, <1>6, <1>7, <1>10, <1>12, <1>13, <1>14 DEF SF!StoryKept
=============================================================================
