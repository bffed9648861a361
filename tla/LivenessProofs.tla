--------------------------- MODULE LivenessProofs ---------------------------
(***************************************************************************)
(* The invariants of the parts that are checked for progress, for any      *)
(* number of requests, calls, waiters and nodes.                           *)
(*                                                                         *)
(* A tenant stays within max_concurrent_runs when nothing overlaps an      *)
(* admission (Overlap = {}).  The counter alone cannot show it: after a    *)
(* loss of Redis' data it counts less than the slots taken (it lags), and  *)
(* the correction sets it to a number of rows that was read earlier.  The  *)
(* invariant therefore bounds the attempts that hold or will hold a row    *)
(* (Taken) instead, and says of an attempt in the middle that the rows it  *)
(* has read are no fewer than those, whenever its decision rests on them.  *)
(*                                                                         *)
(* The answer of a shell is all of its output because the pipe goes on     *)
(* where what was kept ends (Kept), and the reader comes to the end only   *)
(* when nobody can write any more (Closed).                                *)
(***************************************************************************)
EXTENDS MCLiveness, FiniteSetTheorems, SequenceTheorems, TLAPS

-----------------------------------------------------------------------------
(* The parts *)

LEMMA Parts ==
  /\ Init => AD!Init /\ CF!Init /\ RP!Init /\ BC!Init /\ EE!Init
  /\ [Next]_vars => /\ [AD!Next]_AD!admVars /\ [CF!Next]_CF!cancelVars /\ [RP!Next]_RP!rpcVars
                    /\ [BC!Next]_BC!bashVars /\ [EE!Next]_EE!vars
<1>1. Init => AD!Init /\ CF!Init /\ RP!Init /\ BC!Init /\ EE!Init
  BY DEF Init
<1>2. ASSUME [Next]_vars PROVE [AD!Next]_AD!admVars
  BY <1>2 DEF Next, vars, Others, admVars, AD!admVars
<1>3. ASSUME [Next]_vars PROVE [CF!Next]_CF!cancelVars
  BY <1>3 DEF Next, vars, Others, cancelVars, CF!cancelVars
<1>4. ASSUME [Next]_vars PROVE [RP!Next]_RP!rpcVars
  BY <1>4 DEF Next, vars, Others, rpcVars, RP!rpcVars
<1>5. ASSUME [Next]_vars PROVE [BC!Next]_BC!bashVars
  BY <1>5 DEF Next, vars, Others, bashVars, BC!bashVars
<1>6. ASSUME [Next]_vars PROVE [EE!Next]_EE!vars
  BY <1>6 DEF Next, vars, Others, engineVars, EE!vars
<1> QED BY <1>1, <1>2, <1>3, <1>4, <1>5, <1>6


-----------------------------------------------------------------------------
(* The quota *)

Taking == {"paced", "admitted", "running", "lost"}
Holding == Taking \cup {"undo", "giveback"}
Places == Holding \cup {"idle", "over", "counted", "raised"}

\* The attempts that have a row, or will have one unless they are refused.
Taken == {a \in Attempts : pa[a] \in Taking}

Lags == conc < Cardinality(AD!Slots)
Limit == IF redis THEN Max ELSE 1

Types ==
  /\ conc \in Int /\ redis \in BOOLEAN /\ tallied \in Int
  /\ pa \in [Attempts -> Places]
  /\ active \in [Attempts -> Nat]

Rows == leased = {a \in Attempts : pa[a] \in {"running", "lost"}}

\* With Redis: one attempt corrects the counter at a time, and what it has read
\* covers all that is taken, with room for the counted ones beside it.
Raised ==
  \A a \in Attempts : pa[a] = "raised" =>
    /\ redis
    /\ Cardinality(Taken) <= active[a]
    /\ \A b \in Attempts \ {a} :
         pa[b] # "raised" /\ (pa[b] = "counted" => Cardinality(AD!Slots) < active[a])

\* Who has counted the rows has counted enough, when the counter lags, and
\* without Redis, where it is alone.
Counted ==
  \A a \in Attempts : pa[a] = "counted" =>
    /\ ~redis \/ Lags => Cardinality(Taken) <= active[a]
    /\ ~redis => \A b \in Attempts \ {a} : pa[b] # "counted"

\* Without Redis nobody comes to the counter.
NoCounter == ~redis => \A a \in Attempts : pa[a] \notin {"undo", "paced"}

Quiet == tallied # -1 => AD!Amid = {}

AInv ==
  /\ Types /\ Rows /\ Raised /\ Counted /\ NoCounter /\ Quiet
  /\ Cardinality(Taken) <= Limit

Setting == IsFiniteSet(Attempts) /\ Max \in Nat /\ Overlap = {}

-----------------------------------------------------------------------------
(* Counting *)

\* FiniteSets as the module of the quota sees it is FiniteSets.
LEMMA SameSize == \A S : AD!Cardinality(S) = Cardinality(S)
BY DEF Cardinality, AD!Cardinality

LEMMA Finite ==
  ASSUME Setting
  PROVE  /\ IsFiniteSet(Taken) /\ IsFiniteSet(AD!Slots)
         /\ Cardinality(Taken) \in Nat /\ Cardinality(AD!Slots) \in Nat
         /\ Cardinality(Taken) <= Cardinality(AD!Slots)
<1>1. Taken \subseteq Attempts /\ AD!Slots \subseteq Attempts /\ Taken \subseteq AD!Slots
  BY DEF Taken, AD!Slots, Taking
<1>2. IsFiniteSet(Taken) /\ IsFiniteSet(AD!Slots)
  BY <1>1, FS_Subset DEF Setting
<1>3. Cardinality(Taken) <= Cardinality(AD!Slots)
  BY <1>1, <1>2, FS_Subset
<1> QED BY <1>2, <1>3, FS_CardinalityType

\* The number of members, when one comes or goes.
LEMMA OneMore ==
  ASSUME NEW S, IsFiniteSet(S), NEW x, x \notin S
  PROVE  Cardinality(S \cup {x}) = Cardinality(S) + 1
BY FS_AddElement

LEMMA OneLess ==
  ASSUME NEW S, IsFiniteSet(S), NEW x, x \in S
  PROVE  Cardinality(S \ {x}) = Cardinality(S) - 1
BY FS_RemoveElement

\* What a move of an attempt does to the numbers of the taken and of the slots.
LEMMA MoveCounts ==
  ASSUME Setting, pa \in [Attempts -> Places], NEW a \in Attempts, NEW from, NEW to,
         AD!Goto(a, from, to)
  PROVE  /\ Cardinality(Taken)' = Cardinality(Taken)
              + (IF to \in Taking THEN 1 ELSE 0) - (IF from \in Taking THEN 1 ELSE 0)
         /\ Cardinality(AD!Slots)' = Cardinality(AD!Slots)
              + (IF to \in Holding THEN 1 ELSE 0) - (IF from \in Holding THEN 1 ELSE 0)
<1>1. pa[a] = from /\ pa' = [pa EXCEPT ![a] = to]
  BY DEF AD!Goto
<1>2. Taken' = IF to \in Taking THEN Taken \cup {a} ELSE Taken \ {a}
  BY <1>1 DEF Taken
<1>3. AD!Slots' = IF to \in Holding THEN AD!Slots \cup {a} ELSE AD!Slots \ {a}
  BY <1>1 DEF AD!Slots, Holding, Taking
<1>4. (a \in Taken <=> from \in Taking) /\ (a \in AD!Slots <=> from \in Holding)
  BY <1>1 DEF Taken, AD!Slots, Holding, Taking
<1>5. IsFiniteSet(Taken) /\ IsFiniteSet(AD!Slots)
      /\ Cardinality(Taken) \in Nat /\ Cardinality(AD!Slots) \in Nat
  BY Finite
<1>6. ASSUME NEW S, IsFiniteSet(S), Cardinality(S) \in Nat, NEW K,
             a \in S <=> from \in K
      PROVE  Cardinality(IF to \in K THEN S \cup {a} ELSE S \ {a}) = Cardinality(S)
               + (IF to \in K THEN 1 ELSE 0) - (IF from \in K THEN 1 ELSE 0)
  <2>1. CASE to \in K /\ from \in K
    <3>1. (IF to \in K THEN S \cup {a} ELSE S \ {a}) = S
      BY <1>6, <2>1
    <3>2. Cardinality(S) = Cardinality(S) + 1 - 1
      BY <1>6
    <3> QED BY <2>1, <3>1, <3>2
  <2>2. CASE to \in K /\ from \notin K
    BY <1>6, <2>2, OneMore
  <2>3. CASE to \notin K /\ from \in K
    BY <1>6, <2>3, OneLess
  <2>4. CASE to \notin K /\ from \notin K
    <3>1. a \notin S
      BY <1>6, <2>4
    <3>2. S = IF to \in K THEN S \cup {a} ELSE S \ {a}
      BY <2>4, <3>1
    <3>3. Cardinality(S) = Cardinality(S) + 0 - 0
      BY <1>6
    <3> QED BY <2>4, <3>2, <3>3
  <2> QED BY <2>1, <2>2, <2>3, <2>4
<1>7. Cardinality(Taken') = Cardinality(Taken)
        + (IF to \in Taking THEN 1 ELSE 0) - (IF from \in Taking THEN 1 ELSE 0)
  BY <1>2, <1>4, <1>5, <1>6
<1>8. Cardinality(AD!Slots') = Cardinality(AD!Slots)
        + (IF to \in Holding THEN 1 ELSE 0) - (IF from \in Holding THEN 1 ELSE 0)
  BY <1>3, <1>4, <1>5, <1>6
<1> QED BY <1>7, <1>8

-----------------------------------------------------------------------------
(* The invariant, action by action *)

LEMMA InitAInv == Setting /\ AD!Init => AInv
<1> SUFFICES ASSUME Setting, AD!Init PROVE AInv
  OBVIOUS
<1>1. Types /\ Rows /\ Raised /\ Counted /\ NoCounter /\ Quiet
  BY DEF AD!Init, Types, Rows, Raised, Counted, NoCounter, Quiet, Places, Holding, Taking
<1>2. Taken = {}
  BY DEF AD!Init, Taken, Taking
<1>3. Cardinality(Taken) = 0
  BY <1>2, FS_EmptySet
<1>4. Limit \in Nat
  BY DEF Limit, Setting
<1> QED BY <1>1, <1>3, <1>4 DEF AInv

Busy == {"counted", "raised", "undo", "paced", "admitted", "giveback"}

\* A step that moves one attempt.
Move(a, from, to, n) ==
  /\ AD!Goto(a, from, to) /\ to \in Places
  /\ active' = [active EXCEPT ![a] = n] /\ n \in Nat
  /\ conc' \in Int /\ redis' = redis /\ tallied' = tallied
  /\ leased' = IF to \in {"running", "lost"} THEN leased \cup {a} ELSE leased \ {a}
  /\ to \in Busy => from \in Busy \/ tallied = -1
  /\ redis \/ to \notin {"undo", "paced"}

LEMMA MoveTypes ==
  ASSUME AInv, NEW a \in Attempts, NEW from, NEW to, NEW n, Move(a, from, to, n)
  PROVE  /\ Types' /\ Rows' /\ NoCounter' /\ Quiet'
         /\ pa[a] = from /\ pa'[a] = to /\ active'[a] = n
         /\ \A b \in Attempts \ {a} : pa'[b] = pa[b] /\ active'[b] = active[b]
<1>a. Types /\ Rows /\ NoCounter /\ Quiet
  BY DEF AInv
<1>1. pa[a] = from /\ pa' = [pa EXCEPT ![a] = to] /\ to \in Places
  BY DEF Move, AD!Goto
<1>2. /\ pa' \in [Attempts -> Places] /\ pa'[a] = to
      /\ \A b \in Attempts \ {a} : pa'[b] = pa[b]
  BY <1>a, <1>1 DEF Types
<1>3. /\ active' \in [Attempts -> Nat] /\ active'[a] = n
      /\ \A b \in Attempts \ {a} : active'[b] = active[b]
  BY <1>a DEF Move, Types
<1>4. Types'
  BY <1>a, <1>2, <1>3 DEF Move, Types
<1>5. Rows'
  BY <1>a, <1>2 DEF Rows, Move
<1>6. NoCounter'
  BY <1>a, <1>2 DEF NoCounter, Move
<1>7. Quiet'
  <2> SUFFICES ASSUME tallied' # -1 PROVE AD!Amid' = {}
    BY DEF Quiet
  <2>1. AD!Amid = {} /\ tallied # -1
    BY <1>a DEF Quiet, Move
  <2>2. \A b \in Attempts : pa[b] \notin Busy
    BY <2>1 DEF AD!Amid, Busy
  <2>3. \A b \in Attempts : pa'[b] \notin Busy
    BY <2>1, <2>2, <1>1, <1>2 DEF Move
  <2> QED BY <2>3 DEF AD!Amid, Busy
<1> QED BY <1>1, <1>2, <1>3, <1>4, <1>5, <1>6, <1>7

\* A move to where nothing is decided any more keeps the invariant, if what is
\* taken stays within the limit, nobody corrects the counter meanwhile or
\* nothing more is taken, and who has counted has still counted enough.
LEMMA MoveKeeps ==
  ASSUME Setting, AInv, NEW a \in Attempts, NEW from, NEW to, NEW n, Move(a, from, to, n),
         to \notin {"counted", "raised"},
         Cardinality(Taken)' <= Limit,
         \/ \A b \in Attempts \ {a} : pa[b] # "raised"
         \/ /\ Cardinality(Taken)' <= Cardinality(Taken)
            /\ Cardinality(AD!Slots)' <= Cardinality(AD!Slots),
         \A b \in Attempts \ {a} : pa[b] = "counted" /\ (~redis \/ Lags') =>
            Cardinality(Taken)' <= active[b]
  PROVE  AInv'
<1>a. Types /\ Raised /\ Counted
  BY DEF AInv
<1>1. /\ Types' /\ Rows' /\ NoCounter' /\ Quiet' /\ pa'[a] = to
      /\ \A b \in Attempts \ {a} : pa'[b] = pa[b] /\ active'[b] = active[b]
      /\ redis' = redis
  BY MoveTypes DEF Move
<1>2. /\ Cardinality(Taken) \in Nat /\ Cardinality(AD!Slots) \in Nat
      /\ Cardinality(Taken)' \in Nat /\ Cardinality(AD!Slots)' \in Nat
  <2>1. Setting'
    BY DEF Setting
  <2>2. Cardinality(Taken') \in Nat /\ Cardinality(AD!Slots') \in Nat
    <3>1. Taken' \subseteq Attempts /\ AD!Slots' \subseteq Attempts
      BY DEF Taken, AD!Slots
    <3>2. IsFiniteSet(Taken') /\ IsFiniteSet(AD!Slots')
      BY <3>1, FS_Subset DEF Setting
    <3> QED BY <3>2, FS_CardinalityType
  <2> QED BY <2>2, Finite
<1>3. Raised'
  <2> SUFFICES ASSUME NEW b \in Attempts, pa'[b] = "raised"
               PROVE  /\ redis'
                      /\ Cardinality(Taken)' <= active'[b]
                      /\ \A c \in Attempts \ {b} :
                           /\ pa'[c] # "raised"
                           /\ pa'[c] = "counted" => Cardinality(AD!Slots)' < active'[b]
    BY DEF Raised
  <2>1. b # a /\ pa[b] = "raised" /\ active'[b] = active[b] /\ active[b] \in Nat
    BY <1>1, <1>a DEF Types
  <2>2. /\ Cardinality(Taken)' <= Cardinality(Taken)
        /\ Cardinality(AD!Slots)' <= Cardinality(AD!Slots)
    BY <2>1
  <2>3. /\ redis /\ Cardinality(Taken) <= active[b]
        /\ \A c \in Attempts \ {b} :
             pa[c] # "raised" /\ (pa[c] = "counted" => Cardinality(AD!Slots) < active[b])
    BY <2>1, <1>a DEF Raised
  <2>4. \A c \in Attempts \ {b} : pa'[c] # "raised" /\ (pa'[c] = "counted" => pa[c] = "counted")
    BY <1>1, <2>3
  <2> QED BY <2>1, <2>2, <2>3, <2>4, <1>1, <1>2
<1>4. Counted'
  <2> SUFFICES ASSUME NEW b \in Attempts, pa'[b] = "counted"
               PROVE  /\ ~redis' \/ Lags' => Cardinality(Taken)' <= active'[b]
                      /\ ~redis' => \A c \in Attempts \ {b} : pa'[c] # "counted"
    BY DEF Counted
  <2>1. b # a /\ pa[b] = "counted" /\ active'[b] = active[b]
    BY <1>1
  <2>2. ~redis => \A c \in Attempts \ {b} : pa[c] # "counted"
    BY <2>1, <1>a DEF Counted
  <2>3. ~redis => \A c \in Attempts \ {b} : pa'[c] # "counted"
    BY <2>2, <1>1
  <2> QED BY <2>1, <2>3, <1>1
<1>5. Limit' = Limit
  BY <1>1 DEF Limit
<1> QED BY <1>1, <1>3, <1>4, <1>5 DEF AInv

\* Count: without an overlap nobody else is between its own count and its row
\* where the rows decide.
LEMMA CountKeeps == ASSUME Setting, AInv, NEW a \in Attempts, AD!Count(a) PROVE AInv'
<1>1. PICK to \in {"over", "counted"} : AD!Goto(a, "idle", to)
  BY DEF AD!Count
<1>a. Types /\ Rows /\ Raised /\ Counted /\ NoCounter /\ Quiet /\ Cardinality(Taken) <= Limit
  BY DEF AInv
<1>2. Cardinality(leased) \in Nat
  <2>1. leased \subseteq Attempts
    BY <1>a DEF Rows
  <2>2. IsFiniteSet(leased)
    BY <2>1, FS_Subset DEF Setting
  <2> QED BY <2>2, FS_CardinalityType
<1>3. /\ Types' /\ Rows' /\ NoCounter' /\ Quiet'
      /\ \A b \in Attempts \ {a} : pa'[b] = pa[b] /\ active'[b] = active[b]
  <2>1. Move(a, "idle", to, Cardinality(leased))
    <3>1. to \in Places
      BY <1>1 DEF Places
    <3>2. conc' \in Int /\ redis' = redis /\ tallied' = tallied /\ leased' = leased /\ tallied = -1
      BY <1>a DEF AD!Count, Types, AD!Undisturbed, Setting
    <3>3. active' = [active EXCEPT ![a] = Cardinality(leased)]
      BY SameSize DEF AD!Count
    <3>4. leased = leased \ {a}
      BY <1>1, <1>a DEF AD!Goto, Rows
    <3> QED BY <1>1, <1>2, <3>1, <3>2, <3>3, <3>4 DEF Move
  <2> QED BY <2>1, MoveTypes
<1>4. Cardinality(Taken)' = Cardinality(Taken) /\ Cardinality(AD!Slots)' = Cardinality(AD!Slots)
  <2>1. /\ Cardinality(Taken)' = Cardinality(Taken) + 0 - 0
        /\ Cardinality(AD!Slots)' = Cardinality(AD!Slots) + 0 - 0
    BY <1>1, <1>a, MoveCounts DEF Types, Holding, Taking
  <2> QED BY <2>1, Finite
<1>5. active'[a] = Cardinality(leased) /\ pa[a] = "idle" /\ pa'[a] = to
  BY <1>1, <1>a, SameSize DEF AD!Count, Types, AD!Goto
<1>6. UNCHANGED <<conc, leased, redis, tallied>>
  BY DEF AD!Count
<1>7. ~redis \/ Lags => AD!Amid = {}
  <2>1. CASE ~redis
    BY <2>1 DEF AD!Count, Setting
  <2>2. CASE redis /\ Lags
    <3>1. AD!Amid \subseteq {a}
      BY <2>2, SameSize DEF AD!Count, AD!Alone, Lags, Setting
    <3>2. a \notin AD!Amid
      BY <1>5 DEF AD!Amid
    <3> QED BY <3>1, <3>2
  <2> QED BY <2>1, <2>2
<1>8. AD!Amid = {} => Taken = leased /\ \A b \in Attempts : pa[b] # "counted"
  BY <1>a DEF AD!Amid, Taken, Taking, Rows
<1>10. Raised'
  <2>1. \A b \in Attempts \ {a} : pa[b] # "raised"
    BY DEF AD!Count, AD!Alone, Setting
  <2> QED BY <2>1, <1>3, <1>5, <1>1 DEF Raised
<1>11. Counted'
  <2>1. ~redis \/ Lags => Cardinality(Taken) <= active'[a] /\ \A b \in Attempts : pa[b] # "counted"
    BY <1>2, <1>5, <1>7, <1>8
  <2>2. Lags' = Lags
    BY <1>4, <1>6 DEF Lags
  <2> QED BY <2>1, <2>2, <1>a, <1>3, <1>4, <1>6 DEF Counted
<1>14. Cardinality(Taken)' <= Limit'
  BY <1>a, <1>4, <1>6 DEF Limit
<1> QED BY <1>3, <1>10, <1>11, <1>14 DEF AInv

Leaves(from, to) ==
  /\ to \notin {"counted", "raised"}
  /\ to \in Taking => from \in Taking
  /\ to \in Holding => from \in Holding
Returns(from, to) == from \in Holding /\ to \notin Holding

\* A move that takes nothing more, and lets the counter lag no more than before.
LEMMA LeaveKeeps ==
  ASSUME Setting, AInv, NEW a \in Attempts, NEW from, NEW to, Move(a, from, to, active[a]),
         Leaves(from, to), conc' >= conc \/ (conc' = conc - 1 /\ Returns(from, to))
  PROVE  AInv'
<1>a. Types /\ Counted /\ Cardinality(Taken) <= Limit /\ Limit \in Nat
  BY DEF AInv, Limit, Setting
<1>b. /\ Cardinality(Taken) \in Nat /\ Cardinality(AD!Slots) \in Nat
      /\ conc \in Int /\ conc' \in Int
  BY <1>a, Finite DEF Types, Move
<1>1. /\ Cardinality(Taken)' = Cardinality(Taken)
           + (IF to \in Taking THEN 1 ELSE 0) - (IF from \in Taking THEN 1 ELSE 0)
      /\ Cardinality(AD!Slots)' = Cardinality(AD!Slots)
           + (IF to \in Holding THEN 1 ELSE 0) - (IF from \in Holding THEN 1 ELSE 0)
  BY <1>a, MoveCounts DEF Types, Move
<1>2. Cardinality(Taken)' <= Cardinality(Taken) /\ Cardinality(Taken)' \in Int
  BY <1>1, <1>b DEF Leaves
<1>3. Cardinality(AD!Slots)' <= Cardinality(AD!Slots) /\ (Lags' => Lags)
  BY <1>1, <1>b DEF Lags, Leaves, Returns
<1>4. \A b \in Attempts \ {a} : pa[b] = "counted" /\ (~redis \/ Lags') =>
         Cardinality(Taken)' <= active[b]
  <2> SUFFICES ASSUME NEW b \in Attempts, pa[b] = "counted", ~redis \/ Lags'
               PROVE  Cardinality(Taken)' <= active[b]
    OBVIOUS
  <2>1. Cardinality(Taken) <= active[b] /\ active[b] \in Nat
    BY <1>3, <1>a DEF Counted, Types
  <2> QED BY <2>1, <1>2, <1>b
<1>5. Cardinality(Taken)' <= Limit
  BY <1>2, <1>a, <1>b
<1>6. to \notin {"counted", "raised"}
  BY DEF Leaves
<1> QED BY <1>2, <1>3, <1>4, <1>5, <1>6, MoveKeeps

\* The end of an admission, and everything after it.
LEMMA LeavingKeeps ==
  ASSUME Setting, AInv, NEW a \in Attempts,
         \/ AD!LedgerRefuses(a) \/ AD!Undo(a) \/ AD!Pace(a) \/ AD!Lease(a) \/ AD!LeaseRefused(a)
         \/ AD!Unlease(a) \/ AD!ReleaseRun(a) \/ AD!Lost(a) \/ AD!Reap(a)
  PROVE  AInv'
<1>a. Types /\ Rows /\ NoCounter
  BY DEF AInv
<1>b. active[a] \in Nat /\ active = [active EXCEPT ![a] = active[a]] /\ conc \in Int
  BY <1>a DEF Types
<1>r. a \in leased <=> pa[a] \in {"running", "lost"}
  BY <1>a DEF Rows
<1>1. CASE AD!LedgerRefuses(a)
  <2>1. Move(a, "idle", "over", active[a]) /\ conc' = conc
    BY <1>1, <1>a, <1>b, <1>r DEF Move, AD!Goto, Places, Holding, Taking, Busy, AD!LedgerRefuses
  <2>3. Leaves("idle", "over")
    BY DEF Leaves, Returns, Holding, Taking
  <2> QED BY <2>1, <2>3, <1>b, LeaveKeeps
<1>2. CASE AD!Undo(a)
  <2>1. Move(a, "undo", "over", active[a]) /\ conc' = conc - 1
    BY <1>2, <1>a, <1>b, <1>r DEF Move, AD!Goto, Places, Holding, Taking, Busy, AD!Undo
  <2>3. Leaves("undo", "over") /\ Returns("undo", "over")
    BY DEF Leaves, Returns, Holding, Taking
  <2> QED BY <2>1, <2>3, <1>b, LeaveKeeps
<1>3. CASE AD!Pace(a)
  <2>0. redis
    BY <1>3, <1>a DEF AD!Pace, AD!Goto, NoCounter
  <2>1. PICK to \in {"undo", "admitted"} : AD!Goto(a, "paced", to)
    BY <1>3 DEF AD!Pace
  <2>2. Move(a, "paced", to, active[a]) /\ conc' = conc
    BY <1>3, <1>a, <1>b, <1>r, <2>0, <2>1 DEF Move, AD!Goto, Places, Holding, Taking, Busy, AD!Pace
  <2>3. Leaves("paced", to)
    BY DEF Leaves, Returns, Holding, Taking
  <2> QED BY <2>2, <2>3, <1>b, LeaveKeeps
<1>4. CASE AD!Lease(a)
  <2>1. Move(a, "admitted", "running", active[a]) /\ conc' = conc
    BY <1>4, <1>a, <1>b, <1>r DEF Move, AD!Goto, Places, Holding, Taking, Busy, AD!Lease
  <2>3. Leaves("admitted", "running")
    BY DEF Leaves, Returns, Holding, Taking
  <2> QED BY <2>1, <2>3, <1>b, LeaveKeeps
<1>5. CASE AD!LeaseRefused(a)
  <2>1. PICK to \in {"undo", "over"} : AD!Goto(a, "admitted", to) /\ (redis \/ to # "undo")
    BY <1>5 DEF AD!LeaseRefused
  <2>2. Move(a, "admitted", to, active[a]) /\ conc' = conc
    BY <1>5, <1>a, <1>b, <1>r, <2>1 DEF Move, AD!Goto, Places, Holding, Taking, Busy, AD!LeaseRefused
  <2>3. Leaves("admitted", to)
    BY DEF Leaves, Returns, Holding, Taking
  <2> QED BY <2>2, <2>3, <1>b, LeaveKeeps
<1>6. CASE AD!Unlease(a)
  <2>0. tallied = -1
    BY <1>6 DEF AD!Unlease, AD!Undisturbed, Setting
  <2>1. Move(a, "running", "giveback", active[a]) /\ conc' = conc
    BY <1>6, <1>a, <1>b, <1>r, <2>0 DEF Move, AD!Goto, Places, Holding, Taking, Busy, AD!Unlease
  <2>3. Leaves("running", "giveback")
    BY DEF Leaves, Returns, Holding, Taking
  <2> QED BY <2>1, <2>3, <1>b, LeaveKeeps
<1>7. CASE AD!ReleaseRun(a)
  <2>1. Move(a, "giveback", "over", active[a]) /\ conc' \in {conc, conc - 1}
    BY <1>7, <1>a, <1>b, <1>r DEF Move, AD!Goto, Places, Holding, Taking, Busy, AD!ReleaseRun
  <2>3. Leaves("giveback", "over") /\ Returns("giveback", "over")
    BY DEF Leaves, Returns, Holding, Taking
  <2> QED BY <2>1, <2>3, <1>b, LeaveKeeps
<1>8. CASE AD!Lost(a)
  <2>1. Move(a, "running", "lost", active[a]) /\ conc' = conc
    <3>1. leased = leased \cup {a}
      BY <1>8, <1>r DEF AD!Lost, AD!Goto
    <3> QED BY <1>8, <1>a, <1>b, <3>1
      DEF AD!Lost, Types, Move, AD!Goto, Places, Holding, Taking, Busy
  <2>3. Leaves("running", "lost")
    BY DEF Leaves, Returns, Holding, Taking
  <2> QED BY <2>1, <2>3, <1>b, LeaveKeeps
<1>9. CASE AD!Reap(a)
  <2>1. Move(a, "lost", "over", active[a]) /\ conc' = conc
    BY <1>9, <1>a, <1>b, <1>r DEF Move, AD!Goto, Places, Holding, Taking, Busy, AD!Reap
  <2>3. Leaves("lost", "over")
    BY DEF Leaves, Returns, Holding, Taking
  <2> QED BY <2>1, <2>3, <1>b, LeaveKeeps
<1> QED BY <1>1, <1>2, <1>3, <1>4, <1>5, <1>6, <1>7, <1>8, <1>9

\* Without Redis the rows decide: whoever is admitted has read that there is
\* none, and was alone since.
LEMMA AdmitByRowsKeeps ==
  ASSUME Setting, AInv, NEW a \in Attempts, AD!AdmitByRows(a) PROVE AInv'
<1>a. Types /\ Rows /\ Raised /\ Counted /\ Cardinality(Taken) <= Limit
  BY DEF AInv
<1>b. /\ active[a] \in Nat /\ active = [active EXCEPT ![a] = active[a]]
      /\ Cardinality(Taken) \in Nat /\ Cardinality(AD!Slots) \in Nat
  BY <1>a, Finite DEF Types
<1>1. PICK to \in {"over", "admitted"} :
        AD!Goto(a, "counted", to) /\ (to = "admitted" <=> ~(active[a] >= 1))
  BY DEF AD!AdmitByRows
<1>2. ~redis /\ pa[a] = "counted"
  BY <1>1 DEF AD!AdmitByRows, AD!Goto
<1>3. Move(a, "counted", to, 0)
  <2>1. a \notin leased
    BY <1>a, <1>2 DEF Rows
  <2>2. leased' = leased \ {a}
    BY <2>1 DEF AD!AdmitByRows
  <2> QED
    BY <1>1, <1>2, <2>2, <1>a DEF AD!AdmitByRows, AD!Forget, Move, Types, Places, Holding, Taking, Busy
<1>4. Cardinality(Taken)' =
        Cardinality(Taken) + (IF to \in Taking THEN 1 ELSE 0) - (IF "counted" \in Taking THEN 1 ELSE 0)
  BY <1>a, <1>1, MoveCounts DEF Types
<1>5. Cardinality(Taken) <= active[a]
      /\ \A b \in Attempts \ {a} : pa[b] # "counted" /\ pa[b] # "raised"
  BY <1>a, <1>2 DEF Counted, Raised
<1>6. Cardinality(Taken)' <= Limit
  <2>1. CASE to = "admitted"
    <3>1. Cardinality(Taken)' = Cardinality(Taken) + 1
      BY <2>1, <1>4, <1>b DEF Taking
    <3> QED BY <3>1, <2>1, <1>1, <1>5, <1>b, <1>2 DEF Limit
  <2>2. CASE to = "over"
    <3>1. Cardinality(Taken)' = Cardinality(Taken)
      BY <2>2, <1>4, <1>b DEF Taking
    <3> QED BY <3>1, <1>a
  <2> QED BY <2>1, <2>2
<1> QED BY <1>3, <1>5, <1>6, MoveKeeps

\* With Redis: the counter decides, or, while it lags, the rows.
LEMMA RaiseKeeps == ASSUME Setting, AInv, NEW a \in Attempts, AD!Raise(a) PROVE AInv'
<1>a. Types /\ Rows /\ Raised /\ Counted /\ Cardinality(Taken) <= Limit
  BY DEF AInv
<1>b. /\ active[a] \in Nat /\ active = [active EXCEPT ![a] = active[a]] /\ conc \in Int
      /\ Cardinality(Taken) \in Nat /\ Cardinality(AD!Slots) \in Nat /\ Max \in Nat
      /\ Cardinality(Taken) <= Cardinality(AD!Slots)
  BY <1>a, Finite DEF Types, Setting
<1>1. PICK to \in {"raised", "undo", "paced"} :
        /\ AD!Goto(a, "counted", to)
        /\ to = "raised" => conc + 1 < active[a]
        /\ to = "paced" => conc + 1 >= active[a] /\ conc + 1 <= Max /\ active[a] < Max
  <2>1. CASE conc + 1 < active[a]
    BY <2>1 DEF AD!Raise
  <2>2. CASE ~(conc + 1 < active[a]) /\ (conc + 1 > Max \/ active[a] >= Max)
    BY <2>2 DEF AD!Raise
  <2>3. CASE ~(conc + 1 < active[a]) /\ ~(conc + 1 > Max \/ active[a] >= Max)
    BY <2>3, <1>b DEF AD!Raise
  <2> QED BY <2>1, <2>2, <2>3
<1>2. redis /\ pa[a] = "counted" /\ conc' = conc + 1 /\ redis' = redis
  BY <1>1 DEF AD!Raise, AD!Goto
<1>3. \A b \in Attempts \ {a} : pa[b] # "raised" /\ (Lags => pa[b] # "counted")
  BY SameSize DEF AD!Raise, AD!Alone, Setting, AD!Amid, Lags
<1>4. Lags => Cardinality(Taken) <= active[a]
  BY <1>a, <1>2 DEF Counted
<1>5. PICK n \in Nat : Move(a, "counted", to, n) /\ (to = "raised" => n = active[a])
  <2>0. leased' = leased \ {a} /\ tallied' = tallied
    BY <1>a, <1>2 DEF Rows, AD!Raise
  <2>1. CASE to = "raised"
    <3>1. active' = active
      BY <2>1, <1>1, <1>a DEF AD!Raise, AD!Goto, Types
    <3>2. Move(a, "counted", to, active[a])
      BY <2>0, <2>1, <3>1, <1>1, <1>2, <1>b DEF Move, Places, Busy
    <3> QED BY <2>1, <3>2, <1>b
  <2>2. CASE to # "raised"
    <3>1. active' = [active EXCEPT ![a] = 0]
      BY <2>2, <1>1, <1>a DEF AD!Raise, AD!Goto, AD!Forget, Types
    <3>2. Move(a, "counted", to, 0)
      BY <2>0, <2>2, <3>1, <1>1, <1>2, <1>b DEF Move, Places, Holding, Taking, Busy
    <3> QED BY <2>2, <3>2
  <2> QED BY <2>1, <2>2
<1>6. /\ Cardinality(Taken)' =
           Cardinality(Taken) + (IF to \in Taking THEN 1 ELSE 0) - (IF "counted" \in Taking THEN 1 ELSE 0)
      /\ Cardinality(AD!Slots)' =
           Cardinality(AD!Slots) + (IF to \in Holding THEN 1 ELSE 0) - (IF "counted" \in Holding THEN 1 ELSE 0)
  BY <1>a, <1>1, MoveCounts DEF Types
<1>7. /\ Cardinality(Taken)' = IF to = "paced" THEN Cardinality(Taken) + 1 ELSE Cardinality(Taken)
      /\ Cardinality(AD!Slots)' = IF to = "raised" THEN Cardinality(AD!Slots) ELSE Cardinality(AD!Slots) + 1
  BY <1>6, <1>b DEF Taking, Holding
\* A counter that did not lag does not lag now.
<1>8. Lags' => Lags
  BY <1>7, <1>b, <1>2 DEF Lags
<1>9. Cardinality(Taken)' <= Limit
  <2>1. CASE to = "paced"
    <3>1. CASE Lags
      BY <2>1, <3>1, <1>1, <1>4, <1>7, <1>b, <1>2 DEF Limit
    <3>2. CASE ~Lags
      BY <2>1, <3>2, <1>1, <1>7, <1>b, <1>2 DEF Limit, Lags
    <3> QED BY <3>1, <3>2
  <2>2. CASE to # "paced"
    BY <2>2, <1>7, <1>a
  <2> QED BY <2>1, <2>2
<1>10. CASE to # "raised"
  <2>1. \A b \in Attempts \ {a} : ~(pa[b] = "counted" /\ (~redis \/ Lags'))
    BY <1>2, <1>3, <1>8
  <2> QED BY <1>1, <1>3, <1>5, <1>9, <1>10, <2>1, MoveKeeps
<1>11. CASE to = "raised"
  <2>1. /\ Types' /\ Rows' /\ NoCounter' /\ Quiet'
        /\ pa'[a] = "raised" /\ active'[a] = active[a]
        /\ \A b \in Attempts \ {a} : pa'[b] = pa[b] /\ active'[b] = active[b]
    BY <1>5, <1>11, MoveTypes
  <2>2. Cardinality(Taken)' = Cardinality(Taken) /\ Cardinality(AD!Slots)' = Cardinality(AD!Slots)
    BY <1>7, <1>11
  <2>3. Cardinality(Taken) <= active[a]
    BY <1>1, <1>4, <1>11, <1>b DEF Lags
  <2>4. (\E b \in Attempts \ {a} : pa[b] = "counted") => Cardinality(AD!Slots) < active[a]
    BY <1>1, <1>3, <1>11, <1>b DEF Lags
  <2>5. Raised'
    BY <2>1, <2>2, <2>3, <2>4, <1>2, <1>3 DEF Raised
  <2>6. Counted'
    BY <2>1, <2>2, <1>2, <1>3, <1>8 DEF Counted
  <2>7. Cardinality(Taken)' <= Limit'
    BY <1>9, <1>2 DEF Limit
  <2> QED BY <2>1, <2>5, <2>6, <2>7 DEF AInv
<1> QED BY <1>10, <1>11

\* The correction sets the counter to rows that were read before: it lags only
\* where nobody else has counted them.
LEMMA CorrectKeeps == ASSUME Setting, AInv, NEW a \in Attempts, AD!Correct(a) PROVE AInv'
<1>a. Types /\ Rows /\ Raised /\ Cardinality(Taken) <= Limit
  BY DEF AInv
<1>b. /\ active[a] \in Nat
      /\ Cardinality(Taken) \in Nat /\ Cardinality(AD!Slots) \in Nat /\ Max \in Nat
  BY <1>a, Finite DEF Types, Setting
<1>1. PICK to \in {"undo", "paced"} :
        AD!Goto(a, "raised", to) /\ (to = "paced" => active[a] < Max)
  BY <1>b DEF AD!Correct
<1>2. pa[a] = "raised" /\ conc' = active[a]
  BY <1>1 DEF AD!Correct, AD!Goto
<1>3. /\ redis /\ Cardinality(Taken) <= active[a]
      /\ \A b \in Attempts \ {a} :
           pa[b] # "raised" /\ (pa[b] = "counted" => Cardinality(AD!Slots) < active[a])
  BY <1>a, <1>2 DEF Raised
<1>4. Move(a, "raised", to, 0)
  <2>1. leased' = leased \ {a}
    BY <1>a, <1>2 DEF Rows, AD!Correct
  <2>2. conc' \in Int /\ redis' = redis /\ tallied' = tallied
        /\ active' = [active EXCEPT ![a] = 0]
    BY <1>2, <1>b DEF AD!Correct, AD!Forget
  <2> QED BY <1>1, <1>3, <2>1, <2>2 DEF Move, Places, Holding, Taking, Busy
<1>5. /\ Cardinality(Taken)' =
           Cardinality(Taken) + (IF to \in Taking THEN 1 ELSE 0) - (IF "raised" \in Taking THEN 1 ELSE 0)
      /\ Cardinality(AD!Slots)' =
           Cardinality(AD!Slots) + (IF to \in Holding THEN 1 ELSE 0) - (IF "raised" \in Holding THEN 1 ELSE 0)
  BY <1>a, <1>1, MoveCounts DEF Types
<1>6. /\ Cardinality(Taken)' = IF to = "paced" THEN Cardinality(Taken) + 1 ELSE Cardinality(Taken)
      /\ Cardinality(AD!Slots)' = Cardinality(AD!Slots) + 1
  BY <1>5, <1>b DEF Taking, Holding
<1>7. Cardinality(Taken)' <= Limit
  <2>1. CASE to = "paced"
    BY <2>1, <1>1, <1>3, <1>6, <1>b DEF Limit
  <2>2. CASE to = "undo"
    BY <2>2, <1>6, <1>a
  <2> QED BY <2>1, <2>2
<1>8. \A b \in Attempts \ {a} : ~(pa[b] = "counted" /\ (~redis \/ Lags'))
  BY <1>2, <1>3, <1>6, <1>b DEF Lags
<1> QED BY <1>1, <1>3, <1>4, <1>7, <1>8, MoveKeeps

\* What moves no attempt: the counter changes only where nobody has counted.
LEMMA CounterKeeps ==
  ASSUME Setting, AInv,
         AD!Tally \/ AD!Overwrite \/ AD!CounterLost \/ AD!NewSecond \/ UNCHANGED AD!admVars
  PROVE  AInv'
<1>a. /\ Types /\ Rows /\ Raised /\ Counted /\ NoCounter /\ Quiet
      /\ Cardinality(Taken) <= Limit
  BY DEF AInv
<1>1. pa' = pa /\ active' = active /\ leased' = leased /\ redis' = redis
  BY DEF AD!Tally, AD!Overwrite, AD!CounterLost, AD!NewSecond, AD!admVars
<1>2. Taken' = Taken /\ AD!Slots' = AD!Slots /\ AD!Amid' = AD!Amid /\ Limit' = Limit
  BY <1>1 DEF Taken, AD!Slots, AD!Amid, Limit
<1>3. Types'
  <2>1. CASE AD!Tally
    <3>1. leased \subseteq Attempts
      BY <1>a DEF Rows
    <3>2. IsFiniteSet(leased)
      BY <3>1, FS_Subset DEF Setting
    <3>3. Cardinality(leased) \in Int
      BY <3>2, FS_CardinalityType
    <3> QED BY <2>1, <3>3, <1>a, SameSize DEF Types, AD!Tally
  <2>2. CASE AD!Overwrite
    BY <2>2, <1>a DEF Types, AD!Overwrite
  <2>3. CASE AD!CounterLost \/ AD!NewSecond \/ UNCHANGED AD!admVars
    BY <2>3, <1>a DEF Types, AD!CounterLost, AD!NewSecond, AD!admVars
  <2> QED BY <2>1, <2>2, <2>3
<1>4. Rows' /\ NoCounter' /\ Raised'
  BY <1>a, <1>1, <1>2 DEF Rows, NoCounter, Raised
<1>5. Quiet'
  BY <1>a, <1>2 DEF Quiet, AD!Tally, AD!Overwrite, AD!CounterLost, AD!NewSecond, AD!admVars, Setting
<1>6. conc' = conc \/ AD!Amid = {}
  BY <1>a DEF Quiet, AD!Tally, AD!Overwrite, AD!CounterLost, AD!NewSecond, AD!admVars, Setting
<1>7. Counted'
  <2>1. CASE conc' = conc
    BY <2>1, <1>a, <1>1, <1>2 DEF Counted, Lags
  <2>2. CASE AD!Amid = {}
    <3>1. \A b \in Attempts : pa'[b] # "counted"
      BY <2>2, <1>1 DEF AD!Amid
    <3> QED BY <3>1 DEF Counted
  <2> QED BY <2>1, <2>2, <1>6
<1> QED BY <1>2, <1>3, <1>4, <1>5, <1>7, <1>a DEF AInv

LEMMA NextAInv == Setting /\ AInv /\ [AD!Next]_AD!admVars => AInv'
BY CountKeeps, LeavingKeeps, AdmitByRowsKeeps, RaiseKeeps, CorrectKeeps, CounterKeeps
   DEF AD!Next, AD!Step, AD!Admit

-----------------------------------------------------------------------------
(* The cancellation flag *)

LEMMA FlagTyped ==
  /\ CF!Init => CF!TypeOK
  /\ CF!TypeOK /\ [CF!Next]_CF!cancelVars => CF!TypeOK'
<1>1. CF!Init => CF!TypeOK
  BY DEF CF!Init, CF!TypeOK
<1>2. ASSUME CF!TypeOK, [CF!Next]_CF!cancelVars PROVE CF!TypeOK'
  <2>1. ASSUME NEW w \in Waiters, CF!Enter(w) \/ CF!Poll(w) \/ CF!Drop(w) PROVE CF!TypeOK'
    BY <1>2, <2>1 DEF CF!Enter, CF!Poll, CF!Check, CF!Arm, CF!Wake, CF!Drop, CF!TypeOK
  <2>2. ASSUME NEW c \in Cancellers, CF!Store(c) \/ CF!NotifyWaiters(c) PROVE CF!TypeOK'
    BY <1>2, <2>2 DEF CF!Store, CF!NotifyWaiters, CF!TypeOK
  <2>3. CASE CF!Reset \/ UNCHANGED CF!cancelVars
    BY <1>2, <2>3 DEF CF!Reset, CF!cancelVars, CF!TypeOK
  <2> QED BY <1>2, <2>1, <2>2, <2>3 DEF CF!Next
<1> QED BY <1>1, <1>2

-----------------------------------------------------------------------------
(* Calls of a peer *)

\* HTTP keeps no table.
Backed == RP!TypeOK /\ RP!PendingBacked /\ (~RP!Routed => pending = {})

LEMMA PeerBacked ==
  /\ RP!Init => Backed
  /\ Backed /\ [RP!Next]_RP!rpcVars => Backed'
<1>1. RP!Init => Backed
  BY DEF RP!Init, Backed, RP!TypeOK, RP!PendingBacked, RP!Routed
<1>2. ASSUME Backed, [RP!Next]_RP!rpcVars PROVE Backed'
  <2>1. ASSUME NEW c \in Calls, RP!Write(c) \/ RP!Post(c) \/ RP!Timeout(c) \/ RP!Cancel(c)
        PROVE  Backed'
    BY <1>2, <2>1 DEF RP!Write, RP!Post, RP!Timeout, RP!Cancel, Backed, RP!TypeOK,
                      RP!PendingBacked, RP!Routed, RP!Waiting
  <2>2. ASSUME NEW c \in Calls, RP!Route(c) \/ RP!StreamEnds(c) PROVE Backed'
    BY <1>2, <2>2 DEF RP!Route, RP!StreamEnds, Backed, RP!TypeOK, RP!PendingBacked, RP!Routed,
                      RP!Waiting
  <2>3. ASSUME NEW c \in Calls,
               \/ RP!PeerAsks(c) \/ RP!PeerAnswers(c) \/ RP!AnswerByTask(c)
               \/ RP!AnswerInStream(c) \/ RP!AnswerPush(c) \/ RP!OpenDialog(c)
               \/ RP!ShowDialog(c) \/ RP!Reply(c) \/ RP!DialogTimeout(c)
        PROVE  Backed'
    <3>1. UNCHANGED <<transport, peer, call, pending, stream>>
      BY <2>3 DEF RP!PeerAsks, RP!PeerAnswers, RP!AnswerByTask, RP!AnswerInStream,
                  RP!AnswerPush, RP!Answered, RP!OpenDialog, RP!ShowDialog, RP!Reply,
                  RP!DialogTimeout
    <3>2. question' \in [Calls -> {"none", "queued", "open", "shown", "answered"}]
      BY <1>2, <2>3 DEF RP!PeerAsks, RP!PeerAnswers, RP!AnswerByTask, RP!AnswerInStream,
                  RP!AnswerPush, RP!Answered, RP!OpenDialog, RP!ShowDialog, RP!Reply,
                  RP!DialogTimeout, Backed, RP!TypeOK
    <3>3. taken' \cup answers' \cup dialogs' \subseteq Calls
      BY <1>2, <2>3 DEF RP!PeerAsks, RP!PeerAnswers, RP!AnswerByTask, RP!AnswerInStream,
                  RP!AnswerPush, RP!Answered, RP!OpenDialog, RP!ShowDialog, RP!Reply,
                  RP!DialogTimeout, Backed, RP!TypeOK
    <3> QED BY <1>2, <3>1, <3>2, <3>3 DEF Backed, RP!TypeOK, RP!PendingBacked, RP!Routed,
                                          RP!Waiting
  <2>4. CASE RP!StreamDrops \/ RP!StreamReopens \/ RP!Hang \/ UNCHANGED RP!rpcVars
    BY <1>2, <2>4 DEF RP!StreamDrops, RP!StreamReopens, RP!Hang, RP!rpcVars, Backed, RP!TypeOK,
                      RP!PendingBacked, RP!Routed, RP!Waiting
  <2>5. CASE RP!Die
    BY <1>2, <2>5 DEF RP!Die, Backed, RP!TypeOK, RP!PendingBacked, RP!Routed, RP!Waiting
  <2> QED BY <1>2, <2>1, <2>2, <2>3, <2>4, <2>5 DEF RP!Next
<1> QED BY <1>1, <1>2

-----------------------------------------------------------------------------
(* Calls of the shell *)

\* s holds the numbers up to n, the last Len(s) of them.
EndsAt(s, n) == s \in Seq(Nat) /\ Len(s) <= n /\ \A i \in 1 .. Len(s) : s[i] = n - Len(s) + i

\* What was read, and of it what is kept: the pipe goes on where the tail ends.
Kept ==
  /\ written \in Nat /\ EndsAt(pipe, written)
  /\ EndsAt(tail, written - Len(pipe))
  /\ Len(tail) = IF written - Len(pipe) <= TailSize THEN written - Len(pipe) ELSE TailSize

\* At the end of the output nobody has the pipe open who could write.
Closed ==
  /\ reader \in {"reads", "done"}
  /\ reader = "done" => pipe = <<>> /\ open = {} /\ shell # "run"

\* Where the call is, and what it has cleared away.
Cleared ==
  /\ phase = "select" => shell \in {"run", "exited"} /\ end = "none"
  /\ phase = "kill" => end \in {"cancelled", "timeout"}
  /\ phase \in {"join", "returned"} =>
       /\ shell = "reaped" /\ end \in {"done", "cancelled", "timeout"}
       /\ end # "done" => group = {}
  /\ phase = "returned" /\ end = "done" => reader = "done" /\ answer = tail

BInv == BC!TypeOK /\ Kept /\ Closed /\ Cleared

LEMMA InitBInv == BC!Init => BInv
<1> SUFFICES ASSUME BC!Init PROVE BInv
  OBVIOUS
<1>1. PipeSize \in Nat /\ TailSize \in Nat /\ MaxOutput \in Nat
  BY MCLivenessAssumption
<1>2. Len(<<>>) = 0 /\ <<>> \in Seq(Nat)
  OBVIOUS
<1>3. BC!TypeOK
  BY <1>1, <1>2 DEF BC!Init, BC!TypeOK
<1>4. Kept
  <2>1. written = 0 /\ pipe = <<>> /\ tail = <<>>
    BY DEF BC!Init
  <2>2. EndsAt(<<>>, 0)
    BY <1>2 DEF EndsAt
  <2>3. written - Len(pipe) = 0
    <3>1. Len(pipe) = 0 /\ written \in Int
      BY <2>1
    <3>2. \A k \in Int : k = 0 => k - 0 = 0
      OBVIOUS
    <3> QED BY <2>1, <3>1, <3>2
  <2> QED BY <1>1, <1>2, <2>1, <2>2, <2>3 DEF Kept
<1> QED BY <1>3, <1>4 DEF BC!Init, BInv, Closed, Cleared

\* One more piece is written.
LEMMA PutKeeps ==
  ASSUME Kept, BC!Put
  PROVE  Kept' /\ UNCHANGED <<tail, reader, cancel, late, phase, end, answer>>
         /\ Len(pipe) < PipeSize /\ written < MaxOutput /\ written' = written + 1
         /\ Len(pipe') = Len(pipe) + 1
<1>1. /\ Len(pipe) < PipeSize /\ written < MaxOutput
      /\ pipe' = Append(pipe, written + 1) /\ written' = written + 1
      /\ UNCHANGED <<tail, reader, cancel, late, phase, end, answer>>
  BY DEF BC!Put, BC!callVars
<1>2. pipe \in Seq(Nat) /\ Len(pipe) \in Nat /\ written + 1 \in Nat
  BY DEF Kept, EndsAt
<1>3. /\ pipe' \in Seq(Nat) /\ Len(pipe') = Len(pipe) + 1
      /\ pipe'[Len(pipe) + 1] = written + 1
      /\ \A i \in 1 .. Len(pipe) : pipe'[i] = pipe[i]
  BY <1>1, <1>2
<1>4. EndsAt(pipe', written')
  <2>1. \A i \in 1 .. Len(pipe) : pipe[i] = written - Len(pipe) + i
    BY DEF Kept, EndsAt
  <2>2. Len(pipe) <= written /\ written \in Nat
    BY DEF Kept, EndsAt
  <2>3. ASSUME NEW i \in 1 .. Len(pipe) + 1 PROVE pipe'[i] = written + 1 - (Len(pipe) + 1) + i
    <3>1. CASE i \in 1 .. Len(pipe)
      BY <1>2, <1>3, <2>1, <2>2, <3>1
    <3>2. CASE i = Len(pipe) + 1
      BY <1>2, <1>3, <2>2, <3>2
    <3> QED BY <1>2, <3>1, <3>2
  <2> QED BY <1>1, <1>2, <1>3, <2>2, <2>3 DEF EndsAt
<1>5. written' - Len(pipe') = written - Len(pipe)
  BY <1>1, <1>2, <1>3 DEF Kept
<1> QED BY <1>1, <1>2, <1>3, <1>4, <1>5 DEF Kept

\* The last n of what goes on to m.
LEMMA LastEnds ==
  ASSUME NEW s, NEW m \in Nat, EndsAt(s, m), NEW n \in Nat
  PROVE  /\ EndsAt(BC!Last(s, n), m)
         /\ Len(BC!Last(s, n)) = IF Len(s) <= n THEN Len(s) ELSE n
<1>1. s \in Seq(Nat) /\ Len(s) \in Nat /\ Len(s) <= m
  BY DEF EndsAt
<1>2. CASE Len(s) <= n
  BY <1>2 DEF BC!Last
<1>3. CASE ~(Len(s) <= n)
  <2> DEFINE a == Len(s) - n + 1
             t == SubSeq(s, a, Len(s))
  <2>1. a \in 1 .. Len(s) + 1 /\ Len(s) \in a - 1 .. Len(s)
    BY <1>1, <1>3
  <2>2. t \in Seq(Nat) /\ Len(t) = Len(s) - a + 1 /\ \A i \in 1 .. Len(s) - a + 1 : t[i] = s[a + i - 1]
    BY <1>1, <2>1, SubSeqProperties
  <2>3. Len(t) = n
    BY <1>1, <2>2
  <2>4. \A i \in 1 .. n : t[i] = s[a + i - 1] /\ a + i - 1 \in 1 .. Len(s) /\ a + i - 1 = Len(s) - n + i
    BY <1>1, <1>3, <2>2
  <2>5. BC!Last(s, n) = t
    BY <1>3 DEF BC!Last
  <2> HIDE DEF t, a
  <2>6. \A i \in 1 .. n : t[i] = m - n + i
    <3> TAKE i \in 1 .. n
    <3>1. t[i] = s[Len(s) - n + i] /\ Len(s) - n + i \in 1 .. Len(s)
      BY <2>4
    <3>2. s[Len(s) - n + i] = m - Len(s) + (Len(s) - n + i)
      BY <3>1 DEF EndsAt
    <3> QED BY <1>1, <3>1, <3>2
  <2>7. EndsAt(t, m)
    BY <1>1, <1>3, <2>2, <2>3, <2>6 DEF EndsAt
  <2> QED BY <1>3, <2>3, <2>5, <2>7
<1> QED BY <1>2, <1>3

\* One piece is read.
LEMMA DrainKeeps ==
  ASSUME Kept, BC!Drain
  PROVE  Kept' /\ Len(pipe') = Len(pipe) - 1 /\ Len(tail') <= TailSize
<1>0. TailSize \in Nat /\ PipeSize \in Nat
  BY MCLivenessAssumption
<1> DEFINE m == written - Len(pipe)
<1>1. /\ pipe \in Seq(Nat) /\ pipe # <<>> /\ Len(pipe) \in Nat \ {0} /\ written \in Nat
      /\ m \in Nat /\ Len(pipe) <= written
      /\ \A i \in 1 .. Len(pipe) : pipe[i] = m + i
  BY DEF Kept, EndsAt, BC!Drain
<1>2. /\ tail' = BC!Last(Append(tail, pipe[1]), TailSize) /\ pipe' = Tail(pipe)
      /\ written' = written
  BY DEF BC!Drain
<1>3. /\ Len(pipe') = Len(pipe) - 1 /\ pipe' \in Seq(Nat)
      /\ \A i \in 1 .. Len(pipe) - 1 : pipe'[i] = pipe[i + 1] /\ i + 1 \in 1 .. Len(pipe)
  BY <1>1, <1>2
<1>4. EndsAt(pipe', written) /\ written - Len(pipe') = m + 1
  BY <1>1, <1>3 DEF EndsAt
<1>5. pipe[1] = m + 1
  BY <1>1
<1>6. /\ tail \in Seq(Nat) /\ Len(tail) \in Nat /\ Len(tail) <= m
      /\ \A i \in 1 .. Len(tail) : tail[i] = m - Len(tail) + i
      /\ Len(tail) = IF m <= TailSize THEN m ELSE TailSize
  BY DEF Kept, EndsAt
<1> HIDE DEF m
<1> DEFINE t == Append(tail, m + 1)
<1>7. /\ t \in Seq(Nat) /\ Len(t) = Len(tail) + 1 /\ t[Len(tail) + 1] = m + 1
      /\ \A i \in 1 .. Len(tail) : t[i] = tail[i]
  BY <1>1, <1>6
<1>8. tail' = BC!Last(t, TailSize)
  BY <1>2, <1>5
<1> HIDE DEF t
<1>9. EndsAt(t, m + 1)
  <2>1. ASSUME NEW i \in 1 .. Len(t) PROVE t[i] = m + 1 - Len(t) + i
    <3>1. CASE i \in 1 .. Len(tail)
      BY <1>1, <1>6, <1>7, <3>1
    <3>2. CASE i = Len(tail) + 1
      BY <1>1, <1>6, <1>7, <3>2
    <3> QED BY <1>6, <1>7, <3>1, <3>2
  <2> QED BY <1>1, <1>6, <1>7, <2>1 DEF EndsAt
<1>10. /\ EndsAt(tail', m + 1)
       /\ Len(tail') = IF Len(t) <= TailSize THEN Len(t) ELSE TailSize
  BY <1>0, <1>1, <1>8, <1>9, LastEnds
<1>11. Len(tail') = IF m + 1 <= TailSize THEN m + 1 ELSE TailSize
  BY <1>0, <1>1, <1>6, <1>7, <1>10
<1>12. written' - Len(pipe') = m + 1 /\ written' \in Nat
  BY <1>1, <1>2, <1>4
<1>13. EndsAt(pipe', written') /\ EndsAt(tail', written' - Len(pipe'))
  BY <1>2, <1>4, <1>10, <1>12
<1>14. Len(tail') = IF written' - Len(pipe') <= TailSize THEN written' - Len(pipe') ELSE TailSize
  BY <1>11, <1>12
<1>15. Len(tail') <= TailSize
  BY <1>0, <1>1, <1>11
<1> QED BY <1>3, <1>12, <1>13, <1>14, <1>15 DEF Kept

LEMMA NextBInv == BInv /\ [BC!Next]_BC!bashVars => BInv'
<1> SUFFICES ASSUME BInv, [BC!Next]_BC!bashVars PROVE BInv'
  OBVIOUS
<1>0. PipeSize \in Nat /\ TailSize \in Nat /\ MaxOutput \in Nat
  BY MCLivenessAssumption
<1>a. BC!TypeOK /\ Kept /\ Closed /\ Cleared
  BY DEF BInv
<1>b. Len(pipe) \in Nat /\ Len(tail) \in Nat /\ written \in Nat
  BY <1>a DEF Kept, EndsAt
<1>1. CASE BC!ShellWrites
  <2>1. BC!Put /\ shell = "run" /\ left > 0 /\ left' = left - 1
        /\ UNCHANGED <<shell, hangs, group, loose, open>>
    BY <1>1 DEF BC!ShellWrites
  <2>2. Kept' /\ UNCHANGED <<tail, reader, cancel, late, phase, end, answer>>
        /\ Len(pipe') <= PipeSize /\ written' \in 0 .. MaxOutput
    BY <1>0, <1>a, <1>b, <2>1, PutKeeps
  <2>3. BC!TypeOK'
    <3>1. left' \in 0 .. MaxOutput
      BY <1>0, <1>a, <2>1 DEF BC!TypeOK
    <3> QED BY <1>a, <2>1, <2>2, <3>1 DEF BC!TypeOK
  <2>4. Closed' /\ Cleared'
    BY <1>a, <2>1, <2>2 DEF Closed, Cleared
  <2> QED BY <2>2, <2>3, <2>4 DEF BInv
<1>2. CASE BC!JobWrites
  <2>1. BC!Put /\ open # {} /\ UNCHANGED <<shell, left, hangs, group, loose, open>>
    BY <1>2 DEF BC!JobWrites, BC!procVars
  <2>2. Kept' /\ UNCHANGED <<tail, reader, cancel, late, phase, end, answer>>
        /\ Len(pipe') <= PipeSize /\ written' \in 0 .. MaxOutput
    BY <1>0, <1>a, <1>b, <2>1, PutKeeps
  <2>3. BC!TypeOK'
    BY <1>a, <2>1, <2>2 DEF BC!TypeOK
  <2>4. Closed' /\ Cleared'
    BY <1>a, <2>1, <2>2 DEF Closed, Cleared
  <2> QED BY <2>2, <2>3, <2>4 DEF BInv
<1>3. CASE BC!StartJob \/ BC!JobEnds \/ BC!ShellExits
  <2>1. UNCHANGED <<left, hangs, written, pipe, tail, reader, phase, end, answer>>
    BY <1>3 DEF BC!StartJob, BC!JobEnds, BC!ShellExits, BC!callVars
  <2>2. BC!TypeOK'
    BY <1>a, <1>3 DEF BC!StartJob, BC!JobEnds, BC!ShellExits, BC!TypeOK, BC!callVars
  <2>3. Kept'
    BY <1>a, <2>1 DEF Kept
  <2>4. Closed'
    BY <1>a, <1>3, <2>1 DEF BC!StartJob, BC!JobEnds, BC!ShellExits, Closed, BC!TypeOK
  <2>5. Cleared'
    BY <1>a, <1>3, <2>1 DEF BC!StartJob, BC!JobEnds, BC!ShellExits, Cleared
  <2> QED BY <2>2, <2>3, <2>4, <2>5 DEF BInv
<1>4. CASE BC!Drain
  <2>1. Kept' /\ Len(pipe') <= PipeSize /\ Len(tail') <= TailSize
    BY <1>0, <1>a, <1>b, <1>4, DrainKeeps DEF BC!TypeOK
  <2>2. UNCHANGED <<shell, left, hangs, group, loose, open, written, reader, phase, end, answer>>
        /\ reader = "reads"
    BY <1>4 DEF BC!Drain, BC!procVars, BC!callVars
  <2>3. BC!TypeOK'
    BY <1>a, <2>1, <2>2 DEF BC!TypeOK
  <2>4. Closed' /\ Cleared'
    BY <1>a, <2>2 DEF Closed, Cleared
  <2> QED BY <2>1, <2>3, <2>4 DEF BInv
<1>5. CASE BC!EndOfFile \/ BC!Cancel \/ BC!Elapse \/ UNCHANGED BC!bashVars
  <2>1. UNCHANGED <<shell, left, hangs, group, loose, open, written, pipe, tail, phase, end, answer>>
    BY <1>5 DEF BC!EndOfFile, BC!Cancel, BC!Elapse, BC!bashVars, BC!procVars, BC!callVars
  <2>2. BC!TypeOK' /\ Kept'
    BY <1>a, <2>1 DEF BC!TypeOK, Kept
  <2>3. Closed' /\ Cleared'
    BY <1>a, <1>5, <2>1 DEF BC!EndOfFile, BC!Cancel, BC!Elapse, BC!bashVars, Closed, Cleared
  <2> QED BY <2>2, <2>3 DEF BInv
<1>6. CASE BC!Proceeds
  <2>1. UNCHANGED <<left, hangs, loose, written, pipe, tail, reader>>
    BY <1>6 DEF BC!Proceeds, BC!Done, BC!CutShort, BC!KillTree, BC!Join, BC!JoinGivesUp, BC!procVars
  <2>2. BC!TypeOK'
    BY <1>a, <1>6 DEF BC!Proceeds, BC!Done, BC!CutShort, BC!KillTree, BC!Join, BC!JoinGivesUp,
                      BC!procVars, BC!TypeOK
  <2>3. Kept'
    BY <1>a, <2>1 DEF Kept
  <2>4. Closed'
    BY <1>a, <1>6, <2>1 DEF BC!Proceeds, BC!Done, BC!CutShort, BC!KillTree, BC!Join,
                            BC!JoinGivesUp, BC!procVars, Closed
  <2>5. Cleared'
    BY <1>a, <1>6 DEF BC!Proceeds, BC!Done, BC!CutShort, BC!KillTree, BC!Join, BC!JoinGivesUp,
                      BC!procVars, Cleared
  <2> QED BY <2>2, <2>3, <2>4, <2>5 DEF BInv
<1> QED
  BY <1>1, <1>2, <1>3, <1>4, <1>5, <1>6 DEF BC!Next, BC!ShellGoesOn, BC!Reads

LEMMA CallIsClosed == BInv => BC!CallClosed
<1> SUFFICES ASSUME BInv, phase = "returned"
             PROVE  /\ shell = "reaped"
                    /\ end # "done" => group = {}
                    /\ end = "done" => answer = BC!Last(BC!Upto(written), TailSize)
  BY DEF BC!CallClosed
<1>0. TailSize \in Nat
  BY MCLivenessAssumption
<1>1. shell = "reaped" /\ (end # "done" => group = {})
  BY DEF BInv, Cleared
<1>2. ASSUME end = "done" PROVE answer = BC!Last(BC!Upto(written), TailSize)
  <2>1. answer = tail /\ pipe = <<>> /\ written \in Nat
    BY <1>2 DEF BInv, Cleared, Closed, Kept
  <2>2. EndsAt(tail, written) /\ Len(tail) = IF written <= TailSize THEN written ELSE TailSize
    BY <2>1 DEF BInv, Kept
  <2> DEFINE u == BC!Upto(written)
  <2>3. EndsAt(u, written) /\ Len(u) = written
    BY <2>1 DEF EndsAt, BC!Upto
  <2> HIDE DEF u
  <2> DEFINE v == BC!Last(u, TailSize)
  <2>4. EndsAt(v, written) /\ Len(v) = IF written <= TailSize THEN written ELSE TailSize
    BY <1>0, <2>1, <2>3, LastEnds
  <2> HIDE DEF v
  <2>5. tail \in Seq(Nat) /\ v \in Seq(Nat) /\ Len(tail) = Len(v)
        /\ \A i \in 1 .. Len(tail) : tail[i] = v[i]
    BY <2>2, <2>4 DEF EndsAt
  <2>6. tail = v
    BY <2>5, SeqEqual
  <2> QED BY <2>1, <2>6 DEF v, u
<1> QED BY <1>1, <1>2

-----------------------------------------------------------------------------
(* Theorems *)

\* A tenant never has more leased runs than max_concurrent_runs, and one at most
\* without Redis, if neither a reconcile nor, without Redis or with a counter
\* that lags, another admission falls between a count and its row (quota.rs
\* admit_run, release_run, reconcile): however runs end, replicas die and Redis
\* loses its counters otherwise.
THEOREM QuotaHolds ==
  ASSUME IsFiniteSet(Attempts), Overlap = {}
  PROVE  Spec => []WithinMax
<1>0. Setting
  BY MCLivenessAssumption DEF Setting
<1>1. Init => AInv
  BY <1>0, Parts, InitAInv
<1>2. AInv /\ [Next]_vars => AInv'
  BY <1>0, Parts, NextAInv
<1>3. AInv => WithinMax
  <2> SUFFICES ASSUME AInv PROVE AD!WithinMax
    BY DEF WithinMax
  <2>1. leased \subseteq Taken
    BY DEF AInv, Rows, Taken, Taking
  <2>2. Cardinality(leased) <= Cardinality(Taken) /\ Cardinality(Taken) <= Limit
    BY <1>0, <2>1, Finite, FS_Subset DEF AInv
  <2>3. Cardinality(leased) \in Nat /\ Cardinality(Taken) \in Nat /\ Limit \in Nat
    <3>1. IsFiniteSet(leased)
      BY <1>0, <2>1, Finite, FS_Subset
    <3> QED BY <1>0, <3>1, Finite, FS_CardinalityType DEF Limit, Setting
  <2>4. Cardinality(leased) <= Limit
    BY <2>2, <2>3
  <2> QED BY <2>4, SameSize DEF AD!WithinMax, Limit
<1> QED BY <1>1, <1>2, <1>3, PTL DEF Spec

\* A node never has more leases than max_workspaces, whatever allocations,
\* failures and releases overlap (engine.rs alloc_with, release, destroy).
THEOREM CapacityHolds == Spec => []CapacityKept
<1>1. Cap \in Nat
  BY EngineAssumption DEF EE!ExecEngineAssumption
<1>2. EE!Spec => []EE!CapacityKept
  BY <1>1, EE!CapacityHolds
<1>3. Spec => EE!Spec
  BY Parts, PTL DEF Spec, EE!Spec
<1>4. EE!CapacityKept => CapacityKept
  BY DEF CapacityKept
<1> QED BY <1>2, <1>3, <1>4, PTL

\* Nothing a call leaves behind is nobody's: an entry of the table of pending
\* calls has a caller, or was given up with the call (rupi-mcp lib.rs
\* call_timeout, dispatch_rpc_value); a shell that was cut short leaves no
\* process of its group, one that ended by itself has all its output read, and
\* its answer is the last of it (rupi-tools bash_tool.rs).
THEOREM CallsBacked == Spec => []CallBacked
<1>1. Init => Backed /\ BInv
  BY Parts, PeerBacked, InitBInv
<1>2. Backed /\ BInv /\ [Next]_vars => Backed' /\ BInv'
  BY Parts, PeerBacked, NextBInv
<1>3. Backed /\ BInv => CallBacked
  BY CallIsClosed DEF CallBacked, Backed
<1> QED BY <1>1, <1>2, <1>3, PTL DEF Spec

\* The five parts keep their types.
THEOREM TypeCorrect ==
  ASSUME IsFiniteSet(Attempts), Overlap = {}, EE!Named, EE!EnoughDirs
  PROVE  Spec => []TypesOK
<1>0. Setting
  BY MCLivenessAssumption DEF Setting
<1> DEFINE Typed == AInv /\ qps \in Nat /\ CF!TypeOK /\ Backed /\ BInv
<1>1. Init => Typed
  BY <1>0, Parts, InitAInv, FlagTyped, PeerBacked, InitBInv DEF AD!Init
<1>2. Typed /\ [Next]_vars => Typed'
  <2>1. ASSUME qps \in Nat, [AD!Next]_AD!admVars PROVE qps' \in Nat
    <3>1. ASSUME NEW a \in Attempts, AD!Pace(a) PROVE qps' \in Nat
      BY <2>1, <3>1 DEF AD!Pace
    <3>2. CASE AD!NewSecond
      BY <3>2 DEF AD!NewSecond
    <3>3. ASSUME NEW a \in Attempts,
                 \/ AD!Count(a) \/ AD!LedgerRefuses(a) \/ AD!AdmitByRows(a) \/ AD!Raise(a)
                 \/ AD!Correct(a) \/ AD!Undo(a) \/ AD!Lease(a) \/ AD!LeaseRefused(a)
                 \/ AD!Unlease(a) \/ AD!ReleaseRun(a) \/ AD!Lost(a) \/ AD!Reap(a)
          PROVE  qps' = qps
      BY <3>3 DEF AD!Count, AD!LedgerRefuses, AD!AdmitByRows, AD!Raise, AD!Correct, AD!Undo,
                  AD!Lease, AD!LeaseRefused, AD!Unlease, AD!ReleaseRun, AD!Lost, AD!Reap
    <3>4. CASE AD!Tally \/ AD!Overwrite \/ AD!CounterLost \/ UNCHANGED AD!admVars
      BY <2>1, <3>4 DEF AD!Tally, AD!Overwrite, AD!CounterLost, AD!admVars
    <3> QED BY <2>1, <3>1, <3>2, <3>3, <3>4 DEF AD!Next, AD!Step, AD!Admit
  <2> QED BY <1>0, <2>1, Parts, NextAInv, FlagTyped, PeerBacked, NextBInv
<1>3. Typed => AD!TypeOK /\ CF!TypeOK /\ RP!TypeOK /\ BC!TypeOK
  BY DEF AInv, Types, Rows, AD!TypeOK, Backed, BInv
<1>4. EE!Spec => []EE!TypeOK
  BY EE!TypeCorrect
<1>5. Spec => EE!Spec
  BY Parts, PTL DEF Spec, EE!Spec
<1>6. Typed /\ EE!TypeOK => TypesOK
  BY <1>3 DEF TypesOK
<1> QED BY <1>1, <1>2, <1>4, <1>5, <1>6, PTL DEF Spec
=============================================================================
