--------------------------- MODULE RateLimiterProofs ---------------------------
(***************************************************************************)
(* Proofs about RateLimiter, for every number of workers, every limit and   *)
(* every block time: a block needs as many attempts under way together as   *)
(* the limit says, so that fewer workers than MAX_LOGIN_ATTEMPTS never      *)
(* block; and a block that is set holds until its time.                     *)
(***************************************************************************)
EXTENDS RateLimiter, FiniteSetTheorems, TLAPS

\* The inductive invariant: a block is only set from an unblocked entry, whose
\* count CountsOnlyOverlap bounds.
LimiterInv ==
    /\ TypeOK
    /\ CountsOnlyOverlap
    /\ UnderWay <= peak
    /\ peak <= Cardinality(Worker)

LEMMA UnderWayBound ==
    /\ UnderWay \in Nat /\ Cardinality(Worker) \in Nat
    /\ UnderWay <= Cardinality(Worker)
    /\ IsFiniteSet(Checked)
<1>1. IsFiniteSet(Worker) /\ Checked \in SUBSET Worker
  BY LimiterAssumption DEF LimiterAssumption, Checked
<1> QED
  BY <1>1, FS_Subset, FS_CardinalityType DEF UnderWay

\* An attempt that leaves its handler leaves Checked.
LEMMA UnderWayLess ==
    ASSUME TypeOK, NEW w \in Worker, wpc[w] = "checked",
           wpc' = [wpc EXCEPT ![w] = "idle"]
    PROVE  UnderWay' = UnderWay - 1 /\ UnderWay >= 1
<1>1. Checked' = Checked \ {w} /\ w \in Checked
  BY DEF TypeOK, Checked
<1>2. UnderWay' = UnderWay - 1
  BY <1>1, UnderWayBound, FS_RemoveElement DEF UnderWay
<1>3. UnderWay # 0
  BY <1>1, UnderWayBound, FS_EmptySet DEF UnderWay
<1> QED
  BY <1>2, <1>3, UnderWayBound

\* An attempt that passes the limiter is one more, and still a worker.
LEMMA UnderWayMore ==
    ASSUME TypeOK, NEW w \in Worker, wpc[w] = "idle",
           wpc' = [wpc EXCEPT ![w] = "checked"]
    PROVE  UnderWay' = UnderWay + 1 /\ UnderWay + 1 <= Cardinality(Worker)
<1>1. Checked' = Checked \cup {w} /\ w \notin Checked
  BY DEF TypeOK, Checked
<1>2. UnderWay' = UnderWay + 1
  BY <1>1, UnderWayBound, FS_AddElement DEF UnderWay
<1>3. IsFiniteSet(Worker) /\ Checked' \in SUBSET Worker
  BY LimiterAssumption DEF LimiterAssumption, Checked
<1>4. Cardinality(Checked') <= Cardinality(Worker)
  BY <1>3, FS_Subset
<1> QED
  BY <1>2, <1>4 DEF UnderWay

\* Erasing the entry keeps its shape.
LEMMA EraseShape ==
    ASSUME Erase
    PROVE  /\ present' \in BOOLEAN /\ (present' <=> count' > 0)
           /\ count' \in Nat /\ first' \in Nat /\ blockedUntil' \in Nat
           /\ count' = 0 /\ blockedUntil' = 0
<1>1. ~(0 > 0) /\ 0 \in Nat
  OBVIOUS
<1> QED
  BY <1>1, Zenon DEF Erase

LEMMA LimiterInit == Init => LimiterInv
<1> SUFFICES ASSUME Init PROVE LimiterInv
  OBVIOUS
<1>1. TypeOK
  <2>1. 1 \in Nat \ {0} /\ 0 \in Nat /\ (FALSE <=> 0 > 0)
    OBVIOUS
  <2>2. wpc \in [Worker -> {"idle", "checked"}]
    BY DEF Init
  <2> QED
    BY <2>1, <2>2, Zenon DEF Init, TypeOK
<1>2. UnderWay = 0
  <2>1. Checked = {}
    BY DEF Init, Checked
  <2> QED
    BY <2>1, FS_EmptySet DEF UnderWay
<1> QED
  BY <1>1, <1>2, UnderWayBound
     DEF Init, LimiterInv, CountsOnlyOverlap

LEMMA LimiterStep == LimiterInv /\ [Next]_vars => LimiterInv'
<1> SUFFICES ASSUME LimiterInv, [Next]_vars PROVE LimiterInv'
  OBVIOUS
<1>1. TypeOK
  BY DEF LimiterInv
<1>2. /\ blockedUntil = 0 => count + UnderWay <= peak
      /\ blockedUntil > 0 => peak >= MaxAttempts
      /\ UnderWay <= peak
      /\ peak <= Cardinality(Worker)
  BY DEF LimiterInv, CountsOnlyOverlap
<1>3. MaxAttempts \in Nat \ {0} /\ BlockTime \in Nat
  BY LimiterAssumption DEF LimiterAssumption
<1> DEFINE Goal == /\ TypeOK'
                   /\ blockedUntil' = 0 => count' + UnderWay' <= peak'
                   /\ blockedUntil' > 0 => peak' >= MaxAttempts
                   /\ UnderWay' <= peak'
                   /\ peak' <= Cardinality(Worker)
<1> SUFFICES Goal
  BY DEF LimiterInv, CountsOnlyOverlap
<1>4. CASE Tick
  <2>1. UnderWay' = UnderWay
    BY <1>4 DEF Tick, UnderWay, Checked
  <2> QED
    BY <1>1, <1>2, <1>4, <2>1 DEF Tick, TypeOK, entry
<1>5. ASSUME NEW w \in Worker, CheckPasses(w)
      PROVE  Goal
  <2>1. UnderWay' = UnderWay + 1 /\ UnderWay + 1 <= Cardinality(Worker)
    BY <1>1, <1>5, UnderWayMore DEF CheckPasses
  <2>2. /\ peak' \in Nat /\ peak' >= peak /\ peak' >= UnderWay + 1
        /\ peak' <= Cardinality(Worker)
    BY <1>1, <1>2, <1>5, <2>1, UnderWayBound DEF CheckPasses, TypeOK
  <2>3. CASE Erase
    <3>1. TypeOK'
      BY <1>1, <1>5, <2>2, <2>3, EraseShape DEF CheckPasses, TypeOK
    <3>2. count' = 0 /\ blockedUntil' = 0
      BY <2>3, EraseShape
    <3>3. 0 + (UnderWay + 1) <= peak'
      BY <2>2, UnderWayBound
    <3> QED
      BY <2>1, <2>2, <3>1, <3>2, <3>3
  <2>4. CASE UNCHANGED entry /\ ~(present /\ BlockOver)
    <3>1. TypeOK'
      BY <1>1, <1>5, <2>2, <2>4 DEF CheckPasses, TypeOK, entry
    <3>2. count' = count /\ blockedUntil' = blockedUntil
      BY <2>4 DEF entry
    <3>3. blockedUntil = 0 => count = 0
      <4>1. blockedUntil = 0 => ~present
        BY <1>1, <2>4 DEF BlockOver, TypeOK
      <4>2. count \in Nat /\ (present <=> count > 0)
        BY <1>1 DEF TypeOK
      <4>3. count \in Nat /\ ~(count > 0) => count = 0
        OBVIOUS
      <4> QED
        BY <4>1, <4>2, <4>3, Zenon
    <3>4. blockedUntil' = 0 => count' + UnderWay' <= peak'
      BY <2>1, <2>2, <3>2, <3>3, UnderWayBound
    <3>5. blockedUntil' > 0 => peak' >= MaxAttempts
      BY <1>1, <1>2, <1>3, <2>2, <3>2 DEF TypeOK
    <3> QED
      BY <2>1, <2>2, <3>1, <3>4, <3>5
  <2> QED
    BY <1>5, <2>3, <2>4 DEF CheckPasses
<1>6. ASSUME NEW w \in Worker, RecordFailure(w)
      PROVE  Goal
  <2>1. UnderWay' = UnderWay - 1 /\ UnderWay >= 1 /\ peak' = peak
    BY <1>1, <1>6, UnderWayLess DEF RecordFailure
  <2>2. PICK before \in {0, count} :
          /\ count' = before + 1
          /\ first' = IF before = 0 THEN now ELSE first
          /\ blockedUntil' = IF before + 1 >= MaxAttempts
                             THEN now + BlockTime ELSE blockedUntil
    BY <1>6 DEF RecordFailure
  <2>3. present' /\ TypeOK'
    BY <1>1, <1>3, <1>6, <2>1, <2>2 DEF RecordFailure, TypeOK
  <2>4. blockedUntil' = 0 => count' + UnderWay' <= peak'
    <3> SUFFICES ASSUME blockedUntil' = 0
                 PROVE  (before + 1) + (UnderWay - 1) <= peak
      BY <2>1, <2>2
    <3>1. blockedUntil = 0
      BY <1>1, <1>3, <2>2 DEF TypeOK
    <3> QED
      BY <1>1, <1>2, <2>2, <3>1, UnderWayBound DEF TypeOK
  <2>5. blockedUntil' > 0 => peak' >= MaxAttempts
    <3> SUFFICES ASSUME blockedUntil' > 0, blockedUntil = 0
                 PROVE  peak >= MaxAttempts
      BY <1>1, <1>2, <2>1 DEF TypeOK
    <3>1. before + 1 >= MaxAttempts
      BY <1>1, <2>2 DEF TypeOK
    <3> QED
      BY <1>1, <1>2, <1>3, <2>1, <2>2, <3>1, UnderWayBound DEF TypeOK
  <2>6. UnderWay - 1 <= peak
    BY <1>1, <1>2, UnderWayBound DEF TypeOK
  <2> QED
    BY <1>2, <2>1, <2>3, <2>4, <2>5, <2>6
<1>7. ASSUME NEW w \in Worker, Clear(w)
      PROVE  Goal
  <2>1. UnderWay' = UnderWay - 1 /\ UnderWay >= 1 /\ peak' = peak
    BY <1>1, <1>7, UnderWayLess DEF Clear
  <2>2. TypeOK'
    BY <1>1, <1>7, EraseShape DEF Clear, TypeOK
  <2>3. count' = 0 /\ blockedUntil' = 0
    BY <1>7, EraseShape DEF Clear
  <2>4. peak \in Nat /\ UnderWay - 1 <= peak /\ 0 + (UnderWay - 1) <= peak
    BY <1>1, <1>2, UnderWayBound DEF TypeOK
  <2>5. blockedUntil' = 0 => count' + UnderWay' <= peak'
    BY <2>1, <2>3, <2>4
  <2> QED
    BY <1>2, <2>1, <2>2, <2>3, <2>4, <2>5
<1>8. ASSUME NEW w \in Worker, Refuse(w)
      PROVE  Goal
  <2>1. UnderWay' = UnderWay - 1 /\ UnderWay >= 1
    BY <1>1, <1>8, UnderWayLess DEF Refuse
  <2> QED
    BY <1>1, <1>2, <1>8, <2>1, UnderWayBound DEF Refuse, TypeOK, entry
<1>9. CASE UNCHANGED vars
  <2>1. UnderWay' = UnderWay
    BY <1>9 DEF vars, UnderWay, Checked
  <2> QED
    BY <1>1, <1>2, <1>9, <2>1 DEF vars, TypeOK
<1> QED
  BY <1>4, <1>5, <1>6, <1>7, <1>8, <1>9 DEF Next

-----------------------------------------------------------------------------
(* How long a block holds.                                                 *)

\* No block reaches further than BLOCK_DURATION_SEC ahead, as the clock never
\* goes back: so one that is set later does not end earlier.
BlockBounded == blockedUntil <= now + BlockTime

LEMMA BlockBoundedStep ==
    TypeOK /\ BlockBounded /\ [Next]_vars => BlockBounded'
<1> SUFFICES ASSUME TypeOK, BlockBounded, [Next]_vars PROVE BlockBounded'
  OBVIOUS
<1> USE LimiterAssumption DEF LimiterAssumption, TypeOK, BlockBounded
<1>1. CASE Tick
  BY <1>1 DEF Tick, entry
<1>2. ASSUME NEW w \in Worker, CheckPasses(w) \/ Clear(w) \/ Refuse(w)
      PROVE  BlockBounded'
  BY <1>2 DEF CheckPasses, Clear, Refuse, Erase, entry
<1>3. ASSUME NEW w \in Worker, RecordFailure(w)
      PROVE  BlockBounded'
  <2>1. now' = now /\ blockedUntil' \in {now + BlockTime, blockedUntil}
    BY <1>3 DEF RecordFailure
  <2> QED
    BY <2>1
<1>4. CASE UNCHANGED vars
  BY <1>4 DEF vars
<1> QED
  BY <1>1, <1>2, <1>3, <1>4 DEF Next

\* The step that BlockHolds speaks of.
BlockKept(w) ==
    blockedUntil > now /\ count >= MaxAttempts
        => /\ wpc'[w] = "checked" => wpc[w] = "checked"
           /\ blockedUntil' < blockedUntil => count' = 0 /\ Checked' # Checked

LEMMA BlockKeptStep ==
    ASSUME TypeOK, BlockBounded, [Next]_vars, NEW v \in Worker
    PROVE  BlockKept(v)
<1> SUFFICES ASSUME blockedUntil > now, count >= MaxAttempts
             PROVE  /\ wpc'[v] = "checked" => wpc[v] = "checked"
                    /\ blockedUntil' < blockedUntil
                          => count' = 0 /\ Checked' # Checked
  BY DEF BlockKept
<1>0. /\ MaxAttempts \in Nat \ {0} /\ BlockTime \in Nat
      /\ now \in Nat /\ count \in Nat /\ blockedUntil \in Nat
      /\ blockedUntil <= now + BlockTime
      /\ present /\ Limited /\ ~BlockOver
  BY LimiterAssumption
     DEF LimiterAssumption, TypeOK, BlockBounded, Limited, BlockOver
<1>1. CASE Tick \/ UNCHANGED vars
  <2>1. wpc' = wpc /\ blockedUntil' = blockedUntil
    BY <1>1 DEF Tick, vars, entry
  <2>2. ~(blockedUntil < blockedUntil)
    BY <1>0
  <2> QED
    BY <2>1, <2>2, Zenon
<1>2. ASSUME NEW w \in Worker PROVE ~CheckPasses(w)
  BY <1>0 DEF CheckPasses
<1>3. ASSUME NEW w \in Worker, wpc' = [wpc EXCEPT ![w] = "idle"]
      PROVE  wpc'[v] = "checked" => wpc[v] = "checked"
  BY <1>3 DEF TypeOK
<1>4. ASSUME NEW w \in Worker, RecordFailure(w)
      PROVE  wpc' = [wpc EXCEPT ![w] = "idle"] /\ ~(blockedUntil' < blockedUntil)
  <2>1. blockedUntil' \in {now + BlockTime, blockedUntil}
    BY <1>4 DEF RecordFailure
  <2> QED
    BY <1>0, <1>4, <2>1 DEF RecordFailure
<1>5. ASSUME NEW w \in Worker, Clear(w)
      PROVE  /\ wpc' = [wpc EXCEPT ![w] = "idle"]
             /\ count' = 0 /\ Checked' # Checked
  <2>1. w \in Checked /\ w \notin Checked'
    BY <1>5 DEF Clear, Checked, TypeOK
  <2> QED
    BY <1>5, <2>1 DEF Clear, Erase
<1>6. ASSUME NEW w \in Worker, Refuse(w)
      PROVE  /\ wpc' = [wpc EXCEPT ![w] = "idle"]
             /\ ~(blockedUntil' < blockedUntil)
  BY <1>0, <1>6 DEF Refuse, entry
<1> QED
  BY <1>1, <1>2, <1>3, <1>4, <1>5, <1>6 DEF Next

-----------------------------------------------------------------------------
(* The theorems.                                                           *)

\* The limiter's inductive invariant holds for every number of workers and
\* every limit (is_rate_limited, record_failed_login, clear_login_attempts).
THEOREM LimiterInvariant == Spec => []LimiterInv
<1>1. Init => LimiterInv
  BY LimiterInit
<1>2. LimiterInv /\ [Next]_vars => LimiterInv'
  BY LimiterStep
<1> QED
  BY <1>1, <1>2, PTL DEF Spec

\* Failures in a row never add up: what the limiter has counted were attempts
\* that were under way together, and a block needs MAX_LOGIN_ATTEMPTS of them
\* (is_rate_limited, record_failed_login).
THEOREM CountsOnlyOverlapHolds == Spec => []CountsOnlyOverlap
<1>1. LimiterInv => CountsOnlyOverlap
  BY DEF LimiterInv
<1> QED
  BY <1>1, LimiterInvariant, PTL

\* With fewer workers than MAX_LOGIN_ATTEMPTS no address is ever blocked,
\* whatever it tries for however long.
THEOREM NeverBlocksHolds == Spec => []NeverBlocks
<1>1. LimiterInv => NeverBlocks
  BY LimiterAssumption, UnderWayBound
     DEF LimiterInv, TypeOK, CountsOnlyOverlap, NeverBlocks, LimiterAssumption
<1> QED
  BY <1>1, LimiterInvariant, PTL

\* A block holds until its time: nobody new passes it, and it ends early only by
\* the success of an attempt that had passed before (is_rate_limited,
\* record_failed_login, clear_login_attempts).
THEOREM BlockHoldsHolds == Spec => BlockHolds
<1>1. Init => BlockBounded
  BY LimiterAssumption DEF Init, BlockBounded, LimiterAssumption
<1>2. LimiterInv => TypeOK
  BY DEF LimiterInv
<1>3. TypeOK /\ BlockBounded /\ [Next]_vars
        => [\A w \in Worker :
              blockedUntil > now /\ count >= MaxAttempts
                => /\ wpc'[w] = "checked" => wpc[w] = "checked"
                   /\ blockedUntil' < blockedUntil
                         => count' = 0 /\ Checked' # Checked]_vars
  BY BlockKeptStep DEF BlockKept
<1> QED
  BY <1>1, <1>2, <1>3, LimiterInvariant, BlockBoundedStep, PTL
     DEF Spec, BlockHolds
================================================================================
