----------------------- MODULE LastExecutionBlockProofs -----------------------
(***************************************************************************)
(* The block number reported for a missed slot, for every slot and every   *)
(* history of the slots before it.                                         *)
(*                                                                         *)
(* LoopInv, the inductive invariant, ties the slot the loop looks at to    *)
(* its counter, a result to the slot it was computed from, and, when no    *)
(* request fails, says which slots with a block the loop may pass over:    *)
(* some of the first, judged by another slot's answer, after which no      *)
(* block is found any more.                                                *)
(***************************************************************************)
EXTENDS LastExecutionBlock, FiniteSetTheorems, TLAPS

Passed == slotBefore + 1 .. missedSlotNum - 1

InStep ==
    IF i = 4 THEN slotBefore = missedSlotNum - 4 ELSE slotBefore = missedSlotNum - 1 - i

FromABlock ==
    found => /\ i < 3 /\ slotBefore \in proposed
             /\ executionLayerBlockNumFound = BlockNumber(slotBefore) + 1

ProbesTrue ==
    ~failing => probes = [k \in 0 .. 2 |-> Answer(missedSlotNum - 1 - k, proposed, TRUE)]

\* The slots of the wrong index: slot 0, and before the missed slot 4 slot 1, and slot 2
\* if slot 1 has no block.
Misread(s) == s = 0 \/ (missedSlotNum = 4 /\ (s = 1 \/ (s = 2 /\ 1 \notin proposed)))

PassedMissed == ~failing => \A s \in Passed \intersect proposed : Misread(s)

LoopInv == TypeOK /\ InStep /\ FromABlock /\ ProbesTrue /\ PassedMissed

-------------------------------------------------------------------------------
(* Block numbers count slots.                                               *)

LEMMA BlocksFinite ==
    ASSUME TypeOK, NEW slot
    PROVE  IsFiniteSet({t \in proposed : t < slot}) /\ BlockNumber(slot) \in Nat
PROOF
<1>1. missedSlotNum \in Int
  BY MissedSlotsAssumption DEF TypeOK
<1>2. IsFiniteSet(0 .. missedSlotNum - 1)
  BY <1>1, FS_Interval
<1>3. {t \in proposed : t < slot} \subseteq 0 .. missedSlotNum - 1
  BY DEF TypeOK
<1>4. IsFiniteSet({t \in proposed : t < slot})
  BY <1>2, <1>3, FS_Subset
<1> QED BY <1>4, FS_CardinalityType DEF BlockNumber

\* Between a slot with a block and the missed slot, at most three later, there are
\* one to three blocks; exactly one when the slots in between are missed.
LEMMA BlocksBetween ==
    ASSUME TypeOK, NEW slot \in proposed, slot >= missedSlotNum - 3
    PROVE  /\ NextBlockNumber \in BlockNumber(slot) + 1 .. BlockNumber(slot) + 3
           /\ (slot + 1 .. missedSlotNum - 1) \intersect proposed = {}
                    => NextBlockNumber = BlockNumber(slot) + 1
PROOF
<1> DEFINE before == {t \in proposed : t < slot}
           between == {t \in proposed : t >= slot}
           all == {t \in proposed : t < missedSlotNum}
<1>1. missedSlotNum \in Int /\ slot \in Int /\ slot < missedSlotNum
      /\ \A t \in proposed : t \in Int /\ t < missedSlotNum
  BY MissedSlotsAssumption DEF TypeOK
<1>2. all = before \union between /\ before \intersect between = {}
  <2>1. \A t \in proposed : t < missedSlotNum /\ (t < slot \/ t >= slot) /\ ~(t < slot /\ t >= slot)
    BY <1>1
  <2> QED BY <2>1, Zenon
<1>3. IsFiniteSet(before) /\ IsFiniteSet(all)
  BY BlocksFinite
<1>4. between \subseteq slot .. missedSlotNum - 1 /\ slot \in between
  <2>1. \A t \in proposed : t >= slot => t \in slot .. missedSlotNum - 1
    BY <1>1
  <2>2. slot >= slot
    BY <1>1
  <2> QED BY <2>1, <2>2
<1>5. IsFiniteSet(slot .. missedSlotNum - 1)
      /\ Cardinality(slot .. missedSlotNum - 1) = missedSlotNum - slot
  <2>1. Cardinality(slot .. missedSlotNum - 1) = (missedSlotNum - 1) - slot + 1
    BY <1>1, FS_Interval
  <2> QED BY <1>1, <2>1, FS_Interval
<1>6. IsFiniteSet(between) /\ Cardinality(between) <= missedSlotNum - slot
  <2> HIDE DEF between
  <2> QED BY <1>4, <1>5, FS_Subset
<1>7. Cardinality(before) \in Nat /\ Cardinality(between) \in Nat
  BY <1>3, <1>6, FS_CardinalityType
<1>8. Cardinality(between) >= 1
  BY <1>4, <1>6, <1>7, FS_EmptySet
<1>9. Cardinality(all) = Cardinality(before) + Cardinality(between)
  <2>1. Cardinality(before \intersect between) = 0
    BY <1>2, FS_EmptySet
  <2>2. Cardinality(before \union between)
          = Cardinality(before) + Cardinality(between) - Cardinality(before \intersect between)
    BY <1>3, <1>6, FS_Union
  <2> HIDE DEF before, between, all
  <2> QED BY <1>2, <1>7, <2>1, <2>2
<1>10. NextBlockNumber = Cardinality(all) /\ BlockNumber(slot) = Cardinality(before)
  BY DEF NextBlockNumber, BlockNumber
<1>11. ASSUME (slot + 1 .. missedSlotNum - 1) \intersect proposed = {}
       PROVE  Cardinality(between) = 1
  <2>1. between = {slot}
    BY <1>1, <1>4, <1>11
  <2> QED BY <2>1, FS_Singleton
<1> HIDE DEF before, between, all
<1> QED BY <1>1, <1>6, <1>7, <1>8, <1>9, <1>10, <1>11

-------------------------------------------------------------------------------
LEMMA InitLoop == Init => LoopInv
PROOF
<1> SUFFICES ASSUME Init PROVE LoopInv
  OBVIOUS
<1>1. missedSlotNum \in Nat /\ missedSlotNum >= 1
  BY MissedSlotsAssumption DEF Init
<1>2. 0 \in proposed /\ proposed \subseteq 0 .. missedSlotNum - 1
  BY <1>1 DEF Init
<1>3. probes \in [0 .. 2 -> {200, 404}]
  BY DEF Init, Answer
<1>4. ~failing => probes = [k \in 0 .. 2 |-> Answer(missedSlotNum - 1 - k, proposed, TRUE)]
  BY DEF Init, Reached
<1>5. TypeOK
  <2>1. /\ missedSlotNum \in MissedSlots /\ failing \in BOOLEAN /\ found \in BOOLEAN
        /\ executionLayerBlockNumFound = Null /\ i = 0 /\ slotBefore = missedSlotNum - 1
    BY DEF Init
  <2>2. i \in 0 .. 4 /\ slotBefore \in missedSlotNum - 4 .. missedSlotNum - 1
    BY <1>1, <2>1
  <2> QED BY <1>2, <1>3, <2>1, <2>2 DEF TypeOK
<1>6. Passed = {}
  BY <1>1 DEF Init, Passed
<1>7. i = 0 /\ slotBefore = missedSlotNum - 1 - i /\ ~found
  BY <1>1 DEF Init
<1>8. InStep /\ FromABlock
  BY <1>7 DEF InStep, FromABlock
<1> QED BY <1>4, <1>5, <1>6, <1>8 DEF LoopInv, ProbesTrue, PassedMissed

\* When no request fails, a slot looked at is passed over only if it is missed or is one
\* of those judged by another's answer: at place i that is the answer for slot i.
LEMMA PassedIsMissed ==
    ASSUME LoopInv, Pass, ~failing, slotBefore \in proposed
    PROVE  Misread(slotBefore)
PROOF
<1>1. slotBefore = missedSlotNum - 1 - i /\ i \in 0 .. 2 /\ missedSlotNum \in Int
  BY MissedSlotsAssumption DEF LoopInv, InStep, TypeOK, Pass
<1>2. beaconResponse = 404
  BY DEF Pass, Reached
<1>3. slotBefore \in 0 .. 2 /\ probes[slotBefore] = 404
  BY <1>2, ResultsDistinct DEF beaconResponse
<1>4. probes[slotBefore] = Answer(missedSlotNum - 1 - slotBefore, proposed, TRUE)
  BY <1>3 DEF LoopInv, ProbesTrue
<1>5. i \notin proposed
  <2>1. missedSlotNum - 1 - slotBefore = i
    BY <1>1
  <2> QED BY <1>3, <1>4, <2>1 DEF Answer
<1>6. 0 \in proposed
  BY DEF LoopInv, TypeOK
<1>7. CASE i = 1
  BY <1>1, <1>3, <1>5, <1>7 DEF Misread
<1>8. CASE i = 2
  BY <1>1, <1>3, <1>5, <1>8 DEF Misread
<1> QED BY <1>1, <1>5, <1>6, <1>7, <1>8

LEMMA NextLoop == LoopInv /\ [Next]_vars => LoopInv'
PROOF
<1> SUFFICES ASSUME LoopInv, [Next]_vars PROVE LoopInv'
  OBVIOUS
<1>1. missedSlotNum \in Int /\ slotBefore \in Int /\ i \in 0 .. 4
  BY MissedSlotsAssumption DEF LoopInv, TypeOK
<1>2. CASE Look
  <2>1. i < 3 /\ slotBefore \in proposed /\ UNCHANGED <<call, i, slotBefore>>
    BY <1>2 DEF Look
  <2>2. BlockNumber(slotBefore) + 1 \in Nat
    <3>1. BlockNumber(slotBefore) \in Nat
      BY BlocksFinite DEF LoopInv
    <3> QED BY <3>1
  <2>3. TypeOK'
    BY <1>2, <2>1, <2>2 DEF LoopInv, TypeOK, Look, call
  <2>4. BlockNumber(slotBefore)' = BlockNumber(slotBefore)
    BY <2>1 DEF call, BlockNumber
  <2>5. FromABlock'
    BY <1>2, <2>1, <2>4 DEF FromABlock, Look, call
  <2>6. InStep' /\ ProbesTrue' /\ PassedMissed'
    BY <2>1 DEF LoopInv, InStep, ProbesTrue, PassedMissed, Misread, Passed, call
  <2> QED BY <2>3, <2>5, <2>6 DEF LoopInv
<1>3. CASE Pass
  <2>1. /\ i < 3 /\ slotBefore = missedSlotNum - 1 - i /\ i' = i + 1
        /\ slotBefore' = slotBefore - 1 /\ ~found' /\ UNCHANGED call
    BY <1>1, <1>3 DEF LoopInv, InStep, Pass
  <2>2. TypeOK'
    BY <1>1, <1>3, <2>1 DEF LoopInv, TypeOK, Pass, call
  <2>3. Passed' = Passed \union {slotBefore}
    BY <1>1, <2>1 DEF Passed, call
  <2>4. PassedMissed'
    BY <1>3, <2>1, <2>3, PassedIsMissed DEF LoopInv, PassedMissed, Misread, call
  <2>5. InStep' /\ FromABlock'
    BY <1>1, <2>1 DEF InStep, FromABlock, call
  <2>6. ProbesTrue'
    BY <2>1 DEF LoopInv, ProbesTrue, call
  <2> QED BY <2>2, <2>4, <2>5, <2>6 DEF LoopInv
<1>4. CASE FallBack
  <2>1. i = 3 /\ i' = 4 /\ ~found' /\ UNCHANGED <<call, slotBefore, found>>
    BY <1>4 DEF FallBack
  <2>2. TypeOK'
    BY <1>4, <2>1 DEF LoopInv, TypeOK, FallBack, call
  <2>3. InStep' /\ FromABlock'
    BY <1>1, <2>1 DEF LoopInv, InStep, FromABlock, call
  <2>4. ProbesTrue' /\ PassedMissed'
    BY <2>1 DEF LoopInv, ProbesTrue, PassedMissed, Misread, Passed, call
  <2> QED BY <2>2, <2>3, <2>4 DEF LoopInv
<1>5. CASE UNCHANGED vars
  <2>1. UNCHANGED <<call, i, slotBefore, found, executionLayerBlockNumFound>>
    BY <1>5 DEF vars
  <2>2. TypeOK'
    BY <2>1 DEF LoopInv, TypeOK, call
  <2>3. InStep' /\ FromABlock'
    BY <2>1 DEF LoopInv, InStep, FromABlock, BlockNumber, call
  <2>4. ProbesTrue' /\ PassedMissed'
    BY <2>1 DEF LoopInv, ProbesTrue, PassedMissed, Misread, Passed, call
  <2> QED BY <2>2, <2>3, <2>4 DEF LoopInv
<1> QED BY <1>2, <1>3, <1>4, <1>5 DEF Next

LEMMA LoopInvHolds == Spec => []LoopInv
  BY InitLoop, NextLoop, PTL DEF Spec

\* The loop looks at three slots at most, and its result is a number, NaN or null.
THEOREM TypeCorrect == Spec => []TypeOK
PROOF
<1>1. LoopInv => TypeOK
  BY DEF LoopInv
<1> QED BY <1>1, LoopInvHolds, PTL

\* Whatever fails, a number that is found is at most two below the next block's.
THEOREM ResultNear == Spec => []ResultNearMissedSlot
PROOF
<1>1. LoopInv => ResultNearMissedSlot
  <2> SUFFICES ASSUME LoopInv, found
               PROVE  executionLayerBlockNumFound \in NextBlockNumber - 2 .. NextBlockNumber
    BY DEF ResultNearMissedSlot
  <2>1. /\ TypeOK /\ slotBefore \in proposed
        /\ executionLayerBlockNumFound = BlockNumber(slotBefore) + 1
    BY DEF LoopInv, FromABlock
  <2>2. slotBefore >= missedSlotNum - 3
    BY MissedSlotsAssumption DEF LoopInv, InStep, FromABlock, TypeOK
  <2>3. NextBlockNumber \in BlockNumber(slotBefore) + 1 .. BlockNumber(slotBefore) + 3
    BY <2>1, <2>2, BlocksBetween
  <2>4. BlockNumber(slotBefore) \in Nat
    BY <2>1, BlocksFinite
  <2> QED BY <2>1, <2>3, <2>4
<1> QED BY <1>1, LoopInvHolds, PTL

\* Without failures a number that is found was not found past a block.
LEMMA FoundIsLast ==
    ASSUME LoopInv, found, ~failing
    PROVE  Passed \intersect proposed = {}
PROOF
<1>1. /\ slotBefore \in proposed /\ slotBefore >= 0 /\ slotBefore \in Int
      /\ slotBefore >= missedSlotNum - 3 /\ missedSlotNum \in Int
  BY MissedSlotsAssumption DEF LoopInv, FromABlock, InStep, TypeOK
<1> SUFFICES ASSUME NEW s \in Passed \intersect proposed PROVE FALSE
  OBVIOUS
<1>2. s > slotBefore /\ s \in Int
  BY <1>1 DEF Passed
<1>3. Misread(s)
  BY DEF LoopInv, PassedMissed
<1>4. CASE s = 0
  BY <1>1, <1>2, <1>4
<1>5. CASE missedSlotNum = 4 /\ s = 1
  BY <1>1, <1>2, <1>5
<1>6. CASE missedSlotNum = 4 /\ s = 2 /\ 1 \notin proposed
  <2>1. slotBefore = 1
    BY <1>1, <1>2, <1>6
  <2> QED BY <1>1, <1>6, <2>1
<1> QED BY <1>3, <1>4, <1>5, <1>6 DEF Misread

\* Without failures the probes, read at the wrong index, do no harm: a number found is
\* exact for every slot, and after slot 4 it is found if one of the three slots before
\* has a block.
THEOREM ResultExact == Spec => []ExactWithoutFailures
PROOF
<1>1. LoopInv => ExactWithoutFailures
  <2> SUFFICES ASSUME LoopInv, ~failing
               PROVE  /\ found => executionLayerBlockNumFound = NextBlockNumber
                      /\ Done /\ missedSlotNum > 4
                         /\ proposed \intersect (missedSlotNum - 3 .. missedSlotNum - 1) # {} => found
    BY DEF ExactWithoutFailures
  <2>1. TypeOK /\ missedSlotNum \in Int
    BY MissedSlotsAssumption DEF LoopInv, TypeOK
  <2>2. ASSUME found PROVE executionLayerBlockNumFound = NextBlockNumber
    <3>1. /\ slotBefore \in proposed
          /\ executionLayerBlockNumFound = BlockNumber(slotBefore) + 1
      BY <2>2 DEF LoopInv, FromABlock
    <3>2. slotBefore >= missedSlotNum - 3
      BY <2>1, <2>2 DEF LoopInv, InStep, FromABlock, TypeOK
    <3>3. Passed \intersect proposed = {}
      BY <2>2, FoundIsLast
    <3> QED BY <2>1, <3>1, <3>2, <3>3, BlocksBetween DEF Passed
  <2>3. ASSUME Done, missedSlotNum > 4, ~found,
               NEW s \in proposed \intersect (missedSlotNum - 3 .. missedSlotNum - 1)
        PROVE  FALSE
    <3>1. Passed = missedSlotNum - 3 .. missedSlotNum - 1
      BY <2>1, <2>3 DEF Done, LoopInv, InStep, Passed
    <3>2. Misread(s) /\ s \in Int /\ s >= missedSlotNum - 3
      BY <2>1, <2>3, <3>1 DEF LoopInv, PassedMissed
    <3> QED BY <2>1, <2>3, <3>2 DEF Misread
  <2> QED BY <2>2, <2>3
<1> QED BY <1>1, LoopInvHolds, PTL
===============================================================================
