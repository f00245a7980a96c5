-------------------------- MODULE LastExecutionBlock --------------------------
(***************************************************************************)
(* getLastExecutionBlockNumBeforeAMissedSlot (beaconChain/missedSlot.js):  *)
(* the block number a report of a missed slot carries, which is one more   *)
(* than that of the last block among the three slots before it. One        *)
(* iteration of its second loop per step.                                  *)
(*                                                                         *)
(* Block numbers count the slots with a block from slot 0, which has       *)
(* block 0. Null stands for null and undefined.                            *)
(***************************************************************************)
EXTENDS Integers, FiniteSets

CONSTANTS
    MissedSlots,        \* missed slots the function is called with
    NaN,                \* the string "NaN"
    Null

ASSUME MissedSlotsAssumption == MissedSlots \subseteq Nat \ {0}
ASSUME ResultsDistinct == NaN # Null /\ {NaN, Null} \intersect Int = {}

VARIABLES
    missedSlotNum,
    failing,                        \* do requests to the beacon node fail now and then?
    proposed,                       \* the slots before it that have a block
    probes,                         \* the answers of the first loop, by place in promises
    i, slotBefore,
    found,
    executionLayerBlockNumFound

call == <<missedSlotNum, failing, proposed, probes>>
vars == <<call, i, slotBefore, found, executionLayerBlockNumFound>>

Reached == IF failing THEN BOOLEAN ELSE {TRUE}

\* getResponse: 404 for a missed slot, and 200 for any other slot and for a
\* request that got no answer. Slots before slot 0 have no block either.
Answer(slot, slots, reached) == IF reached /\ slot \notin slots THEN 404 ELSE 200

Init ==
    /\ missedSlotNum \in MissedSlots
    /\ failing \in BOOLEAN
    /\ \E others \in SUBSET (1 .. missedSlotNum - 1) : proposed = others \union {0}
    /\ \E reached \in [0 .. 2 -> Reached] :
        probes = [k \in 0 .. 2 |-> Answer(missedSlotNum - 1 - k, proposed, reached[k])]
    /\ i = 0
    /\ slotBefore = missedSlotNum - 1
    /\ found = FALSE
    /\ executionLayerBlockNumFound = Null

BlockNumber(slot) == Cardinality({t \in proposed : t < slot})

\* promises[slotBefore]: the array has three entries and is indexed by the slot number.
beaconResponse == IF slotBefore \in 0 .. 2 THEN probes[slotBefore] ELSE Null

\* Mutant of Look: the block number is reported as it is.
LookNoNext ==
    /\ i < 3 /\ ~found
    /\ beaconResponse # 404 /\ slotBefore \in proposed
    /\ executionLayerBlockNumFound' = BlockNumber(slotBefore)
    /\ found' = TRUE
    /\ UNCHANGED <<call, i, slotBefore>>

\* The slot is believed to have a block and its block is fetched.
Look ==
    /\ i < 3 /\ ~found
    /\ beaconResponse # 404 /\ slotBefore \in proposed
    /\ executionLayerBlockNumFound' = BlockNumber(slotBefore) + 1
    /\ found' = TRUE
    /\ UNCHANGED <<call, i, slotBefore>>

\* Mutant of Pass: the loop looks at the same slot again.
PassInPlace ==
    /\ i < 3 /\ ~found
    /\ \/ beaconResponse = 404
       \/ slotBefore \notin proposed \/ FALSE \in Reached
    /\ i' = i + 1
    /\ UNCHANGED <<call, slotBefore, found, executionLayerBlockNumFound>>

\* Mutant of Pass: the loop looks at one slot more.
PassOnceMore ==
    /\ i < 4 /\ ~found
    /\ \/ beaconResponse = 404
       \/ slotBefore \notin proposed \/ FALSE \in Reached
    /\ i' = i + 1
    /\ slotBefore' = slotBefore - 1
    /\ UNCHANGED <<call, found, executionLayerBlockNumFound>>

\* The slot is believed to be missed, or its block cannot be fetched.
Pass ==
    /\ i < 3 /\ ~found
    /\ \/ beaconResponse = 404
       \/ slotBefore \notin proposed \/ FALSE \in Reached
    /\ i' = i + 1
    /\ slotBefore' = slotBefore - 1
    /\ UNCHANGED <<call, found, executionLayerBlockNumFound>>

Done == found \/ i = 4

\* The finalised block is asked for; its execution payload has no block_num, so
\* the difference and the number derived from it are not numbers.
FallBack ==
    /\ i = 3 /\ ~found
    /\ i' = 4
    /\ \E reached \in Reached :
        executionLayerBlockNumFound' = IF reached THEN NaN ELSE Null
    /\ UNCHANGED <<call, slotBefore, found>>

Next == Look \/ Pass \/ FallBack

Spec == Init /\ [][Next]_vars /\ WF_vars(Next)

-------------------------------------------------------------------------------
TypeOK ==
    /\ missedSlotNum \in MissedSlots
    /\ failing \in BOOLEAN
    /\ 0 \in proposed /\ proposed \subseteq 0 .. missedSlotNum - 1
    /\ probes \in [0 .. 2 -> {200, 404}]
    /\ i \in 0 .. 4
    /\ slotBefore \in missedSlotNum - 4 .. missedSlotNum - 1
    /\ found \in BOOLEAN
    /\ executionLayerBlockNumFound \in Nat \union {NaN, Null}

\* The number the first block after the missed slot gets.
NextBlockNumber == BlockNumber(missedSlotNum)

\* A number that is returned is that of a block on chain near the missed slot: one
\* of the last three before the next block's, never a later one, whatever failed.
ResultNearMissedSlot ==
    found => executionLayerBlockNumFound \in NextBlockNumber - 2 .. NextBlockNumber

\* The answers of the probes are read at the slot's number and not at its place, so the
\* first slots are judged by another slot's answer and blocks in them may be passed
\* over. Without failures this never leads to a wrong number: one that is found is the
\* next block's, for every slot. After slot 4 it is found whenever one of the three
\* slots before has a block.
ExactWithoutFailures ==
    ~failing =>
        /\ found => executionLayerBlockNumFound = NextBlockNumber
        /\ Done /\ missedSlotNum > 4
           /\ proposed \intersect (missedSlotNum - 3 .. missedSlotNum - 1) # {} => found
===============================================================================
