------------------------------ MODULE HighestBid ------------------------------
(***************************************************************************)
(* The loop of getHighestValueHeaderForEachSlot, one iteration per step,   *)
(* over any list of delivered headers.                                     *)
(***************************************************************************)
EXTENDS RelayAnalysis

CONSTANTS
    Slots,          \* slots the headers may name
    HeaderLists     \* lists of delivered headers the loop is run on

Header == [Slot : Slots, BidValue : Nat]

ASSUME HeaderListsAssumption == HeaderLists \subseteq Seq(Header)
ASSUME NullIsNoBid == Null \notin Nat

VARIABLES
    proposerDeliveredHeaders,       \* the argument
    i,                              \* the loop counter, counted from 1
    highestValueHeaderForEachSlot   \* the object built: slot -> value or undefined

vars == <<proposerDeliveredHeaders, i, highestValueHeaderForEachSlot>>

Init ==
    /\ proposerDeliveredHeaders \in HeaderLists
    /\ i = 1
    /\ highestValueHeaderForEachSlot = [s \in Slots |-> Null]

\* Mutant of Replaces: the test for a stored value is inverted.
ReplacesOnlyTruthy(stored, value) == Truthy(stored) /\ stored < value

\* A value replaces the stored one when nothing truthy is stored (a stored 0
\* counts as nothing) or when it is higher.
Replaces(stored, value) == ~Truthy(stored) \/ stored < value

\* Mutant of Iterate: the counter skips every other header.
IterateByTwo ==
    /\ i <= Len(proposerDeliveredHeaders)
    /\ LET deliveredHeader == proposerDeliveredHeaders[i] IN
         highestValueHeaderForEachSlot' =
            [highestValueHeaderForEachSlot EXCEPT ![deliveredHeader.Slot] =
                IF Replaces(@, deliveredHeader.BidValue) THEN deliveredHeader.BidValue ELSE @]
    /\ i' = i + 2
    /\ UNCHANGED proposerDeliveredHeaders

Iterate ==
    /\ i <= Len(proposerDeliveredHeaders)
    /\ LET deliveredHeader == proposerDeliveredHeaders[i] IN
         highestValueHeaderForEachSlot' =
            [highestValueHeaderForEachSlot EXCEPT ![deliveredHeader.Slot] =
                IF Replaces(@, deliveredHeader.BidValue) THEN deliveredHeader.BidValue ELSE @]
    /\ i' = i + 1
    /\ UNCHANGED proposerDeliveredHeaders

Next == Iterate

Spec == Init /\ [][Next]_vars /\ WF_vars(Next)

-------------------------------------------------------------------------------
TypeOK ==
    /\ proposerDeliveredHeaders \in Seq(Header)
    /\ i \in 1 .. Len(proposerDeliveredHeaders) + 1
    /\ highestValueHeaderForEachSlot \in [Slots -> Nat \union {Null}]

\* The values seen so far for a slot.
Seen(s) ==
    {proposerDeliveredHeaders[j].BidValue :
        j \in {n \in 1 .. i - 1 : proposerDeliveredHeaders[n].Slot = s}}

\* What is stored for a slot is the greatest value seen so far for it, and
\* nothing before the first: the zero-is-falsy test in the loop never loses a bid.
StoredIsHighestSeen ==
    \A s \in Slots :
        LET stored == highestValueHeaderForEachSlot[s] IN
            IF Seen(s) = {} THEN stored = Null
            ELSE stored \in Seen(s) /\ \A value \in Seen(s) : value <= stored

\* When the loop ends, the object it returns is the operator the reporter and
\* the verifier are modelled with: HighestValueHeader of RelayAnalysis.
LoopComputesHighest ==
    i = Len(proposerDeliveredHeaders) + 1 =>
        \A s \in Slots :
            highestValueHeaderForEachSlot[s] = HighestValueHeader(proposerDeliveredHeaders, s)
===============================================================================
