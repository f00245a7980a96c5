--------------------------- MODULE ScanServicesProofs ---------------------------
(***************************************************************************)
(* Autoscan asks the reporter for the right epochs, in order and without a *)
(* gap it could have avoided, for every number of epochs and clients and   *)
(* however often events are lost and processes restarted.                  *)
(*                                                                         *)
(* The invariants are inductive one after the other: LifeInv (types, and   *)
(* what a phase of the process implies), OrderInv (the epochs asked for,   *)
(* the events on their way and the finalized epoch are in this order) and  *)
(* CoverInv (every final epoch from the first one on was asked for, will   *)
(* be, or has lost its event).                                             *)
(***************************************************************************)
EXTENDS ScanServices, TLAPS

LifeInv ==
    /\ AutoScanTypeOK
    /\ process \in {"down", "starting"} => inFlight = {}
    /\ process = "starting" => asked = <<>>
    /\ process \in {"first", "listening"} => asked # <<>>
    /\ Range(asked) \subseteq Asked

\* Where the events stand: in order, none ahead of the beacon node.
EventsInOrder ==
    /\ \A n \in DOMAIN events : events[n] <= finalized
    /\ \A m, n \in DOMAIN events : m < n => events[m] < events[n]

\* The epochs asked for lag behind the finalized one, those of events by one more.
AskedLag ==
    \A k \in DOMAIN asked : asked[k] <= finalized - 2 /\ (k > 1 => asked[k] <= finalized - 3)

\* An event on its way asks for a later epoch than any so far, or, if it is the first
\* since start-up, for that same epoch again.
EventsAhead ==
    \A n \in DOMAIN events : \A k \in DOMAIN asked :
        \/ asked[k] < events[n] - 3
        \/ k = 1 /\ Len(asked) = 1 /\ asked[k] = events[n] - 3

OrderInv == EventsInOrder /\ AskedLag /\ EventsAhead /\ AskedInOrder

AllLag == \A a \in Asked : a <= finalized - 2

EventsAheadOfAll == \A n \in DOMAIN events : \A a \in Asked : a <= events[n] - 3

Covered ==
    \A low \in Asked : \A epoch \in low .. finalized - 3 :
        epoch \in Asked \/ epoch + 3 \in lost \/ epoch + 3 \in Range(events)

CoverInv == AllLag /\ EventsAheadOfAll /\ Covered

-------------------------------------------------------------------------------
(* Queues.                                                                  *)

LEMMA Members ==
    ASSUME NEW S, NEW q \in Seq(S)
    PROVE  (\A k \in DOMAIN q : q[k] \in S) /\ Range(q) \subseteq S
PROOF
<1>1. \A k \in DOMAIN q : q[k] \in S
  OBVIOUS
<1> QED BY <1>1 DEF Range

LEMMA AppendFacts ==
    ASSUME NEW S, NEW q \in Seq(S), NEW x \in S
    PROVE  /\ Append(q, x) \in Seq(S)
           /\ Len(Append(q, x)) = Len(q) + 1 /\ DOMAIN Append(q, x) = 1 .. Len(q) + 1
           /\ \A k \in DOMAIN q : k \in DOMAIN Append(q, x) /\ Append(q, x)[k] = q[k]
           /\ Append(q, x)[Len(q) + 1] = x
           /\ \A k \in DOMAIN Append(q, x) : k \in DOMAIN q \/ k = Len(q) + 1
           /\ Range(Append(q, x)) = Range(q) \union {x}
PROOF
<1>1. /\ Append(q, x) \in Seq(S)
      /\ Len(Append(q, x)) = Len(q) + 1 /\ DOMAIN Append(q, x) = 1 .. Len(q) + 1
      /\ DOMAIN q = 1 .. Len(q) /\ Len(q) \in Nat
  OBVIOUS
<1>2. \A k \in DOMAIN q : k \in DOMAIN Append(q, x) /\ Append(q, x)[k] = q[k]
  OBVIOUS
<1>3. Append(q, x)[Len(q) + 1] = x
  OBVIOUS
<1>4. \A k \in DOMAIN Append(q, x) : k \in DOMAIN q \/ k = Len(q) + 1
  BY <1>1
<1>5. Len(q) + 1 \in DOMAIN Append(q, x)
  BY <1>1
<1>6. Range(Append(q, x)) = Range(q) \union {x}
  BY <1>2, <1>3, <1>4, <1>5, Zenon DEF Range
<1> QED BY <1>1, <1>2, <1>3, <1>4, <1>6

LEMMA TailFacts ==
    ASSUME NEW S, NEW q \in Seq(S), q # <<>>
    PROVE  /\ Tail(q) \in Seq(S) /\ Head(q) \in S /\ Head(q) = q[1] /\ 1 \in DOMAIN q
           /\ \A k \in DOMAIN Tail(q) : k + 1 \in DOMAIN q /\ k + 1 > 1 /\ Tail(q)[k] = q[k + 1]
           /\ Range(q) = {Head(q)} \union Range(Tail(q))
PROOF
<1>1. /\ Tail(q) \in Seq(S) /\ Head(q) \in S /\ Head(q) = q[1] /\ 1 \in DOMAIN q
      /\ Len(q) \in Nat \ {0} /\ DOMAIN q = 1 .. Len(q) /\ DOMAIN Tail(q) = 1 .. Len(q) - 1
  OBVIOUS
<1>2. \A k \in DOMAIN Tail(q) : k + 1 \in DOMAIN q /\ k + 1 > 1 /\ Tail(q)[k] = q[k + 1]
  BY <1>1
<1>3. \A n \in DOMAIN q : n = 1 \/ (n - 1 \in DOMAIN Tail(q) /\ Tail(q)[n - 1] = q[n])
  BY <1>1
<1>4. Range(q) = {Head(q)} \union Range(Tail(q))
  <2>1. \A y \in Range(q) : y \in {Head(q)} \union Range(Tail(q))
    BY <1>1, <1>3, Zenon DEF Range
  <2>2. \A y \in {Head(q)} \union Range(Tail(q)) : y \in Range(q)
    BY <1>1, <1>2, Zenon DEF Range
  <2> QED BY <2>1, <2>2
<1> QED BY <1>1, <1>2, <1>4

\* An empty queue has no place and no member.
LEMMA EmptyFacts == DOMAIN <<>> = {} /\ Range(<<>>) = {}
  BY DEF Range
-------------------------------------------------------------------------------
(* The steps of autoscan, and the steps of the others.                      *)

AutoScanUnchanged == UNCHANGED <<finalized, autoscanVars>>

\* What a step of the two services and the beacon node is for autoscan.
LEMMA StepCases ==
    ASSUME [ServicesNext]_servicesVars
    PROVE  \/ \E epoch \in 1 .. MaxEpoch : Finalize(epoch)
           \/ AutoScanStep /\ UNCHANGED finalized
           \/ AutoScanUnchanged
  BY DEF ServicesNext, servicesVars, AutoScanUnchanged

\* A scan starts: one epoch more is asked for.
LEMMA AskedOneMore ==
    ASSUME AutoScanTypeOK, NEW epoch \in Epochs, getListOfViolations(epoch)
    PROVE  /\ asked' \in Seq(Epochs) /\ asked' # <<>>
           /\ Range(asked') = Range(asked) \union {epoch}
           /\ inFlight' = inFlight \union {epoch}
           /\ Asked' = Asked \union {epoch}
PROOF
<1>1. asked \in Seq(Epochs) /\ asked' = Append(asked, epoch)
  BY DEF AutoScanTypeOK, getListOfViolations
<1>2. asked' \in Seq(Epochs) /\ asked' # <<>>
  <2> HIDE DEF Epochs
  <2> QED BY <1>1
<1>3. Range(asked') = Range(asked) \union {epoch}
  BY <1>1, AppendFacts
<1> QED BY <1>2, <1>3 DEF getListOfViolations, Asked

LEMMA ExitAsked == Exit => Asked' = Asked /\ inFlight' = {}
  BY DEF Exit, Asked

LEMMA ScanEndsAsked == ASSUME NEW epoch, ScanEnds(epoch) PROVE Asked' = Asked
  BY DEF ScanEnds, Asked

-------------------------------------------------------------------------------
(* LifeInv.                                                                 *)

LEMMA InitLife == ServicesInit => LifeInv
  BY MaxEpochAssumption, EmptyFacts
     DEF ServicesInit, AutoScanInit, LifeInv, AutoScanTypeOK, Epochs, Asked

LEMMA FinalizeLife ==
    ASSUME LifeInv, NEW epoch \in 1 .. MaxEpoch, Finalize(epoch) PROVE LifeInv'
PROOF
<1>1. events' \in Seq(1 .. MaxEpoch) /\ (events' # <<>> => connected')
  <2>1. events \in Seq(1 .. MaxEpoch)
    BY DEF LifeInv, AutoScanTypeOK
  <2>2. Append(events, epoch) \in Seq(1 .. MaxEpoch)
    BY <2>1, AppendFacts
  <2> QED BY <2>1, <2>2 DEF LifeInv, AutoScanTypeOK, Finalize
<1>2. finalized' \in 0 .. MaxEpoch
  BY MaxEpochAssumption DEF Finalize
<1>3. lost' \subseteq 1 .. MaxEpoch
  <2>1. finalized + 1 .. epoch \subseteq 1 .. MaxEpoch
    BY MaxEpochAssumption DEF LifeInv, AutoScanTypeOK
  <2>2. finalized + 1 .. epoch - 1 \subseteq 1 .. MaxEpoch
    BY MaxEpochAssumption DEF LifeInv, AutoScanTypeOK
  <2> QED BY <2>1, <2>2 DEF LifeInv, AutoScanTypeOK, Finalize
<1> QED BY <1>1, <1>2, <1>3 DEF LifeInv, AutoScanTypeOK, Finalize, scans, Asked

LEMMA ExitLife == ASSUME LifeInv, Exit, UNCHANGED finalized PROVE LifeInv'
PROOF
<1>1. Range(events) \subseteq 1 .. MaxEpoch
  BY Members DEF LifeInv, AutoScanTypeOK
<1>2. inFlight \subseteq Epochs
  BY Members DEF LifeInv, AutoScanTypeOK
<1>3. Range(asked') \subseteq Asked'
  BY ExitAsked DEF LifeInv, Exit
<1>4. lost' \subseteq 1 .. MaxEpoch
  BY <1>1 DEF LifeInv, AutoScanTypeOK, Exit
<1>5. AutoScanTypeOK'
  BY <1>2, <1>4 DEF LifeInv, AutoScanTypeOK, Exit
<1> QED BY <1>3, <1>5 DEF LifeInv, Exit

LEMMA AutoScanStepLife ==
    ASSUME LifeInv, AutoScanStep, UNCHANGED finalized PROVE LifeInv'
PROOF
<1>1. CASE Start
  BY <1>1, EmptyFacts DEF LifeInv, AutoScanTypeOK, Start, stream, Asked
<1>2. CASE checkForViolations
  <2>1. finalized - 2 \in Epochs /\ getListOfViolations(finalized - 2)
    BY <1>2, MaxEpochAssumption DEF LifeInv, AutoScanTypeOK, Epochs, checkForViolations
  <2>2. inFlight' \subseteq Range(asked') /\ asked' \in Seq(Epochs) /\ asked' # <<>>
        /\ Range(asked') \subseteq Asked'
    BY <2>1, AskedOneMore DEF LifeInv, AutoScanTypeOK
  <2> QED BY <1>2, <2>2 DEF LifeInv, AutoScanTypeOK, checkForViolations, getListOfViolations, stream
<1>3. CASE CheckpointFails
  BY <1>3, ExitLife DEF CheckpointFails
<1>4. CASE Subscribe
  BY <1>4 DEF LifeInv, AutoScanTypeOK, Subscribe, scans, Asked
<1>5. CASE OnFinalizedCheckpoint
  <2>1. events \in Seq(1 .. MaxEpoch) /\ events # <<>> /\ process = "listening"
    BY <1>5 DEF LifeInv, AutoScanTypeOK, OnFinalizedCheckpoint
  <2>2. Tail(events) \in Seq(1 .. MaxEpoch) /\ Head(events) \in 1 .. MaxEpoch
    BY <2>1, TailFacts
  <2>3. finalizedEpoch(Head(events)) \in Epochs
    BY <2>2, MaxEpochAssumption DEF finalizedEpoch, Epochs
  <2>4. inFlight' \subseteq Range(asked') /\ asked' \in Seq(Epochs) /\ asked' # <<>>
        /\ Range(asked') \subseteq Asked'
    BY <1>5, <2>3, AskedOneMore DEF LifeInv, AutoScanTypeOK, OnFinalizedCheckpoint
  <2>5. connected
    BY <2>1 DEF LifeInv, AutoScanTypeOK
  <2> QED BY <1>5, <2>1, <2>2, <2>4, <2>5
        DEF LifeInv, AutoScanTypeOK, OnFinalizedCheckpoint, getListOfViolations
<1>6. CASE \E epoch \in inFlight : ScanEnds(epoch)
  <2>1. PICK epoch \in inFlight : ScanEnds(epoch)
    BY <1>6
  <2>2. epoch \in Epochs
    BY Members DEF LifeInv, AutoScanTypeOK
  <2> QED BY <2>1, <2>2, ScanEndsAsked DEF LifeInv, AutoScanTypeOK, ScanEnds, stream
<1>7. CASE \E epoch \in inFlight : ScanThrows(epoch)
  BY <1>7, ExitLife DEF ScanThrows
<1>8. CASE Disconnect
  <2>1. lost' \subseteq 1 .. MaxEpoch
    BY <1>8, Members DEF LifeInv, AutoScanTypeOK, Disconnect
  <2>2. AutoScanTypeOK'
    BY <1>8, <2>1 DEF LifeInv, AutoScanTypeOK, Disconnect, scans
  <2> QED BY <1>8, <2>2 DEF LifeInv, Disconnect, scans, Asked
<1>9. CASE Reconnect
  BY <1>9 DEF LifeInv, AutoScanTypeOK, Reconnect, scans, Asked
<1> QED BY <1>1, <1>2, <1>3, <1>4, <1>5, <1>6, <1>7, <1>8, <1>9 DEF AutoScanStep

LEMMA NextLife == LifeInv /\ [ServicesNext]_servicesVars => LifeInv'
PROOF
<1> SUFFICES ASSUME LifeInv, [ServicesNext]_servicesVars PROVE LifeInv'
  OBVIOUS
<1>1. CASE AutoScanUnchanged
  BY <1>1 DEF AutoScanUnchanged, autoscanVars, stream, scans, LifeInv, AutoScanTypeOK, Asked
<1> QED BY <1>1, StepCases, FinalizeLife, AutoScanStepLife
-------------------------------------------------------------------------------
(* What the steps do to the three quantities the order is about.            *)

LEMMA Numbers ==
    ASSUME LifeInv
    PROVE  /\ finalized \in Nat /\ asked \in Seq(Epochs) /\ events \in Seq(1 .. MaxEpoch)
           /\ \A k \in DOMAIN asked : k \in Nat /\ k >= 1 /\ k <= Len(asked) /\ asked[k] \in Int
           /\ \A n \in DOMAIN events : events[n] \in Int
           /\ \A a \in Asked : a \in Int
PROOF
<1>1. asked \in Seq(Epochs) /\ events \in Seq(1 .. MaxEpoch) /\ Asked \subseteq Epochs
  BY Members DEF LifeInv, AutoScanTypeOK, Asked
<1>2. Epochs \subseteq Int /\ 1 .. MaxEpoch \subseteq Int
  BY MaxEpochAssumption DEF Epochs
<1>3. \A k \in DOMAIN asked : k \in Nat /\ k >= 1 /\ k <= Len(asked)
  <2> HIDE DEF Epochs
  <2> QED BY <1>1
<1>4. finalized \in Nat
  BY DEF LifeInv, AutoScanTypeOK
<1> QED BY <1>1, <1>2, <1>3, <1>4, Members

\* An event is published.
LEMMA FinalizeFacts ==
    ASSUME LifeInv, NEW epoch \in 1 .. MaxEpoch, Finalize(epoch)
    PROVE  /\ epoch > finalized /\ finalized' = epoch /\ asked' = asked /\ Asked' = Asked
           /\ events' = IF connected THEN Append(events, epoch) ELSE events
           /\ lost' = lost \union (finalized + 1 .. IF connected THEN epoch - 1 ELSE epoch)
  BY Numbers DEF Finalize, scans, Asked

\* An event is handled.
LEMMA CheckpointFacts ==
    ASSUME LifeInv, OnFinalizedCheckpoint
    PROVE  /\ 1 \in DOMAIN events /\ events' = Tail(events)
           /\ asked # <<>> /\ asked' = Append(asked, events[1] - 3)
           /\ events[1] - 3 \in Epochs
           /\ Asked' = Asked \union {events[1] - 3}
           /\ lost' = lost
PROOF
<1>1. events \in Seq(1 .. MaxEpoch) /\ events # <<>> /\ events' = Tail(events)
  BY DEF LifeInv, AutoScanTypeOK, OnFinalizedCheckpoint
<1>2. 1 \in DOMAIN events /\ Head(events) = events[1] /\ events[1] \in 1 .. MaxEpoch
  BY <1>1, TailFacts
<1>3. events[1] - 3 \in Epochs
  BY <1>2, MaxEpochAssumption DEF Epochs
<1>4. getListOfViolations(events[1] - 3)
  BY <1>2 DEF OnFinalizedCheckpoint, finalizedEpoch
<1>5. process = "listening"
  BY <1>1 DEF LifeInv, AutoScanTypeOK
<1> QED BY <1>1, <1>2, <1>3, <1>4, <1>5, AskedOneMore
        DEF LifeInv, OnFinalizedCheckpoint, getListOfViolations

\* The epoch behind the checkpoint is scanned.
LEMMA FirstScanFacts ==
    ASSUME LifeInv, checkForViolations
    PROVE  /\ events = <<>> /\ events' = <<>> /\ asked' = <<finalized - 2>>
           /\ Asked' = Asked \union {finalized - 2} /\ lost' = lost
PROOF
<1>1. finalized - 2 \in Epochs /\ getListOfViolations(finalized - 2) /\ asked = <<>>
  BY MaxEpochAssumption DEF LifeInv, AutoScanTypeOK, Epochs, checkForViolations
<1>2. events = <<>>
  BY DEF LifeInv, AutoScanTypeOK, checkForViolations
<1>3. asked' = <<finalized - 2>>
  BY <1>1 DEF getListOfViolations
<1> QED BY <1>1, <1>2, <1>3, AskedOneMore DEF LifeInv, checkForViolations, stream

\* Events may be dropped, and are lost then; a new life starts with nothing asked for.
EventsDropped == events' = <<>> /\ asked' = asked /\ Asked' = Asked /\ lost' = lost \union Range(events)
NewLife == events' = events /\ asked' = <<>> /\ Asked' = Asked /\ lost' = lost
NothingAsked == events' = events /\ asked' = asked /\ Asked' = Asked /\ lost' = lost

LEMMA OtherSteps ==
    ASSUME AutoScanStep
    PROVE  \/ checkForViolations \/ OnFinalizedCheckpoint
           \/ EventsDropped \/ NewLife \/ NothingAsked
PROOF
<1>1. Start => NewLife
  BY DEF Start, NewLife, stream, Asked
<1>2. Exit => EventsDropped
  BY ExitAsked DEF Exit, EventsDropped
<1>3. Subscribe => NothingAsked
  BY DEF Subscribe, NothingAsked, scans, Asked
<1>4. ASSUME NEW epoch, ScanEnds(epoch) PROVE NothingAsked
  BY <1>4, ScanEndsAsked DEF ScanEnds, NothingAsked, stream
<1>5. Disconnect => EventsDropped
  BY DEF Disconnect, EventsDropped, scans, Asked
<1>6. Reconnect => NothingAsked
  BY DEF Reconnect, NothingAsked, scans, Asked
<1> QED BY <1>1, <1>2, <1>3, <1>4, <1>5, <1>6 DEF AutoScanStep, CheckpointFails, ScanThrows

LEMMA UnchangedAsked == AutoScanUnchanged => NothingAsked /\ finalized' = finalized
  BY DEF AutoScanUnchanged, autoscanVars, stream, scans, NothingAsked, Asked

-------------------------------------------------------------------------------
(* OrderInv.                                                                *)

LEMMA InitOrder == ServicesInit => OrderInv
  BY EmptyFacts DEF ServicesInit, AutoScanInit, OrderInv, EventsInOrder, AskedLag,
                    EventsAhead, AskedInOrder

LEMMA FinalizeOrder ==
    ASSUME LifeInv, OrderInv, NEW epoch \in 1 .. MaxEpoch, Finalize(epoch) PROVE OrderInv'
PROOF
<1>1. /\ epoch > finalized /\ finalized' = epoch /\ asked' = asked /\ epoch \in Int
      /\ events' = Append(events, epoch) \/ events' = events
  BY FinalizeFacts
<1>2. AskedLag' /\ AskedInOrder'
  BY <1>1, Numbers DEF OrderInv, AskedLag, AskedInOrder
<1>3. \A k \in DOMAIN asked :
        asked[k] < epoch - 3 \/ (k = 1 /\ Len(asked) = 1 /\ asked[k] = epoch - 3)
  <2> SUFFICES ASSUME NEW k \in DOMAIN asked, ~(asked[k] < epoch - 3)
               PROVE  k = 1 /\ Len(asked) = 1 /\ asked[k] = epoch - 3
    OBVIOUS
  <2>1. k = 1 /\ asked[k] = epoch - 3 /\ asked[k] = finalized - 2
    BY <1>1, Numbers DEF OrderInv, AskedLag
  <2>2. CASE 2 \in DOMAIN asked
    <3>1. asked[2] <= finalized - 3 /\ (asked[1] < asked[2] \/ asked[1] = asked[2])
      BY <2>1, <2>2 DEF OrderInv, AskedLag, AskedInOrder
    <3> QED BY <2>1, <2>2, <3>1, Numbers
  <2>3. CASE 2 \notin DOMAIN asked
    <3>1. DOMAIN asked = 1 .. Len(asked) /\ Len(asked) \in Nat
      <4> HIDE DEF Epochs
      <4> QED BY Numbers
    <3> QED BY <2>1, <2>3, <3>1
  <2> QED BY <2>2, <2>3
<1>4. CASE events' = events
  BY <1>1, <1>2, <1>4, Numbers DEF OrderInv, EventsInOrder, EventsAhead
<1>5. CASE events' = Append(events, epoch)
  <2>1. /\ \A n \in DOMAIN events' : n \in DOMAIN events \/ n = Len(events) + 1
        /\ \A n \in DOMAIN events : events'[n] = events[n] /\ n <= Len(events) /\ n \in Nat
        /\ events'[Len(events) + 1] = epoch /\ Len(events) \in Nat
    <3>1. events \in Seq(1 .. MaxEpoch)
      BY Numbers
    <3>2. DOMAIN events = 1 .. Len(events) /\ Len(events) \in Nat
      BY <3>1
    <3> QED BY <1>5, <3>1, <3>2, AppendFacts
  <2>2. \A n \in DOMAIN events' : events'[n] <= finalized'
    BY <1>1, <2>1, Numbers DEF OrderInv, EventsInOrder
  <2>3. \A m, n \in DOMAIN events' : m < n => events'[m] < events'[n]
    BY <1>1, <2>1, Numbers DEF OrderInv, EventsInOrder
  <2>4. EventsAhead'
    BY <1>1, <1>3, <2>1 DEF OrderInv, EventsAhead
  <2> QED BY <1>2, <2>2, <2>3, <2>4 DEF OrderInv, EventsInOrder
<1> QED BY <1>1, <1>4, <1>5

LEMMA CheckpointOrder ==
    ASSUME LifeInv, OrderInv, OnFinalizedCheckpoint, UNCHANGED finalized PROVE OrderInv'
PROOF
<1> DEFINE e == events[1] - 3
           last == Len(asked) + 1
<1>1. /\ 1 \in DOMAIN events /\ events' = Tail(events) /\ events # <<>>
      /\ asked # <<>> /\ asked' = Append(asked, e) /\ e \in Epochs
  BY CheckpointFacts, EmptyFacts
<1>2. /\ \A k \in DOMAIN asked' : k \in DOMAIN asked \/ k = last
      /\ \A k \in DOMAIN asked : asked'[k] = asked[k]
      /\ asked'[last] = e /\ Len(asked') = last
  BY <1>1, Numbers, AppendFacts
<1>3. last \in Nat /\ last > 1 /\ \A k \in DOMAIN asked : k < last /\ k \in Nat /\ k >= 1
  <2>1. asked \in Seq(Epochs) /\ DOMAIN asked = 1 .. Len(asked) /\ Len(asked) \in Nat
    <3> HIDE DEF Epochs
    <3> QED BY Numbers
  <2>2. Len(asked) # 0
    <3> HIDE DEF Epochs
    <3> QED BY <1>1, <2>1
  <2> QED BY <2>1, <2>2
<1>4. \A n \in DOMAIN events' :
        n + 1 \in DOMAIN events /\ n + 1 > 1 /\ n \in Int /\ events'[n] = events[n + 1]
  <2>1. events \in Seq(1 .. MaxEpoch)
    BY Numbers
  <2>2. events' \in Seq(1 .. MaxEpoch)
    BY <1>1, <2>1, TailFacts
  <2>3. \A n \in DOMAIN events' : n \in Int
    BY <2>2
  <2> QED BY <1>1, <2>1, <2>3, TailFacts
<1>5. e \in Int /\ e <= finalized - 3 /\ \A n \in DOMAIN events' : e < events'[n] - 3
  BY <1>1, <1>4, Numbers DEF OrderInv, EventsInOrder
<1>6. \A k \in DOMAIN asked :
        asked[k] < e \/ (k = 1 /\ Len(asked) = 1 /\ asked[k] = e)
  BY <1>1 DEF OrderInv, EventsAhead
<1> HIDE DEF e, last
<1>7. EventsInOrder'
  <2>1. \A n \in DOMAIN events' : events'[n] <= finalized'
    BY <1>4 DEF OrderInv, EventsInOrder
  <2>2. \A m, n \in DOMAIN events' : m < n => events'[m] < events'[n]
    BY <1>4 DEF OrderInv, EventsInOrder
  <2> QED BY <2>1, <2>2 DEF EventsInOrder
<1>8. AskedLag'
  BY <1>2, <1>3, <1>5, Numbers DEF OrderInv, AskedLag
<1>9. EventsAhead'
  <2> SUFFICES ASSUME NEW n \in DOMAIN events', NEW k \in DOMAIN asked'
               PROVE  asked'[k] < events'[n] - 3
    BY DEF EventsAhead
  <2>1. events'[n] \in Int /\ e \in Int /\ e < events'[n] - 3
    BY <1>4, <1>5, Numbers
  <2>2. CASE k \in DOMAIN asked
    <3>1. asked[k] \in Int /\ (asked[k] < e \/ asked[k] = e) /\ asked'[k] = asked[k]
      BY <1>2, <1>6, <2>2, Numbers
    <3> QED BY <2>1, <3>1
  <2>3. CASE k = last
    BY <1>2, <2>1, <2>3
  <2> QED BY <1>2, <2>2, <2>3
<1>10. AskedInOrder'
  <2> SUFFICES ASSUME NEW j \in DOMAIN asked', NEW k \in DOMAIN asked', j < k
               PROVE  asked'[j] < asked'[k] \/ (j = 1 /\ k = 2 /\ asked'[j] = asked'[k])
    BY DEF AskedInOrder
  <2>1. CASE k \in DOMAIN asked
    <3>1. j \in DOMAIN asked
      BY <1>2, <1>3, <2>1
    <3> QED BY <1>2, <2>1, <3>1 DEF OrderInv, AskedInOrder
  <2>2. CASE k = last
    <3>1. j \in DOMAIN asked
      BY <1>2, <1>3, <2>2
    <3>2. asked[j] < e \/ (j = 1 /\ Len(asked) = 1 /\ asked[j] = e)
      BY <1>6, <3>1
    <3> QED BY <1>2, <2>2, <3>1, <3>2 DEF last
  <2> QED BY <1>2, <2>1, <2>2
<1> QED BY <1>7, <1>8, <1>9, <1>10 DEF OrderInv

LEMMA NextOrder == LifeInv /\ OrderInv /\ [ServicesNext]_servicesVars => OrderInv'
PROOF
<1> SUFFICES ASSUME LifeInv, OrderInv, [ServicesNext]_servicesVars PROVE OrderInv'
  OBVIOUS
<1>1. CASE \E epoch \in 1 .. MaxEpoch : Finalize(epoch)
  BY <1>1, FinalizeOrder
<1>2. CASE checkForViolations /\ UNCHANGED finalized
  <2>1. /\ DOMAIN events' = {} /\ DOMAIN asked' = {1} /\ asked'[1] = finalized - 2
    BY <1>2, FirstScanFacts, EmptyFacts
  <2> QED BY <1>2, <2>1, Numbers DEF OrderInv, EventsInOrder, AskedLag, EventsAhead, AskedInOrder
<1>3. CASE OnFinalizedCheckpoint /\ UNCHANGED finalized
  BY <1>3, CheckpointOrder
<1>4. CASE EventsDropped /\ UNCHANGED finalized
  BY <1>4, EmptyFacts DEF EventsDropped, OrderInv, EventsInOrder, AskedLag, EventsAhead, AskedInOrder
<1>5. CASE NewLife /\ UNCHANGED finalized
  BY <1>5, EmptyFacts DEF NewLife, OrderInv, EventsInOrder, AskedLag, EventsAhead, AskedInOrder
<1>6. CASE NothingAsked /\ UNCHANGED finalized
  BY <1>6 DEF NothingAsked, OrderInv, EventsInOrder, AskedLag, EventsAhead, AskedInOrder
<1> QED BY <1>1, <1>2, <1>3, <1>4, <1>5, <1>6, StepCases, OtherSteps, UnchangedAsked
-------------------------------------------------------------------------------
(* CoverInv.                                                                *)

LEMMA InitCover == ServicesInit => CoverInv
  BY EmptyFacts DEF ServicesInit, AutoScanInit, CoverInv, AllLag, EventsAheadOfAll, Covered, Asked

LEMMA FinalizeCover ==
    ASSUME LifeInv, CoverInv, NEW epoch \in 1 .. MaxEpoch, Finalize(epoch) PROVE CoverInv'
PROOF
<1>1. /\ epoch > finalized /\ finalized' = epoch /\ Asked' = Asked /\ epoch \in Int
      /\ events' = IF connected THEN Append(events, epoch) ELSE events
      /\ lost' = lost \union (finalized + 1 .. IF connected THEN epoch - 1 ELSE epoch)
  BY FinalizeFacts
<1>2. AllLag'
  BY <1>1, Numbers DEF CoverInv, AllLag
<1>3. \A a \in Asked : a <= epoch - 3
  BY <1>1, Numbers DEF CoverInv, AllLag
<1>4. events \in Seq(1 .. MaxEpoch)
  BY Numbers
<1>5. EventsAheadOfAll'
  <2>1. CASE connected
    BY <1>1, <1>3, <1>4, <2>1, AppendFacts DEF CoverInv, EventsAheadOfAll
  <2>2. CASE ~connected
    BY <1>1, <2>2 DEF CoverInv, EventsAheadOfAll
  <2> QED BY <2>1, <2>2
<1>6. Range(events) \subseteq Range(events') /\ (connected => epoch \in Range(events'))
  <2> DEFINE S == 1 .. MaxEpoch
  <2>0. events \in Seq(S) /\ epoch \in S
    BY <1>4
  <2> HIDE DEF S
  <2>1. Range(Append(events, epoch)) = Range(events) \union {epoch}
    BY <2>0, AppendFacts
  <2> QED BY <1>1, <2>1
<1>7. Covered'
  <2> SUFFICES ASSUME NEW low \in Asked, NEW x \in low .. epoch - 3
               PROVE  x \in Asked \/ x + 3 \in lost' \/ x + 3 \in Range(events')
    BY <1>1 DEF Covered
  <2>1. low \in Int /\ x \in Int
    BY Numbers
  <2>2. CASE x <= finalized - 3
    <3>1. x \in low .. finalized - 3
      BY <2>1, <2>2, Numbers
    <3> QED BY <1>1, <1>6, <3>1 DEF CoverInv, Covered
  <2>3. CASE ~(x <= finalized - 3)
    <3>1. x + 3 \in finalized + 1 .. epoch
      BY <1>1, <2>1, <2>3, Numbers
    <3>2. x + 3 \in finalized + 1 .. epoch - 1 \/ x + 3 = epoch
      BY <1>1, <3>1, Numbers
    <3> QED BY <1>1, <1>6, <3>1, <3>2
  <2> QED BY <2>2, <2>3
<1> QED BY <1>2, <1>5, <1>7 DEF CoverInv

LEMMA CheckpointCover ==
    ASSUME LifeInv, OrderInv, CoverInv, OnFinalizedCheckpoint, UNCHANGED finalized
    PROVE  CoverInv'
PROOF
<1> DEFINE e == events[1] - 3
<1>1. /\ 1 \in DOMAIN events /\ events' = Tail(events) /\ events # <<>> /\ asked # <<>>
      /\ Asked' = Asked \union {e} /\ lost' = lost /\ e \in Int /\ e <= finalized - 3
      /\ events \in Seq(1 .. MaxEpoch)
  BY CheckpointFacts, EmptyFacts, Numbers DEF OrderInv, EventsInOrder
<1>2. \A n \in DOMAIN events' :
        n + 1 \in DOMAIN events /\ n + 1 > 1 /\ events'[n] = events[n + 1]
  BY <1>1, TailFacts
<1>3. \A y \in Range(events) : y \in Range(events') \/ y = e + 3
  BY <1>1, TailFacts, Numbers
<1>4. AllLag'
  BY <1>1, Numbers DEF CoverInv, AllLag
<1>5. EventsAheadOfAll'
  <2> SUFFICES ASSUME NEW n \in DOMAIN events', NEW a \in Asked' PROVE a <= events'[n] - 3
    BY DEF EventsAheadOfAll
  <2>1. events[1] < events[n + 1]
    BY <1>1, <1>2 DEF OrderInv, EventsInOrder
  <2> QED BY <1>1, <1>2, <2>1, Numbers DEF CoverInv, EventsAheadOfAll
<1>6. PICK first \in Asked : first <= e
  <2>1. 1 \in DOMAIN asked
    <3> HIDE DEF Epochs
    <3> QED BY <1>1, Numbers
  <2>2. asked[1] \in Asked
    BY <2>1 DEF LifeInv, Range
  <2>3. asked[1] <= e
    BY <1>1, <2>2 DEF CoverInv, EventsAheadOfAll
  <2> QED BY <2>2, <2>3
<1> HIDE DEF e
<1>7. Covered'
  <2> SUFFICES ASSUME NEW low \in Asked', NEW x \in low .. finalized - 3
               PROVE  x \in Asked' \/ x + 3 \in lost \/ x + 3 \in Range(events')
    BY <1>1 DEF Covered
  <2>1. x \in Int /\ low \in Int
    BY <1>1, Numbers
  <2>2. PICK lower \in Asked : x \in lower .. finalized - 3
    BY <1>1, <1>6, <2>1, Numbers
  <2>3. x \in Asked \/ x + 3 \in lost \/ x + 3 \in Range(events)
    BY <2>2 DEF CoverInv, Covered
  <2>4. x + 3 = e + 3 => x = e
    BY <1>1, <2>1
  <2> QED BY <1>1, <1>3, <2>3, <2>4
<1> QED BY <1>4, <1>5, <1>7 DEF CoverInv

LEMMA NextCover ==
    LifeInv /\ OrderInv /\ CoverInv /\ [ServicesNext]_servicesVars => CoverInv'
PROOF
<1> SUFFICES ASSUME LifeInv, OrderInv, CoverInv, [ServicesNext]_servicesVars PROVE CoverInv'
  OBVIOUS
<1>1. CASE \E epoch \in 1 .. MaxEpoch : Finalize(epoch)
  BY <1>1, FinalizeCover
<1>2. CASE checkForViolations /\ UNCHANGED finalized
  <2>1. /\ DOMAIN events' = {} /\ Range(events') = Range(events) /\ lost' = lost
        /\ Asked' = Asked \union {finalized - 2}
    BY <1>2, FirstScanFacts, EmptyFacts
  <2>2. AllLag' /\ EventsAheadOfAll'
    BY <1>2, <2>1, Numbers DEF CoverInv, AllLag, EventsAheadOfAll
  <2>3. Covered'
    <3>1. finalized - 2 .. finalized - 3 = {}
      BY Numbers
    <3> QED BY <1>2, <2>1, <3>1 DEF CoverInv, Covered
  <2> QED BY <2>2, <2>3 DEF CoverInv
<1>3. CASE OnFinalizedCheckpoint /\ UNCHANGED finalized
  BY <1>3, CheckpointCover
<1>4. CASE EventsDropped /\ UNCHANGED finalized
  BY <1>4, EmptyFacts DEF EventsDropped, CoverInv, AllLag, EventsAheadOfAll, Covered
<1>5. CASE (NewLife \/ NothingAsked) /\ UNCHANGED finalized
  BY <1>5 DEF NewLife, NothingAsked, CoverInv, AllLag, EventsAheadOfAll, Covered
<1> QED BY <1>1, <1>2, <1>3, <1>4, <1>5, StepCases, OtherSteps, UnchangedAsked

-------------------------------------------------------------------------------
(* The theorems.                                                            *)

LEMMA InvariantsHold == ServicesSpec => [](LifeInv /\ OrderInv /\ CoverInv)
PROOF
<1>1. ServicesInit => LifeInv /\ OrderInv /\ CoverInv
  BY InitLife, InitOrder, InitCover
<1>2. LifeInv /\ OrderInv /\ CoverInv /\ [ServicesNext]_servicesVars
        => LifeInv' /\ OrderInv' /\ CoverInv'
  BY NextLife, NextOrder, NextCover
<1> QED BY <1>1, <1>2, PTL DEF ServicesSpec

\* The stream is open only while the process listens, and every scan in progress is of
\* this life of it.
THEOREM AutoScanTypes == ServicesSpec => []AutoScanTypeOK
PROOF
<1>1. LifeInv => AutoScanTypeOK
  BY DEF LifeInv
<1> QED BY <1>1, InvariantsHold, PTL

\* Autoscan never calls epochReporter for an epoch its gate refuses.
THEOREM AcceptedOnly == ServicesSpec => []AskedEpochsAccepted
PROOF
<1>1. LifeInv /\ CoverInv => AskedEpochsAccepted
  <2> SUFFICES ASSUME LifeInv, CoverInv, NEW epoch \in inFlight PROVE Accepted(epoch)
    BY DEF AskedEpochsAccepted
  <2>1. epoch <= finalized - 2 /\ epoch \in Int /\ finalized \in Nat
    BY Numbers DEF CoverInv, AllLag, Asked
  <2> QED BY <2>1 DEF Accepted, previousFinalisedEpoch
<1> QED BY <1>1, InvariantsHold, PTL

\* Epochs are asked for in order, each once but for the first.
THEOREM InOrder == ServicesSpec => []AskedInOrder
PROOF
<1>1. OrderInv => AskedInOrder
  BY DEF OrderInv
<1> QED BY <1>1, InvariantsHold, PTL

\* Only lost events leave gaps, in any number of lives of the process.
THEOREM NoOtherGaps == ServicesSpec => []SkippedOnlyIfLost
PROOF
<1>1. LifeInv /\ CoverInv => SkippedOnlyIfLost
  <2> SUFFICES ASSUME LifeInv, CoverInv, NEW low \in Asked, NEW high \in Asked,
                      NEW epoch \in low .. high, epoch \notin Asked
               PROVE  epoch + 3 \in lost
    BY DEF SkippedOnlyIfLost
  <2>1. epoch \in Int /\ low \in Int /\ high \in Int /\ finalized \in Nat
    BY Numbers
  <2>2. epoch < high
    BY <2>1
  <2>3. epoch \in low .. finalized - 3
    BY <2>1, <2>2 DEF CoverInv, AllLag
  <2>4. CASE epoch + 3 \in Range(events)
    <3>1. PICK n \in DOMAIN events : epoch + 3 = events[n]
      BY <2>4 DEF Range
    <3>2. high <= events[n] - 3
      BY <3>1 DEF CoverInv, EventsAheadOfAll
    <3> QED BY <2>1, <2>2, <3>1, <3>2
  <2> QED BY <2>3, <2>4 DEF CoverInv, Covered
<1> QED BY <1>1, InvariantsHold, PTL

-------------------------------------------------------------------------------
(* The scanner API.                                                         *)

LEMMA NextApi == ApiTypeOK /\ [ServicesNext]_servicesVars => ApiTypeOK'
PROOF
<1> SUFFICES ASSUME ApiTypeOK, [ServicesNext]_servicesVars PROVE ApiTypeOK'
  OBVIOUS
<1> USE DEF ApiTypeOK, Waiting, Idle
<1>1. CASE UNCHANGED apiVars
  BY <1>1 DEF apiVars
<1>2. ASSUME NEW c \in Clients, NEW epoch \in ApiEpochs, Get(c, epoch) PROVE ApiTypeOK'
  BY <1>2 DEF Get
<1>3. ASSUME NEW c \in Clients, PassGate(c) PROVE ApiTypeOK'
  BY <1>3 DEF PassGate
<1>4. ASSUME NEW c \in Clients, NotFinal(c) \/ ScanReturns(c) PROVE ApiTypeOK'
  BY <1>4 DEF NotFinal, ScanReturns, Respond
<1>5. ASSUME NEW c \in Clients, ScanRejects(c) PROVE ApiTypeOK'
  BY <1>5 DEF ScanRejects
<1>6. CASE RestartApi
  BY <1>6 DEF RestartApi
<1> QED BY <1>1, <1>2, <1>3, <1>4, <1>5, <1>6
        DEF ServicesNext, servicesVars, ApiStep, Serve

\* No query without a number reaches the reporter, and nobody waits for a process
\* that has ended, for any number of clients.
THEOREM ApiTypes == ServicesSpec => []ApiTypeOK
PROOF
<1>1. ServicesInit => ApiTypeOK
  BY DEF ServicesInit, ApiInit, ApiTypeOK, Waiting, Idle
<1> QED BY <1>1, NextApi, PTL DEF ServicesSpec

\* A client that asks for an epoch autoscan has asked for is not refused.
THEOREM Agreement == ServicesSpec => RefusalsAgree
PROOF
<1>1. LifeInv /\ CoverInv /\ ApiTypeOK /\ [ServicesNext]_servicesVars =>
        \A c \in Clients :
            scan[c] # "refused" /\ scan'[c] = "refused" => epochOf[c] \notin Asked
  <2> SUFFICES ASSUME LifeInv, CoverInv, ApiTypeOK, ApiStep, NEW c \in Clients,
                      scan[c] # "refused", scan'[c] = "refused", epochOf[c] \in Asked
               PROVE  FALSE
    BY DEF ServicesNext, servicesVars, apiVars
  <2>1. Accepted(epochOf[c])
    <3>1. epochOf[c] <= finalized - 2 /\ epochOf[c] \in Int /\ finalized \in Nat
      BY Numbers DEF CoverInv, AllLag
    <3> QED BY <3>1 DEF Accepted, previousFinalisedEpoch
  <2>2. DOMAIN scan = Clients
    BY DEF ApiTypeOK
  <2>3. ~RestartApi
    BY DEF RestartApi
  <2>4. ASSUME NEW d \in Clients, NEW epoch, Get(d, epoch) PROVE FALSE
    BY <2>2, <2>4 DEF Get
  <2>5. ASSUME NEW d \in Clients, PassGate(d) PROVE FALSE
    BY <2>2, <2>5 DEF PassGate
  <2>6. ASSUME NEW d \in Clients, NotFinal(d) PROVE FALSE
    BY <2>1, <2>2, <2>6 DEF NotFinal, Respond
  <2>7. ASSUME NEW d \in Clients, ScanReturns(d) PROVE FALSE
    BY <2>2, <2>7 DEF ScanReturns, Respond
  <2>8. ASSUME NEW d \in Clients, ScanRejects(d) PROVE FALSE
    BY <2>2, <2>8 DEF ScanRejects
  <2> QED BY <2>3, <2>4, <2>5, <2>6, <2>7, <2>8 DEF ApiStep, Serve
<1> QED BY <1>1, InvariantsHold, ApiTypes, PTL DEF ServicesSpec, RefusalsAgree
===============================================================================
