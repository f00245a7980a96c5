-------------------------------- MODULE AutoScan --------------------------------
(***************************************************************************)
(* The autoscan process (scanner-api/autoscan.js). At start-up it scans    *)
(* the epoch two behind the finalized one, then it subscribes to finality  *)
(* events and starts a scan for each, without waiting for the one before.  *)
(* An event is published once, to whoever is connected then; an exception  *)
(* anywhere, in a scan too, ends the process. Nothing is persisted.        *)
(***************************************************************************)
EXTENDS BeaconFinality

VARIABLES
    process,        \* "down", "starting" (reads the checkpoint), "first" (scans) or "listening"
    connected,      \* is the event stream open?
    events,         \* finality events on their way to the process
    asked,          \* the epochs it called epochReporter for since it was started
    inFlight,       \* those of them whose scan has not ended
    scanned,        \* epochs whose scan has ended, in any life of the process
    aborted,        \* epochs whose scan was cut off by the end of the process
    lost            \* epochs whose finality event never reached the process

stream == <<connected, events, lost>>
scans == <<asked, inFlight, scanned, aborted>>
autoscanVars == <<process, stream, scans>>

AutoScanInit ==
    /\ process = "down" /\ connected = FALSE /\ events = <<>> /\ lost = {}
    /\ asked = <<>> /\ inFlight = {} /\ scanned = {} /\ aborted = {}

\* Finality advances, now and then by more than one epoch, with one event for the last.
Finalize(epoch) ==
    /\ epoch \in finalized + 1 .. finalized + 2 /\ epoch <= MaxEpoch
    /\ finalized' = epoch
    /\ IF connected
       THEN /\ events' = Append(events, epoch)
            /\ lost' = lost \union (finalized + 1 .. epoch - 1)
       ELSE /\ lost' = lost \union (finalized + 1 .. epoch)
            /\ UNCHANGED events
    /\ UNCHANGED <<process, connected, scans>>

-------------------------------------------------------------------------------
\* Mutant of Exit: the stream is left open.
ExitStreaming ==
    /\ process' = "down" /\ events' = <<>>
    /\ lost' = lost \union Range(events)
    /\ aborted' = aborted \union inFlight
    /\ inFlight' = {}
    /\ UNCHANGED <<connected, asked, scanned>>

Exit ==
    /\ process' = "down" /\ connected' = FALSE /\ events' = <<>>
    /\ lost' = lost \union Range(events)
    /\ aborted' = aborted \union inFlight
    /\ inFlight' = {}
    /\ UNCHANGED <<asked, scanned>>

getListOfViolations(epoch) ==
    /\ asked' = Append(asked, epoch)
    /\ inFlight' = inFlight \union {epoch}
    /\ UNCHANGED <<scanned, aborted>>

Start ==
    /\ process = "down" /\ process' = "starting"
    /\ asked' = <<>>
    /\ UNCHANGED <<stream, inFlight, scanned, aborted>>

\* Mutant of checkForViolations: the first epoch is one behind the finalized one.
CheckOneBehind ==
    /\ process = "starting" /\ process' = "first"
    /\ getListOfViolations(finalized - 1)
    /\ UNCHANGED stream

checkForViolations ==
    /\ process = "starting" /\ process' = "first"
    /\ getListOfViolations(finalized - 2)
    /\ UNCHANGED stream

CheckpointFails == process = "starting" /\ Exit

Subscribe ==
    /\ process = "first" /\ inFlight = {}
    /\ process' = "listening" /\ connected' = TRUE
    /\ UNCHANGED <<events, lost, scans>>

\* Mutants of finalizedEpoch: other offsets from the epoch of the event.
OneBehind(epoch) == epoch - 1
TwoBehind(epoch) == epoch - 2

finalizedEpoch(epoch) == epoch - 3

\* Mutant of OnFinalizedCheckpoint: events that come while a scan runs are dropped.
OnCheckpointWhenFree ==
    /\ events # <<>>
    /\ events' = Tail(events)
    /\ IF inFlight = {} THEN getListOfViolations(finalizedEpoch(Head(events))) ELSE UNCHANGED scans
    /\ UNCHANGED <<process, connected, lost>>

OnFinalizedCheckpoint ==
    /\ events # <<>>
    /\ events' = Tail(events)
    /\ getListOfViolations(finalizedEpoch(Head(events)))
    /\ UNCHANGED <<process, connected, lost>>

ScanEnds(epoch) ==
    /\ epoch \in inFlight
    /\ inFlight' = inFlight \ {epoch}
    /\ scanned' = scanned \union {epoch}
    /\ UNCHANGED <<process, stream, asked, aborted>>

ScanThrows(epoch) == epoch \in inFlight /\ Exit

\* The connection drops with what is on its way; EventSource opens it again.
Disconnect ==
    /\ connected /\ connected' = FALSE /\ events' = <<>>
    /\ lost' = lost \union Range(events)
    /\ UNCHANGED <<process, scans>>

Reconnect ==
    /\ process = "listening" /\ ~connected /\ connected' = TRUE
    /\ UNCHANGED <<process, events, lost, scans>>

AutoScanStep ==
    \/ Start \/ checkForViolations \/ CheckpointFails \/ Subscribe \/ OnFinalizedCheckpoint
    \/ \E epoch \in inFlight : ScanEnds(epoch) \/ ScanThrows(epoch)
    \/ Disconnect \/ Reconnect

-------------------------------------------------------------------------------
Epochs == -3 .. MaxEpoch

AutoScanTypeOK ==
    /\ finalized \in 0 .. MaxEpoch
    /\ process \in {"down", "starting", "first", "listening"}
    /\ connected \in BOOLEAN /\ connected => process = "listening"
    /\ events \in Seq(1 .. MaxEpoch) /\ (events # <<>> => connected)
    /\ lost \subseteq 1 .. MaxEpoch
    /\ asked \in Seq(Epochs)
    /\ inFlight \subseteq Range(asked)
    /\ scanned \subseteq Epochs /\ aborted \subseteq Epochs

\* The offsets agree with the reporter's gate: autoscan never asks for an epoch that
\* epochReporter refuses as not final, however late an event arrives.
AskedEpochsAccepted == \A epoch \in inFlight : Accepted(epoch)

\* Each epoch is asked for once in a life of the process and in order, however events
\* are delayed or lost. Only the epoch scanned at start-up may come a second time, with
\* the first event.
AskedInOrder ==
    \A j, k \in DOMAIN asked :
        j < k => asked[j] < asked[k] \/ (j = 1 /\ k = 2 /\ asked[j] = asked[k])

Asked == scanned \union inFlight \union aborted

\* No epoch between two that were asked for is skipped, within a life of the process or
\* between two, unless its event was lost: an event that falls between the first scan
\* and the subscription costs nothing, because start-up and events use different
\* offsets, and after a restart only epochs whose event found no process are missing.
SkippedOnlyIfLost ==
    \A low, high \in Asked :
        \A epoch \in low .. high : epoch \in Asked \/ epoch + 3 \in lost

\* An event on its way leads to a scan that ends, unless the connection or the process
\* is lost.
EventsScanned ==
    \A epoch \in 1 .. MaxEpoch :
        epoch \in Range(events) ~> (epoch - 3 \in scanned \/ ~connected)
===============================================================================
