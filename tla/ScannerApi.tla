------------------------------- MODULE ScannerApi -------------------------------
(***************************************************************************)
(* The scanner API (scanner-api/index.js): GET /scan of several clients at *)
(* a time. Each runs epochReporter, of which two steps matter here: the    *)
(* finality gate, and the end of the scan. A scan that throws rejects the  *)
(* handler and ends the process (Node 18), with the scans of the others.   *)
(***************************************************************************)
EXTENDS BeaconFinality

CONSTANTS
    Clients,
    ApiEpochs,      \* epochs they ask for, valid or not
    NotANumber

VARIABLES
    api,            \* "up" or "down"
    scan,           \* client -> how far its request is, when it has one
    epochOf         \* client -> the epoch it waits for

apiVars == <<api, scan, epochOf>>

Waiting == {"gate", "running"}

\* A client without a request: not refused, or refused as not final the last time.
Idle == {"idle", "refused"}

ApiInit ==
    /\ api = "up"
    /\ scan = [c \in Clients |-> "idle"]
    /\ epochOf = [c \in Clients |-> NotANumber]

\* Mutant of Get: the epoch of the query is not tested.
GetUntested(c, epoch) ==
    /\ api = "up" /\ scan[c] \in Idle
    /\ scan' = [scan EXCEPT ![c] = "gate"]
    /\ epochOf' = [epochOf EXCEPT ![c] = epoch]
    /\ UNCHANGED api

\* A query without a number is answered at once.
Get(c, epoch) ==
    /\ api = "up" /\ scan[c] \in Idle
    /\ epoch # NotANumber
    /\ scan' = [scan EXCEPT ![c] = "gate"]
    /\ epochOf' = [epochOf EXCEPT ![c] = epoch]
    /\ UNCHANGED api

Respond(c, result) ==
    /\ scan' = [scan EXCEPT ![c] = result]
    /\ epochOf' = [epochOf EXCEPT ![c] = NotANumber]
    /\ UNCHANGED api

PassGate(c) ==
    /\ api = "up" /\ scan[c] = "gate" /\ Accepted(epochOf[c])
    /\ scan' = [scan EXCEPT ![c] = "running"]
    /\ UNCHANGED <<api, epochOf>>

NotFinal(c) ==
    api = "up" /\ scan[c] = "gate" /\ ~Accepted(epochOf[c]) /\ Respond(c, "refused")

\* A listing and an error of the reporter are both answered with 200.
ScanReturns(c) == api = "up" /\ scan[c] = "running" /\ Respond(c, "idle")

\* Mutant of ScanRejects: the other clients are kept waiting.
ScanRejectsAlone(c) ==
    /\ api = "up" /\ scan[c] \in Waiting
    /\ api' = "down"
    /\ scan' = [scan EXCEPT ![c] = "idle"]
    /\ epochOf' = [epochOf EXCEPT ![c] = NotANumber]

ScanRejects(c) ==
    /\ api = "up" /\ scan[c] \in Waiting
    /\ api' = "down"
    /\ scan' = [d \in Clients |-> IF scan[d] \in Waiting THEN "idle" ELSE scan[d]]
    /\ epochOf' = [d \in Clients |-> NotANumber]

RestartApi == api = "down" /\ api' = "up" /\ UNCHANGED <<scan, epochOf>>

Serve(c) == PassGate(c) \/ NotFinal(c) \/ ScanReturns(c) \/ ScanRejects(c)

ApiStep ==
    \/ \E c \in Clients : Serve(c) \/ \E epoch \in ApiEpochs : Get(c, epoch)
    \/ RestartApi

-------------------------------------------------------------------------------
\* No query without a number reaches the reporter, and no client is left waiting on a
\* process that has ended.
ApiTypeOK ==
    /\ api \in {"up", "down"}
    /\ epochOf \in [Clients -> ApiEpochs \union {NotANumber}]
    /\ scan \in [Clients -> Waiting \union Idle]
    /\ \A c \in Clients : scan[c] \in Waiting => api = "up" /\ epochOf[c] # NotANumber

\* Every request is answered, or its process ends.
RequestsServed == \A c \in Clients : scan[c] \in Waiting ~> scan[c] \in Idle
===============================================================================
