------------------------------ MODULE ScanServices ------------------------------
(***************************************************************************)
(* The two processes that call epochReporter, autoscan and the scanner     *)
(* API, next to one beacon node. They share nothing else.                  *)
(***************************************************************************)
EXTENDS AutoScan, ScannerApi

servicesVars == <<finalized, autoscanVars, apiVars>>

ServicesInit == finalized = 0 /\ AutoScanInit /\ ApiInit

ServicesNext ==
    \/ (\E epoch \in 1 .. MaxEpoch : Finalize(epoch)) /\ UNCHANGED apiVars
    \/ AutoScanStep /\ UNCHANGED <<finalized, apiVars>>
    \/ ApiStep /\ UNCHANGED <<finalized, autoscanVars>>

\* An event that arrived is dispatched, and every scan ends. Nothing makes the beacon
\* node advance, a client ask, or somebody start a process again.
ServicesSpec ==
    /\ ServicesInit /\ [][ServicesNext]_servicesVars
    /\ WF_servicesVars(OnFinalizedCheckpoint /\ UNCHANGED <<finalized, apiVars>>)
    /\ \A epoch \in Epochs :
        WF_servicesVars((ScanEnds(epoch) \/ ScanThrows(epoch)) /\ UNCHANGED <<finalized, apiVars>>)
    /\ \A c \in Clients : WF_servicesVars(Serve(c) /\ UNCHANGED <<finalized, autoscanVars>>)

-------------------------------------------------------------------------------
\* An epoch autoscan has asked for since it was started is final for the API too: a
\* client that asks for it then is not refused.
RefusalsAgree ==
    [][\A c \in Clients :
        scan[c] # "refused" /\ scan'[c] = "refused" => epochOf[c] \notin Asked]_servicesVars
===============================================================================
