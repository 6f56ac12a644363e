------------------------------ MODULE Delivery ------------------------------
(***************************************************************************)
(* What the queue consumer of supplyshield promises about a deployment     *)
(* message, with nothing said of daemons, wasps or stages: a message may   *)
(* be handed over to the vulnerability scan any number of times, and it is *)
(* settled (deleted from SQS, so never delivered again) only when it was   *)
(* handed over before, or is one the daemon drops on purpose.              *)
(* Daemon.tla is shown to implement this specification.                    *)
(***************************************************************************)
EXTENDS Naturals

CONSTANTS
    Messages,    \* the deployment messages
    Dropped      \* the messages that may be settled without a scan

VARIABLES
    handed,      \* messages whose scan has been requested at least once
    settled      \* messages that will not be delivered again

dvars == <<handed, settled>>

DInit ==
    /\ handed = {}
    /\ settled = {}

HandOver(m) ==
    /\ handed' = handed \union {m}
    /\ UNCHANGED settled

Settle(m) ==
    /\ m \in handed \union Dropped
    /\ settled' = settled \union {m}
    /\ UNCHANGED handed

\* The legacy image scan is requested, finished and acknowledged in one step.
ScanAndSettle(m) ==
    /\ handed' = handed \union {m}
    /\ settled' = settled \union {m}

DNext ==
    \E m \in Messages : HandOver(m) \/ Settle(m) \/ ScanAndSettle(m)

DSpec == DInit /\ [][DNext]_dvars
=============================================================================
