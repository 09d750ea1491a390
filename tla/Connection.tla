------------------------------ MODULE Connection ------------------------------
(***************************************************************************)
(* What a Protocol promises the application about its connection and the   *)
(* version spoken on it (the comments at protocol.go:232-239, 288-294 and  *)
(* 308, commands.go:61-62).  A call begins and ends; what it exchanges     *)
(* with QTM in between is not seen.                                        *)
(*                                                                         *)
(* Connect ends with a version that QTM accepted, or closed.  A SetVersion *)
(* that QTM answered leaves client and QTM with the same version, whether  *)
(* the answer was yes or no; one that was left unanswered does not, since  *)
(* QTM may still obey.                                                     *)
(***************************************************************************)
CONSTANTS
    Version,    \* the versions of the protocol
    NoVersion   \* what Version returns without connection

VARIABLES
    accepts,    \* the versions QTM accepts
    phase,      \* closed, open, or which of the two calls is under way
    version,    \* what Version returns
    spoken,     \* the version QTM speaks
    unsure,     \* a SetVersion on this connection was not answered
    failed      \* did the last call return an error?

vars == <<accepts, phase, version, spoken, unsure, failed>>

Init ==
    /\ accepts \subseteq Version
    /\ phase = "closed"
    /\ version = NoVersion
    /\ spoken = NoVersion
    /\ unsure = FALSE
    /\ failed = FALSE

Forget == version' = NoVersion /\ spoken' = NoVersion /\ unsure' = FALSE

(* An open connection is dropped first.                                    *)
Connect ==
    /\ phase \in {"closed", "open"}
    /\ phase' = "connecting"
    /\ Forget
    /\ UNCHANGED <<accepts, failed>>

Connected ==
    /\ phase = "connecting"
    /\ phase' = "open"
    /\ version' \in accepts
    /\ spoken' = version'
    /\ failed' = FALSE
    /\ UNCHANGED <<accepts, unsure>>

(* Also when a Connect that begins cannot even dial.                       *)
ConnectFails ==
    /\ phase # "changing"
    /\ phase' = "closed"
    /\ Forget
    /\ failed' = TRUE
    /\ UNCHANGED accepts

Disconnect ==
    /\ phase = "open"
    /\ phase' = "closed"
    /\ Forget
    /\ UNCHANGED <<accepts, failed>>

SetVersion ==
    /\ phase = "open"
    /\ phase' = "changing"
    /\ UNCHANGED <<accepts, version, spoken, unsure, failed>>

(* QTM changes its version when it is asked to, and at no other time.      *)
QTMObeys ==
    /\ phase = "changing" \/ (phase = "open" /\ unsure)
    /\ spoken' \in accepts
    /\ UNCHANGED <<accepts, phase, version, unsure, failed>>

Answered ==
    /\ phase = "changing"
    /\ phase' = "open"
    /\ UNCHANGED <<accepts, spoken, unsure>>

VersionSet ==
    /\ Answered
    /\ version' \in Version
    /\ ~unsure => version' = spoken /\ spoken \in accepts
    /\ failed' = FALSE

VersionRefused ==
    /\ Answered
    /\ ~unsure => version = spoken
    /\ failed' = TRUE
    /\ UNCHANGED version

VersionUnanswered ==
    /\ phase = "changing"
    /\ phase' = "open"
    /\ unsure' = TRUE
    /\ failed' = TRUE
    /\ UNCHANGED <<accepts, version, spoken>>

(* A call that cannot even send its command.                               *)
CannotSend ==
    /\ phase \in {"closed", "open"}
    /\ failed' = TRUE
    /\ UNCHANGED <<accepts, phase, version, spoken, unsure>>

GetState ==
    /\ phase = "open"
    /\ failed' \in BOOLEAN
    /\ UNCHANGED <<accepts, phase, version, spoken, unsure>>

Next ==
    \/ Connect \/ Connected \/ ConnectFails \/ Disconnect
    \/ SetVersion \/ QTMObeys \/ VersionSet \/ VersionRefused \/ VersionUnanswered
    \/ CannotSend \/ GetState

Spec == Init /\ [][Next]_vars
=============================================================================
