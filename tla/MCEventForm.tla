------------------------------ MODULE MCEventForm ------------------------------
(* Small instances of EventForm for TLC.                                    *)
EXTENDS EventForm, TLC

CONSTANTS a, b

OldEvent == [f \in Fields |-> a]
=============================================================================
