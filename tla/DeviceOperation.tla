---------------------------- MODULE DeviceOperation ----------------------------
(***************************************************************************)
(* What a driver may rely on when it talks to a device: a command that is  *)
(* accepted takes the previous request for attention back, the device is   *)
(* busy and ignores further commands until it completes the operation, and *)
(* every completion and every refused command ends in a new request.       *)
(***************************************************************************)

VARIABLES busy,      \* an operation is in progress
          request    \* the driver owes an acknowledgement

vars == <<busy, request>>

Init == ~busy /\ ~request

Accept == ~busy /\ busy' /\ ~request'
Acknowledge == ~busy /\ ~busy' /\ ~request'
Refuse == ~busy /\ ~busy' /\ request'
Complete == busy /\ ~busy' /\ request'

Next == Accept \/ Acknowledge \/ Refuse \/ Complete

Spec == Init /\ [][Next]_vars
=============================================================================
