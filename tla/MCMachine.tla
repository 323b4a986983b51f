------------------------------ MODULE MCMachine ------------------------------
(* Machine for TLC. *)
EXTENDS Machine

MCRequests == {[kind |-> "irq", cpu |-> 1, line |-> 17],
               [kind |-> "reset", cpu |-> 1, line |-> 0],
               [kind |-> "halt", cpu |-> 1, line |-> 0],
               [kind |-> "poweroff", cpu |-> 0, line |-> 0]}
=============================================================================
