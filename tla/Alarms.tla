--------------------------------- MODULE Alarms ---------------------------------
(***************************************************************************)
(* What the event queue promises to the devices: every alarm that is set   *)
(* rings exactly once, at its time and never after a later one, and time   *)
(* does not pass while an alarm is due.  Times count down to the alarm.    *)
(***************************************************************************)
EXTENDS Integers

CONSTANTS Events,      \* what can be scheduled
          Delays       \* how long ahead

VARIABLES pending,     \* the alarms set and not yet rung
          scanning     \* the alarms of the current tick are being rung

vars == <<pending, scanning>>

Init == pending = {} /\ scanning = FALSE

Fresh(e) == \A a \in pending : a.event # e

(* A core starts a device operation, sends a message, asks for a reset. *)
Schedule(e, d) ==
    /\ ~scanning
    /\ Fresh(e)
    /\ pending' = pending \cup {[event |-> e, left |-> d]}
    /\ UNCHANGED scanning

(* One more cycle: all alarms come closer. *)
Elapse ==
    /\ ~scanning
    /\ pending' = {[a EXCEPT !.left = @ - 1] : a \in pending}
    /\ scanning' = TRUE

(* The earliest alarm rings, and its handler may set another one. *)
Ring(a, more) ==
    /\ scanning
    /\ a.left <= 0
    /\ \A b \in pending : a.left <= b.left
    /\ pending' = (pending \ {a}) \cup more
    /\ UNCHANGED scanning

Rescheduled(a) ==
    {{}} \cup {{[event |-> e, left |-> d]} : e \in {f \in Events : Fresh(f)}, d \in Delays}

(* Nothing is due any more: the cores run. *)
Proceed ==
    /\ scanning
    /\ \A a \in pending : a.left > 0
    /\ scanning' = FALSE
    /\ UNCHANGED pending

Next ==
    \/ \E e \in Events, d \in Delays : Schedule(e, d)
    \/ Elapse
    \/ \E a \in pending : \E more \in Rescheduled(a) : Ring(a, more)
    \/ Proceed

Spec == Init /\ [][Next]_vars
=============================================================================
