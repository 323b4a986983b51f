------------------------------- MODULE EventQueue -------------------------------
(***************************************************************************)
(* The queue of device events (uriscv/event.cc) and the part of the clock  *)
(* tick of the bus that runs them (uriscv/systembus.cc, ClockTick).        *)
(*                                                                         *)
(* The queue is a linked list sorted by deadline.  A pointer to the event  *)
(* inserted last shortens the search for the place of the next one.        *)
(*                                                                         *)
(* Deadlines are kept relative to the clock: "left" is deadline - tod,     *)
(* which is all the code compares, so the clock itself is not a variable.  *)
(***************************************************************************)
EXTENDS Integers, SequencesExt

CONSTANTS
    Events,     \* the events that can be in the queue at the same time
    Delays,     \* the delays of device operations, messages, resets
    NULL        \* the null pointer

(* Every delay the code uses is a positive constant times the clock rate;
   handlers that schedule themselves again rely on that. *)
ASSUME DelaysAssumption == Delays \subseteq Nat \ {0}
ASSUME NullAssumption == NULL \notin Events

VARIABLES
    queue,      \* the list from head to tail
    lastIns,    \* the event inserted last, or the head
    firing,     \* the event whose handler has run and that is still queued
    scanning    \* whether ClockTick is running the events that are due

queueVars == <<queue, lastIns, firing, scanning>>

(* No deadline is ever missed: a tick runs everything that is due. *)
Entry == [event : Events, left : Nat]

QueueTypeOK ==
    /\ queue \in Seq(Entry)
    /\ lastIns \in Events \cup {NULL}
    /\ firing \in Events \cup {NULL}
    /\ scanning \in BOOLEAN

QueueInit ==
    /\ queue = <<>>
    /\ lastIns = NULL
    /\ firing = NULL
    /\ scanning = FALSE

Queued(e) == \E i \in 1..Len(queue) : queue[i].event = e
Due == queue # <<>> /\ queue[1].left <= 0

-----------------------------------------------------------------------------
(* Insertion *)

PositionOf(e) == CHOOSE i \in 1..Len(queue) : queue[i].event = e

(* Where the search for a deadline d starts: at the event inserted last if d
   is later than that one, at the head otherwise. *)
SearchStart(d) ==
    IF lastIns # NULL /\ d > queue[PositionOf(lastIns)].left
    THEN PositionOf(lastIns)
    ELSE 1

(* The walk stops at the first event with a later deadline. *)
Place(i, d) ==
    IF queue = <<>> \/ d <= queue[1].left
    THEN i = 1
    ELSE /\ i >= SearchStart(d)
         /\ \A j \in SearchStart(d)..(i - 1) : queue[j].left <= d
         /\ i <= Len(queue) => queue[i].left > d

(* A plausible bug: a new head is not linked to the old one. *)
Unlinked(i, entry) == IF i = 1 THEN <<entry>> ELSE InsertAt(queue, i, entry)
Linked(i, entry) == InsertAt(queue, i, entry)

(* The deadline of a new event.  A plausible bug: the delay is forgotten. *)
NoDelay(d) == 0
Deadline(d) == d

InsertQ(e, d) ==
    \E i \in 1..(Len(queue) + 1) :
        /\ Place(i, Deadline(d))
        /\ queue' = Linked(i, [event |-> e, left |-> Deadline(d)])
        /\ lastIns' = e

-----------------------------------------------------------------------------
(* Removal *)

(* The pointer to the last insertion does not survive the event it points
   to.  A plausible bug: it does. *)
KeepPointer(rest) == lastIns
PointerAfterRemoval(rest) ==
    IF queue[1].event # lastIns THEN lastIns
    ELSE IF rest = <<>> THEN NULL ELSE rest[1].event

RemoveHead ==
    /\ firing # NULL
    /\ queue' = Tail(queue)
    /\ lastIns' = PointerAfterRemoval(Tail(queue))
    /\ firing' = NULL
    /\ UNCHANGED scanning

-----------------------------------------------------------------------------
(* The clock *)

(* scheduleEvent, called while the cores execute. *)
Schedule(e, d) ==
    /\ ~scanning
    /\ ~Queued(e)
    /\ InsertQ(e, d)
    /\ UNCHANGED <<firing, scanning>>

(* The clock advances, and ClockTick looks at the queue. *)
Advance ==
    /\ ~scanning
    /\ queue' = [i \in 1..Len(queue) |-> [queue[i] EXCEPT !.left = @ - 1]]
    /\ scanning' = TRUE
    /\ UNCHANGED <<lastIns, firing>>

(* The handler of the head runs, and may schedule one more event; the head
   is removed only after that. *)
RunCallback ==
    /\ scanning /\ firing = NULL
    /\ Due
    /\ firing' = queue[1].event
    /\ \/ UNCHANGED <<queue, lastIns>>
       \/ \E e \in Events, d \in Delays : ~Queued(e) /\ InsertQ(e, d)
    /\ UNCHANGED scanning

EndTick ==
    /\ scanning /\ firing = NULL
    /\ ~Due
    /\ scanning' = FALSE
    /\ UNCHANGED <<queue, lastIns, firing>>

(* The tick: the clock advances and what is due runs. *)
Tick == Advance \/ RunCallback \/ RemoveHead \/ EndTick

QueueNext == (\E e \in Events, d \in Delays : Schedule(e, d)) \/ Tick

(* The main loop of the machine ticks for as long as it runs, and ClockTick
   is one call: its own steps are never starved.  Nothing is assumed of the
   cores. *)
QueueFairness == WF_queueVars(Tick)

QueueSpec == QueueInit /\ [][QueueNext]_queueVars
QueueFairSpec == QueueSpec /\ QueueFairness

-----------------------------------------------------------------------------
(* Properties *)

(* The list is sorted on deadlines whatever the search starts from, which is
   why looking at the head is enough for ClockTick and for the length of an
   idle period (event.h). *)
Sorted ==
    \A i, j \in 1..Len(queue) : i <= j => queue[i].left <= queue[j].left

(* The pointer to the last insertion points into the queue, so that InsertQ
   never reads a deleted event (RemoveHead). *)
PointerIsLive ==
    IF queue = <<>> THEN lastIns = NULL ELSE Queued(lastIns)

(* The event that ClockTick removes is the one whose handler it has run,
   though the handler itself inserts into the queue. *)
RemovesWhatItRan ==
    firing # NULL => queue # <<>> /\ queue[1].event = firing

(* The list is as InsertQ, RemoveHead and ClockTick rely on it to be; in
   particular no event in it is overdue. *)
QueueInv == QueueTypeOK /\ Sorted /\ PointerIsLive /\ RemovesWhatItRan

(* No event is twice in the queue. *)
NoDuplicates ==
    \A i, j \in 1..Len(queue) : queue[i].event = queue[j].event => i = j

(* The queue implements the alarms: an event counts as rung once its handler
   has run, although it is still in the list. *)
PendingAlarms == {queue[i] : i \in {j \in 1..Len(queue) : queue[j].event # firing}}
A == INSTANCE Alarms WITH pending <- PendingAlarms, scanning <- scanning
ImplementsAlarms == A!Spec

(* Every event that was scheduled is run: none is lost in the list, however
   many are inserted around it. *)
EveryEventRuns ==
    \A e \in Events : (Queued(e) /\ firing # e) ~> (firing = e)

(* A tick ends: handlers that schedule themselves again do not keep ClockTick
   busy for ever. *)
TicksEnd == scanning ~> ~scanning

(* The clock never stands still before or in the handler of an event. *)
ClockGoesOn == EveryEventRuns /\ TicksEnd
=============================================================================
