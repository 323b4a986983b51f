----------------------------- MODULE TerminalDevice -----------------------------
(***************************************************************************)
(* A terminal (uriscv/device.cc, TerminalDevice) and the interrupt         *)
(* controller it raises its requests with.                                 *)
(*                                                                         *)
(* A terminal is two devices, a receiver and a transmitter, that share one *)
(* interrupt source and one completion handler.  The handler is not told   *)
(* whose operation is over: it compares completion times.  A request is    *)
(* acknowledged only when the other half is not waiting for attention.     *)
(*                                                                         *)
(* Times are relative to the clock, as in EventQueue; the queued events of *)
(* the terminal, all alike, are counted per time.                          *)
(***************************************************************************)
EXTENDS Integers, Sequences

CONSTANTS
    NCpus, Routes,        \* see InterruptController
    TERMRESETTIME,        \* how long the operations take
    RECVCHRTIME,
    TRANCHRTIME,
    Characters,           \* of the keyboard
    InputLines,           \* what a user may type before pressing return
    MaxTyped,             \* bound: characters typed
    Faults,               \* whether the device may be set to not working
    RerouteAtAnyTime      \* else only while no request is unacknowledged

ASSUME TimesAssumption ==
    /\ TERMRESETTIME \in Nat \ {0}
    /\ RECVCHRTIME \in Nat \ {0}
    /\ TRANCHRTIME \in Nat \ {0}

Line == 5                       \* IL_TERMINAL - kBaseIL
Dev  == 0
Me   == <<Line, Dev>>           \* the interrupt source
Newline == "newline"

ASSUME InputAssumption ==
    /\ InputLines \subseteq Seq(Characters)
    /\ Newline \in Characters

Halves == {"recv", "tran"}
Other(x) == IF x = "recv" THEN "tran" ELSE "recv"
Operations == {"RESET", "CHR"}
Commands == Operations \cup {"ACK", "unknown"}
Times == {TERMRESETTIME, RECVCHRTIME, TRANCHRTIME}
LastTime == CHOOSE t \in Times : \A u \in Times : u <= t

Duration(x, command) ==
    IF command = "RESET" THEN TERMRESETTIME
    ELSE IF x = "recv" THEN RECVCHRTIME ELSE TRANCHRTIME

VARIABLES
    half,         \* status, command, IntPend and CTime of each half
    events,       \* how many queued CompleteDevOp calls are t cycles away
    isWorking,
    recvBuf,      \* what was typed, the null pointer being empty
    recvBp,       \* how much of it was received
    typed,        \* history: all that was ever typed
    received,     \* history: all that the receiver ever delivered
    route, lastTarget, arbiter, ipMask, idb, mip    \* of the controller

deviceVars == <<half, events>>
inputVars  == <<recvBuf, recvBp, typed, received>>
picVars    == <<route, lastTarget, arbiter, ipMask, idb, mip>>
vars       == <<deviceVars, inputVars, isWorking, picVars>>

PIC == INSTANCE InterruptController WITH
           Lines <- {Line}, Devs <- {Dev}, Priorities <- {}, Msgs <- {},
           Words <- {}, MaxInFlight <- 0, Reraise <- TRUE,
           inbox <- <<>>, outbox <- <<>>, taskPriority <- [c \in 0..(NCpus - 1) |-> 15],
           biosReserved <- <<>>

Busy(x) == half[x].status = "BUSY"
Pending(x) == half[x].intPend
Unread == SubSeq(recvBuf, recvBp + 1, Len(recvBuf))

TypeOK ==
    /\ half \in [Halves -> [status : {"READY", "BUSY", "ILOPERR", "DONE", "ERROR"},
                            command : Commands,
                            intPend : BOOLEAN,
                            left : 0..LastTime]]
    /\ events \in [0..LastTime -> Nat]
    /\ isWorking \in BOOLEAN
    /\ recvBuf \in Seq(Characters) /\ recvBp \in 0..Len(recvBuf)
    /\ typed \in Seq(Characters) /\ received \in Seq(Characters)

\* The command registers start at zero, which is the code of RESET.
Init ==
    /\ half = [x \in Halves |-> [status |-> "READY", command |-> "RESET",
                                 intPend |-> FALSE, left |-> 0]]
    /\ events = [t \in 0..LastTime |-> 0]
    /\ isWorking = TRUE
    /\ recvBuf = <<>> /\ recvBp = 0
    /\ typed = <<>> /\ received = <<>>
    /\ route = [s \in PIC!Sources |-> PIC!DefaultRoute]
    /\ lastTarget = [s \in PIC!Sources |-> PIC!NoCpu]
    /\ arbiter = 0
    /\ ipMask = [c \in PIC!Cpus |-> {}]
    /\ idb = [c \in PIC!Cpus |-> [l \in {Line} |-> {}]]
    /\ mip = [c \in PIC!Cpus |-> {}]

-----------------------------------------------------------------------------
(* Interrupt requests *)

IntReq == PIC!StartIRQ(Me)

IntAck ==
    IF lastTarget[Me] = PIC!NoCpu
    THEN UNCHANGED picVars            \* spurious, the controller ignores it
    ELSE PIC!EndIRQ(Me)

(* A half takes the request back only if the other one does not need it.
   Plausible bugs: it always does; it looks at the status of the other. *)
AlwaysShared(x) == TRUE
MayAcknowledge(x) == ~Pending(Other(x))

AckUnlessShared(x) ==
    IF MayAcknowledge(x) THEN IntAck ELSE UNCHANGED picVars

-----------------------------------------------------------------------------
(* Commands *)

(* A plausible bug: a busy half takes commands. *)
AlwaysReady(x) == TRUE
Accepts(x) == ~Busy(x)

Enqueued(t) == [events EXCEPT ![t] = @ + 1]

Start(x, command) ==
    /\ Accepts(x)
    /\ AckUnlessShared(x)
    /\ half' = [half EXCEPT ![x] = [status |-> "BUSY", command |-> command,
                                    intPend |-> FALSE, left |-> Duration(x, command)]]
    /\ events' = Enqueued(Duration(x, command))
    /\ UNCHANGED <<inputVars, isWorking>>

Acknowledge(x) ==
    /\ Accepts(x)
    /\ AckUnlessShared(x)
    /\ half' = [half EXCEPT ![x] = [@ EXCEPT !.status = "READY", !.command = "ACK",
                                             !.intPend = FALSE]]
    /\ UNCHANGED <<events, inputVars, isWorking>>

Refuse(x) ==
    /\ Accepts(x)
    /\ IntReq
    /\ half' = [half EXCEPT ![x] = [@ EXCEPT !.status = "ILOPERR", !.command = "unknown",
                                             !.intPend = TRUE]]
    /\ UNCHANGED <<events, inputVars, isWorking>>

-----------------------------------------------------------------------------
(* Completion *)

(* Whose operation the handler completes.  A plausible bug: no comparison. *)
ReceiverFirst == IF Busy("recv") THEN "recv" ELSE "tran"
Completing ==
    IF Busy("recv") /\ Busy("tran")
    THEN IF half["recv"].left <= half["tran"].left THEN "recv" ELSE "tran"
    ELSE IF Busy("recv") THEN "recv" ELSE "tran"

Dequeued == [events EXCEPT ![0] = @ - 1]

NothingToReceive(x) == x = "recv" /\ half[x].command = "CHR" /\ Unread = <<>>

(* An idle receiver looks again later.  A plausible bug: it does not. *)
NoPoll(evs) == evs
Polling(evs) == [evs EXCEPT ![RECVCHRTIME] = @ + 1]

Poll ==
    /\ events[0] > 0
    /\ NothingToReceive(Completing)
    /\ events' = Polling(Dequeued)
    /\ half' = [half EXCEPT !["recv"].left = RECVCHRTIME]
    /\ UNCHANGED <<inputVars, isWorking, picVars>>

Outcome(x) ==
    IF half[x].command = "RESET" THEN "READY"
    ELSE IF isWorking THEN "DONE" ELSE "ERROR"

Complete ==
    /\ events[0] > 0
    /\ LET x == Completing IN
        /\ half[x].command \in Operations       \* else Panic
        /\ ~NothingToReceive(x)
        /\ IntReq
        /\ half' = [half EXCEPT ![x] = [@ EXCEPT !.status = Outcome(x),
                                                 !.intPend = TRUE, !.left = 0]]
        /\ IF x = "recv" /\ Outcome(x) = "DONE"
           THEN /\ recvBp' = recvBp + 1
                /\ received' = Append(received, recvBuf[recvBp + 1])
           ELSE UNCHANGED <<recvBp, received>>
    /\ events' = Dequeued
    /\ UNCHANGED <<recvBuf, typed, isWorking>>

CompleteDevOp == Poll \/ Complete

(* ClockTick lets time pass once every event that is due has run.  A time
   that has been reached stays reached. *)
Elapse ==
    /\ events[0] = 0
    /\ events' = [t \in 0..LastTime |-> IF t < LastTime THEN events[t + 1] ELSE 0]
    /\ half' = [x \in Halves |->
                  [half[x] EXCEPT !.left = IF Busy(x) /\ @ > 0 THEN @ - 1 ELSE @]]
    /\ UNCHANGED <<inputVars, isWorking, picVars>>

-----------------------------------------------------------------------------
(* The user and the guest *)

(* What follows the part that was received.  A plausible bug: the new buffer
   is read from where the old one was left. *)
OldOffset == recvBp
NewOffset == 0

Input(line) ==
    /\ Len(typed) + Len(line) < MaxTyped
    /\ recvBuf' = Unread \o Append(line, Newline)
    /\ recvBp' = NewOffset
    /\ typed' = typed \o Append(line, Newline)
    /\ UNCHANGED <<received, isWorking, deviceVars, picVars>>

SetCondition(working) ==
    /\ Faults
    /\ isWorking' = working
    /\ UNCHANGED <<deviceVars, inputVars, picVars>>

Reroute(r) ==
    /\ RerouteAtAnyTime \/ \A x \in Halves : ~Pending(x)
    /\ PIC!WriteIRT(Me, r)
    /\ UNCHANGED <<deviceVars, inputVars, isWorking>>

Next ==
    \/ \E x \in Halves, command \in Operations : Start(x, command)
    \/ \E x \in Halves : Acknowledge(x)
    \/ \E x \in Halves : Refuse(x)
    \/ CompleteDevOp
    \/ Elapse
    \/ \E line \in InputLines : Input(line)
    \/ \E working \in BOOLEAN : SetCondition(working)
    \/ \E r \in Routes : Reroute(r)

Spec == Init /\ [][Next]_vars

(* The clock ticks while the machine runs, and a tick runs what is due. *)
FairSpec == Spec /\ WF_vars(Elapse) /\ WF_vars(CompleteDevOp)

-----------------------------------------------------------------------------
(* Properties *)

DueAt(x, t) == IF Busy(x) /\ half[x].left = t THEN 1 ELSE 0

(* Every operation in progress has exactly one event in the queue, at its
   own completion time: the handler, which guesses from times alone, never
   completes the wrong half, nor a half too early or too late. *)
OneEventPerOperation ==
    \A t \in 0..LastTime : events[t] = DueAt("recv", t) + DueAt("tran", t)

(* The handler never meets a command it does not know (its calls of Panic). *)
NeverPanics ==
    events[0] > 0 => Busy(Completing) /\ half[Completing].command \in Operations

(* What the handler assumes: it is called for one operation, at its time, with
   a command it knows. *)
HandlerInv == TypeOK /\ OneEventPerOperation /\ NeverPanics

(* The source is waiting for an acknowledgement exactly while a half is: no
   half takes back the request of the other, no request is forgotten. *)
RequestFollowsPending ==
    (\E x \in Halves : Pending(x)) <=> lastTarget[Me] # PIC!NoCpu

(* Once the driver has answered both halves, no core sees the terminal
   interrupting any more. *)
QuietWhenAcknowledged ==
    (\A x \in Halves : ~Pending(x)) => \A c \in PIC!Cpus : Dev \notin idb[c][Line]

(* What the two halves want and what their one source asks for agree. *)
SharedSourceInv == RequestFollowsPending /\ QuietWhenAcknowledged

(* The receiver delivers what was typed, in order and without loss, also
   when lines are typed in the middle of a reception (Input). *)
ReceivesWhatWasTyped == received \o Unread = typed

(* Each half keeps the promises of a device of its own. *)
Receiver == INSTANCE DeviceOperation WITH
                busy <- Busy("recv"), request <- Pending("recv")
Transmitter == INSTANCE DeviceOperation WITH
                busy <- Busy("tran"), request <- Pending("tran")
ImplementsDevices == Receiver!Spec /\ Transmitter!Spec

(* Neither half starves the other in their handler: a transmission ends
   whatever the receiver polls for, and a receiver that was told to receive
   gets what the user types. *)
NeitherStarves ==
    /\ Busy("tran") ~> ~Busy("tran")
    /\ (Busy("recv") /\ Unread # <<>>) ~> ~Busy("recv")
=============================================================================
