------------------------------- MODULE EthDevice -------------------------------
(***************************************************************************)
(* An Ethernet interface (uriscv/device.cc, EthDevice; vde_network.cc,     *)
(* netinterface).                                                          *)
(*                                                                         *)
(* A guest that asks for interrupts is told of packets by a bit of the     *)
(* status register, READPENDING, which a periodic poll of the network      *)
(* sets.  The poll and the end of an operation are events with the same    *)
(* handler, which is not told which of the two it was called for.          *)
(*                                                                         *)
(* An event that is queued runs at any later step.  Packets are counted:   *)
(* on the wire are those the interface will accept.                        *)
(***************************************************************************)
EXTENDS Integers

CONSTANTS
    MAXNETQUEUE,     \* packets the interface keeps
    MaxWire,         \* bound: packets on the wire
    Faults           \* whether the device may be set to not working

(* What the theorems ask of the constants. *)
NetAssumption ==
    MAXNETQUEUE \in Nat \ {0} /\ MaxWire \in Nat /\ Faults \in BOOLEAN

(* Status codes.  FDMAERR is a code of the flash device. *)
READY    == 1
ILOPERR  == 2
BUSY     == 3
DREADERR == 5
DWRITERR == 6
DDMAERR  == 7
FDMAERR  == 6

Operations == {"RESET", "READCONF", "CONFIGURE", "READNET", "WRITENET"}
Commands   == Operations \cup {"ACK", "unknown"}

(* What matters of a word in DATA0: whether memory can be accessed there,
   when it is taken for an address, and whether it asks for interrupts, when
   it is taken for a mode; and of one in DATA1, a length. *)
Data0   == [valid : BOOLEAN, interrupt : BOOLEAN]
Lengths == {"zero", "packet", "too long"}

VARIABLES
    status,        \* the status register without the READPENDING bit
    readPending,   \* that bit
    command, data0, data1,
    polling,       \* a poll is scheduled
    interrupts,    \* the INTERRUPT bit of the mode
    events,        \* how many calls of CompleteDevOp are queued
    queue,         \* packets the interface has received
    wire,          \* packets that wait for it
    request,       \* the interrupt request of the device is pending
    isWorking

netVars == <<interrupts, queue, wire>>
vars == <<status, readPending, command, data0, data1, polling, events, netVars,
          request, isWorking>>

Busy == status = BUSY

RegistersOK ==
    /\ status \in {READY, ILOPERR, BUSY, DREADERR, DWRITERR, DDMAERR}
    /\ command \in Commands
    /\ data0 \in Data0 /\ data1 \in Lengths

FlagsOK ==
    /\ readPending \in BOOLEAN /\ polling \in BOOLEAN /\ interrupts \in BOOLEAN
    /\ request \in BOOLEAN /\ isWorking \in BOOLEAN

CountsOK == events \in Nat /\ queue \in 0..MAXNETQUEUE /\ wire \in 0..MaxWire

TypeOK == RegistersOK /\ FlagsOK /\ CountsOK

Init ==
    /\ status = READY /\ readPending = FALSE
    /\ command = "RESET"
    /\ data0 = [valid |-> FALSE, interrupt |-> FALSE] /\ data1 = "zero"
    /\ polling = FALSE /\ interrupts = FALSE
    /\ events = 0
    /\ queue = 0 /\ wire = 0
    /\ request = FALSE
    /\ isWorking = TRUE

-----------------------------------------------------------------------------
(* Commands.  READPENDING outlives all of them. *)

(* A plausible bug: commands are taken during an operation. *)
AlwaysAccepts == TRUE
Accepts == ~Busy

(* A plausible bug: the end of an operation is not scheduled. *)
NotScheduled(n) == n
Scheduled(n) == n + 1

(* The packet to send is copied at once.  An empty one can be copied from an
   aligned address outside of memory, but not from every invalid one. *)
CopyWorks(c) == c = "WRITENET" => data1 = "zero" \/ (data0.valid /\ data1 = "packet")
CopyFails(c) == c = "WRITENET" /\ (~data0.valid \/ data1 = "too long")

Begin(c) ==
    /\ Accepts
    /\ CopyWorks(c)
    /\ status' = BUSY
    /\ command' = c
    /\ request' = FALSE
    /\ events' = Scheduled(events)
    /\ UNCHANGED <<readPending, data0, data1, polling, netVars, isWorking>>

Acknowledge ==
    /\ Accepts
    /\ status' = READY
    /\ command' = "ACK"
    /\ request' = FALSE
    /\ UNCHANGED <<readPending, data0, data1, polling, events, netVars, isWorking>>

Refuse ==
    /\ Accepts
    /\ \/ command' = "WRITENET" /\ CopyFails("WRITENET") /\ status' = DDMAERR
       \/ command' = "unknown" /\ status' = ILOPERR
    /\ request' = TRUE
    /\ UNCHANGED <<readPending, data0, data1, polling, events, netVars, isWorking>>

WriteData0(d) ==
    /\ Accepts
    /\ data0' = d
    /\ UNCHANGED <<status, readPending, command, data1, polling, events, netVars,
                   request, isWorking>>

WriteData1(d) ==
    /\ Accepts
    /\ data1' = d
    /\ UNCHANGED <<status, readPending, command, data0, polling, events, netVars,
                   request, isWorking>>

-----------------------------------------------------------------------------
(* The interface *)

(* What fits of n packets. *)
Kept(n) == IF n <= MAXNETQUEUE THEN n ELSE MAXNETQUEUE

(* netinterface::polling takes everything from the wire. *)
Receive == queue' = Kept(queue + wire) /\ wire' = 0

(* netinterface::readdata, which looks at the wire only if it has nothing,
   and a call of polling. *)
Take ==
    /\ queue' = IF queue > 0 THEN Kept(queue - 1 + wire)
                ELSE IF wire > 0 THEN Kept(wire) - 1 ELSE 0
    /\ wire' = 0

-----------------------------------------------------------------------------
(* The handler *)

(* Plausible bugs: an operation schedules a poll next to another one, or
   leaves polling to the polls. *)
PollsAgain(wanted, waiting) == wanted /\ ~waiting

(* Whether a poll is scheduled at the end of an operation. *)
StartsPoll(wanted, waiting) == wanted /\ ~polling /\ ~waiting

Poll ==
    /\ events > 0 /\ polling /\ ~Busy
    /\ IF readPending
       THEN UNCHANGED <<queue, wire, readPending, request>> /\ polling' = FALSE
       ELSE /\ Receive
            /\ readPending' = (queue' > 0)
            /\ request' = (request \/ queue' > 0)
            /\ polling' = (interrupts /\ queue' = 0)
    /\ events' = IF polling' THEN events ELSE events - 1
    /\ UNCHANGED <<status, command, data0, data1, interrupts, isWorking>>

(* The end of an operation: "waiting" is rp, which keeps another poll from
   being scheduled and is combined with the status s. *)
Finish(s, waiting) ==
    /\ status' = s
    /\ request' = TRUE
    /\ polling' = (polling \/ StartsPoll(interrupts', waiting))
    /\ events' = IF StartsPoll(interrupts', waiting) THEN events ELSE events - 1
    /\ UNCHANGED <<command, isWorking>>

Ends == events > 0 /\ ~(polling /\ ~Busy)

(* Of the commands that are no operations the handler has no case, and
   leaves the status. *)
EndReset ==
    /\ Ends /\ command \in {"RESET", "ACK", "unknown"}
    /\ UNCHANGED <<readPending, data0, data1, netVars>>
    /\ Finish(IF command = "RESET" THEN READY ELSE status, readPending)

EndReadConf ==
    /\ Ends /\ command = "READCONF"
    /\ \E valid \in BOOLEAN :
         data0' = [valid |-> valid, interrupt |-> interrupts]
    /\ data1' \in Lengths                 \* half of the MAC address
    /\ UNCHANGED <<readPending, netVars>>
    /\ Finish(READY, readPending)

EndConfigure ==
    /\ Ends /\ command = "CONFIGURE"
    /\ interrupts' = data0.interrupt
    /\ UNCHANGED <<readPending, data0, data1, queue, wire>>
    /\ Finish(READY, readPending)

(* The 1 that netinterface::polling returns for packets that wait is or-ed
   to the status; it is not READPENDING. *)
WithWaiting(s) == IF s % 2 = 0 THEN s + 1 ELSE s

(* What a read leaves of READPENDING. *)
LeavePending == FALSE

(* A packet whose copy to memory fails is lost. *)
EndRead ==
    /\ Ends /\ command = "READNET"
    /\ IF isWorking
       THEN LET any == queue > 0 \/ wire > 0
                s   == IF any /\ ~data0.valid THEN FDMAERR ELSE READY
            IN  /\ Take
                /\ data1' = IF any THEN "packet" ELSE "zero"
                /\ readPending' = LeavePending
                /\ UNCHANGED <<data0, interrupts>>
                /\ Finish(IF queue' > 0 THEN WithWaiting(s) ELSE s, queue' > 0)
       ELSE UNCHANGED <<readPending, data0, data1, netVars>>
            /\ Finish(DREADERR, readPending)

(* The network may be unable to take a packet. *)
EndWrite ==
    /\ Ends /\ command = "WRITENET"
    /\ UNCHANGED <<readPending, data0, data1, netVars>>
    /\ \/ isWorking /\ Finish(READY, readPending)
       \/ Finish(DWRITERR, readPending)

CompleteDevOp ==
    Poll \/ EndReset \/ EndReadConf \/ EndConfigure \/ EndRead \/ EndWrite

-----------------------------------------------------------------------------
(* The network and the user *)

Arrive ==
    /\ wire < MaxWire
    /\ wire' = wire + 1
    /\ UNCHANGED <<status, readPending, command, data0, data1, polling, events,
                   interrupts, queue, request, isWorking>>

SetCondition(working) ==
    /\ Faults
    /\ isWorking' = working
    /\ UNCHANGED <<status, readPending, command, data0, data1, polling, events,
                   netVars, request>>

Next ==
    \/ \E c \in Operations : Begin(c)
    \/ Acknowledge
    \/ Refuse
    \/ \E d \in Data0 : WriteData0(d)
    \/ \E d \in Lengths : WriteData1(d)
    \/ CompleteDevOp
    \/ Arrive
    \/ \E working \in BOOLEAN : SetCondition(working)

Spec == Init /\ [][Next]_vars

(* The clock ticks, and a tick runs what is due. *)
FairSpec == Spec /\ WF_vars(CompleteDevOp)

-----------------------------------------------------------------------------
(* Properties *)

One(p) == IF p THEN 1 ELSE 0

(* There is one event for the poll that is scheduled and one for the
   operation in progress, although the handler may take either for the
   other: it is never called for nothing, and never ends an operation twice
   (CompleteDevOp). *)
OneEventEach == events = One(polling) + One(Busy)

(* A guest that is told of a packet finds one. *)
PendingIsThere == readPending => queue > 0

(* While a guest that wants interrupts has nothing to read, a poll is
   scheduled: packets are noticed whatever operations ended in between. *)
PollsWhenEmpty == interrupts /\ ~Busy /\ queue = 0 => polling

(* What the handler assumes of its events, and what it promises a guest. *)
PollingInv == TypeOK /\ OneEventEach /\ PendingIsThere /\ PollsWhenEmpty

(* Packets that wait are announced, or will be by the next poll: "If user
   wants interrupts, we are not already polling, and there are no pending
   read requests, schedule another poll event" (CompleteDevOp). *)
WaitingIsAnnounced == interrupts /\ ~Busy => polling \/ readPending

(* The device keeps the promises every device makes to its driver. *)
Driver == INSTANCE DeviceOperation WITH busy <- Busy, request <- request
ImplementsDeviceOperation == Driver!Spec

(* An operation ends, whatever is polled in between. *)
OperationEnds == Busy ~> ~Busy
=============================================================================
