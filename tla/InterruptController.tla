-------------------------- MODULE InterruptController --------------------------
(***************************************************************************)
(* The multiprocessor interrupt controller (uriscv/mpic.cc, mpic.h).       *)
(*                                                                         *)
(* Devices and the interval timer raise (StartIRQ) and acknowledge         *)
(* (EndIRQ) interrupt requests; a routing table written by the guest       *)
(* decides which core a request is delivered to.  Cores exchange short     *)
(* inter-processor messages through an outbox register and an inbox queue. *)
(* The controller drives one pending bit per interrupt line and core, the  *)
(* MIP register of the core.                                               *)
(*                                                                         *)
(* Time is left out: an inter-processor message in flight is delivered at  *)
(* any later step, in the order of its sender.                             *)
(***************************************************************************)
EXTENDS Integers, Sequences

CONSTANTS
    NCpus,        \* number of cores of the machine
    Lines,        \* shared interrupt lines with devices, as il - kBaseIL
    Devs,         \* device numbers on each of those lines
    Routes,       \* the entries the guest writes to the routing table
    Priorities,   \* the values the guest writes to its task priority register
    Msgs,         \* the contents of inter-processor messages
    Words,        \* the values the firmware keeps in its two reserved words
    MaxInFlight,  \* bound: messages of one core that are in flight
    Reraise       \* whether a source raises again before it was acknowledged

kBaseIL  == 16
IL_TIMER == 3
IL_IPI   == 16
MAX_CPUS == 16
CPUCTL_TPR_PRIORITY_MASK == 15

(* A routing table entry: one core, or the bit mask of a set of cores. *)
RouteEntry == [policy : {"FIXED", "DYNAMIC"}, dest : 0..65535]

ASSUME ConstantsAssumption ==
    /\ NCpus \in 1..MAX_CPUS
    /\ Lines \subseteq 1..5
    /\ Devs \subseteq 0..7
    /\ Routes \subseteq RouteEntry
    /\ Priorities \subseteq 0..CPUCTL_TPR_PRIORITY_MASK
    /\ MaxInFlight \in Nat
    /\ Reraise \in BOOLEAN

Cpus    == 0..(NCpus - 1)
NoCpu   == -1                      \* kInvalidCpuId
Timer   == <<0, 0>>                \* the source of the interval timer
Shared  == Lines \X Devs           \* the sources that are devices
Sources == {Timer} \cup Shared
Garbage == "uninitialized"         \* what a word nobody wrote may hold

VARIABLES
    route,         \* the routing table
    lastTarget,    \* the core the last request of a source was delivered to
    arbiter,       \* where the scan for a dynamic destination starts
    ipMask,        \* the controller's own copy of the pending lines
    idb,           \* interrupting devices, per core and shared line
    inbox,         \* inter-processor messages a core has not acknowledged
    taskPriority,  \* task priority registers
    biosReserved,  \* the firmware's two words per core
    outbox,        \* messages written but not delivered, per sending core
    mip            \* pending lines as each core sees them (its MIP register)

sourceVars == <<route, lastTarget, arbiter>>
cpuVars    == <<ipMask, idb, mip>>
ipiVars    == <<inbox, outbox>>
guestVars  == <<taskPriority, biosReserved>>
vars       == <<sourceVars, cpuVars, ipiVars, guestVars>>

IpiMessage == [origin : Cpus, msg : Msgs]
Outgoing   == [recipients : SUBSET Cpus, msg : Msgs]
DefaultRoute == [policy |-> "FIXED", dest |-> 0]

TypeOK ==
    /\ route \in [Sources -> Routes \cup {DefaultRoute}]
    /\ lastTarget \in [Sources -> Cpus \cup {NoCpu}]
    /\ arbiter \in Cpus
    /\ ipMask \in [Cpus -> SUBSET Nat]
    /\ idb \in [Cpus -> [Lines -> SUBSET Devs]]
    /\ inbox \in [Cpus -> Seq(IpiMessage)]
    /\ taskPriority \in [Cpus -> 0..CPUCTL_TPR_PRIORITY_MASK]
    /\ biosReserved \in [Cpus -> [{0, 1} -> Words \cup {Garbage}]]
    /\ outbox \in [Cpus -> Seq(Outgoing)]
    /\ mip \in [Cpus -> SUBSET Nat]

Init ==
    /\ route = [s \in Sources |-> DefaultRoute]
    /\ lastTarget = [s \in Sources |-> NoCpu]
    /\ arbiter = 0
    /\ ipMask = [c \in Cpus |-> {}]
    /\ idb = [c \in Cpus |-> [l \in Lines |-> {}]]
    /\ inbox = [c \in Cpus |-> <<>>]
    /\ taskPriority = [c \in Cpus |-> CPUCTL_TPR_PRIORITY_MASK]
    /\ biosReserved = [c \in Cpus |-> [i \in {0, 1} |-> Garbage]]
    /\ outbox = [c \in Cpus |-> <<>>]
    /\ mip = [c \in Cpus |-> {}]

-----------------------------------------------------------------------------
(* Routing *)

(* The cores whose bit is set in the destination of a dynamic entry. *)
Eligible(s) == {c \in Cpus : (route[s].dest \div 2^c) % 2 = 1}

(* The position of core c in a scan that starts at the arbiter. *)
ScanRank(c) == (c + NCpus - arbiter) % NCpus

(* Core c wins the scan against core d: it has a greater priority value,
   or the same one and was looked at first. *)
Beats(c, d) ==
    \/ taskPriority[c] > taskPriority[d]
    \/ taskPriority[c] = taskPriority[d] /\ ScanRank(c) <= ScanRank(d)

(* The core a request of s is delivered to, NoCpu when there is none. *)
Routed(s, target) ==
    IF route[s].policy = "FIXED"
    THEN target = IF route[s].dest < NCpus THEN route[s].dest ELSE NoCpu
    ELSE IF target = NoCpu
         THEN Eligible(s) = {}
         ELSE target \in Eligible(s) /\ \A d \in Eligible(s) : Beats(target, d)

(* Where the next scan starts.  A plausible bug: at the winner again. *)
StuckArbiter(target) == target
NextArbiter(target) == (target + 1) % NCpus

(* The line a source drives, and its bit in the controller's mask.  The two
   differ for the timer: StartIRQ sets the mask bit kBaseIL + 0. *)
IrqLine(s) == IF s = Timer THEN IL_TIMER ELSE kBaseIL + s[1]
MaskBit(s) == kBaseIL + s[1]

-----------------------------------------------------------------------------
(* Requests and acknowledgements of the devices and of the timer *)

(* The request of s becomes pending at core c, and the line goes high. *)
Deliver(s, c) ==
    /\ lastTarget' = [lastTarget EXCEPT ![s] = c]
    /\ ipMask' = [ipMask EXCEPT ![c] = @ \cup {MaskBit(s)}]
    /\ mip' = [mip EXCEPT ![c] = @ \cup {IrqLine(s)}]
    /\ idb' = IF s \in Shared
              THEN [idb EXCEPT ![c][s[1]] = @ \cup {s[2]}]
              ELSE idb

(* A line goes low at core c. *)
LineDown(c, irq) ==
    /\ ipMask' = [ipMask EXCEPT ![c] = @ \ {irq}]
    /\ mip' = [mip EXCEPT ![c] = @ \ {irq}]

(* A request that finds no core is lost. *)
StartIRQ(s) ==
    \E target \in Cpus \cup {NoCpu} :
        /\ Reraise \/ lastTarget[s] = NoCpu
        /\ Routed(s, target)
        /\ arbiter' = IF route[s].policy = "DYNAMIC" /\ target # NoCpu
                      THEN NextArbiter(target)
                      ELSE arbiter
        /\ IF target = NoCpu
           THEN UNCHANGED <<lastTarget, cpuVars>>
           ELSE Deliver(s, target)
        /\ UNCHANGED <<route, ipiVars, guestVars>>

(* The core an acknowledgement of s goes to.  A plausible bug: look the
   core up in the routing table of now, not of then. *)
RoutedNow(s) == IF route[s].dest < NCpus THEN route[s].dest ELSE NoCpu
AckTarget(s) == lastTarget[s]

(* What is remembered of the target after it. *)
ForgetTarget(s) == NoCpu

(* The line of s goes low at core c once no device of that line is left in
   the bitmap of c. *)
LineQuiet(c, s) == s = Timer \/ idb[c][s[1]] \ {s[2]} = {}

EndIRQ(s) ==
    LET c == AckTarget(s) IN
        /\ c # NoCpu               \* else a spurious acknowledgement
        /\ lastTarget' = [lastTarget EXCEPT ![s] = ForgetTarget(s)]
        /\ idb' = IF s \in Shared
                  THEN [idb EXCEPT ![c][s[1]] = @ \ {s[2]}]
                  ELSE idb
        /\ IF LineQuiet(c, s)
           THEN LineDown(c, IrqLine(s))
           ELSE UNCHANGED <<ipMask, mip>>
        /\ UNCHANGED <<route, arbiter, ipiVars, guestVars>>

-----------------------------------------------------------------------------
(* Register writes of core c *)

WriteIRT(s, r) ==
    /\ route' = [route EXCEPT ![s] = r]
    /\ UNCHANGED <<lastTarget, arbiter, cpuVars, ipiVars, guestVars>>

WriteTaskPriority(c, p) ==
    /\ taskPriority' = [taskPriority EXCEPT ![c] = p]
    /\ UNCHANGED <<biosReserved, sourceVars, cpuVars, ipiVars>>

WriteBiosReserved(c, i, w) ==
    /\ biosReserved' = [biosReserved EXCEPT ![c][i] = w]
    /\ UNCHANGED <<taskPriority, sourceVars, cpuVars, ipiVars>>

(* The write schedules a delivery some cycles later. *)
WriteOutbox(c, recipients, m) ==
    /\ Len(outbox[c]) < MaxInFlight
    /\ outbox' = [outbox EXCEPT
                    ![c] = Append(@, [recipients |-> recipients, msg |-> m])]
    /\ UNCHANGED <<inbox, sourceVars, cpuVars, guestVars>>

(* A write to the inbox register acknowledges the message at its front.  The
   line goes low with the last message; a plausible bug: with every one. *)
AnyMessageIsLast(c) == TRUE
LastMessage(c) == Len(inbox[c]) = 1

WriteInbox(c) ==
    /\ inbox[c] # <<>>
    /\ inbox' = [inbox EXCEPT ![c] = Tail(@)]
    /\ IF LastMessage(c)
       THEN LineDown(c, IL_IPI)
       ELSE UNCHANGED <<ipMask, mip>>
    /\ UNCHANGED <<idb, outbox, sourceVars, guestVars>>

-----------------------------------------------------------------------------
(* Delivery of an inter-processor message *)

HasSlot(c, sender) ==
    \A i \in 1..Len(inbox[c]) : inbox[c][i].origin # sender

(* A plausible bug: the newest message comes first. *)
PushFront(c, m) == <<m>> \o inbox[c]
PushBack(c, m) == Append(inbox[c], m)

DeliverIPI(sender) ==
    /\ outbox[sender] # <<>>
    /\ LET out == Head(outbox[sender])
           takers == {c \in out.recipients : HasSlot(c, sender)}
           raised(c) == IF c \in takers THEN {IL_IPI} ELSE {}
       IN  /\ inbox' = [c \in Cpus |->
                 IF c \in takers
                 THEN PushBack(c, [origin |-> sender, msg |-> out.msg])
                 ELSE inbox[c]]
           /\ ipMask' = [c \in Cpus |-> ipMask[c] \cup raised(c)]
           /\ mip' = [c \in Cpus |-> mip[c] \cup raised(c)]
    /\ outbox' = [outbox EXCEPT ![sender] = Tail(@)]
    /\ UNCHANGED <<idb, sourceVars, guestVars>>

-----------------------------------------------------------------------------

OtherThanRequests ==
    \/ \E s \in Sources : EndIRQ(s)
    \/ \E s \in Sources, r \in Routes : WriteIRT(s, r)
    \/ \E c \in Cpus, p \in Priorities : WriteTaskPriority(c, p)
    \/ \E c \in Cpus, i \in {0, 1}, w \in Words : WriteBiosReserved(c, i, w)
    \/ \E c \in Cpus, rs \in SUBSET Cpus, m \in Msgs : WriteOutbox(c, rs, m)
    \/ \E c \in Cpus : WriteInbox(c)
    \/ \E c \in Cpus : DeliverIPI(c)

Next ==
    \/ \E s \in Sources : StartIRQ(s)
    \/ OtherThanRequests

Spec == Init /\ [][Next]_vars

-----------------------------------------------------------------------------
(* Properties *)

(* A shared line is pending at a core exactly when the core's bitmap names a
   device of that line: the handler that follows the line always finds the
   device, and no device waits behind a line that is low (StartIRQ, EndIRQ). *)
LinesMatchBitmaps ==
    \A c \in Cpus, l \in Lines :
        /\ kBaseIL + l \in mip[c] <=> idb[c][l] # {}
        /\ kBaseIL + l \in ipMask[c] <=> idb[c][l] # {}

(* The core an acknowledgement will go to is one where the request is still
   pending, so that acknowledging always takes a request back (EndIRQ). *)
AckFindsRequest ==
    /\ \A s \in Shared : lastTarget[s] # NoCpu => s[2] \in idb[lastTarget[s]][s[1]]
    /\ lastTarget[Timer] # NoCpu => IL_TIMER \in mip[lastTarget[Timer]]

(* The inter-processor line of a core is high exactly while its inbox holds
   a message, whatever deliveries and acknowledgements interleave. *)
IpiLineMatchesInbox ==
    \A c \in Cpus : IL_IPI \in mip[c] <=> inbox[c] # <<>>

(* The lines of a core, the controller's bitmaps and inboxes, and what is
   remembered of each source never contradict each other. *)
LinesInv == LinesMatchBitmaps /\ AckFindsRequest /\ IpiLineMatchesInbox

(* Every core where a request is pending is the one its acknowledgement goes
   to: no request is left behind at a core that nothing will clear.  mpic.h
   gives lastTarget this purpose. *)
NoRequestLeftBehind ==
    /\ \A c \in Cpus, s \in Shared : s[2] \in idb[c][s[1]] => lastTarget[s] = c
    /\ \A c \in Cpus : IL_TIMER \in mip[c] => lastTarget[Timer] = c

(* Reading the inbox and acknowledging what was read are two accesses: the
   front of an inbox changes only by the acknowledgement of that core. *)
FrontIsStable ==
    [][\A c \in Cpus :
         inbox[c] # <<>> /\ ~(inbox'[c] # <<>> /\ Head(inbox'[c]) = Head(inbox[c]))
            => WriteInbox(c)]_vars
=============================================================================
