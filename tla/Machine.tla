------------------------------- MODULE Machine -------------------------------
(***************************************************************************)
(* The machine's clock and the debugger that drives it (uriscv/machine.cc, *)
(* systembus.cc, processor.cc, mp_controller.cc and                        *)
(* frontends/qriscv/debug_session.cc).                                     *)
(*                                                                         *)
(* A cycle is a tick of the bus - the interval timer goes down and the     *)
(* events that are due run - followed by one cycle of every core.  A core  *)
(* that waits for an interrupt executes nothing, and when all of them wait *)
(* the debugger stops simulating cycle by cycle: it asks for how long      *)
(* nothing can happen and skips that many cycles, some at a time, from     *)
(* another timer of its event loop.  Everything runs in one thread, but    *)
(* the user acts between two iterations.                                   *)
(*                                                                         *)
(* What an instruction computes is left out; it may write the timers, the  *)
(* interrupt registers and the machine control registers, wait, or hit a   *)
(* stop point.  The order of the queue is module EventQueue's subject.     *)
(***************************************************************************)
EXTENDS Integers, SequencesExt

CONSTANTS
    NCpus,        \* number of cores
    W,            \* number of values of a timer register (2^32 in the code)
    IterCycles,   \* cycles of one iteration of the debugger
    kMaxSkipped,  \* the most cycles it skips at a time
    TimerCpu,     \* the core the interval timer's interrupt is routed to
    Requests,     \* the events the guest has scheduled: what they will do
    Delays,       \* ... and after how many cycles
    MaxQueue,     \* bound: events in the queue
    TimerValues,  \* the values written to the timers
    MipValues,    \* the values the guest writes to a core's own MIP
    LiveEdits     \* whether the user edits registers of a running machine

IL_TIMER    == 3
IL_CPUTIMER == 7
Cpus        == 0..(NCpus - 1)

Event == [kind : {"irq", "reset", "halt", "poweroff"}, cpu : Cpus, line : Nat]

ASSUME MachineAssumption ==
    /\ NCpus \in Nat \ {0}
    /\ W \in Nat \ {0}
    /\ IterCycles \in Nat \ {0} /\ kMaxSkipped \in Nat \ {0}
    /\ TimerCpu \in Cpus
    /\ Requests \subseteq Event
    /\ Delays \subseteq Nat
    /\ MaxQueue \in Nat
    /\ TimerValues \subseteq 0..(W - 1)
    /\ LiveEdits \in BOOLEAN
    /\ MipValues \subseteq SUBSET Nat

Lines == {IL_TIMER, IL_CPUTIMER} \cup (UNION MipValues)
            \cup {r.line : r \in {q \in Requests : q.kind = "irq"}}

VARIABLES
    machine,         \* interval timer, event queue, cores, power
    status,          \* of the session: "off", "stopped" or "running"
    timerOn,         \* the event loop will run an iteration
    idleOn,          \* the event loop will skip cycles
    idleSteps,       \* the cycles left to skip
    stepping,        \* the user asked for a single cycle
    inStep,          \* Machine::step is executing
    turn,            \* ... and this core is next, NCpus between two cycles
    steps,           \* ... and has so many cycles left
    stopRequested,   \* ... but must stop, at a stop point
    pauseRequested   \* ... or return early, as a core went to sleep

loopVars == <<inStep, turn, steps, stopRequested, pauseRequested>>
sessionVars == <<status, timerOn, idleOn, idleSteps, stepping>>
vars == <<machine, sessionVars, loopVars>>

Core == [status : {"RUNNING", "IDLE", "HALTED"},
         mtie   : BOOLEAN,       \* its timer runs: the MTIE bit of MIE
         time   : 0..(W - 1),
         mip    : SUBSET Lines,  \* the pending interrupts
         atWfi  : BOOLEAN]       \* stalled in a WFI it will execute again

Entry == [event : Requests, left : Nat]

MachineState == [timer  : 0..(W - 1),
                 queue  : Seq(Entry),
                 halted : BOOLEAN,
                 cpu    : [Cpus -> Core]]

TypeOK ==
    /\ machine \in MachineState
    /\ status \in {"off", "stopped", "running"}
    /\ timerOn \in BOOLEAN /\ idleOn \in BOOLEAN
    /\ idleSteps \in 0..(W - 1)
    /\ stepping \in BOOLEAN
    /\ inStep \in BOOLEAN
    /\ turn \in 0..NCpus
    /\ steps \in 0..IterCycles
    /\ stopRequested \in BOOLEAN /\ pauseRequested \in BOOLEAN

Absent == [status |-> "HALTED", mtie |-> FALSE, time |-> 0, mip |-> {},
           atWfi |-> FALSE]
Fresh  == [Absent EXCEPT !.status = "RUNNING"]

(* A new machine: only the first core runs. *)
PoweredOn == [timer  |-> W - 1,
              queue  |-> <<>>,
              halted |-> FALSE,
              cpu    |-> [c \in Cpus |-> IF c = 0 THEN Fresh ELSE Absent]]

Init ==
    /\ machine = PoweredOn
    /\ status = "off"
    /\ timerOn = FALSE /\ idleOn = FALSE
    /\ idleSteps = 0
    /\ stepping = FALSE
    /\ inStep = FALSE
    /\ turn = NCpus
    /\ steps = 0
    /\ stopRequested = FALSE /\ pauseRequested = FALSE

-----------------------------------------------------------------------------
(* What happens to a machine m *)

(* A line that goes high wakes a core that waits.  A plausible bug: it
   starts one that is halted as well. *)
AnyWoken(s) == "RUNNING"
Woken(s) == IF s = "IDLE" THEN "RUNNING" ELSE s

AssertIRQ(m, c, il) == [m EXCEPT !.cpu[c].mip = @ \cup {il},
                                 !.cpu[c].status = Woken(@)]
DeassertIRQ(m, c, il) == [m EXCEPT !.cpu[c].mip = @ \ {il}]

RunEvent(m, e) ==
    CASE e.kind = "irq"      -> AssertIRQ(m, e.cpu, e.line)
      [] e.kind = "reset"    -> [m EXCEPT !.cpu[e.cpu] = Fresh]
      [] e.kind = "halt"     -> [m EXCEPT !.cpu[e.cpu].status = "HALTED"]
      [] e.kind = "poweroff" -> [m EXCEPT !.halted = TRUE]

(* Where an event with this delay is put: behind those with the same
   deadline, but before the head. *)
Place(q, i, delay) ==
    IF q = <<>> \/ delay <= q[1].left
    THEN i = 1
    ELSE /\ \A j \in 1..(i - 1) : q[j].left <= delay
         /\ i <= Len(q) => q[i].left > delay

Schedule(m, e, delay, i) ==
    [m EXCEPT !.queue = InsertAt(@, i, [event |-> e, left |-> delay])]

(* A step of a timer of finite width. *)
Decremented(t) == (t - 1) % W

(* The events that a tick takes from the head of the queue: up to the first
   that is not due. *)
DueEvents(q) ==
    CHOOSE n \in 0..Len(q) :
        /\ \A i \in 1..n : q[i].left <= 1
        /\ n < Len(q) => q[n + 1].left > 1

(* The queue after the first n have been removed and the clock has ticked. *)
Advanced(q, n) ==
    [i \in 1..(Len(q) - n) |-> [q[i + n] EXCEPT !.left = @ - 1]]

(* The timer register, and its interrupt. *)
Timed(m) ==
    LET ticked == [m EXCEPT !.timer = Decremented(@)]
    IN IF m.timer = 0 THEN AssertIRQ(ticked, TimerCpu, IL_TIMER) ELSE ticked

(* The first n events of q have run, one after the other. *)
AfterEvents(m, q, n) ==
    LET ran[k \in 0..n] ==
            IF k = 0 THEN m ELSE RunEvent(ran[k - 1], q[k].event)
    IN ran[n]

ClockTick(m) ==
    LET n == DueEvents(m.queue)
    IN [AfterEvents(Timed(m), m.queue, n) EXCEPT
            !.queue = Advanced(m.queue, n)]

(* The timer of core c, which runs whether or not the core waits. *)
CpuTick(m, c) ==
    LET fired == IF m.cpu[c].time = 0 THEN AssertIRQ(m, c, IL_CPUTIMER) ELSE m
    IN IF m.cpu[c].status = "HALTED" THEN m
       ELSE IF m.cpu[c].mtie
            THEN [fired EXCEPT !.cpu[c].time = Decremented(@)]
            ELSE DeassertIRQ(m, c, IL_CPUTIMER)

-----------------------------------------------------------------------------
(* For how long nothing can happen *)

(* The tick of an event is not skipped.  A plausible bug: it is. *)
UpToDeadline(left) == left
BeforeDeadline(left) == left - 1

BusIdleCycles(m) ==
    IF m.queue = <<>> THEN m.timer
    ELSE IF m.queue[1].left > 0
         THEN Min({m.timer, BeforeDeadline(m.queue[1].left)})
         ELSE 0

CpuIdleCycles(p) ==
    CASE p.status = "HALTED"  -> W - 1
      [] p.status = "IDLE"    -> IF p.mtie THEN p.time ELSE W - 1
      [] p.status = "RUNNING" -> 0

IdleCycles(m) ==
    Min({BusIdleCycles(m)} \cup {CpuIdleCycles(m.cpu[c]) : c \in Cpus})

SkippedCore(p, cycles) ==
    IF p.status # "HALTED" /\ p.mtie
    THEN [p EXCEPT !.time = (@ - cycles) % W]
    ELSE p

SkippedEvent(q, cycles) ==
    [q EXCEPT !.left = IF @ < cycles THEN 0 ELSE @ - cycles]

Skip(m, cycles) ==
    [m EXCEPT !.timer = (@ - cycles) % W,
              !.queue = [i \in DOMAIN @ |-> SkippedEvent(@[i], cycles)],
              !.cpu = [c \in Cpus |-> SkippedCore(@[c], cycles)]]

-----------------------------------------------------------------------------
(* Machine::step *)

(* One more cycle begins with a tick of the bus. *)
BeginCycle ==
    /\ inStep /\ turn = NCpus
    /\ ~machine.halted /\ steps > 0 /\ ~stopRequested /\ ~pauseRequested
    /\ machine' = ClockTick(machine)
    /\ turn' = 0
    /\ steps' = steps - 1
    /\ UNCHANGED <<sessionVars, inStep, stopRequested, pauseRequested>>

(* WFI puts the core to sleep unless an interrupt is pending.  A plausible
   bug: it always does. *)
AlwaysSleeps(p) == TRUE
Sleeps(p) == p.mip = {}

Suspend(m, c) ==
    LET sleeps == Sleeps(m.cpu[c]) IN
        /\ machine' = [m EXCEPT
                         !.cpu[c].status = IF sleeps THEN "IDLE" ELSE @,
                         !.cpu[c].atWfi = sleeps]
        /\ pauseRequested' = (pauseRequested \/ sleeps)

(* Any other instruction: a core writes its own registers, or those of the
   bus, of a device or of the machine controller.  A device that refuses a
   command at once asks for its interrupt within the cycle. *)
Execute(m, c) ==
    /\ \/ machine' = m
       \/ \E t \in TimerValues :
            machine' = DeassertIRQ([m EXCEPT !.cpu[c].time = t], c, IL_CPUTIMER)
       \/ \E b \in BOOLEAN : machine' = [m EXCEPT !.cpu[c].mtie = b]
       \/ \E ls \in MipValues : machine' = [m EXCEPT !.cpu[c].mip = ls]
       \/ \E t \in TimerValues :
            machine' = DeassertIRQ([m EXCEPT !.timer = t], TimerCpu, IL_TIMER)
       \/ \E r \in Requests :
            /\ r.kind = "irq"
            /\ machine' \in {AssertIRQ(m, r.cpu, r.line), DeassertIRQ(m, r.cpu, r.line)}
       \/ \E r \in Requests, d \in Delays :
            /\ Len(m.queue) < MaxQueue
            /\ \E i \in 1..(Len(m.queue) + 1) :
                  /\ Place(m.queue, i, d)
                  /\ machine' = Schedule(m, r, d, i)
    /\ UNCHANGED pauseRequested

(* A cycle of core c, after its timer: nothing if it is halted or waits,
   else an instruction, which a stop point may follow. *)
Cycle(c) ==
    LET m == CpuTick(machine, c) IN
        /\ inStep /\ turn = c
        /\ turn' = c + 1
        /\ IF m.cpu[c].status # "RUNNING"
           THEN machine' = m /\ UNCHANGED <<stopRequested, pauseRequested>>
           ELSE /\ \/ Suspend(m, c)
                   \/ ~m.cpu[c].atWfi /\ Execute(m, c)
                /\ \/ UNCHANGED stopRequested
                   \/ machine'.cpu[c].status = "RUNNING" /\ stopRequested' = TRUE
        /\ UNCHANGED <<sessionVars, inStep, steps>>

(* Machine::step returns, and the session decides how to go on.  What is
   written again before it is read is cleared here. *)
EndStep ==
    /\ inStep /\ turn = NCpus
    /\ machine.halted \/ steps = 0 \/ stopRequested \/ pauseRequested
    /\ inStep' = FALSE
    /\ steps' = 0
    /\ IF machine.halted
       THEN status' = "off" /\ timerOn' = FALSE /\ machine' = PoweredOn
       ELSE /\ IF stepping \/ stopRequested
               THEN status' = "stopped" /\ timerOn' = FALSE
               ELSE UNCHANGED <<status, timerOn>>
            /\ UNCHANGED machine
    /\ stopRequested' = FALSE /\ pauseRequested' = FALSE /\ stepping' = FALSE
    /\ UNCHANGED <<idleOn, idleSteps, turn>>

-----------------------------------------------------------------------------
(* The debugger's event loop *)

Enter(cycles) ==
    /\ inStep' = TRUE
    /\ turn' = NCpus
    /\ steps' = cycles
    /\ UNCHANGED <<stopRequested, pauseRequested>>

(* runContIteration: simulate some cycles, or start skipping them. *)
RunIteration ==
    /\ ~inStep /\ timerOn
    /\ idleSteps' = IdleCycles(machine)
    /\ IF idleSteps' > 0
       THEN timerOn' = FALSE /\ idleOn' = TRUE /\ UNCHANGED loopVars
       ELSE Enter(IterCycles) /\ UNCHANGED <<timerOn, idleOn>>
    /\ UNCHANGED <<machine, status, stepping>>

(* Whether the iterations start again after a skip.  A plausible bug: they
   do not. *)
NeverRestarts(left) == FALSE
Restarts(left) == left = 0

SkipIdle ==
    /\ ~inStep /\ idleOn
    /\ LET skipped == Min({idleSteps, kMaxSkipped})
           left    == idleSteps - skipped
       IN  /\ machine' = Skip(machine, skipped)
           /\ idleSteps' = left
           /\ idleOn' = (left > 0)
           /\ timerOn' = (timerOn \/ Restarts(left))
    /\ UNCHANGED <<status, stepping, loopVars>>

-----------------------------------------------------------------------------
(* The user, between two iterations *)

(* Whether cycles are still skipped after a stop. *)
SkippingStops  == FALSE

(* The number of cycles left to skip is computed anew before it is used. *)
StopTimers ==
    /\ timerOn' = FALSE
    /\ idleOn' = SkippingStops
    /\ idleSteps' = IF idleOn' THEN idleSteps ELSE 0

StartMachine ==
    /\ ~inStep /\ status = "off"
    /\ machine' = PoweredOn
    /\ status' = "stopped"
    /\ UNCHANGED <<timerOn, idleOn, idleSteps, stepping, loopVars>>

HaltMachine ==
    /\ ~inStep /\ status # "off"
    /\ machine' = PoweredOn
    /\ status' = "off"
    /\ StopTimers
    /\ UNCHANGED <<stepping, loopVars>>

(* The new machine cannot be built if a file of the configuration is gone. *)
ResetMachine ==
    /\ ~inStep /\ status # "off"
    /\ machine' = PoweredOn
    /\ status' \in {"stopped", "off"}
    /\ IF status = "running"
       THEN StopTimers
       ELSE UNCHANGED <<timerOn, idleOn, idleSteps>>
    /\ UNCHANGED <<stepping, loopVars>>

OnContinue ==
    /\ ~inStep /\ status = "stopped"
    /\ status' = "running"
    /\ stepping' = FALSE
    /\ timerOn' = TRUE
    /\ UNCHANGED <<machine, idleOn, idleSteps, loopVars>>

OnStep ==
    /\ ~inStep /\ status = "stopped"
    /\ status' = "running"
    /\ stepping' = TRUE
    /\ Enter(1)
    /\ UNCHANGED <<machine, timerOn, idleOn, idleSteps>>

Stop ==
    /\ ~inStep /\ status = "running"
    /\ status' = "stopped"
    /\ StopTimers
    /\ UNCHANGED <<machine, stepping, loopVars>>

(* The register views write the registers directly: no line changes. *)
EditRegister ==
    /\ ~inStep
    /\ status = "stopped" \/ (status = "running" /\ LiveEdits)
    /\ \/ \E t \in TimerValues : machine' = [machine EXCEPT !.timer = t]
       \/ \E c \in Cpus, t \in TimerValues :
            machine' = [machine EXCEPT !.cpu[c].time = t]
       \/ \E c \in Cpus, b \in BOOLEAN :
            machine' = [machine EXCEPT !.cpu[c].mtie = b]
    /\ UNCHANGED <<sessionVars, loopVars>>

Drive == BeginCycle \/ (\E c \in Cpus : Cycle(c)) \/ EndStep
            \/ RunIteration \/ SkipIdle

User == StartMachine \/ HaltMachine \/ ResetMachine \/ OnContinue \/ OnStep
            \/ Stop \/ EditRegister

Next == Drive \/ User

Spec == Init /\ [][Next]_vars

(* A step that has begun runs on, and the event loop serves its timers. *)
FairSpec == Spec /\ WF_vars(Drive)

-----------------------------------------------------------------------------
(* Properties *)

(* Processor::Skip and DebugSession::skip assert this: whenever cycles are
   about to be skipped there are some, and no core stops them, although the
   number was computed in an earlier iteration of the event loop. *)
SkipIsAllowed ==
    idleOn => /\ idleSteps > 0
              /\ \A c \in Cpus : machine.cpu[c].status # "HALTED" =>
                    /\ machine.cpu[c].status = "IDLE"
                    /\ idleSteps <= CpuIdleCycles(machine.cpu[c])

(* The machine after n cycles of Machine::step in which no core executes. *)
CpuTicks(m) ==
    LET ticked[c \in 0..NCpus] ==
            IF c = 0 THEN m ELSE CpuTick(ticked[c - 1], c - 1)
    IN ticked[NCpus]

Waited(n) ==
    LET after[k \in 0..n] ==
            IF k = 0 THEN machine ELSE CpuTicks(ClockTick(after[k - 1]))
    IN after[n]

(* Skipping cycles does to the machine what simulating them would have done:
   no event, no underflow of a timer and no wake-up of a core is missed. *)
SkippingIsWaiting ==
    idleOn => \A n \in 1..idleSteps : Skip(machine, n) = Waited(n)

(* What the debugger assumes while it skips, and what it achieves. *)
SkippingInv == SkipIsAllowed /\ SkippingIsWaiting

(* A core that waits has no interrupt pending: no wake-up was lost between
   the WFI that found none and the request that came (suspend, AssertIRQ). *)
NoLostWakeUp ==
    \A c \in Cpus : machine.cpu[c].status = "IDLE" => machine.cpu[c].mip = {}

(* While the session runs, exactly one timer of the event loop drives it, and
   none does while it is stopped: iterations neither cease nor run twice as
   often after any order of stops, resets, steps and skips. *)
OneDriver ==
    IF status = "running" /\ ~(inStep /\ stepping)
    THEN timerOn # idleOn
    ELSE ~timerOn /\ ~idleOn

(* Nothing that should run is forgotten: no core, no iteration. *)
DrivingInv == TypeOK /\ NoLostWakeUp /\ OneDriver

(* A halted core starts again only by a reset, whatever interrupts are
   routed to it and whatever its timer does meanwhile. *)
ResetIsDue(c) ==
    \E i \in 1..Len(machine.queue) :
        /\ machine.queue[i].left <= 1
        /\ machine.queue[i].event.kind = "reset"
        /\ machine.queue[i].event.cpu = c

HaltedUntilReset ==
    [][\A c \in Cpus :
         machine.cpu[c].status = "HALTED" /\ machine'.cpu[c].status # "HALTED"
           => ResetIsDue(c) \/ machine' = PoweredOn]_vars

(* A core that waits while its timer runs is woken, unless the user or a
   stop point stops the machine. *)
TimerWakes ==
    \A c \in Cpus :
        (machine.cpu[c].status = "IDLE" /\ machine.cpu[c].mtie
            /\ status = "running")
        ~> (machine.cpu[c].status # "IDLE" \/ status # "running")
=============================================================================
