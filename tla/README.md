# uRISCV in TLA+

uRISCV simulates a small multiprocessor RISC-V computer for teaching operating
systems: up to 16 cores, an interrupt controller, a bus with a clock, and up to
eight devices of each of five kinds (disk, flash, Ethernet, printer, terminal).
A Qt debugger, a GDB server and a command line program drive it.

This directory holds TLA+ modules that model the simulator, TLC configurations
that check them on small instances, and proofs, checked by TLAPS, of what holds
for every instance. `PROJECT.json` maps every definition to the source lines it
stands for, names the runs, the theorems, the hazards and the disagreements
that were found.

Paths below are relative to `src/src/` of the repository unless they begin with
`src/`.

## 1. The system

The simulator itself is a single thread. What makes it hard is not preemption
but deferred work: nearly every operation is split into a *command*, which the
guest gives by writing a register, and a *completion*, which an event queue
calls some thousand cycles later. Between the two the guest runs, other devices
complete, the user of the debugger types, breaks devices, edits registers,
stops and resets. Handlers are parameterless, so what they do depends on state
that was left by a command and may have changed since. Only the GDB server has
two threads. The guest's own firmware runs on several cores at once.

| Component | State | Operations | Interacts with |
|---|---|---|---|
| Interrupt controller (`uriscv/mpic.cc`) | routing table, last target of each source, rotating arbiter, per-core pending lines, device bitmaps, inboxes, task priorities | StartIRQ, EndIRQ, register writes, deliverIPI | called by the devices and the bus; drives MIP of the cores; schedules deliveries on the event queue |
| Event queue (`uriscv/event.cc`) | sorted list of events, pointer to the last insertion | InsertQ, RemoveHead | filled by devices, controllers; emptied by the clock tick |
| Bus and clock (`uriscv/systembus.cc`) | time of day, interval timer, event queue, devices | ClockTick, IdleCycles, Skip, IntReq/IntAck | everything |
| Address map and memory (`systembus.cc`, `memspace.cc`) | RAM, BIOS data, BIOS, boot ROM, device registers | busRead, busWrite, DMA of whole blocks | cores, devices, debugger |
| Terminal (`device.cc`) | two halves with status, command and completion time; input buffer | WriteDevReg, CompleteDevOp, Input | controller, event queue, user |
| Disk, flash (`device.cc`) | registers, one-block buffer and its tag, heads | WriteDevReg, CompleteDevOp | event queue, memory by DMA, controller, image |
| Images (`blockdev.cc`, `mkdev.cc`) | a file with a header and blocks | mkdev, opening, reading and writing at 32-bit offsets | disk and flash |
| Ethernet (`device.cc`, `vde_network.cc`) | registers, READPENDING, poll flag, packet queue | WriteDevReg, CompleteDevOp | event queue, memory, network |
| Printer (`device.cc`) | registers | WriteDevReg, CompleteDevOp | event queue, controller, log file |
| Processor (`processor.cc`) | registers, CSRs, three program counters, TLB, status, own timer, MIP | Cycle, Skip, Reset, Halt, AssertIRQ, exceptions, instructions | bus, machine (breakpoints) |
| Machine (`machine.cc`, `mp_controller.cc`) | cores, bus, stop and pause requests | step, IdleCycles, Skip, delayed reset, halt and power-off, notification of accesses | debug session, GDB server, stop points |
| Debug session (`frontends/qriscv/debug_session.cc`) | status, two timers of the event loop, idle cycles left to skip | start, halt, reset, continue, step, stop, relocation of stop points | machine, configuration, user |
| Stop points, symbol table (`stoppoint.cc`, `symbol_table.cc`) | ordered ranges, in two copies | Add, Remove, Probe, Rebuild | machine, debugger |
| GDB server (`gdb/gdb.cc`) | two threads, list of breakpoints, stopped flag, mutexes, a condition variable | continue, step, kill, breakpoints, register and memory access | machine |
| Configuration (`machine_config.cc`, `mkconfig.cc`, `machine_config_dialog.cc`) | numbers, files, devices | load, set, validate, save, edit | machine, views |
| JSON (`base/json.cc`) | a tree | serialize, parse | configuration, sessions |
| Firmware and guest library (`support/bios`, `support/liburiscv`) | an exception state of each core in the BIOS data page | exception entry, LDST, LDCXT, HALT, INITCPU, spin lock | processor |
| Disassembler (`disassemble.cc`) | - | StrInstr | code view, trace, objdump |
| Command line, Qt views, image tools | - | show, convert | - |

What makes each of them correct:

* **Interrupt controller.** A line is high at a core exactly while something at
  that core waits for an answer; an acknowledgement takes back the request it
  belongs to, wherever the routing table points by then; ties between cores are
  broken fairly; a message that has been read is the one that is acknowledged.
* **Event queue.** Every event runs exactly once, at its time, in the order of
  deadlines, although handlers insert while the head is still in the list.
* **Devices.** An accepted command leads to exactly one completion, which
  requests attention; a device that is busy takes no commands; the completion
  acts on what the command was about. A read that reports success delivered
  what was asked for, a write that reports success arrived, typed characters
  and packets are neither lost unannounced nor reordered.
* **Memory and images.** An access reaches what its address names or fails; no
  two blocks share a place in a file.
* **Processor.** The instruction that runs is the one at the program counter,
  read under the present mode and translation; traps are precise; an
  instruction computes what the manual says.
* **Machine and session.** Skipping idle cycles is indistinguishable from
  simulating them; no wake-up is lost; a running session is driven by exactly
  one timer, a stopped one by none.
* **Stop points.** An access that lies in a stop point is found, whichever it
  is, also after the points have moved with their symbols.
* **GDB server.** A program does not run over a breakpoint; a hit is reported; a
  program that is reported to have stopped stands still.
* **Configuration, JSON.** What is saved is what is loaded; the machine that
  runs is the one that its configuration describes.
* **Firmware.** A program that is left, at any instruction, and resumed goes on
  where it was, with its own registers; a started core finds its state; the lock
  excludes.

## 2. The modules

An operator introduced by "A plausible bug" is a variant of the definition that
follows it. It is used only to confirm that the properties notice the bug.

### InterruptController (`mpic.cc`, `mpic.h`)

One action per operation: `StartIRQ`, `EndIRQ`, one for each kind of register
write, and `DeliverIPI`. `route` is the routing table, `lastTarget`,
`arbiter`, `ipMask`, `idb`, `inbox`, `taskPriority` and `biosReserved` are the
fields of the class, `mip` the bits the cores see, `outbox` the deliveries that
sit in the event queue. The timer is the one source without a bitmap, and its
bit in the controller's own mask is not the line it drives (`MaskBit`,
`IrqLine`), as in the code. Words that the constructor does not initialize hold
`Garbage`.

`Routed` states the outcome of the scan for a dynamic destination (greatest
priority, first from the arbiter) as a relation rather than as a loop.

### EventQueue, and its specification Alarms (`event.cc`, `SystemBus::ClockTick`)

`EventQueue` has the list with the search that starts from the last insertion,
and `ClockTick` in steps: the clock advances, the handler of the head runs and
may insert one event, the head is removed, and so on until nothing is due.
Deadlines are kept relative to the clock. `Alarms` is what the devices rely on:
a *set* of alarms that ring once, in order, and never late. The refinement
mapping counts an event as rung once its handler has run, although the list
still holds it. The names that other modules have too carry the prefix `Queue`
(`QueueInit`, `QueueNext`): `MCDevices` extends this module and `TerminalDevice`.

### TerminalDevice (`TerminalDevice` in `device.cc`)

The two halves share one handler, one interrupt source and one lock-out rule:
`Completing` is the handler's guess, from the completion times, of which half it
was called for. `events[t]` counts the events queued at a distance of `t`, since
they carry no identity. The module *composes* the device with the interrupt
controller: it instantiates `InterruptController` as `PIC` and calls
`PIC!StartIRQ` and `PIC!EndIRQ` where the code calls `IntReq` and `IntAck`. With
a history of what was typed and received it states that input is not lost.

### DeviceOperation

The contract between a device and its driver: accept, refuse, acknowledge,
complete. The terminal's halves, the flash device, the disk, the printer and
the Ethernet device implement it.

### BlockBuffer, FlashDevice, DiskDevice, PrinterDevice (`device.cc`)

`BlockBuffer` holds what disk and flash device share: the one-block buffer with
its tag, commands, DMA that may fail after a part was copied, completion, and
the `isWorking` switch of the user. `FlashDevice` adds nothing but the numbering
of blocks. `DiskDevice` adds cylinders: a seek that succeeds or stops half way,
and the fact that a transfer is located *again* when it completes, with the
cylinder of that moment. `source` is a history variable: what the memory held
when the write command was given, or `NoCopy` if copying failed.
`PrinterDevice` reads its data register only when the operation completes.

### Images (`mkdev.cc`, `blockdev.cc`, `blockdev_params.h`)

`mkDisk` and `mkFlash` decode a command line, with the limits of the header
file, and write an image, to its end or not; `Open` reads the header as the
constructors of the devices do; `ReadBlock` and `WriteBlock` use offsets that
wrap at the width of a word (`Number`, `Place`).

### Bus (`systembus.cc`, `memspace.cc`)

`busRead` and `busWrite` decode an address as the code does, in the order of
its tests. `DataWrite`, which is the debugger's `WatchWrite` too, `InstrRead` and
the two DMA transfers (`TransferIn`, `TransferOut`) use them; a transfer stops at the first word
that fails.

### EthDevice (`EthDevice` in `device.cc`, `vde_network.cc`)

Polls and operations share a handler that looks at the state to see which of
them it was called for, so an event may be taken for the other. `events` counts
the queued calls. Of the mode only the INTERRUPT bit is kept, packets are
counted (`queue`, at most `MAXNETQUEUE`, and `wire`), an address is valid or not.

### Machine (`machine.cc`, `systembus.cc`, `processor.cc`, `mp_controller.cc`, `debug_session.cc`)

`BeginCycle` is a tick of the bus, `Cycle(c)` the timer of a core and one
instruction, which may wait for interrupts, write a timer or MIP, acknowledge
or schedule something, and hit a stop point; `EndStep` is the return from
`Machine::step`. `RunIteration` and `SkipIdle` are the two timers of the
debugger's event loop, `StartMachine` ... `EditRegister` the user. A device that
refuses a command asks for its interrupt in the cycle of the core that gave it
(`device.cc:892`, `999`, `1291`), so that `Execute` may wake another core in the
middle of a step, and may take back a request as well. `IdleCycles` and
`Skip` are translated from `SystemBus`, `Processor` and `Machine`. Registers
have `W` values and wrap.

### Processor, TLB, and the specification Hart (`processor.cc`)

`Processor` is `Processor::Cycle`: an action is one cycle with one kind of
instruction, from the tick of the core's timer through the exception or the
interrupt, the three program counters (`pc`, `next`, `succ`) and the fetch of
the next instruction. `fetched` is what the cycle before read: where, in which
mode, through which translation. `skipCycle` is the flag of a failed fetch, after
which a cycle executes nothing. `TLB` holds `mapVirtual`, the probe and the
faults. What is behind an address may be any instruction.

`Hart` is the abstract machine the guest's programmer is told of: one program
counter and precise traps. `ImplementsHart` is the refinement; the cycle that
executes nothing is a stutter.

### Instructions, and its references Isa and Disassembler

`Instructions` is `execInstr` as far as results go: arithmetic, shifts, long
products, parts of words, immediates, jumps, CSRs, in words of `4 * B` bits, each
as the code computes it (masks, casts to signed, merges). `Isa` says what the
manual of the architecture says, in integers. `RunsTheManual` compares the two;
`Deviates` names the cases in which they differ (section 6), `Carries` among them:
the operands whose middle products `UnsMult` does not carry. Both modules take
AND of two words as a recursive function over their bits, from which OR and XOR
follow. `Disassembler` is `StrInstr`, compared with the assembly that `Isa` gives
of the same instruction.

### Bios (`support/bios/exec.S`, `coreboot.S`, `support/liburiscv/liburiscv.S`)

In the BIOS, an action is a block of instructions that runs with interrupts off:
the trap, the dispatch, saving, loading. `area` is the exception state of each
core in the BIOS data page, `held` a history of the program that was left. In a
program, an action is one instruction: `PrepareAcquire`, `Zero`, `Swap` and
`Test` are those of ACQUIRE_LOCK, `PrepareRelease` and `Release` those of
RELEASE_LOCK, and `Leave` comes before any of them. The values of t0, t1 and t6
are followed through the BIOS, because a program comes back to the lock with
what the BIOS left there: in t0 the address of its area, in t1 the value of MIE.
These are taken to be values of their own, neither of which is 0 or 1: MIE has a
bit other than the first set, or interrupts would not come, and the area is in
the BIOS data page. A swap may then put such a value into the lock, which keeps
it taken, and a core that tests t0 against t1 after it was interrupted tries
again: `MutualExclusion` holds, but the lock may stay taken with nobody inside.

### StopPoints (`stoppoint.cc`, `symbol_table.cc`, `machine.cc`, views)

`set[k]` keeps the two copies of the code, the vector and the map ordered by
address. `Probe` looks at one neighbour, as the code does. `Access` is
`HandleBusAccess` and `HandleVMAccess`; `Initialize` relocates every set over a
symbol table that may be another one, if that is for the same address space
(`debug_session.cc:233`). `Search` is the binary search of the symbol
table, as many narrowings as it can need; `Relocated` adds the moved points to
a new set one after the other, so that one which no longer fits is lost.

### GDBServer (`gdb.cc`)

The two threads step separately: `Poll` and `Report` of the server, `Enter`,
`Step`, `Look`, `Check`, `Stop` of the stepping thread; a lock is held within
one action only, as in the code. `inbox` is what is on its way; a read takes
any prefix of it (`Meaning`). The stepping thread waits for its signal once,
with no predicate (`gdb.cc:271`), so it may also wake up with no signal: `Wake`,
at any time, and not by any fairness. `disturbed` remembers that this has
happened, or that an interrupt character was sent; what `SessionInv` says of
stops holds until then. `wanted` and `fresh` are histories: the breakpoints
the debugger has set, and those the stepping thread cannot know of yet.

### MachineConfig, Json

`MachineConfig` has the object, the file, the dialog, `mkconfig` and the machine
built from it; `Loaded` reads the members in the order of the code. `Json` has
the serializer, the lexer and the recursive descent, over texts of marks.

### Guest, FrontEnds

`Guest` puts a core (`Processor`), the firmware (`Bios`) and what an instruction
computes (`Manual`, an instance of `Disassembler` and so of `Instructions`) side by side,
`FrontEnds` the stop points, the GDB server and the configuration. They add no
state and no steps: they name the properties of their parts and the assumptions
on the constants, for the MC module and for the proofs to use the same ones.

### MC modules

`MCInterruptController`, `MCDevices`, `MCStorage`, `MCMachine`, `MCGuest` and
`MCFrontEnds` give constants their values for TLC. Where one run covers several
modules that do not interact, a behaviour belongs to one of them (`Scenarios`,
`kind`), chosen initially; the variables of the others keep their initial
values. Each property is then about its own scenario.

### Proof modules

`InterruptControllerProofs`, `EventQueueProofs`, `TerminalProofs` (both kinds of
device of the run `devices`), `StorageProofs` (devices, printer, images and bus),
`GuestProofs`, `MachineProofs` and `FrontEndProofs` extend the modules they are
about. `Recursion` holds the lemmas on recursive functions that several of them share.

## 3. The runs

| Run | Checks | Bounds, and why they are enough |
|---|---|---|
| `pic` | `LinesInv` (lines agree with bitmaps and inboxes, an acknowledgement finds its request), `LeftBehindOnlyIfRaisedAgain`, `NoCoreTwiceInARow`, `FrontIsStable` | 2 cores, one line shared by 2 devices and the timer; fixed routes to core 0 and to no core, dynamic routes to both and to none; two priorities; one message in flight per sender, so that the one-per-sender slot both takes and refuses. Devices and messages take turns as scenarios: they share no state but the pending lines. Two devices and two cores are the fewest that can be confused, and the routing table changes in any state |
| `devices` | queue: `QueueInv` (sorted, hint in the list, removes what it ran), refinement of `Alarms`, `ClockGoesOn` (every event runs, every tick ends); terminal: `HandlerInv`, `SharedSourceInv`, `ReceivesWhatWasTyped`, `ImplementsDevices`, `NeitherStarves`; Ethernet: `PollingInv`, `ImplementsDeviceOperation`, `OperationEnds` | queue: 4 events, delays 1 to 3: an insertion before, at, and after the last one, with equal deadlines, from inside a handler, and when the list becomes empty. Terminal: durations 3, 2, 1, so that either half may finish first or both at once; 3 typed characters including the newline; 2 cores with fixed routes, rewritten while nothing is pending. Ethernet: a queue of 2, 3 packets on the wire: empty, one left after a read, full and overflowing. Both fail and recover at will |
| `storage` | `BufferIsTruthful`, `ReadDelivers`, `WriteLands`, `ImplementsDeviceOperation` (disk, flash, printer), `PrintsWhatWasAsked`, `AccessesAreHonest`, `ImagesInv` | 2 cylinders of 2 sectors, a valid and an invalid address, 2 contents, failures at will, the guest writing its page at any time: a mistaken block, cylinder, or moment of the copy shows in the contents. Bus: BIOS data of one word next to the registers, blocks of 2 words, so that a block can begin in memory and end in a register or nowhere. Images: up to 7 blocks of which 3 have a positive offset, so that offsets wrap, and command lines on both sides of every limit |
| `machine` | `SkippingInv`, `DrivingInv`, `HaltedUntilReset`, `TimerWakes` | 2 cores, timers of 3 values (wrapping included), iterations of 2 cycles, one cycle skipped at a time, one queued request (interrupt, reset, halt or power-off), which is 2 ticks away, so that it can fall into an iteration, between two, and into a skip |
| `guest` | `PipelineInv`, `InterruptsAreTaken`, `ImplementsHart`; `BiosInv`; `RunsTheManual`, `ShowsWhatRuns` | core: 20 addresses in 5 pages, of which two are translated, one of these by an entry of the table, and one has nothing behind it; a table of 2 entries, two lines; the scenario `control` runs with a filled table, `table` changes the table with interrupts off, as both together have some hundred million states. Firmware: 2 cores, each interrupted before any instruction of its program. Program: words of 4 bits, every operand of every register instruction, each field on both sides of its limits |
| `frontends` | `StopPointsInv`, `RelocationKeeps`; `SessionInv`, `StopsAtBreakpoints`, `HitIsReported`; `ConfigInv`, `DialogKeeps`; `JsonInv` | stop points: 5 addresses, 5 ranges in 2 address spaces (adjacent, overlapping, single), 2 points of a set, two versions of a program of 3 symbols, the second also as a table for the other space; only breakpoints meet that table (`Bounded`), as each kind is relocated by the same code. GDB: a loop of 2 addresses, a list of at most 3 breakpoints, 2 packets on their way. Configuration: one core or two, sizes at and off the choices of the dialog, files with and without every kind of damage. JSON: 8 marks, all texts of up to 6, values up to 3 levels deep |

`SkippingInv` compares the whole machine after `Skip(n)` with the machine
after `n` simulated cycles, for every `n` up to the number that is about to be
skipped.

The view `MCView` of the run `guest` leaves out MCAUSE and, where nothing reads
them, MEPC and the stale copy of an instruction: no step and no checked
property but `ImplementsHart` looks at them, and `Hart` only requires them to be
set in the step of the trap: TLC compares the full states of each step it takes,
before it applies the view. The symmetry of the run `storage` permutes the contents of blocks.

Six runs exhibit a disagreement between the code and what the repository says
of it:

| Run | Violated | What happens |
|---|---|---|
| `ldst_incomplete` | `RestoresCompletely` | a program that was interrupted is resumed with LDST with the address of its exception state in t0, the value of MIE in t1 (`exec.S:309-311`) and its own address in t6 (`exec.S:377-388`), whereas `liburiscv.h:132` says that LDST "updates processor status _completely_". `BiosInv` asks for everything else of the state |
| `terminal_dynamic` | `QuietWhenAcknowledged` | both halves of a terminal request attention under a dynamic route; `StartIRQ` overwrites `lastTarget` (`mpic.cc:60`), and the single acknowledgement lowers the second core's line only. The first core is interrupted for ever, against the purpose that `mpic.h:42` gives to the field |
| `flash_bad_address` | `BufferStaysValid` | the copy of a write command fails, the operation is started all the same, writes the buffer to the image and reports READY (`device.cc:1362`), while the comment at line 1375 takes the buffer for valid. `ReadDelivers` and `WriteLands`, which asks about writes whose copy succeeded, are not affected |
| `eth_unannounced` | `WaitingIsAnnounced` | a read that leaves packets in the queue combines the 1 of `netinterface::polling` with the status instead of READPENDING (`device.cc:1629`): no poll is scheduled and the guest is not told |
| `machine_edit` | `SkipIsAllowed` | the user edits a timer while cycles are being skipped; the number of cycles to skip was computed before (`debug_session.cc:402`), and the assertion of `Processor::Skip` fails. This run lets the user edit (`LiveEdits`); `machine` does not |
| `config_floor` | `FloorIsOutsideMemory` | `mkconfig` sets the TLB floor (`mkconfig.cc:129`) before the size of memory; RAMTOP is resolved against the default size (`machine_config.cc:222`), so with another size the floor is not the top of memory |

### Fairness

* `devices`: for the queue, weak fairness of `Tick`, any step of the clock tick.
  The main loop of the machine ticks for as long as it runs, and `ClockTick` is
  one function call. Nothing is assumed of the cores, which may schedule events
  or not. For the terminal, weak fairness of the passing of time and of the
  handler of an event that is due, for the same reason; for the Ethernet
  interface of `CompleteDevOp`: a queued event runs, after a time that the
  module does not count. The user, the network and the driver are free to stop.
* `machine`: weak fairness of `Drive`, the disjunction of the steps of
  `Machine::step` and of the two timers of the event loop. At most one of them
  is enabled at a time (`OneDriver`), so weak fairness of the disjunction is
  what the event loop provides. The user's actions have no fairness, which is
  why `TimerWakes` ends with `status # "running"`.
* `frontends`: weak fairness of each of the two threads of the GDB server. The
  host schedules both; the debugger need not do anything, and no wait need end
  without a signal.

`CHECK_DEADLOCK FALSE` is said in `guest` and `ldst_incomplete`, where a program is one instruction and
every core may have been halted, in `frontends` and `config_floor`, where a
configuration file may end the program, a killed server is gone and a text that
is complete is followed by nothing, and in `storage`, where an access to the
registers of a core on behalf of none ends the simulator and the paper of the
printer is bounded.

## 4. The proofs

TLAPS proves the following for *every* value of the constants allowed by the
assumptions that the modules name, which TLC evaluates in the runs.

| Assumption | Says |
|---|---|
| `ConstantsAssumption`, `RoutesAssumption` | cores, lines and devices within the limits of `const.h`; the table of routes has the initial route |
| `DelaysAssumption`, `NullAssumption` (`EventQueue`) | delays are positive: every one in the code is a positive constant times the clock rate; the mark for no event is none |
| `TimesAssumption`, `InputAssumption` (`TerminalDevice`), `EthAssumption` | durations are positive, what is typed is text, the packet queue has room for one |
| `BlocksAssumption`, `GeometryAssumption` (`DiskDevice`) | the marks for no block are none; a disk has a sector |
| `AreasAssumption`, `ImagesAssumption` (`MCStorage`) | the areas of `const.h` and `arch.h` do not overlap, none is empty; limits are numbers |
| `MachineAssumption` | a core, a cycle and a timer value at least; delays and timer values are numbers |
| `TLBAssumption`, `ProcessorAssumption` | whole pages of whole words, a table of two entries or more, boot addresses that exist and are not translated, at most 31 interrupt lines |
| `ProgramAssumption` (`Guest`) | a byte has a bit at least; there is a register `x0`; each instruction executed has its fields within their bits and names registers that the model has; registers and memory hold words |
| `SessionAssumption`, `ConfigAssumption` (`FrontEnds`) | bounds are numbers; a file that can be read has values of the types that the JSON library returns, whatever they are; the user chooses what the widgets offer |
| `StopPointAssumption` | ranges end after they start; a table that was loaded holds symbols, with sizes that are not negative |

| Module | Theorems | Argument |
|---|---|---|
| `InterruptControllerProofs` | `TypeCorrect`, `LinesAlwaysMatchBitmaps`, `LinesAlwaysAgree` (`LinesInv`), `FrontAlwaysStable` (`FrontIsStable`), `ScenariosAreBehaviours`, `AlwaysLeftBehindOnlyIfRaisedAgain`, `Rotates` (`NoCoreTwiceInARow`), `NothingLeftBehind` (if no source raises again before it is acknowledged) | `LinesMatchBitmaps` is inductive given the types once the lines of the timer and of messages are known to be none of the shared ones. `AckFindsRequest` needs that a bitmap loses a device only in the step that also forgets its target; the message line is set and cleared with the inbox. `NoRequestLeftBehind` needs both: a line that goes down must have been driven by the source that is acknowledged; the history `raisedAgain` makes its hypothesis a part of the state. An inbox is only appended to, except by the acknowledgement of its own core. A rotation starts behind the last target, so that coming back to it means to have passed every other core |
| `EventQueueProofs` | `NothingOverdue` (types: no deadline is ever missed), `AlwaysSorted`, `PointerAlwaysLive`, `AlwaysRemovesWhatItRan`, together `AlwaysQueueInv`; `QueueImplementsAlarms` (`ImplementsAlarms`) | `Sorted` is not inductive: an insertion is in order only if the pointer it starts from is in the list and distinct events are told apart, and a head whose handler inserts stays head only because delays are positive. `IInv` joins the four with: no duplicates, nothing fires outside a tick, nothing is due outside a tick. For the refinement, an insertion adds one entry and loses none, and the head, of which there is one, has rung when its handler has run |
| `TerminalProofs`, terminal | `TerminalTypeCorrect`, `AlwaysOneEvent`, `NeverReachesPanic`, together `HandlerIsRight`; `ReceivesAllInOrder`; `TerminalImplementsDevices` (`ImplementsDevices`); and under `FixedRouting` (routes to single existing cores, written while nothing is pending) `RequestsFollowPending`, `TerminalQuiet`, together `SourceIsShared` | `DeviceInv` says that each half that is busy has its event at its own completion time and is executing an operation the handler knows; then the guess of the handler is right. The input is the concatenation of what was received and what is unread. For requests, the invariant adds that the terminal is in the bitmap of the core it was routed to and of no other |
| `TerminalProofs`, Ethernet | `AlwaysOneEventEach`, `NoFalsePromise`, `AlwaysPolls`, together `PollingIsRight` (`PollingInv`); `EthIsDevice`; and `DevicesCompose`, by which these hold of the composition (`EthImplementsDevice`) | `EthInv` adds that a command in progress is one the handler knows. One event per poll and operation means that the handler takes an event for an operation only while there is one, so each of its steps is a completion, or a stutter or a request of the abstract device |
| `StorageProofs`, devices | `FlashBufferIsTruthful`, `FlashReadDelivers`, `FlashWriteLands`, `DiskTypeCorrect`, `DiskReadDelivers`, `DiskWriteLands`; `FlashImplementsDevice`, `DiskImplementsDevice`; `AlwaysPrintsWhatWasAsked`, `PrinterIsDevice` | `TransferInv`: while a transfer is in progress a valid buffer is for its block, and a write whose copy worked still has what it is to write. For the disk, `HeadsStayDuringTransfer`: the cylinder a transfer is located at when it completes is the one it was commanded for. For the printer, `CharacterIsKept`: the register holds what it held at the command |
| `StorageProofs`, images and bus | `ImagesAlwaysRight` (`ImagesInv`), `AccessesAlwaysHonest` (`AccessesAreHonest`) | Numbering a geometry is one to one because each coordinate is below its limit; offsets of different numbers differ as long as there are no more of them than a word can tell apart. `FilesInv` says of a file that is closed, too, that what was written is there. A transfer is an induction over its words: after `n` of them, the words before are moved and the rest is as it was (`Moved`, `Fetched`), and it stays so after the first bad address |
| `GuestProofs`, core | `PipelineIsRight` (`PipelineInv`), `CoreTypeCorrect`, `InterruptsAlwaysTaken` (`InterruptsAreTaken`), `CoreImplementsHart` (`ImplementsHart`) | Every instruction comes to the end of a cycle, from registers that are those of `Hart` after that instruction (`Outcome`), or is a WFI that stalls. The end of a cycle is then looked at once for all of them: the interrupt, if there is one, is a trap of `Hart` and turns interrupts off, and the fetch succeeds, so that the copy is of what the counter points to, or the counters lead to the handler and the next cycle executes nothing. `PipelineInv` is inductive as it stands, because each step of a core that runs establishes it anew |
| `GuestProofs`, firmware | `BiosAlwaysRight` (`BiosInv`) | Each step is about one core, its area and its vector (`OneCore`). `Program` says where the state of a program that was left is at each block: in the registers until it is saved, in the area of the core until it is loaded. No other core touches the area: a core past its start points to its own, and INITCPU writes the area of a core that is off, which has left no program. `LockInv`: there is one right to be inside, a lock that is 0. It is in the lock, in the t0 of a core that has swapped it out (or is about to swap again with t0 = 0), or with a program inside, running or left; when an interrupt replaces t0 before the branch it is lost, and never doubled, since neither of the values that come back in t0 and t1 (the pointer, that of MIE) is taken for it. What a program that was left comes back with is told by its state, in the area or on its way from it |
| `GuestProofs`, instructions | `ProgramsRunAsTheManualSays` (`RunsTheManual`) | `ProgramInv` (registers, memory and operands are words) is kept, and an instruction that is fetched is then compared with the manual opcode by opcode: the name `Isa` gives it, the result of the code, the result of the manual. Immediates as the code assembles and extends them are those of the manual where the sign bit is the one it extends. Long products are compared from their four partial products: nothing is lost as long as the middle ones do not carry out of a word (`Carries`), and a signed product is the unsigned one negated when signs differ. Quotients and remainders are unique, so that those of nonnegative operands agree however the operands are read. AND is an induction over bits, with which masks, merged bytes and half words are sums and remainders |
| `GuestProofs`, disassembly | `TextsShowInstructions` (`ShowsWhatRuns`) | The same cases, one step for each opcode: the tables of names at an index that is in them, operands in their order, and short forms written in full. Indices beyond a table are shown to belong to no instruction |
| `MachineProofs` | `MachineInvariant`, `AlwaysDriven` (`DrivingInv`), `HaltedStaysHalted` (`HaltedUntilReset`), `SkippingIsRight` (`SkippingInv`, unless registers are edited meanwhile) | `MachineInv` adds to what is checked that the queue is in the order of deadlines and that a step is taken only inside an iteration of a running session. Each operation of the cores and of the bus has a lemma on the machines it leads to (`Calm`: no core that waits has an interrupt pending). `SkippingInv` is not inductive: `IdleInv` says that while cycles are being skipped, nothing is due in those that are left, which a skip keeps and every other step ends. That `Skip(n)` is `n` cycles is then an induction over `n`: a cycle in which nothing is due is `Skip(1)` (`QuietCycle`), and `Skip(n)` after it is `Skip(n + 1)` (`SkipOneMore`) |
| `FrontEndProofs`, GDB server | `SessionsAreTrue` (`SessionInv`), `AlwaysStopsAtBreakpoints` (`StopsAtBreakpoints`) | What `std::remove` keeps is an induction over the list (`WithoutKeeps`); what it leaves behind at the end only adds breakpoints. `GdbInv` adds that the stepping thread goes to an instruction only after it has looked at the breakpoints, and that, until it is disturbed, at most one of these is true: the thread is stepping, a continue is on its way, a stop is about to be reported |
| `FrontEndProofs`, configuration | `ConfigAlwaysRight` (`ConfigInv`), `DialogAlwaysKeeps` (`DialogKeeps`) | A configuration is sound (of the right types, within limits, with a floor that is not 0) whichever way it was made: each setter, `Loaded` in its order, and the dialog keep it so. What is saved has every member within its limits, so that reading it back changes none (`SavedComesBack`) |
| `FrontEndProofs`, stop points | `StopPointsAreRight` (`StopPointsInv`), `RelocationsKeep` (`RelocationKeeps`) | `SPInv` says of each set that its ranges are disjoint, its identifiers increase and its map lists its points, and of each view that its rows show the hits of their points and that an identifier no longer in use has no hits: without the last, a point that is added would inherit them. `Probe` is then right because of disjoint ranges only the one that starts last before the address can contain it, and a set of keys has a greatest (an induction over the number of points). A relocation is an induction over the points: what was added so far is a good set, follows its origins, and has everything but what collides. That the search yields a symbol that contains the address is one over its narrowings |
| `Recursion` | `Induction`, `RecursionExists`, `RunExists` | see below |

Induction over data. The library's theorems on induction and recursive functions
take operators as parameters, which the provers cannot instantiate. `Recursion`
states them with *sets* in their place: a set with 0 and the successor of each
of its numbers has all numbers (`Induction`, from the well-foundedness of the
numbers), and for every function `F` of moves there is a function `f` with
`f[k] = F[k][f[k - 1]]` (`RunExists`). A definition such as `Without` or
`Relocated`, a CHOOSE of a function that satisfies its own equation, is thereby
known to satisfy it, and what it computes is proved with the set of those `n` up
to which it does.

Only model-checked: everything about liveness (`ClockGoesOn`, `NeitherStarves`,
`OperationEnds`, `TimerWakes`, `HitIsReported`), which TLAPS cannot prove under
fairness; `JsonInv`, as the recursive descent over JSON texts needs RECURSIVE
operators. Of the loading of a
symbol table the proofs use only what `StopPointAssumption` says; for the tables
of the run TLC computes it.

## 5. What is not modelled, and why

* The command line program (`src/app/main.cc`): a loop around what `Machine`
  and `GDBServer` model. It ignores a power-off (line 92): the loop without a
  limit spins on a machine that executes nothing, and nothing in the repository
  says when it should end.
* The duration of disk, flash and network operations. A completion is any later
  step, which covers every duration and so every order. The arithmetic that
  computes the durations (rotation, 32-bit products, `device.cc:886`,
  `event.cc:73`) is not covered.
* The reset of a core while the controller holds its requests
  (`processor.cc:275`): MIP is cleared, the lines stay low until a source raises
  again. `InterruptController` and `Machine` each keep the lines; their
  composition is beyond a run, and no text says what should happen.
* Accesses without a core (`machine.cc:117` reads the id of a null pointer when
  DMA or the clock hits a suspect) and the data race of the GDB threads on
  registers and memory (`gdb.cc:166`): undefined behaviour beyond the word it
  touches.
* Of the debug session: speed, settings, session files; of the GDB server: packet
  framing, checksums, register and memory packets; of the firmware: the panic
  messages; of the JSON library: strings' escapes, which it does not have, and
  fractions.
* Layout, painting, and wording of the Qt views and of the disassembler. The
  image tools (`elf2uriscv.cc`, `objdump.cc`) convert files of an external
  format, once, with nothing that happens over time.
* Failures of the host, such as an image file that cannot be read, end the
  simulator (`Panic`).

## 6. What else was seen

The models contain the following as the code has them. No property forbids
them, because nothing in the repository says otherwise or because the
consequence lies outside the models; they are listed for whoever works on the
code.

* *Instructions* (`Deviates`). AUIPC, LH, CSRRWI and FENCE do something else than
  the manual; DIV and REMU divide unsigned and DIVU and REM signed; SRA fills with
  zeros; MULHU loses a carry; LHU and SH at an odd address take another half;
  branches and JAL extend an offset from one bit too low; JALR and the CSR
  instructions with `rd = rs1` read the register after they have written it;
  CSRRW from `x0`. AMOSWAP goes to the bus untranslated. Unknown codes are illegal
  instructions, as in the manual: those of register instructions advance the
  program counter first, which the trap then replaces.
* *Disassembly* (`Misshown`). `mret` and `wfi` are shown as `ebreak`, `csrrci` is
  misspelled, conversions between the two floating-point formats show their source
  as an integer register, and the targets of branches and jumps are wrong beyond
  the bits whose sign is extended.
* *Processor.* RANDOM can be written and then be 0; TLBWR signals a change of
  INDEX; a store of a part of a word that cannot read it reports a load fault;
  `setPC` does not fetch anew; the timer runs with bit 6 of MIE while its interrupt
  is line 7 (`const.h:32`).
* *Firmware.* A program interrupted between the swap and the branch of the lock
  comes back with other values in t0 and t1 (run `ldst_incomplete`) and tries
  again; if its swap had found the lock free, or it is interrupted before the
  swap and stores what it came back with, the lock is never free again unless
  somebody releases it. EBREAK with an unknown service panics.
* *Images.* `mkdev` leaves a short image behind when it fails, which a device
  opens; it accepts more blocks than 32 bits of offset can tell apart; a number
  of the command line is cut to a word.
* *Bus.* A block may run from the BIOS data into the registers of the devices,
  and then issues commands half way; a core file that fills RAM exactly is
  refused (`memspace.cc:47`).
* *GDB server.* A continue that comes while the stepping thread is not waiting is
  lost (`gdb.cc:270`), an interrupt character behind a packet in one read too,
  and one that the server reports before the stepping thread looks. A wakeup
  without a signal steps the program while the debugger holds it
  (`gdb.cc:271`). A breakpoint that is removed while it is the last of the list
  stays in it, and the program goes on stopping there (`gdb.cc:189`). A client
  that disconnects is never accepted again.
* *Stop points.* With a symbol table for another address space no point moves,
  though its program has. A point whose new place overlaps another that has moved is
  dropped without notice.
* *Configuration.* `Save` truncates the file before it writes; strings are not
  escaped (`json.cc:240`), so a name with a quote makes a file that cannot be
  read; a floor that is no number ends the program (`machine_config.cc:68`); the
  dialog shows only powers of two as TLB sizes.

## 7. Where it could grow

A module that composes the interrupt controller with the cores of `Machine`;
times of disks in 32 bits; register and memory packets of the GDB server. Of the
proofs: the loading of symbol tables (`Table`), which is an assumption now; that
the search finds every symbol of a sorted table; that `Json` reads back what it
writes, for which its descent would have to be a recursive function.

## 8. Running

    tlc -workers 2 -config devices.cfg MCDevices
    tlapm EventQueueProofs.tla

Each configuration names its specification; `PROJECT.json` lists the module
it belongs to. The longest run takes about three minutes.
