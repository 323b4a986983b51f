------------------------------- MODULE Processor -------------------------------
(***************************************************************************)
(* A core (uriscv/processor.cc).  A cycle executes the instruction that    *)
(* the one before has fetched, takes an exception or an interrupt, moves   *)
(* the three program counters on and fetches the next instruction, in that *)
(* order.  A fetch that fails raises an exception as well, and the next    *)
(* cycle executes nothing.                                                 *)
(*                                                                         *)
(* Memory is left out: the instruction that was fetched from an address    *)
(* may be any.  What an instruction does to control - the program counter, *)
(* the mode, the interrupt state, the table of translations - is modelled; *)
(* what it computes is the subject of module Instructions.                 *)
(***************************************************************************)
EXTENDS TLB

CONSTANTS
    Backed,        \* the physical addresses behind which there is something
    BootPCs,       \* where a reset starts the core
    Targets,       \* bound: the addresses guests jump to, read and write
    MtvecValues,   \* bound: the values written to MTVEC
    EntryHis,      \* bound: ... to ENTRYHI
    EntryLos,      \* bound: ... to ENTRYLO
    MieValues,     \* bound: ... to MIE
    StatusValues,  \* bound: ... to MSTATUS, as <<mie, mpie, mpp>>
    Lines,         \* the interrupt lines
    W              \* number of values of TIME (2^32)

IL_CPUTIMER == 7
MTIE        == 6        \* MIE_MTIE_MASK: the bit that lets the timer run

EXC_IAF == 1
EXC_II  == 2
EXC_BP  == 3
EXC_ECU == 8
EXC_ECM == 11

(* Bit 31 of MCAUSE tells an interrupt from an exception. *)
Interrupt(l) == -l

ExecFaults == {EXC_II, EXC_BP, EXC_ECU, EXC_ECM} \cup AddressFaults
                    \cup TableFaults
Causes     == ExecFaults \cup {EXC_IAF} \cup {Interrupt(l) : l \in Lines}

Mtvec(v) == v \div 4    \* the handler of a value of MTVEC

ASSUME ProcessorAssumption ==
    /\ Backed \subseteq Addr
    /\ Targets \subseteq Addr
    /\ BootPCs \subseteq {a \in Backed : ~BADADDR(a) /\ Direct(a)}
    /\ MtvecValues \subseteq Nat
    /\ \A v \in MtvecValues \cup {0} : Mtvec(v) \in Addr
    /\ EntryHis \subseteq EntryHi /\ EntryLos \subseteq EntryLo
    /\ Lines \subseteq 1..31 /\ IL_CPUTIMER \in Lines
    /\ MieValues \subseteq SUBSET (Lines \cup {MTIE})
    /\ StatusValues \subseteq BOOLEAN \X BOOLEAN \X {"M", "U"}
    /\ W \in Nat \ {0}

VARIABLES
    cpu,       \* the registers of the core
    tlb,       \* its translations
    fetched    \* the instruction it holds: where it was read, in which mode

vars == <<cpu, tlb, fetched>>

Core == [status    : {"RUNNING", "IDLE", "HALTED"},
         mode      : {"M", "U"},
         pc        : Addr, next : Addr, succ : Addr,
         skipCycle : BOOLEAN,                  \* the fetch has failed
         mie       : BOOLEAN, mpie : BOOLEAN,  \* MSTATUS
         mpp       : {"M", "U"},
         mepc      : Addr,
         mcause    : Causes \cup {NOEXCEPTION},
         mtvec     : MtvecValues \cup {0},
         lines     : SUBSET (Lines \cup {MTIE}),  \* MIE
         mip       : SUBSET Lines,
         time      : 0..(W - 1),
         entryHi   : EntryHi,
         entryLo   : EntryLo,
         index     : Index \cup {-1},          \* -1: the probe has failed
         random    : Index]

(* What fetched holds: the virtual and the physical address the instruction
   was read from, the mode it was read in, and whether it is known to be a
   WFI, as the core is stalled in it. *)
Fetched == [at : Addr, phys : Addr, mode : {"M", "U"}, wfi : BOOLEAN]

TypeOK ==
    /\ cpu \in Core
    /\ tlb \in [Index -> Entry]
    /\ fetched \in Fetched

Plus(a, n) == (a + n) % Space
Vector(c)  == Mtvec(c.mtvec)

-----------------------------------------------------------------------------
(* The parts of a cycle, as functions of the registers *)

(* RANDOM goes through every index, downwards. *)
RandomTick(r) == (r - 1) % TlbSize

Woken(status) == IF status = "IDLE" THEN "RUNNING" ELSE status

Asserted(c, l)   == [c EXCEPT !.mip = @ \cup {l}, !.status = Woken(@)]
Deasserted(c, l) == [c EXCEPT !.mip = @ \ {l}]

(* The timer of the core runs while a bit of MIE is set. *)
Ticked(c) ==
    IF MTIE \in c.lines
    THEN LET rung == IF c.time = 0 THEN Asserted(c, IL_CPUTIMER) ELSE c
         IN  [rung EXCEPT !.time = (c.time - 1) % W]
    ELSE Deasserted(c, IL_CPUTIMER)

(* The stack of MSTATUS. *)
Pushed(c) == [c EXCEPT !.mpie = c.mie, !.mie = FALSE,
                       !.mpp = c.mode, !.mode = "M"]
Popped(c) == [c EXCEPT !.mie = c.mpie, !.mpie = FALSE,
                       !.mode = c.mpp, !.mpp = "U"]

(* An exception is handled in the next cycle, as this one has still to move
   the program counters on; an interrupt is seen after they have moved. *)
Excepted(c, cause) ==
    [Pushed(c) EXCEPT !.mcause = cause, !.mepc = c.pc,
                      !.next = Vector(c), !.succ = Plus(Vector(c), WORDLEN)]
TrapEntry(c, cause) ==
    [Pushed(c) EXCEPT !.mcause = cause, !.mepc = c.pc, !.pc = Vector(c),
                      !.next = Plus(Vector(c), WORDLEN),
                      !.succ = Plus(Vector(c), 2 * WORDLEN)]
(* A plausible bug: the address of the instruction after the one not executed
   yet is saved. *)
InterruptedLate(c, line) ==
    [TrapEntry(c, Interrupt(line)) EXCEPT !.mepc = Plus(c.pc, WORDLEN)]
Interrupted(c, line) == TrapEntry(c, Interrupt(line))

(* An access that fails: the exceptions of the table tell the handler which
   page to bring in, and leave ENTRYLO as it was. *)
Faulted(c, a, cause) ==
    Excepted(IF cause \in TableFaults THEN [c EXCEPT !.entryHi.vpn = VPN(a)]
             ELSE c, cause)

Advanced(c) ==
    [c EXCEPT !.random = RandomTick(@), !.pc = c.next, !.next = c.succ,
              !.succ = Plus(@, WORDLEN)]

(* The interrupt taken is the highest one that is pending and enabled. *)
Pending(c) == c.mip \cap c.lines
(* A plausible bug: interrupts are looked for only in user mode. *)
CheckedInUser(c) ==
    IF c.mie /\ c.mode = "U" /\ Pending(c) # {}
    THEN Interrupted(c, Max(Pending(c))) ELSE c
Checked(c) == IF c.mie /\ Pending(c) # {} THEN Interrupted(c, Max(Pending(c)))
              ELSE c

(* The fetch: a copy of the instruction at pc, or an exception and a cycle
   that executes nothing. *)
FetchFault(c, t) ==
    LET f == Fault(t, c.entryHi.asid, c.mode = "U", c.pc, "EXEC")
    IN  IF f # NOEXCEPTION THEN f
        ELSE IF Physical(t, c.entryHi.asid, c.pc) \in Backed THEN NOEXCEPTION
        ELSE EXC_IAF

AfterFetch(c, t) ==
    LET f == FetchFault(c, t)
    IN  CASE f = NOEXCEPTION -> [c EXCEPT !.skipCycle = FALSE]
          [] f = EXC_IAF  -> [Excepted(c, EXC_IAF) EXCEPT !.skipCycle = TRUE]
          [] OTHER      -> [Faulted(c, c.pc, f) EXCEPT !.skipCycle = TRUE]

Read(c, t) == [at |-> c.pc, phys |-> Physical(t, c.entryHi.asid, c.pc),
               mode |-> c.mode, wfi |-> FALSE]

-----------------------------------------------------------------------------

InitCore == [status |-> "HALTED", mode |-> "M", pc |-> 0, next |-> 0,
             succ |-> 0, skipCycle |-> FALSE, mie |-> FALSE, mpie |-> FALSE,
             mpp |-> "U", mepc |-> 0, mcause |-> NOEXCEPTION, mtvec |-> 0,
             lines |-> {}, mip |-> {}, time |-> 0,
             entryHi |-> [vpn |-> 0, asid |-> 0],
             entryLo |-> [pfn |-> 0, g |-> FALSE, v |-> FALSE, d |-> FALSE],
             index |-> 0, random |-> 0]

Init ==
    /\ cpu = InitCore
    /\ tlb = [i \in Index |-> Blank]
    /\ fetched = [at |-> 0, phys |-> 0, mode |-> "M", wfi |-> FALSE]

(* MPP says machine mode after a reset; the table and MEPC are left as they
   are. *)
Reset(pc) ==
    LET c == [cpu EXCEPT !.status = "RUNNING", !.mode = "M", !.pc = pc,
                 !.next = Plus(pc, WORDLEN), !.succ = Plus(pc, 2 * WORDLEN),
                 !.skipCycle = FALSE, !.mie = FALSE, !.mpie = FALSE,
                 !.mpp = "M", !.mcause = NOEXCEPTION, !.mtvec = 0, !.lines = {},
                 !.mip = {}, !.time = 0,
                 !.entryHi = InitCore.entryHi, !.entryLo = InitCore.entryLo,
                 !.index = 0, !.random = (TlbSize - 2) % TlbSize]
    IN  /\ cpu' = c
        /\ fetched' = Read(c, tlb)
        /\ UNCHANGED tlb

Halt ==
    /\ cpu' = [cpu EXCEPT !.status = "HALTED"]
    /\ UNCHANGED <<tlb, fetched>>

AssertIRQ(l) ==
    /\ cpu' = Asserted(cpu, l)
    /\ UNCHANGED <<tlb, fetched>>

DeassertIRQ(l) ==
    /\ cpu' = Deasserted(cpu, l)
    /\ UNCHANGED <<tlb, fetched>>

(* The core sleeps: only its timer runs. *)
Sleeps ==
    /\ cpu.status # "HALTED"
    /\ Ticked(cpu).status = "IDLE"
    /\ cpu' = Ticked(cpu)
    /\ UNCHANGED <<tlb, fetched>>

(* What a cycle does once the instruction has been executed, with the
   registers and the table it has left.  A plausible bug: the fetch goes by
   the table of before. *)
CompleteStale(c, t) ==
    LET d == Checked(Advanced(c))
        e == AfterFetch(d, tlb)
    IN  /\ cpu' = e
        /\ tlb' = t
        /\ fetched' = IF e.skipCycle THEN fetched ELSE Read(d, tlb)
Complete(c, t) ==
    LET d == Checked(Advanced(c))
        e == AfterFetch(d, t)
    IN  /\ cpu' = e
        /\ tlb' = t
        /\ fetched' = IF e.skipCycle THEN fetched ELSE Read(d, t)

-----------------------------------------------------------------------------
(* The instructions: each leaves in next where the program goes on *)

Runs == /\ cpu.status # "HALTED"
        /\ Ticked(cpu).status = "RUNNING"

Executes == Runs /\ ~cpu.skipCycle /\ ~fetched.wfi

InUserMode == cpu.mode = "U"

On(c) == [c EXCEPT !.next = Plus(c.pc, WORDLEN)]

Nullified == Runs /\ cpu.skipCycle /\ Complete(Ticked(cpu), tlb)

Compute == Executes /\ Complete(On(Ticked(cpu)), tlb)

Jump(a) == Executes /\ Complete([Ticked(cpu) EXCEPT !.next = a], tlb)

(* A load or a store of a word, or of a part of one: the address of a part
   is rounded down, and a store of a part reads the word first.  The bus
   knows reads and writes of an address that does not exist apart. *)
Access(a, acc, onTheBus) ==
    /\ Executes
    /\ LET c == Ticked(cpu)
           f == Fault(tlb, c.entryHi.asid, InUserMode, a, acc)
       IN  Complete(CASE f # NOEXCEPTION -> Faulted(c, a, f)
                      [] f = NOEXCEPTION /\ Physical(tlb, c.entryHi.asid, a) \in Backed
                                 -> On(c)
                      [] OTHER -> Excepted(c, onTheBus), tlb)

Load(a)      == Access(a, "READ", EXC_LAF)
LoadPart(a)  == Access(ALIGN(a), "READ", EXC_LAF)
Store(a)     == Access(a, "WRITE", EXC_SAF)
StorePart(a) == Access(ALIGN(a), "WRITE", EXC_LAF)

Illegal == Executes /\ Complete(Excepted(Ticked(cpu), EXC_II), tlb)

Ecall == Executes /\ Complete(Excepted(Ticked(cpu),
                              IF InUserMode THEN EXC_ECU ELSE EXC_ECM), tlb)

Ebreak == Executes /\ Complete(Excepted(Ticked(cpu), EXC_BP), tlb)

Mret == Executes /\ LET c == Popped(Ticked(cpu))
                    IN  Complete([c EXCEPT !.next = c.mepc], tlb)

(* WFI: with no interrupt pending the cycle ends here, and the same
   instruction is executed again when the core wakes up. *)
Wfi ==
    /\ Runs /\ ~cpu.skipCycle
    /\ LET c == On(Ticked(cpu))
       IN  IF c.mip = {}
           THEN /\ cpu' = [c EXCEPT !.status = "IDLE"]
                /\ fetched' = [fetched EXCEPT !.wfi = TRUE]
                /\ UNCHANGED tlb
           ELSE Complete(c, tlb)

(* The instructions of the table.  The index of a failed probe reads as 0. *)
RNDIDX(i) == IF i = -1 THEN 0 ELSE i

Tlbp ==
    /\ Executes
    /\ LET c     == On(Ticked(cpu))
           found == Matches(tlb, c.entryHi.asid, c.entryHi.vpn)
       IN  Complete([c EXCEPT !.index = IF found = {} THEN -1 ELSE Max(found)],
                    tlb)

Tlbr ==
    /\ Executes
    /\ LET c == On(Ticked(cpu))
           e == tlb[RNDIDX(c.index)]
       IN  Complete([c EXCEPT !.entryHi = HiOf(e), !.entryLo = LoOf(e)], tlb)

TlbWrite(c, i) ==
    Complete(c, [tlb EXCEPT ![i] = EntryOf(c.entryHi, c.entryLo)])

Tlbwi  == Executes /\ TlbWrite(On(Ticked(cpu)), RNDIDX(cpu.index))
Tlbwr  == Executes /\ TlbWrite(On(Ticked(cpu)), cpu.random)
Tlbclr == Executes /\ Complete(On(Ticked(cpu)), Zapped(tlb))

(* Writes of control registers: no permission is checked.  The index of a
   guest stays within the table; MIP, which devices write as well, and the
   registers that the core itself never reads are left out. *)
Csr(c) == Executes /\ Complete(On(c), tlb)

WriteStatus(s) ==
    Csr([Ticked(cpu) EXCEPT !.mie = s[1], !.mpie = s[2], !.mpp = s[3]])
WriteMepc(a)     == Csr([Ticked(cpu) EXCEPT !.mepc = a])
WriteMtvec(v)    == Csr([Ticked(cpu) EXCEPT !.mtvec = v])
WriteMie(s)      == Csr([Ticked(cpu) EXCEPT !.lines = s])
WriteTime(v)     == Csr(Deasserted([Ticked(cpu) EXCEPT !.time = v], IL_CPUTIMER))
WriteEntryHi(hi) == Csr([Ticked(cpu) EXCEPT !.entryHi = hi])
WriteEntryLo(lo) == Csr([Ticked(cpu) EXCEPT !.entryLo = lo])
WriteIndex(i)    == Csr([Ticked(cpu) EXCEPT !.index = i])
WriteRandom(i)   == Csr([Ticked(cpu) EXCEPT !.random = i])

ControlNext ==
    \/ Nullified \/ Compute \/ Illegal \/ Ecall \/ Ebreak \/ Mret \/ Wfi
    \/ \E a \in Targets : Jump(a) \/ Load(a) \/ Store(a) \/ LoadPart(a)
                            \/ StorePart(a)
    \/ \E s \in StatusValues : WriteStatus(s)
    \/ \E a \in Targets : WriteMepc(a)
    \/ \E v \in MtvecValues : WriteMtvec(v)
    \/ \E s \in MieValues : WriteMie(s)
    \/ \E v \in 0..(W - 1) : WriteTime(v)

TableNext ==
    \/ Tlbp \/ Tlbr \/ Tlbwi \/ Tlbwr \/ Tlbclr
    \/ \E hi \in EntryHis : WriteEntryHi(hi)
    \/ \E lo \in EntryLos : WriteEntryLo(lo)
    \/ \E i \in Index : WriteIndex(i) \/ WriteRandom(i)

Next ==
    \/ ControlNext
    \/ TableNext
    \/ Sleeps
    \/ \E pc \in BootPCs : Reset(pc)
    \/ Halt
    \/ \E l \in Lines : AssertIRQ(l) \/ DeassertIRQ(l)

Spec == Init /\ [][Next]_vars

-----------------------------------------------------------------------------

(* The instruction that the next cycle will execute is the one the program
   counter points to, read in the mode the core is in, and through the
   translation that is in force now: what an instruction does to the mode,
   to the address space and to the table is seen by the fetch of the next
   one. *)
FetchedHere ==
    cpu.status # "HALTED" /\ ~cpu.skipCycle =>
        /\ fetched.at = cpu.pc
        /\ fetched.mode = cpu.mode
        /\ FetchFault(cpu, tlb) = NOEXCEPTION
        /\ fetched.phys = Physical(tlb, cpu.entryHi.asid, cpu.pc)

(* When a fetch has failed, the cycle that executes nothing goes to the
   handler, and no interrupt can come in between and overwrite MEPC. *)
NullifiedGoesToHandler ==
    cpu.skipCycle => cpu.next = Vector(cpu) /\ cpu.mode = "M" /\ ~cpu.mie

(* A core sleeps in a WFI that it has not got past, with no interrupt at
   its pins. *)
SleepsInWfi ==
    cpu.status = "IDLE" => cpu.mip = {} /\ fetched.wfi /\ ~cpu.skipCycle

(* The pipeline of Processor::Cycle never executes an instruction that is
   not the one at the program counter; whatever it holds back is about a
   trap it has taken. *)
PipelineInv == TypeOK /\ FetchedHere /\ NullifiedGoesToHandler /\ SleepsInWfi

(* No instruction is executed while an interrupt that was pending at the
   end of the one before is enabled: a cycle that leaves interrupts on has
   taken the one there was. *)
InterruptsAreTaken ==
    [][fetched' # fetched => ~(cpu'.mie /\ Pending(cpu') # {})]_vars

(* To the program the counters, the copy of the instruction and the cycle
   that executes nothing are invisible: all traps are precise. *)
Architecture == INSTANCE Hart WITH
    Targets <- Targets \cup BootPCs,
    Vectors <- {Mtvec(v) : v \in MtvecValues},
    FetchFaults <- {EXC_IAF, EXC_LAF, EXC_TLBL, EXC_UTLBL},
    Lines <- {Interrupt(l) : l \in Lines},
    status <- cpu.status,
    hart <- [pc     |-> IF cpu.skipCycle THEN cpu.next ELSE cpu.pc,
             mode   |-> cpu.mode, mie |-> cpu.mie, mpie |-> cpu.mpie,
             mpp    |-> cpu.mpp, mepc |-> cpu.mepc, mcause |-> cpu.mcause,
             vector |-> Vector(cpu)]
ImplementsHart == Architecture!Spec
=============================================================================
