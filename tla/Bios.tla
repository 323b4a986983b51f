---------------------------------- MODULE Bios ----------------------------------
(***************************************************************************)
(* The firmware and the guest library (support/bios/exec.S, coreboot.S and *)
(* support/liburiscv/liburiscv.S).  A trap enters the BIOS, which saves    *)
(* the state of the core in an area of its own in the BIOS data page and   *)
(* passes control up to the kernel; the kernel goes back to a program with *)
(* LDST or LDCXT, services of the BIOS that it calls with EBREAK; INITCPU  *)
(* starts another core with a state that is handed over through the area   *)
(* of that core; and programs use a spin lock of the library.              *)
(*                                                                         *)
(* A core executes blocks of instructions of the BIOS, which runs with     *)
(* interrupts off and touches only the area of its own core, and single    *)
(* instructions of a program, which may be interrupted before each.  Of    *)
(* the registers those that the BIOS uses itself are told apart, and s0    *)
(* stands for the others.  A value is a number: 0 and 1 are the lock's.    *)
(***************************************************************************)
EXTENDS Integers, FiniteSets

CONSTANTS Cpus          \* the cores, numbers; 0 boots the machine

VARIABLES
    core,       \* the registers of a core and the block it is about to run
    area,       \* the exception state areas of the BIOS data page
    vector,     \* BIOS_EXCPT_VECT_BASE: a register of each core
    starting,   \* the cores whose reset is on its way
    lock,       \* a word of memory
    held        \* history: the state in which a core left its program

vars == <<core, area, vector, starting, lock, held>>

Registers     == {"t0", "t1", "t6", "sp", "a0", "a1", "s0"}
Kept      == {"sp", "a0", "a1", "s0"}       \* those the BIOS does not use

(* Values that are neither of the lock: the program's own, the kernel's, and
   what the BIOS leaves in the registers it uses.  MIE has other bits set than
   the first, if any. *)
Own       == 2
Kernel    == 3
Pointer   == 4
MieValue  == 5
HandlerPC == 6
ReturnPC  == 7
Values    == 0..7 \cup Cpus         \* a core's number: its area

(* The services of EBREAK, in a0. *)
LDCXT == 0
LDST  == 1
HALT  == 3

(* Where a program is: elsewhere, before an instruction of ACQUIRE_LOCK, after
   them, or before the swap of RELEASE_LOCK. *)
Points == {"idle", "zero", "swap", "test", "inside", "release"}
Blocks == {"off", "boot", "prog", "dispatch", "save", "kernel", "load", "stop"}
Causes == {"int", "exc", "utlb", "refill", "break", "none"}
State  == [regs : [Registers -> Values], word0 : {"asid", "start"},
           cause : Causes, mpie : BOOLEAN, mpp : {"M", "U"},
           epc : Points \cup {"kernel"}, mie : BOOLEAN]
Nowhere == -1

CoreState == [block : Blocks, pc : Points, regs : [Registers -> Values],
              mode : {"M", "U"}, on : BOOLEAN, mpie : BOOLEAN, mpp : {"M", "U"},
              mepc : Points \cup {"kernel"}, mie : BOOLEAN, cause : Causes,
              k0 : Cpus \cup {Nowhere}, handler : {"general", "refill"}]

Left == [held : BOOLEAN, regs : [Registers -> Values], pc : Points,
         mode : {"M", "U"}, on : BOOLEAN, mie : BOOLEAN]

TypeOK ==
    /\ core \in [Cpus -> CoreState]
    /\ area \in [Cpus -> State]
    /\ vector \in [Cpus -> Cpus \cup {Nowhere}]
    /\ starting \subseteq Cpus
    /\ lock \in Values
    /\ held \in [Cpus -> Left]

AllOf(v) == [r \in Registers |-> v]

(* The state a kernel prepares for a program: interrupts will be on. *)
StartState == [regs |-> AllOf(Own), word0 |-> "asid", cause |-> "none",
               mpie |-> TRUE, mpp |-> "U", epc |-> "idle", mie |-> TRUE]

NotHeld == [held |-> FALSE, regs |-> AllOf(0), pc |-> "idle", mode |-> "M",
            on |-> FALSE, mie |-> FALSE]

Off == [block |-> "off", pc |-> "idle", regs |-> AllOf(0), mode |-> "M",
        on |-> FALSE, mpie |-> FALSE, mpp |-> "M", mepc |-> "kernel",
        mie |-> FALSE, cause |-> "none", k0 |-> Nowhere, handler |-> "general"]

(* coreboot has set the vectors of the first core and jumped to the kernel. *)
Init ==
    /\ core = [c \in Cpus |-> IF c = 0 THEN [Off EXCEPT !.block = "kernel"] ELSE Off]
    /\ area = [c \in Cpus |-> StartState]
    /\ vector = [c \in Cpus |-> IF c = 0 THEN 0 ELSE Nowhere]
    /\ starting = {}
    /\ lock = 0
    /\ held = [c \in Cpus |-> NotHeld]

Set(c, s) == core' = [core EXCEPT ![c] = s]

(* The area of a core: the size of a state times the number of the core. *)
SharedArea(c) == 0
AreaOf(c) == c

-----------------------------------------------------------------------------
(* Traps: what the processor does and then the BIOS *)

TrapOf(s, cause) ==
    [s EXCEPT !.block = "dispatch", !.cause = cause, !.mode = "M",
              !.mepc = IF s.block = "prog" THEN s.pc ELSE "kernel",
              !.mpp = s.mode, !.mpie = s.on, !.on = FALSE]

(* A program is left, wherever it is: an interrupt if they are on, or an
   exception. *)
Leave(c, cause) ==
    LET s == core[c] IN
    /\ s.block = "prog"
    /\ cause = "int" => s.on /\ s.mie
    /\ Set(c, TrapOf(s, cause))
    /\ held' = [held EXCEPT ![c] = [held |-> TRUE, regs |-> s.regs, pc |-> s.pc,
                        mode |-> s.mode, on |-> s.on, mie |-> s.mie]]
    /\ UNCHANGED <<area, vector, starting, lock>>

(* LDCXT: the status word, in a2, allows interrupts; the stack is as given. *)
Launched(s) ==
    [s EXCEPT !.regs = [@ EXCEPT !["t0"] = Pointer, !["t1"] = ReturnPC,
                                 !["sp"] = s.regs["a1"]],
              !.block = "prog", !.pc = "idle", !.mepc = "idle", !.mode = "U",
              !.on = TRUE, !.mpie = FALSE, !.mpp = "U"]

(* LEXCHandler: t0 and t1 are used to tell the causes apart.  A refill goes
   to the first handler of the pass up vector, the rest to the second. *)
Dispatch(c) ==
    LET s == core[c]
        used == [s EXCEPT !.regs["t0"] = Pointer, !.regs["t1"] = HandlerPC]
    IN
    /\ s.block = "dispatch"
    /\ \/ s.cause = "utlb"
          /\ Set(c, [used EXCEPT !.cause = "refill", !.handler = "refill",
                                 !.block = "save"])
       \/ s.cause \in {"int", "exc"}
          /\ Set(c, [used EXCEPT !.handler = "general", !.block = "save"])
       \/ s.cause = "break" /\ s.regs["a0"] = LDST
          /\ Set(c, [used EXCEPT !.k0 = s.regs["a1"], !.block = "load"])
       \/ s.cause = "break" /\ s.regs["a0"] = HALT
          /\ Set(c, [used EXCEPT !.block = "stop"])
       \/ s.cause = "break" /\ s.regs["a0"] = LDCXT
          /\ Set(c, Launched(s))
    /\ UNCHANGED <<area, vector, starting, lock, held>>

(* LSaveExcptAndJmp: of t0 and t1 the area gets what the BIOS last had in
   them. *)
Saved(s) ==
    [regs |-> [s.regs EXCEPT !["t0"] = Pointer, !["t1"] = MieValue],
     word0 |-> "asid", cause |-> s.cause, mpie |-> s.mpie, mpp |-> s.mpp,
     epc |-> s.mepc, mie |-> s.mie]

Save(c) ==
    LET s == core[c] IN
    /\ s.block = "save"
    /\ area' = [area EXCEPT ![vector[c]] = Saved(s)]
    /\ Set(c, [s EXCEPT !.k0 = vector[c], !.regs["t0"] = Pointer,
                 !.regs["t1"] = HandlerPC, !.regs["sp"] = Kernel,
                 !.mepc = "kernel", !.block = "kernel"])
    /\ UNCHANGED <<vector, starting, lock, held>>

(* LLoadStart: everything is loaded from the state in k0, with interrupts
   off until MRET; t6 carries MEPC over, through k1. *)
Loaded(s, m) ==
    [s EXCEPT !.block = "prog", !.regs = [m.regs EXCEPT !["t6"] = ReturnPC],
              !.cause = m.cause, !.mie = m.mie, !.mepc = m.epc,
              !.pc = IF m.epc = "kernel" THEN "idle" ELSE m.epc,
              !.mode = m.mpp, !.mpp = "U", !.on = m.mpie, !.mpie = FALSE]

Load(c) ==
    LET s == core[c] IN
    /\ s.block = "load"
    /\ Set(c, Loaded(s, area[s.k0]))
    /\ UNCHANGED <<area, vector, starting, lock, held>>

-----------------------------------------------------------------------------
(* The kernel, which has used every register since *)

AtKernel(c) == core[c].block = "kernel"

Called(s, service, arg) ==
    TrapOf([s EXCEPT !.regs = [AllOf(Kernel) EXCEPT !["a0"] = service,
                                                    !["a1"] = arg]], "break")

(* Back to the program that was left. *)
KernelLDST(c) ==
    /\ AtKernel(c) /\ held[c].held
    /\ Set(c, Called(core[c], LDST, AreaOf(c)))
    /\ UNCHANGED <<area, vector, starting, lock, held>>

(* To a new program. *)
KernelLDCXT(c) ==
    /\ AtKernel(c) /\ ~held[c].held
    /\ Set(c, Called([core[c] EXCEPT !.mie = TRUE], LDCXT, Kernel))
    /\ UNCHANGED <<area, vector, starting, lock, held>>

KernelHALT(c) ==
    /\ AtKernel(c)
    /\ Set(c, Called(core[c], HALT, 0))
    /\ UNCHANGED <<area, vector, starting, lock, held>>

(* INITCPU, for a core that does not run: the address of the state goes to
   the first word of the area that the core is going to use, and the reset
   is scheduled. *)
InitCPU(c, other) ==
    /\ AtKernel(c)
    /\ core[other].block = "off" /\ other \notin starting
    /\ area' = [area EXCEPT ![AreaOf(other)].word0 = "start"]
    /\ starting' = starting \cup {other}
    /\ UNCHANGED <<core, vector, lock, held>>

(* The reset takes place, and LInitSecondaryProcessor sets the vectors of the
   core and loads the state it finds the address of. *)
StartCPU(c) ==
    /\ c \in starting
    /\ starting' = starting \ {c}
    /\ Set(c, [Off EXCEPT !.block = "boot"])
    /\ UNCHANGED <<area, vector, lock, held>>

BootCPU(c) ==
    /\ core[c].block = "boot"
    /\ vector' = [vector EXCEPT ![c] = AreaOf(c)]
    /\ Set(c, IF area[AreaOf(c)].word0 = "start" THEN Loaded(core[c], StartState)
              ELSE [core[c] EXCEPT !.block = "stop"])
    /\ UNCHANGED <<area, starting, lock, held>>

-----------------------------------------------------------------------------
(* A program that uses the lock: ACQUIRE_LOCK and RELEASE_LOCK *)

At(c, pc) == core[c].block = "prog" /\ core[c].pc = pc
Forget(c) == held' = [held EXCEPT ![c] = NotHeld]

Goes(c, s) ==
    /\ Set(c, s)
    /\ Forget(c)
    /\ UNCHANGED <<area, vector, starting>>

SetT0(c, from, value, to) ==
    /\ At(c, from)
    /\ Goes(c, [core[c] EXCEPT !.regs["t0"] = value, !.pc = to])
    /\ UNCHANGED lock

PrepareAcquire(c) == SetT0(c, "idle", 1, "zero")
PrepareRelease(c) == SetT0(c, "inside", 0, "release")

Zero(c) ==
    /\ At(c, "zero")
    /\ Goes(c, [core[c] EXCEPT !.regs["t1"] = 0, !.pc = "swap"])
    /\ UNCHANGED lock

(* amoswap.w t0, t0, 0(a0) *)
SwapLock(c, from, to) ==
    /\ At(c, from)
    /\ lock' = core[c].regs["t0"]
    /\ Goes(c, [core[c] EXCEPT !.regs["t0"] = lock, !.pc = to])

Swap(c)    == SwapLock(c, "swap", "test")
Release(c) == SwapLock(c, "release", "idle")

Test(c) ==
    /\ At(c, "test")
    /\ Goes(c, [core[c] EXCEPT !.pc = IF core[c].regs["t0"] # core[c].regs["t1"]
                                      THEN "swap" ELSE "inside"])
    /\ UNCHANGED lock

Next == \E c \in Cpus :
    \/ \E cause \in {"int", "exc", "utlb"} : Leave(c, cause)
    \/ Dispatch(c) \/ Save(c) \/ Load(c)
    \/ KernelLDST(c) \/ KernelLDCXT(c) \/ KernelHALT(c)
    \/ \E other \in Cpus : InitCPU(c, other)
    \/ StartCPU(c) \/ BootCPU(c)
    \/ PrepareAcquire(c) \/ Zero(c) \/ Swap(c) \/ Test(c)
    \/ PrepareRelease(c) \/ Release(c)

Spec == Init /\ [][Next]_vars

-----------------------------------------------------------------------------

Resumed(c) == core[c].block = "prog" /\ held[c].held

SameControl(c) ==
    /\ core[c].pc = held[c].pc /\ core[c].mode = held[c].mode
    /\ core[c].on = held[c].on /\ core[c].mie = held[c].mie

(* A program that was left and is resumed with LDST goes on where it was, in
   its mode, with interrupts as they were, on its own stack and with every
   register that the BIOS does not use itself: no other core has touched the
   area its state was in meanwhile. *)
ResumesInPlace == \A c \in Cpus : Resumed(c) =>
    /\ SameControl(c)
    /\ \A r \in Kept : core[c].regs[r] = held[c].regs[r]

(* What the library's header says of LDST: the status of the processor is
   updated completely, every register a program had when it was left included.
   The BIOS saves t0 and t1 after it has used them, and carries MEPC over in
   t6. *)
RestoresCompletely == \A c \in Cpus : Resumed(c) =>
    SameControl(c) /\ core[c].regs = held[c].regs

(* A core that is started finds the state it was given: nothing is written
   to its area between INITCPU and the reset. *)
FindsItsState == \A c \in Cpus :
    c \in starting \/ core[c].block = "boot" => area[AreaOf(c)].word0 = "start"

(* Where the program of a core is, running or left and waiting for LDST. *)
PointOf(c) == IF core[c].block = "prog" THEN core[c].pc
              ELSE IF held[c].held THEN held[c].pc
              ELSE "idle"
Inside(c) == PointOf(c) \in {"inside", "release"}

(* The lock of the library excludes, though programs are interrupted between
   any two instructions that deal with it and come back with other values in
   t0 and t1; and it is not free while somebody is inside. *)
MutualExclusion ==
    /\ \A c, d \in Cpus : Inside(c) /\ Inside(d) => c = d
    /\ \A c \in Cpus : Inside(c) => lock # 0

BiosInv == TypeOK /\ ResumesInPlace /\ FindsItsState /\ MutualExclusion
=============================================================================
