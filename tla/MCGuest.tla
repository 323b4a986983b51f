-------------------------------- MODULE MCGuest --------------------------------
(***************************************************************************)
(* For TLC: how a core runs a guest.  A behaviour exercises the control    *)
(* registers of a core, with a table that was filled before, or its table, *)
(* with interrupts off, or the firmware, or one instruction of a program.  *)
(***************************************************************************)
EXTENDS Guest

CONSTANTS Scenarios         \* of "control", "table", "firmware", "program"

VARIABLES scenario

mcVars == <<vars, biosVars, programVars, scenario>>

(* The fields of instructions. *)
Fields == INSTANCE Isa

(* Pages 0 to 2 are not translated, and nothing is behind page 0; page 3 is
   the user's and mapped to page 1. *)
Code == [vpn |-> 3, asid |-> 0, pfn |-> 1, g |-> FALSE, v |-> TRUE, d |-> FALSE]

MCEntryHis == {[vpn |-> 3, asid |-> 1]}
MCEntryLos == {[pfn |-> 1, g |-> FALSE, v |-> TRUE, d |-> FALSE],
               [pfn |-> 0, g |-> TRUE, v |-> FALSE, d |-> TRUE]}

MCStatusValues == {<<TRUE, FALSE, "M">>, <<FALSE, TRUE, "U">>}

ControlScenario ==
    \/ ControlNext
    \/ AssertIRQ(3) \/ DeassertIRQ(3)
    \/ WriteRandom(0)

TableScenario ==
    \/ Tlbp \/ Tlbr \/ Tlbwi \/ Tlbwr \/ Tlbclr
    \/ \E hi \in EntryHis : WriteEntryHi(hi)
    \/ \E lo \in EntryLos : WriteEntryLo(lo)
    \/ WriteIndex(1)
    \/ Nullified
    \/ Jump(4) \/ Jump(12) \/ Store(12)

-----------------------------------------------------------------------------
(* Words of 4 bits: every operand of every instruction that works on
   registers, every word with every part of it. *)
I(ops, rds, f3s, rs1s, rs2s, f7s) ==
    [op : ops, rd : rds, f3 : f3s, rs1 : rs1s, rs2 : rs2s, f7 : f7s]

F3 == 0 .. 7
Family(instrs, values, cells, bus) ==
    [instrs |-> instrs, values |-> values, cells |-> cells, bus |-> bus]

MCInputs ==
    { \* registers with registers, registers with immediates
      Family(I({Fields!OP}, {0, 1, 2}, F3, {1}, {2}, {0, 1, 2, 32}), Fields!Word, {0}, {TRUE}),
      Family(I({Fields!OP_IMM}, {1, 2}, F3, {1}, 0 .. 3, {0, 32, 127}), Fields!Word, {0}, {TRUE}),
      \* branches, on both sides of the limits of their offsets
      Family(I({Fields!BRANCH}, {0, 1, 8, 30, 31}, F3, {1}, {2},
               {0, 1, 63, 64, 65, 127}), Fields!Word, {0}, {TRUE}),
      Family(I({Fields!JAL, Fields!JALR, Fields!LUI, Fields!AUIPC}, {0, 1, 2}, {0, 7}, {0, 1}, {0, 3, 31},
               {0, 1, 63, 64, 127}), {0, 3, 14}, {0}, {TRUE}),
      \* memory
      Family(I({Fields!LOAD}, {0, 1, 2}, F3, {0, 1}, 0 .. 3, {0}), {0, 1, 15}, Fields!Word,
             BOOLEAN),
      Family(I({Fields!STORE}, 0 .. 3, F3, {0, 1}, {1, 2}, {0, 127}), {0, 1, 7, 14}, {0, 9, 15},
             BOOLEAN),
      Family(I({Fields!AMO}, {0, 1, 2}, {0, 2}, {1}, {2}, {0} \cup 4 .. 7), {0, 5, 15}, Fields!Word,
             BOOLEAN),
      \* control and status registers, and what uriscv does not execute
      Family(I({Fields!SYSTEM}, {0, 1, 2}, 1 .. 7, 0 .. 2, {0}, {24}), {0, 1, 6, 15}, Fields!Word,
             {TRUE}),
      Family(I({Fields!SYSTEM}, {0}, {0}, {0}, {0, 1}, {0}), {0}, {0}, {TRUE}),
      Family(I({Fields!FENCE}, {0, 1}, {0}, {0, 1}, {0, 16, 19}, {0, 1, 65}),
             {0}, {0}, {TRUE}),
      Family(I({Fields!OP_FP, Fields!MADD, Fields!MSUB, Fields!NMSUB, Fields!NMADD, Fields!LOAD_FP, Fields!STORE_FP, 0}, {0, 1}, F3,
               {1}, {0, 1, 2}, 0 .. 127), {0}, {0}, {TRUE}) }
-----------------------------------------------------------------------------

NoInstr == [op |-> 0, rd |-> 0, f3 |-> 0, rs1 |-> 0, rs2 |-> 0, f7 |-> 0]

Registers == scenario \in {"control", "table"}

MCInit ==
    /\ scenario \in Scenarios
    /\ cpu = InitCore
    /\ fetched = [at |-> 0, phys |-> 0, mode |-> "M", wfi |-> FALSE]
    /\ tlb = [i \in Index |-> IF scenario = "control" /\ i = 1 THEN Code ELSE Blank]
    /\ BIOS!Init
    /\ IF scenario = "program" THEN Manual!Init
       ELSE /\ instr = NoInstr /\ gpr = <<>> /\ cell = 0 /\ works = FALSE
            /\ counter = 0 /\ exc = "none"

ProcessorStep ==
    /\ \/ scenario = "control" /\ ControlScenario
       \/ scenario = "table" /\ TableScenario
       \/ Registers /\ (Sleeps \/ Halt \/ \E boot \in BootPCs : Reset(boot))
    /\ UNCHANGED <<biosVars, programVars, scenario>>

FirmwareStep == /\ scenario = "firmware" /\ BIOS!Next
                /\ UNCHANGED <<vars, programVars, scenario>>
ProgramStep == /\ scenario = "program" /\ Manual!Next
               /\ UNCHANGED <<vars, biosVars, scenario>>

MCNext == ProcessorStep \/ FirmwareStep \/ ProgramStep

(* Of the firmware: the registers of a core that are read before they are
   written again, and the areas while the state of a program is in one. *)
Traps(s)  == s.block \in {"dispatch", "save"}
Waiting   == \E c \in Cores : held[c].held /\ core[c].block # "prog"
Used(s)   ==
    CASE s.block = "prog" /\ s.pc \in {"zero", "swap", "test", "release"} -> {"t0", "t1"}
      [] OTHER -> {}
LiveCore(s) ==
    <<s.block, s.pc, s.mode, s.on, s.mie,
      IF s.block \in {"prog", "dispatch", "save"}
      THEN [r \in BIOS!Kept \cup Used(s) |-> s.regs[r]] ELSE <<>>,
      IF Traps(s) THEN <<s.cause, s.mpie, s.mpp, s.mepc>> ELSE <<>>,
      IF s.block = "load" THEN s.k0 ELSE 0>>
FirmwareView ==
    <<[c \in Cores |-> LiveCore(core[c])],
      [c \in Cores |-> IF Waiting THEN [area[c] EXCEPT !.cause = "none"] ELSE area[c].word0],
      vector, starting, lock,
      [c \in Cores |-> [held[c] EXCEPT !.regs = [r \in BIOS!Kept |-> @[r]]]]>>

(* No step reads MCAUSE, nor MEPC where there is no MRET, nor the copy of an
   instruction that the fetch did not replace: states that differ in those
   only are one. *)
MCView ==
    <<[cpu EXCEPT !.mcause = NOEXCEPTION,
                  !.mepc = IF scenario = "table" THEN 0 ELSE @],
      tlb, IF cpu.skipCycle THEN {} ELSE {fetched}, FirmwareView, programVars, scenario>>

MCSpec == MCInit /\ [][MCNext]_mcVars
=============================================================================
