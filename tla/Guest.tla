--------------------------------- MODULE Guest ---------------------------------
(***************************************************************************)
(* A core of the machine (Processor) next to the firmware that cores run   *)
(* (Bios) and to one instruction of a program (Disassembler, which extends *)
(* Instructions): what the guest is given by the three.  They share no     *)
(* state: Bios has its own view of the registers it uses, and Instructions *)
(* knows of the core only whether an access succeeds.                      *)
(***************************************************************************)
EXTENDS Processor

CONSTANTS
    Cores,                              \* those that the firmware runs on
    B, UShift, Base, Regs, Inputs       \* see Isa and Instructions

VARIABLES
    core, area, vector, starting, lock, held,           \* see Bios
    instr, gpr, cell, works, counter, exc               \* see Instructions

biosVars    == <<core, area, vector, starting, lock, held>>
programVars == <<instr, gpr, cell, works, counter, exc>>

BIOS   == INSTANCE Bios WITH Cpus <- Cores
Manual == INSTANCE Disassembler WITH regs <- gpr, pc <- counter

(* The fields of an instruction are in range, words have w bits, and the   *)
(* registers that an instruction names exist.                              *)
Executable(i) ==
    /\ i \in Manual!Instruction
    /\ i.rs1 \in Regs
    /\ i.op \in {Manual!OP, Manual!BRANCH, Manual!STORE, Manual!AMO} => i.rs2 \in Regs

ASSUME ProgramAssumption ==
    /\ B \in Nat \ {0} /\ UShift \in Nat /\ Base \in Nat
    /\ 0 \in Regs
    /\ \A f \in Inputs :
          /\ \A i \in f.instrs : Executable(i)
          /\ f.values \subseteq Manual!Word /\ f.cells \subseteq Manual!Word
          /\ f.bus \subseteq BOOLEAN

(* What the firmware owes to programs: see Bios. *)
BiosInv == BIOS!BiosInv

(* What programs are owed by the processor and by what shows them: see     *)
(* Instructions and Disassembler.                                          *)
RunsTheManual == Manual!RunsTheManual
ShowsWhatRuns == Manual!ShowsWhatRuns
=============================================================================
