------------------------------ MODULE Disassembler ------------------------------
(***************************************************************************)
(* The text of an instruction (StrInstr in uriscv/disassemble.cc), which   *)
(* the code view, the execution trace and the object dump show: a name and *)
(* the operands in the order in which they are printed.  Layout is left    *)
(* out.  The tables of names are indexed by fields of the instruction; one *)
(* that runs over the end of its table prints what lies there, "?" here,   *)
(* and the empty name is "blank".                                          *)
(***************************************************************************)
EXTENDS Instructions

Unrecognised == <<"unknown instruction">>

At(table, k) == IF k < Len(table) THEN table[k + 1] ELSE "?"

RInstrName == << <<"add", "mul", "sub">>, <<"sll", "mulh">>, <<"slt", "mulhsu">>,
                 <<"sltu", "mulhu">>, <<"xor", "div">>, <<"srl", "divu", "sra">>,
                 <<"or", "rem">>, <<"and", "remu">> >>

(* 0x20, of sub and sra, is the third column. *)
StrRInstr(i) ==
    LET column == IF i.f7 = 32 THEN 2 ELSE i.f7
    IN  IF column > 2 THEN Unrecognised
        ELSE <<At(RInstrName[i.f3 + 1], column), X(i.rd), X(i.rs1), X(i.rs2)>>

StrAInstr(i) == IF i.f7 \in 4 .. 7
                THEN <<"amoswap", X(i.rd), X(i.rs2), X(i.rs1)>> ELSE Unrecognised

loadInstrName == <<"lb", "lh", "lw", "blank", "lbu", "lhu">>

StrLoadInstr(i) ==
    <<At(loadInstrName, i.f3), X(i.rd),
      Imm(SIGN_EXTENSION(I_IMM(i), I_IMM_SIZE)), X(i.rs1)>>

IInstrName == <<"addi", "slli", "slti", "sltiu", "xori", "blank", "ori", "andi", "slli">>

(* addi has three short forms. *)
StrNonLoadIInstr(i) ==
    LET imm == SIGN_EXTENSION(I_IMM(i), I_IMM_SIZE)
    IN  CASE i.f3 = 0 /\ i.rd = 0 /\ i.rs1 = 0 /\ imm = 0 -> <<"nop">>
          [] i.f3 = 0 /\ i.rs1 = 0 /\ ~(i.rd = 0 /\ imm = 0) ->
                 <<"li", X(i.rd), Imm(imm)>>
          [] i.f3 = 0 /\ i.rs1 # 0 /\ imm = 0 -> <<"mv", X(i.rd), X(i.rs1)>>
          [] i.f3 = 1 -> <<"slli", X(i.rd), X(i.rs1), Imm(i.rs2)>>
          [] i.f3 = 5 -> <<IF i.f7 = 0 THEN "srli" ELSE "srai", X(i.rd), X(i.rs1),
                           Imm(i.rs2)>>
          [] OTHER    -> <<At(IInstrName, i.f3), X(i.rd), X(i.rs1), Imm(imm)>>

SInstrName == <<"sb", "sh", "sw">>

StrSInstr(i) ==
    IF i.f3 > 2 THEN Unrecognised
    ELSE <<At(SInstrName, i.f3), X(i.rs2),
           Imm(SIGN_EXTENSION(S_IMM(i), S_IMM_SIZE)), X(i.rs1)>>

(* Without the gap of the two codes no branch has. *)
BInstrNamePacked == <<"beq", "bne", "blt", "bge", "bltu", "bgeu", "blank", "blank">>

BInstrName == <<"beq", "bne", "blank", "blank", "blt", "bge", "bltu", "bgeu">>

StrBInstr(i) ==
    <<At(BInstrName, i.f3), X(i.rs1), X(i.rs2),
      Imm(SIGN_EXTENSION(B_IMM(i), I_IMM_SIZE))>>

CSRInstrName == <<"blank", "csrrw", "csrrs", "csrrc", "blank", "csrrwi", "csrrsi", "cssrci">>

StrCSRInstr(i) ==
    <<At(CSRInstrName, i.f3), X(i.rd), CSR(I_IMM(i)),
      IF i.f3 < 4 THEN X(i.rs1) ELSE Imm(i.rs1)>>

----------------------------------------------------------------------------
(* Floating point: the lowest bits of FUNC7 select the format. *)
Sd(i, single, double) == IF i.f7 % 4 = 0 THEN single ELSE double

Arithmetic == {0, 1, 4, 5, 8, 9, 12, 13}

StrFloatArithm(i) ==
    <<CASE i.f7 \in {0, 1}   -> Sd(i, "fadd.s", "fadd.d")
        [] i.f7 \in {4, 5}   -> Sd(i, "fsub.s", "fsub.d")
        [] i.f7 \in {8, 9}   -> Sd(i, "fmul.s", "fmul.d")
        [] i.f7 \in {12, 13} -> Sd(i, "fdiv.s", "fdiv.d"),
      F(i.rd), F(i.rs1), F(i.rs2), Round(i.f3)>>

fsgnjsInstrNames == <<"fsgnj.s", "fsgnjn.s", "fsgnjx.s",
                      "fsgnj.d", "fsgnjn.d", "fsgnjx.d">>

StrFloatSign(i) ==
    IF i.f3 > 2 THEN Unrecognised
    ELSE <<At(fsgnjsInstrNames, i.f3 + Sd(i, 0, 3)), F(i.rd), F(i.rs1), F(i.rs2)>>

StrFloatMinMax(i) ==
    <<CASE i.f3 = 0 -> Sd(i, "fmin.s", "fmin.d")
        [] i.f3 = 1 -> Sd(i, "fmax.s", "fmax.d")
        [] OTHER    -> "unknown instruction", F(i.rd), F(i.rs1), F(i.rs2)>>

fCompareInstrNames == <<"fle.s", "flt.s", "feq.s", "fle.d", "flt.d", "feq.d">>

StrFloatCompare(i) ==
    IF i.f3 > 2 THEN Unrecognised
    ELSE <<At(fCompareInstrNames, i.f3 + Sd(i, 0, 3)), X(i.rd), F(i.rs1), F(i.rs2)>>

StrFloatToInt(i) ==
    <<IF i.rs2 = 0 THEN Sd(i, "fcvt.w.s", "fcvt.w.d")
                   ELSE Sd(i, "fcvt.wu.s", "fcvt.wu.d"),
      X(i.rd), F(i.rs1), Round(i.f3)>>

(* The source of all of these is shown as a register of integers. *)
StrIntToFloat(i) ==
    CASE i.f7 = 104 -> <<IF i.rs2 = 0 THEN "fcvt.s.w" ELSE "fcvt.s.wu",
                         F(i.rd), X(i.rs1), Round(i.f3)>>
      [] i.f7 = 105 -> <<IF i.rs2 = 0 THEN "fcvt.d.w" ELSE "fcvt.d.wu",
                         F(i.rd), X(i.rs1)>>
      [] i.f7 = 32  -> <<"fcvt.s.d", F(i.rd), X(i.rs1), Round(i.f3)>>
      [] i.f7 = 33  -> <<"fcvt.d.s", F(i.rd), X(i.rs1)>>

StrFloatMove(i) ==
    <<IF i.f7 = 113 THEN "fclass.d"
      ELSE CASE i.f3 = 0 -> "fmv.x.w" [] i.f3 = 1 -> "fclass.s"
             [] OTHER -> "unknown instruction",
      X(i.rd), F(i.rs1)>>

StrFloatOpInstr(i) ==
    CASE i.f7 \in Arithmetic -> StrFloatArithm(i)
      [] i.f7 \in {44, 45}   -> <<Sd(i, "fsqrt.s", "fsqrt.d"), F(i.rd), F(i.rs1),
                                  Round(i.f3)>>
      [] i.f7 \in {16, 17}   -> StrFloatSign(i)
      [] i.f7 \in {20, 21}   -> StrFloatMinMax(i)
      [] i.f7 \in {96, 97}   -> StrFloatToInt(i)
      [] i.f7 \in {112, 113} -> StrFloatMove(i)
      [] i.f7 \in {80, 81}   -> StrFloatCompare(i)
      [] i.f7 \in {104, 32, 33, 105} -> StrIntToFloat(i)
      [] i.f7 = 120 -> <<"fmv.w.x", F(i.rd), X(i.rs1)>>
      [] OTHER -> Unrecognised

StrFloatArithmMInstr(i, single, double) ==
    <<Sd(i, single, double), F(i.rd), F(i.rs1), F(i.rs2), F(i.f7 \div 4),
      Round(i.f3)>>

----------------------------------------------------------------------------
(* The fields of a fence above its opcode are 12 bits: mode, before, after. *)
StrFence(i) ==
    LET plain == i.rd = 0 /\ i.rs1 = 0 /\ i.f3 = 0
    IN  CASE plain /\ I_IMM(i) = 2099 -> <<"fence.tso">>
          [] plain /\ I_IMM(i) = 16 -> <<"pause">>
          [] OTHER -> <<"fence", Imm((I_IMM(i) \div 16) % 16), Imm(I_IMM(i) % 16)>>

StrJal(i) ==
    LET offs == Imm(SIGN_EXTENSION(J_IMM(i), J_IMM_SIZE))
    IN  CASE i.rd = 0 -> <<"j", offs>>
          [] i.rd = 1 -> <<"jal", offs>>
          [] OTHER    -> <<"jal", X(i.rd), offs>>

StrJalr(i) ==
    IF i.rd = 0 /\ i.rs1 = 1 /\ i.f3 = 0 /\ I_IMM(i) = 0 THEN <<"ret">>
    ELSE <<"jalr", X(i.rd), Imm(SIGN_EXTENSION(I_IMM(i), I_IMM_SIZE)), X(i.rs1)>>

StrInstr(i) ==
    CASE i.op = LOAD   -> StrLoadInstr(i)
      [] i.op = OP     -> StrRInstr(i)
      [] i.op = OP_IMM -> StrNonLoadIInstr(i)
      [] i.op = SYSTEM /\ i.f3 = 0 -> <<IF I_IMM(i) = 0 THEN "ecall" ELSE "ebreak">>
      [] i.op = SYSTEM /\ i.f3 # 0 -> StrCSRInstr(i)
      [] i.op = BRANCH -> StrBInstr(i)
      [] i.op = STORE  -> StrSInstr(i)
      [] i.op = AMO    -> StrAInstr(i)
      [] i.op \in {AUIPC, LUI} ->
             <<IF i.op = LUI THEN "lui" ELSE "auipc", X(i.rd), Imm(U_IMM(i))>>
      [] i.op = JAL    -> StrJal(i)
      [] i.op = JALR   -> StrJalr(i)
      [] i.op = FENCE  -> StrFence(i)
      [] i.op = OP_FP  -> StrFloatOpInstr(i)
      [] i.op = LOAD_FP ->
             <<IF i.f3 = 2 THEN "flw" ELSE "fld", F(i.rd),
               Imm(SIGN_EXTENSION(I_IMM(i), I_IMM_SIZE)), X(i.rs1)>>
      [] i.op = STORE_FP ->
             <<IF i.f3 = 2 THEN "fsw" ELSE "fsd", F(i.rs2),
               Imm(SIGN_EXTENSION(S_IMM(i), S_IMM_SIZE)), X(i.rs1)>>
      [] i.op = MADD  -> StrFloatArithmMInstr(i, "fmadd.s", "fmadd.d")
      [] i.op = MSUB  -> StrFloatArithmMInstr(i, "fmsub.s", "fmsub.d")
      [] i.op = NMSUB -> StrFloatArithmMInstr(i, "fnmsub.s", "fnmsub.d")
      [] i.op = NMADD -> StrFloatArithmMInstr(i, "fnmadd.s", "fnmadd.d")
      [] OTHER -> Unrecognised

----------------------------------------------------------------------------
(* The short forms in full. *)
Expanded(t) ==
    CASE t[1] = "nop" -> <<"addi", X(0), X(0), Imm(0)>>
      [] t[1] = "li"  -> <<"addi", t[2], X(0), t[3]>>
      [] t[1] = "mv"  -> <<"addi", t[2], t[3], Imm(0)>>
      [] t[1] = "j"   -> <<"jal", X(0), t[2]>>
      [] t[1] = "jal" /\ Len(t) = 2 -> <<"jal", X(1), t[2]>>
      [] t[1] = "ret" -> <<"jalr", X(0), Imm(0), X(1)>>
      [] t[1] = "fence.tso" -> <<"fence", Imm(3), Imm(3)>>
      [] t[1] = "pause"     -> <<"fence", Imm(1), Imm(0)>>
      [] OTHER -> t

(* Shown otherwise: mret and wfi (as ebreak), csrrci (misspelled), the     *)
(* conversions between formats (the source as a register of integers),     *)
(* jumps beyond the bits whose sign is extended.                           *)
Misshown(i) ==
    \/ Name(i) \in {"mret", "wfi", "csrrci"}
    \/ i.op = OP_FP /\ i.f7 \in {32, 33}
    \/ i.op = BRANCH /\ ~Fits(BImm(i), 2048)
    \/ i.op = JAL /\ ~Fits(JImm(i), 524288)

(* What is shown of an instruction, written in full, is what the manual    *)
(* calls it: the name and the operands that RunsTheManual executes.        *)
ShowsWhatRuns ==
    \/ Misshown(instr)
    \/ Name(instr) = "illegal" /\ FpName(instr) = "illegal"
    \/ Expanded(StrInstr(instr)) =
           IF Name(instr) # "illegal" THEN Assembly(instr) ELSE FpAssembly(instr)
=============================================================================
