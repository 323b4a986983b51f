---------------------------------- MODULE Isa ----------------------------------
(***************************************************************************)
(* What the manual of the RISC-V instruction set (RV32IM, Zicsr and the    *)
(* swap of A) says of an instruction: its name and what it does, in        *)
(* integers, without a trace of how uriscv computes it.  It is the         *)
(* reference of Instructions and of Disassembler; the instructions of F    *)
(* and D have a name only, uriscv does not execute them.                   *)
(*                                                                         *)
(* An instruction is the record of its fields.  A word has 4 bytes of B    *)
(* bits, so that all words can be enumerated; the fields are not scaled.   *)
(***************************************************************************)
EXTENDS Integers, Sequences

CONSTANTS
    B,         \* bits of a byte (8)
    UShift     \* where a type U immediate goes in a word (12)

(* Powers of two: Pow2[n] is 2^n. *)
Pow2[n \in Nat] == IF n = 0 THEN 1 ELSE 2 * Pow2[n - 1]

w    == 4 * B
Size == Pow2[w]
Word == 0 .. Size - 1

Wrap(n)   == n % Size
Signed(v) == IF v >= Size \div 2 THEN v - Size ELSE v
Flag(b)   == IF b THEN 1 ELSE 0

Magnitude(a)   == IF a < 0 THEN -a ELSE a
Quotient(a, b) == LET q == Magnitude(a) \div Magnitude(b)
                  IN  IF (a < 0) = (b < 0) THEN q ELSE -q

(* Bit by bit, over the bits of a word. *)
Bit(v, k) == (v \div Pow2[k]) % 2

And(a, b) ==
    LET lowest[k \in Nat] ==      \* of the k lowest bits
            IF k = 0 THEN 0
            ELSE lowest[k - 1] + Pow2[k - 1] * (Bit(a, k - 1) * Bit(b, k - 1))
    IN  lowest[w]
Or(a, b)  == a + b - And(a, b)
Xor(a, b) == a + b - 2 * And(a, b)

----------------------------------------------------------------------------
(* The fields, 5 + 3 + 5 + 5 + 7 bits above the opcode of 7. *)
Instruction == [op : 0 .. 127, rd : 0 .. 31, f3 : 0 .. 7, rs1 : 0 .. 31,
                rs2 : 0 .. 31, f7 : 0 .. 127]

Upper(i) == i.f7 * 8192 + i.rs2 * 256 + i.rs1 * 8 + i.f3

(* The immediates: the top bit of the instruction is their sign. *)
Sign(i) == i.f7 \div 64
IImm(i) == i.rs2 + (i.f7 % 64) * 32 - Sign(i) * 2048
SImm(i) == i.rd + (i.f7 % 64) * 32 - Sign(i) * 2048
BImm(i) == 2 * (i.rd \div 2) + (i.f7 % 64) * 32 + (i.rd % 2) * 2048
                - Sign(i) * 4096
JImm(i) == LET u == Upper(i)
           IN  ((u \div 512) % 1024) * 2 + ((u \div 256) % 2) * 2048
                    + (u % 256) * 4096 - Sign(i) * 1048576

LOAD == 3     FENCE  == 15   OP_IMM == 19   AUIPC  == 23   STORE == 35
AMO  == 47    OP     == 51   LUI    == 55   BRANCH == 99   JALR  == 103
JAL  == 111   SYSTEM == 115

LOAD_FP == 7  STORE_FP == 39  MADD == 67  MSUB == 71  NMSUB == 75
NMADD == 79   OP_FP == 83

OpNames     == <<"add", "sll", "slt", "sltu", "xor", "srl", "or", "and">>
MulNames    == <<"mul", "mulh", "mulhsu", "mulhu", "div", "divu", "rem", "remu">>
ImmNames    == <<"addi", "slli", "slti", "sltiu", "xori", "srli", "ori", "andi">>
LoadNames   == <<"lb", "lh", "lw", "illegal", "lbu", "lhu", "illegal", "illegal">>
StoreNames  == <<"sb", "sh", "sw">>
BranchNames == <<"beq", "bne", "illegal", "illegal", "blt", "bge", "bltu", "bgeu">>
CsrNames    == <<"illegal", "csrrw", "csrrs", "csrrc", "illegal", "csrrwi",
                 "csrrsi", "csrrci">>

Nth(names, k) == IF k < Len(names) THEN names[k + 1] ELSE "illegal"

ImmName(i) ==
    CASE i.f3 \notin {1, 5} \/ i.f7 = 0 -> Nth(ImmNames, i.f3)
      [] i.f3 = 5 /\ i.f7 = 32          -> "srai"
      [] OTHER                          -> "illegal"

OpName(i) ==
    CASE i.f7 = 0 -> Nth(OpNames, i.f3)
      [] i.f7 = 1 -> Nth(MulNames, i.f3)
      [] i.f7 = 32 /\ i.f3 = 0 -> "sub"
      [] i.f7 = 32 /\ i.f3 = 5 -> "sra"
      [] OTHER -> "illegal"

PrivilegedName(i) ==
    CASE i.rd # 0 \/ i.rs1 # 0     -> "illegal"
      [] i.rd = 0 /\ i.rs1 = 0 /\ i.f7 = 0 /\ i.rs2 = 0  -> "ecall"
      [] i.rd = 0 /\ i.rs1 = 0 /\ i.f7 = 0 /\ i.rs2 = 1  -> "ebreak"
      [] i.rd = 0 /\ i.rs1 = 0 /\ i.f7 = 24 /\ i.rs2 = 2 -> "mret"
      [] i.rd = 0 /\ i.rs1 = 0 /\ i.f7 = 8 /\ i.rs2 = 5  -> "wfi"
      [] OTHER -> "illegal"

Name(i) ==
    CASE i.op = LOAD   -> Nth(LoadNames, i.f3)
      [] i.op = STORE  -> Nth(StoreNames, i.f3)
      [] i.op = BRANCH -> Nth(BranchNames, i.f3)
      [] i.op = OP_IMM -> ImmName(i)
      [] i.op = OP     -> OpName(i)
      [] i.op = AMO /\ i.f3 = 2 /\ i.f7 \in 4 .. 7 -> "amoswap"
      [] i.op = SYSTEM -> IF i.f3 = 0 THEN PrivilegedName(i) ELSE Nth(CsrNames, i.f3)
      [] i.op = LUI    -> "lui"
      [] i.op = AUIPC  -> "auipc"
      [] i.op = JAL    -> "jal"
      [] i.op = JALR /\ i.f3 = 0  -> "jalr"
      [] i.op = FENCE /\ i.f3 = 0 -> "fence"
      [] OTHER -> "illegal"

(* The names of F and D: of the single and of the double format. *)
NoForms == <<"illegal", "illegal">>
FormsOf(forms, k) == IF k < Len(forms) THEN forms[k + 1] ELSE NoForms

ArithForms   == << <<"fadd.s", "fadd.d">>, <<"fsub.s", "fsub.d">>,
                   <<"fmul.s", "fmul.d">>, <<"fdiv.s", "fdiv.d">> >>
SignForms    == << <<"fsgnj.s", "fsgnj.d">>, <<"fsgnjn.s", "fsgnjn.d">>,
                   <<"fsgnjx.s", "fsgnjx.d">> >>
MinMaxForms  == << <<"fmin.s", "fmin.d">>, <<"fmax.s", "fmax.d">> >>
CompareForms == << <<"fle.s", "fle.d">>, <<"flt.s", "flt.d">>, <<"feq.s", "feq.d">> >>
ToIntForms   == << <<"fcvt.w.s", "fcvt.w.d">>, <<"fcvt.wu.s", "fcvt.wu.d">> >>
ToFloatForms == << <<"fcvt.s.w", "fcvt.d.w">>, <<"fcvt.s.wu", "fcvt.d.wu">> >>
MoveForms    == << <<"fmv.x.w", "illegal">>, <<"fclass.s", "fclass.d">> >>

LoadFpNames  == <<"illegal", "illegal", "flw", "fld">>
StoreFpNames == <<"illegal", "illegal", "fsw", "fsd">>

OpFpForms(i) ==
    LET group == i.f7 \div 4
    IN  CASE group \in 0 .. 3 -> FormsOf(ArithForms, group)
          [] group = 4  -> FormsOf(SignForms, i.f3)
          [] group = 5  -> FormsOf(MinMaxForms, i.f3)
          [] group = 8  -> <<IF i.rs2 = 1 THEN "fcvt.s.d" ELSE "illegal",
                             IF i.rs2 = 0 THEN "fcvt.d.s" ELSE "illegal">>
          [] group = 11 /\ i.rs2 = 0 -> <<"fsqrt.s", "fsqrt.d">>
          [] group = 20 -> FormsOf(CompareForms, i.f3)
          [] group = 24 -> FormsOf(ToIntForms, i.rs2)
          [] group = 26 -> FormsOf(ToFloatForms, i.rs2)
          [] group = 28 -> FormsOf(MoveForms, i.f3)
          [] group = 30 /\ i.f3 = 0 -> <<"fmv.w.x", "illegal">>
          [] OTHER -> NoForms

FpForms(i) ==
    CASE i.op = MADD  -> <<"fmadd.s", "fmadd.d">>
      [] i.op = MSUB  -> <<"fmsub.s", "fmsub.d">>
      [] i.op = NMSUB -> <<"fnmsub.s", "fnmsub.d">>
      [] i.op = NMADD -> <<"fnmadd.s", "fnmadd.d">>
      [] i.op = OP_FP -> OpFpForms(i)
      [] OTHER        -> NoForms

FpName(i) ==
    CASE i.op = LOAD_FP  -> Nth(LoadFpNames, i.f3)
      [] i.op = STORE_FP -> Nth(StoreFpNames, i.f3)
      [] OTHER           -> Nth(FpForms(i), i.f7 % 4)

----------------------------------------------------------------------------
(* What an instruction computes of two operands, a register and a register *)
(* or an immediate.                                                        *)
Value(name, a, b) ==
    CASE name \in {"add", "addi"}   -> Wrap(a + b)
      [] name = "sub"               -> Wrap(a - b)
      [] name \in {"sll", "slli"}   -> Wrap(a * Pow2[b % w])
      [] name \in {"srl", "srli"}   -> a \div Pow2[b % w]
      [] name \in {"sra", "srai"}   -> Wrap(Signed(a) \div Pow2[b % w])
      [] name \in {"slt", "slti"}   -> Flag(Signed(a) < Signed(b))
      [] name \in {"sltu", "sltiu"} -> Flag(a < b)
      [] name \in {"xor", "xori"}   -> Xor(a, b)
      [] name \in {"or", "ori"}     -> Or(a, b)
      [] name \in {"and", "andi"}   -> And(a, b)
      [] name = "mul"    -> Wrap(a * b)
      [] name = "mulh"   -> Wrap((Signed(a) * Signed(b)) \div Size)
      [] name = "mulhsu" -> Wrap((Signed(a) * b) \div Size)
      [] name = "mulhu"  -> (a * b) \div Size
      [] name = "div"    -> IF b = 0 THEN Size - 1
                            ELSE Wrap(Quotient(Signed(a), Signed(b)))
      [] name = "divu"   -> IF b = 0 THEN Size - 1 ELSE a \div b
      [] name = "rem"    -> IF b = 0 THEN a
                            ELSE Wrap(Signed(a) - Signed(b)
                                        * Quotient(Signed(a), Signed(b)))
      [] name = "remu"   -> IF b = 0 THEN a ELSE a % b

Taken(name, a, b) ==
    CASE name = "beq"  -> a = b
      [] name = "bne"  -> a # b
      [] name = "blt"  -> Signed(a) < Signed(b)
      [] name = "bge"  -> Signed(a) >= Signed(b)
      [] name = "bltu" -> a < b
      [] name = "bgeu" -> a >= b

(* The bytes of a word, the first one the lowest. *)
Bytes(v) == [k \in 0 .. 3 |-> (v \div Pow2[B * k]) % Pow2[B]]
FromBytes(f) == f[0] + f[1] * Pow2[B] + f[2] * Pow2[2 * B] + f[3] * Pow2[3 * B]
Extended(v, bits) == IF v >= Pow2[bits - 1] THEN Wrap(v - Pow2[bits]) ELSE v

Half(v, k) == Bytes(v)[k] + Bytes(v)[k + 1] * Pow2[B]

Loaded(name, v, k) ==
    CASE name = "lb"  -> Extended(Bytes(v)[k], B)
      [] name = "lbu" -> Bytes(v)[k]
      [] name = "lh"  -> Extended(Half(v, k), 2 * B)
      [] name = "lhu" -> Half(v, k)
      [] name = "lw"  -> v

Stored(name, v, k, r) ==
    LET f == Bytes(v) s == Bytes(r)
    IN  FromBytes(CASE name = "sb" -> [f EXCEPT ![k] = s[0]]
                    [] name = "sh" -> [f EXCEPT ![k] = s[0], ![k + 1] = s[1]]
                    [] name = "sw" -> s)

CsrValue(name, v, r) ==
    CASE name \in {"csrrw", "csrrwi"} -> r
      [] name \in {"csrrs", "csrrsi"} -> Or(v, r)
      [] name \in {"csrrc", "csrrci"} -> And(v, Size - 1 - r)

----------------------------------------------------------------------------
(* The effect of an instruction: the registers, the one word of memory or  *)
(* control and status register it names, the address of the next           *)
(* instruction, and the exception.  Register 0 is always 0.                *)
Set(regs, r, v) == IF r = 0 THEN regs ELSE [regs EXCEPT ![r] = v]

(* The last operand: the count of a shift has a field of its own. *)
Last(i) == IF Name(i) \in {"slli", "srli", "srai"} THEN i.rs2 ELSE Wrap(IImm(i))

Effect(i, regs, cell, pc) ==
    LET name == Name(i)
        a    == regs[i.rs1]
        b    == regs[i.rs2]
        next(rs, c)  == <<rs, c, pc + 4, "none">>
        jump(rs, to) == <<rs, cell, to, "none">>
        link    == Set(regs, i.rd, Wrap(pc + 4))
        address == Wrap(a + IImm(i))
    IN  IF name = "illegal" THEN <<regs, cell, pc, "illegal">>
        ELSE
        CASE i.op = OP     -> next(Set(regs, i.rd, Value(name, a, b)), cell)
          [] i.op = OP_IMM -> next(Set(regs, i.rd, Value(name, a, Last(i))), cell)
          [] i.op = LOAD   -> next(Set(regs, i.rd, Loaded(name, cell, address % 4)), cell)
          [] i.op = STORE  -> next(regs, Stored(name, cell, Wrap(a + SImm(i)) % 4, b))
          [] i.op = BRANCH -> jump(regs, IF Taken(name, a, b) THEN pc + BImm(i)
                                         ELSE pc + 4)
          [] i.op = JAL    -> jump(link, pc + JImm(i))
          [] i.op = JALR   -> jump(link, 2 * (address \div 2))
          [] i.op = LUI    -> next(Set(regs, i.rd, Wrap(Upper(i) * Pow2[UShift])), cell)
          [] i.op = AUIPC  -> next(Set(regs, i.rd, Wrap(pc + Upper(i) * Pow2[UShift])),
                                   cell)
          [] i.op = FENCE  -> next(regs, cell)
          [] i.op = AMO    -> next(Set(regs, i.rd, cell), b)
          [] i.op = SYSTEM /\ i.f3 # 0 ->
                 next(Set(regs, i.rd, cell),
                      CsrValue(name, cell, IF i.f3 < 4 THEN a ELSE i.rs1))

----------------------------------------------------------------------------
(* How an instruction is written: its name and its operands in order.      *)
X(n)     == <<"x", n>>          \* a register
F(n)     == <<"f", n>>          \* a register of floating point
Imm(n)   == <<"imm", n>>
CSR(n)   == <<"csr", n>>
Round(n) == <<"rm", n>>

Field12(i) == i.f7 * 32 + i.rs2

Assembly(i) ==
    LET name == Name(i)
        imm  == IF name \in {"slli", "srli", "srai"} THEN i.rs2 ELSE IImm(i)
    IN  CASE i.op = OP     -> <<name, X(i.rd), X(i.rs1), X(i.rs2)>>
          [] i.op = AMO    -> <<name, X(i.rd), X(i.rs2), X(i.rs1)>>
          [] i.op = OP_IMM -> <<name, X(i.rd), X(i.rs1), Imm(imm)>>
          [] i.op \in {LOAD, JALR} -> <<name, X(i.rd), Imm(IImm(i)), X(i.rs1)>>
          [] i.op = STORE  -> <<name, X(i.rs2), Imm(SImm(i)), X(i.rs1)>>
          [] i.op = BRANCH -> <<name, X(i.rs1), X(i.rs2), Imm(BImm(i))>>
          [] i.op = JAL    -> <<name, X(i.rd), Imm(JImm(i))>>
          [] i.op \in {LUI, AUIPC} -> <<name, X(i.rd), Imm(Upper(i))>>
          [] i.op = SYSTEM /\ i.f3 # 0 ->
                 <<name, X(i.rd), CSR(Field12(i)),
                   IF i.f3 < 4 THEN X(i.rs1) ELSE Imm(i.rs1)>>
          [] i.op = FENCE  -> <<name, Imm((Field12(i) \div 16) % 16),
                                Imm(Field12(i) % 16)>>
          [] OTHER -> <<name>>

OpFpAssembly(i) ==
    LET name  == FpName(i)
        group == i.f7 \div 4
    IN  CASE group \in 0 .. 3   -> <<name, F(i.rd), F(i.rs1), F(i.rs2), Round(i.f3)>>
          [] group \in {4, 5}   -> <<name, F(i.rd), F(i.rs1), F(i.rs2)>>
          [] group = 20         -> <<name, X(i.rd), F(i.rs1), F(i.rs2)>>
          [] group = 11         -> <<name, F(i.rd), F(i.rs1), Round(i.f3)>>
          [] group = 8          -> IF i.f7 = 32 THEN <<name, F(i.rd), F(i.rs1), Round(i.f3)>>
                                                ELSE <<name, F(i.rd), F(i.rs1)>>
          [] group = 24         -> <<name, X(i.rd), F(i.rs1), Round(i.f3)>>
          [] group = 26         -> IF i.f7 = 104 THEN <<name, F(i.rd), X(i.rs1), Round(i.f3)>>
                                                 ELSE <<name, F(i.rd), X(i.rs1)>>
          [] group = 28         -> <<name, X(i.rd), F(i.rs1)>>
          [] group = 30         -> <<name, F(i.rd), X(i.rs1)>>

FpAssembly(i) ==
    LET name == FpName(i)
    IN  CASE i.op = LOAD_FP  -> <<name, F(i.rd), Imm(IImm(i)), X(i.rs1)>>
          [] i.op = STORE_FP -> <<name, F(i.rs2), Imm(SImm(i)), X(i.rs1)>>
          [] i.op \in {MADD, MSUB, NMSUB, NMADD} ->
                 <<name, F(i.rd), F(i.rs1), F(i.rs2), F(i.f7 \div 4), Round(i.f3)>>
          [] i.op = OP_FP    -> OpFpAssembly(i)
=============================================================================
