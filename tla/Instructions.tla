------------------------------ MODULE Instructions ------------------------------
(***************************************************************************)
(* What an instruction computes (Processor::execInstr in                   *)
(* uriscv/processor.cc, and the long multiplications of                    *)
(* uriscv/utility.cc), against the manual (Isa).  Control - exceptions,    *)
(* translation, modes - is the subject of module Processor; here a memory  *)
(* access works or does not.                                               *)
(*                                                                         *)
(* A behaviour executes one instruction from any registers.  Memory is one *)
(* word, the one at the address of the instruction; the control and status *)
(* register an instruction names takes the same place.  A word has 4 bytes *)
(* of B bits; the fields of an instruction have their own widths.          *)
(***************************************************************************)
EXTENDS Isa

CONSTANTS
    Base,      \* where the instruction is
    Regs,      \* the registers, 0 among them
    Inputs     \* bound: families of instructions and of what they find,
               \* [instrs, values, cells, bus] (sets)

VARIABLES
    instr,     \* currInstr
    regs,      \* gpr
    cell,      \* the word of memory, or the register of control and status
    works,     \* the bus accepts the access, after a translation that succeeds
    pc,        \* getPC() before the instruction, nextPC after it
    exc        \* "fetched", then "none", "illegal" (EXC_II), "access", or
               \* "crash" when the emulator itself ends

vars == <<instr, regs, cell, works, pc, exc>>

RegRead(r)        == IF r = 0 THEN 0 ELSE regs[r]
Written(rs, r, v) == IF r = 0 THEN rs ELSE [rs EXCEPT ![r] = v]

Init ==
    /\ \E f \in Inputs :
          /\ instr \in f.instrs
          /\ regs \in [Regs -> f.values] /\ regs[0] = 0
          /\ cell \in f.cells
          /\ works \in f.bus
    /\ pc = Base
    /\ exc = "fetched"

WORDLEN == 4

(* SIGN_EXTENSION ors ones above the sign bit; a positive value keeps what *)
(* it has there.                                                           *)
SIGN_EXTENSION(v, bits) ==
    IF (v \div Pow2[bits - 1]) % 2 = 1 THEN (v % Pow2[bits]) - Pow2[bits] ELSE v

I_IMM(i) == i.f7 * 32 + i.rs2
S_IMM(i) == i.rd + i.f7 * 32
B_IMM(i) == 2 * (i.rd \div 2) + (i.rd % 2) * 2048 + (i.f7 \div 64) * 4096
                + (i.f7 % 64) * 32
U_IMM(i) == Upper(i)
J_IMM(i) == (U_IMM(i) \div 524288) * 1048576 + ((U_IMM(i) \div 512) % 1024) * 2
                + ((U_IMM(i) \div 256) % 2) * 2048 + (U_IMM(i) % 256) * 4096

I_IMM_SIZE == 12
S_IMM_SIZE == 12
J_IMM_SIZE == 20

(* The ends of an instruction. *)
Goes(rs, to) == /\ regs' = rs /\ pc' = to /\ exc' = "none"
                /\ UNCHANGED <<instr, works>>
Continues(rs) == Goes(rs, pc + WORDLEN)
Traps(cause) == exc' = cause /\ UNCHANGED <<instr, regs, cell, works, pc>>

----------------------------------------------------------------------------
(* UnsMult multiplies halves of words: <<high, low>>.  The sum of the two  *)
(* middle products is a word as well.                                      *)
HalfSize == Pow2[2 * B]

UnsMult(m1, m2) ==
    LET a == m1 \div HalfSize   b == m1 % HalfSize
        c == m2 \div HalfSize   d == m2 % HalfSize
        x == Wrap(a * d + b * c)
        y == Wrap((b * d) \div HalfSize + x)
    IN  <<Wrap(y \div HalfSize + a * c),
          ((b * d) % HalfSize) + (y % HalfSize) * HalfSize>>

(* The two's complement of both words: the carry of the low one goes up. *)
Negated(p) ==
    <<Wrap((Size - 1 - p[1]) + Flag(p[2] = 0)), Wrap(-p[2])>>

SignMult(m1, m2) ==
    LET p == UnsMult(Wrap(Magnitude(Signed(m1))), Wrap(Magnitude(Signed(m2))))
    IN  IF (Signed(m1) < 0) # (Signed(m2) < 0) THEN Negated(p) ELSE p

(* m1 is a Word here, never below 0. *)
UnsSignMult(m1, m2) == UnsMult(m1, m2)

(* Shift counts are taken modulo the width: what the shifts of the machine *)
(* that runs the emulator do with a larger one.                            *)
ShiftLeft(a, n)  == Wrap(a * Pow2[n % w])
ShiftRight(a, n) == a \div Pow2[n % w]

(* The top bit is kept in a byte, where it does not fit: it is always 0. *)
ShiftArithmetic(a, n) == ShiftRight(a, n)

DividesUnsigned == {<<4, 1>>, <<7, 1>>}       \* DIV and REMU
DividesSigned   == {<<5, 1>>, <<6, 1>>}       \* DIVU and REM
Divides         == DividesUnsigned \cup DividesSigned

(* The result of a type R instruction by FUNC3 and FUNC7. *)
RCodes == {<<0, 0>>, <<0, 32>>, <<0, 1>>, <<1, 1>>, <<1, 0>>, <<2, 1>>, <<2, 0>>,
           <<3, 1>>, <<3, 0>>, <<4, 0>>, <<5, 0>>, <<5, 32>>, <<6, 0>>, <<7, 0>>}

RResult(f3, f7, a, b) ==
    CASE f3 = 0 /\ f7 = 0  -> Wrap(a + b)
      [] f3 = 0 /\ f7 = 32 -> Wrap(a - b)
      [] f3 = 0 /\ f7 = 1  -> Wrap(a * b)
      [] f3 = 1 /\ f7 = 1  -> SignMult(a, b)[1]
      [] f3 = 1 /\ f7 = 0  -> ShiftLeft(a, b)
      [] f3 = 2 /\ f7 = 1  -> UnsSignMult(a, b)[1]
      [] f3 = 2 /\ f7 = 0  -> Flag(Signed(a) < Signed(b))
      [] f3 = 3 /\ f7 = 1  -> UnsMult(a, b)[1]
      [] f3 = 3 /\ f7 = 0  -> Flag(a < b)
      [] f3 = 4 /\ f7 = 0  -> Xor(a, b)
      [] f3 = 5 /\ f7 = 0  -> ShiftRight(a, b)
      [] f3 = 5 /\ f7 = 32 -> ShiftArithmetic(a, b)
      [] f3 = 6 /\ f7 = 0  -> Or(a, b)
      [] f3 = 7 /\ f7 = 0  -> And(a, b)

Quotients(i, a, b) ==
    LET q == IF <<i.f3, i.f7>> \in DividesSigned
             THEN Quotient(Signed(a), Signed(b)) ELSE a \div b
        r == IF <<i.f3, i.f7>> \in DividesSigned
             THEN Signed(a) - Signed(b) * q ELSE a - b * q
    IN  Wrap(IF i.f3 \in {4, 5} THEN q ELSE r)

(* A division by 0 leaves the register alone.  The lowest integer by -1,   *)
(* signed, has no result: the processor that runs the emulator traps.      *)
Divide(i, a, b) ==
    /\ UNCHANGED cell
    /\ \/ b = 0 /\ Continues(regs)
       \/ /\ b # 0
          /\ ~(<<i.f3, i.f7>> \in DividesSigned /\ a = Size \div 2 /\ b = Size - 1)
          /\ Continues(Written(regs, i.rd, Quotients(i, a, b)))

DividesTooFar(i, a, b) ==
    /\ <<i.f3, i.f7>> \in DividesSigned /\ a = Size \div 2 /\ b = Size - 1
    /\ Traps("crash")

(* AMOSWAP goes to the bus with the address of the register, untranslated, *)
(* and looks at neither answer: after a read that failed the register gets *)
(* what happened to be in a variable.                                      *)
Amoswap(i, garbage) ==
    /\ Continues(Written(regs, i.rd, IF works THEN cell ELSE garbage))
    /\ cell' = IF works THEN RegRead(i.rs2) ELSE cell

(* The opcodes of types R and A lead to the same decoder. *)
ExecInstrR ==
    LET key == <<instr.f3, instr.f7>>
        a == RegRead(instr.rs1)
        b == RegRead(instr.rs2)
        swaps == instr.f3 = 2 /\ instr.f7 \in 4 .. 7
    IN  /\ instr.op \in {OP, AMO}
        /\ \/ /\ key \in RCodes
              /\ Continues(Written(regs, instr.rd, RResult(instr.f3, instr.f7, a, b)))
              /\ UNCHANGED cell
           \/ key \in Divides /\ Divide(instr, a, b)
           \/ key \in Divides /\ DividesTooFar(instr, a, b)
           \/ /\ swaps
              /\ \E garbage \in {0, Size - 1} : Amoswap(instr, garbage)
           \/ /\ key \notin RCodes \cup Divides /\ ~swaps
              /\ Traps("illegal")

(* Type I: FUNC7 counts for the shifts to the right only. *)
IResult(i, a) ==
    LET imm == Wrap(SIGN_EXTENSION(I_IMM(i), I_IMM_SIZE))
    IN  CASE i.f3 = 0 -> Wrap(a + imm)
          [] i.f3 = 1 -> ShiftLeft(a, i.rs2)
          [] i.f3 = 2 -> Flag(Signed(a) < Signed(imm))
          [] i.f3 = 3 -> Flag(a < imm)
          [] i.f3 = 4 -> Xor(a, imm)
          [] i.f3 = 5 /\ i.f7 = 0  -> ShiftRight(a, i.rs2)
          [] i.f3 = 5 /\ i.f7 = 32 -> ShiftArithmetic(a, i.rs2)
          [] i.f3 = 6 -> Or(a, imm)
          [] i.f3 = 7 -> And(a, imm)

ExecInstrI ==
    LET known == instr.f3 = 5 => instr.f7 \in {0, 32}
    IN  /\ instr.op = OP_IMM
        /\ \/ /\ known
              /\ Continues(Written(regs, instr.rd, IResult(instr, RegRead(instr.rs1))))
              /\ UNCHANGED cell
           \/ ~known /\ Traps("illegal")

----------------------------------------------------------------------------
(* Parts of words.  signExtHWord returns the word it is given.             *)
BYTEPOS(va)  == va % 4
HWORDPOS(va) == (va % 4) \div 2

zExtByte(v, p)     == (v \div Pow2[B * p]) % Pow2[B]

(* Ones above the sign bit are ored to the byte, or all but those below it *)
(* are masked out.                                                         *)
signExtByte(v, p)  ==
    LET s == v \div Pow2[B * p]
    IN  (s % Pow2[B - 1])
            + IF (s \div Pow2[B - 1]) % 2 = 1 THEN Size - Pow2[B - 1] ELSE 0
zExtHWord(v, h)    == (v \div Pow2[2 * B * h]) % HalfSize
signExtHWord(v, h) == v

Merged(dest, src, p, width) ==
    dest - ((dest \div Pow2[p]) % Pow2[width]) * Pow2[p] + (src % Pow2[width]) * Pow2[p]
mergeByteKept(dest, src, p) == Or(dest, (src % Pow2[B]) * Pow2[B * p])
mergeByte(dest, src, p)  == Merged(dest, src, B * p, B)
mergeHWord(dest, src, h) == Merged(dest, src, 2 * B * h, 2 * B)

Part(f3, v, va) ==
    CASE f3 = 0 -> signExtByte(v, BYTEPOS(va))
      [] f3 = 1 -> signExtHWord(v, HWORDPOS(va))
      [] f3 = 2 -> v
      [] f3 = 4 -> zExtByte(v, BYTEPOS(va))
      [] f3 = 5 -> zExtHWord(v, HWORDPOS(va))

ExecInstrL ==
    LET va == Wrap(RegRead(instr.rs1) + SIGN_EXTENSION(I_IMM(instr), I_IMM_SIZE))
        known == instr.f3 \in {0, 1, 2, 4, 5}
    IN  /\ instr.op = LOAD
        /\ \/ /\ known /\ works
              /\ Continues(Written(regs, instr.rd, Part(instr.f3, cell, va)))
              /\ UNCHANGED cell
           \/ known /\ ~works /\ Traps("access")
           \/ ~known /\ Traps("illegal")

(* A part of a word is stored by reading the word around it first. *)
WithPart(f3, v, src, va) ==
    CASE f3 = 0 -> mergeByte(v, src, BYTEPOS(va))
      [] f3 = 1 -> mergeHWord(v, src, HWORDPOS(va))
      [] f3 = 2 -> src

ExecInstrS ==
    LET va == Wrap(RegRead(instr.rs1) + SIGN_EXTENSION(S_IMM(instr), S_IMM_SIZE))
    IN  /\ instr.op = STORE
        /\ \/ /\ instr.f3 <= 2 /\ works
              /\ cell' = WithPart(instr.f3, cell, RegRead(instr.rs2), va)
              /\ Continues(regs)
           \/ instr.f3 <= 2 /\ ~works /\ Traps("access")
           \/ instr.f3 > 2 /\ Traps("illegal")

----------------------------------------------------------------------------
(* Control transfers.  The offset of a branch has 13 bits and is extended  *)
(* from the 12th, that of JAL has 21 and is extended from the 20th.        *)
Branches(f3, a, b) ==
    \/ f3 = 0 /\ a = b
    \/ f3 = 1 /\ a # b
    \/ f3 = 4 /\ Signed(a) < Signed(b)
    \/ f3 = 5 /\ Signed(a) >= Signed(b)
    \/ f3 = 6 /\ a < b
    \/ f3 = 7 /\ a >= b

BranchOffset(i) == SIGN_EXTENSION(B_IMM(i), I_IMM_SIZE)

ExecInstrB ==
    LET taken == Branches(instr.f3, RegRead(instr.rs1), RegRead(instr.rs2))
    IN  /\ instr.op = BRANCH
        /\ \/ /\ instr.f3 \notin {2, 3}
              /\ UNCHANGED cell
              /\ \/ taken /\ Goes(regs, pc + BranchOffset(instr))
                 \/ ~taken /\ Continues(regs)
           \/ instr.f3 \in {2, 3} /\ Traps("illegal")

Jal ==
    /\ instr.op = JAL
    /\ Goes(Written(regs, instr.rd, Wrap(pc + WORDLEN)),
            pc + SIGN_EXTENSION(J_IMM(instr), J_IMM_SIZE))
    /\ UNCHANGED cell

(* The link is written before the register of the address is read. *)
Jalr ==
    LET linked == Written(regs, instr.rd, Wrap(pc + WORDLEN))
        base   == IF instr.rs1 = 0 THEN 0 ELSE linked[instr.rs1]
        to     == Wrap(base + SIGN_EXTENSION(I_IMM(instr), I_IMM_SIZE))
    IN  /\ instr.op = JALR
        /\ Goes(linked, 2 * (to \div 2))
        /\ UNCHANGED cell

Lui ==
    /\ instr.op = LUI
    /\ Continues(Written(regs, instr.rd, Wrap(U_IMM(instr) * Pow2[UShift])))
    /\ UNCHANGED cell

(* The immediate is extended from 12 bits and not shifted. *)
Auipc ==
    /\ instr.op = AUIPC
    /\ Continues(Written(regs, instr.rd,
                         Wrap(pc + SIGN_EXTENSION(U_IMM(instr), I_IMM_SIZE))))
    /\ UNCHANGED cell

----------------------------------------------------------------------------
(* Control and status registers; the instructions with FUNC3 0 are in      *)
(* module Processor.  The old value goes to rd first; what is written      *)
(* afterwards is computed from the registers as they are then.             *)
Complement(v) == Size - 1 - v

CsrWritten(i, v, r) ==
    CASE i.f3 = 1 -> IF i.rs1 = 0 THEN v ELSE r
      [] i.f3 = 2 -> Or(v, r)
      [] i.f3 = 3 -> IF i.rs1 = 0 THEN v ELSE And(v, Complement(r))
      [] i.f3 = 5 -> And(v, Complement(i.rs1))
      [] i.f3 = 6 -> Or(v, i.rs1)
      [] i.f3 = 7 -> And(v, Complement(i.rs1))

ExecInstrI2 ==
    LET new == Written(regs, instr.rd, cell)
        r   == IF instr.rs1 = 0 THEN 0 ELSE new[instr.rs1]
    IN  /\ instr.op = SYSTEM /\ instr.f3 # 0
        /\ \/ /\ instr.f3 # 4
              /\ cell' = CsrWritten(instr, cell, r)
              /\ Continues(new)
           \/ instr.f3 = 4 /\ Traps("illegal")

Unknown == /\ instr.op \notin {LOAD, OP, OP_IMM, SYSTEM, BRANCH, STORE, AMO, AUIPC,
                               LUI, JAL, JALR}
           /\ Traps("illegal")

ExecInstr ==
    /\ exc = "fetched"
    /\ \/ ExecInstrL \/ ExecInstrR \/ ExecInstrI \/ ExecInstrI2 \/ ExecInstrB
       \/ ExecInstrS \/ Auipc \/ Lui \/ Jal \/ Jalr \/ Unknown

Next == ExecInstr

Spec == Init /\ [][Next]_vars

----------------------------------------------------------------------------
(* A signed number below a power of two, as far as its bits go. *)
Fits(n, limit) == -limit <= n /\ n < limit

(* Where uriscv differs from the manual, instruction by instruction.       *)
Aliased == instr.rd = instr.rs1 /\ instr.rd # 0

(* UnsMult loses what the middle products carry out of a word. *)
Carries(m1, m2) ==
    LET a == m1 \div HalfSize   b == m1 % HalfSize
        c == m2 \div HalfSize   d == m2 % HalfSize
    IN  (a * d + b * c) + ((b * d) \div HalfSize) >= Size

Deviates ==
    LET name == Name(instr)
        a == RegRead(instr.rs1)
        b == RegRead(instr.rs2)
    IN  \/ name = "illegal" /\ instr.op \in {OP, AMO, OP_IMM, JALR}
        \/ name \in {"fence", "auipc", "lh", "csrrwi"}
        \/ name \in {"div", "divu", "rem", "remu"}
                /\ (b = 0 \/ Signed(a) < 0 \/ Signed(b) < 0)
        \/ name = "mulhsu" /\ Signed(a) < 0
        \/ name \in {"mulhu", "mulhsu"} /\ Carries(a, b)
        \/ name \in {"sra", "srai"} /\ Signed(a) < 0
        \/ name = "lhu" /\ (a + IImm(instr)) % 2 = 1
        \/ name = "sh"  /\ (a + SImm(instr)) % 2 = 1
        \/ instr.op = BRANCH /\ ~Fits(BImm(instr), 2048)
        \/ name = "jal" /\ ~Fits(JImm(instr), 524288)
        \/ name \in {"jalr", "csrrw", "csrrs", "csrrc"} /\ Aliased
        \/ name = "csrrw" /\ instr.rs1 = 0
        \/ name = "amoswap" /\ ~works

(* With the exceptions above, an instruction leaves the registers, memory  *)
(* and the program counter as the manual says, on any operands; one that   *)
(* traps, and one the bus refuses, leaves them alone.                      *)
RunsTheManual ==
    [][\/ exc # "fetched" \/ Deviates
       \/ <<regs', cell', pc', exc'>> =
              IF instr.op \in {LOAD, STORE} /\ Name(instr) # "illegal" /\ ~works
              THEN <<regs, cell, pc, "access">>
              ELSE Effect(instr, regs, cell, pc)]_vars
=============================================================================
