-------------------------------- MODULE Isa --------------------------------
(***************************************************************************)
(* Words, registers and instructions of the simulated processor (dialect  *)
(* v1, the default build), and the pure operators the execute stage       *)
(* applies to them (core_sim/src/cpu.rs, fn execute).                     *)
(*                                                                         *)
(* A machine word is a W-bit unsigned integer (u32 in the code, W = 32).  *)
(* Every arithmetic result is reduced modulo 2^W the way wrapping_add and *)
(* friends do.  Instructions are the decoded form (Instr<RegId, ..>):     *)
(* records carrying every operand field; the bit-level decoder is a       *)
(* separate concern (decode_instr.rs).                                     *)
(***************************************************************************)
EXTENDS Integers

CONSTANTS
  W,      \* bits per machine word (32 in the code)
  NRegs   \* number of integer and float registers (1 << REG_BIT_WIDTH)

ASSUME WAssumption == W \in {4, 8, 16, 32}
ASSUME NRegsAssumption == NRegs \in Nat /\ NRegs >= 5
\* Powers of two up to the width are positive integers (a fact of
\* arithmetic the provers cannot derive from the definition of ^).
ASSUME PowAssumption == \A s \in 0..W : 2^s \in Nat \ {0}

Modulus == 2^W
Word == 0..(Modulus - 1)
Regs == 0..(NRegs - 1)

\* Variant: plain `+` in place of wrapping_add (no reduction).
NoWrap(x) == x

\* x as u32 after wrapping arithmetic.
Wrap(x) == x % Modulus

\* x as i32: the two's complement reading of a word.
ToSigned(x) == IF x >= 2^(W - 1) THEN x - Modulus ELSE x

\* Bit i of word x.
Bit(x, i) == (x \div 2^i) % 2

\* Bitwise combination of two words: the word whose bit i is op applied to
\* bit i of a and of b.  Every bit pattern is a word, so the choice always
\* exists; the test only spares the provers that fact.
BitwiseWith(a, b, op(_, _)) ==
  LET Ok(r) == \A i \in 0..(W - 1) : Bit(r, i) = op(Bit(a, i), Bit(b, i))
  IN  IF \E r \in Word : Ok(r) THEN CHOOSE r \in Word : Ok(r) ELSE 0

XorBit(x, y) == (x + y) % 2
OrBit(x, y)  == IF x + y > 0 THEN 1 ELSE 0
AndBit(x, y) == x * y

\* rs1 ^ rs2, rs1 | rs2 and rs1 & rs2 on u32.
XorWord(a, b) == BitwiseWith(a, b, XorBit)
OrWord(a, b)  == BitwiseWith(a, b, OrBit)
AndWord(a, b) == BitwiseWith(a, b, AndBit)

(***************************************************************************)
(* Shifts.  `rs1 << rs2` and `rs1 >> rs2` on u32.  For a shift amount     *)
(* below the width these are the logical shifts (>> on an unsigned value  *)
(* is logical).  An amount of W or more overflows: a debug build panics,  *)
(* a release build masks the amount to its low log2(W) bits; the model of *)
(* the execute stage chooses between the two.                             *)
(***************************************************************************)
ShiftOverflows(s) == s >= W
ShiftMask(s) == s % W
ShiftLeft(a, s) == Wrap(a * 2^s)
ShiftRightLogical(a, s) == Wrap(a \div 2^s)

Bool2Word(b) == IF b THEN 1 ELSE 0

(***************************************************************************)
(* Instructions.  Opcode names follow the Display names of RInstr,        *)
(* IInstr, ... in instr.rs.  "invalid" stands for a word the decoder      *)
(* rejects with DecodeError::Invalid.                                      *)
(***************************************************************************)
ROps   == {"add", "sub", "xor", "or", "and", "sll", "sra", "slt"}
IAluOps == {"addi", "xori", "ori", "andi", "slli", "slti"}
BOps   == {"beq", "bne", "blt", "bge"}
LoadOps  == {"lw", "flw"}
StoreOps == {"sw", "fsw"}
InOps  == {"inw", "finw"}
Ops == ROps \cup IAluOps \cup BOps \cup LoadOps \cup StoreOps \cup InOps
       \cup {"jal", "jalr", "outb", "end", "invalid"}

Instr == [op : Ops, rd : Regs, rs1 : Regs, rs2 : Regs, imm : Word]

\* Integer ALU of the R format (execute, `R { .. }` arm).
AluR(op, a, b) ==
  CASE op = "add" -> Wrap(a + b)
    [] op = "sub" -> Wrap(a - b)
    [] op = "xor" -> XorWord(a, b)
    [] op = "or"  -> OrWord(a, b)
    [] op = "and" -> AndWord(a, b)
    [] op = "sll" -> ShiftLeft(a, b)
    [] op = "sra" -> ShiftRightLogical(a, b)
    [] op = "slt" -> Bool2Word(ToSigned(a) < ToSigned(b))

\* Integer ALU of the I format (execute, `I { .. }` arm, value part).
AluI(op, a, imm) ==
  CASE op = "addi" -> Wrap(a + imm)
    [] op = "xori" -> XorWord(a, imm)
    [] op = "ori"  -> OrWord(a, imm)
    [] op = "andi" -> AndWord(a, imm)
    [] op = "slli" -> ShiftLeft(a, imm)
    [] op = "slti" -> Bool2Word(ToSigned(a) < ToSigned(imm))

\* Whether an R or I ALU operation shifts by its second operand.
IsShift(op) == op \in {"sll", "sra", "slli"}

\* Branch condition of the B format (execute, `B { .. }` arm).
BranchTaken(op, a, b) ==
  CASE op = "beq" -> a = b
    [] op = "bne" -> a # b
    [] op = "blt" -> ToSigned(a) < ToSigned(b)
    [] op = "bge" -> ToSigned(a) >= ToSigned(b)
=============================================================================
