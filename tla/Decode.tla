------------------------------- MODULE Decode -------------------------------
(***************************************************************************)
(* The bit-level decoder of dialect v1: DecodedInstr::decode_from         *)
(* (core_sim/src/decode_instr.rs) and the field helpers of bin.rs, on     *)
(* 32-bit words.  A decoded instruction is a record with the operand      *)
(* fields of Isa!Instr; a field the format does not have is 0.  "invalid" *)
(* stands for Err(DecodeError::Invalid), "panic" for the assert_eq! of    *)
(* the float arm failing.                                                  *)
(***************************************************************************)
EXTENDS Integers

(***************************************************************************)
(* A u32 is a vector of 32 bits, bit 0 the least significant: TLC's       *)
(* integers stop below 2^31.  &, |, << and >> act bit by bit.             *)
(***************************************************************************)
Pos == 0..31
U32 == [Pos -> {0, 1}]
Zero == [i \in Pos |-> 0]

\* A number below 2^31 as a u32.
ToBits(n) == [i \in Pos |-> IF i = 31 THEN 0 ELSE (n \div 2^i) % 2]

\* The number a u32 stands for, when bit 31 is clear.
Num(x) ==
  LET f[k \in 0..31] == IF k = 0 THEN 0
                        ELSE IF x[k - 1] = 1 THEN f[k - 1] + 2^(k - 1) ELSE f[k - 1]
  IN  f[31]

AndB(x, y) == [i \in Pos |-> x[i] * y[i]]
OrB(x, y) == [i \in Pos |-> IF x[i] + y[i] > 0 THEN 1 ELSE 0]
\* x << k and x >> k on u32.
Shl(x, k) == [i \in Pos |-> IF i >= k THEN x[i - k] ELSE 0]
Shr(x, k) == [i \in Pos |-> IF i + k <= 31 THEN x[i + k] ELSE 0]

\* bit_range(s..e): bits s to e (inclusive) set.
BitRange(s, e) == [i \in Pos |-> IF s <= i /\ i <= e THEN 1 ELSE 0]
\* bit_range_lower(i): bits 0 to i set.
BitRangeLower(k) == BitRange(0, k)

Mask(bin, s, e) == AndB(bin, BitRange(s, e))
MaskLower(bin, k) == AndB(bin, BitRangeLower(k))
Extract(bin, s, e) == Shr(Mask(bin, s, e), s)
At(bin, k) == AndB(Shr(bin, k), ToBits(1))

\* Variant: the extension starts one bit too high.
SignExtendHigh(BIT, sign, imm) == IF sign # Zero THEN OrB(BitRange(BIT + 1, 31), imm) ELSE imm

\* sign_extend::<BIT>: sets bits BIT..31 when the sign is set.
SignExtend(BIT, sign, imm) == IF sign # Zero THEN OrB(BitRange(BIT, 31), imm) ELSE imm

IImm(sign, imm) == SignExtend(12, sign, imm)

SImm(bin, sign) == SignExtend(12, sign, OrB(Shl(Extract(bin, 25, 31), 5), Extract(bin, 7, 11)))

BImm(bin, sign) ==
  SignExtend(13, sign, OrB(OrB(Shl(Extract(bin, 8, 11), 1), Shl(Extract(bin, 25, 30), 5)),
                           OrB(Shl(At(bin, 7), 11), Shl(sign, 12))))

JImm(bin, sign) ==
  SignExtend(21, sign, OrB(OrB(Shl(Extract(bin, 12, 19), 12), Shl(At(bin, 20), 11)),
                           OrB(Shl(Extract(bin, 21, 30), 1), Shl(sign, 20))))

Ins(op, rd, rs1, rs2, imm) == [op |-> op, rd |-> rd, rs1 |-> rs1, rs2 |-> rs2, imm |-> imm]
Invalid == Ins("invalid", 0, 0, 0, Zero)
Panic == Ins("panic", 0, 0, 0, Zero)

\* The tables of the match arms: (funct3, funct7) or funct3 to operation.
RCodes == {<<0, 0, "add">>, <<0, 32, "sub">>, <<4, 0, "xor">>, <<6, 0, "or">>,
           <<7, 0, "and">>, <<1, 0, "sll">>, <<5, 32, "sra">>, <<2, 0, "slt">>}
ICodes == {<<0, "addi">>, <<4, "xori">>, <<6, "ori">>, <<7, "andi">>}
BCodes == {<<0, "beq">>, <<1, "bne">>, <<4, "blt">>, <<5, "bge">>}
ECodes == {<<0, "fadd">>, <<4, "fsub">>, <<8, "fmul">>, <<12, "fdiv">>,
           <<24, "fsgnj">>, <<28, "fsgnjn">>, <<32, "fsgnjx">>}
HCodes == {<<16, "fsqrt">>, <<20, "fhalf">>, <<64, "ffloor">>}
YCodes == {<<4, "fiszero">>, <<5, "fispos">>, <<6, "fisneg">>}
WCodes == {<<1, "fblt">>, <<2, "fbge">>}
VCodes == {<<4, "fbeqz">>, <<7, "fbnez">>}

\* The operation a table gives to key k, or "invalid".
Lookup(table, k) ==
  IF \E c \in table : c[1] = k THEN (CHOOSE c \in table : c[1] = k)[2] ELSE "invalid"
LookupR(f3, f7) ==
  IF \E c \in RCodes : c[1] = f3 /\ c[2] = f7
    THEN (CHOOSE c \in RCodes : c[1] = f3 /\ c[2] = f7)[3] ELSE "invalid"

\* An operation, or Invalid when the table had none.
Checked(op, ins) == IF op = "invalid" THEN Invalid ELSE ins

\* funct3 # 0 of the float arm: funct7 must be 0b1010001 (assert_eq!).
FloatCompare(f3, f7, rd, rs1, rs2) ==
  IF f7 # 81 THEN Panic
  ELSE IF f3 < 4
    THEN IF f3 = 1 THEN Ins("flt", rd, rs1, rs2, Zero) ELSE Invalid
    ELSE LET op == Lookup(YCodes, f3) IN Checked(op, Ins(op, rd, rs1, 0, Zero))

FloatArith(f7, rd, rs1, rs2) ==
  LET e == Lookup(ECodes, f7)
      h == Lookup(HCodes, f7)
  IN  CASE e # "invalid" -> Ins(e, rd, rs1, rs2, Zero)
        [] h # "invalid" -> Ins(h, rd, rs1, 0, Zero)
        [] f7 = 69 -> Ins("fftoi", rd, rs1, 0, Zero)
        [] f7 = 38 -> Ins("fitof", rd, rs1, 0, Zero)
        [] OTHER -> Invalid

FloatBranch(bin, f3, rs1, rs2, sign) ==
  IF f3 < 4
    THEN LET op == Lookup(WCodes, f3) IN Checked(op, Ins(op, 0, rs1, rs2, BImm(bin, sign)))
    ELSE LET op == Lookup(VCodes, f3) IN Checked(op, Ins(op, 0, rs1, 0, BImm(bin, sign)))

\* DecodedInstr::decode_from
DecodeFrom(bin) ==
  IF bin = Zero THEN Ins("end", 0, 0, 0, Zero) ELSE
  LET opcode == Num(MaskLower(bin, 6))
      rd == Num(Extract(bin, 7, 11))
      f3 == Num(Extract(bin, 12, 14))
      rs1 == Num(Extract(bin, 15, 19))
      rs2 == Num(Extract(bin, 20, 24))
      f7 == Num(Extract(bin, 25, 31))
      imm == Extract(bin, 20, 31)
      sign == At(bin, 31)
  IN  CASE opcode = 51 ->
             LET op == LookupR(f3, f7) IN Checked(op, Ins(op, rd, rs1, rs2, Zero))
        [] opcode = 19 ->
             IF f3 = 1
               THEN IF f7 = 0 THEN Ins("slli", rd, rs1, 0, IImm(sign, Mask(imm, 0, 4)))
                    ELSE Invalid
               ELSE LET op == Lookup(ICodes, f3)
                    IN  Checked(op, Ins(op, rd, rs1, 0, IImm(sign, imm)))
        [] opcode = 3 ->
             IF f3 = 2 THEN Ins("lw", rd, rs1, 0, IImm(sign, imm)) ELSE Invalid
        [] opcode = 103 ->
             IF f3 = 0 THEN Ins("jalr", rd, rs1, 0, IImm(sign, imm)) ELSE Invalid
        [] opcode = 35 ->
             IF f3 = 2 THEN Ins("sw", 0, rs1, rs2, SImm(bin, sign)) ELSE Invalid
        [] opcode = 99 ->
             LET op == Lookup(BCodes, f3) IN Checked(op, Ins(op, 0, rs1, rs2, BImm(bin, sign)))
        [] opcode = 111 -> Ins("jal", rd, 0, 0, JImm(bin, sign))
        [] opcode = 11 -> Ins("inw", rd, 0, 0, Zero)
        [] opcode = 43 -> Ins("outb", 0, rs1, 0, Zero)
        [] opcode = 15 -> Ins("finw", rd, 0, 0, Zero)
        [] opcode = 83 ->
             IF f3 = 0 THEN FloatArith(f7, rd, rs1, rs2)
             ELSE FloatCompare(f3, f7, rd, rs1, rs2)
        [] opcode = 87 -> FloatBranch(bin, f3, rs1, rs2, sign)
        [] opcode = 7 -> Ins("flw", rd, rs1, 0, IImm(sign, imm))
        [] opcode = 39 -> Ins("fsw", 0, rs1, rs2, SImm(bin, sign))
        [] OTHER -> Invalid
=============================================================================
