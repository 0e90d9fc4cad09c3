------------------------------ MODULE MCDecode ------------------------------
(***************************************************************************)
(* decode_from against an encoder written from the opcode table of the    *)
(* specification (spec.md, 6.3) and its field layout (opcode bits 0..6,   *)
(* rd 7..11, funct3 12..14, rs1 15..19, rs2 20..24, funct7 25..31), with  *)
(* the immediates placed as in the RISC-V base formats.  The state is one *)
(* instruction of a sample, chosen once.                                   *)
(***************************************************************************)
EXTENDS Decode

CONSTANT EncOps   \* the operations of the table to encode

\* Bit k of a number.
BitOf(n, k) == (n \div 2^k) % 2

\* The u32 pattern of -n.
NegBits(n) == [k \in Pos |-> 1 - ToBits(n - 1)[k]]

\* The specification's table: format, opcode, funct3, funct7 of each
\* integer, I/O and float memory operation.
Table ==
  [add |-> <<"R", 51, 0, 0>>, sub |-> <<"R", 51, 0, 32>>, xor |-> <<"R", 51, 4, 0>>,
   or |-> <<"R", 51, 6, 0>>, and |-> <<"R", 51, 7, 0>>, sll |-> <<"R", 51, 1, 0>>,
   sra |-> <<"R", 51, 5, 32>>, slt |-> <<"R", 51, 2, 0>>,
   addi |-> <<"I", 19, 0, 0>>, xori |-> <<"I", 19, 4, 0>>, ori |-> <<"I", 19, 6, 0>>,
   andi |-> <<"I", 19, 7, 0>>, slli |-> <<"Sh", 19, 1, 0>>, slti |-> <<"I", 19, 2, 0>>,
   lw |-> <<"I", 3, 2, 0>>, jalr |-> <<"I", 103, 0, 0>>, sw |-> <<"S", 35, 2, 0>>,
   beq |-> <<"B", 99, 0, 0>>, bne |-> <<"B", 99, 1, 0>>, blt |-> <<"B", 99, 4, 0>>,
   bge |-> <<"B", 99, 5, 0>>, jal |-> <<"J", 111, 0, 0>>,
   inw |-> <<"In", 11, 0, 0>>, outb |-> <<"Out", 43, 0, 0>>, finw |-> <<"In", 15, 0, 0>>,
   flw |-> <<"I", 7, 0, 0>>, fsw |-> <<"S", 39, 0, 0>>]

Fmt(op) == Table[op][1]

\* Bit b of the word encoding instruction i.
EncBit(i, b) ==
  LET t == Table[i.op]
      f == t[1]
  IN  CASE b \in 0..6 -> BitOf(t[2], b)
        [] b \in 7..11 /\ f = "S" -> i.imm[b - 7]
        [] b \in 7..11 /\ f = "B" -> IF b = 7 THEN i.imm[11] ELSE i.imm[b - 7]
        [] b \in 7..11 /\ f \notin {"S", "B"} -> BitOf(i.rd, b - 7)
        [] b \in 12..19 /\ f = "J" -> i.imm[b]
        [] b \in 12..14 /\ f # "J" -> BitOf(t[3], b - 12)
        [] b \in 15..19 /\ f # "J" -> BitOf(i.rs1, b - 15)
        [] b \in 20..31 /\ f \in {"I", "Sh"} -> i.imm[b - 20]
        [] b \in 20..31 /\ f = "J" ->
             IF b = 20 THEN i.imm[11] ELSE IF b = 31 THEN i.imm[20] ELSE i.imm[b - 20]
        [] b \in 20..24 /\ f \notin {"I", "Sh", "J"} -> BitOf(i.rs2, b - 20)
        [] b \in 25..31 /\ f = "R" -> BitOf(t[4], b - 25)
        [] b \in 25..31 /\ f = "S" -> i.imm[b - 20]
        [] b \in 25..31 /\ f = "B" -> IF b = 31 THEN i.imm[12] ELSE i.imm[b - 20]
        [] b \in 25..31 /\ f \in {"In", "Out"} -> 0

Encode(i) == [b \in Pos |-> EncBit(i, b)]

\* Immediates at the edges of each format, as sign-extended u32 patterns.
Imms(f) ==
  CASE f \in {"I", "S"} -> {ToBits(0), ToBits(1), ToBits(2047), NegBits(1), NegBits(2048)}
    [] f = "Sh" -> {ToBits(0), ToBits(1), ToBits(31)}
    [] f = "B" -> {ToBits(0), ToBits(2), ToBits(4094), NegBits(2), NegBits(4096)}
    [] f = "J" -> {ToBits(0), ToBits(2), ToBits(2^20 - 2), NegBits(2), NegBits(2^20)}
    [] OTHER -> {Zero}

Regs == {0, 1, 31}

\* The fields each format has; the others stay 0.
Sample ==
  UNION {
    LET f == Fmt(op)
    IN  {i \in [op : {op}, rd : Regs, rs1 : Regs, rs2 : Regs, imm : Imms(f)] :
           /\ (f \in {"S", "B", "Out"} => i.rd = 0)
           /\ (f \in {"J", "In"} => i.rs1 = 0)
           /\ (f \notin {"R", "S", "B"} => i.rs2 = 0)}
    : op \in EncOps}

VARIABLE ins

Init == ins \in Sample
Next == UNCHANGED ins
Spec == Init /\ [][Next]_ins

\* decode_from inverts the specified encoding: every instruction of the
\* table, with every register and edge immediate, decodes to itself
\* (opcode dispatch, funct tables, sign extension of I, S, B, J fields).
DecodeInvertsEncode == DecodeFrom(Encode(ins)) = ins
=============================================================================
