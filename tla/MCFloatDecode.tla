--------------------------- MODULE MCFloatDecode ---------------------------
(***************************************************************************)
(* decode_from on every word of the float opcode 0b1010011 with fixed      *)
(* register fields and every funct3 and funct7.  The state is one word,    *)
(* chosen once.                                                            *)
(***************************************************************************)
EXTENDS Decode

\* Bit k of a number.
BitOf(n, k) == (n \div 2^k) % 2

\* The word with the given fields (bits 0..6, 7..11, 12..14, 15..19,
\* 20..24, 25..31).
Fields(opc, rd, f3, rs1, rs2, f7) ==
  [b \in Pos |-> CASE b \in 0..6 -> BitOf(opc, b)
                   [] b \in 7..11 -> BitOf(rd, b - 7)
                   [] b \in 12..14 -> BitOf(f3, b - 12)
                   [] b \in 15..19 -> BitOf(rs1, b - 15)
                   [] b \in 20..24 -> BitOf(rs2, b - 20)
                   [] b \in 25..31 -> BitOf(f7, b - 25)]

VARIABLE w

Init == w \in {Fields(83, 1, f3, 2, 3, f7) : f3 \in 0..7, f7 \in 0..127}
Next == UNCHANGED w
Spec == Init /\ [][Next]_w

\* The specification (spec.md, 5.2): an unknown (funct3, funct7) pair
\* decodes to DecodeError::Invalid, a fatal runtime error the simulator
\* latches; decode_from never aborts the process.
DecodeNeverPanics == DecodeFrom(w).op # "panic"
=============================================================================
