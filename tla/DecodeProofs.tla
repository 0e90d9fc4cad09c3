---------------------------- MODULE DecodeProofs ----------------------------
(***************************************************************************)
(* decode_from (Decode) inverts the encoding of the specification's table *)
(* (MCDecode): DecodeEncodeInverse for every operation the decoder has an *)
(* arm for, every register 0..31 and every immediate of its format's       *)
(* shape, and DecodeInverts, the invariant of the decode run, for every   *)
(* choice of EncOps without slti.                                          *)
(*                                                                         *)
(* The argument is bit-level and needs no induction.  Num is a recursive  *)
(* function over 0..31; each field decode_from reads has at most 7 bits,  *)
(* so its equation is unrolled at 0..31 once, in SmallNum, where every    *)
(* step past bit 6 adds nothing.  A field of the encoding is then a sum   *)
(* of BitOf terms, and a number below 2^7 is the sum of its bits by case  *)
(* analysis (RegBits, Bits3, Bits7).  Each immediate is compared with the *)
(* instruction's bit by bit (IImmInverse ... JImmInverse).  Powers of two *)
(* with a variable exponent are split into the 32 cases of the exponent.  *)
(***************************************************************************)
EXTENDS MCDecode, TLAPS

\* The number the low seven bits of x stand for.
Low7(x) == x[0] * 1 + x[1] * 2 + x[2] * 4 + x[3] * 8 + x[4] * 16 + x[5] * 32 + x[6] * 64

\* Num of a u32 whose bits 7..31 are clear, as a sum.
LEMMA SmallNum ==
  ASSUME NEW x \in U32, \A j \in 7..31 : x[j] = 0
  PROVE  Num(x) = Low7(x)
  <1> DEFINE S(k) == (IF 0 < k THEN x[0] * 1 ELSE 0) + (IF 1 < k THEN x[1] * 2 ELSE 0) + (IF 2 < k THEN x[2] * 4 ELSE 0) + (IF 3 < k THEN x[3] * 8 ELSE 0) + (IF 4 < k THEN x[4] * 16 ELSE 0) + (IF 5 < k THEN x[5] * 32 ELSE 0) + (IF 6 < k THEN x[6] * 64 ELSE 0)
             Eq(g) == g = [k \in 0..31 |-> IF k = 0 THEN 0
                                           ELSE IF x[k - 1] = 1 THEN g[k - 1] + 2^(k - 1)
                                           ELSE g[k - 1]]
  <1>0. \A j \in Pos : x[j] \in {0, 1} BY DEF U32
  <1>1. Eq([k \in 0..31 |-> S(k)])
    <2>1. ASSUME NEW k \in 1..31
          PROVE  S(k) = IF x[k - 1] = 1 THEN S(k - 1) + 2^(k - 1) ELSE S(k - 1)
      <3>1. CASE k = 1 BY <3>1, <1>0 DEF Pos
      <3>2. CASE k = 2 BY <3>2, <1>0 DEF Pos
      <3>3. CASE k = 3 BY <3>3, <1>0 DEF Pos
      <3>4. CASE k = 4 BY <3>4, <1>0 DEF Pos
      <3>5. CASE k = 5 BY <3>5, <1>0 DEF Pos
      <3>6. CASE k = 6 BY <3>6, <1>0 DEF Pos
      <3>7. CASE k = 7 BY <3>7, <1>0 DEF Pos
      <3>8. CASE k \in 8..31 BY <3>8, <1>0 DEF Pos
      <3>. QED BY <3>1, <3>2, <3>3, <3>4, <3>5, <3>6, <3>7, <3>8
    <2>. QED BY <2>1
  <1>2. Num(x) = (CHOOSE g : Eq(g))[31] BY DEF Num
  <1>3. ASSUME NEW g, Eq(g) PROVE g[31] = Low7(x)
    <2>0. g[0] = S(0) BY <1>3
    <2>1. g[1] = S(1) BY <1>3, <2>0, <1>0 DEF Pos
    <2>2. g[2] = S(2) BY <1>3, <2>1, <1>0 DEF Pos
    <2>3. g[3] = S(3) BY <1>3, <2>2, <1>0 DEF Pos
    <2>4. g[4] = S(4) BY <1>3, <2>3, <1>0 DEF Pos
    <2>5. g[5] = S(5) BY <1>3, <2>4, <1>0 DEF Pos
    <2>6. g[6] = S(6) BY <1>3, <2>5, <1>0 DEF Pos
    <2>7. g[7] = S(7) BY <1>3, <2>6, <1>0 DEF Pos
    <2>8. g[8] = S(8) BY <1>3, <2>7, <1>0 DEF Pos
    <2>9. g[9] = S(9) BY <1>3, <2>8, <1>0 DEF Pos
    <2>10. g[10] = S(10) BY <1>3, <2>9, <1>0 DEF Pos
    <2>11. g[11] = S(11) BY <1>3, <2>10, <1>0 DEF Pos
    <2>12. g[12] = S(12) BY <1>3, <2>11, <1>0 DEF Pos
    <2>13. g[13] = S(13) BY <1>3, <2>12, <1>0 DEF Pos
    <2>14. g[14] = S(14) BY <1>3, <2>13, <1>0 DEF Pos
    <2>15. g[15] = S(15) BY <1>3, <2>14, <1>0 DEF Pos
    <2>16. g[16] = S(16) BY <1>3, <2>15, <1>0 DEF Pos
    <2>17. g[17] = S(17) BY <1>3, <2>16, <1>0 DEF Pos
    <2>18. g[18] = S(18) BY <1>3, <2>17, <1>0 DEF Pos
    <2>19. g[19] = S(19) BY <1>3, <2>18, <1>0 DEF Pos
    <2>20. g[20] = S(20) BY <1>3, <2>19, <1>0 DEF Pos
    <2>21. g[21] = S(21) BY <1>3, <2>20, <1>0 DEF Pos
    <2>22. g[22] = S(22) BY <1>3, <2>21, <1>0 DEF Pos
    <2>23. g[23] = S(23) BY <1>3, <2>22, <1>0 DEF Pos
    <2>24. g[24] = S(24) BY <1>3, <2>23, <1>0 DEF Pos
    <2>25. g[25] = S(25) BY <1>3, <2>24, <1>0 DEF Pos
    <2>26. g[26] = S(26) BY <1>3, <2>25, <1>0 DEF Pos
    <2>27. g[27] = S(27) BY <1>3, <2>26, <1>0 DEF Pos
    <2>28. g[28] = S(28) BY <1>3, <2>27, <1>0 DEF Pos
    <2>29. g[29] = S(29) BY <1>3, <2>28, <1>0 DEF Pos
    <2>30. g[30] = S(30) BY <1>3, <2>29, <1>0 DEF Pos
    <2>31. g[31] = S(31) BY <1>3, <2>30, <1>0 DEF Pos
    <2>. QED BY <2>31 DEF Low7
  <1>4. Eq(CHOOSE g : Eq(g)) BY <1>1, Zenon
  <1>. QED BY <1>2, <1>3, <1>4

\* The number bits s..e of bin stand for, for a field of at most 7 bits.
FieldVal(bin, s, e) ==
  (IF 0 <= e - s THEN bin[s + 0] * 1 ELSE 0) + (IF 1 <= e - s THEN bin[s + 1] * 2 ELSE 0) + (IF 2 <= e - s THEN bin[s + 2] * 4 ELSE 0) + (IF 3 <= e - s THEN bin[s + 3] * 8 ELSE 0) +
  (IF 4 <= e - s THEN bin[s + 4] * 16 ELSE 0) + (IF 5 <= e - s THEN bin[s + 5] * 32 ELSE 0) + (IF 6 <= e - s THEN bin[s + 6] * 64 ELSE 0)

\* Num(bin.extract(s..e)) for a field of at most 7 bits.
LEMMA ExtractNum ==
  ASSUME NEW bin \in U32, NEW s \in Pos, NEW e \in Pos, s <= e, e - s <= 6
  PROVE  Num(Extract(bin, s, e)) = FieldVal(bin, s, e)
  <1> DEFINE x == Extract(bin, s, e)
  <1>1. x \in U32 /\ \A j \in Pos : x[j] = IF j <= e - s THEN bin[s + j] ELSE 0
    BY DEF Extract, Shr, Mask, AndB, BitRange, U32, Pos
  <1>2. \A j \in 7..31 : x[j] = 0 BY <1>1 DEF Pos
  <1>3. Low7(x) = FieldVal(bin, s, e) BY <1>1 DEF Low7, FieldVal, Pos
  <1>. QED BY <1>1, <1>2, <1>3, SmallNum

\* The opcode: Num of bits 0..6.
LEMMA MaskLowerNum ==
  ASSUME NEW bin \in U32
  PROVE  Num(MaskLower(bin, 6)) = FieldVal(bin, 0, 6)
  <1> DEFINE x == MaskLower(bin, 6)
  <1>1. x \in U32 /\ \A j \in Pos : x[j] = IF j <= 6 THEN bin[j] ELSE 0
    BY DEF MaskLower, BitRangeLower, AndB, BitRange, U32, Pos
  <1>2. \A j \in 7..31 : x[j] = 0 BY <1>1 DEF Pos
  <1>3. Low7(x) = FieldVal(bin, 0, 6) BY <1>1 DEF Low7, FieldVal, Pos
  <1>. QED BY <1>1, <1>2, <1>3, SmallNum

\* A register index is the number its five bits stand for.
LEMMA RegBits ==
  ASSUME NEW r \in 0..31
  PROVE  BitOf(r, 0) * 1 + BitOf(r, 1) * 2 + BitOf(r, 2) * 4 + BitOf(r, 3) * 8 + BitOf(r, 4) * 16 = r
  <1>1. CASE r = 0 BY <1>1 DEF BitOf
  <1>2. CASE r = 1 BY <1>2 DEF BitOf
  <1>3. CASE r = 2 BY <1>3 DEF BitOf
  <1>4. CASE r = 3 BY <1>4 DEF BitOf
  <1>5. CASE r = 4 BY <1>5 DEF BitOf
  <1>6. CASE r = 5 BY <1>6 DEF BitOf
  <1>7. CASE r = 6 BY <1>7 DEF BitOf
  <1>8. CASE r = 7 BY <1>8 DEF BitOf
  <1>9. CASE r = 8 BY <1>9 DEF BitOf
  <1>10. CASE r = 9 BY <1>10 DEF BitOf
  <1>11. CASE r = 10 BY <1>11 DEF BitOf
  <1>12. CASE r = 11 BY <1>12 DEF BitOf
  <1>13. CASE r = 12 BY <1>13 DEF BitOf
  <1>14. CASE r = 13 BY <1>14 DEF BitOf
  <1>15. CASE r = 14 BY <1>15 DEF BitOf
  <1>16. CASE r = 15 BY <1>16 DEF BitOf
  <1>17. CASE r = 16 BY <1>17 DEF BitOf
  <1>18. CASE r = 17 BY <1>18 DEF BitOf
  <1>19. CASE r = 18 BY <1>19 DEF BitOf
  <1>20. CASE r = 19 BY <1>20 DEF BitOf
  <1>21. CASE r = 20 BY <1>21 DEF BitOf
  <1>22. CASE r = 21 BY <1>22 DEF BitOf
  <1>23. CASE r = 22 BY <1>23 DEF BitOf
  <1>24. CASE r = 23 BY <1>24 DEF BitOf
  <1>25. CASE r = 24 BY <1>25 DEF BitOf
  <1>26. CASE r = 25 BY <1>26 DEF BitOf
  <1>27. CASE r = 26 BY <1>27 DEF BitOf
  <1>28. CASE r = 27 BY <1>28 DEF BitOf
  <1>29. CASE r = 28 BY <1>29 DEF BitOf
  <1>30. CASE r = 29 BY <1>30 DEF BitOf
  <1>31. CASE r = 30 BY <1>31 DEF BitOf
  <1>32. CASE r = 31 BY <1>32 DEF BitOf
  <1>. QED BY <1>1, <1>2, <1>3, <1>4, <1>5, <1>6, <1>7, <1>8, <1>9, <1>10, <1>11, <1>12, <1>13, <1>14, <1>15, <1>16, <1>17, <1>18, <1>19, <1>20, <1>21, <1>22, <1>23, <1>24, <1>25, <1>26, <1>27, <1>28, <1>29, <1>30, <1>31, <1>32

\* 2^k, for every bit position k, is a positive number.
LEMMA PowPos ==
  ASSUME NEW k \in 0..31
  PROVE  2^k \in Nat \ {0}
  <1>1. CASE k = 0 BY <1>1
  <1>2. CASE k = 1 BY <1>2
  <1>3. CASE k = 2 BY <1>3
  <1>4. CASE k = 3 BY <1>4
  <1>5. CASE k = 4 BY <1>5
  <1>6. CASE k = 5 BY <1>6
  <1>7. CASE k = 6 BY <1>7
  <1>8. CASE k = 7 BY <1>8
  <1>9. CASE k = 8 BY <1>9
  <1>10. CASE k = 9 BY <1>10
  <1>11. CASE k = 10 BY <1>11
  <1>12. CASE k = 11 BY <1>12
  <1>13. CASE k = 12 BY <1>13
  <1>14. CASE k = 13 BY <1>14
  <1>15. CASE k = 14 BY <1>15
  <1>16. CASE k = 15 BY <1>16
  <1>17. CASE k = 16 BY <1>17
  <1>18. CASE k = 17 BY <1>18
  <1>19. CASE k = 18 BY <1>19
  <1>20. CASE k = 19 BY <1>20
  <1>21. CASE k = 20 BY <1>21
  <1>22. CASE k = 21 BY <1>22
  <1>23. CASE k = 22 BY <1>23
  <1>24. CASE k = 23 BY <1>24
  <1>25. CASE k = 24 BY <1>25
  <1>26. CASE k = 25 BY <1>26
  <1>27. CASE k = 26 BY <1>27
  <1>28. CASE k = 27 BY <1>28
  <1>29. CASE k = 28 BY <1>29
  <1>30. CASE k = 29 BY <1>30
  <1>31. CASE k = 30 BY <1>31
  <1>32. CASE k = 31 BY <1>32
  <1>. QED BY <1>1, <1>2, <1>3, <1>4, <1>5, <1>6, <1>7, <1>8, <1>9, <1>10, <1>11, <1>12, <1>13, <1>14, <1>15, <1>16, <1>17, <1>18, <1>19, <1>20, <1>21, <1>22, <1>23, <1>24, <1>25, <1>26, <1>27, <1>28, <1>29, <1>30, <1>31, <1>32

\* A bit of a number is 0 or 1.
LEMMA BitOfBit ==
  ASSUME NEW n \in Int, NEW k \in 0..31
  PROVE  BitOf(n, k) \in {0, 1}
  <1>1. 2^k \in Nat \ {0} BY PowPos
  <1>2. n \div 2^k \in Int BY <1>1
  <1>. QED BY <1>1, <1>2 DEF BitOf

\* The opcodes and funct7 values of the table.
Codes7 == {0, 3, 7, 11, 15, 19, 32, 35, 39, 43, 51, 99, 103, 111}

\* Every opcode and funct7 of the table is the sum of its seven bits.
LEMMA Bits7 ==
  ASSUME NEW n \in Codes7
  PROVE  BitOf(n, 0) * 1 + BitOf(n, 1) * 2 + BitOf(n, 2) * 4 + BitOf(n, 3) * 8 + BitOf(n, 4) * 16 + BitOf(n, 5) * 32 + BitOf(n, 6) * 64 = n
  <1>1. CASE n = 0 BY <1>1 DEF BitOf
  <1>2. CASE n = 3 BY <1>2 DEF BitOf
  <1>3. CASE n = 7 BY <1>3 DEF BitOf
  <1>4. CASE n = 11 BY <1>4 DEF BitOf
  <1>5. CASE n = 15 BY <1>5 DEF BitOf
  <1>6. CASE n = 19 BY <1>6 DEF BitOf
  <1>7. CASE n = 32 BY <1>7 DEF BitOf
  <1>8. CASE n = 35 BY <1>8 DEF BitOf
  <1>9. CASE n = 39 BY <1>9 DEF BitOf
  <1>10. CASE n = 43 BY <1>10 DEF BitOf
  <1>11. CASE n = 51 BY <1>11 DEF BitOf
  <1>12. CASE n = 99 BY <1>12 DEF BitOf
  <1>13. CASE n = 103 BY <1>13 DEF BitOf
  <1>14. CASE n = 111 BY <1>14 DEF BitOf
  <1>. QED BY <1>1, <1>2, <1>3, <1>4, <1>5, <1>6, <1>7, <1>8, <1>9, <1>10, <1>11, <1>12, <1>13, <1>14 DEF Codes7

\* A funct3 is the sum of its three bits.
LEMMA Bits3 ==
  ASSUME NEW n \in 0..7
  PROVE  BitOf(n, 0) * 1 + BitOf(n, 1) * 2 + BitOf(n, 2) * 4 = n
  <1>1. CASE n = 0 BY <1>1 DEF BitOf
  <1>2. CASE n = 1 BY <1>2 DEF BitOf
  <1>3. CASE n = 2 BY <1>3 DEF BitOf
  <1>4. CASE n = 3 BY <1>4 DEF BitOf
  <1>5. CASE n = 4 BY <1>5 DEF BitOf
  <1>6. CASE n = 5 BY <1>6 DEF BitOf
  <1>7. CASE n = 6 BY <1>7 DEF BitOf
  <1>8. CASE n = 7 BY <1>8 DEF BitOf
  <1>. QED BY <1>1, <1>2, <1>3, <1>4, <1>5, <1>6, <1>7, <1>8

\* The formats of the table, and the instructions the encoder takes.
Formats == {"R", "I", "Sh", "S", "B", "J", "In", "Out"}
EncIns == [op : DOMAIN Table, rd : 0..31, rs1 : 0..31, rs2 : 0..31, imm : U32]

\* The table's formats and codes.
LEMMA TableFacts ==
  \A op \in DOMAIN Table : /\ Table[op][1] \in Formats
                            /\ Table[op][2] \in Codes7
                            /\ Table[op][3] \in 0..7
                            /\ Table[op][4] \in Codes7
  BY DEF Table, Formats, Codes7

\* The rows of the table for the operations decode_from matches by opcode
\* alone or by opcode and funct3 outside the funct tables.
LEMMA TableRows ==
  /\ Table["slli"] = <<"Sh", 19, 1, 0>> /\ Table["jal"] = <<"J", 111, 0, 0>>
  /\ Table["lw"] = <<"I", 3, 2, 0>> /\ Table["jalr"] = <<"I", 103, 0, 0>>
  /\ Table["flw"] = <<"I", 7, 0, 0>> /\ Table["sw"] = <<"S", 35, 2, 0>>
  /\ Table["fsw"] = <<"S", 39, 0, 0>> /\ Table["inw"] = <<"In", 11, 0, 0>>
  /\ Table["outb"] = <<"Out", 43, 0, 0>> /\ Table["finw"] = <<"In", 15, 0, 0>>
  BY DEF Table

\* The encoding of an instruction is a u32: every CASE arm of EncBit is a bit.
LEMMA EncodeType ==
  ASSUME NEW i \in EncIns
  PROVE  Encode(i) \in U32
  <1>1. /\ Table[i.op][1] \in Formats /\ Table[i.op][2] \in Codes7
        /\ Table[i.op][3] \in 0..7 /\ Table[i.op][4] \in Codes7
    BY TableFacts DEF EncIns
  <1>2. \A n \in Int, k \in 0..31 : BitOf(n, k) \in {0, 1} BY BitOfBit
  <1>3. \A b \in Pos : i.imm[b] \in {0, 1} BY DEF EncIns, U32
  <1>4. ASSUME NEW b \in Pos PROVE EncBit(i, b) \in {0, 1}
    <2>1. CASE Table[i.op][1] = "R"
      BY <2>1, <1>1, <1>2, <1>3 DEF EncBit, EncIns, Pos, Codes7
    <2>2. CASE Table[i.op][1] = "I"
      BY <2>2, <1>1, <1>2, <1>3 DEF EncBit, EncIns, Pos, Codes7
    <2>3. CASE Table[i.op][1] = "Sh"
      BY <2>3, <1>1, <1>2, <1>3 DEF EncBit, EncIns, Pos, Codes7
    <2>4. CASE Table[i.op][1] = "S"
      BY <2>4, <1>1, <1>2, <1>3 DEF EncBit, EncIns, Pos, Codes7
    <2>5. CASE Table[i.op][1] = "B"
      BY <2>5, <1>1, <1>2, <1>3 DEF EncBit, EncIns, Pos, Codes7
    <2>6. CASE Table[i.op][1] = "J"
      BY <2>6, <1>1, <1>2, <1>3 DEF EncBit, EncIns, Pos, Codes7
    <2>7. CASE Table[i.op][1] = "In"
      BY <2>7, <1>1, <1>2, <1>3 DEF EncBit, EncIns, Pos, Codes7
    <2>8. CASE Table[i.op][1] = "Out"
      BY <2>8, <1>1, <1>2, <1>3 DEF EncBit, EncIns, Pos, Codes7
    <2>. QED BY <1>1, <2>1, <2>2, <2>3, <2>4, <2>5, <2>6, <2>7, <2>8 DEF Formats
  <1>. QED BY <1>4 DEF Encode, U32

\* The number fields of the encoding of i.
LEMMA EncodeFields ==
  ASSUME NEW i \in EncIns
  PROVE  LET bin == Encode(i)
             t == Table[i.op]
         IN  /\ FieldVal(bin, 0, 6) = t[2]
             /\ t[1] \notin {"S", "B"} => FieldVal(bin, 7, 11) = i.rd
             /\ t[1] # "J" => FieldVal(bin, 12, 14) = t[3]
             /\ t[1] # "J" => FieldVal(bin, 15, 19) = i.rs1
             /\ t[1] \notin {"I", "Sh", "J"} => FieldVal(bin, 20, 24) = i.rs2
             /\ t[1] = "R" => FieldVal(bin, 25, 31) = t[4]
  <1> DEFINE bin == Encode(i)
             t == Table[i.op]
  <1>1. /\ t[1] \in Formats /\ t[2] \in Codes7 /\ t[3] \in 0..7 /\ t[4] \in Codes7
        /\ i.rd \in 0..31 /\ i.rs1 \in 0..31 /\ i.rs2 \in 0..31
    BY TableFacts DEF EncIns
  <1>2. \A b \in Pos : bin[b] = EncBit(i, b) BY DEF Encode
  <1>3. FieldVal(bin, 0, 6) = t[2]
    <2>1. \A j \in 0..6 : bin[j] = BitOf(t[2], j) BY <1>2 DEF EncBit, Pos
    <2>2. FieldVal(bin, 0, 6) = BitOf(t[2], 0) * 1 + BitOf(t[2], 1) * 2 + BitOf(t[2], 2) * 4 + BitOf(t[2], 3) * 8 + BitOf(t[2], 4) * 16 + BitOf(t[2], 5) * 32 + BitOf(t[2], 6) * 64 BY <2>1 DEF FieldVal
    <2>. QED BY <2>2, <1>1, Bits7
  <1>4. t[1] \notin {"S", "B"} => FieldVal(bin, 7, 11) = i.rd
    <2>1. t[1] \notin {"S", "B"} => \A j \in 0..4 : bin[7 + j] = BitOf(i.rd, j)
      BY <1>2 DEF EncBit, Pos
    <2>2. t[1] \notin {"S", "B"} => FieldVal(bin, 7, 11) = BitOf(i.rd, 0) * 1 + BitOf(i.rd, 1) * 2 + BitOf(i.rd, 2) * 4 + BitOf(i.rd, 3) * 8 + BitOf(i.rd, 4) * 16
      BY <2>1, <1>1, BitOfBit DEF FieldVal
    <2>. QED BY <2>2, <1>1, RegBits
  <1>5. t[1] # "J" => FieldVal(bin, 12, 14) = t[3]
    <2>1. t[1] # "J" => \A j \in 0..2 : bin[12 + j] = BitOf(t[3], j)
      BY <1>2 DEF EncBit, Pos
    <2>2. t[1] # "J" => FieldVal(bin, 12, 14) = BitOf(t[3], 0) * 1 + BitOf(t[3], 1) * 2 + BitOf(t[3], 2) * 4
      BY <2>1, <1>1, BitOfBit DEF FieldVal
    <2>. QED BY <2>2, <1>1, Bits3
  <1>6. t[1] # "J" => FieldVal(bin, 15, 19) = i.rs1
    <2>1. t[1] # "J" => \A j \in 0..4 : bin[15 + j] = BitOf(i.rs1, j)
      BY <1>2 DEF EncBit, Pos
    <2>2. t[1] # "J" => FieldVal(bin, 15, 19) = BitOf(i.rs1, 0) * 1 + BitOf(i.rs1, 1) * 2 + BitOf(i.rs1, 2) * 4 + BitOf(i.rs1, 3) * 8 + BitOf(i.rs1, 4) * 16
      BY <2>1, <1>1, BitOfBit DEF FieldVal
    <2>. QED BY <2>2, <1>1, RegBits
  <1>7. t[1] \notin {"I", "Sh", "J"} => FieldVal(bin, 20, 24) = i.rs2
    <2>1. t[1] \notin {"I", "Sh", "J"} => \A j \in 0..4 : bin[20 + j] = BitOf(i.rs2, j)
      BY <1>2 DEF EncBit, Pos
    <2>2. t[1] \notin {"I", "Sh", "J"} => FieldVal(bin, 20, 24) = BitOf(i.rs2, 0) * 1 + BitOf(i.rs2, 1) * 2 + BitOf(i.rs2, 2) * 4 + BitOf(i.rs2, 3) * 8 + BitOf(i.rs2, 4) * 16
      BY <2>1, <1>1, BitOfBit DEF FieldVal
    <2>. QED BY <2>2, <1>1, RegBits
  <1>8. t[1] = "R" => FieldVal(bin, 25, 31) = t[4]
    <2>1. t[1] = "R" => \A j \in 0..6 : bin[25 + j] = BitOf(t[4], j)
      BY <1>2 DEF EncBit, Pos
    <2>2. t[1] = "R" => FieldVal(bin, 25, 31) = BitOf(t[4], 0) * 1 + BitOf(t[4], 1) * 2 + BitOf(t[4], 2) * 4 + BitOf(t[4], 3) * 8 + BitOf(t[4], 4) * 16 + BitOf(t[4], 5) * 32 + BitOf(t[4], 6) * 64
      BY <2>1, <1>1, BitOfBit DEF FieldVal
    <2>. QED BY <2>2, <1>1, Bits7
  <1>. QED BY <1>3, <1>4, <1>5, <1>6, <1>7, <1>8

\* The operations of the R arm.
ROps == {"add", "sub", "xor", "or", "and", "sll", "sra", "slt"}

\* The R arm's table gives each R operation back from its funct3 and funct7.
LEMMA LookupRInverse ==
  ASSUME NEW op \in ROps
  PROVE  LookupR(Table[op][3], Table[op][4]) = op
  <1> DEFINE f3 == Table[op][3]
             f7 == Table[op][4]
             P(c) == c[1] = f3 /\ c[2] = f7
  <1>1. \A c \in RCodes : P(c) => c[3] = op
    <2>1. CASE op = "add" BY <2>1 DEF RCodes, Table
    <2>2. CASE op = "sub" BY <2>2 DEF RCodes, Table
    <2>3. CASE op = "xor" BY <2>3 DEF RCodes, Table
    <2>4. CASE op = "or" BY <2>4 DEF RCodes, Table
    <2>5. CASE op = "and" BY <2>5 DEF RCodes, Table
    <2>6. CASE op = "sll" BY <2>6 DEF RCodes, Table
    <2>7. CASE op = "sra" BY <2>7 DEF RCodes, Table
    <2>8. CASE op = "slt" BY <2>8 DEF RCodes, Table
    <2>. QED BY <2>1, <2>2, <2>3, <2>4, <2>5, <2>6, <2>7, <2>8 DEF ROps
  <1>2. \E c \in RCodes : P(c)
    <2>1. <<f3, f7, op>> \in RCodes BY DEF ROps, RCodes, Table
    <2>. QED BY <2>1
  <1>3. LET ch == CHOOSE c \in RCodes : P(c) IN ch \in RCodes /\ P(ch)
    BY <1>2
  <1>. QED BY <1>1, <1>2, <1>3 DEF LookupR

\* The Num fields decode_from reads, on the encoding of i.
LEMMA DecodeFields ==
  ASSUME NEW i \in EncIns
  PROVE  LET bin == Encode(i)
             t == Table[i.op]
         IN  /\ Num(MaskLower(bin, 6)) = t[2]
             /\ t[1] \notin {"S", "B"} => Num(Extract(bin, 7, 11)) = i.rd
             /\ t[1] # "J" => Num(Extract(bin, 12, 14)) = t[3]
             /\ t[1] # "J" => Num(Extract(bin, 15, 19)) = i.rs1
             /\ t[1] \notin {"I", "Sh", "J"} => Num(Extract(bin, 20, 24)) = i.rs2
             /\ t[1] = "R" => Num(Extract(bin, 25, 31)) = t[4]
             /\ bin # Zero
  <1> DEFINE bin == Encode(i)
  <1>1. bin \in U32 BY EncodeType
  <1>2. Table[i.op][2] \in Codes7 \ {0} BY DEF EncIns, Table, Codes7
  <1>3. bin # Zero
    <2>1. FieldVal(Zero, 0, 6) = 0 BY DEF FieldVal, Zero, Pos
    <2>. QED BY <2>1, <1>2, EncodeFields
  <1>. QED BY <1>1, <1>3, EncodeFields, ExtractNum, MaskLowerNum DEF Pos

\* decode_from inverts the encoding of an R-format operation.
LEMMA DecodeR ==
  ASSUME NEW i \in EncIns, i.op \in ROps, i.imm = Zero
  PROVE  DecodeFrom(Encode(i)) = i
  <1> DEFINE bin == Encode(i)
             t == Table[i.op]
  <1>1. t[1] = "R" /\ t[2] = 51 BY DEF ROps, Table
  <1>2. /\ Num(MaskLower(bin, 6)) = 51 /\ Num(Extract(bin, 7, 11)) = i.rd
        /\ Num(Extract(bin, 12, 14)) = t[3] /\ Num(Extract(bin, 15, 19)) = i.rs1
        /\ Num(Extract(bin, 20, 24)) = i.rs2 /\ Num(Extract(bin, 25, 31)) = t[4]
        /\ bin # Zero
    BY <1>1, DecodeFields
  <1>3. LookupR(t[3], t[4]) = i.op BY LookupRInverse
  <1>4. i = Ins(i.op, i.rd, i.rs1, i.rs2, Zero) BY DEF EncIns, Ins
  <1>5. i.op # "invalid" BY DEF ROps
  <1>. QED BY SMTT(120), <1>2, <1>3, <1>4, <1>5 DEF DecodeFrom, Checked

\* Bits k..31 of v are copies of bit k: v is sign-extended from bit k.
SExt(v, k) == \A j \in k..31 : v[j] = v[k]

\* ToBits(1), the mask of bin.at.
LEMMA OneBits ==
  ToBits(1) = [k \in Pos |-> IF k = 0 THEN 1 ELSE 0]
  <1>1. ASSUME NEW k \in Pos PROVE ToBits(1)[k] = IF k = 0 THEN 1 ELSE 0
    <2>1. CASE k = 0 BY <2>1 DEF ToBits
    <2>2. CASE k = 1 BY <2>2 DEF ToBits
    <2>3. CASE k = 2 BY <2>3 DEF ToBits
    <2>4. CASE k = 3 BY <2>4 DEF ToBits
    <2>5. CASE k = 4 BY <2>5 DEF ToBits
    <2>6. CASE k = 5 BY <2>6 DEF ToBits
    <2>7. CASE k = 6 BY <2>7 DEF ToBits
    <2>8. CASE k = 7 BY <2>8 DEF ToBits
    <2>9. CASE k = 8 BY <2>9 DEF ToBits
    <2>10. CASE k = 9 BY <2>10 DEF ToBits
    <2>11. CASE k = 10 BY <2>11 DEF ToBits
    <2>12. CASE k = 11 BY <2>12 DEF ToBits
    <2>13. CASE k = 12 BY <2>13 DEF ToBits
    <2>14. CASE k = 13 BY <2>14 DEF ToBits
    <2>15. CASE k = 14 BY <2>15 DEF ToBits
    <2>16. CASE k = 15 BY <2>16 DEF ToBits
    <2>17. CASE k = 16 BY <2>17 DEF ToBits
    <2>18. CASE k = 17 BY <2>18 DEF ToBits
    <2>19. CASE k = 18 BY <2>19 DEF ToBits
    <2>20. CASE k = 19 BY <2>20 DEF ToBits
    <2>21. CASE k = 20 BY <2>21 DEF ToBits
    <2>22. CASE k = 21 BY <2>22 DEF ToBits
    <2>23. CASE k = 22 BY <2>23 DEF ToBits
    <2>24. CASE k = 23 BY <2>24 DEF ToBits
    <2>25. CASE k = 24 BY <2>25 DEF ToBits
    <2>26. CASE k = 25 BY <2>26 DEF ToBits
    <2>27. CASE k = 26 BY <2>27 DEF ToBits
    <2>28. CASE k = 27 BY <2>28 DEF ToBits
    <2>29. CASE k = 28 BY <2>29 DEF ToBits
    <2>30. CASE k = 29 BY <2>30 DEF ToBits
    <2>31. CASE k = 30 BY <2>31 DEF ToBits
    <2>32. CASE k = 31 BY <2>32 DEF ToBits
    <2>. QED BY <2>1, <2>2, <2>3, <2>4, <2>5, <2>6, <2>7, <2>8, <2>9, <2>10, <2>11, <2>12, <2>13, <2>14, <2>15, <2>16, <2>17, <2>18, <2>19, <2>20, <2>21, <2>22, <2>23, <2>24, <2>25, <2>26, <2>27, <2>28, <2>29, <2>30, <2>31, <2>32 DEF Pos
  <1>. QED BY <1>1 DEF ToBits

\* bin.at(k): bit k of bin, as bit 0 of a u32.
LEMMA AtBit ==
  ASSUME NEW bin \in U32, NEW k \in Pos
  PROVE  At(bin, k) = [j \in Pos |-> IF j = 0 THEN bin[k] ELSE 0]
  BY OneBits DEF At, AndB, Shr, U32, Pos

\* The sign of decode_from, bin.at(31), is set when bit 31 of the word is.
LEMMA SignBit ==
  ASSUME NEW bin \in U32
  PROVE  At(bin, 31) # Zero <=> bin[31] = 1
  <1>1. At(bin, 31) = [j \in Pos |-> IF j = 0 THEN bin[31] ELSE 0] BY AtBit DEF Pos
  <1>2. CASE bin[31] = 1
    <2>1. At(bin, 31)[0] = 1 BY <1>1, <1>2 DEF Pos
    <2>. QED BY <2>1, <1>2 DEF Zero, Pos
  <1>3. CASE bin[31] = 0
    BY <1>1, <1>3 DEF Zero, Pos
  <1>. QED BY <1>2, <1>3 DEF U32, Pos

\* The I immediate: bits 20..31 of the word, sign-extended from bit 31.
LEMMA IImmInverse ==
  ASSUME NEW bin \in U32, NEW v \in U32, SExt(v, 11),
         \A j \in 0..11 : bin[20 + j] = v[j]
  PROVE  IImm(At(bin, 31), Extract(bin, 20, 31)) = v
  <1>1. At(bin, 31) # Zero <=> v[11] = 1 BY SignBit
  <1>2. CASE v[11] = 1
    BY <1>1, <1>2 DEF IImm, SignExtend, OrB, BitRange, Extract, Shr, Mask, AndB, SExt, U32, Pos
  <1>3. CASE v[11] # 1
    BY <1>1, <1>3 DEF IImm, SignExtend, Extract, Shr, Mask, AndB, BitRange, SExt, U32, Pos
  <1>. QED BY <1>2, <1>3

\* slli: bits 20..24 of the word, with bits 25..31 clear.
LEMMA ShImmInverse ==
  ASSUME NEW bin \in U32, NEW v \in U32, \A j \in 5..31 : v[j] = 0,
         \A j \in 0..11 : bin[20 + j] = v[j]
  PROVE  IImm(At(bin, 31), Mask(Extract(bin, 20, 31), 0, 4)) = v
  <1>1. At(bin, 31) = Zero BY SignBit DEF Pos
  <1>. QED BY <1>1 DEF IImm, SignExtend, Extract, Shr, Mask, AndB, BitRange, U32, Pos

\* The S immediate: bits 7..11 and 25..31 of the word.
LEMMA SImmInverse ==
  ASSUME NEW bin \in U32, NEW v \in U32, SExt(v, 11),
         \A j \in 0..4 : bin[7 + j] = v[j], \A j \in 5..11 : bin[20 + j] = v[j]
  PROVE  SImm(bin, At(bin, 31)) = v
  <1>1. At(bin, 31) # Zero <=> v[11] = 1 BY SignBit
  <1>2. CASE v[11] = 1
    BY <1>1, <1>2 DEF SImm, SignExtend, OrB, Shl, BitRange, Extract, Shr, Mask, AndB, SExt, U32, Pos
  <1>3. CASE v[11] # 1
    BY <1>1, <1>3 DEF SImm, SignExtend, OrB, Shl, Extract, Shr, Mask, AndB, BitRange, SExt, U32, Pos
  <1>. QED BY <1>2, <1>3

\* The B immediate: bit 12 from bit 31, bit 11 from bit 7, bits 10..5 from
\* 30..25, bits 4..1 from 11..8, bit 0 clear.
LEMMA BImmInverse ==
  ASSUME NEW bin \in U32, NEW v \in U32, v[0] = 0, SExt(v, 12),
         bin[7] = v[11], \A j \in 1..4 : bin[7 + j] = v[j],
         \A j \in 5..10 : bin[20 + j] = v[j], bin[31] = v[12]
  PROVE  BImm(bin, At(bin, 31)) = v
  <1> DEFINE sign == At(bin, 31)
             raw == OrB(OrB(Shl(Extract(bin, 8, 11), 1), Shl(Extract(bin, 25, 30), 5)),
                        OrB(Shl(At(bin, 7), 11), Shl(sign, 12)))
  <1>1. sign = [j \in Pos |-> IF j = 0 THEN v[12] ELSE 0] BY AtBit DEF Pos
  <1>2. At(bin, 7) = [j \in Pos |-> IF j = 0 THEN v[11] ELSE 0] BY AtBit DEF Pos
  <1>0. /\ Extract(bin, 8, 11) = [j \in Pos |-> IF j <= 3 THEN bin[8 + j] ELSE 0]
        /\ Extract(bin, 25, 30) = [j \in Pos |-> IF j <= 5 THEN bin[25 + j] ELSE 0]
    BY DEF Extract, Shr, Mask, AndB, BitRange, U32, Pos
  <1>3. raw \in [Pos -> Int] BY DEF OrB
  <1>4. \A k \in 0..12 : raw[k] = v[k]
    <2>1. \A k \in 0..4 : raw[k] = v[k]
      BY <1>0, <1>1, <1>2 DEF OrB, Shl, U32, Pos
    <2>2. \A k \in 5..10 : raw[k] = v[k]
      BY <1>0, <1>1, <1>2 DEF OrB, Shl, U32, Pos
    <2>3. raw[11] = v[11] /\ raw[12] = v[12]
      BY <1>0, <1>1, <1>2 DEF OrB, Shl, U32, Pos
    <2>. QED BY <2>1, <2>2, <2>3
  <1>5. \A k \in 13..31 : raw[k] = 0
    BY <1>0, <1>1, <1>2 DEF OrB, Shl, U32, Pos
  <1>6. sign # Zero <=> v[12] = 1 BY SignBit
  <1>7. CASE v[12] = 1
    <2>1. BImm(bin, sign) = OrB(BitRange(13, 31), raw) BY <1>6, <1>7 DEF BImm, SignExtend
    <2>. QED BY <2>1, <1>3, <1>4, <1>5, <1>7 DEF OrB, BitRange, SExt, U32, Pos
  <1>8. CASE v[12] # 1
    <2>1. BImm(bin, sign) = raw BY <1>6, <1>8 DEF BImm, SignExtend
    <2>2. v[12] = 0 BY <1>8 DEF U32, Pos
    <2>. QED BY <2>1, <2>2, <1>3, <1>4, <1>5 DEF OrB, SExt, U32, Pos
  <1>. QED BY <1>7, <1>8

\* The J immediate: bit 20 from bit 31, bits 19..12 in place, bit 11 from
\* bit 20, bits 10..1 from 30..21, bit 0 clear.
LEMMA JImmInverse ==
  ASSUME NEW bin \in U32, NEW v \in U32, v[0] = 0, SExt(v, 20),
         \A j \in 12..19 : bin[j] = v[j], bin[20] = v[11],
         \A j \in 1..10 : bin[20 + j] = v[j], bin[31] = v[20]
  PROVE  JImm(bin, At(bin, 31)) = v
  <1> DEFINE sign == At(bin, 31)
             raw == OrB(OrB(Shl(Extract(bin, 12, 19), 12), Shl(At(bin, 20), 11)),
                        OrB(Shl(Extract(bin, 21, 30), 1), Shl(sign, 20)))
  <1>1. sign = [j \in Pos |-> IF j = 0 THEN v[20] ELSE 0] BY AtBit DEF Pos
  <1>2. At(bin, 20) = [j \in Pos |-> IF j = 0 THEN v[11] ELSE 0] BY AtBit DEF Pos
  <1>0. /\ Extract(bin, 12, 19) = [j \in Pos |-> IF j <= 7 THEN bin[12 + j] ELSE 0]
        /\ Extract(bin, 21, 30) = [j \in Pos |-> IF j <= 9 THEN bin[21 + j] ELSE 0]
    BY DEF Extract, Shr, Mask, AndB, BitRange, U32, Pos
  <1>3. raw \in [Pos -> Int] BY DEF OrB
  <1>4. \A k \in 0..20 : raw[k] = v[k]
    <2>1. \A k \in 0..10 : raw[k] = v[k]
      BY <1>0, <1>1, <1>2 DEF OrB, Shl, U32, Pos
    <2>2. \A k \in 12..19 : raw[k] = v[k]
      BY <1>0, <1>1, <1>2 DEF OrB, Shl, U32, Pos
    <2>3. raw[11] = v[11] /\ raw[20] = v[20]
      BY <1>0, <1>1, <1>2 DEF OrB, Shl, U32, Pos
    <2>. QED BY <2>1, <2>2, <2>3
  <1>5. \A k \in 21..31 : raw[k] = 0
    BY <1>0, <1>1, <1>2 DEF OrB, Shl, U32, Pos
  <1>6. sign # Zero <=> v[20] = 1 BY SignBit
  <1>7. CASE v[20] = 1
    <2>1. JImm(bin, sign) = OrB(BitRange(21, 31), raw) BY <1>6, <1>7 DEF JImm, SignExtend
    <2>. QED BY <2>1, <1>3, <1>4, <1>5, <1>7 DEF OrB, BitRange, SExt, U32, Pos
  <1>8. CASE v[20] # 1
    <2>1. JImm(bin, sign) = raw BY <1>6, <1>8 DEF JImm, SignExtend
    <2>2. v[20] = 0 BY <1>8 DEF U32, Pos
    <2>. QED BY <2>1, <2>2, <1>3, <1>4, <1>5 DEF OrB, SExt, U32, Pos
  <1>. QED BY <1>7, <1>8

\* Where the encoding puts the bits of each format's immediate.
LEMMA EncodeImm ==
  ASSUME NEW i \in EncIns
  PROVE  LET bin == Encode(i)
             f == Table[i.op][1]
         IN  /\ f \in {"I", "Sh"} => \A j \in 0..11 : bin[20 + j] = i.imm[j]
             /\ f = "S" => /\ \A j \in 0..4 : bin[7 + j] = i.imm[j]
                          /\ \A j \in 5..11 : bin[20 + j] = i.imm[j]
             /\ f = "B" => /\ bin[7] = i.imm[11]
                          /\ \A j \in 1..4 : bin[7 + j] = i.imm[j]
                          /\ \A m \in 5..10 : bin[20 + m] = i.imm[m]
                          /\ bin[31] = i.imm[12]
             /\ f = "J" => /\ \A j \in 12..19 : bin[j] = i.imm[j]
                          /\ bin[20] = i.imm[11]
                          /\ \A m \in 1..10 : bin[20 + m] = i.imm[m]
                          /\ bin[31] = i.imm[20]
  <1> DEFINE bin == Encode(i)
             f == Table[i.op][1]
  <1>1. \A b \in Pos : bin[b] = EncBit(i, b) BY DEF Encode
  <1>2. f \in {"I", "Sh"} => \A j \in 0..11 : bin[20 + j] = i.imm[j]
    BY <1>1 DEF EncBit, Pos
  <1>3. f = "S" => /\ \A j \in 0..4 : bin[7 + j] = i.imm[j]
                  /\ \A j \in 5..11 : bin[20 + j] = i.imm[j]
    BY <1>1 DEF EncBit, Pos
  <1>4. f = "B" => /\ bin[7] = i.imm[11]
                  /\ \A j \in 1..4 : bin[7 + j] = i.imm[j]
                  /\ \A m \in 5..10 : bin[20 + m] = i.imm[m]
                  /\ bin[31] = i.imm[12]
    BY <1>1 DEF EncBit, Pos
  <1>5. f = "J" => /\ \A j \in 12..19 : bin[j] = i.imm[j]
                  /\ bin[20] = i.imm[11]
                  /\ \A m \in 1..10 : bin[20 + m] = i.imm[m]
                  /\ bin[31] = i.imm[20]
    BY <1>1 DEF EncBit, Pos
  <1>. QED BY <1>2, <1>3, <1>4, <1>5

\* Bits 25..31 of an slli word are the clear bits 5..11 of its shift amount.
LEMMA ShiftFunct7 ==
  ASSUME NEW i \in EncIns, Table[i.op][1] = "Sh", \A j \in 5..31 : i.imm[j] = 0
  PROVE  Num(Extract(Encode(i), 25, 31)) = 0
  <1>1. \A j \in 0..6 : Encode(i)[25 + j] = 0 BY EncodeImm DEF Pos
  <1>2. FieldVal(Encode(i), 25, 31) = 0 BY <1>1 DEF FieldVal
  <1>. QED BY <1>2, EncodeType, ExtractNum DEF Pos

\* The operations of the opcode 19 arm's table and of the branch arm.
IArith == {"addi", "xori", "ori", "andi"}
Branches == {"beq", "bne", "blt", "bge"}

\* The I arm's table gives each of addi, xori, ori, andi back from its funct3.
LEMMA LookupIInverse ==
  ASSUME NEW op \in IArith
  PROVE  Lookup(ICodes, Table[op][3]) = op
  <1> DEFINE f3 == Table[op][3]
  <1>1. \A c \in ICodes : c[1] = f3 => c[2] = op
    <2>1. CASE op = "addi" BY <2>1 DEF ICodes, Table
    <2>2. CASE op = "xori" BY <2>2 DEF ICodes, Table
    <2>3. CASE op = "ori" BY <2>3 DEF ICodes, Table
    <2>4. CASE op = "andi" BY <2>4 DEF ICodes, Table
    <2>. QED BY <2>1, <2>2, <2>3, <2>4 DEF IArith
  <1>2. <<f3, op>> \in ICodes BY DEF IArith, ICodes, Table
  <1>3. LET ch == CHOOSE c \in ICodes : c[1] = f3 IN ch \in ICodes /\ ch[1] = f3
    BY <1>2
  <1>. QED BY <1>1, <1>2, <1>3 DEF Lookup

\* The branch arm's table gives each branch back from its funct3.
LEMMA LookupBInverse ==
  ASSUME NEW op \in Branches
  PROVE  Lookup(BCodes, Table[op][3]) = op
  <1> DEFINE f3 == Table[op][3]
  <1>1. \A c \in BCodes : c[1] = f3 => c[2] = op
    <2>1. CASE op = "beq" BY <2>1 DEF BCodes, Table
    <2>2. CASE op = "bne" BY <2>2 DEF BCodes, Table
    <2>3. CASE op = "blt" BY <2>3 DEF BCodes, Table
    <2>4. CASE op = "bge" BY <2>4 DEF BCodes, Table
    <2>. QED BY <2>1, <2>2, <2>3, <2>4 DEF Branches
  <1>2. <<f3, op>> \in BCodes BY DEF Branches, BCodes, Table
  <1>3. LET ch == CHOOSE c \in BCodes : c[1] = f3 IN ch \in BCodes /\ ch[1] = f3
    BY <1>2
  <1>. QED BY <1>1, <1>2, <1>3 DEF Lookup

\* The opcode 19 arm: addi, xori, ori, andi.
LEMMA DecodeIArith ==
  ASSUME NEW i \in EncIns, i.op \in IArith, i.rs2 = 0, SExt(i.imm, 11)
  PROVE  DecodeFrom(Encode(i)) = i
  <1> DEFINE bin == Encode(i)
             t == Table[i.op]
  <1>1. t[1] = "I" /\ t[2] = 19 /\ t[3] # 1 BY DEF IArith, Table
  <1>2. /\ Num(MaskLower(bin, 6)) = 19 /\ Num(Extract(bin, 7, 11)) = i.rd
        /\ Num(Extract(bin, 12, 14)) = t[3] /\ Num(Extract(bin, 15, 19)) = i.rs1
        /\ bin # Zero
    BY <1>1, DecodeFields
  <1>3. IImm(At(bin, 31), Extract(bin, 20, 31)) = i.imm
    BY <1>1, EncodeType, EncodeImm, IImmInverse DEF EncIns
  <1>4. Lookup(ICodes, t[3]) = i.op BY LookupIInverse
  <1>5. i = Ins(i.op, i.rd, i.rs1, 0, i.imm) /\ i.op # "invalid" BY DEF EncIns, Ins, IArith
  <1>. QED BY SMTT(120), <1>1, <1>2, <1>3, <1>4, <1>5 DEF DecodeFrom, Checked

\* The opcode 19 arm with funct3 1: slli.
LEMMA DecodeSlli ==
  ASSUME NEW i \in EncIns, i.op = "slli", i.rs2 = 0, \A j \in 5..31 : i.imm[j] = 0
  PROVE  DecodeFrom(Encode(i)) = i
  <1> DEFINE bin == Encode(i)
             t == Table[i.op]
  <1>1. t[1] = "Sh" /\ t[2] = 19 /\ t[3] = 1 BY SMTT(30), TableRows
  <1>2. /\ Num(MaskLower(bin, 6)) = 19 /\ Num(Extract(bin, 7, 11)) = i.rd
        /\ Num(Extract(bin, 12, 14)) = 1 /\ Num(Extract(bin, 15, 19)) = i.rs1
        /\ bin # Zero
    BY <1>1, DecodeFields
  <1>3. Num(Extract(bin, 25, 31)) = 0 BY <1>1, ShiftFunct7
  <1>4. IImm(At(bin, 31), Mask(Extract(bin, 20, 31), 0, 4)) = i.imm
    BY <1>1, EncodeType, EncodeImm, ShImmInverse DEF EncIns
  <1>5. i = Ins("slli", i.rd, i.rs1, 0, i.imm) BY DEF EncIns, Ins
  <1>. QED BY SMTT(120), <1>2, <1>3, <1>4, <1>5 DEF DecodeFrom

\* The branch arm, opcode 99.
LEMMA DecodeBranch ==
  ASSUME NEW i \in EncIns, i.op \in Branches, i.rd = 0, i.imm[0] = 0, SExt(i.imm, 12)
  PROVE  DecodeFrom(Encode(i)) = i
  <1> DEFINE bin == Encode(i)
             t == Table[i.op]
  <1>1. t[1] = "B" /\ t[2] = 99 BY DEF Branches, Table
  <1>2. /\ Num(MaskLower(bin, 6)) = 99 /\ Num(Extract(bin, 12, 14)) = t[3]
        /\ Num(Extract(bin, 15, 19)) = i.rs1 /\ Num(Extract(bin, 20, 24)) = i.rs2
        /\ bin # Zero
    BY <1>1, DecodeFields
  <1>3. BImm(bin, At(bin, 31)) = i.imm
    BY <1>1, EncodeType, EncodeImm, BImmInverse DEF EncIns
  <1>4. Lookup(BCodes, t[3]) = i.op BY LookupBInverse
  <1>5. i = Ins(i.op, 0, i.rs1, i.rs2, i.imm) /\ i.op # "invalid" BY DEF EncIns, Ins, Branches
  <1>. QED BY SMTT(120), <1>1, <1>2, <1>3, <1>4, <1>5 DEF DecodeFrom, Checked

\* The jal arm, opcode 111.
LEMMA DecodeJal ==
  ASSUME NEW i \in EncIns, i.op = "jal", i.rs1 = 0, i.rs2 = 0, i.imm[0] = 0, SExt(i.imm, 20)
  PROVE  DecodeFrom(Encode(i)) = i
  <1> DEFINE bin == Encode(i)
  <1>1. Table[i.op][1] = "J" /\ Table[i.op][2] = 111 BY SMTT(30), TableRows
  <1>2. Num(MaskLower(bin, 6)) = 111 /\ Num(Extract(bin, 7, 11)) = i.rd /\ bin # Zero
    BY <1>1, DecodeFields
  <1>3. JImm(bin, At(bin, 31)) = i.imm
    BY <1>1, EncodeType, EncodeImm, JImmInverse DEF EncIns
  <1>4. i = Ins("jal", i.rd, 0, 0, i.imm) BY DEF EncIns, Ins
  <1>. QED BY SMTT(120), <1>2, <1>3, <1>4 DEF DecodeFrom

\* The lw, jalr and flw arms, opcodes 3, 103 and 7.
LEMMA DecodeLoad ==
  ASSUME NEW i \in EncIns, i.op \in {"lw", "jalr", "flw"}, i.rs2 = 0, SExt(i.imm, 11)
  PROVE  DecodeFrom(Encode(i)) = i
  <1> DEFINE bin == Encode(i)
             t == Table[i.op]
  <1>1. t[1] = "I" BY SMTT(30), TableRows
  <1>2. /\ Num(MaskLower(bin, 6)) = t[2] /\ Num(Extract(bin, 7, 11)) = i.rd
        /\ Num(Extract(bin, 12, 14)) = t[3] /\ Num(Extract(bin, 15, 19)) = i.rs1
        /\ bin # Zero
    BY <1>1, DecodeFields
  <1>3. IImm(At(bin, 31), Extract(bin, 20, 31)) = i.imm
    BY <1>1, EncodeType, EncodeImm, IImmInverse DEF EncIns
  <1>4. i = Ins(i.op, i.rd, i.rs1, 0, i.imm) BY DEF EncIns, Ins
  <1>5. CASE i.op = "lw"
    <2>1. t[2] = 3 /\ t[3] = 2 BY SMTT(30), <1>5, TableRows
    <2>. QED BY SMTT(120), <1>2, <1>3, <1>4, <1>5, <2>1 DEF DecodeFrom
  <1>6. CASE i.op = "jalr"
    <2>1. t[2] = 103 /\ t[3] = 0 BY SMTT(30), <1>6, TableRows
    <2>. QED BY SMTT(120), <1>2, <1>3, <1>4, <1>6, <2>1 DEF DecodeFrom
  <1>7. CASE i.op = "flw"
    <2>1. t[2] = 7 BY SMTT(30), <1>7, TableRows
    <2>. QED BY SMTT(120), <1>2, <1>3, <1>4, <1>7, <2>1 DEF DecodeFrom
  <1>. QED BY <1>5, <1>6, <1>7

\* The sw and fsw arms, opcodes 35 and 39.
LEMMA DecodeStore ==
  ASSUME NEW i \in EncIns, i.op \in {"sw", "fsw"}, i.rd = 0, SExt(i.imm, 11)
  PROVE  DecodeFrom(Encode(i)) = i
  <1> DEFINE bin == Encode(i)
             t == Table[i.op]
  <1>1. t[1] = "S" BY SMTT(30), TableRows
  <1>2. /\ Num(MaskLower(bin, 6)) = t[2] /\ Num(Extract(bin, 12, 14)) = t[3]
        /\ Num(Extract(bin, 15, 19)) = i.rs1 /\ Num(Extract(bin, 20, 24)) = i.rs2
        /\ bin # Zero
    BY <1>1, DecodeFields
  <1>3. SImm(bin, At(bin, 31)) = i.imm
    BY <1>1, EncodeType, EncodeImm, SImmInverse DEF EncIns
  <1>4. i = Ins(i.op, 0, i.rs1, i.rs2, i.imm) BY DEF EncIns, Ins
  <1>5. CASE i.op = "sw"
    <2>1. t[2] = 35 /\ t[3] = 2 BY SMTT(30), <1>5, TableRows
    <2>. QED BY SMTT(120), <1>2, <1>3, <1>4, <1>5, <2>1 DEF DecodeFrom
  <1>6. CASE i.op = "fsw"
    <2>1. t[2] = 39 BY SMTT(30), <1>6, TableRows
    <2>. QED BY SMTT(120), <1>2, <1>3, <1>4, <1>6, <2>1 DEF DecodeFrom
  <1>. QED BY <1>5, <1>6

\* The inw, outb and finw arms, opcodes 11, 43 and 15.
LEMMA DecodeIO ==
  ASSUME NEW i \in EncIns, i.op \in {"inw", "outb", "finw"}, i.rs2 = 0, i.imm = Zero,
         i.op = "outb" => i.rd = 0, i.op # "outb" => i.rs1 = 0
  PROVE  DecodeFrom(Encode(i)) = i
  <1> DEFINE bin == Encode(i)
             t == Table[i.op]
  <1>1. t[1] \in {"In", "Out"} BY SMTT(30), TableRows
  <1>2. /\ Num(MaskLower(bin, 6)) = t[2] /\ Num(Extract(bin, 7, 11)) = i.rd
        /\ Num(Extract(bin, 15, 19)) = i.rs1 /\ bin # Zero
    BY <1>1, DecodeFields
  <1>3. CASE i.op = "inw"
    <2>1. t[2] = 11 BY SMTT(30), <1>3, TableRows
    <2>2. i = Ins("inw", i.rd, 0, 0, Zero) BY <1>3 DEF EncIns, Ins
    <2>. QED BY SMTT(120), <1>2, <2>1, <2>2 DEF DecodeFrom
  <1>4. CASE i.op = "outb"
    <2>1. t[2] = 43 BY SMTT(30), <1>4, TableRows
    <2>2. i = Ins("outb", 0, i.rs1, 0, Zero) BY <1>4 DEF EncIns, Ins
    <2>. QED BY SMTT(120), <1>2, <2>1, <2>2 DEF DecodeFrom
  <1>5. CASE i.op = "finw"
    <2>1. t[2] = 15 BY SMTT(30), <1>5, TableRows
    <2>2. i = Ins("finw", i.rd, 0, 0, Zero) BY <1>5 DEF EncIns, Ins
    <2>. QED BY SMTT(120), <1>2, <2>1, <2>2 DEF DecodeFrom
  <1>. QED BY <1>3, <1>4, <1>5

\* The sample's immediates are u32 patterns.
LEMMA ToBitsType ==
  ASSUME NEW n \in Int
  PROVE  ToBits(n) \in U32 /\ NegBits(n) \in U32
  <1>1. \A k \in 0..31 : BitOf(n, k) \in {0, 1} /\ BitOf(n - 1, k) \in {0, 1} BY BitOfBit
  <1>2. ToBits(n) \in U32 BY <1>1 DEF ToBits, BitOf, U32, Pos
  <1>3. ToBits(n - 1) \in U32 BY <1>1 DEF ToBits, BitOf, U32, Pos
  <1>. QED BY <1>2, <1>3 DEF NegBits, U32

\* A number below 2^5 has bits 5..31 clear.
LEMMA HighClear5 ==
  ASSUME NEW n \in 0..31, NEW k \in 5..31
  PROVE  ToBits(n)[k] = 0
  <1>1. CASE k = 5 BY <1>1 DEF ToBits, Pos
  <1>2. CASE k = 6 BY <1>2 DEF ToBits, Pos
  <1>3. CASE k = 7 BY <1>3 DEF ToBits, Pos
  <1>4. CASE k = 8 BY <1>4 DEF ToBits, Pos
  <1>5. CASE k = 9 BY <1>5 DEF ToBits, Pos
  <1>6. CASE k = 10 BY <1>6 DEF ToBits, Pos
  <1>7. CASE k = 11 BY <1>7 DEF ToBits, Pos
  <1>8. CASE k = 12 BY <1>8 DEF ToBits, Pos
  <1>9. CASE k = 13 BY <1>9 DEF ToBits, Pos
  <1>10. CASE k = 14 BY <1>10 DEF ToBits, Pos
  <1>11. CASE k = 15 BY <1>11 DEF ToBits, Pos
  <1>12. CASE k = 16 BY <1>12 DEF ToBits, Pos
  <1>13. CASE k = 17 BY <1>13 DEF ToBits, Pos
  <1>14. CASE k = 18 BY <1>14 DEF ToBits, Pos
  <1>15. CASE k = 19 BY <1>15 DEF ToBits, Pos
  <1>16. CASE k = 20 BY <1>16 DEF ToBits, Pos
  <1>17. CASE k = 21 BY <1>17 DEF ToBits, Pos
  <1>18. CASE k = 22 BY <1>18 DEF ToBits, Pos
  <1>19. CASE k = 23 BY <1>19 DEF ToBits, Pos
  <1>20. CASE k = 24 BY <1>20 DEF ToBits, Pos
  <1>21. CASE k = 25 BY <1>21 DEF ToBits, Pos
  <1>22. CASE k = 26 BY <1>22 DEF ToBits, Pos
  <1>23. CASE k = 27 BY <1>23 DEF ToBits, Pos
  <1>24. CASE k = 28 BY <1>24 DEF ToBits, Pos
  <1>25. CASE k = 29 BY <1>25 DEF ToBits, Pos
  <1>26. CASE k = 30 BY <1>26 DEF ToBits, Pos
  <1>27. CASE k = 31 BY <1>27 DEF ToBits, Pos
  <1>. QED BY <1>1, <1>2, <1>3, <1>4, <1>5, <1>6, <1>7, <1>8, <1>9, <1>10, <1>11, <1>12, <1>13, <1>14, <1>15, <1>16, <1>17, <1>18, <1>19, <1>20, <1>21, <1>22, <1>23, <1>24, <1>25, <1>26, <1>27

\* A number below 2^11 has bits 11..31 clear.
LEMMA HighClear11 ==
  ASSUME NEW n \in Nat, n < 2048, NEW k \in 11..31
  PROVE  ToBits(n)[k] = 0
  <1>1. CASE k = 11 BY <1>1 DEF ToBits, Pos
  <1>2. CASE k = 12 BY <1>2 DEF ToBits, Pos
  <1>3. CASE k = 13 BY <1>3 DEF ToBits, Pos
  <1>4. CASE k = 14 BY <1>4 DEF ToBits, Pos
  <1>5. CASE k = 15 BY <1>5 DEF ToBits, Pos
  <1>6. CASE k = 16 BY <1>6 DEF ToBits, Pos
  <1>7. CASE k = 17 BY <1>7 DEF ToBits, Pos
  <1>8. CASE k = 18 BY <1>8 DEF ToBits, Pos
  <1>9. CASE k = 19 BY <1>9 DEF ToBits, Pos
  <1>10. CASE k = 20 BY <1>10 DEF ToBits, Pos
  <1>11. CASE k = 21 BY <1>11 DEF ToBits, Pos
  <1>12. CASE k = 22 BY <1>12 DEF ToBits, Pos
  <1>13. CASE k = 23 BY <1>13 DEF ToBits, Pos
  <1>14. CASE k = 24 BY <1>14 DEF ToBits, Pos
  <1>15. CASE k = 25 BY <1>15 DEF ToBits, Pos
  <1>16. CASE k = 26 BY <1>16 DEF ToBits, Pos
  <1>17. CASE k = 27 BY <1>17 DEF ToBits, Pos
  <1>18. CASE k = 28 BY <1>18 DEF ToBits, Pos
  <1>19. CASE k = 29 BY <1>19 DEF ToBits, Pos
  <1>20. CASE k = 30 BY <1>20 DEF ToBits, Pos
  <1>21. CASE k = 31 BY <1>21 DEF ToBits, Pos
  <1>. QED BY <1>1, <1>2, <1>3, <1>4, <1>5, <1>6, <1>7, <1>8, <1>9, <1>10, <1>11, <1>12, <1>13, <1>14, <1>15, <1>16, <1>17, <1>18, <1>19, <1>20, <1>21

\* A number below 2^12 has bits 12..31 clear.
LEMMA HighClear12 ==
  ASSUME NEW n \in Nat, n < 4096, NEW k \in 12..31
  PROVE  ToBits(n)[k] = 0
  <1>1. CASE k = 12 BY <1>1 DEF ToBits, Pos
  <1>2. CASE k = 13 BY <1>2 DEF ToBits, Pos
  <1>3. CASE k = 14 BY <1>3 DEF ToBits, Pos
  <1>4. CASE k = 15 BY <1>4 DEF ToBits, Pos
  <1>5. CASE k = 16 BY <1>5 DEF ToBits, Pos
  <1>6. CASE k = 17 BY <1>6 DEF ToBits, Pos
  <1>7. CASE k = 18 BY <1>7 DEF ToBits, Pos
  <1>8. CASE k = 19 BY <1>8 DEF ToBits, Pos
  <1>9. CASE k = 20 BY <1>9 DEF ToBits, Pos
  <1>10. CASE k = 21 BY <1>10 DEF ToBits, Pos
  <1>11. CASE k = 22 BY <1>11 DEF ToBits, Pos
  <1>12. CASE k = 23 BY <1>12 DEF ToBits, Pos
  <1>13. CASE k = 24 BY <1>13 DEF ToBits, Pos
  <1>14. CASE k = 25 BY <1>14 DEF ToBits, Pos
  <1>15. CASE k = 26 BY <1>15 DEF ToBits, Pos
  <1>16. CASE k = 27 BY <1>16 DEF ToBits, Pos
  <1>17. CASE k = 28 BY <1>17 DEF ToBits, Pos
  <1>18. CASE k = 29 BY <1>18 DEF ToBits, Pos
  <1>19. CASE k = 30 BY <1>19 DEF ToBits, Pos
  <1>20. CASE k = 31 BY <1>20 DEF ToBits, Pos
  <1>. QED BY <1>1, <1>2, <1>3, <1>4, <1>5, <1>6, <1>7, <1>8, <1>9, <1>10, <1>11, <1>12, <1>13, <1>14, <1>15, <1>16, <1>17, <1>18, <1>19, <1>20

\* A number below 2^20 has bits 20..31 clear.
LEMMA HighClear20 ==
  ASSUME NEW n \in Nat, n < 1048576, NEW k \in 20..31
  PROVE  ToBits(n)[k] = 0
  <1>1. CASE k = 20 BY <1>1 DEF ToBits, Pos
  <1>2. CASE k = 21 BY <1>2 DEF ToBits, Pos
  <1>3. CASE k = 22 BY <1>3 DEF ToBits, Pos
  <1>4. CASE k = 23 BY <1>4 DEF ToBits, Pos
  <1>5. CASE k = 24 BY <1>5 DEF ToBits, Pos
  <1>6. CASE k = 25 BY <1>6 DEF ToBits, Pos
  <1>7. CASE k = 26 BY <1>7 DEF ToBits, Pos
  <1>8. CASE k = 27 BY <1>8 DEF ToBits, Pos
  <1>9. CASE k = 28 BY <1>9 DEF ToBits, Pos
  <1>10. CASE k = 29 BY <1>10 DEF ToBits, Pos
  <1>11. CASE k = 30 BY <1>11 DEF ToBits, Pos
  <1>12. CASE k = 31 BY <1>12 DEF ToBits, Pos
  <1>. QED BY <1>1, <1>2, <1>3, <1>4, <1>5, <1>6, <1>7, <1>8, <1>9, <1>10, <1>11, <1>12

\* The immediates each format can carry: sign-extended from the format's top
\* bit, even for B and J, five bits for slli, none for R, In and Out.
ImmShape(f, v) ==
  CASE f \in {"I", "S"} -> SExt(v, 11)
    [] f = "Sh" -> \A j \in 5..31 : v[j] = 0
    [] f = "B" -> v[0] = 0 /\ SExt(v, 12)
    [] f = "J" -> v[0] = 0 /\ SExt(v, 20)
    [] OTHER -> v = Zero

\* A number whose bits b..31 are clear is sign-extended from bit b, and
\* so is the complement that NegBits(n + 1) stands for.
LEMMA SExtBits ==
  ASSUME NEW n \in Nat, NEW b \in 0..31, \A k \in b..31 : ToBits(n)[k] = 0
  PROVE  /\ ToBits(n) \in U32 /\ SExt(ToBits(n), b)
         /\ NegBits(n + 1) \in U32 /\ SExt(NegBits(n + 1), b)
  <1>1. ToBits(n) \in U32 /\ NegBits(n + 1) \in U32 BY ToBitsType
  <1>2. \A k \in b..31 : NegBits(n + 1)[k] = 1 BY DEF NegBits, Pos
  <1>. QED BY <1>1, <1>2 DEF SExt

\* The edge immediates of the sample have the shape of their format.
LEMMA ImmsShape ==
  ASSUME NEW f \in Formats, NEW v \in Imms(f)
  PROVE  v \in U32 /\ ImmShape(f, v)
  <1>1. CASE f \in {"I", "S"}
    <2>1. \A k \in 11..31 : ToBits(0)[k] = 0 /\ ToBits(1)[k] = 0 /\ ToBits(2047)[k] = 0
      BY HighClear11
    <2>2. /\ ToBits(0) \in U32 /\ SExt(ToBits(0), 11) /\ NegBits(0 + 1) \in U32 /\ SExt(NegBits(0 + 1), 11)
          /\ ToBits(1) \in U32 /\ SExt(ToBits(1), 11)
          /\ ToBits(2047) \in U32 /\ SExt(ToBits(2047), 11) /\ NegBits(2047 + 1) \in U32 /\ SExt(NegBits(2047 + 1), 11)
      <3>1. ToBits(0) \in U32 /\ SExt(ToBits(0), 11) /\ NegBits(0 + 1) \in U32 /\ SExt(NegBits(0 + 1), 11)
        BY <2>1, SExtBits
      <3>2. ToBits(1) \in U32 /\ SExt(ToBits(1), 11) /\ NegBits(1 + 1) \in U32 /\ SExt(NegBits(1 + 1), 11)
        BY <2>1, SExtBits
      <3>3. ToBits(2047) \in U32 /\ SExt(ToBits(2047), 11) /\ NegBits(2047 + 1) \in U32 /\ SExt(NegBits(2047 + 1), 11)
        BY <2>1, SExtBits
      <3>. QED BY <3>1, <3>2, <3>3
    <2>3. v \in {ToBits(0), ToBits(1), ToBits(2047), NegBits(1), NegBits(2048)}
      BY <1>1 DEF Imms
    <2>. QED BY <1>1, <2>2, <2>3 DEF ImmShape
  <1>2. CASE f = "Sh"
    <2>1. \A k \in 5..31 : ToBits(0)[k] = 0 /\ ToBits(1)[k] = 0 /\ ToBits(31)[k] = 0
      BY HighClear5
    <2>2. ToBits(0) \in U32 /\ ToBits(1) \in U32 /\ ToBits(31) \in U32 BY ToBitsType
    <2>3. v \in {ToBits(0), ToBits(1), ToBits(31)} BY <1>2 DEF Imms
    <2>. QED BY <1>2, <2>1, <2>2, <2>3 DEF ImmShape
  <1>3. CASE f = "B"
    <2>1. \A k \in 12..31 : ToBits(0)[k] = 0 /\ ToBits(1)[k] = 0 /\ ToBits(2)[k] = 0
                           /\ ToBits(4094)[k] = 0 /\ ToBits(4095)[k] = 0
      BY HighClear12
    <2>2. /\ ToBits(0) \in U32 /\ SExt(ToBits(0), 12) /\ NegBits(1 + 1) \in U32 /\ SExt(NegBits(1 + 1), 12)
          /\ ToBits(2) \in U32 /\ SExt(ToBits(2), 12)
          /\ ToBits(4094) \in U32 /\ SExt(ToBits(4094), 12) /\ NegBits(4095 + 1) \in U32 /\ SExt(NegBits(4095 + 1), 12)
      <3>1. ToBits(0) \in U32 /\ SExt(ToBits(0), 12) /\ NegBits(0 + 1) \in U32 /\ SExt(NegBits(0 + 1), 12)
        BY <2>1, SExtBits
      <3>2. ToBits(1) \in U32 /\ SExt(ToBits(1), 12) /\ NegBits(1 + 1) \in U32 /\ SExt(NegBits(1 + 1), 12)
        BY <2>1, SExtBits
      <3>3. ToBits(2) \in U32 /\ SExt(ToBits(2), 12) /\ NegBits(2 + 1) \in U32 /\ SExt(NegBits(2 + 1), 12)
        BY <2>1, SExtBits
      <3>4. ToBits(4094) \in U32 /\ SExt(ToBits(4094), 12) /\ NegBits(4094 + 1) \in U32 /\ SExt(NegBits(4094 + 1), 12)
        BY <2>1, SExtBits
      <3>5. ToBits(4095) \in U32 /\ SExt(ToBits(4095), 12) /\ NegBits(4095 + 1) \in U32 /\ SExt(NegBits(4095 + 1), 12)
        BY <2>1, SExtBits
      <3>. QED BY <3>1, <3>2, <3>3, <3>4, <3>5
    <2>3. /\ ToBits(0)[0] = 0 /\ ToBits(2)[0] = 0 /\ ToBits(4094)[0] = 0
          /\ NegBits(2)[0] = 0 /\ NegBits(4096)[0] = 0
      BY DEF ToBits, NegBits, Pos
    <2>4. v \in {ToBits(0), ToBits(2), ToBits(4094), NegBits(2), NegBits(4096)}
      BY <1>3 DEF Imms
    <2>. QED BY <1>3, <2>2, <2>3, <2>4 DEF ImmShape
  <1>4. CASE f = "J"
    <2>1. \A k \in 20..31 : ToBits(0)[k] = 0 /\ ToBits(1)[k] = 0 /\ ToBits(2)[k] = 0
                           /\ ToBits(1048574)[k] = 0 /\ ToBits(1048575)[k] = 0
      BY HighClear20
    <2>2. /\ ToBits(0) \in U32 /\ SExt(ToBits(0), 20) /\ NegBits(1 + 1) \in U32 /\ SExt(NegBits(1 + 1), 20)
          /\ ToBits(2) \in U32 /\ SExt(ToBits(2), 20)
          /\ ToBits(1048574) \in U32 /\ SExt(ToBits(1048574), 20)
          /\ NegBits(1048575 + 1) \in U32 /\ SExt(NegBits(1048575 + 1), 20)
      BY <2>1, SExtBits
    <2>3. /\ ToBits(0)[0] = 0 /\ ToBits(2)[0] = 0 /\ ToBits(1048574)[0] = 0
          /\ NegBits(2)[0] = 0 /\ NegBits(1048576)[0] = 0
      BY DEF ToBits, NegBits, Pos
    <2>4. v \in {ToBits(0), ToBits(2), ToBits(1048574), NegBits(2), NegBits(1048576)}
      BY <1>4 DEF Imms
    <2>. QED BY <1>4, <2>2, <2>3, <2>4 DEF ImmShape
  <1>5. CASE f \in {"R", "In", "Out"}
    <2>1. v = Zero BY <1>5 DEF Imms
    <2>2. Zero \in U32 BY DEF Zero, U32
    <2>. QED BY <1>5, <2>1, <2>2 DEF ImmShape
  <1>. QED BY <1>1, <1>2, <1>3, <1>4, <1>5 DEF Formats

\* The operations decode_from has an arm for: the table without slti.
DecodedOps == DOMAIN Table \ {"slti"}

\* Every instruction of a decoded operation, with any registers and any
\* immediate of its format's shape, and 0 in the fields its format lacks.
Encodable ==
  {i \in EncIns :
     LET f == Table[i.op][1]
     IN  /\ i.op \in DecodedOps
         /\ ImmShape(f, i.imm)
         /\ (f \in {"S", "B", "Out"} => i.rd = 0)
         /\ (f \in {"J", "In"} => i.rs1 = 0)
         /\ (f \notin {"R", "S", "B"} => i.rs2 = 0)}

\* decode_from inverts the encoding on every instruction it has an arm for.
THEOREM DecodeEncodeInverse ==
  \A i \in Encodable : DecodeFrom(Encode(i)) = i
  <1> SUFFICES ASSUME NEW i \in Encodable PROVE DecodeFrom(Encode(i)) = i
    OBVIOUS
  <1> DEFINE f == Table[i.op][1]
  <1>0. /\ i \in EncIns /\ i.op \in DecodedOps /\ ImmShape(f, i.imm)
        /\ (f \in {"S", "B", "Out"} => i.rd = 0)
        /\ (f \in {"J", "In"} => i.rs1 = 0)
        /\ (f \notin {"R", "S", "B"} => i.rs2 = 0)
    BY DEF Encodable
  <1>1. CASE i.op \in ROps
    <2>1. f = "R" BY <1>1 DEF ROps, Table
    <2>. QED BY <1>0, <1>1, <2>1, DecodeR DEF ImmShape
  <1>2. CASE i.op \in IArith
    <2>1. f = "I" BY <1>2 DEF IArith, Table
    <2>. QED BY <1>0, <1>2, <2>1, DecodeIArith DEF ImmShape
  <1>3. CASE i.op = "slli"
    <2>1. f = "Sh" BY SMTT(30), <1>3, TableRows
    <2>. QED BY <1>0, <1>3, <2>1, DecodeSlli DEF ImmShape
  <1>4. CASE i.op \in {"lw", "jalr", "flw"}
    <2>1. f = "I" BY SMTT(30), <1>4, TableRows
    <2>. QED BY <1>0, <1>4, <2>1, DecodeLoad DEF ImmShape
  <1>5. CASE i.op \in {"sw", "fsw"}
    <2>1. f = "S" BY SMTT(30), <1>5, TableRows
    <2>. QED BY <1>0, <1>5, <2>1, DecodeStore DEF ImmShape
  <1>6. CASE i.op \in Branches
    <2>1. f = "B" BY <1>6 DEF Branches, Table
    <2>. QED BY <1>0, <1>6, <2>1, DecodeBranch DEF ImmShape
  <1>7. CASE i.op = "jal"
    <2>1. f = "J" BY SMTT(30), <1>7, TableRows
    <2>. QED BY <1>0, <1>7, <2>1, DecodeJal DEF ImmShape
  <1>8. CASE i.op \in {"inw", "outb", "finw"}
    <2>1. f = IF i.op = "outb" THEN "Out" ELSE "In" BY SMTT(30), <1>8, TableRows
    <2>. QED BY <1>0, <1>8, <2>1, DecodeIO DEF ImmShape
  <1>. QED BY <1>0, <1>1, <1>2, <1>3, <1>4, <1>5, <1>6, <1>7, <1>8
           DEF DecodedOps, Table, ROps, IArith, Branches

\* The sample of MCDecode lies in Encodable when it leaves slti out.
LEMMA SampleEncodable ==
  ASSUME EncOps \subseteq DecodedOps
  PROVE  Sample \subseteq Encodable
  <1> SUFFICES ASSUME NEW i \in Sample PROVE i \in Encodable
    BY DEF Sample
  <1>1. PICK op \in EncOps :
          /\ i \in [op : {op}, rd : Regs, rs1 : Regs, rs2 : Regs, imm : Imms(Fmt(op))]
          /\ (Fmt(op) \in {"S", "B", "Out"} => i.rd = 0)
          /\ (Fmt(op) \in {"J", "In"} => i.rs1 = 0)
          /\ (Fmt(op) \notin {"R", "S", "B"} => i.rs2 = 0)
    BY DEF Sample
  <1>2. op \in DOMAIN Table /\ Fmt(op) \in Formats BY <1>1, TableFacts DEF DecodedOps, Fmt
  <1>3. i.imm \in U32 /\ ImmShape(Fmt(op), i.imm) BY <1>1, <1>2, ImmsShape
  <1>. QED BY <1>1, <1>2, <1>3 DEF Encodable, EncIns, Regs, Fmt, DecodedOps

\* The invariant of the decode run, for every choice of operations that
\* leaves slti out: decode_from returns the instruction that was encoded.
THEOREM DecodeInverts ==
  ASSUME EncOps \subseteq DecodedOps
  PROVE  Spec => []DecodeInvertsEncode
  <1>1. Init => DecodeInvertsEncode
    BY SampleEncodable, DecodeEncodeInverse DEF Init, DecodeInvertsEncode
  <1>2. DecodeInvertsEncode /\ [Next]_ins => DecodeInvertsEncode'
    BY DEF DecodeInvertsEncode, Next
  <1>. QED BY <1>1, <1>2, PTL DEF Spec
=============================================================================
