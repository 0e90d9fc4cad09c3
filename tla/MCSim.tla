------------------------------- MODULE MCSim -------------------------------
(***************************************************************************)
(* Small instances of Sim for TLC: 8-bit words, 8 registers, 12 words of  *)
(* RAM, and a handful of programs, each driving one path of               *)
(* cycle_one_full: a counted loop with a store and an output, a store     *)
(* into the text, a jump out of the text, SLD and binary input, a shift   *)
(* by more than the width, and loads and stores under a spy.              *)
(***************************************************************************)
EXTENDS Sim

\* An instruction; immediates are words, so -8 is written 248.
Ins(op, rd, rs1, rs2, imm) == [op |-> op, rd |-> rd, rs1 |-> rs1, rs2 |-> rs2, imm |-> imm]

NoInput == [kind |-> "empty", items |-> <<>>]

LoopProgramCode ==
  << Ins("lw", 1, 0, 0, 0),        \* 4:  x1 <- M[0]
     Ins("addi", 5, 0, 0, 0),      \* 8:  x5 <- 0
     Ins("add", 5, 5, 1, 0),       \* 12: x5 <- x5 + x1
     Ins("addi", 1, 1, 0, 255),    \* 16: x1 <- x1 - 1
     Ins("bne", 0, 1, 0, 248),     \* 20: back to 12 while x1 # 0
     Ins("sw", 0, 0, 5, 10),       \* 24: M[10] <- x5
     Ins("outb", 0, 5, 0, 0),      \* 28: print x5
     Ins("end", 0, 0, 0, 0) >>

StoreIntoTextCode ==
  << Ins("addi", 1, 0, 0, 1), Ins("sw", 0, 1, 1, 0),
     Ins("end", 0, 0, 0, 0) >>

JumpOutCode ==
  << Ins("addi", 3, 0, 0, 1), Ins("jal", 1, 0, 0, 40),
     Ins("end", 0, 0, 0, 0) >>

SldReaderCode ==
  << Ins("inw", 1, 0, 0, 0), Ins("finw", 2, 0, 0, 0),
     Ins("inw", 3, 0, 0, 0), Ins("end", 0, 0, 0, 0) >>

BinaryReaderCode ==
  << Ins("inw", 1, 0, 0, 0), Ins("inw", 2, 0, 0, 0),
     Ins("end", 0, 0, 0, 0) >>

WideShiftCode ==
  << Ins("addi", 1, 0, 0, 9), Ins("sll", 2, 1, 1, 0),
     Ins("end", 0, 0, 0, 0) >>

CallReturnCode ==
  << Ins("jal", 1, 0, 0, 8), Ins("end", 0, 0, 0, 0),
     Ins("addi", 2, 0, 0, 1), Ins("jalr", 0, 1, 0, 0) >>

SpiedAccessCode ==
  << Ins("addi", 1, 0, 0, 7), Ins("sw", 0, 0, 1, 10),
     Ins("lw", 2, 0, 0, 10), Ins("fsw", 0, 0, 1, 11),
     Ins("flw", 2, 0, 0, 11), Ins("end", 0, 0, 0, 0) >>

\* The instructions the images use, numbered: the assembler's encoding
\* of the k-th one is the word 16 + k.
Catalog == LoopProgramCode \o StoreIntoTextCode \o JumpOutCode \o SldReaderCode \o BinaryReaderCode \o WideShiftCode \o CallReturnCode \o SpiedAccessCode

Encode(code) ==
  [i \in 1..Len(code) |-> 16 + CHOOSE k \in 1..Len(Catalog) :
                                 /\ Catalog[k] = code[i]
                                 /\ \A j \in 1..(k - 1) : Catalog[j] # code[i]]

\* decode_from on these words: 0 decodes to End, the encodings to their
\* instruction, every other word is rejected.
MCDecode == [w \in Word |-> IF w = 0 THEN Ins("end", 0, 0, 0, 0)
                            ELSE IF w - 16 \in 1..Len(Catalog) THEN Catalog[w - 16]
                            ELSE NoInstr]

\* sum = 3 + 2 + 1 computed by a loop, stored to word 10, printed.
LoopProgram ==
  [data |-> <<3>>,
   text |-> Encode(LoopProgramCode),    \* 32
   input |-> NoInput, output |-> "buffer"]

\* A store into its own code: word 1 is text.
StoreIntoText ==
  [data |-> <<>>,
   text |-> Encode(StoreIntoTextCode),
   input |-> NoInput, output |-> "empty"]

\* A jump past the end of the text.
JumpOut ==
  [data |-> <<>>,
   text |-> Encode(JumpOutCode),
   input |-> NoInput, output |-> "empty"]

\* Reads an integer, a float, and one item too many from an SLD file.
SldReader ==
  [data |-> <<>>,
   text |-> Encode(SldReaderCode),
   input |-> [kind |-> "sld", items |-> << [ty |-> "i32", val |-> 5],
                                            [ty |-> "f32", val |-> 7] >>],
   output |-> "empty"]

\* Reads two words of a binary stdin file.
BinaryReader ==
  [data |-> <<>>,
   text |-> Encode(BinaryReaderCode),
   input |-> [kind |-> "binary", items |-> << [ty |-> "i32", val |-> 5],
                                               [ty |-> "i32", val |-> 6] >>],
   output |-> "empty"]

\* Shifts by 9, more than the 8-bit width.
WideShift ==
  [data |-> <<>>,
   text |-> Encode(WideShiftCode),
   input |-> NoInput, output |-> "empty"]

\* A call to a subroutine that returns to the end instruction.
CallReturn ==
  [data |-> <<>>,
   text |-> Encode(CallReturnCode),
   input |-> NoInput, output |-> "empty"]

\* Integer and float stores and loads on data words 10 and 11.
SpiedAccess ==
  [data |-> <<>>,
   text |-> Encode(SpiedAccessCode),
   input |-> NoInput, output |-> "empty"]

MCScenarios == {LoopProgram, StoreIntoText, JumpOut, SldReader, BinaryReader,
                WideShift, CallReturn, SpiedAccess}

MCModes == {RunMode, [kind |-> "step", arg |-> 1], [kind |-> "step", arg |-> 2],
            [kind |-> "until", arg |-> 12]}

\* Scenario sets for the runs that look at one behaviour.
MCBinaryScenarios == {BinaryReader}
MCSpyScenarios == {SpiedAccess}
MCWideShiftScenarios == {WideShift}
MCSldScenarios == {SldReader}

AllSpyKinds == {{"read"}, {"write"}, {"read", "write"}}
=============================================================================
