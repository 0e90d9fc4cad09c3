------------------------------ MODULE MCTiming ------------------------------
(***************************************************************************)
(* Small instances of Timing: 8-bit words, 8 registers, 32 words of RAM   *)
(* of which words 4..29 go through the cache (BRAM below 4 and the       *)
(* last 2 words, the stack), 8 predictor counters; the timing run uses 2 *)
(* cache lines, the cold-cache run 4.  As in the code, every cached word  *)
(* below 4 * lines has tag 0.  The programs are the                       *)
(* branch-training loop of the spec and one program that meets each      *)
(* kind of hazard, and a loop with a mostly untaken branch.  The hazards: *)
(* a DDR load and a BRAM load used by the next                            *)
(* instruction and by the one after, a store to the block just loaded, a  *)
(* jal and a jalr (flush).                                                 *)
(***************************************************************************)
EXTENDS Timing

\* An instruction; immediates are words, so -1 is written 255.
Ins(op, rd, rs1, rs2, imm) == [op |-> op, rd |-> rd, rs1 |-> rs1, rs2 |-> rs2, imm |-> imm]

\* Spec section 8, scenario 3 (with n = 4): x5 counts down from n; the
\* bne at byte 8 is taken n - 1 times.
TrainLoopCode(n) ==
  << Ins("addi", 5, 0, 0, n),      \* 0:  x5 <- n
     Ins("addi", 5, 5, 0, 255),    \* 4:  x5 <- x5 - 1
     Ins("bne", 0, 5, 0, 252),     \* 8:  back to 4 while x5 # 0
     Ins("end", 0, 0, 0, 0) >>     \* 12

\* A blt untaken while x5 counts down from n and taken once it wraps
\* below zero: the counter at its pc falls to StronglyUntaken.
BranchMixCode(n) ==
  << Ins("addi", 5, 0, 0, n),      \* 0:  x5 <- n
     Ins("addi", 5, 5, 0, 255),    \* 4:  x5 <- x5 - 1
     Ins("blt", 0, 5, 0, 8),       \* 8:  to 16 once x5 < 0
     Ins("jal", 0, 0, 0, 248),     \* 12: back to 4
     Ins("end", 0, 0, 0, 0) >>     \* 16

\* The first load reads word a: DDR (20, a miss), BRAM (30), a word of
\* the text (5, tag 0; 8, tag 1 with 2 lines, so the failing load replaces
\* a line) or a word past RAM (40).
LoadUseCode(a) ==
  << Ins("lw", 1, 0, 0, a),        \* 0:  x1 <- M[a]
     Ins("add", 2, 1, 1, 0),       \* 4:  reads x1 from the EX slot
     Ins("sw", 0, 0, 2, 21),       \* 8:  M[21] <- x2, same cache block as 20
     Ins("lw", 3, 0, 0, 31),       \* 12: x3 <- M[31], BRAM: ready at WB
     Ins("addi", 4, 0, 0, 1),      \* 16
     Ins("outb", 0, 3, 0, 0),      \* 20: reads x3 from the MA slot
     Ins("jal", 1, 0, 0, 4),       \* 24: x1 <- 28
     Ins("jalr", 0, 1, 0, 8),      \* 28: to 36, a flush
     Ins("end", 0, 0, 0, 0),       \* 32: skipped
     Ins("lw", 5, 0, 0, 30),       \* 36: x5 <- M[30], BRAM
     Ins("outb", 0, 5, 0, 0),      \* 40: reads x5 from the EX slot
     Ins("flw", 2, 0, 0, 22),      \* 44: f2 <- M[22], DDR
     Ins("fsw", 0, 0, 2, 23),      \* 48: reads f2 from the EX slot
     Ins("end", 0, 0, 0, 0) >>     \* 52

\* A store to a word of tag 0 that was never accessed.
ColdStoreCode ==
  << Ins("sw", 0, 0, 0, 8), Ins("end", 0, 0, 0, 0) >>

\* 0 wraps: x5 - 1 = 255, and the branch is taken 255 times.
LoopCounts == {0, 1, 2, 3, 4, 5, 6, 7}
LoadAddrs == {20, 8, 30, 5, 40}

TimingCatalog ==
  TrainLoopCode(0) \o TrainLoopCode(1) \o TrainLoopCode(2) \o TrainLoopCode(3)
  \o TrainLoopCode(4) \o TrainLoopCode(5) \o TrainLoopCode(6) \o TrainLoopCode(7)
  \o LoadUseCode(20) \o LoadUseCode(8) \o LoadUseCode(30) \o LoadUseCode(5)
  \o LoadUseCode(40) \o ColdStoreCode \o BranchMixCode(1) \o BranchMixCode(3)

\* The assembler's encoding of the k-th catalogued instruction is 16 + k;
\* 0 decodes to End, every other word is rejected.
TimingEncode(code) ==
  [i \in 1..Len(code) |-> 16 + CHOOSE k \in 1..Len(TimingCatalog) :
                                 /\ TimingCatalog[k] = code[i]
                                 /\ \A j \in 1..(k - 1) : TimingCatalog[j] # code[i]]
TimingDecode == [w \in Word |-> IF w = 0 THEN Ins("end", 0, 0, 0, 0)
                                ELSE IF w - 16 \in 1..Len(TimingCatalog) THEN TimingCatalog[w - 16]
                                ELSE NoInstr]

NoInput == [kind |-> "empty", items |-> <<>>]
TrainLoop(n) == [data |-> <<>>, text |-> TimingEncode(TrainLoopCode(n)),
                 input |-> NoInput, output |-> "empty"]
LoadUse(a) == [data |-> <<>>, text |-> TimingEncode(LoadUseCode(a)),
               input |-> NoInput, output |-> "buffer"]
BranchMix(n) == [data |-> <<>>, text |-> TimingEncode(BranchMixCode(n)),
                 input |-> NoInput, output |-> "empty"]
ColdStore == [data |-> <<>>, text |-> TimingEncode(ColdStoreCode),
              input |-> NoInput, output |-> "empty"]

MCTimingScenarios == {TrainLoop(n) : n \in LoopCounts} \cup {LoadUse(a) : a \in LoadAddrs}
                     \cup {BranchMix(1), BranchMix(3)}
MCColdScenarios == {ColdStore}

=============================================================================
