----------------------------- MODULE CpuProofs -----------------------------
(***************************************************************************)
(* Proofs about the datapath (Cpu) for every value of the constants: word *)
(* arithmetic, the loaded image, and that one cycle_one_full keeps the    *)
(* registers, memory, I/O and result well typed.  The invariant DInv adds *)
(* to CpuTypeOK that the instruction range lies inside RAM: the fetch at  *)
(* pc reads mem[pc \div 4] and moves pc to pc + 4, which stay in range    *)
(* only because the text does (Cpu::new, init_from_slice).  Both the      *)
(* debugger (SimProofs) and the cycle-count model (TimingProofs) rest on *)
(* these lemmas.                                                           *)
(***************************************************************************)
EXTENDS Cpu, TLAPS

(***************************************************************************)
(* Arithmetic of words.                                                    *)
(***************************************************************************)

\* The modulus 2^W is a positive integer of at least 16.
LEMMA ModulusFacts == Modulus \in Nat /\ Modulus >= 16
  <1>1. CASE W = 4  BY <1>1 DEF Modulus
  <1>2. CASE W = 8  BY <1>2 DEF Modulus
  <1>3. CASE W = 16 BY <1>3 DEF Modulus
  <1>4. CASE W = 32 BY <1>4 DEF Modulus
  <1>. QED BY <1>1, <1>2, <1>3, <1>4, WAssumption

\* wrapping arithmetic always yields a word.
LEMMA WrapIsWord ==
  ASSUME NEW x \in Int
  PROVE  Wrap(x) \in Word
  BY ModulusFacts DEF Wrap, Word

\* The fill pattern 0xCC..CC of Memory::new is a word.
LEMMA FillIsWord == Fill \in Word
  BY ModulusFacts DEF Fill, Word

\* A power of two below the width is a positive integer.
LEMMA PowIsNat ==
  ASSUME NEW s \in 0..(W - 1)
  PROVE  2^s \in Nat \ {0}
  BY PowAssumption, WAssumption

(***************************************************************************)
(* The ALU yields a word for every operation of the R and I formats,      *)
(* provided a shift amount is below the width (the overflowing amount is  *)
(* masked or panics before the ALU is reached).                           *)
(***************************************************************************)
\* The three bitwise operations yield words.
LEMMA BitwiseIsWord ==
  ASSUME NEW a \in Word, NEW b \in Word
  PROVE  XorWord(a, b) \in Word /\ OrWord(a, b) \in Word /\ AndWord(a, b) \in Word
  <1>1. 0 \in Word BY ModulusFacts DEF Word
  <1>. QED BY <1>1, Zenon DEF XorWord, OrWord, AndWord, BitwiseWith

LEMMA AluIsWord ==
  ASSUME NEW op \in ROps \cup IAluOps, NEW a \in Word, NEW b \in Word,
         IsShift(op) => b \in 0..(W - 1)
  PROVE  Alu(op, a, b) \in Word
  <1>1. Alu(op, a, b) \in {Wrap(a + b), Wrap(a - b), XorWord(a, b), OrWord(a, b),
                          AndWord(a, b), Bool2Word(ToSigned(a) < ToSigned(b))}
        \/ (IsShift(op) /\ Alu(op, a, b) \in {ShiftLeft(a, b), ShiftRightLogical(a, b)})
    BY DEF Alu, AluR, AluI, ROps, IAluOps, IsShift
  <1>2. Bool2Word(ToSigned(a) < ToSigned(b)) \in Word
    BY ModulusFacts DEF Bool2Word, Word
  <1>3. ASSUME IsShift(op) PROVE ShiftLeft(a, b) \in Word /\ ShiftRightLogical(a, b) \in Word
    <2>1. 2^b \in Nat \ {0} BY <1>3, PowIsNat
    <2>. QED BY <2>1, WrapIsWord DEF ShiftLeft, ShiftRightLogical, Word
  <1>4. Wrap(a + b) \in Word /\ Wrap(a - b) \in Word
    BY WrapIsWord, ModulusFacts DEF Word
  <1>5. XorWord(a, b) \in Word /\ OrWord(a, b) \in Word /\ AndWord(a, b) \in Word
    BY BitwiseIsWord
  <1>. QED BY <1>1, <1>2, <1>3, <1>4, <1>5
\* An image of x data and y text words that fits in RAM: its byte
\* addresses and word counts are words.
LEMMA ImageBounds ==
  ASSUME NEW x \in Nat, NEW y \in Nat, x + y <= RamWords
  PROVE  /\ 4 * x \in Word /\ x + y \in Word /\ RamWords - 1 \in Word
         /\ 4 * x \in Nat /\ 4 * (x + y) \in Nat
         /\ 4 * x <= 4 * (x + y) /\ 4 * (x + y) <= 4 * RamWords
  <1>1. RamWords \in Nat \ {0} /\ Modulus \in Nat /\ 4 * RamWords + 4 <= Modulus
    BY RamAssumption, ModulusFacts
  <1>. QED BY <1>1 DEF Word

\* init_from_slice: memory holding the data, then the text, then the fill
\* pattern holds words only.
LEMMA ImageMem ==
  ASSUME NEW data \in Seq(Word), NEW text \in Seq(Word),
         Len(data) + Len(text) <= RamWords
  PROVE  [a \in MemAddrs |-> IF a < Len(data) THEN data[a + 1]
                             ELSE IF a < Len(data) + Len(text)
                                  THEN text[a - Len(data) + 1]
                                  ELSE Fill] \in [MemAddrs -> Word]
  <1>1. \A a \in MemAddrs : a < Len(data) => data[a + 1] \in Word
    <2> TAKE a \in MemAddrs
    <2> HAVE a < Len(data)
    <2>1. a + 1 \in 1..Len(data) BY RamAssumption DEF MemAddrs
    <2>. QED BY <2>1
  <1>2. \A a \in MemAddrs : ~(a < Len(data)) /\ a < Len(data) + Len(text)
                            => text[a - Len(data) + 1] \in Word
    <2> TAKE a \in MemAddrs
    <2> HAVE ~(a < Len(data)) /\ a < Len(data) + Len(text)
    <2>1. a - Len(data) + 1 \in 1..Len(text) BY RamAssumption DEF MemAddrs
    <2>. QED BY <2>1
  <1>. QED BY <1>1, <1>2, FillIsWord
(***************************************************************************)
(* The datapath invariant.                                                 *)
(***************************************************************************)
DInv ==
  /\ CpuTypeOK
  /\ instrRange.lo <= instrRange.hi /\ instrRange.hi <= 4 * RamWords

\* The records the datapath starts from and reports are well typed.
LEMMA CpuRecords ==
  /\ NoSpy \in SpyResult
  /\ NoInstr \in Instr
  /\ 0 \in Word /\ 0 \in Regs
  BY ModulusFacts, NRegsAssumption DEF NoSpy, SpyResult, NoInstr, Instr, Ops, Word, Regs

\* Cpu::new: the loaded image is well typed and its text lies in RAM.
LEMMA InitDInv ==
  ASSUME NEW sc \in Scenarios, CpuInit(sc)
  PROVE  DInv
  <1>2. /\ sc \in Scenario
        /\ Len(sc.data) + Len(sc.text) <= RamWords
    BY ScenariosAssumption
  <1>20. Len(sc.data) + Len(sc.text) <= RamWords
    BY <1>2
  <1>3. sc.data \in Seq(Word) /\ sc.text \in Seq(Word)
    BY <1>2 DEF Scenario
  <1>21. Len(sc.data) \in Nat /\ Len(sc.text) \in Nat
    BY <1>3
  <1>4. RamWords \in Nat \ {0} /\ 4 * RamWords + 4 <= Modulus /\ Modulus \in Nat
    BY RamAssumption, ModulusFacts
  <1>15. pc = 4 * Len(sc.data)
    BY DEF CpuInit
  <1>16. reg = [i \in Regs |-> CASE i = 2 -> RamWords - 1
                                [] i = 4 -> Len(sc.data) + Len(sc.text)
                                [] OTHER -> 0]
    BY DEF CpuInit
  <1>17. mem = [a \in MemAddrs |-> IF a < Len(sc.data) THEN sc.data[a + 1]
                                  ELSE IF a < Len(sc.data) + Len(sc.text)
                                       THEN sc.text[a - Len(sc.data) + 1]
                                       ELSE Fill]
    BY DEF CpuInit
  <1>18. instrRange = [lo |-> 4 * Len(sc.data), hi |-> 4 * (Len(sc.data) + Len(sc.text))]
    BY DEF CpuInit
  <1>5. pc \in Word
    <2>1. 4 * Len(sc.data) \in Word
      BY <1>20, <1>21, ImageBounds
    <2>. QED BY <2>1, <1>15
  <1>6. reg \in [Regs -> Word]
    <2>1. RamWords - 1 \in Word /\ Len(sc.data) + Len(sc.text) \in Word /\ 0 \in Word
      BY <1>20, <1>21, ImageBounds, CpuRecords
    <2>. QED BY <2>1, <1>16
  <1>7. freg \in [Regs -> Word]
    BY CpuRecords, FOneAssumption DEF CpuInit
  <1>8. mem \in [MemAddrs -> Word]
    BY <1>3, <1>20, <1>17, ImageMem
  <1>9. /\ instrRange \in [lo : Nat, hi : Nat]
        /\ instrRange.lo <= instrRange.hi /\ instrRange.hi <= 4 * RamWords
    <2>1. /\ 4 * Len(sc.data) \in Nat /\ 4 * (Len(sc.data) + Len(sc.text)) \in Nat
          /\ 4 * Len(sc.data) <= 4 * (Len(sc.data) + Len(sc.text))
          /\ 4 * (Len(sc.data) + Len(sc.text)) <= 4 * RamWords
      BY <1>20, <1>21, ImageBounds
    <2>. QED BY <2>1, <1>18
  <1>10. /\ input \in [kind : InKinds, items : Seq(Item), readIndex : Nat]
         /\ output \in [kind : OutKinds, bytes : Seq(0..255)]
    BY <1>2 DEF CpuInit, Scenario
  <1>11. cpuResult \in [flow : Flows, err : Errors, spy : SpyResult, instr : Instr]
    BY CpuRecords DEF CpuInit, Result, Flows, Errors
  <1>12. spyRead \subseteq Word /\ spyWrite \subseteq Word
    BY DEF CpuInit
  <1>13. CpuTypeOK
    BY <1>5, <1>6, <1>7, <1>8, <1>9, <1>10, <1>11, <1>12 DEF CpuTypeOK
  <1>. QED BY <1>9, <1>13 DEF DInv
(***************************************************************************)
(* One cycle_one_full keeps the datapath well typed and leaves the        *)
(* instruction range alone.                                                *)
(***************************************************************************)
\* What a cycle returns: never the "none" of the start-up state.
ResultType == [flow : Flows \ {"none"}, err : Errors, spy : SpyResult, instr : Instr]

\* RegFile::set: writing a word to a register keeps a register file.
LEMMA SetRegType ==
  ASSUME NEW f \in [Regs -> Word], NEW id \in Regs, NEW v \in Word
  PROVE  SetReg(f, id, v) \in [Regs -> Word]
  BY DEF SetReg

\* Every word address of RAM is a word.
LEMMA MemAddrsAreWords == MemAddrs \subseteq Word
  BY RamAssumption, ModulusFacts DEF MemAddrs, Word

\* A cycle result built from well-typed parts is well typed.
LEMMA ResultIsTyped ==
  ASSUME NEW f \in Flows \ {"none"}, NEW e \in Errors, NEW sp \in SpyResult,
         NEW ins \in Instr
  PROVE  Result(f, e, sp, ins) \in ResultType
  BY DEF Result, ResultType

\* on_read / on_write report well-typed spy results inside RAM.
LEMMA SpyIsTyped ==
  ASSUME CpuTypeOK, NEW a \in MemAddrs, NEW v \in Word
  PROVE  ReadSpy(a) \in SpyResult /\ WriteSpy(a, v) \in SpyResult
  BY MemAddrsAreWords, CpuRecords DEF CpuTypeOK, ReadSpy, WriteSpy, SpyResult

\* The flow after a memory access is Continue or a spy break.
LEMMA AccessIsTyped ==
  ASSUME NEW sp \in SpyResult, NEW ins \in Instr
  PROVE  AccessResult(sp, ins) \in ResultType
  BY ResultIsTyped DEF AccessResult, Flows, Errors

\* instr_fetch inside the text: pc + 4 is a word and an aligned pc names
\* a word of RAM.
LEMMA FetchFacts ==
  ASSUME DInv, PcInText
  PROVE  /\ pc + 4 \in Word
         /\ pc % 4 = 0 => pc \div 4 \in MemAddrs
         /\ Fetched \in Instr
  <1>1. /\ pc \in Nat /\ instrRange.hi \in Nat
        /\ pc < instrRange.hi /\ instrRange.hi <= 4 * RamWords
    BY DEF DInv, CpuTypeOK, PcInText, Word
  <1>2. RamWords \in Nat \ {0} /\ Modulus \in Nat /\ 4 * RamWords + 4 <= Modulus
    BY RamAssumption, ModulusFacts
  <1>3. pc + 4 \in Word
    BY <1>1, <1>2 DEF Word
  <1>4. pc % 4 = 0 => pc \div 4 \in MemAddrs
    BY <1>1, <1>2 DEF MemAddrs
  <1>5. Fetched \in Instr
    <2>1. mem \in [MemAddrs -> Word] BY DEF DInv, CpuTypeOK
    <2>2. CASE pc % 4 = 0
      BY <2>1, <2>2, <1>4, DecodeAssumption DEF Fetched
    <2>3. CASE pc % 4 # 0
      BY <2>3, CpuRecords DEF Fetched
    <2>. QED BY <2>2, <2>3
  <1>. QED BY <1>3, <1>4, <1>5
\* The frame every datapath step keeps.
CpuFrameOK == CpuTypeOK' /\ instrRange' = instrRange
CpuStepOK == CpuFrameOK /\ cpuResult' \in ResultType

\* The facts of the current state the step lemmas use.
LEMMA DInvFacts ==
  ASSUME DInv
  PROVE  /\ CpuTypeOK /\ pc \in Word
         /\ reg \in [Regs -> Word] /\ freg \in [Regs -> Word]
         /\ mem \in [MemAddrs -> Word]
  BY DEF DInv, CpuTypeOK

\* execute, R and I arms, and write-back.
LEMMA ExecAluStep ==
  ASSUME DInv, PcInText, NEW ins \in Instr, ExecAlu(ins)
  PROVE  CpuStepOK
  <1> DEFINE a == reg[ins.rs1]
             b == IF ins.op \in ROps THEN reg[ins.rs2] ELSE ins.imm
  <1>1. /\ ins.op \in ROps \cup IAluOps /\ pc' = pc + 4
        /\ UNCHANGED <<freg, mem, instrRange, spyRead, spyWrite, input, output>>
    BY DEF ExecAlu
  <1>2. a \in Word /\ b \in Word /\ ins.rd \in Regs
    BY DInvFacts DEF Instr
  <1>3. reg' \in [Regs -> Word] /\ cpuResult' \in ResultType
    <2>1. CASE /\ ~(IsShift(ins.op) /\ ShiftOverflows(b))
               /\ reg' = SetReg(reg, ins.rd, Alu(ins.op, a, b))
               /\ cpuResult' = Ok(ins)
      <3>1. IsShift(ins.op) => b \in 0..(W - 1)
        BY <1>2, <2>1, WAssumption DEF ShiftOverflows, Word
      <3>2. Alu(ins.op, a, b) \in Word BY <1>1, <1>2, <3>1, AluIsWord
      <3>. QED BY <2>1, <3>2, <1>2, DInvFacts, SetRegType, ResultIsTyped, CpuRecords DEF Ok, Flows, Errors
    <2>2. CASE /\ IsShift(ins.op) /\ ShiftOverflows(b)
               /\ reg' = SetReg(reg, ins.rd, Alu(ins.op, a, ShiftMask(b)))
               /\ cpuResult' = Ok(ins)
      <3>1. ShiftMask(b) \in 0..(W - 1) /\ ShiftMask(b) \in Word
        BY <1>2, WAssumption, ModulusFacts DEF ShiftMask, Word
      <3>2. Alu(ins.op, a, ShiftMask(b)) \in Word BY <1>1, <1>2, <3>1, AluIsWord
      <3>. QED BY <2>2, <3>2, <1>2, DInvFacts, SetRegType, ResultIsTyped, CpuRecords DEF Ok, Flows, Errors
    <2>3. CASE /\ IsShift(ins.op) /\ ShiftOverflows(b)
               /\ cpuResult' = Crash("ShiftOverflow", ins)
               /\ UNCHANGED reg
      BY <2>3, DInvFacts, ResultIsTyped, CpuRecords DEF Crash, Flows, Errors
    <2>. QED BY <2>1, <2>2, <2>3 DEF ExecAlu
  <1>. QED BY <1>1, <1>3, FetchFacts DEF CpuStepOK, CpuFrameOK, CpuTypeOK, ResultType, DInv
\* An address that passes bounds_check! is a word of RAM.
LEMMA InBoundsIsMem ==
  ASSUME NEW a \in Word, ~OutOfBounds(a)
  PROVE  a \in MemAddrs
  BY RamAssumption DEF OutOfBounds, MemAddrs, Word

\* instr_fetch fails: nothing but the result changes.
LEMMA FetchOutOfBoundsStep ==
  ASSUME DInv, FetchOutOfBounds
  PROVE  CpuStepOK
  <1>1. cpuResult' \in ResultType
    BY ResultIsTyped, CpuRecords DEF FetchOutOfBounds, Fail, Flows, Errors
  <1>. QED BY <1>1, DInvFacts DEF FetchOutOfBounds, CpuStepOK, CpuFrameOK, CpuTypeOK, ResultType

\* instr_decode fails.
LEMMA DecodeInvalidStep ==
  ASSUME DInv, PcInText, NEW ins \in Instr, DecodeInvalid(ins)
  PROVE  CpuStepOK
  <1>1. cpuResult' \in ResultType /\ pc' \in Word
    BY ResultIsTyped, CpuRecords, FetchFacts DEF DecodeInvalid, Fail, Flows, Errors
  <1>. QED BY <1>1, DInvFacts DEF DecodeInvalid, CpuStepOK, CpuFrameOK, CpuTypeOK, ResultType

\* lw / flw: memory_access and write-back.
LEMMA ExecLoadStep ==
  ASSUME DInv, PcInText, NEW ins \in Instr, ExecLoad(ins)
  PROVE  CpuStepOK
  <1> DEFINE addr == Wrap(reg[ins.rs1] + ins.imm)
  <1>1. addr \in Word /\ ins.rd \in Regs
    BY DInvFacts, WrapIsWord DEF Instr, Word
  <1>2. /\ pc' = pc + 4
        /\ UNCHANGED <<mem, instrRange, spyRead, spyWrite, input, output>>
    BY DEF ExecLoad
  <1>3. reg' \in [Regs -> Word] /\ freg' \in [Regs -> Word] /\ cpuResult' \in ResultType
    <2>1. CASE OutOfBounds(addr)
      BY <2>1, DInvFacts, ResultIsTyped, CpuRecords DEF ExecLoad, Fail, Flows, Errors
    <2>2. CASE ~OutOfBounds(addr)
      <3>1. addr \in MemAddrs BY <1>1, <2>2, InBoundsIsMem
      <3>2. mem[addr] \in Word /\ ReadSpy(addr) \in SpyResult
        BY <3>1, DInvFacts, SpyIsTyped, CpuRecords
      <3>3. cpuResult' = AccessResult(ReadSpy(addr), ins) BY <2>2 DEF ExecLoad
      <3>4. \/ reg' = SetReg(reg, ins.rd, mem[addr]) /\ UNCHANGED freg
            \/ freg' = SetReg(freg, ins.rd, mem[addr]) /\ UNCHANGED reg
        BY <2>2 DEF ExecLoad
      <3>5. cpuResult' \in ResultType BY <3>2, <3>3, AccessIsTyped
      <3>6. CASE reg' = SetReg(reg, ins.rd, mem[addr]) /\ UNCHANGED freg
        BY <1>1, <3>2, <3>5, <3>6, DInvFacts, SetRegType
      <3>7. CASE freg' = SetReg(freg, ins.rd, mem[addr]) /\ UNCHANGED reg
        BY <1>1, <3>2, <3>5, <3>7, DInvFacts, SetRegType
      <3>. QED BY <3>4, <3>5, <3>6, <3>7
    <2>. QED BY <2>1, <2>2
  <1>. QED BY <1>2, <1>3, FetchFacts, DInvFacts DEF CpuStepOK, CpuFrameOK, CpuTypeOK, ResultType

\* sw / fsw: memory_access; on_write, then the write.
LEMMA ExecStoreStep ==
  ASSUME DInv, PcInText, NEW ins \in Instr, ExecStore(ins)
  PROVE  CpuStepOK
  <1> DEFINE addr == Wrap(reg[ins.rs1] + ins.imm)
             val == IF ins.op = "sw" THEN reg[ins.rs2] ELSE freg[ins.rs2]
  <1>1. addr \in Word /\ val \in Word
    BY DInvFacts, WrapIsWord DEF Instr, Word
  <1>2. /\ pc' = pc + 4
        /\ UNCHANGED <<reg, freg, instrRange, spyRead, spyWrite, input, output>>
    BY DEF ExecStore
  <1>3. mem' \in [MemAddrs -> Word] /\ cpuResult' \in ResultType
    <2>1. CASE OutOfBounds(addr)
      BY <2>1, DInvFacts, ResultIsTyped, CpuRecords DEF ExecStore, Fail, Flows, Errors
    <2>2. CASE ~OutOfBounds(addr)
      <3>1. addr \in MemAddrs BY <1>1, <2>2, InBoundsIsMem
      <3>2. WriteSpy(addr, val) \in SpyResult BY <1>1, <3>1, DInvFacts, SpyIsTyped
      <3>3. /\ cpuResult' = AccessResult(WriteSpy(addr, val), ins)
            /\ mem' = [mem EXCEPT ![addr] = val]
        BY <2>2 DEF ExecStore
      <3>. QED BY <1>1, <3>2, <3>3, DInvFacts, AccessIsTyped
    <2>. QED BY <2>1, <2>2
  <1>. QED BY <1>2, <1>3, FetchFacts, DInvFacts DEF CpuStepOK, CpuFrameOK, CpuTypeOK, ResultType

\* Branches, jal and jalr: a new pc, and for the jumps a link register.
LEMMA ExecJumpStep ==
  ASSUME DInv, PcInText, NEW ins \in Instr,
         ExecBranch(ins) \/ ExecJal(ins) \/ ExecJalr(ins)
  PROVE  CpuStepOK
  <1>0. pc \in Int /\ reg[ins.rs1] \in Int /\ ins.imm \in Int /\ ins.rd \in Regs
    BY DInvFacts DEF Instr, Word
  <1>1. /\ Wrap(pc + ins.imm) \in Word /\ Wrap(reg[ins.rs1] + ins.imm) \in Word
        /\ pc + 4 \in Word /\ ins.rd \in Regs
    BY <1>0, WrapIsWord, FetchFacts
  <1>2. Ok(ins) \in ResultType
    BY ResultIsTyped, CpuRecords DEF Ok, Flows, Errors
  <1>3. CASE ExecBranch(ins)
    BY <1>1, <1>2, <1>3, DInvFacts DEF ExecBranch, CpuStepOK, CpuFrameOK, CpuTypeOK, ResultType
  <1>4. CASE ExecJal(ins) \/ ExecJalr(ins)
    <2>1. reg' = SetReg(reg, ins.rd, pc + 4) BY <1>4 DEF ExecJal, ExecJalr
    <2>2. reg' \in [Regs -> Word] BY <1>1, <2>1, DInvFacts, SetRegType
    <2>. QED BY <1>1, <1>2, <1>4, <2>2, DInvFacts DEF ExecJal, ExecJalr, CpuStepOK, CpuFrameOK, CpuTypeOK, ResultType
  <1>. QED BY <1>3, <1>4
\* outb and end.
LEMMA ExecOutbEndStep ==
  ASSUME DInv, PcInText, NEW ins \in Instr, ExecOutb(ins) \/ ExecEnd(ins)
  PROVE  CpuStepOK
  <1>1. pc + 4 \in Word /\ output \in [kind : OutKinds, bytes : Seq(0..255)]
    BY FetchFacts DEF DInv, CpuTypeOK
  <1>2. /\ Ok(ins) \in ResultType /\ Fail("Io", ins) \in ResultType
        /\ Result("exit", "none", NoSpy, ins) \in ResultType
    BY ResultIsTyped, CpuRecords DEF Ok, Fail, Flows, Errors
  <1>3. CASE ExecOutb(ins)
    <2>1. reg[ins.rs1] % 256 \in 0..255 BY DInvFacts DEF Instr, Word
    <2>2. output' \in [kind : OutKinds, bytes : Seq(0..255)]
      <3>1. Append(output.bytes, reg[ins.rs1] % 256) \in Seq(0..255)
        BY <1>1, <2>1
      <3>2. CASE output.kind = "empty" BY <1>1, <1>3, <3>2 DEF ExecOutb
      <3>3. CASE output.kind # "empty"
        <4>1. output' = [output EXCEPT !.bytes = Append(@, reg[ins.rs1] % 256)]
          BY <1>3, <3>3 DEF ExecOutb
        <4>. QED BY <1>1, <3>1, <4>1
      <3>. QED BY <3>2, <3>3
    <2>. QED BY <1>1, <1>2, <1>3, <2>2, DInvFacts DEF ExecOutb, CpuStepOK, CpuFrameOK, CpuTypeOK, ResultType
  <1>4. CASE ExecEnd(ins)
    BY <1>1, <1>2, <1>4, DInvFacts DEF ExecEnd, CpuStepOK, CpuFrameOK, CpuTypeOK, ResultType
  <1>. QED BY <1>3, <1>4

\* inw / finw.
LEMMA ExecInStep ==
  ASSUME DInv, PcInText, NEW ins \in Instr, ExecIn(ins)
  PROVE  CpuStepOK
  <1> DEFINE k == input.readIndex
  <1>1. input \in [kind : InKinds, items : Seq(Item), readIndex : Nat]
    BY DEF DInv, CpuTypeOK
  <1>2. /\ Ok(ins) \in ResultType /\ Fail("Io", ins) \in ResultType
        /\ Crash("InputExhausted", ins) \in ResultType
    BY ResultIsTyped, CpuRecords DEF Ok, Fail, Crash, Flows, Errors
  <1>3. ins.rd \in Regs BY DEF Instr
  <1>4. k < Len(input.items) => input.items[k + 1].val \in Word
    <2> HAVE k < Len(input.items)
    <2>1. k + 1 \in 1..Len(input.items) /\ input.items \in Seq(Item) BY <1>1
    <2>2. input.items[k + 1] \in Item BY <2>1
    <2>. QED BY <2>2 DEF Item
  <1>5. /\ pc' = pc + 4
        /\ UNCHANGED <<mem, instrRange, spyRead, spyWrite, output>>
    BY DEF ExecIn
  <1>6. /\ reg' \in [Regs -> Word] /\ freg' \in [Regs -> Word]
        /\ input' \in [kind : InKinds, items : Seq(Item), readIndex : Nat]
        /\ cpuResult' \in ResultType
    <2>1. CASE UNCHANGED <<reg, freg, input>> /\ cpuResult' \in ResultType
      BY <2>1, <1>1, DInvFacts
    <2>2. CASE /\ k < Len(input.items)
               /\ \/ reg' = SetReg(reg, ins.rd, input.items[k + 1].val) /\ UNCHANGED freg
                  \/ freg' = SetReg(freg, ins.rd, input.items[k + 1].val) /\ UNCHANGED reg
               /\ \/ UNCHANGED input
                  \/ input' = [input EXCEPT !.readIndex = k + 1]
               /\ cpuResult' = Ok(ins)
      <3>1. input.items[k + 1].val \in Word BY <2>2, <1>4
      <3>2. reg' \in [Regs -> Word] /\ freg' \in [Regs -> Word]
        <4>1. CASE reg' = SetReg(reg, ins.rd, input.items[k + 1].val) /\ UNCHANGED freg
          BY <4>1, <3>1, <1>3, DInvFacts, SetRegType
        <4>2. CASE freg' = SetReg(freg, ins.rd, input.items[k + 1].val) /\ UNCHANGED reg
          BY <4>2, <3>1, <1>3, DInvFacts, SetRegType
        <4>. QED BY <2>2, <4>1, <4>2
      <3>3. input' \in [kind : InKinds, items : Seq(Item), readIndex : Nat]
        BY <2>2, <1>1
      <3>. QED BY <2>2, <3>2, <3>3, <1>2
    <2>3. \/ UNCHANGED <<reg, freg, input>> /\ cpuResult' \in ResultType
          \/ /\ k < Len(input.items)
             /\ \/ reg' = SetReg(reg, ins.rd, input.items[k + 1].val) /\ UNCHANGED freg
                \/ freg' = SetReg(freg, ins.rd, input.items[k + 1].val) /\ UNCHANGED reg
             /\ \/ UNCHANGED input
                \/ input' = [input EXCEPT !.readIndex = k + 1]
             /\ cpuResult' = Ok(ins)
      BY <1>2 DEF ExecIn
    <2>. QED BY <2>1, <2>2, <2>3
  <1>. QED BY <1>5, <1>6, FetchFacts, DInvFacts DEF CpuStepOK, CpuFrameOK, CpuTypeOK, ResultType

\* Cpu::cycle_one_full.
LEMMA CycleTyped ==
  ASSUME DInv, CycleOneFull
  PROVE  CpuStepOK
  <1>1. CASE FetchOutOfBounds BY <1>1, FetchOutOfBoundsStep
  <1>2. CASE PcInText /\ Execute(Fetched)
    <2>1. Fetched \in Instr BY <1>2, FetchFacts
    <2>. QED BY <1>2, <2>1, DecodeInvalidStep, ExecAluStep, ExecLoadStep, ExecStoreStep,
                ExecJumpStep, ExecOutbEndStep, ExecInStep DEF Execute
  <1>. QED BY <1>1, <1>2 DEF CycleOneFull

\* A cycle keeps the datapath invariant.
LEMMA CycleDInv ==
  ASSUME DInv, CycleOneFull
  PROVE  DInv'
  BY CycleTyped DEF CpuStepOK, CpuFrameOK, DInv
=============================================================================
