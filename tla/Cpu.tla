-------------------------------- MODULE Cpu --------------------------------
(***************************************************************************)
(* The datapath of core_sim/src/cpu.rs: one call of Cpu::cycle_one_full   *)
(* is one step (fetch, decode, register read, execute, memory access,     *)
(* write-back), together with the state it touches in memory.rs,          *)
(* reg_file.rs, io.rs and sld.rs.                                          *)
(*                                                                         *)
(* Memory is a function from word addresses to words; the bytes never    *)
(* written by the image keep the fill pattern 0xCC..CC.  The decoder is   *)
(* the table DecodeFrom from words to decoded instructions (Isa!Instr).   *)
(* Float registers hold bit patterns: float arithmetic is not modelled,   *)
(* float loads, stores and finw are.  Statistics, the branch predictor,   *)
(* the cache and the pipeline timing only feed statistics and are left    *)
(* out here.                                                               *)
(***************************************************************************)
EXTENDS Isa, Sequences

CONSTANTS
  RamWords,   \* RAM_BYTE_SIZE >> 2
  FOne,       \* bit pattern of 1.0f32, stored in freg 1 at start-up
  Scenarios,  \* the images and I/O the simulator may be started with
  DecodeFrom  \* Instr::decode_from, on the words the images use

Item == [ty : {"i32", "f32"}, val : Word]
InKinds == {"empty", "binary", "sld"}
OutKinds == {"empty", "buffer"}
Scenario == [data : Seq(Word), text : Seq(Word),
             input : [kind : InKinds, items : Seq(Item)], output : OutKinds]

ASSUME RamAssumption == RamWords \in Nat \ {0} /\ 4 * RamWords + 4 <= Modulus
ASSUME FOneAssumption == FOne \in Word
ASSUME DecodeAssumption == DecodeFrom \in [Word -> Instr]
ASSUME ScenariosAssumption ==
  /\ Scenarios \subseteq Scenario
  /\ \A sc \in Scenarios : Len(sc.data) + Len(sc.text) <= RamWords

MemAddrs == 0..(RamWords - 1)
\* vec![0xCC; SIZE] read as one word
Fill == (12 * (Modulus - 1)) \div 15

VARIABLES
  pc,          \* Cpu.pc: byte address of the next instruction
  reg,         \* RegFile.inner
  freg,        \* RegFile.inner_f, as bit patterns
  mem,         \* Memory.inner, word by word
  instrRange,  \* Memory.instr_mem_range, in bytes
  spyRead,     \* keys of Spy.on_read (word addresses)
  spyWrite,    \* keys of Spy.on_write
  input,       \* the Input object: kind, items, read_index
  output,      \* the Output object: kind and bytes pushed so far
  cpuResult    \* what the last cycle_one_full returned

cpuVars == <<pc, reg, freg, mem, instrRange, spyRead, spyWrite, input,
             output, cpuResult>>

NoSpy == [kind |-> "none", addr |-> 0, before |-> 0, after |-> 0]
SpyResult == [kind : {"none", "read", "write"}, addr : Word,
              before : Word, after : Word]
Flows == {"none", "continue", "spy", "exit", "error", "panic"}
Errors == {"none", "PcOutOfBounds", "Invalid", "OutOfBounds", "Io",
           "ShiftOverflow", "InputExhausted"}
NoInstr == [op |-> "invalid", rd |-> 0, rs1 |-> 0, rs2 |-> 0, imm |-> 0]

\* A CycleResult (flow and trace), or the error or panic cutting it short.
Result(flow, err, spy, ins) == [flow |-> flow, err |-> err, spy |-> spy, instr |-> ins]

\* Word a lies in the instruction range.
InText(a) == 4 * a \in instrRange.lo..(instrRange.hi - 1)

CpuTypeOK ==
  /\ pc \in Word
  /\ reg \in [Regs -> Word]
  /\ freg \in [Regs -> Word]
  /\ mem \in [MemAddrs -> Word]
  /\ instrRange \in [lo : Nat, hi : Nat]
  /\ spyRead \subseteq Word /\ spyWrite \subseteq Word
  /\ input \in [kind : InKinds, items : Seq(Item), readIndex : Nat]
  /\ output \in [kind : OutKinds, bytes : Seq(0..255)]
  /\ cpuResult \in [flow : Flows, err : Errors, spy : SpyResult, instr : Instr]

(***************************************************************************)
(* Start-up: Cpu::new.  The header gives data_len and text_len in words;  *)
(* init_from_slice copies the image after the header to address 0, the    *)
(* text range is [4 data_len, 4 (data_len + text_len)), pc starts at its  *)
(* beginning, hp = data_len + text_len, sp = RAM words - 1, f1 = 1.0.     *)
(***************************************************************************)
CpuInit(sc) ==
  LET d == Len(sc.data)
      t == Len(sc.text)
  IN  /\ pc = 4 * d
      /\ reg = [i \in Regs |-> CASE i = 2 -> RamWords - 1
                                 [] i = 4 -> d + t
                                 [] OTHER -> 0]
      /\ freg = [i \in Regs |-> IF i = 1 THEN FOne ELSE 0]
      /\ mem = [a \in MemAddrs |-> IF a < d THEN sc.data[a + 1]
                                   ELSE IF a < d + t THEN sc.text[a - d + 1]
                                   ELSE Fill]
      /\ instrRange = [lo |-> 4 * d, hi |-> 4 * (d + t)]
      /\ spyRead = {} /\ spyWrite = {}
      /\ input = [kind |-> sc.input.kind, items |-> sc.input.items,
                  readIndex |-> 0]
      /\ output = [kind |-> sc.output, bytes |-> <<>>]
      /\ cpuResult = Result("none", "none", NoSpy, NoInstr)

\* RegFile::set and set_f: a write to register 0 is dropped.
SetReg(file, id, val) == IF id = 0 THEN file ELSE [file EXCEPT ![id] = val]

\* Memory::get_from_pc: the pc must lie in the instruction range.
PcInText == pc \in instrRange.lo..(instrRange.hi - 1)

\* Variant: bounds_check! without the instruction-range test.
OutsideRamOnly(a) == 4 * a >= 4 * RamWords

\* bounds_check!: the word must be inside RAM and outside the text.
OutOfBounds(a) == 4 * a >= 4 * RamWords \/ InText(a)

\* The decoded word at pc.  get_raw_addr reads the four bytes at pc; an
\* unaligned pc straddles two words, taken here as a word that does not
\* decode.
Fetched == IF pc % 4 = 0 THEN DecodeFrom[mem[pc \div 4]] ELSE NoInstr

\* Variant: on_write called after the word is written.
WriteSpyAfterStore(a, val) ==
  IF a \in spyWrite
    THEN [kind |-> "write", addr |-> a, before |-> val, after |-> val]
    ELSE NoSpy

\* Memory::on_read / on_write: the spy result of an access to a, if spied.
ReadSpy(a) == IF a \in spyRead
              THEN [kind |-> "read", addr |-> a, before |-> 0, after |-> 0]
              ELSE NoSpy
WriteSpy(a, val) == IF a \in spyWrite
                    THEN [kind |-> "write", addr |-> a, before |-> mem[a], after |-> val]
                    ELSE NoSpy

\* The flow after a memory access: a spy turns Continue into Break(Spy).
AccessResult(spy, ins) == Result(IF spy.kind = "none" THEN "continue" ELSE "spy",
                                 "none", spy, ins)
Ok(ins) == Result("continue", "none", NoSpy, ins)
Fail(err, ins) == Result("error", err, NoSpy, ins)
Crash(err, ins) == Result("panic", err, NoSpy, ins)

(***************************************************************************)
(* instr_fetch fails: the pc is outside the text; nothing is advanced.    *)
(***************************************************************************)
FetchOutOfBounds ==
  /\ ~PcInText
  /\ cpuResult' = Fail("PcOutOfBounds", NoInstr)
  /\ UNCHANGED <<pc, reg, freg, mem, instrRange, spyRead, spyWrite, input, output>>

(***************************************************************************)
(* The remaining steps fetch ins = Fetched; instr_fetch has already moved *)
(* pc to pc + 4 when decode or execute fails.                              *)
(***************************************************************************)
DecodeInvalid(ins) ==
  /\ ins.op = "invalid"
  /\ pc' = pc + 4
  /\ cpuResult' = Fail("Invalid", ins)
  /\ UNCHANGED <<reg, freg, mem, instrRange, spyRead, spyWrite, input, output>>

Alu(op, a, b) == IF op \in ROps THEN AluR(op, a, b) ELSE AluI(op, a, b)

\* R and I ALU instructions.  A shift by W or more is rs1 << rs2 with an
\* overflowing amount: the debug build panics, the release build masks.
ExecAlu(ins) ==
  LET a == reg[ins.rs1]
      b == IF ins.op \in ROps THEN reg[ins.rs2] ELSE ins.imm
  IN  /\ ins.op \in ROps \cup IAluOps
      /\ pc' = pc + 4
      /\ \/ /\ ~(IsShift(ins.op) /\ ShiftOverflows(b))
            /\ reg' = SetReg(reg, ins.rd, Alu(ins.op, a, b))
            /\ cpuResult' = Ok(ins)
         \/ /\ IsShift(ins.op) /\ ShiftOverflows(b)
            /\ reg' = SetReg(reg, ins.rd, Alu(ins.op, a, ShiftMask(b)))
            /\ cpuResult' = Ok(ins)
         \/ /\ IsShift(ins.op) /\ ShiftOverflows(b)
            /\ cpuResult' = Crash("ShiftOverflow", ins)
            /\ UNCHANGED reg
      /\ UNCHANGED <<freg, mem, instrRange, spyRead, spyWrite, input, output>>

\* lw / flw: Memory::get_i / get_f at rs1 + imm, then write-back.
ExecLoad(ins) ==
  LET addr == Wrap(reg[ins.rs1] + ins.imm)
  IN  /\ ins.op \in LoadOps
      /\ pc' = pc + 4
      /\ IF OutOfBounds(addr)
           THEN /\ cpuResult' = Fail("OutOfBounds", ins)
                /\ UNCHANGED <<reg, freg>>
           ELSE /\ cpuResult' = AccessResult(ReadSpy(addr), ins)
                /\ IF ins.op = "lw"
                     THEN reg' = SetReg(reg, ins.rd, mem[addr]) /\ UNCHANGED freg
                     ELSE freg' = SetReg(freg, ins.rd, mem[addr]) /\ UNCHANGED reg
      /\ UNCHANGED <<mem, instrRange, spyRead, spyWrite, input, output>>

\* sw / fsw: Memory::set / set_f; on_write sees the old word first.
ExecStore(ins) ==
  LET addr == Wrap(reg[ins.rs1] + ins.imm)
      val == IF ins.op = "sw" THEN reg[ins.rs2] ELSE freg[ins.rs2]
  IN  /\ ins.op \in StoreOps
      /\ pc' = pc + 4
      /\ IF OutOfBounds(addr)
           THEN /\ cpuResult' = Fail("OutOfBounds", ins)
                /\ UNCHANGED mem
           ELSE /\ cpuResult' = AccessResult(WriteSpy(addr, val), ins)
                /\ mem' = [mem EXCEPT ![addr] = val]
      /\ UNCHANGED <<reg, freg, instrRange, spyRead, spyWrite, input, output>>

\* beq / bne / blt / bge: taken branches go to old_pc + imm.
ExecBranch(ins) ==
  /\ ins.op \in BOps
  /\ pc' = IF BranchTaken(ins.op, reg[ins.rs1], reg[ins.rs2])
             THEN Wrap(pc + ins.imm) ELSE pc + 4
  /\ cpuResult' = Ok(ins)
  /\ UNCHANGED <<reg, freg, mem, instrRange, spyRead, spyWrite, input, output>>

\* jal: rd <- pc + 4, pc <- old_pc + imm.
ExecJal(ins) ==
  /\ ins.op = "jal"
  /\ pc' = Wrap(pc + ins.imm)
  /\ reg' = SetReg(reg, ins.rd, pc + 4)
  /\ cpuResult' = Ok(ins)
  /\ UNCHANGED <<freg, mem, instrRange, spyRead, spyWrite, input, output>>

\* jalr: the target is computed from rs1 before rd is written.
ExecJalr(ins) ==
  /\ ins.op = "jalr"
  /\ pc' = Wrap(reg[ins.rs1] + ins.imm)
  /\ reg' = SetReg(reg, ins.rd, pc + 4)
  /\ cpuResult' = Ok(ins)
  /\ UNCHANGED <<freg, mem, instrRange, spyRead, spyWrite, input, output>>

\* outb: Output::outb(rs as u8); EmptyIO refuses it.
ExecOutb(ins) ==
  /\ ins.op = "outb"
  /\ pc' = pc + 4
  /\ IF output.kind = "empty"
       THEN cpuResult' = Fail("Io", ins) /\ UNCHANGED output
       ELSE /\ output' = [output EXCEPT !.bytes = Append(@, reg[ins.rs1] % 256)]
            /\ cpuResult' = Ok(ins)
  /\ UNCHANGED <<reg, freg, mem, instrRange, spyRead, spyWrite, input>>

(***************************************************************************)
(* inw / finw: Input::inw / finw.  EmptyIO refuses.  BinaryInput copies   *)
(* content[read_index..read_index+4] (a panic on a short file) and never  *)
(* moves read_index.  SldData indexes seq[read_index] (a panic past the   *)
(* end), refuses an item of the other type, else moves read_index.        *)
(***************************************************************************)
ExecIn(ins) ==
  LET want == IF ins.op = "inw" THEN "i32" ELSE "f32"
      k == input.readIndex
      Deliver(v) == IF ins.op = "inw"
                      THEN reg' = SetReg(reg, ins.rd, v) /\ UNCHANGED freg
                      ELSE freg' = SetReg(freg, ins.rd, v) /\ UNCHANGED reg
      Refuse == cpuResult' = Fail("Io", ins) /\ UNCHANGED <<reg, freg, input>>
      Exhausted == cpuResult' = Crash("InputExhausted", ins) /\ UNCHANGED <<reg, freg, input>>
  IN  /\ ins.op \in InOps
      /\ pc' = pc + 4
      /\ \/ input.kind = "empty" /\ Refuse
         \/ input.kind # "empty" /\ k >= Len(input.items) /\ Exhausted
         \/ /\ input.kind = "binary" /\ k < Len(input.items)
            /\ Deliver(input.items[k + 1].val) /\ cpuResult' = Ok(ins)
            /\ UNCHANGED input
         \/ /\ input.kind = "sld" /\ k < Len(input.items)
            /\ input.items[k + 1].ty # want /\ Refuse
         \/ /\ input.kind = "sld" /\ k < Len(input.items)
            /\ input.items[k + 1].ty = want
            /\ Deliver(input.items[k + 1].val)
            /\ input' = [input EXCEPT !.readIndex = k + 1]
            /\ cpuResult' = Ok(ins)
      /\ UNCHANGED <<mem, instrRange, spyRead, spyWrite, output>>

\* end: the cycle returns Exit; pc has moved past it.
ExecEnd(ins) ==
  /\ ins.op = "end"
  /\ pc' = pc + 4
  /\ cpuResult' = Result("exit", "none", NoSpy, ins)
  /\ UNCHANGED <<reg, freg, mem, instrRange, spyRead, spyWrite, input, output>>

Execute(ins) ==
  \/ DecodeInvalid(ins) \/ ExecAlu(ins) \/ ExecLoad(ins) \/ ExecStore(ins)
  \/ ExecBranch(ins) \/ ExecJal(ins) \/ ExecJalr(ins) \/ ExecOutb(ins)
  \/ ExecIn(ins) \/ ExecEnd(ins)

\* Cpu::cycle_one_full
CycleOneFull == FetchOutOfBounds \/ (PcInText /\ Execute(Fetched))

\* Memory::add_spy with a non-empty SpyWatchKind.
AddSpy(kind, a) ==
  /\ spyRead' = IF "read" \in kind THEN spyRead \cup {a} ELSE spyRead
  /\ spyWrite' = IF "write" \in kind THEN spyWrite \cup {a} ELSE spyWrite
  /\ UNCHANGED <<pc, reg, freg, mem, instrRange, input, output, cpuResult>>
=============================================================================
