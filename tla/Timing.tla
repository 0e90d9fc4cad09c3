------------------------------- MODULE Timing -------------------------------
(***************************************************************************)
(* The cycle-count model of the time_predict build (cpu.rs with           *)
(* branch_predictor.rs, cache.rs and the stat counters): the same          *)
(* cycle_one_full as Cpu, which in this build also trains the branch      *)
(* predictor, probes the cache on a data access, counts instructions,     *)
(* branches and cache hits, and pushes the instruction, its stall bubbles *)
(* and its flush bubbles through the five-slot pipeline queue.  The       *)
(* clocks it returns are added up by single_cycle.  Nothing here feeds    *)
(* back into the architectural state: the model checks what the counts   *)
(* say.                                                                    *)
(*                                                                         *)
(* The driver is the batch loop: cycles until the CPU halts or fails.     *)
(* Float arithmetic is not modelled (Cpu), so use_fpu is always false.   *)
(***************************************************************************)
EXTENDS Cpu, FiniteSets

CONSTANTS
  NumCounters,  \* NUM_COUNTERS (64)
  CacheLines,   \* CACHE_NUM_LINES (16384)
  BramWords,    \* BRAM_WORD_SIZE (16384)
  StackWords,   \* STACK_WORD_SIZE (256)
  DdrCycles     \* DDR2_ACCESS_CYCLES (90)

ASSUME TimingAssumption ==
  /\ NumCounters \in Nat \ {0} /\ CacheLines \in Nat \ {0}
  /\ BramWords \in Nat /\ StackWords \in Nat /\ DdrCycles \in Nat \ {0}

VARIABLES
  pipelineState,    \* Cpu.pipeline_state: slot 1 is the EX slot
  branchPredictor,  \* BranchPredictor.inner, counters 0 (StronglyUntaken) .. 3
  cache,            \* Cache.inner: the tag held by each line
  bStat,            \* BranchStat: the four prediction/outcome counts
  cStat,            \* CacheStat: hits and misses
  iStat,            \* InstrStat.instr_executed, per operation
  elapsedClocks     \* Simulator.elapsed_clocks

timingVars == <<pipelineState, branchPredictor, cache, bStat, cStat, iStat,
                elapsedClocks>>
tvars == <<cpuVars, timingVars>>

NoReg == -1
Stages == {"EX", "MA", "WB"}
\* Option<PipelineStat>: a bubble is a slot with some = FALSE.
Stat == [some : BOOLEAN, ex : Nat, ma : Nat, ready : Stages,
         wb : Regs \cup {NoReg}, fwb : Regs \cup {NoReg}]
NoStat == [some |-> FALSE, ex |-> 0, ma |-> 0, ready |-> "EX", wb |-> NoReg, fwb |-> NoReg]
Outcomes == {"TT", "TU", "UT", "UU"}   \* taken/untaken, predicted taken/untaken

TimingTypeOK ==
  /\ pipelineState \in [1..5 -> Stat]
  /\ branchPredictor \in [0..(NumCounters - 1) -> 0..3]
  /\ cache \in [0..(CacheLines - 1) -> Nat]
  /\ bStat \in [Outcomes -> Nat]
  /\ cStat \in [hit : Nat, miss : Nat]
  /\ iStat \in [Ops -> Nat]
  /\ elapsedClocks \in Nat

\* Cpu::new in the time_predict build; Simulator::new zeroes the clocks.
TimingInit ==
  /\ pipelineState = [k \in 1..5 |-> NoStat]
  /\ branchPredictor = [i \in 0..(NumCounters - 1) |-> 2]
  /\ cache = [l \in 0..(CacheLines - 1) |-> 0]
  /\ bStat = [o \in Outcomes |-> 0]
  /\ cStat = [hit |-> 0, miss |-> 0]
  /\ iStat = [o \in Ops |-> 0]
  /\ elapsedClocks = 0

(***************************************************************************)
(* Branch predictor: two-bit saturating counters indexed by address.       *)
(***************************************************************************)
\* Variant: next() without the saturating arm.
CounterNextUnbounded(c) == c + 1
CounterNext(c) == IF c = 3 THEN 3 ELSE c + 1
CounterPrev(c) == IF c = 0 THEN 0 ELSE c - 1
Predict(bp, addr) == bp[addr % NumCounters] >= 2
UpdateState(bp, addr, taken) ==
  [bp EXCEPT ![addr % NumCounters] = IF taken THEN CounterNext(@) ELSE CounterPrev(@)]

\* Variant: the last else (untaken, predicted untaken) is missing.
BranchOutcomeNoUU(pred, taken) ==
  IF pred THEN (IF taken THEN "TT" ELSE "UT") ELSE (IF taken THEN "TU" ELSE "none")

\* BranchStat::update_stat
BranchOutcome(pred, taken) ==
  IF pred THEN (IF taken THEN "TT" ELSE "UT") ELSE (IF taken THEN "TU" ELSE "UU")

\* InstrStat::encounter_instr
EncounterInstr(st, op) == [st EXCEPT ![op] = @ + 1]

\* Variant: the hit and miss branches swapped.
CacheStatUpdateSwapped(cs, hit) ==
  IF hit THEN [cs EXCEPT !.miss = @ + 1] ELSE [cs EXCEPT !.hit = @ + 1]

\* CacheStat::update_stat
CacheStatUpdate(cs, hit) ==
  IF hit THEN [cs EXCEPT !.hit = @ + 1] ELSE [cs EXCEPT !.miss = @ + 1]

(***************************************************************************)
(* Cache::access_cache: direct mapped; a hit when the line holds the tag, *)
(* which is stored in any case.  The argument is the word address of the  *)
(* access, shifted right by two once more.                                 *)
(***************************************************************************)
CacheLine(addr) == (addr \div 4) % CacheLines
CacheTag(addr) == (addr \div 4) \div CacheLines
CacheHit(addr) == cache[CacheLine(addr)] = CacheTag(addr)

\* memory_access, use_bram: the word is outside [BRAM_WORD_SIZE, RAM words - STACK_WORD_SIZE).
UseBram(addr) == ~(addr >= BramWords /\ addr < RamWords - StackWords)

\* memory_access: the MA cycles of an access to BRAM, a cached word or DDR.
MaCycles(addr) == IF UseBram(addr) THEN 1 ELSE IF CacheHit(addr) THEN 2 ELSE DdrCycles

(***************************************************************************)
(* calc_stall_cycles: the source registers each instruction reads         *)
(* (regid_is_included_in_srcs, fregid_is_included_in_srcs).              *)
(***************************************************************************)
IntSrcs(ins) ==
  IF ins.op \in ROps \cup BOps \cup {"sw"} THEN {ins.rs1, ins.rs2}
  ELSE IF ins.op \in IAluOps \cup {"lw", "jalr", "outb", "flw", "fsw"} THEN {ins.rs1}
  ELSE {}
FloatSrcs(ins) == IF ins.op = "fsw" THEN {ins.rs2} ELSE {}

\* The occupant of a slot writes a register the instruction reads.
Hazard(slot, ins) ==
  slot.some /\ (slot.wb \in IntSrcs(ins) \/ slot.fwb \in FloatSrcs(ins))

ExStall(slot, ins) ==
  IF ~Hazard(slot, ins) THEN 0
  ELSE IF slot.ready = "WB" THEN 2 ELSE IF slot.ready = "MA" THEN 1 ELSE 0
\* Variant: the MA slot is not inspected.
MaStallIgnored(slot, ins) == 0
MaStall(slot, ins) ==
  IF Hazard(slot, ins) /\ slot.ready = "WB" THEN 1 ELSE 0

StallCycles(pipe, ins) ==
  LET e == ExStall(pipe[1], ins)
      m == MaStall(pipe[2], ins)
  IN  IF e >= m THEN e ELSE m

(***************************************************************************)
(* push_instr_to_pipeline_and_get_cycles on a pair of the queue and the  *)
(* cycles counted so far: the cycles of a push are the larger of the new  *)
(* instruction's EX cycles and the MA cycles of the one leaving EX.       *)
(***************************************************************************)
\* Variant: push_front without the pop_back, so the queue grows.
PushNoPop(st, slot) ==
  LET exNew == IF slot.some THEN slot.ex ELSE 1
      maOld == IF st.pipe[1].some THEN st.pipe[1].ma ELSE 1
      n == Cardinality(DOMAIN st.pipe)
  IN  [pipe |-> [k \in 1..(n + 1) |-> IF k = 1 THEN slot ELSE st.pipe[k - 1]],
       cycles |-> st.cycles + (IF exNew >= maOld THEN exNew ELSE maOld)]

Push(st, slot) ==
  LET exNew == IF slot.some THEN slot.ex ELSE 1
      maOld == IF st.pipe[1].some THEN st.pipe[1].ma ELSE 1
  IN  [pipe |-> [k \in 1..5 |-> IF k = 1 THEN slot ELSE st.pipe[k - 1]],
       cycles |-> st.cycles + (IF exNew >= maOld THEN exNew ELSE maOld)]

\* `for _ in 0..stall_cycles { push(None) }`
PushBubbles(st, n) ==
  LET f[k \in 0..n] == IF k = 0 THEN st ELSE Push(f[k - 1], NoStat)
  IN  f[n]

\* ExecuteOutput.cycles: the I-format and flw arms leave it at its default 0.
ExCycles(op) == IF op \in IAluOps \cup {"lw", "jalr", "flw"} THEN 0 ELSE 1

(***************************************************************************)
(* cycle_one_full in the time_predict build.  ins is the decoded           *)
(* instruction, counted as soon as it decodes.  A branch trains the        *)
(* predictor at the incremented pc; a load or store probes the cache      *)
(* before the memory access may fail.  The pipeline and the clocks move   *)
(* only when the cycle returns Ok and did not execute end.                *)
(***************************************************************************)
TimedCycle ==
  /\ CycleOneFull
  /\ LET ins == cpuResult'.instr
         taken == BranchTaken(ins.op, reg[ins.rs1], reg[ins.rs2])
         pred == Predict(branchPredictor, pc + 4)
         addr == Wrap(reg[ins.rs1] + ins.imm)
         access == ins.op \in LoadOps \cup StoreOps
         bram == UseBram(addr)
         maCycles == IF access THEN MaCycles(addr) ELSE 1
         ready == IF ins.op \in LoadOps THEN (IF bram THEN "WB" ELSE "MA") ELSE "EX"
         new == [some |-> TRUE, ex |-> ExCycles(ins.op), ma |-> maCycles, ready |-> ready,
                 wb |-> IF ins.op \in ROps \cup IAluOps \cup {"lw", "jalr", "jal", "inw"}
                          THEN ins.rd ELSE NoReg,
                 fwb |-> IF ins.op \in {"flw", "finw"} THEN ins.rd ELSE NoReg]
         flush == ins.op = "jalr" \/ (ins.op \in BOps /\ pred # taken)
         st1 == PushBubbles([pipe |-> pipelineState, cycles |-> 0],
                            StallCycles(pipelineState, ins))
         st2 == Push(st1, new)
         st3 == IF flush THEN Push(Push(st2, NoStat), NoStat) ELSE st2
     IN  /\ iStat' = IF ins.op # "invalid" THEN EncounterInstr(iStat, ins.op) ELSE iStat
         /\ IF ins.op \in BOps
              THEN /\ branchPredictor' = UpdateState(branchPredictor, pc + 4, taken)
                   /\ bStat' = [bStat EXCEPT ![BranchOutcome(pred, taken)] = @ + 1]
              ELSE UNCHANGED <<branchPredictor, bStat>>
         /\ cache' = IF access /\ ~bram
                       THEN [cache EXCEPT ![CacheLine(addr)] = CacheTag(addr)] ELSE cache
         /\ cStat' = IF access /\ ~bram /\ cpuResult'.flow # "error"
                       THEN CacheStatUpdate(cStat, CacheHit(addr)) ELSE cStat
         /\ IF cpuResult'.flow \in {"continue", "spy"}
              THEN pipelineState' = st3.pipe /\ elapsedClocks' = elapsedClocks + st3.cycles
              ELSE UNCHANGED <<pipelineState, elapsedClocks>>

\* The batch loop: cycles while the CPU neither halted nor failed.
TimingInitAll == (\E sc \in Scenarios : CpuInit(sc)) /\ TimingInit
Running == cpuResult.flow \in {"none", "continue", "spy"}
TimingNext == (Running /\ TimedCycle) \/ (~Running /\ UNCHANGED tvars)
TimingSpec == TimingInitAll /\ [][TimingNext]_tvars

(***************************************************************************)
(* Properties.                                                             *)
(***************************************************************************)

\* The cycle, counted from the start of EX, after which a result is
\* forwarded: at the end of EX, of MA or of WB.
ReadyOffset == [EX |-> 1, MA |-> 2, WB |-> 3]

\* s bubbles are enough: the instruction enters EX no earlier than every
\* result it reads is ready.  An occupant of slot k is k cycles ahead of
\* it, and s bubbles put it s cycles further ahead.
Resolved(pipe, ins, s) ==
  \A k \in 1..5 : Hazard(pipe[k], ins) => k + s >= ReadyOffset[pipe[k].ready]

NeededStall(pipe, ins) ==
  CHOOSE s \in 0..3 : Resolved(pipe, ins, s) /\ \A t \in 0..(s - 1) : ~Resolved(pipe, ins, t)

\* Instructions reading the registers the pipeline is producing.
Consumers(pipe) ==
  LET rs == ({pipe[k].wb : k \in 1..5} \cup {pipe[k].fwb : k \in 1..5} \cup {0}) \ {NoReg}
  IN  [op : Ops \ {"invalid"}, rd : {0}, rs1 : rs, rs2 : rs, imm : {0}]

\* calc_stall_cycles, in every pipeline state a program reaches: the
\* stall inserted before any next instruction is the least number of
\* bubbles after which every register it reads has been forwarded, over
\* all five slots and not only the two the code inspects.
StallsResolveHazards ==
  \A ins \in Consumers(pipelineState) :
    StallCycles(pipelineState, ins) = NeededStall(pipelineState, ins)

\* Spec section 8: after N branches the four BranchStat counters add up
\* to N, the branches InstrStat has counted.
BranchStatsConserved ==
  bStat["TT"] + bStat["TU"] + bStat["UT"] + bStat["UU"]
    = iStat["beq"] + iStat["bne"] + iStat["blt"] + iStat["bge"]

\* Cache::access_cache starts empty: the first access that goes through
\* the cache cannot find its word there, so it is counted as a miss.
FirstAccessMisses == cStat.hit + cStat.miss = 1 => cStat.miss = 1

\* memory_access probes the cache before the access can fail, and
\* CacheStat counts only an access that succeeded.  A failed access is
\* fatal and execute then returns the error without printing the
\* statistics, so in every state whose statistics can still be reported
\* (the run goes on or has ended with end) every line that holds a tag
\* other than its initial 0 was filled by a miss CacheStat counted.
CacheFillsCounted ==
  cpuResult.flow # "error" =>
    Cardinality({l \in DOMAIN cache : cache[l] # 0}) <= cStat.miss
=============================================================================
