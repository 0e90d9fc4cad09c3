---------------------------- MODULE TimingProofs ----------------------------
(***************************************************************************)
(* Proofs about the cycle-count model for every value of the constants.   *)
(*                                                                         *)
(* BranchStatsInvariant: BranchStat and InstrStat agree on the number of  *)
(* branches.  The sum alone is not inductive, since a step adds 1 to a    *)
(* counter and needs it to be a number: StatInv adds that both stat      *)
(* tables are tables of naturals.                                          *)
(*                                                                         *)
(* StallsMinimal: calc_stall_cycles, which inspects only the EX and MA    *)
(* slots, returns the least stall that resolves every hazard of all five  *)
(* slots, whatever the pipeline holds.                                     *)
(*                                                                         *)
(* CacheFillsInvariant: while no access has failed, every filled cache   *)
(* line was filled by a counted miss.                                      *)
(*                                                                         *)
(* TimingTypeCorrect: the model's state keeps its types.  PushBubbles is  *)
(* a recursive function; calc_stall_cycles returns at most 3, so its      *)
(* equation is unrolled at 0..3 and no induction is needed.               *)
(***************************************************************************)
EXTENDS Timing, CpuProofs, FiniteSetTheorems, TLAPS

StatInv ==
  /\ bStat \in [Outcomes -> Nat]
  /\ iStat \in [Ops -> Nat]
  /\ BranchStatsConserved

\* The four counters of update_stat are distinct entries of BranchStat.
LEMMA OutcomeIsOutcome ==
  ASSUME NEW p, NEW t
  PROVE  BranchOutcome(p, t) \in Outcomes
  BY DEF BranchOutcome, Outcomes

LEMMA InitStatInv == TimingInitAll => StatInv
  BY DEF TimingInitAll, TimingInit, StatInv, BranchStatsConserved, Ops, BOps,
         ROps, IAluOps, LoadOps, StoreOps, InOps, Outcomes

\* One cycle counts a branch in both tables or in neither.
LEMMA CycleStatInv ==
  ASSUME StatInv, TimedCycle
  PROVE  StatInv'
  <1> DEFINE ins == cpuResult'.instr
             pred == Predict(branchPredictor, pc + 4)
             taken == BranchTaken(ins.op, reg[ins.rs1], reg[ins.rs2])
  <1>1. iStat' = IF ins.op # "invalid" THEN [iStat EXCEPT ![ins.op] = @ + 1] ELSE iStat
    BY DEF TimedCycle, EncounterInstr
  <1>2. CASE ins.op \in BOps
    <2>1. bStat' = [bStat EXCEPT ![BranchOutcome(pred, taken)] = @ + 1]
      BY <1>2 DEF TimedCycle
    <2>2. iStat' = [iStat EXCEPT ![ins.op] = @ + 1]
      BY <1>1, <1>2 DEF BOps
    <2>3. BranchOutcome(pred, taken) \in Outcomes BY OutcomeIsOutcome
    <2>. QED BY <2>1, <2>2, <2>3, <1>2
             DEF StatInv, BranchStatsConserved, Outcomes, BOps, Ops, ROps, IAluOps,
                 LoadOps, StoreOps, InOps
  <1>3. CASE ins.op \notin BOps
    <2>1. bStat' = bStat BY <1>3 DEF TimedCycle
    <2>2. /\ iStat' \in [Ops -> Nat]
          /\ \A o \in BOps : iStat'[o] = iStat[o]
      <3>1. CASE ins.op = "invalid" BY <1>1, <3>1 DEF StatInv
      <3>2. CASE ins.op # "invalid"
        <4>1. iStat' = [iStat EXCEPT ![ins.op] = @ + 1] BY <1>1, <3>2
        <4>2. \A o \in BOps : o # ins.op BY <1>3
        <4>3. CASE ins.op \in Ops BY <4>1, <4>2, <4>3 DEF StatInv
        <4>4. CASE ins.op \notin Ops
          <5>1. iStat' = iStat BY <4>1, <4>4 DEF StatInv
          <5>. QED BY <5>1 DEF StatInv
        <4>. QED BY <4>3, <4>4
      <3>. QED BY <3>1, <3>2
    <2>3. \A o \in BOps : o \in Ops BY DEF BOps, Ops
    <2>. QED BY <2>1, <2>2, <2>3 DEF StatInv, BranchStatsConserved, BOps
  <1>. QED BY <1>2, <1>3

LEMMA NextStatInv == StatInv /\ [TimingNext]_tvars => StatInv'
  <1> SUFFICES ASSUME StatInv, [TimingNext]_tvars PROVE StatInv' OBVIOUS
  <1>1. CASE Running /\ TimedCycle BY <1>1, CycleStatInv
  <1>2. CASE UNCHANGED tvars
    BY <1>2 DEF tvars, timingVars, StatInv, BranchStatsConserved
  <1>. QED BY <1>1, <1>2 DEF TimingNext

\* InstrStat and BranchStat (spec section 8): in every run, of any program
\* and for every size of the predictor and the cache, each branch the
\* time_predict build executes is counted once in BranchStat, so the four
\* counters add up to the branches InstrStat counted.
THEOREM BranchStatsInvariant == TimingSpec => []BranchStatsConserved
  <1>1. TimingInitAll => StatInv BY InitStatInv
  <1>2. StatInv /\ [TimingNext]_tvars => StatInv' BY NextStatInv
  <1>3. StatInv => BranchStatsConserved BY DEF StatInv
  <1>. QED BY <1>1, <1>2, <1>3, PTL DEF TimingSpec

(***************************************************************************)
(* calc_stall_cycles.                                                      *)
(***************************************************************************)

\* A slot k >= 3 ahead never needs a bubble: its result is forwarded by
\* the end of WB at the latest.
LEMMA FarSlotsResolved ==
  ASSUME NEW pipe \in [1..5 -> Stat], NEW ins, NEW s \in Nat, NEW k \in 3..5
  PROVE  Hazard(pipe[k], ins) => k + s >= ReadyOffset[pipe[k].ready]
  <1>1. pipe[k].ready \in Stages BY DEF Stat
  <1>. QED BY <1>1 DEF ReadyOffset, Stages

\* The bubbles each of the two inspected slots asks for.
LEMMA StallParts ==
  ASSUME NEW pipe \in [1..5 -> Stat], NEW ins
  PROVE  /\ ExStall(pipe[1], ins) =
              IF Hazard(pipe[1], ins) THEN ReadyOffset[pipe[1].ready] - 1 ELSE 0
         /\ MaStall(pipe[2], ins) =
              IF Hazard(pipe[2], ins) /\ ReadyOffset[pipe[2].ready] > 2
              THEN ReadyOffset[pipe[2].ready] - 2 ELSE 0
  <1>1. pipe[1].ready \in Stages /\ pipe[2].ready \in Stages BY DEF Stat
  <1>. QED BY <1>1 DEF ExStall, MaStall, ReadyOffset, Stages

\* s bubbles resolve the hazards exactly when s covers both inspected slots.
LEMMA ResolvedIff ==
  ASSUME NEW pipe \in [1..5 -> Stat], NEW ins, NEW s \in Nat
  PROVE  Resolved(pipe, ins, s) <=>
           s >= ExStall(pipe[1], ins) /\ s >= MaStall(pipe[2], ins)
  <1>1. \A k \in 3..5 : Hazard(pipe[k], ins) => k + s >= ReadyOffset[pipe[k].ready]
    BY FarSlotsResolved
  <1>2. /\ pipe[1].ready \in Stages /\ pipe[2].ready \in Stages
    BY DEF Stat
  <1>3. /\ (Hazard(pipe[1], ins) => 1 + s >= ReadyOffset[pipe[1].ready])
             <=> s >= ExStall(pipe[1], ins)
        /\ (Hazard(pipe[2], ins) => 2 + s >= ReadyOffset[pipe[2].ready])
             <=> s >= MaStall(pipe[2], ins)
    BY <1>2, StallParts DEF ReadyOffset, Stages
  <1>4. 1..5 = {1, 2} \cup 3..5 OBVIOUS
  <1>. QED BY <1>1, <1>3, <1>4 DEF Resolved

\* calc_stall_cycles (cpu.rs): for every pipeline, even one no program
\* reaches, the stall before an instruction is the least number of bubbles
\* after which every register it reads has been forwarded from any of the
\* five slots, though the code looks at the EX and MA slots only.
THEOREM StallsMinimal ==
  ASSUME pipelineState \in [1..5 -> Stat]
  PROVE  StallsResolveHazards
  <1> SUFFICES ASSUME NEW ins \in Consumers(pipelineState)
               PROVE  StallCycles(pipelineState, ins) = NeededStall(pipelineState, ins)
    BY DEF StallsResolveHazards
  <1> DEFINE pipe == pipelineState
             e == ExStall(pipe[1], ins)
             m == MaStall(pipe[2], ins)
             s0 == StallCycles(pipe, ins)
             P(s) == Resolved(pipe, ins, s) /\ \A t \in 0..(s - 1) : ~Resolved(pipe, ins, t)
  <1>1. e \in 0..2 /\ m \in 0..1
    BY StallParts DEF Stat, ReadyOffset, Stages
  <1>2. s0 \in 0..3 /\ s0 >= e /\ s0 >= m /\ (s0 = e \/ s0 = m)
    BY <1>1 DEF StallCycles
  <1>3. \A s \in 0..3 : Resolved(pipe, ins, s) <=> s >= e /\ s >= m
    BY ResolvedIff
  <1>4. P(s0) BY <1>2, <1>3
  <1>5. \A s \in 0..3 : P(s) => s = s0 BY <1>2, <1>3
  <1>6. NeededStall(pipe, ins) = CHOOSE s \in 0..3 : P(s) BY DEF NeededStall
  <1>. QED BY <1>2, <1>4, <1>5, <1>6

(***************************************************************************)
(* The pipeline queue.                                                     *)
(***************************************************************************)
\* The pair of the queue and the cycles counted so far that
\* push_instr_to_pipeline_and_get_cycles threads through a cycle.
PipeAcc == [pipe : [1..5 -> Stat], cycles : Nat]

\* A bubble is a slot.
LEMMA NoStatIsStat == NoStat \in Stat
  BY DEF NoStat, Stat, Stages

\* A push shifts a slot into a five-slot queue and adds a natural number
\* of cycles.
LEMMA PushType ==
  ASSUME NEW st \in PipeAcc, NEW slot \in Stat
  PROVE  Push(st, slot) \in PipeAcc
  BY DEF Push, PipeAcc, Stat

\* `for _ in 0..stall_cycles { push(None) }`, for the stalls
\* calc_stall_cycles can return: the loop keeps the queue well formed.
\* The recursive function of PushBubbles exists; any function meeting its
\* equation maps 0..n to queues, one push at a time.
LEMMA PushBubblesType ==
  ASSUME NEW st \in PipeAcc, NEW n \in 0..3
  PROVE  PushBubbles(st, n) \in PipeAcc
  <1> DEFINE Eq(g) == g = [k \in 0..n |-> IF k = 0 THEN st ELSE Push(g[k - 1], NoStat)]
             p1 == Push(st, NoStat)
             p2 == Push(p1, NoStat)
             p3 == Push(p2, NoStat)
             g0 == [k \in 0..n |-> CASE k = 0 -> st [] k = 1 -> p1 [] k = 2 -> p2 [] k = 3 -> p3]
  <1>1. Eq(g0) OBVIOUS
  <1>2. PushBubbles(st, n) = (CHOOSE g : Eq(g))[n] BY DEF PushBubbles
  <1>3. Eq(CHOOSE g : Eq(g)) BY <1>1
  <1>4. ASSUME NEW g, Eq(g) PROVE g[n] \in PipeAcc
    <2>1. p1 \in PipeAcc /\ p2 \in PipeAcc /\ p3 \in PipeAcc BY PushType, NoStatIsStat
    <2>2. g[0] = st BY <1>4
    <2>3. n >= 1 => g[1] = p1 BY <1>4, <2>2
    <2>4. n >= 2 => g[2] = p2 BY <1>4, <2>3
    <2>5. n >= 3 => g[3] = p3 BY <1>4, <2>4
    <2>. QED BY <2>1, <2>2, <2>3, <2>4, <2>5
  <1>. QED BY <1>2, <1>3, <1>4


(***************************************************************************)
(* Type correctness of the cycle-count model.  TimingTypeOK is not        *)
(* inductive alone: the cache tag and line, the predictor index and the   *)
(* link register of a cycle come from the registers, pc and the decoded   *)
(* instruction, so TInv adds the datapath invariant DInv of CpuProofs.    *)
(***************************************************************************)
TInv == DInv /\ TimingTypeOK /\ StatInv

\* calc_stall_cycles asks for at most three bubbles.
LEMMA StallRange ==
  ASSUME NEW pipe \in [1..5 -> Stat], NEW ins
  PROVE  StallCycles(pipe, ins) \in 0..3
  <1>1. ExStall(pipe[1], ins) \in 0..2 /\ MaStall(pipe[2], ins) \in 0..1
    BY StallParts DEF Stat, ReadyOffset, Stages
  <1>. QED BY <1>1 DEF StallCycles

\* BranchPredictor::update_state keeps every counter in 0..3.
LEMMA UpdateStateType ==
  ASSUME NEW bp \in [0..(NumCounters - 1) -> 0..3], NEW a \in Nat, NEW t \in BOOLEAN
  PROVE  UpdateState(bp, a, t) \in [0..(NumCounters - 1) -> 0..3]
  <1>1. a % NumCounters \in 0..(NumCounters - 1) BY TimingAssumption
  <1>. QED BY <1>1 DEF UpdateState, CounterNext, CounterPrev

\* Cache::access_cache stores a tag in a line of the cache.
LEMMA CacheIndexType ==
  ASSUME NEW a \in Nat
  PROVE  CacheLine(a) \in 0..(CacheLines - 1) /\ CacheTag(a) \in Nat
  BY TimingAssumption DEF CacheLine, CacheTag

\* One timed cycle keeps the counters, the cache, the predictor and the
\* pipeline queue well typed.
LEMMA CycleTimingType ==
  ASSUME DInv, TimingTypeOK, TimedCycle
  PROVE  /\ pipelineState' \in [1..5 -> Stat]
         /\ branchPredictor' \in [0..(NumCounters - 1) -> 0..3]
         /\ cache' \in [0..(CacheLines - 1) -> Nat]
         /\ cStat' \in [hit : Nat, miss : Nat]
         /\ elapsedClocks' \in Nat
  <1> DEFINE ins == cpuResult'.instr
             taken == BranchTaken(ins.op, reg[ins.rs1], reg[ins.rs2])
             pred == Predict(branchPredictor, pc + 4)
             addr == Wrap(reg[ins.rs1] + ins.imm)
             access == ins.op \in LoadOps \cup StoreOps
             bram == UseBram(addr)
             maCycles == IF access THEN MaCycles(addr) ELSE 1
             ready == IF ins.op \in LoadOps THEN (IF bram THEN "WB" ELSE "MA") ELSE "EX"
             new == [some |-> TRUE, ex |-> ExCycles(ins.op), ma |-> maCycles, ready |-> ready,
                     wb |-> IF ins.op \in ROps \cup IAluOps \cup {"lw", "jalr", "jal", "inw"}
                              THEN ins.rd ELSE NoReg,
                     fwb |-> IF ins.op \in {"flw", "finw"} THEN ins.rd ELSE NoReg]
             flush == ins.op = "jalr" \/ (ins.op \in BOps /\ pred # taken)
             st1 == PushBubbles([pipe |-> pipelineState, cycles |-> 0],
                                StallCycles(pipelineState, ins))
             st2 == Push(st1, new)
             st3 == IF flush THEN Push(Push(st2, NoStat), NoStat) ELSE st2
  <1>1. ins \in Instr
    BY CycleTyped DEF TimedCycle, CpuStepOK, ResultType
  <1>2. addr \in Nat /\ pc + 4 \in Nat
    <2>1. reg[ins.rs1] \in Int /\ ins.imm \in Int /\ pc \in Nat
      BY <1>1, DInvFacts, ModulusFacts DEF Instr, Word
    <2>. QED BY <2>1, WrapIsWord DEF Word
  <1>3. branchPredictor' \in [0..(NumCounters - 1) -> 0..3]
    <2>1. CASE ins.op \in BOps
      <3>1. branchPredictor' = UpdateState(branchPredictor, pc + 4, taken)
        BY <2>1 DEF TimedCycle
      <3>2. taken \in BOOLEAN
        <4>1. ins.op \in {"beq", "bne", "blt", "bge"} BY <2>1 DEF BOps
        <4>2. CASE ins.op = "beq" BY <4>2 DEF BranchTaken
        <4>3. CASE ins.op = "bne" BY <4>3 DEF BranchTaken
        <4>4. CASE ins.op = "blt" BY <4>4 DEF BranchTaken
        <4>5. CASE ins.op = "bge" BY <4>5 DEF BranchTaken
        <4>. QED BY <4>1, <4>2, <4>3, <4>4, <4>5
      <3>. QED BY <1>2, <3>1, <3>2, UpdateStateType DEF TimingTypeOK
    <2>2. CASE ins.op \notin BOps
      BY <2>2 DEF TimedCycle, TimingTypeOK
    <2>. QED BY <2>1, <2>2
  <1>4. cache' \in [0..(CacheLines - 1) -> Nat] /\ cStat' \in [hit : Nat, miss : Nat]
    <2>1. CacheLine(addr) \in 0..(CacheLines - 1) /\ CacheTag(addr) \in Nat
      BY <1>2, CacheIndexType
    <2>2. cache' = IF access /\ ~bram THEN [cache EXCEPT ![CacheLine(addr)] = CacheTag(addr)]
                   ELSE cache
      BY DEF TimedCycle
    <2>3. \/ cStat' = cStat
          \/ cStat' = CacheStatUpdate(cStat, CacheHit(addr))
      BY DEF TimedCycle
    <2>4. cache' \in [0..(CacheLines - 1) -> Nat] BY <2>1, <2>2 DEF TimingTypeOK
    <2>5. CacheStatUpdate(cStat, CacheHit(addr)) \in [hit : Nat, miss : Nat]
      BY DEF TimingTypeOK, CacheStatUpdate
    <2>. QED BY <2>3, <2>4, <2>5 DEF TimingTypeOK
  <1>5. new \in Stat
    <2>1. MaCycles(addr) \in Nat BY TimingAssumption DEF MaCycles
    <2>. QED BY <1>1, <2>1 DEF Stat, Instr, ExCycles, Stages
  <1>6. st3 \in PipeAcc
    <2>1. [pipe |-> pipelineState, cycles |-> 0] \in PipeAcc BY DEF TimingTypeOK, PipeAcc
    <2>2. StallCycles(pipelineState, ins) \in 0..3 BY StallRange DEF TimingTypeOK
    <2>3. st1 \in PipeAcc BY <2>1, <2>2, PushBubblesType
    <2>4. st2 \in PipeAcc BY <1>5, <2>3, PushType
    <2>. QED BY <2>4, PushType, NoStatIsStat
  <1>7. pipelineState' \in [1..5 -> Stat] /\ elapsedClocks' \in Nat
    <2>1. \/ pipelineState' = st3.pipe /\ elapsedClocks' = elapsedClocks + st3.cycles
          \/ UNCHANGED <<pipelineState, elapsedClocks>>
      BY DEF TimedCycle
    <2>. QED BY <1>6, <2>1 DEF PipeAcc, TimingTypeOK
  <1>. QED BY <1>3, <1>4, <1>7

\* Cpu::new and Simulator::new in the time_predict build.
LEMMA InitTimingType == TimingInitAll => TInv
  <1> SUFFICES ASSUME TimingInitAll PROVE TInv OBVIOUS
  <1>1. DInv BY InitDInv DEF TimingInitAll
  <1>2. TimingTypeOK
    BY NoStatIsStat, TimingAssumption
    DEF TimingInitAll, TimingInit, TimingTypeOK, Outcomes
  <1>3. StatInv BY InitStatInv
  <1>. QED BY <1>1, <1>2, <1>3 DEF TInv

LEMMA NextTimingType == TInv /\ [TimingNext]_tvars => TInv'
  <1> SUFFICES ASSUME TInv, [TimingNext]_tvars PROVE TInv' OBVIOUS
  <1>1. CASE Running /\ TimedCycle
    <2>1. DInv' BY <1>1, CycleDInv DEF TimedCycle, TInv
    <2>2. StatInv' BY <1>1, CycleStatInv DEF TInv
    <2>3. TimingTypeOK'
      BY <1>1, <2>2, CycleTimingType DEF TInv, StatInv, TimingTypeOK
    <2>. QED BY <2>1, <2>2, <2>3 DEF TInv
  <1>2. CASE UNCHANGED tvars
    BY <1>2 DEF tvars, timingVars, cpuVars, TInv, DInv, CpuTypeOK, TimingTypeOK,
                StatInv, BranchStatsConserved
  <1>. QED BY <1>1, <1>2 DEF TimingNext

\* Cpu::new, cycle_one_full and its counters (cpu.rs, branch_predictor.rs,
\* cache.rs, stat.rs): for every size of the predictor, the cache and
\* RAM and every program, the pipeline queue holds five slots, every
\* predictor counter stays in 0..3, and the cache, the counters and the
\* clocks are natural numbers.
THEOREM TimingTypeCorrect == TimingSpec => []TimingTypeOK
  <1>1. TimingInitAll => TInv BY InitTimingType
  <1>2. TInv /\ [TimingNext]_tvars => TInv' BY NextTimingType
  <1>3. TInv => TimingTypeOK BY DEF TInv
  <1>. QED BY <1>1, <1>2, <1>3, PTL DEF TimingSpec

(***************************************************************************)
(* Cache statistics.  CacheFillsCounted is not inductive alone: the step  *)
(* needs the cache and CacheStat to be typed and the accessed line to be  *)
(* a line of the cache, which TInv gives.  A counted miss fills at most   *)
(* one line; a hit finds the tag already in its line and writes it again; *)
(* a failed access may fill a line uncounted, but it ends the run with    *)
(* the error flow, where nothing is claimed.                               *)
(***************************************************************************)

\* The lines that no longer hold their initial tag 0.
Filled(c) == {l \in DOMAIN c : c[l] # 0}

\* Writing one line of the cache adds at most that line to the filled
\* lines, and writing the tag a line already holds changes nothing.
LEMMA FilledStep ==
  ASSUME NEW c \in [0..(CacheLines - 1) -> Nat], NEW l \in 0..(CacheLines - 1), NEW t \in Nat
  PROVE  /\ Cardinality(Filled(c)) \in Nat
         /\ Cardinality(Filled([c EXCEPT ![l] = t])) \in Nat
         /\ Cardinality(Filled([c EXCEPT ![l] = t])) <= Cardinality(Filled(c)) + 1
         /\ c[l] = t => [c EXCEPT ![l] = t] = c
  <1> DEFINE F == Filled(c)
             G == Filled([c EXCEPT ![l] = t])
             H == F \cup {l}
  <1>1. IsFiniteSet(0..(CacheLines - 1)) BY FS_Interval, TimingAssumption
  <1>2. F \subseteq 0..(CacheLines - 1) BY DEF Filled
  <1>3. IsFiniteSet(F) BY <1>1, <1>2, FS_Subset
  <1>4. Cardinality(F) \in Nat BY <1>3, FS_CardinalityType
  <1>5. IsFiniteSet(H) /\ Cardinality(H) = IF l \in F THEN Cardinality(F) ELSE Cardinality(F) + 1
    BY <1>3, FS_AddElement
  <1>6. Cardinality(H) <= Cardinality(F) + 1 BY <1>4, <1>5
  <1>7. G \subseteq H BY DEF Filled
  <1>8. IsFiniteSet(G) /\ Cardinality(G) <= Cardinality(H) BY <1>5, <1>7, FS_Subset
  <1>9. Cardinality(G) \in Nat /\ Cardinality(H) \in Nat BY <1>5, <1>8, FS_CardinalityType
  <1>10. c[l] = t => [c EXCEPT ![l] = t] = c OBVIOUS
  <1>. QED BY <1>4, <1>6, <1>8, <1>9, <1>10

\* Cpu::new fills every line with tag 0 and zeroes CacheStat.
LEMMA InitCacheFills == TimingInitAll => CacheFillsCounted
  <1> SUFFICES ASSUME TimingInitAll PROVE CacheFillsCounted OBVIOUS
  <1>1. Filled(cache) = {} BY DEF TimingInitAll, TimingInit, Filled
  <1>2. cStat.miss = 0 BY DEF TimingInitAll, TimingInit
  <1>. QED BY <1>1, <1>2, FS_EmptySet DEF CacheFillsCounted, Filled

LEMMA NextCacheFills ==
  TInv /\ CacheFillsCounted /\ [TimingNext]_tvars => CacheFillsCounted'
  <1> SUFFICES ASSUME TInv, CacheFillsCounted, [TimingNext]_tvars, cpuResult'.flow # "error"
               PROVE  Cardinality(Filled(cache')) <= cStat'.miss
    BY DEF CacheFillsCounted, Filled
  <1>1. CASE UNCHANGED tvars
    BY <1>1 DEF tvars, timingVars, cpuVars, CacheFillsCounted, Filled
  <1>2. CASE Running /\ TimedCycle
    <2> DEFINE ins == cpuResult'.instr
               addr == Wrap(reg[ins.rs1] + ins.imm)
               access == ins.op \in LoadOps \cup StoreOps
               bram == UseBram(addr)
    <2>1. Cardinality(Filled(cache)) <= cStat.miss
      <3>1. cpuResult.flow # "error" BY <1>2 DEF Running
      <3>. QED BY <3>1 DEF CacheFillsCounted, Filled
    <2>2. addr \in Nat
      <3>1. ins \in Instr BY <1>2, CycleTyped DEF TInv, TimedCycle, CpuStepOK, ResultType
      <3>2. reg[ins.rs1] \in Int /\ ins.imm \in Int
        BY <3>1, DInvFacts, ModulusFacts DEF TInv, Instr, Word
      <3>. QED BY <3>2, WrapIsWord DEF Word
    <2>3. CacheLine(addr) \in 0..(CacheLines - 1) /\ CacheTag(addr) \in Nat
      BY <2>2, CacheIndexType
    <2>4. cache \in [0..(CacheLines - 1) -> Nat] /\ cStat \in [hit : Nat, miss : Nat]
      BY DEF TInv, TimingTypeOK
    <2>5. CASE access /\ ~bram
      <3>1. cache' = [cache EXCEPT ![CacheLine(addr)] = CacheTag(addr)]
        BY <1>2, <2>5 DEF TimedCycle
      <3>2. cStat' = CacheStatUpdate(cStat, CacheHit(addr))
        BY <1>2, <2>5 DEF TimedCycle
      <3>3. CASE CacheHit(addr)
        <4>1. cache' = cache BY <2>3, <2>4, <3>1, <3>3, FilledStep DEF CacheHit
        <4>2. cStat'.miss = cStat.miss BY <2>4, <3>2, <3>3 DEF CacheStatUpdate
        <4>. QED BY <2>1, <4>1, <4>2
      <3>4. CASE ~CacheHit(addr)
        <4>1. cStat'.miss = cStat.miss + 1 BY <2>4, <3>2, <3>4 DEF CacheStatUpdate
        <4>2. /\ Cardinality(Filled(cache')) <= Cardinality(Filled(cache)) + 1
              /\ Cardinality(Filled(cache)) \in Nat /\ Cardinality(Filled(cache')) \in Nat
          BY <2>3, <2>4, <3>1, FilledStep
        <4>. QED BY <2>1, <2>4, <4>1, <4>2
      <3>. QED BY <3>3, <3>4
    <2>6. CASE ~(access /\ ~bram)
      <3>1. cache' = cache /\ cStat' = cStat BY <1>2, <2>6 DEF TimedCycle
      <3>. QED BY <2>1, <3>1
    <2>. QED BY <2>5, <2>6
  <1>. QED BY <1>1, <1>2 DEF TimingNext

\* memory_access and CacheStat (cpu.rs, cache.rs, stat.rs): for every
\* cache size and every program, as long as no access has failed, every
\* cache line that holds a tag other than 0 was filled by a miss that
\* CacheStat counted; the line a failing access replaces is never seen
\* in statistics that execute reports.
THEOREM CacheFillsInvariant == TimingSpec => []CacheFillsCounted
  <1>1. TimingInitAll => TInv /\ CacheFillsCounted BY InitTimingType, InitCacheFills
  <1>2. TInv /\ CacheFillsCounted /\ [TimingNext]_tvars => TInv' /\ CacheFillsCounted'
    BY NextTimingType, NextCacheFills
  <1>. QED BY <1>1, <1>2, PTL DEF TimingSpec
=============================================================================
