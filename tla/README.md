# TLA+ models of the cpuex2022-7 simulator

This directory holds a model of the instruction-set simulator in `src/`:
- the CPU datapath (`core_sim/src/cpu.rs`);
- its memory, register file and I/O (`memory.rs`, `reg_file.rs`, `io.rs`, `sld.rs`);
- the simulator facade (`sim.rs`);
- the interactive debugger that drives it (`cli/src/interactive.rs`);
- the batch runner of `cli/src/main.rs`;
- the cycle-count model of the `time_predict` build: the pipeline queue and stalls of `cpu.rs`, the branch predictor (`branch_predictor.rs`), the cache (`cache.rs`) and the statistics counters.

It also holds TLC configurations that check the model on small instances, and TLAPS proofs of its main safety properties for every value of the constants.

## The system

The simulator loads a binary image: a header with the data and text lengths in words, then the data, then the text. `Cpu::new` copies the image to address 0 of a 1,000,000-byte RAM filled with `0xCC`. It records the text as the instruction range, points `pc` at its start and sets `sp`, `hp` and `f1`.

One call of `Cpu::cycle_one_full` runs one instruction:

1. Fetch, only from the instruction range. `pc` then moves by 4.
2. Decode.
3. Register read.
4. Execute. This may set a new `pc`, ask for a memory access or a write-back, or end the program.
5. Memory access. `bounds_check!` refuses any word outside RAM and any word of the text. A read or write spy on the word turns the result into `Break(Spy)`.
6. Write-back. A write to register 0 is dropped.

Any error cuts the cycle short with `?`.

`Simulator::single_cycle` wraps the CPU:
- It refuses to run once an error has been latched in `fatal_error` (`CannotRestart`).
- It loops over cycles in one of three modes: `run`, `step n` and `skip until a`.
- It skips the breakpoint test on the first cycle of a call (`is_enter`).
- It latches any CPU error and reports it as `Failed`.
- On every break it reads the watched memory words with `get_mem(addr).unwrap()`.

The interactive debugger reads commands between calls:
- the dynamic commands `run`, `step [n]`, `skip until a`, and an empty line;
- `bp a` and `bp rm a`;
- `watch` and `unwatch`;
- `spy [on|off] [r][w] mem a`;
- `show`, `trace`, `exit`.

The debugger quits when the program halts.

Without `--interactive`, `main.rs` runs the batch loop `execute`. It calls `single_cycle` in `Run` mode with no breakpoints until the returned flow has an exit code. `Exit` gives `Success` and the loop returns `Ok`. `CannotRestart` and `Failed` give `Failure`, and the loop returns an error built from `get_error_msg().unwrap()`.

In the `time_predict` build, `cycle_one_full` also computes a cycle count, which `single_cycle` adds to `elapsed_clocks`:
- `calc_stall_cycles` looks at the instructions in the EX and MA slots of a five-slot queue. It inserts 2 or 1 bubbles when one of them writes a register the new instruction reads, by the stage where that result becomes ready.
- The instruction is pushed with its EX and MA cycles. A push costs the larger of the new instruction's EX cycles and the MA cycles of the one leaving EX.
- A `jalr`, or a branch whose prediction was wrong, pushes two flush bubbles.
- A branch reads and trains a two-bit saturating counter at `pc + 4` modulo 64.
- A load or store outside BRAM and the stack probes a direct-mapped cache. A hit costs 2 MA cycles and a miss costs 90.
- `InstrStat`, `BranchStat` and `CacheStat` count instructions, prediction outcomes and cache hits.

## Modules

| Module | Models | State and actions |
|---|---|---|
| `Isa` | `instr.rs`; the integer arms of `Cpu::execute` | Words of W bits (u32 when W = 32), the decoded `Instr` records and the pure ALU and branch operators. Arithmetic wraps modulo 2^W. xor, or and and are defined bit by bit. Shifts are by multiplication and division by 2^s. |
| `Cpu` | `Cpu::new`, `cycle_one_full` and what it calls in `memory.rs`, `reg_file.rs`, `io.rs`, `sld.rs` | Variables `pc`, `reg`, `freg`, `mem`, `instrRange`, `spyRead`, `spyWrite`, `input`, `output`, `cpuResult`. `CpuInit(sc)` is `Cpu::new` on a scenario. `CycleOneFull` is one whole cycle, fetch to write-back. It is either `FetchOutOfBounds` or the execution of the fetched instruction, one action per class: `DecodeInvalid`, `ExecAlu`, `ExecLoad`, `ExecStore`, `ExecBranch`, `ExecJal`, `ExecJalr`, `ExecOutb`, `ExecIn`, `ExecEnd`. `AddSpy` is `Memory::add_spy`. |
| `Sim` | `Simulator::single_cycle`; the state-changing commands of `execute_interactive` | Adds `mode`, `breakpoints`, `watchMem`, `fatal`, `cycle`, `inCall`, `isEnter`, `stepsLeft`, `ran`, `lastFlow`, `session`, `userSpies`. |
| `Decode` | `DecodedInstr::decode_from` of dialect v1 (`decode_instr.rs`) and the field helpers of `bin.rs` | Pure operators on 32-bit words. A word is a vector of 32 bits, because TLC's integers stop below 2^31. `BitRange`, `Mask`, `Extract`, `At` and `SignExtend` are the `bin.rs` functions with their inclusive ranges. `IImm`, `SImm`, `BImm` and `JImm` are the immediate assemblers. `DecodeFrom` dispatches on the opcode as the `match` does. `"invalid"` stands for `DecodeError::Invalid` and `"panic"` for the failing `assert_eq!` of the float arm. |
| `Execution` | what any driver of the CPU promises | The abstract specification. Variables `prog` (the program's state), `flow` and `status` (running, halted, failed, crashed). `Cycle` is one whole cycle of a running program, which may end the run. `Abort` is the host dying between cycles. `ExecFairness` says that cycles keep coming while the program runs. |
| `Batch` | `execute` in `main.rs`, `ControlFlow::exit_code` | Extends `Sim` with `outcome`. `BatchCall` calls `single_cycle` in `Run` mode while the last flow has no exit code. `BatchCycle` is a pass of its loop (`ExecuteCycle`). `BatchReturn` ends the loop with `ok`, `err`, or `panic` when `get_error_msg()` is `None`. `BatchDone` is the ended process. |
| `Timing` | `cycle_one_full` in the `time_predict` build; `calc_stall_cycles`, `push_instr_to_pipeline_and_get_cycles`, `BranchPredictor`, `Cache::access_cache`, the stat counters | Extends `Cpu` with `pipelineState`, `branchPredictor`, `cache`, `bStat`, `cStat`, `iStat`, `elapsedClocks`. `TimedCycle` is `CycleOneFull` together with its timing side effects, all in one action. The driver is the batch loop: cycles until the CPU halts or fails. |
| `CpuProofs`, `SimProofs`, `DebuggerProofs`, `RefinementProofs`, `BatchProofs`, `TimingProofs`, `DecodeProofs` | — | TLAPS proofs: the datapath lemmas, then one module per component or question (see Proofs). |
| `MCSim`, `MCBatch`, `MCTiming`, `MCDecode`, `MCFloatDecode` | — | Instances for TLC. `MCDecode` holds an encoder written from the opcode table and field layout of spec.md. `MCTiming` has its own instruction catalogue and decode table. |

`Sim` splits one call of `single_cycle` into steps, one per pass of its loop. The state between passes (`is_enter`, the remaining step count) is therefore visible to the properties. The actions of `Sim` are:
- `Call(m)`: entry, with the latch test.
- `ReachTarget`: the `skip until` stop.
- `StepsDone`: the end of the step loop.
- `HitBreakpoint`.
- `ExecuteCycle`: one `execute!`, which runs `CycleOneFull` and dispatches on its flow: continue, spy, exit, error or panic.
- `AddBp`, `RemoveBp`, `Watch`, `Unwatch`, `SpyOn`, `SpyOff`, `Quit`.
- `Terminated`: the process has ended.

`BreakSim` is `break_sim`. It ends the session with a crash when a watched word cannot be read.

Abstractions:
- **Decoding.** Instructions in memory are words, and decoding is the constant table `DecodeFrom`. In `MCSim` the word 0 decodes to `end` (as `decode_from` does), the words 17 onwards encode the catalogue of instructions the programs use, and every other word is invalid.
- **Unaligned fetch.** A fetch at an unaligned `pc` reads bytes of two words. The model takes that word as one that does not decode.
- **Shifts by W or more.** `rs1 << rs2` overflows. A debug build panics and a release build masks the amount. `ExecAlu` allows both outcomes.
- **Float registers.** They hold bit patterns. Float loads, stores and `finw` are modelled; float arithmetic is not.
- **Input.** Scenarios give the input already parsed: a sequence of typed items.
- **Output.** The bytes written by `outb` are a sequence of 0..255.
- **Timing.** A `PipelineStat` is a record, and a bubble is a record with `some = FALSE`. `use_fpu` is always false, because float arithmetic is not modelled. `PushBubbles` pushes n bubbles through a recursive function (the `for` loop). The real sizes (64 counters, 16384 cache lines, 16384 BRAM words, 256 stack words) are constants.

## Runs

| Run | Config | Result | What it shows |
|---|---|---|---|
| `main` | `MCSim.cfg` | pass, 31,006 states | The properties below, over eight programs and every command sequence of the debugger. |
| `spy_off` | `MCSpyOff.cfg` | violation of `SpiesAsRequested` | `spy off` is parsed as `Operation::Add` (interactive.rs:85), so the spy stays installed. |
| `watch_crash` | `MCWatch.cfg` | violation of `WatchNeverCrashes` | `watch` accepts a text address, and the next break panics in `gather_watchings` (sim.rs:212). |
| `binary_input` | `MCBinaryInput.cfg` | violation of `InputConsumedOnce` | `BinaryInput::inw` never advances `read_index` (io.rs:50), so two `inw` read the same word. |
| `decode` | `MCDecode.cfg` | pass, 852 states | `DecodeInvertsEncode`: every operation of the spec table except `slti`, with registers 0, 1 and 31 and the edge immediates of each format (0, 1, the largest, -1, the smallest), decodes to the instruction that was encoded. This covers the opcode dispatch, the funct tables and the sign extension of the I, S, B and J immediates. |
| `slti_decode` | `MCDecodeSlti.cfg` | violation of `DecodeInvertsEncode` | The I arm of `decode_from` has no `slti` (decode_instr.rs:53-65). spec.md lists it with funct3 2, but the code decodes it to `Invalid`. |
| `float_decode_panic` | `MCFloatDecode.cfg` | violation of `DecodeNeverPanics` | A word of opcode `0b1010011` with funct3 other than 0 and funct7 other than `0b1010001` hits `assert_eq!` (decode_instr.rs:225). The process panics instead of returning `Invalid`, as spec.md:68 says it should. |
| `batch` | `MCBatch.cfg` | pass | `ErrorMessagePresent`, `BatchImplementsExecution`, `FailureReported`, under weak fairness of the loop's steps, on the `MCSim` programs and the counted loop started at 0 (256 iterations), 1 and 5. |
| `wide_shift` | `MCWideShift.cfg` | violation of `ShiftUsesLowBits` | `rs1 << rs2` with an amount of W or more panics in a build with overflow checks (cpu.rs:678). spec.md says the low bits of the amount are used. |
| `sld_exhausted` | `MCSldExhausted.cfg` | violation of `IoFailureLatched` | Reading one SLD item too many indexes past the end of the sequence (sld.rs:38) and panics. spec.md says I/O failures are latched runtime errors. |
| `timing` | `MCTiming.cfg` | pass, 648 states | `TimingTypeOK`, `StallsResolveHazards`, `BranchStatsConserved`, `CacheFillsCounted`, on counted loops, load-use chains to BRAM, stack and DDR words, loads that fail on a text word, and branch mixes. |
| `cold_cache` | `MCColdCache.cfg` | violation of `FirstAccessMisses` | The first DDR access of a run is counted as a cache hit. `Cache::new` fills the lines with tag 0 and has no valid bit (cache.rs:8, 16). |

Properties of the `main` run:
- `TypeOK`: the type invariant. It checks, among other things, that `pc` stays a word.
- `FatalIsFinal`: once a cycle has failed, the latch stays set and no step changes the program's state.
- `BreakAfterProgress`: a stop at a breakpoint or at the `skip until` target has run at least one instruction, and `pc` is the reported address.
- `StepRunsExactly`: `step n` that ends with `StepEnded` ran exactly n cycles.
- `SpyWriteReportsChange`: a write spy reports the word that was overwritten as `before` and the word now in memory as `after`.
- `TextIntact`: no step changes a word of the text.
- `ImplementsExecution`: `Sim` implements the safety part of `Execution` under the mapping `prog <- progState`, `flow <- cpuResult.flow`, `status <- RunStatus`. The debugger changes the program only by whole cycles, and never after the program halted, failed or crashed. Everything else it does is a stutter: calls, breaks, breakpoints, watches, spies.

Properties of the `batch` run:
- `ErrorMessagePresent`: `get_error_msg().unwrap()` (main.rs:232) never panics. Every `Failure` exit code comes with a latched error.
- `BatchImplementsExecution`: the batch runner implements all of `Execution`, liveness included. Its status is read off `outcome` once the loop has returned.
- `FailureReported`: a failed cycle leads to the loop returning the error (`fatal ~> outcome = "err"`).

Properties of the `timing` run:
- `TimingTypeOK`: the counters stay in 0..3, the queue keeps five slots, and the counts are naturals.
- `StallsResolveHazards`: in every reached pipeline state, and for every next instruction that reads a register the pipeline is producing, the stall is the least number of bubbles after which every such register has been forwarded. This covers all five slots, although the code looks at two.
- `BranchStatsConserved`: the four `BranchStat` counters add up to the branches counted in `InstrStat` (spec section 8).
- `CacheFillsCounted`: every cache line that holds a tag other than its initial 0 was filled by a miss that `CacheStat` counted, in every state whose statistics `execute` can still report (the flow is not `error`). `memory_access` probes the cache before the access can fail (cpu.rs:1128), and `CacheStat` counts only an access that succeeded. So a failing load replaces its line uncounted. The run reaches that state: the load from text word 8 fills line 0 with tag 1. But the error is fatal, and `execute` returns it before `output_stat`, so the disagreement is never reported.

Each of these properties has a mutant in `PROJECT.json`: a plausible bug in the mapped code under which TLC finds it violated. The mutants are:
- no wrap-around in `Wrap`;
- the breakpoint tested on entry;
- the step loop `0..=n`;
- no latch test;
- the spy called after the store;
- `bounds_check!` without the text test;
- `sign_extend` starting one bit too high (for `DecodeInvertsEncode`);
- `break_sim` on `Exit` that keeps the session active (for `ImplementsExecution`);
- a failed cycle that does not latch the error (for `ErrorMessagePresent`);
- `exit_code` giving `Success` for `Failed` (for `BatchImplementsExecution`);
- `exit_code` recognising only `Exit`, so the loop calls forever (for `FailureReported`);
- `push_instr_to_pipeline_and_get_cycles` without its `pop_back`, so the queue grows (for `TimingTypeOK`);
- `update_stat` with the hit and miss arms swapped (for `CacheFillsCounted`);
- the MA slot not inspected by `calc_stall_cycles` (for `StallsResolveHazards`);
- `update_stat` without its last arm (for `BranchStatsConserved`).

**Bounds.** The `decode` run takes every register field among 0, 1 and 31: the zero register, the lowest bit alone, and all five bits set. For each format it takes the immediates 0, 1 (2 for B and J), the largest positive, -1 (-2) and the most negative. These set and clear every immediate bit that the layout moves, and the sign bit.

The `main` run uses:
- 8-bit words;
- 8 registers;
- 12 words of RAM, enough for the data, the longest text (8 words) and the words the programs store to;
- breakpoint 12, watched word 10, spied word 10;
- the modes `run`, `step 1`, `step 2`, `skip until 12`.

The programs drive every path of `cycle_one_full`:
- a counted loop with a store and an output;
- a store into the text;
- a jump out of the text;
- SLD input with a type mismatch and an item too many;
- binary input;
- a shift by 9;
- a call and return through `jalr`;
- integer and float loads and stores under a spy.

Together they reach every action and every disjunct. Address 12 is in the loop, so breakpoints and `skip until` stop there after progress. A width of 8 bits is enough for every address and wrap-around case the programs reach. The 32-bit case differs only in the modulus, and that is what the proofs cover.

The `timing` run uses `RamWords = 32`, BRAM words 0..3, stack words 30..31, 2 cache lines and 8 predictor counters. So an access can go to BRAM, to the stack or to DDR; two DDR words can share a line with different tags; a failing load from text word 8 replaces a line with a non-zero tag; and a loop's branch trains one counter. The load-use programs put a consumer right after a BRAM load (result ready at WB, 2 bubbles), a DDR load (ready at MA, 1 bubble) and an ALU result (ready at EX, none). The loops run from 0 to 7 iterations, and the branch mixes produce all four prediction outcomes.

**Fairness.** The debugger assumes none, and only safety is checked for `Sim`. The debugger waits on the user indefinitely, and a `run` of a looping program never returns; the code guarantees no progress. The batch loop is different: it is straight-line code that waits on nothing, because the input is read into memory before it starts. So `BatchSpec` assumes weak fairness of each of its three steps (`BatchCall`, `BatchCycle`, `BatchReturn`). `ExecFairness` is weak fairness of `Cycle` written out (`<>[](status = "running") => []<><<Cycle>>_execVars`), because a cycle can always end the run and so `ENABLED <<Cycle>>` is `status = "running"`. Written this way, TLC need not evaluate `ENABLED` through the refinement mapping.

## Proofs

All proofs are checked by `tlapm`. They hold for every W in {4, 8, 16, 32}, every register count of at least 5, every RAM size with `4 * RamWords + 4 <= 2^W`, every decode table and every set of program images that fit in RAM. The timing proofs also hold for every predictor, cache, BRAM and stack size. The decoder proofs are about 32-bit words and rest only on the hypothesis of `DecodeInverts`. The other proofs rest on these assumptions:
- **`PowAssumption`** (in `Isa`). 2^s is a positive integer for s up to W. This is a fact of arithmetic the provers cannot derive from `^`. TLC evaluates it on every run.
- **`RamAssumption`** (in `Cpu`): `4 * RamWords + 4 <= 2^W`. It holds in the code: 1,000,000 bytes in a 32-bit address space.
- **`TimingAssumption`** (in `Timing`). At least one predictor counter and one cache line, and a positive DDR latency.

| Module | Theorem | Statement |
|---|---|---|
| `SimProofs` | `TypeCorrect` | `Spec => []TypeOK` |
| `SimProofs` | `FatalLatched` | `Spec => FatalIsFinal` |
| `SimProofs` | `TextProtected` | `Spec => TextIntact` |
| `RefinementProofs` | `SimRefinesExecution` | `Spec => ImplementsExecution` |
| `DebuggerProofs` | `BreakpointsProgress` | `Spec => []BreakAfterProgress` |
| `DebuggerProofs` | `StepsExact` | `Spec => []StepRunsExactly` |
| `DebuggerProofs` | `SpyWritesReported` | `Spec => SpyWriteReportsChange` |
| `BatchProofs` | `ErrorMessageLatched` | `BatchSpec => []ErrorMessagePresent` |
| `BatchProofs` | `BatchRefinesExecution` | `BatchSpec => BatchExec!ExecSafety` |
| `TimingProofs` | `TimingTypeCorrect` | `TimingSpec => []TimingTypeOK` |
| `TimingProofs` | `BranchStatsInvariant` | `TimingSpec => []BranchStatsConserved` |
| `TimingProofs` | `CacheFillsInvariant` | `TimingSpec => []CacheFillsCounted` |
| `TimingProofs` | `StallsMinimal` | `StallsResolveHazards`, for any five well-formed slots |
| `DecodeProofs` | `DecodeInverts` | `EncOps \subseteq DecodedOps => (Spec => []DecodeInvertsEncode)` |
| `DecodeProofs` | `DecodeEncodeInverse` | `\A i \in Encodable : DecodeFrom(Encode(i)) = i` |

**The datapath (`CpuProofs`).** `CpuTypeOK` is not inductive. A step from a state where `pc` lies outside RAM, or where the text range runs past RAM, may leave `Word`. `DInv` therefore adds two conjuncts:
- `instrRange.lo <= instrRange.hi`;
- `instrRange.hi <= 4 * RamWords`, so a fetched `pc` plus 4 is still a word.

There is one lemma per instruction class, showing that it keeps the CPU state typed and returns a typed result. `CycleTyped` combines them for `CycleOneFull`. The debugger proofs and the timing proofs both use these lemmas.

**The debugger (`SimProofs`).** `IInv` is `TypeOK` plus the two range conjuncts and `fatal => ~inCall`. That last conjunct says no call is running once the latch is set, so `ExecuteCycle` is disabled, and `FatalLatched` rests on it. `NextIInv` has one step per action of `Sim`. `TextProtected` uses the fact that the only step that writes memory is a store that passed `bounds_check!`, which refuses every text word.

**Calls (`DebuggerProofs`).** `BreakAfterProgress` and `StepRunsExactly` talk about a call that has returned, but a call is built one pass at a time. `CInv` adds what holds in the middle of a call:
- a call past its first pass has run at least one cycle (`inCall /\ ~isEnter => ran >= 1`);
- in a step call, the cycles run plus the passes left equal the requested count (`ran + stepsLeft = mode.arg`).

The stop actions read these facts when they end the call. A breakpoint and the skip-until stop test `pc` in the state they report.

`SpyWritesReported` is an action property. Only `ExecuteCycle` can end a call with reason `Spy`. The only cycle whose access result is a write spy is an in-bounds `ExecStore`, and it takes `before` from memory before it writes `after` (`WriteSpyStep`).

**The batch runner (`BatchProofs`).** `BInv` adds to the debugger's invariant four facts:
- the runner's `outcome` is running during a call;
- a `Failure` exit code is always backed by the latch;
- an `Exit` flow comes with the session exited and no latch;
- `ErrorMessagePresent` itself.

Every batch step is a `Sim` step (`BatchIsSim`), so the debugger's invariants carry over. The refinement maps calls and passes as in the debugger, because the status equals `RunStatus` while the outcome is running (`RunningStatus`). `BatchReturn` only renames the status, which makes it a stutter of `Execution`.

**Refinement (`RefinementProofs`).** `SimRefinesExecution` uses `RInv == IInv /\ (inCall => session = "active")`. A cycle must start from a running status, and `RunStatus` is read off `fatal` and `session`. `IInv` gives `~fatal` inside a call, and the extra conjunct gives an active session. Then:
- `Init` maps to `ExecInit` (`InitMaps`);
- each `ExecuteCycle` maps to a `Cycle` (`CycleMaps`, one case per flow);
- a break without a cycle is a stutter or an `Abort` (`BreakMaps`);
- every other step is a stutter (`OtherMaps`).

**Timing (`TimingProofs`).**
- `TimingTypeCorrect`. Its invariant `TInv` is `DInv /\ TimingTypeOK /\ StatInv`. It needs `DInv` because the cache line and tag, the predictor index and the new slot's destination register come from the registers, `pc` and the decoded instruction. `PushBubbles` is a recursive function. `calc_stall_cycles` returns at most 3 (`StallRange`), so `PushBubblesType` shows that the function exists and unrolls its equation at 0..3, with no induction.
- `BranchStatsInvariant`. The sum is not inductive alone, because a step adds 1 to a counter. `StatInv` adds that both stat tables map to naturals. The step splits on whether the decoded instruction is a branch. A branch increments one of four distinct `BranchStat` entries and its own `InstrStat` entry. Any other instruction, including `invalid` and operations outside the table, leaves the four branch entries alone.
- `StallsMinimal`. A slot three or more ahead is always resolved. For the EX and MA slots, the bubbles `ExStall` and `MaStall` ask for are exactly what the slot needs (`ResolvedIff`). So the larger of the two is the least stall, and it equals the `CHOOSE` in `NeededStall`.
- `CacheFillsInvariant`. The property alone is not inductive, because the step needs the cache and `CacheStat` typed and the accessed line inside the cache. So it is proved together with `TInv`. A counted miss adds at most one line to the filled lines (`FilledStep`, from `FS_AddElement` and `FS_Subset`). A hit writes back the tag its line already holds. Any other instruction leaves both alone. A failing access may fill a line uncounted, but it ends the run with the `error` flow, where the property claims nothing.

**The decoder (`DecodeProofs`).** `DecodeEncodeInverse` is stronger than the run. It covers every operation `decode_from` has an arm for (the table without `slti`), every register 0..31, and every immediate of its format's shape: sign-extended from bit 11 (I, S), from bit 12 and even (B), from bit 20 and even (J), five bits for `slli`, and none for R and I/O. `DecodeInverts` is the run's invariant. It holds for any `EncOps` without `slti`; the `slti_decode` run shows why `slti` must be left out. The decode run's sample lies in `Encodable` (`SampleEncodable`, `ImmsShape`), and the spec never changes `ins`.

The argument is bit-level and needs no induction over data:
- `Num` is a recursive function over 0..31. Every field `decode_from` reads has at most 7 bits. `SmallNum` shows once that the function exists and unrolls its equation at 0..31; each step past bit 6 adds nothing. A field is then a 7-term sum (`ExtractNum`, `MaskLowerNum`).
- On the encoding, each field's terms are the `BitOf` bits of the register or code (`EncodeFields`). A number below 2^7 is the sum of its bits, by cases (`RegBits`, `Bits3`, `Bits7`).
- Each immediate decoder is compared with the instruction's immediate bit by bit (`IImmInverse`, `ShImmInverse`, `SImmInverse`, `BImmInverse`, `JImmInverse`). The encoder's bit positions come from `EncodeImm`.
- There is one lemma per arm of `decode_from`: `DecodeR`, `DecodeIArith`, `DecodeSlli`, `DecodeLoad`, `DecodeStore`, `DecodeBranch`, `DecodeJal` and `DecodeIO`. The funct tables give each operation back through `LookupR` and `Lookup` (`LookupRInverse`, `LookupIInverse`, `LookupBInverse`).

The SMT backend evaluates `2^k` only for a literal `k`. So powers of two with a variable exponent are split into one case per exponent (`PowPos`, `HighClear5` to `HighClear20`).

What stays with TLC:
- **The bit-by-bit xor, or and and.** What they compute for every width is also an induction over data.
- **Division facts.** The SMT encoding of `tlapm` does not prove `x = (x \div d) * d + x % d`. Properties of the cache's line and tag split are therefore left to the runs.
- **Liveness.** `FailureReported` and the fairness part of `BatchImplementsExecution` need reasoning about `ENABLED` and fairness, which the provers here do not do.

## Not modelled

| Part | Reason |
|---|---|
| Float arithmetic (`fpu_wrapper.rs`, the E, G, H, K, X, Y, W, V arms) | IEEE arithmetic is out of reach at useful sizes. |
| The v2 dialect (`isa_2nd`, `decode_instr_2nd.rs`) | Not built by default. |
| Formatting of the statistics tables (`stat.rs`, the `StatView`s) | They only print. |
| `typed_memory` | Off by default. |
| `remove_spy` | No command reaches it. |
| Breakpoint conditions | Never built; `do_break` returns true. |
| Debug symbols, PPM output, SLD parsing | Pure parsing and formatting. |
| `show` and `trace` commands | They only print. Note that `show stat` panics in a build without `stat`. |
| Argument parsing and file I/O of `main.rs` | They only build the inputs of `Simulator::new`. |

## Divergences noted but not given a run

- **`sra` is logical.** `sra` is `rs1 >> rs2` on u32 (cpu.rs:679), a logical shift. spec.md says it is arithmetic and that `sra -1, 31` is -1. The model computes what the code computes.
- **The predictor scenario in spec section 8 is wrong.** Scenario 3 says the loop's `bne` counter ends `StronglyTaken` after three taken branches and one untaken branch. By the update rule the spec itself states (`update_state`, branch_predictor.rs:48-54), the final untaken branch steps it back to `WeaklyTaken`. `MCTiming`'s loop programs reach exactly that state.
- **The predictor's index.** The predictor is indexed by the incremented `pc`, a byte address, modulo 64. Only one counter in four is ever used.
- **The cache's address.** The cache is given the word address and shifts it right by 2 once more (cpu.rs:1129, cache.rs:14). So four consecutive words share a tag.
- **Cycles of `flw` and the I format.** Their `ex_cycles` are left at the default 0. Since a push costs the larger of the EX and MA cycles, this has no visible effect on the count.
## Plan

- Use `Decode!DecodeFrom` as the decode table of a `Sim` variant, with a 32-bit memory.
- Model the v2 decoder and the float arithmetic of `fpu_wrapper.rs` on small formats.
