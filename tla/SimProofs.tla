----------------------------- MODULE SimProofs -----------------------------
(***************************************************************************)
(* Proofs about Sim for every value of the constants: the type invariant, *)
(* the error latch (FatalIsFinal) and the protection of the text          *)
(* (TextIntact).  They rest on one inductive invariant, IInv, which adds  *)
(* to TypeOK that the instruction range lies inside RAM and that no call  *)
(* is running once the latch is set.  The datapath lemmas are those of   *)
(* CpuProofs.                                                              *)
(***************************************************************************)
EXTENDS Sim, CpuProofs, TLAPS

(***************************************************************************)
(* The inductive invariant.  TypeOK alone is not inductive: the fetch at  *)
(* pc reads mem[pc \div 4] and moves pc to pc + 4, which stay in range    *)
(* only because the text lies inside RAM (Cpu::new, init_from_slice);    *)
(* and the latch is final only because no call is running once it is     *)
(* set (single_cycle returns right after setting it).                     *)
(***************************************************************************)
IInv ==
  /\ TypeOK
  /\ instrRange.lo <= instrRange.hi /\ instrRange.hi <= 4 * RamWords
  /\ fatal => ~inCall

\* The records the model starts from and reports are well typed.
LEMMA ConstantRecords ==
  /\ NoSpy \in SpyResult
  /\ NoInstr \in Instr
  /\ NoFlow \in [kind : {"none", "break", "exit"}, reason : Reasons,
                 addr : Word, spy : SpyResult]
  /\ 0 \in Word /\ 0 \in Regs
  BY CpuRecords DEF NoFlow, Reasons

\* IInv holds of the datapath what DInv does.
LEMMA IInvDInv == IInv => DInv
  BY DEF IInv, TypeOK, DInv

\* The facts of the current state the step lemmas use.
LEMMA IInvFacts ==
  ASSUME IInv
  PROVE  /\ CpuTypeOK /\ pc \in Word
         /\ reg \in [Regs -> Word] /\ freg \in [Regs -> Word]
         /\ mem \in [MemAddrs -> Word]
  BY DEF IInv, TypeOK, CpuTypeOK

\* Cpu::new and Simulator::new: the image is loaded and the debugger idle.
LEMMA InitIInv == Init => IInv
  <1> SUFFICES ASSUME Init PROVE IInv OBVIOUS
  <1>1. PICK sc \in Scenarios : CpuInit(sc) BY DEF Init
  <1>2. DInv BY <1>1, InitDInv
  <1>3. mode \in Modes
    BY ModesAssumption DEF Init
  <1>4. /\ breakpoints = {} /\ watchMem = {} /\ fatal = FALSE
        /\ cycle = 0 /\ ran = 0 /\ stepsLeft = 0
        /\ inCall = FALSE /\ isEnter = TRUE /\ lastFlow = NoFlow
        /\ session = "active" /\ userSpies = [read |-> {}, write |-> {}]
    BY DEF Init
  <1>5. TypeOK
    BY <1>2, <1>3, <1>4, ConstantRecords DEF DInv, TypeOK, Sessions
  <1>. QED BY <1>2, <1>4, <1>5 DEF DInv, IInv

\* Cpu::cycle_one_full, inside the debugger.
LEMMA CycleStep ==
  ASSUME IInv, CycleOneFull
  PROVE  CpuStepOK
  BY IInvDInv, CycleTyped
(***************************************************************************)
(* The facade and the debugger commands.                                  *)
(***************************************************************************)
FlowType == [kind : {"none", "break", "exit"}, reason : Reasons,
             addr : Word, spy : SpyResult]

\* A step that leaves the datapath alone keeps it well typed.
LEMMA CpuUnchanged ==
  ASSUME IInv, UNCHANGED cpuVars
  PROVE  CpuFrameOK
  BY DEF IInv, TypeOK, CpuTypeOK, cpuVars, CpuFrameOK

\* break_sim ends the call with a well-typed flow, or crashes.
LEMMA BreakSimTyped ==
  ASSUME IInv, NEW r \in Reasons, NEW ad \in Word, NEW sp \in SpyResult,
         BreakSim(r, ad, sp)
  PROVE  lastFlow' \in FlowType /\ session' \in Sessions /\ inCall' = FALSE
  BY ConstantRecords DEF BreakSim, FlowType, IInv, TypeOK, Sessions

\* The Sim variables other than the datapath, as TypeOK types them.
SimTypeOK ==
  /\ mode \in Modes
  /\ breakpoints \subseteq BpAddrs
  /\ watchMem \subseteq WatchAddrs
  /\ fatal \in BOOLEAN
  /\ cycle \in Nat /\ ran \in Nat /\ stepsLeft \in Nat
  /\ inCall \in BOOLEAN /\ isEnter \in BOOLEAN
  /\ lastFlow \in FlowType
  /\ session \in Sessions
  /\ userSpies \in [read : SUBSET SpyAddrs, write : SUBSET SpyAddrs]

\* IInv from its parts.
LEMMA IInvParts ==
  IInv <=> /\ CpuTypeOK /\ SimTypeOK
           /\ instrRange.lo <= instrRange.hi /\ instrRange.hi <= 4 * RamWords
           /\ fatal => ~inCall
  BY DEF IInv, TypeOK, SimTypeOK, FlowType

\* IInv after a step, from its parts.
LEMMA IInvNext ==
  ASSUME IInv, CpuFrameOK, SimTypeOK', fatal' => ~inCall'
  PROVE  IInv'
  BY DEF CpuFrameOK, IInv, TypeOK, SimTypeOK, FlowType

\* execute! and the loop around it.
LEMMA ExecuteCycleStep ==
  ASSUME IInv, ExecuteCycle
  PROVE  IInv'
  <1>1. CpuStepOK BY CycleStep DEF ExecuteCycle
  <1>2. cpuResult' \in ResultType BY <1>1 DEF CpuStepOK, CpuFrameOK, CpuTypeOK, ResultType
  <1>3. SimTypeOK /\ inCall BY IInvParts DEF ExecuteCycle, PassOpen
  <1>4. /\ stepsLeft' \in Nat /\ ran' \in Nat /\ isEnter' = FALSE
        /\ UNCHANGED <<mode, breakpoints, watchMem, userSpies>>
    <2>1. mode.kind = "step" => stepsLeft # 0 BY DEF ExecuteCycle, PassOpen
    <2>. QED BY <1>3, <2>1 DEF ExecuteCycle, SimTypeOK
  <1>6. cycle \in Nat /\ fatal \in BOOLEAN BY <1>3 DEF SimTypeOK
  <1>5. /\ cycle' \in Nat /\ fatal' \in BOOLEAN /\ inCall' \in BOOLEAN
        /\ lastFlow' \in FlowType /\ session' \in Sessions
        /\ fatal' => ~inCall'
    <2>1. CASE cpuResult'.flow = "continue"
      BY <1>3, <2>1 DEF ExecuteCycle, SimTypeOK, IInv
    <2>2. CASE cpuResult'.flow = "spy"
      <3>1. BreakSim("Spy", 0, cpuResult'.spy) /\ cycle' = cycle + 1 /\ UNCHANGED fatal
        BY <2>2 DEF ExecuteCycle
      <3>2. cpuResult'.spy \in SpyResult BY <1>2 DEF ResultType
      <3>3. lastFlow' \in FlowType /\ session' \in Sessions /\ inCall' = FALSE
        BY <3>1, <3>2, ConstantRecords, BreakSimTyped DEF Reasons
      <3>4. cycle' \in Nat BY <1>6, <3>1
      <3>. QED BY <1>6, <3>1, <3>3, <3>4, Zenon
    <2>3. CASE cpuResult'.flow = "exit"
      <3>1. /\ cycle' = cycle + 1 /\ inCall' = FALSE /\ session' = "exited"
            /\ lastFlow' = [NoFlow EXCEPT !.kind = "exit"] /\ UNCHANGED fatal
        BY <2>3 DEF ExecuteCycle, HaltSim
      <3>2. [NoFlow EXCEPT !.kind = "exit"] \in FlowType
        BY ConstantRecords DEF NoFlow, FlowType
      <3>3. cycle' \in Nat BY <1>6, <3>1
      <3>. QED BY <1>6, <3>1, <3>2, <3>3, Zenon DEF Sessions
    <2>4. CASE cpuResult'.flow = "error"
      <3>1. BreakSim("Failed", 0, NoSpy) /\ fatal' = TRUE /\ UNCHANGED cycle
        BY <2>4 DEF ExecuteCycle, LatchError
      <3>2. lastFlow' \in FlowType /\ session' \in Sessions /\ inCall' = FALSE
        BY <3>1, ConstantRecords, BreakSimTyped DEF Reasons
      <3>. QED BY <1>6, <3>1, <3>2, Zenon
    <2>5. CASE cpuResult'.flow = "panic"
      BY <1>3, <2>5, ConstantRecords DEF ExecuteCycle, SimTypeOK, Sessions, IInv, FlowType
    <2>. QED BY <1>2, <2>1, <2>2, <2>3, <2>4, <2>5 DEF ResultType, Flows
  <1>. QED BY <1>1, <1>3, <1>4, <1>5, IInvNext DEF SimTypeOK, CpuStepOK
\* single_cycle entered with a mode: it refuses after a fatal error.
LEMMA CallStep ==
  ASSUME IInv, NEW m \in Modes, Call(m)
  PROVE  IInv'
  <1>1. CpuFrameOK BY CpuUnchanged DEF Call
  <1>2. SimTypeOK BY IInvParts
  <1>3. m \in ModeType BY ModesAssumption
  <1>4. /\ mode' \in Modes /\ ran' \in Nat
        /\ UNCHANGED <<breakpoints, watchMem, fatal, cycle, userSpies>>
    BY DEF Call
  <1>5. CASE fatal
    <2>1. /\ BreakSim("CannotRestart", 0, NoSpy)
          /\ UNCHANGED <<isEnter, stepsLeft>>
      BY <1>5 DEF Call
    <2>2. lastFlow' \in FlowType /\ session' \in Sessions /\ inCall' = FALSE
      BY <2>1, ConstantRecords, BreakSimTyped DEF Reasons
    <2>. QED BY <1>1, <1>2, <1>4, <2>1, <2>2, IInvNext DEF SimTypeOK
  <1>6. CASE ~fatal
    <2>1. /\ inCall' = TRUE /\ isEnter' = TRUE
          /\ stepsLeft' = IF m.kind = "step" THEN m.arg ELSE 0
          /\ UNCHANGED <<lastFlow, session>>
      BY <1>6 DEF Call
    <2>2. stepsLeft' \in Nat BY <1>3, <2>1 DEF ModeType
    <2>. QED BY <1>1, <1>2, <1>4, <1>6, <2>1, <2>2, IInvNext DEF SimTypeOK
  <1>. QED BY <1>5, <1>6

\* The loop stops: the skip-until target, the end of the steps, or a
\* breakpoint.
LEMMA StopStep ==
  ASSUME IInv, ReachTarget \/ StepsDone \/ HitBreakpoint
  PROVE  IInv'
  <1>1. CpuFrameOK BY CpuUnchanged DEF ReachTarget, StepsDone, HitBreakpoint
  <1>2. SimTypeOK BY IInvParts
  <1>3. UNCHANGED <<mode, breakpoints, watchMem, fatal, cycle, isEnter, stepsLeft, ran, userSpies>>
    BY DEF ReachTarget, StepsDone, HitBreakpoint
  <1>4. lastFlow' \in FlowType /\ session' \in Sessions /\ inCall' = FALSE
    <2>1. mode \in ModeType /\ pc \in Word BY <1>2, ModesAssumption, IInvFacts DEF SimTypeOK
    <2>2. CASE ReachTarget
      <3>1. mode.arg \in Word BY <2>1, <2>2 DEF ReachTarget
      <3>. QED BY <2>2, <3>1, ConstantRecords, BreakSimTyped DEF ReachTarget, Reasons
    <2>3. CASE StepsDone
      BY <2>3, ConstantRecords, BreakSimTyped DEF StepsDone, Reasons
    <2>4. CASE HitBreakpoint
      BY <2>1, <2>4, ConstantRecords, BreakSimTyped DEF HitBreakpoint, Reasons
    <2>. QED BY <2>2, <2>3, <2>4
  <1>. QED BY <1>1, <1>2, <1>3, <1>4, IInvNext DEF SimTypeOK

\* Breakpoints and watches: the prompt loop's static commands.
LEMMA TableStep ==
  ASSUME IInv,
         \/ \E a \in BpAddrs : AddBp(a) \/ RemoveBp(a)
         \/ \E a \in WatchAddrs : Watch(a) \/ Unwatch(a)
         \/ Quit
  PROVE  IInv'
  <1>1. CpuFrameOK BY CpuUnchanged DEF AddBp, RemoveBp, Watch, Unwatch, Quit
  <1>2. SimTypeOK BY IInvParts
  <1>3. /\ breakpoints' \subseteq BpAddrs /\ watchMem' \subseteq WatchAddrs
        /\ session' \in Sessions
        /\ UNCHANGED <<mode, fatal, cycle, inCall, isEnter, stepsLeft, ran, lastFlow, userSpies>>
    BY <1>2 DEF AddBp, RemoveBp, Watch, Unwatch, Quit, SimTypeOK, Sessions
  <1>4. fatal => ~inCall BY DEF IInv
  <1>. QED BY <1>1, <1>2, <1>3, <1>4, IInvNext DEF SimTypeOK

\* spy on / spy off: add_mem_spy and the user's intent.
LEMMA SpyStep ==
  ASSUME IInv, NEW k \in SpyKinds, NEW a \in SpyAddrs, SpyOn(k, a) \/ SpyOff(k, a)
  PROVE  IInv'
  <1>1. a \in Word BY AddrsAssumption
  <1>2. /\ spyRead' \subseteq Word /\ spyWrite' \subseteq Word
        /\ UNCHANGED <<pc, reg, freg, mem, instrRange, input, output, cpuResult>>
    BY <1>1 DEF SpyOn, SpyOff, AddSpy, IInv, TypeOK, CpuTypeOK
  <1>3. CpuFrameOK BY <1>2 DEF CpuFrameOK, IInv, TypeOK, CpuTypeOK
  <1>4. SimTypeOK BY IInvParts
  <1>5. /\ userSpies' \in [read : SUBSET SpyAddrs, write : SUBSET SpyAddrs]
        /\ UNCHANGED <<mode, breakpoints, watchMem, fatal, cycle, inCall, isEnter,
                       stepsLeft, ran, lastFlow, session>>
    BY <1>4 DEF SpyOn, SpyOff, Intend, SimTypeOK
  <1>6. fatal => ~inCall BY DEF IInv
  <1>. QED BY <1>3, <1>4, <1>5, <1>6, IInvNext DEF SimTypeOK

\* IInv is inductive.
LEMMA NextIInv == IInv /\ [Next]_vars => IInv'
  <1> SUFFICES ASSUME IInv, [Next]_vars PROVE IInv' OBVIOUS
  <1>1. CASE \E m \in Modes : Call(m) BY <1>1, CallStep
  <1>2. CASE ReachTarget \/ StepsDone \/ HitBreakpoint BY <1>2, StopStep
  <1>3. CASE ExecuteCycle BY <1>3, ExecuteCycleStep
  <1>4. CASE \/ \E a \in BpAddrs : AddBp(a) \/ RemoveBp(a)
             \/ \E a \in WatchAddrs : Watch(a) \/ Unwatch(a)
             \/ Quit
    BY <1>4, TableStep
  <1>5. CASE \E k \in SpyKinds, a \in SpyAddrs : SpyOn(k, a) \/ SpyOff(k, a)
    BY <1>5, SpyStep
  <1>6. CASE Terminated \/ UNCHANGED vars
    BY <1>6 DEF Terminated, vars, cpuVars, simVars, IInv, TypeOK, CpuTypeOK
  <1>. QED BY <1>1, <1>2, <1>3, <1>4, <1>5, <1>6 DEF Next

\* The type invariant of the simulator and debugger: every state the
\* debugger session reaches, through cycles, breaks, errors and commands,
\* has registers, memory, I/O and flags of their declared types.
THEOREM TypeCorrect == Spec => []TypeOK
  <1>1. Init => IInv BY InitIInv
  <1>2. IInv /\ [Next]_vars => IInv' BY NextIInv
  <1>3. IInv => TypeOK BY DEF IInv
  <1>. QED BY <1>1, <1>2, <1>3, PTL DEF Spec
(***************************************************************************)
(* The error latch.  Once fatal_error is set no call is running, so no    *)
(* cycle can execute; every step that remains leaves the program state    *)
(* alone and keeps the latch.                                              *)
(***************************************************************************)
LEMMA FatalStep ==
  ASSUME IInv, [Next]_vars, fatal
  PROVE  fatal' /\ UNCHANGED progState
  <1>1. ~inCall BY DEF IInv
  <1>2. ~ReachTarget /\ ~StepsDone /\ ~HitBreakpoint /\ ~ExecuteCycle
    BY <1>1 DEF ReachTarget, StepsDone, HitBreakpoint, ExecuteCycle, PassOpen
  <1>3. CASE \E m \in Modes : Call(m)
    BY <1>3 DEF Call, progState, cpuVars
  <1>4. CASE \/ \E a \in BpAddrs : AddBp(a) \/ RemoveBp(a)
             \/ \E a \in WatchAddrs : Watch(a) \/ Unwatch(a)
             \/ \E k \in SpyKinds, a \in SpyAddrs : SpyOn(k, a) \/ SpyOff(k, a)
             \/ Quit \/ Terminated \/ UNCHANGED vars
    BY <1>4 DEF AddBp, RemoveBp, Watch, Unwatch, SpyOn, SpyOff, AddSpy, Quit,
                Terminated, vars, progState, cpuVars, simVars
  <1>. QED BY <1>2, <1>3, <1>4 DEF Next

\* Error latch (single_cycle, fatal_error): once a cycle has failed, the
\* debugger never runs the program again; the state it sees is frozen and
\* the latch stays set, for every program and every command sequence.
THEOREM FatalLatched == Spec => FatalIsFinal
  <1>1. Init => IInv BY InitIInv
  <1>2. IInv /\ [Next]_vars => IInv' BY NextIInv
  <1>3. IInv /\ [Next]_vars => (fatal => fatal' /\ UNCHANGED progState)
    BY FatalStep
  <1>. QED BY <1>1, <1>2, <1>3, PTL DEF Spec, FatalIsFinal

(***************************************************************************)
(* The text is read-only.  A store is the only step that writes memory,   *)
(* and bounds_check! refuses every address of the instruction range.      *)
(***************************************************************************)
TextKept == \A a \in MemAddrs : InText(a) => mem'[a] = mem[a]

LEMMA CycleKeepsText ==
  ASSUME IInv, CycleOneFull
  PROVE  TextKept
  <1>1. CASE FetchOutOfBounds BY <1>1 DEF FetchOutOfBounds, TextKept
  <1>2. CASE PcInText /\ Execute(Fetched)
    <2> DEFINE ins == Fetched
    <2>1. ins \in Instr BY <1>2, IInvDInv, FetchFacts
    <2>2. CASE ExecStore(ins)
      <3> DEFINE addr == Wrap(reg[ins.rs1] + ins.imm)
                 val == IF ins.op = "sw" THEN reg[ins.rs2] ELSE freg[ins.rs2]
      <3>1. CASE OutOfBounds(addr) BY <2>2, <3>1 DEF ExecStore, TextKept
      <3>2. CASE ~OutOfBounds(addr)
        <4>1. mem' = [mem EXCEPT ![addr] = val] BY <2>2, <3>2 DEF ExecStore
        <4>2. ~InText(addr) BY <3>2 DEF OutOfBounds
        <4>3. mem \in [MemAddrs -> Word] BY IInvFacts
        <4>. QED BY <4>1, <4>2, <4>3 DEF TextKept
      <3>. QED BY <3>1, <3>2
    <2>3. CASE ~ExecStore(ins)
      <3>1. UNCHANGED mem
        BY <1>2, <2>3 DEF Execute, DecodeInvalid, ExecAlu, ExecLoad, ExecBranch, ExecJal,
                          ExecJalr, ExecOutb, ExecIn, ExecEnd
      <3>. QED BY <3>1 DEF TextKept
    <2>. QED BY <2>2, <2>3
  <1>. QED BY <1>1, <1>2 DEF CycleOneFull

\* bounds_check! (memory.rs): whatever the program stores and whatever
\* the user types, no step ever changes a word of the program's text.
THEOREM TextProtected == Spec => TextIntact
  <1>1. Init => IInv BY InitIInv
  <1>2. IInv /\ [Next]_vars => IInv' BY NextIInv
  <1>3. IInv /\ [Next]_vars => TextKept
    <2> SUFFICES ASSUME IInv, [Next]_vars PROVE TextKept OBVIOUS
    <2>1. CASE ExecuteCycle BY <2>1, CycleKeepsText DEF ExecuteCycle
    <2>2. CASE ~ExecuteCycle
      <3>1. UNCHANGED mem
        BY <2>2 DEF Next, Call, ReachTarget, StepsDone, HitBreakpoint, AddBp, RemoveBp,
                    Watch, Unwatch, SpyOn, SpyOff, AddSpy, Quit, Terminated, vars, cpuVars
      <3>. QED BY <3>1 DEF TextKept
    <2>. QED BY <2>1, <2>2
  <1>. QED BY <1>1, <1>2, <1>3, PTL DEF Spec, TextIntact, TextKept
=============================================================================
