--------------------------- MODULE DebuggerProofs ---------------------------
(***************************************************************************)
(* Proofs about the call protocol of single_cycle: what a call that       *)
(* stopped at a breakpoint, at a skip-until target or at the end of its   *)
(* steps has done.                                                         *)
(***************************************************************************)
EXTENDS SimProofs

(***************************************************************************)
(* Neither property is inductive: both speak of a call once it returned, *)
(* and what they say is built up pass by pass inside the call.  CInv      *)
(* states what holds between the passes: after the first pass a cycle    *)
(* has run, and during a step call the cycles run and the passes left add *)
(* up to n.                                                                *)
(***************************************************************************)
CInv ==
  /\ IInv
  /\ inCall /\ ~isEnter => ran >= 1
  /\ inCall /\ mode.kind = "step" => ran + stepsLeft = mode.arg
  /\ BreakAfterProgress
  /\ StepRunsExactly

\* break_sim returns from the call with a break of the given reason and
\* address, or, when a watched word cannot be read, with nothing.
LEMMA BreakSimFlow ==
  ASSUME NEW r, NEW ad, NEW sp, BreakSim(r, ad, sp)
  PROVE  /\ ~inCall'
         /\ lastFlow'.kind = "break" => lastFlow'.reason = r /\ lastFlow'.addr = ad
  BY DEF BreakSim, NoFlow

\* What CInv says about a state where no call is running.
StoppedOK ==
  /\ BreakAfterProgress
  /\ StepRunsExactly

\* A step that ends the call with a flow of none of the three reasons
\* keeps both properties.
LEMMA OtherStop ==
  ASSUME ~inCall',
         lastFlow'.kind = "break" => lastFlow'.reason \notin {"BreakPoint", "Reached", "StepEnded"}
  PROVE  StoppedOK'
  BY DEF StoppedOK, BreakAfterProgress, StepRunsExactly

\* Entering single_cycle: refused after an error, or a fresh call.
LEMMA CallCInv ==
  ASSUME CInv, NEW m \in Modes, Call(m)
  PROVE  CInv'
  <1>1. IInv' BY NextIInv DEF CInv, Next
  <1>2. m \in ModeType BY ModesAssumption
  <1>3. CASE fatal
    <2>1. BreakSim("CannotRestart", 0, NoSpy) BY <1>3 DEF Call
    <2>2. ~inCall' /\ (lastFlow'.kind = "break" => lastFlow'.reason = "CannotRestart")
      BY <2>1, BreakSimFlow
    <2>3. StoppedOK' BY <2>2, OtherStop
    <2>. QED BY <1>1, <2>2, <2>3 DEF CInv, StoppedOK
  <1>4. CASE ~fatal
    <2>1. /\ inCall' /\ isEnter' /\ mode' = m /\ ran' = 0
          /\ stepsLeft' = IF m.kind = "step" THEN m.arg ELSE 0
      BY <1>4 DEF Call
    <2>2. m.arg \in Nat BY <1>2 DEF ModeType
    <2>. QED BY <1>1, <2>1, <2>2 DEF CInv, BreakAfterProgress, StepRunsExactly
  <1>. QED BY <1>3, <1>4

\* Stopping at the skip-until target, at the end of the steps or at a
\* breakpoint: the pass is not the first, and pc is what is reported.
LEMMA StopCInv ==
  ASSUME CInv, ReachTarget \/ StepsDone \/ HitBreakpoint
  PROVE  CInv'
  <1>1. IInv' BY NextIInv DEF CInv, Next
  <1>2. ran \in Nat /\ stepsLeft \in Nat BY DEF CInv, IInv, TypeOK
  <1>3. UNCHANGED <<pc, mode, ran>> /\ inCall
    BY DEF ReachTarget, StepsDone, HitBreakpoint, PassOpen, cpuVars
  <1>4. CASE ReachTarget
    <2>1. ~isEnter /\ pc = mode.arg /\ mode.kind = "until" BY <1>4 DEF ReachTarget
    <2>2. ~inCall' /\ (lastFlow'.kind = "break" => lastFlow'.reason = "Reached" /\ lastFlow'.addr = mode.arg)
      BY <1>4, BreakSimFlow DEF ReachTarget
    <2>3. ran >= 1 BY <1>3, <2>1 DEF CInv
    <2>. QED BY <1>1, <1>3, <2>1, <2>2, <2>3 DEF CInv, BreakAfterProgress, StepRunsExactly
  <1>5. CASE StepsDone
    <2>1. mode.kind = "step" /\ stepsLeft = 0 BY <1>5 DEF StepsDone
    <2>2. ~inCall' /\ (lastFlow'.kind = "break" => lastFlow'.reason = "StepEnded")
      BY <1>5, BreakSimFlow DEF StepsDone
    <2>3. ran = mode.arg BY <1>2, <1>3, <2>1 DEF CInv
    <2>. QED BY <1>1, <1>3, <2>1, <2>2, <2>3 DEF CInv, BreakAfterProgress, StepRunsExactly
  <1>6. CASE HitBreakpoint
    <2>1. ~isEnter BY <1>6 DEF HitBreakpoint
    <2>2. ~inCall' /\ (lastFlow'.kind = "break" => lastFlow'.reason = "BreakPoint" /\ lastFlow'.addr = pc)
      BY <1>6, BreakSimFlow DEF HitBreakpoint
    <2>3. ran >= 1 BY <1>3, <2>1 DEF CInv
    <2>. QED BY <1>1, <1>3, <2>2, <2>3 DEF CInv, BreakAfterProgress, StepRunsExactly
  <1>. QED BY <1>4, <1>5, <1>6

\* One pass of execute!: a cycle has now run, and a step is used up.
LEMMA CycleCInv ==
  ASSUME CInv, ExecuteCycle
  PROVE  CInv'
  <1>1. IInv' BY NextIInv DEF CInv, Next
  <1>2. ran \in Nat /\ stepsLeft \in Nat BY DEF CInv, IInv, TypeOK
  <1>3. /\ ran' = ran + 1 /\ ~isEnter' /\ UNCHANGED mode /\ inCall
        /\ stepsLeft' = IF mode.kind = "step" THEN stepsLeft - 1 ELSE stepsLeft
    BY DEF ExecuteCycle, PassOpen
  <1>4. inCall' /\ mode'.kind = "step" => ran' + stepsLeft' = mode'.arg
    BY <1>2, <1>3 DEF CInv
  <1>5. ran' >= 1 BY <1>2, <1>3
  <1>6. cpuResult'.flow \in Flows \ {"none"}
    BY CycleStep DEF CInv, ExecuteCycle, CpuStepOK, ResultType
  <1>7. CASE cpuResult'.flow = "continue"
    <2>1. inCall' /\ UNCHANGED lastFlow BY <1>3, <1>7 DEF ExecuteCycle
    <2>. QED BY <1>1, <1>4, <1>5, <2>1 DEF CInv, BreakAfterProgress, StepRunsExactly
  <1>8. CASE cpuResult'.flow \in {"spy", "exit", "error", "panic"}
    <2>1. /\ ~inCall'
          /\ lastFlow'.kind = "break" => lastFlow'.reason \in {"Spy", "Failed"}
      <3>1. CASE cpuResult'.flow = "spy"
        BY <3>1, BreakSimFlow DEF ExecuteCycle
      <3>2. CASE cpuResult'.flow = "exit"
        BY <3>2 DEF ExecuteCycle, HaltSim, NoFlow
      <3>3. CASE cpuResult'.flow = "error"
        BY <3>3, BreakSimFlow DEF ExecuteCycle, LatchError
      <3>4. CASE cpuResult'.flow = "panic"
        BY <3>4 DEF ExecuteCycle, NoFlow
      <3>. QED BY <1>8, <3>1, <3>2, <3>3, <3>4
    <2>2. StoppedOK' BY <2>1, OtherStop
    <2>. QED BY <1>1, <2>1, <2>2 DEF CInv, StoppedOK
  <1>. QED BY <1>6, <1>7, <1>8 DEF Flows

\* The prompt's static commands change nothing CInv speaks of.
LEMMA CommandCInv ==
  ASSUME CInv,
         \/ \E a \in BpAddrs : AddBp(a) \/ RemoveBp(a)
         \/ \E a \in WatchAddrs : Watch(a) \/ Unwatch(a)
         \/ \E k \in SpyKinds, a \in SpyAddrs : SpyOn(k, a) \/ SpyOff(k, a)
         \/ Quit \/ Terminated \/ UNCHANGED vars
  PROVE  CInv'
  <1>1. IInv' BY NextIInv DEF CInv, Next
  <1>2. UNCHANGED <<pc, mode, ran, inCall, isEnter, stepsLeft, lastFlow>>
    BY DEF AddBp, RemoveBp, Watch, Unwatch, SpyOn, SpyOff, AddSpy, Quit,
           Terminated, vars, simVars, cpuVars
  <1>. QED BY <1>1, <1>2 DEF CInv, BreakAfterProgress, StepRunsExactly

LEMMA InitCInv == Init => CInv
  BY InitIInv DEF Init, CInv, BreakAfterProgress, StepRunsExactly, NoFlow

LEMMA NextCInv == CInv /\ [Next]_vars => CInv'
  <1> SUFFICES ASSUME CInv, [Next]_vars PROVE CInv' OBVIOUS
  <1>1. CASE \E m \in Modes : Call(m) BY <1>1, CallCInv
  <1>2. CASE ReachTarget \/ StepsDone \/ HitBreakpoint BY <1>2, StopCInv
  <1>3. CASE ExecuteCycle BY <1>3, CycleCInv
  <1>4. CASE \/ \E a \in BpAddrs : AddBp(a) \/ RemoveBp(a)
             \/ \E a \in WatchAddrs : Watch(a) \/ Unwatch(a)
             \/ \E k \in SpyKinds, a \in SpyAddrs : SpyOn(k, a) \/ SpyOff(k, a)
             \/ Quit \/ Terminated \/ UNCHANGED vars
    BY <1>4, CommandCInv
  <1>. QED BY <1>1, <1>2, <1>3, <1>4 DEF Next

\* Breakpoints and skip-until (execute!, is_enter): for every program and
\* every command sequence, a call that stopped at a breakpoint or at the
\* skip-until target ran at least one instruction and stopped with pc at
\* the reported address.
THEOREM BreakpointsProgress == Spec => []BreakAfterProgress
  <1>1. Init => CInv BY InitCInv
  <1>2. CInv /\ [Next]_vars => CInv' BY NextCInv
  <1>3. CInv => BreakAfterProgress BY DEF CInv
  <1>. QED BY <1>1, <1>2, <1>3, PTL DEF Spec

\* RunStep(n), `for _ in 0..n`: for every n and every program, a step call
\* that ended with StepEnded ran exactly n cycles.
THEOREM StepsExact == Spec => []StepRunsExactly
  <1>1. Init => CInv BY InitCInv
  <1>2. CInv /\ [Next]_vars => CInv' BY NextCInv
  <1>3. CInv => StepRunsExactly BY DEF CInv
  <1>. QED BY <1>1, <1>2, <1>3, PTL DEF Spec

(***************************************************************************)
(* Write spies.  Only a cycle can end a call with reason Spy, and the    *)
(* only cycle whose access result is a write spy is an in-bounds store:  *)
(* on_write reads the old word before memory_access writes the new one.  *)
(***************************************************************************)
SpyReported ==
  (inCall /\ ~inCall' /\ lastFlow'.reason = "Spy" /\ lastFlow'.spy.kind = "write")
    => /\ lastFlow'.spy.before = mem[lastFlow'.spy.addr]
       /\ lastFlow'.spy.after = mem'[lastFlow'.spy.addr]

\* sw / fsw on a spied word: the access result records the overwritten
\* word and the word now in memory; no other cycle yields a write spy.
LEMMA WriteSpyStep ==
  ASSUME IInv, CycleOneFull, cpuResult'.spy.kind = "write"
  PROVE  /\ cpuResult'.spy.before = mem[cpuResult'.spy.addr]
         /\ cpuResult'.spy.after = mem'[cpuResult'.spy.addr]
  <1>1. CASE FetchOutOfBounds
    BY <1>1 DEF FetchOutOfBounds, Fail, Result, NoSpy
  <1>2. CASE PcInText /\ Execute(Fetched)
    <2> DEFINE ins == Fetched
    <2>1. ins \in Instr BY <1>2, IInvDInv, FetchFacts
    <2>2. CASE ExecStore(ins)
      <3> DEFINE addr == Wrap(reg[ins.rs1] + ins.imm)
                 val == IF ins.op = "sw" THEN reg[ins.rs2] ELSE freg[ins.rs2]
      <3>1. addr \in Word BY <2>1, IInvFacts, WrapIsWord DEF Instr, Word
      <3>2. CASE OutOfBounds(addr)
        BY <2>2, <3>2 DEF ExecStore, Fail, Result, NoSpy
      <3>3. CASE ~OutOfBounds(addr)
        <4>1. addr \in MemAddrs BY <3>1, <3>3, InBoundsIsMem
        <4>2. /\ cpuResult'.spy = WriteSpy(addr, val)
              /\ mem' = [mem EXCEPT ![addr] = val]
          BY <2>2, <3>3 DEF ExecStore, AccessResult, Result
        <4>3. cpuResult'.spy = [kind |-> "write", addr |-> addr, before |-> mem[addr], after |-> val]
          BY <4>2 DEF WriteSpy, NoSpy
        <4>. QED BY <4>1, <4>2, <4>3, IInvFacts
      <3>. QED BY <3>2, <3>3
    <2>3. CASE ExecLoad(ins)
      BY <2>3 DEF ExecLoad, AccessResult, Result, ReadSpy, NoSpy, Fail
    <2>4. CASE \/ DecodeInvalid(ins) \/ ExecAlu(ins) \/ ExecBranch(ins)
               \/ ExecJal(ins) \/ ExecJalr(ins) \/ ExecOutb(ins) \/ ExecIn(ins)
               \/ ExecEnd(ins)
      BY <2>4 DEF DecodeInvalid, ExecAlu, ExecBranch, ExecJal, ExecJalr, ExecOutb,
                  ExecIn, ExecEnd, Ok, Fail, Crash, Result, NoSpy
    <2>. QED BY <1>2, <2>2, <2>3, <2>4 DEF Execute
  <1>. QED BY <1>1, <1>2 DEF CycleOneFull

\* A step that ends a call on a write spy is a cycle that stored.
LEMMA SpyBreakStep ==
  ASSUME IInv, [Next]_vars, inCall, ~inCall', lastFlow'.reason = "Spy",
         lastFlow'.spy.kind = "write"
  PROVE  /\ lastFlow'.spy.before = mem[lastFlow'.spy.addr]
         /\ lastFlow'.spy.after = mem'[lastFlow'.spy.addr]
  <1>1. CASE ExecuteCycle
    <2>1. CASE cpuResult'.flow = "spy"
      <3>1. lastFlow'.spy = cpuResult'.spy
        BY <1>1, <2>1 DEF ExecuteCycle, BreakSim, NoFlow
      <3>. QED BY <1>1, <3>1, WriteSpyStep DEF ExecuteCycle
    <2>2. cpuResult'.flow \in {"continue", "spy", "exit", "error", "panic"}
      BY <1>1, CycleStep DEF ExecuteCycle, CpuStepOK, ResultType, Flows
    <2>3. CASE cpuResult'.flow = "continue"
      BY <1>1, <2>3 DEF ExecuteCycle
    <2>4. CASE cpuResult'.flow = "exit"
      BY <1>1, <2>4 DEF ExecuteCycle, HaltSim, NoFlow
    <2>5. CASE cpuResult'.flow = "error"
      <3>1. LatchError BY <1>1, <2>5 DEF ExecuteCycle
      <3>. QED BY <3>1 DEF LatchError, BreakSim, NoFlow
    <2>6. CASE cpuResult'.flow = "panic"
      BY <1>1, <2>6 DEF ExecuteCycle, NoFlow
    <2>. QED BY <2>1, <2>2, <2>3, <2>4, <2>5, <2>6
  <1>2. CASE ReachTarget \/ StepsDone \/ HitBreakpoint
    BY <1>2 DEF ReachTarget, StepsDone, HitBreakpoint, BreakSim, NoFlow
  <1>3. CASE \/ \E m \in Modes : Call(m)
             \/ \E a \in BpAddrs : AddBp(a) \/ RemoveBp(a)
             \/ \E a \in WatchAddrs : Watch(a) \/ Unwatch(a)
             \/ \E k \in SpyKinds, a \in SpyAddrs : SpyOn(k, a) \/ SpyOff(k, a)
             \/ Quit
    BY <1>3 DEF Call, Prompt, AddBp, RemoveBp, Watch, Unwatch, SpyOn, SpyOff, Quit
  <1>4. CASE Terminated \/ UNCHANGED vars
    BY <1>4 DEF Terminated, vars, simVars
  <1>5. Next \/ UNCHANGED vars OBVIOUS
  <1>. QED BY <1>1, <1>2, <1>3, <1>4, <1>5, Zenon DEF Next

\* Memory::on_write (memory.rs): for every program and every spy the user
\* installs, a call that stopped on a write spy reports as `before` the
\* word the store overwrote and as `after` the word it left in memory.
THEOREM SpyWritesReported == Spec => SpyWriteReportsChange
  <1>1. Init => IInv BY InitIInv
  <1>2. IInv /\ [Next]_vars => IInv' BY NextIInv
  <1>3. IInv /\ [Next]_vars => SpyReported BY SpyBreakStep DEF SpyReported
  <1>. QED BY <1>1, <1>2, <1>3, PTL DEF Spec, SpyWriteReportsChange, SpyReported

=============================================================================
