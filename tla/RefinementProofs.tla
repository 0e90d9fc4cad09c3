-------------------------- MODULE RefinementProofs --------------------------
(***************************************************************************)
(* The debugger-driven simulator implements Execution: every step of Sim  *)
(* is a whole cycle of the program, the host dying, or leaves the         *)
(* program's state and the status of the run alone.                       *)
(*                                                                         *)
(* The status of the run is read off fatal and session (RunStatus), so a  *)
(* cycle must start from a running state: ExecuteCycle is enabled only    *)
(* inside a call, IInv gives ~fatal there, and RInv adds that a call only *)
(* runs in an active session.                                             *)
(***************************************************************************)
EXTENDS SimProofs

RInv == IInv /\ (inCall => session = "active")

LEMMA InitRInv == Init => RInv
  BY InitIInv DEF Init, RInv

\* A call is running only in an active session.
LEMMA CallsActive ==
  ASSUME RInv, [Next]_vars, inCall'
  PROVE  session' = "active"
  <1>1. CASE \E m \in Modes : Call(m)
    BY <1>1 DEF Call, BreakSim, Prompt
  <1>2. CASE ReachTarget \/ StepsDone \/ HitBreakpoint
    BY <1>2 DEF ReachTarget, StepsDone, HitBreakpoint, BreakSim
  <1>3. CASE ExecuteCycle
    <2>1. inCall BY <1>3 DEF ExecuteCycle, PassOpen
    <2>2. cpuResult'.flow \in Flows \ {"none"}
      BY <1>3, CycleStep DEF ExecuteCycle, CpuStepOK, ResultType, RInv
    <2>3. CASE cpuResult'.flow = "continue"
      BY <1>3, <2>1, <2>3 DEF ExecuteCycle, RInv
    <2>4. CASE cpuResult'.flow \in {"spy", "error"}
      <3>1. \E r, ad, sp : BreakSim(r, ad, sp)
        BY <1>3, <2>4 DEF ExecuteCycle, LatchError
      <3>. QED BY <3>1 DEF BreakSim
    <2>5. CASE cpuResult'.flow \in {"exit", "panic"}
      BY <1>3, <2>5 DEF ExecuteCycle, HaltSim
    <2>. QED BY <2>2, <2>3, <2>4, <2>5 DEF Flows
  <1>4. CASE \/ \E a \in BpAddrs : AddBp(a) \/ RemoveBp(a)
             \/ \E a \in WatchAddrs : Watch(a) \/ Unwatch(a)
             \/ \E k \in SpyKinds, a \in SpyAddrs : SpyOn(k, a) \/ SpyOff(k, a)
             \/ Quit
    BY <1>4 DEF AddBp, RemoveBp, Watch, Unwatch, SpyOn, SpyOff, Quit, Prompt
  <1>5. CASE Terminated \/ UNCHANGED vars
    BY <1>5 DEF Terminated, vars, simVars, RInv
  <1>. QED BY <1>1, <1>2, <1>3, <1>4, <1>5 DEF Next

LEMMA NextRInv == RInv /\ [Next]_vars => RInv'
  BY NextIInv, CallsActive DEF RInv

\* Cpu::new starts a running program.
LEMMA InitMaps == Init => Exec!ExecInit
  BY DEF Init, CpuInit, Result, Exec!ExecInit, RunStatus

\* One pass of execute! is one cycle of the run.
LEMMA CycleMaps ==
  ASSUME RInv, ExecuteCycle
  PROVE  Exec!Cycle
  <1>1. inCall /\ ~fatal /\ session = "active"
    BY DEF ExecuteCycle, PassOpen, RInv, IInv
  <1>2. RunStatus = "running" BY <1>1 DEF RunStatus
  <1>3. cpuResult'.flow \in Flows \ {"none"}
    BY CycleStep DEF RInv, ExecuteCycle, CpuStepOK, ResultType
  <1>4. RunStatus' \in {Exec!Outcome(cpuResult'.flow), "crashed"}
    <2>1. CASE cpuResult'.flow = "continue"
      BY <1>1, <2>1 DEF ExecuteCycle, RunStatus, Exec!Outcome
    <2>2. CASE cpuResult'.flow = "spy"
      BY <1>1, <2>2 DEF ExecuteCycle, BreakSim, RunStatus, Exec!Outcome
    <2>3. CASE cpuResult'.flow = "exit"
      BY <1>1, <2>3 DEF ExecuteCycle, HaltSim, RunStatus, Exec!Outcome
    <2>4. CASE cpuResult'.flow = "error"
      <3>1. fatal' = TRUE BY <2>4 DEF ExecuteCycle, LatchError
      <3>2. RunStatus' = "failed" BY <3>1, Zenon DEF RunStatus
      <3>3. Exec!Outcome("error") = "failed" BY DEF Exec!Outcome
      <3>. QED BY <2>4, <3>2, <3>3
    <2>5. CASE cpuResult'.flow = "panic"
      BY <1>1, <2>5 DEF ExecuteCycle, RunStatus, Exec!Outcome
    <2>. QED BY <1>3, <2>1, <2>2, <2>3, <2>4, <2>5 DEF Flows
  <1>. QED BY <1>2, <1>3, <1>4 DEF Exec!Cycle, Exec!CycleFlows, Flows

\* break_sim without a cycle: the run goes on, or the host dies.
LEMMA BreakMaps ==
  ASSUME RInv, inCall, NEW r, NEW ad, NEW sp, BreakSim(r, ad, sp),
         UNCHANGED <<cpuVars, fatal>>
  PROVE  [Exec!ExecNext]_Exec!execVars
  <1>1. ~fatal /\ session = "active" BY DEF RInv, IInv
  <1>2. CASE session' = "active"
    BY <1>1, <1>2 DEF RunStatus, Exec!execVars, progState, cpuVars
  <1>3. CASE session' = "crashed"
    BY <1>1, <1>3 DEF RunStatus, Exec!ExecNext, Exec!Abort, progState, cpuVars
  <1>. QED BY <1>1, <1>2, <1>3 DEF BreakSim

\* Every other step leaves the program alone.
LEMMA OtherMaps ==
  ASSUME RInv, [Next]_vars, ~ExecuteCycle
  PROVE  [Exec!ExecNext]_Exec!execVars
  <1>1. CASE \E m \in Modes : Call(m)
    <2>1. PICK m \in Modes : Call(m) BY <1>1
    <2>2. CASE fatal
      BY <2>1, <2>2 DEF Call, RunStatus, Exec!execVars, progState, cpuVars
    <2>3. CASE ~fatal
      BY <2>1, <2>3 DEF Call, RunStatus, Exec!execVars, progState, cpuVars
    <2>. QED BY <2>2, <2>3
  <1>2. CASE ReachTarget \/ StepsDone \/ HitBreakpoint
    <2>1. /\ inCall /\ UNCHANGED <<cpuVars, fatal>>
          /\ \E r, ad, sp : BreakSim(r, ad, sp)
      BY <1>2 DEF ReachTarget, StepsDone, HitBreakpoint, PassOpen
    <2>. QED BY <2>1, BreakMaps
  <1>3. CASE \/ \E a \in BpAddrs : AddBp(a) \/ RemoveBp(a)
             \/ \E a \in WatchAddrs : Watch(a) \/ Unwatch(a)
             \/ \E k \in SpyKinds, a \in SpyAddrs : SpyOn(k, a) \/ SpyOff(k, a)
    <2>1. CASE \E a \in BpAddrs : AddBp(a) \/ RemoveBp(a)
      BY <2>1 DEF AddBp, RemoveBp, RunStatus, Exec!execVars, progState, cpuVars
    <2>2. CASE \E a \in WatchAddrs : Watch(a) \/ Unwatch(a)
      BY <2>2 DEF Watch, Unwatch, RunStatus, Exec!execVars, progState, cpuVars
    <2>3. CASE \E k \in SpyKinds, a \in SpyAddrs : SpyOn(k, a) \/ SpyOff(k, a)
      <3>1. UNCHANGED <<progState, cpuResult, fatal, session>>
        BY <2>3 DEF SpyOn, SpyOff, AddSpy, progState
      <3>. QED BY <3>1 DEF RunStatus, Exec!execVars
    <2>. QED BY <1>3, <2>1, <2>2, <2>3
  <1>4. CASE Quit
    BY <1>4 DEF Quit, Prompt, RunStatus, Exec!execVars, progState, cpuVars
  <1>5. CASE Terminated \/ UNCHANGED vars
    BY <1>5 DEF Terminated, vars, simVars, RunStatus, Exec!execVars, progState, cpuVars
  <1>. QED BY <1>1, <1>2, <1>3, <1>4, <1>5 DEF Next

\* single_cycle and the debugger's commands (sim.rs, interactive.rs): for
\* every program and every command sequence, the debugger runs the program
\* only by whole cycles and never after it has halted, failed or crashed.
THEOREM SimRefinesExecution == Spec => ImplementsExecution
  <1>1. Init => RInv BY InitRInv
  <1>2. RInv /\ [Next]_vars => RInv' BY NextRInv
  <1>3. Init => Exec!ExecInit BY InitMaps
  <1>4. RInv /\ [Next]_vars => [Exec!ExecNext]_Exec!execVars
    BY CycleMaps, OtherMaps DEF Exec!ExecNext
  <1>. QED BY <1>1, <1>2, <1>3, <1>4, PTL DEF Spec, ImplementsExecution, Exec!ExecSafety
=============================================================================
