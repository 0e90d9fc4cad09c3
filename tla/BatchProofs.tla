---------------------------- MODULE BatchProofs ----------------------------
(***************************************************************************)
(* Proofs about the batch runner of main.rs: it never panics reporting a  *)
(* failure, and it implements the safety part of Execution.               *)
(***************************************************************************)
EXTENDS Batch, RefinementProofs

(***************************************************************************)
(* ErrorMessagePresent is not inductive: BatchReturn reads the flow the   *)
(* last call returned and the latch.  BInv adds that a Failure exit code  *)
(* is always backed by the latch, that an Exit comes with the session     *)
(* ended and no error, and that the loop only returns between calls.     *)
(***************************************************************************)
BInv ==
  /\ RInv
  /\ outcome \in {"running", "ok", "err", "panic"}
  /\ inCall => outcome = "running"
  /\ ExitCode(lastFlow) = "failure" => fatal
  /\ lastFlow.kind = "exit" => session = "exited" /\ ~fatal
  /\ ErrorMessagePresent

\* Every step of the batch loop is a step of the simulator: a call in Run
\* mode, a pass of execute!, or a step that leaves the simulator alone.
LEMMA BatchIsSim == [BatchNext]_batchVars => [Next]_vars
  <1>1. RunMode \in Modes BY ModesAssumption
  <1>. QED BY <1>1 DEF BatchNext, BatchCall, BatchCycle, BatchReturn, BatchDone,
                      batchVars, Next

\* ControlFlow::exit_code has three answers.
LEMMA ExitCodes ==
  ASSUME NEW f
  PROVE  ExitCode(f) \in {"success", "failure", "none"}
  BY DEF ExitCode

LEMMA InitBInv == BatchInit => BInv
  BY InitRInv DEF BatchInit, Init, BInv, ExitCode, NoFlow, ErrorMessagePresent

\* A call in Run mode: refused with CannotRestart only when latched.
LEMMA CallBInv ==
  ASSUME BInv, BatchCall
  PROVE  BInv'
  <1>1. RInv' BY NextRInv, BatchIsSim DEF BInv, BatchNext
  <1>2. Call(RunMode) /\ outcome = "running" /\ outcome' = "running" BY DEF BatchCall
  <1>3. CASE fatal
    <2>1. BreakSim("CannotRestart", 0, NoSpy) /\ fatal' BY <1>2, <1>3 DEF Call
    <2>2. lastFlow'.kind \in {"break", "none"} /\ (lastFlow'.kind = "break" => lastFlow'.reason = "CannotRestart")
      BY <2>1 DEF BreakSim, NoFlow
    <2>. QED BY <1>1, <1>2, <2>1, <2>2 DEF BInv, ExitCode, ErrorMessagePresent
  <1>4. CASE ~fatal
    <2>1. UNCHANGED <<lastFlow, session, fatal>> BY <1>2, <1>4 DEF Call
    <2>. QED BY <1>1, <1>2, <2>1 DEF BInv, ErrorMessagePresent
  <1>. QED BY <1>3, <1>4

\* A pass of execute!: only Exit ends the session without the latch, and
\* only an error sets the latch.
LEMMA CycleBInv ==
  ASSUME BInv, BatchCycle
  PROVE  BInv'
  <1>1. RInv' BY NextRInv, BatchIsSim DEF BInv, BatchNext
  <1>2. ExecuteCycle /\ UNCHANGED outcome /\ inCall BY DEF BatchCycle, ExecuteCycle, PassOpen
  <1>3. outcome = "running" /\ ~fatal BY <1>2 DEF BInv, RInv, IInv
  <1>4. cpuResult'.flow \in Flows \ {"none"}
    BY <1>2, CycleStep DEF BInv, RInv, ExecuteCycle, CpuStepOK, ResultType
  <1>5. /\ ExitCode(lastFlow') = "failure" => fatal'
        /\ lastFlow'.kind = "exit" => session' = "exited" /\ ~fatal'
    <2>1. CASE cpuResult'.flow = "continue"
      <3>1. UNCHANGED <<lastFlow, session, fatal>> BY <1>2, <2>1 DEF ExecuteCycle
      <3>. QED BY <3>1 DEF BInv
    <2>2. CASE cpuResult'.flow = "spy"
      <3>1. BreakSim("Spy", 0, cpuResult'.spy) BY <1>2, <2>2 DEF ExecuteCycle
      <3>. QED BY <3>1 DEF BreakSim, NoFlow, ExitCode
    <2>3. CASE cpuResult'.flow = "exit"
      <3>1. HaltSim /\ UNCHANGED fatal BY <1>2, <2>3 DEF ExecuteCycle
      <3>. QED BY <1>3, <3>1 DEF HaltSim, NoFlow, ExitCode
    <2>4. CASE cpuResult'.flow = "error"
      <3>1. LatchError BY <1>2, <2>4 DEF ExecuteCycle
      <3>. QED BY <3>1 DEF LatchError, BreakSim, NoFlow, ExitCode
    <2>5. CASE cpuResult'.flow = "panic"
      <3>1. lastFlow' = NoFlow BY <1>2, <2>5 DEF ExecuteCycle
      <3>. QED BY <3>1 DEF NoFlow, ExitCode
    <2>. QED BY <1>4, <2>1, <2>2, <2>3, <2>4, <2>5 DEF Flows
  <1>. QED BY <1>1, <1>2, <1>3, <1>5 DEF BInv, ErrorMessagePresent

\* The loop returns: Ok on Success, and on Failure the latched error.
LEMMA ReturnBInv ==
  ASSUME BInv, BatchReturn
  PROVE  BInv'
  <1>1. UNCHANGED vars /\ ~inCall /\ ExitCode(lastFlow) # "none" BY DEF BatchReturn
  <1>2. RInv' BY <1>1, NextRInv DEF BInv
  <1>3. outcome' \in {"ok", "err"}
    <2>1. ExitCode(lastFlow) \in {"success", "failure"} BY <1>1, ExitCodes
    <2>2. ExitCode(lastFlow) = "failure" => fatal BY DEF BInv
    <2>. QED BY <2>1, <2>2 DEF BatchReturn
  <1>4. UNCHANGED <<inCall, lastFlow, session, fatal>> BY <1>1 DEF vars, simVars
  <1>. QED BY <1>1, <1>2, <1>3, <1>4 DEF BInv, ErrorMessagePresent

LEMMA NextBInv == BInv /\ [BatchNext]_batchVars => BInv'
  <1> SUFFICES ASSUME BInv, [BatchNext]_batchVars PROVE BInv' OBVIOUS
  <1>1. CASE BatchCall BY <1>1, CallBInv
  <1>2. CASE BatchCycle BY <1>2, CycleBInv
  <1>3. CASE BatchReturn BY <1>3, ReturnBInv
  <1>4. CASE BatchDone \/ UNCHANGED batchVars
    <2>1. UNCHANGED batchVars BY <1>4 DEF BatchDone
    <2>2. RInv' BY <2>1, NextRInv DEF BInv, batchVars
    <2>. QED BY <2>1, <2>2 DEF BInv, batchVars, vars, simVars, ErrorMessagePresent
  <1>. QED BY <1>1, <1>2, <1>3, <1>4 DEF BatchNext

\* main.rs:232, get_error_msg().unwrap(): for every program, whenever the
\* batch loop ends on a Failure exit code an error has been latched, so
\* reporting it never panics.
THEOREM ErrorMessageLatched == BatchSpec => []ErrorMessagePresent
  <1>1. BatchInit => BInv BY InitBInv
  <1>2. BInv /\ [BatchNext]_batchVars => BInv' BY NextBInv
  <1>3. BInv => ErrorMessagePresent BY DEF BInv
  <1>. QED BY <1>1, <1>2, <1>3, PTL DEF BatchSpec

(***************************************************************************)
(* The refinement.  While the loop runs, the batch status is RunStatus,  *)
(* so its calls and passes map as those of the debugger do; the return   *)
(* only renames the status the run already had.                           *)
(***************************************************************************)

\* A step of Sim that maps to Execution maps the same way when the batch
\* status is the debugger's status before and after it.
LEMMA SameStatus ==
  ASSUME BatchStatus = RunStatus, BatchStatus' = RunStatus',
         [Exec!ExecNext]_Exec!execVars
  PROVE  [BatchExec!ExecNext]_BatchExec!execVars
  <1>1. CASE Exec!Cycle
    BY <1>1 DEF Exec!Cycle, Exec!CycleFlows, Exec!Outcome, BatchExec!ExecNext,
                BatchExec!Cycle, BatchExec!CycleFlows, BatchExec!Outcome
  <1>2. CASE Exec!Abort
    BY <1>2 DEF Exec!Abort, BatchExec!ExecNext, BatchExec!Abort
  <1>3. CASE UNCHANGED Exec!execVars
    BY <1>3 DEF Exec!execVars, BatchExec!execVars
  <1>. QED BY <1>1, <1>2, <1>3 DEF Exec!ExecNext

LEMMA RunningStatus ==
  /\ outcome = "running" => BatchStatus = RunStatus
  /\ outcome' = "running" => BatchStatus' = RunStatus'
  BY DEF BatchStatus

\* Returning Ok or the latched error keeps the status of the run.
LEMMA ReturnStutters ==
  ASSUME BInv, BatchReturn
  PROVE  UNCHANGED BatchExec!execVars
  <1>1. UNCHANGED vars /\ outcome = "running" BY DEF BatchReturn
  <1>2. BatchStatus = RunStatus BY <1>1, RunningStatus
  <1>3. ExitCode(lastFlow) \in {"success", "failure"} BY ExitCodes DEF BatchReturn
  <1>4. CASE ExitCode(lastFlow) = "success"
    <2>1. lastFlow.kind = "exit" BY <1>4 DEF ExitCode
    <2>2. session = "exited" /\ ~fatal BY <2>1 DEF BInv
    <2>3. RunStatus = "halted" BY <2>2 DEF RunStatus
    <2>4. outcome' = "ok" BY <1>4 DEF BatchReturn
    <2>. QED BY <1>1, <1>2, <2>3, <2>4 DEF BatchStatus, BatchExec!execVars, vars, progState, cpuVars
  <1>5. CASE ExitCode(lastFlow) = "failure"
    <2>1. fatal BY <1>5 DEF BInv
    <2>2. RunStatus = "failed" BY <2>1 DEF RunStatus
    <2>3. outcome' = "err" BY <1>5, <2>1 DEF BatchReturn
    <2>. QED BY <1>1, <1>2, <2>2, <2>3 DEF BatchStatus, BatchExec!execVars, vars, progState, cpuVars
  <1>. QED BY <1>3, <1>4, <1>5

LEMMA BatchStepMaps ==
  ASSUME BInv, [BatchNext]_batchVars
  PROVE  [BatchExec!ExecNext]_BatchExec!execVars
  <1>1. CASE BatchCall
    <2>1. Call(RunMode) /\ outcome = "running" /\ outcome' = "running" BY <1>1 DEF BatchCall
    <2>2. ~ExecuteCycle BY <2>1 DEF Call, Prompt, ExecuteCycle, PassOpen
    <2>3. [Exec!ExecNext]_Exec!execVars BY <2>2, BatchIsSim, <1>1, OtherMaps DEF BInv, BatchNext
    <2>. QED BY <2>1, <2>3, RunningStatus, SameStatus
  <1>2. CASE BatchCycle
    <2>1. ExecuteCycle /\ outcome = "running" /\ outcome' = "running"
      BY <1>2 DEF BatchCycle, ExecuteCycle, PassOpen, BInv
    <2>2. [Exec!ExecNext]_Exec!execVars BY <2>1, CycleMaps DEF BInv, Exec!ExecNext
    <2>. QED BY <2>1, <2>2, RunningStatus, SameStatus
  <1>3. CASE BatchReturn BY <1>3, ReturnStutters
  <1>4. CASE BatchDone \/ UNCHANGED batchVars
    BY <1>4 DEF BatchDone, batchVars, vars, BatchExec!execVars, progState, cpuVars, BatchStatus, RunStatus, simVars
  <1>. QED BY <1>1, <1>2, <1>3, <1>4 DEF BatchNext

\* main.rs execute: for every program, the batch runner changes the
\* program only by whole cycles, and never after it halted, failed or
\* crashed; returning Ok or the error does not change the outcome.
THEOREM BatchRefinesExecution == BatchSpec => BatchExec!ExecSafety
  <1>1. BatchInit => BInv BY InitBInv
  <1>2. BInv /\ [BatchNext]_batchVars => BInv' BY NextBInv
  <1>3. BatchInit => BatchExec!ExecInit
    BY InitMaps DEF BatchInit, BatchStatus, Exec!ExecInit, BatchExec!ExecInit
  <1>4. BInv /\ [BatchNext]_batchVars => [BatchExec!ExecNext]_BatchExec!execVars
    BY BatchStepMaps
  <1>. QED BY <1>1, <1>2, <1>3, <1>4, PTL DEF BatchSpec, BatchExec!ExecSafety
=============================================================================
