------------------------------- MODULE Batch -------------------------------
(***************************************************************************)
(* The batch runner: execute in cli/src/main.rs without --interactive.    *)
(* It calls single_cycle with the default option (mode Run, no            *)
(* breakpoints, no watchings) until the result has an exit code: Success  *)
(* ends the loop with Ok, Failure with an error built from                *)
(* get_error_msg().unwrap().  The facade and the CPU are those of Sim;    *)
(* no spy can be installed, since no command is read.                     *)
(***************************************************************************)
EXTENDS Sim

VARIABLE outcome   \* "running" while the loop runs; then "ok", "err", or
                   \* "panic" when get_error_msg() returned None

batchVars == <<vars, outcome>>

\* Variant: exit_code recognises only Exit.
ExitCodeExitOnly(f) == IF f.kind = "exit" THEN "success" ELSE "none"

\* Variant: the Failed arm gives Success.
ExitCodeFailedIsSuccess(f) ==
  CASE f.kind = "exit" \/ f.reason = "Failed" -> "success"
    [] f.kind = "break" /\ f.reason = "CannotRestart" -> "failure"
    [] OTHER -> "none"

\* ControlFlow::exit_code
ExitCode(f) ==
  CASE f.kind = "exit" -> "success"
    [] f.kind = "break" /\ f.reason \in {"CannotRestart", "Failed"} -> "failure"
    [] OTHER -> "none"

BatchInit == Init /\ outcome = "running"

\* One more call: the last one (if any) had no exit code.
BatchCall ==
  /\ outcome = "running"
  /\ ExitCode(lastFlow) = "none"
  /\ Call(RunMode)
  /\ UNCHANGED outcome

\* A pass of the Run loop inside the call.
BatchCycle == ExecuteCycle /\ UNCHANGED outcome

\* The loop ends on an exit code; Failure reads the latched error message,
\* and unwrap panics when there is none.
BatchReturn ==
  /\ outcome = "running" /\ ~inCall
  /\ session \in {"active", "exited"}
  /\ ExitCode(lastFlow) # "none"
  /\ outcome' = IF ExitCode(lastFlow) = "success" THEN "ok"
                 ELSE IF fatal THEN "err"
                 ELSE "panic"
  /\ UNCHANGED vars

\* The process has ended: the loop returned, or the simulator panicked.
BatchDone ==
  /\ outcome # "running" \/ session = "crashed"
  /\ UNCHANGED batchVars

BatchNext == BatchCall \/ BatchCycle \/ BatchReturn \/ BatchDone

(***************************************************************************)
(* The loop is straight-line code that waits on nothing (the input file   *)
(* is read into memory before it starts), so each of its steps happens    *)
(* once it is possible.                                                    *)
(***************************************************************************)
BatchFairness ==
  WF_batchVars(BatchCall) /\ WF_batchVars(BatchCycle) /\ WF_batchVars(BatchReturn)

BatchSpec == BatchInit /\ [][BatchNext]_batchVars /\ BatchFairness

(***************************************************************************)
(* Properties.                                                             *)
(***************************************************************************)

\* The run as the batch runner reports it, once it has returned.
BatchStatus ==
  CASE outcome = "ok" -> "halted"
    [] outcome = "err" -> "failed"
    [] outcome = "panic" -> "crashed"
    [] OTHER -> RunStatus

BatchExec == INSTANCE Execution
               WITH prog <- progState, flow <- cpuResult.flow, status <- BatchStatus

\* main.rs execute: the batch runner runs the program cycle after cycle
\* without stopping while it runs, and returns Ok exactly for a halted
\* program and an error exactly for a failed one.
BatchImplementsExecution == BatchExec!ExecSpec

\* main.rs:232, get_error_msg().unwrap(): every Failure exit code comes
\* with a latched error, so the runner never panics reporting it.
ErrorMessagePresent == outcome # "panic"

\* A program whose cycle failed is reported: the loop does not go on
\* calling a simulator that refuses to restart.
FailureReported == fatal ~> (outcome = "err")
=============================================================================
