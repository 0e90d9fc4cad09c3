----------------------------- MODULE Execution -----------------------------
(***************************************************************************)
(* What running a program promises, whoever drives the CPU (the batch     *)
(* loop of main.rs or the interactive debugger).  The program's state    *)
(* (pc, registers, memory, I/O) changes only by a cycle, each cycle       *)
(* returns a flow, and the run ends when a cycle executes end (halted),   *)
(* fails (failed) or panics (crashed); an ended run never changes again.  *)
(* The host may also die while no cycle runs (break_sim panics on a       *)
(* watched word).  How a driver splits its work into calls, breaks and    *)
(* commands is hidden, and so is what a cycle computes: that is the       *)
(* datapath, shared by every driver.                                      *)
(***************************************************************************)
VARIABLES
  prog,     \* the state the program sees
  flow,     \* the flow the last cycle returned
  status    \* "running", "halted", "failed" or "crashed"

execVars == <<prog, flow, status>>

Statuses == {"running", "halted", "failed", "crashed"}
CycleFlows == {"continue", "spy", "exit", "error", "panic"}

\* How the flow of a cycle ends the run, or not.
Outcome(f) ==
  CASE f = "exit" -> "halted"
    [] f = "error" -> "failed"
    [] f = "panic" -> "crashed"
    [] OTHER -> "running"

ExecInit == flow = "none" /\ status = "running"

\* One cycle: any new program state and a flow; reporting the cycle may
\* kill the host.
Cycle ==
  /\ status = "running"
  /\ flow' \in CycleFlows
  /\ status' \in {Outcome(flow'), "crashed"}

\* The host dies between cycles.
Abort ==
  /\ status = "running" /\ status' = "crashed"
  /\ UNCHANGED <<prog, flow>>

ExecNext == Cycle \/ Abort

\* Any driver: only cycles change the program, possibly none ever again.
ExecSafety == ExecInit /\ [][ExecNext]_execVars

(***************************************************************************)
(* A driver that never waits: while the program runs, cycles keep coming. *)
(* This is WF_execVars(Cycle) written out: a cycle may always end the     *)
(* run, so ENABLED <<Cycle>>_execVars is status = "running".              *)
(***************************************************************************)
ExecFairness == <>[](status = "running") => []<><<Cycle>>_execVars

ExecSpec == ExecSafety /\ ExecFairness
=============================================================================
