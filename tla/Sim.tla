-------------------------------- MODULE Sim --------------------------------
(***************************************************************************)
(* The simulator facade (core_sim/src/sim.rs, Simulator::single_cycle)    *)
(* driven by the interactive debugger (cli/src/interactive.rs).           *)
(*                                                                         *)
(* One call of single_cycle runs a loop of CPU cycles; each pass of that  *)
(* loop is one step here, so that the state between two passes (is_enter, *)
(* the remaining step count) is visible.  Between calls the user issues   *)
(* commands: change the mode and call, set or clear a breakpoint, watch a *)
(* memory word, turn a spy on or off, or quit.  Commands that only print  *)
(* (show, trace) change no state and are left out.                        *)
(***************************************************************************)
EXTENDS Cpu, Naturals

CONSTANTS
  Modes,       \* execute modes the user may select
  BpAddrs,     \* byte addresses the user may set breakpoints on
  WatchAddrs,  \* word addresses the user may watch
  SpyAddrs,    \* word addresses the user may spy on
  SpyKinds     \* the SpyWatchKind values the grammar can produce

ModeType == [kind : {"run", "until", "step"}, arg : Nat]
RunMode == [kind |-> "run", arg |-> 0]

ASSUME ModesAssumption == Modes \subseteq ModeType /\ RunMode \in Modes
ASSUME AddrsAssumption ==
  /\ BpAddrs \subseteq Word /\ WatchAddrs \subseteq Word /\ SpyAddrs \subseteq Word
  /\ SpyKinds \subseteq (SUBSET {"read", "write"}) \ {{}}

VARIABLES
  mode,         \* opt.mode
  breakpoints,  \* keys of opt.breakpoints
  watchMem,     \* opt.watchings.memory
  fatal,        \* Simulator.fatal_error is Some
  cycle,        \* Simulator.cycle
  inCall,       \* a call of single_cycle is running
  isEnter,      \* its local is_enter
  stepsLeft,    \* passes left of its `for _ in 0..n` loop
  ran,          \* cycle_one_full calls made by the current (or last) call
  lastFlow,     \* what the last call returned
  session,      \* "active", or how the debugger process ended
  userSpies     \* spies the user turned on and did not turn off

simVars == <<mode, breakpoints, watchMem, fatal, cycle, inCall, isEnter,
             stepsLeft, ran, lastFlow, session, userSpies>>
vars == <<cpuVars, simVars>>

Reasons == {"none", "CannotRestart", "BreakPoint", "Failed", "Spy",
            "Reached", "StepEnded"}
NoFlow == [kind |-> "none", reason |-> "none", addr |-> 0, spy |-> NoSpy]
Sessions == {"active", "exited", "quit", "crashed"}

TypeOK ==
  /\ CpuTypeOK
  /\ mode \in Modes
  /\ breakpoints \subseteq BpAddrs
  /\ watchMem \subseteq WatchAddrs
  /\ fatal \in BOOLEAN
  /\ cycle \in Nat /\ ran \in Nat /\ stepsLeft \in Nat
  /\ inCall \in BOOLEAN /\ isEnter \in BOOLEAN
  /\ lastFlow \in [kind : {"none", "break", "exit"}, reason : Reasons,
                   addr : Word, spy : SpyResult]
  /\ session \in Sessions
  /\ userSpies \in [read : SUBSET SpyAddrs, write : SUBSET SpyAddrs]

Init ==
  /\ \E sc \in Scenarios : CpuInit(sc)
  /\ mode = RunMode
  /\ breakpoints = {} /\ watchMem = {}
  /\ fatal = FALSE
  /\ cycle = 0 /\ ran = 0 /\ stepsLeft = 0
  /\ inCall = FALSE /\ isEnter = TRUE
  /\ lastFlow = NoFlow
  /\ session = "active"
  /\ userSpies = [read |-> {}, write |-> {}]

(***************************************************************************)
(* break_sim: gather_watchings reads every watched word with              *)
(* get_mem(addr).unwrap(), which panics on an address outside RAM or in   *)
(* the text (the call then returns nothing); otherwise it returns         *)
(* Break(reason).                                                          *)
(***************************************************************************)
BreakSim(reason, addr, spy) ==
  /\ inCall' = FALSE
  /\ IF \E a \in watchMem : OutOfBounds(a)
       THEN session' = "crashed" /\ lastFlow' = NoFlow
       ELSE /\ lastFlow' = [kind |-> "break", reason |-> reason, addr |-> addr, spy |-> spy]
            /\ UNCHANGED session

\* The interactive loop waits for a command.
Prompt == session = "active" /\ ~inCall

\* Variants of Call: no fatal_error test at entry; is_enter starting false;
\* a step loop `for _ in 0..=n`.
CallIgnoringLatch(m) ==
  /\ Prompt
  /\ mode' = m /\ ran' = 0
  /\ inCall' = TRUE /\ isEnter' = TRUE
  /\ stepsLeft' = IF m.kind = "step" THEN m.arg ELSE 0
  /\ UNCHANGED <<lastFlow, session>>
  /\ UNCHANGED <<cpuVars, breakpoints, watchMem, fatal, cycle, userSpies>>

CallBreakOnEntry(m) ==
  /\ Prompt
  /\ mode' = m /\ ran' = 0
  /\ IF fatal
       THEN BreakSim("CannotRestart", 0, NoSpy) /\ UNCHANGED <<isEnter, stepsLeft>>
       ELSE /\ inCall' = TRUE /\ isEnter' = FALSE
            /\ stepsLeft' = IF m.kind = "step" THEN m.arg ELSE 0
            /\ UNCHANGED <<lastFlow, session>>
  /\ UNCHANGED <<cpuVars, breakpoints, watchMem, fatal, cycle, userSpies>>

CallStepInclusive(m) ==
  /\ Prompt
  /\ mode' = m /\ ran' = 0
  /\ IF fatal
       THEN BreakSim("CannotRestart", 0, NoSpy) /\ UNCHANGED <<isEnter, stepsLeft>>
       ELSE /\ inCall' = TRUE /\ isEnter' = TRUE
            /\ stepsLeft' = IF m.kind = "step" THEN m.arg + 1 ELSE 0
            /\ UNCHANGED <<lastFlow, session>>
  /\ UNCHANGED <<cpuVars, breakpoints, watchMem, fatal, cycle, userSpies>>

(***************************************************************************)
(* A dynamic command (`run`, `step [n]`, `skip until a`, or an empty line *)
(* keeping the mode) sets opt.mode and calls single_cycle, whose entry    *)
(* refuses to run after a fatal error.                                    *)
(***************************************************************************)
Call(m) ==
  /\ Prompt
  /\ mode' = m
  /\ ran' = 0
  /\ IF fatal
       THEN /\ BreakSim("CannotRestart", 0, NoSpy)
            /\ UNCHANGED <<isEnter, stepsLeft>>
       ELSE /\ inCall' = TRUE /\ isEnter' = TRUE
            /\ stepsLeft' = IF m.kind = "step" THEN m.arg ELSE 0
            /\ UNCHANGED <<lastFlow, session>>
  /\ UNCHANGED <<cpuVars, breakpoints, watchMem, fatal, cycle, userSpies>>

\* SkipUntil: a pass other than the first stops when pc reaches the target.
ReachTarget ==
  /\ inCall /\ mode.kind = "until"
  /\ ~isEnter /\ pc = mode.arg
  /\ BreakSim("Reached", mode.arg, NoSpy)
  /\ UNCHANGED <<cpuVars, mode, breakpoints, watchMem, fatal, cycle, isEnter,
                 stepsLeft, ran, userSpies>>

\* RunStep: the loop `for _ in 0..n` is over.
StepsDone ==
  /\ inCall /\ mode.kind = "step" /\ stepsLeft = 0
  /\ BreakSim("StepEnded", 0, NoSpy)
  /\ UNCHANGED <<cpuVars, mode, breakpoints, watchMem, fatal, cycle, isEnter,
                 stepsLeft, ran, userSpies>>

\* The loop may run another pass.
PassOpen ==
  /\ inCall
  /\ ~(mode.kind = "until" /\ ~isEnter /\ pc = mode.arg)
  /\ ~(mode.kind = "step" /\ stepsLeft = 0)

\* execute!: a pass other than the first stops at a breakpoint on pc.
HitBreakpoint ==
  /\ PassOpen
  /\ ~isEnter /\ pc \in breakpoints
  /\ BreakSim("BreakPoint", pc, NoSpy)
  /\ UNCHANGED <<cpuVars, mode, breakpoints, watchMem, fatal, cycle, isEnter,
                 stepsLeft, ran, userSpies>>

\* Variant: the error is reported but not latched in fatal_error.
LatchErrorDropped == BreakSim("Failed", 0, NoSpy) /\ UNCHANGED fatal

\* An error of cycle_one_full: every RuntimeError is Fatal, so it is
\* latched in fatal_error, and the call reports Failed.
LatchError == fatal' = TRUE /\ BreakSim("Failed", 0, NoSpy)

\* Variant: the debugger stays in its loop after "program halts".
HaltSimKeepsSession ==
  /\ cycle' = cycle + 1 /\ inCall' = FALSE
  /\ lastFlow' = [NoFlow EXCEPT !.kind = "exit"] /\ UNCHANGED session

\* Exit: single_cycle returns ControlFlow::Exit; the debugger prints
\* "program halts" and leaves its loop.
HaltSim ==
  /\ cycle' = cycle + 1 /\ inCall' = FALSE /\ session' = "exited"
  /\ lastFlow' = [NoFlow EXCEPT !.kind = "exit"]

(***************************************************************************)
(* execute!: one cycle_one_full and what the facade does with its result: *)
(* an error is latched in fatal_error and reported as Failed; otherwise   *)
(* the cycle counter moves and a spy breaks, Exit ends the session (the   *)
(* debugger prints "program halts" and leaves its loop), Continue loops.  *)
(* A panic ends the process, and with it the call.                        *)
(***************************************************************************)
ExecuteCycle ==
  /\ PassOpen
  /\ isEnter \/ pc \notin breakpoints
  /\ isEnter' = FALSE
  /\ stepsLeft' = IF mode.kind = "step" THEN stepsLeft - 1 ELSE stepsLeft
  /\ ran' = ran + 1
  /\ CycleOneFull
  /\ CASE cpuResult'.flow = "continue" ->
            cycle' = cycle + 1 /\ UNCHANGED <<inCall, lastFlow, session, fatal>>
       [] cpuResult'.flow = "spy" ->
            /\ cycle' = cycle + 1
            /\ BreakSim("Spy", 0, cpuResult'.spy)
            /\ UNCHANGED fatal
       [] cpuResult'.flow = "exit" -> HaltSim /\ UNCHANGED fatal
       [] cpuResult'.flow = "error" -> LatchError /\ UNCHANGED cycle
       [] cpuResult'.flow = "panic" ->
            /\ session' = "crashed" /\ inCall' = FALSE /\ lastFlow' = NoFlow
            /\ UNCHANGED <<cycle, fatal>>
  /\ UNCHANGED <<mode, breakpoints, watchMem, userSpies>>

(***************************************************************************)
(* Static commands, each handled inside the prompt loop.                  *)
(***************************************************************************)
AddBp(a) ==
  /\ Prompt
  /\ breakpoints' = breakpoints \cup {a}
  /\ UNCHANGED <<cpuVars, mode, watchMem, fatal, cycle, inCall, isEnter,
                 stepsLeft, ran, lastFlow, session, userSpies>>

RemoveBp(a) ==
  /\ Prompt
  /\ breakpoints' = breakpoints \ {a}
  /\ UNCHANGED <<cpuVars, mode, watchMem, fatal, cycle, inCall, isEnter,
                 stepsLeft, ran, lastFlow, session, userSpies>>

\* `watch a` / `unwatch a` take any address.
Watch(a) ==
  /\ Prompt
  /\ watchMem' = watchMem \cup {a}
  /\ UNCHANGED <<cpuVars, mode, breakpoints, fatal, cycle, inCall, isEnter,
                 stepsLeft, ran, lastFlow, session, userSpies>>

Unwatch(a) ==
  /\ Prompt
  /\ watchMem' = watchMem \ {a}
  /\ UNCHANGED <<cpuVars, mode, breakpoints, fatal, cycle, inCall, isEnter,
                 stepsLeft, ran, lastFlow, session, userSpies>>

\* The spies the user asked for after `spy on` / `spy off`.
Intend(kind, a, on) ==
  LET Upd(s, k) == IF k \notin kind THEN s ELSE IF on THEN s \cup {a} ELSE s \ {a}
  IN  userSpies' = [read |-> Upd(userSpies.read, "read"),
                    write |-> Upd(userSpies.write, "write")]

SpyOn(kind, a) ==
  /\ Prompt
  /\ AddSpy(kind, a)
  /\ Intend(kind, a, TRUE)
  /\ UNCHANGED <<mode, breakpoints, watchMem, fatal, cycle, inCall, isEnter,
                 stepsLeft, ran, lastFlow, session>>

\* `spy off ..` parses to StaticCommand::Spy(Operation::Add, ..): the
\* handler installs the spy again instead of removing it.
SpyOff(kind, a) ==
  /\ Prompt
  /\ AddSpy(kind, a)
  /\ Intend(kind, a, FALSE)
  /\ UNCHANGED <<mode, breakpoints, watchMem, fatal, cycle, inCall, isEnter,
                 stepsLeft, ran, lastFlow, session>>

\* Command::Exit: exit_sim and leave the interactive loop.
Quit ==
  /\ Prompt
  /\ session' = "quit"
  /\ UNCHANGED <<cpuVars, mode, breakpoints, watchMem, fatal, cycle, inCall,
                 isEnter, stepsLeft, ran, lastFlow, userSpies>>

\* The debugger process has ended.
Terminated == session # "active" /\ UNCHANGED vars

Next ==
  \/ \E m \in Modes : Call(m)
  \/ ReachTarget \/ StepsDone \/ HitBreakpoint \/ ExecuteCycle
  \/ \E a \in BpAddrs : AddBp(a) \/ RemoveBp(a)
  \/ \E a \in WatchAddrs : Watch(a) \/ Unwatch(a)
  \/ \E k \in SpyKinds, a \in SpyAddrs : SpyOn(k, a) \/ SpyOff(k, a)
  \/ Quit
  \/ Terminated

Spec == Init /\ [][Next]_vars

(***************************************************************************)
(* Properties.                                                             *)
(***************************************************************************)

\* The CPU state a program can see.
progState == <<pc, reg, freg, mem, input, output>>

\* The run as Execution sees it: a latched error ends it as failed; a
\* panic of the process as crashed; Exit (the debugger leaves its loop)
\* as halted.
RunStatus ==
  IF fatal THEN "failed"
  ELSE IF session = "crashed" THEN "crashed"
  ELSE IF session = "exited" THEN "halted"
  ELSE "running"

Exec == INSTANCE Execution
          WITH prog <- progState, flow <- cpuResult.flow, status <- RunStatus

\* The debugger drives the CPU only by whole cycles (single_cycle,
\* execute!): breakpoints, steps, spies, watches and commands never change
\* the program's state, and once the program has halted, failed or the
\* process has died, nothing the user does runs it again.
ImplementsExecution == Exec!ExecSafety

\* Error latch (single_cycle, fatal_error): once a cycle has failed, the
\* flag stays set and no later step, command or call changes the state the
\* program sees; every later call answers CannotRestart.
FatalIsFinal == [][fatal => fatal' /\ UNCHANGED progState]_vars

\* Breakpoints and skip-until (execute!, SkipUntil): a call that stopped at
\* a breakpoint or at the target of `skip until` has run at least one
\* instruction, and stopped with pc at the reported address, so repeating
\* the call resumes rather than stopping at the same place again.
BreakAfterProgress ==
  (~inCall /\ lastFlow.kind = "break" /\ lastFlow.reason \in {"BreakPoint", "Reached"})
    => ran >= 1 /\ pc = lastFlow.addr

\* RunStep(n): a call that ended with StepEnded ran exactly n cycles.
StepRunsExactly ==
  (~inCall /\ lastFlow.kind = "break" /\ lastFlow.reason = "StepEnded")
    => mode.kind = "step" /\ ran = mode.arg

\* Memory::on_write: a call that stopped on a write spy reports as `before`
\* the word the store overwrote and as `after` the word now in memory.
SpyWriteReportsChange ==
  [][(inCall /\ ~inCall' /\ lastFlow'.reason = "Spy" /\ lastFlow'.spy.kind = "write")
       => /\ lastFlow'.spy.before = mem[lastFlow'.spy.addr]
          /\ lastFlow'.spy.after = mem'[lastFlow'.spy.addr]]_vars

\* bounds_check!: no step ever changes a word of the text.
TextIntact ==
  [][\A a \in MemAddrs : InText(a) => mem'[a] = mem[a]]_vars

\* `spy off` (interactive.rs grammar): the spies installed in memory are
\* the ones the user turned on and has not turned off.
SpiesAsRequested ==
  spyRead = userSpies.read /\ spyWrite = userSpies.write

\* `watch a` then a break (gather_watchings): watching an address never
\* crashes the debugger; the only crashes are panics of the CPU itself.
WatchNeverCrashes == session = "crashed" => cpuResult.flow = "panic"

\* Input streams (BinaryInput, SldData): every inw or finw that succeeds
\* consumes one item of the input, so the next one reads the next item.
InputConsumedOnce ==
  [][(ran' = ran + 1 /\ cpuResult'.flow = "continue" /\ cpuResult'.instr.op \in InOps)
       => input'.readIndex = input.readIndex + 1]_vars

\* Spec section 4: shifts use the low bits of rs2 (the low 5 of a 32-bit
\* word).  A cycle that executes sll, sra or slli completes and writes rs1
\* shifted by the amount modulo W; `rs1 << rs2` in Cpu::execute aborts
\* the process instead when the amount is W or more and overflow checks
\* are on.
ShiftUsesLowBits ==
  [][LET ins == cpuResult'.instr
         b == IF ins.op \in ROps THEN reg[ins.rs2] ELSE ins.imm
     IN  (ran' = ran + 1 /\ IsShift(ins.op))
           => /\ cpuResult'.flow = "continue"
              /\ reg' = SetReg(reg, ins.rd, Alu(ins.op, reg[ins.rs1], b % W))]_vars

\* Spec sections 4 and 7: an I/O failure, such as an inw with no input
\* left, is a runtime error: single_cycle latches it in fatal_error and
\* breaks with Failed, so the debugger reports it and refuses to restart.
IoFailureLatched == cpuResult.err \in {"Io", "InputExhausted"} => fatal
=============================================================================
