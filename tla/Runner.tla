------------------------------- MODULE Runner -------------------------------
(***************************************************************************)
(* RunnerExecutorAdapter (apps/desktop/src/agent/runner-executor.ts) and   *)
(* the loop of DeclarativeCapabilityRunner.execute                         *)
(* (packages/playwright-runner/src/program-runner.ts) that it drives.      *)
(*                                                                         *)
(* One adapter lives as long as the Desktop process, and its flags are     *)
(* shared by all the runs it ever makes.  run.pc is where the run's        *)
(* asynchronous function is suspended:                                     *)
(*   "none"      no execution (this.execution is undefined)                *)
(*   "before"    between two steps, about to call beforeStep               *)
(*   "parked"    in beforeStep, waiting in resumeWaiters                   *)
(*   "step"      inside a step, before any submission                      *)
(*   "emit"      in a submit step, waiting for emitEvent to be served      *)
(*   "approval"  in a submit step, its promise is in the approvals map     *)
(*   "click"     in a submit step, approved, the click is in flight        *)
(*   "denied"    in a submit step, the promise was resolved with false     *)
(* What the code does without suspending is one step here.                 *)
(***************************************************************************)
EXTENDS Naturals, Sequences

CONSTANTS
  Steps,          (* length of the capability's program                     *)
  SubmitSteps     (* the positions whose step type is "submit"              *)

ASSUME StepsAssumption == Steps \in Nat \ {0} /\ SubmitSteps \subseteq 1..Steps

VARIABLES
  run,            (* the execution: pc, the task and the ActiveTask it was  *)
                  (* started for, the step, the submission, and the         *)
                  (* ActiveTasks whose startExecution awaits its outcome    *)
  paused,         (* this.paused                                            *)
  cancelled,      (* this.cancelled                                         *)
  idle,           (* this.idle                                              *)
  submissions     (* submission ids drawn so far: ids are 1, 2, ...         *)

runnerVars == <<run, paused, cancelled, idle, submissions>>

NoRun(none) == [pc |-> "none", gen |-> 0, task |-> none, step |-> 0, sub |-> 0,
                handlers |-> <<>>]

RunnerTypeOK(none, tasks) ==
  /\ run \in [pc : {"none", "before", "parked", "step", "emit", "approval", "click",
                    "denied"},
              gen : Nat, task : tasks \cup {none}, step : Nat, sub : Nat,
              handlers : Seq(Nat)]
  /\ paused \in BOOLEAN /\ cancelled \in BOOLEAN /\ idle \in BOOLEAN
  /\ submissions \in Nat

Acting == run.pc \in {"step", "emit", "approval", "click", "denied"}

RunnerInit(none) ==
  /\ run = NoRun(none)
  /\ paused = FALSE
  /\ cancelled = FALSE
  /\ idle = TRUE
  /\ submissions = 0

-----------------------------------------------------------------------------
(* Calls of the orchestrator.                                              *)

(* execute with resume = FALSE and no execution: run() starts, clears      *)
(* cancelled (but not paused) and goes up to the first beforeStep.         *)
ExecuteFresh(gen, t) ==
  /\ run.pc = "none"
  /\ run' = [pc |-> IF paused THEN "parked" ELSE "step", gen |-> gen, task |-> t,
             step |-> 1, sub |-> 0, handlers |-> <<gen>>]
  /\ idle' = paused
  /\ cancelled' = FALSE
  /\ UNCHANGED <<paused, submissions>>

(* The bundle does not parse: run() throws before its try block.           *)
ExecuteUnparsable ==
  /\ run.pc = "none"
  /\ cancelled' = FALSE
  /\ UNCHANGED <<run, paused, idle, submissions>>

(* "Runner already has an active execution": nothing changes.              *)
ExecuteBusy ==
  /\ run.pc # "none"
  /\ UNCHANGED runnerVars

(* execute with resume = TRUE: the parked step is entered, and one more    *)
(* startExecution awaits the same outcome.                                 *)
ExecuteResume(gen) ==
  /\ run.pc # "none"
  /\ paused' = FALSE
  /\ run' = [run EXCEPT !.pc = IF @ = "parked" THEN "step" ELSE @,
                        !.handlers = Append(@, gen)]
  /\ idle' = (idle /\ run.pc # "parked")
  /\ UNCHANGED <<cancelled, submissions>>

(* "Runner has no paused execution to resume", after resume()              *)
ExecuteNothingToResume ==
  /\ run.pc = "none"
  /\ paused' = FALSE
  /\ UNCHANGED <<run, cancelled, idle, submissions>>

(* Mutant: pause() only waits for the step in flight.                      *)
PauseWithoutFlag == UNCHANGED runnerVars

(* pause() up to its wait; it returns when idle holds, and so does drain() *)
Pause ==
  /\ paused' = TRUE
  /\ UNCHANGED <<run, cancelled, idle, submissions>>

(* Mutants: cancel() leaves the pending approval; does not raise the flag; *)
(* does not wake the parked run.                                           *)
CancelKeepsApproval ==
  /\ cancelled' = TRUE
  /\ paused' = FALSE
  /\ run' = [run EXCEPT !.pc = IF @ = "parked" THEN "before" ELSE @]
  /\ UNCHANGED <<idle, submissions>>

CancelWithoutFlag ==
  /\ paused' = FALSE
  /\ run' = [run EXCEPT !.pc = CASE @ = "parked"   -> "before"
                                 [] @ = "approval" -> "denied"
                                 [] OTHER          -> @]
  /\ UNCHANGED <<cancelled, idle, submissions>>

CancelWithoutWake ==
  /\ cancelled' = TRUE
  /\ run' = [run EXCEPT !.pc = IF @ = "approval" THEN "denied" ELSE @]
  /\ UNCHANGED <<paused, idle, submissions>>

(* cancel(): wakes the parked run and denies the pending approval, and     *)
(* does not wait for the step in flight.                                   *)
Cancel ==
  /\ cancelled' = TRUE
  /\ paused' = FALSE
  /\ run' = [run EXCEPT !.pc = CASE @ = "parked"   -> "before"
                                 [] @ = "approval" -> "denied"
                                 [] OTHER          -> @]
  /\ UNCHANGED <<idle, submissions>>

(* approvals.get(submissionId)                                             *)
Waiting(sub) == run.pc = "approval" /\ run.sub = sub

(* Mutant: rejectSubmission resolves the promise with true.                *)
ResolveApproves(sub, approved) ==
  /\ Waiting(sub)
  /\ run' = [run EXCEPT !.pc = "click"]
  /\ UNCHANGED <<paused, cancelled, idle, submissions>>

(* approveSubmission and rejectSubmission                                  *)
Resolve(sub, approved) ==
  /\ Waiting(sub)
  /\ run' = [run EXCEPT !.pc = IF approved THEN "click" ELSE "denied"]
  /\ UNCHANGED <<paused, cancelled, idle, submissions>>

(* emitEvent returns: the promise is put in approvals before any later     *)
(* operation of the command queue starts.                                  *)
Announced ==
  /\ run' = [run EXCEPT !.pc = "approval"]
  /\ UNCHANGED <<paused, cancelled, idle, submissions>>

-----------------------------------------------------------------------------
(* Steps of the run itself.                                                *)

(* Mutant: the finally block of run() does not raise idle.                 *)
RunEndsBusy(none) ==
  /\ run' = NoRun(none)
  /\ UNCHANGED <<paused, cancelled, idle, submissions>>

(* The run settles: approvals are cleared, idle holds and this.execution   *)
(* becomes undefined.  The caller tells run.handlers the outcome.          *)
RunEnds(none) ==
  /\ run' = NoRun(none)
  /\ idle' = TRUE
  /\ UNCHANGED <<paused, cancelled, submissions>>

(* Mutants: beforeStep does not look at paused, or at cancelled.           *)
BeforeStepUnpaused ==
  /\ run.pc = "before"
  /\ ~cancelled
  /\ run' = [run EXCEPT !.pc = "step"]
  /\ idle' = FALSE
  /\ UNCHANGED <<paused, cancelled, submissions>>

BeforeStepUncancelled ==
  /\ run.pc = "before"
  /\ run' = [run EXCEPT !.pc = IF paused THEN "parked" ELSE "step"]
  /\ idle' = paused
  /\ UNCHANGED <<paused, cancelled, submissions>>

(* beforeStep of a run that is not cancelled                               *)
BeforeStep ==
  /\ run.pc = "before"
  /\ ~cancelled
  /\ run' = [run EXCEPT !.pc = IF paused THEN "parked" ELSE "step"]
  /\ idle' = paused
  /\ UNCHANGED <<paused, cancelled, submissions>>

(* A step other than the last one returns, and afterStep runs.             *)
StepReturns ==
  /\ run.step < Steps
  /\ run' = [run EXCEPT !.pc = "before", !.step = @ + 1, !.sub = 0]
  /\ idle' = TRUE
  /\ UNCHANGED <<paused, cancelled, submissions>>

(* A submit step draws a submission id and calls the approval gate.        *)
RequestApproval ==
  /\ run.pc = "step"
  /\ run.step \in SubmitSteps
  /\ submissions' = submissions + 1
  /\ run' = [run EXCEPT !.pc = "emit", !.sub = submissions + 1]
  /\ UNCHANGED <<paused, cancelled, idle>>

(* The step has done its work on the page: a plain step, or an approved    *)
(* submission's click.                                                     *)
StepCanReturn ==
  \/ run.pc = "step" /\ run.step \notin SubmitSteps
  \/ run.pc = "click"

(* The step throws: the page has left the allowed domains, a selector      *)
(* times out, the approval is denied.  beforeStep throws once cancelled.   *)
CanThrow ==
  \/ run.pc \in {"step", "click", "denied"}
  \/ run.pc = "before" /\ cancelled

=============================================================================
