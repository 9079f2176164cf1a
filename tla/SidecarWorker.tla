---------------------------- MODULE SidecarWorker ----------------------------
(***************************************************************************)
(* SidecarWorker (apps/browser-use-sidecar/src/smart_form_sidecar/         *)
(* worker.py): the Python process that drives a Browser Use agent for the  *)
(* Desktop, one line of JSON per request and response (protocol.py).       *)
(*                                                                         *)
(* Two coroutines share self._active: the main loop, which handles one     *)
(* request to its end before it reads the next line, and the execution it  *)
(* created.  `serving' is the request whose handling is suspended, and     *)
(* exec.pc where the execution is:                                         *)
(*   "none"     self._active is None                                       *)
(*   "start"    connecting to the browser; there is no agent yet           *)
(*   "loop"     agent.run, between two steps of the agent                  *)
(*   "step"     agent.run, between on_step_start and on_step_end           *)
(*   "closing"  in the finally block, awaiting browser.stop()              *)
(*   "dead"     browser.stop() raised: the coroutine is over and           *)
(*              self._active still names it                                *)
(* Browser Use is external: its agent looks at its pause flag before each  *)
(* step and calls the two hooks around it.                                 *)
(***************************************************************************)
EXTENDS Naturals, Sequences

CONSTANT AgentSteps       (* max_steps of an execution                      *)

ASSUME AgentStepsAssumption == AgentSteps \in Nat \ {0}

VARIABLES
  stdin,        (* requests written to the process and not read yet         *)
  stdout,       (* responses it has written and the Desktop has not read    *)
  serving,      (* the request that is being handled, as a sequence         *)
  exec          (* self._active and the coroutine of its task               *)

workerVars == <<stdin, stdout, serving, exec>>

RequestTypes == {"execute", "pause", "resume", "cancel"}
Request(tasks) == [type : RequestTypes, id : Nat \ {0}, task : tasks]

(* A response to no request in particular has id 0.                        *)
Response(tasks) ==
  [type : {"ack"}, id : Nat \ {0}, task : tasks, status : {"none"}]
    \cup [type : {"error"}, id : {0}, task : tasks, status : {"none"}]
    \cup [type : {"result"}, id : Nat \ {0}, task : tasks,
          status : {"succeeded", "failed", "cancelled"}]
Ack(r)           == [type |-> "ack", id |-> r.id, task |-> r.task, status |-> "none"]
Error(r)         == [type |-> "error", id |-> 0, task |-> r.task, status |-> "none"]
Result(x, s)     == [type |-> "result", id |-> x.id, task |-> x.task, status |-> s]

NoExec(none) == [pc |-> "none", id |-> 0, task |-> none, steps |-> 0, paused |-> FALSE]

WorkerTypeOK(none, tasks) ==
  /\ stdin \in Seq(Request(tasks))
  /\ stdout \in Seq(Response(tasks))
  /\ serving \in Seq(Request(tasks)) /\ Len(serving) <= 1
  /\ exec \in [pc : {"none", "start", "loop", "step", "closing", "dead"}, id : Nat,
               task : tasks \cup {none}, steps : 0..AgentSteps, paused : BOOLEAN]

(* A new process, and one that has exited: the pipes are gone with it.     *)
WorkerInit(none) ==
  /\ stdin = <<>>
  /\ stdout = <<>>
  /\ serving = <<>>
  /\ exec = NoExec(none)

WorkerExits(none) ==
  /\ stdin' = <<>>
  /\ stdout' = <<>>
  /\ serving' = <<>>
  /\ exec' = NoExec(none)

Emit(response) == stdout' = Append(stdout, response)

-----------------------------------------------------------------------------
(* The main loop.                                                          *)

(* The next line is read: a request of this type.                          *)
Reads(types) ==
  /\ serving = <<>>
  /\ stdin # <<>>
  /\ Head(stdin).type \in types
  /\ stdin' = Tail(stdin)

ActiveFor(r) == exec.pc # "none" /\ exec.task = r.task
Running == exec.pc \in {"start", "loop", "step"}

(* self._active.idle                                                       *)
Idle == exec.pc # "step"

StartExecution ==
  /\ Reads({"execute"})
  /\ exec.pc = "none"
  /\ LET r == Head(stdin) IN
       /\ exec' = [pc |-> "start", id |-> r.id, task |-> r.task, steps |-> 0,
                   paused |-> FALSE]
       /\ Emit(Ack(r))
  /\ UNCHANGED serving

(* _start_execution and _control raise; the answer names no request.       *)
RefuseRequest ==
  /\ Reads(RequestTypes)
  /\ LET r == Head(stdin) IN
       /\ IF r.type = "execute" THEN exec.pc # "none" ELSE ~ActiveFor(r)
       /\ Emit(Error(r))
  /\ UNCHANGED <<serving, exec>>

(* Mutant: the pause is acknowledged without waiting for idle.             *)
ServePauseAtOnce ==
  /\ Reads({"pause"})
  /\ ActiveFor(Head(stdin))
  /\ exec' = [exec EXCEPT !.paused = exec.pc # "start"]
  /\ Emit(Ack(Head(stdin))) /\ UNCHANGED serving

(* agent.pause() if there is an agent, then the wait for idle.             *)
ServePause ==
  /\ Reads({"pause"})
  /\ ActiveFor(Head(stdin))
  /\ exec' = [exec EXCEPT !.paused = exec.pc # "start"]
  /\ IF Idle THEN Emit(Ack(Head(stdin))) /\ UNCHANGED serving
             ELSE serving' = <<Head(stdin)>> /\ UNCHANGED stdout

Serves(type) == serving # <<>> /\ serving[1].type = type

PauseReturns ==
  /\ Serves("pause")
  /\ Idle
  /\ Emit(Ack(serving[1]))
  /\ serving' = <<>>
  /\ UNCHANGED <<stdin, exec>>

(* wait_for raises after 30 s: the agent stays paused.                     *)
PauseGivesUp ==
  /\ Serves("pause")
  /\ ~Idle
  /\ Emit(Error(serving[1]))
  /\ serving' = <<>>
  /\ UNCHANGED <<stdin, exec>>

ServeResume ==
  /\ Reads({"resume"})
  /\ ActiveFor(Head(stdin))
  /\ exec' = [exec EXCEPT !.paused = FALSE]
  /\ Emit(Ack(Head(stdin)))
  /\ UNCHANGED serving

(* Mutant: _cancel_active does not await the cancelled task.               *)
ServeCancelAtOnce(none) ==
  /\ Reads({"cancel"})
  /\ ActiveFor(Head(stdin))
  /\ Emit(Ack(Head(stdin)))
  /\ UNCHANGED <<exec, serving>>

(* agent.stop() and task.cancel(): the execution reports that it was       *)
(* cancelled and cleans up, while the main loop awaits it.  One that is    *)
(* cleaning up already is cut short; the exception of a dead one is raised *)
(* once more.                                                              *)
ServeCancel(none) ==
  /\ Reads({"cancel"})
  /\ ActiveFor(Head(stdin))
  /\ CASE Running ->
            /\ exec' = [exec EXCEPT !.pc = "closing"]
            /\ Emit(Result(exec, "cancelled"))
            /\ serving' = <<Head(stdin)>>
       [] exec.pc = "closing" ->
            /\ exec' = NoExec(none)
            /\ Emit(Ack(Head(stdin)))
            /\ UNCHANGED serving
       [] exec.pc = "dead" ->
            /\ Emit(Error(Head(stdin)))
            /\ UNCHANGED <<exec, serving>>

CancelReturns ==
  /\ Serves("cancel")
  /\ exec.pc = "none"
  /\ Emit(Ack(serving[1]))
  /\ serving' = <<>>
  /\ UNCHANGED <<stdin, exec>>

MainLoop(none) ==
  \/ StartExecution
  \/ RefuseRequest
  \/ ServePause
  \/ PauseReturns
  \/ ServeResume
  \/ ServeCancel(none)
  \/ CancelReturns

-----------------------------------------------------------------------------
(* The execution.                                                          *)

(* The browser is connected and its target found: the agent is created     *)
(* and agent.run begins.                                                   *)
AgentCreated ==
  /\ exec.pc = "start"
  /\ exec' = [exec EXCEPT !.pc = "loop"]
  /\ UNCHANGED <<stdin, stdout, serving>>

StepBegins ==
  /\ exec.pc = "loop"
  /\ ~exec.paused
  /\ exec' = [exec EXCEPT !.pc = "step", !.steps = @ + 1]
  /\ UNCHANGED <<stdin, stdout, serving>>

StepEnds ==
  /\ exec.pc = "step"
  /\ exec.steps < AgentSteps
  /\ exec' = [exec EXCEPT !.pc = "loop"]
  /\ UNCHANGED <<stdin, stdout, serving>>

(* No agent can be made, or agent.run returns or raises, in a step or      *)
(* between two of them; a paused agent does neither before it is resumed.  *)
ExecutionEnds ==
  /\ \/ exec.pc \in {"start", "step"}
     \/ exec.pc = "loop" /\ ~exec.paused
  /\ exec' = [exec EXCEPT !.pc = "closing"]
  /\ \/ exec.pc # "start" /\ Emit(Result(exec, "succeeded"))
     \/ Emit(Result(exec, "failed"))
  /\ UNCHANGED <<stdin, serving>>

BrowserStops(none) ==
  /\ exec.pc = "closing"
  /\ exec' = NoExec(none)
  /\ UNCHANGED <<stdin, stdout, serving>>

(* browser.stop() raises out of the finally block, and out of a cancel     *)
(* that awaits the task.                                                   *)
BrowserStopFails ==
  /\ exec.pc = "closing"
  /\ exec' = [exec EXCEPT !.pc = "dead"]
  /\ IF Serves("cancel") THEN Emit(Error(serving[1])) /\ serving' = <<>>
                         ELSE UNCHANGED <<stdout, serving>>
  /\ UNCHANGED stdin

ExecutionRuns(none) ==
  \/ AgentCreated
  \/ StepBegins
  \/ StepEnds
  \/ ExecutionEnds
  \/ BrowserStops(none)

=============================================================================
