--------------------------- MODULE SidecarDesktop ---------------------------
(***************************************************************************)
(* The Desktop agent executing read tasks without a capability: the        *)
(* orchestrator with SidecarExecutorAdapter (apps/desktop/src/agent/       *)
(* sidecar-executor.ts) as its executor, the client of the Sidecar process *)
(* and the process itself, which may be slow, fail and die.                *)
(*                                                                         *)
(* execute and resume are not awaited by the orchestrator's queue; pause   *)
(* and cancel are, so while `control' waits for its answer the operation   *)
(* in `job' stays where it is.  Each command arrives once, and the Desktop *)
(* does not crash: what repeated commands and crashes do to the            *)
(* orchestrator is in RunnerDesktop.                                       *)
(***************************************************************************)
EXTENDS Orchestrator, SidecarClient, FiniteSets

CONSTANTS
  MaxCommands,      (* how many of the Commands are delivered               *)
  MaxWaiting,       (* how many operations wait when a command arrives      *)
  MaxFaults         (* how often something fails, in total                  *)

ASSUME SidecarBoundsAssumption ==
  MaxCommands \in Nat /\ MaxWaiting \in Nat /\ MaxFaults \in Nat

(* The control plane starts a task once: task-coordinator.ts draws a new   *)
(* taskId and a new commandId for every START_TASK it dispatches.          *)
ASSUME StartsAssumption ==
  \A c, d \in Commands :
    CommandType[c] = "START_TASK" /\ CommandType[d] = "START_TASK"
      /\ CommandTask[c] = CommandTask[d] => c = d

VARIABLES
  call,         (* this.taskId and this.execution of the adapter            *)
  control,      (* the pause or cancel that the orchestrator awaits         *)
  delivered,    (* the commands that were delivered                         *)
  faults,       (* faults so far                                            *)
  abandoned,    (* the client has given up on a worker that goes on         *)
  achieved      (* the tasks whose agent has returned a result              *)

worldVars == <<delivered, faults, abandoned, achieved>>
sidecarVars == <<clientVars, workerVars, call, control>>
vars == <<orchestratorVars, sidecarVars, worldVars>>

Kind == "browser-use-sidecar"

(* call.pc: "none"; "target", taskId is set and targetId() awaited; "lost",*)
(* targetId() rejected: taskId is set and there is no execution; "acking", *)
(* client.execute awaits the process or the acknowledgement; "running", it *)
(* awaits the result.  `waiting' are the ActiveTasks that await the        *)
(* outcome.                                                                *)
NoCall == [pc |-> "none", id |-> 0, task |-> NoTask, waiting |-> <<>>]
NoControl == [pc |-> "none", id |-> 0]

TypeOK ==
  /\ OrchestratorTypeOK
  /\ WorkerTypeOK(NoTask, Tasks)
  /\ ClientTypeOK(Tasks)
  /\ call \in [pc : {"none", "target", "lost", "acking", "running"}, id : Nat,
               task : Tasks \cup {NoTask}, waiting : Seq(Nat)]
  /\ control \in [pc : {"none", "waiting", "done", "failed"}, id : Nat]
  /\ delivered \subseteq Commands
  /\ faults \in 0..MaxFaults
  /\ abandoned \in BOOLEAN
  /\ achieved \subseteq Tasks

Init ==
  /\ OrchestratorInit
  /\ WorkerInit(NoTask)
  /\ ClientInit
  /\ call = NoCall
  /\ control = NoControl
  /\ delivered = {}
  /\ faults = 0
  /\ abandoned = FALSE
  /\ achieved = {}

-----------------------------------------------------------------------------
(* The environment.                                                        *)

OneMoreFault ==
  /\ faults < MaxFaults
  /\ faults' = faults + 1
  /\ UNCHANGED <<delivered, achieved>>

Fault == OneMoreFault /\ UNCHANGED abandoned
Abandon == OneMoreFault /\ abandoned' = TRUE

(* The control plane controls a task it has started.                       *)
Deliver(c) ==
  /\ c \notin delivered
  /\ Cardinality(delivered) < MaxCommands
  /\ Len(commandQueue) <= MaxWaiting
  /\ \/ CommandType[c] = "START_TASK"
     \/ \E s \in delivered :
          CommandType[s] = "START_TASK" /\ CommandTask[s] = CommandTask[c]
  /\ delivered' = delivered \cup {c}
  /\ Handle(c)
  /\ UNCHANGED <<sidecarVars, faults, abandoned, achieved>>

-----------------------------------------------------------------------------
(* The adapter, called by the orchestrator.                                *)

Execution == call.pc \in {"acking", "running"}

(* execute without resume: taskId is set, then targetId() is awaited.      *)
StartTask ==
  IF Execution
    THEN /\ StartLaunches(Kind, <<OutcomeOp(epoch + 1, "failed")>>)
         /\ UNCHANGED sidecarVars
    ELSE /\ StartLaunches(Kind, <<>>)
         /\ call' = [NoCall EXCEPT !.pc = "target", !.task = CommandTask[job.cmd],
                                   !.waiting = <<epoch + 1>>]
         /\ UNCHANGED <<clientVars, workerVars, control>>

(* client.execute: this.execution is set.                                  *)
TargetKnown ==
  /\ call.pc = "target"
  /\ Send("execute", call.task, 0)
  /\ call' = [call EXCEPT !.pc = "acking", !.id = requests + 1]
  /\ UNCHANGED <<control, orchestratorVars, worldVars>>

(* targetId() rejects: the outcome is failed and taskId stays.             *)
TargetUnknown ==
  /\ call.pc = "target"
  /\ Fault
  /\ call' = [call EXCEPT !.pc = "lost"]
  /\ Enqueue(Outcomes(call.waiting, "failed"))
  /\ UNCHANGED <<clientVars, workerVars, control>>

(* execute with resume.                                                    *)
ResumeTask ==
  \/ /\ ResumeSucceeds(Kind, <<>>)
     /\ Execution
     /\ Send("resume", call.task, active.gen)
     /\ UNCHANGED <<call, control>>
  \/ /\ ResumeSucceeds(Kind, <<OutcomeOp(active.gen, "failed")>>)
     /\ ~Execution
     /\ UNCHANGED sidecarVars

(* pause(): it throws without a taskId.                                    *)
PauseTask ==
  \/ /\ PauseBegins
     /\ call.pc # "none"
     /\ Send("pause", call.task, 0)
     /\ control' = [pc |-> "waiting", id |-> requests + 1]
     /\ UNCHANGED call
  \/ /\ Serving({"PAUSE_TASK", "REQUEST_TAKEOVER"}, "begin")
     /\ Addressed
     /\ call.pc = "none"
     /\ Throws
     /\ UNCHANGED sidecarVars

(* Mutant: cancel() does not await the answer.                             *)
CancelTaskAtOnce ==
  /\ CancelBegins
  /\ IF call.pc = "none" THEN UNCHANGED <<clientVars, workerVars>>
                         ELSE Send("cancel", call.task, 0)
  /\ UNCHANGED <<call, control>>

(* cancel(): it returns at once without a taskId.                          *)
CancelTask ==
  \/ /\ CancelBegins
     /\ call.pc = "none" /\ control.pc = "none"
     /\ UNCHANGED sidecarVars
  \/ /\ Serving({"CANCEL_TASK"}, "begin")
     /\ Addressed
     /\ call.pc # "none" /\ control.pc = "none"
     /\ Send("cancel", call.task, 0)
     /\ control' = [pc |-> "waiting", id |-> requests + 1]
     /\ UNCHANGED <<call, orchestratorVars>>

-----------------------------------------------------------------------------
(* The orchestrator.                                                       *)

(* The control request it awaits has been acknowledged, or has failed.     *)
ControlReturns ==
  /\ control.pc = "done"
  /\ \/ PauseCompletes
     \/ TakeoverCompletes
     \/ TakeoverRefused /\ ~CanTransfer(active.lease.epoch)
     \/ CancelBegins
  /\ control' = NoControl
  /\ UNCHANGED <<clientVars, workerVars, call>>

ControlThrows ==
  /\ control.pc = "failed"
  /\ Throws
  /\ control' = NoControl
  /\ UNCHANGED <<clientVars, workerVars, call>>

Command ==
  \/ Begin
  \/ Reply
  \/ StartRefused
  \/ StartNavigates
  \/ ControlRefused
  \/ ResumeRefused /\ ~(CanResume /\ CanResumeAfterHuman(active.lease.epoch, TRUE))
  \/ CancelCompletes
  \/ DecisionRefused
  \/ OutcomeIgnored
  \/ OutcomeRecorded

Orchestrate ==
  \/ Command /\ UNCHANGED <<sidecarVars, worldVars>>
  \/ StartTask /\ UNCHANGED worldVars
  \/ ResumeTask /\ UNCHANGED worldVars
  \/ PauseTask /\ UNCHANGED worldVars
  \/ CancelTask /\ UNCHANGED worldVars
  \/ ControlReturns /\ UNCHANGED worldVars
  \/ ControlThrows /\ UNCHANGED worldVars

(* The same where the page fails.                                          *)
OrchestrateFaulty ==
  /\ Fault
  /\ \/ /\ StartInadmissible \/ StartFails \/ ResumeRefused \/ CancelProbeFails
             \/ OutcomeProbeFails
        /\ UNCHANGED sidecarVars
     \/ /\ control.pc = "done"
        /\ PauseProbeFails \/ TakeoverRefused \/ TakeoverHalfDone
        /\ control' = NoControl
        /\ UNCHANGED <<clientVars, workerVars, call>>

-----------------------------------------------------------------------------
(* The client reads a line, or a promise of its fails.                     *)

(* client.execute returns or throws: the adapter forgets the execution and *)
(* its outcome is enqueued for everyone who awaits it.                     *)
Settle(outcome) ==
  /\ call' = NoCall
  /\ Enqueue(Outcomes(call.waiting, outcome))

OutcomeOf(status) == IF status = "succeeded" THEN "succeeded" ELSE "failed"

(* Mutant: a result settles whatever execution the adapter has.            *)
RoutedAnyway(r) == Execution

(* A result is routed by the task it names; it comes after the             *)
(* acknowledgement, which the worker writes first.                         *)
Routed(r) == Execution /\ call.task = r.task

ResultArrives ==
  /\ Receives("result")
  /\ Consume
  /\ IF Routed(Head(stdout))
       THEN Settle(OutcomeOf(Head(stdout).status))
       ELSE UNCHANGED <<call, orchestratorVars>>
  /\ UNCHANGED <<clientVars, control>>

(* The continuation of a request that has been acknowledged.               *)
Acknowledged(c) ==
  CASE c.type = "execute" ->
         /\ call' = [call EXCEPT !.pc = "running"]
         /\ UNCHANGED <<control, orchestratorVars>>
    [] c.type = "resume" ->
         /\ call' = IF Execution THEN [call EXCEPT !.waiting = Append(@, c.gen)] ELSE call
         /\ UNCHANGED <<control, orchestratorVars>>
    [] c.type \in {"pause", "cancel"} ->
         /\ control' = [control EXCEPT !.pc = "done"]
         /\ UNCHANGED <<call, orchestratorVars>>

AckArrives ==
  /\ \E i \in DOMAIN pending :
       /\ Answers(pending[i])
       /\ Settled(i)
       /\ Acknowledged(pending[i])
  /\ Consume
  /\ UNCHANGED <<process, requests>>

LineDropped ==
  /\ IsDropped
  /\ Consume
  /\ UNCHANGED <<clientVars, call, control, orchestratorVars>>

ReadsLine == (ResultArrives \/ AckArrives \/ LineDropped) /\ UNCHANGED worldVars

(* The i-th request is given up after 35 s.                                *)
GivesUp(i) ==
  /\ Settled(i)
  /\ CASE pending[i].type = "execute" ->
            /\ Settle("failed")
            /\ UNCHANGED control
       [] pending[i].type = "resume" ->
            /\ Enqueue(<<OutcomeOp(pending[i].gen, "failed")>>)
            /\ UNCHANGED <<call, control>>
       [] pending[i].type \in {"pause", "cancel"} ->
            /\ control' = [control EXCEPT !.pc = "failed"]
            /\ UNCHANGED <<call, orchestratorVars>>
  /\ UNCHANGED <<process, requests, workerVars>>

(* Mutant: only an execute request is timed.                               *)
ExecuteTimesOut ==
  /\ \E i \in DOMAIN pending :
       pending[i].type = "execute" /\ Unanswered(pending[i]) /\ GivesUp(i)
  /\ UNCHANGED worldVars

RequestTimesOut ==
  /\ \E i \in DOMAIN pending : Unanswered(pending[i]) /\ GivesUp(i)
  /\ UNCHANGED worldVars

(* The worker is still awaiting a task it has cancelled, and answers this  *)
(* request too late.                                                       *)
AnsweredTooLate ==
  /\ Serves("cancel")
  /\ Abandon
  /\ \E i \in DOMAIN pending :
       pending[i].sent /\ ~Unanswered(pending[i]) /\ GivesUp(i)

(* The pending resumes, in order: the ActiveTasks that await them.         *)
InOrder(S) == {q \in [1..Cardinality(S) -> S] : \A k, l \in DOMAIN q : k < l => q[k] < q[l]}
Resumes == {i \in DOMAIN pending : pending[i].type = "resume"}
Gens(q) == [k \in DOMAIN q |-> pending[q[k]].gen]

(* Mutant: failAll rejects the requests and leaves the execution.          *)
RequestsFail ==
  /\ \E q \in InOrder(Resumes) : Enqueue(Outcomes(Gens(q), "failed"))
  /\ UNCHANGED call
  /\ control' = IF control.pc = "waiting" THEN [control EXCEPT !.pc = "failed"] ELSE control

(* failAll: the execution and every request are rejected.                  *)
AllFail ==
  /\ \E q \in InOrder(Resumes) :
       Enqueue(Outcomes((IF Execution THEN call.waiting ELSE <<>>) \o Gens(q), "failed"))
  /\ call' = IF Execution THEN NoCall ELSE call
  /\ control' = IF control.pc = "waiting" THEN [control EXCEPT !.pc = "failed"] ELSE control

(* The process exits, or does not become ready in 20 s and is stopped.     *)
ProcessDies ==
  /\ process \in {"starting", "ready"}
  /\ Fault
  /\ ProcessGone(NoTask)
  /\ AllFail

(* The process cannot be spawned, and everyone who awaits start() fails:   *)
(* at once, and whenever it is called again.                               *)
SpawnError ==
  /\ SpawnFails
  /\ Fault
  /\ AllFail

StartRejects ==
  /\ StartRejected
  /\ AllFail
  /\ UNCHANGED worldVars

(* A line of stdout is not a message of the protocol: everything fails,    *)
(* and the process goes on.                                                *)
InvalidLine ==
  /\ process = "ready"
  /\ Abandon
  /\ pending' = <<>>
  /\ AllFail
  /\ UNCHANGED <<process, requests, workerVars>>

-----------------------------------------------------------------------------
Worker ==
  /\ process = "ready"
  /\ MainLoop(NoTask) \/ ExecutionRuns(NoTask)
  /\ achieved' = achieved \cup {r.task : r \in {stdout'[i] : i \in
                   {j \in DOMAIN stdout' : stdout'[j].status = "succeeded"}}}
  /\ UNCHANGED <<clientVars, call, control, orchestratorVars, delivered, faults, abandoned>>

WorkerFails ==
  /\ PauseGivesUp \/ BrowserStopFails
  /\ Fault
  /\ UNCHANGED <<clientVars, call, control, orchestratorVars>>

ProcessReady ==
  /\ Ready
  /\ UNCHANGED <<call, control, orchestratorVars, worldVars>>

Client == TargetKnown \/ ProcessReady \/ StartRejects \/ ReadsLine \/ RequestTimesOut

Failure ==
  TargetUnknown \/ AnsweredTooLate \/ SpawnError \/ ProcessDies \/ InvalidLine \/ WorkerFails

Next ==
  \/ \E c \in Commands : Deliver(c)
  \/ Orchestrate
  \/ OrchestrateFaulty
  \/ Worker
  \/ Client
  \/ Failure

Spec == Init /\ [][Next]_vars

(* The event loop runs what can run; the worker's loop and the agent go    *)
(* on, the agent for at most max_steps; lines are read; and a timer of 35 s*)
(* ends every request that will not be answered.                           *)
Fairness ==
  /\ WF_vars(Orchestrate \/ OrchestrateFaulty)
  /\ WF_vars(Worker)
  /\ WF_vars(Client)

FairSpec == Spec /\ Fairness

-----------------------------------------------------------------------------
(* As long as the client has not given up on a worker that goes on (an     *)
(* invalid line, an answer after 35 s), an agent is driven only for the    *)
(* task that holds the lease and by the execution the adapter knows:       *)
(* cancelling, failing or finishing a task never leaves an agent behind.   *)
AgentHasItsLease ==
  ~abandoned /\ Running => call.id = exec.id /\ Held /\ lease.task = exec.task

(* Whatever fails, a task is recorded as succeeded only if its own agent   *)
(* returned a result: no answer reaches the execution of another task.     *)
SuccessIsEarned ==
  \A t \in Tasks : checkpoints[t] = "SUCCEEDED" => t \in achieved

(* Whenever the human is given the page, an agent that was asked to pause  *)
(* is between two steps.                                                   *)
HandoverAtRest ==
  [][lease.holder # "human" /\ lease'.holder = "human" /\ exec.paused => Idle]_vars

(* The queue keeps draining: every command is answered, although the       *)
(* worker's error replies name no request and are dropped.                 *)
QueueDrains == []<>(commandQueue = <<>> /\ job.pc = "free")

(* An execution is settled unless its agent is paused, also when the       *)
(* process dies or the client fails everything.                            *)
ExecutionSettles == Execution ~> ~Execution \/ exec.paused

(* What the documents say and the code does not do: while the human has    *)
(* the page, automation takes no step on it.                               *)
HumanUndisturbed == lease.holder = "human" => Idle

=============================================================================
