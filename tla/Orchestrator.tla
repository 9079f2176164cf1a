---------------------------- MODULE Orchestrator ----------------------------
(***************************************************************************)
(* DesktopTaskOrchestrator (apps/desktop/src/agent/task-orchestrator.ts):  *)
(* the serial queue of the Desktop agent, its active task and what it      *)
(* keeps in the local database.                                            *)
(*                                                                         *)
(* commandQueue runs one operation at a time: a command of the control     *)
(* plane, an event of an executor, or the outcome of an execution.  An     *)
(* operation that suspends is in `job', whose pc names the await; while it *)
(* waits, executors act, commands arrive and the process may crash, but no *)
(* other operation starts.  Every operator below is what one operation     *)
(* does between two awaits that matter; it leaves the executor's variables *)
(* to the module that composes it with an executor.                        *)
(***************************************************************************)
EXTENDS ControlLease, Sequences

CONSTANTS
  Commands,         (* command identifiers                                  *)
  NoCommand,        (* stands for undefined                                 *)
  CommandType,      (* the type, task and submissionId of each command      *)
  CommandTask,
  CommandSub,
  Expirable         (* the commands that may expire before they are run     *)

CommandTypes == {"START_TASK", "PAUSE_TASK", "REQUEST_TAKEOVER",
                 "RESUME_AFTER_HUMAN", "CANCEL_TASK", "APPROVE_SUBMIT",
                 "REJECT_SUBMIT"}

ASSUME CommandsAssumption ==
  /\ NoCommand \notin Commands
  /\ CommandType \in [Commands -> CommandTypes]
  /\ CommandTask \in [Commands -> Tasks]
  /\ CommandSub \in [Commands -> Nat]
  /\ Expirable \subseteq Commands

VARIABLES
  commandQueue,     (* operations waiting behind the current one            *)
  job,              (* the operation that is running                        *)
  active,           (* this.active, or NoActive                             *)
  frames,           (* the task whose frames are streamed, or NoTask        *)
  receipts,         (* command receipts in the local database               *)
  checkpoints,      (* the state of each task's checkpoint, there too       *)
  records           (* the status of each task's row, there too             *)

memoryVars == <<commandQueue, job, active, frames>>
diskVars   == <<receipts, checkpoints, records>>
orchestratorVars == <<leaseVars, memoryVars, diskVars>>

TerminalStates == {"SUCCEEDED", "FAILED", "CANCELLED"}
TaskStates == {"none", "PLANNING", "RUNNING", "PAUSED", "WAITING_HUMAN",
               "WAITING_APPROVAL_SUBMIT"} \cup TerminalStates

(* An ActiveTask object is identified by the epoch of the lease it was     *)
(* created with (gen); `awaiting' is expectedHumanProbe # undefined.       *)
NoActive == [gen |-> 0, task |-> NoTask, lease |-> NoLease, awaiting |-> FALSE]
ActiveTask == [gen : Nat \ {0}, task : Tasks, lease : Lease, awaiting : BOOLEAN]

(* The closures put in commandQueue.                                       *)
Op == [kind : {"command"}, cmd : Commands, gen : {0}, state : {"none"}]
        \cup [kind : {"event"}, cmd : {NoCommand}, gen : Nat, state : TaskStates]
        \cup [kind : {"outcome"}, cmd : {NoCommand}, gen : Nat,
              state : {"succeeded", "failed"}]
CommandOp(c)      == [kind |-> "command", cmd |-> c, gen |-> 0, state |-> "none"]
EventOp(g, s)     == [kind |-> "event", cmd |-> NoCommand, gen |-> g, state |-> s]
OutcomeOp(g, s)   == [kind |-> "outcome", cmd |-> NoCommand, gen |-> g, state |-> s]
Outcomes(gens, s) == [i \in DOMAIN gens |-> OutcomeOp(gens[i], s)]

JobPcs == {"free", "begin", "goto", "pausing", "cancelling", "accept", "reject"}
NoJob == [pc |-> "free", cmd |-> NoCommand]
At(pc) == [job EXCEPT !.pc = pc]

OrchestratorTypeOK ==
  /\ LeaseTypeOK
  /\ commandQueue \in Seq(Op)
  /\ job \in [pc : JobPcs, cmd : Commands \cup {NoCommand}]
  /\ job.pc # "free" => job.cmd \in Commands
  /\ active \in ActiveTask \cup {NoActive}
  /\ frames \in Tasks \cup {NoTask}
  /\ receipts \in [Commands -> {"none", "processing", "accepted", "rejected"}]
  /\ checkpoints \in [Tasks -> TaskStates]
  /\ records \in [Tasks -> TaskStates]

OrchestratorInit ==
  /\ LeaseInit
  /\ commandQueue = <<>>
  /\ job = NoJob
  /\ active = NoActive
  /\ frames = NoTask
  /\ receipts = [c \in Commands |-> "none"]
  /\ checkpoints = [t \in Tasks |-> "none"]
  /\ records = [t \in Tasks |-> "none"]

-----------------------------------------------------------------------------
(* Helpers of the class.                                                   *)

(* saveCheckpoint: the checkpoint, and the row of tasks if there is one    *)
SaveCheckpoint(t, s) ==
  /\ checkpoints' = [checkpoints EXCEPT ![t] = s]
  /\ records' = [records EXCEPT ![t] = IF @ = "none" THEN @ ELSE s]

Final(c) == receipts[c] \in {"accepted", "rejected"}

(* The operation at the head of a queue nobody is serving.                 *)
NextIs(kind) == job.pc = "free" /\ commandQueue # <<>> /\ Head(commandQueue).kind = kind

(* The command being served addresses the active task.                     *)
Addressed == active.gen # 0 /\ active.task = CommandTask[job.cmd]

Serving(types, pc) == job.pc = pc /\ CommandType[job.cmd] \in types

(* A throw inside processCommand's try: on to the catch block.             *)
Throws ==
  /\ job' = At("reject")
  /\ UNCHANGED <<leaseVars, commandQueue, active, frames, diskVars>>

-----------------------------------------------------------------------------
(* processCommand.                                                         *)

(* A command with a final receipt is only reported again.                  *)
RepeatReply ==
  /\ NextIs("command")
  /\ Final(Head(commandQueue).cmd)
  /\ commandQueue' = Tail(commandQueue)
  /\ UNCHANGED <<leaseVars, job, active, frames, diskVars>>

(* validateEnvelope throws: the command has expired.                       *)
Expire ==
  /\ NextIs("command")
  /\ Head(commandQueue).cmd \in Expirable
  /\ ~Final(Head(commandQueue).cmd)
  /\ commandQueue' = Tail(commandQueue)
  /\ job' = [pc |-> "reject", cmd |-> Head(commandQueue).cmd]
  /\ UNCHANGED <<leaseVars, active, frames, diskVars>>

(* Mutant: the prior receipt is not looked up.                             *)
BeginAnyway ==
  /\ NextIs("command")
  /\ LET c == Head(commandQueue).cmd IN
       /\ job' = [pc |-> "begin", cmd |-> c]
       /\ receipts' = [receipts EXCEPT ![c] = "processing"]
  /\ commandQueue' = Tail(commandQueue)
  /\ UNCHANGED <<leaseVars, active, frames, checkpoints, records>>

(* The receipt is saved as processing, unless a crash left one.            *)
Begin ==
  /\ NextIs("command")
  /\ ~Final(Head(commandQueue).cmd)
  /\ LET c == Head(commandQueue).cmd IN
       /\ job' = [pc |-> "begin", cmd |-> c]
       /\ receipts' = [receipts EXCEPT ![c] = "processing"]
  /\ commandQueue' = Tail(commandQueue)
  /\ UNCHANGED <<leaseVars, active, frames, checkpoints, records>>

(* The receipt becomes final and COMMAND_ACK or COMMAND_REJECTED is sent.  *)
Reply ==
  /\ job.pc \in {"accept", "reject"}
  /\ receipts' = [receipts EXCEPT ![job.cmd] =
                    IF job.pc = "accept" THEN "accepted" ELSE "rejected"]
  /\ job' = NoJob
  /\ UNCHANGED <<leaseVars, commandQueue, active, frames, checkpoints, records>>

-----------------------------------------------------------------------------
(* startTask.                                                              *)

StartRefused ==
  /\ Serving({"START_TASK"}, "begin")
  /\ active.gen # 0
  /\ Throws

(* The artifact, the entry URL or the mode of the task is refused.         *)
StartInadmissible ==
  /\ Serving({"START_TASK"}, "begin")
  /\ active.gen = 0
  /\ Throws

(* saveTask with status PLANNING, then page.goto.                          *)
StartNavigates ==
  /\ Serving({"START_TASK"}, "begin")
  /\ active.gen = 0
  /\ records' = [records EXCEPT ![CommandTask[job.cmd]] = "PLANNING"]
  /\ job' = At("goto")
  /\ UNCHANGED <<leaseVars, commandQueue, active, frames, receipts, checkpoints>>

(* goto or the probe fails, the page lands outside the allowed domains, or *)
(* acquire throws.                                                         *)
StartFails ==
  /\ Serving({"START_TASK"}, "goto")
  /\ Throws

(* acquire, this.active, checkpoint RUNNING, frames.start, startExecution; *)
(* `ops' are the outcomes of an execution that is refused at once.         *)
StartLaunches(kind, ops) ==
  /\ Serving({"START_TASK"}, "goto")
  /\ LET t == CommandTask[job.cmd] IN
       /\ Acquire(t, kind)
       /\ active' = [gen |-> epoch', task |-> t, lease |-> lease', awaiting |-> FALSE]
       /\ SaveCheckpoint(t, "RUNNING")
       /\ frames' = t
  /\ commandQueue' = commandQueue \o ops
  /\ job' = At("accept")
  /\ UNCHANGED receipts

-----------------------------------------------------------------------------
(* controlTask.                                                            *)

ControlTypes == CommandTypes \ {"START_TASK"}

ControlRefused ==
  /\ Serving(ControlTypes, "begin")
  /\ ~Addressed
  /\ Throws

(* PAUSE_TASK and REQUEST_TAKEOVER call executor.pause() ...               *)
PauseBegins ==
  /\ Serving({"PAUSE_TASK", "REQUEST_TAKEOVER"}, "begin")
  /\ Addressed
  /\ job' = At("pausing")
  /\ UNCHANGED <<leaseVars, commandQueue, active, frames, diskVars>>

(* ... and go on when it returns: a pause stops the frames, probes the     *)
(* page and saves its checkpoint,                                          *)
PauseCompletes ==
  /\ Serving({"PAUSE_TASK"}, "pausing")
  /\ frames' = NoTask
  /\ SaveCheckpoint(active.task, "PAUSED")
  /\ job' = At("accept")
  /\ UNCHANGED <<leaseVars, commandQueue, active, receipts>>

PauseProbeFails ==
  /\ Serving({"PAUSE_TASK"}, "pausing")
  /\ frames' = NoTask
  /\ job' = At("reject")
  /\ UNCHANGED <<leaseVars, commandQueue, active, diskVars>>

(* a takeover probes the page and gives the lease to the human.            *)
TakeoverCompletes ==
  /\ Serving({"REQUEST_TAKEOVER"}, "pausing")
  /\ TransferToHuman(active.lease.epoch)
  /\ active' = [active EXCEPT !.lease = lease', !.awaiting = TRUE]
  /\ SaveCheckpoint(active.task, "WAITING_HUMAN")
  /\ job' = At("accept")
  /\ UNCHANGED <<commandQueue, frames, receipts>>

(* The probe fails, or the lease is not an automation lease of this task.  *)
TakeoverRefused ==
  /\ Serving({"REQUEST_TAKEOVER"}, "pausing")
  /\ Throws

(* bringToFront fails after the lease has gone to the human.               *)
TakeoverHalfDone ==
  /\ Serving({"REQUEST_TAKEOVER"}, "pausing")
  /\ TransferToHuman(active.lease.epoch)
  /\ active' = [active EXCEPT !.lease = lease', !.awaiting = TRUE]
  /\ job' = At("reject")
  /\ UNCHANGED <<commandQueue, frames, diskVars>>

CanResume == active.lease.holder = "human" /\ active.awaiting

(* Not waiting for the human; or the page is outside the allowed domains,  *)
(* its target changed, or the probe fails.                                 *)
ResumeRefused ==
  /\ Serving({"RESUME_AFTER_HUMAN"}, "begin")
  /\ Addressed
  /\ Throws

(* The lease returns to the executor and startExecution(true) is called;   *)
(* `ops' as in StartLaunches.                                              *)
ResumeSucceeds(kind, ops) ==
  /\ Serving({"RESUME_AFTER_HUMAN"}, "begin")
  /\ Addressed
  /\ CanResume
  /\ ResumeAfterHuman(active.lease.epoch, kind, TRUE)
  /\ active' = [active EXCEPT !.lease = lease', !.awaiting = FALSE]
  /\ SaveCheckpoint(active.task, "RUNNING")
  /\ frames' = active.task
  /\ commandQueue' = commandQueue \o ops
  /\ job' = At("accept")
  /\ UNCHANGED receipts

(* CANCEL_TASK: executor.cancel(), frames.stop, releaseActiveLease ...     *)
CancelBegins ==
  /\ Serving({"CANCEL_TASK"}, "begin")
  /\ Addressed
  /\ frames' = NoTask
  /\ Release(active.lease.epoch)
  /\ job' = At("cancelling")
  /\ UNCHANGED <<commandQueue, active, diskVars>>

(* Mutant: this.active is kept.                                            *)
CancelKeepsActive ==
  /\ Serving({"CANCEL_TASK"}, "cancelling")
  /\ SaveCheckpoint(active.task, "CANCELLED")
  /\ job' = At("accept")
  /\ UNCHANGED <<leaseVars, commandQueue, active, frames, receipts>>

(* ... then the probe, the checkpoint and this.active = null,              *)
CancelCompletes ==
  /\ Serving({"CANCEL_TASK"}, "cancelling")
  /\ SaveCheckpoint(active.task, "CANCELLED")
  /\ active' = NoActive
  /\ job' = At("accept")
  /\ UNCHANGED <<leaseVars, commandQueue, frames, receipts>>

(* unless the probe fails.                                                 *)
CancelProbeFails ==
  /\ Serving({"CANCEL_TASK"}, "cancelling")
  /\ Throws

(* APPROVE_SUBMIT and REJECT_SUBMIT, by whether the executor is waiting.   *)
DecisionTypes == {"APPROVE_SUBMIT", "REJECT_SUBMIT"}

DecisionTaken ==
  /\ Serving(DecisionTypes, "begin")
  /\ Addressed
  /\ job' = At("accept")
  /\ UNCHANGED <<leaseVars, commandQueue, active, frames, diskVars>>

DecisionRefused ==
  /\ Serving(DecisionTypes, "begin")
  /\ Addressed
  /\ Throws

-----------------------------------------------------------------------------
(* Operations an executor enqueues.                                        *)

(* emitEvent of the ActiveTask that is still the active one.               *)
EventServed ==
  /\ NextIs("event")
  /\ Head(commandQueue).gen = active.gen
  /\ SaveCheckpoint(active.task, Head(commandQueue).state)
  /\ commandQueue' = Tail(commandQueue)
  /\ UNCHANGED <<leaseVars, job, active, frames, receipts>>

(* "Executor event belongs to a stale task", or the probe fails.           *)
EventThrows ==
  /\ NextIs("event")
  /\ commandQueue' = Tail(commandQueue)
  /\ UNCHANGED <<leaseVars, job, active, frames, diskVars>>

EventIsStale == Head(commandQueue).gen # active.gen

(* finishExecution of an ActiveTask that is no longer the active one.      *)
OutcomeIgnored ==
  /\ NextIs("outcome")
  /\ Head(commandQueue).gen # active.gen
  /\ commandQueue' = Tail(commandQueue)
  /\ UNCHANGED <<leaseVars, job, active, frames, diskVars>>

FinalState(outcome) == IF outcome = "succeeded" THEN "SUCCEEDED" ELSE "FAILED"

(* Mutants: the lease is not released; this.active is kept.                *)
OutcomeKeepsLease ==
  /\ NextIs("outcome")
  /\ Head(commandQueue).gen = active.gen
  /\ frames' = NoTask
  /\ SaveCheckpoint(active.task, FinalState(Head(commandQueue).state))
  /\ active' = NoActive
  /\ commandQueue' = Tail(commandQueue)
  /\ UNCHANGED <<leaseVars, job, receipts>>

OutcomeKeepsActive ==
  /\ NextIs("outcome")
  /\ Head(commandQueue).gen = active.gen
  /\ frames' = NoTask
  /\ Release(active.lease.epoch)
  /\ SaveCheckpoint(active.task, FinalState(Head(commandQueue).state))
  /\ commandQueue' = Tail(commandQueue)
  /\ UNCHANGED <<job, active, receipts>>

(* finishExecution: frames.stop, releaseActiveLease, checkpoint, report.   *)
OutcomeRecorded ==
  /\ NextIs("outcome")
  /\ Head(commandQueue).gen = active.gen
  /\ frames' = NoTask
  /\ Release(active.lease.epoch)
  /\ SaveCheckpoint(active.task, FinalState(Head(commandQueue).state))
  /\ active' = NoActive
  /\ commandQueue' = Tail(commandQueue)
  /\ UNCHANGED <<job, receipts>>

(* The probe fails after the lease is released: the rejection is nobody's, *)
(* and this.active stays.                                                  *)
OutcomeProbeFails ==
  /\ NextIs("outcome")
  /\ Head(commandQueue).gen = active.gen
  /\ frames' = NoTask
  /\ Release(active.lease.epoch)
  /\ commandQueue' = Tail(commandQueue)
  /\ UNCHANGED <<job, active, diskVars>>

-----------------------------------------------------------------------------
(* handle: the command is put at the end of the queue.                     *)
Handle(c) ==
  /\ commandQueue' = Append(commandQueue, CommandOp(c))
  /\ UNCHANGED <<leaseVars, job, active, frames, diskVars>>

(* An executor puts operations at the end of the queue.                    *)
Enqueue(ops) ==
  /\ commandQueue' = commandQueue \o ops
  /\ UNCHANGED <<leaseVars, job, active, frames, diskVars>>

(* The process dies and starts again: only the database is left.           *)
Restart ==
  /\ lease' = NoLease
  /\ epoch' = 0
  /\ commandQueue' = <<>>
  /\ job' = NoJob
  /\ active' = NoActive
  /\ frames' = NoTask
  /\ UNCHANGED diskVars

=============================================================================
