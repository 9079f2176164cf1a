---------------------------- MODULE RunnerDesktop ----------------------------
(***************************************************************************)
(* The Desktop agent executing tasks with a capability: the orchestrator   *)
(* with the Playwright runner as its executor, as apps/desktop/src/main/   *)
(* index.ts wires them, driven by commands of the control plane that may   *)
(* be sent in any order, repeated and delayed, on a page that may fail, in *)
(* a process that may crash.                                               *)
(*                                                                         *)
(* The bounds MaxRepeats, MaxFaults and MaxCrashes limit what the          *)
(* environment does, never what the agent does.                            *)
(***************************************************************************)
EXTENDS Orchestrator, Runner

CONSTANTS
  MaxRepeats,       (* how often a command is delivered again, in total     *)
  MaxFaults,        (* how often the page or the artifact store fails       *)
  MaxCrashes        (* how often the process crashes                        *)

ASSUME BoundsAssumption ==
  MaxRepeats \in Nat /\ MaxFaults \in Nat /\ MaxCrashes \in Nat

VARIABLES
  delivered,        (* the commands that were delivered                     *)
  repeats,          (* deliveries of a command delivered before             *)
  reported,         (* submissions announced in a TASK_EVENT                *)
  clicked,          (* submissions whose form was submitted, with the task  *)
  faults,           (* faults so far                                        *)
  crashes           (* crashes so far                                       *)

worldVars == <<delivered, repeats, reported, clicked, faults, crashes>>
vars == <<orchestratorVars, runnerVars, worldVars>>

Kind == "playwright-runner"

Init ==
  /\ OrchestratorInit
  /\ RunnerInit(NoTask)
  /\ delivered = {}
  /\ repeats = 0
  /\ reported = {}
  /\ clicked = {}
  /\ faults = 0
  /\ crashes = 0

WorldTypeOK ==
  /\ delivered \subseteq Commands
  /\ reported \subseteq Nat
  /\ clicked \subseteq [sub : Nat, task : Tasks \cup {NoTask}]
  /\ repeats \in Nat /\ faults \in Nat /\ crashes \in Nat

(* Every variable keeps its type.                                          *)
TypeOK == OrchestratorTypeOK /\ RunnerTypeOK(NoTask, Tasks) /\ WorldTypeOK

-----------------------------------------------------------------------------
(* The environment.                                                        *)

(* A fault of the page, of the artifact store or of the browser probe.     *)
Fault ==
  /\ faults < MaxFaults
  /\ faults' = faults + 1
  /\ UNCHANGED <<delivered, repeats, reported, clicked, crashes>>

(* A command arrives, once more.  A decision on a submission can only name *)
(* a submission the agent has reported: its id is a random UUID.           *)
Deliver(c) ==
  /\ \/ c \notin delivered /\ UNCHANGED repeats
     \/ c \in delivered /\ repeats < MaxRepeats /\ repeats' = repeats + 1
  /\ CommandType[c] \in DecisionTypes => CommandSub[c] \in reported
  /\ delivered' = delivered \cup {c}
  /\ Handle(c)
  /\ UNCHANGED <<runnerVars, reported, clicked, faults, crashes>>

Crash ==
  /\ crashes < MaxCrashes
  /\ crashes' = crashes + 1
  /\ Restart
  /\ run' = NoRun(NoTask)
  /\ paused' = FALSE
  /\ cancelled' = FALSE
  /\ idle' = TRUE
  /\ UNCHANGED <<submissions, delivered, repeats, reported, clicked, faults>>

-----------------------------------------------------------------------------
(* Operations of the orchestrator, with the executor's part.               *)

Quiet == UNCHANGED <<runnerVars, worldVars>>

(* startTask, from acquire on: execute is called with resume = FALSE.      *)
StartTask ==
  \/ /\ StartLaunches(Kind, <<>>)
     /\ ExecuteFresh(epoch + 1, CommandTask[job.cmd])
  \/ /\ StartLaunches(Kind, <<OutcomeOp(epoch + 1, "failed")>>)
     /\ ExecuteUnparsable \/ ExecuteBusy

(* RESUME_AFTER_HUMAN: execute is called with resume = TRUE.               *)
ResumeTask ==
  \/ ResumeSucceeds(Kind, <<>>) /\ ExecuteResume(active.gen)
  \/ /\ ResumeSucceeds(Kind, <<OutcomeOp(active.gen, "failed")>>)
     /\ ExecuteNothingToResume

Decide ==
  \/ /\ DecisionTaken
     /\ Resolve(CommandSub[job.cmd], CommandType[job.cmd] = "APPROVE_SUBMIT")
  \/ /\ DecisionRefused
     /\ ~Waiting(CommandSub[job.cmd])
     /\ UNCHANGED runnerVars

(* An event of the runner: WAITING_APPROVAL_SUBMIT with the submission id. *)
ServeEvent ==
  \/ /\ EventServed
     /\ Announced
     /\ reported' = reported \cup {run.sub}
     /\ UNCHANGED <<delivered, repeats, clicked, faults, crashes>>
  \/ /\ EventThrows
     /\ run' = [run EXCEPT !.pc = "denied"]
     /\ UNCHANGED <<paused, cancelled, idle, submissions>>
     /\ \/ EventIsStale /\ UNCHANGED worldVars
        \/ ~EventIsStale /\ Fault

(* Steps of the orchestrator that the executor does not take part in.      *)
Command ==
  \/ RepeatReply
  \/ Begin
  \/ Expire
  \/ Reply
  \/ StartRefused
  \/ StartNavigates
  \/ StartFails /\ ~CanAcquire
  \/ ControlRefused
  \/ PauseCompletes /\ idle
  \/ TakeoverCompletes /\ idle
  \/ TakeoverRefused /\ idle /\ ~CanTransfer(active.lease.epoch)
  \/ ResumeRefused /\ ~(CanResume /\ CanResumeAfterHuman(active.lease.epoch, TRUE))
  \/ CancelCompletes

(* The same steps where the page or the artifact store fails them.         *)
FailedCommand ==
  \/ StartInadmissible
  \/ StartFails
  \/ PauseProbeFails /\ idle
  \/ TakeoverRefused /\ idle
  \/ TakeoverHalfDone /\ idle
  \/ ResumeRefused
  \/ CancelProbeFails

Orchestrate ==
  \/ Command /\ Quiet
  \/ PauseBegins /\ Pause /\ UNCHANGED worldVars
  \/ CancelBegins /\ Cancel /\ UNCHANGED worldVars
  \/ StartTask /\ UNCHANGED worldVars
  \/ ResumeTask /\ UNCHANGED worldVars
  \/ Decide /\ UNCHANGED worldVars
  \/ (OutcomeIgnored \/ OutcomeRecorded) /\ Quiet

(* Progress under failure: the operation goes on, to its catch block.      *)
OrchestrateFaulty ==
  (FailedCommand \/ OutcomeProbeFails) /\ Fault /\ UNCHANGED runnerVars

-----------------------------------------------------------------------------
(* Steps of the run, on the page.                                          *)

(* The run settles and its outcome is enqueued for every startExecution    *)
(* that awaits it.                                                         *)
Settle(outcome) ==
  /\ RunEnds(NoTask)
  /\ Enqueue(Outcomes(run.handlers, outcome))

(* A submit step's click reaches the page.                                 *)
Clicked == IF run.pc = "click" THEN clicked \cup {[sub |-> run.sub, task |-> run.task]}
                               ELSE clicked

FinishStep ==
  /\ StepCanReturn
  /\ \/ StepReturns /\ UNCHANGED orchestratorVars
     \/ run.step = Steps /\ Settle("succeeded")
  /\ clicked' = Clicked
  /\ UNCHANGED <<delivered, repeats, reported, faults, crashes>>

Throw ==
  /\ CanThrow
  /\ Settle("failed")
  /\ UNCHANGED worldVars

Announce ==
  /\ RequestApproval
  /\ Enqueue(<<EventOp(run.gen, "WAITING_APPROVAL_SUBMIT")>>)
  /\ UNCHANGED worldVars

EnterStep ==
  /\ BeforeStep
  /\ UNCHANGED <<orchestratorVars, worldVars>>

Execution == EnterStep \/ Announce \/ FinishStep \/ Throw

-----------------------------------------------------------------------------
Next ==
  \/ \E c \in Commands : Deliver(c)
  \/ Orchestrate
  \/ OrchestrateFaulty
  \/ ServeEvent
  \/ Execution
  \/ Crash

Spec == Init /\ [][Next]_vars

(* The event loop keeps running operations that can run, and Playwright    *)
(* ends every call with a result or, after its timeout, with an exception. *)
(* Nobody is obliged to send a command, to fail or to crash.               *)
Fairness ==
  /\ WF_vars(Orchestrate \/ OrchestrateFaulty \/ ServeEvent)
  /\ WF_vars(Execution)

FairSpec == Spec /\ Fairness

-----------------------------------------------------------------------------
(* Safety.                                                                 *)

(* While the human holds the browser no run is inside a step: control only *)
(* changes hands between two steps (pause, drain, transferToHuman).        *)
HumanExclusive == lease.holder = "human" => ~Acting

(* The lease, when there is one, is the one the active task keeps, and     *)
(* frames are streamed only of the task that holds it: cancel, finish,     *)
(* takeover and resume never leave a lease or a stream behind.             *)
LeaseIsActives ==
  /\ Held => active.gen # 0 /\ active.lease = lease /\ lease.task = active.task
  /\ frames # NoTask => Held /\ lease.task = frames

(* A form is submitted only if the control plane sent an approval of this  *)
(* submission for this task, and no rejection of it was accepted.  Unless  *)
(* the process crashed between the click and the receipt, the approval was *)
(* not answered with a rejection either.                                   *)
SubmitOnlyWhenApproved ==
  \A k \in clicked :
    /\ \E c \in Commands :
         /\ CommandType[c] = "APPROVE_SUBMIT"
         /\ CommandSub[c] = k.sub /\ CommandTask[c] = k.task
         /\ c \in delivered
         /\ crashes = 0 => receipts[c] # "rejected"
    /\ \A c \in Commands :
         CommandType[c] = "REJECT_SUBMIT" /\ CommandSub[c] = k.sub
           => receipts[c] # "accepted"

(* A run that has not been cancelled belongs to the active task, and that  *)
(* task holds the lease: no executor outlives its task unnoticed.          *)
LiveRunHoldsLease ==
  run.pc # "none" /\ ~cancelled => Held /\ run.gen = active.gen

(* A run that waits for a decision has announced the submission, its       *)
(* checkpoint says so, and its task is active: the decision can reach it.  *)
ApprovalIsRecorded ==
  run.pc = "approval" =>
    /\ run.sub \in reported
    /\ active.gen = run.gen
    /\ checkpoints[run.task] = "WAITING_APPROVAL_SUBMIT"

(* What the database says of the active task is so: a paused task does     *)
(* nothing, a task said to wait for the human is in the human's hands, and *)
(* one said to run is not.                                                 *)
CheckpointIsTrue ==
  active.gen # 0 =>
    LET state == checkpoints[active.task] IN
      /\ state \in {"PAUSED", "WAITING_HUMAN"} => ~Acting
      /\ state = "WAITING_HUMAN" /\ Held => lease.holder = "human"
      /\ state = "RUNNING" /\ Held /\ faults = 0 => lease.holder # "human"

(* A terminal checkpoint is left only by a new start of the same task, and *)
(* then only for RUNNING: no late event or outcome of an ended execution   *)
(* overwrites it.                                                          *)
TerminalCheckpointStays ==
  [][\A t \in Tasks :
       checkpoints[t] \in TerminalStates /\ checkpoints'[t] # checkpoints[t]
         => /\ checkpoints'[t] = "RUNNING"
            /\ job.pc = "goto" /\ CommandTask[job.cmd] = t]_vars

(* The answer to a command never changes, across duplicates and crashes.   *)
ReceiptsAreFinal ==
  [][\A c \in Commands : Final(c) => receipts'[c] = receipts[c]]_vars

-----------------------------------------------------------------------------
(* Why the safety properties hold: an inductive invariant, in parts.       *)

(* An operation that is suspended finds, when it goes on, what it left.    *)
ServingInv ==
  /\ job.pc = "goto" => active.gen = 0
  /\ job.pc \in {"pausing", "cancelling"} => Addressed
  /\ job.pc = "pausing" => paused
  /\ job.pc = "cancelling" => ~Held /\ cancelled /\ run.pc \notin {"approval", "parked"}

(* The flags of the adapter tell where its run is.                         *)
FlagsInv ==
  /\ idle <=> ~Acting
  /\ run.pc = "parked" => paused /\ ~cancelled
  /\ lease.holder = "human" => paused /\ idle

(* A run is of a task, and of the active one if it has not been cancelled. *)
RunInv ==
  /\ run.pc # "none" => run.task \in Tasks /\ run.gen # 0
  /\ run.pc # "none" /\ run.gen = active.gen => run.task = active.task
  /\ LiveRunHoldsLease

(* An ActiveTask is never created twice.                                   *)
GenInv ==
  /\ active.gen <= epoch /\ run.gen <= epoch
  /\ \A i \in 1..Len(run.handlers) : run.handlers[i] <= epoch

(* The event in the queue is the one the run waits for, and an outcome is  *)
(* that of a run that has ended.                                           *)
Fits(op) ==
  /\ op.gen <= epoch
  /\ op.kind = "event" => /\ run.pc = "emit" /\ op.gen = run.gen
                          /\ op.state = "WAITING_APPROVAL_SUBMIT"
  /\ op.kind = "outcome" => run.pc = "none" \/ op.gen # run.gen

QueueInv ==
  /\ \A i \in 1..Len(commandQueue) : Fits(commandQueue[i])
  /\ \A i, j \in 1..Len(commandQueue) :
       commandQueue[i].kind = "event" /\ commandQueue[j].kind = "event" => i = j

IInv ==
  /\ TypeOK
  /\ LeaseIsActives
  /\ ServingInv
  /\ FlagsInv
  /\ RunInv
  /\ GenInv
  /\ QueueInv
  /\ ApprovalIsRecorded

-----------------------------------------------------------------------------
(* What documents and tests say and the code does not do.                  *)

(* "After termination close the input first, then save the checkpoint":    *)
(* when the checkpoint of a task says CANCELLED its automation is not      *)
(* inside an action any more.                                              *)
InputClosedBeforeCancelled ==
  Acting => checkpoints[run.task] # "CANCELLED"

(* The human can take over in every state of a running task, the wait for  *)
(* an approval included: a takeover that has begun is served.              *)
TakeoverIsServed == job.pc = "pausing" ~> job.pc # "pausing"

-----------------------------------------------------------------------------
(* The abstract specification, and what its variables are here.            *)
PageOwner ==
  IF Held
    THEN [task |-> lease.task,
          who  |-> IF lease.holder = "human" THEN "human" ELSE "automation"]
    ELSE [task |-> NoTask, who |-> "nobody"]

PageActing == IF Acting THEN run.task ELSE NoTask

Control == INSTANCE BrowserControl WITH owner <- PageOwner, acting <- PageActing

(* The Desktop keeps the promise of BrowserControl: no task's automation   *)
(* begins an action unless that task's automation holds the lease, and the *)
(* human gets the page only between actions.                               *)
KeepsBrowserControl == Control!Spec

-----------------------------------------------------------------------------
(* Liveness, under FairSpec.                                               *)

(* The queue keeps draining: every command delivered is answered.          *)
QueueDrains == []<>(commandQueue = <<>> /\ job.pc = "free")

(* A task that is neither paused nor handed to the human nor struck by a   *)
(* fault ends, and the Desktop is free for the next one.                   *)
TasksEnd == active.gen # 0 ~> active.gen = 0 \/ paused \/ faults > 0

(* A cancelled run stops.                                                  *)
CancelledRunStops == cancelled ~> run.pc = "none"

=============================================================================
