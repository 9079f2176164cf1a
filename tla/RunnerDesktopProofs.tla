------------------------- MODULE RunnerDesktopProofs -------------------------
(***************************************************************************)
(* Proofs about RunnerDesktop, for every set of tasks and commands, every  *)
(* program, and any number of repeated deliveries, faults and crashes.     *)
(***************************************************************************)
EXTENDS RunnerDesktop, OrchestratorProofs

USE DEF Addressed, Serving, NextIs, At, Quiet

-----------------------------------------------------------------------------
(* Typing.                                                                 *)

LEMMA CommandsServe == Command \/ FailedCommand => ServesCommand
  BY DEF Command, FailedCommand, ServesCommand

(* What each call and each step of the executor does to its variables.     *)
LEMMA RunnerType ==
  ASSUME RunnerTypeOK(NoTask, Tasks),
         NEW g \in Nat, NEW t, NEW sub, NEW approved,
         \/ UNCHANGED runnerVars
         \/ t \in Tasks /\ ExecuteFresh(g, t)
         \/ ExecuteUnparsable \/ ExecuteBusy
         \/ ExecuteResume(g) \/ ExecuteNothingToResume
         \/ Pause \/ Cancel \/ Resolve(sub, approved) \/ Announced
         \/ RunEnds(NoTask) \/ BeforeStep \/ StepReturns \/ RequestApproval
  PROVE  RunnerTypeOK(NoTask, Tasks)'
<1> USE DEF RunnerTypeOK, runnerVars
<1>1. CASE t \in Tasks /\ ExecuteFresh(g, t)
  <2>1. <<g>> \in Seq(Nat)
    BY AppendProperties, EmptySeq
  <2> QED
    BY <1>1, <2>1 DEF ExecuteFresh
<1>2. CASE ExecuteUnparsable \/ ExecuteBusy \/ ExecuteNothingToResume
  BY <1>2 DEF ExecuteUnparsable, ExecuteBusy, ExecuteNothingToResume
<1>3. CASE ExecuteResume(g)
  <2>1. Append(run.handlers, g) \in Seq(Nat)
    BY AppendProperties
  <2> QED
    BY <1>3, <2>1 DEF ExecuteResume
<1>4. CASE Pause \/ Cancel
  BY <1>4 DEF Pause, Cancel
<1>5. CASE Resolve(sub, approved) \/ Announced
  BY <1>5 DEF Resolve, Announced
<1>6. CASE RunEnds(NoTask)
  BY <1>6, EmptySeq DEF RunEnds, NoRun
<1>7. CASE BeforeStep
  BY <1>7 DEF BeforeStep
<1>8. CASE StepReturns
  <2>1. run.step + 1 \in Nat
    OBVIOUS
  <2> QED
    BY <1>8, <2>1 DEF StepReturns
<1>9. CASE RequestApproval
  <2>1. submissions + 1 \in Nat
    OBVIOUS
  <2> QED
    BY <1>9, <2>1 DEF RequestApproval
<1>10. CASE UNCHANGED runnerVars
  BY <1>10
<1> QED
  BY <1>1, <1>2, <1>3, <1>4, <1>5, <1>6, <1>7, <1>8, <1>9, <1>10

(* A run that settles: its outcomes are appended.                          *)
LEMMA SettleType ==
  ASSUME TypeOK, NEW s \in {"succeeded", "failed"}, Settle(s)
  PROVE  OrchestratorTypeOK' /\ RunnerTypeOK(NoTask, Tasks)'
<1>1. Outcomes(run.handlers, s) \in Seq(Op)
  BY OutcomesType DEF TypeOK, RunnerTypeOK
<1>2. OrchestratorTypeOK'
  BY <1>1, OrchestratorType DEF TypeOK, Settle, Automation
<1>3. RunnerTypeOK(NoTask, Tasks)'
  BY RunnerType DEF TypeOK, Settle
<1> QED
  BY <1>2, <1>3

(* What the environment counts keeps its type.                             *)
LEMMA FaultType ==
  ASSUME WorldTypeOK, Fault \/ UNCHANGED worldVars
  PROVE  WorldTypeOK'
<1>1. CASE Fault
  <2>1. faults + 1 \in Nat
    BY DEF WorldTypeOK
  <2> QED
    BY <1>1, <2>1 DEF WorldTypeOK, Fault
<1>2. CASE UNCHANGED worldVars
  BY <1>2 DEF WorldTypeOK, worldVars
<1> QED
  BY <1>1, <1>2

(* No step leaves the types.                                               *)
LEMMA TypeStep ==
  ASSUME TypeOK, [Next]_vars
  PROVE  TypeOK'
<1> USE CommandsAssumption DEF TypeOK
<1>0. Kind \in Automation
  BY DEF Kind, Automation
<1>1. CASE \E c \in Commands : Deliver(c)
  <2>1. OrchestratorTypeOK'
    BY <1>0, <1>1, OrchestratorType, EmptySeq DEF Deliver
  <2>2. RunnerTypeOK(NoTask, Tasks)'
    BY <1>1, RunnerType DEF Deliver
  <2>3. WorldTypeOK'
    BY <1>1 DEF Deliver, WorldTypeOK
  <2> QED
    BY <2>1, <2>2, <2>3
<1>2. CASE Orchestrate
  <2>1. UNCHANGED worldVars /\ WorldTypeOK'
    BY <1>2, FaultType DEF Orchestrate, StartTask, ResumeTask, Decide
  <2>2. CASE StartTask
    <3>1. epoch + 1 \in Nat /\ CommandTask[job.cmd] \in Tasks
      BY <2>2 DEF StartTask, StartLaunches, OrchestratorTypeOK, LeaseTypeOK
    <3>2. <<>> \in Seq(Op) /\ <<OutcomeOp(epoch + 1, "failed")>> \in Seq(Op)
      BY <3>1, OpsBuilt, EmptySeq, AppendProperties
    <3>3. OrchestratorTypeOK'
      BY <1>0, <2>2, <3>2, OrchestratorType DEF StartTask
    <3>4. RunnerTypeOK(NoTask, Tasks)'
      BY <2>2, <3>1, RunnerType DEF StartTask
    <3> QED
      BY <2>1, <3>3, <3>4
  <2>3. CASE ResumeTask
    <3>1. active.gen \in Nat
      BY DEF OrchestratorTypeOK, ActiveTask, NoActive
    <3>2. <<>> \in Seq(Op) /\ <<OutcomeOp(active.gen, "failed")>> \in Seq(Op)
      BY <3>1, OpsBuilt, EmptySeq, AppendProperties
    <3>3. OrchestratorTypeOK'
      BY <1>0, <2>3, <3>2, OrchestratorType DEF ResumeTask
    <3>4. RunnerTypeOK(NoTask, Tasks)'
      BY <2>3, <3>1, RunnerType DEF ResumeTask
    <3> QED
      BY <2>1, <3>3, <3>4
  <2>4. CASE ~StartTask /\ ~ResumeTask
    <3>1. OrchestratorTypeOK'
      BY <1>0, <1>2, <2>4, CommandsServe, OrchestratorType, EmptySeq DEF Orchestrate, Decide
    <3>2. RunnerTypeOK(NoTask, Tasks)'
      BY <1>2, <2>4, RunnerType DEF Orchestrate, Decide
    <3> QED
      BY <2>1, <3>1, <3>2
  <2> QED
    BY <2>2, <2>3, <2>4
<1>3. CASE OrchestrateFaulty
  <2>1. OrchestratorTypeOK'
    BY <1>0, <1>3, CommandsServe, OrchestratorType, EmptySeq DEF OrchestrateFaulty
  <2>2. RunnerTypeOK(NoTask, Tasks)' /\ WorldTypeOK'
    BY <1>3, RunnerType, FaultType DEF OrchestrateFaulty
  <2> QED
    BY <2>1, <2>2
<1>4. CASE ServeEvent
  <2>1. OrchestratorTypeOK'
    BY <1>0, <1>4, OrchestratorType, EmptySeq DEF ServeEvent
  <2>2. RunnerTypeOK(NoTask, Tasks)'
    BY <1>4, RunnerType DEF ServeEvent, RunnerTypeOK
  <2>3. WorldTypeOK'
    BY <1>4, FaultType DEF ServeEvent, WorldTypeOK, RunnerTypeOK
  <2> QED
    BY <2>1, <2>2, <2>3
<1>5. CASE EnterStep
  BY <1>5, RunnerType, FaultType
  DEF EnterStep, orchestratorVars, leaseVars, memoryVars, diskVars, OrchestratorTypeOK,
      LeaseTypeOK
<1>6. CASE Announce
  <2>1. run.gen \in Nat /\ "WAITING_APPROVAL_SUBMIT" \in TaskStates
    BY DEF RunnerTypeOK, TaskStates
  <2>2. <<EventOp(run.gen, "WAITING_APPROVAL_SUBMIT")>> \in Seq(Op)
    BY <2>1, OpsBuilt, EmptySeq, AppendProperties
  <2>3. OrchestratorTypeOK'
    BY <1>0, <1>6, <2>2, OrchestratorType DEF Announce
  <2> QED
    BY <1>6, <2>3, RunnerType, FaultType DEF Announce
<1>7. CASE FinishStep
  <2>1. OrchestratorTypeOK' /\ RunnerTypeOK(NoTask, Tasks)'
    <3>1. CASE Settle("succeeded")
      BY <3>1, SettleType
    <3>2. CASE StepReturns /\ UNCHANGED orchestratorVars
      BY <3>2, RunnerType DEF orchestratorVars, leaseVars, memoryVars, diskVars,
         OrchestratorTypeOK, LeaseTypeOK
    <3> QED
      BY <1>7, <3>1, <3>2 DEF FinishStep
  <2>2. WorldTypeOK'
    BY <1>7 DEF FinishStep, Clicked, WorldTypeOK, RunnerTypeOK
  <2> QED
    BY <2>1, <2>2
<1>8. CASE Throw
  BY <1>8, SettleType, FaultType DEF Throw
<1>9. CASE Crash
  <2>1. OrchestratorTypeOK'
    BY <1>0, <1>9, OrchestratorType, EmptySeq DEF Crash
  <2>2. crashes + 1 \in Nat /\ <<>> \in Seq(Nat)
    BY EmptySeq DEF WorldTypeOK
  <2>3. RunnerTypeOK(NoTask, Tasks)'
    BY <1>9, <2>2 DEF Crash, RunnerTypeOK, NoRun
  <2>4. WorldTypeOK'
    BY <1>9, <2>2 DEF Crash, WorldTypeOK
  <2> QED
    BY <2>1, <2>3, <2>4
<1>10. CASE UNCHANGED vars
  BY <1>10 DEF vars, orchestratorVars, runnerVars, worldVars, leaseVars, memoryVars,
     diskVars, OrchestratorTypeOK, LeaseTypeOK, RunnerTypeOK, WorldTypeOK
<1> QED
  BY <1>1, <1>2, <1>3, <1>4, <1>5, <1>6, <1>7, <1>8, <1>9, <1>10 DEF Next, Execution

(* The Desktop starts well typed.                                          *)
LEMMA TypeInit == Init => TypeOK
<1> SUFFICES ASSUME Init PROVE TypeOK
  OBVIOUS
<1>1. <<>> \in Seq(Op) /\ <<>> \in Seq(Nat)
  BY EmptySeq
<1>2. OrchestratorTypeOK
  BY <1>1 DEF Init, OrchestratorInit, OrchestratorTypeOK, LeaseInit, LeaseTypeOK, JobPcs,
     NoJob, TaskStates
<1>3. RunnerTypeOK(NoTask, Tasks) /\ WorldTypeOK
  BY <1>1 DEF Init, RunnerInit, RunnerTypeOK, NoRun, WorldTypeOK
<1> QED
  BY <1>2, <1>3 DEF TypeOK

(* Every variable keeps its type, for every set of tasks and commands,     *)
(* every program and all bounds.                                           *)
THEOREM TypeCorrect == Spec => []TypeOK
<1>1. Init => TypeOK
  BY TypeInit
<1>2. TypeOK /\ [Next]_vars => TypeOK'
  BY TypeStep
<1> QED
  BY <1>1, <1>2, PTL DEF Spec

-----------------------------------------------------------------------------
(* The queue, by its indices.                                              *)

(* What the executor's state says about an operation of the queue stays    *)
(* true while the run stays the same run, in or out of its emitEvent.      *)
SameRun ==
  /\ run'.gen = run.gen /\ run'.handlers = run.handlers
  /\ (run'.pc = "emit") <=> (run.pc = "emit")
  /\ (run'.pc = "none") <=> (run.pc = "none")

LEMMA FitsSame ==
  ASSUME TypeOK, SameRun, epoch' \in Nat, epoch <= epoch'
  PROVE  \A op \in Op : Fits(op) => Fits(op)'
<1>1. epoch \in Nat /\ \A op \in Op : op.gen \in Nat
  BY OpShape DEF TypeOK, OrchestratorTypeOK, LeaseTypeOK
<1> QED
  BY <1>1 DEF SameRun, Fits

(* Serving an operation, or none, in a step after which the others fit.    *)
LEMMA QueueServed ==
  ASSUME TypeOK, QueueInv,
         \A op \in Op : Fits(op) => Fits(op)',
         \/ commandQueue' = commandQueue
         \/ commandQueue # <<>> /\ commandQueue' = Tail(commandQueue)
  PROVE  QueueInv'
<1>1. commandQueue \in Seq(Op) /\ \A i \in 1..Len(commandQueue) : commandQueue[i] \in Op
  BY ElementOfSeq DEF TypeOK, OrchestratorTypeOK
<1>2. CASE commandQueue' = commandQueue
  BY <1>1, <1>2 DEF QueueInv
<1>3. CASE commandQueue # <<>> /\ commandQueue' = Tail(commandQueue)
  <2> DEFINE q == Tail(commandQueue)
  <2>1. \A i \in 1..Len(q) : /\ i + 1 \in 1..Len(commandQueue)
                             /\ q[i] = commandQueue[i + 1]
    BY <1>1, <1>3, QueueTail
  <2>2. Len(q) \in Nat
    BY <1>1, <1>3, HeadTailProperties, LenProperties
  <2> HIDE DEF q
  <2>3. \A i \in 1..Len(q) : q[i] \in Op /\ Fits(q[i])
    BY <1>1, <2>1 DEF QueueInv
  <2>4. \A i, j \in 1..Len(q) : q[i].kind = "event" /\ q[j].kind = "event" => i = j
    BY <1>1, <2>1, <2>2 DEF QueueInv
  <2>5. commandQueue' = q
    BY <1>3 DEF q
  <2>6. \A i \in 1..Len(commandQueue') : Fits(commandQueue[i])'
    BY <2>3, <2>5
  <2> QED
    BY <2>4, <2>5, <2>6 DEF QueueInv
<1> QED
  BY <1>2, <1>3

(* Operations join a queue whose own still fit; there is one event at most. *)
LEMMA QueueGrown ==
  ASSUME TypeOK, QueueInv, NEW ops \in Seq(Op), commandQueue' = commandQueue \o ops,
         \A op \in Op : Fits(op) => Fits(op)',
         \A i \in 1..Len(ops) : \A op \in Op : op = ops[i] => Fits(op)',
         \/ \A i \in 1..Len(ops) : ops[i].kind # "event"
         \/ /\ Len(ops) = 1
            /\ \A i \in 1..Len(commandQueue) : commandQueue[i].kind # "event"
  PROVE  QueueInv'
<1> DEFINE q == commandQueue \o ops
<1>1. commandQueue \in Seq(Op) /\ \A i \in 1..Len(commandQueue) : commandQueue[i] \in Op
  BY ElementOfSeq DEF TypeOK, OrchestratorTypeOK
<1>2. \A i \in 1..Len(q) :
        \/ i \in 1..Len(commandQueue) /\ q[i] = commandQueue[i]
        \/ i - Len(commandQueue) \in 1..Len(ops) /\ q[i] = ops[i - Len(commandQueue)]
  BY <1>1, QueueJoin
<1> HIDE DEF q
<1>3. \A i \in 1..Len(commandQueue) : \A op \in Op : op = commandQueue[i] => Fits(op)'
  BY <1>1 DEF QueueInv
<1>4. commandQueue' = q
  BY DEF q
<1>5. \A i \in 1..Len(commandQueue') : Fits(commandQueue[i])'
  <2>1. \A i \in 1..Len(ops) : ops[i] \in Op
    BY ElementOfSeq
  <2> QED
    BY <1>1, <1>2, <1>3, <1>4, <2>1
<1>6. \A i, j \in 1..Len(q) : q[i].kind = "event" /\ q[j].kind = "event" => i = j
  <2>1. Len(commandQueue) \in Nat /\ Len(q) \in Nat
    BY <1>1, ConcatProperties, LenProperties DEF q
  <2>2. CASE \A i \in 1..Len(ops) : ops[i].kind # "event"
    BY <1>2, <2>2 DEF QueueInv
  <2>3. CASE /\ Len(ops) = 1
             /\ \A i \in 1..Len(commandQueue) : commandQueue[i].kind # "event"
    BY <1>2, <2>1, <2>3
  <2> QED
    BY <2>2, <2>3
<1> QED
  BY <1>4, <1>5, <1>6 DEF QueueInv

-----------------------------------------------------------------------------
(* The inductive invariant, action by action.                              *)

(* The invariant but for the types and the queue.                          *)
Core ==
  /\ LeaseIsActives
  /\ ServingInv
  /\ FlagsInv
  /\ RunInv
  /\ GenInv
  /\ ApprovalIsRecorded

(* The types the arithmetic of the invariant needs.                        *)
LEMMA Numbers ==
  ASSUME TypeOK
  PROVE  /\ epoch \in Nat /\ active.gen \in Nat /\ run.gen \in Nat
         /\ \A i \in 1..Len(run.handlers) : run.handlers[i] \in Nat
         /\ active.gen = 0 => active = NoActive
         /\ active.gen # 0 => active.task \in Tasks
         /\ lease.epoch = 0 => lease = NoLease
  BY ElementOfSeq
  DEF TypeOK, OrchestratorTypeOK, LeaseTypeOK, RunnerTypeOK, ActiveTask, NoActive, Lease,
      NoLease

(* Steps of the orchestrator in which the run takes no part.               *)
LEMMA CommandStep ==
  ASSUME IInv, TypeOK', Command \/ FailedCommand, UNCHANGED runnerVars,
         reported' = reported
  PROVE  Core'
<1> USE Numbers DEF IInv, Core, LeaseIsActives, ServingInv, FlagsInv, RunInv, GenInv,
      ApprovalIsRecorded, LiveRunHoldsLease, Held, Acting, runnerVars, Throws, leaseVars,
      diskVars, NoLease, NoJob
<1>1. CASE RepeatReply \/ Begin \/ Expire \/ Reply
  BY <1>1 DEF RepeatReply, Begin, Expire, Reply
<1>2. CASE StartRefused \/ StartInadmissible \/ StartNavigates \/ StartFails
  <2>1. /\ job'.pc \in {"goto", "reject"} /\ (job'.pc = "goto" => active.gen = 0)
        /\ UNCHANGED <<lease, epoch, active, frames, checkpoints>>
    BY <1>2, JobAt DEF TypeOK, StartRefused, StartInadmissible, StartNavigates, StartFails
  <2> QED
    BY <2>1
<1>3. CASE ControlRefused \/ TakeoverRefused \/ ResumeRefused \/ CancelProbeFails
  <2>1. job'.pc = "reject" /\ UNCHANGED <<lease, epoch, active, frames, checkpoints>>
    BY <1>3, JobAt DEF TypeOK, ControlRefused, TakeoverRefused, ResumeRefused, CancelProbeFails
  <2> QED
    BY <2>1
<1>4. CASE PauseProbeFails
  BY <1>4 DEF PauseProbeFails
<1>5. CASE PauseCompletes /\ idle
  BY <1>5 DEF PauseCompletes, SaveCheckpoint
<1>6. CASE (TakeoverCompletes \/ TakeoverHalfDone) /\ idle
  <2>1. /\ Held /\ active.gen # 0 /\ active \in ActiveTask
        /\ Addressed /\ paused /\ idle
    BY <1>6 DEF TakeoverCompletes, TakeoverHalfDone, TransferToHuman, CanTransfer, TypeOK,
       OrchestratorTypeOK, NoActive
  <2>2. /\ epoch' = epoch + 1
        /\ lease' = [task |-> lease.task, holder |-> "human", epoch |-> epoch + 1]
    BY <1>6 DEF TakeoverCompletes, TakeoverHalfDone, TransferToHuman, Grant, CreateLease
  <2>3. /\ active'.gen = active.gen /\ active'.task = active.task /\ active'.lease = lease'
        /\ job'.pc \in {"accept", "reject"} /\ frames' = frames
    BY <1>6, <2>1 DEF TakeoverCompletes, TakeoverHalfDone, ActiveTask, TypeOK,
       OrchestratorTypeOK
  <2>4. LeaseIsActives'
    BY <2>1, <2>2, <2>3
  <2>5. ServingInv' /\ FlagsInv'
    BY <1>6, <2>1, <2>2, <2>3
  <2>6. RunInv' /\ GenInv'
    BY <1>6, <2>1, <2>2, <2>3
  <2>7. ApprovalIsRecorded'
    BY <2>1
  <2> QED
    BY <2>4, <2>5, <2>6, <2>7
<1>7. CASE CancelCompletes
  BY <1>7 DEF CancelCompletes, SaveCheckpoint, NoActive
<1> QED
  BY <1>1, <1>2, <1>3, <1>4, <1>5, <1>6, <1>7 DEF Command, FailedCommand

(* A pause or a takeover raises the flag and waits; a cancellation raises  *)
(* its own, gives up the lease and wakes the run.                          *)
LEMMA SuspendStep ==
  ASSUME IInv, TypeOK', (PauseBegins /\ Pause) \/ (CancelBegins /\ Cancel),
         reported' = reported
  PROVE  Core'
<1> USE Numbers DEF IInv, Core, LeaseIsActives, ServingInv, FlagsInv, RunInv, GenInv,
      ApprovalIsRecorded, LiveRunHoldsLease, Held, Acting, leaseVars, diskVars, NoLease
<1>1. CASE PauseBegins /\ Pause
  <2>1. job'.pc = "pausing" /\ job'.cmd = job.cmd /\ Addressed /\ paused'
    BY <1>1, JobAt DEF TypeOK, PauseBegins, Pause
  <2>2. UNCHANGED <<lease, epoch, active, frames, checkpoints, run, cancelled, idle>>
    BY <1>1 DEF PauseBegins, Pause
  <2> QED
    BY <2>1, <2>2
<1>2. CASE CancelBegins /\ Cancel
  <2>1. /\ job'.pc = "cancelling" /\ job'.cmd = job.cmd /\ Addressed /\ cancelled'
        /\ UNCHANGED <<epoch, active, checkpoints, idle>> /\ frames' = NoTask
    BY <1>2, JobAt DEF TypeOK, CancelBegins, Cancel, Release
  <2>2. lease' = NoLease
    BY <1>2 DEF CancelBegins, Release
  <2>3. /\ run'.gen = run.gen /\ run'.task = run.task /\ run'.handlers = run.handlers
        /\ run'.pc = CASE run.pc = "parked"   -> "before"
                       [] run.pc = "approval" -> "denied"
                       [] OTHER               -> run.pc
    BY <1>2 DEF Cancel, TypeOK, RunnerTypeOK
  <2> QED
    BY <2>1, <2>2, <2>3
<1> QED
  BY <1>1, <1>2

(* startTask creates the lease, the active task and the run together.      *)
LEMMA StartStep ==
  ASSUME IInv, TypeOK', StartTask, reported' = reported
  PROVE  Core'
<1> USE Numbers DEF IInv, Core, LeaseIsActives, ServingInv, FlagsInv, RunInv, GenInv,
      ApprovalIsRecorded, LiveRunHoldsLease, Held, Acting, NoLease
<1> DEFINE t == CommandTask[job.cmd]
<1>1. /\ job.pc = "goto" /\ active.gen = 0 /\ ~Held /\ t \in Tasks
  BY CommandsAssumption DEF StartTask, StartLaunches, Acquire, CanAcquire, TypeOK,
     OrchestratorTypeOK
<1>2. /\ lease' = [task |-> t, holder |-> Kind, epoch |-> epoch + 1]
      /\ epoch' = epoch + 1
      /\ active' = [gen |-> epoch + 1, task |-> t, lease |-> lease', awaiting |-> FALSE]
      /\ frames' = t
      /\ job'.pc = "accept"
      /\ checkpoints' = [checkpoints EXCEPT ![t] = "RUNNING"]
  BY JobAt DEF TypeOK, StartTask, StartLaunches, Acquire, Grant, CreateLease, SaveCheckpoint
<1>3. lease' # NoLease /\ lease'.holder # "human"
  BY <1>1, <1>2 DEF Kind
<1>4. run.pc # "approval" /\ run.pc # "parked" /\ (run.pc # "none" => cancelled)
  BY <1>1
<1>5. CASE ExecuteFresh(epoch + 1, t)
  <2>1. /\ run'.pc = (IF paused THEN "parked" ELSE "step") /\ run'.gen = epoch + 1
        /\ run'.task = t /\ run'.handlers = <<epoch + 1>>
        /\ idle' = paused /\ cancelled' = FALSE /\ paused' = paused
    BY <1>5 DEF ExecuteFresh
  <2>2. \A i \in 1..Len(run'.handlers) : run'.handlers[i] <= epoch'
    BY <1>2, <2>1
  <2>3. paused \in BOOLEAN
    BY DEF TypeOK, RunnerTypeOK
  <2> QED
    BY <1>1, <1>2, <1>3, <2>1, <2>2, <2>3
<1>6. CASE ExecuteUnparsable \/ ExecuteBusy
  <2>1. /\ run' = run /\ idle' = idle /\ paused' = paused
        /\ cancelled' = cancelled \/ run.pc = "none"
    BY <1>6 DEF ExecuteUnparsable, ExecuteBusy, runnerVars
  <2>2. \A i \in 1..Len(run.handlers) : run.handlers[i] <= epoch'
    BY <1>2
  <2> QED
    BY <1>1, <1>2, <1>3, <1>4, <2>1, <2>2
<1> QED
  BY <1>5, <1>6 DEF StartTask

(* RESUME_AFTER_HUMAN gives the lease back and enters the parked step.     *)
LEMMA ResumeStep ==
  ASSUME IInv, TypeOK', ResumeTask, reported' = reported
  PROVE  Core'
<1> USE Numbers DEF IInv, Core, LeaseIsActives, ServingInv, FlagsInv, RunInv, GenInv,
      ApprovalIsRecorded, LiveRunHoldsLease, Held, Acting, NoLease
<1>1. /\ job.pc = "begin" /\ active.gen # 0 /\ Held /\ lease.holder = "human"
      /\ ~Acting /\ idle /\ paused
  BY DEF ResumeTask, ResumeSucceeds, ResumeAfterHuman, CanResumeAfterHuman
<1>2. /\ lease' = [task |-> lease.task, holder |-> Kind, epoch |-> epoch + 1]
      /\ epoch' = epoch + 1
      /\ active'.gen = active.gen /\ active'.task = active.task /\ active'.lease = lease'
      /\ frames' = active.task
      /\ job'.pc = "accept"
  <2>1. active \in ActiveTask
    BY <1>1 DEF TypeOK, OrchestratorTypeOK, NoActive
  <2>2. active' = [active EXCEPT !.lease = lease', !.awaiting = FALSE]
    BY DEF ResumeTask, ResumeSucceeds
  <2>3. /\ active'.gen = active.gen /\ active'.task = active.task
        /\ active'.lease = lease'
    BY <2>1, <2>2 DEF ActiveTask
  <2> QED
    BY <2>3, JobAt DEF TypeOK, ResumeTask, ResumeSucceeds, ResumeAfterHuman, Grant,
       CreateLease
<1>3. lease' # NoLease /\ lease'.holder # "human"
  BY <1>1, <1>2 DEF Kind
<1>4. CASE ExecuteResume(active.gen)
  <2>1. /\ run'.pc = (IF run.pc = "parked" THEN "step" ELSE run.pc) /\ run.pc # "none"
        /\ run'.gen = run.gen /\ run'.task = run.task
        /\ run'.handlers = Append(run.handlers, active.gen)
        /\ idle' = (run.pc # "parked") /\ cancelled' = cancelled
    BY <1>1, <1>4 DEF ExecuteResume, TypeOK, RunnerTypeOK
  <2>2. \A i \in 1..Len(run'.handlers) : run'.handlers[i] <= epoch'
    <3>1. run.handlers \in Seq(Nat) /\ Len(run.handlers) \in Nat
      BY LenProperties DEF TypeOK, RunnerTypeOK
    <3>2. /\ Len(run'.handlers) = Len(run.handlers) + 1
          /\ \A i \in 1..Len(run.handlers) : run'.handlers[i] = run.handlers[i]
          /\ run'.handlers[Len(run.handlers) + 1] = active.gen
      BY <2>1, <3>1, AppendProperties
    <3>3. \A i \in 1..Len(run'.handlers) :
            i \in 1..Len(run.handlers) \/ i = Len(run.handlers) + 1
      BY <3>1, <3>2
    <3>4. \A i \in 1..Len(run.handlers) : run.handlers[i] <= epoch + 1
      OBVIOUS
    <3>5. active.gen <= epoch + 1
      OBVIOUS
    <3> QED
      BY <1>2, <3>2, <3>3, <3>4, <3>5
  <2>3. LeaseIsActives' /\ ServingInv'
    BY <1>1, <1>2, <1>3
  <2>4. FlagsInv' /\ ApprovalIsRecorded'
    BY <1>1, <1>2, <1>3, <2>1
  <2>5. RunInv' /\ GenInv'
    BY <1>1, <1>2, <1>3, <2>1, <2>2
  <2> QED
    BY <2>3, <2>4, <2>5
<1>5. CASE ExecuteNothingToResume
  <2>1. run' = run /\ run.pc = "none" /\ idle' = idle
    BY <1>5 DEF ExecuteNothingToResume
  <2>2. \A i \in 1..Len(run.handlers) : run.handlers[i] <= epoch'
    BY <1>2
  <2> QED
    BY <1>1, <1>2, <1>3, <2>1, <2>2
<1> QED
  BY <1>4, <1>5 DEF ResumeTask

(* A decision on a submission.                                             *)
LEMMA DecideStep ==
  ASSUME IInv, TypeOK', Decide, reported' = reported
  PROVE  Core'
<1> USE Numbers DEF IInv, Core, LeaseIsActives, ServingInv, FlagsInv, RunInv, GenInv,
      ApprovalIsRecorded, LiveRunHoldsLease, Held, Acting, NoLease, leaseVars, diskVars
<1>1. /\ job.pc = "begin" /\ job'.pc \in {"accept", "reject"}
      /\ UNCHANGED <<lease, epoch, active, frames, checkpoints, paused, cancelled, idle>>
  BY JobAt DEF TypeOK, Decide, DecisionTaken, DecisionRefused, Resolve, Throws, runnerVars
<1>2. /\ run'.gen = run.gen /\ run'.task = run.task /\ run'.handlers = run.handlers
      /\ run'.pc = run.pc \/ (run.pc = "approval" /\ run'.pc \in {"click", "denied"})
      /\ run'.sub = run.sub
  <2>1. CASE UNCHANGED runnerVars
    BY <2>1 DEF runnerVars
  <2>2. ASSUME NEW sub, NEW approved, Resolve(sub, approved)
        PROVE  /\ run.pc = "approval"
               /\ \E pc \in {"click", "denied"} : run' = [run EXCEPT !.pc = pc]
    BY <2>2 DEF Resolve, Waiting
  <2>3. CASE Resolve(CommandSub[job.cmd], CommandType[job.cmd] = "APPROVE_SUBMIT")
    BY <2>2, <2>3 DEF TypeOK, RunnerTypeOK
  <2> QED
    BY <2>1, <2>3 DEF Decide
<1> QED
  BY <1>1, <1>2

(* The outcome of an execution.  By QueueInv the run that is still there,  *)
(* if any, is not the one whose outcome it is.                             *)
LEMMA OutcomeStep ==
  ASSUME IInv, TypeOK', OutcomeIgnored \/ OutcomeRecorded \/ OutcomeProbeFails,
         UNCHANGED runnerVars, reported' = reported
  PROVE  Core'
<1> USE Numbers DEF IInv, Core, LeaseIsActives, ServingInv, FlagsInv, RunInv, GenInv,
      ApprovalIsRecorded, LiveRunHoldsLease, Held, Acting, NoLease, leaseVars, diskVars,
      runnerVars
<1>1. CASE OutcomeIgnored
  BY <1>1 DEF OutcomeIgnored
<1>2. CASE OutcomeRecorded \/ OutcomeProbeFails
  <2>1. Head(commandQueue).gen = active.gen /\ Fits(Head(commandQueue))
    BY <1>2, QueueTail DEF OutcomeRecorded, OutcomeProbeFails, QueueInv, TypeOK,
       OrchestratorTypeOK
  <2>2. run.pc = "none" \/ run.gen # active.gen
    BY <1>2, <2>1 DEF OutcomeRecorded, OutcomeProbeFails, Fits
  <2>3. run.pc # "none" => cancelled
    BY <2>2
  <2>4. lease' = NoLease /\ frames' = NoTask /\ UNCHANGED epoch
    BY <1>2 DEF OutcomeRecorded, OutcomeProbeFails, Release
  <2>5. active' = NoActive \/ active' = active
    BY <1>2 DEF OutcomeRecorded, OutcomeProbeFails
  <2>6. job' = job /\ job.pc = "free"
    BY <1>2 DEF OutcomeRecorded, OutcomeProbeFails
  <2>7. run.pc # "approval"
    BY <2>2
  <2> QED
    BY <2>2, <2>3, <2>4, <2>5, <2>6, <2>7 DEF NoActive
<1> QED
  BY <1>1, <1>2

(* The event that announces a submission: by QueueInv it is the one the    *)
(* run waits for.                                                          *)
LEMMA EventStep ==
  ASSUME IInv, TypeOK', ServeEvent
  PROVE  Core'
<1> USE Numbers DEF IInv, Core, LeaseIsActives, ServingInv, FlagsInv, RunInv, GenInv,
      ApprovalIsRecorded, LiveRunHoldsLease, Held, Acting, NoLease, leaseVars, diskVars
<1>1. /\ job' = job /\ job.pc = "free"
      /\ UNCHANGED <<lease, epoch, active, frames, paused, cancelled, idle>>
  BY DEF ServeEvent, EventServed, EventThrows, Announced
<1>2. /\ run.pc = "emit" /\ Head(commandQueue).gen = run.gen
      /\ Head(commandQueue).state = "WAITING_APPROVAL_SUBMIT"
  BY QueueTail DEF ServeEvent, EventServed, EventThrows, QueueInv, Fits, TypeOK,
     OrchestratorTypeOK
<1>3. CASE EventServed /\ Announced /\ reported' = reported \cup {run.sub}
  <2>1. /\ run'.gen = run.gen /\ run'.task = run.task /\ run'.handlers = run.handlers
        /\ run'.pc = "approval" /\ run'.sub = run.sub
    BY <1>3 DEF Announced, TypeOK, RunnerTypeOK
  <2>2. active.gen = run.gen /\ active.task = run.task /\ run.task \in Tasks
    BY <1>2, <1>3 DEF EventServed
  <2>3. checkpoints'[run.task] = "WAITING_APPROVAL_SUBMIT"
    BY <1>2, <1>3, <2>2 DEF EventServed, SaveCheckpoint, TypeOK, OrchestratorTypeOK
  <2> QED
    BY <1>1, <1>2, <1>3, <2>1, <2>2, <2>3
<1>4. CASE EventThrows /\ run' = [run EXCEPT !.pc = "denied"]
  <2>1. /\ run'.gen = run.gen /\ run'.task = run.task /\ run'.handlers = run.handlers
        /\ run'.pc = "denied"
    BY <1>4 DEF TypeOK, RunnerTypeOK
  <2> QED
    BY <1>1, <1>2, <2>1
<1> QED
  BY <1>3, <1>4 DEF ServeEvent

(* The steps of the run itself.                                            *)
LEMMA ExecutionStep ==
  ASSUME IInv, TypeOK', Execution
  PROVE  Core'
<1> USE Numbers DEF IInv, Core, LeaseIsActives, ServingInv, FlagsInv, RunInv, GenInv,
      ApprovalIsRecorded, LiveRunHoldsLease, Held, Acting, NoLease, leaseVars, diskVars,
      memoryVars, orchestratorVars
<1>1. UNCHANGED <<lease, epoch, job, active, frames, checkpoints, paused, cancelled>>
  BY DEF Execution, EnterStep, Announce, FinishStep, Throw, Settle, Enqueue, BeforeStep,
     RequestApproval, StepReturns, RunEnds
<1>2. CASE EnterStep
  <2>1. /\ run'.gen = run.gen /\ run'.task = run.task /\ run'.handlers = run.handlers
        /\ run'.pc = (IF paused THEN "parked" ELSE "step")
        /\ run.pc = "before" /\ ~cancelled /\ idle' = paused
    BY <1>2 DEF EnterStep, BeforeStep, TypeOK, RunnerTypeOK
  <2>2. paused \in BOOLEAN
    BY DEF TypeOK, RunnerTypeOK
  <2> QED
    BY <1>1, <2>1, <2>2
<1>3. CASE Announce
  <2>1. /\ run'.gen = run.gen /\ run'.task = run.task /\ run'.handlers = run.handlers
        /\ run'.pc = "emit" /\ run.pc = "step" /\ idle' = idle
    BY <1>3 DEF Announce, RequestApproval, TypeOK, RunnerTypeOK
  <2> QED
    BY <1>1, <2>1
<1>4. CASE StepCanReturn /\ StepReturns
  <2>1. /\ run'.gen = run.gen /\ run'.task = run.task /\ run'.handlers = run.handlers
        /\ run'.pc = "before" /\ run.pc # "none" /\ idle'
    BY <1>4 DEF StepCanReturn, StepReturns, TypeOK, RunnerTypeOK
  <2> QED
    BY <1>1, <2>1
<1>5. CASE RunEnds(NoTask)
  <2>1. run' = NoRun(NoTask) /\ idle'
    BY <1>5 DEF RunEnds
  <2>2. Len(run'.handlers) = 0 /\ run'.gen = 0 /\ run'.pc = "none"
    BY <2>1, EmptySeq DEF NoRun
  <2>3. FlagsInv'
    BY <1>1, <2>1, <2>2
  <2>4. GenInv'
    BY <1>1, <2>2
  <2> QED
    BY <1>1, <2>2, <2>3, <2>4
<1> QED
  BY <1>2, <1>3, <1>4, <1>5 DEF Execution, FinishStep, Throw, Settle

(* After a crash nothing is left to be inconsistent.                       *)
LEMMA CrashStep ==
  ASSUME TypeOK', Crash
  PROVE  Core' /\ QueueInv'
<1>1. /\ lease' = NoLease /\ epoch' = 0 /\ commandQueue' = <<>> /\ job' = NoJob
      /\ active' = NoActive /\ frames' = NoTask /\ run' = NoRun(NoTask) /\ idle'
  BY DEF Crash, Restart
<1>2. Len(commandQueue') = 0
  BY <1>1, EmptySeq
<1>3. run'.pc = "none" /\ run'.gen = 0 /\ Len(run'.handlers) = 0
  BY <1>1, EmptySeq DEF NoRun
<1>4. QueueInv'
  BY <1>2 DEF QueueInv
<1>5. Core'
  BY <1>1, <1>3 DEF Core, LeaseIsActives, ServingInv, FlagsInv, RunInv, GenInv,
     ApprovalIsRecorded, LiveRunHoldsLease, Held, Acting, NoLease, NoJob, NoActive
<1> QED
  BY <1>4, <1>5

-----------------------------------------------------------------------------
(* The queue, action by action.                                            *)

(* Steps that serve an operation, or none, and keep the run.               *)
LEMMA QueueOfCommands ==
  ASSUME IInv, TypeOK',
         \/ (Command \/ FailedCommand) /\ UNCHANGED runnerVars
         \/ PauseBegins /\ Pause
         \/ CancelBegins /\ Cancel
         \/ Decide
         \/ (OutcomeIgnored \/ OutcomeRecorded \/ OutcomeProbeFails)
              /\ UNCHANGED runnerVars
  PROVE  QueueInv'
<1>1. SameRun
  <2>1. CASE UNCHANGED runnerVars
    BY <2>1 DEF runnerVars, SameRun
  <2>2. CASE Pause
    BY <2>2 DEF Pause, SameRun
  <2>3. CASE Cancel
    BY <2>3 DEF Cancel, SameRun, IInv, TypeOK, RunnerTypeOK
  <2>4. ASSUME NEW sub, NEW approved, Resolve(sub, approved)
        PROVE  SameRun
    <3>1. run.pc = "approval" /\ \E pc \in {"click", "denied"} : run' = [run EXCEPT !.pc = pc]
      BY <2>4 DEF Resolve, Waiting
    <3> QED
      BY <3>1 DEF SameRun, IInv, TypeOK, RunnerTypeOK
  <2> QED
    BY <2>1, <2>2, <2>3, <2>4 DEF Decide
<1>2. epoch' = epoch \/ epoch' = epoch + 1
  BY DEF Command, FailedCommand, RepeatReply, Begin, Expire, Reply, StartRefused,
     StartInadmissible, StartNavigates, StartFails, ControlRefused, PauseBegins,
     PauseCompletes, PauseProbeFails, TakeoverCompletes, TakeoverRefused, TakeoverHalfDone,
     TransferToHuman, Grant, ResumeRefused, CancelBegins, Release, CancelCompletes,
     CancelProbeFails, Decide, DecisionTaken, DecisionRefused, OutcomeIgnored,
     OutcomeRecorded, OutcomeProbeFails, Throws, leaseVars
<1>3. \/ commandQueue' = commandQueue
      \/ commandQueue # <<>> /\ commandQueue' = Tail(commandQueue)
  BY DEF Command, FailedCommand, RepeatReply, Begin, Expire, Reply, StartRefused,
     StartInadmissible, StartNavigates, StartFails, ControlRefused, PauseBegins,
     PauseCompletes, PauseProbeFails, TakeoverCompletes, TakeoverRefused, TakeoverHalfDone,
     ResumeRefused, CancelBegins, CancelCompletes, CancelProbeFails, Decide, DecisionTaken,
     DecisionRefused, OutcomeIgnored, OutcomeRecorded, OutcomeProbeFails, Throws
<1>4. \A op \in Op : Fits(op) => Fits(op)'
  BY <1>1, <1>2, Numbers, FitsSame DEF IInv
<1> QED
  BY <1>3, <1>4, QueueServed DEF IInv

(* Starting and resuming append at most the outcome of a refused execution.*)
LEMMA QueueOfLaunches ==
  ASSUME IInv, TypeOK', StartTask \/ ResumeTask
  PROVE  QueueInv'
<1>0. /\ TypeOK /\ QueueInv /\ epoch \in Nat /\ run.gen \in Nat /\ active.gen \in Nat
      /\ run.gen <= epoch /\ active.gen <= epoch
      /\ epoch' = epoch + 1
  BY Numbers DEF IInv, GenInv, StartTask, StartLaunches, Acquire, Grant, ResumeTask,
     ResumeSucceeds, ResumeAfterHuman
<1>1. \A op \in Op : Fits(op) => Fits(op)'
  <2>1. \A op \in Op : op.gen \in Nat
    BY OpShape
  <2>2. CASE ExecuteFresh(epoch + 1, CommandTask[job.cmd])
    <3>1. run.pc = "none" /\ run'.gen = epoch + 1
      BY <2>2 DEF ExecuteFresh
    <3> QED
      BY <1>0, <2>1, <3>1 DEF Fits
  <2>3. CASE run' = run
    BY <1>0, <2>1, <2>3 DEF Fits
  <2>4. CASE ExecuteResume(active.gen)
    <3>1. /\ run.pc # "none" /\ run'.pc # "none" /\ run'.gen = run.gen
          /\ (run'.pc = "emit") <=> (run.pc = "emit")
      BY <1>0, <2>4 DEF ExecuteResume, TypeOK, RunnerTypeOK
    <3> QED
      BY <1>0, <2>1, <3>1 DEF Fits
  <2> QED
    BY <2>2, <2>3, <2>4 DEF StartTask, ResumeTask, ExecuteUnparsable, ExecuteBusy,
       ExecuteNothingToResume, runnerVars
<1>2. \/ commandQueue' = commandQueue \o <<>>
      \/ \E g \in Nat : /\ commandQueue' = commandQueue \o <<OutcomeOp(g, "failed")>>
                       /\ g <= epoch'
                       /\ (run'.pc = "none" \/ g # run'.gen)
  <2>1. CASE StartTask
    <3>1. CASE StartLaunches(Kind, <<>>)
      BY <3>1 DEF StartLaunches
    <3>2. CASE /\ StartLaunches(Kind, <<OutcomeOp(epoch + 1, "failed")>>)
               /\ ExecuteUnparsable \/ ExecuteBusy
      <4>1. run' = run
        BY <3>2 DEF ExecuteUnparsable, ExecuteBusy, runnerVars
      <4>2. commandQueue' = commandQueue \o <<OutcomeOp(epoch + 1, "failed")>>
        BY <3>2 DEF StartLaunches
      <4>3. epoch + 1 \in Nat /\ epoch + 1 <= epoch'
        BY <1>0
      <4>4. run'.pc = "none" \/ epoch + 1 # run'.gen
        BY <1>0, <4>1
      <4> QED
        BY <4>2, <4>3, <4>4
    <3> QED
      BY <2>1, <3>1, <3>2 DEF StartTask
  <2>2. CASE ResumeTask
    <3>1. CASE ResumeSucceeds(Kind, <<>>)
      BY <3>1 DEF ResumeSucceeds
    <3>2. CASE /\ ResumeSucceeds(Kind, <<OutcomeOp(active.gen, "failed")>>)
               /\ ExecuteNothingToResume
      <4>1. run'.pc = "none"
        BY <3>2 DEF ExecuteNothingToResume
      <4>2. commandQueue' = commandQueue \o <<OutcomeOp(active.gen, "failed")>>
        BY <3>2 DEF ResumeSucceeds
      <4>3. active.gen \in Nat /\ active.gen <= epoch'
        BY <1>0
      <4> QED
        BY <4>1, <4>2, <4>3
    <3> QED
      BY <2>2, <3>1, <3>2 DEF ResumeTask
  <2> QED
    BY <2>1, <2>2
<1>3. CASE commandQueue' = commandQueue \o <<>>
  <2>1. commandQueue' = commandQueue
    BY <1>0, <1>3, ConcatEmptySeq DEF TypeOK, OrchestratorTypeOK
  <2> QED
    BY <1>0, <1>1, <2>1, QueueServed
<1>4. ASSUME NEW g \in Nat, commandQueue' = commandQueue \o <<OutcomeOp(g, "failed")>>,
             g <= epoch', (run'.pc = "none" \/ g # run'.gen)
      PROVE  QueueInv'
  <2> DEFINE ops == <<OutcomeOp(g, "failed")>>
  <2>1. ops \in Seq(Op) /\ Len(ops) = 1 /\ ops[1] = OutcomeOp(g, "failed")
    BY OpsBuilt
  <2>2. \A i \in 1..Len(ops) : ops[i] = OutcomeOp(g, "failed")
    BY <2>1
  <2> HIDE DEF ops
  <2>3. \A i \in 1..Len(ops) :
          ops[i].kind # "event" /\ \A op \in Op : op = ops[i] => Fits(op)'
    BY <1>4, <2>2 DEF Fits, OutcomeOp
  <2> QED
    BY <1>0, <1>1, <1>4, <2>1, <2>3, QueueGrown DEF ops
<1> QED
  <2>1. CASE \E g \in Nat : /\ commandQueue' = commandQueue \o <<OutcomeOp(g, "failed")>>
                           /\ g <= epoch'
                           /\ (run'.pc = "none" \/ g # run'.gen)
    BY <2>1, <1>4
  <2> QED
    BY <1>2, <1>3, <2>1

(* Serving the event takes the only one, so none is left for a run that    *)
(* does not wait for it any more.                                          *)
LEMMA QueueOfEvents ==
  ASSUME IInv, TypeOK', ServeEvent
  PROVE  QueueInv'
<1> DEFINE q == Tail(commandQueue)
<1>1. commandQueue \in Seq(Op) /\ commandQueue # <<>> /\ commandQueue' = q
  BY DEF ServeEvent, EventServed, EventThrows, IInv, TypeOK, OrchestratorTypeOK
<1>2. /\ Head(commandQueue).kind = "event" /\ epoch' = epoch /\ run'.gen = run.gen
      /\ run'.pc # "none"
  BY DEF ServeEvent, EventServed, EventThrows, Announced, leaseVars, IInv, TypeOK,
     RunnerTypeOK
<1>3. /\ 1 \in 1..Len(commandQueue) /\ commandQueue[1] = Head(commandQueue)
      /\ \A i \in 1..Len(q) : i + 1 \in 1..Len(commandQueue) /\ q[i] = commandQueue[i + 1]
  BY <1>1, QueueTail
<1>4. run.pc = "emit"
  BY <1>2, <1>3 DEF IInv, QueueInv, Fits
<1>5. Len(q) \in Nat
  BY <1>1, HeadTailProperties, LenProperties
<1> HIDE DEF q
<1>6. \A i \in 1..Len(q) : q[i].kind # "event" /\ Fits(q[i])
  BY <1>2, <1>3, <1>5 DEF IInv, QueueInv
<1>7. \A i \in 1..Len(q) : q[i].gen <= epoch' /\ (q[i].kind = "outcome" => q[i].gen # run'.gen)
  BY <1>2, <1>4, <1>6 DEF Fits
<1>8. \A i \in 1..Len(commandQueue') : Fits(commandQueue[i])'
  BY <1>1, <1>6, <1>7 DEF Fits
<1> QED
  BY <1>1, <1>6, <1>8 DEF QueueInv

(* The run announces a submission or settles; a command arrives.           *)
LEMMA QueueOfExecution ==
  ASSUME IInv, TypeOK', Execution \/ \E c \in Commands : Deliver(c)
  PROVE  QueueInv'
<1>0. TypeOK /\ QueueInv /\ epoch \in Nat /\ commandQueue \in Seq(Op) /\ epoch' = epoch
  BY Numbers DEF IInv, TypeOK, OrchestratorTypeOK, Execution, EnterStep, Announce,
     FinishStep, Throw, Settle, Enqueue, Deliver, Handle, orchestratorVars, leaseVars
<1>1. CASE EnterStep \/ (StepCanReturn /\ StepReturns /\ UNCHANGED orchestratorVars)
  <2>1. SameRun /\ commandQueue' = commandQueue
    BY <1>1 DEF EnterStep, BeforeStep, StepCanReturn, StepReturns, SameRun, IInv, TypeOK,
       RunnerTypeOK, orchestratorVars, memoryVars
  <2>2. \A op \in Op : Fits(op) => Fits(op)'
    BY <1>0, <2>1, FitsSame
  <2> QED
    BY <1>0, <2>1, <2>2, QueueServed
<1>2. CASE Announce
  <2> DEFINE op1 == EventOp(run.gen, "WAITING_APPROVAL_SUBMIT")
             ops == <<op1>>
  <2>1. /\ run.pc = "step" /\ run'.pc = "emit" /\ run'.gen = run.gen /\ run.gen \in Nat
        /\ run.gen <= epoch /\ commandQueue' = commandQueue \o ops
    BY <1>2 DEF Announce, RequestApproval, Enqueue, IInv, TypeOK, RunnerTypeOK, GenInv
  <2>2. op1 \in Op
    BY <2>1, OpsBuilt DEF TaskStates
  <2>3. /\ op1.kind = "event" /\ op1.gen = run.gen
        /\ op1.state = "WAITING_APPROVAL_SUBMIT"
    BY DEF EventOp
  <2>4. ops \in Seq(Op) /\ Len(ops) = 1 /\ \A i \in 1..Len(ops) : ops[i] = op1
    BY <2>2
  <2> HIDE DEF op1, ops
  <2>5. \A i \in 1..Len(ops) : \A op \in Op : op = ops[i] => Fits(op)'
    BY <1>0, <2>1, <2>3, <2>4 DEF Fits
  <2>6. \A i \in 1..Len(commandQueue) : commandQueue[i].kind # "event"
    BY <2>1 DEF IInv, QueueInv, Fits
  <2>7. \A op \in Op : Fits(op) => Fits(op)'
    BY <1>0, <2>1, OpShape DEF Fits
  <2> QED
    BY <1>0, <2>1, <2>4, <2>5, <2>6, <2>7, QueueGrown
<1>3. ASSUME NEW s \in {"succeeded", "failed"}, Settle(s), StepCanReturn \/ CanThrow
      PROVE  QueueInv'
  <2> DEFINE ops == Outcomes(run.handlers, s)
  <2>1. run.pc # "emit" /\ run'.pc = "none"
    BY <1>3 DEF Settle, RunEnds, NoRun, StepCanReturn, CanThrow
  <2>2. commandQueue' = commandQueue \o ops
    BY <1>3 DEF Settle, Enqueue
  <2>3. run.handlers \in Seq(Nat) /\ \A i \in 1..Len(run.handlers) : run.handlers[i] <= epoch
    BY DEF IInv, TypeOK, RunnerTypeOK, GenInv
  <2>4. /\ ops \in Seq(Op) /\ Len(ops) = Len(run.handlers)
        /\ \A i \in 1..Len(ops) : /\ ops[i].kind = "outcome"
                                  /\ ops[i].gen = run.handlers[i]
    <3>1. /\ ops \in Seq(Op) /\ Len(ops) = Len(run.handlers)
          /\ \A i \in 1..Len(run.handlers) : ops[i] = OutcomeOp(run.handlers[i], s)
      BY <2>3, OutcomesType
    <3> HIDE DEF ops
    <3>2. \A g : OutcomeOp(g, s).kind = "outcome" /\ OutcomeOp(g, s).gen = g
      BY DEF OutcomeOp
    <3> QED
      BY <3>1, <3>2
  <2> HIDE DEF ops
  <2>5. \A i \in 1..Len(ops) :
          ops[i].kind # "event" /\ \A op \in Op : op = ops[i] => Fits(op)'
    BY <1>0, <2>1, <2>3, <2>4 DEF Fits
  <2>6. \A op \in Op : Fits(op) => Fits(op)'
    BY <1>0, <2>1 DEF Fits
  <2> QED
    BY <1>0, <2>2, <2>4, <2>5, <2>6, QueueGrown
<1>4. ASSUME NEW c \in Commands, Deliver(c)
      PROVE  QueueInv'
  <2> DEFINE op1 == CommandOp(c)
             ops == <<op1>>
  <2>1. op1 \in Op /\ op1.kind = "command" /\ op1.gen = 0
    BY OpsBuilt DEF CommandOp
  <2>2. ops \in Seq(Op) /\ \A i \in 1..Len(ops) : ops[i] = op1
    BY <2>1
  <2>3. commandQueue' = commandQueue \o ops
    BY <1>0, <1>4, <2>1, AppendIsConcat DEF Deliver, Handle
  <2>4. SameRun
    BY <1>4 DEF Deliver, runnerVars, SameRun
  <2> HIDE DEF op1, ops
  <2>5. \A i \in 1..Len(ops) :
          ops[i].kind # "event" /\ \A op \in Op : op = ops[i] => Fits(op)'
    BY <1>0, <2>1, <2>2 DEF Fits
  <2>6. \A op \in Op : Fits(op) => Fits(op)'
    BY <1>0, <2>4, FitsSame
  <2> QED
    BY <1>0, <2>2, <2>3, <2>5, <2>6, QueueGrown
<1> QED
  BY <1>1, <1>2, <1>3, <1>4 DEF Execution, FinishStep, Throw

-----------------------------------------------------------------------------
(* The theorems.                                                           *)

LEMMA InvStep ==
  ASSUME IInv, [Next]_vars
  PROVE  IInv'
<1>0. TypeOK /\ TypeOK'
  BY TypeStep DEF IInv
<1> SUFFICES Core' /\ QueueInv'
  BY <1>0 DEF IInv, Core
<1>1. CASE \E c \in Commands : Deliver(c)
  <2>1. UNCHANGED <<lease, epoch, job, active, frames, checkpoints, reported, runnerVars>>
    BY <1>1 DEF Deliver, Handle, leaseVars, diskVars
  <2>2. Core'
    BY <2>1 DEF IInv, Core, LeaseIsActives, ServingInv, FlagsInv, RunInv, GenInv,
       ApprovalIsRecorded, LiveRunHoldsLease, Held, Acting, runnerVars
  <2> QED
    BY <1>0, <1>1, <2>2, QueueOfExecution
<1>2. CASE Orchestrate
  <2>1. reported' = reported
    BY <1>2 DEF Orchestrate, StartTask, ResumeTask, Decide, worldVars
  <2>2. Core'
    BY <1>0, <1>2, <2>1, CommandStep, SuspendStep, StartStep, ResumeStep, DecideStep,
       OutcomeStep DEF Orchestrate
  <2>3. QueueInv'
    BY <1>0, <1>2, QueueOfCommands, QueueOfLaunches DEF Orchestrate
  <2> QED
    BY <2>2, <2>3
<1>3. CASE OrchestrateFaulty
  <2>1. reported' = reported /\ UNCHANGED runnerVars
    BY <1>3 DEF OrchestrateFaulty, Fault
  <2>2. Core'
    BY <1>0, <1>3, <2>1, CommandStep, OutcomeStep DEF OrchestrateFaulty
  <2>3. QueueInv'
    BY <1>0, <1>3, <2>1, QueueOfCommands DEF OrchestrateFaulty
  <2> QED
    BY <2>2, <2>3
<1>4. CASE ServeEvent
  BY <1>0, <1>4, EventStep, QueueOfEvents
<1>5. CASE Execution
  BY <1>0, <1>5, ExecutionStep, QueueOfExecution
<1>6. CASE Crash
  BY <1>0, <1>6, CrashStep
<1>7. CASE UNCHANGED vars
  BY <1>7 DEF vars, orchestratorVars, memoryVars, diskVars, leaseVars, runnerVars, worldVars,
     IInv, Core, LeaseIsActives, ServingInv, FlagsInv, RunInv, GenInv, QueueInv, Fits,
     ApprovalIsRecorded, LiveRunHoldsLease, Held, Acting
<1> QED
  BY <1>1, <1>2, <1>3, <1>4, <1>5, <1>6, <1>7 DEF Next

LEMMA InvInit == Init => IInv
<1> SUFFICES ASSUME Init PROVE IInv
  OBVIOUS
<1>1. Len(commandQueue) = 0 /\ Len(run.handlers) = 0
  BY EmptySeq DEF Init, OrchestratorInit, RunnerInit, NoRun
<1> QED
  BY <1>1, TypeInit
  DEF Init, OrchestratorInit, LeaseInit, RunnerInit, NoRun, NoJob, NoActive, NoLease, IInv,
      LeaseIsActives, ServingInv, FlagsInv, RunInv, GenInv, QueueInv, ApprovalIsRecorded,
      LiveRunHoldsLease, Held, Acting

(* The inductive invariant holds in every state the Desktop reaches.       *)
THEOREM Invariance == Spec => []IInv
<1>1. Init => IInv
  BY InvInit
<1>2. IInv /\ [Next]_vars => IInv'
  BY InvStep
<1> QED
  BY <1>1, <1>2, PTL DEF Spec

(* The human and the automation never use the page at the same time: while *)
(* the lease is the human's, the runner is not inside a step.              *)
THEOREM HumanIsAlone == Spec => []HumanExclusive
<1>1. IInv => HumanExclusive
  BY DEF IInv, FlagsInv, HumanExclusive
<1> QED
  BY <1>1, Invariance, PTL

(* No lease and no frame stream is left behind by any command, outcome,    *)
(* fault or crash.                                                         *)
THEOREM NoStrayLease == Spec => []LeaseIsActives
<1>1. IInv => LeaseIsActives
  BY DEF IInv
<1> QED
  BY <1>1, Invariance, PTL

(* A run that was not cancelled is that of the active task, which holds    *)
(* the lease.                                                              *)
THEOREM NoStrayRun == Spec => []LiveRunHoldsLease
<1>1. IInv => LiveRunHoldsLease
  BY DEF IInv, RunInv
<1> QED
  BY <1>1, Invariance, PTL

(* A submission that waits for a decision is announced and recorded.       *)
THEOREM WaitIsAnnounced == Spec => []ApprovalIsRecorded
<1>1. IInv => ApprovalIsRecorded
  BY DEF IInv
<1> QED
  BY <1>1, Invariance, PTL

-----------------------------------------------------------------------------
(* The Desktop implements BrowserControl.                                  *)

(* Steps that leave the lease alone and keep the run inside or outside its *)
(* step do not show.                                                       *)
LEMMA PageStutters ==
  ASSUME UNCHANGED <<lease, run.task>>, Acting' <=> Acting
  PROVE  UNCHANGED Control!controlVars
  BY DEF Control!controlVars, PageOwner, PageActing, Held

LEMMA PageGivenUp ==
  ASSUME lease' = NoLease, PageActing' = PageActing
  PROVE  Control!Next \/ UNCHANGED Control!controlVars
<1>1. CASE PageOwner = Control!NoOwner
  BY <1>1 DEF Control!controlVars, Control!NoOwner, PageOwner, Held
<1>2. CASE PageOwner # Control!NoOwner
  BY <1>2 DEF Control!Next, Control!GiveUp, Control!NoOwner, PageOwner, Held
<1> QED
  BY <1>1, <1>2

LEMMA ControlOfCommands ==
  ASSUME IInv, Command \/ FailedCommand, UNCHANGED runnerVars
  PROVE  Control!Next \/ UNCHANGED Control!controlVars
<1>1. run' = run /\ (Acting' <=> Acting)
  BY DEF runnerVars, Acting
<1>2. CASE (TakeoverCompletes \/ TakeoverHalfDone) /\ idle
  <2>1. Held /\ lease.holder # "human" /\ lease.task \in Tasks /\ ~Acting
    BY <1>2, HeldType DEF TakeoverCompletes, TakeoverHalfDone, TransferToHuman, CanTransfer,
       IInv, TypeOK, FlagsInv
  <2>2. lease' = [task |-> lease.task, holder |-> "human", epoch |-> epoch + 1]
    BY <1>2 DEF TakeoverCompletes, TakeoverHalfDone, TransferToHuman, Grant, CreateLease
  <2>3. PageOwner = Control!Owner(lease.task, "automation") /\ PageActing = NoTask
    BY <2>1 DEF PageOwner, PageActing, Control!Owner
  <2>4. PageOwner' = Control!Owner(lease.task, "human") /\ PageActing' = NoTask
    BY <1>1, <2>1, <2>2 DEF PageOwner, PageActing, Control!Owner, Held, NoLease
  <2>5. Control!HandToHuman(lease.task)
    BY <2>3, <2>4 DEF Control!HandToHuman
  <2> QED
    BY <2>1, <2>5 DEF Control!Next
<1>3. CASE lease' = lease
  BY <1>1, <1>3, PageStutters
<1> QED
  BY <1>2, <1>3
  DEF Command, FailedCommand, RepeatReply, Begin, Expire, Reply, StartRefused,
     StartInadmissible, StartNavigates, StartFails, ControlRefused, PauseCompletes,
     PauseProbeFails, TakeoverRefused, ResumeRefused, CancelCompletes, CancelProbeFails,
     Throws, leaseVars

LEMMA ControlOfStart ==
  ASSUME IInv, StartTask
  PROVE  Control!Next
<1> DEFINE t == CommandTask[job.cmd]
<1>1. t \in Tasks /\ ~Held
  BY CommandsAssumption DEF StartTask, StartLaunches, Acquire, CanAcquire, IInv, TypeOK,
     OrchestratorTypeOK
<1>2. lease' = [task |-> t, holder |-> Kind, epoch |-> epoch + 1]
  BY DEF StartTask, StartLaunches, Acquire, Grant, CreateLease
<1>3. PageOwner = Control!NoOwner /\ PageOwner' = Control!Owner(t, "automation")
  BY <1>1, <1>2 DEF PageOwner, Control!NoOwner, Control!Owner, Held, NoLease, Kind
<1>4. Control!MayBegin(t)
  <2>1. CASE ExecuteFresh(epoch + 1, t)
    BY <2>1 DEF ExecuteFresh, PageActing, Acting, Control!MayBegin
  <2>2. CASE run' = run
    BY <2>2 DEF PageActing, Acting, Control!MayBegin
  <2> QED
    BY <2>1, <2>2 DEF StartTask, ExecuteUnparsable, ExecuteBusy, runnerVars
<1> QED
  BY <1>1, <1>3, <1>4 DEF Control!Next, Control!Grant

LEMMA ControlOfResume ==
  ASSUME IInv, ResumeTask
  PROVE  Control!Next
<1>1. Held /\ lease.holder = "human" /\ lease.task \in Tasks
  BY HeldType DEF ResumeTask, ResumeSucceeds, ResumeAfterHuman, CanResumeAfterHuman, IInv,
     TypeOK
<1>2. ~Acting /\ lease.task = active.task
  BY <1>1 DEF IInv, FlagsInv, LeaseIsActives
<1>3. lease' = [task |-> lease.task, holder |-> Kind, epoch |-> epoch + 1]
  BY DEF ResumeTask, ResumeSucceeds, ResumeAfterHuman, Grant, CreateLease
<1>4. /\ PageOwner = Control!Owner(lease.task, "human")
      /\ PageOwner' = Control!Owner(lease.task, "automation")
  BY <1>1, <1>3 DEF PageOwner, Control!Owner, Held, NoLease, Kind
<1>5. Control!MayBegin(lease.task)
  <2>1. CASE ExecuteResume(active.gen)
    <3>1. run'.task = run.task /\ run'.pc = (IF run.pc = "parked" THEN "step" ELSE run.pc)
      BY <2>1 DEF ExecuteResume, IInv, TypeOK, RunnerTypeOK
    <3>2. run.pc = "parked" => run.task = lease.task
      BY <1>2 DEF IInv, FlagsInv, RunInv, LiveRunHoldsLease
    <3> QED
      BY <1>2, <3>1, <3>2 DEF PageActing, Acting, Control!MayBegin
  <2>2. CASE run' = run
    BY <2>2 DEF PageActing, Acting, Control!MayBegin
  <2> QED
    BY <2>1, <2>2 DEF ResumeTask, ExecuteNothingToResume
<1> QED
  BY <1>1, <1>4, <1>5 DEF Control!Next, Control!HandBack

LEMMA ControlOfExecution ==
  ASSUME IInv, Execution
  PROVE  Control!Next \/ UNCHANGED Control!controlVars
<1>0. lease' = lease /\ PageOwner' = PageOwner
  BY DEF Execution, EnterStep, Announce, FinishStep, Throw, Settle, Enqueue,
     orchestratorVars, leaseVars, PageOwner, Held
<1>1. CASE EnterStep
  <2>1. /\ run.pc = "before" /\ ~cancelled /\ run'.task = run.task
        /\ run'.pc = IF paused THEN "parked" ELSE "step"
    BY <1>1 DEF EnterStep, BeforeStep, IInv, TypeOK, RunnerTypeOK
  <2>2. CASE paused
    BY <1>0, <2>1, <2>2, PageStutters DEF Acting
  <2>3. CASE ~paused
    <3>1. Held /\ run.task = lease.task /\ run.task \in Tasks /\ lease.holder # "human"
      BY <2>1, <2>3 DEF IInv, FlagsInv, RunInv, LiveRunHoldsLease, LeaseIsActives
    <3>2. PageOwner = Control!Owner(run.task, "automation") /\ PageActing = NoTask
      BY <2>1, <3>1 DEF PageOwner, PageActing, Acting, Control!Owner
    <3>3. PageActing' = run.task
      BY <2>1, <2>3 DEF PageActing, Acting
    <3> QED
      BY <1>0, <3>1, <3>2, <3>3 DEF Control!Next, Control!BeginAction
  <2> QED
    BY <2>2, <2>3
<1>2. CASE Announce
  <2>1. run'.task = run.task /\ (Acting' <=> Acting)
    BY <1>2 DEF Announce, RequestApproval, IInv, TypeOK, RunnerTypeOK, Acting
  <2> QED
    BY <1>0, <2>1, PageStutters
<1>3. ASSUME PageActing' = NoTask, run.pc # "none"
      PROVE  Control!Next \/ UNCHANGED Control!controlVars
  <2>1. run.task \in Tasks
    BY <1>3 DEF IInv, RunInv
  <2>2. CASE Acting
    BY <1>0, <1>3, <2>1, <2>2, NoTaskAssumption DEF Control!Next, Control!EndAction, PageActing
  <2>3. CASE ~Acting
    BY <1>0, <1>3, <2>3 DEF Control!controlVars, PageActing
  <2> QED
    BY <2>2, <2>3
<1>4. CASE FinishStep \/ Throw
  <2>1. run.pc # "none" /\ run'.pc \in {"none", "before"}
    <3>1. run.pc # "none" /\ (StepReturns \/ RunEnds(NoTask))
      BY <1>4 DEF FinishStep, Throw, StepCanReturn, CanThrow, Settle
    <3>2. StepReturns => run'.pc = "before"
      BY DEF StepReturns, IInv, TypeOK, RunnerTypeOK
    <3>3. RunEnds(NoTask) => run'.pc = "none"
      BY DEF RunEnds, NoRun
    <3> QED
      BY <3>1, <3>2, <3>3
  <2>2. PageActing' = NoTask
    BY <2>1 DEF PageActing, Acting
  <2> QED
    BY <1>3, <2>1, <2>2
<1> QED
  BY <1>1, <1>2, <1>4 DEF Execution

LEMMA ControlStep ==
  ASSUME IInv, [Next]_vars
  PROVE  Control!Next \/ UNCHANGED Control!controlVars
<1>1. CASE \E c \in Commands : Deliver(c)
  BY <1>1, PageStutters DEF Deliver, Handle, leaseVars, runnerVars, Acting
<1>2. CASE Orchestrate
  <2>1. CASE Command /\ Quiet
    BY <2>1, ControlOfCommands
  <2>2. CASE PauseBegins /\ Pause
    BY <2>2, PageStutters DEF PauseBegins, Pause, leaseVars, Acting
  <2>3. CASE CancelBegins /\ Cancel
    <3>1. lease' = NoLease
      BY <2>3 DEF CancelBegins, Release, IInv, LeaseIsActives, Held
    <3>2. PageActing' = PageActing
      BY <2>3 DEF Cancel, PageActing, Acting, IInv, TypeOK, RunnerTypeOK
    <3> QED
      BY <3>1, <3>2, PageGivenUp
  <2>4. CASE StartTask
    BY <2>4, ControlOfStart
  <2>5. CASE ResumeTask
    BY <2>5, ControlOfResume
  <2>6. CASE Decide
    <3>1. lease' = lease
      BY <2>6 DEF Decide, DecisionTaken, DecisionRefused, Throws, leaseVars
    <3>2. run'.task = run.task /\ (Acting' <=> Acting)
      <4>1. CASE UNCHANGED runnerVars
        BY <4>1 DEF runnerVars, Acting
      <4>2. ASSUME NEW sub, NEW approved, Resolve(sub, approved)
            PROVE  run'.task = run.task /\ (Acting' <=> Acting)
        <5>1. /\ run.pc = "approval"
              /\ \E pc \in {"click", "denied"} : run' = [run EXCEPT !.pc = pc]
          BY <4>2 DEF Resolve, Waiting
        <5> QED
          BY <5>1 DEF Acting, IInv, TypeOK, RunnerTypeOK
      <4> QED
        BY <2>6, <4>1, <4>2 DEF Decide
    <3> QED
      BY <3>1, <3>2, PageStutters
  <2>7. CASE OutcomeIgnored /\ Quiet
    BY <2>7, PageStutters DEF OutcomeIgnored, leaseVars, runnerVars, Acting
  <2>8. CASE OutcomeRecorded /\ Quiet
    <3>1. lease' = NoLease
      BY <2>8 DEF OutcomeRecorded, Release, IInv, LeaseIsActives, Held
    <3> QED
      BY <2>8, <3>1, PageGivenUp DEF runnerVars, PageActing, Acting
  <2> QED
    BY <1>2, <2>1, <2>2, <2>3, <2>4, <2>5, <2>6, <2>7, <2>8 DEF Orchestrate
<1>3. CASE OrchestrateFaulty
  <2>1. CASE OutcomeProbeFails
    <3>1. lease' = NoLease
      BY <2>1 DEF OutcomeProbeFails, Release, IInv, LeaseIsActives, Held
    <3> QED
      BY <1>3, <3>1, PageGivenUp DEF OrchestrateFaulty, runnerVars, PageActing, Acting
  <2> QED
    BY <1>3, <2>1, ControlOfCommands DEF OrchestrateFaulty
<1>4. CASE ServeEvent
  <2>1. lease' = lease /\ run.pc = "emit"
    BY <1>4, QueueTail DEF ServeEvent, EventServed, EventThrows, leaseVars, QueueInv, Fits,
       IInv, TypeOK, OrchestratorTypeOK
  <2>2. run'.task = run.task /\ run'.pc \in {"approval", "denied"}
    BY <1>4 DEF ServeEvent, Announced, IInv, TypeOK, RunnerTypeOK
  <2> QED
    BY <2>1, <2>2, PageStutters DEF Acting
<1>5. CASE Execution
  BY <1>5, ControlOfExecution
<1>6. CASE Crash
  <2>1. lease' = NoLease /\ run'.pc = "none"
    BY <1>6 DEF Crash, Restart, NoRun
  <2> QED
    BY <2>1 DEF Control!Next, Control!Restarted, Control!NoOwner, PageOwner, PageActing, Held,
       Acting
<1>7. CASE UNCHANGED vars
  BY <1>7, PageStutters DEF vars, orchestratorVars, leaseVars, runnerVars, Acting
<1> QED
  BY <1>1, <1>2, <1>3, <1>4, <1>5, <1>6, <1>7 DEF Next

(* The Desktop implements the abstract specification of who may act on the *)
(* page.                                                                   *)
THEOREM ImplementsControl == Spec => KeepsBrowserControl
<1>1. Init => Control!Init
  BY DEF Init, OrchestratorInit, LeaseInit, RunnerInit, NoRun, Control!Init, Control!NoOwner,
     PageOwner, PageActing, Held, Acting
<1>2. IInv /\ [Next]_vars => [Control!Next]_Control!controlVars
  BY ControlStep
<1> QED
  BY <1>1, <1>2, Invariance, PTL DEF Spec, KeepsBrowserControl, Control!Spec

-----------------------------------------------------------------------------
(* Commands and their answers.                                             *)

(* Only delivered commands are served and answered, the one being served   *)
(* has no final receipt, and a decision that was delivered is about a      *)
(* submission that was announced.                                          *)
QueueDelivered ==
  \A i \in 1..Len(commandQueue) :
    commandQueue[i].kind = "command" => commandQueue[i].cmd \in delivered

AnswersInv ==
  /\ QueueDelivered
  /\ job.pc # "free" => job.cmd \in delivered /\ ~Final(job.cmd)
  /\ \A c \in Commands : Final(c) => c \in delivered
  /\ \A c \in delivered : CommandType[c] \in DecisionTypes => CommandSub[c] \in reported

(* A decision reaches the submission that waits for it.                    *)
Decided ==
  /\ DecisionTaken
  /\ Resolve(CommandSub[job.cmd], CommandType[job.cmd] = "APPROVE_SUBMIT")
  /\ UNCHANGED worldVars

(* The operation being served goes on: it stays that of the same command,  *)
(* and only a decision that reaches the executor accepts a decision.       *)
GoesOn ==
  /\ job.pc \notin {"free", "accept", "reject"}
  /\ job'.pc # "free" /\ job'.cmd = job.cmd
  /\ job'.pc = "accept" /\ CommandType[job.cmd] \in DecisionTypes => Decided
  /\ receipts' = receipts

(* What a step does to the operation being served and to the receipts.     *)
JobSteps ==
  \/ Begin \/ Expire \/ Reply
  \/ Crash
  \/ GoesOn
  \/ UNCHANGED <<job, receipts>>

LEMMA JobOfCommands ==
  ASSUME TypeOK, Command \/ FailedCommand
  PROVE  JobSteps
<1> USE DEF JobSteps, GoesOn, Throws, diskVars, DecisionTypes
<1>0. OrchestratorTypeOK
  BY DEF TypeOK
<1>1. CASE RepeatReply \/ Begin \/ Expire \/ Reply
  BY <1>1 DEF RepeatReply
<1>2. CASE StartRefused \/ StartInadmissible \/ StartNavigates \/ StartFails
  <2>1. job.pc \in {"begin", "goto"} /\ job'.pc \in {"goto", "reject"} /\ job'.cmd = job.cmd
    BY <1>0, <1>2, JobAt DEF StartRefused, StartInadmissible, StartNavigates, StartFails
  <2> QED
    BY <1>2, <2>1 DEF StartRefused, StartInadmissible, StartNavigates, StartFails
<1>3. CASE \/ ControlRefused \/ TakeoverRefused \/ ResumeRefused \/ CancelProbeFails
           \/ PauseProbeFails \/ TakeoverHalfDone
  <2>1. /\ job.pc \in {"begin", "pausing", "cancelling"}
        /\ job'.pc = "reject" /\ job'.cmd = job.cmd
    BY <1>0, <1>3, JobAt DEF ControlRefused, TakeoverRefused, ResumeRefused,
       CancelProbeFails, PauseProbeFails, TakeoverHalfDone
  <2> QED
    BY <1>3, <2>1 DEF ControlRefused, TakeoverRefused, ResumeRefused, CancelProbeFails,
       PauseProbeFails, TakeoverHalfDone
<1>4. CASE PauseCompletes \/ TakeoverCompletes \/ CancelCompletes
  <2>1. /\ job.pc \in {"pausing", "cancelling"}
        /\ job'.pc = "accept" /\ job'.cmd = job.cmd
    BY <1>0, <1>4, JobAt DEF PauseCompletes, TakeoverCompletes, CancelCompletes
  <2>2. CommandType[job.cmd] \in {"PAUSE_TASK", "REQUEST_TAKEOVER", "CANCEL_TASK"}
    BY <1>4 DEF PauseCompletes, TakeoverCompletes, CancelCompletes
  <2>3. receipts' = receipts
    BY <1>4 DEF PauseCompletes, TakeoverCompletes, CancelCompletes
  <2> QED
    BY <2>1, <2>2, <2>3
<1> QED
  BY <1>1, <1>2, <1>3, <1>4 DEF Command, FailedCommand

LEMMA JobStep ==
  ASSUME TypeOK, [Next]_vars
  PROVE  JobSteps
<1>0. OrchestratorTypeOK
  BY DEF TypeOK
<1>1. CASE Command \/ FailedCommand
  BY <1>1, JobOfCommands
<1>2. CASE PauseBegins \/ CancelBegins
  <2>1. job.pc = "begin" /\ job'.pc \in {"pausing", "cancelling"} /\ job'.cmd = job.cmd
    BY <1>0, <1>2, JobAt DEF PauseBegins, CancelBegins
  <2> QED
    BY <1>2, <2>1 DEF JobSteps, GoesOn, PauseBegins, CancelBegins, diskVars
<1>3. CASE StartTask \/ ResumeTask
  <2>1. /\ job.pc \in {"begin", "goto"} /\ job'.pc = "accept" /\ job'.cmd = job.cmd
        /\ CommandType[job.cmd] \in {"START_TASK", "RESUME_AFTER_HUMAN"}
        /\ receipts' = receipts
    BY <1>0, <1>3, JobAt DEF StartTask, StartLaunches, ResumeTask, ResumeSucceeds
  <2> QED
    BY <2>1 DEF JobSteps, GoesOn, DecisionTypes
<1>4. CASE Decide /\ UNCHANGED worldVars
  <2>1. CASE Decided
    BY <1>0, <2>1, JobAt DEF JobSteps, GoesOn, Decided, DecisionTaken, diskVars
  <2>2. CASE DecisionRefused
    BY <1>0, <2>2, JobAt DEF JobSteps, GoesOn, DecisionRefused, Throws, diskVars
  <2> QED
    BY <1>4, <2>1, <2>2 DEF Decide, Decided
<1>5. CASE OutcomeIgnored \/ OutcomeRecorded \/ OutcomeProbeFails
  BY <1>5 DEF JobSteps, OutcomeIgnored, OutcomeRecorded, OutcomeProbeFails, diskVars
<1>6. CASE ServeEvent
  BY <1>6 DEF JobSteps, ServeEvent, EventServed, EventThrows, diskVars
<1>7. CASE Execution
  BY <1>7 DEF JobSteps, Execution, EnterStep, Announce, FinishStep, Throw, Settle, Enqueue,
     orchestratorVars, memoryVars, diskVars
<1>8. CASE \E c \in Commands : Deliver(c)
  BY <1>8 DEF JobSteps, Deliver, Handle, diskVars
<1>9. CASE Crash
  BY <1>9 DEF JobSteps
<1>10. CASE UNCHANGED vars
  BY <1>10 DEF JobSteps, vars, orchestratorVars, memoryVars, diskVars
<1> QED
  BY <1>1, <1>2, <1>3, <1>4, <1>5, <1>6, <1>7, <1>8, <1>9, <1>10
  DEF Next, Orchestrate, OrchestrateFaulty

(* A command in the queue was there before or has just been delivered.     *)
LEMMA QueueStays ==
  ASSUME TypeOK, QueueDelivered, delivered' = delivered,
         \/ commandQueue' = commandQueue
         \/ commandQueue # <<>> /\ commandQueue' = Tail(commandQueue)
         \/ commandQueue' = <<>>
  PROVE  QueueDelivered'
<1>1. CASE commandQueue' = commandQueue
  BY <1>1 DEF QueueDelivered
<1>2. CASE commandQueue # <<>> /\ commandQueue' = Tail(commandQueue)
  <2> DEFINE q == Tail(commandQueue)
  <2>1. \A i \in 1..Len(q) : /\ i + 1 \in 1..Len(commandQueue)
                             /\ q[i] = commandQueue[i + 1]
    BY <1>2, QueueTail DEF TypeOK, OrchestratorTypeOK
  <2>2. commandQueue' = q
    BY <1>2
  <2> HIDE DEF q
  <2>3. \A i \in 1..Len(q) : q[i].kind = "command" => q[i].cmd \in delivered
    BY <2>1 DEF QueueDelivered
  <2> QED
    BY <2>2, <2>3 DEF QueueDelivered
<1>3. CASE commandQueue' = <<>>
  <2>1. Len(commandQueue') = 0
    BY <1>3, EmptySeq
  <2> QED
    BY <2>1 DEF QueueDelivered
<1> QED
  BY <1>1, <1>2, <1>3

LEMMA QueueTakesIn ==
  ASSUME TypeOK, QueueDelivered, delivered \subseteq delivered',
         NEW ops \in Seq(Op), commandQueue' = commandQueue \o ops,
         \A i \in 1..Len(ops) : ops[i].kind = "command" => ops[i].cmd \in delivered'
  PROVE  QueueDelivered'
<1> DEFINE q == commandQueue \o ops
<1>1. \A i \in 1..Len(q) :
        \/ i \in 1..Len(commandQueue) /\ q[i] = commandQueue[i]
        \/ i - Len(commandQueue) \in 1..Len(ops) /\ q[i] = ops[i - Len(commandQueue)]
  BY QueueJoin DEF TypeOK, OrchestratorTypeOK
<1>2. commandQueue' = q
  OBVIOUS
<1> HIDE DEF q
<1>3. \A i \in 1..Len(q) : q[i].kind = "command" => q[i].cmd \in delivered'
  BY <1>1 DEF QueueDelivered
<1> QED
  BY <1>2, <1>3 DEF QueueDelivered

LEMMA QueueDeliveredStep ==
  ASSUME IInv, QueueDelivered, [Next]_vars
  PROVE  QueueDelivered'
<1>0. TypeOK /\ TypeOK'
  BY TypeStep DEF IInv
<1>1. CASE \/ (Command \/ FailedCommand) /\ UNCHANGED delivered
           \/ PauseBegins /\ UNCHANGED worldVars
           \/ CancelBegins /\ UNCHANGED worldVars
           \/ Decide /\ UNCHANGED worldVars
           \/ (OutcomeIgnored \/ OutcomeRecorded \/ OutcomeProbeFails) /\ UNCHANGED delivered
           \/ ServeEvent
  <2>1. \/ commandQueue' = commandQueue
        \/ commandQueue # <<>> /\ commandQueue' = Tail(commandQueue)
    BY <1>1 DEF Command, FailedCommand, RepeatReply, Begin, Expire, Reply, StartRefused,
     StartInadmissible, StartNavigates, StartFails, ControlRefused, PauseBegins,
     PauseCompletes, PauseProbeFails, TakeoverCompletes, TakeoverRefused, TakeoverHalfDone,
     ResumeRefused, CancelBegins, CancelCompletes, CancelProbeFails, Decide, DecisionTaken,
     DecisionRefused, OutcomeIgnored, OutcomeRecorded, OutcomeProbeFails, ServeEvent,
     EventServed, EventThrows, Throws
  <2>2. delivered' = delivered
    BY <1>1 DEF ServeEvent, Fault, worldVars
  <2> QED
    BY <1>0, <2>1, <2>2, QueueStays
<1>2. CASE (StartTask \/ ResumeTask) /\ UNCHANGED worldVars
  <2>1. \E s \in Nat : \/ commandQueue' = commandQueue \o <<>>
                       \/ commandQueue' = commandQueue \o <<OutcomeOp(s, "failed")>>
    <3>1. epoch + 1 \in Nat /\ active.gen \in Nat
      BY <1>0, Numbers
    <3> QED
      BY <1>2, <3>1 DEF StartTask, StartLaunches, ResumeTask, ResumeSucceeds
  <2>2. PICK s \in Nat : \/ commandQueue' = commandQueue \o <<>>
                         \/ commandQueue' = commandQueue \o <<OutcomeOp(s, "failed")>>
    BY <2>1
  <2>3. CASE commandQueue' = commandQueue \o <<>>
    <3>1. commandQueue' = commandQueue
      BY <1>0, <2>3, ConcatEmptySeq DEF TypeOK, OrchestratorTypeOK
    <3> QED
      BY <1>0, <1>2, <3>1, QueueStays DEF worldVars
  <2>4. CASE commandQueue' = commandQueue \o <<OutcomeOp(s, "failed")>>
    <3> DEFINE op1 == OutcomeOp(s, "failed")
               ops == <<op1>>
    <3>1. op1 \in Op /\ op1.kind = "outcome"
      BY OpsBuilt DEF OutcomeOp
    <3>2. commandQueue' = commandQueue \o ops
      BY <2>4
    <3> HIDE DEF op1
    <3>3. ops \in Seq(Op) /\ \A i \in 1..Len(ops) : ops[i] = op1
      BY <3>1
    <3> HIDE DEF ops
    <3>4. delivered' = delivered
      BY <1>2 DEF worldVars
    <3> QED
      BY <1>0, <3>1, <3>2, <3>3, <3>4, QueueTakesIn
  <2> QED
    BY <2>2, <2>3, <2>4
<1>3. CASE EnterStep \/ (FinishStep /\ UNCHANGED orchestratorVars)
  <2>1. commandQueue' = commandQueue /\ delivered' = delivered
    BY <1>3 DEF EnterStep, FinishStep, orchestratorVars, memoryVars, worldVars
  <2> QED
    BY <1>0, <2>1, QueueStays
<1>4. CASE Announce
  <2> DEFINE op1 == EventOp(run.gen, "WAITING_APPROVAL_SUBMIT")
             ops == <<op1>>
  <2>1. op1 \in Op /\ op1.kind = "event"
    BY <1>0, Numbers, OpsBuilt DEF EventOp, TaskStates
  <2>2. commandQueue' = commandQueue \o ops
    BY <1>4 DEF Announce, Enqueue
  <2> HIDE DEF op1
  <2>3. ops \in Seq(Op) /\ \A i \in 1..Len(ops) : ops[i] = op1
    BY <2>1
  <2> HIDE DEF ops
  <2>4. delivered' = delivered
    BY <1>4 DEF Announce, worldVars
  <2> QED
    BY <1>0, <2>1, <2>2, <2>3, <2>4, QueueTakesIn
<1>5. ASSUME NEW s \in {"succeeded", "failed"}, Settle(s), delivered' = delivered
      PROVE  QueueDelivered'
  <2> DEFINE ops == Outcomes(run.handlers, s)
  <2>1. commandQueue' = commandQueue \o ops
    BY <1>5 DEF Settle, Enqueue
  <2>2. run.handlers \in Seq(Nat)
    BY <1>0 DEF TypeOK, RunnerTypeOK
  <2>3. /\ ops \in Seq(Op) /\ Len(ops) = Len(run.handlers)
        /\ \A i \in 1..Len(run.handlers) : ops[i] = OutcomeOp(run.handlers[i], s)
    BY <2>2, OutcomesType
  <2> HIDE DEF ops
  <2>4. \A g : OutcomeOp(g, s).kind = "outcome"
    BY DEF OutcomeOp
  <2>5. \A i \in 1..Len(ops) : ops[i].kind # "command"
    BY <2>3, <2>4
  <2> QED
    BY <1>0, <1>5, <2>1, <2>3, <2>5, QueueTakesIn
<1>6. ASSUME NEW c \in Commands, Deliver(c)
      PROVE  QueueDelivered'
  <2> DEFINE op1 == CommandOp(c)
             ops == <<op1>>
  <2>1. op1 \in Op /\ op1.cmd = c
    BY OpsBuilt DEF CommandOp
  <2>2. commandQueue' = commandQueue \o ops
    BY <1>0, <1>6, <2>1, AppendIsConcat DEF Deliver, Handle, TypeOK, OrchestratorTypeOK
  <2> HIDE DEF op1
  <2>3. ops \in Seq(Op) /\ \A i \in 1..Len(ops) : ops[i] = op1
    BY <2>1
  <2> HIDE DEF ops
  <2>4. delivered' = delivered \cup {c}
    BY <1>6 DEF Deliver
  <2> QED
    BY <1>0, <2>1, <2>2, <2>3, <2>4, QueueTakesIn
<1>7. CASE Crash
  BY <1>0, <1>7, QueueStays DEF Crash, Restart
<1>8. CASE UNCHANGED vars
  BY <1>0, <1>8, QueueStays DEF vars, orchestratorVars, memoryVars, worldVars
<1>9. CASE Execution
  BY <1>3, <1>4, <1>5, <1>9 DEF Execution, FinishStep, Throw, worldVars
<1>10. CASE Orchestrate \/ OrchestrateFaulty
  BY <1>1, <1>2, <1>10 DEF Orchestrate, OrchestrateFaulty, Fault, worldVars
<1>11. CASE ServeEvent
  BY <1>1, <1>11
<1> QED
  BY <1>6, <1>7, <1>8, <1>9, <1>10, <1>11 DEF Next

(* What the environment knows only grows, and an arriving decision is      *)
(* about an announced submission.                                          *)
LEMMA WorldGrows ==
  ASSUME [Next]_vars
  PROVE  /\ delivered \subseteq delivered' /\ reported \subseteq reported'
         /\ \A c \in delivered' \ delivered :
              c \in Commands
                /\ (CommandType[c] \in DecisionTypes => CommandSub[c] \in reported)
<1>1. CASE \E c \in Commands : Deliver(c)
  BY <1>1 DEF Deliver
<1>2. CASE ~\E c \in Commands : Deliver(c)
  <2>1. delivered' = delivered /\ reported \subseteq reported'
    BY <1>2 DEF Next, Orchestrate, OrchestrateFaulty, StartTask, ResumeTask, Decide, Fault,
       ServeEvent, Execution, EnterStep, Announce, FinishStep, Throw, Crash, vars, worldVars
  <2> QED
    BY <2>1
<1> QED
  BY <1>1, <1>2

LEMMA AnswersStep ==
  ASSUME IInv, AnswersInv, [Next]_vars
  PROVE  AnswersInv'
<1>0. TypeOK /\ QueueDelivered' /\ JobSteps
  BY JobStep, QueueDeliveredStep DEF IInv, AnswersInv
<1>1. \A c \in delivered' : CommandType[c] \in DecisionTypes => CommandSub[c] \in reported'
  BY WorldGrows DEF AnswersInv
<1>2. /\ job'.pc # "free" => job'.cmd \in delivered' /\ ~Final(job.cmd)'
      /\ \A c \in Commands : Final(c)' => c \in delivered'
  <2> USE WorldGrows DEF AnswersInv, Final
  <2>1. CASE Begin \/ Expire
    <3> DEFINE c == Head(commandQueue).cmd
    <3>1. c \in delivered /\ c \in Commands /\ ~Final(c)
      <4>1. Head(commandQueue) \in Op /\ Head(commandQueue).kind = "command"
        BY <1>0, <2>1, QueueTypes DEF Begin, Expire, TypeOK, OrchestratorTypeOK
      <4> QED
        BY <1>0, <2>1, <4>1, QueueTail, OpShape DEF Begin, Expire, QueueDelivered, TypeOK,
           OrchestratorTypeOK
    <3>2. job'.cmd = c /\ \/ receipts' = [receipts EXCEPT ![c] = "processing"]
                          \/ receipts' = receipts
      BY <2>1 DEF Begin, Expire, diskVars
    <3> HIDE DEF c
    <3>3. receipts \in [Commands -> {"none", "processing", "accepted", "rejected"}]
      BY <1>0 DEF TypeOK, OrchestratorTypeOK
    <3> QED
      BY <3>1, <3>2, <3>3
  <2>2. CASE Reply
    <3>1. job.cmd \in Commands /\ job.cmd \in delivered /\ job'.pc = "free"
      BY <1>0, <2>2 DEF Reply, TypeOK, OrchestratorTypeOK, NoJob
    <3>2. \A c \in Commands : receipts'[c] = receipts[c] \/ c = job.cmd
      BY <1>0, <2>2 DEF Reply, TypeOK, OrchestratorTypeOK
    <3> QED
      BY <3>1, <3>2
  <2>3. CASE Crash
    <3>1. job'.pc = "free" /\ receipts' = receipts
      BY <2>3 DEF Crash, Restart, diskVars, NoJob
    <3> QED
      BY <3>1
  <2>4. CASE GoesOn
    BY <2>4 DEF GoesOn
  <2>5. CASE UNCHANGED <<job, receipts>>
    BY <2>5
  <2> QED
    BY <1>0, <2>1, <2>2, <2>3, <2>4, <2>5 DEF JobSteps
<1>3. Final(job.cmd)' <=> receipts'[job'.cmd] \in {"accepted", "rejected"}
  BY DEF Final
<1> QED
  BY <1>0, <1>1, <1>2, <1>3 DEF AnswersInv

(* What is known of the commands and their receipts is so in every         *)
(* reachable state.                                                        *)
THEOREM AnswersHold == Spec => []AnswersInv
<1>1. Init => AnswersInv
  <2> SUFFICES ASSUME Init PROVE AnswersInv
    OBVIOUS
  <2>1. Len(commandQueue) = 0
    BY EmptySeq DEF Init, OrchestratorInit
  <2> QED
    BY <2>1 DEF Init, OrchestratorInit, NoJob, AnswersInv, QueueDelivered, Final
<1>2. IInv /\ AnswersInv /\ [Next]_vars => AnswersInv'
  BY AnswersStep
<1> QED
  BY <1>1, <1>2, Invariance, PTL DEF Spec

(* The answer to a command never changes, whatever is delivered again and  *)
(* whenever the process crashes.                                           *)
THEOREM AnswersAreFinal == Spec => ReceiptsAreFinal
<1> DEFINE Kept == \A c \in Commands : Final(c) => receipts'[c] = receipts[c]
<1>1. IInv /\ AnswersInv /\ [Next]_vars => Kept
  <2> SUFFICES ASSUME IInv, AnswersInv, [Next]_vars, NEW c \in Commands, Final(c)
               PROVE  receipts'[c] = receipts[c]
    OBVIOUS
  <2>1. JobSteps /\ TypeOK
    BY JobStep DEF IInv
  <2>2. CASE Begin
    BY <2>1, <2>2 DEF Begin, TypeOK, OrchestratorTypeOK
  <2>3. CASE Reply
    BY <2>1, <2>3 DEF Reply, TypeOK, OrchestratorTypeOK, AnswersInv
  <2>4. CASE Expire \/ Crash \/ GoesOn \/ UNCHANGED <<job, receipts>>
    BY <2>4 DEF Expire, Crash, Restart, GoesOn, diskVars
  <2> QED
    BY <2>1, <2>2, <2>3, <2>4 DEF JobSteps
<1> QED
  BY <1>1, Invariance, AnswersHold, PTL DEF Spec, ReceiptsAreFinal

-----------------------------------------------------------------------------
(* The checkpoint of the active task.                                      *)

(* The checkpoint of the active task is not terminal, and it tells the     *)
(* truth of its run and its lease.  A run that must not act is kept from   *)
(* its next step by a flag: paused, or cancelled when a cancellation has   *)
(* lowered paused again.                                                   *)
Truthful(state) ==
  /\ state \notin TerminalStates
  /\ state \in {"PAUSED", "WAITING_HUMAN"} => ~Acting /\ (paused \/ cancelled)
  /\ state = "WAITING_HUMAN" /\ Held => lease.holder = "human"
  /\ state = "RUNNING" /\ Held /\ faults = 0 => lease.holder # "human"

CheckpointInv == active.gen # 0 => Truthful(checkpoints[active.task])

(* A checkpoint is saved for the active task only; saving one when no task *)
(* is active changes nothing.                                              *)
LEMMA SaveActive ==
  ASSUME TypeOK, NEW s, SaveCheckpoint(active.task, s)
  PROVE  /\ \A t \in Tasks : t # active.task => checkpoints'[t] = checkpoints[t]
         /\ active.gen # 0 => active.task \in Tasks /\ checkpoints'[active.task] = s
         /\ active.gen = 0 => checkpoints' = checkpoints
<1>1. active.gen = 0 => active.task \notin Tasks
  BY Numbers, NoTaskAssumption DEF NoActive
<1>2. DOMAIN checkpoints = Tasks
  BY DEF TypeOK, OrchestratorTypeOK
<1> QED
  BY <1>1, <1>2, Numbers DEF SaveCheckpoint, TypeOK, OrchestratorTypeOK

(* What a step does to the checkpoint of the active task, to its lease and *)
(* to the flags that keep its run from acting.                             *)
KeepsCheckpoint ==
  /\ checkpoints' = checkpoints /\ active' = active
  /\ lease' = lease \/ lease' = NoLease
  /\ faults' = 0 => faults = 0
  /\ Acting' => Acting \/ ~(paused \/ cancelled)
  /\ paused \/ cancelled => paused' \/ cancelled'

CheckpointSteps ==
  \/ StartTask /\ UNCHANGED worldVars
  \/ ResumeTask /\ UNCHANGED worldVars
  \/ PauseCompletes /\ idle /\ Quiet
  \/ TakeoverCompletes /\ idle /\ Quiet
  \/ TakeoverHalfDone /\ idle /\ Fault /\ UNCHANGED runnerVars
  \/ EventServed /\ Announced
  \/ CancelCompletes \/ OutcomeRecorded
  \/ Crash
  \/ KeepsCheckpoint

LEMMA CheckpointStep ==
  ASSUME IInv, [Next]_vars
  PROVE  CheckpointSteps
<1> USE DEF CheckpointSteps, KeepsCheckpoint, Acting
<1>0. TypeOK /\ faults \in Nat
  BY DEF IInv, TypeOK, WorldTypeOK
<1>1. Fault => (faults' = 0 => faults = 0)
  BY <1>0 DEF Fault
<1>2. UNCHANGED worldVars => faults' = faults
  BY DEF worldVars
<1>3. UNCHANGED runnerVars => UNCHANGED <<run, paused, cancelled>>
  BY DEF runnerVars
<1>4. ASSUME UNCHANGED <<checkpoints, active, lease>>, UNCHANGED runnerVars,
             faults' = 0 => faults = 0
      PROVE  KeepsCheckpoint
  BY <1>3, <1>4
<1>5. CASE Command /\ Quiet
  <2>1. CASE \/ PauseCompletes /\ idle
             \/ TakeoverCompletes /\ idle
             \/ CancelCompletes
    BY <1>5, <2>1
  <2>2. CASE ~((PauseCompletes /\ idle) \/ (TakeoverCompletes /\ idle) \/ CancelCompletes)
    <3>1. UNCHANGED <<checkpoints, active, lease>>
      BY <1>5, <2>2 DEF Command, RepeatReply, Begin, Expire, Reply, StartRefused,
         StartNavigates, StartFails, ControlRefused, TakeoverRefused, ResumeRefused, Throws,
         leaseVars, diskVars
    <3> QED
      BY <1>2, <1>4, <1>5, <3>1
  <2> QED
    BY <2>1, <2>2
<1>6. CASE FailedCommand /\ Fault /\ UNCHANGED runnerVars
  <2>1. CASE TakeoverHalfDone /\ idle
    BY <1>6, <2>1
  <2>2. CASE ~(TakeoverHalfDone /\ idle)
    <3>1. UNCHANGED <<checkpoints, active, lease>>
      BY <1>6, <2>2 DEF FailedCommand, StartInadmissible, StartFails, PauseProbeFails,
         TakeoverRefused, ResumeRefused, CancelProbeFails, Throws, leaseVars, diskVars
    <3> QED
      BY <1>1, <1>4, <1>6, <3>1
  <2> QED
    BY <2>1, <2>2
<1>7. CASE PauseBegins /\ Pause /\ UNCHANGED worldVars
  BY <1>2, <1>7 DEF PauseBegins, Pause, leaseVars, diskVars
<1>8. CASE CancelBegins /\ Cancel /\ UNCHANGED worldVars
  <2>1. Acting' => Acting
    BY <1>0, <1>8 DEF Cancel, TypeOK, RunnerTypeOK
  <2> QED
    BY <1>2, <1>8, <2>1 DEF CancelBegins, Cancel, Release, diskVars
<1>9. CASE Decide /\ UNCHANGED worldVars
  <2>1. UNCHANGED <<checkpoints, active, lease, paused, cancelled>>
    BY <1>9 DEF Decide, DecisionTaken, DecisionRefused, Resolve, Throws, leaseVars, diskVars,
       runnerVars
  <2>2. run' = run \/ run.pc = "approval"
    BY <1>9 DEF Decide, Resolve, Waiting, runnerVars
  <2> QED
    BY <1>2, <1>9, <2>1, <2>2
<1>10. CASE OutcomeIgnored /\ Quiet
  BY <1>2, <1>4, <1>10 DEF OutcomeIgnored, leaseVars, diskVars
<1>11. CASE OutcomeProbeFails /\ Fault /\ UNCHANGED runnerVars
  BY <1>1, <1>3, <1>11 DEF OutcomeProbeFails, Release, diskVars
<1>12. CASE ServeEvent /\ ~(EventServed /\ Announced)
  <2>1. EventThrows /\ UNCHANGED <<paused, cancelled>> /\ (faults' = 0 => faults = 0)
    BY <1>1, <1>2, <1>12 DEF ServeEvent
  <2>2. run.pc = "emit"
    BY <1>0, <2>1, QueueTail DEF EventThrows, IInv, QueueInv, Fits, TypeOK, OrchestratorTypeOK
  <2> QED
    BY <2>1, <2>2 DEF EventThrows, leaseVars, diskVars
<1>13. CASE Execution
  <2>1. UNCHANGED <<checkpoints, active, lease, paused, cancelled, faults>>
    BY <1>13 DEF Execution, EnterStep, Announce, FinishStep, Throw, Settle, Enqueue,
       BeforeStep, RequestApproval, StepReturns, RunEnds, orchestratorVars, leaseVars,
       memoryVars, diskVars, worldVars
  <2>2. CASE EnterStep
    <3>1. ~cancelled /\ run'.pc = (IF paused THEN "parked" ELSE "step")
      BY <1>0, <2>2 DEF EnterStep, BeforeStep, TypeOK, RunnerTypeOK
    <3> QED
      BY <2>1, <3>1
  <2>3. CASE Announce
    BY <2>1, <2>3 DEF Announce, RequestApproval
  <2>4. CASE FinishStep \/ Throw
    <3>1. CASE StepReturns
      BY <1>0, <2>1, <3>1 DEF StepReturns, TypeOK, RunnerTypeOK
    <3>2. CASE RunEnds(NoTask)
      BY <2>1, <3>2 DEF RunEnds, NoRun
    <3>3. StepReturns \/ RunEnds(NoTask)
      BY <2>4 DEF FinishStep, Throw, Settle
    <3> QED
      BY <3>1, <3>2, <3>3
  <2> QED
    BY <1>13, <2>2, <2>3, <2>4 DEF Execution
<1>14. CASE \E c \in Commands : Deliver(c)
  BY <1>4, <1>14 DEF Deliver, Handle, leaseVars, diskVars
<1>15. CASE UNCHANGED vars
  BY <1>2, <1>4, <1>15 DEF vars, orchestratorVars, leaseVars, memoryVars, diskVars
<1> QED
  BY <1>5, <1>6, <1>7, <1>8, <1>9, <1>10, <1>11, <1>12, <1>13, <1>14, <1>15
  DEF Next, Orchestrate, OrchestrateFaulty, ServeEvent

LEMMA CheckpointInvStep ==
  ASSUME IInv, CheckpointInv, [Next]_vars
  PROVE  CheckpointInv'
<1> USE Numbers DEF CheckpointInv, Truthful, TerminalStates
<1>0. TypeOK /\ TypeOK' /\ CheckpointSteps
  BY TypeStep, CheckpointStep DEF IInv
<1>1. CASE StartTask /\ UNCHANGED worldVars
  <2> DEFINE t == CommandTask[job.cmd]
  <2>1. /\ active'.gen # 0 /\ active'.task = t /\ t \in Tasks
        /\ checkpoints' = [checkpoints EXCEPT ![t] = "RUNNING"]
        /\ lease'.holder = Kind
    BY <1>0, <1>1, CommandsAssumption DEF StartTask, StartLaunches, Acquire, Grant,
       CreateLease, SaveCheckpoint, TypeOK, OrchestratorTypeOK
  <2>2. checkpoints'[t] = "RUNNING"
    BY <1>0, <2>1 DEF TypeOK, OrchestratorTypeOK
  <2> QED
    BY <2>1, <2>2 DEF Kind
<1>2. CASE ResumeTask /\ UNCHANGED worldVars
  <2>1. /\ active.gen # 0 /\ SaveCheckpoint(active.task, "RUNNING")
        /\ active' = [active EXCEPT !.lease = lease', !.awaiting = FALSE]
        /\ Grant(lease.task, Kind)
    BY <1>2 DEF ResumeTask, ResumeSucceeds, ResumeAfterHuman
  <2>2. active'.task = active.task
    BY <1>0, <2>1 DEF TypeOK, OrchestratorTypeOK, ActiveTask, NoActive
  <2>3. lease'.holder = Kind
    BY <2>1 DEF Grant, CreateLease
  <2>4. checkpoints'[active.task] = "RUNNING"
    BY <1>0, <2>1, SaveActive
  <2> QED
    BY <2>2, <2>3, <2>4 DEF Kind
<1>3. CASE PauseCompletes /\ idle /\ Quiet
  <2>1. /\ SaveCheckpoint(active.task, "PAUSED") /\ active' = active /\ active.gen # 0
        /\ paused /\ ~Acting /\ UNCHANGED <<run, paused>>
    BY <1>3 DEF PauseCompletes, IInv, ServingInv, FlagsInv, runnerVars
  <2>2. checkpoints'[active.task] = "PAUSED"
    BY <1>0, <2>1, SaveActive
  <2> QED
    BY <2>1, <2>2 DEF Acting
<1>4. CASE TakeoverCompletes /\ idle /\ Quiet
  <2>1. /\ SaveCheckpoint(active.task, "WAITING_HUMAN") /\ active.gen # 0
        /\ paused /\ ~Acting /\ UNCHANGED <<run, paused>>
    BY <1>4 DEF TakeoverCompletes, IInv, ServingInv, FlagsInv, runnerVars
  <2>2. active'.task = active.task /\ lease'.holder = "human"
    BY <1>0, <1>4, <2>1 DEF TakeoverCompletes, TransferToHuman, Grant, CreateLease, TypeOK,
       OrchestratorTypeOK, ActiveTask, NoActive
  <2>3. checkpoints'[active.task] = "WAITING_HUMAN"
    BY <1>0, <2>1, SaveActive
  <2> QED
    BY <2>1, <2>2, <2>3 DEF Acting
<1>5. CASE TakeoverHalfDone /\ idle /\ Fault /\ UNCHANGED runnerVars
  <2>1. /\ active.gen # 0 /\ checkpoints' = checkpoints
        /\ UNCHANGED <<run, paused, cancelled>>
    BY <1>5 DEF TakeoverHalfDone, IInv, ServingInv, FlagsInv, runnerVars, diskVars
  <2>2. active'.task = active.task /\ lease'.holder = "human"
    BY <1>0, <1>5, <2>1 DEF TakeoverHalfDone, TransferToHuman, Grant, CreateLease, TypeOK,
       OrchestratorTypeOK, ActiveTask, NoActive
  <2>3. faults' # 0
    BY <1>0, <1>5 DEF Fault, TypeOK, WorldTypeOK
  <2> QED
    BY <2>1, <2>2, <2>3 DEF Acting
<1>6. CASE EventServed /\ Announced
  <2>1. /\ active' = active /\ SaveCheckpoint(active.task, Head(commandQueue).state)
        /\ Head(commandQueue).state = "WAITING_APPROVAL_SUBMIT"
    BY <1>0, <1>6, QueueTail DEF EventServed, IInv, QueueInv, Fits, TypeOK,
       OrchestratorTypeOK
  <2>2. active.gen # 0 => checkpoints'[active.task] = "WAITING_APPROVAL_SUBMIT"
    BY <1>0, <2>1, SaveActive
  <2> QED
    BY <2>1, <2>2
<1>7. CASE CancelCompletes \/ OutcomeRecorded \/ Crash
  <2>1. active' = NoActive
    BY <1>7 DEF CancelCompletes, OutcomeRecorded, Crash, Restart
  <2> QED
    BY <2>1 DEF NoActive
<1>8. CASE KeepsCheckpoint
  BY <1>8 DEF KeepsCheckpoint, Held
<1> QED
  BY <1>0, <1>1, <1>2, <1>3, <1>4, <1>5, <1>6, <1>7, <1>8 DEF CheckpointSteps

(* Whatever commands, faults and crashes come, the checkpoint is truthful. *)
THEOREM CheckpointInvHolds == Spec => []CheckpointInv
<1>1. Init => CheckpointInv
  BY DEF Init, OrchestratorInit, NoActive, CheckpointInv
<1>2. IInv /\ CheckpointInv /\ [Next]_vars => CheckpointInv'
  BY CheckpointInvStep
<1> QED
  BY <1>1, <1>2, Invariance, PTL DEF Spec

(* What the database says of the active task is so: a paused task does     *)
(* nothing, a task said to wait for the human is in the human's hands, and *)
(* one said to run, as long as nothing has failed, is not.                 *)
THEOREM CheckpointsAreTrue == Spec => []CheckpointIsTrue
<1>1. CheckpointInv => CheckpointIsTrue
  BY DEF CheckpointInv, Truthful, CheckpointIsTrue
<1> QED
  BY <1>1, CheckpointInvHolds, PTL

(* The checkpoint of an ended execution is overwritten by no late event,   *)
(* outcome or command: only a new start of the task leaves it.             *)
THEOREM EndedStaysEnded == Spec => TerminalCheckpointStays
<1> DEFINE Stays ==
      \A t \in Tasks :
        checkpoints[t] \in TerminalStates /\ checkpoints'[t] # checkpoints[t]
          => /\ checkpoints'[t] = "RUNNING"
             /\ job.pc = "goto" /\ CommandTask[job.cmd] = t
<1>1. IInv /\ CheckpointInv /\ [Next]_vars => Stays
  <2> SUFFICES ASSUME IInv, CheckpointInv, [Next]_vars, NEW t \in Tasks,
                      checkpoints[t] \in TerminalStates, checkpoints'[t] # checkpoints[t]
               PROVE  /\ checkpoints'[t] = "RUNNING"
                      /\ job.pc = "goto" /\ CommandTask[job.cmd] = t
    OBVIOUS
  <2>0. TypeOK /\ CheckpointSteps
    BY CheckpointStep DEF IInv
  <2>1. ~ \E s : SaveCheckpoint(active.task, s)
    <3> SUFFICES ASSUME NEW s, SaveCheckpoint(active.task, s) PROVE FALSE
      OBVIOUS
    <3>1. t = active.task /\ active.gen # 0
      BY <2>0, SaveActive
    <3> QED
      BY <3>1 DEF CheckpointInv, Truthful
  <2>2. StartTask
    BY <2>0, <2>1 DEF CheckpointSteps, KeepsCheckpoint, ResumeTask, ResumeSucceeds,
       PauseCompletes, TakeoverCompletes, TakeoverHalfDone, EventServed, CancelCompletes,
       OutcomeRecorded, Crash, Restart, diskVars
  <2> QED
    BY <2>0, <2>2 DEF StartTask, StartLaunches, SaveCheckpoint, TypeOK, OrchestratorTypeOK
<1> QED
  BY <1>1, Invariance, CheckpointInvHolds, PTL DEF Spec, TerminalCheckpointStays

-----------------------------------------------------------------------------
(* Submissions and the decisions on them.                                  *)

(* A submission id is drawn once: one that has not been announced is       *)
(* unknown to the control plane, one that is undecided was never clicked.  *)
SubmissionsInv ==
  /\ \A s \in reported : s <= submissions
  /\ \A k \in clicked : k.sub <= submissions
  /\ run.pc \in {"emit", "approval", "click"} => run.sub <= submissions
  /\ run.pc = "emit" => run.sub \notin reported
  /\ run.pc \in {"emit", "approval"} => \A k \in clicked : k.sub # run.sub

(* The command was accepted: its receipt says so, or is about to.          *)
Taken(c) == receipts[c] = "accepted" \/ (job.pc = "accept" /\ job.cmd = c)

(* An approval of the submission, for the task, arrived; the Desktop took  *)
(* it, unless a crash has made it forget.                                  *)
Approved(s, t) ==
  \E c \in Commands :
    /\ CommandType[c] = "APPROVE_SUBMIT" /\ CommandSub[c] = s /\ CommandTask[c] = t
    /\ c \in delivered
    /\ crashes = 0 => Taken(c)

(* A submission that waits is undecided; one that is being clicked, or was *)
(* clicked, is approved and not rejected.                                  *)
Undecided ==
  \A c \in Commands :
    CommandType[c] \in DecisionTypes /\ Taken(c) => ~Waiting(CommandSub[c])

Unrejected ==
  \A c \in Commands :
    CommandType[c] = "REJECT_SUBMIT" /\ Taken(c) =>
      /\ run.pc = "click" => run.sub # CommandSub[c]
      /\ \A k \in clicked : k.sub # CommandSub[c]

ClicksApproved ==
  /\ run.pc = "click" => Approved(run.sub, run.task)
  /\ \A k \in clicked : Approved(k.sub, k.task)

DecisionsInv ==
  /\ SubmissionsInv
  /\ Undecided
  /\ Unrejected
  /\ ClicksApproved

(* A step in which no submission is drawn, announced, decided or clicked.  *)
Calm ==
  /\ UNCHANGED <<submissions, reported, clicked>>
  /\ run'.pc \in {"emit", "approval", "click"} =>
       run'.pc = run.pc /\ run'.sub = run.sub /\ run'.task = run.task

SubmissionSteps ==
  \/ Announce
  \/ EventServed /\ Announced /\ reported' = reported \cup {run.sub} /\ UNCHANGED clicked
  \/ Decided
  \/ FinishStep /\ run.pc = "click"
  \/ Calm

LEMMA SubmissionStep ==
  ASSUME IInv, [Next]_vars
  PROVE  SubmissionSteps
<1> USE DEF SubmissionSteps, Calm
<1>0. TypeOK
  BY DEF IInv
<1>1. ASSUME UNCHANGED runnerVars, UNCHANGED <<reported, clicked>>
      PROVE  Calm
  BY <1>1 DEF runnerVars
<1>2. ASSUME UNCHANGED worldVars
      PROVE  UNCHANGED <<reported, clicked>>
  BY <1>2 DEF worldVars
<1>3. ASSUME Fault
      PROVE  UNCHANGED <<reported, clicked>>
  BY <1>3 DEF Fault
<1>4. CASE Orchestrate
  <2>1. UNCHANGED <<reported, clicked>>
    BY <1>2, <1>4 DEF Orchestrate, StartTask, ResumeTask, Decide
  <2>2. CASE Pause
    BY <2>1, <2>2 DEF Pause
  <2>3. CASE Cancel
    <3>1. run'.pc \in {"emit", "approval", "click"} => run' = run
      BY <1>0, <2>3 DEF Cancel, TypeOK, RunnerTypeOK
    <3> QED
      BY <2>1, <2>3, <3>1 DEF Cancel
  <2>4. CASE StartTask
    <3>1. CASE ExecuteFresh(epoch + 1, CommandTask[job.cmd])
      BY <2>1, <3>1 DEF ExecuteFresh
    <3>2. CASE ExecuteUnparsable \/ ExecuteBusy
      BY <2>1, <3>2 DEF ExecuteUnparsable, ExecuteBusy, runnerVars
    <3> QED
      BY <2>4, <3>1, <3>2 DEF StartTask
  <2>5. CASE ResumeTask
    <3>1. CASE ExecuteResume(active.gen)
      <4>1. /\ run'.pc = (IF run.pc = "parked" THEN "step" ELSE run.pc)
            /\ run'.sub = run.sub /\ run'.task = run.task
        BY <1>0, <3>1 DEF ExecuteResume, TypeOK, RunnerTypeOK
      <4> QED
        BY <2>1, <3>1, <4>1 DEF ExecuteResume
    <3>2. CASE ExecuteNothingToResume
      BY <2>1, <3>2 DEF ExecuteNothingToResume
    <3> QED
      BY <2>5, <3>1, <3>2 DEF ResumeTask
  <2>6. CASE Decide /\ UNCHANGED worldVars
    BY <2>1, <1>1, <2>6 DEF Decide, Decided
  <2> QED
    BY <1>1, <1>4, <2>1, <2>2, <2>3, <2>4, <2>5, <2>6 DEF Orchestrate
<1>5. CASE OrchestrateFaulty
  BY <1>1, <1>3, <1>5 DEF OrchestrateFaulty
<1>6. CASE ServeEvent
  <2>1. CASE EventThrows /\ run' = [run EXCEPT !.pc = "denied"] /\ UNCHANGED submissions
    <3>1. run'.pc = "denied"
      BY <1>0, <2>1 DEF TypeOK, RunnerTypeOK
    <3>2. UNCHANGED <<reported, clicked>> \/ (EventServed /\ Announced)
      BY <1>2, <1>3, <1>6 DEF ServeEvent
    <3> QED
      BY <1>0, <1>6, <2>1, <3>1, <3>2 DEF ServeEvent, Announced, TypeOK, RunnerTypeOK
  <2> QED
    BY <1>6, <2>1 DEF ServeEvent
<1>7. CASE Execution
  <2>1. CASE EnterStep
    <3>1. run'.pc \in {"parked", "step"}
      BY <1>0, <2>1 DEF EnterStep, BeforeStep, TypeOK, RunnerTypeOK
    <3> QED
      BY <1>2, <2>1, <3>1 DEF EnterStep, BeforeStep
  <2>2. CASE (FinishStep /\ run.pc # "click") \/ Throw
    <3>1. UNCHANGED <<reported, clicked, submissions>>
      BY <1>2, <2>2 DEF FinishStep, Clicked, Throw, Settle, StepReturns, RunEnds
    <3>2. CASE StepReturns
      BY <1>0, <3>1, <3>2 DEF StepReturns, TypeOK, RunnerTypeOK
    <3>3. CASE RunEnds(NoTask)
      BY <3>1, <3>3 DEF RunEnds, NoRun
    <3>4. StepReturns \/ RunEnds(NoTask)
      BY <2>2 DEF FinishStep, Throw, Settle
    <3> QED
      BY <3>2, <3>3, <3>4
  <2> QED
    BY <1>7, <2>1, <2>2 DEF Execution
<1>8. CASE \E c \in Commands : Deliver(c)
  BY <1>1, <1>8 DEF Deliver
<1>9. CASE Crash
  BY <1>9 DEF Crash, NoRun
<1>10. CASE UNCHANGED vars
  BY <1>1, <1>2, <1>10 DEF vars
<1> QED
  BY <1>4, <1>5, <1>6, <1>7, <1>8, <1>9, <1>10 DEF Next

LEMMA SubmissionsInvStep ==
  ASSUME IInv, SubmissionsInv, [Next]_vars
  PROVE  SubmissionsInv'
<1> USE DEF SubmissionsInv
<1>0. /\ SubmissionSteps
      /\ TypeOK /\ submissions \in Nat /\ reported \subseteq Nat /\ run.sub \in Nat
      /\ \A k \in clicked : k.sub \in Nat
  BY SubmissionStep DEF IInv, TypeOK, RunnerTypeOK, WorldTypeOK
<1>1. CASE Announce
  <2>1. /\ submissions' = submissions + 1 /\ UNCHANGED <<reported, clicked>>
        /\ run'.sub = submissions + 1 /\ run'.pc = "emit"
    BY <1>0, <1>1 DEF Announce, RequestApproval, worldVars, TypeOK, RunnerTypeOK
  <2> QED
    BY <1>0, <2>1
<1>2. CASE EventServed /\ Announced /\ reported' = reported \cup {run.sub} /\ UNCHANGED clicked
  <2>1. run.pc = "emit"
    BY <1>0, <1>2, QueueTail DEF EventServed, IInv, QueueInv, Fits, TypeOK, OrchestratorTypeOK
  <2>2. run'.pc = "approval" /\ run'.sub = run.sub /\ submissions' = submissions
    BY <1>0, <1>2 DEF Announced, TypeOK, RunnerTypeOK
  <2> QED
    BY <1>0, <1>2, <2>1, <2>2
<1>3. CASE Decided
  <2>1. run.pc = "approval" /\ run'.sub = run.sub /\ run'.pc \in {"click", "denied"}
    BY <1>0, <1>3 DEF Decided, Resolve, Waiting, TypeOK, RunnerTypeOK
  <2> QED
    BY <1>0, <1>3, <2>1 DEF Decided, Resolve, worldVars
<1>4. CASE FinishStep /\ run.pc = "click"
  <2>1. run'.pc \in {"none", "before"}
    <3>1. CASE StepReturns
      BY <1>0, <3>1 DEF StepReturns, TypeOK, RunnerTypeOK
    <3>2. CASE RunEnds(NoTask)
      BY <3>2 DEF RunEnds, NoRun
    <3> QED
      BY <1>4, <3>1, <3>2 DEF FinishStep, Settle
  <2>2. UNCHANGED <<submissions, reported>>
    BY <1>4 DEF FinishStep, Settle, StepReturns, RunEnds
  <2>3. \A k \in clicked' : k \in clicked \/ k.sub = run.sub
    BY <1>4 DEF FinishStep, Clicked
  <2> QED
    BY <1>4, <2>1, <2>2, <2>3
<1>5. CASE Calm
  BY <1>5 DEF Calm
<1> QED
  BY <1>0, <1>1, <1>2, <1>3, <1>4, <1>5 DEF SubmissionSteps

(* A decision the Desktop takes was delivered, and what it has taken it    *)
(* keeps, but for a crash.                                                 *)
LEMMA TakenIsKnown ==
  ASSUME TypeOK, AnswersInv, NEW c \in Commands, Taken(c)
  PROVE  /\ c \in delivered
         /\ CommandType[c] \in DecisionTypes => CommandSub[c] \in reported
         /\ receipts[c] # "rejected"
  BY DEF Taken, AnswersInv, Final

LEMMA TakenStays ==
  ASSUME TypeOK, AnswersInv, JobSteps, NEW c \in Commands
  PROVE  /\ Taken(c) => Taken(c)' \/ Crash
         /\ Taken(c)' /\ CommandType[c] \in DecisionTypes =>
              \/ Taken(c)
              \/ Decided /\ job.cmd = c
<1> USE DEF Taken
<1>0. receipts \in [Commands -> {"none", "processing", "accepted", "rejected"}]
  BY DEF TypeOK, OrchestratorTypeOK
<1>1. CASE Begin \/ Expire
  <2>1. job.pc = "free" /\ job'.pc # "accept"
    BY <1>1 DEF Begin, Expire
  <2>2. \/ receipts' = receipts
        \/ /\ receipts' = [receipts EXCEPT ![Head(commandQueue).cmd] = "processing"]
           /\ ~Final(Head(commandQueue).cmd)
    BY <1>1 DEF Begin, Expire, diskVars
  <2> QED
    BY <1>0, <2>1, <2>2 DEF Final
<1>2. CASE Reply
  BY <1>0, <1>2 DEF Reply, NoJob, AnswersInv, Final, TypeOK, OrchestratorTypeOK
<1>3. CASE Crash
  BY <1>3 DEF Crash, Restart, NoJob, diskVars
<1>4. CASE GoesOn
  BY <1>4 DEF GoesOn
<1>5. CASE UNCHANGED <<job, receipts>>
  BY <1>5
<1> QED
  BY <1>1, <1>2, <1>3, <1>4, <1>5 DEF JobSteps

LEMMA CrashesCounted ==
  ASSUME TypeOK, [Next]_vars
  PROVE  crashes' = 0 => crashes = 0 /\ ~Crash
<1>1. CASE Crash
  BY <1>1 DEF Crash, TypeOK, WorldTypeOK
<1>2. CASE ~Crash
  <2>1. crashes' = crashes
    BY <1>2 DEF Next, Deliver, Orchestrate, OrchestrateFaulty, StartTask, ResumeTask, Decide,
       Fault, ServeEvent, Execution, EnterStep, Announce, FinishStep, Throw, vars, worldVars
  <2> QED
    BY <1>2, <2>1
<1> QED
  BY <1>1, <1>2

(* An approval is not lost.                                                *)
LEMMA ApprovedStays ==
  ASSUME TypeOK, AnswersInv, [Next]_vars, NEW s, NEW t, Approved(s, t)
  PROVE  Approved(s, t)'
<1>1. PICK c \in Commands :
        /\ CommandType[c] = "APPROVE_SUBMIT" /\ CommandSub[c] = s /\ CommandTask[c] = t
        /\ c \in delivered
        /\ crashes = 0 => Taken(c)
  BY DEF Approved
<1>2. c \in delivered'
  BY <1>1, WorldGrows
<1>3. crashes' = 0 => Taken(c)'
  BY <1>1, JobStep, TakenStays, CrashesCounted
<1> QED
  BY <1>1, <1>2, <1>3 DEF Approved

LEMMA DecisionsStep ==
  ASSUME IInv, AnswersInv, DecisionsInv, [Next]_vars
  PROVE  DecisionsInv'
<1>0. /\ SubmissionSteps /\ SubmissionsInv /\ SubmissionsInv'
      /\ TypeOK /\ JobSteps
  <2>1. TypeOK /\ SubmissionsInv
    BY DEF IInv, DecisionsInv
  <2>2. SubmissionSteps /\ SubmissionsInv' /\ JobSteps
    BY <2>1, SubmissionStep, SubmissionsInvStep, JobStep
  <2> QED
    BY <2>1, <2>2
<1>1. \A s, t : Approved(s, t) => Approved(s, t)'
  BY <1>0, ApprovedStays
<1>2. \A c \in Commands : Taken(c)' /\ CommandType[c] \in DecisionTypes =>
        \/ Taken(c) /\ c \in delivered /\ CommandSub[c] \in reported
        \/ Decided /\ job.cmd = c
  BY <1>0, TakenStays, TakenIsKnown
<1>3. ASSUME ~Decided,
             run'.pc \in {"approval", "click"} =>
               run'.pc = run.pc /\ run'.sub = run.sub /\ run'.task = run.task,
             clicked' = clicked
      PROVE  Undecided' /\ Unrejected' /\ ClicksApproved'
  <2>1. Undecided'
    BY <1>2, <1>3 DEF DecisionsInv, Undecided, Waiting
  <2>2. Unrejected'
    BY <1>2, <1>3 DEF DecisionsInv, Unrejected, DecisionTypes
  <2>3. ClicksApproved'
    BY <1>1, <1>3 DEF DecisionsInv, ClicksApproved, Approved
  <2> QED
    BY <2>1, <2>2, <2>3
<1>4. CASE Announce /\ ~Decided
  <2>1. run'.pc = "emit" /\ clicked' = clicked
    BY <1>0, <1>4 DEF Announce, RequestApproval, worldVars, TypeOK, RunnerTypeOK
  <2> QED
    BY <1>0, <1>3, <1>4, <2>1 DEF DecisionsInv
<1>5. CASE /\ EventServed /\ Announced /\ reported' = reported \cup {run.sub}
           /\ UNCHANGED clicked /\ ~Decided
  <2>1. run.pc = "emit"
    BY <1>0, <1>5, QueueTail DEF EventServed, IInv, QueueInv, Fits, TypeOK, OrchestratorTypeOK
  <2>2. run'.pc = "approval" /\ run'.sub = run.sub
    BY <1>0, <1>5 DEF Announced, TypeOK, RunnerTypeOK
  <2>4. Undecided'
    BY <1>0, <1>2, <1>5, <2>1, <2>2 DEF Undecided, Waiting, SubmissionsInv
  <2>5. Unrejected'
    BY <1>2, <1>5, <2>2 DEF DecisionsInv, Unrejected, DecisionTypes
  <2>6. ClicksApproved'
    BY <1>1, <1>5, <2>2 DEF DecisionsInv, ClicksApproved, Approved
  <2> QED
    BY <1>0, <2>4, <2>5, <2>6 DEF DecisionsInv
<1>6. CASE Decided
  <2>0. PICK d \in Commands : d = job.cmd
    BY <1>0, <1>6 DEF Decided, DecisionTaken, TypeOK, OrchestratorTypeOK
  <2>1. /\ d \in delivered /\ Addressed /\ CommandType[d] \in DecisionTypes
        /\ Taken(d)'
    BY <1>0, <1>6, <2>0, JobAt DEF Decided, DecisionTaken, AnswersInv, TypeOK,
       OrchestratorTypeOK, Taken
  <2>2. /\ run.pc = "approval" /\ run.sub = CommandSub[d]
        /\ run'.sub = run.sub /\ run'.task = run.task
        /\ run'.pc = (IF CommandType[d] = "APPROVE_SUBMIT" THEN "click" ELSE "denied")
    BY <1>0, <1>6, <2>0 DEF Decided, Resolve, Waiting, TypeOK, RunnerTypeOK
  <2>3. run.task = CommandTask[d]
    BY <2>0, <2>1, <2>2 DEF IInv, ApprovalIsRecorded, RunInv
  <2>4. UNCHANGED <<clicked, reported, delivered>>
    BY <1>6 DEF Decided, worldVars
  <2>5. \A c \in Commands : Taken(c)' /\ CommandType[c] \in DecisionTypes =>
          \/ Taken(c) /\ CommandSub[c] # run.sub
          \/ c = d
    BY <1>2, <2>0, <2>2 DEF DecisionsInv, Undecided, Waiting
  <2>6. \A k \in clicked : k.sub # run.sub
    BY <1>0, <2>2 DEF SubmissionsInv
  <2>7. Undecided'
    BY <2>2 DEF Undecided, Waiting
  <2>8. Unrejected'
    BY <2>2, <2>4, <2>5, <2>6 DEF DecisionsInv, Unrejected, DecisionTypes
  <2>9. ClicksApproved'
    <3>1. run'.pc = "click" => /\ CommandType[d] = "APPROVE_SUBMIT" /\ CommandSub[d] = run'.sub
                               /\ CommandTask[d] = run'.task /\ d \in delivered'
                               /\ crashes' = 0 => Taken(d)'
      BY <2>1, <2>2, <2>3, <2>4
    <3>2. run'.pc = "click" => \E c \in Commands :
            /\ CommandType[c] = "APPROVE_SUBMIT" /\ CommandSub[c] = run'.sub
            /\ CommandTask[c] = run'.task /\ c \in delivered'
            /\ crashes' = 0 => Taken(c)'
      BY <2>1, <3>1
    <3>3. \A k \in clicked' : Approved(k.sub, k.task)'
      BY <1>1, <2>4 DEF DecisionsInv, ClicksApproved
    <3> QED
      BY <3>2, <3>3 DEF ClicksApproved, Approved
  <2> QED
    BY <1>0, <2>7, <2>8, <2>9 DEF DecisionsInv
<1>7. CASE FinishStep /\ run.pc = "click" /\ ~Decided
  <2>1. run'.pc \in {"none", "before"}
    <3>1. CASE StepReturns
      BY <1>0, <3>1 DEF StepReturns, TypeOK, RunnerTypeOK
    <3>2. CASE RunEnds(NoTask)
      BY <3>2 DEF RunEnds, NoRun
    <3> QED
      BY <1>7, <3>1, <3>2 DEF FinishStep, Settle
  <2>3. clicked' = clicked \cup {[sub |-> run.sub, task |-> run.task]}
    BY <1>7 DEF FinishStep, Clicked
  <2>4. Undecided'
    BY <2>1 DEF Undecided, Waiting
  <2>5. Unrejected'
    BY <1>2, <1>7, <2>1, <2>3 DEF DecisionsInv, Unrejected, DecisionTypes
  <2>6. ClicksApproved'
    <3>1. Approved(run.sub, run.task)
      BY <1>7 DEF DecisionsInv, ClicksApproved
    <3>2. \A k \in clicked' : Approved(k.sub, k.task)
      BY <2>3, <3>1 DEF DecisionsInv, ClicksApproved
    <3>3. \A k \in clicked' : Approved(k.sub, k.task)'
      BY <1>1, <3>2
    <3> QED
      BY <2>1, <3>3 DEF ClicksApproved, Approved
  <2> QED
    BY <1>0, <2>4, <2>5, <2>6 DEF DecisionsInv
<1>8. CASE Calm /\ ~Decided
  BY <1>0, <1>3, <1>8 DEF Calm, DecisionsInv
<1> QED
  BY <1>0, <1>4, <1>5, <1>6, <1>7, <1>8 DEF SubmissionSteps

(* Every submission's decision is on record.                               *)
THEOREM DecisionsHold == Spec => []DecisionsInv
<1>1. Init => DecisionsInv
  <2> SUFFICES ASSUME Init PROVE DecisionsInv
    OBVIOUS
  <2>1. run.pc = "none" /\ reported = {} /\ clicked = {} /\ job.pc = "free"
    BY DEF Init, RunnerInit, NoRun, OrchestratorInit, NoJob
  <2> QED
    BY <2>1 DEF DecisionsInv, SubmissionsInv, Undecided, Unrejected, ClicksApproved, Waiting
<1>2. IInv /\ AnswersInv /\ DecisionsInv /\ [Next]_vars => DecisionsInv'
  BY DecisionsStep
<1> QED
  BY <1>1, <1>2, Invariance, AnswersHold, PTL DEF Spec

(* A form is submitted only after an approval of that submission, for that *)
(* task, and never after its rejection was accepted.                       *)
THEOREM NoClickUnapproved == Spec => []SubmitOnlyWhenApproved
<1>1. IInv /\ AnswersInv /\ DecisionsInv => SubmitOnlyWhenApproved
  <2> SUFFICES ASSUME IInv, AnswersInv, DecisionsInv, NEW k \in clicked
               PROVE  /\ \E c \in Commands :
                           /\ CommandType[c] = "APPROVE_SUBMIT"
                           /\ CommandSub[c] = k.sub /\ CommandTask[c] = k.task
                           /\ c \in delivered
                           /\ crashes = 0 => receipts[c] # "rejected"
                      /\ \A c \in Commands :
                           CommandType[c] = "REJECT_SUBMIT" /\ CommandSub[c] = k.sub
                             => receipts[c] # "accepted"
    BY DEF SubmitOnlyWhenApproved
  <2>1. \A c \in Commands : Taken(c) => receipts[c] # "rejected"
    BY TakenIsKnown DEF IInv
  <2>2. Approved(k.sub, k.task)
    BY DEF DecisionsInv, ClicksApproved
  <2>3. \A c \in Commands : CommandType[c] = "REJECT_SUBMIT" /\ Taken(c) => k.sub # CommandSub[c]
    BY DEF DecisionsInv, Unrejected
  <2> QED
    BY <2>1, <2>2, <2>3 DEF Approved, Taken
<1> QED
  BY <1>1, Invariance, AnswersHold, DecisionsHold, PTL

=============================================================================
