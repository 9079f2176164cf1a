------------------------- MODULE OrchestratorProofs -------------------------
(***************************************************************************)
(* Lemmas about the operators of Orchestrator, for whatever executor is    *)
(* composed with them: what an operation of the queue does to the types,   *)
(* the queue and the job.                                                  *)
(***************************************************************************)
EXTENDS Orchestrator, SequenceTheorems, TLAPS

USE DEF Addressed, Serving, NextIs, At

(* The steps of processCommand that call no executor.                      *)
ServesCommand ==
  \/ RepeatReply \/ Begin \/ Expire \/ Reply
  \/ StartRefused \/ StartInadmissible \/ StartNavigates \/ StartFails
  \/ ControlRefused
  \/ PauseCompletes \/ PauseProbeFails
  \/ TakeoverCompletes \/ TakeoverRefused \/ TakeoverHalfDone
  \/ ResumeRefused
  \/ CancelCompletes \/ CancelProbeFails

-----------------------------------------------------------------------------
(* Typing.                                                                 *)

(* What an operation is, by its kind.                                      *)
LEMMA OpShape ==
  ASSUME NEW op \in Op
  PROVE  /\ op.kind \in {"command", "event", "outcome"}
         /\ op.gen \in Nat
         /\ op.kind = "command" => op.cmd \in Commands
         /\ op.kind = "event" => op.state \in TaskStates
  BY DEF Op

LEMMA OpsBuilt ==
  /\ \A c \in Commands : CommandOp(c) \in Op
  /\ \A g \in Nat, s \in TaskStates : EventOp(g, s) \in Op
  /\ \A g \in Nat, s \in {"succeeded", "failed"} : OutcomeOp(g, s) \in Op
  BY DEF CommandOp, EventOp, OutcomeOp, Op

(* The outcomes of a run that settles form a sequence of operations.       *)
LEMMA OutcomesType ==
  ASSUME NEW gens \in Seq(Nat), NEW s \in {"succeeded", "failed"}
  PROVE  /\ Outcomes(gens, s) \in Seq(Op)
         /\ Len(Outcomes(gens, s)) = Len(gens)
         /\ \A i \in 1..Len(gens) : Outcomes(gens, s)[i] = OutcomeOp(gens[i], s)
<1> DEFINE n == Len(gens)
<1>1. n \in Nat /\ gens \in [1..n -> Nat] /\ DOMAIN gens = 1..n
  BY LenProperties
<1>2. Outcomes(gens, s) \in [1..n -> Op]
  BY <1>1, OpsBuilt DEF Outcomes
<1>3. Outcomes(gens, s) \in Seq(Op)
  BY <1>1, <1>2, SeqDef
<1>4. Len(Outcomes(gens, s)) = n
  BY <1>1, <1>2, <1>3, LenProperties
<1> QED
  BY <1>1, <1>3, <1>4 DEF Outcomes

(* One operation less, or some more, is still a queue.                     *)
LEMMA QueueTypes ==
  ASSUME commandQueue \in Seq(Op)
  PROVE  /\ commandQueue # <<>> => Head(commandQueue) \in Op /\ Tail(commandQueue) \in Seq(Op)
         /\ \A op \in Op : Append(commandQueue, op) \in Seq(Op)
         /\ \A ops \in Seq(Op) : commandQueue \o ops \in Seq(Op)
  BY HeadTailProperties, AppendProperties, ConcatProperties

(* A granted lease is a lease.                                             *)
LEMMA GrantType ==
  ASSUME LeaseTypeOK, NEW t \in Tasks, NEW holder \in Holder, Grant(t, holder)
  PROVE  LeaseTypeOK' /\ lease' \in Lease /\ lease' = [task |-> t, holder |-> holder,
                                                      epoch |-> epoch + 1]
  BY DEF LeaseTypeOK, Grant, CreateLease, Lease

(* A lease that exists has a task, and the active task that keeps its      *)
(* token is one.                                                           *)
LEMMA HeldType ==
  ASSUME OrchestratorTypeOK, Held
  PROVE  /\ lease \in Lease /\ lease.task \in Tasks
         /\ active.lease.epoch = lease.epoch => active \in ActiveTask
  BY DEF OrchestratorTypeOK, LeaseTypeOK, Held, Lease, NoActive, NoLease

(* Saving a checkpoint.                                                    *)
LEMMA SaveType ==
  ASSUME OrchestratorTypeOK, NEW t, NEW s \in TaskStates, SaveCheckpoint(t, s)
  PROVE  checkpoints' \in [Tasks -> TaskStates] /\ records' \in [Tasks -> TaskStates]
  BY DEF OrchestratorTypeOK, SaveCheckpoint

(* What each operation of the orchestrator does to its own variables.      *)
LEMMA OrchestratorType ==
  ASSUME OrchestratorTypeOK,
         NEW ops \in Seq(Op), NEW kind \in Automation,
         \/ ServesCommand \/ PauseBegins \/ CancelBegins
         \/ StartLaunches(kind, ops) \/ ResumeSucceeds(kind, ops)
         \/ DecisionTaken \/ DecisionRefused
         \/ EventServed \/ EventThrows
         \/ OutcomeIgnored \/ OutcomeRecorded \/ OutcomeProbeFails
         \/ Enqueue(ops) \/ Restart \/ (\E c \in Commands : Handle(c))
  PROVE  OrchestratorTypeOK'
<1> USE CommandsAssumption, NoTaskAssumption, QueueTypes, OpShape, OpsBuilt
    DEF OrchestratorTypeOK, LeaseTypeOK, Throws, leaseVars, diskVars, JobPcs, NoJob
<1>1. CASE RepeatReply  BY <1>1 DEF RepeatReply
<1>2. CASE Begin        BY <1>2 DEF Begin
<1>3. CASE Expire       BY <1>3 DEF Expire
<1>4. CASE Reply        BY <1>4 DEF Reply
<1>5. CASE StartRefused BY <1>5 DEF StartRefused
<1>6. CASE StartInadmissible BY <1>6 DEF StartInadmissible
<1>7. CASE StartNavigates BY <1>7 DEF StartNavigates, TaskStates
<1>8. CASE StartFails   BY <1>8 DEF StartFails
<1>9. CASE StartLaunches(kind, ops)
  <2>1. CommandTask[job.cmd] \in Tasks /\ kind \in Holder
    BY <1>9 DEF StartLaunches, Holder
  <2>2. LeaseTypeOK' /\ lease' \in Lease /\ epoch' = epoch + 1
    BY <1>9, <2>1, GrantType DEF StartLaunches, Acquire, Grant
  <2>3. active' \in ActiveTask
    BY <1>9, <2>1, <2>2 DEF StartLaunches, ActiveTask
  <2>4. checkpoints' \in [Tasks -> TaskStates] /\ records' \in [Tasks -> TaskStates]
    BY <1>9, SaveType DEF StartLaunches, TaskStates
  <2> QED
    BY <1>9, <2>1, <2>2, <2>3, <2>4 DEF StartLaunches
<1>10. CASE ControlRefused BY <1>10 DEF ControlRefused
<1>11. CASE PauseBegins BY <1>11 DEF PauseBegins
<1>12. CASE PauseCompletes BY <1>12 DEF PauseCompletes, SaveCheckpoint, TaskStates
<1>13. CASE PauseProbeFails BY <1>13 DEF PauseProbeFails
<1>14. CASE TakeoverCompletes
  <2>1. CanTransfer(active.lease.epoch) /\ Grant(lease.task, "human")
    BY <1>14 DEF TakeoverCompletes, TransferToHuman
  <2>2. lease.task \in Tasks /\ active \in ActiveTask
    BY <2>1, HeldType DEF CanTransfer
  <2>3. LeaseTypeOK' /\ lease' \in Lease
    BY <2>1, <2>2, GrantType DEF Holder
  <2>4. active' \in ActiveTask
    BY <1>14, <2>2, <2>3 DEF TakeoverCompletes, ActiveTask
  <2>5. checkpoints' \in [Tasks -> TaskStates] /\ records' \in [Tasks -> TaskStates]
    BY <1>14, SaveType DEF TakeoverCompletes, TaskStates
  <2> QED
    BY <1>14, <2>3, <2>4, <2>5 DEF TakeoverCompletes
<1>15. CASE TakeoverRefused BY <1>15 DEF TakeoverRefused
<1>16. CASE TakeoverHalfDone
  <2>1. CanTransfer(active.lease.epoch) /\ Grant(lease.task, "human")
    BY <1>16 DEF TakeoverHalfDone, TransferToHuman
  <2>2. lease.task \in Tasks /\ active \in ActiveTask
    BY <2>1, HeldType DEF CanTransfer
  <2>3. LeaseTypeOK' /\ lease' \in Lease
    BY <2>1, <2>2, GrantType DEF Holder
  <2>4. active' \in ActiveTask
    BY <1>16, <2>2, <2>3 DEF TakeoverHalfDone, ActiveTask
  <2> QED
    BY <1>16, <2>3, <2>4 DEF TakeoverHalfDone
<1>17. CASE ResumeRefused BY <1>17 DEF ResumeRefused
<1>18. CASE ResumeSucceeds(kind, ops)
  <2>1. CanResumeAfterHuman(active.lease.epoch, TRUE) /\ Grant(lease.task, kind)
    BY <1>18 DEF ResumeSucceeds, ResumeAfterHuman
  <2>2. lease.task \in Tasks /\ active \in ActiveTask
    BY <2>1, HeldType DEF CanResumeAfterHuman
  <2>3. LeaseTypeOK' /\ lease' \in Lease
    BY <2>1, <2>2, GrantType DEF Holder
  <2>4. active' \in ActiveTask /\ active.task \in Tasks
    BY <1>18, <2>2, <2>3 DEF ResumeSucceeds, ActiveTask
  <2>5. checkpoints' \in [Tasks -> TaskStates] /\ records' \in [Tasks -> TaskStates]
    BY <1>18, SaveType DEF ResumeSucceeds, TaskStates
  <2> QED
    BY <1>18, <2>3, <2>4, <2>5 DEF ResumeSucceeds
<1>19. CASE CancelBegins BY <1>19 DEF CancelBegins, Release
<1>20. CASE CancelCompletes BY <1>20 DEF CancelCompletes, SaveCheckpoint, TaskStates,
     TerminalStates
<1>21. CASE CancelProbeFails BY <1>21 DEF CancelProbeFails
<1>22. CASE DecisionTaken BY <1>22 DEF DecisionTaken
<1>23. CASE DecisionRefused BY <1>23 DEF DecisionRefused
<1>24. CASE EventServed BY <1>24 DEF EventServed, SaveCheckpoint
<1>25. CASE EventThrows BY <1>25 DEF EventThrows
<1>26. CASE OutcomeIgnored BY <1>26 DEF OutcomeIgnored
<1>27. CASE OutcomeRecorded BY <1>27 DEF OutcomeRecorded, SaveCheckpoint, FinalState,
     TaskStates, TerminalStates, Release
<1>28. CASE OutcomeProbeFails BY <1>28 DEF OutcomeProbeFails, Release
<1>29. CASE Enqueue(ops) BY <1>29 DEF Enqueue
<1>30. CASE Restart BY <1>30, EmptySeq DEF Restart
<1>31. CASE \E c \in Commands : Handle(c) BY <1>31 DEF Handle
<1> QED
  BY <1>1, <1>2, <1>3, <1>4, <1>5, <1>6, <1>7, <1>8, <1>9, <1>10, <1>11, <1>12, <1>13,
     <1>14, <1>15, <1>16, <1>17, <1>18, <1>19, <1>20, <1>21, <1>22, <1>23, <1>24, <1>25,
     <1>26, <1>27, <1>28, <1>29, <1>30, <1>31 DEF ServesCommand

-----------------------------------------------------------------------------
(* The queue and the job.                                                  *)

(* The first operation and the ones behind it.                             *)
LEMMA QueueTail ==
  ASSUME commandQueue \in Seq(Op), commandQueue # <<>>
  PROVE  /\ 1 \in 1..Len(commandQueue)
         /\ Head(commandQueue) = commandQueue[1]
         /\ \A i \in 1..Len(Tail(commandQueue)) :
              /\ i + 1 \in 1..Len(commandQueue)
              /\ Tail(commandQueue)[i] = commandQueue[i + 1]
<1>1. Len(commandQueue) \in Nat \ {0}
  BY EmptySeq
<1>2. Len(Tail(commandQueue)) = Len(commandQueue) - 1
  BY HeadTailProperties
<1> QED
  BY <1>1, <1>2, HeadTailProperties

(* The operations of a queue that has grown.                               *)
LEMMA QueueJoin ==
  ASSUME commandQueue \in Seq(Op), NEW ops \in Seq(Op)
  PROVE  \A i \in 1..Len(commandQueue \o ops) :
           \/ i \in 1..Len(commandQueue) /\ (commandQueue \o ops)[i] = commandQueue[i]
           \/ /\ i - Len(commandQueue) \in 1..Len(ops)
              /\ (commandQueue \o ops)[i] = ops[i - Len(commandQueue)]
<1>1. Len(commandQueue) \in Nat /\ Len(ops) \in Nat
  BY LenProperties
<1> QED
  BY <1>1, ConcatProperties

(* Only the pc of the job changes.                                         *)
LEMMA JobAt ==
  ASSUME OrchestratorTypeOK, NEW pc, job' = At(pc)
  PROVE  job'.pc = pc /\ job'.cmd = job.cmd
  BY DEF OrchestratorTypeOK

=============================================================================
