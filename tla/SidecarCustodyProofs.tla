------------------------ MODULE SidecarCustodyProofs ------------------------
(***************************************************************************)
(* Proofs about SidecarDesktop, second part: which task the lease, the     *)
(* adapter's execution and the agent belong to.                            *)
(*                                                                         *)
(* Custody, the inductive invariant, says that the task of the adapter's   *)
(* execution holds the lease until its result is on its way, whatever the  *)
(* human, the faults and the other tasks do in between.  Its preservation  *)
(* needs Books of SidecarHandoverProofs: which answer names which task,    *)
(* and in what order the worker writes them.                               *)
(***************************************************************************)
EXTENDS SidecarHandoverProofs

USE DEF Addressed, Serving, NextIs, At

(* An acknowledgement names the task of its request.                       *)
AnswerInv ==
  \A c \in Range(pending) :
    /\ \A l \in Range(serving) : l.id = c.id => l.task = c.task
    /\ \A r \in Range(stdout) : r.type = "ack" /\ r.id = c.id => r.task = c.task

(* The request the orchestrator awaits is about the adapter's task.        *)
AsksInv ==
  control.pc = "waiting" /\ call.pc # "none" =>
    /\ \A c \in Range(pending) : c.id = control.id => c.task = call.task
    /\ \A l \in Range(stdin) : l.id = control.id => l.task = call.task
    /\ \A l \in Range(serving) : l.id = control.id => l.task = call.task
    /\ \A r \in Range(stdout) : r.type = "ack" /\ r.id = control.id => r.task = call.task

(* The adapter has a task it will execute, or is executing.                *)
Engaged == call.pc = "target" \/ Execution

(* A task that has no execution yet is neither handed over nor cancelled.  *)
TurnInv ==
  /\ call.pc = "target" => ~active.awaiting /\ control.pc # "done"
  /\ job.pc = "cancelling" => ~Engaged

(* The ActiveTask is the one of the adapter's task, holds the lease, and   *)
(* no outcome waits to end it.                                             *)
Mine ==
  /\ active.gen # 0 /\ active.task = call.task
  /\ Held /\ lease.task = call.task
  /\ \A op \in Range(commandQueue) : op.kind = "outcome" => op.gen # active.gen

(* The worker has written the result of the adapter's task.                *)
Reported == \E r \in Range(stdout) : r.type = "result" /\ r.task = call.task
Accepted == AgentIsCalls \/ Reported

(* The adapter's task holds the lease until its result is written.         *)
CustodyInv ==
  /\ call.pc = "target" => Mine
  /\ Execution => Mine \/ Reported

(* Whatever shows that the worker has accepted the execution.              *)
AcceptInv ==
  Execution =>
    /\ call.pc = "running" => Accepted
    /\ \A r \in Range(stdout) : r.type = "ack" /\ r.task = call.task => Accepted
    /\ \A l \in Range(serving) : l.task = call.task => Accepted
    /\ \A c \in Range(pending) : c.type = "resume" /\ c.task = call.task => Accepted
    /\ control.pc = "done" => Accepted /\ job.pc = "pausing" /\ active.task = call.task
    /\ active.awaiting => Accepted /\ active.task = call.task
    /\ AgentIsCalls /\ ~Running => Reported

(* A cancellation, or a pause that another task asks for, is acknowledged  *)
(* after the result is written.                                            *)
OrderInv ==
  control.pc = "waiting" /\ Execution /\ (job.pc # "pausing" \/ active.task # call.task) =>
    Leads(stdout, Results(call.task), Acks(control.id))

(* A resume is made for the adapter's task, and only a worker that has     *)
(* written the result refuses it.                                          *)
ResumeInv ==
  \A c \in Range(pending) : c.type = "resume" =>
    /\ c.gen = active.gen =>
         c.task = active.task /\ (call.pc # "none" => call.task = active.task)
    /\ (/\ Execution /\ c.sent /\ c.task = call.task
        /\ \A l \in Range(stdin) : l.id # c.id
        /\ \A r \in Range(stdout) : r.type = "ack" => r.id # c.id) => Reported

(* The adapter knows the execution that runs, or waits to be read.         *)
KeptInv ==
  ~abandoned =>
    /\ Running => Execution /\ exec.task = call.task
    /\ \A l \in Range(stdin) : l.type = "execute" => Execution /\ l.task = call.task

(* Success is told, queued and recorded for the task that achieved it.     *)
Succeeds(op) == op.kind = "outcome" /\ op.state = "succeeded"
EarnedInv ==
  /\ SuccessIsEarned
  /\ \A r \in Range(stdout) : r.status = "succeeded" => r.task \in achieved
  /\ \A op \in Range(commandQueue) :
       Succeeds(op) /\ op.gen = active.gen => active.task \in achieved
  /\ \A g \in Range(call.waiting) :
       call.pc # "none" /\ g = active.gen => active.task = call.task

Custody ==
  /\ AnswerInv /\ AsksInv /\ TurnInv /\ CustodyInv /\ AcceptInv /\ OrderInv /\ ResumeInv
  /\ KeptInv /\ EarnedInv


-----------------------------------------------------------------------------
(* The orchestrator's turn: neither the pipes nor the adapter's task       *)
(* change, a control request that has returned is forgotten, and the       *)
(* ActiveTask stays what it was unless its task is over.                   *)
Turns ==
  /\ UNCHANGED <<clientVars, workerVars, call, abandoned, achieved>>
  /\ \/ UNCHANGED control /\ (control.pc # "none" => UNCHANGED <<job, active>>)
     \/ control' = NoControl
  /\ active'.gen = 0 \/ (active'.gen = active.gen /\ active'.task = active.task)
  /\ active'.awaiting => (active.awaiting \/ control.pc = "done") /\ active'.task = active.task
  /\ job'.pc = "cancelling" => job.pc = "cancelling" \/ ~Engaged
  /\ Engaged /\ Mine => Mine'
  /\ \A op \in Range(commandQueue') : Succeeds(op) => op \in Range(commandQueue)
  /\ \A t \in Tasks : checkpoints'[t] = "SUCCEEDED" =>
       \/ checkpoints[t] = "SUCCEEDED"
       \/ /\ t = active.task
          /\ \E op \in Range(commandQueue) : Succeeds(op) /\ op.gen = active.gen

LEMMA TurnsKeep ==
  ASSUME Books, Custody, Turns
  PROVE  Custody'
<1> USE DEF Books, Custody
<1>0. /\ UNCHANGED <<process, pending, requests, stdin, stdout, serving, exec, call, abandoned,
                     achieved>>
      /\ \/ UNCHANGED control /\ (control.pc # "none" => UNCHANGED <<job, active>>)
         \/ control' = NoControl /\ control'.pc = "none"
  BY DEF Turns, clientVars, workerVars, NoControl
<1>1. AnswerInv'
  BY <1>0 DEF AnswerInv
<1>2. AsksInv'
  BY <1>0 DEF AsksInv
<1>3. TurnInv'
  BY <1>0 DEF TurnInv, Turns, Engaged, Execution
<1>4. /\ Execution' = Execution /\ (Reported => Reported') /\ (Accepted => Accepted')
      /\ AgentIsCalls' = AgentIsCalls /\ Running' = Running
  BY <1>0 DEF Execution, Reported, Accepted, AgentIsCalls, Running
<1>5. CustodyInv'
  <2>1. call'.pc = "target" => Mine'
    BY <1>0 DEF CustodyInv, Turns, Engaged
  <2>2. Execution' => Mine' \/ Reported'
    BY <1>4 DEF CustodyInv, Turns, Engaged
  <2> QED
    BY <2>1, <2>2 DEF CustodyInv
<1>6. AcceptInv'
  <2> SUFFICES ASSUME Execution'
               PROVE  /\ call'.pc = "running" => Accepted'
                      /\ \A r \in Range(stdout') : r.type = "ack" /\ r.task = call'.task => Accepted'
                      /\ \A l \in Range(serving') : l.task = call'.task => Accepted'
                      /\ \A c \in Range(pending') :
                           c.type = "resume" /\ c.task = call'.task => Accepted'
                      /\ control'.pc = "done" =>
                           Accepted' /\ job'.pc = "pausing" /\ active'.task = call'.task
                      /\ active'.awaiting => Accepted' /\ active'.task = call'.task
                      /\ AgentIsCalls' /\ ~Running' => Reported'
    BY DEF AcceptInv
  <2>1. control'.pc = "done" => Accepted' /\ job'.pc = "pausing" /\ active'.task = call'.task
    BY <1>0, <1>4 DEF AcceptInv
  <2>2. active'.awaiting => Accepted' /\ active'.task = call'.task
    BY <1>0, <1>4 DEF AcceptInv, Turns
  <2> QED
    BY <1>0, <1>4, <2>1, <2>2 DEF AcceptInv
<1>7. OrderInv'
  BY <1>0, <1>4 DEF OrderInv, Results, Acks
<1>8. ResumeInv'
  <2> SUFFICES ASSUME NEW c \in Range(pending), c.type = "resume"
               PROVE  /\ c.gen = active'.gen =>
                           c.task = active'.task /\ (call'.pc # "none" => call'.task = active'.task)
                      /\ (/\ Execution' /\ c.sent /\ c.task = call'.task
                          /\ \A l \in Range(stdin') : l.id # c.id
                          /\ \A r \in Range(stdout') : r.type = "ack" => r.id # c.id) => Reported'
    BY <1>0 DEF ResumeInv
  <2>1. c.gen # 0
    BY DEF GenInv
  <2> QED
    BY <1>0, <1>4, <2>1 DEF ResumeInv, Turns
<1>9. KeptInv'
  BY <1>0, <1>4 DEF KeptInv
<1>10. EarnedInv'
  <2>1. \A op \in Range(commandQueue') : Succeeds(op) => op.gen # 0 /\ op \in Range(commandQueue)
    BY DEF Turns, Succeeds, GenInv
  <2>2. \A g \in Range(call.waiting) : g # 0
    BY DEF GenInv
  <2>3. SuccessIsEarned'
    BY <1>0 DEF SuccessIsEarned, EarnedInv, Turns
  <2>4. \A op \in Range(commandQueue') :
          Succeeds(op) /\ op.gen = active'.gen => active'.task \in achieved'
    BY <1>0, <2>1 DEF EarnedInv, Turns
  <2>5. \A g \in Range(call'.waiting) :
          call'.pc # "none" /\ g = active'.gen => active'.task = call'.task
    BY <1>0, <2>2 DEF EarnedInv, Turns
  <2> QED
    BY <1>0, <2>3, <2>4, <2>5 DEF EarnedInv, Succeeds
<1> QED
  BY <1>1, <1>2, <1>3, <1>5, <1>6, <1>7, <1>8, <1>9, <1>10


(* A checkpoint that is saved is of the active task.                       *)
LEMMA SavesState ==
  ASSUME Types, NEW u, NEW s, SaveCheckpoint(u, s)
  PROVE  \A t \in Tasks : checkpoints'[t] = IF t = u THEN s ELSE checkpoints[t]
BY DEF SaveCheckpoint, Types, TypeOK, OrchestratorTypeOK

(* What is taken from the queue, or joins it, leaves the task its lease.   *)
LEMMA MineKept ==
  ASSUME Types, Mine, UNCHANGED call.task,
         lease'.task = lease.task, Held',
         active'.gen = active.gen, active'.task = active.task,
         \A op \in Range(commandQueue') :
           op.kind = "outcome" => op \in Range(commandQueue) \/ op.gen # active.gen
  PROVE  Mine'
BY DEF Mine

LEMMA CommandTurns ==
  ASSUME Books, Custody, UNCHANGED <<sidecarVars, abandoned, achieved, delivered>>,
         Command \/ StartInadmissible \/ StartFails \/ CancelProbeFails \/ OutcomeProbeFails
           \/ ResumeRefused
  PROVE  Turns
<1>0. /\ Types /\ UNCHANGED <<clientVars, workerVars, call, control>> /\ control.pc = "none"
      /\ job \in [pc : JobPcs, cmd : Commands \cup {NoCommand}]
  BY CommandMoves DEF Books, sidecarVars, Types, TypeOK, OrchestratorTypeOK
<1> USE <1>0 DEF Turns
<1>1. ASSUME UNCHANGED <<lease, active, checkpoints>>, job'.pc # "cancelling",
             Range(commandQueue') \subseteq Range(commandQueue)
      PROVE  Turns
  BY <1>1 DEF Mine, Held
<1>2. ASSUME NEW pc, job' = At(pc) PROVE job'.pc = pc
  BY <1>2, JobAt
<1>3. commandQueue # <<>> /\ commandQueue' = Tail(commandQueue) =>
        /\ Range(commandQueue') \subseteq Range(commandQueue)
        /\ Head(commandQueue) \in Range(commandQueue)
  BY QueueShrinks
<1>4. CASE Throws
  BY <1>1, <1>2, <1>4 DEF Throws, leaseVars, diskVars
<1>5. CASE Begin
  BY <1>1, <1>3, <1>5 DEF Begin, leaseVars
<1>6. CASE Reply
  BY <1>1, <1>6 DEF Reply, NoJob, leaseVars
<1>7. CASE StartNavigates
  BY <1>1, <1>2, <1>7 DEF StartNavigates, leaseVars
<1>8. CASE CancelCompletes
  <2>1. /\ ~Engaged /\ UNCHANGED commandQueue /\ job'.pc = "accept" /\ active' = NoActive
        /\ SaveCheckpoint(active.task, "CANCELLED")
    BY <1>2, <1>8 DEF CancelCompletes, Custody, TurnInv
  <2>2. active'.gen = 0 /\ ~active'.awaiting
    BY <2>1 DEF NoActive
  <2>3. \A t \in Tasks : checkpoints'[t] = "SUCCEEDED" => checkpoints[t] = "SUCCEEDED"
    BY <2>1, SavesState
  <2> QED
    BY <2>1, <2>2, <2>3
<1>9. CASE OutcomeIgnored
  <2>1. job.pc = "free"
    BY <1>9 DEF OutcomeIgnored
  <2> QED
    BY <1>1, <1>3, <1>9, <2>1 DEF OutcomeIgnored, leaseVars, diskVars
<1>10. CASE OutcomeRecorded \/ OutcomeProbeFails
  <2>1. /\ UNCHANGED job /\ job.pc = "free"
        /\ Range(commandQueue') \subseteq Range(commandQueue)
        /\ Head(commandQueue) \in Range(commandQueue)
        /\ Head(commandQueue).kind = "outcome" /\ Head(commandQueue).gen = active.gen
    BY <1>3, <1>10 DEF OutcomeRecorded, OutcomeProbeFails
  <2>2. ~Mine
    BY <2>1 DEF Mine
  <2>3. active' = active \/ (active'.gen = 0 /\ ~active'.awaiting)
    BY <1>10 DEF OutcomeRecorded, OutcomeProbeFails, NoActive
  <2>4. \A t \in Tasks : checkpoints'[t] = "SUCCEEDED" =>
          checkpoints[t] = "SUCCEEDED" \/ (t = active.task /\ Succeeds(Head(commandQueue)))
    <3>1. CASE OutcomeProbeFails
      BY <3>1 DEF OutcomeProbeFails, diskVars
    <3>2. CASE OutcomeRecorded
      <4>1. SaveCheckpoint(active.task, FinalState(Head(commandQueue).state))
        BY <3>2 DEF OutcomeRecorded
      <4>2. FinalState(Head(commandQueue).state) = "SUCCEEDED" => Succeeds(Head(commandQueue))
        BY <2>1 DEF FinalState, Succeeds
      <4> QED
        BY <4>1, <4>2, SavesState
    <3> QED
      BY <1>10, <3>1, <3>2
  <2> QED
    BY <2>1, <2>2, <2>3, <2>4
<1> QED
  BY <1>4, <1>5, <1>6, <1>7, <1>8, <1>9, <1>10
  DEF Command, StartRefused, ControlRefused, ResumeRefused, DecisionRefused, StartInadmissible,
      StartFails, CancelProbeFails

(* The control request has returned.                                       *)
LEMMA ReturnTurns ==
  ASSUME Books, Custody, UNCHANGED <<clientVars, workerVars, call, abandoned, achieved, delivered>>,
         control' = NoControl,
         \/ /\ control.pc = "done"
            /\ PauseCompletes \/ TakeoverCompletes \/ TakeoverRefused \/ CancelBegins
                 \/ PauseProbeFails \/ TakeoverHalfDone
         \/ control.pc = "failed" /\ Throws
  PROVE  Turns
<1>0. /\ Types /\ active'.gen = active.gen /\ active'.task = active.task
      /\ UNCHANGED commandQueue /\ job'.pc \in {"accept", "reject", "cancelling"}
  BY ReturnMoves DEF Books
<1> USE <1>0 DEF Turns
<1>2. ASSUME NEW pc, job' = At(pc) PROVE job'.pc = pc
  BY <1>2, JobAt DEF Types, TypeOK, OrchestratorTypeOK
<1>3. CASE Throws
  <2>1. UNCHANGED <<lease, active, checkpoints>> /\ job'.pc = "reject"
    BY <1>2, <1>3 DEF Throws, leaseVars, diskVars
  <2> QED
    BY <2>1 DEF Mine, Held
<1>4. CASE PauseCompletes \/ PauseProbeFails
  <2>1. UNCHANGED <<lease, active>> /\ job'.pc \in {"accept", "reject"}
    BY <1>2, <1>4 DEF PauseCompletes, PauseProbeFails, leaseVars
  <2>2. \A t \in Tasks : checkpoints'[t] = "SUCCEEDED" => checkpoints[t] = "SUCCEEDED"
    BY <1>4, SavesState DEF PauseCompletes, PauseProbeFails, diskVars
  <2> QED
    BY <2>1, <2>2 DEF Mine, Held
<1>5. CASE (TakeoverCompletes \/ TakeoverHalfDone) /\ control.pc = "done"
  <2>1. lease' = CreateLease(lease.task, "human") /\ job'.pc \in {"accept", "reject"}
    BY <1>2, <1>5 DEF TakeoverCompletes, TakeoverHalfDone, TransferToHuman, Grant
  <2>2. lease'.task = lease.task /\ Held'
    BY <2>1 DEF CreateLease, Held, NoLease
  <2>3. \A t \in Tasks : checkpoints'[t] = "SUCCEEDED" => checkpoints[t] = "SUCCEEDED"
    BY <1>5, SavesState DEF TakeoverCompletes, TakeoverHalfDone, diskVars
  <2>4. Mine => Mine'
    BY <2>2, MineKept DEF Turns
  <2> QED
    BY <1>5, <2>1, <2>3, <2>4
<1>6. CASE CancelBegins /\ control.pc = "done"
  <2>1. ~Engaged
    BY <1>6 DEF CancelBegins, Custody, TurnInv, AcceptInv, Engaged
  <2>2. UNCHANGED <<active, checkpoints>>
    BY <1>6 DEF CancelBegins, diskVars
  <2> QED
    BY <2>1, <2>2
<1> QED
  BY <1>3, <1>4, <1>5, <1>6 DEF TakeoverRefused


LEMMA DeliverTurns ==
  ASSUME Books, Custody, NEW c \in Commands, Deliver(c)
  PROVE  Turns
<1>1. /\ UNCHANGED <<clientVars, workerVars, call, control, abandoned, achieved>>
      /\ UNCHANGED <<lease, active, job, checkpoints>>
      /\ commandQueue' = Append(commandQueue, CommandOp(c))
  BY DEF Deliver, Handle, sidecarVars, leaseVars, diskVars
<1>2. /\ Range(commandQueue') = Range(commandQueue) \cup {CommandOp(c)}
      /\ CommandOp(c).kind = "command"
  BY <1>1, OpsBuilt, RangeOfAppend, NumbersTyped DEF CommandOp, Books
<1>3. Mine => Mine'
  BY <1>1, <1>2 DEF Mine, Held
<1> QED
  BY <1>1, <1>2, <1>3 DEF Turns, Succeeds

(* A refusal that joins the queue.                                         *)
LEMMA RefusalRange ==
  ASSUME Types, NEW g \in Nat, commandQueue' = commandQueue \o <<OutcomeOp(g, "failed")>>
  PROVE  \A op \in Range(commandQueue') :
           op \in Range(commandQueue) \/ (op.gen = g /\ ~Succeeds(op))
<1> DEFINE o == OutcomeOp(g, "failed")
<1>1. o \in Op /\ commandQueue \in Seq(Op)
  BY OpsBuilt, NumbersTyped
<1>2. o.gen = g /\ ~Succeeds(o)
  BY DEF OutcomeOp, Succeeds
<1>3. commandQueue' = commandQueue \o <<o>>
  OBVIOUS
<1> HIDE DEF o
<1> DEFINE one == <<o>>
<1>4. one \in Seq(Op) /\ Range(one) = {o} /\ commandQueue' = commandQueue \o one
  BY <1>1, <1>3, RangeOfOne
<1> HIDE DEF one
<1>5. Range(commandQueue') = Range(commandQueue) \cup {o}
  BY <1>1, <1>4, RangeOfConcat
<1> QED
  BY <1>2, <1>5

(* The outcomes of some ActiveTasks join the queue.                        *)
LEMMA OutcomesRange ==
  ASSUME Types, NEW gens \in Seq(Nat), NEW s \in {"succeeded", "failed"},
         commandQueue' = commandQueue \o Outcomes(gens, s)
  PROVE  \A op \in Range(commandQueue') :
           \/ op \in Range(commandQueue)
           \/ op.gen \in Range(gens) /\ (Succeeds(op) => s = "succeeded")
<1>1. /\ Outcomes(gens, s) \in Seq(Op) /\ commandQueue \in Seq(Op)
      /\ \A op \in Range(Outcomes(gens, s)) : \E g \in Range(gens) : op = OutcomeOp(g, s)
  BY RangeOfOutcomes, NumbersTyped
<1>2. \A g : OutcomeOp(g, s).gen = g /\ (Succeeds(OutcomeOp(g, s)) => s = "succeeded")
  BY DEF OutcomeOp, Succeeds
<1> HIDE DEF Outcomes
<1>3. Range(commandQueue') = Range(commandQueue) \cup Range(Outcomes(gens, s))
  BY <1>1, RangeOfConcat
<1> QED
  BY <1>1, <1>2, <1>3

(* A lease is granted for a new task: the one before has lost its own.     *)
LEMMA StartCustody ==
  ASSUME Books, Custody, StartTask, UNCHANGED worldVars
  PROVE  Custody'
<1> USE DEF Books, Custody
<1> DEFINE t == CommandTask[job.cmd]
<1>0. /\ Types /\ JobInv /\ GenInv /\ control.pc = "none" /\ UNCHANGED control
      /\ UNCHANGED <<process, pending, requests, stdin, stdout, serving, exec, abandoned, achieved>>
      /\ epoch' = epoch + 1 /\ epoch \in Nat /\ job'.pc = "accept"
  BY StartMoves, NumbersTyped
  DEF StartTask, sidecarVars, clientVars, workerVars, worldVars, JobInv
<1>1. /\ lease' = CreateLease(t, Kind) /\ lease = NoLease
      /\ active' = [gen |-> epoch', task |-> t, lease |-> lease', awaiting |-> FALSE]
      /\ SaveCheckpoint(t, "RUNNING")
  BY DEF StartTask, StartLaunches, Acquire, CanAcquire, Grant, Held
<1>2. /\ Held' /\ lease'.task = t /\ active'.gen = epoch' /\ active'.task = t /\ ~active'.awaiting
      /\ active'.gen # 0 /\ ~Mine
  BY <1>0, <1>1 DEF CreateLease, NoLease, Held, Mine, Kind
<1>3. /\ \A op \in Range(commandQueue) : op.gen # active'.gen
      /\ \A g \in Range(call.waiting) : g # active'.gen
      /\ \A c \in Range(pending) : c.type = "resume" => c.gen # active'.gen
  BY <1>0, <1>2, Elements DEF GenInv
<1>4. SuccessIsEarned'
  BY <1>0, <1>1, SavesState DEF EarnedInv, SuccessIsEarned
<1> HIDE DEF t
<1>5. CASE Execution
  <2>1. UNCHANGED call /\ commandQueue' = commandQueue \o <<OutcomeOp(epoch + 1, "failed")>>
    BY <1>5 DEF StartTask, StartLaunches, sidecarVars
  <2>3. \A op \in Range(commandQueue') : Succeeds(op) => op \in Range(commandQueue)
    BY <1>0, <2>1, RefusalRange
  <2>4. Reported
    BY <1>2, <1>5 DEF CustodyInv
  <2>5. /\ Execution' = Execution /\ (Reported => Reported') /\ (Accepted => Accepted')
        /\ AgentIsCalls' = AgentIsCalls /\ Running' = Running
    BY <1>0, <2>1 DEF Execution, Reported, Accepted, AgentIsCalls, Running
  <2>6. AnswerInv' /\ AsksInv' /\ KeptInv' /\ OrderInv'
    BY <1>0, <2>1, <2>5 DEF AnswerInv, AsksInv, KeptInv, OrderInv
  <2>7. TurnInv' /\ CustodyInv' /\ AcceptInv'
    BY <1>0, <1>2, <1>5, <2>1, <2>4, <2>5
    DEF TurnInv, CustodyInv, AcceptInv, Execution, Accepted
  <2>8. ResumeInv'
    BY <1>0, <1>3, <2>1, <2>4, <2>5 DEF ResumeInv
  <2>9. EarnedInv'
    BY <1>0, <1>3, <1>4, <2>1, <2>3 DEF EarnedInv
  <2> QED
    BY <2>6, <2>7, <2>8, <2>9
<1>6. CASE ~Execution
  <2>1. /\ commandQueue' = commandQueue
        /\ call' = [NoCall EXCEPT !.pc = "target", !.task = t, !.waiting = <<epoch + 1>>]
    BY <1>6, NothingJoins DEF StartTask, StartLaunches, t
  <2>2. call'.pc = "target" /\ call'.task = t /\ call'.waiting = <<epoch + 1>> /\ ~Execution'
    BY <2>1 DEF NoCall, Execution
  <2>3. Mine'
    BY <1>2, <1>3, <2>1, <2>2 DEF Mine
  <2>4. AnswerInv' /\ AsksInv' /\ AcceptInv' /\ OrderInv'
    BY <1>0, <2>2 DEF AnswerInv, AsksInv, AcceptInv, OrderInv
  <2>5. TurnInv' /\ CustodyInv'
    BY <1>0, <1>2, <2>2, <2>3 DEF TurnInv, CustodyInv
  <2>6. ResumeInv'
    BY <1>0, <1>3, <2>2 DEF ResumeInv
  <2>7. KeptInv'
    BY <1>0, <1>6 DEF KeptInv, Running
  <2>8. EarnedInv'
    BY <1>0, <1>2, <1>3, <1>4, <2>1, <2>2 DEF EarnedInv
  <2> QED
    BY <2>4, <2>5, <2>6, <2>7, <2>8
<1> QED
  BY <1>5, <1>6


-----------------------------------------------------------------------------
(* The number of a request that is made is new.                            *)
LEMMA MadeLines ==
  ASSUME Books, NEW c, Made(c)
  PROVE  /\ UNCHANGED <<stdout, serving, exec>>
         /\ \A d \in Range(pending') : d = c \/ (d \in Range(pending) /\ d.id # c.id)
         /\ \A l \in Range(stdin') :
              \/ l \in Range(stdin) /\ l.id # c.id
              \/ l.id = c.id /\ l.task = c.task /\ l.type = c.type
         /\ Range(stdin) \subseteq Range(stdin')
         /\ c.sent => \E l \in Range(stdin') : l.id = c.id
         /\ \A l \in Range(serving) : l.id # c.id
         /\ \A r \in Range(stdout) : r.type = "ack" => r.id # c.id
         /\ control.id # c.id
<1>1. Line(c).id = c.id /\ Line(c).task = c.task /\ Line(c).type = c.type
  BY DEF Line
<1>2. /\ requests \in Nat /\ c.id = requests + 1 /\ control.id \in Nat /\ control.id <= requests
      /\ \A d \in Range(pending) : d.id \in Nat /\ d.id <= requests
      /\ \A l \in Range(stdin) : l.id \in Nat /\ l.id <= requests
      /\ \A l \in Range(serving) : l.id \in Nat /\ l.id <= requests
      /\ \A r \in Range(stdout) : r.id \in Nat /\ (r.type = "ack" => r.id <= requests)
  BY Elements DEF Books, IdInv, Made
<1>3. /\ UNCHANGED <<stdout, serving, exec>> /\ Range(pending') = Range(pending) \cup {c}
      /\ \/ Range(stdin') = Range(stdin) \cup {Line(c)}
         \/ ~c.sent /\ Range(stdin') = Range(stdin)
  BY DEF Made
<1>4. requests # requests + 1 /\ \A n \in Nat : n <= requests => n # requests + 1
  BY <1>2
<1>5. /\ \A d \in Range(pending) : d.id # c.id
      /\ \A l \in Range(stdin) : l.id # c.id
      /\ \A l \in Range(serving) : l.id # c.id
      /\ \A r \in Range(stdout) : r.type = "ack" => r.id # c.id
      /\ control.id # c.id
  BY <1>2, <1>4
<1> QED
  BY <1>1, <1>3, <1>5

LEMMA AnswerMade ==
  ASSUME Books, AnswerInv, NEW c, Made(c)
  PROVE  AnswerInv'
BY MadeLines DEF AnswerInv

(* The execution is asked for: there is no sign of the task yet.           *)
LEMMA TargetKnownCustody ==
  ASSUME Books, Custody, TargetKnown
  PROVE  Custody'
<1> USE DEF Books, Custody
<1>0. /\ Types /\ call.pc = "target" /\ call.task \in Tasks
      /\ UNCHANGED <<control, lease, active, job, commandQueue, checkpoints, abandoned, achieved>>
      /\ call \in [pc : {"none", "target", "lost", "acking", "running"}, id : Nat,
                   task : Tasks \cup {NoTask}, waiting : Seq(Nat)]
      /\ call' = [call EXCEPT !.pc = "acking", !.id = requests + 1]
  BY NumbersTyped DEF TargetKnown, orchestratorVars, leaseVars, memoryVars, diskVars, worldVars,
     Types, TypeOK
<1>1. /\ call'.pc = "acking" /\ call'.task = call.task /\ call'.waiting = call.waiting
      /\ Execution' /\ ~Execution
  BY <1>0 DEF Execution
<1>2. PICK c : c.type = "execute" /\ c.task = call.task /\ Made(c)
  BY <1>0, SendMakes DEF TargetKnown, RequestTypes
<1> USE MadeLines
<1>3. AnswerInv'
  BY <1>2, AnswerMade
<1>4. AsksInv'
  BY <1>0, <1>1, <1>2 DEF AsksInv
<1>5. Mine' /\ TurnInv' /\ CustodyInv'
  BY <1>0, <1>1 DEF TurnInv, CustodyInv, Engaged, Mine, Held
<1>6. /\ ~AgentIsCalls' /\ \A r \in Range(stdout') : r.type # "error" => r.task # call'.task
      /\ \A l \in Range(serving') : l.task # call'.task
      /\ \A d \in Range(pending') : d.type = "resume" => d.task # call'.task
      /\ ~active'.awaiting /\ control'.pc # "done"
  BY <1>0, <1>1, <1>2 DEF TargetInv, TurnInv, AgentIsCalls
<1>7. AcceptInv'
  BY <1>1, <1>6 DEF AcceptInv
<1>8. OrderInv'
  <2>1. ASSUME control.pc = "waiting", NEW j \in DOMAIN stdout, stdout[j] \in Acks(control.id)
        PROVE  FALSE
    <3>1. stdout[j] \in Range(stdout) /\ stdout[j].type = "ack" /\ stdout[j].id = control.id
      BY <2>1 DEF Acks, Range
    <3> QED
      BY <1>0, <1>1, <1>2, <1>6, <2>1, <3>1 DEF AsksInv
  <2> QED
    BY <1>0, <1>2, <2>1 DEF OrderInv, Leads, Acks
<1>9. ResumeInv'
  BY <1>0, <1>1, <1>2, <1>6 DEF ResumeInv
<1>10. KeptInv'
  BY <1>0, <1>1, <1>2 DEF KeptInv, Running
<1>11. EarnedInv'
  BY <1>0, <1>1, <1>2 DEF EarnedInv, SuccessIsEarned
<1> QED
  BY <1>3, <1>4, <1>5, <1>7, <1>8, <1>9, <1>10, <1>11

(* A pause or a cancellation is asked for.                                 *)
LEMMA AskCustody ==
  ASSUME Books, Custody, NEW c, Made(c), c.type \in {"pause", "cancel"}, c.task = call.task,
         control.pc = "none", control'.pc = "waiting", control'.id = c.id,
         job'.pc # "cancelling",
         UNCHANGED <<lease, active, commandQueue, checkpoints, call, abandoned, achieved>>
  PROVE  Custody'
<1> USE MadeLines DEF Books, Custody
<1>1. AnswerInv'
  BY AnswerMade
<1>2. AsksInv'
  BY DEF AsksInv
<1>3. /\ Execution' = Execution /\ (Reported => Reported') /\ (Accepted => Accepted')
      /\ AgentIsCalls' = AgentIsCalls /\ Running' = Running /\ Mine' = Mine /\ Engaged' = Engaged
  BY DEF Execution, Reported, Accepted, AgentIsCalls, Running, Mine, Held, Engaged
<1>4. TurnInv' /\ CustodyInv' /\ AcceptInv'
  BY <1>3 DEF TurnInv, CustodyInv, AcceptInv
<1>5. OrderInv'
  <2>1. ASSUME NEW j \in DOMAIN stdout, stdout[j] \in Acks(c.id)
        PROVE  FALSE
    BY <2>1 DEF Acks, Range
  <2> QED
    BY <2>1 DEF OrderInv, Leads, Acks
<1>6. ResumeInv' /\ KeptInv'
  BY <1>3 DEF ResumeInv, KeptInv
<1>7. EarnedInv'
  BY DEF EarnedInv, SuccessIsEarned
<1> QED
  BY <1>1, <1>2, <1>4, <1>5, <1>6, <1>7

(* The human gives the page back: the worker has accepted the execution,   *)
(* or there is none any more.                                              *)
LEMMA ResumeCustody ==
  ASSUME Books, Custody, ResumeTask, UNCHANGED worldVars
  PROVE  Custody'
<1> USE DEF Books, Custody
<1>0. /\ Types /\ UNCHANGED <<control, call, abandoned, achieved>> /\ control.pc = "none"
      /\ active'.gen = active.gen /\ active'.task = active.task /\ active.gen # 0
      /\ active.awaiting /\ active' = [active EXCEPT !.lease = lease', !.awaiting = FALSE]
      /\ lease' = CreateLease(lease.task, Kind) /\ SaveCheckpoint(active.task, "RUNNING")
      /\ job' = At("accept")
  BY ResumeMoves
  DEF ResumeTask, ResumeSucceeds, ResumeAfterHuman, Grant, CanResume, worldVars, sidecarVars
<1>1. /\ ~active'.awaiting /\ lease'.task = lease.task /\ Held' /\ job'.pc = "accept"
  <2>1. active \in ActiveTask
    BY <1>0, NumbersTyped
  <2>2. job'.pc = "accept"
    BY <1>0, JobAt DEF Types, TypeOK, OrchestratorTypeOK
  <2> QED
    BY <1>0, <2>1, <2>2 DEF ActiveTask, CreateLease, Held, NoLease, Kind
<1>2. \A t \in Tasks : checkpoints'[t] = "SUCCEEDED" => checkpoints[t] = "SUCCEEDED"
  BY <1>0, SavesState
<1>3. CASE /\ ~Execution /\ UNCHANGED sidecarVars
           /\ commandQueue' = commandQueue \o <<OutcomeOp(active.gen, "failed")>>
  <2>1. ~Engaged
    BY <1>0, <1>3 DEF Engaged, TurnInv
  <2>2. \A op \in Range(commandQueue') : Succeeds(op) => op \in Range(commandQueue)
    BY <1>0, <1>3, RefusalRange, NumbersTyped
  <2>3. UNCHANGED <<clientVars, workerVars>>
    BY <1>3 DEF sidecarVars
  <2>4. Turns
    BY <1>0, <1>1, <1>2, <2>1, <2>2, <2>3 DEF Turns
  <2> QED
    BY <2>4, TurnsKeep
<1>4. CASE /\ Execution /\ Send("resume", call.task, active.gen)
           /\ commandQueue' = commandQueue \o <<>>
  <2>1. UNCHANGED commandQueue /\ call.task \in Tasks /\ active.gen \in Nat /\ call.pc # "none"
    BY <1>0, <1>4, NothingJoins, NumbersTyped DEF Execution
  <2>2. PICK c : c.type = "resume" /\ c.task = call.task /\ c.gen = active.gen /\ Made(c)
    BY <1>4, <2>1, SendMakes DEF RequestTypes
  <2> USE MadeLines
  <2>3. Accepted /\ active.task = call.task
    BY <1>0, <1>4 DEF AcceptInv
  <2>4. /\ Execution' = Execution /\ (Reported => Reported') /\ (Accepted => Accepted')
        /\ AgentIsCalls' = AgentIsCalls /\ Running' = Running
    BY <1>0, <2>2 DEF Execution, Reported, Accepted, AgentIsCalls, Running
  <2>5. Mine => Mine'
    BY <1>0, <1>1, <2>1, MineKept
  <2>6. AnswerInv'
    BY <2>2, AnswerMade
  <2>7. AsksInv' /\ TurnInv' /\ OrderInv'
    BY <1>0, <1>1 DEF AsksInv, TurnInv, OrderInv
  <2>8. CustodyInv'
    BY <1>0, <1>4, <2>4, <2>5 DEF CustodyInv, Execution
  <2>9. AcceptInv'
    BY <1>0, <1>1, <2>2, <2>3, <2>4 DEF AcceptInv
  <2>10. ResumeInv'
    BY <1>0, <2>2, <2>3, <2>4 DEF ResumeInv
  <2>11. KeptInv'
    BY <1>0, <2>2, <2>4 DEF KeptInv
  <2>12. EarnedInv'
    BY <1>0, <1>2, <2>1, <2>2 DEF EarnedInv, SuccessIsEarned
  <2> QED
    BY <2>6, <2>7, <2>8, <2>9, <2>10, <2>11, <2>12
<1> QED
  BY <1>3, <1>4 DEF ResumeTask, ResumeSucceeds


LEMMA PauseCustody ==
  ASSUME Books, Custody, PauseTask \/ CancelTask, UNCHANGED worldVars
  PROVE  Custody'
<1> USE DEF Books, Custody
<1>0. /\ Types /\ control.pc = "none" /\ UNCHANGED <<active, commandQueue, call>>
      /\ UNCHANGED <<abandoned, achieved>> /\ job.pc = "begin"
  BY PauseMoves DEF worldVars, PauseTask, CancelTask, PauseBegins, CancelBegins
<1>2. ASSUME NEW pc, job' = At(pc) PROVE job'.pc = pc
  BY <1>2, JobAt DEF Types, TypeOK, OrchestratorTypeOK
<1>3. CASE UNCHANGED sidecarVars /\ call.pc = "none" /\ (Throws \/ CancelBegins)
  <2>1. ~Engaged /\ UNCHANGED checkpoints
    BY <1>3 DEF Engaged, Execution, Throws, CancelBegins, diskVars
  <2>2. UNCHANGED <<clientVars, workerVars, control>>
    BY <1>3 DEF sidecarVars
  <2>3. Turns
    BY <1>0, <2>1, <2>2 DEF Turns
  <2> QED
    BY <2>3, TurnsKeep
<1>4. ASSUME NEW type \in {"pause", "cancel"}, call.pc # "none", Send(type, call.task, 0),
             control' = [pc |-> "waiting", id |-> requests + 1], job'.pc # "cancelling",
             UNCHANGED <<lease, checkpoints>>
      PROVE  Custody'
  <2>1. call.task \in Tasks /\ 0 \in Nat /\ type \in RequestTypes
    BY <1>0, <1>4, NumbersTyped DEF RequestTypes
  <2>2. PICK c : c.type = type /\ c.task = call.task /\ Made(c)
    BY <1>4, <2>1, SendMakes
  <2>3. control'.pc = "waiting" /\ control'.id = c.id
    BY <1>4, <2>2 DEF Made
  <2> QED
    BY <1>0, <1>4, <2>2, <2>3, AskCustody
<1>5. CASE PauseBegins /\ call.pc # "none" /\ Send("pause", call.task, 0)
           /\ control' = [pc |-> "waiting", id |-> requests + 1]
  <2>1. job'.pc # "cancelling" /\ UNCHANGED <<lease, checkpoints>>
    BY <1>2, <1>5 DEF PauseBegins, leaseVars, diskVars
  <2> QED
    BY <1>4, <1>5, <2>1
<1>6. CASE Serving({"CANCEL_TASK"}, "begin") /\ call.pc # "none" /\ Send("cancel", call.task, 0)
           /\ control' = [pc |-> "waiting", id |-> requests + 1] /\ UNCHANGED orchestratorVars
  <2>1. job'.pc # "cancelling" /\ UNCHANGED <<lease, checkpoints>>
    BY <1>0, <1>6 DEF orchestratorVars, leaseVars, diskVars, memoryVars
  <2> QED
    BY <1>4, <1>6, <2>1
<1> QED
  BY <1>3, <1>5, <1>6 DEF PauseTask, CancelTask

LEMMA OrchestrateCustody ==
  ASSUME Books, Custody, Orchestrate \/ OrchestrateFaulty
  PROVE  Custody'
<1>0. UNCHANGED <<delivered, abandoned, achieved>>
  BY DEF Orchestrate, OrchestrateFaulty, worldVars, Fault, OneMoreFault
<1>1. CASE /\ UNCHANGED sidecarVars
           /\ Command \/ StartInadmissible \/ StartFails \/ CancelProbeFails \/ OutcomeProbeFails
                \/ ResumeRefused
  BY <1>0, <1>1, CommandTurns, TurnsKeep
<1>2. CASE /\ control' = NoControl /\ UNCHANGED <<clientVars, workerVars, call>>
           /\ \/ /\ control.pc = "done"
                 /\ PauseCompletes \/ TakeoverCompletes \/ TakeoverRefused \/ CancelBegins
                      \/ PauseProbeFails \/ TakeoverHalfDone
              \/ control.pc = "failed" /\ Throws
  BY <1>0, <1>2, ReturnTurns, TurnsKeep
<1> QED
  BY <1>1, <1>2, StartCustody, ResumeCustody, PauseCustody
  DEF Orchestrate, OrchestrateFaulty, ControlReturns, ControlThrows

(* There will be no execution.                                             *)
LEMMA TargetUnknownCustody ==
  ASSUME Books, Custody, TargetUnknown
  PROVE  Custody'
<1> USE DEF Books, Custody
<1>0. /\ Types /\ call.pc = "target" /\ call.waiting \in Seq(Nat)
      /\ UNCHANGED <<process, pending, requests, stdin, stdout, serving, exec, control, abandoned,
                     achieved>>
      /\ call \in [pc : {"none", "target", "lost", "acking", "running"}, id : Nat,
                   task : Tasks \cup {NoTask}, waiting : Seq(Nat)]
      /\ call' = [call EXCEPT !.pc = "lost"] /\ Enqueue(Outcomes(call.waiting, "failed"))
  BY NumbersTyped DEF TargetUnknown, Fault, OneMoreFault, clientVars, workerVars, Types, TypeOK
<1>1. /\ call'.pc = "lost" /\ call'.task = call.task /\ call'.waiting = call.waiting
      /\ ~Execution' /\ ~Execution
  BY <1>0 DEF Execution
<1>2. /\ UNCHANGED <<lease, active, job, checkpoints>>
      /\ \A op \in Range(commandQueue') : Succeeds(op) => op \in Range(commandQueue)
  BY <1>0, OutcomesRange DEF Enqueue, leaseVars, diskVars
<1>3. AnswerInv' /\ AsksInv' /\ OrderInv'
  BY <1>0, <1>1 DEF AnswerInv, AsksInv, OrderInv
<1>4. TurnInv' /\ CustodyInv' /\ AcceptInv'
  BY <1>0, <1>1 DEF TurnInv, CustodyInv, AcceptInv, Engaged
<1>5. ResumeInv' /\ KeptInv'
  BY <1>0, <1>1, <1>2 DEF ResumeInv, KeptInv, Running
<1>6. EarnedInv'
  BY <1>0, <1>1, <1>2 DEF EarnedInv, SuccessIsEarned
<1> QED
  BY <1>3, <1>4, <1>5, <1>6


-----------------------------------------------------------------------------
(* What the adapter learns when the client hears something or gives a      *)
(* request up.                                                             *)
Learns ==
  /\ UNCHANGED <<lease, checkpoints, achieved>>
  /\ ~abandoned' => ~abandoned
  /\ \/ UNCHANGED stdout
     \/ /\ stdout # <<>> /\ stdout' = Tail(stdout)
        /\ Execution' => Head(stdout) \notin Results(call.task)
        /\ \A c \in Range(pending') : c.sent => Head(stdout) \notin Acks(c.id)
  /\ control'.pc = "done" =>
       \/ UNCHANGED control
       \/ control.pc = "waiting" /\ stdout # <<>> /\ Head(stdout) \in Acks(control.id)
  /\ call'.pc = "running" =>
       call.pc = "running" \/ \E r \in Range(stdout) : r.type = "ack" /\ r.id = call.id
  /\ Engaged' /\ Mine =>
       \/ Reported
       \/ \A op \in Range(commandQueue') :
            op.kind = "outcome" => op \in Range(commandQueue) \/ op.gen # active.gen
  /\ \A op \in Range(commandQueue') : Succeeds(op) =>
       op \in Range(commandQueue) \/ (op.gen = active.gen => active.task \in achieved)
  /\ \A g \in Range(call'.waiting) : call'.pc # "none" =>
       g \in Range(call.waiting) \/ (g = active.gen => active.task = call.task)
  /\ ~abandoned' /\ Execution =>
       Execution' \/ (~Running /\ \A l \in Range(stdin) : l.type # "execute")

LEMMA LearnsKeep ==
  ASSUME Books, Custody, Hears, Learns
  PROVE  Custody'
<1> USE DEF Books, Custody
<1>0. /\ UNCHANGED <<process, requests, stdin, serving, exec, job, active, lease, checkpoints,
                     achieved>>
      /\ Range(pending') \subseteq Range(pending)
      /\ \/ call'.pc = "none"
         \/ call'.pc = "running" /\ call.pc = "acking"
         \/ call'.pc = call.pc
      /\ call'.pc # "none" => call'.id = call.id /\ call'.task = call.task
      /\ control'.id = control.id /\ (control'.pc = "waiting" => control.pc = "waiting")
  BY DEF Hears, Learns
<1>1. /\ Range(stdout') \subseteq Range(stdout)
      /\ stdout # <<>> => /\ Head(stdout) \in Range(stdout) /\ Head(stdout) \in Response(Tasks)
                          /\ Range(stdout) = Range(Tail(stdout)) \cup {Head(stdout)}
  BY NumbersTyped, RangeOfTail DEF Hears
<1>2. /\ Execution' => Execution /\ call'.task = call.task
      /\ Engaged' => Engaged /\ call'.task = call.task
      /\ call'.pc = "target" => call.pc = "target"
      /\ Running' = Running
  BY <1>0 DEF Execution, Engaged, Running
<1>3. Execution' /\ Reported => Reported'
  <2>1. ASSUME Execution', NEW r \in Range(stdout), r.type = "result", r.task = call.task
        PROVE  r \in Range(stdout')
    <3>1. r \in Results(call.task)
      BY <2>1, Elements DEF Results
    <3> QED
      BY <1>1, <2>1, <3>1 DEF Learns
  <2> QED
    BY <1>2, <2>1 DEF Reported
<1>4. Execution' /\ Accepted => Accepted'
  BY <1>0, <1>2, <1>3 DEF Accepted, AgentIsCalls
<1>5. AnswerInv'
  BY <1>0, <1>1 DEF AnswerInv
<1>6. AsksInv'
  BY <1>0, <1>1 DEF AsksInv
<1>7. ASSUME control'.pc = "done", ~UNCHANGED control
      PROVE  /\ stdout # <<>> /\ Head(stdout) \in Acks(control.id) /\ control.pc = "waiting"
             /\ call.pc # "none" => Head(stdout).type = "ack" /\ Head(stdout).task = call.task
  BY <1>1, <1>7 DEF Learns, AsksInv, Acks
<1>8. TurnInv'
  <2>1. ASSUME call'.pc = "target" PROVE ~active.awaiting /\ control'.pc # "done"
    <3>1. \A r \in Range(stdout) : r.type # "error" => r.task # call.task
      BY <1>2, <2>1 DEF TargetInv
    <3> QED
      BY <1>1, <1>2, <1>7, <2>1, <3>1 DEF TurnInv
  <2> QED
    BY <1>0, <1>2, <2>1 DEF TurnInv
<1>9. Engaged' /\ Mine => Mine' \/ Reported
  BY <1>0, <1>2 DEF Learns, Mine, Held
<1>10. CustodyInv'
  <2>1. call'.pc = "target" => Mine'
    BY <1>2, <1>9 DEF CustodyInv, TargetInv, Reported, Engaged
  <2>2. Execution' => Mine' \/ Reported'
    BY <1>2, <1>3, <1>9 DEF CustodyInv, Engaged
  <2> QED
    BY <2>1, <2>2 DEF CustodyInv
<1>11. AcceptInv'
  <2> SUFFICES ASSUME Execution'
               PROVE  /\ call'.pc = "running" => Accepted'
                      /\ \A r \in Range(stdout') : r.type = "ack" /\ r.task = call'.task => Accepted'
                      /\ \A l \in Range(serving') : l.task = call'.task => Accepted'
                      /\ \A c \in Range(pending') :
                           c.type = "resume" /\ c.task = call'.task => Accepted'
                      /\ control'.pc = "done" =>
                           Accepted' /\ job'.pc = "pausing" /\ active'.task = call'.task
                      /\ active'.awaiting => Accepted' /\ active'.task = call'.task
                      /\ AgentIsCalls' /\ ~Running' => Reported'
    BY DEF AcceptInv
  <2>0. Execution /\ call'.task = call.task /\ call.pc # "none"
    BY <1>2 DEF Execution
  <2>1. call'.pc = "running" => Accepted
    <3>1. ASSUME call.pc # "running", NEW r \in Range(stdout), r.type = "ack", r.id = call.id
          PROVE  r.task = call.task
      <4>1. PICK c \in Range(pending) : c.type = "execute" /\ c.id = call.id /\ c.task = call.task
        BY <2>0, <3>1 DEF Execution, CallInv
      <4> QED
        BY <3>1, <4>1 DEF AnswerInv
    <3> QED
      BY <2>0, <3>1 DEF Learns, AcceptInv
  <2>2. control'.pc = "done" => Accepted /\ job.pc = "pausing" /\ active.task = call.task
    <3>1. CASE UNCHANGED control
      BY <2>0, <3>1 DEF AcceptInv
    <3>2. ASSUME control'.pc = "done", ~UNCHANGED control
          PROVE  Accepted /\ job.pc = "pausing" /\ active.task = call.task
      <4>1. Accepted
        BY <1>1, <1>7, <2>0, <3>2 DEF AcceptInv
      <4>2. ASSUME job.pc # "pausing" \/ active.task # call.task PROVE FALSE
        <5>1. Leads(stdout, Results(call.task), Acks(control.id))
          BY <1>7, <2>0, <3>2, <4>2 DEF OrderInv
        <5> QED
          BY <1>7, <3>2, <5>1, LeadsTail, NumbersTyped
      <4> QED
        BY <4>1, <4>2
    <3> QED
      BY <3>1, <3>2
  <2>3. AgentIsCalls' = AgentIsCalls
    BY <1>0, <2>0 DEF AgentIsCalls
  <2> QED
    BY <1>0, <1>1, <1>2, <1>3, <1>4, <2>0, <2>1, <2>2, <2>3 DEF AcceptInv
<1>12. OrderInv'
  <2> SUFFICES ASSUME control'.pc = "waiting", Execution',
                      job'.pc # "pausing" \/ active'.task # call'.task
               PROVE  Leads(stdout', Results(call'.task), Acks(control'.id))
    BY DEF OrderInv
  <2>1. Leads(stdout, Results(call.task), Acks(control.id))
    BY <1>0, <1>2 DEF OrderInv
  <2>2. CASE UNCHANGED stdout
    BY <1>0, <1>2, <2>1, <2>2
  <2>3. CASE stdout # <<>> /\ stdout' = Tail(stdout) /\ Head(stdout) \notin Results(call.task)
    <3>1. Leads(stdout', Results(call.task), Acks(control.id))
      BY <2>1, <2>3, LeadsTail, NumbersTyped
    <3> QED
      BY <1>0, <1>2, <3>1
  <2> QED
    BY <2>2, <2>3 DEF Learns
<1>13. ResumeInv'
  <2> SUFFICES ASSUME NEW c \in Range(pending'), c.type = "resume"
               PROVE  /\ c.gen = active'.gen =>
                           c.task = active'.task /\ (call'.pc # "none" => call'.task = active'.task)
                      /\ (/\ Execution' /\ c.sent /\ c.task = call'.task
                          /\ \A l \in Range(stdin') : l.id # c.id
                          /\ \A r \in Range(stdout') : r.type = "ack" => r.id # c.id) => Reported'
    BY DEF ResumeInv
  <2>1. c.gen = active.gen => c.task = active.task /\ (call.pc # "none" => call.task = active.task)
    BY <1>0 DEF ResumeInv
  <2>2. ASSUME Execution', c.sent, c.task = call'.task, \A l \in Range(stdin') : l.id # c.id,
               \A r \in Range(stdout') : r.type = "ack" => r.id # c.id
        PROVE  Reported
    <3>1. ASSUME NEW r \in Range(stdout), r.type = "ack", r.id = c.id PROVE FALSE
      <4>1. r \in Acks(c.id)
        BY <3>1, Elements DEF Acks
      <4> QED
        BY <1>1, <2>2, <3>1, <4>1 DEF Learns
    <3> QED
      BY <1>0, <1>2, <2>2, <3>1 DEF ResumeInv
  <2> QED
    BY <1>0, <1>3, <2>1, <2>2
<1>14. KeptInv'
  BY <1>0, <1>2 DEF KeptInv, Learns
<1>15. EarnedInv'
  <2>1. SuccessIsEarned' /\ \A r \in Range(stdout') : r.status = "succeeded" => r.task \in achieved'
    BY <1>0, <1>1 DEF EarnedInv, SuccessIsEarned
  <2>2. \A op \in Range(commandQueue') :
          Succeeds(op) /\ op.gen = active'.gen => active'.task \in achieved'
    BY <1>0 DEF EarnedInv, Learns
  <2>3. \A g \in Range(call'.waiting) :
          call'.pc # "none" /\ g = active'.gen => active'.task = call'.task
    BY <1>0 DEF EarnedInv, Learns
  <2> QED
    BY <2>1, <2>2, <2>3 DEF EarnedInv, Succeeds
<1> QED
  BY <1>5, <1>6, <1>8, <1>10, <1>11, <1>12, <1>13, <1>14, <1>15


LEMMA NoCallIs ==
  /\ NoCall.pc = "none" /\ Range(NoCall.waiting) = {}
  /\ call' = NoCall => ~Execution' /\ ~Engaged'
<1>1. NoCall.pc = "none" /\ NoCall.waiting = <<>>
  BY DEF NoCall
<1>2. Range(NoCall.waiting) = {}
  BY <1>1, RangeOfEmpty
<1> QED
  BY <1>1, <1>2 DEF Execution, Engaged

LEMMA ResultLearns ==
  ASSUME Books, Custody, ResultArrives, UNCHANGED worldVars
  PROVE  Learns
<1> USE DEF Books, Custody
<1> DEFINE r == Head(stdout)
<1>0. /\ Types /\ stdout # <<>> /\ r.type = "result" /\ stdout' = Tail(stdout)
      /\ r \in Range(stdout) /\ r \in Response(Tasks)
      /\ UNCHANGED <<stdin, pending, control, abandoned, achieved>>
  BY HeadLine DEF ResultArrives, Receives, Consume, clientVars, worldVars
<1> HIDE DEF r
<1>1. \A n : r \notin Acks(n)
  BY <1>0 DEF Acks
<1>2. CASE ~Routed(r)
  <2>1. UNCHANGED <<call, lease, active, commandQueue, checkpoints>>
    BY <1>2 DEF ResultArrives, orchestratorVars, memoryVars, leaseVars, diskVars, r
  <2>2. Execution' => Execution /\ r \notin Results(call.task)
    BY <1>2, <2>1 DEF Execution, Routed, Results
  <2>3. Execution' = Execution
    BY <2>1 DEF Execution
  <2> QED
    BY <1>0, <1>1, <2>1, <2>2, <2>3 DEF Learns, r
<1>3. CASE Routed(r)
  <2>1. call' = NoCall /\ Enqueue(Outcomes(call.waiting, OutcomeOf(r.status)))
    BY <1>3 DEF ResultArrives, Settle, r
  <2>2. call'.pc = "none" /\ ~Execution' /\ ~Engaged' /\ Range(call'.waiting) = {}
    BY <2>1, NoCallIs
  <2>3. /\ UNCHANGED <<lease, checkpoints>>
        /\ \A op \in Range(commandQueue') :
             \/ op \in Range(commandQueue)
             \/ op.gen \in Range(call.waiting) /\ (Succeeds(op) => OutcomeOf(r.status) = "succeeded")
    <3>1. call.waiting \in Seq(Nat) /\ OutcomeOf(r.status) \in {"succeeded", "failed"}
      BY <1>0, NumbersTyped DEF OutcomeOf
    <3> QED
      BY <1>0, <2>1, <3>1, OutcomesRange DEF Enqueue, leaseVars, diskVars
  <2>4. OutcomeOf(r.status) = "succeeded" => call.task \in achieved
    BY <1>0, <1>3 DEF OutcomeOf, EarnedInv, Routed
  <2>5. \A op \in Range(commandQueue') : Succeeds(op) =>
          op \in Range(commandQueue) \/ (op.gen = active.gen => active.task \in achieved)
    BY <1>3, <2>3, <2>4 DEF EarnedInv, Routed, Execution
  <2>6. ~abandoned => ~Running /\ \A l \in Range(stdin) : l.type # "execute"
    BY <1>0, <1>3 DEF KeptInv, ExecInv, Routed
  <2> QED
    BY <1>0, <1>1, <2>2, <2>3, <2>5, <2>6 DEF Learns, r
<1> QED
  BY <1>2, <1>3

LEMMA AckLearns ==
  ASSUME Books, Custody, AckArrives, UNCHANGED worldVars
  PROVE  Learns
<1> USE DEF Books, Custody
<1> DEFINE r == Head(stdout)
<1>0. /\ Types /\ stdout # <<>> /\ r.type = "ack" /\ stdout' = Tail(stdout)
      /\ r \in Range(stdout) /\ r \in Response(Tasks)
      /\ UNCHANGED <<stdin, abandoned, achieved>>
      /\ call \in [pc : {"none", "target", "lost", "acking", "running"}, id : Nat,
                   task : Tasks \cup {NoTask}, waiting : Seq(Nat)]
      /\ control \in [pc : {"none", "waiting", "done", "failed"}, id : Nat]
  BY HeadLine DEF AckArrives, Answers, Receives, Consume, worldVars, Types, TypeOK
<1>1. PICK i \in DOMAIN pending :
        Answers(pending[i]) /\ Settled(i) /\ Acknowledged(pending[i])
  BY DEF AckArrives
<1> DEFINE c == pending[i]
<1>2. /\ c.id = r.id /\ \A d \in Range(pending') : d.id # c.id
      /\ c \in Range(pending) /\ c.type \in RequestTypes /\ c.gen \in Nat
  BY <1>1, SettledOne, Elements DEF Answers
<1>4. /\ UNCHANGED orchestratorVars
      /\ \/ /\ c.type = "execute" /\ UNCHANGED control
            /\ call' = [call EXCEPT !.pc = "running"]
         \/ /\ c.type = "resume" /\ UNCHANGED control
            /\ call' = IF Execution THEN [call EXCEPT !.waiting = Append(@, c.gen)] ELSE call
         \/ /\ c.type \in {"pause", "cancel"} /\ UNCHANGED call
            /\ control' = [control EXCEPT !.pc = "done"]
  BY <1>1, <1>2 DEF Acknowledged, RequestTypes
<1> HIDE DEF c, r
<1>5. UNCHANGED <<lease, active, commandQueue, checkpoints>>
  BY <1>4 DEF orchestratorVars, memoryVars, leaseVars, diskVars
<1>6. /\ \A t : r \notin Results(t)
      /\ \A d \in Range(pending') : r \notin Acks(d.id)
  BY <1>0, <1>2 DEF Results, Acks
<1>7. control'.pc = "done" =>
        UNCHANGED control \/ (control.pc = "waiting" /\ r \in Acks(control.id))
  BY <1>0, <1>2, <1>4 DEF CallInv, Acks
<1>8. c.type = "execute" => call.pc = "acking" /\ r.id = call.id
  BY <1>2 DEF CallInv
<1>9. /\ call'.pc = "running" => call.pc = "running" \/ (r.type = "ack" /\ r.id = call.id)
      /\ Execution => Execution'
      /\ Engaged' => Engaged
  BY <1>0, <1>4, <1>8 DEF Execution, Engaged
<1>10. \A g \in Range(call'.waiting) : call'.pc # "none" =>
         g \in Range(call.waiting) \/ (g = active.gen => active.task = call.task)
  <2>1. CASE call'.waiting = call.waiting
    BY <2>1
  <2>2. CASE c.type = "resume" /\ Execution /\ call'.waiting = Append(call.waiting, c.gen)
    <3>1. Range(call'.waiting) = Range(call.waiting) \cup {c.gen}
      BY <1>0, <1>2, <2>2, RangeOfAppend
    <3>2. c.gen = active.gen => active.task = call.task
      BY <1>2, <2>2 DEF ResumeInv, Execution
    <3> QED
      BY <3>1, <3>2
  <2> QED
    BY <1>0, <1>4, <2>1, <2>2
<1>11. stdout # <<>> /\ stdout' = Tail(stdout) /\ r = Head(stdout)
  BY <1>0 DEF r
<1> QED
  BY <1>0, <1>5, <1>6, <1>7, <1>9, <1>10, <1>11 DEF Learns

LEMMA DroppedLearns ==
  ASSUME Books, Custody, LineDropped, UNCHANGED worldVars
  PROVE  Learns
<1> USE DEF Books, Custody
<1> DEFINE r == Head(stdout)
<1>0. /\ Types /\ stdout # <<>> /\ stdout' = Tail(stdout)
      /\ UNCHANGED <<stdin, pending, control, call, abandoned, achieved>>
      /\ UNCHANGED <<lease, active, commandQueue, checkpoints>>
      /\ r.type = "error" \/ r.type = "ack"
  BY DEF LineDropped, IsDropped, Receives, Consume, worldVars, clientVars, orchestratorVars,
     memoryVars, leaseVars, diskVars
<1>1. \A c \in Range(pending) : c.sent => r \notin Acks(c.id)
  <2>1. ASSUME NEW i \in DOMAIN pending, pending[i].sent, r \in Acks(pending[i].id) PROVE FALSE
    <3>1. Answers(pending[i]) /\ r.type = "ack"
      BY <1>0, <2>1 DEF Acks, Answers, Receives
    <3> QED
      BY <3>1 DEF LineDropped, IsDropped, Receives
  <2> HIDE DEF r
  <2> QED
    BY <2>1 DEF Range
<1>2. \A t : r \notin Results(t)
  BY <1>0 DEF Results
<1>3. Execution' = Execution
  BY <1>0 DEF Execution
<1> QED
  BY <1>0, <1>1, <1>2, <1>3 DEF Learns


(* A request may be given up when nothing of the task goes on.             *)
LEMMA GivesUpLearns ==
  ASSUME Books, Custody, NEW i \in DOMAIN pending, GivesUp(i), UNCHANGED achieved,
         ~abandoned' => ~abandoned,
         pending[i].type = "resume" /\ Execution /\ pending[i].task = call.task => Reported,
         pending[i].type = "execute" /\ ~abandoned' =>
           ~Running /\ \A l \in Range(stdin) : l.type # "execute"
  PROVE  Learns
<1> USE DEF Books, Custody
<1> DEFINE c == pending[i]
<1>0. /\ Types /\ UNCHANGED <<stdin, stdout>> /\ call.waiting \in Seq(Nat)
      /\ c \in Range(pending) /\ c.type \in RequestTypes /\ c.gen \in Nat
      /\ control \in [pc : {"none", "waiting", "done", "failed"}, id : Nat]
  BY SettledOne, Elements, NumbersTyped DEF GivesUp, workerVars, Types, TypeOK
<1>1. \/ /\ c.type = "execute" /\ UNCHANGED control
         /\ call' = NoCall /\ Enqueue(Outcomes(call.waiting, "failed"))
      \/ /\ c.type = "resume" /\ UNCHANGED <<call, control>>
         /\ Enqueue(<<OutcomeOp(c.gen, "failed")>>)
      \/ /\ c.type \in {"pause", "cancel"} /\ UNCHANGED <<call, orchestratorVars>>
         /\ control' = [control EXCEPT !.pc = "failed"]
  BY <1>0 DEF GivesUp, Settle, RequestTypes
<1>2. /\ c.type = "resume" /\ Execution /\ c.task = call.task => Reported
      /\ c.type = "execute" /\ ~abandoned' =>
           ~Running /\ \A l \in Range(stdin) : l.type # "execute"
  OBVIOUS
<1> HIDE DEF c
<1>3. CASE c.type = "execute" /\ UNCHANGED control
           /\ call' = NoCall /\ Enqueue(Outcomes(call.waiting, "failed"))
  <2>1. call'.pc = "none" /\ ~Execution' /\ ~Engaged' /\ Range(call'.waiting) = {}
    BY <1>3, NoCallIs
  <2>2. /\ UNCHANGED <<lease, checkpoints>>
        /\ \A op \in Range(commandQueue') : Succeeds(op) => op \in Range(commandQueue)
    BY <1>0, <1>3, OutcomesRange DEF Enqueue, leaseVars, diskVars
  <2> QED
    BY <1>0, <1>2, <1>3, <2>1, <2>2 DEF Learns
<1>4. CASE c.type = "resume" /\ UNCHANGED <<call, control>>
           /\ Enqueue(<<OutcomeOp(c.gen, "failed")>>)
  <2>1. /\ UNCHANGED <<lease, checkpoints>> /\ Execution' = Execution /\ Engaged' = Engaged
        /\ \A op \in Range(commandQueue') :
             op \in Range(commandQueue) \/ (op.gen = c.gen /\ ~Succeeds(op))
    BY <1>0, <1>4, RefusalRange DEF Enqueue, leaseVars, diskVars, Execution, Engaged
  <2>2. Engaged /\ c.gen = active.gen => Reported
    <3>1. ASSUME Engaged, c.gen = active.gen PROVE c.task = call.task
      BY <1>0, <1>4, <3>1 DEF ResumeInv, Engaged, Execution
    <3>2. ASSUME call.pc = "target", c.task = call.task PROVE FALSE
      BY <1>0, <1>4, <3>2 DEF TargetInv
    <3> QED
      BY <1>2, <1>4, <3>1, <3>2 DEF Engaged
  <2> QED
    BY <1>0, <1>2, <1>4, <2>1, <2>2 DEF Learns
<1>5. CASE c.type \in {"pause", "cancel"} /\ UNCHANGED <<call, orchestratorVars>>
           /\ control' = [control EXCEPT !.pc = "failed"]
  <2>1. /\ UNCHANGED <<lease, checkpoints, commandQueue>> /\ Execution' = Execution
        /\ control'.pc = "failed"
    BY <1>0, <1>5 DEF orchestratorVars, leaseVars, memoryVars, diskVars, Execution
  <2> QED
    BY <1>0, <1>5, <2>1 DEF Learns
<1> QED
  BY <1>1, <1>3, <1>4, <1>5

LEMMA TimeoutLearns ==
  ASSUME Books, Custody, NEW i \in DOMAIN pending, Unanswered(pending[i]), GivesUp(i),
         UNCHANGED worldVars
  PROVE  Learns
<1> USE DEF Books, Custody
<1> DEFINE c == pending[i]
<1>1. /\ c.sent /\ c \in Range(pending)
      /\ \A l \in Range(stdin) : l.id # c.id
      /\ \A r \in Range(stdout) : r.type = "ack" => r.id # c.id
      /\ UNCHANGED <<achieved, abandoned>>
  BY DEF Unanswered, Range, worldVars
<1> HIDE DEF c
<1>2. c.type = "resume" /\ Execution /\ c.task = call.task => Reported
  BY <1>1 DEF ResumeInv
<1>3. c.type = "execute" /\ ~abandoned' =>
        ~Running /\ \A l \in Range(stdin) : l.type # "execute"
  <2> SUFFICES ASSUME c.type = "execute", ~abandoned'
               PROVE  ~Running /\ \A l \in Range(stdin) : l.type # "execute"
    OBVIOUS
  <2>1. call.pc = "acking" /\ c.id = call.id
    BY <1>1 DEF CallInv
  <2>2. ~Running
    BY <1>1, <2>1 DEF KeptInv, AckInv, AgentIsCalls, Running
  <2>3. \A l \in Range(stdin) : l.type # "execute"
    BY <1>1, <2>1 DEF KeptInv, ExecInv
  <2> QED
    BY <2>2, <2>3
<1> QED
  BY <1>1, <1>2, <1>3, GivesUpLearns DEF c

LEMMA TooLateLearns ==
  ASSUME Books, Custody, NEW i \in DOMAIN pending, Serves("cancel"), GivesUp(i), Abandon
  PROVE  Learns
<1> USE DEF Books, Custody
<1> DEFINE c == pending[i]
<1>1. c \in Range(pending) /\ UNCHANGED achieved /\ abandoned'
  BY DEF Range, Abandon, OneMoreFault
<1> HIDE DEF c
<1>2. ~Running
  <2>1. serving[1] \in Range(serving) /\ serving[1].type = "cancel"
    BY ServingType DEF Serves, Types, TypeOK
  <2> QED
    BY <2>1 DEF WireInv
<1>3. c.type = "resume" /\ Execution /\ c.task = call.task => Reported
  BY <1>1, <1>2 DEF AcceptInv, Accepted
<1> QED
  BY <1>1, <1>3, GivesUpLearns DEF c

(* What failAll tells the queue.                                           *)
LEMMA AllFailTells ==
  ASSUME Books, AllFail
  PROVE  /\ UNCHANGED <<lease, active, job, checkpoints>>
         /\ \/ call' = NoCall /\ Execution
            \/ UNCHANGED call /\ ~Execution
         /\ \A op \in Range(commandQueue') :
              \/ op \in Range(commandQueue)
              \/ /\ ~Succeeds(op)
                 /\ \/ Execution
                    \/ \E c \in Range(pending) : c.type = "resume" /\ c.gen = op.gen
         /\ control'.pc # "done" \/ UNCHANGED control
         /\ control'.pc # "waiting"
<1>0. /\ Types /\ ClientTypeOK(Tasks) /\ call.waiting \in Seq(Nat)
      /\ control \in [pc : {"none", "waiting", "done", "failed"}, id : Nat]
      /\ <<>> \in Seq(Nat) /\ Range(<<>>) = {}
  BY NumbersTyped, EmptySeq, RangeOfEmpty DEF Books, Types, TypeOK
<1>1. PICK q \in InOrder(Resumes) :
        Enqueue(Outcomes((IF Execution THEN call.waiting ELSE <<>>) \o Gens(q), "failed"))
  BY DEF AllFail
<1>2. /\ Gens(q) \in Seq(Nat)
      /\ \A g \in Range(Gens(q)) : \E c \in Range(pending) : c.type = "resume" /\ c.gen = g
  BY <1>0, GensType
<1> DEFINE w == IF Execution THEN call.waiting ELSE <<>>
<1>3. w \in Seq(Nat) /\ (~Execution => Range(w) = {})
  BY <1>0
<1>4. Enqueue(Outcomes(w \o Gens(q), "failed"))
  BY <1>1
<1> HIDE DEF w
<1>5. w \o Gens(q) \in Seq(Nat) /\ Range(w \o Gens(q)) = Range(w) \cup Range(Gens(q))
  BY <1>2, <1>3, RangeOfConcat
<1>6. /\ UNCHANGED <<lease, active, job, checkpoints>>
      /\ \A op \in Range(commandQueue') :
           op \in Range(commandQueue) \/ (~Succeeds(op) /\ op.gen \in Range(w \o Gens(q)))
  BY <1>0, <1>4, <1>5, OutcomesRange DEF Enqueue, leaseVars, diskVars
<1>7. /\ call' = IF Execution THEN NoCall ELSE call
      /\ control' = IF control.pc = "waiting" THEN [control EXCEPT !.pc = "failed"] ELSE control
  BY DEF AllFail
<1>8. (control'.pc # "done" \/ UNCHANGED control) /\ control'.pc # "waiting"
  BY <1>0, <1>7
<1> QED
  BY <1>2, <1>3, <1>5, <1>6, <1>7, <1>8

LEMMA InvalidLearns ==
  ASSUME Books, Custody, InvalidLine
  PROVE  Learns
<1> USE DEF Books, Custody
<1>0. /\ UNCHANGED <<stdin, stdout, achieved>> /\ abandoned' /\ AllFail
  BY DEF InvalidLine, workerVars, Abandon, OneMoreFault
<1>1. CASE call' = NoCall
  <2>1. call'.pc = "none" /\ ~Execution' /\ ~Engaged' /\ Range(call'.waiting) = {}
    BY <1>1, NoCallIs
  <2> QED
    BY <1>0, <2>1, AllFailTells DEF Learns
<1>2. CASE UNCHANGED call /\ ~Execution
  <2>1. Engaged' /\ Mine => \A c \in Range(pending) : c.type = "resume" => c.gen # active.gen
    BY <1>2 DEF Engaged, Execution, TargetInv, ResumeInv
  <2> QED
    BY <1>0, <1>2, <2>1, AllFailTells DEF Learns
<1> QED
  BY <1>0, <1>1, <1>2, AllFailTells

-----------------------------------------------------------------------------
(* The process is ready: the lines written are those of the pending calls. *)
LEMMA ReadyCustody ==
  ASSUME Books, Custody, ProcessReady
  PROVE  Custody'
<1> USE DEF Books, Custody
<1>0. /\ Types /\ process = "starting"
      /\ pending' = [i \in DOMAIN pending |-> [pending[i] EXCEPT !.sent = TRUE]]
      /\ stdin' = [i \in DOMAIN pending |-> Line(pending[i])]
      /\ UNCHANGED <<stdout, serving, exec, call, control, abandoned, achieved>>
      /\ UNCHANGED <<lease, active, job, commandQueue, checkpoints>>
  BY DEF ProcessReady, Ready, worldVars, orchestratorVars, memoryVars, leaseVars, diskVars
<1>1. Range(stdout) = {} /\ Range(serving) = {} /\ exec.pc = "none" /\ stdout \in Seq(Response(Tasks))
  BY <1>0, NumbersTyped DEF WireInv
<1>2. \A i \in DOMAIN pending :
        /\ pending[i] \in Range(pending)
        /\ pending'[i].id = pending[i].id /\ pending'[i].type = pending[i].type
        /\ pending'[i].task = pending[i].task /\ pending'[i].gen = pending[i].gen
        /\ stdin'[i].id = pending[i].id /\ stdin'[i].type = pending[i].type
        /\ stdin'[i].task = pending[i].task
  <2>1. \A i \in DOMAIN pending : pending[i] \in Call(Tasks)
    BY <1>0, NumbersTyped
  <2>2. \A c : Line(c).id = c.id /\ Line(c).type = c.type /\ Line(c).task = c.task
    BY DEF Line
  <2> QED
    BY <1>0, <2>1, <2>2 DEF Call, Range
<1>3. DOMAIN pending' = DOMAIN pending /\ DOMAIN stdin' = DOMAIN pending
  BY <1>0
<1>4. \A d \in Range(pending') : \E c \in Range(pending) :
        /\ d.id = c.id /\ d.type = c.type /\ d.task = c.task /\ d.gen = c.gen
        /\ \E l \in Range(stdin') : l.id = d.id
  BY <1>2, <1>3 DEF Range
<1>5. \A l \in Range(stdin') : \E c \in Range(pending) :
        l.id = c.id /\ l.type = c.type /\ l.task = c.task
  BY <1>2, <1>3 DEF Range
<1>6. Execution' = Execution /\ Engaged' = Engaged /\ Mine' = Mine /\ ~Reported /\ ~Accepted
  BY <1>0, <1>1 DEF Execution, Engaged, Mine, Held, Reported, Accepted, AgentIsCalls
<1>7. AnswerInv' /\ AsksInv'
  BY <1>0, <1>1, <1>4, <1>5 DEF AnswerInv, AsksInv
<1>8. TurnInv' /\ CustodyInv'
  BY <1>0, <1>6 DEF TurnInv, CustodyInv
<1>9. AcceptInv'
  BY <1>0, <1>1, <1>4, <1>6 DEF AcceptInv, AgentIsCalls
<1>10. OrderInv'
  <2>1. DOMAIN stdout = {}
    BY <1>1 DEF Range
  <2> QED
    BY <1>0, <2>1 DEF OrderInv, Leads
<1>11. ResumeInv'
  BY <1>0, <1>4 DEF ResumeInv
<1>12. KeptInv'
  BY <1>0, <1>1, <1>5, <1>6 DEF KeptInv, Running, CallInv, Execution
<1>13. EarnedInv'
  BY <1>0 DEF EarnedInv, SuccessIsEarned
<1> QED
  BY <1>7, <1>8, <1>9, <1>10, <1>11, <1>12, <1>13

(* There is no process, and whatever was asked of it has failed.           *)
LEMMA BreaksCustody ==
  ASSUME Books, Custody, Breaks
  PROVE  Custody'
<1> USE DEF Books, Custody
<1>0. /\ UNCHANGED <<abandoned, achieved>> /\ AllFail
      /\ Range(pending') = {} /\ Range(stdin') = {} /\ Range(stdout') = {} /\ Range(serving') = {}
      /\ exec'.pc = "none"
  BY BreaksLeaves
<1>1. exec'.pc = "none" /\ ~Running' /\ ~AgentIsCalls'
  BY <1>0 DEF Running, AgentIsCalls
<1>2. /\ UNCHANGED <<lease, active, job, checkpoints>>
      /\ \/ call'.pc = "none" /\ ~Engaged' /\ Range(call'.waiting) = {}
         \/ UNCHANGED call /\ ~Execution
      /\ ~Execution'
      /\ \A op \in Range(commandQueue') :
           \/ op \in Range(commandQueue)
           \/ /\ ~Succeeds(op)
              /\ Execution \/ \E c \in Range(pending) : c.type = "resume" /\ c.gen = op.gen
      /\ control'.pc # "done" \/ UNCHANGED control
      /\ control'.pc # "waiting"
  BY <1>0, AllFailTells, NoCallIs DEF Execution
<1>3. AnswerInv' /\ AsksInv' /\ AcceptInv' /\ OrderInv' /\ ResumeInv' /\ KeptInv'
  BY <1>0, <1>1, <1>2 DEF AnswerInv, AsksInv, AcceptInv, OrderInv, ResumeInv, KeptInv
<1>4. TurnInv'
  BY <1>2 DEF TurnInv, Engaged, Execution
<1>5. CustodyInv'
  <2>1. ASSUME call'.pc = "target" PROVE Mine'
    <3>1. UNCHANGED call /\ ~Execution /\ Mine
      BY <1>2, <2>1 DEF CustodyInv
    <3>2. \A c \in Range(pending) : c.type = "resume" => c.gen # active.gen
      BY <2>1, <3>1 DEF TargetInv, ResumeInv
    <3> QED
      BY <1>2, <3>1, <3>2 DEF Mine, Held
  <2> QED
    BY <1>2, <2>1 DEF CustodyInv
<1>6. EarnedInv'
  <2>1. SuccessIsEarned' /\ \A r \in Range(stdout') : r.status = "succeeded" => r.task \in achieved'
    BY <1>0, <1>2 DEF EarnedInv, SuccessIsEarned
  <2>2. \A op \in Range(commandQueue') :
          Succeeds(op) /\ op.gen = active'.gen => active'.task \in achieved'
    BY <1>0, <1>2 DEF EarnedInv
  <2>3. \A g \in Range(call'.waiting) :
          call'.pc # "none" /\ g = active'.gen => active'.task = call'.task
    BY <1>2 DEF EarnedInv
  <2> QED
    BY <2>1, <2>2, <2>3 DEF EarnedInv, Succeeds
<1> QED
  BY <1>3, <1>4, <1>5, <1>6

-----------------------------------------------------------------------------
(* What the worker's task comes to: an execution ends with its result      *)
(* written, a cancellation is answered when it has ended, and a resume of  *)
(* the task it has is acknowledged.                                        *)
Works ==
  /\ UNCHANGED <<lease, commandQueue, checkpoints>>
  /\ ~abandoned' => ~abandoned
  /\ achieved \subseteq achieved'
  /\ \A r \in Range(stdout') :
       r.status = "succeeded" => r \in Range(stdout) \/ r.task \in achieved'
  /\ exec.pc # "none" /\ exec'.pc = "none" => ~Running
  /\ Running /\ ~Running' => \E r \in Range(stdout') : r.type = "result" /\ r.task = exec.task
  /\ \A q \in Range(stdin) \ Range(stdin') : ActiveFor(q) =>
       /\ q.type = "cancel" => ~Running \/ Range(serving') # {}
       /\ q.type = "resume" => \E r \in Range(stdout') : r.type = "ack" /\ r.id = q.id

LEMMA WorkerWorks ==
  ASSUME Books, Worker \/ WorkerFails
  PROVE  Works
<1>0. /\ Types /\ WorkerTypeOK(NoTask, Tasks) /\ stdin \in Seq(Request(Tasks))
      /\ UNCHANGED <<lease, commandQueue, checkpoints>> /\ (~abandoned' => ~abandoned)
  BY NumbersTyped DEF Worker, WorkerFails, Fault, OneMoreFault, orchestratorVars, leaseVars, memoryVars, diskVars,
     Books, Types, TypeOK
<1>1. ASSUME NEW r \in Response(Tasks), Emit(r)
      PROVE  Range(stdout') = Range(stdout) \cup {r}
  BY <1>0, <1>1, NumbersTyped, RangeOfAppend DEF Emit
<1>2. /\ achieved \subseteq achieved'
      /\ \A r \in Range(stdout') :
           r.status = "succeeded" => r \in Range(stdout) \/ r.task \in achieved'
  <2>1. CASE Worker
    BY <2>1 DEF Worker, Range
  <2>2. CASE WorkerFails
    <3>1. achieved' = achieved
      BY <2>2 DEF WorkerFails, Fault, OneMoreFault
    <3>2. UNCHANGED stdout \/ (serving # <<>> /\ Emit(Error(serving[1])))
      BY <2>2 DEF WorkerFails, PauseGivesUp, BrowserStopFails, Serves
    <3>3. CASE serving # <<>> /\ Emit(Error(serving[1]))
      <4>1. serving[1] \in Request(Tasks)
        BY <1>0, <3>3, ServingType
      <4>2. Error(serving[1]) \in Response(Tasks) /\ Error(serving[1]).status = "none"
        BY <4>1, ResponsesBuilt DEF Error
      <4> QED
        BY <1>1, <3>1, <3>3, <4>2
    <3> QED
      BY <3>1, <3>2, <3>3
  <2> QED
    BY <2>1, <2>2
<1>3. ASSUME NEW types, Reads(types)
      PROVE  /\ Head(stdin) \in Request(Tasks) /\ Head(stdin).type \in types
             /\ \A q \in Range(stdin) \ Range(stdin') : q = Head(stdin)
             /\ Ack(Head(stdin)) \in Response(Tasks)
             /\ Ack(Head(stdin)).type = "ack" /\ Ack(Head(stdin)).id = Head(stdin).id
  <2>1. stdin # <<>> /\ stdin' = Tail(stdin)
    BY <1>3 DEF Reads
  <2>2. Range(stdin) = Range(stdin') \cup {Head(stdin)}
    BY <1>0, <2>1, RangeOfTail
  <2> QED
    BY <1>3, <2>2, ReadsMoves, ResponsesBuilt DEF Ack
<1>4. exec.pc # "none" => \A s \in {"succeeded", "failed", "cancelled"} :
        /\ Result(exec, s) \in Response(Tasks) /\ Result(exec, s).type = "result"
        /\ Result(exec, s).task = exec.task
  BY <1>0, ResponsesBuilt DEF Result, Types
<1> USE <1>0, <1>2 DEF Works
<1>5. CASE StartExecution
  <2>1. exec.pc = "none" /\ Reads({"execute"})
    BY <1>5 DEF StartExecution
  <2> QED
    BY <1>3, <2>1 DEF ActiveFor, Running
<1>6. CASE RefuseRequest
  <2>1. /\ UNCHANGED exec /\ Reads(RequestTypes)
        /\ IF Head(stdin).type = "execute" THEN exec.pc # "none" ELSE ~ActiveFor(Head(stdin))
    BY <1>6 DEF RefuseRequest
  <2> QED
    BY <1>3, <2>1 DEF Running
<1>7. CASE ServePause
  <2>1. exec'.pc = exec.pc /\ Reads({"pause"})
    BY <1>7 DEF ServePause, WorkerTypeOK
  <2> QED
    BY <1>3, <2>1 DEF Running
<1>8. CASE ServeResume
  <2>1. exec'.pc = exec.pc /\ Reads({"resume"}) /\ Emit(Ack(Head(stdin)))
    BY <1>8 DEF ServeResume, WorkerTypeOK
  <2>2. Ack(Head(stdin)) \in Range(stdout')
    BY <1>1, <1>3, <2>1
  <2> QED
    BY <1>3, <2>1, <2>2 DEF Running
<1>9. CASE ServeCancel(NoTask)
  <2>1. Reads({"cancel"}) /\ exec.pc # "none"
    BY <1>9 DEF ServeCancel, ActiveFor
  <2>2. CASE Running
    <3>1. /\ exec' = [exec EXCEPT !.pc = "closing"] /\ serving' = <<Head(stdin)>>
          /\ Emit(Result(exec, "cancelled"))
      BY <1>9, <2>2 DEF ServeCancel, Running
    <3>2. exec'.pc = "closing" /\ Range(serving') # {} /\ Result(exec, "cancelled") \in Range(stdout')
      BY <1>1, <1>4, <2>1, <3>1, RangeOfOne DEF WorkerTypeOK
    <3> QED
      BY <1>3, <1>4, <2>1, <3>2 DEF Running
  <2>3. CASE ~Running
    BY <1>3, <2>1, <2>3
  <2> QED
    BY <2>2, <2>3
<1>10. CASE PauseReturns \/ CancelReturns \/ PauseGivesUp
  <2>1. UNCHANGED <<stdin, exec>>
    BY <1>10 DEF PauseReturns, CancelReturns, PauseGivesUp
  <2> QED
    BY <2>1 DEF Running
<1>11. CASE AgentCreated \/ StepBegins \/ StepEnds \/ BrowserStops(NoTask) \/ BrowserStopFails
  <2>1. UNCHANGED stdin
    BY <1>11 DEF AgentCreated, StepBegins, StepEnds, BrowserStops, BrowserStopFails
  <2>2. CASE exec.pc = "closing"
    BY <2>1, <2>2 DEF Running
  <2>3. CASE exec.pc # "closing"
    <3>1. exec'.pc \in {"loop", "step"}
      BY <1>11, <2>3 DEF AgentCreated, StepBegins, StepEnds, BrowserStops, BrowserStopFails,
         WorkerTypeOK
    <3> QED
      BY <2>1, <3>1 DEF Running
  <2> QED
    BY <2>2, <2>3
<1>12. CASE ExecutionEnds
  <2>1. PICK s \in {"succeeded", "failed"} : Emit(Result(exec, s))
    BY <1>12 DEF ExecutionEnds
  <2>2. exec.pc # "none" /\ exec'.pc = "closing" /\ UNCHANGED stdin
    BY <1>12 DEF ExecutionEnds, WorkerTypeOK
  <2>3. Result(exec, s) \in Range(stdout') /\ Result(exec, s).type = "result"
        /\ Result(exec, s).task = exec.task
    BY <1>1, <1>4, <2>1, <2>2
  <2> QED
    BY <2>2, <2>3
<1> QED
  BY <1>5, <1>6, <1>7, <1>8, <1>9, <1>10, <1>11, <1>12
  DEF Worker, WorkerFails, MainLoop, ExecutionRuns

LEMMA WorksKeep ==
  ASSUME Books, Custody, WorkerMoves, Works
  PROVE  Custody'
<1> USE DEF Books, Custody
<1>0. /\ Types
      /\ UNCHANGED <<process, pending, requests, call, control, job, active>>
      /\ UNCHANGED <<lease, commandQueue, checkpoints>>
      /\ Range(stdin') \subseteq Range(stdin)
      /\ \A l \in Range(serving') :
           l \in Range(serving) \/ (l \in Range(stdin) /\ ActiveFor(l))
      /\ GoesOn \/ \E h : Starts(h)
  BY DEF WorkerMoves, ServesOn, Works
<1>1. /\ Range(stdout) \subseteq Range(stdout')
      /\ \A r \in Range(stdout') : r \in Range(stdout) \/ (r \in Response(Tasks) /\ Says(r))
  <2>1. \A r \in Response(Tasks) : Says(r) => Range(stdout') = Range(stdout) \cup {r}
    BY <1>0, NumbersTyped, RangeOfAppend DEF Says
  <2> QED
    BY <2>1 DEF WorkerMoves
<1>2. /\ Execution' = Execution /\ Engaged' = Engaged /\ Mine' = Mine
      /\ (Reported => Reported')
  BY <1>0, <1>1 DEF Execution, Engaged, Mine, Held, Reported
<1>3. \A c \in Range(pending), l \in Range(stdin) :
        c.id = l.id => l.task = c.task /\ l.type = c.type
  <2>1. \A c : Line(c).task = c.task /\ Line(c).type = c.type
    BY DEF Line
  <2> QED
    BY <2>1 DEF IdInv
<1>4. \A r : Says(r) /\ r.type = "ack" => \E q \in AtHand : Acknowledges(r, q)
  BY DEF Says
<1>5. Execution /\ Accepted => Accepted'
  <2>1. ASSUME Execution, AgentIsCalls PROVE AgentIsCalls' \/ Reported
    <3>1. CASE exec'.pc = "none"
      BY <2>1, <3>1 DEF Works, AcceptInv, AgentIsCalls
    <3>2. CASE exec'.pc # "none"
      BY <1>0, <2>1, <3>2 DEF GoesOn, Starts, AgentIsCalls
    <3> QED
      BY <3>1, <3>2
  <2> QED
    BY <1>2, <2>1 DEF Accepted
<1>6. AnswerInv'
  <2> SUFFICES ASSUME NEW c \in Range(pending)
               PROVE  /\ \A l \in Range(serving') : l.id = c.id => l.task = c.task
                      /\ \A r \in Range(stdout') : r.type = "ack" /\ r.id = c.id => r.task = c.task
    BY <1>0 DEF AnswerInv
  <2>1. \A q \in AtHand : q.id = c.id => q.task = c.task
    BY <1>3 DEF AtHand, AnswerInv
  <2>2. \A r \in Range(stdout') : r.type = "ack" /\ r.id = c.id => r.task = c.task
    BY <1>1, <1>4, <2>1 DEF AnswerInv, Acknowledges
  <2> QED
    BY <1>0, <2>1, <2>2 DEF AtHand
<1>7. AsksInv'
  <2> SUFFICES ASSUME control.pc = "waiting", call.pc # "none"
               PROVE  /\ \A c \in Range(pending) : c.id = control.id => c.task = call.task
                      /\ \A l \in Range(stdin') : l.id = control.id => l.task = call.task
                      /\ \A l \in Range(serving') : l.id = control.id => l.task = call.task
                      /\ \A r \in Range(stdout') :
                           r.type = "ack" /\ r.id = control.id => r.task = call.task
    BY <1>0 DEF AsksInv
  <2>1. \A q \in AtHand : q.id = control.id => q.task = call.task
    BY DEF AtHand, AsksInv
  <2>2. \A r \in Range(stdout') : r.type = "ack" /\ r.id = control.id => r.task = call.task
    BY <1>1, <1>4, <2>1 DEF AsksInv, Acknowledges
  <2> QED
    BY <1>0, <2>1, <2>2 DEF AtHand, AsksInv
<1>8. TurnInv' /\ CustodyInv'
  BY <1>0, <1>2 DEF TurnInv, CustodyInv
<1>9. AcceptInv'
  <2> SUFFICES ASSUME Execution
               PROVE  /\ call.pc = "running" => Accepted'
                      /\ \A r \in Range(stdout') : r.type = "ack" /\ r.task = call.task => Accepted'
                      /\ \A l \in Range(serving') : l.task = call.task => Accepted'
                      /\ \A c \in Range(pending) :
                           c.type = "resume" /\ c.task = call.task => Accepted'
                      /\ control.pc = "done" =>
                           Accepted' /\ job.pc = "pausing" /\ active.task = call.task
                      /\ active.awaiting => Accepted' /\ active.task = call.task
                      /\ AgentIsCalls' /\ ~Running' => Reported'
    BY <1>0, <1>2 DEF AcceptInv
  <2>1. \A q : ActiveFor(q) /\ q.task = call.task => Accepted'
    BY <1>5 DEF ActiveFor, Accepted, AgentIsCalls
  <2>2. \A l \in Range(serving') : l.task = call.task => Accepted'
    BY <1>0, <1>5, <2>1 DEF AcceptInv
  <2>3. ASSUME NEW r \in Range(stdout'), r.type = "ack", r.task = call.task PROVE Accepted'
    <3>1. CASE r \in Range(stdout)
      BY <1>5, <2>3, <3>1 DEF AcceptInv
    <3>2. ASSUME NEW q \in AtHand, Acknowledges(r, q) PROVE Accepted'
      <4>1. q.task = call.task
        BY <2>3, <3>2 DEF Acknowledges
      <4>2. CASE q \in Range(serving)
        BY <1>5, <4>1, <4>2 DEF AcceptInv
      <4>3. CASE Starts(q)
        BY <1>0, <4>1, <4>3 DEF Starts, Accepted, AgentIsCalls
      <4>4. CASE ActiveFor(q)
        BY <2>1, <4>1, <4>4
      <4> QED
        BY <3>2, <4>2, <4>3, <4>4 DEF Acknowledges, AtHand
    <3> QED
      BY <1>1, <1>4, <2>3, <3>1, <3>2
  <2>4. ASSUME AgentIsCalls', ~Running' PROVE Reported'
    <3>1. exec'.pc # "start"
      BY <2>4 DEF Running
    <3>2. AgentIsCalls
      BY <1>0, <2>4, <3>1 DEF GoesOn, Starts, AgentIsCalls
    <3>3. Running => Reported'
      BY <1>0, <2>4, <3>2 DEF Works, Reported, AgentIsCalls
    <3>4. ~Running => Reported
      BY <3>2 DEF AcceptInv
    <3> QED
      BY <1>2, <3>3, <3>4
  <2> QED
    BY <1>5, <2>2, <2>3, <2>4 DEF AcceptInv
<1>10. OrderInv'
  <2> SUFFICES ASSUME control.pc = "waiting", Execution,
                      job.pc # "pausing" \/ active.task # call.task
               PROVE  Leads(stdout', Results(call.task), Acks(control.id))
    BY <1>0, <1>2 DEF OrderInv, Results, Acks
  <2>1. Leads(stdout, Results(call.task), Acks(control.id)) /\ call.pc # "none"
    BY DEF OrderInv, Execution
  <2>2. ASSUME NEW r \in Response(Tasks), Says(r), r \in Acks(control.id)
        PROVE  Reported
    <3>1. PICK q \in AtHand : Acknowledges(r, q)
      BY <1>4, <2>2 DEF Acks
    <3>2. q.id = control.id /\ q.type = ControlType /\ q.task = call.task
      BY <2>1, <2>2, <3>1 DEF Acks, Acknowledges, AtHand, AskInv, AsksInv
    <3>3. CASE active.task # call.task
      BY <3>3 DEF CustodyInv, Mine
    <3>4. CASE job.pc # "pausing"
      <4>1. q.type = "cancel"
        BY <3>2, <3>4 DEF ControlType
      <4>2. CASE q \in Range(serving)
        BY <3>2, <4>1, <4>2 DEF WireInv, AcceptInv, Accepted
      <4>3. CASE q \in Range(stdin)
        <5>1. ActiveFor(q) /\ Range(serving') = {} /\ Gone(q)
          BY <3>1, <4>1, <4>3 DEF Acknowledges, Starts
        <5>2. q \notin Range(stdin')
          BY <1>0, <4>3, <5>1, Elements DEF Gone
        <5>3. ~Running /\ AgentIsCalls
          BY <3>2, <4>1, <4>3, <5>1, <5>2 DEF Works, ActiveFor, AgentIsCalls
        <5> QED
          BY <5>3 DEF AcceptInv
      <4> QED
        BY <4>2, <4>3 DEF AtHand
    <3> QED
      BY <3>3, <3>4
  <2>3. Reported => \E d \in Range(stdout) : d \in Results(call.task)
    BY <1>0, Elements DEF Reported, Results
  <2>4. ASSUME NEW r \in Response(Tasks), Says(r)
        PROVE  Leads(stdout', Results(call.task), Acks(control.id))
    BY <1>0, <2>1, <2>2, <2>3, <2>4, LeadsAppend, NumbersTyped DEF Says
  <2> QED
    BY <2>1, <2>4 DEF WorkerMoves
<1>11. ResumeInv'
  <2> SUFFICES ASSUME NEW c \in Range(pending), c.type = "resume", Execution, c.sent,
                      c.task = call.task, \A l \in Range(stdin') : l.id # c.id,
                      \A r \in Range(stdout') : r.type = "ack" => r.id # c.id
               PROVE  Reported
    BY <1>0, <1>2 DEF ResumeInv
  <2>1. CASE \A l \in Range(stdin) : l.id # c.id
    BY <1>1, <2>1 DEF ResumeInv
  <2>2. ASSUME NEW l \in Range(stdin), l.id = c.id PROVE Reported
    <3>1. l.type = "resume" /\ l.task = call.task /\ l \notin Range(stdin')
      BY <1>3, <2>2
    <3>2. ~ActiveFor(l)
      BY <2>2, <3>1 DEF Works
    <3> QED
      BY <3>1, <3>2 DEF AcceptInv, Accepted, ActiveFor, AgentIsCalls
  <2> QED
    BY <2>1, <2>2
<1>12. KeptInv'
  <2> SUFFICES ASSUME ~abandoned'
               PROVE  /\ Running' => Execution /\ exec'.task = call.task
                      /\ \A l \in Range(stdin') : l.type = "execute" => Execution /\ l.task = call.task
    BY <1>0, <1>2 DEF KeptInv
  <2>1. ~abandoned
    BY DEF Works
  <2>2. Running' => Execution /\ exec'.task = call.task
    BY <1>0, <2>1 DEF GoesOn, Starts, Running, KeptInv
  <2> QED
    BY <1>0, <2>1, <2>2 DEF KeptInv
<1>13. EarnedInv'
  <2>1. SuccessIsEarned'
    BY <1>0 DEF EarnedInv, SuccessIsEarned, Works
  <2>2. \A r \in Range(stdout') : r.status = "succeeded" => r.task \in achieved'
    BY DEF EarnedInv, Works
  <2>3. \A op \in Range(commandQueue') :
          Succeeds(op) /\ op.gen = active'.gen => active'.task \in achieved'
    BY <1>0 DEF EarnedInv, Works
  <2>4. \A g \in Range(call'.waiting) :
          call'.pc # "none" /\ g = active'.gen => active'.task = call'.task
    BY <1>0 DEF EarnedInv
  <2> QED
    BY <2>1, <2>2, <2>3, <2>4 DEF EarnedInv, Succeeds
<1> QED
  BY <1>6, <1>7, <1>8, <1>9, <1>10, <1>11, <1>12, <1>13

LEMMA WorkerCustody ==
  ASSUME Books, Custody, Worker \/ WorkerFails
  PROVE  Custody'
BY WorkerIs, WorkerWorks, WorksKeep

-----------------------------------------------------------------------------
LEMMA CustodyInit ==
  Init => Custody
<1> SUFFICES ASSUME Init PROVE Custody
  OBVIOUS
<1>0. /\ Range(pending) = {} /\ Range(stdin) = {} /\ Range(stdout) = {} /\ Range(serving) = {}
      /\ Range(commandQueue) = {} /\ Range(call.waiting) = {}
      /\ job.pc = "free" /\ control.pc = "none" /\ ~active.awaiting
      /\ call.pc = "none" /\ exec.pc = "none" /\ ~abandoned
      /\ \A t \in Tasks : checkpoints[t] # "SUCCEEDED"
  BY RangeOfEmpty
  DEF Init, OrchestratorInit, LeaseInit, WorkerInit, ClientInit, NoCall, NoControl, NoJob,
      NoActive, NoExec
<1>1. ~Execution /\ ~Running
  BY <1>0 DEF Execution, Running
<1> QED
  BY <1>0, <1>1
  DEF Custody, AnswerInv, AsksInv, TurnInv, CustodyInv, AcceptInv, OrderInv, ResumeInv, KeptInv,
      EarnedInv, SuccessIsEarned

LEMMA CustodyKept ==
  Books /\ Custody /\ [Next]_vars => Custody'
<1> SUFFICES ASSUME Books, Custody, [Next]_vars PROVE Custody'
  OBVIOUS
<1>0. Types /\ \A c \in Range(pending) : c.type = "execute" => call.pc = "acking"
  BY DEF Books, CallInv
<1>1. CASE \E c \in Commands : Deliver(c)
  BY <1>1, DeliverTurns, TurnsKeep
<1>2. CASE Orchestrate \/ OrchestrateFaulty
  BY <1>2, OrchestrateCustody
<1>3. CASE Worker \/ WorkerFails
  BY <1>3, WorkerCustody
<1>4. CASE Client
  <2>0. Types'
    BY <1>0, <1>4, ClientType
  <2>1. CASE TargetKnown \/ ProcessReady
    BY <2>1, TargetKnownCustody, ReadyCustody
  <2>2. CASE ReadsLine
    <3>1. UNCHANGED worldVars /\ (ResultArrives \/ AckArrives \/ LineDropped)
      BY <2>2 DEF ReadsLine
    <3>2. UNCHANGED delivered
      BY <3>1 DEF worldVars
    <3>3. Hears
      BY <2>0, <2>2, <3>1, <3>2, ResultBooks, AckBooks, DroppedBooks
    <3>4. Learns
      BY <3>1, ResultLearns, AckLearns, DroppedLearns
    <3> QED
      BY <3>3, <3>4, LearnsKeep
  <2>3. CASE RequestTimesOut
    <3>1. PICK i \in DOMAIN pending : Unanswered(pending[i]) /\ GivesUp(i)
      BY <2>3 DEF RequestTimesOut
    <3>2. UNCHANGED worldVars /\ UNCHANGED delivered
      BY <2>3 DEF RequestTimesOut, worldVars
    <3> QED
      BY <2>0, <3>1, <3>2, GivesUpBooks, TimeoutLearns, LearnsKeep
  <2> QED
    BY <1>4, <2>1, <2>2, <2>3, BreaksCustody DEF Client, Breaks
<1>5. CASE Failure
  <2>0. Types'
    BY <1>0, <1>5, FailureType
  <2>1. CASE AnsweredTooLate
    <3>1. PICK i \in DOMAIN pending : GivesUp(i)
      BY <2>1 DEF AnsweredTooLate
    <3>2. Serves("cancel") /\ Abandon /\ UNCHANGED delivered
      BY <2>1 DEF AnsweredTooLate, Abandon, OneMoreFault
    <3> QED
      BY <2>0, <3>1, <3>2, GivesUpBooks, TooLateLearns, LearnsKeep
  <2>2. CASE InvalidLine
    BY <2>0, <2>2, InvalidBooks, InvalidLearns, LearnsKeep
  <2> QED
    BY <1>3, <1>5, <2>1, <2>2, TargetUnknownCustody, BreaksCustody DEF Failure, Breaks
<1>6. CASE UNCHANGED vars
  <2>1. /\ UNCHANGED <<clientVars, workerVars, call, control, abandoned, achieved>>
        /\ UNCHANGED <<lease, active, job, commandQueue, checkpoints>>
    BY <1>6 DEF vars, sidecarVars, worldVars, orchestratorVars, leaseVars, memoryVars, diskVars
  <2>2. Mine' = Mine
    BY <2>1 DEF Mine, Held
  <2>3. Turns
    BY <2>1, <2>2 DEF Turns
  <2> QED
    BY <2>3, TurnsKeep
<1> QED
  BY <1>1, <1>2, <1>3, <1>4, <1>5, <1>6 DEF Next

(* The adapter's task holds the lease until its result is on its way, and  *)
(* the orchestrator, the client and the worker agree on whose it is.       *)
THEOREM CustodyHolds == Spec => []Custody
<1>1. Init => Custody
  BY CustodyInit
<1>2. Books /\ Custody /\ [Next]_vars => Custody'
  BY CustodyKept
<1> QED
  BY <1>1, <1>2, BooksHold, PTL DEF Spec

(* An agent is driven only for the task that holds the lease, by the       *)
(* execution the adapter knows, as long as the client has not given up on  *)
(* a worker that goes on: task-orchestrator.ts releases the lease of a     *)
(* task only after cancel() has returned or its outcome is known, and the  *)
(* worker's answers bear this out whatever fails.                          *)
THEOREM AgentKeepsItsLease == Spec => []AgentHasItsLease
<1>1. Books /\ Custody => AgentHasItsLease
  <2> SUFFICES ASSUME Books, Custody, ~abandoned, Running
               PROVE  call.id = exec.id /\ Held /\ lease.task = exec.task
    BY DEF AgentHasItsLease
  <2>1. Execution /\ exec.task = call.task /\ exec.pc # "none"
    BY DEF Custody, KeptInv, Running
  <2>2. exec.id = call.id
    BY <2>1 DEF Books, ExecInv, AgentIsCalls
  <2>3. ~Reported
    BY <2>1 DEF Books, ExecInv, Reported
  <2>4. Mine
    BY <2>1, <2>3 DEF Custody, CustodyInv
  <2> QED
    BY <2>1, <2>2, <2>4 DEF Mine
<1> QED
  BY <1>1, BooksHold, CustodyHolds, PTL

(* A task is recorded as succeeded only when its own agent has returned a  *)
(* result: neither a late line of the worker, nor a queued outcome, nor a  *)
(* resume that joins an execution is taken for the success of another task.*)
THEOREM EverySuccessIsEarned == Spec => []SuccessIsEarned
<1>1. Custody => SuccessIsEarned
  BY DEF Custody, EarnedInv
<1> QED
  BY <1>1, CustodyHolds, PTL

=============================================================================
