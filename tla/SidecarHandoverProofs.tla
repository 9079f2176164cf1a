----------------------- MODULE SidecarHandoverProofs -----------------------
(***************************************************************************)
(* Proofs about SidecarDesktop, first part: what the queue, the requests,  *)
(* the pipes and the worker's two coroutines agree on at every step, and   *)
(* from it the types and that a page is handed over at rest.               *)
(*                                                                         *)
(* Books, the inductive invariant, says of every request and response      *)
(* where it may be and what it may be about.  Which task holds the lease   *)
(* is left to SidecarCustodyProofs.                                        *)
(***************************************************************************)
EXTENDS SidecarDesktopProofs

USE DEF Addressed, Serving, NextIs, At

(* What the job is waiting for, and for whom.                              *)
JobInv ==
  /\ job.pc = "goto" => CommandType[job.cmd] = "START_TASK"
  /\ job.pc = "pausing" =>
       CommandType[job.cmd] \in {"PAUSE_TASK", "REQUEST_TAKEOVER"} /\ Addressed
  /\ control.pc # "none" =>
       /\ Addressed
       /\ \/ job.pc = "pausing"
          \/ job.pc = "begin" /\ CommandType[job.cmd] = "CANCEL_TASK"

(* ActiveTasks are numbered by the epoch they were created with.           *)
GenInv ==
  /\ active.gen <= epoch
  /\ \A op \in Range(commandQueue) :
       op.gen <= epoch /\ (op.kind = "outcome" => op.gen # 0)
  /\ \A g \in Range(call.waiting) : g \in 1..epoch
  /\ \A c \in Range(pending) : c.type = "resume" => c.gen \in 1..epoch

(* A command is delivered once, and served once.                           *)
OnceInv ==
  /\ \A op \in Range(commandQueue) : op.kind = "command" =>
       op.cmd \in delivered /\ (job.pc # "free" => op.cmd # job.cmd)
  /\ \A i, j \in DOMAIN commandQueue :
       commandQueue[i].kind = "command" /\ commandQueue[j].kind = "command"
         /\ commandQueue[i].cmd = commandQueue[j].cmd => i = j
  /\ job.pc # "free" => job.cmd \in delivered

(* The tasks whose START_TASK has been served, up to the launch.           *)
Started(c) ==
  /\ CommandType[c] = "START_TASK"
  /\ CommandOp(c) \notin Range(commandQueue)
  /\ ~(job.cmd = c /\ job.pc \in {"begin", "goto"})
StartedTasks == {CommandTask[c] : c \in {d \in delivered : Started(d)}}

(* Nothing in the system is about a task that was not started.             *)
TraceInv ==
  /\ call.pc # "none" => call.task \in StartedTasks
  /\ active.gen # 0 => active.task \in StartedTasks
  /\ exec.pc # "none" => exec.task \in StartedTasks
  /\ \A c \in Range(pending) : c.task \in StartedTasks
  /\ \A l \in Range(stdin) : l.task \in StartedTasks
  /\ \A l \in Range(serving) : l.task \in StartedTasks
  /\ \A r \in Range(stdout) : r.task \in StartedTasks

(* The pipes of a process that is not ready are empty.                     *)
WireInv ==
  /\ process # "ready" =>
       Range(stdin) = {} /\ Range(stdout) = {} /\ Range(serving) = {} /\ exec.pc = "none"
  /\ \A c \in Range(pending) : c.sent = (process = "ready")
  /\ \A l \in Range(serving) :
       l.type \in {"pause", "cancel"} /\ (l.type = "cancel" => ~Running)

(* Requests are numbered in the order they are made, written and read.     *)
IdInv ==
  /\ Ascends(pending) /\ Ascends(stdin)
  /\ \A c \in Range(pending) : c.id <= requests
  /\ \A l \in Range(stdin) : l.id <= requests
  /\ \A l \in Range(serving) : l.id <= requests /\ \A m \in Range(stdin) : l.id < m.id
  /\ \A r \in Range(stdout) : r.type = "ack" => r.id <= requests
  /\ control.id <= requests
  /\ \A c \in Range(pending), l \in Range(stdin) : c.id = l.id => l = Line(c)

(* Who awaits what is pending.                                             *)
CallInv ==
  /\ \A c \in Range(pending) : c.type = "execute" =>
       call.pc = "acking" /\ c.id = call.id /\ c.task = call.task
  /\ call.pc = "acking" => \E c \in Range(pending) : c.type = "execute" /\ c.id = call.id
  /\ \A c \in Range(pending) : c.type \in {"pause", "cancel"} =>
       control.pc = "waiting" /\ c.id = control.id

(* The request the orchestrator awaits is of the type it asked for.        *)
ControlType == IF job.pc = "pausing" THEN "pause" ELSE "cancel"
AskInv ==
  control.pc = "waiting" =>
    /\ \A c \in Range(pending) : c.id = control.id => c.type = ControlType
    /\ \A l \in Range(stdin) : l.id = control.id => l.type = ControlType
    /\ \A l \in Range(serving) : l.id = control.id => l.type = ControlType

(* A task is executed once: while its request waits to be read there is no *)
(* other sign of it, and when its result is written it is over.            *)
AgentIsCalls == exec.pc # "none" /\ exec.task = call.task
ExecInv ==
  /\ \A l, m \in Range(stdin) :
       l.type = "execute" /\ m.type = "execute" /\ l.task = m.task => l = m
  /\ \A l \in Range(stdin) : l.type = "execute" =>
       /\ ~(exec.pc # "none" /\ exec.task = l.task)
       /\ \A r \in Range(stdout) : r.type # "error" => r.task # l.task
       /\ \A m \in Range(serving) : m.task # l.task
       /\ Execution /\ l.task = call.task => l.id = call.id
  /\ Execution /\ AgentIsCalls => exec.id = call.id
  /\ \A r \in Range(stdout) : r.type = "result" => ~(Running /\ exec.task = r.task)

(* Before the request to execute it is made, there is no sign of a task.   *)
TargetInv ==
  call.pc = "target" =>
    /\ \A l \in Range(stdin) : l.type = "execute" => l.task # call.task
    /\ ~AgentIsCalls
    /\ \A r \in Range(stdout) : r.type # "error" => r.task # call.task
    /\ \A l \in Range(serving) : l.task # call.task
    /\ \A c \in Range(pending) : c.type = "resume" => c.task # call.task

(* The worker acknowledges an execution before it writes the result.       *)
Results(t) == {r \in Response(Tasks) : r.type = "result" /\ r.task = t}
Acks(n) == {r \in Response(Tasks) : r.type = "ack" /\ r.id = n}
AckInv ==
  call.pc = "acking" =>
    /\ Leads(stdout, Acks(call.id), Results(call.task))
    /\ AgentIsCalls => \E r \in Range(stdout) : r.type = "ack" /\ r.id = call.id

(* An acknowledged pause holds: no other pause is on its way.              *)
Calm ==
  /\ job.pc = "pausing"
  /\ \/ control.pc = "done"
     \/ /\ control.pc = "waiting"
        /\ \E r \in Range(stdout) : r.type = "ack" /\ r.id = control.id
RestInv ==
  /\ job.pc = "pausing" => \A l \in Range(stdin) : l.type = "pause" => l.id <= control.id
  /\ Calm => /\ \A l \in Range(stdin) : l.type # "pause"
             /\ \A l \in Range(serving) : l.type # "pause"
             /\ exec.paused => Idle

Books ==
  /\ Types /\ JobInv /\ GenInv /\ OnceInv /\ TraceInv /\ WireInv /\ IdInv /\ CallInv
  /\ AskInv /\ ExecInv /\ TargetInv /\ AckInv /\ RestInv

-----------------------------------------------------------------------------
(* What is in the queue, in the pipes and in the two coroutines.           *)
LEMMA Elements ==
  ASSUME Types
  PROVE  /\ \A c \in Range(pending) :
              /\ c \in Call(Tasks) /\ c.id \in Nat /\ c.id # 0 /\ c.type \in RequestTypes
              /\ c.task \in Tasks /\ c.gen \in Nat
         /\ \A l \in Range(stdin) :
              l \in Request(Tasks) /\ l.id \in Nat /\ l.type \in RequestTypes /\ l.task \in Tasks
         /\ \A l \in Range(serving) :
              l \in Request(Tasks) /\ l.id \in Nat /\ l.type \in RequestTypes /\ l.task \in Tasks
         /\ \A r \in Range(stdout) :
              /\ r \in Response(Tasks) /\ r.id \in Nat /\ r.task \in Tasks
              /\ r.type \in {"ack", "error", "result"}
         /\ \A op \in Range(commandQueue) :
              op \in Op /\ op.kind \in {"command", "event", "outcome"} /\ op.gen \in Nat
         /\ \A g \in Range(call.waiting) : g \in Nat
         /\ requests \in Nat /\ call.id \in Nat /\ control.id \in Nat /\ exec.id \in Nat
<1>1. /\ pending \in Seq(Call(Tasks)) /\ stdin \in Seq(Request(Tasks))
      /\ stdout \in Seq(Response(Tasks)) /\ serving \in Seq(Request(Tasks))
      /\ commandQueue \in Seq(Op) /\ call.waiting \in Seq(Nat)
  BY NumbersTyped
<1>2. /\ Range(pending) \subseteq Call(Tasks) /\ Range(stdin) \subseteq Request(Tasks)
      /\ Range(stdout) \subseteq Response(Tasks) /\ Range(serving) \subseteq Request(Tasks)
      /\ Range(commandQueue) \subseteq Op /\ Range(call.waiting) \subseteq Nat
  BY <1>1, InRange
<1>3. \A c \in Call(Tasks) : /\ c.id \in Nat /\ c.id # 0 /\ c.type \in RequestTypes
                             /\ c.task \in Tasks /\ c.gen \in Nat
  BY DEF Call
<1>4. \A l \in Request(Tasks) : l.id \in Nat /\ l.type \in RequestTypes /\ l.task \in Tasks
  BY DEF Request
<1>5. \A r \in Response(Tasks) :
        r.id \in Nat /\ r.task \in Tasks /\ r.type \in {"ack", "error", "result"}
  BY DEF Response
<1>6. requests \in Nat /\ call.id \in Nat /\ control.id \in Nat /\ exec.id \in Nat
  BY DEF Types, TypeOK, ClientTypeOK, WorkerTypeOK
<1>7. \A op \in Op : op.kind \in {"command", "event", "outcome"} /\ op.gen \in Nat
  BY OpShape
<1> QED
  BY <1>2, <1>3, <1>4, <1>5, <1>6, <1>7

-----------------------------------------------------------------------------
(* The queue loses its head, or outcomes of ActiveTasks join it.           *)
QueueMoves ==
  \/ UNCHANGED commandQueue
  \/ job.pc = "free" /\ commandQueue # <<>> /\ commandQueue' = Tail(commandQueue)
  \/ \E ops \in Seq(Op) : /\ commandQueue' = commandQueue \o ops
                          /\ \A op \in Range(ops) : op.kind = "outcome" /\ op.gen \in 1..epoch'

(* The head of the queue becomes the job.                                  *)
Takes ==
  /\ NextIs("command")
  /\ job' = [pc |-> "begin", cmd |-> Head(commandQueue).cmd]
  /\ commandQueue' = Tail(commandQueue)

LEMMA QueueShrinks ==
  ASSUME Types, commandQueue # <<>>, commandQueue' = Tail(commandQueue)
  PROVE  /\ Range(commandQueue') \subseteq Range(commandQueue)
         /\ Head(commandQueue) \in Range(commandQueue)
         /\ OnceInv /\ Head(commandQueue).kind = "command" =>
              \A op \in Range(commandQueue') :
                op.kind = "command" => op.cmd # Head(commandQueue).cmd
<1>1. commandQueue \in Seq(Op) /\ DOMAIN commandQueue = 1..Len(commandQueue)
  BY NumbersTyped, LenProperties
<1>2. Range(commandQueue) = Range(Tail(commandQueue)) \cup {Head(commandQueue)}
  BY <1>1, RangeOfTail
<1>3. ASSUME OnceInv, Head(commandQueue).kind = "command", NEW op \in Range(commandQueue'),
             op.kind = "command"
      PROVE  op.cmd # Head(commandQueue).cmd
  <2>1. Tail(commandQueue) \in Seq(Op) /\ DOMAIN Tail(commandQueue) = 1..Len(Tail(commandQueue))
    BY <1>1, RangeOfTail, LenProperties
  <2>2. PICK i \in 1..Len(Tail(commandQueue)) : op = Tail(commandQueue)[i]
    BY <1>3, <2>1 DEF Range
  <2>3. /\ op = commandQueue[i + 1] /\ i + 1 \in DOMAIN commandQueue /\ 1 \in DOMAIN commandQueue
        /\ Head(commandQueue) = commandQueue[1] /\ i \in Nat \ {0}
    BY <1>1, <2>2, QueueTail
  <2>4. i + 1 # 1
    BY <2>3
  <2> QED
    BY <1>3, <2>3, <2>4 DEF OnceInv
<1> QED
  BY <1>2, <1>3

(* The commands that wait are among those that waited.                     *)
LEMMA CommandsWait ==
  ASSUME Types, OnceInv, QueueMoves
  PROVE  /\ \A op \in Range(commandQueue') : op.kind = "command" => op \in Range(commandQueue)
         /\ \A i, j \in DOMAIN commandQueue' :
              commandQueue'[i].kind = "command" /\ commandQueue'[j].kind = "command"
                /\ commandQueue'[i].cmd = commandQueue'[j].cmd => i = j
<1>0. /\ commandQueue \in Seq(Op) /\ DOMAIN commandQueue = 1..Len(commandQueue)
      /\ Len(commandQueue) \in Nat
  BY NumbersTyped, LenProperties
<1>1. CASE UNCHANGED commandQueue
  BY <1>1 DEF OnceInv
<1>2. CASE commandQueue # <<>> /\ commandQueue' = Tail(commandQueue)
  <2>1. Range(commandQueue') \subseteq Range(commandQueue)
    BY <1>2, QueueShrinks
  <2>2. DOMAIN commandQueue' = 1..Len(Tail(commandQueue)) /\ Len(Tail(commandQueue)) \in Nat
    BY <1>0, <1>2, RangeOfTail, LenProperties
  <2>3. \A i \in DOMAIN commandQueue' :
          i \in Nat /\ i + 1 \in DOMAIN commandQueue /\ commandQueue'[i] = commandQueue[i + 1]
    BY <1>0, <1>2, <2>2, QueueTail
  <2>4. ASSUME NEW i \in DOMAIN commandQueue', NEW j \in DOMAIN commandQueue',
               commandQueue'[i].kind = "command", commandQueue'[j].kind = "command",
               commandQueue'[i].cmd = commandQueue'[j].cmd
        PROVE  i = j
    <3>1. i + 1 = j + 1
      BY <2>3, <2>4 DEF OnceInv
    <3> QED
      BY <2>3, <3>1
  <2> QED
    BY <2>1, <2>4
<1>3. ASSUME NEW ops \in Seq(Op), commandQueue' = commandQueue \o ops,
             \A op \in Range(ops) : op.kind = "outcome" /\ op.gen \in 1..epoch'
      PROVE  /\ \A op \in Range(commandQueue') : op.kind = "command" => op \in Range(commandQueue)
             /\ \A i, j \in DOMAIN commandQueue' :
                  commandQueue'[i].kind = "command" /\ commandQueue'[j].kind = "command"
                    /\ commandQueue'[i].cmd = commandQueue'[j].cmd => i = j
  <2>1. Range(commandQueue') = Range(commandQueue) \cup Range(ops)
    BY <1>0, <1>3, RangeOfConcat
  <2>2. DOMAIN commandQueue' = 1..Len(commandQueue') /\ DOMAIN ops = 1..Len(ops)
    BY <1>0, <1>3, RangeOfConcat, LenProperties
  <2>3. \A i \in DOMAIN commandQueue' : commandQueue'[i].kind = "command" =>
          i \in DOMAIN commandQueue /\ commandQueue'[i] = commandQueue[i]
    <3> TAKE i \in DOMAIN commandQueue'
    <3>1. \/ i \in 1..Len(commandQueue) /\ commandQueue'[i] = commandQueue[i]
          \/ i - Len(commandQueue) \in DOMAIN ops
               /\ commandQueue'[i] = ops[i - Len(commandQueue)]
      BY <1>0, <1>3, <2>2, QueueJoin
    <3>2. ASSUME i - Len(commandQueue) \in DOMAIN ops,
                 commandQueue'[i] = ops[i - Len(commandQueue)]
          PROVE  commandQueue'[i].kind = "outcome"
      BY <1>3, <3>2 DEF Range
    <3> QED
      BY <1>0, <3>1, <3>2
  <2>4. \A op \in Range(commandQueue') : op.kind = "command" => op \in Range(commandQueue)
    BY <1>3, <2>1
  <2>5. ASSUME NEW i \in DOMAIN commandQueue', NEW j \in DOMAIN commandQueue',
               commandQueue'[i].kind = "command", commandQueue'[j].kind = "command",
               commandQueue'[i].cmd = commandQueue'[j].cmd
        PROVE  i = j
    BY <2>3, <2>5 DEF OnceInv
  <2> QED
    BY <2>4, <2>5
<1> QED
  BY <1>1, <1>2, <1>3 DEF QueueMoves

(* What the job may become.                                                *)
JobMoves ==
  \/ Takes
  \/ /\ job'.pc = "free" \/ (job.pc # "free" /\ job'.cmd = job.cmd)
     /\ job'.pc = "begin" => job' = job
     /\ job'.pc = "goto" => job' = job \/ Serving({"START_TASK"}, "begin")
     /\ job'.pc = "pausing" =>
          \/ job' = job
          \/ Serving({"PAUSE_TASK", "REQUEST_TAKEOVER"}, "begin") /\ Addressed

(* An ActiveTask goes, stays or comes with a launch.                       *)
ActiveMoves ==
  \/ active'.gen = 0
  \/ active'.gen = active.gen /\ active'.task = active.task
  \/ /\ Serving({"START_TASK"}, "goto") /\ job'.pc = "accept"
     /\ active'.gen = epoch' /\ active'.task = CommandTask[job.cmd]

(* A control request is made for the command being served; until it has    *)
(* returned the orchestrator does nothing else.                            *)
ControlMoves ==
  \/ control' = NoControl
  \/ control.pc # "none" /\ UNCHANGED <<job, active>>
  \/ control.pc = "none" /\ UNCHANGED control
  \/ /\ control.pc = "none" /\ UNCHANGED active
     /\ job'.cmd = job.cmd /\ Addressed
     /\ \/ job'.pc = "pausing"
        \/ Serving({"CANCEL_TASK"}, "begin") /\ UNCHANGED job

Moves ==
  /\ QueueMoves /\ JobMoves /\ ActiveMoves /\ ControlMoves
  /\ job'.pc = "pausing" => UNCHANGED active
  /\ epoch' \in {epoch, epoch + 1}
  /\ delivered' = delivered

LEMMA JobMoved ==
  ASSUME Types, JobInv, Moves
  PROVE  JobInv'
<1>1. ASSUME job'.pc = "goto" PROVE CommandType[job'.cmd] = "START_TASK"
  BY <1>1 DEF Moves, JobMoves, Takes, JobInv
<1>2. ASSUME job'.pc = "pausing"
      PROVE  CommandType[job'.cmd] \in {"PAUSE_TASK", "REQUEST_TAKEOVER"} /\ Addressed'
  BY <1>2 DEF Moves, JobMoves, Takes, JobInv
<1>3. ASSUME control'.pc # "none"
      PROVE  /\ Addressed'
             /\ \/ job'.pc = "pausing"
                \/ job'.pc = "begin" /\ CommandType[job'.cmd] = "CANCEL_TASK"
  BY <1>3 DEF Moves, ControlMoves, JobInv, NoControl
<1> QED
  BY <1>1, <1>2, <1>3 DEF JobInv

LEMMA GensMoved ==
  ASSUME Types, GenInv, Moves, active'.gen \in Nat,
         \A g \in Range(call'.waiting) : g \in 1..epoch',
         \A c \in Range(pending') : c.type = "resume" => c.gen \in 1..epoch'
  PROVE  GenInv'
<1>0. /\ epoch \in Nat /\ epoch' \in Nat /\ epoch <= epoch' /\ active.gen \in Nat
      /\ commandQueue \in Seq(Op)
  BY NumbersTyped DEF Moves
<1>1. active'.gen <= epoch'
  BY <1>0 DEF Moves, ActiveMoves, GenInv
<1>2. ASSUME NEW op \in Range(commandQueue')
      PROVE  op.gen <= epoch' /\ (op.kind = "outcome" => op.gen # 0)
  <2>1. CASE op \in Range(commandQueue)
    <3>1. op.gen \in Nat /\ op.gen <= epoch /\ (op.kind = "outcome" => op.gen # 0)
      BY <2>1, Elements DEF GenInv
    <3> QED
      BY <1>0, <3>1
  <2>2. CASE op.kind = "outcome" /\ op.gen \in 1..epoch'
    BY <1>0, <2>2
  <2>3. ASSUME NEW ops \in Seq(Op), commandQueue' = commandQueue \o ops,
               \A o \in Range(ops) : o.kind = "outcome" /\ o.gen \in 1..epoch'
        PROVE  op \in Range(commandQueue) \/ (op.kind = "outcome" /\ op.gen \in 1..epoch')
    <3>1. Range(commandQueue') = Range(commandQueue) \cup Range(ops)
      BY <1>0, <2>3, RangeOfConcat
    <3> QED
      BY <1>2, <2>3, <3>1
  <2> QED
    BY <1>2, <2>1, <2>2, <2>3, QueueShrinks DEF Moves, QueueMoves
<1> QED
  BY <1>1, <1>2 DEF GenInv, Moves

LEMMA OnceMoved ==
  ASSUME Types, OnceInv, Moves
  PROVE  OnceInv'
<1>1. CASE Takes
  <2>1. Head(commandQueue) \in Range(commandQueue) /\ Head(commandQueue).kind = "command"
    BY <1>1, QueueShrinks DEF Takes
  <2>2. job'.cmd \in delivered'
    BY <1>1, <2>1 DEF Takes, OnceInv, Moves
  <2>3. \A op \in Range(commandQueue') : op.kind = "command" => op.cmd # job'.cmd
    BY <1>1, <2>1, QueueShrinks DEF Takes
  <2> QED
    BY <2>2, <2>3, CommandsWait DEF OnceInv, Moves
<1>2. CASE job'.pc = "free" \/ (job.pc # "free" /\ job'.cmd = job.cmd)
  BY <1>2, CommandsWait DEF OnceInv, Moves
<1> QED
  BY <1>1, <1>2 DEF Moves, JobMoves

(* What has been started stays started.                                    *)
LEMMA StartsMoved ==
  ASSUME Types, OnceInv, Moves
  PROVE  StartedTasks \subseteq StartedTasks'
<1>1. ASSUME NEW c \in delivered, Started(c)
      PROVE  c \in delivered' /\ Started(c)'
  <2>1. CommandOp(c).kind = "command" /\ CommandOp(c).cmd = c
    BY DEF CommandOp
  <2>2. CommandOp(c) \notin Range(commandQueue')
    <3>1. CommandOp(c) \in Range(commandQueue') => CommandOp(c) \in Range(commandQueue)
      BY <2>1, CommandsWait DEF Moves
    <3> QED
      BY <1>1, <3>1 DEF Started
  <2>3. ~(job'.cmd = c /\ job'.pc \in {"begin", "goto"})
    <3>1. CASE Takes
      <4>1. Head(commandQueue) \in Range(commandQueue) /\ Head(commandQueue) \in Op
            /\ Head(commandQueue).kind = "command"
        BY <3>1, QueueShrinks, Elements DEF Takes
      <4>2. Head(commandQueue) = CommandOp(Head(commandQueue).cmd)
        BY <4>1 DEF Op, CommandOp
      <4>3. c # Head(commandQueue).cmd
        BY <1>1, <4>1, <4>2 DEF Started
      <4> QED
        BY <3>1, <4>3 DEF Takes
    <3>2. CASE /\ job'.pc = "free" \/ (job.pc # "free" /\ job'.cmd = job.cmd)
               /\ job'.pc = "begin" => job' = job
               /\ job'.pc = "goto" => job' = job \/ Serving({"START_TASK"}, "begin")
      BY <1>1, <3>2 DEF Started
    <3> QED
      BY <3>1, <3>2 DEF Moves, JobMoves
  <2> QED
    BY <1>1, <2>2, <2>3 DEF Moves, Started
<1> QED
  BY <1>1 DEF StartedTasks

(* The task of a launch has not been started before, and has been then.    *)
LEMMA LaunchStarts ==
  ASSUME Types, OnceInv, Serving({"START_TASK"}, "goto")
  PROVE  /\ CommandTask[job.cmd] \notin StartedTasks
         /\ Moves /\ job'.pc = "accept" => CommandTask[job.cmd] \in StartedTasks'
<1>0. job.cmd \in Commands /\ job.cmd \in delivered /\ delivered \subseteq Commands
  BY DEF Types, TypeOK, OrchestratorTypeOK, OnceInv
<1>1. ASSUME CommandTask[job.cmd] \in StartedTasks PROVE FALSE
  <2>1. PICK c \in delivered : Started(c) /\ CommandTask[c] = CommandTask[job.cmd]
    BY <1>1 DEF StartedTasks
  <2>2. c = job.cmd
    BY <1>0, <2>1, StartsAssumption DEF Started
  <2> QED
    BY <2>1, <2>2 DEF Started
<1>2. ASSUME Moves, job'.pc = "accept" PROVE CommandTask[job.cmd] \in StartedTasks'
  <2>1. job'.cmd = job.cmd
    BY <1>2 DEF Moves, JobMoves, Takes
  <2>2. OnceInv'
    BY <1>2, OnceMoved
  <2>3. CommandOp(job.cmd) \notin Range(commandQueue')
    BY <1>2, <2>1, <2>2 DEF OnceInv, CommandOp
  <2>4. Started(job.cmd)' /\ job.cmd \in delivered'
    BY <1>0, <1>2, <2>3, <2>1 DEF Started, Moves
  <2> QED
    BY <2>1, <2>4 DEF StartedTasks
<1> QED
  BY <1>1, <1>2

(* What is about a started task still is, and the active task is one.      *)
Traces ==
  /\ StartedTasks \subseteq StartedTasks'
  /\ active'.gen # 0 => active'.task \in StartedTasks'

LEMMA MovesTrace ==
  ASSUME Types, OnceInv, TraceInv, Moves
  PROVE  Traces
BY StartsMoved, LaunchStarts DEF Moves, ActiveMoves, TraceInv, Traces

-----------------------------------------------------------------------------
(* The orchestrator's own steps are moves.                                 *)

(* The catch block.                                                        *)
LEMMA ThrowsMoves ==
  ASSUME Types, Throws, job.pc # "free", delivered' = delivered,
         control' = NoControl \/ (UNCHANGED control /\ control.pc = "none")
  PROVE  Moves /\ job'.pc = "reject"
<1>1. job'.pc = "reject" /\ job'.cmd = job.cmd
  BY JobAt DEF Types, TypeOK, Throws
<1> QED
  BY <1>1 DEF Throws, leaseVars, Moves, QueueMoves, JobMoves, ActiveMoves, ControlMoves

(* While a control request is under way no command is begun or ended.      *)
LEMMA CommandMoves ==
  ASSUME Types, JobInv, UNCHANGED <<control, delivered>>,
         Command \/ StartInadmissible \/ StartFails \/ CancelProbeFails \/ OutcomeProbeFails
           \/ ResumeRefused
  PROVE  Moves /\ control.pc = "none" /\ job'.pc # "pausing"
<1>0. control.pc = "none"
  <2>1. CommandType[job.cmd] \notin {"START_TASK"} => CommandType[job.cmd] # "START_TASK"
    OBVIOUS
  <2> QED
    BY DEF Command, Begin, Reply, StartRefused, StartNavigates, ControlRefused, ResumeRefused,
       CancelCompletes, DecisionRefused, OutcomeIgnored, OutcomeRecorded, StartInadmissible,
       StartFails, CancelProbeFails, OutcomeProbeFails, JobInv, DecisionTypes
<1>1. CASE StartRefused \/ ControlRefused \/ ResumeRefused \/ DecisionRefused
             \/ StartInadmissible \/ StartFails \/ CancelProbeFails
  <2>1. Throws /\ job.pc # "free"
    BY <1>1 DEF StartRefused, ControlRefused, ResumeRefused, DecisionRefused, StartInadmissible,
       StartFails, CancelProbeFails
  <2> QED
    BY <1>0, <2>1, ThrowsMoves
<1> USE <1>0 DEF Moves, QueueMoves, JobMoves, ActiveMoves, ControlMoves, leaseVars, Release
<1>2. CASE Begin
  BY <1>2 DEF Begin, Takes
<1>3. CASE Reply
  BY <1>3 DEF Reply, NoJob
<1>4. CASE StartNavigates
  <2>1. job'.pc = "goto" /\ job'.cmd = job.cmd
    BY <1>4, JobAt DEF StartNavigates, Types, TypeOK
  <2> QED
    BY <1>4, <2>1 DEF StartNavigates
<1>5. CASE CancelCompletes
  <2>1. job'.pc = "accept" /\ job'.cmd = job.cmd
    BY <1>5, JobAt DEF CancelCompletes, Types, TypeOK
  <2> QED
    BY <1>5, <2>1 DEF CancelCompletes, NoActive
<1>6. CASE OutcomeIgnored \/ OutcomeRecorded \/ OutcomeProbeFails
  BY <1>6 DEF OutcomeIgnored, OutcomeRecorded, OutcomeProbeFails, NoActive
<1> QED
  BY <1>1, <1>2, <1>3, <1>4, <1>5, <1>6 DEF Command

(* The outcome of an execution that is refused at once joins the queue.    *)
LEMMA RefusalJoins ==
  ASSUME NEW g \in 1..epoch', epoch' \in Nat,
         commandQueue' = commandQueue \o <<OutcomeOp(g, "failed")>>
  PROVE  QueueMoves
<1>1. OutcomeOp(g, "failed") \in Op
  BY OpsBuilt
<1>2. <<OutcomeOp(g, "failed")>> \in Seq(Op)
      /\ Range(<<OutcomeOp(g, "failed")>>) = {OutcomeOp(g, "failed")}
  BY <1>1, RangeOfOne
<1>3. OutcomeOp(g, "failed").kind = "outcome" /\ OutcomeOp(g, "failed").gen = g
  BY DEF OutcomeOp
<1> HIDE DEF OutcomeOp
<1> QED
  BY <1>2, <1>3 DEF QueueMoves

LEMMA NothingJoins ==
  ASSUME Types, commandQueue' = commandQueue \o <<>>
  PROVE  QueueMoves /\ commandQueue' = commandQueue
BY NumbersTyped, EmptySeq, ConcatProperties DEF QueueMoves

LEMMA StartMoves ==
  ASSUME Types, JobInv, GenInv, StartTask, UNCHANGED delivered
  PROVE  Moves /\ Serving({"START_TASK"}, "goto") /\ job'.pc = "accept"
         /\ epoch' = epoch + 1 /\ active.gen # epoch'
<1>1. /\ Serving({"START_TASK"}, "goto") /\ epoch' = epoch + 1 /\ job' = At("accept")
      /\ active'.gen = epoch' /\ active'.task = CommandTask[job.cmd] /\ UNCHANGED control
  BY DEF StartTask, StartLaunches, Acquire, Grant, sidecarVars
<1>2. job'.pc = "accept" /\ job'.cmd = job.cmd /\ epoch \in Nat /\ control.pc = "none"
  BY <1>1, JobAt, NumbersTyped DEF Types, TypeOK, JobInv
<1>3. QueueMoves
  <2>1. CASE Execution
    <3>1. epoch + 1 \in 1..epoch' /\ epoch' \in Nat
      BY <1>1, <1>2
    <3> QED
      BY <2>1, <3>1, RefusalJoins DEF StartTask, StartLaunches
  <2>2. CASE ~Execution
    BY <2>2, NothingJoins DEF StartTask, StartLaunches
  <2> QED
    BY <2>1, <2>2
<1>4. active.gen # epoch'
  BY <1>1, <1>2, NumbersTyped DEF GenInv
<1> QED
  BY <1>1, <1>2, <1>3, <1>4 DEF Moves, JobMoves, ActiveMoves, ControlMoves

LEMMA ResumeMoves ==
  ASSUME Types, JobInv, GenInv, ResumeTask, UNCHANGED delivered
  PROVE  Moves /\ UNCHANGED control /\ active'.gen = active.gen /\ active'.task = active.task
         /\ active.gen # 0 /\ control.pc = "none"
<1>1. /\ Serving({"RESUME_AFTER_HUMAN"}, "begin") /\ epoch' = epoch + 1 /\ job' = At("accept")
      /\ UNCHANGED control /\ active.gen # 0
      /\ active' = [active EXCEPT !.lease = lease', !.awaiting = FALSE]
  BY DEF ResumeTask, ResumeSucceeds, ResumeAfterHuman, Grant, sidecarVars
<1>2. job'.pc = "accept" /\ job'.cmd = job.cmd /\ epoch \in Nat /\ control.pc = "none"
  BY <1>1, JobAt, NumbersTyped DEF Types, TypeOK, JobInv
<1>3. active'.gen = active.gen /\ active'.task = active.task
  BY <1>1, NumbersTyped DEF ActiveTask
<1>4. QueueMoves
  <2>1. active.gen \in 1..epoch' /\ epoch' \in Nat
    BY <1>1, <1>2, NumbersTyped DEF GenInv
  <2> QED
    BY <2>1, RefusalJoins, NothingJoins DEF ResumeTask, ResumeSucceeds
<1> QED
  BY <1>1, <1>2, <1>3, <1>4 DEF Moves, JobMoves, ActiveMoves, ControlMoves

LEMMA PauseMoves ==
  ASSUME Types, JobInv, PauseTask \/ CancelTask, UNCHANGED delivered
  PROVE  Moves /\ control.pc = "none" /\ UNCHANGED <<active, commandQueue, call>>
<1>1. control.pc = "none" /\ job.pc = "begin" /\ Addressed /\ UNCHANGED <<active, call, commandQueue>>
  BY DEF PauseTask, CancelTask, PauseBegins, CancelBegins, JobInv, Throws, orchestratorVars,
     memoryVars, sidecarVars
<1>2. UNCHANGED epoch
  BY DEF PauseTask, CancelTask, PauseBegins, CancelBegins, Throws, orchestratorVars,
     leaseVars, Release
<1>3. \/ job' = job /\ Serving({"CANCEL_TASK"}, "begin")
      \/ /\ job'.cmd = job.cmd
         /\ \/ job'.pc = "pausing" /\ Serving({"PAUSE_TASK", "REQUEST_TAKEOVER"}, "begin")
            \/ job'.pc \in {"cancelling", "reject"} /\ UNCHANGED control
  BY JobAt DEF PauseTask, CancelTask, PauseBegins, CancelBegins, Throws, orchestratorVars,
     memoryVars, sidecarVars, Types, TypeOK
<1> QED
  BY <1>1, <1>2, <1>3 DEF Moves, QueueMoves, JobMoves, ActiveMoves, ControlMoves

LEMMA ReturnMoves ==
  ASSUME Types, JobInv, UNCHANGED delivered, control' = NoControl, control.pc # "none",
         PauseCompletes \/ TakeoverCompletes \/ TakeoverRefused \/ CancelBegins
           \/ PauseProbeFails \/ TakeoverHalfDone \/ Throws
  PROVE  Moves /\ active'.gen = active.gen /\ active'.task = active.task
         /\ UNCHANGED commandQueue /\ job'.pc \in {"accept", "reject", "cancelling"}
<1>1. /\ \E pc \in {"accept", "reject", "cancelling"} : job' = At(pc)
      /\ epoch' \in {epoch, epoch + 1} /\ UNCHANGED commandQueue
      /\ active' = active \/ active' = [active EXCEPT !.lease = lease', !.awaiting = TRUE]
  BY DEF PauseCompletes, TakeoverCompletes, TakeoverRefused, CancelBegins, PauseProbeFails,
     TakeoverHalfDone, Throws, TransferToHuman, Grant, Release, leaseVars
<1>2. job'.pc \in {"accept", "reject", "cancelling"} /\ job'.cmd = job.cmd
  BY <1>1, JobAt DEF Types, TypeOK
<1>3. active'.gen = active.gen /\ active'.task = active.task
  BY <1>1, NumbersTyped DEF ActiveTask, JobInv
<1>4. job.pc # "free"
  BY DEF JobInv
<1> QED
  BY <1>1, <1>2, <1>3, <1>4 DEF Moves, QueueMoves, JobMoves, ActiveMoves, ControlMoves

-----------------------------------------------------------------------------
(* A step that touches neither the pipes nor the worker: a control request *)
(* that has returned is forgotten, and a task may be started.              *)
Aside ==
  /\ UNCHANGED <<clientVars, workerVars>>
  /\ UNCHANGED control \/ (control' = NoControl /\ control.pc # "waiting")
  /\ control.pc = "waiting" => UNCHANGED job
  /\ job'.pc = "pausing" => UNCHANGED <<job, control>>
  /\ \/ UNCHANGED call
     \/ /\ ~Execution /\ ~Execution'
        /\ call'.task \in StartedTasks'
        /\ call'.pc = "target" => call'.task \notin StartedTasks

LEMMA AsideKeeps ==
  ASSUME Books, Aside, Traces
  PROVE  /\ TraceInv' /\ WireInv' /\ IdInv' /\ CallInv' /\ AskInv' /\ ExecInv'
         /\ TargetInv' /\ AckInv' /\ RestInv'
<1>0. /\ UNCHANGED <<process, pending, requests, stdin, stdout, serving, exec>>
      /\ UNCHANGED <<clientVars, workerVars>>
  BY DEF Aside, clientVars, workerVars
<1>1. TraceInv'
  BY <1>0 DEF Traces, Aside, TraceInv, Books
<1>2. WireInv'
  BY <1>0 DEF WireInv, Running, Books
<1>3. IdInv'
  BY <1>0, Elements DEF Aside, IdInv, NoControl, Books, Line
<1>4. CallInv'
  BY <1>0 DEF Aside, CallInv, Books, Execution
<1>5. AskInv'
  BY <1>0 DEF Aside, AskInv, ControlType, NoControl, Books
<1>6. ExecInv'
  BY <1>0 DEF Aside, ExecInv, AgentIsCalls, Running, Execution, Books
<1>7. TargetInv'
  <2>1. CASE UNCHANGED call
    BY <1>0, <2>1 DEF TargetInv, AgentIsCalls, Books
  <2>2. CASE call'.pc = "target" => call'.task \notin StartedTasks
    BY <1>0, <2>2 DEF TargetInv, AgentIsCalls, TraceInv, Books
  <2> QED
    BY <2>1, <2>2 DEF Aside
<1>8. AckInv'
  <2>1. CASE UNCHANGED call
    BY <1>0, <2>1 DEF AckInv, AgentIsCalls, Acks, Results, Books
  <2>2. CASE ~Execution'
    BY <2>2 DEF AckInv, Execution
  <2> QED
    BY <2>1, <2>2 DEF Aside
<1>9. RestInv'
  BY <1>0 DEF Aside, RestInv, Calm, Idle, Books
<1> QED
  BY <1>1, <1>2, <1>3, <1>4, <1>5, <1>6, <1>7, <1>8, <1>9

LEMMA GenTyped ==
  ASSUME Types' PROVE active'.gen \in Nat
  BY DEF Types, TypeOK, OrchestratorTypeOK, ActiveTask, NoActive

LEMMA AsideBooks ==
  ASSUME Books, Aside, Moves, Types', \A g \in Range(call'.waiting) : g \in 1..epoch'
  PROVE  Books'
<1>1. \A c \in Range(pending') : c.type = "resume" => c.gen \in 1..epoch'
  <2>1. UNCHANGED pending /\ epoch \in Nat /\ epoch' \in {epoch, epoch + 1}
    BY NumbersTyped DEF Aside, clientVars, Moves, Books
  <2>2. ASSUME NEW c \in Range(pending), c.type = "resume" PROVE c.gen \in 1..epoch'
    <3>1. c.gen \in 1..epoch
      BY <2>2 DEF Books, GenInv
    <3> QED
      BY <2>1, <3>1
  <2> QED
    BY <2>1, <2>2
<1>2. GenInv'
  BY <1>1, GensMoved, GenTyped DEF Books
<1>3. JobInv' /\ OnceInv'
  BY JobMoved, OnceMoved DEF Books
<1> QED
  BY <1>2, <1>3, MovesTrace, AsideKeeps DEF Books

(* A request is made: one more call is pending, and its line is written if *)
(* there is someone to read it.                                            *)
Made(c) ==
  /\ c \in Call(Tasks) /\ c.id = requests + 1 /\ c.sent = (process = "ready")
  /\ requests' = requests + 1
  /\ Range(pending') = Range(pending) \cup {c} /\ Ascends(pending')
  /\ \/ process = "ready" /\ process' = "ready" /\ Range(stdin') = Range(stdin) \cup {Line(c)}
     \/ process # "ready" /\ process' # "ready" /\ Range(stdin') = Range(stdin)
  /\ Ascends(stdin')
  /\ UNCHANGED <<stdout, serving, exec>>

LEMMA SendMakes ==
  ASSUME Types, WireInv, IdInv,
         NEW type \in RequestTypes, NEW t \in Tasks, NEW gen \in Nat, Send(type, t, gen)
  PROVE  \E c : c.type = type /\ c.task = t /\ c.gen = gen /\ Made(c)
<1> DEFINE c == [type |-> type, id |-> requests + 1, task |-> t, gen |-> gen,
                 sent |-> process = "ready"]
<1>1. /\ c \in Call(Tasks) /\ Line(c) \in Request(Tasks)
      /\ c.type = type /\ c.task = t /\ c.gen = gen /\ c.id = requests + 1
      /\ c.sent = (process = "ready") /\ Line(c).id = requests + 1 /\ requests \in Nat
  BY Elements DEF Call, Request, Line
<1>2. /\ requests' = requests + 1 /\ pending' = Append(pending, c)
      /\ process' = IF process = "none" THEN "starting" ELSE process
      /\ stdin' = IF process = "ready" THEN Append(stdin, Line(c)) ELSE stdin
      /\ UNCHANGED <<stdout, serving, exec>>
  BY DEF Send
<1> HIDE DEF c
<1>3. \A d \in Range(pending) : d.id < c.id
  BY <1>1, Elements DEF IdInv
<1>4. \A l \in Range(stdin) : l.id < Line(c).id
  BY <1>1, Elements DEF IdInv
<1>5. Range(pending') = Range(pending) \cup {c} /\ Ascends(pending')
  BY <1>1, <1>2, <1>3, RangeOfAppend, AscendingAppend, NumbersTyped DEF IdInv
<1>6. CASE process = "ready"
  <2>1. Range(stdin') = Range(stdin) \cup {Line(c)} /\ Ascends(stdin')
    BY <1>1, <1>2, <1>4, <1>6, RangeOfAppend, AscendingAppend, NumbersTyped DEF IdInv
  <2> QED
    BY <1>1, <1>2, <1>5, <1>6, <2>1 DEF Made
<1>7. CASE process # "ready"
  <2>1. UNCHANGED stdin /\ Ascends(stdin')
    BY <1>2, <1>7 DEF IdInv
  <2> QED
    BY <1>1, <1>2, <1>5, <1>7, <2>1 DEF Made
<1> QED
  BY <1>6, <1>7

(* The four requests and who waits for them.                               *)
Requests(c) ==
  /\ call.pc # "none" /\ c.task = call.task
  /\ \/ /\ c.type = "execute" /\ call.pc = "target"
        /\ call'.pc = "acking" /\ call'.id = c.id /\ call'.task = call.task
        /\ UNCHANGED <<control, job>>
     \/ /\ c.type = "resume" /\ Execution
        /\ UNCHANGED <<call, control>> /\ control.pc = "none" /\ job'.pc # "pausing"
     \/ /\ c.type \in {"pause", "cancel"} /\ UNCHANGED call
        /\ control.pc = "none" /\ control'.pc = "waiting" /\ control'.id = c.id
        /\ c.type = ControlType'

LEMMA RequestKeeps ==
  ASSUME Books, Traces, NEW c, Made(c), Requests(c)
  PROVE  /\ TraceInv' /\ WireInv' /\ IdInv' /\ CallInv' /\ AskInv' /\ ExecInv'
         /\ TargetInv' /\ AckInv' /\ RestInv'
<1> USE Elements DEF Books
<1>0. /\ Line(c).type = c.type /\ Line(c).id = c.id /\ Line(c).task = c.task
      /\ \A l \in Range(stdin') : l \in Range(stdin) \/ (process = "ready" /\ l = Line(c))
      /\ \A d \in Range(pending') : d \in Range(pending) \/ d = c
      /\ UNCHANGED <<stdout, serving, exec>> /\ c.id = requests + 1 /\ requests' = requests + 1
  BY DEF Line, Made
<1>1. TraceInv'
  BY <1>0 DEF Traces, Requests, TraceInv
<1>2. WireInv'
  BY <1>0 DEF Made, WireInv, Running
<1>3. IdInv'
  <2>1. Ascends(pending') /\ Ascends(stdin')
    BY DEF Made
  <2>2. \A d \in Range(pending') : d.id <= requests'
    BY <1>0 DEF IdInv
  <2>3. \A l \in Range(stdin') : l.id <= requests'
    BY <1>0 DEF IdInv
  <2>4. \A l \in Range(serving') : l.id <= requests' /\ \A m \in Range(stdin') : l.id < m.id
    BY <1>0 DEF IdInv
  <2>5. \A r \in Range(stdout') : r.type = "ack" => r.id <= requests'
    BY <1>0 DEF IdInv
  <2>6. control'.id <= requests'
    BY <1>0 DEF IdInv, Requests
  <2>7. \A d \in Range(pending'), l \in Range(stdin') : d.id = l.id => l = Line(d)
    BY <1>0 DEF IdInv
  <2> QED
    BY <2>1, <2>2, <2>3, <2>4, <2>5, <2>6, <2>7 DEF IdInv
<1>4. CallInv'
  BY <1>0 DEF Made, Requests, CallInv
<1>5. AskInv'
  <2>1. CASE UNCHANGED control /\ (control.pc = "none" \/ UNCHANGED job)
    BY <1>0, <2>1 DEF AskInv, ControlType, IdInv
  <2>2. CASE control'.id = c.id /\ c.type = ControlType'
    <3> HIDE DEF ControlType
    <3> QED
      BY <1>0, <2>2 DEF AskInv, IdInv
  <2> QED
    BY <2>1, <2>2 DEF Requests
<1>6. ExecInv'
  <2>1. CASE c.type = "execute"
    BY <1>0, <2>1 DEF Requests, ExecInv, TargetInv, AgentIsCalls, Running, Execution
  <2>2. CASE c.type # "execute" /\ UNCHANGED call
    BY <1>0, <2>2 DEF ExecInv, AgentIsCalls, Running, Execution
  <2> QED
    BY <2>1, <2>2 DEF Requests
<1>7. TargetInv'
  BY <1>0 DEF Requests, TargetInv, AgentIsCalls, Execution
<1>8. AckInv'
  <2>1. CASE c.type = "execute" /\ call.pc = "target" /\ call'.task = call.task
    <3>1. \A r \in Range(stdout') : r \notin Results(call'.task)
      BY <1>0, <2>1 DEF TargetInv, Results
    <3>2. Leads(stdout', Acks(call'.id), Results(call'.task))
      BY <3>1 DEF Leads, Range
    <3> QED
      BY <1>0, <2>1, <3>2 DEF AckInv, TargetInv, AgentIsCalls
  <2>2. CASE UNCHANGED call
    BY <1>0, <2>2 DEF AckInv, AgentIsCalls, Acks, Results
  <2> QED
    BY <2>1, <2>2 DEF Requests
<1>9. RestInv'
  <2>1. CASE UNCHANGED <<control, job>> /\ c.type # "pause"
    BY <1>0, <2>1 DEF RestInv, Calm, Idle
  <2>2. CASE job'.pc # "pausing"
    BY <2>2 DEF RestInv, Calm
  <2>3. CASE control'.pc = "waiting" /\ control'.id = c.id
    BY <1>0, <2>3 DEF RestInv, Calm, IdInv
  <2> QED
    BY <2>1, <2>2, <2>3 DEF Requests
<1> QED
  BY <1>1, <1>2, <1>3, <1>4, <1>5, <1>6, <1>7, <1>8, <1>9

LEMMA RequestBooks ==
  ASSUME Books, Moves, Types', NEW c, Made(c), Requests(c),
         UNCHANGED call.waiting, c.type = "resume" => c.gen \in 1..epoch'
  PROVE  Books'
<1>1. epoch \in Nat /\ epoch' \in {epoch, epoch + 1}
  BY NumbersTyped DEF Moves, Books
<1>2. \A g \in Range(call'.waiting) : g \in 1..epoch'
  <2>1. \A g \in Range(call.waiting) : g \in 1..epoch
    BY DEF Books, GenInv
  <2> QED
    BY <1>1, <2>1
<1>3. \A d \in Range(pending') : d.type = "resume" => d.gen \in 1..epoch'
  <2>1. \A d \in Range(pending) : d.type = "resume" => d.gen \in 1..epoch
    BY DEF Books, GenInv
  <2>2. Range(pending') = Range(pending) \cup {c}
    BY DEF Made
  <2> QED
    BY <1>1, <2>1, <2>2
<1>4. GenInv'
  BY <1>2, <1>3, GensMoved, GenTyped DEF Books
<1>5. JobInv' /\ OnceInv'
  BY JobMoved, OnceMoved DEF Books
<1> QED
  BY <1>4, <1>5, MovesTrace, RequestKeeps DEF Books

LEMMA WaitingKept ==
  ASSUME Books, Moves
  PROVE  \A g \in Range(call.waiting) : g \in 1..epoch'
<1>1. epoch \in Nat /\ epoch' \in {epoch, epoch + 1}
  BY NumbersTyped DEF Moves, Books
<1>2. \A g \in Range(call.waiting) : g \in 1..epoch
  BY DEF Books, GenInv
<1> QED
  BY <1>1, <1>2

LEMMA OrchestrateBooks ==
  ASSUME Books, Orchestrate \/ OrchestrateFaulty
  PROVE  Books'
<1>0. /\ Types /\ JobInv /\ GenInv /\ OnceInv /\ WireInv /\ IdInv
      /\ control.pc # "none" => job.pc # "free"
  BY DEF Books, JobInv
<1>1. Types'
  BY <1>0, OrchestrateType
<1>2. UNCHANGED delivered
  BY DEF Orchestrate, OrchestrateFaulty, worldVars, Fault, OneMoreFault
<1> USE <1>0, <1>1, <1>2, WaitingKept
<1>3. CASE /\ UNCHANGED sidecarVars
           /\ Command \/ StartInadmissible \/ StartFails \/ CancelProbeFails \/ OutcomeProbeFails
                \/ ResumeRefused
  <2>1. /\ Moves /\ control.pc = "none" /\ job'.pc # "pausing"
        /\ UNCHANGED <<call, control, clientVars, workerVars>>
    BY <1>3, CommandMoves DEF sidecarVars
  <2> QED
    BY <2>1, AsideBooks DEF Aside
<1>4. CASE StartTask
  <2>1. /\ Moves /\ Serving({"START_TASK"}, "goto") /\ job'.pc = "accept"
        /\ CommandTask[job.cmd] \notin StartedTasks /\ CommandTask[job.cmd] \in StartedTasks'
        /\ control.pc = "none" /\ UNCHANGED <<control, clientVars, workerVars>>
        /\ epoch' = epoch + 1 /\ epoch \in Nat
    BY <1>4, StartMoves, LaunchStarts, NumbersTyped DEF StartTask, sidecarVars, JobInv
  <2>2. CASE Execution
    BY <1>4, <2>1, <2>2, AsideBooks DEF Aside, StartTask, sidecarVars
  <2>3. CASE ~Execution
    <3>1. call' = [NoCall EXCEPT !.pc = "target", !.task = CommandTask[job.cmd],
                                 !.waiting = <<epoch + 1>>]
      BY <1>4, <2>3 DEF StartTask
    <3>2. /\ call'.pc = "target" /\ call'.task = CommandTask[job.cmd]
          /\ call'.waiting = <<epoch + 1>>
      BY <3>1 DEF NoCall
    <3>3. Range(call'.waiting) = {epoch + 1}
      BY <3>2, RangeOfOne
    <3>4. \A g \in Range(call'.waiting) : g \in 1..epoch'
      BY <2>1, <3>3
    <3>5. Aside
      BY <2>1, <2>3, <3>2 DEF Aside, Execution
    <3> QED
      BY <2>1, <3>4, <3>5, AsideBooks
  <2> QED
    BY <2>2, <2>3
<1>5. CASE ResumeTask
  <2>1. /\ Moves /\ UNCHANGED control /\ active.gen # 0 /\ control.pc = "none"
        /\ job'.pc = "accept"
    <3>1. job' = At("accept")
      BY <1>5 DEF ResumeTask, ResumeSucceeds
    <3> QED
      BY <1>5, <3>1, ResumeMoves, JobAt DEF Types, TypeOK
  <2>2. CASE Execution /\ Send("resume", call.task, active.gen) /\ UNCHANGED <<call, control>>
    <3>1. call.task \in Tasks /\ active.gen \in Nat /\ call.pc # "none"
      BY <2>2, NumbersTyped DEF Execution
    <3>2. PICK c : c.type = "resume" /\ c.task = call.task /\ c.gen = active.gen /\ Made(c)
      BY <2>2, <3>1, SendMakes DEF RequestTypes
    <3>3. c.gen \in 1..epoch'
      BY <2>1, <3>1, <3>2, NumbersTyped DEF GenInv, Moves
    <3> QED
      BY <2>1, <2>2, <3>1, <3>2, <3>3, RequestBooks DEF Requests
  <2>3. CASE UNCHANGED sidecarVars
    BY <2>1, <2>3, AsideBooks DEF Aside, sidecarVars
  <2> QED
    BY <1>5, <2>2, <2>3 DEF ResumeTask
<1>6. CASE PauseTask \/ CancelTask
  <2>1. Moves /\ control.pc = "none" /\ UNCHANGED call
    BY <1>6, PauseMoves
  <2>2. CASE UNCHANGED sidecarVars /\ (Throws \/ CancelBegins)
    <3>1. job'.pc # "pausing"
      BY <2>2, JobAt DEF Throws, CancelBegins, Types, TypeOK
    <3> QED
      BY <2>1, <2>2, <3>1, AsideBooks DEF Aside, sidecarVars
  <2>3. ASSUME NEW type \in {"pause", "cancel"}, call.pc # "none", Send(type, call.task, 0),
               control' = [pc |-> "waiting", id |-> requests + 1], type = ControlType'
        PROVE  Books'
    <3>1. call.task \in Tasks /\ 0 \in Nat /\ type \in RequestTypes
      BY <2>3, NumbersTyped DEF RequestTypes
    <3>2. PICK c : c.type = type /\ c.task = call.task /\ Made(c)
      BY <2>3, <3>1, SendMakes
    <3>3. Requests(c)
      BY <2>1, <2>3, <3>2 DEF Requests, Made
    <3> QED
      BY <2>1, <2>3, <3>2, <3>3, RequestBooks
  <2>4. CASE PauseBegins /\ call.pc # "none" /\ Send("pause", call.task, 0)
             /\ control' = [pc |-> "waiting", id |-> requests + 1]
    <3>1. ControlType' = "pause"
      BY <2>4, JobAt DEF PauseBegins, ControlType, Types, TypeOK
    <3> QED
      BY <2>3, <2>4, <3>1
  <2>5. CASE Serving({"CANCEL_TASK"}, "begin") /\ call.pc # "none" /\ Send("cancel", call.task, 0)
             /\ control' = [pc |-> "waiting", id |-> requests + 1] /\ UNCHANGED orchestratorVars
    <3>1. ControlType' = "cancel"
      BY <2>5 DEF ControlType, orchestratorVars, memoryVars
    <3> QED
      BY <2>3, <2>5, <3>1
  <2> QED
    BY <1>6, <2>2, <2>4, <2>5 DEF PauseTask, CancelTask
<1>7. CASE /\ control' = NoControl /\ control.pc \in {"done", "failed"}
           /\ PauseCompletes \/ TakeoverCompletes \/ TakeoverRefused \/ CancelBegins
                \/ PauseProbeFails \/ TakeoverHalfDone \/ Throws
           /\ UNCHANGED <<clientVars, workerVars, call>>
  <2>1. Moves /\ job'.pc \in {"accept", "reject", "cancelling"}
    BY <1>7, ReturnMoves
  <2> QED
    BY <1>7, <2>1, AsideBooks DEF Aside
<1> QED
  BY <1>3, <1>4, <1>5, <1>6, <1>7 DEF Orchestrate, OrchestrateFaulty, ControlReturns, ControlThrows

-----------------------------------------------------------------------------
(* A command arrives: it waits, and nothing else changes.                  *)
LEMMA DeliverBooks ==
  ASSUME Books, NEW c \in Commands, Deliver(c)
  PROVE  Books'
<1>0. /\ Types /\ JobInv /\ GenInv /\ OnceInv /\ c \notin delivered
      /\ commandQueue \in Seq(Op) /\ DOMAIN commandQueue = 1..Len(commandQueue)
      /\ Len(commandQueue) \in Nat /\ epoch \in Nat
      /\ commandQueue' = Append(commandQueue, CommandOp(c)) /\ delivered' = delivered \cup {c}
      /\ UNCHANGED <<lease, epoch, job, active, call, control, clientVars, workerVars>>
  BY NumbersTyped, LenProperties DEF Books, Deliver, Handle, sidecarVars, leaseVars
<1>1. Types'
  <2>1. control.pc # "none" => job.pc # "free"
    BY <1>0 DEF JobInv
  <2> QED
    BY <1>0, <2>1, OrchestrateType
<1>2. /\ Range(commandQueue') = Range(commandQueue) \cup {CommandOp(c)}
      /\ CommandOp(c).kind = "command" /\ CommandOp(c).cmd = c /\ CommandOp(c).gen = 0
  BY <1>0, OpsBuilt, RangeOfAppend DEF CommandOp
<1>3. JobInv'
  BY <1>0 DEF JobInv
<1>4. GenInv'
  <2>1. UNCHANGED pending
    BY <1>0 DEF clientVars
  <2> QED
    BY <1>0, <1>2, <2>1 DEF GenInv
<1>5. OnceInv'
  <2>1. \A op \in Range(commandQueue') : op.kind = "command" =>
          op.cmd \in delivered' /\ (job'.pc # "free" => op.cmd # job'.cmd)
    BY <1>0, <1>2 DEF OnceInv
  <2>2. /\ DOMAIN commandQueue' = 1..(Len(commandQueue) + 1)
        /\ \A i \in 1..Len(commandQueue) : commandQueue'[i] = commandQueue[i]
        /\ commandQueue'[Len(commandQueue) + 1] = CommandOp(c)
    BY <1>0, OpsBuilt, AppendProperties, LenProperties
  <2>3. \A i \in 1..Len(commandQueue) : commandQueue[i].kind = "command" => commandQueue[i].cmd # c
    BY <1>0 DEF OnceInv, Range
  <2>4. ASSUME NEW i \in DOMAIN commandQueue', NEW j \in DOMAIN commandQueue',
               commandQueue'[i].kind = "command", commandQueue'[j].kind = "command",
               commandQueue'[i].cmd = commandQueue'[j].cmd
        PROVE  i = j
    <3>1. CASE i \in 1..Len(commandQueue) /\ j \in 1..Len(commandQueue)
      BY <1>0, <2>2, <2>4, <3>1 DEF OnceInv
    <3>2. CASE i = Len(commandQueue) + 1 \/ j = Len(commandQueue) + 1
      BY <1>0, <1>2, <2>2, <2>3, <2>4, <3>2
    <3> QED
      BY <1>0, <2>2, <3>1, <3>2
  <2> QED
    BY <1>0, <2>1, <2>4 DEF OnceInv
<1>6. Traces
  <2>1. StartedTasks \subseteq StartedTasks'
    <3>1. ASSUME NEW d \in delivered, Started(d) PROVE d \in delivered' /\ Started(d)'
      <4>1. CommandOp(d) # CommandOp(c)
        BY <1>0, <3>1 DEF CommandOp
      <4> QED
        BY <1>0, <1>2, <3>1, <4>1 DEF Started
    <3> QED
      BY <3>1 DEF StartedTasks
  <2> QED
    BY <1>0, <2>1 DEF Traces, Books, TraceInv
<1>7. Aside
  BY <1>0 DEF Aside
<1> QED
  BY <1>1, <1>3, <1>4, <1>5, <1>6, <1>7, AsideKeeps DEF Books

-----------------------------------------------------------------------------
(* The steps of the client, the worker and the faults: the orchestrator is *)
(* not the one who acts.                                                   *)
LEMMA OthersMove ==
  ASSUME QueueMoves, UNCHANGED <<job, active, epoch, delivered>>,
         control.pc = "none" => UNCHANGED control
  PROVE  Moves
BY DEF Moves, JobMoves, ActiveMoves, ControlMoves

(* The outcomes of some ActiveTasks join the queue.                        *)
LEMMA OutcomesJoin ==
  ASSUME NEW gens \in Seq(Nat), NEW s \in {"succeeded", "failed"},
         \A g \in Range(gens) : g \in 1..epoch, Enqueue(Outcomes(gens, s))
  PROVE  QueueMoves /\ UNCHANGED <<lease, epoch, job, active, frames, diskVars>>
<1>1. /\ commandQueue' = commandQueue \o Outcomes(gens, s)
      /\ UNCHANGED <<lease, epoch, job, active, frames, diskVars>>
  BY DEF Enqueue, leaseVars
<1>2. /\ Outcomes(gens, s) \in Seq(Op)
      /\ \A op \in Range(Outcomes(gens, s)) : \E g \in Range(gens) : op = OutcomeOp(g, s)
  BY RangeOfOutcomes
<1>3. \A op \in Range(Outcomes(gens, s)) : op.kind = "outcome" /\ op.gen \in 1..epoch'
  BY <1>1, <1>2 DEF OutcomeOp
<1> HIDE DEF Outcomes
<1> QED
  BY <1>1, <1>2, <1>3 DEF QueueMoves

LEMMA TargetBooks ==
  ASSUME Books, (TargetKnown \/ TargetUnknown), Types'
  PROVE  Books'
<1>0. /\ Types /\ call.pc = "target" /\ call.task \in Tasks /\ call.waiting \in Seq(Nat)
      /\ UNCHANGED <<control, delivered>> /\ WireInv /\ IdInv
      /\ call \in [pc : {"none", "target", "lost", "acking", "running"}, id : Nat,
                   task : Tasks \cup {NoTask}, waiting : Seq(Nat)]
  BY NumbersTyped DEF TargetKnown, TargetUnknown, Books, worldVars, Fault, OneMoreFault, Types, TypeOK
<1>1. CASE TargetKnown
  <2>1. Moves
    BY <1>0, <1>1, OthersMove DEF TargetKnown, orchestratorVars, leaseVars, memoryVars, QueueMoves
  <2>2. PICK c : c.type = "execute" /\ c.task = call.task /\ Made(c)
    BY <1>0, <1>1, SendMakes DEF TargetKnown, RequestTypes
  <2>3. /\ call'.pc = "acking" /\ call'.id = requests + 1 /\ call'.task = call.task
        /\ call'.waiting = call.waiting /\ UNCHANGED job
    BY <1>0, <1>1 DEF TargetKnown, orchestratorVars, memoryVars
  <2>4. Requests(c)
    BY <1>0, <2>2, <2>3 DEF Requests, Made
  <2> QED
    BY <2>1, <2>2, <2>3, <2>4, RequestBooks
<1>2. CASE TargetUnknown
  <2>1. /\ Enqueue(Outcomes(call.waiting, "failed")) /\ UNCHANGED <<clientVars, workerVars>>
        /\ call'.pc = "lost" /\ call'.task = call.task /\ call'.waiting = call.waiting
    BY <1>0, <1>2 DEF TargetUnknown
  <2>2. \A g \in Range(call.waiting) : g \in 1..epoch
    BY DEF Books, GenInv
  <2>3. Moves /\ UNCHANGED job
    BY <1>0, <2>1, <2>2, OutcomesJoin, OthersMove
  <2>4. Aside
    BY <1>0, <2>1, <2>3, StartsMoved DEF Aside, Execution, Books, TraceInv
  <2> QED
    BY <2>1, <2>3, <2>4, WaitingKept, AsideBooks
<1> QED
  BY <1>1, <1>2

(* The process is ready: what is pending is written.                       *)
LEMMA ReadyBooks ==
  ASSUME Books, ProcessReady, Types'
  PROVE  Books'
<1> USE Elements DEF Books
<1>0. /\ process = "starting" /\ process' = "ready"
      /\ pending' = [i \in DOMAIN pending |-> [pending[i] EXCEPT !.sent = TRUE]]
      /\ stdin' = [i \in DOMAIN pending |-> Line(pending[i])]
      /\ UNCHANGED <<requests, stdout, serving, exec, call, control, delivered>>
      /\ UNCHANGED <<commandQueue, job, active, epoch>>
  BY DEF ProcessReady, Ready, worldVars, orchestratorVars, memoryVars, leaseVars
<1>1. Moves
  BY <1>0, OthersMove DEF QueueMoves
<1>2. \A i \in DOMAIN pending :
        /\ pending[i] \in Range(pending) /\ pending[i] \in Call(Tasks)
        /\ pending'[i].id = pending[i].id /\ pending'[i].type = pending[i].type
        /\ pending'[i].task = pending[i].task /\ pending'[i].gen = pending[i].gen
        /\ pending'[i].sent
        /\ stdin'[i] = Line(pending[i]) /\ Line(pending'[i]) = Line(pending[i])
  BY <1>0, NumbersTyped DEF Call, Range, Line
<1>3. DOMAIN pending' = DOMAIN pending /\ DOMAIN stdin' = DOMAIN pending
  BY <1>0
<1>4. \A d \in Range(pending') : \E c \in Range(pending) :
        /\ d.id = c.id /\ d.type = c.type /\ d.task = c.task /\ d.gen = c.gen /\ d.sent
        /\ Line(d) = Line(c)
  BY <1>2, <1>3 DEF Range
<1>5. \A c \in Range(pending) : \E d \in Range(pending') : d.id = c.id /\ d.type = c.type
  BY <1>2, <1>3 DEF Range
<1>6. \A l \in Range(stdin') : \E c \in Range(pending) :
        l = Line(c) /\ l.id = c.id /\ l.type = c.type /\ l.task = c.task
  <2>1. \A i \in DOMAIN stdin' : pending[i] \in Range(pending) /\ stdin'[i] = Line(pending[i])
    BY <1>2, <1>3
  <2>2. \A c : Line(c).id = c.id /\ Line(c).type = c.type /\ Line(c).task = c.task
    BY DEF Line
  <2> QED
    BY <2>1, <2>2 DEF Range
<1>7. \A c, d \in Range(pending) : c.id = d.id => c = d
  <2>1. \A c \in Call(Tasks) : c.id \in Nat
    BY DEF Call
  <2> QED
    BY <2>1, NumbersTyped, AscendingOnce DEF IdInv
<1>8. Range(stdout) = {} /\ Range(serving) = {} /\ exec.pc = "none"
  BY <1>0 DEF WireInv
<1>9. JobInv' /\ OnceInv' /\ GenInv'
  <2>1. \A c \in Range(pending') : c.type = "resume" => c.gen \in 1..epoch'
    BY <1>0, <1>4 DEF GenInv
  <2> QED
    BY <1>0, <1>1, <2>1, JobMoved, OnceMoved, GensMoved, GenTyped, WaitingKept
<1>10. TraceInv'
  BY <1>0, <1>1, <1>4, <1>6, MovesTrace DEF Traces, TraceInv
<1>11. WireInv'
  BY <1>0, <1>4, <1>8 DEF WireInv
<1>12. IdInv'
  <2>1. Ascends(pending') /\ Ascends(stdin')
    <3>1. \A i, j \in DOMAIN pending : i < j => pending[i].id < pending[j].id
      BY DEF IdInv, Ascends
    <3>2. \A i \in DOMAIN pending : stdin'[i].id = pending[i].id
      <4>1. \A c : Line(c).id = c.id
        BY DEF Line
      <4>2. \A i \in DOMAIN pending : stdin'[i] = Line(pending[i])
        BY <1>2
      <4> QED
        BY <4>1, <4>2
    <3> QED
      BY <1>2, <1>3, <3>1, <3>2 DEF Ascends
  <2>2. \A d \in Range(pending'), l \in Range(stdin') : d.id = l.id => l = Line(d)
    BY <1>4, <1>6, <1>7
  <2>3. /\ \A d \in Range(pending') : d.id <= requests'
        /\ \A l \in Range(stdin') : l.id <= requests'
        /\ control'.id <= requests'
    BY <1>0, <1>4, <1>6 DEF IdInv
  <2>4. Range(stdout') = {} /\ Range(serving') = {}
    BY <1>0, <1>8
  <2> QED
    BY <2>1, <2>2, <2>3, <2>4 DEF IdInv
<1>13. CallInv'
  <2>1. \A d \in Range(pending') : d.type = "execute" =>
          call'.pc = "acking" /\ d.id = call'.id /\ d.task = call'.task
    BY <1>0, <1>4 DEF CallInv
  <2>2. call'.pc = "acking" => \E d \in Range(pending') : d.type = "execute" /\ d.id = call'.id
    BY <1>0, <1>5 DEF CallInv
  <2>3. \A d \in Range(pending') : d.type \in {"pause", "cancel"} =>
          control'.pc = "waiting" /\ d.id = control'.id
    BY <1>0, <1>4 DEF CallInv
  <2> QED
    BY <2>1, <2>2, <2>3 DEF CallInv
<1>14. AskInv'
  BY <1>0, <1>4, <1>6, <1>8 DEF AskInv, ControlType
<1>15. ExecInv'
  BY <1>0, <1>6, <1>7, <1>8 DEF ExecInv, CallInv, Running, Execution, AgentIsCalls
<1>16. TargetInv'
  BY <1>0, <1>4, <1>6, <1>8 DEF TargetInv, CallInv, AgentIsCalls
<1>17. AckInv'
  BY <1>0, <1>8 DEF AckInv, AgentIsCalls, Acks, Results
<1>18. RestInv'
  BY <1>0, <1>6, <1>8 DEF RestInv, Calm, CallInv, Idle, JobInv
<1> QED
  BY <1>9, <1>10, <1>11, <1>12, <1>13, <1>14, <1>15, <1>16, <1>17, <1>18

(* The client hears something, or gives a request up: a line of stdout is  *)
(* read or not, calls settle, and nothing is written.                      *)
Hears ==
  /\ UNCHANGED <<process, requests, stdin, serving, exec, job, active>>
  /\ Range(pending') \subseteq Range(pending) /\ Ascends(pending')
  /\ \/ UNCHANGED stdout
     \/ /\ stdout # <<>> /\ stdout' = Tail(stdout)
        /\ call'.pc = "acking" => Head(stdout) \notin Acks(call.id)
  /\ \/ /\ call'.pc = call.pc /\ call'.id = call.id /\ call'.task = call.task
        /\ \A c \in Range(pending) : c.type = "execute" => c \in Range(pending')
     \/ /\ call'.pc = "running" /\ call.pc = "acking"
        /\ call'.id = call.id /\ call'.task = call.task
        /\ \A c \in Range(pending') : c.type # "execute"
     \/ /\ call'.pc = "none"
        /\ \A c \in Range(pending') : c.type # "execute"
  /\ \/ UNCHANGED control
     \/ /\ control.pc = "waiting" /\ control'.id = control.id
        /\ \A c \in Range(pending') : c.type \notin {"pause", "cancel"}
        /\ \/ control'.pc = "failed"
           \/ /\ control'.pc = "done"
              /\ \E r \in Range(stdout) : r.type = "ack" /\ r.id = control.id

LEMMA HearingKeeps ==
  ASSUME Books, Traces, Hears
  PROVE  /\ TraceInv' /\ WireInv' /\ IdInv' /\ CallInv' /\ AskInv' /\ ExecInv'
         /\ TargetInv' /\ AckInv' /\ RestInv'
<1> USE Elements DEF Books
<1>0. /\ UNCHANGED <<process, requests, stdin, serving, exec, job, active>>
      /\ Range(pending') \subseteq Range(pending) /\ Ascends(pending')
      /\ \/ call'.pc = "none"
         \/ call'.pc = "running" /\ call.pc = "acking"
         \/ call'.pc = call.pc
      /\ call'.pc # "none" => call'.id = call.id /\ call'.task = call.task
      /\ control'.id = control.id /\ (control'.pc = "waiting" => control.pc = "waiting")
  BY DEF Hears
<1>1. Range(stdout') \subseteq Range(stdout)
  BY NumbersTyped, RangeOfTail DEF Hears
<1>2. TraceInv'
  BY <1>0, <1>1 DEF Traces, TraceInv
<1>3. WireInv'
  BY <1>0, <1>1 DEF WireInv, Running
<1>4. IdInv'
  BY <1>0, <1>1 DEF IdInv
<1>5. CallInv'
  <2>1. \A c \in Range(pending') : c.type = "execute" =>
          call'.pc = "acking" /\ c.id = call'.id /\ c.task = call'.task
    BY <1>0 DEF Hears, CallInv
  <2>2. call'.pc = "acking" => \E c \in Range(pending') : c.type = "execute" /\ c.id = call'.id
    BY <1>0 DEF Hears, CallInv
  <2>3. \A c \in Range(pending') : c.type \in {"pause", "cancel"} =>
          control'.pc = "waiting" /\ c.id = control'.id
    BY <1>0 DEF Hears, CallInv
  <2> QED
    BY <2>1, <2>2, <2>3 DEF CallInv
<1>6. AskInv'
  BY <1>0 DEF AskInv, ControlType
<1>7. ExecInv'
  BY <1>0, <1>1 DEF ExecInv, Running, Execution, AgentIsCalls
<1>8. TargetInv'
  BY <1>0, <1>1 DEF TargetInv, AgentIsCalls
<1>9. AckInv'
  <2> SUFFICES ASSUME call'.pc = "acking"
               PROVE  /\ Leads(stdout', Acks(call'.id), Results(call'.task))
                      /\ AgentIsCalls' =>
                           \E r \in Range(stdout') : r.type = "ack" /\ r.id = call'.id
    BY DEF AckInv
  <2>1. call.pc = "acking" /\ call'.id = call.id /\ call'.task = call.task
    BY <1>0
  <2>2. CASE UNCHANGED stdout
    BY <1>0, <2>1, <2>2 DEF AckInv, AgentIsCalls, Acks, Results
  <2>3. CASE stdout # <<>> /\ stdout' = Tail(stdout) /\ Head(stdout) \notin Acks(call.id)
    <3>1. Leads(stdout', Acks(call.id), Results(call.task))
      BY <2>1, <2>3, LeadsTail, NumbersTyped DEF AckInv
    <3>2. Range(stdout) = Range(stdout') \cup {Head(stdout)} /\ Head(stdout) \in Response(Tasks)
      BY <2>3, RangeOfTail, NumbersTyped
    <3>3. AgentIsCalls => \E r \in Range(stdout') : r.type = "ack" /\ r.id = call.id
      BY <2>1, <2>3, <3>2 DEF AckInv, Acks
    <3> QED
      BY <1>0, <2>1, <3>1, <3>3 DEF AgentIsCalls
  <2> QED
    BY <2>2, <2>3 DEF Hears
<1>10. RestInv'
  <2>1. Calm' => Calm
    BY <1>0, <1>1 DEF Hears, Calm
  <2> QED
    BY <1>0, <2>1 DEF RestInv, Idle
<1> QED
  BY <1>2, <1>3, <1>4, <1>5, <1>6, <1>7, <1>8, <1>9, <1>10

LEMMA HearingBooks ==
  ASSUME Books, Hears, Types', QueueMoves, UNCHANGED <<epoch, delivered>>,
         \A g \in Range(call'.waiting) : g \in 1..epoch
  PROVE  Books'
<1>1. Moves
  BY OthersMove DEF Hears
<1>2. JobInv' /\ OnceInv'
  BY <1>1, JobMoved, OnceMoved DEF Books
<1>3. GenInv'
  <2>1. \A c \in Range(pending') : c.type = "resume" => c.gen \in 1..epoch'
    BY DEF Hears, Books, GenInv
  <2> QED
    BY <1>1, <2>1, GensMoved, GenTyped DEF Books
<1> QED
  BY <1>1, <1>2, <1>3, MovesTrace, HearingKeeps DEF Books

(* A call settles: it is the only one with its id.                         *)
LEMMA SettledOne ==
  ASSUME Books, NEW i \in DOMAIN pending, Settled(i)
  PROVE  /\ Range(pending') \subseteq Range(pending) /\ Ascends(pending')
         /\ Range(pending) \subseteq Range(pending') \cup {pending[i]}
         /\ \A d \in Range(pending') : d.id # pending[i].id
         /\ pending[i] \in Range(pending) /\ pending[i] \in Call(Tasks)
<1>1. pending \in Seq(Call(Tasks)) /\ pending' = Without(pending, i) /\ Ascends(pending)
  BY NumbersTyped DEF Settled, Without, Books, IdInv
<1>2. \A c \in Call(Tasks) : c.id \in Nat
  BY DEF Call
<1> QED
  BY <1>1, <1>2, RangeOfWithout, AscendingWithout, InRange

(* What the calls are when one of them has settled.                        *)
LEMMA SettledCalls ==
  ASSUME Books, NEW i \in DOMAIN pending, Settled(i)
  PROVE  /\ pending[i].type = "execute" => \A c \in Range(pending') : c.type # "execute"
         /\ pending[i].type # "execute" =>
              \A c \in Range(pending) : c.type = "execute" => c \in Range(pending')
         /\ pending[i].type \in {"pause", "cancel"} =>
              \A c \in Range(pending') : c.type \notin {"pause", "cancel"}
BY SettledOne DEF Books, CallInv

(* The line at the head of stdout.                                         *)
LEMMA HeadLine ==
  ASSUME Books, stdout # <<>>
  PROVE  /\ Head(stdout) \in Response(Tasks) /\ Head(stdout) \in Range(stdout)
         /\ process = "ready"
<1>1. Head(stdout) \in Response(Tasks) /\ Head(stdout) \in Range(stdout)
  BY NumbersTyped, RangeOfTail DEF Books
<1> QED
  BY <1>1 DEF Books, WireInv

LEMMA ResultBooks ==
  ASSUME Books, ResultArrives, UNCHANGED worldVars, Types'
  PROVE  Books' /\ Hears
<1>0. /\ Types /\ stdout # <<>> /\ Head(stdout).type = "result" /\ stdout' = Tail(stdout)
      /\ UNCHANGED <<stdin, serving, exec, process, pending, requests, control, delivered>>
  BY DEF ResultArrives, Receives, Consume, clientVars, worldVars, Books
<1>1. Head(stdout) \in Response(Tasks) /\ Head(stdout) \notin Acks(call.id) /\ Ascends(pending)
  BY <1>0, HeadLine DEF Acks, Books, IdInv
<1>2. \A g \in Range(call.waiting) : g \in 1..epoch
  BY DEF Books, GenInv
<1>3. CASE ~Routed(Head(stdout))
  <2>1. UNCHANGED <<call, job, active, epoch, commandQueue>>
    BY <1>3 DEF ResultArrives, orchestratorVars, memoryVars, leaseVars
  <2>2. Hears
    BY <1>0, <1>1, <2>1 DEF Hears
  <2> QED
    BY <1>0, <1>2, <2>1, <2>2, HearingBooks DEF QueueMoves
<1>4. CASE Routed(Head(stdout))
  <2>1. /\ call' = NoCall
        /\ Enqueue(Outcomes(call.waiting, OutcomeOf(Head(stdout).status)))
    BY <1>4 DEF ResultArrives, Settle
  <2>2. call.waiting \in Seq(Nat) /\ OutcomeOf(Head(stdout).status) \in {"succeeded", "failed"}
    BY <1>0, NumbersTyped DEF OutcomeOf
  <2>3. QueueMoves /\ UNCHANGED <<lease, epoch, job, active, frames, diskVars>>
    BY <1>2, <2>1, <2>2, OutcomesJoin
  <2>4. call'.pc = "none" /\ Range(call'.waiting) = {}
    BY <2>1, RangeOfEmpty DEF NoCall
  <2>5. \A c \in Range(pending) : c.type # "execute"
    <3>1. Head(stdout) \in Results(call.task)
      BY <1>0, <1>1, <1>4 DEF Routed, Results
    <3>2. call.pc # "acking"
      BY <1>0, <3>1, LeadsTail, NumbersTyped DEF Books, AckInv
    <3> QED
      BY <3>2 DEF Books, CallInv
  <2>6. Hears
    BY <1>0, <1>1, <2>3, <2>4, <2>5 DEF Hears
  <2> QED
    BY <1>0, <2>3, <2>4, <2>6, HearingBooks
<1> QED
  BY <1>3, <1>4

LEMMA AckBooks ==
  ASSUME Books, AckArrives, UNCHANGED worldVars, Types'
  PROVE  Books' /\ Hears
<1>0. /\ Types /\ stdout # <<>> /\ Head(stdout).type = "ack" /\ stdout' = Tail(stdout)
      /\ UNCHANGED <<stdin, serving, exec, process, requests, delivered>>
      /\ call \in [pc : {"none", "target", "lost", "acking", "running"}, id : Nat,
                   task : Tasks \cup {NoTask}, waiting : Seq(Nat)]
      /\ control \in [pc : {"none", "waiting", "done", "failed"}, id : Nat]
  BY DEF AckArrives, Answers, Receives, Consume, worldVars, Books, Types, TypeOK
<1>1. PICK i \in DOMAIN pending :
        Answers(pending[i]) /\ Settled(i) /\ Acknowledged(pending[i])
  BY DEF AckArrives
<1> DEFINE c == pending[i]
<1>2. /\ c.id = Head(stdout).id /\ Head(stdout) \in Range(stdout)
      /\ Range(pending') \subseteq Range(pending) /\ Ascends(pending')
      /\ \A d \in Range(pending') : d.id # c.id
      /\ c \in Range(pending) /\ c \in Call(Tasks) /\ c.type \in RequestTypes
      /\ \A g \in Range(call.waiting) : g \in 1..epoch
  BY <1>0, <1>1, HeadLine, SettledOne, Elements DEF Answers, Books, GenInv
<1>3. /\ c.type = "execute" => \A d \in Range(pending') : d.type # "execute"
      /\ c.type # "execute" =>
           \A d \in Range(pending) : d.type = "execute" => d \in Range(pending')
      /\ c.type \in {"pause", "cancel"} =>
           \A d \in Range(pending') : d.type \notin {"pause", "cancel"}
  BY <1>1, SettledCalls
<1>4. /\ UNCHANGED orchestratorVars
      /\ \/ /\ c.type = "execute" /\ UNCHANGED control
            /\ call' = [call EXCEPT !.pc = "running"]
         \/ /\ c.type = "resume" /\ UNCHANGED control
            /\ call' = IF Execution THEN [call EXCEPT !.waiting = Append(@, c.gen)] ELSE call
         \/ /\ c.type \in {"pause", "cancel"} /\ UNCHANGED call
            /\ control' = [control EXCEPT !.pc = "done"]
  BY <1>1, <1>2 DEF Acknowledged, RequestTypes
<1> HIDE DEF c
<1>5. /\ UNCHANGED <<job, active, epoch, commandQueue>>
  BY <1>4 DEF orchestratorVars, memoryVars, leaseVars
<1>6. \A g \in Range(call'.waiting) : g \in 1..epoch
  <2>1. CASE UNCHANGED call.waiting
    BY <1>2, <2>1
  <2>2. CASE c.type = "resume" /\ call'.waiting = Append(call.waiting, c.gen)
    <3>1. c.gen \in 1..epoch /\ c.gen \in Nat
      BY <1>2, <2>2, Elements DEF Books, GenInv
    <3>2. Range(call'.waiting) = Range(call.waiting) \cup {c.gen}
      BY <1>0, <2>2, <3>1, RangeOfAppend
    <3> QED
      BY <1>2, <3>1, <3>2
  <2> QED
    BY <1>0, <1>4, <2>1, <2>2
<1>7. CASE c.type = "execute"
  <2>1. call.pc = "acking"
    BY <1>2, <1>7 DEF Books, CallInv
  <2>2. call'.pc = "running" /\ call'.id = call.id /\ call'.task = call.task /\ UNCHANGED control
    BY <1>0, <1>4, <1>7
  <2>3. Hears
    BY <1>0, <1>2, <1>3, <1>5, <1>7, <2>1, <2>2 DEF Hears
  <2> QED
    BY <1>0, <1>5, <1>6, <2>3, HearingBooks DEF QueueMoves
<1>8. CASE c.type # "execute"
  <2>1. call'.pc = call.pc /\ call'.id = call.id /\ call'.task = call.task
    BY <1>0, <1>4, <1>8
  <2>2. call'.pc = "acking" => Head(stdout) \notin Acks(call.id)
    <3>1. ASSUME call.pc = "acking", c.id = call.id PROVE FALSE
      <4>1. PICK d \in Range(pending) : d.type = "execute" /\ d.id = call.id
        BY <3>1 DEF Books, CallInv
      <4>2. d \in Range(pending') /\ d.id = c.id
        BY <1>3, <1>8, <3>1, <4>1
      <4> QED
        BY <1>2, <4>2
    <3> QED
      BY <1>2, <2>1, <3>1 DEF Acks
  <2>3. c.type \in {"pause", "cancel"} => control.pc = "waiting" /\ control.id = c.id
    BY <1>2 DEF Books, CallInv
  <2>4. Hears
    <3>1. CASE UNCHANGED control
      BY <1>0, <1>2, <1>3, <1>5, <1>8, <2>1, <2>2, <3>1 DEF Hears
    <3>2. CASE c.type \in {"pause", "cancel"} /\ control' = [control EXCEPT !.pc = "done"]
      <4>1. control'.pc = "done" /\ control'.id = control.id
        BY <1>0, <3>2
      <4>2. \E r \in Range(stdout) : r.type = "ack" /\ r.id = control.id
        BY <1>0, <1>2, <2>3, <3>2
      <4> QED
        BY <1>0, <1>2, <1>3, <1>5, <1>8, <2>1, <2>2, <2>3, <3>2, <4>1, <4>2 DEF Hears
    <3> QED
      BY <1>4, <1>8, <3>1, <3>2
  <2> QED
    BY <1>0, <1>5, <1>6, <2>4, HearingBooks DEF QueueMoves
<1> QED
  BY <1>7, <1>8

LEMMA DroppedBooks ==
  ASSUME Books, LineDropped, UNCHANGED worldVars, Types'
  PROVE  Books' /\ Hears
<1>0. /\ Types /\ stdout # <<>> /\ stdout' = Tail(stdout)
      /\ UNCHANGED <<stdin, serving, exec, process, pending, requests, control, call, delivered>>
      /\ UNCHANGED <<job, active, epoch, commandQueue>> /\ Ascends(pending)
  BY DEF LineDropped, IsDropped, Receives, Consume, worldVars, Books, clientVars, IdInv,
     orchestratorVars, memoryVars, leaseVars
<1>1. call.pc = "acking" => Head(stdout) \notin Acks(call.id)
  <2>1. ASSUME call.pc = "acking", Head(stdout) \in Acks(call.id) PROVE FALSE
    <3>1. PICK d \in Range(pending) : d.type = "execute" /\ d.id = call.id
      BY <2>1 DEF Books, CallInv
    <3>2. PICK i \in DOMAIN pending : d = pending[i]
      BY DEF Range
    <3>3. d.sent
      BY <1>0, HeadLine DEF Books, WireInv
    <3>4. Answers(pending[i]) /\ Head(stdout).type = "ack"
      BY <1>0, <2>1, <3>1, <3>2, <3>3 DEF Acks, Answers, Receives
    <3> QED
      BY <3>4 DEF LineDropped, IsDropped, Receives
  <2> QED
    BY <2>1
<1>2. Hears
  BY <1>0, <1>1 DEF Hears
<1> QED
  BY <1>0, <1>2, HearingBooks DEF QueueMoves, Books, GenInv

LEMMA GivesUpBooks ==
  ASSUME Books, NEW i \in DOMAIN pending, GivesUp(i), Types', delivered' = delivered
  PROVE  Books' /\ Hears
<1>0. /\ Types /\ Settled(i) /\ UNCHANGED <<process, requests, stdin, stdout, serving, exec>>
      /\ control \in [pc : {"none", "waiting", "done", "failed"}, id : Nat]
      /\ call.waiting \in Seq(Nat)
  BY NumbersTyped DEF GivesUp, workerVars, Books, Types, TypeOK
<1> DEFINE c == pending[i]
<1>2. /\ Range(pending') \subseteq Range(pending) /\ Ascends(pending')
      /\ c \in Range(pending) /\ c \in Call(Tasks) /\ c.type \in RequestTypes /\ c.gen \in Nat
      /\ \A g \in Range(call.waiting) : g \in 1..epoch
  BY <1>0, SettledOne, Elements DEF Books, GenInv
<1>3. /\ c.type = "execute" => \A d \in Range(pending') : d.type # "execute"
      /\ c.type # "execute" =>
           \A d \in Range(pending) : d.type = "execute" => d \in Range(pending')
      /\ c.type \in {"pause", "cancel"} =>
           \A d \in Range(pending') : d.type \notin {"pause", "cancel"}
  BY <1>0, SettledCalls
<1>4. \/ /\ c.type = "execute" /\ UNCHANGED control
         /\ call' = NoCall /\ Enqueue(Outcomes(call.waiting, "failed"))
      \/ /\ c.type = "resume" /\ UNCHANGED <<call, control>>
         /\ Enqueue(<<OutcomeOp(c.gen, "failed")>>)
      \/ /\ c.type \in {"pause", "cancel"} /\ UNCHANGED <<call, orchestratorVars>>
         /\ control' = [control EXCEPT !.pc = "failed"]
  BY <1>2 DEF GivesUp, Settle, RequestTypes
<1>5. c.type = "resume" => c.gen \in 1..epoch
  BY <1>2 DEF Books, GenInv
<1>6. c.type \in {"pause", "cancel"} => control.pc = "waiting"
  BY <1>2 DEF Books, CallInv
<1> HIDE DEF c
<1>7. QueueMoves /\ UNCHANGED <<epoch, job, active>>
  <2>1. CASE Enqueue(Outcomes(call.waiting, "failed"))
    BY <1>0, <1>2, <2>1, OutcomesJoin
  <2>2. CASE c.type = "resume" /\ Enqueue(<<OutcomeOp(c.gen, "failed")>>)
    <3>1. commandQueue' = commandQueue \o <<OutcomeOp(c.gen, "failed")>>
          /\ UNCHANGED <<epoch, job, active>>
      BY <2>2 DEF Enqueue, leaseVars
    <3>2. epoch' \in Nat /\ c.gen \in 1..epoch'
      BY <1>5, <2>2, <3>1, <1>0, NumbersTyped
    <3> QED
      BY <3>1, <3>2, RefusalJoins
  <2>3. CASE UNCHANGED orchestratorVars
    BY <2>3 DEF orchestratorVars, memoryVars, leaseVars, QueueMoves
  <2> QED
    BY <1>4, <2>1, <2>2, <2>3
<1>8. \A g \in Range(call'.waiting) : g \in 1..epoch
  <2>1. Range(NoCall.waiting) = {}
    BY RangeOfEmpty DEF NoCall
  <2> QED
    BY <1>2, <1>4, <2>1
<1>9. Hears
  <2>1. CASE c.type = "execute"
    <3>1. call'.pc = "none" /\ UNCHANGED control
      BY <1>4, <2>1 DEF NoCall
    <3> QED
      BY <1>0, <1>2, <1>3, <1>7, <2>1, <3>1 DEF Hears
  <2>2. CASE c.type = "resume"
    BY <1>0, <1>2, <1>3, <1>4, <1>7, <2>2 DEF Hears
  <2>3. CASE c.type \in {"pause", "cancel"}
    <3>1. control'.pc = "failed" /\ control'.id = control.id /\ UNCHANGED call
      BY <1>0, <1>4, <2>3
    <3> QED
      BY <1>0, <1>2, <1>3, <1>6, <1>7, <2>3, <3>1 DEF Hears
  <2> QED
    BY <1>4, <2>1, <2>2, <2>3
<1> QED
  BY <1>7, <1>8, <1>9, HearingBooks

-----------------------------------------------------------------------------
(* What the worker does: it reads a request or goes on with the one it     *)
(* serves, its execution starts or goes on, and it may write a line.       *)

(* The request is no longer in the pipe.                                   *)
Gone(q) == \A m \in Range(stdin') : q.id < m.id
AtHand == Range(stdin) \cup Range(serving)

ServesOn ==
  \A l \in Range(serving') :
    \/ l \in Range(serving) /\ UNCHANGED stdin
    \/ /\ l \in Range(stdin) /\ Gone(l) /\ ActiveFor(l)
       /\ l.type \in {"pause", "cancel"}

Starts(h) ==
  /\ h \in Range(stdin) /\ h.type = "execute" /\ Gone(h)
  /\ exec.pc = "none" /\ exec'.pc = "start" /\ exec'.id = h.id /\ exec'.task = h.task
  /\ ~exec'.paused /\ stdout' = Append(stdout, Ack(h)) /\ Range(serving') = {}
GoesOn ==
  /\ \/ exec'.pc = "none"
     \/ exec.pc # "none" /\ exec'.pc # "none" /\ exec'.id = exec.id /\ exec'.task = exec.task
  /\ Running' => Running /\ \A l \in Range(serving') : l.type # "cancel"
  /\ exec'.paused /\ ~Idle' =>
       (exec.paused /\ ~Idle) \/ \E l \in Range(stdin) : l.type = "pause"

Acknowledges(r, q) ==
  /\ r.type = "ack" /\ r.id = q.id /\ r.task = q.task /\ Gone(q) /\ Range(serving') = {}
  /\ q \in Range(stdin) => Starts(q) \/ (q.type # "execute" /\ ActiveFor(q))
  /\ q.type = "pause" => Idle'
Says(r) ==
  /\ stdout' = Append(stdout, r)
  /\ \/ r.type = "error" /\ \E q \in AtHand : r.task = q.task
     \/ \E q \in AtHand : Acknowledges(r, q)
     \/ r.type = "result" /\ Running /\ ~Running' /\ r.task = exec.task

WorkerMoves ==
  /\ UNCHANGED <<process, pending, requests, call, control, job, active>>
  /\ process = "ready"
  /\ Range(stdin') \subseteq Range(stdin) /\ Ascends(stdin')
  /\ ServesOn
  /\ GoesOn \/ \E h : Starts(h)
  /\ UNCHANGED stdout \/ \E r \in Response(Tasks) : Says(r)

LEMMA WorkKeeps ==
  ASSUME Books, Traces, WorkerMoves
  PROVE  /\ TraceInv' /\ WireInv' /\ IdInv' /\ CallInv' /\ AskInv' /\ ExecInv'
         /\ TargetInv' /\ AckInv' /\ RestInv'
<1> USE Elements DEF Books
<1>0. /\ UNCHANGED <<process, pending, requests, call, control, job, active>>
      /\ process = "ready" /\ Range(stdin') \subseteq Range(stdin) /\ Ascends(stdin')
      /\ \A l \in Range(serving') :
           \/ l \in Range(serving) /\ UNCHANGED stdin
           \/ l \in Range(stdin) /\ Gone(l) /\ ActiveFor(l) /\ l.type \in {"pause", "cancel"}
  BY DEF WorkerMoves, ServesOn
<1>1. \A r \in Response(Tasks) : Says(r) => Range(stdout') = Range(stdout) \cup {r}
  BY NumbersTyped, RangeOfAppend DEF Says
<1>2. \A h : Starts(h) => Says(Ack(h)) /\ Ack(h) \in Response(Tasks) /\ Ack(h).id = h.id
                            /\ Ack(h).type = "ack" /\ Ack(h).task = h.task
  <2> TAKE h
  <2> HAVE Starts(h)
  <2>1. h \in Range(stdin) /\ h \in Request(Tasks) /\ Ack(h) \in Response(Tasks)
    BY ResponsesBuilt DEF Starts
  <2>2. Ack(h).id = h.id /\ Ack(h).type = "ack" /\ Ack(h).task = h.task
    BY DEF Ack
  <2>3. Acknowledges(Ack(h), h) /\ h \in AtHand
    BY <2>1, <2>2 DEF Starts, Acknowledges, AtHand
  <2> QED
    BY <2>1, <2>2, <2>3 DEF Says, Starts
<1>3. ASSUME NEW r \in Range(stdout')
      PROVE  r \in Range(stdout) \/ (r \in Response(Tasks) /\ Says(r))
  BY <1>1, <1>3 DEF WorkerMoves
<1>4. \A r : Says(r) => r.type \in {"error", "ack", "result"}
                          /\ \/ \E q \in AtHand : r.task = q.task
                             \/ exec.pc # "none" /\ r.task = exec.task
  BY DEF Says, Acknowledges, Running
<1>5. TraceInv'
  BY <1>0, <1>3, <1>4 DEF Traces, TraceInv, AtHand, WorkerMoves, GoesOn, Starts
<1>6. WireInv'
  BY <1>0 DEF WireInv, WorkerMoves, GoesOn, Starts
<1>7. IdInv'
  <2>1. \A r \in Range(stdout') : r.type = "ack" => r.id <= requests'
    <3>1. \A r : Says(r) /\ r.type = "ack" => \E q \in AtHand : r.id = q.id
      BY DEF Says, Acknowledges
    <3> QED
      BY <1>0, <1>3, <3>1 DEF IdInv, AtHand
  <2>2. \A l \in Range(serving') : l.id <= requests' /\ \A m \in Range(stdin') : l.id < m.id
    BY <1>0 DEF IdInv, Gone
  <2> QED
    BY <1>0, <2>1, <2>2 DEF IdInv
<1>8. CallInv'
  BY <1>0 DEF CallInv
<1>9. AskInv'
  BY <1>0 DEF AskInv, ControlType
<1>10. ASSUME NEW l \in Range(stdin'), l.type = "execute"
       PROVE  /\ ~(exec'.pc # "none" /\ exec'.task = l.task)
              /\ \A r \in Range(stdout') : r.type # "error" => r.task # l.task
              /\ \A m \in Range(serving') : m.task # l.task
  <2>1. l \in Range(stdin) /\ ~(exec.pc # "none" /\ exec.task = l.task)
    BY <1>0, <1>10 DEF ExecInv
  <2>2. \A h : Starts(h) => h.task # l.task
    BY <1>0, <1>10, <2>1 DEF ExecInv, Starts, Gone
  <2>3. ~(exec'.pc # "none" /\ exec'.task = l.task)
    BY <2>1, <2>2 DEF WorkerMoves, GoesOn, Starts
  <2>4. \A m \in Range(serving') : m.task # l.task
    BY <1>0, <1>10, <2>1 DEF ExecInv, ActiveFor
  <2>5. ASSUME NEW r \in Range(stdout'), r.type # "error" PROVE r.task # l.task
    <3>1. CASE r \in Range(stdout)
      BY <1>10, <2>1, <2>5, <3>1 DEF ExecInv
    <3>2. ASSUME NEW q \in AtHand, Acknowledges(r, q) PROVE r.task # l.task
      BY <1>10, <2>1, <2>2, <3>2 DEF ExecInv, AtHand, Acknowledges, ActiveFor
    <3>3. CASE Running /\ r.task = exec.task
      BY <2>1, <3>3 DEF Running
    <3> QED
      BY <1>3, <2>5, <3>1, <3>2, <3>3 DEF Says
  <2> QED
    BY <2>3, <2>4, <2>5
<1>11. ExecInv'
  <2>1. Execution' /\ AgentIsCalls' => exec'.id = call'.id
    BY <1>0 DEF ExecInv, WorkerMoves, GoesOn, Starts, Execution, AgentIsCalls
  <2>2. ASSUME NEW r \in Range(stdout'), r.type = "result"
        PROVE  ~(Running' /\ exec'.task = r.task)
    <3>1. CASE r \in Range(stdout)
      <4>1. CASE GoesOn
        BY <2>2, <3>1, <4>1 DEF ExecInv, GoesOn, Running
      <4>2. ASSUME NEW h, Starts(h) PROVE exec'.task # r.task
        BY <2>2, <3>1, <4>2 DEF ExecInv, Starts
      <4> QED
        BY <4>1, <4>2 DEF WorkerMoves
    <3>2. CASE Says(r)
      BY <2>2, <3>2 DEF Says, Acknowledges
    <3> QED
      BY <1>3, <3>1, <3>2
  <2>3. \A l, m \in Range(stdin') :
          l.type = "execute" /\ m.type = "execute" /\ l.task = m.task => l = m
    BY <1>0 DEF ExecInv
  <2>4. \A l \in Range(stdin') :
          l.type = "execute" /\ Execution' /\ l.task = call'.task => l.id = call'.id
    BY <1>0 DEF ExecInv, Execution
  <2> QED
    BY <1>10, <2>1, <2>2, <2>3, <2>4 DEF ExecInv
<1>12. TargetInv'
  <2> SUFFICES ASSUME call.pc = "target"
               PROVE  /\ \A l \in Range(stdin') : l.type = "execute" => l.task # call.task
                      /\ ~(exec'.pc # "none" /\ exec'.task = call.task)
                      /\ \A r \in Range(stdout') : r.type # "error" => r.task # call.task
                      /\ \A l \in Range(serving') : l.task # call.task
                      /\ \A c \in Range(pending') : c.type = "resume" => c.task # call.task
    BY <1>0 DEF TargetInv, AgentIsCalls
  <2>1. ~(exec'.pc # "none" /\ exec'.task = call.task)
    BY DEF TargetInv, AgentIsCalls, WorkerMoves, GoesOn, Starts
  <2>2. \A l \in Range(serving') : l.task # call.task
    BY <1>0 DEF TargetInv, AgentIsCalls, ActiveFor
  <2>3. ASSUME NEW r \in Range(stdout'), r.type # "error" PROVE r.task # call.task
    <3>1. CASE r \in Range(stdout)
      BY <2>3, <3>1 DEF TargetInv
    <3>2. ASSUME NEW q \in AtHand, Acknowledges(r, q) PROVE r.task # call.task
      BY <3>2 DEF TargetInv, AtHand, Acknowledges, ActiveFor, AgentIsCalls, Starts
    <3>3. CASE Running /\ r.task = exec.task
      BY <3>3 DEF Running, TargetInv, AgentIsCalls
    <3> QED
      BY <1>3, <2>3, <3>1, <3>2, <3>3 DEF Says
  <2> QED
    BY <1>0, <2>1, <2>2, <2>3 DEF TargetInv
<1>13. AckInv'
  <2> SUFFICES ASSUME call.pc = "acking"
               PROVE  /\ Leads(stdout', Acks(call.id), Results(call.task))
                      /\ exec'.pc # "none" /\ exec'.task = call.task =>
                           \E r \in Range(stdout') : r.type = "ack" /\ r.id = call.id
    BY <1>0 DEF AckInv, AgentIsCalls, Acks, Results
  <2>1. Range(stdout) \subseteq Range(stdout')
    BY <1>1 DEF WorkerMoves
  <2>2. Leads(stdout', Acks(call.id), Results(call.task))
    <3>1. ASSUME NEW r \in Response(Tasks), Says(r)
          PROVE  Leads(stdout', Acks(call.id), Results(call.task))
      <4>1. r \in Results(call.task) => AgentIsCalls
        BY <3>1 DEF Says, Acknowledges, Results, Running, AgentIsCalls
      <4>2. AgentIsCalls => \E d \in Range(stdout) : d \in Acks(call.id)
        BY DEF AckInv, Acks
      <4> QED
        BY <3>1, <4>1, <4>2, LeadsAppend, NumbersTyped DEF AckInv, Says
    <3> QED
      BY <3>1 DEF WorkerMoves, AckInv
  <2>3. ASSUME exec'.pc # "none", exec'.task = call.task
        PROVE  \E r \in Range(stdout') : r.type = "ack" /\ r.id = call.id
    <3>1. CASE GoesOn
      BY <2>1, <2>3, <3>1 DEF GoesOn, AckInv, AgentIsCalls
    <3>2. ASSUME NEW h, Starts(h) PROVE Ack(h) \in Range(stdout') /\ h.id = call.id
      BY <1>1, <1>2, <2>3, <3>2 DEF Starts, ExecInv, Execution
    <3> QED
      BY <1>2, <3>1, <3>2 DEF WorkerMoves
  <2> QED
    BY <2>2, <2>3
<1>14. RestInv'
  <2>1. job'.pc = "pausing" => \A l \in Range(stdin') : l.type = "pause" => l.id <= control'.id
    BY <1>0 DEF RestInv
  <2>2. CASE Calm
    BY <1>0, <2>1, <2>2 DEF RestInv, WorkerMoves, GoesOn, Starts
  <2>3. CASE ~Calm
    <3> SUFFICES ASSUME Calm'
                 PROVE  /\ \A l \in Range(stdin') : l.type # "pause"
                        /\ \A l \in Range(serving') : l.type # "pause"
                        /\ Idle'
      BY <2>1 DEF RestInv
    <3>1. /\ job.pc = "pausing" /\ control.pc = "waiting"
          /\ \E r \in Range(stdout') : r \notin Range(stdout) /\ r.type = "ack" /\ r.id = control.id
      BY <1>0, <2>3 DEF Calm
    <3>2. PICK r \in Range(stdout') : r.type = "ack" /\ r.id = control.id /\ Says(r)
      BY <1>3, <3>1
    <3>4. PICK q \in AtHand : Acknowledges(r, q)
      BY <3>2 DEF Says
    <3>3. q.id = control.id /\ q.type = "pause" /\ Gone(q) /\ Range(serving') = {} /\ Idle'
      BY <3>1, <3>2, <3>4 DEF Acknowledges, AtHand, AskInv, ControlType
    <3> QED
      BY <1>0, <2>1, <3>1, <3>3 DEF Gone
  <2> QED
    BY <2>2, <2>3
<1> QED
  BY <1>5, <1>6, <1>7, <1>8, <1>9, <1>11, <1>12, <1>13, <1>14

LEMMA ReadsMoves ==
  ASSUME Books, NEW types, Reads(types)
  PROVE  /\ Head(stdin) \in Range(stdin) /\ Head(stdin) \in Request(Tasks)
         /\ Head(stdin).type \in types /\ Head(stdin).type \in RequestTypes
         /\ Gone(Head(stdin)) /\ Head(stdin) \in AtHand
         /\ Range(stdin') \subseteq Range(stdin) /\ Ascends(stdin')
         /\ Range(serving) = {} /\ serving = <<>>
<1>1. stdin \in Seq(Request(Tasks)) /\ stdin # <<>> /\ stdin' = Tail(stdin) /\ Ascends(stdin)
  BY NumbersTyped DEF Books, Reads, IdInv
<1>2. Range(stdin) = Range(stdin') \cup {Head(stdin)} /\ Head(stdin) \in Request(Tasks)
  BY <1>1, RangeOfTail
<1>3. Ascends(stdin') /\ Gone(Head(stdin))
  BY <1>1, AscendingTail DEF Gone
<1>4. Range(serving) = {} /\ serving = <<>> /\ Head(stdin).type \in types
  BY RangeOfEmpty DEF Reads
<1> QED
  BY <1>2, <1>3, <1>4 DEF AtHand, Request

(* The request that is being served is ahead of those in the pipe.         *)
LEMMA ServesMoves ==
  ASSUME Books, serving # <<>>, UNCHANGED stdin, serving' = <<>>
  PROVE  /\ serving[1] \in Range(serving) /\ serving[1] \in Request(Tasks)
         /\ serving[1] \in AtHand /\ Gone(serving[1]) /\ serving[1] \notin Range(stdin)
         /\ Range(serving') = {} /\ Range(stdin') \subseteq Range(stdin) /\ Ascends(stdin')
<1>1. serving[1] \in Request(Tasks) /\ Range(serving) = {serving[1]}
  BY ServingType DEF Books, Types, TypeOK
<1>2. Gone(serving[1]) /\ Ascends(stdin')
  BY <1>1 DEF Books, IdInv, Gone
<1>3. serving[1] \notin Range(stdin)
  BY <1>1, Elements DEF Books, IdInv
<1> QED
  BY <1>1, <1>2, <1>3, RangeOfEmpty DEF AtHand

LEMMA WorkerIs ==
  ASSUME Books, Worker \/ WorkerFails
  PROVE  WorkerMoves
<1>0. /\ UNCHANGED <<process, pending, requests, call, control, job, active>>
      /\ Types /\ ExecShape /\ WorkerTypeOK(NoTask, Tasks) /\ Ascends(stdin)
      /\ \A q \in Request(Tasks) : /\ Ack(q) \in Response(Tasks) /\ Ack(q).type = "ack"
                                   /\ Ack(q).id = q.id /\ Ack(q).task = q.task
                                   /\ Error(q) \in Response(Tasks) /\ Error(q).type = "error"
                                   /\ Error(q).task = q.task
  BY ResponsesBuilt DEF Worker, WorkerFails, clientVars, orchestratorVars, memoryVars, Books,
     Types, TypeOK, IdInv, Ack, Error
<1>00. exec.pc # "none" =>
        \A s \in {"succeeded", "failed", "cancelled"} :
          /\ Result(exec, s) \in Response(Tasks) /\ Result(exec, s).type = "result"
          /\ Result(exec, s).task = exec.task
  BY <1>0, ResponsesBuilt DEF Result
<1>r. process = "ready"
  <2>1. serving # <<>> => Range(serving) # {}
    BY <1>0, ServingType
  <2> QED
    BY <2>1 DEF Worker, WorkerFails, PauseGivesUp, BrowserStopFails, Serves, Books, WireInv
<1> USE <1>0, <1>00, <1>r DEF WorkerMoves
<1>1. CASE StartExecution
  <2>1. /\ Head(stdin) \in Range(stdin) /\ Head(stdin).type = "execute" /\ Gone(Head(stdin))
        /\ Range(stdin') \subseteq Range(stdin) /\ Ascends(stdin')
        /\ Head(stdin) \in Request(Tasks) /\ Range(serving) = {} /\ UNCHANGED serving
        /\ stdout' = Append(stdout, Ack(Head(stdin))) /\ Head(stdin) \in AtHand
    BY <1>1, ReadsMoves DEF StartExecution, Emit
  <2>2. Starts(Head(stdin))
    BY <1>1, <2>1 DEF Starts, StartExecution
  <2>3. Acknowledges(Ack(Head(stdin)), Head(stdin))
    BY <2>1, <2>2 DEF Acknowledges
  <2>4. Says(Ack(Head(stdin)))
    BY <2>1, <2>3 DEF Says
  <2> QED
    BY <2>1, <2>2, <2>4 DEF ServesOn
<1>2. CASE RefuseRequest
  <2>1. /\ Head(stdin) \in AtHand /\ Head(stdin) \in Request(Tasks)
        /\ Range(stdin') \subseteq Range(stdin) /\ Ascends(stdin') /\ Range(serving) = {}
        /\ stdout' = Append(stdout, Error(Head(stdin))) /\ UNCHANGED <<serving, exec>>
    BY <1>2, ReadsMoves DEF RefuseRequest, Emit
  <2>2. Says(Error(Head(stdin)))
    BY <2>1 DEF Says
  <2> QED
    BY <2>1, <2>2 DEF ServesOn, GoesOn, Running, Idle
<1>3. CASE ServePause
  <2>1. /\ Head(stdin) \in AtHand /\ Head(stdin) \in Request(Tasks) /\ Gone(Head(stdin))
        /\ Range(stdin') \subseteq Range(stdin) /\ Ascends(stdin') /\ Range(serving) = {}
        /\ Head(stdin).type = "pause" /\ ActiveFor(Head(stdin)) /\ Head(stdin) \in Range(stdin)
    BY <1>3, ReadsMoves DEF ServePause
  <2>2. exec'.pc = exec.pc /\ exec'.id = exec.id /\ exec'.task = exec.task /\ exec.pc # "none"
    BY <1>3, <2>1 DEF ServePause, WorkerTypeOK, ActiveFor
  <2>3. CASE Idle
    <3>1. /\ stdout' = Append(stdout, Ack(Head(stdin))) /\ Range(serving') = {} /\ Idle'
      BY <1>3, <2>1, <2>2, <2>3 DEF ServePause, Emit, Idle
    <3>2. Acknowledges(Ack(Head(stdin)), Head(stdin))
      BY <2>1, <3>1 DEF Acknowledges
    <3>3. Says(Ack(Head(stdin)))
      BY <2>1, <3>1, <3>2 DEF Says
    <3> QED
      BY <2>1, <2>2, <3>1, <3>3 DEF ServesOn, GoesOn, Running
  <2>4. CASE ~Idle
    <3>1. UNCHANGED stdout /\ Range(serving') = {Head(stdin)}
      BY <1>3, <2>4, RangeOfOne DEF ServePause
    <3> QED
      BY <2>1, <2>2, <3>1 DEF ServesOn, GoesOn, Running
  <2> QED
    BY <2>3, <2>4
<1>4. CASE PauseReturns \/ CancelReturns
  <2>1. /\ serving[1] \in AtHand /\ serving[1] \in Request(Tasks) /\ Gone(serving[1])
        /\ serving[1] \notin Range(stdin) /\ Range(serving') = {} /\ UNCHANGED <<stdin, exec>>
        /\ stdout' = Append(stdout, Ack(serving[1])) /\ (serving[1].type = "pause" => Idle)
    BY <1>4, ServesMoves DEF PauseReturns, CancelReturns, Serves, Emit
  <2>2. Acknowledges(Ack(serving[1]), serving[1])
    BY <2>1 DEF Acknowledges, Idle
  <2>3. Says(Ack(serving[1]))
    BY <2>1, <2>2 DEF Says
  <2> QED
    BY <2>1, <2>3 DEF ServesOn, GoesOn, Running, Idle
<1>5. CASE ServeResume
  <2>1. /\ Head(stdin) \in AtHand /\ Head(stdin) \in Request(Tasks) /\ Gone(Head(stdin))
        /\ Range(stdin') \subseteq Range(stdin) /\ Ascends(stdin') /\ Range(serving) = {}
        /\ Head(stdin).type = "resume" /\ ActiveFor(Head(stdin)) /\ UNCHANGED serving
        /\ stdout' = Append(stdout, Ack(Head(stdin)))
    BY <1>5, ReadsMoves DEF ServeResume, Emit
  <2>2. /\ exec'.pc = exec.pc /\ exec'.id = exec.id /\ exec'.task = exec.task
        /\ exec.pc # "none" /\ ~exec'.paused
    BY <1>5, <2>1 DEF ServeResume, WorkerTypeOK, ActiveFor
  <2>3. Acknowledges(Ack(Head(stdin)), Head(stdin))
    BY <2>1 DEF Acknowledges
  <2>4. Says(Ack(Head(stdin)))
    BY <2>1, <2>3 DEF Says
  <2> QED
    BY <2>1, <2>2, <2>4 DEF ServesOn, GoesOn, Running
<1>6. CASE ServeCancel(NoTask)
  <2>1. /\ Head(stdin) \in AtHand /\ Head(stdin) \in Request(Tasks) /\ Gone(Head(stdin))
        /\ Range(stdin') \subseteq Range(stdin) /\ Ascends(stdin') /\ Range(serving) = {}
        /\ Head(stdin).type = "cancel" /\ ActiveFor(Head(stdin)) /\ Head(stdin) \in Range(stdin)
        /\ exec.pc # "none"
    BY <1>6, ReadsMoves DEF ServeCancel, ActiveFor
  <2>2. CASE Running
    <3>1. /\ exec' = [exec EXCEPT !.pc = "closing"] /\ Range(serving') = {Head(stdin)}
          /\ stdout' = Append(stdout, Result(exec, "cancelled"))
      BY <1>6, <2>2, RangeOfOne DEF ServeCancel, Emit, Running
    <3>2. exec'.pc = "closing" /\ exec'.id = exec.id /\ exec'.task = exec.task
      BY <3>1 DEF WorkerTypeOK
    <3>3. Says(Result(exec, "cancelled"))
      BY <2>1, <2>2, <3>1, <3>2 DEF Says, Running
    <3> QED
      BY <2>1, <3>1, <3>2, <3>3 DEF ServesOn, GoesOn, Running, Idle
  <2>3. CASE exec.pc = "closing"
    <3>1. /\ exec' = NoExec(NoTask) /\ UNCHANGED serving
          /\ stdout' = Append(stdout, Ack(Head(stdin)))
      BY <1>6, <2>3 DEF ServeCancel, Emit, Running
    <3>2. exec'.pc = "none" /\ ~exec'.paused
      BY <3>1 DEF NoExec
    <3>3. Acknowledges(Ack(Head(stdin)), Head(stdin))
      BY <2>1, <3>1 DEF Acknowledges
    <3>4. Says(Ack(Head(stdin)))
      BY <2>1, <3>1, <3>3 DEF Says
    <3> QED
      BY <2>1, <3>1, <3>2, <3>4 DEF ServesOn, GoesOn, Running
  <2>4. CASE exec.pc = "dead"
    <3>1. UNCHANGED <<exec, serving>> /\ stdout' = Append(stdout, Error(Head(stdin)))
      BY <1>6, <2>4 DEF ServeCancel, Emit, Running
    <3>2. Says(Error(Head(stdin)))
      BY <2>1, <3>1 DEF Says
    <3> QED
      BY <2>1, <3>1, <3>2 DEF ServesOn, GoesOn, Running, Idle
  <2> QED
    BY <2>1, <2>2, <2>3, <2>4 DEF Running, WorkerTypeOK
<1>7. CASE AgentCreated \/ StepBegins \/ StepEnds \/ BrowserStops(NoTask)
  <2>1. UNCHANGED <<stdin, stdout, serving>>
    BY <1>7 DEF AgentCreated, StepBegins, StepEnds, BrowserStops
  <2>0. Running => \A l \in Range(serving) : l.type # "cancel"
    BY DEF Books, WireInv
  <2>2. CASE BrowserStops(NoTask)
    <3>1. exec'.pc = "none" /\ exec'.paused = FALSE
      BY <2>2 DEF BrowserStops, NoExec
    <3> QED
      BY <2>1, <3>1 DEF ServesOn, GoesOn, Running
  <2>3. CASE AgentCreated \/ StepEnds
    <3>1. /\ exec'.pc = "loop" /\ exec'.id = exec.id /\ exec'.task = exec.task
          /\ exec.pc \in {"start", "step"}
      BY <2>3 DEF AgentCreated, StepEnds, WorkerTypeOK
    <3> QED
      BY <2>0, <2>1, <3>1 DEF ServesOn, GoesOn, Running, Idle
  <2>4. CASE StepBegins
    <3>1. /\ exec'.pc = "step" /\ exec'.id = exec.id /\ exec'.task = exec.task
          /\ exec.pc = "loop"
      BY <2>4 DEF StepBegins, WorkerTypeOK
    <3>2. exec'.paused = exec.paused /\ ~exec.paused
      BY <2>4 DEF StepBegins, WorkerTypeOK
    <3> QED
      BY <2>0, <2>1, <3>1, <3>2 DEF ServesOn, GoesOn, Running
  <2> QED
    BY <1>7, <2>2, <2>3, <2>4
<1>8. CASE ExecutionEnds
  <2>1. PICK s \in {"succeeded", "failed"} : Emit(Result(exec, s))
    BY <1>8 DEF ExecutionEnds
  <2>2. /\ exec.pc # "none" /\ Running /\ exec'.pc = "closing" /\ exec'.id = exec.id
        /\ exec'.task = exec.task /\ UNCHANGED <<stdin, serving>>
    BY <1>8 DEF ExecutionEnds, WorkerTypeOK, Running
  <2>3. Says(Result(exec, s))
    BY <2>1, <2>2 DEF Says, Emit, Running
  <2> QED
    BY <2>2, <2>3 DEF ServesOn, GoesOn, Running, Idle
<1>9. CASE PauseGivesUp
  <2>1. /\ serving[1] \in AtHand /\ serving[1] \in Request(Tasks)
        /\ Range(serving') = {} /\ UNCHANGED <<stdin, exec>>
        /\ stdout' = Append(stdout, Error(serving[1]))
    BY <1>9, ServesMoves DEF PauseGivesUp, Serves, Emit
  <2>2. Says(Error(serving[1]))
    BY <2>1 DEF Says
  <2> QED
    BY <2>1, <2>2 DEF ServesOn, GoesOn, Running, Idle
<1>10. CASE BrowserStopFails
  <2>1. /\ exec.pc # "none" /\ exec'.pc = "dead" /\ exec'.id = exec.id /\ exec'.task = exec.task
        /\ UNCHANGED stdin
    BY <1>10 DEF BrowserStopFails, WorkerTypeOK
  <2>2. CASE Serves("cancel")
    <3>1. /\ serving[1] \in AtHand /\ serving[1] \in Request(Tasks) /\ Range(serving') = {}
          /\ stdout' = Append(stdout, Error(serving[1]))
      BY <1>10, <2>1, <2>2, ServesMoves DEF BrowserStopFails, Serves, Emit
    <3>2. Says(Error(serving[1]))
      BY <3>1 DEF Says
    <3> QED
      BY <2>1, <3>1, <3>2 DEF ServesOn, GoesOn, Running, Idle
  <2>3. CASE ~Serves("cancel")
    <3>1. UNCHANGED <<stdout, serving>>
      BY <1>10, <2>3 DEF BrowserStopFails
    <3> QED
      BY <2>1, <3>1 DEF ServesOn, GoesOn, Running, Idle
  <2> QED
    BY <2>2, <2>3
<1> QED
  BY <1>1, <1>2, <1>3, <1>4, <1>5, <1>6, <1>7, <1>8, <1>9, <1>10
  DEF Worker, WorkerFails, MainLoop, ExecutionRuns

LEMMA WorkerBooks ==
  ASSUME Books, Worker \/ WorkerFails, Types'
  PROVE  Books'
<1>1. WorkerMoves
  BY WorkerIs
<1>2. UNCHANGED <<commandQueue, job, active, epoch, delivered, call, control, pending>>
  BY DEF Worker, WorkerFails, orchestratorVars, memoryVars, leaseVars, clientVars, Fault,
     OneMoreFault
<1>3. Moves
  BY <1>2, OthersMove DEF QueueMoves
<1>4. JobInv' /\ OnceInv'
  BY <1>3, JobMoved, OnceMoved DEF Books
<1>5. GenInv'
  BY <1>2 DEF Books, GenInv
<1> QED
  BY <1>1, <1>3, <1>4, <1>5, MovesTrace, WorkKeeps DEF Books

-----------------------------------------------------------------------------
(* Everything fails.                                                       *)
LEMMA AllFailJoins ==
  ASSUME Books, AllFail
  PROVE  /\ QueueMoves /\ UNCHANGED <<epoch, job, active>>
         /\ \A g \in Range(call'.waiting) : g \in 1..epoch
         /\ \/ call'.pc = "none"
            \/ UNCHANGED call /\ ~Execution
         /\ control'.id = control.id
         /\ control'.pc = IF control.pc = "waiting" THEN "failed" ELSE control.pc
<1>0. /\ Types /\ ClientTypeOK(Tasks) /\ call.waiting \in Seq(Nat)
      /\ control \in [pc : {"none", "waiting", "done", "failed"}, id : Nat]
      /\ <<>> \in Seq(Nat) /\ Range(<<>>) = {}
  BY NumbersTyped, EmptySeq, RangeOfEmpty DEF Books, Types, TypeOK
<1>1. \A g \in Range(call.waiting) : g \in 1..epoch
  BY DEF Books, GenInv
<1>2. PICK q \in InOrder(Resumes) :
        Enqueue(Outcomes((IF Execution THEN call.waiting ELSE <<>>) \o Gens(q), "failed"))
  BY DEF AllFail
<1>3. Gens(q) \in Seq(Nat) /\ \A g \in Range(Gens(q)) : g \in 1..epoch
  BY <1>0, GensType DEF Books, GenInv
<1> DEFINE w == IF Execution THEN call.waiting ELSE <<>>
<1>4. w \in Seq(Nat) /\ \A g \in Range(w) : g \in 1..epoch
  BY <1>0, <1>1
<1> HIDE DEF w
<1>5. w \o Gens(q) \in Seq(Nat) /\ \A g \in Range(w \o Gens(q)) : g \in 1..epoch
  BY <1>3, <1>4, RangeOfConcat
<1>6. Enqueue(Outcomes(w \o Gens(q), "failed"))
  BY <1>2 DEF w
<1>7. QueueMoves /\ UNCHANGED <<epoch, job, active>>
  BY <1>5, <1>6, OutcomesJoin
<1>8. /\ call' = IF Execution THEN NoCall ELSE call
      /\ control' = IF control.pc = "waiting" THEN [control EXCEPT !.pc = "failed"] ELSE control
  BY DEF AllFail
<1>9. NoCall.pc = "none" /\ Range(NoCall.waiting) = {}
  BY <1>0 DEF NoCall
<1>10. /\ control'.id = control.id
       /\ control'.pc = IF control.pc = "waiting" THEN "failed" ELSE control.pc
  BY <1>0, <1>8
<1> QED
  BY <1>1, <1>7, <1>8, <1>9, <1>10

LEMMA InvalidBooks ==
  ASSUME Books, InvalidLine, Types'
  PROVE  Books' /\ Hears
<1>1. /\ UNCHANGED <<process, requests, stdin, stdout, serving, exec, delivered>>
      /\ pending' = <<>> /\ Range(pending') = {} /\ Ascends(pending') /\ AllFail
  BY RangeOfEmpty DEF InvalidLine, workerVars, Abandon, OneMoreFault, Ascends
<1>2. Execution \/ \A c \in Range(pending) : c.type # "execute"
  BY DEF Books, CallInv, Execution
<1>3. control'.id = control.id /\ (control.pc # "waiting" => UNCHANGED control)
  BY <1>1, AllFailJoins DEF AllFail
<1>4. Hears
  BY <1>1, <1>2, <1>3, AllFailJoins DEF Hears
<1> QED
  BY <1>1, <1>4, AllFailJoins, HearingBooks

(* The process dies, or cannot be spawned, and all that was asked of it    *)
(* fails: the pipes are empty and no execution is left.                    *)
Breaks == ProcessDies \/ SpawnError \/ StartRejects

LEMMA BreaksLeaves ==
  ASSUME Books, Breaks
  PROVE  /\ process' # "ready" /\ UNCHANGED <<requests, delivered, abandoned, achieved>>
         /\ AllFail
         /\ Range(pending') = {} /\ Ascends(pending') /\ Range(stdin') = {} /\ Ascends(stdin')
         /\ Range(stdout') = {} /\ Range(serving') = {} /\ exec'.pc = "none"
<1>1. CASE ProcessDies
  BY <1>1, RangeOfEmpty
  DEF ProcessDies, ProcessGone, WorkerExits, Fault, OneMoreFault, Ascends, NoExec
<1>2. CASE SpawnError \/ StartRejects
  <2>1. /\ process # "ready" /\ process' # "ready" /\ pending' = <<>> /\ AllFail
        /\ UNCHANGED <<requests, stdin, stdout, serving, exec, delivered, abandoned, achieved>>
    BY <1>2 DEF SpawnError, StartRejects, SpawnFails, StartRejected, Fault, OneMoreFault,
       workerVars, worldVars
  <2>2. /\ Range(stdin) = {} /\ Range(stdout) = {} /\ Range(serving) = {}
        /\ exec.pc = "none" /\ Ascends(stdin)
    BY <2>1 DEF Books, WireInv, IdInv
  <2> QED
    BY <2>1, <2>2, RangeOfEmpty DEF Ascends
<1> QED
  BY <1>1, <1>2 DEF Breaks

LEMMA BreaksBooks ==
  ASSUME Books, Breaks, Types'
  PROVE  Books'
<1>1. /\ process' # "ready" /\ UNCHANGED <<requests, delivered>> /\ AllFail
      /\ Range(pending') = {} /\ Ascends(pending') /\ Range(stdin') = {} /\ Ascends(stdin')
      /\ Range(stdout') = {} /\ Range(serving') = {} /\ exec'.pc = "none"
  BY BreaksLeaves
<1>3. Moves
  BY <1>1, AllFailJoins, OthersMove DEF AllFail
<1>4. JobInv' /\ OnceInv' /\ GenInv' /\ Traces
  <2>1. UNCHANGED epoch /\ \A g \in Range(call'.waiting) : g \in 1..epoch'
    BY <1>1, AllFailJoins
  <2> QED
    BY <1>1, <1>3, <2>1, JobMoved, OnceMoved, GensMoved, GenTyped, MovesTrace DEF Books
<1> USE AllFailJoins, <1>1 DEF Books
<1>5. TraceInv'
  BY <1>4 DEF Traces, TraceInv
<1>6. WireInv'
  BY DEF WireInv
<1>7. IdInv'
  BY DEF IdInv
<1>8. CallInv'
  BY DEF CallInv, Execution
<1>9. AskInv'
  BY DEF AskInv
<1>10. ExecInv'
  BY DEF ExecInv, AgentIsCalls, Running
<1>11. TargetInv'
  BY DEF TargetInv, AgentIsCalls
<1>12. AckInv'
  BY DEF AckInv, Execution
<1>13. RestInv'
  BY DEF RestInv, Calm, Idle
<1> QED
  BY <1>4, <1>5, <1>6, <1>7, <1>8, <1>9, <1>10, <1>11, <1>12, <1>13

-----------------------------------------------------------------------------
LEMMA BooksInit ==
  Init => Books
<1> SUFFICES ASSUME Init PROVE Books
  OBVIOUS
<1>0. /\ Range(pending) = {} /\ Range(stdin) = {} /\ Range(stdout) = {} /\ Range(serving) = {}
      /\ Range(commandQueue) = {} /\ Range(call.waiting) = {} /\ DOMAIN commandQueue = {}
      /\ pending = <<>> /\ stdin = <<>> /\ stdout = <<>> /\ serving = <<>> /\ commandQueue = <<>>
      /\ job.pc = "free" /\ control.pc = "none" /\ control.id = 0 /\ requests = 0
      /\ active = NoActive /\ active.gen = 0 /\ epoch = 0 /\ process = "none"
      /\ call.pc = "none" /\ exec = NoExec(NoTask) /\ exec.pc = "none" /\ lease = NoLease
  BY RangeOfEmpty, EmptySeq
  DEF Init, OrchestratorInit, LeaseInit, WorkerInit, ClientInit, NoCall, NoControl, NoJob,
      NoActive, NoExec
<1>1. OrchestratorTypeOK
  <2>1. lease \in Lease \cup {NoLease} /\ epoch \in Nat /\ commandQueue \in Seq(Op)
    BY <1>0, EmptySeq
  <2>2. job \in [pc : JobPcs, cmd : Commands \cup {NoCommand}]
    BY DEF Init, OrchestratorInit, NoJob, JobPcs
  <2>3. active \in ActiveTask \cup {NoActive} /\ frames \in Tasks \cup {NoTask}
    BY <1>0 DEF Init, OrchestratorInit
  <2>4. /\ receipts \in [Commands -> {"none", "processing", "accepted", "rejected"}]
        /\ checkpoints \in [Tasks -> TaskStates] /\ records \in [Tasks -> TaskStates]
    BY DEF Init, OrchestratorInit, TaskStates
  <2> QED
    BY <1>0, <2>1, <2>2, <2>3, <2>4 DEF OrchestratorTypeOK, LeaseTypeOK
<1>2. PipeTypeOK
  <2>1. WorkerTypeOK(NoTask, Tasks)
    BY <1>0, EmptySeq, AgentStepsAssumption DEF WorkerTypeOK, NoExec
  <2>2. ClientTypeOK(Tasks)
    BY <1>0, EmptySeq DEF ClientTypeOK
  <2> QED
    BY <1>0, <2>1, <2>2 DEF PipeTypeOK, ExecShape
<1>3. AdapterTypeOK /\ CallShape
  BY <1>0, EmptySeq DEF Init, NoCall, NoControl, AdapterTypeOK, CallShape
<1>4. WorldTypeOK
  <2>1. 0 \in 0..MaxFaults
    BY SidecarBoundsAssumption
  <2>2. /\ delivered = {} /\ faults = 0 /\ abandoned = FALSE /\ achieved = {}
    BY DEF Init
  <2> QED
    BY <2>1, <2>2 DEF WorldTypeOK
<1>5. Types
  BY <1>1, <1>2, <1>3, <1>4, TypeParts
<1>6. Ascends(pending) /\ Ascends(stdin)
  BY <1>0 DEF Ascends
<1>7. JobInv /\ GenInv /\ OnceInv
  BY <1>0 DEF JobInv, GenInv, OnceInv
<1>8. TraceInv /\ WireInv /\ CallInv /\ AskInv
  BY <1>0 DEF TraceInv, WireInv, CallInv, AskInv
<1>9. IdInv
  BY <1>0, <1>6 DEF IdInv
<1>10. ExecInv /\ TargetInv /\ AckInv /\ RestInv
  BY <1>0 DEF ExecInv, TargetInv, AckInv, RestInv, Running, AgentIsCalls, Calm
<1> QED
  BY <1>5, <1>7, <1>8, <1>9, <1>10 DEF Books

LEMMA BooksKept ==
  Books /\ [Next]_vars => Books'
<1> SUFFICES ASSUME Books, [Next]_vars PROVE Books'
  OBVIOUS
<1>0. /\ Types
      /\ \A c \in Range(pending) : c.type = "execute" => call.pc = "acking"
  BY DEF Books, CallInv
<1>1. CASE \E c \in Commands : Deliver(c)
  BY <1>1, DeliverBooks
<1>2. CASE Orchestrate \/ OrchestrateFaulty
  BY <1>2, OrchestrateBooks
<1>3. CASE Worker
  BY <1>0, <1>3, WorkerType, WorkerBooks
<1>4. CASE Client
  <2>1. Types'
    BY <1>0, <1>4, ClientType
  <2>2. ASSUME RequestTimesOut PROVE Books'
    <3>1. PICK i \in DOMAIN pending : GivesUp(i)
      BY <2>2 DEF RequestTimesOut
    <3>2. delivered' = delivered
      BY <2>2 DEF RequestTimesOut, worldVars
    <3> QED
      BY <2>1, <3>1, <3>2, GivesUpBooks
  <2> QED
    BY <1>4, <2>1, <2>2, TargetBooks, ReadyBooks, BreaksBooks, ResultBooks, AckBooks,
       DroppedBooks
    DEF Client, ReadsLine, Breaks
<1>5. CASE Failure
  <2>1. Types'
    BY <1>0, <1>5, FailureType
  <2>2. ASSUME AnsweredTooLate PROVE Books'
    <3>1. PICK i \in DOMAIN pending : GivesUp(i)
      BY <2>2 DEF AnsweredTooLate
    <3>2. delivered' = delivered
      BY <2>2 DEF AnsweredTooLate, Abandon, OneMoreFault
    <3> QED
      BY <2>1, <3>1, <3>2, GivesUpBooks
  <2> QED
    BY <1>5, <2>1, <2>2, TargetBooks, BreaksBooks, InvalidBooks, WorkerBooks
    DEF Failure, Breaks
<1>6. CASE UNCHANGED vars
  <2>1. UNCHANGED <<lease, epoch, commandQueue, job, active, frames, receipts, checkpoints,
                    records, process, pending, requests, stdin, stdout, serving, exec, call,
                    control, delivered, faults, abandoned, achieved>>
    BY <1>6 DEF vars, orchestratorVars, sidecarVars, worldVars, leaseVars, memoryVars, diskVars,
       clientVars, workerVars
  <2>2. Types'
    <3>1. /\ UNCHANGED orchestratorVars /\ UNCHANGED <<clientVars, workerVars>>
          /\ UNCHANGED <<call, control>> /\ UNCHANGED worldVars
      BY <1>6 DEF vars, sidecarVars
    <3> QED
      BY <1>0, <3>1, TypeParts, TypePartsNext, OrchestratorKept, PipeKept, AdapterKept, WorldKept
  <2>3. Hears
    BY <2>1 DEF Hears, Books, IdInv
  <2> QED
    BY <2>1, <2>2, <2>3, HearingBooks DEF QueueMoves, Books, GenInv
<1> QED
  BY <1>1, <1>2, <1>3, <1>4, <1>5, <1>6 DEF Next

(* Books holds at every step.                                              *)
THEOREM BooksHold == Spec => []Books
<1>1. Init => Books
  BY BooksInit
<1>2. Books /\ [Next]_vars => Books'
  BY BooksKept
<1> QED
  BY <1>1, <1>2, PTL DEF Spec

(* Every variable keeps its type: no task without an execution is asked    *)
(* for, and every line in the pipes names a task and a request.            *)
THEOREM SidecarTypesHold == Spec => []TypeOK
<1>1. Books => TypeOK
  BY DEF Books, Types
<1> QED
  BY <1>1, BooksHold, PTL

(* The human is given the page by a takeover whose pause the worker has    *)
(* acknowledged (task-orchestrator.ts awaits executor.pause() before it    *)
(* transfers the lease): then an agent that was asked to pause is between  *)
(* two steps, whatever else was in the pipes.                              *)
THEOREM HandoverIsAtRest == Spec => HandoverAtRest
<1> DEFINE Gives == lease.holder # "human" /\ lease'.holder = "human"
<1>1. ASSUME Books, [Next]_vars, Gives, exec.paused PROVE Idle
  <2>0. NoLease.holder # "human" /\ Kind # "human"
    BY DEF NoLease, Kind
  <2>1. CASE UNCHANGED lease
    BY <1>1, <2>1
  <2>2. CASE (TakeoverCompletes \/ TakeoverHalfDone) /\ control.pc = "done"
    <3>1. Calm
      BY <2>2 DEF TakeoverCompletes, TakeoverHalfDone, Calm
    <3> QED
      BY <1>1, <3>1 DEF Books, RestInv
  <2>3. CASE StartTask \/ ResumeTask
    <3>1. \E t : lease' = CreateLease(t, Kind)
      BY <2>3 DEF StartTask, ResumeTask, StartLaunches, ResumeSucceeds, Acquire, ResumeAfterHuman,
         Grant
    <3>2. lease'.holder = Kind
      BY <3>1 DEF CreateLease
    <3> QED
      BY <1>1, <2>0, <3>2
  <2>4. ASSUME NEW e, Release(e) PROVE FALSE
    BY <1>1, <2>0, <2>4 DEF Release
  <2>5. ASSUME Orchestrate \/ OrchestrateFaulty
        PROVE  \/ UNCHANGED lease \/ StartTask \/ ResumeTask \/ \E e : Release(e)
               \/ (TakeoverCompletes \/ TakeoverHalfDone) /\ control.pc = "done"
    <3>1. CASE Orchestrate
      <4>1. CASE Command
        BY <4>1 DEF Command, Begin, Reply, StartRefused, StartNavigates, ControlRefused,
           ResumeRefused, CancelCompletes, DecisionRefused, OutcomeIgnored, OutcomeRecorded,
           Throws, leaseVars
      <4>2. CASE PauseTask \/ CancelTask
        BY <4>2 DEF PauseTask, CancelTask, PauseBegins, CancelBegins, Throws, orchestratorVars,
           leaseVars
      <4>3. CASE ControlReturns \/ ControlThrows
        BY <4>3 DEF ControlReturns, ControlThrows, PauseCompletes, TakeoverRefused, CancelBegins,
           Throws, leaseVars
      <4> QED
        BY <3>1, <4>1, <4>2, <4>3 DEF Orchestrate
    <3>2. CASE OrchestrateFaulty
      BY <3>2 DEF OrchestrateFaulty, StartInadmissible, StartFails, ResumeRefused,
         CancelProbeFails, OutcomeProbeFails, PauseProbeFails, TakeoverRefused, Throws, leaseVars
    <3> QED
      BY <2>5, <3>1, <3>2
  <2>6. ASSUME \/ \E c \in Commands : Deliver(c)
               \/ Worker \/ Client \/ Failure \/ UNCHANGED vars
        PROVE  UNCHANGED lease
    <3>1. UNCHANGED orchestratorVars => UNCHANGED lease
      BY DEF orchestratorVars, leaseVars
    <3>2. \A ops : Enqueue(ops) => UNCHANGED lease
      BY DEF Enqueue, leaseVars
    <3>3. \A i \in DOMAIN pending : pending[i].type \in RequestTypes
      <4>1. \A i \in DOMAIN pending : pending[i] \in Call(Tasks)
        BY <1>1, NumbersTyped DEF Books
      <4> QED
        BY <4>1 DEF Call
    <3>4. ASSUME NEW i \in DOMAIN pending, GivesUp(i) PROVE UNCHANGED lease
      BY <3>1, <3>2, <3>3, <3>4 DEF GivesUp, Settle, RequestTypes
    <3>5. ASSUME NEW i \in DOMAIN pending, Acknowledged(pending[i]) PROVE UNCHANGED lease
      BY <3>1, <3>3, <3>5 DEF Acknowledged, RequestTypes
    <3>6. CASE \E c \in Commands : Deliver(c)
      BY <3>6 DEF Deliver, Handle, leaseVars
    <3>7. CASE Client
      BY <3>1, <3>2, <3>4, <3>5, <3>7 DEF Client, TargetKnown, ProcessReady, ReadsLine,
         RequestTimesOut, StartRejects, AllFail, ResultArrives, AckArrives, LineDropped, Settle
    <3>8. CASE Failure
      BY <3>1, <3>2, <3>4, <3>8 DEF Failure, TargetUnknown, AnsweredTooLate, ProcessDies,
         SpawnError, InvalidLine, WorkerFails, AllFail
    <3> QED
      BY <2>6, <3>1, <3>6, <3>7, <3>8 DEF Worker, vars
  <2> QED
    BY <1>1, <2>1, <2>2, <2>3, <2>4, <2>5, <2>6 DEF Next
<1>2. Books /\ [Next]_vars => [Gives /\ exec.paused => Idle]_vars
  BY <1>1
<1> QED
  BY <1>2, BooksHold, PTL DEF Spec, HandoverAtRest

=============================================================================
