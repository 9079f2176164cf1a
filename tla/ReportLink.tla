----------------------------- MODULE ReportLink -----------------------------
(***************************************************************************)
(* How the control plane learns what a Desktop does: the reports of        *)
(* DesktopTaskOrchestrator go through the outbox in SQLite and             *)
(* AgentRealtimeClient to RealtimeHub, whose listener, TaskCoordinator,    *)
(* writes the state of the task; the other way go the commands of          *)
(* TaskCoordinator.                                                        *)
(*                                                                         *)
(* Of the orchestrator the module keeps what it does to the link: one      *)
(* active task, one operation at a time, TASK_EVENT reports.  The other    *)
(* reports take the same way and the coordinator ignores them.             *)
(*                                                                         *)
(* A report is its number in `made': reportId is a random UUID.            *)
(***************************************************************************)
EXTENDS DeviceSession, FiniteSets, Bags

CONSTANTS
  Tasks,
  NoTask,
  FlushLimit,       (* listOutbox(100)                                      *)
  MaxReports,       (* bounds on what the world does                        *)
  MaxCancels,
  MaxCrashes,
  MaxFaults

ASSUME LinkAssumption ==
  /\ NoTask \notin Tasks
  /\ {FlushLimit, MaxBreaks, MaxReports, MaxCancels, MaxCrashes, MaxFaults} \subseteq Nat

VARIABLES
  made,         (* every report, in the order the Desktop made them         *)
  outbox,       (* the outbox table in memory                               *)
  disk,         (* the outbox table in the file                             *)
  writes,       (* persist: images of the table still to be written         *)
  reportSequence,
  active,       (* the orchestrator's active task                           *)
  orders,       (* commands waiting in the orchestrator's queue             *)
  calls,        (* planAndDispatch: tasks saved and not yet dispatched      *)
  tasks,        (* the control plane's task table: state, and by what       *)
  updates,      (* updateState calls under way                              *)
  handled,      (* reports a message handler of the hub has processed       *)
  applied,      (* reports whose update has been written                    *)
  cancels, crashes, faults

desktopVars == <<made, outbox, disk, writes, reportSequence, active, orders>>
serverVars  == <<calls, tasks, updates, handled, applied>>
countVars   == <<cancels, crashes, faults>>
vars == <<sessionVars, desktopVars, serverVars, countVars>>

EventStates   == {"WAITING_APPROVAL_SUBMIT"}
OutcomeStates == {"SUCCEEDED"}
ServerStates  == {"none", "WAITING_DEVICE", "CANCELLED"} \cup EventStates \cup OutcomeStates

Reports == 1..Len(made)
Report  == [task : Tasks, state : EventStates \cup OutcomeStates, seq : Nat, boot : Nat]
Order   == [kind : {"start", "cancel"}, task : Tasks]
Ack(n)  == [kind |-> "ack", report |-> n]
(* An update by report n, or by dispatchControl (n = 0).                   *)
Update  == [task : Tasks, state : ServerStates, by : Nat]

LinkTypeOK ==
  /\ SessionTypeOK(Reports, {Hello} \cup Order \cup {Ack(n) : n \in Reports})
  /\ made \in Seq(Report)
  /\ outbox \subseteq Reports /\ disk \subseteq Reports
  /\ writes \in Seq([rows : SUBSET Reports, report : 0..Len(made)])
  /\ reportSequence \in Nat
  /\ active \in Tasks \cup {NoTask}
  /\ orders \in Seq(Order)
  /\ calls \subseteq Tasks
  /\ tasks \in [Tasks -> [state : ServerStates, by : 0..Len(made)]]
  /\ BagToSet(updates) \subseteq Update
  /\ handled \subseteq Reports /\ applied \subseteq handled

Init ==
  /\ SessionInit
  /\ made = <<>> /\ outbox = {} /\ disk = {} /\ writes = <<>>
  /\ reportSequence = 0 /\ active = NoTask /\ orders = <<>>
  /\ calls = {}
  /\ tasks = [t \in Tasks |-> [state |-> "none", by |-> 0]]
  /\ updates = EmptyBag
  /\ handled = {} /\ applied = {}
  /\ cancels = 0 /\ crashes = 0 /\ faults = 0

-----------------------------------------------------------------------------
(* The Desktop's database.                                                 *)

(* The image of the table is taken when persist is called; images reach    *)
(* the file one after the other.                                           *)
Persist(rows, n) ==
  /\ outbox' = rows
  /\ writes' = Append(writes, [rows |-> rows, report |-> n])

(* Mutant: rows in any order.                                              *)
ListedUnsorted(rows, q) ==
  /\ q \in [1..Cardinality(rows) -> rows]
  /\ \A i, j \in DOMAIN q : i < j => q[i] # q[j]

(* listOutbox: by sequence; SQL leaves the order of equal ones open.       *)
Listed(rows, q) ==
  /\ q \in [1..Cardinality(rows) -> rows]
  /\ \A i, j \in DOMAIN q : i < j => q[i] # q[j] /\ made[q[i]].seq <= made[q[j]].seq

Limited(q) == SubSeq(q, 1, IF Len(q) < FlushLimit THEN Len(q) ELSE FlushLimit)

(* The rows flushOutbox sends, in order.                                   *)
Flushes(rows) ==
  {Limited(q) : q \in {p \in [1..Cardinality(rows) -> rows] : Listed(rows, p)}}

-----------------------------------------------------------------------------
(* The Desktop's orchestrator and client.                                  *)

(* sendReport of the orchestrator is awaited: nothing else is served.      *)
Busy == \E i \in DOMAIN writes : writes[i].report # 0

SendReport(t, s) ==
  /\ Len(made) < MaxReports
  /\ reportSequence' = reportSequence + 1
  /\ made' = Append(made, [task |-> t, state |-> s, seq |-> reportSequence + 1,
                           boot |-> crashes])
  /\ Persist(outbox \cup {Len(made) + 1}, Len(made) + 1)

(* emitEvent and finishExecution: an event of the active task, or its end. *)
TaskEvent ==
  /\ active # NoTask /\ ~Busy
  /\ \E s \in EventStates \cup OutcomeStates : SendReport(active, s)
  /\ UNCHANGED <<sessionVars, disk, active, orders, serverVars, countVars>>

(* Mutant: a report that could be sent need not be kept.                   *)
WrittenForgets ==
  /\ writes # <<>>
  /\ LET w == Head(writes)
         sent == IF authed /\ w.report # 0 THEN {w.report} ELSE {} IN
       /\ disk' = w.rows \ sent
       /\ outbox' = outbox \ sent
       /\ writes' = Tail(writes)
       /\ up' = IF w.report # 0 THEN Up(<<w.report>>) ELSE up
       /\ active' = IF w.report # 0 /\ made[w.report].state \in OutcomeStates
                      THEN NoTask ELSE active
  /\ UNCHANGED <<conns, agentConn, authed, verifying, serverOpen, peer, broken, down,
                 breaks, made, reportSequence, orders, serverVars, countVars>>

(* The file is written.  After its report's image sendReport sends the     *)
(* report, if it can; finishExecution then clears the active task.         *)
Written ==
  /\ writes # <<>>
  /\ LET w == Head(writes) IN
       /\ disk' = w.rows
       /\ writes' = Tail(writes)
       /\ up' = IF w.report # 0 THEN Up(<<w.report>>) ELSE up
       /\ active' = IF w.report # 0 /\ made[w.report].state \in OutcomeStates
                      THEN NoTask ELSE active
  /\ UNCHANGED <<conns, agentConn, authed, verifying, serverOpen, peer, broken, down,
                 breaks, made, outbox, reportSequence, orders, serverVars, countVars>>

(* startTask, which may refuse, and CANCEL_TASK, which makes no TASK_EVENT. *)
ServeOrder ==
  /\ orders # <<>> /\ ~Busy
  /\ orders' = Tail(orders)
  /\ LET o == Head(orders) IN
       \/ o.kind = "start" /\ active = NoTask /\ active' = o.task
       \/ o.kind = "start" /\ UNCHANGED active
       \/ o.kind = "cancel" /\ active' = IF active = o.task THEN NoTask ELSE active
  /\ UNCHANGED <<sessionVars, made, outbox, disk, writes, reportSequence, serverVars,
                 countVars>>

(* Mutant: nothing is flushed on reconnection.                             *)
ReceiveHelloOnly == authed' = TRUE /\ UNCHANGED <<up, outbox, writes, orders>>

(* The messages the client receives.                                       *)
ReceiveHello ==
  /\ authed' = TRUE
  /\ \E q \in Flushes(outbox) :
       up' = IF agentConn \in serverOpen THEN [up EXCEPT ![agentConn] = @ \o q] ELSE up
  /\ UNCHANGED <<outbox, writes, orders>>

ReceiveAck(n) ==
  /\ Persist(outbox \ {n}, 0)
  /\ UNCHANGED <<authed, up, orders>>

ReceiveOrder(o) ==
  /\ orders' = Append(orders, o)
  /\ UNCHANGED <<authed, up, outbox, writes>>

AgentReceives ==
  /\ down # <<>>
  /\ down' = Tail(down)
  /\ LET m == Head(down) IN
       \/ m.kind = "hello" /\ ReceiveHello
       \/ m.kind = "ack" /\ ReceiveAck(m.report)
       \/ m.kind \in {"start", "cancel"} /\ ReceiveOrder(m)
  /\ UNCHANGED <<conns, agentConn, verifying, serverOpen, peer, broken, breaks, made, disk,
                 reportSequence, active, serverVars, countVars>>

(* The Desktop crashes and starts again: what is not in the file is gone,  *)
(* and reportSequence begins anew.                                         *)
Crash ==
  /\ crashes < MaxCrashes
  /\ crashes' = crashes + 1
  /\ outbox' = disk
  /\ writes' = <<>>
  /\ reportSequence' = 0
  /\ active' = NoTask
  /\ orders' = <<>>
  /\ agentConn' = 0
  /\ authed' = FALSE
  /\ down' = <<>>
  /\ broken' = broken \cup ({agentConn} \ {0})
  /\ UNCHANGED <<conns, verifying, serverOpen, peer, up, breaks, made, disk, serverVars,
                 cancels, faults>>

-----------------------------------------------------------------------------
(* The control plane.                                                      *)

Write(t, s, n) == updates (+) SetToBag({[task |-> t, state |-> s, by |-> n]})

(* The hub's message handler: the coordinator's listener starts an         *)
(* updateState nobody waits for, and the report is acknowledged.           *)
ServerReceives(c) ==
  /\ c \in serverOpen /\ up[c] # <<>>
  /\ LET n == Head(up[c]) IN
       /\ up' = [up EXCEPT ![c] = Tail(@)]
       /\ handled' = handled \cup {n}
       /\ updates' = Write(made[n].task, made[n].state, n)
       /\ down' = DownOn(c, Ack(n))
  /\ UNCHANGED <<conns, agentConn, authed, verifying, serverOpen, peer, broken, breaks,
                 desktopVars, calls, tasks, applied, countVars>>

(* updateState.  Updates run in the database side by side; one of a task   *)
(* that is not there changes nothing.                                      *)
UpdateState ==
  \E u \in BagToSet(updates) :
    /\ updates' = updates (-) SetToBag({u})
    /\ tasks' = IF tasks[u.task].state = "none" THEN tasks
                ELSE [tasks EXCEPT ![u.task] = [state |-> u.state, by |-> u.by]]
    /\ applied' = applied \cup ({u.by} \ {0})
    /\ UNCHANGED <<sessionVars, desktopVars, calls, handled, countVars>>

(* updateState fails: task_state_persistence_failed is logged.             *)
UpdateFails ==
  /\ faults < MaxFaults
  /\ faults' = faults + 1
  /\ \E u \in BagToSet(updates) : updates' = updates (-) SetToBag({u})
  /\ UNCHANGED <<sessionVars, desktopVars, calls, tasks, handled, applied, cancels, crashes>>

(* Mutant: the task is dispatched while it is being saved.                 *)
RegisterLater(t) ==
  /\ tasks[t].state = "none"
  /\ calls' = calls \cup {t}
  /\ UNCHANGED <<sessionVars, desktopVars, tasks, updates, handled, applied, countVars>>

(* register: the task is saved before anything is sent.                    *)
Register(t) ==
  /\ tasks[t].state = "none"
  /\ tasks' = [tasks EXCEPT ![t] = [state |-> "WAITING_DEVICE", by |-> 0]]
  /\ calls' = calls \cup {t}
  /\ UNCHANGED <<sessionVars, desktopVars, updates, handled, applied, countVars>>

Online  == peer \in serverOpen
Offline == peer \notin serverOpen \ broken

(* dispatch, of planAndDispatch: START_TASK, or NotFoundError.             *)
DispatchStart(t) ==
  /\ t \in calls
  /\ calls' = calls \ {t}
  /\ \/ Online /\ down' = DownOn(peer, [kind |-> "start", task |-> t])
     \/ Offline /\ UNCHANGED down
  /\ UNCHANGED <<conns, agentConn, authed, verifying, serverOpen, peer, broken, up, breaks,
                 desktopVars, tasks, updates, handled, applied, countVars>>

(* dispatchControl, CANCEL_TASK: sent, then written as CANCELLED whatever  *)
(* becomes of it.  If the device is offline nothing happens.               *)
DispatchCancel(t) ==
  /\ cancels < MaxCancels
  /\ cancels' = cancels + 1
  /\ tasks[t].state # "none"
  /\ Online
  /\ down' = DownOn(peer, [kind |-> "cancel", task |-> t])
  /\ updates' = Write(t, "CANCELLED", 0)
  /\ UNCHANGED <<conns, agentConn, authed, verifying, serverOpen, peer, broken, up, breaks,
                 desktopVars, calls, tasks, handled, applied, crashes, faults>>

-----------------------------------------------------------------------------
Link == Session /\ UNCHANGED <<desktopVars, serverVars, countVars>>

Next ==
  \/ Link
  \/ TaskEvent
  \/ Written
  \/ ServeOrder
  \/ AgentReceives
  \/ Crash
  \/ \E c \in 1..conns : ServerReceives(c)
  \/ UpdateState
  \/ UpdateFails
  \/ \E t \in Tasks : Register(t) \/ DispatchStart(t) \/ DispatchCancel(t)

Spec == Init /\ [][Next]_vars

(* The Desktop keeps reconnecting and notices that its socket is broken (it *)
(* writes heartbeats, and the system ends a socket whose bytes nobody takes), *)
(* verification of a token ends, messages on a socket that is not broken    *)
(* arrive, and files get written.  That the server ever notices a broken    *)
(* socket by itself is not assumed: it sends no heartbeats.                 *)
Fairness ==
  /\ WF_vars(Connect /\ UNCHANGED <<desktopVars, serverVars, countVars>>)
  /\ WF_vars(AgentCloses /\ UNCHANGED <<desktopVars, serverVars, countVars>>)
  /\ WF_vars(\E c \in 1..conns : Verified(c)
               /\ UNCHANGED <<desktopVars, serverVars, countVars>>)
  /\ WF_vars(AgentReceives)
  /\ WF_vars(agentConn \notin broken \cup {0} /\ ServerReceives(agentConn))
  /\ WF_vars(Written)

FairSpec == Spec /\ Fairness

-----------------------------------------------------------------------------
(* Safety.                                                                 *)

(* A report leaves the outbox of the Desktop only after the control plane  *)
(* has processed it: no crash, reconnection or late acknowledgement makes  *)
(* the Desktop forget a report that has reached its file.                  *)
RowsLeaveHandled ==
  [][\A n \in disk \ disk' : n \in handled]_vars

(* The control plane sees the reports of one life of the Desktop for the   *)
(* first time in the order they were made, across reconnections and with   *)
(* duplicates from connections given up (if FlushLimit is not exceeded).   *)
FirstInOrder ==
  \A n \in handled : \A m \in 1..n :
    made[m].boot = made[n].boot => m \in handled

(* A report finds its task in the control plane's table: the task is saved *)
(* before the command that makes the Desktop work on it can be received.   *)
ReportsFindTheirTask ==
  \A n \in Reports : tasks[made[n].task].state # "none"

(* Liveness, under FairSpec.                                               *)

(* Every report that has reached the Desktop's file leaves it again, once  *)
(* the connection stays up: with RowsLeaveHandled, it is processed.        *)
OutboxDrains == \A n \in 1..MaxReports : n \in disk ~> n \notin disk

(* In the end the device is reachable: the registry's session is that of   *)
(* the Desktop's authenticated connection, whatever order old and new      *)
(* connections were verified, replaced and closed in.                      *)
DeviceIsReachable == <>[](authed /\ peer = agentConn)

-----------------------------------------------------------------------------
(* Why rows leave handled: an inductive invariant, in parts.               *)

(* The images of the table that are or will be in the file.                *)
Image == [rows : SUBSET Nat, report : Nat]

(* An acknowledgement on its way is of a report that has been processed.   *)
DownMsg == {Hello} \cup Order \cup {Ack(n) : n \in handled}

KeepTypeOK ==
  /\ made \in Seq(Report)
  /\ reportSequence \in Nat /\ crashes \in Nat
  /\ active \in Tasks \cup {NoTask}
  /\ orders \in Seq(Order)
  /\ outbox \in SUBSET Nat /\ disk \in SUBSET Nat
  /\ writes \in Seq(Image)
  /\ down \in Seq(DownMsg)

(* What an older image holds a later one holds, unless it is handled; the  *)
(* file is the oldest image, the table in memory the latest.               *)
Kept(older, later) == older \subseteq later \cup handled

KeepInv ==
  /\ KeepTypeOK
  /\ Kept(disk, outbox)
  /\ \A i \in 1..Len(writes) : Kept(disk, writes[i].rows) /\ Kept(writes[i].rows, outbox)
  /\ \A i, j \in 1..Len(writes) : i < j => Kept(writes[i].rows, writes[j].rows)

-----------------------------------------------------------------------------
(* What a document says and the code does not do.                          *)

(* "Duplicate events are handled idempotently": a report whose update has  *)
(* been written already does not change the state of its task.             *)
DuplicatesChangeNothing ==
  [][\A t \in Tasks :
       tasks'[t].by \in applied => tasks'[t].state = tasks[t].state]_vars

=============================================================================
