--------------------------- MODULE ReportLinkProofs ---------------------------
(***************************************************************************)
(* Proofs about ReportLink, for all tasks, limits and bounds: a report     *)
(* that is in the Desktop's file leaves it only after the control plane    *)
(* has processed it.                                                       *)
(***************************************************************************)
EXTENDS ReportLink, SequenceTheorems, TLAPS

(* A sequence over a set is one over any larger set.                       *)
LEMMA SeqMonotone ==
  ASSUME NEW S, NEW T, S \subseteq T, NEW s \in Seq(S)
  PROVE  s \in Seq(T)
OBVIOUS

(* What persist does to the images: the new table becomes the last one.    *)
LEMMA PersistKeeps ==
  ASSUME KeepInv, NEW rows \in SUBSET Nat, NEW n \in Nat,
         Persist(rows, n), Kept(outbox, rows),
         UNCHANGED <<disk, handled>>
  PROVE  /\ outbox' \in SUBSET Nat /\ writes' \in Seq(Image)
         /\ Kept(disk, outbox)'
         /\ \A i \in 1..Len(writes') :
              Kept(disk, writes[i].rows)' /\ Kept(writes[i].rows, outbox)'
         /\ \A i, j \in 1..Len(writes') :
              i < j => Kept(writes'[i].rows, writes'[j].rows)
<1> DEFINE image == [rows |-> rows, report |-> n]
<1>1. writes \in Seq(Image) /\ image \in Image
  BY DEF KeepInv, KeepTypeOK, Image
<1>2. writes' = Append(writes, image) /\ outbox' = rows
  BY DEF Persist
<1>3. writes' \in Seq(Image)
  BY <1>1, <1>2
<1>4. /\ Len(writes') = Len(writes) + 1
      /\ \A i \in 1..Len(writes) : writes'[i] = writes[i]
      /\ writes'[Len(writes) + 1] = image
  BY <1>1, <1>2
<1>5. handled' = handled /\ disk' = disk
  OBVIOUS
<1>6. ASSUME NEW i \in 1..Len(writes')
      PROVE  Kept(disk, writes'[i].rows) /\ Kept(writes'[i].rows, rows)
  <2>1. CASE i \in 1..Len(writes)
    BY <1>4, <2>1 DEF KeepInv, Kept
  <2>2. CASE i = Len(writes) + 1
    BY <1>4, <2>2 DEF KeepInv, Kept
  <2>3. Len(writes) \in Nat
    BY <1>1
  <2> QED
    BY <1>4, <2>1, <2>2, <2>3
<1>7. ASSUME NEW i \in 1..Len(writes'), NEW j \in 1..Len(writes'), i < j
      PROVE  Kept(writes'[i].rows, writes'[j].rows)
  <2>1. Len(writes) \in Nat /\ i \in 1..Len(writes)
    BY <1>1, <1>4, <1>7
  <2>2. CASE j \in 1..Len(writes)
    BY <1>4, <1>7, <2>1, <2>2 DEF KeepInv
  <2>3. CASE j = Len(writes) + 1
    <3>1. writes'[i] = writes[i] /\ writes'[j].rows = rows
      BY <1>4, <2>1, <2>3
    <3>2. Kept(writes[i].rows, outbox)
      BY <2>1 DEF KeepInv
    <3> QED
      BY <3>1, <3>2 DEF Kept
  <2> QED
    BY <1>4, <2>1, <2>2, <2>3
<1>8. Kept(disk, rows)
  BY DEF KeepInv, Kept
<1> QED
  BY <1>2, <1>3, <1>5, <1>6, <1>7, <1>8 DEF Kept

(* Initially nothing is made, stored or under way.                         *)
LEMMA KeepInit == Init => KeepInv
<1> SUFFICES ASSUME Init PROVE KeepInv
  OBVIOUS
<1>1. KeepTypeOK
  BY DEF Init, SessionInit, KeepTypeOK
<1> QED
  BY <1>1 DEF Init, KeepInv, Kept

(* The images and what is handled are left alone, or more is handled.      *)
LEMMA ImagesUntouched ==
  ASSUME KeepInv, KeepTypeOK', handled \subseteq handled',
         UNCHANGED <<outbox, disk, writes>>
  PROVE  KeepInv'
BY DEF KeepInv, Kept

(* What goes down stays well formed when one message is added.             *)
LEMMA DownKeeps ==
  ASSUME down \in Seq(DownMsg), handled \subseteq handled',
         NEW c, NEW msg, msg \in DownMsg', down' = DownOn(c, msg)
  PROVE  down' \in Seq(DownMsg')
<1>1. DownMsg \subseteq DownMsg'
  BY DEF DownMsg, Ack
<1>2. down \in Seq(DownMsg')
  BY <1>1, SeqMonotone
<1> QED
  BY <1>2 DEF DownOn

LEMMA LinkKeeps == KeepInv /\ Link => KeepInv'
<1> SUFFICES ASSUME KeepInv, Link PROVE KeepInv'
  OBVIOUS
<1> USE DEF Link
<1>1. UNCHANGED <<desktopVars, serverVars, countVars>>
  OBVIOUS
<1>2. down' \in Seq(DownMsg)
  <2>1. down \in Seq(DownMsg)
    BY DEF KeepInv, KeepTypeOK
  <2>2. CASE Connect
    BY <2>1, <2>2 DEF Connect
  <2>3. CASE AgentCloses
    BY <2>3 DEF AgentCloses
  <2>4. ASSUME NEW c \in 1..conns, Verified(c)
        PROVE  down' \in Seq(DownMsg)
    BY <2>1, <2>4 DEF Verified, DownOn, DownMsg
  <2>5. ASSUME NEW c \in 1..conns, Refused(c)
        PROVE  down' \in Seq(DownMsg)
    BY <2>1, <2>5 DEF Refused
  <2>6. ASSUME NEW c \in 1..conns, ServerCloses(c)
        PROVE  down' \in Seq(DownMsg)
    BY <2>1, <2>6 DEF ServerCloses
  <2>7. CASE Break
    BY <2>1, <2>7 DEF Break
  <2> QED
    BY <2>2, <2>3, <2>4, <2>5, <2>6, <2>7 DEF Session
<1>3. KeepTypeOK'
  BY <1>1, <1>2 DEF KeepInv, KeepTypeOK, DownMsg, desktopVars, serverVars, countVars
<1> QED
  BY <1>1, <1>3, ImagesUntouched DEF desktopVars, serverVars

LEMMA TaskEventKeeps == KeepInv /\ TaskEvent => KeepInv'
<1> SUFFICES ASSUME KeepInv, TaskEvent PROVE KeepInv'
  OBVIOUS
<1>1. PICK s \in EventStates \cup OutcomeStates : SendReport(active, s)
  BY DEF TaskEvent
<1>2. /\ active \in Tasks
      /\ UNCHANGED <<down, disk, active, orders, handled, crashes>>
  BY DEF TaskEvent, KeepInv, KeepTypeOK, sessionVars, serverVars, countVars
<1> DEFINE report == [task |-> active, state |-> s, seq |-> reportSequence + 1,
                      boot |-> crashes]
<1>3. report \in Report /\ made \in Seq(Report) /\ made' = Append(made, report)
  BY <1>1, <1>2 DEF KeepInv, KeepTypeOK, Report, SendReport
<1>4. made' \in Seq(Report) /\ Len(made) + 1 \in Nat
  BY <1>3
<1>5. /\ Persist(outbox \cup {Len(made) + 1}, Len(made) + 1)
      /\ outbox \cup {Len(made) + 1} \in SUBSET Nat
  BY <1>1, <1>4 DEF SendReport, KeepInv, KeepTypeOK
<1>6. Kept(outbox, outbox \cup {Len(made) + 1})
  BY DEF Kept
<1>7. /\ outbox' \in SUBSET Nat /\ writes' \in Seq(Image)
      /\ Kept(disk, outbox)'
      /\ \A i \in 1..Len(writes') :
           Kept(disk, writes[i].rows)' /\ Kept(writes[i].rows, outbox)'
      /\ \A i, j \in 1..Len(writes') : i < j => Kept(writes'[i].rows, writes'[j].rows)
  BY <1>2, <1>4, <1>5, <1>6, PersistKeeps
<1>8. KeepTypeOK'
  BY <1>1, <1>2, <1>4, <1>7 DEF SendReport, KeepInv, KeepTypeOK, DownMsg
<1> QED
  BY <1>2, <1>7, <1>8 DEF KeepInv, Kept

LEMMA WrittenKeeps == KeepInv /\ Written => KeepInv'
<1> SUFFICES ASSUME KeepInv, Written PROVE KeepInv'
  OBVIOUS
<1>1. /\ writes # <<>> /\ writes \in Seq(Image)
      /\ disk' = Head(writes).rows /\ writes' = Tail(writes)
      /\ active' \in {NoTask, active}
      /\ UNCHANGED <<down, made, outbox, reportSequence, orders, handled, crashes>>
  BY DEF Written, KeepInv, KeepTypeOK, serverVars, countVars
<1>2. /\ Len(writes) \in Nat /\ Len(writes) > 0
      /\ Head(writes) = writes[1] /\ Head(writes) \in Image
      /\ Tail(writes) \in Seq(Image)
      /\ Len(Tail(writes)) = Len(writes) - 1
      /\ \A i \in 1..Len(writes) - 1 : Tail(writes)[i] = writes[i + 1]
  BY <1>1
<1>3. KeepTypeOK'
  BY <1>1, <1>2 DEF KeepInv, KeepTypeOK, DownMsg, Image
<1>4. \A i \in 1..Len(writes') :
        /\ i + 1 \in 1..Len(writes) /\ 1 < i + 1
        /\ writes'[i] = writes[i + 1]
  BY <1>1, <1>2
<1>5. disk' = writes[1].rows /\ 1 \in 1..Len(writes)
  BY <1>1, <1>2
<1>6. Kept(disk, outbox)'
  BY <1>1, <1>5 DEF KeepInv, Kept
<1>7. \A i \in 1..Len(writes') :
        Kept(disk, writes[i].rows)' /\ Kept(writes[i].rows, outbox)'
  BY <1>1, <1>4, <1>5 DEF KeepInv, Kept
<1>8. \A i, j \in 1..Len(writes') : i < j => Kept(writes'[i].rows, writes'[j].rows)
  <2> SUFFICES ASSUME NEW i \in 1..Len(writes'), NEW j \in 1..Len(writes'), i < j
               PROVE  Kept(writes'[i].rows, writes'[j].rows)
    OBVIOUS
  <2>1. i + 1 < j + 1
    OBVIOUS
  <2>2. Kept(writes[i + 1].rows, writes[j + 1].rows)
    BY <1>4, <2>1 DEF KeepInv
  <2> QED
    BY <1>4, <2>2
<1> QED
  BY <1>1, <1>3, <1>6, <1>7, <1>8 DEF KeepInv, Kept

LEMMA ServeOrderKeeps == KeepInv /\ ServeOrder => KeepInv'
<1> SUFFICES ASSUME KeepInv, ServeOrder PROVE KeepInv'
  OBVIOUS
<1>1. /\ orders # <<>> /\ orders \in Seq(Order) /\ orders' = Tail(orders)
      /\ active' \in {active, Head(orders).task, NoTask}
      /\ UNCHANGED <<down, made, outbox, disk, writes, reportSequence, handled, crashes>>
  BY DEF ServeOrder, KeepInv, KeepTypeOK, sessionVars, serverVars, countVars
<1>2. orders' \in Seq(Order) /\ Head(orders) \in Order
  BY <1>1
<1>3. KeepTypeOK'
  BY <1>1, <1>2 DEF KeepInv, KeepTypeOK, DownMsg, Order
<1> QED
  BY <1>1, <1>3, ImagesUntouched

LEMMA AgentReceivesKeeps == KeepInv /\ AgentReceives => KeepInv'
<1> SUFFICES ASSUME KeepInv, AgentReceives PROVE KeepInv'
  OBVIOUS
<1> DEFINE m == Head(down)
<1>1. /\ down # <<>> /\ down \in Seq(DownMsg) /\ down' = Tail(down)
      /\ UNCHANGED <<made, disk, reportSequence, active, handled, crashes>>
  BY DEF AgentReceives, KeepInv, KeepTypeOK, serverVars, countVars
<1>2. m \in DownMsg /\ down' \in Seq(DownMsg)
  BY <1>1
<1>3. DownMsg' = DownMsg
  BY <1>1 DEF DownMsg
<1>4. CASE m.kind = "hello" /\ ReceiveHello
  <2>1. UNCHANGED <<outbox, writes, orders>>
    BY <1>4 DEF ReceiveHello
  <2>2. KeepTypeOK'
    BY <1>1, <1>2, <1>3, <2>1 DEF KeepInv, KeepTypeOK
  <2> QED
    BY <1>1, <2>1, <2>2, ImagesUntouched
<1>5. CASE m.kind = "ack" /\ ReceiveAck(m.report)
  <2>1. m.report \in handled
    BY <1>2, <1>5 DEF DownMsg, Hello, Order, Ack
  <2>2. /\ Persist(outbox \ {m.report}, 0) /\ orders' = orders
        /\ outbox \ {m.report} \in SUBSET Nat
    BY <1>5 DEF ReceiveAck, KeepInv, KeepTypeOK
  <2>3. Kept(outbox, outbox \ {m.report})
    BY <2>1 DEF Kept
  <2>4. /\ outbox' \in SUBSET Nat /\ writes' \in Seq(Image)
        /\ Kept(disk, outbox)'
        /\ \A i \in 1..Len(writes') :
             Kept(disk, writes[i].rows)' /\ Kept(writes[i].rows, outbox)'
        /\ \A i, j \in 1..Len(writes') : i < j => Kept(writes'[i].rows, writes'[j].rows)
    BY <1>1, <2>2, <2>3, PersistKeeps
  <2>5. KeepTypeOK'
    BY <1>1, <1>2, <1>3, <2>2, <2>4 DEF KeepInv, KeepTypeOK
  <2> QED
    BY <1>1, <2>4, <2>5 DEF KeepInv, Kept
<1>6. CASE m.kind \in {"start", "cancel"} /\ ReceiveOrder(m)
  <2>1. m \in Order
    BY <1>2, <1>6 DEF DownMsg, Hello, Ack
  <2>2. orders' = Append(orders, m) /\ UNCHANGED <<outbox, writes>>
    BY <1>6 DEF ReceiveOrder
  <2>3. orders' \in Seq(Order)
    BY <2>1, <2>2 DEF KeepInv, KeepTypeOK
  <2>4. KeepTypeOK'
    BY <1>1, <1>2, <1>3, <2>2, <2>3 DEF KeepInv, KeepTypeOK
  <2> QED
    BY <1>1, <2>2, <2>4, ImagesUntouched
<1> QED
  BY <1>4, <1>5, <1>6 DEF AgentReceives

LEMMA CrashKeeps == KeepInv /\ Crash => KeepInv'
<1> SUFFICES ASSUME KeepInv, Crash PROVE KeepInv'
  OBVIOUS
<1>1. /\ outbox' = disk /\ writes' = <<>> /\ reportSequence' = 0 /\ active' = NoTask
      /\ orders' = <<>> /\ down' = <<>> /\ crashes' = crashes + 1
      /\ UNCHANGED <<made, disk, handled>>
  BY DEF Crash, serverVars
<1>2. KeepTypeOK'
  BY <1>1 DEF KeepInv, KeepTypeOK
<1>3. 1..Len(writes') = {}
  BY <1>1
<1> QED
  BY <1>1, <1>2, <1>3 DEF KeepInv, Kept

LEMMA ServerReceivesKeeps ==
  ASSUME KeepInv, NEW c \in 1..conns, ServerReceives(c)
  PROVE  KeepInv'
<1> DEFINE n == Head(up[c])
<1>1. /\ handled' = handled \cup {n}
      /\ down' = DownOn(c, Ack(n))
      /\ UNCHANGED <<made, outbox, disk, writes, reportSequence, active, orders, crashes>>
  BY DEF ServerReceives, desktopVars, countVars
<1>2. Ack(n) \in DownMsg'
  BY <1>1 DEF DownMsg, Ack
<1>3. down' \in Seq(DownMsg')
  BY <1>1, <1>2, DownKeeps DEF KeepInv, KeepTypeOK
<1>4. KeepTypeOK'
  BY <1>1, <1>3 DEF KeepInv, KeepTypeOK
<1> QED
  BY <1>1, <1>4, ImagesUntouched

(* A step of the control plane alone at most sends one more command.       *)
LEMMA ServerKeeps ==
  ASSUME KeepInv,
         UNCHANGED <<desktopVars, handled, crashes>>,
         down' = down \/ (\E c : \E o \in Order : down' = DownOn(c, o))
  PROVE  KeepInv'
<1>1. Order \subseteq DownMsg'
  BY DEF DownMsg
<1>2. down \in Seq(DownMsg) /\ DownMsg' = DownMsg
  BY DEF KeepInv, KeepTypeOK, DownMsg
<1>3. down' \in Seq(DownMsg')
  <2>1. CASE down' = down
    BY <1>2, <2>1
  <2>2. ASSUME NEW c, NEW o \in Order, down' = DownOn(c, o)
        PROVE  down' \in Seq(DownMsg')
    BY <1>1, <1>2, <2>2 DEF DownOn
  <2> QED
    BY <2>1, <2>2
<1>4. KeepTypeOK'
  BY <1>3 DEF KeepInv, KeepTypeOK, desktopVars
<1> QED
  BY <1>4, ImagesUntouched DEF desktopVars

(* The invariant is inductive: one step per action.                        *)
LEMMA KeepStep == KeepInv /\ [Next]_vars => KeepInv'
<1> SUFFICES ASSUME KeepInv, [Next]_vars PROVE KeepInv'
  OBVIOUS
<1>1. CASE Link
  BY <1>1, LinkKeeps
<1>2. CASE TaskEvent
  BY <1>2, TaskEventKeeps
<1>3. CASE Written
  BY <1>3, WrittenKeeps
<1>4. CASE ServeOrder
  BY <1>4, ServeOrderKeeps
<1>5. CASE AgentReceives
  BY <1>5, AgentReceivesKeeps
<1>6. CASE Crash
  BY <1>6, CrashKeeps
<1>7. ASSUME NEW c \in 1..conns, ServerReceives(c)
      PROVE  KeepInv'
  BY <1>7, ServerReceivesKeeps
<1>8. CASE UpdateState
  BY <1>8, ServerKeeps DEF UpdateState, sessionVars, countVars
<1>9. CASE UpdateFails
  BY <1>9, ServerKeeps DEF UpdateFails, sessionVars
<1>10. ASSUME NEW t \in Tasks, Register(t)
       PROVE  KeepInv'
  BY <1>10, ServerKeeps DEF Register, sessionVars, countVars
<1>11. ASSUME NEW t \in Tasks, DispatchStart(t)
       PROVE  KeepInv'
  <2> DEFINE o == [kind |-> "start", task |-> t]
  <2>1. o \in Order
    BY DEF Order
  <2>2. down' = down \/ down' = DownOn(peer, o)
    BY <1>11 DEF DispatchStart
  <2>3. down' = down \/ (\E c : \E q \in Order : down' = DownOn(c, q))
    BY <2>1, <2>2
  <2>4. UNCHANGED <<desktopVars, handled, crashes>>
    BY <1>11 DEF DispatchStart, countVars
  <2> QED
    BY <2>3, <2>4, ServerKeeps
<1>12. ASSUME NEW t \in Tasks, DispatchCancel(t)
       PROVE  KeepInv'
  <2> DEFINE o == [kind |-> "cancel", task |-> t]
  <2>1. o \in Order
    BY DEF Order
  <2>2. down' = down \/ down' = DownOn(peer, o)
    BY <1>12 DEF DispatchCancel
  <2>3. down' = down \/ (\E c : \E q \in Order : down' = DownOn(c, q))
    BY <2>1, <2>2
  <2>4. UNCHANGED <<desktopVars, handled, crashes>>
    BY <1>12 DEF DispatchCancel
  <2> QED
    BY <2>3, <2>4, ServerKeeps
<1>13. CASE UNCHANGED vars
  <2>1. UNCHANGED <<down, desktopVars, handled, crashes>>
    BY <1>13 DEF vars, sessionVars, serverVars, countVars
  <2> QED
    BY <2>1, ServerKeeps
<1> QED
  BY <1>1, <1>2, <1>3, <1>4, <1>5, <1>6, <1>7, <1>8, <1>9, <1>10, <1>11, <1>12, <1>13
     DEF Next

(* Every image of the outbox table holds what an older one held, unless    *)
(* the control plane has processed it, and acknowledgements are only of    *)
(* reports it has processed (KeepInv).                                     *)
THEOREM ImagesKeepReports == Spec => []KeepInv
<1>1. Init => KeepInv
  BY KeepInit
<1>2. KeepInv /\ [Next]_vars => KeepInv'
  BY KeepStep
<1> QED
  BY <1>1, <1>2, PTL DEF Spec

(* The file changes only when an image is written, and then to the oldest. *)
LEMMA DiskChanges ==
  ASSUME [Next]_vars
  PROVE  disk' = disk \/ (writes # <<>> /\ disk' = Head(writes).rows)
<1>1. CASE Link
  BY <1>1 DEF Link, desktopVars
<1>2. CASE TaskEvent
  BY <1>2 DEF TaskEvent
<1>3. CASE Written
  BY <1>3 DEF Written
<1>4. CASE ServeOrder
  BY <1>4 DEF ServeOrder
<1>5. CASE AgentReceives
  BY <1>5 DEF AgentReceives
<1>6. CASE Crash
  BY <1>6 DEF Crash
<1>7. ASSUME NEW c \in 1..conns, ServerReceives(c)
      PROVE  disk' = disk
  BY <1>7 DEF ServerReceives, desktopVars
<1>8. CASE UpdateState \/ UpdateFails
  BY <1>8 DEF UpdateState, UpdateFails, desktopVars
<1>9. ASSUME NEW t \in Tasks, Register(t) \/ DispatchStart(t) \/ DispatchCancel(t)
      PROVE  disk' = disk
  BY <1>9 DEF Register, DispatchStart, DispatchCancel, desktopVars
<1>10. CASE UNCHANGED vars
  BY <1>10 DEF vars, desktopVars
<1> QED
  BY <1>1, <1>2, <1>3, <1>4, <1>5, <1>6, <1>7, <1>8, <1>9, <1>10 DEF Next

(* A report leaves the Desktop's file only after the control plane has     *)
(* processed it (sendReport, flushOutbox, acknowledgeReport, persist).     *)
THEOREM NoReportForgotten == Spec => RowsLeaveHandled
<1>1. KeepInv /\ [Next]_vars => [\A n \in disk \ disk' : n \in handled]_vars
  <2> SUFFICES ASSUME KeepInv, [Next]_vars, NEW n \in disk \ disk'
               PROVE  n \in handled
    OBVIOUS
  <2>1. writes # <<>> /\ disk' = Head(writes).rows
    BY DiskChanges
  <2>2. 1 \in 1..Len(writes) /\ Head(writes) = writes[1]
    BY <2>1 DEF KeepInv, KeepTypeOK
  <2> QED
    BY <2>1, <2>2 DEF KeepInv, Kept
<1> QED
  BY <1>1, ImagesKeepReports, PTL DEF Spec, RowsLeaveHandled

=============================================================================
