-------------------------- MODULE ReportOrderProofs --------------------------
(***************************************************************************)
(* Proofs about ReportLink, for all tasks, limits and bounds: the types,   *)
(* that every report finds its task in the control plane's table, and that *)
(* the control plane first sees the reports of one life of the Desktop in  *)
(* the order they were made.                                               *)
(***************************************************************************)
EXTENDS ReportLinkProofs, FunctionTheorems, FiniteSetTheorems

-----------------------------------------------------------------------------
(* Operators.                                                              *)

(* A table of sequences stays one when a sequence is added to an entry.    *)
LEMMA AppendTo ==
  ASSUME NEW R, NEW S, R \subseteq S, NEW D, NEW f \in [D -> Seq(R)],
         NEW d, NEW q \in Seq(S)
  PROVE  /\ f \in [D -> Seq(S)]
         /\ [f EXCEPT ![d] = @ \o q] \in [D -> Seq(S)]
<1>1. \A x \in D : f[x] \in Seq(S)
  BY SeqMonotone
<1>2. \A x \in D : f[x] \o q \in Seq(S)
  BY <1>1
<1> QED
  BY <1>1, <1>2

(* What is sent up goes to the Desktop's socket, or nowhere.               *)
LEMMA UpTyped ==
  ASSUME NEW R, NEW S, R \subseteq S, up \in [1..conns -> Seq(R)],
         NEW q \in Seq(S)
  PROVE  up \in [1..conns -> Seq(S)] /\ Up(q) \in [1..conns -> Seq(S)]
BY AppendTo DEF Up

(* The updates under way when one more is started, and when one ends.      *)
LEMMA MoreUpdates ==
  ASSUME NEW t, NEW s, NEW n
  PROVE  DOMAIN Write(t, s, n)
           = DOMAIN updates \cup {[task |-> t, state |-> s, by |-> n]}
BY DEF Write, (+), SetToBag

LEMMA FewerUpdates ==
  ASSUME NEW u
  PROVE  DOMAIN (updates (-) SetToBag({u})) \subseteq DOMAIN updates
BY DEF (-), SetToBag

(* The numbers of the reports are those of a finite set.                   *)
LEMMA RowsFinite ==
  ASSUME made \in Seq(Report), NEW rows \in SUBSET Reports
  PROVE  IsFiniteSet(rows) /\ Cardinality(rows) \in Nat
<1>1. Len(made) \in Nat
  OBVIOUS
<1>2. IsFiniteSet(1..Len(made))
  BY <1>1, FS_Interval
<1>3. IsFiniteSet(rows)
  BY <1>2, FS_Subset DEF Reports
<1> QED
  BY <1>3, FS_CardinalityType

(* flushOutbox sends rows of the table.                                    *)
LEMMA FlushTyped ==
  ASSUME made \in Seq(Report), NEW rows \in SUBSET Reports, NEW q \in Flushes(rows),
         FlushLimit \in Nat
  PROVE  q \in Seq(Reports)
<1>1. PICK p \in [1..Cardinality(rows) -> rows] : q = Limited(p)
  BY DEF Flushes
<1>2. Cardinality(rows) \in Nat
  BY RowsFinite
<1>3. p \in Seq(Reports) /\ Len(p) = Cardinality(rows)
  BY <1>2
<1> DEFINE k == IF Len(p) < FlushLimit THEN Len(p) ELSE FlushLimit
<1>4. k \in 0..Len(p)
  BY <1>2, <1>3
<1>5. SubSeq(p, 1, k) \in Seq(Reports)
  BY <1>3, <1>4, SubSeqProperties
<1> QED
  BY <1>1, <1>5 DEF Limited

-----------------------------------------------------------------------------
(* The types, and that whatever names a task names one the control plane   *)
(* has saved.                                                              *)

SentDown == {Hello} \cup Order \cup {Ack(n) : n \in Reports}

SessionOK == SessionTypeOK(Reports, SentDown)

DesktopOK ==
  /\ made \in Seq(Report)
  /\ outbox \subseteq Reports /\ disk \subseteq Reports
  /\ writes \in Seq([rows : SUBSET Reports, report : 0..Len(made)])
  /\ reportSequence \in Nat
  /\ active \in Tasks \cup {NoTask}
  /\ orders \in Seq(Order)

ServerOK ==
  /\ calls \subseteq Tasks
  /\ tasks \in [Tasks -> [state : ServerStates, by : 0..Len(made)]]
  /\ \A u \in DOMAIN updates :
       /\ u \in Update
       /\ u.state # "none" /\ u.by \in handled \cup {0}
  /\ handled \subseteq Reports /\ applied \subseteq handled

Known(t) == tasks[t].state # "none"

KnownInv ==
  /\ active # NoTask => Known(active)
  /\ \A i \in 1..Len(orders) : Known(orders[i].task)
  /\ \A i \in 1..Len(down) : down[i].kind \in {"start", "cancel"} => Known(down[i].task)
  /\ \A t \in calls : Known(t)
  /\ \A n \in Reports : Known(made[n].task)

LinkInv == KeepInv /\ SessionOK /\ DesktopOK /\ ServerOK /\ KnownInv

LEMMA LinkInvTypes == LinkInv => LinkTypeOK
<1> SUFFICES ASSUME LinkInv PROVE LinkTypeOK
  OBVIOUS
<1>1. BagToSet(updates) \subseteq Update
  BY DEF LinkInv, ServerOK, BagToSet
<1> QED
  BY <1>1 DEF LinkInv, LinkTypeOK, SessionOK, SentDown, DesktopOK, ServerOK

(* Initially.                                                              *)
LEMMA LinkInvInit == Init => LinkInv
<1> SUFFICES ASSUME Init PROVE LinkInv
  OBVIOUS
<1>1. KeepInv
  BY KeepInit
<1>2. SessionOK
  <2>1. conns = 0 /\ up = <<>>
    BY DEF Init, SessionInit
  <2>2. <<>> \in Seq(Seq(Reports)) /\ Len(<<>>) = 0
    OBVIOUS
  <2>3. <<>> \in [1..0 -> Seq(Reports)]
    BY <2>2, LenProperties
  <2>4. up \in [1..conns -> Seq(Reports)]
    BY <2>1, <2>3
  <2>5. down \in Seq(SentDown)
    BY DEF Init, SessionInit
  <2>6. /\ conns = 0 /\ agentConn = 0 /\ authed = FALSE /\ verifying = {}
        /\ serverOpen = {} /\ peer = 0 /\ broken = {} /\ down = <<>> /\ breaks = 0
    BY DEF Init, SessionInit
  <2>7. SessionTypeOK(Reports, SentDown)
    <3>1. /\ conns \in Nat /\ breaks \in Nat
          /\ agentConn \in 0..conns /\ peer \in 0..conns
          /\ verifying \subseteq 1..conns /\ serverOpen \subseteq 1..conns
          /\ broken \subseteq 1..conns
      BY <2>6
    <3>2. authed \in BOOLEAN /\ (authed => agentConn # 0)
      BY <2>6
    <3> QED
      BY <2>4, <2>5, <2>6, <3>1, <3>2, Zenon DEF SessionTypeOK
  <2> QED
    BY <2>7 DEF SessionOK
<1>3. DesktopOK
  BY DEF Init, DesktopOK
<1>4. ServerOK
  <2>1. DOMAIN updates = {}
    BY DEF Init, EmptyBag, SetToBag
  <2> QED
    BY <2>1 DEF Init, ServerOK, ServerStates
<1>5. KnownInv
  BY DEF Init, SessionInit, KnownInv, Reports
<1> QED
  BY <1>1, <1>2, <1>3, <1>4, <1>5 DEF LinkInv

(* What goes down is well formed again, by the invariant of the outbox.    *)
LEMMA DownTyped ==
  ASSUME KeepInv', (handled \subseteq Reports)'
  PROVE  down' \in Seq(SentDown')
<1>1. DownMsg' \subseteq SentDown'
  BY DEF DownMsg, SentDown, Ack
<1>2. down' \in Seq(DownMsg')
  BY DEF KeepInv, KeepTypeOK
<1> QED
  BY <1>1, <1>2, SeqMonotone

(* Nothing is sent down but to an open socket of the Desktop.              *)
LEMMA DownOnOpen ==
  ASSUME SessionOK, NEW c, NEW msg
  PROVE  agentConn = 0 => DownOn(c, msg) = <<>>
BY DEF SessionOK, SessionTypeOK, DownOn

(* What both ends know of the connection, when only messages move.         *)
LEMMA SessionKept ==
  ASSUME LinkInv, KeepInv', (handled \subseteq Reports)',
         UNCHANGED <<conns, agentConn, verifying, serverOpen, peer, broken, breaks>>,
         authed' \in BOOLEAN, authed' => agentConn # 0,
         up' \in [1..conns -> Seq(Reports')],
         agentConn = 0 => down' = <<>>
  PROVE  SessionOK'
<1>1. down' \in Seq(SentDown')
  BY DownTyped
<1>2. /\ conns \in Nat /\ breaks \in Nat
      /\ agentConn \in 0..conns /\ peer \in 0..conns
      /\ verifying \subseteq 1..conns /\ serverOpen \subseteq 1..conns
      /\ broken \subseteq 1..conns
  BY DEF LinkInv, SessionOK, SessionTypeOK
<1>3. SessionTypeOK(Reports, SentDown)'
  BY <1>1, <1>2, Zenon DEF SessionTypeOK
<1> QED
  BY <1>3 DEF SessionOK

(* What the Desktop and the control plane keep is not touched by a step of *)
(* the connection.                                                         *)
LEMMA LinkTyped == LinkInv /\ Link /\ KeepInv' => LinkInv'
<1> SUFFICES ASSUME LinkInv, Link, KeepInv' PROVE LinkInv'
  OBVIOUS
<1>1. UNCHANGED <<made, outbox, disk, writes, reportSequence, active, orders, calls,
                  tasks, updates, handled, applied>>
  BY DEF Link, desktopVars, serverVars
<1>2. DesktopOK' /\ ServerOK' /\ Reports' = Reports
  BY <1>1 DEF LinkInv, DesktopOK, ServerOK, Reports
<1>3. down' \in Seq(SentDown')
  BY <1>2, DownTyped DEF ServerOK
<1>4. /\ conns \in Nat /\ breaks \in Nat
      /\ agentConn \in 0..conns /\ peer \in 0..conns
      /\ verifying \subseteq 1..conns /\ serverOpen \subseteq 1..conns
      /\ broken \subseteq 1..conns
      /\ up \in [1..conns -> Seq(Reports)]
  BY DEF LinkInv, SessionOK, SessionTypeOK
<1>5. authed \in BOOLEAN /\ (authed => agentConn # 0) /\ (agentConn = 0 => down = <<>>)
  BY DEF LinkInv, SessionOK, SessionTypeOK
<1>6. /\ SessionTypeOK(Reports, SentDown)'
      /\ down' = down \/ down' = <<>> \/ down' = Append(down, Hello)
  <2> USE DEF SessionTypeOK
  <2>1. CASE Connect
    <3>1. /\ conns' \in Nat /\ agentConn' \in 0..conns'
          /\ peer' \in 0..conns' /\ verifying' \subseteq 1..conns'
          /\ serverOpen' \subseteq 1..conns' /\ broken' \subseteq 1..conns'
          /\ breaks' \in Nat /\ agentConn' # 0
      BY <1>4, <2>1 DEF Connect
    <3>2. up' \in [1..conns' -> Seq(Reports)]
      <4>1. up \in Seq(Seq(Reports)) /\ Len(up) = conns
        BY <1>4
      <4>2. up' \in Seq(Seq(Reports)) /\ Len(up') = conns'
        BY <2>1, <4>1 DEF Connect
      <4> QED
        BY <4>2
    <3>3. authed' = authed /\ down' = down
      BY <2>1 DEF Connect
    <3> QED
      BY <1>2, <1>3, <1>5, <3>1, <3>2, <3>3, Zenon
  <2>2. CASE AgentCloses
    <3>1. agentConn' = 0 /\ authed' = FALSE /\ down' = <<>>
      BY <2>2 DEF AgentCloses
    <3>2. agentConn' \in 0..conns
      BY <1>4, <3>1
    <3>3. UNCHANGED <<conns, verifying, serverOpen, peer, broken, up, breaks>>
      BY <2>2 DEF AgentCloses
    <3>4. authed' \in BOOLEAN
      BY <3>1
    <3> QED
      BY <1>2, <1>3, <1>4, <3>1, <3>2, <3>3, <3>4, Zenon
  <2>3. ASSUME NEW c \in 1..conns, Verified(c)
        PROVE  /\ SessionTypeOK(Reports, SentDown)'
               /\ down' = down \/ down' = <<>> \/ down' = Append(down, Hello)
    <3>1. /\ verifying' \subseteq 1..conns /\ peer' \in 0..conns
          /\ broken' \subseteq 1..conns
      BY <1>4, <2>3 DEF Verified
    <3>2. /\ UNCHANGED <<conns, agentConn, authed, serverOpen, up, breaks>>
          /\ down' = DownOn(c, Hello)
      BY <2>3 DEF Verified
    <3>3. agentConn = 0 => down' = <<>>
      BY <3>2, DownOnOpen DEF LinkInv
    <3>4. down' = down \/ down' = Append(down, Hello)
      BY <3>2 DEF DownOn
    <3> QED
      BY <1>2, <1>3, <1>4, <1>5, <3>1, <3>2, <3>3, <3>4, Zenon
  <2>4. ASSUME NEW c \in 1..conns, Refused(c)
        PROVE  /\ SessionTypeOK(Reports, SentDown)'
               /\ down' = down \/ down' = <<>> \/ down' = Append(down, Hello)
    <3>1. /\ verifying' \subseteq 1..conns /\ broken' \subseteq 1..conns
          /\ breaks' \in Nat
      BY <1>4, <2>4 DEF Refused
    <3>2. UNCHANGED <<conns, agentConn, authed, serverOpen, peer, up, down>>
      BY <2>4 DEF Refused
    <3> QED
      BY <1>2, <1>3, <1>4, <1>5, <3>1, <3>2, Zenon
  <2>5. ASSUME NEW c \in 1..conns, ServerCloses(c)
        PROVE  /\ SessionTypeOK(Reports, SentDown)'
               /\ down' = down \/ down' = <<>> \/ down' = Append(down, Hello)
    <3>1. serverOpen' \subseteq 1..conns /\ peer' \in 0..conns
      BY <1>4, <2>5 DEF ServerCloses, Unregistered
    <3>2. up' \in [1..conns -> Seq(Reports)]
      <4>1. up' = [up EXCEPT ![c] = <<>>] /\ <<>> \in Seq(Reports)
        BY <2>5 DEF ServerCloses
      <4> QED
        BY <1>4, <4>1, Zenon
    <3>3. UNCHANGED <<conns, agentConn, authed, verifying, broken, down, breaks>>
      BY <2>5 DEF ServerCloses
    <3> QED
      BY <1>2, <1>3, <1>4, <1>5, <3>1, <3>2, <3>3, Zenon
  <2>6. CASE Break
    <3>1. broken' \subseteq 1..conns /\ breaks' \in Nat
      BY <1>4, <2>6 DEF Break
    <3>2. UNCHANGED <<conns, agentConn, authed, verifying, serverOpen, peer, up, down>>
      BY <2>6 DEF Break
    <3> QED
      BY <1>2, <1>3, <1>4, <1>5, <3>1, <3>2, Zenon
  <2> QED
    BY <2>1, <2>2, <2>3, <2>4, <2>5, <2>6, Zenon DEF Link, Session
<1>7. SessionOK'
  BY <1>2, <1>6 DEF SessionOK
<1>8. KnownInv'
  <2>1. down \in Seq(DownMsg)
    BY DEF LinkInv, KeepInv, KeepTypeOK
  <2>2. \A i \in 1..Len(down') :
          down'[i].kind \in {"start", "cancel"} => Known(down'[i].task)
    BY <1>6, <2>1 DEF LinkInv, KnownInv, Hello
  <2> QED
    BY <1>1, <1>2, <2>2 DEF LinkInv, KnownInv, Known
<1> QED
  BY <1>2, <1>7, <1>8 DEF LinkInv

LEMMA TaskEventTyped == LinkInv /\ TaskEvent /\ KeepInv' => LinkInv'
<1> SUFFICES ASSUME LinkInv, TaskEvent, KeepInv' PROVE LinkInv'
  OBVIOUS
<1>1. PICK s \in EventStates \cup OutcomeStates : SendReport(active, s)
  BY DEF TaskEvent
<1>2. UNCHANGED <<sessionVars, disk, active, orders, serverVars, countVars>>
  BY DEF TaskEvent
<1>3. active \in Tasks /\ active # NoTask
  BY DEF TaskEvent, LinkInv, DesktopOK
<1> DEFINE report == [task |-> active, state |-> s, seq |-> reportSequence + 1,
                      boot |-> crashes]
           image  == [rows |-> outbox \cup {Len(made) + 1}, report |-> Len(made) + 1]
<1>4. /\ made \in Seq(Report) /\ reportSequence \in Nat /\ crashes \in Nat
      /\ outbox \subseteq Reports /\ disk \subseteq Reports
      /\ writes \in Seq([rows : SUBSET Reports, report : 0..Len(made)])
  BY DEF LinkInv, DesktopOK, KeepInv, KeepTypeOK
<1>5. report \in Report
  BY <1>3, <1>4 DEF Report
<1>6. /\ made' = Append(made, report) /\ reportSequence' = reportSequence + 1
      /\ outbox' = outbox \cup {Len(made) + 1} /\ writes' = Append(writes, image)
  BY <1>1 DEF SendReport, Persist
<1>7. /\ made' \in Seq(Report) /\ Len(made') = Len(made) + 1
      /\ \A n \in Reports : made'[n] = made[n]
      /\ made'[Len(made) + 1] = report
      /\ Reports' = Reports \cup {Len(made) + 1}
  BY <1>4, <1>5, <1>6 DEF Reports
<1> HIDE DEF report
<1>8. Len(made) \in Nat /\ 0..Len(made) \subseteq 0..Len(made')
  BY <1>4, <1>7
<1>9. DesktopOK'
  <2>1. writes \in Seq([rows : SUBSET Reports', report : 0..Len(made')])
    <3>1. [rows : SUBSET Reports, report : 0..Len(made)]
            \subseteq [rows : SUBSET Reports', report : 0..Len(made')]
      BY <1>7, <1>8
    <3> QED
      BY <1>4, <3>1, SeqMonotone
  <2>2. image \in [rows : SUBSET Reports', report : 0..Len(made')]
    <3>1. Len(made) + 1 \in 0..Len(made')
      BY <1>7, <1>8
    <3>2. outbox \cup {Len(made) + 1} \in SUBSET Reports'
      BY <1>4, <1>7
    <3> QED
      BY <3>1, <3>2
  <2> HIDE DEF image
  <2>3. writes' \in Seq([rows : SUBSET Reports', report : 0..Len(made')])
    BY <1>6, <2>1, <2>2
  <2>4. outbox' \subseteq Reports' /\ disk' \subseteq Reports'
    BY <1>2, <1>4, <1>6, <1>7
  <2>5. reportSequence' \in Nat
    BY <1>4, <1>6
  <2> QED
    BY <1>2, <1>7, <2>3, <2>4, <2>5 DEF LinkInv, DesktopOK
<1>10. ServerOK'
  <2>1. [state : ServerStates, by : 0..Len(made)]
          \subseteq [state : ServerStates, by : 0..Len(made')]
    BY <1>8
  <2>2. tasks' \in [Tasks -> [state : ServerStates, by : 0..Len(made')]]
    <3>1. tasks' = tasks
      BY <1>2 DEF serverVars
    <3>2. tasks \in [Tasks -> [state : ServerStates, by : 0..Len(made)]]
      BY DEF LinkInv, ServerOK
    <3> QED
      BY <2>1, <3>1, <3>2
  <2> QED
    BY <1>2, <1>7, <2>2 DEF LinkInv, ServerOK, serverVars
<1>11. SessionOK'
  <2>1. up' \in [1..conns -> Seq(Reports')]
    <3>1. <<>> \in Seq(Reports') /\ Reports \subseteq Reports'
      BY <1>7
    <3>2. up' = up
      BY <1>2 DEF sessionVars
    <3> QED
      BY <3>1, <3>2, AppendTo DEF LinkInv, SessionOK, SessionTypeOK
  <2>2. /\ UNCHANGED <<conns, agentConn, verifying, serverOpen, peer, broken, breaks>>
        /\ authed' = authed /\ down' = down
    BY <1>2 DEF sessionVars
  <2>3. authed' \in BOOLEAN /\ (authed' => agentConn # 0) /\ (agentConn = 0 => down' = <<>>)
    BY <2>2 DEF LinkInv, SessionOK, SessionTypeOK
  <2> QED
    BY <1>10, <2>1, <2>2, <2>3, SessionKept DEF ServerOK
<1>12. KnownInv'
  <2>1. UNCHANGED <<active, orders, down, calls, tasks>>
    BY <1>2 DEF sessionVars, serverVars
  <2>2. \A n \in Reports' : Known(made'[n].task)
    <3>1. Known(active)
      BY <1>3 DEF LinkInv, KnownInv
    <3>2. made'[Len(made) + 1].task = active
      BY <1>7 DEF report
    <3> QED
      BY <1>7, <3>1, <3>2 DEF LinkInv, KnownInv
  <2> QED
    BY <2>1, <2>2 DEF LinkInv, KnownInv, Known
<1> QED
  BY <1>9, <1>10, <1>11, <1>12 DEF LinkInv

LEMMA WrittenTyped == LinkInv /\ Written /\ KeepInv' => LinkInv'
<1> SUFFICES ASSUME LinkInv, Written, KeepInv' PROVE LinkInv'
  OBVIOUS
<1> DEFINE w == Head(writes)
<1>1. /\ writes # <<>> /\ disk' = w.rows /\ writes' = Tail(writes)
      /\ up' = IF w.report # 0 THEN Up(<<w.report>>) ELSE up
      /\ active' \in {NoTask, active}
      /\ UNCHANGED <<conns, agentConn, authed, verifying, serverOpen, peer, broken, down,
                     breaks, made, outbox, reportSequence, orders>>
      /\ UNCHANGED <<calls, tasks, updates, handled, applied>>
  BY DEF Written, serverVars
<1>2. writes \in Seq([rows : SUBSET Reports, report : 0..Len(made)])
  BY DEF LinkInv, DesktopOK
<1>3. /\ w \in [rows : SUBSET Reports, report : 0..Len(made)]
      /\ Tail(writes) \in Seq([rows : SUBSET Reports, report : 0..Len(made)])
  BY <1>1, <1>2, HeadTailProperties
<1> HIDE DEF w
<1>4. Reports' = Reports
  BY <1>1 DEF Reports
<1>5. DesktopOK'
  BY <1>1, <1>3, <1>4 DEF LinkInv, DesktopOK
<1>6. ServerOK'
  BY <1>1, <1>4 DEF LinkInv, ServerOK
<1>7. SessionOK'
  <2>1. w.report # 0 => <<w.report>> \in Seq(Reports)
    BY <1>3 DEF Reports
  <2>2. up \in [1..conns -> Seq(Reports)]
    BY DEF LinkInv, SessionOK, SessionTypeOK
  <2>3. up' \in [1..conns -> Seq(Reports)]
    <3>1. CASE w.report = 0
      BY <1>1, <2>2, <3>1
    <3>2. CASE w.report # 0
      <4>1. Up(<<w.report>>) \in [1..conns -> Seq(Reports)]
        BY <2>1, <2>2, <3>2, UpTyped
      <4> QED
        BY <1>1, <3>2, <4>1
    <3> QED
      BY <3>1, <3>2
  <2>4. authed' \in BOOLEAN /\ (authed' => agentConn # 0) /\ (agentConn = 0 => down' = <<>>)
    BY <1>1 DEF LinkInv, SessionOK, SessionTypeOK
  <2> QED
    BY <1>1, <1>4, <1>6, <2>3, <2>4, SessionKept DEF ServerOK
<1>8. KnownInv'
  BY <1>1, <1>4 DEF LinkInv, KnownInv, Known
<1> QED
  BY <1>5, <1>6, <1>7, <1>8 DEF LinkInv

LEMMA ServeOrderTyped == LinkInv /\ ServeOrder /\ KeepInv' => LinkInv'
<1> SUFFICES ASSUME LinkInv, ServeOrder, KeepInv' PROVE LinkInv'
  OBVIOUS
<1>1. /\ orders # <<>> /\ orders' = Tail(orders)
      /\ active' \in {active, Head(orders).task, NoTask}
      /\ UNCHANGED <<sessionVars, made, outbox, disk, writes, reportSequence, serverVars>>
  BY DEF ServeOrder
<1>2. orders \in Seq(Order)
  BY DEF LinkInv, DesktopOK
<1>3. /\ Head(orders) \in Order /\ Tail(orders) \in Seq(Order)
      /\ Head(orders) = orders[1] /\ 1 \in 1..Len(orders)
      /\ \A i \in 1..Len(Tail(orders)) :
           i + 1 \in 1..Len(orders) /\ Tail(orders)[i] = orders[i + 1]
  BY <1>1, <1>2
<1>4. DesktopOK' /\ Reports' = Reports
  BY <1>1, <1>3 DEF LinkInv, DesktopOK, Reports, Order
<1>5. ServerOK'
  BY <1>1, <1>4 DEF LinkInv, ServerOK, serverVars
<1>6. SessionOK'
  <2>1. /\ UNCHANGED <<conns, agentConn, verifying, serverOpen, peer, broken, breaks>>
        /\ UNCHANGED <<authed, down, up>>
    BY <1>1 DEF sessionVars
  <2>2. /\ authed' \in BOOLEAN /\ (authed' => agentConn # 0)
        /\ (agentConn = 0 => down' = <<>>) /\ up' \in [1..conns -> Seq(Reports')]
    BY <1>4, <2>1 DEF LinkInv, SessionOK, SessionTypeOK
  <2> QED
    BY <1>5, <2>1, <2>2, SessionKept DEF ServerOK
<1>7. KnownInv'
  <2>1. UNCHANGED <<down, made, calls, tasks>>
    BY <1>1 DEF sessionVars, serverVars
  <2>2. active' # NoTask => Known(active')
    BY <1>1, <1>3 DEF LinkInv, KnownInv
  <2>3. \A i \in 1..Len(orders') : Known(orders'[i].task)
    BY <1>1, <1>3 DEF LinkInv, KnownInv
  <2> QED
    BY <1>4, <2>1, <2>2, <2>3 DEF LinkInv, KnownInv, Known
<1> QED
  BY <1>4, <1>5, <1>6, <1>7 DEF LinkInv

LEMMA AgentReceivesTyped == LinkInv /\ AgentReceives /\ KeepInv' => LinkInv'
<1> SUFFICES ASSUME LinkInv, AgentReceives, KeepInv' PROVE LinkInv'
  OBVIOUS
<1> DEFINE m == Head(down)
<1>1. /\ down # <<>> /\ down' = Tail(down)
      /\ UNCHANGED <<conns, agentConn, verifying, serverOpen, peer, broken, breaks, made,
                     disk, reportSequence, active>>
      /\ UNCHANGED <<calls, tasks, updates, handled, applied>>
  BY DEF AgentReceives, serverVars
<1>2. down \in Seq(SentDown)
  BY DEF LinkInv, SessionOK, SessionTypeOK
<1>3. /\ m \in SentDown /\ m = down[1] /\ 1 \in 1..Len(down)
      /\ \A i \in 1..Len(Tail(down)) :
           i + 1 \in 1..Len(down) /\ Tail(down)[i] = down[i + 1]
  BY <1>1, <1>2
<1>4. Reports' = Reports
  BY <1>1 DEF Reports
<1>5. ServerOK'
  BY <1>1, <1>4 DEF LinkInv, ServerOK
<1>6. /\ authed \in BOOLEAN /\ (authed => agentConn # 0) /\ (agentConn = 0 => down = <<>>)
      /\ up \in [1..conns -> Seq(Reports)]
  BY DEF LinkInv, SessionOK, SessionTypeOK
<1>7. agentConn # 0
  BY <1>1, <1>6
<1>8. \A i \in 1..Len(down') : down'[i].kind \in {"start", "cancel"} => Known(down'[i].task)
  BY <1>1, <1>3 DEF LinkInv, KnownInv
<1>9. ASSUME authed' \in BOOLEAN, up' \in [1..conns -> Seq(Reports)]
      PROVE  SessionOK'
  BY <1>1, <1>4, <1>5, <1>7, <1>9, SessionKept DEF ServerOK
<1>10. ASSUME UNCHANGED <<outbox, writes, orders>>
       PROVE  DesktopOK' /\ KnownInv'
  BY <1>1, <1>4, <1>8, <1>10 DEF LinkInv, DesktopOK, KnownInv, Known
<1>11. CASE m.kind = "hello" /\ ReceiveHello
  <2>1. PICK q \in Flushes(outbox) :
          up' = IF agentConn \in serverOpen THEN [up EXCEPT ![agentConn] = @ \o q] ELSE up
    BY <1>11 DEF ReceiveHello
  <2>2. q \in Seq(Reports)
    BY FlushTyped, LinkAssumption DEF LinkInv, DesktopOK
  <2>3. up' \in [1..conns -> Seq(Reports)]
    <3>1. [up EXCEPT ![agentConn] = @ \o q] \in [1..conns -> Seq(Reports)]
      BY <1>6, <2>2, AppendTo
    <3> QED
      BY <1>6, <2>1, <3>1
  <2>4. authed' \in BOOLEAN /\ UNCHANGED <<outbox, writes, orders>>
    BY <1>11 DEF ReceiveHello
  <2> QED
    BY <1>5, <1>9, <1>10, <2>3, <2>4 DEF LinkInv
<1>12. CASE m.kind = "ack" /\ ReceiveAck(m.report)
  <2> DEFINE image == [rows |-> outbox \ {m.report}, report |-> 0]
  <2>1. /\ outbox' = outbox \ {m.report} /\ writes' = Append(writes, image)
        /\ UNCHANGED <<authed, up, orders>>
    BY <1>12 DEF ReceiveAck, Persist
  <2>2. image \in [rows : SUBSET Reports, report : 0..Len(made)]
    BY DEF LinkInv, DesktopOK
  <2> HIDE DEF image
  <2>3. writes' \in Seq([rows : SUBSET Reports, report : 0..Len(made)])
    BY <2>1, <2>2 DEF LinkInv, DesktopOK
  <2>4. DesktopOK'
    BY <1>1, <1>4, <2>1, <2>3 DEF LinkInv, DesktopOK
  <2>5. KnownInv'
    BY <1>1, <1>4, <1>8, <2>1 DEF LinkInv, KnownInv, Known
  <2>6. SessionOK'
    BY <1>6, <1>9, <2>1
  <2> QED
    BY <1>5, <2>4, <2>5, <2>6 DEF LinkInv
<1>13. CASE m.kind \in {"start", "cancel"} /\ ReceiveOrder(m)
  <2>1. orders' = Append(orders, m) /\ UNCHANGED <<authed, up, outbox, writes>>
    BY <1>13 DEF ReceiveOrder
  <2>2. m \in Order /\ orders \in Seq(Order)
    BY <1>3, <1>13 DEF SentDown, Hello, Ack, LinkInv, DesktopOK
  <2>3. DesktopOK'
    BY <1>1, <1>4, <2>1, <2>2 DEF LinkInv, DesktopOK
  <2>4. \A i \in 1..Len(orders') : Known(orders'[i].task)
    <3>1. Known(m.task)
      BY <1>3, <1>13 DEF LinkInv, KnownInv
    <3> HIDE DEF m
    <3> QED
      BY <2>1, <2>2, <3>1 DEF LinkInv, KnownInv
  <2>5. KnownInv'
    BY <1>1, <1>4, <1>8, <2>1, <2>4 DEF LinkInv, KnownInv, Known
  <2>6. SessionOK'
    BY <1>6, <1>9, <2>1
  <2> QED
    BY <1>5, <2>3, <2>5, <2>6 DEF LinkInv
<1> QED
  BY <1>11, <1>12, <1>13 DEF AgentReceives

LEMMA CrashTyped == LinkInv /\ Crash /\ KeepInv' => LinkInv'
<1> SUFFICES ASSUME LinkInv, Crash, KeepInv' PROVE LinkInv'
  OBVIOUS
<1>1. /\ outbox' = disk /\ writes' = <<>> /\ reportSequence' = 0
      /\ active' = NoTask /\ orders' = <<>>
      /\ agentConn' = 0 /\ authed' = FALSE /\ down' = <<>>
      /\ broken' = broken \cup ({agentConn} \ {0})
      /\ UNCHANGED <<conns, verifying, serverOpen, peer, up, breaks, made, disk>>
      /\ UNCHANGED <<calls, tasks, updates, handled, applied>>
  BY DEF Crash, serverVars
<1>2. Reports' = Reports
  BY <1>1 DEF Reports
<1>3. DesktopOK'
  BY <1>1, <1>2 DEF LinkInv, DesktopOK
<1>4. ServerOK'
  BY <1>1, <1>2 DEF LinkInv, ServerOK
<1>5. SessionOK'
  <2>1. /\ conns \in Nat /\ breaks \in Nat /\ peer \in 0..conns
        /\ verifying \subseteq 1..conns /\ serverOpen \subseteq 1..conns
        /\ broken \subseteq 1..conns /\ agentConn \in 0..conns
        /\ up \in [1..conns -> Seq(Reports)]
    BY DEF LinkInv, SessionOK, SessionTypeOK
  <2>2. agentConn' \in 0..conns /\ broken' \subseteq 1..conns
    BY <1>1, <2>1
  <2>3. down' \in Seq(SentDown')
    BY <1>1
  <2>4. authed' \in BOOLEAN
    BY <1>1
  <2> QED
    BY <1>1, <1>2, <2>1, <2>2, <2>3, <2>4, Zenon DEF SessionOK, SessionTypeOK
<1>6. KnownInv'
  BY <1>1, <1>2 DEF LinkInv, KnownInv, Known
<1> QED
  BY <1>3, <1>4, <1>5, <1>6 DEF LinkInv

LEMMA ServerReceivesTyped ==
  ASSUME LinkInv, KeepInv', NEW c \in 1..conns, ServerReceives(c)
  PROVE  LinkInv'
<1> DEFINE n == Head(up[c])
<1>1. /\ up[c] # <<>> /\ up' = [up EXCEPT ![c] = Tail(@)]
      /\ handled' = handled \cup {n}
      /\ updates' = Write(made[n].task, made[n].state, n)
      /\ down' = DownOn(c, Ack(n))
      /\ UNCHANGED <<conns, agentConn, authed, verifying, serverOpen, peer, broken, breaks>>
      /\ UNCHANGED <<made, outbox, disk, writes, reportSequence, active, orders, calls,
                     tasks, applied>>
  BY DEF ServerReceives, desktopVars
<1>2. up[c] \in Seq(Reports)
  BY DEF LinkInv, SessionOK, SessionTypeOK
<1>3. n \in Reports /\ Tail(up[c]) \in Seq(Reports)
  BY <1>1, <1>2
<1>4. Reports' = Reports /\ made \in Seq(Report) /\ n \in Nat
  BY <1>1, <1>3 DEF Reports, LinkInv, DesktopOK
<1> HIDE DEF n
<1>5. DesktopOK'
  BY <1>1, <1>4 DEF LinkInv, DesktopOK
<1>6. ServerOK'
  <2> DEFINE u == [task |-> made[n].task, state |-> made[n].state, by |-> n]
  <2>1. DOMAIN updates' = DOMAIN updates \cup {u}
    BY <1>1, MoreUpdates
  <2>2. made[n] \in Report
    BY <1>3, <1>4 DEF Reports
  <2>3. u \in Update /\ u.state # "none" /\ u.by \in handled' \cup {0}
    BY <1>1, <1>4, <2>2 DEF Report, Update, ServerStates, EventStates, OutcomeStates
  <2> HIDE DEF u
  <2>4. \A v \in DOMAIN updates' :
          v \in Update /\ v.state # "none" /\ v.by \in handled' \cup {0}
    BY <1>1, <2>1, <2>3 DEF LinkInv, ServerOK
  <2>5. handled' \subseteq Reports' /\ applied' \subseteq handled'
    BY <1>1, <1>3, <1>4 DEF LinkInv, ServerOK
  <2> QED
    BY <1>1, <2>4, <2>5 DEF LinkInv, ServerOK
<1>7. SessionOK'
  <2>1. up \in [1..conns -> Seq(Reports)]
    BY DEF LinkInv, SessionOK, SessionTypeOK
  <2>2. up' \in [1..conns -> Seq(Reports')]
    BY <1>1, <1>3, <1>4, <2>1
  <2>3. authed' \in BOOLEAN /\ (authed' => agentConn # 0)
    BY <1>1 DEF LinkInv, SessionOK, SessionTypeOK
  <2>4. agentConn = 0 => down' = <<>>
    BY <1>1, DownOnOpen DEF LinkInv
  <2> QED
    BY <1>1, <1>6, <2>2, <2>3, <2>4, SessionKept DEF ServerOK
<1>8. KnownInv'
  <2>1. down \in Seq(SentDown)
    BY DEF LinkInv, SessionOK, SessionTypeOK
  <2>2. \A i \in 1..Len(down') :
          down'[i].kind \in {"start", "cancel"} => Known(down'[i].task)
    BY <1>1, <2>1 DEF LinkInv, KnownInv, DownOn, Ack
  <2> QED
    BY <1>1, <1>4, <2>2 DEF LinkInv, KnownInv, Known
<1> QED
  BY <1>5, <1>6, <1>7, <1>8 DEF LinkInv

(* A step of the control plane that takes no report: it may save or update *)
(* tasks, start or end updates, and send one command of a saved task.      *)
LEMMA CoordinatorTyped ==
  ASSUME LinkInv, KeepInv',
         UNCHANGED <<conns, agentConn, authed, verifying, serverOpen, peer, broken, up,
                     breaks>>,
         UNCHANGED desktopVars, handled' = handled,
         calls' \subseteq Tasks,
         tasks' \in [Tasks -> [state : ServerStates, by : 0..Len(made)]],
         \A u \in DOMAIN updates' :
           u \in Update /\ u.state # "none" /\ u.by \in handled \cup {0},
         applied' \subseteq handled,
         \A t \in Tasks : Known(t) => tasks'[t].state # "none",
         \A t \in calls' : tasks'[t].state # "none",
         \/ down' = down
         \/ \E c : \E o \in Order :
              down' = DownOn(c, o) /\ tasks'[o.task].state # "none"
  PROVE  LinkInv'
<1>1. UNCHANGED <<made, outbox, disk, writes, reportSequence, active, orders>>
  BY DEF desktopVars
<1>2. Reports' = Reports
  BY <1>1 DEF Reports
<1>3. DesktopOK'
  BY <1>1, <1>2 DEF LinkInv, DesktopOK
<1>4. ServerOK'
  BY <1>1, <1>2 DEF LinkInv, ServerOK
<1>5. SessionOK'
  <2>1. authed' \in BOOLEAN /\ (authed' => agentConn # 0)
    BY DEF LinkInv, SessionOK, SessionTypeOK
  <2>2. agentConn = 0 => down' = <<>>
    <3>1. agentConn = 0 => down = <<>>
      BY DEF LinkInv, SessionOK, SessionTypeOK
    <3> QED
      BY <3>1, DownOnOpen DEF LinkInv
  <2>3. up' \in [1..conns -> Seq(Reports')]
    BY <1>2 DEF LinkInv, SessionOK, SessionTypeOK
  <2> QED
    BY <1>4, <2>1, <2>2, <2>3, SessionKept DEF ServerOK
<1>6. KnownInv'
  <2>1. /\ down \in Seq(SentDown) /\ orders \in Seq(Order) /\ made \in Seq(Report)
        /\ active \in Tasks \cup {NoTask}
    BY DEF LinkInv, SessionOK, SessionTypeOK, DesktopOK
  <2>2. \A i \in 1..Len(down) :
          down[i].kind \in {"start", "cancel"} => tasks'[down[i].task].state # "none"
    <3> SUFFICES ASSUME NEW i \in 1..Len(down), down[i].kind \in {"start", "cancel"}
                 PROVE  tasks'[down[i].task].state # "none"
      OBVIOUS
    <3>1. down[i] \in Order
      BY <2>1 DEF SentDown, Hello, Ack
    <3>2. down[i].task \in Tasks /\ Known(down[i].task)
      BY <3>1 DEF Order, LinkInv, KnownInv
    <3>3. \A t \in Tasks : Known(t) => tasks'[t].state # "none"
      OBVIOUS
    <3> QED
      BY <1>1, <3>2, <3>3 DEF Known
  <2>3. \A i \in 1..Len(down') :
          down'[i].kind \in {"start", "cancel"} => tasks'[down'[i].task].state # "none"
    <3>1. CASE down' = down
      BY <2>2, <3>1 DEF Known
    <3>2. ASSUME NEW c, NEW o \in Order, down' = DownOn(c, o), tasks'[o.task].state # "none"
          PROVE  \A i \in 1..Len(down') :
                   down'[i].kind \in {"start", "cancel"} => tasks'[down'[i].task].state # "none"
      BY <2>1, <2>2, <3>2 DEF DownOn, Known
    <3> QED
      BY <3>1, <3>2
  <2>4. active' # NoTask => tasks'[active'].state # "none"
    BY <1>1, <2>1 DEF LinkInv, KnownInv, Known
  <2>5. \A i \in 1..Len(orders') : tasks'[orders'[i].task].state # "none"
    <3> SUFFICES ASSUME NEW i \in 1..Len(orders) PROVE tasks'[orders'[i].task].state # "none"
      BY <1>1
    <3>1. orders[i] \in Order /\ Known(orders[i].task)
      BY <2>1 DEF LinkInv, KnownInv
    <3>2. orders[i].task \in Tasks
      BY <3>1 DEF Order
    <3> QED
      BY <1>1, <3>1, <3>2 DEF Known
  <2>6. \A n \in Reports' : tasks'[made'[n].task].state # "none"
    <3> SUFFICES ASSUME NEW n \in Reports PROVE tasks'[made'[n].task].state # "none"
      BY <1>2
    <3>1. made[n] \in Report /\ Known(made[n].task)
      BY <2>1 DEF Reports, LinkInv, KnownInv
    <3>2. made[n].task \in Tasks
      BY <3>1 DEF Report
    <3> QED
      BY <1>1, <3>1, <3>2 DEF Known
  <2> QED
    BY <2>3, <2>4, <2>5, <2>6 DEF KnownInv, Known
<1> QED
  BY <1>3, <1>4, <1>5, <1>6 DEF LinkInv

LEMMA UpdateStateTyped == LinkInv /\ UpdateState /\ KeepInv' => LinkInv'
<1> SUFFICES ASSUME LinkInv, UpdateState, KeepInv' PROVE LinkInv'
  OBVIOUS
<1>1. PICK u \in DOMAIN updates :
        /\ updates' = updates (-) SetToBag({u})
        /\ tasks' = IF tasks[u.task].state = "none" THEN tasks
                    ELSE [tasks EXCEPT ![u.task] = [state |-> u.state, by |-> u.by]]
        /\ applied' = applied \cup ({u.by} \ {0})
        /\ UNCHANGED <<sessionVars, desktopVars, calls, handled, countVars>>
  BY DEF UpdateState, BagToSet
<1>2. /\ u \in Update /\ u.state # "none" /\ u.by \in handled \cup {0}
      /\ handled \subseteq Reports /\ made \in Seq(Report)
  BY DEF LinkInv, ServerOK, DesktopOK
<1>3. u.task \in Tasks /\ u.state \in ServerStates /\ u.by \in 0..Len(made)
  BY <1>2 DEF Update, Reports
<1>4. \A v \in DOMAIN updates' :
        v \in Update /\ v.state # "none" /\ v.by \in handled \cup {0}
  BY <1>1, FewerUpdates DEF LinkInv, ServerOK
<1>5. tasks \in [Tasks -> [state : ServerStates, by : 0..Len(made)]]
  BY DEF LinkInv, ServerOK
<1> DEFINE row == [state |-> u.state, by |-> u.by]
<1>6. row \in [state : ServerStates, by : 0..Len(made)] /\ row.state # "none"
  BY <1>2, <1>3
<1>7. tasks' = tasks \/ tasks' = [tasks EXCEPT ![u.task] = row]
  BY <1>1
<1> HIDE DEF row
<1>8. tasks' \in [Tasks -> [state : ServerStates, by : 0..Len(made)]]
  BY <1>5, <1>6, <1>7
<1>9. \A t \in Tasks : Known(t) => tasks'[t].state # "none"
  BY <1>3, <1>5, <1>6, <1>7 DEF Known
<1>10. calls' \subseteq Tasks /\ \A t \in calls' : tasks'[t].state # "none"
  BY <1>1, <1>9 DEF LinkInv, ServerOK, KnownInv
<1>11. applied' \subseteq handled
  BY <1>1, <1>2 DEF LinkInv, ServerOK
<1> QED
  BY <1>1, <1>4, <1>8, <1>9, <1>10, <1>11, CoordinatorTyped DEF sessionVars

LEMMA UpdateFailsTyped == LinkInv /\ UpdateFails /\ KeepInv' => LinkInv'
<1> SUFFICES ASSUME LinkInv, UpdateFails, KeepInv' PROVE LinkInv'
  OBVIOUS
<1>1. PICK u \in DOMAIN updates : updates' = updates (-) SetToBag({u})
  BY DEF UpdateFails, BagToSet
<1>2. UNCHANGED <<sessionVars, desktopVars, calls, tasks, handled, applied>>
  BY DEF UpdateFails
<1>3. \A v \in DOMAIN updates' :
        v \in Update /\ v.state # "none" /\ v.by \in handled \cup {0}
  BY <1>1, FewerUpdates DEF LinkInv, ServerOK
<1>4. /\ \A t \in Tasks : Known(t) => tasks'[t].state # "none"
      /\ \A t \in calls' : tasks'[t].state # "none"
  BY <1>2 DEF LinkInv, KnownInv, Known
<1>5. /\ calls' \subseteq Tasks /\ applied' \subseteq handled
      /\ tasks' \in [Tasks -> [state : ServerStates, by : 0..Len(made)]]
  BY <1>2 DEF LinkInv, ServerOK
<1> QED
  BY <1>2, <1>3, <1>4, <1>5, CoordinatorTyped DEF sessionVars

LEMMA RegisterTyped ==
  ASSUME LinkInv, KeepInv', NEW t \in Tasks, Register(t)
  PROVE  LinkInv'
<1> DEFINE row == [state |-> "WAITING_DEVICE", by |-> 0]
<1>1. /\ tasks' = [tasks EXCEPT ![t] = row]
      /\ calls' = calls \cup {t}
      /\ UNCHANGED <<sessionVars, desktopVars, updates, handled, applied>>
  BY DEF Register
<1>2. row \in [state : ServerStates, by : 0..Len(made)] /\ row.state # "none"
  BY DEF ServerStates, LinkInv, DesktopOK
<1> HIDE DEF row
<1>3. tasks \in [Tasks -> [state : ServerStates, by : 0..Len(made)]]
  BY DEF LinkInv, ServerOK
<1>4. tasks' \in [Tasks -> [state : ServerStates, by : 0..Len(made)]]
  BY <1>1, <1>2, <1>3
<1>5. /\ \A v \in Tasks : Known(v) => tasks'[v].state # "none"
      /\ \A v \in calls' : tasks'[v].state # "none"
  BY <1>1, <1>2, <1>3 DEF LinkInv, ServerOK, KnownInv, Known
<1>6. /\ calls' \subseteq Tasks /\ applied' \subseteq handled
      /\ \A u \in DOMAIN updates' :
           u \in Update /\ u.state # "none" /\ u.by \in handled \cup {0}
  BY <1>1 DEF LinkInv, ServerOK
<1> QED
  BY <1>1, <1>4, <1>5, <1>6, CoordinatorTyped DEF sessionVars

LEMMA DispatchStartTyped ==
  ASSUME LinkInv, KeepInv', NEW t \in Tasks, DispatchStart(t)
  PROVE  LinkInv'
<1> DEFINE o == [kind |-> "start", task |-> t]
<1>1. /\ t \in calls /\ calls' = calls \ {t}
      /\ down' = down \/ down' = DownOn(peer, o)
      /\ UNCHANGED <<conns, agentConn, authed, verifying, serverOpen, peer, broken, up,
                     breaks>>
      /\ UNCHANGED <<desktopVars, tasks, updates, handled, applied>>
  BY DEF DispatchStart
<1>2. o \in Order /\ o.task = t
  BY DEF Order
<1> HIDE DEF o
<1>3. Known(t)
  BY <1>1 DEF LinkInv, KnownInv
<1>4. /\ \A v \in Tasks : Known(v) => tasks'[v].state # "none"
      /\ \A v \in calls' : tasks'[v].state # "none"
      /\ tasks'[o.task].state # "none"
  BY <1>1, <1>2, <1>3 DEF LinkInv, KnownInv, Known
<1>5. \/ down' = down
      \/ \E c : \E q \in Order : down' = DownOn(c, q) /\ tasks'[q.task].state # "none"
  BY <1>1, <1>2, <1>4
<1>6. /\ calls' \subseteq Tasks /\ applied' \subseteq handled
      /\ tasks' \in [Tasks -> [state : ServerStates, by : 0..Len(made)]]
      /\ \A u \in DOMAIN updates' :
           u \in Update /\ u.state # "none" /\ u.by \in handled \cup {0}
  BY <1>1 DEF LinkInv, ServerOK
<1> QED
  BY <1>1, <1>4, <1>5, <1>6, CoordinatorTyped

LEMMA DispatchCancelTyped ==
  ASSUME LinkInv, KeepInv', NEW t \in Tasks, DispatchCancel(t)
  PROVE  LinkInv'
<1> DEFINE o == [kind |-> "cancel", task |-> t]
           u == [task |-> t, state |-> "CANCELLED", by |-> 0]
<1>1. /\ tasks[t].state # "none"
      /\ down' = DownOn(peer, o)
      /\ updates' = Write(t, "CANCELLED", 0)
      /\ UNCHANGED <<conns, agentConn, authed, verifying, serverOpen, peer, broken, up,
                     breaks>>
      /\ UNCHANGED <<desktopVars, calls, tasks, handled, applied>>
  BY DEF DispatchCancel
<1>2. o \in Order /\ o.task = t
  BY DEF Order
<1>3. u \in Update /\ u.state # "none" /\ u.by \in handled \cup {0}
  BY DEF Update, ServerStates
<1>4. DOMAIN updates' = DOMAIN updates \cup {u}
  BY <1>1, MoreUpdates
<1> HIDE DEF o, u
<1>5. /\ \A v \in Tasks : Known(v) => tasks'[v].state # "none"
      /\ \A v \in calls' : tasks'[v].state # "none"
      /\ tasks'[o.task].state # "none"
  BY <1>1, <1>2 DEF LinkInv, KnownInv, Known
<1>6. \E c : \E q \in Order : down' = DownOn(c, q) /\ tasks'[q.task].state # "none"
  BY <1>1, <1>2, <1>5
<1>7. /\ calls' \subseteq Tasks /\ applied' \subseteq handled
      /\ tasks' \in [Tasks -> [state : ServerStates, by : 0..Len(made)]]
      /\ \A v \in DOMAIN updates' :
           v \in Update /\ v.state # "none" /\ v.by \in handled \cup {0}
  BY <1>1, <1>3, <1>4 DEF LinkInv, ServerOK
<1> QED
  BY <1>1, <1>5, <1>6, <1>7, CoordinatorTyped

(* The invariant is inductive: one step per action.                        *)
LEMMA LinkStep == LinkInv /\ [Next]_vars => LinkInv'
<1> SUFFICES ASSUME LinkInv, [Next]_vars PROVE LinkInv'
  OBVIOUS
<1>0. KeepInv'
  BY KeepStep DEF LinkInv
<1>1. CASE Link
  BY <1>0, <1>1, LinkTyped
<1>2. CASE TaskEvent
  BY <1>0, <1>2, TaskEventTyped
<1>3. CASE Written
  BY <1>0, <1>3, WrittenTyped
<1>4. CASE ServeOrder
  BY <1>0, <1>4, ServeOrderTyped
<1>5. CASE AgentReceives
  BY <1>0, <1>5, AgentReceivesTyped
<1>6. CASE Crash
  BY <1>0, <1>6, CrashTyped
<1>7. ASSUME NEW c \in 1..conns, ServerReceives(c)
      PROVE  LinkInv'
  BY <1>0, <1>7, ServerReceivesTyped
<1>8. CASE UpdateState
  BY <1>0, <1>8, UpdateStateTyped
<1>9. CASE UpdateFails
  BY <1>0, <1>9, UpdateFailsTyped
<1>10. ASSUME NEW t \in Tasks, Register(t)
       PROVE  LinkInv'
  BY <1>0, <1>10, RegisterTyped
<1>11. ASSUME NEW t \in Tasks, DispatchStart(t)
       PROVE  LinkInv'
  BY <1>0, <1>11, DispatchStartTyped
<1>12. ASSUME NEW t \in Tasks, DispatchCancel(t)
       PROVE  LinkInv'
  BY <1>0, <1>12, DispatchCancelTyped
<1>13. CASE UNCHANGED vars
  <2>1. /\ UNCHANGED <<conns, agentConn, authed, verifying, serverOpen, peer, broken, up,
                       breaks>>
        /\ UNCHANGED <<desktopVars, down, calls, tasks, updates, handled, applied>>
    BY <1>13 DEF vars, sessionVars, serverVars
  <2>2. /\ calls' \subseteq Tasks /\ applied' \subseteq handled
        /\ tasks' \in [Tasks -> [state : ServerStates, by : 0..Len(made)]]
        /\ \A u \in DOMAIN updates' :
             u \in Update /\ u.state # "none" /\ u.by \in handled \cup {0}
    BY <2>1 DEF LinkInv, ServerOK
  <2>3. /\ \A t \in Tasks : Known(t) => tasks'[t].state # "none"
        /\ \A t \in calls' : tasks'[t].state # "none"
    BY <2>1 DEF LinkInv, KnownInv, Known
  <2> QED
    BY <1>0, <2>1, <2>2, <2>3, CoordinatorTyped
<1> QED
  BY <1>1, <1>2, <1>3, <1>4, <1>5, <1>6, <1>7, <1>8, <1>9, <1>10, <1>11, <1>12, <1>13
     DEF Next

LEMMA LinkInvariant == Spec => []LinkInv
<1>1. Init => LinkInv
  BY LinkInvInit
<1>2. LinkInv /\ [Next]_vars => LinkInv'
  BY LinkStep
<1> QED
  BY <1>1, <1>2, PTL DEF Spec

(* Every variable of the link keeps its type (AgentRealtimeClient, the     *)
(* outbox, RealtimeHub, TaskCoordinator): no crash, break or late message  *)
(* makes either end hold a report that was never made, or acknowledge one. *)
THEOREM LinkTypesHold == Spec => []LinkTypeOK
BY LinkInvariant, LinkInvTypes, PTL

(* Whatever report the Desktop makes, its task is in the control plane's   *)
(* table: register is awaited before dispatch sends START_TASK, and no     *)
(* order, active task or report of the Desktop comes from elsewhere.       *)
THEOREM EveryReportFindsItsTask == Spec => []ReportsFindTheirTask
<1>1. LinkInv => ReportsFindTheirTask
  BY DEF LinkInv, KnownInv, Known, ReportsFindTheirTask
<1> QED
  BY <1>1, LinkInvariant, PTL

-----------------------------------------------------------------------------
(* The order of the reports.                                               *)

(* The reports made before n in the same life of the Desktop.              *)
Before(n) == {m \in 1..n-1 : made[m].boot = made[n].boot}

(* A table holds, of one life, whatever was made before what it holds.     *)
Closed(rows) == \A n \in rows : Before(n) \subseteq rows \cup handled

(* sendReport is still waiting for the image with the report.              *)
Pending(m) == \E i \in 1..Len(writes) : writes[i].report = m

(* The reports of this life are kept or handled, and numbered below the    *)
(* next number.                                                            *)
Numbered ==
  \A n \in Reports :
    /\ made[n].boot <= crashes
    /\ made[n].boot = crashes => made[n].seq <= reportSequence /\ n \in outbox \cup handled

Ascending == \A n \in Reports : \A m \in Before(n) : made[m].seq < made[n].seq

TablesClosed ==
  /\ Closed(outbox) /\ Closed(disk)
  /\ \A i \in 1..Len(writes) : Closed(writes[i].rows)

(* Only the last report made can be pending: sendReport is awaited.        *)
LastPending ==
  \A i \in 1..Len(writes) :
    writes[i].report # 0 =>
      writes[i].report = Len(made) /\ made[Len(made)].boot = crashes

(* What an authenticated Desktop keeps it has sent on this connection.     *)
Sent(c, m) == \E i \in 1..Len(up[c]) : up[c][i] = m

KeptIsSent ==
  authed /\ agentConn \in serverOpen =>
    \A m \in outbox : m \in handled \/ Pending(m) \/ Sent(agentConn, m)

(* On every connection, also one given up, a report follows those before.  *)
UpInOrder ==
  \A c \in 1..conns : \A i \in 1..Len(up[c]) : \A m \in Before(up[c][i]) :
    m \in handled \/ \E j \in 1..i-1 : up[c][j] = m

HandledInOrder == \A n \in handled : Before(n) \subseteq handled

OrderInv ==
  /\ Numbered /\ Ascending /\ TablesClosed /\ LastPending
  /\ KeptIsSent /\ UpInOrder /\ HandledInOrder

LEMMA OrderInit == Init => OrderInv
<1> SUFFICES ASSUME Init PROVE OrderInv
  OBVIOUS
<1>1. /\ made = <<>> /\ outbox = {} /\ disk = {} /\ writes = <<>> /\ handled = {}
      /\ conns = 0 /\ authed = FALSE
  BY DEF Init, SessionInit
<1>2. Reports = {} /\ 1..Len(writes) = {} /\ 1..conns = {}
  BY <1>1 DEF Reports
<1>3. Numbered /\ Ascending
  BY <1>2 DEF Numbered, Ascending
<1>4. TablesClosed /\ LastPending
  BY <1>1, <1>2 DEF TablesClosed, Closed, LastPending
<1>5. KeptIsSent
  BY <1>1 DEF KeptIsSent
<1>6. UpInOrder /\ HandledInOrder
  BY <1>1, <1>2 DEF UpInOrder, HandledInOrder
<1> QED
  BY <1>3, <1>4, <1>5, <1>6 DEF OrderInv

(* What has been handled in order keeps the tables closed and in order.    *)
LEMMA TablesKept ==
  ASSUME LinkInv, OrderInv, handled \subseteq handled',
         UNCHANGED <<made, outbox, disk, writes, reportSequence, crashes>>
  PROVE  /\ Numbered' /\ Ascending' /\ TablesClosed' /\ LastPending'
         /\ \A n \in Reports : Before(n)' = Before(n)
<1> USE DEF OrderInv
<1>1. Reports' = Reports /\ \A n : {m \in 1..n-1 : made'[m].boot = made'[n].boot} = Before(n)
  BY DEF Reports, Before
<1>2. Numbered'
  BY <1>1 DEF Numbered
<1>3. Ascending'
  BY <1>1 DEF Ascending, Before
<1>4. TablesClosed'
  BY <1>1 DEF TablesClosed, Closed, Before
<1>5. LastPending'
  BY DEF LastPending
<1> QED
  BY <1>1, <1>2, <1>3, <1>4, <1>5 DEF Before

(* A step that sends, handles and stores no report.                        *)
LEMMA OrderKept ==
  ASSUME LinkInv, OrderInv,
         UNCHANGED <<made, outbox, disk, writes, reportSequence, crashes, handled>>,
         UNCHANGED <<conns, agentConn, authed, serverOpen, up>>
  PROVE  OrderInv'
<1>1. Numbered' /\ Ascending' /\ TablesClosed' /\ LastPending'
  BY TablesKept
<1>2. KeptIsSent'
  BY DEF OrderInv, KeptIsSent, Pending, Sent
<1>3. UpInOrder' /\ HandledInOrder'
  BY DEF OrderInv, UpInOrder, HandledInOrder, Before
<1> QED
  BY <1>1, <1>2, <1>3 DEF OrderInv

LEMMA LinkOrdered == LinkInv /\ OrderInv /\ Link => OrderInv'
<1> SUFFICES ASSUME LinkInv, OrderInv, Link PROVE OrderInv'
  OBVIOUS
<1>1. UNCHANGED <<made, outbox, disk, writes, reportSequence, crashes, handled>>
  BY DEF Link, desktopVars, serverVars, countVars
<1>2. Numbered' /\ Ascending' /\ TablesClosed' /\ LastPending'
  BY <1>1, TablesKept
<1>3. HandledInOrder'
  BY <1>1 DEF OrderInv, HandledInOrder, Before
<1>4. /\ conns \in Nat /\ up \in [1..conns -> Seq(Reports)]
      /\ agentConn \in 0..conns
  BY DEF LinkInv, SessionOK, SessionTypeOK
<1>5. authed => agentConn # 0
  BY DEF LinkInv, SessionOK, SessionTypeOK
<1>6. ASSUME UNCHANGED <<conns, agentConn, authed, serverOpen, up>>
      PROVE  OrderInv'
  BY <1>1, <1>6, OrderKept
<1>7. CASE Connect
  <2>1. /\ agentConn = 0 /\ conns' = conns + 1 /\ up' = Append(up, <<>>)
        /\ authed' = authed
    BY <1>7 DEF Connect
  <2>2. KeptIsSent'
    BY <1>5, <2>1 DEF KeptIsSent
  <2>3. /\ \A c \in 1..conns : up'[c] = up[c]
        /\ Len(up'[conns + 1]) = 0
    <3>1. up \in Seq(Seq(Reports)) /\ Len(up) = conns
      BY <1>4
    <3>2. up'[conns + 1] = <<>>
      BY <2>1, <3>1
    <3> QED
      BY <2>1, <3>1, <3>2
  <2>4. ASSUME NEW c \in 1..conns', NEW i \in 1..Len(up'[c]),
               NEW m \in Before(up[c][i])'
        PROVE  m \in handled' \/ \E j \in 1..i-1 : up'[c][j] = m
    <3>1. c # conns + 1
      <4>1. SUFFICES ASSUME c = conns + 1 PROVE FALSE
        OBVIOUS
      <4>2. 1..Len(up'[c]) = {}
        BY <2>3, <4>1
      <4> QED
        BY <4>2
    <3>2. c \in 1..conns /\ up'[c] = up[c]
      BY <1>4, <2>1, <2>3, <3>1
    <3>3. m \in Before(up[c][i])
      BY <1>1, <2>4, <3>2 DEF Before
    <3> QED
      BY <1>1, <3>2, <3>3 DEF OrderInv, UpInOrder
  <2>5. UpInOrder'
    BY <2>4 DEF UpInOrder
  <2> QED
    BY <1>2, <1>3, <2>2, <2>5 DEF OrderInv
<1>8. CASE AgentCloses
  <2>1. authed' = FALSE /\ UNCHANGED <<conns, up>>
    BY <1>8 DEF AgentCloses
  <2>2. KeptIsSent'
    BY <2>1 DEF KeptIsSent
  <2>3. UpInOrder'
    BY <1>1, <2>1 DEF OrderInv, UpInOrder, Before
  <2> QED
    BY <1>2, <1>3, <2>2, <2>3 DEF OrderInv
<1>9. ASSUME NEW c \in 1..conns, Verified(c) \/ Refused(c)
      PROVE  OrderInv'
  BY <1>6, <1>9 DEF Verified, Refused
<1>10. ASSUME NEW c \in 1..conns, ServerCloses(c)
       PROVE  OrderInv'
  <2>1. /\ serverOpen' = serverOpen \ {c} /\ up' = [up EXCEPT ![c] = <<>>]
        /\ UNCHANGED <<conns, agentConn, authed>>
    BY <1>10 DEF ServerCloses
  <2>2. /\ \A d \in 1..conns : d # c => up'[d] = up[d]
        /\ Len(up'[c]) = 0
    BY <1>4, <2>1
  <2>3. KeptIsSent'
    <3>1. SUFFICES ASSUME authed', agentConn' \in serverOpen'
                   PROVE  \A m \in outbox' : m \in handled' \/ Pending(m)' \/ Sent(agentConn, m)'
      BY DEF KeptIsSent
    <3>2. agentConn # c /\ agentConn \in serverOpen /\ authed
      BY <2>1, <3>1
    <3>3. agentConn \in 1..conns
      BY <3>2 DEF LinkInv, SessionOK, SessionTypeOK
    <3>4. up'[agentConn] = up[agentConn]
      BY <2>2, <3>2, <3>3
    <3> QED
      BY <1>1, <2>1, <3>2, <3>4 DEF OrderInv, KeptIsSent, Pending, Sent
  <2>4. ASSUME NEW d \in 1..conns, NEW i \in 1..Len(up'[d]), NEW m \in Before(up[d][i])'
        PROVE  m \in handled' \/ \E j \in 1..i-1 : up'[d][j] = m
    <3>1. d # c
      <4>1. SUFFICES ASSUME d = c PROVE FALSE
        OBVIOUS
      <4>2. 1..Len(up'[d]) = {}
        BY <2>2, <4>1
      <4> QED
        BY <4>2
    <3>2. up'[d] = up[d] /\ i \in 1..Len(up[d])
      BY <2>2, <3>1
    <3>3. m \in Before(up[d][i])
      BY <1>1, <2>1, <2>4, <3>2 DEF Before
    <3> QED
      BY <1>1, <3>2, <3>3 DEF OrderInv, UpInOrder
  <2>5. UpInOrder'
    BY <2>1, <2>4 DEF UpInOrder
  <2> QED
    BY <1>2, <1>3, <2>3, <2>5 DEF OrderInv
<1>11. CASE Break
  BY <1>6, <1>11 DEF Break
<1> QED
  BY <1>7, <1>8, <1>9, <1>10, <1>11 DEF Link, Session

LEMMA TaskEventOrdered == LinkInv /\ OrderInv /\ TaskEvent => OrderInv'
<1> SUFFICES ASSUME LinkInv, OrderInv, TaskEvent PROVE OrderInv'
  OBVIOUS
<1>1. PICK s \in EventStates \cup OutcomeStates : SendReport(active, s)
  BY DEF TaskEvent
<1>2. /\ UNCHANGED <<conns, agentConn, authed, serverOpen, up>>
      /\ UNCHANGED <<disk, handled, crashes>> /\ ~Busy
  BY DEF TaskEvent, sessionVars, serverVars, countVars
<1> DEFINE N      == Len(made) + 1
           report == [task |-> active, state |-> s, seq |-> reportSequence + 1,
                      boot |-> crashes]
           image  == [rows |-> outbox \cup {N}, report |-> N]
           B(n)   == {m \in 1..n-1 : made'[m].boot = made'[n].boot}
<1>3. /\ made' = Append(made, report) /\ reportSequence' = reportSequence + 1
      /\ outbox' = outbox \cup {N} /\ writes' = Append(writes, image)
  BY <1>1 DEF SendReport, Persist
<1>4. /\ made \in Seq(Report) /\ reportSequence \in Nat /\ crashes \in Nat
      /\ outbox \subseteq Reports /\ disk \subseteq Reports /\ handled \subseteq Reports
      /\ writes \in Seq([rows : SUBSET Reports, report : 0..Len(made)])
  BY DEF LinkInv, DesktopOK, ServerOK, KeepInv, KeepTypeOK
<1>5. /\ Len(made) \in Nat /\ Len(made') = N
      /\ \A n \in Reports : made'[n] = made[n]
      /\ made'[N] = report /\ Reports' = Reports \cup {N}
  BY <1>3, <1>4 DEF Reports
<1>6. /\ report.seq = reportSequence + 1 /\ report.boot = crashes
      /\ image.rows = outbox \cup {N} /\ image.report = N
  OBVIOUS
<1> HIDE DEF report, image
<1>7. \A n \in Reports : n \in Nat /\ n < N /\ n # 0
  BY <1>5 DEF Reports
<1>8. \A n \in Reports : B(n) = Before(n)
  BY <1>5, <1>7 DEF Before, Reports
<1>9. \A m \in B(N) : m \in Reports /\ made[m].boot = crashes /\ made'[m] = made[m]
  BY <1>5, <1>6 DEF Reports
<1>10. B(N) \subseteq outbox \cup handled
  BY <1>9 DEF OrderInv, Numbered
<1>11. Numbered'
  <2> SUFFICES ASSUME NEW n \in Reports'
               PROVE  /\ made'[n].boot <= crashes
                      /\ made'[n].boot = crashes =>
                           made'[n].seq <= reportSequence' /\ n \in outbox' \cup handled
    BY <1>2 DEF Numbered
  <2>1. CASE n = N
    BY <1>3, <1>4, <1>5, <1>6, <2>1
  <2>2. CASE n \in Reports
    <3>1. /\ made[n].boot <= crashes
          /\ made[n].boot = crashes =>
               made[n].seq <= reportSequence /\ n \in outbox \cup handled
      BY <2>2 DEF OrderInv, Numbered
    <3>2. made[n].seq \in Nat
      <4>1. made[n] \in Report
        BY <1>4, <2>2 DEF Reports
      <4> QED
        BY <4>1 DEF Report
    <3>3. made'[n] = made[n] /\ (n \in outbox \cup handled => n \in outbox' \cup handled)
      BY <1>3, <1>5, <2>2
    <3>4. made[n].seq <= reportSequence => made[n].seq <= reportSequence'
      BY <1>3, <1>4, <3>2
    <3> QED
      BY <3>1, <3>3, <3>4
  <2> QED
    BY <1>5, <2>1, <2>2
<1>12. Ascending'
  <2> SUFFICES ASSUME NEW n \in Reports', NEW m \in B(n)
               PROVE  made'[m].seq < made'[n].seq
    BY DEF Ascending, Before
  <2>1. CASE n = N
    <3>1. made[m].seq <= reportSequence /\ made[m] \in Report
      BY <1>4, <1>9, <2>1 DEF OrderInv, Numbered, Reports
    <3>2. made[m].seq \in Nat
      BY <3>1 DEF Report
    <3> QED
      BY <1>4, <1>5, <1>6, <1>9, <2>1, <3>1, <3>2
  <2>2. CASE n \in Reports
    <3>1. m \in Before(n) /\ m \in Reports
      BY <1>5, <1>7, <1>8, <2>2 DEF Before, Reports
    <3> QED
      BY <1>5, <2>2, <3>1 DEF OrderInv, Ascending
  <2> QED
    BY <1>5, <2>1, <2>2
<1>13. \A rows \in SUBSET Reports : Closed(rows) => \A n \in rows : B(n) \subseteq rows \cup handled'
  BY <1>2, <1>8 DEF Closed
<1> HIDE DEF B
<1>14. \A n \in outbox' : B(n) \subseteq outbox' \cup handled'
  <2>1. \A n \in outbox : B(n) \subseteq outbox \cup handled'
    BY <1>4, <1>13 DEF OrderInv, TablesClosed
  <2> QED
    BY <1>2, <1>3, <1>10, <2>1
<1>15. /\ Len(writes) \in Nat /\ Len(writes') = Len(writes) + 1
       /\ \A i \in 1..Len(writes) : writes'[i] = writes[i]
       /\ writes'[Len(writes) + 1] = image
  BY <1>3, <1>4
<1>16. TablesClosed'
  <2>1. Closed(outbox)'
    BY <1>14 DEF Closed, Before, B
  <2>2. Closed(disk)'
    BY <1>2, <1>4, <1>13 DEF OrderInv, TablesClosed, Closed, Before, B
  <2>3. ASSUME NEW i \in 1..Len(writes')
        PROVE  Closed(writes[i].rows)'
    <3>1. CASE i = Len(writes) + 1
      BY <1>3, <1>6, <1>14, <1>15, <3>1 DEF Closed, Before, B
    <3>2. CASE i \in 1..Len(writes)
      <4>1. Closed(writes[i].rows)
        BY <3>2 DEF OrderInv, TablesClosed
      <4>2. writes[i] \in [rows : SUBSET Reports, report : 0..Len(made)]
        BY <1>4, <3>2, ElementOfSeq
      <4>3. \A n \in writes[i].rows : B(n) \subseteq writes[i].rows \cup handled'
        BY <1>13, <4>1, <4>2
      <4> QED
        BY <1>15, <3>2, <4>3 DEF Closed, Before, B
    <3> QED
      BY <1>15, <3>1, <3>2
  <2> QED
    BY <2>1, <2>2, <2>3 DEF TablesClosed
<1>17. \A i \in 1..Len(writes) : writes[i].report = 0
  BY <1>2, <1>4 DEF Busy
<1>18. LastPending'
  <2> SUFFICES ASSUME NEW i \in 1..Len(writes'), writes'[i].report # 0
               PROVE  writes'[i].report = Len(made') /\ made'[Len(made')].boot = crashes'
    BY DEF LastPending
  <2>1. i = Len(writes) + 1
    BY <1>15, <1>17
  <2> QED
    BY <1>2, <1>5, <1>6, <1>15, <2>1
<1>19. KeptIsSent'
  <2> SUFFICES ASSUME authed', agentConn' \in serverOpen', NEW m \in outbox'
               PROVE  m \in handled' \/ Pending(m)' \/ Sent(agentConn, m)'
    BY DEF KeptIsSent
  <2>1. CASE m = N
    BY <1>6, <1>15, <2>1 DEF Pending
  <2>2. CASE m \in outbox
    <3>1. m # 0
      BY <1>4, <1>7, <2>2
    <3>2. m \in handled \/ Sent(agentConn, m)
      BY <1>2, <1>17, <2>2, <3>1 DEF OrderInv, KeptIsSent, Pending
    <3> QED
      BY <1>2, <3>2 DEF Sent
  <2> QED
    BY <1>3, <2>1, <2>2
<1>20. UpInOrder'
  <2> SUFFICES ASSUME NEW c \in 1..conns, NEW i \in 1..Len(up[c]), NEW m \in B(up[c][i])
               PROVE  m \in handled \/ \E j \in 1..i-1 : up[c][j] = m
    BY <1>2 DEF UpInOrder, Before, B
  <2>1. up[c] \in Seq(Reports)
    BY DEF LinkInv, SessionOK, SessionTypeOK
  <2>2. up[c][i] \in Reports
    BY <2>1
  <2>3. m \in Before(up[c][i])
    BY <1>8, <2>2
  <2> QED
    BY <2>3 DEF OrderInv, UpInOrder
<1>21. HandledInOrder'
  BY <1>2, <1>4, <1>8 DEF OrderInv, HandledInOrder, Before, B
<1> QED
  BY <1>11, <1>12, <1>16, <1>18, <1>19, <1>20, <1>21 DEF OrderInv

LEMMA WrittenOrdered == LinkInv /\ OrderInv /\ Written => OrderInv'
<1> SUFFICES ASSUME LinkInv, OrderInv, Written PROVE OrderInv'
  OBVIOUS
<1> DEFINE w == Head(writes)
<1>1. /\ writes # <<>> /\ disk' = w.rows /\ writes' = Tail(writes)
      /\ up' = IF w.report # 0 THEN Up(<<w.report>>) ELSE up
      /\ UNCHANGED <<conns, agentConn, authed, serverOpen, made, outbox, reportSequence,
                     handled, crashes>>
  BY DEF Written, serverVars, countVars
<1>2. /\ made \in Seq(Report) /\ outbox \subseteq Reports
      /\ writes \in Seq([rows : SUBSET Reports, report : 0..Len(made)])
  BY DEF LinkInv, DesktopOK
<1>3. /\ w = writes[1] /\ 1 \in 1..Len(writes)
      /\ \A i \in 1..Len(writes') :
           i + 1 \in 1..Len(writes) /\ writes'[i] = writes[i + 1]
      /\ \A i \in 1..Len(writes) : i # 1 => i - 1 \in 1..Len(writes') /\ writes'[i - 1] = writes[i]
      /\ w.report \in 0..Len(made)
  <2>1. \A i \in 1..Len(writes') :
           i + 1 \in 1..Len(writes) /\ writes'[i] = writes[i + 1]
    BY <1>1, <1>2
  <2>2. w = writes[1] /\ 1 \in 1..Len(writes)
    BY <1>1, <1>2
  <2>3. writes[1] \in [rows : SUBSET Reports, report : 0..Len(made)]
    BY <1>2, <2>2, ElementOfSeq
  <2>4. w.report \in 0..Len(made)
    BY <2>2, <2>3
  <2>5. Len(writes') = Len(writes) - 1 /\ Len(writes) \in Nat
    BY <1>1, <1>2
  <2> QED
    BY <2>1, <2>2, <2>4, <2>5
<1> HIDE DEF w
<1>4. Reports' = Reports /\ \A n : Before(n)' = {m \in 1..n-1 : made[m].boot = made[n].boot}
  BY <1>1 DEF Reports, Before
<1>5. Numbered' /\ Ascending' /\ HandledInOrder'
  <2>1. Numbered'
    BY <1>1, <1>4 DEF OrderInv, Numbered
  <2>2. Ascending' /\ HandledInOrder'
    BY <1>1, <1>4 DEF OrderInv, Ascending, HandledInOrder, Before
  <2> QED
    BY <2>1, <2>2
<1>6. TablesClosed'
  BY <1>1, <1>3 DEF OrderInv, TablesClosed, Closed, Before
<1>7. LastPending'
  BY <1>1, <1>3 DEF OrderInv, LastPending
<1>8. up \in [1..conns -> Seq(Reports)] /\ (authed => agentConn \in 1..conns)
  BY DEF LinkInv, SessionOK, SessionTypeOK
<1>9. CASE w.report = 0 \/ ~(authed /\ agentConn \in serverOpen)
  <2>1. up' = up
    BY <1>1, <1>9 DEF Up
  <2>2. UpInOrder'
    <3>1. UNCHANGED <<conns, up, made, handled>>
      BY <1>1, <2>1
    <3> QED
      BY <3>1 DEF OrderInv, UpInOrder, Before
  <2>3. KeptIsSent'
    <3> SUFFICES ASSUME authed', agentConn' \in serverOpen', NEW m \in outbox'
                 PROVE  m \in handled' \/ Pending(m)' \/ Sent(agentConn, m)'
      BY DEF KeptIsSent
    <3>1. m # 0 /\ w.report = 0
      BY <1>1, <1>2, <1>9 DEF Reports
    <3>2. m \in handled \/ Pending(m) \/ Sent(agentConn, m)
      BY <1>1 DEF OrderInv, KeptIsSent
    <3>3. Pending(m) => Pending(m)'
      BY <1>3, <3>1 DEF Pending
    <3> QED
      BY <1>1, <2>1, <3>2, <3>3 DEF Sent
  <2> QED
    BY <1>5, <1>6, <1>7, <2>2, <2>3 DEF OrderInv
<1>10. CASE w.report # 0 /\ authed /\ agentConn \in serverOpen
  <2> DEFINE n == w.report
             u == up[agentConn]
  <2>1. n = Len(made) /\ made[n].boot = crashes /\ n \in Reports
    BY <1>3, <1>10 DEF OrderInv, LastPending, Reports
  <2>2. /\ agentConn \in 1..conns /\ u \in Seq(Reports)
        /\ up' = [up EXCEPT ![agentConn] = u \o <<n>>]
    BY <1>1, <1>8, <1>10 DEF Up
  <2> HIDE DEF n
  <2>3. /\ up'[agentConn] = u \o <<n>>
        /\ \A c \in 1..conns : c # agentConn => up'[c] = up[c]
    BY <1>8, <2>2
  <2>4. /\ Len(u) \in Nat /\ Len(u \o <<n>>) = Len(u) + 1
        /\ \A i \in 1..Len(u) : (u \o <<n>>)[i] = u[i]
        /\ (u \o <<n>>)[Len(u) + 1] = n
    BY <2>1, <2>2
  <2>5. KeptIsSent'
    <3> SUFFICES ASSUME NEW m \in outbox
                 PROVE  m \in handled \/ Pending(m)' \/ Sent(agentConn, m)'
      BY <1>1 DEF KeptIsSent
    <3>1. m \in handled \/ Pending(m) \/ Sent(agentConn, m)
      BY <1>10 DEF OrderInv, KeptIsSent
    <3>2. ASSUME Sent(agentConn, m)
          PROVE  Sent(agentConn, m)'
      <4>1. PICK i \in 1..Len(u) : u[i] = m
        BY <3>2 DEF Sent
      <4>2. i \in 1..Len(up'[agentConn]) /\ up'[agentConn][i] = m
        BY <2>3, <2>4, <4>1
      <4> QED
        BY <1>1, <4>2 DEF Sent
    <3>3. Pending(m) => Pending(m)' \/ m = n
      BY <1>3 DEF Pending, n
    <3>4. m = n => Sent(agentConn, m)'
      <4>1. Len(u) + 1 \in 1..Len(up'[agentConn]) /\ up'[agentConn][Len(u) + 1] = n
        BY <2>3, <2>4
      <4> QED
        BY <1>1, <4>1 DEF Sent
    <3> QED
      BY <3>1, <3>2, <3>3, <3>4
  <2>6. ASSUME NEW m \in Before(n)
        PROVE  m \in handled \/ \E j \in 1..Len(u) : u[j] = m
    <3>1. m \in Reports /\ m < Len(made) /\ made[m].boot = crashes /\ m # 0
      BY <1>2, <2>1 DEF Before, Reports
    <3>2. m \in outbox \cup handled
      BY <3>1 DEF OrderInv, Numbered
    <3>3. ~Pending(m)
      <4>1. \A i \in 1..Len(writes) : writes[i].report \in {0, Len(made)}
        BY DEF OrderInv, LastPending
      <4>2. Len(made) \in Nat /\ m \in Nat
        BY <1>2, <3>1 DEF Reports
      <4> QED
        BY <3>1, <4>1, <4>2 DEF Pending
    <3> QED
      BY <1>10, <3>2, <3>3 DEF OrderInv, KeptIsSent, Sent
  <2>7. UpInOrder'
    <3> SUFFICES ASSUME NEW c \in 1..conns, NEW i \in 1..Len(up'[c]),
                        NEW m \in Before(up'[c][i])
                 PROVE  m \in handled \/ \E j \in 1..i-1 : up'[c][j] = m
      <4>1. UNCHANGED <<conns, made, handled>>
        BY <1>1
      <4> QED
        BY <4>1 DEF UpInOrder, Before
    <3>1. CASE c # agentConn
      BY <2>3, <3>1 DEF OrderInv, UpInOrder
    <3>2. CASE c = agentConn /\ i \in 1..Len(u)
      <4>1. m \in Before(u[i])
        BY <2>3, <2>4, <3>2
      <4>2. m \in handled \/ \E j \in 1..i-1 : u[j] = m
        BY <2>2, <3>2, <4>1 DEF OrderInv, UpInOrder
      <4>3. \A j \in 1..i-1 : j \in 1..Len(u) /\ up'[c][j] = u[j]
        BY <2>3, <2>4, <3>2
      <4> HIDE DEF u
      <4> QED
        BY <4>2, <4>3
    <3>3. CASE c = agentConn /\ i = Len(u) + 1
      <4>1. m \in Before(n)
        BY <2>3, <2>4, <3>3
      <4>2. m \in handled \/ \E j \in 1..Len(u) : u[j] = m
        BY <2>6, <4>1
      <4>3. 1..i-1 = 1..Len(u)
        BY <2>4, <3>3
      <4> QED
        BY <2>3, <2>4, <3>3, <4>2, <4>3
    <3> QED
      BY <2>3, <2>4, <3>1, <3>2, <3>3
  <2> QED
    BY <1>5, <1>6, <1>7, <2>5, <2>7 DEF OrderInv
<1> QED
  BY <1>9, <1>10

LEMMA ServeOrderOrdered == LinkInv /\ OrderInv /\ ServeOrder => OrderInv'
BY OrderKept DEF ServeOrder, sessionVars, serverVars, countVars

(* The rows of a table that is not too large are flushed, all of them and  *)
(* in the order of their numbers.                                          *)
LEMMA FlushComplete ==
  ASSUME made \in Seq(Report), NEW rows \in SUBSET Reports, NEW q \in Flushes(rows),
         FlushLimit \in Nat, Cardinality(rows) <= FlushLimit
  PROVE  /\ q \in Seq(rows)
         /\ \A m \in rows : \E i \in 1..Len(q) : q[i] = m
         /\ \A i, j \in 1..Len(q) : i < j => made[q[i]].seq <= made[q[j]].seq
<1> DEFINE k == Cardinality(rows)
<1>1. PICK p \in [1..k -> rows] : q = Limited(p) /\ Listed(rows, p)
  BY DEF Flushes
<1>2. IsFiniteSet(rows) /\ k \in Nat
  BY RowsFinite
<1> HIDE DEF k
<1>3. p \in Seq(rows) /\ Len(p) = k /\ DOMAIN p = 1..k
  BY <1>1, <1>2
<1>4. q = p
  <2>1. SubSeq(p, 1, Len(p)) = p
    BY <1>3, SubSeqFull
  <2>2. (IF Len(p) < FlushLimit THEN Len(p) ELSE FlushLimit) = Len(p)
    BY <1>2, <1>3 DEF k
  <2> QED
    BY <1>1, <2>1, <2>2 DEF Limited
<1>5. \A i, j \in 1..k : i < j => p[i] # p[j] /\ made[p[i]].seq <= made[p[j]].seq
  BY <1>1, <1>3 DEF Listed
<1>6. p \in Injection(1..k, rows)
  <2>1. \A i, j \in 1..k : p[i] = p[j] => i = j
    BY <1>2, <1>5
  <2>2. p \in [1..k -> rows]
    BY <1>1
  <2> QED
    BY <2>1, <2>2, Fun_IsInj, Zenon
<1>7. Cardinality(1..k) = Cardinality(rows)
  BY <1>2, FS_Interval DEF k
<1>8. p \in Surjection(1..k, rows)
  BY <1>2, <1>6, <1>7, FS_Injection
<1>9. \A m \in rows : \E i \in 1..k : p[i] = m
  <2> DEFINE S == 1..k
  <2>1. p \in Surjection(S, rows)
    BY <1>8
  <2> HIDE DEF S
  <2>2. \A m \in rows : \E i \in S : p[i] = m
    BY <2>1, Fun_SurjectionProperties
  <2> QED
    BY <2>2 DEF S
<1> QED
  BY <1>3, <1>4, <1>5, <1>9

LEMMA ReceiveHelloOrdered ==
  ASSUME LinkInv, OrderInv, AgentReceives, ReceiveHello,
         Cardinality(outbox) <= FlushLimit
  PROVE  OrderInv'
<1> DEFINE u == up[agentConn]
<1>1. PICK q \in Flushes(outbox) :
        up' = IF agentConn \in serverOpen THEN [up EXCEPT ![agentConn] = u \o q] ELSE up
  BY DEF ReceiveHello
<1>2. /\ UNCHANGED <<made, outbox, disk, writes, reportSequence, crashes, handled>>
      /\ UNCHANGED <<conns, agentConn, serverOpen>>
  BY DEF ReceiveHello, AgentReceives, serverVars, countVars
<1>3. /\ Numbered' /\ Ascending' /\ TablesClosed' /\ LastPending'
  BY <1>2, TablesKept
<1>4. HandledInOrder'
  BY <1>2 DEF OrderInv, HandledInOrder, Before
<1>5. made \in Seq(Report) /\ outbox \in SUBSET Reports /\ FlushLimit \in Nat
  BY LinkAssumption DEF LinkInv, DesktopOK
<1>6. /\ q \in Seq(outbox)
      /\ \A m \in outbox : \E i \in 1..Len(q) : q[i] = m
      /\ \A i, j \in 1..Len(q) : i < j => made[q[i]].seq <= made[q[j]].seq
  BY <1>5, FlushComplete
<1>7. up \in [1..conns -> Seq(Reports)] /\ serverOpen \subseteq 1..conns
  BY DEF LinkInv, SessionOK, SessionTypeOK
<1>8. CASE agentConn \notin serverOpen
  <2>1. up' = up
    BY <1>1, <1>8
  <2>2. KeptIsSent'
    BY <1>2, <1>8 DEF KeptIsSent
  <2>3. UpInOrder'
    BY <1>2, <2>1 DEF OrderInv, UpInOrder, Before
  <2> QED
    BY <1>3, <1>4, <2>2, <2>3 DEF OrderInv
<1>9. CASE agentConn \in serverOpen
  <2>1. u \in Seq(Reports) /\ q \in Seq(Reports) /\ agentConn \in 1..conns
    BY <1>5, <1>6, <1>7, <1>9, SeqMonotone
  <2>2. /\ up'[agentConn] = u \o q
        /\ \A c \in 1..conns : c # agentConn => up'[c] = up[c]
    BY <1>1, <1>7, <1>9, <2>1
  <2>3. /\ Len(u) \in Nat /\ Len(q) \in Nat /\ Len(u \o q) = Len(u) + Len(q)
        /\ \A i \in 1..Len(u) : (u \o q)[i] = u[i]
        /\ \A i \in 1..Len(q) : (u \o q)[Len(u) + i] = q[i]
    BY <2>1
  <2>4. \A i \in 1..Len(q) : Sent(agentConn, q[i])'
    <3> SUFFICES ASSUME NEW i \in 1..Len(q) PROVE Sent(agentConn, q[i])'
      OBVIOUS
    <3>1. Len(u) + i \in 1..Len(up'[agentConn]) /\ up'[agentConn][Len(u) + i] = q[i]
      BY <2>2, <2>3
    <3> QED
      BY <1>2, <3>1 DEF Sent
  <2>5. KeptIsSent'
    BY <1>2, <1>6, <2>4 DEF KeptIsSent
  <2>6. UpInOrder'
    <3> SUFFICES ASSUME NEW c \in 1..conns, NEW i \in 1..Len(up'[c]),
                        NEW m \in Before(up'[c][i])
                 PROVE  m \in handled \/ \E j \in 1..i-1 : up'[c][j] = m
      BY <1>2 DEF UpInOrder, Before
    <3>1. CASE c # agentConn
      BY <2>2, <3>1 DEF OrderInv, UpInOrder
    <3>2. CASE c = agentConn /\ i \in 1..Len(u)
      <4>1. m \in Before(u[i])
        BY <2>2, <2>3, <3>2
      <4>2. m \in handled \/ \E j \in 1..i-1 : u[j] = m
        BY <2>1, <3>2, <4>1 DEF OrderInv, UpInOrder
      <4>3. \A j \in 1..i-1 : j \in 1..Len(u) /\ up'[c][j] = u[j]
        BY <2>2, <2>3, <3>2
      <4> HIDE DEF u
      <4> QED
        BY <4>2, <4>3
    <3>3. CASE c = agentConn /\ i \in Len(u)+1..Len(u)+Len(q)
      <4> DEFINE k == i - Len(u)
      <4>1. k \in 1..Len(q) /\ i = Len(u) + k
        BY <2>3, <3>3
      <4> HIDE DEF u, k
      <4>2. m \in Before(q[k])
        BY <2>2, <2>3, <3>3, <4>1
      <4>3. q[k] \in outbox /\ q[k] \in Reports /\ m \in Reports /\ m # q[k]
        <5>1. q[k] \in outbox /\ q[k] \in Reports
          BY <1>5, <1>6, <4>1
        <5> QED
          BY <1>5, <4>2, <5>1 DEF Before, Reports
      <4>4. m \in outbox \cup handled
        BY <4>2, <4>3 DEF OrderInv, TablesClosed, Closed
      <4>5. ASSUME m \in outbox
            PROVE  \E j \in 1..i-1 : up'[c][j] = m
        <5>1. PICK l \in 1..Len(q) : q[l] = m
          BY <1>6, <4>5
        <5>2. made[m].seq < made[q[k]].seq
          BY <4>2, <4>3 DEF OrderInv, Ascending
        <5>3. made[m].seq \in Nat /\ made[q[k]].seq \in Nat
          <6>1. made[m] \in Report /\ made[q[k]] \in Report
            BY <1>5, <4>3 DEF Reports
          <6> QED
            BY <6>1 DEF Report
        <5>4. ~(k < l)
          <6>1. k < l => made[q[k]].seq <= made[q[l]].seq
            BY <1>6, <4>1
          <6> QED
            BY <5>1, <5>2, <5>3, <6>1
        <5>5. l # k
          BY <4>3, <5>1
        <5>6. Len(u) + l \in 1..i-1
          BY <2>3, <4>1, <5>4, <5>5
        <5>7. up'[c][Len(u) + l] = m
          BY <2>2, <2>3, <3>3, <5>1
        <5> QED
          BY <5>6, <5>7
      <4> QED
        BY <4>4, <4>5
    <3>4. i \in 1..Len(u) \/ c # agentConn \/ i \in Len(u)+1..Len(u)+Len(q)
      BY <2>2, <2>3
    <3> QED
      BY <3>1, <3>2, <3>3, <3>4
  <2> QED
    BY <1>3, <1>4, <2>5, <2>6 DEF OrderInv
<1> QED
  BY <1>8, <1>9

LEMMA ReceiveAckOrdered ==
  ASSUME LinkInv, OrderInv, AgentReceives, NEW n \in handled, ReceiveAck(n)
  PROVE  OrderInv'
<1> DEFINE image == [rows |-> outbox \ {n}, report |-> 0]
<1>1. /\ outbox' = outbox \ {n} /\ writes' = Append(writes, image)
      /\ UNCHANGED <<made, disk, reportSequence, crashes, handled>>
      /\ UNCHANGED <<conns, agentConn, authed, serverOpen, up>>
  BY DEF ReceiveAck, Persist, AgentReceives, serverVars, countVars
<1>2. image.rows = outbox \ {n} /\ image.report = 0
  OBVIOUS
<1> HIDE DEF image
<1>3. writes \in Seq([rows : SUBSET Reports, report : 0..Len(made)]) /\ outbox \subseteq Reports
  BY DEF LinkInv, DesktopOK
<1>4. /\ Len(writes) \in Nat /\ Len(writes') = Len(writes) + 1
      /\ \A i \in 1..Len(writes) : writes'[i] = writes[i]
      /\ writes'[Len(writes) + 1] = image
  BY <1>1, <1>3
<1>5. Numbered'
  BY <1>1 DEF OrderInv, Numbered, Reports
<1>6. Ascending' /\ HandledInOrder'
  BY <1>1 DEF OrderInv, Ascending, HandledInOrder, Before, Reports
<1>7. TablesClosed'
  <2>1. Closed(outbox)'
    BY <1>1 DEF OrderInv, TablesClosed, Closed, Before
  <2>2. Closed(disk)'
    BY <1>1 DEF OrderInv, TablesClosed, Closed, Before
  <2>3. ASSUME NEW i \in 1..Len(writes')
        PROVE  Closed(writes[i].rows)'
    <3>1. CASE i = Len(writes) + 1
      BY <1>1, <1>2, <1>4, <2>1, <3>1 DEF Closed
    <3>2. CASE i \in 1..Len(writes)
      BY <1>1, <1>4, <3>2 DEF OrderInv, TablesClosed, Closed, Before
    <3> QED
      BY <1>4, <3>1, <3>2
  <2> QED
    BY <2>1, <2>2, <2>3 DEF TablesClosed
<1>8. LastPending'
  <2> SUFFICES ASSUME NEW i \in 1..Len(writes'), writes'[i].report # 0
               PROVE  writes'[i].report = Len(made) /\ made[Len(made)].boot = crashes
    BY <1>1 DEF LastPending
  <2>1. i \in 1..Len(writes)
    BY <1>2, <1>4
  <2> QED
    BY <1>4, <2>1 DEF OrderInv, LastPending
<1>9. KeptIsSent'
  <2>1. \A m : Pending(m) => Pending(m)'
    <3> SUFFICES ASSUME NEW m, NEW i \in 1..Len(writes), writes[i].report = m
                 PROVE  \E j \in 1..Len(writes') : writes'[j].report = m
      BY DEF Pending
    <3>1. i \in 1..Len(writes') /\ writes'[i].report = m
      BY <1>4
    <3> QED
      BY <3>1
  <2>2. \A m : Sent(agentConn, m) => Sent(agentConn, m)'
    BY <1>1 DEF Sent
  <2> QED
    BY <1>1, <2>1, <2>2 DEF OrderInv, KeptIsSent
<1>10. UpInOrder'
  BY <1>1 DEF OrderInv, UpInOrder, Before
<1> QED
  BY <1>5, <1>6, <1>7, <1>8, <1>9, <1>10 DEF OrderInv

LEMMA AgentReceivesOrdered ==
  ASSUME LinkInv, OrderInv, AgentReceives, Cardinality(outbox) <= FlushLimit
  PROVE  OrderInv'
<1> DEFINE m == Head(down)
<1>1. CASE ReceiveHello
  BY <1>1, ReceiveHelloOrdered
<1>2. CASE m.kind = "ack" /\ ReceiveAck(m.report)
  <2>1. m \in DownMsg
    BY DEF AgentReceives, LinkInv, KeepInv, KeepTypeOK
  <2>2. m.report \in handled
    BY <1>2, <2>1 DEF DownMsg, Hello, Order, Ack
  <2> QED
    BY <1>2, <2>2, ReceiveAckOrdered
<1>3. CASE ReceiveOrder(m)
  BY <1>3, OrderKept DEF ReceiveOrder, AgentReceives, serverVars, countVars
<1> QED
  BY <1>1, <1>2, <1>3 DEF AgentReceives

LEMMA CrashOrdered == LinkInv /\ OrderInv /\ Crash => OrderInv'
<1> SUFFICES ASSUME LinkInv, OrderInv, Crash PROVE OrderInv'
  OBVIOUS
<1>1. /\ outbox' = disk /\ writes' = <<>> /\ reportSequence' = 0
      /\ authed' = FALSE /\ crashes' = crashes + 1
      /\ UNCHANGED <<conns, up, made, disk, handled>>
  BY DEF Crash, serverVars
<1>2. Reports' = Reports /\ 1..Len(writes') = {}
  BY <1>1 DEF Reports
<1>3. \A n \in Reports : made[n].boot \in Nat /\ made[n].boot <= crashes /\ crashes \in Nat
  <2> SUFFICES ASSUME NEW n \in Reports
               PROVE  made[n].boot \in Nat /\ made[n].boot <= crashes /\ crashes \in Nat
    OBVIOUS
  <2>1. made[n] \in Report
    BY DEF LinkInv, DesktopOK, Reports
  <2> QED
    BY <2>1 DEF Report, OrderInv, Numbered, LinkInv, KeepInv, KeepTypeOK
<1>4. Numbered'
  <2> SUFFICES ASSUME NEW n \in Reports PROVE made[n].boot <= crashes' /\ made[n].boot # crashes'
    BY <1>1, <1>2 DEF Numbered
  <2> QED
    BY <1>1, <1>3
<1>5. Ascending' /\ HandledInOrder'
  BY <1>1, <1>2 DEF OrderInv, Ascending, HandledInOrder, Before
<1>6. TablesClosed'
  BY <1>1, <1>2 DEF OrderInv, TablesClosed, Closed, Before
<1>7. LastPending' /\ KeptIsSent'
  BY <1>1, <1>2 DEF LastPending, KeptIsSent
<1>8. UpInOrder'
  BY <1>1 DEF OrderInv, UpInOrder, Before
<1> QED
  BY <1>4, <1>5, <1>6, <1>7, <1>8 DEF OrderInv

LEMMA ServerReceivesOrdered ==
  ASSUME LinkInv, OrderInv, NEW c \in 1..conns, ServerReceives(c)
  PROVE  OrderInv'
<1> DEFINE u == up[c]
           n == Head(u)
<1>1. /\ u # <<>> /\ up' = [up EXCEPT ![c] = Tail(@)] /\ handled' = handled \cup {n}
      /\ UNCHANGED <<made, outbox, disk, writes, reportSequence, crashes>>
      /\ UNCHANGED <<conns, agentConn, authed, serverOpen>>
  BY DEF ServerReceives, desktopVars, countVars
<1>2. Numbered' /\ Ascending' /\ TablesClosed' /\ LastPending'
  BY <1>1, TablesKept
<1>3. up \in [1..conns -> Seq(Reports)] /\ u \in Seq(Reports)
  BY DEF LinkInv, SessionOK, SessionTypeOK
<1>4. /\ up'[c] = Tail(u)
      /\ \A d \in 1..conns : d # c => up'[d] = up[d]
  BY <1>1, <1>3
<1>5. /\ n = u[1] /\ 1 \in 1..Len(u)
      /\ \A i \in 1..Len(Tail(u)) : i + 1 \in 1..Len(u) /\ Tail(u)[i] = u[i + 1]
      /\ \A i \in 1..Len(u) : i # 1 => i - 1 \in 1..Len(Tail(u)) /\ Tail(u)[i - 1] = u[i]
  BY <1>1, <1>3
<1>6. Before(n) \subseteq handled
  BY <1>5 DEF OrderInv, UpInOrder
<1> HIDE DEF n, u
<1>7. HandledInOrder'
  BY <1>1, <1>6 DEF OrderInv, HandledInOrder, Before
<1>8. KeptIsSent'
  <2> SUFFICES ASSUME authed, agentConn \in serverOpen, NEW m \in outbox
               PROVE  m \in handled' \/ Pending(m) \/ \E i \in 1..Len(up'[agentConn]) : up'[agentConn][i] = m
    BY <1>1 DEF KeptIsSent, Pending, Sent
  <2>1. m \in handled \/ Pending(m) \/ Sent(agentConn, m)
    BY DEF OrderInv, KeptIsSent
  <2>2. ASSUME Sent(agentConn, m)
        PROVE  m \in handled' \/ \E i \in 1..Len(up'[agentConn]) : up'[agentConn][i] = m
    <3>1. PICK i \in 1..Len(up[agentConn]) : up[agentConn][i] = m
      BY <2>2 DEF Sent
    <3>2. CASE agentConn = c
      <4>1. i = 1 => m = n
        BY <1>5, <3>1, <3>2 DEF u
      <4>2. i # 1 => i - 1 \in 1..Len(up'[c]) /\ up'[c][i - 1] = m
        BY <1>4, <1>5, <3>1, <3>2 DEF u
      <4> QED
        BY <1>1, <3>2, <4>1, <4>2
    <3>3. CASE agentConn # c
      <4>1. agentConn \in 1..conns
        BY DEF LinkInv, SessionOK, SessionTypeOK
      <4> QED
        BY <1>4, <3>1, <3>3, <4>1
    <3> QED
      BY <3>2, <3>3
  <2> QED
    BY <1>1, <2>1, <2>2
<1>9. UpInOrder'
  <2> SUFFICES ASSUME NEW d \in 1..conns, NEW i \in 1..Len(up'[d]), NEW m \in Before(up'[d][i])
               PROVE  m \in handled' \/ \E j \in 1..i-1 : up'[d][j] = m
    <3>1. UNCHANGED <<conns, made>>
      BY <1>1
    <3> QED
      BY <3>1 DEF UpInOrder, Before
  <2>1. CASE d # c
    BY <1>1, <1>4, <2>1 DEF OrderInv, UpInOrder
  <2>2. CASE d = c
    <3>1. i + 1 \in 1..Len(u) /\ m \in Before(u[i + 1]) /\ i \in Nat
      BY <1>4, <1>5, <2>2
    <3>2. m \in handled \/ \E j \in 1..(i+1)-1 : u[j] = m
      BY <3>1 DEF OrderInv, UpInOrder, u
    <3>3. ASSUME NEW j \in 1..(i+1)-1, u[j] = m
          PROVE  m = n \/ \E k \in 1..i-1 : up'[d][k] = m
      <4>1. CASE j = 1
        BY <1>5, <3>3, <4>1
      <4>2. CASE j # 1
        <5>1. j \in 1..Len(u) /\ j - 1 \in 1..i-1
          BY <3>1, <4>2
        <5>2. up'[d][j - 1] = m
          BY <1>4, <1>5, <2>2, <3>3, <4>2, <5>1
        <5> QED
          BY <5>1, <5>2
      <4> QED
        BY <4>1, <4>2
    <3> QED
      BY <1>1, <3>2, <3>3
  <2> QED
    BY <2>1, <2>2
<1> QED
  BY <1>2, <1>7, <1>8, <1>9 DEF OrderInv

(* The invariant is inductive as long as a flush sends the whole table.    *)
LEMMA OrderStep ==
  LinkInv /\ OrderInv /\ [Next]_vars /\ Cardinality(outbox) <= FlushLimit => OrderInv'
<1> SUFFICES ASSUME LinkInv, OrderInv, [Next]_vars, Cardinality(outbox) <= FlushLimit
             PROVE  OrderInv'
  OBVIOUS
<1>1. CASE Link
  BY <1>1, LinkOrdered
<1>2. CASE TaskEvent
  BY <1>2, TaskEventOrdered
<1>3. CASE Written
  BY <1>3, WrittenOrdered
<1>4. CASE ServeOrder
  BY <1>4, ServeOrderOrdered
<1>5. CASE AgentReceives
  BY <1>5, AgentReceivesOrdered
<1>6. CASE Crash
  BY <1>6, CrashOrdered
<1>7. ASSUME NEW c \in 1..conns, ServerReceives(c)
      PROVE  OrderInv'
  BY <1>7, ServerReceivesOrdered
<1>8. CASE UpdateState
  BY <1>8, OrderKept DEF UpdateState, sessionVars, desktopVars, countVars
<1>9. CASE UpdateFails
  BY <1>9, OrderKept DEF UpdateFails, sessionVars, desktopVars
<1>10. ASSUME NEW t \in Tasks, Register(t) \/ DispatchStart(t) \/ DispatchCancel(t)
       PROVE  OrderInv'
  BY <1>10, OrderKept
     DEF Register, DispatchStart, DispatchCancel, sessionVars, desktopVars, countVars
<1>11. CASE UNCHANGED vars
  BY <1>11, OrderKept DEF vars, sessionVars, desktopVars, serverVars, countVars
<1> QED
  BY <1>1, <1>2, <1>3, <1>4, <1>5, <1>6, <1>7, <1>8, <1>9, <1>10, <1>11 DEF Next

(* The control plane sees the reports of one life of the Desktop for the   *)
(* first time in the order they were made, whatever breaks, crashes and is *)
(* sent twice, as long as the outbox never holds more rows than            *)
(* flushOutbox sends: listOutbox(100) takes the first hundred, and a       *)
(* report made after them is sent at once, before the rest.                *)
THEOREM ReportsFirstInOrder ==
  Spec /\ [](Cardinality(outbox) <= FlushLimit) => []FirstInOrder
<1>1. Init => OrderInv
  BY OrderInit
<1>2. LinkInv /\ OrderInv /\ [Next]_vars /\ Cardinality(outbox) <= FlushLimit => OrderInv'
  BY OrderStep
<1>3. LinkInv /\ OrderInv => FirstInOrder
  <2> SUFFICES ASSUME LinkInv, OrderInv, NEW n \in handled, NEW m \in 1..n,
                      made[m].boot = made[n].boot
               PROVE  m \in handled
    BY DEF FirstInOrder
  <2>1. n \in Nat
    BY DEF LinkInv, ServerOK, Reports
  <2> QED
    BY <2>1 DEF OrderInv, HandledInOrder, Before
<1> QED
  BY <1>1, <1>2, <1>3, LinkInvariant, PTL DEF Spec

-----------------------------------------------------------------------------
(* When the outbox cannot overflow.                                        *)

WithinBound == Len(made) <= MaxReports

LEMMA BoundStep == LinkInv /\ WithinBound /\ [Next]_vars => WithinBound'
<1> SUFFICES ASSUME LinkInv, WithinBound, [Next]_vars
             PROVE  WithinBound'
  OBVIOUS
<1>1. CASE TaskEvent
  <2>1. PICK s \in EventStates \cup OutcomeStates : SendReport(active, s)
    BY <1>1 DEF TaskEvent
  <2>2. Len(made) < MaxReports /\ MaxReports \in Nat
    BY <2>1, LinkAssumption DEF SendReport
  <2>3. made \in Seq(Report)
    BY DEF LinkInv, DesktopOK
  <2>4. Len(made') = Len(made) + 1 /\ Len(made) \in Nat
    BY <2>1, <2>3 DEF SendReport
  <2> QED
    BY <2>2, <2>4 DEF WithinBound
<1>2. CASE UNCHANGED made
  BY <1>2 DEF WithinBound
<1>3. CASE Link \/ Written \/ ServeOrder \/ AgentReceives \/ Crash \/ UpdateState \/ UpdateFails
  BY <1>2, <1>3
     DEF Link, Written, ServeOrder, AgentReceives, Crash, UpdateState, UpdateFails, desktopVars
<1>4. CASE \E c \in 1..conns : ServerReceives(c)
  BY <1>2, <1>4 DEF ServerReceives, desktopVars
<1>5. CASE \E t \in Tasks : Register(t) \/ DispatchStart(t) \/ DispatchCancel(t)
  BY <1>2, <1>5 DEF Register, DispatchStart, DispatchCancel, desktopVars
<1>6. CASE UNCHANGED vars
  BY <1>2, <1>6 DEF vars, desktopVars
<1> QED
  BY <1>1, <1>3, <1>4, <1>5, <1>6 DEF Next

LEMMA NoMoreRowsThanReports ==
  LinkInv /\ WithinBound => Cardinality(outbox) <= MaxReports
<1> SUFFICES ASSUME LinkInv, WithinBound
             PROVE  Cardinality(outbox) <= MaxReports
  OBVIOUS
<1>1. made \in Seq(Report) /\ outbox \in SUBSET Reports
  BY DEF LinkInv, DesktopOK
<1>2. Len(made) \in Nat /\ MaxReports \in Nat
  BY <1>1, LinkAssumption
<1>3. IsFiniteSet(Reports) /\ Cardinality(Reports) = Len(made)
  <2>1. 1 \in Int /\ Len(made) \in Int
    BY <1>2
  <2>2. IsFiniteSet(1..Len(made))
        /\ Cardinality(1..Len(made)) = IF 1 > Len(made) THEN 0 ELSE Len(made) - 1 + 1
    BY <2>1, FS_Interval
  <2> QED
    BY <1>2, <2>2 DEF Reports
<1>4. Cardinality(outbox) \in Nat /\ Cardinality(outbox) <= Cardinality(Reports)
  BY <1>1, <1>3, FS_Subset, RowsFinite
<1> QED
  BY <1>2, <1>3, <1>4 DEF WithinBound

(* As long as the Desktop makes no more reports than flushOutbox sends at  *)
(* once, the control plane sees those of one life for the first time in    *)
(* the order they were made, however often the connection breaks or the    *)
(* Desktop crashes.                                                        *)
THEOREM FewReportsInOrder ==
  ASSUME MaxReports <= FlushLimit
  PROVE  Spec => []FirstInOrder
<1>1. Init => WithinBound
  BY LinkAssumption DEF Init, WithinBound
<1>2. LinkInv /\ WithinBound /\ [Next]_vars => WithinBound'
  BY BoundStep
<1>3. LinkInv /\ WithinBound => Cardinality(outbox) <= FlushLimit
  <2> SUFFICES ASSUME LinkInv, WithinBound
               PROVE  Cardinality(outbox) <= FlushLimit
    OBVIOUS
  <2>1. Cardinality(outbox) <= MaxReports
    BY NoMoreRowsThanReports
  <2>2. Cardinality(outbox) \in Nat
    BY RowsFinite DEF LinkInv, DesktopOK
  <2> QED
    BY <2>1, <2>2, LinkAssumption
<1> QED
  BY <1>1, <1>2, <1>3, LinkInvariant, ReportsFirstInOrder, PTL DEF Spec

=============================================================================
