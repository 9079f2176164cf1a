--------------------------- MODULE BrowserControl ---------------------------
(***************************************************************************)
(* What the Desktop promises about its one browser page: it has at most    *)
(* one owner, which is a task's automation or the human working for that   *)
(* task; automation begins an action on the page only while its own task   *)
(* owns it; and the page goes to the human only when no action is under    *)
(* way.  An action that has begun may outlast its task: a cancelled task   *)
(* gives the page up at once, and its last action ends later.              *)
(***************************************************************************)
CONSTANTS
  Tasks,
  NoTask

VARIABLES
  owner,        (* who may act on the page, and for which task              *)
  acting        (* the task whose automation is inside an action, or NoTask *)

controlVars == <<owner, acting>>

NoOwner == [task |-> NoTask, who |-> "nobody"]
Owner(t, who) == [task |-> t, who |-> who]

Init ==
  /\ owner = NoOwner
  /\ acting = NoTask

(* Automation of t is inside an action, or one of t begins.                *)
MayBegin(t) == acting' \in {acting} \cup (IF acting = NoTask THEN {t} ELSE {})

Grant(t) ==
  /\ owner = NoOwner
  /\ owner' = Owner(t, "automation")
  /\ MayBegin(t)

BeginAction(t) ==
  /\ owner = Owner(t, "automation")
  /\ acting = NoTask
  /\ acting' = t
  /\ UNCHANGED owner

EndAction ==
  /\ acting # NoTask
  /\ acting' = NoTask
  /\ UNCHANGED owner

HandToHuman(t) ==
  /\ owner = Owner(t, "automation")
  /\ acting = NoTask
  /\ owner' = Owner(t, "human")
  /\ UNCHANGED acting

HandBack(t) ==
  /\ owner = Owner(t, "human")
  /\ owner' = Owner(t, "automation")
  /\ MayBegin(t)

GiveUp ==
  /\ owner # NoOwner
  /\ owner' = NoOwner
  /\ UNCHANGED acting

Restarted ==
  /\ owner' = NoOwner
  /\ acting' = NoTask

Next ==
  \/ \E t \in Tasks : Grant(t) \/ BeginAction(t) \/ HandToHuman(t) \/ HandBack(t)
  \/ EndAction
  \/ GiveUp
  \/ Restarted

Spec == Init /\ [][Next]_controlVars

=============================================================================
