----------------------------- MODULE WebConsole -----------------------------
(***************************************************************************)
(* The web console (apps/web: App.vue, its panels, control-plane.ts) with  *)
(* the web session that the server keeps for it (realtime-hub.ts,          *)
(* session-registry.ts): a user asks for a task in the chat, the server's  *)
(* copies of the Desktop's reports and frames come over a socket, and the  *)
(* user controls the task and decides about its submission.                *)
(*                                                                         *)
(* Of the Desktop only what it reports is here; RunnerDesktop has the      *)
(* rest.  A submission is called by its task's name.  What the panels only *)
(* display, the step list, the counters and the chat's text, is left out,  *)
(* and so are acknowledgements of commands, which nobody looks at.         *)
(***************************************************************************)
EXTENDS Naturals, Sequences

CONSTANTS
  Tasks,
  NoTask,
  MaxBreaks,        (* how often the socket breaks                          *)
  MaxInbox,         (* messages under way at a time                         *)
  MaxTimers         (* confirmation timers running at a time                *)

VARIABLES
  view,     (* the refs of App.vue and confirmStep of SubmitPreviewPanel    *)
  timers,   (* the timers that disarm the confirmation                      *)
  socket,   (* "closed", "hello", "open"; "stopped" when the page is left   *)
  inbox,    (* messages on the socket                                       *)
  posts,    (* HTTP requests; answer is "none" until the server answers     *)
  desktop,  (* what the Desktop does with a task                            *)
  told,     (* the state of the console's task by the reports it was sent   *)
  breaks

vars == <<view, timers, socket, inbox, posts, desktop, told, breaks>>

Controls == {"PAUSE_TASK", "REQUEST_TAKEOVER", "RESUME_AFTER_HUMAN", "CANCEL_TASK",
             "APPROVE_SUBMIT", "REJECT_SUBMIT"}

Init ==
  /\ view = [state |-> "OFFLINE", running |-> FALSE, task |-> NoTask, preview |-> FALSE,
             submission |-> NoTask, armed |-> FALSE, frame |-> NoTask]
  /\ timers = 0
  /\ socket = "closed"
  /\ inbox = <<>>
  /\ posts = {}
  /\ desktop = [t \in Tasks |-> "unknown"]
  /\ told = ""
  /\ breaks = 0

-----------------------------------------------------------------------------
(* The server's side of the socket: only a registered session gets copies. *)

Copies(messages) ==
  IF socket = "open" THEN Len(inbox \o messages) <= MaxInbox /\ inbox' = inbox \o messages
                     ELSE UNCHANGED inbox

(* publishReport wraps a report in a message of this type.                 *)
PublishedType == "task.report"

Report(type, t, state) ==
  [type |-> PublishedType, report |-> type, task |-> t, state |-> state]

Says(t, state) == Report("TASK_EVENT", t, state)
Rejects(t) == Report("COMMAND_REJECTED", t, "")

(* A frame names its task in its header.                                   *)
Frame(t) == [type |-> "frame", task |-> t]

-----------------------------------------------------------------------------
(* control-plane.ts: the console's socket.                                 *)

(* onopen sends client.hello; the server verifies the token.               *)
OpenSocket ==
  /\ socket = "closed"
  /\ socket' = "hello"
  /\ UNCHANGED <<view, timers, inbox, posts, desktop, told, breaks>>

RegisterWeb ==
  /\ socket = "hello"
  /\ socket' = "open"
  /\ inbox' = <<[type |-> "server.hello"]>>
  /\ UNCHANGED <<view, timers, posts, desktop, told, breaks>>

(* What was under way is lost; nothing is sent again after reconnection.   *)
SocketCloses ==
  /\ socket \in {"hello", "open"}
  /\ breaks < MaxBreaks /\ breaks' = breaks + 1
  /\ socket' = "closed"
  /\ inbox' = <<>>
  /\ view' = [view EXCEPT !.state = "OFFLINE"]
  /\ UNCHANGED <<timers, posts, desktop, told>>

LeavePage ==
  /\ socket # "stopped"
  /\ socket' = "stopped"
  /\ inbox' = <<>>
  /\ UNCHANGED <<view, timers, posts, desktop, told, breaks>>

-----------------------------------------------------------------------------
(* App.vue: what arrives.                                                  *)

(* handleServerMessage acts on messages of this type only.                 *)
HandledType == "agent.report"

Followed(m) == view.task = NoTask \/ m.task = view.task

HandleServerMessage(m) ==
  IF m.type # HandledType \/ ~Followed(m) THEN view
  ELSE IF m.report = "COMMAND_REJECTED"
    THEN [view EXCEPT !.state = "FAILED", !.running = FALSE]
  ELSE IF m.state = "WAITING_APPROVAL_SUBMIT"
    THEN [view EXCEPT !.state = m.state, !.preview = TRUE, !.submission = m.task]
    ELSE [view EXCEPT !.state = m.state, !.running = FALSE]

HandleFrame(m) == IF m.task = view.task THEN [view EXCEPT !.frame = m.task] ELSE view

Receive ==
  /\ inbox # <<>>
  /\ LET m == Head(inbox) IN
       /\ view' = CASE m.type = "server.hello" -> [view EXCEPT !.state = "READY"]
                    [] m.type = "frame"        -> HandleFrame(m)
                    [] OTHER                   -> HandleServerMessage(m)
       /\ told' = IF m.type = PublishedType /\ m.report = "TASK_EVENT" /\ m.task = view.task
                    THEN m.state ELSE told
  /\ inbox' = Tail(inbox)
  /\ UNCHANGED <<timers, socket, posts, desktop, breaks>>

-----------------------------------------------------------------------------
(* App.vue and its panels: what the user does.                             *)

Post(type, t) == posts' = posts \cup {[type |-> type, task |-> t, answer |-> "none"]}

(* sendControl does nothing before there is a task.                        *)
SendControl(type) ==
  IF view.task = NoTask THEN UNCHANGED posts ELSE Post(type, view.task)

(* A task that nobody has asked for yet is created.                        *)
SendTask ==
  /\ ~view.running
  /\ view' = [view EXCEPT !.running = TRUE]
  /\ \E t \in Tasks :
       /\ desktop[t] = "unknown" /\ \A r \in posts : r.task # t
       /\ Post("CREATE", t)
  /\ UNCHANGED <<timers, told>>

StopTask ==
  /\ view.running
  /\ view' = [view EXCEPT !.running = FALSE]
  /\ SendControl("CANCEL_TASK")
  /\ UNCHANGED <<timers, told>>

(* The state is shown before anybody has obeyed.                           *)
Press(type, state) ==
  /\ view' = [view EXCEPT !.state = state]
  /\ SendControl(type)
  /\ UNCHANGED <<timers, told>>

(* The first click arms the button for four seconds.                       *)
Confirm ==
  /\ view.preview /\ ~view.armed
  /\ view' = [view EXCEPT !.armed = TRUE]
  /\ timers < MaxTimers /\ timers' = timers + 1
  /\ UNCHANGED <<posts, told>>

Decide(type) ==
  /\ view.preview /\ told' = "" /\ UNCHANGED timers
  /\ SendControl(type)

ConfirmAgain ==
  /\ view.armed
  /\ Decide("APPROVE_SUBMIT")
  /\ view' = [view EXCEPT !.preview = FALSE, !.state = "SUBMITTING", !.armed = FALSE]

Reject ==
  /\ Decide("REJECT_SUBMIT")
  /\ view' = [view EXCEPT !.preview = FALSE, !.state = "CANCELLED", !.running = FALSE,
                          !.armed = FALSE]

(* No decision stops the timer.                                            *)
Disarm ==
  /\ timers > 0
  /\ timers' = timers - 1
  /\ view' = [view EXCEPT !.armed = FALSE]
  /\ UNCHANGED <<posts, told>>

UserActs ==
  /\ socket # "stopped"
  /\ \/ SendTask
     \/ StopTask
     \/ Press("PAUSE_TASK", "PAUSED")
     \/ Press("REQUEST_TAKEOVER", "HUMAN_CONTROL")
     \/ Press("RESUME_AFTER_HUMAN", "RUNNING")
     \/ Confirm
     \/ ConfirmAgain
     \/ Reject
     \/ Disarm
  /\ UNCHANGED <<socket, inbox, desktop, breaks>>

(* createTask resolves, or rejects; a control only ever reports an error.  *)
Answered ==
  /\ \E r \in posts :
       /\ r.answer # "none"
       /\ posts' = posts \ {r}
       /\ IF r.type # "CREATE" THEN UNCHANGED <<view, told>>
          ELSE IF r.answer = "ok"
            THEN view' = [view EXCEPT !.task = r.task, !.state = "WAITING_DEVICE"] /\ told' = ""
            ELSE view' = [view EXCEPT !.running = FALSE] /\ UNCHANGED told
  /\ UNCHANGED <<timers, socket, inbox, desktop, breaks>>

-----------------------------------------------------------------------------
(* The server and the Desktop.                                             *)

Answers(r, answer) == posts' = (posts \ {r}) \cup {[r EXCEPT !.answer = answer]}
Does(t, what) == desktop' = [desktop EXCEPT ![t] = what]

(* The Desktop is not there, or the request is not acceptable.             *)
Refuse(r) == Answers(r, "refused") /\ UNCHANGED <<desktop, inbox>>

Create(r) == r.type = "CREATE" /\ Answers(r, "ok") /\ Does(r.task, "sent") /\ UNCHANGED inbox

(* controlTask: a task that is active obeys, or its executor rejects.      *)
Control(r) ==
  LET t == r.task IN
    /\ r.type \in Controls /\ Answers(r, "ok")
    /\ \/ Copies(<<Rejects(t)>>) /\ UNCHANGED desktop
       \/ /\ desktop[t] \in {"running", "asking"}
          /\ CASE r.type = "CANCEL_TASK" -> Does(t, "over") /\ UNCHANGED inbox
               [] r.type = "APPROVE_SUBMIT" ->
                    desktop[t] = "asking" /\ Does(t, "running") /\ UNCHANGED inbox
               [] r.type = "REJECT_SUBMIT" ->
                    desktop[t] = "asking" /\ Does(t, "over") /\ Copies(<<Says(t, "FAILED")>>)
               [] OTHER -> UNCHANGED <<desktop, inbox>>

Serve ==
  /\ \E r \in posts : r.answer = "none" /\ (Refuse(r) \/ Create(r) \/ Control(r))
  /\ UNCHANGED <<view, timers, socket, told, breaks>>

Executes(t) ==
  \/ desktop[t] = "sent" /\ Does(t, "running") /\ UNCHANGED inbox
  \/ desktop[t] = "sent" /\ Does(t, "over") /\ Copies(<<Rejects(t)>>)
  \/ /\ desktop[t] = "running" /\ Does(t, "asking")
     /\ Copies(<<Says(t, "WAITING_APPROVAL_SUBMIT")>>)
  \/ /\ desktop[t] = "running" /\ Does(t, "over")
     /\ \E state \in {"SUCCEEDED", "FAILED"} : Copies(<<Says(t, state)>>)

(* A screenshot under way when streaming stops is sent all the same.       *)
Streams(t) ==
  /\ desktop[t] \in {"running", "asking", "over"}
  /\ Copies(<<Frame(t)>>)
  /\ UNCHANGED desktop

DesktopActs ==
  /\ \E t \in Tasks : Executes(t) \/ Streams(t)
  /\ UNCHANGED <<view, timers, socket, posts, told, breaks>>

-----------------------------------------------------------------------------
Next ==
  \/ OpenSocket
  \/ RegisterWeb
  \/ SocketCloses
  \/ LeavePage
  \/ Receive
  \/ UserActs
  \/ Answered
  \/ Serve
  \/ DesktopActs

Spec == Init /\ [][Next]_vars

-----------------------------------------------------------------------------
(* The console is where submissions are approved: when its task is known   *)
(* to wait for the user's decision, the preview with its two buttons is    *)
(* there.                                                                  *)
DecisionIsOffered == told = "WAITING_APPROVAL_SUBMIT" => view.preview

=============================================================================
