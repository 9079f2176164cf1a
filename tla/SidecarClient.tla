---------------------------- MODULE SidecarClient ----------------------------
(***************************************************************************)
(* SidecarProcessClient (apps/desktop/src/agent/sidecar-client.ts): the    *)
(* Desktop's end of the pipe to the Sidecar process.  It starts the        *)
(* process when it is first needed, writes requests, and matches each      *)
(* response with the promise that waits for it: an acknowledgement by the  *)
(* id of its request, a result by the name of its task.                    *)
(*                                                                         *)
(* What the callers do when a promise settles is in SidecarDesktop.        *)
(***************************************************************************)
EXTENDS SidecarWorker

VARIABLES
  process,      (* "none", "starting" until it says ready, then "ready";    *)
                (* "broken" when it could not be spawned                    *)
  pending,      (* the calls of request() whose promise is not settled, in  *)
                (* order; one that awaits start() has not been sent         *)
  requests      (* number of requests made, their ids are 1, 2, ...         *)

clientVars == <<process, pending, requests>>

(* A call remembers who waits for it: `gen', the ActiveTask a resume was   *)
(* made for.                                                               *)
Call(tasks) ==
  [type : RequestTypes, id : Nat \ {0}, task : tasks, gen : Nat, sent : BOOLEAN]

ClientTypeOK(tasks) ==
  /\ process \in {"none", "starting", "ready", "broken"}
  /\ pending \in Seq(Call(tasks))
  /\ requests \in Nat
  /\ process # "ready" => \A i \in DOMAIN pending : ~pending[i].sent

ClientInit ==
  /\ process = "none"
  /\ pending = <<>>
  /\ requests = 0

Line(c) == [type |-> c.type, id |-> c.id, task |-> c.task]

(* start() and then request(): the line is written when the process is     *)
(* ready.                                                                  *)
Send(type, t, gen) ==
  LET c == [type |-> type, id |-> requests + 1, task |-> t, gen |-> gen,
            sent |-> process = "ready"] IN
  /\ requests' = requests + 1
  /\ pending' = Append(pending, c)
  /\ process' = IF process = "none" THEN "starting" ELSE process
  /\ stdin' = IF process = "ready" THEN Append(stdin, Line(c)) ELSE stdin
  /\ UNCHANGED <<stdout, serving, exec>>

(* The process says ready: everyone who awaits start() writes his line.    *)
Ready ==
  /\ process = "starting"
  /\ process' = "ready"
  /\ pending' = [i \in DOMAIN pending |-> [pending[i] EXCEPT !.sent = TRUE]]
  /\ stdin' = [i \in DOMAIN pending |-> Line(pending[i])]
  /\ UNCHANGED <<requests, stdout, serving, exec>>

(* The i-th call is no longer pending.                                     *)
Settled(i) == pending' = SubSeq(pending, 1, i - 1) \o SubSeq(pending, i + 1, Len(pending))

(* routeResponse takes the next line of stdout.                            *)
Receives(type) == stdout # <<>> /\ Head(stdout).type = type

Answers(c) == Receives("ack") /\ c.sent /\ c.id = Head(stdout).id

(* A line that settles nothing: an error, which carries no request_id, or  *)
(* an answer to a request that has timed out.                              *)
IsDropped ==
  \/ Receives("error")
  \/ Receives("ack") /\ \A i \in DOMAIN pending : ~Answers(pending[i])

Consume ==
  /\ stdout' = Tail(stdout)
  /\ UNCHANGED <<stdin, serving, exec>>

(* No answer to this call can arrive any more.                             *)
Unanswered(c) ==
  /\ c.sent
  /\ \A i \in DOMAIN stdin : stdin[i].id # c.id
  /\ \A i \in DOMAIN serving : serving[i].id # c.id
  /\ \A i \in DOMAIN stdout : stdout[i].type = "ack" => stdout[i].id # c.id

(* Mutant: failAll does not clear this.pending.                            *)
PendingKept(none) ==
  /\ process' = "none"
  /\ WorkerExits(none)
  /\ UNCHANGED <<pending, requests>>

(* The process has exited, or the client has stopped it: failAll.          *)
ProcessGone(none) ==
  /\ process' = "none"
  /\ pending' = <<>>
  /\ WorkerExits(none)
  /\ UNCHANGED requests

(* The process cannot be spawned: failAll.  No exit follows, so nothing    *)
(* clears readyPromise, which has been rejected.                           *)
SpawnFails ==
  /\ process = "starting"
  /\ process' = "broken"
  /\ pending' = <<>>
  /\ UNCHANGED <<requests, workerVars>>

(* start() returns the rejected promise to whoever calls it from then on.  *)
StartRejected ==
  /\ process = "broken"
  /\ pending # <<>>
  /\ pending' = <<>>
  /\ UNCHANGED <<process, requests, workerVars>>

=============================================================================
