---------------------------- MODULE DeviceSession ----------------------------
(***************************************************************************)
(* The WebSocket between one Desktop and the control plane: the connecting *)
(* side is AgentRealtimeClient (apps/desktop/src/agent/realtime-client.ts), *)
(* the accepting side RealtimeHub and RealtimeSessionRegistry (apps/server *)
(* /src/realtime).                                                         *)
(*                                                                         *)
(* Connections are numbered in the order the Desktop opens them.  A        *)
(* connection is a pair of FIFO streams; each end learns by itself, and in *)
(* its own time, that it is broken, and what is then still under way is    *)
(* lost.  Until the server has noticed, a connection the Desktop has given *)
(* up may still yield messages, beside those of its successor.             *)
(***************************************************************************)
EXTENDS Naturals, Sequences

CONSTANT MaxBreaks          (* how often a connection breaks by itself     *)

VARIABLES
  conns,        (* connections opened so far                                *)
  agentConn,    (* the Desktop's socket, or 0 until it reconnects           *)
  authed,       (* authenticated: server.hello has arrived on it            *)
  verifying,    (* connections whose access token is being verified         *)
  serverOpen,   (* connections the server has not seen closed               *)
  peer,         (* the session of the device in the registry, or 0          *)
  broken,       (* connections some party has given up                      *)
  up,           (* per connection, reports on their way to the server       *)
  down,         (* messages on their way to the Desktop's socket            *)
  breaks

sessionVars == <<conns, agentConn, authed, verifying, serverOpen, peer, broken,
                 up, down, breaks>>

Hello == [kind |-> "hello"]

SessionTypeOK(UpMsg, DownMsg) ==
  /\ conns \in Nat /\ breaks \in Nat
  /\ agentConn \in 0..conns /\ peer \in 0..conns
  /\ authed \in BOOLEAN /\ (authed => agentConn # 0)
  /\ verifying \subseteq 1..conns
  /\ serverOpen \subseteq 1..conns
  /\ broken \subseteq 1..conns
  /\ up \in [1..conns -> Seq(UpMsg)]
  /\ down \in Seq(DownMsg) /\ (agentConn = 0 => down = <<>>)

SessionInit ==
  /\ conns = 0
  /\ agentConn = 0
  /\ authed = FALSE
  /\ verifying = {}
  /\ serverOpen = {}
  /\ peer = 0
  /\ broken = {}
  /\ up = <<>>
  /\ down = <<>>
  /\ breaks = 0

-----------------------------------------------------------------------------
(* What the ends send: lost if the other end has closed its socket.        *)

Up(msgs) ==
  IF authed /\ agentConn \in serverOpen
    THEN [up EXCEPT ![agentConn] = @ \o msgs]
    ELSE up

DownOn(c, msg) ==
  IF agentConn = c /\ c \in serverOpen THEN Append(down, msg) ELSE down

-----------------------------------------------------------------------------
(* The Desktop's end.                                                      *)

(* connect: a new socket, and client.hello on it.                          *)
Connect ==
  /\ agentConn = 0
  /\ conns' = conns + 1
  /\ agentConn' = conns + 1
  /\ verifying' = verifying \cup {conns + 1}
  /\ serverOpen' = serverOpen \cup {conns + 1}
  /\ up' = Append(up, <<>>)
  /\ UNCHANGED <<authed, peer, broken, down, breaks>>

(* Mutant: a closed socket stays authenticated.                            *)
AgentClosesAuthed ==
  /\ agentConn \in broken
  /\ agentConn' = 0
  /\ down' = <<>>
  /\ UNCHANGED <<conns, authed, verifying, serverOpen, peer, broken, up, breaks>>

(* 'close': authenticated is FALSE until the reconnected socket has its    *)
(* own server.hello.                                                       *)
AgentCloses ==
  /\ agentConn \in broken
  /\ agentConn' = 0
  /\ authed' = FALSE
  /\ down' = <<>>
  /\ UNCHANGED <<conns, verifying, serverOpen, peer, broken, up, breaks>>

-----------------------------------------------------------------------------
(* The server's end.                                                       *)

(* handleConnection, after verify: registerAgent replaces the session of   *)
(* this device, whatever connection it is of, and closes that one.  The    *)
(* socket itself may have been closed while the token was verified.        *)
Verified(c) ==
  /\ c \in verifying
  /\ verifying' = verifying \ {c}
  /\ peer' = c
  /\ broken' = broken \cup ({peer} \ {0})
  /\ down' = DownOn(c, Hello)
  /\ UNCHANGED <<conns, agentConn, authed, serverOpen, up, breaks>>

(* The token is refused: the socket is closed with 4000.                   *)
Refused(c) ==
  /\ c \in verifying
  /\ breaks < MaxBreaks
  /\ breaks' = breaks + 1
  /\ verifying' = verifying \ {c}
  /\ broken' = broken \cup {c}
  /\ UNCHANGED <<conns, agentConn, authed, serverOpen, peer, up, down>>

(* Mutant: unregister deletes whatever session the device has.             *)
UnregisteredAny(c) == 0

(* 'close': unregister deletes the session only if it is still this one.   *)
Unregistered(c) == IF peer = c THEN 0 ELSE peer

ServerCloses(c) ==
  /\ c \in serverOpen \cap broken
  /\ serverOpen' = serverOpen \ {c}
  /\ peer' = IF c \in verifying THEN peer ELSE Unregistered(c)
  /\ up' = [up EXCEPT ![c] = <<>>]
  /\ UNCHANGED <<conns, agentConn, authed, verifying, broken, down, breaks>>

-----------------------------------------------------------------------------
(* The network, or the authentication timeout of the hub, ends a connection. *)
Break ==
  /\ breaks < MaxBreaks
  /\ agentConn \notin broken \cup {0}
  /\ breaks' = breaks + 1
  /\ broken' = broken \cup {agentConn}
  /\ UNCHANGED <<conns, agentConn, authed, verifying, serverOpen, peer, up, down>>

Session ==
  \/ Connect
  \/ AgentCloses
  \/ \E c \in 1..conns : Verified(c) \/ Refused(c) \/ ServerCloses(c)
  \/ Break

=============================================================================
