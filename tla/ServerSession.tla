---------------------------- MODULE ServerSession ----------------------------
(* A listening session, TcpServer and WsServer (session/tcp_server.rs,       *)
(* session/ws_server.rs): the accept task, one handler task per connection   *)
(* that was admitted, stop() and kick(), over one mutex-guarded ServerState. *)
(* Each action is a stretch between two awaits or critical sections.         *)
(*                                                                           *)
(* Connections are told apart from the addresses they come from: ServerState *)
(* and the events know a peer by its address only.                           *)

EXTENDS Naturals, Sequences, FiniteSets

CONSTANTS
    Conn,            \* incoming connections
    Addr,            \* the addresses they come from
    MaxConnections,  \* cfg.max_connections, 0 for no limit
    Handshake,       \* WsServer: a handshake comes before the messages
    None

ASSUME ServerAssumption ==
    /\ MaxConnections \in Nat
    /\ Handshake \in BOOLEAN
    /\ None \notin Conn

VARIABLES
    at,         \* where start() and then the accept task is
    cur,        \* the connection the accept task works on
    online,     \* ServerState.online
    listed,     \* ServerState.peers: the connection behind each address
    up,         \* the addresses whose Peer.online is set
    order,      \* ServerState.order
    cancelled,  \* ctx.cancel
    stop,       \* where stop() is
    backlog,    \* connections the listener has yet to give out, in order
    conn,       \* what becomes of each connection
    from,       \* the address of each connection
    reset,      \* connections the peer has reset: the kernel knows them no more
    reused,     \* addresses from which a client came back before the handler
                \* of the connection it had reset was over (history)
    kicked,     \* connections whose Peer.cancel is cancelled
    uiOnline,   \* Runtime.online in the user interface
    uiPeers     \* the peers the user interface shows online

acceptVars == <<at, cur>>
peerVars == <<listed, up, order>>
stopVars == <<cancelled, stop>>
connVars == <<backlog, conn, from, reset, reused, kicked>>
uiVars == <<uiOnline, uiPeers>>
vars == <<at, cur, online, listed, up, order, cancelled, stop, backlog, conn,
          from, reset, reused, kicked, uiOnline, uiPeers>>

Listening == {"accepting", "admitting", "adding", "telling", "pausing"}
Served == {"handshake", "serving", "writing"}
Over == {"idle", "rejected", "gone"}

TypeOK ==
    /\ at \in {"new", "bound", "failed", "done"} \cup Listening
    /\ cur \in Conn \cup {None}
    /\ online \in BOOLEAN
    /\ listed \in [Addr -> Conn \cup {None}]
    /\ up \subseteq Addr
    /\ order \in Seq(Addr)
    /\ cancelled \in BOOLEAN
    /\ stop \in {"idle", "cancelled", "unlocked", "returned"}
    /\ backlog \in Seq(Conn)
    /\ conn \in [Conn -> Over \cup Served \cup
                         {"waiting", "held", "leaving", "left", "failing", "failed"}]
    /\ from \in [Conn -> Addr \cup {None}]
    /\ reset \subseteq Conn
    /\ reused \subseteq Addr
    /\ kicked \subseteq Conn
    /\ uiOnline \in BOOLEAN
    /\ uiPeers \subseteq Addr

Init ==
    /\ at = "new"
    /\ cur = None
    /\ online = FALSE
    /\ listed = [a \in Addr |-> None]
    /\ up = {}
    /\ order = <<>>
    /\ cancelled = FALSE
    /\ stop = "idle"
    /\ backlog = <<>>
    /\ conn = [c \in Conn |-> "idle"]
    /\ from = [c \in Conn |-> None]
    /\ reset = {}
    /\ reused = {}
    /\ kicked = {}
    /\ uiOnline = FALSE
    /\ uiPeers = {}

-----------------------------------------------------------------------------
(* ServerState, and the events as sessions.ts handles them.                  *)

OnlineCount == Cardinality(up)

(* A mistake in add_peer: a peer that is known is left as it is.             *)
AddPeerOnce(a, c) ==
    /\ order' = IF listed[a] = None THEN Append(order, a) ELSE order
    /\ listed' = [listed EXCEPT ![a] = IF @ = None THEN c ELSE @]
    /\ up' = up \cup {a}

AddPeer(a, c) ==
    /\ order' = IF \E i \in DOMAIN order : order[i] = a THEN order
                                                        ELSE Append(order, a)
    /\ listed' = [listed EXCEPT ![a] = c]
    /\ up' = up \cup {a}

MarkOffline(a) == up' = up \ {a} /\ UNCHANGED <<listed, order>>

EmitPeerOnline(a) == uiPeers' = uiPeers \cup {a} /\ UNCHANGED uiOnline
EmitPeerOffline(a) == uiPeers' = uiPeers \ {a} /\ UNCHANGED uiOnline
EmitOnline == uiOnline' = TRUE /\ UNCHANGED uiPeers
EmitOffline == uiOnline' = FALSE /\ uiPeers' = {}

-----------------------------------------------------------------------------
(* What small mistakes in the tasks would do, one at a time.                 *)

Becomes(c, what) ==
    /\ conn' = [conn EXCEPT ![c] = what]
    /\ UNCHANGED <<acceptVars, backlog, online, stopVars, from, reset, reused, kicked>>

(* The accept loop has no arm for the token.                                 *)
AcceptCancelledNever == at = "accepting" /\ cancelled /\ FALSE /\ UNCHANGED vars

(* One peer too many.                                                        *)
AdmitOffByOne ==
    /\ at = "admitting"
    /\ IF MaxConnections > 0 /\ OnlineCount > MaxConnections
         THEN at' = "accepting" /\ conn' = [conn EXCEPT ![cur] = "rejected"]
         ELSE at' = "adding" /\ UNCHANGED conn
    /\ UNCHANGED <<backlog, cur, online, peerVars, stopVars, from, reset, reused, kicked, uiVars>>

(* kick() is not listened to.                                                *)
MustLeaveUnlessKicked(c) ==
    /\ conn[c] = "serving"
    /\ cancelled \/ c \in reset
    /\ Becomes(c, "leaving")
    /\ UNCHANGED <<peerVars, uiVars>>

(* PeerOffline is forgotten.                                                 *)
LeaveTellSilent(c) ==
    /\ conn[c] = "left"
    /\ Becomes(c, "gone")
    /\ UNCHANGED <<peerVars, uiVars>>

(* stop() clears the peers and leaves the flag.                              *)
StopLockedKeeps ==
    /\ stop = "cancelled"
    /\ up' = {}
    /\ stop' = "unlocked"
    /\ UNCHANGED <<acceptVars, online, listed, order, cancelled, connVars, uiVars>>

-----------------------------------------------------------------------------
(* start()                                                                   *)

Bind ==
    /\ at = "new"
    /\ at' = "bound"
    /\ online' = TRUE
    /\ UNCHANGED <<cur, peerVars, stopVars, connVars, uiVars>>

BindFailed ==
    /\ at = "new"
    /\ at' = "failed"
    /\ UNCHANGED <<cur, online, peerVars, stopVars, connVars, uiVars>>

StartReturns ==
    /\ at = "bound"
    /\ EmitOnline
    /\ at' = "accepting"
    /\ UNCHANGED <<cur, online, peerVars, stopVars, connVars>>

-----------------------------------------------------------------------------
(* The accept task.                                                          *)

AcceptCancelled ==
    /\ at = "accepting"
    /\ cancelled
    /\ at' = "done"
    /\ conn' = [c \in Conn |-> IF conn[c] = "waiting" THEN "rejected" ELSE conn[c]]
    /\ backlog' = <<>>
    /\ UNCHANGED <<cur, online, peerVars, stopVars, from, reset, reused, kicked, uiVars>>

(* select! may pick a connection over a token that is cancelled.             *)
Accept ==
    /\ at = "accepting"
    /\ backlog # <<>>
    /\ cur' = Head(backlog)
    /\ backlog' = Tail(backlog)
    /\ conn' = [conn EXCEPT ![cur'] = "held"]
    /\ at' = "admitting"
    /\ UNCHANGED <<online, peerVars, stopVars, from, reset, reused, kicked, uiVars>>

AcceptError ==
    /\ at = "accepting"
    /\ at' = "pausing"
    /\ UNCHANGED <<cur, online, peerVars, stopVars, connVars, uiVars>>

AcceptAgain ==
    /\ at = "pausing"
    /\ at' = "accepting"
    /\ UNCHANGED <<cur, online, peerVars, stopVars, connVars, uiVars>>

(* The count is taken in one critical section ...                            *)
Admit ==
    /\ at = "admitting"
    /\ IF MaxConnections > 0 /\ OnlineCount >= MaxConnections
         THEN at' = "accepting" /\ conn' = [conn EXCEPT ![cur] = "rejected"]
         ELSE at' = "adding" /\ UNCHANGED conn
    /\ UNCHANGED <<backlog, cur, online, peerVars, stopVars, from, reset, reused, kicked, uiVars>>

(* ... and the peer is added in another.                                     *)
Add ==
    /\ at = "adding"
    /\ AddPeer(from[cur], cur)
    /\ at' = "telling"
    /\ UNCHANGED <<cur, online, stopVars, connVars, uiVars>>

(* PeerOnline goes out and the handler is spawned.                           *)
Tell ==
    /\ at = "telling"
    /\ EmitPeerOnline(from[cur])
    /\ conn' = [conn EXCEPT ![cur] = IF Handshake THEN "handshake" ELSE "serving"]
    /\ at' = "accepting"
    /\ UNCHANGED <<backlog, cur, online, peerVars, stopVars, from, reset, reused, kicked>>

-----------------------------------------------------------------------------
(* handle_peer(c)                                                            *)

HandshakeDone(c) ==
    /\ conn[c] = "handshake"
    /\ c \notin reset
    /\ Becomes(c, "serving")
    /\ UNCHANGED <<peerVars, uiVars>>

(* It fails, takes ten seconds, or is cut short by stop() or kick().         *)
HandshakeFails(c) ==
    /\ conn[c] = "handshake"
    /\ Becomes(c, "failing")
    /\ UNCHANGED <<peerVars, uiVars>>

FailedMark(c) ==
    /\ conn[c] = "failing"
    /\ MarkOffline(from[c])
    /\ Becomes(c, "failed")
    /\ UNCHANGED uiVars

FailedTell(c) ==
    /\ conn[c] = "failed"
    /\ EmitPeerOffline(from[c])
    /\ Becomes(c, "gone")
    /\ UNCHANGED peerVars

(* The select loop ends: the peer closes, a rule says disconnect ...         *)
Leave(c) ==
    /\ conn[c] = "serving"
    /\ Becomes(c, "leaving")
    /\ UNCHANGED <<peerVars, uiVars>>

(* ... or it has to: stop(), kick(), a connection that is reset.             *)
MustLeave(c) ==
    /\ conn[c] = "serving"
    /\ cancelled \/ c \in kicked \cup reset
    /\ Becomes(c, "leaving")
    /\ UNCHANGED <<peerVars, uiVars>>

(* A message is written inside its select arm: nothing else is polled.       *)
BeginWrite(c) ==
    /\ conn[c] = "serving"
    /\ Becomes(c, "writing")
    /\ UNCHANGED <<peerVars, uiVars>>

EndWrite(c) ==
    /\ conn[c] = "writing"
    /\ \E next \in {"serving", "leaving"} : Becomes(c, next)
    /\ UNCHANGED <<peerVars, uiVars>>

LeaveMark(c) ==
    /\ conn[c] = "leaving"
    /\ MarkOffline(from[c])
    /\ Becomes(c, "left")
    /\ UNCHANGED uiVars

(* A stopped session has told Offline, which covers every peer.              *)
LeaveTell(c) ==
    /\ conn[c] = "left"
    /\ IF cancelled THEN UNCHANGED uiVars ELSE EmitPeerOffline(from[c])
    /\ Becomes(c, "gone")
    /\ UNCHANGED peerVars

-----------------------------------------------------------------------------
(* stop() and kick()                                                         *)

StopCancel ==
    /\ stop = "idle"
    /\ at \in Listening
    /\ cancelled' = TRUE
    /\ stop' = "cancelled"
    /\ UNCHANGED <<acceptVars, online, peerVars, connVars, uiVars>>

StopLocked ==
    /\ stop = "cancelled"
    /\ online' = FALSE
    /\ up' = {}
    /\ stop' = "unlocked"
    /\ UNCHANGED <<acceptVars, listed, order, cancelled, connVars, uiVars>>

(* was_online: stop() is the only one to clear the flag.                     *)
StopReturns ==
    /\ stop = "unlocked"
    /\ EmitOffline
    /\ stop' = "returned"
    /\ UNCHANGED <<acceptVars, online, peerVars, cancelled, connVars>>

Kick(a) ==
    /\ a \in up
    /\ kicked' = kicked \cup {listed[a]}
    /\ UNCHANGED <<acceptVars, online, peerVars, stopVars, backlog, conn, from, reset, reused, uiVars>>

-----------------------------------------------------------------------------
(* The clients.  A connection keeps its address to itself for as long as the *)
(* kernel knows it.                                                          *)

Connect(c, a) ==
    /\ at \in Listening
    /\ conn[c] = "idle"
    /\ \A d \in Conn : from[d] = a => \/ conn[d] \in Over
                                      \/ d \in reset
    /\ reused' = IF \A d \in Conn : from[d] = a => conn[d] \in Over
                   THEN reused ELSE reused \cup {a}
    /\ from' = [from EXCEPT ![c] = a]
    /\ conn' = [conn EXCEPT ![c] = "waiting"]
    /\ backlog' = Append(backlog, c)
    /\ UNCHANGED <<acceptVars, online, peerVars, stopVars, reset, kicked, uiVars>>

Reset(c) ==
    /\ conn[c] \in Served \cup {"waiting", "held", "leaving"}
    /\ c \notin reset
    /\ reset' = reset \cup {c}
    /\ UNCHANGED <<acceptVars, online, peerVars, stopVars, backlog, conn, from, reused, kicked, uiVars>>

-----------------------------------------------------------------------------
AcceptTask == AcceptCancelled \/ Accept \/ AcceptAgain
              \/ Admit \/ Add \/ Tell

Handler(c) == HandshakeFails(c) \/ FailedMark(c) \/ FailedTell(c)
              \/ MustLeave(c) \/ EndWrite(c) \/ LeaveMark(c) \/ LeaveTell(c)

Start == Bind \/ BindFailed \/ StartReturns
Stop == StopCancel \/ StopLocked \/ StopReturns

Terminated ==
    /\ at = "failed" \/ (at = "done" /\ stop = "returned")
    /\ UNCHANGED vars

Next ==
    \/ Start \/ AcceptTask \/ AcceptError \/ Stop
    \/ \E c \in Conn : Handler(c) \/ HandshakeDone(c) \/ Leave(c) \/ BeginWrite(c)
    \/ \E c \in Conn, a \in Addr : Connect(c, a)
    \/ \E c \in Conn : Reset(c)
    \/ \E a \in Addr : Kick(a)
    \/ Terminated

Spec == Init /\ [][Next]_vars

(* Tasks that are ready are polled, a handshake is over within ten seconds   *)
(* and a write ends, which holds while the peer reads or the connection      *)
(* breaks.  select! picks at random, so a token that is cancelled is not     *)
(* passed over for ever (SF).                                                *)
Fairness ==
    /\ WF_vars(AcceptTask)
    /\ SF_vars(AcceptCancelled)
    /\ WF_vars(StopLocked \/ StopReturns)
    /\ \A c \in Conn : WF_vars(Handler(c)) /\ SF_vars(MustLeave(c))

FairSpec == Spec /\ Fairness

-----------------------------------------------------------------------------
(* max_connections bounds the peers that are listed online, although the     *)
(* count and the insertion are two critical sections.                        *)
WithinLimit == MaxConnections > 0 => OnlineCount <= MaxConnections

Listed(c) == from[c] \in up /\ listed[from[c]] = c
LiveAndServed == {c \in Conn : conn[c] \in Served /\ c \notin reset}

(* Status reflects the peers, both ways.  A peer that is listed online has a *)
(* connection that is not yet over: it can be routed to and kicked.  And     *)
(* while the server runs, each connection it serves and the peer has not     *)
(* reset is listed, online, under its address, unless a client has come back *)
(* from an address that still stood for the connection it had reset.         *)
ListReflectsPeers ==
    /\ \A a \in up : conn[listed[a]] \notin Over \cup {"waiting"}
    /\ ~cancelled => \A c \in LiveAndServed : from[c] \in reused \/ Listed(c)

(* While the server runs the interface shows the peers that are listed       *)
(* online, but for those whose event is on its way and the addresses that    *)
(* stood for two connections at once.                                        *)
InTransit == {from[c] : c \in {d \in Conn : conn[d] \in {"left", "failed"}}}
             \cup (IF at = "telling" THEN {from[cur]} ELSE {})
UiShowsPeers ==
    ~cancelled => \A a \in Addr \ (InTransit \cup reused) : a \in uiPeers <=> a \in up

(* No peer holds its slot against the server's will: one that connects and  *)
(* never completes the handshake loses it (session/ws_server.rs), and one    *)
(* that is kicked is disconnected, in whatever state the kick meets it.      *)
SlotsComeBack == \A c \in Conn :
    /\ conn[c] = "handshake" ~> conn[c] = "serving" \/ from[c] \notin up
    /\ c \in kicked ~> conn[c] = "gone"

(* A stopped server comes to rest: the listener is closed, every handler is  *)
(* over and no peer is listed online, not even one accepted late.            *)
StopEndsAll ==
    cancelled ~> [](at = "done" /\ up = {} /\ \A c \in Conn : conn[c] \in Over)

Lifecycle == INSTANCE SessionLifecycle
                 WITH usable <- online, shown <- uiOnline, stopped <- cancelled

(* The server keeps the promise every transport makes.                       *)
ImplementsLifecycle == Lifecycle!Spec
=============================================================================
