--------------------------------- MODULE Udp ---------------------------------
(* A UDP session (session/udp.rs): start(), the task it leaves behind and    *)
(* stop(), over one mutex-guarded State.  There are no connections: a peer   *)
(* is an address a datagram came from, and stays known from then on.  What   *)
(* the session sends is left out.                                            *)

EXTENDS Naturals, Sequences

CONSTANTS
    Addr,          \* addresses datagrams come from
    MaxDatagrams,  \* bound on the datagrams received
    None

ASSUME UdpAssumption == MaxDatagrams \in Nat /\ None \notin Addr

VARIABLES
    at,         \* where start() and then the task is
    from,       \* the sender of the datagram the task works on
    isNew,      \* it was not known before
    online,     \* State.online
    peers,      \* State.peers, State.order
    received,   \* datagrams received, bounded by MaxDatagrams
    cancelled,  \* ctx.cancel
    stop,       \* where stop() is
    told,       \* what the life-cycle events emitted so far say
    events      \* emitted and not handled yet

taskVars == <<at, from, isNew, peers, received>>
stopVars == <<cancelled, stop>>
udpVars == <<taskVars, stopVars, online, told, events>>

Event(type, peer) == [type |-> type, peer |-> peer]
Events == [type : {"online", "offline", "peerOnline", "message"},
           peer : Addr \cup {None}]

UdpTypeOK ==
    /\ at \in {"new", "failed", "receiving", "telling", "done"}
    /\ from \in Addr \cup {None}
    /\ isNew \in BOOLEAN
    /\ online \in BOOLEAN
    /\ peers \subseteq Addr
    /\ received \in 0 .. MaxDatagrams
    /\ cancelled \in BOOLEAN
    /\ stop \in {"idle", "cancelled", "unlocked", "returned"}
    /\ told \in BOOLEAN
    /\ events \in Seq(Events)

UdpInit ==
    /\ at = "new"
    /\ from = None
    /\ isNew = FALSE
    /\ online = FALSE
    /\ peers = {}
    /\ received = 0
    /\ cancelled = FALSE
    /\ stop = "idle"
    /\ told = FALSE
    /\ events = <<>>

Emit(es) == events' = events \o es

-----------------------------------------------------------------------------
(* A mistake: stop() leaves the flag.                                        *)
StopLockedKeeps ==
    /\ stop = "cancelled"
    /\ stop' = "unlocked"
    /\ UNCHANGED <<taskVars, cancelled, online, told, events>>

-----------------------------------------------------------------------------
(* start().  The socket is bound, the flag set and Online emitted before it  *)
(* returns; nobody else knows the session by then.                           *)
Started ==
    /\ at = "new"
    /\ at' = "receiving"
    /\ online' = TRUE
    /\ told' = TRUE
    /\ Emit(<<Event("online", None)>>)
    /\ UNCHANGED <<from, isNew, peers, received, stopVars>>

(* The name does not resolve, the port is taken, the group is not valid ...  *)
StartFailed ==
    /\ at = "new"
    /\ at' = "failed"
    /\ UNCHANGED <<from, isNew, peers, received, stopVars, online, told, events>>

-----------------------------------------------------------------------------
(* The task.  select! may pick a datagram over a token that is cancelled.    *)

SeesCancel ==
    /\ at = "receiving"
    /\ cancelled
    /\ at' = "done"
    /\ UNCHANGED <<from, isNew, peers, received, stopVars, online, told, events>>

(* A datagram from a: the peer is noted in a critical section ...            *)
Receive(a) ==
    /\ at = "receiving"
    /\ received < MaxDatagrams
    /\ from' = a
    /\ isNew' = (a \notin peers)
    /\ peers' = peers \cup {a}
    /\ received' = received + 1
    /\ at' = "telling"
    /\ UNCHANGED <<stopVars, online, told, events>>

(* ... and told of after it, then the datagram is.                           *)
Tell ==
    /\ at = "telling"
    /\ Emit((IF isNew THEN <<Event("peerOnline", from)>> ELSE <<>>)
            \o <<Event("message", from)>>)
    /\ at' = "receiving"
    /\ from' = None
    /\ isNew' = FALSE
    /\ UNCHANGED <<peers, received, stopVars, online, told>>

-----------------------------------------------------------------------------
(* stop(): Offline is emitted after the critical section.  was_online holds, *)
(* since nothing but stop() clears the flag.                                 *)

StopCancel ==
    /\ stop = "idle"
    /\ at \in {"receiving", "telling"}
    /\ cancelled' = TRUE
    /\ stop' = "cancelled"
    /\ UNCHANGED <<taskVars, online, told, events>>

StopLocked ==
    /\ stop = "cancelled"
    /\ online' = FALSE
    /\ stop' = "unlocked"
    /\ UNCHANGED <<taskVars, cancelled, told, events>>

StopTells ==
    /\ stop = "unlocked"
    /\ told' = FALSE
    /\ Emit(<<Event("offline", None)>>)
    /\ stop' = "returned"
    /\ UNCHANGED <<taskVars, cancelled, online>>

-----------------------------------------------------------------------------
Lifecycle == INSTANCE SessionLifecycle
                 WITH usable <- online, shown <- told, stopped <- cancelled

(* The session keeps the promise every transport makes (Session in           *)
(* session/mod.rs).                                                          *)
ImplementsLifecycle == Lifecycle!Spec
=============================================================================
