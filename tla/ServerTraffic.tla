----------------------------- MODULE ServerTraffic -----------------------------
(* What a listening session sends (Outbound through ServerState::route, the  *)
(* queues of handle_peer, the answers of Ctx.inbound), over the connections  *)
(* and the peer table of ServerSession.  A message is routed by address; the *)
(* answer to a message goes back into the queue of the very connection it    *)
(* came by.  A handler that is over drops its queue.                         *)
(*                                                                           *)
(* The life cycle is that of ServerSession where a queue can tell: a client  *)
(* is accepted in one step, for nothing is routed to it before add_peer and  *)
(* its channel is there from then on, and whatever ends a connection is      *)
(* Leave.                                                                    *)

EXTENDS ServerSession, SequencesExt

CONSTANTS
    Msg,     \* messages the user sends, each once
    Answer   \* answers of the rules, each to one inbound message

ASSUME TrafficAssumption == Msg \cap Answer = {}

VARIABLES
    queue,    \* per connection, its channel of Outbound items
    cursor,   \* per connection, the items being written: none or one
    written,  \* per connection, the items written to it (history)
    due,      \* answers whose delay is running
    origin,   \* per answer, the connection of the message it answers (history)
    queued,   \* per connection, every item its channel took (history)
    result    \* per message, what send() returned (history)

trafficVars == <<queue, cursor, written, due, origin, queued, result>>
allVars == <<vars, trafficVars>>

Item == [id : Msg \cup Answer, disconnect : BOOLEAN]

TrafficTypeOK ==
    /\ queue \in [Conn -> Seq(Item)]
    /\ cursor \in [Conn -> Seq(Item)]
    /\ \A c \in Conn : Len(cursor[c]) <= 1
    /\ written \in [Conn -> Seq(Item)]
    /\ due \subseteq Item
    /\ origin \in [Answer -> Conn \cup {None}]
    /\ queued \in [Conn -> Seq(Item)]
    /\ result \in [Msg -> {"unsent", "ok", "error"}]

(* start() has returned.                                                     *)
TrafficInit ==
    /\ at = "accepting"
    /\ cur = None
    /\ online = TRUE
    /\ listed = [a \in Addr |-> None]
    /\ up = {}
    /\ order = <<>>
    /\ cancelled = FALSE
    /\ stop = "idle"
    /\ backlog = <<>>
    /\ conn = [c \in Conn |-> "idle"]
    /\ from = [c \in Conn |-> None]
    /\ reset = {}
    /\ reused = {}
    /\ kicked = {}
    /\ uiOnline = TRUE
    /\ uiPeers = {}
    /\ queue = [c \in Conn |-> <<>>]
    /\ cursor = [c \in Conn |-> <<>>]
    /\ written = [c \in Conn |-> <<>>]
    /\ due = {}
    /\ origin = [r \in Answer |-> None]
    /\ queued = [c \in Conn |-> <<>>]
    /\ result = [m \in Msg |-> "unsent"]

-----------------------------------------------------------------------------
(* Peer.tx.send: a channel takes items until its handler drops the receiver. *)
HasChannel == {c \in Conn : conn[c] \notin Over \cup {"waiting"}}

Enqueue(item, to) ==
    /\ queue' = [c \in Conn |-> IF c \in to THEN Append(queue[c], item) ELSE queue[c]]
    /\ queued' = [c \in Conn |-> IF c \in to THEN Append(queued[c], item) ELSE queued[c]]

Message(m) == [id |-> m, disconnect |-> FALSE]

(* ServerState::route over the addresses to: an error if nobody is online or *)
(* no channel takes the message.                                             *)
Route(m, to) ==
    LET takers == {listed[a] : a \in to \cap up} \cap HasChannel
    IN  /\ Enqueue(Message(m), takers)
        /\ result' = [result EXCEPT ![m] = IF takers = {} THEN "error" ELSE "ok"]

Sending(m) ==
    /\ result[m] = "unsent"
    /\ UNCHANGED <<vars, cursor, written, due, origin>>

SendTo(m, a) == Sending(m) /\ Route(m, {a})
Broadcast(m) == Sending(m) /\ Route(m, Addr)

-----------------------------------------------------------------------------
(* The handler's select loop: an item is taken from the queue ...            *)
TakeItem(c) ==
    /\ queue[c] # <<>>
    /\ BeginWrite(c)
    /\ queue' = [queue EXCEPT ![c] = Tail(@)]
    /\ cursor' = [cursor EXCEPT ![c] = <<Head(queue[c])>>]
    /\ UNCHANGED <<written, due, origin, queued, result>>

(* ... written, if it has bytes, and the loop ends if the write fails or the *)
(* item is a disconnect, which has none.                                     *)
Written(c) ==
    /\ conn[c] = "writing"
    /\ cursor' = [cursor EXCEPT ![c] = <<>>]
    /\ \/ /\ Becomes(c, IF Head(cursor[c]).disconnect THEN "leaving" ELSE "serving")
          /\ written' = [written EXCEPT ![c] = IF Head(cursor[c]).disconnect THEN @
                                               ELSE Append(@, Head(cursor[c]))]
       \/ /\ ~Head(cursor[c]).disconnect
          /\ Becomes(c, "leaving")
          /\ UNCHANGED written
    /\ UNCHANGED <<peerVars, uiVars, queue, due, origin, queued, result>>

(* A message comes in and hits a rule that answers it or disconnects: a task *)
(* of its own waits for the delay.  The flush of a handler that leaves does  *)
(* the same.                                                                 *)
Inbound(c, r) ==
    /\ conn[c] \in {"serving", "leaving"}
    /\ origin[r] = None
    /\ origin' = [origin EXCEPT ![r] = c]
    /\ \E disconnect \in BOOLEAN : due' = due \cup {[id |-> r, disconnect |-> disconnect]}
    /\ UNCHANGED <<vars, queue, cursor, written, queued, result>>

(* A mistake: the answer is routed by the address of the peer.               *)
AnswerByAddress(item) ==
    /\ item \in due
    /\ due' = due \ {item}
    /\ Enqueue(item, {listed[from[origin[item.id]]]} \cap HasChannel)
    /\ UNCHANGED <<vars, cursor, written, origin, result>>

(* The answer goes into the channel it was given, if that is still there.    *)
AnswerDue(item) ==
    /\ item \in due
    /\ due' = due \ {item}
    /\ Enqueue(item, {origin[item.id]} \cap HasChannel)
    /\ UNCHANGED <<vars, cursor, written, origin, result>>

(* The session was stopped during the delay.                                 *)
AnswerCancelled(item) ==
    /\ item \in due
    /\ cancelled
    /\ due' = due \ {item}
    /\ UNCHANGED <<vars, queue, cursor, written, origin, queued, result>>

(* A mistake: the receiver outlives its handler.                             *)
GoneKeeps(c) == LeaveTell(c) /\ UNCHANGED trafficVars

(* The receiver is dropped with what is still queued.                        *)
Gone(c) ==
    /\ LeaveTell(c)
    /\ queue' = [queue EXCEPT ![c] = <<>>]
    /\ UNCHANGED <<cursor, written, due, origin, queued, result>>

-----------------------------------------------------------------------------
(* The client comes from an address the kernel has free and is listed, also  *)
(* while stop() runs: select! may pick it over the token.                    *)
Arrive(c, a) ==
    /\ conn[c] = "idle"
    /\ \A d \in Conn : from[d] = a => conn[d] \in Over \/ d \in reset
    /\ reused' = IF \A d \in Conn : from[d] = a => conn[d] \in Over
                   THEN reused ELSE reused \cup {a}
    /\ from' = [from EXCEPT ![c] = a]
    /\ conn' = [conn EXCEPT ![c] = "serving"]
    /\ AddPeer(a, c)
    /\ UNCHANGED <<acceptVars, online, stopVars, backlog, reset, kicked, uiVars>>

LifeCycle ==
    \/ \E c \in Conn : Leave(c) \/ LeaveMark(c) \/ Reset(c)
    \/ \E c \in Conn, a \in Addr : Arrive(c, a)
    \/ StopCancel \/ StopLocked

TrafficNext ==
    \/ LifeCycle /\ UNCHANGED trafficVars
    \/ \E m \in Msg : Broadcast(m) \/ \E a \in Addr : SendTo(m, a)
    \/ \E c \in Conn : TakeItem(c) \/ Written(c) \/ Gone(c)
    \/ \E c \in Conn, r \in Answer : Inbound(c, r)
    \/ \E item \in due : AnswerDue(item) \/ AnswerCancelled(item)

TrafficSpec == TrafficInit /\ [][TrafficNext]_allVars

(* A handler is polled and takes what is queued, and a write ends.           *)
FairTrafficSpec ==
    /\ TrafficSpec
    /\ \A c \in Conn : WF_allVars(TakeItem(c) \/ Written(c) \/ Gone(c)
                                   \/ (LeaveMark(c) /\ UNCHANGED trafficVars))

-----------------------------------------------------------------------------
(* The items of a connection, from the one written first to the last in line.*)
Line(c) == written[c] \o cursor[c] \o queue[c]

(* A connection gets what its channel took, in order and without gaps, for   *)
(* as long as it lasts: what send() accepted is lost with its connection and *)
(* in no other way.  An answer is taken by the connection of the message it  *)
(* answers and by no other, and a rule that disconnects its own peer alone,  *)
(* although a client may come back from the same address during the delay.   *)
InOrder == \A c \in Conn :
    /\ IsPrefix(written[c], queued[c])
    /\ conn[c] \in Served => Line(c) = queued[c]
    /\ \A item \in Range(queued[c]) : item.id \in Answer => origin[item.id] = c

(* A message sent to the addresses `to` meets the peers, whatever has become *)
(* of other connections from there.  While the server runs each connection   *)
(* that is served takes it and the call succeeds, unless the address stood   *)
(* for two connections at once.  And nobody takes it but those and a handler *)
(* that is leaving and has not said so: only to that one, and to connections *)
(* that break, is a message lost that was reported as sent.                  *)
Meets(m, to) == \A c \in Conn :
    /\ conn[c] \in Served /\ from[c] \in to \ reused /\ ~cancelled =>
         /\ Message(m) \in Range(queued'[c])
         /\ result'[m] = "ok"
    /\ queued'[c] # queued[c] =>
         /\ from[c] \in to
         /\ conn[c] \in Served \cup {"leaving"}

SendMeetsPeers ==
    [][\A m \in Msg : /\ Broadcast(m) => Meets(m, Addr)
                      /\ \A a \in Addr : SendTo(m, a) => Meets(m, {a})]_allVars

(* What is queued does not wait for ever: it is written or its connection    *)
(* ends.                                                                     *)
QueuesDrain == \A c \in Conn : queue[c] # <<>> ~> queue[c] = <<>>
=============================================================================
