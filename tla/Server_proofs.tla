----------------------------- MODULE Server_proofs -----------------------------
(* Proofs about the listening session, ServerSession and what it sends,      *)
(* ServerTraffic: for any connections and addresses, any limit, with and     *)
(* without a handshake; and for any messages and answers.                    *)

EXTENDS ServerTraffic, SequenceLemmas, FiniteSetTheorems

(* The life cycle, and the table of peers.                                   *)

(* start(), stop() and the flag.                                             *)
Places ==
    /\ cancelled <=> stop # "idle"
    /\ at \in {"new", "bound", "failed"} => stop = "idle"
    /\ at = "new" => ~online
    /\ at = "bound" => online
    /\ stop \in {"unlocked", "returned"} => ~online

(* The accept task works on the one connection that is held.                 *)
Holding == {"admitting", "adding", "telling"}
HoldsCurrent ==
    /\ at \in Holding => cur \in Conn /\ conn[cur] = "held"
    /\ \A c \in Conn : conn[c] = "held" => at \in Holding /\ c = cur

(* The listener gives out each connection once.                              *)
BacklogWaits ==
    /\ \A i \in 1 .. Len(backlog) : conn[backlog[i]] = "waiting"
    /\ \A i, j \in 1 .. Len(backlog) : backlog[i] = backlog[j] => i = j

HasAddress == \A c \in Conn : conn[c] # "idle" => from[c] \in Addr

(* An address stands for one connection, unless it was reused.               *)
OneConnection ==
    \A c, d \in Conn :
        /\ from[c] = from[d] /\ from[c] \notin reused
        /\ conn[c] \notin Over /\ conn[d] \notin Over
        => c = d

(* Who may be listed online, and who has to be.                              *)
MayBeListed == Served \cup {"held", "leaving", "failing"}
ListedLives ==
    \A a \in up :
        /\ listed[a] \in Conn
        /\ from[listed[a]] = a
        /\ conn[listed[a]] \in MayBeListed
        /\ conn[listed[a]] = "held" => at = "telling"

MustBeListed == {c \in Conn : conn[c] \in Served \cup {"leaving", "failing"}}
                \cup (IF at = "telling" THEN {cur} ELSE {})
LivesListed ==
    ~cancelled => \A c \in MustBeListed : from[c] \in reused \/ Listed(c)

(* The limit: what was admitted has still to be added.                       *)
RoomForAdmitted ==
    /\ IsFiniteSet(up)
    /\ MaxConnections > 0 =>
         /\ OnlineCount <= MaxConnections
         /\ at = "adding" => OnlineCount < MaxConnections

IInv == /\ Places /\ HoldsCurrent /\ BacklogWaits /\ HasAddress /\ OneConnection
        /\ ListedLives /\ LivesListed /\ RoomForAdmitted /\ UiShowsPeers
-----------------------------------------------------------------------------
(* Initially.                                                                *)
LEMMA InitIInv == Init => TypeOK /\ IInv
<1> SUFFICES ASSUME Init PROVE TypeOK /\ IInv
  OBVIOUS
<1> USE ServerAssumption DEF Init
<1>1. TypeOK
  <2>1. /\ listed \in [Addr -> Conn \cup {None}]
        /\ from \in [Conn -> Addr \cup {None}]
        /\ conn \in [Conn -> Over]
    BY DEF Over
  <2>2. /\ order \in Seq(Addr)
        /\ backlog \in Seq(Conn)
    OBVIOUS
  <2> QED
    BY <2>1, <2>2 DEF TypeOK
<1>2. Places /\ HoldsCurrent /\ BacklogWaits /\ HasAddress /\ OneConnection
  BY DEF Places, HoldsCurrent, Holding, BacklogWaits, HasAddress,
         OneConnection, Over
<1>3. ListedLives /\ LivesListed
  BY DEF ListedLives, LivesListed, MustBeListed, Served
<1>4. RoomForAdmitted
  BY FS_EmptySet DEF RoomForAdmitted, OnlineCount
<1>5. UiShowsPeers
  BY DEF UiShowsPeers
<1> QED
  BY <1>1, <1>2, <1>3, <1>4, <1>5 DEF IInv

-----------------------------------------------------------------------------
(* Types: a peer is listed under the address of a connection.                *)
LEMMA TypeStep ==
    ASSUME TypeOK, HoldsCurrent, HasAddress, ListedLives, [Next]_vars
    PROVE  TypeOK'
<1> USE ServerAssumption
        DEF TypeOK, HoldsCurrent, Holding, HasAddress, ListedLives,
            acceptVars, peerVars, stopVars, connVars, uiVars, Becomes,
            EmitPeerOnline, EmitPeerOffline, EmitOnline, EmitOffline,
            Listening, Served, Over
<1>1. CASE Start
  BY <1>1 DEF Start, Bind, BindFailed, StartReturns
<1>2. CASE AcceptCancelled \/ AcceptAgain \/ AcceptError
  <2>1. conn' \in [Conn -> Over \cup Served \cup {"waiting", "held", "leaving",
                                               "left", "failing", "failed"}]
    BY <1>2 DEF AcceptCancelled, AcceptAgain, AcceptError
  <2>2. at' \in {"done", "accepting", "pausing"} /\ backlog' \in {backlog, <<>>}
    BY <1>2 DEF AcceptCancelled, AcceptAgain, AcceptError
  <2>3. UNCHANGED <<cur, online, listed, up, order, cancelled, stop, from, reset,
                    reused, kicked, uiOnline, uiPeers>>
    BY <1>2 DEF AcceptCancelled, AcceptAgain, AcceptError
  <2>4. backlog' \in Seq(Conn)
    <3>1. backlog \in Seq(Conn) /\ <<>> \in Seq(Conn)
      OBVIOUS
    <3> HIDE DEF TypeOK
    <3> QED
      BY <2>2, <3>1
  <2> QED
    BY <2>1, <2>2, <2>3, <2>4
<1>3. CASE Accept
  BY <1>3 DEF Accept
<1>4. CASE Admit
  BY <1>4 DEF Admit
<1>5. CASE Add
  BY <1>5 DEF Add, AddPeer
<1>6. CASE Tell
  BY <1>6 DEF Tell
<1>7. CASE \E c \in Conn : \/ HandshakeDone(c) \/ HandshakeFails(c) \/ Leave(c)
                            \/ MustLeave(c) \/ BeginWrite(c) \/ EndWrite(c)
  BY <1>7 DEF HandshakeDone, HandshakeFails, Leave, MustLeave, BeginWrite,
              EndWrite
<1>8. CASE \E c \in Conn : \/ FailedMark(c) \/ FailedTell(c)
                            \/ LeaveMark(c) \/ LeaveTell(c)
  <2>1. up' \subseteq up /\ uiPeers' \subseteq uiPeers
    BY <1>8 DEF FailedMark, FailedTell, LeaveMark, LeaveTell, MarkOffline
  <2>2. /\ conn' \in [Conn -> {conn[c] : c \in Conn} \cup {"failed", "left", "gone"}]
        /\ UNCHANGED <<at, cur, online, listed, order, cancelled, stop, backlog,
                       from, reset, reused, kicked, uiOnline>>
    BY <1>8 DEF FailedMark, FailedTell, LeaveMark, LeaveTell, MarkOffline
  <2> QED
    BY <2>1, <2>2
<1>9. CASE Stop
  BY <1>9 DEF Stop, StopCancel, StopLocked, StopReturns
<1>10. CASE \E c \in Conn, a \in Addr : Connect(c, a)
  BY <1>10 DEF Connect
<1>11. CASE \E c \in Conn : Reset(c)
  BY <1>11 DEF Reset
<1>12. CASE \E a \in Addr : Kick(a)
  BY <1>12 DEF Kick
<1>13. CASE UNCHANGED vars
  BY <1>13 DEF vars
<1> HIDE DEF TypeOK, HoldsCurrent, Holding, HasAddress, ListedLives
<1> QED
  BY <1>1, <1>2, <1>3, <1>4, <1>5, <1>6, <1>7, <1>8, <1>9, <1>10, <1>11,
     <1>12, <1>13
     DEF Next, Start, AcceptTask, Handler, Terminated

(* The flag falls in stop() and stays down.                                  *)
LEMMA PlacesStep ==
    ASSUME TypeOK, Places, [Next]_vars
    PROVE  Places'
<1> USE ServerAssumption
        DEF TypeOK, Places, acceptVars, peerVars, stopVars, connVars, uiVars,
            Becomes, EmitPeerOnline, EmitPeerOffline, EmitOnline,
            EmitOffline, Listening, Served, Over
<1>1. CASE Start
  BY <1>1 DEF Start, Bind, BindFailed, StartReturns
<1>2. CASE AcceptCancelled \/ AcceptAgain \/ AcceptError
  BY <1>2 DEF AcceptCancelled, AcceptAgain, AcceptError
<1>3. CASE Accept
  BY <1>3 DEF Accept
<1>4. CASE Admit
  BY <1>4 DEF Admit
<1>5. CASE Add
  BY <1>5 DEF Add, AddPeer
<1>6. CASE Tell
  BY <1>6 DEF Tell
<1>7. CASE \E c \in Conn : \/ HandshakeDone(c) \/ HandshakeFails(c) \/ Leave(c)
                            \/ MustLeave(c) \/ BeginWrite(c) \/ EndWrite(c)
  BY <1>7 DEF HandshakeDone, HandshakeFails, Leave, MustLeave, BeginWrite,
              EndWrite
<1>8. CASE \E c \in Conn : \/ FailedMark(c) \/ FailedTell(c)
                            \/ LeaveMark(c) \/ LeaveTell(c)
  BY <1>8 DEF FailedMark, FailedTell, LeaveMark, LeaveTell, MarkOffline
<1>9. CASE Stop
  BY <1>9 DEF Stop, StopCancel, StopLocked, StopReturns
<1>10. CASE \E c \in Conn, a \in Addr : Connect(c, a)
  BY <1>10 DEF Connect
<1>11. CASE \E c \in Conn : Reset(c)
  BY <1>11 DEF Reset
<1>12. CASE \E a \in Addr : Kick(a)
  BY <1>12 DEF Kick
<1>13. CASE UNCHANGED vars
  BY <1>13 DEF vars
<1> HIDE DEF TypeOK, Places
<1> QED
  BY <1>1, <1>2, <1>3, <1>4, <1>5, <1>6, <1>7, <1>8, <1>9, <1>10, <1>11,
     <1>12, <1>13
     DEF Next, Start, AcceptTask, Handler, Terminated

(* The accept task takes a connection only once the one before is dealt      *)
(* with.                                                                     *)
LEMMA HoldsCurrentStep ==
    ASSUME TypeOK, HoldsCurrent, BacklogWaits, [Next]_vars
    PROVE  HoldsCurrent'
<1> USE ServerAssumption
        DEF TypeOK, HoldsCurrent, Holding, BacklogWaits, acceptVars,
            peerVars, stopVars, connVars, uiVars, Becomes, EmitPeerOnline,
            EmitPeerOffline, EmitOnline, EmitOffline, Listening, Served,
            Over
<1>1. CASE Start
  BY <1>1 DEF Start, Bind, BindFailed, StartReturns
<1>2. CASE AcceptCancelled \/ AcceptAgain \/ AcceptError
  BY <1>2 DEF AcceptCancelled, AcceptAgain, AcceptError
<1>3. CASE Accept
  BY <1>3 DEF Accept
<1>4. CASE Admit
  BY <1>4 DEF Admit
<1>5. CASE Add
  BY <1>5 DEF Add, AddPeer
<1>6. CASE Tell
  BY <1>6 DEF Tell
<1>7. CASE \E c \in Conn : \/ HandshakeDone(c) \/ HandshakeFails(c) \/ Leave(c)
                            \/ MustLeave(c) \/ BeginWrite(c) \/ EndWrite(c)
  BY <1>7 DEF HandshakeDone, HandshakeFails, Leave, MustLeave, BeginWrite,
              EndWrite
<1>8. CASE \E c \in Conn : \/ FailedMark(c) \/ FailedTell(c)
                            \/ LeaveMark(c) \/ LeaveTell(c)
  BY <1>8 DEF FailedMark, FailedTell, LeaveMark, LeaveTell, MarkOffline
<1>9. CASE Stop
  BY <1>9 DEF Stop, StopCancel, StopLocked, StopReturns
<1>10. CASE \E c \in Conn, a \in Addr : Connect(c, a)
  BY <1>10 DEF Connect
<1>11. CASE \E c \in Conn : Reset(c)
  BY <1>11 DEF Reset
<1>12. CASE \E a \in Addr : Kick(a)
  BY <1>12 DEF Kick
<1>13. CASE UNCHANGED vars
  BY <1>13 DEF vars
<1> HIDE DEF TypeOK, HoldsCurrent, Holding, BacklogWaits
<1> QED
  BY <1>1, <1>2, <1>3, <1>4, <1>5, <1>6, <1>7, <1>8, <1>9, <1>10, <1>11,
     <1>12, <1>13
     DEF Next, Start, AcceptTask, Handler, Terminated

(* The backlog holds what waits.                                             *)
LEMMA BacklogStep ==
    ASSUME TypeOK, HoldsCurrent, BacklogWaits, [Next]_vars
    PROVE  BacklogWaits'
<1> USE ServerAssumption
        DEF TypeOK, HoldsCurrent, Holding, BacklogWaits, acceptVars,
            peerVars, stopVars, connVars, uiVars, Becomes, EmitPeerOnline,
            EmitPeerOffline, EmitOnline, EmitOffline, Listening, Served,
            Over
<1>1. CASE Start
  BY <1>1 DEF Start, Bind, BindFailed, StartReturns
<1>2. CASE AcceptCancelled \/ AcceptAgain \/ AcceptError
  BY <1>2 DEF AcceptCancelled, AcceptAgain, AcceptError
<1>3. CASE Accept
  BY <1>3 DEF Accept
<1>4. CASE Admit
  BY <1>4 DEF Admit
<1>5. CASE Add
  BY <1>5 DEF Add, AddPeer
<1>6. CASE Tell
  BY <1>6 DEF Tell
<1>7. CASE \E c \in Conn : \/ HandshakeDone(c) \/ HandshakeFails(c) \/ Leave(c)
                            \/ MustLeave(c) \/ BeginWrite(c) \/ EndWrite(c)
  BY <1>7 DEF HandshakeDone, HandshakeFails, Leave, MustLeave, BeginWrite,
              EndWrite
<1>8. CASE \E c \in Conn : \/ FailedMark(c) \/ FailedTell(c)
                            \/ LeaveMark(c) \/ LeaveTell(c)
  BY <1>8 DEF FailedMark, FailedTell, LeaveMark, LeaveTell, MarkOffline
<1>9. CASE Stop
  BY <1>9 DEF Stop, StopCancel, StopLocked, StopReturns
<1>10. CASE \E c \in Conn, a \in Addr : Connect(c, a)
  BY <1>10 DEF Connect
<1>11. CASE \E c \in Conn : Reset(c)
  BY <1>11 DEF Reset
<1>12. CASE \E a \in Addr : Kick(a)
  BY <1>12 DEF Kick
<1>13. CASE UNCHANGED vars
  BY <1>13 DEF vars
<1> HIDE DEF TypeOK, HoldsCurrent, Holding, BacklogWaits
<1> QED
  BY <1>1, <1>2, <1>3, <1>4, <1>5, <1>6, <1>7, <1>8, <1>9, <1>10, <1>11,
     <1>12, <1>13
     DEF Next, Start, AcceptTask, Handler, Terminated

(* A connection keeps its address.                                           *)
LEMMA HasAddressStep ==
    ASSUME TypeOK, HoldsCurrent, BacklogWaits, HasAddress, [Next]_vars
    PROVE  HasAddress'
<1> USE ServerAssumption
        DEF TypeOK, HoldsCurrent, Holding, BacklogWaits, HasAddress,
            acceptVars, peerVars, stopVars, connVars, uiVars, Becomes,
            EmitPeerOnline, EmitPeerOffline, EmitOnline, EmitOffline,
            Listening, Served, Over
<1>1. CASE Start
  BY <1>1 DEF Start, Bind, BindFailed, StartReturns
<1>2. CASE AcceptCancelled \/ AcceptAgain \/ AcceptError
  BY <1>2 DEF AcceptCancelled, AcceptAgain, AcceptError
<1>3. CASE Accept
  BY <1>3 DEF Accept
<1>4. CASE Admit
  BY <1>4 DEF Admit
<1>5. CASE Add
  BY <1>5 DEF Add, AddPeer
<1>6. CASE Tell
  BY <1>6 DEF Tell
<1>7. CASE \E c \in Conn : \/ HandshakeDone(c) \/ HandshakeFails(c) \/ Leave(c)
                            \/ MustLeave(c) \/ BeginWrite(c) \/ EndWrite(c)
  BY <1>7 DEF HandshakeDone, HandshakeFails, Leave, MustLeave, BeginWrite,
              EndWrite
<1>8. CASE \E c \in Conn : \/ FailedMark(c) \/ FailedTell(c)
                            \/ LeaveMark(c) \/ LeaveTell(c)
  BY <1>8 DEF FailedMark, FailedTell, LeaveMark, LeaveTell, MarkOffline
<1>9. CASE Stop
  BY <1>9 DEF Stop, StopCancel, StopLocked, StopReturns
<1>10. CASE \E c \in Conn, a \in Addr : Connect(c, a)
  BY <1>10 DEF Connect
<1>11. CASE \E c \in Conn : Reset(c)
  BY <1>11 DEF Reset
<1>12. CASE \E a \in Addr : Kick(a)
  BY <1>12 DEF Kick
<1>13. CASE UNCHANGED vars
  BY <1>13 DEF vars
<1> HIDE DEF TypeOK, HoldsCurrent, Holding, BacklogWaits, HasAddress
<1> QED
  BY <1>1, <1>2, <1>3, <1>4, <1>5, <1>6, <1>7, <1>8, <1>9, <1>10, <1>11,
     <1>12, <1>13
     DEF Next, Start, AcceptTask, Handler, Terminated

(* A client that comes back early makes its address a reused one.            *)
LEMMA OneConnectionStep ==
    ASSUME TypeOK, HoldsCurrent, BacklogWaits, HasAddress, OneConnection, [Next]_vars
    PROVE  OneConnection'
<1> USE ServerAssumption
        DEF TypeOK, HoldsCurrent, Holding, BacklogWaits, HasAddress,
            OneConnection, acceptVars, peerVars, stopVars, connVars, uiVars,
            Becomes, EmitPeerOnline, EmitPeerOffline, EmitOnline,
            EmitOffline, Listening, Served, Over
<1>1. CASE Start
  BY <1>1 DEF Start, Bind, BindFailed, StartReturns
<1>2. CASE AcceptCancelled \/ AcceptAgain \/ AcceptError
  BY <1>2 DEF AcceptCancelled, AcceptAgain, AcceptError
<1>3. CASE Accept
  BY <1>3 DEF Accept
<1>4. CASE Admit
  BY <1>4 DEF Admit
<1>5. CASE Add
  BY <1>5 DEF Add, AddPeer
<1>6. CASE Tell
  BY <1>6 DEF Tell
<1>7. CASE \E c \in Conn : \/ HandshakeDone(c) \/ HandshakeFails(c) \/ Leave(c)
                            \/ MustLeave(c) \/ BeginWrite(c) \/ EndWrite(c)
  BY <1>7 DEF HandshakeDone, HandshakeFails, Leave, MustLeave, BeginWrite,
              EndWrite
<1>8. CASE \E c \in Conn : \/ FailedMark(c) \/ FailedTell(c)
                            \/ LeaveMark(c) \/ LeaveTell(c)
  BY <1>8 DEF FailedMark, FailedTell, LeaveMark, LeaveTell, MarkOffline
<1>9. CASE Stop
  BY <1>9 DEF Stop, StopCancel, StopLocked, StopReturns
<1>10. CASE \E c \in Conn, a \in Addr : Connect(c, a)
  BY <1>10 DEF Connect
<1>11. CASE \E c \in Conn : Reset(c)
  BY <1>11 DEF Reset
<1>12. CASE \E a \in Addr : Kick(a)
  BY <1>12 DEF Kick
<1>13. CASE UNCHANGED vars
  BY <1>13 DEF vars
<1> HIDE DEF TypeOK, HoldsCurrent, Holding, BacklogWaits, HasAddress,
             OneConnection
<1> QED
  BY <1>1, <1>2, <1>3, <1>4, <1>5, <1>6, <1>7, <1>8, <1>9, <1>10, <1>11,
     <1>12, <1>13
     DEF Next, Start, AcceptTask, Handler, Terminated

(* A handler strikes its address off before it is over.                      *)
LEMMA ListedLivesStep ==
    ASSUME TypeOK, HoldsCurrent, BacklogWaits, HasAddress, ListedLives, [Next]_vars
    PROVE  ListedLives'
<1> USE ServerAssumption
        DEF TypeOK, HoldsCurrent, Holding, BacklogWaits, HasAddress,
            ListedLives, MayBeListed, acceptVars, peerVars, stopVars,
            connVars, uiVars, Becomes, EmitPeerOnline, EmitPeerOffline,
            EmitOnline, EmitOffline, Listening, Served, Over
<1>1. CASE Start
  BY <1>1 DEF Start, Bind, BindFailed, StartReturns
<1>2. CASE AcceptCancelled \/ AcceptAgain \/ AcceptError
  BY <1>2 DEF AcceptCancelled, AcceptAgain, AcceptError
<1>3. CASE Accept
  BY <1>3 DEF Accept
<1>4. CASE Admit
  BY <1>4 DEF Admit
<1>5. CASE Add
  BY <1>5 DEF Add, AddPeer
<1>6. CASE Tell
  BY <1>6 DEF Tell
<1>7. CASE \E c \in Conn : \/ HandshakeDone(c) \/ HandshakeFails(c) \/ Leave(c)
                            \/ MustLeave(c) \/ BeginWrite(c) \/ EndWrite(c)
  BY <1>7 DEF HandshakeDone, HandshakeFails, Leave, MustLeave, BeginWrite,
              EndWrite
<1>8. CASE \E c \in Conn : \/ FailedMark(c) \/ FailedTell(c)
                            \/ LeaveMark(c) \/ LeaveTell(c)
  BY <1>8 DEF FailedMark, FailedTell, LeaveMark, LeaveTell, MarkOffline
<1>9. CASE Stop
  BY <1>9 DEF Stop, StopCancel, StopLocked, StopReturns
<1>10. CASE \E c \in Conn, a \in Addr : Connect(c, a)
  BY <1>10 DEF Connect
<1>11. CASE \E c \in Conn : Reset(c)
  BY <1>11 DEF Reset
<1>12. CASE \E a \in Addr : Kick(a)
  BY <1>12 DEF Kick
<1>13. CASE UNCHANGED vars
  BY <1>13 DEF vars
<1> HIDE DEF TypeOK, HoldsCurrent, Holding, BacklogWaits, HasAddress,
             ListedLives, MayBeListed
<1> QED
  BY <1>1, <1>2, <1>3, <1>4, <1>5, <1>6, <1>7, <1>8, <1>9, <1>10, <1>11,
     <1>12, <1>13
     DEF Next, Start, AcceptTask, Handler, Terminated

(* Only its own handler, or stop(), strikes off a peer whose address is its  *)
(* own.                                                                      *)
LEMMA LivesListedStep ==
    ASSUME TypeOK, Places, HoldsCurrent, BacklogWaits, HasAddress,
           OneConnection, LivesListed, [Next]_vars
    PROVE  LivesListed'
<1> USE ServerAssumption
        DEF TypeOK, Places, HoldsCurrent, Holding, BacklogWaits, HasAddress,
            OneConnection, LivesListed, MustBeListed, Listed, acceptVars,
            peerVars, stopVars, connVars, uiVars, Becomes, EmitPeerOnline,
            EmitPeerOffline, EmitOnline, EmitOffline, Listening, Served,
            Over
<1>1. CASE Start
  BY <1>1 DEF Start, Bind, BindFailed, StartReturns
<1>2. CASE AcceptCancelled \/ AcceptAgain \/ AcceptError
  BY <1>2 DEF AcceptCancelled, AcceptAgain, AcceptError
<1>3. CASE Accept
  BY <1>3 DEF Accept
<1>4. CASE Admit
  BY <1>4 DEF Admit
<1>5. CASE Add
  BY <1>5 DEF Add, AddPeer
<1>6. CASE Tell
  BY <1>6 DEF Tell
<1>7. CASE \E c \in Conn : \/ HandshakeDone(c) \/ HandshakeFails(c) \/ Leave(c)
                            \/ MustLeave(c) \/ BeginWrite(c) \/ EndWrite(c)
  BY <1>7 DEF HandshakeDone, HandshakeFails, Leave, MustLeave, BeginWrite,
              EndWrite
<1>8. CASE \E c \in Conn : \/ FailedMark(c) \/ FailedTell(c)
                            \/ LeaveMark(c) \/ LeaveTell(c)
  BY <1>8 DEF FailedMark, FailedTell, LeaveMark, LeaveTell, MarkOffline
<1>9. CASE Stop
  BY <1>9 DEF Stop, StopCancel, StopLocked, StopReturns
<1>10. CASE \E c \in Conn, a \in Addr : Connect(c, a)
  BY <1>10 DEF Connect
<1>11. CASE \E c \in Conn : Reset(c)
  BY <1>11 DEF Reset
<1>12. CASE \E a \in Addr : Kick(a)
  BY <1>12 DEF Kick
<1>13. CASE UNCHANGED vars
  BY <1>13 DEF vars
<1> HIDE DEF TypeOK, Places, HoldsCurrent, Holding, BacklogWaits, HasAddress,
             OneConnection, LivesListed, MustBeListed, Listed
<1> QED
  BY <1>1, <1>2, <1>3, <1>4, <1>5, <1>6, <1>7, <1>8, <1>9, <1>10, <1>11,
     <1>12, <1>13
     DEF Next, Start, AcceptTask, Handler, Terminated

-----------------------------------------------------------------------------
(* Room is kept while nobody is added and no admission is granted ...        *)
LEMMA FewerKeepsRoom ==
    ASSUME RoomForAdmitted, at' = "adding" => at = "adding",
           up' \in {up, {}} \/ \E a : up' = up \ {a}
    PROVE  RoomForAdmitted'
<1>1. IsFiniteSet(up) /\ Cardinality(up) \in Nat
  BY FS_CardinalityType DEF RoomForAdmitted
<1>2. /\ IsFiniteSet(up')
      /\ Cardinality(up') \in Nat
      /\ Cardinality(up') <= Cardinality(up)
  <2>1. CASE up' = up
    BY <1>1, <2>1
  <2>2. CASE up' = {}
    BY <1>1, <2>2, FS_EmptySet
  <2>3. ASSUME NEW a, up' = up \ {a}
        PROVE  <1>2!:
    BY <1>1, <2>3, FS_RemoveElement, FS_CardinalityType
  <2> QED
    BY <2>1, <2>2, <2>3
<1> QED
  BY <1>1, <1>2, ServerAssumption DEF RoomForAdmitted, OnlineCount

(* ... and an addition uses the room it was admitted to.                     *)
LEMMA AddingUsesRoom ==
    ASSUME RoomForAdmitted, NEW a, at = "adding", at' = "telling",
           up' = up \cup {a}
    PROVE  RoomForAdmitted'
<1>1. IsFiniteSet(up) /\ Cardinality(up) \in Nat
  BY FS_CardinalityType DEF RoomForAdmitted
<1>2. /\ IsFiniteSet(up')
      /\ Cardinality(up') \in {Cardinality(up), Cardinality(up) + 1}
  BY <1>1, FS_AddElement
<1> QED
  BY <1>1, <1>2, ServerAssumption DEF RoomForAdmitted, OnlineCount

(* The one accept task adds what it has admitted before it admits another.   *)
LEMMA RoomStep ==
    ASSUME TypeOK, RoomForAdmitted, [Next]_vars
    PROVE  RoomForAdmitted'
<1>1. CASE Start \/ AcceptCancelled \/ Accept \/ AcceptAgain \/ AcceptError
  BY <1>1, FewerKeepsRoom
     DEF Start, Bind, BindFailed, StartReturns, AcceptCancelled, Accept,
         AcceptAgain, AcceptError, peerVars
<1>2. CASE Admit
  <2>1. IsFiniteSet(up) /\ Cardinality(up) \in Nat
    BY FS_CardinalityType DEF RoomForAdmitted
  <2> QED
    BY <1>2, <2>1, ServerAssumption
       DEF Admit, RoomForAdmitted, OnlineCount, peerVars
<1>3. CASE Add
  BY <1>3, AddingUsesRoom DEF Add, AddPeer
<1>4. CASE Tell
  BY <1>4, FewerKeepsRoom DEF Tell, peerVars
<1>5. CASE \E c \in Conn : \/ HandshakeDone(c) \/ HandshakeFails(c) \/ Leave(c)
                           \/ MustLeave(c) \/ BeginWrite(c) \/ EndWrite(c)
  BY <1>5, FewerKeepsRoom
     DEF HandshakeDone, HandshakeFails, Leave, MustLeave, BeginWrite, EndWrite,
         Becomes, acceptVars, peerVars
<1>6. CASE \E c \in Conn : \/ FailedMark(c) \/ FailedTell(c)
                           \/ LeaveMark(c) \/ LeaveTell(c)
  <2>1. at' = at
    BY <1>6 DEF FailedMark, FailedTell, LeaveMark, LeaveTell, Becomes,
                acceptVars
  <2>2. up' = up \/ \E a : up' = up \ {a}
    BY <1>6 DEF FailedMark, FailedTell, LeaveMark, LeaveTell, MarkOffline,
                peerVars
  <2> QED
    BY <2>1, <2>2, FewerKeepsRoom
<1>7. CASE Stop
  BY <1>7, FewerKeepsRoom
     DEF Stop, StopCancel, StopLocked, StopReturns, acceptVars, peerVars
<1>8. CASE \/ \E c \in Conn, a \in Addr : Connect(c, a)
           \/ \E c \in Conn : Reset(c)
           \/ \E a \in Addr : Kick(a)
  BY <1>8, FewerKeepsRoom DEF Connect, Reset, Kick, acceptVars, peerVars
<1>9. CASE UNCHANGED vars
  BY <1>9, FewerKeepsRoom DEF vars
<1> QED
  BY <1>1, <1>2, <1>3, <1>4, <1>5, <1>6, <1>7, <1>8, <1>9
     DEF Next, AcceptTask, Handler, Terminated

(* Each event follows its change of the list, and the change is in transit   *)
(* until then.                                                               *)
LEMMA UiStep ==
    ASSUME TypeOK, Places, HoldsCurrent, BacklogWaits, HasAddress,
           OneConnection, ListedLives, LivesListed, UiShowsPeers, [Next]_vars
    PROVE  UiShowsPeers'
<1> USE ServerAssumption
        DEF TypeOK, Places, HoldsCurrent, Holding, BacklogWaits, HasAddress,
            OneConnection, ListedLives, MayBeListed, LivesListed,
            MustBeListed, Listed, UiShowsPeers, InTransit, acceptVars,
            peerVars, stopVars, connVars, uiVars, Becomes, EmitPeerOnline,
            EmitPeerOffline, EmitOnline, EmitOffline, Listening, Served,
            Over
<1>1. CASE Start
  BY <1>1 DEF Start, Bind, BindFailed, StartReturns
<1>2. CASE AcceptCancelled \/ AcceptAgain \/ AcceptError
  <2>1. \A d \in Conn :
          conn'[d] \in {"left", "failed"} <=> conn[d] \in {"left", "failed"}
    BY <1>2 DEF AcceptCancelled, AcceptAgain, AcceptError
  <2>2. UNCHANGED <<cancelled, up, uiPeers, reused, from>>
    BY <1>2 DEF AcceptCancelled, AcceptAgain, AcceptError
  <2>3. at # "telling" /\ at' # "telling"
    BY <1>2 DEF AcceptCancelled, AcceptAgain, AcceptError
  <2> QED
    BY <2>1, <2>2, <2>3
<1>3. CASE Accept
  <2>1. \A d \in Conn :
          conn'[d] \in {"left", "failed"} <=> conn[d] \in {"left", "failed"}
    <3>1. cur' \in Conn /\ conn[cur'] = "waiting"
      BY <1>3 DEF Accept
    <3>2. conn' = [conn EXCEPT ![cur'] = "held"]
      BY <1>3 DEF Accept
    <3> QED
      BY <3>1, <3>2
  <2>2. UNCHANGED <<cancelled, up, uiPeers, reused, from>>
    BY <1>3 DEF Accept
  <2>3. at # "telling" /\ at' # "telling"
    BY <1>3 DEF Accept
  <2> QED
    BY <2>1, <2>2, <2>3
<1>4. CASE Admit
  BY <1>4 DEF Admit
<1>5. CASE Add
  BY <1>5 DEF Add, AddPeer
<1>6. CASE Tell
  BY <1>6 DEF Tell
<1>7. CASE \E c \in Conn : \/ HandshakeDone(c) \/ HandshakeFails(c) \/ Leave(c)
                            \/ MustLeave(c) \/ BeginWrite(c) \/ EndWrite(c)
  BY <1>7 DEF HandshakeDone, HandshakeFails, Leave, MustLeave, BeginWrite,
              EndWrite
<1>8. CASE \E c \in Conn : \/ FailedMark(c) \/ FailedTell(c)
                            \/ LeaveMark(c) \/ LeaveTell(c)
  BY <1>8 DEF FailedMark, FailedTell, LeaveMark, LeaveTell, MarkOffline
<1>9. CASE Stop
  BY <1>9 DEF Stop, StopCancel, StopLocked, StopReturns
<1>10. CASE \E c \in Conn, a \in Addr : Connect(c, a)
  BY <1>10 DEF Connect
<1>11. CASE \E c \in Conn : Reset(c)
  BY <1>11 DEF Reset
<1>12. CASE \E a \in Addr : Kick(a)
  BY <1>12 DEF Kick
<1>13. CASE UNCHANGED vars
  BY <1>13 DEF vars
<1> HIDE DEF TypeOK, Places, HoldsCurrent, Holding, BacklogWaits, HasAddress,
             OneConnection, ListedLives, MayBeListed, LivesListed,
             MustBeListed, Listed, UiShowsPeers, InTransit
<1> QED
  BY <1>1, <1>2, <1>3, <1>4, <1>5, <1>6, <1>7, <1>8, <1>9, <1>10, <1>11,
     <1>12, <1>13
     DEF Next, Start, AcceptTask, Handler, Terminated

-----------------------------------------------------------------------------
(* The inductive invariant, with the types, holds in every reachable state.  *)
LEMMA NextIInv == TypeOK /\ IInv /\ [Next]_vars => TypeOK' /\ IInv'
BY TypeStep, PlacesStep, HoldsCurrentStep, BacklogStep, HasAddressStep,
   OneConnectionStep, ListedLivesStep, LivesListedStep, RoomStep, UiStep
   DEF IInv

(* The types and the invariant that carries the other theorems hold in every *)
(* state of a listening session.                                             *)
THEOREM Inductive == Spec => [](TypeOK /\ IInv)
BY InitIInv, NextIInv, PTL DEF Spec

(* Type correctness.                                                         *)
THEOREM TypeCorrect == Spec => []TypeOK
BY Inductive, PTL

(* No more peers than max_connections are listed online, although a handler  *)
(* or stop() may run between the count and the insertion.                    *)
THEOREM LimitHolds == Spec => []WithinLimit
<1>1. IInv => WithinLimit
  BY DEF IInv, RoomForAdmitted, WithinLimit
<1> QED
  BY Inductive, <1>1, PTL

(* A peer that is listed online has a live connection, and a connection that *)
(* is served is listed.                                                      *)
THEOREM ListIsTrue == Spec => []ListReflectsPeers
<1>1. TypeOK /\ IInv => ListReflectsPeers
  BY DEF TypeOK, IInv, ListedLives, MayBeListed, LivesListed, MustBeListed,
         LiveAndServed, ListReflectsPeers, Served, Over
<1> QED
  BY Inductive, <1>1, PTL

(* The interface shows the peers that are listed, but for the events that    *)
(* are on their way.                                                         *)
THEOREM UiIsTrue == Spec => []UiShowsPeers
<1>1. IInv => UiShowsPeers
  BY DEF IInv
<1> QED
  BY Inductive, <1>1, PTL

-----------------------------------------------------------------------------
(* Every step of the server is a step of SessionLifecycle, or leaves flag,   *)
(* token and interface as they are.                                          *)
LEMMA LifecycleStep ==
    TypeOK /\ Places /\ [Next]_vars => [Lifecycle!Next]_(Lifecycle!lifecycleVars)
<1> SUFFICES ASSUME TypeOK, Places, [Next]_vars
             PROVE  [Lifecycle!Next]_(Lifecycle!lifecycleVars)
  OBVIOUS
<1> USE DEF TypeOK, Places, Lifecycle!lifecycleVars, uiVars, Listening
<1>1. CASE Bind
  BY <1>1 DEF Bind, stopVars, Lifecycle!Next, Lifecycle!Open
<1>2. CASE BindFailed
  BY <1>2 DEF BindFailed, stopVars
<1>3. CASE StartReturns
  BY <1>3 DEF StartReturns, EmitOnline, stopVars, Lifecycle!Next,
              Lifecycle!Announce
<1>4. CASE StopCancel
  BY <1>4 DEF StopCancel, Lifecycle!Next, Lifecycle!Cancel
<1>5. CASE StopLocked
  BY <1>5 DEF StopLocked, Lifecycle!Next, Lifecycle!Close
<1>6. CASE StopReturns
  BY <1>6 DEF StopReturns, EmitOffline, Lifecycle!Next, Lifecycle!Conceal
<1>7. CASE AcceptTask \/ AcceptError
  BY <1>7 DEF AcceptTask, AcceptError, AcceptCancelled, Accept, AcceptAgain,
              Admit, Add, Tell, EmitPeerOnline, stopVars
<1>8. CASE \E c \in Conn : \/ HandshakeDone(c) \/ HandshakeFails(c) \/ Leave(c)
                           \/ MustLeave(c) \/ BeginWrite(c) \/ EndWrite(c)
  BY <1>8 DEF HandshakeDone, HandshakeFails, Leave, MustLeave, BeginWrite,
              EndWrite, Becomes, stopVars
<1>9. CASE \E c \in Conn : \/ FailedMark(c) \/ FailedTell(c)
                           \/ LeaveMark(c) \/ LeaveTell(c)
  BY <1>9 DEF FailedMark, FailedTell, LeaveMark, LeaveTell, Becomes, stopVars,
              EmitPeerOffline
<1>10. CASE \/ \E c \in Conn, a \in Addr : Connect(c, a)
            \/ \E c \in Conn : Reset(c)
            \/ \E a \in Addr : Kick(a)
  BY <1>10 DEF Connect, Reset, Kick, stopVars
<1>11. CASE UNCHANGED vars
  BY <1>11 DEF vars
<1> QED
  BY <1>1, <1>2, <1>3, <1>4, <1>5, <1>6, <1>7, <1>8, <1>9, <1>10, <1>11
     DEF Next, Start, Stop, Handler, Terminated

(* The server implements the promise every transport makes.                  *)
THEOREM Refinement == Spec => ImplementsLifecycle
<1>1. Init => Lifecycle!Init
  BY DEF Init, Lifecycle!Init
<1>2. TypeOK /\ IInv /\ [Next]_vars => [Lifecycle!Next]_(Lifecycle!lifecycleVars)
  BY LifecycleStep DEF IInv
<1> QED
  BY <1>1, <1>2, Inductive, PTL DEF Spec, ImplementsLifecycle, Lifecycle!Spec

-----------------------------------------------------------------------------
(* The traffic: what a channel took is written in order, the answers stay    *)
(* with their connection, and send() tells the truth.                        *)

States == Over \cup Served \cup {"waiting", "held", "leaving", "left", "failing",
                                 "failed"}
TrafficTyped == conn \in [Conn -> States] /\ TrafficTypeOK

(* An item is being written by the handler that writes, and by no other.     *)
WriterHolds == \A c \in Conn : conn[c] = "writing" <=> cursor[c] # <<>>

(* A connection that is yet to come has an empty channel.                    *)
FreshIsEmpty ==
    \A c \in Conn : conn[c] = "idle" =>
        written[c] = <<>> /\ queue[c] = <<>> /\ queued[c] = <<>>

(* What was written is what was taken first; a connection that is served has *)
(* the rest in its line.                                                     *)
WrittenFirst == \A c \in Conn : IsPrefix(written[c], queued[c])
LineIsWhole == \A c \in Conn : conn[c] \in Served => Line(c) = queued[c]

(* An answer that waits, or was taken, is that connection's.                 *)
DueIsAnswer == \A item \in due : item.id \in Answer /\ origin[item.id] \in Conn
AnswersStay ==
    \A c \in Conn : \A item \in Range(queued[c]) :
        item.id \in Answer => origin[item.id] = c

TrafficIInv == /\ WriterHolds /\ FreshIsEmpty /\ WrittenFirst /\ LineIsWhole
        /\ DueIsAnswer /\ AnswersStay

(* The types and the invariant hold when start() has returned.               *)
LEMMA InitTraffic == TrafficInit => TrafficTyped /\ TrafficIInv
<1> SUFFICES ASSUME TrafficInit PROVE TrafficTyped /\ TrafficIInv
  OBVIOUS
<1> USE DEF TrafficInit
<1>1. \A c \in Conn : /\ conn[c] = "idle" /\ queue[c] = <<>> /\ cursor[c] = <<>>
                      /\ written[c] = <<>> /\ queued[c] = <<>>
  OBVIOUS
<1>2. TrafficTyped
  <2>1. <<>> \in Seq(Item)
    OBVIOUS
  <2>2. /\ conn \in [Conn -> States]
        /\ queue \in [Conn -> Seq(Item)] /\ cursor \in [Conn -> Seq(Item)]
        /\ written \in [Conn -> Seq(Item)] /\ queued \in [Conn -> Seq(Item)]
    BY <2>1 DEF States, Over
  <2>3. /\ due \subseteq Item
        /\ origin \in [Answer -> Conn \cup {None}]
        /\ result \in [Msg -> {"unsent", "ok", "error"}]
    OBVIOUS
  <2> QED
    BY <1>1, <2>2, <2>3 DEF TrafficTyped, TrafficTypeOK
<1>3. \A c \in Conn : Range(queued[c]) = {}
  BY <1>1 DEF Range
<1>4. WriterHolds /\ FreshIsEmpty /\ LineIsWhole /\ DueIsAnswer
  BY <1>1 DEF WriterHolds, FreshIsEmpty, LineIsWhole, DueIsAnswer, Served
<1>5. WrittenFirst
  BY <1>1, PrefixSelf, <<>> \in Seq(Item) DEF WrittenFirst
<1>6. AnswersStay
  BY <1>3 DEF AnswersStay
<1> QED
  BY <1>2, <1>4, <1>5, <1>6 DEF TrafficIInv

-----------------------------------------------------------------------------
(* An item is put into channels of connections that are not over: a message  *)
(* into any, an answer into its own.                                         *)
LEMMA EnqueueStep ==
    ASSUME TrafficTyped, FreshIsEmpty, WrittenFirst, LineIsWhole, AnswersStay,
           NEW item \in Item, NEW to \in SUBSET HasChannel, Enqueue(item, to),
           item.id \in Answer => to \subseteq {origin[item.id]},
           UNCHANGED <<conn, cursor, written, origin>>
    PROVE  /\ queue' \in [Conn -> Seq(Item)] /\ queued' \in [Conn -> Seq(Item)]
           /\ FreshIsEmpty' /\ WrittenFirst' /\ LineIsWhole' /\ AnswersStay'
           /\ \A c \in Conn : Range(queued'[c]) =
                IF c \in to THEN Range(queued[c]) \cup {item} ELSE Range(queued[c])
<1> USE DEF TrafficTyped, TrafficTypeOK
<1>1. \A c \in Conn : queue[c] \in Seq(Item) /\ cursor[c] \in Seq(Item)
                      /\ written[c] \in Seq(Item) /\ queued[c] \in Seq(Item)
  OBVIOUS
<1>2. /\ queue' = [c \in Conn |-> IF c \in to THEN Append(queue[c], item)
                                              ELSE queue[c]]
      /\ queued' = [c \in Conn |-> IF c \in to THEN Append(queued[c], item)
                                               ELSE queued[c]]
  BY DEF Enqueue
<1> HIDE DEF TrafficTyped, TrafficTypeOK
<1>3. queue' \in [Conn -> Seq(Item)] /\ queued' \in [Conn -> Seq(Item)]
  <2>1. \A c \in Conn : /\ Append(queue[c], item) \in Seq(Item)
                        /\ Append(queued[c], item) \in Seq(Item)
    BY <1>1
  <2> QED
    BY <1>1, <1>2, <2>1
<1>4. FreshIsEmpty'
  BY <1>2 DEF FreshIsEmpty, HasChannel, Over
<1>5. WrittenFirst'
  BY <1>1, <1>2, PrefixAppend DEF WrittenFirst
<1>6. LineIsWhole'
  <2> SUFFICES ASSUME NEW c \in Conn, conn[c] \in Served
               PROVE  (Line(c) = queued[c])'
    BY DEF LineIsWhole
  <2>1. written[c] \o cursor[c] \in Seq(Item)
    BY <1>1
  <2>2. Append(Line(c), item) = (written[c] \o cursor[c]) \o Append(queue[c], item)
    <3>1. queue[c] \in Seq(Item)
      BY <1>1
    <3>2. Line(c) = (written[c] \o cursor[c]) \o queue[c]
      BY DEF Line
    <3> DEFINE before == written[c] \o cursor[c]
    <3>3. before \in Seq(Item)
      BY <2>1
    <3> HIDE DEF before
    <3>4. Append(before \o queue[c], item) = before \o Append(queue[c], item)
      BY <3>1, <3>3
    <3> QED
      BY <3>2, <3>4 DEF before
  <2> QED
    BY <1>2, <2>2 DEF LineIsWhole, Line
<1>7. \A c \in Conn : Range(queued'[c]) =
        IF c \in to THEN Range(queued[c]) \cup {item} ELSE Range(queued[c])
  <2> TAKE c \in Conn
  <2>1. queued[c] \in Seq(Item)
    BY <1>1
  <2>2. Range(Append(queued[c], item)) = Range(queued[c]) \cup {item}
    BY <2>1, RangeAppend
  <2> QED
    BY <1>2, <2>2
<1>8. AnswersStay'
  BY <1>7 DEF AnswersStay
<1> QED
  BY <1>3, <1>4, <1>5, <1>6, <1>7, <1>8

(* send(): the message goes into channels that are there.                    *)
LEMMA SendStep ==
    ASSUME TrafficTyped, TrafficIInv,
           NEW m \in Msg, Broadcast(m) \/ \E a \in Addr : SendTo(m, a)
    PROVE  TrafficTyped' /\ TrafficIInv'
<1>1. PICK to \in SUBSET HasChannel :
        /\ Enqueue(Message(m), to)
        /\ result' = [result EXCEPT ![m] = IF to = {} THEN "error" ELSE "ok"]
  <2>1. \A to : Route(m, to) =>
          \E t \in SUBSET HasChannel :
            /\ Enqueue(Message(m), t)
            /\ result' = [result EXCEPT ![m] = IF t = {} THEN "error" ELSE "ok"]
    BY DEF Route
  <2> QED
    BY <2>1 DEF Broadcast, SendTo
<1>2. /\ result[m] = "unsent"
      /\ UNCHANGED <<conn, cursor, written, due, origin>>
  BY DEF Broadcast, SendTo, Sending, vars
<1>3. Message(m) \in Item /\ Message(m).id = m /\ m \notin Answer
  BY TrafficAssumption DEF Message, Item
<1>4. /\ queue' \in [Conn -> Seq(Item)] /\ queued' \in [Conn -> Seq(Item)]
      /\ FreshIsEmpty' /\ WrittenFirst' /\ LineIsWhole' /\ AnswersStay'
      /\ \A c \in Conn : Range(queued'[c]) =
           IF c \in to THEN Range(queued[c]) \cup {Message(m)} ELSE Range(queued[c])
  <2>1. Message(m).id \in Answer => to \subseteq {origin[Message(m).id]}
    BY <1>3
  <2>2. FreshIsEmpty /\ WrittenFirst /\ LineIsWhole /\ AnswersStay
    BY DEF TrafficIInv
  <2>3. UNCHANGED <<conn, cursor, written, origin>>
    BY <1>2
  <2> QED
    BY <1>1, <1>3, <2>1, <2>2, <2>3, EnqueueStep
<1>5. TrafficTyped'
  <2>1. result' \in [Msg -> {"unsent", "ok", "error"}]
    BY <1>1 DEF TrafficTyped, TrafficTypeOK
  <2> QED
    BY <1>2, <1>4, <2>1 DEF TrafficTyped, TrafficTypeOK
<1>6. WriterHolds' /\ DueIsAnswer'
  BY <1>2 DEF TrafficIInv, WriterHolds, DueIsAnswer
<1> QED
  BY <1>4, <1>5, <1>6 DEF TrafficIInv

(* The answer goes into the channel of the connection it belongs to.         *)
LEMMA AnswerStep ==
    ASSUME TrafficTyped, TrafficIInv, NEW item \in due, AnswerDue(item)
    PROVE  TrafficTyped' /\ TrafficIInv'
<1>1. PICK to \in SUBSET HasChannel :
        /\ to = {origin[item.id]} \cap HasChannel
        /\ Enqueue(item, to)
        /\ due' = due \ {item}
  BY DEF AnswerDue
<1>2. UNCHANGED <<conn, cursor, written, origin, result>>
  BY DEF AnswerDue, vars
<1>3. item \in Item /\ item.id \in Answer
  BY DEF TrafficIInv, DueIsAnswer, TrafficTyped, TrafficTypeOK
<1>4. /\ queue' \in [Conn -> Seq(Item)] /\ queued' \in [Conn -> Seq(Item)]
      /\ FreshIsEmpty' /\ WrittenFirst' /\ LineIsWhole' /\ AnswersStay'
      /\ \A c \in Conn : Range(queued'[c]) =
           IF c \in to THEN Range(queued[c]) \cup {item} ELSE Range(queued[c])
  <2>1. FreshIsEmpty /\ WrittenFirst /\ LineIsWhole /\ AnswersStay
    BY DEF TrafficIInv
  <2>2. UNCHANGED <<conn, cursor, written, origin>>
    BY <1>2
  <2>3. item.id \in Answer => to \subseteq {origin[item.id]}
    BY <1>1
  <2>4. item \in Item /\ Enqueue(item, to)
    BY <1>1, <1>3
  <2> QED
    BY <2>1, <2>2, <2>3, <2>4, EnqueueStep
<1>5. TrafficTyped'
  BY <1>1, <1>2, <1>4 DEF TrafficTyped, TrafficTypeOK
<1>6. WriterHolds' /\ DueIsAnswer'
  BY <1>1, <1>2 DEF TrafficIInv, WriterHolds, DueIsAnswer
<1> QED
  BY <1>4, <1>5, <1>6 DEF TrafficIInv


(* The handler takes the first of what waits.                                *)
LEMMA TakeStep ==
    ASSUME TrafficTyped, TrafficIInv, NEW c \in Conn, TakeItem(c)
    PROVE  TrafficTyped' /\ TrafficIInv'
<1>1. /\ conn[c] = "serving" /\ conn' = [conn EXCEPT ![c] = "writing"]
      /\ queue[c] # <<>> /\ queue' = [queue EXCEPT ![c] = Tail(@)]
      /\ cursor' = [cursor EXCEPT ![c] = <<Head(queue[c])>>]
      /\ UNCHANGED <<written, due, origin, queued, result>>
  BY DEF TakeItem, BeginWrite, Becomes
<1>2. /\ conn \in [Conn -> States]
      /\ queue \in [Conn -> Seq(Item)] /\ cursor \in [Conn -> Seq(Item)]
      /\ written \in [Conn -> Seq(Item)]
      /\ \A d \in Conn : Len(cursor[d]) <= 1
  BY DEF TrafficTyped, TrafficTypeOK
<1>3. queue[c] \in Seq(Item) /\ written[c] \in Seq(Item) /\ Head(queue[c]) \in Item
  BY <1>1, <1>2
<1>4. TrafficTyped'
  <2>1. conn' \in [Conn -> States] /\ queue' \in [Conn -> Seq(Item)]
    BY <1>1, <1>2, <1>3 DEF States, Served
  <2>2. cursor' \in [Conn -> Seq(Item)] /\ \A d \in Conn : Len(cursor'[d]) <= 1
    BY <1>1, <1>2, <1>3
  <2> QED
    BY <1>1, <2>1, <2>2 DEF TrafficTyped, TrafficTypeOK
<1>5. WriterHolds' /\ FreshIsEmpty'
  BY <1>1, <1>2, <1>3 DEF TrafficIInv, WriterHolds, FreshIsEmpty
<1>6. LineIsWhole'
  <2>1. cursor[c] = <<>> /\ Line(c) = queued[c]
    BY <1>1, <1>2 DEF TrafficIInv, WriterHolds, LineIsWhole, Served
  <2>2. (written[c] \o <<Head(queue[c])>>) \o Tail(queue[c])
        = (written[c] \o <<>>) \o queue[c]
    <3>1. (written[c] \o <<Head(queue[c])>>) \o Tail(queue[c])
          = written[c] \o queue[c]
      BY <1>1, <1>3, HeadMoves
    <3>2. written[c] \o <<>> = written[c]
      BY <1>3, ConcatEmptySeq
    <3> QED
      BY <3>1, <3>2
  <2>3. (Line(c) = queued[c])'
    BY <1>1, <1>2, <2>1, <2>2 DEF Line
  <2>4. \A d \in Conn \ {c} : conn'[d] \in Served => (Line(d) = queued[d])'
    BY <1>1, <1>2 DEF TrafficIInv, LineIsWhole, Line
  <2> QED
    BY <2>3, <2>4 DEF LineIsWhole
<1>7. WrittenFirst' /\ DueIsAnswer' /\ AnswersStay'
  BY <1>1 DEF TrafficIInv, WrittenFirst, DueIsAnswer, AnswersStay
<1> QED
  BY <1>4, <1>5, <1>6, <1>7 DEF TrafficIInv

(* It writes it, and what is written goes on to be what was taken first; or  *)
(* it leaves, and what is left of its line is owed no more.                  *)
LEMMA WrittenStep ==
    ASSUME TrafficTyped, TrafficIInv, NEW c \in Conn, Written(c)
    PROVE  TrafficTyped' /\ TrafficIInv'
<1>1. /\ conn[c] = "writing"
      /\ cursor' = [cursor EXCEPT ![c] = <<>>]
      /\ UNCHANGED <<queue, due, origin, queued, result>>
  BY DEF Written
<1>2. /\ conn \in [Conn -> States]
      /\ queue \in [Conn -> Seq(Item)] /\ cursor \in [Conn -> Seq(Item)]
      /\ written \in [Conn -> Seq(Item)]
      /\ \A d \in Conn : Len(cursor[d]) <= 1
  BY DEF TrafficTyped, TrafficTypeOK
<1>3. PICK item \in Item : cursor[c] = <<item>>
  BY <1>1, <1>2 DEF TrafficIInv, WriterHolds
<1>4. written[c] \in Seq(Item) /\ queue[c] \in Seq(Item)
  BY <1>2
<1>5. (written[c] \o <<item>>) \o queue[c] = queued[c]
  BY <1>1, <1>3 DEF TrafficIInv, LineIsWhole, Line, Served
<1>6. \/ /\ conn' = [conn EXCEPT ![c] = "leaving"]
         /\ written' = written
      \/ /\ conn' = [conn EXCEPT ![c] = "serving"]
         /\ written' = [written EXCEPT ![c] = Append(@, item)]
  BY <1>1, <1>2, <1>3 DEF Written, Becomes
<1>7. Append(written[c], item) \in Seq(Item)
  BY <1>4
<1>8. TrafficTyped'
  <2>1. conn' \in [Conn -> States] /\ written' \in [Conn -> Seq(Item)]
    BY <1>2, <1>6, <1>7 DEF States, Served
  <2>2. cursor' \in [Conn -> Seq(Item)] /\ \A d \in Conn : Len(cursor'[d]) <= 1
    BY <1>1, <1>2
  <2> QED
    BY <1>1, <2>1, <2>2 DEF TrafficTyped, TrafficTypeOK
<1>9. WriterHolds' /\ FreshIsEmpty'
  BY <1>1, <1>2, <1>6 DEF TrafficIInv, WriterHolds, FreshIsEmpty
<1>10. Append(written[c], item) = written[c] \o <<item>>
  BY <1>4, AppendIsConcat
<1>11. WrittenFirst'
  <2>1. IsPrefix(Append(written[c], item), queued[c])
    BY <1>4, <1>5, <1>7, <1>10, PrefixConcat
  <2> QED
    BY <1>1, <1>2, <1>6, <2>1 DEF TrafficIInv, WrittenFirst
<1>12. LineIsWhole'
  <2>1. (Append(written[c], item) \o <<>>) \o queue[c] = queued[c]
    BY <1>5, <1>7, <1>10, ConcatEmptySeq
  <2>2. conn'[c] \in Served => (Line(c) = queued[c])'
    BY <1>1, <1>2, <1>6, <2>1 DEF Line, Served
  <2>3. \A d \in Conn \ {c} : conn'[d] \in Served => (Line(d) = queued[d])'
    BY <1>1, <1>2, <1>6 DEF TrafficIInv, LineIsWhole, Line
  <2> QED
    BY <2>2, <2>3 DEF LineIsWhole
<1>13. DueIsAnswer' /\ AnswersStay'
  BY <1>1 DEF TrafficIInv, DueIsAnswer, AnswersStay
<1> QED
  BY <1>8, <1>9, <1>11, <1>12, <1>13 DEF TrafficIInv

(* The channel of a connection that is over is dropped.                      *)
LEMMA GoneStep ==
    ASSUME TrafficTyped, TrafficIInv, NEW c \in Conn, Gone(c)
    PROVE  TrafficTyped' /\ TrafficIInv'
<1>1. /\ conn[c] = "left" /\ conn' = [conn EXCEPT ![c] = "gone"]
      /\ queue' = [queue EXCEPT ![c] = <<>>]
      /\ UNCHANGED <<cursor, written, due, origin, queued, result>>
  BY DEF Gone, LeaveTell, Becomes
<1>2. conn \in [Conn -> States] /\ queue \in [Conn -> Seq(Item)]
  BY DEF TrafficTyped, TrafficTypeOK
<1>3. TrafficTyped'
  <2>1. conn' \in [Conn -> States] /\ queue' \in [Conn -> Seq(Item)]
    BY <1>1, <1>2 DEF States, Over
  <2> QED
    BY <1>1, <2>1 DEF TrafficTyped, TrafficTypeOK
<1>4. WriterHolds' /\ FreshIsEmpty' /\ LineIsWhole'
  BY <1>1, <1>2 DEF TrafficIInv, WriterHolds, FreshIsEmpty, LineIsWhole, Line, Served
<1>5. WrittenFirst' /\ DueIsAnswer' /\ AnswersStay'
  BY <1>1 DEF TrafficIInv, WrittenFirst, DueIsAnswer, AnswersStay
<1> QED
  BY <1>3, <1>4, <1>5 DEF TrafficIInv

(* A message is answered once, so what was taken as an answer stays where it *)
(* belongs.                                                                  *)
LEMMA InboundStep ==
    ASSUME TrafficTyped, TrafficIInv, NEW c \in Conn, NEW r \in Answer, Inbound(c, r)
    PROVE  TrafficTyped' /\ TrafficIInv'
<1>1. /\ origin[r] = None /\ origin' = [origin EXCEPT ![r] = c]
      /\ UNCHANGED <<conn, queue, cursor, written, queued, result>>
  BY DEF Inbound, vars
<1>2. PICK item \in Item : item.id = r /\ due' = due \cup {item}
  BY DEF Inbound, Item
<1>3. origin \in [Answer -> Conn \cup {None}] /\ due \subseteq Item
  BY DEF TrafficTyped, TrafficTypeOK
<1>4. TrafficTyped'
  BY <1>1, <1>2, <1>3 DEF TrafficTyped, TrafficTypeOK
<1>5. DueIsAnswer' /\ AnswersStay'
  BY <1>1, <1>2, <1>3, ServerAssumption DEF TrafficIInv, DueIsAnswer, AnswersStay
<1>6. WriterHolds' /\ FreshIsEmpty' /\ WrittenFirst' /\ LineIsWhole'
  BY <1>1 DEF TrafficIInv, WriterHolds, FreshIsEmpty, WrittenFirst, LineIsWhole, Line
<1> QED
  BY <1>4, <1>5, <1>6 DEF TrafficIInv

(* The life cycle: a connection arrives with an empty channel, and one that  *)
(* leaves is not served.                                                     *)
LEMMA LifeStep ==
    ASSUME TrafficTyped, TrafficIInv, LifeCycle, UNCHANGED trafficVars
    PROVE  TrafficTyped' /\ TrafficIInv'
<1>1. UNCHANGED <<queue, cursor, written, due, origin, queued, result>>
  BY DEF trafficVars
<1>2. \/ UNCHANGED conn
      \/ \E c \in Conn : \/ /\ conn[c] = "serving"
                            /\ conn' = [conn EXCEPT ![c] = "leaving"]
                         \/ /\ conn[c] = "leaving"
                            /\ conn' = [conn EXCEPT ![c] = "left"]
                         \/ /\ conn[c] = "idle"
                            /\ conn' = [conn EXCEPT ![c] = "serving"]
  BY DEF LifeCycle, Leave, LeaveMark, Reset, Arrive, StopCancel, StopLocked,
         Becomes, connVars
<1>3. conn \in [Conn -> States]
  BY DEF TrafficTyped
<1>4. TrafficTyped'
  BY <1>1, <1>2, <1>3 DEF TrafficTyped, TrafficTypeOK, States, Served
<1>5. WriterHolds' /\ FreshIsEmpty'
  BY <1>1, <1>2, <1>3 DEF TrafficIInv, WriterHolds, FreshIsEmpty
<1>6. LineIsWhole'
  <2>1. \A c \in Conn : conn[c] = "idle" => Line(c) = queued[c]
    <3> SUFFICES ASSUME NEW c \in Conn, conn[c] = "idle"
                 PROVE  Line(c) = queued[c]
      OBVIOUS
    <3>1. /\ written[c] = <<>> /\ cursor[c] = <<>> /\ queue[c] = <<>>
          /\ queued[c] = <<>>
      BY DEF TrafficIInv, WriterHolds, FreshIsEmpty
    <3> QED
      BY <3>1, <<>> \in Seq(Item), ConcatEmptySeq DEF Line
  <2> QED
    BY <1>1, <1>2, <1>3, <2>1 DEF TrafficIInv, LineIsWhole, Line, Served
<1>7. WrittenFirst' /\ DueIsAnswer' /\ AnswersStay'
  BY <1>1 DEF TrafficIInv, WrittenFirst, DueIsAnswer, AnswersStay
<1> QED
  BY <1>4, <1>5, <1>6, <1>7 DEF TrafficIInv

(* Nothing else touches the queues.                                          *)
LEMMA QuietStep ==
    ASSUME TrafficTyped, TrafficIInv, NEW S, due' = due \ S,
           UNCHANGED <<conn, queue, cursor, written, origin, queued, result>>
    PROVE  TrafficTyped' /\ TrafficIInv'
BY DEF TrafficTyped, TrafficTypeOK, TrafficIInv, WriterHolds, FreshIsEmpty,
       WrittenFirst, LineIsWhole, Line, DueIsAnswer, AnswersStay

(* Every step of the traffic preserves the types and the invariant.          *)
LEMMA NextTraffic ==
    TrafficTyped /\ TrafficIInv /\ [TrafficNext]_allVars => TrafficTyped' /\ TrafficIInv'
<1> SUFFICES ASSUME TrafficTyped, TrafficIInv, [TrafficNext]_allVars
             PROVE  TrafficTyped' /\ TrafficIInv'
  OBVIOUS
<1>1. CASE LifeCycle /\ UNCHANGED trafficVars
  BY <1>1, LifeStep
<1>2. CASE \E m \in Msg : Broadcast(m) \/ \E a \in Addr : SendTo(m, a)
  BY <1>2, SendStep
<1>3. CASE \E c \in Conn : TakeItem(c) \/ Written(c) \/ Gone(c)
  BY <1>3, TakeStep, WrittenStep, GoneStep
<1>4. CASE \E c \in Conn, r \in Answer : Inbound(c, r)
  BY <1>4, InboundStep
<1>5. CASE \E item \in due : AnswerDue(item)
  BY <1>5, AnswerStep
<1>6. CASE \E item \in due : AnswerCancelled(item)
  BY <1>6, QuietStep DEF AnswerCancelled, vars
<1>7. CASE UNCHANGED allVars
  BY <1>7, QuietStep, due' = due \ {} DEF allVars, vars, trafficVars
<1> QED
  BY <1>1, <1>2, <1>3, <1>4, <1>5, <1>6, <1>7 DEF TrafficNext

-----------------------------------------------------------------------------
(* The inductive invariant, with the types, holds in every reachable state.  *)
THEOREM TrafficInductive == TrafficSpec => [](TrafficTyped /\ TrafficIInv)
BY InitTraffic, NextTraffic, PTL DEF TrafficSpec

(* Type correctness.                                                         *)
THEOREM TrafficTypeCorrect == TrafficSpec => []TrafficTypeOK
<1>1. TrafficTyped => TrafficTypeOK
  BY DEF TrafficTyped
<1> QED
  BY TrafficInductive, <1>1, PTL

(* A connection gets what its channel took, in order and without gaps, and   *)
(* an answer is taken by the connection it belongs to.                       *)
THEOREM QueuesKeepOrder == TrafficSpec => []InOrder
<1>1. TrafficIInv => InOrder
  BY DEF TrafficIInv, WrittenFirst, LineIsWhole, AnswersStay, InOrder
<1> QED
  BY TrafficInductive, <1>1, PTL

-----------------------------------------------------------------------------
(* The table of peers, which send() looks at.                                *)

PeersTyped ==
    /\ listed \in [Addr -> Conn \cup {None}] /\ up \subseteq Addr
    /\ from \in [Conn -> Addr \cup {None}] /\ conn \in [Conn -> States]
    /\ reused \subseteq Addr

(* The accept task is between two connections; stop() cancels first.         *)
TrafficPlaces == at = "accepting" /\ (stop = "cancelled" => cancelled)

(* Who is listed online is served or is leaving and has not said so.         *)
ListedServe ==
    \A a \in up : /\ listed[a] \in Conn /\ from[listed[a]] = a
                  /\ conn[listed[a]] \in Served \cup {"leaving"}

(* Who is served is listed online, unless its address was reused.            *)
ServedListed ==
    ~cancelled => \A c \in Conn : conn[c] \in Served \cup {"leaving"} =>
                    from[c] \in reused \/ Listed(c)

PeersIInv == PeersTyped /\ TrafficPlaces /\ HasAddress /\ OneConnection
             /\ ListedServe /\ ServedListed

LEMMA InitPeers == TrafficInit => PeersIInv
BY DEF TrafficInit, PeersIInv, PeersTyped, TrafficPlaces, HasAddress, OneConnection,
       ListedServe, ServedListed, States, Over, Served

(* A client that comes back from an address that still stands for another    *)
(* connection makes it a reused one.                                         *)
LEMMA ArrivePeers ==
    ASSUME PeersIInv, NEW c \in Conn, NEW a \in Addr, Arrive(c, a)
    PROVE  PeersIInv'
<1> USE DEF PeersIInv
<1>1. /\ conn[c] = "idle" /\ conn' = [conn EXCEPT ![c] = "serving"]
      /\ from' = [from EXCEPT ![c] = a]
      /\ listed' = [listed EXCEPT ![a] = c] /\ up' = up \cup {a}
      /\ UNCHANGED <<at, stop, cancelled>>
  BY DEF Arrive, AddPeer, acceptVars, stopVars
<1>2. /\ reused \subseteq reused' /\ reused' \subseteq reused \cup {a}
      /\ \A d \in Conn : from[d] = a /\ conn[d] \notin Over => a \in reused'
  BY DEF Arrive
<1>3. /\ c # None /\ from'[c] = a /\ conn'[c] = "serving" /\ listed'[a] = c
      /\ \A d \in Conn \ {c} : from'[d] = from[d] /\ conn'[d] = conn[d]
      /\ \A b \in Addr \ {a} : listed'[b] = listed[b]
  BY <1>1, ServerAssumption DEF PeersTyped
<1>4. PeersTyped'
  BY <1>1, <1>2 DEF PeersTyped, States, Served
<1>5. TrafficPlaces' /\ HasAddress'
  BY <1>1, <1>3 DEF TrafficPlaces, HasAddress
<1>6. OneConnection'
  <2> SUFFICES ASSUME NEW d \in Conn, NEW e \in Conn, from'[d] = from'[e],
                      from'[d] \notin reused', conn'[d] \notin Over, conn'[e] \notin Over
               PROVE  d = e
    BY DEF OneConnection
  <2> QED
    BY <1>2, <1>3 DEF OneConnection
<1>7. ListedServe'
  BY <1>1, <1>3 DEF ListedServe, PeersTyped, Served
<1>8. ServedListed'
  <2> SUFFICES ASSUME ~cancelled, NEW d \in Conn, conn'[d] \in Served \cup {"leaving"}
               PROVE  from'[d] \in reused' \/ (from'[d] \in up' /\ listed'[from'[d]] = d)
    BY <1>1 DEF ServedListed, Listed
  <2>1. CASE d = c
    BY <1>1, <1>3, <2>1
  <2>2. CASE d # c
    <3>1. from[d] \in Addr /\ conn[d] \notin Over
      BY <1>3, <2>2 DEF HasAddress, Served, Over
    <3> QED
      BY <1>1, <1>2, <1>3, <2>2, <3>1 DEF ServedListed, Listed
  <2> QED
    BY <2>1, <2>2
<1> QED
  BY <1>4, <1>5, <1>6, <1>7, <1>8

(* A handler that says it is gone takes the flag of its address with it: if  *)
(* that was not reused it is nobody else's.                                  *)
LEMMA MarkPeers ==
    ASSUME PeersIInv, NEW c \in Conn, LeaveMark(c)
    PROVE  PeersIInv'
<1> USE DEF PeersIInv
<1>1. /\ conn[c] = "leaving" /\ conn' = [conn EXCEPT ![c] = "left"]
      /\ up' = up \ {from[c]}
      /\ UNCHANGED <<at, stop, cancelled, listed, from, reused>>
  BY DEF LeaveMark, MarkOffline, Becomes, acceptVars, stopVars
<1>2. conn'[c] = "left" /\ \A d \in Conn \ {c} : conn'[d] = conn[d]
  BY <1>1 DEF PeersTyped
<1>3. PeersTyped'
  BY <1>1 DEF PeersTyped, States
<1>4. TrafficPlaces' /\ HasAddress' /\ OneConnection'
  BY <1>1, <1>2 DEF TrafficPlaces, HasAddress, OneConnection, Over
<1>5. ListedServe'
  BY <1>1, <1>2 DEF ListedServe
<1>6. ServedListed'
  <2> SUFFICES ASSUME ~cancelled, NEW d \in Conn, conn'[d] \in Served \cup {"leaving"}
               PROVE  from[d] \in reused \/ (from[d] \in up' /\ listed[from[d]] = d)
    BY <1>1 DEF ServedListed, Listed
  <2>1. d # c /\ conn[d] \in Served \cup {"leaving"} /\ conn[d] \notin Over
    BY <1>2 DEF Served, Over
  <2>2. conn[c] \notin Over
    BY <1>1 DEF Over
  <2> QED
    BY <1>1, <2>1, <2>2 DEF ServedListed, Listed, OneConnection
<1> QED
  BY <1>3, <1>4, <1>5, <1>6

(* What a handler does otherwise leaves the table alone.                     *)
LEMMA HandlerPeers ==
    ASSUME PeersIInv, NEW c \in Conn, NEW next,
           \/ conn[c] \in Served /\ next \in {"serving", "writing", "leaving"}
           \/ conn[c] = "left" /\ next = "gone",
           conn' = [conn EXCEPT ![c] = next],
           UNCHANGED <<at, stop, cancelled, listed, up, from, reused>>
    PROVE  PeersIInv'
<1> USE DEF PeersIInv
<1>1. conn'[c] = next /\ \A d \in Conn \ {c} : conn'[d] = conn[d]
  BY DEF PeersTyped
<1>2. PeersTyped'
  BY DEF PeersTyped, States, Served, Over
<1>3. TrafficPlaces' /\ HasAddress' /\ OneConnection'
  BY <1>1 DEF TrafficPlaces, HasAddress, OneConnection, Served, Over
<1>4. ListedServe'
  BY <1>1 DEF ListedServe, Served
<1>5. ServedListed'
  BY <1>1 DEF ServedListed, Listed, Served
<1> QED
  BY <1>2, <1>3, <1>4, <1>5

LEMMA NextPeers == PeersIInv /\ [TrafficNext]_allVars => PeersIInv'
<1> SUFFICES ASSUME PeersIInv, [TrafficNext]_allVars PROVE PeersIInv'
  OBVIOUS
<1>1. CASE UNCHANGED vars
  BY <1>1 DEF vars, PeersIInv, PeersTyped, TrafficPlaces, HasAddress, OneConnection,
              ListedServe, ServedListed, Listed
<1>2. ASSUME NEW c \in Conn, TakeItem(c) \/ Written(c) \/ Gone(c) \/ Leave(c)
      PROVE  PeersIInv'
  <2>1. PICK next : /\ \/ conn[c] \in Served /\ next \in {"serving", "writing", "leaving"}
                       \/ conn[c] = "left" /\ next = "gone"
                    /\ Becomes(c, next) /\ UNCHANGED peerVars
    BY <1>2 DEF TakeItem, BeginWrite, Written, Gone, LeaveTell, Leave, Served
  <2> QED
    BY <2>1, HandlerPeers DEF Becomes, acceptVars, stopVars, peerVars
<1>3. ASSUME NEW c \in Conn, LeaveMark(c)
      PROVE  PeersIInv'
  BY <1>3, MarkPeers
<1>4. ASSUME NEW c \in Conn, NEW a \in Addr, Arrive(c, a)
      PROVE  PeersIInv'
  BY <1>4, ArrivePeers
<1>5. ASSUME NEW c \in Conn, Reset(c)
      PROVE  PeersIInv'
  BY <1>5 DEF Reset, acceptVars, peerVars, stopVars, PeersIInv, PeersTyped,
              TrafficPlaces, HasAddress, OneConnection, ListedServe, ServedListed, Listed
<1>6. CASE StopCancel \/ StopLocked
  <2>1. /\ UNCHANGED <<at, listed, from, conn, reused>>
        /\ \/ cancelled' /\ up' = up
           \/ stop = "cancelled" /\ up' = {} /\ stop' = "unlocked" /\ cancelled' = cancelled
    BY <1>6 DEF StopCancel, StopLocked, acceptVars, peerVars, connVars
  <2> QED
    BY <2>1 DEF PeersIInv, PeersTyped, TrafficPlaces, HasAddress, OneConnection,
                ListedServe, ServedListed, Listed
<1>7. CASE LifeCycle /\ UNCHANGED trafficVars
  BY <1>2, <1>3, <1>4, <1>5, <1>6, <1>7 DEF LifeCycle
<1>8. CASE \E m \in Msg : Broadcast(m) \/ \E a \in Addr : SendTo(m, a)
  BY <1>1, <1>8 DEF Broadcast, SendTo, Sending
<1>9. CASE \/ \E c \in Conn, r \in Answer : Inbound(c, r)
           \/ \E item \in due : AnswerDue(item) \/ AnswerCancelled(item)
  BY <1>1, <1>9 DEF Inbound, AnswerDue, AnswerCancelled
<1> QED
  BY <1>1, <1>2, <1>7, <1>8, <1>9 DEF TrafficNext, allVars

(* Who is listed and served takes the message, and who takes it is listed.   *)
LEMMA RouteMeets ==
    ASSUME TrafficTyped, PeersIInv, NEW m \in Msg, NEW to \in SUBSET Addr, Route(m, to)
    PROVE  Meets(m, to)
<1> DEFINE takers == {listed[a] : a \in to \cap up} \cap HasChannel
<1>1. /\ queued' = [c \in Conn |-> IF c \in takers THEN Append(queued[c], Message(m))
                                                   ELSE queued[c]]
      /\ result' = [result EXCEPT ![m] = IF takers = {} THEN "error" ELSE "ok"]
  BY DEF Route, Enqueue
<1>2. \A c \in takers : c \in Conn /\ from[c] \in to /\ conn[c] \in Served \cup {"leaving"}
  BY DEF PeersIInv, ListedServe, HasChannel
<1>3. \A c \in Conn : conn[c] \in Served /\ from[c] \in to \ reused /\ ~cancelled
                      => c \in takers
  BY DEF PeersIInv, ServedListed, Listed, HasChannel, Served, Over
<1> HIDE DEF takers
<1>4. ASSUME NEW c \in Conn, c \in takers
      PROVE  Message(m) \in Range(queued'[c]) /\ result'[m] = "ok"
  <2>1. queued[c] \in Seq(Item) /\ Message(m) \in Item
    BY DEF TrafficTyped, TrafficTypeOK, Message, Item
  <2>2. Range(Append(queued[c], Message(m))) = Range(queued[c]) \cup {Message(m)}
    BY <2>1, RangeAppend
  <2>3. result'[m] = "ok"
    BY <1>1, <1>4 DEF TrafficTyped, TrafficTypeOK
  <2> QED
    BY <1>1, <1>4, <2>2, <2>3
<1>5. \A c \in Conn : queued'[c] # queued[c] => c \in takers
  BY <1>1
<1> QED
  BY <1>2, <1>3, <1>4, <1>5 DEF Meets

(* While the server runs send() meets every connection that is served from   *)
(* the addresses it is for, but for those that stood for two at once, and no *)
(* connection but these and one that is leaving.                             *)
THEOREM SendIsMet == TrafficSpec => SendMeetsPeers
<1>1. TrafficTyped /\ PeersIInv /\ [TrafficNext]_allVars =>
        [\A m \in Msg : /\ Broadcast(m) => Meets(m, Addr)
                        /\ \A a \in Addr : SendTo(m, a) => Meets(m, {a})]_allVars
  BY RouteMeets DEF Broadcast, SendTo
<1>2. TrafficSpec => []PeersIInv
  BY InitPeers, NextPeers, PTL DEF TrafficSpec
<1>3. TrafficSpec => []TrafficTyped
  BY TrafficInductive, PTL
<1> QED
  BY <1>1, <1>2, <1>3, PTL DEF TrafficSpec, SendMeetsPeers

=============================================================================
