---------------------------- MODULE Webview_proofs ----------------------------
(* That the interface's picture of a session settles on the truth, however   *)
(* its events, the answers to sync() and reloads of the page fall, and that  *)
(* a UDP session keeps the promise of every transport: proved for any peers, *)
(* calls, datagrams and reloads.                                             *)

EXTENDS Webview, SequenceLemmas

(* The events that are emitted and not handled yet.                          *)
Pending == Range(events)

OnlineNews == Event("online", None)
OfflineNews == Event("offline", None)

(* A session that runs has told so; one that was stopped will not be online. *)
Running ==
    /\ at \in {"new", "failed"} =>
         /\ ~online /\ ~told /\ stop = "idle" /\ peers = {} /\ events = <<>>
    /\ at \notin {"new", "failed"} /\ stop = "idle" => online /\ told
    /\ cancelled <=> stop # "idle"
    /\ stop \in {"unlocked", "returned"} => ~online
    /\ online => told
    /\ mapped => stop = "idle" /\ at \notin {"new", "failed"}

(* Online is the first event of a session, and Offline follows it; the peers *)
(* that are told of are known.                                               *)
News ==
    /\ \A i \in DOMAIN events : events[i] = OnlineNews => i = 1
    /\ OnlineNews \in Pending => told \/ OfflineNews \in Pending
    /\ OfflineNews \in Pending => cancelled
    /\ \A e \in Pending : /\ e.type = "online" => e = OnlineNews
                          /\ e.type = "offline" => e = OfflineNews
                          /\ e.type = "peerOnline" => e.peer \in peers
                          /\ e.type = "message" => e.peer \in Addr
    /\ at = "telling" => from \in peers

(* The peers whose coming is on its way to the interface no more.            *)
Heard == {a \in peers : /\ Event("peerOnline", a) \notin Pending
                        /\ ~(at = "telling" /\ isNew /\ from = a)}

(* A page that loads shows nothing and waits for no answer.                  *)
LoadingIsBlank ==
    page = "loading" => ~uiOnline /\ fresh = {} /\ \A y \in Sync : sync[y] = "idle"

(* What is shown or answered was once true of the peers.                     *)
PeersKnown ==
    /\ uiPeers \subseteq peers
    /\ \A y \in Sync : answer[y].peers \subseteq peers

FreshAnswered == \A y \in fresh : sync[y] = "answered"

(* While Online is on its way, so is every peer.                             *)
NoneBeforeOnline == OnlineNews \in Pending => Heard = {}

(* A session that is shown or answered to be online, is, or Offline is on its way ...   *)
ShownOnline == uiOnline /\ ~misled => told \/ OfflineNews \in Pending

FreshOnline == \A y \in fresh : answer[y].online => told \/ OfflineNews \in Pending

(* ... and what is not shown of a session that runs is on its way: as an     *)
(* event, or in the answer to a call.                                        *)
FreshComplete ==
    told /\ ~cancelled => \A y \in fresh :
        \/ OnlineNews \in Pending
        \/ answer[y].online /\ Heard \subseteq answer[y].peers \cup uiPeers

ShownComplete ==
    told /\ ~cancelled /\ ~misled /\ page = "started" =>
        \/ \E y \in Sync : sync[y] # "idle"
        \/ /\ uiOnline \/ OnlineNews \in Pending
           /\ Heard \subseteq uiPeers

(* The inductive invariant.                                                  *)
IInv ==
    /\ Running
    /\ News
    /\ LoadingIsBlank
    /\ PeersKnown
    /\ FreshAnswered
    /\ NoneBeforeOnline
    /\ ShownOnline
    /\ FreshOnline
    /\ FreshComplete
    /\ ShownComplete
    /\ NothingUnreadInView

-----------------------------------------------------------------------------
(* What a step does to the events on their way.                              *)

(* Online, Offline, the coming of a peer and its messages are different      *)
(* events.                                                                   *)
LEMMA NewsDiffer ==
    /\ OnlineNews \in Events /\ OfflineNews \in Events /\ OnlineNews # OfflineNews
    /\ \A a \in Addr : /\ Event("peerOnline", a) \in Events
                       /\ Event("message", a) \in Events
                       /\ Event("peerOnline", a) # OnlineNews
                       /\ Event("peerOnline", a) # OfflineNews
                       /\ Event("message", a) # OnlineNews
                       /\ Event("message", a) # OfflineNews
    /\ \A a, b \in Addr : /\ Event("peerOnline", a) # Event("message", b)
                          /\ Event("peerOnline", a) = Event("peerOnline", b) => a = b
BY UdpAssumption DEF Event, Events, OnlineNews, OfflineNews

(* What is on its way are events.                                            *)
LEMMA PendingTyped ==
    ASSUME UdpTypeOK
    PROVE  Pending \subseteq Events
BY DEF UdpTypeOK, Pending, Range

(* Started: Online is on its way, alone.                                     *)
LEMMA StartedNews ==
    ASSUME UdpTypeOK, Running, Started
    PROVE  /\ events' = <<OnlineNews>> /\ Pending' = {OnlineNews}
           /\ Pending = {} /\ peers = {} /\ stop = "idle" /\ ~cancelled
<1>1. events = <<>> /\ peers = {} /\ stop = "idle" /\ ~cancelled
  BY DEF Running, Started
<1>2. events' = <<>> \o <<OnlineNews>>
  BY <1>1 DEF Started, Emit, OnlineNews
<1>3. events' = <<OnlineNews>>
  BY <1>2
<1>4. Pending' = {OnlineNews}
  BY <1>3 DEF Pending, Range
<1>5. Pending = {}
  BY <1>1 DEF Pending, Range
<1> QED
  BY <1>1, <1>3, <1>4, <1>5

(* Tell: a new peer's coming is, and what it sent.                           *)
LEMMA TellNews ==
    ASSUME TypeOK, IInv, Tell
    PROVE  /\ Pending' = Pending \cup {Event("message", from)}
                         \cup (IF isNew THEN {Event("peerOnline", from)} ELSE {})
           /\ from \in Addr /\ from \in peers
           /\ events' \in Seq(Events)
           /\ \A i \in DOMAIN events' : events'[i] = OnlineNews => i = 1
<1>6. PICK m, p : m = Event("message", from) /\ p = Event("peerOnline", from)
  OBVIOUS
<1>1. from \in peers /\ from \in Addr
  BY DEF Tell, IInv, News, TypeOK, UdpTypeOK
<1>2. /\ m \in Events /\ p \in Events /\ m # OnlineNews /\ p # OnlineNews
      /\ events \in Seq(Events) /\ isNew \in BOOLEAN
  BY <1>1, <1>6, NewsDiffer DEF TypeOK, UdpTypeOK
<1>3. events' = events \o ((IF isNew THEN <<p>> ELSE <<>>) \o <<m>>)
  BY <1>6 DEF Tell, Emit
<1>4. CASE isNew
  <2>1. events \o (<<p>> \o <<m>>) = (events \o <<p>>) \o <<m>>
    <3>1. <<p>> \in Seq(Events) /\ <<m>> \in Seq(Events)
      BY <1>2
    <3> QED
      BY <1>2, <3>1, ConcatAssociative
  <2>2. PICK q : q = Append(events, p)
    OBVIOUS
  <2>3. q \in Seq(Events) /\ q = events \o <<p>> /\ Range(q) = Range(events) \cup {p}
    BY <1>2, <2>2, RangeAppend
  <2>6. events' = Append(q, m)
    <3>1. events' = events \o (<<p>> \o <<m>>)
      BY <1>3, <1>4
    <3>2. events' = q \o <<m>>
      BY <2>1, <2>3, <3>1
    <3>3. q \in Seq(Events) /\ m \in Events
      BY <1>2, <2>3
    <3>4. Append(q, m) = q \o <<m>>
      BY <3>3, AppendIsConcat
    <3> QED
      BY <3>2, <3>4
  <2>4. Range(events') = (Range(events) \cup {p}) \cup {m}
    <3>1. Range(Append(q, m)) = Range(q) \cup {m}
      <4>1. q \in Seq(Events) /\ m \in Events
        BY <1>2, <2>3
      <4> QED
        BY <4>1, RangeAppend
    <3> QED
      BY <2>3, <2>6, <3>1
  <2>5. \A i \in DOMAIN events' : events'[i] = OnlineNews => i = 1
    BY <1>2, <2>2, <2>3, <2>6 DEF IInv, News
  <2>7. events' \in Seq(Events)
    BY <1>2, <2>3, <2>6
  <2> QED
    BY <1>1, <1>4, <1>6, <2>4, <2>5, <2>7 DEF Pending
<1>5. CASE ~isNew
  <2>1. <<>> \o <<m>> = <<m>>
    OBVIOUS
  <2>2. events' = Append(events, m)
    BY <1>2, <1>3, <1>5, <2>1
  <2>3. Range(events') = Range(events) \cup {m}
    BY <1>2, <2>2, RangeAppend
  <2>4. \A i \in DOMAIN events' : events'[i] = OnlineNews => i = 1
    BY <1>2, <2>2 DEF IInv, News
  <2> QED
    BY <1>1, <1>2, <1>5, <1>6, <2>2, <2>3, <2>4 DEF Pending
<1> QED
  BY <1>4, <1>5

(* StopTells: Offline is.                                                    *)
LEMMA StopTellsNews ==
    ASSUME TypeOK, IInv, StopTells
    PROVE  /\ Pending' = Pending \cup {OfflineNews}
           /\ events' \in Seq(Events)
           /\ \A i \in DOMAIN events' : events'[i] = OnlineNews => i = 1
<1>1. OfflineNews \in Events /\ OfflineNews # OnlineNews /\ events \in Seq(Events)
  BY NewsDiffer DEF TypeOK, UdpTypeOK
<1>2. events' = events \o <<OfflineNews>>
  BY DEF StopTells, Emit, OfflineNews
<1> HIDE DEF OfflineNews
<1>3. events' = Append(events, OfflineNews)
  BY <1>1, <1>2
<1>4. Range(events') = Range(events) \cup {OfflineNews}
  BY <1>1, <1>3, RangeAppend
<1>5. \A i \in DOMAIN events' : events'[i] = OnlineNews => i = 1
  BY <1>1, <1>2 DEF IInv, News
<1>6. events' \in Seq(Events)
  BY <1>1, <1>2
<1> QED
  BY <1>4, <1>5, <1>6 DEF Pending

(* Handle: the first one has arrived, and Online is not behind it.           *)
LEMMA HandleNews ==
    ASSUME TypeOK, IInv, events # <<>>, events' = Tail(events)
    PROVE  /\ Pending = {Head(events)} \cup Pending'
           /\ Head(events) \in Events /\ Head(events) \in Pending
           /\ OnlineNews \notin Pending'
           /\ events' \in Seq(Events)
           /\ \A i \in DOMAIN events' : events'[i] = OnlineNews => i = 1
<1>1. events \in Seq(Events)
  BY DEF TypeOK, UdpTypeOK
<1>2. Head(events) \in Events /\ Tail(events) \in Seq(Events)
  BY <1>1
<1>4. Range(events) = {Head(events)} \cup Range(Tail(events))
  BY <1>1, RangeHead
<1>5. \A i \in DOMAIN Tail(events) : Tail(events)[i] # OnlineNews
  BY <1>1 DEF IInv, News
<1> QED
  BY <1>2, <1>4, <1>5 DEF Pending, Range

(* The four events, by what the interface does with them.                    *)
LEMMA HandleCases ==
    ASSUME TypeOK, IInv, Handle
    PROVE  /\ page # "loading" /\ events # <<>> /\ events' = Tail(events)
           /\ UNCHANGED <<taskVars, stopVars, online, told, mapped, pageVars>>
           /\ \/ Head(events) = OnlineNews /\ HandleOnline
              \/ Head(events) = OfflineNews /\ HandleOffline
              \/ \E a \in peers : /\ Head(events) = Event("peerOnline", a)
                                  /\ HandlePeerOnline(a)
              \/ \E a \in Addr : /\ Head(events) = Event("message", a)
                                 /\ HandleMessage(a)
<1> DEFINE e == Head(events)
<1>1. /\ page # "loading" /\ events # <<>> /\ events' = Tail(events)
      /\ UNCHANGED <<taskVars, stopVars, online, told, mapped, pageVars>>
      /\ CASE e.type = "online" -> HandleOnline
           [] e.type = "offline" -> HandleOffline
           [] e.type = "peerOnline" -> HandlePeerOnline(e.peer)
           [] e.type = "message" -> HandleMessage(e.peer)
  BY DEF Handle
<1>2. e \in Events /\ e \in Pending
  BY <1>1, HandleNews
<1>3. /\ e.type \in {"online", "offline", "peerOnline", "message"}
      /\ e = Event(e.type, e.peer)
  BY <1>2 DEF Events, Event
<1>4. /\ e.type = "online" => e = OnlineNews
      /\ e.type = "offline" => e = OfflineNews
      /\ e.type = "peerOnline" => e.peer \in peers
      /\ e.type = "message" => e.peer \in Addr
  BY <1>2 DEF IInv, News
<1> HIDE DEF e
<1>5. CASE e.type = "online"
  BY <1>1, <1>4, <1>5 DEF e
<1>6. CASE e.type = "offline"
  <2>1. HandleOffline
    BY <1>1, <1>6
  <2> QED
    BY <1>1, <1>4, <1>6, <2>1 DEF e
<1>7. CASE e.type = "peerOnline"
  <2>1. HandlePeerOnline(e.peer)
    BY <1>1, <1>7
  <2> QED
    BY <1>1, <1>3, <1>4, <1>7, <2>1 DEF e
<1>8. CASE e.type = "message"
  <2>1. HandleMessage(e.peer)
    BY <1>1, <1>8
  <2> QED
    BY <1>1, <1>3, <1>4, <1>8, <2>1 DEF e
<1> QED
  BY <1>3, <1>5, <1>6, <1>7, <1>8

-----------------------------------------------------------------------------
(* Every step keeps the types: the flags first, then the rest.               *)
FlagsOK ==
    /\ isNew \in BOOLEAN /\ online \in BOOLEAN /\ cancelled \in BOOLEAN
    /\ told \in BOOLEAN /\ mapped \in BOOLEAN /\ misled \in BOOLEAN
    /\ uiOnline \in BOOLEAN /\ unread \in BOOLEAN /\ active \in BOOLEAN

PlacesOK ==
    /\ at \in {"new", "failed", "receiving", "telling", "done"}
    /\ from \in Addr \cup {None}
    /\ peers \subseteq Addr
    /\ received \in 0 .. MaxDatagrams
    /\ stop \in {"idle", "cancelled", "unlocked", "returned"}
    /\ page \in {"loading", "listening", "started"}
    /\ reloads \in 0 .. MaxReloads
    /\ sync \in [Sync -> {"idle", "asked", "answered"}]
    /\ answer \in [Sync -> Status]
    /\ fresh \subseteq Sync
    /\ uiPeers \subseteq Addr
    /\ unreadPeers \subseteq Addr
    /\ activePeer \in Addr \cup {None}

(* The parts are the type invariant.                                         *)
LEMMA TypeParts ==
    TypeOK <=> FlagsOK /\ PlacesOK /\ events \in Seq(Events)
BY DEF TypeOK, UdpTypeOK, FlagsOK, PlacesOK

(* Every step leaves the flags flags.                                        *)
LEMMA FlagsStep ==
    ASSUME TypeOK, IInv, [Next]_vars
    PROVE  FlagsOK'
<1>0. FlagsOK
  BY TypeParts
<1>1. CASE Session \/ Insert \/ Stop
  BY <1>0, <1>1 DEF FlagsOK, Session, Started, StartFailed, SeesCancel, Tell, Receive,
     StopLocked, StopTells, Insert, Stop, StopCancel, Beside, udpVars, taskVars,
     stopVars, pageVars, syncVars, shownVars, readVars
<1>2. CASE Handle
  <2>1. UNCHANGED <<isNew, online, cancelled, told, mapped>>
    BY <1>2 DEF Handle, taskVars, stopVars
  <2>2. HandleOnline \/ HandleOffline
          \/ \E a \in Addr \cup peers : HandlePeerOnline(a) \/ HandleMessage(a)
    BY <1>2, HandleCases
  <2> QED
    BY <1>0, <2>1, <2>2 DEF FlagsOK, HandleOnline, HandleOffline, HandlePeerOnline,
       HandleMessage, shownVars, syncVars, readVars
<1>3. CASE Select \/ Deselect \/ DeselectPeer \/ \E a \in Addr : SelectPeer(a)
  BY <1>0, <1>3 DEF FlagsOK, Select, Deselect, DeselectPeer, SelectPeer, udpVars,
     taskVars, stopVars, shownVars
<1>4. ASSUME NEW y \in Sync, Answer(y) \/ Apply(y)
      PROVE  FlagsOK'
  <2>1. answer[y].online \in BOOLEAN
    BY TypeParts DEF PlacesOK, Status
  <2>2. UNCHANGED <<isNew, online, cancelled, told, mapped, unread, active>>
    BY <1>4 DEF Answer, Apply, udpVars, taskVars, stopVars, readVars
  <2>3. uiOnline' \in BOOLEAN /\ misled' \in BOOLEAN
    BY <1>0, <1>4, <2>1 DEF FlagsOK, Answer, Apply, shownVars
  <2> QED
    BY <1>0, <2>2, <2>3 DEF FlagsOK
<1>5. CASE Reload \/ Listen \/ AskRunning
  BY <1>0, <1>5 DEF FlagsOK, Reload, Listen, AskRunning, MapIsTrue, udpVars, taskVars,
     stopVars, shownVars, readVars
<1>6. CASE UNCHANGED vars
  BY <1>0, <1>6 DEF FlagsOK, vars, udpVars, taskVars, stopVars, shownVars, readVars
<1> QED
  BY <1>1, <1>2, <1>3, <1>4, <1>5, <1>6 DEF Next, Terminated

(* Every step leaves a sequence of events on the way, with Online at its     *)
(* head or not in it.                                                        *)
LEMMA EventsStep ==
    ASSUME TypeOK, IInv, [Next]_vars
    PROVE  /\ events' \in Seq(Events)
           /\ \A i \in DOMAIN events' : events'[i] = OnlineNews => i = 1
<1>0. events \in Seq(Events) /\ \A i \in DOMAIN events : events[i] = OnlineNews => i = 1
  BY TypeParts DEF IInv, News
<1>1. CASE Started
  <2>1. events' = <<OnlineNews>>
    BY <1>1, StartedNews DEF IInv, TypeOK
  <2> HIDE DEF OnlineNews
  <2> QED
    BY <2>1, NewsDiffer
<1>2. CASE Tell
  BY <1>2, TellNews
<1>3. CASE StopTells
  BY <1>3, StopTellsNews
<1>4. CASE Handle
  BY <1>4, HandleCases, HandleNews
<1>5. CASE Listen
  <2>1. events' = <<>>
    BY <1>5 DEF Listen
  <2> QED
    BY <2>1
<1>6. CASE ~(Started \/ Tell \/ StopTells \/ Handle \/ Listen)
  <2>1. events' = events
    BY <1>6 DEF Next, Session, StartFailed, SeesCancel, Receive, StopLocked, Insert, Stop,
       StopCancel, Select, Deselect, DeselectPeer, SelectPeer, Answer, Apply, Reload,
       AskRunning, Terminated, vars, udpVars
  <2> QED
    BY <1>0, <2>1
<1> QED
  BY <1>1, <1>2, <1>3, <1>4, <1>5, <1>6

(* Every step leaves the rest in its ranges.                                 *)
LEMMA PlacesStep ==
    ASSUME TypeOK, IInv, [Next]_vars
    PROVE  PlacesOK'
<1>0. /\ PlacesOK
      /\ received \in Nat /\ MaxDatagrams \in Nat /\ MaxReloads \in Nat /\ reloads \in Nat
  BY TypeParts, UdpAssumption, WebviewAssumption DEF PlacesOK
<1>u. Unknown \in Status
  BY DEF Unknown, Status
<1>1. CASE Session \/ Insert \/ Stop
  BY <1>0, <1>1 DEF PlacesOK, Session, Started, StartFailed, SeesCancel, Tell, Receive,
     StopLocked, StopTells, Insert, Stop, StopCancel, Beside, udpVars, taskVars,
     stopVars, pageVars, syncVars, shownVars, readVars
<1>2. CASE Handle
  <2>1. UNCHANGED <<taskVars, stopVars, pageVars>>
    BY <1>2 DEF Handle
  <2>2. HandleOnline \/ HandleOffline
          \/ \E a \in Addr : HandlePeerOnline(a) \/ HandleMessage(a)
    BY <1>0, <1>2, HandleCases DEF PlacesOK
  <2> QED
    BY <1>0, <2>1, <2>2 DEF PlacesOK, HandleOnline, HandleOffline, HandlePeerOnline,
       HandleMessage, taskVars, stopVars, pageVars, shownVars, syncVars, readVars
<1>3. CASE Select \/ Deselect \/ DeselectPeer \/ \E a \in Addr : SelectPeer(a)
  BY <1>0, <1>3 DEF PlacesOK, Select, Deselect, DeselectPeer, SelectPeer, udpVars,
     taskVars, stopVars, pageVars, syncVars, shownVars
<1>4. ASSUME NEW y \in Sync, Answer(y)
      PROVE  PlacesOK'
  <2>1. (IF mapped THEN [online |-> online, peers |-> peers] ELSE Unknown) \in Status
    BY <1>0, <1>u, TypeParts DEF Status, PlacesOK, FlagsOK
  <2>2. UNCHANGED <<udpVars, pageVars, shownVars, readVars>>
    BY <1>4 DEF Answer
  <2>3. answer' \in [Sync -> Status]
    BY <1>0, <1>4, <2>1 DEF PlacesOK, Answer
  <2> QED
    BY <1>0, <1>4, <2>2, <2>3 DEF PlacesOK, Answer, udpVars, taskVars, stopVars, pageVars,
       shownVars, readVars
<1>5. ASSUME NEW y \in Sync, Apply(y)
      PROVE  PlacesOK'
  <2>1. answer[y].peers \subseteq Addr
    BY <1>0 DEF PlacesOK, Status
  <2> QED
    BY <1>0, <1>u, <1>5, <2>1 DEF PlacesOK, Apply, udpVars, taskVars, stopVars, pageVars,
       readVars
<1>6. CASE Reload
  BY <1>0, <1>u, <1>6 DEF PlacesOK, Reload, udpVars, taskVars, stopVars
<1>7. CASE Listen \/ AskRunning
  BY <1>0, <1>7 DEF PlacesOK, Listen, AskRunning, udpVars, taskVars, stopVars, syncVars,
     shownVars, readVars
<1>8. CASE UNCHANGED vars
  BY <1>0, <1>8 DEF PlacesOK, vars, udpVars, taskVars, stopVars, pageVars, syncVars,
     shownVars, readVars
<1> QED
  BY <1>1, <1>2, <1>3, <1>4, <1>5, <1>6, <1>7, <1>8 DEF Next, Terminated

(* So every step keeps every type.                                           *)
LEMMA TypeStep ==
    ASSUME TypeOK, IInv, [Next]_vars
    PROVE  TypeOK'
<1>1. FlagsOK' /\ PlacesOK' /\ events' \in Seq(Events)
  BY FlagsStep, PlacesStep, EventsStep
<1> QED
  BY <1>1 DEF TypeOK, UdpTypeOK, FlagsOK, PlacesOK

-----------------------------------------------------------------------------
(* The session, and who knows it.                                            *)
LEMMA RunningStep ==
    ASSUME TypeOK, IInv, [Next]_vars
    PROVE  Running'
<1>0. Running /\ FlagsOK /\ PlacesOK
  BY TypeParts DEF IInv
<1> USE DEF Running, udpVars, taskVars, stopVars
<1>1. CASE Started
  <2>1. /\ at' = "receiving" /\ online' = TRUE /\ told' = TRUE
        /\ UNCHANGED <<stop, cancelled, mapped>>
    BY <1>1 DEF Started, Next, Session, Beside, Insert, Stop, Handle, Select, Deselect,
       DeselectPeer, SelectPeer, Answer, Apply, Reload, Listen, AskRunning, Terminated,
       vars, StopCancel
  <2> QED
    BY <1>0, <1>1, <2>1 DEF Started
<1>2. CASE (StartFailed \/ SeesCancel \/ Tell \/ StopLocked \/ StopTells) /\ Beside
  BY <1>0, <1>2 DEF StartFailed, SeesCancel, Tell, StopLocked, StopTells, Beside, FlagsOK,
     PlacesOK
<1>3. ASSUME NEW a \in Addr, Receive(a), Beside
      PROVE  Running'
  BY <1>0, <1>3 DEF Receive, Beside, FlagsOK, PlacesOK
<1>4. CASE Insert \/ Stop
  BY <1>0, <1>4 DEF Insert, Stop, StopCancel, FlagsOK, PlacesOK
<1>5. CASE Handle
  <2>1. events # <<>> /\ UNCHANGED <<taskVars, stopVars, online, told, mapped>>
    BY <1>5 DEF Handle
  <2> QED
    BY <1>0, <2>1 DEF FlagsOK, PlacesOK
<1>6. CASE Listen
  BY <1>0, <1>6 DEF Listen
<1>7. CASE UNCHANGED <<udpVars, mapped>>
  BY <1>0, <1>7
<1> HIDE DEF Running, udpVars, taskVars, stopVars
<1>8. CASE \/ Select \/ Deselect \/ DeselectPeer \/ \E a \in Addr : SelectPeer(a)
           \/ \E y \in Sync : Answer(y) \/ Apply(y)
           \/ Reload \/ AskRunning \/ Terminated \/ UNCHANGED vars
  BY <1>7, <1>8 DEF Select, Deselect, DeselectPeer, SelectPeer, Answer, Apply, Reload,
     AskRunning, Terminated, vars
<1> QED
  BY <1>1, <1>2, <1>3, <1>4, <1>5, <1>6, <1>8 DEF Next, Session

(* What is on its way.                                                       *)
LEMMA NewsStep ==
    ASSUME TypeOK, IInv, [Next]_vars
    PROVE  News'
<1>0. /\ News /\ Running /\ FlagsOK /\ PlacesOK
      /\ \A i \in DOMAIN events' : events'[i] = OnlineNews => i = 1
  BY TypeParts, EventsStep DEF IInv
<1> DEFINE Told(e, known) ==
             /\ e.type = "online" => e = OnlineNews
             /\ e.type = "offline" => e = OfflineNews
             /\ e.type = "peerOnline" => e.peer \in known
             /\ e.type = "message" => e.peer \in Addr
<1> SUFFICES /\ OnlineNews \in Pending' => told' \/ OfflineNews \in Pending'
             /\ OfflineNews \in Pending' => cancelled'
             /\ \A e \in Pending' : Told(e, peers')
             /\ at' = "telling" => from' \in peers'
  BY <1>0 DEF News
<1>t. \A e \in Pending : Told(e, peers)
  BY <1>0 DEF News
<1>n. Told(OnlineNews, peers) /\ Told(OfflineNews, peers)
  BY DEF OnlineNews, OfflineNews, Event
<1>1. CASE Started
  <2>1. Pending' = {OnlineNews} /\ told' = TRUE /\ at' = "receiving" /\ peers' = peers
    BY <1>0, <1>1, StartedNews DEF Started, TypeOK
  <2> QED
    BY <1>n, <2>1, NewsDiffer
<1>2. CASE Tell
  <2>1. /\ Pending' = Pending \cup {Event("message", from)}
                      \cup (IF isNew THEN {Event("peerOnline", from)} ELSE {})
        /\ from \in Addr /\ from \in peers
        /\ at' = "receiving" /\ UNCHANGED <<peers, told, cancelled>>
    BY <1>2, TellNews DEF Tell, stopVars
  <2>2. Told(Event("message", from), peers) /\ Told(Event("peerOnline", from), peers)
    BY <2>1 DEF Event
  <2>3. \A e \in Pending' : Told(e, peers)
    BY <1>t, <2>1, <2>2
  <2>4. /\ OnlineNews \in Pending' <=> OnlineNews \in Pending
        /\ OfflineNews \in Pending' <=> OfflineNews \in Pending
    BY <2>1, NewsDiffer
  <2> QED
    BY <1>0, <2>1, <2>3, <2>4 DEF News
<1>3. CASE StopTells
  <2>1. /\ Pending' = Pending \cup {OfflineNews} /\ cancelled' /\ at' = at
        /\ from' = from /\ peers' = peers
    BY <1>0, <1>3, StopTellsNews DEF StopTells, Running, taskVars
  <2> QED
    BY <1>0, <1>n, <1>t, <2>1 DEF News
<1>4. CASE Handle
  <2>1. /\ Pending = {Head(events)} \cup Pending' /\ OnlineNews \notin Pending'
        /\ UNCHANGED <<at, from, peers, told, cancelled>>
    BY <1>4, HandleCases, HandleNews DEF taskVars, stopVars
  <2> QED
    BY <1>0, <1>t, <2>1 DEF News
<1>5. CASE Listen
  <2>1. Pending' = {} /\ UNCHANGED <<at, from, peers>>
    BY <1>5 DEF Listen, Pending, Range, taskVars
  <2> QED
    BY <1>0, <2>1 DEF News
<1>6. CASE \E a \in Addr : Receive(a)
  <2>1. /\ Pending' = Pending /\ from' \in peers' /\ peers \subseteq peers'
        /\ UNCHANGED <<told, cancelled>>
    BY <1>6 DEF Receive, Pending, stopVars
  <2> QED
    BY <1>0, <1>t, <2>1 DEF News
<1>7. CASE StartFailed \/ SeesCancel \/ StopLocked \/ Insert \/ Stop
  <2>1. /\ Pending' = Pending /\ from' = from /\ peers' = peers /\ told' = told
        /\ cancelled => cancelled'
        /\ at' = "telling" => at = "telling"
    BY <1>7 DEF StartFailed, SeesCancel, StopLocked, Insert, Stop, StopCancel, Pending,
       taskVars, stopVars, udpVars
  <2>2. at' = "telling" => from' \in peers'
    BY <1>0, <2>1 DEF News
  <2>3. \A e \in Pending' : Told(e, peers')
    BY <1>t, <2>1
  <2> HIDE DEF Told
  <2> QED
    BY <1>0, <2>1, <2>2, <2>3 DEF News
<1>8. CASE UNCHANGED udpVars
  BY <1>0, <1>8 DEF News, Pending, udpVars, taskVars, stopVars
<1>9. CASE \/ Select \/ Deselect \/ DeselectPeer \/ \E a \in Addr : SelectPeer(a)
           \/ \E y \in Sync : Answer(y) \/ Apply(y)
           \/ Reload \/ AskRunning \/ Terminated \/ UNCHANGED vars
  BY <1>8, <1>9 DEF Select, Deselect, DeselectPeer, SelectPeer, Answer, Apply, Reload,
     AskRunning, Terminated, vars
<1> QED
  BY <1>1, <1>2, <1>3, <1>4, <1>5, <1>6, <1>7, <1>9 DEF Next, Session

-----------------------------------------------------------------------------
(* Online was told and not taken back, or its end is on its way.             *)
Backed == told \/ OfflineNews \in Pending

(* The events a step adds, and what of the peers has arrived after it.       *)
LEMMA Arrivals ==
    ASSUME TypeOK, IInv, [Next]_vars
    PROVE  /\ ~Started => (OnlineNews \in Pending' => OnlineNews \in Pending)
           /\ Started => OnlineNews \in Pending' /\ Heard' = {}
           /\ ~Handle /\ ~Listen => Pending \subseteq Pending' /\ Heard' \subseteq Heard
           /\ peers \subseteq peers'
<1>0. FlagsOK /\ PlacesOK /\ Running /\ News
  BY TypeParts DEF IInv
<1>1. CASE Started
  <2>1. /\ Pending' = {OnlineNews} /\ Pending = {} /\ peers = {} /\ peers' = peers
    BY <1>0, <1>1, StartedNews DEF Started, TypeOK
  <2> QED
    BY <1>1, <2>1 DEF Heard
<1>2. CASE Tell
  <2>1. /\ Pending' = Pending \cup {Event("message", from)}
                      \cup (IF isNew THEN {Event("peerOnline", from)} ELSE {})
        /\ from \in Addr /\ at' = "receiving" /\ peers' = peers
    BY <1>2, TellNews DEF Tell
  <2>2. Heard' \subseteq Heard
    BY <2>1 DEF Heard
  <2>3. OnlineNews \in Pending' => OnlineNews \in Pending
    BY <2>1, NewsDiffer
  <2>4. ~Started
    BY <1>2 DEF Started, Tell
  <2> QED
    BY <2>1, <2>2, <2>3, <2>4
<1>3. CASE StopTells
  <2>1. Pending' = Pending \cup {OfflineNews} /\ UNCHANGED taskVars
    BY <1>3, StopTellsNews DEF StopTells
  <2>2. Heard' \subseteq Heard /\ peers' = peers
    BY <2>1 DEF Heard, taskVars
  <2>3. ~Started
    BY <1>0, <1>3 DEF Started, StopTells, Running
  <2> QED
    BY <2>1, <2>2, <2>3, NewsDiffer
<1>4. CASE Handle
  <2>1. OnlineNews \notin Pending' /\ peers' = peers
    BY <1>4, HandleCases, HandleNews DEF taskVars
  <2>2. ~Started
    BY <1>0, <1>4 DEF Started, Handle, Running
  <2> QED
    BY <1>4, <2>1, <2>2
<1>5. CASE Listen
  <2>1. Pending' = {} /\ peers' = peers /\ at' = at
    BY <1>5 DEF Listen, Pending, Range, taskVars
  <2>2. ~Started
    BY <2>1 DEF Started
  <2> QED
    BY <1>5, <2>1, <2>2
<1>6. CASE \E a \in Addr : Receive(a)
  <2>1. PICK a \in Addr : Receive(a)
    BY <1>6
  <2>2. /\ Pending' = Pending /\ from' = a /\ peers' = peers \cup {a} /\ at = "receiving"
        /\ isNew' = (a \notin peers) /\ at' = "telling"
    BY <2>1 DEF Receive, Pending
  <2>3. Heard' \subseteq Heard
    BY <2>2 DEF Heard
  <2> QED
    BY <2>2, <2>3 DEF Started
<1>7. CASE StartFailed \/ SeesCancel \/ StopLocked \/ Insert \/ Stop
  <2>1. /\ Pending' = Pending /\ from' = from /\ peers' = peers /\ isNew' = isNew
        /\ at' # "receiving" \/ at' = at
        /\ at = "telling" => at' = "telling"
    BY <1>7 DEF StartFailed, SeesCancel, StopLocked, Insert, Stop, StopCancel, Pending,
       taskVars, stopVars, udpVars
  <2>2. Heard' \subseteq Heard
    BY <2>1 DEF Heard
  <2> QED
    BY <2>1, <2>2 DEF Started
<1>8. CASE UNCHANGED udpVars
  <2>1. Pending' = Pending /\ Heard' = Heard /\ peers' = peers /\ at' = at
    BY <1>8 DEF Heard, Pending, udpVars, taskVars, stopVars
  <2> QED
    BY <2>1 DEF Started
<1>9. CASE \/ Select \/ Deselect \/ DeselectPeer \/ \E a \in Addr : SelectPeer(a)
           \/ \E y \in Sync : Answer(y) \/ Apply(y)
           \/ Reload \/ AskRunning \/ Terminated \/ UNCHANGED vars
  BY <1>8, <1>9 DEF Select, Deselect, DeselectPeer, SelectPeer, Answer, Apply, Reload,
     AskRunning, Terminated, vars
<1> QED
  BY <1>1, <1>2, <1>3, <1>4, <1>5, <1>6, <1>7, <1>9 DEF Next, Session

(* Handling an event, only the peer it tells of has arrived.                 *)
LEMMA HandleHears ==
    ASSUME TypeOK, IInv, Handle
    PROVE  /\ \A a \in Heard' : a \in Heard \/ Head(events) = Event("peerOnline", a)
           /\ OnlineNews \in Pending => Head(events) = OnlineNews
<1>1. /\ Pending = {Head(events)} \cup Pending' /\ OnlineNews \notin Pending'
      /\ UNCHANGED <<at, from, isNew, peers>>
  BY HandleCases, HandleNews DEF taskVars
<1> QED
  BY <1>1 DEF Heard

(* What backs an Online that is shown lasts until Offline is handled, and a  *)
(* session that runs ran before.                                             *)
LEMMA BackedStep ==
    ASSUME TypeOK, IInv, [Next]_vars
    PROVE  /\ Backed /\ ~Listen /\ ~(Handle /\ Head(events) = OfflineNews) => Backed'
           /\ told' /\ ~cancelled' /\ ~Started => told /\ ~cancelled
           /\ told /\ ~cancelled =>
                online /\ stop = "idle" /\ OfflineNews \notin Pending
<1>0. FlagsOK /\ PlacesOK /\ Running /\ News
  BY TypeParts DEF IInv
<1>1. told /\ ~cancelled => online /\ stop = "idle" /\ OfflineNews \notin Pending
  BY <1>0 DEF Running, News
<1>2. told' /\ ~cancelled' /\ ~Started => told /\ ~cancelled
  BY <1>0 DEF FlagsOK, Next, Session, StartFailed, SeesCancel, Tell, Receive, StopLocked,
     StopTells, Beside, Insert, Stop, StopCancel, Handle, Select, Deselect, DeselectPeer,
     SelectPeer, Answer, Apply, Reload, Listen, AskRunning, Terminated, vars, udpVars,
     taskVars, stopVars
<1>3. ASSUME Backed, ~Listen, ~(Handle /\ Head(events) = OfflineNews)
      PROVE  Backed'
  <2>1. CASE StopTells
    BY <2>1, StopTellsNews DEF Backed
  <2>2. CASE Handle
    <3>1. Pending = {Head(events)} \cup Pending' /\ told' = told
      BY <2>2, HandleCases, HandleNews
    <3> QED
      BY <1>3, <2>2, <3>1 DEF Backed
  <2>3. CASE ~StopTells /\ ~Handle
    <3>1. Pending \subseteq Pending'
      BY <1>3, <2>3, Arrivals
    <3>2. told => told'
      BY <1>3, <2>3 DEF Next, Session, Started, StartFailed, SeesCancel, Tell, Receive,
         StopLocked, Insert, Stop, StopCancel, Select, Deselect, DeselectPeer, SelectPeer,
         Answer, Apply, Reload, AskRunning, Terminated, vars, udpVars
    <3> QED
      BY <1>3, <3>1, <3>2 DEF Backed
  <2> QED
    BY <2>1, <2>2, <2>3
<1> QED
  BY <1>1, <1>2, <1>3

-----------------------------------------------------------------------------
(* What a step does to the calls of sync() and to the picture: nothing, or   *)
(* one of the ways here.                                                     *)
Deaf == ~Handle /\ ~Listen /\ ~Started

(* Every step is one that changes the picture, or leaves it as it is.        *)
LEMMA Ways ==
    ASSUME TypeOK, IInv, [Next]_vars
    PROVE  \/ Handle
           \/ Listen
           \/ Reload
           \/ AskRunning
           \/ Select
           \/ \E y \in Sync : Answer(y) \/ Apply(y)
           \/ UNCHANGED <<page, syncVars, shownVars>>
BY DEF Next, Session, Beside, Insert, Stop, Deselect, DeselectPeer, SelectPeer,
   Terminated, vars, pageVars

(* Only Handle and Listen take events away, and only Started brings Online.  *)
LEMMA NotDeaf ==
    ASSUME TypeOK, IInv
    PROVE  /\ Reload \/ AskRunning \/ Select => Deaf
           /\ \A y \in Sync : Answer(y) \/ Apply(y) => Deaf
           /\ Handle => ~Started /\ ~Listen
<1>1. /\ Handle => events # <<>> /\ Len(events') # Len(events) /\ page # "loading"
      /\ Started => events = <<>>
  <2>1. Handle => events # <<>> /\ events' = Tail(events) /\ page # "loading"
    BY DEF Handle
  <2>2. events \in Seq(Events)
    BY TypeParts
  <2>3. Started => events = <<>>
    BY DEF IInv, Running, Started
  <2> QED
    BY <2>1, <2>2, <2>3
<1>2. /\ Reload \/ AskRunning \/ Select => UNCHANGED udpVars /\ (Reload \/ page # "loading")
      /\ \A y \in Sync : Answer(y) \/ Apply(y) => UNCHANGED udpVars /\ UNCHANGED page
  BY DEF Reload, AskRunning, Select, Answer, Apply, pageVars
<1>3. UNCHANGED udpVars => ~Handle /\ ~Started
  BY <1>1 DEF udpVars, taskVars, Started
<1>4. Reload => ~Listen
  BY DEF Reload, Listen
<1>5. Listen => page = "loading" /\ page' = "listening"
  BY DEF Listen
<1> QED
  BY <1>1, <1>2, <1>3, <1>4, <1>5 DEF Deaf

(* A page that loads stays blank until it listens: no call was made before.  *)
LEMMA LoadingStep ==
    ASSUME TypeOK, IInv, [Next]_vars
    PROVE  LoadingIsBlank'
<1>0. LoadingIsBlank /\ FreshAnswered
  BY DEF IInv
<1>1. CASE Handle \/ Listen \/ AskRunning \/ Select
  <2>1. page' # "loading"
    BY <1>1 DEF Handle, Listen, AskRunning, Select, pageVars
  <2> QED
    BY <2>1 DEF LoadingIsBlank
<1>2. CASE Reload
  BY <1>2 DEF Reload, LoadingIsBlank
<1>3. ASSUME NEW y \in Sync, Apply(y) \/ Answer(y)
      PROVE  LoadingIsBlank'
  BY <1>0, <1>3 DEF LoadingIsBlank, Apply, Answer, pageVars
<1>4. CASE UNCHANGED <<page, syncVars, shownVars>>
  BY <1>0, <1>4 DEF LoadingIsBlank, syncVars, shownVars
<1> QED
  BY <1>1, <1>2, <1>3, <1>4, Ways

(* What a step does to the picture and to the answers.                       *)
LEMMA PeersStep ==
    ASSUME TypeOK, IInv, [Next]_vars
    PROVE  PeersKnown'
<1>0. PeersKnown /\ peers \subseteq peers' /\ answer \in [Sync -> Status]
  BY Arrivals, TypeParts DEF IInv, PlacesOK
<1>1. CASE Handle
  <2>1. answer' = answer
    BY <1>1, HandleCases DEF HandleOnline, HandleOffline, HandlePeerOnline, HandleMessage,
       syncVars
  <2>2. uiPeers' \subseteq peers
    BY <1>0, <1>1, HandleCases DEF PeersKnown, HandleOnline, HandleOffline,
       HandlePeerOnline, HandleMessage, shownVars
  <2> QED
    BY <1>0, <2>1, <2>2 DEF PeersKnown
<1>2. CASE Reload
  BY <1>0, <1>2 DEF PeersKnown, Reload, Unknown
<1>3. CASE Listen \/ AskRunning \/ Select
  BY <1>0, <1>3 DEF PeersKnown, Listen, AskRunning, Select, syncVars, shownVars
<1>4. ASSUME NEW y \in Sync, Answer(y)
      PROVE  PeersKnown'
  BY <1>0, <1>4 DEF PeersKnown, Answer, Unknown, shownVars
<1>5. ASSUME NEW y \in Sync, Apply(y)
      PROVE  PeersKnown'
  BY <1>0, <1>5 DEF PeersKnown, Apply, Unknown
<1>6. CASE UNCHANGED <<page, syncVars, shownVars>>
  BY <1>0, <1>6 DEF PeersKnown, syncVars, shownVars
<1> QED
  BY <1>1, <1>2, <1>3, <1>4, <1>5, <1>6, Ways

(* Only an answer that was read can be fresh.                                *)
LEMMA FreshAnsweredStep ==
    ASSUME TypeOK, IInv, [Next]_vars
    PROVE  FreshAnswered'
<1>0. FreshAnswered /\ fresh \subseteq Sync /\ sync \in [Sync -> {"idle", "asked", "answered"}]
  BY TypeParts DEF IInv, PlacesOK
<1>1. CASE Handle
  BY <1>0, <1>1, HandleCases DEF FreshAnswered, HandleOnline, HandleOffline,
     HandlePeerOnline, HandleMessage, syncVars
<1>2. CASE Reload \/ Listen \/ AskRunning \/ Select
  BY <1>0, <1>2 DEF FreshAnswered, Reload, Listen, AskRunning, Select, syncVars
<1>3. ASSUME NEW y \in Sync, Answer(y) \/ Apply(y)
      PROVE  FreshAnswered'
  BY <1>0, <1>3 DEF FreshAnswered, Answer, Apply
<1>4. CASE UNCHANGED <<page, syncVars, shownVars>>
  BY <1>0, <1>4 DEF FreshAnswered, syncVars
<1> QED
  BY <1>1, <1>2, <1>3, <1>4, Ways

(* Peers arrive after Online: once it is handled it is on its way no more.   *)
LEMMA NoneBeforeStep ==
    ASSUME TypeOK, IInv, [Next]_vars
    PROVE  NoneBeforeOnline'
<1>1. CASE Started
  BY <1>1, Arrivals DEF NoneBeforeOnline
<1>2. CASE Handle
  <2>1. OnlineNews \notin Pending'
    BY <1>2, HandleCases, HandleNews
  <2> QED
    BY <2>1 DEF NoneBeforeOnline
<1>3. CASE Listen
  <2>1. Pending' = {}
    BY <1>3 DEF Listen, Pending, Range
  <2> QED
    BY <2>1 DEF NoneBeforeOnline
<1>4. CASE Deaf
  <2>1. /\ OnlineNews \in Pending' => OnlineNews \in Pending
        /\ Heard' \subseteq Heard
    BY <1>4, Arrivals DEF Deaf
  <2> QED
    BY <2>1 DEF NoneBeforeOnline, IInv
<1> QED
  BY <1>1, <1>2, <1>3, <1>4 DEF Deaf

(* Only Online and answers show a session online.                            *)
LEMMA ShownOnlineStep ==
    ASSUME TypeOK, IInv, [Next]_vars
    PROVE  ShownOnline'
<1>0. /\ FlagsOK /\ News /\ ShownOnline /\ FreshOnline
  BY TypeParts DEF IInv
<1>b. Backed /\ ~Listen /\ ~(Handle /\ Head(events) = OfflineNews) => Backed'
  BY BackedStep
<1> SUFFICES ASSUME uiOnline', ~misled'
             PROVE  Backed'
  BY DEF ShownOnline, Backed
<1>u. ShownOnline /\ uiOnline /\ ~misled => Backed
  BY DEF ShownOnline, Backed
<1>1. CASE Handle
  <2>0. ~Listen
    BY <1>1, NotDeaf
  <2>1. CASE Head(events) = OnlineNews
    <3>1. OnlineNews \in Pending
      BY <1>1, <2>1, HandleCases, HandleNews
    <3>2. Backed
      BY <1>0, <3>1 DEF News, Backed
    <3>3. Head(events) # OfflineNews
      BY <2>1, NewsDiffer
    <3> QED
      BY <1>b, <2>0, <3>2, <3>3
  <2>2. CASE Head(events) = OfflineNews
    <3>1. HandleOffline
      <4>1. Head(events) # OnlineNews
        BY <2>2, NewsDiffer
      <4>2. \A a \in Addr : /\ Head(events) # Event("peerOnline", a)
                             /\ Head(events) # Event("message", a)
        BY <2>2, NewsDiffer
      <4>3. peers \subseteq Addr
        BY TypeParts DEF PlacesOK
      <4> QED
        BY <1>1, <4>1, <4>2, <4>3, HandleCases
    <3> QED
      BY <3>1 DEF HandleOffline
  <2>3. CASE Head(events) # OnlineNews /\ Head(events) # OfflineNews
    <3>1. uiOnline' = uiOnline /\ misled' = misled
      BY <1>1, <2>3, HandleCases DEF HandlePeerOnline, HandleMessage, shownVars
    <3> QED
      BY <1>0, <1>u, <1>b, <2>0, <2>3, <3>1
  <2> QED
    BY <2>1, <2>2, <2>3
<1>2. CASE Reload
  BY <1>2 DEF Reload
<1>3. CASE Listen
  <2>1. ~uiOnline'
    BY <1>3 DEF Listen, IInv, LoadingIsBlank, shownVars
  <2> QED
    BY <2>1
<1>4. CASE AskRunning \/ Select
  <2>1. uiOnline /\ ~misled
    BY <1>0, <1>4 DEF AskRunning, Select, shownVars, FlagsOK
  <2>2. ~Handle /\ ~Listen
    BY <1>4, NotDeaf DEF Deaf
  <2> QED
    BY <1>0, <1>u, <1>b, <2>1, <2>2
<1>5. ASSUME NEW y \in Sync, Answer(y)
      PROVE  Backed'
  <2>1. uiOnline /\ ~misled
    BY <1>5 DEF Answer, shownVars
  <2>2. ~Handle /\ ~Listen
    BY <1>5, NotDeaf DEF Deaf
  <2> QED
    BY <1>0, <1>u, <1>b, <2>1, <2>2
<1>6. ASSUME NEW y \in Sync, Apply(y)
      PROVE  Backed'
  <2>1. y \in fresh /\ answer[y].online
    BY <1>6 DEF Apply
  <2>2. ~Handle /\ ~Listen
    BY <1>6, NotDeaf DEF Deaf
  <2>3. Backed
    BY <1>0, <2>1 DEF FreshOnline, Backed
  <2> QED
    BY <1>b, <2>2, <2>3
<1>7. CASE UNCHANGED <<page, syncVars, shownVars>> /\ ~Handle /\ ~Listen
  BY <1>0, <1>u, <1>b, <1>7 DEF shownVars
<1> QED
  BY <1>1, <1>2, <1>3, <1>4, <1>5, <1>6, <1>7, Ways

(* An answer that was read is fresh until Online or Offline is handled, so   *)
(* what it says is backed as long.                                           *)
LEMMA FreshOnlineStep ==
    ASSUME TypeOK, IInv, [Next]_vars
    PROVE  FreshOnline'
<1>0. /\ FlagsOK /\ PlacesOK /\ News /\ Running /\ FreshOnline /\ FreshAnswered
      /\ LoadingIsBlank
  BY TypeParts DEF IInv
<1>b. Backed /\ ~Listen /\ ~Handle => Backed'
  BY BackedStep
<1>u. \A y \in fresh : answer[y].online => Backed
  BY <1>0 DEF FreshOnline, Backed
<1> SUFFICES \A y \in fresh' : answer'[y].online => Backed'
  BY DEF FreshOnline, Backed
<1>1. CASE Handle
  <2>1. CASE fresh' = {}
    BY <2>1
  <2>2. CASE Head(events) # OfflineNews /\ UNCHANGED syncVars
    <3>1. ~Listen
      BY <1>1, NotDeaf
    <3>2. Backed => Backed'
      BY <1>1, <2>2, <3>1, BackedStep
    <3> QED
      BY <1>u, <2>2, <3>2 DEF syncVars
  <2>3. \A a \in Addr : /\ Event("peerOnline", a) # OfflineNews
                         /\ Event("message", a) # OfflineNews
    BY NewsDiffer
  <2> QED
    BY <1>0, <1>1, <2>1, <2>2, <2>3, HandleCases DEF HandleOnline, HandleOffline,
       HandlePeerOnline, HandleMessage, PlacesOK
<1>2. CASE Reload
  BY <1>2 DEF Reload
<1>3. CASE Listen
  BY <1>0, <1>3 DEF Listen, LoadingIsBlank, syncVars
<1>4. CASE AskRunning \/ Select
  <2>1. fresh' = fresh /\ answer' = answer
    BY <1>4 DEF AskRunning, Select
  <2>2. ~Handle /\ ~Listen
    BY <1>4, NotDeaf DEF Deaf
  <2> QED
    BY <1>u, <1>b, <2>1, <2>2
<1>5. ASSUME NEW z \in Sync, Answer(z)
      PROVE  \A y \in fresh' : answer'[y].online => Backed'
  <2>1. ~Handle /\ ~Listen
    BY <1>5, NotDeaf DEF Deaf
  <2>2. answer'[z].online => online
    BY <1>0, <1>5 DEF Answer, Unknown, PlacesOK
  <2>3. online => Backed
    BY <1>0 DEF Running, Backed
  <2>4. \A y \in fresh' : y = z \/ (y \in fresh /\ answer'[y] = answer[y])
    BY <1>0, <1>5 DEF Answer, PlacesOK
  <2> QED
    BY <1>u, <1>b, <2>1, <2>2, <2>3, <2>4
<1>6. ASSUME NEW z \in Sync, Apply(z)
      PROVE  \A y \in fresh' : answer'[y].online => Backed'
  <2>1. ~Handle /\ ~Listen
    BY <1>6, NotDeaf DEF Deaf
  <2>2. \A y \in fresh' : y \in fresh /\ answer'[y] = answer[y]
    BY <1>0, <1>6 DEF Apply, PlacesOK
  <2> QED
    BY <1>u, <1>b, <2>1, <2>2
<1>7. CASE UNCHANGED <<page, syncVars, shownVars>> /\ ~Handle /\ ~Listen
  BY <1>u, <1>b, <1>7 DEF syncVars
<1> QED
  BY <1>1, <1>2, <1>3, <1>4, <1>5, <1>6, <1>7, Ways

(* An answer about a session that runs names every peer that has arrived     *)
(* but those that are shown already.                                         *)
LEMMA FreshCompleteStep ==
    ASSUME TypeOK, IInv, [Next]_vars
    PROVE  FreshComplete'
<1>0. /\ FlagsOK /\ PlacesOK /\ News /\ Running /\ FreshComplete /\ FreshAnswered
      /\ LoadingIsBlank
  BY TypeParts DEF IInv
<1> SUFFICES ASSUME told', ~cancelled', NEW y \in fresh', OnlineNews \notin Pending'
             PROVE  answer'[y].online /\ Heard' \subseteq answer'[y].peers \cup uiPeers'
  BY DEF FreshComplete
<1>s. /\ ~Started /\ told /\ ~cancelled /\ online /\ Heard' \subseteq peers'
      /\ peers \subseteq peers'
  BY Arrivals, BackedStep DEF Heard
<1>d. Deaf => OnlineNews \notin Pending /\ Heard' \subseteq Heard
  BY Arrivals DEF Deaf
<1>u. OnlineNews \notin Pending =>
        \A z \in fresh : answer[z].online /\ Heard \subseteq answer[z].peers \cup uiPeers
  BY <1>0, <1>s DEF FreshComplete
<1>1. CASE Handle
  <2>0. HandleOnline \/ HandleOffline => fresh' = {}
    BY DEF HandleOnline, HandleOffline
  <2>1. /\ \A a \in Heard' : a \in Heard \/ Head(events) = Event("peerOnline", a)
        /\ OnlineNews \in Pending => Head(events) = OnlineNews
    BY <1>1, HandleHears
  <2>2. ASSUME NEW a \in peers, Head(events) = Event("peerOnline", a), HandlePeerOnline(a)
        PROVE  answer'[y].online /\ Heard' \subseteq answer'[y].peers \cup uiPeers'
    <3>1. a \in Addr /\ OnlineNews \notin Pending
      BY <1>0, <2>1, <2>2, NewsDiffer DEF PlacesOK
    <3>2. \A b \in Heard' : b \in Addr
      BY <1>0, <1>1, HandleCases DEF Heard, PlacesOK, taskVars
    <3>3. \A b \in Heard' : b \in Heard \/ b = a
      BY <2>1, <2>2, <3>1, <3>2, NewsDiffer
    <3>4. fresh' = fresh /\ answer' = answer /\ uiPeers' = uiPeers \cup {a}
      BY <2>2 DEF HandlePeerOnline, syncVars
    <3> QED
      BY <1>u, <3>1, <3>3, <3>4
  <2>3. ASSUME NEW a \in Addr, Head(events) = Event("message", a), HandleMessage(a)
        PROVE  answer'[y].online /\ Heard' \subseteq answer'[y].peers \cup uiPeers'
    <3>1. OnlineNews \notin Pending
      BY <2>1, <2>3, NewsDiffer
    <3>2. \A b \in Heard' : b \in Addr
      BY <1>0, <1>1, HandleCases DEF Heard, PlacesOK, taskVars
    <3>3. \A b \in Heard' : b \in Heard
      BY <2>1, <2>3, <3>2, NewsDiffer
    <3>4. fresh' = fresh /\ answer' = answer /\ uiPeers' = uiPeers
      BY <2>3 DEF HandleMessage, syncVars, shownVars
    <3> QED
      BY <1>u, <3>1, <3>3, <3>4
  <2> QED
    BY <1>1, <2>0, <2>2, <2>3, HandleCases
<1>2. CASE Reload
  BY <1>2 DEF Reload
<1>3. CASE Listen
  BY <1>0, <1>3 DEF Listen, LoadingIsBlank, syncVars
<1>4. CASE AskRunning \/ Select
  <2>1. fresh' = fresh /\ answer' = answer /\ uiPeers' = uiPeers
    BY <1>4 DEF AskRunning, Select, shownVars
  <2>2. Deaf
    BY <1>4, NotDeaf
  <2> QED
    BY <1>u, <1>d, <2>1, <2>2
<1>5. ASSUME NEW z \in Sync, Answer(z)
      PROVE  answer'[y].online /\ Heard' \subseteq answer'[y].peers \cup uiPeers'
  <2>1. Deaf
    BY <1>5, NotDeaf
  <2>2. z \notin fresh /\ peers' = peers /\ uiPeers' = uiPeers
    BY <1>0, <1>5 DEF Answer, FreshAnswered, udpVars, taskVars, shownVars
  <2>3. CASE y = z
    <3>1. mapped
      BY <1>5, <1>s, <2>2, <2>3 DEF Answer, MapIsTrue
    <3>2. answer'[z] = [online |-> online, peers |-> peers]
      BY <1>0, <1>5, <3>1 DEF Answer, PlacesOK
    <3> QED
      BY <1>s, <2>2, <2>3, <3>2
  <2>4. CASE y # z
    <3>1. y \in fresh /\ answer'[y] = answer[y]
      BY <1>0, <1>5, <2>4 DEF Answer, PlacesOK
    <3> QED
      BY <1>u, <1>d, <2>1, <2>2, <3>1
  <2> QED
    BY <2>3, <2>4
<1>6. ASSUME NEW z \in Sync, Apply(z)
      PROVE  answer'[y].online /\ Heard' \subseteq answer'[y].peers \cup uiPeers'
  <2>1. Deaf
    BY <1>6, NotDeaf
  <2>2. y \in fresh /\ answer'[y] = answer[y] /\ uiPeers \subseteq uiPeers'
    BY <1>0, <1>6 DEF Apply, PlacesOK
  <2> QED
    BY <1>u, <1>d, <2>1, <2>2
<1>7. CASE UNCHANGED <<page, syncVars, shownVars>> /\ ~Handle /\ ~Listen
  <2>1. Deaf
    BY <1>7, <1>s DEF Deaf
  <2> QED
    BY <1>u, <1>d, <1>7, <2>1 DEF syncVars, shownVars
<1> QED
  BY <1>1, <1>2, <1>3, <1>4, <1>5, <1>6, <1>7, Ways

(* What is not shown of a session that runs is on its way still.             *)
LEMMA ShownCompleteStep ==
    ASSUME TypeOK, IInv, [Next]_vars
    PROVE  ShownComplete'
<1>0. /\ FlagsOK /\ PlacesOK /\ News /\ ShownComplete /\ FreshComplete /\ NoneBeforeOnline
  BY TypeParts DEF IInv
<1> SUFFICES ASSUME told', ~cancelled', ~misled', page' = "started",
                    \A y \in Sync : sync'[y] = "idle"
             PROVE  /\ uiOnline' \/ OnlineNews \in Pending'
                    /\ Heard' \subseteq uiPeers'
  BY DEF ShownComplete
<1>1. CASE Started
  <2>1. OnlineNews \in Pending' /\ Heard' = {}
    BY <1>1, Arrivals
  <2> QED
    BY <2>1
<1> SUFFICES ASSUME ~Started
             PROVE  /\ uiOnline' \/ OnlineNews \in Pending'
                    /\ Heard' \subseteq uiPeers'
  BY <1>1
<1>s. told /\ ~cancelled /\ online /\ OfflineNews \notin Pending
  BY BackedStep
<1>d. Deaf => Pending \subseteq Pending' /\ Heard' \subseteq Heard
  BY Arrivals DEF Deaf
<1>n. OnlineNews \in Pending => Heard = {}
  BY <1>0 DEF NoneBeforeOnline
<1>u. page = "started" /\ ~misled /\ (\A y \in Sync : sync[y] = "idle") =>
        /\ uiOnline \/ OnlineNews \in Pending
        /\ Heard \subseteq uiPeers
  BY <1>0, <1>s DEF ShownComplete
<1>2. CASE Handle
  <2>0. /\ page = page' /\ Head(events) \in Pending
        /\ \A b \in Heard' : b \in Addr
    BY <1>0, <1>2, HandleCases, HandleNews DEF pageVars, Heard, PlacesOK, taskVars
  <2>1. /\ \A a \in Heard' : a \in Heard \/ Head(events) = Event("peerOnline", a)
        /\ OnlineNews \in Pending => Head(events) = OnlineNews
    BY <1>2, HandleHears
  <2>2. CASE Head(events) = OnlineNews /\ HandleOnline
    <3>1. Heard' = {}
      BY <1>n, <2>0, <2>1, <2>2, NewsDiffer
    <3> QED
      BY <2>2, <3>1 DEF HandleOnline
  <2>3. CASE Head(events) = OfflineNews
    BY <1>s, <2>0, <2>3
  <2>4. ASSUME NEW a \in peers, Head(events) = Event("peerOnline", a), HandlePeerOnline(a)
        PROVE  uiOnline' /\ Heard' \subseteq uiPeers'
    <3>1. a \in Addr /\ OnlineNews \notin Pending
      BY <1>0, <2>1, <2>4, NewsDiffer DEF PlacesOK
    <3>2. \A b \in Heard' : b \in Heard \/ b = a
      BY <2>0, <2>1, <2>4, <3>1, NewsDiffer
    <3>3. /\ misled' = misled /\ sync' = sync /\ uiOnline' = uiOnline
          /\ uiPeers' = uiPeers \cup {a}
      BY <2>4 DEF HandlePeerOnline, syncVars
    <3> QED
      BY <1>u, <2>0, <3>1, <3>2, <3>3
  <2>5. ASSUME NEW a \in Addr, Head(events) = Event("message", a), HandleMessage(a)
        PROVE  uiOnline' /\ Heard' \subseteq uiPeers'
    <3>1. OnlineNews \notin Pending
      BY <2>1, <2>5, NewsDiffer
    <3>2. \A b \in Heard' : b \in Heard
      BY <2>0, <2>1, <2>5, NewsDiffer
    <3>3. misled' = misled /\ sync' = sync /\ uiOnline' = uiOnline /\ uiPeers' = uiPeers
      BY <2>5 DEF HandleMessage, syncVars, shownVars
    <3> QED
      BY <1>u, <2>0, <3>1, <3>2, <3>3
  <2> QED
    BY <1>2, <2>2, <2>3, <2>4, <2>5, HandleCases
<1>3. CASE Reload \/ Listen
  BY <1>3 DEF Reload, Listen
<1>4. CASE AskRunning
  <2>1. ~mapped
    BY <1>0, <1>4 DEF AskRunning, PlacesOK
  <2>2. MapIsTrue
    BY <1>4 DEF AskRunning
  <2> QED
    BY <1>s, <2>1, <2>2 DEF MapIsTrue
<1>5. CASE Select
  BY <1>0, <1>5 DEF Select, PlacesOK
<1>6. ASSUME NEW z \in Sync, Answer(z)
      PROVE  FALSE
  BY <1>0, <1>6 DEF Answer, PlacesOK
<1>7. ASSUME NEW z \in Sync, Apply(z)
      PROVE  /\ uiOnline' \/ OnlineNews \in Pending'
             /\ Heard' \subseteq uiPeers'
  <2>1. /\ z \in fresh /\ uiOnline' = answer[z].online
        /\ uiPeers' = uiPeers \cup answer[z].peers
    BY <1>7 DEF Apply
  <2>2. \/ OnlineNews \in Pending
        \/ answer[z].online /\ Heard \subseteq answer[z].peers \cup uiPeers
    BY <1>0, <1>s, <2>1 DEF FreshComplete
  <2>3. Deaf
    BY <1>7, NotDeaf
  <2> QED
    BY <1>d, <1>n, <2>1, <2>2, <2>3
<1>8. CASE UNCHANGED <<page, syncVars, shownVars>> /\ ~Handle /\ ~Listen
  <2>1. Deaf
    BY <1>8 DEF Deaf
  <2>2. UNCHANGED <<page, sync, uiOnline, uiPeers, misled>>
    BY <1>8 DEF syncVars, shownVars
  <2> QED
    BY <1>u, <1>d, <2>1, <2>2
<1> QED
  BY <1>2, <1>3, <1>4, <1>5, <1>6, <1>7, <1>8, Ways

(* What is in view stays read: a message that comes marks another, and what  *)
(* is selected is read by that.                                              *)
LEMMA UnreadStep ==
    ASSUME TypeOK, IInv, [Next]_vars
    PROVE  NothingUnreadInView'
<1>0. /\ FlagsOK /\ PlacesOK /\ NothingUnreadInView /\ None \notin Addr
  BY TypeParts, UdpAssumption DEF IInv
<1>1. CASE Handle
  <2>1. CASE UNCHANGED readVars
    BY <1>0, <2>1 DEF NothingUnreadInView, readVars
  <2>2. ASSUME NEW a \in Addr, HandleMessage(a), active'
        PROVE  ~unread' /\ activePeer' \notin unreadPeers'
    <3>1. active /\ activePeer' = activePeer /\ ~unread /\ activePeer \notin unreadPeers
      BY <1>0, <2>2 DEF HandleMessage, NothingUnreadInView
    <3>2. ~unread'
      BY <2>2, <3>1 DEF HandleMessage
    <3>3. activePeer' \notin unreadPeers'
      BY <2>2, <3>1 DEF HandleMessage
    <3> QED
      BY <3>2, <3>3
  <2> QED
    BY <1>1, <2>1, <2>2, HandleCases DEF NothingUnreadInView, HandleOnline, HandleOffline,
       HandlePeerOnline
<1>2. CASE Select \/ Deselect \/ DeselectPeer \/ \E a \in Addr : SelectPeer(a)
  BY <1>0, <1>2 DEF NothingUnreadInView, Select, Deselect, DeselectPeer, SelectPeer,
     FlagsOK, PlacesOK
<1>3. CASE Reload
  BY <1>3 DEF NothingUnreadInView, Reload
<1>4. CASE UNCHANGED readVars
  BY <1>0, <1>4 DEF NothingUnreadInView, readVars
<1> QED
  BY <1>1, <1>2, <1>3, <1>4 DEF Next, Session, Beside, Insert, Stop, Answer, Apply, Listen,
     AskRunning, Terminated, vars

(* The types and the invariant hold initially.                               *)
LEMMA InitIInv == Init => TypeOK /\ IInv
<1> SUFFICES ASSUME Init
             PROVE  TypeOK /\ IInv
  OBVIOUS
<1>1. Pending = {} /\ Heard = {}
  BY DEF Init, UdpInit, Pending, Heard, Range
<1>2. TypeOK
  <2>1. FlagsOK
    BY DEF Init, UdpInit, FlagsOK
  <2>2. PlacesOK
    <3>1. Unknown \in Status
      BY DEF Unknown, Status
    <3> QED
      BY <3>1, WebviewAssumption, UdpAssumption DEF Init, UdpInit, PlacesOK
  <2>3. events \in Seq(Events)
    BY DEF Init, UdpInit
  <2> QED
    BY <2>1, <2>2, <2>3, TypeParts
<1>3. Running /\ News
  BY <1>1 DEF Init, UdpInit, Running, News
<1>4. LoadingIsBlank /\ PeersKnown /\ FreshAnswered
  BY DEF Init, UdpInit, LoadingIsBlank, PeersKnown, FreshAnswered, Unknown
<1>5. NoneBeforeOnline /\ ShownOnline /\ FreshOnline /\ FreshComplete
  BY <1>1 DEF Init, UdpInit, NoneBeforeOnline, ShownOnline, FreshOnline, FreshComplete
<1>6. ShownComplete /\ NothingUnreadInView
  BY DEF Init, UdpInit, ShownComplete, NothingUnreadInView
<1> QED
  BY <1>2, <1>3, <1>4, <1>5, <1>6 DEF IInv

(* Every step preserves the types and the invariant.                         *)
LEMMA NextIInv == TypeOK /\ IInv /\ [Next]_vars => TypeOK' /\ IInv'
BY TypeStep, RunningStep, NewsStep, LoadingStep, PeersStep, FreshAnsweredStep,
   NoneBeforeStep, ShownOnlineStep, FreshOnlineStep, FreshCompleteStep,
   ShownCompleteStep, UnreadStep DEF IInv

-----------------------------------------------------------------------------
(* The invariant that carries the others holds in every state: the types     *)
(* and the eleven parts of IInv, of a session and its picture together.      *)
THEOREM Inductive == Spec => [](TypeOK /\ IInv)
BY InitIInv, NextIInv, PTL DEF Spec

(* Every variable keeps its type.                                            *)
THEOREM TypeCorrect == Spec => []TypeOK
BY Inductive, PTL

(* Whatever arrives while a session and a peer of it are in view is read:    *)
(* neither counts as unread (handle and select in stores/sessions.ts).       *)
THEOREM ReadsWhatIsSeen == Spec => []NothingUnreadInView
<1>1. IInv => NothingUnreadInView
  BY DEF IInv
<1> QED
  BY <1>1, Inductive, PTL

(* Once all events are handled and all calls answered, the interface agrees  *)
(* with the session about Online and about its peers, whatever was reloaded  *)
(* and in whatever order events and answers came, unless an answer misled it *)
(* (handle and sync in stores/sessions.ts).                                  *)
THEOREM SettlesOnTruth == Spec => []SettledAgrees
<1>1. TypeOK /\ IInv => SettledAgrees
  <2> SUFFICES ASSUME TypeOK, IInv, Settled, ~misled
               PROVE  /\ uiOnline => told
                      /\ told /\ ~cancelled => uiOnline
                      /\ told /\ ~cancelled /\ at # "telling" => uiPeers = peers
    BY DEF SettledAgrees
  <2>1. Pending = {} /\ page = "started" /\ \A y \in Sync : sync[y] = "idle"
    BY DEF Settled, Pending, Range
  <2>2. uiOnline => told
    BY <2>1 DEF IInv, ShownOnline
  <2>3. told /\ ~cancelled => uiOnline /\ Heard \subseteq uiPeers
    BY <2>1 DEF IInv, ShownComplete
  <2>4. at # "telling" => Heard = peers
    BY <2>1 DEF Heard
  <2> QED
    BY <2>2, <2>3, <2>4 DEF IInv, PeersKnown
<1> QED
  BY <1>1, Inductive, PTL

(* Every step of a UDP session is one that the life cycle of sessions has,   *)
(* or none that it sees.                                                     *)
LEMMA LifecycleStep ==
    ASSUME TypeOK, IInv, [Next]_vars
    PROVE  [Lifecycle!Next]_(Lifecycle!lifecycleVars)
<1>0. Running /\ FlagsOK
  BY TypeParts DEF IInv
<1> USE DEF Lifecycle!lifecycleVars, taskVars, stopVars
<1>1. CASE Started
  <2>1. ~cancelled /\ ~online /\ online' = TRUE /\ told' = TRUE /\ UNCHANGED cancelled
    BY <1>0, <1>1 DEF Started, Running
  <2> QED
    BY <2>1 DEF Lifecycle!Next, Lifecycle!Open
<1>2. CASE StopCancel
  BY <1>2 DEF StopCancel, Lifecycle!Next, Lifecycle!Cancel
<1>3. CASE StopLocked
  <2>1. online' = FALSE /\ UNCHANGED <<told, cancelled>>
    BY <1>3 DEF StopLocked
  <2> QED
    BY <1>0, <2>1 DEF FlagsOK, Lifecycle!Next, Lifecycle!Close
<1>4. CASE StopTells
  <2>1. ~online /\ told' = FALSE /\ UNCHANGED <<online, cancelled>>
    BY <1>0, <1>4 DEF StopTells, Running
  <2> QED
    BY <2>1 DEF Lifecycle!Next, Lifecycle!Conceal
<1>5. CASE UNCHANGED <<online, told, cancelled>>
  BY <1>5
<1> QED
  BY <1>1, <1>2, <1>3, <1>4, <1>5 DEF Next, Session, StartFailed, SeesCancel, Tell, Receive,
     Insert, Stop, Handle, Select, Deselect, DeselectPeer, SelectPeer, Answer, Apply,
     Reload, Listen, AskRunning, Terminated, vars, udpVars

(* A UDP session keeps the promise of every transport: online only before it *)
(* is stopped, told of only while it runs, and closed and taken back by      *)
(* stop() for good (udp.rs beside the trait Session).                        *)
THEOREM Refinement == Spec => ImplementsLifecycle
<1>1. Init => Lifecycle!Init
  BY DEF Init, UdpInit, Lifecycle!Init
<1>2. TypeOK /\ IInv /\ [Next]_vars => [Lifecycle!Next]_(Lifecycle!lifecycleVars)
  BY LifecycleStep
<1> QED
  BY <1>1, <1>2, Inductive, PTL DEF Spec, ImplementsLifecycle, Lifecycle!Spec

=============================================================================
