------------------------------- MODULE Webview -------------------------------
(* The interface's picture of one session (stores/sessions.ts) beside the    *)
(* session itself, here a UDP one, and its entry in the manager's map.       *)
(* Events are handled in the order they were emitted, but later; sync() asks *)
(* for the status when a session is selected and when the page starts        *)
(* (App.vue), and its answer comes on a way of its own.  A page that is      *)
(* reloaded knows nothing and misses what is emitted until it listens.       *)

EXTENDS Udp

CONSTANTS
    Sync,        \* calls of sync() that may be in flight together
    MaxReloads   \* bound on reloads of the page

ASSUME WebviewAssumption == MaxReloads \in Nat

VARIABLES
    mapped,      \* the session is in Manager.sessions
    page,        \* where App.vue's start-up is
    reloads,     \* reloads so far, bounded by MaxReloads
    sync,        \* where each call of sync() is
    answer,      \* the status it was answered with
    fresh,       \* calls whose answer was read when the map told the truth and
                 \* has not been overtaken by Online or Offline (history)
    misled,      \* the last word on uiOnline was something that was not fresh
                 \* (history)
    uiOnline,    \* Runtime.online
    uiPeers,     \* the peers shown online
    unread,      \* Runtime.unread is not zero
    unreadPeers, \* the keys of Runtime.unreadByPeer
    active,      \* the session is selected
    activePeer   \* the peer that is selected

pageVars == <<page, reloads>>
syncVars == <<sync, answer, fresh>>
shownVars == <<uiOnline, uiPeers, misled>>
readVars == <<unread, unreadPeers, active, activePeer>>
vars == <<udpVars, mapped, pageVars, syncVars, shownVars, readVars>>

Status == [online : BOOLEAN, peers : SUBSET Addr]
Unknown == [online |-> FALSE, peers |-> {}]

TypeOK ==
    /\ UdpTypeOK
    /\ mapped \in BOOLEAN
    /\ page \in {"loading", "listening", "started"}
    /\ reloads \in 0 .. MaxReloads
    /\ sync \in [Sync -> {"idle", "asked", "answered"}]
    /\ answer \in [Sync -> Status]
    /\ fresh \subseteq Sync
    /\ misled \in BOOLEAN
    /\ uiOnline \in BOOLEAN
    /\ uiPeers \subseteq Addr
    /\ unread \in BOOLEAN
    /\ unreadPeers \subseteq Addr
    /\ active \in BOOLEAN
    /\ activePeer \in Addr \cup {None}

Init ==
    /\ UdpInit
    /\ mapped = FALSE
    /\ page = "started"
    /\ reloads = 0
    /\ sync = [y \in Sync |-> "idle"]
    /\ answer = [y \in Sync |-> Unknown]
    /\ fresh = {}
    /\ misled = FALSE
    /\ uiOnline = FALSE
    /\ uiPeers = {}
    /\ unread = FALSE
    /\ unreadPeers = {}
    /\ active = FALSE
    /\ activePeer = None

-----------------------------------------------------------------------------
(* What small mistakes would do: Offline leaves the flag, the peer that is   *)
(* selected stays unread, a page that starts asks for no status.             *)

HandleOfflineKeeps ==
    /\ uiPeers' = {}
    /\ misled' = FALSE
    /\ fresh' = {}
    /\ UNCHANGED <<uiOnline, sync, answer, readVars>>

SelectPeerKeeps(a) ==
    /\ active
    /\ a \in peers
    /\ activePeer' = a
    /\ UNCHANGED <<udpVars, mapped, pageVars, syncVars, shownVars, unread,
                   unreadPeers, active>>

AskRunningOnly ==
    /\ page = "listening"
    /\ page' = "started"
    /\ UNCHANGED <<udpVars, mapped, reloads, syncVars, shownVars, readVars>>

-----------------------------------------------------------------------------
(* The session, and the manager around it: start() inserts the session when  *)
(* the session's start() has returned, stop() takes it out and stops it.     *)

Beside == UNCHANGED <<mapped, pageVars, syncVars, shownVars, readVars>>

Session ==
    /\ \/ Started \/ StartFailed
       \/ SeesCancel \/ Tell \/ \E a \in Addr : Receive(a)
       \/ StopLocked \/ StopTells
    /\ Beside

Insert ==
    /\ at \in {"receiving", "telling"}
    /\ ~mapped
    /\ stop = "idle"
    /\ mapped' = TRUE
    /\ UNCHANGED <<udpVars, pageVars, syncVars, shownVars, readVars>>

Stop ==
    /\ mapped
    /\ mapped' = FALSE
    /\ StopCancel
    /\ UNCHANGED <<pageVars, syncVars, shownVars, readVars>>

-----------------------------------------------------------------------------
(* handle(e), per event; `fresh` and `misled` note what Online and Offline   *)
(* settle.                                                                   *)

HandleOnline ==
    /\ uiOnline' = TRUE
    /\ misled' = FALSE
    /\ fresh' = {}
    /\ UNCHANGED <<uiPeers, sync, answer, readVars>>

HandleOffline ==
    /\ uiOnline' = FALSE
    /\ uiPeers' = {}
    /\ misled' = FALSE
    /\ fresh' = {}
    /\ UNCHANGED <<sync, answer, readVars>>

HandlePeerOnline(a) ==
    /\ uiPeers' = uiPeers \cup {a}
    /\ UNCHANGED <<uiOnline, misled, syncVars, readVars>>

HandleMessage(a) ==
    /\ unread' = (unread \/ ~active)
    /\ unreadPeers' = IF active /\ activePeer = a THEN unreadPeers
                                                  ELSE unreadPeers \cup {a}
    /\ UNCHANGED <<shownVars, syncVars, active, activePeer>>

Handle ==
    /\ page # "loading"
    /\ events # <<>>
    /\ LET e == Head(events)
       IN  CASE e.type = "online" -> HandleOnline
             [] e.type = "offline" -> HandleOffline
             [] e.type = "peerOnline" -> HandlePeerOnline(e.peer)
             [] e.type = "message" -> HandleMessage(e.peer)
    /\ events' = Tail(events)
    /\ UNCHANGED <<taskVars, stopVars, online, told, mapped, pageVars>>

-----------------------------------------------------------------------------
(* select(uid), select(null) and selectPeer                                  *)

Select ==
    /\ page # "loading"
    /\ active' = TRUE
    /\ activePeer' = None
    /\ unread' = FALSE
    /\ \E y \in Sync :
         /\ sync[y] = "idle"
         /\ sync' = [sync EXCEPT ![y] = "asked"]
    /\ UNCHANGED <<udpVars, mapped, pageVars, answer, fresh, shownVars, unreadPeers>>

Deselect ==
    /\ active
    /\ active' = FALSE
    /\ activePeer' = None
    /\ UNCHANGED <<udpVars, mapped, pageVars, syncVars, shownVars, unread, unreadPeers>>

DeselectPeer ==
    /\ active
    /\ activePeer' = None
    /\ UNCHANGED <<udpVars, mapped, pageVars, syncVars, shownVars, unread, unreadPeers, active>>

(* One of the peers seen so far, of the session that is selected.            *)
SelectPeer(a) ==
    /\ active
    /\ a \in peers
    /\ activePeer' = a
    /\ unreadPeers' = unreadPeers \ {a}
    /\ UNCHANGED <<udpVars, mapped, pageVars, syncVars, shownVars, unread, active>>

-----------------------------------------------------------------------------
(* sync(): session_status looks the session up in the map; without one the   *)
(* answer is the default.  A session that has told Online and is not in the  *)
(* map yet makes the answer wrong from the start.                            *)

MapIsTrue == mapped \/ ~online \/ cancelled

Answer(y) ==
    /\ sync[y] = "asked"
    /\ answer' = [answer EXCEPT ![y] =
                     IF mapped THEN [online |-> online, peers |-> peers] ELSE Unknown]
    /\ fresh' = IF MapIsTrue THEN fresh \cup {y} ELSE fresh
    /\ sync' = [sync EXCEPT ![y] = "answered"]
    /\ UNCHANGED <<udpVars, mapped, pageVars, shownVars, readVars>>

(* The answer overwrites the flag and adds peers.                            *)
Apply(y) ==
    /\ sync[y] = "answered"
    /\ uiOnline' = answer[y].online
    /\ uiPeers' = uiPeers \cup answer[y].peers
    /\ misled' = (y \notin fresh)
    /\ fresh' = fresh \ {y}
    /\ answer' = [answer EXCEPT ![y] = Unknown]
    /\ sync' = [sync EXCEPT ![y] = "idle"]
    /\ UNCHANGED <<udpVars, mapped, pageVars, readVars>>

-----------------------------------------------------------------------------
(* The page: reloaded, it forgets everything; it listens first, and then     *)
(* asks which sessions run and for the status of those.                      *)

Reload ==
    /\ page = "started"
    /\ reloads < MaxReloads
    /\ reloads' = reloads + 1
    /\ page' = "loading"
    /\ uiOnline' = FALSE
    /\ uiPeers' = {}
    /\ misled' = FALSE
    /\ unread' = FALSE
    /\ unreadPeers' = {}
    /\ active' = FALSE
    /\ activePeer' = None
    /\ sync' = [y \in Sync |-> "idle"]
    /\ answer' = [y \in Sync |-> Unknown]
    /\ fresh' = {}
    /\ UNCHANGED <<udpVars, mapped>>

Listen ==
    /\ page = "loading"
    /\ page' = "listening"
    /\ events' = <<>>
    /\ UNCHANGED <<taskVars, stopVars, online, told, mapped, reloads, syncVars,
                   shownVars, readVars>>

(* running_sessions: a session that is not in the map is not asked about.    *)
AskRunning ==
    /\ page = "listening"
    /\ page' = "started"
    /\ IF mapped
         THEN \E y \in Sync : /\ sync[y] = "idle"
                              /\ sync' = [sync EXCEPT ![y] = "asked"]
         ELSE UNCHANGED sync
    /\ misled' = (misled \/ ~MapIsTrue)
    /\ UNCHANGED <<udpVars, mapped, reloads, answer, fresh, uiOnline, uiPeers, readVars>>

-----------------------------------------------------------------------------
Terminated ==
    /\ at \in {"failed", "done"}
    /\ events = <<>>
    /\ UNCHANGED vars

Next ==
    \/ Session \/ Insert \/ Stop
    \/ Handle
    \/ Select \/ Deselect \/ DeselectPeer \/ \E a \in Addr : SelectPeer(a)
    \/ \E y \in Sync : Answer(y) \/ Apply(y)
    \/ Reload \/ Listen \/ AskRunning
    \/ Terminated

Spec == Init /\ [][Next]_vars

(* The task and stop() run, events are handled, calls answered and pages     *)
(* loaded; select! does not pass a cancelled token over for ever (SF).       *)
Fairness ==
    /\ SF_vars(SeesCancel /\ Beside)
    /\ WF_vars(Tell /\ Beside)
    /\ WF_vars((StopLocked \/ StopTells) /\ Beside)
    /\ WF_vars(Handle)
    /\ \A y \in Sync : WF_vars(Answer(y)) /\ WF_vars(Apply(y))
    /\ WF_vars(Listen)

FairSpec == Spec /\ Fairness

-----------------------------------------------------------------------------
(* When every event has been handled and every call answered, the interface  *)
(* shows what the session has told, the peers of a running one included (a   *)
(* session that is being stopped it may show offline a moment early), unless *)
(* an answer misled it: one that Online or Offline overtook, or that was     *)
(* read while a session that had told Online was not in the map yet.         *)
Settled == events = <<>> /\ page = "started" /\ \A y \in Sync : sync[y] = "idle"

SettledAgrees ==
    Settled /\ ~misled =>
        /\ uiOnline => told
        /\ told /\ ~cancelled => uiOnline
        /\ told /\ ~cancelled /\ at # "telling" => uiPeers = peers

(* What is in view has been read: a session that is selected counts nothing  *)
(* as unread, and neither does the peer selected in it.                      *)
NothingUnreadInView ==
    active => ~unread /\ activePeer \notin unreadPeers

(* Once a session has been stopped the interface comes to show it offline,   *)
(* and for good, unless a stale answer of sync() says otherwise.             *)
StopIsShown == cancelled ~> [](~uiOnline \/ misled)

=============================================================================
