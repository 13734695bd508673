---------------------------- MODULE SessionManager ----------------------------
(* Manager (session/mod.rs) and the commands that reach it (commands.rs): a  *)
(* mutex-guarded map from a configuration's uid to its session, and start,   *)
(* stop, stop_all and delete_sessions, each a sequence of short critical     *)
(* sections with awaits in between.  The webview's calls run concurrently:   *)
(* nothing keeps two commands for one uid apart.  `contended` remembers for  *)
(* which uids a start has overlapped another command.                        *)
(*                                                                           *)
(* A session here is unborn, starting (its first connect or bind is awaited  *)
(* and only its own command knows it), running, stopped, or failed to start. *)

EXTENDS Store, Naturals, FiniteSets

CONSTANTS
    Command,      \* calls from the webview that may be in flight together
    MaxSessions,  \* bound on the sessions created
    None

ASSUME ManagerAssumption ==
    /\ IsFiniteSet(Command)
    /\ MaxSessions \in Nat
    /\ None \notin 1 .. MaxSessions

Session == 1 .. MaxSessions

VARIABLES
    map,       \* Manager.sessions
    life,      \* what each session is doing
    owner,     \* the uid of the configuration a session was created from
    born,      \* the number of sessions created
    at,        \* where each command is
    uids,      \* the uids a command was called with
    todo,      \* those of them delete_sessions has yet to stop
    held,      \* the sessions a command holds an Arc of and works on
    contended  \* the uids for which a start has overlapped another command
               \* (history)

sessionVars == <<life, owner, born>>
commandVars == <<at, uids, todo, held, contended>>
vars == <<storeVars, map, life, owner, born, at, uids, todo, held, contended>>

Starting == {"get", "restop", "remove", "create", "connecting", "insert"}
Stopping == {"take", "stopping"}
Deleting == {"deleteTake", "deleteStopping", "erase"}

TypeOK ==
    /\ StoreTypeOK
    /\ map \in [Uid -> Session \cup {None}]
    /\ life \in [Session -> {"unborn", "starting", "running", "stopped", "failed"}]
    /\ owner \in [Session -> Uid \cup {None}]
    /\ born \in 0 .. MaxSessions
    /\ at \in [Command -> {"idle"} \cup Starting \cup Stopping \cup Deleting]
    /\ uids \in [Command -> SUBSET Uid]
    /\ todo \in [Command -> SUBSET Uid]
    /\ held \in [Command -> SUBSET Session]
    /\ contended \subseteq Uid

Init ==
    /\ StoreInit
    /\ map = [u \in Uid |-> None]
    /\ life = [s \in Session |-> "unborn"]
    /\ owner = [s \in Session |-> None]
    /\ born = 0
    /\ at = [c \in Command |-> "idle"]
    /\ uids = [c \in Command |-> {}]
    /\ todo = [c \in Command |-> {}]
    /\ held = [c \in Command |-> {}]
    /\ contended = {}

-----------------------------------------------------------------------------
InFlight(us) == {c \in Command : at[c] # "idle" /\ uids[c] \cap us # {}}

(* A start of one of us is in flight, or is what is being called.            *)
StartIsOne(where, us) == where = "get" \/ \E c \in InFlight(us) : at[c] \in Starting

(* A new call for the uids us.                                               *)
Call(c, us, where) ==
    /\ at[c] = "idle"
    /\ contended' = contended \cup {u \in us : InFlight({u}) # {} /\ StartIsOne(where, {u})}
    /\ at' = [at EXCEPT ![c] = where]
    /\ uids' = [uids EXCEPT ![c] = us]

Goto(c, where) == at' = [at EXCEPT ![c] = where]

Return(c) ==
    /\ at' = [at EXCEPT ![c] = "idle"]
    /\ uids' = [uids EXCEPT ![c] = {}]
    /\ held' = [held EXCEPT ![c] = {}]

(* Session::stop: cancels the session's token; a second stop does nothing.   *)
StopSession(s) ==
    life' = [life EXCEPT ![s] = IF @ = "running" THEN "stopped" ELSE @]

(* What small mistakes would do, one at a time: start leaves a running       *)
(* session alone, forgets to stop it or goes on after a failure; stop takes  *)
(* a session that is not there; delete does not stop.                        *)
GetKeeps(c) ==
    /\ at[c] = "get"
    /\ Goto(c, "create")
    /\ UNCHANGED <<storeVars, map, sessionVars, uids, todo, held>>

RestopSkipped(c) ==
    /\ at[c] = "restop"
    /\ Goto(c, "remove")
    /\ UNCHANGED <<storeVars, map, sessionVars, uids, todo, held>>

ConnectFailedInserts(c) ==
    /\ at[c] = "connecting"
    /\ life' = [s \in Session |-> IF s \in held[c] THEN "failed" ELSE life[s]]
    /\ Goto(c, "insert")
    /\ UNCHANGED <<storeVars, map, owner, born, uids, todo, held>>

TakeUnwraps(c) ==
    /\ at[c] = "take"
    /\ held' = [held EXCEPT ![c] = {map[u] : u \in uids[c]}]
    /\ map' = [u \in Uid |-> IF u \in uids[c] THEN None ELSE map[u]]
    /\ Goto(c, "stopping")
    /\ UNCHANGED <<storeVars, sessionVars, uids, todo>>

DeleteTakeSkipped(c) ==
    /\ at[c] = "deleteTake"
    /\ todo' = [todo EXCEPT ![c] = {}]
    /\ Goto(c, "erase")
    /\ UNCHANGED <<storeVars, map, sessionVars, uids, held>>

-----------------------------------------------------------------------------
(* start_session and Manager::start                                          *)

(* The configuration is read from the store; without one the call fails at   *)
(* once.  Committed counts the sessions created or about to be,       *)
(* and MaxSessions bounds them.                                              *)
Committed == born + Cardinality({c \in Command :
                    at[c] \in {"get", "restop", "remove", "create"}})

StartSession(c, u) ==
    /\ u \in store
    /\ Committed < MaxSessions
    /\ Call(c, {u}, "get")
    /\ UNCHANGED <<storeVars, map, sessionVars, todo, held>>

Get(c) ==
    /\ at[c] = "get"
    /\ \E u \in uids[c] :
         IF map[u] = None
           THEN Goto(c, "create") /\ UNCHANGED held
           ELSE Goto(c, "restop") /\ held' = [held EXCEPT ![c] = {map[u]}]
    /\ UNCHANGED <<storeVars, map, sessionVars, uids, todo>>

Restop(c) ==
    /\ at[c] = "restop"
    /\ \E s \in held[c] : StopSession(s)
    /\ Goto(c, "remove")
    /\ UNCHANGED <<storeVars, map, owner, born, uids, todo, held>>

(* By uid: whichever session is there goes.                                  *)
Remove(c) ==
    /\ at[c] = "remove"
    /\ map' = [u \in Uid |-> IF u \in uids[c] THEN None ELSE map[u]]
    /\ held' = [held EXCEPT ![c] = {}]
    /\ Goto(c, "create")
    /\ UNCHANGED <<storeVars, sessionVars, uids, todo>>

Create(c) ==
    /\ at[c] = "create"
    /\ born' = born + 1
    /\ life' = [life EXCEPT ![born'] = "starting"]
    /\ \E u \in uids[c] : owner' = [owner EXCEPT ![born'] = u]
    /\ held' = [held EXCEPT ![c] = {born'}]
    /\ Goto(c, "connecting")
    /\ UNCHANGED <<storeVars, map, uids, todo>>

(* session.start().await: up to the connect timeout, and the session is not  *)
(* in the map.                                                               *)
ConnectOk(c) ==
    /\ at[c] = "connecting"
    /\ life' = [s \in Session |-> IF s \in held[c] THEN "running" ELSE life[s]]
    /\ Goto(c, "insert")
    /\ UNCHANGED <<storeVars, map, owner, born, uids, todo, held>>

ConnectFailed(c) ==
    /\ at[c] = "connecting"
    /\ life' = [s \in Session |-> IF s \in held[c] THEN "failed" ELSE life[s]]
    /\ Return(c)
    /\ UNCHANGED <<storeVars, map, owner, born, todo>>

(* A session that is in the map by then is dropped from it, not stopped.     *)
Insert(c) ==
    /\ at[c] = "insert"
    /\ \E u \in uids[c], s \in held[c] : map' = [map EXCEPT ![u] = s]
    /\ Return(c)
    /\ UNCHANGED <<storeVars, sessionVars, todo>>

-----------------------------------------------------------------------------
(* stop_session and Manager::stop, Manager::stop_all                         *)

Stop(c, u) ==
    /\ Call(c, {u}, "take")
    /\ UNCHANGED <<storeVars, map, sessionVars, todo, held>>

StopAll(c) ==
    /\ Call(c, Uid, "take")
    /\ UNCHANGED <<storeVars, map, sessionVars, todo, held>>

(* remove(uid), or drain(), in one critical section.                         *)
Take(c) ==
    /\ at[c] = "take"
    /\ held' = [held EXCEPT ![c] = {map[u] : u \in uids[c]} \ {None}]
    /\ map' = [u \in Uid |-> IF u \in uids[c] THEN None ELSE map[u]]
    /\ Goto(c, "stopping")
    /\ UNCHANGED <<storeVars, sessionVars, uids, todo>>

StopTaken(c) ==
    /\ at[c] = "stopping"
    /\ \E s \in held[c] :
         /\ StopSession(s)
         /\ held' = [held EXCEPT ![c] = @ \ {s}]
    /\ UNCHANGED <<storeVars, map, owner, born, at, uids, todo>>

StopReturns(c) ==
    /\ at[c] = "stopping"
    /\ held[c] = {}
    /\ Return(c)
    /\ UNCHANGED <<storeVars, map, sessionVars, todo>>

-----------------------------------------------------------------------------
(* delete_sessions: each uid is stopped in turn, then all leave the store.   *)

Delete(c, us) ==
    /\ Call(c, us, "deleteTake")
    /\ todo' = [todo EXCEPT ![c] = us]
    /\ UNCHANGED <<storeVars, map, sessionVars, held>>

DeleteTake(c) ==
    /\ at[c] = "deleteTake"
    /\ \E u \in todo[c] :
         /\ todo' = [todo EXCEPT ![c] = @ \ {u}]
         /\ held' = [held EXCEPT ![c] = {map[u]} \ {None}]
         /\ map' = [map EXCEPT ![u] = None]
    /\ Goto(c, "deleteStopping")
    /\ UNCHANGED <<storeVars, sessionVars, uids>>

DeleteStop(c) ==
    /\ at[c] = "deleteStopping"
    /\ IF held[c] = {} THEN UNCHANGED life
                       ELSE \E s \in held[c] : StopSession(s)
    /\ held' = [held EXCEPT ![c] = {}]
    /\ Goto(c, IF todo[c] = {} THEN "erase" ELSE "deleteTake")
    /\ UNCHANGED <<storeVars, map, owner, born, uids, todo>>

Erase(c) ==
    /\ at[c] = "erase"
    /\ DeleteSessions(uids[c])
    /\ Return(c)
    /\ UNCHANGED <<map, sessionVars, todo>>

(* save_session and reorder_sessions are one critical section of the store.  *)
(* An editor that is still open may save a configuration that was deleted.   *)
Edit ==
    /\ ReorderSessions \/ \E u \in Uid : SaveSession(u)
    /\ UNCHANGED <<map, sessionVars, commandVars>>

(* The program ends, at any point of any call, and is started again: every   *)
(* session is gone, what the store has on disk is not.                       *)
Restart ==
    /\ Reopen
    /\ map' = [u \in Uid |-> None]
    /\ life' = [s \in Session |-> IF life[s] \in {"starting", "running"}
                                    THEN "stopped" ELSE life[s]]
    /\ at' = [c \in Command |-> "idle"]
    /\ uids' = [c \in Command |-> {}]
    /\ todo' = [c \in Command |-> {}]
    /\ held' = [c \in Command |-> {}]
    /\ contended' = {}
    /\ UNCHANGED <<owner, born>>

-----------------------------------------------------------------------------
Step(c) ==
    /\ \/ Get(c) \/ Restop(c) \/ Remove(c) \/ Create(c)
       \/ ConnectOk(c) \/ ConnectFailed(c) \/ Insert(c)
       \/ Take(c) \/ StopTaken(c) \/ StopReturns(c)
       \/ DeleteTake(c) \/ DeleteStop(c) \/ Erase(c)
    /\ UNCHANGED contended

Next ==
    \/ \E c \in Command :
         \/ Step(c)
         \/ \E u \in Uid : StartSession(c, u) \/ Stop(c, u)
         \/ StopAll(c)
         \/ \E us \in SUBSET Uid \ {{}} : Delete(c, us)
    \/ Edit
    \/ Restart

Spec == Init /\ [][Next]_vars

-----------------------------------------------------------------------------
Running(u) == {s \in Session : owner[s] = u /\ life[s] = "running"}

(* The map never gives out a session of another configuration, or one whose  *)
(* start failed or has yet to return.                                        *)
MapIsSound ==
    \A u \in Uid : map[u] # None =>
        /\ owner[map[u]] = u
        /\ life[map[u]] \in {"running", "stopped"}

(* Holds every running session, keyed by config uid (session/mod.rs): when   *)
(* no command is working on a configuration, its running sessions are in the *)
(* map, where stop and delete can find them.                                 *)
HeldWhenQuiet(u) == InFlight({u}) = {} => Running(u) \subseteq {map[u]}
HoldsEveryRunning == \A u \in Uid : HeldWhenQuiet(u)

(* That holds as long as no start overlaps another command for the same      *)
(* configuration, whatever goes on with the others.                          *)
HoldsEveryRunningUncontended == \A u \in Uid \ contended : HeldWhenQuiet(u)

(* A configuration has at most one session running, in the middle of a       *)
(* restart too, unless a start overlapped another command for it.            *)
OneRunning == \A u \in Uid \ contended : Cardinality(Running(u)) <= 1

(* A configuration that has been deleted runs no session, unless a start     *)
(* overlapped the delete.                                                    *)
DeletedIsStopped ==
    \A u \in Uid \ (store \cup contended) : InFlight({u}) = {} => Running(u) = {}

=============================================================================
