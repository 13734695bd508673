------------------------ MODULE SessionManager_proofs ------------------------
(* Proofs about SessionManager and the Store under it, for any              *)
(* configurations, any number of calls in flight and of sessions.           *)

EXTENDS SessionManager, FiniteSetTheorems, TLAPS

(* MaxSessions counts the starts that have yet to create their session.      *)
Committing == {c \in Command : at[c] \in {"get", "restop", "remove", "create"}}
Bounded == born + Cardinality(Committing) <= MaxSessions

(* Sessions are numbered in the order they are created in.                   *)
UnbornLast == \A s \in Session : s > born => life[s] = "unborn"

(* What a command has in its hands at each of its steps.                     *)
Hands(c) ==
    /\ at[c] = "idle" => uids[c] = {}
    /\ at[c] \in {"idle", "get", "create", "take", "deleteTake", "erase"}
           => held[c] = {}
    /\ at[c] \in {"restop", "remove", "connecting", "insert", "deleteStopping"}
           => \A s, t \in held[c] : s = t
    /\ at[c] \in {"connecting", "insert"} => held[c] # {}
    /\ at[c] \in Starting => \E u \in Uid : uids[c] = {u}
    /\ at[c] \in Deleting => todo[c] \subseteq uids[c]
    /\ at[c] = "erase" => todo[c] = {}

Steps == \A c \in Command : Hands(c)

HeldIsOwned ==
    \A c \in Command : \A s \in held[c] :
        /\ owner[s] \in uids[c]
        /\ life[s] # "unborn"
        /\ at[c] = "connecting" => life[s] = "starting"
        /\ at[c] = "insert" => life[s] = "running"
        /\ at[c] = "remove" => life[s] # "running"

(* A session is known to the command that starts it alone.                   *)
NewIsPrivate ==
    \A c \in Command : \A s \in held[c] : at[c] \in {"connecting", "insert"} =>
        /\ \A d \in Command : s \in held[d] => d = c
        /\ \A u \in Uid : map[u] # s

(* Where no start has overlapped another command, it is alone.               *)
Alone ==
    \A c, d \in Command : \A u \in uids[c] \cap uids[d] :
        at[c] \in Starting /\ u \notin contended => c = d

(* There, what a start has found in the map is still what is in it.          *)
StartKnowsMap ==
    \A c \in Command : \A u \in uids[c] \ contended :
        /\ at[c] \in {"restop", "remove"} => map[u] \in held[c]
        /\ at[c] \in {"create", "connecting", "insert"} => map[u] = None

(* There, a running session is in the map or in the hands of a command.      *)
Reachable ==
    \A s \in Session : life[s] = "running" /\ owner[s] \notin contended =>
        \/ \E u \in Uid : u = owner[s] /\ map[u] = s
        \/ \E c \in Command : /\ at[c] \in {"insert", "stopping", "deleteStopping"}
                              /\ s \in held[c]

OneOwner ==
    \A s, t \in Session :
        /\ life[s] = "running" /\ life[t] = "running"
        /\ owner[s] = owner[t] /\ owner[s] \in Uid \ contended
        => s = t

(* There, a deleted configuration has been stopped and stays out of the map. *)
DeletedLeavesMap ==
    \A c \in Command : \A u \in uids[c] \ (todo[c] \cup contended) :
        at[c] \in Deleting => map[u] = None

StartIsStored ==
    \A c \in Command : at[c] \in Starting => uids[c] \subseteq store \cup contended

GoneIsUnmapped == \A u \in Uid \ (store \cup contended) : map[u] = None

Sessions == UnbornLast /\ HeldIsOwned /\ NewIsPrivate /\ MapIsSound
Uncontended == /\ Alone /\ StartKnowsMap /\ Reachable /\ OneOwner
               /\ DeletedLeavesMap /\ StartIsStored /\ GoneIsUnmapped

IInv == Bounded /\ Steps /\ Sessions /\ Uncontended /\ AcknowledgedSurvives

-----------------------------------------------------------------------------
(* The bound.  A start counts from its call to the creation of its session,  *)
(* so there is room for it when it comes to that.                            *)
LEMMA CommittingCounts ==
    /\ IsFiniteSet(Committing)
    /\ Cardinality(Committing) \in Nat
<1>1. Committing \in SUBSET Command
  BY DEF Committing
<1>2. IsFiniteSet(Committing)
  BY <1>1, ManagerAssumption, FS_Subset
<1> QED
  BY <1>2, FS_CardinalityType

(* A command that is about to create a session has a session left for it:    *)
(* each command counts for one.                                              *)
LEMMA RoomToCreate ==
    ASSUME TypeOK, Bounded, NEW c \in Command, at[c] = "create"
    PROVE  born + 1 \in Session
<1>1. c \in Committing
  BY DEF Committing
<1>2. Cardinality(Committing) # 0
  BY <1>1, CommittingCounts, FS_EmptySet
<1> QED
  BY <1>2, CommittingCounts, ManagerAssumption DEF TypeOK, Bounded, Session

(* What is typed in the store, by the manager and per command.               *)
SessionTypes ==
    /\ map \in [Uid -> Session \cup {None}]
    /\ life \in [Session -> {"unborn", "starting", "running", "stopped", "failed"}]
    /\ owner \in [Session -> Uid \cup {None}]
    /\ born \in 0 .. MaxSessions

CallTypes ==
    /\ at \in [Command -> {"idle"} \cup Starting \cup Stopping \cup Deleting]
    /\ contended \subseteq Uid

CommandTypes ==
    /\ uids \in [Command -> SUBSET Uid]
    /\ todo \in [Command -> SUBSET Uid]
    /\ held \in [Command -> SUBSET Session]

(* Every step keeps the types of the sessions and the map, ...               *)
LEMMA SessionTypesStep == TypeOK /\ Bounded /\ [Next]_vars => SessionTypes'
<1> SUFFICES ASSUME TypeOK, Bounded, [Next]_vars PROVE SessionTypes'
  OBVIOUS
<1> USE ManagerAssumption
    DEF TypeOK, SessionTypes, Session, Starting, Stopping, Deleting, Goto,
        Return, StopSession, sessionVars
<1>1. ASSUME NEW c \in Command, UNCHANGED contended,
             Get(c) \/ Restop(c) \/ Remove(c)
      PROVE  SessionTypes'
  BY <1>1 DEF Get, Restop, Remove
<1>2. ASSUME NEW c \in Command, UNCHANGED contended, Create(c)
      PROVE  SessionTypes'
  BY <1>2, RoomToCreate DEF Create
<1>3. ASSUME NEW c \in Command, UNCHANGED contended,
             ConnectOk(c) \/ ConnectFailed(c) \/ Insert(c)
      PROVE  SessionTypes'
  BY <1>3 DEF ConnectOk, ConnectFailed, Insert
<1>4. ASSUME NEW c \in Command, UNCHANGED contended,
             Take(c) \/ StopTaken(c) \/ StopReturns(c)
      PROVE  SessionTypes'
  BY <1>4 DEF Take, StopTaken, StopReturns
<1>5. ASSUME NEW c \in Command, UNCHANGED contended,
             DeleteTake(c) \/ DeleteStop(c) \/ Erase(c)
      PROVE  SessionTypes'
  BY <1>5 DEF DeleteTake, DeleteStop, Erase
<1>6. ASSUME NEW c \in Command, NEW u \in Uid, StartSession(c, u) \/ Stop(c, u)
      PROVE  SessionTypes'
  BY <1>6 DEF StartSession, Stop, Call
<1>7. ASSUME NEW c \in Command, NEW us \in SUBSET Uid, StopAll(c) \/ Delete(c, us)
      PROVE  SessionTypes'
  BY <1>7 DEF StopAll, Delete, Call
<1>8. CASE Edit \/ Restart \/ UNCHANGED vars
  BY <1>8 DEF Edit, Restart, vars, commandVars
<1> QED
  BY <1>1, <1>2, <1>3, <1>4, <1>5, <1>6, <1>7, <1>8 DEF Next, Step

(* ... of what the commands work on, ...                                     *)
LEMMA CommandTypesStep == TypeOK /\ Bounded /\ [Next]_vars => CommandTypes'
<1> SUFFICES ASSUME TypeOK, Bounded, [Next]_vars PROVE CommandTypes'
  OBVIOUS
<1> USE ManagerAssumption
    DEF TypeOK, CommandTypes, Session, Starting, Stopping, Deleting, Goto,
        Return, StopSession, sessionVars
<1>1. ASSUME NEW c \in Command, UNCHANGED contended,
             Get(c) \/ Restop(c) \/ Remove(c)
      PROVE  CommandTypes'
  BY <1>1 DEF Get, Restop, Remove
<1>2. ASSUME NEW c \in Command, UNCHANGED contended, Create(c)
      PROVE  CommandTypes'
  BY <1>2, RoomToCreate DEF Create
<1>3. ASSUME NEW c \in Command, UNCHANGED contended,
             ConnectOk(c) \/ ConnectFailed(c) \/ Insert(c)
      PROVE  CommandTypes'
  BY <1>3 DEF ConnectOk, ConnectFailed, Insert
<1>4. ASSUME NEW c \in Command, UNCHANGED contended,
             Take(c) \/ StopTaken(c) \/ StopReturns(c)
      PROVE  CommandTypes'
  BY <1>4 DEF Take, StopTaken, StopReturns
<1>5. ASSUME NEW c \in Command, UNCHANGED contended,
             DeleteTake(c) \/ DeleteStop(c) \/ Erase(c)
      PROVE  CommandTypes'
  <2>1. CASE DeleteTake(c)
    BY <1>5, <2>1 DEF DeleteTake
  <2>2. CASE DeleteStop(c) \/ Erase(c)
    BY <1>5, <2>2 DEF DeleteStop, Erase
  <2> QED
    BY <1>5, <2>1, <2>2
<1>6. ASSUME NEW c \in Command, NEW u \in Uid, StartSession(c, u) \/ Stop(c, u)
      PROVE  CommandTypes'
  BY <1>6 DEF StartSession, Stop, Call
<1>7. ASSUME NEW c \in Command, NEW us \in SUBSET Uid, StopAll(c) \/ Delete(c, us)
      PROVE  CommandTypes'
  BY <1>7 DEF StopAll, Delete, Call
<1>8. CASE Edit \/ Restart \/ UNCHANGED vars
  BY <1>8 DEF Edit, Restart, vars, commandVars
<1> QED
  BY <1>1, <1>2, <1>3, <1>4, <1>5, <1>6, <1>7, <1>8 DEF Next, Step

(* ... of where they are, ...                                                *)
LEMMA CallTypesStep == TypeOK /\ Bounded /\ [Next]_vars => CallTypes'
<1> SUFFICES ASSUME TypeOK, Bounded, [Next]_vars PROVE CallTypes'
  OBVIOUS
<1> USE ManagerAssumption
    DEF TypeOK, CallTypes, Session, Starting, Stopping, Deleting, Goto,
        Return, StopSession, sessionVars
<1>1. ASSUME NEW c \in Command, UNCHANGED contended,
             Get(c) \/ Restop(c) \/ Remove(c)
      PROVE  CallTypes'
  BY <1>1 DEF Get, Restop, Remove
<1>2. ASSUME NEW c \in Command, UNCHANGED contended, Create(c)
      PROVE  CallTypes'
  BY <1>2, RoomToCreate DEF Create
<1>3. ASSUME NEW c \in Command, UNCHANGED contended,
             ConnectOk(c) \/ ConnectFailed(c) \/ Insert(c)
      PROVE  CallTypes'
  BY <1>3 DEF ConnectOk, ConnectFailed, Insert
<1>4. ASSUME NEW c \in Command, UNCHANGED contended,
             Take(c) \/ StopTaken(c) \/ StopReturns(c)
      PROVE  CallTypes'
  BY <1>4 DEF Take, StopTaken, StopReturns
<1>5. ASSUME NEW c \in Command, UNCHANGED contended,
             DeleteTake(c) \/ DeleteStop(c) \/ Erase(c)
      PROVE  CallTypes'
  BY <1>5 DEF DeleteTake, DeleteStop, Erase
<1>6. ASSUME NEW c \in Command, NEW u \in Uid, StartSession(c, u) \/ Stop(c, u)
      PROVE  CallTypes'
  BY <1>6 DEF StartSession, Stop, Call
<1>7. ASSUME NEW c \in Command, NEW us \in SUBSET Uid, StopAll(c) \/ Delete(c, us)
      PROVE  CallTypes'
  BY <1>7 DEF StopAll, Delete, Call
<1>8. CASE Edit \/ Restart \/ UNCHANGED vars
  BY <1>8 DEF Edit, Restart, vars, commandVars
<1> QED
  BY <1>1, <1>2, <1>3, <1>4, <1>5, <1>6, <1>7, <1>8 DEF Next, Step

(* Only erase, edits and restarts touch the store.                           *)
LEMMA StoreStep ==
    ASSUME [Next]_vars
    PROVE  \/ UNCHANGED storeVars
           \/ \E c \in Command : Erase(c)
           \/ Edit \/ Restart
BY DEF Next, Step, Get, Restop, Remove, Create, ConnectOk, ConnectFailed, Insert,
       Take, StopTaken, StopReturns, DeleteTake, DeleteStop, StartSession, Stop,
       StopAll, Delete, vars, storeVars

(* ... and of the store.                                                     *)
LEMMA StoreTypesStep == TypeOK /\ [Next]_vars => StoreTypeOK'
<1> SUFFICES ASSUME TypeOK, [Next]_vars PROVE StoreTypeOK'
  OBVIOUS
<1> USE DEF TypeOK, StoreTypeOK, Promises, SaveJson, SaveJsonFails
<1>1. CASE UNCHANGED storeVars
  BY <1>1 DEF storeVars
<1>2. ASSUME NEW c \in Command, Erase(c) PROVE StoreTypeOK'
  BY <1>2 DEF Erase, DeleteSessions
<1>3. CASE Edit
  BY <1>3 DEF Edit, SaveSession, ReorderSessions
<1>4. CASE Restart
  BY <1>4 DEF Restart, Reopen, LoadJson, LoadJsonFails, AfterCrash
<1> QED
  BY <1>1, <1>2, <1>3, <1>4, StoreStep

(* So every step keeps every type.                                           *)
LEMMA TypeStep == TypeOK /\ Bounded /\ [Next]_vars => TypeOK'
<1>1. TypeOK' <=> StoreTypeOK' /\ SessionTypes' /\ CallTypes' /\ CommandTypes'
  BY DEF TypeOK, SessionTypes, CallTypes, CommandTypes
<1> QED
  BY <1>1, StoreTypesStep, SessionTypesStep, CallTypesStep, CommandTypesStep

(* A session that is born is paid for by the command that creates it.        *)
LEMMA BoundedStep == TypeOK /\ Bounded /\ [Next]_vars => Bounded'
<1> SUFFICES ASSUME TypeOK, Bounded, [Next]_vars PROVE Bounded'
  OBVIOUS
<1> USE ManagerAssumption DEF TypeOK
<1>1. ASSUME UNCHANGED born, Committing' \subseteq Committing
      PROVE  Bounded'
  <2>1. Cardinality(Committing') <= Cardinality(Committing)
    BY <1>1, CommittingCounts, FS_Subset
  <2>2. Cardinality(Committing') \in Nat
    BY <1>1, CommittingCounts, FS_Subset, FS_CardinalityType
  <2> QED
    BY <1>1, <2>1, <2>2, CommittingCounts DEF Bounded
<1>2. ASSUME NEW c \in Command, Create(c)
      PROVE  Bounded'
  <2>1. c \in Committing /\ Committing' = Committing \ {c}
    BY <1>2 DEF Committing, Create, Goto
  <2>2. Cardinality(Committing') = Cardinality(Committing) - 1
    BY <2>1, CommittingCounts, FS_RemoveElement
  <2> QED
    BY <1>2, <2>2, CommittingCounts DEF Bounded, Create
<1>3. ASSUME NEW c \in Command, NEW u \in Uid, StartSession(c, u)
      PROVE  Bounded'
  <2>1. c \notin Committing /\ Committing' = Committing \cup {c}
    BY <1>3 DEF Committing, StartSession, Call
  <2>2. Cardinality(Committing') = Cardinality(Committing) + 1
    BY <2>1, CommittingCounts, FS_AddElement
  <2>3. born + Cardinality(Committing) < MaxSessions /\ born' = born
    BY <1>3 DEF StartSession, Committed, Committing, sessionVars
  <2> QED
    BY <2>2, <2>3, CommittingCounts DEF Bounded
<1>4. ASSUME NEW c \in Command, Step(c), ~Create(c)
      PROVE  Bounded'
  <2>1. UNCHANGED born
    BY <1>4 DEF Step, Get, Restop, Remove, ConnectOk, ConnectFailed, Insert, Take,
                StopTaken, StopReturns, DeleteTake, DeleteStop, Erase, sessionVars
  <2>2. Committing' \subseteq Committing
    BY <1>4 DEF Step, Get, Restop, Remove, ConnectOk, ConnectFailed, Insert, Take,
                StopTaken, StopReturns, DeleteTake, DeleteStop, Erase, Committing,
                Goto, Return
  <2> QED
    BY <1>1, <2>1, <2>2
<1>5. ASSUME NEW c \in Command, NEW us \in SUBSET Uid,
             (\E u \in Uid : Stop(c, u)) \/ StopAll(c) \/ Delete(c, us)
      PROVE  Bounded'
  <2>1. UNCHANGED born /\ Committing' \subseteq Committing
    BY <1>5 DEF Stop, StopAll, Delete, Call, Committing, sessionVars
  <2> QED
    BY <1>1, <2>1
<1>6. CASE Edit \/ Restart \/ UNCHANGED vars
  BY <1>1, <1>6 DEF Edit, Restart, vars, Committing, sessionVars, commandVars
<1> QED
  BY <1>2, <1>3, <1>4, <1>5, <1>6 DEF Next

-----------------------------------------------------------------------------
(* Conjunct by conjunct, the invariant is inductive.                            *)
(* What a command holds changes with its own steps only.                     *)
LEMMA HandsStep ==
    ASSUME TypeOK, Steps, [Next]_vars
    PROVE  Steps'
<1> USE ManagerAssumption
    DEF TypeOK, Steps, Hands, Goto, Return, StopSession, Session, Starting,
        Stopping, Deleting, storeVars, sessionVars
<1>1. ASSUME NEW c \in Command, UNCHANGED contended,
             Get(c)
      PROVE  Steps'
  BY <1>1 DEF Get
<1>2. ASSUME NEW c \in Command, UNCHANGED contended,
             Restop(c)
      PROVE  Steps'
  BY <1>2 DEF Restop
<1>3. ASSUME NEW c \in Command, UNCHANGED contended,
             Remove(c)
      PROVE  Steps'
  BY <1>3 DEF Remove
<1>4. ASSUME NEW c \in Command, UNCHANGED contended,
             Create(c)
      PROVE  Steps'
  BY <1>4 DEF Create
<1>5. ASSUME NEW c \in Command, UNCHANGED contended,
             ConnectOk(c) \/ ConnectFailed(c) \/ Insert(c)
      PROVE  Steps'
  BY <1>5 DEF ConnectOk, ConnectFailed, Insert
<1>6. ASSUME NEW c \in Command, UNCHANGED contended,
             Take(c)
      PROVE  Steps'
  BY <1>6 DEF Take
<1>7. ASSUME NEW c \in Command, UNCHANGED contended,
             StopTaken(c)
      PROVE  Steps'
  BY <1>7 DEF StopTaken
<1>8. ASSUME NEW c \in Command, UNCHANGED contended,
             StopReturns(c)
      PROVE  Steps'
  BY <1>8 DEF StopReturns
<1>9. ASSUME NEW c \in Command, UNCHANGED contended,
             DeleteTake(c)
      PROVE  Steps'
  BY <1>9 DEF DeleteTake
<1>10. ASSUME NEW c \in Command, UNCHANGED contended,
             DeleteStop(c)
      PROVE  Steps'
  BY <1>10 DEF DeleteStop
<1>11. ASSUME NEW c \in Command, UNCHANGED contended,
             Erase(c)
      PROVE  Steps'
  BY <1>11 DEF Erase, DeleteSessions, SaveJson, SaveJsonFails
<1>12. ASSUME NEW c \in Command, NEW u \in Uid, StartSession(c, u) \/ Stop(c, u)
      PROVE  Steps'
  BY <1>12 DEF StartSession, Stop, Call
<1>13. ASSUME NEW c \in Command, NEW us \in SUBSET Uid, StopAll(c) \/ Delete(c, us)
      PROVE  Steps'
  <2>1. CASE StopAll(c)
    BY <2>1 DEF StopAll, Call
  <2>2. CASE Delete(c, us)
    BY <2>2 DEF Delete, Call
  <2> QED
    BY <1>13, <2>1, <2>2
<1>14. CASE Edit \/ Restart
  BY <1>14 DEF Edit, SaveSession, ReorderSessions, SaveJson, SaveJsonFails,
              commandVars, Restart, Reopen, LoadJson, LoadJsonFails
<1>15. CASE UNCHANGED vars
  BY <1>15 DEF vars
<1> HIDE DEF TypeOK, Steps
<1> QED
  BY <1>1, <1>2, <1>3, <1>4, <1>5, <1>6, <1>7, <1>8, <1>9, <1>10, <1>11, <1>12,
     <1>13, <1>14, <1>15 DEF Next, Step

(* A session is created with the next number.                                *)
LEMMA UnbornLastStep ==
    ASSUME TypeOK, Steps, Sessions, [Next]_vars
    PROVE  UnbornLast'
<1> USE ManagerAssumption
    DEF TypeOK, Steps, Sessions, Hands, UnbornLast, HeldIsOwned, Goto, Return,
        StopSession, Session, Starting, Stopping, Deleting, storeVars,
        sessionVars
<1>1. ASSUME NEW c \in Command, UNCHANGED contended,
             Get(c) \/ Restop(c) \/ Remove(c) \/ Create(c)
      PROVE  UnbornLast'
  BY <1>1 DEF Get, Restop, Remove, Create
<1>2. ASSUME NEW c \in Command, UNCHANGED contended,
             ConnectOk(c) \/ ConnectFailed(c) \/ Insert(c)
      PROVE  UnbornLast'
  BY <1>2 DEF ConnectOk, ConnectFailed, Insert
<1>3. ASSUME NEW c \in Command, UNCHANGED contended,
             Take(c) \/ StopTaken(c) \/ StopReturns(c)
      PROVE  UnbornLast'
  BY <1>3 DEF Take, StopTaken, StopReturns
<1>4. ASSUME NEW c \in Command, UNCHANGED contended,
             DeleteTake(c) \/ DeleteStop(c) \/ Erase(c)
      PROVE  UnbornLast'
  BY <1>4 DEF DeleteTake, DeleteStop, Erase, DeleteSessions, SaveJson,
              SaveJsonFails
<1>5. ASSUME NEW c \in Command, NEW u \in Uid, StartSession(c, u) \/ Stop(c, u)
      PROVE  UnbornLast'
  BY <1>5 DEF StartSession, Stop, Call
<1>6. ASSUME NEW c \in Command, NEW us \in SUBSET Uid, StopAll(c) \/ Delete(c, us)
      PROVE  UnbornLast'
  BY <1>6 DEF StopAll, Delete, Call
<1>7. CASE Edit \/ Restart
  BY <1>7 DEF Edit, SaveSession, ReorderSessions, SaveJson, SaveJsonFails,
              commandVars, Restart, Reopen, LoadJson, LoadJsonFails
<1>8. CASE UNCHANGED vars
  BY <1>8 DEF vars
<1> HIDE DEF TypeOK, UnbornLast
<1> QED
  BY <1>1, <1>2, <1>3, <1>4, <1>5, <1>6, <1>7, <1>8 DEF Next, Step

(* Commands hold sessions of the configurations they were called for.        *)
LEMMA HeldIsOwnedStep ==
    ASSUME TypeOK, Bounded, Steps, Sessions, [Next]_vars
    PROVE  HeldIsOwned'
<1> USE ManagerAssumption
    DEF TypeOK, Steps, Sessions, Hands, HeldIsOwned, NewIsPrivate, MapIsSound,
        UnbornLast, Goto, Return, StopSession, Session, Starting, Stopping,
        Deleting, storeVars, sessionVars
<1>1. ASSUME NEW c \in Command, UNCHANGED contended,
             Create(c)
      PROVE  HeldIsOwned'
  <2>1. born + 1 \in Session /\ life[born + 1] = "unborn"
    BY <1>1, RoomToCreate DEF Create
  <2>2. \A d \in Command : born + 1 \notin held[d]
    BY <2>1
  <2>3. \A u \in Uid : map[u] # born + 1
    BY <2>1
  <2> QED
    BY <1>1, <2>1, <2>2, <2>3 DEF Create
<1>2. ASSUME NEW c \in Command, UNCHANGED contended,
             Get(c) \/ Restop(c) \/ Remove(c)
      PROVE  HeldIsOwned'
  BY <1>2 DEF Get, Restop, Remove
<1>3. ASSUME NEW c \in Command, UNCHANGED contended,
             ConnectOk(c) \/ ConnectFailed(c) \/ Insert(c)
      PROVE  HeldIsOwned'
  BY <1>3 DEF ConnectOk, ConnectFailed, Insert
<1>4. ASSUME NEW c \in Command, UNCHANGED contended,
             Take(c) \/ StopTaken(c) \/ StopReturns(c)
      PROVE  HeldIsOwned'
  BY <1>4 DEF Take, StopTaken, StopReturns
<1>5. ASSUME NEW c \in Command, UNCHANGED contended,
             DeleteTake(c) \/ DeleteStop(c) \/ Erase(c)
      PROVE  HeldIsOwned'
  BY <1>5 DEF DeleteTake, DeleteStop, Erase, DeleteSessions, SaveJson,
              SaveJsonFails
<1>6. ASSUME NEW c \in Command, NEW u \in Uid, StartSession(c, u) \/ Stop(c, u)
      PROVE  HeldIsOwned'
  BY <1>6 DEF StartSession, Stop, Call
<1>7. ASSUME NEW c \in Command, NEW us \in SUBSET Uid, StopAll(c) \/ Delete(c, us)
      PROVE  HeldIsOwned'
  BY <1>7 DEF StopAll, Delete, Call
<1>8. CASE Edit \/ Restart
  BY <1>8 DEF Edit, SaveSession, ReorderSessions, SaveJson, SaveJsonFails,
              commandVars, Restart, Reopen, LoadJson, LoadJsonFails
<1>9. CASE UNCHANGED vars
  BY <1>9 DEF vars
<1> HIDE DEF TypeOK, HeldIsOwned
<1> QED
  BY <1>1, <1>2, <1>3, <1>4, <1>5, <1>6, <1>7, <1>8, <1>9 DEF Next, Step

(* What is taken from the map has been inserted, and what is new has not.    *)
LEMMA NewIsPrivateStep ==
    ASSUME TypeOK, Bounded, Steps, Sessions, [Next]_vars
    PROVE  NewIsPrivate'
<1> USE ManagerAssumption
    DEF TypeOK, Steps, Sessions, Hands, NewIsPrivate, HeldIsOwned, MapIsSound,
        UnbornLast, Goto, Return, StopSession, Session, Starting, Stopping,
        Deleting, storeVars, sessionVars
<1>1. ASSUME NEW c \in Command, UNCHANGED contended,
             Get(c)
      PROVE  NewIsPrivate'
  <2>1. /\ at'[c] \notin {"connecting", "insert"} /\ UNCHANGED map
        /\ \A s \in held'[c] : \E u \in Uid : s = map[u]
        /\ \A d \in Command \ {c} : at'[d] = at[d] /\ held'[d] = held[d]
    BY <1>1 DEF Get
  <2>2. ASSUME NEW d \in Command, NEW s \in held'[d],
               at'[d] \in {"connecting", "insert"}
        PROVE  /\ \A e \in Command : s \in held'[e] => e = d
               /\ \A u \in Uid : map'[u] # s
    <3>1. d # c /\ s \in held[d] /\ at[d] \in {"connecting", "insert"}
      BY <2>1, <2>2
    <3>2. \A u \in Uid : map[u] # s
      BY <3>1
    <3>3. s \notin held'[c]
      BY <2>1, <3>2
    <3>4. \A e \in Command : s \in held[e] => e = d
      BY <3>1
    <3> QED
      BY <2>1, <3>2, <3>3, <3>4
  <2> QED
    BY <2>2
<1>2. ASSUME NEW c \in Command, UNCHANGED contended,
             Restop(c)
      PROVE  NewIsPrivate'
  BY <1>2 DEF Restop
<1>3. ASSUME NEW c \in Command, UNCHANGED contended,
             Remove(c)
      PROVE  NewIsPrivate'
  BY <1>3 DEF Remove
<1>4. ASSUME NEW c \in Command, UNCHANGED contended,
             Create(c)
      PROVE  NewIsPrivate'
  <2>1. born + 1 \in Session /\ life[born + 1] = "unborn"
    BY <1>4, RoomToCreate DEF Create
  <2>2. \A d \in Command : born + 1 \notin held[d]
    BY <2>1
  <2>3. \A u \in Uid : map[u] # born + 1
    BY <2>1
  <2> QED
    BY <1>4, <2>1, <2>2, <2>3 DEF Create
<1>5. ASSUME NEW c \in Command, UNCHANGED contended,
             ConnectOk(c)
      PROVE  NewIsPrivate'
  BY <1>5 DEF ConnectOk
<1>6. ASSUME NEW c \in Command, UNCHANGED contended,
             ConnectFailed(c)
      PROVE  NewIsPrivate'
  BY <1>6 DEF ConnectFailed
<1>7. ASSUME NEW c \in Command, UNCHANGED contended,
             Insert(c)
      PROVE  NewIsPrivate'
  BY <1>7 DEF Insert
<1>8. ASSUME NEW c \in Command, UNCHANGED contended,
             Take(c)
      PROVE  NewIsPrivate'
  BY <1>8 DEF Take
<1>9. ASSUME NEW c \in Command, UNCHANGED contended,
             StopTaken(c)
      PROVE  NewIsPrivate'
  BY <1>9 DEF StopTaken
<1>10. ASSUME NEW c \in Command, UNCHANGED contended,
             StopReturns(c)
      PROVE  NewIsPrivate'
  BY <1>10 DEF StopReturns
<1>11. ASSUME NEW c \in Command, UNCHANGED contended,
             DeleteTake(c)
      PROVE  NewIsPrivate'
  BY <1>11 DEF DeleteTake
<1>12. ASSUME NEW c \in Command, UNCHANGED contended,
             DeleteStop(c)
      PROVE  NewIsPrivate'
  BY <1>12 DEF DeleteStop
<1>13. ASSUME NEW c \in Command, UNCHANGED contended,
             Erase(c)
      PROVE  NewIsPrivate'
  BY <1>13 DEF Erase, DeleteSessions, SaveJson, SaveJsonFails
<1>14. ASSUME NEW c \in Command, NEW u \in Uid, StartSession(c, u) \/ Stop(c, u)
      PROVE  NewIsPrivate'
  BY <1>14 DEF StartSession, Stop, Call
<1>15. ASSUME NEW c \in Command, NEW us \in SUBSET Uid, StopAll(c) \/ Delete(c, us)
      PROVE  NewIsPrivate'
  BY <1>15 DEF StopAll, Delete, Call
<1>16. CASE Edit \/ Restart
  BY <1>16 DEF Edit, SaveSession, ReorderSessions, SaveJson, SaveJsonFails,
              commandVars, Restart, Reopen, LoadJson, LoadJsonFails
<1>17. CASE UNCHANGED vars
  BY <1>17 DEF vars
<1> HIDE DEF TypeOK, NewIsPrivate
<1> QED
  BY <1>1, <1>2, <1>3, <1>4, <1>5, <1>6, <1>7, <1>8, <1>9, <1>10, <1>11, <1>12,
     <1>13, <1>14, <1>15, <1>16, <1>17 DEF Next, Step

(* Only a session that runs is inserted, under its own configuration.        *)
LEMMA MapIsSoundStep ==
    ASSUME TypeOK, Steps, Sessions, [Next]_vars
    PROVE  MapIsSound'
<1> USE ManagerAssumption
    DEF TypeOK, Steps, Sessions, Hands, MapIsSound, HeldIsOwned, NewIsPrivate,
        UnbornLast, Goto, Return, StopSession, Session, Starting, Stopping,
        Deleting, storeVars, sessionVars
<1>1. ASSUME NEW c \in Command, UNCHANGED contended,
             Get(c) \/ Restop(c) \/ Remove(c) \/ Create(c)
      PROVE  MapIsSound'
  BY <1>1 DEF Get, Restop, Remove, Create
<1>2. ASSUME NEW c \in Command, UNCHANGED contended,
             ConnectOk(c) \/ ConnectFailed(c) \/ Insert(c)
      PROVE  MapIsSound'
  BY <1>2 DEF ConnectOk, ConnectFailed, Insert
<1>3. ASSUME NEW c \in Command, UNCHANGED contended,
             Take(c) \/ StopTaken(c) \/ StopReturns(c)
      PROVE  MapIsSound'
  BY <1>3 DEF Take, StopTaken, StopReturns
<1>4. ASSUME NEW c \in Command, UNCHANGED contended,
             DeleteTake(c) \/ DeleteStop(c) \/ Erase(c)
      PROVE  MapIsSound'
  BY <1>4 DEF DeleteTake, DeleteStop, Erase, DeleteSessions, SaveJson,
              SaveJsonFails
<1>5. ASSUME NEW c \in Command, NEW u \in Uid, StartSession(c, u) \/ Stop(c, u)
      PROVE  MapIsSound'
  BY <1>5 DEF StartSession, Stop, Call
<1>6. ASSUME NEW c \in Command, NEW us \in SUBSET Uid, StopAll(c) \/ Delete(c, us)
      PROVE  MapIsSound'
  BY <1>6 DEF StopAll, Delete, Call
<1>7. CASE Edit \/ Restart
  BY <1>7 DEF Edit, SaveSession, ReorderSessions, SaveJson, SaveJsonFails,
              commandVars, Restart, Reopen, LoadJson, LoadJsonFails
<1>8. CASE UNCHANGED vars
  BY <1>8 DEF vars
<1> HIDE DEF TypeOK, MapIsSound
<1> QED
  BY <1>1, <1>2, <1>3, <1>4, <1>5, <1>6, <1>7, <1>8 DEF Next, Step

(* A call that overlaps a start is noted when it is made.                    *)
LEMMA AloneStep ==
    ASSUME TypeOK, Steps, Uncontended, [Next]_vars
    PROVE  Alone'
<1> USE ManagerAssumption
    DEF TypeOK, Steps, Uncontended, Hands, Alone, Goto, Return, StopSession,
        Session, Starting, Stopping, Deleting, storeVars, sessionVars
<1>1. ASSUME NEW c \in Command, UNCHANGED contended,
             Get(c) \/ Restop(c) \/ Remove(c) \/ Create(c)
      PROVE  Alone'
  BY <1>1 DEF Get, Restop, Remove, Create
<1>2. ASSUME NEW c \in Command, UNCHANGED contended,
             ConnectOk(c) \/ ConnectFailed(c) \/ Insert(c)
      PROVE  Alone'
  BY <1>2 DEF ConnectOk, ConnectFailed, Insert
<1>3. ASSUME NEW c \in Command, UNCHANGED contended,
             Take(c) \/ StopTaken(c) \/ StopReturns(c)
      PROVE  Alone'
  BY <1>3 DEF Take, StopTaken, StopReturns
<1>4. ASSUME NEW c \in Command, UNCHANGED contended,
             DeleteTake(c) \/ DeleteStop(c) \/ Erase(c)
      PROVE  Alone'
  BY <1>4 DEF DeleteTake, DeleteStop, Erase, DeleteSessions, SaveJson,
              SaveJsonFails
<1>5. ASSUME NEW c \in Command, NEW u \in Uid, StartSession(c, u) \/ Stop(c, u)
      PROVE  Alone'
  BY <1>5 DEF StartSession, Stop, Call, InFlight, StartIsOne
<1>6. ASSUME NEW c \in Command, NEW us \in SUBSET Uid, StopAll(c) \/ Delete(c, us)
      PROVE  Alone'
  <2>1. CASE StopAll(c)
    BY <2>1 DEF StopAll, Call, InFlight, StartIsOne
  <2>2. CASE Delete(c, us)
    BY <2>2 DEF Delete, Call, InFlight, StartIsOne
  <2> QED
    BY <1>6, <2>1, <2>2
<1>7. CASE Edit \/ Restart
  BY <1>7 DEF Edit, SaveSession, ReorderSessions, SaveJson, SaveJsonFails,
              commandVars, Restart, Reopen, LoadJson, LoadJsonFails
<1>8. CASE UNCHANGED vars
  BY <1>8 DEF vars
<1> HIDE DEF TypeOK, Alone
<1> QED
  BY <1>1, <1>2, <1>3, <1>4, <1>5, <1>6, <1>7, <1>8 DEF Next, Step

(* No other command changes the map where a start is alone.                  *)
LEMMA StartKnowsMapStep ==
    ASSUME TypeOK, Steps, Sessions, Uncontended, [Next]_vars
    PROVE  StartKnowsMap'
<1> USE ManagerAssumption
    DEF TypeOK, Steps, Sessions, Uncontended, Hands, StartKnowsMap, Alone,
        MapIsSound, Goto, Return, StopSession, Session, Starting, Stopping,
        Deleting, storeVars, sessionVars
<1>1. ASSUME NEW c \in Command, UNCHANGED contended,
             Get(c) \/ Restop(c) \/ Remove(c) \/ Create(c)
      PROVE  StartKnowsMap'
  BY <1>1 DEF Get, Restop, Remove, Create
<1>2. ASSUME NEW c \in Command, UNCHANGED contended,
             ConnectOk(c) \/ ConnectFailed(c) \/ Insert(c)
      PROVE  StartKnowsMap'
  BY <1>2 DEF ConnectOk, ConnectFailed, Insert
<1>3. ASSUME NEW c \in Command, UNCHANGED contended,
             Take(c) \/ StopTaken(c) \/ StopReturns(c)
      PROVE  StartKnowsMap'
  BY <1>3 DEF Take, StopTaken, StopReturns
<1>4. ASSUME NEW c \in Command, UNCHANGED contended,
             DeleteTake(c) \/ DeleteStop(c) \/ Erase(c)
      PROVE  StartKnowsMap'
  BY <1>4 DEF DeleteTake, DeleteStop, Erase, DeleteSessions, SaveJson,
              SaveJsonFails
<1>5. ASSUME NEW c \in Command, NEW u \in Uid, StartSession(c, u) \/ Stop(c, u)
      PROVE  StartKnowsMap'
  BY <1>5 DEF StartSession, Stop, Call, InFlight, StartIsOne
<1>6. ASSUME NEW c \in Command, NEW us \in SUBSET Uid, StopAll(c) \/ Delete(c, us)
      PROVE  StartKnowsMap'
  BY <1>6 DEF StopAll, Delete, Call, InFlight, StartIsOne
<1>7. CASE Edit \/ Restart
  BY <1>7 DEF Edit, SaveSession, ReorderSessions, SaveJson, SaveJsonFails,
              commandVars, Restart, Reopen, LoadJson, LoadJsonFails
<1>8. CASE UNCHANGED vars
  BY <1>8 DEF vars
<1> HIDE DEF TypeOK, StartKnowsMap
<1> QED
  BY <1>1, <1>2, <1>3, <1>4, <1>5, <1>6, <1>7, <1>8 DEF Next, Step

(* A session leaves the map for the hands of a command that stops it.        *)
LEMMA ReachableStep ==
    ASSUME TypeOK, Steps, Sessions, Uncontended, [Next]_vars
    PROVE  Reachable'
<1> USE ManagerAssumption
    DEF TypeOK, Steps, Sessions, Uncontended, Hands, Reachable, StartKnowsMap,
        HeldIsOwned, MapIsSound, UnbornLast, NewIsPrivate, Goto, Return,
        StopSession, Session, Starting, Stopping, Deleting, storeVars,
        sessionVars
<1>1. ASSUME NEW c \in Command, UNCHANGED contended,
             Get(c)
      PROVE  Reachable'
  <2>1. held[c] = {} /\ UNCHANGED <<life, owner, map>>
    BY <1>1 DEF Get
  <2>2. \A d \in Command \ {c} : at'[d] = at[d] /\ held'[d] = held[d]
    BY <1>1 DEF Get
  <2> QED
    BY <1>1, <2>1, <2>2
<1>2. ASSUME NEW c \in Command, UNCHANGED contended,
             Restop(c)
      PROVE  Reachable'
  BY <1>2 DEF Restop
<1>3. ASSUME NEW c \in Command, UNCHANGED contended,
             Remove(c)
      PROVE  Reachable'
  BY <1>3 DEF Remove
<1>4. ASSUME NEW c \in Command, UNCHANGED contended,
             Create(c)
      PROVE  Reachable'
  BY <1>4 DEF Create
<1>5. ASSUME NEW c \in Command, UNCHANGED contended,
             ConnectOk(c)
      PROVE  Reachable'
  BY <1>5 DEF ConnectOk
<1>6. ASSUME NEW c \in Command, UNCHANGED contended,
             Insert(c)
      PROVE  Reachable'
  BY <1>6 DEF Insert
<1>7. ASSUME NEW c \in Command, UNCHANGED contended,
             ConnectFailed(c)
      PROVE  Reachable'
  BY <1>7 DEF ConnectFailed
<1>8. ASSUME NEW c \in Command, UNCHANGED contended,
             Take(c)
      PROVE  Reachable'
  BY <1>8 DEF Take
<1>9. ASSUME NEW c \in Command, UNCHANGED contended,
             StopTaken(c)
      PROVE  Reachable'
  BY <1>9 DEF StopTaken
<1>10. ASSUME NEW c \in Command, UNCHANGED contended,
             StopReturns(c)
      PROVE  Reachable'
  BY <1>10 DEF StopReturns
<1>11. ASSUME NEW c \in Command, UNCHANGED contended,
             DeleteTake(c)
      PROVE  Reachable'
  BY <1>11 DEF DeleteTake
<1>12. ASSUME NEW c \in Command, UNCHANGED contended,
             DeleteStop(c)
      PROVE  Reachable'
  BY <1>12 DEF DeleteStop
<1>13. ASSUME NEW c \in Command, UNCHANGED contended,
             Erase(c)
      PROVE  Reachable'
  BY <1>13 DEF Erase, DeleteSessions, SaveJson, SaveJsonFails
<1>14. ASSUME NEW c \in Command, NEW u \in Uid, StartSession(c, u) \/ Stop(c, u)
      PROVE  Reachable'
  BY <1>14 DEF StartSession, Stop, Call, InFlight, StartIsOne
<1>15. ASSUME NEW c \in Command, NEW us \in SUBSET Uid, StopAll(c) \/ Delete(c, us)
      PROVE  Reachable'
  BY <1>15 DEF StopAll, Delete, Call, InFlight, StartIsOne
<1>16. CASE Edit \/ Restart
  BY <1>16 DEF Edit, SaveSession, ReorderSessions, SaveJson, SaveJsonFails,
              commandVars, Restart, Reopen, LoadJson, LoadJsonFails
<1>17. CASE UNCHANGED vars
  BY <1>17 DEF vars
<1> HIDE DEF TypeOK, Reachable
<1> QED
  BY <1>1, <1>2, <1>3, <1>4, <1>5, <1>6, <1>7, <1>8, <1>9, <1>10, <1>11, <1>12,
     <1>13, <1>14, <1>15, <1>16, <1>17 DEF Next, Step

(* A start that is alone has stopped what ran before it connects.            *)
LEMMA OneOwnerStep ==
    ASSUME TypeOK, Steps, Sessions, Uncontended, [Next]_vars
    PROVE  OneOwner'
<1> USE ManagerAssumption
    DEF TypeOK, Steps, Sessions, Uncontended, Hands, OneOwner, Reachable,
        Alone, StartKnowsMap, HeldIsOwned, NewIsPrivate, UnbornLast, Goto,
        Return, StopSession, Session, Starting, Stopping, Deleting, storeVars,
        sessionVars
<1>1. ASSUME NEW c \in Command, UNCHANGED contended,
             Get(c) \/ Restop(c) \/ Remove(c) \/ Create(c)
      PROVE  OneOwner'
  BY <1>1 DEF Get, Restop, Remove, Create
<1>2. ASSUME NEW c \in Command, UNCHANGED contended,
             ConnectOk(c) \/ ConnectFailed(c) \/ Insert(c)
      PROVE  OneOwner'
  BY <1>2 DEF ConnectOk, ConnectFailed, Insert
<1>3. ASSUME NEW c \in Command, UNCHANGED contended,
             Take(c) \/ StopTaken(c) \/ StopReturns(c)
      PROVE  OneOwner'
  BY <1>3 DEF Take, StopTaken, StopReturns
<1>4. ASSUME NEW c \in Command, UNCHANGED contended,
             DeleteTake(c) \/ DeleteStop(c) \/ Erase(c)
      PROVE  OneOwner'
  BY <1>4 DEF DeleteTake, DeleteStop, Erase, DeleteSessions, SaveJson,
              SaveJsonFails
<1>5. ASSUME NEW c \in Command, NEW u \in Uid, StartSession(c, u) \/ Stop(c, u)
      PROVE  OneOwner'
  BY <1>5 DEF StartSession, Stop, Call, InFlight, StartIsOne
<1>6. ASSUME NEW c \in Command, NEW us \in SUBSET Uid, StopAll(c) \/ Delete(c, us)
      PROVE  OneOwner'
  BY <1>6 DEF StopAll, Delete, Call, InFlight, StartIsOne
<1>7. CASE Edit \/ Restart
  BY <1>7 DEF Edit, SaveSession, ReorderSessions, SaveJson, SaveJsonFails,
              commandVars, Restart, Reopen, LoadJson, LoadJsonFails
<1>8. CASE UNCHANGED vars
  BY <1>8 DEF vars
<1> HIDE DEF TypeOK, OneOwner
<1> QED
  BY <1>1, <1>2, <1>3, <1>4, <1>5, <1>6, <1>7, <1>8 DEF Next, Step

(* Nothing is inserted for a configuration that is being deleted.            *)
LEMMA DeletedLeavesMapStep ==
    ASSUME TypeOK, Steps, Uncontended, [Next]_vars
    PROVE  DeletedLeavesMap'
<1> USE ManagerAssumption
    DEF TypeOK, Steps, Uncontended, Hands, DeletedLeavesMap, Alone, Goto,
        Return, StopSession, Session, Starting, Stopping, Deleting, storeVars,
        sessionVars
<1>1. ASSUME NEW c \in Command, UNCHANGED contended,
             Get(c) \/ Restop(c) \/ Remove(c) \/ Create(c)
      PROVE  DeletedLeavesMap'
  BY <1>1 DEF Get, Restop, Remove, Create
<1>2. ASSUME NEW c \in Command, UNCHANGED contended,
             ConnectOk(c) \/ ConnectFailed(c) \/ Insert(c)
      PROVE  DeletedLeavesMap'
  BY <1>2 DEF ConnectOk, ConnectFailed, Insert
<1>3. ASSUME NEW c \in Command, UNCHANGED contended,
             Take(c) \/ StopTaken(c) \/ StopReturns(c)
      PROVE  DeletedLeavesMap'
  BY <1>3 DEF Take, StopTaken, StopReturns
<1>4. ASSUME NEW c \in Command, UNCHANGED contended,
             DeleteTake(c)
      PROVE  DeletedLeavesMap'
  BY <1>4 DEF DeleteTake
<1>5. ASSUME NEW c \in Command, UNCHANGED contended,
             DeleteStop(c)
      PROVE  DeletedLeavesMap'
  BY <1>5 DEF DeleteStop
<1>6. ASSUME NEW c \in Command, UNCHANGED contended,
             Erase(c)
      PROVE  DeletedLeavesMap'
  BY <1>6 DEF Erase, DeleteSessions, SaveJson, SaveJsonFails
<1>7. ASSUME NEW c \in Command, NEW u \in Uid, StartSession(c, u) \/ Stop(c, u)
      PROVE  DeletedLeavesMap'
  BY <1>7 DEF StartSession, Stop, Call, InFlight, StartIsOne
<1>8. ASSUME NEW c \in Command, NEW us \in SUBSET Uid, StopAll(c) \/ Delete(c, us)
      PROVE  DeletedLeavesMap'
  BY <1>8 DEF StopAll, Delete, Call, InFlight, StartIsOne
<1>9. CASE Edit \/ Restart
  BY <1>9 DEF Edit, SaveSession, ReorderSessions, SaveJson, SaveJsonFails,
              commandVars, Restart, Reopen, LoadJson, LoadJsonFails
<1>10. CASE UNCHANGED vars
  BY <1>10 DEF vars
<1> HIDE DEF TypeOK, DeletedLeavesMap
<1> QED
  BY <1>1, <1>2, <1>3, <1>4, <1>5, <1>6, <1>7, <1>8, <1>9, <1>10 DEF Next, Step

(* A configuration that is erased during its start is contended.             *)
LEMMA StartIsStoredStep ==
    ASSUME TypeOK, Steps, Uncontended, [Next]_vars
    PROVE  StartIsStored'
<1> USE ManagerAssumption
    DEF TypeOK, Steps, Uncontended, Hands, StartIsStored, Alone, Goto, Return,
        StopSession, Session, Starting, Stopping, Deleting, storeVars,
        sessionVars, StoreTypeOK
<1>1. ASSUME NEW c \in Command, UNCHANGED contended,
             Get(c) \/ Restop(c) \/ Remove(c) \/ Create(c)
      PROVE  StartIsStored'
  BY <1>1 DEF Get, Restop, Remove, Create
<1>2. ASSUME NEW c \in Command, UNCHANGED contended,
             ConnectOk(c) \/ ConnectFailed(c) \/ Insert(c)
      PROVE  StartIsStored'
  BY <1>2 DEF ConnectOk, ConnectFailed, Insert
<1>3. ASSUME NEW c \in Command, UNCHANGED contended,
             Take(c) \/ StopTaken(c) \/ StopReturns(c)
      PROVE  StartIsStored'
  BY <1>3 DEF Take, StopTaken, StopReturns
<1>4. ASSUME NEW c \in Command, UNCHANGED contended,
             DeleteTake(c) \/ DeleteStop(c) \/ Erase(c)
      PROVE  StartIsStored'
  BY <1>4 DEF DeleteTake, DeleteStop, Erase, DeleteSessions, SaveJson,
              SaveJsonFails
<1>5. ASSUME NEW c \in Command, NEW u \in Uid, StartSession(c, u) \/ Stop(c, u)
      PROVE  StartIsStored'
  BY <1>5 DEF StartSession, Stop, Call, InFlight, StartIsOne
<1>6. ASSUME NEW c \in Command, NEW us \in SUBSET Uid, StopAll(c) \/ Delete(c, us)
      PROVE  StartIsStored'
  BY <1>6 DEF StopAll, Delete, Call, InFlight, StartIsOne
<1>7. CASE Edit \/ Restart
  BY <1>7 DEF Edit, SaveSession, ReorderSessions, SaveJson, SaveJsonFails,
              commandVars, Restart, Reopen, LoadJson, LoadJsonFails
<1>8. CASE UNCHANGED vars
  BY <1>8 DEF vars
<1> HIDE DEF TypeOK, StartIsStored
<1> QED
  BY <1>1, <1>2, <1>3, <1>4, <1>5, <1>6, <1>7, <1>8 DEF Next, Step

(* What leaves the store has left the map.                                   *)
LEMMA GoneIsUnmappedStep ==
    ASSUME TypeOK, Steps, Uncontended, [Next]_vars
    PROVE  GoneIsUnmapped'
<1> USE ManagerAssumption
    DEF TypeOK, Steps, Uncontended, Hands, GoneIsUnmapped, StartIsStored,
        DeletedLeavesMap, Goto, Return, StopSession, Session, Starting,
        Stopping, Deleting, storeVars, sessionVars, StoreTypeOK
<1>1. ASSUME NEW c \in Command, UNCHANGED contended,
             Get(c) \/ Restop(c) \/ Remove(c) \/ Create(c)
      PROVE  GoneIsUnmapped'
  BY <1>1 DEF Get, Restop, Remove, Create
<1>2. ASSUME NEW c \in Command, UNCHANGED contended,
             ConnectOk(c) \/ ConnectFailed(c) \/ Insert(c)
      PROVE  GoneIsUnmapped'
  BY <1>2 DEF ConnectOk, ConnectFailed, Insert
<1>3. ASSUME NEW c \in Command, UNCHANGED contended,
             Take(c) \/ StopTaken(c) \/ StopReturns(c)
      PROVE  GoneIsUnmapped'
  BY <1>3 DEF Take, StopTaken, StopReturns
<1>4. ASSUME NEW c \in Command, UNCHANGED contended,
             DeleteTake(c) \/ DeleteStop(c) \/ Erase(c)
      PROVE  GoneIsUnmapped'
  BY <1>4 DEF DeleteTake, DeleteStop, Erase, DeleteSessions, SaveJson,
              SaveJsonFails
<1>5. ASSUME NEW c \in Command, NEW u \in Uid, StartSession(c, u) \/ Stop(c, u)
      PROVE  GoneIsUnmapped'
  BY <1>5 DEF StartSession, Stop, Call, InFlight, StartIsOne
<1>6. ASSUME NEW c \in Command, NEW us \in SUBSET Uid, StopAll(c) \/ Delete(c, us)
      PROVE  GoneIsUnmapped'
  BY <1>6 DEF StopAll, Delete, Call, InFlight, StartIsOne
<1>7. CASE Edit \/ Restart
  BY <1>7 DEF Edit, SaveSession, ReorderSessions, SaveJson, SaveJsonFails,
              commandVars, Restart, Reopen, LoadJson, LoadJsonFails
<1>8. CASE UNCHANGED vars
  BY <1>8 DEF vars
<1> HIDE DEF TypeOK, GoneIsUnmapped
<1> QED
  BY <1>1, <1>2, <1>3, <1>4, <1>5, <1>6, <1>7, <1>8 DEF Next, Step

(* The file is written whole, from what the store holds: what it held and    *)
(* the store does not is lost.  If it is not written nothing is.             *)
LEMMA ChangeAcknowledged ==
    ASSUME TypeOK, AcknowledgedSurvives, NEW us \in SUBSET Uid, NEW what,
           \A u \in Uid \ us : u \in store' <=> u \in store,
           what = "kept" => us \subseteq store', what = "gone" => us \cap store' = {},
           what \in {"kept", "gone", "open"},
           SaveJson(store', us, what) \/ SaveJsonFails(us)
    PROVE  AcknowledgedSurvives'
<1> USE DEF TypeOK, StoreTypeOK, Promises, AcknowledgedSurvives
<1>1. CASE SaveJson(store', us, what)
  BY <1>1 DEF SaveJson
<1>2. CASE SaveJsonFails(us)
  BY <1>2 DEF SaveJsonFails
<1> QED
  BY <1>1, <1>2

LEMMA AcknowledgedStep ==
    ASSUME TypeOK, AcknowledgedSurvives, [Next]_vars
    PROVE  AcknowledgedSurvives'
<1>1. CASE UNCHANGED storeVars
  BY <1>1 DEF storeVars, AcknowledgedSurvives
<1>2. ASSUME NEW c \in Command, Erase(c)
      PROVE  AcknowledgedSurvives'
  BY <1>2, ChangeAcknowledged DEF Erase, DeleteSessions, TypeOK
<1>3. CASE \E u \in Uid : SaveSession(u)
  BY <1>3, ChangeAcknowledged DEF SaveSession
<1>4. CASE ReorderSessions
  <2>1. /\ store' = store
        /\ SaveJson(store', {}, "open") \/ SaveJsonFails({})
    BY <1>4 DEF ReorderSessions
  <2> QED
    BY <2>1, ChangeAcknowledged
<1>5. CASE Restart
  <2> USE DEF TypeOK, StoreTypeOK, Promises, AcknowledgedSurvives
  <2>1. /\ disk' = disk
        /\ LoadJson \/ LoadJsonFails
    BY <1>5 DEF Restart, Reopen, AfterCrash
  <2>2. CASE LoadJson
    BY <2>1, <2>2 DEF LoadJson
  <2>3. CASE LoadJsonFails
    BY <2>1, <2>3 DEF LoadJsonFails
  <2> QED
    BY <2>1, <2>2, <2>3
<1> QED
  BY <1>1, <1>2, <1>3, <1>4, <1>5, StoreStep DEF Edit

-----------------------------------------------------------------------------
(* The types and the invariant hold initially.                               *)
LEMMA InitIInv == Init => TypeOK /\ IInv
<1> SUFFICES ASSUME Init PROVE TypeOK /\ IInv
  OBVIOUS
<1> USE ManagerAssumption DEF Init, StoreInit
<1>1. TypeOK
  BY DEF TypeOK, StoreTypeOK, Promises, Session
<1>2. Bounded
  <2>1. Committing = {}
    BY DEF Committing
  <2> QED
    BY <2>1, FS_EmptySet DEF Bounded
<1>3. Steps
  BY DEF Steps, Hands, Starting, Deleting
<1>4. Sessions
  BY DEF Sessions, UnbornLast, HeldIsOwned, NewIsPrivate, MapIsSound
<1>5. Uncontended
  BY DEF Uncontended, Alone, StartKnowsMap, Reachable, OneOwner,
         DeletedLeavesMap, StartIsStored, GoneIsUnmapped
<1>6. AcknowledgedSurvives
  BY DEF AcknowledgedSurvives
<1> QED
  BY <1>1, <1>2, <1>3, <1>4, <1>5, <1>6 DEF IInv

(* Every step preserves the types and the invariant.                         *)
LEMMA NextIInv == TypeOK /\ IInv /\ [Next]_vars => TypeOK' /\ IInv'
<1> SUFFICES ASSUME TypeOK, IInv, [Next]_vars PROVE TypeOK' /\ IInv'
  OBVIOUS
<1>1. Bounded /\ Steps /\ Sessions /\ Uncontended /\ AcknowledgedSurvives
  BY DEF IInv
<1>2. TypeOK' /\ Bounded'
  BY <1>1, TypeStep, BoundedStep
<1>3. Steps'
  BY <1>1, HandsStep
<1>4. Sessions'
  BY <1>1, UnbornLastStep, HeldIsOwnedStep, NewIsPrivateStep, MapIsSoundStep
     DEF Sessions
<1>5. Uncontended'
  BY <1>1, AloneStep, StartKnowsMapStep, ReachableStep, OneOwnerStep,
     DeletedLeavesMapStep, StartIsStoredStep, GoneIsUnmappedStep
     DEF Uncontended
<1>6. AcknowledgedSurvives'
  BY <1>1, AcknowledgedStep
<1> QED
  BY <1>2, <1>3, <1>4, <1>5, <1>6 DEF IInv

(* The manager's variables keep their types: no more sessions are created    *)
(* than there are numbers for.                                               *)
THEOREM TypeCorrect == Spec => []TypeOK
BY InitIInv, NextIInv, PTL DEF Spec

(* The inductive invariant holds in every reachable state.                   *)
THEOREM Inductive == Spec => []IInv
BY InitIInv, NextIInv, PTL DEF Spec

-----------------------------------------------------------------------------
(* The map holds sessions of the configurations they stand under, started    *)
(* and never failed.                                                         *)
THEOREM MapSoundness == Spec => []MapIsSound
<1>1. IInv => MapIsSound
  BY DEF IInv, Sessions
<1> QED
  BY Inductive, <1>1, PTL

(* Sessions without a command that works on them are in nobody's hands.      *)
LEMMA QuietIsUnheld ==
    ASSUME Steps, Sessions, NEW u \in Uid, InFlight({u}) = {}
    PROVE  \A c \in Command : \A s \in held[c] : owner[s] # u
<1> SUFFICES ASSUME NEW c \in Command, NEW s \in held[c], owner[s] = u
             PROVE  FALSE
  OBVIOUS
<1>1. u \in uids[c]
  BY DEF Sessions, HeldIsOwned
<1>2. at[c] # "idle"
  BY <1>1 DEF Steps, Hands
<1> QED
  BY <1>1, <1>2 DEF InFlight

(* Of a configuration that no two commands have worked on at once, what runs *)
(* is what the map holds whenever no command is under way.                   *)
LEMMA HeldWhenUncontended ==
    ASSUME Steps, Sessions, Uncontended, NEW u \in Uid \ contended
    PROVE  HeldWhenQuiet(u)
<1> SUFFICES ASSUME InFlight({u}) = {}, NEW s \in Running(u)
             PROVE  s = map[u]
  BY DEF HeldWhenQuiet
<1>1. s \in Session /\ owner[s] = u /\ life[s] = "running"
  BY DEF Running
<1> QED
  BY <1>1, QuietIsUnheld DEF Uncontended, Reachable

(* When no command works on a configuration its running sessions are in the  *)
(* map, unless a start overlapped another command for it.                    *)
THEOREM NoneOutOfReach == Spec => []HoldsEveryRunningUncontended
<1>1. IInv => HoldsEveryRunningUncontended
  BY HeldWhenUncontended DEF IInv, HoldsEveryRunningUncontended
<1> QED
  BY Inductive, <1>1, PTL

(* Unless a start overlapped another command, a configuration has one        *)
(* running session at most, in the middle of a restart too.                  *)
THEOREM OneAtATime == Spec => []OneRunning
<1>1. IInv => OneRunning
  <2> SUFFICES ASSUME IInv, NEW u \in Uid \ contended
               PROVE  Cardinality(Running(u)) <= 1
    BY DEF OneRunning
  <2>1. \A s, t \in Running(u) : s = t
    BY DEF IInv, Uncontended, OneOwner, Running
  <2>2. Running(u) = {} \/ \E s : Running(u) = {s}
    BY <2>1
  <2>3. CASE Running(u) = {}
    BY <2>3, FS_EmptySet
  <2>4. ASSUME NEW s, Running(u) = {s}
        PROVE  Cardinality(Running(u)) <= 1
    <3>1. Cardinality({s}) = 1
      BY FS_Singleton
    <3> QED
      BY <2>4, <3>1
  <2> QED
    BY <2>2, <2>3, <2>4
<1> QED
  BY Inductive, <1>1, PTL

(* A configuration that has been deleted runs nothing, unless a start        *)
(* overlapped the delete.                                                    *)
THEOREM DeletedRunsNothing == Spec => []DeletedIsStopped
<1>1. TypeOK /\ IInv => DeletedIsStopped
  <2> SUFFICES ASSUME IInv, NEW u \in Uid \ (store \cup contended),
                      InFlight({u}) = {}
               PROVE  Running(u) = {}
    BY DEF DeletedIsStopped
  <2>1. Running(u) \subseteq {map[u]}
    BY HeldWhenUncontended DEF IInv, HeldWhenQuiet
  <2>2. map[u] = None
    BY DEF IInv, Uncontended, GoneIsUnmapped
  <2>3. None \notin Running(u)
    BY ManagerAssumption DEF Running, Session
  <2> QED
    BY <2>1, <2>2, <2>3
<1> QED
  BY TypeCorrect, Inductive, <1>1, PTL

(* What the store has answered survives failing writes and crashes for as    *)
(* long as the file can be read.  A start that cannot read it shows none of  *)
(* what was kept, which stays in the file until a change is written over it  *)
(* (load_json and save_json in config.rs).                                   *)
THEOREM Durable == Spec => []AcknowledgedSurvives
<1>1. IInv => AcknowledgedSurvives
  BY DEF IInv
<1> QED
  BY Inductive, <1>1, PTL

=============================================================================
