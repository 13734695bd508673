---------------------------- MODULE Client_proofs ----------------------------
(* Proofs about ClientSession, and about ClientRestart where one replaces    *)
(* another, for every auto_reconnect, reconnect_max and bound on the attempt *)
(* counter.                                                                  *)

EXTENDS ClientRestart, TLAPS

(* What UiAgrees and StoppedStaysOffline rest on: the flag is up only while  *)
(* the task holds a connection, and only stop() cancels.                     *)
OnlineWhileServing == online => pc \in {"connected", "writing", "closing"}

CancelledByStop == cancelled <=> stop # "idle"

StoppedIsOffline == stop = "returned" => ~online

(* What the interface counts, for as long as nobody has called stop():       *)
(* attempt is the number of the round that is shown or is announced next.    *)
RoundIsAttempt ==
    ~cancelled =>
        /\ pc \in {"new", "starting", "loop", "mark", "sleeping", "announce"}
               => attempt = uiRound + 1
        /\ pc = "connecting" => attempt = uiRound
        /\ pc \in {"connected", "writing", "closing", "served"}
               => uiRound = 0

(* A round is begun only within the limit.                                   *)
RoundWithinLimit ==
    ReconnectMax > 0 /\ pc \in {"mark", "sleeping", "announce"}
        => attempt <= ReconnectMax

(* The task serves a connection that the session does not call online only   *)
(* when stop() has taken it over, and its end leaves nothing online.         *)
ServedIsOnline ==
    /\ pc \in {"connected", "writing", "closing"} => online \/ stop = "returned"
    /\ pc = "done" => ~online

IInv ==
    /\ UiAgrees
    /\ ServedIsOnline
    /\ RetriesEnd
    /\ OnlineWhileServing
    /\ CancelledByStop
    /\ StoppedIsOffline
    /\ RoundIsAttempt
    /\ RoundWithinLimit

-----------------------------------------------------------------------------
(* Every variable keeps its type: the flags first, then the rest.            *)
FlagsOK ==
    /\ cancelled \in BOOLEAN
    /\ online \in BOOLEAN
    /\ reconnecting \in BOOLEAN
    /\ uiOnline \in BOOLEAN

PlacesOK ==
    /\ pc \in Starting \cup Serving \cup Retrying \cup {"done"}
    /\ attempt \in Nat
    /\ stop \in {"idle", "cancelled", "returned"}
    /\ uiRound \in Nat

(* Every step leaves the flags flags.                                        *)
LEMMA FlagsStep == FlagsOK /\ [Next]_vars => FlagsOK'
<1> SUFFICES ASSUME FlagsOK, [Next]_vars PROVE FlagsOK'
  OBVIOUS
<1> USE DEF FlagsOK, taskVars, lockVars, uiVars, EmitOnline, EmitOffline,
            EmitReconnecting
<1>1. CASE Start \/ StartConnected \/ StartFailed
  BY <1>1 DEF Start, StartConnected, StartFailed
<1>2. CASE Serve \/ Drop \/ BeginWrite
  BY <1>2 DEF Serve, Publish, PublishSkipped, SeesCancel, EndWrite, Cleanup,
              AfterServe, Drop, BeginWrite
<1>3. CASE ReconnectLoop \/ Connected
  BY <1>3 DEF ReconnectLoop, LoopTop, GiveUp, GiveUpEmit, Mark, Wake,
              SleepCancelled, Announce, ConnectFailed, ConnectCancelled,
              Connected
<1>4. CASE Stop
  BY <1>4 DEF Stop, StopCancel, StopLocked
<1>5. CASE UNCHANGED vars
  BY <1>5 DEF vars
<1> QED
  BY <1>1, <1>2, <1>3, <1>4, <1>5 DEF Next, Terminated

(* Every step leaves the task, stop() and the counters in their ranges.      *)
LEMMA PlacesStep == PlacesOK /\ [Next]_vars => PlacesOK'
<1> SUFFICES ASSUME PlacesOK, [Next]_vars PROVE PlacesOK'
  OBVIOUS
<1> USE DEF PlacesOK, Starting, Serving, Retrying, taskVars, lockVars, uiVars,
            EmitOnline, EmitOffline, EmitReconnecting
<1>1. CASE Start \/ StartConnected \/ StartFailed
  BY <1>1 DEF Start, StartConnected, StartFailed
<1>2. CASE Serve \/ Drop \/ BeginWrite
  BY <1>2 DEF Serve, Publish, PublishSkipped, SeesCancel, EndWrite, Cleanup,
              AfterServe, Drop, BeginWrite
<1>3. CASE ReconnectLoop \/ Connected
  BY <1>3 DEF ReconnectLoop, LoopTop, GiveUp, GiveUpEmit, Mark, Wake,
              SleepCancelled, Announce, ConnectFailed, ConnectCancelled,
              Connected
<1>4. CASE Stop
  BY <1>4 DEF Stop, StopCancel, StopLocked
<1>5. CASE UNCHANGED vars
  BY <1>5 DEF vars
<1> QED
  BY <1>1, <1>2, <1>3, <1>4, <1>5 DEF Next, Terminated

(* The two parts are the type invariant.                                     *)
LEMMA TypeParts == TypeOK <=> FlagsOK /\ PlacesOK
BY DEF TypeOK, FlagsOK, PlacesOK

(* The types hold initially.                                                 *)
LEMMA InitTypes == Init => FlagsOK /\ PlacesOK
<1>1. Init => FlagsOK
  BY DEF Init, FlagsOK
<1>2. Init => PlacesOK
  BY DEF Init, PlacesOK, Starting
<1> QED
  BY <1>1, <1>2

(* Every variable keeps its type, in every state of a client session.        *)
THEOREM TypeCorrect == Spec => []TypeOK
<1>1. Init => TypeOK
  BY InitTypes, TypeParts
<1>2. TypeOK /\ [Next]_vars => TypeOK'
  <2>1. TypeOK' <=> FlagsOK' /\ PlacesOK'
    BY DEF TypeOK, FlagsOK, PlacesOK
  <2> QED
    BY <2>1, TypeParts, FlagsStep, PlacesStep
<1> QED
  BY <1>1, <1>2, PTL DEF Spec

-----------------------------------------------------------------------------
(* IInv is inductive.  The steps are grouped by the part of the code that    *)
(* takes them.                                                               *)
LEMMA InitIInv == Init => IInv
BY ClientAssumption
   DEF Init, IInv, UiAgrees, ServedIsOnline, RetriesEnd,
       OnlineWhileServing, CancelledByStop, StoppedIsOffline,
       RoundIsAttempt, RoundWithinLimit, Starting

(* start() preserves the invariant.                                          *)
LEMMA StartIInv ==
    ASSUME TypeOK, IInv, Start \/ StartConnected \/ StartFailed
    PROVE  IInv'
<1> USE ClientAssumption
    DEF IInv, TypeOK, UiAgrees, ServedIsOnline, RetriesEnd,
        OnlineWhileServing, CancelledByStop, StoppedIsOffline, RoundIsAttempt,
        RoundWithinLimit, Starting, Serving, Retrying, lockVars, uiVars
<1>1. CASE Start
  BY <1>1 DEF Start
<1>2. CASE StartConnected
  BY <1>2 DEF StartConnected
<1>3. CASE StartFailed
  BY <1>3 DEF StartFailed
<1> QED
  BY <1>1, <1>2, <1>3

(* serve() preserves it: publishing looks at the token, and the cleanup      *)
(* clears the flag and tells of it in one step.                              *)
LEMMA ServeIInv ==
    ASSUME TypeOK, IInv, Serve \/ Drop \/ BeginWrite
    PROVE  IInv'
<1> USE ClientAssumption
    DEF IInv, TypeOK, UiAgrees, ServedIsOnline, RetriesEnd,
        OnlineWhileServing, CancelledByStop, StoppedIsOffline, RoundIsAttempt,
        RoundWithinLimit, Starting, Serving, Retrying, lockVars, uiVars
<1>1. CASE Publish
  BY <1>1 DEF Publish, EmitOnline
<1>2. CASE PublishSkipped
  BY <1>2 DEF PublishSkipped
<1>3. CASE SeesCancel
  BY <1>3 DEF SeesCancel
<1>4. CASE EndWrite
  BY <1>4 DEF EndWrite
<1>5. CASE Cleanup
  BY <1>5 DEF Cleanup, EmitOffline
<1>6. CASE AfterServe
  BY <1>6 DEF AfterServe
<1>7. CASE Drop
  BY <1>7 DEF Drop
<1>8. CASE BeginWrite
  BY <1>8 DEF BeginWrite
<1> QED
  BY <1>1, <1>2, <1>3, <1>4, <1>5, <1>6, <1>7, <1>8 DEF Serve

(* reconnect_loop() preserves it: the rounds are counted as they are         *)
(* announced, within the limit.                                              *)
LEMMA ReconnectIInv ==
    ASSUME TypeOK, IInv, ReconnectLoop \/ Connected
    PROVE  IInv'
<1> USE ClientAssumption
    DEF IInv, TypeOK, UiAgrees, ServedIsOnline, RetriesEnd,
        OnlineWhileServing, CancelledByStop, StoppedIsOffline, RoundIsAttempt,
        RoundWithinLimit, Starting, Serving, Retrying, lockVars, uiVars
<1>1. CASE LoopTop
  BY <1>1 DEF LoopTop, Exhausted
<1>2. CASE GiveUp
  BY <1>2 DEF GiveUp
<1>3. CASE GiveUpEmit
  BY <1>3 DEF GiveUpEmit, EmitOffline
<1>4. CASE Mark
  BY <1>4 DEF Mark
<1>5. CASE Wake
  BY <1>5 DEF Wake
<1>6. CASE SleepCancelled
  BY <1>6 DEF SleepCancelled
<1>7. CASE Announce
  BY <1>7 DEF Announce, EmitReconnecting
<1>8. CASE ConnectFailed
  BY <1>8 DEF ConnectFailed
<1>9. CASE ConnectCancelled
  BY <1>9 DEF ConnectCancelled
<1>10. CASE Connected
  BY <1>10 DEF Connected
<1> QED
  BY <1>1, <1>2, <1>3, <1>4, <1>5, <1>6, <1>7, <1>8, <1>9, <1>10
     DEF ReconnectLoop

(* stop() preserves it.                                                      *)
LEMMA StopIInv ==
    ASSUME TypeOK, IInv, Stop
    PROVE  IInv'
<1> USE ClientAssumption
    DEF IInv, TypeOK, UiAgrees, ServedIsOnline, RetriesEnd,
        OnlineWhileServing, CancelledByStop, StoppedIsOffline, RoundIsAttempt,
        RoundWithinLimit, Starting, Serving, Retrying, lockVars, uiVars,
        taskVars
<1>1. CASE StopCancel
  BY <1>1 DEF StopCancel
<1>2. CASE StopLocked
  BY <1>2 DEF StopLocked, EmitOffline
<1> QED
  BY <1>1, <1>2 DEF Stop

(* A step that changes nothing does.                                         *)
LEMMA StutterIInv ==
    ASSUME TypeOK, IInv, UNCHANGED vars
    PROVE  IInv'
BY DEF IInv, UiAgrees, ServedIsOnline, RetriesEnd,
       OnlineWhileServing, CancelledByStop, StoppedIsOffline, RoundIsAttempt,
       RoundWithinLimit, vars

(* Every step preserves the invariant.                                       *)
LEMMA NextIInv == TypeOK /\ IInv /\ [Next]_vars => IInv'
BY StartIInv, ServeIInv, ReconnectIInv, StopIInv, StutterIInv
   DEF Next, Terminated

(* The inductive invariant holds in every reachable state.                   *)
THEOREM Inductive == Spec => []IInv
BY TypeCorrect, InitIInv, NextIInv, PTL DEF Spec

-----------------------------------------------------------------------------
(* Online and Offline, emitted in the critical sections that change the      *)
(* flag, leave the interface agreeing with the session.                      *)
THEOREM UiAgreement == Spec => []UiAgrees
<1>1. IInv => UiAgrees
  BY DEF IInv
<1> QED
  BY Inductive, <1>1, PTL

(* After stop() has returned the session is and stays offline.               *)
THEOREM StopIsFinal == Spec => []StoppedStaysOffline
<1>1. IInv => StoppedStaysOffline
  BY DEF IInv, StoppedStaysOffline, StoppedIsOffline, UiAgrees
<1> QED
  BY Inductive, <1>1, PTL

(* No more rounds are announced than reconnect_max allows, and a loop that   *)
(* gives up leaves the interface idle.                                       *)
THEOREM RetryLimit == Spec => []RetriesEnd
<1>1. IInv => RetriesEnd
  BY DEF IInv
<1> QED
  BY Inductive, <1>1, PTL

-----------------------------------------------------------------------------
(* Step by step: what a cancelled session may not do, and how rounds count.  *)
OnlineStep ==
    cancelled => (~online => ~online') /\ (~uiOnline => ~uiOnline')

CountStep ==
    ~cancelled => uiRound' \in {0, 1, uiRound, uiRound + 1}

(* No step brings a session whose token is cancelled online: publish is the  *)
(* only one that could.                                                      *)
LEMMA OnlineStepHolds == [Next]_vars => OnlineStep
<1> SUFFICES ASSUME [Next]_vars PROVE OnlineStep
  OBVIOUS
<1> USE DEF OnlineStep, taskVars, lockVars, uiVars, EmitOnline, EmitOffline,
            EmitReconnecting
<1>1. CASE Start \/ StartConnected \/ StartFailed
  BY <1>1 DEF Start, StartConnected, StartFailed
<1>2. CASE Serve \/ Drop \/ BeginWrite
  BY <1>2 DEF Serve, Publish, PublishSkipped, SeesCancel, EndWrite, Cleanup,
              AfterServe, Drop, BeginWrite
<1>3. CASE ReconnectLoop \/ Connected
  BY <1>3 DEF ReconnectLoop, LoopTop, GiveUp, GiveUpEmit, Mark, Wake,
              SleepCancelled, Announce, ConnectFailed, ConnectCancelled,
              Connected
<1>4. CASE Stop
  BY <1>4 DEF Stop, StopCancel, StopLocked
<1>5. CASE UNCHANGED vars
  BY <1>5 DEF vars
<1> QED
  BY <1>1, <1>2, <1>3, <1>4, <1>5 DEF Next, Terminated

(* Every step of a session that is not cancelled leaves the round that is    *)
(* shown, ends it, or goes on to the next one.                               *)
LEMMA CountStepHolds == TypeOK /\ IInv /\ [Next]_vars => CountStep
<1> SUFFICES ASSUME TypeOK, IInv, [Next]_vars PROVE CountStep
  OBVIOUS
<1> USE DEF CountStep, TypeOK, IInv, RoundIsAttempt, taskVars, lockVars, uiVars,
            EmitOnline, EmitOffline, EmitReconnecting
<1>1. CASE Start \/ StartConnected \/ StartFailed
  BY <1>1 DEF Start, StartConnected, StartFailed
<1>2. CASE Serve \/ Drop \/ BeginWrite
  BY <1>2 DEF Serve, Publish, PublishSkipped, SeesCancel, EndWrite, Cleanup,
              AfterServe, Drop, BeginWrite
<1>3. CASE ReconnectLoop \/ Connected
  BY <1>3 DEF ReconnectLoop, LoopTop, GiveUp, GiveUpEmit, Mark, Wake,
              SleepCancelled, Announce, ConnectFailed, ConnectCancelled,
              Connected
<1>4. CASE Stop
  BY <1>4 DEF Stop, StopCancel, StopLocked
<1>5. CASE UNCHANGED vars
  BY <1>5 DEF vars
<1> QED
  BY <1>1, <1>2, <1>3, <1>4, <1>5 DEF Next, Terminated

(* Nothing brings a cancelled session online.                                *)
THEOREM NeverOnlineAfterCancel == Spec => NoOnlineAfterCancel
<1>1. [Next]_vars => [OnlineStep]_vars
  BY OnlineStepHolds
<1> QED
  BY <1>1, PTL DEF Spec, NoOnlineAfterCancel, OnlineStep

(* Until the session is stopped the rounds shown count up from one.          *)
THEOREM RoundsCount == Spec => RoundsCountUp
<1>1. TypeOK /\ IInv /\ [Next]_vars => [CountStep]_vars
  BY CountStepHolds
<1> QED
  BY <1>1, TypeCorrect, Inductive, PTL DEF Spec, RoundsCountUp, CountStep

-----------------------------------------------------------------------------
(* Every step of the client is a step of SessionLifecycle or leaves it as it *)
(* is: the flag with Open and Close, the interface with it, the token with   *)
(* Cancel.                                                                   *)
LEMMA OnlyStopCancels ==
    ASSUME [Next]_vars, ~StopCancel
    PROVE  cancelled' = cancelled
BY DEF Next, Terminated, vars, Start, StartConnected, StartFailed,
       Serve, Publish, PublishSkipped, SeesCancel, EndWrite, Cleanup,
       AfterServe, Drop, BeginWrite, ReconnectLoop, LoopTop, GiveUp,
       GiveUpEmit, Mark, Wake, SleepCancelled, Announce, ConnectFailed,
       ConnectCancelled, Connected, Stop, StopLocked

(* Every step is one of the life cycle of sessions or none that it sees.     *)
LEMMA LifecycleStep ==
    ASSUME FlagsOK, FlagsOK', UiAgrees, UiAgrees', OnlineStep, [Next]_vars
    PROVE  [Lifecycle!Next]_(Lifecycle!lifecycleVars)
<1> USE DEF FlagsOK, UiAgrees
<1>1. CASE StopCancel
  BY <1>1 DEF StopCancel, lockVars, uiVars, Lifecycle!Next, Lifecycle!Cancel
<1>2. CASE ~StopCancel
  <2>1. cancelled' = cancelled
    BY <1>2, OnlyStopCancels
  <2>2. CASE online <=> online'
    BY <2>1, <2>2 DEF Lifecycle!lifecycleVars
  <2>3. CASE ~online /\ online'
    BY <2>1, <2>3 DEF OnlineStep, Lifecycle!Next, Lifecycle!Open
  <2>4. CASE online /\ ~online'
    BY <2>1, <2>4 DEF Lifecycle!Next, Lifecycle!Close
  <2> QED
    BY <2>2, <2>3, <2>4
<1> QED
  BY <1>1, <1>2

(* The client session implements the promise every transport makes.          *)
THEOREM Refinement == Spec => ImplementsLifecycle
<1>1. Init => Lifecycle!Init
  BY DEF Init, Lifecycle!Init
<1>2. /\ TypeOK /\ IInv /\ [Next]_vars
      /\ TypeOK' /\ IInv'
      => [Lifecycle!Next]_(Lifecycle!lifecycleVars)
  <2> SUFFICES ASSUME TypeOK, IInv, [Next]_vars, TypeOK', IInv'
               PROVE  [Lifecycle!Next]_(Lifecycle!lifecycleVars)
    OBVIOUS
  <2>1. FlagsOK /\ FlagsOK'
    BY DEF TypeOK, FlagsOK
  <2>2. UiAgrees /\ UiAgrees'
    BY DEF IInv
  <2> QED
    BY <2>1, <2>2, OnlineStepHolds, LifecycleStep
<1> QED
  BY <1>1, <1>2, TypeCorrect, Inductive, PTL
     DEF Spec, ImplementsLifecycle, Lifecycle!Spec

-----------------------------------------------------------------------------
(* A session that replaces another.                                         *)

(* Of either session: the flag is up only while its task holds a connection, *)
(* and stop() is only called on a session that has started.                  *)
FirstAlone ==
    /\ online => pc \in {"connected", "writing", "closing"}
    /\ cancelled <=> stop # "idle"
    /\ pc \in {"new", "starting", "failed"} => stop = "idle"
    /\ stop = "returned" => ~online
    /\ pc \in {"giveUp", "giveUpEmit"} => Exhausted

SecondAlone ==
    /\ online2 => pc2 \in {"connected", "writing", "closing"}
    /\ cancelled2 <=> stop2 # "idle"
    /\ pc2 \in {"new", "starting", "failed"} => stop2 = "idle"

(* The second is created when the first is out of the way, and it stays so.  *)
Handover == pc2 # "new" => stop = "returned" \/ pc = "failed"

(* The interface shows the session that there is.                            *)
ShowsOne ==
    /\ pc2 = "new" => (uiOnline <=> online)
    /\ pc2 # "new" /\ uiOnline => online2
    /\ online2 => uiOnline \/ GaveUp

RestartIInv == FirstAlone /\ SecondAlone /\ Handover /\ ShowsOne

BothFlagsOK ==
    /\ online \in BOOLEAN /\ online2 \in BOOLEAN /\ uiOnline \in BOOLEAN
    /\ cancelled \in BOOLEAN /\ cancelled2 \in BOOLEAN

-----------------------------------------------------------------------------
(* The flags of both sessions and of the interface stay flags.               *)
LEMMA BothFlagsStep ==
    ASSUME BothFlagsOK, [RestartNext]_bothVars
    PROVE  BothFlagsOK'
<1> USE DEF BothFlagsOK, firstVars, secondVars
<1>1. CASE FirstSteps
  BY <1>1 DEF FirstSteps, Start, StartConnected, StartFailed,
     Serve, Publish, PublishSkipped, SeesCancel, EndWrite,
     Cleanup, AfterServe, Drop, BeginWrite, ReconnectLoop,
     LoopTop, GiveUp, GiveUpEmit, Mark, Wake,
     SleepCancelled, Announce, ConnectFailed, ConnectCancelled,
     Connected, Stop, StopCancel, StopLocked, EmitOnline,
     EmitOffline, EmitReconnecting, uiVars, lockVars,
     taskVars
<1>2. CASE SecondSteps \/ CreateSecond
  BY <1>2 DEF SecondSteps, CreateSecond, Second!Start, Second!StartConnected,
     Second!StartFailed, Second!Serve, Second!Publish, Second!PublishSkipped,
     Second!SeesCancel, Second!EndWrite, Second!Cleanup, Second!AfterServe, Second!Drop,
     Second!BeginWrite, Second!ReconnectLoop, Second!LoopTop, Second!GiveUp,
     Second!GiveUpEmit, Second!Mark, Second!Wake, Second!SleepCancelled,
     Second!Announce, Second!ConnectFailed, Second!ConnectCancelled, Second!Connected,
     Second!Stop, Second!StopCancel, Second!StopLocked, Second!EmitOnline,
     Second!EmitOffline, Second!EmitReconnecting, Second!uiVars, Second!lockVars,
     Second!taskVars
<1>3. CASE UNCHANGED bothVars
  BY <1>3 DEF bothVars
<1> QED
  BY <1>1, <1>2, <1>3 DEF RestartNext, BothTerminated

(* A step of the first session.                                              *)
LEMMA FirstStep ==
    ASSUME BothFlagsOK, RestartIInv, FirstSteps
    PROVE  RestartIInv'
<1> USE DEF BothFlagsOK, RestartIInv, FirstAlone, SecondAlone, Handover, ShowsOne, GaveUp,
            Exhausted, secondVars, uiVars, lockVars, taskVars
<1>1. CASE Start \/ StartConnected \/ StartFailed
  BY <1>1 DEF FirstSteps, Start, StartConnected, StartFailed
<1>2. CASE Serve
  BY <1>2 DEF FirstSteps, Serve, Publish, PublishSkipped,
     SeesCancel, EndWrite, Cleanup, AfterServe,
     EmitOnline, EmitOffline
<1>3. CASE Drop \/ BeginWrite
  BY <1>3 DEF FirstSteps, Drop, BeginWrite
<1>4. CASE ReconnectLoop \/ Connected
  BY <1>4 DEF FirstSteps, ReconnectLoop, LoopTop, GiveUp,
     GiveUpEmit, Mark, Wake, SleepCancelled, Announce,
     ConnectFailed, ConnectCancelled, Connected, EmitOffline,
     EmitReconnecting
<1>5. CASE Stop
  BY <1>5 DEF FirstSteps, Stop, StopCancel, StopLocked,
     EmitOffline, Starting
<1> QED
  BY <1>1, <1>2, <1>3, <1>4, <1>5 DEF FirstSteps

(* The second session is created, or takes a step.                           *)
LEMMA SecondStep ==
    ASSUME BothFlagsOK, RestartIInv, CreateSecond \/ SecondSteps
    PROVE  RestartIInv'
<1> USE DEF BothFlagsOK, RestartIInv, FirstAlone, SecondAlone, Handover, ShowsOne, GaveUp,
            Exhausted, firstVars, Second!uiVars, Second!lockVars, Second!taskVars
<1>1. CASE CreateSecond
  BY <1>1 DEF CreateSecond, Second!Start
<1>2. CASE (Second!StartConnected \/ Second!StartFailed) /\ UNCHANGED firstVars
  BY <1>2 DEF Second!StartConnected, Second!StartFailed
<1>3. CASE Second!Serve /\ UNCHANGED firstVars
  BY <1>3 DEF Second!Serve, Second!Publish, Second!PublishSkipped,
     Second!SeesCancel, Second!EndWrite, Second!Cleanup, Second!AfterServe,
     Second!EmitOnline, Second!EmitOffline
<1>4. CASE (Second!Drop \/ Second!BeginWrite) /\ UNCHANGED firstVars
  BY <1>4 DEF Second!Drop, Second!BeginWrite
<1>5. CASE (Second!ReconnectLoop \/ Second!Connected) /\ UNCHANGED firstVars
  BY <1>5 DEF Second!ReconnectLoop, Second!LoopTop, Second!GiveUp,
     Second!GiveUpEmit, Second!Mark, Second!Wake, Second!SleepCancelled,
     Second!Announce, Second!ConnectFailed, Second!ConnectCancelled,
     Second!Connected, Second!EmitOffline, Second!EmitReconnecting
<1>6. CASE Second!Stop /\ UNCHANGED firstVars
  BY <1>6 DEF Second!Stop, Second!StopCancel, Second!StopLocked,
     Second!EmitOffline, Second!Starting
<1> QED
  BY <1>1, <1>2, <1>3, <1>4, <1>5, <1>6 DEF SecondSteps

-----------------------------------------------------------------------------
(* The invariant that carries the property holds in every state.             *)
THEOREM RestartInductive == RestartSpec => [](BothFlagsOK /\ RestartIInv)
<1>1. RestartInit => BothFlagsOK /\ RestartIInv
  BY DEF RestartInit, Init, Second!Init, BothFlagsOK, RestartIInv, FirstAlone,
     SecondAlone, Handover, ShowsOne
<1>2. BothFlagsOK /\ RestartIInv /\ [RestartNext]_bothVars => BothFlagsOK' /\ RestartIInv'
  <2> SUFFICES ASSUME BothFlagsOK, RestartIInv, [RestartNext]_bothVars
               PROVE  RestartIInv'
    BY BothFlagsStep
  <2>1. CASE UNCHANGED bothVars
    BY <2>1 DEF bothVars, firstVars, secondVars, RestartIInv, FirstAlone,
       SecondAlone, Handover, ShowsOne, GaveUp, Exhausted
  <2> QED
    BY <2>1, FirstStep, SecondStep DEF RestartNext, BothTerminated
<1> QED
  BY <1>1, <1>2, PTL DEF RestartSpec

(* While the interface shows the configuration online exactly one of the two *)
(* sessions is, and the one that replaces the other is shown once it is, if  *)
(* the other did not give up (start_session and stop_session of              *)
(* session/mod.rs over tcp_client.rs and ws_client.rs).                      *)
THEOREM Replaced == RestartSpec => []ReplacementIsShown
<1>1. BothFlagsOK /\ RestartIInv => ReplacementIsShown
  BY DEF BothFlagsOK, RestartIInv, FirstAlone, SecondAlone, Handover, ShowsOne,
     ReplacementIsShown
<1> QED
  BY <1>1, RestartInductive, PTL
=============================================================================
