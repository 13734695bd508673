---------------------------- MODULE ClientSession ----------------------------
(* The life cycle of one client session, TcpClient and WsClient              *)
(* (session/tcp_client.rs, session/ws_client.rs; their start, serve,         *)
(* reconnect_loop and stop are the same program text up to the stream type): *)
(* the background task, one action per stretch between two awaits or lock    *)
(* regions, and stop(), which another thread runs at any moment after        *)
(* start() has returned.                                                     *)
(*                                                                           *)
(* Every event goes through one ordered channel to the user interface, so    *)
(* uiOnline and uiRound are what sessions.ts shows once it has handled every *)
(* event emitted so far.  Bytes are Framer's and the outbound queue is       *)
(* ClientTraffic's: here a connection is open, stuck in a write, or gone.    *)

EXTENDS Integers

CONSTANTS
    AutoReconnect,   \* cfg.auto_reconnect
    ReconnectMax,    \* cfg.reconnect_max, 0 for no limit
    AttemptCap       \* bound on `attempt`, a u32 in the code

ASSUME ClientAssumption ==
    /\ AutoReconnect \in BOOLEAN
    /\ ReconnectMax \in Nat
    /\ AttemptCap \in Nat
    /\ ReconnectMax < AttemptCap

VARIABLES
    pc,            \* where start() and then the background task is
    attempt,       \* the loop's attempt counter
    cancelled,     \* ctx.cancel
    online,        \* State.online, guarded by the mutex
    reconnecting,  \* State.reconnecting, guarded by the mutex
    stop,          \* where stop() is
    uiOnline,      \* Runtime.online in the user interface
    uiRound        \* Runtime.reconnecting: the round shown, 0 for none

taskVars == <<pc, attempt>>
lockVars == <<online, reconnecting>>
uiVars == <<uiOnline, uiRound>>
vars == <<pc, attempt, cancelled, online, reconnecting, stop, uiOnline, uiRound>>

Starting == {"new", "starting", "failed"}
Serving == {"publish", "connected", "writing", "closing", "served"}
Retrying == {"loop", "giveUp", "giveUpEmit", "mark", "sleeping", "announce",
             "connecting"}

TypeOK ==
    /\ pc \in Starting \cup Serving \cup Retrying \cup {"done"}
    /\ attempt \in Nat
    /\ cancelled \in BOOLEAN
    /\ online \in BOOLEAN
    /\ reconnecting \in BOOLEAN
    /\ stop \in {"idle", "cancelled", "returned"}
    /\ uiOnline \in BOOLEAN
    /\ uiRound \in Nat

-----------------------------------------------------------------------------
(* Events, by what sessions.ts does with them.                               *)

EmitOnline == uiOnline' = TRUE /\ uiRound' = 0
EmitOffline == uiOnline' = FALSE /\ uiRound' = 0
EmitReconnecting(n) == uiRound' = n /\ UNCHANGED uiOnline

-----------------------------------------------------------------------------
(* What small mistakes in the code would do: variants that take the place of *)
(* an action or a condition below, one at a time, to see that the properties *)
(* notice.                                                                   *)

(* serve() publishes without looking at the token.                           *)
PublishUnchecked ==
    /\ pc = "publish"
    /\ online' = TRUE
    /\ reconnecting' = FALSE
    /\ EmitOnline
    /\ pc' = "connected"
    /\ UNCHANGED <<attempt, cancelled, stop>>

(* The cleanup of serve() clears the flag and emits nothing.                 *)
CleanupSilent ==
    /\ pc = "closing"
    /\ online' = FALSE
    /\ pc' = "served"
    /\ UNCHANGED <<attempt, cancelled, reconnecting, stop, uiVars>>

(* The cleanup emits Offline and leaves the flag.                            *)
CleanupForgets ==
    /\ pc = "closing"
    /\ IF online THEN EmitOffline ELSE UNCHANGED uiVars
    /\ pc' = "served"
    /\ UNCHANGED <<attempt, cancelled, lockVars, stop>>

(* The select loop of a connection has no arm for the token.                 *)
SeesCancelNever == pc = "connected" /\ cancelled /\ FALSE /\ UNCHANGED vars

(* A connection that drops is not retried.                                   *)
AfterServeEnds ==
    /\ pc = "served"
    /\ pc' = "done"
    /\ UNCHANGED <<attempt, cancelled, lockVars, stop, uiVars>>

(* One round too many.                                                       *)
ExhaustedLate == ReconnectMax > 0 /\ attempt > ReconnectMax + 1

(* A failed round counts down.                                               *)
ConnectFailedDown ==
    /\ pc = "connecting"
    /\ attempt' = attempt - 1
    /\ pc' = "loop"
    /\ UNCHANGED <<cancelled, lockVars, stop, uiVars>>

-----------------------------------------------------------------------------
Init ==
    /\ pc = "new"
    /\ attempt = 1
    /\ cancelled = FALSE
    /\ online = FALSE
    /\ reconnecting = FALSE
    /\ stop = "idle"
    /\ uiOnline = FALSE
    /\ uiRound = 0

(* start(): takes the receiver and awaits the first connect_once.            *)
Start ==
    /\ pc = "new"
    /\ pc' = "starting"
    /\ UNCHANGED <<attempt, cancelled, lockVars, stop, uiVars>>

StartConnected ==
    /\ pc = "starting"
    /\ pc' = "publish"
    /\ UNCHANGED <<attempt, cancelled, lockVars, stop, uiVars>>

(* The first connection fails: the loop takes over, or start() returns Err   *)
(* and Manager drops the session.                                            *)
StartFailed ==
    /\ pc = "starting"
    /\ pc' = IF AutoReconnect THEN "loop" ELSE "failed"
    /\ UNCHANGED <<attempt, cancelled, lockVars, stop, uiVars>>

-----------------------------------------------------------------------------
(* serve()                                                                   *)

(* The connection is published under the lock, unless stop() has cancelled.  *)
Publish ==
    /\ pc = "publish"
    /\ ~cancelled
    /\ online' = TRUE
    /\ reconnecting' = FALSE
    /\ EmitOnline
    /\ pc' = "connected"
    /\ UNCHANGED <<attempt, cancelled, stop>>

PublishSkipped ==
    /\ pc = "publish"
    /\ cancelled
    /\ pc' = "served"
    /\ UNCHANGED <<attempt, cancelled, lockVars, stop, uiVars>>

(* The select loop ends: the peer closes, a read fails, the session is       *)
(* cancelled.                                                                *)
Drop ==
    /\ pc = "connected"
    /\ pc' = "closing"
    /\ UNCHANGED <<attempt, cancelled, lockVars, stop, uiVars>>

SeesCancel ==
    /\ pc = "connected"
    /\ cancelled
    /\ pc' = "closing"
    /\ UNCHANGED <<attempt, cancelled, lockVars, stop, uiVars>>

(* An outbound message is written inside its select arm: until the write is  *)
(* over nothing else is polled, cancellation included.                       *)
BeginWrite ==
    /\ pc = "connected"
    /\ pc' = "writing"
    /\ UNCHANGED <<attempt, cancelled, lockVars, stop, uiVars>>

(* The message goes out and the loop goes on, or it fails or carries         *)
(* `disconnect` and the loop ends.                                           *)
EndWrite ==
    /\ pc = "writing"
    /\ pc' \in {"connected", "closing"}
    /\ UNCHANGED <<attempt, cancelled, lockVars, stop, uiVars>>

(* Whoever clears `online` emits Offline, under the lock.                    *)
Cleanup ==
    /\ pc = "closing"
    /\ IF online
         THEN online' = FALSE /\ EmitOffline
         ELSE UNCHANGED <<online, uiVars>>
    /\ pc' = "served"
    /\ UNCHANGED <<attempt, cancelled, reconnecting, stop>>

AfterServe ==
    /\ pc = "served"
    /\ IF AutoReconnect /\ ~cancelled
         THEN pc' = "loop" /\ attempt' = 1
         ELSE pc' = "done" /\ UNCHANGED attempt
    /\ UNCHANGED <<cancelled, lockVars, stop, uiVars>>

-----------------------------------------------------------------------------
(* reconnect_loop()                                                          *)

Exhausted == ReconnectMax > 0 /\ attempt > ReconnectMax

LoopTop ==
    /\ pc = "loop"
    /\ pc' = IF cancelled THEN "done"
             ELSE IF Exhausted THEN "giveUp" ELSE "mark"
    /\ UNCHANGED <<attempt, cancelled, lockVars, stop, uiVars>>

(* The flag is cleared under the lock; Offline follows without it.           *)
GiveUp ==
    /\ pc = "giveUp"
    /\ reconnecting' = FALSE
    /\ pc' = "giveUpEmit"
    /\ UNCHANGED <<attempt, cancelled, online, stop, uiVars>>

GiveUpEmit ==
    /\ pc = "giveUpEmit"
    /\ EmitOffline
    /\ pc' = "done"
    /\ UNCHANGED <<attempt, cancelled, lockVars, stop>>

Mark ==
    /\ pc = "mark"
    /\ reconnecting' = TRUE
    /\ pc' = "sleeping"
    /\ UNCHANGED <<attempt, cancelled, online, stop, uiVars>>

(* select! picks any branch that is ready: a timer that has elapsed may win  *)
(* over a token that is cancelled.                                           *)
Wake ==
    /\ pc = "sleeping"
    /\ pc' = "announce"
    /\ UNCHANGED <<attempt, cancelled, lockVars, stop, uiVars>>

SleepCancelled ==
    /\ pc = "sleeping"
    /\ cancelled
    /\ pc' = "done"
    /\ UNCHANGED <<attempt, cancelled, lockVars, stop, uiVars>>

(* Reconnecting is emitted with neither the lock nor a look at the token.    *)
Announce ==
    /\ pc = "announce"
    /\ EmitReconnecting(attempt)
    /\ pc' = "connecting"
    /\ UNCHANGED <<attempt, cancelled, lockVars, stop>>

Connected ==
    /\ pc = "connecting"
    /\ pc' = "publish"
    /\ UNCHANGED <<attempt, cancelled, lockVars, stop, uiVars>>

ConnectFailed ==
    /\ pc = "connecting"
    /\ attempt < AttemptCap
    /\ attempt' = attempt + 1
    /\ pc' = "loop"
    /\ UNCHANGED <<cancelled, lockVars, stop, uiVars>>

ConnectCancelled ==
    /\ pc = "connecting"
    /\ cancelled
    /\ pc' = "done"
    /\ UNCHANGED <<attempt, cancelled, lockVars, stop, uiVars>>

-----------------------------------------------------------------------------
(* stop(): Manager knows the session from the moment start() has returned.   *)

StopCancel ==
    /\ stop = "idle"
    /\ pc \notin Starting
    /\ cancelled' = TRUE
    /\ stop' = "cancelled"
    /\ UNCHANGED <<taskVars, lockVars, uiVars>>

StopLocked ==
    /\ stop = "cancelled"
    /\ IF online \/ reconnecting
         THEN /\ online' = FALSE
              /\ reconnecting' = FALSE
              /\ EmitOffline
         ELSE UNCHANGED <<lockVars, uiVars>>
    /\ stop' = "returned"
    /\ UNCHANGED <<taskVars, cancelled>>

-----------------------------------------------------------------------------
Serve == Publish \/ PublishSkipped \/ SeesCancel \/ EndWrite \/ Cleanup
         \/ AfterServe
ReconnectLoop == LoopTop \/ GiveUp \/ GiveUpEmit \/ Mark \/ Wake
                 \/ SleepCancelled \/ Announce \/ ConnectFailed
                 \/ ConnectCancelled
Stop == StopCancel \/ StopLocked

(* A session that is over stays as it is.                                    *)
Terminated ==
    /\ pc = "failed" \/ (pc = "done" /\ stop = "returned")
    /\ UNCHANGED vars

Next ==
    \/ Start \/ StartConnected \/ StartFailed
    \/ Serve \/ Drop \/ BeginWrite
    \/ ReconnectLoop \/ Connected
    \/ Stop
    \/ Terminated

Spec == Init /\ [][Next]_vars

(* The runtime polls a task that is ready, a timer elapses and connect_once  *)
(* is over within its timeout; stop() runs to its end once it is called; and *)
(* a write ends, which holds while the peer reads or the connection breaks.  *)
(* select! picks at random among the branches that are ready, so a cancelled *)
(* token is not passed over for ever in favour of queued messages (SF).      *)
(* Nothing makes a user stop, a connection succeed or drop.                  *)
Fairness ==
    /\ WF_vars(Start)
    /\ WF_vars(StartConnected \/ StartFailed)
    /\ WF_vars(Serve)
    /\ SF_vars(SeesCancel)
    /\ WF_vars(ReconnectLoop \/ Connected)
    /\ WF_vars(StopLocked)

FairSpec == Spec /\ Fairness

-----------------------------------------------------------------------------
(* The interface shows the session online exactly while the session says it  *)
(* is: Online and Offline are emitted inside the critical sections that      *)
(* change the flag, so neither a drop nor a stop strands the interface.      *)
UiAgrees == uiOnline <=> online

(* Once stop() has returned the session is offline, for send() and in the    *)
(* interface, whatever the task was doing: a connection that is established  *)
(* late is dropped, not published.                                           *)
StoppedStaysOffline ==
    stop = "returned" => ~online /\ ~uiOnline

(* The interface never announces more rounds than reconnect_max, and a loop  *)
(* that gives up on its own leaves it neither connected nor reconnecting, so *)
(* that the start button is offered again.                                   *)
RetriesEnd ==
    /\ ReconnectMax > 0 => uiRound <= ReconnectMax
    /\ pc = "done" /\ stop = "idle" => ~uiOnline /\ uiRound = 0

(* Nothing brings a cancelled session online (the handshake that completes   *)
(* after the stop).                                                          *)
NoOnlineAfterCancel ==
    [][cancelled => (~online => ~online') /\ (~uiOnline => ~uiOnline')]_vars

(* Until the session is stopped, the rounds the interface counts start at    *)
(* one after every connection and go up by one: a success in between starts  *)
(* the count again.                                                          *)
RoundsCountUp ==
    [][~cancelled => uiRound' \in
                         {0, 1, uiRound, uiRound + 1}]_vars


(* A connection that is lost with auto_reconnect on is retried: the          *)
(* interface sees a round start, unless the session is stopped.              *)
LossIsRetried ==
    (AutoReconnect /\ pc = "closing") ~> (uiRound > 0 \/ cancelled)

(* stopping while reconnecting must clear the UI state (session/tests.rs).   *)
StopClearsReconnecting == stop = "returned" => uiRound = 0

Lifecycle == INSTANCE SessionLifecycle
                 WITH usable <- online, shown <- uiOnline,
                      stopped <- cancelled

(* The client keeps the promise every transport makes.                       *)
ImplementsLifecycle == Lifecycle!Spec

(* stop() takes effect for good, and a stopped session's task comes to its   *)
(* end: the connection is closed.                                            *)
StopEndsTask ==
    /\ Lifecycle!StopTakesEffect
    /\ cancelled ~> pc = "done"
=============================================================================
