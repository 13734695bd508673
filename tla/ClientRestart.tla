---------------------------- MODULE ClientRestart ----------------------------
(* One client configuration that is stopped and started again, by            *)
(* Manager::start over a running session or by stop_session followed by      *)
(* start_session (session/mod.rs): the ClientSession that is replaced and    *)
(* the one that replaces it, each with a task, token and lock of its own,    *)
(* that emit events under the same uid and so share one Runtime in the user  *)
(* interface.  Neither stop() nor start() waits for the first session's task *)
(* to end.                                                                   *)

EXTENDS ClientSession

VARIABLES
    pc2, attempt2, cancelled2, online2, reconnecting2, stop2  \* the second

firstVars == <<pc, attempt, cancelled, online, reconnecting, stop>>
secondVars == <<pc2, attempt2, cancelled2, online2, reconnecting2, stop2>>
bothVars == <<firstVars, secondVars, uiOnline, uiRound>>

Second == INSTANCE ClientSession
    WITH pc <- pc2, attempt <- attempt2, cancelled <- cancelled2,
         online <- online2, reconnecting <- reconnecting2, stop <- stop2

RestartInit == Init /\ Second!Init

FirstSteps ==
    /\ \/ Start \/ StartConnected \/ StartFailed
       \/ Serve \/ Drop \/ BeginWrite
       \/ ReconnectLoop \/ Connected \/ Stop
    /\ UNCHANGED secondVars

(* Manager creates the second session when it has stopped the first, or has  *)
(* none because the first one failed to start.                               *)
CreateSecond ==
    /\ stop = "returned" \/ pc = "failed"
    /\ Second!Start
    /\ UNCHANGED firstVars

SecondSteps ==
    /\ \/ Second!StartConnected \/ Second!StartFailed
       \/ Second!Serve \/ Second!Drop \/ Second!BeginWrite
       \/ Second!ReconnectLoop \/ Second!Connected \/ Second!Stop
    /\ UNCHANGED firstVars

BothTerminated ==
    /\ Terminated
    /\ Second!Terminated
    /\ UNCHANGED bothVars

RestartNext == FirstSteps \/ CreateSecond \/ SecondSteps \/ BothTerminated

RestartSpec == RestartInit /\ [][RestartNext]_bothVars

-----------------------------------------------------------------------------
(* The first session had used up its rounds: its last Offline is emitted     *)
(* without a look at the token, even after the second one is online.         *)
GaveUp == pc = "done" /\ Exhausted

(* An interface that shows the configuration online has exactly one session  *)
(* that is: the old one is offline before the new one exists, and never      *)
(* comes back.  The second session's Online reaches the interface, and only  *)
(* that session's own Offline takes it back, unless the first one gave up.   *)
ReplacementIsShown ==
    /\ uiOnline => online # online2
    /\ online2 => uiOnline \/ GaveUp
=============================================================================
