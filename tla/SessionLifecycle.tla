-------------------------- MODULE SessionLifecycle --------------------------
(* What every transport promises to the rest of the program, whatever it     *)
(* runs on: the trait Session (session/mod.rs) with the two life-cycle       *)
(* events of events.rs.                                                      *)
(*                                                                           *)
(*   usable   the session's own flag `online`: send() is accepted, status()  *)
(*            answers online                                                 *)
(*   shown    what the user interface shows once it has handled every event  *)
(*            emitted so far: the last of Online and Offline was Online      *)
(*   stopped  the session's cancellation token is cancelled                  *)
(*                                                                           *)
(* A session opens only before it is stopped and is announced only while     *)
(* open and not stopped; it may close and reopen any number of times; it is  *)
(* concealed once it is closed; and a stopped session ends closed and        *)
(* concealed.                                                                *)

VARIABLES usable, shown, stopped

lifecycleVars == <<usable, shown, stopped>>

Init ==
    /\ usable = FALSE
    /\ shown = FALSE
    /\ stopped = FALSE

(* The connection or the listener is there.  A client announces it in the    *)
(* same critical section; a server and a UDP socket announce it afterwards.  *)
Open ==
    /\ ~stopped
    /\ ~usable
    /\ usable' = TRUE
    /\ shown' \in {shown, TRUE}
    /\ UNCHANGED stopped

Announce ==
    /\ ~stopped
    /\ usable
    /\ shown' = TRUE
    /\ UNCHANGED <<usable, stopped>>

(* The connection is lost or stop() closes the session.                      *)
Close ==
    /\ usable
    /\ usable' = FALSE
    /\ shown' \in {shown, FALSE}
    /\ UNCHANGED stopped

Conceal ==
    /\ ~usable
    /\ shown' = FALSE
    /\ UNCHANGED <<usable, stopped>>

Cancel ==
    /\ stopped' = TRUE
    /\ UNCHANGED <<usable, shown>>

Next == Open \/ Announce \/ Close \/ Conceal \/ Cancel

Spec == Init /\ [][Next]_lifecycleVars

(* A stopped session does not stay announced: the promise stop() makes.      *)
StopTakesEffect == stopped ~> [](~usable /\ ~shown)

=============================================================================
