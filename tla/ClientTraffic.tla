---------------------------- MODULE ClientTraffic ----------------------------
(* What a client session writes (run_connection of session/tcp_client.rs,    *)
(* serve of session/ws_client.rs, inbound and spawn_timed_send of            *)
(* session/mod.rs): one queue that outlives the connections, filled by       *)
(* send(), by the tasks that answer inbound messages after a delay and by    *)
(* one timed-send task per connection, and drained by the connection that is *)
(* open.  Opening, retrying and stopping are ClientSession's; here they are  *)
(* as many steps as the queue and its writers can tell apart.                *)

EXTENDS Naturals, Sequences, FiniteSets

CONSTANTS
    AutoReconnect,  \* cfg.auto_reconnect
    Timed,          \* cfg.timed_send is enabled
    TimedCount,     \* cfg.timed_send.count, 0 for no limit
    Delayed,        \* cfg.auto_reply.delay_ms is not zero
    MaxConn,        \* bound on the connections
    MaxItems        \* bound on the messages made

ASSUME TrafficAssumption ==
    /\ {AutoReconnect, Timed, Delayed} \subseteq BOOLEAN
    /\ {TimedCount, MaxConn, MaxItems} \subseteq Nat

Connections == 1 .. MaxConn
Answers == {"reply", "close"}   \* what a rule does: send bytes, or disconnect

VARIABLES
    pc,         \* down, open, closing, ended (timers told to stop), over
    conn,       \* connections so far; the last one is the one that pc is about
    online,     \* State.online
    cancelled,  \* ctx.cancel
    sender,     \* send() has seen `online` and has yet to queue
    pending,    \* answers that wait for their delay, by connection and kind
    timers,     \* connections whose timed-send task runs
    sent,       \* what each of these tasks counts
    accepted,   \* every message that entered the queue: its kind, and the
                \* connection it was made on (history)
    queue,      \* the queue, by index in accepted
    written     \* what went out, by index, and on which connection (history)

sessionVars == <<pc, conn, online, cancelled>>
writerVars == <<sender, pending, timers, sent>>
queueVars == <<accepted, queue, written>>
vars == <<pc, conn, online, cancelled, sender, pending, timers, sent,
          accepted, queue, written>>

TypeOK ==
    /\ pc \in {"down", "open", "closing", "ended", "over"}
    /\ conn \in 0 .. MaxConn
    /\ online \in BOOLEAN
    /\ cancelled \in BOOLEAN
    /\ sender \in BOOLEAN
    /\ pending \subseteq Connections \X Answers
    /\ timers \subseteq Connections
    /\ sent \in [Connections -> Nat]
    /\ accepted \in Seq([kind : {"sent", "timed"} \cup Answers, on : 0 .. MaxConn])
    /\ queue \in Seq(DOMAIN accepted)
    /\ written \in Seq([id : DOMAIN accepted, to : Connections])

Init ==
    /\ pc = "down"
    /\ conn = 0
    /\ online = FALSE
    /\ cancelled = FALSE
    /\ sender = FALSE
    /\ pending = {}
    /\ timers = {}
    /\ sent = [k \in Connections |-> 0]
    /\ accepted = <<>>
    /\ queue = <<>>
    /\ written = <<>>

-----------------------------------------------------------------------------
(* tx.send.  The receiver goes with the task: after it the message is        *)
(* dropped.                                                                  *)
Enqueue(kind, k) ==
    IF pc = "over"
      THEN UNCHANGED queueVars
      ELSE /\ accepted' = Append(accepted, [kind |-> kind, on |-> k])
           /\ queue' = Append(queue, Len(accepted'))
           /\ UNCHANGED written

(* The receiver is dropped with what it holds.                               *)
Ends == pc' = "over" /\ queue' = <<>> /\ UNCHANGED <<accepted, written>>

(* What the bound counts: the messages there are and those under way.        *)
HasRoom ==
    Len(accepted) + Cardinality(pending) + (IF sender THEN 1 ELSE 0) < MaxItems

(* A rule matches a message received on the connection: a task is spawned    *)
(* for the answer.  One answer of each kind waits for a connection, at most. *)
Spawn(answer) ==
    /\ HasRoom
    /\ <<conn, answer>> \notin pending
    /\ pending' = pending \cup {<<conn, answer>>}

(* timed_stop of connection k is cancelled.                                  *)
TimedStop(k) == k < conn \/ pc \in {"ended", "down", "over"}

Kind(id) == accepted[id].kind

-----------------------------------------------------------------------------
(* What small mistakes would do, one at a time.                              *)

(* The task listens to the session's token only.                             *)
TimerStopsLate(k) ==
    /\ k \in timers
    /\ cancelled
    /\ timers' = timers \ {k}
    /\ UNCHANGED <<sessionVars, sender, pending, sent, queueVars>>

(* A message without bytes is passed over, disconnect and all.               *)
WriteSkipsEmpty ==
    /\ pc = "open"
    /\ queue # <<>>
    /\ written' = IF Kind(Head(queue)) = "close" THEN written
                  ELSE Append(written, [id |-> Head(queue), to |-> conn])
    /\ queue' = Tail(queue)
    /\ UNCHANGED <<sessionVars, writerVars, accepted>>

(* A message that could not be written is queued again, or the loop goes on. *)
WriteFailsRequeues ==
    /\ pc = "open"
    /\ queue # <<>>
    /\ Kind(Head(queue)) # "close"
    /\ queue' = Append(Tail(queue), Head(queue))
    /\ pc' = "closing"
    /\ UNCHANGED <<conn, online, cancelled, writerVars, accepted, written>>

WriteFailsGoesOn ==
    /\ pc = "open"
    /\ queue # <<>>
    /\ Kind(Head(queue)) # "close"
    /\ queue' = Tail(queue)
    /\ UNCHANGED <<sessionVars, writerVars, accepted, written>>

(* The reconnect loop does not look at the token.                            *)
LoopEndsNever == pc = "down" /\ cancelled /\ FALSE /\ UNCHANGED vars

-----------------------------------------------------------------------------
(* send(): the flag is looked at under the lock, the message queued after    *)
(* it is released.                                                           *)

SendChecked ==
    /\ HasRoom
    /\ ~sender
    /\ online
    /\ sender' = TRUE
    /\ UNCHANGED <<sessionVars, pending, timers, sent, queueVars>>

SendQueued ==
    /\ sender
    /\ sender' = FALSE
    /\ Enqueue("sent", conn)
    /\ UNCHANGED <<sessionVars, pending, timers, sent>>

(* The task of an answer: the delay is over, or cut short by stop().  An     *)
(* answer without a delay does not look at the token.                        *)
Answer(k, answer) ==
    /\ <<k, answer>> \in pending
    /\ pending' = pending \ {<<k, answer>>}
    /\ Enqueue(answer, k)
    /\ UNCHANGED <<sessionVars, sender, timers, sent>>

AnswerCancelled(k, answer) ==
    /\ <<k, answer>> \in pending
    /\ Delayed /\ cancelled
    /\ pending' = pending \ {<<k, answer>>}
    /\ UNCHANGED <<sessionVars, sender, timers, sent, queueVars>>

(* The timed-send task.  select! picks either branch when the interval is    *)
(* over and the task has been told to stop.                                  *)
Tick(k) ==
    /\ HasRoom
    /\ k \in timers
    /\ Enqueue("timed", k)
    /\ sent' = [sent EXCEPT ![k] = @ + 1]
    /\ timers' = IF TimedCount > 0 /\ sent'[k] >= TimedCount THEN timers \ {k}
                                                             ELSE timers
    /\ UNCHANGED <<sessionVars, sender, pending>>

TimerStops(k) ==
    /\ k \in timers
    /\ TimedStop(k) \/ cancelled
    /\ timers' = timers \ {k}
    /\ UNCHANGED <<sessionVars, sender, pending, sent, queueVars>>

-----------------------------------------------------------------------------
(* A connection is published and its timed-send task spawned.                *)
Open ==
    /\ pc = "down"
    /\ ~cancelled
    /\ conn < MaxConn
    /\ AutoReconnect \/ conn = 0
    /\ pc' = "open"
    /\ conn' = conn + 1
    /\ online' = TRUE
    /\ timers' = IF Timed THEN timers \cup {conn'} ELSE timers
    /\ UNCHANGED <<cancelled, sender, pending, sent, queueVars>>

Receive ==
    /\ pc = "open"
    /\ \E answer \in Answers : Spawn(answer)
    /\ UNCHANGED <<sessionVars, sender, timers, sent, queueVars>>

Drop ==
    /\ pc = "open"
    /\ pc' = "closing"
    /\ UNCHANGED <<conn, online, cancelled, writerVars, queueVars>>

SeesCancel ==
    /\ pc = "open"
    /\ cancelled
    /\ pc' = "closing"
    /\ UNCHANGED <<conn, online, cancelled, writerVars, queueVars>>

(* The next message goes out, or has no bytes and ends the connection.       *)
Write ==
    /\ pc = "open"
    /\ queue # <<>>
    /\ IF Kind(Head(queue)) = "close"
         THEN pc' = "closing" /\ UNCHANGED written
         ELSE /\ written' = Append(written, [id |-> Head(queue), to |-> conn])
              /\ UNCHANGED pc
    /\ queue' = Tail(queue)
    /\ UNCHANGED <<conn, online, cancelled, writerVars, accepted>>

WriteFails ==
    /\ pc = "open"
    /\ queue # <<>>
    /\ Kind(Head(queue)) # "close"
    /\ queue' = Tail(queue)
    /\ pc' = "closing"
    /\ UNCHANGED <<conn, online, cancelled, writerVars, accepted, written>>

(* timed_stop is cancelled, and what the framer still holds is one more      *)
(* inbound message, which a rule may answer.                                 *)
Flush ==
    /\ pc = "closing"
    /\ pc' = "ended"
    /\ UNCHANGED pending \/ \E answer \in Answers : Spawn(answer)
    /\ UNCHANGED <<conn, online, cancelled, sender, timers, sent, queueVars>>

Cleanup ==
    /\ pc = "ended"
    /\ online' = FALSE
    /\ IF AutoReconnect /\ ~cancelled THEN pc' = "down" /\ UNCHANGED queueVars
                                      ELSE Ends
    /\ UNCHANGED <<conn, cancelled, writerVars>>

(* The reconnect loop ends: it gives up ...                                  *)
GiveUp ==
    /\ pc = "down"
    /\ Ends
    /\ UNCHANGED <<conn, online, cancelled, writerVars>>

(* ... or sees the token.                                                    *)
LoopEnds ==
    /\ pc = "down"
    /\ cancelled
    /\ Ends
    /\ UNCHANGED <<conn, online, cancelled, writerVars>>

StopCancel ==
    /\ ~cancelled
    /\ cancelled' = TRUE
    /\ UNCHANGED <<pc, conn, online, writerVars, queueVars>>

StopLocked ==
    /\ cancelled
    /\ online
    /\ online' = FALSE
    /\ UNCHANGED <<pc, conn, cancelled, writerVars, queueVars>>

-----------------------------------------------------------------------------
Task == SeesCancel \/ Flush \/ Cleanup \/ LoopEnds \/ StopLocked
Deliver == Write \/ WriteFails

Terminated == pc = "over" /\ ~sender /\ pending = {} /\ timers = {} /\ UNCHANGED vars

Next ==
    \/ SendChecked \/ SendQueued
    \/ \E k \in Connections, answer \in Answers :
         Answer(k, answer) \/ AnswerCancelled(k, answer)
    \/ \E k \in Connections : Tick(k) \/ TimerStops(k)
    \/ Open \/ Receive \/ Drop \/ Deliver \/ Task \/ GiveUp \/ StopCancel
    \/ Terminated

Spec == Init /\ [][Next]_vars

(* Tasks that are ready are polled, delays and intervals elapse, and a write *)
(* ends, which holds while the peer reads or the connection breaks.  select! *)
(* picks at random among the branches that are ready, so neither the token   *)
(* nor the queue is passed over for ever.                                    *)
Fairness ==
    /\ WF_vars(Task) /\ SF_vars(SeesCancel)
    /\ WF_vars(Deliver)
    /\ WF_vars(SendQueued)
    /\ \A k \in Connections :
         /\ WF_vars(TimerStops(k))
         /\ \A answer \in Answers :
              WF_vars(Answer(k, answer) \/ AnswerCancelled(k, answer))

FairSpec == Spec /\ Fairness

-----------------------------------------------------------------------------
(* Nothing is written twice and nothing overtakes, across reconnects too:    *)
(* what went out and what still waits are in the order in which send() and   *)
(* the generating tasks queued them.                                         *)
InOrder ==
    LET ids == [i \in DOMAIN written |-> written[i].id] \o queue
    IN \A i, j \in DOMAIN ids : i < j => ids[i] < ids[j]

(* A connection that breaks costs one message at most, the one being         *)
(* written: those behind it wait for the next connection.                    *)
Lost == {id \in DOMAIN accepted :
           /\ Kind(id) # "close"
           /\ \A i \in DOMAIN queue : queue[i] # id
           /\ \A i \in DOMAIN written : written[i].id # id}
OneLossPerConnection ==
    pc # "over" => Cardinality(Lost) <= IF pc = "open" THEN conn - 1 ELSE conn

(* A disconnect rule that matches ends the connection it matched on.         *)
DisconnectActs ==
    \A k \in Connections :
        <<k, "close">> \in pending ~> conn > k \/ pc # "open" \/ cancelled

(* The timed-send task of a connection does not outlive it for long: a       *)
(* session that keeps reconnecting does not pile them up.                    *)
TimersEnd == \A k \in Connections : TimedStop(k) ~> k \notin timers

(* A stopped session leaves nothing behind: its task, its timers and the     *)
(* answers that wait are over.                                               *)
StopEndsAll == cancelled ~> [](pc = "over" /\ timers = {} /\ pending = {})

(* Close the connection after writing (auto-reply disconnect action): the    *)
(* one the answer was made for, not one that was opened since.               *)
CloseIsOwn ==
    pc = "open" /\ queue # <<>> /\ Kind(Head(queue)) = "close"
        => accepted[Head(queue)].on = conn
=============================================================================
