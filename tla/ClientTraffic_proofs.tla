------------------------- MODULE ClientTraffic_proofs -------------------------
(* Proofs about ClientTraffic, for every configuration and bound: the queue  *)
(* that outlives the connections keeps its order, and a connection that      *)
(* breaks costs one message at most.                                         *)

EXTENDS ClientTraffic, SequenceLemmas, FiniteSetTheorems

Kinds == {"sent", "timed"} \cup Answers
Message == [kind : Kinds, on : 0 .. MaxConn]

QueueTyped ==
    /\ accepted \in Seq(Message)
    /\ queue \in Seq(DOMAIN accepted)
    /\ written \in Seq([id : DOMAIN accepted, to : Connections])

SessionTyped ==
    /\ pc \in {"down", "open", "closing", "ended", "over"}
    /\ conn \in 0 .. MaxConn
    /\ online \in BOOLEAN
    /\ cancelled \in BOOLEAN
    /\ sender \in BOOLEAN
    /\ pending \subseteq Connections \X Answers
    /\ timers \subseteq Connections
    /\ sent \in [Connections -> Nat]

(* A connection that is open, or comes to its end, has been counted.         *)
OpenIsCounted == pc \in {"open", "closing", "ended"} => conn >= 1

(* InOrder, without the concatenation.                                       *)
WrittenGrows ==
    \A i, j \in DOMAIN written : i < j => written[i].id < written[j].id
QueueGrows == \A i, j \in DOMAIN queue : i < j => queue[i] < queue[j]
WrittenBeforeQueued ==
    \A i \in DOMAIN written : \A j \in DOMAIN queue : written[i].id < queue[j]
Ordered == WrittenGrows /\ QueueGrows /\ WrittenBeforeQueued

IInv == OpenIsCounted /\ Ordered /\ OneLossPerConnection

(* The two parts are the type invariant.                                     *)
LEMMA TypeParts == TypeOK <=> SessionTyped /\ QueueTyped
BY DEF TypeOK, SessionTyped, QueueTyped, Message, Kinds

(* The types and the invariant hold initially.                               *)
LEMMA InitIInv == Init => TypeOK /\ IInv
<1> SUFFICES ASSUME Init PROVE TypeOK /\ IInv
  OBVIOUS
<1>1. accepted = <<>> /\ queue = <<>> /\ written = <<>> /\ pc = "down" /\ conn = 0
  BY DEF Init
<1>2. SessionTyped
  <2>1. conn \in 0 .. MaxConn
    BY <1>1, TrafficAssumption
  <2>2. sent \in [Connections -> Nat]
    BY DEF Init
  <2> QED
    BY <2>1, <2>2 DEF Init, SessionTyped
<1>3. QueueTyped
  BY <1>1, EmptySeq DEF QueueTyped
<1>4. Ordered /\ OpenIsCounted
  BY <1>1 DEF Ordered, WrittenGrows, QueueGrows, WrittenBeforeQueued,
              OpenIsCounted
<1>5. OneLossPerConnection
  <2>1. Lost = {}
    BY <1>1 DEF Lost
  <2> QED
    BY <1>1, <2>1, FS_EmptySet DEF OneLossPerConnection
<1> QED
  BY <1>2, <1>3, <1>4, <1>5, TypeParts DEF IInv

-----------------------------------------------------------------------------
(* What is lost is finitely much, so that one more costs one more.           *)
LEMMA LostIsFinite ==
    ASSUME QueueTyped
    PROVE  IsFiniteSet(Lost) /\ Cardinality(Lost) \in Nat
<1>1. Len(accepted) \in Nat /\ DOMAIN accepted = 1 .. Len(accepted)
  BY DEF QueueTyped
<1>2. IsFiniteSet(1 .. Len(accepted))
  BY <1>1, FS_Interval
<1>3. Lost \subseteq 1 .. Len(accepted)
  BY <1>1 DEF Lost
<1> QED
  BY <1>2, <1>3, FS_Subset, FS_CardinalityType

(* A message that is queued is the last in line, and nothing is lost by it.  *)
LEMMA EnqueueStep ==
    ASSUME QueueTyped, Ordered, NEW kind \in Kinds, NEW k \in 0 .. MaxConn,
           pc # "over", Enqueue(kind, k)
    PROVE  QueueTyped' /\ Ordered' /\ Lost' = Lost
<1> DEFINE m == [kind |-> kind, on |-> k]
           n == Len(accepted) + 1
<1>1. accepted' = Append(accepted, m) /\ written' = written
  BY DEF Enqueue
<1>2. m \in Message
  BY DEF Message
<1>3. /\ accepted \in Seq(Message) /\ Len(accepted) \in Nat
      /\ DOMAIN accepted = 1 .. Len(accepted)
      /\ queue \in Seq(1 .. Len(accepted))
      /\ written \in Seq([id : 1 .. Len(accepted), to : Connections])
  <2>1. accepted \in Seq(Message)
    BY DEF QueueTyped
  <2>2. Len(accepted) \in Nat /\ DOMAIN accepted = 1 .. Len(accepted)
    BY <2>1, LenProperties
  <2> QED
    BY <2>1, <2>2 DEF QueueTyped
<1> HIDE DEF m
<1>4. /\ accepted' \in Seq(Message) /\ Len(accepted') = n
      /\ DOMAIN accepted' = 1 .. n
      /\ \A i \in 1 .. Len(accepted) : accepted'[i] = accepted[i]
  BY <1>1, <1>2, <1>3, AppendProperties
<1>5. queue' = Append(queue, n)
  BY <1>4 DEF Enqueue
<1>6. queue \in Seq(1 .. n) /\ queue' \in Seq(1 .. n)
  <2>1. 1 .. Len(accepted) \subseteq 1 .. n /\ n \in 1 .. n
    BY <1>3
  <2>2. queue \in Seq(1 .. n)
    BY <1>3, <2>1, SeqMonotonic
  <2> QED
    BY <1>5, <2>1, <2>2, AppendProperties
<1>7. QueueTyped'
  <2>1. [id : 1 .. Len(accepted), to : Connections]
           \subseteq [id : 1 .. n, to : Connections]
    BY <1>3
  <2>2. written \in Seq([id : 1 .. n, to : Connections])
    BY <1>3, <2>1, SeqMonotonic
  <2> QED
    BY <1>1, <1>4, <1>6, <2>2 DEF QueueTyped
<1>8. /\ \A i \in DOMAIN queue : queue[i] < n
      /\ \A i \in DOMAIN written : written[i].id < n
  <2>1. \A i \in DOMAIN queue : queue[i] \in 1 .. Len(accepted)
    BY <1>3
  <2>2. \A i \in DOMAIN written :
          written[i] \in [id : 1 .. Len(accepted), to : Connections]
    <3> DEFINE Out == [id : 1 .. Len(accepted), to : Connections]
    <3>1. written \in Seq(Out)
      BY <1>3
    <3> HIDE DEF Out
    <3>2. \A i \in DOMAIN written : written[i] \in Out
      BY <3>1, LenProperties, ElementOfSeq
    <3> QED
      BY <3>2 DEF Out
  <2>3. \A i \in DOMAIN written : written[i].id \in 1 .. Len(accepted)
    BY <2>2
  <2> QED
    BY <1>3, <2>1, <2>3
<1>9. Ordered'
  <2>1. DOMAIN queue = 1 .. Len(queue) /\ Len(queue) \in Nat
    BY <1>3
  <2>2. /\ DOMAIN queue' = 1 .. Len(queue) + 1
        /\ queue'[Len(queue) + 1] = n
        /\ \A i \in 1 .. Len(queue) : queue'[i] = queue[i]
    BY <1>3, <1>5
  <2>3. QueueGrows'
    BY <1>8, <2>1, <2>2 DEF Ordered, QueueGrows
  <2>4. WrittenGrows' /\ WrittenBeforeQueued'
    BY <1>1, <1>8, <2>1, <2>2 DEF Ordered, WrittenGrows, WrittenBeforeQueued
  <2> QED
    BY <2>3, <2>4 DEF Ordered
<1>10. Lost' = Lost
  <2>1. \A x : (\A i \in DOMAIN queue' : queue'[i] # x)
                 <=> x # n /\ \A i \in DOMAIN queue : queue[i] # x
    <3> DEFINE Ids == 1 .. n
    <3>1. n \in Ids /\ queue \in Seq(Ids)
      BY <1>3, <1>6
    <3> HIDE DEF n, Ids
    <3> QED
      BY <1>5, <3>1, InAppend
  <2>2. \A id \in 1 .. n : id # n => id \in 1 .. Len(accepted)
    <3>1. Len(accepted) \in Nat
      BY <1>3
    <3> QED
      BY <3>1
  <2>3. \A id \in 1 .. Len(accepted) : id \in 1 .. n /\ id # n
    BY <1>3
  <2>4. \A id \in 1 .. Len(accepted) : Kind(id)' = Kind(id)
    BY <1>4 DEF Kind
  <2>5. \A id : id \in Lost' <=> id \in Lost
    BY <1>1, <1>3, <1>4, <2>1, <2>2, <2>3, <2>4 DEF Lost
  <2> QED
    BY <2>5 DEF Lost
<1> QED
  BY <1>7, <1>9, <1>10

(* The first in line is taken: the rest is still in order.                   *)
LEMMA TakeStep ==
    ASSUME QueueTyped, Ordered, OpenIsCounted, SessionTyped, pc = "open",
           queue # <<>>, queue' = Tail(queue), accepted' = accepted,
           \/ written' = written
           \/ written' = Append(written, [id |-> Head(queue), to |-> conn])
    PROVE  QueueTyped' /\ Ordered'
<1> DEFINE w == [id |-> Head(queue), to |-> conn]
<1>1. /\ queue \in Seq(DOMAIN accepted) /\ Head(queue) \in DOMAIN accepted
      /\ queue' \in Seq(DOMAIN accepted)
      /\ written \in Seq([id : DOMAIN accepted, to : Connections])
  BY DEF QueueTyped
<1>2. w \in [id : DOMAIN accepted, to : Connections]
  BY <1>1, TrafficAssumption DEF SessionTyped, OpenIsCounted, Connections
<1>3. w.id = Head(queue) /\ (written' = written \/ written' = Append(written, w))
  OBVIOUS
<1> HIDE DEF w
<1>4. written' \in Seq([id : DOMAIN accepted, to : Connections])
  <2> DEFINE Out == [id : DOMAIN accepted, to : Connections]
  <2>1. written \in Seq(Out) /\ w \in Out
    BY <1>1, <1>2
  <2> HIDE DEF Out
  <2>2. Append(written, w) \in Seq(Out)
    BY <2>1, AppendProperties
  <2> QED
    BY <1>3, <2>1, <2>2 DEF Out
<1>5. QueueTyped'
  BY <1>1, <1>4 DEF QueueTyped
<1>6. /\ DOMAIN accepted \subseteq Nat
      /\ DOMAIN queue = 1 .. Len(queue) /\ Len(queue) \in Nat /\ Len(queue) > 0
      /\ DOMAIN written = 1 .. Len(written) /\ Len(written) \in Nat
  BY <1>1 DEF QueueTyped
<1>7. /\ Head(queue) = queue[1] /\ DOMAIN queue' = 1 .. (Len(queue) - 1)
      /\ \A i \in DOMAIN queue' : queue'[i] = queue[i + 1]
  BY <1>1
<1>8. QueueGrows'
  BY <1>6, <1>7 DEF Ordered, QueueGrows
<1>9. CASE written' = written
  BY <1>5, <1>6, <1>7, <1>8, <1>9
     DEF Ordered, WrittenGrows, WrittenBeforeQueued
<1>10. CASE written' = Append(written, w)
  <2>1. /\ DOMAIN written' = 1 .. Len(written) + 1
        /\ written'[Len(written) + 1] = w
        /\ \A i \in DOMAIN written : written'[i] = written[i]
    BY <1>1, <1>2, <1>10
  <2>2. \A i \in DOMAIN written : written[i].id < queue[1]
    BY <1>6 DEF Ordered, WrittenBeforeQueued
  <2>3. WrittenGrows'
    BY <1>3, <1>6, <1>7, <2>1, <2>2 DEF Ordered, WrittenGrows
  <2>4. WrittenBeforeQueued'
    BY <1>3, <1>6, <1>7, <2>1, <2>2
       DEF Ordered, QueueGrows, WrittenBeforeQueued
  <2> QED
    BY <1>5, <1>8, <2>3, <2>4 DEF Ordered
<1> QED
  BY <1>3, <1>9, <1>10

(* What the head of the queue costs: nothing if it goes out, at most itself  *)
(* if it does not, and nothing if it has no bytes.                           *)
LEMMA HeadIsLost ==
    ASSUME QueueTyped, queue # <<>>, queue' = Tail(queue), accepted' = accepted,
           written' = written
    PROVE  /\ Lost' \subseteq Lost \cup {Head(queue)}
           /\ Kind(Head(queue)) = "close" => Lost' \subseteq Lost
<1>1. queue \in Seq(DOMAIN accepted)
  BY DEF QueueTyped
<1>2. \A x : (\A i \in DOMAIN queue : queue[i] # x)
               <=> x # Head(queue) /\ \A i \in DOMAIN queue' : queue'[i] # x
  BY <1>1, InTail
<1>3. \A id \in DOMAIN accepted : Kind(id)' = Kind(id)
  BY DEF Kind
<1>4. \A id \in Lost' : id \in Lost \/ (id = Head(queue) /\ Kind(id) # "close")
  BY <1>2, <1>3 DEF Lost
<1> QED
  BY <1>4

(* A message that moves from the head of the queue to the wire is not lost:  *)
(* no message gets lost by it.                                               *)
LEMMA HeadIsWritten ==
    ASSUME QueueTyped, queue # <<>>, queue' = Tail(queue), accepted' = accepted,
           NEW k \in Connections,
           written' = Append(written, [id |-> Head(queue), to |-> k])
    PROVE  Lost' \subseteq Lost
<1> DEFINE Out == [id : DOMAIN accepted, to : Connections]
           w == [id |-> Head(queue), to |-> k]
<1>1. queue \in Seq(DOMAIN accepted) /\ Head(queue) \in DOMAIN accepted
  BY DEF QueueTyped
<1>2. \A x : (\A i \in DOMAIN queue : queue[i] # x)
               <=> x # Head(queue) /\ \A i \in DOMAIN queue' : queue'[i] # x
  BY <1>1, InTail
<1>3. written \in Seq(Out) /\ w \in Out /\ w.id = Head(queue)
  BY <1>1 DEF QueueTyped
<1> HIDE DEF Out, w
<1>4. /\ DOMAIN written = 1 .. Len(written) /\ Len(written) \in Nat
      /\ DOMAIN written' = 1 .. Len(written) + 1
      /\ written'[Len(written) + 1].id = Head(queue)
      /\ \A i \in DOMAIN written : written'[i].id = written[i].id
  BY <1>3, AppendProperties DEF w
<1>5. \A x : (\A i \in DOMAIN written' : written'[i].id # x)
               => x # Head(queue) /\ \A i \in DOMAIN written : written[i].id # x
  <2>1. /\ Len(written) + 1 \in DOMAIN written'
        /\ \A i \in DOMAIN written : i \in DOMAIN written'
    BY <1>4
  <2> QED
    BY <1>4, <2>1
<1>6. \A id \in DOMAIN accepted : Kind(id)' = Kind(id)
  BY DEF Kind
<1> QED
  BY <1>2, <1>5, <1>6 DEF Lost

(* Losing no more than before keeps the bound, unless the connection is a    *)
(* new one, which raises it.                                                 *)
LEMMA NoMoreLost ==
    ASSUME QueueTyped, QueueTyped', OneLossPerConnection, SessionTyped,
           Lost' \subseteq Lost,
           \/ conn' = conn /\ pc' \in {pc, "over"}
           \/ conn' = conn /\ pc = "open" /\ pc' = "closing"
           \/ conn' = conn /\ pc \in {"closing", "ended"} /\ pc' \in {"ended", "down"}
           \/ pc = "down" /\ pc' = "open" /\ conn' = conn + 1
    PROVE  OneLossPerConnection'
<1>1. IsFiniteSet(Lost) /\ Cardinality(Lost) \in Nat
  BY LostIsFinite
<1>2. Cardinality(Lost') \in Nat /\ Cardinality(Lost') <= Cardinality(Lost)
  BY <1>1, FS_Subset, FS_CardinalityType
<1>3. conn \in Nat
  BY TrafficAssumption DEF SessionTyped
<1> QED
  BY <1>1, <1>2, <1>3 DEF OneLossPerConnection

(* A connection that breaks on a write loses what it was writing.            *)
LEMMA OneMoreLost ==
    ASSUME QueueTyped, QueueTyped', OneLossPerConnection, SessionTyped,
           NEW id, Lost' \subseteq Lost \cup {id},
           conn' = conn, pc = "open", pc' = "closing"
    PROVE  OneLossPerConnection'
<1>1. IsFiniteSet(Lost) /\ Cardinality(Lost) \in Nat
  BY LostIsFinite
<1>2. /\ IsFiniteSet(Lost \cup {id})
      /\ Cardinality(Lost \cup {id}) \in {Cardinality(Lost), Cardinality(Lost) + 1}
  BY <1>1, FS_AddElement
<1>3. /\ Cardinality(Lost') \in Nat
      /\ Cardinality(Lost') <= Cardinality(Lost \cup {id})
  BY <1>2, FS_Subset, FS_CardinalityType
<1>4. conn \in Nat
  BY TrafficAssumption DEF SessionTyped
<1> QED
  BY <1>1, <1>2, <1>3, <1>4 DEF OneLossPerConnection

-----------------------------------------------------------------------------
(* send(), the tasks that answer and the timed-send task put a message into  *)
(* the queue, or drop it when the receiver is gone.                          *)
LEMMA FillStep ==
    ASSUME TypeOK, IInv,
           \/ SendQueued
           \/ \E k \in Connections, answer \in Answers : Answer(k, answer)
           \/ \E k \in Connections : Tick(k)
    PROVE  TypeOK' /\ IInv'
<1> USE TypeParts
<1>1. PICK kind \in Kinds, k \in 0 .. MaxConn : Enqueue(kind, k)
  <2>1. Connections \subseteq 0 .. MaxConn /\ conn \in 0 .. MaxConn
    BY TrafficAssumption DEF Connections, SessionTyped
  <2>2. {"sent", "timed"} \cup Answers \subseteq Kinds
    BY DEF Kinds
  <2> QED
    BY <2>1, <2>2 DEF SendQueued, Answer, Tick
<1>2. UNCHANGED <<pc, conn, online, cancelled>>
  BY DEF SendQueued, Answer, Tick, sessionVars
<1>3. SessionTyped'
  <2>1. CASE SendQueued
    BY <1>2, <2>1 DEF SendQueued, SessionTyped
  <2>2. CASE \E c \in Connections, answer \in Answers : Answer(c, answer)
    BY <1>2, <2>2 DEF Answer, SessionTyped
  <2>3. CASE \E c \in Connections : Tick(c)
    BY <1>2, <2>3 DEF Tick, SessionTyped
  <2> QED
    BY <2>1, <2>2, <2>3
<1>4. QueueTyped' /\ Ordered' /\ Lost' = Lost
  <2>1. CASE pc = "over"
    BY <1>1, <2>1
       DEF Enqueue, queueVars, QueueTyped, IInv, Ordered, WrittenGrows,
           QueueGrows, WrittenBeforeQueued, Lost, Kind
  <2>2. CASE pc # "over"
    BY <1>1, <2>2, EnqueueStep DEF IInv
  <2> QED
    BY <2>1, <2>2
<1>5. OneLossPerConnection'
  BY <1>2, <1>4, NoMoreLost DEF IInv
<1>6. OpenIsCounted'
  BY <1>2 DEF IInv, OpenIsCounted
<1>7. TypeOK'
  BY <1>3, <1>4 DEF TypeOK, SessionTyped, QueueTyped, Message, Kinds
<1> QED
  BY <1>4, <1>5, <1>6, <1>7 DEF IInv

(* The connection writes, or fails to.                                       *)
LEMMA DeliverStep ==
    ASSUME TypeOK, IInv, Deliver
    PROVE  TypeOK' /\ IInv'
<1> USE TypeParts
<1>1. /\ pc = "open" /\ pc' \in {"open", "closing"} /\ queue # <<>>
      /\ queue' = Tail(queue)
      /\ UNCHANGED <<conn, online, cancelled, sender, pending, timers, sent,
                     accepted>>
  BY DEF Deliver, Write, WriteFails, writerVars
<1>2. conn \in Connections
  BY <1>1, TrafficAssumption
     DEF IInv, OpenIsCounted, SessionTyped, Connections
<1>3. \/ written' = written
      \/ written' = Append(written, [id |-> Head(queue), to |-> conn])
  BY DEF Deliver, Write, WriteFails
<1>4. SessionTyped'
  BY <1>1 DEF SessionTyped
<1>5. QueueTyped' /\ Ordered'
  BY <1>1, <1>3, TakeStep DEF IInv
<1>6. OneLossPerConnection'
  <2>1. CASE written' = written
    <3>1. CASE Kind(Head(queue)) = "close"
      BY <1>1, <1>5, <2>1, <3>1, HeadIsLost, NoMoreLost DEF IInv
    <3>2. CASE Kind(Head(queue)) # "close"
      <4>1. pc' = "closing" \/ written' = Append(written, [id |-> Head(queue), to |-> conn])
        BY <3>2 DEF Deliver, Write, WriteFails
      <4>2. CASE pc' = "closing"
        BY <1>1, <1>5, <2>1, <4>2, HeadIsLost, OneMoreLost DEF IInv
      <4>3. CASE written' = Append(written, [id |-> Head(queue), to |-> conn])
        BY <1>1, <1>2, <1>5, <4>3, HeadIsWritten, NoMoreLost DEF IInv
      <4> QED
        BY <4>1, <4>2, <4>3
    <3> QED
      BY <3>1, <3>2
  <2>2. CASE written' = Append(written, [id |-> Head(queue), to |-> conn])
    BY <1>1, <1>2, <1>5, <2>2, HeadIsWritten, NoMoreLost DEF IInv
  <2> QED
    BY <1>3, <2>1, <2>2
<1>7. OpenIsCounted'
  BY <1>1 DEF IInv, OpenIsCounted
<1>8. TypeOK'
  BY <1>4, <1>5 DEF TypeOK, SessionTyped, QueueTyped, Message, Kinds
<1> QED
  BY <1>5, <1>6, <1>7, <1>8 DEF IInv

(* The task ends and drops what waits: from then on nothing is promised.     *)
LEMMA EndStep ==
    ASSUME TypeOK, IInv, Ends,
           UNCHANGED <<conn, cancelled, sender, pending, timers, sent>>,
           online' \in {online, FALSE}
    PROVE  TypeOK' /\ IInv'
<1> USE TypeParts
<1>1. pc' = "over" /\ queue' = <<>> /\ UNCHANGED <<accepted, written>>
  BY DEF Ends
<1>2. SessionTyped'
  BY <1>1 DEF SessionTyped
<1>3. QueueTyped'
  BY <1>1, EmptySeq DEF QueueTyped
<1>4. Ordered'
  BY <1>1 DEF IInv, Ordered, WrittenGrows, QueueGrows, WrittenBeforeQueued
<1>5. OpenIsCounted' /\ OneLossPerConnection'
  BY <1>1 DEF OpenIsCounted, OneLossPerConnection
<1>6. TypeOK'
  BY <1>2, <1>3 DEF TypeOK, SessionTyped, QueueTyped, Message, Kinds
<1> QED
  BY <1>4, <1>5, <1>6 DEF IInv

(* A step that leaves the queue alone.                                       *)
LEMMA QuietStep ==
    ASSUME TypeOK, IInv, UNCHANGED queueVars, SessionTyped', OpenIsCounted',
           \/ conn' = conn /\ pc' \in {pc, "over"}
           \/ conn' = conn /\ pc = "open" /\ pc' = "closing"
           \/ conn' = conn /\ pc \in {"closing", "ended"} /\ pc' \in {"ended", "down"}
           \/ pc = "down" /\ pc' = "open" /\ conn' = conn + 1
    PROVE  TypeOK' /\ IInv'
<1>1. UNCHANGED <<accepted, queue, written>>
  BY DEF queueVars
<1>2. QueueTyped /\ SessionTyped
  BY TypeParts
<1>3. QueueTyped' /\ Ordered' /\ Lost' = Lost
  BY <1>1, <1>2 DEF QueueTyped, IInv, Ordered, WrittenGrows, QueueGrows,
                    WrittenBeforeQueued, Lost, Kind
<1>4. OneLossPerConnection'
  BY <1>2, <1>3, NoMoreLost DEF IInv
<1>5. TypeOK'
  BY <1>3 DEF TypeOK, SessionTyped, QueueTyped, Message, Kinds
<1> QED
  BY <1>3, <1>4, <1>5 DEF IInv

(* Every step preserves the types and the invariant.                         *)
LEMMA NextIInv == TypeOK /\ IInv /\ [Next]_vars => TypeOK' /\ IInv'
<1> SUFFICES ASSUME TypeOK, IInv, [Next]_vars PROVE TypeOK' /\ IInv'
  OBVIOUS
<1>1. SessionTyped /\ OpenIsCounted
  BY TypeParts DEF IInv
<1> USE TrafficAssumption
    DEF sessionVars, writerVars, queueVars, SessionTyped, OpenIsCounted
<1>2. CASE \/ SendQueued
           \/ \E k \in Connections, answer \in Answers : Answer(k, answer)
           \/ \E k \in Connections : Tick(k)
  BY <1>2, FillStep
<1>3. CASE Deliver
  BY <1>3, DeliverStep
<1>4. CASE GiveUp \/ LoopEnds
  BY <1>4, EndStep DEF GiveUp, LoopEnds
<1>5. CASE Cleanup
  <2>1. CASE Ends
    BY <1>5, <2>1, EndStep DEF Cleanup
  <2>2. CASE pc' = "down" /\ UNCHANGED queueVars
    BY <1>1, <1>5, <2>2, QuietStep DEF Cleanup
  <2> QED
    BY <1>5, <2>1, <2>2 DEF Cleanup
<1>6. CASE SendChecked
  BY <1>1, <1>6, QuietStep DEF SendChecked
<1>7. CASE \E k \in Connections, answer \in Answers : AnswerCancelled(k, answer)
  BY <1>1, <1>7, QuietStep DEF AnswerCancelled
<1>8. CASE \E k \in Connections : TimerStops(k)
  BY <1>1, <1>8, QuietStep DEF TimerStops
<1>9. CASE Open
  <2>1. conn' \in Connections /\ conn' >= 1
    BY <1>1, <1>9 DEF Open, Connections
  <2>2. timers' \subseteq Connections
    BY <1>1, <1>9, <2>1 DEF Open
  <2>3. SessionTyped' /\ OpenIsCounted'
    BY <1>1, <1>9, <2>1, <2>2 DEF Open, Connections
  <2> QED
    BY <1>9, <2>3, QuietStep DEF Open
<1>10. CASE Receive
  <2>1. conn \in Connections
    BY <1>1, <1>10 DEF Receive, Connections
  <2> QED
    BY <1>1, <1>10, <2>1, QuietStep DEF Receive, Spawn
<1>11. CASE Drop \/ SeesCancel
  BY <1>1, <1>11, QuietStep DEF Drop, SeesCancel
<1>12. CASE Flush
  <2>1. conn \in Connections
    BY <1>1, <1>12 DEF Flush, Connections
  <2>2. pending' \subseteq Connections \X Answers
    <3>1. \A answer \in Answers : <<conn, answer>> \in Connections \X Answers
      BY <2>1
    <3>2. pending' = pending \/ \E answer \in Answers :
                                   pending' = pending \cup {<<conn, answer>>}
      BY <1>12 DEF Flush, Spawn
    <3> QED
      BY <1>1, <3>1, <3>2
  <2> QED
    BY <1>1, <1>12, <2>2, QuietStep DEF Flush
<1>13. CASE StopCancel \/ StopLocked
  BY <1>1, <1>13, QuietStep DEF StopCancel, StopLocked
<1>14. CASE UNCHANGED vars
  BY <1>1, <1>14, QuietStep DEF vars
<1> HIDE DEF SessionTyped, OpenIsCounted
<1> QED
  BY <1>2, <1>3, <1>4, <1>5, <1>6, <1>7, <1>8, <1>9, <1>10, <1>11, <1>12,
     <1>13, <1>14
     DEF Next, Task, Terminated

-----------------------------------------------------------------------------
(* The inductive invariant, with the types, holds in every reachable state.  *)
THEOREM Inductive == Spec => [](TypeOK /\ IInv)
BY InitIInv, NextIInv, PTL DEF Spec

(* Type correctness.                                                         *)
THEOREM TypeCorrect == Spec => []TypeOK
BY Inductive, PTL

(* Nothing is written twice and nothing overtakes, across reconnects too.    *)
THEOREM QueueKeepsOrder == Spec => []InOrder
<1>1. TypeOK /\ IInv => InOrder
  <2> SUFFICES ASSUME TypeOK, IInv PROVE InOrder
    OBVIOUS
  <2> DEFINE out == [i \in DOMAIN written |-> written[i].id]
             n == Len(written)
             ids == out \o queue
  <2>1. DOMAIN written = 1 .. n /\ n \in Nat
    BY TypeParts DEF QueueTyped
  <2>2. queue \in Seq(Nat) /\ DOMAIN queue = 1 .. Len(queue) /\ Len(queue) \in Nat
    <3>1. DOMAIN accepted \subseteq Nat
      BY TypeParts DEF QueueTyped
    <3> QED
      BY <3>1, TypeParts, SeqMonotonic DEF QueueTyped
  <2>3. out \in Seq(Nat) /\ Len(out) = n
    <3> DEFINE Out == [id : DOMAIN accepted, to : Connections]
    <3>1. written \in Seq(Out) /\ DOMAIN accepted \subseteq Nat
      BY TypeParts DEF QueueTyped
    <3> HIDE DEF Out
    <3>2. \A i \in 1 .. n : written[i] \in Out
      BY <3>1, ElementOfSeq
    <3>3. \A i \in 1 .. n : written[i].id \in Nat
      BY <3>1, <3>2 DEF Out
    <3> USE <3>3
    <3> QED
      BY <2>1, <3>2
  <2> HIDE DEF out
  <2>4. /\ DOMAIN ids = 1 .. (n + Len(queue))
        /\ \A i \in 1 .. n : ids[i] = out[i]
        /\ \A i \in 1 .. Len(queue) : ids[n + i] = queue[i]
    <3>1. out \in Seq(Nat) /\ queue \in Seq(Nat)
      BY <2>2, <2>3
    <3>2. /\ DOMAIN ids = 1 .. Len(out) + Len(queue)
          /\ \A i \in 1 .. Len(out) : ids[i] = out[i]
          /\ \A i \in 1 .. Len(queue) : ids[Len(out) + i] = queue[i]
      BY <3>1
    <3> HIDE DEF ids, n
    <3> QED
      BY <2>3, <3>2
  <2>5. \A i \in 1 .. n : out[i] = written[i].id
    BY <2>1 DEF out
  <2> SUFFICES ASSUME NEW i \in DOMAIN ids, NEW j \in DOMAIN ids, i < j
               PROVE  ids[i] < ids[j]
    BY DEF InOrder, out
  <2> HIDE DEF ids, n
  <2>6. CASE j <= n
    BY <2>1, <2>4, <2>5, <2>6, <2>2 DEF IInv, Ordered, WrittenGrows
  <2>7. CASE i <= n /\ j > n
    <3>1. j - n \in 1 .. Len(queue) /\ n + (j - n) = j /\ i \in 1 .. n
      BY <2>1, <2>2, <2>4, <2>7
    <3>2. ids[j] = queue[j - n] /\ ids[i] = written[i].id
      BY <2>4, <2>5, <3>1
    <3> QED
      BY <2>1, <2>2, <3>1, <3>2 DEF IInv, Ordered, WrittenBeforeQueued
  <2>8. CASE i > n
    <3>1. /\ i - n \in 1 .. Len(queue) /\ n + (i - n) = i
          /\ j - n \in 1 .. Len(queue) /\ n + (j - n) = j /\ i - n < j - n
      BY <2>1, <2>2, <2>4, <2>8
    <3>2. ids[i] = queue[i - n] /\ ids[j] = queue[j - n]
      BY <2>4, <3>1
    <3> QED
      BY <2>2, <3>1, <3>2 DEF IInv, Ordered, QueueGrows
  <2> QED
    BY <2>1, <2>2, <2>4, <2>6, <2>7, <2>8
<1> QED
  BY Inductive, <1>1, PTL

(* A connection that breaks costs one message at most.                       *)
THEOREM LossIsBounded == Spec => []OneLossPerConnection
<1>1. IInv => OneLossPerConnection
  BY DEF IInv
<1> QED
  BY Inductive, <1>1, PTL

=============================================================================
