------------------------------- MODULE Exchange -------------------------------
(* The journey of a message from one session to another over TCP: it is      *)
(* built from a request (send_message in commands.rs), crosses the network   *)
(* in pieces of any size, is cut into frames again by the receiver's framer, *)
(* and each frame is shown and answered by the receiver's rules (Ctx.inbound *)
(* in session/mod.rs).  The receiver runs a configuration that was accepted  *)
(* when it was saved.                                                        *)

EXTENDS AutoReply

CONSTANTS
    Requests,  \* the requests the sender may send
    Sessions,  \* the configurations somebody tries to save for the receiver
    MaxSends   \* bound on the messages

ASSUME ExchangeAssumption ==
    /\ MaxSends \in Nat
    /\ \A r \in Requests : IsRequest(r)
    /\ \A c \in Sessions : /\ IsText(c.name) /\ c.kind \in Kinds
                           /\ IsText(c.host) /\ c.port \in Nat
                           /\ c.framing.mode \in {"none", "delimiter", "fixed"}
                           /\ IsText(c.framing.delimiterHex)
                           /\ c.framing.fixedLen \in Nat
                           /\ c.recvEncoding \in Encodings
                           /\ c.sendEncoding \in Encodings
                           /\ IsAutoReply(c.autoReply)
                           /\ IsTimedSend(c.timedSend)

VARIABLES
    session,   \* the receiver's configuration
    sent,      \* the requests that were sent, with what was built of them
    wire,      \* bytes on their way
    cfg, buf, draining, fed, frames,            \* the receiver's Framer, as
    resynced, closed, slept, silence, outs,     \* module Framer has it
    plans      \* for each frame that was handled, the answer planned

framerVars == <<cfg, buf, draining, fed, frames, resynced, closed, slept, silence, outs>>
vars == <<session, sent, wire, framerVars, plans>>

(* Framer::new: a delimiter that is no hexadecimal is a line feed.           *)
Delimiter(framing) ==
    IF IsHex(framing.delimiterHex) THEN SetToSeq(ParseHex(framing.delimiterHex))[1]
                                   ELSE <<10>>

NewFramer(c) ==
    [mode |-> c.framing.mode, delimiter |-> Delimiter(c.framing),
     fixedLen |-> c.framing.fixedLen, lenOffset |-> 0, lenSize |-> 1,
     bigEndian |-> TRUE, includesHeader |-> FALSE, timeoutMs |-> 1]

MaxPayload == 32

Rx == INSTANCE Framer
          WITH ByteBase <- 256, UsizeBytes <- 8, Byte <- 0 .. 255,
               Configs <- {NewFramer(c) : c \in Sessions},
               MaxFed <- MaxSends * MaxPayload, MaxOut <- 0

TypeOK ==
    /\ session \in Sessions
    /\ Len(sent) <= MaxSends
    /\ wire \in Seq(0 .. 255)
    /\ Rx!TypeOK
    /\ Len(plans) <= Len(frames)

Init ==
    /\ session \in {c \in Sessions : Validate(c)}
    /\ sent = <<>>
    /\ wire = <<>>
    /\ Rx!Init
    /\ cfg = NewFramer(session)
    /\ plans = <<>>

-----------------------------------------------------------------------------
(* send_message(): a request that cannot be built or is empty is refused and *)
(* changes nothing.                                                          *)
Send(r) ==
    /\ ~closed
    /\ Len(sent) < MaxSends
    /\ \E p \in BuildPayload(r) :
         /\ p.bytes # <<>>
         /\ sent' = Append(sent, [request |-> r, payload |-> p])
         /\ wire' = wire \o p.bytes
    /\ UNCHANGED <<session, framerVars, plans>>

(* The network hands over what it likes of the bytes on their way.           *)
Deliver ==
    /\ Len(plans) = Len(frames)
    /\ UNCHANGED <<session, sent, plans>>
    /\ \E n \in 1 .. Len(wire) : Rx!Feed(SubSeq(wire, 1, n)) /\ wire' = Drop(wire, n)

(* feed() makes every frame of a chunk before the first is handled.          *)
Cut == UNCHANGED <<session, sent, wire, plans>> /\ (Rx!Drain \/ Rx!Drained)

(* inbound() for the next frame.                                             *)
Handle ==
    /\ ~draining
    /\ Len(plans) < Len(frames)
    /\ plans' = Append(plans, EvaluateAutoReply(session.autoReply, frames[Len(plans) + 1],
                                                session.recvEncoding, session.sendEncoding))
    /\ UNCHANGED <<session, sent, wire, framerVars>>

(* The sender closes once everything is through: the rest is flushed.        *)
Close ==
    /\ wire = <<>>
    /\ Len(plans) = Len(frames)
    /\ UNCHANGED <<session, sent, wire, plans>>
    /\ Rx!Disconnect

Terminated == closed /\ Len(plans) = Len(frames) /\ UNCHANGED vars

Next ==
    \/ \E r \in Requests : Send(r)
    \/ Deliver \/ Cut \/ Handle \/ Close
    \/ Terminated

Spec == Init /\ [][Next]_vars

-----------------------------------------------------------------------------
(* The texts an encoding can carry.  A byte order mark at the beginning of a *)
(* text in UTF-8 is not one: the receiver takes it for a mark.               *)
Carries(encoding, text) ==
    CASE encoding = "ascii" -> \A i \in DOMAIN text : text[i] < 128
      [] encoding = "latin-1" -> \A i \in DOMAIN text : text[i] < 256
      [] encoding = "utf-8" -> ~IsPrefix(<<65279>>, text)
      [] OTHER -> TRUE

(* The bytes of a line ending are appended as they are: in UTF-16 they stand *)
(* for an end of line only where the missing half of it may be zero.         *)
EndingReads(r, ending) ==
    CASE r.encoding = "utf-16be" -> ending = <<>>
      [] r.encoding = "utf-16le" -> Len(ending) <= 1
      [] OTHER -> \A i \in DOMAIN ending : ending[i] < 128

(* A text the receiver can read, and its ending.                             *)
Readable(r) ==
    /\ r.format = "text"
    /\ r.encoding = session.recvEncoding
    /\ Carries(r.encoding, TextOf(r))
    /\ \E e \in Ending(r) : EndingReads(r, e)
Line(r) == TextOf(r) \o SetToSeq(Ending(r))[1]

Showable(text) ==
    text # <<>> /\ \A i \in DOMAIN text : IsControl(text[i]) => text[i] \in {9, 10, 13}

(* What the user types is what the other side is shown: a frame that is one  *)
(* message, whole and without checksum, reads as the text and its ending and *)
(* is shown as text unless it has control characters or half a unit.  The    *)
(* hexadecimal and the base64 the interface has of any frame are read back   *)
(* as that frame.                                                            *)
ShownAsSent ==
    /\ \A i \in DOMAIN frames :
          /\ ParseHex(ToHex(frames[i])) = {frames[i]}
          /\ FromBase64(ToBase64(frames[i])) = {frames[i]}
    /\ \A i \in DOMAIN frames, m \in Range(sent) :
          frames[i] = m.payload.bytes /\ m.request.checksum = "none" /\ Readable(m.request)
            => LET shown == Classify(frames[i], session.recvEncoding)
                   half == m.request.encoding = "utf-16le" /\ Ending(m.request) # {<<>>}
               IN  /\ shown.text = Line(m.request)
                   /\ shown.isText <=> Showable(Line(m.request)) /\ ~half

(* Everything that was sent has been delivered and handled.                  *)
AllHandled == wire = <<>> /\ ~draining /\ Len(plans) = Len(frames)

LineEnds == {10, 13}

IsLine(m) ==
    /\ Readable(m.request)
    /\ m.request.checksum = "none"
    /\ TrimLineEnd(TextOf(m.request)) = TextOf(m.request)
    /\ Ending(m.request) = {Delimiter(session.framing)} \cap Seq(LineEnds)
    /\ ~Occurs(Delimiter(session.framing), Front(m.payload.bytes))

(* The rules that a line is to hit.  A regular expression is searched in the *)
(* line and its end, so that one with an anchor may miss what was typed; the *)
(* others decide on the text that was typed.                                 *)
LineHits(ar, m) ==
    {i \in DOMAIN ar.rules :
        LET r == ar.rules[i]
            text == IF r.matchKind = "regex" THEN Line(m.request) ELSE TextOf(m.request)
        IN  r.enabled /\ Hit(r, text, m.payload.bytes)}

(* A receiver that frames by the line end its sender appends hears each line *)
(* as one message, in order and however the network cut them, and the first  *)
(* rule that the line is to hit answers it, as if it had come alone.         *)
RulesHearEachLine ==
    /\ session.framing.mode = "delimiter"
    /\ \A m \in Range(sent) : IsLine(m)
    /\ \A r \in Range(session.autoReply.rules) : Range(r.pattern) \cap LineEnds = {}
    /\ AllHandled
    => /\ Len(plans) = Len(sent)
       /\ session.autoReply.enabled =>
            \A k \in DOMAIN sent :
                plans[k] = Evaluate(session.autoReply, LineHits(session.autoReply, sent[k]),
                                    sent[k].payload.bytes, session.sendEncoding)

(* A receiver that checks a payload succeeds.  The checksum starts where the *)
(* offset says and covers everything before it, the line ending too: over    *)
(* the whole payload, low byte first, a CRC then leaves a constant.          *)
ChecksumVerifies == \A m \in Range(sent) :
    LET r == m.request
        b == m.payload.bytes
        off == CHOOSE n \in m.payload.checksumOffset : TRUE
        sum == IF r.checksumBigEndian THEN Reverse(Drop(b, off)) ELSE Drop(b, off)
        over(bytes) == Checksum(bytes, r.checksum, FALSE)
    IN  r.checksum # "none" =>
          /\ Len(b) > off
          /\ \A e \in Ending(r) : IsSuffix(e, SubSeq(b, 1, off))
          /\ CASE r.checksum = "xor" -> over(b) = <<0>>
               [] r.checksum = "sum8" -> over(SubSeq(b, 1, off)) = sum
               [] OTHER -> over(SubSeq(b, 1, off) \o sum) = over(over(<<>>))

(* A configuration that was accepted works: the framer cuts at the delimiter *)
(* that is written in it, a rule that is hit answers, and so does the timed  *)
(* send.  Base64 is not looked at when a configuration is saved, and nor is  *)
(* the default answer.                                                       *)
Checked(format) == format \in {"text", "hex"}
AcceptedConfigWorks ==
    /\ session.framing.mode = "delimiter" =>
         ParseHex(session.framing.delimiterHex) = {Delimiter(session.framing)}
    /\ session.timedSend.enabled /\ Checked(session.timedSend.format) =>
         BuildPayload(PlainRequest(session.timedSend.format, session.timedSend.content,
                                   session.sendEncoding)) # {}
    /\ \A i \in DOMAIN plans :
         LET text == DecodeText(frames[i], session.recvEncoding).text
             hits == Hits(session.autoReply, text, frames[i])
         IN  session.autoReply.enabled /\ plans[i] = {} /\ hits # {} =>
               ~Checked(session.autoReply.rules[Min(hits)].format)
=============================================================================
