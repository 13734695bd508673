-------------------------------- MODULE Framer --------------------------------
(* The framer of one TCP connection (src-tauri/src/framing.rs): it cuts the  *)
(* byte stream, which arrives in chunks of any size, into frames by the      *)
(* session's rule.  feed() is one call; here its loop takes one Drain step   *)
(* per frame, and no other chunk arrives while it is draining.               *)
(*                                                                           *)
(* The timer of timeout mode is part of the module: run_connection creates   *)
(* it anew on every turn of its select loop, so a message that goes out      *)
(* starts it over just as bytes that come in do.                             *)

EXTENDS Naturals, Sequences, SequencesExt

CONSTANTS
    ByteBase,    \* the values of a byte, 256 in the code
    UsizeBytes,  \* the width of usize: 8, or 4 in a 32-bit build
    Byte,        \* the bytes that arrive
    Configs,     \* the Framing settings to start from
    MaxFed,      \* bound on the bytes of a connection
    MaxOut       \* bound on the messages that go out meanwhile

Modes == {"none", "delimiter", "lengthPrefix", "fixed", "timeout"}

CuttingModes == {"delimiter", "lengthPrefix", "fixed"}

ASSUME FramerAssumption ==
    /\ ByteBase \in Nat \ {0, 1}
    /\ UsizeBytes \in {4, 8}
    /\ Byte \subseteq 0 .. ByteBase - 1
    /\ MaxFed \in Nat
    /\ MaxOut \in Nat
    /\ Configs \subseteq [mode : Modes, delimiter : Seq(0 .. ByteBase - 1),
                          fixedLen : Nat, lenOffset : Nat, lenSize : Nat,
                          bigEndian : BOOLEAN, includesHeader : BOOLEAN,
                          timeoutMs : Nat]

VARIABLES
    cfg,       \* Framer.cfg and Framer.delimiter
    buf,       \* Framer.buf
    draining,  \* feed() is in its loop
    fed,       \* every byte fed so far
    frames,    \* every frame handed out so far
    resynced,  \* a corrupt length has been met
    closed,    \* the connection is over and its rest has been flushed
    slept,     \* how long the current timer has been running
    silence,   \* how long ago the last bytes arrived (history)
    outs       \* messages that went out (bounds the behaviours)

timerVars == <<slept, silence, outs>>
vars == <<cfg, buf, draining, fed, frames, resynced, closed, timerVars>>

Bytes == Seq(Byte)

Timeout == IF cfg.timeoutMs = 0 THEN 1 ELSE cfg.timeoutMs

TypeOK ==
    /\ cfg \in Configs
    /\ buf \in Bytes
    /\ draining \in BOOLEAN
    /\ draining => cfg.mode \in CuttingModes
    /\ fed \in Bytes
    /\ frames \in Seq(Bytes)
    /\ resynced \in BOOLEAN
    /\ closed \in BOOLEAN
    /\ slept \in 0 .. Timeout
    /\ silence \in Nat
    /\ outs \in 0 .. MaxOut

Init ==
    /\ cfg \in Configs
    /\ buf = <<>>
    /\ draining = FALSE
    /\ fed = <<>>
    /\ frames = <<>>
    /\ resynced = FALSE
    /\ closed = FALSE
    /\ slept = 0
    /\ silence = 0
    /\ outs = 0

-----------------------------------------------------------------------------
(* Where the next frame ends in the bytes b, per mode: a set of at most one  *)
(* position.                                                                 *)

OccursAt(d, b, p) == p + Len(d) <= Len(b) /\ SubSeq(b, p + 1, p + Len(d)) = d

(* A mistake: the last occurrence counts.                                    *)
DelimiterEndLast(b) ==
    LET d == cfg.delimiter
        hits == {p \in 0 .. Len(b) : OccursAt(d, b, p)}
    IN  {p + Len(d) : p \in {q \in hits : \A r \in hits : q >= r}}

DelimiterEnd(b) ==
    LET d == cfg.delimiter
        hits == {p \in 0 .. Len(b) : OccursAt(d, b, p)}
    IN  {p + Len(d) : p \in {q \in hits : \A r \in hits : q <= r}}

FixedLen == IF cfg.fixedLen = 0 THEN 1 ELSE cfg.fixedLen

FixedEnd(b) == IF Len(b) >= FixedLen THEN {FixedLen} ELSE {}

(* The length field: one to four bytes after the offset.                     *)
LenSize == CHOOSE n \in 1 .. 4 :
    \/ n = cfg.lenSize
    \/ cfg.lenSize = 0 /\ n = 1
    \/ cfg.lenSize > 4 /\ n = 4

Header == cfg.lenOffset + LenSize

LengthField(b) ==
    LET field == SubSeq(b, cfg.lenOffset + 1, Header)
        digits == IF cfg.bigEndian THEN field ELSE Reverse(field)
    IN  FoldLeft(LAMBDA len, x : len * ByteBase + x, 0, digits)

(* The values of a usize.                                                    *)
UsizeValues ==
    LET four == ByteBase * ByteBase * ByteBase * ByteBase
    IN  IF UsizeBytes = 4 THEN four ELSE four * four

(* A sum of usize: four bytes of length fill a 32-bit one.                   *)
Total(b) ==
    IF cfg.includesHeader THEN LengthField(b)
    ELSE (Header + LengthField(b)) % UsizeValues

IsCorrupt(b) ==
    /\ cfg.mode = "lengthPrefix"
    /\ Len(b) >= Header
    /\ Total(b) < Header

LengthEnd(b) ==
    IF Len(b) >= Header /\ ~IsCorrupt(b) /\ Len(b) >= Total(b) THEN {Total(b)}
                                                               ELSE {}

FrameEnd(b) ==
    CASE cfg.mode = "delimiter" -> DelimiterEnd(b)
      [] cfg.mode = "fixed" -> FixedEnd(b)
      [] cfg.mode = "lengthPrefix" -> LengthEnd(b)
      [] OTHER -> {}

(* What small mistakes would do: the bytes of a corrupt length are thrown    *)
(* away, the loop has no break.                                              *)
ResyncLoses ==
    /\ draining
    /\ IsCorrupt(buf)
    /\ buf' = <<>>
    /\ resynced' = TRUE
    /\ draining' = FALSE
    /\ UNCHANGED <<cfg, fed, frames, closed, timerVars>>

DrainedSpins == draining /\ FrameEnd(buf) = {} /\ ~IsCorrupt(buf) /\ UNCHANGED vars

(* Another: the timer is created once and runs on from turn to turn.         *)
TakesTimerRunsOn(chunk) ==
    /\ ~draining
    /\ ~closed
    /\ Len(fed) + Len(chunk) <= MaxFed
    /\ fed' = fed \o chunk
    /\ silence' = 0
    /\ UNCHANGED <<cfg, resynced, closed, slept, outs>>

(* What every feed(chunk) does.                                              *)

Takes(chunk) ==
    /\ ~draining
    /\ ~closed
    /\ Len(fed) + Len(chunk) <= MaxFed
    /\ fed' = fed \o chunk
    /\ slept' = 0
    /\ silence' = 0
    /\ UNCHANGED <<cfg, resynced, closed, outs>>

-----------------------------------------------------------------------------
(* feed(chunk): a delimiter that is empty makes every chunk a frame.         *)

FeedWhole(chunk) ==
    /\ \/ cfg.mode = "none"
       \/ cfg.mode = "delimiter" /\ cfg.delimiter = <<>>
    /\ Takes(chunk)
    /\ frames' = Append(frames, chunk)
    /\ UNCHANGED <<buf, draining>>

FeedBuffered(chunk) ==
    /\ cfg.mode = "timeout"
    /\ Takes(chunk)
    /\ buf' = buf \o chunk
    /\ UNCHANGED <<draining, frames>>

FeedFramed(chunk) ==
    /\ cfg.mode \in CuttingModes
    /\ cfg.mode = "delimiter" => cfg.delimiter # <<>>
    /\ Takes(chunk)
    /\ buf' = buf \o chunk
    /\ draining' = TRUE
    /\ UNCHANGED frames

Drain ==
    /\ draining
    /\ \E end \in FrameEnd(buf) :
         /\ frames' = Append(frames, SubSeq(buf, 1, end))
         /\ buf' = SubSeq(buf, end + 1, Len(buf))
    /\ UNCHANGED <<cfg, draining, fed, resynced, closed, timerVars>>

(* A length that does not even cover its header: everything that is buffered *)
(* becomes one frame and the loop ends.                                      *)
Resync ==
    /\ draining
    /\ IsCorrupt(buf)
    /\ frames' = Append(frames, buf)
    /\ buf' = <<>>
    /\ resynced' = TRUE
    /\ draining' = FALSE
    /\ UNCHANGED <<cfg, fed, closed, timerVars>>

Drained ==
    /\ draining
    /\ ~IsCorrupt(buf)
    /\ FrameEnd(buf) = {}
    /\ draining' = FALSE
    /\ UNCHANGED <<cfg, buf, fed, frames, resynced, closed, timerVars>>

(* The timer is there in timeout mode while something is pending.            *)
TimerRuns == cfg.mode = "timeout" /\ ~closed /\ buf # <<>>

Tick ==
    /\ TimerRuns
    /\ slept < Timeout
    /\ slept' = slept + 1
    /\ silence' = silence + 1
    /\ UNCHANGED <<cfg, buf, draining, fed, frames, resynced, closed, outs>>

(* A message goes out: the turn of the loop ends and its timer with it.      *)
SendTurn ==
    /\ TimerRuns
    /\ outs < MaxOut
    /\ outs' = outs + 1
    /\ slept' = 0
    /\ UNCHANGED <<cfg, buf, draining, fed, frames, resynced, closed, silence>>

(* flush(): the timer fires ...                                              *)
FlushTimeout ==
    /\ TimerRuns
    /\ slept = Timeout
    /\ frames' = Append(frames, buf)
    /\ buf' = <<>>
    /\ slept' = 0
    /\ UNCHANGED <<cfg, draining, fed, resynced, closed, silence, outs>>

(* ... or the connection is (run_connection and handle_peer flush the rest). *)
Disconnect ==
    /\ ~draining
    /\ ~closed
    /\ frames' = IF buf = <<>> THEN frames ELSE Append(frames, buf)
    /\ buf' = <<>>
    /\ closed' = TRUE
    /\ UNCHANGED <<cfg, draining, fed, resynced, timerVars>>

Chunks == UNION {[1 .. n -> Byte] : n \in 1 .. MaxFed}

Feed(chunk) == FeedWhole(chunk) \/ FeedBuffered(chunk) \/ FeedFramed(chunk)

Terminated == closed /\ UNCHANGED vars

Next ==
    \/ \E chunk \in Chunks : Feed(chunk)
    \/ Drain \/ Resync \/ Drained
    \/ Tick \/ SendTurn \/ FlushTimeout \/ Disconnect
    \/ Terminated

Spec == Init /\ [][Next]_vars

(* feed() runs to its end, and time passes: a timer that is due fires once   *)
(* nothing else keeps the loop busy.                                         *)
FairSpec == Spec /\ WF_vars(Drain \/ Resync \/ Drained)
                 /\ WF_vars(Tick) /\ WF_vars(FlushTimeout)

-----------------------------------------------------------------------------
(* Framing loses, adds and reorders nothing: the frames handed out and the   *)
(* bytes still held are the bytes that arrived, at every moment, and nothing *)
(* is held any more once the connection is over.                             *)
NothingLost ==
    /\ FlattenSeq(frames) \o buf = fed
    /\ closed => buf = <<>>

(* The frames that were cut, the last one of a closed connection aside: it   *)
(* is whatever was left.                                                     *)
Cut == {i \in DOMAIN frames : closed => i < Len(frames)}

Ends(d, b) == Len(b) >= Len(d) /\ OccursAt(d, b, Len(b) - Len(d))
Within(d, b) == \E p \in 0 .. Len(b) : OccursAt(d, b, p)

(* Delimiter mode: a frame ends with the first delimiter in it, and none is  *)
(* held back.                                                                *)
DelimiterSplits ==
    cfg.mode = "delimiter" /\ cfg.delimiter # <<>> =>
        /\ \A i \in Cut : /\ Ends(cfg.delimiter, frames[i])
                          /\ ~Within(cfg.delimiter, Front(frames[i]))
        /\ ~draining => ~Within(cfg.delimiter, buf)

(* Fixed mode: every frame has the length, and less than one is held back.   *)
FixedSplits ==
    cfg.mode = "fixed" =>
        /\ \A i \in Cut : Len(frames[i]) = FixedLen
        /\ ~draining => Len(buf) < FixedLen

(* Length-prefix mode, on a stream without corrupt lengths: every frame is   *)
(* as long as its own header and length field say, and nothing complete is   *)
(* held back.                                                                *)
PayloadLen(b) == Len(b) - (IF cfg.includesHeader THEN 0 ELSE Header)
PrefixSplits ==
    cfg.mode = "lengthPrefix" /\ ~resynced =>
        /\ \A i \in Cut : /\ Len(frames[i]) >= Header
                          /\ PayloadLen(frames[i]) = LengthField(frames[i])
        /\ ~draining /\ Len(buf) >= Header => PayloadLen(buf) < LengthField(buf)

(* Wherever the chunks were cut, frames are split where the rule of the mode *)
(* says and nowhere else, and nothing that is complete is held back: with    *)
(* NothingLost this leaves one way only to split what arrived.               *)
SplitByRule == DelimiterSplits /\ FixedSplits /\ PrefixSplits

(* feed() returns, each turn of its loop takes at least a byte, and what     *)
(* timeout mode holds becomes a frame once the messages that go out stop     *)
(* putting its timer off.                                                    *)
FeedReturns ==
    /\ draining ~> ~draining
    /\ TimerRuns ~> ~TimerRuns

(* Timeout mode cuts a message where nothing has arrived for as long as the  *)
(* setting says, and nowhere else before the connection is over, whatever    *)
(* the session sends meanwhile.                                              *)
CutsWhereQuiet ==
    [][cfg.mode = "timeout" /\ frames' # frames /\ ~closed' => silence >= Timeout]_vars
=============================================================================
