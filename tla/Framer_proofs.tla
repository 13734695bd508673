----------------------------- MODULE Framer_proofs -----------------------------
(* That the framer cuts a stream where the rule of its mode says, loses      *)
(* nothing and holds nothing complete back, however the stream was chunked,  *)
(* and that its timer cuts where the line was quiet: proved for every set of *)
(* settings, bytes of every width and streams of every length.               *)

EXTENDS Framer, SequenceLemmas

(* What the rule of a mode says of a frame and of the bytes that are held,   *)
(* with the setting as a parameter: a step does not change it.               *)
SizeOf(c) == CHOOSE n \in 1 .. 4 :
    \/ n = c.lenSize
    \/ c.lenSize = 0 /\ n = 1
    \/ c.lenSize > 4 /\ n = 4

HeaderOf(c) == c.lenOffset + SizeOf(c)

DigitsOf(c, b) ==
    LET field == SubSeq(b, c.lenOffset + 1, HeaderOf(c))
    IN  IF c.bigEndian THEN field ELSE Reverse(field)

LengthOf(c, b) == Number(DigitsOf(c, b), ByteBase)

PayloadOf(c, b) == Len(b) - (IF c.includesHeader THEN 0 ELSE HeaderOf(c))

FixedOf(c) == IF c.fixedLen = 0 THEN 1 ELSE c.fixedLen

ByRule(c, r, f) ==
    /\ c.mode = "delimiter" /\ c.delimiter # <<>> =>
         Ends(c.delimiter, f) /\ ~Within(c.delimiter, Front(f))
    /\ c.mode = "fixed" => Len(f) = FixedOf(c)
    /\ c.mode = "lengthPrefix" /\ ~r =>
         Len(f) >= HeaderOf(c) /\ PayloadOf(c, f) = LengthOf(c, f)

Incomplete(c, r, b) ==
    /\ c.mode = "delimiter" /\ c.delimiter # <<>> => ~Within(c.delimiter, b)
    /\ c.mode = "fixed" => Len(b) < FixedOf(c)
    /\ c.mode = "lengthPrefix" /\ ~r /\ Len(b) >= HeaderOf(c) =>
         PayloadOf(c, b) < LengthOf(c, b)

Rules ==
    /\ \A i \in Cut : ByRule(cfg, resynced, frames[i])
    /\ ~draining => Incomplete(cfg, resynced, buf)

(* The timer of this turn was not started before the last bytes came.        *)
TimerBehind == slept <= silence

(* feed() is never in its loop once the connection is over.                  *)
ClosedIsQuiet == closed => ~draining

(* A mode that cuts nothing holds nothing.                                   *)
WholeHoldsNothing ==
    cfg.mode = "none" \/ (cfg.mode = "delimiter" /\ cfg.delimiter = <<>>)
        => buf = <<>>

(* The inductive invariant.                                                  *)
IInv ==
    /\ TimerBehind
    /\ ClosedIsQuiet
    /\ WholeHoldsNothing
    /\ NothingLost
    /\ Rules

-----------------------------------------------------------------------------
(* The model's operators, applied to the setting of the connection, are the  *)
(* ones above.                                                               *)
LEMMA OfTheSetting ==
    /\ LenSize = SizeOf(cfg) /\ Header = HeaderOf(cfg) /\ FixedLen = FixedOf(cfg)
    /\ \A b : LengthField(b) = LengthOf(cfg, b) /\ PayloadLen(b) = PayloadOf(cfg, b)
<1>1. LenSize = SizeOf(cfg)
  BY DEF LenSize, SizeOf
<1>2. Header = HeaderOf(cfg)
  BY <1>1 DEF Header, HeaderOf
<1>3. FixedLen = FixedOf(cfg)
  BY DEF FixedLen, FixedOf
<1>4. ASSUME NEW b PROVE LengthField(b) = LengthOf(cfg, b)
  BY <1>2 DEF LengthField, LengthOf, DigitsOf, Number
<1>5. ASSUME NEW b PROVE PayloadLen(b) = PayloadOf(cfg, b)
  BY <1>2 DEF PayloadLen, PayloadOf
<1> QED
  BY <1>1, <1>2, <1>3, <1>4, <1>5

(* The rules are the property SplitByRule, before a step and after it.       *)
LEMMA RulesSplit ==
    Rules <=> SplitByRule
<1>1. DelimiterSplits <=>
        /\ \A i \in Cut : cfg.mode = "delimiter" /\ cfg.delimiter # <<>> =>
             Ends(cfg.delimiter, frames[i]) /\ ~Within(cfg.delimiter, Front(frames[i]))
        /\ ~draining => (cfg.mode = "delimiter" /\ cfg.delimiter # <<>> =>
             ~Within(cfg.delimiter, buf))
  BY DEF DelimiterSplits
<1>2. FixedSplits <=>
        /\ \A i \in Cut : cfg.mode = "fixed" => Len(frames[i]) = FixedOf(cfg)
        /\ ~draining => (cfg.mode = "fixed" => Len(buf) < FixedOf(cfg))
  BY OfTheSetting DEF FixedSplits
<1>3. PrefixSplits <=>
        /\ \A i \in Cut : cfg.mode = "lengthPrefix" /\ ~resynced =>
             /\ Len(frames[i]) >= HeaderOf(cfg)
             /\ PayloadOf(cfg, frames[i]) = LengthOf(cfg, frames[i])
        /\ ~draining =>
             (cfg.mode = "lengthPrefix" /\ ~resynced /\ Len(buf) >= HeaderOf(cfg) =>
                PayloadOf(cfg, buf) < LengthOf(cfg, buf))
  BY OfTheSetting DEF PrefixSplits
<1> QED
  BY <1>1, <1>2, <1>3 DEF Rules, SplitByRule, ByRule, Incomplete

-----------------------------------------------------------------------------
(* What the settings and the bytes are.                                      *)
LEMMA SettingTyped ==
    ASSUME NEW c \in Configs
    PROVE  /\ c.mode \in Modes /\ c.delimiter \in Seq(0 .. ByteBase - 1)
           /\ c.fixedLen \in Nat /\ c.lenOffset \in Nat /\ c.lenSize \in Nat
           /\ c.bigEndian \in BOOLEAN /\ c.includesHeader \in BOOLEAN
           /\ c.timeoutMs \in Nat
BY FramerAssumption

(* The header of a length prefix is one to four bytes behind the offset, and *)
(* a fixed length is at least one, whatever the settings say.                *)
LEMMA HeaderTyped ==
    ASSUME NEW c \in Configs
    PROVE  /\ SizeOf(c) \in 1 .. 4 /\ HeaderOf(c) \in Nat
           /\ HeaderOf(c) = c.lenOffset + SizeOf(c)
           /\ FixedOf(c) \in Nat /\ FixedOf(c) >= 1
<1>1. \E n \in 1 .. 4 : \/ n = c.lenSize
                        \/ c.lenSize = 0 /\ n = 1
                        \/ c.lenSize > 4 /\ n = 4
  BY SettingTyped
<1>2. SizeOf(c) \in 1 .. 4
  BY <1>1 DEF SizeOf
<1> QED
  BY <1>2, SettingTyped DEF HeaderOf, FixedOf

(* The length field has one to four bytes ...                                *)
LEMMA DigitsTyped ==
    ASSUME NEW c \in Configs, NEW b \in Bytes, Len(b) >= HeaderOf(c)
    PROVE  /\ DigitsOf(c, b) \in Seq(0 .. (ByteBase - 1))
           /\ Len(DigitsOf(c, b)) \in 1 .. 4
<1> DEFINE lo == c.lenOffset + 1
           hi == HeaderOf(c)
           f == SubSeq(b, lo, hi)
<1>1. /\ lo \in Int /\ hi \in Int /\ lo <= hi /\ lo >= 1 /\ hi <= Len(b)
      /\ hi - lo + 1 = SizeOf(c) /\ SizeOf(c) \in 1 .. 4
  BY HeaderTyped, SettingTyped
<1>2. \A i \in lo .. hi : b[i] \in 0 .. (ByteBase - 1)
  <2>1. \A i \in 1 .. Len(b) : b[i] \in Byte
    BY DEF Bytes
  <2>2. \A i \in lo .. hi : i \in 1 .. Len(b)
    BY <1>1 DEF Bytes
  <2> QED
    BY <2>1, <2>2, FramerAssumption
<1> HIDE DEF lo, hi
<1>3. f \in Seq(0 .. (ByteBase - 1)) /\ Len(f) = SizeOf(c)
  BY <1>1, <1>2, SubSeqProperties
<1> HIDE DEF f
<1>4. Reverse(f) \in Seq(0 .. (ByteBase - 1)) /\ Len(Reverse(f)) = Len(f)
  BY <1>3 DEF Reverse
<1> QED
  BY <1>1, <1>3, <1>4 DEF DigitsOf, f, lo, hi

Four == ByteBase * ByteBase * ByteBase * ByteBase

(* ... and is below the fourth power of a byte's values, which a usize       *)
(* holds at least.                                                           *)
LEMMA LengthTyped ==
    ASSUME NEW c \in Configs, NEW b \in Bytes, Len(b) >= HeaderOf(c)
    PROVE  LengthOf(c, b) \in 0 .. (Four - 1)
BY DigitsTyped, NumberBound, FramerAssumption DEF LengthOf, Four

(* A usize holds every number of four bytes, on the smallest machine.        *)
LEMMA UsizeHolds ==
    Four \in Nat /\ UsizeValues \in Nat /\ UsizeValues >= Four /\ Four > 0
<1>1. Four \in Nat /\ Four > 0
  BY FramerAssumption DEF Four
<1>2. Four * Four >= Four /\ Four * Four \in Nat
  <2> HIDE DEF Four
  <2> QED
    BY <1>1
<1>3. UsizeValues = IF UsizeBytes = 4 THEN Four ELSE Four * Four
  BY DEF UsizeValues, Four
<1> QED
  BY <1>1, <1>2, <1>3

(* A sum that wraps around once.                                             *)
LEMMA WrapsOnce ==
    ASSUME NEW a \in Nat, NEW r \in Nat, r > 0, a >= r, a < r + r
    PROVE  a % r = a - r
OBVIOUS

(* The total length a frame announces is a number; where it covers its       *)
(* header, the sum did not wrap.                                             *)
LEMMA TotalTyped ==
    ASSUME cfg \in Configs, NEW b \in Bytes, Len(b) >= Header
    PROVE  /\ Total(b) \in Nat
           /\ Total(b) <= (IF cfg.includesHeader THEN LengthField(b)
                           ELSE Header + LengthField(b))
           /\ Total(b) >= Header =>
                Total(b) = IF cfg.includesHeader THEN LengthField(b)
                           ELSE Header + LengthField(b)
<1> DEFINE h == Header
           l == LengthField(b)
           u == UsizeValues
<1>1. /\ h \in Nat /\ h = HeaderOf(cfg) /\ l = LengthOf(cfg, b)
  BY OfTheSetting, HeaderTyped
<1>2. l \in Nat /\ l < Four
  BY <1>1, LengthTyped, UsizeHolds
<1>3. u \in Nat /\ u >= Four /\ Four \in Nat
  BY UsizeHolds
<1>4. Total(b) = IF cfg.includesHeader THEN l ELSE (h + l) % u
  BY DEF Total
<1> HIDE DEF h, l, u
<1>5. (h + l) % u \in Nat /\ (h + l) % u <= h + l /\ (h + l) % u < u
  BY <1>1, <1>2, <1>3
<1>6. (h + l) % u >= h => (h + l) % u = h + l
  <2>1. CASE h + l < u
    BY <1>1, <1>2, <1>3, <2>1
  <2>2. CASE h >= u
    BY <1>1, <1>2, <1>3, <1>5, <2>2
  <2>3. CASE h < u /\ h + l >= u
    <3>1. h + l \in Nat /\ u \in Nat /\ u > 0 /\ h + l >= u /\ h + l < u + u
      BY <1>1, <1>2, <1>3, <2>3
    <3>2. (h + l) % u = (h + l) - u
      BY <3>1, WrapsOnce
    <3> QED
      BY <1>1, <1>2, <1>3, <3>2
  <2> QED
    BY <1>1, <1>2, <1>3, <2>1, <2>2, <2>3
<1>7. /\ Total(b) \in Nat
      /\ Total(b) <= (IF cfg.includesHeader THEN l ELSE h + l)
      /\ Total(b) >= h => Total(b) = IF cfg.includesHeader THEN l ELSE h + l
  BY <1>1, <1>2, <1>4, <1>5, <1>6, SettingTyped
<1> QED
  BY <1>7 DEF h, l

(* A place where a delimiter occurs is followed by its bytes.                *)
LEMMA DelimiterInside ==
    ASSUME cfg \in Configs, NEW b \in Bytes, NEW end \in DelimiterEnd(b)
    PROVE  \E p \in 0 .. Len(b) :
             /\ end = p + Len(cfg.delimiter) /\ end \in 0 .. Len(b)
             /\ OccursAt(cfg.delimiter, b, p)
             /\ \A q \in 0 .. Len(b) : OccursAt(cfg.delimiter, b, q) => p <= q
<1>1. Len(cfg.delimiter) \in Nat /\ Len(b) \in Nat
  BY SettingTyped DEF Bytes
<1>2. PICK p \in 0 .. Len(b) :
             /\ end = p + Len(cfg.delimiter)
             /\ OccursAt(cfg.delimiter, b, p)
             /\ \A q \in 0 .. Len(b) : OccursAt(cfg.delimiter, b, q) => p <= q
  BY DEF DelimiterEnd
<1>3. end \in 0 .. Len(b)
  BY <1>1, <1>2 DEF OccursAt
<1> QED
  BY <1>2, <1>3

(* A frame ends within the bytes that are there.                             *)
LEMMA EndInside ==
    ASSUME cfg \in Configs, NEW b \in Bytes, NEW end \in FrameEnd(b)
    PROVE  end \in 0 .. Len(b)
<1>1. Len(b) \in Nat
  BY DEF Bytes
<1>2. CASE cfg.mode = "delimiter"
  <2>1. end \in DelimiterEnd(b)
    BY <1>2 DEF FrameEnd
  <2> QED
    BY <2>1, DelimiterInside
<1>3. CASE cfg.mode = "fixed"
  BY <1>1, <1>3, OfTheSetting, HeaderTyped DEF FrameEnd, FixedEnd
<1>4. CASE cfg.mode = "lengthPrefix"
  <2>1. Len(b) >= Header /\ end = Total(b) /\ Len(b) >= Total(b)
    BY <1>4 DEF FrameEnd, LengthEnd
  <2> QED
    BY <1>1, <2>1, TotalTyped
<1> QED
  BY <1>2, <1>3, <1>4 DEF FrameEnd

-----------------------------------------------------------------------------
(* The beginning of b up to end, and what is left of it.                     *)
LEMMA Pieces ==
    ASSUME NEW b \in Bytes, NEW end \in 0 .. Len(b)
    PROVE  /\ SubSeq(b, 1, end) \in Bytes /\ Len(SubSeq(b, 1, end)) = end
           /\ SubSeq(b, end + 1, Len(b)) \in Bytes
           /\ SubSeq(b, 1, end) \o SubSeq(b, end + 1, Len(b)) = b
<1>1. b \in Seq(Byte) /\ Len(b) \in Nat
  BY DEF Bytes
<1>2. SubSeq(b, 1, end) \in Seq(Byte) /\ SubSeq(b, end + 1, Len(b)) \in Seq(Byte)
  BY <1>1
<1>3. Len(SubSeq(b, 1, end)) = end
  BY <1>1
<1>4. SubSeq(b, 1, end) \o SubSeq(b, end + 1, Len(b)) = SubSeq(b, 1, Len(b))
  <2>1. 1 \in 1 .. Len(b) + 1 /\ end \in 1 - 1 .. Len(b) /\ Len(b) \in end .. Len(b)
    BY <1>1
  <2> QED
    BY <1>1, <2>1, ConcatAdjacentSubSeq
<1>5. SubSeq(b, 1, Len(b)) = b
  BY <1>1, SubSeqFull
<1> QED
  BY <1>2, <1>3, <1>4, <1>5 DEF Bytes

(* The beginning of a beginning.                                             *)
LEMMA SameBytes ==
    ASSUME NEW b \in Bytes, NEW end \in 0 .. Len(b),
           NEW lo \in Nat, NEW hi \in Nat, lo >= 1, hi <= end
    PROVE  SubSeq(SubSeq(b, 1, end), lo, hi) = SubSeq(b, lo, hi)
<1> DEFINE f == SubSeq(b, 1, end)
<1>1. b \in Seq(Byte) /\ Len(b) \in Nat
  BY DEF Bytes
<1>2. \A i \in 1 .. end : f[i] = b[i]
  BY <1>1
<1> HIDE DEF f
<1>3. \A i \in lo .. hi : f[i] \in Byte /\ b[i] \in Byte /\ f[i] = b[i]
  BY <1>1, <1>2
<1>4. /\ SubSeq(f, lo, hi) \in Seq(Byte)
      /\ Len(SubSeq(f, lo, hi)) = IF lo <= hi THEN hi - lo + 1 ELSE 0
      /\ \A i \in 1 .. hi - lo + 1 : SubSeq(f, lo, hi)[i] = f[lo + i - 1]
  BY <1>3, SubSeqProperties
<1>5. /\ SubSeq(b, lo, hi) \in Seq(Byte)
      /\ Len(SubSeq(b, lo, hi)) = IF lo <= hi THEN hi - lo + 1 ELSE 0
      /\ \A i \in 1 .. hi - lo + 1 : SubSeq(b, lo, hi)[i] = b[lo + i - 1]
  BY <1>3, SubSeqProperties
<1>6. \A i \in 1 .. Len(SubSeq(f, lo, hi)) : SubSeq(f, lo, hi)[i] = SubSeq(b, lo, hi)[i]
  BY <1>3, <1>4, <1>5
<1>7. SubSeq(f, lo, hi) = SubSeq(b, lo, hi)
  BY <1>4, <1>5, <1>6, SeqEqual
<1> QED
  BY <1>7 DEF f

(* What is cut is a frame by the rule.                                       *)
LEMMA FrameFromCut ==
    ASSUME cfg \in Configs, buf \in Bytes, NEW end \in FrameEnd(buf)
    PROVE  ByRule(cfg, resynced, SubSeq(buf, 1, end))
<1> DEFINE f == SubSeq(buf, 1, end)
           d == cfg.delimiter
<1>1. end \in 0 .. Len(buf) /\ f \in Bytes /\ Len(f) = end /\ Len(buf) \in Nat
  BY EndInside, Pieces DEF Bytes
<1>2. CASE cfg.mode = "delimiter" /\ d # <<>>
  <2>1. end \in DelimiterEnd(buf) /\ Len(d) \in Nat /\ Len(d) > 0
    BY <1>2, SettingTyped DEF FrameEnd
  <2>2. PICK p \in 0 .. Len(buf) :
             /\ end = p + Len(d)
             /\ OccursAt(d, buf, p)
             /\ \A q \in 0 .. Len(buf) : OccursAt(d, buf, q) => p <= q
    BY <2>1, DelimiterInside
  <2> HIDE DEF f, d
  <2>3. Ends(d, f)
    <3>1. SubSeq(f, p + 1, p + Len(d)) = SubSeq(buf, p + 1, p + Len(d))
      BY <1>1, <2>1, <2>2, SameBytes DEF f
    <3>2. OccursAt(d, f, p)
      BY <1>1, <2>1, <2>2, <3>1 DEF OccursAt
    <3>3. Len(f) >= Len(d) /\ Len(f) - Len(d) = p
      BY <1>1, <2>1, <2>2
    <3> QED
      BY <3>2, <3>3 DEF Ends
  <2>4. ASSUME NEW q \in 0 .. Len(Front(f)), OccursAt(d, Front(f), q)
        PROVE  FALSE
    <3>1. Len(Front(f)) = end - 1 /\ end - 1 \in Nat
      BY <1>1, <2>1, <2>2 DEF Front, Bytes
    <3>2. q + Len(d) <= end - 1 /\ SubSeq(Front(f), q + 1, q + Len(d)) = d
      BY <2>4, <3>1 DEF OccursAt
    <3>3. SubSeq(Front(f), q + 1, q + Len(d)) = SubSeq(f, q + 1, q + Len(d))
      <4>1. end - 1 \in 0 .. Len(f) /\ Front(f) = SubSeq(f, 1, end - 1)
        BY <1>1, <3>1 DEF Front
      <4>2. q + 1 \in Nat /\ q + Len(d) \in Nat /\ q + 1 >= 1
        BY <2>1, <3>1
      <4> QED
        BY <1>1, <3>2, <4>1, <4>2, SameBytes
    <3>4. SubSeq(f, q + 1, q + Len(d)) = SubSeq(buf, q + 1, q + Len(d))
      <4>1. q + 1 \in Nat /\ q + Len(d) \in Nat /\ q + 1 >= 1 /\ q + Len(d) <= end
        BY <1>1, <2>1, <3>1, <3>2
      <4> QED
        BY <1>1, <4>1, SameBytes DEF f
    <3>5. q \in 0 .. Len(buf) /\ OccursAt(d, buf, q)
      BY <1>1, <2>1, <3>1, <3>2, <3>3, <3>4 DEF OccursAt
    <3> QED
      BY <1>1, <2>1, <2>2, <3>1, <3>2, <3>5
  <2>5. ~Within(d, Front(f))
    BY <2>4 DEF Within
  <2> QED
    BY <1>2, <2>3, <2>5 DEF ByRule, d, f
<1>3. CASE cfg.mode = "fixed"
  <2>1. end = FixedOf(cfg)
    BY <1>3, OfTheSetting DEF FrameEnd, FixedEnd
  <2> QED
    BY <1>1, <1>3, <2>1 DEF ByRule
<1>4. CASE cfg.mode = "lengthPrefix"
  <2>1. /\ Len(buf) >= Header /\ end = Total(buf) /\ Total(buf) >= Header
        /\ Header = HeaderOf(cfg) /\ Header \in Nat /\ Header >= 1
        /\ cfg.lenOffset \in Nat
    <3>1. Len(buf) >= Header /\ end = Total(buf) /\ ~IsCorrupt(buf)
      BY <1>4 DEF FrameEnd, LengthEnd
    <3>2. Header = HeaderOf(cfg) /\ Header \in Nat /\ Header >= 1
      BY OfTheSetting, HeaderTyped, SettingTyped
    <3> QED
      BY <1>1, <1>4, <3>1, <3>2, SettingTyped DEF IsCorrupt
  <2>2. end = IF cfg.includesHeader THEN LengthOf(cfg, buf)
              ELSE HeaderOf(cfg) + LengthOf(cfg, buf)
    BY <2>1, TotalTyped, OfTheSetting
  <2>3. DigitsOf(cfg, f) = DigitsOf(cfg, buf)
    <3>1. SubSeq(f, cfg.lenOffset + 1, HeaderOf(cfg))
            = SubSeq(buf, cfg.lenOffset + 1, HeaderOf(cfg))
      <4>1. /\ cfg.lenOffset + 1 \in Nat /\ HeaderOf(cfg) \in Nat
            /\ cfg.lenOffset + 1 >= 1 /\ HeaderOf(cfg) <= end
        BY <1>1, <2>1
      <4> QED
        BY <1>1, <4>1, SameBytes
    <3> HIDE DEF f
    <3> QED
      BY <3>1 DEF DigitsOf
  <2>4. LengthOf(cfg, f) = LengthOf(cfg, buf)
    BY <2>3 DEF LengthOf
  <2>5. LengthOf(cfg, buf) \in Nat
    BY <2>1, LengthTyped, UsizeHolds
  <2> HIDE DEF f
  <2> QED
    BY <1>1, <1>4, <2>1, <2>2, <2>4, <2>5 DEF ByRule, PayloadOf, f
<1> QED
  BY <1>2, <1>3, <1>4 DEF FrameEnd, ByRule

(* Where no frame can be cut, what is held is not complete.                  *)
LEMMA RestIncomplete ==
    ASSUME cfg \in Configs, buf \in Bytes, ~IsCorrupt(buf), FrameEnd(buf) = {}
    PROVE  Incomplete(cfg, resynced, buf)
<1>1. Len(buf) \in Nat
  BY DEF Bytes
<1>2. ASSUME cfg.mode = "delimiter", Within(cfg.delimiter, buf)
      PROVE  FALSE
  <2> DEFINE hits == {p \in 0 .. Len(buf) : OccursAt(cfg.delimiter, buf, p)}
  <2>1. hits \in SUBSET Nat /\ hits # {}
    BY <1>2 DEF Within
  <2>2. DelimiterEnd(buf) = {}
    BY <1>2 DEF FrameEnd
  <2>3. {q \in hits : \A r \in hits : q <= r} = {}
    BY <2>2 DEF DelimiterEnd
  <2> HIDE DEF hits
  <2> QED
    BY <2>1, <2>3, LeastNumber
<1>3. ASSUME cfg.mode = "fixed"
      PROVE  Len(buf) < FixedOf(cfg)
  BY <1>1, <1>3, OfTheSetting, HeaderTyped DEF FrameEnd, FixedEnd
<1>4. ASSUME cfg.mode = "lengthPrefix", Len(buf) >= HeaderOf(cfg)
      PROVE  PayloadOf(cfg, buf) < LengthOf(cfg, buf)
  <2>1. /\ Len(buf) >= Header /\ Header = HeaderOf(cfg) /\ Header \in Nat
        /\ LengthField(buf) = LengthOf(cfg, buf)
    BY <1>4, OfTheSetting, HeaderTyped
  <2>2. ~(Len(buf) >= Total(buf))
    BY <1>4, <2>1 DEF FrameEnd, LengthEnd
  <2>3. Len(buf) < Total(buf) /\ Total(buf) \in Nat
    BY <1>1, <2>1, <2>2, TotalTyped
  <2>4. Total(buf) <= (IF cfg.includesHeader THEN LengthOf(cfg, buf)
                      ELSE HeaderOf(cfg) + LengthOf(cfg, buf))
    BY <2>1, TotalTyped
  <2>5. LengthOf(cfg, buf) \in Nat
    BY <2>1, LengthTyped, UsizeHolds
  <2> QED
    BY <1>1, <2>1, <2>3, <2>4, <2>5 DEF PayloadOf
<1> QED
  BY <1>2, <1>3, <1>4 DEF Incomplete

-----------------------------------------------------------------------------
(* The chunks that arrive.                                                   *)
LEMMA ChunkTyped ==
    ASSUME NEW chunk \in Chunks
    PROVE  chunk \in Bytes
BY DEF Chunks, Bytes

(* The timeout is at least one tick.                                         *)
LEMMA TimeoutTyped ==
    ASSUME cfg \in Configs
    PROVE  Timeout \in Nat /\ Timeout >= 1
BY SettingTyped DEF Timeout

(* Every step keeps the types.                                               *)
LEMMA TypeStep ==
    ASSUME TypeOK, [Next]_vars
    PROVE  TypeOK'
<1> USE TimeoutTyped, FramerAssumption
<1>0. /\ cfg \in Configs /\ Timeout \in Nat
      /\ buf \in Seq(Byte) /\ frames \in Seq(Bytes) /\ fed \in Seq(Byte)
  BY DEF TypeOK, Bytes
<1>1. ASSUME NEW chunk \in Chunks, FeedWhole(chunk)
      PROVE  TypeOK'
  BY <1>0, <1>1, ChunkTyped DEF TypeOK, Bytes, FeedWhole, Takes, Timeout
<1>2. ASSUME NEW chunk \in Chunks, FeedBuffered(chunk)
      PROVE  TypeOK'
  BY <1>0, <1>2, ChunkTyped DEF TypeOK, Bytes, FeedBuffered, Takes, Timeout
<1>3. ASSUME NEW chunk \in Chunks, FeedFramed(chunk)
      PROVE  TypeOK'
  BY <1>0, <1>3, ChunkTyped DEF TypeOK, Bytes, FeedFramed, Takes, Timeout
<1>4. ASSUME Drain
      PROVE  TypeOK'
  <2>1. PICK end \in FrameEnd(buf) :
           /\ frames' = Append(frames, SubSeq(buf, 1, end))
           /\ buf' = SubSeq(buf, end + 1, Len(buf))
    BY <1>4 DEF Drain
  <2>2. buf' \in Bytes /\ SubSeq(buf, 1, end) \in Bytes
    BY <1>0, <2>1, EndInside, Pieces DEF Bytes
  <2>3. frames' \in Seq(Bytes)
    BY <1>0, <2>1, <2>2
  <2> QED
    BY <1>4, <2>2, <2>3 DEF TypeOK, Drain, timerVars, Timeout
<1>5. ASSUME Resync
      PROVE  TypeOK'
  <2>1. frames' = Append(frames, buf) /\ buf' = <<>>
    BY <1>5 DEF Resync
  <2>2. frames' \in Seq(Bytes) /\ buf' \in Bytes
    BY <1>0, <2>1 DEF Bytes
  <2> QED
    BY <1>5, <2>2 DEF TypeOK, Resync, timerVars, Timeout
<1>6. ASSUME Drained
      PROVE  TypeOK'
  BY <1>6 DEF TypeOK, Drained, timerVars, Timeout
<1>7. ASSUME Tick \/ SendTurn
      PROVE  TypeOK'
  BY <1>0, <1>7 DEF TypeOK, Tick, SendTurn, Timeout
<1>8. ASSUME FlushTimeout
      PROVE  TypeOK'
  BY <1>0, <1>8 DEF TypeOK, Bytes, FlushTimeout, Timeout
<1>9. ASSUME Disconnect
      PROVE  TypeOK'
  BY <1>0, <1>9 DEF TypeOK, Bytes, Disconnect, timerVars, Timeout
<1>10. ASSUME UNCHANGED vars
       PROVE  TypeOK'
  BY <1>10 DEF TypeOK, vars, timerVars, Timeout
<1> QED
  BY <1>1, <1>2, <1>3, <1>4, <1>5, <1>6, <1>7, <1>8, <1>9, <1>10
     DEF Next, Feed, Terminated

(* The parts of the invariant that are about the loop and the timer.         *)
LEMMA LoopStep ==
    ASSUME TypeOK, IInv, [Next]_vars
    PROVE  TimerBehind' /\ ClosedIsQuiet' /\ WholeHoldsNothing'
<1>1. slept \in Nat /\ silence \in Nat
  BY TimeoutTyped DEF TypeOK
<1>2. TimerBehind'
  BY <1>1 DEF IInv, TimerBehind, Next, Feed, FeedWhole, FeedBuffered, FeedFramed,
     Takes, Drain, Resync, Drained, Tick, SendTurn, FlushTimeout, Disconnect,
     Terminated, vars, timerVars
<1>3. ClosedIsQuiet'
  BY DEF IInv, ClosedIsQuiet, Next, Feed, FeedWhole, FeedBuffered, FeedFramed,
     Takes, Drain, Resync, Drained, Tick, SendTurn, FlushTimeout, Disconnect,
     Terminated, vars, timerVars, TimerRuns
<1>4. WholeHoldsNothing'
  <2>1. CASE Drain
    <3>1. cfg.mode \in CuttingModes /\ buf \in Seq(Byte)
      BY <2>1 DEF Drain, TypeOK, Bytes
    <3>2. CASE buf = <<>>
      <4>1. PICK end \in FrameEnd(buf) : buf' = SubSeq(buf, end + 1, Len(buf))
        BY <2>1 DEF Drain
      <4>2. end \in 0 .. Len(buf)
        BY EndInside DEF TypeOK
      <4>3. buf' = <<>>
        BY <3>1, <3>2, <4>1, <4>2
      <4> QED
        BY <4>3 DEF WholeHoldsNothing
    <3>3. CASE buf # <<>>
      BY <2>1, <3>3 DEF IInv, WholeHoldsNothing, Drain
    <3> QED
      BY <3>2, <3>3
  <2>2. CASE ~Drain
    BY <2>2 DEF IInv, WholeHoldsNothing, Next, Feed, FeedWhole, FeedBuffered,
       FeedFramed, Takes, Resync, Drained, Tick, SendTurn, FlushTimeout, Disconnect,
       Terminated, vars, timerVars, CuttingModes
  <2> QED
    BY <2>1, <2>2
<1> QED
  BY <1>2, <1>3, <1>4

-----------------------------------------------------------------------------
(* The ways a step changes what was handed out and what is held, and that    *)
(* none of them loses a byte.                                                *)
LEMMA LostStep ==
    ASSUME TypeOK, IInv, [Next]_vars
    PROVE  NothingLost'
<1> DEFINE flat == FlattenSeq(frames)
<1>0. /\ cfg \in Configs
      /\ buf \in Seq(Byte) /\ frames \in Seq(Seq(Byte)) /\ fed \in Seq(Byte)
      /\ flat \in Seq(Byte) /\ flat \o buf = fed
      /\ closed => buf = <<>>
  BY FlattenTyped DEF TypeOK, Bytes, IInv, NothingLost
<1>a. \A e \in Seq(Byte) : FlattenSeq(Append(frames, e)) = flat \o e
  BY <1>0, FlattenAppend
<1>b. \A s, t, u \in Seq(Byte) : (s \o t) \o u = s \o (t \o u)
  BY ConcatAssociative
<1>c. \A s \in Seq(Byte) : s \o <<>> = s
  OBVIOUS
<1> HIDE DEF flat
<1>1. ASSUME NEW chunk \in Chunks, FeedWhole(chunk)
      PROVE  NothingLost'
  <2>1. /\ chunk \in Seq(Byte) /\ buf = <<>> /\ buf' = <<>>
        /\ frames' = Append(frames, chunk) /\ fed' = fed \o chunk
        /\ closed' = closed
    BY <1>1, ChunkTyped DEF FeedWhole, Takes, IInv, WholeHoldsNothing, Bytes
  <2>2. flat = fed /\ flat \o chunk \in Seq(Byte)
    BY <1>0, <1>c, <2>1
  <2>3. FlattenSeq(frames') \o buf' = fed'
    BY <1>a, <1>c, <2>1, <2>2
  <2> QED
    BY <2>1, <2>3 DEF NothingLost
<1>2. ASSUME NEW chunk \in Chunks, FeedBuffered(chunk) \/ FeedFramed(chunk)
      PROVE  NothingLost'
  <2>1. /\ chunk \in Seq(Byte) /\ buf' = buf \o chunk /\ fed' = fed \o chunk
        /\ frames' = frames /\ closed' = FALSE
    BY <1>2, ChunkTyped DEF FeedBuffered, FeedFramed, Takes, Bytes, TypeOK
  <2>2. flat \o (buf \o chunk) = (flat \o buf) \o chunk
    BY <1>0, <1>b, <2>1
  <2> QED
    BY <1>0, <2>1, <2>2 DEF NothingLost, flat
<1>3. ASSUME Drain
      PROVE  NothingLost'
  <2>1. PICK end \in FrameEnd(buf) :
           /\ frames' = Append(frames, SubSeq(buf, 1, end))
           /\ buf' = SubSeq(buf, end + 1, Len(buf))
    BY <1>3 DEF Drain
  <2>2. fed' = fed /\ closed' = FALSE
    BY <1>3 DEF Drain, IInv, ClosedIsQuiet, TypeOK
  <2>3. /\ SubSeq(buf, 1, end) \in Seq(Byte) /\ buf' \in Seq(Byte)
        /\ SubSeq(buf, 1, end) \o buf' = buf
    BY <1>0, <2>1, EndInside, Pieces DEF Bytes
  <2>4. FlattenSeq(frames') = flat \o SubSeq(buf, 1, end)
    BY <1>a, <2>1, <2>3
  <2>5. (flat \o SubSeq(buf, 1, end)) \o buf' = flat \o (SubSeq(buf, 1, end) \o buf')
    BY <1>0, <1>b, <2>3
  <2> QED
    BY <1>0, <2>2, <2>3, <2>4, <2>5 DEF NothingLost
<1>4. ASSUME frames' = Append(frames, buf), buf' = <<>>, fed' = fed
      PROVE  NothingLost'
  <2>1. FlattenSeq(frames') = fed /\ fed \o <<>> = fed
    BY <1>0, <1>4, <1>a, <1>c
  <2> QED
    BY <1>4, <2>1 DEF NothingLost
<1>5. ASSUME frames' = frames, buf' = buf, fed' = fed, closed' => buf = <<>>
      PROVE  NothingLost'
  BY <1>0, <1>5 DEF NothingLost, flat
<1>6. ASSUME Resync \/ FlushTimeout \/ Disconnect
      PROVE  NothingLost'
  <2>1. CASE frames' = Append(frames, buf) /\ buf' = <<>> /\ fed' = fed
    BY <1>4, <2>1
  <2>2. CASE Disconnect /\ buf = <<>>
    BY <1>5, <2>2 DEF Disconnect
  <2> QED
    BY <1>6, <2>1, <2>2 DEF Resync, FlushTimeout, Disconnect
<1>7. ASSUME Drained \/ Tick \/ SendTurn \/ UNCHANGED vars
      PROVE  NothingLost'
  BY <1>0, <1>5, <1>7 DEF Drained, Tick, SendTurn, vars, timerVars
<1> QED
  BY <1>1, <1>2, <1>3, <1>6, <1>7 DEF Next, Feed, Terminated

(* A step that hands out a frame of the rule, one that hands out none, and   *)
(* the last one of a connection keep the frames by the rule.                 *)
LEMMA CutStep ==
    ASSUME frames \in Seq(Bytes), closed \in BOOLEAN, cfg' = cfg, resynced' = resynced,
           \A i \in Cut : ByRule(cfg, resynced, frames[i]),
           \/ frames' = frames /\ (closed' = closed \/ closed')
           \/ \E e \in Bytes : /\ frames' = Append(frames, e) /\ ~closed
                               /\ closed' \/ ByRule(cfg, resynced, e)
    PROVE  \A i \in Cut' : ByRule(cfg, resynced, frames[i])'
<1>0. Len(frames) \in Nat /\ DOMAIN frames = 1 .. Len(frames)
  OBVIOUS
<1>1. CASE frames' = frames /\ (closed' = closed \/ closed')
  <2>1. \A i \in Cut' : i \in Cut
    BY <1>1 DEF Cut
  <2> QED
    BY <1>1, <2>1
<1>2. CASE \E e \in Bytes : /\ frames' = Append(frames, e) /\ ~closed
                            /\ closed' \/ ByRule(cfg, resynced, e)
  <2>1. PICK e \in Bytes : /\ frames' = Append(frames, e) /\ ~closed
                           /\ closed' \/ ByRule(cfg, resynced, e)
    BY <1>2
  <2>2. /\ Len(frames') = Len(frames) + 1 /\ frames'[Len(frames) + 1] = e
        /\ DOMAIN frames' = 1 .. (Len(frames) + 1)
        /\ \A i \in 1 .. Len(frames) : frames'[i] = frames[i]
    <3> DEFINE g == Append(frames, e)
    <3>1. /\ Len(g) = Len(frames) + 1 /\ g[Len(frames) + 1] = e /\ g \in Seq(Bytes)
          /\ \A i \in 1 .. Len(frames) : g[i] = frames[i]
      BY AppendProperties
    <3> HIDE DEF g
    <3>2. DOMAIN g = 1 .. (Len(frames) + 1)
      BY <3>1
    <3>3. frames' = g
      BY <2>1 DEF g
    <3> QED
      BY <3>1, <3>2, <3>3
  <2>3. Cut = 1 .. Len(frames)
    <3>1. ~closed
      BY <2>1
    <3>2. \A i \in DOMAIN frames : i \in Cut
      BY <3>1 DEF Cut
    <3>3. \A i \in Cut : i \in DOMAIN frames
      BY DEF Cut
    <3> QED
      BY <1>0, <3>2, <3>3
  <2> SUFFICES ASSUME NEW i \in Cut'
               PROVE  ByRule(cfg, resynced, frames'[i])
    OBVIOUS
  <2>4. i \in 1 .. (Len(frames) + 1) /\ (closed' => i < Len(frames) + 1)
    BY <2>2 DEF Cut
  <2>5. CASE i = Len(frames) + 1
    <3>1. ~closed'
      BY <1>0, <2>4, <2>5
    <3>2. ByRule(cfg, resynced, e)
      BY <2>1, <3>1
    <3>3. frames'[i] = e
      BY <2>2, <2>5
    <3> QED
      BY <3>2, <3>3
  <2>6. CASE i # Len(frames) + 1
    <3>1. i \in Cut /\ frames'[i] = frames[i]
      BY <1>0, <2>2, <2>3, <2>4, <2>6
    <3> QED
      BY <3>1
  <2> QED
    BY <2>5, <2>6
<1> QED
  BY <1>1, <1>2

(* Nothing complete is in a buffer without bytes.                            *)
LEMMA NothingIncomplete ==
    ASSUME NEW c \in Configs, NEW r
    PROVE  Incomplete(c, r, <<>>)
<1>1. /\ Len(<<>>) = 0 /\ FixedOf(c) >= 1 /\ HeaderOf(c) >= 1
      /\ FixedOf(c) \in Nat /\ HeaderOf(c) \in Nat
  BY HeaderTyped, SettingTyped
<1>2. ASSUME c.delimiter # <<>>, Within(c.delimiter, <<>>)
      PROVE  FALSE
  <2>1. Len(c.delimiter) \in Nat /\ Len(c.delimiter) > 0
    BY <1>2, SettingTyped
  <2>2. PICK p \in 0 .. 0 : p + Len(c.delimiter) <= 0
    BY <1>1, <1>2 DEF Within, OccursAt
  <2> QED
    BY <2>1, <2>2
<1> QED
  BY <1>1, <1>2 DEF Incomplete

(* Every step keeps what has been cut, and what waits, by the rule.          *)
LEMMA RulesStep ==
    ASSUME TypeOK, IInv, [Next]_vars
    PROVE  Rules'
<1>0. /\ cfg \in Configs /\ buf \in Bytes /\ frames \in Seq(Bytes) /\ <<>> \in Bytes
      /\ \A i \in Cut : ByRule(cfg, resynced, frames[i])
      /\ ~draining => Incomplete(cfg, resynced, buf)
      /\ closed \in BOOLEAN
  BY DEF TypeOK, Bytes, IInv, Rules
<1>1. cfg' = cfg
  BY DEF Next, Feed, FeedWhole, FeedBuffered, FeedFramed, Takes, Drain, Resync,
     Drained, Tick, SendTurn, FlushTimeout, Disconnect, Terminated, vars, timerVars
(* The modes that follow no rule.                                            *)
<1>2. ASSUME \/ cfg.mode = "none" \/ cfg.mode = "timeout"
             \/ cfg.mode = "delimiter" /\ cfg.delimiter = <<>>
      PROVE  Rules'
  BY <1>1, <1>2 DEF Rules, ByRule, Incomplete
<1>3. ASSUME NEW chunk \in Chunks, Feed(chunk)
      PROVE  Rules'
  <2>1. CASE FeedWhole(chunk) \/ FeedBuffered(chunk)
    BY <1>2, <2>1 DEF FeedWhole, FeedBuffered
  <2>2. CASE FeedFramed(chunk)
    <3>1. /\ frames' = frames /\ resynced' = resynced /\ closed' = closed
          /\ draining' = TRUE
      BY <2>2 DEF FeedFramed, Takes
    <3>2. \A i \in Cut' : ByRule(cfg, resynced, frames[i])'
      BY <1>0, <1>1, <3>1, CutStep
    <3> QED
      BY <3>1, <3>2 DEF Rules
  <2> QED
    BY <1>3, <2>1, <2>2 DEF Feed
<1>4. ASSUME Drain
      PROVE  Rules'
  <2>1. PICK end \in FrameEnd(buf) :
           /\ frames' = Append(frames, SubSeq(buf, 1, end))
           /\ buf' = SubSeq(buf, end + 1, Len(buf))
    BY <1>4 DEF Drain
  <2>2. /\ draining' = TRUE /\ resynced' = resynced /\ closed' = closed
        /\ ~closed
    BY <1>4 DEF Drain, IInv, ClosedIsQuiet, TypeOK
  <2>3. /\ SubSeq(buf, 1, end) \in Bytes
        /\ ByRule(cfg, resynced, SubSeq(buf, 1, end))
    BY <1>0, <2>1, EndInside, Pieces, FrameFromCut
  <2>4. \A i \in Cut' : ByRule(cfg, resynced, frames[i])'
    BY <1>0, <1>1, <2>1, <2>2, <2>3, CutStep
  <2> QED
    BY <2>2, <2>4 DEF Rules
<1>5. ASSUME Resync
      PROVE  Rules'
  <2>1. cfg.mode = "lengthPrefix" /\ resynced' = TRUE
    BY <1>5 DEF Resync, IsCorrupt
  <2> QED
    BY <1>1, <2>1 DEF Rules, ByRule, Incomplete
<1>6. ASSUME Drained
      PROVE  Rules'
  <2>1. Incomplete(cfg, resynced, buf)
    BY <1>0, <1>6, RestIncomplete DEF Drained
  <2>2. /\ frames' = frames /\ resynced' = resynced /\ closed' = closed
        /\ buf' = buf
    BY <1>6 DEF Drained
  <2>3. \A i \in Cut' : ByRule(cfg, resynced, frames[i])'
    BY <1>0, <1>1, <2>2, CutStep
  <2> QED
    BY <1>1, <2>1, <2>2, <2>3 DEF Rules
<1>7. ASSUME Tick \/ SendTurn \/ FlushTimeout
      PROVE  Rules'
  BY <1>2, <1>7 DEF Tick, SendTurn, FlushTimeout, TimerRuns
<1>8. ASSUME Disconnect
      PROVE  Rules'
  <2>1. /\ resynced' = resynced /\ closed' = TRUE /\ ~closed /\ buf' = <<>>
        /\ frames' = frames \/ frames' = Append(frames, buf)
    BY <1>8 DEF Disconnect, timerVars
  <2>2. \A i \in Cut' : ByRule(cfg, resynced, frames[i])'
    BY <1>0, <1>1, <2>1, CutStep
  <2>3. Incomplete(cfg, resynced, buf')
    BY <1>0, <2>1, NothingIncomplete
  <2> QED
    BY <1>1, <2>1, <2>2, <2>3 DEF Rules
<1>9. ASSUME UNCHANGED vars
      PROVE  Rules'
  BY <1>0, <1>9 DEF vars, Rules, Cut
<1> QED
  BY <1>3, <1>4, <1>5, <1>6, <1>7, <1>8, <1>9 DEF Next, Terminated

-----------------------------------------------------------------------------
(* The types and the invariant hold initially.                               *)
LEMMA InitIInv ==
    Init => TypeOK /\ IInv
<1> SUFFICES ASSUME Init
             PROVE  TypeOK /\ IInv
  OBVIOUS
<1>1. /\ Timeout \in Nat /\ 0 \in 0 .. Timeout /\ 0 \in 0 .. MaxOut
      /\ <<>> \in Bytes /\ <<>> \in Seq(Bytes)
  BY TimeoutTyped, FramerAssumption DEF Init, Bytes
<1>2. TypeOK
  BY <1>1 DEF Init, TypeOK
<1>3. TimerBehind /\ ClosedIsQuiet /\ WholeHoldsNothing
  BY DEF Init, TimerBehind, ClosedIsQuiet, WholeHoldsNothing
<1>4. NothingLost
  <2>1. FlattenSeq(<<>>) = <<>>
    BY DEF FlattenSeq
  <2> QED
    BY <2>1 DEF Init, NothingLost
<1>5. Rules
  BY NothingIncomplete DEF Init, Rules, Cut
<1> QED
  BY <1>2, <1>3, <1>4, <1>5 DEF IInv

(* Every step preserves the types and the invariant.                         *)
LEMMA NextIInv ==
    TypeOK /\ IInv /\ [Next]_vars => TypeOK' /\ IInv'
BY TypeStep, LoopStep, LostStep, RulesStep DEF IInv

(* The types and the invariant that carries the other theorems hold in every *)
(* state, whatever bytes arrive and however they are cut.                    *)
THEOREM Inductive ==
    Spec => [](TypeOK /\ IInv)
BY InitIInv, NextIInv, PTL DEF Spec

(* The types of the framer's state.                                          *)
THEOREM TypeCorrect ==
    Spec => []TypeOK
BY Inductive, PTL

(* The frames handed out and the bytes still held are the bytes that arrived *)
(* (Framer::feed and Framer::flush).                                         *)
THEOREM KeepsEveryByte ==
    Spec => []NothingLost
<1>1. IInv => NothingLost
  BY DEF IInv
<1> QED
  BY <1>1, Inductive, PTL

(* Frames are split where the rule of the mode says and nowhere else, and    *)
(* nothing complete is held back (the loop of Framer::feed).                 *)
THEOREM SplitsByRule ==
    Spec => []SplitByRule
<1>1. IInv => SplitByRule
  BY RulesSplit DEF IInv
<1> QED
  BY <1>1, Inductive, PTL

(* In timeout mode a frame ends where nothing arrived for the set time       *)
(* (the timer of run_connection).                                            *)
THEOREM CutsInSilence ==
    Spec => CutsWhereQuiet
<1>1. ASSUME TypeOK, IInv, [Next]_vars
      PROVE  [cfg.mode = "timeout" /\ frames' # frames /\ ~closed'
                => silence >= Timeout]_vars
  <2>1. slept \in Nat /\ silence \in Nat /\ Timeout \in Nat /\ slept <= silence
    BY <1>1, TimeoutTyped DEF TypeOK, IInv, TimerBehind
  <2>2. draining => cfg.mode # "timeout"
    BY <1>1 DEF TypeOK, CuttingModes
  <2> QED
    BY <1>1, <2>1, <2>2 DEF Next, Feed, FeedWhole, FeedBuffered, FeedFramed, Takes,
       Drain, Resync, Drained, Tick, SendTurn, FlushTimeout, Disconnect, Terminated,
       vars, CuttingModes
<1> QED
  BY <1>1, Inductive, PTL DEF Spec, CutsWhereQuiet
=============================================================================
