--------------------------------- MODULE Codec ---------------------------------
(* The byte-level helpers every message passes through (src-tauri/src/       *)
(* codec.rs): hexadecimal, encodings, escapes, checksums and the assembly of *)
(* an outbound payload.                                                      *)
(*                                                                           *)
(* A text is a sequence of code points, bytes are a sequence over 0 .. 255,  *)
(* and a result that may be an error is a set: {} for Err, {x} for Ok(x).    *)
(* Recursion over a text is a recursive function on its positions.  The      *)
(* content of a request is what is left once its templates are expanded.     *)

EXTENDS Naturals, Sequences, FiniteSets, SequencesExt, FiniteSetsExt

Encodings == {"utf-8", "ascii", "latin-1", "utf-16le", "utf-16be"}
Formats == {"text", "hex", "base64"}
LineEndings == {"none", "lf", "crLf", "cr", "nul", "custom"}
Checksums == {"none", "crc16Modbus", "crc16Ccitt", "crc32", "xor", "sum8"}

Drop(s, n) == SubSeq(s, n + 1, Len(s))
FlatMap(Op(_), s) == FlattenSeq([i \in DOMAIN s |-> Op(s[i])])

Whitespace == (9 .. 13) \cup {32, 133, 160, 5760} \cup (8192 .. 8202)
              \cup {8232, 8233, 8239, 8287, 12288}

IsBlank(s) == \A i \in DOMAIN s : s[i] \in Whitespace

Trim(s) ==
    LET ink == {i \in DOMAIN s : s[i] \notin Whitespace}
    IN  IF ink = {} THEN <<>> ELSE SubSeq(s, Min(ink), Max(ink))

-----------------------------------------------------------------------------
(* Hexadecimal.                                                              *)

IsHexDigit(c) == c \in (48 .. 57) \cup (65 .. 70) \cup (97 .. 102)
HexVal(c) == c - (IF c <= 57 THEN 48 ELSE IF c <= 70 THEN 55 ELSE 87)
HexDigit(v) == IF v < 10 THEN 48 + v ELSE 55 + v

(* trim_start_matches: every p that s begins with.                           *)
TrimStart(p, s) ==
    LET has(k) == IsPrefix(p, Drop(s, k * Len(p)))
        n == CHOOSE n \in 0 .. Len(s) : ~has(n) /\ \A k \in 0 .. n - 1 : has(k)
    IN  Drop(s, n * Len(p))

Trim0x(token) == TrimStart(<<48, 88>>, TrimStart(<<48, 120>>, token))

(* Tokens end at white space and commas; their digits are joined.            *)
Digits(input) ==
    LET next(acc, c) ==
            IF c \in Whitespace \cup {44}
              THEN [out |-> acc.out \o Trim0x(acc.token), token |-> <<>>]
              ELSE [acc EXCEPT !.token = Append(@, c)]
        end == FoldLeft(next, [out |-> <<>>, token |-> <<>>], input)
    IN  end.out \o Trim0x(end.token)

ParseHex(input) ==
    LET d == Digits(input)
    IN  IF Len(d) % 2 = 0 /\ \A i \in DOMAIN d : IsHexDigit(d[i])
          THEN {[i \in 1 .. Len(d) \div 2 |->
                    16 * HexVal(d[2 * i - 1]) + HexVal(d[2 * i])]}
          ELSE {}

IsHex(input) == ParseHex(input) # {}

(* A mistake: a byte below 16 is written with one digit.                     *)
ToHexShort(bytes) ==
    LET digits(b) == IF b < 16 THEN <<HexDigit(b)>>
                               ELSE <<HexDigit(b \div 16), HexDigit(b % 16)>>
    IN  Drop(FlatMap(LAMBDA b : <<32>> \o digits(b), bytes), 1)

ToHex(bytes) ==
    Drop(FlatMap(LAMBDA b : <<32, HexDigit(b \div 16), HexDigit(b % 16)>>, bytes), 1)

-----------------------------------------------------------------------------
(* Base64, the standard alphabet with padding (the base64 crate).            *)

Base64Val(c) ==
    CASE c \in 65 .. 90 -> c - 65
      [] c \in 97 .. 122 -> c - 71
      [] c \in 48 .. 57 -> c + 4
      [] c = 43 -> 62
      [] OTHER -> 63

Base64Digit(v) == CHOOSE c \in (48 .. 57) \cup (65 .. 90) \cup (97 .. 122) \cup {43, 47} :
                      Base64Val(c) = v

IsBase64Digit(c) == c \in (48 .. 57) \cup (65 .. 90) \cup (97 .. 122) \cup {43, 47}

(* Four digits are three bytes; the bytes that padding stands for are zero.  *)
FromBase64(s) ==
    LET pads == {i \in DOMAIN s : s[i] = 61}
        val(i) == IF i \in pads THEN 0 ELSE Base64Val(s[i])
        quad(k) == FoldLeft(LAMBDA n, i : 64 * n + val(4 * k + i), 0, <<1, 2, 3, 4>>)
        byte(j) == (quad((j - 1) \div 3) \div (256 ^ (2 - ((j - 1) % 3)))) % 256
        all == 3 * (Len(s) \div 4)
        n == all - Cardinality(pads)
    IN  IF /\ Len(s) % 4 = 0
           /\ pads \in {{}, {Len(s)}, {Len(s) - 1, Len(s)}}
           /\ \A i \in DOMAIN s \ pads : IsBase64Digit(s[i])
           /\ \A j \in n + 1 .. all : byte(j) = 0
          THEN {[j \in 1 .. n |-> byte(j)]}
          ELSE {}

ToBase64(bytes) ==
    LET byte(j) == IF j <= Len(bytes) THEN bytes[j] ELSE 0
        trio(k) == 65536 * byte(3 * k + 1) + 256 * byte(3 * k + 2) + byte(3 * k + 3)
        digit(i) == (trio((i - 1) \div 4) \div (64 ^ (3 - ((i - 1) % 4)))) % 64
    IN  [i \in 1 .. 4 * ((Len(bytes) + 2) \div 3) |->
            IF i <= (8 * Len(bytes) + 5) \div 6 THEN Base64Digit(digit(i)) ELSE 61]

-----------------------------------------------------------------------------
(* Encodings.  decode yields the text and whether the bytes were at fault.   *)

Replacement == 65533
Question == 63

HighSurrogate == 55296 .. 56319
LowSurrogate == 56320 .. 57343

(* A String: no half of a pair is a character of it.                         *)
MaxCodePoint == 1114111
CodePoint == 0 .. MaxCodePoint

IsText(s) ==
    /\ s \in Seq(CodePoint)
    /\ \A i \in DOMAIN s : s[i] \notin HighSurrogate \cup LowSurrogate

Utf16Units(c) ==
    IF c < 65536 THEN <<c>>
    ELSE <<55296 + (c - 65536) \div 1024, 56320 + ((c - 65536) % 1024)>>

UnitBytes(u, big) == IF big THEN <<u \div 256, u % 256>> ELSE <<u % 256, u \div 256>>

EncodeUtf16(text, big) ==
    FlatMap(LAMBDA u : UnitBytes(u, big), FlatMap(Utf16Units, text))

(* chunks(2), the missing half of the last one being zero.                   *)
UnitsOf(bytes, big) ==
    LET byte(j) == IF j <= Len(bytes) THEN bytes[j] ELSE 0
    IN  [i \in 1 .. (Len(bytes) + 1) \div 2 |->
            IF big THEN 256 * byte(2 * i - 1) + byte(2 * i)
                   ELSE 256 * byte(2 * i) + byte(2 * i - 1)]

(* The two halves of a pair; any other surrogate stands alone.               *)
PairAt(u, i) == i \in 1 .. Len(u) - 1 /\ u[i] \in HighSurrogate /\ u[i + 1] \in LowSurrogate
Alone(u, i) == /\ u[i] \in HighSurrogate \cup LowSurrogate
               /\ ~PairAt(u, i)
               /\ ~PairAt(u, i - 1)

(* from_utf16_lossy: half a pair becomes a replacement character.            *)
Utf16Text(u) ==
    FlattenSeq([i \in DOMAIN u |->
        CASE PairAt(u, i) -> <<65536 + 1024 * (u[i] - 55296) + (u[i + 1] - 56320)>>
          [] PairAt(u, i - 1) -> <<>>
          [] Alone(u, i) -> <<Replacement>>
          [] OTHER -> <<u[i]>>])

Utf8Bytes(c) ==
    LET tail(n) == 128 + ((c \div (64 ^ n)) % 64)
    IN  CASE c < 128 -> <<c>>
          [] 128 <= c /\ c < 2048 -> <<192 + c \div 64, tail(0)>>
          [] 2048 <= c /\ c < 65536 -> <<224 + c \div 4096, tail(1), tail(0)>>
          [] OTHER -> <<240 + c \div 262144, tail(2), tail(1), tail(0)>>

(* What may follow a lead byte: how many bytes, and the range of the first.  *)
Utf8Tails(b) == CASE b \in 194 .. 223 -> 1
                  [] b \in 224 .. 239 -> 2
                  [] b \in 240 .. 244 -> 3
                  [] OTHER -> 0
Utf8Second(b) == CASE b = 224 -> 160 .. 191
                   [] b = 237 -> 128 .. 159
                   [] b = 240 -> 144 .. 191
                   [] b = 244 -> 128 .. 143
                   [] OTHER -> 128 .. 191

(* The longest run of bytes from position i that could begin a character.    *)
Utf8Run(b, i) ==
    LET fits(n) == /\ i + n <= Len(b)
                   /\ b[i + n] \in IF n = 1 THEN Utf8Second(b[i]) ELSE 128 .. 191
    IN  Max({n \in 0 .. Utf8Tails(b[i]) : \A k \in 1 .. n : fits(k)})

Utf8Char(b, i, n) ==
    LET lead == IF n = 0 THEN b[i] ELSE b[i] % (2 ^ (6 - n))
    IN  FoldLeft(LAMBDA c, k : 64 * c + (b[i + k] % 64), lead, [k \in 1 .. n |-> k])

(* Each run that breaks off becomes one replacement character.               *)
DecodeUtf8(b) ==
    LET whole(i) == /\ Utf8Run(b, i) = Utf8Tails(b[i])
                    /\ b[i] \in (0 .. 127) \cup (194 .. 244)
        from[i \in 1 .. Len(b) + 1] ==
            IF i > Len(b) THEN <<<<>>, FALSE>>
            ELSE LET n == Utf8Run(b, i)
                     rest == from[i + n + 1]
                 IN  IF whole(i) THEN <<<<Utf8Char(b, i, n)>> \o rest[1], rest[2]>>
                                 ELSE <<<<Replacement>> \o rest[1], TRUE>>
    IN  [text |-> from[1][1], errors |-> from[1][2]]

(* encoding_rs reads a byte order mark first, and believes it.               *)
DecodeSniffed(b) ==
    LET odd == Len(b) % 2 = 1
        units(big) == UnitsOf(IF odd THEN Front(Drop(b, 2)) ELSE Drop(b, 2), big)
        utf16(big) == [text |-> Utf16Text(units(big)) \o (IF odd THEN <<Replacement>> ELSE <<>>),
                       errors |-> odd \/ \E i \in DOMAIN units(big) : Alone(units(big), i)]
    IN  CASE IsPrefix(<<239, 187, 191>>, b) -> DecodeUtf8(Drop(b, 3))
          [] IsPrefix(<<255, 254>>, b) -> utf16(FALSE)
          [] IsPrefix(<<254, 255>>, b) -> utf16(TRUE)
          [] OTHER -> DecodeUtf8(b)

EncodeText(text, encoding) ==
    CASE encoding = "utf-16le" -> EncodeUtf16(text, FALSE)
      [] encoding = "utf-16be" -> EncodeUtf16(text, TRUE)
      [] encoding \in {"ascii", "latin-1"} ->
             [i \in DOMAIN text |-> IF text[i] < 256 THEN text[i] ELSE Question]
      [] encoding = "utf-8" -> FlatMap(Utf8Bytes, text)

DecodeText(bytes, encoding) ==
    LET utf16(big) == [text |-> Utf16Text(UnitsOf(bytes, big)),
                       errors |-> Len(bytes) % 2 # 0]
    IN  CASE encoding = "utf-16le" -> utf16(FALSE)
          [] encoding = "utf-16be" -> utf16(TRUE)
          [] encoding = "ascii" ->
                 [text |-> [i \in DOMAIN bytes |-> IF bytes[i] > 127 THEN Question ELSE bytes[i]],
                  errors |-> \E i \in DOMAIN bytes : bytes[i] > 127]
          [] encoding = "latin-1" -> [text |-> bytes, errors |-> FALSE]
          [] encoding = "utf-8" -> DecodeSniffed(bytes)

IsControl(c) == c \in (0 .. 31) \cup (127 .. 159)

(* classify: whether the interface shows bytes as text, and which.           *)
Classify(bytes, encoding) ==
    LET d == DecodeText(bytes, encoding)
    IN  [isText |-> /\ ~d.errors
                    /\ bytes # <<>>
                    /\ \A i \in DOMAIN d.text : ~IsControl(d.text[i])
                                                \/ d.text[i] \in {9, 10, 13},
         text |-> d.text]

-----------------------------------------------------------------------------
(* Escapes: \r \n \t \0 \\ \xHH \uHHHH.                                      *)

Backslash == 92
Escaped == [c \in {114, 110, 116, 48, Backslash} |->
                CASE c = 114 -> 13 [] c = 110 -> 10 [] c = 116 -> 9
                  [] c = 48 -> 0 [] c = Backslash -> Backslash]

(* from_str_radix, which accepts a sign.                                     *)
Radix16(s) ==
    LET d == IF s[1] = 43 THEN Tail(s) ELSE s
    IN  IF \A i \in DOMAIN d : IsHexDigit(d[i])
          THEN {FoldLeft(LAMBDA n, c : 16 * n + HexVal(c), 0, d)}
          ELSE {}

(* The character an escape with n digits at position i stands for.           *)
Numeric(text, i, n) ==
    IF i + 1 + n <= Len(text)
      THEN Radix16(SubSeq(text, i + 2, i + 1 + n)) \ (HighSurrogate \cup LowSurrogate)
      ELSE {}

Unescape(text) ==
    LET digits(c) == CASE c = 120 -> 2 [] c = 117 -> 4 [] OTHER -> 0
        starts(i) == text[i] = Backslash /\ i < Len(text)
        from[i \in 1 .. Len(text) + 1] ==
            IF i > Len(text) THEN <<>>
            ELSE IF starts(i) /\ text[i + 1] \in DOMAIN Escaped
              THEN <<Escaped[text[i + 1]]>> \o from[i + 2]
            ELSE IF /\ starts(i)
                    /\ digits(text[i + 1]) > 0
                    /\ Numeric(text, i, digits(text[i + 1])) # {}
              THEN LET n == digits(text[i + 1])
                   IN  SetToSeq(Numeric(text, i, n)) \o from[i + 2 + n]
            ELSE <<text[i]>> \o from[i + 1]
    IN  from[1]

-----------------------------------------------------------------------------
(* Checksums.  A register of the crc crate is the set of its bits that are   *)
(* set; xor is the symmetric difference and the register shifts right.       *)

BitsOf(b) == {i \in 0 .. 7 : (b \div (2 ^ i)) % 2 = 1}
ByteAt(r, k) == MapThenSumSet(LAMBDA i : 2 ^ (i - 8 * k), {i \in r : i \div 8 = k})

(* Generator polynomials by their exponents, and the final xor.              *)
CrcOf == [crc16Modbus |-> [width |-> 16, poly |-> {15, 2, 0}, out |-> {}],
          crc16Ccitt |-> [width |-> 16, poly |-> {12, 5, 0}, out |-> 0 .. 15],
          crc32 |-> [width |-> 32,
                     poly |-> {26, 23, 22, 16, 12, 11, 10, 8, 7, 5, 4, 2, 1, 0},
                     out |-> 0 .. 31]]

CrcBytes(bytes, crc) ==
    LET reflected == {crc.width - 1 - e : e \in crc.poly}
        shift(r, n) == LET s == {i - 1 : i \in r \ {0}}
                       IN  IF 0 \in r THEN SymDiff(s, reflected) ELSE s
        feed(r, b) == FoldLeft(shift, SymDiff(r, BitsOf(b)), <<1, 2, 3, 4, 5, 6, 7, 8>>)
        r == SymDiff(FoldLeft(feed, 0 .. crc.width - 1, bytes), crc.out)
    IN  [k \in 1 .. crc.width \div 8 |-> ByteAt(r, k - 1)]

Checksum(bytes, kind, bigEndian) ==
    CASE kind = "none" -> <<>>
      [] kind \in DOMAIN CrcOf ->
             IF bigEndian THEN Reverse(CrcBytes(bytes, CrcOf[kind]))
                          ELSE CrcBytes(bytes, CrcOf[kind])
      [] kind = "xor" ->
             <<ByteAt(FoldLeft(LAMBDA r, b : SymDiff(r, BitsOf(b)), {}, bytes), 0)>>
      [] kind = "sum8" -> <<FoldLeft(LAMBDA n, b : (n + b) % 256, 0, bytes)>>

-----------------------------------------------------------------------------
(* SendRequest and build_payload.                                            *)

Request(format, content, encoding, unescape, ending, custom, checksum, big) ==
    [format |-> format, content |-> content, encoding |-> encoding,
     unescape |-> unescape, lineEnding |-> ending, customEndingHex |-> custom,
     checksum |-> checksum, checksumBigEndian |-> big]

IsRequest(r) ==
    /\ r.format \in Formats /\ IsText(r.content) /\ r.encoding \in Encodings
    /\ r.unescape \in BOOLEAN
    /\ r.lineEnding \in LineEndings /\ IsText(r.customEndingHex)
    /\ r.checksum \in Checksums /\ r.checksumBigEndian \in BOOLEAN

(* ..Default::default() with a format, a content and an encoding.            *)
PlainRequest(format, content, encoding) ==
    Request(format, content, encoding, FALSE, "none", <<>>, "none", TRUE)

TextOf(req) == IF req.unescape THEN Unescape(req.content) ELSE req.content

ContentBytes(req) ==
    CASE req.format = "text" -> {EncodeText(TextOf(req), req.encoding)}
      [] req.format = "hex" -> ParseHex(req.content)
      [] req.format = "base64" -> FromBase64(Trim(req.content))

Ending(req) ==
    CASE req.lineEnding = "none" -> {<<>>}
      [] req.lineEnding = "lf" -> {<<10>>}
      [] req.lineEnding = "crLf" -> {<<13, 10>>}
      [] req.lineEnding = "cr" -> {<<13>>}
      [] req.lineEnding = "nul" -> {<<0>>}
      [] req.lineEnding = "custom" -> ParseHex(req.customEndingHex)

(* What the checksum covers, and a mistake: the ending is left out.          *)
CoveredWithoutEnding(content, ending) == content

Covered(content, ending) == content \o ending

BuildPayload(req) ==
    {LET sum == Checksum(Covered(content, ending), req.checksum, req.checksumBigEndian)
     IN  [bytes |-> content \o ending \o sum,
          checksumOffset |-> IF req.checksum = "none" THEN {}
                             ELSE {Len(content) + Len(ending)}] :
        content \in ContentBytes(req), ending \in Ending(req)}
=============================================================================
