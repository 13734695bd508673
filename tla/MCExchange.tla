------------------------------ MODULE MCExchange ------------------------------
(* Exchange for TLC: requests in every format, encoding, ending and checksum *)
(* over a few short texts, to receivers with every kind of rule.  Texts are  *)
(* spelled in code points: a = 97, e acute = 233, a character outside the    *)
(* first plane = 128512, x = 120, backslash = 92.                            *)
EXTENDS Exchange

TextRequest(text, encoding, ending) ==
    Request("text", text, encoding, FALSE, ending, <<>>, "none", TRUE)

Lines ==
    {TextRequest(<<97>>, "utf-8", n) : n \in {"lf", "crLf"}}
    \cup {TextRequest(<<97>>, "utf-16le", "lf")}
    \cup {TextRequest(<<233, 97>>, e, "lf") : e \in {"utf-8", "latin-1", "ascii"}}
    \cup {TextRequest(<<128512>>, e, "none") : e \in {"utf-8", "utf-16le", "utf-16be"}}

(* \x61\\ and \xe9 with an unknown escape, endings of two kinds.             *)
EscapedLines ==
    {Request("text", <<92, 120, 54, 49, 92, 92>>, "utf-8", TRUE, "custom", <<48, 65>>, "none", TRUE),
     Request("text", <<92, 120, 69, 57, 92, 113>>, "latin-1", TRUE, "lf", <<>>, "none", TRUE),
     Request("text", <<97>>, "utf-8", FALSE, "custom", <<52>>, "none", TRUE)}

(* 0x61,0A and 610 in hexadecimal, YQo= and the same without padding.        *)
Raw ==
    {PlainRequest("hex", <<48, 120, 54, 49, 44, 48, 65>>, "utf-8"),
     PlainRequest("hex", <<54, 49, 48>>, "utf-8"),
     PlainRequest("base64", <<32, 89, 81, 111, 61>>, "utf-8"),
     PlainRequest("base64", <<89, 81, 111>>, "utf-8")}

Summed ==
    {Request("text", <<97>>, "utf-8", FALSE, "lf", <<>>, sum, big) :
        <<sum, big>> \in {<<"crc16Modbus", FALSE>>, <<"crc16Ccitt", TRUE>>,
                         <<"crc32", TRUE>>, <<"xor", TRUE>>, <<"sum8", FALSE>>}}

MCRequests == Lines \cup EscapedLines \cup Raw \cup Summed

Framing(mode, delimiterHex) == [mode |-> mode, delimiterHex |-> delimiterHex, fixedLen |-> 2]

Rule(enabled, kind, pattern, action, format, reply) ==
    [enabled |-> enabled, matchKind |-> kind, pattern |-> pattern,
     action |-> action, format |-> format, reply |-> reply]

(* Regular expressions made of characters that stand for themselves and of   *)
(* the anchors ^ and $; an open parenthesis is never closed.                 *)
MCValidRegex(pattern) == ~Contains(pattern, 40)

MCIsMatch(pattern, text) ==
    LET literal == SelectSeq(pattern, LAMBDA c : c \notin {36, 94})
    IN  \E i \in 0 .. Len(text) :
           /\ IsPrefix(literal, Drop(text, i))
           /\ IsPrefix(<<94>>, pattern) => i = 0
           /\ IsSuffix(<<36>>, pattern) => i + Len(literal) = Len(text)

(* Rules are tried in order: a disabled one, a regular expression for a text *)
(* that is a and nothing else, an exact one for a, one that prefixes bytes,  *)
(* an echo; one that cannot be rendered, one that disconnects.               *)
Rules ==
    <<Rule(FALSE, "prefix", <<>>, "disconnect", "text", <<>>),
      Rule(TRUE, "regex", <<94, 97, 36>>, "reply", "text", <<100>>),
      Rule(TRUE, "exact", <<97>>, "reply", "text", <<98>>),
      Rule(TRUE, "hexPrefix", <<69, 57>>, "reply", "hex", <<48, 66>>),
      Rule(TRUE, "contains", <<97>>, "echo", "text", <<>>)>>
Unrendered ==
    <<Rule(TRUE, "regex", <<97>>, "reply", "base64", <<33>>),
      Rule(TRUE, "prefix", <<>>, "disconnect", "text", <<>>)>>

(* Rules that are not accepted.                                              *)
Refused ==
    {<<Rule(TRUE, "prefix", <<97>>, "reply", "hex", <<48>>)>>,
     <<Rule(TRUE, "regex", <<40>>, "echo", "text", <<>>)>>,
     <<Rule(FALSE, "hexPrefix", <<103>>, "echo", "text", <<>>)>>}

Receiver(framing, rules, encoding, timed) ==
    [name |-> <<97>>, kind |-> "tcpServer", host |-> <<97>>, port |-> 0,
     framing |-> framing, recvEncoding |-> encoding, sendEncoding |-> encoding,
     autoReply |-> [enabled |-> TRUE, rules |-> rules, defaultEnabled |-> TRUE,
                    defaultFormat |-> "text", defaultReply |-> <<99>>],
     timedSend |-> timed]

Timed(content) == [enabled |-> content # <<>>, intervalMs |-> 1, format |-> "hex",
                   content |-> content]

NoTimed == Timed(<<>>)
Whole == Framing("none", <<>>)
ByLf == Framing("delimiter", <<48, 65>>)
ByCrLf == Framing("delimiter", <<48, 68, 48, 97>>)

MCSessions ==
    {Receiver(ByLf, Rules, "utf-8", NoTimed),
     Receiver(ByLf, Unrendered, "latin-1", NoTimed),
     Receiver(ByLf, Rules, "utf-16le", NoTimed),
     Receiver(ByCrLf, Rules, "utf-8", NoTimed),
     Receiver(Whole, Rules, "utf-16be", NoTimed),
     Receiver(Framing("fixed", <<>>), <<>>, "ascii", Timed(<<48, 49>>))}
    \cup {Receiver(ByLf, rules, "utf-8", NoTimed) : rules \in Refused}
    \cup {Receiver(Framing("delimiter", <<103, 103>>), Rules, "utf-8", NoTimed),
          Receiver(Whole, Rules, "utf-8", Timed(<<48>>)),
          [Receiver(Whole, Rules, "utf-8", NoTimed) EXCEPT !.kind = "tcpClient"],
          [Receiver(Whole, Rules, "utf-8", NoTimed) EXCEPT !.host = <<32>>]}

-----------------------------------------------------------------------------
(* The operators give what the tests of codec.rs expect, the check values of *)
(* the CRC catalogue and those of RFC 4648 and of the encodings' standards.  *)
Digits19 == [i \in 1 .. 9 |-> 48 + i]
Mixed == <<97, 233, 20013, 128512>>

ASSUME CodecVectors ==
    /\ ParseHex(<<52, 56, 32, 54, 53, 32, 54, 99, 32, 54, 67>>) = {<<72, 101, 108, 108>>}
    /\ ParseHex(<<48, 120, 52, 56, 44, 48, 120, 54, 53, 10, 54, 99>>) = {<<72, 101, 108>>}
    /\ ParseHex(<<52>>) = {} /\ ParseHex(<<122, 122>>) = {}
    /\ ToHex(<<72, 105>>) = <<52, 56, 32, 54, 57>>
    /\ Unescape(<<97, 92, 114, 92, 110, 98, 92, 120, 52, 49, 20013, 92, 92>>)
           = <<97, 13, 10, 98, 65, 20013, 92>>
    /\ Checksum(<<1, 3, 0, 0, 0, 10>>, "crc16Modbus", FALSE) = <<197, 205>>
    /\ Checksum(Digits19, "crc16Modbus", TRUE) = <<75, 55>>
    /\ Checksum(Digits19, "crc16Ccitt", TRUE) = <<144, 110>>
    /\ Checksum(Digits19, "crc32", TRUE) = <<203, 244, 57, 38>>
    /\ ToBase64(<<72, 105>>) = <<83, 71, 107, 61>>
    /\ FromBase64(<<83, 71, 108, 61>>) = {} /\ FromBase64(<<83, 71, 107>>) = {}
    /\ EncodeText(Mixed, "utf-8") = <<97, 195, 169, 228, 184, 173, 240, 159, 152, 128>>
    /\ \A e \in {"utf-8", "utf-16le", "utf-16be"} :
           DecodeText(EncodeText(Mixed, e), e) = [text |-> Mixed, errors |-> FALSE]
    /\ DecodeText(<<97, 240, 159, 152, 65, 255, 237, 160>>, "utf-8")
           = [text |-> <<97, 65533, 65, 65533, 65533, 65533>>, errors |-> TRUE]
    /\ ~Classify(<<1, 3, 197, 205>>, "utf-8").isText
=============================================================================
