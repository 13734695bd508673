------------------------------- MODULE AutoReply -------------------------------
(* The rules by which a session answers what it receives: the check a        *)
(* configuration passes when it is saved (validate in src-tauri/src/         *)
(* commands.rs) and their evaluation on one message (evaluate_auto_reply in  *)
(* session/mod.rs).  Texts, bytes and results that may be errors are those   *)
(* of Codec.                                                                 *)
(*                                                                           *)
(* The regex crate is external, and what a regular expression means is left  *)
(* open.                                                                     *)

EXTENDS Codec

CONSTANTS
    ValidRegex(_),   \* the patterns that Regex::new compiles
    IsMatch(_, _)    \* is_match: a compiled pattern is found in a text

Kinds == {"tcpClient", "tcpServer", "udp", "wsClient", "wsServer"}
Servers == {"tcpServer", "wsServer"}
MatchKinds == {"exact", "prefix", "contains", "regex", "hexPrefix"}
ReplyActions == {"reply", "echo", "disconnect"}

IsReplyRule(r) ==
    /\ r.enabled \in BOOLEAN
    /\ r.matchKind \in MatchKinds /\ IsText(r.pattern)
    /\ r.action \in ReplyActions
    /\ r.format \in Formats /\ IsText(r.reply)

IsAutoReply(ar) ==
    /\ ar.enabled \in BOOLEAN
    /\ Len(ar.rules) \in Nat /\ DOMAIN ar.rules = 1 .. Len(ar.rules)
    /\ \A i \in DOMAIN ar.rules : IsReplyRule(ar.rules[i])
    /\ ar.defaultEnabled \in BOOLEAN
    /\ ar.defaultFormat \in Formats /\ IsText(ar.defaultReply)

IsTimedSend(t) ==
    /\ t.enabled \in BOOLEAN /\ t.intervalMs \in Nat
    /\ t.format \in Formats /\ IsText(t.content)

Occurs(pattern, text) == \E i \in 0 .. Len(text) : IsPrefix(pattern, Drop(text, i))

-----------------------------------------------------------------------------
(* validate(), which looks at a disabled rule too.                           *)

(* A mistake: the reply of a rule is not looked at.                          *)
RuleAcceptedUnread(r) ==
    /\ r.matchKind = "regex" => ValidRegex(r.pattern)
    /\ r.matchKind = "hexPrefix" => IsHex(r.pattern)

RuleAccepted(r) ==
    /\ r.matchKind = "regex" => ValidRegex(r.pattern)
    /\ r.matchKind = "hexPrefix" => IsHex(r.pattern)
    /\ r.action = "reply" /\ r.format = "hex" => IsHex(r.reply)

TimedSendAccepted(t) ==
    t.enabled =>
        /\ t.intervalMs > 0
        /\ ~IsBlank(t.content)
        /\ t.format = "hex" => IsHex(t.content)

Validate(c) ==
    /\ ~IsBlank(c.name)
    /\ c.kind # "udp" => ~IsBlank(c.host)
    /\ c.port = 0 => c.kind \in Servers
    /\ c.framing.mode = "delimiter" => IsHex(c.framing.delimiterHex)
    /\ \A i \in DOMAIN c.autoReply.rules : RuleAccepted(c.autoReply.rules[i])
    /\ TimedSendAccepted(c.timedSend)

-----------------------------------------------------------------------------
(* evaluate_auto_reply(): at most one plan.                                  *)

IsTextFormat(format) == format \notin {"hex", "base64"}

Render(format, content, sendEncoding) ==
    {[bytes |-> p.bytes, asText |-> IsTextFormat(format), disconnect |-> FALSE] :
        p \in BuildPayload(PlainRequest(format, content, sendEncoding))}

(* A mistake: the end of the line is text.                                   *)
TrimLineEndNever(text) == text

TrimLineEnd(text) ==
    LET kept == {i \in DOMAIN text : text[i] \notin {10, 13}}
    IN  IF kept = {} THEN <<>> ELSE SubSeq(text, 1, Max(kept))

(* Only an exact rule takes the end of the line away: the others, a regular  *)
(* expression too, have the whole text.                                      *)
Hit(r, text, inbound) ==
    CASE r.matchKind = "exact" -> TrimLineEnd(text) = r.pattern
      [] r.matchKind = "prefix" -> IsPrefix(r.pattern, text)
      [] r.matchKind = "contains" -> Occurs(r.pattern, text)
      [] r.matchKind = "regex" -> ValidRegex(r.pattern) /\ IsMatch(r.pattern, text)
      [] r.matchKind = "hexPrefix" ->
             \E p \in ParseHex(r.pattern) : IsPrefix(p, inbound)

Act(r, inbound, sendEncoding) ==
    CASE r.action = "echo" ->
             {[bytes |-> inbound, asText |-> TRUE, disconnect |-> FALSE]}
      [] r.action = "disconnect" ->
             {[bytes |-> <<>>, asText |-> TRUE, disconnect |-> TRUE]}
      [] r.action = "reply" -> Render(r.format, r.reply, sendEncoding)

(* The enabled rules a message hits; the first of them decides.              *)
Hits(ar, text, inbound) ==
    {i \in DOMAIN ar.rules : ar.rules[i].enabled /\ Hit(ar.rules[i], text, inbound)}

(* A first rule that cannot be rendered leaves the message without answer:   *)
(* neither a later rule nor the default one is asked.                        *)
Evaluate(ar, hits, inbound, sendEncoding) ==
    IF hits # {} THEN Act(ar.rules[Min(hits)], inbound, sendEncoding)
    ELSE IF ar.defaultEnabled /\ ar.defaultReply # <<>>
      THEN Render(ar.defaultFormat, ar.defaultReply, sendEncoding)
    ELSE {}

EvaluateAutoReply(ar, inbound, recvEncoding, sendEncoding) ==
    LET text == DecodeText(inbound, recvEncoding).text
    IN  IF ar.enabled THEN Evaluate(ar, Hits(ar, text, inbound), inbound, sendEncoding)
                      ELSE {}
=============================================================================
