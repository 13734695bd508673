------------------------------- MODULE MCFramer -------------------------------
(* Framer for TLC: one setting of each mode, and the edges of the modes that *)
(* have some (a delimiter that overlaps itself, an empty one, lengths of     *)
(* zero, both byte orders, a length that counts its header, and one of four  *)
(* bytes that does not fit into usize together with its header).             *)
EXTENDS Framer

Framing(mode, delimiter, fixedLen, off, size, big, incl) ==
    [timeoutMs |-> 2, mode |-> mode, delimiter |-> delimiter, fixedLen |-> fixedLen,
     lenOffset |-> off, lenSize |-> size, bigEndian |-> big,
     includesHeader |-> incl]

MCConfigs ==
    {Framing("none", <<0>>, 0, 0, 1, TRUE, FALSE),
     Framing("timeout", <<0>>, 0, 0, 1, TRUE, FALSE),
     [Framing("timeout", <<0>>, 0, 0, 1, TRUE, FALSE) EXCEPT !.timeoutMs = 0],
     Framing("delimiter", <<>>, 0, 0, 1, TRUE, FALSE),
     Framing("delimiter", <<0, 0>>, 0, 0, 1, TRUE, FALSE),
     Framing("delimiter", <<0, 3>>, 0, 0, 1, TRUE, FALSE),
     Framing("fixed", <<0>>, 0, 0, 1, TRUE, FALSE),
     Framing("fixed", <<0>>, 2, 0, 1, TRUE, FALSE),
     Framing("lengthPrefix", <<0>>, 0, 1, 0, TRUE, FALSE),
     Framing("lengthPrefix", <<0>>, 0, 0, 2, TRUE, FALSE),
     Framing("lengthPrefix", <<0>>, 0, 0, 2, FALSE, FALSE),
     Framing("lengthPrefix", <<0>>, 0, 1, 1, TRUE, TRUE),
     Framing("lengthPrefix", <<0>>, 0, 0, 9, TRUE, FALSE)}
=============================================================================
