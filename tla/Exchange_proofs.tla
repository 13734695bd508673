------------------------------ MODULE Exchange_proofs -------------------------
(* A message's journey, proved for every set of requests, every set of       *)
(* configurations and any number of messages (Exchange.tla): what is built,  *)
(* what crosses, what is cut into frames and what the rules answer.          *)
(*                                                                           *)
(* The helpers of codec.rs come first.  Their loops are folds and their      *)
(* recursions are recursive functions; each is shown to be the fold of a     *)
(* table, or a reading of the positions of a text, so that the lemmas of     *)
(* SequenceLemmas say what it yields.  The invariant of the composition      *)
(* rests on Framer_proofs, instantiated for the receiver.                    *)
(*                                                                           *)
(* The order: what parsers, encoders and checksums yield (their types); the  *)
(* invariant, and AcceptedConfigWorks; linear checksums, and                 *)
(* ChecksumVerifies; texts read back in each encoding; the one way to cut    *)
(* lines, and RulesHearEachLine; hexadecimal and base64 read back, and       *)
(* ShownAsSent.                                                              *)

EXTENDS Exchange, SequenceLemmas, FiniteSetTheorems, TLAPS

(* What is left behind the first n elements are elements of the sequence.    *)
LEMMA DropTyped ==
    ASSUME NEW S, NEW s \in Seq(S), NEW n \in Nat
    PROVE  /\ Drop(s, n) \in Seq(S)
           /\ Len(Drop(s, n)) = IF n <= Len(s) THEN Len(s) - n ELSE 0
           /\ \A i \in 1 .. Len(Drop(s, n)) : Drop(s, n)[i] = s[n + i]
           /\ Drop(s, 0) = s
<1>1. Len(s) \in Nat /\ n + 1 \in Nat /\ n + 1 >= 1
  OBVIOUS
<1>2. Drop(s, n) \in Seq(S) /\ Len(Drop(s, n)) = IF n <= Len(s) THEN Len(s) - n ELSE 0
  BY <1>1 DEF Drop
<1>3. \A i \in 1 .. Len(Drop(s, n)) : Drop(s, n)[i] = s[n + i]
  BY <1>1 DEF Drop
<1>4. Drop(s, 0) = s
  BY <1>1 DEF Drop
<1> QED
  BY <1>2, <1>3, <1>4

(* trim_start_matches takes whole copies of the prefix away ...              *)
LEMMA TrimStartTyped ==
    ASSUME NEW S, NEW s \in Seq(S), NEW p, Len(p) \in Nat \ {0}
    PROVE  TrimStart(p, s) \in Seq(S)
<1> DEFINE has(k) == IsPrefix(p, Drop(s, k * Len(p)))
           T == {k \in Nat : ~has(k)}
           n == CHOOSE n \in 0 .. Len(s) : ~has(n) /\ \A k \in 0 .. n - 1 : has(k)
<1>1. Len(s) \in Nat
  OBVIOUS
<1>2. Len(s) \in T
  <2>1. Len(s) * Len(p) \in Nat /\ Len(s) * Len(p) >= Len(s)
    BY <1>1
  <2>2. Len(Drop(s, Len(s) * Len(p))) = 0
    BY <1>1, <2>1, DropTyped
  <2> QED
    BY <1>1, <2>2 DEF IsPrefix
<1>3. PICK m \in T : \A k \in T : m <= k
  <2>1. T \in SUBSET Nat
    OBVIOUS
  <2> HIDE DEF T
  <2> QED
    BY <1>2, <2>1, LeastNumber
<1>4. m \in 0 .. Len(s) /\ ~has(m) /\ \A k \in 0 .. m - 1 : has(k)
  <2> HIDE DEF has
  <2>1. m \in Nat /\ ~has(m) /\ m <= Len(s)
    BY <1>2, <1>3
  <2>2. ASSUME NEW k \in 0 .. m - 1
        PROVE  has(k)
    BY <1>3, <2>1
  <2> QED
    BY <1>1, <2>1, <2>2
<1>5. n \in 0 .. Len(s)
  <2> HIDE DEF has
  <2> QED
    BY <1>4
<1>6. n * Len(p) \in Nat
  <2> HIDE DEF n
  <2> QED
    BY <1>1, <1>5
<1>7. TrimStart(p, s) = Drop(s, n * Len(p))
  BY DEF TrimStart
<1> HIDE DEF n
<1> QED
  BY <1>6, <1>7, DropTyped

(* ... and leaves what does not begin with it.                               *)
LEMMA TrimStartNone ==
    ASSUME NEW S, NEW s \in Seq(S), NEW p, Len(p) \in Nat \ {0}, ~IsPrefix(p, s)
    PROVE  TrimStart(p, s) = s
<1> DEFINE has(k) == IsPrefix(p, Drop(s, k * Len(p)))
           n == CHOOSE n \in 0 .. Len(s) : ~has(n) /\ \A k \in 0 .. n - 1 : has(k)
<1>1. Len(s) \in Nat /\ Drop(s, 0) = s /\ 0 * Len(p) = 0
  BY DropTyped
<1>2. ~has(0)
  BY <1>1
<1> HIDE DEF has
<1>3. 0 \in 0 .. Len(s) /\ \A k \in 0 .. 0 - 1 : has(k)
  BY <1>1
<1>4. n \in 0 .. Len(s) /\ \A k \in 0 .. n - 1 : has(k)
  BY <1>2, <1>3
<1>5. n = 0
  <2> HIDE DEF n
  <2>1. n # 0 => 0 \in 0 .. n - 1
    BY <1>1, <1>4
  <2> QED
    BY <1>2, <1>4, <2>1
<1>6. TrimStart(p, s) = Drop(s, n * Len(p))
  BY DEF TrimStart, has
<1> HIDE DEF n
<1> QED
  BY <1>1, <1>5, <1>6

(* A token without its 0x.                                                   *)
LEMMA Trim0xTyped ==
    ASSUME NEW S, NEW s \in Seq(S)
    PROVE  Trim0x(s) \in Seq(S)
<1>1. Len(<<48, 120>>) \in Nat \ {0} /\ Len(<<48, 88>>) \in Nat \ {0}
  OBVIOUS
<1>2. TrimStart(<<48, 120>>, s) \in Seq(S)
  BY <1>1, TrimStartTyped
<1> QED
  BY <1>1, <1>2, TrimStartTyped DEF Trim0x

(* An iteration whose steps are those of a table ends where its fold does.   *)
Follows(c, F, A, base, s) ==
    /\ c[{}] = base
    /\ \A p \in SUBSET (1 .. Len(s)) :
          p # {} /\ c[p \ {Max(p)}] \in A
            => c[p] = F[c[p \ {Max(p)}]][s[Max(p)]]

(* Such an iteration, over the sets of positions, ends in the fold of the    *)
(* table.                                                                    *)
LEMMA FollowsFold ==
    ASSUME NEW A, NEW X, NEW F, IsTable(F, A, X), NEW base \in A, NEW s \in Seq(X),
           NEW c, Follows(c, F, A, base, s)
    PROVE  c[1 .. Len(s)] = Fold(F, base, s)
<1>1. Len(s) \in Nat /\ DOMAIN s = 1 .. Len(s)
  OBVIOUS
<1>2. PICK it : Iterates(it, F, base, s, Len(s))
  BY <1>1, IterationExists
<1>3. \A p \in SUBSET (1 .. Len(s)) : it[p] \in A
  BY <1>2, IterationTyped DEF IsTable
<1>4. \A p \in SUBSET (1 .. Len(s)) :
         it[p] = IF p = {} THEN base ELSE F[it[p \ {Max(p)}]][s[Max(p)]]
  BY <1>2 DEF Iterates
<1>5. c[{}] = it[{}]
  <2>1. {} \in SUBSET (1 .. Len(s))
    OBVIOUS
  <2> QED
    BY <1>4, <2>1 DEF Follows
<1>6. ASSUME NEW p \in SUBSET (1 .. Len(s)), p # {}, c[p \ {Max(p)}] = it[p \ {Max(p)}]
      PROVE  c[p] = it[p]
  <2>1. p \ {Max(p)} \in SUBSET (1 .. Len(s))
    OBVIOUS
  <2> QED
    BY <1>3, <1>4, <1>6, <2>1 DEF Follows
<1>7. AgreeStepwise(c, it, Len(s))
  BY <1>5, <1>6 DEF AgreeStepwise
<1>8. 1 .. Len(s) \in SUBSET (1 .. Len(s))
  OBVIOUS
<1>9. c[1 .. Len(s)] = it[1 .. Len(s)]
  BY <1>1, <1>7, <1>8, IterationsAgree
<1> QED
  BY <1>1, <1>2, <1>9, FoldIsIteration

(* The run of a table: typed iterations of it exist.                         *)
LEMMA TypedIteration ==
    ASSUME NEW A, NEW X, NEW F, IsTable(F, A, X), NEW base \in A, NEW s \in Seq(X)
    PROVE  \E it : /\ Iterates(it, F, base, s, Len(s))
                   /\ \A p \in SUBSET (1 .. Len(s)) : it[p] \in A
<1>1. Len(s) \in Nat
  OBVIOUS
<1>2. PICK it : Iterates(it, F, base, s, Len(s))
  BY <1>1, IterationExists
<1> QED
  BY <1>2, IterationTyped DEF IsTable

(* A function on the first n numbers is a sequence.                          *)
LEMMA FunctionIsSeq ==
    ASSUME NEW S, NEW n \in Nat, NEW f \in [1 .. n -> S]
    PROVE  f \in Seq(S) /\ Len(f) = n /\ DOMAIN f = 1 .. n
OBVIOUS

(* The state of the loop of parse_hex, and its step.                         *)
HexState == [out : Seq(Nat), token : Seq(Nat)]
HexStart == [out |-> <<>>, token |-> <<>>]
HexStep(acc, c) ==
    IF c \in Whitespace \cup {44}
      THEN [out |-> acc.out \o Trim0x(acc.token), token |-> <<>>]
      ELSE [acc EXCEPT !.token = Append(@, c)]
HexTable == [acc \in HexState |-> [c \in Nat |-> HexStep(acc, c)]]

(* Each step of the loop of parse_hex keeps its state well typed.            *)
LEMMA HexTyped ==
    /\ IsTable(HexTable, HexState, Nat) /\ HexStart \in HexState
    /\ \A acc \in HexState, c \in Nat :
         HexStep(acc, c) \in HexState /\ HexTable[acc][c] = HexStep(acc, c)
<1>1. HexStart \in HexState
  BY DEF HexStart, HexState
<1>2. ASSUME NEW acc \in HexState, NEW c \in Nat
      PROVE  HexStep(acc, c) \in HexState
  <2>1. /\ acc.out \in Seq(Nat) /\ acc.token \in Seq(Nat) /\ acc = [out |-> acc.out, token |-> acc.token]
    BY DEF HexState
  <2>2. Trim0x(acc.token) \in Seq(Nat)
    BY <2>1, Trim0xTyped
  <2>3. acc.out \o Trim0x(acc.token) \in Seq(Nat) /\ <<>> \in Seq(Nat) /\ Append(acc.token, c) \in Seq(Nat)
    BY <2>1, <2>2
  <2>4. [out |-> acc.out \o Trim0x(acc.token), token |-> <<>>] \in HexState
    BY <2>3 DEF HexState
  <2>5. [acc EXCEPT !.token = Append(@, c)] \in HexState
    BY <2>1, <2>3 DEF HexState
  <2> QED
    BY <2>4, <2>5 DEF HexStep
<1>3. IsTable(HexTable, HexState, Nat)
  BY <1>2 DEF IsTable, HexTable
<1> QED
  BY <1>1, <1>2, <1>3 DEF HexTable

(* The loop of parse_hex is the fold of that table.                          *)
LEMMA DigitsFold ==
    ASSUME NEW input \in Seq(Nat)
    PROVE  LET end == Fold(HexTable, HexStart, input)
           IN  end \in HexState /\ Digits(input) = end.out \o Trim0x(end.token)
<1>1. IsTable(HexTable, HexState, Nat) /\ HexStart \in HexState
  BY HexTyped
<1>2. PICK it : /\ Iterates(it, HexTable, HexStart, input, Len(input))
                /\ \A p \in SUBSET (1 .. Len(input)) : it[p] \in HexState
  BY <1>1, TypedIteration
<1>0. DOMAIN input = 1 .. Len(input)
  OBVIOUS
<1> DEFINE Steps(c) == c = [p \in SUBSET (DOMAIN input) |->
                     IF p = {} THEN HexStart
                     ELSE HexStep(c[p \ {Max(p)}], input[Max(p)])]
           c == CHOOSE c : Steps(c)
<1>3. ASSUME NEW p \in SUBSET (1 .. Len(input)), p # {}
      PROVE  p \ {Max(p)} \in SUBSET (1 .. Len(input)) /\ input[Max(p)] \in Nat
  <2>1. Len(input) \in Nat
    OBVIOUS
  <2>2. Max(p) \in 1 .. Len(input)
    BY <1>3, <2>1, LastPlace
  <2>3. input[Max(p)] \in Nat
    BY <2>2, ElementOfSeq
  <2> QED
    BY <2>3
<1>4. Steps(it)
  <2>1. ASSUME NEW p \in SUBSET (1 .. Len(input)), p # {}
        PROVE  HexTable[it[p \ {Max(p)}]][input[Max(p)]]
                 = HexStep(it[p \ {Max(p)}], input[Max(p)])
    BY <1>2, <1>3, <2>1, HexTyped
  <2> QED
    BY <1>0, <1>2, <2>1 DEF Iterates
<1>5. Steps(c)
  BY <1>4
<1> HIDE DEF c
<1>6. Follows(c, HexTable, HexState, HexStart, input)
  <2>1. c[{}] = HexStart
    <3>1. {} \in SUBSET (1 .. Len(input))
      OBVIOUS
    <3> QED
      BY <1>0, <1>5, <3>1
  <2>2. ASSUME NEW p \in SUBSET (1 .. Len(input)), p # {}, c[p \ {Max(p)}] \in HexState
        PROVE  c[p] = HexTable[c[p \ {Max(p)}]][input[Max(p)]]
    <3>1. c[p] = HexStep(c[p \ {Max(p)}], input[Max(p)])
      BY <1>0, <1>5, <2>2
    <3> QED
      BY <1>3, <2>2, <3>1, HexTyped
  <2> QED
    BY <2>1, <2>2 DEF Follows
<1>7. c[1 .. Len(input)] = Fold(HexTable, HexStart, input)
  BY <1>1, <1>6, FollowsFold
<1>8. Digits(input) = LET end == c[DOMAIN input] IN end.out \o Trim0x(end.token)
  BY DEF Digits, FoldLeft, MapThenFoldSet, c, HexStep, HexStart
<1> QED
  BY <1>0, <1>1, <1>7, <1>8, FoldTyped

(* The digits of a text are characters of it, as many as there are.          *)
LEMMA DigitsAreText ==
    ASSUME NEW input \in Seq(Nat)
    PROVE  Digits(input) \in Seq(Nat)
<1> DEFINE end == Fold(HexTable, HexStart, input)
<1>1. end \in HexState /\ Digits(input) = end.out \o Trim0x(end.token)
  BY DigitsFold
<1> HIDE DEF end
<1>2. end.out \in Seq(Nat) /\ end.token \in Seq(Nat)
  BY <1>1 DEF HexState
<1> QED
  BY <1>1, <1>2, Trim0xTyped

(* What parse_hex reads is a sequence of bytes, and there is at most one.    *)
LEMMA HexReadsBytes ==
    ASSUME NEW input \in Seq(Nat)
    PROVE  /\ \A p \in ParseHex(input) : p \in Seq(0 .. 255) /\ ParseHex(input) = {p}
           /\ IsHex(input) <=> \E p : ParseHex(input) = {p}
<1> DEFINE d == Digits(input)
           b == [i \in 1 .. Len(d) \div 2 |-> 16 * HexVal(d[2 * i - 1]) + HexVal(d[2 * i])]
<1>1. d \in Seq(Nat) /\ Len(d) \in Nat
  BY DigitsAreText
<1>2. CASE Len(d) % 2 = 0 /\ \A i \in DOMAIN d : IsHexDigit(d[i])
  <2>1. ParseHex(input) = {b}
    BY <1>2 DEF ParseHex
  <2>2. Len(d) \div 2 \in Nat /\ 2 * (Len(d) \div 2) = Len(d)
    <3> HIDE DEF d
    <3> QED
      BY <1>1, <1>2
  <2>3. ASSUME NEW i \in 1 .. Len(d) \div 2
        PROVE  b[i] \in 0 .. 255
    <3>1. 2 * i \in 1 .. Len(d) /\ 2 * i - 1 \in 1 .. Len(d)
      <4> HIDE DEF d
      <4> QED
        BY <1>1, <2>2
    <3>2. IsHexDigit(d[2 * i]) /\ IsHexDigit(d[2 * i - 1])
      <4>1. DOMAIN d = 1 .. Len(d)
        BY <1>1
      <4> HIDE DEF d
      <4> QED
        BY <1>2, <3>1, <4>1
    <3>3. \A c : IsHexDigit(c) => HexVal(c) \in 0 .. 15
      BY DEF IsHexDigit, HexVal
    <3>4. \A x, y \in 0 .. 15 : 16 * x + y \in 0 .. 255
      OBVIOUS
    <3>5. b[i] = 16 * HexVal(d[2 * i - 1]) + HexVal(d[2 * i])
      OBVIOUS
    <3> HIDE DEF b
    <3> QED
      BY <3>2, <3>3, <3>4, <3>5, ZenonT(30)
  <2>4. b \in Seq(0 .. 255)
    <3> HIDE DEF d
    <3>1. b \in [1 .. Len(d) \div 2 -> 0 .. 255]
      BY <2>3
    <3> HIDE DEF b
    <3> QED
      BY <2>2, <3>1, FunctionIsSeq, ZenonT(30)
  <2> QED
    BY <2>1, <2>4 DEF IsHex
<1>3. CASE ~(Len(d) % 2 = 0 /\ \A i \in DOMAIN d : IsHexDigit(d[i]))
  <2>1. ParseHex(input) = {}
    BY <1>3 DEF ParseHex
  <2> QED
    BY <2>1 DEF IsHex
<1> QED
  BY <1>2, <1>3

-----------------------------------------------------------------------------
(* Base64.                                                                   *)

(* A digit stands for six bits, and so does padding.                         *)
Sextet(s, i) == IF i \in {j \in DOMAIN s : s[j] = 61} THEN 0 ELSE Base64Val(s[i])

(* A digit of base64 stands for six bits.                                    *)
LEMMA SextetTyped ==
    ASSUME NEW s, NEW i
    PROVE  Sextet(s, i) \in 0 .. 63
BY DEF Sextet, Base64Val

(* The loop over the four digits of a group, as a table.                     *)
QuadStep(s, k, n, i) == 64 * n + Sextet(s, 4 * k + i)
QuadTable(s, k) == [n \in Nat |-> [i \in 1 .. 4 |-> QuadStep(s, k, n, i)]]
QuadPlaces == <<1, 2, 3, 4>>
QuadStart == 0
Quad(s, k) == FoldLeft(LAMBDA n, i : QuadStep(s, k, n, i), 0, <<1, 2, 3, 4>>)

(* The loop over four digits makes numbers of numbers.                       *)
LEMMA QuadTyped ==
    ASSUME NEW s, NEW k \in Nat
    PROVE  /\ IsTable(QuadTable(s, k), Nat, 1 .. 4) /\ QuadStart \in Nat
           /\ \A n \in Nat, i \in 1 .. 4 : QuadTable(s, k)[n][i] = QuadStep(s, k, n, i)
<1>1. \A n \in Nat, i \in 1 .. 4 : QuadStep(s, k, n, i) \in Nat
  BY SextetTyped DEF QuadStep
<1> QED
  BY <1>1 DEF QuadTable, IsTable, QuadStart

(* It is a fold of the table.                                                *)
LEMMA QuadIsFold ==
    ASSUME NEW s, NEW k \in Nat
    PROVE  /\ Quad(s, k)
                = Fold(QuadTable(s, k), QuadStart, QuadPlaces)
           /\ Fold(QuadTable(s, k), QuadStart, QuadPlaces) \in Nat
<1>0. DOMAIN QuadPlaces = 1 .. Len(QuadPlaces) /\ Len(QuadPlaces) \in Nat /\ QuadPlaces \in Seq(1 .. 4)
  BY DEF QuadPlaces
<1>1. IsTable(QuadTable(s, k), Nat, 1 .. 4) /\ QuadStart \in Nat
  BY QuadTyped
<1>2. PICK it : /\ Iterates(it, QuadTable(s, k), QuadStart, QuadPlaces, Len(QuadPlaces))
                /\ \A p \in SUBSET (1 .. Len(QuadPlaces)) : it[p] \in Nat
  BY <1>0, <1>1, TypedIteration
<1> DEFINE Steps(c) == c = [p \in SUBSET (DOMAIN QuadPlaces) |->
                     IF p = {} THEN QuadStart
                     ELSE QuadStep(s, k, c[p \ {Max(p)}], QuadPlaces[Max(p)])]
           c == CHOOSE c : Steps(c)
<1>3. ASSUME NEW p \in SUBSET (1 .. Len(QuadPlaces)), p # {}
      PROVE  p \ {Max(p)} \in SUBSET (1 .. Len(QuadPlaces)) /\ QuadPlaces[Max(p)] \in 1 .. 4
  <2>1. Max(p) \in 1 .. Len(QuadPlaces)
    BY <1>0, <1>3, LastPlace
  <2>2. QuadPlaces[Max(p)] \in 1 .. 4
    BY <1>0, <2>1, ElementOfSeq
  <2> QED
    BY <2>2
<1>4. Steps(it)
  <2>1. ASSUME NEW p \in SUBSET (1 .. Len(QuadPlaces)), p # {}
        PROVE  QuadTable(s, k)[it[p \ {Max(p)}]][QuadPlaces[Max(p)]]
                 = QuadStep(s, k, it[p \ {Max(p)}], QuadPlaces[Max(p)])
    BY <1>2, <1>3, <2>1, QuadTyped
  <2> QED
    BY <1>0, <1>2, <2>1 DEF Iterates
<1>5. Steps(c)
  BY <1>4
<1> HIDE DEF c
<1>6. Follows(c, QuadTable(s, k), Nat, QuadStart, QuadPlaces)
  <2>1. c[{}] = QuadStart
    <3>1. {} \in SUBSET (1 .. Len(QuadPlaces))
      OBVIOUS
    <3> QED
      BY <1>0, <1>5, <3>1
  <2>2. ASSUME NEW p \in SUBSET (1 .. Len(QuadPlaces)), p # {}, c[p \ {Max(p)}] \in Nat
        PROVE  c[p] = QuadTable(s, k)[c[p \ {Max(p)}]][QuadPlaces[Max(p)]]
    <3>1. c[p] = QuadStep(s, k, c[p \ {Max(p)}], QuadPlaces[Max(p)])
      BY <1>0, <1>5, <2>2
    <3> QED
      BY <1>3, <2>2, <3>1, QuadTyped
  <2> QED
    BY <2>1, <2>2 DEF Follows
<1>7. c[1 .. Len(QuadPlaces)] = Fold(QuadTable(s, k), QuadStart, QuadPlaces)
  <2> DEFINE A == Nat
             X == 1 .. 4
  <2>1. QuadPlaces \in Seq(X) /\ IsTable(QuadTable(s, k), A, X) /\ QuadStart \in A
        /\ Follows(c, QuadTable(s, k), A, QuadStart, QuadPlaces)
    BY <1>0, <1>1, <1>6
  <2> HIDE DEF A, X
  <2> QED
    BY <2>1, FollowsFold
<1>8. Quad(s, k) = c[DOMAIN QuadPlaces]
  BY DEF Quad, FoldLeft, MapThenFoldSet, c, QuadPlaces, QuadStart
<1> QED
  BY <1>0, <1>1, <1>7, <1>8, FoldTyped

(* Four digits are a number of twenty-four bits.                             *)
LEMMA QuadValue ==
    ASSUME NEW s, NEW k \in Nat
    PROVE  Quad(s, k) = 64 * (64 * (64 * Sextet(s, 4 * k + 1) + Sextet(s, 4 * k + 2))
                                + Sextet(s, 4 * k + 3)) + Sextet(s, 4 * k + 4)
<1>1. IsTable(QuadTable(s, k), Nat, 1 .. 4) /\ QuadPlaces \in Seq(1 .. 4) /\ Len(QuadPlaces) = 4
      /\ QuadPlaces[1] = 1 /\ QuadPlaces[2] = 2 /\ QuadPlaces[3] = 3 /\ QuadPlaces[4] = 4
  BY QuadTyped DEF QuadPlaces
<1>2. PICK v : IsRun(v, QuadTable(s, k), QuadStart, QuadPlaces, Nat)
  BY <1>1, QuadTyped, FoldRuns
<1>3. /\ v \in [0 .. 4 -> Nat] /\ v[0] = 0 /\ Quad(s, k) = v[4]
      /\ v[1] = QuadTable(s, k)[v[0]][1]
      /\ v[2] = QuadTable(s, k)[v[1]][2]
      /\ v[3] = QuadTable(s, k)[v[2]][3]
      /\ v[4] = QuadTable(s, k)[v[3]][4]
  BY <1>1, <1>2, QuadIsFold DEF IsRun, QuadStart
<1>4. /\ v[1] = QuadStep(s, k, 0, 1) /\ v[2] = QuadStep(s, k, v[1], 2)
      /\ v[3] = QuadStep(s, k, v[2], 3) /\ v[4] = QuadStep(s, k, v[3], 4)
  BY <1>3, QuadTyped
<1> DEFINE w(i) == Sextet(s, 4 * k + i)
<1>6. w(1) \in 0 .. 63 /\ w(2) \in 0 .. 63 /\ w(3) \in 0 .. 63 /\ w(4) \in 0 .. 63
  BY SextetTyped
<1>7. /\ v[1] = 64 * 0 + w(1) /\ v[2] = 64 * v[1] + w(2)
      /\ v[3] = 64 * v[2] + w(3) /\ v[4] = 64 * v[3] + w(4)
  BY <1>4 DEF QuadStep
<1>8. v[1] = w(1)
  <2> HIDE DEF w
  <2> QED
    BY <1>6, <1>7, SMT
<1> QED
  BY <1>3, <1>7, <1>8

(* The bytes base64 reads are bytes, and there is one sequence of them at    *)
(* most.                                                                     *)
DecodedByte(s, j) == (Quad(s, (j - 1) \div 3) \div (256 ^ (2 - ((j - 1) % 3)))) % 256
Padding(s) == {i \in DOMAIN s : s[i] = 61}
DecodedLen(s) == 3 * (Len(s) \div 4) - Cardinality(Padding(s))

(* What base64 decodes to, with its parts named.                             *)
LEMMA FromBase64Is ==
    ASSUME NEW s
    PROVE  FromBase64(s) =
             IF /\ Len(s) % 4 = 0
                /\ Padding(s) \in {{}, {Len(s)}, {Len(s) - 1, Len(s)}}
                /\ \A i \in DOMAIN s \ Padding(s) : IsBase64Digit(s[i])
                /\ \A j \in DecodedLen(s) + 1 .. 3 * (Len(s) \div 4) : DecodedByte(s, j) = 0
               THEN {[j \in 1 .. DecodedLen(s) |-> DecodedByte(s, j)]}
               ELSE {}
BY DEF FromBase64, DecodedLen, Padding, DecodedByte, Quad, QuadStep, Sextet

(* A byte of a group of four digits, whichever of the three it is.           *)
LEMMA DecodedByteTyped ==
    ASSUME NEW s, NEW j \in Nat \ {0}
    PROVE  DecodedByte(s, j) \in 0 .. 255
<1>1. (j - 1) \div 3 \in Nat /\ (j - 1) % 3 \in {0, 1, 2}
  OBVIOUS
<1>2. Quad(s, (j - 1) \div 3) \in Nat
  BY <1>1, QuadIsFold
<1>3. 256 ^ 0 = 1 /\ 256 ^ 1 = 256 /\ 256 ^ 2 = 65536
  OBVIOUS
<1>4. 256 ^ (2 - ((j - 1) % 3)) \in {1, 256, 65536}
  <2> DEFINE r == (j - 1) % 3
  <2>1. r = 0 \/ r = 1 \/ r = 2
    BY <1>1
  <2> HIDE DEF r
  <2>2. 256 ^ (2 - r) \in {1, 256, 65536}
    <3>1. CASE r = 0
      <4>1. 256 ^ (2 - r) = 256 ^ 2
        BY <3>1
      <4> QED
        BY <1>3, <4>1, SMT
    <3>2. CASE r = 1
      <4>1. 256 ^ (2 - r) = 256 ^ 1
        BY <3>2
      <4> QED
        BY <1>3, <4>1, SMT
    <3>3. CASE r = 2
      <4>1. 256 ^ (2 - r) = 256 ^ 0
        BY <3>3
      <4> QED
        BY <1>3, <4>1, SMT
    <3> QED
      BY <2>1, <3>1, <3>2, <3>3, SMT
  <2> QED
    BY <2>2, SMT DEF r
<1>5. \A q \in Nat, d \in {1, 256, 65536} : (q \div d) % 256 \in 0 .. 255
  BY SMT
<1> QED
  BY <1>2, <1>4, <1>5, SMT DEF DecodedByte

(* What base64 decodes to is a sequence of bytes.                            *)
LEMMA Base64ReadsBytes ==
    ASSUME NEW s, NEW p \in FromBase64(s), Len(s) \in Nat, DOMAIN s = 1 .. Len(s)
    PROVE  p \in Seq(0 .. 255)
<1>1. /\ p = [j \in 1 .. DecodedLen(s) |-> DecodedByte(s, j)]
      /\ Len(s) % 4 = 0
      /\ Padding(s) \in {{}, {Len(s)}, {Len(s) - 1, Len(s)}}
  BY FromBase64Is
<1>2. DecodedLen(s) \in Nat
  <2>1. Cardinality(Padding(s)) \in 0 .. 2
    <3>1. Cardinality({}) \in 0 .. 2
      BY FS_EmptySet
    <3>2. \A x : IsFiniteSet({x}) /\ Cardinality({x}) = 1
      BY FS_Singleton
    <3>3. \A x, y : Cardinality({x, y}) \in 0 .. 2
      <4> SUFFICES ASSUME NEW x, NEW y
                   PROVE  Cardinality({x, y}) \in 0 .. 2
        OBVIOUS
      <4>1. {x, y} = {x} \cup {y}
        OBVIOUS
      <4>2. Cardinality({x} \cup {y}) \in {Cardinality({x}), Cardinality({x}) + 1}
        BY <3>2, FS_AddElement
      <4>3. Cardinality({x}) = 1
        BY <3>2
      <4> DEFINE C == Cardinality({x, y})
                 D == Cardinality({x})
      <4>4. C \in {D, D + 1} /\ D = 1
        BY <4>1, <4>2, <4>3
      <4> HIDE DEF C, D
      <4>5. C \in 0 .. 2
        BY <4>4
      <4> QED
        BY <4>5 DEF C
    <3>4. Padding(s) = {} \/ \E x, y : Padding(s) = {x, y}
      <4>1. {Len(s)} = {Len(s), Len(s)}
        OBVIOUS
      <4> QED
        BY <1>1, <4>1, Zenon
    <3> QED
      BY <3>1, <3>3, <3>4, Zenon
  <2>2. Cardinality(Padding(s)) # 0 => Len(s) >= 4
    <3>1. Padding(s) \subseteq 1 .. Len(s)
      BY DEF Padding
    <3>2. Cardinality(Padding(s)) # 0 => Padding(s) # {}
      BY FS_EmptySet
    <3> QED
      BY <1>1, <3>1, <3>2
  <2> QED
    BY <1>1, <2>1, <2>2 DEF DecodedLen
<1>3. p \in [1 .. DecodedLen(s) -> 0 .. 255]
  <2>1. \A j \in 1 .. DecodedLen(s) : DecodedByte(s, j) \in 0 .. 255
    BY <1>2, DecodedByteTyped
  <2> QED
    BY <1>1, <2>1
<1> QED
  BY <1>2, <1>3, FunctionIsSeq

-----------------------------------------------------------------------------
(* Registers of bits.                                                        *)

(* What the bits 8k to 8k + 7 of a register weigh.                           *)
Bit(r, i, weight) == IF i \in r THEN weight ELSE 0
Weight(r, k) ==
    Bit(r, 8 * k, 1) + Bit(r, 8 * k + 1, 2) + Bit(r, 8 * k + 2, 4) + Bit(r, 8 * k + 3, 8)
      + Bit(r, 8 * k + 4, 16) + Bit(r, 8 * k + 5, 32) + Bit(r, 8 * k + 6, 64)
      + Bit(r, 8 * k + 7, 128)

(* Eight bits weigh a byte.                                                  *)
LEMMA WeightTyped ==
    ASSUME NEW r, NEW k
    PROVE  Weight(r, k) \in 0 .. 255
<1>1. /\ Bit(r, 8 * k, 1) \in {0, 1} /\ Bit(r, 8 * k + 1, 2) \in {0, 2}
      /\ Bit(r, 8 * k + 2, 4) \in {0, 4} /\ Bit(r, 8 * k + 3, 8) \in {0, 8}
      /\ Bit(r, 8 * k + 4, 16) \in {0, 16} /\ Bit(r, 8 * k + 5, 32) \in {0, 32}
      /\ Bit(r, 8 * k + 6, 64) \in {0, 64} /\ Bit(r, 8 * k + 7, 128) \in {0, 128}
  BY DEF Bit
<1>2. \A a \in {0, 1}, b \in {0, 2}, c \in {0, 4}, d \in {0, 8},
        e \in {0, 16}, f \in {0, 32}, g \in {0, 64}, h \in {0, 128} :
           a + b + c + d + e + f + g + h \in 0 .. 255
  OBVIOUS
<1> QED
  BY <1>1, <1>2 DEF Weight

(* Powers of two.                                                            *)
LEMMA Powers ==
    /\ 2 ^ 0 = 1 /\ 2 ^ 1 = 2 /\ 2 ^ 2 = 4 /\ 2 ^ 3 = 8
    /\ 2 ^ 4 = 16 /\ 2 ^ 5 = 32 /\ 2 ^ 6 = 64 /\ 2 ^ 7 = 128
OBVIOUS

(* Taking a bit away takes its weight away.                                  *)
LEMMA WeightLess ==
    ASSUME NEW k \in Nat, NEW s, NEW x \in s, x \in 8 * k .. 8 * k + 7
    PROVE  Weight(s, k) = 2 ^ (x - 8 * k) + Weight(s \ {x}, k)
<1> DEFINE t == s \ {x}
           Same(i, v) == Bit(s, i, v) = Bit(t, i, v)
<1>1. \A i, v : i # x => Same(i, v)
  BY DEF Bit
<1>2. \A v : Bit(s, x, v) = v /\ Bit(t, x, v) = 0
  BY DEF Bit
<1>3. /\ Bit(t, 8 * k, 1) \in {0, 1} /\ Bit(t, 8 * k + 1, 2) \in {0, 2}
      /\ Bit(t, 8 * k + 2, 4) \in {0, 4} /\ Bit(t, 8 * k + 3, 8) \in {0, 8}
      /\ Bit(t, 8 * k + 4, 16) \in {0, 16} /\ Bit(t, 8 * k + 5, 32) \in {0, 32}
      /\ Bit(t, 8 * k + 6, 64) \in {0, 64} /\ Bit(t, 8 * k + 7, 128) \in {0, 128}
  BY DEF Bit
<1> HIDE DEF t
<1>4. CASE x = 8 * k
  <2>1. x - 8 * k = 0
    BY <1>4
  <2>2. Same(8 * k + 1, 2) /\ Same(8 * k + 2, 4) /\ Same(8 * k + 3, 8) /\ Same(8 * k + 4, 16) /\ Same(8 * k + 5, 32) /\ Same(8 * k + 6, 64) /\ Same(8 * k + 7, 128)
    BY <1>1, <1>4
  <2>3. Bit(s, 8 * k, 1) = 1 /\ Bit(t, 8 * k, 1) = 0
    BY <1>2, <1>4
  <2>4. 2 ^ (x - 8 * k) = 1
    BY <2>1, Powers
  <2>5. Weight(s, k) = 1 + Weight(t, k)
    BY <1>3, <2>2, <2>3 DEF Weight
  <2> QED
    BY <2>4, <2>5 DEF t
<1>5. CASE x = 8 * k + 1
  <2>1. x - 8 * k = 1
    BY <1>5
  <2>2. Same(8 * k, 1) /\ Same(8 * k + 2, 4) /\ Same(8 * k + 3, 8) /\ Same(8 * k + 4, 16) /\ Same(8 * k + 5, 32) /\ Same(8 * k + 6, 64) /\ Same(8 * k + 7, 128)
    BY <1>1, <1>5
  <2>3. Bit(s, 8 * k + 1, 2) = 2 /\ Bit(t, 8 * k + 1, 2) = 0
    BY <1>2, <1>5
  <2>4. 2 ^ (x - 8 * k) = 2
    BY <2>1, Powers
  <2>5. Weight(s, k) = 2 + Weight(t, k)
    BY <1>3, <2>2, <2>3 DEF Weight
  <2> QED
    BY <2>4, <2>5 DEF t
<1>6. CASE x = 8 * k + 2
  <2>1. x - 8 * k = 2
    BY <1>6
  <2>2. Same(8 * k, 1) /\ Same(8 * k + 1, 2) /\ Same(8 * k + 3, 8) /\ Same(8 * k + 4, 16) /\ Same(8 * k + 5, 32) /\ Same(8 * k + 6, 64) /\ Same(8 * k + 7, 128)
    BY <1>1, <1>6
  <2>3. Bit(s, 8 * k + 2, 4) = 4 /\ Bit(t, 8 * k + 2, 4) = 0
    BY <1>2, <1>6
  <2>4. 2 ^ (x - 8 * k) = 4
    BY <2>1, Powers
  <2>5. Weight(s, k) = 4 + Weight(t, k)
    BY <1>3, <2>2, <2>3 DEF Weight
  <2> QED
    BY <2>4, <2>5 DEF t
<1>7. CASE x = 8 * k + 3
  <2>1. x - 8 * k = 3
    BY <1>7
  <2>2. Same(8 * k, 1) /\ Same(8 * k + 1, 2) /\ Same(8 * k + 2, 4) /\ Same(8 * k + 4, 16) /\ Same(8 * k + 5, 32) /\ Same(8 * k + 6, 64) /\ Same(8 * k + 7, 128)
    BY <1>1, <1>7
  <2>3. Bit(s, 8 * k + 3, 8) = 8 /\ Bit(t, 8 * k + 3, 8) = 0
    BY <1>2, <1>7
  <2>4. 2 ^ (x - 8 * k) = 8
    BY <2>1, Powers
  <2>5. Weight(s, k) = 8 + Weight(t, k)
    BY <1>3, <2>2, <2>3 DEF Weight
  <2> QED
    BY <2>4, <2>5 DEF t
<1>8. CASE x = 8 * k + 4
  <2>1. x - 8 * k = 4
    BY <1>8
  <2>2. Same(8 * k, 1) /\ Same(8 * k + 1, 2) /\ Same(8 * k + 2, 4) /\ Same(8 * k + 3, 8) /\ Same(8 * k + 5, 32) /\ Same(8 * k + 6, 64) /\ Same(8 * k + 7, 128)
    BY <1>1, <1>8
  <2>3. Bit(s, 8 * k + 4, 16) = 16 /\ Bit(t, 8 * k + 4, 16) = 0
    BY <1>2, <1>8
  <2>4. 2 ^ (x - 8 * k) = 16
    BY <2>1, Powers
  <2>5. Weight(s, k) = 16 + Weight(t, k)
    BY <1>3, <2>2, <2>3 DEF Weight
  <2> QED
    BY <2>4, <2>5 DEF t
<1>9. CASE x = 8 * k + 5
  <2>1. x - 8 * k = 5
    BY <1>9
  <2>2. Same(8 * k, 1) /\ Same(8 * k + 1, 2) /\ Same(8 * k + 2, 4) /\ Same(8 * k + 3, 8) /\ Same(8 * k + 4, 16) /\ Same(8 * k + 6, 64) /\ Same(8 * k + 7, 128)
    BY <1>1, <1>9
  <2>3. Bit(s, 8 * k + 5, 32) = 32 /\ Bit(t, 8 * k + 5, 32) = 0
    BY <1>2, <1>9
  <2>4. 2 ^ (x - 8 * k) = 32
    BY <2>1, Powers
  <2>5. Weight(s, k) = 32 + Weight(t, k)
    BY <1>3, <2>2, <2>3 DEF Weight
  <2> QED
    BY <2>4, <2>5 DEF t
<1>10. CASE x = 8 * k + 6
  <2>1. x - 8 * k = 6
    BY <1>10
  <2>2. Same(8 * k, 1) /\ Same(8 * k + 1, 2) /\ Same(8 * k + 2, 4) /\ Same(8 * k + 3, 8) /\ Same(8 * k + 4, 16) /\ Same(8 * k + 5, 32) /\ Same(8 * k + 7, 128)
    BY <1>1, <1>10
  <2>3. Bit(s, 8 * k + 6, 64) = 64 /\ Bit(t, 8 * k + 6, 64) = 0
    BY <1>2, <1>10
  <2>4. 2 ^ (x - 8 * k) = 64
    BY <2>1, Powers
  <2>5. Weight(s, k) = 64 + Weight(t, k)
    BY <1>3, <2>2, <2>3 DEF Weight
  <2> QED
    BY <2>4, <2>5 DEF t
<1>11. CASE x = 8 * k + 7
  <2>1. x - 8 * k = 7
    BY <1>11
  <2>2. Same(8 * k, 1) /\ Same(8 * k + 1, 2) /\ Same(8 * k + 2, 4) /\ Same(8 * k + 3, 8) /\ Same(8 * k + 4, 16) /\ Same(8 * k + 5, 32) /\ Same(8 * k + 6, 64)
    BY <1>1, <1>11
  <2>3. Bit(s, 8 * k + 7, 128) = 128 /\ Bit(t, 8 * k + 7, 128) = 0
    BY <1>2, <1>11
  <2>4. 2 ^ (x - 8 * k) = 128
    BY <2>1, Powers
  <2>5. Weight(s, k) = 128 + Weight(t, k)
    BY <1>3, <2>2, <2>3 DEF Weight
  <2> QED
    BY <2>4, <2>5 DEF t
<1> QED
  BY <1>4, <1>5, <1>6, <1>7, <1>8, <1>9, <1>10, <1>11

(* A byte of a register is the weight of its bits.                           *)
LEMMA ByteAtIsWeight ==
    ASSUME NEW r \in SUBSET Nat, NEW k \in Nat
    PROVE  ByteAt(r, k) = Weight(r, k)
<1> DEFINE S == {i \in r : i \div 8 = k}
           Steps(c) == c = [p \in SUBSET S |->
                              IF p = {} THEN 0
                              ELSE 2 ^ ((CHOOSE x \in p : TRUE) - 8 * k)
                                     + c[p \ {CHOOSE x \in p : TRUE}]]
           c == CHOOSE c : Steps(c)
           w == [p \in SUBSET S |-> Weight(p, k)]
<1>1. ASSUME NEW x \in S
      PROVE  x \in 8 * k .. 8 * k + 7
  <2>1. x \in Nat /\ x \div 8 = k
    OBVIOUS
  <2> HIDE DEF S
  <2> QED
    BY <2>1
<1>2. Weight({}, k) = 0
  BY DEF Weight, Bit
<1>3. ASSUME NEW p \in SUBSET S, p # {}
      PROVE  /\ (CHOOSE x \in p : TRUE) \in p /\ p \ {CHOOSE x \in p : TRUE} \in SUBSET S
             /\ Weight(p, k) = 2 ^ ((CHOOSE x \in p : TRUE) - 8 * k)
                                 + Weight(p \ {CHOOSE x \in p : TRUE}, k)
  <2> DEFINE x == CHOOSE x \in p : TRUE
  <2>1. x \in p
    BY <1>3
  <2> HIDE DEF x, S
  <2>2. x \in 8 * k .. 8 * k + 7
    BY <1>1, <2>1
  <2>3. Weight(p, k) = 2 ^ (x - 8 * k) + Weight(p \ {x}, k)
    BY <2>1, <2>2, WeightLess
  <2> QED
    BY <2>1, <2>3 DEF x
<1>4. Steps(w)
  <2> HIDE DEF S
  <2>1. ASSUME NEW p \in SUBSET S
        PROVE  w[p] = IF p = {} THEN 0
                      ELSE 2 ^ ((CHOOSE x \in p : TRUE) - 8 * k)
                             + w[p \ {CHOOSE x \in p : TRUE}]
    <3>1. CASE p = {}
      BY <1>2, <3>1
    <3>2. CASE p # {}
      <4>1. /\ p \ {CHOOSE x \in p : TRUE} \in SUBSET S
            /\ Weight(p, k) = 2 ^ ((CHOOSE x \in p : TRUE) - 8 * k)
                                 + Weight(p \ {CHOOSE x \in p : TRUE}, k)
        BY <1>3, <3>2
      <4> QED
        BY <3>2, <4>1, Zenon
    <3> QED
      BY <3>1, <3>2
  <2> QED
    BY <2>1, Zenon
<1>5. Steps(c)
  BY <1>4
<1>6. IsFiniteSet(S)
  <2>1. S \subseteq 8 * k .. 8 * k + 7
    BY <1>1
  <2> HIDE DEF S
  <2>2. IsFiniteSet(8 * k .. 8 * k + 7)
    BY FS_Interval
  <2> QED
    BY <2>1, <2>2, FS_Subset
<1> HIDE DEF c
<1>7. \A p \in SUBSET S : c[p] = Weight(p, k)
  <2> HIDE DEF S
  <2> SUFFICES ASSUME NEW q \in SUBSET S, c[q] # Weight(q, k)
               PROVE  FALSE
    OBVIOUS
  <2> DEFINE Bad(p) == p \in SUBSET S /\ c[p] # Weight(p, k)
             T == {n \in Nat : \E p : Bad(p) /\ Cardinality(p) = n}
  <2>1. \A p \in SUBSET S : IsFiniteSet(p) /\ Cardinality(p) \in Nat
    BY <1>6, FS_Subset, FS_CardinalityType
  <2>2. PICK m \in T : \A n \in T : m <= n
    <3>1. T \in SUBSET Nat /\ Cardinality(q) \in T
      BY <2>1
    <3> HIDE DEF T
    <3> QED
      BY <3>1, LeastNumber
  <2>3. PICK p : Bad(p) /\ Cardinality(p) = m
    BY <2>2
  <2> DEFINE x == CHOOSE x \in p : TRUE
  <2>4. p # {}
    <3>1. {} \in SUBSET S
      OBVIOUS
    <3>2. c[{}] = 0
      BY <1>5, <3>1
    <3> QED
      BY <1>2, <2>3, <3>2
  <2>5. /\ x \in p /\ p \ {x} \in SUBSET S
        /\ Weight(p, k) = 2 ^ (x - 8 * k) + Weight(p \ {x}, k)
    BY <1>3, <2>3, <2>4
  <2>6. c[p] = 2 ^ (x - 8 * k) + c[p \ {x}]
    BY <1>5, <2>3, <2>4
  <2> HIDE DEF x
  <2>7. Cardinality(p \ {x}) = m - 1 /\ m \in Nat /\ m - 1 \in Nat
    <3>1. IsFiniteSet(p) /\ Cardinality(p) \in Nat /\ Cardinality(p \ {x}) \in Nat
      BY <2>1, <2>3, <2>5
    <3>2. Cardinality(p \ {x}) = Cardinality(p) - 1
      BY <2>5, <3>1, FS_RemoveElement
    <3> QED
      BY <2>3, <3>1, <3>2
  <2>8. ~Bad(p \ {x})
    <3> HIDE DEF Bad
    <3>1. Bad(p \ {x}) => m - 1 \in T
      BY <2>7
    <3>2. m - 1 \notin T
      <4> HIDE DEF T
      <4> QED
        BY <2>2, <2>7
    <3> QED
      BY <3>1, <3>2
  <2> QED
    BY <2>3, <2>5, <2>6, <2>8
<1>8. ByteAt(r, k) = c[S]
  BY DEF ByteAt, MapThenSumSet, MapThenFoldSet, c
<1>9. Weight(S, k) = Weight(r, k)
  <2>1. ASSUME NEW i, NEW v, i \in 8 * k .. 8 * k + 7
        PROVE  Bit(S, i, v) = Bit(r, i, v)
    <3>1. i \div 8 = k
      BY <2>1
    <3> QED
      BY <3>1 DEF Bit
  <2> HIDE DEF S
  <2>2. /\ 8 * k \in 8 * k .. 8 * k + 7
        /\ \A j \in 1 .. 7 : 8 * k + j \in 8 * k .. 8 * k + 7
    OBVIOUS
  <2> QED
    BY <2>1, <2>2 DEF Weight
<1>10. S \in SUBSET S
  OBVIOUS
<1> QED
  BY <1>7, <1>8, <1>9, <1>10

-----------------------------------------------------------------------------
(* Checksums.                                                                *)

(* The bits of a byte are eight.                                             *)
LEMMA BitsTyped ==
    ASSUME NEW b
    PROVE  BitsOf(b) \in SUBSET (0 .. 7)
BY DEF BitsOf

(* A sequence back to front.                                                 *)
LEMMA ReverseTyped ==
    ASSUME NEW S, NEW s \in Seq(S)
    PROVE  /\ Reverse(s) \in Seq(S) /\ Len(Reverse(s)) = Len(s)
           /\ \A i \in 1 .. Len(s) : Reverse(s)[i] = s[(Len(s) - i) + 1]
<1>1. Len(s) \in Nat /\ \A i \in 1 .. Len(s) : (Len(s) - i) + 1 \in 1 .. Len(s)
  OBVIOUS
<1>2. Reverse(s) \in [1 .. Len(s) -> S]
  BY <1>1, ElementOfSeq DEF Reverse
<1>3. Reverse(s) \in Seq(S) /\ Len(Reverse(s)) = Len(s)
  BY <1>1, <1>2, FunctionIsSeq
<1> QED
  BY <1>3 DEF Reverse

(* The loop of xor.                                                          *)
XorStep(r, b) == SymDiff(r, BitsOf(b))
XorTable == [r \in SUBSET (0 .. 7) |-> [b \in 0 .. 255 |-> XorStep(r, b)]]
XorOver(bytes) == FoldLeft(LAMBDA r, b : XorStep(r, b), {}, bytes)

(* The loop of xor keeps a register of eight bits.                           *)
LEMMA XorTyped ==
    /\ IsTable(XorTable, SUBSET (0 .. 7), 0 .. 255) /\ {} \in SUBSET (0 .. 7)
    /\ \A r \in SUBSET (0 .. 7), b \in 0 .. 255 : XorTable[r][b] = XorStep(r, b)
<1>1. \A r \in SUBSET (0 .. 7), b \in 0 .. 255 : XorStep(r, b) \in SUBSET (0 .. 7)
  BY BitsTyped DEF XorStep, SymDiff
<1> QED
  BY <1>1 DEF XorTable, IsTable

(* It is the fold of its table.                                              *)
LEMMA XorIsFold ==
    ASSUME NEW bytes \in Seq(0 .. 255)
    PROVE  /\ XorOver(bytes)
                = Fold(XorTable, {}, bytes)
           /\ Fold(XorTable, {}, bytes) \in SUBSET (0 .. 7)
<1>0. DOMAIN bytes = 1 .. Len(bytes) /\ Len(bytes) \in Nat /\ bytes \in Seq((0 .. 255))
  OBVIOUS
<1>1. IsTable(XorTable, SUBSET (0 .. 7), (0 .. 255)) /\ {} \in SUBSET (0 .. 7)
  BY XorTyped
<1>2. PICK it : /\ Iterates(it, XorTable, {}, bytes, Len(bytes))
                /\ \A p \in SUBSET (1 .. Len(bytes)) : it[p] \in SUBSET (0 .. 7)
  BY <1>0, <1>1, TypedIteration
<1> DEFINE Steps(c) == c = [p \in SUBSET (DOMAIN bytes) |->
                     IF p = {} THEN {}
                     ELSE XorStep(c[p \ {Max(p)}], bytes[Max(p)])]
           c == CHOOSE c : Steps(c)
<1>3. ASSUME NEW p \in SUBSET (1 .. Len(bytes)), p # {}
      PROVE  p \ {Max(p)} \in SUBSET (1 .. Len(bytes)) /\ bytes[Max(p)] \in (0 .. 255)
  <2>1. Max(p) \in 1 .. Len(bytes)
    BY <1>0, <1>3, LastPlace
  <2>2. bytes[Max(p)] \in (0 .. 255)
    BY <1>0, <2>1, ElementOfSeq
  <2> QED
    BY <2>2
<1>4. Steps(it)
  <2>1. ASSUME NEW p \in SUBSET (1 .. Len(bytes)), p # {}
        PROVE  XorTable[it[p \ {Max(p)}]][bytes[Max(p)]]
                 = XorStep(it[p \ {Max(p)}], bytes[Max(p)])
    BY <1>2, <1>3, <2>1, XorTyped
  <2> QED
    BY <1>0, <1>2, <2>1 DEF Iterates
<1>5. Steps(c)
  BY <1>4
<1> HIDE DEF c
<1>6. Follows(c, XorTable, SUBSET (0 .. 7), {}, bytes)
  <2>1. c[{}] = {}
    <3>1. {} \in SUBSET (1 .. Len(bytes))
      OBVIOUS
    <3> QED
      BY <1>0, <1>5, <3>1
  <2>2. ASSUME NEW p \in SUBSET (1 .. Len(bytes)), p # {}, c[p \ {Max(p)}] \in SUBSET (0 .. 7)
        PROVE  c[p] = XorTable[c[p \ {Max(p)}]][bytes[Max(p)]]
    <3>1. c[p] = XorStep(c[p \ {Max(p)}], bytes[Max(p)])
      BY <1>0, <1>5, <2>2
    <3> QED
      BY <1>3, <2>2, <3>1, XorTyped
  <2> QED
    BY <2>1, <2>2 DEF Follows
<1>7. c[1 .. Len(bytes)] = Fold(XorTable, {}, bytes)
  <2> DEFINE A == SUBSET (0 .. 7)
             X == (0 .. 255)
  <2>1. bytes \in Seq(X) /\ IsTable(XorTable, A, X) /\ {} \in A
        /\ Follows(c, XorTable, A, {}, bytes)
    BY <1>0, <1>1, <1>6
  <2> HIDE DEF A, X
  <2> QED
    BY <2>1, FollowsFold
<1>8. XorOver(bytes) = c[DOMAIN bytes]
  BY ZenonT(30) DEF XorOver, FoldLeft, MapThenFoldSet, c
<1> QED
  BY <1>0, <1>1, <1>7, <1>8, FoldTyped

(* The loop of sum8.                                                         *)
SumStep(n, b) == (n + b) % 256
Octets == 0 .. 255
SumTable == [n \in Octets |-> [b \in Octets |-> SumStep(n, b)]]
SumStart == 0
SumOver(bytes) == FoldLeft(LAMBDA n, b : SumStep(n, b), 0, bytes)

(* The loop of sum8 keeps a byte.                                            *)
LEMMA SumTyped ==
    /\ IsTable(SumTable, Octets, Octets) /\ SumStart \in Octets
    /\ \A n \in Octets, b \in Octets : SumTable[n][b] = SumStep(n, b)
<1>1. \A n \in Octets, b \in Octets : SumStep(n, b) \in Octets
  BY DEF SumStep, Octets
<1>2. SumTable \in [Octets -> [Octets -> Octets]]
  BY <1>1 DEF SumTable
<1>3. SumStart \in Octets
  BY DEF SumStart, Octets
<1>4. \A n \in Octets, b \in Octets : SumTable[n][b] = SumStep(n, b)
  BY DEF SumTable
<1> QED
  BY <1>2, <1>3, <1>4 DEF IsTable

(* It is the fold of its table.                                              *)
LEMMA SumIsFold ==
    ASSUME NEW bytes \in Seq(0 .. 255)
    PROVE  /\ SumOver(bytes)
                = Fold(SumTable, SumStart, bytes)
           /\ Fold(SumTable, SumStart, bytes) \in 0 .. 255
<1>0. DOMAIN bytes = 1 .. Len(bytes) /\ Len(bytes) \in Nat /\ bytes \in Seq(Octets)
  BY DEF Octets
<1>1. IsTable(SumTable, Octets, Octets) /\ SumStart \in Octets
  BY SumTyped
<1>2. PICK it : /\ Iterates(it, SumTable, SumStart, bytes, Len(bytes))
                /\ \A p \in SUBSET (1 .. Len(bytes)) : it[p] \in Octets
  BY <1>0, <1>1, TypedIteration
<1> DEFINE Steps(c) == c = [p \in SUBSET (DOMAIN bytes) |->
                     IF p = {} THEN SumStart
                     ELSE SumStep(c[p \ {Max(p)}], bytes[Max(p)])]
           c == CHOOSE c : Steps(c)
<1>3. ASSUME NEW p \in SUBSET (1 .. Len(bytes)), p # {}
      PROVE  p \ {Max(p)} \in SUBSET (1 .. Len(bytes)) /\ bytes[Max(p)] \in Octets
  <2>1. Max(p) \in 1 .. Len(bytes)
    BY <1>0, <1>3, LastPlace
  <2>2. bytes[Max(p)] \in Octets
    BY <1>0, <2>1, ElementOfSeq
  <2> QED
    BY <2>2
<1>4. Steps(it)
  <2>1. ASSUME NEW p \in SUBSET (1 .. Len(bytes)), p # {}
        PROVE  SumTable[it[p \ {Max(p)}]][bytes[Max(p)]]
                 = SumStep(it[p \ {Max(p)}], bytes[Max(p)])
    BY <1>2, <1>3, <2>1, SumTyped
  <2> QED
    BY <1>0, <1>2, <2>1 DEF Iterates
<1>5. Steps(c)
  BY <1>4
<1> HIDE DEF c
<1>6. Follows(c, SumTable, Octets, SumStart, bytes)
  <2>1. c[{}] = SumStart
    <3>1. {} \in SUBSET (1 .. Len(bytes))
      OBVIOUS
    <3> QED
      BY <1>0, <1>5, <3>1
  <2>2. ASSUME NEW p \in SUBSET (1 .. Len(bytes)), p # {}, c[p \ {Max(p)}] \in Octets
        PROVE  c[p] = SumTable[c[p \ {Max(p)}]][bytes[Max(p)]]
    <3>1. c[p] = SumStep(c[p \ {Max(p)}], bytes[Max(p)])
      BY <1>0, <1>5, <2>2
    <3> QED
      BY <1>3, <2>2, <3>1, SumTyped
  <2> QED
    BY <2>1, <2>2 DEF Follows
<1>7. c[1 .. Len(bytes)] = Fold(SumTable, SumStart, bytes)
  <2> DEFINE A == Octets
             X == Octets
  <2>1. bytes \in Seq(X) /\ IsTable(SumTable, A, X) /\ SumStart \in A
        /\ Follows(c, SumTable, A, SumStart, bytes)
    BY <1>0, <1>1, <1>6
  <2> HIDE DEF A, X
  <2> QED
    BY <2>1, FollowsFold
<1>8. SumOver(bytes) = c[DOMAIN bytes]
  BY ZenonT(30) DEF SumOver, FoldLeft, MapThenFoldSet, c, SumStart
<1> QED
  <2>1. Fold(SumTable, SumStart, bytes) \in Octets
    BY <1>0, <1>1, FoldTyped
  <2> QED
    BY <1>0, <1>7, <1>8, <2>1 DEF Octets

(* A CRC: its registers, one shift, and the eight shifts that take a byte    *)
(* in.                                                                       *)
IsCrc(crc) ==
    /\ crc.width \in {16, 32}
    /\ crc.poly \in SUBSET (0 .. crc.width - 1) /\ crc.out \in SUBSET (0 .. crc.width - 1)
Registers(crc) == SUBSET (0 .. crc.width - 1)
Reflected(crc) == {crc.width - 1 - e : e \in crc.poly}
Down(r) == {i - 1 : i \in r \ {0}}
ShiftStep(crc, r, n) == IF 0 \in r THEN SymDiff(Down(r), Reflected(crc)) ELSE Down(r)
Eight == <<1, 2, 3, 4, 5, 6, 7, 8>>
ShiftTable(crc) == [r \in Registers(crc) |-> [n \in 1 .. 8 |-> ShiftStep(crc, r, n)]]
Shifts(crc, r) == FoldLeft(LAMBDA q, n : ShiftStep(crc, q, n), r, <<1, 2, 3, 4, 5, 6, 7, 8>>)

(* The three CRCs have a width of two or four bytes and a polynomial that    *)
(* fits.                                                                     *)
LEMMA CrcsTyped ==
    ASSUME NEW kind \in DOMAIN CrcOf
    PROVE  IsCrc(CrcOf[kind])
<1>1. CrcOf[kind] \in {CrcOf["crc16Modbus"], CrcOf["crc16Ccitt"], CrcOf["crc32"]}
  BY DEF CrcOf
<1>2. IsCrc(CrcOf["crc16Modbus"])
  BY DEF CrcOf, IsCrc
<1>3. IsCrc(CrcOf["crc16Ccitt"])
  BY DEF CrcOf, IsCrc
<1>4. IsCrc(CrcOf["crc32"])
  BY DEF CrcOf, IsCrc
<1> QED
  BY <1>1, <1>2, <1>3, <1>4

(* The polynomial, lowest exponent first, is a register.                     *)
LEMMA ReflectedTyped ==
    ASSUME NEW crc, IsCrc(crc)
    PROVE  Reflected(crc) \in Registers(crc)
BY DEF IsCrc, Reflected, Registers

(* A register shifted down is a register.                                    *)
LEMMA DownTyped ==
    ASSUME NEW crc, IsCrc(crc), NEW r \in Registers(crc)
    PROVE  Down(r) \in Registers(crc)
BY DEF IsCrc, Down, Registers

(* One shift makes a register of a register.                                 *)
LEMMA ShiftTyped ==
    ASSUME NEW crc, IsCrc(crc), NEW r \in Registers(crc)
    PROVE  /\ IsTable(ShiftTable(crc), Registers(crc), 1 .. 8) /\ r \in Registers(crc)
           /\ \A q \in Registers(crc), n \in 1 .. 8 :
                 ShiftTable(crc)[q][n] = ShiftStep(crc, q, n)
<1>1. ASSUME NEW q \in Registers(crc), NEW n \in 1 .. 8
      PROVE  ShiftStep(crc, q, n) \in Registers(crc)
  <2>1. Down(q) \in Registers(crc) /\ Reflected(crc) \in Registers(crc)
    BY DownTyped, ReflectedTyped
  <2> QED
    BY <2>1 DEF ShiftStep, SymDiff, Registers
<1> QED
  BY <1>1 DEF ShiftTable, IsTable

(* The eight shifts of a byte are the fold of their table.                   *)
LEMMA ShiftsAreFold ==
    ASSUME NEW crc, IsCrc(crc), NEW r \in Registers(crc)
    PROVE  /\ Shifts(crc, r)
                = Fold(ShiftTable(crc), r, Eight)
           /\ Fold(ShiftTable(crc), r, Eight) \in Registers(crc)
<1>0. DOMAIN Eight = 1 .. Len(Eight) /\ Len(Eight) \in Nat /\ Eight \in Seq((1 .. 8))
  BY DEF Eight
<1>1. IsTable(ShiftTable(crc), Registers(crc), (1 .. 8)) /\ r \in Registers(crc)
  BY ShiftTyped
<1>2. PICK it : /\ Iterates(it, ShiftTable(crc), r, Eight, Len(Eight))
                /\ \A p \in SUBSET (1 .. Len(Eight)) : it[p] \in Registers(crc)
  BY <1>0, <1>1, TypedIteration
<1> DEFINE Steps(c) == c = [p \in SUBSET (DOMAIN Eight) |->
                     IF p = {} THEN r
                     ELSE ShiftStep(crc, c[p \ {Max(p)}], Eight[Max(p)])]
           c == CHOOSE c : Steps(c)
<1>3. ASSUME NEW p \in SUBSET (1 .. Len(Eight)), p # {}
      PROVE  p \ {Max(p)} \in SUBSET (1 .. Len(Eight)) /\ Eight[Max(p)] \in (1 .. 8)
  <2>1. Max(p) \in 1 .. Len(Eight)
    BY <1>0, <1>3, LastPlace
  <2>2. Eight[Max(p)] \in (1 .. 8)
    BY <1>0, <2>1, ElementOfSeq
  <2> QED
    BY <2>2
<1>4. Steps(it)
  <2>1. ASSUME NEW p \in SUBSET (1 .. Len(Eight)), p # {}
        PROVE  ShiftTable(crc)[it[p \ {Max(p)}]][Eight[Max(p)]]
                 = ShiftStep(crc, it[p \ {Max(p)}], Eight[Max(p)])
    BY <1>2, <1>3, <2>1, ShiftTyped
  <2> QED
    BY <1>0, <1>2, <2>1 DEF Iterates
<1>5. Steps(c)
  BY <1>4
<1> HIDE DEF c
<1>6. Follows(c, ShiftTable(crc), Registers(crc), r, Eight)
  <2>1. c[{}] = r
    <3>1. {} \in SUBSET (1 .. Len(Eight))
      OBVIOUS
    <3> QED
      BY <1>0, <1>5, <3>1
  <2>2. ASSUME NEW p \in SUBSET (1 .. Len(Eight)), p # {}, c[p \ {Max(p)}] \in Registers(crc)
        PROVE  c[p] = ShiftTable(crc)[c[p \ {Max(p)}]][Eight[Max(p)]]
    <3>1. c[p] = ShiftStep(crc, c[p \ {Max(p)}], Eight[Max(p)])
      BY <1>0, <1>5, <2>2
    <3> QED
      BY <1>3, <2>2, <3>1, ShiftTyped
  <2> QED
    BY <2>1, <2>2 DEF Follows
<1>7. c[1 .. Len(Eight)] = Fold(ShiftTable(crc), r, Eight)
  <2> DEFINE A == Registers(crc)
             X == (1 .. 8)
  <2>1. Eight \in Seq(X) /\ IsTable(ShiftTable(crc), A, X) /\ r \in A
        /\ Follows(c, ShiftTable(crc), A, r, Eight)
    BY <1>0, <1>1, <1>6
  <2> HIDE DEF A, X
  <2> QED
    BY <2>1, FollowsFold
<1>8. Shifts(crc, r) = c[DOMAIN Eight]
  BY DEF Shifts, FoldLeft, MapThenFoldSet, c, Eight
<1> QED
  BY <1>0, <1>1, <1>7, <1>8, FoldTyped

(* The loop of a CRC.                                                        *)
FeedStep(crc, r, b) == Shifts(crc, SymDiff(r, BitsOf(b)))
FeedTable(crc) == [r \in Registers(crc) |-> [b \in 0 .. 255 |-> FeedStep(crc, r, b)]]
Ones(crc) == 0 .. crc.width - 1
CrcOver(crc, bytes) == FoldLeft(LAMBDA r, b : FeedStep(crc, r, b), 0 .. crc.width - 1, bytes)

(* Taking a byte in makes a register of a register.                          *)
LEMMA FeedTyped ==
    ASSUME NEW crc, IsCrc(crc)
    PROVE  /\ IsTable(FeedTable(crc), Registers(crc), 0 .. 255) /\ Ones(crc) \in Registers(crc)
           /\ \A r \in Registers(crc), b \in 0 .. 255 :
                 /\ SymDiff(r, BitsOf(b)) \in Registers(crc)
                 /\ FeedTable(crc)[r][b] = FeedStep(crc, r, b)
<1>1. ASSUME NEW r \in Registers(crc), NEW b \in 0 .. 255
      PROVE  SymDiff(r, BitsOf(b)) \in Registers(crc)
  <2>1. BitsOf(b) \in Registers(crc)
    BY BitsTyped DEF Registers, IsCrc
  <2> QED
    BY <2>1 DEF Registers, SymDiff
<1>2. \A r \in Registers(crc), b \in 0 .. 255 : FeedStep(crc, r, b) \in Registers(crc)
  BY <1>1, ShiftsAreFold DEF FeedStep
<1>3. Ones(crc) \in Registers(crc)
  BY DEF Ones, Registers
<1> QED
  BY <1>1, <1>2, <1>3 DEF FeedTable, IsTable

(* The loop over all bytes is the fold of its table.                         *)
LEMMA CrcIsFold ==
    ASSUME NEW crc, IsCrc(crc), NEW bytes \in Seq(0 .. 255)
    PROVE  /\ CrcOver(crc, bytes)
                = Fold(FeedTable(crc), Ones(crc), bytes)
           /\ Fold(FeedTable(crc), Ones(crc), bytes) \in Registers(crc)
<1>0. DOMAIN bytes = 1 .. Len(bytes) /\ Len(bytes) \in Nat /\ bytes \in Seq((0 .. 255))
  OBVIOUS
<1>1. IsTable(FeedTable(crc), Registers(crc), (0 .. 255)) /\ Ones(crc) \in Registers(crc)
  BY FeedTyped
<1>2. PICK it : /\ Iterates(it, FeedTable(crc), Ones(crc), bytes, Len(bytes))
                /\ \A p \in SUBSET (1 .. Len(bytes)) : it[p] \in Registers(crc)
  BY <1>0, <1>1, TypedIteration
<1> DEFINE Steps(c) == c = [p \in SUBSET (DOMAIN bytes) |->
                     IF p = {} THEN Ones(crc)
                     ELSE FeedStep(crc, c[p \ {Max(p)}], bytes[Max(p)])]
           c == CHOOSE c : Steps(c)
<1>3. ASSUME NEW p \in SUBSET (1 .. Len(bytes)), p # {}
      PROVE  p \ {Max(p)} \in SUBSET (1 .. Len(bytes)) /\ bytes[Max(p)] \in (0 .. 255)
  <2>1. Max(p) \in 1 .. Len(bytes)
    BY <1>0, <1>3, LastPlace
  <2>2. bytes[Max(p)] \in (0 .. 255)
    BY <1>0, <2>1, ElementOfSeq
  <2> QED
    BY <2>2
<1>4. Steps(it)
  <2>1. ASSUME NEW p \in SUBSET (1 .. Len(bytes)), p # {}
        PROVE  FeedTable(crc)[it[p \ {Max(p)}]][bytes[Max(p)]]
                 = FeedStep(crc, it[p \ {Max(p)}], bytes[Max(p)])
    BY <1>2, <1>3, <2>1, FeedTyped
  <2> QED
    BY <1>0, <1>2, <2>1 DEF Iterates
<1>5. Steps(c)
  BY <1>4
<1> HIDE DEF c
<1>6. Follows(c, FeedTable(crc), Registers(crc), Ones(crc), bytes)
  <2>1. c[{}] = Ones(crc)
    <3>1. {} \in SUBSET (1 .. Len(bytes))
      OBVIOUS
    <3> QED
      BY <1>0, <1>5, <3>1
  <2>2. ASSUME NEW p \in SUBSET (1 .. Len(bytes)), p # {}, c[p \ {Max(p)}] \in Registers(crc)
        PROVE  c[p] = FeedTable(crc)[c[p \ {Max(p)}]][bytes[Max(p)]]
    <3>1. c[p] = FeedStep(crc, c[p \ {Max(p)}], bytes[Max(p)])
      BY <1>0, <1>5, <2>2
    <3> QED
      BY <1>3, <2>2, <3>1, FeedTyped
  <2> QED
    BY <2>1, <2>2 DEF Follows
<1>7. c[1 .. Len(bytes)] = Fold(FeedTable(crc), Ones(crc), bytes)
  <2> DEFINE A == Registers(crc)
             X == (0 .. 255)
  <2>1. bytes \in Seq(X) /\ IsTable(FeedTable(crc), A, X) /\ Ones(crc) \in A
        /\ Follows(c, FeedTable(crc), A, Ones(crc), bytes)
    BY <1>0, <1>1, <1>6
  <2> HIDE DEF A, X
  <2> QED
    BY <2>1, FollowsFold
<1>8. CrcOver(crc, bytes) = c[DOMAIN bytes]
  BY DEF CrcOver, FoldLeft, MapThenFoldSet, c, Ones
<1> QED
  BY <1>0, <1>1, <1>7, <1>8, FoldTyped

(* The bytes of a CRC are those of its register, low byte first.             *)
CrcResult(crc, bytes) == SymDiff(CrcOver(crc, bytes), crc.out)

(* The CRC of some bytes is as many bytes as it is wide, those of the last   *)
(* register, low byte first.                                                 *)
LEMMA CrcBytesAre ==
    ASSUME NEW crc, IsCrc(crc), NEW bytes \in Seq(0 .. 255)
    PROVE  /\ CrcResult(crc, bytes) \in Registers(crc)
           /\ CrcBytes(bytes, crc)
                = [k \in 1 .. crc.width \div 8 |-> Weight(CrcResult(crc, bytes), k - 1)]
           /\ CrcBytes(bytes, crc) \in Seq(0 .. 255)
           /\ Len(CrcBytes(bytes, crc)) = crc.width \div 8
<1>1. CrcResult(crc, bytes) \in Registers(crc)
  BY CrcIsFold DEF CrcResult, SymDiff, Registers, IsCrc
<1>2. CrcBytes(bytes, crc)
        = [k \in 1 .. crc.width \div 8 |-> ByteAt(CrcResult(crc, bytes), k - 1)]
  BY DEF CrcBytes, CrcResult, CrcOver, FeedStep, Shifts, ShiftStep, Down, Reflected
<1>3. crc.width \div 8 \in Nat /\ CrcResult(crc, bytes) \in SUBSET Nat
  BY <1>1 DEF IsCrc, Registers
<1>4. ASSUME NEW k \in 1 .. crc.width \div 8
      PROVE  ByteAt(CrcResult(crc, bytes), k - 1) = Weight(CrcResult(crc, bytes), k - 1)
  <2>1. k - 1 \in Nat
    BY <1>3
  <2> QED
    BY <1>3, <2>1, ByteAtIsWeight
<1>5. CrcBytes(bytes, crc)
        = [k \in 1 .. crc.width \div 8 |-> Weight(CrcResult(crc, bytes), k - 1)]
  BY <1>2, <1>4, Zenon
<1>6. CrcBytes(bytes, crc) \in [1 .. crc.width \div 8 -> 0 .. 255]
  BY <1>5, WeightTyped
<1>7. CrcBytes(bytes, crc) \in Seq(0 .. 255) /\ Len(CrcBytes(bytes, crc)) = crc.width \div 8
  <2> DEFINE n == crc.width \div 8
             f == CrcBytes(bytes, crc)
  <2>1. n \in Nat /\ f \in [1 .. n -> 0 .. 255]
    BY <1>3, <1>6
  <2> HIDE DEF n, f
  <2>2. f \in Seq(0 .. 255) /\ Len(f) = n
    BY <2>1, FunctionIsSeq
  <2> QED
    BY <2>2 DEF n, f
<1> QED
  BY <1>1, <1>5, <1>7

(* A checksum is bytes: as many as its kind has.                             *)
SumWidth(kind) ==
    CASE kind = "none" -> 0 [] kind \in DOMAIN CrcOf -> CrcOf[kind].width \div 8 [] OTHER -> 1

(* A checksum of any kind is bytes, as many as the kind has.                 *)
LEMMA ChecksumTyped ==
    ASSUME NEW bytes \in Seq(0 .. 255), NEW kind \in Checksums, NEW big \in BOOLEAN
    PROVE  /\ Checksum(bytes, kind, big) \in Seq(0 .. 255)
           /\ Len(Checksum(bytes, kind, big)) = SumWidth(kind)
<1>0. DOMAIN CrcOf = {"crc16Modbus", "crc16Ccitt", "crc32"}
  BY DEF CrcOf
<1>1. CASE kind = "none"
  <2>1. Checksum(bytes, kind, big) = <<>> /\ SumWidth(kind) = 0
    BY <1>0, <1>1 DEF Checksum, SumWidth
  <2> QED
    BY <2>1
<1>2. CASE kind \in DOMAIN CrcOf
  <2> DEFINE b == CrcBytes(bytes, CrcOf[kind])
             n == CrcOf[kind].width \div 8
  <2>1. b \in Seq(0 .. 255) /\ Len(b) = n
    BY <1>2, CrcsTyped, CrcBytesAre
  <2>2. Checksum(bytes, kind, big) = IF big THEN Reverse(b) ELSE b
    BY <1>0, <1>2 DEF Checksum
  <2>3. SumWidth(kind) = n
    BY <1>0, <1>2 DEF SumWidth
  <2> HIDE DEF b, n
  <2>4. Reverse(b) \in Seq(0 .. 255) /\ Len(Reverse(b)) = n
    BY <2>1, ReverseTyped
  <2> QED
    BY <2>1, <2>2, <2>3, <2>4
<1>3. CASE kind = "xor"
  <2>1. Checksum(bytes, kind, big) = <<ByteAt(XorOver(bytes), 0)>>
    BY <1>0, <1>3 DEF Checksum, XorOver, XorStep
  <2>2. XorOver(bytes) \in SUBSET Nat
    <3>1. XorOver(bytes) \in SUBSET (0 .. 7)
      BY XorIsFold
    <3> QED
      BY <3>1
  <2>3. ByteAt(XorOver(bytes), 0) \in 0 .. 255
    BY <2>2, ByteAtIsWeight, WeightTyped, ZenonT(30)
  <2>4. SumWidth(kind) = 1
    BY <1>0, <1>3 DEF SumWidth
  <2> QED
    BY <2>1, <2>3, <2>4
<1>4. CASE kind = "sum8"
  <2>1. Checksum(bytes, kind, big) = <<SumOver(bytes)>>
    BY <1>0, <1>4 DEF Checksum, SumOver, SumStep
  <2>2. SumOver(bytes) \in 0 .. 255
    BY SumIsFold
  <2>4. SumWidth(kind) = 1
    BY <1>0, <1>4 DEF SumWidth
  <2> QED
    BY <2>1, <2>2, <2>4
<1> QED
  BY <1>0, <1>1, <1>2, <1>3, <1>4 DEF Checksums

-----------------------------------------------------------------------------
(* Functions that read a text from a position on: each place says which is   *)
(* read next and what is made of the rest.                                   *)
Advances(nx, n) == nx \in [1 .. n -> 1 .. n + 1] /\ \A i \in 1 .. n : nx[i] > i
IsReading(f, n, base, nx, H) ==
    /\ f[n + 1] = base
    /\ \A i \in 1 .. n : f[i] = H[i][f[nx[i]]]
Makes(H, n, A) == H \in [1 .. n -> [A -> A]]

(* There is one, with values of the type that is made.                       *)
LEMMA ReadingOn ==
    ASSUME NEW n \in Nat, NEW A, NEW base \in A, NEW nx, Advances(nx, n),
           NEW H, Makes(H, n, A)
    PROVE  \E f \in [1 .. n + 1 -> A] : IsReading(f, n, base, nx, H)
<1> DEFINE Part(f, k) == /\ f \in [n + 1 - k .. n + 1 -> A] /\ f[n + 1] = base
                         /\ \A i \in n + 1 - k .. n : f[i] = H[i][f[nx[i]]]
           T == {k \in 0 .. n : \E f : Part(f, k)}
<1>1. 0 \in T
  <2> DEFINE f == [i \in n + 1 - 0 .. n + 1 |-> base]
  <2>1. n + 1 \in n + 1 - 0 .. n + 1 /\ n + 1 - 0 .. n = {}
    OBVIOUS
  <2>2. Part(f, 0)
    BY <2>1
  <2> HIDE DEF Part
  <2> QED
    BY <2>2
<1>2. ASSUME NEW k \in 1 .. n, k - 1 \in T
      PROVE  k \in T
  <2>1. PICK f : Part(f, k - 1)
    BY <1>2
  <2> DEFINE j == n + 1 - k
             g == [i \in j .. n + 1 |-> IF i = j THEN H[j][f[nx[j]]] ELSE f[i]]
  <2>2. /\ j \in 1 .. n /\ n + 1 - (k - 1) = j + 1 /\ n + 1 \in j .. n + 1 /\ n + 1 # j
        /\ \A i \in j .. n + 1 : i = j \/ i \in j + 1 .. n + 1
        /\ \A i \in j .. n : i = j \/ i \in j + 1 .. n
        /\ \A i \in j + 1 .. n + 1 : i # j /\ i \in j .. n + 1
        /\ \A i \in j .. n : i \in 1 .. n
    OBVIOUS
  <2>3. \A i \in j .. n : nx[i] \in j + 1 .. n + 1
    <3>1. ASSUME NEW i \in j .. n
          PROVE  nx[i] \in j + 1 .. n + 1
      <4>1. i \in 1 .. n /\ nx[i] \in 1 .. n + 1 /\ nx[i] > i
        BY <2>2 DEF Advances
      <4> QED
        BY <2>2, <4>1
    <3> QED
      BY <3>1
  <2>4. /\ f \in [j + 1 .. n + 1 -> A] /\ f[n + 1] = base
        /\ \A i \in j + 1 .. n : f[i] = H[i][f[nx[i]]]
    BY <2>1, <2>2
  <2> HIDE DEF j
  <2>5. j \in j .. n /\ H[j] \in [A -> A] /\ f[nx[j]] \in A
    BY <2>2, <2>3, <2>4 DEF Makes
  <2>6. g \in [j .. n + 1 -> A]
    BY <2>2, <2>4, <2>5
  <2>7. g[n + 1] = base
    BY <2>2, <2>4
  <2>8. ASSUME NEW i \in j .. n
        PROVE  g[i] = H[i][g[nx[i]]]
    <3>1. g[nx[i]] = f[nx[i]]
      BY <2>2, <2>3
    <3>2. i \in j .. n + 1
      BY <2>2
    <3> QED
      BY <2>2, <2>4, <3>1, <3>2
  <2>9. Part(g, k)
    <3> HIDE DEF g
    <3> QED
      BY <2>6, <2>7, <2>8 DEF j
  <2> HIDE DEF Part
  <2> QED
    BY <2>9
<1>3. Climbs(T, n)
  <2> HIDE DEF T
  <2> QED
    BY <1>1, <1>2 DEF Climbs
<1>4. n \in T
  <2> HIDE DEF T
  <2>1. n \in 0 .. n
    OBVIOUS
  <2> QED
    BY <1>3, <2>1, UpTo
<1>5. PICK f : Part(f, n)
  BY <1>4
<1>6. n + 1 - n = 1
  OBVIOUS
<1> QED
  BY <1>5, <1>6 DEF IsReading

(* Whatever reads like it is it.                                             *)
ReadsLike(c, n, base, nx, H, A) ==
    /\ c[n + 1] = base
    /\ \A i \in 1 .. n : c[nx[i]] \in A => c[i] = H[i][c[nx[i]]]

(* So every value it has is of the type that is made.                        *)
LEMMA OneReading ==
    ASSUME NEW n \in Nat, NEW A, NEW base \in A, NEW nx, Advances(nx, n),
           NEW H, Makes(H, n, A), NEW c, ReadsLike(c, n, base, nx, H, A)
    PROVE  \A i \in 1 .. n + 1 : c[i] \in A
<1>1. PICK f \in [1 .. n + 1 -> A] : IsReading(f, n, base, nx, H)
  BY ReadingOn
<1> DEFINE T == {k \in 0 .. n : \A i \in n + 1 - k .. n + 1 : c[i] \in A}
<1>2. 0 \in T
  BY DEF ReadsLike
<1>3. ASSUME NEW k \in 1 .. n, k - 1 \in T
      PROVE  k \in T
  <2> DEFINE j == n + 1 - k
  <2>1. /\ j \in 1 .. n /\ n + 1 - (k - 1) = j + 1
        /\ \A i \in j .. n + 1 : i = j \/ i \in j + 1 .. n + 1
    OBVIOUS
  <2>2. \A i \in j + 1 .. n + 1 : c[i] \in A
    BY <1>3, <2>1
  <2>3. nx[j] \in j + 1 .. n + 1
    <3>1. nx[j] \in 1 .. n + 1 /\ nx[j] > j
      BY <2>1 DEF Advances
    <3> QED
      BY <2>1, <3>1
  <2>4. c[j] \in A
    BY <2>1, <2>2, <2>3 DEF ReadsLike, Makes
  <2> QED
    BY <2>1, <2>2, <2>4
<1>4. Climbs(T, n)
  <2> HIDE DEF T
  <2> QED
    BY <1>2, <1>3 DEF Climbs
<1>5. n \in T
  <2> HIDE DEF T
  <2>1. n \in 0 .. n
    OBVIOUS
  <2> QED
    BY <1>4, <2>1, UpTo
<1>6. n + 1 - n = 1
  OBVIOUS
<1> QED
  BY <1>5, <1>6

-----------------------------------------------------------------------------
(* The number that digits write, and what a text is made of.                 *)

(* The set of one element as a sequence.                                     *)
LEMMA OneToSeq ==
    ASSUME NEW x
    PROVE  SetToSeq({x}) = <<x>> /\ SetToSeq({x})[1] = x
<1>1. Cardinality({x}) = 1
  BY FS_Singleton
<1>2. SetToSeq({x}) = CHOOSE f \in [1 .. 1 -> {x}] : IsInjective(f)
  BY <1>1 DEF SetToSeq
<1>3. [i \in 1 .. 1 |-> x] \in [1 .. 1 -> {x}] /\ IsInjective([i \in 1 .. 1 |-> x])
  BY DEF IsInjective
<1> DEFINE s == SetToSeq({x})
<1>4. s \in [1 .. 1 -> {x}]
  BY <1>2, <1>3
<1> HIDE DEF s
<1>5. s \in Seq({x}) /\ Len(s) = 1 /\ s[1] = x
  <2>1. 1 \in Nat
    OBVIOUS
  <2>2. s \in Seq({x}) /\ Len(s) = 1
    BY <1>4, <2>1, FunctionIsSeq
  <2>3. s[1] = x
    <3>1. 1 \in 1 .. 1
      OBVIOUS
    <3> QED
      BY <1>4, <3>1
  <2> QED
    BY <2>2, <2>3
<1>6. s = <<x>>
  BY <1>5
<1> QED
  BY <1>5, <1>6 DEF s

(* from_str_radix: a number of four digits at most.                          *)
RadixStep(n, c) == 16 * n + HexVal(c)
RadixStart == 0
RadixOf(d) == FoldLeft(LAMBDA n, c : RadixStep(n, c), 0, d)
HexDigits == (48 .. 57) \cup (65 .. 70) \cup (97 .. 102)
DigitTable == [n \in Nat |-> [c \in HexDigits |-> RadixStep(n, c)]]

(* A hexadecimal digit stands for four bits.                                 *)
LEMMA HexValTyped ==
    ASSUME NEW c \in HexDigits
    PROVE  HexVal(c) \in 0 .. 15
BY DEF HexDigits, HexVal

(* The loop of from_str_radix makes numbers of numbers.                      *)
LEMMA DigitTableTyped ==
    /\ IsTable(DigitTable, Nat, HexDigits) /\ RadixStart \in Nat
    /\ \A n \in Nat, c \in HexDigits : DigitTable[n][c] = RadixStep(n, c)
<1>1. \A n \in Nat, c \in HexDigits : RadixStep(n, c) \in Nat
  BY HexValTyped DEF RadixStep
<1> QED
  BY <1>1 DEF DigitTable, IsTable, RadixStart

(* It is the fold of its table.                                              *)
LEMMA RadixIsFold ==
    ASSUME NEW d \in Seq(HexDigits)
    PROVE  /\ RadixOf(d)
                = Fold(DigitTable, RadixStart, d)
           /\ Fold(DigitTable, RadixStart, d) \in Nat
<1>0. DOMAIN d = 1 .. Len(d) /\ Len(d) \in Nat /\ d \in Seq(HexDigits)
  OBVIOUS
<1>1. IsTable(DigitTable, Nat, HexDigits) /\ RadixStart \in Nat
  BY DigitTableTyped
<1>2. PICK it : /\ Iterates(it, DigitTable, RadixStart, d, Len(d))
                /\ \A p \in SUBSET (1 .. Len(d)) : it[p] \in Nat
  BY <1>0, <1>1, TypedIteration
<1> DEFINE Steps(c) == c = [p \in SUBSET (DOMAIN d) |->
                     IF p = {} THEN RadixStart
                     ELSE RadixStep(c[p \ {Max(p)}], d[Max(p)])]
           c == CHOOSE c : Steps(c)
<1>3. ASSUME NEW p \in SUBSET (1 .. Len(d)), p # {}
      PROVE  p \ {Max(p)} \in SUBSET (1 .. Len(d)) /\ d[Max(p)] \in HexDigits
  <2>1. Max(p) \in 1 .. Len(d)
    BY <1>0, <1>3, LastPlace
  <2>2. d[Max(p)] \in HexDigits
    BY <1>0, <2>1, ElementOfSeq
  <2> QED
    BY <2>2
<1>4. Steps(it)
  <2>1. ASSUME NEW p \in SUBSET (1 .. Len(d)), p # {}
        PROVE  DigitTable[it[p \ {Max(p)}]][d[Max(p)]]
                 = RadixStep(it[p \ {Max(p)}], d[Max(p)])
    BY <1>2, <1>3, <2>1, DigitTableTyped
  <2> QED
    BY <1>0, <1>2, <2>1 DEF Iterates
<1>5. Steps(c)
  BY <1>4
<1> HIDE DEF c
<1>6. Follows(c, DigitTable, Nat, RadixStart, d)
  <2>1. c[{}] = RadixStart
    <3>1. {} \in SUBSET (1 .. Len(d))
      OBVIOUS
    <3> QED
      BY <1>0, <1>5, <3>1
  <2>2. ASSUME NEW p \in SUBSET (1 .. Len(d)), p # {}, c[p \ {Max(p)}] \in Nat
        PROVE  c[p] = DigitTable[c[p \ {Max(p)}]][d[Max(p)]]
    <3>1. c[p] = RadixStep(c[p \ {Max(p)}], d[Max(p)])
      BY <1>0, <1>5, <2>2
    <3> QED
      BY <1>3, <2>2, <3>1, DigitTableTyped
  <2> QED
    BY <2>1, <2>2 DEF Follows
<1>7. c[1 .. Len(d)] = Fold(DigitTable, RadixStart, d)
  <2> DEFINE A == Nat
             X == HexDigits
  <2>1. d \in Seq(X) /\ IsTable(DigitTable, A, X) /\ RadixStart \in A
        /\ Follows(c, DigitTable, A, RadixStart, d)
    BY <1>0, <1>1, <1>6
  <2> HIDE DEF A, X
  <2> QED
    BY <2>1, FollowsFold
<1>8. RadixOf(d) = c[DOMAIN d]
  BY DEF RadixOf, FoldLeft, MapThenFoldSet, c, RadixStart
<1> QED
  BY <1>0, <1>1, <1>7, <1>8, FoldTyped

(* One digit more multiplies the bound by sixteen.                           *)
LEMMA NextDigit ==
    ASSUME NEW a \in Nat, NEW b \in Nat, NEW M \in Nat, a < M, NEW x \in 0 .. 15, b = 16 * a + x
    PROVE  b < 16 * M /\ 16 * M \in Nat
BY SMT

(* Four digits make a number of sixteen bits.                                *)
LEMMA RadixBound ==
    ASSUME NEW d \in Seq(HexDigits), Len(d) <= 4
    PROVE  RadixOf(d) \in Nat /\ RadixOf(d) < 16 * (16 * (16 * 16))
<1>1. PICK v : IsRun(v, DigitTable, RadixStart, d, Nat)
  BY DigitTableTyped, FoldRuns
<1>2. /\ v \in [0 .. Len(d) -> Nat] /\ v[0] = 0 /\ RadixOf(d) = v[Len(d)]
      /\ \A k \in 1 .. Len(d) : v[k] = DigitTable[v[k - 1]][d[k]]
  BY <1>1, RadixIsFold DEF IsRun, RadixStart
<1> DEFINE n == Len(d)
<1>3. ASSUME NEW k \in 1 .. n, NEW M \in Nat, v[k - 1] < M
      PROVE  v[k] < 16 * M /\ v[k] \in Nat
  <2>1. k - 1 \in 0 .. Len(d) /\ d[k] \in HexDigits /\ k \in 0 .. Len(d)
    OBVIOUS
  <2>2. v[k - 1] \in Nat /\ v[k] \in Nat /\ v[k] = RadixStep(v[k - 1], d[k])
    BY <1>2, <2>1, DigitTableTyped
  <2>3. v[k] = 16 * v[k - 1] + HexVal(d[k]) /\ HexVal(d[k]) \in 0 .. 15
    BY <2>1, <2>2, HexValTyped DEF RadixStep
  <2> QED
    BY <1>3, <2>2, <2>3, NextDigit
<1>4. n \in Nat /\ n <= 4 /\ v[0] = 0 /\ RadixOf(d) = v[n]
  BY <1>2, LenProperties
<1> HIDE DEF n
<1>5. ASSUME n >= 1
      PROVE  v[1] < 16 /\ v[1] \in Nat
  <2>1. 1 \in 1 .. n /\ 1 - 1 = 0 /\ 1 \in Nat /\ 0 < 1 /\ 16 * 1 = 16
    BY <1>4, <1>5
  <2>2. v[1] < 16 * 1 /\ v[1] \in Nat
    BY <1>4, <1>3, <2>1
  <2> QED
    BY <2>1, <2>2
<1>6. ASSUME n >= 2
      PROVE  v[2] < 16 * 16 /\ v[2] \in Nat
  <2>1. 2 \in 1 .. n /\ 2 - 1 = 1 /\ 16 \in Nat
    BY <1>4, <1>6
  <2>2. v[2 - 1] < 16
    BY <1>4, <1>5, <1>6, <2>1
  <2> QED
    BY <1>3, <2>1, <2>2
<1>7. ASSUME n >= 3
      PROVE  v[3] < 16 * (16 * 16) /\ v[3] \in Nat
  <2>1. 3 \in 1 .. n /\ 3 - 1 = 2 /\ 16 * 16 \in Nat
    BY <1>4, <1>7
  <2>2. v[3 - 1] < 16 * 16
    BY <1>4, <1>6, <1>7, <2>1
  <2> QED
    BY <1>3, <2>1, <2>2
<1>8. ASSUME n >= 4
      PROVE  v[4] < 16 * (16 * (16 * 16)) /\ v[4] \in Nat
  <2>1. 4 \in 1 .. n /\ 4 - 1 = 3 /\ 16 * (16 * 16) \in Nat
    BY <1>4, <1>8
  <2>2. v[4 - 1] < 16 * (16 * 16)
    BY <1>4, <1>7, <1>8, <2>1
  <2> QED
    BY <1>3, <2>1, <2>2
<1> QED
  <2>1. n = 0 \/ n = 1 \/ n = 2 \/ n = 3 \/ n = 4
    BY <1>4
  <2>2. ASSUME NEW x \in Nat, x = 0 \/ x < 16 \/ x < 16 * 16 \/ x < 16 * (16 * 16)
        PROVE  x < 16 * (16 * (16 * 16))
    BY <2>2
  <2>3. /\ n = 1 => v[1] < 16 /\ v[1] \in Nat
        /\ n = 2 => v[2] < 16 * 16 /\ v[2] \in Nat
        /\ n = 3 => v[3] < 16 * (16 * 16) /\ v[3] \in Nat
        /\ n = 4 => v[4] < 16 * (16 * (16 * 16)) /\ v[4] \in Nat
    BY <1>5, <1>6, <1>7, <1>8
  <2>4. CASE n = 0
    BY <1>4, <2>2, <2>4
  <2>5. CASE n = 1
    BY <1>4, <2>2, <2>3, <2>5
  <2>6. CASE n = 2
    BY <1>4, <2>2, <2>3, <2>6
  <2>7. CASE n = 3
    BY <1>4, <2>2, <2>3, <2>7
  <2>8. CASE n = 4
    BY <1>4, <2>3, <2>8
  <2> QED
    BY <2>1, <2>4, <2>5, <2>6, <2>7, <2>8

(* A text is a sequence of characters.                                       *)
Half == HighSurrogate \cup LowSurrogate
Char == {c \in CodePoint : c \notin Half}
Texts == Seq(Char)

(* A String is a sequence of characters.                                     *)
LEMMA TextsTyped ==
    ASSUME NEW s
    PROVE  IsText(s) <=> s \in Texts
<1>1. ASSUME s \in Seq(CodePoint), \A i \in DOMAIN s : s[i] \notin Half
      PROVE  s \in Seq(Char)
  <2>1. Len(s) \in Nat /\ s \in [1 .. Len(s) -> CodePoint]
    BY <1>1, LenProperties
  <2>2. s \in [1 .. Len(s) -> Char]
    BY <1>1, <2>1 DEF Char
  <2> QED
    BY <2>1, <2>2, FunctionIsSeq
<1>2. ASSUME s \in Seq(Char)
      PROVE  s \in Seq(CodePoint) /\ \A i \in DOMAIN s : s[i] \notin Half
  <2>1. Len(s) \in Nat /\ s \in [1 .. Len(s) -> Char] /\ DOMAIN s = 1 .. Len(s)
    BY <1>2, LenProperties
  <2>2. s \in [1 .. Len(s) -> CodePoint] /\ \A i \in DOMAIN s : s[i] \notin Half
    BY <2>1 DEF Char
  <2> QED
    BY <2>1, <2>2, FunctionIsSeq
<1>3. IsText(s) <=> s \in Seq(CodePoint) /\ \A i \in DOMAIN s : s[i] \notin Half
  BY Zenon DEF IsText, Half
<1> QED
  BY <1>1, <1>2, <1>3, Zenon DEF Texts

-----------------------------------------------------------------------------
(* A text with escapes reads as a text.                                      *)

(* Every byte is a character, and so is what four digits make unless it is   *)
(* half of a pair.                                                           *)
LEMMA SmallChars ==
    /\ \A c \in 0 .. 255 : c \in Char
    /\ \A c \in Nat : c < 16 * (16 * (16 * 16)) /\ c \notin Half => c \in Char
    /\ Char \subseteq Nat
<1>0. MaxCodePoint \in Nat /\ 16 * (16 * (16 * 16)) <= MaxCodePoint
  BY SMT DEF MaxCodePoint
<1>1. ASSUME NEW c \in 0 .. 255
      PROVE  c \in Char
  <2>1. c \in Nat /\ c < 256
    BY SMT
  <2>2. c \notin HighSurrogate /\ c \notin LowSurrogate
    BY <2>1, SMT DEF HighSurrogate, LowSurrogate
  <2>3. c \in CodePoint
    BY <1>0, <2>1 DEF CodePoint
  <2> QED
    BY <2>2, <2>3 DEF Char, Half
<1>2. ASSUME NEW c \in Nat, c < 16 * (16 * (16 * 16)), c \notin Half
      PROVE  c \in Char
  BY <1>0, <1>2 DEF CodePoint, Char
<1>3. Char \subseteq Nat
  BY <1>0 DEF Char, CodePoint
<1> QED
  BY <1>1, <1>2, <1>3

(* The character that digits stand for.                                      *)
LEMMA NumericTyped ==
    ASSUME NEW text \in Texts, NEW i \in 1 .. Len(text), NEW n \in {2, 4},
           Numeric(text, i, n) # {}
    PROVE  /\ i + 1 + n <= Len(text)
           /\ \E c \in Char : Numeric(text, i, n) = {c}
<1>1. i + 1 + n <= Len(text)
  BY DEF Numeric
<1> DEFINE s == SubSeq(text, i + 2, i + 1 + n)
           d == IF s[1] = 43 THEN Tail(s) ELSE s
<1>2. Numeric(text, i, n) = Radix16(s) \ Half
  BY <1>1 DEF Numeric, Half
<1>3. s \in Seq(Char) /\ Len(s) = n
  BY <1>1 DEF Texts
<1>4. Radix16(s) = IF \A k \in DOMAIN d : IsHexDigit(d[k]) THEN {RadixOf(d)} ELSE {}
  BY DEF Radix16, RadixOf, RadixStep
<1> HIDE DEF s
<1>5. d \in Seq(Char) /\ Len(d) <= 4
  <2>1. Tail(s) \in Seq(Char) /\ Len(Tail(s)) <= 4
    BY <1>3
  <2> QED
    BY <1>3, <2>1
<1> HIDE DEF d
<1>6. \A k \in DOMAIN d : IsHexDigit(d[k])
  BY <1>2, <1>4
<1>7. d \in Seq(HexDigits)
  <2>1. DOMAIN d = 1 .. Len(d) /\ Len(d) \in Nat
    BY <1>5, LenProperties
  <2>2. d \in [1 .. Len(d) -> Char]
    BY <1>5, LenProperties
  <2>3. d \in [1 .. Len(d) -> HexDigits]
    BY <1>6, <2>1, <2>2 DEF IsHexDigit, HexDigits
  <2> QED
    BY <2>1, <2>3, FunctionIsSeq
<1>8. RadixOf(d) \in Nat /\ RadixOf(d) < 16 * (16 * (16 * 16))
  BY <1>5, <1>7, RadixBound
<1>9. Radix16(s) = {RadixOf(d)}
  BY <1>4, <1>6
<1>10. RadixOf(d) \notin Half
  BY <1>2, <1>9
<1> QED
  BY <1>1, <1>2, <1>8, <1>9, <1>10, SmallChars

EscapeDigits(c) == CASE c = 120 -> 2 [] c = 117 -> 4 [] OTHER -> 0
Starts(text, i) == text[i] = Backslash /\ i < Len(text)
Named(text, i) == Starts(text, i) /\ text[i + 1] \in DOMAIN Escaped
Numbered(text, i) == /\ Starts(text, i)
                     /\ EscapeDigits(text[i + 1]) > 0
                     /\ Numeric(text, i, EscapeDigits(text[i + 1])) # {}
(* What the escape, or the character, at a place becomes, and where it ends. *)
Piece(text, i) ==
    IF Named(text, i) THEN <<Escaped[text[i + 1]]>>
    ELSE IF Numbered(text, i) THEN SetToSeq(Numeric(text, i, EscapeDigits(text[i + 1])))
    ELSE <<text[i]>>
After(text, i) ==
    IF Named(text, i) THEN i + 2
    ELSE IF Numbered(text, i) THEN i + 2 + EscapeDigits(text[i + 1])
    ELSE i + 1

(* What an escape becomes is a text, and the reading goes on behind it.      *)
LEMMA PieceTyped ==
    ASSUME NEW text \in Texts, NEW i \in 1 .. Len(text)
    PROVE  /\ Piece(text, i) \in Texts
           /\ After(text, i) \in 1 .. Len(text) + 1
           /\ After(text, i) > i
<1>1. text[i] \in Char /\ Len(text) \in Nat
  BY DEF Texts
<1>2. ASSUME NEW c \in Char
      PROVE  <<c>> \in Texts
  BY DEF Texts
<1>3. CASE Named(text, i)
  <2>1. Escaped[text[i + 1]] \in {13, 10, 9, 0, 92}
    BY <1>3, SMT DEF Named, Escaped, Backslash
  <2>0. \A x \in {13, 10, 9, 0, 92} : x \in 0 .. 255
    BY SMT
  <2>2. Escaped[text[i + 1]] \in Char
    BY <2>0, <2>1, SmallChars
  <2>3. i + 2 \in 1 .. Len(text) + 1 /\ i + 2 > i
    BY <1>1, <1>3 DEF Named, Starts
  <2> QED
    BY <1>2, <1>3, <2>2, <2>3 DEF Piece, After
<1>4. CASE ~Named(text, i) /\ Numbered(text, i)
  <2> DEFINE n == EscapeDigits(text[i + 1])
  <2>1. n \in {2, 4}
    BY <1>4 DEF Numbered, EscapeDigits
  <2>2. Numeric(text, i, n) # {}
    BY <1>4 DEF Numbered
  <2>3. /\ Piece(text, i) = SetToSeq(Numeric(text, i, n))
        /\ After(text, i) = i + 2 + n
    BY <1>4 DEF Piece, After
  <2> HIDE DEF n
  <2>4. PICK c \in Char : Numeric(text, i, n) = {c}
    BY <2>1, <2>2, NumericTyped
  <2>5. i + 1 + n <= Len(text)
    BY <2>1, <2>2, NumericTyped
  <2>6. Piece(text, i) = <<c>>
    BY <2>3, <2>4, OneToSeq
  <2>7. i + 2 + n \in 1 .. Len(text) + 1 /\ i + 2 + n > i
    BY <1>1, <2>1, <2>5
  <2> QED
    BY <1>2, <2>3, <2>6, <2>7
<1>5. CASE ~Named(text, i) /\ ~Numbered(text, i)
  <2>1. i + 1 \in 1 .. Len(text) + 1 /\ i + 1 > i
    BY <1>1
  <2> QED
    BY <1>1, <1>2, <1>5, <2>1 DEF Piece, After
<1> QED
  BY <1>3, <1>4, <1>5

(* Unescape makes a text of a text.                                          *)
LEMMA UnescapeTyped ==
    ASSUME NEW text \in Texts
    PROVE  Unescape(text) \in Texts
<1> DEFINE n == Len(text)
           nx == [i \in 1 .. n |-> After(text, i)]
           H == [i \in 1 .. n |-> [r \in Texts |-> Piece(text, i) \o r]]
           Rest(c, i) ==
               IF i > Len(text) THEN <<>>
               ELSE IF Starts(text, i) /\ text[i + 1] \in DOMAIN Escaped
                 THEN <<Escaped[text[i + 1]]>> \o c[i + 2]
               ELSE IF /\ Starts(text, i)
                       /\ EscapeDigits(text[i + 1]) > 0
                       /\ Numeric(text, i, EscapeDigits(text[i + 1])) # {}
                 THEN SetToSeq(Numeric(text, i, EscapeDigits(text[i + 1])))
                        \o c[i + 2 + EscapeDigits(text[i + 1])]
               ELSE <<text[i]>> \o c[i + 1]
           Steps(c) == c = [i \in 1 .. Len(text) + 1 |-> Rest(c, i)]
           c == CHOOSE c : Steps(c)
<1>1. n \in Nat /\ <<>> \in Texts
  BY DEF Texts
<1>2. Advances(nx, n)
  BY PieceTyped DEF Advances
<1>3. Makes(H, n, Texts)
  <2>1. ASSUME NEW i \in 1 .. n, NEW r \in Texts
        PROVE  Piece(text, i) \o r \in Texts
    BY PieceTyped DEF Texts
  <2> QED
    BY <2>1 DEF Makes
<1>4. PICK f \in [1 .. n + 1 -> Texts] : IsReading(f, n, <<>>, nx, H)
  <2> HIDE DEF n, nx, H
  <2> QED
    BY <1>1, <1>2, <1>3, ReadingOn
<1>5. \A g : /\ Rest(g, n + 1) = <<>>
             /\ \A i \in 1 .. n : Rest(g, i) = Piece(text, i) \o g[After(text, i)]
  <2>1. ASSUME NEW g
        PROVE  Rest(g, n + 1) = <<>>
    <3>1. n + 1 > Len(text)
      BY <1>1
    <3> QED
      BY <3>1
  <2>2. ASSUME NEW g, NEW i \in 1 .. n
        PROVE  Rest(g, i) = Piece(text, i) \o g[After(text, i)]
    <3>1. ~(i > Len(text))
      BY <1>1
    <3> QED
      BY <3>1, Zenon DEF Piece, After, Named, Numbered
  <2> QED
    BY <2>1, <2>2
<1> HIDE DEF Rest
<1>6. Steps(f)
  <2>1. \A i \in 1 .. n : f[i] = Piece(text, i) \o f[After(text, i)]
    <3>1. ASSUME NEW i \in 1 .. n
          PROVE  f[i] = Piece(text, i) \o f[After(text, i)]
      <4>1. f[After(text, i)] \in Texts
        BY <1>4, <3>1, PieceTyped
      <4>2. f[i] = H[i][f[nx[i]]]
        BY <1>4, <3>1 DEF IsReading
      <4> QED
        BY <3>1, <4>1, <4>2
    <3> QED
      BY <3>1
  <2>2. \A i \in 1 .. n + 1 : i = n + 1 \/ i \in 1 .. n
    BY <1>1
  <2>3. f[n + 1] = <<>>
    BY <1>4 DEF IsReading
  <2>4. \A i \in 1 .. n + 1 : f[i] = Rest(f, i)
    BY <1>5, <2>1, <2>2, <2>3
  <2> QED
    BY <1>4, <2>4
<1>7. Steps(c)
  BY <1>6, Zenon
<1>8. Unescape(text) = c[1]
  BY Zenon DEF Unescape, Rest, Starts, EscapeDigits
<1> HIDE DEF c
<1>9. ReadsLike(c, n, <<>>, nx, H, Texts)
  <2>1. n + 1 \in 1 .. n + 1 /\ \A i \in 1 .. n : i \in 1 .. n + 1
    BY <1>1
  <2>2. c[n + 1] = <<>>
    BY <1>5, <1>7, <2>1
  <2>3. ASSUME NEW i \in 1 .. n, c[nx[i]] \in Texts
        PROVE  c[i] = H[i][c[nx[i]]]
    <3>1. c[i] = Piece(text, i) \o c[After(text, i)]
      BY <1>5, <1>7, <2>1
    <3> QED
      BY <2>3, <3>1
  <2> QED
    BY <2>2, <2>3 DEF ReadsLike
<1>10. \A i \in 1 .. n + 1 : c[i] \in Texts
  <2> HIDE DEF n, nx, H
  <2> QED
    BY <1>1, <1>2, <1>3, <1>9, OneReading
<1> QED
  BY <1>1, <1>8, <1>10

-----------------------------------------------------------------------------
(* Encodings.                                                                *)

Unit == {u \in Nat : u < 256 * 256}

(* The numbers of characters.                                                *)
LEMMA CharBound ==
    ASSUME NEW c \in Char
    PROVE  c \in Nat /\ c <= 1114111 /\ c \notin Half
<1>1. MaxCodePoint \in Nat /\ MaxCodePoint <= 1114111
  BY SMT DEF MaxCodePoint
<1>2. c \in CodePoint /\ c \notin Half
  BY DEF Char
<1>3. c \in Nat /\ c <= MaxCodePoint
  BY <1>1, <1>2 DEF CodePoint
<1> QED
  BY <1>1, <1>2, <1>3, SMT

(* A sequence element by element.                                            *)
Via(M, s) == [i \in DOMAIN s |-> M[s[i]]]

IsMap(M, X, S) == M \in [X -> S]

(* Reading each element by a map keeps the length.                           *)
LEMMA ViaTyped ==
    ASSUME NEW S, NEW X, NEW M, IsMap(M, X, S), NEW s \in Seq(X)
    PROVE  Via(M, s) \in Seq(S) /\ Len(Via(M, s)) = Len(s)
<1>1. Len(s) \in Nat /\ DOMAIN s = 1 .. Len(s) /\ s \in [1 .. Len(s) -> X]
  BY LenProperties
<1>2. Via(M, s) \in [1 .. Len(s) -> S]
  BY <1>1 DEF Via, IsMap
<1> QED
  BY <1>1, <1>2, FunctionIsSeq

(* So does reading each one as a sequence and joining them, but for the      *)
(* length.                                                                   *)
LEMMA FlattenVia ==
    ASSUME NEW S, NEW X, NEW M, IsMap(M, X, Seq(S)), NEW s \in Seq(X)
    PROVE  FlattenSeq(Via(M, s)) \in Seq(S)
<1>1. Via(M, s) \in Seq(Seq(S))
  BY ViaTyped
<1> QED
  BY <1>1, FlattenTyped

(* A character is one unit of UTF-16 or two.                                 *)
LEMMA Utf16UnitsTyped ==
    ASSUME NEW c \in Char
    PROVE  Utf16Units(c) \in Seq(Unit)
<1>1. c \in Nat /\ c <= 1114111
  BY CharBound
<1>2. CASE c < 65536
  <2>1. c \in Unit
    BY <1>1, <1>2, SMT DEF Unit
  <2>2. Utf16Units(c) = <<c>>
    BY <1>2, SMT DEF Utf16Units
  <2> QED
    BY <2>1, <2>2
<1>3. CASE ~(c < 65536)
  <2> DEFINE a == 55296 + (c - 65536) \div 1024
             b == 56320 + ((c - 65536) % 1024)
  <2>1. Utf16Units(c) = <<a, b>>
    BY <1>3, SMT DEF Utf16Units
  <2>2. c - 65536 \in Nat /\ c - 65536 < 1024 * 1024
    BY <1>1, <1>3, SMT
  <2>3. \A x \in Nat : x < 1024 * 1024 =>
          /\ x \div 1024 \in Nat /\ x \div 1024 < 1024
          /\ x % 1024 \in Nat /\ x % 1024 < 1024
    BY SMT
  <2> DEFINE q == (c - 65536) \div 1024
             r == (c - 65536) % 1024
  <2>4. q \in Nat /\ q < 1024 /\ r \in Nat /\ r < 1024
    <3> DEFINE x == c - 65536
    <3>1. x \in Nat /\ x < 1024 * 1024
      BY <2>2
    <3> HIDE DEF x
    <3>2. x \div 1024 \in Nat /\ x \div 1024 < 1024
          /\ x % 1024 \in Nat /\ x % 1024 < 1024
      BY <3>1, <2>3, SMT
    <3> QED
      BY <3>2, SMT DEF x
  <2> HIDE DEF q, r
  <2>5. a = 55296 + q /\ b = 56320 + r
    BY SMT DEF q, r
  <2>6. a \in Unit /\ b \in Unit
    <3> HIDE DEF a, b
    <3> QED
      BY <2>4, <2>5, SMT DEF Unit
  <2> HIDE DEF a, b
  <2> QED
    BY <2>1, <2>6
<1> QED
  BY <1>2, <1>3

(* A unit is two bytes.                                                      *)
LEMMA UnitBytesTyped ==
    ASSUME NEW u \in Unit, NEW big \in BOOLEAN
    PROVE  UnitBytes(u, big) \in Seq(0 .. 255)
<1>1. u \div 256 \in 0 .. 255 /\ u % 256 \in 0 .. 255
  BY SMT DEF Unit
<1> DEFINE B == 0 .. 255
           x == u \div 256
           y == u % 256
<1>2. UnitBytes(u, big) = IF big THEN <<x, y>> ELSE <<y, x>>
  BY Zenon DEF UnitBytes
<1>3. x \in B /\ y \in B
  BY <1>1
<1> HIDE DEF B, x, y
<1>4. UnitBytes(u, big) \in Seq(B)
  BY <1>2, <1>3
<1> QED
  BY <1>4 DEF B

Utf16Table == [c \in Char |-> Utf16Units(c)]
UnitTable(big) == [u \in Unit |-> UnitBytes(u, big)]
Utf8Table == [c \in Char |-> Utf8Bytes(c)]

(* The bytes of a text in UTF-16, unit by unit.                              *)
LEMMA Utf16Is ==
    ASSUME NEW text \in Texts, NEW big \in BOOLEAN
    PROVE  /\ FlattenSeq(Via(Utf16Table, text)) \in Seq(Unit)
           /\ EncodeUtf16(text, big)
                = FlattenSeq(Via(UnitTable(big), FlattenSeq(Via(Utf16Table, text))))
           /\ EncodeUtf16(text, big) \in Seq(0 .. 255)
<1> DEFINE us == FlattenSeq(Via(Utf16Table, text))
           B == 0 .. 255
<1>1. IsMap(Utf16Table, Char, Seq(Unit)) /\ text \in Seq(Char)
  BY Utf16UnitsTyped DEF Texts, Utf16Table, IsMap
<1>2. IsMap(UnitTable(big), Unit, Seq(B))
  BY UnitBytesTyped DEF UnitTable, IsMap
<1> HIDE DEF B
<1>3. us \in Seq(Unit)
  BY <1>1, FlattenVia
<1>4. FlatMap(Utf16Units, text) = us
  <2>1. [i \in DOMAIN text |-> Utf16Units(text[i])] = Via(Utf16Table, text)
    BY <1>1 DEF Via, Utf16Table
  <2> QED
    BY <2>1, Zenon DEF FlatMap
<1> HIDE DEF us
<1>5. EncodeUtf16(text, big) = FlattenSeq(Via(UnitTable(big), us))
  <2>1. [i \in DOMAIN us |-> UnitBytes(us[i], big)] = Via(UnitTable(big), us)
    BY <1>3 DEF Via, UnitTable
  <2>2. EncodeUtf16(text, big) = FlattenSeq([i \in DOMAIN us |-> UnitBytes(us[i], big)])
    BY <1>4, Zenon DEF EncodeUtf16, FlatMap
  <2> QED
    BY <2>1, <2>2, Zenon
<1>6. FlattenSeq(Via(UnitTable(big), us)) \in Seq(B)
  BY <1>2, <1>3, FlattenVia
<1> QED
  BY <1>3, <1>5, <1>6 DEF us, B

(* A character in UTF-8 is bytes.                                            *)
LEMMA Utf8BytesTyped ==
    ASSUME NEW c \in Char
    PROVE  Utf8Bytes(c) \in Seq(0 .. 255)
<1> DEFINE B == 0 .. 255
           tail(n) == 128 + ((c \div (64 ^ n)) % 64)
           x2 == 192 + c \div 64
           x3 == 224 + c \div 4096
           x4 == 240 + c \div 262144
           c1 == c < 128
           c2 == 128 <= c /\ c < 2048
           c3 == 2048 <= c /\ c < 65536
           s1 == <<c>>
           s2 == <<x2, tail(0)>>
           s3 == <<x3, tail(1), tail(0)>>
           s4 == <<x4, tail(2), tail(1), tail(0)>>
<1>1. c \in Nat /\ c <= 1114111
  BY CharBound
<1>2. tail(0) \in B /\ tail(1) \in B /\ tail(2) \in B
  <2>1. 64 ^ 0 = 1 /\ 64 ^ 1 = 64 /\ 64 ^ 2 = 4096
    BY SMT
  <2>2. \A x \in Nat, d \in Nat \ {0} : 128 + ((x \div d) % 64) \in 0 .. 255
    <3>1. \A y \in Nat : 128 + (y % 64) \in 0 .. 255
      BY SMT
    <3>2. \A x \in Nat, d \in Nat \ {0} : x \div d \in Nat
      BY SMT
    <3> QED
      BY <3>1, <3>2
  <2>3. 64 ^ 0 \in Nat \ {0} /\ 64 ^ 1 \in Nat \ {0} /\ 64 ^ 2 \in Nat \ {0}
    BY <2>1, SMT
  <2> QED
    BY <1>1, <2>2, <2>3
<1> HIDE DEF tail
<1>3. Utf8Bytes(c) = CASE c1 -> s1 [] c2 -> s2 [] c3 -> s3 [] OTHER -> s4
  BY SMT DEF Utf8Bytes, tail
<1>4. c1 => c \in B
  BY <1>1, SMT
<1>5. c2 => x2 \in B
  BY <1>1, SMT
<1>6. c3 => x3 \in B
  BY <1>1, SMT
<1>7. x4 \in B
  BY <1>1, SMT
<1>8. ~(c1 /\ c2) /\ ~(c1 /\ c3) /\ ~(c2 /\ c3)
  BY <1>1, SMT
<1> HIDE DEF B, x2, x3, x4, c1, c2, c3
<1>9. Utf8Bytes(c) \in Seq(B)
  <2>1. CASE c1
    BY <1>3, <1>4, <1>8, <2>1
  <2>2. CASE c2
    BY <1>2, <1>3, <1>5, <1>8, <2>2
  <2>3. CASE c3
    BY <1>2, <1>3, <1>6, <1>8, <2>3
  <2>4. CASE ~c1 /\ ~c2 /\ ~c3
    BY <1>2, <1>3, <1>7, <2>4
  <2> QED
    BY <2>1, <2>2, <2>3, <2>4
<1> QED
  BY <1>9 DEF B

(* The bytes of a text in UTF-8, character by character.                     *)
LEMMA Utf8Is ==
    ASSUME NEW text \in Texts
    PROVE  /\ FlatMap(Utf8Bytes, text) = FlattenSeq(Via(Utf8Table, text))
           /\ FlatMap(Utf8Bytes, text) \in Seq(0 .. 255)
<1> DEFINE B == 0 .. 255
<1>1. IsMap(Utf8Table, Char, Seq(B)) /\ text \in Seq(Char)
  BY Utf8BytesTyped DEF Texts, Utf8Table, IsMap
<1> HIDE DEF B
<1>2. FlattenSeq(Via(Utf8Table, text)) \in Seq(B)
  BY <1>1, FlattenVia
<1>3. [i \in DOMAIN text |-> Utf8Bytes(text[i])] = Via(Utf8Table, text)
  BY <1>1 DEF Via, Utf8Table
<1>4. FlatMap(Utf8Bytes, text) = FlattenSeq(Via(Utf8Table, text))
  BY <1>3, Zenon DEF FlatMap
<1> QED
  BY <1>2, <1>4 DEF B

(* ASCII and Latin-1, character by character.                                *)
Narrow(text) == [i \in DOMAIN text |-> IF text[i] < 256 THEN text[i] ELSE Question]

(* Every character in ASCII or Latin-1 is a byte.                            *)
LEMMA NarrowTyped ==
    ASSUME NEW text \in Texts
    PROVE  Narrow(text) \in Seq(0 .. 255) /\ Len(Narrow(text)) = Len(text)
<1>1. Len(text) \in Nat /\ DOMAIN text = 1 .. Len(text) /\ \A i \in 1 .. Len(text) : text[i] \in Nat
  <2>1. text \in Seq(Char)
    BY DEF Texts
  <2>2. text \in [1 .. Len(text) -> Char] /\ Len(text) \in Nat /\ DOMAIN text = 1 .. Len(text)
    BY <2>1, LenProperties
  <2> QED
    BY <2>2, SmallChars
<1>2. ASSUME NEW i \in 1 .. Len(text)
      PROVE  (IF text[i] < 256 THEN text[i] ELSE Question) \in 0 .. 255
  <2>1. Question \in 0 .. 255
    BY SMT DEF Question
  <2>2. \A x \in Nat : x < 256 => x \in 0 .. 255
    BY SMT
  <2> QED
    BY <1>1, <2>1, <2>2
<1> DEFINE B == 0 .. 255
           v(i) == IF text[i] < 256 THEN text[i] ELSE Question
<1>3. \A i \in 1 .. Len(text) : v(i) \in B
  BY <1>2
<1> HIDE DEF B
<1>4. Narrow(text) \in [1 .. Len(text) -> B]
  <2>1. Narrow(text) = [i \in 1 .. Len(text) |-> v(i)]
    BY <1>1 DEF Narrow
  <2> HIDE DEF v
  <2> QED
    BY <1>3, <2>1
<1>5. Narrow(text) \in Seq(B) /\ Len(Narrow(text)) = Len(text)
  BY <1>1, <1>4, FunctionIsSeq
<1> QED
  BY <1>5 DEF B

(* encode, by encoding.                                                      *)
LEMMA EncodeIs ==
    ASSUME NEW text, NEW big \in BOOLEAN
    PROVE  /\ EncodeText(text, "utf-16le") = EncodeUtf16(text, FALSE)
           /\ EncodeText(text, "utf-16be") = EncodeUtf16(text, TRUE)
           /\ EncodeText(text, "ascii") = Narrow(text)
           /\ EncodeText(text, "latin-1") = Narrow(text)
           /\ EncodeText(text, "utf-8") = FlatMap(Utf8Bytes, text)
BY DEF EncodeText, Narrow

(* A text in any encoding is bytes.                                          *)
LEMMA EncodeTyped ==
    ASSUME NEW text \in Texts, NEW encoding \in Encodings
    PROVE  EncodeText(text, encoding) \in Seq(0 .. 255)
<1> DEFINE S == Seq(0 .. 255)
<1>1. /\ EncodeUtf16(text, FALSE) \in S /\ EncodeUtf16(text, TRUE) \in S
      /\ Narrow(text) \in S /\ FlatMap(Utf8Bytes, text) \in S
  BY Utf16Is, NarrowTyped, Utf8Is
<1> HIDE DEF S
<1>2. EncodeText(text, encoding) \in S
  BY <1>1, EncodeIs, Zenon DEF Encodings
<1> QED
  BY <1>2 DEF S

-----------------------------------------------------------------------------
(* Payloads.                                                                 *)

(* A text is a sequence of numbers.                                          *)
LEMMA TextIsNumbers ==
    ASSUME NEW text \in Texts
    PROVE  text \in Seq(Nat) /\ Len(text) \in Nat /\ DOMAIN text = 1 .. Len(text)
<1>1. text \in Seq(Char)
  BY DEF Texts
<1>2. text \in [1 .. Len(text) -> Char] /\ Len(text) \in Nat /\ DOMAIN text = 1 .. Len(text)
  BY <1>1, LenProperties
<1>3. text \in [1 .. Len(text) -> Nat]
  BY <1>2, SmallChars
<1> QED
  BY <1>2, <1>3, FunctionIsSeq

(* A text without the white space around it is a text.                       *)
LEMMA TrimTyped ==
    ASSUME NEW text \in Texts
    PROVE  Trim(text) \in Texts
<1> DEFINE ink == {i \in DOMAIN text : text[i] \notin Whitespace}
<1>1. text \in Seq(Char) /\ Len(text) \in Nat /\ DOMAIN text = 1 .. Len(text)
  BY TextIsNumbers DEF Texts
<1>2. ink \in SUBSET (1 .. Len(text)) /\ ink \in SUBSET Nat
  BY <1>1
<1>3. Trim(text) = IF ink = {} THEN <<>> ELSE SubSeq(text, Min(ink), Max(ink))
  BY DEF Trim
<1> HIDE DEF ink
<1>4. CASE ink = {}
  BY <1>3, <1>4 DEF Texts
<1>5. CASE ink # {}
  <2>1. Max(ink) \in ink /\ \A x \in ink : x <= Max(ink)
    BY <1>1, <1>2, <1>5, LastPlace
  <2>2. Min(ink) \in ink
    <3>1. \E m \in ink : \A k \in ink : m <= k
      BY <1>2, <1>5, LeastNumber
    <3> QED
      BY <3>1 DEF Min
  <2> DEFINE a == Min(ink)
             b == Max(ink)
  <2>3. a \in 1 .. Len(text) /\ b \in 1 .. Len(text)
    BY <1>2, <2>1, <2>2
  <2> HIDE DEF a, b
  <2>4. SubSeq(text, a, b) \in Seq(Char)
    BY <1>1, <2>3
  <2> QED
    BY <1>3, <1>5, <2>4 DEF Texts, a, b
<1> QED
  BY <1>4, <1>5

(* The content of a request is bytes, whatever its format.                   *)
LEMMA ContentTyped ==
    ASSUME NEW r, IsRequest(r), NEW p \in ContentBytes(r)
    PROVE  p \in Seq(0 .. 255)
<1> DEFINE S == Seq(0 .. 255)
<1>1. r.format \in {"text", "hex", "base64"} /\ r.content \in Texts /\ r.encoding \in Encodings
  BY TextsTyped DEF IsRequest, Formats
<1>2. CASE r.format = "text"
  <2>1. TextOf(r) \in Texts
    BY <1>1, UnescapeTyped DEF TextOf
  <2>2. EncodeText(TextOf(r), r.encoding) \in S
    BY <1>1, <2>1, EncodeTyped
  <2>3. p = EncodeText(TextOf(r), r.encoding)
    BY <1>2 DEF ContentBytes
  <2> HIDE DEF S
  <2>4. p \in S
    BY <2>2, <2>3
  <2> QED
    BY <2>4 DEF S
<1>3. CASE r.format = "hex"
  <2>1. p \in ParseHex(r.content)
    BY <1>3 DEF ContentBytes
  <2>2. r.content \in Seq(Nat)
    BY <1>1, TextIsNumbers
  <2> QED
    BY <2>1, <2>2, HexReadsBytes
<1>4. CASE r.format = "base64"
  <2>1. p \in FromBase64(Trim(r.content))
    BY <1>4 DEF ContentBytes
  <2> DEFINE s == Trim(r.content)
  <2>2. Len(s) \in Nat /\ DOMAIN s = 1 .. Len(s)
    BY <1>1, TrimTyped, TextIsNumbers
  <2> HIDE DEF s
  <2> QED
    BY <2>1, <2>2, Base64ReadsBytes DEF s
<1> QED
  BY <1>1, <1>2, <1>3, <1>4

(* The line ending of a request is bytes, and there is one at most.          *)
LEMMA EndingTyped ==
    ASSUME NEW r, IsRequest(r), NEW e \in Ending(r)
    PROVE  e \in Seq(0 .. 255) /\ Ending(r) = {e}
<1> DEFINE B == 0 .. 255
<1>1. r.lineEnding \in {"none", "lf", "crLf", "cr", "nul", "custom"} /\ r.customEndingHex \in Texts
  BY TextsTyped DEF IsRequest, LineEndings
<1>2. 10 \in B /\ 13 \in B /\ 0 \in B
  BY SMT
<1>3. \A p \in ParseHex(r.customEndingHex) : p \in Seq(B) /\ ParseHex(r.customEndingHex) = {p}
  BY <1>1, TextIsNumbers, HexReadsBytes
<1>4. \/ Ending(r) = ParseHex(r.customEndingHex)
      \/ \E s \in {<<>>, <<10>>, <<13, 10>>, <<13>>, <<0>>} : Ending(r) = {s}
  <2>1. CASE r.lineEnding = "none"
    BY <2>1 DEF Ending
  <2>2. CASE r.lineEnding = "lf"
    BY <2>2 DEF Ending
  <2>3. CASE r.lineEnding = "crLf"
    BY <2>3 DEF Ending
  <2>4. CASE r.lineEnding = "cr"
    BY <2>4 DEF Ending
  <2>5. CASE r.lineEnding = "nul"
    BY <2>5 DEF Ending
  <2>6. CASE r.lineEnding = "custom"
    BY <2>6 DEF Ending
  <2> QED
    BY <1>1, <2>1, <2>2, <2>3, <2>4, <2>5, <2>6
<1> HIDE DEF B
<1>5. \A s \in {<<>>, <<10>>, <<13, 10>>, <<13>>, <<0>>} : s \in Seq(B)
  <2>1. \A a, b \in B : <<>> \in Seq(B) /\ <<a>> \in Seq(B) /\ <<a, b>> \in Seq(B)
    OBVIOUS
  <2>2. /\ <<>> \in Seq(B) /\ <<10>> \in Seq(B) /\ <<13, 10>> \in Seq(B)
        /\ <<13>> \in Seq(B) /\ <<0>> \in Seq(B)
    BY <1>2, <2>1
  <2> QED
    BY <2>2, Zenon
<1>6. e \in Seq(B) /\ Ending(r) = {e}
  <2>1. CASE Ending(r) = ParseHex(r.customEndingHex)
    BY <1>3, <2>1
  <2>2. CASE \E s \in {<<>>, <<10>>, <<13, 10>>, <<13>>, <<0>>} : Ending(r) = {s}
    BY <1>5, <2>2
  <2> QED
    BY <1>4, <2>1, <2>2
<1> QED
  BY <1>6 DEF B

(* A payload is the content, the ending and the checksum over both.          *)
Assembled(r, p, content, ending) ==
    LET sum == Checksum(content \o ending, r.checksum, r.checksumBigEndian)
    IN  /\ content \in Seq(0 .. 255) /\ ending \in Seq(0 .. 255) /\ sum \in Seq(0 .. 255)
        /\ Len(sum) = SumWidth(r.checksum)
        /\ content \in ContentBytes(r) /\ ending \in Ending(r) /\ Ending(r) = {ending}
        /\ p.bytes = content \o ending \o sum
        /\ p.checksumOffset = IF r.checksum = "none" THEN {}
                              ELSE {Len(content) + Len(ending)}

(* Every payload is assembled like this.                                     *)
LEMMA PayloadTyped ==
    ASSUME NEW r, IsRequest(r), NEW p \in BuildPayload(r)
    PROVE  /\ p.bytes \in Seq(0 .. 255)
           /\ \E content, ending : Assembled(r, p, content, ending)
<1>1. PICK content \in ContentBytes(r), ending \in Ending(r) :
          p = LET sum == Checksum(Covered(content, ending), r.checksum, r.checksumBigEndian)
              IN  [bytes |-> content \o ending \o sum,
                   checksumOffset |-> IF r.checksum = "none" THEN {}
                                      ELSE {Len(content) + Len(ending)}]
  BY DEF BuildPayload
<1> DEFINE B == 0 .. 255
           sum == Checksum(content \o ending, r.checksum, r.checksumBigEndian)
<1>2. content \in Seq(B) /\ ending \in Seq(B) /\ Ending(r) = {ending}
  BY ContentTyped, EndingTyped
<1>3. sum \in Seq(B) /\ Len(sum) = SumWidth(r.checksum)
  <2>1. r.checksum \in Checksums /\ r.checksumBigEndian \in BOOLEAN
    BY DEF IsRequest
  <2>2. content \o ending \in Seq(B)
    <3> HIDE DEF B
    <3> QED
      BY <1>2
  <2> QED
    BY <2>1, <2>2, ChecksumTyped, ZenonT(30)
<1>4. /\ p.bytes = content \o ending \o sum
      /\ p.checksumOffset = IF r.checksum = "none" THEN {} ELSE {Len(content) + Len(ending)}
  BY <1>1 DEF Covered
<1> HIDE DEF B
<1>5. p.bytes \in Seq(B)
  <2> HIDE DEF sum
  <2>1. content \o ending \o sum \in Seq(B)
    BY <1>2, <1>3
  <2> QED
    BY <1>4, <2>1
<1>6. Assembled(r, p, content, ending)
  <2> HIDE DEF B
  <2> QED
    BY <1>2, <1>3, <1>4, Zenon DEF Assembled, B
<1> QED
  BY <1>5, <1>6 DEF B

(* The receiver's framer, with what is proved of it.                         *)
RP == INSTANCE Framer_proofs
          WITH ByteBase <- 256, UsizeBytes <- 8, Byte <- 0 .. 255,
               Configs <- {NewFramer(c) : c \in Sessions},
               MaxFed <- MaxSends * MaxPayload, MaxOut <- 0

IsSession(c) ==
    /\ IsText(c.name) /\ c.kind \in Kinds
    /\ IsText(c.host) /\ c.port \in Nat
    /\ c.framing.mode \in {"none", "delimiter", "fixed"}
    /\ IsText(c.framing.delimiterHex)
    /\ c.framing.fixedLen \in Nat
    /\ c.recvEncoding \in Encodings
    /\ c.sendEncoding \in Encodings
    /\ IsAutoReply(c.autoReply)
    /\ IsTimedSend(c.timedSend)

(* Every configuration is well typed.                                        *)
LEMMA SessionTyped ==
    ASSUME NEW c \in Sessions
    PROVE  IsSession(c)
BY ExchangeAssumption DEF IsSession

(* The delimiter of a framer is the one that is written, or a line feed.     *)
LEMMA DelimiterTyped ==
    ASSUME NEW c \in Sessions
    PROVE  /\ Delimiter(c.framing) \in Seq(0 .. 255)
           /\ IsHex(c.framing.delimiterHex) =>
                ParseHex(c.framing.delimiterHex) = {Delimiter(c.framing)}
<1> DEFINE B == 0 .. 255
           h == c.framing.delimiterHex
<1>1. h \in Seq(Nat)
  BY SessionTyped, TextsTyped, TextIsNumbers DEF IsSession
<1>2. 10 \in B
  BY SMT
<1>3. /\ \A p \in ParseHex(h) : p \in Seq(B) /\ ParseHex(h) = {p}
      /\ IsHex(h) <=> \E p : ParseHex(h) = {p}
  BY <1>1, HexReadsBytes
<1>4. Delimiter(c.framing) = IF IsHex(h) THEN SetToSeq(ParseHex(h))[1] ELSE <<10>>
  BY DEF Delimiter
<1> HIDE DEF B, h
<1>5. CASE IsHex(h)
  <2>1. PICK p : ParseHex(h) = {p}
    BY <1>3, <1>5
  <2>2. p \in Seq(B)
    BY <1>3, <2>1
  <2>3. SetToSeq(ParseHex(h))[1] = p
    BY <2>1, OneToSeq
  <2> QED
    BY <1>4, <1>5, <2>1, <2>2, <2>3 DEF h, B
<1>6. CASE ~IsHex(h)
  <2>1. <<10>> \in Seq(B)
    BY <1>2
  <2> QED
    BY <1>4, <1>6, <2>1 DEF h, B
<1> QED
  BY <1>5, <1>6

(* The framers of the configurations are framers the proofs about framing    *)
(* are for.                                                                  *)
LEMMA FramerFits == RP!FramerAssumption
<1> DEFINE B == 0 .. 255
           D == Seq(B)
           R == [mode : RP!Modes, delimiter : D,
                          fixedLen : Nat, lenOffset : Nat, lenSize : Nat,
                          bigEndian : BOOLEAN, includesHeader : BOOLEAN,
                          timeoutMs : Nat]
<1>1. 256 \in Nat \ {0, 1} /\ 8 \in {4, 8} /\ B \subseteq 0 .. 256 - 1 /\ 0 \in Nat
  BY SMT
<1>2. MaxSends * MaxPayload \in Nat
  BY ExchangeAssumption DEF MaxPayload
<1>3. ASSUME NEW c \in Sessions
      PROVE  NewFramer(c) \in R
  <2>1. c.framing.mode \in RP!Modes /\ c.framing.fixedLen \in Nat
    BY SessionTyped DEF IsSession, RP!Modes
  <2>2. Delimiter(c.framing) \in D
    BY DelimiterTyped
  <2> HIDE DEF D
  <2>3. 0 \in Nat /\ 1 \in Nat /\ TRUE \in BOOLEAN /\ FALSE \in BOOLEAN
    OBVIOUS
  <2> QED
    BY <2>1, <2>2, <2>3 DEF NewFramer
<1>4. 256 - 1 = 255
  OBVIOUS
<1>5. D = Seq(0 .. 256 - 1)
  BY <1>4
<1>6. {NewFramer(c) : c \in Sessions} \subseteq R
  BY <1>3
<1> QED
  BY <1>1, <1>2, <1>5, <1>6 DEF RP!FramerAssumption

-----------------------------------------------------------------------------
(* Answers.                                                                  *)
Answers == [bytes : Seq(0 .. 255), asText : BOOLEAN, disconnect : BOOLEAN]

(* The request a rule or a timed send makes of its text is a request.        *)
LEMMA PlainTyped ==
    ASSUME NEW format \in Formats, NEW content, IsText(content), NEW encoding \in Encodings
    PROVE  IsRequest(PlainRequest(format, content, encoding))
<1>1. IsText(<<>>)
  <2>1. <<>> \in Texts
    BY DEF Texts
  <2> QED
    BY <2>1, TextsTyped
<1>2. "none" \in LineEndings /\ "none" \in Checksums
  BY DEF LineEndings, Checksums
<1> QED
  BY <1>1, <1>2 DEF IsRequest, PlainRequest, Request

(* An answer that is rendered is bytes.                                      *)
LEMMA RenderTyped ==
    ASSUME NEW format \in Formats, NEW content, IsText(content), NEW encoding \in Encodings
    PROVE  Render(format, content, encoding) \in SUBSET Answers
<1> DEFINE S == Seq(0 .. 255)
           r == PlainRequest(format, content, encoding)
<1>1. \A p \in BuildPayload(r) : p.bytes \in S
  BY PlainTyped, PayloadTyped
<1>2. IsTextFormat(format) \in BOOLEAN
  BY DEF IsTextFormat
<1> HIDE DEF S, r
<1>3. Answers = [bytes : S, asText : BOOLEAN, disconnect : BOOLEAN]
  BY DEF Answers, S
<1>4. Render(format, content, encoding)
        = {[bytes |-> p.bytes, asText |-> IsTextFormat(format), disconnect |-> FALSE] :
              p \in BuildPayload(r)}
  BY DEF Render, r
<1>5. \A p \in BuildPayload(r) :
        [bytes |-> p.bytes, asText |-> IsTextFormat(format), disconnect |-> FALSE] \in Answers
  BY <1>1, <1>2, <1>3
<1> QED
  BY <1>4, <1>5

(* So is what a rule answers.                                                *)
LEMMA ActTyped ==
    ASSUME NEW r, IsReplyRule(r), NEW inbound \in Seq(0 .. 255), NEW encoding \in Encodings
    PROVE  Act(r, inbound, encoding) \in SUBSET Answers
<1>1. r.action \in {"reply", "echo", "disconnect"} /\ r.format \in Formats /\ IsText(r.reply)
  BY DEF IsReplyRule, ReplyActions
<1> DEFINE S == Seq(0 .. 255)
<1>2. inbound \in S /\ <<>> \in S
  OBVIOUS
<1> HIDE DEF S
<1>3. Answers = [bytes : S, asText : BOOLEAN, disconnect : BOOLEAN]
  BY DEF Answers, S
<1>4. CASE r.action = "echo"
  <2>1. Act(r, inbound, encoding) = {[bytes |-> inbound, asText |-> TRUE, disconnect |-> FALSE]}
    BY <1>4 DEF Act
  <2> QED
    BY <1>2, <1>3, <2>1
<1>5. CASE r.action = "disconnect"
  <2>1. Act(r, inbound, encoding) = {[bytes |-> <<>>, asText |-> TRUE, disconnect |-> TRUE]}
    BY <1>5 DEF Act
  <2> QED
    BY <1>2, <1>3, <2>1
<1>6. CASE r.action = "reply"
  <2>1. Act(r, inbound, encoding) = Render(r.format, r.reply, encoding)
    BY <1>6 DEF Act
  <2> QED
    BY <1>1, <2>1, RenderTyped
<1> QED
  BY <1>1, <1>4, <1>5, <1>6

(* The first rule that is hit is a rule.                                     *)
LEMMA FirstHit ==
    ASSUME NEW ar, IsAutoReply(ar), NEW text, NEW inbound, Hits(ar, text, inbound) # {}
    PROVE  /\ Min(Hits(ar, text, inbound)) \in Hits(ar, text, inbound)
           /\ Min(Hits(ar, text, inbound)) \in DOMAIN ar.rules
           /\ IsReplyRule(ar.rules[Min(Hits(ar, text, inbound))])
<1> DEFINE hits == Hits(ar, text, inbound)
<1>1. hits \subseteq DOMAIN ar.rules /\ hits \in SUBSET Nat
  BY DEF Hits, IsAutoReply
<1> HIDE DEF hits
<1>2. \E m \in hits : \A k \in hits : m <= k
  BY <1>1, LeastNumber DEF hits
<1>3. Min(hits) \in hits
  BY <1>2 DEF Min
<1> QED
  BY <1>1, <1>3 DEF hits, IsAutoReply

(* So is what all rules together answer.                                     *)
LEMMA EvaluateTyped ==
    ASSUME NEW ar, IsAutoReply(ar), NEW inbound \in Seq(0 .. 255), NEW recv,
           NEW encoding \in Encodings
    PROVE  EvaluateAutoReply(ar, inbound, recv, encoding) \in SUBSET Answers
<1> DEFINE text == DecodeText(inbound, recv).text
           hits == Hits(ar, text, inbound)
<1>1. hits # {} => Act(ar.rules[Min(hits)], inbound, encoding) \in SUBSET Answers
  BY FirstHit, ActTyped
<1>2. Render(ar.defaultFormat, ar.defaultReply, encoding) \in SUBSET Answers
  BY RenderTyped DEF IsAutoReply
<1>3. Evaluate(ar, hits, inbound, encoding) \in
        {Act(ar.rules[Min(hits)], inbound, encoding),
         Render(ar.defaultFormat, ar.defaultReply, encoding), {}}
      /\ (hits = {} => Evaluate(ar, hits, inbound, encoding) \in
        {Render(ar.defaultFormat, ar.defaultReply, encoding), {}})
  BY DEF Evaluate
<1>4. Evaluate(ar, hits, inbound, encoding) \in SUBSET Answers
  <2> HIDE DEF hits, text
  <2> QED
    BY <1>1, <1>2, <1>3
<1> QED
  BY <1>4 DEF EvaluateAutoReply

-----------------------------------------------------------------------------
(* What a receiver holds and what is under way, in every state.              *)
Messages == {m \in [request : Requests, payload : UNION {BuildPayload(r) : r \in Requests}] :
                m.payload \in BuildPayload(m.request) /\ m.payload.bytes # <<>>}

Payloads(s) == [i \in DOMAIN s |-> s[i].payload.bytes]

Answer(frame) == EvaluateAutoReply(session.autoReply, frame, session.recvEncoding,
                                   session.sendEncoding)

Accepted == session \in Sessions /\ Validate(session) /\ cfg = NewFramer(session)

(* Every byte that was sent has arrived or is on its way, in order.          *)
Stream == /\ sent \in Seq(Messages) /\ Len(sent) <= MaxSends
          /\ wire \in Seq(0 .. 255)
          /\ FlattenSeq(Payloads(sent)) = fed \o wire

(* What was answered is what the rules say of the frame in its place.        *)
Answered == /\ plans \in Seq(SUBSET Answers)
            /\ Len(plans) <= Len(frames)
            /\ \A i \in 1 .. Len(plans) : plans[i] = Answer(frames[i])

(* The end of a connection makes a frame of a rest that is no whole one.     *)
RestIsRest == closed /\ frames # <<>> =>
    \/ RP!ByRule(cfg, resynced, frames[Len(frames)])
    \/ /\ RP!Incomplete(cfg, resynced, frames[Len(frames)])
       /\ frames[Len(frames)] # <<>>

(* Before the first byte there is no frame.                                  *)
NothingFromNothing == fed = <<>> => ~draining /\ frames = <<>>

IInv == /\ Accepted
        /\ RP!TypeOK /\ RP!IInv
        /\ Stream
        /\ Answered
        /\ RestIsRest
        /\ NothingFromNothing

(* The payload of a message more is one payload more.                        *)
LEMMA PayloadsAppend ==
    ASSUME NEW s \in Seq(Messages), NEW m \in Messages
    PROVE  /\ Payloads(s) \in Seq(Seq(0 .. 255))
           /\ m.payload.bytes \in Seq(0 .. 255)
           /\ Append(s, m) \in Seq(Messages)
           /\ Payloads(Append(s, m)) = Append(Payloads(s), m.payload.bytes)
<1> DEFINE S == Seq(0 .. 255)
<1>1. ASSUME NEW x \in Messages
      PROVE  x.payload.bytes \in S
  <2>1. x.request \in Requests /\ x.payload \in BuildPayload(x.request)
    BY DEF Messages
  <2>2. IsRequest(x.request)
    BY <2>1, ExchangeAssumption
  <2> QED
    BY <2>1, <2>2, PayloadTyped
<1> HIDE DEF S
<1>2. Payloads(s) \in Seq(S) /\ DOMAIN Payloads(s) = 1 .. Len(s)
      /\ Len(Payloads(s)) = Len(s)
  <2>1. Len(s) \in Nat /\ DOMAIN s = 1 .. Len(s) /\ \A i \in 1 .. Len(s) : s[i] \in Messages
    BY LenProperties
  <2>2. Payloads(s) \in [1 .. Len(s) -> S]
    BY <1>1, <2>1 DEF Payloads
  <2> QED
    BY <2>1, <2>2, FunctionIsSeq
<1>3. Payloads(Append(s, m)) = Append(Payloads(s), m.payload.bytes)
  <2> DEFINE p == Payloads(s)
             e == m.payload.bytes
             t == Append(s, m)
             q == Payloads(t)
  <2>1. /\ Len(s) \in Nat /\ DOMAIN s = 1 .. Len(s) /\ t \in Seq(Messages)
        /\ DOMAIN t = 1 .. Len(s) + 1 /\ Len(t) = Len(s) + 1
        /\ \A i \in 1 .. Len(s) : t[i] = s[i]
        /\ t[Len(s) + 1] = m
    OBVIOUS
  <2>2. p \in Seq(S) /\ e \in S /\ Len(p) = Len(s)
    BY <1>1, <1>2
  <2> HIDE DEF t
  <2>3. q \in [1 .. Len(s) + 1 -> S]
    <3>1. \A i \in 1 .. Len(s) + 1 : t[i] \in Messages
      BY <2>1
    <3> QED
      BY <1>1, <2>1, <3>1 DEF Payloads
  <2>4. q \in Seq(S) /\ Len(q) = Len(s) + 1
    <3> HIDE DEF q
    <3>1. Len(s) + 1 \in Nat
      BY <2>1
    <3> QED
      BY <2>3, <3>1, FunctionIsSeq
  <2>5. /\ \A i \in 1 .. Len(s) : q[i] = p[i]
        /\ q[Len(s) + 1] = e
    BY <2>1 DEF Payloads
  <2> HIDE DEF p, q, e
  <2>6. /\ Append(p, e) \in Seq(S) /\ Len(Append(p, e)) = Len(s) + 1
        /\ \A i \in 1 .. Len(s) : Append(p, e)[i] = p[i]
        /\ Append(p, e)[Len(s) + 1] = e
    BY <2>2, AppendProperties
  <2>7. \A i \in 1 .. Len(s) + 1 : i \in 1 .. Len(s) \/ i = Len(s) + 1
    BY <2>1
  <2>8. q = Append(p, e)
    BY <2>4, <2>5, <2>6, <2>7, SeqEqual
  <2> QED
    BY <2>8 DEF p, q, e, t
<1> QED
  BY <1>1, <1>2, <1>3 DEF S

-----------------------------------------------------------------------------
(* The two views of the receiver's framer are one.                           *)
LEMMA SameEnds ==
    ASSUME NEW b, cfg.mode \in {"none", "delimiter", "fixed"}
    PROVE  /\ Rx!FrameEnd(b) = RP!FrameEnd(b)
           /\ ~Rx!IsCorrupt(b) /\ ~RP!IsCorrupt(b)
<1>1. ~Rx!IsCorrupt(b) /\ ~RP!IsCorrupt(b)
  BY DEF Rx!IsCorrupt, RP!IsCorrupt
<1>2. Rx!DelimiterEnd(b) = RP!DelimiterEnd(b)
  BY Zenon DEF Rx!DelimiterEnd, RP!DelimiterEnd, Rx!OccursAt, RP!OccursAt
<1>3. Rx!FixedEnd(b) = RP!FixedEnd(b)
  BY Zenon DEF Rx!FixedEnd, RP!FixedEnd, Rx!FixedLen, RP!FixedLen
<1>4. cfg.mode # "lengthPrefix"
  OBVIOUS
<1>5. CASE cfg.mode = "none"
  <2>1. Rx!FrameEnd(b) = {} /\ RP!FrameEnd(b) = {}
    BY <1>5, SMT DEF Rx!FrameEnd, RP!FrameEnd
  <2> QED
    BY <1>1, <2>1
<1>6. CASE cfg.mode = "delimiter"
  <2>1. Rx!FrameEnd(b) = Rx!DelimiterEnd(b) /\ RP!FrameEnd(b) = RP!DelimiterEnd(b)
    BY <1>6, SMT DEF Rx!FrameEnd, RP!FrameEnd
  <2> QED
    BY <1>1, <1>2, <2>1
<1>7. CASE cfg.mode = "fixed"
  <2>1. Rx!FrameEnd(b) = Rx!FixedEnd(b) /\ RP!FrameEnd(b) = RP!FixedEnd(b)
    BY <1>7, SMT DEF Rx!FrameEnd, RP!FrameEnd
  <2> QED
    BY <1>1, <1>3, <2>1
<1> QED
  BY <1>5, <1>6, <1>7

(* The framer of Exchange and the one the proofs are about take the same     *)
(* steps, for the modes a configuration can have.                            *)
LEMMA SameFramer ==
    /\ Rx!TypeOK <=> RP!TypeOK
    /\ Rx!Init <=> RP!Init
    /\ \A chunk : Rx!Feed(chunk) <=> RP!Feed(chunk)
    /\ cfg.mode \in {"none", "delimiter", "fixed"} =>
         (Rx!Drain <=> RP!Drain) /\ (Rx!Drained <=> RP!Drained)
    /\ Rx!Disconnect <=> RP!Disconnect
<1>1. Rx!TypeOK <=> RP!TypeOK
  BY Zenon DEF Rx!TypeOK, RP!TypeOK, Rx!Bytes, RP!Bytes, Rx!Timeout, RP!Timeout,
     Rx!CuttingModes, RP!CuttingModes
<1>2. Rx!Init <=> RP!Init
  BY Zenon DEF Rx!Init, RP!Init
<1>3. ASSUME NEW chunk
      PROVE  Rx!Feed(chunk) <=> RP!Feed(chunk)
  BY Zenon DEF Rx!Feed, RP!Feed, Rx!FeedWhole, RP!FeedWhole, Rx!FeedBuffered, RP!FeedBuffered,
     Rx!FeedFramed, RP!FeedFramed, Rx!Takes, RP!Takes, Rx!CuttingModes, RP!CuttingModes
<1>4. ASSUME cfg.mode \in {"none", "delimiter", "fixed"}
      PROVE  Rx!Drain <=> RP!Drain
  <2>1. Rx!FrameEnd(buf) = RP!FrameEnd(buf)
    BY <1>4, SameEnds
  <2> QED
    BY <2>1, Zenon DEF Rx!Drain, RP!Drain, Rx!timerVars, RP!timerVars
<1>5. ASSUME cfg.mode \in {"none", "delimiter", "fixed"}
      PROVE  Rx!Drained <=> RP!Drained
  <2>1. /\ Rx!FrameEnd(buf) = RP!FrameEnd(buf)
        /\ ~Rx!IsCorrupt(buf) /\ ~RP!IsCorrupt(buf)
    BY <1>5, SameEnds
  <2> QED
    BY <2>1, Zenon DEF Rx!Drained, RP!Drained, Rx!timerVars, RP!timerVars
<1>6. Rx!Disconnect <=> RP!Disconnect
  BY Zenon DEF Rx!Disconnect, RP!Disconnect, Rx!timerVars, RP!timerVars
<1> QED
  BY <1>1, <1>2, <1>3, <1>4, <1>5, <1>6

(* What arrives is a chunk of the framer.                                    *)
LEMMA ChunkFits ==
    ASSUME wire \in Seq(0 .. 255), NEW n \in 1 .. Len(wire), RP!Feed(SubSeq(wire, 1, n)),
           fed \in Seq(0 .. 255)
    PROVE  SubSeq(wire, 1, n) \in RP!Chunks
<1> DEFINE B == 0 .. 255
           chunk == SubSeq(wire, 1, n)
<1>1. wire \in Seq(B) /\ fed \in Seq(B)
  OBVIOUS
<1> HIDE DEF B
<1>2. chunk \in [1 .. n -> B] /\ Len(chunk) = n /\ n \in Nat /\ Len(fed) \in Nat
  <2>1. chunk \in Seq(B) /\ Len(chunk) = n /\ n \in Nat /\ Len(fed) \in Nat
    BY <1>1
  <2> HIDE DEF chunk
  <2> QED
    BY <2>1, LenProperties
<1>3. Len(fed) + Len(chunk) <= MaxSends * MaxPayload /\ MaxSends * MaxPayload \in Nat
  <2>1. Len(fed) + Len(chunk) <= MaxSends * MaxPayload
    BY DEF RP!Feed, RP!FeedWhole, RP!FeedBuffered, RP!FeedFramed, RP!Takes
  <2> QED
    BY <2>1, ExchangeAssumption DEF MaxPayload
<1> DEFINE M == MaxSends * MaxPayload
<1>4. n \in 1 .. M
  <2>1. n >= 1 /\ Len(fed) + n <= M /\ M \in Nat
    BY <1>2, <1>3
  <2> HIDE DEF M
  <2> QED
    BY <1>2, <2>1
<1> HIDE DEF M, chunk
<1>5. chunk \in UNION {[1 .. k -> B] : k \in 1 .. M}
  BY <1>2, <1>4, Zenon
<1> QED
  BY <1>5 DEF RP!Chunks, B, M, chunk

(* Every step is one of the framer or leaves it alone.                       *)
LEMMA FramerStep ==
    ASSUME wire \in Seq(0 .. 255), fed \in Seq(0 .. 255), [Next]_vars,
           cfg.mode \in {"none", "delimiter", "fixed"}
    PROVE  [RP!Next]_(RP!vars)
<1>1. ASSUME UNCHANGED framerVars
      PROVE  UNCHANGED RP!vars
  BY <1>1 DEF framerVars, RP!vars, RP!timerVars
<1>2. ASSUME NEW r \in Requests, Send(r)
      PROVE  UNCHANGED RP!vars
  BY <1>1, <1>2 DEF Send
<1>3. ASSUME Deliver
      PROVE  RP!Next
  <2>1. PICK n \in 1 .. Len(wire) : Rx!Feed(SubSeq(wire, 1, n))
    BY <1>3 DEF Deliver
  <2>2. RP!Feed(SubSeq(wire, 1, n))
    BY <2>1, SameFramer
  <2>3. SubSeq(wire, 1, n) \in RP!Chunks
    BY <2>2, ChunkFits
  <2> QED
    BY <2>2, <2>3 DEF RP!Next
<1>4. ASSUME Cut
      PROVE  RP!Next
  BY <1>4, SameFramer DEF Cut, RP!Next
<1>5. ASSUME Handle
      PROVE  UNCHANGED RP!vars
  BY <1>1, <1>5 DEF Handle
<1>6. ASSUME Close
      PROVE  RP!Next
  BY <1>6, SameFramer DEF Close, RP!Next
<1>7. ASSUME UNCHANGED vars
      PROVE  UNCHANGED RP!vars
  BY <1>1, <1>7 DEF vars
<1> QED
  BY <1>2, <1>3, <1>4, <1>5, <1>6, <1>7 DEF Next, Terminated

(* What a step of the framer leaves alone, and what it adds.                 *)
LEMMA FramerMoves ==
    /\ UNCHANGED framerVars \/ Cut \/ Close =>
         fed' = fed
    /\ UNCHANGED framerVars \/ Deliver \/ Cut \/ Close =>
         /\ cfg' = cfg
         /\ frames' = frames \/ \E f : frames' = Append(frames, f)
    /\ Deliver => ~closed /\ ~closed'
    /\ Cut => draining /\ closed' = closed
    /\ Close => ~draining /\ ~closed /\ closed' /\ resynced' = resynced
    /\ Close => \/ buf = <<>> /\ frames' = frames
                \/ buf # <<>> /\ frames' = Append(frames, buf)
<1>1. Deliver => /\ cfg' = cfg /\ ~closed /\ ~closed'
                 /\ frames' = frames \/ \E f : frames' = Append(frames, f)
  BY DEF Deliver, Rx!Feed, Rx!FeedWhole, Rx!FeedBuffered, Rx!FeedFramed, Rx!Takes
<1>2. Cut => /\ cfg' = cfg /\ draining /\ closed' = closed /\ fed' = fed
             /\ frames' = frames \/ \E f : frames' = Append(frames, f)
  BY DEF Cut, Rx!Drain, Rx!Drained
<1>3. Close => /\ cfg' = cfg /\ ~draining /\ ~closed /\ closed' /\ resynced' = resynced
               /\ fed' = fed
               /\ \/ buf = <<>> /\ frames' = frames
                  \/ buf # <<>> /\ frames' = Append(frames, buf)
  BY DEF Close, Rx!Disconnect
<1>4. UNCHANGED framerVars => cfg' = cfg /\ frames' = frames /\ fed' = fed
  BY DEF framerVars
<1> QED
  BY <1>1, <1>2, <1>3, <1>4

(* The invariant holds at first: nothing was sent and the framer is new.     *)
LEMMA InitHolds ==
    Init => IInv
<1> SUFFICES ASSUME Init
             PROVE  IInv
  OBVIOUS
<1>1. Accepted
  BY DEF Init, Accepted
<1>2. RP!Init
  BY SameFramer DEF Init
<1>3. RP!TypeOK /\ RP!IInv
  BY <1>2, FramerFits, RP!InitIInv
<1>4. sent = <<>> /\ wire = <<>> /\ plans = <<>> /\ fed = <<>> /\ frames = <<>>
      /\ draining = FALSE
  BY <1>2 DEF Init, RP!Init
<1>5. Stream
  <2>1. Payloads(<<>>) = <<>>
    BY DEF Payloads
  <2>2. FlattenSeq(<<>>) = <<>>
    BY DEF FlattenSeq
  <2>3. <<>> \in Seq(Messages) /\ Len(<<>>) = 0 /\ <<>> \o <<>> = <<>>
    OBVIOUS
  <2>4. <<>> \in Seq(0 .. 255)
    OBVIOUS
  <2>5. 0 <= MaxSends
    BY ExchangeAssumption
  <2> QED
    BY <1>4, <2>1, <2>2, <2>3, <2>4, <2>5 DEF Stream
<1>6. Answered
  <2>1. <<>> \in Seq(SUBSET Answers) /\ Len(<<>>) = 0 /\ 1 .. 0 = {} /\ 0 <= 0
    OBVIOUS
  <2> QED
    BY <1>4, <2>1 DEF Answered
<1>7. RestIsRest
  BY <1>4 DEF RestIsRest
<1>8. NothingFromNothing
  BY <1>4 DEF NothingFromNothing
<1> QED
  BY <1>1, <1>3, <1>5, <1>6, <1>7, <1>8 DEF IInv

(* Nothing changes the configuration of a running receiver.                  *)
LEMMA AcceptedStep ==
    ASSUME IInv, [Next]_vars
    PROVE  Accepted'
<1>1. session' = session
  BY DEF Next, Send, Deliver, Cut, Handle, Close, Terminated, vars
<1>2. cfg' = cfg
  BY FramerMoves DEF Next, Send, Handle, Terminated, vars
<1> QED
  BY <1>1, <1>2 DEF IInv, Accepted, Validate

(* The invariant of the framer is kept: every step is one of the framer or   *)
(* leaves it alone.                                                          *)
LEMMA FramerHolds ==
    ASSUME IInv, [Next]_vars
    PROVE  RP!TypeOK' /\ RP!IInv'
<1>1. cfg.mode \in {"none", "delimiter", "fixed"}
  <2>1. session \in Sessions /\ cfg.mode = session.framing.mode
    BY DEF IInv, Accepted, NewFramer
  <2> QED
    BY <2>1, SessionTyped DEF IsSession
<1>2. wire \in Seq(0 .. 255) /\ fed \in Seq(0 .. 255)
  BY DEF IInv, Stream, RP!TypeOK, RP!Bytes
<1>3. [RP!Next]_(RP!vars)
  BY <1>1, <1>2, FramerStep
<1> QED
  BY <1>3, FramerFits, RP!NextIInv DEF IInv

(* No step loses, adds or reorders a byte between the sender and the framer. *)
LEMMA StreamStep ==
    ASSUME IInv, [Next]_vars
    PROVE  Stream'
<1> DEFINE B == 0 .. 255
<1>1. /\ sent \in Seq(Messages) /\ Len(sent) <= MaxSends
      /\ wire \in Seq(B) /\ fed \in Seq(B)
      /\ FlattenSeq(Payloads(sent)) = fed \o wire
  BY DEF IInv, Stream, RP!TypeOK, RP!Bytes
<1>2. ASSUME NEW r \in Requests, Send(r)
      PROVE  Stream'
  <2>1. PICK p \in BuildPayload(r) :
          /\ p.bytes # <<>>
          /\ sent' = Append(sent, [request |-> r, payload |-> p])
          /\ wire' = wire \o p.bytes
    BY <1>2 DEF Send
  <2> DEFINE m == [request |-> r, payload |-> p]
  <2>2. m \in Messages /\ m.payload.bytes = p.bytes
    BY <2>1 DEF Messages
  <2> HIDE DEF m
  <2>3. /\ Payloads(sent) \in Seq(Seq(B)) /\ p.bytes \in Seq(B)
        /\ sent' \in Seq(Messages)
        /\ Payloads(sent') = Append(Payloads(sent), p.bytes)
    BY <1>1, <2>1, <2>2, PayloadsAppend DEF m
  <2> HIDE DEF B
  <2>4. FlattenSeq(Payloads(sent')) = (fed \o wire) \o p.bytes
    BY <1>1, <2>3, FlattenAppend
  <2>5. (fed \o wire) \o p.bytes = fed \o (wire \o p.bytes)
    <3> DEFINE b == p.bytes
    <3>1. fed \in Seq(B) /\ wire \in Seq(B) /\ b \in Seq(B)
      BY <1>1, <2>3
    <3> HIDE DEF b
    <3>2. (fed \o wire) \o b = fed \o (wire \o b)
      BY <3>1, ConcatAssociative
    <3> QED
      BY <3>2 DEF b
  <2>6. fed' = fed
    BY <1>2 DEF Send, framerVars
  <2>7. Len(sent') <= MaxSends
    <3>1. Len(sent) < MaxSends /\ Len(sent') = Len(sent) + 1 /\ Len(sent) \in Nat
      BY <1>1, <1>2, <2>1 DEF Send
    <3> QED
      BY <3>1, ExchangeAssumption
  <2>8. wire' \in Seq(B)
    BY <1>1, <2>1, <2>3
  <2>9. FlattenSeq(Payloads(sent')) = fed' \o wire'
    BY <2>1, <2>4, <2>5, <2>6
  <2>10. wire' \in Seq(0 .. 255)
    BY <2>8 DEF B
  <2> QED
    BY <2>3, <2>7, <2>9, <2>10 DEF Stream, Payloads
<1>3. ASSUME Deliver
      PROVE  Stream'
  <2>1. PICK n \in 1 .. Len(wire) : Rx!Feed(SubSeq(wire, 1, n)) /\ wire' = Drop(wire, n)
    BY <1>3 DEF Deliver
  <2> DEFINE a == SubSeq(wire, 1, n)
             b == SubSeq(wire, n + 1, Len(wire))
  <2>2. fed' = fed \o a /\ wire' = b /\ sent' = sent
    BY <1>3, <2>1 DEF Deliver, Drop, Rx!Feed, Rx!FeedWhole, Rx!FeedBuffered, Rx!FeedFramed, Rx!Takes
  <2> HIDE DEF B
  <2>3. a \in Seq(B) /\ b \in Seq(B) /\ a \o b = wire
    <3>1. Len(wire) \in Nat /\ wire \in Seq(B)
      BY <1>1
    <3>2. a \in Seq(B) /\ b \in Seq(B)
      BY <3>1
    <3>3. 1 \in 1 .. Len(wire) + 1 /\ n \in 1 - 1 .. Len(wire) /\ Len(wire) \in n .. Len(wire)
      BY <3>1
    <3>4. a \o b = SubSeq(wire, 1, Len(wire))
      BY <3>1, <3>3, ConcatAdjacentSubSeq
    <3>5. SubSeq(wire, 1, Len(wire)) = wire
      BY <3>1, SubSeqFull
    <3> QED
      BY <3>2, <3>4, <3>5
  <2> HIDE DEF a, b
  <2>4. (fed \o a) \o b = fed \o wire
    <3>1. fed \in Seq(B) /\ a \in Seq(B) /\ b \in Seq(B)
      BY <1>1, <2>3
    <3>2. (fed \o a) \o b = fed \o (a \o b)
      BY <3>1, ConcatAssociative
    <3> QED
      BY <2>3, <3>2
  <2>5. FlattenSeq(Payloads(sent')) = fed' \o wire' /\ sent' = sent
    BY <1>1, <2>2, <2>4
  <2>6. wire' \in Seq(0 .. 255)
    BY <2>2, <2>3 DEF B
  <2> QED
    BY <1>1, <2>5, <2>6 DEF Stream, Payloads
<1>4. ASSUME UNCHANGED <<sent, wire>>, fed' = fed
      PROVE  Stream'
  BY <1>1, <1>4 DEF Stream
<1>5. ASSUME Cut \/ Handle \/ Close \/ UNCHANGED vars
      PROVE  Stream'
  <2>1. UNCHANGED <<sent, wire>>
    BY <1>5 DEF Cut, Handle, Close, vars
  <2>2. fed' = fed
    BY <1>5, FramerMoves DEF Handle, vars
  <2> QED
    BY <1>4, <2>1, <2>2
<1> QED
  BY <1>2, <1>3, <1>5 DEF Next, Terminated

(* No step makes the answer of an earlier frame another one.                 *)
LEMMA AnsweredStep ==
    ASSUME IInv, [Next]_vars
    PROVE  Answered'
<1> DEFINE B == 0 .. 255
           F == Seq(B)
<1>1. /\ plans \in Seq(SUBSET Answers) /\ Len(plans) <= Len(frames)
      /\ \A i \in 1 .. Len(plans) : plans[i] = Answer(frames[i])
      /\ frames \in Seq(F)
  BY DEF IInv, Answered, RP!TypeOK, RP!Bytes
<1>2. Len(plans) \in Nat /\ Len(frames) \in Nat
  BY <1>1, LenProperties
<1>3. session' = session
  BY DEF Next, Send, Deliver, Cut, Handle, Close, Terminated, vars
<1>4. ASSUME plans' = plans, frames' = frames \/ \E f : frames' = Append(frames, f)
      PROVE  Answered'
  <2>1. Len(plans) <= Len(frames') /\ \A i \in 1 .. Len(plans) : frames'[i] = frames[i]
    <3>1. CASE frames' = frames
      BY <1>1, <3>1
    <3>2. CASE \E f : frames' = Append(frames, f)
      <4>1. PICK f : frames' = Append(frames, f)
        BY <3>2
      <4> HIDE DEF F
      <4> QED
        BY <1>1, <1>2, <4>1
    <3> QED
      BY <1>4, <3>1, <3>2
  <2> QED
    BY <1>1, <1>3, <1>4, <2>1 DEF Answered, Answer
<1>5. ASSUME Handle
      PROVE  Answered'
  <2> DEFINE f == frames[Len(plans) + 1]
             a == Answer(f)
  <2>1. /\ Len(plans) < Len(frames) /\ plans' = Append(plans, a) /\ frames' = frames
    BY <1>5 DEF Handle, framerVars, Answer
  <2>2. f \in F
    <3> HIDE DEF F
    <3> QED
      BY <1>1, <1>2, <2>1
  <2>3. a \in SUBSET Answers
    <3>1. session \in Sessions
      BY DEF IInv, Accepted
    <3>2. IsAutoReply(session.autoReply) /\ session.sendEncoding \in Encodings
      BY <3>1, SessionTyped DEF IsSession
    <3> QED
      BY <2>2, <3>2, EvaluateTyped DEF Answer
  <2> HIDE DEF a
  <2>4. /\ plans' \in Seq(SUBSET Answers) /\ Len(plans') = Len(plans) + 1
        /\ \A i \in 1 .. Len(plans) : plans'[i] = plans[i]
        /\ plans'[Len(plans) + 1] = a
    BY <1>1, <2>1, <2>3, AppendProperties
  <2>5. \A i \in 1 .. Len(plans) + 1 : i \in 1 .. Len(plans) \/ i = Len(plans) + 1
    BY <1>2
  <2>6. Len(plans') <= Len(frames)
    BY <1>2, <2>1, <2>4
  <2>7. \A i \in 1 .. Len(plans') : plans'[i] = Answer(frames[i])
    BY <1>1, <2>4, <2>5 DEF a
  <2> QED
    BY <1>3, <2>1, <2>4, <2>6, <2>7 DEF Answered, Answer
<1>6. ASSUME Deliver \/ Cut \/ Close \/ UNCHANGED vars
      PROVE  Answered'
  <2>1. plans' = plans
    BY <1>6 DEF Deliver, Cut, Close, vars
  <2>2. frames' = frames \/ \E f : frames' = Append(frames, f)
    BY <1>6, FramerMoves DEF vars
  <2> QED
    BY <1>4, <2>1, <2>2
<1>7. ASSUME NEW r \in Requests, Send(r)
      PROVE  Answered'
  BY <1>4, <1>7 DEF Send, framerVars
<1> QED
  BY <1>5, <1>6, <1>7 DEF Next, Terminated

(* Only the end of the connection makes a frame of a rest.                   *)
LEMMA RestStep ==
    ASSUME IInv, [Next]_vars
    PROVE  RestIsRest'
<1>1. ASSUME UNCHANGED framerVars
      PROVE  RestIsRest'
  BY <1>1 DEF framerVars, IInv, RestIsRest
<1>2. ASSUME Deliver
      PROVE  RestIsRest'
  BY <1>2, FramerMoves DEF RestIsRest
<1>3. ASSUME Cut
      PROVE  RestIsRest'
  BY <1>3, FramerMoves DEF RestIsRest, IInv, RP!IInv, RP!ClosedIsQuiet
<1>4. ASSUME Close
      PROVE  RestIsRest'
  <2>1. /\ ~draining /\ ~closed /\ resynced' = resynced /\ cfg' = cfg
        /\ \/ buf = <<>> /\ frames' = frames
           \/ buf # <<>> /\ frames' = Append(frames, buf)
    BY <1>4, FramerMoves
  <2>2. /\ \A i \in DOMAIN frames : RP!ByRule(cfg, resynced, frames[i])
        /\ RP!Incomplete(cfg, resynced, buf)
    BY <2>1 DEF IInv, RP!IInv, RP!Rules, RP!Cut
  <2>3. frames \in Seq(RP!Bytes) /\ buf \in RP!Bytes
    BY DEF IInv, RP!TypeOK
  <2>4. CASE buf = <<>> /\ frames' = frames
    <3>1. frames # <<>> => Len(frames) \in DOMAIN frames
      BY <2>3
    <3> QED
      BY <2>1, <2>2, <2>4, <3>1 DEF RestIsRest
  <2>5. CASE buf # <<>> /\ frames' = Append(frames, buf)
    <3>1. frames'[Len(frames')] = buf
      BY <2>3, <2>5
    <3> QED
      BY <2>1, <2>2, <2>5, <3>1 DEF RestIsRest
  <2> QED
    BY <2>1, <2>4, <2>5
<1> QED
  BY <1>1, <1>2, <1>3, <1>4 DEF Next, Terminated, Send, Handle, vars

(* The framer's frames one behind the other.                                 *)
LEMMA SameFlatten ==
    \A s : RP!FlattenSeq(s) = FlattenSeq(s)
BY DEF RP!FlattenSeq, FlattenSeq

(* Nothing is cut before anything is fed.                                    *)
LEMMA NothingStep ==
    ASSUME IInv, [Next]_vars
    PROVE  NothingFromNothing'
<1>1. ASSUME UNCHANGED framerVars
      PROVE  NothingFromNothing'
  BY <1>1 DEF framerVars, IInv, NothingFromNothing
<1>2. ASSUME Deliver
      PROVE  NothingFromNothing'
  <2> DEFINE B == 0 .. 255
  <2>1. wire \in Seq(B) /\ fed \in Seq(B)
    BY DEF IInv, Stream, RP!TypeOK, RP!Bytes
  <2>2. PICK n \in 1 .. Len(wire) : Rx!Feed(SubSeq(wire, 1, n))
    BY <1>2 DEF Deliver
  <2>3. fed' = fed \o SubSeq(wire, 1, n)
    BY <2>2 DEF Rx!Feed, Rx!FeedWhole, Rx!FeedBuffered, Rx!FeedFramed, Rx!Takes
  <2> HIDE DEF B
  <2>4. SubSeq(wire, 1, n) \in Seq(B) /\ Len(SubSeq(wire, 1, n)) >= 1
    BY <2>1
  <2>5. fed' # <<>>
    <3> DEFINE a == SubSeq(wire, 1, n)
    <3>1. a \in Seq(B) /\ Len(a) >= 1 /\ fed \in Seq(B)
      BY <2>1, <2>4
    <3> HIDE DEF a
    <3>2. Len(fed \o a) >= 1
      BY <3>1
    <3>3. fed \o a # <<>>
      BY <3>2
    <3> QED
      BY <2>3, <3>3 DEF a
  <2> QED
    BY <2>5 DEF NothingFromNothing
<1>3. ASSUME Cut
      PROVE  NothingFromNothing'
  <2>1. draining /\ fed' = fed
    BY <1>3, FramerMoves
  <2>2. fed # <<>>
    BY <2>1 DEF IInv, NothingFromNothing
  <2> QED
    BY <2>1, <2>2 DEF NothingFromNothing
<1>4. ASSUME Close
      PROVE  NothingFromNothing'
  <2>1. fed' = fed /\ draining' = draining
    BY <1>4, FramerMoves DEF Close, Rx!Disconnect
  <2>2. ASSUME fed = <<>>
        PROVE  frames' = <<>> /\ ~draining
    <3> DEFINE B == 0 .. 255
    <3>1. frames = <<>> /\ ~draining
      BY <2>2 DEF IInv, NothingFromNothing
    <3>2. FlattenSeq(frames) \o buf = <<>>
      <4>1. FlattenSeq(frames) \o buf = fed
        BY SameFlatten DEF IInv, RP!IInv, RP!NothingLost
      <4> QED
        BY <2>2, <4>1
    <3>3. buf \in Seq(B)
      BY DEF IInv, RP!TypeOK, RP!Bytes
    <3>4. FlattenSeq(frames) = <<>>
      BY <3>1 DEF FlattenSeq
    <3> HIDE DEF B
    <3>5. buf = <<>>
      BY <3>2, <3>3, <3>4
    <3>6. frames' = frames
      BY <1>4, <3>5, FramerMoves
    <3> QED
      BY <3>1, <3>6
  <2> QED
    BY <2>1, <2>2 DEF NothingFromNothing
<1> QED
  BY <1>1, <1>2, <1>3, <1>4 DEF Next, Terminated, Send, Handle, vars

(* Together: every step keeps the invariant.                                 *)
LEMMA NextHolds ==
    IInv /\ [Next]_vars => IInv'
BY AcceptedStep, FramerHolds, StreamStep, AnsweredStep, RestStep, NothingStep DEF IInv

(* In every state the receiver runs a configuration that was accepted, its   *)
(* framer has its invariant, the bytes it was fed and those on the wire are  *)
(* the payloads that were sent, in order, and each frame was answered as its *)
(* rules say (send_message in commands.rs, feed in framing.rs, inbound in    *)
(* session/mod.rs).                                                          *)
THEOREM ExchangeInductive ==
    Spec => []IInv
BY InitHolds, NextHolds, PTL DEF Spec

(* A text, or hexadecimal that reads, makes a payload.                       *)
LEMMA PlainBuilds ==
    ASSUME NEW format, Checked(format), NEW content, NEW encoding,
           format = "hex" => IsHex(content)
    PROVE  BuildPayload(PlainRequest(format, content, encoding)) # {}
<1> DEFINE r == PlainRequest(format, content, encoding)
<1>1. /\ r.format = format /\ r.content = content /\ r.lineEnding = "none"
  BY DEF PlainRequest, Request
<1>2. format \in {"text", "hex"}
  BY DEF Checked
<1> HIDE DEF r
<1>3. ContentBytes(r) # {}
  <2>1. CASE format = "text"
    BY <1>1, <2>1 DEF ContentBytes
  <2>2. CASE format = "hex"
    BY <1>1, <2>2 DEF ContentBytes, IsHex
  <2> QED
    BY <1>2, <2>1, <2>2
<1>4. Ending(r) = {<<>>}
  BY <1>1 DEF Ending
<1>5. BuildPayload(r) # {}
  <2>1. PICK c : c \in ContentBytes(r)
    BY <1>3
  <2>2. <<>> \in Ending(r)
    BY <1>4
  <2> DEFINE q(c0, e0) ==
               LET sum == Checksum(Covered(c0, e0), r.checksum, r.checksumBigEndian)
               IN  [bytes |-> c0 \o e0 \o sum,
                    checksumOffset |-> IF r.checksum = "none" THEN {}
                                       ELSE {Len(c0) + Len(e0)}]
  <2>4. BuildPayload(r) = {q(c0, e0) : c0 \in ContentBytes(r), e0 \in Ending(r)}
    BY DEF BuildPayload
  <2> HIDE DEF q
  <2>3. q(c, <<>>) \in BuildPayload(r)
    BY <2>1, <2>2, <2>4
  <2> QED
    BY <2>3
<1> QED
  BY <1>5 DEF r

(* What validate checked when the configuration was saved is what decides    *)
(* here whether something is built.                                          *)
LEMMA WorksInState ==
    IInv => AcceptedConfigWorks
<1> SUFFICES ASSUME IInv
             PROVE  AcceptedConfigWorks
  OBVIOUS
<1>1. session \in Sessions /\ Validate(session)
  BY DEF IInv, Accepted
<1>2. session.framing.mode = "delimiter" =>
        ParseHex(session.framing.delimiterHex) = {Delimiter(session.framing)}
  BY <1>1, DelimiterTyped DEF Validate
<1>3. session.timedSend.enabled /\ Checked(session.timedSend.format) =>
        BuildPayload(PlainRequest(session.timedSend.format, session.timedSend.content,
                                  session.sendEncoding)) # {}
  BY <1>1, PlainBuilds DEF Validate, TimedSendAccepted
<1> DEFINE ar == session.autoReply
           text(i) == DecodeText(frames[i], session.recvEncoding).text
           hits(i) == Hits(ar, text(i), frames[i])
<1>4. IsAutoReply(ar) /\ \A i \in DOMAIN ar.rules : RuleAccepted(ar.rules[i])
  BY <1>1, SessionTyped DEF IsSession, Validate
<1>5. ASSUME NEW i \in DOMAIN plans, ar.enabled, plans[i] = {}, hits(i) # {}
      PROVE  ~Checked(ar.rules[Min(hits(i))].format)
  <2> DEFINE k == Min(hits(i))
             r == ar.rules[k]
  <2>1. k \in DOMAIN ar.rules /\ IsReplyRule(r)
    BY <1>4, <1>5, FirstHit
  <2>2. RuleAccepted(r)
    BY <1>4, <2>1
  <2>3. plans[i] = Answer(frames[i])
    <3>1. i \in 1 .. Len(plans)
      BY LenProperties DEF IInv, Answered
    <3> QED
      BY <3>1 DEF IInv, Answered
  <2>4. Answer(frames[i]) = Evaluate(ar, hits(i), frames[i], session.sendEncoding)
    BY <1>5 DEF Answer, EvaluateAutoReply
  <2>5. Evaluate(ar, hits(i), frames[i], session.sendEncoding)
          = Act(r, frames[i], session.sendEncoding)
    <3> HIDE DEF ar, hits
    <3> QED
      BY <1>5 DEF Evaluate
  <2> HIDE DEF r, k, hits, text, ar
  <2>6. Act(r, frames[i], session.sendEncoding) = {}
    BY <1>5, <2>3, <2>4, <2>5
  <2>7. r.action = "reply"
    <3>1. r.action \in {"reply", "echo", "disconnect"}
      BY <2>1 DEF IsReplyRule, ReplyActions
    <3>2. r.action = "echo" => Act(r, frames[i], session.sendEncoding) # {}
      BY DEF Act
    <3>3. r.action = "disconnect" => Act(r, frames[i], session.sendEncoding) # {}
      BY DEF Act
    <3> QED
      BY <2>6, <3>1, <3>2, <3>3
  <2>8. Render(r.format, r.reply, session.sendEncoding) = {}
    BY <2>6, <2>7 DEF Act
  <2>9. BuildPayload(PlainRequest(r.format, r.reply, session.sendEncoding)) = {}
    BY <2>8 DEF Render
  <2>10. r.format = "hex" => IsHex(r.reply)
    BY <2>2, <2>7 DEF RuleAccepted
  <2>11. ~Checked(r.format)
    BY <2>9, <2>10, PlainBuilds
  <2> QED
    BY <2>11 DEF r, k, hits, text, ar
<1> QED
  BY <1>2, <1>3, <1>5 DEF AcceptedConfigWorks

(* A configuration that was accepted works: its framer cuts at the delimiter *)
(* that is written in it, and a rule or a timed send whose format was        *)
(* checked can be built (validate in commands.rs against new in framing.rs   *)
(* and render in session/mod.rs).                                            *)
THEOREM ConfigWorks ==
    Spec => []AcceptedConfigWorks
BY ExchangeInductive, WorksInState, PTL

-----------------------------------------------------------------------------
(* Checksums verify.                                                         *)

(* The bits of a number that is written with eight of them.                  *)
ByteOf(a, b, c, d, e, f, g, h) ==
    a + 2 * b + 4 * c + 8 * d + 16 * e + 32 * f + 64 * g + 128 * h

(* Dividing by a power of two and taking the rest by two finds a binary      *)
(* digit.                                                                    *)
LEMMA BinaryDigits ==
    ASSUME NEW a \in {0, 1}, NEW b \in {0, 1}, NEW c \in {0, 1}, NEW d \in {0, 1},
           NEW e \in {0, 1}, NEW f \in {0, 1}, NEW g \in {0, 1}, NEW h \in {0, 1}
    PROVE  LET w == ByteOf(a, b, c, d, e, f, g, h)
           IN  /\ (w \div 1) % 2 = a /\ (w \div 2) % 2 = b
               /\ (w \div 4) % 2 = c /\ (w \div 8) % 2 = d
               /\ (w \div 16) % 2 = e /\ (w \div 32) % 2 = f
               /\ (w \div 64) % 2 = g /\ (w \div 128) % 2 = h
<1> DEFINE w == a + 2 * b + 4 * c + 8 * d + 16 * e + 32 * f + 64 * g + 128 * h
<1>0. w \in Nat
  OBVIOUS
<1>1. (w \div 1) % 2 = a
  BY <1>0
<1>2. w \div 2 = b + 2 * c + 4 * d + 8 * e + 16 * f + 32 * g + 64 * h
  OBVIOUS
<1>3. w \div 4 = c + 2 * d + 4 * e + 8 * f + 16 * g + 32 * h
  OBVIOUS
<1>4. w \div 8 = d + 2 * e + 4 * f + 8 * g + 16 * h
  OBVIOUS
<1>5. w \div 16 = e + 2 * f + 4 * g + 8 * h
  OBVIOUS
<1>6. w \div 32 = f + 2 * g + 4 * h
  OBVIOUS
<1>7. w \div 64 = g + 2 * h
  OBVIOUS
<1>8. w \div 128 = h
  OBVIOUS
<1>9. (w \div 2) % 2 = b
  BY <1>2
<1>10. (w \div 4) % 2 = c
  BY <1>3
<1>11. (w \div 8) % 2 = d
  BY <1>4
<1>12. (w \div 16) % 2 = e
  BY <1>5
<1>13. (w \div 32) % 2 = f
  BY <1>6
<1>14. (w \div 64) % 2 = g
  BY <1>7
<1>15. (w \div 128) % 2 = h
  BY <1>8
<1>16. ByteOf(a, b, c, d, e, f, g, h) = w
  BY DEF ByteOf
<1> HIDE DEF w
<1> QED
  BY <1>16, <1>1, <1>9, <1>10, <1>11, <1>12, <1>13, <1>14, <1>15

(* The bits of one byte of a register.                                       *)
Low(r, k) == {i \in 0 .. 7 : 8 * k + i \in r}

(* The bits of the byte a register yields are the bits of the register.      *)
LEMMA BitsOfWeight ==
    ASSUME NEW r, NEW k \in Nat
    PROVE  BitsOf(Weight(r, k)) = Low(r, k)
<1> DEFINE v(i) == IF 8 * k + i \in r THEN 1 ELSE 0
           w == Weight(r, k)
<1>1. w = ByteOf(v(0), v(1), v(2), v(3), v(4), v(5), v(6), v(7))
  <2>1. /\ Bit(r, 8 * k, 1) = v(0) /\ Bit(r, 8 * k + 1, 2) = 2 * v(1)
        /\ Bit(r, 8 * k + 2, 4) = 4 * v(2) /\ Bit(r, 8 * k + 3, 8) = 8 * v(3)
        /\ Bit(r, 8 * k + 4, 16) = 16 * v(4) /\ Bit(r, 8 * k + 5, 32) = 32 * v(5)
        /\ Bit(r, 8 * k + 6, 64) = 64 * v(6) /\ Bit(r, 8 * k + 7, 128) = 128 * v(7)
    BY DEF Bit
  <2> HIDE DEF v
  <2> QED
    BY <2>1 DEF Weight, ByteOf
<1>2. /\ v(0) \in {0, 1} /\ v(1) \in {0, 1} /\ v(2) \in {0, 1} /\ v(3) \in {0, 1}
      /\ v(4) \in {0, 1} /\ v(5) \in {0, 1} /\ v(6) \in {0, 1} /\ v(7) \in {0, 1}
  OBVIOUS
<1>3. \A i \in 0 .. 7 : v(i) = 1 <=> i \in Low(r, k)
  BY DEF Low
<1> HIDE DEF v, w
<1>4. /\ (w \div 1) % 2 = v(0) /\ (w \div 2) % 2 = v(1)
      /\ (w \div 4) % 2 = v(2) /\ (w \div 8) % 2 = v(3)
      /\ (w \div 16) % 2 = v(4) /\ (w \div 32) % 2 = v(5)
      /\ (w \div 64) % 2 = v(6) /\ (w \div 128) % 2 = v(7)
  BY <1>1, <1>2, BinaryDigits
<1>5. ASSUME NEW i \in 0 .. 7
      PROVE  (w \div (2 ^ i)) % 2 = v(i)
  <2>1. i = 0 \/ i = 1 \/ i = 2 \/ i = 3 \/ i = 4 \/ i = 5 \/ i = 6 \/ i = 7
    OBVIOUS
  <2>2. CASE i = 0
    BY <1>4, <2>2, Powers
  <2>3. CASE i = 1
    BY <1>4, <2>3, Powers
  <2>4. CASE i = 2
    BY <1>4, <2>4, Powers
  <2>5. CASE i = 3
    BY <1>4, <2>5, Powers
  <2>6. CASE i = 4
    BY <1>4, <2>6, Powers
  <2>7. CASE i = 5
    BY <1>4, <2>7, Powers
  <2>8. CASE i = 6
    BY <1>4, <2>8, Powers
  <2>9. CASE i = 7
    BY <1>4, <2>9, Powers
  <2> QED
    BY <2>1, <2>2, <2>3, <2>4, <2>5, <2>6, <2>7, <2>8, <2>9
<1>6. BitsOf(w) = {i \in 0 .. 7 : v(i) = 1}
  BY <1>5 DEF BitsOf
<1>7. Low(r, k) \subseteq 0 .. 7
  BY DEF Low
<1> QED
  BY <1>3, <1>6, <1>7 DEF w

(* Exclusive or, bit by bit.                                                 *)
LEMMA SymDiffs ==
    ASSUME NEW A, NEW B, NEW x
    PROVE  x \in SymDiff(A, B) <=> (x \in A /\ x \notin B) \/ (x \notin A /\ x \in B)
BY DEF SymDiff

(* One shift takes a symmetric difference to one.                            *)
LEMMA ShiftBit ==
    ASSUME NEW crc, IsCrc(crc), NEW r \in Registers(crc), NEW n, NEW j
    PROVE  j \in ShiftStep(crc, r, n) <=>
             \/ (j \in Nat /\ j + 1 \in r) /\ ~(0 \in r /\ j \in Reflected(crc))
             \/ ~(j \in Nat /\ j + 1 \in r) /\ (0 \in r /\ j \in Reflected(crc))
<1>1. j \in Down(r) <=> j \in Nat /\ j + 1 \in r
  BY DEF Down, Registers, IsCrc
<1> QED
  BY <1>1, SymDiffs DEF ShiftStep

(* One shift of an exclusive or is the exclusive or of the shifts.           *)
LEMMA ShiftLinear ==
    ASSUME NEW crc, IsCrc(crc), NEW a \in Registers(crc), NEW b \in Registers(crc), NEW n
    PROVE  ShiftStep(crc, SymDiff(a, b), n) = SymDiff(ShiftStep(crc, a, n), ShiftStep(crc, b, n))
<1> DEFINE c == SymDiff(a, b)
<1>1. c \in Registers(crc)
  BY DEF Registers, SymDiff
<1> SUFFICES ASSUME NEW j
             PROVE  j \in ShiftStep(crc, c, n) <=>
                      j \in SymDiff(ShiftStep(crc, a, n), ShiftStep(crc, b, n))
  OBVIOUS
<1>2. \A x : x \in c <=> (x \in a /\ x \notin b) \/ (x \notin a /\ x \in b)
  BY SymDiffs
<1> HIDE DEF c
<1> QED
  BY <1>1, <1>2, ShiftBit, SymDiffs

(* Eight of them, one after the other.                                       *)
LEMMA EightShifts ==
    ASSUME NEW crc, IsCrc(crc), NEW r \in Registers(crc)
    PROVE  \E v \in [0 .. 8 -> Registers(crc)] :
             /\ v[0] = r /\ Shifts(crc, r) = v[8]
             /\ \A k \in 1 .. 8 : v[k] = ShiftStep(crc, v[k - 1], k)
<1> DEFINE X == 1 .. 8
<1>1. Eight \in Seq(X) /\ Len(Eight) = 8 /\ \A k \in 1 .. 8 : Eight[k] = k
  <2>1. Len(Eight) = 8 /\ \A k \in 1 .. 8 : Eight[k] = k
    BY DEF Eight
  <2>2. Eight \in Seq(X)
    BY DEF Eight
  <2> QED
    BY <2>1, <2>2
<1>2. IsTable(ShiftTable(crc), Registers(crc), X)
  BY ShiftTyped
<1> HIDE DEF X
<1>3. PICK v : IsRun(v, ShiftTable(crc), r, Eight, Registers(crc))
  BY <1>1, <1>2, FoldRuns
<1>4. /\ v \in [0 .. 8 -> Registers(crc)] /\ v[0] = r /\ v[8] = Shifts(crc, r)
      /\ \A k \in 1 .. 8 : v[k] = ShiftTable(crc)[v[k - 1]][k]
  BY <1>1, <1>3, ShiftsAreFold DEF IsRun
<1>5. ASSUME NEW k \in 1 .. 8
      PROVE  v[k] = ShiftStep(crc, v[k - 1], k)
  <2>1. k - 1 \in 0 .. 8
    OBVIOUS
  <2> QED
    BY <1>4, <2>1, ShiftTyped
<1> QED
  BY <1>4, <1>5

(* So are eight.                                                             *)
LEMMA ShiftsLinear ==
    ASSUME NEW crc, IsCrc(crc), NEW a \in Registers(crc), NEW b \in Registers(crc)
    PROVE  Shifts(crc, SymDiff(a, b)) = SymDiff(Shifts(crc, a), Shifts(crc, b))
<1> DEFINE c == SymDiff(a, b)
           Same(u, v, w, k) == w[k] = SymDiff(u[k], v[k])
<1>1. c \in Registers(crc)
  BY DEF Registers, SymDiff
<1>2. PICK u \in [0 .. 8 -> Registers(crc)] :
             /\ u[0] = a /\ Shifts(crc, a) = u[8]
             /\ \A k \in 1 .. 8 : u[k] = ShiftStep(crc, u[k - 1], k)
  BY EightShifts
<1>3. PICK v \in [0 .. 8 -> Registers(crc)] :
             /\ v[0] = b /\ Shifts(crc, b) = v[8]
             /\ \A k \in 1 .. 8 : v[k] = ShiftStep(crc, v[k - 1], k)
  BY EightShifts
<1>4. PICK w \in [0 .. 8 -> Registers(crc)] :
             /\ w[0] = c /\ Shifts(crc, c) = w[8]
             /\ \A k \in 1 .. 8 : w[k] = ShiftStep(crc, w[k - 1], k)
  BY <1>1, EightShifts
<1> DEFINE T == {k \in 0 .. 8 : w[k] = SymDiff(u[k], v[k])}
<1>5. 0 \in T
  BY <1>2, <1>3, <1>4
<1>6. ASSUME NEW k \in 1 .. 8, k - 1 \in T
      PROVE  k \in T
  <2>1. k - 1 \in 0 .. 8 /\ k \in 0 .. 8
    OBVIOUS
  <2>2. w[k - 1] = SymDiff(u[k - 1], v[k - 1])
    BY <1>6
  <2>3. u[k - 1] \in Registers(crc) /\ v[k - 1] \in Registers(crc)
    BY <1>2, <1>3, <2>1
  <2>4. ShiftStep(crc, w[k - 1], k)
          = SymDiff(ShiftStep(crc, u[k - 1], k), ShiftStep(crc, v[k - 1], k))
    BY <2>2, <2>3, ShiftLinear
  <2> QED
    BY <1>2, <1>3, <1>4, <2>1, <2>4
<1>7. 8 \in T
  <2> HIDE DEF T
  <2>1. Climbs(T, 8) /\ 8 \in Nat /\ 8 \in 0 .. 8
    BY <1>5, <1>6 DEF Climbs
  <2> QED
    BY <2>1, UpTo
<1> QED
  BY <1>2, <1>3, <1>4, <1>7

(* A register without its low byte is shifted down by a byte.                *)
Above(r, n) == {i \in Nat : i + n \in r}

(* A register whose low byte is empty is only moved down.                    *)
LEMMA ShiftsHigh ==
    ASSUME NEW crc, IsCrc(crc), NEW r \in Registers(crc), \A i \in 0 .. 7 : i \notin r
    PROVE  Shifts(crc, r) = Above(r, 8)
<1>1. PICK v \in [0 .. 8 -> Registers(crc)] :
             /\ v[0] = r /\ Shifts(crc, r) = v[8]
             /\ \A k \in 1 .. 8 : v[k] = ShiftStep(crc, v[k - 1], k)
  BY EightShifts
<1> DEFINE T == {k \in 0 .. 8 : v[k] = Above(r, k)}
<1>2. 0 \in T
  BY <1>1 DEF Above, Registers, IsCrc
<1>3. ASSUME NEW k \in 1 .. 8, k - 1 \in T
      PROVE  k \in T
  <2>1. k - 1 \in 0 .. 7 /\ k - 1 \in 0 .. 8 /\ k \in 0 .. 8
    OBVIOUS
  <2>2. v[k - 1] = Above(r, k - 1) /\ v[k - 1] \in Registers(crc)
    BY <1>1, <1>3, <2>1
  <2>3. 0 \notin v[k - 1]
    BY <2>1, <2>2 DEF Above
  <2>4. \A j : j \in v[k] <=> j \in Nat /\ j + 1 \in v[k - 1]
    BY <1>1, <2>2, <2>3, ShiftBit
  <2>5. \A j \in Nat : j + 1 \in Above(r, k - 1) <=> j + k \in r
    <3>1. \A j \in Nat : (j + 1) + (k - 1) = j + k
      OBVIOUS
    <3> QED
      BY <3>1 DEF Above
  <2>6. v[k] = Above(r, k)
    BY <2>2, <2>4, <2>5 DEF Above
  <2> QED
    BY <2>1, <2>6
<1>4. 8 \in T
  <2> HIDE DEF T
  <2>1. Climbs(T, 8) /\ 8 \in Nat /\ 8 \in 0 .. 8
    BY <1>2, <1>3 DEF Climbs
  <2> QED
    BY <2>1, UpTo
<1> QED
  BY <1>1, <1>4

(* The bytes of a register, low byte first.                                  *)
RegisterBytes(crc, r) == [k \in 1 .. crc.width \div 8 |-> Weight(r, k - 1)]

(* They are bytes, as many as the register is wide.                          *)
LEMMA RegisterBytesTyped ==
    ASSUME NEW crc, IsCrc(crc), NEW r
    PROVE  /\ RegisterBytes(crc, r) \in Seq(0 .. 255)
           /\ Len(RegisterBytes(crc, r)) = crc.width \div 8
<1> DEFINE n == crc.width \div 8
           B == 0 .. 255
<1>1. n \in Nat
  BY DEF IsCrc
<1>2. \A k \in 1 .. n : Weight(r, k - 1) \in B
  BY WeightTyped
<1> HIDE DEF n, B
<1>3. [k \in 1 .. n |-> Weight(r, k - 1)] \in [1 .. n -> B]
  BY <1>2
<1>4. /\ [k \in 1 .. n |-> Weight(r, k - 1)] \in Seq(B)
      /\ Len([k \in 1 .. n |-> Weight(r, k - 1)]) = n
  BY <1>1, <1>3, FunctionIsSeq
<1> QED
  BY <1>4 DEF RegisterBytes, n, B

(* The low byte of what is above is a byte of the register.                  *)
LEMMA LowOfAbove ==
    ASSUME NEW r, NEW o, NEW k \in Nat, NEW x
    PROVE  x \in Low(SymDiff(r, o), k) <=>
             x \in 0 .. 7 /\ ( \/ x \in Above(r, 8 * k) /\ x \notin Low(o, k)
                               \/ x \notin Above(r, 8 * k) /\ x \in Low(o, k))
<1>1. ASSUME x \in 0 .. 7
      PROVE  x + 8 * k = 8 * k + x /\ x \in Nat
  BY <1>1
<1>2. x \in 0 .. 7 => (x \in Above(r, 8 * k) <=> 8 * k + x \in r)
  BY <1>1 DEF Above
<1>3. x \in 0 .. 7 => (x \in Low(o, k) <=> 8 * k + x \in o)
  BY DEF Low
<1>4. x \in Low(SymDiff(r, o), k) <=> x \in 0 .. 7 /\ 8 * k + x \in SymDiff(r, o)
  BY DEF Low
<1> QED
  BY <1>2, <1>3, <1>4, SymDiffs

(* The step of one byte of the checksum: the byte takes the low byte of the  *)
(* register away, but for that of the final xor, and the rest moves down.    *)
LEMMA OneByteCancels ==
    ASSUME NEW crc, IsCrc(crc), NEW r \in Registers(crc), NEW o \in Registers(crc),
           NEW u \in Registers(crc), NEW k \in Nat
    PROVE  FeedStep(crc, SymDiff(Above(r, 8 * k), u), Weight(SymDiff(r, o), k))
             = SymDiff(Above(r, 8 * (k + 1)), FeedStep(crc, u, Weight(o, k)))
<1> DEFINE A == Above(r, 8 * k)
           H == {i \in A : i \notin 0 .. 7}
           L == Low(o, k)
           Z == Low(SymDiff(r, o), k)
           w == SymDiff(u, L)
<1>1. BitsOf(Weight(SymDiff(r, o), k)) = Z /\ BitsOf(Weight(o, k)) = L
  BY BitsOfWeight
<1>2. crc.width \in Nat /\ crc.width >= 8 /\ A \in SUBSET Nat
  BY DEF IsCrc, Above
<1>3. A \in Registers(crc)
  <2> SUFFICES ASSUME NEW i \in A
               PROVE  i \in 0 .. crc.width - 1
    BY DEF Registers
  <2>1. i \in Nat /\ i + 8 * k \in 0 .. crc.width - 1
    BY DEF Above, Registers
  <2> QED
    BY <1>2, <2>1
<1>4. H \in Registers(crc) /\ \A i \in 0 .. 7 : i \notin H
  BY <1>3 DEF Registers
<1>5. L \in Registers(crc)
  BY <1>2 DEF Low, Registers
<1>6. w \in Registers(crc)
  BY <1>5 DEF Registers, SymDiff
<1>7. SymDiff(SymDiff(A, u), Z) = SymDiff(H, w)
  <2> SUFFICES ASSUME NEW x
               PROVE  x \in SymDiff(SymDiff(A, u), Z) <=> x \in SymDiff(H, w)
    OBVIOUS
  <2> DEFINE N7 == 0 .. 7
  <2>1. x \in Z <=> x \in N7 /\ ((x \in A /\ x \notin L) \/ (x \notin A /\ x \in L))
    <3> HIDE DEF A, L, Z
    <3>1. A = Above(r, 8 * k) /\ L = Low(o, k) /\ Z = Low(SymDiff(r, o), k)
      BY DEF A, L, Z
    <3> QED
      BY <3>1, LowOfAbove
  <2>2. x \in L => x \in N7
    BY DEF Low
  <2>3. x \in H <=> x \in A /\ x \notin N7
    OBVIOUS
  <2> HIDE DEF N7
  <2> HIDE DEF A, H, L, Z
  <2>4. x \in SymDiff(SymDiff(A, u), Z) <=>
          (x \in SymDiff(A, u) /\ x \notin Z) \/ (x \notin SymDiff(A, u) /\ x \in Z)
    BY SymDiffs
  <2>5. x \in SymDiff(A, u) <=> (x \in A /\ x \notin u) \/ (x \notin A /\ x \in u)
    BY SymDiffs
  <2>6. x \in w <=> (x \in u /\ x \notin L) \/ (x \notin u /\ x \in L)
    BY SymDiffs
  <2>7. x \in SymDiff(H, w) <=> (x \in H /\ x \notin w) \/ (x \notin H /\ x \in w)
    BY SymDiffs
  <2> HIDE DEF w
  <2> QED
    BY <2>1, <2>2, <2>3, <2>4, <2>5, <2>6, <2>7
<1>8. Above(H, 8) = Above(r, 8 * (k + 1))
  <2>1. ASSUME NEW i \in Nat
        PROVE  i + 8 \in H <=> i + 8 * (k + 1) \in r
    <3>1. (i + 8) + 8 * k = i + 8 * (k + 1) /\ i + 8 \in Nat /\ i + 8 \notin 0 .. 7
      OBVIOUS
    <3>2. i + 8 \in A <=> (i + 8) + 8 * k \in r
      BY <3>1 DEF Above
    <3> QED
      BY <3>1, <3>2
  <2> HIDE DEF H
  <2> QED
    BY <2>1 DEF Above
<1>9. Shifts(crc, SymDiff(H, w)) = SymDiff(Above(r, 8 * (k + 1)), Shifts(crc, w))
  <2> HIDE DEF H, w
  <2> QED
    BY <1>4, <1>6, <1>8, ShiftsLinear, ShiftsHigh
<1> QED
  BY <1>1, <1>7, <1>9 DEF FeedStep

(* A CRC that its own bytes are fed to forgets what it was: what is left is  *)
(* what the bytes of the final xor make of an empty register.                *)
LEMMA CrcCancels ==
    ASSUME NEW crc, IsCrc(crc), NEW r \in Registers(crc)
    PROVE  Fold(FeedTable(crc), r, RegisterBytes(crc, SymDiff(r, crc.out)))
             = Fold(FeedTable(crc), {}, RegisterBytes(crc, crc.out))
<1> DEFINE n == crc.width \div 8
           B == 0 .. 255
           o == crc.out
           s == RegisterBytes(crc, SymDiff(r, o))
           t == RegisterBytes(crc, o)
<1>1. n \in Nat /\ 8 * n = crc.width
  BY DEF IsCrc
<1>2. /\ s \in Seq(B) /\ Len(s) = n /\ t \in Seq(B) /\ Len(t) = n
      /\ \A k \in 1 .. n : s[k] = Weight(SymDiff(r, o), k - 1) /\ t[k] = Weight(o, k - 1)
  BY RegisterBytesTyped DEF RegisterBytes
<1>3. o \in Registers(crc) /\ {} \in Registers(crc)
  BY DEF IsCrc, Registers
<1>4. IsTable(FeedTable(crc), Registers(crc), B)
  BY FeedTyped
<1>5. ASSUME NEW q \in Registers(crc), NEW b \in B
      PROVE  FeedTable(crc)[q][b] = FeedStep(crc, q, b)
  BY FeedTyped
<1> HIDE DEF s, t, n, B
<1>6. PICK v : IsRun(v, FeedTable(crc), r, s, Registers(crc))
  BY <1>2, <1>4, FoldRuns
<1>7. PICK u : IsRun(u, FeedTable(crc), {}, t, Registers(crc))
  BY <1>2, <1>3, <1>4, FoldRuns
<1>8. /\ v \in [0 .. n -> Registers(crc)] /\ v[0] = r /\ v[n] = Fold(FeedTable(crc), r, s)
      /\ \A k \in 1 .. n : v[k] = FeedTable(crc)[v[k - 1]][s[k]]
  BY <1>2, <1>6 DEF IsRun
<1>9. /\ u \in [0 .. n -> Registers(crc)] /\ u[0] = {} /\ u[n] = Fold(FeedTable(crc), {}, t)
      /\ \A k \in 1 .. n : u[k] = FeedTable(crc)[u[k - 1]][t[k]]
  BY <1>2, <1>7 DEF IsRun
<1>10. r \in SUBSET Nat
  BY <1>1 DEF Registers
<1> DEFINE T == {k \in 0 .. n : v[k] = SymDiff(Above(r, 8 * k), u[k])}
<1>11. 0 \in T
  <2>1. Above(r, 8 * 0) = r
    <3>1. \A i \in Nat : i + 8 * 0 = i
      OBVIOUS
    <3>2. Above(r, 8 * 0) = {i \in Nat : i \in r}
      BY <3>1 DEF Above
    <3> QED
      BY <1>10, <3>2
  <2>2. SymDiff(r, {}) = r
    BY DEF SymDiff
  <2>3. 0 \in 0 .. n
    BY <1>1
  <2>4. v[0] = SymDiff(Above(r, 8 * 0), u[0])
    BY <1>8, <1>9, <2>1, <2>2
  <2> QED
    BY <2>3, <2>4
<1>12. ASSUME NEW k \in 1 .. n, k - 1 \in T
       PROVE  k \in T
  <2>1. k - 1 \in 0 .. n /\ k \in 0 .. n /\ k - 1 \in Nat /\ (k - 1) + 1 = k
    <3> USE <1>1
    <3> HIDE DEF T
    <3> QED
      OBVIOUS
  <2>2. /\ v[k - 1] \in Registers(crc) /\ u[k - 1] \in Registers(crc)
        /\ s[k] \in B /\ t[k] \in B
    <3> HIDE DEF T
    <3>1. v[k - 1] \in Registers(crc) /\ u[k - 1] \in Registers(crc)
      BY <1>8, <1>9, <2>1
    <3>2. DOMAIN s = 1 .. n /\ DOMAIN t = 1 .. n
      BY <1>2
    <3>3. \A i \in DOMAIN s : s[i] \in B
      BY <1>2
    <3>4. \A i \in DOMAIN t : t[i] \in B
      BY <1>2
    <3> QED
      BY <3>1, <3>2, <3>3, <3>4
  <2>3. /\ v[k] = FeedStep(crc, v[k - 1], Weight(SymDiff(r, o), k - 1))
        /\ u[k] = FeedStep(crc, u[k - 1], Weight(o, k - 1))
    BY <1>2, <1>5, <1>8, <1>9, <2>1, <2>2
  <2>4. v[k - 1] = SymDiff(Above(r, 8 * (k - 1)), u[k - 1])
    BY <1>12
  <2>5. v[k] = SymDiff(Above(r, 8 * ((k - 1) + 1)), u[k])
    <3> HIDE DEF o
    <3> QED
      BY <1>3, <2>1, <2>2, <2>3, <2>4, OneByteCancels
  <2> QED
    BY <2>1, <2>5
<1>13. n \in T
  <2> HIDE DEF T
  <2>1. Climbs(T, n) /\ n \in 0 .. n
    BY <1>1, <1>11, <1>12 DEF Climbs
  <2> QED
    BY <1>1, <2>1, UpTo
<1>14. Above(r, 8 * n) = {}
  BY <1>1 DEF Above, Registers
<1>15. v[n] = u[n]
  <2>1. v[n] = SymDiff({}, u[n])
    BY <1>13, <1>14
  <2>2. SymDiff({}, u[n]) = u[n]
    BY DEF SymDiff
  <2> QED
    BY <2>1, <2>2
<1> QED
  BY <1>8, <1>9, <1>15 DEF s, t

(* A CRC over bytes and their CRC is the same for all bytes.                 *)
LEMMA CrcConstant ==
    ASSUME NEW crc, IsCrc(crc), NEW c \in Seq(0 .. 255)
    PROVE  CrcBytes(c \o CrcBytes(c, crc), crc) = CrcBytes(CrcBytes(<<>>, crc), crc)
<1> DEFINE B == 0 .. 255
           F == FeedTable(crc)
           One(d) == Fold(F, Ones(crc), d)
           K == Fold(F, {}, RegisterBytes(crc, crc.out))
<1>1. /\ IsTable(F, Registers(crc), B) /\ Ones(crc) \in Registers(crc)
      /\ crc.out \in Registers(crc)
  BY FeedTyped DEF IsCrc, Registers
<1>2. ASSUME NEW d \in Seq(B)
      PROVE  /\ CrcBytes(d, crc) = RegisterBytes(crc, SymDiff(One(d), crc.out))
             /\ One(d) \in Registers(crc)
             /\ CrcBytes(d, crc) \in Seq(B)
  BY CrcBytesAre, CrcIsFold DEF RegisterBytes, CrcResult
<1> HIDE DEF B, F
<1>3. ASSUME NEW d \in Seq(B)
      PROVE  One(d \o CrcBytes(d, crc)) = K
  <2>1. One(d \o CrcBytes(d, crc)) = Fold(F, One(d), CrcBytes(d, crc))
    BY <1>1, <1>2, FoldConcat
  <2> QED
    BY <1>2, <2>1, CrcCancels DEF F
<1>4. <<>> \in Seq(B) /\ c \in Seq(B)
  BY DEF B
<1>5. <<>> \o CrcBytes(<<>>, crc) = CrcBytes(<<>>, crc)
  BY <1>2, <1>4, ConcatEmptySeq
<1>6. c \o CrcBytes(c, crc) \in Seq(B)
  BY <1>2, <1>4
<1> QED
  BY <1>2, <1>3, <1>4, <1>5, <1>6

(* What stands before and behind the place where two sequences meet.         *)
LEMMA SplitConcat ==
    ASSUME NEW S, NEW s \in Seq(S), NEW t \in Seq(S)
    PROVE  /\ SubSeq(s \o t, 1, Len(s)) = s /\ Drop(s \o t, Len(s)) = t
           /\ Len(s \o t) = Len(s) + Len(t)
<1> DEFINE c == s \o t
           u == SubSeq(c, 1, Len(s))
           v == Drop(c, Len(s))
<1>1. c \in Seq(S) /\ Len(c) = Len(s) + Len(t)
  OBVIOUS
<1>2. \A i \in 1 .. Len(t) : c[Len(s) + i] = t[i]
  OBVIOUS
<1>3. \A i \in 1 .. Len(s) : c[i] = s[i]
  OBVIOUS
<1>4. Len(s) \in Nat /\ Len(t) \in Nat
  OBVIOUS
<1>5. u \in Seq(S) /\ Len(u) = Len(s) /\ \A i \in 1 .. Len(s) : u[i] = c[i]
  <2> HIDE DEF c
  <2> QED
    <3>1. 1 \in 1 .. Len(c) + 1 /\ Len(s) \in 0 .. Len(c)
      BY <1>1, <1>4
    <3> QED
      BY <1>1, <1>4, <3>1
<1>6. v \in Seq(S) /\ Len(v) = Len(t) /\ \A i \in 1 .. Len(t) : v[i] = c[Len(s) + i]
  <2> HIDE DEF c
  <2> QED
    <3>1. Len(s) <= Len(c) /\ Len(c) - Len(s) = Len(t)
      BY <1>1, <1>4
    <3>2. Len(v) = Len(t)
      BY <1>1, <1>4, <3>1, DropTyped
    <3> QED
      BY <1>1, <1>4, <3>2, DropTyped
<1> HIDE DEF u, v, c
<1>7. u = s
  <2>1. \A i \in 1 .. Len(s) : u[i] = s[i]
    BY <1>3, <1>5 DEF c
  <2> QED
    BY <1>5, <2>1, SeqEqual
<1>8. v = t
  <2>1. \A i \in 1 .. Len(t) : v[i] = t[i]
    BY <1>2, <1>6 DEF c
  <2> QED
    BY <1>6, <2>1, SeqEqual
<1> QED
  BY <1>1, <1>7, <1>8 DEF u, v, c

(* Back to front twice is as it was.                                         *)
LEMMA ReverseTwice ==
    ASSUME NEW S, NEW s \in Seq(S)
    PROVE  Reverse(Reverse(s)) = s
<1> DEFINE t == Reverse(s)
           u == Reverse(t)
<1>1. t \in Seq(S) /\ Len(t) = Len(s) /\ \A i \in 1 .. Len(s) : t[i] = s[(Len(s) - i) + 1]
  BY ReverseTyped
<1> HIDE DEF t
<1>2. u \in Seq(S) /\ Len(u) = Len(s) /\ \A i \in 1 .. Len(s) : u[i] = t[(Len(s) - i) + 1]
  BY <1>1, ReverseTyped
<1> HIDE DEF u
<1>3. ASSUME NEW i \in 1 .. Len(s)
      PROVE  u[i] = s[i]
  <2>1. /\ (Len(s) - i) + 1 \in 1 .. Len(s)
        /\ (Len(s) - ((Len(s) - i) + 1)) + 1 = i
    OBVIOUS
  <2> QED
    BY <1>1, <1>2, <2>1
<1> QED
  BY <1>2, <1>3, SeqEqual DEF u, t

(* A xor over bytes and their xor is zero.                                   *)
LEMMA XorVerifies ==
    ASSUME NEW c \in Seq(0 .. 255)
    PROVE  LET x == ByteAt(XorOver(c), 0)
           IN  c \o <<x>> \in Seq(0 .. 255) /\ ByteAt(XorOver(c \o <<x>>), 0) = 0
<1> DEFINE r == XorOver(c)
           x == ByteAt(r, 0)
           B == 0 .. 255
           R == SUBSET (0 .. 7)
<1>1. r = Fold(XorTable, {}, c) /\ r \in R
  BY XorIsFold
<1>2. r \in SUBSET Nat
  BY <1>1
<1>3. x = Weight(r, 0) /\ x \in B
  BY <1>2, ByteAtIsWeight, WeightTyped, ZenonT(30)
<1>4. IsTable(XorTable, R, B) /\ {} \in R /\ XorTable[r][x] = XorStep(r, x)
  <2> HIDE DEF r, x
  <2> QED
    BY <1>1, <1>3, XorTyped
<1>5. XorStep(r, x) = {}
  <2>1. BitsOf(x) = Low(r, 0)
    BY <1>3, BitsOfWeight
  <2>2. Low(r, 0) = r
    <3>1. \A i \in 0 .. 7 : 8 * 0 + i = i
      OBVIOUS
    <3> QED
      BY <1>1, <3>1 DEF Low
  <2>3. SymDiff(r, r) = {}
    BY DEF SymDiff
  <2> QED
    BY <2>1, <2>2, <2>3 DEF XorStep
<1>6. c \o <<x>> = Append(c, x) /\ c \o <<x>> \in Seq(B)
  <2> HIDE DEF B, x
  <2>1. c \in Seq(B)
    BY DEF B
  <2> QED
    BY <1>3, <2>1
<1>7. XorOver(c \o <<x>>) = {}
  <2>1. XorOver(c \o <<x>>) = Fold(XorTable, {}, c \o <<x>>)
    <3> HIDE DEF x
    <3> QED
      BY <1>6, XorIsFold
  <2>2. Fold(XorTable, {}, Append(c, x)) = XorTable[Fold(XorTable, {}, c)][x]
    <3> HIDE DEF B, R, x
    <3>1. c \in Seq(B)
      BY DEF B
    <3> QED
      BY <1>3, <1>4, <3>1, FoldAppend
  <2> QED
    BY <1>1, <1>4, <1>5, <1>6, <2>1, <2>2
<1>8. ByteAt({}, 0) = 0
  <2>1. ByteAt({}, 0) = Weight({}, 0)
    BY ByteAtIsWeight
  <2>2. Weight({}, 0) = 0
    BY DEF Weight, Bit
  <2> QED
    BY <2>1, <2>2
<1> QED
  BY <1>6, <1>7, <1>8

(* A receiver that checks the checksum of these bytes succeeds.              *)
Verifies(c, kind, big) ==
    LET b == c \o Checksum(c, kind, big)
        sum == IF big THEN Reverse(Checksum(c, kind, big)) ELSE Checksum(c, kind, big)
        over(bytes) == Checksum(bytes, kind, FALSE)
    IN  CASE kind = "xor" -> over(b) = <<0>>
          [] kind = "sum8" -> over(c) = sum
          [] OTHER -> over(c \o sum) = over(over(<<>>))

(* Every kind of checksum verifies over any bytes.                           *)
LEMMA EachVerifies ==
    ASSUME NEW c \in Seq(0 .. 255), NEW kind \in Checksums, kind # "none", NEW big \in BOOLEAN
    PROVE  Verifies(c, kind, big)
<1>0. DOMAIN CrcOf = {"crc16Modbus", "crc16Ccitt", "crc32"}
  BY DEF CrcOf
<1> DEFINE B == 0 .. 255
           sum == IF big THEN Reverse(Checksum(c, kind, big)) ELSE Checksum(c, kind, big)
           over(bytes) == Checksum(bytes, kind, FALSE)
<1>1. CASE kind \in DOMAIN CrcOf
  <2> DEFINE k == CrcBytes(c, CrcOf[kind])
  <2>1. k \in Seq(0 .. 255)
    BY <1>1, CrcsTyped, CrcBytesAre
  <2>2. Checksum(c, kind, big) = IF big THEN Reverse(k) ELSE k
    BY <1>0, <1>1 DEF Checksum
  <2>3. \A bytes : over(bytes) = CrcBytes(bytes, CrcOf[kind])
    BY <1>0, <1>1 DEF Checksum
  <2>4. sum = k
    <3> HIDE DEF k
    <3>1. Reverse(Reverse(k)) = k
      BY <2>1, ReverseTwice
    <3> QED
      BY <2>2, <3>1
  <2>5. CrcBytes(c \o k, CrcOf[kind]) = CrcBytes(CrcBytes(<<>>, CrcOf[kind]), CrcOf[kind])
    BY <1>1, CrcsTyped, CrcConstant
  <2>6. over(c \o sum) = over(over(<<>>))
    <3> HIDE DEF k, sum, over
    <3> QED
      BY <2>3, <2>4, <2>5
  <2> QED
    BY <1>0, <1>1, <2>6 DEF Verifies
<1>2. CASE kind = "xor"
  <2> DEFINE x == ByteAt(XorOver(c), 0)
  <2>1. \A bytes, end : Checksum(bytes, kind, end) = <<ByteAt(XorOver(bytes), 0)>>
    BY <1>0, <1>2 DEF Checksum, XorOver, XorStep
  <2>2. ByteAt(XorOver(c \o <<x>>), 0) = 0
    BY XorVerifies
  <2>3. over(c \o Checksum(c, kind, big)) = <<0>>
    <3>1. Checksum(c, kind, big) = <<x>>
      BY <2>1
    <3> HIDE DEF x
    <3> QED
      BY <2>1, <2>2, <3>1
  <2> QED
    BY <1>2, <2>3 DEF Verifies
<1>3. CASE kind = "sum8"
  <2> DEFINE x == SumOver(c)
  <2>1. \A bytes, end : Checksum(bytes, kind, end) = <<SumOver(bytes)>>
    BY <1>0, <1>3 DEF Checksum, SumOver, SumStep
  <2>2. x \in B
    BY SumIsFold
  <2>3. Reverse(<<x>>) = <<x>>
    <3> HIDE DEF x, B
    <3>1. <<x>> \in Seq(B) /\ Len(<<x>>) = 1 /\ <<x>>[1] = x
      BY <2>2
    <3>2. /\ Reverse(<<x>>) \in Seq(B) /\ Len(Reverse(<<x>>)) = 1
          /\ \A i \in 1 .. 1 : Reverse(<<x>>)[i] = <<x>>[(1 - i) + 1]
      BY <3>1, ReverseTyped
    <3>3. Reverse(<<x>>)[1] = x
      BY <3>1, <3>2
    <3>4. \A i \in 1 .. 1 : Reverse(<<x>>)[i] = <<x>>[i]
      BY <3>1, <3>3
    <3> QED
      BY <3>1, <3>2, <3>4, SeqEqual
  <2>4. over(c) = sum
    <3>1. over(c) = <<x>> /\ Checksum(c, kind, big) = <<x>>
      BY <2>1
    <3> HIDE DEF x, over
    <3> QED
      BY <2>3, <3>1
  <2> QED
    BY <1>3, <2>4 DEF Verifies
<1> QED
  BY <1>0, <1>1, <1>2, <1>3 DEF Checksums

(* What a receiver that checks a payload finds.                              *)
VerifiesAt(r, b, off) ==
    LET sum == IF r.checksumBigEndian THEN Reverse(Drop(b, off)) ELSE Drop(b, off)
        over(bytes) == Checksum(bytes, r.checksum, FALSE)
    IN  r.checksum # "none" =>
          /\ Len(b) > off
          /\ \A e \in Ending(r) : IsSuffix(e, SubSeq(b, 1, off))
          /\ CASE r.checksum = "xor" -> over(b) = <<0>>
               [] r.checksum = "sum8" -> over(SubSeq(b, 1, off)) = sum
               [] OTHER -> over(SubSeq(b, 1, off) \o sum) = over(over(<<>>))
PayloadVerifies(r, p) == VerifiesAt(r, p.bytes, CHOOSE n \in p.checksumOffset : TRUE)

(* What is appended is a suffix.                                             *)
LEMMA EndsIn ==
    ASSUME NEW S, NEW s \in Seq(S), NEW t \in Seq(S)
    PROVE  IsSuffix(t, s \o t)
<1> DEFINE c == s \o t
           n == Len(c)
           m == Len(t)
<1>1. c \in Seq(S) /\ n = Len(s) + m /\ Len(s) \in Nat /\ m \in Nat
  OBVIOUS
<1>2. \A i \in 1 .. m : c[Len(s) + i] = t[i]
  OBVIOUS
<1>3. /\ Reverse(t) \in Seq(S) /\ Len(Reverse(t)) = m
      /\ \A i \in 1 .. m : Reverse(t)[i] = t[(m - i) + 1]
  BY ReverseTyped
<1> HIDE DEF c
<1>4. /\ Reverse(c) \in Seq(S) /\ Len(Reverse(c)) = n
      /\ \A i \in 1 .. n : Reverse(c)[i] = c[(n - i) + 1]
  BY <1>1, ReverseTyped
<1>5. ASSUME NEW i \in 1 .. m
      PROVE  Reverse(c)[i] = Reverse(t)[i]
  <2>1. i \in 1 .. n /\ (m - i) + 1 \in 1 .. m /\ (n - i) + 1 = Len(s) + ((m - i) + 1)
    BY <1>1
  <2> QED
    BY <1>2, <1>3, <1>4, <2>1
<1>6. SubSeq(Reverse(t), 1, m) = SubSeq(Reverse(c), 1, m)
  BY <1>1, <1>3, <1>4, <1>5
<1>7. IsPrefix(Reverse(t), Reverse(c))
  BY <1>1, <1>3, <1>4, <1>6 DEF IsPrefix
<1> QED
  BY <1>7 DEF c, IsSuffix

(* Every payload that is built verifies: its offset is where the content and *)
(* the line ending end.                                                      *)
LEMMA BuiltVerifies ==
    ASSUME NEW r, IsRequest(r), NEW p \in BuildPayload(r)
    PROVE  PayloadVerifies(r, p)
<1> DEFINE B == 0 .. 255
<1>1. PICK content, ending : Assembled(r, p, content, ending)
  BY PayloadTyped
<1> DEFINE c == content \o ending
           sum == Checksum(c, r.checksum, r.checksumBigEndian)
           off == Len(content) + Len(ending)
<1>2. /\ content \in Seq(B) /\ ending \in Seq(B) /\ sum \in Seq(B)
      /\ Len(sum) = SumWidth(r.checksum)
      /\ Ending(r) = {ending} /\ p.bytes = c \o sum
      /\ r.checksum # "none" => p.checksumOffset = {off}
  BY <1>1 DEF Assembled
<1>3. r.checksum \in Checksums /\ r.checksumBigEndian \in BOOLEAN
  BY DEF IsRequest
<1> SUFFICES ASSUME r.checksum # "none"
             PROVE  PayloadVerifies(r, p)
  BY DEF PayloadVerifies, VerifiesAt
<1> HIDE DEF B, sum, off
<1>4. (CHOOSE n \in p.checksumOffset : TRUE) = off
  <2>1. p.checksumOffset = {off}
    BY <1>2
  <2> QED
    BY <2>1
<1>5. c \in Seq(B) /\ Len(c) = off /\ off \in Nat
  BY <1>2 DEF off
<1>6. IsSuffix(ending, c)
  BY <1>2, EndsIn
<1> HIDE DEF c
<1>7. SubSeq(p.bytes, 1, off) = c /\ Drop(p.bytes, off) = sum
  BY <1>2, <1>5, SplitConcat
<1>8. Len(p.bytes) > off
  <2>1. Len(p.bytes) = off + Len(sum) /\ Len(sum) \in Nat
    <3>1. Len(c \o sum) = Len(c) + Len(sum) /\ Len(sum) \in Nat
      <4>1. sum \in Seq(B)
        BY <1>2
      <4> QED
        BY <1>5, <4>1, SplitConcat
    <3> QED
      BY <1>2, <1>5, <3>1
  <2>2. SumWidth(r.checksum) # 0
    BY <1>3 DEF Checksums, SumWidth, CrcOf
  <2> QED
    BY <1>2, <1>5, <2>1, <2>2
<1>9. Verifies(c, r.checksum, r.checksumBigEndian)
  BY <1>3, <1>5, EachVerifies DEF B
<1>10. LET over(bytes) == Checksum(bytes, r.checksum, FALSE)
           back == IF r.checksumBigEndian THEN Reverse(Drop(p.bytes, off)) ELSE Drop(p.bytes, off)
       IN  CASE r.checksum = "xor" -> over(p.bytes) = <<0>>
             [] r.checksum = "sum8" -> over(SubSeq(p.bytes, 1, off)) = back
             [] OTHER -> over(SubSeq(p.bytes, 1, off) \o back) = over(over(<<>>))
  BY <1>2, <1>7, <1>9, Zenon DEF Verifies, sum
<1>11. \A e \in Ending(r) : IsSuffix(e, SubSeq(p.bytes, 1, off))
  BY <1>2, <1>6, <1>7
<1>12. VerifiesAt(r, p.bytes, off)
  BY <1>8, <1>10, <1>11, Zenon DEF VerifiesAt
<1> QED
  BY <1>4, <1>12, Zenon DEF PayloadVerifies

(* So does every payload that was sent.                                      *)
LEMMA VerifiesInState ==
    IInv => ChecksumVerifies
<1> SUFFICES ASSUME IInv, NEW m \in Range(sent)
             PROVE  PayloadVerifies(m.request, m.payload)
  BY Zenon DEF ChecksumVerifies, PayloadVerifies, VerifiesAt
<1>1. sent \in Seq(Messages)
  BY DEF IInv, Stream
<1>2. m \in Messages
  <2>1. PICK i \in DOMAIN sent : m = sent[i]
    BY DEF Range
  <2> QED
    BY <1>1, <2>1
<1>3. m.request \in Requests /\ m.payload \in BuildPayload(m.request)
  BY <1>2 DEF Messages
<1>4. IsRequest(m.request)
  BY <1>3, ExchangeAssumption
<1> QED
  BY <1>3, <1>4, BuiltVerifies

(* A receiver that checks a payload succeeds, whatever was sent: the         *)
(* checksum starts at the offset the payload names, covers the content and   *)
(* the line ending, and over the whole payload, low byte first, a CRC leaves *)
(* the constant its final xor makes (build_payload and checksum in           *)
(* codec.rs).                                                                *)
THEOREM EveryChecksumVerifies ==
    Spec => []ChecksumVerifies
BY ExchangeInductive, VerifiesInState, PTL

-----------------------------------------------------------------------------
(* Texts read back.                                                          *)

(* Induction over a sequence that grows by one element at a time, for a set  *)
(* of sequences.                                                             *)
Grows(P, S) == <<>> \in P /\ \A s \in Seq(S), x \in S : s \in P => Append(s, x) \in P

(* The first k elements of a sequence are the first k - 1 and one more.      *)
LEMMA FirstElements ==
    ASSUME NEW S, NEW s \in Seq(S), NEW k \in 1 .. Len(s)
    PROVE  /\ SubSeq(s, 1, k - 1) \in Seq(S) /\ Len(SubSeq(s, 1, k - 1)) = k - 1
           /\ s[k] \in S
           /\ SubSeq(s, 1, k) = Append(SubSeq(s, 1, k - 1), s[k])
           /\ SubSeq(s, 1, 0) = <<>> /\ SubSeq(s, 1, Len(s)) = s
<1>1. Len(s) \in Nat /\ k \in 1 .. Len(s) /\ k - 1 \in 0 .. Len(s)
  OBVIOUS
<1> DEFINE a == SubSeq(s, 1, k - 1)
           b == SubSeq(s, 1, k)
           c == SubSeq(s, 1, Len(s))
<1>2. a \in Seq(S) /\ Len(a) = k - 1 /\ \A i \in 1 .. k - 1 : a[i] = s[i]
  BY <1>1
<1>3. b \in Seq(S) /\ Len(b) = k /\ \A i \in 1 .. k : b[i] = s[i]
  BY <1>1
<1>4. c \in Seq(S) /\ Len(c) = Len(s) /\ \A i \in 1 .. Len(s) : c[i] = s[i]
  BY <1>1
<1>5. s[k] \in S
  OBVIOUS
<1> HIDE DEF a, b, c
<1>6. Append(a, s[k]) \in Seq(S) /\ Len(Append(a, s[k])) = k
  BY <1>1, <1>2, <1>5
<1>7. ASSUME NEW i \in 1 .. k
      PROVE  Append(a, s[k])[i] = s[i]
  <2>1. CASE i = k
    BY <1>2, <1>5, <2>1
  <2>2. CASE i # k
    <3>1. i \in 1 .. k - 1
      BY <1>1, <2>2
    <3> QED
      BY <1>2, <1>5, <3>1
  <2> QED
    BY <2>1, <2>2
<1>8. b = Append(a, s[k])
  BY <1>3, <1>6, <1>7, SeqEqual
<1>9. c = s
  BY <1>4, SeqEqual
<1>10. SubSeq(s, 1, 0) = <<>>
  OBVIOUS
<1> QED
  BY <1>2, <1>5, <1>8, <1>9, <1>10 DEF a, b, c

(* What holds of the empty sequence and survives an append holds of every    *)
(* sequence.                                                                 *)
LEMMA GrowInduction ==
    ASSUME NEW S, NEW P, Grows(P, S), NEW s \in Seq(S)
    PROVE  s \in P
<1> DEFINE T == {k \in 0 .. Len(s) : SubSeq(s, 1, k) \in P}
<1>1. Len(s) \in Nat
  OBVIOUS
<1>2. CASE Len(s) = 0
  <2>1. s = <<>>
    BY <1>2, EmptySeq
  <2> QED
    BY <2>1 DEF Grows
<1>3. CASE Len(s) > 0
  <2>1. 1 \in 1 .. Len(s) /\ 0 \in 0 .. Len(s)
    BY <1>1, <1>3
  <2>2. 0 \in T
    BY <2>1, FirstElements DEF Grows
  <2>3. ASSUME NEW k \in 1 .. Len(s), k - 1 \in T
        PROVE  k \in T
    <3>1. k \in 0 .. Len(s)
      BY <1>1
    <3>2. SubSeq(s, 1, k - 1) \in P
      BY <2>3
    <3>3. /\ SubSeq(s, 1, k - 1) \in Seq(S) /\ s[k] \in S
          /\ SubSeq(s, 1, k) = Append(SubSeq(s, 1, k - 1), s[k])
      BY FirstElements
    <3>4. Append(SubSeq(s, 1, k - 1), s[k]) \in P
      BY <3>2, <3>3 DEF Grows
    <3> QED
      BY <3>1, <3>3, <3>4
  <2>4. Len(s) \in T
    <3> HIDE DEF T
    <3>1. Climbs(T, Len(s)) /\ Len(s) \in 0 .. Len(s)
      BY <1>1, <2>2, <2>3 DEF Climbs
    <3> QED
      BY <1>1, <3>1, UpTo
  <2>5. SubSeq(s, 1, Len(s)) = s
    BY <2>1, FirstElements
  <2> QED
    BY <2>4, <2>5
<1> QED
  BY <1>1, <1>2, <1>3

(* Element by element, what is appended is read last.                        *)
LEMMA ViaAppend ==
    ASSUME NEW S, NEW X, NEW M, IsMap(M, X, S), NEW s \in Seq(X), NEW x \in X
    PROVE  Via(M, Append(s, x)) = Append(Via(M, s), M[x])
<1> DEFINE a == Via(M, Append(s, x))
           v == Via(M, s)
           b == Append(v, M[x])
<1>1. Append(s, x) \in Seq(X) /\ Len(Append(s, x)) = Len(s) + 1
  OBVIOUS
<1>2. a \in Seq(S) /\ Len(a) = Len(s) + 1
  <2> DEFINE t == Append(s, x)
  <2> HIDE DEF t
  <2>1. Via(M, t) \in Seq(S) /\ Len(Via(M, t)) = Len(t)
    <3>1. t \in Seq(X)
      BY <1>1 DEF t
    <3> QED
      BY <3>1, ViaTyped
  <2> QED
    BY <1>1, <2>1 DEF t
<1>3. v \in Seq(S) /\ Len(v) = Len(s)
  BY ViaTyped
<1>4. M[x] \in S /\ Len(s) \in Nat
  BY DEF IsMap
<1>5. b \in Seq(S) /\ Len(b) = Len(s) + 1
  <2> HIDE DEF v
  <2> QED
    BY <1>3, <1>4
<1>6. ASSUME NEW i \in 1 .. Len(s) + 1
      PROVE  a[i] = b[i]
  <2>1. a[i] = M[Append(s, x)[i]]
    <3>1. i \in DOMAIN Append(s, x)
      BY <1>1
    <3> QED
      BY <3>1 DEF Via
  <2>2. CASE i = Len(s) + 1
    <3>1. b[i] = M[x]
      <4> HIDE DEF v
      <4> QED
        BY <1>3, <1>4, <2>2
    <3> QED
      BY <2>1, <2>2, <3>1
  <2>3. CASE i # Len(s) + 1
    <3>1. i \in 1 .. Len(s) /\ i \in DOMAIN s
      BY <2>3
    <3>2. v[i] = M[s[i]]
      BY <3>1 DEF Via
    <3>3. b[i] = v[i]
      <4> HIDE DEF v
      <4> QED
        BY <1>3, <1>4, <3>1
    <3>4. Append(s, x)[i] = s[i]
      BY <3>1
    <3> QED
      BY <2>1, <3>2, <3>3, <3>4
  <2> QED
    BY <2>2, <2>3
<1> HIDE DEF a, b
<1>7. a = b
  BY <1>2, <1>5, <1>6, SeqEqual
<1> QED
  BY <1>7 DEF a, b

(* One element more adds its image at the end.                               *)
LEMMA FlattenViaAppend ==
    ASSUME NEW S, NEW X, NEW M, IsMap(M, X, Seq(S)), NEW s \in Seq(X), NEW x \in X
    PROVE  /\ FlattenSeq(Via(M, <<>>)) = <<>>
           /\ FlattenSeq(Via(M, s)) \in Seq(S) /\ M[x] \in Seq(S)
           /\ FlattenSeq(Via(M, Append(s, x))) = FlattenSeq(Via(M, s)) \o M[x]
<1>1. Via(M, s) \in Seq(Seq(S)) /\ M[x] \in Seq(S)
  BY ViaTyped DEF IsMap
<1>2. Via(M, Append(s, x)) = Append(Via(M, s), M[x])
  BY ViaAppend
<1>3. Via(M, <<>>) = <<>>
  BY DEF Via
<1> DEFINE v == Via(M, s)
           e == M[x]
<1>4. FlattenSeq(v) \in Seq(S)
  BY <1>1, FlattenTyped
<1>5. FlattenSeq(Append(v, e)) = FlattenSeq(v) \o e
  <2> HIDE DEF v, e
  <2> QED
    BY <1>1, FlattenAppend DEF v, e
<1>6. FlattenSeq(<<>>) = <<>>
  BY DEF FlattenSeq
<1> QED
  BY <1>1, <1>2, <1>3, <1>4, <1>5, <1>6

(* What is read in two parts.                                                *)
LEMMA FlattenViaConcat ==
    ASSUME NEW S, NEW X, NEW M, IsMap(M, X, Seq(S)), NEW s \in Seq(X), NEW t \in Seq(X)
    PROVE  FlattenSeq(Via(M, s \o t)) = FlattenSeq(Via(M, s)) \o FlattenSeq(Via(M, t))
<1> DEFINE f(u) == FlattenSeq(Via(M, u))
           P == {u \in Seq(X) : f(s \o u) = f(s) \o f(u)}
<1>1. f(s) \in Seq(S) /\ s \o <<>> = s
  <2>1. s \o <<>> = s
    BY ConcatEmptySeq
  <2> QED
    BY <2>1, FlattenVia
<1>2. f(<<>>) = <<>> /\ <<>> \in Seq(X) /\ f(s) \o <<>> = f(s)
  <2>1. Via(M, <<>>) = <<>>
    BY DEF Via
  <2>2. f(<<>>) = <<>>
    BY <2>1 DEF FlattenSeq
  <2> QED
    BY <1>1, <2>2, ConcatEmptySeq
<1>3. <<>> \in P
  BY <1>1, <1>2
<1>4. ASSUME NEW u \in Seq(X), NEW x \in X, u \in P
      PROVE  Append(u, x) \in P
  <2>1. s \o u \in Seq(X) /\ Append(u, x) \in Seq(X)
    OBVIOUS
  <2>2. s \o Append(u, x) = Append(s \o u, x)
    OBVIOUS
  <2>3. f(Append(s \o u, x)) = f(s \o u) \o M[x]
    <3> DEFINE c == s \o u
    <3>1. c \in Seq(X)
      BY <2>1
    <3> HIDE DEF c
    <3>2. FlattenSeq(Via(M, Append(c, x))) = FlattenSeq(Via(M, c)) \o M[x]
      BY <3>1, FlattenViaAppend
    <3> QED
      BY <3>2 DEF c
  <2>4. f(Append(u, x)) = f(u) \o M[x] /\ f(u) \in Seq(S) /\ M[x] \in Seq(S)
    BY FlattenViaAppend
  <2>5. f(s \o u) = f(s) \o f(u)
    BY <1>4
  <2> DEFINE fs == f(s)
             fu == f(u)
             e == M[x]
  <2>6. (f(s) \o f(u)) \o M[x] = f(s) \o (f(u) \o M[x])
    <3>1. fs \in Seq(S) /\ fu \in Seq(S) /\ e \in Seq(S)
      BY <1>1, <2>4
    <3> HIDE DEF fs, fu, e
    <3>2. (fs \o fu) \o e = fs \o (fu \o e)
      BY <3>1, ConcatAssociative
    <3> QED
      BY <3>2 DEF fs, fu, e
  <2>7. f(s \o Append(u, x)) = f(s) \o f(Append(u, x))
    BY <2>2, <2>3, <2>4, <2>5, <2>6
  <2> QED
    BY <2>1, <2>7
<1>5. t \in P
  <2> HIDE DEF P
  <2>1. Grows(P, X)
    BY <1>3, <1>4 DEF Grows
  <2> QED
    BY <2>1, GrowInduction
<1> QED
  BY <1>5

(* The elements of two sequences, one behind the other.                      *)
LEMMA ConcatElements ==
    ASSUME NEW S, NEW s \in Seq(S), NEW t \in Seq(S)
    PROVE  /\ s \o t \in Seq(S) /\ Len(s \o t) = Len(s) + Len(t)
           /\ \A i \in 1 .. Len(s) : (s \o t)[i] = s[i]
           /\ \A i \in 1 .. Len(t) : (s \o t)[Len(s) + i] = t[i]
OBVIOUS

(* Two elements more.                                                        *)
LEMMA ConcatPair ==
    ASSUME NEW S, NEW f \in Seq(S), NEW e \in Seq(S), Len(e) = 2
    PROVE  /\ Len(f \o e) = Len(f) + 2
           /\ (f \o e)[Len(f) + 1] = e[1] /\ (f \o e)[Len(f) + 2] = e[2]
           /\ \A k \in 1 .. Len(f) : (f \o e)[k] = f[k]
<1>1. Len(f) \in Nat
  OBVIOUS
<1>2. /\ Len(f \o e) = Len(f) + Len(e)
      /\ \A k \in 1 .. Len(f) : (f \o e)[k] = f[k]
      /\ \A i \in 1 .. Len(e) : (f \o e)[Len(f) + i] = e[i]
  BY ConcatElements
<1>5. 1 \in 1 .. Len(e) /\ 2 \in 1 .. Len(e)
  OBVIOUS
<1> QED
  BY <1>1, <1>2, <1>5

(* A sequence of pairs, one behind the other.                                *)
Pairs(w) == \A i \in 1 .. Len(w) : Len(w[i]) = 2

(* A sequence of pairs laid out: the pair at place i fills the places 2 i -  *)
(* 1 and 2 i.                                                                *)
LEMMA PairsFlatten ==
    ASSUME NEW S, NEW w \in Seq(Seq(S)), Pairs(w)
    PROVE  /\ FlattenSeq(w) \in Seq(S) /\ Len(FlattenSeq(w)) = 2 * Len(w)
           /\ \A i \in 1 .. Len(w) : /\ FlattenSeq(w)[2 * i - 1] = w[i][1]
                                     /\ FlattenSeq(w)[2 * i] = w[i][2]
<1> DEFINE Good(u) == /\ Len(FlattenSeq(u)) = 2 * Len(u)
                      /\ \A i \in 1 .. Len(u) : /\ FlattenSeq(u)[2 * i - 1] = u[i][1]
                                                /\ FlattenSeq(u)[2 * i] = u[i][2]
           P == {u \in Seq(Seq(S)) : Pairs(u) => Good(u)}
<1>1. <<>> \in P
  <2>1. FlattenSeq(<<>>) = <<>>
    BY DEF FlattenSeq
  <2> QED
    BY <2>1
<1>2. ASSUME NEW u \in Seq(Seq(S)), NEW e \in Seq(S), u \in P
      PROVE  Append(u, e) \in P
  <2> DEFINE a == Append(u, e)
             f == FlattenSeq(u)
             g == FlattenSeq(a)
  <2>1. a \in Seq(Seq(S)) /\ Len(a) = Len(u) + 1 /\ a[Len(u) + 1] = e /\ Len(u) \in Nat
    OBVIOUS
  <2>2. \A i \in 1 .. Len(u) : a[i] = u[i]
    OBVIOUS
  <2> SUFFICES ASSUME Pairs(a)
               PROVE  Good(a)
    BY <2>1
  <2>3. Pairs(u) /\ Len(e) = 2
    <3> HIDE DEF a
    <3>1. \A i \in 1 .. Len(u) + 1 : Len(a[i]) = 2
      BY <2>1 DEF Pairs
    <3>2. Len(u) + 1 \in 1 .. Len(u) + 1 /\ \A i \in 1 .. Len(u) : i \in 1 .. Len(u) + 1
      BY <2>1
    <3> QED
      BY <2>1, <2>2, <3>1, <3>2 DEF Pairs
  <2>4. Good(u)
    BY <1>2, <2>3
  <2>5. g = f \o e /\ f \in Seq(S)
    BY FlattenAppend, FlattenTyped
  <2>6. Len(f) = 2 * Len(u)
    BY <2>4
  <2>7. ASSUME NEW i \in 1 .. Len(u)
        PROVE  f[2 * i - 1] = u[i][1] /\ f[2 * i] = u[i][2]
    BY <2>4
  <2> HIDE DEF f, g, a, Good
  <2>8. Len(g) = 2 * Len(a)
    <3>1. f \in Seq(S) /\ e \in Seq(S) /\ Len(e) = 2
      BY <2>3, <2>5
    <3>2. Len(f \o e) = Len(f) + 2
      BY <3>1, ConcatPair
    <3> QED
      BY <2>1, <2>5, <2>6, <3>2
  <2>9. ASSUME NEW i \in 1 .. Len(a)
        PROVE  g[2 * i - 1] = a[i][1] /\ g[2 * i] = a[i][2]
    <3>1. CASE i = Len(u) + 1
      <4>1. 2 * i - 1 = Len(f) + 1 /\ 2 * i = Len(f) + 2
        BY <2>1, <2>6, <3>1
      <4>2. g[Len(f) + 1] = e[1] /\ g[Len(f) + 2] = e[2]
        <5>1. f \in Seq(S) /\ e \in Seq(S) /\ Len(e) = 2
          BY <2>3, <2>5
        <5>2. (f \o e)[Len(f) + 1] = e[1] /\ (f \o e)[Len(f) + 2] = e[2]
          BY <5>1, ConcatPair
        <5> QED
          BY <2>5, <5>2
      <4> QED
        BY <2>1, <3>1, <4>1, <4>2
    <3>2. CASE i # Len(u) + 1
      <4>1. i \in 1 .. Len(u)
        BY <2>1, <3>2
      <4>2. 2 * i - 1 \in 1 .. Len(f) /\ 2 * i \in 1 .. Len(f)
        BY <2>1, <2>6, <4>1
      <4>3. \A k \in 1 .. Len(f) : g[k] = f[k]
        BY <2>3, <2>5
      <4> QED
        BY <2>2, <2>7, <4>1, <4>2, <4>3
    <3> QED
      BY <3>1, <3>2
  <2> QED
    BY <2>8, <2>9 DEF Good, g
<1>3. w \in P
  <2> HIDE DEF P
  <2>1. Grows(P, Seq(S))
    BY <1>1, <1>2 DEF Grows
  <2> QED
    BY <2>1, GrowInduction
<1> QED
  BY <1>3, FlattenTyped

-----------------------------------------------------------------------------
(* UTF-16.                                                                   *)

(* A sequence over a set is one over a larger set.                           *)
LEMMA SeqSubset ==
    ASSUME NEW S, NEW T, S \subseteq T, NEW s \in Seq(S)
    PROVE  s \in Seq(T) /\ Len(s) \in Nat
OBVIOUS

(* A unit is read back from its two bytes.                                   *)
LEMMA UnitBack ==
    ASSUME NEW u \in Unit, NEW big \in BOOLEAN
    PROVE  /\ UnitBytes(u, big) \in Seq(Nat) /\ Len(UnitBytes(u, big)) = 2
           /\ IF big THEN 256 * UnitBytes(u, big)[1] + UnitBytes(u, big)[2] = u
                     ELSE 256 * UnitBytes(u, big)[2] + UnitBytes(u, big)[1] = u
<1>1. u \in Nat
  BY DEF Unit
<1> DEFINE x == u \div 256
           y == u % 256
<1>2. x \in Nat /\ y \in Nat /\ 256 * x + y = u
  BY <1>1, SMT
<1>3. UnitBytes(u, big) = IF big THEN <<x, y>> ELSE <<y, x>>
  BY Zenon DEF UnitBytes
<1> HIDE DEF x, y
<1> QED
  BY <1>2, <1>3

(* The byte that is missing of the last unit is zero.                        *)
ByteOr0(bytes, j) == IF j <= Len(bytes) THEN bytes[j] ELSE 0

(* Units are read back from their bytes, and one byte more is a unit.        *)
LEMMA UnitsBack ==
    ASSUME NEW u \in Seq(Unit), NEW big \in BOOLEAN, NEW e \in Seq(0 .. 255),
           Len(e) = 0 \/ (Len(e) = 1 /\ ~big)
    PROVE  /\ UnitsOf(FlattenSeq(Via(UnitTable(big), u)) \o e, big) = u \o e
           /\ Len(FlattenSeq(Via(UnitTable(big), u)) \o e) = 2 * Len(u) + Len(e)
<1> DEFINE w == Via(UnitTable(big), u)
           f == FlattenSeq(w)
           b == f \o e
           n == Len(u)
           m == n + Len(e)
           c == u \o e
           B == 0 .. 255
<1>1. IsMap(UnitTable(big), Unit, Seq(Nat))
  BY UnitBack DEF UnitTable, IsMap
<1>2. w \in Seq(Seq(Nat)) /\ Len(w) = n
  BY <1>1, ViaTyped
<1>3. \A i \in 1 .. n : w[i] = UnitBytes(u[i], big)
  BY DEF Via, UnitTable
<1>4. \A i \in 1 .. n : u[i] \in Unit
  OBVIOUS
<1> HIDE DEF w
<1>5. Pairs(w)
  <2>1. \A v \in Unit : Len(UnitBytes(v, big)) = 2
    BY UnitBack
  <2> QED
    BY <1>2, <1>3, <1>4, <2>1 DEF Pairs
<1>6. /\ f \in Seq(Nat) /\ Len(f) = 2 * n
      /\ \A i \in 1 .. n : f[2 * i - 1] = w[i][1] /\ f[2 * i] = w[i][2]
  BY <1>2, <1>5, PairsFlatten
<1>7. e \in Seq(Nat) /\ u \in Seq(Nat) /\ n \in Nat /\ Len(e) \in Nat
  <2>1. e \in Seq(B) /\ B \subseteq Nat /\ Unit \subseteq Nat
    BY DEF Unit
  <2> HIDE DEF B
  <2> QED
    BY <2>1, SeqSubset
<1> HIDE DEF f
<1>8. /\ Len(b) = 2 * n + Len(e)
      /\ \A i \in 1 .. 2 * n : b[i] = f[i]
      /\ \A i \in 1 .. Len(e) : b[2 * n + i] = e[i]
  <2>1. f \in Seq(Nat) /\ e \in Seq(Nat)
    BY <1>6, <1>7
  <2>2. /\ Len(b) = Len(f) + Len(e)
        /\ \A i \in 1 .. Len(f) : b[i] = f[i]
        /\ \A i \in 1 .. Len(e) : b[Len(f) + i] = e[i]
    BY <2>1, ConcatElements
  <2>3. Len(f) = 2 * n
    BY <1>6
  <2> HIDE DEF b, n
  <2> QED
    BY <2>2, <2>3, Zenon
<1>9. /\ c \in Seq(Nat) /\ Len(c) = m
      /\ \A i \in 1 .. n : c[i] = u[i]
      /\ \A i \in 1 .. Len(e) : c[n + i] = e[i]
  BY <1>7, ConcatElements
<1> HIDE DEF b, c
<1>10. (Len(b) + 1) \div 2 = m
  BY <1>7, <1>8, SMTT(30)
<1> DEFINE Read(i) == IF big THEN 256 * ByteOr0(b, 2 * i - 1) + ByteOr0(b, 2 * i)
                             ELSE 256 * ByteOr0(b, 2 * i) + ByteOr0(b, 2 * i - 1)
<1>11. UnitsOf(b, big) = [i \in 1 .. m |-> Read(i)]
  BY <1>10, Zenon DEF UnitsOf, ByteOr0
<1>12. ASSUME NEW i \in 1 .. m
       PROVE  Read(i) = c[i]
  <2>1. CASE i \in 1 .. n
    <3>1. /\ 2 * i - 1 \in 1 .. 2 * n /\ 2 * i \in 1 .. 2 * n
          /\ 2 * i - 1 <= Len(b) /\ 2 * i <= Len(b)
      BY <1>7, <1>8, <2>1
    <3>2. ByteOr0(b, 2 * i - 1) = UnitBytes(u[i], big)[1]
          /\ ByteOr0(b, 2 * i) = UnitBytes(u[i], big)[2]
      BY <1>3, <1>6, <1>8, <2>1, <3>1, ZenonT(30) DEF ByteOr0
    <3>3. u[i] \in Unit /\ c[i] = u[i]
      BY <1>4, <1>9, <2>1
    <3> DEFINE v == UnitBytes(u[i], big)
    <3>4. IF big THEN 256 * v[1] + v[2] = u[i] ELSE 256 * v[2] + v[1] = u[i]
      BY <3>3, UnitBack
    <3>5. Read(i) = IF big THEN 256 * v[1] + v[2] ELSE 256 * v[2] + v[1]
      BY <3>2
    <3> HIDE DEF v, Read
    <3> QED
      BY <3>3, <3>4, <3>5
  <2>2. CASE i \notin 1 .. n
    <3>1. i = n + 1 /\ Len(e) = 1 /\ ~big
      <4>1. Len(e) = 0 \/ (Len(e) = 1 /\ ~big)
        OBVIOUS
      <4>2. Len(e) # 0
        BY <1>7, <2>2
      <4>3. Len(e) = 1 /\ ~big
        BY <4>1, <4>2
      <4>4. i \in Nat /\ 1 <= i /\ i <= n + 1
        BY <1>7, <4>3
      <4> QED
        BY <1>7, <2>2, <4>3, <4>4
    <3>2. 2 * i - 1 = 2 * n + 1 /\ Len(b) = 2 * n + 1 /\ ~(2 * i <= Len(b))
      BY <1>7, <1>8, <3>1
    <3>3. ByteOr0(b, 2 * i) = 0 /\ ByteOr0(b, 2 * i - 1) = e[1]
      BY <1>7, <1>8, <3>1, <3>2 DEF ByteOr0
    <3>4. c[i] = e[1] /\ e[1] \in Nat
      BY <1>7, <1>9, <3>1
    <3> QED
      BY <3>1, <3>3, <3>4
  <2> QED
    BY <2>1, <2>2
<1> HIDE DEF m, Read
<1>13. c = [i \in 1 .. m |-> c[i]]
  BY <1>9
<1>14. UnitsOf(b, big) = c
  BY <1>11, <1>12, <1>13
<1> QED
  BY <1>8, <1>14 DEF b, c, f, w

(* What one unit of many stands for.                                         *)
PairChar(h, l) == 65536 + 1024 * (h - 55296) + (l - 56320)
UnitText(u, i) ==
    CASE PairAt(u, i) -> <<PairChar(u[i], u[i + 1])>>
      [] PairAt(u, i - 1) -> <<>>
      [] Alone(u, i) -> <<Replacement>>
      [] OTHER -> <<u[i]>>
UnitTexts(u) == [i \in DOMAIN u |-> UnitText(u, i)]

(* Units that do not end in the first half of a pair.                        *)
Closed(u) == u # <<>> => u[Len(u)] \notin HighSurrogate

(* No unit is both halves of a pair.                                         *)
LEMMA HalvesApart ==
    ASSUME NEW x \in Nat, x \in HighSurrogate
    PROVE  x \notin LowSurrogate
BY SMT DEF HighSurrogate, LowSurrogate

(* More units behind such units do not change what these stand for.          *)
LEMMA SamePieces ==
    ASSUME NEW u \in Seq(Unit), Closed(u), NEW t \in Seq(Unit), NEW i \in 1 .. Len(u)
    PROVE  UnitText(u \o t, i) = UnitText(u, i)
<1> DEFINE a == u \o t
           n == Len(u)
<1>1. /\ Len(a) = n + Len(t) /\ \A k \in 1 .. n : a[k] = u[k]
      /\ n \in Nat /\ Len(t) \in Nat
  BY ConcatElements
<1>2. u[n] \notin HighSurrogate
  BY EmptySeq DEF Closed
<1> HIDE DEF a
<1>3. ASSUME NEW k \in {i - 1, i}
      PROVE  PairAt(a, k) <=> PairAt(u, k)
  <2>1. CASE k \in 1 .. n - 1
    BY <1>1, <2>1 DEF PairAt
  <2>2. CASE k = n
    <3>1. ~PairAt(u, k)
      BY <1>1, <2>2 DEF PairAt
    <3>2. ~PairAt(a, k)
      BY <1>1, <1>2, <2>2 DEF PairAt
    <3> QED
      BY <3>1, <3>2
  <2>3. CASE k = 0
    BY <2>3 DEF PairAt
  <2> QED
    BY <1>1, <2>1, <2>2, <2>3
<1>4. a[i] = u[i]
  BY <1>1
<1>5. PairAt(u, i) => a[i + 1] = u[i + 1]
  BY <1>1 DEF PairAt
<1>6. Alone(a, i) <=> Alone(u, i)
  BY <1>3, <1>4 DEF Alone
<1> HIDE DEF n
<1>7. (PairAt(a, i) <=> PairAt(u, i)) /\ (PairAt(a, i - 1) <=> PairAt(u, i - 1))
  BY <1>3
<1>8. PairAt(u, i) => PairChar(a[i], a[i + 1]) = PairChar(u[i], u[i + 1])
  BY <1>4, <1>5
<1> DEFINE pa == PairChar(a[i], a[i + 1])
           pu == PairChar(u[i], u[i + 1])
<1>9. UnitText(a, i) = CASE PairAt(a, i) -> <<pa>> [] PairAt(a, i - 1) -> <<>>
                         [] Alone(a, i) -> <<Replacement>> [] OTHER -> <<a[i]>>
  BY DEF UnitText
<1>10. UnitText(u, i) = CASE PairAt(u, i) -> <<pu>> [] PairAt(u, i - 1) -> <<>>
                          [] Alone(u, i) -> <<Replacement>> [] OTHER -> <<u[i]>>
  BY DEF UnitText
<1> HIDE DEF pa, pu
<1>11. PairAt(u, i) => ~PairAt(u, i - 1)
  <2>1. u[i] \in Nat /\ (i - 1) + 1 = i
    <3>1. u[i] \in Unit
      OBVIOUS
    <3> QED
      BY <3>1 DEF Unit
  <2> QED
    BY <2>1, HalvesApart DEF PairAt
<1>12. Alone(u, i) => ~PairAt(u, i) /\ ~PairAt(u, i - 1)
  BY DEF Alone
<1>13. PairAt(u, i) => pa = pu
  BY <1>8 DEF pa, pu
<1>14. UnitText(a, i) = UnitText(u, i)
  <2>1. CASE PairAt(u, i)
    BY <1>6, <1>7, <1>9, <1>10, <1>11, <1>12, <1>13, <2>1
  <2>2. CASE PairAt(u, i - 1)
    BY <1>6, <1>7, <1>9, <1>10, <1>11, <1>12, <2>2
  <2>3. CASE Alone(u, i)
    BY <1>6, <1>7, <1>9, <1>10, <1>12, <2>3
  <2>4. CASE ~PairAt(u, i) /\ ~PairAt(u, i - 1) /\ ~Alone(u, i)
    BY <1>4, <1>6, <1>7, <1>9, <1>10, <2>4
  <2> QED
    BY <2>1, <2>2, <2>3, <2>4
<1> QED
  BY <1>14 DEF a

(* A character is one unit that is no half of a pair, or a pair.             *)
IsPair(h, l) == h \in Unit /\ h \in HighSurrogate /\ l \in Unit /\ l \in LowSurrogate

(* A character is one unit or the two halves of a pair that stand for it.    *)
LEMMA CharUnits ==
    ASSUME NEW c \in Char
    PROVE  \/ Utf16Units(c) = <<c>> /\ c \in Unit
           \/ \E h, l : Utf16Units(c) = <<h, l>> /\ IsPair(h, l) /\ PairChar(h, l) = c
<1>1. c \in Nat /\ c <= 1114111
  BY CharBound
<1>2. CASE c < 65536
  <2>1. c \in Unit
    BY <1>1, <1>2, SMT DEF Unit
  <2>2. Utf16Units(c) = <<c>>
    BY <1>2, SMT DEF Utf16Units
  <2> QED
    BY <2>1, <2>2
<1>3. CASE ~(c < 65536)
  <2> DEFINE q == (c - 65536) \div 1024
             r == (c - 65536) % 1024
             a == 55296 + q
             b == 56320 + r
  <2>1. Utf16Units(c) = <<a, b>>
    BY <1>3, SMT DEF Utf16Units
  <2>2. q \in Nat /\ q < 1024 /\ r \in Nat /\ r < 1024
    <3> DEFINE x == c - 65536
    <3>1. x \in Nat /\ x < 1024 * 1024
      BY <1>1, <1>3, SMT
    <3> HIDE DEF x
    <3>2. x \div 1024 \in Nat /\ x \div 1024 < 1024 /\ x % 1024 \in Nat /\ x % 1024 < 1024
      BY <3>1, SMT
    <3> QED
      BY <3>2, SMT DEF x
  <2>6. 65536 + (1024 * q + r) = c
    <3>1. \A x \in Int : 1024 * (x \div 1024) + (x % 1024) = x
      BY SMT
    <3>2. c - 65536 \in Int
      BY <1>1, SMT
    <3>3. 1024 * q + r = c - 65536
      BY <3>1, <3>2
    <3> HIDE DEF q, r
    <3>4. 1024 * q + r \in Int
      BY <2>2, SMT
    <3> QED
      BY <1>1, <3>3, <3>4, SMT
  <2> HIDE DEF q, r
  <2>3. a \in Unit /\ b \in Unit
    BY <2>2, SMT DEF Unit
  <2>4. a \in HighSurrogate /\ b \in LowSurrogate
    BY <2>2, SMT DEF HighSurrogate, LowSurrogate
  <2>5. PairChar(a, b) = c
    BY <2>2, <2>6, SMT DEF PairChar
  <2> HIDE DEF a, b
  <2> QED
    BY <2>1, <2>3, <2>4, <2>5, SMTT(30) DEF IsPair
<1> QED
  BY <1>2, <1>3

(* What units stand for is numbers.                                          *)
LEMMA UnitTextsTyped ==
    ASSUME NEW u \in Seq(Unit)
    PROVE  /\ UnitTexts(u) \in Seq(Seq(Int)) /\ Len(UnitTexts(u)) = Len(u)
           /\ \A i \in 1 .. Len(u) : UnitTexts(u)[i] = UnitText(u, i) /\ u[i] \in Int
           /\ Utf16Text(u) = FlattenSeq(UnitTexts(u)) /\ Utf16Text(u) \in Seq(Int)
<1>1. DOMAIN u = 1 .. Len(u) /\ Len(u) \in Nat
  OBVIOUS
<1>2. \A i \in 1 .. Len(u) : u[i] \in Int
  <2>1. Unit \subseteq Int
    BY DEF Unit
  <2>2. \A i \in 1 .. Len(u) : u[i] \in Unit
    OBVIOUS
  <2> QED
    BY <2>1, <2>2
<1>3. ASSUME NEW i \in 1 .. Len(u)
      PROVE  UnitText(u, i) \in Seq(Int)
  <2>1. PairAt(u, i) => PairChar(u[i], u[i + 1]) \in Int
    <3>1. PairAt(u, i) => u[i] \in Int /\ u[i + 1] \in Int
      BY <1>1, <1>2 DEF PairAt
    <3> QED
      BY <3>1, SMT DEF PairChar
  <2> DEFINE p == PairChar(u[i], u[i + 1])
  <2>2. UnitText(u, i) = CASE PairAt(u, i) -> <<p>> [] PairAt(u, i - 1) -> <<>>
                           [] Alone(u, i) -> <<Replacement>> [] OTHER -> <<u[i]>>
    BY DEF UnitText
  <2>3. Replacement \in Int /\ u[i] \in Int
    BY <1>2, SMT DEF Replacement
  <2> HIDE DEF p
  <2>4. (PairAt(u, i) => p \in Int)
    BY <2>1 DEF p
  <2> QED
    <3>1. <<p>> \in Seq(Int) \/ ~PairAt(u, i)
      BY <2>4
    <3>2. <<>> \in Seq(Int) /\ <<Replacement>> \in Seq(Int) /\ <<u[i]>> \in Seq(Int)
      BY <2>3
    <3> QED
      BY <2>2, <3>1, <3>2
<1>4. UnitTexts(u) = [i \in 1 .. Len(u) |-> UnitText(u, i)]
  BY <1>1 DEF UnitTexts
<1>5. UnitTexts(u) \in [1 .. Len(u) -> Seq(Int)]
  BY <1>3, <1>4
<1>6. UnitTexts(u) \in Seq(Seq(Int)) /\ Len(UnitTexts(u)) = Len(u)
  BY <1>1, <1>5, FunctionIsSeq
<1>7. Utf16Text(u) = FlattenSeq(UnitTexts(u))
  BY DEF Utf16Text, UnitTexts, UnitText, PairChar
<1> QED
  BY <1>2, <1>4, <1>6, <1>7, FlattenTyped

(* A unit that is no half of a pair, behind units that are closed.           *)
LEMMA SingleUnit ==
    ASSUME NEW u \in Seq(Unit), Closed(u), NEW c \in Unit, c \in Char
    PROVE  Utf16Text(u \o <<c>>) = Utf16Text(u) \o <<c>> /\ Closed(u \o <<c>>)
<1> DEFINE t == <<c>>
           a == u \o t
           n == Len(u)
           p == UnitTexts(u)
           q == UnitTexts(a)
           r == Append(p, <<c>>)
<1>1. t \in Seq(Unit) /\ Len(t) = 1 /\ t[1] = c
  OBVIOUS
<1> HIDE DEF t
<1>2. /\ a \in Seq(Unit) /\ Len(a) = n + 1 /\ a[n + 1] = c /\ n \in Nat
      /\ \A i \in 1 .. n : a[i] = u[i]
  BY <1>1, ConcatElements
<1>3. ASSUME NEW i \in 1 .. n
      PROVE  UnitText(a, i) = UnitText(u, i)
  BY <1>1, SamePieces
<1> HIDE DEF a
<1>4. c \notin HighSurrogate /\ c \notin LowSurrogate
  BY DEF Char, Half
<1>5. Closed(a)
  BY <1>2, <1>4 DEF Closed
<1>6. UnitText(a, n + 1) = <<c>>
  <2>1. ~PairAt(a, n + 1) /\ (n + 1) - 1 = n
    BY <1>2 DEF PairAt
  <2>2. ~PairAt(a, n)
    BY <1>2, <1>4 DEF PairAt
  <2>3. ~Alone(a, n + 1)
    BY <1>2, <1>4 DEF Alone
  <2> DEFINE x == PairChar(a[n + 1], a[(n + 1) + 1])
  <2>4. UnitText(a, n + 1) = CASE PairAt(a, n + 1) -> <<x>> [] PairAt(a, (n + 1) - 1) -> <<>>
                               [] Alone(a, n + 1) -> <<Replacement>> [] OTHER -> <<a[n + 1]>>
    BY DEF UnitText
  <2> HIDE DEF x
  <2> QED
    BY <1>2, <2>1, <2>2, <2>3, <2>4
<1>7. /\ p \in Seq(Seq(Int)) /\ Len(p) = n /\ \A i \in 1 .. n : p[i] = UnitText(u, i)
      /\ Utf16Text(u) = FlattenSeq(p)
  BY UnitTextsTyped
<1>8. /\ q \in Seq(Seq(Int)) /\ Len(q) = n + 1 /\ \A i \in 1 .. n + 1 : q[i] = UnitText(a, i)
      /\ Utf16Text(a) = FlattenSeq(q)
  BY <1>2, UnitTextsTyped
<1>9. <<c>> \in Seq(Int)
  BY DEF Unit
<1> DEFINE e == <<c>>
<1> HIDE DEF p, q, e
<1>10. r \in Seq(Seq(Int)) /\ Len(r) = n + 1 /\ r[n + 1] = e /\ \A i \in 1 .. n : r[i] = p[i]
  BY <1>2, <1>7, <1>9 DEF e
<1>11. q = r
  <2>1. ASSUME NEW i \in 1 .. n + 1
        PROVE  q[i] = r[i]
    <3>1. CASE i = n + 1
      BY <1>6, <1>8, <1>10, <3>1 DEF e
    <3>2. CASE i # n + 1
      <4>1. i \in 1 .. n
        BY <1>2, <3>2
      <4> QED
        BY <1>3, <1>7, <1>8, <1>10, <4>1
    <3> QED
      BY <3>1, <3>2
  <2> HIDE DEF r
  <2> QED
    BY <1>8, <1>10, <2>1, SeqEqual
<1>12. FlattenSeq(r) = FlattenSeq(p) \o e
  BY <1>7, <1>9, FlattenAppend DEF e
<1> QED
  BY <1>5, <1>7, <1>8, <1>11, <1>12 DEF a, t, e

(* A pair behind units that are closed.                                      *)
LEMMA PairOfUnits ==
    ASSUME NEW u \in Seq(Unit), Closed(u), NEW h, NEW l, IsPair(h, l)
    PROVE  /\ Utf16Text(u \o <<h, l>>) = Utf16Text(u) \o <<PairChar(h, l)>>
           /\ Closed(u \o <<h, l>>)
<1> DEFINE t == <<h, l>>
           a == u \o t
           n == Len(u)
           c == PairChar(h, l)
           e == <<c>>
           p == UnitTexts(u)
           q == UnitTexts(a)
           r == Append(p, e)
           s == Append(r, <<>>)
<1>1. t \in Seq(Unit) /\ Len(t) = 2 /\ t[1] = h /\ t[2] = l
  BY DEF IsPair
<1> HIDE DEF t
<1>2. /\ a \in Seq(Unit) /\ Len(a) = n + 2 /\ n \in Nat
      /\ a[n + 1] = h /\ a[n + 2] = l
      /\ \A i \in 1 .. n : a[i] = u[i]
  <2>1. a \in Seq(Unit) /\ n \in Nat
    BY <1>1, ConcatElements
  <2> QED
    BY <1>1, <2>1, ConcatPair
<1>3. ASSUME NEW i \in 1 .. n
      PROVE  UnitText(a, i) = UnitText(u, i)
  BY <1>1, SamePieces
<1> HIDE DEF a, c
<1>4. h \in HighSurrogate /\ l \in LowSurrogate /\ l \notin HighSurrogate
  <2>1. l \in Nat /\ h \in HighSurrogate /\ l \in LowSurrogate
    BY DEF IsPair, Unit
  <2> QED
    BY <2>1, HalvesApart
<1>5. Closed(a)
  BY <1>2, <1>4 DEF Closed
<1>6. PairAt(a, n + 1) /\ (n + 1) + 1 = n + 2 /\ (n + 2) - 1 = n + 1 /\ (n + 1) - 1 = n
  BY <1>2, <1>4 DEF PairAt
<1>7. UnitText(a, n + 1) = e
  <2>1. ~PairAt(a, n)
    <3>1. h \notin LowSurrogate
      BY <1>4, HalvesApart DEF IsPair, Unit
    <3> QED
      BY <1>2, <3>1 DEF PairAt
  <2>2. ~Alone(a, n + 1)
    BY <1>6 DEF Alone
  <2> DEFINE x == PairChar(a[n + 1], a[(n + 1) + 1])
  <2>3. UnitText(a, n + 1) = CASE PairAt(a, n + 1) -> <<x>> [] PairAt(a, (n + 1) - 1) -> <<>>
                               [] Alone(a, n + 1) -> <<Replacement>> [] OTHER -> <<a[n + 1]>>
    BY DEF UnitText
  <2>4. x = c
    BY <1>2, <1>6 DEF c
  <2> HIDE DEF x
  <2> QED
    BY <1>6, <2>1, <2>2, <2>3, <2>4
<1>8. UnitText(a, n + 2) = <<>>
  <2>1. ~PairAt(a, n + 2)
    BY <1>2 DEF PairAt
  <2>2. ~Alone(a, n + 2)
    BY <1>6 DEF Alone
  <2> DEFINE x == PairChar(a[n + 2], a[(n + 2) + 1])
  <2>3. UnitText(a, n + 2) = CASE PairAt(a, n + 2) -> <<x>> [] PairAt(a, (n + 2) - 1) -> <<>>
                               [] Alone(a, n + 2) -> <<Replacement>> [] OTHER -> <<a[n + 2]>>
    BY DEF UnitText
  <2> HIDE DEF x
  <2> QED
    BY <1>6, <2>1, <2>2, <2>3
<1>9. /\ p \in Seq(Seq(Int)) /\ Len(p) = n /\ \A i \in 1 .. n : p[i] = UnitText(u, i)
      /\ Utf16Text(u) = FlattenSeq(p)
  BY UnitTextsTyped
<1>10. /\ q \in Seq(Seq(Int)) /\ Len(q) = n + 2 /\ \A i \in 1 .. n + 2 : q[i] = UnitText(a, i)
       /\ Utf16Text(a) = FlattenSeq(q)
  BY <1>2, UnitTextsTyped
<1>11. c \in Int
  BY SMT DEF IsPair, Unit, PairChar, c
<1>12. e \in Seq(Int) /\ <<>> \in Seq(Int)
  BY <1>11
<1> HIDE DEF p, q, e
<1>13. r \in Seq(Seq(Int)) /\ Len(r) = n + 1 /\ r[n + 1] = e /\ \A i \in 1 .. n : r[i] = p[i]
  BY <1>2, <1>9, <1>12
<1> HIDE DEF r
<1>14. /\ s \in Seq(Seq(Int)) /\ Len(s) = n + 2 /\ s[n + 2] = <<>>
       /\ \A i \in 1 .. n + 1 : s[i] = r[i]
  BY <1>2, <1>12, <1>13
<1> HIDE DEF s
<1>15. q = s
  <2>1. ASSUME NEW i \in 1 .. n + 2
        PROVE  q[i] = s[i]
    <3>1. CASE i = n + 2
      BY <1>8, <1>10, <1>14, <3>1
    <3>2. CASE i = n + 1
      <4>1. n + 1 \in 1 .. n + 2 /\ n + 1 \in 1 .. n + 1
        BY <1>2
      <4>2. q[n + 1] = e /\ s[n + 1] = e
        BY <1>7, <1>10, <1>13, <1>14, <4>1
      <4> QED
        BY <3>2, <4>2
    <3>3. CASE i # n + 1 /\ i # n + 2
      <4>1. i \in 1 .. n /\ i \in 1 .. n + 1
        BY <1>2, <3>3
      <4>2. q[i] = UnitText(u, i)
        BY <1>3, <1>10, <4>1
      <4>3. s[i] = p[i]
        BY <1>13, <1>14, <4>1
      <4> QED
        BY <1>9, <4>1, <4>2, <4>3
    <3> QED
      BY <3>1, <3>2, <3>3
  <2> QED
    BY <1>10, <1>14, <2>1, SeqEqual
<1>16. FlattenSeq(r) = FlattenSeq(p) \o e /\ FlattenSeq(r) \in Seq(Int)
  <2>1. FlattenSeq(r) = FlattenSeq(p) \o e
    BY <1>9, <1>12, FlattenAppend DEF r
  <2> QED
    BY <1>13, <2>1, FlattenTyped
<1>17. FlattenSeq(s) = FlattenSeq(r)
  <2>1. FlattenSeq(s) = FlattenSeq(r) \o <<>>
    BY <1>12, <1>13, FlattenAppend DEF s
  <2> DEFINE x == FlattenSeq(r)
  <2>2. x \in Seq(Int)
    BY <1>16
  <2> HIDE DEF x
  <2>3. x \o <<>> = x
    BY <2>2, ConcatEmptySeq
  <2> QED
    BY <2>1, <2>3 DEF x
<1> QED
  BY <1>5, <1>9, <1>10, <1>15, <1>16, <1>17 DEF a, t, e, c

(* A text is read back from its units, which are closed.                     *)
LEMMA Utf16Back ==
    ASSUME NEW text \in Texts
    PROVE  LET u == FlattenSeq(Via(Utf16Table, text))
           IN  u \in Seq(Unit) /\ Closed(u) /\ Utf16Text(u) = text
<1> DEFINE f(t) == FlattenSeq(Via(Utf16Table, t))
           P == {t \in Seq(Char) : Closed(f(t)) /\ Utf16Text(f(t)) = t}
<1>1. IsMap(Utf16Table, Char, Seq(Unit)) /\ text \in Seq(Char)
  BY Utf16UnitsTyped DEF Texts, Utf16Table, IsMap
<1>2. <<>> \in P
  <2>1. Via(Utf16Table, <<>>) = <<>>
    BY DEF Via
  <2>2. FlattenSeq(<<>>) = <<>>
    BY DEF FlattenSeq
  <2>3. UnitTexts(<<>>) = <<>>
    BY DEF UnitTexts
  <2>4. <<>> \in Seq(Unit)
    OBVIOUS
  <2>5. Utf16Text(<<>>) = <<>>
    BY <2>2, <2>3, <2>4, UnitTextsTyped
  <2>6. Closed(<<>>)
    BY DEF Closed
  <2> QED
    BY <2>1, <2>2, <2>5, <2>6
<1>3. ASSUME NEW t \in Seq(Char), NEW c \in Char, t \in P
      PROVE  Append(t, c) \in P
  <2> DEFINE u == f(t)
             v == Utf16Units(c)
  <2>1. u \in Seq(Unit) /\ f(Append(t, c)) = u \o v
    <3>1. u \in Seq(Unit)
      BY <1>1, FlattenVia
    <3>2. f(Append(t, c)) = u \o Utf16Table[c]
      BY <1>1, FlattenViaAppend
    <3>3. Utf16Table[c] = v
      BY DEF Utf16Table
    <3> QED
      BY <3>1, <3>2, <3>3
  <2>2. Closed(u) /\ Utf16Text(u) = t
    BY <1>3
  <2>3. Append(t, c) \in Seq(Char) /\ Append(t, c) = t \o <<c>>
    OBVIOUS
  <2> HIDE DEF u, v, f
  <2>4. Closed(u \o v) /\ Utf16Text(u \o v) = t \o <<c>>
    <3>1. CASE v = <<c>> /\ c \in Unit
      BY <2>1, <2>2, <3>1, SingleUnit
    <3>2. ASSUME NEW h, NEW l, v = <<h, l>>, IsPair(h, l), PairChar(h, l) = c
          PROVE  Closed(u \o v) /\ Utf16Text(u \o v) = t \o <<c>>
      BY <2>1, <2>2, <3>2, PairOfUnits
    <3> QED
      BY <3>1, <3>2, CharUnits DEF v
  <2> QED
    BY <2>1, <2>3, <2>4 DEF f
<1>4. text \in P
  <2> HIDE DEF P
  <2>1. Grows(P, Char)
    BY <1>2, <1>3 DEF Grows
  <2> QED
    BY <1>1, <2>1, GrowInduction
<1>5. f(text) \in Seq(Unit)
  BY <1>1, FlattenVia
<1> QED
  BY <1>4, <1>5

(* A sequence of one element.                                                *)
LEMMA OneElement ==
    ASSUME NEW S, NEW s \in Seq(S), Len(s) = 1
    PROVE  s = <<s[1]>> /\ s[1] \in S
<1> DEFINE x == s[1]
           t == <<x>>
<1>1. x \in S /\ Len(s) \in Nat
  OBVIOUS
<1> HIDE DEF x
<1>2. t \in Seq(S) /\ Len(t) = 1 /\ t[1] = x
  BY <1>1
<1> HIDE DEF t
<1>3. \A i \in 1 .. Len(s) : s[i] = t[i]
  BY <1>2 DEF x
<1>4. s = t
  BY <1>2, <1>3, SeqEqual
<1> QED
  BY <1>1, <1>4 DEF x, t

(* A byte is a character of one unit.                                        *)
LEMMA ByteIsUnit ==
    ASSUME NEW x \in 0 .. 255
    PROVE  x \in Unit /\ x \in Char
<1>1. x \in Unit
  BY SMT DEF Unit
<1> QED
  BY <1>1, SmallChars

(* UTF-16 is read back, and a byte more is a character more.                 *)
LEMMA Utf16RoundTrip ==
    ASSUME NEW text \in Texts, NEW big \in BOOLEAN, NEW e \in Seq(0 .. 255),
           Len(e) = 0 \/ (Len(e) = 1 /\ ~big)
    PROVE  /\ Utf16Text(UnitsOf(EncodeUtf16(text, big) \o e, big)) = text \o e
           /\ Len(EncodeUtf16(text, big) \o e) % 2 = Len(e)
<1> DEFINE u == FlattenSeq(Via(Utf16Table, text))
<1>1. u \in Seq(Unit) /\ Closed(u) /\ Utf16Text(u) = text
  BY Utf16Back
<1>2. EncodeUtf16(text, big) = FlattenSeq(Via(UnitTable(big), u))
  BY Utf16Is
<1> HIDE DEF u
<1>3. /\ UnitsOf(EncodeUtf16(text, big) \o e, big) = u \o e
      /\ Len(EncodeUtf16(text, big) \o e) = 2 * Len(u) + Len(e)
  BY <1>1, <1>2, UnitsBack, ZenonT(30)
<1>4. Len(EncodeUtf16(text, big) \o e) % 2 = Len(e)
  <2>1. Len(u) \in Nat /\ (Len(e) = 0 \/ Len(e) = 1)
    BY <1>1
  <2>2. \A n \in Nat : (2 * n + 0) % 2 = 0 /\ (2 * n + 1) % 2 = 1
    OBVIOUS
  <2> QED
    BY <1>3, <2>1, <2>2
<1>5. Utf16Text(u \o e) = text \o e
  <2>1. CASE Len(e) = 0
    <3>1. e = <<>>
      BY <2>1, EmptySeq
    <3>2. u \o <<>> = u /\ text \o <<>> = text
      <4>1. u \o <<>> = u
        BY <1>1, ConcatEmptySeq
      <4>2. text \in Seq(Char)
        BY DEF Texts
      <4>3. text \o <<>> = text
        BY <4>2, ConcatEmptySeq
      <4> QED
        BY <4>1, <4>3
    <3> QED
      BY <1>1, <3>1, <3>2
  <2>2. CASE Len(e) = 1
    <3> DEFINE B == 0 .. 255
    <3>1. e \in Seq(B) /\ \A x \in B : x \in Unit /\ x \in Char
      BY ByteIsUnit
    <3> HIDE DEF B
    <3>2. e = <<e[1]>> /\ e[1] \in B
      BY <2>2, <3>1, OneElement
    <3> DEFINE x == e[1]
    <3>3. x \in Unit /\ x \in Char /\ e = <<x>>
      BY <3>1, <3>2
    <3> HIDE DEF x
    <3>4. Utf16Text(u \o <<x>>) = Utf16Text(u) \o <<x>>
      BY <1>1, <3>3, SingleUnit
    <3> QED
      BY <1>1, <3>3, <3>4
  <2> QED
    BY <2>1, <2>2
<1> QED
  BY <1>3, <1>4, <1>5

-----------------------------------------------------------------------------
(* decode, by encoding.                                                      *)
Ascii(bytes) == [i \in DOMAIN bytes |-> IF bytes[i] > 127 THEN Question ELSE bytes[i]]

(* What each encoding but UTF-8 reads of bytes.                              *)
LEMMA DecodeIs ==
    ASSUME NEW bytes
    PROVE  /\ /\ DecodeText(bytes, "utf-16le").text = Utf16Text(UnitsOf(bytes, FALSE))
              /\ DecodeText(bytes, "utf-16le").errors = (Len(bytes) % 2 # 0)
           /\ /\ DecodeText(bytes, "utf-16be").text = Utf16Text(UnitsOf(bytes, TRUE))
              /\ DecodeText(bytes, "utf-16be").errors = (Len(bytes) % 2 # 0)
           /\ /\ DecodeText(bytes, "ascii").text = Ascii(bytes)
              /\ DecodeText(bytes, "ascii").errors = (\E i \in DOMAIN bytes : bytes[i] > 127)
           /\ /\ DecodeText(bytes, "latin-1").text = bytes
              /\ DecodeText(bytes, "latin-1").errors = FALSE
           /\ DecodeText(bytes, "utf-8") = DecodeSniffed(bytes)
<1>1. /\ DecodeText(bytes, "utf-16le")
           = [text |-> Utf16Text(UnitsOf(bytes, FALSE)), errors |-> Len(bytes) % 2 # 0]
      /\ DecodeText(bytes, "utf-16be")
           = [text |-> Utf16Text(UnitsOf(bytes, TRUE)), errors |-> Len(bytes) % 2 # 0]
  BY DEF DecodeText
<1>2. DecodeText(bytes, "ascii")
        = [text |-> Ascii(bytes), errors |-> \E i \in DOMAIN bytes : bytes[i] > 127]
  BY DEF DecodeText, Ascii
<1>3. DecodeText(bytes, "latin-1") = [text |-> bytes, errors |-> FALSE]
  BY DEF DecodeText
<1>4. DecodeText(bytes, "utf-8") = DecodeSniffed(bytes)
  BY DEF DecodeText
<1> DEFINE odd == Len(bytes) % 2 # 0
           high == \E i \in DOMAIN bytes : bytes[i] > 127
           le == Utf16Text(UnitsOf(bytes, FALSE))
           be == Utf16Text(UnitsOf(bytes, TRUE))
<1> HIDE DEF odd, high, le, be
<1>5. /\ [text |-> le, errors |-> odd].text = le
      /\ [text |-> le, errors |-> odd].errors = odd
      /\ [text |-> be, errors |-> odd].text = be
      /\ [text |-> be, errors |-> odd].errors = odd
      /\ [text |-> Ascii(bytes), errors |-> high].text = Ascii(bytes)
      /\ [text |-> Ascii(bytes), errors |-> high].errors = high
      /\ [text |-> bytes, errors |-> FALSE].text = bytes
      /\ [text |-> bytes, errors |-> FALSE].errors = FALSE
  OBVIOUS
<1> QED
  BY <1>1, <1>2, <1>3, <1>4, <1>5, Zenon DEF odd, high, le, be

(* A text of bytes goes through ASCII and Latin-1 as it is.                  *)
LEMMA NarrowIsSame ==
    ASSUME NEW text \in Texts, \A i \in DOMAIN text : text[i] < 256
    PROVE  Narrow(text) = text /\ text \in Seq(0 .. 255)
<1>1. text \in Seq(Nat) /\ Len(text) \in Nat /\ DOMAIN text = 1 .. Len(text)
  BY TextIsNumbers
<1>2. Narrow(text) \in Seq(0 .. 255) /\ Len(Narrow(text)) = Len(text)
  BY NarrowTyped
<1>3. \A i \in 1 .. Len(text) : Narrow(text)[i] = text[i]
  BY <1>1 DEF Narrow
<1> DEFINE n == Narrow(text)
           B == 0 .. 255
<1>4. B \subseteq Nat
  OBVIOUS
<1> HIDE DEF n, B
<1>5. n \in Seq(Nat) /\ Len(n) = Len(text)
  <2>1. n \in Seq(B)
    BY <1>2 DEF n, B
  <2> QED
    BY <1>2, <1>4, <2>1, SeqSubset DEF n
<1>6. \A i \in 1 .. Len(text) : n[i] = text[i]
  BY <1>3 DEF n
<1>7. n = text
  BY <1>1, <1>5, <1>6, SeqEqual
<1> QED
  BY <1>2, <1>7 DEF n

(* Elements of two sequences, one behind the other, are elements of either.  *)
LEMMA ConcatEach ==
    ASSUME NEW S, NEW s \in Seq(S), NEW t \in Seq(S), NEW i \in 1 .. Len(s \o t)
    PROVE  /\ (s \o t)[i] \in S
           /\ \/ \E j \in 1 .. Len(s) : (s \o t)[i] = s[j]
              \/ \E j \in 1 .. Len(t) : (s \o t)[i] = t[j]
<1>1. Len(s) \in Nat /\ Len(t) \in Nat
  OBVIOUS
<1>2. /\ s \o t \in Seq(S) /\ Len(s \o t) = Len(s) + Len(t)
      /\ \A j \in 1 .. Len(s) : (s \o t)[j] = s[j]
      /\ \A j \in 1 .. Len(t) : (s \o t)[Len(s) + j] = t[j]
  BY ConcatElements
<1> DEFINE c == s \o t
<1> HIDE DEF c
<1>3. c \in Seq(S) /\ i \in 1 .. Len(c)
  BY <1>2 DEF c
<1>4. c[i] \in S
  BY <1>3
<1>5. CASE i <= Len(s)
  <2>1. i \in 1 .. Len(s)
    BY <1>1, <1>2, <1>5
  <2> QED
    BY <1>2, <1>4, <2>1 DEF c
<1>6. CASE ~(i <= Len(s))
  <2>1. i - Len(s) \in 1 .. Len(t) /\ Len(s) + (i - Len(s)) = i
    BY <1>1, <1>2, <1>6
  <2> QED
    BY <1>2, <1>4, <2>1 DEF c
<1> QED
  BY <1>5, <1>6

(* Bytes below 128 are ASCII.                                                *)
LEMMA AsciiIsSame ==
    ASSUME NEW b \in Seq(0 .. 255), \A i \in 1 .. Len(b) : b[i] < 128
    PROVE  Ascii(b) = b /\ ~\E i \in DOMAIN b : b[i] > 127
<1> DEFINE B == 0 .. 255
<1>1. \A x \in B : x \in Nat
  OBVIOUS
<1>2. b \in Seq(B)
  OBVIOUS
<1> HIDE DEF B
<1>3. DOMAIN b = 1 .. Len(b) /\ \A i \in 1 .. Len(b) : b[i] \in Nat
  BY <1>1, <1>2
<1>4. \A i \in 1 .. Len(b) : ~(b[i] > 127)
  BY <1>3
<1>5. Ascii(b) = [i \in 1 .. Len(b) |-> b[i]]
  BY <1>3, <1>4 DEF Ascii
<1>6. b = [i \in 1 .. Len(b) |-> b[i]]
  BY <1>2
<1> QED
  BY <1>3, <1>4, <1>5, <1>6

(* ASCII and Latin-1 are read back, with the bytes of an ending.             *)
LEMMA NarrowRoundTrip ==
    ASSUME NEW text \in Texts, NEW e \in Seq(0 .. 255)
    PROVE  /\ (\A i \in DOMAIN text : text[i] < 256) =>
                 Narrow(text) \o e = text \o e
           /\ /\ \A i \in DOMAIN text : text[i] < 128
              /\ \A i \in DOMAIN e : e[i] < 128
              => /\ Ascii(Narrow(text) \o e) = text \o e
                 /\ ~\E i \in DOMAIN (Narrow(text) \o e) : (Narrow(text) \o e)[i] > 127
<1>1. (\A i \in DOMAIN text : text[i] < 256) => Narrow(text) \o e = text \o e
  BY NarrowIsSame
<1>2. ASSUME \A i \in DOMAIN text : text[i] < 128, \A i \in DOMAIN e : e[i] < 128
      PROVE  /\ Ascii(Narrow(text) \o e) = text \o e
             /\ ~\E i \in DOMAIN (Narrow(text) \o e) : (Narrow(text) \o e)[i] > 127
  <2>1. \A i \in DOMAIN text : text[i] < 256
    <3>1. \A i \in DOMAIN text : text[i] \in Nat
      BY TextIsNumbers
    <3> QED
      BY <1>2, <3>1
  <2>2. Narrow(text) = text /\ text \in Seq(0 .. 255)
    BY <2>1, NarrowIsSame
  <2> DEFINE b == text \o e
             B == 0 .. 255
  <2>3. b \in Seq(B)
    BY <2>2, ConcatElements
  <2>4. DOMAIN text = 1 .. Len(text) /\ DOMAIN e = 1 .. Len(e)
    BY TextIsNumbers
  <2>5. ASSUME NEW i \in 1 .. Len(b)
        PROVE  b[i] < 128
    <3>1. text \in Seq(B) /\ e \in Seq(B) /\ i \in 1 .. Len(text \o e)
      BY <2>2
    <3> HIDE DEF B
    <3>2. \/ \E j \in 1 .. Len(text) : (text \o e)[i] = text[j]
          \/ \E j \in 1 .. Len(e) : (text \o e)[i] = e[j]
      BY <3>1, ConcatEach
    <3> QED
      BY <1>2, <2>4, <3>2
  <2> HIDE DEF b
  <2> QED
    BY <2>2, <2>3, <2>5, AsciiIsSame DEF b
<1> QED
  BY <1>1, <1>2

-----------------------------------------------------------------------------
(* UTF-8.                                                                    *)

(* A number in base 64.                                                      *)
Six == {n \in Nat : n < 64}

(* A number by its lowest six bits and those above.                          *)
LEMMA Base64Parts ==
    ASSUME NEW c \in Nat
    PROVE  /\ c \div 64 \in Nat /\ c % 64 \in Six /\ c = 64 * (c \div 64) + (c % 64)
           /\ c \div 4096 \in Nat /\ c \div 4096 = (c \div 64) \div 64
           /\ c \div 262144 \in Nat /\ c \div 262144 = (c \div 4096) \div 64
<1>1. \A x \in Nat : x \div 64 \in Nat /\ x % 64 \in Nat /\ x % 64 < 64 /\ x = 64 * (x \div 64) + (x % 64)
  BY SMT
<1>2. c \div 4096 \in Nat /\ c \div 4096 = (c \div 64) \div 64
  BY SMT
<1>3. c \div 262144 \in Nat /\ c \div 262144 = (c \div 4096) \div 64
  BY SMT
<1> QED
  BY <1>1, <1>2, <1>3 DEF Six

(* A character is written in one of four ways.                               *)
OneByte(c, u) == c < 128 /\ u = <<c>>
TwoBytes(c, u) == \E q \in Six, r \in Six :
    /\ c = 64 * q + r /\ u = <<192 + q, 128 + r>>
    /\ 2 <= q /\ q < 32
ThreeBytes(c, u) == \E q \in Six, r \in Six, s \in Six :
    /\ c = 64 * (64 * q + r) + s /\ u = <<224 + q, 128 + r, 128 + s>>
    /\ q < 16 /\ (q = 0 => 32 <= r) /\ (q = 13 => r < 32)
FourBytes(c, u) == \E p \in Six, q \in Six, r \in Six, s \in Six :
    /\ c = 64 * (64 * (64 * p + q) + r) + s
    /\ u = <<240 + p, 128 + q, 128 + r, 128 + s>>
    /\ p < 5 /\ (p = 0 => 16 <= q) /\ (p = 4 => q < 16)

(* A character in UTF-8 is one to four bytes, each with its part of the      *)
(* bits.                                                                     *)
LEMMA FourWays ==
    ASSUME NEW c \in Char
    PROVE  LET u == Utf8Bytes(c)
           IN  OneByte(c, u) \/ TwoBytes(c, u) \/ ThreeBytes(c, u) \/ FourBytes(c, u)
<1> DEFINE tail(n) == 128 + ((c \div (64 ^ n)) % 64)
           u == Utf8Bytes(c)
           a == c \div 64
           d == c \div 4096
           f == c \div 262144
           s == c % 64
           r == a % 64
           q == d % 64
<1>1. c \in Nat /\ c <= 1114111 /\ c \notin Half
  BY CharBound
<1>2. /\ a \in Nat /\ s \in Six /\ c = 64 * a + s
      /\ d \in Nat /\ d = a \div 64
      /\ f \in Nat /\ f = d \div 64
  BY <1>1, Base64Parts
<1>3. r \in Six /\ a = 64 * d + r
  BY <1>2, Base64Parts
<1>4. q \in Six /\ d = 64 * f + q
  BY <1>2, Base64Parts
<1>5. tail(0) = 128 + s /\ tail(1) = 128 + r /\ tail(2) = 128 + q
  <2>1. 64 ^ 0 = 1 /\ 64 ^ 1 = 64 /\ 64 ^ 2 = 4096
    BY SMT
  <2>2. c \div 1 = c
    BY <1>1, SMT
  <2> QED
    BY <2>1, <2>2
<1> HIDE DEF tail
<1>6. u = CASE c < 128 -> <<c>>
            [] 128 <= c /\ c < 2048 -> <<192 + a, tail(0)>>
            [] 2048 <= c /\ c < 65536 -> <<224 + d, tail(1), tail(0)>>
            [] OTHER -> <<240 + f, tail(2), tail(1), tail(0)>>
  BY SMT DEF Utf8Bytes, tail
<1> HIDE DEF u, a, d, f, s, r, q
<1>a. c = 64 * a + s /\ a = 64 * d + r /\ d = 64 * f + q
  BY <1>2, <1>3, <1>4
<1>b. /\ s \in Nat /\ s < 64 /\ r \in Nat /\ r < 64 /\ q \in Nat /\ q < 64
      /\ a \in Nat /\ d \in Nat /\ f \in Nat
  BY <1>2, <1>3, <1>4 DEF Six
<1>7. CASE c < 128
  BY <1>1, <1>6, <1>7, SMT DEF OneByte, u
<1>8. CASE 128 <= c /\ c < 2048
  <2>1. Utf8Bytes(c) = <<192 + a, 128 + s>>
    BY <1>1, <1>5, <1>6, <1>8, SMT DEF u
  <2>2. 2 <= a /\ a < 32
    BY <1>8, <1>a, <1>b, SMT
  <2>3. a \in Six
    BY <1>b, <2>2, SMT DEF Six
  <2> QED
    BY <1>2, <1>a, <2>1, <2>2, <2>3, Zenon DEF TwoBytes
<1>9. CASE 2048 <= c /\ c < 65536
  <2>1. Utf8Bytes(c) = <<224 + d, 128 + r, 128 + s>>
    BY <1>1, <1>5, <1>6, <1>9, SMT DEF u
  <2>2. d < 16 /\ (d = 0 => 32 <= r)
    BY <1>9, <1>a, <1>b, SMT
  <2>3. d = 13 => r < 32
    <3>1. ~(55296 <= c /\ c <= 57343)
      BY <1>1, SMT DEF Half, HighSurrogate, LowSurrogate
    <3> QED
      BY <1>a, <1>b, <3>1, SMT
  <2>4. d \in Six
    BY <1>b, <2>2, SMT DEF Six
  <2>5. c = 64 * (64 * d + r) + s
    BY <1>a
  <2> QED
    BY <1>2, <1>3, <2>1, <2>2, <2>3, <2>4, <2>5 DEF ThreeBytes
<1>10. CASE 65536 <= c
  <2>1. Utf8Bytes(c) = <<240 + f, 128 + q, 128 + r, 128 + s>>
    BY <1>1, <1>5, <1>6, <1>10, SMT DEF u
  <2>2. f < 5 /\ (f = 0 => 16 <= q) /\ (f = 4 => q < 16)
    BY <1>1, <1>10, <1>a, <1>b, SMT
  <2>3. f \in Six
    BY <1>b, <2>2, SMT DEF Six
  <2>4. c = 64 * (64 * (64 * f + q) + r) + s
    BY <1>a
  <2> QED
    BY <1>2, <1>3, <1>4, <2>1, <2>2, <2>3, <2>4 DEF FourBytes
<1>11. c < 128 \/ (128 <= c /\ c < 2048) \/ (2048 <= c /\ c < 65536) \/ 65536 <= c
  BY <1>1, SMT
<1> QED
  BY <1>7, <1>8, <1>9, <1>10, <1>11 DEF u

-----------------------------------------------------------------------------
(* A run of as many bytes as its first one announces.                        *)
LEMMA RunIs ==
    ASSUME NEW b, NEW i \in Nat, Len(b) \in Nat,
           NEW n \in 0 .. 3, Utf8Tails(b[i]) = n, i + n <= Len(b),
           n >= 1 => b[i + 1] \in Utf8Second(b[i]),
           \A k \in 2 .. n : b[i + k] \in 128 .. 191
    PROVE  Utf8Run(b, i) = n
<1> DEFINE fits(k) == /\ i + k <= Len(b)
                      /\ b[i + k] \in IF k = 1 THEN Utf8Second(b[i]) ELSE 128 .. 191
           S == {m \in 0 .. n : \A k \in 1 .. m : fits(k)}
<1>1. ASSUME NEW k \in 1 .. n
      PROVE  fits(k)
  <2>1. i + k <= Len(b)
    OBVIOUS
  <2>2. CASE k = 1
    BY <2>1, <2>2
  <2>3. CASE k # 1
    <3>1. k \in 2 .. n
      BY <2>3
    <3> QED
      BY <2>1, <2>3, <3>1
  <2> QED
    BY <2>2, <2>3
<1>2. Utf8Run(b, i) = Max(S)
  BY DEF Utf8Run
<1> HIDE DEF fits
<1>3. n \in S
  BY <1>1
<1>4. \A y \in S : n >= y
  OBVIOUS
<1>5. \A x \in S : x \in 0 .. n
  OBVIOUS
<1> HIDE DEF S
<1>6. Max(S) = n
  <2>0. \E x \in S : \A y \in S : x >= y
    BY <1>3, <1>4
  <2>1. Max(S) \in S /\ \A y \in S : Max(S) >= y
    BY <2>0 DEF Max
  <2> QED
    <3> DEFINE m == Max(S)
    <3>1. m \in 0 .. n /\ m >= n /\ n >= m
      BY <1>3, <1>4, <1>5, <2>1
    <3> HIDE DEF m
    <3> QED
      BY <3>1 DEF m
<1> QED
  BY <1>2, <1>6

(* Any run ends within the bytes.                                            *)
LEMMA RunTyped ==
    ASSUME NEW b, Len(b) \in Nat, NEW i \in 1 .. Len(b)
    PROVE  Utf8Run(b, i) \in 0 .. 3 /\ i + Utf8Run(b, i) + 1 \in 1 .. Len(b) + 1
<1> DEFINE fits(k) == /\ i + k <= Len(b)
                      /\ b[i + k] \in IF k = 1 THEN Utf8Second(b[i]) ELSE 128 .. 191
           t == Utf8Tails(b[i])
           S == {m \in 0 .. t : \A k \in 1 .. m : fits(k)}
           r == Max(S)
<1>1. t \in 0 .. 3
  BY DEF Utf8Tails
<1>2. Utf8Run(b, i) = r
  BY DEF Utf8Run
<1> HIDE DEF t
<1>3. 0 \in S
  BY <1>1
<1>4. S \in SUBSET (0 .. 3)
  <2>1. \A m \in S : m \in 0 .. t
    OBVIOUS
  <2> HIDE DEF S
  <2> QED
    BY <1>1, <2>1
<1>5. r \in S
  <2> HIDE DEF S
  <2>2. \E x \in S : \A y \in S : x >= y
    <3>1. 0 \in S /\ \A y \in S : y = 0 \/ y = 1 \/ y = 2 \/ y = 3
      BY <1>3, <1>4
    <3> DEFINE m == IF 3 \in S THEN 3 ELSE IF 2 \in S THEN 2 ELSE IF 1 \in S THEN 1 ELSE 0
    <3>2. m \in S /\ \A y \in S : m >= y
      BY <3>1
    <3> QED
      BY <3>2
  <2> QED
    BY <2>2 DEF Max
<1> HIDE DEF r
<1>6. r \in 0 .. 3 /\ \A k \in 1 .. r : i + k <= Len(b)
  BY <1>1, <1>4, <1>5
<1>7. i + r + 1 \in 1 .. Len(b) + 1
  BY <1>6
<1> QED
  BY <1>2, <1>6, <1>7

(* The loop that makes a character of a run.                                 *)
RunStep(b, i, c, k) == 64 * c + (b[i + k] % 64)
CharTable(b, i, n) == [c \in Nat |-> [k \in 1 .. n |-> RunStep(b, i, c, k)]]
CharPlaces(n) == [k \in 1 .. n |-> k]
Lead(b, i, n) == IF n = 0 THEN b[i] ELSE b[i] % (2 ^ (6 - n))

(* A run of bytes from a position on.                                        *)
IsRunAt(b, i, n) == /\ n \in 0 .. 3 /\ i \in Nat /\ i >= 1
                    /\ \A k \in 0 .. n : b[i + k] \in Nat

(* What the first byte of a character adds to its number.                    *)
LEMMA LeadIs ==
    ASSUME NEW b, NEW i, NEW n, IsRunAt(b, i, n)
    PROVE  /\ Lead(b, i, n) \in Nat
           /\ (n = 0 => Lead(b, i, n) = b[i])
           /\ (n = 1 => Lead(b, i, n) = b[i] % 32)
           /\ (n = 2 => Lead(b, i, n) = b[i] % 16)
           /\ (n = 3 => Lead(b, i, n) = b[i] % 8)
<1>1. b[i] \in Nat /\ n \in 0 .. 3
  <2>1. 0 \in 0 .. n /\ i + 0 = i /\ n \in 0 .. 3
    BY DEF IsRunAt
  <2> QED
    BY <2>1 DEF IsRunAt
<1>2. 2 ^ 5 = 32 /\ 2 ^ 4 = 16 /\ 2 ^ 3 = 8
  BY SMT
<1>3. CASE n = 0
  BY <1>1, <1>3 DEF Lead
<1>4. CASE n = 1
  <2>1. 6 - n = 5
    BY <1>4
  <2> QED
    BY <1>1, <1>2, <1>4, <2>1 DEF Lead
<1>5. CASE n = 2
  <2>1. 6 - n = 4
    BY <1>5
  <2> QED
    BY <1>1, <1>2, <1>5, <2>1 DEF Lead
<1>6. CASE n = 3
  <2>1. 6 - n = 3
    BY <1>6
  <2> QED
    BY <1>1, <1>2, <1>6, <2>1 DEF Lead
<1> QED
  BY <1>1, <1>3, <1>4, <1>5, <1>6

(* The loop over the other bytes of a character, as a table.                 *)
LEMMA CharTyped ==
    ASSUME NEW b, NEW i, NEW n, IsRunAt(b, i, n)
    PROVE  /\ IsTable(CharTable(b, i, n), Nat, 1 .. n)
           /\ \A c \in Nat, k \in 1 .. n :
                 CharTable(b, i, n)[c][k] = RunStep(b, i, c, k) /\ RunStep(b, i, c, k) \in Nat
<1>1. ASSUME NEW c \in Nat, NEW k \in 1 .. n
      PROVE  RunStep(b, i, c, k) \in Nat
  <2>1. b[i + k] \in Nat
    <3>1. k \in 0 .. n
      BY DEF IsRunAt
    <3> QED
      BY <3>1 DEF IsRunAt
  <2> QED
    BY <2>1 DEF RunStep
<1> QED
  BY <1>1 DEF CharTable, IsTable

(* The places it visits.                                                     *)
LEMMA PlacesTyped ==
    ASSUME NEW n \in Nat
    PROVE  /\ CharPlaces(n) \in Seq(1 .. n) /\ Len(CharPlaces(n)) = n
           /\ DOMAIN CharPlaces(n) = 1 .. n
           /\ \A k \in 1 .. n : CharPlaces(n)[k] = k
<1>1. CharPlaces(n) \in [1 .. n -> 1 .. n]
  BY DEF CharPlaces
<1> QED
  BY <1>1, FunctionIsSeq DEF CharPlaces

(* It is a fold of the table.                                                *)
LEMMA CharIsFold ==
    ASSUME NEW b, NEW i, NEW n, IsRunAt(b, i, n)
    PROVE  Utf8Char(b, i, n) = Fold(CharTable(b, i, n), Lead(b, i, n), CharPlaces(n))
<1> DEFINE s == CharPlaces(n)
           X == 1 .. n
           F == CharTable(b, i, n)
           base == Lead(b, i, n)
<1>n. n \in Nat
  BY DEF IsRunAt
<1>0. DOMAIN s = 1 .. Len(s) /\ Len(s) \in Nat /\ s \in Seq(X)
  BY <1>n, PlacesTyped
<1>1. IsTable(F, Nat, X) /\ base \in Nat
  BY CharTyped, LeadIs
<1> DEFINE Steps(c) == c = [p \in SUBSET (DOMAIN s) |->
                     IF p = {} THEN base
                     ELSE RunStep(b, i, c[p \ {Max(p)}], s[Max(p)])]
           c == CHOOSE c : Steps(c)
<1>a. \A x \in Nat, k \in X : F[x][k] = RunStep(b, i, x, k)
  BY CharTyped
<1>8. Utf8Char(b, i, n) = c[DOMAIN s]
  BY Zenon DEF Utf8Char, FoldLeft, MapThenFoldSet, CharPlaces, Lead, RunStep
<1> HIDE DEF s, X, F, base
<1>2. PICK it : /\ Iterates(it, F, base, s, Len(s))
                /\ \A p \in SUBSET (1 .. Len(s)) : it[p] \in Nat
  BY <1>0, <1>1, TypedIteration
<1>3. ASSUME NEW p \in SUBSET (1 .. Len(s)), p # {}
      PROVE  p \ {Max(p)} \in SUBSET (1 .. Len(s)) /\ s[Max(p)] \in X
  <2>1. Max(p) \in 1 .. Len(s)
    BY <1>0, <1>3, LastPlace
  <2>2. s[Max(p)] \in X
    BY <1>0, <2>1, ElementOfSeq
  <2> QED
    BY <2>2
<1>4. Steps(it)
  <2>1. ASSUME NEW p \in SUBSET (1 .. Len(s)), p # {}
        PROVE  F[it[p \ {Max(p)}]][s[Max(p)]]
                 = RunStep(b, i, it[p \ {Max(p)}], s[Max(p)])
    BY <1>2, <1>3, <1>a, <2>1
  <2> DEFINE G == [p \in SUBSET (1 .. Len(s)) |->
                     IF p = {} THEN base ELSE RunStep(b, i, it[p \ {Max(p)}], s[Max(p)])]
  <2>2. it = [p \in SUBSET (1 .. Len(s)) |->
                     IF p = {} THEN base ELSE F[it[p \ {Max(p)}]][s[Max(p)]]]
    BY <1>2 DEF Iterates
  <2>3. it = G
    BY <2>1, <2>2
  <2> QED
    BY <1>0, <2>3
<1>5. Steps(c)
  BY <1>4
<1> HIDE DEF c
<1>6. Follows(c, F, Nat, base, s)
  <2>1. c[{}] = base
    <3>1. {} \in SUBSET (1 .. Len(s))
      OBVIOUS
    <3> QED
      BY <1>0, <1>5, <3>1
  <2>2. ASSUME NEW p \in SUBSET (1 .. Len(s)), p # {}, c[p \ {Max(p)}] \in Nat
        PROVE  c[p] = F[c[p \ {Max(p)}]][s[Max(p)]]
    <3>1. c[p] = RunStep(b, i, c[p \ {Max(p)}], s[Max(p)])
      BY <1>0, <1>5, <2>2
    <3> QED
      BY <1>3, <1>a, <2>2, <3>1
  <2> QED
    BY <2>1, <2>2 DEF Follows
<1>7. c[1 .. Len(s)] = Fold(F, base, s)
  <2> DEFINE A == Nat
  <2>1. s \in Seq(X) /\ IsTable(F, A, X) /\ base \in A /\ Follows(c, F, A, base, s)
    BY <1>0, <1>1, <1>6
  <2> HIDE DEF A
  <2> QED
    BY <2>1, FollowsFold
<1> QED
  BY <1>0, <1>7, <1>8 DEF s, F, base

(* What a run stands for.                                                    *)
LEMMA CharValue ==
    ASSUME NEW b, NEW i, NEW n, IsRunAt(b, i, n)
    PROVE  /\ n = 0 => Utf8Char(b, i, n) = b[i]
           /\ n = 1 => Utf8Char(b, i, n) = 64 * (b[i] % 32) + (b[i + 1] % 64)
           /\ n = 2 => Utf8Char(b, i, n)
                = 64 * (64 * (b[i] % 16) + (b[i + 1] % 64)) + (b[i + 2] % 64)
           /\ n = 3 => Utf8Char(b, i, n)
                = 64 * (64 * (64 * (b[i] % 8) + (b[i + 1] % 64)) + (b[i + 2] % 64))
                    + (b[i + 3] % 64)
<1> DEFINE s == CharPlaces(n)
           F == CharTable(b, i, n)
           base == Lead(b, i, n)
<1>0. n \in 0 .. 3
  BY DEF IsRunAt
<1>1. /\ IsTable(F, Nat, 1 .. n) /\ base \in Nat
      /\ s \in Seq(1 .. n) /\ Len(s) = n /\ \A k \in 1 .. n : s[k] = k
  BY <1>0, CharTyped, LeadIs, PlacesTyped
<1>2. PICK v : IsRun(v, F, base, s, Nat)
  <2> DEFINE X == 1 .. n
  <2>1. IsTable(F, Nat, X) /\ base \in Nat /\ s \in Seq(X)
    BY <1>1
  <2> HIDE DEF F, base, s, X
  <2> QED
    BY <2>1, FoldRuns
<1>3. /\ v \in [0 .. n -> Nat] /\ v[0] = base /\ Utf8Char(b, i, n) = v[n]
      /\ \A k \in 1 .. n : v[k] = F[v[k - 1]][s[k]]
  BY <1>1, <1>2, CharIsFold DEF IsRun
<1>4. ASSUME NEW k \in 1 .. n
      PROVE  v[k] = 64 * v[k - 1] + (b[i + k] % 64)
  <2>1. k - 1 \in 0 .. n
    BY <1>0
  <2>2. v[k - 1] \in Nat /\ v[k] = F[v[k - 1]][k]
    BY <1>1, <1>3, <2>1
  <2>3. F[v[k - 1]][k] = RunStep(b, i, v[k - 1], k)
    BY <2>2, CharTyped
  <2> QED
    BY <2>2, <2>3 DEF RunStep
<1> HIDE DEF F, s
<1>5. CASE n = 0
  BY <1>3, <1>5, LeadIs
<1>6. CASE n = 1
  <2>1. v[1] = 64 * v[1 - 1] + (b[i + 1] % 64)
    BY <1>4, <1>6
  <2>2. v[1 - 1] = b[i] % 32
    BY <1>3, <1>6, LeadIs
  <2> QED
    BY <1>3, <1>6, <2>1, <2>2
<1>7. CASE n = 2
  <2>1. v[1] = 64 * v[1 - 1] + (b[i + 1] % 64) /\ v[2] = 64 * v[2 - 1] + (b[i + 2] % 64)
    BY <1>4, <1>7
  <2>2. v[1 - 1] = b[i] % 16 /\ v[2 - 1] = v[1]
    BY <1>3, <1>7, LeadIs
  <2> QED
    BY <1>3, <1>7, <2>1, <2>2
<1>8. CASE n = 3
  <2>1. /\ v[1] = 64 * v[1 - 1] + (b[i + 1] % 64) /\ v[2] = 64 * v[2 - 1] + (b[i + 2] % 64)
        /\ v[3] = 64 * v[3 - 1] + (b[i + 3] % 64)
    BY <1>4, <1>8
  <2>2. v[1 - 1] = b[i] % 8 /\ v[2 - 1] = v[1] /\ v[3 - 1] = v[2]
    BY <1>3, <1>8, LeadIs
  <2> QED
    BY <1>3, <1>8, <2>1, <2>2
<1> QED
  BY <1>0, <1>5, <1>6, <1>7, <1>8

(* Bytes that stand in others from a position on.                            *)
StandsAt(b, i, u) == /\ b \in Seq(0 .. 255) /\ i \in Nat /\ i >= 1 /\ i + Len(u) <= Len(b) + 1
                     /\ \A k \in 1 .. Len(u) : b[i + (k - 1)] = u[k]

(* What a decoder makes of the bytes from a position on: this character.     *)
ReadsChar(b, i, c, n) ==
    /\ Utf8Run(b, i) = n /\ Utf8Tails(b[i]) = n
    /\ b[i] \in (0 .. 127) \cup (194 .. 244)
    /\ Utf8Char(b, i, n) = c

(* A character of one byte is read back,                                     *)
LEMMA ReadsOne ==
    ASSUME NEW c \in Nat, NEW u, OneByte(c, u), NEW b, NEW i, StandsAt(b, i, u)
    PROVE  ReadsChar(b, i, c, 0) /\ Len(u) = 1
<1>1. Len(u) = 1 /\ u[1] = c /\ c < 128
  BY DEF OneByte
<1>2. i \in Nat /\ i >= 1 /\ Len(b) \in Nat /\ i + 0 <= Len(b)
  BY <1>1 DEF StandsAt
<1>3. b[i] = c
  <2>1. b[i + (1 - 1)] = u[1]
    BY <1>1 DEF StandsAt
  <2> QED
    BY <1>1, <1>2, <2>1
<1>4. Utf8Tails(c) = 0 /\ c \in 0 .. 127
  BY <1>1, SMT DEF Utf8Tails
<1>5. Utf8Run(b, i) = 0
  BY <1>2, <1>3, <1>4, RunIs
<1>6. IsRunAt(b, i, 0)
  BY <1>2, <1>3 DEF IsRunAt
<1>7. Utf8Char(b, i, 0) = c
  BY <1>3, <1>6, CharValue
<1> QED
  BY <1>1, <1>3, <1>4, <1>5, <1>7 DEF ReadsChar

(* one of two bytes,                                                         *)
LEMMA ReadsTwo ==
    ASSUME NEW c \in Nat, NEW u, TwoBytes(c, u), NEW b, NEW i, StandsAt(b, i, u)
    PROVE  ReadsChar(b, i, c, 1) /\ Len(u) = 2
<1>1. PICK q \in Six, r \in Six : /\ c = 64 * q + r /\ u = <<192 + q, 128 + r>>
                                  /\ 2 <= q /\ q < 32
  BY Zenon DEF TwoBytes
<1>a. q \in Nat /\ r \in Nat /\ r < 64
  BY DEF Six
<1> DEFINE x == 192 + q
           y == 128 + r
<1>b. u = <<x, y>>
  BY <1>1
<1>4. /\ Utf8Tails(x) = 1 /\ x \in 194 .. 244 /\ x \in Nat /\ x % 32 = q
      /\ Utf8Second(x) = 128 .. 191
      /\ y \in 128 .. 191 /\ y \in Nat /\ y % 64 = r
  BY <1>1, <1>a, SMT DEF Utf8Tails, Utf8Second
<1> HIDE DEF x, y
<1>2. Len(u) = 2 /\ u[1] = x /\ u[2] = y
  BY <1>b
<1>3. i \in Nat /\ i >= 1 /\ Len(b) \in Nat /\ i + 1 <= Len(b)
  BY <1>2 DEF StandsAt
<1>c. b[i] = x /\ b[i + 1] = y
  <2>1. b[i + (1 - 1)] = u[1] /\ b[i + (2 - 1)] = u[2]
    BY <1>2 DEF StandsAt
  <2> QED
    BY <1>2, <1>3, <2>1
<1>5. Utf8Run(b, i) = 1
  <2> DEFINE m == 1
             t == b[i]
             d == b[i + 1]
  <2>1. m \in 0 .. 3 /\ Utf8Tails(t) = m /\ i + m <= Len(b) /\ d \in Utf8Second(t)
    BY <1>3, <1>c, <1>4
  <2>2. \A k \in 2 .. m : b[i + k] \in 128 .. 191
    BY <1>3, <1>c, <1>4
  <2>3. m >= 1 => b[i + 1] \in Utf8Second(b[i])
    BY <2>1
  <2>4. Utf8Tails(b[i]) = m
    BY <2>1
  <2> HIDE DEF m, t, d
  <2>5. Utf8Run(b, i) = m
    BY <1>3, <2>1, <2>2, <2>3, <2>4, RunIs
  <2> QED
    BY <2>5 DEF m
<1>6. IsRunAt(b, i, 1)
  BY <1>3, <1>c, <1>4 DEF IsRunAt
<1>7. Utf8Char(b, i, 1) = c
  <2>1. Utf8Char(b, i, 1) = 64 * (b[i] % 32) + (b[i + 1] % 64)
    BY <1>6, CharValue
  <2> QED
    BY <1>1, <1>c, <1>4, <2>1
<1> QED
  BY <1>2, <1>c, <1>4, <1>5, <1>7 DEF ReadsChar

(* one of three,                                                             *)
LEMMA ReadsThree ==
    ASSUME NEW c \in Nat, NEW u, ThreeBytes(c, u), NEW b, NEW i, StandsAt(b, i, u)
    PROVE  ReadsChar(b, i, c, 2) /\ Len(u) = 3
<1>1. PICK q \in Six, r \in Six, s \in Six :
           /\ c = 64 * (64 * q + r) + s /\ u = <<224 + q, 128 + r, 128 + s>>
           /\ q < 16 /\ (q = 0 => 32 <= r) /\ (q = 13 => r < 32)
  BY Zenon DEF ThreeBytes
<1>a. q \in Nat /\ r \in Nat /\ r < 64 /\ s \in Nat /\ s < 64
  BY DEF Six
<1> DEFINE x == 224 + q
           y == 128 + r
           z == 128 + s
<1>b. u = <<x, y, z>>
  BY <1>1
<1>4. /\ Utf8Tails(x) = 2 /\ x \in 194 .. 244 /\ x \in Nat /\ x % 16 = q
      /\ y \in 128 .. 191 /\ y \in Nat /\ y % 64 = r
      /\ z \in 128 .. 191 /\ z \in Nat /\ z % 64 = s
  BY <1>1, <1>a, SMT DEF Utf8Tails
<1>d. y \in Utf8Second(x)
  BY <1>1, <1>a, SMT DEF Utf8Second
<1> HIDE DEF x, y, z
<1>2. Len(u) = 3 /\ u[1] = x /\ u[2] = y /\ u[3] = z
  BY <1>b
<1>3. i \in Nat /\ i >= 1 /\ Len(b) \in Nat /\ i + 2 <= Len(b)
  BY <1>2 DEF StandsAt
<1>c. b[i] = x /\ b[i + 1] = y /\ b[i + 2] = z
  <2>1. b[i + (1 - 1)] = u[1] /\ b[i + (2 - 1)] = u[2] /\ b[i + (3 - 1)] = u[3]
    BY <1>2 DEF StandsAt
  <2> QED
    BY <1>2, <1>3, <2>1
<1>5. Utf8Run(b, i) = 2
  <2> DEFINE m == 2
             t == b[i]
             d == b[i + 1]
  <2>1. m \in 0 .. 3 /\ Utf8Tails(t) = m /\ i + m <= Len(b) /\ d \in Utf8Second(t)
    BY <1>3, <1>c, <1>4, <1>d
  <2>2. \A k \in 2 .. m : b[i + k] \in 128 .. 191
    <3>1. \A k \in 2 .. m : k = 2
      OBVIOUS
    <3> QED
      BY <1>c, <1>4, <3>1
  <2>3. m >= 1 => b[i + 1] \in Utf8Second(b[i])
    BY <2>1
  <2>4. Utf8Tails(b[i]) = m
    BY <2>1
  <2> HIDE DEF m, t, d
  <2>5. Utf8Run(b, i) = m
    BY <1>3, <2>1, <2>2, <2>3, <2>4, RunIs
  <2> QED
    BY <2>5 DEF m
<1>6. IsRunAt(b, i, 2)
  BY <1>3, <1>c, <1>4, SMTT(30) DEF IsRunAt
<1>7. Utf8Char(b, i, 2) = c
  <2>1. Utf8Char(b, i, 2) = 64 * (64 * (b[i] % 16) + (b[i + 1] % 64)) + (b[i + 2] % 64)
    BY <1>6, CharValue
  <2> QED
    BY <1>1, <1>c, <1>4, <2>1
<1> QED
  BY <1>2, <1>c, <1>4, <1>5, <1>7 DEF ReadsChar

(* and one of four.                                                          *)
LEMMA ReadsFour ==
    ASSUME NEW c \in Nat, NEW u, FourBytes(c, u), NEW b, NEW i, StandsAt(b, i, u)
    PROVE  ReadsChar(b, i, c, 3) /\ Len(u) = 4
<1>1. PICK p \in Six, q \in Six, r \in Six, s \in Six :
           /\ c = 64 * (64 * (64 * p + q) + r) + s
           /\ u = <<240 + p, 128 + q, 128 + r, 128 + s>>
           /\ p < 5 /\ (p = 0 => 16 <= q) /\ (p = 4 => q < 16)
  BY Zenon DEF FourBytes
<1>a. p \in Nat /\ q \in Nat /\ q < 64 /\ r \in Nat /\ r < 64 /\ s \in Nat /\ s < 64
  BY DEF Six
<1> DEFINE w == 240 + p
           x == 128 + q
           y == 128 + r
           z == 128 + s
<1>b. u = <<w, x, y, z>>
  BY <1>1
<1>4. /\ Utf8Tails(w) = 3 /\ w \in 194 .. 244 /\ w \in Nat /\ w % 8 = p
      /\ x \in 128 .. 191 /\ x \in Nat /\ x % 64 = q
      /\ y \in 128 .. 191 /\ y \in Nat /\ y % 64 = r
      /\ z \in 128 .. 191 /\ z \in Nat /\ z % 64 = s
  BY <1>1, <1>a, SMT DEF Utf8Tails
<1>d. x \in Utf8Second(w)
  BY <1>1, <1>a, SMT DEF Utf8Second
<1> HIDE DEF w, x, y, z
<1>2. Len(u) = 4 /\ u[1] = w /\ u[2] = x /\ u[3] = y /\ u[4] = z
  BY <1>b
<1>3. i \in Nat /\ i >= 1 /\ Len(b) \in Nat /\ i + 3 <= Len(b)
  BY <1>2 DEF StandsAt
<1>c. b[i] = w /\ b[i + 1] = x /\ b[i + 2] = y /\ b[i + 3] = z
  <2>1. /\ b[i + (1 - 1)] = u[1] /\ b[i + (2 - 1)] = u[2] /\ b[i + (3 - 1)] = u[3]
        /\ b[i + (4 - 1)] = u[4]
    BY <1>2 DEF StandsAt
  <2> QED
    BY <1>2, <1>3, <2>1
<1>5. Utf8Run(b, i) = 3
  <2> DEFINE m == 3
             t == b[i]
             d == b[i + 1]
  <2>1. m \in 0 .. 3 /\ Utf8Tails(t) = m /\ i + m <= Len(b) /\ d \in Utf8Second(t)
    BY <1>3, <1>c, <1>4, <1>d
  <2>2. \A k \in 2 .. m : b[i + k] \in 128 .. 191
    <3>1. \A k \in 2 .. m : k = 2 \/ k = 3
      OBVIOUS
    <3> QED
      BY <1>c, <1>4, <3>1
  <2>3. m >= 1 => b[i + 1] \in Utf8Second(b[i])
    BY <2>1
  <2>4. Utf8Tails(b[i]) = m
    BY <2>1
  <2> HIDE DEF m, t, d
  <2>5. Utf8Run(b, i) = m
    BY <1>3, <2>1, <2>2, <2>3, <2>4, RunIs
  <2> QED
    BY <2>5 DEF m
<1>6. IsRunAt(b, i, 3)
  <2>1. \A k \in 0 .. 3 : k = 0 \/ k = 1 \/ k = 2 \/ k = 3
    OBVIOUS
  <2>2. i + 0 = i /\ 3 \in 0 .. 3
    BY <1>3
  <2>3. b[i + 0] \in Nat /\ b[i + 1] \in Nat /\ b[i + 2] \in Nat /\ b[i + 3] \in Nat
    BY <1>c, <1>4, <2>2
  <2>4. \A k \in 0 .. 3 : b[i + k] \in Nat
    BY <2>1, <2>3
  <2> QED
    BY <1>3, <2>2, <2>4 DEF IsRunAt
<1>7. Utf8Char(b, i, 3) = c
  <2>1. Utf8Char(b, i, 3)
          = 64 * (64 * (64 * (b[i] % 8) + (b[i + 1] % 64)) + (b[i + 2] % 64)) + (b[i + 3] % 64)
    BY <1>6, CharValue
  <2> QED
    BY <1>1, <1>c, <1>4, <2>1
<1> QED
  BY <1>2, <1>c, <1>4, <1>5, <1>7 DEF ReadsChar

(* A character is read back from its bytes, wherever they stand.             *)
LEMMA CharBack ==
    ASSUME NEW c \in Char, NEW b, NEW i, StandsAt(b, i, Utf8Bytes(c))
    PROVE  ReadsChar(b, i, c, Len(Utf8Bytes(c)) - 1) /\ Len(Utf8Bytes(c)) \in 1 .. 4
<1> DEFINE u == Utf8Bytes(c)
<1>1. OneByte(c, u) \/ TwoBytes(c, u) \/ ThreeBytes(c, u) \/ FourBytes(c, u)
  BY FourWays
<1>2. c \in Nat /\ StandsAt(b, i, u)
  BY CharBound
<1> HIDE DEF u
<1>3. ReadsChar(b, i, c, Len(u) - 1) /\ Len(u) \in 1 .. 4
  <2>1. CASE OneByte(c, u)
    <3>1. ReadsChar(b, i, c, 0) /\ Len(u) = 1
      BY <1>2, <2>1, ReadsOne
    <3>2. 0 = Len(u) - 1 /\ Len(u) \in 1 .. 4
      BY <3>1
    <3> QED
      BY <3>1, <3>2
  <2>2. CASE TwoBytes(c, u)
    <3>1. ReadsChar(b, i, c, 1) /\ Len(u) = 2
      BY <1>2, <2>2, ReadsTwo
    <3>2. 1 = Len(u) - 1 /\ Len(u) \in 1 .. 4
      BY <3>1
    <3> QED
      BY <3>1, <3>2
  <2>3. CASE ThreeBytes(c, u)
    <3>1. ReadsChar(b, i, c, 2) /\ Len(u) = 3
      BY <1>2, <2>3, ReadsThree
    <3>2. 2 = Len(u) - 1 /\ Len(u) \in 1 .. 4
      BY <3>1
    <3> QED
      BY <3>1, <3>2
  <2>4. CASE FourBytes(c, u)
    <3>1. ReadsChar(b, i, c, 3) /\ Len(u) = 4
      BY <1>2, <2>4, ReadsFour
    <3>2. 3 = Len(u) - 1 /\ Len(u) \in 1 .. 4
      BY <3>1
    <3> QED
      BY <3>1, <3>2
  <2> QED
    BY <1>1, <2>1, <2>2, <2>3, <2>4
<1> QED
  BY <1>3 DEF u

(* The function that decodes from a position on.                             *)
Whole(b, i) == /\ Utf8Run(b, i) = Utf8Tails(b[i])
               /\ b[i] \in (0 .. 127) \cup (194 .. 244)
NextAt(b, i) == i + Utf8Run(b, i) + 1
DecodesFrom(c, b, i) ==
    c[i] = IF Whole(b, i)
             THEN <<<<Utf8Char(b, i, Utf8Run(b, i))>> \o c[NextAt(b, i)][1],
                    c[NextAt(b, i)][2]>>
             ELSE <<<<Replacement>> \o c[NextAt(b, i)][1], TRUE>>
IsDecoder(c, b) ==
    /\ DecodeUtf8(b) = [text |-> c[1][1], errors |-> c[1][2]]
    /\ c[Len(b) + 1] = <<<<>>, FALSE>>
    /\ \A i \in 1 .. Len(b) : DecodesFrom(c, b, i)

(* There is a reading of any bytes: it is defined from their end to their    *)
(* beginning.                                                                *)
LEMMA DecoderExists ==
    ASSUME NEW b, Len(b) \in Nat
    PROVE  \E c : IsDecoder(c, b)
<1> DEFINE n == Len(b)
           C == {Utf8Char(b, i, Utf8Run(b, i)) : i \in 1 .. n} \cup {Replacement}
           A == Seq(C) \X BOOLEAN
           base == <<<<>>, FALSE>>
           nx == [i \in 1 .. n |-> NextAt(b, i)]
           Made(i, r) == IF Whole(b, i)
                           THEN <<<<Utf8Char(b, i, Utf8Run(b, i))>> \o r[1], r[2]>>
                           ELSE <<<<Replacement>> \o r[1], TRUE>>
           H == [i \in 1 .. n |-> [r \in A |-> Made(i, r)]]
           Rest(c, i) == IF i > Len(b) THEN <<<<>>, FALSE>> ELSE Made(i, c[NextAt(b, i)])
           Steps(c) == c = [i \in 1 .. Len(b) + 1 |-> Rest(c, i)]
           c == CHOOSE c : Steps(c)
<1>1. n \in Nat /\ base \in A
  <2> HIDE DEF C
  <2>1. <<>> \in Seq(C) /\ FALSE \in BOOLEAN
    OBVIOUS
  <2> QED
    BY <2>1
<1>2. Advances(nx, n)
  <2>1. ASSUME NEW i \in 1 .. n
        PROVE  NextAt(b, i) \in 1 .. n + 1 /\ NextAt(b, i) > i
    <3>1. Utf8Run(b, i) \in 0 .. 3 /\ NextAt(b, i) \in 1 .. n + 1
      BY RunTyped DEF NextAt
    <3> QED
      BY <3>1 DEF NextAt
  <2> QED
    BY <2>1 DEF Advances
<1>8. DecodeUtf8(b) = [text |-> c[1][1], errors |-> c[1][2]]
  BY Zenon DEF DecodeUtf8, Whole, NextAt
<1>3. Makes(H, n, A)
  <2>1. ASSUME NEW i \in 1 .. n, NEW r \in A
        PROVE  Made(i, r) \in A
    <3>1. /\ <<Utf8Char(b, i, Utf8Run(b, i))>> \in Seq(C) /\ <<Replacement>> \in Seq(C)
          /\ r[1] \in Seq(C) /\ r[2] \in BOOLEAN
      OBVIOUS
    <3> DEFINE x == <<Utf8Char(b, i, Utf8Run(b, i))>>
               y == <<Replacement>>
    <3>2. x \in Seq(C) /\ y \in Seq(C)
      BY <3>1
    <3> HIDE DEF C, x, y
    <3>3. x \o r[1] \in Seq(C) /\ y \o r[1] \in Seq(C)
      BY <3>1, <3>2, ConcatElements
    <3>4. <<x \o r[1], r[2]>> \in A /\ <<y \o r[1], TRUE>> \in A
      BY <3>1, <3>3
    <3> QED
      BY <3>4 DEF x, y
  <2> HIDE DEF A, Made
  <2> QED
    BY <2>1 DEF Makes
<1> HIDE DEF A
<1>4. PICK f \in [1 .. n + 1 -> A] : IsReading(f, n, base, nx, H)
  <2> HIDE DEF n, nx, H, base
  <2> QED
    BY <1>1, <1>2, <1>3, ReadingOn
<1> HIDE DEF Made
<1>5. \A g : /\ Rest(g, n + 1) = base
             /\ \A i \in 1 .. n : Rest(g, i) = Made(i, g[NextAt(b, i)])
  <2>1. n + 1 > Len(b) /\ \A i \in 1 .. n : ~(i > Len(b))
    BY <1>1
  <2> QED
    BY <2>1
<1> HIDE DEF Rest
<1>6. Steps(f)
  <2>1. ASSUME NEW i \in 1 .. n
        PROVE  f[i] = Made(i, f[NextAt(b, i)])
    <3>1. nx[i] \in 1 .. n + 1 /\ nx[i] = NextAt(b, i)
      BY <1>2 DEF Advances
    <3>2. f[NextAt(b, i)] \in A
      BY <1>4, <3>1
    <3>3. f[i] = H[i][f[nx[i]]]
      BY <1>4 DEF IsReading
    <3> QED
      BY <3>1, <3>2, <3>3
  <2>2. \A i \in 1 .. n + 1 : i = n + 1 \/ i \in 1 .. n
    BY <1>1
  <2>3. f[n + 1] = base
    BY <1>4 DEF IsReading
  <2>4. \A i \in 1 .. n + 1 : f[i] = Rest(f, i)
    BY <1>5, <2>1, <2>2, <2>3
  <2>5. f = [i \in 1 .. Len(b) + 1 |-> f[i]]
    BY <1>4
  <2> QED
    BY <2>4, <2>5
<1>7. Steps(c)
  BY <1>6, Zenon
<1> HIDE DEF c
<1>9. IsDecoder(c, b)
  <2>1. n + 1 \in 1 .. n + 1 /\ \A i \in 1 .. n : i \in 1 .. n + 1
    BY <1>1
  <2>2. c[n + 1] = base
    BY <1>5, <1>7, <2>1
  <2>3. ASSUME NEW i \in 1 .. n
        PROVE  DecodesFrom(c, b, i)
    <3>1. c[i] = Made(i, c[NextAt(b, i)])
      BY <1>5, <1>7, <2>1
    <3> QED
      BY <3>1 DEF Made, DecodesFrom
  <2> QED
    BY <1>8, <2>2, <2>3 DEF IsDecoder
<1> QED
  BY <1>9

(* What stands between two other sequences.                                  *)
Amid(B, b, i, u) == /\ b \in Seq(B) /\ i \in Nat /\ i >= 1 /\ i + Len(u) <= Len(b) + 1
                    /\ \A k \in 1 .. Len(u) : b[i + (k - 1)] = u[k]

(* What is put between two sequences stands where the first ends.            *)
LEMMA Between ==
    ASSUME NEW B, NEW a \in Seq(B), NEW u \in Seq(B), NEW d \in Seq(B)
    PROVE  Amid(B, (a \o u) \o d, Len(a) + 1, u)
<1> DEFINE s == a \o u
           b == s \o d
           i == Len(a) + 1
<1>1. a \in Seq(B) /\ u \in Seq(B) /\ d \in Seq(B)
  OBVIOUS
<1>2. Len(a) \in Nat /\ Len(u) \in Nat /\ Len(d) \in Nat
  BY <1>1
<1>3. /\ s \in Seq(B) /\ Len(s) = Len(a) + Len(u)
      /\ \A j \in 1 .. Len(u) : s[Len(a) + j] = u[j]
  BY <1>1, ConcatElements
<1> HIDE DEF s
<1>4. /\ b \in Seq(B) /\ Len(b) = Len(s) + Len(d)
      /\ \A j \in 1 .. Len(s) : b[j] = s[j]
  <2>1. s \in Seq(B)
    BY <1>3
  <2> QED
    BY <2>1, ConcatElements
<1> HIDE DEF b
<1>5. ASSUME NEW k \in 1 .. Len(u)
      PROVE  b[i + (k - 1)] = u[k]
  <2>1. i + (k - 1) = Len(a) + k /\ Len(a) + k \in 1 .. Len(s)
    BY <1>2, <1>3
  <2> QED
    BY <1>3, <1>4, <2>1
<1>6. i \in Nat /\ i >= 1 /\ i + Len(u) <= Len(b) + 1
  BY <1>2, <1>3, <1>4
<1> QED
  BY <1>4, <1>5, <1>6 DEF b, s, Amid

(* Bytes that are put between others stand where the first end.              *)
LEMMA StandsBetween ==
    ASSUME NEW a \in Seq(0 .. 255), NEW u \in Seq(0 .. 255), NEW d \in Seq(0 .. 255)
    PROVE  StandsAt((a \o u) \o d, Len(a) + 1, u)
<1> DEFINE B == 0 .. 255
<1>1. a \in Seq(B) /\ u \in Seq(B) /\ d \in Seq(B)
  OBVIOUS
<1> HIDE DEF B
<1> DEFINE b == (a \o u) \o d
           i == Len(a) + 1
<1>2. Amid(B, b, i, u)
  BY <1>1, Between, Zenon
<1> HIDE DEF b, i
<1>3. StandsAt(b, i, u)
  BY <1>2 DEF StandsAt, Amid, B
<1> QED
  BY <1>3 DEF b, i

(* A sequence is its first elements and the rest.                            *)
LEMMA TwoParts ==
    ASSUME NEW S, NEW t \in Seq(S), NEW k \in 0 .. Len(t)
    PROVE  /\ SubSeq(t, 1, k) \in Seq(S) /\ SubSeq(t, k + 1, Len(t)) \in Seq(S)
           /\ Len(SubSeq(t, 1, k)) = k
           /\ t = SubSeq(t, 1, k) \o SubSeq(t, k + 1, Len(t))
<1> DEFINE q == SubSeq(t, 1, k)
           r == SubSeq(t, k + 1, Len(t))
<1>1. Len(t) \in Nat /\ k \in 0 .. Len(t) /\ k \in Nat
  OBVIOUS
<1>2. q \in Seq(S) /\ Len(q) = k /\ \A j \in 1 .. k : q[j] = t[j]
  BY <1>1
<1>3. r \in Seq(S) /\ Len(r) = Len(t) - k /\ \A j \in 1 .. Len(t) - k : r[j] = t[j + k]
  BY <1>1
<1> HIDE DEF q, r
<1>4. /\ q \o r \in Seq(S) /\ Len(q \o r) = Len(q) + Len(r)
      /\ \A j \in 1 .. Len(q) : (q \o r)[j] = q[j]
      /\ \A j \in 1 .. Len(r) : (q \o r)[Len(q) + j] = r[j]
  BY <1>2, <1>3, ConcatElements
<1> DEFINE z == q \o r
<1> HIDE DEF z
<1>5. Len(z) = Len(t) /\ z \in Seq(S)
  BY <1>1, <1>2, <1>3, <1>4 DEF z
<1>6. ASSUME NEW j \in 1 .. Len(t)
      PROVE  z[j] = t[j]
  <2>1. CASE j <= k
    <3>1. j \in 1 .. k
      BY <2>1
    <3> QED
      BY <1>2, <1>4, <3>1 DEF z
  <2>2. CASE ~(j <= k)
    <3>1. j - k \in 1 .. Len(t) - k /\ k + (j - k) = j /\ (j - k) + k = j
      BY <1>1, <2>2
    <3>2. r[j - k] = t[(j - k) + k]
      BY <1>3, <3>1
    <3>3. (q \o r)[Len(q) + (j - k)] = r[j - k]
      BY <1>3, <1>4, <3>1
    <3> QED
      BY <1>2, <3>1, <3>2, <3>3 DEF z
  <2> QED
    BY <2>1, <2>2
<1>7. z = t
  BY <1>5, <1>6, SeqEqual
<1> QED
  BY <1>2, <1>3, <1>7 DEF z, q, r

(* The bytes of a text, and where those of its characters begin.             *)
Utf8Of(t) == FlattenSeq(Via(Utf8Table, t))
BeginsAt(t, k) == Len(Utf8Of(SubSeq(t, 1, k))) + 1

(* No character, no byte.                                                    *)
LEMMA Utf8Empty ==
    Utf8Of(<<>>) = <<>>
<1>1. Via(Utf8Table, <<>>) = <<>>
  BY DEF Via
<1>2. FlattenSeq(<<>>) = <<>>
  BY DEF FlattenSeq
<1> QED
  BY <1>1, <1>2 DEF Utf8Of

(* One character more adds its bytes at the end.                             *)
LEMMA Utf8Append ==
    ASSUME NEW t \in Seq(Char), NEW c \in Char
    PROVE  Utf8Of(Append(t, c)) = Utf8Of(t) \o Utf8Bytes(c)
<1> DEFINE B == 0 .. 255
<1>1. IsMap(Utf8Table, Char, Seq(B))
  BY Utf8BytesTyped DEF Utf8Table, IsMap
<1>2. Utf8Table[c] = Utf8Bytes(c)
  BY DEF Utf8Table
<1> HIDE DEF B
<1>3. FlattenSeq(Via(Utf8Table, Append(t, c))) = FlattenSeq(Via(Utf8Table, t)) \o Utf8Table[c]
  BY <1>1, FlattenViaAppend
<1> QED
  BY <1>2, <1>3 DEF Utf8Of

(* The bytes of each character stand where those of the characters before it *)
(* end.                                                                      *)
LEMMA CharsInBytes ==
    ASSUME NEW t \in Seq(Char)
    PROVE  /\ Utf8Of(t) \in Seq(0 .. 255) /\ BeginsAt(t, 0) = 1
           /\ BeginsAt(t, Len(t)) = Len(Utf8Of(t)) + 1
           /\ \A k \in 1 .. Len(t) :
                /\ StandsAt(Utf8Of(t), BeginsAt(t, k - 1), Utf8Bytes(t[k]))
                /\ BeginsAt(t, k) = BeginsAt(t, k - 1) + Len(Utf8Bytes(t[k]))
                /\ BeginsAt(t, k - 1) \in Nat /\ Len(Utf8Bytes(t[k])) \in Nat
<1> DEFINE B == 0 .. 255
<1>1. IsMap(Utf8Table, Char, Seq(B)) /\ \A c \in Char : Utf8Table[c] = Utf8Bytes(c)
  BY Utf8BytesTyped DEF Utf8Table, IsMap
<1> HIDE DEF B
<1>2. Utf8Of(t) \in Seq(B)
  BY <1>1, FlattenVia DEF Utf8Of
<1>3. BeginsAt(t, 0) = 1 /\ BeginsAt(t, Len(t)) = Len(Utf8Of(t)) + 1
  <2>1. SubSeq(t, 1, 0) = <<>> /\ SubSeq(t, 1, Len(t)) = t
    <3>1. SubSeq(t, 1, 0) = <<>>
      OBVIOUS
    <3>2. SubSeq(t, 1, Len(t)) = t
      OBVIOUS
    <3> QED
      BY <3>1, <3>2
  <2>2. Utf8Of(<<>>) = <<>>
    BY Utf8Empty
  <2>3. Len(<<>>) + 1 = 1
    OBVIOUS
  <2> QED
    BY <2>1, <2>2, <2>3 DEF BeginsAt
<1>4. ASSUME NEW k \in 1 .. Len(t)
      PROVE  /\ StandsAt(Utf8Of(t), BeginsAt(t, k - 1), Utf8Bytes(t[k]))
             /\ BeginsAt(t, k) = BeginsAt(t, k - 1) + Len(Utf8Bytes(t[k]))
             /\ BeginsAt(t, k - 1) \in Nat /\ Len(Utf8Bytes(t[k])) \in Nat
  <2> DEFINE p == SubSeq(t, 1, k - 1)
             q == SubSeq(t, 1, k)
             r == SubSeq(t, k + 1, Len(t))
             x == t[k]
             u == Utf8Bytes(x)
             a == Utf8Of(p)
             d == Utf8Of(r)
  <2>1. p \in Seq(Char) /\ x \in Char /\ q = Append(p, x)
    BY FirstElements
  <2>2. q \in Seq(Char) /\ r \in Seq(Char) /\ t = q \o r
    BY TwoParts
  <2> HIDE DEF p, q, r, x
  <2>3. a \in Seq(B) /\ d \in Seq(B) /\ u \in Seq(B)
    <3>1. u \in Seq(B)
      BY <2>1, Utf8BytesTyped DEF B
    <3> QED
      BY <1>1, <2>1, <2>2, <3>1, FlattenVia DEF Utf8Of
  <2>4. Utf8Of(q) = a \o u
    BY <2>1, Utf8Append
  <2>5. Utf8Of(q \o r) = Utf8Of(q) \o d
    BY <1>1, <2>2, FlattenViaConcat DEF Utf8Of
  <2>6. Utf8Of(t) = (a \o u) \o d
    BY <2>2, <2>4, <2>5
  <2>7. Len(a \o u) = Len(a) + Len(u) /\ Len(a) \in Nat /\ Len(u) \in Nat
    <3> HIDE DEF a, u
    <3> QED
      BY <2>3
  <2>8. BeginsAt(t, k - 1) = Len(a) + 1 /\ BeginsAt(t, k) = Len(Utf8Of(q)) + 1
    BY DEF BeginsAt, p, q
  <2>9. StandsAt(Utf8Of(t), BeginsAt(t, k - 1), u)
    <3> HIDE DEF a, d, u
    <3> QED
      BY <2>3, <2>6, <2>8, StandsBetween DEF B
  <2>10. BeginsAt(t, k) = BeginsAt(t, k - 1) + Len(u) /\ BeginsAt(t, k - 1) \in Nat
    <3> HIDE DEF a, u
    <3> QED
      BY <2>4, <2>7, <2>8
  <2> QED
    BY <2>7, <2>9, <2>10 DEF x
<1> QED
  BY <1>2, <1>3, <1>4 DEF B

(* A text is read back from its bytes.                                       *)
LEMMA Utf8Back ==
    ASSUME NEW t \in Seq(Char)
    PROVE  DecodeUtf8(Utf8Of(t)) = [text |-> t, errors |-> FALSE]
<1> DEFINE b == Utf8Of(t)
           n == Len(t)
           at(k) == BeginsAt(t, k)
           rest(k) == SubSeq(t, k + 1, n)
<1>1. /\ b \in Seq(0 .. 255) /\ at(0) = 1 /\ at(n) = Len(b) + 1
      /\ \A k \in 1 .. n : /\ StandsAt(b, at(k - 1), Utf8Bytes(t[k]))
                           /\ at(k) = at(k - 1) + Len(Utf8Bytes(t[k]))
                           /\ at(k - 1) \in Nat /\ Len(Utf8Bytes(t[k])) \in Nat
  BY CharsInBytes
<1>2. n \in Nat /\ Len(b) \in Nat /\ \A k \in 1 .. n : t[k] \in Char
  BY <1>1
<1>3. rest(0) = t /\ rest(n) = <<>>
  OBVIOUS
<1>4. ASSUME NEW k \in 1 .. n
      PROVE  rest(k - 1) = <<t[k]>> \o rest(k)
  <2> DEFINE p == SubSeq(t, 1, k - 1)
             q == rest(k - 1)
             r == rest(k)
             x == t[k]
             one == <<x>>
             z == one \o r
  <2>1. k - 1 \in 0 .. n /\ k \in 1 .. n /\ k \in Nat
    BY <1>2
  <2>2. q \in Seq(Char) /\ Len(q) = n - (k - 1) /\ \A j \in 1 .. n - (k - 1) : q[j] = t[j + (k - 1)]
    BY <2>1
  <2>3. r \in Seq(Char) /\ Len(r) = n - k /\ \A j \in 1 .. n - k : r[j] = t[j + k]
    BY <2>1
  <2>4. x \in Char
    OBVIOUS
  <2> HIDE DEF q, r, x
  <2>5. one \in Seq(Char) /\ Len(one) = 1 /\ one[1] = x
    BY <2>4
  <2> HIDE DEF one
  <2>6. /\ z \in Seq(Char) /\ Len(z) = 1 + Len(r) /\ z[1] = x
        /\ \A j \in 1 .. Len(r) : z[1 + j] = r[j]
    <3>1. /\ z \in Seq(Char) /\ Len(z) = Len(one) + Len(r)
          /\ \A j \in 1 .. Len(one) : z[j] = one[j]
          /\ \A j \in 1 .. Len(r) : z[Len(one) + j] = r[j]
      <4>1. one \in Seq(Char) /\ r \in Seq(Char)
        BY <2>3, <2>5
      <4> QED
        BY <4>1, ConcatElements
    <3> QED
      BY <2>5, <3>1
  <2> HIDE DEF z
  <2>7. Len(z) = Len(q)
    BY <1>2, <2>1, <2>2, <2>3, <2>6
  <2>8. ASSUME NEW j \in 1 .. Len(q)
        PROVE  z[j] = q[j]
    <3>1. CASE j = 1
      <4>1. q[1] = t[1 + (k - 1)] /\ 1 + (k - 1) = k
        BY <2>1, <2>2, <3>1
      <4> QED
        BY <2>6, <3>1, <4>1 DEF x
    <3>2. CASE j # 1
      <4>1. j - 1 \in 1 .. n - k /\ 1 + (j - 1) = j /\ j \in 1 .. n - (k - 1)
            /\ (j - 1) + k = j + (k - 1)
        BY <2>1, <2>2, <3>2
      <4>2. z[1 + (j - 1)] = r[j - 1] /\ r[j - 1] = t[(j - 1) + k]
        BY <2>3, <2>6, <4>1
      <4>3. q[j] = t[j + (k - 1)]
        BY <2>2, <4>1
      <4> QED
        BY <4>1, <4>2, <4>3
    <3> QED
      BY <3>1, <3>2
  <2>9. z = q
    BY <2>2, <2>6, <2>7, <2>8, SeqEqual
  <2> QED
    BY <2>9 DEF z, q, r, one, x
<1>5. PICK c : IsDecoder(c, b)
  BY <1>2, DecoderExists
<1> HIDE DEF b, n, at, rest
<1> DEFINE T == {j \in 0 .. n : c[at(n - j)] = <<rest(n - j), FALSE>>}
<1>6. 0 \in T
  <2>1. n - 0 = n /\ 0 \in 0 .. n
    BY <1>2
  <2> QED
    BY <1>1, <1>3, <1>5, <2>1 DEF IsDecoder
<1>7. ASSUME NEW j \in 1 .. n, j - 1 \in T
      PROVE  j \in T
  <2> DEFINE k == n - (j - 1)
             i == at(k - 1)
             u == Utf8Bytes(t[k])
  <2>1. k \in 1 .. n /\ n - j = k - 1 /\ j \in 0 .. n
    BY <1>2
  <2>2. c[at(k)] = <<rest(k), FALSE>>
    BY <1>7
  <2>3. StandsAt(b, i, u) /\ at(k) = i + Len(u) /\ i \in Nat /\ Len(u) \in Nat
    BY <1>1, <2>1
  <2>4. ReadsChar(b, i, t[k], Len(u) - 1) /\ Len(u) \in 1 .. 4
    BY <1>2, <2>1, <2>3, CharBack
  <2> HIDE DEF k, i, u
  <2>5. i \in 1 .. Len(b)
    <3>1. i >= 1 /\ i + Len(u) <= Len(b) + 1 /\ i \in Nat
      BY <2>3 DEF StandsAt
    <3> DEFINE m == Len(u)
               l == Len(b)
    <3>2. m \in 1 .. 4 /\ l \in Nat /\ i + m <= l + 1
      BY <1>2, <2>4, <3>1
    <3> HIDE DEF m, l
    <3>3. i \in 1 .. l
      BY <3>1, <3>2
    <3> QED
      BY <3>3 DEF l
  <2>6. Utf8Run(b, i) = Len(u) - 1 /\ Whole(b, i) /\ Utf8Char(b, i, Utf8Run(b, i)) = t[k]
    BY <2>4 DEF ReadsChar, Whole
  <2>7. NextAt(b, i) = at(k)
    BY <2>3, <2>6 DEF NextAt
  <2>8. DecodesFrom(c, b, i)
    BY <1>5, <2>5 DEF IsDecoder
  <2>9. c[i] = <<<<t[k]>> \o c[at(k)][1], c[at(k)][2]>>
    BY <2>6, <2>7, <2>8 DEF DecodesFrom
  <2>10. c[at(k)][1] = rest(k) /\ c[at(k)][2] = FALSE
    BY <2>2
  <2>11. c[i] = <<rest(k - 1), FALSE>>
    BY <1>4, <2>1, <2>9, <2>10
  <2>12. c[at(n - j)] = <<rest(n - j), FALSE>>
    BY <2>1, <2>11 DEF i
  <2> QED
    BY <2>1, <2>12
<1>8. n \in T
  <2> HIDE DEF T
  <2>1. Climbs(T, n) /\ n \in 0 .. n
    BY <1>2, <1>6, <1>7 DEF Climbs
  <2> QED
    BY <1>2, <2>1, UpTo
<1>9. c[1] = <<t, FALSE>>
  <2>1. n - n = 0
    BY <1>2
  <2> QED
    BY <1>1, <1>3, <1>8, <2>1
<1>10. c[1][1] = t /\ c[1][2] = FALSE
  BY <1>9
<1> QED
  BY <1>5, <1>10 DEF IsDecoder, b

(* The bytes of an ending are the bytes of it as a text.                     *)
LEMMA SmallBytes ==
    ASSUME NEW e \in Seq(0 .. 255), \A i \in DOMAIN e : e[i] < 128
    PROVE  e \in Seq(Char) /\ Utf8Of(e) = e
<1> DEFINE B == {x \in 0 .. 255 : x < 128}
           P == {s \in Seq(B) : Utf8Of(s) = s}
<1>1. B \subseteq Char /\ \A x \in B : Utf8Bytes(x) = <<x>>
  <2>1. ASSUME NEW x \in B
        PROVE  x \in Char /\ Utf8Bytes(x) = <<x>>
    <3>1. x \in 0 .. 255 /\ x \in Nat /\ x < 128
      OBVIOUS
    <3>2. x \in Char
      BY <3>1, SmallChars
    <3>3. Utf8Bytes(x) = <<x>>
      <4> DEFINE tail(n) == 128 + ((x \div (64 ^ n)) % 64)
      <4> HIDE DEF tail
      <4>1. Utf8Bytes(x) = CASE x < 128 -> <<x>>
                  [] 128 <= x /\ x < 2048 -> <<192 + x \div 64, tail(0)>>
                  [] 2048 <= x /\ x < 65536 -> <<224 + x \div 4096, tail(1), tail(0)>>
                  [] OTHER -> <<240 + x \div 262144, tail(2), tail(1), tail(0)>>
        BY SMT DEF Utf8Bytes, tail
      <4> QED
        BY <3>1, <4>1, SMT
    <3> QED
      BY <3>2, <3>3
  <2> QED
    BY <2>1
<1>2. e \in Seq(B)
  <2>1. \A i \in 1 .. Len(e) : e[i] \in B
    OBVIOUS
  <2>2. e \in [1 .. Len(e) -> B] /\ Len(e) \in Nat
    <3> HIDE DEF B
    <3> QED
      BY <2>1
  <2> HIDE DEF B
  <2> QED
    BY <2>2, FunctionIsSeq
<1> HIDE DEF B
<1>3. ASSUME NEW s \in Seq(B)
      PROVE  s \in Seq(Char)
  BY <1>1, SeqSubset
<1>5. <<>> \in P
  <2>1. <<>> \in Seq(B)
    OBVIOUS
  <2> QED
    BY <2>1, Utf8Empty
<1>6. ASSUME NEW s \in Seq(B), NEW x \in B, s \in P
      PROVE  Append(s, x) \in P
  <2>1. s \in Seq(Char) /\ x \in Char /\ Utf8Bytes(x) = <<x>>
    BY <1>1, <1>3
  <2>2. Utf8Of(Append(s, x)) = Utf8Of(s) \o <<x>>
    BY <2>1, Utf8Append
  <2>3. Append(s, x) = s \o <<x>> /\ Append(s, x) \in Seq(B)
    OBVIOUS
  <2>4. Utf8Of(s) = s
    BY <1>6
  <2>5. Utf8Of(Append(s, x)) = Append(s, x)
    BY <2>2, <2>3, <2>4
  <2> QED
    BY <2>3, <2>5
<1>7. e \in P
  <2> HIDE DEF P
  <2>1. Grows(P, B)
    BY <1>5, <1>6 DEF Grows
  <2> QED
    BY <1>2, <2>1, GrowInduction
<1> QED
  BY <1>2, <1>3, <1>7

(* The elements of a prefix.                                                 *)
LEMMA PrefixElements ==
    ASSUME NEW S, NEW m \in Seq(S), NEW b \in Seq(S), IsPrefix(m, b)
    PROVE  \A k \in 1 .. Len(m) : m[k] = b[k]
<1>1. Len(m) \in Nat /\ Len(m) <= Len(b) /\ Len(b) \in Nat
  BY DEF IsPrefix
<1> DEFINE p == SubSeq(m, 1, Len(m))
           q == SubSeq(b, 1, Len(m))
<1>2. p = q
  BY DEF IsPrefix
<1>3. \A k \in 1 .. Len(m) : p[k] = m[k]
  BY <1>1
<1>4. \A k \in 1 .. Len(m) : q[k] = b[k]
  BY <1>1
<1> HIDE DEF p, q
<1> QED
  BY <1>2, <1>3, <1>4

(* The first elements of a sequence that begins with two or three given      *)
(* ones.                                                                     *)
LEMMA ShortPrefix ==
    ASSUME NEW S, NEW b \in Seq(S), NEW x \in S, NEW y \in S, NEW z \in S
    PROVE  /\ IsPrefix(<<x, y, z>>, b) => b[1] = x /\ b[2] = y /\ b[3] = z
           /\ IsPrefix(<<x, y>>, b) => b[1] = x /\ b[2] = y
<1> DEFINE m == <<x, y, z>>
           k == <<x, y>>
<1>1. m \in Seq(S) /\ Len(m) = 3 /\ m[1] = x /\ m[2] = y /\ m[3] = z
  OBVIOUS
<1>2. k \in Seq(S) /\ Len(k) = 2 /\ k[1] = x /\ k[2] = y
  OBVIOUS
<1> HIDE DEF m, k
<1>3. ASSUME IsPrefix(m, b)
      PROVE  b[1] = x /\ b[2] = y /\ b[3] = z
  <2>1. \A i \in 1 .. Len(m) : m[i] = b[i]
    BY <1>1, <1>3, PrefixElements
  <2>2. 1 \in 1 .. Len(m) /\ 2 \in 1 .. Len(m) /\ 3 \in 1 .. Len(m)
    BY <1>1
  <2> QED
    BY <1>1, <2>1, <2>2
<1>4. ASSUME IsPrefix(k, b)
      PROVE  b[1] = x /\ b[2] = y
  <2>1. \A i \in 1 .. Len(k) : k[i] = b[i]
    BY <1>2, <1>4, PrefixElements
  <2>2. 1 \in 1 .. Len(k) /\ 2 \in 1 .. Len(k)
    BY <1>2
  <2> QED
    BY <1>2, <2>1, <2>2
<1> QED
  BY <1>3, <1>4 DEF m, k

(* Bytes that begin with a byte order mark, by their first bytes.            *)
LEMMA MarkPrefix ==
    ASSUME NEW b \in Seq(0 .. 255)
    PROVE  /\ IsPrefix(<<239, 187, 191>>, b) => b[1] = 239 /\ b[2] = 187 /\ b[3] = 191
           /\ IsPrefix(<<255, 254>>, b) => b[1] = 255
           /\ IsPrefix(<<254, 255>>, b) => b[1] = 254
<1> DEFINE B == 0 .. 255
           x1 == 239
           x2 == 187
           x3 == 191
           x4 == 254
           x5 == 255
<1>1. b \in Seq(B)
  OBVIOUS
<1>2. x1 \in B /\ x2 \in B /\ x3 \in B /\ x4 \in B /\ x5 \in B
  OBVIOUS
<1> HIDE DEF B, x1, x2, x3, x4, x5
<1>3. IsPrefix(<<x1, x2, x3>>, b) => b[1] = x1 /\ b[2] = x2 /\ b[3] = x3
  BY <1>1, <1>2, ShortPrefix, Zenon
<1>4. IsPrefix(<<x5, x4>>, b) => b[1] = x5
  BY <1>1, <1>2, ShortPrefix, Zenon
<1>5. IsPrefix(<<x4, x5>>, b) => b[1] = x4
  BY <1>1, <1>2, ShortPrefix, Zenon
<1> QED
  BY <1>3, <1>4, <1>5 DEF x1, x2, x3, x4, x5

(* Bytes that begin with no byte order mark are UTF-8.                       *)
LEMMA NoMark ==
    ASSUME NEW b, ~IsPrefix(<<239, 187, 191>>, b), ~IsPrefix(<<255, 254>>, b),
           ~IsPrefix(<<254, 255>>, b)
    PROVE  DecodeSniffed(b) = DecodeUtf8(b)
<1> DEFINE odd == Len(b) % 2 = 1
           units(big) == UnitsOf(IF odd THEN Front(Drop(b, 2)) ELSE Drop(b, 2), big)
           utf16(big) == [text |-> Utf16Text(units(big))
                                     \o (IF odd THEN <<Replacement>> ELSE <<>>),
                          errors |-> odd \/ \E i \in DOMAIN units(big) : Alone(units(big), i)]
           x1 == DecodeUtf8(Drop(b, 3))
           x2 == utf16(FALSE)
           x3 == utf16(TRUE)
           x4 == DecodeUtf8(b)
           c1 == IsPrefix(<<239, 187, 191>>, b)
           c2 == IsPrefix(<<255, 254>>, b)
           c3 == IsPrefix(<<254, 255>>, b)
<1>1. DecodeSniffed(b) = CASE c1 -> x1 [] c2 -> x2 [] c3 -> x3 [] OTHER -> x4
  BY Zenon DEF DecodeSniffed
<1>2. ~c1 /\ ~c2 /\ ~c3
  OBVIOUS
<1> HIDE DEF c1, c2, c3, x1, x2, x3, x4
<1>3. DecodeSniffed(b) = x4
  BY <1>1, <1>2
<1> QED
  BY <1>3 DEF x4

(* A text that begins with no byte order mark is read back as it is sent.    *)
Unmarked(t) == t # <<>> => t[1] # 65279

(* A text in UTF-8 that does not begin with a mark is read back without an   *)
(* error.                                                                    *)
LEMMA SniffedBack ==
    ASSUME NEW t \in Seq(Char), Unmarked(t)
    PROVE  DecodeSniffed(Utf8Of(t)) = [text |-> t, errors |-> FALSE]
<1> DEFINE b == Utf8Of(t)
<1>0. DecodeUtf8(b) = [text |-> t, errors |-> FALSE]
  BY Utf8Back
<1>1. b \in Seq(0 .. 255) /\ Len(b) \in Nat
  BY CharsInBytes
<1>2. CASE t = <<>>
  <2>1. b = <<>>
    BY <1>2, Utf8Empty
  <2> HIDE DEF b
  <2>2. Len(b) = 0
    BY <2>1
  <2>3. ~IsPrefix(<<239, 187, 191>>, b) /\ ~IsPrefix(<<255, 254>>, b) /\ ~IsPrefix(<<254, 255>>, b)
    BY <2>2 DEF IsPrefix
  <2>4. DecodeSniffed(b) = DecodeUtf8(b)
    BY <2>3, NoMark
  <2> QED
    BY <1>0, <2>4 DEF b
<1>3. CASE t # <<>>
  <2> DEFINE c == t[1]
             n == Len(Utf8Bytes(c)) - 1
  <2>1. c \in Char /\ c # 65279 /\ 1 \in 1 .. Len(t)
    BY <1>3 DEF Unmarked
  <2>2. StandsAt(b, 1, Utf8Bytes(c))
    <3>1. StandsAt(b, BeginsAt(t, 1 - 1), Utf8Bytes(t[1])) /\ BeginsAt(t, 0) = 1
      BY <2>1, CharsInBytes
    <3>2. 1 - 1 = 0
      OBVIOUS
    <3> QED
      BY <3>1, <3>2
  <2>3. ReadsChar(b, 1, c, n)
    BY <2>1, <2>2, CharBack
  <2> HIDE DEF b, c, n
  <2>4. b[1] \in (0 .. 127) \cup (194 .. 244) /\ Utf8Tails(b[1]) = n /\ Utf8Char(b, 1, n) = c
    BY <2>3 DEF ReadsChar
  <2>5. b[1] # 255 /\ b[1] # 254
    <3> DEFINE x == b[1]
    <3>1. x \in (0 .. 127) \cup (194 .. 244)
      BY <2>4
    <3> HIDE DEF x
    <3>2. x # 255 /\ x # 254
      BY <3>1
    <3> QED
      BY <3>2 DEF x
  <2>6. ~(b[1] = 239 /\ b[2] = 187 /\ b[3] = 191)
    <3> SUFFICES ASSUME b[1] = 239, b[2] = 187, b[3] = 191
                 PROVE  FALSE
      OBVIOUS
    <3>1. n = 2
      BY <2>4 DEF Utf8Tails
    <3>2. IsRunAt(b, 1, 2)
      <4>1. \A k \in 0 .. 2 : k = 0 \/ k = 1 \/ k = 2
        OBVIOUS
      <4>2. b[1 + 0] = 239 /\ b[1 + 1] = 187 /\ b[1 + 2] = 191
        OBVIOUS
      <4>3. \A k \in 0 .. 2 : b[1 + k] \in Nat
        BY <4>1, <4>2
      <4> QED
        BY <4>3 DEF IsRunAt
    <3>3. Utf8Char(b, 1, 2)
            = 64 * (64 * (b[1] % 16) + (b[1 + 1] % 64)) + (b[1 + 2] % 64)
      BY <3>2, CharValue
    <3>4. 1 + 1 = 2 /\ 1 + 2 = 3
      OBVIOUS
    <3>5. 64 * (64 * (239 % 16) + (187 % 64)) + (191 % 64) = 65279
      BY SMT
    <3> QED
      BY <2>1, <2>4, <3>1, <3>3, <3>4, <3>5
  <2>7. /\ IsPrefix(<<239, 187, 191>>, b) => b[1] = 239 /\ b[2] = 187 /\ b[3] = 191
        /\ IsPrefix(<<255, 254>>, b) => b[1] = 255
        /\ IsPrefix(<<254, 255>>, b) => b[1] = 254
    <3>1. b \in Seq(0 .. 255)
      BY <1>1 DEF b
    <3> QED
      BY <3>1, MarkPrefix
  <2>8. ~IsPrefix(<<239, 187, 191>>, b) /\ ~IsPrefix(<<255, 254>>, b) /\ ~IsPrefix(<<254, 255>>, b)
    BY <2>5, <2>6, <2>7
  <2>9. DecodeSniffed(b) = DecodeUtf8(b)
    BY <2>8, NoMark
  <2> QED
    BY <1>0, <2>9 DEF b
<1> QED
  BY <1>2, <1>3

-----------------------------------------------------------------------------
(* Messages read back.                                                       *)
(* A text that is sent without checksum is its bytes and those of its ending. *)
LEMMA TextPayload ==
    ASSUME NEW r, IsRequest(r), r.format = "text", r.checksum = "none",
           NEW p \in BuildPayload(r), NEW e \in Ending(r)
    PROVE  /\ TextOf(r) \in Texts /\ e \in Seq(0 .. 255) /\ Ending(r) = {e}
           /\ p.bytes \in Seq(0 .. 255)
           /\ p.bytes = EncodeText(TextOf(r), r.encoding) \o e
<1>1. r.content \in Texts
  BY TextsTyped DEF IsRequest
<1>2. TextOf(r) \in Texts
  BY <1>1, UnescapeTyped DEF TextOf
<1>3. e \in Seq(0 .. 255) /\ Ending(r) = {e}
  BY EndingTyped
<1>4. PICK content, ending : Assembled(r, p, content, ending)
  BY PayloadTyped
<1> DEFINE sum == Checksum(content \o ending, r.checksum, r.checksumBigEndian)
<1>5. /\ content \in Seq(0 .. 255) /\ ending \in Seq(0 .. 255) /\ sum \in Seq(0 .. 255)
      /\ Len(sum) = SumWidth(r.checksum)
      /\ content \in ContentBytes(r) /\ ending \in Ending(r)
      /\ p.bytes = content \o ending \o sum
  BY <1>4 DEF Assembled
<1>6. content = EncodeText(TextOf(r), r.encoding)
  <2>1. ContentBytes(r) = {EncodeText(TextOf(r), r.encoding)}
    BY DEF ContentBytes
  <2> QED
    BY <1>5, <2>1
<1>7. ending = e
  BY <1>3, <1>5
<1>8. sum = <<>>
  <2>1. SumWidth(r.checksum) = 0
    BY DEF SumWidth, CrcOf
  <2> HIDE DEF sum
  <2> QED
    BY <1>5, <2>1
<1> HIDE DEF sum
<1>9. p.bytes = content \o ending /\ content \o ending \in Seq(0 .. 255)
  <2> DEFINE B == 0 .. 255
             z == content \o ending
  <2>1. content \in Seq(B) /\ ending \in Seq(B)
    BY <1>5
  <2> HIDE DEF B
  <2>2. z \in Seq(B)
    BY <2>1, ConcatElements
  <2> HIDE DEF z
  <2>3. z \o <<>> = z
    BY <2>2
  <2>4. p.bytes = z \o sum
    BY <1>5 DEF z
  <2>5. p.bytes = z
    BY <1>8, <2>3, <2>4
  <2> QED
    BY <2>2, <2>5 DEF z, B
<1> QED
  BY <1>2, <1>3, <1>6, <1>7, <1>9

(* Bytes in front of which stand those of a text are those of a text.        *)
LEMMA Utf8Concat ==
    ASSUME NEW t \in Texts, NEW e \in Seq(0 .. 255), \A i \in DOMAIN e : e[i] < 128
    PROVE  /\ t \o e \in Texts /\ e \in Texts
           /\ FlatMap(Utf8Bytes, t) \o e = Utf8Of(t \o e)
<1> DEFINE B == 0 .. 255
<1>1. IsMap(Utf8Table, Char, Seq(B))
  BY Utf8BytesTyped DEF Utf8Table, IsMap
<1>2. e \in Seq(Char) /\ Utf8Of(e) = e
  BY SmallBytes
<1> HIDE DEF B
<1>3. t \in Seq(Char)
  BY DEF Texts
<1>4. Utf8Of(t \o e) = Utf8Of(t) \o Utf8Of(e)
  <2>1. e \in Seq(Char)
    BY <1>2
  <2> QED
    BY <1>1, <1>3, <2>1, FlattenViaConcat DEF Utf8Of
<1>5. FlatMap(Utf8Bytes, t) = Utf8Of(t)
  BY Utf8Is DEF Utf8Of
<1>6. t \o e \in Seq(Char)
  <2>1. e \in Seq(Char)
    BY <1>2
  <2> QED
    BY <1>3, <2>1, ConcatElements
<1> QED
  BY <1>2, <1>4, <1>5, <1>6 DEF Texts

(* A sequence begins with its first element.                                 *)
LEMMA FirstIsPrefix ==
    ASSUME NEW S, NEW t \in Seq(S), t # <<>>, NEW x, t[1] = x
    PROVE  IsPrefix(<<x>>, t)
<1> DEFINE u == <<x>>
<1>1. Len(t) >= 1 /\ 1 \in 1 .. Len(t) /\ 1 - 1 = 0
  OBVIOUS
<1>2. SubSeq(t, 1, 1) = Append(SubSeq(t, 1, 1 - 1), t[1]) /\ SubSeq(t, 1, 0) = <<>>
  BY <1>1, FirstElements
<1>3. Append(<<>>, x) = u /\ Len(u) = 1 /\ SubSeq(u, 1, 1) = u
  <2>1. Append(<<>>, x) = u
    OBVIOUS
  <2>2. Len(u) = 1
    OBVIOUS
  <2>3. SubSeq(u, 1, 1) = u
    <3>1. u \in Seq({x}) /\ Len(u) = 1 /\ 1 \in 1 .. Len(u)
      OBVIOUS
    <3> HIDE DEF u
    <3> QED
      BY <3>1, FirstElements
  <2> QED
    BY <2>1, <2>2, <2>3
<1>4. SubSeq(t, 1, 1) = u
  BY <1>1, <1>2, <1>3
<1> HIDE DEF u
<1>5. IsPrefix(u, t)
  BY <1>1, <1>3, <1>4 DEF IsPrefix
<1> QED
  BY <1>5 DEF u

(* A text that begins with no byte order mark, and its ending, begin with    *)
(* none.                                                                     *)
LEMMA NoMarkFirst ==
    ASSUME NEW t \in Texts, ~IsPrefix(<< 65279 >>, t), NEW e \in Texts,
           \A i \in DOMAIN e : e[i] < 128
    PROVE  Unmarked(t \o e)
<1> DEFINE mark == 65279
           z == t \o e
<1>1. t \in Seq(Char) /\ e \in Seq(Char) /\ Len(t) \in Nat /\ Len(e) \in Nat
  BY DEF Texts
<1>2. mark \in Int /\ ~(mark < 128)
  BY SMT
<1>3. ~IsPrefix(<<mark>>, t)
  OBVIOUS
<1> HIDE DEF mark
<1>4. t # <<>> => t[1] # mark
  <2> SUFFICES ASSUME t # <<>>, t[1] = mark
               PROVE  FALSE
    OBVIOUS
  <2>1. t \in Seq(Char)
    BY <1>1
  <2>2. IsPrefix(<<mark>>, t)
    BY <2>1, FirstIsPrefix
  <2> QED
    BY <1>3, <2>2
<1>5. CASE t = <<>>
  <2>1. z = e
    BY <1>1, <1>5
  <2>2. e # <<>> => 1 \in DOMAIN e
    BY <1>1
  <2>3. e # <<>> => e[1] # mark
    BY <1>2, <2>2
  <2> QED
    BY <2>1, <2>3 DEF mark, Unmarked
<1>6. CASE t # <<>>
  <2>1. 1 \in 1 .. Len(t)
    BY <1>1, <1>6
  <2>2. z[1] = t[1]
    <3>1. t \in Seq(Char) /\ e \in Seq(Char)
      BY <1>1
    <3> QED
      BY <2>1, <3>1, ConcatElements
  <2> QED
    BY <1>4, <1>6, <2>2 DEF mark, Unmarked
<1> QED
  BY <1>5, <1>6

(* What the receiver reads of a text and its ending is the text and the      *)
(* ending, with an error where half a unit is left over.                     *)
ReadsAs(encoding, text, e) ==
    LET d == DecodeText(EncodeText(text, encoding) \o e, encoding)
    IN  d.text = text \o e /\ (d.errors <=> encoding = "utf-16le" /\ e # <<>>)
EndReads(encoding, e) ==
    CASE encoding = "utf-16be" -> e = <<>>
      [] encoding = "utf-16le" -> Len(e) <= 1
      [] OTHER -> \A i \in DOMAIN e : e[i] < 128

(* So are a text in UTF-8 and the line ending behind it.                     *)
LEMMA Utf8Reads ==
    ASSUME NEW t \in Texts, NEW e \in Seq(0 .. 255),
           Carries("utf-8", t), EndReads("utf-8", e)
    PROVE  ReadsAs("utf-8", t, e)
<1> DEFINE z == t \o e
           b == Utf8Of(z)
<1>1. ~IsPrefix(<< 65279 >>, t)
  BY SMT DEF Carries
<1>2. \A i \in DOMAIN e : e[i] < 128
  BY DEF EndReads
<1>3. z \in Texts /\ e \in Texts /\ FlatMap(Utf8Bytes, t) \o e = b
  BY <1>2, Utf8Concat
<1>4. Unmarked(z)
  BY <1>1, <1>2, <1>3, NoMarkFirst
<1>6. z \in Seq(Char)
  BY <1>3 DEF Texts
<1> HIDE DEF z
<1>7. DecodeSniffed(b) = [text |-> z, errors |-> FALSE]
  BY <1>4, <1>6, SniffedBack
<1>8. EncodeText(t, "utf-8") = FlatMap(Utf8Bytes, t)
  BY EncodeIs
<1>9. DecodeText(b, "utf-8") = DecodeSniffed(b)
  BY DecodeIs
<1> HIDE DEF b
<1>10. DecodeText(b, "utf-8").text = z /\ DecodeText(b, "utf-8").errors = FALSE
  BY <1>7, <1>9
<1> QED
  BY <1>3, <1>8, <1>10 DEF ReadsAs, z

(* So are a text and its ending in each encoding, where the encoding carries *)
(* the text.                                                                 *)
LEMMA TextReads ==
    ASSUME NEW encoding \in Encodings, NEW t \in Texts, NEW e \in Seq(0 .. 255),
           Carries(encoding, t), EndReads(encoding, e)
    PROVE  ReadsAs(encoding, t, e)
<1>1. encoding \in {"utf-8", "ascii", "latin-1", "utf-16le", "utf-16be"}
  BY DEF Encodings
<1>2. Len(e) \in Nat /\ (Len(e) = 0 <=> e = <<>>)
  OBVIOUS
<1>3. CASE encoding = "utf-16le"
  <2> DEFINE b == EncodeUtf16(t, FALSE) \o e
  <2> DEFINE n == Len(e)
  <2>0. n <= 1 /\ n \in Nat
    BY <1>3 DEF EndReads
  <2> HIDE DEF n
  <2>1. n = 0 \/ n = 1
    BY <2>0
  <2>2. Utf16Text(UnitsOf(b, FALSE)) = t \o e /\ Len(b) % 2 = Len(e)
    BY <2>1, Utf16RoundTrip DEF n
  <2>3. EncodeText(t, encoding) = EncodeUtf16(t, FALSE)
    BY <1>3, EncodeIs
  <2>4. /\ DecodeText(b, "utf-16le").text = Utf16Text(UnitsOf(b, FALSE))
        /\ DecodeText(b, "utf-16le").errors = (Len(b) % 2 # 0)
    BY DecodeIs
  <2> HIDE DEF b
  <2>5. DecodeText(b, encoding).errors <=> e # <<>>
    BY <1>2, <1>3, <2>2, <2>4
  <2>6. DecodeText(b, encoding).text = t \o e
    BY <1>3, <2>2, <2>4
  <2> QED
    BY <1>3, <2>3, <2>5, <2>6 DEF ReadsAs, b
<1>4. CASE encoding = "utf-16be"
  <2> DEFINE b == EncodeUtf16(t, TRUE) \o e
  <2>1. e = <<>> /\ Len(e) = 0
    BY <1>4 DEF EndReads
  <2>2. Utf16Text(UnitsOf(b, TRUE)) = t \o e /\ Len(b) % 2 = Len(e)
    BY <2>1, Utf16RoundTrip
  <2>3. EncodeText(t, encoding) = EncodeUtf16(t, TRUE)
    BY <1>4, EncodeIs
  <2>4. /\ DecodeText(b, "utf-16be").text = Utf16Text(UnitsOf(b, TRUE))
        /\ DecodeText(b, "utf-16be").errors = (Len(b) % 2 # 0)
    BY DecodeIs
  <2> HIDE DEF b
  <2>5. ~DecodeText(b, encoding).errors
    BY <1>4, <2>1, <2>2, <2>4
  <2>6. DecodeText(b, encoding).text = t \o e
    BY <1>4, <2>2, <2>4
  <2> QED
    BY <1>4, <2>3, <2>5, <2>6 DEF ReadsAs, b
<1>5. CASE encoding = "ascii"
  <2> DEFINE b == Narrow(t) \o e
  <2>1. (\A i \in DOMAIN t : t[i] < 128) /\ (\A i \in DOMAIN e : e[i] < 128)
    BY <1>5 DEF Carries, EndReads
  <2>2. Ascii(b) = t \o e /\ ~\E i \in DOMAIN b : b[i] > 127
    BY <2>1, NarrowRoundTrip
  <2>3. EncodeText(t, encoding) = Narrow(t)
    BY <1>5, EncodeIs
  <2>4. /\ DecodeText(b, "ascii").text = Ascii(b)
        /\ DecodeText(b, "ascii").errors = (\E i \in DOMAIN b : b[i] > 127)
    BY DecodeIs
  <2> HIDE DEF b
  <2>5. DecodeText(b, encoding).text = t \o e /\ ~DecodeText(b, encoding).errors
    BY <1>5, <2>2, <2>4
  <2> QED
    BY <1>5, <2>3, <2>5 DEF ReadsAs, b
<1>6. CASE encoding = "latin-1"
  <2> DEFINE b == Narrow(t) \o e
  <2>1. \A i \in DOMAIN t : t[i] < 256
    BY <1>6 DEF Carries
  <2>2. b = t \o e
    BY <2>1, NarrowRoundTrip
  <2>3. EncodeText(t, encoding) = Narrow(t)
    BY <1>6, EncodeIs
  <2>4. DecodeText(b, "latin-1").text = b /\ DecodeText(b, "latin-1").errors = FALSE
    BY DecodeIs
  <2> HIDE DEF b
  <2>5. DecodeText(b, encoding).text = t \o e /\ ~DecodeText(b, encoding).errors
    BY <1>6, <2>2, <2>4
  <2> QED
    BY <1>6, <2>3, <2>5 DEF ReadsAs, b
<1>7. CASE encoding = "utf-8"
  BY <1>7, Utf8Reads
<1> QED
  BY <1>1, <1>3, <1>4, <1>5, <1>6, <1>7

(* What is built of a request with a text reads as the text and its line     *)
(* ending: with an error only where the ending leaves half a unit over in    *)
(* UTF-16.                                                                   *)
LEMMA ReadBack ==
    ASSUME NEW r, IsRequest(r), r.format = "text", r.checksum = "none",
           Carries(r.encoding, TextOf(r)),
           NEW e \in Ending(r), EndingReads(r, e), NEW p \in BuildPayload(r)
    PROVE  /\ DecodeText(p.bytes, r.encoding).text = TextOf(r) \o e
           /\ DecodeText(p.bytes, r.encoding).errors <=> r.encoding = "utf-16le" /\ e # <<>>
           /\ TextOf(r) \in Texts /\ e \in Seq(0 .. 255) /\ Ending(r) = {e}
           /\ p.bytes \in Seq(0 .. 255)
           /\ p.bytes = EncodeText(TextOf(r), r.encoding) \o e
<1>1. /\ TextOf(r) \in Texts /\ e \in Seq(0 .. 255) /\ Ending(r) = {e}
      /\ p.bytes \in Seq(0 .. 255)
      /\ p.bytes = EncodeText(TextOf(r), r.encoding) \o e
  BY TextPayload
<1>2. r.encoding \in Encodings
  BY DEF IsRequest
<1>3. EndReads(r.encoding, e)
  BY DEF EndReads, EndingReads
<1>4. ReadsAs(r.encoding, TextOf(r), e)
  BY <1>1, <1>2, <1>3, TextReads
<1> QED
  BY <1>1, <1>4 DEF ReadsAs

-----------------------------------------------------------------------------
(* Places where one sequence occurs in another.                              *)
Occurrence(p, s, i) == /\ i + Len(p) <= Len(s)
                       /\ \A k \in 1 .. Len(p) : s[i + k] = p[k]

(* A part of a sequence equals another one if it has its elements.           *)
LEMMA SubSeqIs ==
    ASSUME NEW S, NEW s \in Seq(S), NEW p \in Seq(S), NEW i \in Nat,
           i + Len(p) <= Len(s)
    PROVE  SubSeq(s, i + 1, i + Len(p)) = p <=> \A k \in 1 .. Len(p) : s[i + k] = p[k]
<1> DEFINE u == SubSeq(s, i + 1, i + Len(p))
<1>1. Len(s) \in Nat /\ Len(p) \in Nat /\ \A k \in 1 .. Len(p) : i + k = k + i
  OBVIOUS
<1>2. u \in Seq(S) /\ Len(u) = Len(p) /\ \A k \in 1 .. Len(p) : u[k] = s[k + i]
  <2> DEFINE n == Len(p)
             l == Len(s)
  <2>1. n \in Nat /\ l \in Nat /\ i + n <= l /\ DOMAIN s = 1 .. l
    BY <1>1
  <2> HIDE DEF n, l
  <2>2. u = [k \in 1 .. n |-> s[k + i]]
    <3>1. (i + n) - (i + 1) + 1 = n /\ \A k \in 1 .. n : (i + 1) + k - 1 = k + i
      BY <2>1
    <3> QED
      BY <2>1, <3>1 DEF n
  <2>3. \A k \in 1 .. n : s[k + i] \in S
    BY <2>1 DEF l
  <2> QED
    BY <2>1, <2>2, <2>3 DEF n
<1> HIDE DEF u
<1>3. ASSUME u = p
      PROVE  \A k \in 1 .. Len(p) : s[i + k] = p[k]
  BY <1>1, <1>2, <1>3
<1>4. ASSUME \A k \in 1 .. Len(p) : s[i + k] = p[k]
      PROVE  u = p
  <2>1. \A k \in 1 .. Len(u) : u[k] = p[k]
    BY <1>1, <1>2, <1>4
  <2>2. p \in Seq(S) /\ Len(u) = Len(p)
    BY <1>2
  <2> QED
    BY <1>2, <2>1, <2>2, SeqEqual
<1> QED
  BY <1>3, <1>4 DEF u

(* A prefix occurs at the beginning,                                         *)
LEMMA PrefixIs ==
    ASSUME NEW S, NEW s \in Seq(S), NEW p \in Seq(S)
    PROVE  IsPrefix(p, s) <=> Occurrence(p, s, 0)
<1>1. Len(p) \in Nat /\ Len(s) \in Nat /\ SubSeq(p, 1, Len(p)) = p
  OBVIOUS
<1>2. ASSUME Len(p) <= Len(s)
      PROVE  SubSeq(s, 1, Len(p)) = p <=> \A k \in 1 .. Len(p) : s[k] = p[k]
  <2>1. 0 \in Nat /\ 0 + Len(p) <= Len(s) /\ 0 + Len(p) = Len(p) /\ 0 + 1 = 1
    BY <1>1, <1>2
  <2>2. \A k \in 1 .. Len(p) : 0 + k = k
    BY <1>1
  <2>3. SubSeq(s, 0 + 1, 0 + Len(p)) = p <=> \A k \in 1 .. Len(p) : s[0 + k] = p[k]
    BY <2>1, SubSeqIs
  <2> QED
    BY <2>1, <2>2, <2>3
<1>3. 0 + Len(p) = Len(p) /\ \A k \in 1 .. Len(p) : 0 + k = k
  BY <1>1
<1>4. IsPrefix(p, s) <=> Len(p) <= Len(s) /\ SubSeq(s, 1, Len(p)) = p
  BY <1>1 DEF IsPrefix
<1> QED
  BY <1>2, <1>3, <1>4 DEF Occurrence

(* and what occurs does so at a place.                                       *)
LEMMA OccursIs ==
    ASSUME NEW S, NEW s \in Seq(S), NEW p \in Seq(S)
    PROVE  Occurs(p, s) <=> \E i \in 0 .. Len(s) : Occurrence(p, s, i)
<1>1. Len(p) \in Nat /\ Len(s) \in Nat
  OBVIOUS
<1>2. ASSUME NEW i \in 0 .. Len(s)
      PROVE  IsPrefix(p, Drop(s, i)) <=> Occurrence(p, s, i)
  <2> DEFINE u == Drop(s, i)
  <2>1. u \in Seq(S) /\ Len(u) = Len(s) - i /\ \A k \in 1 .. Len(u) : u[k] = s[i + k]
    <3>1. i \in Nat /\ i <= Len(s)
      BY <1>1
    <3> QED
      BY <3>1, DropTyped
  <2> HIDE DEF u
  <2>2. IsPrefix(p, u) <=> Occurrence(p, u, 0)
    BY <2>1, PrefixIs
  <2>3. 0 + Len(p) <= Len(u) <=> i + Len(p) <= Len(s)
    BY <1>1, <2>1
  <2>4. ASSUME i + Len(p) <= Len(s), NEW k \in 1 .. Len(p)
        PROVE  u[0 + k] = s[i + k]
    <3>1. 0 + k = k /\ k \in 1 .. Len(u)
      BY <1>1, <2>1, <2>4
    <3> QED
      BY <2>1, <3>1
  <2> QED
    BY <2>2, <2>3, <2>4 DEF Occurrence, u
<1> QED
  BY <1>2 DEF Occurs

(* The framer means the same by occurring.                                   *)
LEMMA WithinIs ==
    ASSUME NEW S, NEW s \in Seq(S), NEW p \in Seq(S)
    PROVE  /\ \A i \in Nat : RP!OccursAt(p, s, i) <=> Occurrence(p, s, i)
           /\ RP!Within(p, s) <=> Occurs(p, s)
<1>1. ASSUME NEW i \in Nat
      PROVE  RP!OccursAt(p, s, i) <=> Occurrence(p, s, i)
  BY SubSeqIs, ZenonT(30) DEF RP!OccursAt, Occurrence
<1>2. \A i \in 0 .. Len(s) : i \in Nat
  OBVIOUS
<1>3. RP!Within(p, s) <=> \E i \in 0 .. Len(s) : Occurrence(p, s, i)
  BY <1>1, <1>2 DEF RP!Within
<1> QED
  BY <1>1, <1>3, OccursIs

(* Equal sequences that begin with sequences of one length are equal in     *)
(* both parts.                                                               *)
LEMMA SameParts ==
    ASSUME NEW S, NEW x \in Seq(S), NEW y \in Seq(S), NEW s \in Seq(S), NEW t \in Seq(S),
           x \o s = y \o t, Len(x) = Len(y)
    PROVE  x = y /\ s = t
<1>1. SubSeq(x \o s, 1, Len(x)) = x /\ Drop(x \o s, Len(x)) = s
  BY SplitConcat
<1>2. SubSeq(y \o t, 1, Len(y)) = y /\ Drop(y \o t, Len(y)) = t
  BY SplitConcat
<1> QED
  BY <1>1, <1>2

(* A frame: it ends with the first delimiter in it.                          *)
IsFrame(d, x) == RP!Ends(d, x) /\ ~RP!Within(d, Front(x))

(* A sequence without its last element.                                      *)
LEMMA FrontElements ==
    ASSUME NEW S, NEW s \in Seq(S), s # <<>>
    PROVE  /\ Front(s) \in Seq(S) /\ Len(Front(s)) = Len(s) - 1
           /\ \A k \in 1 .. Len(s) - 1 : Front(s)[k] = s[k]
<1> DEFINE m == Len(s) - 1
           u == SubSeq(s, 1, m)
<1>1. m \in Nat /\ m <= Len(s)
  OBVIOUS
<1> HIDE DEF m
<1>2. u \in Seq(S) /\ Len(u) = m /\ \A k \in 1 .. m : u[k] = s[k]
  BY <1>1
<1>3. Front(s) = u
  BY DEF Front, m
<1> HIDE DEF u
<1> QED
  BY <1>2, <1>3 DEF m

(* In a frame the delimiter stands at the end and nowhere before it.         *)
LEMMA FrameTyped ==
    ASSUME NEW S, NEW d \in Seq(S), d # <<>>, NEW x \in Seq(S), IsFrame(d, x)
    PROVE  /\ x # <<>> /\ Len(x) >= Len(d) /\ Len(d) >= 1
           /\ Occurrence(d, x, Len(x) - Len(d))
           /\ \A i \in Nat : i + Len(d) < Len(x) => ~Occurrence(d, x, i)
<1>1. Len(d) \in Nat /\ Len(x) \in Nat /\ Len(d) >= 1
  OBVIOUS
<1>2. Len(x) >= Len(d) /\ RP!OccursAt(d, x, Len(x) - Len(d))
  BY DEF IsFrame, RP!Ends
<1>3. x # <<>> /\ Len(x) - Len(d) \in Nat
  BY <1>1, <1>2
<1>4. Occurrence(d, x, Len(x) - Len(d))
  <2>1. \A i \in Nat : RP!OccursAt(d, x, i) <=> Occurrence(d, x, i)
    BY WithinIs
  <2> QED
    BY <1>2, <1>3, <2>1
<1> DEFINE f == Front(x)
<1>5. f \in Seq(S) /\ Len(f) = Len(x) - 1 /\ \A k \in 1 .. Len(x) - 1 : f[k] = x[k]
  BY <1>3, FrontElements
<1>6. ASSUME NEW i \in Nat, i + Len(d) < Len(x), Occurrence(d, x, i)
      PROVE  FALSE
  <2> HIDE DEF f
  <2>1. Occurrence(d, f, i)
    <3>1. i + Len(d) <= Len(f)
      BY <1>1, <1>5, <1>6
    <3>2. ASSUME NEW k \in 1 .. Len(d)
          PROVE  f[i + k] = d[k]
      <4>1. i + k \in 1 .. Len(x) - 1
        BY <1>1, <1>6
      <4>2. x[i + k] = d[k]
        BY <1>6 DEF Occurrence
      <4> QED
        BY <1>5, <4>1, <4>2
    <3> QED
      BY <3>1, <3>2 DEF Occurrence
  <2>2. i \in 0 .. Len(f)
    BY <1>1, <1>5, <1>6
  <2>3. Occurs(d, f)
    BY <1>5, <2>1, <2>2, OccursIs
  <2>4. RP!Within(d, f)
    BY <1>5, <2>3, WithinIs
  <2> QED
    BY <2>4 DEF IsFrame, f
<1> QED
  BY <1>1, <1>2, <1>3, <1>4, <1>6

(* Two ways to begin with a frame.                                           *)
Meet(S, d, x, s, y, t) ==
    /\ d \in Seq(S) /\ d # <<>>
    /\ x \in Seq(S) /\ IsFrame(d, x) /\ y \in Seq(S) /\ IsFrame(d, y)
    /\ s \in Seq(S) /\ t \in Seq(S) /\ x \o s = y \o t

(* What begins with a frame begins with no other.                            *)
LEMMA NoShorterFrame ==
    ASSUME NEW S, NEW d, NEW x, NEW s, NEW y, NEW t, Meet(S, d, x, s, y, t)
    PROVE  ~(Len(x) < Len(y))
<1> SUFFICES ASSUME Len(x) < Len(y)
             PROVE  FALSE
  OBVIOUS
<1>10. /\ d \in Seq(S) /\ d # <<>>
      /\ x \in Seq(S) /\ IsFrame(d, x) /\ y \in Seq(S) /\ IsFrame(d, y)
      /\ s \in Seq(S) /\ t \in Seq(S) /\ x \o s = y \o t
  BY DEF Meet
<1>1. Len(x) \in Nat /\ Len(y) \in Nat /\ Len(d) \in Nat
  BY <1>10
<1>2. Len(x) >= Len(d) /\ Occurrence(d, x, Len(x) - Len(d))
  BY <1>10, FrameTyped
<1>3. \A i \in Nat : i + Len(d) < Len(y) => ~Occurrence(d, y, i)
  BY <1>10, FrameTyped
<1>0. Len(x) <= Len(y)
  BY <1>1
<1>4. \A k \in 1 .. Len(x) : x[k] = y[k]
  <2>1. \A k \in 1 .. Len(x) : (x \o s)[k] = x[k]
    BY <1>10, ConcatElements
  <2>2. \A k \in 1 .. Len(y) : (y \o t)[k] = y[k]
    BY <1>10, ConcatElements
  <2>3. \A k \in 1 .. Len(x) : k \in 1 .. Len(y)
    BY <1>0, <1>1
  <2> QED
    BY <1>10, <2>1, <2>2, <2>3
<1> DEFINE i == Len(x) - Len(d)
<1>5. i \in Nat /\ i + Len(d) = Len(x)
  BY <1>1, <1>2
<1>6. \A k \in 1 .. Len(d) : x[i + k] = d[k] /\ i + k \in 1 .. Len(x)
  BY <1>1, <1>2, <1>5 DEF Occurrence
<1> HIDE DEF i
<1>7. Occurrence(d, y, i)
  BY <1>1, <1>4, <1>5, <1>6 DEF Occurrence
<1> QED
  BY <1>3, <1>5, <1>7

(* Two frames that begin the same bytes are the same frame.                  *)
LEMMA OneFrame ==
    ASSUME NEW S, NEW d, NEW x, NEW s, NEW y, NEW t, Meet(S, d, x, s, y, t)
    PROVE  x = y
<1>0. /\ d \in Seq(S) /\ d # <<>>
      /\ x \in Seq(S) /\ IsFrame(d, x) /\ y \in Seq(S) /\ IsFrame(d, y)
      /\ s \in Seq(S) /\ t \in Seq(S) /\ x \o s = y \o t
  BY DEF Meet
<1>1. Len(x) \in Nat /\ Len(y) \in Nat
  BY <1>0
<1>2. ~(Len(x) < Len(y))
  BY NoShorterFrame
<1>3. ~(Len(y) < Len(x))
  <2>1. Meet(S, d, y, t, x, s)
    BY <1>0 DEF Meet
  <2> QED
    BY <2>1, NoShorterFrame
<1>4. Len(x) = Len(y)
  BY <1>1, <1>2, <1>3
<1> QED
  BY <1>0, <1>4, SameParts

(* A rest without delimiter begins with no frame.                            *)
LEMMA RestIsNoFrame ==
    ASSUME NEW S, NEW d \in Seq(S), d # <<>>, NEW y \in Seq(S), IsFrame(d, y),
           NEW t \in Seq(S), NEW r \in Seq(S), r = y \o t
    PROVE  RP!Within(d, r)
<1>1. Len(y) \in Nat /\ Len(d) \in Nat /\ Len(t) \in Nat
  OBVIOUS
<1>2. Len(y) >= Len(d) /\ Occurrence(d, y, Len(y) - Len(d))
  BY FrameTyped
<1> DEFINE i == Len(y) - Len(d)
<1>3. i \in Nat /\ i + Len(d) = Len(y)
  BY <1>1, <1>2
<1>4. \A k \in 1 .. Len(d) : y[i + k] = d[k] /\ i + k \in 1 .. Len(y)
  BY <1>1, <1>2, <1>3 DEF Occurrence
<1> HIDE DEF i
<1>5. Len(r) = Len(y) + Len(t) /\ \A k \in 1 .. Len(y) : r[k] = y[k]
  BY ConcatElements
<1>6. Occurrence(d, r, i) /\ i \in 0 .. Len(r)
  BY <1>1, <1>3, <1>4, <1>5 DEF Occurrence
<1>7. Occurs(d, r)
  BY <1>6, OccursIs
<1> QED
  BY <1>7, WithinIs

(* Sequences one behind the other, around one of them.                       *)
LEMMA SplitAt ==
    ASSUME NEW S, NEW s \in Seq(Seq(S)), NEW k \in 1 .. Len(s)
    PROVE  /\ SubSeq(s, 1, k - 1) \in Seq(Seq(S)) /\ FlattenSeq(SubSeq(s, 1, k - 1)) \in Seq(S)
           /\ s[k] \in Seq(S) /\ FlattenSeq(SubSeq(s, k + 1, Len(s))) \in Seq(S)
           /\ FlattenSeq(s) = FlattenSeq(SubSeq(s, 1, k - 1))
                                \o (s[k] \o FlattenSeq(SubSeq(s, k + 1, Len(s))))
<1> DEFINE A == Seq(S)
           p == SubSeq(s, 1, k - 1)
           q == SubSeq(s, 1, k)
           t == SubSeq(s, k + 1, Len(s))
           x == s[k]
           a == FlattenSeq(p)
           c == FlattenSeq(t)
<1>1. s \in Seq(A) /\ k \in 0 .. Len(s)
  OBVIOUS
<1> HIDE DEF A
<1>2. p \in Seq(A) /\ x \in A /\ q = Append(p, x)
  BY <1>1, FirstElements
<1>3. q \in Seq(A) /\ t \in Seq(A) /\ s = q \o t
  BY <1>1, TwoParts
<1> HIDE DEF p, q, t, x
<1>4. a \in Seq(S) /\ c \in Seq(S) /\ x \in Seq(S)
  BY <1>2, <1>3, FlattenTyped DEF A
<1>5. FlattenSeq(q) = a \o x
  BY <1>2, FlattenAppend DEF A
<1>6. FlattenSeq(q \o t) = FlattenSeq(q) \o c
  <2>1. q \in Seq(Seq(S)) /\ t \in Seq(Seq(S))
    BY <1>3 DEF A
  <2> QED
    BY <2>1, FlattenConcat
<1> HIDE DEF a, c
<1>7. (a \o x) \o c = a \o (x \o c)
  BY <1>4
<1> QED
  BY <1>2, <1>3, <1>4, <1>5, <1>6, <1>7 DEF a, c, p, t, x, A

Four(S, a, x, b, r) == a \in Seq(S) /\ x \in Seq(S) /\ b \in Seq(S) /\ r \in Seq(S)

(* Four sequences in a row, put together in two ways.                        *)
LEMMA FourParts ==
    ASSUME NEW S, NEW a, NEW x, NEW b, NEW r, Four(S, a, x, b, r)
    PROVE  (a \o (x \o b)) \o r = a \o (x \o (b \o r))
<1>0. a \in Seq(S) /\ x \in Seq(S) /\ b \in Seq(S) /\ r \in Seq(S)
  BY DEF Four
<1> DEFINE c == x \o b
<1>1. c \in Seq(S)
  BY <1>0, ConcatElements
<1>2. c \o r = x \o (b \o r)
  BY <1>0, ConcatAssociative
<1> HIDE DEF c
<1>3. (a \o c) \o r = a \o (c \o r)
  BY <1>0, <1>1, ConcatAssociative, SMTT(30)
<1> QED
  BY <1>2, <1>3, Zenon DEF c

(* What follows the same beginning is the same.                              *)
LEMMA SameTail ==
    ASSUME NEW S, NEW a \in Seq(S), NEW u \in Seq(S), NEW v \in Seq(S), a \o u = a \o v
    PROVE  u = v
<1>1. Drop(a \o u, Len(a)) = u
  BY SplitConcat
<1>2. Drop(a \o v, Len(a)) = v
  BY SplitConcat
<1> QED
  BY <1>1, <1>2

AllFrames(d, s) == \A i \in 1 .. Len(s) : IsFrame(d, s[i])
SameTo(s, t, k) == k <= Len(t) /\ SubSeq(s, 1, k) = SubSeq(t, 1, k)

TwoSplits(S, d, F, P, r) ==
    /\ d \in Seq(S) /\ d # <<>> /\ F \in Seq(Seq(S)) /\ AllFrames(d, F)
    /\ P \in Seq(Seq(S)) /\ AllFrames(d, P) /\ r \in Seq(S)
    /\ FlattenSeq(F) \o r = FlattenSeq(P)

(* Two cuts of the same bytes that agree on some frames agree on the next    *)
(* one.                                                                      *)
LEMMA NextSame ==
    ASSUME NEW S, NEW d, NEW F, NEW P, NEW r, TwoSplits(S, d, F, P, r),
           NEW k \in 1 .. Len(F), SameTo(F, P, k - 1)
    PROVE  SameTo(F, P, k)
<1> DEFINE p == SubSeq(F, 1, k - 1)
           t == SubSeq(F, k + 1, Len(F))
           a == FlattenSeq(p)
           b == FlattenSeq(t)
           x == F[k]
<1>0. /\ d \in Seq(S) /\ d # <<>> /\ F \in Seq(Seq(S)) /\ AllFrames(d, F)
      /\ P \in Seq(Seq(S)) /\ AllFrames(d, P) /\ r \in Seq(S)
      /\ FlattenSeq(F) \o r = FlattenSeq(P)
  BY DEF TwoSplits
<1>1. /\ p \in Seq(Seq(S)) /\ a \in Seq(S) /\ x \in Seq(S) /\ b \in Seq(S)
      /\ FlattenSeq(F) = a \o (x \o b)
  BY <1>0, SplitAt
<1>2. k - 1 <= Len(P) /\ p = SubSeq(P, 1, k - 1)
  BY DEF SameTo
<1>3. Len(F) \in Nat /\ Len(P) \in Nat /\ k \in Nat
  BY <1>0
<1>4. IsFrame(d, x)
  BY <1>0 DEF AllFrames
<1>5. F \in Seq(Seq(S)) /\ SubSeq(F, 1, k) = Append(p, x)
  <2> DEFINE A == Seq(S)
  <2>1. F \in Seq(A)
    BY <1>0
  <2> HIDE DEF A
  <2>2. SubSeq(F, 1, k) = Append(p, x)
    BY <2>1, FirstElements
  <2> QED
    BY <2>1, <2>2 DEF A
<1> HIDE DEF b, x, p, t
<1> DEFINE u == x \o (b \o r)
<1>6. b \o r \in Seq(S) /\ u \in Seq(S)
  <2>1. x \in Seq(S) /\ b \in Seq(S) /\ r \in Seq(S)
    BY <1>0, <1>1
  <2> QED
    BY <2>1, ConcatElements
<1>7. FlattenSeq(P) = a \o u
  <2> HIDE DEF a
  <2>1. (a \o (x \o b)) \o r = a \o (x \o (b \o r))
    <3>1. Four(S, a, x, b, r)
      BY <1>0, <1>1 DEF Four
    <3> QED
      BY <3>1, FourParts
  <2> QED
    BY <1>0, <1>1, <2>1
<1>8. CASE k <= Len(P)
  <2> DEFINE y == P[k]
             z == SubSeq(P, k + 1, Len(P))
             c == FlattenSeq(z)
             v == y \o c
  <2>1. k \in 1 .. Len(P)
    BY <1>3, <1>8
  <2>2. y \in Seq(S) /\ c \in Seq(S) /\ FlattenSeq(P) = FlattenSeq(SubSeq(P, 1, k - 1)) \o v
    BY <1>0, <2>1, SplitAt
  <2>3. IsFrame(d, y)
    BY <1>0, <2>1 DEF AllFrames
  <2>4. SubSeq(P, 1, k) = Append(SubSeq(P, 1, k - 1), y)
    <3> DEFINE A == Seq(S)
    <3>1. P \in Seq(A)
      BY <1>0
    <3> HIDE DEF A
    <3> QED
      BY <2>1, <3>1, FirstElements
  <2> HIDE DEF y, z, c, a
  <2>5. a \o u = a \o v /\ v \in Seq(S)
    <3>1. v \in Seq(S)
      BY <2>2, ConcatElements
    <3> QED
      BY <1>2, <1>7, <2>2, <3>1 DEF a
  <2>6. u = v
    <3> HIDE DEF u, v
    <3>1. a \in Seq(S) /\ u \in Seq(S) /\ v \in Seq(S) /\ a \o u = a \o v
      BY <1>1, <1>6, <2>5
    <3> QED
      BY <3>1, SameTail
  <2>7. x = y
    <3> DEFINE w == b \o r
    <3>1. w \in Seq(S) /\ x \o w = y \o c
      BY <1>6, <2>6
    <3>2. x \in Seq(S) /\ y \in Seq(S) /\ c \in Seq(S) /\ IsFrame(d, x) /\ IsFrame(d, y)
          /\ d \in Seq(S) /\ d # <<>>
      BY <1>0, <1>1, <1>4, <2>2, <2>3
    <3> HIDE DEF w
    <3>3. Meet(S, d, x, w, y, c)
      BY <3>1, <3>2 DEF Meet
    <3> QED
      BY <3>3, OneFrame
  <2> QED
    BY <1>2, <1>5, <1>8, <2>4, <2>7 DEF SameTo
<1>9. CASE ~(k <= Len(P))
  <2>1. Len(P) = k - 1
    BY <1>2, <1>3, <1>9
  <2>2. SubSeq(P, 1, Len(P)) = P
    BY <1>0
  <2>3. FlattenSeq(P) = a
    BY <1>2, <2>1, <2>2
  <2>4. x # <<>> /\ Len(x) >= 1 /\ Len(x) \in Nat
    <3>1. x # <<>>
      BY <1>0, <1>1, <1>4, FrameTyped
    <3> QED
      BY <1>1, <3>1
  <2> HIDE DEF a
  <2>5. Len(u) = Len(x) + Len(b \o r) /\ Len(b \o r) \in Nat
    BY <1>1, <1>6
  <2> HIDE DEF u
  <2>6. Len(a \o u) = Len(a) + Len(u) /\ Len(a) \in Nat
    BY <1>1, <1>6
  <2>7. FALSE
    BY <1>7, <2>3, <2>4, <2>5, <2>6
  <2> QED
    BY <2>7
<1> QED
  BY <1>8, <1>9

(* There is one way only to split bytes into frames and a rest without       *)
(* delimiter.                                                                *)
LEMMA OneSplit ==
    ASSUME NEW S, NEW d \in Seq(S), d # <<>>,
           NEW F \in Seq(Seq(S)), AllFrames(d, F), NEW P \in Seq(Seq(S)), AllFrames(d, P),
           NEW r \in Seq(S), ~RP!Within(d, r), FlattenSeq(F) \o r = FlattenSeq(P)
    PROVE  F = P /\ r = <<>>
<1> DEFINE n == Len(F)
           T == {k \in 0 .. n : SameTo(F, P, k)}
<1>1. n \in Nat /\ Len(P) \in Nat /\ SubSeq(F, 1, n) = F /\ SubSeq(P, 1, Len(P)) = P
  OBVIOUS
<1>2. 0 \in T
  <2>1. SubSeq(F, 1, 0) = <<>> /\ SubSeq(P, 1, 0) = <<>>
    OBVIOUS
  <2> QED
    BY <1>1, <2>1 DEF SameTo
<1>3. ASSUME NEW k \in 1 .. n, k - 1 \in T
      PROVE  k \in T
  <2>1. TwoSplits(S, d, F, P, r) /\ SameTo(F, P, k - 1)
    BY <1>3 DEF TwoSplits
  <2>2. SameTo(F, P, k)
    BY <2>1, NextSame
  <2> QED
    BY <1>1, <2>2
<1>4. n \in T
  <2> HIDE DEF T, n
  <2>1. Climbs(T, n) /\ n \in 0 .. n
    BY <1>1, <1>2, <1>3 DEF Climbs
  <2> QED
    BY <1>1, <2>1, UpTo
<1>5. n <= Len(P) /\ F = SubSeq(P, 1, n)
  BY <1>1, <1>4 DEF SameTo
<1>6. FlattenSeq(F) \in Seq(S)
  BY FlattenTyped
<1>7. CASE n < Len(P)
  <2> DEFINE k == n + 1
             y == P[k]
             c == FlattenSeq(SubSeq(P, k + 1, Len(P)))
             v == y \o c
             a == FlattenSeq(F)
  <2>1. k \in 1 .. Len(P) /\ k - 1 = n
    BY <1>1, <1>7
  <2> HIDE DEF k
  <2>2. /\ y \in Seq(S) /\ c \in Seq(S)
        /\ FlattenSeq(P) = FlattenSeq(SubSeq(P, 1, k - 1)) \o v
    BY <2>1, SplitAt
  <2>3. IsFrame(d, y)
    BY <2>1 DEF AllFrames
  <2>4. a \o r = a \o v
    BY <1>5, <2>1, <2>2
  <2> HIDE DEF y, c, a
  <2>5. r = v
    <3>1. v \in Seq(S)
      BY <2>2, ConcatElements
    <3> HIDE DEF v
    <3>2. a \in Seq(S)
      BY <1>6 DEF a
    <3> QED
      BY <2>4, <3>1, <3>2, SameTail
  <2>6. RP!Within(d, r)
    BY <2>2, <2>3, <2>5, RestIsNoFrame
  <2> QED
    BY <2>6
<1>8. CASE ~(n < Len(P))
  <2>1. n = Len(P)
    <3> DEFINE m == Len(P)
    <3>1. n \in Nat /\ m \in Nat /\ n <= m /\ ~(n < m)
      BY <1>1, <1>5, <1>8
    <3> HIDE DEF n, m
    <3>2. n = m
      BY <3>1
    <3> QED
      BY <3>2 DEF m
  <2>2. F = P
    BY <1>1, <1>5, <2>1
  <2>3. FlattenSeq(F) \o r = FlattenSeq(F)
    BY <2>2
  <2> DEFINE a == FlattenSeq(F)
  <2>4. a \in Seq(S) /\ a \o r = a
    BY <1>6, <2>3
  <2> HIDE DEF a
  <2>5. Len(a \o r) = Len(a) + Len(r) /\ Len(a) \in Nat /\ Len(r) \in Nat
    BY <2>4
  <2>6. Len(r) = 0
    BY <2>4, <2>5
  <2>7. r = <<>>
    BY <2>6
  <2> QED
    BY <2>2, <2>7
<1> QED
  BY <1>7, <1>8

-----------------------------------------------------------------------------
(* Rules do not see the end of a line.                                       *)
EndsInLine(S, t, d) == /\ t \in Seq(S) /\ d \in Seq(S)
                       /\ \A k \in 1 .. Len(d) : d[k] \in LineEnds
IsPattern(S, p) == p \in Seq(S) /\ \A k \in 1 .. Len(p) : p[k] \notin LineEnds

(* A pattern without a line end stands in a line where it stands in its      *)
(* text:                                                                     *)
LEMMA OccurrenceInLine ==
    ASSUME NEW S, NEW t, NEW d, EndsInLine(S, t, d), NEW p, IsPattern(S, p), NEW i \in Nat,
           p # <<>> \/ i <= Len(t)
    PROVE  Occurrence(p, t \o d, i) <=> Occurrence(p, t, i)
<1> DEFINE z == t \o d
<1>1. t \in Seq(S) /\ d \in Seq(S) /\ p \in Seq(S)
  BY DEF EndsInLine, IsPattern
<1>2. /\ Len(z) = Len(t) + Len(d)
      /\ \A k \in 1 .. Len(t) : z[k] = t[k]
      /\ \A k \in 1 .. Len(d) : z[Len(t) + k] = d[k]
  BY <1>1, ConcatElements
<1>3. Len(t) \in Nat /\ Len(d) \in Nat /\ Len(p) \in Nat
  BY <1>1
<1>9. p = <<>> <=> Len(p) = 0
  BY <1>1
<1> HIDE DEF z
<1>4. ASSUME Occurrence(p, t, i)
      PROVE  Occurrence(p, z, i)
  <2>1. i + Len(p) <= Len(t) /\ \A k \in 1 .. Len(p) : t[i + k] = p[k]
    BY <1>4 DEF Occurrence
  <2>2. \A k \in 1 .. Len(p) : i + k \in 1 .. Len(t)
    BY <1>3, <2>1
  <2>3. i + Len(p) <= Len(z)
    BY <1>2, <1>3, <2>1
  <2> QED
    BY <1>2, <2>1, <2>2, <2>3 DEF Occurrence
<1>5. ASSUME Occurrence(p, z, i)
      PROVE  Occurrence(p, t, i)
  <2>1. i + Len(p) <= Len(z) /\ \A k \in 1 .. Len(p) : z[i + k] = p[k]
    BY <1>5 DEF Occurrence
  <2>2. i + Len(p) <= Len(t)
    <3> SUFFICES ASSUME ~(i + Len(p) <= Len(t))
                 PROVE  FALSE
      OBVIOUS
    <3> DEFINE m == Len(p)
               j == (i + m) - Len(t)
    <3>1. m >= 1 /\ m \in Nat
      BY <1>3, <1>9
    <3>2. j \in 1 .. Len(d) /\ Len(t) + j = i + m
      <4> DEFINE a == Len(t)
                 c == Len(d)
      <4>1. a \in Nat /\ c \in Nat /\ m \in Nat /\ i + m <= a + c /\ ~(i + m <= a)
        BY <1>2, <1>3, <2>1
      <4> HIDE DEF a, c, m
      <4>2. (i + m) - a \in 1 .. c /\ a + ((i + m) - a) = i + m
        BY <4>1
      <4> QED
        BY <4>2 DEF a, c
    <3>3. m \in 1 .. Len(p)
      BY <3>1
    <3> HIDE DEF m, j
    <3>4. z[i + m] = p[m]
      BY <2>1, <3>3
    <3>5. z[Len(t) + j] = d[j]
      BY <1>2, <3>2
    <3>6. d[j] \in LineEnds /\ p[m] \notin LineEnds
      BY <3>2, <3>3 DEF EndsInLine, IsPattern
    <3> QED
      BY <3>2, <3>4, <3>5, <3>6
  <2>3. \A k \in 1 .. Len(p) : i + k \in 1 .. Len(t)
    BY <1>3, <2>2
  <2> QED
    BY <1>2, <2>1, <2>2, <2>3 DEF Occurrence
<1> QED
  BY <1>4, <1>5 DEF z

(* a line begins with it if the text does,                                   *)
LEMMA PrefixInLine ==
    ASSUME NEW S, NEW t, NEW d, EndsInLine(S, t, d), NEW p, IsPattern(S, p)
    PROVE  IsPrefix(p, t \o d) <=> IsPrefix(p, t)
<1> DEFINE z == t \o d
<1>1. t \in Seq(S) /\ d \in Seq(S) /\ p \in Seq(S)
  BY DEF EndsInLine, IsPattern
<1>2. z \in Seq(S) /\ 0 \in Nat /\ 0 <= Len(t)
  BY <1>1, ConcatElements
<1>3. Occurrence(p, z, 0) <=> Occurrence(p, t, 0)
  BY <1>2, OccurrenceInLine
<1>4. IsPrefix(p, t) <=> Occurrence(p, t, 0)
  BY <1>1, PrefixIs
<1> HIDE DEF z
<1>5. IsPrefix(p, z) <=> Occurrence(p, z, 0)
  BY <1>1, <1>2, PrefixIs
<1> QED
  BY <1>3, <1>4, <1>5 DEF z

(* and has it somewhere if the text has.                                     *)
LEMMA OccursInLine ==
    ASSUME NEW S, NEW t, NEW d, EndsInLine(S, t, d), NEW p, IsPattern(S, p)
    PROVE  Occurs(p, t \o d) <=> Occurs(p, t)
<1> DEFINE z == t \o d
<1>1. t \in Seq(S) /\ d \in Seq(S) /\ p \in Seq(S)
  BY DEF EndsInLine, IsPattern
<1>2. z \in Seq(S) /\ Len(z) = Len(t) + Len(d)
  BY <1>1, ConcatElements
<1>3. Len(t) \in Nat /\ Len(d) \in Nat /\ Len(p) \in Nat /\ Len(z) \in Nat
  BY <1>1, <1>2
<1>4. Occurs(p, t) <=> \E i \in 0 .. Len(t) : Occurrence(p, t, i)
  BY <1>1, OccursIs
<1> HIDE DEF z
<1>5. Occurs(p, z) <=> \E i \in 0 .. Len(z) : Occurrence(p, z, i)
  BY <1>1, <1>2, OccursIs
<1>6. CASE p = <<>>
  <2>1. Len(p) = 0 /\ 0 \in 0 .. Len(t) /\ 0 \in 0 .. Len(z)
    BY <1>3, <1>6
  <2>2. Occurrence(p, t, 0) /\ Occurrence(p, z, 0)
    BY <1>3, <2>1 DEF Occurrence
  <2>3. Occurs(p, t) /\ Occurs(p, z)
    BY <1>4, <1>5, <2>1, <2>2
  <2> QED
    BY <2>3 DEF z
<1>7. CASE p # <<>>
  <2>1. \A i \in Nat : Occurrence(p, z, i) <=> Occurrence(p, t, i)
    BY <1>7, OccurrenceInLine DEF z
  <2>2. \A i \in Nat : Occurrence(p, t, i) => i \in 0 .. Len(t) /\ i \in 0 .. Len(z)
    BY <1>2, <1>3 DEF Occurrence
  <2>3. (\A i \in 0 .. Len(t) : i \in Nat) /\ (\A i \in 0 .. Len(z) : i \in Nat)
    BY <1>3
  <2>4. Occurs(p, t) <=> Occurs(p, z)
    BY <1>4, <1>5, <2>1, <2>2, <2>3
  <2> QED
    BY <2>4 DEF z
<1> QED
  BY <1>6, <1>7

(* Trimming a line leaves its text.                                          *)
LEMMA TrimInLine ==
    ASSUME NEW S, NEW t, NEW d, EndsInLine(S, t, d)
    PROVE  TrimLineEnd(t \o d) = TrimLineEnd(t)
<1> DEFINE z == t \o d
           K(s) == {i \in DOMAIN s : s[i] \notin {10, 13}}
<1>1. t \in Seq(S) /\ d \in Seq(S)
  BY DEF EndsInLine
<1>2. /\ z \in Seq(S) /\ Len(z) = Len(t) + Len(d)
      /\ \A k \in 1 .. Len(t) : z[k] = t[k]
      /\ \A k \in 1 .. Len(d) : z[Len(t) + k] = d[k]
  BY <1>1, ConcatElements
<1> HIDE DEF z
<1>3. Len(t) \in Nat /\ Len(d) \in Nat /\ DOMAIN t = 1 .. Len(t) /\ DOMAIN z = 1 .. Len(z)
  BY <1>1, <1>2
<1>4. K(z) = K(t)
  <2>1. ASSUME NEW i \in K(z)
        PROVE  i \in K(t)
    <3>1. i \in 1 .. Len(z) /\ z[i] \notin LineEnds
      BY <1>3 DEF LineEnds
    <3>2. CASE i <= Len(t)
      <4>1. i \in 1 .. Len(t)
        BY <1>3, <3>1, <3>2
      <4> QED
        BY <1>2, <1>3, <3>1, <4>1 DEF LineEnds
    <3>3. CASE ~(i <= Len(t))
      <4>1. i - Len(t) \in 1 .. Len(d) /\ Len(t) + (i - Len(t)) = i
        BY <1>2, <1>3, <3>1, <3>3
      <4>2. z[i] = d[i - Len(t)]
        BY <1>2, <4>1
      <4>3. d[i - Len(t)] \in LineEnds
        BY <4>1 DEF EndsInLine
      <4> QED
        BY <3>1, <4>2, <4>3
    <3> QED
      BY <3>2, <3>3
  <2>2. ASSUME NEW i \in K(t)
        PROVE  i \in K(z)
    <3>1. i \in 1 .. Len(t) /\ i \in 1 .. Len(z)
      BY <1>2, <1>3
    <3> QED
      BY <1>2, <1>3, <3>1
  <2> QED
    BY <2>1, <2>2
<1>5. TrimLineEnd(z) = IF K(z) = {} THEN <<>> ELSE SubSeq(z, 1, Max(K(z)))
  BY DEF TrimLineEnd
<1>6. TrimLineEnd(t) = IF K(t) = {} THEN <<>> ELSE SubSeq(t, 1, Max(K(t)))
  BY DEF TrimLineEnd
<1>7. K(t) \in SUBSET (1 .. Len(t))
  BY <1>3
<1> HIDE DEF K
<1>8. ASSUME K(t) # {}
      PROVE  SubSeq(z, 1, Max(K(t))) = SubSeq(t, 1, Max(K(t)))
  <2> DEFINE m == Max(K(t))
             u == SubSeq(z, 1, m)
             v == SubSeq(t, 1, m)
  <2>1. m \in 1 .. Len(t)
    <3>1. Max(K(t)) \in K(t)
      BY <1>3, <1>7, <1>8, LastPlace
    <3> QED
      BY <1>7, <3>1
  <2> HIDE DEF m
  <2>2. m \in Nat /\ m <= Len(t) /\ m <= Len(z)
    BY <1>2, <1>3, <2>1
  <2>3. u \in Seq(S) /\ Len(u) = m /\ \A k \in 1 .. m : u[k] = z[k]
    BY <1>2, <2>2
  <2>4. v \in Seq(S) /\ Len(v) = m /\ \A k \in 1 .. m : v[k] = t[k]
    BY <1>1, <2>2
  <2>5. \A k \in 1 .. m : k \in 1 .. Len(t)
    BY <1>3, <2>2
  <2> HIDE DEF u, v
  <2>6. Len(u) = Len(v) /\ \A k \in 1 .. Len(u) : u[k] = v[k]
    BY <1>2, <2>3, <2>4, <2>5
  <2>7. u = v
    BY <2>3, <2>4, <2>6, SeqEqual
  <2> QED
    BY <2>7 DEF u, v, m
<1>9. TrimLineEnd(z) = TrimLineEnd(t)
  <2>1. CASE K(t) = {}
    <3>1. K(z) = {}
      BY <1>4, <2>1
    <3> QED
      BY <1>5, <1>6, <2>1, <3>1
  <2>2. CASE K(t) # {}
    <3>1. K(z) # {} /\ Max(K(z)) = Max(K(t))
      BY <1>4, <2>2
    <3>2. TrimLineEnd(z) = SubSeq(z, 1, Max(K(z)))
      BY <1>5, <3>1
    <3>3. TrimLineEnd(t) = SubSeq(t, 1, Max(K(t)))
      BY <1>6, <2>2
    <3> QED
      BY <1>8, <2>2, <3>1, <3>2, <3>3
  <2> QED
    BY <2>1, <2>2
<1> QED
  BY <1>9 DEF z

(* A rule that is no regular expression hits a line if it hits the text.     *)
LEMMA HitInLine ==
    ASSUME NEW S, NEW t, NEW d, EndsInLine(S, t, d), TrimLineEnd(t) = t,
           NEW r, IsReplyRule(r), r.matchKind # "regex", IsPattern(S, r.pattern), NEW b
    PROVE  Hit(r, t \o d, b) = Hit(r, t, b)
<1>1. IsPrefix(r.pattern, t \o d) <=> IsPrefix(r.pattern, t)
  BY PrefixInLine
<1>2. Occurs(r.pattern, t \o d) <=> Occurs(r.pattern, t)
  BY OccursInLine
<1>3. TrimLineEnd(t \o d) = TrimLineEnd(t)
  BY TrimInLine
<1> DEFINE z == t \o d
<1> HIDE DEF z
<1>4. IsPrefix(r.pattern, z) = IsPrefix(r.pattern, t)
  BY <1>1 DEF z, IsPrefix
<1>5. Occurs(r.pattern, z) = Occurs(r.pattern, t)
  BY <1>2 DEF z, Occurs
<1>6. r.matchKind \in {"exact", "prefix", "contains", "hexPrefix"}
  BY DEF IsReplyRule, MatchKinds
<1>7. Hit(r, z, b) = Hit(r, t, b)
  BY <1>3, <1>4, <1>5, <1>6 DEF Hit, z
<1> QED
  BY <1>7 DEF z

-----------------------------------------------------------------------------
(* A receiver that frames by lines.                                          *)
LEMMA SameFront ==
    \A s : RP!Front(s) = Front(s)
BY DEF RP!Front, Front

(* A message that is a line is its text and the delimiter, and is a frame.   *)
LEMMA LineIs ==
    ASSUME session \in Sessions, NEW m \in Messages, IsLine(m),
           NEW D, D = Delimiter(session.framing)
    PROVE  /\ D \in Seq(0 .. 255) /\ D \in Seq(LineEnds) /\ D # <<>>
           /\ m.payload.bytes \in Seq(0 .. 255) /\ IsFrame(D, m.payload.bytes)
           /\ TextOf(m.request) \in Texts
           /\ DecodeText(m.payload.bytes, session.recvEncoding).text = TextOf(m.request) \o D
           /\ Line(m.request) = TextOf(m.request) \o D
<1> DEFINE B == 0 .. 255
           r == m.request
           b == m.payload.bytes
<1>1. D \in Seq(B)
  BY DelimiterTyped
<1>2. r \in Requests /\ m.payload \in BuildPayload(r) /\ b # <<>>
  BY DEF Messages
<1>3. IsRequest(r)
  BY <1>2, ExchangeAssumption
<1>4. /\ r.format = "text" /\ r.encoding = session.recvEncoding /\ Carries(r.encoding, TextOf(r))
      /\ r.checksum = "none"
      /\ Ending(r) = {D} \cap Seq(LineEnds)
      /\ ~Occurs(D, Front(b))
  BY DEF IsLine, Readable
<1>5. PICK e \in Ending(r) : EndingReads(r, e)
  BY DEF IsLine, Readable
<1>6. e = D /\ D \in Seq(LineEnds)
  BY <1>4, <1>5
<1>7. /\ DecodeText(b, r.encoding).text = TextOf(r) \o D
      /\ TextOf(r) \in Texts /\ b \in Seq(B)
      /\ b = EncodeText(TextOf(r), r.encoding) \o D
      /\ EncodeText(TextOf(r), r.encoding) \in Seq(B)
  <2>1. DecodeText(b, r.encoding).text = TextOf(r) \o e /\ TextOf(r) \in Texts /\ b \in Seq(B)
        /\ b = EncodeText(TextOf(r), r.encoding) \o e
    <3> DEFINE p == m.payload
    <3>1. /\ IsRequest(r) /\ r.format = "text" /\ r.checksum = "none"
          /\ Carries(r.encoding, TextOf(r)) /\ e \in Ending(r) /\ EndingReads(r, e)
          /\ p \in BuildPayload(r)
      BY <1>2, <1>3, <1>4, <1>5
    <3> HIDE DEF p, r
    <3>2. /\ DecodeText(p.bytes, r.encoding).text = TextOf(r) \o e /\ TextOf(r) \in Texts
          /\ p.bytes \in Seq(0 .. 255) /\ p.bytes = EncodeText(TextOf(r), r.encoding) \o e
      BY <3>1, ReadBack
    <3> QED
      BY <3>2 DEF p
  <2>2. EncodeText(TextOf(r), r.encoding) \in Seq(B)
    <3>1. r.encoding \in Encodings
      BY <1>3 DEF IsRequest
    <3> QED
      BY <2>1, <3>1, EncodeTyped
  <2> QED
    BY <1>6, <2>1, <2>2
<1> DEFINE f == Front(b)
           c == EncodeText(TextOf(r), r.encoding)
<1>8. f \in Seq(B)
  BY <1>2, <1>7, FrontElements
<1>9. D # <<>>
  <2> HIDE DEF B, f, b, r
  <2>1. SUFFICES ASSUME D = <<>>
                 PROVE  FALSE
    OBVIOUS
  <2>2. Len(f) \in Nat /\ Len(D) = 0
    BY <1>8, <2>1
  <2>3. 0 \in 0 .. Len(f) /\ Occurrence(D, f, 0)
    BY <2>2 DEF Occurrence
  <2>4. Occurs(D, f)
    BY <1>1, <1>8, <2>3, OccursIs
  <2> QED
    BY <1>4, <2>4 DEF f
<1>10. RP!Ends(D, b)
  <2> HIDE DEF B, c
  <2>1. /\ Len(b) = Len(c) + Len(D)
        /\ \A i \in 1 .. Len(D) : b[Len(c) + i] = D[i]
    BY <1>1, <1>7, ConcatElements DEF c
  <2>2. Len(c) \in Nat /\ Len(D) \in Nat
    BY <1>1, <1>7 DEF c
  <2> HIDE DEF b
  <2>3. Len(b) - Len(D) = Len(c) /\ Len(b) >= Len(D) /\ Len(c) + Len(D) <= Len(b)
    BY <2>1, <2>2
  <2>4. Occurrence(D, b, Len(c))
    BY <2>1, <2>3 DEF Occurrence
  <2>5. RP!OccursAt(D, b, Len(c))
    BY <1>1, <1>7, <2>2, <2>4, WithinIs
  <2> QED
    BY <2>3, <2>5 DEF RP!Ends
<1>11. ~RP!Within(D, f)
  <2> HIDE DEF f
  <2>1. RP!Within(D, f) <=> Occurs(D, f)
    BY <1>1, <1>8, WithinIs
  <2> QED
    BY <1>4, <2>1 DEF f
<1>12. IsFrame(D, b)
  BY <1>10, <1>11 DEF IsFrame
<1>13. Line(r) = TextOf(r) \o D
  <2>1. Ending(r) = {D}
    BY <1>4, <1>6
  <2> HIDE DEF r
  <2> QED
    BY <2>1, OneToSeq DEF Line
<1> QED
  BY <1>1, <1>4, <1>6, <1>7, <1>9, <1>12, <1>13

(* So it hears the text of a line.                                           *)
LEMMA RuleHearsText ==
    ASSUME NEW t \in Texts, TrimLineEnd(t) = t, NEW D \in Seq(LineEnds), D # <<>>,
           NEW r, IsReplyRule(r), r.matchKind # "regex",
           Range(r.pattern) \cap LineEnds = {}, NEW b
    PROVE  Hit(r, t \o D, b) = Hit(r, t, b)
<1> DEFINE S == Nat
           p == r.pattern
<1>1. t \in Seq(S)
  BY TextIsNumbers
<1>2. D \in Seq(S) /\ \A k \in 1 .. Len(D) : D[k] \in LineEnds
  <2>1. LineEnds \subseteq Nat
    BY DEF LineEnds
  <2>2. \A k \in 1 .. Len(D) : D[k] \in LineEnds
    OBVIOUS
  <2>3. D \in Seq(S)
    BY <2>1, SeqSubset
  <2> QED
    BY <2>2, <2>3
<1>3. p \in Seq(S) /\ \A k \in 1 .. Len(p) : p[k] \notin LineEnds
  <2>1. p \in Texts
    BY TextsTyped DEF IsReplyRule
  <2>2. p \in Seq(S) /\ DOMAIN p = 1 .. Len(p)
    BY <2>1, TextIsNumbers
  <2> QED
    BY <2>2 DEF Range
<1> HIDE DEF S
<1>4. EndsInLine(S, t, D) /\ IsPattern(S, r.pattern)
  BY <1>1, <1>2, <1>3 DEF EndsInLine, IsPattern
<1> QED
  BY <1>4, HitInLine

(* A sequence of sequences is its front and its last one.                    *)
LEMMA FlattenLast ==
    ASSUME NEW S, NEW s \in Seq(Seq(S)), s # <<>>
    PROVE  /\ Front(s) \in Seq(Seq(S)) /\ s[Len(s)] \in Seq(S)
           /\ Len(Front(s)) = Len(s) - 1 /\ \A k \in 1 .. Len(s) - 1 : Front(s)[k] = s[k]
           /\ FlattenSeq(s) = FlattenSeq(Front(s)) \o s[Len(s)]
<1> DEFINE A == Seq(S)
           f == Front(s)
           x == s[Len(s)]
<1>1. s \in Seq(A)
  OBVIOUS
<1> HIDE DEF A
<1>2. Len(s) \in Nat /\ Len(s) >= 1 /\ x \in A
  BY <1>1
<1>3. f \in Seq(A) /\ Len(f) = Len(s) - 1 /\ \A k \in 1 .. Len(s) - 1 : f[k] = s[k]
  BY <1>1, FrontElements
<1> HIDE DEF f, x
<1>4. Append(f, x) = s
  <2> DEFINE z == Append(f, x)
  <2>1. /\ z \in Seq(A) /\ Len(z) = Len(f) + 1
        /\ \A k \in 1 .. Len(f) : z[k] = f[k]
        /\ z[Len(f) + 1] = x
    BY <1>2, <1>3, AppendProperties
  <2> HIDE DEF z
  <2>2. Len(z) = Len(s) /\ \A k \in 1 .. Len(s) : k \in 1 .. Len(f) \/ k = Len(s)
    BY <1>2, <1>3, <2>1
  <2>3. z[Len(s)] = x /\ \A k \in 1 .. Len(f) : z[k] = s[k]
    BY <1>2, <1>3, <2>1
  <2>4. \A k \in 1 .. Len(z) : z[k] = s[k]
    BY <2>2, <2>3 DEF x
  <2>5. z = s
    BY <1>1, <2>1, <2>2, <2>4, SeqEqual
  <2> QED
    BY <2>5 DEF z
<1>5. FlattenSeq(Append(f, x)) = FlattenSeq(f) \o x
  BY <1>2, <1>3, FlattenAppend DEF A
<1> QED
  BY <1>2, <1>3, <1>4, <1>5 DEF A, f, x

(* The payloads of what was sent.                                            *)
LEMMA PayloadsTyped ==
    ASSUME NEW s \in Seq(Messages)
    PROVE  /\ Payloads(s) \in Seq(Seq(0 .. 255)) /\ Len(Payloads(s)) = Len(s)
           /\ \A i \in 1 .. Len(s) : Payloads(s)[i] = s[i].payload.bytes
<1> DEFINE S == Seq(0 .. 255)
           p == Payloads(s)
<1>1. Len(s) \in Nat /\ DOMAIN s = 1 .. Len(s)
  OBVIOUS
<1>2. DOMAIN p = 1 .. Len(s) /\ \A i \in 1 .. Len(s) : p[i] = s[i].payload.bytes
  BY <1>1 DEF Payloads
<1>3. p \in Seq(S)
  <2>1. CASE s = <<>>
    <3>1. p = <<>>
      BY <2>1 DEF Payloads
    <3> HIDE DEF S, p
    <3> QED
      BY <3>1
  <2>2. CASE s # <<>>
    <3>1. s[1] \in Messages
      BY <2>2
    <3> QED
      BY <3>1, PayloadsAppend
  <2> QED
    BY <2>1, <2>2
<1> HIDE DEF S, p
<1>4. Len(p) = Len(s)
  BY <1>1, <1>2, <1>3
<1> QED
  BY <1>2, <1>3, <1>4 DEF S, p

(* Once everything is handled, the frames of such a receiver are the lines   *)
(* that were sent.                                                           *)
LEMMA FramesAreLines ==
    ASSUME IInv, session.framing.mode = "delimiter", \A m \in Range(sent) : IsLine(m), AllHandled
    PROVE  frames = Payloads(sent)
<1> DEFINE B == 0 .. 255
           D == Delimiter(session.framing)
           P == Payloads(sent)
<1>1. session \in Sessions /\ cfg.mode = "delimiter" /\ cfg.delimiter = D
  BY DEF IInv, Accepted, NewFramer
<1>2. /\ sent \in Seq(Messages) /\ wire = <<>> /\ ~draining
      /\ FlattenSeq(P) = fed \o wire
  BY DEF IInv, Stream, AllHandled
<1>3. fed \in Seq(B) /\ buf \in Seq(B) /\ frames \in Seq(Seq(B)) /\ closed \in BOOLEAN
  BY DEF IInv, RP!TypeOK, RP!Bytes
<1>4. P \in Seq(Seq(B)) /\ Len(P) = Len(sent)
      /\ \A i \in 1 .. Len(sent) : P[i] = sent[i].payload.bytes
  BY <1>2, PayloadsTyped
<1>5. \A i \in 1 .. Len(sent) : sent[i] \in Messages /\ IsLine(sent[i])
  <2>1. DOMAIN sent = 1 .. Len(sent) /\ \A i \in 1 .. Len(sent) : sent[i] \in Messages
    BY <1>2
  <2> QED
    BY <2>1 DEF Range
<1> HIDE DEF D, P
<1>6. FlattenSeq(P) = fed
  BY <1>2, <1>3
<1>7. FlattenSeq(frames) \o buf = FlattenSeq(P) /\ (closed => buf = <<>>)
  BY <1>6, SameFlatten DEF IInv, RP!IInv, RP!NothingLost
<1>8. CASE sent = <<>>
  <2>1. P = <<>>
    BY <1>4, <1>8
  <2>2. fed = <<>>
    BY <1>6, <2>1 DEF FlattenSeq
  <2>3. frames = <<>>
    BY <2>2 DEF IInv, NothingFromNothing
  <2> QED
    BY <2>1, <2>3 DEF P
<1>9. CASE sent # <<>>
  <2>1. D \in Seq(B) /\ D # <<>> /\ AllFrames(D, P)
    <3>1. ASSUME NEW i \in 1 .. Len(sent)
          PROVE  D \in Seq(B) /\ D # <<>> /\ IsFrame(D, P[i])
      <4>1. sent[i] \in Messages /\ IsLine(sent[i]) /\ P[i] = sent[i].payload.bytes
        BY <1>4, <1>5
      <4> QED
        BY <1>1, <4>1, LineIs DEF D
    <3>2. 1 \in 1 .. Len(sent)
      BY <1>2, <1>9
    <3> QED
      BY <1>4, <3>1, <3>2 DEF AllFrames
  <2>2. ASSUME NEW f, RP!ByRule(cfg, resynced, f)
        PROVE  IsFrame(D, f)
    BY <1>1, <2>1, <2>2, SameFront DEF RP!ByRule, IsFrame
  <2>3. ASSUME NEW f, RP!Incomplete(cfg, resynced, f)
        PROVE  ~RP!Within(D, f)
    BY <1>1, <2>1, <2>3 DEF RP!Incomplete
  <2>4. /\ \A i \in DOMAIN frames : (closed => i < Len(frames)) => IsFrame(D, frames[i])
        /\ ~RP!Within(D, buf)
    <3>1. /\ \A i \in RP!Cut : RP!ByRule(cfg, resynced, frames[i])
          /\ RP!Incomplete(cfg, resynced, buf)
      BY <1>2 DEF IInv, RP!IInv, RP!Rules
    <3> QED
      BY <2>2, <2>3, <3>1 DEF RP!Cut
  <2>5. DOMAIN frames = 1 .. Len(frames) /\ Len(frames) \in Nat
    <3> DEFINE A == Seq(B)
    <3>1. frames \in Seq(A)
      BY <1>3
    <3> HIDE DEF A
    <3> QED
      BY <3>1
  <2>6. CASE AllFrames(D, frames)
    <3> HIDE DEF B
    <3> QED
      BY <1>3, <1>4, <1>7, <2>1, <2>4, <2>6, OneSplit DEF P
  <2>7. CASE ~AllFrames(D, frames)
    <3> DEFINE n == Len(frames)
               x == frames[n]
               F == Front(frames)
    <3>1. PICK i \in 1 .. n : ~IsFrame(D, frames[i])
      BY <2>7 DEF AllFrames
    <3>2. closed /\ i = n /\ n \in Nat /\ n >= 1
      BY <1>3, <2>4, <2>5, <3>1
    <3>3. frames # <<>> /\ buf = <<>>
      BY <1>3, <1>7, <3>2
    <3>4. ~RP!Within(D, x) /\ x # <<>>
      BY <2>2, <2>3, <3>1, <3>2, <3>3 DEF IInv, RestIsRest
    <3> HIDE DEF B
    <3>5. /\ F \in Seq(Seq(B)) /\ x \in Seq(B) /\ Len(F) = n - 1
          /\ \A k \in 1 .. n - 1 : F[k] = frames[k]
          /\ FlattenSeq(frames) = FlattenSeq(F) \o x
      BY <1>3, <3>3, FlattenLast
    <3>6. AllFrames(D, F)
      <4>1. \A k \in 1 .. n - 1 : k \in DOMAIN frames /\ k < n
        BY <2>5, <3>2
      <4> QED
        BY <2>4, <3>5, <4>1 DEF AllFrames
    <3>7. FlattenSeq(F) \o x = FlattenSeq(P)
      <4>1. FlattenSeq(frames) \in Seq(B)
        BY <1>3, FlattenTyped
      <4> QED
        BY <1>7, <3>3, <3>5, <4>1
    <3> HIDE DEF x, F
    <3>8. x = <<>>
      BY <1>4, <2>1, <3>4, <3>5, <3>6, <3>7, OneSplit
    <3> QED
      BY <3>4, <3>8
  <2> QED
    BY <2>6, <2>7
<1> QED
  BY <1>8, <1>9

(* The rules that a line hits are those that it is to hit.                   *)
LEMMA RulesHearText ==
    ASSUME NEW ar, IsAutoReply(ar),
           \A r \in Range(ar.rules) : Range(r.pattern) \cap LineEnds = {},
           NEW m, NEW t \in Texts, t = TextOf(m.request), TrimLineEnd(t) = t,
           NEW D \in Seq(LineEnds), D # <<>>, Line(m.request) = t \o D
    PROVE  Hits(ar, t \o D, m.payload.bytes) = LineHits(ar, m)
<1> DEFINE z == t \o D
           b == m.payload.bytes
           heard(r) == IF r.matchKind = "regex" THEN Line(m.request) ELSE TextOf(m.request)
<1>1. ASSUME NEW i \in DOMAIN ar.rules
      PROVE  Hit(ar.rules[i], z, b) = Hit(ar.rules[i], heard(ar.rules[i]), b)
  <2> DEFINE r == ar.rules[i]
  <2>1. IsReplyRule(r)
    BY DEF IsAutoReply
  <2>2. Range(r.pattern) \cap LineEnds = {}
    BY DEF Range
  <2>3. CASE r.matchKind = "regex"
    BY <2>3
  <2>4. CASE r.matchKind # "regex"
    <3>1. heard(r) = t
      BY <2>4
    <3>2. Hit(r, z, b) = Hit(r, t, b)
      BY <2>1, <2>2, <2>4, RuleHearsText
    <3> QED
      BY <3>1, <3>2
  <2> QED
    BY <2>3, <2>4
<1> HIDE DEF z, b
<1>2. Hits(ar, z, b) = {i \in DOMAIN ar.rules :
                          ar.rules[i].enabled /\ Hit(ar.rules[i], heard(ar.rules[i]), b)}
  BY <1>1 DEF Hits
<1>3. Hits(ar, z, b) = LineHits(ar, m)
  BY <1>2 DEF LineHits, b
<1> QED
  BY <1>3 DEF z, b

(* In every state that has the invariant the rules have heard each line that *)
(* was handled.                                                              *)
LEMMA HearsInState ==
    IInv => RulesHearEachLine
<1> SUFFICES ASSUME IInv, session.framing.mode = "delimiter",
                    \A m \in Range(sent) : IsLine(m),
                    \A r \in Range(session.autoReply.rules) : Range(r.pattern) \cap LineEnds = {},
                    AllHandled
             PROVE  /\ Len(plans) = Len(sent)
                    /\ session.autoReply.enabled =>
                         \A k \in DOMAIN sent :
                             plans[k] = Evaluate(session.autoReply,
                                                 LineHits(session.autoReply, sent[k]),
                                                 sent[k].payload.bytes, session.sendEncoding)
  BY DEF RulesHearEachLine
<1>1. /\ session \in Sessions /\ sent \in Seq(Messages)
      /\ \A i \in 1 .. Len(plans) : plans[i] = Answer(frames[i])
      /\ Len(plans) = Len(frames)
  BY DEF IInv, Accepted, Stream, Answered, AllHandled
<1>2. frames = Payloads(sent)
  BY FramesAreLines
<1>3. Len(frames) = Len(sent) /\ \A i \in 1 .. Len(sent) : frames[i] = sent[i].payload.bytes
  BY <1>1, <1>2, PayloadsTyped
<1>4. DOMAIN sent = 1 .. Len(sent) /\ \A i \in 1 .. Len(sent) : sent[i] \in Messages
  BY <1>1
<1>5. IsAutoReply(session.autoReply)
  BY <1>1, SessionTyped DEF IsSession
<1>6. ASSUME session.autoReply.enabled, NEW k \in DOMAIN sent
      PROVE  plans[k] = Evaluate(session.autoReply, LineHits(session.autoReply, sent[k]),
                                 sent[k].payload.bytes, session.sendEncoding)
  <2> DEFINE m == sent[k]
             b == m.payload.bytes
             t == TextOf(m.request)
             D == Delimiter(session.framing)
  <2>1. m \in Messages /\ IsLine(m)
    BY <1>4 DEF Range
  <2>2. plans[k] = Answer(b)
    BY <1>1, <1>3, <1>4
  <2>3. Answer(b) = Evaluate(session.autoReply,
                             Hits(session.autoReply, DecodeText(b, session.recvEncoding).text, b),
                             b, session.sendEncoding)
    BY <1>6 DEF Answer, EvaluateAutoReply
  <2> HIDE DEF m
  <2>4. /\ t \in Texts /\ D \in Seq(LineEnds) /\ D # <<>>
        /\ DecodeText(b, session.recvEncoding).text = t \o D
        /\ Line(m.request) = t \o D
    BY <1>1, <2>1, LineIs
  <2>5. TrimLineEnd(t) = t
    BY <2>1 DEF IsLine
  <2>6. Hits(session.autoReply, t \o D, b) = LineHits(session.autoReply, m)
    <3> HIDE DEF D
    <3> QED
      BY <1>5, <2>4, <2>5, RulesHearText
  <2> HIDE DEF b, t, D
  <2> QED
    BY <2>2, <2>3, <2>4, <2>6 DEF m, b
<1> QED
  BY <1>1, <1>3, <1>6

(* A receiver that cuts at the end of lines and handled everything answered  *)
(* each line once and in order, with what its rules say of it: TCP may merge *)
(* and split the messages as it likes, and neither the encoding nor the line *)
(* ending comes between a text and the rule that waits for it, unless the    *)
(* rule is a regular expression, which has the line ending in its text       *)
(* (send_message in commands.rs, drain in framing.rs, evaluate_auto_reply in *)
(* session/mod.rs).  Nothing is assumed of regular expressions.              *)
THEOREM EachLineIsHeard ==
    Spec => []RulesHearEachLine
BY ExchangeInductive, HearsInState, PTL

-----------------------------------------------------------------------------
(* Hexadecimal read back.                                                    *)

(* A byte is written as two digits.                                          *)
HexPair(b) == <<HexDigit(b \div 16), HexDigit(b % 16)>>
HexTriple(b) == <<32, HexDigit(b \div 16), HexDigit(b % 16)>>
PairTable == [b \in 0 .. 255 |-> HexPair(b)]
TripleTable == [b \in 0 .. 255 |-> HexTriple(b)]

(* The value of a digit is what the digit is written for.                    *)
LEMMA HexDigitBack ==
    ASSUME NEW v \in 0 .. 15
    PROVE  HexDigit(v) \in HexDigits /\ HexVal(HexDigit(v)) = v
BY DEF HexDigit, HexVal, HexDigits

(* Two digits are worth the byte they are written for.                       *)
LEMMA HexPairBack ==
    ASSUME NEW b \in 0 .. 255
    PROVE  /\ HexPair(b) \in Seq(HexDigits) /\ Len(HexPair(b)) = 2
           /\ 16 * HexVal(HexPair(b)[1]) + HexVal(HexPair(b)[2]) = b
<1> DEFINE q == b \div 16
           r == b % 16
<1>1. q \in 0 .. 15 /\ r \in 0 .. 15 /\ 16 * q + r = b
  OBVIOUS
<1> HIDE DEF q, r
<1>2. HexPair(b) = <<HexDigit(q), HexDigit(r)>>
  BY DEF HexPair, q, r
<1>3. /\ HexDigit(q) \in HexDigits /\ HexVal(HexDigit(q)) = q
      /\ HexDigit(r) \in HexDigits /\ HexVal(HexDigit(r)) = r
  BY <1>1, HexDigitBack
<1> QED
  BY <1>1, <1>2, <1>3

(* A sequence with another second element does not begin with x and y.       *)
LEMMA ShortNoPrefix ==
    ASSUME NEW S, NEW s \in Seq(S), NEW x \in S, NEW y \in S,
           Len(s) >= 2 => s[2] # y
    PROVE  ~IsPrefix(<<x, y>>, s)
<1> SUFFICES ASSUME IsPrefix(<<x, y>>, s)
             PROVE  FALSE
  OBVIOUS
<1>1. <<x, y>> \in Seq(S) /\ Len(<<x, y>>) = 2
  OBVIOUS
<1>2. Occurrence(<<x, y>>, s, 0)
  BY <1>1, PrefixIs
<1>3. 2 <= Len(s) /\ s[0 + 2] = y
  BY <1>1, <1>2 DEF Occurrence
<1> QED
  BY <1>3

(* A token that does not begin with 0x is left as it is.                     *)
LEMMA TokenStays ==
    ASSUME NEW s \in Seq(Nat), Len(s) >= 2 => s[2] # 120 /\ s[2] # 88
    PROVE  Trim0x(s) = s
<1>1. Len(<<48, 120>>) \in Nat \ {0} /\ Len(<<48, 88>>) \in Nat \ {0}
  OBVIOUS
<1>2. ~IsPrefix(<<48, 120>>, s) /\ ~IsPrefix(<<48, 88>>, s)
  <2>1. 48 \in Nat /\ 120 \in Nat /\ 88 \in Nat
    OBVIOUS
  <2> QED
    BY <2>1, ShortNoPrefix
<1>3. TrimStart(<<48, 120>>, s) = s
  BY <1>1, <1>2, TrimStartNone
<1>4. TrimStart(<<48, 88>>, s) = s
  BY <1>1, <1>2, TrimStartNone
<1> QED
  BY <1>3, <1>4 DEF Trim0x

(* Two elements appended to nothing are a sequence of two.                   *)
LEMMA TwoAppended ==
    ASSUME NEW S, NEW x \in S, NEW y \in S
    PROVE  Append(Append(<<>>, x), y) = <<x, y>>
<1> DEFINE e == <<>>
           u == Append(e, x)
           v == Append(u, y)
           w == <<x, y>>
<1>1. e \in Seq(S) /\ Len(e) = 0
  OBVIOUS
<1> HIDE DEF e
<1>2. u \in Seq(S) /\ Len(u) = 1 /\ u[1] = x
  <2>1. Len(e) + 1 = 1
    BY <1>1
  <2> QED
    BY <1>1, <2>1, AppendProperties
<1> HIDE DEF u
<1>3. v \in Seq(S) /\ Len(v) = 2 /\ v[1] = x /\ v[2] = y
  <2>1. Len(u) + 1 = 2 /\ 1 \in 1 .. Len(u)
    BY <1>2
  <2>2. /\ v \in Seq(S) /\ Len(v) = Len(u) + 1
        /\ \A i \in 1 .. Len(u) : v[i] = u[i]
        /\ v[Len(u) + 1] = y
    <3>1. u \in Seq(S)
      BY <1>2
    <3> QED
      BY <3>1, AppendProperties
  <2> HIDE DEF v
  <2>3. v[1] = u[1]
    BY <2>1, <2>2
  <2> QED
    BY <1>2, <2>1, <2>2, <2>3
<1> HIDE DEF v
<1>4. w \in Seq(S) /\ Len(w) = 2 /\ w[1] = x /\ w[2] = y
  OBVIOUS
<1> HIDE DEF w
<1>5. \A k \in 1 .. 2 : k = 1 \/ k = 2
  OBVIOUS
<1>6. v = w
  BY <1>3, <1>4, <1>5, SeqEqual
<1> QED
  BY <1>6 DEF v, u, e, w

(* What the loop has read when it ends.                                      *)
HexRead(acc) == acc.out \o Trim0x(acc.token)

(* A space ends the token before it, and two digits are the next.            *)
LEMMA PairRead ==
    ASSUME NEW acc \in HexState, NEW b \in 0 .. 255
    PROVE  /\ HexTriple(b) \in Seq(Nat)
           /\ Fold(HexTable, acc, HexTriple(b)) \in HexState
           /\ HexRead(Fold(HexTable, acc, HexTriple(b))) = HexRead(acc) \o HexPair(b)
<1> DEFINE x == HexDigit(b \div 16)
           y == HexDigit(b % 16)
           a1 == HexStep(acc, 32)
           a2 == HexStep(a1, x)
           a3 == HexStep(a2, y)
           s0 == <<>>
           s1 == Append(s0, 32)
           s2 == Append(s1, x)
           s3 == Append(s2, y)
<1>1. x \in HexDigits /\ y \in HexDigits
  <2>1. b \div 16 \in 0 .. 15 /\ b % 16 \in 0 .. 15
    OBVIOUS
  <2> QED
    BY <2>1, HexDigitBack
<1>2. /\ x \in Nat /\ y \in Nat /\ 32 \in Nat
      /\ 32 \in Whitespace \cup {44}
      /\ x \notin Whitespace \cup {44} /\ y \notin Whitespace \cup {44}
      /\ y # 120 /\ y # 88
  <2>1. ASSUME NEW z \in HexDigits
        PROVE  z \in Nat /\ z \notin Whitespace \cup {44} /\ z # 120 /\ z # 88
    BY SMT DEF HexDigits, Whitespace
  <2>2. 32 \in Nat /\ 32 \in Whitespace \cup {44}
    BY SMT DEF Whitespace
  <2> HIDE DEF x, y
  <2> QED
    BY <1>1, <2>1, <2>2
<1>3. HexTriple(b) = s3 /\ HexPair(b) = <<x, y>>
  BY DEF HexTriple, HexPair
<1> HIDE DEF x, y
<1>4. acc.out \in Seq(Nat) /\ acc.token \in Seq(Nat) /\ HexRead(acc) \in Seq(Nat)
  BY Trim0xTyped DEF HexState, HexRead
<1>5. a1 = [out |-> HexRead(acc), token |-> <<>>]
  BY <1>2 DEF HexStep, HexRead
<1>6. a2 = [out |-> HexRead(acc), token |-> Append(<<>>, x)]
  <2> HIDE DEF a1
  <2>1. HexStep(a1, x) = [a1 EXCEPT !.token = Append(@, x)]
    BY <1>2 DEF HexStep
  <2> QED
    BY <1>5, <2>1
<1>7. a3 = [out |-> HexRead(acc), token |-> Append(Append(<<>>, x), y)]
  <2> HIDE DEF a2
  <2>1. HexStep(a2, y) = [a2 EXCEPT !.token = Append(@, y)]
    BY <1>2 DEF HexStep
  <2> QED
    BY <1>6, <2>1
<1>8. /\ a1 \in HexState /\ a2 \in HexState /\ a3 \in HexState
      /\ HexTable[acc][32] = a1 /\ HexTable[a1][x] = a2 /\ HexTable[a2][y] = a3
  BY <1>2, HexTyped
<1> HIDE DEF a1, a2, a3
<1>9. IsTable(HexTable, HexState, Nat)
  BY HexTyped
<1>10. s0 \in Seq(Nat) /\ s1 \in Seq(Nat) /\ s2 \in Seq(Nat) /\ s3 \in Seq(Nat)
  BY <1>2
<1>11. Fold(HexTable, acc, s0) = acc
  BY <1>9, FoldEmpty
<1> HIDE DEF s0
<1>12. Fold(HexTable, acc, s1) = a1
  BY <1>2, <1>8, <1>9, <1>10, <1>11, FoldAppend
<1> HIDE DEF s1
<1>13. Fold(HexTable, acc, s2) = a2
  BY <1>2, <1>8, <1>9, <1>10, <1>12, FoldAppend
<1> HIDE DEF s2
<1>14. Fold(HexTable, acc, s3) = a3
  BY <1>2, <1>8, <1>9, <1>10, <1>13, FoldAppend
<1>15. Trim0x(<<x, y>>) = <<x, y>>
  <2> DEFINE z == <<x, y>>
  <2>1. z \in Seq(Nat) /\ z[2] # 120 /\ z[2] # 88
    BY <1>2
  <2> HIDE DEF z
  <2>2. Trim0x(z) = z
    BY <2>1, TokenStays
  <2> QED
    BY <2>2 DEF z
<1>16. HexRead(a3) = HexRead(acc) \o <<x, y>>
  <2>1. Append(Append(<<>>, x), y) = <<x, y>>
    BY <1>2, TwoAppended
  <2>2. a3.out = HexRead(acc) /\ a3.token = <<x, y>>
    <3> DEFINE h == HexRead(acc)
               u == Append(Append(<<>>, x), y)
    <3>1. a3 = [out |-> h, token |-> u]
      BY <1>7
    <3> HIDE DEF h, u
    <3>2. a3.out = h /\ a3.token = u
      BY <3>1
    <3> QED
      BY <2>1, <3>2 DEF h, u
  <2> QED
    BY <1>15, <2>2 DEF HexRead
<1> QED
  BY <1>3, <1>8, <1>10, <1>14, <1>16

(* The bytes that are written, with a space before each.                     *)
Spaced(s) == FlattenSeq(Via(TripleTable, s))
Digited(s) == FlattenSeq(Via(PairTable, s))

(* The tables have bytes for arguments and characters for values.            *)
LEMMA HexTables ==
    /\ IsMap(TripleTable, 0 .. 255, Seq(Nat))
    /\ IsMap(PairTable, 0 .. 255, Seq(HexDigits))
    /\ IsMap(PairTable, 0 .. 255, Seq(Nat))
    /\ \A b \in 0 .. 255 : TripleTable[b] = HexTriple(b) /\ PairTable[b] = HexPair(b)
<1>1. ASSUME NEW b \in 0 .. 255
      PROVE  HexTriple(b) \in Seq(Nat) /\ HexPair(b) \in Seq(HexDigits) /\ HexPair(b) \in Seq(Nat)
  <2>1. HexTriple(b) \in Seq(Nat)
    BY HexTyped, PairRead
  <2>2. HexPair(b) \in Seq(HexDigits)
    BY HexPairBack
  <2>3. HexDigits \subseteq Nat
    BY DEF HexDigits
  <2> QED
    BY <2>1, <2>2, <2>3, SeqSubset
<1> QED
  BY <1>1 DEF IsMap, TripleTable, PairTable

(* The loop reads the digits of every byte.                                  *)
LEMMA SpacedRead ==
    ASSUME NEW s \in Seq(0 .. 255)
    PROVE  /\ Spaced(s) \in Seq(Nat)
           /\ Fold(HexTable, HexStart, Spaced(s)) \in HexState
           /\ HexRead(Fold(HexTable, HexStart, Spaced(s))) = Digited(s)
<1> DEFINE B == 0 .. 255
           End(t) == Fold(HexTable, HexStart, Spaced(t))
           P == {t \in Seq(B) : End(t) \in HexState /\ HexRead(End(t)) = Digited(t)}
<1>1. /\ IsTable(HexTable, HexState, Nat) /\ HexStart \in HexState
      /\ IsMap(TripleTable, B, Seq(Nat)) /\ IsMap(PairTable, B, Seq(Nat))
      /\ \A b \in B : TripleTable[b] = HexTriple(b) /\ PairTable[b] = HexPair(b)
  BY HexTyped, HexTables
<1>2. <<>> \in P
  <2>1. Via(TripleTable, <<>>) = <<>> /\ Via(PairTable, <<>>) = <<>>
    BY DEF Via
  <2>2. Spaced(<<>>) = <<>> /\ Digited(<<>>) = <<>>
    BY <2>1 DEF Spaced, Digited, FlattenSeq
  <2>3. End(<<>>) = HexStart
    BY <1>1, <2>2, FoldEmpty
  <2>4. Trim0x(<<>>) = <<>>
    <3>1. <<>> \in Seq(Nat) /\ ~(Len(<<>>) >= 2)
      OBVIOUS
    <3> QED
      BY <3>1, TokenStays
  <2>5. HexRead(HexStart) = <<>>
    <3>1. HexStart.out = <<>> /\ HexStart.token = <<>>
      BY DEF HexStart
    <3> QED
      BY <2>4, <3>1 DEF HexRead
  <2> HIDE DEF End, B
  <2>6. <<>> \in Seq(B)
    OBVIOUS
  <2> QED
    BY <1>1, <2>2, <2>3, <2>5, <2>6
<1>3. ASSUME NEW t \in Seq(B), NEW b \in B, t \in P
      PROVE  Append(t, b) \in P
  <2>1. /\ Spaced(t) \in Seq(Nat) /\ TripleTable[b] \in Seq(Nat)
        /\ Spaced(Append(t, b)) = Spaced(t) \o TripleTable[b]
    <3> HIDE DEF B
    <3> QED
      BY <1>1, FlattenViaAppend DEF Spaced
  <2>2. Digited(Append(t, b)) = Digited(t) \o PairTable[b]
    <3> HIDE DEF B
    <3> QED
      BY <1>1, FlattenViaAppend DEF Digited
  <2>3. End(t) \in HexState /\ HexRead(End(t)) = Digited(t)
    BY <1>3
  <2>4. End(Append(t, b)) = Fold(HexTable, End(t), TripleTable[b])
    <3>1. Fold(HexTable, HexStart, Spaced(t) \o TripleTable[b])
            = Fold(HexTable, Fold(HexTable, HexStart, Spaced(t)), TripleTable[b])
      BY <1>1, <2>1, FoldConcat, SMTT(30)
    <3> QED
      BY <2>1, <3>1
  <2> HIDE DEF End
  <2>5. /\ Fold(HexTable, End(t), TripleTable[b]) \in HexState
        /\ HexRead(Fold(HexTable, End(t), TripleTable[b])) = HexRead(End(t)) \o PairTable[b]
    BY <1>1, <2>3, PairRead
  <2>6. Append(t, b) \in Seq(B)
    OBVIOUS
  <2> HIDE DEF B
  <2> QED
    BY <2>2, <2>3, <2>4, <2>5, <2>6
<1>4. Spaced(s) \in Seq(Nat)
  BY <1>1, FlattenVia DEF Spaced
<1> HIDE DEF P
<1>5. Grows(P, B)
  BY <1>2, <1>3 DEF Grows
<1>6. s \in P
  BY <1>5, GrowInduction
<1> QED
  BY <1>4, <1>6 DEF P

(* The space before the first byte says nothing.                             *)
LEMMA FirstSpace ==
    ASSUME NEW s \in Seq(Nat), s # <<>>, s[1] = 32
    PROVE  /\ Drop(s, 1) \in Seq(Nat)
           /\ Fold(HexTable, HexStart, Drop(s, 1)) = Fold(HexTable, HexStart, s)
<1> DEFINE e == <<>>
           a == Append(e, 32)
           r == Drop(s, 1)
<1>1. /\ IsTable(HexTable, HexState, Nat) /\ HexStart \in HexState
      /\ HexTable[HexStart][32] = HexStep(HexStart, 32) /\ 32 \in Nat
  BY HexTyped
<1>2. HexStep(HexStart, 32) = HexStart
  <2>1. Trim0x(<<>>) = <<>>
    <3>1. <<>> \in Seq(Nat) /\ ~(Len(<<>>) >= 2)
      OBVIOUS
    <3> QED
      BY <3>1, TokenStays
  <2>2. 32 \in Whitespace \cup {44}
    BY SMT DEF Whitespace
  <2>3. HexStart.out = <<>> /\ HexStart.token = <<>>
    BY DEF HexStart
  <2>4. <<>> \o <<>> = <<>>
    OBVIOUS
  <2> QED
    BY <2>1, <2>2, <2>3, <2>4 DEF HexStep, HexStart
<1>3. e \in Seq(Nat) /\ Len(e) = 0
  OBVIOUS
<1>4. Fold(HexTable, HexStart, e) = HexStart
  BY <1>1, FoldEmpty
<1> HIDE DEF e
<1>5. a \in Seq(Nat) /\ Len(a) = 1 /\ a[1] = 32
  <2>1. Len(e) + 1 = 1
    BY <1>3
  <2> QED
    BY <1>1, <1>3, <2>1, AppendProperties
<1>6. Fold(HexTable, HexStart, a) = HexStart
  <2>1. Fold(HexTable, HexStart, a) = HexTable[Fold(HexTable, HexStart, e)][32]
    <3> DEFINE x == 32
    <3>1. /\ IsTable(HexTable, HexState, Nat) /\ HexStart \in HexState /\ x \in Nat
          /\ e \in Seq(Nat)
      BY <1>1, <1>3
    <3> HIDE DEF x
    <3>2. Fold(HexTable, HexStart, Append(e, x)) = HexTable[Fold(HexTable, HexStart, e)][x]
      BY <3>1, FoldAppend
    <3> QED
      BY <3>2 DEF x
  <2> QED
    BY <1>1, <1>2, <1>4, <2>1
<1> HIDE DEF a
<1>7. /\ r \in Seq(Nat) /\ Len(r) = Len(s) - 1 /\ \A i \in 1 .. Len(r) : r[i] = s[1 + i]
  <2>1. 1 \in Nat /\ 1 <= Len(s)
    OBVIOUS
  <2> QED
    BY <2>1, DropTyped
<1> HIDE DEF r
<1>8. a \o r = s
  <2> DEFINE z == a \o r
  <2>1. /\ z \in Seq(Nat) /\ Len(z) = Len(a) + Len(r)
        /\ \A i \in 1 .. Len(a) : z[i] = a[i]
        /\ \A i \in 1 .. Len(r) : z[Len(a) + i] = r[i]
    <3>1. a \in Seq(Nat) /\ r \in Seq(Nat)
      BY <1>5, <1>7
    <3> QED
      BY <3>1, ConcatElements
  <2> HIDE DEF z
  <2>2. Len(s) \in Nat /\ Len(z) = Len(s)
    <3> HIDE DEF z
    <3> DEFINE n == Len(s)
    <3>1. Len(a) = 1 /\ Len(r) = n - 1 /\ n \in Nat
      BY <1>5, <1>7
    <3>2. Len(z) = Len(a) + Len(r)
      BY <2>1
    <3> HIDE DEF n
    <3>3. Len(z) = n
      BY <3>1, <3>2
    <3> QED
      BY <3>1, <3>3 DEF n
  <2>3. ASSUME NEW i \in 1 .. Len(z)
        PROVE  z[i] = s[i]
    <3>1. CASE i = 1
      BY <1>5, <2>1, <3>1
    <3>2. CASE i # 1
      <4>1. i - 1 \in 1 .. Len(r) /\ 1 + (i - 1) = i
        BY <1>7, <2>2, <3>2
      <4> QED
        BY <1>5, <1>7, <2>1, <4>1
    <3> QED
      BY <3>1, <3>2
  <2>4. z = s
    <3>1. z \in Seq(Nat) /\ s \in Seq(Nat) /\ Len(z) = Len(s)
      BY <2>1, <2>2
    <3> QED
      BY <2>3, <3>1, SeqEqual
  <2> QED
    BY <2>4 DEF z
<1>9. Fold(HexTable, HexStart, a \o r) = Fold(HexTable, Fold(HexTable, HexStart, a), r)
  BY <1>1, <1>5, <1>7, FoldConcat
<1> QED
  BY <1>6, <1>7, <1>8, <1>9 DEF r

(* What is written is this without the first space.                          *)
LEMMA ToHexIs ==
    ASSUME NEW s \in Seq(0 .. 255)
    PROVE  ToHex(s) = Drop(Spaced(s), 1)
<1>1. \A i \in DOMAIN s : s[i] \in 0 .. 255
  <2> DEFINE B == 0 .. 255
  <2>1. s \in Seq(B)
    OBVIOUS
  <2> HIDE DEF B
  <2>2. \A i \in DOMAIN s : s[i] \in B
    BY <2>1
  <2> QED
    BY <2>2 DEF B
<1>2. \A i \in DOMAIN s :
         TripleTable[s[i]] = <<32, HexDigit(s[i] \div 16), HexDigit(s[i] % 16)>>
  BY <1>1, HexTables DEF HexTriple
<1>3. [i \in DOMAIN s |-> <<32, HexDigit(s[i] \div 16), HexDigit(s[i] % 16)>>]
         = Via(TripleTable, s)
  BY <1>2 DEF Via
<1> QED
  BY <1>3, Zenon DEF ToHex, FlatMap, Spaced

(* The digits the loop reads are those of the bytes.                         *)
LEMMA DigitsBack ==
    ASSUME NEW s \in Seq(0 .. 255)
    PROVE  Digits(ToHex(s)) = Digited(s)
<1> DEFINE f == Spaced(s)
<1>1. /\ f \in Seq(Nat) /\ Fold(HexTable, HexStart, f) \in HexState
      /\ HexRead(Fold(HexTable, HexStart, f)) = Digited(s)
  BY SpacedRead
<1>2. Drop(f, 1) \in Seq(Nat) /\ Fold(HexTable, HexStart, Drop(f, 1)) = Fold(HexTable, HexStart, f)
  <2>1. CASE s = <<>>
    <3>1. Via(TripleTable, s) = <<>>
      BY <2>1 DEF Via
    <3>2. f = <<>>
      BY <3>1 DEF Spaced, FlattenSeq
    <3>3. Drop(<<>>, 1) = <<>>
      BY DEF Drop
    <3> HIDE DEF f
    <3> QED
      BY <1>1, <3>2, <3>3
  <2>2. CASE s # <<>>
    <3>1. f # <<>> /\ f[1] = 32
      <4> DEFINE B == 0 .. 255
                 h == SubSeq(s, 1, Len(s) - 1)
                 F == Via(TripleTable, s)
      <4>1. /\ IsMap(TripleTable, B, Seq(Nat)) /\ s \in Seq(B)
            /\ \A b \in B : TripleTable[b] = HexTriple(b)
        BY HexTables
      <4> HIDE DEF B
      <4>2. F \in Seq(Seq(Nat)) /\ Len(F) = Len(s) /\ F[1] = HexTriple(s[1]) /\ s[1] \in B
        <5>1. F \in Seq(Seq(Nat)) /\ Len(F) = Len(s)
          BY <4>1, ViaTyped
        <5>2. 1 \in DOMAIN s /\ s[1] \in B
          BY <2>2, <4>1
        <5> QED
          BY <4>1, <5>1, <5>2 DEF Via
      <4>3. Len(s) \in Nat /\ Len(s) >= 1
        BY <2>2
      <4> HIDE DEF F
      <4> DEFINE t == FlattenSeq(SubSeq(F, 2, Len(F)))
                 u == HexTriple(s[1])
      <4>4. /\ FlattenSeq(SubSeq(F, 1, 1 - 1)) \in Seq(Nat)
            /\ F[1] \in Seq(Nat) /\ FlattenSeq(SubSeq(F, 1 + 1, Len(F))) \in Seq(Nat)
            /\ FlattenSeq(F) = FlattenSeq(SubSeq(F, 1, 1 - 1))
                                 \o (F[1] \o FlattenSeq(SubSeq(F, 1 + 1, Len(F))))
        <5>1. 1 \in 1 .. Len(F)
          BY <4>2, <4>3
        <5> QED
          BY <4>2, <5>1, SplitAt
      <4>5. SubSeq(F, 1, 1 - 1) = <<>> /\ FlattenSeq(<<>>) = <<>> /\ 1 + 1 = 2
        BY DEF FlattenSeq
      <4>6. t \in Seq(Nat) /\ u \in Seq(Nat) /\ FlattenSeq(F) = <<>> \o (u \o t)
        BY <4>2, <4>4, <4>5
      <4>7. Len(u) = 3 /\ u[1] = 32
        BY DEF HexTriple
      <4> HIDE DEF t, u
      <4> DEFINE z == u \o t
      <4>8. /\ z \in Seq(Nat) /\ Len(z) = Len(u) + Len(t)
            /\ \A i \in 1 .. Len(u) : z[i] = u[i]
        <5>1. t \in Seq(Nat) /\ u \in Seq(Nat)
          BY <4>6
        <5> QED
          BY <5>1, ConcatElements
      <4>9. FlattenSeq(F) = z
        BY <4>6, <4>8
      <4> HIDE DEF z
      <4>10. z # <<>> /\ z[1] = 32
        <5>1. 1 \in 1 .. Len(u) /\ Len(t) \in Nat
          BY <4>6, <4>7
        <5>2. Len(z) >= 1
          BY <4>7, <4>8, <5>1
        <5> QED
          BY <4>7, <4>8, <5>1, <5>2
      <4> QED
        BY <4>9, <4>10 DEF F, Spaced
    <3> HIDE DEF f
    <3> QED
      BY <1>1, <3>1, FirstSpace
  <2> QED
    BY <2>1, <2>2
<1> HIDE DEF f
<1> DEFINE h == Drop(f, 1)
<1>3. h \in Seq(Nat) /\ Fold(HexTable, HexStart, h) = Fold(HexTable, HexStart, f)
  BY <1>2
<1> HIDE DEF h
<1>4. Digits(h) = HexRead(Fold(HexTable, HexStart, h))
  BY <1>3, DigitsFold DEF HexRead
<1> QED
  BY <1>1, <1>3, <1>4, ToHexIs DEF h, f

(* Bytes are read back from the hexadecimal that is written of them.         *)
LEMMA HexBack ==
    ASSUME NEW s \in Seq(0 .. 255)
    PROVE  ParseHex(ToHex(s)) = {s}
<1> DEFINE w == Via(PairTable, s)
           d == Digited(s)
<1>1. w \in Seq(Seq(HexDigits)) /\ Len(w) = Len(s) /\ Len(s) \in Nat
  <2> DEFINE B == 0 .. 255
  <2>1. IsMap(PairTable, B, Seq(HexDigits)) /\ s \in Seq(B)
    BY HexTables
  <2> HIDE DEF B
  <2> QED
    BY <2>1, ViaTyped
<1>2. ASSUME NEW i \in 1 .. Len(s)
      PROVE  /\ s[i] \in 0 .. 255 /\ Len(w[i]) = 2
             /\ 16 * HexVal(w[i][1]) + HexVal(w[i][2]) = s[i]
  <2>1. s[i] \in 0 .. 255 /\ i \in DOMAIN s
    OBVIOUS
  <2>2. w[i] = HexPair(s[i])
    BY <2>1, HexTables DEF Via
  <2> HIDE DEF w
  <2> QED
    BY <2>1, <2>2, HexPairBack
<1> HIDE DEF w
<1>3. Pairs(w)
  BY <1>1, <1>2 DEF Pairs
<1>4. /\ d \in Seq(HexDigits) /\ Len(d) = 2 * Len(w)
      /\ \A i \in 1 .. Len(w) : d[2 * i - 1] = w[i][1] /\ d[2 * i] = w[i][2]
  <2>1. d = FlattenSeq(w)
    BY DEF Digited, w
  <2> HIDE DEF d
  <2> QED
    BY <1>1, <1>3, <2>1, PairsFlatten
<1> HIDE DEF d
<1>5. Digits(ToHex(s)) = d
  BY DigitsBack DEF d
<1>6. Len(d) % 2 = 0 /\ Len(d) \div 2 = Len(s)
  <2> DEFINE n == Len(s)
  <2>1. n \in Nat /\ Len(d) = 2 * n
    BY <1>1, <1>4
  <2> HIDE DEF n
  <2>2. (2 * n) % 2 = 0 /\ (2 * n) \div 2 = n
    BY <2>1
  <2> QED
    BY <2>1, <2>2 DEF n
<1>7. \A i \in DOMAIN d : IsHexDigit(d[i])
  <2> DEFINE H == HexDigits
  <2>1. d \in Seq(H)
    BY <1>4
  <2> HIDE DEF H
  <2>2. \A i \in DOMAIN d : d[i] \in H
    BY <2>1
  <2> QED
    BY <2>2 DEF H, IsHexDigit, HexDigits
<1> DEFINE b == [i \in 1 .. Len(d) \div 2 |-> 16 * HexVal(d[2 * i - 1]) + HexVal(d[2 * i])]
<1>8. ParseHex(ToHex(s)) = {b}
  BY <1>5, <1>6, <1>7, Zenon DEF ParseHex
<1>9. b = s
  <2>1. ASSUME NEW i \in 1 .. Len(s)
        PROVE  16 * HexVal(d[2 * i - 1]) + HexVal(d[2 * i]) = s[i]
    <3>1. i \in 1 .. Len(w)
      BY <1>1
    <3>2. d[2 * i - 1] = w[i][1] /\ d[2 * i] = w[i][2]
      BY <1>4, <3>1
    <3> QED
      BY <1>2, <3>2
  <2>2. b = [i \in 1 .. Len(s) |-> s[i]]
    BY <1>6, <2>1
  <2>3. s = [i \in 1 .. Len(s) |-> s[i]]
    OBVIOUS
  <2> HIDE DEF b
  <2> QED
    BY <2>2, <2>3, Zenon
<1> QED
  BY <1>8, <1>9, Zenon

-----------------------------------------------------------------------------
(* Base64 read back.                                                         *)

(* A digit of base64 is worth the six bits it is written for, and is not     *)
(* padding.                                                                  *)
LEMMA SextetBack ==
    ASSUME NEW v \in 0 .. 63
    PROVE  /\ IsBase64Digit(Base64Digit(v)) /\ Base64Digit(v) # 61
           /\ Base64Val(Base64Digit(v)) = v
<1> DEFINE A == (48 .. 57) \cup (65 .. 90) \cup (97 .. 122) \cup {43, 47}
<1>1. \E c \in A : Base64Val(c) = v
  <2>1. CASE v < 26
    <3>1. v + 65 \in 65 .. 90
      BY <2>1
    <3>2. Base64Val(v + 65) = (v + 65) - 65
      BY <3>1 DEF Base64Val
    <3> QED
      BY <3>1, <3>2
  <2>2. CASE 26 <= v /\ v < 52
    <3>1. v + 71 \in 97 .. 122 /\ v + 71 \notin 65 .. 90
      BY <2>2
    <3>2. Base64Val(v + 71) = (v + 71) - 71
      BY <3>1 DEF Base64Val
    <3> QED
      BY <3>1, <3>2
  <2>3. CASE 52 <= v /\ v < 62
    <3>1. v - 4 \in 48 .. 57 /\ v - 4 \notin 65 .. 90 /\ v - 4 \notin 97 .. 122
      BY <2>3
    <3>2. Base64Val(v - 4) = (v - 4) + 4
      BY <3>1 DEF Base64Val
    <3> QED
      BY <3>1, <3>2
  <2>4. CASE v = 62
    <3>1. 43 \in A /\ Base64Val(43) = 62
      BY SMT DEF Base64Val
    <3> QED
      BY <2>4, <3>1
  <2>5. CASE v = 63
    <3>1. 47 \in A /\ Base64Val(47) = 63
      BY SMT DEF Base64Val
    <3> QED
      BY <2>5, <3>1
  <2> QED
    BY <2>1, <2>2, <2>3, <2>4, <2>5
<1>2. Base64Digit(v) = CHOOSE c \in A : Base64Val(c) = v
  BY DEF Base64Digit
<1>3. \A c \in A : IsBase64Digit(c) /\ c # 61
  BY SMT DEF IsBase64Digit
<1> HIDE DEF A
<1> QED
  BY <1>1, <1>2, <1>3

(* A group of three bytes as a number, its digits and its bytes.             *)
IsTrio(t, x, y, z) == /\ x \in 0 .. 255 /\ y \in 0 .. 255 /\ z \in 0 .. 255
                      /\ t = 65536 * x + 256 * y + z

Joined(u, v, w, x) == 64 * (64 * (64 * u + v) + w) + x
SixOf(t, r) == CASE r = 1 -> (t \div 262144) % 64
                 [] r = 2 -> (t \div 4096) % 64
                 [] r = 3 -> (t \div 64) % 64
                 [] r = 4 -> t % 64
OctetOf(t, r) == CASE r = 1 -> (t \div 65536) % 256
                  [] r = 2 -> (t \div 256) % 256
                  [] r = 3 -> t % 256

(* The number of a group is put together again from its four digits,         *)
LEMMA TrioDigits ==
    ASSUME NEW t, NEW x, NEW y, NEW z, IsTrio(t, x, y, z)
    PROVE  /\ t \in Nat
           /\ SixOf(t, 1) \in 0 .. 63 /\ SixOf(t, 2) \in 0 .. 63
           /\ SixOf(t, 3) \in 0 .. 63 /\ SixOf(t, 4) \in 0 .. 63
           /\ Joined(SixOf(t, 1), SixOf(t, 2), SixOf(t, 3), SixOf(t, 4)) = t
<1>1. t \in Nat /\ t < 16777216
  BY SMT DEF IsTrio
<1> DEFINE p == t \div 64
           q == t \div 4096
           r == t \div 262144
<1>2. /\ p \in Nat /\ t % 64 \in 0 .. 63 /\ t = 64 * p + (t % 64)
      /\ q \in Nat /\ q = p \div 64 /\ r \in Nat /\ r = q \div 64
  BY <1>1, Base64Parts DEF Six
<1> HIDE DEF p, q, r
<1>3. /\ p % 64 \in 0 .. 63 /\ p = 64 * q + (p % 64)
      /\ q % 64 \in 0 .. 63 /\ q = 64 * r + (q % 64)
  BY <1>2, SMT
<1>4. r < 64
  BY <1>1, <1>2, <1>3, SMT
<1>5. r % 64 = r
  BY <1>2, <1>4, SMT
<1>6. 64 * (64 * (64 * (r % 64) + (q % 64)) + (p % 64)) + (t % 64) = t
  BY <1>2, <1>3, <1>5
<1>7. r % 64 \in 0 .. 63
  BY <1>2, <1>4, <1>5
<1>8. /\ SixOf(t, 1) = r % 64 /\ SixOf(t, 2) = q % 64
      /\ SixOf(t, 3) = p % 64 /\ SixOf(t, 4) = t % 64
  BY SMT DEF SixOf, p, q, r
<1>9. Joined(SixOf(t, 1), SixOf(t, 2), SixOf(t, 3), SixOf(t, 4)) = t
  BY <1>6, <1>8, Zenon DEF Joined
<1>10. t \in Nat
  BY <1>1
<1>11. t % 64 \in 0 .. 63
  BY <1>2
<1> QED
  BY <1>3, <1>7, <1>8, <1>9, <1>10, <1>11, Zenon

(* and taken apart into its three bytes; where a byte is zero, so is what    *)
(* only it fills.                                                            *)
LEMMA TrioBytes ==
    ASSUME NEW t, NEW x, NEW y, NEW z, IsTrio(t, x, y, z)
    PROVE  /\ (t \div 65536) % 256 = x /\ (t \div 256) % 256 = y /\ t % 256 = z
           /\ (z = 0 => t % 64 = 0)
           /\ (y = 0 /\ z = 0 => (t \div 64) % 64 = 0)
<1>1. x \in 0 .. 255 /\ y \in 0 .. 255 /\ z \in 0 .. 255 /\ t = 65536 * x + 256 * y + z
  BY DEF IsTrio
<1>2. t \div 65536 = x /\ t \div 256 = 256 * x + y /\ t % 256 = z
  BY <1>1, SMT
<1>3. x % 256 = x /\ (256 * x + y) % 256 = y
  BY <1>1, SMT
<1>4. z = 0 => t % 64 = 0
  BY <1>1, SMT
<1>5. y = 0 /\ z = 0 => (t \div 64) % 64 = 0
  <2> SUFFICES ASSUME y = 0, z = 0
               PROVE  (t \div 64) % 64 = 0
    OBVIOUS
  <2>1. t \div 64 = 1024 * x
    BY <1>1, SMT
  <2>2. (1024 * x) % 64 = 0
    BY <1>1, SMT
  <2> QED
    BY <2>1, <2>2
<1> QED
  BY <1>2, <1>3, <1>4, <1>5

(* How many groups and digits bytes make.                                    *)
Groups(n) == (n + 2) \div 3
Filled(n) == (8 * n + 5) \div 6
Sizes(n, q, m) == /\ q \in Nat /\ n = 3 * q + m
                  /\ \/ m = 0 /\ Groups(n) = q /\ Filled(n) = 4 * q
                     \/ m = 1 /\ Groups(n) = q + 1 /\ Filled(n) = 4 * q + 2
                     \/ m = 2 /\ Groups(n) = q + 1 /\ Filled(n) = 4 * q + 3

(* Any number of bytes is full groups and nothing, one byte or two bytes.    *)
LEMMA SizesAre ==
    ASSUME NEW n \in Nat
    PROVE  \E q, m : Sizes(n, q, m)
<1> DEFINE q == n \div 3
           m == n % 3
<1>1. q \in Nat /\ m \in {0, 1, 2} /\ n = 3 * q + m
  OBVIOUS
<1> HIDE DEF q, m
<1>2. CASE m = 0
  <2>1. (3 * q + 2) \div 3 = q /\ (8 * (3 * q) + 5) \div 6 = 4 * q
    BY <1>1, SMT
  <2>2. n = 3 * q /\ m = 0
    BY <1>1, <1>2
  <2>3. Groups(n) = (3 * q + 2) \div 3 /\ Filled(n) = (8 * (3 * q) + 5) \div 6
    BY <2>2 DEF Groups, Filled
  <2> QED
    BY <1>1, <2>1, <2>2, <2>3 DEF Sizes
<1>3. CASE m = 1
  <2>1. (3 * q + 1 + 2) \div 3 = q + 1 /\ (8 * (3 * q + 1) + 5) \div 6 = 4 * q + 2
    BY <1>1, SMT
  <2>2. n = 3 * q + 1 /\ m = 1
    BY <1>1, <1>3
  <2>3. Groups(n) = (3 * q + 1 + 2) \div 3 /\ Filled(n) = (8 * (3 * q + 1) + 5) \div 6
    BY <2>2 DEF Groups, Filled
  <2> QED
    BY <1>1, <2>1, <2>2, <2>3 DEF Sizes
<1>4. CASE m = 2
  <2>1. (3 * q + 2 + 2) \div 3 = q + 1 /\ (8 * (3 * q + 2) + 5) \div 6 = 4 * q + 3
    BY <1>1, SMT
  <2>2. n = 3 * q + 2 /\ m = 2
    BY <1>1, <1>4
  <2>3. Groups(n) = (3 * q + 2 + 2) \div 3 /\ Filled(n) = (8 * (3 * q + 2) + 5) \div 6
    BY <2>2 DEF Groups, Filled
  <2> QED
    BY <1>1, <2>1, <2>2, <2>3 DEF Sizes
<1> QED
  BY <1>1, <1>2, <1>3, <1>4

(* The number of a group of three bytes, and the digits that are written of  *)
(* it.                                                                       *)
Trio(b, k) == 65536 * ByteOr0(b, 3 * k + 1) + 256 * ByteOr0(b, 3 * k + 2) + ByteOr0(b, 3 * k + 3)
Digit64(b, i) == (Trio(b, (i - 1) \div 4) \div (64 ^ (3 - ((i - 1) % 4)))) % 64

(* The bytes of a group, where a byte that is missing is zero, make its      *)
(* number.                                                                   *)
LEMMA TrioIs ==
    ASSUME NEW b \in Seq(0 .. 255), NEW k \in Nat
    PROVE  IsTrio(Trio(b, k), ByteOr0(b, 3 * k + 1), ByteOr0(b, 3 * k + 2), ByteOr0(b, 3 * k + 3))
<1> DEFINE B == 0 .. 255
<1>1. b \in Seq(B) /\ 0 \in B
  OBVIOUS
<1> HIDE DEF B
<1>2. ASSUME NEW j \in Nat, j >= 1
      PROVE  ByteOr0(b, j) \in B
  <2>1. CASE j <= Len(b)
    <3>1. j \in 1 .. Len(b)
      BY <1>1, <1>2, <2>1
    <3> QED
      BY <1>1, <2>1, <3>1, ElementOfSeq DEF ByteOr0
  <2>2. CASE ~(j <= Len(b))
    BY <1>1, <2>2 DEF ByteOr0
  <2> QED
    BY <2>1, <2>2
<1>3. /\ 3 * k + 1 \in Nat /\ 3 * k + 2 \in Nat /\ 3 * k + 3 \in Nat
      /\ 3 * k + 1 >= 1 /\ 3 * k + 2 >= 1 /\ 3 * k + 3 >= 1
  OBVIOUS
<1>4. ByteOr0(b, 3 * k + 1) \in B /\ ByteOr0(b, 3 * k + 2) \in B /\ ByteOr0(b, 3 * k + 3) \in B
  BY <1>2, <1>3
<1> QED
  BY <1>4 DEF IsTrio, Trio, B

(* What is read of the digits of a group.                                    *)
LEMMA TrioFacts ==
    ASSUME NEW b \in Seq(0 .. 255), NEW k \in Nat
    PROVE  /\ Trio(b, k) \in Nat
           /\ \A r \in 1 .. 4 : SixOf(Trio(b, k), r) \in 0 .. 63
           /\ \A r \in 1 .. 3 : OctetOf(Trio(b, k), r) = ByteOr0(b, 3 * k + r)
           /\ Joined(SixOf(Trio(b, k), 1), SixOf(Trio(b, k), 2),
                     SixOf(Trio(b, k), 3), SixOf(Trio(b, k), 4)) = Trio(b, k)
           /\ ByteOr0(b, 3 * k + 3) = 0 => SixOf(Trio(b, k), 4) = 0
           /\ ByteOr0(b, 3 * k + 2) = 0 /\ ByteOr0(b, 3 * k + 3) = 0 => SixOf(Trio(b, k), 3) = 0
<1> DEFINE t == Trio(b, k)
           x == ByteOr0(b, 3 * k + 1)
           y == ByteOr0(b, 3 * k + 2)
           z == ByteOr0(b, 3 * k + 3)
<1>1. IsTrio(t, x, y, z)
  BY TrioIs
<1> HIDE DEF t, x, y, z
<1>2. /\ SixOf(t, 3) = (t \div 64) % 64 /\ SixOf(t, 4) = t % 64
      /\ OctetOf(t, 1) = (t \div 65536) % 256 /\ OctetOf(t, 2) = (t \div 256) % 256
      /\ OctetOf(t, 3) = t % 256
  BY SMT DEF SixOf, OctetOf
<1>3. /\ t \in Nat
      /\ SixOf(t, 1) \in 0 .. 63 /\ SixOf(t, 2) \in 0 .. 63
      /\ SixOf(t, 3) \in 0 .. 63 /\ SixOf(t, 4) \in 0 .. 63
  BY <1>1, TrioDigits, Zenon
<1>4. Joined(SixOf(t, 1), SixOf(t, 2), SixOf(t, 3), SixOf(t, 4)) = t
  BY <1>1, TrioDigits, Zenon
<1>5. OctetOf(t, 1) = x /\ OctetOf(t, 2) = y /\ OctetOf(t, 3) = z
  BY <1>1, <1>2, TrioBytes
<1>6. (z = 0 => SixOf(t, 4) = 0) /\ (y = 0 /\ z = 0 => SixOf(t, 3) = 0)
  BY <1>1, <1>2, TrioBytes
<1>7. \A r \in 1 .. 4 : r = 1 \/ r = 2 \/ r = 3 \/ r = 4
  OBVIOUS
<1>8. \A r \in 1 .. 4 : SixOf(t, r) \in 0 .. 63
  BY <1>3, <1>7, Zenon
<1>9. \A r \in 1 .. 3 : OctetOf(t, r) = ByteOr0(b, 3 * k + r)
  <2>1. \A r \in 1 .. 3 : r = 1 \/ r = 2 \/ r = 3
    OBVIOUS
  <2> QED
    BY <1>5, <2>1, Zenon DEF x, y, z
<1> QED
  BY <1>3, <1>4, <1>6, <1>8, <1>9, Zenon DEF t, y, z

(* What is written, place by place.                                          *)
LEMMA ToBase64Is ==
    ASSUME NEW b
    PROVE  ToBase64(b) = [i \in 1 .. 4 * Groups(Len(b)) |->
                             IF i <= Filled(Len(b)) THEN Base64Digit(Digit64(b, i)) ELSE 61]
BY DEF ToBase64, Groups, Filled, Digit64, Trio, ByteOr0

(* The four digits of a group, each six bits of its number.                  *)
LEMMA DigitAt ==
    ASSUME NEW b \in Seq(0 .. 255), NEW k \in Nat, NEW r \in 1 .. 4
    PROVE  Digit64(b, 4 * k + r) = SixOf(Trio(b, k), r)
<1> DEFINE t == Trio(b, k)
           i == 4 * k + r
<1>1. 64 ^ 3 = 262144 /\ 64 ^ 2 = 4096 /\ 64 ^ 1 = 64 /\ 64 ^ 0 = 1
  OBVIOUS
<1>2. (i - 1) \div 4 = k /\ (i - 1) % 4 = r - 1 /\ 3 - (r - 1) = 4 - r
  BY SMT
<1>3. t \in Nat
  BY TrioFacts, Zenon
<1> HIDE DEF t, i
<1>4. Digit64(b, i) = (t \div (64 ^ (4 - r))) % 64
  BY <1>2, Zenon DEF Digit64, t
<1>5. t \div 1 = t
  BY <1>3, SMT
<1>6. CASE r = 1
  <2>1. 64 ^ (4 - r) = 262144
    BY <1>1, <1>6, SMT
  <2> QED
    BY <1>4, <1>6, <2>1, SMT DEF SixOf, t, i
<1>7. CASE r = 2
  <2>1. 64 ^ (4 - r) = 4096
    BY <1>1, <1>7, SMT
  <2> QED
    BY <1>4, <1>7, <2>1, SMT DEF SixOf, t, i
<1>8. CASE r = 3
  <2>1. 64 ^ (4 - r) = 64
    BY <1>1, <1>8, SMT
  <2> QED
    BY <1>4, <1>8, <2>1, SMT DEF SixOf, t, i
<1>9. CASE r = 4
  <2>1. 64 ^ (4 - r) = 1
    BY <1>1, <1>9, SMT
  <2> QED
    BY <1>4, <1>5, <1>9, <2>1, SMT DEF SixOf, t, i
<1>10. r = 1 \/ r = 2 \/ r = 3 \/ r = 4
  OBVIOUS
<1> QED
  BY <1>6, <1>7, <1>8, <1>9, <1>10

(* Every digit is six bits.                                                  *)
LEMMA DigitTyped ==
    ASSUME NEW b \in Seq(0 .. 255), NEW k \in Nat, NEW r \in 1 .. 4
    PROVE  Digit64(b, 4 * k + r) \in 0 .. 63
BY DigitAt, TrioFacts, Zenon

(* What padding stands for is zero in the number.                            *)
LEMMA PaddedDigit ==
    ASSUME NEW b \in Seq(0 .. 255), NEW k \in Nat, NEW r \in 1 .. 4,
           4 * k + r <= 4 * Groups(Len(b)), 4 * k + r > Filled(Len(b))
    PROVE  Digit64(b, 4 * k + r) = 0
<1>1. Len(b) \in Nat
  OBVIOUS
<1>2. PICK q, m : Sizes(Len(b), q, m)
  BY <1>1, SizesAre
<1> DEFINE n == Len(b)
           G == Groups(n)
           F == Filled(n)
<1>3. n \in Nat /\ 4 * k + r <= 4 * G /\ 4 * k + r > F /\ Sizes(n, q, m) /\ q \in Nat
  BY <1>2 DEF Sizes
<1> HIDE DEF n, G, F
<1>5. \/ m = 0 /\ n = 3 * q /\ G = q /\ F = 4 * q
      \/ m = 1 /\ n = 3 * q + 1 /\ G = q + 1 /\ F = 4 * q + 2
      \/ m = 2 /\ n = 3 * q + 2 /\ G = q + 1 /\ F = 4 * q + 3
  BY <1>3 DEF Sizes, G, F
<1>6. k = q /\ ((m = 1 /\ n = 3 * q + 1 /\ r \in {3, 4}) \/ (m = 2 /\ n = 3 * q + 2 /\ r = 4))
  BY <1>3, <1>5
<1>7. ByteOr0(b, 3 * k + 3) = 0 /\ (m = 1 => ByteOr0(b, 3 * k + 2) = 0)
  BY <1>3, <1>6 DEF ByteOr0, n
<1>8. SixOf(Trio(b, k), 4) = 0 /\ (m = 1 => SixOf(Trio(b, k), 3) = 0)
  BY <1>7, TrioFacts, Zenon
<1>9. Digit64(b, 4 * k + r) = SixOf(Trio(b, k), r)
  BY DigitAt
<1>10. CASE r = 4
  BY <1>8, <1>9, <1>10, Zenon
<1>11. CASE r = 3
  <2>1. m = 1
    BY <1>6, <1>11
  <2> QED
    BY <1>8, <1>9, <1>11, <2>1, Zenon
<1> QED
  BY <1>6, <1>10, <1>11

(* The six bits that are read for a place are those that were written.       *)
LEMMA SextetAt ==
    ASSUME NEW b \in Seq(0 .. 255), NEW k \in Nat, NEW r \in 1 .. 4, k < Groups(Len(b))
    PROVE  Sextet(ToBase64(b), 4 * k + r) = Digit64(b, 4 * k + r)
<1> DEFINE i == 4 * k + r
           G == Groups(Len(b))
           F == Filled(Len(b))
           s == ToBase64(b)
           v == Digit64(b, i)
<1>0. Len(b) \in Nat /\ G \in Nat /\ F \in Nat
  <2>1. Len(b) \in Nat
    OBVIOUS
  <2>2. PICK q, m : Sizes(Len(b), q, m)
    BY <2>1, SizesAre
  <2> QED
    BY <2>1, <2>2 DEF Sizes
<1>1. v \in 0 .. 63
  BY DigitTyped
<1>2. k < G
  OBVIOUS
<1>3. s = [j \in 1 .. 4 * G |-> IF j <= F THEN Base64Digit(Digit64(b, j)) ELSE 61]
  BY ToBase64Is
<1>4. F < i => v = 0
  <2> SUFFICES ASSUME F < i
               PROVE  v = 0
    OBVIOUS
  <2> HIDE DEF G, F
  <2>1. 4 * k + r <= 4 * G /\ 4 * k + r > F
    BY <1>0, <1>2
  <2> QED
    BY <2>1, PaddedDigit DEF G, F
<1> HIDE DEF G, F, s
<1>5. i \in 1 .. 4 * G /\ i \in Nat
  BY <1>0, <1>2
<1> HIDE DEF i
<1>6. s[i] = IF i <= F THEN Base64Digit(v) ELSE 61
  BY <1>3, <1>5
<1>7. DOMAIN s = 1 .. 4 * G
  BY <1>3
<1> HIDE DEF v
<1>8. CASE i <= F
  <2>1. s[i] = Base64Digit(v) /\ s[i] # 61 /\ Base64Val(s[i]) = v
    BY <1>1, <1>6, <1>8, SextetBack
  <2> QED
    BY <2>1 DEF Sextet, i, s, v
<1>9. CASE ~(i <= F)
  <2>1. s[i] = 61 /\ v = 0
    BY <1>0, <1>4, <1>5, <1>6, <1>9
  <2>2. i \in {j \in DOMAIN s : s[j] = 61}
    BY <1>5, <1>7, <2>1
  <2>3. Sextet(s, i) = 0
    BY <2>2 DEF Sextet
  <2> QED
    BY <2>1, <2>3 DEF i, s, v
<1> QED
  BY <1>8, <1>9

(* Four digits are the number their three bytes make.                        *)
LEMMA QuadBack ==
    ASSUME NEW b \in Seq(0 .. 255), NEW k \in Nat, k < Groups(Len(b))
    PROVE  Quad(ToBase64(b), k) = Trio(b, k)
<1>1. \A r \in 1 .. 4 : Sextet(ToBase64(b), 4 * k + r) = SixOf(Trio(b, k), r)
  BY SextetAt, DigitAt, Zenon
<1>2. 1 \in 1 .. 4 /\ 2 \in 1 .. 4 /\ 3 \in 1 .. 4 /\ 4 \in 1 .. 4
  OBVIOUS
<1>3. Quad(ToBase64(b), k) = Joined(Sextet(ToBase64(b), 4 * k + 1), Sextet(ToBase64(b), 4 * k + 2),
                                    Sextet(ToBase64(b), 4 * k + 3), Sextet(ToBase64(b), 4 * k + 4))
  <2> DEFINE s == ToBase64(b)
  <2> HIDE DEF s
  <2>1. Quad(s, k) = Joined(Sextet(s, 4 * k + 1), Sextet(s, 4 * k + 2),
                            Sextet(s, 4 * k + 3), Sextet(s, 4 * k + 4))
    BY QuadValue DEF Joined
  <2> QED
    BY <2>1, Zenon DEF s
<1> QED
  BY <1>1, <1>2, <1>3, TrioFacts, Zenon

(* Three bytes are read from every group.                                    *)
LEMMA ByteBack ==
    ASSUME NEW b \in Seq(0 .. 255), NEW j \in 1 .. 3 * Groups(Len(b)), Groups(Len(b)) \in Nat
    PROVE  DecodedByte(ToBase64(b), j) = ByteOr0(b, j)
<1> DEFINE G == Groups(Len(b))
           k == (j - 1) \div 3
           r == (j - 1) % 3
<1>1. G \in Nat /\ j \in 1 .. 3 * G
  OBVIOUS
<1>2. k \in Nat /\ r \in 0 .. 2 /\ j = 3 * k + r + 1 /\ k < G
  <2> HIDE DEF G
  <2> QED
    BY <1>1, SMT
<1>3. Quad(ToBase64(b), k) = Trio(b, k)
  BY <1>2, QuadBack
<1> HIDE DEF k, r
<1> DEFINE t == Trio(b, k)
<1>4. DecodedByte(ToBase64(b), j) = (t \div (256 ^ (2 - r))) % 256
  BY <1>3, Zenon DEF DecodedByte, k, r
<1>5. t \in Nat /\ \A x \in 1 .. 3 : OctetOf(t, x) = ByteOr0(b, 3 * k + x)
  BY <1>2, TrioFacts, Zenon
<1> HIDE DEF t
<1>6. 256 ^ 2 = 65536 /\ 256 ^ 1 = 256 /\ 256 ^ 0 = 1
  OBVIOUS
<1>7. t \div 1 = t
  BY <1>5, SMT
<1>8. r + 1 \in 1 .. 3 /\ j = 3 * k + (r + 1)
  BY <1>2
<1>9. DecodedByte(ToBase64(b), j) = OctetOf(t, r + 1)
  <2>1. CASE r = 0
    <3>1. 256 ^ (2 - r) = 65536 /\ r + 1 = 1
      BY <1>6, <2>1, SMT
    <3> QED
      BY <1>4, <3>1, SMT DEF OctetOf
  <2>2. CASE r = 1
    <3>1. 256 ^ (2 - r) = 256 /\ r + 1 = 2
      BY <1>6, <2>2, SMT
    <3> QED
      BY <1>4, <3>1, SMT DEF OctetOf
  <2>3. CASE r = 2
    <3>1. 256 ^ (2 - r) = 1 /\ r + 1 = 3
      BY <1>6, <2>3, SMT
    <3> QED
      BY <1>4, <1>7, <3>1, SMT DEF OctetOf
  <2> QED
    BY <1>2, <2>1, <2>2, <2>3
<1> QED
  BY <1>5, <1>8, <1>9, Zenon

(* Two are two.                                                              *)
LEMMA TwoElements ==
    ASSUME NEW x, NEW y, x # y
    PROVE  Cardinality({x, y}) = 2
<1>1. IsFiniteSet({x}) /\ Cardinality({x}) = 1
  BY FS_Singleton
<1>2. y \notin {x} /\ {x} \cup {y} = {x, y}
  OBVIOUS
<1> DEFINE A == {x}
<1>3. Cardinality(A \cup {y}) = Cardinality(A) + 1
  <2> HIDE DEF A
  <2>1. IsFiniteSet(A) /\ y \notin A
    BY <1>1, <1>2 DEF A
  <2> QED
    BY <2>1, FS_AddElement
<1> QED
  BY <1>1, <1>2, <1>3

(* The padding is what there is beyond the digits.                           *)
LEMMA PaddingIs ==
    ASSUME NEW b \in Seq(0 .. 255), NEW G, NEW F, G = Groups(Len(b)), F = Filled(Len(b)),
           G \in Nat, F \in Nat
    PROVE  /\ Len(ToBase64(b)) = 4 * G /\ DOMAIN ToBase64(b) = 1 .. 4 * G
           /\ Padding(ToBase64(b)) = {i \in 1 .. 4 * G : i > F}
           /\ \A i \in 1 .. 4 * G : i <= F => IsBase64Digit(ToBase64(b)[i])
<1> DEFINE s == ToBase64(b)
<1>1. s = [i \in 1 .. 4 * G |-> IF i <= F THEN Base64Digit(Digit64(b, i)) ELSE 61]
  BY ToBase64Is
<1>2. ASSUME NEW i \in 1 .. 4 * G
      PROVE  Digit64(b, i) \in 0 .. 63
  <2> DEFINE k == (i - 1) \div 4
             r == ((i - 1) % 4) + 1
  <2>1. k \in Nat /\ r \in 1 .. 4 /\ i = 4 * k + r
    BY SMT
  <2> HIDE DEF k, r
  <2> QED
    BY <2>1, DigitTyped
<1> HIDE DEF s
<1>3. DOMAIN s = 1 .. 4 * G /\ 4 * G \in Nat
  BY <1>1
<1>4. Len(s) = 4 * G
  BY <1>1, <1>3, SMT
<1>5. ASSUME NEW i \in 1 .. 4 * G
      PROVE  /\ i <= F => s[i] # 61 /\ IsBase64Digit(s[i])
             /\ ~(i <= F) => s[i] = 61
  BY <1>1, <1>2, SextetBack
<1>6. Padding(s) = {i \in 1 .. 4 * G : i > F}
  <2>1. \A i \in 1 .. 4 * G : ~(i <= F) <=> i > F
    OBVIOUS
  <2> QED
    BY <1>3, <1>5, <2>1 DEF Padding
<1> QED
  BY <1>3, <1>4, <1>5, <1>6 DEF s

(* There are as many padding characters as bytes are missing.                *)
LEMMA PaddingCount ==
    ASSUME NEW b \in Seq(0 .. 255)
    PROVE  /\ Groups(Len(b)) \in Nat /\ Filled(Len(b)) \in Nat
           /\ Padding(ToBase64(b)) \in {{}, {Len(ToBase64(b))},
                                        {Len(ToBase64(b)) - 1, Len(ToBase64(b))}}
           /\ DecodedLen(ToBase64(b)) = Len(b)
           /\ Len(b) <= 3 * Groups(Len(b))
<1> DEFINE n == Len(b)
           G == Groups(n)
           F == Filled(n)
           s == ToBase64(b)
<1>1. n \in Nat
  OBVIOUS
<1>2. PICK q, m : Sizes(n, q, m)
  BY <1>1, SizesAre
<1> HIDE DEF n
<1>3. G \in Nat /\ F \in Nat /\ q \in Nat
  BY <1>2 DEF Sizes
<1>4. Len(s) = 4 * G /\ Padding(s) = {i \in 1 .. 4 * G : i > F}
  BY <1>3, PaddingIs DEF n
<1> HIDE DEF G, F, s
<1>5. DecodedLen(s) = 3 * G - Cardinality(Padding(s))
  <2>1. (4 * G) \div 4 = G
    BY <1>3, SMT
  <2> QED
    BY <1>4, <2>1 DEF DecodedLen
<1>6. CASE m = 0
  <2>1. n = 3 * q /\ G = q /\ F = 4 * q
    BY <1>2, <1>6 DEF Sizes, G, F
  <2>2. Padding(s) = {}
    BY <1>3, <1>4, <2>1
  <2>3. Cardinality(Padding(s)) = 0
    BY <2>2, FS_EmptySet
  <2> QED
    BY <1>3, <1>5, <2>1, <2>2, <2>3 DEF n, G, F, s
<1>7. CASE m = 1
  <2>1. n = 3 * q + 1 /\ G = q + 1 /\ F = 4 * q + 2
    BY <1>2, <1>7 DEF Sizes, G, F
  <2> DEFINE N == 4 * G
  <2>2. N - 1 = F + 1 /\ N = F + 2 /\ N \in Nat /\ N - 1 >= 1
    BY <1>3, <2>1
  <2> HIDE DEF N
  <2>3. Padding(s) = {N - 1, N} /\ N - 1 # N
    <3>1. Padding(s) = {i \in 1 .. N : i > F}
      BY <1>4 DEF N
    <3>2. \A i \in 1 .. N : i > F <=> i = N - 1 \/ i = N
      BY <1>3, <2>2
    <3>3. N - 1 \in 1 .. N /\ N \in 1 .. N /\ N - 1 # N
      BY <2>2
    <3> QED
      BY <3>1, <3>2, <3>3
  <2>4. Cardinality(Padding(s)) = 2
    BY <2>3, TwoElements
  <2>5. Padding(s) = {Len(s) - 1, Len(s)}
    BY <1>4, <2>3 DEF N
  <2>6. DecodedLen(s) = n /\ n <= 3 * G
    BY <1>3, <1>5, <2>1, <2>4
  <2> QED
    BY <1>3, <2>5, <2>6 DEF n, G, F, s
<1>8. CASE m = 2
  <2>1. n = 3 * q + 2 /\ G = q + 1 /\ F = 4 * q + 3
    BY <1>2, <1>8 DEF Sizes, G, F
  <2> DEFINE N == 4 * G
  <2>2. N = F + 1 /\ N \in Nat /\ N >= 1
    BY <1>3, <2>1
  <2> HIDE DEF N
  <2>3. Padding(s) = {N}
    BY <1>3, <1>4, <2>2 DEF N
  <2>4. Cardinality(Padding(s)) = 1
    BY <2>3, FS_Singleton
  <2>5. Padding(s) = {Len(s)}
    BY <1>4, <2>3 DEF N
  <2>6. DecodedLen(s) = n /\ n <= 3 * G
    BY <1>3, <1>5, <2>1, <2>4
  <2> QED
    BY <1>3, <2>5, <2>6 DEF n, G, F, s
<1>9. m = 0 \/ m = 1 \/ m = 2
  BY <1>2 DEF Sizes
<1> QED
  BY <1>6, <1>7, <1>8, <1>9

(* Bytes are read back from the base64 that is written of them.              *)
LEMMA Base64Back ==
    ASSUME NEW b \in Seq(0 .. 255)
    PROVE  FromBase64(ToBase64(b)) = {b}
<1> DEFINE s == ToBase64(b)
           n == Len(b)
           G == Groups(n)
           F == Filled(n)
<1>1. n \in Nat /\ b = [j \in 1 .. n |-> b[j]]
  OBVIOUS
<1>2. /\ G \in Nat /\ F \in Nat /\ DecodedLen(s) = n /\ n <= 3 * G
      /\ Padding(s) \in {{}, {Len(s)}, {Len(s) - 1, Len(s)}}
  BY PaddingCount
<1>3. /\ Len(s) = 4 * G /\ DOMAIN s = 1 .. 4 * G
      /\ Padding(s) = {i \in 1 .. 4 * G : i > F}
      /\ \A i \in 1 .. 4 * G : i <= F => IsBase64Digit(s[i])
  BY <1>2, PaddingIs
<1>4. \A j \in 1 .. 3 * G : DecodedByte(s, j) = ByteOr0(b, j)
  BY <1>2, ByteBack
<1>5. FromBase64(s) =
             IF /\ Len(s) % 4 = 0
                /\ Padding(s) \in {{}, {Len(s)}, {Len(s) - 1, Len(s)}}
                /\ \A i \in DOMAIN s \ Padding(s) : IsBase64Digit(s[i])
                /\ \A j \in DecodedLen(s) + 1 .. 3 * (Len(s) \div 4) : DecodedByte(s, j) = 0
               THEN {[j \in 1 .. DecodedLen(s) |-> DecodedByte(s, j)]}
               ELSE {}
  BY FromBase64Is
<1> HIDE DEF s, G, F, n
<1>6. Len(s) % 4 = 0 /\ Len(s) \div 4 = G
  BY <1>2, <1>3, SMT
<1>7. \A i \in DOMAIN s \ Padding(s) : IsBase64Digit(s[i])
  BY <1>2, <1>3
<1>8. \A j \in n + 1 .. 3 * G : DecodedByte(s, j) = 0
  BY <1>1, <1>2, <1>4 DEF ByteOr0, n
<1>9. [j \in 1 .. n |-> DecodedByte(s, j)] = b
  <2>1. \A j \in 1 .. n : DecodedByte(s, j) = b[j]
    BY <1>1, <1>2, <1>4 DEF ByteOr0, n
  <2> QED
    BY <1>1, <2>1
<1>10. FromBase64(s) = {[j \in 1 .. n |-> DecodedByte(s, j)]}
  BY <1>2, <1>5, <1>6, <1>7, <1>8, Zenon
<1> QED
  BY <1>9, <1>10, Zenon DEF s

-----------------------------------------------------------------------------
(* What the interface shows.                                                 *)

(* No text has no bytes.                                                     *)
LEMMA EmptyEncoded ==
    ASSUME NEW encoding \in Encodings
    PROVE  EncodeText(<<>>, encoding) = <<>>
<1>1. FlattenSeq(<<>>) = <<>>
  BY DEF FlattenSeq
<1>2. FlatMap(Utf8Bytes, <<>>) = <<>>
  <2>1. [i \in DOMAIN <<>> |-> Utf8Bytes(<<>>[i])] = <<>>
    OBVIOUS
  <2> QED
    BY <1>1, <2>1 DEF FlatMap
<1>3. FlatMap(Utf16Units, <<>>) = <<>>
  <2>1. [i \in DOMAIN <<>> |-> Utf16Units(<<>>[i])] = <<>>
    OBVIOUS
  <2> QED
    BY <1>1, <2>1 DEF FlatMap
<1>4. ASSUME NEW big
      PROVE  EncodeUtf16(<<>>, big) = <<>>
  <2>1. [i \in DOMAIN <<>> |-> UnitBytes(<<>>[i], big)] = <<>>
    OBVIOUS
  <2> QED
    BY <1>1, <1>3, <2>1 DEF EncodeUtf16, FlatMap
<1>5. Narrow(<<>>) = <<>>
  BY DEF Narrow
<1>6. /\ EncodeText(<<>>, "utf-16le") = <<>> /\ EncodeText(<<>>, "utf-16be") = <<>>
      /\ EncodeText(<<>>, "ascii") = <<>> /\ EncodeText(<<>>, "latin-1") = <<>>
      /\ EncodeText(<<>>, "utf-8") = <<>>
  BY <1>2, <1>4, <1>5 DEF EncodeText, Narrow
<1> QED
  BY <1>6 DEF Encodings

(* The line of a message that is read back is shown as what it is.           *)
LEMMA LineShown ==
    ASSUME IInv, NEW m \in Messages, m.request.checksum = "none", Readable(m.request)
    PROVE  LET shown == Classify(m.payload.bytes, session.recvEncoding)
               half == m.request.encoding = "utf-16le" /\ Ending(m.request) # {<<>>}
           IN  /\ shown.text = Line(m.request)
               /\ shown.isText <=> Showable(Line(m.request)) /\ ~half
<1> DEFINE r == m.request
           p == m.payload
           b == p.bytes
           t == TextOf(r)
           d == DecodeText(b, r.encoding)
<1>1. /\ r \in Requests /\ p \in BuildPayload(r) /\ b # <<>>
      /\ r.checksum = "none" /\ r.format = "text" /\ r.encoding = session.recvEncoding
      /\ Carries(r.encoding, t)
  BY DEF Messages, Readable
<1>2. PICK e \in Ending(r) : EndingReads(r, e)
  BY DEF Readable
<1>3. IsRequest(r)
  BY <1>1, ExchangeAssumption
<1>4. /\ d.text = t \o e
      /\ d.errors <=> r.encoding = "utf-16le" /\ e # <<>>
      /\ t \in Texts /\ e \in Seq(0 .. 255) /\ Ending(r) = {e}
      /\ b = EncodeText(t, r.encoding) \o e
  <2> HIDE DEF r, p
  <2> QED
    BY <1>1, <1>2, <1>3, ReadBack
<1>5. r.encoding \in Encodings
  BY <1>3 DEF IsRequest
<1>6. Line(r) = t \o e
  BY <1>4, OneToSeq DEF Line
<1>7. t \o e # <<>>
  <2> SUFFICES ASSUME t \o e = <<>>
               PROVE  FALSE
    OBVIOUS
  <2> HIDE DEF t
  <2>1. t = <<>> /\ e = <<>>
    <3>1. Len(t \o e) = Len(t) + Len(e) /\ Len(t) \in Nat /\ Len(e) \in Nat
      BY <1>4 DEF Texts
    <3>2. Len(t \o e) = 0
      OBVIOUS
    <3>3. Len(t) = 0 /\ Len(e) = 0
      BY <3>1, <3>2
    <3> QED
      BY <1>4, <3>3, EmptySeq DEF Texts
  <2>2. b = <<>> \o <<>>
    BY <1>4, <1>5, <2>1, EmptyEncoded
  <2>3. <<>> \o <<>> = <<>>
    BY ConcatEmptySeq
  <2> QED
    BY <1>1, <2>2, <2>3
<1>8. Ending(r) # {<<>>} <=> e # <<>>
  BY <1>4
<1> HIDE DEF r, b, d, t
<1>9. /\ Classify(b, session.recvEncoding).text = d.text
      /\ Classify(b, session.recvEncoding).isText
           <=> /\ ~d.errors /\ b # <<>>
               /\ \A i \in DOMAIN d.text : ~IsControl(d.text[i]) \/ d.text[i] \in {9, 10, 13}
  BY <1>1, Zenon DEF Classify, d
<1>10. Showable(Line(r)) <=>
           \A i \in DOMAIN d.text : ~IsControl(d.text[i]) \/ d.text[i] \in {9, 10, 13}
  BY <1>4, <1>6, <1>7, Zenon DEF Showable
<1>11. Classify(b, session.recvEncoding).text = Line(r)
  BY <1>4, <1>6, <1>9, Zenon
<1>12. Classify(b, session.recvEncoding).isText
         <=> Showable(Line(r)) /\ ~(r.encoding = "utf-16le" /\ Ending(r) # {<<>>})
  BY <1>1, <1>4, <1>8, <1>9, <1>10, Zenon
<1> QED
  BY <1>11, <1>12, Zenon DEF r, b, p

(* In every state that has the invariant each frame is shown as it was sent. *)
LEMMA ShownInState ==
    IInv => ShownAsSent
<1> SUFFICES ASSUME IInv
             PROVE  ShownAsSent
  OBVIOUS
<1> DEFINE B == 0 .. 255
<1>1. frames \in Seq(Seq(B)) /\ sent \in Seq(Messages)
  BY DEF IInv, Stream, RP!TypeOK, RP!Bytes
<1>2. ASSUME NEW i \in DOMAIN frames
      PROVE  /\ ParseHex(ToHex(frames[i])) = {frames[i]}
             /\ FromBase64(ToBase64(frames[i])) = {frames[i]}
  <2>1. frames[i] \in Seq(B)
    <3> DEFINE A == Seq(B)
    <3> HIDE DEF A, B
    <3>1. frames \in Seq(A)
      BY <1>1 DEF A
    <3>2. frames[i] \in A
      BY <3>1, ElementOfSeq
    <3> QED
      BY <3>2 DEF A
  <2> QED
    BY <2>1, HexBack, Base64Back
<1>3. \A m \in Range(sent) : m \in Messages
  BY <1>1 DEF Range
<1>4. ASSUME NEW i \in DOMAIN frames, NEW m \in Range(sent),
             frames[i] = m.payload.bytes, m.request.checksum = "none", Readable(m.request)
      PROVE  LET shown == Classify(frames[i], session.recvEncoding)
                 half == m.request.encoding = "utf-16le" /\ Ending(m.request) # {<<>>}
             IN  /\ shown.text = Line(m.request)
                 /\ shown.isText <=> Showable(Line(m.request)) /\ ~half
  BY <1>3, <1>4, LineShown, Zenon
<1> QED
  BY <1>2, <1>4, Zenon DEF ShownAsSent

(* What the interface has of a frame loses nothing: its hexadecimal and its  *)
(* base64 are read back as exactly these bytes by the parsers the send box   *)
(* uses, and a frame that is one message reads as the text and line ending   *)
(* that were typed, shown as text unless it has control characters or half a *)
(* unit (to_hex, parse_hex, encode_text, decode_text and classify in         *)
(* codec.rs).                                                                *)
THEOREM EachIsShownAsSent ==
    Spec => []ShownAsSent
BY ExchangeInductive, ShownInState, PTL

(* The types follow from the invariant.                                      *)
LEMMA TypedInState ==
    IInv => TypeOK
<1> SUFFICES ASSUME IInv
             PROVE  TypeOK
  OBVIOUS
<1>1. session \in Sessions /\ Rx!TypeOK
  BY SameFramer DEF IInv, Accepted
<1>2. Len(sent) <= MaxSends /\ wire \in Seq(0 .. 255)
  BY DEF IInv, Stream
<1>3. Len(plans) <= Len(frames)
  BY DEF IInv, Answered
<1> QED
  BY <1>1, <1>2, <1>3 DEF TypeOK

(* Type correctness of the journey: the sends stay within their bound and no *)
(* frame is answered before it is cut (send_message in commands.rs, inbound  *)
(* in session/mod.rs).                                                       *)
THEOREM ExchangeTyped ==
    Spec => []TypeOK
BY ExchangeInductive, TypedInState, PTL
===============================================================================
