---------------------------- MODULE SequenceLemmas ----------------------------
(* What the proofs about queues need to know of sequences.                   *)

EXTENDS SequencesExt, SequenceTheorems, WellFoundedInduction, TLAPS

(* A sequence is a prefix of itself, ...                                     *)
LEMMA PrefixSelf ==
    ASSUME NEW S, NEW s \in Seq(S)
    PROVE  IsPrefix(s, s)
BY DEF IsPrefix

(* ... of itself with more behind it, ...                                    *)
LEMMA PrefixConcat ==
    ASSUME NEW S, NEW s \in Seq(S), NEW t \in Seq(S)
    PROVE  IsPrefix(s, s \o t)
BY DEF IsPrefix

(* ... and a prefix stays one when an element is appended.                   *)
LEMMA PrefixAppend ==
    ASSUME NEW S, NEW s \in Seq(S), NEW t \in Seq(S), NEW e \in S,
           IsPrefix(s, t)
    PROVE  IsPrefix(s, Append(t, e))
BY DEF IsPrefix

(* Appending an element adds that element.                                   *)
LEMMA RangeAppend ==
    ASSUME NEW S, NEW s \in Seq(S), NEW e \in S
    PROVE  Range(Append(s, e)) = Range(s) \cup {e}
BY RangeConcatenation, AppendIsConcat DEF Range

(* A sequence is its first element and the rest.                             *)
LEMMA HeadTail ==
    ASSUME NEW S, NEW s \in Seq(S), s # <<>>
    PROVE  <<Head(s)>> \o Tail(s) = s
OBVIOUS


(* The elements of a sequence are its first and those behind it.             *)
LEMMA RangeHead ==
    ASSUME NEW S, NEW s \in Seq(S), s # <<>>
    PROVE  Range(s) = {Head(s)} \cup Range(Tail(s))
<1>1. /\ DOMAIN Tail(s) = 1 .. (Len(s) - 1)
      /\ DOMAIN s = 1 .. Len(s) /\ Len(s) \in Nat /\ Len(s) > 0
      /\ Head(s) = s[1]
      /\ \A i \in 1 .. (Len(s) - 1) : Tail(s)[i] = s[i + 1]
  OBVIOUS
<1>2. ASSUME NEW x \in Range(s)
      PROVE  x \in {Head(s)} \cup Range(Tail(s))
  <2>1. PICK i \in 1 .. Len(s) : s[i] = x
    BY <1>1 DEF Range
  <2>2. CASE i = 1
    BY <1>1, <2>1, <2>2
  <2>3. CASE i # 1
    <3>1. i - 1 \in 1 .. (Len(s) - 1) /\ (i - 1) + 1 = i
      BY <1>1, <2>3
    <3>2. Tail(s)[i - 1] = x
      BY <1>1, <2>1, <3>1
    <3> QED
      BY <1>1, <3>1, <3>2 DEF Range
  <2> QED
    BY <2>2, <2>3
<1>3. ASSUME NEW x \in {Head(s)} \cup Range(Tail(s))
      PROVE  x \in Range(s)
  <2>1. CASE x = Head(s)
    <3>1. 1 \in DOMAIN s
      BY <1>1
    <3> QED
      BY <1>1, <2>1, <3>1 DEF Range
  <2>2. CASE x \in Range(Tail(s))
    <3>1. PICK i \in 1 .. (Len(s) - 1) : Tail(s)[i] = x
      BY <1>1, <2>2 DEF Range
    <3>2. i + 1 \in DOMAIN s /\ s[i + 1] = x
      BY <1>1, <3>1
    <3> QED
      BY <3>2 DEF Range
  <2> QED
    BY <1>3, <2>1, <2>2
<1> QED
  BY <1>2, <1>3

(* Taking the first element out of t puts it behind s.                       *)
LEMMA HeadMoves ==
    ASSUME NEW S, NEW s \in Seq(S), NEW t \in Seq(S), t # <<>>
    PROVE  (s \o <<Head(t)>>) \o Tail(t) = s \o t
<1>1. /\ <<Head(t)>> \in Seq(S) /\ Tail(t) \in Seq(S)
      /\ <<Head(t)>> \o Tail(t) = t
  BY HeadTail
<1> QED
  BY <1>1, ConcatAssociative

(* The elements of a sequence that is extended, and of one whose first       *)
(* element is taken.                                                         *)
LEMMA InAppend ==
    ASSUME NEW S, NEW s \in Seq(S), NEW e \in S, NEW x
    PROVE  (\A i \in DOMAIN Append(s, e) : Append(s, e)[i] # x)
             <=> x # e /\ \A i \in DOMAIN s : s[i] # x
<1>1. /\ DOMAIN Append(s, e) = 1 .. (Len(s) + 1)
      /\ DOMAIN s = 1 .. Len(s) /\ Len(s) \in Nat
  OBVIOUS
<1>2. /\ Append(s, e)[Len(s) + 1] = e
      /\ \A i \in 1 .. Len(s) : Append(s, e)[i] = s[i]
  OBVIOUS
<1> QED
  BY <1>1, <1>2

(* An element is not in a sequence if it is neither first nor in the rest.   *)
LEMMA InTail ==
    ASSUME NEW S, NEW s \in Seq(S), s # <<>>, NEW x
    PROVE  (\A i \in DOMAIN s : s[i] # x)
             <=> x # Head(s) /\ \A i \in DOMAIN Tail(s) : Tail(s)[i] # x
<1>1. /\ DOMAIN Tail(s) = 1 .. (Len(s) - 1)
      /\ DOMAIN s = 1 .. Len(s) /\ Len(s) \in Nat /\ Len(s) > 0
  OBVIOUS
<1>2. /\ Head(s) = s[1]
      /\ \A i \in 1 .. (Len(s) - 1) : Tail(s)[i] = s[i + 1]
  OBVIOUS
<1>3. ASSUME \A i \in DOMAIN s : s[i] # x
      PROVE  x # Head(s) /\ \A i \in DOMAIN Tail(s) : Tail(s)[i] # x
  <2>1. 1 \in DOMAIN s /\ \A i \in DOMAIN Tail(s) : i + 1 \in DOMAIN s
    BY <1>1
  <2> QED
    BY <1>1, <1>2, <1>3, <2>1
<1>4. ASSUME x # Head(s), \A i \in DOMAIN Tail(s) : Tail(s)[i] # x
      PROVE  \A i \in DOMAIN s : s[i] # x
  <2> TAKE i \in DOMAIN s
  <2>1. CASE i = 1
    BY <1>2, <1>4, <2>1
  <2>2. CASE i # 1
    <3>1. i - 1 \in 1 .. (Len(s) - 1) /\ (i - 1) + 1 = i
      BY <1>1, <2>2
    <3> QED
      BY <1>1, <1>2, <1>4, <3>1
  <2> QED
    BY <2>1, <2>2
<1> QED
  BY <1>3, <1>4

-----------------------------------------------------------------------------
(* Induction over the length of a sequence: the least counterexample is      *)
(* taken.                                                                    *)

(* A set of natural numbers that is not empty has a least element.           *)
LEMMA LeastNumber ==
    ASSUME NEW T \in SUBSET Nat, T # {}
    PROVE  \E m \in T : \A k \in T : m <= k
<1> DEFINE R == {ss \in Nat \X Nat : ss[1] < ss[2]}
<1>1. IsWellFoundedOn(R, Nat)
  BY NatLessThanWellFounded DEF OpToRel
<1>2. \A x, y \in Nat : x < y => <<x, y>> \in R
  OBVIOUS
<1> HIDE DEF R
<1>3. PICK m \in T : \A k \in T : ~(<<k, m>> \in R)
  BY <1>1, WFMin
<1>4. \A k \in T : ~(k < m)
  BY <1>2, <1>3
<1> QED
  BY <1>4

(* The function by which FlattenSeq is defined, on the first n elements.     *)
Flattens(h, s, n) ==
    h = [i \in 1 .. n |-> IF i = 1 THEN s[i] ELSE h[i - 1] \o s[i]]

(* There is one ...                                                          *)
LEMMA FlatteningExists ==
    ASSUME NEW s, NEW n \in Nat
    PROVE  \E h : Flattens(h, s, n)
<1> SUFFICES ASSUME ~ \E h : Flattens(h, s, n)
             PROVE  FALSE
  OBVIOUS
<1> DEFINE T == {k \in Nat : ~ \E h : Flattens(h, s, k)}
<1>1. PICK m \in T : \A k \in T : m <= k
  <2>1. T \in SUBSET Nat /\ n \in T
    OBVIOUS
  <2> HIDE DEF T
  <2> QED
    BY <2>1, LeastNumber
<1>2. m # 0
  <2>1. Flattens([i \in 1 .. 0 |-> 0], s, 0)
    BY DEF Flattens
  <2> QED
    BY <2>1
<1>3. m - 1 \in Nat /\ m - 1 \notin T
  BY <1>1, <1>2
<1>4. PICK h : Flattens(h, s, m - 1)
  BY <1>3
<1> DEFINE g == [i \in 1 .. m |->
                   IF i = m THEN (IF m = 1 THEN s[m] ELSE h[m - 1] \o s[m])
                            ELSE h[i]]
<1>5. \A i \in 1 .. (m - 1) : h[i] = IF i = 1 THEN s[i] ELSE h[i - 1] \o s[i]
  BY <1>4 DEF Flattens
<1>6. \A i \in 1 .. m : g[i] = IF i = 1 THEN s[i] ELSE g[i - 1] \o s[i]
  BY <1>2, <1>5
<1>7. Flattens(g, s, m)
  BY <1>6 DEF Flattens
<1> QED
  BY <1>7

(* ... its values are sequences of what the elements are sequences of ...    *)
LEMMA FlatteningTyped ==
    ASSUME NEW S, NEW s \in Seq(Seq(S)), NEW n \in 0 .. Len(s),
           NEW h, Flattens(h, s, n), NEW j \in 1 .. n
    PROVE  h[j] \in Seq(S)
<1> SUFFICES ASSUME h[j] \notin Seq(S)
             PROVE  FALSE
  OBVIOUS
<1> DEFINE T == {k \in 1 .. n : h[k] \notin Seq(S)}
<1>1. PICK m \in T : \A k \in T : m <= k
  <2>1. T \in SUBSET Nat /\ j \in T
    OBVIOUS
  <2> HIDE DEF T
  <2> QED
    BY <2>1, LeastNumber
<1>2. h[m] = IF m = 1 THEN s[m] ELSE h[m - 1] \o s[m]
  BY DEF Flattens
<1>3. s[m] \in Seq(S)
  OBVIOUS
<1>4. m # 1 => h[m - 1] \in Seq(S)
  BY <1>1
<1>5. h[m] \in Seq(S)
  BY <1>2, <1>3, <1>4
<1> QED
  BY <1>5

(* ... and one more element leaves the earlier values as they are.           *)
LEMMA FlatteningAgrees ==
    ASSUME NEW S, NEW s \in Seq(Seq(S)), NEW e \in Seq(S),
           NEW g, Flattens(g, s, Len(s)),
           NEW h, Flattens(h, Append(s, e), Len(s) + 1)
    PROVE  \A j \in 1 .. Len(s) : g[j] = h[j]
<1> DEFINE t == Append(s, e)
           n == Len(s)
<1> SUFFICES ASSUME NEW j \in 1 .. n, g[j] # h[j]
             PROVE  FALSE
  OBVIOUS
<1> DEFINE T == {i \in 1 .. n : g[i] # h[i]}
<1>1. PICK m \in T : \A i \in T : m <= i
  <2>1. T \in SUBSET Nat /\ j \in T
    OBVIOUS
  <2> HIDE DEF T
  <2> QED
    BY <2>1, LeastNumber
<1>2. m \in 1 .. n /\ m \in 1 .. (n + 1) /\ n \in Nat
  OBVIOUS
<1>3. s[m] = t[m]
  <2>1. e \in Seq(S) /\ m \in 1 .. Len(s)
    OBVIOUS
  <2> QED
    BY <2>1, AppendProperties
<1> HIDE DEF t
<1>4. g[m] = IF m = 1 THEN s[m] ELSE g[m - 1] \o s[m]
  BY <1>2 DEF Flattens
<1>5. h[m] = IF m = 1 THEN t[m] ELSE h[m - 1] \o t[m]
  BY <1>2 DEF Flattens, t
<1>6. m # 1 => g[m - 1] = h[m - 1]
  BY <1>1, <1>2
<1>7. g[m] = h[m]
  BY <1>3, <1>4, <1>5, <1>6
<1> QED
  BY <1>7

(* FlattenSeq is the last value of such a function.                          *)
LEMMA FlattenIsLast ==
    ASSUME NEW S, NEW s \in Seq(Seq(S)), s # <<>>
    PROVE  \E h : Flattens(h, s, Len(s)) /\ FlattenSeq(s) = h[Len(s)]
<1> DEFINE h == CHOOSE h : Flattens(h, s, Len(s))
<1>1. Len(s) \in Nat /\ Len(s) # 0
  OBVIOUS
<1>2. Flattens(h, s, Len(s))
  BY <1>1, FlatteningExists
<1>3. FlattenSeq(s) = h[Len(s)]
  BY <1>1 DEF FlattenSeq, Flattens
<1> QED
  BY <1>2, <1>3

(* Sequences over S, one behind the other, are a sequence over S.            *)
LEMMA FlattenTyped ==
    ASSUME NEW S, NEW s \in Seq(Seq(S))
    PROVE  FlattenSeq(s) \in Seq(S)
<1>1. CASE s = <<>>
  BY <1>1 DEF FlattenSeq
<1>2. CASE s # <<>>
  <2>1. PICK h : Flattens(h, s, Len(s)) /\ FlattenSeq(s) = h[Len(s)]
    BY <1>2, FlattenIsLast
  <2>2. Len(s) \in 0 .. Len(s) /\ Len(s) \in 1 .. Len(s)
    BY <1>2
  <2> QED
    BY <2>1, <2>2, FlatteningTyped
<1> QED
  BY <1>1, <1>2

(* Flattening a sequence that is extended by one element.                    *)
LEMMA FlattenAppend ==
    ASSUME NEW S, NEW s \in Seq(Seq(S)), NEW e \in Seq(S)
    PROVE  FlattenSeq(Append(s, e)) = FlattenSeq(s) \o e
<1> DEFINE t == Append(s, e)
           n == Len(s)
<1>1. /\ t \in Seq(Seq(S)) /\ t # <<>> /\ Len(t) = n + 1 /\ n \in Nat
      /\ t[n + 1] = e /\ \A i \in 1 .. n : s[i] = t[i]
  <2>1. e \in Seq(S) /\ Len(s) \in Nat
    OBVIOUS
  <2> QED
    BY <2>1, AppendProperties
<1> HIDE DEF t
<1>2. PICK h : Flattens(h, t, n + 1) /\ FlattenSeq(t) = h[n + 1]
  BY <1>1, FlattenIsLast
<1>3. h[n + 1] = IF n + 1 = 1 THEN e ELSE h[n] \o e
  <2>1. \A i \in 1 .. (n + 1) : h[i] = IF i = 1 THEN t[i] ELSE h[i - 1] \o t[i]
    BY <1>2 DEF Flattens
  <2>2. n + 1 \in 1 .. (n + 1) /\ (n + 1) - 1 = n
    BY <1>1
  <2> HIDE DEF n
  <2> QED
    BY <1>1, <2>1, <2>2
<1>4. CASE s = <<>>
  <2>1. FlattenSeq(s) = <<>>
    BY <1>4 DEF FlattenSeq
  <2>2. <<>> \o e = e
    OBVIOUS
  <2> QED
    BY <1>2, <1>3, <1>4, <2>1, <2>2 DEF t
<1>5. CASE s # <<>>
  <2>1. PICK g : Flattens(g, s, n) /\ FlattenSeq(s) = g[n]
    BY <1>5, FlattenIsLast
  <2>2. n \in 1 .. n /\ n <= n + 1 /\ n + 1 \in Nat
    BY <1>1, <1>5
  <2>3. \A j \in 1 .. n : g[j] = h[j]
    BY <1>2, <2>1, FlatteningAgrees DEF t
  <2>4. h[n + 1] = h[n] \o e
    BY <1>1, <1>3, <2>2
  <2>5. h[n] = FlattenSeq(s)
    BY <2>1, <2>2, <2>3
  <2>6. FlattenSeq(t) = FlattenSeq(s) \o e
    BY <1>2, <2>4, <2>5
  <2> QED
    BY <2>6 DEF t
<1> QED
  BY <1>4, <1>5
-----------------------------------------------------------------------------
(* The function by which FoldLeft reads the digits d to the base B, on the   *)
(* sets of the first n places.                                               *)
Reads(it, d, B, n) ==
    it = [p \in SUBSET (1 .. n) |->
             IF p = {} THEN 0 ELSE it[p \ {Max(p)}] * B + d[Max(p)]]

(* The last place of the first m is m.                                       *)
LEMMA MaxOfSet ==
    ASSUME NEW m \in Nat, NEW p \in SUBSET (1 .. m), m \in p
    PROVE  Max(p) = m
<1>1. m \in p /\ \A y \in p : m >= y
  OBVIOUS
<1>2. \A x \in p : (\A y \in p : x >= y) => x = m
  OBVIOUS
<1> QED
  BY <1>1, <1>2 DEF Max

(* There is such a function, for any number of places: with a least number   *)
(* for which there is none, the one for a place less could be extended.      *)
LEMMA ReadingExists ==
    ASSUME NEW d, NEW B, NEW n \in Nat
    PROVE  \E it : Reads(it, d, B, n)
<1> SUFFICES ASSUME ~ \E it : Reads(it, d, B, n)
             PROVE  FALSE
  OBVIOUS
<1> DEFINE T == {k \in Nat : ~ \E it : Reads(it, d, B, k)}
<1>1. PICK m \in T : \A k \in T : m <= k
  <2>1. T \in SUBSET Nat /\ n \in T
    OBVIOUS
  <2> HIDE DEF T
  <2> QED
    BY <2>1, LeastNumber
<1>2. m # 0
  <2> DEFINE it == [p \in SUBSET (1 .. 0) |-> 0]
  <2>1. \A p \in SUBSET (1 .. 0) : p = {}
    OBVIOUS
  <2>2. it = [p \in SUBSET (1 .. 0) |->
                IF p = {} THEN 0 ELSE it[p \ {Max(p)}] * B + d[Max(p)]]
    BY <2>1
  <2>3. Reads(it, d, B, 0)
    BY <2>2 DEF Reads
  <2> QED
    BY <2>3
<1>3. m - 1 \in Nat /\ m - 1 \notin T
  BY <1>1, <1>2
<1>4. PICK it : Reads(it, d, B, m - 1)
  BY <1>3
<1> DEFINE g == [p \in SUBSET (1 .. m) |->
                   IF m \in p THEN it[p \ {m}] * B + d[m] ELSE it[p]]
<1>5. \A p \in SUBSET (1 .. (m - 1)) :
        it[p] = IF p = {} THEN 0 ELSE it[p \ {Max(p)}] * B + d[Max(p)]
  BY <1>4 DEF Reads
<1>6. ASSUME NEW p \in SUBSET (1 .. m)
      PROVE  g[p] = IF p = {} THEN 0 ELSE g[p \ {Max(p)}] * B + d[Max(p)]
  <2>1. CASE m \in p
    <3>1. Max(p) = m
      BY <1>3, <2>1, MaxOfSet
    <3>2. p \ {m} \in SUBSET (1 .. m) /\ m \notin p \ {m}
      OBVIOUS
    <3>3. g[p \ {m}] = it[p \ {m}]
      BY <3>2
    <3>4. g[p] = it[p \ {m}] * B + d[m] /\ p # {}
      BY <2>1
    <3> HIDE DEF g
    <3> QED
      BY <3>1, <3>3, <3>4
  <2>2. CASE m \notin p
    <3>1. p \in SUBSET (1 .. (m - 1))
      BY <2>2
    <3>2. p \ {Max(p)} \in SUBSET (1 .. m) /\ m \notin p \ {Max(p)}
      BY <2>2
    <3>3. g[p \ {Max(p)}] = it[p \ {Max(p)}] /\ g[p] = it[p]
      BY <2>2, <3>2
    <3> HIDE DEF g
    <3> QED
      BY <1>5, <3>1, <3>3
  <2> QED
    BY <2>1, <2>2
<1>7. g = [p \in SUBSET (1 .. m) |->
             IF p = {} THEN 0 ELSE g[p \ {Max(p)}] * B + d[Max(p)]]
  BY <1>6
<1>8. Reads(g, d, B, m)
  BY <1>7 DEF Reads
<1> QED
  BY <1>8

(* FoldLeft reads the digits from the first to the last.                     *)
Number(d, B) == FoldLeft(LAMBDA len, x : len * B + x, 0, d)

(* The number that FoldLeft computes is what that function is worth on all   *)
(* the places.                                                               *)
LEMMA NumberIsRead ==
    ASSUME NEW d, NEW B, Len(d) \in Nat, DOMAIN d = 1 .. Len(d)
    PROVE  \E it : Reads(it, d, B, Len(d)) /\ Number(d, B) = it[1 .. Len(d)]
<1> DEFINE it == CHOOSE it : Reads(it, d, B, Len(d))
<1>1. Reads(it, d, B, Len(d))
  BY ReadingExists
<1>2. Number(d, B) = it[1 .. Len(d)]
  BY DEF Number, FoldLeft, MapThenFoldSet, Reads
<1> QED
  BY <1>1, <1>2

(* It starts from zero, and each place multiplies by the base and adds a     *)
(* digit.                                                                    *)
LEMMA ReadStep ==
    ASSUME NEW d, NEW B, NEW it, Len(d) \in Nat, Reads(it, d, B, Len(d))
    PROVE  /\ it[1 .. 0] = 0
           /\ \A k \in 1 .. Len(d) : it[1 .. k] = it[1 .. (k - 1)] * B + d[k]
<1>1. it[1 .. 0] = 0
  <2>1. 1 .. 0 = {} /\ {} \in SUBSET (1 .. Len(d))
    OBVIOUS
  <2> QED
    BY <2>1 DEF Reads
<1>2. ASSUME NEW k \in 1 .. Len(d)
      PROVE  it[1 .. k] = it[1 .. (k - 1)] * B + d[k]
  <2>1. /\ 1 .. k \in SUBSET (1 .. Len(d)) /\ 1 .. k \in SUBSET (1 .. k)
        /\ k \in 1 .. k /\ 1 .. k # {} /\ (1 .. k) \ {k} = 1 .. (k - 1)
        /\ k \in Nat
    <3>1. \A n \in Nat : k \in 1 .. n => 1 .. k \in SUBSET (1 .. n)
      OBVIOUS
    <3>2. k \in Nat /\ k >= 1
      OBVIOUS
    <3>3. /\ 1 .. k \in SUBSET (1 .. k) /\ k \in 1 .. k /\ 1 .. k # {}
          /\ (1 .. k) \ {k} = 1 .. (k - 1)
      BY <3>2
    <3> QED
      BY <3>1, <3>2, <3>3
  <2>2. Max(1 .. k) = k
    BY <2>1, MaxOfSet
  <2>3. it[1 .. k] = IF 1 .. k = {} THEN 0
                     ELSE it[(1 .. k) \ {Max(1 .. k)}] * B + d[Max(1 .. k)]
    BY <2>1 DEF Reads
  <2> QED
    BY <2>1, <2>2, <2>3
<1> QED
  BY <1>1, <1>2

(* So a number is reached from zero, one digit at a time.                    *)
LEMMA NumberSteps ==
    ASSUME NEW d, NEW B, Len(d) \in Nat, DOMAIN d = 1 .. Len(d)
    PROVE  \E v : /\ v[0] = 0
                  /\ \A k \in 1 .. Len(d) : v[k] = v[k - 1] * B + d[k]
                  /\ Number(d, B) = v[Len(d)]
<1>1. PICK it : Reads(it, d, B, Len(d)) /\ Number(d, B) = it[1 .. Len(d)]
  BY NumberIsRead
<1>2. /\ it[1 .. 0] = 0
      /\ \A k \in 1 .. Len(d) : it[1 .. k] = it[1 .. (k - 1)] * B + d[k]
  BY <1>1, ReadStep, Zenon
<1> DEFINE v == [k \in 0 .. Len(d) |-> it[1 .. k]]
<1>3. /\ v[0] = 0
      /\ \A k \in 1 .. Len(d) : v[k] = v[k - 1] * B + d[k]
      /\ v[Len(d)] = it[1 .. Len(d)]
  BY <1>2
<1> QED
  BY <1>1, <1>3

(* One digit more multiplies the bound by the base.                          *)
LEMMA DigitBound ==
    ASSUME NEW p \in Nat, NEW B \in Nat, NEW a \in 0 .. (p - 1),
           NEW x \in 0 .. (B - 1)
    PROVE  a * B + x \in 0 .. (p * B - 1)
OBVIOUS

(* Up to four digits to the base B are a number below the fourth power of B. *)
LEMMA NumberBound ==
    ASSUME NEW B \in Nat \ {0}, NEW d \in Seq(0 .. (B - 1)), Len(d) \in 1 .. 4
    PROVE  Number(d, B) \in 0 .. (B * B * B * B - 1)
<1>0. PICK n \in 1 .. 4 : n = Len(d)
  OBVIOUS
<1>1. n \in Nat /\ n \in 1 .. 4 /\ DOMAIN d = 1 .. n
  BY <1>0
<1>2. \A i \in 1 .. n : d[i] \in 0 .. (B - 1)
  BY <1>0
<1>3. PICK v : /\ v[0] = 0
               /\ \A k \in 1 .. Len(d) : v[k] = v[k - 1] * B + d[k]
               /\ Number(d, B) = v[Len(d)]
  BY <1>0, <1>1, NumberSteps
<1>4. v[0] = 0
  BY <1>3
<1>5. \A k \in 1 .. n : v[k] = v[k - 1] * B + d[k]
  BY <1>0, <1>3
<1>6. Number(d, B) = v[n]
  BY <1>0, <1>3
<1>7. v[1] \in 0 .. (B - 1)
  <2>1. v[1] = v[0] * B + d[1]
    BY <1>1, <1>5
  <2>2. d[1] \in 0 .. (B - 1)
    BY <1>1, <1>2
  <2> QED
    BY <1>4, <2>1, <2>2
<1>8. B * B \in Nat /\ B * B * B \in Nat
  OBVIOUS
<1>9. ASSUME n >= 2
      PROVE  v[2] \in 0 .. (B * B - 1)
  <2>1. v[2] = v[1] * B + d[2] /\ d[2] \in 0 .. (B - 1)
    BY <1>1, <1>2, <1>5, <1>9
  <2> QED
    BY <1>7, <2>1, DigitBound
<1>10. ASSUME n >= 3
       PROVE  v[3] \in 0 .. (B * B * B - 1)
  <2>1. v[3] = v[2] * B + d[3] /\ d[3] \in 0 .. (B - 1)
    BY <1>1, <1>2, <1>5, <1>10
  <2>2. v[2] \in 0 .. (B * B - 1)
    BY <1>1, <1>9, <1>10
  <2> QED
    BY <1>8, <2>1, <2>2, DigitBound
<1>11. ASSUME n >= 4
       PROVE  v[4] \in 0 .. (B * B * B * B - 1)
  <2>1. v[4] = v[3] * B + d[4] /\ d[4] \in 0 .. (B - 1)
    BY <1>1, <1>2, <1>5, <1>11
  <2>2. v[3] \in 0 .. (B * B * B - 1)
    BY <1>1, <1>10, <1>11
  <2> QED
    BY <1>8, <2>1, <2>2, DigitBound
<1>15. B * B * B * B \in Nat
  OBVIOUS
<1>12. B <= B * B /\ B * B <= B * B * B /\ B * B * B <= B * B * B * B
  OBVIOUS
<1>13. n = 1 \/ n = 2 \/ n = 3 \/ n = 4
  BY <1>1
<1>14. v[n] \in 0 .. (B * B * B * B - 1)
  <2>1. CASE n = 1
    BY <1>7, <1>12, <2>1
  <2>2. CASE n = 2
    BY <1>8, <1>9, <1>12, <2>2
  <2>3. CASE n = 3
    <3>1. v[3] \in 0 .. (B * B * B - 1)
      BY <1>10, <2>3
    <3> QED
      BY <1>8, <1>12, <1>15, <2>3, <3>1
  <2>4. CASE n = 4
    BY <1>11, <2>4
  <2> QED
    BY <1>13, <2>1, <2>2, <2>3, <2>4
<1> QED
  BY <1>6, <1>14

-----------------------------------------------------------------------------
(* The function by which FoldLeft is defined, on the sets of the first n     *)
(* places, for an operation that is given by its table F.                    *)
Iterates(it, F, base, s, n) ==
    it = [p \in SUBSET (1 .. n) |->
             IF p = {} THEN base ELSE F[it[p \ {Max(p)}]][s[Max(p)]]]

(* There is one for any number of places.                                    *)
LEMMA IterationExists ==
    ASSUME NEW F, NEW base, NEW s, NEW n \in Nat
    PROVE  \E it : Iterates(it, F, base, s, n)
<1> SUFFICES ASSUME ~ \E it : Iterates(it, F, base, s, n)
             PROVE  FALSE
  OBVIOUS
<1> DEFINE T == {k \in Nat : ~ \E it : Iterates(it, F, base, s, k)}
<1>1. PICK m \in T : \A k \in T : m <= k
  <2>1. T \in SUBSET Nat /\ n \in T
    OBVIOUS
  <2> HIDE DEF T
  <2> QED
    BY <2>1, LeastNumber
<1>2. m # 0
  <2> DEFINE it == [p \in SUBSET (1 .. 0) |-> base]
  <2>1. \A p \in SUBSET (1 .. 0) : p = {}
    OBVIOUS
  <2>2. it = [p \in SUBSET (1 .. 0) |->
                IF p = {} THEN base ELSE F[it[p \ {Max(p)}]][s[Max(p)]]]
    BY <2>1
  <2>3. Iterates(it, F, base, s, 0)
    BY <2>2 DEF Iterates
  <2> QED
    BY <2>3
<1>3. m - 1 \in Nat /\ m - 1 \notin T
  BY <1>1, <1>2
<1>4. PICK it : Iterates(it, F, base, s, m - 1)
  BY <1>3
<1> DEFINE g == [p \in SUBSET (1 .. m) |->
                   IF m \in p THEN F[it[p \ {m}]][s[m]] ELSE it[p]]
<1>5. \A p \in SUBSET (1 .. (m - 1)) :
        it[p] = IF p = {} THEN base ELSE F[it[p \ {Max(p)}]][s[Max(p)]]
  BY <1>4 DEF Iterates
<1>6. ASSUME NEW p \in SUBSET (1 .. m)
      PROVE  g[p] = IF p = {} THEN base ELSE F[g[p \ {Max(p)}]][s[Max(p)]]
  <2>1. CASE m \in p
    <3>1. Max(p) = m
      BY <1>3, <2>1, MaxOfSet
    <3>2. p \ {m} \in SUBSET (1 .. m) /\ m \notin p \ {m}
      OBVIOUS
    <3>3. g[p \ {m}] = it[p \ {m}]
      BY <3>2
    <3>4. g[p] = F[it[p \ {m}]][s[m]] /\ p # {}
      BY <2>1
    <3> HIDE DEF g
    <3> QED
      BY <3>1, <3>3, <3>4
  <2>2. CASE m \notin p
    <3>1. p \in SUBSET (1 .. (m - 1))
      BY <2>2
    <3>2. p \ {Max(p)} \in SUBSET (1 .. m) /\ m \notin p \ {Max(p)}
      BY <2>2
    <3>3. g[p \ {Max(p)}] = it[p \ {Max(p)}] /\ g[p] = it[p]
      BY <2>2, <3>2
    <3> HIDE DEF g
    <3> QED
      BY <1>5, <3>1, <3>3
  <2> QED
    BY <2>1, <2>2
<1>7. g = [p \in SUBSET (1 .. m) |->
             IF p = {} THEN base ELSE F[g[p \ {Max(p)}]][s[Max(p)]]]
  BY <1>6
<1>8. Iterates(g, F, base, s, m)
  BY <1>7 DEF Iterates
<1> QED
  BY <1>8

(* A set of places that is not empty is its last place and earlier ones.     *)
LEMMA LastPlace ==
    ASSUME NEW m \in Nat, NEW p \in SUBSET (1 .. m), p # {}
    PROVE  Max(p) \in p /\ \A x \in p : x <= Max(p)
<1> DEFINE U == {k \in Nat : \A x \in p : x <= k}
<1>1. U \in SUBSET Nat /\ m \in U
  OBVIOUS
<1>2. PICK k \in U : \A j \in U : k <= j
  <2> HIDE DEF U
  <2> QED
    BY <1>1, LeastNumber
<1>3. k \in p
  <2> SUFFICES ASSUME k \notin p
               PROVE  FALSE
    OBVIOUS
  <2>1. PICK x \in p : TRUE
    OBVIOUS
  <2>2. x \in Nat /\ x >= 1 /\ x <= k
    OBVIOUS
  <2>3. k - 1 \in U
    BY <2>2
  <2> QED
    BY <1>2, <2>2, <2>3
<1>4. \E x \in p : \A y \in p : x >= y
  BY <1>3
<1>5. \A x, y \in p : x >= y => y <= x
  OBVIOUS
<1> QED
  BY <1>4, <1>5 DEF Max

(* The first k places are the first k - 1 and the last of them.              *)
LEMMA PlacesUpTo ==
    ASSUME NEW k \in Nat, k >= 1
    PROVE  /\ 1 .. k \in SUBSET (1 .. k) /\ k \in 1 .. k /\ 1 .. k # {}
           /\ (1 .. k) \ {k} = 1 .. (k - 1)
<1>1. (1 .. k) \ {k} = 1 .. (k - 1)
  OBVIOUS
<1>2. 1 .. k \in SUBSET (1 .. k) /\ k \in 1 .. k
  OBVIOUS
<1> QED
  BY <1>1, <1>2

(* Two iterations that agree on no places, and on a set of places whenever   *)
(* they agree on the earlier ones, agree.                                    *)
AgreeStepwise(c, it, n) ==
    /\ c[{}] = it[{}]
    /\ \A p \in SUBSET (1 .. n) :
           p # {} /\ c[p \ {Max(p)}] = it[p \ {Max(p)}] => c[p] = it[p]

(* Then they agree everywhere.                                               *)
LEMMA IterationsAgree ==
    ASSUME NEW n \in Nat, NEW c, NEW it, AgreeStepwise(c, it, n)
    PROVE  \A p \in SUBSET (1 .. n) : c[p] = it[p]
<1> USE DEF AgreeStepwise
<1> SUFFICES ASSUME NEW q \in SUBSET (1 .. n), c[q] # it[q]
             PROVE  FALSE
  OBVIOUS
<1> DEFINE T == {k \in 0 .. n : \E p \in SUBSET (1 .. k) : c[p] # it[p]}
<1>1. PICK m \in T : \A k \in T : m <= k
  <2>1. T \in SUBSET Nat /\ n \in T
    OBVIOUS
  <2> HIDE DEF T
  <2> QED
    BY <2>1, LeastNumber
<1>2. PICK p \in SUBSET (1 .. m) : c[p] # it[p]
  OBVIOUS
<1>3. p # {} /\ m \in 0 .. n /\ m \in Nat /\ m # 0
  <2>1. p # {}
    BY <1>2
  <2>2. m \in 0 .. n
    OBVIOUS
  <2>3. m # 0
    <3> HIDE DEF T
    <3> SUFFICES ASSUME m = 0
                 PROVE  FALSE
      OBVIOUS
    <3>1. 1 .. m = {}
      OBVIOUS
    <3> QED
      BY <2>1, <3>1
  <2> HIDE DEF T
  <2> QED
    BY <2>1, <2>2, <2>3
<1>4. p \ {Max(p)} \in SUBSET (1 .. (m - 1))
  <2>1. Max(p) \in p /\ \A x \in p : x <= Max(p)
    BY <1>3, LastPlace
  <2> HIDE DEF T
  <2>2. ASSUME NEW x \in p \ {Max(p)}
        PROVE  x \in 1 .. (m - 1)
    <3>1. Max(p) \in 1 .. m /\ x \in 1 .. m /\ x <= Max(p) /\ x # Max(p)
      BY <2>1
    <3> QED
      BY <1>3, <3>1
  <2> QED
    BY <2>2
<1>5. m - 1 \notin T /\ m - 1 \in 0 .. n
  <2> HIDE DEF T
  <2>1. m - 1 \in 0 .. n /\ ~(m <= m - 1)
    BY <1>3
  <2> QED
    BY <1>1, <2>1
<1>6. c[p \ {Max(p)}] = it[p \ {Max(p)}]
  BY <1>4, <1>5
<1>7. p \in SUBSET (1 .. n)
  BY <1>3
<1> QED
  BY <1>2, <1>3, <1>6, <1>7

(* The values of an iteration are those of the table.                        *)
LEMMA IterationTyped ==
    ASSUME NEW A, NEW X, NEW F \in [A -> [X -> A]], NEW base \in A,
           NEW s \in Seq(X), NEW it, Iterates(it, F, base, s, Len(s))
    PROVE  \A p \in SUBSET (1 .. Len(s)) : it[p] \in A
<1> DEFINE n == Len(s)
           c == [p \in SUBSET (1 .. n) |-> IF it[p] \in A THEN it[p] ELSE base]
<1>1. \A p \in SUBSET (1 .. n) :
         it[p] = IF p = {} THEN base ELSE F[it[p \ {Max(p)}]][s[Max(p)]]
  BY DEF Iterates
<1>2. n \in Nat /\ {} \in SUBSET (1 .. n)
  OBVIOUS
<1>3. c[{}] = it[{}]
  BY <1>1, <1>2
<1>4. ASSUME NEW p \in SUBSET (1 .. n), p # {}, c[p \ {Max(p)}] = it[p \ {Max(p)}]
      PROVE  c[p] = it[p]
  <2>1. p \ {Max(p)} \in SUBSET (1 .. n)
    OBVIOUS
  <2>2. it[p \ {Max(p)}] \in A
    BY <1>4, <2>1
  <2>3. Max(p) \in 1 .. n
    BY <1>2, <1>4, LastPlace
  <2>4. s[Max(p)] \in X
    BY <2>3
  <2>5. it[p] \in A
    BY <1>1, <1>4, <2>2, <2>4
  <2> QED
    BY <2>5
<1>5. \A p \in SUBSET (1 .. n) :
         p # {} /\ c[p \ {Max(p)}] = it[p \ {Max(p)}] => c[p] = it[p]
  BY <1>4
<1>6. \A p \in SUBSET (1 .. n) : c[p] = it[p]
  <2> HIDE DEF c, n
  <2>1. AgreeStepwise(c, it, n)
    BY <1>3, <1>5, Zenon DEF AgreeStepwise
  <2> QED
    BY <1>2, <2>1, IterationsAgree
<1> QED
  BY <1>6

(* FoldLeft, for an operation given by its table.                            *)
Fold(F, base, s) == FoldLeft(LAMBDA acc, x : F[acc][x], base, s)

(* Its value is that of any iteration.                                       *)
LEMMA FoldIsIteration ==
    ASSUME NEW F, NEW base, NEW s, Len(s) \in Nat, DOMAIN s = 1 .. Len(s),
           NEW it, Iterates(it, F, base, s, Len(s))
    PROVE  Fold(F, base, s) = it[1 .. Len(s)]
<1> DEFINE c == CHOOSE c : Iterates(c, F, base, s, Len(s))
<1>1. Iterates(c, F, base, s, Len(s))
  OBVIOUS
<1>2. Fold(F, base, s) = c[1 .. Len(s)]
  BY DEF Fold, FoldLeft, MapThenFoldSet, Iterates
<1> HIDE DEF c
<1>3. c[{}] = it[{}]
  <2>1. {} \in SUBSET (1 .. Len(s))
    OBVIOUS
  <2> QED
    BY <1>1, <2>1 DEF Iterates
<1>4. ASSUME NEW p \in SUBSET (1 .. Len(s)), p # {}, c[p \ {Max(p)}] = it[p \ {Max(p)}]
      PROVE  c[p] = it[p]
  BY <1>1, <1>4 DEF Iterates
<1>5. c[1 .. Len(s)] = it[1 .. Len(s)]
  <2>1. 1 .. Len(s) \in SUBSET (1 .. Len(s))
    OBVIOUS
  <2>2. \A p \in SUBSET (1 .. Len(s)) :
           p # {} /\ c[p \ {Max(p)}] = it[p \ {Max(p)}] => c[p] = it[p]
    BY <1>4
  <2>3. AgreeStepwise(c, it, Len(s))
    BY <1>3, <2>2, Zenon DEF AgreeStepwise
  <2> QED
    BY <2>1, <2>3, IterationsAgree
<1> QED
  BY <1>2, <1>5

(* The values a fold passes through, one per element.                        *)
IsTable(F, A, X) == F \in [A -> [X -> A]]
IsRun(v, F, base, s, A) ==
    /\ v \in [0 .. Len(s) -> A]
    /\ v[0] = base
    /\ \A k \in 1 .. Len(s) : v[k] = F[v[k - 1]][s[k]]
    /\ Fold(F, base, s) = v[Len(s)]

(* Every fold has them.                                                      *)
LEMMA FoldRuns ==
    ASSUME NEW A, NEW X, NEW F, IsTable(F, A, X), NEW base \in A, NEW s \in Seq(X)
    PROVE  \E v : IsRun(v, F, base, s, A)
<1>0. F \in [A -> [X -> A]]
  BY DEF IsTable
<1>1. Len(s) \in Nat /\ DOMAIN s = 1 .. Len(s)
  OBVIOUS
<1>2. PICK it : Iterates(it, F, base, s, Len(s))
  BY <1>1, IterationExists
<1>3. \A p \in SUBSET (1 .. Len(s)) : it[p] \in A
  BY <1>0, <1>2, IterationTyped
<1> DEFINE v == [k \in 0 .. Len(s) |-> it[1 .. k]]
<1>4. v[0] = base
  <2>1. 1 .. 0 = {} /\ {} \in SUBSET (1 .. Len(s)) /\ v[0] = it[1 .. 0]
    OBVIOUS
  <2> QED
    BY <1>2, <2>1 DEF Iterates
<1>5. ASSUME NEW k \in 1 .. Len(s)
      PROVE  v[k] = F[v[k - 1]][s[k]]
  <2> HIDE DEF v
  <2>1. /\ 1 .. k \in SUBSET (1 .. Len(s)) /\ 1 .. k \in SUBSET (1 .. k)
        /\ k \in 1 .. k /\ 1 .. k # {} /\ (1 .. k) \ {k} = 1 .. (k - 1)
        /\ k \in Nat /\ k - 1 \in 0 .. Len(s) /\ k \in 0 .. Len(s)
    <3>1. \A n \in Nat : k \in 1 .. n => 1 .. k \in SUBSET (1 .. n)
      OBVIOUS
    <3>2. k \in Nat /\ k >= 1
      OBVIOUS
    <3>3. /\ 1 .. k \in SUBSET (1 .. k) /\ k \in 1 .. k /\ 1 .. k # {}
          /\ (1 .. k) \ {k} = 1 .. (k - 1)
      BY <3>2, PlacesUpTo
    <3>4. k - 1 \in 0 .. Len(s) /\ k \in 0 .. Len(s)
      BY <1>1
    <3> QED
      BY <1>1, <3>1, <3>2, <3>3, <3>4
  <2>2. Max(1 .. k) = k
    BY <2>1, MaxOfSet
  <2>3. it[1 .. k] = IF 1 .. k = {} THEN base
                     ELSE F[it[(1 .. k) \ {Max(1 .. k)}]][s[Max(1 .. k)]]
    BY <1>2, <2>1 DEF Iterates
  <2>4. v[k] = it[1 .. k] /\ v[k - 1] = it[1 .. (k - 1)]
    BY <2>1 DEF v
  <2> QED
    BY <2>1, <2>2, <2>3, <2>4
<1>6. v \in [0 .. Len(s) -> A]
  <2>1. \A k \in 0 .. Len(s) : 1 .. k \in SUBSET (1 .. Len(s))
    BY <1>1
  <2> QED
    BY <1>3, <2>1
<1>7. Fold(F, base, s) = v[Len(s)]
  BY <1>1, <1>2, FoldIsIteration
<1> HIDE DEF v
<1> QED
  BY <1>4, <1>5, <1>6, <1>7 DEF IsRun

(* Induction, for a set of numbers: what holds of zero, and of a number if   *)
(* of the one before, holds up to n.                                         *)
Climbs(T, n) == 0 \in T /\ \A k \in 1 .. n : k - 1 \in T => k \in T

(* It holds of every number up to n.                                         *)
LEMMA UpTo ==
    ASSUME NEW n \in Nat, NEW T, Climbs(T, n)
    PROVE  \A k \in 0 .. n : k \in T
<1> USE DEF Climbs
<1> SUFFICES ASSUME NEW j \in 0 .. n, j \notin T
             PROVE  FALSE
  OBVIOUS
<1> DEFINE U == {k \in 0 .. n : k \notin T}
<1>1. PICK m \in U : \A k \in U : m <= k
  <2>1. U \in SUBSET Nat /\ j \in U
    OBVIOUS
  <2> HIDE DEF U
  <2> QED
    BY <2>1, LeastNumber
<1>2. m \in 0 .. n /\ m \notin T
  OBVIOUS
<1>3. m # 0
  BY <1>2
<1>4. m - 1 \in 0 .. n /\ ~(m <= m - 1) /\ m \in 1 .. n
  BY <1>2, <1>3
<1>5. m - 1 \in T
  BY <1>1, <1>4
<1> QED
  BY <1>2, <1>4, <1>5

(* The value of a fold is one of the table's.                                *)
LEMMA FoldTyped ==
    ASSUME NEW A, NEW X, NEW F, IsTable(F, A, X), NEW base \in A, NEW s \in Seq(X)
    PROVE  Fold(F, base, s) \in A
<1>1. PICK v : IsRun(v, F, base, s, A)
  BY FoldRuns
<1>2. Len(s) \in 0 .. Len(s)
  OBVIOUS
<1> QED
  BY <1>1, <1>2 DEF IsRun

(* A fold over no elements is where it starts.                               *)
LEMMA FoldEmpty ==
    ASSUME NEW A, NEW X, NEW F, IsTable(F, A, X), NEW base \in A
    PROVE  Fold(F, base, <<>>) = base
<1>1. <<>> \in Seq(X) /\ Len(<<>>) = 0
  OBVIOUS
<1>2. \E v : IsRun(v, F, base, <<>>, A)
  BY <1>1, FoldRuns
<1> QED
  BY <1>1, <1>2 DEF IsRun

(* A fold over one sequence behind the other starts again where the first    *)
(* one ended.                                                                *)
LEMMA FoldConcat ==
    ASSUME NEW A, NEW X, NEW F, IsTable(F, A, X), NEW base \in A,
           NEW s \in Seq(X), NEW t \in Seq(X)
    PROVE  Fold(F, base, s \o t) = Fold(F, Fold(F, base, s), t)
<1> DEFINE m == Len(s)
           n == Len(t)
           r == s \o t
           b == Fold(F, base, s)
<1>1. /\ m \in Nat /\ n \in Nat /\ r \in Seq(X) /\ Len(r) = m + n
      /\ \A k \in 1 .. m : r[k] = s[k]
      /\ \A k \in 1 .. n : r[m + k] = t[k]
  OBVIOUS
<1>2. b \in A
  BY FoldTyped
<1> HIDE DEF r, b
<1>a. PICK v : IsRun(v, F, base, s, A)
  BY FoldRuns
<1>3. /\ v[0] = base
      /\ \A k \in 1 .. m : v[k] = F[v[k - 1]][s[k]]
      /\ b = v[m]
  BY <1>a DEF IsRun, b
<1>b. PICK u : IsRun(u, F, b, t, A)
  BY <1>2, FoldRuns
<1>4. /\ u[0] = b
      /\ \A k \in 1 .. n : u[k] = F[u[k - 1]][t[k]]
      /\ Fold(F, b, t) = u[n]
  BY <1>b DEF IsRun
<1>c. PICK w : IsRun(w, F, base, r, A)
  BY <1>1, FoldRuns
<1>5. /\ w[0] = base
      /\ \A k \in 1 .. Len(r) : w[k] = F[w[k - 1]][r[k]]
      /\ Fold(F, base, r) = w[Len(r)]
  BY <1>c DEF IsRun
<1> HIDE DEF m, n
<1>6. w[m] = v[m]
  <2> DEFINE T == {i \in 0 .. m : w[i] = v[i]}
  <2>1. 0 \in T
    BY <1>1, <1>3, <1>5
  <2>2. ASSUME NEW k \in 1 .. m, k - 1 \in T
        PROVE  k \in T
    <3>1. w[k - 1] = v[k - 1] /\ k \in 1 .. Len(r) /\ r[k] = s[k]
      BY <1>1, <2>2
    <3>2. w[k] = v[k]
      BY <1>3, <1>5, <3>1
    <3> QED
      BY <3>2
  <2>3. Climbs(T, m)
    BY <2>1, <2>2 DEF Climbs
  <2>4. m \in 0 .. m
    BY <1>1
  <2>5. m \in T
    <3> HIDE DEF T
    <3> QED
      BY <1>1, <2>3, <2>4, UpTo
  <2> QED
    BY <2>5
<1>7. w[m + n] = u[n]
  <2> DEFINE T == {i \in 0 .. n : w[m + i] = u[i]}
  <2>1. 0 \in T
    BY <1>1, <1>3, <1>4, <1>6
  <2>2. ASSUME NEW k \in 1 .. n, k - 1 \in T
        PROVE  k \in T
    <3>1. w[m + (k - 1)] = u[k - 1]
      BY <2>2
    <3>2. /\ m + k \in 1 .. Len(r) /\ r[m + k] = t[k]
          /\ (m + k) - 1 = m + (k - 1)
      BY <1>1
    <3>3. w[m + k] = u[k]
      BY <1>4, <1>5, <3>1, <3>2
    <3> QED
      BY <3>3
  <2>3. Climbs(T, n)
    BY <2>1, <2>2 DEF Climbs
  <2>4. n \in 0 .. n
    BY <1>1
  <2>5. n \in T
    <3> HIDE DEF T
    <3> QED
      BY <1>1, <2>3, <2>4, UpTo
  <2> QED
    BY <2>5
<1> QED
  BY <1>1, <1>4, <1>5, <1>7 DEF r, b

(* A fold over one more element takes one more step.                         *)
LEMMA FoldAppend ==
    ASSUME NEW A, NEW X, NEW F, IsTable(F, A, X), NEW base \in A,
           NEW s \in Seq(X), NEW x \in X
    PROVE  Fold(F, base, Append(s, x)) = F[Fold(F, base, s)][x]
<1> DEFINE b == Fold(F, base, s)
<1>1. b \in A
  BY FoldTyped
<1> DEFINE one == <<x>>
<1>2. Append(s, x) = s \o one /\ one \in Seq(X) /\ Len(one) = 1 /\ one[1] = x
  OBVIOUS
<1> HIDE DEF one, b
<1>3. PICK v : IsRun(v, F, b, one, A)
  BY <1>1, <1>2, FoldRuns
<1>4. Fold(F, b, one) = F[b][x]
  <2>1. 1 \in 1 .. 1 /\ 1 - 1 = 0
    OBVIOUS
  <2> QED
    BY <1>2, <1>3, <2>1 DEF IsRun
<1>5. Fold(F, base, s \o one) = Fold(F, Fold(F, base, s), one)
  BY <1>2, FoldConcat
<1> QED
  BY <1>2, <1>4, <1>5 DEF b

(* Flattening one sequence of sequences behind another.                      *)
LEMMA FlattenConcat ==
    ASSUME NEW S, NEW s \in Seq(Seq(S)), NEW t \in Seq(Seq(S))
    PROVE  FlattenSeq(s \o t) = FlattenSeq(s) \o FlattenSeq(t)
<1> DEFINE P(k) == FlattenSeq(s \o SubSeq(t, 1, k)) = FlattenSeq(s) \o FlattenSeq(SubSeq(t, 1, k))
           T == {k \in 0 .. Len(t) : P(k)}
<1>1. Len(t) \in Nat
  OBVIOUS
<1>2. FlattenSeq(s) \in Seq(S)
  BY FlattenTyped
<1>3. P(0)
  <2>1. SubSeq(t, 1, 0) = <<>> /\ s \o <<>> = s
    OBVIOUS
  <2>2. FlattenSeq(<<>>) = <<>>
    BY DEF FlattenSeq
  <2>3. FlattenSeq(s) \o <<>> = FlattenSeq(s)
    <3> DEFINE f == FlattenSeq(s)
    <3> HIDE DEF f
    <3>1. f \in Seq(S)
      BY <1>2 DEF f
    <3>2. f \o <<>> = f
      BY <3>1
    <3> QED
      BY <3>2 DEF f
  <2> QED
    BY <2>1, <2>2, <2>3
<1>4. ASSUME NEW k \in 1 .. Len(t), P(k - 1)
      PROVE  P(k)
  <2> DEFINE a == SubSeq(t, 1, k - 1)
             e == t[k]
  <2>1. /\ a \in Seq(Seq(S)) /\ e \in Seq(S) /\ SubSeq(t, 1, k) = Append(a, e)
        /\ s \o a \in Seq(Seq(S))
        /\ s \o Append(a, e) = Append(s \o a, e)
    OBVIOUS
  <2> HIDE DEF a, e
  <2>2. FlattenSeq(s \o a) = FlattenSeq(s) \o FlattenSeq(a)
    BY <1>4 DEF a
  <2>3. FlattenSeq(Append(s \o a, e)) = FlattenSeq(s \o a) \o e
    BY <2>1, FlattenAppend
  <2>4. FlattenSeq(Append(a, e)) = FlattenSeq(a) \o e
    BY <2>1, FlattenAppend
  <2>5. FlattenSeq(a) \in Seq(S)
    BY <2>1, FlattenTyped
  <2>6. (FlattenSeq(s) \o FlattenSeq(a)) \o e = FlattenSeq(s) \o (FlattenSeq(a) \o e)
    <3> DEFINE f == FlattenSeq(s)
               g == FlattenSeq(a)
    <3>1. f \in Seq(S) /\ g \in Seq(S) /\ e \in Seq(S)
      BY <1>2, <2>1, <2>5
    <3> HIDE DEF f, g
    <3>2. (f \o g) \o e = f \o (g \o e)
      BY <3>1, ConcatAssociative
    <3> QED
      BY <3>2 DEF f, g
  <2> QED
    BY <2>1, <2>2, <2>3, <2>4, <2>6
<1> HIDE DEF P
<1>5. \A k \in 0 .. Len(t) : k \in T
  <2>1. 0 \in T
    BY <1>1, <1>3
  <2>2. \A k \in 1 .. Len(t) : k - 1 \in T => k \in T
    BY <1>4
  <2>3. Climbs(T, Len(t))
    BY <2>1, <2>2 DEF Climbs
  <2> HIDE DEF T
  <2> QED
    BY <1>1, <2>3, UpTo
<1>6. P(Len(t)) /\ SubSeq(t, 1, Len(t)) = t
  BY <1>1, <1>5
<1> QED
  BY <1>6 DEF P
===============================================================================
