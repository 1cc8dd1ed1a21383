---------------------------- MODULE SequenceLemmas ----------------------------
(***************************************************************************)
(* What truncating a sequence, dropping a prefix of it and appending to it *)
(* return, the value a journal records at a position, and induction.       *)
(***************************************************************************)
EXTENDS Journal, SequencesExt, SequenceTheorems, WellFoundedInduction, TLAPS

\* Restoring a journal to n records keeps its first n records.
LEMMA TruncateFacts ==
  ASSUME NEW S, NEW s \in Seq(S), NEW n \in 0..Len(s)
  PROVE  /\ Truncate(s, n) \in Seq(S)
         /\ Len(Truncate(s, n)) = n
         /\ \A i \in 1..n : Truncate(s, n)[i] = s[i]
  <1>1. \A i \in 1..n : s[i] \in S
    BY ElementOfSeq
  <1>2. QED
    BY <1>1, SubSeqProperties DEF Truncate

\* Discarding n records shifts the rest down by n.
LEMMA DropFirstFacts ==
  ASSUME NEW S, NEW s \in Seq(S), NEW n \in 0..Len(s)
  PROVE  /\ DropFirst(s, n) \in Seq(S)
         /\ Len(DropFirst(s, n)) = Len(s) - n
         /\ \A i \in 1..(Len(s) - n) : DropFirst(s, n)[i] = s[i + n]
  <1>1. Len(s) \in Nat /\ n \in Nat
    BY LenProperties
  <1>2. \A i \in (n + 1)..Len(s) : s[i] \in S
    BY <1>1, ElementOfSeq
  <1>3. /\ SubSeq(s, n + 1, Len(s)) \in Seq(S)
        /\ Len(SubSeq(s, n + 1, Len(s))) = IF n + 1 <= Len(s) THEN Len(s) - (n + 1) + 1 ELSE 0
        /\ \A i \in 1..(Len(s) - (n + 1) + 1) : SubSeq(s, n + 1, Len(s))[i] = s[(n + 1) + i - 1]
    BY <1>1, <1>2, SubSeqProperties
  <1>4. QED
    BY <1>1, <1>3 DEF DropFirst

\* A pushed record is the value the older positions now resolve to.
LEMMA ValueAtAppend ==
  ASSUME NEW S, NEW j \in Seq(S), NEW c \in S, NEW new, NEW p \in 0..Len(j)
  PROVE  ValueAt(Append(j, c), p, new) = ValueAt(j, p, c)
  <1>1. /\ Len(j) \in Nat /\ Len(Append(j, c)) = Len(j) + 1
        /\ \A i \in 1..Len(j) : Append(j, c)[i] = j[i]
        /\ Append(j, c)[Len(j) + 1] = c
    BY AppendProperties, LenProperties
  <1>2. CASE p < Len(j)
    BY <1>1, <1>2 DEF ValueAt
  <1>3. CASE p = Len(j)
    BY <1>1, <1>3 DEF ValueAt
  <1>4. QED
    BY <1>1, <1>2, <1>3

\* Restoring to position n leaves the value at every older position as it was.
LEMMA ValueAtTruncate ==
  ASSUME NEW S, NEW j \in Seq(S), NEW c \in S, NEW n \in 0..Len(j), NEW p \in 0..n
  PROVE  ValueAt(Truncate(j, n), p, ValueAt(j, n, c)) = ValueAt(j, p, c)
  <1>1. Len(j) \in Nat
    BY LenProperties
  <1>2. CASE p < n
    BY <1>1, <1>2, TruncateFacts DEF ValueAt
  <1>3. CASE p = n
    BY <1>1, <1>3, TruncateFacts DEF ValueAt
  <1>4. QED
    BY <1>1, <1>2, <1>3

\* Discarding a prefix and shifting a mark leaves the mark's value as it was.
LEMMA ValueAtDropFirst ==
  ASSUME NEW S, NEW j \in Seq(S), NEW c \in S, NEW n \in 0..Len(j), NEW p \in n..Len(j)
  PROVE  ValueAt(DropFirst(j, n), p - n, c) = ValueAt(j, p, c)
  <1>1. Len(j) \in Nat
    BY LenProperties
  <1>2. CASE p < Len(j)
    <2>1. /\ p - n < Len(DropFirst(j, n))
          /\ (p - n) + 1 \in 1..(Len(j) - n)
          /\ ((p - n) + 1) + n = p + 1
      BY <1>1, <1>2, DropFirstFacts
    <2>2. DropFirst(j, n)[(p - n) + 1] = j[p + 1]
      <3>1. \A i \in 1..(Len(j) - n) : DropFirst(j, n)[i] = j[i + n]
        BY DropFirstFacts
      <3>2. DropFirst(j, n)[(p - n) + 1] = j[((p - n) + 1) + n]
        BY <2>1, <3>1, Zenon
      <3>3. QED
        BY <2>1, <3>2, Zenon
    <2>3. QED
      BY <1>2, <2>1, <2>2 DEF ValueAt
  <1>3. CASE p = Len(j)
    BY <1>1, <1>3, DropFirstFacts DEF ValueAt
  <1>4. QED
    BY <1>1, <1>2, <1>3

\* The value at a position of a typed journal is a value of the component.
LEMMA ValueAtType ==
  ASSUME NEW S, NEW j \in Seq(S), NEW c \in S, NEW p \in Nat
  PROVE  ValueAt(j, p, c) \in S
  <1>1. CASE p < Len(j)
    <2>1. p + 1 \in 1..Len(j)
      BY <1>1, LenProperties
    <2>2. QED
      BY <1>1, <2>1, ElementOfSeq DEF ValueAt
  <1>2. CASE ~(p < Len(j))
    BY <1>2 DEF ValueAt
  <1>3. QED
    BY <1>1, <1>2

\* A journal truncated to all it holds is the journal.
LEMMA TruncateAll ==
  ASSUME NEW S, NEW s \in Seq(S)
  PROVE  Truncate(s, Len(s)) = s
  BY SubSeqFull DEF Truncate

\* Truncating twice is truncating to the shorter length.
LEMMA TruncateTwice ==
  ASSUME NEW S, NEW s \in Seq(S), NEW n \in 0..Len(s), NEW p \in 0..n
  PROVE  Truncate(Truncate(s, n), p) = Truncate(s, p)
  <1> DEFINE cut == Truncate(s, n)
  <1>1. /\ cut \in Seq(S) /\ Len(cut) = n
        /\ \A i \in 1..n : cut[i] = s[i]
    BY TruncateFacts
  <1>2. Len(s) \in Nat /\ p \in 0..Len(s) /\ p \in 0..Len(cut)
    BY <1>1, LenProperties
  <1> HIDE DEF cut
  <1>3. /\ Truncate(cut, p) \in Seq(S) /\ Len(Truncate(cut, p)) = p
        /\ \A i \in 1..p : Truncate(cut, p)[i] = cut[i]
    BY <1>1, <1>2, TruncateFacts
  <1>4. /\ Truncate(s, p) \in Seq(S) /\ Len(Truncate(s, p)) = p
        /\ \A i \in 1..p : Truncate(s, p)[i] = s[i]
    BY <1>2, TruncateFacts
  <1>5. \A i \in 1..p : Truncate(cut, p)[i] = Truncate(s, p)[i]
    BY <1>1, <1>2, <1>3, <1>4
  <1>6. Truncate(cut, p) = Truncate(s, p)
    BY <1>3, <1>4, <1>5, SeqEqual
  <1>7. QED
    BY <1>6 DEF cut

\* What was there before an element is appended is there after.
LEMMA TruncateAppend ==
  ASSUME NEW S, NEW s \in Seq(S), NEW e \in S, NEW p \in 0..Len(s)
  PROVE  Truncate(Append(s, e), p) = Truncate(s, p)
  <1> DEFINE longer == Append(s, e)
  <1>1. /\ longer \in Seq(S) /\ Len(longer) = Len(s) + 1
        /\ \A i \in 1..Len(s) : longer[i] = s[i]
    BY AppendProperties
  <1>2. Len(s) \in Nat /\ p \in 0..Len(longer)
    BY <1>1, LenProperties
  <1> HIDE DEF longer
  <1>3. /\ Truncate(longer, p) \in Seq(S) /\ Len(Truncate(longer, p)) = p
        /\ \A i \in 1..p : Truncate(longer, p)[i] = longer[i]
    BY <1>1, <1>2, TruncateFacts
  <1>4. /\ Truncate(s, p) \in Seq(S) /\ Len(Truncate(s, p)) = p
        /\ \A i \in 1..p : Truncate(s, p)[i] = s[i]
    BY TruncateFacts
  <1>5. \A i \in 1..p : Truncate(longer, p)[i] = Truncate(s, p)[i]
    BY <1>1, <1>2, <1>3, <1>4
  <1>6. Truncate(longer, p) = Truncate(s, p)
    BY <1>3, <1>4, <1>5, SeqEqual
  <1>7. QED
    BY <1>6 DEF longer

\* The value at the end of a journal is the component's own.
LEMMA ValueAtLen ==
  ASSUME NEW S, NEW j \in Seq(S), NEW c
  PROVE  ValueAt(j, Len(j), c) = c
  BY LenProperties DEF ValueAt

\* A sequence is its beginning with its last element behind.
LEMMA LastBack ==
  ASSUME NEW S, NEW s \in Seq(S), NEW n \in Nat, Len(s) = n + 1
  PROVE  s = Append(Truncate(s, n), s[n + 1])
  <1> DEFINE cut == Truncate(s, n)
             again == Append(cut, s[n + 1])
  <1>0. n \in 0..Len(s)
    OBVIOUS
  <1>1. cut \in Seq(S) /\ Len(cut) = n /\ \A i \in 1..n : cut[i] = s[i]
    BY <1>0, TruncateFacts
  <1>2. s[n + 1] \in S
    BY ElementOfSeq
  <1> HIDE DEF cut
  <1>3. /\ again \in Seq(S) /\ Len(again) = n + 1 /\ again[n + 1] = s[n + 1]
        /\ \A i \in 1..n : again[i] = cut[i]
    BY <1>1, <1>2, AppendProperties
  <1>4. \A i \in 1..(n + 1) : again[i] = s[i]
    BY <1>1, <1>3
  <1> HIDE DEF again
  <1>5. again = s
    BY <1>3, <1>4, SeqEqual
  <1>6. QED
    BY <1>5 DEF again, cut

LEMMA ConcatAppend ==
  ASSUME NEW S, NEW s \in Seq(S), NEW t \in Seq(S), NEW e \in S
  PROVE  s \o Append(t, e) = Append(s \o t, e) /\ s \o t \in Seq(S)
  <1> DEFINE a == s \o Append(t, e)
             b == Append(s \o t, e)
             m == Len(s)
             n == Len(t)
  <1>1. /\ m \in Nat /\ n \in Nat /\ Append(t, e) \in Seq(S) /\ Len(Append(t, e)) = n + 1
        /\ \A i \in 1..n : Append(t, e)[i] = t[i]
        /\ Append(t, e)[n + 1] = e
    BY LenProperties, AppendProperties
  <1>2. /\ s \o t \in Seq(S) /\ Len(s \o t) = m + n
        /\ \A i \in 1..(m + n) : (s \o t)[i] = IF i <= m THEN s[i] ELSE t[i - m]
    BY ConcatProperties
  <1>3. /\ a \in Seq(S) /\ Len(a) = m + n + 1
        /\ \A i \in 1..(m + n + 1) : a[i] = IF i <= m THEN s[i] ELSE Append(t, e)[i - m]
    BY <1>1, ConcatProperties
  <1>4. /\ b \in Seq(S) /\ Len(b) = m + n + 1 /\ b[m + n + 1] = e
        /\ \A i \in 1..(m + n) : b[i] = (s \o t)[i]
    BY <1>1, <1>2, AppendProperties
  <1>5. ASSUME NEW i \in 1..(m + n + 1)
        PROVE  a[i] = b[i]
    <2> HIDE DEF a, b, m, n
    <2>1. CASE i <= m
      BY <1>1, <1>2, <1>3, <1>4, <2>1
    <2>2. CASE i > m /\ i <= m + n
      <3>1. i - m \in 1..n /\ i \in 1..(m + n) /\ ~(i <= m)
        BY <1>1, <2>2
      <3>2. QED
        BY <1>1, <1>2, <1>3, <1>4, <3>1
    <2>3. CASE i = m + n + 1
      <3>1. i - m = n + 1 /\ ~(i <= m)
        BY <1>1, <2>3
      <3>2. QED
        BY <1>1, <1>3, <1>4, <2>3, <3>1
    <2>4. QED
      BY <1>1, <2>1, <2>2, <2>3
  <1> HIDE DEF a, b
  <1>6. a = b
    BY <1>1, <1>3, <1>4, <1>5, SeqEqual
  <1>7. QED
    BY <1>2, <1>6 DEF a, b

\* The last element of a sequence, and all but the last.
LEMMA FrontAppend ==
  ASSUME NEW S, NEW s \in Seq(S), NEW e \in S
  PROVE  Front(Append(s, e)) = s /\ Last(Append(s, e)) = e /\ Append(s, e) # <<>>
  <1>1. /\ Append(s, e) \in Seq(S) /\ Len(Append(s, e)) = Len(s) + 1 /\ Len(s) \in Nat
        /\ Append(s, e)[Len(s) + 1] = e
    BY AppendProperties, LenProperties
  <1>2. Truncate(Append(s, e), Len(s)) = Truncate(s, Len(s))
    BY <1>1, TruncateAppend
  <1>3. Front(Append(s, e)) = s
    BY <1>1, <1>2, TruncateAll DEF Front, Truncate
  <1>4. QED
    BY <1>1, <1>3, EmptySeq DEF Last

LEMMA AppendFront ==
  ASSUME NEW S, NEW s \in Seq(S), s # <<>>
  PROVE  /\ Front(s) \in Seq(S) /\ Last(s) \in S /\ s = Append(Front(s), Last(s))
         /\ Len(Front(s)) = Len(s) - 1
  <1>1. Len(s) \in Nat \ {0}
    BY EmptySeq
  <1>2. /\ Front(s) \in Seq(S) /\ Len(Front(s)) = Len(s) - 1
        /\ \A i \in 1..(Len(s) - 1) : Front(s)[i] = s[i]
    <2>1. Front(s) = Truncate(s, Len(s) - 1) /\ Len(s) - 1 \in 0..Len(s)
      BY <1>1 DEF Front, Truncate
    <2>2. QED
      BY <2>1, TruncateFacts
  <1>3. Last(s) \in S
    BY <1>1, ElementOfSeq DEF Last
  <1>4. /\ Append(Front(s), Last(s)) \in Seq(S) /\ Len(Append(Front(s), Last(s))) = Len(s)
        /\ \A i \in 1..(Len(s) - 1) : Append(Front(s), Last(s))[i] = s[i]
        /\ Append(Front(s), Last(s))[Len(s)] = s[Len(s)]
    <2>1. /\ Append(Front(s), Last(s)) \in Seq(S)
          /\ Len(Append(Front(s), Last(s))) = Len(Front(s)) + 1
          /\ \A i \in 1..Len(Front(s)) : Append(Front(s), Last(s))[i] = Front(s)[i]
          /\ Append(Front(s), Last(s))[Len(Front(s)) + 1] = Last(s)
      BY <1>2, <1>3, AppendProperties
    <2>2. QED
      BY <1>1, <1>2, <2>1 DEF Last
  <1>5. \A i \in 1..Len(s) : Append(Front(s), Last(s))[i] = s[i]
    BY <1>1, <1>4
  <1>6. s = Append(Front(s), Last(s))
    BY <1>4, <1>5, SeqEqual
  <1>7. QED
    BY <1>2, <1>3, <1>6

-----------------------------------------------------------------------------
(* Sequences of whatever elements.                                         *)

IsSeq(s) == s \in Seq(ToSet(s))

LEMMA SeqIsSeq ==
  ASSUME NEW S, NEW s \in Seq(S)
  PROVE  IsSeq(s)
  <1>1. Len(s) \in Nat /\ s \in [1..Len(s) -> S] /\ DOMAIN s = 1..Len(s)
    BY LenProperties
  <1>2. s \in [1..Len(s) -> ToSet(s)]
    BY <1>1 DEF ToSet
  <1>3. QED
    BY <1>1, <1>2, SeqDef DEF IsSeq

LEMMA IsSeqIn ==
  ASSUME NEW s, IsSeq(s), NEW S, \A i \in 1..Len(s) : s[i] \in S
  PROVE  s \in Seq(S)
  <1>1. Len(s) \in Nat /\ s \in [1..Len(s) -> ToSet(s)] /\ DOMAIN s = 1..Len(s)
    BY LenProperties DEF IsSeq
  <1>2. s \in [1..Len(s) -> S]
    BY <1>1
  <1>3. QED
    BY <1>1, <1>2, SeqDef

LEMMA IsSeqLen ==
  ASSUME NEW s, IsSeq(s)
  PROVE  Len(s) \in Nat /\ DOMAIN s = 1..Len(s)
  BY LenProperties DEF IsSeq

LEMMA IsSeqEmpty == IsSeq(<<>>) /\ Len(<<>>) = 0
  <1>1. <<>> \in Seq({})
    OBVIOUS
  <1>2. QED
    BY <1>1, SeqIsSeq

LEMMA IsSeqAppend ==
  ASSUME NEW s, IsSeq(s), NEW x
  PROVE  /\ IsSeq(Append(s, x)) /\ Len(Append(s, x)) = Len(s) + 1
         /\ Append(s, x)[Len(s) + 1] = x
         /\ \A i \in 1..Len(s) : Append(s, x)[i] = s[i]
         /\ Front(Append(s, x)) = s /\ Last(Append(s, x)) = x
         /\ Append(s, x) # <<>>
         /\ SubSeq(Append(s, x), 1, Len(s)) = s
         /\ s \o <<x>> = Append(s, x)
  <1> DEFINE S == ToSet(s) \union {x}
  <1>1. s \in Seq(S) /\ x \in S /\ <<>> \in Seq(S)
    <2>1. \A i \in 1..Len(s) : s[i] \in S
      BY IsSeqLen DEF ToSet
    <2> HIDE DEF S
    <2>2. s \in Seq(S)
      BY <2>1, IsSeqIn
    <2>3. QED
      BY <2>2 DEF S
  <1> HIDE DEF S
  <1>2. /\ Append(s, x) \in Seq(S) /\ Len(Append(s, x)) = Len(s) + 1
        /\ Append(s, x)[Len(s) + 1] = x
        /\ \A i \in 1..Len(s) : Append(s, x)[i] = s[i]
    BY <1>1, AppendProperties
  <1>3. Front(Append(s, x)) = s /\ Last(Append(s, x)) = x /\ Append(s, x) # <<>>
    BY <1>1, FrontAppend
  <1>4. SubSeq(Append(s, x), 1, Len(s)) = s
    <2>1. Len(s) \in 0..Len(s)
      BY IsSeqLen
    <2>2. Truncate(Append(s, x), Len(s)) = s
      BY <1>1, <2>1, TruncateAppend, TruncateAll
    <2>3. QED
      BY <2>2 DEF Truncate
  <1>5. s \o <<x>> = Append(s, x)
    <2>1. s \o Append(<<>>, x) = Append(s \o <<>>, x) /\ s \o <<>> = s
      BY <1>1, ConcatAppend, ConcatEmptySeq
    <2>2. Append(<<>>, x) = <<x>>
      OBVIOUS
    <2>3. QED
      BY <2>1, <2>2
  <1>6. QED
    BY <1>2, <1>3, <1>4, <1>5, SeqIsSeq

LEMMA IsSeqFront ==
  ASSUME NEW s, IsSeq(s), s # <<>>
  PROVE  /\ IsSeq(Front(s)) /\ Len(Front(s)) = Len(s) - 1 /\ Len(s) \in Nat \ {0}
         /\ Append(Front(s), Last(s)) = s
         /\ \A i \in 1..(Len(s) - 1) : Front(s)[i] = s[i]
         /\ Last(s) = s[Len(s)]
  <1>1. s \in Seq(ToSet(s))
    BY DEF IsSeq
  <1>2. /\ Front(s) \in Seq(ToSet(s)) /\ s = Append(Front(s), Last(s))
        /\ Len(Front(s)) = Len(s) - 1
    BY <1>1, AppendFront
  <1>3. Len(s) \in Nat \ {0}
    BY <1>1, EmptySeq
  <1>4. IsSeq(Front(s))
    BY <1>2, SeqIsSeq
  <1>5. \A i \in 1..Len(Front(s)) : Append(Front(s), Last(s))[i] = Front(s)[i]
    BY <1>4, IsSeqAppend
  <1>6. QED
    BY <1>2, <1>3, <1>4, <1>5 DEF Last

LEMMA IsSeqConcat ==
  ASSUME NEW s, IsSeq(s), NEW t, IsSeq(t)
  PROVE  /\ IsSeq(s \o t) /\ Len(s \o t) = Len(s) + Len(t)
         /\ \A i \in 1..Len(s) : (s \o t)[i] = s[i]
         /\ \A i \in 1..Len(t) : (s \o t)[Len(s) + i] = t[i]
         /\ s \o <<>> = s
  <1> DEFINE S == ToSet(s) \union ToSet(t)
  <1>1. s \in Seq(S) /\ t \in Seq(S)
    <2>1. /\ \A i \in 1..Len(s) : s[i] \in S
          /\ \A i \in 1..Len(t) : t[i] \in S
      BY IsSeqLen DEF ToSet
    <2> HIDE DEF S
    <2>2. QED
      BY <2>1, IsSeqIn
  <1>2. Len(s) \in Nat /\ Len(t) \in Nat
    BY IsSeqLen
  <1> HIDE DEF S
  <1>3. /\ s \o t \in Seq(S) /\ Len(s \o t) = Len(s) + Len(t)
        /\ \A i \in 1..(Len(s) + Len(t)) :
              (s \o t)[i] = IF i <= Len(s) THEN s[i] ELSE t[i - Len(s)]
    BY <1>1, ConcatProperties
  <1>4. \A i \in 1..Len(s) : (s \o t)[i] = s[i]
    BY <1>2, <1>3
  <1>5. ASSUME NEW i \in 1..Len(t)
        PROVE  (s \o t)[Len(s) + i] = t[i]
    <2>1. Len(s) + i \in 1..(Len(s) + Len(t)) /\ ~(Len(s) + i <= Len(s)) /\ (Len(s) + i) - Len(s) = i
      BY <1>2
    <2>2. QED
      BY <1>3, <2>1
  <1>6. QED
    BY <1>1, <1>3, <1>4, <1>5, SeqIsSeq, ConcatEmptySeq

\* A function on the first naturals.
LEMMA FunctionIsSeq ==
  ASSUME NEW n \in Nat, NEW f, f = [i \in 1..n |-> f[i]]
  PROVE  IsSeq(f) /\ Len(f) = n /\ DOMAIN f = 1..n
  <1>1. f \in [1..n -> {f[i] : i \in 1..n}]
    BY Zenon
  <1>2. f \in Seq({f[i] : i \in 1..n})
    BY <1>1, SeqDef
  <1>3. IsSeq(f) /\ DOMAIN f = 1..n
    BY <1>1, <1>2, SeqIsSeq
  <1>4. Len(f) = n
    BY <1>2, <1>3, LenProperties
  <1>5. QED
    BY <1>3, <1>4

-----------------------------------------------------------------------------
(* Induction.                                                              *)

\* Every set of naturals has a least element.
LEMMA LeastNatural ==
  ASSUME NEW S \in SUBSET Nat, S # {}
  PROVE  \E n \in S : \A m \in S : n <= m
  <1> DEFINE R == OpToRel(<, Nat)
  <1>1. IsWellFoundedOn(R, Nat)
    BY NatLessThanWellFounded
  <1>2. PICK n \in S : \A m \in S : ~(<<m, n>> \in R)
    <2> HIDE DEF R
    <2>1. QED
      BY <1>1, WFMin
  <1>3. \A m \in S : ~(m < n)
    BY <1>2 DEF OpToRel
  <1>4. QED
    BY <1>3

\* Induction over the naturals, with a set for the induction hypothesis.
LEMMA Induct ==
  ASSUME NEW S, 0 \in S, \A n \in Nat : n \in S => n + 1 \in S
  PROVE  Nat \subseteq S
  <1> SUFFICES ASSUME Nat \ S # {}
               PROVE  FALSE
    OBVIOUS
  <1>1. PICK n \in Nat \ S : \A m \in Nat \ S : n <= m
    BY LeastNatural
  <1>2. n # 0 /\ n - 1 \in Nat
    BY <1>1
  <1>3. n - 1 \in S
    BY <1>1, <1>2
  <1>4. QED
    BY <1>1, <1>2, <1>3

\* Sequences of the same length that agree everywhere.
LEMMA IsSeqEqual ==
  ASSUME NEW s, IsSeq(s), NEW t, IsSeq(t), Len(s) = Len(t), \A i \in 1..Len(s) : s[i] = t[i]
  PROVE  s = t
  <1>1. s \in [1..Len(s) -> ToSet(s)] /\ t \in [1..Len(t) -> ToSet(t)]
    BY LenProperties DEF IsSeq
  <1>2. QED
    BY <1>1

\* Appending to a concatenation.
LEMMA ConcatOneMore ==
  ASSUME NEW s, IsSeq(s), NEW t, IsSeq(t), NEW x
  PROVE  s \o Append(t, x) = Append(s \o t, x)
  <1> DEFINE T == ToSet(s) \union ToSet(t) \union {x}
  <1>1. s \in Seq(T) /\ t \in Seq(T) /\ x \in T
    <2>1. \A i \in 1..Len(s) : s[i] \in T
      BY IsSeqLen DEF ToSet
    <2>2. \A i \in 1..Len(t) : t[i] \in T
      BY IsSeqLen DEF ToSet
    <2>3. x \in T
      OBVIOUS
    <2> HIDE DEF T
    <2>4. QED
      BY <2>1, <2>2, <2>3, IsSeqIn
  <1> HIDE DEF T
  <1>2. QED
    BY <1>1, ConcatAppend

\* The stretch of a sequence behind its first u elements, up to the v-th.
Segment(s, u, v) == SubSeq(s, u + 1, v)

LEMMA SegmentFacts ==
  ASSUME NEW s, IsSeq(s), NEW v \in 0..Len(s), NEW u \in 0..v
  PROVE  /\ IsSeq(Segment(s, u, v)) /\ Len(Segment(s, u, v)) = v - u
         /\ \A i \in 1..(v - u) : Segment(s, u, v)[i] = s[u + i]
  <1>1. Len(s) \in Nat /\ u \in Nat /\ v \in Nat /\ u <= v /\ v <= Len(s)
    BY IsSeqLen
  <1>2. \A i \in 1..(v - u) : u + i \in 1..Len(s)
    BY <1>1
  <1> DEFINE f == [i \in 1..(v - u) |-> s[u + i]]
             T == ToSet(s)
  <1>3. \A i \in (u + 1)..v : s[i] \in T
    BY <1>1, IsSeqLen DEF ToSet
  <1> HIDE DEF T
  <1> DEFINE b == SubSeq(s, u + 1, v)
  <1>4. u + 1 \in 1..(Len(s) + 1) /\ v \in u..Len(s)
    BY <1>1
  <1>5. b \in Seq(T) /\ Len(b) = v - u /\ \A i \in 1..(v - u) : b[i] = s[u + i]
    BY <1>1, <1>3, SubSeqProperties
  <1> HIDE DEF b
  <1>6. IsSeq(b)
    BY <1>5, SeqIsSeq
  <1>7. QED
    BY <1>5, <1>6 DEF Segment, b

\* Nothing lies between one place and the same.
LEMMA SegmentNothing ==
  ASSUME NEW s, IsSeq(s), NEW u \in 0..Len(s)
  PROVE  Segment(s, u, u) = <<>>
  <1>1. u \in 0..u /\ u - u = 0
    OBVIOUS
  <1>2. IsSeq(Segment(s, u, u)) /\ Len(Segment(s, u, u)) = 0
    BY <1>1, SegmentFacts
  <1>3. QED
    BY <1>2, EmptySeq DEF IsSeq

\* What lies behind a place once more is put behind the sequence.
LEMMA SegmentConcat ==
  ASSUME NEW s, IsSeq(s), NEW t, IsSeq(t), NEW u \in 0..Len(s)
  PROVE  Segment(s \o t, u, Len(s \o t)) = Segment(s, u, Len(s)) \o t
  <1> DEFINE w == s \o t
             m == Len(s)
             n == Len(t)
             b == Segment(s, u, m)
             a == Segment(w, u, Len(w))
  <1>1. /\ m \in Nat /\ n \in Nat /\ u \in Nat /\ u <= m
        /\ IsSeq(w) /\ Len(w) = m + n
        /\ \A i \in 1..m : w[i] = s[i]
        /\ \A i \in 1..n : w[m + i] = t[i]
    BY IsSeqLen, IsSeqConcat
  <1> HIDE DEF w
  <1>2. IsSeq(a) /\ Len(a) = Len(w) - u /\ \A i \in 1..(Len(w) - u) : a[i] = w[u + i]
    <2>1. Len(w) \in 0..Len(w) /\ u \in 0..Len(w)
      BY <1>1
    <2>2. QED
      BY <1>1, <2>1, SegmentFacts
  <1>3. IsSeq(b) /\ Len(b) = m - u /\ \A i \in 1..(m - u) : b[i] = s[u + i]
    <2>1. m \in 0..m
      BY <1>1
    <2>2. QED
      BY <2>1, SegmentFacts
  <1> HIDE DEF a, b
  <1> DEFINE d == b \o t
  <1>4. /\ IsSeq(d) /\ Len(d) = Len(b) + n
        /\ \A i \in 1..Len(b) : d[i] = b[i]
        /\ \A i \in 1..n : d[Len(b) + i] = t[i]
    <2>1. IsSeq(b) /\ IsSeq(t)
      BY <1>3
    <2>2. QED
      BY <2>1, IsSeqConcat
  <1> HIDE DEF d, m, n
  <1>5. Len(a) = Len(d) /\ Len(a) = (m + n) - u
    BY <1>1, <1>2, <1>3, <1>4
  <1>6. ASSUME NEW i \in 1..Len(a)
        PROVE  a[i] = d[i]
    <2>1. CASE i <= m - u
      <3>1. i \in 1..(m - u) /\ u + i \in 1..m /\ i \in 1..(Len(w) - u)
        BY <1>1, <1>5, <2>1
      <3>2. a[i] = s[u + i]
        BY <1>1, <1>2, <3>1
      <3>3. d[i] = s[u + i]
        BY <1>3, <1>4, <3>1
      <3>4. QED
        BY <3>2, <3>3
    <2>2. CASE ~(i <= m - u)
      <3> DEFINE k == i - (m - u)
      <3>1. /\ k \in 1..n /\ i \in 1..(Len(w) - u) /\ u + i = m + k /\ i = (m - u) + k
        BY <1>1, <1>5, <2>2
      <3> HIDE DEF k
      <3>2. a[i] = t[k]
        BY <1>1, <1>2, <3>1
      <3>3. d[i] = t[k]
        BY <1>3, <1>4, <3>1
      <3>4. QED
        BY <3>2, <3>3
    <2>3. QED
      BY <2>1, <2>2
  <1>7. a = d
    BY <1>2, <1>4, <1>5, <1>6, IsSeqEqual
  <1>8. QED
    BY <1>7 DEF a, b, d, w, m, n

\* What is put behind a sequence changes no stretch of it.
LEMMA SegmentBefore ==
  ASSUME NEW s, IsSeq(s), NEW t, IsSeq(t), NEW v \in 0..Len(s), NEW u \in 0..v
  PROVE  Segment(s \o t, u, v) = Segment(s, u, v)
  <1>1. /\ Len(s) \in Nat /\ Len(t) \in Nat /\ u \in Nat /\ v \in Nat /\ u <= v /\ v <= Len(s)
        /\ IsSeq(s \o t) /\ Len(s \o t) = Len(s) + Len(t)
        /\ \A i \in 1..Len(s) : (s \o t)[i] = s[i]
    BY IsSeqLen, IsSeqConcat
  <1> DEFINE a == Segment(s \o t, u, v)
             b == Segment(s, u, v)
  <1>2. IsSeq(a) /\ Len(a) = v - u /\ \A i \in 1..(v - u) : a[i] = (s \o t)[u + i]
    <2>1. v \in 0..Len(s \o t)
      BY <1>1
    <2>2. QED
      BY <1>1, <2>1, SegmentFacts
  <1>3. IsSeq(b) /\ Len(b) = v - u /\ \A i \in 1..(v - u) : b[i] = s[u + i]
    BY SegmentFacts
  <1> HIDE DEF a, b
  <1>4. ASSUME NEW i \in 1..Len(a)
        PROVE  a[i] = b[i]
    <2>1. i \in 1..(v - u) /\ u + i \in 1..Len(s)
      BY <1>1, <1>2
    <2>2. QED
      BY <1>1, <1>2, <1>3, <2>1
  <1>5. a = b
    BY <1>2, <1>3, <1>4, IsSeqEqual
  <1>6. QED
    BY <1>5 DEF a, b

\* A stretch of what a sequence is cut back to.
LEMMA SegmentCut ==
  ASSUME NEW s, IsSeq(s), NEW n \in 0..Len(s), NEW v \in 0..n, NEW u \in 0..v
  PROVE  /\ IsSeq(SubSeq(s, 1, n)) /\ Len(SubSeq(s, 1, n)) = n
         /\ Segment(SubSeq(s, 1, n), u, v) = Segment(s, u, v)
  <1>1. Len(s) \in Nat /\ n \in Nat /\ u \in Nat /\ v \in Nat /\ u <= v /\ v <= n /\ n <= Len(s)
    BY IsSeqLen
  <1> DEFINE c == SubSeq(s, 1, n)
             a == Segment(c, u, v)
             b == Segment(s, u, v)
  <1>2. IsSeq(c) /\ Len(c) = n /\ \A i \in 1..n : c[i] = s[i]
    <2>1. 0 \in 0..n /\ n - 0 = n /\ \A i \in 1..n : 0 + i = i
      BY <1>1
    <2>2. Segment(s, 0, n) = c
      BY DEF Segment
    <2> HIDE DEF c
    <2>3. IsSeq(c) /\ Len(c) = n - 0 /\ \A i \in 1..(n - 0) : c[i] = s[0 + i]
      BY <2>1, <2>2, SegmentFacts
    <2>4. QED
      BY <2>1, <2>3
  <1> HIDE DEF c
  <1>3. IsSeq(a) /\ Len(a) = v - u /\ \A i \in 1..(v - u) : a[i] = c[u + i]
    BY <1>2, SegmentFacts
  <1>4. IsSeq(b) /\ Len(b) = v - u /\ \A i \in 1..(v - u) : b[i] = s[u + i]
    <2>1. v \in 0..Len(s)
      BY <1>1
    <2>2. QED
      BY <2>1, SegmentFacts
  <1> HIDE DEF a, b
  <1>5. ASSUME NEW i \in 1..Len(a)
        PROVE  a[i] = b[i]
    <2>1. i \in 1..(v - u) /\ u + i \in 1..n
      BY <1>1, <1>3
    <2>2. QED
      BY <1>2, <1>3, <1>4, <2>1
  <1>6. a = b
    BY <1>3, <1>4, <1>5, IsSeqEqual
  <1>7. QED
    BY <1>2, <1>6 DEF a, b, c

\* A stretch of what is left of a sequence when n elements are dropped.
LEMMA SegmentDropped ==
  ASSUME NEW s, IsSeq(s), NEW n \in 0..Len(s), NEW v \in n..Len(s), NEW u \in n..v
  PROVE  /\ IsSeq(SubSeq(s, n + 1, Len(s))) /\ Len(SubSeq(s, n + 1, Len(s))) = Len(s) - n
         /\ Segment(SubSeq(s, n + 1, Len(s)), u - n, v - n) = Segment(s, u, v)
  <1>1. Len(s) \in Nat /\ n \in Nat /\ u \in Nat /\ v \in Nat /\ n <= u /\ u <= v /\ v <= Len(s)
    BY IsSeqLen
  <1> DEFINE c == SubSeq(s, n + 1, Len(s))
             p == u - n
             q == v - n
             a == Segment(c, p, q)
             b == Segment(s, u, v)
  <1>2. IsSeq(c) /\ Len(c) = Len(s) - n /\ \A i \in 1..(Len(s) - n) : c[i] = s[n + i]
    <2>1. Len(s) \in 0..Len(s)
      BY <1>1
    <2>2. Segment(s, n, Len(s)) = c
      BY DEF Segment
    <2> HIDE DEF c
    <2>3. QED
      BY <2>1, <2>2, SegmentFacts
  <1> HIDE DEF c
  <1>3. p \in Nat /\ q \in Nat /\ p <= q /\ q <= Len(c) /\ q - p = v - u /\ u = n + p
    BY <1>1, <1>2
  <1> HIDE DEF p, q
  <1>4. IsSeq(a) /\ Len(a) = q - p /\ \A i \in 1..(q - p) : a[i] = c[p + i]
    <2>1. q \in 0..Len(c) /\ p \in 0..q
      BY <1>1, <1>2, <1>3
    <2>2. IsSeq(c)
      BY <1>2
    <2>3. QED
      BY <2>1, <2>2, SegmentFacts
  <1>5. IsSeq(b) /\ Len(b) = v - u /\ \A i \in 1..(v - u) : b[i] = s[u + i]
    <2>1. v \in 0..Len(s)
      BY <1>1
    <2>2. u \in 0..v
      BY <1>1
    <2>3. QED
      BY <2>1, <2>2, SegmentFacts
  <1> HIDE DEF a, b
  <1>6. ASSUME NEW i \in 1..Len(a)
        PROVE  a[i] = b[i]
    <2>1. i \in 1..(v - u) /\ p + i \in 1..(Len(s) - n) /\ n + (p + i) = u + i
      BY <1>1, <1>2, <1>3, <1>4
    <2>2. QED
      BY <1>2, <1>3, <1>4, <1>5, <2>1
  <1>7. a = b
    BY <1>3, <1>4, <1>5, <1>6, IsSeqEqual
  <1>8. QED
    BY <1>2, <1>7 DEF a, b, c, p, q

==============================================================================
