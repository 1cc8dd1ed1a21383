-------------------------------- MODULE Folding --------------------------------
(***************************************************************************)
(* What a fold of a sequence computes, one element at a time, for any      *)
(* binary operator.  A fold is a recursive function; that the function     *)
(* exists and is unique is proved by induction over the naturals.          *)
(***************************************************************************)
EXTENDS SequencesExt, SequenceLemmas

CONSTANT Op(_, _)

-----------------------------------------------------------------------------
(* Folds from the left.                                                    *)

Left(base, s) == FoldLeft(Op, base, s)

\* One step of the recursion behind a fold from the left.
LeftStep(base, s, it, x) ==
  IF x = {} THEN base ELSE Op(it[x \ {Max(x)}], s[Max(x)])

LeftTable(base, s, n, it) == it = [x \in SUBSET (1..n) |-> LeftStep(base, s, it, x)]

LEMMA MaxOfUpTo ==
  ASSUME NEW n \in Nat, NEW x \in SUBSET (1..(n + 1)), n + 1 \in x
  PROVE  Max(x) = n + 1 /\ x # {} /\ x \ {Max(x)} \in SUBSET (1..n)
  <1>1. \A y \in x : n + 1 >= y
    OBVIOUS
  <1>2. \A z \in x : (\A y \in x : z >= y) => z = n + 1
    OBVIOUS
  <1>3. Max(x) = n + 1
    BY <1>1, <1>2 DEF Max
  <1>4. QED
    BY <1>3

LEMMA LeftTableExists ==
  ASSUME NEW base, NEW s, NEW n \in Nat
  PROVE  \E it : LeftTable(base, s, n, it)
  <1> DEFINE S == {k \in Nat : \E it : LeftTable(base, s, k, it)}
  <1>1. 0 \in S
    <2> DEFINE it == [x \in SUBSET (1..0) |-> base]
    <2>1. \A x \in SUBSET (1..0) : LeftStep(base, s, it, x) = base
      BY DEF LeftStep
    <2>2. LeftTable(base, s, 0, it)
      BY <2>1 DEF LeftTable
    <2>3. QED
      BY <2>2
  <1>2. ASSUME NEW k \in Nat, k \in S
        PROVE  k + 1 \in S
    <2>1. PICK it : LeftTable(base, s, k, it)
      BY <1>2
    <2> DEFINE more == [x \in SUBSET (1..(k + 1)) |->
                          IF k + 1 \in x THEN Op(it[x \ {k + 1}], s[k + 1]) ELSE it[x]]
    <2>2. \A x \in SUBSET (1..k) : more[x] = it[x] /\ it[x] = LeftStep(base, s, it, x)
      BY <2>1 DEF LeftTable
    <2>3. ASSUME NEW x \in SUBSET (1..(k + 1))
          PROVE  more[x] = LeftStep(base, s, more, x)
      <3>1. CASE k + 1 \in x
        <4>1. Max(x) = k + 1 /\ x # {} /\ x \ {Max(x)} \in SUBSET (1..k)
          BY <3>1, MaxOfUpTo
        <4>2. more[x] = Op(it[x \ {k + 1}], s[k + 1])
          BY <3>1
        <4> HIDE DEF more
        <4>3. QED
          BY <2>2, <4>1, <4>2 DEF LeftStep
      <3>2. CASE k + 1 \notin x
        <4>1. x \in SUBSET (1..k)
          BY <3>2
        <4>2. CASE x = {}
          BY <2>2, <4>1, <4>2 DEF LeftStep
        <4>3. CASE x # {}
          <5>1. x \ {Max(x)} \in SUBSET (1..k)
            BY <4>1
          <5> HIDE DEF more
          <5>2. QED
            BY <2>2, <4>1, <4>3, <5>1 DEF LeftStep
        <4>4. QED
          BY <4>2, <4>3
      <3>3. QED
        BY <3>1, <3>2
    <2>4. LeftTable(base, s, k + 1, more)
      <3>1. more = [x \in SUBSET (1..(k + 1)) |-> more[x]]
        OBVIOUS
      <3> HIDE DEF more
      <3>2. QED
        BY <2>3, <3>1 DEF LeftTable
    <2>5. QED
      BY <2>4
  <1> HIDE DEF S
  <1>3. n \in S
    BY <1>1, <1>2, Induct
  <1>4. QED
    BY <1>3 DEF S

\* Two tables agree on the elements their sequences share.
LEMMA LeftTablesAgree ==
  ASSUME NEW base, NEW s, NEW t, NEW i, NEW j, NEW m \in Nat, NEW k \in Nat,
         LeftTable(base, s, m, i), LeftTable(base, t, k, j),
         NEW n \in Nat, n <= m, n <= k, \A p \in 1..n : s[p] = t[p]
  PROVE  i[1..n] = j[1..n]
  <1> DEFINE S == {l \in Nat : l <= n => \A x \in SUBSET (1..l) : i[x] = j[x]}
  <1>1. /\ \A x \in SUBSET (1..m) : i[x] = LeftStep(base, s, i, x)
        /\ \A x \in SUBSET (1..k) : j[x] = LeftStep(base, t, j, x)
    BY DEF LeftTable
  <1>2. 0 \in S
    <2>1. \A x \in SUBSET (1..0) : x = {} /\ x \in SUBSET (1..m) /\ x \in SUBSET (1..k)
      OBVIOUS
    <2>2. \A x \in SUBSET (1..0) : i[x] = base /\ j[x] = base
      BY <1>1, <2>1 DEF LeftStep
    <2>3. QED
      BY <2>2
  <1>3. ASSUME NEW l \in Nat, l \in S
        PROVE  l + 1 \in S
    <2> SUFFICES ASSUME l + 1 <= n, NEW x \in SUBSET (1..(l + 1))
                 PROVE  i[x] = j[x]
      OBVIOUS
    <2>1. \A y \in SUBSET (1..l) : i[y] = j[y]
      BY <1>3
    <2>2. CASE l + 1 \in x
      <3>1. Max(x) = l + 1 /\ x # {} /\ x \ {Max(x)} \in SUBSET (1..l)
        BY <2>2, MaxOfUpTo
      <3>2. x \in SUBSET (1..m) /\ x \in SUBSET (1..k) /\ l + 1 \in 1..n
        OBVIOUS
      <3>3. i[x] = Op(i[x \ {l + 1}], s[l + 1]) /\ j[x] = Op(j[x \ {l + 1}], t[l + 1])
        BY <1>1, <3>1, <3>2 DEF LeftStep
      <3>4. s[l + 1] = t[l + 1]
        BY <3>2
      <3>5. QED
        BY <2>1, <3>1, <3>3, <3>4
    <2>3. CASE l + 1 \notin x
      <3>1. x \in SUBSET (1..l)
        BY <2>3
      <3>2. QED
        BY <2>1, <3>1
    <2>4. QED
      BY <2>2, <2>3
  <1> HIDE DEF S
  <1>4. n \in S
    BY <1>2, <1>3, Induct
  <1>5. QED
    BY <1>4 DEF S

\* A fold from the left is what its table holds of all the elements.
LEMMA LeftReads ==
  ASSUME NEW T, NEW base, NEW s \in Seq(T)
  PROVE  \E it : LeftTable(base, s, Len(s), it) /\ Left(base, s) = it[1..Len(s)]
  <1> DEFINE it == CHOOSE it : LeftTable(base, s, Len(s), it)
  <1>1. Len(s) \in Nat /\ DOMAIN s = 1..Len(s)
    BY LenProperties
  <1>2. LeftTable(base, s, Len(s), it)
    BY <1>1, LeftTableExists
  <1>3. Left(base, s) = it[1..Len(s)]
    BY <1>1 DEF Left, FoldLeft, MapThenFoldSet, LeftTable, LeftStep
  <1>4. QED
    BY <1>2, <1>3

LEMMA LeftEmpty ==
  ASSUME NEW base
  PROVE  Left(base, <<>>) = base
  <1>1. PICK it : LeftTable(base, <<>>, 0, it) /\ Left(base, <<>>) = it[1..0]
    <2>1. <<>> \in Seq({}) /\ Len(<<>>) = 0
      BY EmptySeq
    <2>2. QED
      BY <2>1, LeftReads
  <1>2. it[1..0] = LeftStep(base, <<>>, it, 1..0)
    BY <1>1 DEF LeftTable
  <1>3. 1..0 = {}
    OBVIOUS
  <1>4. QED
    BY <1>1, <1>2, <1>3 DEF LeftStep

\* The last element is taken in last.
LEMMA LeftAppend ==
  ASSUME NEW T, NEW base, NEW s \in Seq(T), NEW e \in T
  PROVE  Left(base, Append(s, e)) = Op(Left(base, s), e)
  <1> DEFINE t == Append(s, e)
             n == Len(s)
  <1>1. /\ n \in Nat /\ t \in Seq(T) /\ Len(t) = n + 1 /\ t[n + 1] = e
        /\ \A p \in 1..n : t[p] = s[p]
    BY LenProperties, AppendProperties
  <1>2. PICK i : LeftTable(base, s, n, i) /\ Left(base, s) = i[1..n]
    BY LeftReads
  <1> HIDE DEF n, t
  <1>3. PICK j : LeftTable(base, t, n + 1, j) /\ Left(base, t) = j[1..(n + 1)]
    BY <1>1, LeftReads
  <1>4. j[1..(n + 1)] = Op(j[1..n], e)
    <2>1. 1..(n + 1) \in SUBSET (1..(n + 1)) /\ n + 1 \in 1..(n + 1)
      BY <1>1
    <2>2. Max(1..(n + 1)) = n + 1 /\ 1..(n + 1) # {}
      BY <1>1, <2>1, MaxOfUpTo
    <2>3. (1..(n + 1)) \ {n + 1} = 1..n
      BY <1>1
    <2>4. QED
      BY <1>1, <1>3, <2>1, <2>2, <2>3 DEF LeftTable, LeftStep
  <1>5. i[1..n] = j[1..n]
    BY <1>1, <1>2, <1>3, LeftTablesAgree
  <1>6. QED
    BY <1>2, <1>3, <1>4, <1>5 DEF t

\* Folding two sequences one behind the other, from the left.
LEMMA LeftConcat ==
  ASSUME NEW T, NEW base, NEW s \in Seq(T), NEW t \in Seq(T)
  PROVE  Left(base, s \o t) = Left(Left(base, s), t)
  <1> DEFINE S == {n \in Nat : \A u \in Seq(T) : Len(u) = n =>
                     Left(base, s \o u) = Left(Left(base, s), u)}
  <1>1. 0 \in S
    <2>1. \A u \in Seq(T) : Len(u) = 0 => u = <<>> /\ s \o u = s
      BY EmptySeq, ConcatEmptySeq
    <2>2. \A b : Left(b, <<>>) = b
      BY LeftEmpty
    <2>3. QED
      BY <2>1, <2>2
  <1>2. ASSUME NEW n \in Nat, n \in S
        PROVE  n + 1 \in S
    <2> SUFFICES ASSUME NEW u \in Seq(T), Len(u) = n + 1
                 PROVE  Left(base, s \o u) = Left(Left(base, s), u)
      OBVIOUS
    <2> DEFINE v == Truncate(u, n)
               x == u[n + 1]
    <2>1. v \in Seq(T) /\ Len(v) = n /\ x \in T
      BY TruncateFacts, ElementOfSeq
    <2>2. u = Append(v, x)
      BY LastBack
    <2> DEFINE w == s \o v
    <2> HIDE DEF v, x
    <2>3. s \o u = Append(w, x) /\ w \in Seq(T)
      BY <2>1, <2>2, ConcatAppend
    <2> HIDE DEF w
    <2>4. Left(base, Append(w, x)) = Op(Left(base, w), x)
      BY <2>1, <2>3, LeftAppend
    <2>5. \A b : Left(b, u) = Op(Left(b, v), x)
      BY <2>1, <2>2, LeftAppend
    <2>6. Left(base, w) = Left(Left(base, s), v)
      BY <1>2, <2>1 DEF w
    <2>7. QED
      BY <2>3, <2>4, <2>5, <2>6
  <1> HIDE DEF S
  <1>3. Len(t) \in S
    BY <1>1, <1>2, Induct, LenProperties
  <1>4. QED
    BY <1>3 DEF S

\* The stages of a fold: one for each beginning of the sequence.
LEMMA LeftStages ==
  ASSUME NEW base, NEW s, IsSeq(s)
  PROVE  /\ Left(base, Truncate(s, 0)) = base
         /\ \A n \in Nat : n + 1 <= Len(s) =>
                Left(base, Truncate(s, n + 1)) = Op(Left(base, Truncate(s, n)), s[n + 1])
         /\ Truncate(s, Len(s)) = s
  <1> DEFINE T == ToSet(s)
  <1>1. s \in Seq(T) /\ Len(s) \in Nat
    BY IsSeqLen DEF IsSeq
  <1> HIDE DEF T
  <1>2. Left(base, Truncate(s, 0)) = base
    <2>1. Truncate(s, 0) \in Seq(T) /\ Len(Truncate(s, 0)) = 0
      BY <1>1, TruncateFacts
    <2>2. Truncate(s, 0) = <<>>
      BY <2>1, EmptySeq
    <2>3. QED
      BY <2>2, LeftEmpty
  <1>3. ASSUME NEW n \in Nat, n + 1 <= Len(s)
        PROVE  Left(base, Truncate(s, n + 1)) = Op(Left(base, Truncate(s, n)), s[n + 1])
    <2> DEFINE t == Truncate(s, n + 1)
    <2>0. n + 1 \in 0..Len(s) /\ n \in 0..(n + 1) /\ n \in 0..Len(s) /\ n + 1 \in 1..(n + 1)
      BY <1>1, <1>3
    <2>1. /\ t \in Seq(T) /\ Len(t) = n + 1 /\ t[n + 1] = s[n + 1]
      BY <1>1, <2>0, TruncateFacts
    <2>2. Truncate(t, n) = Truncate(s, n) /\ Truncate(s, n) \in Seq(T)
      BY <1>1, <2>0, TruncateTwice, TruncateFacts
    <2> HIDE DEF t
    <2>3. t = Append(Truncate(t, n), t[n + 1]) /\ t[n + 1] \in T
      BY <2>1, LastBack, ElementOfSeq
    <2> DEFINE u == Truncate(s, n)
    <2> HIDE DEF u
    <2>4. Left(base, Append(u, s[n + 1])) = Op(Left(base, u), s[n + 1])
      BY <2>1, <2>2, <2>3, LeftAppend DEF u
    <2>5. QED
      BY <2>1, <2>2, <2>3, <2>4 DEF u, t
  <1>4. QED
    BY <1>1, <1>2, <1>3, TruncateAll

-----------------------------------------------------------------------------
(* Folds from the right.                                                   *)

Right(s, base) == FoldRight(Op, s, base)

\* One step of the recursion behind a fold from the right.
RightStep(base, s, it, x) ==
  IF x = {} THEN base ELSE Op(s[Min(x)], it[x \ {Min(x)}])

RightTable(base, s, X, it) == it = [x \in SUBSET X |-> RightStep(base, s, it, x)]

LEMMA MinOfFrom ==
  ASSUME NEW n \in Nat, NEW l \in Nat, NEW x \in SUBSET ((n - l)..n), n - l \in x
  PROVE  Min(x) = n - l /\ x # {} /\ x \ {Min(x)} \in SUBSET ((n - l + 1)..n)
  <1>1. \A y \in x : n - l <= y
    OBVIOUS
  <1>2. \A z \in x : (\A y \in x : z <= y) => z = n - l
    <2>1. \A z \in x : z \in Int
      OBVIOUS
    <2>2. QED
      BY <1>1, <2>1
  <1>3. Min(x) = n - l
    BY <1>1, <1>2 DEF Min
  <1>4. \A y \in x \ {n - l} : y \in (n - l + 1)..n
    OBVIOUS
  <1>5. QED
    BY <1>3, <1>4

LEMMA RightTableExists ==
  ASSUME NEW base, NEW s, NEW n \in Nat
  PROVE  \E it : RightTable(base, s, 1..n, it)
  <1> DEFINE S == {l \in Nat : \E it : RightTable(base, s, (n - l + 1)..n, it)}
  <1>1. 0 \in S
    <2> DEFINE it == [x \in SUBSET ((n - 0 + 1)..n) |-> base]
    <2>1. \A x \in SUBSET ((n - 0 + 1)..n) : RightStep(base, s, it, x) = base
      BY DEF RightStep
    <2>2. RightTable(base, s, (n - 0 + 1)..n, it)
      BY <2>1 DEF RightTable
    <2>3. QED
      BY <2>2
  <1>2. ASSUME NEW l \in Nat, l \in S
        PROVE  l + 1 \in S
    <2> DEFINE X == (n - l + 1)..n
               Y == (n - l)..n
    <2>1. PICK it : RightTable(base, s, X, it)
      BY <1>2
    <2> DEFINE more == [x \in SUBSET Y |->
                          IF n - l \in x THEN Op(s[n - l], it[x \ {n - l}]) ELSE it[x]]
    <2>2. \A x \in SUBSET X : more[x] = it[x] /\ it[x] = RightStep(base, s, it, x)
      <3>1. \A x \in SUBSET X : x \in SUBSET Y /\ n - l \notin x
        OBVIOUS
      <3>2. QED
        BY <2>1, <3>1 DEF RightTable
    <2>3. ASSUME NEW x \in SUBSET Y
          PROVE  more[x] = RightStep(base, s, more, x)
      <3>1. CASE n - l \in x
        <4>1. Min(x) = n - l /\ x # {} /\ x \ {Min(x)} \in SUBSET X
          BY <3>1, MinOfFrom
        <4>2. more[x] = Op(s[n - l], it[x \ {n - l}])
          BY <3>1
        <4> HIDE DEF more, X, Y
        <4>3. QED
          BY <2>2, <4>1, <4>2 DEF RightStep
      <3>2. CASE n - l \notin x
        <4>1. x \in SUBSET X
          BY <3>2
        <4>2. CASE x = {}
          <5> HIDE DEF more, X, Y
          <5>1. QED
            BY <2>2, <4>1, <4>2 DEF RightStep
        <4>3. CASE x # {}
          <5>1. x \ {Min(x)} \in SUBSET X
            BY <4>1
          <5> HIDE DEF more, X, Y
          <5>2. QED
            BY <2>2, <4>1, <4>3, <5>1 DEF RightStep
        <4>4. QED
          BY <4>2, <4>3
      <3>3. QED
        BY <3>1, <3>2
    <2>4. RightTable(base, s, Y, more)
      <3>1. more = [x \in SUBSET Y |-> more[x]]
        OBVIOUS
      <3> HIDE DEF more, X, Y
      <3>2. QED
        BY <2>3, <3>1 DEF RightTable
    <2>5. Y = (n - (l + 1) + 1)..n
      OBVIOUS
    <2> HIDE DEF more, X, Y
    <2>6. QED
      BY <2>4, <2>5
  <1> HIDE DEF S
  <1>3. n \in S
    BY <1>1, <1>2, Induct
  <1>4. (n - n + 1)..n = 1..n
    OBVIOUS
  <1>5. QED
    BY <1>3, <1>4 DEF S

\* A fold from the right is what its table holds of all the elements.
LEMMA RightReads ==
  ASSUME NEW T, NEW base, NEW s \in Seq(T)
  PROVE  \E it : RightTable(base, s, 1..Len(s), it) /\ Right(s, base) = it[1..Len(s)]
  <1> DEFINE it == CHOOSE it : RightTable(base, s, 1..Len(s), it)
  <1>1. Len(s) \in Nat /\ DOMAIN s = 1..Len(s)
    BY LenProperties
  <1>2. RightTable(base, s, 1..Len(s), it)
    BY <1>1, RightTableExists
  <1>3. Right(s, base) = it[1..Len(s)]
    BY <1>1 DEF Right, FoldRight, MapThenFoldSet, RightTable, RightStep
  <1>4. QED
    BY <1>2, <1>3

LEMMA RightEmpty ==
  ASSUME NEW base
  PROVE  Right(<<>>, base) = base
  <1>1. PICK it : RightTable(base, <<>>, 1..0, it) /\ Right(<<>>, base) = it[1..0]
    <2>1. <<>> \in Seq({}) /\ Len(<<>>) = 0
      BY EmptySeq
    <2>2. \E it : /\ RightTable(base, <<>>, 1..Len(<<>>), it)
                  /\ Right(<<>>, base) = it[1..Len(<<>>)]
      BY <2>1, RightReads
    <2>3. QED
      BY <2>1, <2>2
  <1>2. it[1..0] = RightStep(base, <<>>, it, 1..0)
    BY <1>1 DEF RightTable
  <1>3. 1..0 = {}
    OBVIOUS
  <1>4. QED
    BY <1>1, <1>2, <1>3 DEF RightStep

\* The last element is taken in first.
LEMMA RightAppend ==
  ASSUME NEW T, NEW base, NEW s \in Seq(T), NEW e \in T
  PROVE  Right(Append(s, e), base) = Right(s, Op(e, base))
  <1> DEFINE t == Append(s, e)
             n == Len(s)
             inner == Op(e, base)
  <1>1. /\ n \in Nat /\ t \in Seq(T) /\ Len(t) = n + 1 /\ t[n + 1] = e
        /\ \A p \in 1..n : t[p] = s[p]
    BY LenProperties, AppendProperties
  <1>2. PICK i : RightTable(inner, s, 1..n, i) /\ Right(s, inner) = i[1..n]
    BY RightReads
  <1> HIDE DEF n, t
  <1>3. PICK j : RightTable(base, t, 1..(n + 1), j) /\ Right(t, base) = j[1..(n + 1)]
    BY <1>1, RightReads
  <1>4. /\ \A x \in SUBSET (1..n) : i[x] = RightStep(inner, s, i, x)
        /\ \A x \in SUBSET (1..(n + 1)) : j[x] = RightStep(base, t, j, x)
    BY <1>2, <1>3 DEF RightTable
  <1> DEFINE Agree(l) == \A x \in SUBSET ((n - l + 1)..n) :
                           l <= n => i[x] = j[x \union {n + 1}]
             S == {l \in Nat : Agree(l)}
  <1>5. 0 \in S
    <2> SUFFICES ASSUME NEW x \in SUBSET ((n - 0 + 1)..n)
                 PROVE  i[x] = j[x \union {n + 1}]
      OBVIOUS
    <2>1. x = {} /\ x \in SUBSET (1..n) /\ x \union {n + 1} = {n + 1}
          /\ {n + 1} \in SUBSET (1..(n + 1)) /\ {} \in SUBSET (1..(n + 1))
      <3>1. (n - 0 + 1)..n = {}
        BY <1>1
      <3>2. x = {}
        BY <3>1
      <3>3. n + 1 \in 1..(n + 1)
        BY <1>1
      <3>4. QED
        BY <3>2, <3>3
    <2>2. Min({n + 1}) = n + 1
      BY <1>1 DEF Min
    <2>3. j[{n + 1}] = Op(e, j[{}]) /\ j[{}] = base
      <3>1. {n + 1} \ {n + 1} = {} /\ {n + 1} # {}
        OBVIOUS
      <3>2. j[{}] = base
        BY <1>4, <2>1 DEF RightStep
      <3>3. j[{n + 1}] = RightStep(base, t, j, {n + 1})
        BY <1>4, <2>1
      <3>4. QED
        BY <1>1, <2>2, <3>1, <3>2, <3>3 DEF RightStep
    <2>4. i[x] = inner
      BY <1>4, <2>1 DEF RightStep
    <2>5. QED
      BY <2>1, <2>3, <2>4
  <1>6. ASSUME NEW l \in Nat, l \in S
        PROVE  l + 1 \in S
    <2> SUFFICES Agree(l + 1)
      <3> HIDE DEF Agree
      <3>1. QED
        OBVIOUS
    <2> SUFFICES ASSUME NEW x \in SUBSET ((n - (l + 1) + 1)..n), l + 1 <= n
                 PROVE  i[x] = j[x \union {n + 1}]
      OBVIOUS
    <2> DEFINE k == n - l
               rest == x \ {k}
    <2>1. /\ x \in SUBSET (k..n) /\ k \in 1..n /\ rest \in SUBSET ((n - l + 1)..n)
          /\ x \in SUBSET (1..n) /\ x \union {n + 1} \in SUBSET (1..(n + 1))
      BY <1>1
    <2>2. i[rest] = j[rest \union {n + 1}]
      <3>1. l <= n
        BY <1>1
      <3>2. QED
        BY <1>6, <2>1, <3>1
    <2>3. CASE k \in x
      <3>1. Min(x) = k /\ x # {}
        BY <1>1, <2>1, <2>3, MinOfFrom
      <3>2. Min(x \union {n + 1}) = k /\ x \union {n + 1} # {}
        <4>1. x \union {n + 1} \in SUBSET (((n + 1) - (l + 1))..(n + 1))
          BY <1>1, <2>1
        <4>2. (n + 1) - (l + 1) = k
          BY <1>1
        <4>3. (n + 1) - (l + 1) \in x \union {n + 1}
          BY <2>3, <4>2
        <4>4. n + 1 \in Nat /\ l + 1 \in Nat
          BY <1>1
        <4>5. x \union {n + 1} # {}
          OBVIOUS
        <4> HIDE DEF k
        <4>6. Min(x \union {n + 1}) = (n + 1) - (l + 1)
          BY ONLY <4>1, <4>3, <4>4, MinOfFrom
        <4>7. QED
          BY <4>2, <4>5, <4>6
      <3>3. (x \union {n + 1}) \ {k} = rest \union {n + 1}
        BY <1>1, <2>1
      <3>4. t[k] = s[k]
        BY <1>1, <2>1
      <3> HIDE DEF k
      <3>5. i[x] = Op(s[k], i[rest])
        BY <1>4, <2>1, <3>1 DEF RightStep
      <3>6. j[x \union {n + 1}] = Op(t[k], j[(x \union {n + 1}) \ {k}])
        BY <1>4, <2>1, <3>2 DEF RightStep
      <3>7. QED
        BY <2>2, <3>3, <3>4, <3>5, <3>6
    <2>4. CASE k \notin x
      BY <2>2, <2>4
    <2>5. QED
      BY <2>3, <2>4
  <1> HIDE DEF S
  <1>7. n \in S
    BY <1>1, <1>5, <1>6, Induct
  <1>8. i[1..n] = j[(1..n) \union {n + 1}]
    <2>1. (n - n + 1)..n = 1..n
      BY <1>1
    <2>2. \A x \in SUBSET ((n - n + 1)..n) : i[x] = j[x \union {n + 1}]
      BY <1>1, <1>7 DEF S
    <2> HIDE DEF S
    <2>3. 1..n \in SUBSET ((n - n + 1)..n)
      BY <2>1
    <2>4. QED
      BY <2>2, <2>3
  <1>9. (1..n) \union {n + 1} = 1..(n + 1)
    BY <1>1
  <1>10. QED
    BY <1>2, <1>3, <1>8, <1>9 DEF t, n

\* Folding two sequences one behind the other is folding with what the second gives.
LEMMA RightConcat ==
  ASSUME NEW T, NEW base, NEW s \in Seq(T), NEW t \in Seq(T)
  PROVE  Right(s \o t, base) = Right(s, Right(t, base))
  <1> DEFINE S == {n \in Nat : \A u \in Seq(T) : Len(u) = n =>
                     \A b : Right(s \o u, b) = Right(s, Right(u, b))}
  <1>1. 0 \in S
    <2>1. \A u \in Seq(T) : Len(u) = 0 => u = <<>> /\ s \o u = s
      BY EmptySeq, ConcatEmptySeq
    <2>2. \A b : Right(<<>>, b) = b
      BY RightEmpty
    <2>3. QED
      BY <2>1, <2>2
  <1>2. ASSUME NEW n \in Nat, n \in S
        PROVE  n + 1 \in S
    <2> SUFFICES ASSUME NEW u \in Seq(T), Len(u) = n + 1, NEW b
                 PROVE  Right(s \o u, b) = Right(s, Right(u, b))
      OBVIOUS
    <2> DEFINE v == Truncate(u, n)
               x == u[n + 1]
    <2>1. v \in Seq(T) /\ Len(v) = n /\ x \in T
      BY TruncateFacts, ElementOfSeq
    <2>2. u = Append(v, x)
      BY LastBack
    <2> HIDE DEF v, x
    <2>3. s \o u = Append(s \o v, x) /\ s \o v \in Seq(T)
      BY <2>1, <2>2, ConcatAppend
    <2>4. Right(s \o u, b) = Right(s \o v, Op(x, b)) /\ Right(u, b) = Right(v, Op(x, b))
      BY <2>1, <2>2, <2>3, RightAppend
    <2>5. Right(s \o v, Op(x, b)) = Right(s, Right(v, Op(x, b)))
      BY <1>2, <2>1
    <2>6. QED
      BY <2>4, <2>5
  <1> HIDE DEF S
  <1>3. Len(t) \in S
    BY <1>1, <1>2, Induct, LenProperties
  <1>4. QED
    BY <1>3 DEF S

\* The same for sequences of whatever.
LEMMA RightOneMore ==
  ASSUME NEW s, IsSeq(s), NEW e, NEW base
  PROVE  Right(Append(s, e), base) = Right(s, Op(e, base))
  <1> DEFINE T == ToSet(Append(s, e))
  <1>1. /\ Len(s) \in Nat /\ DOMAIN Append(s, e) = 1..(Len(s) + 1)
        /\ \A i \in 1..Len(s) : Append(s, e)[i] = s[i]
        /\ Append(s, e)[Len(s) + 1] = e
    BY IsSeqAppend, IsSeqLen
  <1>2. e \in T /\ \A i \in 1..Len(s) : s[i] \in T
    BY <1>1 DEF ToSet
  <1> HIDE DEF T
  <1>3. s \in Seq(T)
    BY <1>2, IsSeqIn
  <1>4. QED
    BY <1>2, <1>3, RightAppend

LEMMA RightJoined ==
  ASSUME NEW s, IsSeq(s), NEW t, IsSeq(t), NEW base
  PROVE  Right(s \o t, base) = Right(s, Right(t, base))
  <1> DEFINE T == ToSet(s) \union ToSet(t)
  <1>1. (\A i \in 1..Len(s) : s[i] \in T) /\ (\A i \in 1..Len(t) : t[i] \in T)
    BY IsSeqLen DEF ToSet
  <1> HIDE DEF T
  <1>2. s \in Seq(T) /\ t \in Seq(T)
    BY <1>1, IsSeqIn
  <1>3. QED
    BY <1>2, RightConcat

-----------------------------------------------------------------------------
(* A journal: what folding its records from a place on gives back.          *)

Back(s, n, base) == Right(Segment(s, n, Len(s)), base)

LEMMA BackNothing ==
  ASSUME NEW s, IsSeq(s), NEW base
  PROVE  Back(s, Len(s), base) = base
  <1>1. Segment(s, Len(s), Len(s)) = <<>>
    BY IsSeqLen, SegmentNothing
  <1>2. QED
    BY <1>1, RightEmpty DEF Back

\* Records added behind are taken back first.
LEMMA BackMore ==
  ASSUME NEW s, IsSeq(s), NEW t, IsSeq(t), NEW base, NEW n \in 0..Len(s)
  PROVE  Back(s \o t, n, base) = Back(s, n, Right(t, base))
  <1>1. Segment(s \o t, n, Len(s \o t)) = Segment(s, n, Len(s)) \o t
    BY SegmentConcat
  <1>2. IsSeq(Segment(s, n, Len(s)))
    <2>1. Len(s) \in 0..Len(s)
      BY IsSeqLen
    <2>2. QED
      BY <2>1, SegmentFacts
  <1>3. QED
    BY <1>1, <1>2, RightJoined DEF Back

LEMMA CutAndRest ==
  ASSUME NEW s, IsSeq(s), NEW n \in 0..Len(s)
  PROVE  /\ IsSeq(SubSeq(s, 1, n)) /\ IsSeq(Segment(s, n, Len(s)))
         /\ s = SubSeq(s, 1, n) \o Segment(s, n, Len(s))
  <1> DEFINE cut == SubSeq(s, 1, n)
             rest == Segment(s, n, Len(s))
             L == Len(s)
  <1>1. L \in Nat
    BY IsSeqLen
  <1>2. cut = Segment(s, 0, n) /\ 0 \in 0..n /\ n \in 0..L /\ L \in 0..L
    BY <1>1 DEF Segment
  <1>3. IsSeq(cut) /\ Len(cut) = n - 0 /\ \A i \in 1..(n - 0) : cut[i] = s[0 + i]
    BY <1>2, SegmentFacts
  <1>4. IsSeq(rest) /\ Len(rest) = L - n /\ \A i \in 1..(L - n) : rest[i] = s[n + i]
    BY <1>1, <1>2, SegmentFacts
  <1> HIDE DEF cut, rest
  <1>5. /\ IsSeq(cut \o rest) /\ Len(cut \o rest) = Len(cut) + Len(rest)
        /\ \A i \in 1..Len(cut) : (cut \o rest)[i] = cut[i]
        /\ \A i \in 1..Len(rest) : (cut \o rest)[Len(cut) + i] = rest[i]
    <2>1. IsSeq(cut) /\ IsSeq(rest)
      BY <1>3, <1>4
    <2>2. QED
      BY <2>1, IsSeqConcat
  <1>6. ASSUME NEW i \in 1..L PROVE s[i] = (cut \o rest)[i]
    <2>1. CASE i <= n
      <3>1. i \in 1..(n - 0) /\ i \in 1..Len(cut) /\ 0 + i = i
        BY <1>1, <1>3, <2>1
      <3>2. QED
        BY <1>3, <1>5, <3>1
    <2>2. CASE ~(i <= n)
      <3> DEFINE j == i - n
      <3>1. j \in 1..(L - n) /\ j \in 1..Len(rest) /\ n + j = i /\ Len(cut) + j = i
        BY <1>1, <1>3, <1>4, <2>2
      <3> HIDE DEF j
      <3>2. QED
        BY <1>4, <1>5, <3>1
    <2>3. QED
      BY <2>1, <2>2
  <1>7. Len(cut \o rest) = L
    BY <1>1, <1>3, <1>4, <1>5
  <1>8. s = cut \o rest
    BY <1>5, <1>6, <1>7, IsSeqEqual
  <1>9. QED
    BY <1>3, <1>4, <1>8 DEF cut, rest

\* From the value of a later place, the records before lead to an earlier one.
LEMMA BackFurther ==
  ASSUME NEW s, IsSeq(s), NEW base, NEW n \in 0..Len(s), NEW p \in 0..n
  PROVE  Back(SubSeq(s, 1, n), p, Back(s, n, base)) = Back(s, p, base)
  <1> DEFINE cut == SubSeq(s, 1, n)
             rest == Segment(s, n, Len(s))
  <1>1. IsSeq(cut) /\ IsSeq(rest) /\ s = cut \o rest
    BY CutAndRest
  <1>2. Len(s) \in Nat /\ Len(cut) = n
    BY IsSeqLen, SegmentCut
  <1> HIDE DEF cut
  <1>3. Back(cut \o rest, p, base) = Back(cut, p, Right(rest, base))
    <2> HIDE DEF rest
    <2>1. QED
      BY <1>1, <1>2, BackMore
  <1>4. Right(rest, base) = Back(s, n, base)
    BY DEF Back
  <1> HIDE DEF rest
  <1>5. QED
    BY <1>1, <1>3, <1>4 DEF cut

\* Dropping the oldest records changes nothing for the places behind them.
LEMMA BackDropped ==
  ASSUME NEW s, IsSeq(s), NEW base, NEW n \in 0..Len(s), NEW p \in n..Len(s)
  PROVE  Back(SubSeq(s, n + 1, Len(s)), p - n, base) = Back(s, p, base)
  <1> DEFINE L == Len(s)
             c == SubSeq(s, n + 1, L)
  <1>1. L \in Nat /\ L \in n..L /\ p \in n..L
    BY IsSeqLen
  <1>2. Len(c) = L - n /\ Segment(c, p - n, L - n) = Segment(s, p, L)
    BY <1>1, SegmentDropped
  <1> HIDE DEF c
  <1>3. QED
    BY <1>2 DEF Back, c
==============================================================================
