---------------------------- MODULE GenerationProofs ----------------------------
(***************************************************************************)
(* The safety of one call of a Generator, for every value of the           *)
(* constants: any number of rows, any documents, any padding token.        *)
(***************************************************************************)
EXTENDS Generation, SequenceLemmas

\* The guide and the mask of a row whose tokens have all been taken.
GuideOf(ids) == [taken |-> UpToEos(ids), terminated |-> Contains(ids, Eos)]
MaskIn(p, ids) ==
    IF Contains(ids, Eos) THEN {Eos}
    ELSE IF p THEN Takable(GuideOf(ids)) ELSE candidates(GuideOf(ids))

TypeOK ==
    /\ pad \in Pads
    /\ foreign \in BOOLEAN
    /\ probed \in BOOLEAN
    /\ at \in Nat \ {0}
    /\ generated \in [Row -> Seq(Tokens)]
    /\ guides \in [Row -> [taken : Seq(Tokens), terminated : BOOLEAN]]
    /\ matrix \in [Row -> SUBSET Tokens]
    /\ committed_length \in Nat
    /\ call \in {"called", "advancing", "filling", "choosing", "decoding"} \union Ended

UpToDate(r) == guides[r] = GuideOf(generated[r])

\* The guide of row r has yet to take the last token, one its mask allowed unless
\* the row had ended or another processor stepped in.
Behind(r) ==
    LET before == Front(generated[r])
    IN  /\ generated[r] # <<>>
        /\ guides[r] = GuideOf(before)
        /\ matrix[r] = MaskIn(probed, before)
        /\ Contains(before, Eos) => Last(generated[r]) = pad
        /\ ~Contains(before, Eos) /\ ~foreign => Last(generated[r]) \in matrix[r]

\* What the rows are while the call does what it does.
Phases ==
    /\ call = "called" =>
         \/ committed_length = 0 /\ \A r \in Row : generated[r] = <<>> /\ UpToDate(r)
         \/ \A r \in Row : Len(generated[r]) = committed_length + 1 /\ Behind(r)
    /\ call = "advancing" =>
         /\ at <= Rows + 1
         /\ \A r \in Row : /\ Len(generated[r]) = committed_length + 1
                           /\ IF r < at THEN UpToDate(r) ELSE Behind(r)
    /\ call = "filling" =>
         /\ at <= Rows
         /\ \A r \in Row : /\ Len(generated[r]) = committed_length /\ UpToDate(r)
                           /\ r < at => matrix[r] = MaskIn(probed, generated[r])
    /\ call = "choosing" =>
         \A r \in Row : /\ Len(generated[r]) = committed_length /\ UpToDate(r)
                        /\ matrix[r] = MaskIn(probed, generated[r])
    /\ call = "refused" =>
         at \in Row /\ Behind(at) /\ ~guides[at].terminated
    /\ call \in {"unmasked", "no continuation"} =>
         at \in Row /\ UpToDate(at) /\ ~guides[at].terminated
    /\ call # "unsupported"

\* A guide takes the beginnings of documents, and ends after a whole one.
Taken ==
    \A r \in Row : /\ guides[r].taken \in Beginnings
                   /\ guides[r].terminated => guides[r].taken \in Documents

\* A text whose tokens but the last are taken, and the last shown by a mask.
Shown(ids) == ids \in Beginnings \/ (Front(ids) \in Beginnings /\ Untried(ids))

\* What the masks alone make of the rows.
Written ==
    ~foreign =>
        \A r \in Row :
            /\ IF RowEnded(r)
               THEN UpToEos(generated[r]) \in Documents
                      \/ Untried(Append(UpToEos(generated[r]), Eos))
               ELSE generated[r] = <<>> \/ Shown(generated[r])
            /\ call \in {"decoding", "returned"} =>
                 generated[r] # <<>> /\ (RowEnded(r) \/ Len(generated[r]) = max_new_tokens)

GInv == TypeOK /\ Phases /\ Taken /\ Written

-------------------------------------------------------------------------------
(* The operators of the model.                                             *)

LEMMA ContainsAppend ==
  ASSUME NEW S, NEW s \in Seq(S), NEW e \in S, NEW x
  PROVE  Contains(Append(s, e), x) <=> Contains(s, x) \/ e = x
  <1>1. /\ Len(Append(s, e)) = Len(s) + 1 /\ Len(s) \in Nat
        /\ \A i \in 1..Len(s) : Append(s, e)[i] = s[i]
        /\ Append(s, e)[Len(s) + 1] = e
    BY AppendProperties, LenProperties
  <1>2. QED
    BY <1>1 DEF Contains

\* Where the first end of sequence is.
LEMMA FirstEos ==
  ASSUME NEW ids \in Seq(Tokens), Contains(ids, Eos)
  PROVE  \E n \in 1..Len(ids) :
           /\ ids[n] = Eos /\ \A i \in 1..(n - 1) : ids[i] # Eos
           /\ UpToEos(ids) = Truncate(ids, n - 1)
  <1> DEFINE I == {i \in 1..Len(ids) : ids[i] = Eos}
  <1>1. Len(ids) \in Nat /\ I \in SUBSET Nat /\ I # {}
    BY LenProperties DEF Contains
  <1>2. PICK n \in I : \A m \in I : n <= m
    BY <1>1, LeastNatural
  <1>3. Min(I) = n
    BY <1>1, <1>2 DEF Min
  <1>4. \A i \in 1..(n - 1) : ids[i] # Eos
    BY <1>1, <1>2
  <1>5. UpToEos(ids) = Truncate(ids, n - 1)
    BY <1>1, <1>3 DEF UpToEos, SelectInSeq, Truncate
  <1>6. QED
    BY <1>2, <1>4, <1>5

LEMMA UpToEosType ==
  ASSUME NEW ids \in Seq(Tokens)
  PROVE  UpToEos(ids) \in Seq(Tokens)
  <1>1. CASE Contains(ids, Eos)
    <2>1. PICK n \in 1..Len(ids) : UpToEos(ids) = Truncate(ids, n - 1)
      BY <1>1, FirstEos
    <2>2. n - 1 \in 0..Len(ids)
      BY LenProperties
    <2>3. QED
      BY <2>1, <2>2, TruncateFacts
  <1>2. CASE ~Contains(ids, Eos)
    BY <1>2 DEF UpToEos
  <1>3. QED
    BY <1>1, <1>2

\* A token after the end changes nothing, the end itself ends the text, and any
\* other token is its next.
LEMMA UpToEosAppend ==
  ASSUME NEW ids \in Seq(Tokens), NEW t \in Tokens
  PROVE  UpToEos(Append(ids, t)) =
           IF Contains(ids, Eos) THEN UpToEos(ids) ELSE IF t = Eos THEN ids ELSE Append(ids, t)
  <1> DEFINE longer == Append(ids, t)
  <1>1. /\ longer \in Seq(Tokens) /\ Len(longer) = Len(ids) + 1 /\ Len(ids) \in Nat
        /\ \A i \in 1..Len(ids) : longer[i] = ids[i]
        /\ longer[Len(ids) + 1] = t
    BY AppendProperties, LenProperties
  <1>2. Contains(longer, Eos) <=> Contains(ids, Eos) \/ t = Eos
    BY ContainsAppend
  <1>3. \A n \in 0..Len(ids) : Truncate(longer, n) = Truncate(ids, n)
    BY TruncateAppend
  <1> HIDE DEF longer
  <1>4. CASE Contains(ids, Eos)
    <2>1. PICK n \in 1..Len(ids) :
            /\ ids[n] = Eos /\ \A i \in 1..(n - 1) : ids[i] # Eos
            /\ UpToEos(ids) = Truncate(ids, n - 1)
      BY <1>4, FirstEos
    <2>2. PICK m \in 1..Len(longer) :
            /\ longer[m] = Eos /\ \A i \in 1..(m - 1) : longer[i] # Eos
            /\ UpToEos(longer) = Truncate(longer, m - 1)
      BY <1>1, <1>2, <1>4, FirstEos
    <2>3. m = n
      <3>1. ~(m < n)
        BY <1>1, <2>1, <2>2
      <3>2. ~(n < m)
        BY <1>1, <2>1, <2>2
      <3>3. QED
        BY <1>1, <3>1, <3>2
    <2>4. QED
      BY <1>1, <1>3, <1>4, <2>1, <2>2, <2>3 DEF longer
  <1>5. CASE ~Contains(ids, Eos) /\ t = Eos
    <2>1. PICK m \in 1..Len(longer) :
            longer[m] = Eos /\ UpToEos(longer) = Truncate(longer, m - 1)
      BY <1>1, <1>2, <1>5, FirstEos
    <2>2. m = Len(ids) + 1
      BY <1>1, <1>5, <2>1 DEF Contains
    <2>3. UpToEos(longer) = ids
      BY <1>1, <1>3, <2>1, <2>2, TruncateAll
    <2>4. QED
      BY <1>5, <2>3 DEF longer
  <1>6. CASE ~Contains(ids, Eos) /\ t # Eos
    BY <1>2, <1>6 DEF UpToEos, longer
  <1>7. QED
    BY <1>4, <1>5, <1>6

LEMMA BeginningsFacts ==
  ASSUME NEW b \in Beginnings
  PROVE  /\ b \in Seq(Tokens) /\ ~Contains(b, Eos)
         /\ \A n \in 0..Len(b) : Truncate(b, n) \in Beginnings
  <1>1. PICK d \in Documents \union DeadEnds : \E l \in 0..Len(d) : b = Truncate(d, l)
    BY DEF Beginnings, Prefixes, Truncate
  <1>2. d \in Seq(Tokens) /\ ~Contains(d, Eos) /\ Len(d) \in Nat
    BY TokensAssumption, LenProperties
  <1>3. PICK l \in 0..Len(d) : b = Truncate(d, l)
    BY <1>1
  <1>4. b \in Seq(Tokens) /\ Len(b) = l /\ \A i \in 1..l : b[i] = d[i]
    BY <1>2, <1>3, TruncateFacts
  <1>5. ~Contains(b, Eos)
    BY <1>2, <1>4 DEF Contains
  <1>6. ASSUME NEW n \in 0..Len(b)
        PROVE  Truncate(b, n) \in Beginnings
    <2>1. Truncate(b, n) = Truncate(d, n)
      BY <1>2, <1>3, <1>4, TruncateTwice
    <2>2. n \in 0..Len(d)
      BY <1>2, <1>4
    <2>3. QED
      BY <2>1, <2>2 DEF Beginnings, Prefixes, Truncate
  <1>7. QED
    BY <1>4, <1>5, <1>6

LEMMA DocumentBegins ==
  ASSUME NEW d \in Documents
  PROVE  d \in Beginnings
  <1>1. d \in Seq(Tokens) /\ Len(d) \in Nat
    BY TokensAssumption, LenProperties
  <1>2. d = Truncate(d, Len(d)) /\ Len(d) \in 0..Len(d)
    BY <1>1, TruncateAll
  <1>3. d \in Prefixes(d)
    BY <1>2 DEF Prefixes, Truncate
  <1>4. QED
    BY <1>3 DEF Beginnings

LEMMA NothingTaken == <<>> \in Beginnings
  <1>1. PICK d \in Documents \union DeadEnds : d \in Seq(Tokens)
    BY TokensAssumption
  <1>2. <<>> = Truncate(d, 0) /\ 0 \in 0..Len(d)
    BY <1>1, LenProperties, TruncateFacts, EmptySeq
  <1>3. QED
    BY <1>1, <1>2 DEF Beginnings, Prefixes, Truncate

\* A guide that takes the token of its row stays the guide of the row's text.
LEMMA GuideTakes ==
  ASSUME NEW ids \in Seq(Tokens), NEW t \in Tokens
  PROVE  /\ Contains(ids, Eos) => GuideOf(Append(ids, t)) = GuideOf(ids)
         /\ ~Contains(ids, Eos) => advance(GuideOf(ids), t) = GuideOf(Append(ids, t))
         /\ GuideOf(ids) \in [taken : Seq(Tokens), terminated : BOOLEAN]
         /\ \A p : MaskIn(p, ids) \subseteq Tokens
  <1>1. Contains(ids, Eos) \in BOOLEAN
    BY DEF Contains
  <1>2. GuideOf(ids) \in [taken : Seq(Tokens), terminated : BOOLEAN]
    BY <1>1, UpToEosType DEF GuideOf
  <1>3. \A p : MaskIn(p, ids) \subseteq Tokens
    BY TokensAssumption DEF MaskIn, Takable, candidates
  <1>4. Contains(Append(ids, t), Eos) <=> Contains(ids, Eos) \/ t = Eos
    BY ContainsAppend
  <1>5. Contains(Append(ids, t), Eos) \in BOOLEAN
    BY DEF Contains
  <1>6. CASE Contains(ids, Eos)
    BY <1>1, <1>2, <1>3, <1>4, <1>5, <1>6, UpToEosAppend DEF GuideOf
  <1>7. CASE ~Contains(ids, Eos)
    <2>1. UpToEos(ids) = ids
      BY <1>7 DEF UpToEos
    <2>2. UpToEos(Append(ids, t)) = IF t = Eos THEN ids ELSE Append(ids, t)
      BY <1>7, UpToEosAppend
    <2>3. (Contains(Append(ids, t), Eos)) = (t = Eos)
      BY <1>4, <1>5, <1>7
    <2>4. GuideOf(ids) = [taken |-> ids, terminated |-> FALSE]
      BY <1>1, <1>7, <2>1 DEF GuideOf
    <2>5. ASSUME t = Eos
          PROVE  advance(GuideOf(ids), t) = GuideOf(Append(ids, t))
      <3>1. GuideOf(Append(ids, t)) = [taken |-> ids, terminated |-> TRUE]
        BY <2>2, <2>3, <2>5 DEF GuideOf
      <3>2. advance([taken |-> ids, terminated |-> FALSE], t) = [taken |-> ids, terminated |-> TRUE]
        BY <2>5 DEF advance
      <3>3. QED
        BY <2>4, <3>1, <3>2
    <2>6. ASSUME t # Eos
          PROVE  advance(GuideOf(ids), t) = GuideOf(Append(ids, t))
      <3>1. GuideOf(Append(ids, t)) = [taken |-> Append(ids, t), terminated |-> FALSE]
        BY <2>2, <2>3, <2>6 DEF GuideOf
      <3>2. advance([taken |-> ids, terminated |-> FALSE], t)
              = [taken |-> Append(ids, t), terminated |-> FALSE]
        BY <2>6 DEF advance
      <3>3. QED
        BY <2>4, <3>1, <3>2
    <2>7. advance(GuideOf(ids), t) = GuideOf(Append(ids, t))
      BY <2>5, <2>6
    <2>8. QED
      BY <1>2, <1>3, <1>7, <2>7
  <1>8. QED
    BY <1>6, <1>7

\* The mask of a row is what FillRow computes for a guide that is up to date.
LEMMA MaskOfGuide ==
  ASSUME NEW r, guides[r] = GuideOf(generated[r])
  PROVE  RowMask(r) = MaskIn(probed, generated[r]) /\ (guides[r].terminated <=> RowEnded(r))
  BY DEF GuideOf, RowMask, MaskIn, RowEnded, get_tokens

-------------------------------------------------------------------------------
(* The invariant, step by step.                                            *)

LEMMA InitialRows == Init => GInv
  <1> SUFFICES ASSUME Init PROVE GInv
    OBVIOUS
  <1>1. /\ ~Contains(<<>>, Eos) /\ UpToEos(<<>>) = <<>> /\ <<>> \in Seq(Tokens)
        /\ GuideOf(<<>>) = NewGuide /\ NewGuide \in [taken : Seq(Tokens), terminated : BOOLEAN]
    <2>1. (Contains(<<>>, Eos)) = FALSE /\ <<>> \in Seq(Tokens)
      BY DEF Contains
    <2>2. UpToEos(<<>>) = <<>>
      BY <2>1 DEF UpToEos
    <2>3. QED
      BY <2>1, <2>2 DEF GuideOf, NewGuide
  <1>2. TypeOK
    BY <1>1 DEF Init, TypeOK
  <1>3. \A r \in Row : generated[r] = <<>> /\ UpToDate(r)
    BY <1>1 DEF Init, UpToDate
  <1>4. Phases
    BY <1>3 DEF Init, Phases
  <1>5. Taken /\ Written
    <2>1. NewGuide.taken \in Beginnings /\ ~NewGuide.terminated
      BY NothingTaken DEF NewGuide
    <2>2. QED
      BY <1>1, <1>3, <2>1 DEF Init, Taken, Written, RowEnded
  <1>6. QED
    BY <1>2, <1>4, <1>5 DEF GInv

LEMMA RowFacts ==
  ASSUME TypeOK
  PROVE  /\ \A r \in Row : /\ generated[r] \in Seq(Tokens) /\ Len(generated[r]) \in Nat
                           /\ guides[r] \in [taken : Seq(Tokens), terminated : BOOLEAN]
                           /\ matrix[r] \subseteq Tokens
         /\ 1 \in Row /\ Rows \in Nat \ {0} /\ Row \subseteq Nat \ {0}
  BY LenProperties, PromptsAssumption DEF TypeOK, Row

LEMMA CalledKeeps ==
  ASSUME GInv, Called
  PROVE  GInv'
  <1>1. /\ TypeOK /\ Phases /\ Taken /\ Written /\ call = "called" /\ at' = 1
        /\ UNCHANGED <<max_new_tokens, pad, foreign, probed, limited, generated, guides,
                       committed_length, matrix>>
    BY DEF GInv, Called, parameters
  <1>2. CASE committed_length = 0 /\ \A r \in Row : generated[r] = <<>> /\ UpToDate(r)
    <2>1. call' = "filling"
      <3>1. generated[1] = <<>> /\ Len(<<>>) = 0
        BY <1>1, <1>2, RowFacts
      <3>2. QED
        BY <1>2, <3>1 DEF Called, GeneratedLength
    <2>2. Phases'
      BY <1>1, <1>2, <2>1, RowFacts DEF Phases, UpToDate
    <2>3. TypeOK' /\ Taken' /\ Written'
      BY <1>1, <2>1 DEF TypeOK, Taken, Written, RowEnded, Shown, Untried
    <2>4. QED
      BY <2>2, <2>3 DEF GInv
  <1>3. CASE \A r \in Row : Len(generated[r]) = committed_length + 1 /\ Behind(r)
    <2>1. call' = "advancing"
      BY <1>1, <1>3, RowFacts DEF Called, GeneratedLength, TypeOK
    <2>2. Phases'
      <3>1. \A r \in Row : Behind(r)' /\ Len(generated'[r]) = committed_length' + 1
        BY <1>1, <1>3 DEF Behind
      <3>2. at' <= Rows + 1 /\ \A r \in Row : ~(r < at')
        BY <1>1, RowFacts
      <3>3. QED
        BY <2>1, <3>1, <3>2 DEF Phases
    <2>3. TypeOK' /\ Taken' /\ Written'
      BY <1>1, <2>1 DEF TypeOK, Taken, Written, RowEnded, Shown, Untried
    <2>4. QED
      BY <2>2, <2>3 DEF GInv
  <1>4. QED
    BY <1>1, <1>2, <1>3 DEF Phases

\* The guide of a row takes the last token, or is done and stays as it is.
LEMMA CatchUp ==
  ASSUME TypeOK, NEW r \in Row, Behind(r)
  PROVE  (IF Takes(r) THEN advance(guides[r], Token(r)) ELSE guides[r]) = GuideOf(generated[r])
  <1> DEFINE before == Front(generated[r])
  <1>1. /\ before \in Seq(Tokens) /\ Token(r) \in Tokens
        /\ generated[r] = Append(before, Token(r))
    BY RowFacts, AppendFront DEF Behind, Token
  <1>2. guides[r] = GuideOf(before)
    BY DEF Behind
  <1> HIDE DEF before
  <1>3. Takes(r) <=> ~Contains(before, Eos)
    BY <1>2 DEF Takes, GuideOf
  <1>4. QED
    BY <1>1, <1>2, <1>3, GuideTakes

LEMMA AdvanceRowKeeps ==
  ASSUME GInv, AdvanceRow
  PROVE  GInv'
  <1>1. /\ TypeOK /\ Phases /\ Taken /\ Written /\ call = "advancing" /\ at \in Row /\ at' = at + 1
        /\ UNCHANGED <<max_new_tokens, pad, foreign, probed, limited, call, generated,
                       committed_length, matrix>>
    BY DEF GInv, AdvanceRow, parameters
  <1>2. Behind(at) /\ at \in Nat \ {0} /\ at <= Rows
    BY <1>1, RowFacts DEF Phases, Row, TypeOK
  <1>3. guides' = [guides EXCEPT ![at] = GuideOf(generated[at])]
    <2>1. CASE Takes(at)
      BY <1>1, <1>2, <2>1, CatchUp DEF AdvanceRow
    <2>2. CASE ~Takes(at)
      <3>1. guides' = guides /\ guides[at] = GuideOf(generated[at])
        BY <1>1, <1>2, <2>2, CatchUp DEF AdvanceRow
      <3>2. QED
        BY <1>1, <3>1 DEF TypeOK
    <2>3. QED
      BY <2>1, <2>2
  <1>4. \A r \in Row : guides'[r] = IF r = at THEN GuideOf(generated[at]) ELSE guides[r]
    BY <1>1, <1>3 DEF TypeOK
  <1>5. GuideOf(generated[at]) \in [taken : Seq(Tokens), terminated : BOOLEAN]
    BY <1>1, RowFacts, GuideTakes, TokensAssumption
  <1>6. TypeOK'
    BY <1>1, <1>2, <1>3, <1>5 DEF TypeOK
  <1>7. Phases'
    <2>1. at' <= Rows + 1
      BY <1>1, <1>2, RowFacts
    <2>2. ASSUME NEW r \in Row
          PROVE  /\ Len(generated'[r]) = committed_length' + 1
                 /\ IF r < at' THEN UpToDate(r)' ELSE Behind(r)'
      <3>1. /\ Len(generated[r]) = committed_length + 1 /\ r \in Nat
            /\ IF r < at THEN UpToDate(r) ELSE Behind(r)
        BY <1>1, RowFacts DEF Phases
      <3>2. r < at' <=> r < at \/ r = at
        BY <1>1, <1>2, <3>1
      <3>3. CASE r < at \/ r = at
        <4>1. guides'[r] = GuideOf(generated[r])
          BY <1>2, <1>4, <3>1, <3>3 DEF UpToDate
        <4>2. UpToDate(r)'
          BY <1>1, <4>1 DEF UpToDate
        <4>3. QED
          BY <1>1, <3>1, <3>2, <3>3, <4>2
      <3>4. CASE ~(r < at \/ r = at)
        <4>1. Behind(r) /\ guides'[r] = guides[r]
          BY <1>4, <3>1, <3>4
        <4>2. Behind(r)'
          BY <1>1, <4>1 DEF Behind
        <4>3. QED
          BY <1>1, <3>1, <3>2, <3>4, <4>2
      <3>5. QED
        BY <3>3, <3>4
    <2>3. QED
      BY <1>1, <2>1, <2>2 DEF Phases
  <1>8. Written'
    BY <1>1 DEF Written, RowEnded, Shown, Untried
  <1>9. Taken'
    <2>1. ASSUME Takes(at)
          PROVE  LET g == advance(guides[at], Token(at))
                 IN  g.taken \in Beginnings /\ (g.terminated => g.taken \in Documents)
      <3>1. /\ ~guides[at].terminated /\ Token(at) \in Takable(guides[at])
            /\ guides[at] \in [taken : Seq(Tokens), terminated : BOOLEAN]
            /\ guides[at].taken \in Beginnings
        BY <1>1, <2>1, RowFacts DEF AdvanceRow, Taken
      <3>2. CASE Token(at) = Eos
        <4>1. Append(guides[at].taken, Eos) \notin Beginnings
          BY <3>1, TokensAssumption, ContainsAppend, BeginningsFacts
        <4>2. guides[at].taken \in Documents
          BY <3>1, <3>2, <4>1 DEF Takable
        <4>3. QED
          BY <3>1, <3>2, <4>2 DEF advance
      <3>3. CASE Token(at) # Eos
        <4>1. Append(guides[at].taken, Token(at)) \in Beginnings
          BY <3>1, <3>3 DEF Takable
        <4>2. QED
          BY <3>1, <3>3, <4>1 DEF advance
      <3>4. QED
        BY <3>2, <3>3
    <2>2. guides \in [Row -> [taken : Seq(Tokens), terminated : BOOLEAN]]
      BY <1>1 DEF TypeOK
    <2>3. \A r \in Row : guides'[r] = IF r = at /\ Takes(at) THEN advance(guides[at], Token(at))
                                     ELSE guides[r]
      BY <1>1, <2>2 DEF AdvanceRow
    <2>4. QED
      BY <1>1, <2>1, <2>3 DEF Taken
  <1>10. QED
    BY <1>6, <1>7, <1>8, <1>9 DEF GInv

LEMMA RefuseRowKeeps ==
  ASSUME GInv, RefuseRow
  PROVE  GInv'
  <1>1. /\ TypeOK /\ Phases /\ Taken /\ Written /\ call = "advancing" /\ at \in Row /\ call' = "refused"
        /\ UNCHANGED <<max_new_tokens, pad, foreign, probed, limited, at, generated,
                       guides, committed_length, matrix>>
    BY DEF GInv, RefuseRow, parameters
  <1>2. Behind(at) /\ ~guides[at].terminated
    BY <1>1, RowFacts DEF Phases, RefuseRow, Takes
  <1>3. Phases'
    BY <1>1, <1>2 DEF Phases, Behind
  <1>4. TypeOK' /\ Taken' /\ Written'
    BY <1>1 DEF TypeOK, Taken, Written, RowEnded, Shown, Untried, Ended
  <1>5. QED
    BY <1>3, <1>4 DEF GInv

LEMMA CommitKeeps ==
  ASSUME GInv, Commit
  PROVE  GInv'
  <1>1. /\ TypeOK /\ Phases /\ Taken /\ Written /\ call = "advancing" /\ at > Rows /\ call' = "filling"
        /\ at' = 1 /\ committed_length' = Len(generated[1])
        /\ UNCHANGED <<max_new_tokens, pad, foreign, probed, limited, generated, guides,
                       matrix>>
    BY DEF GInv, Commit, parameters, GeneratedLength
  <1>2. \A r \in Row : Len(generated[r]) = committed_length' /\ UpToDate(r)
    BY <1>1, RowFacts DEF Phases, TypeOK, Row
  <1>3. Phases'
    BY <1>1, <1>2, RowFacts DEF Phases, UpToDate
  <1>4. TypeOK' /\ Taken' /\ Written'
    BY <1>1, RowFacts DEF TypeOK, Taken, Written, RowEnded, Shown, Untried
  <1>5. QED
    BY <1>3, <1>4 DEF GInv

LEMMA FillRowKeeps ==
  ASSUME GInv, FillRow
  PROVE  GInv'
  <1>1. /\ TypeOK /\ Phases /\ Taken /\ Written /\ call = "filling" /\ at \in Row
        /\ matrix' = [matrix EXCEPT ![at] = RowMask(at)]
        /\ UNCHANGED <<max_new_tokens, pad, foreign, probed, limited, generated, guides,
                       committed_length>>
    BY DEF GInv, FillRow, parameters
  <1>2. UpToDate(at) /\ at \in Nat \ {0} /\ at <= Rows /\ Rows \in Nat
    BY <1>1, RowFacts DEF Phases, Row, TypeOK
  <1>3. RowMask(at) = MaskIn(probed, generated[at]) /\ (guides[at].terminated <=> RowEnded(at))
    BY <1>2, MaskOfGuide DEF UpToDate
  <1>4. \A r \in Row : matrix'[r] = IF r = at THEN MaskIn(probed, generated[at]) ELSE matrix[r]
    BY <1>1, <1>3 DEF TypeOK
  <1>5. matrix' \in [Row -> SUBSET Tokens]
    <2>1. MaskIn(probed, generated[at]) \subseteq Tokens
      BY <1>1, RowFacts, GuideTakes, TokensAssumption
    <2>2. QED
      BY <1>1, <1>3, <2>1 DEF TypeOK
  <1>6. \A r \in Row : UpToDate(r)' /\ Len(generated'[r]) = committed_length'
    BY <1>1 DEF Phases, UpToDate
  <1>7. \A r \in Row : r < at + 1 => matrix'[r] = MaskIn(probed', generated'[r])
    BY <1>1, <1>2, <1>4, RowFacts DEF Phases
  <1>8. CASE RowMask(at) = {}
    <2>1. call' = "no continuation" /\ at' = at
      BY <1>8 DEF FillRow
    <2>2. ~guides[at].terminated
      BY <1>8 DEF RowMask
    <2>3. Phases'
      BY <1>1, <1>6, <2>1, <2>2 DEF Phases
    <2>4. TypeOK' /\ Taken' /\ Written'
      BY <1>1, <1>5, <2>1 DEF TypeOK, Taken, Written, RowEnded, Shown, Untried, Ended
    <2>5. QED
      BY <2>3, <2>4 DEF GInv
  <1>9. CASE RowMask(at) # {}
    <2>1. call' = (IF at = Rows THEN "choosing" ELSE call) /\ at' = at + 1
      BY <1>9 DEF FillRow
    <2>2. CASE at = Rows
      <3>1. \A r \in Row : r < at + 1
        BY <1>2, <2>2 DEF Row
      <3>2. Phases'
        BY <1>6, <1>7, <2>1, <2>2, <3>1 DEF Phases
      <3>3. TypeOK' /\ Taken' /\ Written'
        BY <1>1, <1>2, <1>5, <2>1, <2>2 DEF TypeOK, Taken, Written, RowEnded, Shown, Untried
      <3>4. QED
        BY <3>2, <3>3 DEF GInv
    <2>3. CASE at # Rows
      <3>1. at' <= Rows /\ call' = "filling"
        BY <1>1, <1>2, <2>1, <2>3
      <3>2. Phases'
        BY <1>6, <1>7, <2>1, <3>1 DEF Phases
      <3>3. TypeOK' /\ Taken' /\ Written'
        BY <1>1, <1>2, <1>5, <2>1, <3>1 DEF TypeOK, Taken, Written, RowEnded, Shown, Untried
      <3>4. QED
        BY <3>2, <3>3 DEF GInv
    <2>4. QED
      BY <2>2, <2>3
  <1>10. QED
    BY <1>8, <1>9

LEMMA FailMaskKeeps ==
  ASSUME GInv, FailMask
  PROVE  GInv'
  <1>1. /\ TypeOK /\ Phases /\ Taken /\ Written /\ call = "filling" /\ at \in Row
        /\ ~guides[at].terminated /\ call' = "unmasked"
        /\ UNCHANGED <<max_new_tokens, pad, foreign, probed, limited, at, generated, guides,
                       committed_length, matrix>>
    BY DEF GInv, FailMask, parameters
  <1>2. UpToDate(at)
    BY <1>1 DEF Phases
  <1>3. Phases'
    BY <1>1, <1>2 DEF Phases, UpToDate
  <1>4. TypeOK' /\ Taken' /\ Written'
    BY <1>1 DEF TypeOK, Taken, Written, RowEnded, Shown, Untried, Ended
  <1>5. QED
    BY <1>3, <1>4 DEF GInv

\* A token that is chosen is one of the mask of its row, the padding of a row that
\* has ended, or anything at all when another processor has a say.
LEMMA ChooseKeeps ==
  ASSUME GInv, Choose
  PROVE  GInv'
  <1>1. /\ TypeOK /\ Phases /\ Taken /\ Written /\ call = "choosing"
        /\ call' \in {"called", "decoding"}
        /\ UNCHANGED <<max_new_tokens, pad, foreign, probed, limited, at, guides,
                       committed_length, matrix>>
    BY DEF GInv, Choose, parameters
  <1>2. PICK next \in [Row -> Tokens] :
          /\ \A r \in Row : next[r] \in Eligible(r)
          /\ generated' = [r \in Row |-> Append(generated[r], next[r])]
    BY DEF Choose
  <1>3. \A r \in Row : /\ generated[r] \in Seq(Tokens) /\ next[r] \in Tokens
                       /\ generated'[r] = Append(generated[r], next[r])
                       /\ Len(generated[r]) = committed_length /\ UpToDate(r)
                       /\ matrix[r] = MaskIn(probed, generated[r])
    BY <1>1, <1>2, RowFacts DEF Phases
  <1>4. generated' \in [Row -> Seq(Tokens)]
    BY <1>2, <1>3, AppendProperties
  <1>5. TypeOK'
    BY <1>1, <1>4 DEF TypeOK
  <1>6. ASSUME NEW r \in Row
        PROVE  Len(generated'[r]) = committed_length' + 1 /\ Behind(r)'
    <2>1. /\ Front(generated'[r]) = generated[r] /\ Last(generated'[r]) = next[r]
          /\ generated'[r] # <<>> /\ Len(generated'[r]) = Len(generated[r]) + 1
      <3>1. /\ generated[r] \in Seq(Tokens) /\ next[r] \in Tokens
            /\ generated'[r] = Append(generated[r], next[r])
        BY <1>3
      <3>2. Len(generated'[r]) = Len(generated[r]) + 1
        BY <3>1, AppendProperties
      <3>3. QED
        BY <3>1, <3>2, FrontAppend
    <2>2. Contains(generated[r], Eos) => next[r] = pad
      BY <1>2 DEF Eligible, RowEnded
    <2>3. ~Contains(generated[r], Eos) /\ ~foreign => next[r] \in matrix[r]
      BY <1>2 DEF Eligible, RowEnded
    <2>4. Behind(r)'
      BY <1>1, <1>3, <2>1, <2>2, <2>3 DEF Behind, UpToDate
    <2>5. QED
      BY <1>1, <1>3, <2>1, <2>4
  <1>7. Phases'
    BY <1>1, <1>6 DEF Phases
  <1>8. Written'
    <2> SUFFICES ASSUME ~foreign, NEW r \in Row
                 PROVE  /\ IF RowEnded(r)'
                           THEN \/ UpToEos(generated'[r]) \in Documents
                                \/ Untried(Append(UpToEos(generated'[r]), Eos))
                           ELSE generated'[r] = <<>> \/ Shown(generated'[r])
                        /\ call' \in {"decoding", "returned"} =>
                             /\ generated'[r] # <<>>
                             /\ RowEnded(r)' \/ Len(generated'[r]) = max_new_tokens
      BY <1>1 DEF Written, Shown, Untried
    <2>1. RowEnded(r)' <=> RowEnded(r) \/ next[r] = Eos
      <3>1. Contains(Append(generated[r], next[r]), Eos)
              <=> Contains(generated[r], Eos) \/ next[r] = Eos
        BY <1>3, ContainsAppend
      <3>2. QED
        BY <1>3, <3>1 DEF RowEnded
    <2>2. UpToEos(generated'[r]) =
            IF RowEnded(r) THEN UpToEos(generated[r])
            ELSE IF next[r] = Eos THEN generated[r] ELSE generated'[r]
      BY <1>3, UpToEosAppend DEF RowEnded
    <2>3. IF RowEnded(r)'
          THEN \/ UpToEos(generated'[r]) \in Documents
               \/ Untried(Append(UpToEos(generated'[r]), Eos))
          ELSE generated'[r] = <<>> \/ Shown(generated'[r])
      <3>1. CASE RowEnded(r)
        BY <1>1, <2>1, <2>2, <3>1 DEF Written
      <3>2. CASE ~RowEnded(r)
        <4>1. /\ next[r] \in MaskIn(probed, generated[r])
              /\ GuideOf(generated[r]).taken = generated[r]
          BY <1>2, <1>3, <3>2 DEF Eligible, RowEnded, GuideOf, UpToEos
        <4>2. \/ next[r] \in Takable(GuideOf(generated[r]))
              \/ ~probed /\ Append(generated[r], next[r]) \in Offered
          BY <3>2, <4>1 DEF MaskIn, RowEnded, candidates
        <4>3. generated[r] \in Beginnings
          BY <1>1, <1>3, <4>1 DEF Taken, UpToDate
        <4>4. Front(generated'[r]) = generated[r]
          <5>1. /\ generated[r] \in Seq(Tokens) /\ next[r] \in Tokens
                /\ generated'[r] = Append(generated[r], next[r])
            BY <1>3
          <5>2. QED
            BY <5>1, FrontAppend
        <4>5. CASE next[r] = Eos
          <5>1. Append(generated[r], Eos) \notin Beginnings
            <6>1. Contains(Append(generated[r], Eos), Eos)
              BY <1>3, <4>5, ContainsAppend
            <6>2. QED
              BY <6>1, BeginningsFacts
          <5>2. generated[r] \in Documents \/ Untried(Append(generated[r], Eos))
            BY <4>1, <4>2, <4>5, <5>1 DEF Takable, Untried
          <5>3. QED
            BY <2>1, <2>2, <3>2, <4>5, <5>2
        <4>6. CASE next[r] # Eos
          <5>1. generated'[r] \in Beginnings \/ Untried(generated'[r])
            BY <1>3, <4>1, <4>2, <4>6 DEF Takable, Untried
          <5>2. QED
            BY <2>1, <3>2, <4>3, <4>4, <4>6, <5>1 DEF Shown
        <4>7. QED
          BY <4>5, <4>6
      <3>3. QED
        BY <3>1, <3>2
    <2>4. generated'[r] # <<>>
      BY <1>3, FrontAppend
    <2>5. ASSUME call' = "decoding"
          PROVE  RowEnded(r)' \/ Len(generated'[r]) = max_new_tokens
      <3>1. \/ Len(generated[1]) + 1 = max_new_tokens
            \/ Contains(generated'[r], Eos)
        BY <2>5 DEF Choose, GeneratedLength
      <3>2. Len(generated'[r]) = Len(generated[1]) + 1
        BY <1>3, RowFacts, <1>1, AppendProperties
      <3>3. QED
        BY <3>1, <3>2 DEF RowEnded
    <2>6. QED
      BY <1>1, <2>3, <2>4, <2>5
  <1>9. Taken'
    BY <1>1 DEF Taken
  <1>10. QED
    BY <1>5, <1>7, <1>8, <1>9 DEF GInv

LEMMA DecodeKeeps ==
  ASSUME GInv, Decode
  PROVE  GInv'
  <1>1. /\ TypeOK /\ Phases /\ Taken /\ Written /\ call = "decoding"
        /\ call' \in {"returned", "incomplete"}
        /\ UNCHANGED <<max_new_tokens, pad, foreign, probed, limited, at, generated, guides,
                       committed_length, matrix>>
    BY DEF GInv, Decode, parameters
  <1>2. TypeOK' /\ Phases'
    BY <1>1 DEF TypeOK, Phases, Ended
  <1>3. Taken' /\ Written'
    BY <1>1 DEF Taken, Written, RowEnded, Shown, Untried
  <1>4. QED
    BY <1>2, <1>3 DEF GInv

LEMMA NextKeeps ==
  ASSUME GInv, [Next]_vars
  PROVE  GInv'
  <1>1. CASE UNCHANGED vars
    <2>1. TypeOK'
      BY <1>1 DEF GInv, TypeOK, vars, parameters
    <2>2. Phases'
      <3>1. Phases /\ UNCHANGED <<call, at, generated, guides, committed_length, matrix,
                                 pad, foreign, probed>>
        BY <1>1 DEF GInv, vars, parameters
      <3>2. \A r : (UpToDate(r)' <=> UpToDate(r)) /\ (Behind(r)' <=> Behind(r))
        BY <3>1 DEF UpToDate, Behind
      <3>3. QED
        BY <3>1, <3>2 DEF Phases
    <2>3. Taken' /\ Written'
      BY <1>1 DEF GInv, Taken, Written, vars, parameters, RowEnded, Shown, Untried
    <2>4. QED
      BY <2>1, <2>2, <2>3 DEF GInv
  <1>2. CASE Done
    BY <1>1, <1>2 DEF Done
  <1>3. QED
    BY <1>1, <1>2, CalledKeeps, AdvanceRowKeeps, RefuseRowKeeps, CommitKeeps, FillRowKeeps,
       FailMaskKeeps,  ChooseKeeps, DecodeKeeps DEF Next

(* In every reachable state the rows, the guides, the masks and the phase of *)
(* the call are as GInv has them.                                           *)
THEOREM RowsInvariant == Spec => []GInv
  BY InitialRows, NextKeeps, PTL DEF Spec

-------------------------------------------------------------------------------
(* What the invariant says of a call.                                      *)

(* Whatever the rows and the documents, when the rows choose their tokens    *)
(* every guide has taken the tokens of its own row up to its end, and every  *)
(* mask is that of its own text: _BatchMaskProcessor keeps them in step.     *)
THEOREM GuidesFollowRows == Spec => []RowsInStep
  <1>1. ASSUME GInv
        PROVE  RowsInStep
    <2> SUFFICES ASSUME call = "choosing", NEW r \in Row
                 PROVE  LET text == UpToEos(generated[r])
                        IN  /\ committed_length = Len(generated[r])
                            /\ guides[r] = [taken |-> text, terminated |-> RowEnded(r)]
                            /\ matrix[r] = IF RowEnded(r) THEN {Eos}
                                 ELSE { t \in Tokens : \/ Append(text, t) \in Beginnings
                                                       \/ t = Eos /\ text \in Documents
                                                       \/ ~probed /\ Append(text, t) \in Offered }
      BY DEF RowsInStep
    <2>1. /\ Len(generated[r]) = committed_length /\ guides[r] = GuideOf(generated[r])
          /\ matrix[r] = MaskIn(probed, generated[r])
      BY <1>1 DEF GInv, Phases, UpToDate
    <2>2. GuideOf(generated[r]).taken = UpToEos(generated[r]) /\ Eos \in Tokens
      BY TokensAssumption DEF GuideOf
    <2>3. QED
      BY <2>1, <2>2 DEF GuideOf, MaskIn, RowEnded, Takable, candidates
  <1>2. QED
    BY <1>1, RowsInvariant, PTL

(* Whatever makes a guide raise, a row that has ended never fails the call    *)
(* of the others: advance raises over a row that had not ended before the     *)
(* token, fill_mask over one that has not ended at all.                      *)
THEOREM OnlyLivingRowsFail == Spec => []EndedRowsNeverFail
  <1>1. ASSUME GInv
        PROVE  EndedRowsNeverFail
    <2>1. call # "unsupported"
      BY <1>1 DEF GInv, Phases
    <2>2. ASSUME call = "refused"
          PROVE  ~guides[at].terminated /\ ~Contains(Front(generated[at]), Eos)
      <3>1. at \in Row /\ Behind(at) /\ ~guides[at].terminated
        BY <1>1, <2>2 DEF GInv, Phases
      <3>2. guides[at] = GuideOf(Front(generated[at]))
        BY <3>1 DEF Behind
      <3>3. QED
        BY <3>1, <3>2 DEF GuideOf
    <2>3. ASSUME call \in {"unmasked", "no continuation"}
          PROVE  ~guides[at].terminated /\ ~RowEnded(at)
      <3>1. at \in Row /\ guides[at] = GuideOf(generated[at]) /\ ~guides[at].terminated
        BY <1>1, <2>3 DEF GInv, Phases, UpToDate
      <3>2. QED
        BY <3>1 DEF GuideOf, RowEnded
    <2>4. QED
      BY <2>1, <2>2, <2>3 DEF EndedRowsNeverFail
  <1>2. QED
    BY <1>1, RowsInvariant, PTL

\* A text whose last token is no padding is left as it is.
LEMMA UnpaddedText ==
  ASSUME NEW d \in Seq(Tokens), d # <<>>, Last(d) # pad
  PROVE  Unpadded(d) = d
  <1> DEFINE I == {0} \union {i \in DOMAIN d : d[i] # pad}
  <1>1. Len(d) \in Nat \ {0} /\ DOMAIN d = 1..Len(d)
    BY EmptySeq, LenProperties
  <1>2. Len(d) \in I /\ \A i \in I : i \in Nat /\ i <= Len(d)
    BY <1>1 DEF Last
  <1>3. Max(I) = Len(d)
    <2> HIDE DEF I
    <2>1. \A m \in I : (\A i \in I : m >= i) => m = Len(d)
      BY <1>1, <1>2
    <2>2. \A i \in I : Len(d) >= i
      BY <1>1, <1>2
    <2>3. QED
      BY <1>2, <2>1, <2>2 DEF Max
  <1>4. QED
    BY <1>3, TruncateAll DEF Unpadded, Truncate

\* Whatever is unpadded is a beginning of the text.
LEMMA UnpaddedBegins ==
  ASSUME NEW ids \in Seq(Tokens)
  PROVE  \E n \in 0..Len(ids) : Unpadded(ids) = Truncate(ids, n)
  <1> DEFINE I == {0} \union {i \in DOMAIN ids : ids[i] # pad}
  <1>1. Len(ids) \in Nat /\ DOMAIN ids = 1..Len(ids)
    BY LenProperties
  <1>2. /\ 0 \in I /\ I \subseteq 0..Len(ids)
    BY <1>1
  <1>3. PICK n \in I : \A i \in I : i <= n
    <2> DEFINE Above == {n \in Nat : \A i \in I : i <= n}
    <2> HIDE DEF I
    <2>1. Above \in SUBSET Nat /\ Above # {}
      BY <1>1, <1>2
    <2>2. PICK n \in Above : \A m \in Above : n <= m
      BY <2>1, LeastNatural
    <2>3. CASE n \in I
      BY <2>2, <2>3
    <2>4. CASE n \notin I
      <3>1. \A i \in I : i \in Nat /\ i < n
        BY <1>2, <2>2, <2>4
      <3>2. n \in Nat /\ n # 0 /\ n - 1 \in Nat
        BY <1>2, <2>2, <3>1
      <3>3. n - 1 \in Above
        BY <3>1, <3>2
      <3>4. QED
        BY <2>2, <3>2, <3>3
    <2>5. QED
      BY <2>3, <2>4
  <1>4. Max(I) = n
    <2> HIDE DEF I
    <2>1. \A m \in I : (\A i \in I : m >= i) => m = n
      BY <1>1, <1>2, <1>3
    <2>2. \A i \in I : n >= i
      BY <1>1, <1>2, <1>3
    <2>3. QED
      BY <1>3, <2>1, <2>2 DEF Max
  <1>5. QED
    BY <1>2, <1>3, <1>4 DEF Unpadded, Truncate

(* What a call returns for a row that ended is a document, whole, and for a  *)
(* row cut short the beginning of one, whichever padding token follows; only *)
(* the last token of a row may be one no guide has tried, and only where the *)
(* masks are not probed.                                                    *)
THEOREM ReturnsDocuments == Spec => []ReturnedRowsAreDocuments
  <1>1. ASSUME GInv
        PROVE  ReturnedRowsAreDocuments
    <2> SUFFICES ASSUME call = "returned", ~foreign, NEW r \in Row
                 PROVE  IF RowEnded(r)
                        THEN Text(r) \in Documents \/ Untried(Append(Text(r), Eos))
                        ELSE /\ Len(generated[r]) = max_new_tokens
                             /\ Text(r) \in Beginnings \/ Untried(Text(r))
      BY DEF ReturnedRowsAreDocuments
    <2>1. /\ generated[r] \in Seq(Tokens) /\ generated[r] # <<>>
          /\ RowEnded(r) \/ Len(generated[r]) = max_new_tokens
          /\ IF RowEnded(r)
             THEN \/ UpToEos(generated[r]) \in Documents
                  \/ Untried(Append(UpToEos(generated[r]), Eos))
             ELSE Shown(generated[r])
      BY <1>1, RowFacts DEF GInv, Written
    <2>2. CASE RowEnded(r)
      <3> DEFINE d == UpToEos(generated[r])
      <3>1. d \in Seq(Tokens)
        BY <2>1, UpToEosType
      <3>2. CASE d \in Documents
        <4>1. d # <<>> /\ Last(d) # pad
          BY <1>1, <3>2, PadEndsNothing DEF GInv, TypeOK
        <4> HIDE DEF d
        <4>2. Unpadded(d) = d
          BY <3>1, <4>1, UnpaddedText
        <4>3. QED
          BY <2>2, <3>2, <4>2 DEF Text, d
      <3>3. CASE Untried(Append(d, Eos))
        <4> HIDE DEF d
        <4>1. Front(Append(d, Eos)) = d /\ Last(Append(d, Eos)) = Eos
          BY <3>1, TokensAssumption, FrontAppend
        <4>2. d # <<>> /\ Last(d) # pad
          BY <1>1, <3>3, <4>1, OfferedAssumption DEF Untried, GInv, TypeOK
        <4>3. Unpadded(d) = d
          BY <3>1, <4>2, UnpaddedText
        <4>4. QED
          BY <2>2, <3>3, <4>3 DEF Text, d
      <3>4. QED
        BY <2>1, <2>2, <3>2, <3>3
    <2>3. CASE ~RowEnded(r)
      <3>1. UpToEos(generated[r]) = generated[r]
        BY <2>3 DEF RowEnded, UpToEos
      <3>2. PICK n \in 0..Len(generated[r]) : Text(r) = Truncate(generated[r], n)
        BY <2>1, <3>1, UnpaddedBegins DEF Text
      <3>3. CASE generated[r] \in Beginnings
        BY <2>1, <2>3, <3>2, <3>3, BeginningsFacts
      <3>4. CASE Front(generated[r]) \in Beginnings /\ Untried(generated[r])
        <4> DEFINE before == Front(generated[r])
        <4>1. /\ before \in Seq(Tokens) /\ Last(generated[r]) \in Tokens
              /\ generated[r] = Append(before, Last(generated[r]))
          BY <2>1, AppendFront
        <4>2. before \in Beginnings
          BY <3>4
        <4> HIDE DEF before
        <4>3. Len(generated[r]) = Len(before) + 1 /\ Len(before) \in Nat
          BY <4>1, AppendProperties, LenProperties
        <4>4. CASE n = Len(generated[r])
          BY <2>1, <2>3, <3>2, <3>4, <4>4, TruncateAll
        <4>5. CASE n # Len(generated[r])
          <5>1. n \in 0..Len(before)
            BY <4>3, <4>5
          <5>2. Truncate(generated[r], n) = Truncate(before, n)
            <6>1. Truncate(Append(before, Last(generated[r])), n) = Truncate(before, n)
              BY <4>1, <5>1, TruncateAppend
            <6>2. QED
              BY <4>1, <6>1
          <5>3. QED
            BY <2>1, <2>3, <3>2, <4>2, <5>1, <5>2, BeginningsFacts
        <4>6. QED
          BY <4>4, <4>5
      <3>5. QED
        BY <2>1, <2>3, <3>3, <3>4 DEF Shown
    <2>4. QED
      BY <2>2, <2>3
  <1>2. QED
    BY <1>1, RowsInvariant, PTL

===============================================================================
