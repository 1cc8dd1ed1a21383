--------------------------- MODULE LegacyGuideProofs ---------------------------
(***************************************************************************)
(* The worklist of Index::new is exact, a guide on the index it built never *)
(* leaves the states of that index, and masks show what it allows: proved   *)
(* for every pattern, every vocabulary, every value of max_rollback and     *)
(* every width.  Of the automaton nothing is used but that a token leads    *)
(* from a state to one state.                                              *)
(***************************************************************************)
EXTENDS TokenTable, SequenceLemmas, FiniteSetTheorems, TLAPS

\* Popping a worklist without repetitions takes its last state out of it.
LEMMA PopFacts ==
  ASSUME NEW S, NEW s \in Seq(S), s # <<>>, IsInjective(s)
  PROVE  /\ Front(s) \in Seq(S) /\ IsInjective(Front(s))
         /\ ToSet(Front(s)) = ToSet(s) \ {Last(s)}
         /\ Last(s) \in ToSet(s)
  <1>1. Len(s) \in Nat \ {0} /\ DOMAIN s = 1..Len(s)
    BY EmptySeq, LenProperties
  <1>2. \A i \in 1..Len(s) : s[i] \in S
    BY ElementOfSeq
  <1>3. /\ Front(s) \in Seq(S) /\ Len(Front(s)) = Len(s) - 1
        /\ \A i \in 1..(Len(s) - 1) : Front(s)[i] = s[i]
    BY <1>1, <1>2, SubSeqProperties DEF Front
  <1>4. DOMAIN Front(s) = 1..(Len(s) - 1)
    BY <1>3, LenProperties
  <1>5. IsInjective(Front(s))
    BY <1>1, <1>3, <1>4 DEF IsInjective
  <1>6. Last(s) \in ToSet(s)
    BY <1>1 DEF Last, ToSet
  <1>7. ToSet(Front(s)) = ToSet(s) \ {Last(s)}
    <2>1. ASSUME NEW x \in ToSet(Front(s)) PROVE x \in ToSet(s) \ {Last(s)}
      <3>1. PICK i \in 1..(Len(s) - 1) : x = s[i]
        BY <1>3, <1>4 DEF ToSet
      <3>2. Len(s) \in Nat /\ i \in Nat /\ 1 <= i /\ i <= Len(s) - 1
        BY <1>1
      <3>3. i \in 1..Len(s) /\ Len(s) \in 1..Len(s) /\ i # Len(s)
        BY <3>2
      <3> QED
        BY <1>1, <3>1, <3>3 DEF ToSet, Last, IsInjective
    <2>2. ASSUME NEW x \in ToSet(s) \ {Last(s)} PROVE x \in ToSet(Front(s))
      <3>1. PICK i \in 1..Len(s) : x = s[i]
        BY <1>1 DEF ToSet
      <3>2. i \in 1..(Len(s) - 1)
        BY <1>1, <3>1 DEF Last
      <3> QED
        BY <1>3, <1>4, <3>1, <3>2 DEF ToSet
    <2> QED
      BY <2>1, <2>2
  <1> QED
    BY <1>3, <1>5, <1>6, <1>7

\* Pushing states not in the worklist keeps it free of repetitions.
LEMMA PushFacts ==
  ASSUME NEW S, NEW s \in Seq(S), NEW t \in Seq(S),
         IsInjective(s), IsInjective(t), ToSet(s) \cap ToSet(t) = {}
  PROVE  /\ s \o t \in Seq(S) /\ IsInjective(s \o t)
         /\ ToSet(s \o t) = ToSet(s) \union ToSet(t)
  <1>1. /\ Len(s) \in Nat /\ DOMAIN s = 1..Len(s)
        /\ Len(t) \in Nat /\ DOMAIN t = 1..Len(t)
    BY LenProperties
  <1>2. /\ s \o t \in Seq(S) /\ Len(s \o t) = Len(s) + Len(t)
        /\ \A i \in 1..(Len(s) + Len(t)) :
              (s \o t)[i] = IF i <= Len(s) THEN s[i] ELSE t[i - Len(s)]
    BY ConcatProperties
  <1>3. DOMAIN (s \o t) = 1..(Len(s) + Len(t))
    BY <1>2, LenProperties
  <1> DEFINE u == s \o t
  <1>4. ASSUME NEW i \in DOMAIN u
        PROVE  \/ i \in DOMAIN s /\ u[i] = s[i] /\ u[i] \in ToSet(s)
               \/ /\ i - Len(s) \in DOMAIN t /\ u[i] = t[i - Len(s)] /\ u[i] \in ToSet(t)
                  /\ i > Len(s)
    <2>1. CASE i <= Len(s)
      BY <1>1, <1>2, <1>3, <2>1 DEF ToSet
    <2>2. CASE i > Len(s)
      BY <1>1, <1>2, <1>3, <2>2 DEF ToSet
    <2> QED
      BY <1>1, <1>3, <2>1, <2>2
  <1>5. ToSet(u) \subseteq ToSet(s) \union ToSet(t)
    BY <1>4 DEF ToSet
  <1>6. ASSUME NEW x \in ToSet(s) PROVE x \in ToSet(u)
    <2>1. PICK i \in DOMAIN s : x = s[i]
      BY DEF ToSet
    <2>2. i \in DOMAIN u /\ u[i] = s[i]
      BY <1>1, <1>2, <1>3
    <2> QED
      BY <2>1, <2>2 DEF ToSet
  <1>7. ASSUME NEW x \in ToSet(t) PROVE x \in ToSet(u)
    <2>1. PICK i \in DOMAIN t : x = t[i]
      BY DEF ToSet
    <2>2. i + Len(s) \in DOMAIN u /\ u[i + Len(s)] = t[i]
      BY <1>1, <1>2, <1>3
    <2> QED
      BY <2>1, <2>2 DEF ToSet
  <1>8. ASSUME NEW i \in DOMAIN u, NEW j \in DOMAIN u, u[i] = u[j] PROVE i = j
    <2>1. CASE i \in DOMAIN s /\ j \in DOMAIN s /\ u[i] = s[i] /\ u[j] = s[j]
      BY <1>8, <2>1 DEF IsInjective
    <2>2. CASE /\ i - Len(s) \in DOMAIN t /\ u[i] = t[i - Len(s)]
               /\ j - Len(s) \in DOMAIN t /\ u[j] = t[j - Len(s)]
      <3>1. i - Len(s) = j - Len(s)
        BY <1>8, <2>2 DEF IsInjective
      <3> QED
        BY <3>1, <1>1, <1>3
    <2> QED
      BY <1>4, <1>8, <2>1, <2>2
  <1> HIDE DEF u
  <1>9. IsInjective(u)
    BY <1>8 DEF IsInjective
  <1> QED
    BY <1>2, <1>5, <1>6, <1>7, <1>9 DEF u

\* A set pushed in any order is pushed whole, each of its elements once.
LEMMA OrderFacts ==
  ASSUME NEW S, IsFiniteSet(S), NEW p \in SetToSeqs(S)
  PROVE  p \in Seq(S) /\ IsInjective(p) /\ ToSet(p) = S
  <1> DEFINE n == Cardinality(S)
  <1>1. n \in Nat
    BY FS_CardinalityType
  <1>2. p \in [1..n -> S] /\ \A i, j \in 1..n : i # j => p[i] # p[j]
    BY DEF SetToSeqs
  <1>3. DOMAIN p = 1..n
    BY <1>2
  <1>4. IsInjective(p)
    BY <1>2, <1>3 DEF IsInjective
  <1>5. p \in Seq(S)
    BY <1>1, <1>2, SeqDef
  <1>6. IsFiniteSet(1..n) /\ Cardinality(1..n) = n
    BY <1>1, FS_Interval
  <1>7. p \in Injection(1..n, S)
    BY <1>2, <1>4 DEF Injection
  <1>8. p \in Surjection(1..n, S)
    BY <1>6, <1>7, FS_Injection
  <1>9. ToSet(p) = S
    BY <1>2, <1>3, <1>8 DEF Surjection, ToSet
  <1> QED
    BY <1>4, <1>5, <1>9

-------------------------------------------------------------------------------
(* The inductive invariant.                                                 *)

Indexing == phase \in {"building", "built"}

BuildInv ==
    /\ phase \in {"vocabulary", "building", "built", "refused"}
    /\ IsFiniteSet(DOMAIN vocabulary)
    /\ Indexing =>
          /\ next_states \in Seq(seen) /\ IsInjective(next_states)
          /\ ToSet(next_states) = seen \ DOMAIN transitions
          /\ DOMAIN transitions \subseteq seen
          /\ initial_state \in seen
          /\ \A s \in DOMAIN transitions : Range(transitions[s]) \subseteq seen
    /\ phase = "built" => next_states = <<>>

GuideInv ==
    HasGuide =>
        /\ phase = "built"
        /\ guide \in [held : {TRUE}, state : DOMAIN transitions,
                      state_cache : Seq(DOMAIN transitions), capacity : Nat]
        /\ Len(guide.state_cache) <= guide.capacity

LEMMA EmptyFacts == <<>> \in Seq({}) /\ IsInjective(<<>>) /\ ToSet(<<>>) = {} /\ DOMAIN <<>> = {}
  <1>1. <<>> \in Seq({}) /\ Len(<<>>) = 0
    BY EmptySeq
  <1>2. DOMAIN <<>> = {}
    BY <1>1, LenProperties
  <1> QED
    BY <1>1, <1>2 DEF IsInjective, ToSet

\* A vocabulary never gets infinitely many tokens.
LEMMA VocabularyFinite ==
  ASSUME IsFiniteSet(DOMAIN vocabulary), IndexNext
  PROVE  IsFiniteSet(DOMAIN vocabulary')
  <1>1. CASE \E entry \in Entries : TryInsert(entry)
    BY <1>1, FS_AddElement DEF TryInsert, try_insert
  <1>2. CASE \E token \in DOMAIN vocabulary : RemoveToken(token)
    <2>1. PICK token \in DOMAIN vocabulary : RemoveToken(token)
      BY <1>2
    <2>2. DOMAIN vocabulary' = DOMAIN vocabulary \ {token}
      BY <2>1 DEF RemoveToken
    <2> QED
      BY <2>2, FS_RemoveElement
  <1>3. CASE (\E p \in Patterns : NewIndex(p)) \/ Build
    BY <1>3 DEF NewIndex, Build, Expand, Refuse, Built
  <1> QED
    BY <1>1, <1>2, <1>3 DEF IndexNext

\* Where the tokens lead from a state, and what a row of the index holds.
LEMMA RowFacts ==
  ASSUME NEW s, IsFiniteSet(DOMAIN vocabulary)
  PROVE  /\ IsFiniteSet(Targets(s))
         /\ \A row \in Rows(s) : Range(row) \subseteq Targets(s)
  <1> DEFINE leads == Leads(s)
  <1>1. DOMAIN leads \subseteq DOMAIN vocabulary
    BY DEF Leads
  <1>2. IsFiniteSet(DOMAIN leads)
    BY <1>1, FS_Subset
  <1>3. leads \in [DOMAIN leads -> Range(leads)]
    BY DEF Leads, Range
  <1>4. leads \in Surjection(DOMAIN leads, Range(leads))
    BY <1>3 DEF Surjection, Range
  <1>5. IsFiniteSet(Targets(s))
    <2> HIDE DEF leads
    <2>1. IsFiniteSet(Range(leads))
      BY <1>2, <1>4, FS_Surjection
    <2> QED
      BY <2>1 DEF Targets, leads
  <1>6. ASSUME NEW row \in Rows(s) PROVE Range(row) \subseteq Targets(s)
    <2>1. \E ids : row \in [ids -> Range(leads)]
      BY DEF Rows, leads
    <2> QED
      BY <2>1 DEF Targets, Range, leads
  <1> QED
    BY <1>5, <1>6

-------------------------------------------------------------------------------
(* The initial state and the steps of the build.                            *)

LEMMA InitInv == Init => BuildInv /\ GuideInv
  <1> SUFFICES ASSUME Init PROVE BuildInv /\ GuideInv
    OBVIOUS
  <1>1. phase = "vocabulary" /\ ~guide.held /\ IsFiniteSet(DOMAIN vocabulary)
    BY FiniteMaps DEF Init, IndexInit, NoGuide
  <1> QED
    BY <1>1 DEF BuildInv, GuideInv, HasGuide, Indexing

LEMMA NewIndexInv ==
  ASSUME NEW p \in Patterns, NewIndex(p)
  PROVE  /\ next_states' \in Seq(seen') /\ IsInjective(next_states')
         /\ ToSet(next_states') = seen' \ DOMAIN transitions'
         /\ DOMAIN transitions' = {}
         /\ initial_state' \in seen'
  <1> DEFINE s0 == start_state(p)
  <1>1. seen' = {s0} /\ next_states' = <<s0>> /\ transitions' = <<>> /\ initial_state' = s0
    BY DEF NewIndex, initial_state
  <1> HIDE DEF s0
  <1>2. <<s0>> \in Seq({s0}) /\ IsInjective(<<s0>>) /\ ToSet(<<s0>>) = {s0}
    BY DEF IsInjective, ToSet
  <1> QED
    BY <1>1, <1>2, EmptyFacts

LEMMA ExpandInv ==
  ASSUME BuildInv, Expand
  PROVE  /\ next_states' \in Seq(seen') /\ IsInjective(next_states')
         /\ ToSet(next_states') = seen' \ DOMAIN transitions'
         /\ DOMAIN transitions' \subseteq seen'
         /\ initial_state' \in seen'
         /\ \A s \in DOMAIN transitions' : Range(transitions'[s]) \subseteq seen'
  <1> DEFINE new == Targets(Current) \ seen
  <1>1. /\ next_states \in Seq(seen) /\ IsInjective(next_states) /\ next_states # <<>>
        /\ ToSet(next_states) = seen \ DOMAIN transitions
        /\ DOMAIN transitions \subseteq seen
        /\ initial_state \in seen
        /\ \A s \in DOMAIN transitions : Range(transitions[s]) \subseteq seen
    BY DEF BuildInv, Indexing, Expand
  <1>2. /\ IsFiniteSet(Targets(Current))
        /\ \A row \in Rows(Current) : Range(row) \subseteq Targets(Current)
    BY RowFacts DEF BuildInv
  <1>3. PICK row \in Rows(Current) : transitions' = WithEntry(transitions, Current, row)
    BY DEF Expand
  <1>4. PICK pushed \in SetToSeqs(new) : next_states' = Front(next_states) \o pushed
    BY DEF Expand
  <1>5. seen' = seen \union Targets(Current) /\ initial_state' = initial_state
    BY DEF Expand, initial_state
  <1>6. /\ Front(next_states) \in Seq(seen) /\ IsInjective(Front(next_states))
        /\ ToSet(Front(next_states)) = (seen \ DOMAIN transitions) \ {Current}
        /\ Current \in seen \ DOMAIN transitions
    BY <1>1, PopFacts DEF Current
  <1>7. pushed \in Seq(new) /\ IsInjective(pushed) /\ ToSet(pushed) = new
    <2>1. IsFiniteSet(new)
      BY <1>2, FS_Subset
    <2> QED
      BY <2>1, <1>4, OrderFacts
  <1> HIDE DEF new
  <1>8. /\ Front(next_states) \o pushed \in Seq(seen') /\ IsInjective(Front(next_states) \o pushed)
        /\ ToSet(Front(next_states) \o pushed) = ToSet(Front(next_states)) \union new
    <2>1. Front(next_states) \in Seq(seen') /\ pushed \in Seq(seen')
      <3>1. seen \subseteq seen' /\ new \subseteq seen'
        BY <1>5 DEF new
      <3> QED
        BY <3>1, <1>6, <1>7, SeqMonotonic
    <2>2. ToSet(Front(next_states)) \cap ToSet(pushed) = {}
      BY <1>6, <1>7 DEF new
    <2> QED
      BY <2>1, <2>2, <1>6, <1>7, PushFacts
  <1>9. DOMAIN transitions' = DOMAIN transitions \union {Current}
    BY <1>3 DEF WithEntry
  <1>10. ToSet(next_states') = seen' \ DOMAIN transitions'
    BY <1>1, <1>4, <1>5, <1>6, <1>8, <1>9 DEF new
  <1>11. ASSUME NEW s \in DOMAIN transitions' PROVE Range(transitions'[s]) \subseteq seen'
    <2>1. CASE s = Current
      BY <2>1, <1>2, <1>3, <1>5, <1>9 DEF WithEntry
    <2>2. CASE s # Current
      BY <2>2, <1>1, <1>3, <1>5, <1>9 DEF WithEntry
    <2> QED
      BY <2>1, <2>2
  <1> QED
    BY <1>1, <1>4, <1>5, <1>6, <1>8, <1>9, <1>10, <1>11

LEMMA BuiltInv ==
  ASSUME BuildInv, Built
  PROVE  /\ next_states' \in Seq(seen') /\ IsInjective(next_states') /\ next_states' = <<>>
         /\ ToSet(next_states') = seen' \ DOMAIN transitions'
         /\ DOMAIN transitions' \subseteq seen'
         /\ initial_state' \in seen'
         /\ \A s \in DOMAIN transitions' : Range(transitions'[s]) \subseteq seen'
  <1>1. /\ next_states \in Seq(seen) /\ IsInjective(next_states) /\ next_states = <<>>
        /\ ToSet(next_states) = seen \ DOMAIN transitions
        /\ DOMAIN transitions \subseteq seen
        /\ initial_state \in seen
        /\ \A s \in DOMAIN transitions : Range(transitions[s]) \subseteq seen
    BY DEF BuildInv, Indexing, Built
  <1>2. /\ next_states' = next_states /\ seen' = seen /\ initial_state' = initial_state
        /\ transitions' = [s \in DOMAIN transitions |-> WithEos(transitions[s], s)]
    BY DEF Built, initial_state
  <1>3. ASSUME NEW s \in DOMAIN transitions PROVE Range(transitions'[s]) \subseteq seen
    <2>1. CASE s \in final_states
      BY <2>1, <1>1, <1>2 DEF WithEos, WithEntry, Range
    <2>2. CASE s \notin final_states
      BY <2>2, <1>1, <1>2 DEF WithEos
    <2> QED
      BY <2>1, <2>2
  <1> QED
    BY <1>1, <1>2, <1>3

LEMMA PrepareInv ==
  ASSUME BuildInv, GuideInv, Prepare
  PROVE  BuildInv' /\ GuideInv'
  <1>1. IsFiniteSet(DOMAIN vocabulary')
    BY VocabularyFinite DEF BuildInv, Prepare
  <1>2. guide' = guide
    BY DEF Prepare, guideVars
  <1>3. phase # "built" => ~HasGuide'
    BY <1>2 DEF GuideInv, HasGuide
  <1>4. CASE (\E entry \in Entries : TryInsert(entry)) \/ (\E token \in DOMAIN vocabulary : RemoveToken(token))
    <2>1. phase' = "vocabulary" /\ phase # "built"
      BY <1>4 DEF TryInsert, RemoveToken, Idle
    <2> QED
      BY <2>1, <1>1, <1>3 DEF BuildInv, GuideInv, Indexing
  <1>5. CASE \E p \in Patterns : NewIndex(p)
    <2>1. phase' = "building" /\ phase # "built"
      BY <1>5 DEF NewIndex, Idle
    <2> QED
      BY <2>1, <1>1, <1>3, <1>5, NewIndexInv DEF BuildInv, GuideInv, Indexing
  <1>6. CASE Expand
    <2>1. phase' = "building" /\ phase # "built"
      BY <1>6 DEF Expand
    <2> QED
      BY <2>1, <1>1, <1>3, <1>6, ExpandInv DEF BuildInv, GuideInv, Indexing
  <1>7. CASE Refuse
    <2>1. phase' = "refused" /\ phase # "built"
      BY <1>7 DEF Refuse
    <2> QED
      BY <2>1, <1>1, <1>3 DEF BuildInv, GuideInv, Indexing
  <1>8. CASE Built
    <2>1. phase' = "built" /\ phase # "built"
      BY <1>8 DEF Built
    <2> QED
      BY <2>1, <1>1, <1>3, <1>8, BuiltInv DEF BuildInv, GuideInv, Indexing
  <1> QED
    BY <1>4, <1>5, <1>6, <1>7, <1>8 DEF Prepare, IndexNext, Build

-------------------------------------------------------------------------------
(* The steps of a guide, none of which touches the index.                   *)

LEMMA IndexKept ==
  ASSUME BuildInv, UNCHANGED indexVars
  PROVE  BuildInv'
  BY DEF BuildInv, indexVars, index, Indexing, initial_state

\* In an index built, a token leads from a state it has to a state it has.
LEMMA Closed ==
  ASSUME BuildInv, phase = "built"
  PROVE  /\ initial_state \in DOMAIN transitions
         /\ \A s \in DOMAIN transitions : Range(transitions[s]) \subseteq DOMAIN transitions
  <1>1. seen \ DOMAIN transitions = {}
    BY EmptyFacts DEF BuildInv, Indexing
  <1> QED
    BY <1>1 DEF BuildInv, Indexing

\* Room is made by dropping at most the oldest state.
LEMMA CachedFacts ==
  ASSUME NEW S, NEW g \in [held : {TRUE}, state : S, state_cache : Seq(S), capacity : Nat],
         Len(g.state_cache) <= g.capacity
  PROVE  /\ Cached(g) \in [held : {TRUE}, state : S, state_cache : Seq(S), capacity : Nat]
         /\ Len(Cached(g).state_cache) <= Cached(g).capacity
  <1> DEFINE cache == g.state_cache
  <1>1. cache \in Seq(S) /\ Len(cache) \in Nat /\ g.state \in S /\ g.capacity \in Nat
    BY LenProperties
  <1>2. Room(g) \in Seq(S) /\ Len(Room(g)) \in Nat
    <2>1. CASE Full(g) /\ cache # <<>>
      BY <1>1, <2>1, HeadTailProperties DEF Room
    <2>2. CASE ~(Full(g) /\ cache # <<>>)
      BY <1>1, <2>2 DEF Room
    <2> QED
      BY <2>1, <2>2
  <1>3. /\ Append(Room(g), g.state) \in Seq(S)
        /\ Len(Append(Room(g), g.state)) = Len(Room(g)) + 1
    BY <1>1, <1>2, AppendProperties
  <1>4. g.capacity # 0 => Len(Room(g)) < g.capacity
    <2>1. CASE Full(g) /\ cache # <<>>
      BY <1>1, <2>1, HeadTailProperties DEF Room, Full
    <2>2. CASE ~(Full(g) /\ cache # <<>>)
      <3>1. Room(g) = cache
        BY <2>2 DEF Room
      <3>2. CASE ~Full(g)
        BY <1>1, <3>1, <3>2 DEF Full
      <3>3. CASE cache = <<>>
        BY <1>1, <3>1, <3>3, EmptySeq
      <3> QED
        BY <2>2, <3>2, <3>3
    <2> QED
      BY <2>1, <2>2
  <1>5. g.capacity = 0 => Len(Room(g)) = 0
    <2>1. ASSUME g.capacity = 0 PROVE cache = <<>>
      BY <2>1, <1>1, EmptySeq
    <2> QED
      BY <2>1, EmptySeq DEF Room
  <1> DEFINE newest == Append(Room(g), g.state)
             grown == IF g.capacity = 0 THEN MinCapacity ELSE g.capacity
  <1>6. /\ Cached(g) = [g EXCEPT !.state_cache = newest, !.capacity = grown]
        /\ newest \in Seq(S) /\ grown \in Nat
    BY <1>1, <1>3 DEF Cached, MinCapacity
  <1>7. Len(newest) <= grown
    BY <1>1, <1>2, <1>3, <1>4, <1>5 DEF MinCapacity
  <1> HIDE DEF newest, grown
  <1>8. /\ Cached(g) \in [held : {TRUE}, state : S, state_cache : Seq(S), capacity : Nat]
        /\ Cached(g).state_cache = newest /\ Cached(g).capacity = grown
    BY <1>6
  <1> QED
    BY <1>7, <1>8

LEMMA NewGuideInv ==
  ASSUME BuildInv, NEW n \in Rollbacks, NewGuide(n)
  PROVE  BuildInv' /\ GuideInv'
  <1>1. phase = "built" /\ UNCHANGED indexVars
    BY DEF NewGuide
  <1>2. initial_state \in DOMAIN transitions /\ n \in Nat
    BY <1>1, Closed, RollbacksNat
  <1>3. guide' = [held |-> TRUE, state |-> initial_state, state_cache |-> <<>>, capacity |-> n]
    BY DEF NewGuide
  <1>4. /\ guide' \in [held : {TRUE}, state : DOMAIN transitions,
                       state_cache : Seq(DOMAIN transitions), capacity : Nat]
        /\ Len(guide'.state_cache) <= guide'.capacity
    BY <1>2, <1>3, EmptySeq
  <1> QED
    BY <1>1, <1>4, IndexKept DEF GuideInv, indexVars, index

\* What the steps of a guide have in common.
LEMMA GuideStep ==
  ASSUME BuildInv, UNCHANGED indexVars, phase = "built",
         guide' \in [held : {TRUE}, state : DOMAIN transitions,
                    state_cache : Seq(DOMAIN transitions), capacity : Nat],
         Len(guide'.state_cache) <= guide'.capacity
  PROVE  BuildInv' /\ GuideInv'
  BY IndexKept DEF GuideInv, indexVars, index

LEMMA AdvanceInv ==
  ASSUME BuildInv, GuideInv, NEW id, NEW token, Advance(id, token)
  PROVE  BuildInv' /\ GuideInv'
  <1>1. /\ phase = "built"
        /\ guide \in [held : {TRUE}, state : DOMAIN transitions,
                      state_cache : Seq(DOMAIN transitions), capacity : Nat]
        /\ Len(guide.state_cache) <= guide.capacity
    BY DEF GuideInv, Advance
  <1> DEFINE to == next_state(guide.state, id)
  <1>2. to \in DOMAIN transitions
    <2>1. guide.state \in DOMAIN transitions /\ id \in DOMAIN transitions[guide.state]
      BY <1>1 DEF Advance, HasNextState, allowed_tokens
    <2>2. to \in Range(transitions[guide.state])
      BY <2>1 DEF next_state, Range
    <2> QED
      BY <1>1, <2>1, <2>2, Closed
  <1>3. /\ Cached(guide) \in [held : {TRUE}, state : DOMAIN transitions,
                              state_cache : Seq(DOMAIN transitions), capacity : Nat]
        /\ Len(Cached(guide).state_cache) <= Cached(guide).capacity
    BY <1>1, CachedFacts
  <1>4. guide' = [Cached(guide) EXCEPT !.state = to] /\ UNCHANGED indexVars
    BY DEF Advance
  <1> HIDE DEF to
  <1>5. /\ guide' \in [held : {TRUE}, state : DOMAIN transitions,
                       state_cache : Seq(DOMAIN transitions), capacity : Nat]
        /\ guide'.state_cache = Cached(guide).state_cache
        /\ guide'.capacity = Cached(guide).capacity
    BY <1>2, <1>3, <1>4
  <1> QED
    BY <1>1, <1>3, <1>4, <1>5, GuideStep

LEMMA RollbackInv ==
  ASSUME BuildInv, GuideInv, NEW n, rollback_state(n)
  PROVE  BuildInv' /\ GuideInv'
  <1> DEFINE cache == guide.state_cache
             i == CacheIndex(n, cache)
  <1>1. /\ phase = "built" /\ UNCHANGED indexVars
        /\ guide \in [held : {TRUE}, state : DOMAIN transitions,
                      state_cache : Seq(DOMAIN transitions), capacity : Nat]
        /\ Len(cache) <= guide.capacity
        /\ guide' = [guide EXCEPT !.state = cache[i], !.state_cache = SubSeq(cache, 1, i - 1)]
    BY DEF GuideInv, rollback_state
  <1>2. /\ cache \in Seq(DOMAIN transitions) /\ Len(cache) \in Nat
        /\ guide.capacity \in Nat
    BY <1>1, LenProperties
  <1>3. n \in 1..Len(cache)
    BY DEF rollback_state
  <1>4. i \in 1..Len(cache) /\ i - 1 \in 0..Len(cache)
    BY <1>2, <1>3 DEF CacheIndex
  <1> HIDE DEF i, cache
  <1>5. cache[i] \in DOMAIN transitions
    BY <1>2, <1>4, ElementOfSeq
  <1>6. SubSeq(cache, 1, i - 1) \in Seq(DOMAIN transitions) /\ Len(SubSeq(cache, 1, i - 1)) <= Len(cache)
    <2>1. \A j \in 1..(i - 1) : cache[j] \in DOMAIN transitions
      BY <1>2, <1>4, ElementOfSeq
    <2> QED
      BY <2>1, <1>2, <1>4, SubSeqProperties
  <1>7. /\ guide' \in [held : {TRUE}, state : DOMAIN transitions,
                       state_cache : Seq(DOMAIN transitions), capacity : Nat]
        /\ guide'.state_cache = SubSeq(cache, 1, i - 1)
        /\ guide'.capacity = guide.capacity
    BY <1>1, <1>5, <1>6
  <1>8. Len(guide'.state_cache) <= guide'.capacity
    <2>1. Len(SubSeq(cache, 1, i - 1)) \in Nat
      BY <1>6, LenProperties
    <2> QED
      BY <1>1, <1>2, <1>6, <1>7, <2>1
  <1> QED
    BY <1>1, <1>7, <1>8, GuideStep

LEMMA ResetInv ==
  ASSUME BuildInv, GuideInv, Reset
  PROVE  BuildInv' /\ GuideInv'
  <1>1. /\ phase = "built" /\ UNCHANGED indexVars
        /\ guide \in [held : {TRUE}, state : DOMAIN transitions,
                      state_cache : Seq(DOMAIN transitions), capacity : Nat]
        /\ Len(guide.state_cache) <= guide.capacity
        /\ guide' = [guide EXCEPT !.state = initial_state]
    BY DEF GuideInv, Reset
  <1>2. initial_state \in DOMAIN transitions
    BY <1>1, Closed
  <1> QED
    BY <1>1, <1>2, GuideStep

LEMMA PickleInv ==
  ASSUME BuildInv, GuideInv, Pickle
  PROVE  BuildInv' /\ GuideInv'
  <1>1. /\ phase = "built" /\ UNCHANGED indexVars
        /\ guide \in [held : {TRUE}, state : DOMAIN transitions,
                      state_cache : Seq(DOMAIN transitions), capacity : Nat]
        /\ guide' = [guide EXCEPT !.capacity = Len(guide.state_cache)]
    BY DEF GuideInv, Pickle
  <1> DEFINE size == Len(guide.state_cache)
  <1>2. size \in Nat
    BY <1>1, LenProperties
  <1>3. guide' = [guide EXCEPT !.capacity = size]
    BY <1>1
  <1>4. size <= size
    BY <1>2
  <1>5. guide'.state_cache = guide.state_cache
    BY <1>1
  <1>6. Len(guide'.state_cache) = size
    BY <1>5
  <1> HIDE DEF size
  <1>7. /\ guide' \in [held : {TRUE}, state : DOMAIN transitions,
                       state_cache : Seq(DOMAIN transitions), capacity : Nat]
        /\ guide'.capacity = size
    BY <1>1, <1>2, <1>3
  <1>8. Len(guide'.state_cache) <= guide'.capacity
    BY <1>4, <1>6, <1>7
  <1> QED
    BY <1>1, <1>7, <1>8, GuideStep

\* A mask changes neither the guide nor the index.
LEMMA Unmoved ==
  ASSUME BuildInv, GuideInv, UNCHANGED <<indexVars, guide>>
  PROVE  BuildInv' /\ GuideInv'
  BY IndexKept DEF GuideInv, HasGuide, indexVars, index

LEMMA NextInv ==
  ASSUME BuildInv, GuideInv, [Next]_vars
  PROVE  BuildInv' /\ GuideInv'
  <1>1. CASE Prepare
    BY <1>1, PrepareInv
  <1>2. CASE \E n \in Rollbacks : NewGuide(n)
    BY <1>2, NewGuideInv
  <1>3. CASE \E id \in Ids(vocabulary) : \E token \in DOMAIN vocabulary : Advance(id, token)
    BY <1>3, AdvanceInv
  <1>4. CASE \E n \in 1..MaxEarlier : rollback_state(n)
    BY <1>4, RollbackInv
  <1>5. CASE Reset
    BY <1>5, ResetInv
  <1>6. CASE Pickle
    BY <1>6, PickleInv
  <1>7. CASE \E numel \in Buffers : WriteMask(numel)
    BY <1>7, Unmoved DEF WriteMask
  <1>8. CASE UNCHANGED vars
    BY <1>8, Unmoved DEF vars, guideVars
  <1> QED
    BY <1>1, <1>2, <1>3, <1>4, <1>5, <1>6, <1>7, <1>8 DEF Next

-------------------------------------------------------------------------------
(* What the rows of the index hold.                                         *)

\* A row, before the end of sequence is put into it.
RowExact(s, row) ==
    /\ DOMAIN row = IdsOnward(s)
    /\ \A id \in DOMAIN row :
          \E token \in DOMAIN Leads(s) :
              id \in ToSet(vocabulary[token]) /\ row[id] = Walk(s, token)

RowsInv ==
    /\ \A token \in DOMAIN vocabulary : IsSeq(token)
    /\ phase = "building" =>
          /\ final_states = { s \in DOMAIN transitions : MatchesAtEnd(s) }
          /\ \A s \in DOMAIN transitions : RowExact(s, transitions[s])
    /\ IndexExact

LEMMA LeadsAre ==
  ASSUME NEW s, NEW token \in DOMAIN Leads(s)
  PROVE  /\ token \in DOMAIN vocabulary /\ Eos \notin ToSet(vocabulary[token])
         /\ Leads(s)[token] = Walk(s, token)
  BY DEF Leads, Skipped

\* Where tokens lead changes only with the vocabulary.
LEMMA LeadsKept ==
  ASSUME UNCHANGED vocabulary
  PROVE  \A s : Leads(s)' = Leads(s) /\ IdsOnward(s)' = IdsOnward(s)
  <1>1. \A s : Leads(s)' = Leads(s)
    BY DEF Leads, Skipped
  <1>2. QED
    BY <1>1 DEF IdsOnward

LEMMA RowsAreExact ==
  ASSUME NEW s, NEW row \in Rows(s)
  PROVE  RowExact(s, row)
  <1> DEFINE leads == Leads(s)
             Of(id) == { leads[t] : t \in { u \in DOMAIN leads : id \in ToSet(vocabulary[u]) } }
  <1>1. /\ row \in [IdsOnward(s) -> Range(leads)]
        /\ \A id \in IdsOnward(s) : row[id] \in Of(id)
    BY DEF Rows, IdsOnward
  <1>2. ASSUME NEW id \in DOMAIN row
        PROVE  \E token \in DOMAIN leads :
                  id \in ToSet(vocabulary[token]) /\ row[id] = Walk(s, token)
    <2>1. PICK t \in DOMAIN leads : id \in ToSet(vocabulary[t]) /\ row[id] = leads[t]
      BY <1>1
    <2>2. QED
      BY <2>1, LeadsAre
  <1>3. QED
    BY <1>1, <1>2 DEF RowExact

LEMMA NoEosOnward == \A s : Eos \notin IdsOnward(s)
  BY LeadsAre DEF IdsOnward

\* The vocabulary holds sequences.
LEMMA TokensStaySequences ==
  ASSUME \A token \in DOMAIN vocabulary : IsSeq(token), IndexNext
  PROVE  (\A token \in DOMAIN vocabulary : IsSeq(token))'
  <1>1. CASE \E entry \in Entries : TryInsert(entry)
    <2>1. PICK entry \in Entries : TryInsert(entry)
      BY <1>1
    <2>2. DOMAIN vocabulary' = DOMAIN vocabulary \union {entry.token} /\ IsSeq(entry.token)
      BY <2>1, TokensAreSequences DEF TryInsert, try_insert, Spelling, IsSeq
    <2>3. QED
      BY <2>2
  <1>2. CASE \E token \in DOMAIN vocabulary : RemoveToken(token)
    BY <1>2 DEF RemoveToken
  <1>3. CASE (\E p \in Patterns : NewIndex(p)) \/ Build
    BY <1>3 DEF NewIndex, Build, Expand, Refuse, Built
  <1>4. QED
    BY <1>1, <1>2, <1>3 DEF IndexNext

LEMMA ExpandRows ==
  ASSUME RowsInv, Expand
  PROVE  /\ final_states' = { s \in DOMAIN transitions' : MatchesAtEnd(s) }
         /\ \A s \in DOMAIN transitions' : RowExact(s, transitions[s])'
  <1>1. PICK row \in Rows(Current) : transitions' = WithEntry(transitions, Current, row)
    BY DEF Expand
  <1>2. /\ DOMAIN transitions' = DOMAIN transitions \union {Current}
        /\ \A s \in DOMAIN transitions' :
              transitions'[s] = IF s = Current THEN row ELSE transitions[s]
    BY <1>1 DEF WithEntry
  <1>3. final_states' = final_states \union (IF MatchesAtEnd(Current) THEN {Current} ELSE {})
    BY DEF Expand, Final
  <1>4. /\ final_states = { s \in DOMAIN transitions : MatchesAtEnd(s) }
        /\ \A s \in DOMAIN transitions : RowExact(s, transitions[s])
    BY DEF RowsInv, Expand
  <1>5. ASSUME NEW s \in DOMAIN transitions'
        PROVE  RowExact(s, transitions[s])'
    <2>1. RowExact(s, transitions'[s])
      BY <1>1, <1>2, <1>4, RowsAreExact
    <2>2. vocabulary' = vocabulary
      BY DEF Expand
    <2>3. QED
      BY <2>1, <2>2, LeadsKept DEF RowExact
  <1>6. QED
    BY <1>2, <1>3, <1>4, <1>5

LEMMA BuiltRows ==
  ASSUME RowsInv, Built
  PROVE  IndexExact'
  <1>1. /\ transitions' = [s \in DOMAIN transitions |-> WithEos(transitions[s], s)]
        /\ vocabulary' = vocabulary /\ final_states' = final_states
        /\ final_states = { s \in DOMAIN transitions : MatchesAtEnd(s) }
        /\ \A s \in DOMAIN transitions : RowExact(s, transitions[s])
    BY DEF Built, RowsInv
  <1>2. DOMAIN transitions' = DOMAIN transitions
    BY <1>1
  <1>3. ASSUME NEW s \in DOMAIN transitions
        PROVE  /\ DOMAIN transitions'[s] = IdsOnward(s) \union (IF s \in final_states THEN {Eos} ELSE {})
               /\ \A id \in IdsOnward(s) : transitions'[s][id] = transitions[s][id]
    <2> DEFINE row == transitions[s]
    <2>1. transitions'[s] = WithEos(row, s)
      BY <1>1
    <2>2. DOMAIN row = IdsOnward(s)
      BY <1>1 DEF RowExact
    <2> HIDE DEF row
    <2>3. CASE s \in final_states
      <3>1. WithEos(row, s) = [k \in DOMAIN row \union {Eos} |-> IF k = Eos THEN s ELSE row[k]]
        BY <2>3 DEF WithEos, WithEntry
      <3>2. QED
        BY <2>1, <2>2, <2>3, <3>1, NoEosOnward DEF row
    <2>4. CASE s \notin final_states
      <3>1. WithEos(row, s) = row
        BY <2>4 DEF WithEos
      <3>2. QED
        BY <2>1, <2>2, <2>4, <3>1 DEF row
    <2>5. QED
      BY <2>3, <2>4
  <1>4. ASSUME NEW s \in DOMAIN transitions
        PROVE  /\ allowed_tokens(s)' = IdsOnward(s)' \union (IF s \in final_states' THEN {Eos} ELSE {})
               /\ \A id \in allowed_tokens(s)' \ {Eos} :
                     \E token \in DOMAIN Leads(s)' :
                         id \in ToSet(vocabulary'[token]) /\ next_state(s, id)' = Walk(s, token)
    <2>1. allowed_tokens(s)' = DOMAIN transitions'[s]
      BY <1>2 DEF allowed_tokens
    <2>2. IdsOnward(s)' = IdsOnward(s) /\ Leads(s)' = Leads(s)
      BY <1>1, LeadsKept
    <2>3. ASSUME NEW id \in allowed_tokens(s)' \ {Eos}
          PROVE  \E token \in DOMAIN Leads(s)' :
                    id \in ToSet(vocabulary'[token]) /\ next_state(s, id)' = Walk(s, token)
      <3>1. id \in IdsOnward(s) /\ next_state(s, id)' = transitions[s][id]
        BY <1>3, <2>1 DEF next_state
      <3>2. PICK token \in DOMAIN Leads(s) :
               id \in ToSet(vocabulary[token]) /\ transitions[s][id] = Walk(s, token)
        BY <1>1, <3>1 DEF RowExact
      <3>3. QED
        BY <1>1, <2>2, <3>1, <3>2
    <2>4. QED
      BY <1>1, <1>3, <2>1, <2>2, <2>3
  <1>5. QED
    BY <1>1, <1>2, <1>4 DEF IndexExact

LEMMA PrepareRows ==
  ASSUME RowsInv, Prepare
  PROVE  RowsInv'
  <1>1. (\A token \in DOMAIN vocabulary : IsSeq(token))'
    BY TokensStaySequences DEF RowsInv, Prepare
  <1>2. CASE (\E entry \in Entries : TryInsert(entry)) \/ (\E token \in DOMAIN vocabulary : RemoveToken(token))
    <2>1. phase' = "vocabulary"
      BY <1>2 DEF TryInsert, RemoveToken
    <2>2. QED
      BY <1>1, <2>1 DEF RowsInv, IndexExact
  <1>3. CASE \E p \in Patterns : NewIndex(p)
    <2>1. phase' = "building" /\ DOMAIN transitions' = {} /\ final_states' = {}
      BY <1>3, EmptyFacts DEF NewIndex
    <2>2. QED
      BY <1>1, <2>1 DEF RowsInv, IndexExact
  <1>4. CASE Expand
    <2>1. phase' = "building"
      BY <1>4 DEF Expand
    <2>2. QED
      BY <1>1, <1>4, <2>1, ExpandRows DEF RowsInv, IndexExact
  <1>5. CASE Refuse
    <2>1. phase' = "refused"
      BY <1>5 DEF Refuse
    <2>2. QED
      BY <1>1, <2>1 DEF RowsInv, IndexExact
  <1>6. CASE Built
    <2>1. phase' = "built"
      BY <1>6 DEF Built
    <2>2. QED
      BY <1>1, <1>6, <2>1, BuiltRows DEF RowsInv
  <1>7. QED
    BY <1>2, <1>3, <1>4, <1>5, <1>6 DEF Prepare, IndexNext, Build

LEMMA RowsKept ==
  ASSUME RowsInv, UNCHANGED indexVars
  PROVE  RowsInv'
  <1>1. /\ vocabulary' = vocabulary /\ phase' = phase /\ transitions' = transitions
        /\ final_states' = final_states
    BY DEF indexVars, index
  <1>2. \A s : Leads(s)' = Leads(s) /\ IdsOnward(s)' = IdsOnward(s)
    BY <1>1, LeadsKept
  <1>3. \A s : allowed_tokens(s)' = allowed_tokens(s) /\ \A id : next_state(s, id)' = next_state(s, id)
    BY <1>1 DEF allowed_tokens, next_state
  <1>4. \A s, row : RowExact(s, row)' = RowExact(s, row)
    BY <1>1, <1>2 DEF RowExact
  <1>5. IndexExact'
    BY <1>1, <1>2, <1>3 DEF RowsInv, IndexExact
  <1>6. QED
    BY <1>1, <1>4, <1>5 DEF RowsInv

LEMMA RowsNext ==
  ASSUME RowsInv, [Next]_vars
  PROVE  RowsInv'
  <1>1. Prepare \/ UNCHANGED indexVars
    BY DEF Next, NewGuide, Advance, rollback_state, Reset, Pickle, WriteMask, vars
  <1>2. QED
    BY <1>1, PrepareRows, RowsKept

LEMMA RowsInit == Init => RowsInv
  <1> SUFFICES ASSUME Init
               PROVE  RowsInv
    OBVIOUS
  <1>1. phase = "vocabulary" /\ vocabulary \in Maps
    BY DEF Init, IndexInit
  <1>2. QED
    BY <1>1, TokensAreSequences DEF RowsInv, IndexExact, Spelling, IsSeq

-------------------------------------------------------------------------------
(* The texts the cached states stand for.                                   *)

Walking == INSTANCE Folding WITH Op <- dfa_next_state

LEMMA WalkFolds ==
  ASSUME NEW s, NEW token
  PROVE  Walk(s, token) = Walking!Left(s, token)
  BY DEF Walk, FoldLeft, Walking!Left, Walking!FoldLeft, MapThenFoldSet,
     Walking!MapThenFoldSet, Max, Walking!Max

LEMMA WalkNowhere == \A s : Walk(s, <<>>) = s
  BY WalkFolds, Walking!LeftEmpty

\* Walking over one text after another is walking over the one they make.
LEMMA WalkOn ==
  ASSUME NEW s, NEW t, IsSeq(t), NEW u, IsSeq(u)
  PROVE  Walk(s, t \o u) = Walk(Walk(s, t), u)
  <1> DEFINE T == ToSet(t) \union ToSet(u)
  <1>1. t \in Seq(T) /\ u \in Seq(T)
    <2>1. /\ \A i \in 1..Len(t) : t[i] \in T
          /\ \A i \in 1..Len(u) : u[i] \in T
      BY IsSeqLen DEF ToSet
    <2> HIDE DEF T
    <2>2. QED
      BY <2>1, IsSeqIn
  <1> HIDE DEF T
  <1> DEFINE w == t \o u
  <1>2. Walking!Left(s, w) = Walking!Left(Walking!Left(s, t), u)
    BY <1>1, Walking!LeftConcat
  <1> HIDE DEF w
  <1>3. Walk(s, w) = Walk(Walk(s, t), u)
    BY <1>2, WalkFolds
  <1>4. QED
    BY <1>3 DEF w

TextsInv ==
    HasGuide =>
        /\ IsSeq(text) /\ IsSeq(earlier)
        /\ \A i \in 1..Len(earlier) : IsSeq(earlier[i])
        /\ RollbackReturns

\* Counted from the newest, the states in the cache are those they were before.
LEMMA RoomKeepsNewest ==
  ASSUME NEW g, IsSeq(g.state_cache)
  PROVE  /\ IsSeq(Room(g)) /\ Len(Room(g)) <= Len(g.state_cache)
         /\ \A n \in 1..Len(Room(g)) :
               Room(g)[Len(Room(g)) - n + 1] = g.state_cache[Len(g.state_cache) - n + 1]
  <1> DEFINE cache == g.state_cache
             r == Room(g)
  <1>1. Len(cache) \in Nat /\ cache \in Seq(ToSet(cache))
    BY IsSeqLen DEF IsSeq
  <1>2. CASE Full(g) /\ cache # <<>>
    <2>1. r = Tail(cache)
      BY <1>2 DEF Room
    <2> HIDE DEF cache, r
    <2>2. /\ IsSeq(r) /\ Len(r) = Len(cache) - 1 /\ Len(r) \in Nat
          /\ \A i \in 1..Len(r) : r[i] = cache[i + 1]
      BY <1>1, <1>2, <2>1, HeadTailProperties, SeqIsSeq, IsSeqLen
    <2>3. ASSUME NEW n \in 1..Len(r)
          PROVE  r[Len(r) - n + 1] = cache[Len(cache) - n + 1]
      <3>1. Len(r) - n + 1 \in 1..Len(r) /\ (Len(r) - n + 1) + 1 = Len(cache) - n + 1
        BY <1>1, <2>2
      <3>2. QED
        BY <2>2, <3>1
    <2>4. Len(r) <= Len(cache)
      BY <1>1, <2>2
    <2>5. QED
      BY <2>2, <2>3, <2>4 DEF cache, r
  <1>3. CASE ~(Full(g) /\ cache # <<>>)
    <2>1. r = cache
      BY <1>3 DEF Room
    <2>2. QED
      BY <1>1, <2>1
  <1>4. QED
    BY <1>2, <1>3

LEMMA AdvanceTexts ==
  ASSUME GuideInv, RowsInv, TextsInv, NEW id, NEW token, Advance(id, token)
  PROVE  TextsInv'
  <1> DEFINE cache == guide.state_cache
             room == Room(guide)
             grown == Append(room, guide.state)
             before == Append(earlier, text)
  <1>1. /\ guide \in [held : {TRUE}, state : DOMAIN transitions,
                       state_cache : Seq(DOMAIN transitions), capacity : Nat]
        /\ IsSeq(text) /\ IsSeq(earlier) /\ (\A i \in 1..Len(earlier) : IsSeq(earlier[i]))
        /\ guide.state = StateAfter(text) /\ Len(cache) <= Len(earlier)
        /\ \A n \in 1..Len(cache) :
              cache[Len(cache) - n + 1] = StateAfter(earlier[Len(earlier) - n + 1])
    BY DEF GuideInv, TextsInv, RollbackReturns, Advance
  <1>2. IsSeq(cache) /\ Len(cache) \in Nat /\ Len(earlier) \in Nat
    BY <1>1, SeqIsSeq, IsSeqLen
  <1>3. IsSeq(token)
    BY LeadsAre DEF Advance, RowsInv
  <1>4. /\ guide'.state = Walk(guide.state, token) /\ guide'.state_cache = grown
        /\ text' = text \o token /\ earlier' = before /\ pattern' = pattern
    BY <1>1 DEF Advance, Cached, indexVars, index
  <1>5. /\ IsSeq(room) /\ Len(room) <= Len(cache)
        /\ \A n \in 1..Len(room) : room[Len(room) - n + 1] = cache[Len(cache) - n + 1]
    BY <1>2, RoomKeepsNewest
  <1> HIDE DEF cache, room
  <1>6. Len(room) \in Nat
    BY <1>5, IsSeqLen
  <1>7. /\ Len(grown) = Len(room) + 1 /\ grown[Len(room) + 1] = guide.state
        /\ \A i \in 1..Len(room) : grown[i] = room[i]
    BY <1>5, IsSeqAppend
  <1>8. /\ IsSeq(before) /\ Len(before) = Len(earlier) + 1 /\ before[Len(earlier) + 1] = text
        /\ \A i \in 1..Len(earlier) : before[i] = earlier[i]
    BY <1>1, IsSeqAppend
  <1> HIDE DEF grown, before
  <1>9. IsSeq(text \o token) /\ StateAfter(text \o token) = Walk(guide.state, token)
    BY <1>1, <1>3, WalkOn, IsSeqConcat DEF StateAfter
  <1>10. ASSUME NEW n \in 1..Len(grown)
         PROVE  grown[Len(grown) - n + 1] = StateAfter(before[Len(before) - n + 1])
    <2>1. CASE n = 1
      <3>1. Len(grown) - n + 1 = Len(room) + 1 /\ Len(before) - n + 1 = Len(earlier) + 1
        BY <1>2, <1>6, <1>7, <1>8, <2>1
      <3>2. QED
        BY <1>1, <1>7, <1>8, <3>1
    <2>2. CASE n # 1
      <3> DEFINE m == n - 1
      <3>1. /\ m \in 1..Len(room) /\ m \in 1..Len(cache)
            /\ Len(grown) - n + 1 = Len(room) - m + 1 /\ Len(room) - m + 1 \in 1..Len(room)
            /\ Len(before) - n + 1 = Len(earlier) - m + 1
            /\ Len(earlier) - m + 1 \in 1..Len(earlier)
        BY <1>1, <1>2, <1>5, <1>6, <1>7, <1>8, <2>2
      <3> HIDE DEF m
      <3>2. room[Len(room) - m + 1] = StateAfter(earlier[Len(earlier) - m + 1])
        BY <1>1, <1>5, <3>1
      <3>3. QED
        BY <1>7, <1>8, <3>1, <3>2
    <2>3. QED
      BY <2>1, <2>2
  <1>11. Len(grown) <= Len(before)
    BY <1>1, <1>2, <1>5, <1>6, <1>7, <1>8
  <1>12. \A i \in 1..Len(before) : IsSeq(before[i])
    BY <1>1, <1>2, <1>8
  <1>13. \A t : StateAfter(t)' = StateAfter(t)
    BY <1>4 DEF StateAfter, initial_state
  <1>14. RollbackReturns'
    BY <1>4, <1>9, <1>10, <1>11, <1>13 DEF RollbackReturns
  <1>15. QED
    BY <1>4, <1>8, <1>9, <1>12, <1>14 DEF TextsInv

LEMMA RollbackTexts ==
  ASSUME GuideInv, TextsInv, NEW n, rollback_state(n)
  PROVE  TextsInv'
  <1> DEFINE cache == guide.state_cache
             kept == SubSeq(cache, 1, Len(cache) - n)
             before == SubSeq(earlier, 1, Len(earlier) - n)
  <1>1. /\ guide \in [held : {TRUE}, state : DOMAIN transitions,
                       state_cache : Seq(DOMAIN transitions), capacity : Nat]
        /\ IsSeq(earlier) /\ (\A i \in 1..Len(earlier) : IsSeq(earlier[i]))
        /\ Len(cache) <= Len(earlier) /\ n \in 1..Len(cache)
        /\ \A m \in 1..Len(cache) :
              cache[Len(cache) - m + 1] = StateAfter(earlier[Len(earlier) - m + 1])
    BY DEF GuideInv, TextsInv, RollbackReturns, rollback_state
  <1>2. /\ IsSeq(cache) /\ Len(cache) \in Nat /\ Len(earlier) \in Nat
        /\ cache \in Seq(ToSet(cache)) /\ earlier \in Seq(ToSet(earlier))
    BY <1>1, SeqIsSeq, IsSeqLen DEF IsSeq
  <1>3. Len(cache) - n + 1 - 1 = Len(cache) - n /\ Len(earlier) - n + 1 \in 1..Len(earlier)
        /\ Len(cache) - n \in 0..Len(cache) /\ Len(earlier) - n \in 0..Len(earlier)
    BY <1>1, <1>2
  <1>4. /\ guide'.state = cache[Len(cache) - n + 1] /\ guide'.state_cache = kept
        /\ text' = earlier[Len(earlier) - n + 1] /\ earlier' = before /\ pattern' = pattern
    BY <1>1, <1>3 DEF rollback_state, CacheIndex, indexVars, index
  <1> HIDE DEF cache
  <1>5. /\ Len(kept) = Len(cache) - n
        /\ \A i \in 1..(Len(cache) - n) : kept[i] = cache[i]
    BY <1>2, <1>3, TruncateFacts DEF Truncate
  <1>6. /\ IsSeq(before) /\ Len(before) = Len(earlier) - n
        /\ \A i \in 1..(Len(earlier) - n) : before[i] = earlier[i]
    BY <1>2, <1>3, TruncateFacts, SeqIsSeq DEF Truncate
  <1> HIDE DEF kept, before
  <1>7. ASSUME NEW m \in 1..Len(kept)
        PROVE  kept[Len(kept) - m + 1] = StateAfter(before[Len(before) - m + 1])
    <2> DEFINE k == n + m
    <2>1. /\ k \in 1..Len(cache)
          /\ Len(kept) - m + 1 = Len(cache) - k + 1 /\ Len(cache) - k + 1 \in 1..(Len(cache) - n)
          /\ Len(before) - m + 1 = Len(earlier) - k + 1
          /\ Len(earlier) - k + 1 \in 1..(Len(earlier) - n)
      BY <1>1, <1>2, <1>5, <1>6
    <2> HIDE DEF k
    <2>2. QED
      BY <1>1, <1>5, <1>6, <2>1
  <1>8. Len(kept) <= Len(before)
    BY <1>1, <1>2, <1>5, <1>6
  <1>9. IsSeq(text') /\ guide'.state = StateAfter(text')
    BY <1>1, <1>3, <1>4
  <1>10. \A t : StateAfter(t)' = StateAfter(t)
    BY <1>4 DEF StateAfter, initial_state
  <1>11. ASSUME NEW i \in 1..Len(before)
         PROVE  IsSeq(before[i])
    <2>1. i \in 1..(Len(earlier) - n) /\ i \in 1..Len(earlier)
      BY <1>1, <1>2, <1>6
    <2>2. QED
      BY <1>1, <1>6, <2>1
  <1>12. RollbackReturns'
    BY <1>4, <1>7, <1>8, <1>9, <1>10 DEF RollbackReturns
  <1>13. QED
    BY <1>4, <1>6, <1>9, <1>11, <1>12 DEF TextsInv

LEMMA TextsNext ==
  ASSUME GuideInv, RowsInv, TextsInv, [Next]_vars
  PROVE  TextsInv'
  <1>1. CASE Prepare
    <2>1. phase # "built"
      BY <1>1 DEF Prepare, IndexNext, TryInsert, RemoveToken, NewIndex, Build, Expand, Refuse,
                  Built, Idle
    <2>2. ~HasGuide /\ guide' = guide
      BY <1>1, <2>1 DEF GuideInv, Prepare, guideVars
    <2>3. QED
      BY <2>2 DEF TextsInv, HasGuide
  <1>2. CASE \E n \in Rollbacks : NewGuide(n)
    <2>1. /\ guide'.state = initial_state' /\ guide'.state_cache = <<>>
          /\ text' = <<>> /\ earlier' = <<>>
      BY <1>2 DEF NewGuide, initial_state, indexVars, index
    <2>2. StateAfter(<<>>)' = initial_state'
      BY WalkNowhere DEF StateAfter
    <2>3. QED
      BY <2>1, <2>2, IsSeqEmpty DEF TextsInv, RollbackReturns
  <1>3. CASE \E id \in Ids(vocabulary) : \E token \in DOMAIN vocabulary : Advance(id, token)
    BY <1>3, AdvanceTexts
  <1>4. CASE \E n \in 1..MaxEarlier : rollback_state(n)
    BY <1>4, RollbackTexts
  <1>5. CASE Reset
    <2>1. /\ HasGuide /\ pattern' = pattern /\ text' = <<>> /\ earlier' = earlier
          /\ guide'.state = initial_state /\ guide'.state_cache = guide.state_cache
      BY <1>5 DEF Reset, GuideInv, indexVars, index
    <2>2. \A t : StateAfter(t)' = StateAfter(t)
      BY <2>1 DEF StateAfter, initial_state
    <2>3. StateAfter(<<>>) = initial_state
      BY WalkNowhere DEF StateAfter
    <2>4. QED
      BY <2>1, <2>2, <2>3, IsSeqEmpty DEF TextsInv, RollbackReturns
  <1>6. CASE Pickle \/ (\E numel \in Buffers : WriteMask(numel)) \/ UNCHANGED vars
    <2>1. /\ HasGuide' = HasGuide /\ pattern' = pattern /\ text' = text /\ earlier' = earlier
          /\ HasGuide => guide'.state = guide.state /\ guide'.state_cache = guide.state_cache
      BY <1>6 DEF Pickle, WriteMask, GuideInv, HasGuide, indexVars, index, vars, guideVars
    <2>2. \A t : StateAfter(t)' = StateAfter(t)
      BY <2>1 DEF StateAfter, initial_state
    <2>3. QED
      BY <2>1, <2>2 DEF TextsInv, RollbackReturns
  <1>7. QED
    BY <1>1, <1>2, <1>3, <1>4, <1>5, <1>6 DEF Next

-------------------------------------------------------------------------------

THEOREM Invariance == Spec => [](BuildInv /\ GuideInv)
  <1>1. Init => BuildInv /\ GuideInv
    BY InitInv
  <1>2. BuildInv /\ GuideInv /\ [Next]_vars => (BuildInv /\ GuideInv)'
    BY NextInv
  <1> QED
    BY <1>1, <1>2, PTL DEF Spec

\* The worklist of Index::new holds each state found and not yet expanded,
\* once, and an index it built leads only to states of that index.
THEOREM WorklistIsExact == Spec => []WorklistExact
  <1>1. ASSUME BuildInv PROVE WorklistExact
    <2>1. phase = "built" =>
             \A s \in DOMAIN transitions : Range(transitions[s]) \subseteq DOMAIN transitions
      BY <1>1, Closed
    <2> QED
      BY <1>1, <2>1 DEF BuildInv, WorklistExact, Indexing
  <1> QED
    BY <1>1, Invariance, PTL

\* A guide and its cache of earlier states stay in the states of its index,
\* and the cache within its capacity.
THEOREM GuideStaysInIndex == Spec => []TypeOK
  <1>1. ASSUME BuildInv, GuideInv PROVE TypeOK
    <2>1. ASSUME HasGuide
          PROVE  /\ phase = "built" /\ Len(guide.state_cache) <= guide.capacity
                 /\ {guide.state} \union ToSet(guide.state_cache) \subseteq DOMAIN transitions
      <3>1. /\ guide.state \in DOMAIN transitions
            /\ guide.state_cache \in Seq(DOMAIN transitions)
        BY <1>1, <2>1 DEF GuideInv
      <3>2. DOMAIN guide.state_cache = 1..Len(guide.state_cache)
        BY <3>1, LenProperties
      <3>3. ToSet(guide.state_cache) \subseteq DOMAIN transitions
        BY <3>1, <3>2, ElementOfSeq DEF ToSet
      <3> QED
        BY <1>1, <2>1, <3>1, <3>3 DEF GuideInv
    <2> QED
      BY <1>1, <2>1 DEF BuildInv, TypeOK
  <1> QED
    BY <1>1, Invariance, PTL

\* An index built offers from each state the ids of the tokens that lead on, each to where
\* one of its tokens leads, and the end of sequence where a text may end: nothing is lost or
\* mixed up, in whatever order its states were found (Index::new). The step of an advance in
\* the model, which takes a token that leads where the id does, therefore exists for every id.
THEOREM IndexIsExact == Spec => []IndexExact
  <1>1. RowsInv /\ [Next]_vars => RowsInv'
    BY RowsNext
  <1>2. RowsInv => IndexExact
    BY DEF RowsInv
  <1> QED
    BY <1>1, <1>2, RowsInit, PTL DEF Spec

\* A rollback returns to the state of the text before that many advances, for any number of
\* advances, rollbacks, resets and pickles, whatever max_rollback was (PyGuide).
THEOREM RollbackAlwaysReturns == Spec => []RollbackReturns
  <1>1. Init => TextsInv
    BY DEF Init, NoGuide, HasGuide, TextsInv
  <1>2. GuideInv /\ RowsInv /\ TextsInv /\ [Next]_vars => TextsInv'
    BY TextsNext
  <1>3. RowsInv /\ [Next]_vars => RowsInv'
    BY RowsNext
  <1>4. TextsInv => RollbackReturns
    BY DEF TextsInv, RollbackReturns
  <1> QED
    BY <1>1, <1>2, <1>3, <1>4, RowsInit, Invariance, PTL DEF Spec


-------------------------------------------------------------------------------
(* The number of a vocabulary's ids.                                        *)

Picked(S) == CHOOSE x \in S : TRUE

CountStep(tokens, it, S) ==
    IF S = {} THEN 0 ELSE Len(tokens[Picked(S)]) + it[S \ {Picked(S)}]

CountTable(tokens, F, it) == it = [S \in F |-> CountStep(tokens, it, S)]

\* The sum over the tokens is that of a table of the sums over their subsets.
LEMMA CountReads ==
  ASSUME NEW tokens
  PROVE  vocabulary_len(tokens) =
           (CHOOSE it : CountTable(tokens, SUBSET (DOMAIN tokens), it))[DOMAIN tokens] + 1
  BY DEF vocabulary_len, MapThenSumSet, MapThenFoldSet, CountTable, CountStep, Picked

\* A set that has a member has one fewer without it.
LEMMA PickedAway ==
  ASSUME NEW S, IsFiniteSet(S), S # {}
  PROVE  /\ Picked(S) \in S
         /\ IsFiniteSet(S \ {Picked(S)})
         /\ Cardinality(S) \in Nat
         /\ Cardinality(S \ {Picked(S)}) = Cardinality(S) - 1
  <1>1. Picked(S) \in S
    BY DEF Picked
  <1> QED
    BY <1>1, FS_RemoveElement, FS_CardinalityType

LEMMA CountTableExists ==
  ASSUME NEW tokens, IsFiniteSet(DOMAIN tokens)
  PROVE  \E it : CountTable(tokens, SUBSET (DOMAIN tokens), it)
  <1> DEFINE D == DOMAIN tokens
             F(n) == { S \in SUBSET D : Cardinality(S) <= n }
             N == { n \in Nat : \E it : CountTable(tokens, F(n), it) }
  <1>0. \A S \in SUBSET D : IsFiniteSet(S) /\ Cardinality(S) \in Nat
    BY FS_Subset, FS_CardinalityType
  <1>1. 0 \in N
    <2> DEFINE it == [S \in F(0) |-> 0]
    <2>1. \A S \in F(0) : S = {}
      BY <1>0, FS_EmptySet
    <2>2. \A S \in F(0) : CountStep(tokens, it, S) = 0
      BY <2>1 DEF CountStep
    <2>3. CountTable(tokens, F(0), it)
      BY <2>2 DEF CountTable
    <2> QED
      BY <2>3
  <1>2. ASSUME NEW n \in Nat, n \in N PROVE n + 1 \in N
    <2>1. PICK it : CountTable(tokens, F(n), it)
      BY <1>2
    <2> DEFINE more == [S \in F(n + 1) |-> CountStep(tokens, it, S)]
    <2>2. \A S \in F(n) : it[S] = CountStep(tokens, it, S) /\ S \in F(n + 1)
      BY <1>0, <2>1 DEF CountTable
    <2>3. \A S \in F(n) : more[S] = it[S]
      BY <2>2
    <2>4. ASSUME NEW S \in F(n + 1) PROVE CountStep(tokens, it, S) = CountStep(tokens, more, S)
      <3>1. CASE S = {}
        BY <3>1 DEF CountStep
      <3>2. CASE S # {}
        <4>1. S \ {Picked(S)} \in F(n)
          BY <1>0, <3>2, PickedAway
        <4> HIDE DEF more
        <4> QED
          BY <2>3, <3>2, <4>1 DEF CountStep
      <3> QED
        BY <3>1, <3>2
    <2>5. CountTable(tokens, F(n + 1), more)
      <3>1. more = [S \in F(n + 1) |-> CountStep(tokens, it, S)]
        OBVIOUS
      <3> HIDE DEF more, F
      <3> QED
        BY <2>4, <3>1 DEF CountTable
    <2> HIDE DEF more
    <2> QED
      BY <2>5
  <1> HIDE DEF N
  <1>3. \A n \in Nat : n \in N
    BY <1>1, <1>2, Induct
  <1>4. Cardinality(D) \in Nat /\ F(Cardinality(D)) = SUBSET D
    <2>1. \A S \in SUBSET D : Cardinality(S) <= Cardinality(D)
      BY FS_Subset
    <2> QED
      BY <1>0, <2>1
  <1> QED
    BY <1>3, <1>4 DEF N

LEMMA CountsAreNumbers ==
  ASSUME NEW tokens, IsFiniteSet(DOMAIN tokens),
         \A t \in DOMAIN tokens : Len(tokens[t]) \in Nat
  PROVE  vocabulary_len(tokens) \in Nat
  <1> DEFINE D == DOMAIN tokens
             sums == CHOOSE it : CountTable(tokens, SUBSET D, it)
             N == { n \in Nat : \A S \in SUBSET D : Cardinality(S) = n => sums[S] \in Nat }
  <1>0. \A S \in SUBSET D : IsFiniteSet(S) /\ Cardinality(S) \in Nat
    BY FS_Subset, FS_CardinalityType
  <1>1. CountTable(tokens, SUBSET D, sums)
    BY CountTableExists
  <1> HIDE DEF sums
  <1>2. \A S \in SUBSET D : sums[S] = CountStep(tokens, sums, S)
    BY <1>1 DEF CountTable
  <1>3. 0 \in N
    <2>1. \A S \in SUBSET D : Cardinality(S) = 0 => S = {}
      BY <1>0, FS_EmptySet
    <2>2. \A S \in SUBSET D : S = {} => CountStep(tokens, sums, S) = 0
      BY DEF CountStep
    <2>3. \A S \in SUBSET D : S = {} => sums[S] \in Nat
      BY <1>2, <2>2
    <2>4. \A S \in SUBSET D : Cardinality(S) = 0 => sums[S] \in Nat
      BY <2>1, <2>3, Zenon
    <2> QED
      BY <2>4
  <1>4. ASSUME NEW n \in Nat, n \in N PROVE n + 1 \in N
    <2> SUFFICES ASSUME NEW S \in SUBSET D, Cardinality(S) = n + 1 PROVE sums[S] \in Nat
      OBVIOUS
    <2>1. S # {}
      BY FS_EmptySet
    <2>2. Picked(S) \in D /\ S \ {Picked(S)} \in SUBSET D /\ Cardinality(S \ {Picked(S)}) = n
      BY <1>0, <2>1, PickedAway
    <2>3. sums[S \ {Picked(S)}] \in Nat
      BY <1>4, <2>2
    <2> QED
      BY <1>2, <2>1, <2>2, <2>3 DEF CountStep
  <1> HIDE DEF N
  <1>5. Cardinality(D) \in N
    BY <1>0, <1>3, <1>4, Induct
  <1>6. sums[D] \in Nat
    BY <1>5 DEF N
  <1>7. vocabulary_len(tokens) = sums[D] + 1
    BY CountReads, Zenon DEF sums
  <1> QED
    BY <1>6, <1>7

-------------------------------------------------------------------------------
(* The words of a mask.                                                     *)

\* An id and its place: a word, and a bit of it.
LEMMA Places ==
  ASSUME NEW id \in Nat
  PROVE  /\ id \div Word \in Nat /\ id % Word \in 0..Word - 1
         /\ (id \div Word) * Word + (id % Word) = id
  BY MaskAssumption

LEMMA OnePlace ==
  ASSUME NEW w \in Nat, NEW b \in 0..Word - 1
  PROVE  /\ w * Word + b \in Nat
         /\ (w * Word + b) \div Word = w /\ (w * Word + b) % Word = b
  BY MaskAssumption

LEMMA WordsSuffice ==
  ASSUME NEW width \in Nat, NEW id \in Nat, id < width
  PROVE  /\ required_words(width) \in Nat
         /\ id \div Word \in 0..required_words(width) - 1
  BY MaskAssumption DEF required_words

\* The last word, where it is not whole.
LEMMA LastWord ==
  ASSUME NEW width \in Nat, NEW id \in Nat, id < width, width % Word # 0,
         id \div Word = required_words(width) - 1
  PROVE  id % Word \in 0..(width % Word) - 1
  <1> DEFINE W == Word
             q == width \div W
             r == width % W
  <1>1. /\ W \in Nat \ {0} /\ q \in Nat /\ r \in 0..W - 1 /\ r # 0
        /\ width = q * W + r
    BY Places, MaskAssumption
  <1>2. width + W - 1 = (q + 1) * W + (r - 1)
    <2>1. (q + 1) * W = q * W + W /\ q * W \in Nat
      BY <1>1
    <2> HIDE DEF q, r, W
    <2> QED
      BY <1>1, <2>1
  <1>3. required_words(width) = q + 1
    <2>1. q + 1 \in Nat /\ r - 1 \in 0..Word - 1
      BY <1>1
    <2>2. ((q + 1) * Word + (r - 1)) \div Word = q + 1
      BY <2>1, OnePlace
    <2> QED
      BY <1>2, <2>2 DEF required_words
  <1>4. id \div W = q
    BY <1>1, <1>3
  <1>5. id = q * W + (id % W) /\ id % W \in Nat
    BY <1>4, Places
  <1> HIDE DEF q, r
  <1> DEFINE rest == id % W
             base == q * W
  <1>6. base + rest < base + r /\ base \in Nat /\ rest \in Nat
    <2>1. base \in Nat
      BY <1>1
    <2> QED
      BY <1>1, <1>5, <2>1
  <1> HIDE DEF base, rest
  <1>7. rest \in 0..r - 1
    BY <1>1, <1>6
  <1> QED
    BY <1>7 DEF rest, r

MaskOf(width, ids) ==
    [word \in 0..required_words(width) - 1 |->
        { id % Word : id \in { i \in ids : i \div Word = word } }]

LEMMA SetOne ==
  ASSUME NEW width \in Nat, NEW ids, NEW id \in Nat, id < width
  PROVE  SetIn({MaskOf(width, ids)}, id) = {MaskOf(width, ids \union {id})}
  <1> DEFINE words == MaskOf(width, ids)
             at == id \div Word
             more == [words EXCEPT ![at] = @ \union {id % Word}]
             R == 0..required_words(width) - 1
  <1>1. at \in R /\ DOMAIN words = R
    BY WordsSuffice DEF MaskOf
  <1>2. SetIn({words}, id) = {more}
    <2>1. set_token(words, id) = {more}
      BY <1>1 DEF set_token
    <2> HIDE DEF words, more
    <2> QED
      BY <2>1 DEF SetIn
  <1>3. more = [word \in R |-> IF word = at THEN words[word] \union {id % Word} ELSE words[word]]
    <2> HIDE DEF at, R
    <2> QED
      BY <1>1 DEF MaskOf
  <1>4. ASSUME NEW word \in R
        PROVE  { i % Word : i \in { j \in ids \union {id} : j \div Word = word } } =
                  IF word = at THEN words[word] \union {id % Word} ELSE words[word]
    <2>1. words[word] = { i % Word : i \in { j \in ids : j \div Word = word } }
      BY DEF MaskOf
    <2> HIDE DEF words
    <2> QED
      BY <2>1
  <1>5. MaskOf(width, ids \union {id}) =
           [word \in R |-> IF word = at THEN words[word] \union {id % Word} ELSE words[word]]
    <2> HIDE DEF words, at
    <2> QED
      BY <1>4 DEF MaskOf
  <1> QED
    BY <1>2, <1>3, <1>5

LEMMA ClearsNothing ==
  ASSUME NEW width \in Nat, NEW ids \in SUBSET Nat, \A id \in ids : id < width
  PROVE  clear_padding(MaskOf(width, ids), width) = MaskOf(width, ids)
  <1> DEFINE words == MaskOf(width, ids)
             last == required_words(width) - 1
             few == 0..(width % Word) - 1
  <1>1. DOMAIN words = 0..last /\ words = [word \in 0..last |-> words[word]]
    BY DEF MaskOf
  <1>2. ASSUME width % Word # 0, last \in DOMAIN words PROVE words[last] \cap few = words[last]
    <2>1. words[last] = { id % Word : id \in { i \in ids : i \div Word = last } }
      BY <1>2 DEF MaskOf
    <2>2. \A id \in ids : id \div Word = last => id % Word \in few
      BY <1>2, LastWord
    <2> HIDE DEF words, last, few
    <2> QED
      BY <2>1, <2>2
  <1>3. CASE width % Word = 0
    BY <1>3 DEF clear_padding
  <1>4. CASE width % Word # 0
    <2>1. clear_padding(words, width) = [words EXCEPT ![last] = @ \cap few]
      BY <1>4 DEF clear_padding
    <2> HIDE DEF words, last, few
    <2>2. [words EXCEPT ![last] = @ \cap few] = words
      BY <1>1, <1>2, <1>4
    <2> QED
      BY <2>1, <2>2 DEF words
  <1> QED
    BY <1>3, <1>4

LEMMA ShownAgain ==
  ASSUME NEW width \in Nat, NEW ids \in SUBSET Nat, \A id \in ids : id < width
  PROVE  Shown(MaskOf(width, ids)) = ids
  <1> DEFINE words == MaskOf(width, ids)
             R == 0..required_words(width) - 1
  <1>1. DOMAIN words = R
    BY DEF MaskOf
  <1>2. \A word \in R : words[word] = { id % Word : id \in { i \in ids : i \div Word = word } }
    BY DEF MaskOf
  <1> HIDE DEF words
  <1>3. ASSUME NEW id \in ids PROVE id \in Shown(words)
    <2>1. id \div Word \in R /\ id % Word \in words[id \div Word]
      BY <1>2, WordsSuffice
    <2>2. id = (id \div Word) * Word + (id % Word)
      BY Places
    <2> HIDE DEF R
    <2> QED
      BY <1>1, <2>1, <2>2 DEF Shown
  <1>4. ASSUME NEW id \in Shown(words) PROVE id \in ids
    <2>1. PICK word \in R : \E bit \in words[word] : id = word * Word + bit
      BY <1>1 DEF Shown
    <2>2. PICK bit \in words[word] : id = word * Word + bit
      BY <2>1
    <2>3. PICK i \in ids : i \div Word = word /\ bit = i % Word
      BY <1>2
    <2>4. i = id
      BY <2>2, <2>3, Places
    <2> QED
      BY <2>3, <2>4
  <1> QED
    BY <1>3, <1>4 DEF words

-------------------------------------------------------------------------------
(* A mask is written id by id.                                              *)

Writing == INSTANCE Folding WITH Op <- SetIn

LEMMA WritingFolds ==
  ASSUME NEW base, NEW s
  PROVE  FoldLeft(SetIn, base, s) = Writing!Left(base, s)
  BY DEF FoldLeft, Writing!Left, Writing!FoldLeft, MapThenFoldSet,
     Writing!MapThenFoldSet, Max, Writing!Max

\* The elements of a finite set in a row.
LEMMA InARow ==
  ASSUME NEW S, IsFiniteSet(S)
  PROVE  /\ IsSeq(SetToSeq(S))
         /\ { SetToSeq(S)[i] : i \in 1..Len(SetToSeq(S)) } = S
  <1> DEFINE n == Cardinality(S)
             row == SetToSeq(S)
  <1>1. n \in Nat /\ \E f : f \in Bijection(1..n, S)
    BY FS_CardinalityType DEF ExistsBijection
  <1>2. \E f \in [1..n -> S] : IsInjective(f)
    <2>1. PICK f : f \in Bijection(1..n, S)
      BY <1>1
    <2>2. f \in [1..n -> S] /\ IsInjective(f)
      BY <2>1 DEF Bijection, Injection, Surjection, IsInjective
    <2> QED
      BY <2>2
  <1>3. row = CHOOSE f \in [1..n -> S] : IsInjective(f)
    BY DEF SetToSeq
  <1> HIDE DEF row
  <1>4. row \in [1..n -> S] /\ IsInjective(row)
    BY <1>2, <1>3
  <1>5. row \in Injection(1..n, S)
    BY <1>4 DEF Injection, IsInjective
  <1>6. row \in Surjection(1..n, S)
    <2>1. Cardinality(1..n) = n
      BY <1>1, FS_Interval
    <2> HIDE DEF n
    <2> QED
      BY <1>5, <2>1, FS_Injection DEF n
  <1>7. row \in Seq(S) /\ Len(row) = n
    <2> HIDE DEF n
    <2> QED
      BY <1>1, <1>4
  <1>8. { row[i] : i \in 1..Len(row) } = S
    <2> HIDE DEF n
    <2> QED
      BY <1>6, <1>7 DEF Surjection
  <1>9. IsSeq(row)
    BY <1>7, SeqIsSeq
  <1> QED
    BY <1>8, <1>9 DEF row

LEMMA WritesAll ==
  ASSUME NEW width \in Nat, NEW ids \in SUBSET Nat, IsFiniteSet(ids), ids # {},
         \A id \in ids : id < width
  PROVE  write_mask(ids, width) = {MaskOf(width, ids)}
  <1> DEFINE row == SetToSeq(ids)
             base == {Cleared(width)}
             first(n) == { row[i] : i \in 1..n }
             S == { n \in Nat : n <= Len(row) =>
                      Writing!Left(base, Writing!Truncate(row, n)) = {MaskOf(width, first(n))} }
  <1>1. IsSeq(row) /\ first(Len(row)) = ids
    BY InARow
  <1>2. /\ Len(row) \in Nat
        /\ \A i \in 1..Len(row) : row[i] \in Nat /\ row[i] < width
    <2> HIDE DEF row
    <2> QED
      BY <1>1, IsSeqLen
  <1> HIDE DEF row
  <1>3. base = {MaskOf(width, {})}
    BY DEF Cleared, MaskOf
  <1> HIDE DEF base
  <1>3a. Writing!IsSeq(row)
    BY <1>1 DEF IsSeq, Writing!IsSeq, ToSet, Writing!ToSet
  <1>4. /\ Writing!Left(base, Writing!Truncate(row, 0)) = base
        /\ \A n \in Nat : n + 1 <= Len(row) =>
              Writing!Left(base, Writing!Truncate(row, n + 1)) =
                SetIn(Writing!Left(base, Writing!Truncate(row, n)), row[n + 1])
        /\ Writing!Truncate(row, Len(row)) = row
    BY <1>3a, Writing!LeftStages, Zenon
  <1>5. 0 \in S
    <2>1. first(0) = {}
      OBVIOUS
    <2> HIDE DEF first
    <2>2. Writing!Left(base, Writing!Truncate(row, 0)) = {MaskOf(width, first(0))}
      BY <1>3, <1>4, <2>1
    <2> QED
      BY <2>2
  <1>6. ASSUME NEW n \in Nat, n \in S PROVE n + 1 \in S
    <2> SUFFICES ASSUME n + 1 <= Len(row)
                 PROVE  Writing!Left(base, Writing!Truncate(row, n + 1)) = {MaskOf(width, first(n + 1))}
      OBVIOUS
    <2>1. Writing!Left(base, Writing!Truncate(row, n)) = {MaskOf(width, first(n))}
      BY <1>2, <1>6
    <2>2. first(n + 1) = first(n) \union {row[n + 1]}
      <3>1. 1..(n + 1) = 1..n \union {n + 1}
        OBVIOUS
      <3> QED
        BY <3>1
    <2>3. row[n + 1] \in Nat /\ row[n + 1] < width
      BY <1>2
    <2> HIDE DEF first
    <2>4. SetIn({MaskOf(width, first(n))}, row[n + 1]) = {MaskOf(width, first(n) \union {row[n + 1]})}
      BY <2>3, SetOne
    <2> QED
      BY <1>4, <2>1, <2>2, <2>4
  <1> HIDE DEF S
  <1>7. Len(row) \in S
    BY <1>2, <1>5, <1>6, Induct
  <1>8. Writing!Left(base, row) = {MaskOf(width, ids)}
    <2>1. Writing!Left(base, Writing!Truncate(row, Len(row))) = {MaskOf(width, first(Len(row)))}
      BY <1>2, <1>7 DEF S
    <2> HIDE DEF first
    <2> QED
      BY <1>1, <1>4, <2>1
  <1>9. write_mask(ids, width) = { clear_padding(words, width) : words \in {MaskOf(width, ids)} }
    BY <1>8, WritingFolds DEF write_mask, base, row
  <1> QED
    BY <1>9, ClearsNothing

-------------------------------------------------------------------------------
(* The masks shown.                                                         *)

NumbersInv ==
    /\ \A token \in DOMAIN vocabulary : vocabulary[token] \in Seq(Nat)
    /\ vocab_size \in Nat

MaskInv ==
    mask.shown =>
        /\ HasGuide
        /\ \E numel \in Nat :
              /\ numel >= ExpectedElements
              /\ mask.tokens = { id \in allowed_tokens(guide.state) : id \div Word < numel }

LEMMA NumbersInit == Init => NumbersInv
  <1> SUFFICES ASSUME Init PROVE NumbersInv
    OBVIOUS
  <1>1. vocabulary \in Maps /\ vocab_size = 0
    BY DEF Init, IndexInit
  <1> QED
    BY <1>1, IdsAreNumbers DEF NumbersInv

LEMMA NumbersNext ==
  ASSUME BuildInv, NumbersInv, [Next]_vars
  PROVE  NumbersInv'
  <1>1. CASE \E entry \in Entries : TryInsert(entry)
    <2>1. PICK entry \in Entries : TryInsert(entry)
      BY <1>1
    <2>2. vocabulary' = try_insert(vocabulary, entry.token, entry.id) /\ vocab_size' = vocab_size
      BY <2>1 DEF TryInsert, index
    <2>3. ASSUME NEW token \in DOMAIN vocabulary' PROVE vocabulary'[token] \in Seq(Nat)
      <3> DEFINE ids == IF token \in DOMAIN vocabulary THEN vocabulary[token] ELSE <<>>
      <3>1. ids \in Seq(Nat) /\ entry.id \in Nat
        BY EmptySeq, IdsAreNumbers DEF NumbersInv
      <3>2. vocabulary'[token] = IF token # entry.token THEN vocabulary[token] ELSE Append(ids, entry.id)
        BY <2>2 DEF try_insert
      <3>3. token # entry.token => token \in DOMAIN vocabulary
        BY <2>2 DEF try_insert
      <3>4. Append(ids, entry.id) \in Seq(Nat)
        <4> HIDE DEF ids
        <4> QED
          BY <3>1
      <3> HIDE DEF ids
      <3> QED
        BY <3>2, <3>3, <3>4 DEF NumbersInv
    <2> QED
      BY <2>2, <2>3 DEF NumbersInv
  <1>2. CASE \E token \in DOMAIN vocabulary : RemoveToken(token)
    BY <1>2 DEF RemoveToken, NumbersInv, index
  <1>3. CASE \E p \in Patterns : NewIndex(p)
    <2>1. vocabulary' = vocabulary /\ vocab_size' = vocabulary_len(vocabulary)
      BY <1>3 DEF NewIndex
    <2>2. vocabulary_len(vocabulary) \in Nat
      BY CountsAreNumbers DEF BuildInv, NumbersInv
    <2> QED
      BY <2>1, <2>2 DEF NumbersInv
  <1>4. CASE Build \/ UNCHANGED indexVars
    BY <1>4 DEF NumbersInv, Build, Expand, Refuse, Built, indexVars, index
  <1>5. IndexNext \/ UNCHANGED indexVars
    BY DEF Next, Prepare, NewGuide, Advance, rollback_state, Reset, Pickle, WriteMask, vars
  <1> QED
    BY <1>1, <1>2, <1>3, <1>4, <1>5 DEF IndexNext

LEMMA MaskNext ==
  ASSUME GuideInv, MaskInv, [Next]_vars
  PROVE  MaskInv'
  <1>1. CASE Prepare
    <2>1. phase # "built"
      BY <1>1 DEF Prepare, IndexNext, TryInsert, RemoveToken, NewIndex, Idle, Build, Expand, Refuse, Built
    <2>2. ~HasGuide /\ mask' = mask
      BY <1>1, <2>1 DEF GuideInv, Prepare, guideVars
    <2> QED
      BY <2>2 DEF MaskInv
  <1>2. CASE \/ \E n \in Rollbacks : NewGuide(n)
             \/ \E id \in Ids(vocabulary) : \E token \in DOMAIN vocabulary : Advance(id, token)
             \/ \E n \in 1..MaxEarlier : rollback_state(n)
             \/ Reset \/ Pickle
    <2>1. mask' = NoMask
      BY <1>2 DEF NewGuide, Advance, rollback_state, Reset, Pickle
    <2>2. ~mask'.shown
      BY <2>1 DEF NoMask
    <2> QED
      BY <2>2 DEF MaskInv
  <1>3. CASE (\E numel \in Buffers : WriteMask(numel))
    <2>1. PICK numel \in Buffers : WriteMask(numel)
      BY <1>3
    <2>2. /\ HasGuide' /\ numel \in Nat /\ numel >= ExpectedElements
          /\ mask'.tokens = { id \in allowed_tokens(guide.state) : id \div Word < numel }
          /\ guide' = guide /\ vocab_size' = vocab_size /\ transitions' = transitions
      BY <2>1, MaskAssumption DEF WriteMask, indexVars, index, HasGuide
    <2>3. allowed_tokens(guide.state)' = allowed_tokens(guide.state) /\ ExpectedElements' = ExpectedElements
      BY <2>2 DEF allowed_tokens, ExpectedElements
    <2> QED
      BY <2>2, <2>3 DEF MaskInv
  <1>4. CASE UNCHANGED vars
    BY <1>4 DEF vars, guideVars, indexVars, index, MaskInv, HasGuide, allowed_tokens, ExpectedElements
  <1> QED
    BY <1>1, <1>2, <1>3, <1>4 DEF Next

LEMMA LegacyShows ==
  ASSUME NumbersInv, MaskInv,
         \A id \in allowed_tokens(guide.state) : id \in Nat
  PROVE  LegacyMaskShows
  <1> SUFFICES ASSUME mask.shown, \A id \in allowed_tokens(guide.state) : id < vocab_size
               PROVE  mask.tokens = allowed_tokens(guide.state)
    BY DEF LegacyMaskShows
  <1>1. PICK numel \in Nat :
          /\ numel >= ExpectedElements
          /\ mask.tokens = { id \in allowed_tokens(guide.state) : id \div Word < numel }
    BY DEF MaskInv
  <1>2. ASSUME NEW id \in allowed_tokens(guide.state) PROVE id \div Word < numel
    <2>1. /\ required_words(vocab_size) \in Nat
          /\ id \div Word \in 0..required_words(vocab_size) - 1
      BY WordsSuffice DEF NumbersInv
    <2>2. required_words(vocab_size) = ExpectedElements
      BY DEF required_words, ExpectedElements
    <2> HIDE DEF ExpectedElements, required_words
    <2> QED
      BY <1>1, <2>1, <2>2
  <1> QED
    BY <1>1, <1>2

\* In an index built, what is allowed are ids of the vocabulary, finitely many.
LEMMA AllowedAreIds ==
  ASSUME BuildInv, NumbersInv, RowsInv, phase = "built"
  PROVE  /\ allowed_tokens(guide.state) \subseteq Ids(vocabulary) \union {Eos}
         /\ Ids(vocabulary) \union {Eos} \subseteq Nat
         /\ IsFiniteSet(allowed_tokens(guide.state))
  <1> DEFINE all == Ids(vocabulary) \union {Eos}
  <1>1. allowed_tokens(guide.state) \subseteq all
    <2>1. \A s : IdsOnward(s) \subseteq Ids(vocabulary)
      BY LeadsAre DEF IdsOnward, Ids
    <2>2. CASE guide.state \in DOMAIN transitions
      BY <2>1, <2>2 DEF RowsInv, IndexExact
    <2>3. CASE guide.state \notin DOMAIN transitions
      BY <2>3 DEF allowed_tokens
    <2> QED
      BY <2>2, <2>3
  <1>2. \A token \in DOMAIN vocabulary : IsFiniteSet(ToSet(vocabulary[token])) /\ ToSet(vocabulary[token]) \subseteq Nat
    <2> SUFFICES ASSUME NEW token \in DOMAIN vocabulary
                 PROVE  IsFiniteSet(ToSet(vocabulary[token])) /\ ToSet(vocabulary[token]) \subseteq Nat
      OBVIOUS
    <2> DEFINE ids == vocabulary[token]
    <2>1. ids \in Seq(Nat)
      BY DEF NumbersInv
    <2> HIDE DEF ids
    <2>2. Len(ids) \in Nat /\ DOMAIN ids = 1..Len(ids)
      BY <2>1, LenProperties
    <2>3. ids \in Surjection(1..Len(ids), ToSet(ids))
      <3>1. ids = [i \in 1..Len(ids) |-> ids[i]]
        BY <2>1
      <3> QED
        BY <2>2, <3>1 DEF Surjection, ToSet
    <2>4. IsFiniteSet(ToSet(ids))
      BY <2>2, <2>3, FS_Interval, FS_Surjection
    <2>5. ToSet(ids) \subseteq Nat
      BY <2>1, <2>2, ElementOfSeq DEF ToSet
    <2> QED
      BY <2>4, <2>5 DEF ids
  <1>3. IsFiniteSet(all) /\ all \subseteq Nat
    <2> DEFINE Kept == [token \in DOMAIN vocabulary |-> ToSet(vocabulary[token])]
    <2>1. Kept \in Surjection(DOMAIN vocabulary, Range(Kept))
      BY DEF Surjection, Range
    <2>2. IsFiniteSet(Range(Kept))
      <3> HIDE DEF Kept
      <3> QED
        BY <2>1, FS_Surjection DEF BuildInv
    <2>3. \A x \in Range(Kept) : IsFiniteSet(x) /\ x \subseteq Nat
      BY <1>2 DEF Range
    <2>4. UNION Range(Kept) = Ids(vocabulary)
      BY DEF Range, Ids
    <2> HIDE DEF Kept
    <2>5. IsFiniteSet(Ids(vocabulary)) /\ Ids(vocabulary) \subseteq Nat
      BY <2>2, <2>3, <2>4, FS_UNION
    <2> QED
      BY <2>5, FS_AddElement, IdsAreNumbers
  <1> HIDE DEF all
  <1>4. IsFiniteSet(allowed_tokens(guide.state))
    BY <1>1, <1>3, FS_Subset
  <1> QED
    BY <1>1, <1>3, <1>4 DEF all

LEMMA TableServes ==
  ASSUME BuildInv, GuideInv, NumbersInv, RowsInv
  PROVE  TableServesIndex
  <1> DEFINE allowed == allowed_tokens(guide.state)
  <1> SUFFICES ASSUME HasGuide, allowed # {},
                      NEW width \in ModelWidths, NEW table \in build(vocabulary, width)
               PROVE  /\ { Shown(words) : words \in write_mask(allowed, width) } = {allowed}
                      /\ \A id \in allowed \ {Eos} :
                            /\ id \in DOMAIN table
                            /\ Walk(guide.state, table[id]) = next_state(guide.state, id)
    BY DEF TableServesIndex
  <1>1. phase = "built" /\ guide.state \in DOMAIN transitions /\ width \in Nat
    BY WidthsNat DEF GuideInv
  <1>2. /\ allowed \subseteq Ids(vocabulary) \union {Eos} /\ allowed \in SUBSET Nat
        /\ IsFiniteSet(allowed)
    BY <1>1, AllowedAreIds
  <1>3. /\ table = EntriesOf(vocabulary)
        /\ ~Outside(vocabulary, width) /\ ~Conflicting(vocabulary)
    BY DEF build
  <1>4. \A id \in Ids(vocabulary) \union {Eos} : id < width
    <2>1. Ids(vocabulary) \union {Eos} \subseteq Nat
      BY <1>1, AllowedAreIds
    <2> QED
      BY <1>1, <1>3, <2>1 DEF Outside
  <1>5. \A id \in allowed : id < width
    BY <1>2, <1>4
  <1>6. ASSUME NEW id \in allowed \ {Eos}
        PROVE  id \in DOMAIN table /\ Walk(guide.state, table[id]) = next_state(guide.state, id)
    <2>1. PICK token \in DOMAIN Leads(guide.state) :
             id \in ToSet(vocabulary[token]) /\ next_state(guide.state, id) = Walk(guide.state, token)
      BY <1>1 DEF RowsInv, IndexExact
    <2>2. token \in DOMAIN vocabulary
      BY LeadsAre
    <2>3. id \in Ids(vocabulary)
      BY <2>1, <2>2 DEF Ids
    <2>4. table[id] = CHOOSE t \in DOMAIN vocabulary : id \in ToSet(vocabulary[t])
      BY <1>3, <2>3 DEF EntriesOf
    <2>5. \A t \in DOMAIN vocabulary : id \in ToSet(vocabulary[t]) => t = token
      BY <1>3, <2>1, <2>2 DEF Conflicting
    <2>6. table[id] = token
      BY <2>1, <2>2, <2>4, <2>5
    <2> QED
      BY <1>3, <2>1, <2>3, <2>6 DEF EntriesOf
  <1> HIDE DEF allowed
  <1>7. write_mask(allowed, width) = {MaskOf(width, allowed)}
    BY <1>1, <1>2, <1>5, WritesAll
  <1>8. Shown(MaskOf(width, allowed)) = allowed
    BY <1>1, <1>2, <1>5, ShownAgain
  <1>9. { Shown(words) : words \in write_mask(allowed, width) } = {allowed}
    BY <1>7, <1>8
  <1> QED
    BY <1>6, <1>9

\* What a mask shows is what the guide allows, for any width of an element, any buffer and
\* any ids, and the token table of a semantic guide has for each the bytes that lead where
\* the index says (write_mask_into, token_table.rs, mask.rs).
THEOREM MasksShowTokens == Spec => []MaskShowsTokens
  <1>1. Init => NumbersInv /\ MaskInv
    BY NumbersInit DEF Init, NoMask, MaskInv
  <1>2. BuildInv /\ GuideInv /\ NumbersInv /\ MaskInv /\ [Next]_vars => (NumbersInv /\ MaskInv)'
    BY NumbersNext, MaskNext
  <1>3. RowsInv /\ [Next]_vars => RowsInv'
    BY RowsNext
  <1>4. ASSUME BuildInv, GuideInv, NumbersInv, RowsInv, MaskInv PROVE MaskShowsTokens
    <2>1. mask.shown => LegacyMaskShows
      <3> SUFFICES ASSUME mask.shown PROVE LegacyMaskShows
        OBVIOUS
      <3>1. phase = "built"
        BY <1>4 DEF MaskInv, GuideInv
      <3>2. \A id \in allowed_tokens(guide.state) : id \in Nat
        BY <1>4, <3>1, AllowedAreIds
      <3> QED
        BY <1>4, <3>2, LegacyShows
    <2>2. LegacyMaskShows
      BY <2>1 DEF LegacyMaskShows
    <2>3. TableServesIndex
      BY <1>4, TableServes
    <2> QED
      BY <2>2, <2>3 DEF MaskShowsTokens
  <1> QED
    BY <1>1, <1>2, <1>3, <1>4, RowsInit, Invariance, PTL DEF Spec

===============================================================================
