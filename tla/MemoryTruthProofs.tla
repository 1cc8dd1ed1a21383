--------------------------- MODULE MemoryTruthProofs ---------------------------
(***************************************************************************)
(* What the semantic memory holds is what the open arrays and objects of the *)
(* text hold, for every schema, plan, import, fingerprint and limit          *)
(* (MemoryTellsTruth).  First the slots of the stores and what each operation *)
(* does to one; then what a new value does to what a history, a counter and   *)
(* a scope tell; then the handlers, the events of a token and the invariant.  *)
(***************************************************************************)
EXTENDS SemanticMemoryProofs

(* The stores as slots, one for each history, counter and scope.             *)
HistorySlot(k) == <<"history", k>>
CounterSlot(k) == <<"counter", k>>
ScopeSlot(o) == <<"scope", o>>

Held(m) ==
    { HistorySlot(k) : k \in DOMAIN m.histories }
      \union { CounterSlot(k) : k \in DOMAIN m.counters }
      \union { ScopeSlot(o) : o \in DOMAIN m.scopes }

Entry(m, slot) ==
    CASE slot[1] = "history" -> m.histories[slot[2]]
      [] slot[1] = "counter" -> m.counters[slot[2]]
      [] slot[1] = "scope" -> m.scopes[slot[2]]

(* The slots of an open frame, and that they tell what is in it.              *)
Slots(f) ==
    (IF HasHistory(f) THEN {HistorySlot(KeyOf(f))} ELSE {})
      \union (IF HasCounter(f) THEN {CounterSlot(KeyOf(f))} ELSE {})
      \union (IF HasScope(f) THEN {ScopeSlot(f.id)} ELSE {})

Says(x, slot, f) ==
    /\ slot[1] = "history" => HistoryTells(x, f.values)
    /\ slot[1] = "counter" => CounterTells(x, f)
    /\ slot[1] = "scope" => ScopeTells(x, f)

Tells(m, f) == IsSeq(f.values) /\ \A slot \in Slots(f) : Says(Entry(m, slot), slot, f)

(* One slot set, one slot dropped, and nothing else.                         *)
Sets(m, n, slot, new) ==
    /\ Held(n) = Held(m) \union {slot}
    /\ Entry(n, slot) = new
    /\ \A s \in Held(m) \ {slot} : Entry(n, s) = Entry(m, s)

Drops(m, n, slot) ==
    /\ Held(n) = Held(m) \ {slot}
    /\ \A s \in Held(n) : Entry(n, s) = Entry(m, s)

LEMMA SlotFacts ==
    ASSUME NEW m
    PROVE  /\ \A k : Entry(m, HistorySlot(k)) = m.histories[k]
           /\ \A k : Entry(m, CounterSlot(k)) = m.counters[k]
           /\ \A o : Entry(m, ScopeSlot(o)) = m.scopes[o]
           /\ \A k : HistorySlot(k) \in Held(m) <=> k \in DOMAIN m.histories
           /\ \A k : CounterSlot(k) \in Held(m) <=> k \in DOMAIN m.counters
           /\ \A o : ScopeSlot(o) \in Held(m) <=> o \in DOMAIN m.scopes
<1>1. \A k : Entry(m, HistorySlot(k)) = m.histories[k]
  BY DEF Entry, HistorySlot
<1>2. \A k : Entry(m, CounterSlot(k)) = m.counters[k]
  BY DEF Entry, CounterSlot
<1>3. \A o : Entry(m, ScopeSlot(o)) = m.scopes[o]
  BY DEF Entry, ScopeSlot
<1>4. \A k, l : /\ HistorySlot(k) # CounterSlot(l) /\ HistorySlot(k) # ScopeSlot(l)
                /\ CounterSlot(k) # ScopeSlot(l)
                /\ HistorySlot(k) = HistorySlot(l) => k = l
                /\ CounterSlot(k) = CounterSlot(l) => k = l
                /\ ScopeSlot(k) = ScopeSlot(l) => k = l
  BY DEF HistorySlot, CounterSlot, ScopeSlot
<1>5. /\ \A k : HistorySlot(k) \in Held(m) <=> k \in DOMAIN m.histories
      /\ \A k : CounterSlot(k) \in Held(m) <=> k \in DOMAIN m.counters
      /\ \A o : ScopeSlot(o) \in Held(m) <=> o \in DOMAIN m.scopes
  BY <1>4 DEF Held
<1> QED BY <1>1, <1>2, <1>3, <1>5

LEMMA SlotsDiffer ==
    ASSUME NEW k, NEW l
    PROVE  /\ HistorySlot(k) # CounterSlot(l) /\ HistorySlot(k) # ScopeSlot(l)
           /\ CounterSlot(k) # ScopeSlot(l)
           /\ HistorySlot(k) = HistorySlot(l) => k = l
           /\ CounterSlot(k) = CounterSlot(l) => k = l
           /\ ScopeSlot(k) = ScopeSlot(l) => k = l
BY DEF HistorySlot, CounterSlot, ScopeSlot

(* A store written with one key more, or overwritten, and without one.         *)
LEMMA WithFacts ==
    ASSUME NEW f, NEW k, NEW v
    PROVE  /\ DOMAIN With(f, k, v) = DOMAIN f \union {k} /\ With(f, k, v)[k] = v
           /\ \A x \in DOMAIN f \ {k} : With(f, k, v)[x] = f[x]
BY DEF With

LEMMA WithoutFacts ==
    ASSUME NEW f, NEW k
    PROVE  /\ DOMAIN Without(f, k) = DOMAIN f \ {k}
           /\ \A x \in DOMAIN f \ {k} : Without(f, k)[x] = f[x]
BY DEF Without

LEMMA HistorySet ==
    ASSUME NEW m, NEW n, NEW k, NEW v, n.histories = With(m.histories, k, v),
           n.counters = m.counters, n.scopes = m.scopes
    PROVE  Sets(m, n, HistorySlot(k), v)
<1> DEFINE w == With(m.histories, k, v)
<1>0. /\ DOMAIN w = DOMAIN m.histories \union {k} /\ w[k] = v
      /\ \A x \in DOMAIN m.histories \ {k} : w[x] = m.histories[x]
  BY DEF With
<1>1. /\ DOMAIN n.histories = DOMAIN m.histories \union {k} /\ n.histories[k] = v
      /\ \A x \in DOMAIN m.histories \ {k} : n.histories[x] = m.histories[x]
  BY <1>0
<1>2. Held(n) = Held(m) \union {HistorySlot(k)}
  BY <1>1 DEF Held
<1>3. Entry(n, HistorySlot(k)) = v
  BY <1>1, SlotFacts
<1>4. ASSUME NEW s \in Held(m) \ {HistorySlot(k)} PROVE Entry(n, s) = Entry(m, s)
  <2>1. CASE \E x \in DOMAIN m.histories : s = HistorySlot(x)
    <3>1. PICK x \in DOMAIN m.histories : s = HistorySlot(x)
      BY <2>1
    <3>2. x # k
      BY <3>1, <1>4
    <3> QED BY <1>1, <3>1, <3>2, SlotFacts
  <2>2. CASE \E x \in DOMAIN m.counters : s = CounterSlot(x)
    BY <2>2, SlotFacts
  <2>3. CASE \E x \in DOMAIN m.scopes : s = ScopeSlot(x)
    BY <2>3, SlotFacts
  <2> QED BY <1>4, <2>1, <2>2, <2>3 DEF Held
<1> QED BY <1>2, <1>3, <1>4 DEF Sets

LEMMA HistoryDropped ==
    ASSUME NEW m, NEW n, NEW k, n.histories = Without(m.histories, k),
           n.counters = m.counters, n.scopes = m.scopes
    PROVE  Drops(m, n, HistorySlot(k))
<1> DEFINE w == Without(m.histories, k)
<1>0. /\ DOMAIN w = DOMAIN m.histories \ {k}
      /\ \A x \in DOMAIN m.histories \ {k} : w[x] = m.histories[x]
  BY WithoutFacts
<1>1. /\ DOMAIN n.histories = DOMAIN m.histories \ {k}
      /\ \A x \in DOMAIN n.histories : n.histories[x] = m.histories[x]
  BY <1>0
<1>2. Held(n) = Held(m) \ {HistorySlot(k)}
  BY <1>1, SlotsDiffer DEF Held
<1>4. ASSUME NEW s \in Held(n) PROVE Entry(n, s) = Entry(m, s)
  <2>1. CASE \E x \in DOMAIN n.histories : s = HistorySlot(x)
    <3>1. PICK x \in DOMAIN n.histories : s = HistorySlot(x)
      BY <2>1
    <3> QED BY <1>1, <3>1, SlotFacts
  <2>2. CASE \E x \in DOMAIN n.counters : s = CounterSlot(x)
    BY <2>2, SlotFacts
  <2>3. CASE \E x \in DOMAIN n.scopes : s = ScopeSlot(x)
    BY <2>3, SlotFacts
  <2> QED BY <1>4, <2>1, <2>2, <2>3 DEF Held
<1> QED BY <1>2, <1>4 DEF Drops

LEMMA CounterSet ==
    ASSUME NEW m, NEW n, NEW k, NEW v, n.counters = With(m.counters, k, v),
           n.histories = m.histories, n.scopes = m.scopes
    PROVE  Sets(m, n, CounterSlot(k), v)
<1> DEFINE w == With(m.counters, k, v)
<1>0. /\ DOMAIN w = DOMAIN m.counters \union {k} /\ w[k] = v
      /\ \A x \in DOMAIN m.counters \ {k} : w[x] = m.counters[x]
  BY DEF With
<1>1. /\ DOMAIN n.counters = DOMAIN m.counters \union {k} /\ n.counters[k] = v
      /\ \A x \in DOMAIN m.counters \ {k} : n.counters[x] = m.counters[x]
  BY <1>0
<1>2. Held(n) = Held(m) \union {CounterSlot(k)}
  BY <1>1 DEF Held
<1>3. Entry(n, CounterSlot(k)) = v
  BY <1>1, SlotFacts
<1>4. ASSUME NEW s \in Held(m) \ {CounterSlot(k)} PROVE Entry(n, s) = Entry(m, s)
  <2>1. CASE \E x \in DOMAIN m.histories : s = HistorySlot(x)
    BY <2>1, SlotFacts
  <2>2. CASE \E x \in DOMAIN m.counters : s = CounterSlot(x)
    <3>1. PICK x \in DOMAIN m.counters : s = CounterSlot(x)
      BY <2>2
    <3>2. x # k
      BY <3>1, <1>4
    <3> QED BY <1>1, <3>1, <3>2, SlotFacts
  <2>3. CASE \E x \in DOMAIN m.scopes : s = ScopeSlot(x)
    BY <2>3, SlotFacts
  <2> QED BY <1>4, <2>1, <2>2, <2>3 DEF Held
<1> QED BY <1>2, <1>3, <1>4 DEF Sets

LEMMA CounterDropped ==
    ASSUME NEW m, NEW n, NEW k, n.counters = Without(m.counters, k),
           n.histories = m.histories, n.scopes = m.scopes
    PROVE  Drops(m, n, CounterSlot(k))
<1> DEFINE w == Without(m.counters, k)
<1>0. /\ DOMAIN w = DOMAIN m.counters \ {k}
      /\ \A x \in DOMAIN m.counters \ {k} : w[x] = m.counters[x]
  BY WithoutFacts
<1>1. /\ DOMAIN n.counters = DOMAIN m.counters \ {k}
      /\ \A x \in DOMAIN n.counters : n.counters[x] = m.counters[x]
  BY <1>0
<1>2. Held(n) = Held(m) \ {CounterSlot(k)}
  BY <1>1, SlotsDiffer DEF Held
<1>4. ASSUME NEW s \in Held(n) PROVE Entry(n, s) = Entry(m, s)
  <2>1. CASE \E x \in DOMAIN n.histories : s = HistorySlot(x)
    BY <2>1, SlotFacts
  <2>2. CASE \E x \in DOMAIN n.counters : s = CounterSlot(x)
    <3>1. PICK x \in DOMAIN n.counters : s = CounterSlot(x)
      BY <2>2
    <3> QED BY <1>1, <3>1, SlotFacts
  <2>3. CASE \E x \in DOMAIN n.scopes : s = ScopeSlot(x)
    BY <2>3, SlotFacts
  <2> QED BY <1>4, <2>1, <2>2, <2>3 DEF Held
<1> QED BY <1>2, <1>4 DEF Drops

LEMMA ScopeSet ==
    ASSUME NEW m, NEW n, NEW k, NEW v, n.scopes = With(m.scopes, k, v),
           n.histories = m.histories, n.counters = m.counters
    PROVE  Sets(m, n, ScopeSlot(k), v)
<1> DEFINE w == With(m.scopes, k, v)
<1>0. /\ DOMAIN w = DOMAIN m.scopes \union {k} /\ w[k] = v
      /\ \A x \in DOMAIN m.scopes \ {k} : w[x] = m.scopes[x]
  BY DEF With
<1>1. /\ DOMAIN n.scopes = DOMAIN m.scopes \union {k} /\ n.scopes[k] = v
      /\ \A x \in DOMAIN m.scopes \ {k} : n.scopes[x] = m.scopes[x]
  BY <1>0
<1>2. Held(n) = Held(m) \union {ScopeSlot(k)}
  BY <1>1 DEF Held
<1>3. Entry(n, ScopeSlot(k)) = v
  BY <1>1, SlotFacts
<1>4. ASSUME NEW s \in Held(m) \ {ScopeSlot(k)} PROVE Entry(n, s) = Entry(m, s)
  <2>1. CASE \E x \in DOMAIN m.histories : s = HistorySlot(x)
    BY <2>1, SlotFacts
  <2>2. CASE \E x \in DOMAIN m.counters : s = CounterSlot(x)
    BY <2>2, SlotFacts
  <2>3. CASE \E x \in DOMAIN m.scopes : s = ScopeSlot(x)
    <3>1. PICK x \in DOMAIN m.scopes : s = ScopeSlot(x)
      BY <2>3
    <3>2. x # k
      BY <3>1, <1>4
    <3> QED BY <1>1, <3>1, <3>2, SlotFacts
  <2> QED BY <1>4, <2>1, <2>2, <2>3 DEF Held
<1> QED BY <1>2, <1>3, <1>4 DEF Sets

LEMMA ScopeDropped ==
    ASSUME NEW m, NEW n, NEW k, n.scopes = Without(m.scopes, k),
           n.histories = m.histories, n.counters = m.counters
    PROVE  Drops(m, n, ScopeSlot(k))
<1> DEFINE w == Without(m.scopes, k)
<1>0. /\ DOMAIN w = DOMAIN m.scopes \ {k}
      /\ \A x \in DOMAIN m.scopes \ {k} : w[x] = m.scopes[x]
  BY WithoutFacts
<1>1. /\ DOMAIN n.scopes = DOMAIN m.scopes \ {k}
      /\ \A x \in DOMAIN n.scopes : n.scopes[x] = m.scopes[x]
  BY <1>0
<1>2. Held(n) = Held(m) \ {ScopeSlot(k)}
  BY <1>1, SlotsDiffer DEF Held
<1>4. ASSUME NEW s \in Held(n) PROVE Entry(n, s) = Entry(m, s)
  <2>1. CASE \E x \in DOMAIN n.histories : s = HistorySlot(x)
    BY <2>1, SlotFacts
  <2>2. CASE \E x \in DOMAIN n.counters : s = CounterSlot(x)
    BY <2>2, SlotFacts
  <2>3. CASE \E x \in DOMAIN n.scopes : s = ScopeSlot(x)
    <3>1. PICK x \in DOMAIN n.scopes : s = ScopeSlot(x)
      BY <2>3
    <3> QED BY <1>1, <3>1, SlotFacts
  <2> QED BY <1>4, <2>1, <2>2, <2>3 DEF Held
<1> QED BY <1>2, <1>4 DEF Drops

-------------------------------------------------------------------------------
(* A memory recalls what is open: it holds the slots of the open frames and    *)
(* no other, each that of one frame alone, and they tell what is in it.       *)
Recalls(m, open) ==
    /\ Held(m) = UNION { Slots(open[i]) : i \in 1..Len(open) }
    /\ \A i, j \in 1..Len(open) : i # j => Slots(open[i]) \intersect Slots(open[j]) = {}
    /\ \A i \in 1..Len(open) : Tells(m, open[i])

(* From m to n: slots added, slots dropped, and slots overwritten.            *)
Grown(m, n, slots) ==
    /\ Held(n) = Held(m) \union slots /\ Held(m) \intersect slots = {}
    /\ \A s \in Held(m) : Entry(n, s) = Entry(m, s)

Shrunk(m, n, slots) ==
    /\ Held(n) = Held(m) \ slots
    /\ \A s \in Held(n) : Entry(n, s) = Entry(m, s)

Rewritten(m, n, slots) ==
    /\ Held(n) = Held(m)
    /\ \A s \in Held(m) \ slots : Entry(n, s) = Entry(m, s)

LEMMA TellsStill ==
    ASSUME NEW m, NEW n, NEW f, Tells(m, f), \A s \in Slots(f) : Entry(n, s) = Entry(m, s)
    PROVE  Tells(n, f)
BY DEF Tells

LEMMA RecallsMore ==
    ASSUME NEW m, NEW n, NEW b, IsSeq(b), NEW f, Recalls(m, b), Grown(m, n, Slots(f)), Tells(n, f)
    PROVE  Recalls(n, Append(b, f))
<1> DEFINE a == Append(b, f)
           L == Len(b)
<1>1. Len(a) = L + 1 /\ a[L + 1] = f /\ (\A i \in 1..L : a[i] = b[i]) /\ L \in Nat
  BY IsSeqAppend, IsSeqLen
<1> HIDE DEF a, L
<1>2. 1..Len(a) = 1..L \union {L + 1} /\ L + 1 \notin 1..L
  BY <1>1
<1>3. \A i \in 1..L : Slots(b[i]) \subseteq Held(m)
  BY DEF Recalls, L
<1>4. Held(n) = UNION { Slots(a[i]) : i \in 1..Len(a) }
  <2> DEFINE In(i, x) == x \in Slots(a[i])
  <2>1. \A x : x \in Held(m) <=> \E i \in 1..L : x \in Slots(b[i])
    BY DEF Recalls, L
  <2>2. \A x : x \in Held(n) <=> x \in Held(m) \/ x \in Slots(f)
    BY DEF Grown
  <2>3. \A x : x \in Held(n) <=> (\E i \in 1..L : In(i, x)) \/ In(L + 1, x)
    BY <1>1, <2>1, <2>2
  <2> HIDE DEF In
  <2>4. \A x : x \in Held(n) <=> \E i \in 1..Len(a) : In(i, x)
    BY <1>2, <2>3
  <2> QED BY <2>4 DEF In
<1>5. ASSUME NEW i \in 1..Len(a), NEW j \in 1..Len(a), i # j
      PROVE  Slots(a[i]) \intersect Slots(a[j]) = {}
  <2>1. CASE i \in 1..L /\ j \in 1..L
    BY <1>1, <1>5, <2>1 DEF Recalls, L
  <2>2. CASE i \in 1..L /\ j = L + 1
    BY <1>1, <1>3, <2>2 DEF Grown
  <2>3. CASE i = L + 1 /\ j \in 1..L
    BY <1>1, <1>3, <2>3 DEF Grown
  <2> QED BY <1>2, <1>5, <2>1, <2>2, <2>3
<1>6. ASSUME NEW i \in 1..Len(a) PROVE Tells(n, a[i])
  <2>1. CASE i \in 1..L
    <3>1. Tells(m, b[i]) /\ \A s \in Slots(b[i]) : Entry(n, s) = Entry(m, s)
      BY <1>3, <2>1 DEF Recalls, Grown, L
    <3> QED BY <1>1, <2>1, <3>1, TellsStill
  <2>2. CASE i = L + 1
    BY <1>1, <2>2
  <2> QED BY <1>2, <2>1, <2>2
<1>7. Recalls(n, a)
  BY <1>4, <1>5, <1>6 DEF Recalls
<1> QED BY <1>7 DEF a

LEMMA RecallsUnder ==
    ASSUME NEW m, NEW n, NEW b, IsSeq(b), NEW f, Recalls(m, Append(b, f)), Shrunk(m, n, Slots(f))
    PROVE  Recalls(n, b)
<1> DEFINE a == Append(b, f)
           L == Len(b)
<1>1. Len(a) = L + 1 /\ a[L + 1] = f /\ (\A i \in 1..L : a[i] = b[i]) /\ L \in Nat
  BY IsSeqAppend, IsSeqLen
<1>2. Recalls(m, a)
  OBVIOUS
<1> HIDE DEF a, L
<1>3. 1..Len(a) = 1..L \union {L + 1} /\ L + 1 \notin 1..L
  BY <1>1
<1>4. \A i \in 1..L : Slots(b[i]) \intersect Slots(f) = {}
  BY <1>1, <1>2, <1>3 DEF Recalls
<1>5. Held(n) = UNION { Slots(b[i]) : i \in 1..L }
  <2> DEFINE In(i, x) == x \in Slots(a[i])
  <2>1. \A x : x \in Held(m) <=> \E i \in 1..Len(a) : In(i, x)
    BY <1>2 DEF Recalls
  <2>2. \A x : x \in Held(m) <=> (\E i \in 1..L : In(i, x)) \/ In(L + 1, x)
    <3> HIDE DEF In
    <3> QED BY <1>3, <2>1
  <2>3. \A x : x \in Held(m) <=> (\E i \in 1..L : x \in Slots(b[i])) \/ x \in Slots(f)
    BY <1>1, <2>2
  <2>4. \A x : x \in Held(n) <=> x \in Held(m) /\ x \notin Slots(f)
    BY DEF Shrunk
  <2>5. \A x : x \in Held(n) <=> \E i \in 1..L : x \in Slots(b[i])
    BY <1>4, <2>3, <2>4
  <2> QED BY <2>5
<1>6. ASSUME NEW i \in 1..L PROVE Tells(n, b[i])
  <2>1. Tells(m, b[i])
    BY <1>1, <1>2, <1>3 DEF Recalls
  <2>2. \A s \in Slots(b[i]) : Entry(n, s) = Entry(m, s)
    BY <1>5 DEF Shrunk
  <2> QED BY <2>1, <2>2, TellsStill
<1>7. \A i, j \in 1..L : i # j => Slots(b[i]) \intersect Slots(b[j]) = {}
  BY <1>1, <1>2, <1>3 DEF Recalls
<1> QED BY <1>5, <1>6, <1>7 DEF Recalls, L

LEMMA RecallsLast ==
    ASSUME NEW m, NEW b, IsSeq(b), NEW f, Recalls(m, Append(b, f))
    PROVE  Tells(m, f) /\ Slots(f) \subseteq Held(m)
<1> DEFINE a == Append(b, f)
           L == Len(b)
<1>1. Len(a) = L + 1 /\ a[L + 1] = f /\ L \in Nat
  BY IsSeqAppend, IsSeqLen
<1>2. Recalls(m, a)
  OBVIOUS
<1> HIDE DEF a, L
<1>3. L + 1 \in 1..Len(a)
  BY <1>1
<1> QED BY <1>1, <1>2, <1>3 DEF Recalls

LEMMA RecallsReplaced ==
    ASSUME NEW m, NEW n, NEW b, IsSeq(b), NEW f, NEW g, Recalls(m, Append(b, f)),
           Slots(g) = Slots(f), Rewritten(m, n, Slots(f)), Tells(n, g)
    PROVE  Recalls(n, Append(b, g))
<1> DEFINE a == Append(b, f)
           c == Append(b, g)
           L == Len(b)
<1>1. /\ Len(a) = L + 1 /\ a[L + 1] = f /\ (\A i \in 1..L : a[i] = b[i]) /\ L \in Nat
      /\ Len(c) = L + 1 /\ c[L + 1] = g /\ (\A i \in 1..L : c[i] = b[i])
  BY IsSeqAppend, IsSeqLen
<1>2. Recalls(m, a)
  OBVIOUS
<1> HIDE DEF a, c, L
<1>3. 1..Len(a) = 1..L \union {L + 1} /\ L + 1 \notin 1..L /\ 1..Len(c) = 1..Len(a)
  BY <1>1
<1>4. \A i \in 1..Len(a) : Slots(c[i]) = Slots(a[i])
  BY <1>1, <1>3
<1>5. Held(n) = UNION { Slots(c[i]) : i \in 1..Len(c) }
  BY <1>2, <1>3, <1>4 DEF Recalls, Rewritten
<1>6. \A i, j \in 1..Len(c) : i # j => Slots(c[i]) \intersect Slots(c[j]) = {}
  BY <1>2, <1>3, <1>4 DEF Recalls
<1>7. ASSUME NEW i \in 1..Len(c) PROVE Tells(n, c[i])
  <2>1. CASE i \in 1..L
    <3>1. Tells(m, b[i]) /\ Slots(b[i]) \subseteq Held(m) /\ Slots(b[i]) \intersect Slots(f) = {}
      BY <1>1, <1>2, <1>3, <2>1 DEF Recalls
    <3>2. \A s \in Slots(b[i]) : Entry(n, s) = Entry(m, s)
      BY <3>1 DEF Rewritten
    <3> QED BY <1>1, <2>1, <3>1, <3>2, TellsStill
  <2>2. CASE i = L + 1
    BY <1>1, <2>2
  <2> QED BY <1>3, <2>1, <2>2
<1>8. Recalls(n, c)
  BY <1>5, <1>6, <1>7 DEF Recalls
<1> QED BY <1>8 DEF c

(* One change after the other.                                              *)
LEMMA SetGrows ==
    ASSUME NEW m, NEW n, NEW slot, NEW new, Sets(m, n, slot, new), slot \notin Held(m)
    PROVE  Grown(m, n, {slot}) /\ Entry(n, slot) = new
BY DEF Sets, Grown

LEMMA SetRewrites ==
    ASSUME NEW m, NEW n, NEW slot, NEW new, Sets(m, n, slot, new), slot \in Held(m)
    PROVE  Rewritten(m, n, {slot}) /\ Entry(n, slot) = new
BY DEF Sets, Rewritten

LEMMA GrownTwice ==
    ASSUME NEW m, NEW n, NEW p, NEW S, NEW T, Grown(m, n, S), Grown(n, p, T)
    PROVE  Grown(m, p, S \union T) /\ \A s \in S : Entry(p, s) = Entry(n, s)
BY DEF Grown

LEMMA ShrunkTwice ==
    ASSUME NEW m, NEW n, NEW p, NEW S, NEW T, Shrunk(m, n, S), Shrunk(n, p, T)
    PROVE  Shrunk(m, p, S \union T)
BY DEF Shrunk

LEMMA RewrittenTwice ==
    ASSUME NEW m, NEW n, NEW p, NEW S, NEW T, Rewritten(m, n, S), Rewritten(n, p, T)
    PROVE  /\ Rewritten(m, p, S \union T)
           /\ \A s \in Held(m) : (s \notin T => Entry(p, s) = Entry(n, s))
                                 /\ (s \notin S => Entry(n, s) = Entry(m, s))
BY DEF Rewritten

LEMMA SameMemory ==
    ASSUME NEW m
    PROVE  Grown(m, m, {}) /\ Shrunk(m, m, {}) /\ Rewritten(m, m, {})
BY DEF Grown, Shrunk, Rewritten

-------------------------------------------------------------------------------
(* The slots of an array and of an object.                                    *)
LEMMA ArraySlots ==
    ASSUME NEW f, f.kind = "array"
    PROVE  Slots(f) = (IF Unique(f.node) THEN {HistorySlot(Key(f.id, f.node))} ELSE {})
                        \union (IF ContainsOf(f.node) # {} THEN {CounterSlot(Key(f.id, f.node))} ELSE {})
BY DEF Slots, HasHistory, HasCounter, HasScope, KeyOf

LEMMA ObjectSlots ==
    ASSUME NEW f, f.kind = "object"
    PROVE  Slots(f) = IF Extended(f.node) THEN {ScopeSlot(f.id)} ELSE {}
BY DEF Slots, HasHistory, HasCounter, HasScope

LEMMA ArrayTells ==
    ASSUME NEW m, NEW f, f.kind = "array"
    PROVE  LET k == Key(f.id, f.node)
           IN  Tells(m, f) <=>
                 /\ IsSeq(f.values)
                 /\ Unique(f.node) => HistoryTells(Entry(m, HistorySlot(k)), f.values)
                 /\ ContainsOf(f.node) # {} => CounterTells(Entry(m, CounterSlot(k)), f)
<1> DEFINE k == Key(f.id, f.node)
           h == HistorySlot(k)
           c == CounterSlot(k)
<1>1. /\ \A x : Says(x, h, f) <=> HistoryTells(x, f.values)
      /\ \A x : Says(x, c, f) <=> CounterTells(x, f)
  BY DEF Says, HistorySlot, CounterSlot
<1>2. Slots(f) = (IF Unique(f.node) THEN {h} ELSE {})
                   \union (IF ContainsOf(f.node) # {} THEN {c} ELSE {})
  BY ArraySlots
<1> HIDE DEF h, c
<1>3. Tells(m, f) <=> IsSeq(f.values) /\ (Unique(f.node) => HistoryTells(Entry(m, h), f.values))
                      /\ (ContainsOf(f.node) # {} => CounterTells(Entry(m, c), f))
  BY <1>1, <1>2 DEF Tells
<1> QED BY <1>3 DEF h, c

LEMMA ObjectTells ==
    ASSUME NEW m, NEW f, f.kind = "object"
    PROVE  Tells(m, f) <=>
             /\ IsSeq(f.values)
             /\ Extended(f.node) => ScopeTells(Entry(m, ScopeSlot(f.id)), f)
<1> DEFINE o == ScopeSlot(f.id)
<1>1. \A x : Says(x, o, f) <=> ScopeTells(x, f)
  BY DEF Says, ScopeSlot
<1>2. Slots(f) = IF Extended(f.node) THEN {o} ELSE {}
  BY ObjectSlots
<1> HIDE DEF o
<1> QED BY <1>1, <1>2 DEF Tells, o

-------------------------------------------------------------------------------
(* What a new value does to what a history, a counter and a scope tell.       *)
LEMMA NothingTold ==
    ASSUME NEW f, f.values = <<>>
    PROVE  /\ HistoryTells(EmptyHistory, f.values) /\ CounterTells(NewCounter, f)
           /\ ScopeTells(EmptyMap, f) /\ IsSeq(f.values)
<1>1. Len(f.values) = 0 /\ DOMAIN f.values = {} /\ IsSeq(f.values)
  BY IsSeqEmpty, IsSeqLen
<1>2. HistoryTells(EmptyHistory, f.values)
  BY <1>1 DEF HistoryTells, EmptyHistory, EmptyMap
<1>3. Satisfying(f) = {}
  BY <1>1 DEF Satisfying
<1>4. CounterTells(NewCounter, f)
  BY <1>1, <1>3, FS_EmptySet DEF CounterTells, NewCounter
<1>5. ScopeTells(EmptyMap, f)
  BY <1>1 DEF ScopeTells, EmptyMap
<1> QED BY <1>1, <1>2, <1>4, <1>5

LEMMA OtherLists ==
    ASSUME NEW values, IsSeq(values), NEW v, NEW bucket, NEW print, Lists(bucket, values, print),
           print # Fingerprint(v)
    PROVE  Lists(bucket, Append(values, v), print)
<1> DEFINE new == Append(values, v)
           L == Len(values)
<1>1. /\ DOMAIN values = 1..L /\ L \in Nat /\ DOMAIN new = 1..(L + 1) /\ new[L + 1] = v
      /\ \A i \in 1..L : new[i] = values[i]
  BY IsSeqAppend, IsSeqLen
<1>2. PICK at \in [DOMAIN bucket -> DOMAIN values] :
          /\ \A j, k \in DOMAIN bucket : j < k => at[j] < at[k]
          /\ { at[j] : j \in DOMAIN bucket } =
                { i \in DOMAIN values : Fingerprint(values[i]) = print }
          /\ \A j \in DOMAIN bucket : bucket[j] = values[at[j]]
  BY DEF Lists
<1> HIDE DEF new, L
<1>3. { i \in DOMAIN new : Fingerprint(new[i]) = print }
        = { i \in DOMAIN values : Fingerprint(values[i]) = print }
  <2>1. DOMAIN new = DOMAIN values \union {L + 1}
    BY <1>1
  <2> QED BY <1>1, <2>1
<1>4. at \in [DOMAIN bucket -> DOMAIN new]
  BY <1>1
<1>5. \A j \in DOMAIN bucket : bucket[j] = new[at[j]]
  BY <1>1, <1>2
<1> QED BY <1>2, <1>3, <1>4, <1>5 DEF Lists, new

LEMMA OneMoreLists ==
    ASSUME NEW values, IsSeq(values), NEW v, NEW bucket, IsSeq(bucket), NEW print,
           Lists(bucket, values, print), print = Fingerprint(v)
    PROVE  Lists(Append(bucket, v), Append(values, v), print)
<1> DEFINE new == Append(values, v)
           more == Append(bucket, v)
           L == Len(values)
           B == Len(bucket)
<1>1. /\ DOMAIN values = 1..L /\ L \in Nat /\ DOMAIN new = 1..(L + 1) /\ new[L + 1] = v
      /\ \A i \in 1..L : new[i] = values[i]
  BY IsSeqAppend, IsSeqLen
<1>2. /\ DOMAIN bucket = 1..B /\ B \in Nat /\ DOMAIN more = 1..(B + 1) /\ more[B + 1] = v
      /\ \A i \in 1..B : more[i] = bucket[i]
  BY IsSeqAppend, IsSeqLen
<1>3. PICK at \in [DOMAIN bucket -> DOMAIN values] :
          /\ \A j, k \in DOMAIN bucket : j < k => at[j] < at[k]
          /\ { at[j] : j \in DOMAIN bucket } =
                { i \in DOMAIN values : Fingerprint(values[i]) = print }
          /\ \A j \in DOMAIN bucket : bucket[j] = values[at[j]]
  BY DEF Lists
<1> HIDE DEF new, more, L, B
<1> DEFINE to == [j \in 1..(B + 1) |-> IF j = B + 1 THEN L + 1 ELSE at[j]]
<1>4. /\ \A j \in 1..B : to[j] = at[j] /\ at[j] \in 1..L /\ j \in 1..(B + 1)
      /\ to[B + 1] = L + 1 /\ B + 1 \in 1..(B + 1)
      /\ \A j \in 1..(B + 1) : j \in 1..B \/ j = B + 1
  BY <1>1, <1>2, <1>3
<1>5. to \in [1..(B + 1) -> 1..(L + 1)]
  BY <1>1, <1>2, <1>3
<1> HIDE DEF to
<1>6. ASSUME NEW j \in 1..(B + 1), NEW k \in 1..(B + 1), j < k PROVE to[j] < to[k]
  <2>1. j \in 1..B
    BY <1>2, <1>6
  <2>2. CASE k \in 1..B
    BY <1>2, <1>3, <1>4, <1>6, <2>1, <2>2
  <2>3. CASE k = B + 1
    BY <1>1, <1>4, <2>1, <2>3
  <2> QED BY <1>4, <2>2, <2>3
<1>7. { to[j] : j \in 1..(B + 1) } = { i \in 1..(L + 1) : Fingerprint(new[i]) = print }
  <2>1. ASSUME NEW j \in 1..(B + 1)
        PROVE  to[j] \in 1..(L + 1) /\ Fingerprint(new[to[j]]) = print
    <3>1. CASE j = B + 1
      BY <1>1, <1>4, <3>1
    <3>2. CASE j \in 1..B
      <4>1. at[j] \in { i \in DOMAIN values : Fingerprint(values[i]) = print }
        BY <1>2, <1>3, <3>2
      <4> QED BY <1>1, <1>4, <1>5, <3>2, <4>1
    <3> QED BY <1>4, <3>1, <3>2
  <2>2. ASSUME NEW i \in 1..(L + 1), Fingerprint(new[i]) = print
        PROVE  \E j \in 1..(B + 1) : i = to[j]
    <3>1. CASE i = L + 1
      BY <1>4, <3>1
    <3>2. CASE i \in 1..L
      <4>1. i \in { at[j] : j \in DOMAIN bucket }
        BY <1>1, <1>3, <2>2, <3>2
      <4> QED BY <1>2, <1>4, <4>1
    <3> QED BY <1>1, <3>1, <3>2
  <2> QED BY <2>1, <2>2
<1>8. ASSUME NEW j \in 1..(B + 1) PROVE more[j] = new[to[j]]
  <2>1. CASE j = B + 1
    BY <1>1, <1>2, <1>4, <2>1
  <2>2. CASE j \in 1..B
    <3>1. more[j] = bucket[j] /\ bucket[j] = values[at[j]] /\ at[j] \in 1..L /\ to[j] = at[j]
      BY <1>2, <1>3, <1>4, <2>2
    <3> QED BY <1>1, <3>1
  <2> QED BY <1>4, <2>1, <2>2
<1>9. /\ to \in [DOMAIN more -> DOMAIN new]
      /\ \A j, k \in DOMAIN more : j < k => to[j] < to[k]
      /\ { to[j] : j \in DOMAIN more } = { i \in DOMAIN new : Fingerprint(new[i]) = print }
      /\ \A j \in DOMAIN more : more[j] = new[to[j]]
  <2>1. DOMAIN more = 1..(B + 1) /\ DOMAIN new = 1..(L + 1)
    BY <1>1, <1>2
  <2> QED BY <1>5, <1>6, <1>7, <1>8, <2>1
<1>10. Lists(more, new, print)
  BY <1>9 DEF Lists
<1> QED BY <1>10 DEF more, new

Inserted(h, v) ==
    [buckets |-> With(h.buckets, Fingerprint(v), Append(Bucket(h, v), v)), len |-> h.len + 1]

LEMMA InsertedTells ==
    ASSUME NEW h, NEW V, WellFormedHistory(h, V), NEW values, IsSeq(values),
           HistoryTells(h, values), NEW v
    PROVE  HistoryTells(Inserted(h, v), Append(values, v))
<1> DEFINE new == Append(values, v)
           L == Len(values)
           p == Fingerprint(v)
           b == Bucket(h, v)
           g == Inserted(h, v)
<1>1. /\ DOMAIN values = 1..L /\ L \in Nat /\ DOMAIN new = 1..(L + 1) /\ new[L + 1] = v
      /\ Len(new) = L + 1 /\ \A i \in 1..L : new[i] = values[i]
  BY IsSeqAppend, IsSeqLen
<1>2. IsSeq(b) /\ Lists(b, values, p)
  <2>1. CASE p \in DOMAIN h.buckets
    <3>1. b = h.buckets[p] /\ h.buckets[p] \in Seq(V)
      BY <2>1 DEF Bucket, WellFormedHistory
    <3> QED BY <2>1, <3>1, SeqIsSeq DEF HistoryTells
  <2>2. CASE p \notin DOMAIN h.buckets
    <3>1. b = <<>> /\ IsSeq(<<>>) /\ DOMAIN b = {}
      BY <2>2, IsSeqEmpty DEF Bucket
    <3>2. \A i \in DOMAIN values : Fingerprint(values[i]) # p
      BY <2>2 DEF HistoryTells
    <3> DEFINE at == [j \in {} |-> j]
    <3>3. at \in [DOMAIN b -> DOMAIN values] /\ DOMAIN at = {}
      BY <3>1
    <3> QED BY <3>1, <3>2, <3>3 DEF Lists
  <2> QED BY <2>1, <2>2
<1>3. /\ g.len = h.len + 1 /\ DOMAIN g.buckets = DOMAIN h.buckets \union {p}
      /\ g.buckets[p] = Append(b, v)
      /\ \A q \in DOMAIN h.buckets \ {p} : g.buckets[q] = h.buckets[q]
  <2> DEFINE w == With(h.buckets, p, Append(b, v))
  <2>1. DOMAIN w = DOMAIN h.buckets \union {p} /\ w[p] = Append(b, v)
        /\ \A q \in DOMAIN h.buckets \ {p} : w[q] = h.buckets[q]
    BY DEF With
  <2>2. g.len = h.len + 1 /\ g.buckets = w
    BY DEF Inserted
  <2> HIDE DEF w, g
  <2> QED BY <2>1, <2>2
<1> HIDE DEF g, b, p, L
<1>4. g.len = Len(new)
  BY <1>1, <1>3 DEF HistoryTells, L
<1>5. DOMAIN g.buckets = { Fingerprint(new[i]) : i \in DOMAIN new }
  <2>1. \A i \in DOMAIN new : i \in 1..L \/ i = L + 1
    BY <1>1
  <2>2. \A x : x \in DOMAIN h.buckets <=> \E i \in 1..L : x = Fingerprint(values[i])
    BY <1>1 DEF HistoryTells
  <2>3. \A x : x \in DOMAIN g.buckets <=> (\E i \in 1..L : x = Fingerprint(new[i])) \/ x = Fingerprint(new[L + 1])
    BY <1>1, <1>3, <2>2 DEF p
  <2>4. \A i \in 1..L : i \in DOMAIN new
    BY <1>1
  <2>5. L + 1 \in DOMAIN new
    BY <1>1
  <2> HIDE DEF new
  <2> QED BY <2>1, <2>3, <2>4, <2>5
<1>6. ASSUME NEW q \in DOMAIN g.buckets PROVE Lists(g.buckets[q], new, q)
  <2>1. CASE q = p
    BY <1>2, <1>3, <2>1, OneMoreLists DEF p
  <2>2. CASE q # p
    <3>1. q \in DOMAIN h.buckets /\ Lists(h.buckets[q], values, q) /\ g.buckets[q] = h.buckets[q]
      BY <1>3, <2>2 DEF HistoryTells
    <3> QED BY <2>2, <3>1, OtherLists DEF p
  <2> QED BY <2>1, <2>2
<1>7. HistoryTells(g, new)
  BY <1>4, <1>5, <1>6 DEF HistoryTells
<1> QED BY <1>7 DEF g

LEMMA CountedTells ==
    ASSUME NEW f, IsSeq(f.values), NEW c, CounterTells(c, f), NEW v, NEW g,
           g.node = f.node, g.values = Append(f.values, v), NEW matched,
           matched = IF validate_predicate(schema, The(ContainsOf(f.node)).predicate, v,
                                           Limits[root]).valid THEN 1 ELSE 0
    PROVE  CounterTells(Counted(c, matched), g)
<1> DEFINE L == Len(f.values)
           yes(x) == validate_predicate(schema, The(ContainsOf(f.node)).predicate, x,
                                        Limits[root]).valid
           old == Satisfying(f)
           new == Satisfying(g)
<1>1. /\ DOMAIN f.values = 1..L /\ L \in Nat /\ DOMAIN g.values = 1..(L + 1)
      /\ g.values[L + 1] = v /\ Len(g.values) = L + 1
      /\ \A i \in 1..L : g.values[i] = f.values[i]
  BY IsSeqAppend, IsSeqLen
<1>2. /\ old = { i \in DOMAIN f.values : yes(f.values[i]) }
      /\ new = { i \in DOMAIN g.values : yes(g.values[i]) }
      /\ matched = IF yes(v) THEN 1 ELSE 0
  BY Zenon DEF Satisfying
<1>3. c.processed = L /\ c.matched = Cardinality(old)
  BY DEF CounterTells
<1> HIDE DEF L, yes, old, new
<1>4. old \subseteq 1..L /\ L + 1 \notin old /\ new = old \union (IF yes(v) THEN {L + 1} ELSE {})
  BY <1>1, <1>2
<1>5. IsFiniteSet(old) /\ Cardinality(old) \in Nat
  <2>1. 1 \in Int /\ L \in Int
    BY <1>1
  <2>2. IsFiniteSet(1..L)
    BY <2>1, FS_Interval
  <2>3. IsFiniteSet(old)
    BY <1>4, <2>2, FS_Subset
  <2> QED BY <2>3, FS_CardinalityType
<1>6. Cardinality(new) = Cardinality(old) + matched
  <2>1. CASE yes(v)
    <3>1. Cardinality(old \union {L + 1}) = Cardinality(old) + 1
      BY <1>4, <1>5, FS_AddElement
    <3> QED BY <1>2, <1>4, <2>1, <3>1
  <2>2. CASE ~yes(v)
    <3>1. new = old /\ matched = 0
      BY <1>2, <1>4, <2>2
    <3> QED BY <1>5, <3>1
  <2> QED BY <2>1, <2>2
<1>7. Counted(c, matched) = [processed |-> L + 1, matched |-> Cardinality(new)]
  BY <1>3, <1>6 DEF Counted
<1> QED BY <1>1, <1>7 DEF CounterTells, new

(* The registers that a property is captured in, and those registers set.      *)
CapturedIn(node, key) ==
    IF ActionsOf(node, key) = {} THEN {} ELSE ToSet(The(ActionsOf(node, key)).captures)

Captures(s, t, R, v) ==
    /\ DOMAIN t = DOMAIN s \union R
    /\ \A x \in R : t[x] = v
    /\ \A x \in DOMAIN s \ R : t[x] = s[x]

LEMMA CapturedTells ==
    ASSUME NEW f, IsSeq(f.values), NEW s, ScopeTells(s, f), NEW key, NEW v, NEW g,
           g.node = f.node, g.values = Append(f.values, <<key, v>>), NEW t,
           Captures(s, t, CapturedIn(f.node, key), v)
    PROVE  ScopeTells(t, g)
<1> DEFINE R == CapturedIn(f.node, key)
<1>0. /\ DOMAIN t = DOMAIN s \union R
      /\ \A x \in R : t[x] = v
      /\ \A x \in DOMAIN s \ R : t[x] = s[x]
  BY DEF Captures
<1> DEFINE L == Len(f.values)
           A(i) == RegistersAt(f, i)
           B(i) == RegistersAt(g, i)
<1>1. /\ DOMAIN f.values = 1..L /\ L \in Nat /\ DOMAIN g.values = 1..(L + 1)
      /\ g.values[L + 1] = <<key, v>> /\ \A i \in 1..L : g.values[i] = f.values[i]
  BY IsSeqAppend, IsSeqLen
<1>2. /\ \A i \in 1..L : B(i) = A(i)
      /\ B(L + 1) = R
  <2> HIDE DEF L
  <2>1. g.values[L + 1][1] = key
    BY <1>1
  <2> QED BY <1>1, <2>1 DEF RegistersAt, CapturedIn
<1>3. /\ DOMAIN s = UNION { A(i) : i \in 1..L }
      /\ \A i \in 1..L : \A x \in A(i) :
            (\A j \in 1..L : x \in A(j) => j <= i) => s[x] = f.values[i][2]
  BY <1>1, Zenon DEF ScopeTells
<1> HIDE DEF L, A, B, R
<1>4. \A i : i \in 1..(L + 1) <=> i \in 1..L \/ i = L + 1
  BY <1>1
<1>5. DOMAIN t = UNION { B(i) : i \in 1..(L + 1) }
  <2>1. \A x : x \in DOMAIN s <=> \E i \in 1..L : x \in A(i)
    BY <1>3
  <2>2. \A x : x \in DOMAIN t <=> (\E i \in 1..L : x \in B(i)) \/ x \in B(L + 1)
    BY <1>0, <1>2, <2>1
  <2>3. \A x : x \in DOMAIN t <=> \E i \in 1..(L + 1) : x \in B(i)
    BY <1>4, <2>2
  <2> QED BY <2>3
<1>6. ASSUME NEW i \in 1..(L + 1), NEW x \in B(i), \A j \in 1..(L + 1) : x \in B(j) => j <= i
      PROVE  t[x] = g.values[i][2]
  <2>1. CASE i = L + 1
    <3>1. x \in R /\ g.values[i] = <<key, v>>
      BY <1>1, <1>2, <2>1
    <3>0. <<key, v>>[2] = v
      OBVIOUS
    <3>2. g.values[i][2] = v
      BY <3>0, <3>1, Zenon
    <3>3. \A y \in R : t[y] = v
      BY <1>0
    <3>4. t[x] = v
      BY <3>1, <3>3, Zenon
    <3> QED BY <3>2, <3>4
  <2>2. CASE i \in 1..L
    <3>1. x \notin R
      BY <1>1, <1>2, <1>4, <1>6, <2>2
    <3>2. x \in A(i) /\ g.values[i] = f.values[i]
      BY <1>1, <1>2, <2>2
    <3>3. \A j \in 1..L : x \in A(j) => j <= i
      BY <1>2, <1>4, <1>6
    <3>4. x \in DOMAIN s /\ s[x] = f.values[i][2]
      BY <1>3, <2>2, <3>2, <3>3
    <3> QED BY <1>0, <3>1, <3>2, <3>4
  <2> QED BY <1>4, <2>1, <2>2
<1>7. ScopeTells(t, g)
  BY <1>1, <1>5, <1>6, Zenon DEF ScopeTells, B
<1> QED BY <1>7

-------------------------------------------------------------------------------
(* The operations of the stores, slot by slot.                               *)
LEMMA OneStoreEdited ==
    ASSUME NEW m, IsMemory(m), NEW x
    PROVE  /\ LET n == [m EXCEPT !.histories = x]
              IN  n.histories = x /\ n.counters = m.counters /\ n.scopes = m.scopes
           /\ LET n == [m EXCEPT !.counters = x]
              IN  n.counters = x /\ n.histories = m.histories /\ n.scopes = m.scopes
           /\ LET n == [m EXCEPT !.scopes = x]
              IN  n.scopes = x /\ n.histories = m.histories /\ n.counters = m.counters
BY DEF IsMemory

LEMMA HistoryOperations ==
    ASSUME NEW m, IsMemory(m), NEW k, NEW v
    PROVE  /\ Sets(m, CreateHistory(m, k), HistorySlot(k), EmptyHistory)
           /\ Sets(m, Insert(m, k, v), HistorySlot(k), Inserted(m.histories[k], v))
           /\ Drops(m, CloseHistory(m, k), HistorySlot(k))
<1>1. Sets(m, CreateHistory(m, k), HistorySlot(k), EmptyHistory)
  <2> DEFINE x == With(m.histories, k, EmptyHistory)
             n == CreateHistory(m, k)
  <2>1. n = [m EXCEPT !.histories = x]
    BY DEF CreateHistory
  <2> HIDE DEF x, n
  <2>2. n.histories = x /\ n.counters = m.counters /\ n.scopes = m.scopes
    BY <2>1, OneStoreEdited
  <2>3. Sets(m, n, HistorySlot(k), EmptyHistory)
    BY <2>2, HistorySet DEF x
  <2> QED BY <2>3 DEF n
<1>2. Sets(m, Insert(m, k, v), HistorySlot(k), Inserted(m.histories[k], v))
  <2> DEFINE g == Inserted(m.histories[k], v)
             x == With(m.histories, k, g)
             count == m.item_count + 1
             n == Insert(m, k, v)
  <2>1. n = [m EXCEPT !.histories = x, !.item_count = count]
    BY DEF Insert, Inserted
  <2> HIDE DEF x, n, count, g
  <2>2. n.histories = x /\ n.counters = m.counters /\ n.scopes = m.scopes
    BY <2>1, Zenon DEF IsMemory
  <2>3. Sets(m, n, HistorySlot(k), g)
    BY <2>2, HistorySet DEF x
  <2> QED BY <2>3 DEF n, g
<1>3. Drops(m, CloseHistory(m, k), HistorySlot(k))
  <2> DEFINE x == Without(m.histories, k)
             count == m.item_count - m.histories[k].len
             n == CloseHistory(m, k)
  <2>1. n = [m EXCEPT !.histories = x, !.item_count = count]
    BY DEF CloseHistory
  <2> HIDE DEF x, n, count
  <2>2. n.histories = x /\ n.counters = m.counters /\ n.scopes = m.scopes
    BY <2>1, Zenon DEF IsMemory
  <2>3. Drops(m, n, HistorySlot(k))
    BY <2>2, HistoryDropped DEF x
  <2> QED BY <2>3 DEF n
<1> QED BY <1>1, <1>2, <1>3

LEMMA CounterOperations ==
    ASSUME NEW m, IsMemory(m), NEW k, NEW matched
    PROVE  /\ Sets(m, CreateCounter(m, k), CounterSlot(k), NewCounter)
           /\ Sets(m, UpdateCounter(m, k, matched), CounterSlot(k), Counted(m.counters[k], matched))
           /\ Drops(m, CloseCounter(m, k), CounterSlot(k))
<1>1. ASSUME NEW new, NEW n, n = [m EXCEPT !.counters = With(m.counters, k, new)]
      PROVE  Sets(m, n, CounterSlot(k), new)
  <2> DEFINE x == With(m.counters, k, new)
  <2>1. n = [m EXCEPT !.counters = x]
    BY <1>1
  <2> HIDE DEF x
  <2>2. n.counters = x /\ n.histories = m.histories /\ n.scopes = m.scopes
    BY <2>1, OneStoreEdited
  <2> QED BY <2>2, CounterSet DEF x
<1>2. Drops(m, CloseCounter(m, k), CounterSlot(k))
  <2> DEFINE x == Without(m.counters, k)
             n == CloseCounter(m, k)
  <2>1. n = [m EXCEPT !.counters = x]
    BY DEF CloseCounter
  <2> HIDE DEF x, n
  <2>2. n.counters = x /\ n.histories = m.histories /\ n.scopes = m.scopes
    BY <2>1, OneStoreEdited
  <2>3. Drops(m, n, CounterSlot(k))
    BY <2>2, CounterDropped DEF x
  <2> QED BY <2>3 DEF n
<1>3. Sets(m, CreateCounter(m, k), CounterSlot(k), NewCounter)
  BY <1>1 DEF CreateCounter
<1>4. Sets(m, UpdateCounter(m, k, matched), CounterSlot(k), Counted(m.counters[k], matched))
  BY <1>1 DEF UpdateCounter
<1> QED BY <1>2, <1>3, <1>4

LEMMA ScopeOperations ==
    ASSUME NEW m, IsMemory(m), NEW o, NEW register, NEW v
    PROVE  /\ Sets(m, OpenScope(m, o), ScopeSlot(o), EmptyMap)
           /\ Sets(m, SetRegister(m, o, register, v), ScopeSlot(o), With(m.scopes[o], register, v))
           /\ Drops(m, CloseScope(m, o), ScopeSlot(o))
<1>1. Sets(m, OpenScope(m, o), ScopeSlot(o), EmptyMap)
  <2> DEFINE x == With(m.scopes, o, EmptyMap)
             n == OpenScope(m, o)
  <2>1. n = [m EXCEPT !.scopes = x]
    BY DEF OpenScope
  <2> HIDE DEF x, n
  <2>2. n.scopes = x /\ n.histories = m.histories /\ n.counters = m.counters
    BY <2>1, OneStoreEdited
  <2>3. Sets(m, n, ScopeSlot(o), EmptyMap)
    BY <2>2, ScopeSet DEF x
  <2> QED BY <2>3 DEF n
<1>2. Sets(m, SetRegister(m, o, register, v), ScopeSlot(o), With(m.scopes[o], register, v))
  <2> DEFINE g == With(m.scopes[o], register, v)
             x == With(m.scopes, o, g)
             count == NextCount(m, o, register)
             n == SetRegister(m, o, register, v)
  <2>1. n = [m EXCEPT !.scopes = x, !.value_count = count]
    BY DEF SetRegister
  <2> HIDE DEF x, n, count, g
  <2>2. n.scopes = x /\ n.histories = m.histories /\ n.counters = m.counters
    BY <2>1, Zenon DEF IsMemory
  <2>3. Sets(m, n, ScopeSlot(o), g)
    BY <2>2, ScopeSet DEF x
  <2> QED BY <2>3 DEF n, g
<1>3. Drops(m, CloseScope(m, o), ScopeSlot(o))
  <2> DEFINE x == Without(m.scopes, o)
             count == m.value_count - ScopeSize(m.scopes[o])
             n == CloseScope(m, o)
  <2>1. n = [m EXCEPT !.scopes = x, !.value_count = count]
    BY DEF CloseScope
  <2> HIDE DEF x, n, count
  <2>2. n.scopes = x /\ n.histories = m.histories /\ n.counters = m.counters
    BY <2>1, Zenon DEF IsMemory
  <2>3. Drops(m, n, ScopeSlot(o))
    BY <2>2, ScopeDropped DEF x
  <2> QED BY <2>3 DEF n
<1> QED BY <1>1, <1>2, <1>3

-------------------------------------------------------------------------------
(* What the operations have done to the memory once they are done.            *)
LEMMA RequireOk ==
    ASSUME NEW e, IsEffect(e), NEW c \in BOOLEAN, NEW why, why # "none", Ok(Require(e, c, why))
    PROVE  Require(e, c, why) = e /\ c /\ Ok(e)
<1>1. Fail(e, why).error = why
  BY DEF IsEffect, Fail
<1> QED BY <1>1 DEF Require, Ok

LEMMA MemoryStepOk ==
    ASSUME NEW e, IsEffect(e), NEW record, NEW changed, NEW f, f = MemoryStep(e, record, changed),
           Ok(f)
    PROVE  Ok(e) /\ f.memory = changed
<1> DEFINE full == Len(semanticJournal) + Len(e.semanticUndo) >= MaxRecords
           undo == Append(e.semanticUndo, record)
<1>1. Fail(e, "LimitExceeded").error = "LimitExceeded"
  BY DEF IsEffect, Fail
<1>2. ~Ok(Fail(e, "LimitExceeded"))
  BY <1>1 DEF Ok
<1>3. f = IF ~Ok(e) THEN e ELSE IF full THEN Fail(e, "LimitExceeded") ELSE WithMemory(e, undo, changed)
  BY DEF MemoryStep, WithMemory
<1> HIDE DEF full, undo
<1>4. Ok(e) /\ f = WithMemory(e, undo, changed)
  BY <1>2, <1>3
<1> QED BY <1>4, Changed

LEMMA RouterStepKeeps ==
    ASSUME NEW e, IsEffect(e), NEW record, NEW changed
    PROVE  RouterStep(e, record, changed).memory = e.memory
<1> DEFINE undo == Append(e.routerUndo, record)
           f == RouterStep(e, record, changed)
<1>1. Fail(e, "LimitExceeded").memory = e.memory
  BY DEF IsEffect, Fail
<1>2. f = e \/ f = Fail(e, "LimitExceeded") \/ f = WithRouter(e, undo, changed)
  BY DEF RouterStep, WithRouter
<1> HIDE DEF undo, f
<1>3. WithRouter(e, undo, changed).memory = e.memory
  BY Changed
<1> QED BY <1>1, <1>2, <1>3 DEF f

LEMMA CreateHistoryDone ==
    ASSUME NEW e, NEW r, NEW m, Retraces(e, r, m), NEW k, NEW f, f = create_history(e, k), Ok(f)
    PROVE  Grown(e.memory, f.memory, {HistorySlot(k)}) /\ Entry(f.memory, HistorySlot(k)) = EmptyHistory
<1> DEFINE fresh == k \notin DOMAIN e.memory.histories
           few == Cardinality(DOMAIN e.memory.histories) < MaxHistories
           q == Require(e, fresh, "DuplicateHistory")
           s == Require(q, few, "LimitExceeded")
           u == RemoveCreatedHistory(k)
           new == CreateHistory(e.memory, k)
<1>1. f = MemoryStep(s, u, new)
  BY DEF create_history
<1>2. Retraces(q, r, m) /\ (Ok(q) => q = e /\ fresh)
  <2>1. fresh \in BOOLEAN /\ "DuplicateHistory" # "none"
    OBVIOUS
  <2> HIDE DEF fresh
  <2> QED BY <2>1, RequireRetraces
<1> HIDE DEF q
<1>3. Retraces(s, r, m) /\ (Ok(s) => s = q)
  <2>1. few \in BOOLEAN /\ "LimitExceeded" # "none"
    OBVIOUS
  <2> HIDE DEF few
  <2> QED BY <1>2, <2>1, RequireRetraces
<1> HIDE DEF s, u, new
<1>4. IsEffect(s) /\ IsMemory(e.memory)
  BY <1>3 DEF Retraces
<1>5. Ok(s) /\ f.memory = new
  BY <1>1, <1>4, MemoryStepOk
<1>6. HistorySlot(k) \notin Held(e.memory)
  <2>1. k \notin DOMAIN e.memory.histories
    BY <1>2, <1>3, <1>5
  <2> QED BY <2>1, SlotFacts
<1>7. Sets(e.memory, f.memory, HistorySlot(k), EmptyHistory)
  <2>1. Sets(e.memory, CreateHistory(e.memory, k), HistorySlot(k), EmptyHistory)
    BY <1>4, HistoryOperations
  <2> QED BY <1>5, <2>1 DEF new
<1> QED BY <1>6, <1>7, SetGrows

LEMMA CreateCounterDone ==
    ASSUME NEW e, NEW r, NEW m, Retraces(e, r, m), NEW k, NEW f, f = create_counter(e, k), Ok(f)
    PROVE  Grown(e.memory, f.memory, {CounterSlot(k)}) /\ Entry(f.memory, CounterSlot(k)) = NewCounter
<1> DEFINE fresh == k \notin DOMAIN e.memory.counters
           few == Cardinality(DOMAIN e.memory.counters) < MaxCounters
           q == Require(e, fresh, "DuplicateCounter")
           s == Require(q, few, "LimitExceeded")
           u == RemoveCreatedCounter(k)
           new == CreateCounter(e.memory, k)
<1>1. f = MemoryStep(s, u, new)
  BY DEF create_counter
<1>2. Retraces(q, r, m) /\ (Ok(q) => q = e /\ fresh)
  <2>1. fresh \in BOOLEAN /\ "DuplicateCounter" # "none"
    OBVIOUS
  <2> HIDE DEF fresh
  <2> QED BY <2>1, RequireRetraces
<1> HIDE DEF q
<1>3. Retraces(s, r, m) /\ (Ok(s) => s = q)
  <2>1. few \in BOOLEAN /\ "LimitExceeded" # "none"
    OBVIOUS
  <2> HIDE DEF few
  <2> QED BY <1>2, <2>1, RequireRetraces
<1> HIDE DEF s, u, new
<1>4. IsEffect(s) /\ IsMemory(e.memory)
  BY <1>3 DEF Retraces
<1>5. Ok(s) /\ f.memory = new
  BY <1>1, <1>4, MemoryStepOk
<1>6. CounterSlot(k) \notin Held(e.memory)
  <2>1. k \notin DOMAIN e.memory.counters
    BY <1>2, <1>3, <1>5
  <2> QED BY <2>1, SlotFacts
<1>7. Sets(e.memory, f.memory, CounterSlot(k), NewCounter)
  <2>1. Sets(e.memory, CreateCounter(e.memory, k), CounterSlot(k), NewCounter)
    BY <1>4, CounterOperations
  <2> QED BY <1>5, <2>1 DEF new
<1> QED BY <1>6, <1>7, SetGrows

LEMMA OpenScopeDone ==
    ASSUME NEW e, NEW r, NEW m, Retraces(e, r, m), NEW k, NEW f, f = open_scope(e, k), Ok(f)
    PROVE  Grown(e.memory, f.memory, {ScopeSlot(k)}) /\ Entry(f.memory, ScopeSlot(k)) = EmptyMap
<1> DEFINE fresh == k \notin DOMAIN e.memory.scopes
           few == Cardinality(DOMAIN e.memory.scopes) < MaxScopes
           q == Require(e, fresh, "DuplicateScope")
           s == Require(q, few, "LimitExceeded")
           u == RemoveCreatedRegisterScope(k)
           new == OpenScope(e.memory, k)
<1>1. f = MemoryStep(s, u, new)
  BY DEF open_scope
<1>2. Retraces(q, r, m) /\ (Ok(q) => q = e /\ fresh)
  <2>1. fresh \in BOOLEAN /\ "DuplicateScope" # "none"
    OBVIOUS
  <2> HIDE DEF fresh
  <2> QED BY <2>1, RequireRetraces
<1> HIDE DEF q
<1>3. Retraces(s, r, m) /\ (Ok(s) => s = q)
  <2>1. few \in BOOLEAN /\ "LimitExceeded" # "none"
    OBVIOUS
  <2> HIDE DEF few
  <2> QED BY <1>2, <2>1, RequireRetraces
<1> HIDE DEF s, u, new
<1>4. IsEffect(s) /\ IsMemory(e.memory)
  BY <1>3 DEF Retraces
<1>5. Ok(s) /\ f.memory = new
  BY <1>1, <1>4, MemoryStepOk
<1>6. ScopeSlot(k) \notin Held(e.memory)
  <2>1. k \notin DOMAIN e.memory.scopes
    BY <1>2, <1>3, <1>5
  <2> QED BY <2>1, SlotFacts
<1>7. Sets(e.memory, f.memory, ScopeSlot(k), EmptyMap)
  <2>1. Sets(e.memory, OpenScope(e.memory, k), ScopeSlot(k), EmptyMap)
    BY <1>4, ScopeOperations
  <2> QED BY <1>5, <2>1 DEF new
<1> QED BY <1>6, <1>7, SetGrows

LEMMA CloseHistoryDone ==
    ASSUME NEW e, NEW r, NEW m, Retraces(e, r, m), NEW k, NEW f, f = close_history(e, k), Ok(f)
    PROVE  Shrunk(e.memory, f.memory, {HistorySlot(k)})
<1> DEFINE held == k \in DOMAIN e.memory.histories
           q == Require(e, held, "MissingHistory")
           u == RestoreClosedHistory(e.memory, k)
           new == CloseHistory(e.memory, k)
<1>1. Retraces(q, r, m) /\ (Ok(q) => q = e)
  <2>1. held \in BOOLEAN /\ "MissingHistory" # "none"
    OBVIOUS
  <2> HIDE DEF held
  <2> QED BY <2>1, RequireRetraces
<1>2. f = IF Ok(q) THEN MemoryStep(q, RestoreClosedHistory(q.memory, k), CloseHistory(q.memory, k)) ELSE q
  BY DEF close_history, Then
<1> HIDE DEF q
<1>3. Ok(q) /\ f = MemoryStep(e, u, new)
  BY <1>1, <1>2
<1> HIDE DEF u, new
<1>4. IsEffect(e) /\ IsMemory(e.memory)
  BY DEF Retraces
<1>5. f.memory = new
  BY <1>3, <1>4, MemoryStepOk
<1>6. Drops(e.memory, CloseHistory(e.memory, k), HistorySlot(k))
  BY <1>4, HistoryOperations
<1> QED BY <1>5, <1>6 DEF new, Drops, Shrunk

LEMMA CloseScopeDone ==
    ASSUME NEW e, NEW r, NEW m, Retraces(e, r, m), NEW k, NEW f, f = close_scope(e, k), Ok(f)
    PROVE  Shrunk(e.memory, f.memory, {ScopeSlot(k)})
<1> DEFINE held == k \in DOMAIN e.memory.scopes
           q == Require(e, held, "MissingScope")
           u == RestoreClosedRegisterScope(e.memory, k)
           new == CloseScope(e.memory, k)
<1>1. Retraces(q, r, m) /\ (Ok(q) => q = e)
  <2>1. held \in BOOLEAN /\ "MissingScope" # "none"
    OBVIOUS
  <2> HIDE DEF held
  <2> QED BY <2>1, RequireRetraces
<1>2. f = IF Ok(q) THEN MemoryStep(q, RestoreClosedRegisterScope(q.memory, k), CloseScope(q.memory, k)) ELSE q
  BY DEF close_scope, Then
<1> HIDE DEF q
<1>3. Ok(q) /\ f = MemoryStep(e, u, new)
  BY <1>1, <1>2
<1> HIDE DEF u, new
<1>4. IsEffect(e) /\ IsMemory(e.memory)
  BY DEF Retraces
<1>5. f.memory = new
  BY <1>3, <1>4, MemoryStepOk
<1>6. Drops(e.memory, CloseScope(e.memory, k), ScopeSlot(k))
  BY <1>4, ScopeOperations
<1> QED BY <1>5, <1>6 DEF new, Drops, Shrunk

LEMMA CloseContainsDone ==
    ASSUME NEW e, NEW r, NEW m, Retraces(e, r, m), NEW k, NEW c, NEW f, f = close_contains(e, k, c),
           Ok(f)
    PROVE  Shrunk(e.memory, f.memory, {CounterSlot(k)})
<1> DEFINE held == k \in DOMAIN e.memory.counters
           q == Require(e, held, "MissingCounter")
           count == e.memory.counters[k]
           enough == count.matched >= c.lower
           under == ~Exceeds(count, c.upper)
           a == Require(e, enough, "ContainsMinimumNotMet")
           b == Require(a, under, "ContainsMaximumExceeded")
           u == RestoreClosedCounter(e.memory, k)
           new == CloseCounter(e.memory, k)
<1>1. Retraces(q, r, m) /\ (Ok(q) => q = e)
  <2>1. held \in BOOLEAN /\ "MissingCounter" # "none"
    OBVIOUS
  <2> HIDE DEF held
  <2> QED BY <2>1, RequireRetraces
<1>2. Ok(q)
  <2>1. ~Ok(q) => f = q
    BY DEF close_contains, Then
  <2> HIDE DEF q
  <2> QED BY <2>1
<1>3. f = MemoryStep(b, u, new)
  BY <1>1, <1>2, Zenon DEF close_contains, Then
<1> HIDE DEF q
<1>4. Retraces(a, r, m) /\ a.memory = e.memory
  <2>1. enough \in BOOLEAN /\ "ContainsMinimumNotMet" # "none"
    OBVIOUS
  <2> HIDE DEF enough
  <2> QED BY <2>1, RequireRetraces
<1> HIDE DEF a
<1>5. Retraces(b, r, m)
  <2>1. under \in BOOLEAN /\ "ContainsMaximumExceeded" # "none"
    OBVIOUS
  <2> HIDE DEF under
  <2> QED BY <1>4, <2>1, RequireRetraces
<1> HIDE DEF b, u, new
<1>6. IsEffect(b) /\ IsMemory(e.memory)
  BY <1>5 DEF Retraces
<1>7. f.memory = new
  BY <1>3, <1>6, MemoryStepOk
<1>8. Drops(e.memory, CloseCounter(e.memory, k), CounterSlot(k))
  BY <1>6, CounterOperations
<1> QED BY <1>7, <1>8 DEF new, Drops, Shrunk

(* From m to n, a register of a scope was set to v.                          *)
RegisterSet(m, n, slot, register, v) ==
    /\ slot \in Held(m) /\ Rewritten(m, n, {slot})
    /\ Entry(n, slot) = With(Entry(m, slot), register, v)

LEMMA SetRegisterDone ==
    ASSUME NEW e, NEW r, NEW m, Retraces(e, r, m), NEW k, NEW register, NEW v, NEW f,
           f = set_register(e, k, register, v), Ok(f)
    PROVE  RegisterSet(e.memory, f.memory, ScopeSlot(k), register, v)
<1> DEFINE held == k \in DOMAIN e.memory.scopes
           few == NextCount(e.memory, k, register) <= MaxRegisterValues
           q == Require(e, held, "MissingScope")
           s == Require(e, few, "LimitExceeded")
           u == RestoreRegister(e.memory, k, register)
           new == SetRegister(e.memory, k, register, v)
           slot == ScopeSlot(k)
           set == With(e.memory.scopes[k], register, v)
<1>1. Retraces(q, r, m) /\ (Ok(q) => q = e /\ held)
  <2>1. held \in BOOLEAN /\ "MissingScope" # "none"
    OBVIOUS
  <2> HIDE DEF held
  <2> QED BY <2>1, RequireRetraces
<1>2. Ok(q)
  <2>1. ~Ok(q) => f = q
    BY DEF set_register, Then
  <2> HIDE DEF q
  <2> QED BY <2>1
<1>3. f = MemoryStep(s, u, new)
  BY <1>1, <1>2 DEF set_register, Then
<1> HIDE DEF q
<1>4. Retraces(s, r, m)
  <2>1. few \in BOOLEAN /\ "LimitExceeded" # "none"
    OBVIOUS
  <2> HIDE DEF few
  <2> QED BY <2>1, RequireRetraces
<1> HIDE DEF s, u, new
<1>5. IsEffect(s) /\ IsMemory(e.memory)
  BY <1>4 DEF Retraces
<1>6. f.memory = new
  BY <1>3, <1>5, MemoryStepOk
<1>7. slot \in Held(e.memory) /\ Entry(e.memory, slot) = e.memory.scopes[k]
  BY <1>1, <1>2, SlotFacts
<1>8. Sets(e.memory, new, slot, set)
  BY <1>5, ScopeOperations DEF new
<1> HIDE DEF slot, set
<1>9. Rewritten(e.memory, f.memory, {slot}) /\ Entry(f.memory, slot) = set
  BY <1>6, <1>7, <1>8, SetRewrites
<1> QED BY <1>7, <1>9 DEF RegisterSet, slot, set

(* From m to n, a value was inserted in a history, or counted in a counter.    *)
ItemInserted(m, n, slot, v) ==
    /\ slot \in Held(m) /\ Rewritten(m, n, {slot})
    /\ Entry(n, slot) = Inserted(Entry(m, slot), v)
    /\ \E V : WellFormedHistory(Entry(m, slot), V)

ItemCounted(m, n, slot, matched) ==
    /\ slot \in Held(m) /\ Rewritten(m, n, {slot})
    /\ Entry(n, slot) = Counted(Entry(m, slot), matched)

Matching(predicate, v) ==
    IF validate_predicate(schema, predicate, v, Limits[root]).valid THEN 1 ELSE 0

LEMMA SealUniqueDone ==
    ASSUME NEW e, NEW r, NEW m, Retraces(e, r, m), NEW k, NEW v, NEW f,
           f = seal_unique_item(e, k, v), Ok(f)
    PROVE  ItemInserted(e.memory, f.memory, HistorySlot(k), v)
<1> DEFINE held == k \in DOMAIN e.memory.histories
           q == Require(e, held, "MissingHistory")
           h == e.memory.histories[k]
           l == CountChecks(e, Bucket(h, v), v)
           new == ~Holds(h, v)
           few == e.memory.item_count < MaxHistoryItems
           short == Len(Bucket(h, v)) < MaxBucketEntries
           a == Require(l, new, "DuplicateArrayItem")
           b == Require(a, few, "LimitExceeded")
           c == Require(b, short, "LimitExceeded")
           u == RestoreBucket(e.memory, k, v)
           grown == Insert(e.memory, k, v)
           slot == HistorySlot(k)
           set == Inserted(e.memory.histories[k], v)
<1>1. Retraces(q, r, m) /\ (Ok(q) => q = e /\ held)
  <2>1. held \in BOOLEAN /\ "MissingHistory" # "none"
    OBVIOUS
  <2> HIDE DEF held
  <2> QED BY <2>1, RequireRetraces
<1>2. Ok(q)
  <2>1. ~Ok(q) => f = q
    BY DEF seal_unique_item, Then
  <2> HIDE DEF q
  <2> QED BY <2>1
<1>3. Retraces(l, r, m) /\ l.memory = e.memory
  BY CountChecksRetraces
<1>4. Ok(l)
  <2>1. CASE ~Ok(l)
    <3>1. f = l
      BY <1>1, <1>2, <2>1, Zenon DEF seal_unique_item, Then
    <3> QED BY <2>1, <3>1
  <2> QED BY <2>1
<1>5. f = MemoryStep(c, u, grown)
  BY <1>1, <1>2, <1>3, <1>4, Zenon DEF seal_unique_item, Then
<1> HIDE DEF l, u, grown
<1>6. Retraces(a, r, m)
  <2>1. new \in BOOLEAN /\ "DuplicateArrayItem" # "none"
    OBVIOUS
  <2> HIDE DEF new
  <2> QED BY <1>3, <2>1, RequireRetraces
<1> HIDE DEF a
<1>7. Retraces(b, r, m)
  <2>1. few \in BOOLEAN /\ "LimitExceeded" # "none"
    OBVIOUS
  <2> HIDE DEF few
  <2> QED BY <1>6, <2>1, RequireRetraces
<1> HIDE DEF b
<1>8. Retraces(c, r, m)
  <2>1. short \in BOOLEAN /\ "LimitExceeded" # "none"
    OBVIOUS
  <2> HIDE DEF short
  <2> QED BY <1>7, <2>1, RequireRetraces
<1> HIDE DEF c
<1>9. IsEffect(c) /\ IsMemory(e.memory)
  BY <1>8 DEF Retraces
<1>10. f.memory = grown
  BY <1>5, <1>9, MemoryStepOk
<1>11. slot \in Held(e.memory) /\ Entry(e.memory, slot) = e.memory.histories[k]
  BY <1>1, <1>2, SlotFacts
<1>12. \E V : WellFormedHistory(e.memory.histories[k], V)
  BY <1>1, <1>2, <1>9 DEF IsMemory, HistoriesFit
<1>13. Sets(e.memory, grown, slot, set)
  BY <1>9, HistoryOperations DEF grown
<1> HIDE DEF slot, set
<1>14. Rewritten(e.memory, f.memory, {slot}) /\ Entry(f.memory, slot) = set
  BY <1>10, <1>11, <1>13, SetRewrites
<1> QED BY <1>11, <1>12, <1>14 DEF slot, set, ItemInserted

LEMMA SealContainsSteps ==
    ASSUME NEW e, NEW k, NEW v, NEW c, NEW max
    PROVE  LET outcome == validate_predicate(schema, c.predicate, v, Limits[root])
               matched == IF outcome.valid THEN 1 ELSE 0
               a == Require(e, ~outcome.limited, "LimitExceeded")
               b == Require(a, k \in DOMAIN e.memory.counters, "MissingCounter")
               d == Then(b, LAMBDA x :
                        MemoryStep(x, RestoreCounter(x.memory, k), UpdateCounter(x.memory, k, matched)))
               count == d.memory.counters[k]
               g == Require(d, ~Exceeds(count, c.upper), "ContainsMaximumExceeded")
           IN  seal_contains_item(e, k, v, c, max) =
                 IF Ok(d) THEN Require(g, ~Unreachable(count, c, max), "ContainsMinimumUnreachable")
                 ELSE d
<1> DEFINE outcome == validate_predicate(schema, c.predicate, v, Limits[root])
           matched == IF outcome.valid THEN 1 ELSE 0
           within == ~outcome.limited
           held == k \in DOMAIN e.memory.counters
           a == Require(e, within, "LimitExceeded")
           b == Require(a, held, "MissingCounter")
           d == Then(b, LAMBDA l :
                    MemoryStep(l, RestoreCounter(l.memory, k), UpdateCounter(l.memory, k, matched)))
           count == d.memory.counters[k]
           under == ~Exceeds(count, c.upper)
           hopeful == ~Unreachable(count, c, max)
           g == Require(d, under, "ContainsMaximumExceeded")
           f == seal_contains_item(e, k, v, c, max)
<1>2. f = IF Ok(d) THEN Require(g, hopeful, "ContainsMinimumUnreachable") ELSE d
  <2> HIDE DEF outcome
  <2> QED BY DEF seal_contains_item, Then, outcome
<1> QED BY <1>2

LEMMA SealContainsDone ==
    ASSUME NEW e, NEW r, NEW m, Retraces(e, r, m), NEW k, NEW v, NEW c, NEW max, NEW f,
           f = seal_contains_item(e, k, v, c, max), Ok(f)
    PROVE  ItemCounted(e.memory, f.memory, CounterSlot(k), Matching(c.predicate, v))
<1> DEFINE outcome == validate_predicate(schema, c.predicate, v, Limits[root])
           matched == IF outcome.valid THEN 1 ELSE 0
           within == ~outcome.limited
           held == k \in DOMAIN e.memory.counters
           a == Require(e, within, "LimitExceeded")
           b == Require(a, held, "MissingCounter")
           new == UpdateCounter(e.memory, k, matched)
           d == Then(b, LAMBDA x :
                    MemoryStep(x, RestoreCounter(x.memory, k), UpdateCounter(x.memory, k, matched)))
           count == d.memory.counters[k]
           under == ~Exceeds(count, c.upper)
           hopeful == ~Unreachable(count, c, max)
           g == Require(d, under, "ContainsMaximumExceeded")
           slot == CounterSlot(k)
           set == Counted(e.memory.counters[k], matched)
<1>1. Retraces(a, r, m) /\ a.memory = e.memory
  <2>1. within \in BOOLEAN /\ "LimitExceeded" # "none"
    OBVIOUS
  <2> HIDE DEF within
  <2> QED BY <2>1, RequireRetraces
<1>2. f = IF Ok(d) THEN Require(g, hopeful, "ContainsMinimumUnreachable") ELSE d
  BY SealContainsSteps, Zenon
<1> HIDE DEF a, matched
<1>3. Retraces(b, r, m) /\ (Ok(b) => b = a /\ held)
  <2>1. held \in BOOLEAN /\ "MissingCounter" # "none"
    OBVIOUS
  <2> HIDE DEF held
  <2> QED BY <1>1, <2>1, RequireRetraces
<1> HIDE DEF b
<1>4. Ok(d)
  <2> HIDE DEF d
  <2> QED BY <1>2
<1>5. Ok(b) /\ d = MemoryStep(b, RestoreCounter(b.memory, k), UpdateCounter(b.memory, k, matched))
  BY <1>4 DEF Then
<1> HIDE DEF d
<1>6. held /\ b.memory = e.memory /\ IsEffect(b) /\ IsMemory(e.memory)
  BY <1>1, <1>3, <1>5 DEF Retraces
<1>7. d.memory = new
  <2> DEFINE u == RestoreCounter(b.memory, k)
             changed == UpdateCounter(b.memory, k, matched)
  <2>1. d = MemoryStep(b, u, changed)
    BY <1>5
  <2> HIDE DEF u, changed
  <2>2. d.memory = changed
    BY <1>4, <1>6, <2>1, MemoryStepOk
  <2> QED BY <1>6, <2>2 DEF changed
<1>8. f.memory = d.memory
  <2> DEFINE last == Require(g, hopeful, "ContainsMinimumUnreachable")
  <2>1. f = last
    BY <1>2, <1>4
  <2>3. Retraces(d, r, m)
    <3>1. StoreCanUndo(new, RestoreCounter(e.memory, k)) /\ IsMemory(new)
          /\ StoreUndo(new, RestoreCounter(e.memory, k)) = e.memory
      <4>1. k \in DOMAIN e.memory.counters
        BY <1>6
      <4>2. PICK V : WellFormedMemory(e.memory, V)
        BY <1>6, MemoryWellFormed
      <4> QED BY <1>6, <4>1, <4>2, UndoUpdateCounter, CountersKeepMemory
    <3> DEFINE u == RestoreCounter(e.memory, k)
    <3>2. d = MemoryStep(b, u, new)
      BY <1>5, <1>6
    <3> HIDE DEF u, new
    <3> QED BY <1>3, <1>6, <3>1, <3>2, MemoryStepRetraces DEF u
  <2>4. Retraces(g, r, m) /\ g.memory = d.memory
    <3>1. under \in BOOLEAN /\ "ContainsMaximumExceeded" # "none"
      OBVIOUS
    <3> HIDE DEF under
    <3> QED BY <2>3, <3>1, RequireRetraces
  <2> HIDE DEF g
  <2>5. last.memory = g.memory
    <3>1. hopeful \in BOOLEAN /\ "ContainsMinimumUnreachable" # "none"
      OBVIOUS
    <3> HIDE DEF hopeful
    <3> QED BY <2>4, <3>1, RequireRetraces
  <2> QED BY <2>1, <2>4, <2>5
<1>9. slot \in Held(e.memory) /\ Entry(e.memory, slot) = e.memory.counters[k]
  BY <1>6, SlotFacts
<1>10. Sets(e.memory, new, slot, set)
  BY <1>6, CounterOperations
<1> HIDE DEF slot, set, new
<1>11. Rewritten(e.memory, f.memory, {slot}) /\ Entry(f.memory, slot) = set
  BY <1>7, <1>8, <1>9, <1>10, SetRewrites
<1> QED BY <1>9, <1>11 DEF slot, set, matched, ItemCounted, Matching

-------------------------------------------------------------------------------
(* The router's operations leave the memory alone.                           *)
LEMMA RequireKeeps ==
    ASSUME NEW e, IsEffect(e), NEW c \in BOOLEAN, NEW why
    PROVE  Require(e, c, why).memory = e.memory /\ IsEffect(Require(e, c, why))
<1>1. Fail(e, why).memory = e.memory /\ IsEffect(Fail(e, why))
  BY DEF IsEffect, Fail
<1> QED BY <1>1 DEF Require

LEMMA OpenArrayKeeps ==
    ASSUME NEW e, IsEffect(e), NEW id
    PROVE  open_array(e, id).memory = e.memory
<1> DEFINE is == schema[e.router.pending].kind = "array"
           q == Require(e, is, "ExpectedArray")
           u == PopOpenedFrame(e.router)
           new == [e.router EXCEPT !.stack = Append(@, RuntimeArray(id, e.router.pending)),
                                   !.pending = schema[e.router.pending].items]
<1>1. open_array(e, id) = RouterStep(q, u, new)
  BY DEF open_array
<1>2. q.memory = e.memory /\ IsEffect(q)
  <2>1. is \in BOOLEAN
    OBVIOUS
  <2> HIDE DEF is
  <2> QED BY <2>1, RequireKeeps
<1> HIDE DEF q, u, new
<1> QED BY <1>1, <1>2, RouterStepKeeps

LEMMA OpenObjectKeeps ==
    ASSUME NEW e, IsEffect(e), NEW id
    PROVE  open_object(e, id).memory = e.memory
<1> DEFINE is == schema[e.router.pending].kind = "object"
           q == Require(e, is, "ExpectedObject")
           u == PopOpenedFrame(e.router)
           new == [e.router EXCEPT !.stack = Append(@, RuntimeObject(id, e.router.pending))]
<1>1. open_object(e, id) = RouterStep(q, u, new)
  BY DEF open_object
<1>2. q.memory = e.memory /\ IsEffect(q)
  <2>1. is \in BOOLEAN
    OBVIOUS
  <2> HIDE DEF is
  <2> QED BY <2>1, RequireKeeps
<1> HIDE DEF q, u, new
<1> QED BY <1>1, <1>2, RouterStepKeeps

LEMMA SetPendingKeeps ==
    ASSUME NEW e, NEW r, NEW m, Retraces(e, r, m), NEW id, NEW key, NEW f,
           f = set_pending_property(e, id, key), Ok(f)
    PROVE  f.memory = e.memory
<1> DEFINE found == RequireFrame(e, id, "object")
           i == Position(e.router, id)
           child == PropertyNodes(e.router.stack[i].node, key)
           has == child # {}
           known == Require(e, has, "UnknownProperty")
           u == RestorePending(e.router, i, e.router.stack[i].property)
           new == [e.router EXCEPT !.stack[i].property = child, !.pending = The(child)]
<1>1. Ok(found) => found = e
  BY RequireFrameRetraces
<1>2. f = IF Ok(found) THEN RouterStep(known, u, new) ELSE found
  <2>1. CASE Ok(found)
    BY <1>1, <2>1, Zenon DEF set_pending_property, Then
  <2>2. CASE ~Ok(found)
    BY <2>2, Zenon DEF set_pending_property, Then
  <2> QED BY <2>1, <2>2
<1>3. known.memory = e.memory /\ IsEffect(known)
  <2>1. has \in BOOLEAN /\ IsEffect(e)
    BY DEF Retraces
  <2> HIDE DEF has
  <2> QED BY <2>1, RequireKeeps
<1> HIDE DEF known, u, new, found
<1> QED BY <1>1, <1>2, <1>3, RouterStepKeeps

LEMMA CompleteItemKeeps ==
    ASSUME NEW e, NEW r, NEW m, Retraces(e, r, m), NEW id, NEW f,
           f = complete_array_item(e, id), Ok(f)
    PROVE  f.memory = e.memory
<1> DEFINE found == RequireFrame(e, id, "array")
           u == RestorePending(e.router, Position(e.router, id), {})
           new == [e.router EXCEPT !.pending = Frame(e.router, id).item]
<1>1. Ok(found) => found = e
  BY RequireFrameRetraces
<1>2. f = IF Ok(found) THEN RouterStep(e, u, new) ELSE found
  <2>1. CASE Ok(found)
    BY <1>1, <2>1, Zenon DEF complete_array_item, Then
  <2>2. CASE ~Ok(found)
    BY <2>2, Zenon DEF complete_array_item, Then
  <2> QED BY <2>1, <2>2
<1>3. IsEffect(e)
  BY DEF Retraces
<1> HIDE DEF u, new, found
<1> QED BY <1>1, <1>2, <1>3, RouterStepKeeps

LEMMA CompletePropertyKeeps ==
    ASSUME NEW e, NEW r, NEW m, Retraces(e, r, m), NEW id, NEW f,
           f = complete_property(e, id), Ok(f)
    PROVE  f.memory = e.memory
<1> DEFINE found == RequireFrame(e, id, "object")
           i == Position(e.router, id)
           has == e.router.stack[i].property # {}
           known == Require(e, has, "MissingPendingProperty")
           u == RestorePending(e.router, i, e.router.stack[i].property)
           new == [e.router EXCEPT !.stack[i].property = {}, !.pending = e.router.stack[i].node]
<1>1. Ok(found) => found = e
  BY RequireFrameRetraces
<1>2. f = IF Ok(found) THEN RouterStep(known, u, new) ELSE found
  <2>1. CASE Ok(found)
    BY <1>1, <2>1, Zenon DEF complete_property, Then
  <2>2. CASE ~Ok(found)
    BY <2>2, Zenon DEF complete_property, Then
  <2> QED BY <2>1, <2>2
<1>3. known.memory = e.memory /\ IsEffect(known)
  <2>1. has \in BOOLEAN /\ IsEffect(e)
    BY DEF Retraces
  <2> HIDE DEF has
  <2> QED BY <2>1, RequireKeeps
<1> HIDE DEF known, u, new, found
<1> QED BY <1>1, <1>2, <1>3, RouterStepKeeps

LEMMA CloseFrameKeeps ==
    ASSUME NEW e, NEW r, NEW m, Retraces(e, r, m), NEW id, NEW f, f = close_frame(e, id), Ok(f)
    PROVE  f.memory = e.memory
<1> DEFINE open == e.router.stack # <<>>
           found == Require(e, open, "UnknownFrame")
           last == Last(e.router.stack).id = id
           known == Require(e, last, "CloseOrder")
           u == RestoreClosedFrame(e.router)
           new == [e.router EXCEPT !.stack = Front(@),
                                   !.pending = PendingAfterClose(Front(e.router.stack))]
<1>1. Ok(found) => found = e
  <2>1. open \in BOOLEAN /\ "UnknownFrame" # "none"
    OBVIOUS
  <2> HIDE DEF open
  <2> QED BY <2>1, RequireRetraces
<1>2. f = IF Ok(found) THEN RouterStep(known, u, new) ELSE found
  <2>1. CASE Ok(found)
    BY <1>1, <2>1, Zenon DEF close_frame, Then
  <2>2. CASE ~Ok(found)
    BY <2>2, Zenon DEF close_frame, Then
  <2> QED BY <2>1, <2>2
<1>3. known.memory = e.memory /\ IsEffect(known)
  <2>1. last \in BOOLEAN /\ IsEffect(e)
    BY DEF Retraces
  <2> HIDE DEF last
  <2> QED BY <2>1, RequireKeeps
<1> HIDE DEF known, u, new, found
<1> QED BY <1>1, <1>2, <1>3, RouterStepKeeps

LEMMA CompleteRootKeeps ==
    ASSUME NEW e, IsEffect(e)
    PROVE  complete_root(e).memory = e.memory
<1> DEFINE closed == e.router.stack = <<>>
           known == Require(e, closed, "RootWithOpenFrames")
           u == RestoreRootComplete(e.router)
           new == [e.router EXCEPT !.complete = TRUE]
<1>1. complete_root(e) = RouterStep(known, u, new)
  BY DEF complete_root
<1>2. known.memory = e.memory /\ IsEffect(known)
  <2>1. closed \in BOOLEAN
    OBVIOUS
  <2> HIDE DEF closed
  <2> QED BY <2>1, RequireKeeps
<1> HIDE DEF known, u, new
<1> QED BY <1>1, <1>2, RouterStepKeeps

-------------------------------------------------------------------------------
(* What is done with a sealed property.                                      *)
LEMMA EvaluateKeeps ==
    ASSUME NEW e, IsEffect(e), NEW relation, relation.operator \in Operators, NEW id, NEW v
    PROVE  evaluate(e, relation, id, v).memory = e.memory /\ IsEffect(evaluate(e, relation, id, v))
<1> DEFINE f == evaluate(e, relation, id, v)
           capture == Captured(e, id, relation.source)
           has == capture # {}
           set == Imports[relation.source]
           is == v \in capture
           isnt == v \notin capture
           in == v \in set
           out == v \notin set
           known == Require(e, has, "MissingCapture")
<1>1. \/ f = Require(known, is, "EqualityMismatch")
      \/ f = Require(known, isnt, "InequalityMismatch")
      \/ f = Require(e, in, "ImportedMemberRequired")
      \/ f = Require(e, out, "ImportedMemberForbidden")
  <2> HIDE DEF capture, set
  <2> QED BY DEF evaluate, Operators, capture, set
<1> SUFFICES f.memory = e.memory /\ IsEffect(f)
  OBVIOUS
<1> HIDE DEF f
<1>2. known.memory = e.memory /\ IsEffect(known)
  <2>1. has \in BOOLEAN
    OBVIOUS
  <2> HIDE DEF has
  <2> QED BY <2>1, RequireKeeps
<1>3. is \in BOOLEAN /\ isnt \in BOOLEAN /\ in \in BOOLEAN /\ out \in BOOLEAN
  OBVIOUS
<1> HIDE DEF is, isnt, in, out, known
<1> QED BY <1>1, <1>2, <1>3, RequireKeeps

LEMMA RelatingKeeps ==
    ASSUME NEW e, IsEffect(e), NEW many, AreRelations(many), NEW id, NEW v
    PROVE  Relating(e, many, id, v).memory = e.memory
<1> DEFINE asked == Asked(many, id, v)
           Stage(n) == Evaluating!Left(e, Evaluating!Truncate(asked, n))
           Good(n) == Stage(n).memory = e.memory /\ IsEffect(Stage(n))
           S == { n \in Nat : n <= Len(many) => Good(n) }
<1>1. /\ Stage(0) = e
      /\ \A n \in Nat : n + 1 <= Len(many) => Stage(n + 1) = Evaluated(Stage(n), asked[n + 1])
      /\ Stage(Len(many)) = Relating(e, many, id, v)
  BY RelatingStages DEF AreRelations
<1>2. Len(many) \in Nat /\ \A n \in 1..Len(many) :
          asked[n] = [of |-> many[n], frame |-> id, value |-> v]
  BY IsSeqLen DEF Asked, AreRelations
<1> HIDE DEF Stage, asked
<1>3. 0 \in S
  BY <1>1
<1>4. ASSUME NEW n \in Nat, n \in S PROVE n + 1 \in S
  <2> SUFFICES ASSUME n + 1 <= Len(many) PROVE Good(n + 1)
    OBVIOUS
  <2> DEFINE b == Stage(n)
             f == Stage(n + 1)
             relation == many[n + 1]
  <2>1. b.memory = e.memory /\ IsEffect(b)
    BY <1>2, <1>4
  <2>2. n + 1 \in 1..Len(many) /\ relation.operator \in Operators
    BY <1>2 DEF AreRelations
  <2>3. f = IF Ok(b) THEN evaluate(b, relation, id, v) ELSE b
    <3>1. asked[n + 1] = [of |-> relation, frame |-> id, value |-> v]
      BY <1>2, <2>2
    <3> QED BY <1>1, <3>1 DEF Evaluated, Then
  <2> HIDE DEF b, f, relation
  <2>4. evaluate(b, relation, id, v).memory = b.memory /\ IsEffect(evaluate(b, relation, id, v))
    BY <2>1, <2>2, EvaluateKeeps
  <2>5. f.memory = e.memory /\ IsEffect(f)
    BY <2>1, <2>3, <2>4
  <2> QED BY <2>5 DEF f
<1>5. Nat \subseteq S
  <2> HIDE DEF S
  <2> QED BY <1>3, <1>4, Induct
<1>6. Good(Len(many))
  BY <1>2, <1>5
<1> QED BY <1>1, <1>6

(* From m to n, the registers R of a scope were set to v.                    *)
Registers(m, n, slot, R, v) ==
    LET s == Entry(m, slot)
        t == Entry(n, slot)
    IN  /\ Rewritten(m, n, {slot})
        /\ DOMAIN t = DOMAIN s \union R
        /\ \A x \in R : t[x] = v
        /\ \A x \in DOMAIN s \ R : t[x] = s[x]

LEMMA RegistersMore ==
    ASSUME NEW m, NEW n, NEW p, NEW slot, NEW R, NEW v, Registers(m, n, slot, R, v), NEW register,
           Rewritten(n, p, {slot}), Entry(p, slot) = With(Entry(n, slot), register, v)
    PROVE  Registers(m, p, slot, R \union {register}, v)
<1> DEFINE s == Entry(m, slot)
           t == Entry(n, slot)
           u == Entry(p, slot)
           more == R \union {register}
<1>1. Rewritten(m, p, {slot})
  BY DEF Registers, Rewritten
<1>2. /\ DOMAIN t = DOMAIN s \union R
      /\ \A x \in R : t[x] = v
      /\ \A x \in DOMAIN s \ R : t[x] = s[x]
  BY DEF Registers
<1>3. /\ DOMAIN u = DOMAIN t \union {register} /\ u[register] = v
      /\ \A x \in DOMAIN t \ {register} : u[x] = t[x]
  <2> DEFINE w == With(t, register, v)
  <2>1. /\ DOMAIN w = DOMAIN t \union {register} /\ w[register] = v
        /\ \A x \in DOMAIN t \ {register} : w[x] = t[x]
    <3> HIDE DEF t
    <3> QED BY DEF With
  <2> HIDE DEF w
  <2>2. u = w
    BY DEF w
  <2> QED BY <2>1, <2>2
<1> HIDE DEF s, t, u
<1>4. DOMAIN u = DOMAIN s \union more
  BY <1>2, <1>3
<1>5. \A x \in more : u[x] = v
  <2> SUFFICES ASSUME NEW x \in more PROVE u[x] = v
    OBVIOUS
  <2>1. CASE x = register
    BY <1>3, <2>1
  <2>2. CASE x # register
    BY <1>2, <1>3, <2>2
  <2> QED BY <2>1, <2>2
<1>6. \A x \in DOMAIN s \ more : u[x] = s[x]
  BY <1>2, <1>3
<1> QED BY <1>1, <1>4, <1>5, <1>6 DEF Registers, s, u

LEMMA CapturingDone ==
    ASSUME NEW e, NEW r, NEW m, Retraces(e, r, m), NEW many, IsSeq(many), NEW id, NEW v, NEW f,
           f = Capturing(e, many, id, v), Ok(f)
    PROVE  Registers(e.memory, f.memory, ScopeSlot(id), ToSet(many), v)
<1> DEFINE asked == Asked(many, id, v)
           slot == ScopeSlot(id)
           Of(n) == { many[i] : i \in 1..n }
           Stage(n) == Registering!Left(e, Registering!Truncate(asked, n))
           Good(n) == /\ Retraces(Stage(n), r, m)
                      /\ Ok(Stage(n)) => Registers(e.memory, Stage(n).memory, slot, Of(n), v)
           S == { n \in Nat : n <= Len(many) => Good(n) }
<1>1. /\ Stage(0) = e
      /\ \A n \in Nat : n + 1 <= Len(many) => Stage(n + 1) = Registered(Stage(n), asked[n + 1])
      /\ Stage(Len(many)) = Capturing(e, many, id, v)
  BY RegisteringStages
<1>2. /\ Len(many) \in Nat /\ DOMAIN many = 1..Len(many)
      /\ \A n \in 1..Len(many) : asked[n] = [of |-> many[n], frame |-> id, value |-> v]
  BY IsSeqLen DEF Asked
<1> HIDE DEF Stage, asked, slot
<1>3. 0 \in S
  <2>1. Of(0) = {}
    OBVIOUS
  <2>2. Registers(e.memory, e.memory, slot, {}, v)
    BY DEF Registers, Rewritten
  <2> HIDE DEF Of
  <2> QED BY <1>1, <2>1, <2>2
<1>4. ASSUME NEW n \in Nat, n \in S PROVE n + 1 \in S
  <2> SUFFICES ASSUME n + 1 <= Len(many) PROVE Good(n + 1)
    OBVIOUS
  <2> DEFINE b == Stage(n)
             c == Stage(n + 1)
             register == many[n + 1]
             old == Of(n)
             new == Of(n + 1)
  <2>1. Retraces(b, r, m) /\ (Ok(b) => Registers(e.memory, b.memory, slot, old, v))
    BY <1>2, <1>4
  <2>2. c = IF Ok(b) THEN set_register(b, id, register, v) ELSE b
    <3>1. asked[n + 1] = [of |-> register, frame |-> id, value |-> v]
      BY <1>2
    <3> QED BY <1>1, <3>1 DEF Registered, Then
  <2>3. new = old \union {register}
    <3>1. 1..(n + 1) = 1..n \union {n + 1}
      OBVIOUS
    <3> QED BY <3>1
  <2> HIDE DEF b, c, register, old, new
  <2>4. Retraces(c, r, m)
    BY <2>1, <2>2, SetRegisterRetraces
  <2>5. ASSUME Ok(c) PROVE Registers(e.memory, c.memory, slot, new, v)
    <3>1. Ok(b) /\ c = set_register(b, id, register, v)
      BY <2>2, <2>5
    <3>0. Retraces(b, r, m)
      BY <2>1
    <3>2. /\ Rewritten(b.memory, c.memory, {slot})
          /\ Entry(c.memory, slot) = With(Entry(b.memory, slot), register, v)
      <4>1. RegisterSet(b.memory, c.memory, ScopeSlot(id), register, v)
        BY <3>0, <2>5, <3>1, SetRegisterDone, Zenon
      <4> QED BY <4>1 DEF RegisterSet, slot
    <3> QED BY <2>1, <2>3, <3>1, <3>2, RegistersMore
  <2> QED BY <2>4, <2>5 DEF c, new
<1>5. Nat \subseteq S
  <2> HIDE DEF S
  <2> QED BY <1>3, <1>4, Induct
<1>6. Good(Len(many))
  <2>1. Len(many) \in S /\ Len(many) <= Len(many)
    <3> HIDE DEF S
    <3> QED BY <1>2, <1>5
  <2> HIDE DEF Good
  <2> QED BY <2>1
<1>7. Of(Len(many)) = ToSet(many)
  BY <1>2 DEF ToSet
<1> HIDE DEF Of
<1> QED BY <1>1, <1>6, <1>7 DEF slot

LEMMA ActDone ==
    ASSUME NEW e, NEW r, NEW m, Retraces(e, r, m), NEW actions, AreActions(actions), NEW id, NEW v,
           NEW f, f = Act(e, actions, id, v), Ok(f)
    PROVE  Registers(e.memory, f.memory, ScopeSlot(id), ToSet(actions.captures), v)
<1> DEFINE many == actions.relations
           registers == actions.captures
           related == Relating(e, many, id, v)
<1>1. f = Capturing(related, registers, id, v)
  BY DEF Act
<1>2. AreRelations(many) /\ IsSeq(registers) /\ IsEffect(e)
  BY DEF AreActions, Retraces
<1> HIDE DEF many, registers
<1>3. Retraces(related, r, m) /\ related.memory = e.memory
  BY <1>2, RelatingRetraces, RelatingKeeps
<1> HIDE DEF related
<1>4. Registers(related.memory, f.memory, ScopeSlot(id), ToSet(registers), v)
  BY <1>1, <1>2, <1>3, CapturingDone
<1> QED BY <1>3, <1>4 DEF registers

-------------------------------------------------------------------------------
(* The handlers: what each of them does to the slots of its frame.            *)
LEMMA ArrayStartedDone ==
    ASSUME NEW e, NEW r, NEW m, Retraces(e, r, m), NEW id, NEW node, node = e.router.pending,
           NEW f, f = ArrayStarted(e, id), Ok(f), NEW g, g = OpenFrame("array", id, node)
    PROVE  Grown(e.memory, f.memory, Slots(g)) /\ Tells(f.memory, g)
<1> DEFINE k == Key(id, node)
           h == HistorySlot(k)
           c == CounterSlot(k)
           o == open_array(e, id)
           created == IF Unique(node) THEN create_history(o, k) ELSE o
           counted == IF ContainsOf(node) = {} THEN created
                      ELSE Then(created, LAMBDA l : create_counter(l, k))
           H == IF Unique(node) THEN {h} ELSE {}
           C == IF ContainsOf(node) # {} THEN {c} ELSE {}
<1>1. f = IF Ok(o) THEN counted ELSE o
  BY DEF ArrayStarted, Then
<1>2. Retraces(o, r, m)
  BY OpenArray
<1>3. o.memory = e.memory
  BY OpenArrayKeeps DEF Retraces
<1> HIDE DEF o, k
<1>4. counted = IF ContainsOf(node) = {} \/ ~Ok(created) THEN created ELSE create_counter(created, k)
  BY DEF Then
<1>5. Retraces(created, r, m)
  BY <1>2, CreateHistoryRetraces
<1> HIDE DEF created, counted
<1>6. Ok(o) /\ f = counted /\ Ok(created)
  BY <1>1, <1>4
<1>7. Grown(o.memory, created.memory, H) /\ (Unique(node) => Entry(created.memory, h) = EmptyHistory)
  <2>1. CASE Unique(node)
    <3>1. created = create_history(o, k)
      BY <2>1 DEF created
    <3>2. Grown(o.memory, created.memory, {h}) /\ Entry(created.memory, h) = EmptyHistory
      BY <1>2, <1>6, <3>1, CreateHistoryDone
    <3> QED BY <2>1, <3>2
  <2>2. CASE ~Unique(node)
    <3>1. created = o
      BY <2>2 DEF created
    <3> QED BY <2>2, <3>1, SameMemory
  <2> QED BY <2>1, <2>2
<1>8. Grown(created.memory, f.memory, C)
      /\ (ContainsOf(node) # {} => Entry(f.memory, c) = NewCounter)
  <2>1. CASE ContainsOf(node) # {}
    <3>1. f = create_counter(created, k)
      BY <1>4, <1>6, <2>1
    <3>2. Grown(created.memory, f.memory, {c}) /\ Entry(f.memory, c) = NewCounter
      BY <1>5, <3>1, CreateCounterDone
    <3> QED BY <2>1, <3>2
  <2>2. CASE ContainsOf(node) = {}
    <3>1. f = created
      BY <1>4, <1>6, <2>2
    <3> QED BY <2>2, <3>1, SameMemory
  <2> QED BY <2>1, <2>2
<1>9. Grown(e.memory, f.memory, H \union C) /\ \A s \in H : Entry(f.memory, s) = Entry(created.memory, s)
  <2>1. Grown(e.memory, created.memory, H)
    BY <1>3, <1>7
  <2>2. Grown(created.memory, f.memory, C)
    BY <1>8
  <2> HIDE DEF H, C
  <2>3. Grown(e.memory, f.memory, H \union C)
    BY <2>1, <2>2, GrownTwice, Zenon
  <2>4. \A s \in H : Entry(f.memory, s) = Entry(created.memory, s)
    BY <2>1, <2>2, Zenon DEF Grown
  <2> QED BY <2>3, <2>4
<1>10. g.kind = "array" /\ g.id = id /\ g.node = node /\ g.values = <<>>
  BY DEF OpenFrame
<1>11. Slots(g) = H \union C
  BY <1>10, ArraySlots DEF k
<1>12. Tells(f.memory, g)
  <2>1. Unique(node) => HistoryTells(Entry(f.memory, h), g.values)
    BY <1>7, <1>9, <1>10, NothingTold
  <2>2. ContainsOf(node) # {} => CounterTells(Entry(f.memory, c), g)
    BY <1>8, <1>10, NothingTold
  <2>3. IsSeq(g.values)
    BY <1>10, NothingTold
  <2> QED BY <1>10, <2>1, <2>2, <2>3, ArrayTells DEF k
<1> QED BY <1>9, <1>11, <1>12

LEMMA ObjectStartedDone ==
    ASSUME NEW e, NEW r, NEW m, Retraces(e, r, m), NEW id, NEW node, node = e.router.pending,
           NEW f, f = ObjectStarted(e, id), Ok(f), NEW g, g = OpenFrame("object", id, node)
    PROVE  Grown(e.memory, f.memory, Slots(g)) /\ Tells(f.memory, g)
<1> DEFINE o == open_object(e, id)
           opened == IF Extended(node) THEN open_scope(o, id) ELSE o
           scope == ScopeSlot(id)
<1>1. f = IF Ok(o) THEN opened ELSE o
  BY DEF ObjectStarted, Then
<1>2. Retraces(o, r, m)
  BY OpenObject
<1>3. o.memory = e.memory
  BY OpenObjectKeeps DEF Retraces
<1> HIDE DEF o
<1>4. f = opened
  BY <1>1
<1>5. g.kind = "object" /\ g.id = id /\ g.node = node /\ g.values = <<>>
  BY DEF OpenFrame
<1>6. Slots(g) = IF Extended(node) THEN {scope} ELSE {}
  BY <1>5, ObjectSlots
<1>7. CASE Extended(node)
  <2>1. f = open_scope(o, id)
    BY <1>4, <1>7
  <2>2. Grown(o.memory, f.memory, {scope}) /\ Entry(f.memory, scope) = EmptyMap
    BY <1>2, <2>1, OpenScopeDone
  <2>3. IsSeq(g.values) /\ ScopeTells(Entry(f.memory, scope), g)
    BY <1>5, <2>2, NothingTold
  <2>4. Tells(f.memory, g)
    BY <1>5, <2>3, ObjectTells
  <2> QED BY <1>3, <1>6, <1>7, <2>2, <2>4
<1>8. CASE ~Extended(node)
  <2>1. f = o
    BY <1>4, <1>8
  <2>2. IsSeq(g.values)
    BY <1>5, NothingTold
  <2>3. Tells(f.memory, g)
    BY <1>5, <1>8, <2>2, ObjectTells
  <2> QED BY <1>3, <1>6, <1>8, <2>1, <2>3, SameMemory
<1> QED BY <1>7, <1>8

LEMMA ArrayEndedDone ==
    ASSUME NEW e, NEW r, NEW m, Retraces(e, r, m), NEW fr, fr.kind = "array",
           Frame(e.router, fr.id).node = fr.node, NEW f, f = ArrayEnded(e, fr.id), Ok(f)
    PROVE  Shrunk(e.memory, f.memory, Slots(fr))
<1> DEFINE id == fr.id
           node == fr.node
           found == RequireFrame(e, id, "array")
           k == Key(id, node)
           h == HistorySlot(k)
           c == CounterSlot(k)
           counted == IF ContainsOf(node) = {} THEN e
                      ELSE close_contains(e, k, The(ContainsOf(node)))
           closed == IF Unique(node) THEN Then(counted, LAMBDA l : close_history(l, k)) ELSE counted
           done == close_frame(closed, id)
           H == IF Unique(node) THEN {h} ELSE {}
           C == IF ContainsOf(node) # {} THEN {c} ELSE {}
<1>1. Ok(found) => found = e /\ Ok(e)
  BY RequireFrameRetraces DEF Kept
<1>2. Ok(found)
  <2>1. ~Ok(found) => f = found
    BY DEF ArrayEnded, Then
  <2> HIDE DEF found
  <2> QED BY <2>1
<1>3. f = IF Ok(closed) THEN done ELSE closed
  <2>1. Frame(e.router, id).node = node
    OBVIOUS
  <2> DEFINE b == found
  <2>2. Ok(b) /\ b = e /\ b = RequireFrame(e, fr.id, "array")
    BY <1>1, <1>2
  <2> HIDE DEF found, node, b
  <2>3. f = IF Ok(b) THEN (LET one == Frame(b.router, fr.id).node
                               two == IF ContainsOf(one) = {} THEN b
                                      ELSE close_contains(b, Key(fr.id, one), The(ContainsOf(one)))
                               three == IF Unique(one)
                                        THEN Then(two, LAMBDA l : close_history(l, Key(fr.id, one)))
                                        ELSE two
                           IN  Then(three, LAMBDA l : close_frame(l, fr.id)))
            ELSE b
    BY <2>2, Zenon DEF ArrayEnded, Then
  <2> QED BY <2>1, <2>2, <2>3, Zenon DEF Then
<1>4. closed = IF ~Unique(node) \/ ~Ok(counted) THEN counted ELSE close_history(counted, k)
  BY DEF Then
<1> HIDE DEF closed
<1>5. Ok(closed) /\ f = done
  BY <1>3
<1>6. Retraces(counted, r, m)
  <2> DEFINE a == The(ContainsOf(node))
  <2> HIDE DEF k, a
  <2>1. Retraces(close_contains(e, k, a), r, m)
    BY CloseContainsRetraces
  <2> QED BY <2>1 DEF a
<1>7. Retraces(closed, r, m)
  <2> HIDE DEF k, counted
  <2> QED BY <1>4, <1>6, CloseHistoryRetraces
<1>8. Ok(counted)
  BY <1>4, <1>5
<1>9. Shrunk(e.memory, counted.memory, C)
  <2>1. CASE ContainsOf(node) # {}
    <3> DEFINE a == The(ContainsOf(node))
    <3>1. counted = close_contains(e, k, a)
      BY <2>1
    <3> HIDE DEF counted, a, k
    <3>2. Shrunk(e.memory, counted.memory, {c})
      BY <1>8, <3>1, CloseContainsDone
    <3> QED BY <2>1, <3>2
  <2>2. CASE ContainsOf(node) = {}
    BY <2>2, SameMemory
  <2> QED BY <2>1, <2>2
<1> HIDE DEF counted
<1>10. Shrunk(counted.memory, closed.memory, H)
  <2>1. CASE Unique(node)
    <3>1. closed = close_history(counted, k)
      BY <1>4, <1>8, <2>1
    <3>2. Shrunk(counted.memory, closed.memory, {h})
      BY <1>5, <1>6, <3>1, CloseHistoryDone
    <3> QED BY <2>1, <3>2
  <2>2. CASE ~Unique(node)
    BY <1>4, <2>2, SameMemory
  <2> QED BY <2>1, <2>2
<1>11. Shrunk(e.memory, closed.memory, C \union H)
  <2> HIDE DEF H, C
  <2> QED BY <1>9, <1>10, ShrunkTwice
<1>12. f.memory = closed.memory
  BY <1>5, <1>7, CloseFrameKeeps
<1>13. Slots(fr) = C \union H
  BY ArraySlots
<1> QED BY <1>11, <1>12, <1>13

LEMMA ObjectEndedDone ==
    ASSUME NEW e, NEW r, NEW m, Retraces(e, r, m), NEW fr, fr.kind = "object",
           Frame(e.router, fr.id).node = fr.node, NEW f, f = ObjectEnded(e, fr.id), Ok(f)
    PROVE  Shrunk(e.memory, f.memory, Slots(fr))
<1> DEFINE id == fr.id
           node == fr.node
           found == RequireFrame(e, id, "object")
           scope == ScopeSlot(id)
           closed == IF Extended(node) THEN close_scope(e, id) ELSE e
           done == close_frame(closed, id)
<1>1. Ok(found) => found = e /\ Ok(e)
  BY RequireFrameRetraces DEF Kept
<1>2. Ok(found)
  <2>1. ~Ok(found) => f = found
    BY DEF ObjectEnded, Then
  <2> HIDE DEF found
  <2> QED BY <2>1
<1>3. f = IF Ok(closed) THEN done ELSE closed
  <2>1. Frame(e.router, id).node = node
    OBVIOUS
  <2> HIDE DEF id, node
  <2> QED BY <1>1, <1>2, <2>1 DEF ObjectEnded, Then, id
<1>4. Retraces(closed, r, m)
  <2> HIDE DEF id, node
  <2> QED BY CloseScopeRetraces
<1>5. Ok(closed) /\ f = done
  <2> HIDE DEF closed
  <2> QED BY <1>3
<1>6. Slots(fr) = IF Extended(node) THEN {scope} ELSE {}
  BY ObjectSlots
<1>7. Shrunk(e.memory, closed.memory, Slots(fr))
  <2>1. CASE Extended(node)
    <3>1. closed = close_scope(e, id)
      BY <2>1
    <3> HIDE DEF closed, id, node
    <3>2. Shrunk(e.memory, closed.memory, {scope})
      BY <1>5, <3>1, CloseScopeDone
    <3> QED BY <1>6, <2>1, <3>2
  <2>2. CASE ~Extended(node)
    BY <1>6, <2>2, SameMemory
  <2> QED BY <2>1, <2>2
<1> HIDE DEF closed
<1>8. f.memory = closed.memory
  BY <1>4, <1>5, CloseFrameKeeps
<1> QED BY <1>7, <1>8

(* A value added to a frame of an array: it is inserted in the history and     *)
(* counted by the counter.                                                   *)
LEMMA ItemSealedDone ==
    ASSUME NEW e, NEW r, NEW m, Retraces(e, r, m), NEW fr, fr.kind = "array",
           Frame(e.router, fr.id).node = fr.node, Tells(e.memory, fr), NEW v,
           NEW f, f = ItemSealed(e, fr.id, v), Ok(f),
           NEW g, g.kind = "array", g.id = fr.id, g.node = fr.node, g.values = Append(fr.values, v)
    PROVE  Slots(g) = Slots(fr) /\ Rewritten(e.memory, f.memory, Slots(fr)) /\ Tells(f.memory, g)
<1> DEFINE node == fr.node
           found == RequireFrame(e, fr.id, "array")
           k == Key(fr.id, node)
           h == HistorySlot(k)
           c == CounterSlot(k)
           a == The(ContainsOf(node))
           max == schema[node].max
           matched == Matching(a.predicate, v)
           unique == IF Unique(node) THEN seal_unique_item(e, k, v) ELSE e
           counted == IF ContainsOf(node) = {} \/ ~Ok(unique) THEN unique
                      ELSE seal_contains_item(unique, k, v, a, max)
           done == complete_array_item(counted, fr.id)
           H == IF Unique(node) THEN {h} ELSE {}
           C == IF ContainsOf(node) # {} THEN {c} ELSE {}
<1>1. Ok(found) => found = e /\ Ok(e)
  BY RequireFrameRetraces DEF Kept
<1>2. Ok(found)
  <2>1. ~Ok(found) => f = found
    BY DEF ItemSealed, Then
  <2> HIDE DEF found
  <2> QED BY <2>1
<1>3. f = IF Ok(counted) THEN done ELSE counted
  <2>1. Frame(e.router, fr.id).node = node
    OBVIOUS
  <2> DEFINE b == found
  <2>2. Ok(b) /\ b = e /\ b = RequireFrame(e, fr.id, "array")
    BY <1>1, <1>2
  <2> HIDE DEF found, node, b
  <2>3. f = IF Ok(b) THEN (LET one == Frame(b.router, fr.id).node
                               two == IF Unique(one) THEN seal_unique_item(b, Key(fr.id, one), v)
                                      ELSE b
                               three == IF ContainsOf(one) = {} THEN two
                                        ELSE Then(two, LAMBDA l :
                                            seal_contains_item(l, Key(fr.id, one), v,
                                                The(ContainsOf(one)), schema[one].max))
                           IN  Then(three, LAMBDA l : complete_array_item(l, fr.id)))
            ELSE b
    BY <2>2, Zenon DEF ItemSealed, Then
  <2> QED BY <2>1, <2>2, <2>3, Zenon DEF Then
<1>4. Retraces(unique, r, m)
  <2> HIDE DEF k, node
  <2> QED BY SealUniqueRetraces
<1>5. Retraces(counted, r, m)
  <2> HIDE DEF k, node, unique, a, max
  <2>1. Retraces(seal_contains_item(unique, k, v, a, max), r, m)
    BY <1>4, SealContainsRetraces
  <2> QED BY <1>4, <2>1
<1> HIDE DEF counted
<1>6. Ok(counted) /\ f = done
  BY <1>3
<1>7. f.memory = counted.memory
  BY <1>5, <1>6, CompleteItemKeeps
<1>8. Ok(unique)
  BY <1>6 DEF counted
<1>9. /\ Rewritten(e.memory, unique.memory, H)
      /\ Unique(node) => /\ h \in Held(e.memory)
                         /\ Entry(unique.memory, h) = Inserted(Entry(e.memory, h), v)
                         /\ \E V : WellFormedHistory(Entry(e.memory, h), V)
  <2>1. CASE Unique(node)
    <3>1. unique = seal_unique_item(e, k, v)
      BY <2>1
    <3> HIDE DEF unique, k, node
    <3>2. ItemInserted(e.memory, unique.memory, HistorySlot(k), v)
      BY <1>8, <3>1, SealUniqueDone, Zenon
    <3> QED BY <2>1, <3>2 DEF ItemInserted
  <2>2. CASE ~Unique(node)
    BY <2>2, SameMemory
  <2> QED BY <2>1, <2>2
<1> HIDE DEF unique
<1>10. /\ Rewritten(unique.memory, counted.memory, C)
       /\ ContainsOf(node) # {} => /\ c \in Held(unique.memory)
                                   /\ Entry(counted.memory, c) = Counted(Entry(unique.memory, c), matched)
  <2>1. CASE ContainsOf(node) # {}
    <3>1. counted = seal_contains_item(unique, k, v, a, max)
      BY <1>8, <2>1 DEF counted
    <3> HIDE DEF k, node, a, max
    <3>2. ItemCounted(unique.memory, counted.memory, CounterSlot(k), Matching(a.predicate, v))
      BY <1>4, <1>6, <3>1, SealContainsDone, Zenon
    <3> QED BY <2>1, <3>2, Zenon DEF ItemCounted
  <2>2. CASE ContainsOf(node) = {}
    <3>1. counted = unique
      BY <2>2 DEF counted
    <3> QED BY <2>2, <3>1, SameMemory
  <2> QED BY <2>1, <2>2
<1>11. Slots(fr) = H \union C /\ Slots(g) = H \union C
  BY ArraySlots
<1>12. Rewritten(e.memory, counted.memory, H \union C)
  <2> HIDE DEF H, C
  <2> QED BY <1>9, <1>10, RewrittenTwice, Zenon
<1>13. h # c
  <2> HIDE DEF k
  <2> QED BY SlotsDiffer
<1>14. Unique(node) => Entry(counted.memory, h) = Inserted(Entry(e.memory, h), v)
  <2> SUFFICES ASSUME Unique(node) PROVE Entry(counted.memory, h) = Inserted(Entry(e.memory, h), v)
    OBVIOUS
  <2>1. h \in Held(unique.memory) /\ h \notin C
    BY <1>9, <1>13 DEF Rewritten
  <2> HIDE DEF h, C
  <2>2. Entry(counted.memory, h) = Entry(unique.memory, h)
    BY <1>10, <2>1 DEF Rewritten
  <2> QED BY <1>9, <2>2
<1>15. ContainsOf(node) # {} => Entry(counted.memory, c) = Counted(Entry(e.memory, c), matched)
  <2> SUFFICES ASSUME ContainsOf(node) # {}
               PROVE  Entry(counted.memory, c) = Counted(Entry(e.memory, c), matched)
    OBVIOUS
  <2>1. c \in Held(e.memory) /\ c \notin H
    BY <1>9, <1>10, <1>13 DEF Rewritten
  <2> HIDE DEF c, H, matched
  <2>2. Entry(unique.memory, c) = Entry(e.memory, c)
    BY <1>9, <2>1 DEF Rewritten
  <2> QED BY <1>10, <2>2
<1>16. /\ IsSeq(fr.values)
       /\ Unique(node) => HistoryTells(Entry(e.memory, h), fr.values)
       /\ ContainsOf(node) # {} => CounterTells(Entry(e.memory, c), fr)
  BY ArrayTells
<1>17. Unique(node) => HistoryTells(Entry(counted.memory, h), g.values)
  <2> HIDE DEF h, node
  <2> QED BY <1>9, <1>14, <1>16, InsertedTells
<1>18. ContainsOf(node) # {} => CounterTells(Entry(counted.memory, c), g)
  <2> HIDE DEF c
  <2> SUFFICES ASSUME ContainsOf(node) # {} PROVE CounterTells(Entry(counted.memory, c), g)
    OBVIOUS
  <2>1. CounterTells(Entry(e.memory, c), fr) /\ IsSeq(fr.values)
    BY <1>16
  <2>2. matched = IF validate_predicate(schema, The(ContainsOf(fr.node)).predicate, v,
                                        Limits[root]).valid THEN 1 ELSE 0
    BY DEF Matching
  <2> HIDE DEF matched
  <2>3. CounterTells(Counted(Entry(e.memory, c), matched), g)
    BY <2>1, <2>2, CountedTells
  <2> QED BY <1>15, <2>3
<1>19. Tells(counted.memory, g)
  <2>1. IsSeq(g.values)
    BY <1>16, IsSeqAppend
  <2> QED BY <1>17, <1>18, <2>1, ArrayTells
<1> QED BY <1>7, <1>11, <1>12, <1>19

(* A value added to a frame of an object: it is captured in the registers.     *)
LEMMA PropertyValueSealedDone ==
    ASSUME NEW e, NEW r, NEW m, Retraces(e, r, m), NEW fr, fr.kind = "object",
           Frame(e.router, fr.id).node = fr.node, Tells(e.memory, fr), NEW key, NEW v,
           \A actions \in ActionsOf(fr.node, key) : AreActions(actions),
           NEW f, f = PropertyValueSealed(e, fr.id, key, v), Ok(f),
           NEW g, g.kind = "object", g.id = fr.id, g.node = fr.node,
           g.values = Append(fr.values, <<key, v>>)
    PROVE  Slots(g) = Slots(fr) /\ Rewritten(e.memory, f.memory, Slots(fr)) /\ Tells(f.memory, g)
<1> DEFINE node == fr.node
           found == RequireFrame(e, fr.id, "object")
           known == ActionsOf(node, key)
           acted == IF known = {} THEN e ELSE Act(e, The(known), fr.id, v)
           done == complete_property(acted, fr.id)
           scope == ScopeSlot(fr.id)
           R == IF known = {} THEN {} ELSE ToSet(The(known).captures)
<1>1. Ok(found) => found = e /\ Ok(e)
  BY RequireFrameRetraces DEF Kept
<1>2. Ok(found)
  <2>1. ~Ok(found) => f = found
    BY DEF PropertyValueSealed, Then
  <2> HIDE DEF found
  <2> QED BY <2>1
<1>3. f = IF Ok(acted) THEN done ELSE acted
  <2>1. Frame(e.router, fr.id).node = node
    OBVIOUS
  <2> DEFINE b == found
  <2>2. Ok(b) /\ b = e /\ b = RequireFrame(e, fr.id, "object")
    BY <1>1, <1>2
  <2> HIDE DEF found, node, b
  <2>3. f = IF Ok(b) THEN (LET one == Frame(b.router, fr.id).node
                               two == IF ActionsOf(one, key) = {} THEN b
                                      ELSE Act(b, The(ActionsOf(one, key)), fr.id, v)
                           IN  Then(two, LAMBDA l : complete_property(l, fr.id)))
            ELSE b
    BY <2>2, Zenon DEF PropertyValueSealed, Then
  <2> QED BY <2>1, <2>2, <2>3, Zenon DEF Then
<1>4. known # {} => AreActions(The(known))
  <2>1. known # {} => The(known) \in known
    BY DEF The
  <2> QED BY <2>1
<1>5. Retraces(acted, r, m)
  <2> DEFINE actions == The(known)
  <2>1. CASE known = {}
    BY <2>1
  <2>2. CASE known # {}
    <3>1. AreActions(actions)
      BY <1>4, <2>2
    <3> HIDE DEF actions
    <3>2. Retraces(Act(e, actions, fr.id, v), r, m)
      BY <3>1, ActRetraces
    <3> QED BY <2>2, <3>2 DEF actions
  <2> QED BY <2>1, <2>2
<1> HIDE DEF acted
<1>6. Ok(acted) /\ f = done
  BY <1>3
<1>7. f.memory = acted.memory
  BY <1>5, <1>6, CompletePropertyKeeps
<1>8. IF known = {} THEN acted.memory = e.memory
      ELSE Registers(e.memory, acted.memory, scope, R, v)
  <2> DEFINE actions == The(known)
  <2>1. CASE known = {}
    BY <2>1 DEF acted
  <2>2. CASE known # {}
    <3>1. AreActions(actions) /\ acted = Act(e, actions, fr.id, v) /\ R = ToSet(actions.captures)
      BY <1>4, <2>2 DEF acted
    <3> HIDE DEF actions, R
    <3>2. Registers(e.memory, acted.memory, ScopeSlot(fr.id), ToSet(actions.captures), v)
      BY <1>6, <3>1, ActDone
    <3> QED BY <2>2, <3>1, <3>2
  <2> QED BY <2>1, <2>2
<1>9. known # {} => Extended(node)
  BY DEF ActionsOf, Extended
<1>10. Slots(fr) = (IF Extended(node) THEN {scope} ELSE {}) /\ Slots(g) = Slots(fr)
  BY ObjectSlots
<1>11. Rewritten(e.memory, acted.memory, Slots(fr))
  <2>1. CASE known = {}
    <3>1. acted.memory = e.memory
      BY <1>8, <2>1
    <3> QED BY <3>1 DEF Rewritten
  <2>2. CASE known # {}
    BY <1>8, <1>9, <1>10, <2>2 DEF Registers
  <2> QED BY <2>1, <2>2
<1>12. IsSeq(fr.values) /\ (Extended(node) => ScopeTells(Entry(e.memory, scope), fr))
  BY ObjectTells
<1>13. Extended(node) => ScopeTells(Entry(acted.memory, scope), g)
  <2> SUFFICES ASSUME Extended(node) PROVE ScopeTells(Entry(acted.memory, scope), g)
    OBVIOUS
  <2> DEFINE s == Entry(e.memory, scope)
             t == Entry(acted.memory, scope)
  <2>1. DOMAIN t = DOMAIN s \union R /\ (\A x \in R : t[x] = v) /\ \A x \in DOMAIN s \ R : t[x] = s[x]
    <3>1. CASE known = {}
      BY <1>8, <3>1
    <3>2. CASE known # {}
      <4> HIDE DEF R, known
      <4> QED BY <1>8, <3>2 DEF Registers
    <3> QED BY <3>1, <3>2
  <2>2. ScopeTells(s, fr) /\ IsSeq(fr.values)
    BY <1>12
  <2>3. Captures(s, t, CapturedIn(fr.node, key), v)
    BY <2>1 DEF Captures, CapturedIn
  <2>4. g.node = fr.node /\ g.values = Append(fr.values, <<key, v>>)
    OBVIOUS
  <2> HIDE DEF s, t, R, known, node, scope
  <2>5. ScopeTells(t, g)
    BY <2>1, <2>2, <2>3, <2>4, CapturedTells, Zenon
  <2> QED BY <2>5 DEF t
<1>14. Tells(acted.memory, g)
  <2>1. IsSeq(g.values)
    <3> DEFINE x == <<key, v>>
    <3>1. g.values = Append(fr.values, x)
      OBVIOUS
    <3> HIDE DEF x
    <3> QED BY <1>12, <3>1, IsSeqAppend
  <2> QED BY <1>13, <2>1, ObjectTells
<1> QED BY <1>7, <1>10, <1>11, <1>14

-------------------------------------------------------------------------------
(* The events: where the document goes on, the memory recalls what is open.   *)
Remembers(e, d) == Ok(e) => Recalls(e.memory, d.open)

LEMMA TellsSame ==
    ASSUME NEW f, NEW g, g.kind = f.kind, g.id = f.id, g.node = f.node, g.values = f.values
    PROVE  Slots(g) = Slots(f) /\ \A m : Tells(m, f) => Tells(m, g)
<1>1. Slots(g) = Slots(f)
  BY DEF Slots, HasHistory, HasCounter, HasScope, KeyOf
<1>2. \A x : CounterTells(x, f) => CounterTells(x, g)
  BY DEF CounterTells, Satisfying
<1>3. \A i : RegistersAt(g, i) = RegistersAt(f, i)
  BY DEF RegistersAt
<1>4. \A x : ScopeTells(x, f) => ScopeTells(x, g)
  BY <1>3 DEF ScopeTells
<1>5. \A x, slot : Says(x, slot, f) => Says(x, slot, g)
  BY <1>2, <1>4 DEF Says
<1> QED BY <1>1, <1>5 DEF Tells

(* The last open frame, which the router has last too and the memory tells of. *)
LEMMA LastRecalled ==
    ASSUME NEW d, DocumentFits(d), d.open # <<>>, NEW e, NEW r, NEW m, Follows(e, d, r, m), Ok(e),
           Remembers(e, d), NEW fr, fr = Last(d.open), NEW b, b = Front(d.open)
    PROVE  /\ FrameFits(fr) /\ Frame(e.router, fr.id).node = fr.node
           /\ IsSeq(b) /\ d.open = Append(b, fr)
           /\ Recalls(e.memory, Append(b, fr)) /\ Tells(e.memory, fr)
<1>1. LET q == RouterOf(d)
      IN  FrameFits(fr) /\ Position(q, fr.id) = Len(q.stack) /\ q.stack[Len(q.stack)] = Following(fr)
  BY LastFollows
<1>2. e.router = RouterOf(d)
  BY DEF Follows
<1>3. Frame(e.router, fr.id) = Following(fr)
  BY <1>1, <1>2 DEF Frame
<1>4. Frame(e.router, fr.id).node = fr.node
  BY <1>3, FollowingFrame
<1>5. IsSeq(b) /\ d.open = Append(b, fr)
  BY StackShrinks DEF DocumentFits
<1>6. Recalls(e.memory, Append(b, fr))
  BY <1>5 DEF Remembers
<1>7. Tells(e.memory, fr)
  BY <1>5, <1>6, RecallsLast
<1> QED BY <1>1, <1>4, <1>5, <1>6, <1>7

LEMMA RememberedAtRoot ==
    ASSUME NEW d, DocumentFits(d), d.open = <<>>, NEW e, NEW r, NEW m, Follows(e, d, r, m),
           Remembers(e, d), NEW v, NEW ev, Published(d, v).events = <<ev>>
    PROVE  Remembers(Handled(e, ev), Published(d, v).document)
<1> DEFINE n == [d EXCEPT !.root = {v}]
           f == Handled(e, ev)
<1>1. Published(d, v).events = <<[type |-> "RootComplete"]>> /\ Published(d, v).document = n
  BY DEF Published
<1>2. ev = [type |-> "RootComplete"]
  BY <1>1
<1>3. n.open = d.open
  BY DEF DocumentFits
<1> SUFFICES ASSUME Ok(f) PROVE Recalls(f.memory, n.open)
  BY <1>1 DEF Remembers
<1>4. Ok(e)
  BY HandledStops
<1>5. f = complete_root(e)
  BY <1>2, <1>4 DEF Handled, Then, process_event
<1>6. f.memory = e.memory
  BY <1>5, CompleteRootKeeps DEF Follows, Retraces
<1> QED BY <1>3, <1>4, <1>6 DEF Remembers

LEMMA RememberedInArray ==
    ASSUME NEW d, DocumentFits(d), d.open # <<>>, Last(d.open).kind = "array",
           NEW e, NEW r, NEW m, Follows(e, d, r, m), Remembers(e, d),
           NEW v, NEW ev, Published(d, v).events = <<ev>>
    PROVE  Remembers(Handled(e, ev), Published(d, v).document)
<1> DEFINE fr == Last(d.open)
           values == Append(fr.values, v)
           g == [fr EXCEPT !.values = values, !.key = {}]
           n == [d EXCEPT !.open = Append(Front(@), g)]
           f == Handled(e, ev)
           b == Front(d.open)
           told == [type |-> "ItemSealed", frame |-> fr.id, value |-> v]
<1>1. Published(d, v).events = <<told>> /\ Published(d, v).document = n
  BY DEF Published
<1>2. ev = told
  <2> HIDE DEF told
  <2> QED BY <1>1
<1>3. n.open = Append(b, g)
  <2> HIDE DEF g
  <2> QED BY DEF DocumentFits
<1> HIDE DEF n
<1> SUFFICES ASSUME Ok(f) PROVE Recalls(f.memory, Append(b, g))
  <2> HIDE DEF f, b, g
  <2> QED BY <1>1, <1>3 DEF Remembers, f
<1>4. Ok(e)
  BY HandledStops
<1>5. f = ItemSealed(e, fr.id, v)
  <2> HIDE DEF fr
  <2> QED BY <1>2, <1>4 DEF Handled, Then, process_event
<1>6. fr.kind = "array"
  OBVIOUS
<1>7. /\ FrameFits(fr) /\ Frame(e.router, fr.id).node = fr.node /\ IsSeq(b)
      /\ Recalls(e.memory, Append(b, fr)) /\ Tells(e.memory, fr)
  BY <1>4, LastRecalled
<1> HIDE DEF fr, values, f, b
<1>8. g = [kind |-> fr.kind, id |-> fr.id, node |-> fr.node, values |-> values, key |-> {}]
  BY <1>7, FrameEmptied, Zenon
<1> HIDE DEF g
<1>9. g.kind = "array" /\ g.id = fr.id /\ g.node = fr.node /\ g.values = Append(fr.values, v)
  BY <1>6, <1>8 DEF values
<1>10. Retraces(e, r, m)
  BY DEF Follows
<1>11. Slots(g) = Slots(fr) /\ Rewritten(e.memory, f.memory, Slots(fr)) /\ Tells(f.memory, g)
  BY <1>5, <1>6, <1>7, <1>9, <1>10, ItemSealedDone
<1> QED BY <1>7, <1>11, RecallsReplaced

LEMMA RememberedInObject ==
    ASSUME Compiled, NEW d, DocumentFits(d), d.open # <<>>, Last(d.open).kind # "array",
           NEW e, NEW r, NEW m, Follows(e, d, r, m), Remembers(e, d),
           NEW v, NEW ev, Published(d, v).events = <<ev>>
    PROVE  Remembers(Handled(e, ev), Published(d, v).document)
<1> DEFINE fr == Last(d.open)
           key == The(fr.key)
           values == Append(fr.values, <<key, v>>)
           g == [fr EXCEPT !.values = values, !.key = {}]
           n == [d EXCEPT !.open = Append(Front(@), g)]
           f == Handled(e, ev)
           b == Front(d.open)
           told == [type |-> "PropertyValueSealed", frame |-> fr.id, key |-> key, value |-> v]
<1>1. Published(d, v).events = <<told>> /\ Published(d, v).document = n
  BY DEF Published
<1>2. ev = told
  <2> HIDE DEF told
  <2> QED BY <1>1
<1>3. n.open = Append(b, g)
  <2> HIDE DEF g
  <2> QED BY DEF DocumentFits
<1> HIDE DEF n
<1> SUFFICES ASSUME Ok(f) PROVE Recalls(f.memory, Append(b, g))
  <2> HIDE DEF f, b, g
  <2> QED BY <1>1, <1>3 DEF Remembers, f
<1>4. Ok(e)
  BY HandledStops
<1>5. f = PropertyValueSealed(e, fr.id, key, v)
  <2> HIDE DEF fr, key
  <2> QED BY <1>2, <1>4 DEF Handled, Then, process_event
<1>6. fr.kind # "array"
  OBVIOUS
<1>7. /\ FrameFits(fr) /\ Frame(e.router, fr.id).node = fr.node /\ IsSeq(b)
      /\ Recalls(e.memory, Append(b, fr)) /\ Tells(e.memory, fr)
  BY <1>4, LastRecalled
<1> HIDE DEF fr, key, values, f, b
<1>8. g = [kind |-> fr.kind, id |-> fr.id, node |-> fr.node, values |-> values, key |-> {}]
  BY <1>7, FrameEmptied, Zenon
<1> HIDE DEF g
<1>9. fr.kind = "object" /\ \A actions \in ActionsOf(fr.node, key) : AreActions(actions)
  BY <1>6, <1>7, ActionsKnown DEF FrameFits
<1>10. g.kind = "object" /\ g.id = fr.id /\ g.node = fr.node /\ g.values = Append(fr.values, <<key, v>>)
  BY <1>8, <1>9 DEF values
<1>11. Retraces(e, r, m)
  BY DEF Follows
<1>12. Slots(g) = Slots(fr) /\ Rewritten(e.memory, f.memory, Slots(fr)) /\ Tells(f.memory, g)
  BY <1>5, <1>7, <1>9, <1>10, <1>11, PropertyValueSealedDone, Zenon
<1> QED BY <1>7, <1>12, RecallsReplaced

LEMMA PublishedRemembers ==
    ASSUME Compiled, NEW d, DocumentFits(d), NEW e, NEW r, NEW m, Follows(e, d, r, m),
           Remembers(e, d), NEW v, NEW ev, Published(d, v).events = <<ev>>
    PROVE  Remembers(Handled(e, ev), Published(d, v).document)
BY RememberedAtRoot, RememberedInArray, RememberedInObject

LEMMA EndingRemembers ==
    ASSUME NEW d, DocumentFits(d), d.open # <<>>, NEW e, NEW r, NEW m, Follows(e, d, r, m), Ok(e),
           Remembers(e, d)
    PROVE  Remembers(Handled(e, Ending(Last(d.open))), Shortened(d))
<1> DEFINE fr == Last(d.open)
           b == Front(d.open)
           f == Handled(e, Ending(fr))
           n == Shortened(d)
<1>1. n.open = b
  BY DEF Shortened, Repooled, DocumentFits
<1> SUFFICES ASSUME Ok(f) PROVE Recalls(f.memory, b)
  BY <1>1 DEF Remembers
<1>2. /\ FrameFits(fr) /\ Frame(e.router, fr.id).node = fr.node /\ IsSeq(b)
      /\ Recalls(e.memory, Append(b, fr))
  BY LastRecalled
<1>3. Retraces(e, r, m)
  BY DEF Follows
<1>4. /\ fr.kind = "array" => f = ArrayEnded(e, fr.id)
      /\ fr.kind # "array" => f = ObjectEnded(e, fr.id)
  BY DEF Handled, Then, process_event, Ending
<1>5. fr.kind \in {"array", "object"}
  BY <1>2 DEF FrameFits
<1> HIDE DEF fr, b, f
<1>6. Shrunk(e.memory, f.memory, Slots(fr))
  <2>1. CASE fr.kind = "array"
    BY <1>2, <1>3, <1>4, <2>1, ArrayEndedDone
  <2>2. CASE fr.kind = "object"
    BY <1>2, <1>3, <1>4, <2>2, ObjectEndedDone
  <2> QED BY <1>5, <2>1, <2>2
<1> QED BY <1>2, <1>6, RecallsUnder

-------------------------------------------------------------------------------
(* The tokens.                                                              *)
LEMMA DatedOpen ==
    ASSUME NEW p, p = [document |-> p.document, events |-> p.events], DocumentFits(p.document), NEW t
    PROVE  Dated(p, t).document.open = p.document.open
<1> DEFINE d == p.document
           text == Append(d.text, t)
           n == [d EXCEPT !.text = text]
<1>1. Dated(p, t) = [p EXCEPT !.document = n]
  BY DEF Dated
<1>2. n.open = d.open
  <2> HIDE DEF d, text
  <2> QED BY DEF DocumentFits
<1> HIDE DEF n
<1>3. Dated(p, t).document = n
  BY <1>1
<1> QED BY <1>2, <1>3

LEMMA DatedRemembers ==
    ASSUME NEW p, p = [document |-> p.document, events |-> p.events], NEW t,
           NEW e, NEW r, NEW m, Follows(e, p.document, r, m), Remembers(e, p.document)
    PROVE  Remembers(e, Dated(p, t).document)
<1>1. Ok(e) => Dated(p, t).document.open = p.document.open
  BY DatedOpen DEF Follows
<1> QED BY <1>1 DEF Remembers

LEMMA ScalarRemembers ==
    ASSUME Compiled, NEW d, DocumentFits(d), NEW m, IsMemory(m), Recalls(m, d.open), NEW counting,
           NEW t, t[1] = "scalar"
    PROVE  Remembers(process_pending_events(EffectOn(RouterOf(d), m, counting), Read(d, t).events),
                     Read(d, t).document)
<1> DEFINE v == Scalar(t[2])
           p == Published(d, v)
           r == RouterOf(d)
           e == EffectOn(r, m, counting)
<1>1. Read(d, t) = Dated(p, t)
  BY DEF Read, Dated
<1>2. Follows(e, d, r, m)
  BY BeginFollows
<1>3. Remembers(e, d)
  BY DEF Remembers, EffectOn
<1> HIDE DEF r, e, v
<1>4. PICK ev : p.events = <<ev>> /\ Follows(Handled(e, ev), p.document, r, m)
  BY <1>2, PublishedFollows
<1>5. p = [document |-> p.document, events |-> p.events]
  BY PublishedShape
<1>6. Remembers(Handled(e, ev), p.document)
  BY <1>2, <1>3, <1>4, PublishedRemembers
<1> DEFINE f == Handled(e, ev)
<1>7. process_pending_events(e, <<ev>>) = f
  BY OneEvent
<1> HIDE DEF p, f
<1>8. Dated(p, t).events = <<ev>>
  BY <1>4, <1>5, DatedFollows DEF f
<1>9. Remembers(f, Dated(p, t).document)
  BY <1>4, <1>5, <1>6, DatedRemembers DEF f
<1> QED BY <1>1, <1>7, <1>8, <1>9 DEF e, r

LEMMA CloseRemembers ==
    ASSUME Compiled, NEW d, DocumentFits(d), NEW m, IsMemory(m), Recalls(m, d.open), NEW counting,
           NEW t, t[1] = "close", d.open # <<>>
    PROVE  Remembers(process_pending_events(EffectOn(RouterOf(d), m, counting), Read(d, t).events),
                     Read(d, t).document)
<1> DEFINE p == Closed(d)
           r == RouterOf(d)
           e == EffectOn(r, m, counting)
           ev == Ending(Last(d.open))
           f == Handled(e, ev)
           n == Shortened(d)
<1>1. Read(d, t) = Dated(p, t)
  BY DEF Read, Dated
<1>2. Follows(e, d, r, m) /\ Ok(e)
  BY BeginFollows
<1>3. Remembers(e, d)
  BY DEF Remembers, EffectOn
<1>4. PICK v : LET up == Published(n, v)
               IN  p = [document |-> up.document, events |-> <<ev>> \o up.events]
  BY ClosedParts
<1> DEFINE up == Published(n, v)
<1>5. p = [document |-> up.document, events |-> <<ev>> \o up.events]
  BY <1>4
<1> HIDE DEF r, e
<1>6. DocumentFits(n) /\ Follows(f, n, r, m)
  BY <1>2, EndingFollows
<1>7. Remembers(f, n)
  BY <1>2, <1>3, EndingRemembers
<1> HIDE DEF n, f, p
<1>8. PICK two : up.events = <<two>> /\ Follows(Handled(f, two), up.document, r, m)
  BY <1>6, PublishedFollows
<1>9. Remembers(Handled(f, two), up.document)
  BY <1>6, <1>7, <1>8, PublishedRemembers
<1> DEFINE g == Handled(f, two)
<1>10. p.events = <<ev, two>> /\ p.document = up.document
       /\ p = [document |-> p.document, events |-> p.events]
  <2> HIDE DEF up, ev
  <2>1. <<ev>> \o <<two>> = <<ev, two>>
    BY TwoInARow
  <2> QED BY <1>5, <1>8, <2>1
<1>11. process_pending_events(e, <<ev, two>>) = g
  BY TwoEvents DEF f
<1> HIDE DEF up, ev, g
<1>12. Dated(p, t).events = <<ev, two>>
  BY <1>8, <1>10, DatedFollows DEF g
<1>13. Remembers(g, Dated(p, t).document)
  BY <1>8, <1>9, <1>10, DatedRemembers DEF g
<1> QED BY <1>1, <1>11, <1>12, <1>13 DEF e, r

(* A key read leaves what is open as it tells.                               *)
LEMMA KeyRecalls ==
    ASSUME NEW d, DocumentFits(d), d.open # <<>>, NEW m, Recalls(m, d.open), NEW key,
           NEW n, n = [d EXCEPT !.open[Len(d.open)].key = {key}]
    PROVE  Recalls(m, n.open)
<1> DEFINE a == d.open
           L == Len(a)
           g == [a[L] EXCEPT !.key = {key}]
           c == [a EXCEPT ![L] = g]
<1>1. IsSeq(a) /\ L \in Nat \ {0} /\ DOMAIN a = 1..L /\ L \in 1..L
  <2>1. L \in Nat \ {0}
    BY StackShrinks DEF DocumentFits
  <2>2. DOMAIN a = 1..L
    BY IsSeqLen DEF DocumentFits
  <2> HIDE DEF L
  <2> QED BY <2>1, <2>2 DEF DocumentFits
<1>2. n.open = c
  BY DEF DocumentFits
<1>3. FrameFits(a[L])
  BY <1>1 DEF DocumentFits
<1>4. g.kind = a[L].kind /\ g.id = a[L].id /\ g.node = a[L].node /\ g.values = a[L].values
  <2> DEFINE x == a[L]
             k == {key}
  <2>1. x = [kind |-> x.kind, id |-> x.id, node |-> x.node, values |-> x.values, key |-> x.key]
    BY <1>3 DEF FrameFits
  <2>2. g = [x EXCEPT !.key = k]
    OBVIOUS
  <2> HIDE DEF x, k, g
  <2>3. g.kind = x.kind /\ g.id = x.id /\ g.node = x.node /\ g.values = x.values
    BY <2>1, <2>2
  <2> QED BY <2>3 DEF x
<1>5. Slots(g) = Slots(a[L]) /\ \A x : Tells(x, a[L]) => Tells(x, g)
  <2> DEFINE old == a[L]
  <2> HIDE DEF g, old
  <2>1. g.kind = old.kind /\ g.id = old.id /\ g.node = old.node /\ g.values = old.values
    BY <1>4 DEF old
  <2>2. Slots(g) = Slots(old) /\ \A x : Tells(x, old) => Tells(x, g)
    BY <2>1, TellsSame
  <2> QED BY <2>2 DEF old
<1> HIDE DEF g
<1>6. c = [i \in 1..L |-> c[i]] /\ \A i \in 1..L : c[i] = IF i = L THEN g ELSE a[i]
  BY <1>1
<1>7. IsSeq(c) /\ Len(c) = L
  <2> HIDE DEF c, L
  <2> QED BY <1>1, <1>6, FunctionIsSeq
<1> HIDE DEF c
<1>8. \A i \in 1..L : Slots(c[i]) = Slots(a[i]) /\ \A x : Tells(x, a[i]) => Tells(x, c[i])
  BY <1>5, <1>6
<1>9. /\ Held(m) = UNION { Slots(a[i]) : i \in 1..L }
      /\ \A i, j \in 1..L : i # j => Slots(a[i]) \intersect Slots(a[j]) = {}
      /\ \A i \in 1..L : Tells(m, a[i])
  BY DEF Recalls
<1> HIDE DEF a, L
<1>10. Held(m) = UNION { Slots(c[i]) : i \in 1..L }
  <2> DEFINE In(i, x) == x \in Slots(a[i])
  <2>1. \A x : x \in Held(m) <=> \E i \in 1..L : In(i, x)
    BY <1>9
  <2>2. \A i \in 1..L : \A x : In(i, x) <=> x \in Slots(c[i])
    BY <1>8
  <2> HIDE DEF In
  <2> QED BY <2>1, <2>2
<1>11. \A i, j \in 1..L : i # j => Slots(c[i]) \intersect Slots(c[j]) = {}
  BY <1>8, <1>9
<1>12. \A i \in 1..L : Tells(m, c[i])
  BY <1>8, <1>9
<1>13. Recalls(m, c)
  BY <1>7, <1>10, <1>11, <1>12 DEF Recalls
<1> QED BY <1>2, <1>13

LEMMA KeyRemembers ==
    ASSUME NEW d, DocumentFits(d), NEW m, IsMemory(m), Recalls(m, d.open), NEW counting,
           NEW t, t[1] = "key", d.open # <<>>
    PROVE  Remembers(process_pending_events(EffectOn(RouterOf(d), m, counting), Read(d, t).events),
                     Read(d, t).document)
<1> DEFINE key == t[2]
           p == KeyRead(d, key)
           r == RouterOf(d)
           e == EffectOn(r, m, counting)
           frame == Last(d.open)
           ev == [type |-> "PropertyKeySealed", frame |-> frame.id, key |-> key]
           f == Handled(e, ev)
           n == p.document
           done == process_pending_events(e, Read(d, t).events)
<1>1. Read(d, t) = Dated(p, t)
  BY DEF Read, Dated
<1>2. Follows(e, d, r, m) /\ Ok(e) /\ e.memory = m
  BY BeginFollows DEF EffectOn
<1>3. p = [document |-> p.document, events |-> p.events] /\ p.events = <<ev>>
      /\ n = [d EXCEPT !.open[Len(d.open)].key = {key}]
  BY DEF KeyRead
<1>4. f = set_pending_property(e, frame.id, key)
  <2> HIDE DEF e, frame, key
  <2> QED BY <1>2 DEF Handled, Then, process_event
<1>5. Follows(done, Read(d, t).document, r, m)
  BY KeyFollows
<1>6. Read(d, t).document = [n EXCEPT !.text = Append(@, t)] /\ Read(d, t).events = <<ev>>
  <2> HIDE DEF p, ev
  <2> QED BY <1>1, <1>3, Zenon DEF Dated
<1>7. n = [text |-> n.text, pool |-> n.pool, open |-> n.open, root |-> n.root]
  <2> HIDE DEF p, key
  <2> QED BY <1>3, Zenon DEF DocumentFits
<1>8. Read(d, t).document.open = n.open
  <2> DEFINE l == Read(d, t).document
             text == Append(n.text, t)
  <2>1. l = [n EXCEPT !.text = text]
    BY <1>6
  <2> HIDE DEF l, text, p
  <2>2. l.open = n.open
    BY <1>7, <2>1
  <2> QED BY <2>2 DEF l
<1>9. done = f
  <2> HIDE DEF e, ev
  <2> QED BY <1>6, OneEvent
<1>10. Recalls(m, n.open)
  <2> HIDE DEF p, key
  <2> QED BY <1>3, KeyRecalls
<1>11. Ok(f) => f.memory = m
  <2>1. Retraces(e, r, m)
    BY <1>2 DEF Follows
  <2> HIDE DEF e, r, f, frame, key
  <2> QED BY <1>2, <1>4, <2>1, SetPendingKeeps
<1> HIDE DEF done, f, p
<1> QED BY <1>8, <1>9, <1>10, <1>11 DEF Remembers, done, e, r

LEMMA OpenRemembers ==
    ASSUME Compiled, NEW d, DocumentFits(d), NEW m, IsMemory(m), Recalls(m, d.open), NEW counting,
           NEW t, t[1] = "open", t \in ValueTokens(ExpectedNode(d)),
           d.open # <<>> /\ Last(d.open).kind # "array" => Last(d.open).key # {}
    PROVE  Remembers(process_pending_events(EffectOn(RouterOf(d), m, counting), Read(d, t).events),
                     Read(d, t).document)
<1> DEFINE kind == t[2]
           p == Opened(d, kind)
           r == RouterOf(d)
           e == EffectOn(r, m, counting)
           id == Allocated(d.pool)
           node == ExpectedNode(d)
           type == IF kind = "array" THEN "ArrayStart" ELSE "ObjectStart"
           ev == [type |-> type, frame |-> id]
           f == Handled(e, ev)
           n == p.document
           pool == Allocate(d.pool)
           g == OpenFrame(kind, id, node)
           done == process_pending_events(e, Read(d, t).events)
<1>1. Read(d, t) = Dated(p, t)
  BY DEF Read, Dated
<1>2. Follows(e, d, r, m) /\ Ok(e) /\ e.router = r /\ e.memory = m
  BY BeginFollows DEF EffectOn
<1>3. p = [document |-> p.document, events |-> p.events] /\ p.events = <<ev>>
      /\ n = Repooled(d, Append(d.open, g), pool)
  BY Zenon DEF Opened, Repooled
<1>4. r.pending = node
  BY ExpectedPending
<1>5. Retraces(e, r, m)
  BY <1>2 DEF Follows
<1>6. schema[node].kind = "object" => kind = "object"
  <2> SUFFICES ASSUME schema[node].kind = "object" PROVE kind = "object"
    OBVIOUS
  <2>1. ~IsLeaf(node)
    BY DEF IsLeaf, IsLeafNode
  <2> HIDE DEF node
  <2>2. t = <<"open", schema[node].kind>>
    BY <2>1, ValueKinds DEF node
  <2> QED BY <2>2
<1>7. n.open = Append(d.open, g)
      /\ n = [text |-> n.text, pool |-> n.pool, open |-> n.open, root |-> n.root]
  <2> DEFINE a == Append(d.open, g)
  <2> HIDE DEF a, pool, g, p
  <2>1. n = [text |-> d.text, pool |-> pool, open |-> a, root |-> d.root]
    BY <1>3, Zenon DEF DocumentFits, Repooled, a
  <2> QED BY <2>1 DEF a
<1>8. Read(d, t).document = [n EXCEPT !.text = Append(@, t)] /\ Read(d, t).events = <<ev>>
  <2> HIDE DEF p, ev
  <2> QED BY <1>1, <1>3, Zenon DEF Dated
<1>9. Read(d, t).document.open = Append(d.open, g)
  <2> DEFINE l == Read(d, t).document
             text == Append(n.text, t)
  <2>1. l = [n EXCEPT !.text = text]
    BY <1>8
  <2> HIDE DEF l, text, p, g
  <2>2. l.open = n.open
    BY <1>7, <2>1
  <2> QED BY <1>7, <2>2 DEF l
<1>10. done = f
  <2> HIDE DEF e, ev
  <2> QED BY <1>8, OneEvent
<1>11. f = IF kind = "array" THEN ArrayStarted(e, id) ELSE ObjectStarted(e, id)
  <2> HIDE DEF e, id, kind
  <2> QED BY <1>2 DEF Handled, Then, process_event
<1>12. IsSeq(d.open)
  BY DEF DocumentFits
<1> SUFFICES ASSUME Ok(f) PROVE Recalls(f.memory, Append(d.open, g))
  <2> HIDE DEF done, f, g
  <2> QED BY <1>9, <1>10 DEF Remembers, done, e, r
<1> HIDE DEF e, f, r, node, id, kind, p, done
<1>13. Grown(m, f.memory, Slots(g)) /\ Tells(f.memory, g)
  <2>1. CASE kind = "array"
    <3>1. f = ArrayStarted(e, id) /\ g = OpenFrame("array", id, node) /\ node = e.router.pending
      BY <1>2, <1>4, <1>11, <2>1
    <3> HIDE DEF g
    <3> QED BY <1>2, <1>5, <3>1, ArrayStartedDone
  <2>2. CASE kind # "array"
    <3>1. f = ObjectStarted(e, id) /\ node = e.router.pending
      BY <1>2, <1>4, <1>11, <2>2
    <3>2. schema[node].kind = "object"
      <4>1. LET q == e.router.pending IN Ok(f) => schema[q].kind = "object"
        BY <1>5, <3>1, ObjectStartedRetraces
      <4> QED BY <3>1, <4>1
    <3>3. g = OpenFrame("object", id, node)
      BY <1>6, <3>2
    <3> HIDE DEF g
    <3> QED BY <1>2, <1>5, <3>1, <3>3, ObjectStartedDone
  <2> QED BY <2>1, <2>2
<1> HIDE DEF g
<1> QED BY <1>12, <1>13, RecallsMore

(* A token that the automaton offers, processed to the end, leaves a memory    *)
(* that recalls what the document then has open.                             *)
LEMMA TokenRemembers ==
    ASSUME Compiled, NEW d, DocumentFits(d), NEW m, IsMemory(m), Recalls(m, d.open), NEW counting,
           NEW t \in Candidates(d)
    PROVE  Remembers(process_pending_events(EffectOn(RouterOf(d), m, counting), Read(d, t).events),
                     Read(d, t).document)
<1>1. \/ t[1] = "scalar"
      \/ t[1] = "close" /\ d.open # <<>>
      \/ t[1] = "key" /\ d.open # <<>>
      \/ /\ t[1] = "open" /\ t \in ValueTokens(ExpectedNode(d))
         /\ d.open # <<>> /\ Last(d.open).kind # "array" => Last(d.open).key # {}
  BY CandidateKinds
<1> QED BY <1>1, ScalarRemembers, CloseRemembers, KeyRemembers, OpenRemembers, Zenon

-------------------------------------------------------------------------------
(* The invariant: the memory recalls the text unless the last token was       *)
(* stopped half-way, and what every mark must bring back recalls its text.    *)
MarksRecall(list) ==
    \A i \in 1..Len(list) : Recalls(list[i].saved[2], list[i].document.open)

RecallInv ==
    /\ error = "none" => Recalls(memory, document.open)
    /\ MarksRecall(marks)

LEMMA RecallsStays ==
    ASSUME root' = root, schema' = schema
    PROVE  /\ \A m, open : Recalls(m, open)' <=> Recalls(m, open)
           /\ \A list : MarksRecall(list)' <=> MarksRecall(list)
<1>1. \A f : Slots(f)' = Slots(f)
  BY DEF Slots, HasHistory, HasCounter, HasScope, Unique, ContainsOf, Extended
<1>2. \A x, f : CounterTells(x, f)' <=> CounterTells(x, f)
  BY DEF CounterTells, Satisfying, ContainsOf
<1>3. \A x, f : ScopeTells(x, f)' <=> ScopeTells(x, f)
  BY DEF ScopeTells, RegistersAt, ActionsOf
<1>4. \A x, slot, f : Says(x, slot, f)' <=> Says(x, slot, f)
  BY <1>2, <1>3 DEF Says
<1>5. \A m, f : Tells(m, f)' <=> Tells(m, f)
  BY <1>1, <1>4 DEF Tells
<1>6. \A m, open : Recalls(m, open)' <=> Recalls(m, open)
  BY <1>1, <1>5 DEF Recalls
<1>7. \A list : MarksRecall(list)' <=> MarksRecall(list)
  BY <1>6 DEF MarksRecall
<1> QED BY <1>6, <1>7

LEMMA KeepsRecall ==
    ASSUME root' = root, schema' = schema,
           error' = "none" => Recalls(memory', document'.open), MarksRecall(marks')
    PROVE  RecallInv'
<1>1. error' = "none" => Recalls(memory, document.open)'
  BY RecallsStays
<1>2. MarksRecall(marks)'
  BY RecallsStays
<1> QED BY <1>1, <1>2 DEF RecallInv

LEMMA StartsRecalling ==
    ASSUME Init
    PROVE  RecallInv
<1>1. document.open = <<>> /\ marks = <<>> /\ memory = EmptyMemory
  BY DEF Init, NewDocument
<1>2. Held(EmptyMemory) = {}
  BY DEF Held, EmptyMemory, EmptyMap
<1>3. Recalls(EmptyMemory, <<>>)
  BY <1>2 DEF Recalls
<1> QED BY <1>1, <1>3 DEF RecallInv, MarksRecall

LEMMA MarkRecalls ==
    ASSUME UndoInv, RecallInv, Mark
    PROVE  RecallInv'
<1> DEFINE new == [router_len |-> Len(routerJournal), semantic_len |-> Len(semanticJournal),
                   saved |-> <<router, memory>>, document |-> document]
<1>1. /\ error = "none" /\ root' = root /\ schema' = schema /\ document' = document
      /\ memory' = memory /\ marks' = Append(marks, new)
  BY DEF Mark
<1>2. Recalls(memory, document.open) /\ MarksRecall(marks) /\ IsSeq(marks)
  BY <1>1 DEF RecallInv, UndoInv, MarksLead
<1>3. new.saved[2] = memory /\ new.document = document
  OBVIOUS
<1> HIDE DEF new
<1>4. /\ Len(Append(marks, new)) = Len(marks) + 1 /\ Len(marks) \in Nat
      /\ Append(marks, new)[Len(marks) + 1] = new
      /\ \A i \in 1..Len(marks) : Append(marks, new)[i] = marks[i]
  BY <1>2, IsSeqAppend, IsSeqLen
<1>5. MarksRecall(Append(marks, new))
  BY <1>2, <1>3, <1>4 DEF MarksRecall
<1> QED BY <1>1, <1>2, <1>5, KeepsRecall

LEMMA TakeRecalls ==
    ASSUME UndoInv, RecallInv, NEW t \in Candidates(document), Take(t)
    PROVE  RecallInv'
<1> DEFINE step == Read(document, t)
           e == process_pending_events(EffectOn(router, memory, scratch), step.events)
<1>1. /\ error = "none" /\ root' = root /\ schema' = schema /\ marks' = marks
      /\ document' = step.document /\ memory' = e.memory /\ error' = e.error
  BY DEF Take
<1>2. /\ Compiled /\ IsMemory(memory) /\ DocumentFits(document) /\ router = RouterOf(document)
      /\ Recalls(memory, document.open) /\ MarksRecall(marks)
  BY <1>1 DEF UndoInv, FollowsText, RecallInv
<1>3. Remembers(e, step.document)
  <2> DEFINE d == document
             m == memory
             counting == scratch
             a == process_pending_events(EffectOn(RouterOf(d), m, counting), Read(d, t).events)
  <2>1. Remembers(a, Read(d, t).document)
    BY <1>2, TokenRemembers
  <2>2. a = e
    BY <1>2
  <2> HIDE DEF a, e
  <2> QED BY <2>1, <2>2
<1> HIDE DEF e, step
<1>4. e.error = "none" => Recalls(e.memory, step.document.open)
  BY <1>3 DEF Remembers, Ok
<1> QED BY <1>1, <1>2, <1>4, KeepsRecall

LEMMA RestoreRecalls ==
    ASSUME UndoInv, RecallInv, NEW i \in 1..Len(marks), Restore(i)
    PROVE  RecallInv'
<1> DEFINE mark == marks[i]
           l == i - 1
<1>1. MarksLead(marks, routerJournal, semanticJournal, router, memory) /\ MarksRecall(marks)
  BY DEF UndoInv, RecallInv
<1>2. /\ root' = root /\ schema' = schema /\ document' = mark.document
      /\ marks' = SubSeq(marks, 1, l)
      /\ \E s \in Restored(mark) : router' = s[1] /\ memory' = s[2]
  BY DEF Restore
<1>3. memory' = mark.saved[2]
  BY <1>1, <1>2, RestoredIsSaved, Zenon
<1>4. Recalls(mark.saved[2], mark.document.open)
  BY <1>1 DEF MarksRecall
<1>5. /\ IsSeq(marks) /\ Len(marks) \in Nat /\ l \in 0..Len(marks) /\ 0 \in 0..l
  BY <1>1, IsSeqLen DEF MarksLead
<1> HIDE DEF mark, l
<1>6. Len(Segment(marks, 0, l)) = l - 0
      /\ \A j \in 1..(l - 0) : Segment(marks, 0, l)[j] = marks[0 + j]
  BY <1>5, SegmentFacts, Zenon
<1>7. Segment(marks, 0, l) = SubSeq(marks, 1, l)
  <2>1. 0 + 1 = 1
    OBVIOUS
  <2> QED BY <2>1 DEF Segment
<1> DEFINE w == SubSeq(marks, 1, l)
<1> HIDE DEF w
<1>8. Len(w) = l /\ \A j \in 1..l : w[j] = marks[j]
  <2>1. l - 0 = l /\ \A j \in 1..l : 0 + j = j
    BY <1>5
  <2> QED BY <1>6, <1>7, <2>1, Zenon DEF w
<1>9. MarksRecall(w)
  <2>1. \A j \in 1..l : j \in 1..Len(marks)
    BY <1>5
  <2> QED BY <1>1, <1>8, <2>1 DEF MarksRecall
<1>10. MarksRecall(marks')
  BY <1>2, <1>9, Zenon DEF w
<1> QED BY <1>2, <1>3, <1>4, <1>10, KeepsRecall

(* A list whose marks save what those of another save, recalls as much.       *)
LEMMA SavedRecalls ==
    ASSUME NEW list, NEW new, MarksRecall(list), Len(list) \in Nat,
           Len(new) = Len(list) - 1,
           \A i \in 1..Len(list) - 1 :
               new[i].saved = list[i + 1].saved /\ new[i].document = list[i + 1].document
    PROVE  MarksRecall(new)
<1> SUFFICES ASSUME NEW i \in 1..Len(new)
             PROVE  Recalls(new[i].saved[2], new[i].document.open)
  BY DEF MarksRecall
<1>1. i \in 1..Len(list) - 1 /\ i + 1 \in 1..Len(list)
  OBVIOUS
<1> QED BY <1>1 DEF MarksRecall

LEMMA ShiftedSaves ==
    ASSUME NEW mark, IsMark(mark), NEW n, NEW k
    PROVE  Shifted(mark, n, k).saved = mark.saved /\ Shifted(mark, n, k).document = mark.document
<1> DEFINE a == mark.router_len - n
           b == mark.semantic_len - k
           half == [mark EXCEPT !.router_len = a]
<1>1. Shifted(mark, n, k) = [mark EXCEPT !.router_len = a, !.semantic_len = b]
  BY DEF Shifted
<1> HIDE DEF a, b
<1>2. mark = [router_len |-> mark.router_len, semantic_len |-> mark.semantic_len,
              saved |-> mark.saved, document |-> mark.document]
  BY DEF IsMark
<1>3. half = [router_len |-> a, semantic_len |-> mark.semantic_len,
              saved |-> mark.saved, document |-> mark.document]
  BY <1>2
<1>4. Shifted(mark, n, k) = [half EXCEPT !.semantic_len = b]
  BY <1>1
<1> HIDE DEF half
<1> QED BY <1>3, <1>4

LEMMA DiscardRecalls ==
    ASSUME UndoInv, RecallInv, DiscardPrefix
    PROVE  RecallInv'
<1> DEFINE n == marks[2].router_len
           k == marks[2].semantic_len
           L == Len(marks) - 1
           new == [i \in 1..L |->
                      [marks[i + 1] EXCEPT !.router_len = @ - n, !.semantic_len = @ - k]]
<1>1. /\ error = "none" /\ root' = root /\ schema' = schema /\ document' = document
      /\ memory' = memory /\ marks' = new /\ Len(marks) > 1
  BY Zenon DEF DiscardPrefix
<1> HIDE DEF new, L
<1>2. /\ Recalls(memory, document.open) /\ MarksRecall(marks)
      /\ MarksLead(marks, routerJournal, semanticJournal, router, memory)
  BY <1>1, Zenon DEF RecallInv, UndoInv
<1>3. IsSeq(marks) /\ Len(marks) \in Nat
  BY <1>2, IsSeqLen DEF MarksLead
<1>4. L \in Nat /\ \A i \in 1..L : i + 1 \in 1..Len(marks)
  BY <1>1, <1>3 DEF L
<1>5. \A i \in 1..L : IsMark(marks[i + 1])
  BY <1>2, <1>4 DEF MarksLead, MarkFits
<1>6. \A i \in 1..L : new[i] = Shifted(marks[i + 1], n, k)
  BY DEF Shifted, new
<1>7. Len(new) = L
  <2> DEFINE S == { new[i] : i \in 1..L }
  <2>1. new \in [1..L -> S]
    BY Zenon DEF new
  <2> HIDE DEF S
  <2> QED BY <1>4, <2>1
<1> HIDE DEF n, k
<1>8. \A i \in 1..L : new[i].saved = marks[i + 1].saved /\ new[i].document = marks[i + 1].document
  BY <1>5, <1>6, ShiftedSaves
<1>9. MarksRecall(new)
  BY <1>2, <1>3, <1>7, <1>8, SavedRecalls DEF L
<1> QED BY <1>1, <1>2, <1>9, KeepsRecall

LEMMA MaskRecalls ==
    ASSUME UndoInv, RecallInv, WriteMask
    PROVE  RecallInv'
<1> DEFINE e == Mask(Candidates(document))
<1>1. /\ error = "none" /\ root' = root /\ schema' = schema /\ document' = document
      /\ marks' = marks /\ memory' = e.memory
  BY DEF WriteMask
<1>2. /\ Compiled /\ IsMemory(memory) /\ DocumentFits(document) /\ router = RouterOf(document)
      /\ Recalls(memory, document.open) /\ MarksRecall(marks)
  BY <1>1 DEF UndoInv, FollowsText, RecallInv
<1>3. Untouched(e)
  BY <1>2, MaskUntouched
<1> HIDE DEF e
<1>4. memory' = memory
  BY <1>1, <1>3 DEF Untouched
<1> QED BY <1>1, <1>2, <1>4, KeepsRecall

LEMMA StillRecalls ==
    ASSUME RecallInv, UNCHANGED vars
    PROVE  RecallInv'
<1>1. /\ root' = root /\ schema' = schema /\ document' = document
      /\ marks' = marks /\ memory' = memory /\ error' = error
  BY DEF vars
<1> QED BY <1>1, KeepsRecall DEF RecallInv

-------------------------------------------------------------------------------
(* What recalling says of the three stores.                                 *)
LEMMA SlotsOfFrame ==
    ASSUME NEW f
    PROVE  /\ \A k : HistorySlot(k) \in Slots(f) <=> HasHistory(f) /\ k = KeyOf(f)
           /\ \A k : CounterSlot(k) \in Slots(f) <=> HasCounter(f) /\ k = KeyOf(f)
           /\ \A o : ScopeSlot(o) \in Slots(f) <=> HasScope(f) /\ o = f.id
BY SlotsDiffer DEF Slots

LEMMA SlotsSay ==
    ASSUME NEW m, NEW f, Tells(m, f)
    PROVE  /\ HasHistory(f) => HistoryTells(m.histories[KeyOf(f)], f.values)
           /\ HasCounter(f) => CounterTells(m.counters[KeyOf(f)], f)
           /\ HasScope(f) => ScopeTells(m.scopes[f.id], f)
<1>1. ASSUME HasHistory(f) PROVE HistoryTells(m.histories[KeyOf(f)], f.values)
  <2>1. HistorySlot(KeyOf(f)) \in Slots(f)
    BY <1>1, SlotsOfFrame
  <2>2. HistorySlot(KeyOf(f))[1] = "history"
    BY DEF HistorySlot
  <2>3. HistoryTells(Entry(m, HistorySlot(KeyOf(f))), f.values)
    BY <2>1, <2>2 DEF Tells, Says
  <2> QED BY <2>3, SlotFacts
<1>2. ASSUME HasCounter(f) PROVE CounterTells(m.counters[KeyOf(f)], f)
  <2>1. CounterSlot(KeyOf(f)) \in Slots(f)
    BY <1>2, SlotsOfFrame
  <2>2. CounterSlot(KeyOf(f))[1] = "counter"
    BY DEF CounterSlot
  <2>3. CounterTells(Entry(m, CounterSlot(KeyOf(f))), f)
    BY <2>1, <2>2 DEF Tells, Says
  <2> QED BY <2>3, SlotFacts
<1>3. ASSUME HasScope(f) PROVE ScopeTells(m.scopes[f.id], f)
  <2>1. ScopeSlot(f.id) \in Slots(f)
    BY <1>3, SlotsOfFrame
  <2>2. ScopeSlot(f.id)[1] = "scope"
    BY DEF ScopeSlot
  <2>3. ScopeTells(Entry(m, ScopeSlot(f.id)), f)
    BY <2>1, <2>2 DEF Tells, Says
  <2> QED BY <2>3, SlotFacts
<1> QED BY <1>1, <1>2, <1>3

LEMMA RecallingTells ==
    ASSUME NEW m, NEW open, IsSeq(open), Recalls(m, open)
    PROVE  /\ HistoriesTell(m.histories, open) /\ CountersTell(m.counters, open)
           /\ ScopesTell(m.scopes, open)
<1>1. DOMAIN open = 1..Len(open)
  BY IsSeqLen
<1>2. \A slot : slot \in Held(m) <=> \E i \in DOMAIN open : slot \in Slots(open[i])
  BY <1>1 DEF Recalls
<1>3. \A i \in DOMAIN open : Tells(m, open[i])
  BY <1>1 DEF Recalls
<1>4. HistoriesTell(m.histories, open)
  <2>1. \A k : k \in DOMAIN m.histories <=>
                  \E i \in DOMAIN open : HasHistory(open[i]) /\ k = KeyOf(open[i])
    BY <1>2, SlotFacts, SlotsOfFrame
  <2>2. \A i \in DOMAIN open :
            HasHistory(open[i]) => HistoryTells(m.histories[KeyOf(open[i])], open[i].values)
    BY <1>3, SlotsSay
  <2> QED BY <2>1, <2>2 DEF HistoriesTell
<1>5. CountersTell(m.counters, open)
  <2>1. \A k : k \in DOMAIN m.counters <=>
                  \E i \in DOMAIN open : HasCounter(open[i]) /\ k = KeyOf(open[i])
    BY <1>2, SlotFacts, SlotsOfFrame
  <2>2. \A i \in DOMAIN open :
            HasCounter(open[i]) => CounterTells(m.counters[KeyOf(open[i])], open[i])
    BY <1>3, SlotsSay
  <2> QED BY <2>1, <2>2 DEF CountersTell
<1>6. ScopesTell(m.scopes, open)
  <2>1. \A o : o \in DOMAIN m.scopes <=>
                  \E i \in DOMAIN open : HasScope(open[i]) /\ o = open[i].id
    BY <1>2, SlotFacts, SlotsOfFrame
  <2>2. \A i \in DOMAIN open :
            HasScope(open[i]) => ScopeTells(m.scopes[open[i].id], open[i])
    BY <1>3, SlotsSay
  <2> QED BY <2>1, <2>2 DEF ScopesTell
<1> QED BY <1>4, <1>5, <1>6

(* What every state recalls: unless the last token was stopped half-way, the   *)
(* stores hold what the open arrays and objects hold; and so it is for what    *)
(* the journals bring back at every mark (sidememory/history.rs, contains.rs,  *)
(* register.rs, constraint.rs).                                             *)
THEOREM RecallInvHolds == Spec => []RecallInv
<1>1. Init => RecallInv
  BY StartsRecalling
<1>2. UndoInv /\ RecallInv /\ [Next]_vars => RecallInv'
  <2> SUFFICES ASSUME UndoInv, RecallInv, [Next]_vars PROVE RecallInv'
    OBVIOUS
  <2>1. CASE Mark
    BY <2>1, MarkRecalls
  <2>2. ASSUME NEW t \in Candidates(document), Take(t) PROVE RecallInv'
    BY <2>2, TakeRecalls
  <2>3. ASSUME NEW i \in 1..Len(marks), Restore(i) PROVE RecallInv'
    BY <2>3, RestoreRecalls
  <2>4. CASE DiscardPrefix
    BY <2>4, DiscardRecalls
  <2>5. CASE WriteMask
    BY <2>5, MaskRecalls
  <2>6. CASE UNCHANGED vars
    BY <2>6, StillRecalls
  <2> QED BY <2>1, <2>2, <2>3, <2>4, <2>5, <2>6 DEF Next
<1> QED BY <1>1, <1>2, UndoInvHolds, PTL DEF Spec

(* Histories, counters and registers (sidememory/history.rs, contains.rs,     *)
(* register.rs) say what the open arrays and objects of the text hold, nothing *)
(* of closed ones is left, and the totals of items and values are those of     *)
(* what is held, whatever schema, plan, imports, fingerprint and limits, also  *)
(* after undo, restore, compaction and masks.                                *)
THEOREM MemoryTellsTruthHolds == Spec => []MemoryTellsTruth
<1>1. UndoInv /\ RecallInv => MemoryTellsTruth
  <2> SUFFICES ASSUME UndoInv, RecallInv PROVE MemoryTellsTruth
    OBVIOUS
  <2>1. IsMemory(memory)
    BY DEF UndoInv
  <2>2. /\ memory.item_count = Cardinality(ItemsHeld(memory.histories))
        /\ memory.value_count = Cardinality(RegistersSet(memory.scopes))
    BY <2>1 DEF IsMemory, IsTotal
  <2>3. WellFormedMemory(memory, HeldValues(memory))
    BY <2>1, MemoryWellFormed
  <2>4. ASSUME error = "none"
        PROVE  /\ HistoriesTell(memory.histories, document.open)
               /\ CountersTell(memory.counters, document.open)
               /\ ScopesTell(memory.scopes, document.open)
    <3>1. IsSeq(document.open) /\ Recalls(memory, document.open)
      BY <2>4 DEF UndoInv, RecallInv, FollowsText, DocumentFits
    <3> QED BY <3>1, RecallingTells
  <2> QED BY <2>2, <2>3, <2>4 DEF MemoryTellsTruth
<1> QED BY <1>1, UndoInvHolds, RecallInvHolds, PTL

===============================================================================
