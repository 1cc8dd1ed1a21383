-------------------------- MODULE SemanticMemoryProofs --------------------------
(***************************************************************************)
(* The semantic memory, for every schema, plan, import, fingerprint and     *)
(* limit.  First, undo inverts every operation of the stores and the router *)
(* keeps; then each handler leaves records that lead back to where it began *)
(* (Retraces), also where it was refused, and leaves the router where the   *)
(* text is if it was not (Follows); then marks, compaction and masks; at    *)
(* the end the inductive invariant and what follows from it.                *)
(***************************************************************************)
EXTENDS SemanticMemory, SequenceLemmas, FiniteSetTheorems, TLAPS

(* Maps: a key added and removed, removed and added, overwritten and put back. *)

LEMMA WithoutWith ==
    ASSUME NEW f, IsMap(f), NEW k, k \notin DOMAIN f, NEW v
    PROVE  Without(With(f, k, v), k) = f
<1>1. DOMAIN With(f, k, v) \ {k} = DOMAIN f
  BY DEF With
<1>2. \A x \in DOMAIN f : With(f, k, v)[x] = f[x]
  BY DEF With
<1>3. Without(With(f, k, v), k) = [x \in DOMAIN f |-> f[x]]
  BY <1>1, <1>2 DEF Without
<1> QED BY <1>3 DEF IsMap

LEMMA WithWithout ==
    ASSUME NEW f, IsMap(f), NEW k \in DOMAIN f
    PROVE  /\ DOMAIN Without(f, k) = DOMAIN f \ {k}
           /\ With(Without(f, k), k, f[k]) = f
<1>1. DOMAIN Without(f, k) \union {k} = DOMAIN f /\ DOMAIN Without(f, k) = DOMAIN f \ {k}
  BY DEF Without
<1>2. With(Without(f, k), k, f[k]) = [x \in DOMAIN f |-> f[x]]
  BY <1>1 DEF With, Without
<1> QED BY <1>1, <1>2 DEF IsMap

LEMMA WithBack ==
    ASSUME NEW f, IsMap(f), NEW k \in DOMAIN f, NEW v
    PROVE  With(With(f, k, v), k, f[k]) = f
<1>1. DOMAIN With(f, k, v) \union {k} = DOMAIN f
  BY DEF With
<1>2. With(With(f, k, v), k, f[k]) = [x \in DOMAIN f |-> f[x]]
  BY <1>1 DEF With
<1> QED BY <1>2 DEF IsMap

LEMMA AppendBack ==
    ASSUME NEW Values, NEW s \in Seq(Values), NEW v \in Values
    PROVE  /\ Len(Append(s, v)) = Len(s) + 1
           /\ Len(s) \in Nat
           /\ SubSeq(Append(s, v), 1, Len(s)) = s
OBVIOUS

-------------------------------------------------------------------------------
(* Counters.                                                               *)

(* Undoing the creation of a counter (counter.rs create_journaled).           *)
THEOREM UndoCreateCounter ==
    ASSUME NEW Values, NEW m, WellFormedMemory(m, Values), NEW k, k \notin DOMAIN m.counters
    PROVE  /\ StoreCanUndo(CreateCounter(m, k), RemoveCreatedCounter(k))
           /\ StoreUndo(CreateCounter(m, k), RemoveCreatedCounter(k)) = m
<1> DEFINE n == CreateCounter(m, k)
           u == RemoveCreatedCounter(k)
<1>1. IsMap(m.counters) BY DEF WellFormedMemory
<1>2. u.op = "RemoveCreatedCounter" /\ u.key = k
  BY DEF RemoveCreatedCounter
<1>3. n.counters = With(m.counters, k, NewCounter)
  BY DEF CreateCounter, WellFormedMemory
<1>4. k \in DOMAIN n.counters /\ n.counters[k] = NewCounter
  BY <1>3 DEF With
<1>5. StoreCanUndo(n, u)
  <2> HIDE DEF n, u
  <2> QED BY <1>2, <1>4 DEF StoreCanUndo
<1>6. StoreUndo(n, u) = [n EXCEPT !.counters = Without(n.counters, k)]
  BY <1>2 DEF StoreUndo
<1>7. Without(n.counters, k) = m.counters
  BY <1>1, <1>3, WithoutWith
<1>8. [n EXCEPT !.counters = m.counters] = m
  BY Zenon DEF CreateCounter, WellFormedMemory
<1> QED BY <1>5, <1>6, <1>7, <1>8 DEF n, u

(* Undoing a count, of an item that matched or not (update_journaled).        *)
THEOREM UndoUpdateCounter ==
    ASSUME NEW Values, NEW m, WellFormedMemory(m, Values), NEW k \in DOMAIN m.counters, NEW matched
    PROVE  /\ StoreCanUndo(UpdateCounter(m, k, matched), RestoreCounter(m, k))
           /\ StoreUndo(UpdateCounter(m, k, matched), RestoreCounter(m, k)) = m
<1> DEFINE n == UpdateCounter(m, k, matched)
           u == RestoreCounter(m, k)
<1>1. IsMap(m.counters) BY DEF WellFormedMemory
<1>2. u.op = "RestoreCounter" /\ u.key = k /\ u.previous = m.counters[k]
  BY DEF RestoreCounter
<1>3. n.counters = With(m.counters, k, Counted(m.counters[k], matched))
  BY DEF UpdateCounter, WellFormedMemory
<1>4. k \in DOMAIN n.counters
  BY <1>3 DEF With
<1>5. StoreCanUndo(n, u)
  <2> HIDE DEF n, u
  <2> QED BY <1>2, <1>4 DEF StoreCanUndo
<1>6. StoreUndo(n, u) = [n EXCEPT !.counters = With(n.counters, k, m.counters[k])]
  BY <1>2 DEF StoreUndo
<1>7. With(n.counters, k, m.counters[k]) = m.counters
  BY <1>1, <1>3, WithBack
<1>8. [n EXCEPT !.counters = m.counters] = m
  BY Zenon DEF UpdateCounter, WellFormedMemory
<1> QED BY <1>5, <1>6, <1>7, <1>8 DEF n, u

(* Undoing the close of a counter (close_journaled).                          *)
THEOREM UndoCloseCounter ==
    ASSUME NEW Values, NEW m, WellFormedMemory(m, Values), NEW k \in DOMAIN m.counters
    PROVE  /\ StoreCanUndo(CloseCounter(m, k), RestoreClosedCounter(m, k))
           /\ StoreUndo(CloseCounter(m, k), RestoreClosedCounter(m, k)) = m
<1> DEFINE n == CloseCounter(m, k)
           u == RestoreClosedCounter(m, k)
<1>1. IsMap(m.counters) BY DEF WellFormedMemory
<1>2. u.op = "RestoreClosedCounter" /\ u.key = k /\ u.state = m.counters[k]
  BY DEF RestoreClosedCounter
<1>3. n.counters = Without(m.counters, k)
  BY DEF CloseCounter, WellFormedMemory
<1>4. k \notin DOMAIN n.counters
  BY <1>3 DEF Without
<1>5. StoreCanUndo(n, u)
  <2> HIDE DEF n, u
  <2> QED BY <1>2, <1>4 DEF StoreCanUndo
<1>6. StoreUndo(n, u) = [n EXCEPT !.counters = With(n.counters, k, m.counters[k])]
  BY <1>2 DEF StoreUndo
<1>7. With(n.counters, k, m.counters[k]) = m.counters
  BY <1>1, <1>3, WithWithout, Zenon
<1>8. [n EXCEPT !.counters = m.counters] = m
  BY Zenon DEF CloseCounter, WellFormedMemory
<1> QED BY <1>5, <1>6, <1>7, <1>8 DEF n, u

-------------------------------------------------------------------------------
(* Histories.                                                              *)

(* Undoing the creation of a history (history.rs create_journaled).           *)
THEOREM UndoCreateHistory ==
    ASSUME NEW Values, NEW m, WellFormedMemory(m, Values), NEW k, k \notin DOMAIN m.histories
    PROVE  /\ StoreCanUndo(CreateHistory(m, k), RemoveCreatedHistory(k))
           /\ StoreUndo(CreateHistory(m, k), RemoveCreatedHistory(k)) = m
<1> DEFINE n == CreateHistory(m, k)
           u == RemoveCreatedHistory(k)
<1>1. IsMap(m.histories) BY DEF WellFormedMemory
<1>2. u.op = "RemoveCreatedHistory" /\ u.key = k
  BY DEF RemoveCreatedHistory
<1>3. n.histories = With(m.histories, k, EmptyHistory)
  BY DEF CreateHistory, WellFormedMemory
<1>4. k \in DOMAIN n.histories /\ n.histories[k].len = 0
  BY <1>3 DEF With, EmptyHistory
<1>5. StoreCanUndo(n, u)
  <2> HIDE DEF n, u
  <2> QED BY <1>2, <1>4 DEF StoreCanUndo
<1>6. StoreUndo(n, u) = [n EXCEPT !.histories = Without(n.histories, k)]
  BY <1>2 DEF StoreUndo
<1>7. Without(n.histories, k) = m.histories
  BY <1>1, <1>3, WithoutWith
<1>8. [n EXCEPT !.histories = m.histories] = m
  BY Zenon DEF CreateHistory, WellFormedMemory
<1> QED BY <1>5, <1>6, <1>7, <1>8 DEF n, u

(* Undoing an insertion, into a new bucket or an old one                     *)
(* (insert_journaled): bucket, length and total come back.                   *)
THEOREM UndoInsert ==
    ASSUME NEW Values, NEW m, WellFormedMemory(m, Values), NEW k \in DOMAIN m.histories,
           NEW v \in Values
    PROVE  /\ StoreCanUndo(Insert(m, k, v), RestoreBucket(m, k, v))
           /\ StoreUndo(Insert(m, k, v), RestoreBucket(m, k, v)) = m
<1> DEFINE n == Insert(m, k, v)
           u == RestoreBucket(m, k, v)
           h == m.histories[k]
           p == Fingerprint(v)
           bucket == Bucket(h, v)
           buckets == With(h.buckets, p, Append(bucket, v))
           grown == [buckets |-> buckets, len |-> h.len + 1]
<1>1. /\ IsMap(m.histories) /\ IsMap(h.buckets) /\ h.len \in Nat
      /\ h = [buckets |-> h.buckets, len |-> h.len]
      /\ \A q \in DOMAIN h.buckets : h.buckets[q] \in Seq(Values)
  BY DEF WellFormedMemory, WellFormedHistory
<1>2. /\ u.op = "RestoreBucket" /\ u.key = k /\ u.fingerprint = p
      /\ u.previous_len = Len(bucket)
      /\ u.bucket_was_created <=> p \notin DOMAIN h.buckets
      /\ u.previous_item_count = m.item_count
  BY Zenon DEF RestoreBucket
<1>3. n.histories = With(m.histories, k, grown)
  BY DEF Insert, WellFormedMemory
<1>4. k \in DOMAIN n.histories /\ n.histories[k] = grown
  BY <1>3 DEF With
<1>5. bucket \in Seq(Values) /\ (p \in DOMAIN h.buckets => bucket = h.buckets[p])
                            /\ (p \notin DOMAIN h.buckets => bucket = <<>>)
  BY <1>1 DEF Bucket
<1>6. p \in DOMAIN buckets /\ buckets[p] = Append(bucket, v)
  BY DEF With
<1>7. /\ Len(Append(bucket, v)) = Len(bucket) + 1 /\ Len(bucket) \in Nat
      /\ SubSeq(Append(bucket, v), 1, Len(bucket)) = bucket
  <2> HIDE DEF bucket
  <2> QED BY <1>5, AppendBack
<1>8. grown.buckets = buckets /\ grown.len = h.len + 1
  OBVIOUS
<1>9. StoreCanUndo(n, u)
  <2>1. p \notin DOMAIN h.buckets => Len(bucket) = 0
    <3> HIDE DEF bucket, h, p
    <3> QED BY <1>5
  <2> HIDE DEF n, u, h, p, bucket, buckets, grown
  <2> QED BY <1>1, <1>2, <1>4, <1>6, <1>7, <1>8, <2>1 DEF StoreCanUndo
<1>10. StoreUndo(n, u) =
           [n EXCEPT !.histories = With(n.histories, k, TruncatedBucket(grown, u)),
                     !.item_count = m.item_count]
  <2> HIDE DEF n, u, grown
  <2> QED BY <1>2, <1>4 DEF StoreUndo
<1>11. TruncatedBucket(grown, u) = h
  <2>1. TruncatedBucket(grown, u).len = h.len
    <3> HIDE DEF h, buckets
    <3> QED BY <1>1 DEF TruncatedBucket
  <2>2. TruncatedBucket(grown, u).buckets = h.buckets
    <3>1. CASE p \notin DOMAIN h.buckets
      <4>1. TruncatedBucket(grown, u).buckets = Without(buckets, p)
        <5> HIDE DEF u, h, p, buckets
        <5> QED BY <1>2, <1>8, <3>1 DEF TruncatedBucket
      <4> QED BY <1>1, <3>1, <4>1, WithoutWith
    <3>2. CASE p \in DOMAIN h.buckets
      <4>1. TruncatedBucket(grown, u).buckets =
                With(buckets, p, SubSeq(buckets[p], 1, Len(bucket)))
        <5> HIDE DEF u, h, p, buckets, bucket
        <5> QED BY <1>2, <1>8, <3>2 DEF TruncatedBucket
      <4>2. SubSeq(buckets[p], 1, Len(bucket)) = h.buckets[p]
        <5> HIDE DEF h, p, buckets, bucket
        <5> QED BY <1>5, <1>6, <1>7, <3>2
      <4> QED BY <1>1, <3>2, <4>1, <4>2, WithBack, Zenon
    <3> QED BY <3>1, <3>2
  <2>3. TruncatedBucket(grown, u) =
            [buckets |-> TruncatedBucket(grown, u).buckets, len |-> TruncatedBucket(grown, u).len]
    BY DEF TruncatedBucket
  <2> HIDE DEF u, h, grown
  <2> QED BY <1>1, <2>1, <2>2, <2>3
<1>12. With(n.histories, k, h) = m.histories
  BY <1>1, <1>3, WithBack
<1>13. [n EXCEPT !.histories = m.histories, !.item_count = m.item_count] = m
  BY Zenon DEF Insert, WellFormedMemory
<1> HIDE DEF h, grown
<1> QED BY <1>9, <1>10, <1>11, <1>12, <1>13 DEF n, u

(* Undoing the close of a history, with the total of items (close_journaled).  *)
THEOREM UndoCloseHistory ==
    ASSUME NEW Values, NEW m, WellFormedMemory(m, Values), NEW k \in DOMAIN m.histories
    PROVE  /\ StoreCanUndo(CloseHistory(m, k), RestoreClosedHistory(m, k))
           /\ StoreUndo(CloseHistory(m, k), RestoreClosedHistory(m, k)) = m
<1> DEFINE n == CloseHistory(m, k)
           u == RestoreClosedHistory(m, k)
<1>1. IsMap(m.histories) BY DEF WellFormedMemory
<1>2. u.op = "RestoreClosedHistory" /\ u.key = k /\ u.history = m.histories[k]
      /\ u.previous_item_count = m.item_count
  BY DEF RestoreClosedHistory
<1>3. n.histories = Without(m.histories, k)
  BY DEF CloseHistory, WellFormedMemory
<1>4. k \notin DOMAIN n.histories
  BY <1>3 DEF Without
<1>5. StoreCanUndo(n, u)
  <2> HIDE DEF n, u
  <2> QED BY <1>2, <1>4 DEF StoreCanUndo
<1>6. StoreUndo(n, u) = [n EXCEPT !.histories = With(n.histories, k, m.histories[k]), !.item_count = m.item_count]
  BY <1>2 DEF StoreUndo
<1>7. With(n.histories, k, m.histories[k]) = m.histories
  BY <1>1, <1>3, WithWithout, Zenon
<1>8. [n EXCEPT !.histories = m.histories, !.item_count = m.item_count] = m
  BY Zenon DEF CloseHistory, WellFormedMemory
<1> QED BY <1>5, <1>6, <1>7, <1>8 DEF n, u

-------------------------------------------------------------------------------
(* Registers.                                                              *)

(* Undoing the opening of a scope (register.rs open_journaled).               *)
THEOREM UndoOpenScope ==
    ASSUME NEW Values, NEW m, WellFormedMemory(m, Values), NEW o, o \notin DOMAIN m.scopes
    PROVE  /\ StoreCanUndo(OpenScope(m, o), RemoveCreatedRegisterScope(o))
           /\ StoreUndo(OpenScope(m, o), RemoveCreatedRegisterScope(o)) = m
<1> DEFINE n == OpenScope(m, o)
           u == RemoveCreatedRegisterScope(o)
<1>1. IsMap(m.scopes) BY DEF WellFormedMemory
<1>2. u.op = "RemoveCreatedRegisterScope" /\ u.key = o
  BY DEF RemoveCreatedRegisterScope
<1>3. n.scopes = With(m.scopes, o, EmptyMap)
  BY DEF OpenScope, WellFormedMemory
<1>4. o \in DOMAIN n.scopes /\ DOMAIN n.scopes[o] = {}
  BY <1>3 DEF With, EmptyMap
<1>5. StoreCanUndo(n, u)
  <2> HIDE DEF n, u
  <2> QED BY <1>2, <1>4 DEF StoreCanUndo
<1>6. StoreUndo(n, u) = [n EXCEPT !.scopes = Without(n.scopes, o)]
  BY <1>2 DEF StoreUndo
<1>7. Without(n.scopes, o) = m.scopes
  BY <1>1, <1>3, WithoutWith
<1>8. [n EXCEPT !.scopes = m.scopes] = m
  BY Zenon DEF OpenScope, WellFormedMemory
<1> QED BY <1>5, <1>6, <1>7, <1>8 DEF n, u

(* Undoing the close of a scope, with the total of values (close_journaled).  *)
THEOREM UndoCloseScope ==
    ASSUME NEW Values, NEW m, WellFormedMemory(m, Values), NEW o \in DOMAIN m.scopes
    PROVE  /\ StoreCanUndo(CloseScope(m, o), RestoreClosedRegisterScope(m, o))
           /\ StoreUndo(CloseScope(m, o), RestoreClosedRegisterScope(m, o)) = m
<1> DEFINE n == CloseScope(m, o)
           u == RestoreClosedRegisterScope(m, o)
           size == ScopeSize(m.scopes[o])
<1>1. /\ IsMap(m.scopes)
      /\ m.value_count \in Nat /\ size \in Nat /\ size <= m.value_count
  BY DEF WellFormedMemory
<1>2. u.op = "RestoreClosedRegisterScope" /\ u.key = o /\ u.scope = m.scopes[o]
  BY DEF RestoreClosedRegisterScope
<1>3. n.scopes = Without(m.scopes, o) /\ n.value_count = m.value_count - size
  BY DEF CloseScope, WellFormedMemory
<1>4. o \notin DOMAIN n.scopes
  BY <1>3 DEF Without
<1>5. StoreCanUndo(n, u)
  <2> HIDE DEF n, u
  <2> QED BY <1>2, <1>4 DEF StoreCanUndo
<1>6. StoreUndo(n, u) = [n EXCEPT !.scopes = With(n.scopes, o, m.scopes[o]),
                                  !.value_count = n.value_count + size]
  <2> HIDE DEF n
  <2> QED BY <1>2 DEF StoreUndo
<1>7. With(n.scopes, o, m.scopes[o]) = m.scopes
  BY <1>1, <1>3, WithWithout, Zenon
<1>8. n.value_count + size = m.value_count
  <2> HIDE DEF n, size
  <2> QED BY <1>1, <1>3
<1>9. [n EXCEPT !.scopes = m.scopes, !.value_count = m.value_count] = m
  BY Zenon DEF CloseScope, WellFormedMemory
<1> HIDE DEF size
<1> QED BY <1>5, <1>6, <1>7, <1>8, <1>9, Zenon DEF n, u

(* Undoing a capture, of a register that was set before or was not           *)
(* (set_journaled): the scope and the total of values come back.             *)
THEOREM UndoSetRegister ==
    ASSUME NEW Values, NEW m, WellFormedMemory(m, Values), NEW o \in DOMAIN m.scopes,
           NEW r, NEW v
    PROVE  /\ StoreCanUndo(SetRegister(m, o, r, v), RestoreRegister(m, o, r))
           /\ StoreUndo(SetRegister(m, o, r, v), RestoreRegister(m, o, r)) = m
<1> DEFINE n == SetRegister(m, o, r, v)
           u == RestoreRegister(m, o, r)
           scope == m.scopes[o]
           set == With(scope, r, v)
<1>1. IsMap(m.scopes) /\ IsMap(scope) /\ m.value_count \in Nat
  BY DEF WellFormedMemory
<1>2. /\ u.op = "RestoreRegister" /\ u.key = o /\ u.register = r
      /\ u.previous = IF Unset(m, o, r) THEN {} ELSE {scope[r]}
  BY DEF RestoreRegister
<1>3. n.scopes = With(m.scopes, o, set) /\ n.value_count = NextCount(m, o, r)
  BY DEF SetRegister, WellFormedMemory
<1>4. /\ o \in DOMAIN n.scopes /\ n.scopes[o] = set
      /\ r \in DOMAIN n.scopes[o]
  BY <1>3 DEF With
<1>5. Unset(m, o, r) <=> r \notin DOMAIN scope
  BY DEF Unset
<1>6. StoreCanUndo(n, u)
  <2>1. u.previous = {} => n.value_count > 0
    BY <1>1, <1>2, <1>3 DEF NextCount
  <2> HIDE DEF n, u
  <2> QED BY <1>2, <1>4, <2>1 DEF StoreCanUndo
<1>7. StoreUndo(n, u) =
          [n EXCEPT !.scopes = With(n.scopes, o, PreviousScope(set, u)),
                    !.value_count = IF u.previous = {} THEN n.value_count - 1
                                    ELSE n.value_count]
  <2> HIDE DEF n, u, set
  <2> QED BY <1>2, <1>4 DEF StoreUndo
<1>8. PreviousScope(set, u) = scope
  <2> HIDE DEF scope
  <2>1. CASE Unset(m, o, r)
    <3>1. u.previous = {} /\ u.register = r BY <1>2, <2>1
    <3>2. PreviousScope(set, u) = Without(set, r)
      <4> HIDE DEF u, set
      <4> QED BY <3>1 DEF PreviousScope
    <3> QED BY <1>1, <1>5, <2>1, <3>2, WithoutWith
  <2>2. CASE ~Unset(m, o, r)
    <3>1. u.previous = {scope[r]} /\ u.register = r BY <1>2, <2>2
    <3>2. PreviousScope(set, u) = With(set, r, scope[r])
      <4> HIDE DEF u, set
      <4> QED BY <3>1 DEF PreviousScope
    <3> QED BY <1>1, <1>5, <2>2, <3>2, WithBack
  <2> QED BY <2>1, <2>2
<1>9. (IF u.previous = {} THEN n.value_count - 1 ELSE n.value_count) = m.value_count
  <2> HIDE DEF n, u, scope
  <2> QED BY <1>1, <1>2, <1>3 DEF NextCount
<1>10. With(n.scopes, o, scope) = m.scopes
  BY <1>1, <1>3, WithBack
<1>11. [n EXCEPT !.scopes = m.scopes, !.value_count = m.value_count] = m
  BY Zenon DEF SetRegister, WellFormedMemory
<1> HIDE DEF scope, set
<1> QED BY <1>6, <1>7, <1>8, <1>9, <1>10, <1>11, Zenon DEF n, u

-------------------------------------------------------------------------------
(* The memories that the operations build.  The totals the limits speak of    *)
(* are kept by addition and subtraction; that they are the numbers of things   *)
(* held is what lets a close subtract and an undo check them.                *)

IsTotal(n, set) == IsFiniteSet(set) /\ n = Cardinality(set)

HistoriesFit(h, V) == IsMap(h) /\ \A k \in DOMAIN h : WellFormedHistory(h[k], V)
ScopesFit(s) == IsMap(s) /\ \A o \in DOMAIN s : IsMap(s[o])

IsMemory(m) ==
    /\ m = [histories |-> m.histories, item_count |-> m.item_count,
            counters |-> m.counters, scopes |-> m.scopes, value_count |-> m.value_count]
    /\ \E V : HistoriesFit(m.histories, V)
    /\ IsMap(m.counters)
    /\ ScopesFit(m.scopes)
    /\ IsTotal(m.item_count, ItemsHeld(m.histories))
    /\ IsTotal(m.value_count, RegistersSet(m.scopes))

LEMMA PairsCount ==
    ASSUME NEW k, NEW D, IsFiniteSet(D)
    PROVE  IsFiniteSet({k} \X D) /\ Cardinality({k} \X D) = Cardinality(D)
<1>1. IsFiniteSet({k}) /\ Cardinality({k}) = 1
  BY FS_Singleton
<1>2. IsFiniteSet({k} \X D) /\ Cardinality({k} \X D) = Cardinality({k}) * Cardinality(D)
  BY <1>1, FS_Product
<1>3. Cardinality(D) \in Nat
  BY FS_CardinalityType
<1> QED BY <1>1, <1>2, <1>3

LEMMA OpenScopeSize ==
    ASSUME NEW s, NEW n, IsTotal(n, RegistersSet(s)), NEW o \in DOMAIN s
    PROVE  /\ n \in Nat /\ IsFiniteSet(DOMAIN s[o]) /\ ScopeSize(s[o]) \in Nat /\ ScopeSize(s[o]) <= n
           /\ {o} \X DOMAIN s[o] \subseteq RegistersSet(s)
<1> DEFINE D == DOMAIN s[o]
           P == {o} \X D
           F == [p \in P |-> p[2]]
<1>1. P \in SUBSET RegistersSet(s)
  BY DEF RegistersSet
<1>2. IsFiniteSet(P) /\ Cardinality(P) <= n /\ n \in Nat
  BY <1>1, FS_Subset, FS_CardinalityType DEF IsTotal
<1>3. F \in Surjection(P, D)
  <2>1. \A p \in P : p[2] \in D
    OBVIOUS
  <2>2. \A t \in D : <<o, t>> \in P /\ F[<<o, t>>] = t
    OBVIOUS
  <2>3. F \in [P -> D]
    BY <2>1
  <2> HIDE DEF F, P, D
  <2> QED BY <2>2, <2>3, Zenon DEF Surjection
<1>4. IsFiniteSet(D)
  BY <1>2, <1>3, FS_Surjection
<1>5. Cardinality(P) = Cardinality(D) /\ Cardinality(D) \in Nat
  BY <1>4, PairsCount, FS_CardinalityType, Zenon
<1> QED BY <1>1, <1>2, <1>4, <1>5 DEF ScopeSize

LEMMA MemoryWellFormed ==
    ASSUME NEW m, IsMemory(m)
    PROVE  /\ \E V : WellFormedMemory(m, V)
           /\ WellFormedMemory(m, HeldValues(m))
<1>1. m.item_count \in Nat /\ m.value_count \in Nat
  BY FS_CardinalityType DEF IsMemory, IsTotal
<1>2. \A o \in DOMAIN m.scopes :
          /\ IsMap(m.scopes[o])
          /\ ScopeSize(m.scopes[o]) \in Nat
          /\ ScopeSize(m.scopes[o]) <= m.value_count
  BY OpenScopeSize DEF IsMemory, ScopesFit
<1>3. ASSUME NEW V, HistoriesFit(m.histories, V) PROVE WellFormedMemory(m, V)
  BY <1>1, <1>2, <1>3 DEF IsMemory, WellFormedMemory, HistoriesFit, ScopesFit
<1>4. PICK V : HistoriesFit(m.histories, V)
  BY DEF IsMemory
<1>5. HistoriesFit(m.histories, HeldValues(m))
  <2> SUFFICES ASSUME NEW k \in DOMAIN m.histories, NEW p \in DOMAIN m.histories[k].buckets
               PROVE  m.histories[k].buckets[p] \in Seq(HeldValues(m))
    BY <1>4 DEF HistoriesFit, WellFormedHistory
  <2> DEFINE b == m.histories[k].buckets[p]
  <2>1. b \in Seq(V)
    BY <1>4, Zenon DEF HistoriesFit, WellFormedHistory
  <2>2. ToSet(b) \subseteq HeldValues(m)
    BY DEF HeldValues
  <2> HIDE DEF b
  <2>3. IsSeq(b)
    BY <2>1, SeqIsSeq
  <2>4. \A i \in 1..Len(b) : b[i] \in HeldValues(m)
    BY <2>2, <2>3, IsSeqLen DEF ToSet
  <2> QED BY <2>3, <2>4, IsSeqIn DEF b
<1> QED BY <1>3, <1>4, <1>5

(* What an operation on one store leaves alone.                             *)
LEMMA KeepsHistories ==
    ASSUME NEW m, IsMemory(m), NEW n,
           n = [m EXCEPT !.counters = n.counters, !.scopes = n.scopes,
                         !.value_count = n.value_count],
           IsMap(n.counters), ScopesFit(n.scopes),
           IsTotal(n.value_count, RegistersSet(n.scopes))
    PROVE  IsMemory(n)
<1>1. n.histories = m.histories /\ n.item_count = m.item_count
  BY Zenon DEF IsMemory
<1>2. n = [histories |-> n.histories, item_count |-> n.item_count,
           counters |-> n.counters, scopes |-> n.scopes, value_count |-> n.value_count]
  BY Zenon DEF IsMemory
<1> QED BY <1>1, <1>2 DEF IsMemory

LEMMA KeepsScopes ==
    ASSUME NEW m, IsMemory(m), NEW n, NEW V,
           n = [m EXCEPT !.histories = n.histories, !.item_count = n.item_count],
           HistoriesFit(n.histories, V),
           IsTotal(n.item_count, ItemsHeld(n.histories))
    PROVE  IsMemory(n)
<1>1. n.scopes = m.scopes /\ n.value_count = m.value_count /\ n.counters = m.counters
  BY Zenon DEF IsMemory
<1>2. n = [histories |-> n.histories, item_count |-> n.item_count,
           counters |-> n.counters, scopes |-> n.scopes, value_count |-> n.value_count]
  BY Zenon DEF IsMemory
<1> QED BY <1>1, <1>2 DEF IsMemory

LEMMA CountersKeepMemory ==
    ASSUME NEW m, IsMemory(m), NEW k, NEW matched
    PROVE  IsMemory(CreateCounter(m, k)) /\ IsMemory(UpdateCounter(m, k, matched))
           /\ IsMemory(CloseCounter(m, k))
<1>1. ASSUME NEW c, IsMap(c) PROVE IsMemory([m EXCEPT !.counters = c])
  <2> DEFINE n == [m EXCEPT !.counters = c]
  <2>1. /\ n.counters = c /\ n.scopes = m.scopes /\ n.value_count = m.value_count
        /\ n = [m EXCEPT !.counters = n.counters, !.scopes = n.scopes,
                         !.value_count = n.value_count]
    BY Zenon DEF IsMemory
  <2> HIDE DEF n
  <2>2. IsMemory(n)
    BY <1>1, <2>1, KeepsHistories, Zenon DEF IsMemory
  <2> QED BY <2>2 DEF n
<1>2. \A f, x, v : IsMap(With(f, x, v)) /\ IsMap(Without(f, x))
  BY DEF IsMap, With, Without
<1> QED BY <1>1, <1>2 DEF CreateCounter, UpdateCounter, CloseCounter

-------------------------------------------------------------------------------
LEMMA ScopesKeepMemory ==
    ASSUME NEW m, IsMemory(m), NEW s, NEW count, ScopesFit(s), IsTotal(count, RegistersSet(s)),
           NEW n, n = [m EXCEPT !.scopes = s, !.value_count = count]
    PROVE  IsMemory(n)
<1>1. /\ n.counters = m.counters /\ n.scopes = s /\ n.value_count = count
      /\ n = [m EXCEPT !.counters = n.counters, !.scopes = n.scopes,
                       !.value_count = n.value_count]
  BY Zenon DEF IsMemory
<1> QED BY <1>1, KeepsHistories, Zenon DEF IsMemory

LEMMA OpenScopeKeepsMemory ==
    ASSUME NEW m, IsMemory(m), NEW o, o \notin DOMAIN m.scopes
    PROVE  IsMemory(OpenScope(m, o))
<1> DEFINE s == With(m.scopes, o, EmptyMap)
<1>1. ScopesFit(s)
  BY Zenon DEF IsMemory, ScopesFit, IsMap, With, EmptyMap
<1>2. RegistersSet(s) = RegistersSet(m.scopes)
  <2>1. DOMAIN EmptyMap = {}
    BY DEF EmptyMap
  <2>2. \A x \in DOMAIN m.scopes : x \in DOMAIN s /\ s[x] = m.scopes[x]
    BY DEF With
  <2>3. DOMAIN s = DOMAIN m.scopes \union {o} /\ s[o] = EmptyMap
    BY DEF With
  <2> HIDE DEF s
  <2> QED BY <2>1, <2>2, <2>3 DEF RegistersSet
<1>3. OpenScope(m, o) = [m EXCEPT !.scopes = s, !.value_count = m.value_count]
  BY Zenon DEF OpenScope, IsMemory
<1> HIDE DEF s
<1> QED BY <1>1, <1>2, <1>3, ScopesKeepMemory, Zenon DEF IsMemory

LEMMA CloseScopeKeepsMemory ==
    ASSUME NEW m, IsMemory(m), NEW o \in DOMAIN m.scopes
    PROVE  IsMemory(CloseScope(m, o))
<1> DEFINE s == Without(m.scopes, o)
           P == {o} \X DOMAIN m.scopes[o]
           R == RegistersSet(m.scopes)
           size == ScopeSize(m.scopes[o])
<1>1. ScopesFit(s)
  BY DEF IsMemory, ScopesFit, IsMap, Without
<1>2. RegistersSet(s) = R \ P
  <2>1. DOMAIN s = DOMAIN m.scopes \ {o} /\ \A x \in DOMAIN s : s[x] = m.scopes[x]
    BY DEF Without
  <2>2. \A e, x : e \in {x} \X DOMAIN m.scopes[x] => e[1] = x
    OBVIOUS
  <2> HIDE DEF s
  <2>3. ASSUME NEW e \in RegistersSet(s) PROVE e \in R \ P
    BY <2>1, <2>2 DEF RegistersSet
  <2>4. ASSUME NEW e \in R \ P PROVE e \in RegistersSet(s)
    <3>1. PICK x \in DOMAIN m.scopes : e \in {x} \X DOMAIN m.scopes[x]
      BY DEF RegistersSet
    <3>2. x # o
      BY <3>1
    <3> QED BY <2>1, <3>1, <3>2 DEF RegistersSet
  <2> QED BY <2>3, <2>4
<1>3. IsTotal(m.value_count, R)
  BY DEF IsMemory
<1>4. P \subseteq R /\ IsFiniteSet(DOMAIN m.scopes[o])
  BY <1>3, OpenScopeSize
<1>5. Cardinality(P) = size
  BY <1>4, PairsCount, Zenon DEF ScopeSize
<1>6. R \cap P = P
  BY <1>4
<1> DEFINE left == m.value_count - size
<1> HIDE DEF s, P, R, size
<1>7. IsTotal(left, RegistersSet(s))
  <2>1. IsFiniteSet(R \ P) /\ Cardinality(R \ P) = Cardinality(R) - Cardinality(R \cap P)
    BY <1>3, FS_Difference DEF IsTotal
  <2> QED BY <1>2, <1>3, <1>5, <1>6, <2>1 DEF IsTotal
<1>8. CloseScope(m, o) = [m EXCEPT !.scopes = s, !.value_count = left]
  BY DEF CloseScope, s, size
<1> HIDE DEF left
<1> QED BY <1>1, <1>7, <1>8, ScopesKeepMemory, Zenon

LEMMA SetRegisterKeepsMemory ==
    ASSUME NEW m, IsMemory(m), NEW o \in DOMAIN m.scopes, NEW r, NEW v
    PROVE  IsMemory(SetRegister(m, o, r, v))
<1> DEFINE scope == With(m.scopes[o], r, v)
           s == With(m.scopes, o, scope)
           R == RegistersSet(m.scopes)
<1>1. ScopesFit(s)
  <2>1. IsMap(scope)
    BY DEF IsMap, With
  <2> HIDE DEF scope
  <2> QED BY <2>1, Zenon DEF IsMemory, ScopesFit, IsMap, With
<1>2. DOMAIN scope = DOMAIN m.scopes[o] \union {r}
  BY DEF With
<1> HIDE DEF scope
<1>3. DOMAIN s = DOMAIN m.scopes /\ s[o] = scope /\ \A x \in DOMAIN m.scopes : x # o => s[x] = m.scopes[x]
  BY DEF With
<1>4. RegistersSet(s) = R \union {<<o, r>>}
  <2> HIDE DEF s
  <2>1. ASSUME NEW p \in RegistersSet(s) PROVE p \in R \union {<<o, r>>}
    <3>1. PICK x \in DOMAIN s : p \in {x} \X DOMAIN s[x]
      BY DEF RegistersSet
    <3> QED BY <1>2, <1>3, <3>1 DEF RegistersSet
  <2>2. ASSUME NEW p \in R PROVE p \in RegistersSet(s)
    <3>1. PICK x \in DOMAIN m.scopes : p \in {x} \X DOMAIN m.scopes[x]
      BY DEF RegistersSet
    <3>2. p \in {x} \X DOMAIN s[x]
      BY <1>2, <1>3, <3>1
    <3> QED BY <1>3, <3>2 DEF RegistersSet
  <2>3. <<o, r>> \in RegistersSet(s)
    BY <1>2, <1>3 DEF RegistersSet
  <2> QED BY <2>1, <2>2, <2>3
<1>5. Unset(m, o, r) <=> <<o, r>> \notin R
  BY DEF Unset, RegistersSet
<1>6. IsTotal(m.value_count, R)
  BY DEF IsMemory
<1> HIDE DEF s, R
<1>7. IsTotal(NextCount(m, o, r), RegistersSet(s))
  <2> DEFINE p == <<o, r>>
             more == R \union {p}
             n == Cardinality(R)
  <2>1. IsFiniteSet(R) /\ m.value_count = n /\ n \in Nat
    BY <1>6, FS_CardinalityType DEF IsTotal
  <2>2. IsFiniteSet(more) /\ Cardinality(more) = IF p \in R THEN n ELSE n + 1
    <3> HIDE DEF p
    <3> QED BY <2>1, FS_AddElement
  <2>3. RegistersSet(s) = more /\ (Unset(m, o, r) <=> p \notin R)
    BY <1>4, <1>5
  <2> HIDE DEF p, more, n
  <2> QED BY <2>1, <2>2, <2>3 DEF IsTotal, NextCount
<1>8. SetRegister(m, o, r, v) = [m EXCEPT !.scopes = s, !.value_count = NextCount(m, o, r)]
  BY DEF SetRegister, s, scope
<1> DEFINE count == NextCount(m, o, r)
<1> HIDE DEF count
<1> QED BY <1>1, <1>7, <1>8, ScopesKeepMemory, Zenon DEF count

-------------------------------------------------------------------------------
LEMMA HistoriesKeepMemory ==
    ASSUME NEW m, IsMemory(m), NEW h, NEW count, NEW V, HistoriesFit(h, V),
           IsTotal(count, ItemsHeld(h)),
           NEW n, n = [m EXCEPT !.histories = h, !.item_count = count]
    PROVE  IsMemory(n)
<1>1. n.histories = h /\ n.item_count = count
  BY DEF IsMemory
<1>2. n = [m EXCEPT !.histories = n.histories, !.item_count = n.item_count]
  BY <1>1
<1>3. HistoriesFit(n.histories, V) /\ IsTotal(n.item_count, ItemsHeld(n.histories))
  BY <1>1
<1> QED BY <1>2, <1>3, KeepsScopes, Zenon

LEMMA CreateHistoryKeepsMemory ==
    ASSUME NEW m, IsMemory(m), NEW k, k \notin DOMAIN m.histories
    PROVE  IsMemory(CreateHistory(m, k))
<1> DEFINE h == With(m.histories, k, EmptyHistory)
<1>1. PICK V : HistoriesFit(m.histories, V)
  BY DEF IsMemory
<1>2. DOMAIN h = DOMAIN m.histories \union {k} /\ h[k] = EmptyHistory
      /\ \A x \in DOMAIN m.histories : h[x] = m.histories[x]
  BY DEF With
<1>3. IsMap(h)
  BY DEF IsMap, With
<1>4. WellFormedHistory(EmptyHistory, V) /\ EmptyHistory.len = 0
  BY DEF WellFormedHistory, EmptyHistory, EmptyMap, IsMap
<1> HIDE DEF h
<1>5. HistoriesFit(h, V)
  BY <1>1, <1>2, <1>3, <1>4 DEF HistoriesFit
<1>6. ItemsHeld(h) = ItemsHeld(m.histories)
  <2>1. {k} \X (1..h[k].len) = {}
    BY <1>2, <1>4
  <2> QED BY <1>2, <2>1 DEF ItemsHeld
<1>7. CreateHistory(m, k) = [m EXCEPT !.histories = h, !.item_count = m.item_count]
  BY Zenon DEF CreateHistory, IsMemory, h
<1> QED BY <1>5, <1>6, <1>7, HistoriesKeepMemory, Zenon DEF IsMemory

LEMMA CloseHistoryKeepsMemory ==
    ASSUME NEW m, IsMemory(m), NEW k \in DOMAIN m.histories
    PROVE  IsMemory(CloseHistory(m, k))
<1> DEFINE h == Without(m.histories, k)
           len == m.histories[k].len
           P == {k} \X (1..len)
           H == ItemsHeld(m.histories)
<1>1. PICK V : HistoriesFit(m.histories, V)
  BY DEF IsMemory
<1>2. HistoriesFit(h, V) /\ len \in Nat
  BY <1>1, Zenon DEF HistoriesFit, Without, IsMap, WellFormedHistory
<1>3. ItemsHeld(h) = H \ P
  <2>1. DOMAIN h = DOMAIN m.histories \ {k} /\ \A x \in DOMAIN h : h[x] = m.histories[x]
    BY DEF Without
  <2>2. \A e, x : e \in {x} \X (1..m.histories[x].len) => e[1] = x
    OBVIOUS
  <2> HIDE DEF h
  <2>3. ASSUME NEW e \in ItemsHeld(h) PROVE e \in H \ P
    BY <2>1, <2>2 DEF ItemsHeld
  <2>4. ASSUME NEW e \in H \ P PROVE e \in ItemsHeld(h)
    <3>1. PICK x \in DOMAIN m.histories : e \in {x} \X (1..m.histories[x].len)
      BY DEF ItemsHeld
    <3>2. x # k
      BY <3>1
    <3> QED BY <2>1, <3>1, <3>2 DEF ItemsHeld
  <2> QED BY <2>3, <2>4
<1>4. H \cap P = P
  BY DEF ItemsHeld
<1>5. Cardinality(P) = len
  <2> HIDE DEF len
  <2>1. IsFiniteSet(1..len) /\ Cardinality(1..len) = IF 1 > len THEN 0 ELSE len - 1 + 1
    BY <1>2, FS_Interval
  <2> DEFINE D == 1..len
  <2>2. IsFiniteSet(D) /\ Cardinality(D) = len
    BY <1>2, <2>1
  <2> HIDE DEF D
  <2>3. Cardinality({k} \X D) = len
    BY <2>2, PairsCount, Zenon
  <2> QED BY <2>3 DEF D
<1>6. IsTotal(m.item_count, H)
  BY DEF IsMemory
<1> DEFINE left == m.item_count - len
<1> HIDE DEF h, len, P, H
<1>7. IsTotal(left, ItemsHeld(h))
  <2>1. IsFiniteSet(H \ P) /\ Cardinality(H \ P) = Cardinality(H) - Cardinality(H \cap P)
    BY <1>6, FS_Difference DEF IsTotal
  <2> QED BY <1>3, <1>4, <1>5, <1>6, <2>1 DEF IsTotal
<1>8. CloseHistory(m, k) = [m EXCEPT !.histories = h, !.item_count = left]
  BY DEF CloseHistory, h, len
<1> HIDE DEF left
<1> QED BY <1>2, <1>7, <1>8, HistoriesKeepMemory, Zenon

LEMMA InsertKeepsMemory ==
    ASSUME NEW m, IsMemory(m), NEW k \in DOMAIN m.histories, NEW v
    PROVE  IsMemory(Insert(m, k, v))
<1> DEFINE old == m.histories[k]
           p == Fingerprint(v)
           bucket == Bucket(old, v)
           grown == [buckets |-> With(old.buckets, p, Append(bucket, v)), len |-> old.len + 1]
           h == With(m.histories, k, grown)
           H == ItemsHeld(m.histories)
<1>1. PICK U : HistoriesFit(m.histories, U)
  BY DEF IsMemory
<1> DEFINE V == U \union {v}
<1>2. \A x \in DOMAIN m.histories : WellFormedHistory(m.histories[x], V)
  <2>1. \A s \in Seq(U) : s \in Seq(V)
    OBVIOUS
  <2> HIDE DEF V
  <2> QED BY <1>1, <2>1 DEF HistoriesFit, WellFormedHistory
<1>3. v \in V
  OBVIOUS
<1> HIDE DEF V
<1>4. /\ IsMap(old.buckets) /\ old.len \in Nat
      /\ \A q \in DOMAIN old.buckets : old.buckets[q] \in Seq(V)
  BY <1>2, Zenon DEF WellFormedHistory
<1>5. Append(bucket, v) \in Seq(V)
  <2>1. bucket \in Seq(V)
    BY <1>4 DEF Bucket
  <2> HIDE DEF bucket
  <2> QED BY <1>3, <2>1
<1>6. WellFormedHistory(grown, V)
  <2> HIDE DEF bucket, old, p
  <2>1. IsMap(grown.buckets)
    BY DEF IsMap, With
  <2>2. grown.len \in Nat /\ grown = [buckets |-> grown.buckets, len |-> grown.len]
    BY <1>4
  <2>3. \A q \in DOMAIN grown.buckets : grown.buckets[q] \in Seq(V)
    BY <1>4, <1>5 DEF With
  <2> QED BY <2>1, <2>2, <2>3 DEF WellFormedHistory
<1>7. grown.len = old.len + 1
  OBVIOUS
<1> HIDE DEF grown
<1>8. DOMAIN h = DOMAIN m.histories /\ h[k] = grown
      /\ \A x \in DOMAIN m.histories : x # k => h[x] = m.histories[x]
  BY DEF With
<1>9. HistoriesFit(h, V)
  <2>1. IsMap(h)
    BY DEF IsMap, With
  <2> HIDE DEF h
  <2> QED BY <1>2, <1>6, <1>8, <2>1 DEF HistoriesFit
<1>10. ItemsHeld(h) = H \union {<<k, old.len + 1>>} /\ <<k, old.len + 1>> \notin H
  <2> HIDE DEF h
  <2>1. 1..(old.len + 1) = 1..old.len \union {old.len + 1} /\ old.len + 1 \notin 1..old.len
    BY <1>4
  <2>2. ASSUME NEW e \in ItemsHeld(h) PROVE e \in H \union {<<k, old.len + 1>>}
    <3>1. PICK x \in DOMAIN h : e \in {x} \X (1..h[x].len)
      BY DEF ItemsHeld
    <3>2. CASE x = k
      <4>1. e \in {k} \X (1..(old.len + 1))
        BY <1>7, <1>8, <3>1, <3>2
      <4>2. e = <<k, old.len + 1>> \/ e \in {k} \X (1..old.len)
        BY <2>1, <4>1
      <4> QED BY <4>2 DEF ItemsHeld
    <3>3. CASE x # k
      BY <1>8, <3>1, <3>3 DEF ItemsHeld
    <3> QED BY <3>2, <3>3
  <2>3. ASSUME NEW e \in H PROVE e \in ItemsHeld(h)
    <3>1. PICK x \in DOMAIN m.histories : e \in {x} \X (1..m.histories[x].len)
      BY DEF ItemsHeld
    <3>2. e \in {x} \X (1..h[x].len)
      BY <1>7, <1>8, <2>1, <3>1
    <3> QED BY <1>8, <3>2 DEF ItemsHeld
  <2>4. <<k, old.len + 1>> \in ItemsHeld(h)
    <3>1. old.len + 1 \in 1..h[k].len
      BY <1>7, <1>8, <2>1
    <3> HIDE DEF old
    <3> QED BY <1>8, <3>1 DEF ItemsHeld
  <2>5. <<k, old.len + 1>> \notin H
    <3> SUFFICES ASSUME <<k, old.len + 1>> \in H PROVE FALSE
      OBVIOUS
    <3>1. PICK x \in DOMAIN m.histories : <<k, old.len + 1>> \in {x} \X (1..m.histories[x].len)
      BY DEF ItemsHeld
    <3>2. x = k /\ old.len + 1 \in 1..m.histories[x].len
      BY <3>1
    <3> QED BY <2>1, <3>2
  <2> QED BY <2>2, <2>3, <2>4, <2>5
<1>11. IsTotal(m.item_count, H)
  BY DEF IsMemory
<1> DEFINE more == m.item_count + 1
<1> HIDE DEF h, H
<1>12. IsTotal(more, ItemsHeld(h))
  <2> DEFINE item == <<k, old.len + 1>>
  <2>1. ItemsHeld(h) = H \union {item} /\ item \notin H
    BY <1>10
  <2> HIDE DEF item
  <2> QED BY <1>11, <2>1, FS_AddElement DEF IsTotal
<1>13. Insert(m, k, v) = [m EXCEPT !.histories = h, !.item_count = more]
  BY DEF Insert, h, grown
<1> HIDE DEF more, old
<1> QED BY <1>9, <1>12, <1>13, HistoriesKeepMemory, Zenon

LEMMA EmptyIsMemory == IsMemory(EmptyMemory)
<1>1. IsMap(EmptyMap) /\ DOMAIN EmptyMap = {}
  BY DEF IsMap, EmptyMap
<1>2. ItemsHeld(EmptyMap) = {} /\ RegistersSet(EmptyMap) = {}
  BY <1>1 DEF ItemsHeld, RegistersSet
<1>3. IsTotal(0, {})
  BY FS_EmptySet DEF IsTotal
<1>4. HistoriesFit(EmptyMap, {}) /\ ScopesFit(EmptyMap)
  BY <1>1 DEF HistoriesFit, ScopesFit
<1> QED BY <1>1, <1>2, <1>3, <1>4, Zenon DEF EmptyMemory, IsMemory

-------------------------------------------------------------------------------
(* The two undo journals, and effects whose records lead back to where they  *)
(* began.                                                                    *)

RouterTook(u, states) == UNION { RouterUndone(s, u) : s \in states }
MemoryTook(u, states) == UNION { MemoryUndone(s, u) : s \in states }

RouterFolding == INSTANCE Folding WITH Op <- RouterTook
MemoryFolding == INSTANCE Folding WITH Op <- MemoryTook

LEMMA RouterUnwinds ==
    ASSUME NEW start, NEW journal, NEW position
    PROVE  Unwound(start, journal, position, RouterUndone)
             = RouterFolding!Back(journal, position, {start})
BY DEF Unwound, FoldRight, MapThenFoldSet, Min, Segment, RouterTook, RouterFolding!Back,
   RouterFolding!Right, RouterFolding!FoldRight, RouterFolding!MapThenFoldSet,
   RouterFolding!Min, RouterFolding!Segment

LEMMA MemoryUnwinds ==
    ASSUME NEW start, NEW journal, NEW position
    PROVE  Unwound(start, journal, position, MemoryUndone)
             = MemoryFolding!Back(journal, position, {start})
BY DEF Unwound, FoldRight, MapThenFoldSet, Min, Segment, MemoryTook, MemoryFolding!Back,
   MemoryFolding!Right, MemoryFolding!FoldRight, MemoryFolding!MapThenFoldSet,
   MemoryFolding!Min, MemoryFolding!Segment

LEMMA FoldingSequences ==
    ASSUME NEW s
    PROVE  (RouterFolding!IsSeq(s) <=> IsSeq(s)) /\ (MemoryFolding!IsSeq(s) <=> IsSeq(s))
BY DEF IsSeq, RouterFolding!IsSeq, MemoryFolding!IsSeq, ToSet, RouterFolding!ToSet,
   MemoryFolding!ToSet

-------------------------------------------------------------------------------
(* Effects whose records lead back to where they began.                      *)

IsFrame(f) ==
    \/ f = [kind |-> "array", id |-> f.id, node |-> f.node, item |-> f.item]
    \/ f = [kind |-> "object", id |-> f.id, node |-> f.node, property |-> f.property]

IsRouter(r) ==
    /\ r = [stack |-> r.stack, pending |-> r.pending, complete |-> r.complete]
    /\ IsSeq(r.stack)
    /\ \A i \in 1..Len(r.stack) : IsFrame(r.stack[i])

IsEffect(e) ==
    e = [router |-> e.router, memory |-> e.memory, routerUndo |-> e.routerUndo,
         semanticUndo |-> e.semanticUndo, scratch |-> e.scratch, error |-> e.error]

(* The effect began with the router r and the memory m.                      *)
Retraces(e, r, m) ==
    /\ IsEffect(e)
    /\ IsRouter(e.router) /\ IsMemory(e.memory)
    /\ IsSeq(e.routerUndo) /\ IsSeq(e.semanticUndo)
    /\ RouterFolding!Right(e.routerUndo, {e.router}) = {r}
    /\ MemoryFolding!Right(e.semanticUndo, {e.memory}) = {m}

WithRouter(e, undo, new) == [e EXCEPT !.routerUndo = undo, !.router = new]
WithMemory(e, undo, new) == [e EXCEPT !.semanticUndo = undo, !.memory = new]

LEMMA Changed ==
    ASSUME NEW e, IsEffect(e), NEW undo, NEW new
    PROVE  /\ LET f == WithRouter(e, undo, new)
              IN  /\ IsEffect(f) /\ f.router = new /\ f.memory = e.memory
                  /\ f.routerUndo = undo /\ f.semanticUndo = e.semanticUndo
                  /\ f.error = e.error /\ f.scratch = e.scratch
           /\ LET f == WithMemory(e, undo, new)
              IN  /\ IsEffect(f) /\ f.memory = new /\ f.router = e.router
                  /\ f.semanticUndo = undo /\ f.routerUndo = e.routerUndo
                  /\ f.error = e.error /\ f.scratch = e.scratch
<1>1. ASSUME NEW f, f = WithRouter(e, undo, new)
      PROVE  f =
          [router |-> new, memory |-> e.memory, routerUndo |-> undo,
           semanticUndo |-> e.semanticUndo, scratch |-> e.scratch, error |-> e.error]
  BY <1>1, Zenon DEF IsEffect, WithRouter
<1>2. ASSUME NEW f, f = WithMemory(e, undo, new)
      PROVE  f =
          [router |-> e.router, memory |-> new, routerUndo |-> e.routerUndo,
           semanticUndo |-> undo, scratch |-> e.scratch, error |-> e.error]
  BY <1>2, Zenon DEF IsEffect, WithMemory
<1> QED BY <1>1, <1>2 DEF IsEffect

(* What a step on the memory leaves alone.                                  *)
Kept(e, f) == f.router = e.router /\ (Ok(f) => Ok(e))

LEMMA BeginRetraces ==
    ASSUME NEW r, IsRouter(r), NEW m, IsMemory(m), NEW counting
    PROVE  Retraces(EffectOn(r, m, counting), r, m)
<1>1. /\ RouterFolding!Right(<<>>, {r}) = {r}
      /\ MemoryFolding!Right(<<>>, {m}) = {m}
  BY RouterFolding!RightEmpty, MemoryFolding!RightEmpty
<1> QED BY <1>1, IsSeqEmpty, Zenon DEF EffectOn, Retraces, IsEffect

LEMMA FailRetraces ==
    ASSUME NEW e, NEW r, NEW m, Retraces(e, r, m), NEW why
    PROVE  /\ Retraces(Fail(e, why), r, m)
           /\ Fail(e, why).router = e.router /\ Fail(e, why).memory = e.memory
           /\ Fail(e, why).error = why
<1> DEFINE f == Fail(e, why)
<1>1. /\ IsEffect(f) /\ f.router = e.router /\ f.memory = e.memory /\ f.error = why
      /\ f.routerUndo = e.routerUndo /\ f.semanticUndo = e.semanticUndo
  BY DEF Retraces, IsEffect, Fail
<1> HIDE DEF f
<1>2. Retraces(f, r, m)
  BY <1>1 DEF Retraces
<1> QED BY <1>1, <1>2 DEF f

LEMMA RouterStepRetraces ==
    ASSUME NEW e, NEW r, NEW m, Retraces(e, r, m), NEW record, NEW changed,
           Ok(e) => IsRouter(changed) /\ RouterUndone(changed, record) = {e.router}
    PROVE  LET f == RouterStep(e, record, changed)
           IN  /\ Retraces(f, r, m)
               /\ Ok(f) => Ok(e) /\ f.router = changed
               /\ f.memory = e.memory
<1> DEFINE f == RouterStep(e, record, changed)
           full == Len(routerJournal) + Len(e.routerUndo) >= MaxRecords
           g == WithRouter(e, Append(e.routerUndo, record), changed)
<1>1. CASE ~Ok(e)
  <2>1. f = e
    BY <1>1 DEF RouterStep
  <2> QED BY <1>1, <2>1
<1>2. CASE Ok(e) /\ full
  <2>1. f = Fail(e, "LimitExceeded")
    BY <1>2 DEF RouterStep
  <2> QED BY <2>1, FailRetraces DEF Ok
<1>3. CASE Ok(e) /\ ~full
  <2>1. f = g
    BY <1>3 DEF RouterStep, WithRouter
  <2>2. /\ IsEffect(g) /\ g.router = changed /\ g.memory = e.memory
        /\ g.routerUndo = Append(e.routerUndo, record) /\ g.semanticUndo = e.semanticUndo
    <3>1. IsEffect(e)
      BY DEF Retraces
    <3> DEFINE undo == Append(e.routerUndo, record)
    <3> HIDE DEF undo
    <3>2. LET h == WithRouter(e, undo, changed)
          IN  /\ IsEffect(h) /\ h.router = changed /\ h.memory = e.memory
              /\ h.routerUndo = undo /\ h.semanticUndo = e.semanticUndo
      BY <3>1, Changed
    <3> QED BY <3>2 DEF undo
  <2>3. IsRouter(changed) /\ RouterUndone(changed, record) = {e.router}
    BY <1>3
  <2>4. RouterTook(record, {changed}) = {e.router}
    BY <2>3 DEF RouterTook
  <2>5. RouterFolding!Right(Append(e.routerUndo, record), {changed})
          = RouterFolding!Right(e.routerUndo, RouterTook(record, {changed}))
    <3>1. IsSeq(e.routerUndo)
      BY DEF Retraces
    <3> QED BY <3>1, FoldingSequences, RouterFolding!RightOneMore
  <2>6. IsSeq(Append(e.routerUndo, record))
    BY IsSeqAppend DEF Retraces
  <2> HIDE DEF g
  <2>7. Retraces(g, r, m)
    BY <2>2, <2>3, <2>4, <2>5, <2>6, Zenon DEF Retraces
  <2> QED BY <1>3, <2>1, <2>2, <2>7
<1> QED BY <1>1, <1>2, <1>3

LEMMA MemoryStepRetraces ==
    ASSUME NEW e, NEW r, NEW m, Retraces(e, r, m), NEW record, NEW changed,
           Ok(e) => /\ IsMemory(changed) /\ StoreCanUndo(changed, record)
                    /\ StoreUndo(changed, record) = e.memory
    PROVE  LET f == MemoryStep(e, record, changed)
           IN  /\ Retraces(f, r, m) /\ Kept(e, f)
               /\ Ok(f) => f.memory = changed
<1> DEFINE f == MemoryStep(e, record, changed)
           full == Len(semanticJournal) + Len(e.semanticUndo) >= MaxRecords
           g == WithMemory(e, Append(e.semanticUndo, record), changed)
<1>1. CASE ~Ok(e)
  <2>1. f = e
    BY <1>1 DEF MemoryStep
  <2> QED BY <1>1, <2>1 DEF Kept
<1>2. CASE Ok(e) /\ full
  <2>1. f = Fail(e, "LimitExceeded")
    BY <1>2 DEF MemoryStep
  <2> QED BY <2>1, FailRetraces DEF Ok, Kept
<1>3. CASE Ok(e) /\ ~full
  <2>1. f = g
    BY <1>3 DEF MemoryStep, WithMemory
  <2>2. /\ IsEffect(g) /\ g.memory = changed /\ g.router = e.router
        /\ g.semanticUndo = Append(e.semanticUndo, record) /\ g.routerUndo = e.routerUndo
    <3>1. IsEffect(e)
      BY DEF Retraces
    <3> DEFINE undo == Append(e.semanticUndo, record)
    <3> HIDE DEF undo
    <3>2. LET h == WithMemory(e, undo, changed)
          IN  /\ IsEffect(h) /\ h.router = e.router /\ h.memory = changed
              /\ h.routerUndo = e.routerUndo /\ h.semanticUndo = undo
      BY <3>1, Changed
    <3> QED BY <3>2 DEF undo
  <2>3. IsMemory(changed) /\ MemoryUndone(changed, record) = {e.memory}
    BY <1>3 DEF MemoryUndone
  <2>4. MemoryTook(record, {changed}) = {e.memory}
    BY <2>3 DEF MemoryTook
  <2>5. MemoryFolding!Right(Append(e.semanticUndo, record), {changed})
          = MemoryFolding!Right(e.semanticUndo, MemoryTook(record, {changed}))
    <3>1. IsSeq(e.semanticUndo)
      BY DEF Retraces
    <3> QED BY <3>1, FoldingSequences, MemoryFolding!RightOneMore
  <2>6. IsSeq(Append(e.semanticUndo, record))
    BY IsSeqAppend DEF Retraces
  <2> HIDE DEF g
  <2>7. Retraces(g, r, m)
    BY <2>2, <2>3, <2>4, <2>5, <2>6, Zenon DEF Retraces
  <2> QED BY <1>3, <2>1, <2>2, <2>7 DEF Kept
<1> QED BY <1>1, <1>2, <1>3

(* A demand is met, and nothing happens, or it stops the effect.             *)
LEMMA RequireRetraces ==
    ASSUME NEW e, NEW r, NEW m, Retraces(e, r, m), NEW c \in BOOLEAN, NEW why, why # "none"
    PROVE  LET f == Require(e, c, why)
           IN  /\ Retraces(f, r, m) /\ Kept(e, f) /\ f.memory = e.memory
               /\ Ok(f) => f = e /\ c
<1> DEFINE f == Require(e, c, why)
<1>1. CASE Ok(e) /\ ~c
  <2>1. f = Fail(e, why)
    BY <1>1 DEF Require
  <2> QED BY <2>1, FailRetraces DEF Ok, Kept
<1>2. CASE ~(Ok(e) /\ ~c)
  <2>1. f = e
    BY <1>2 DEF Require
  <2> QED BY <1>2, <2>1 DEF Kept
<1> QED BY <1>1, <1>2

-------------------------------------------------------------------------------
(* What the router's operations make of a router, and of what it knows of its*)
(* frames.                                                                   *)

Router(stack, pending, complete) ==
    [stack |-> stack, pending |-> pending, complete |-> complete]

LEMMA RouterEdits ==
    ASSUME NEW r, IsRouter(r), NEW s, NEW p, NEW c
    PROVE  /\ r = Router(r.stack, r.pending, r.complete)
           /\ [r EXCEPT !.stack = s, !.pending = p] = Router(s, p, r.complete)
           /\ [r EXCEPT !.stack = s] = Router(s, r.pending, r.complete)
           /\ [r EXCEPT !.pending = p] = Router(r.stack, p, r.complete)
           /\ [r EXCEPT !.complete = c] = Router(r.stack, r.pending, c)
<1>1. r = Router(r.stack, r.pending, r.complete)
  BY DEF IsRouter, Router
<1>2. ASSUME NEW n, n = [r EXCEPT !.stack = s, !.pending = p]
      PROVE  n = Router(s, p, r.complete)
  BY <1>1, <1>2, Zenon DEF Router
<1>3. ASSUME NEW n, n = [r EXCEPT !.stack = s] PROVE n = Router(s, r.pending, r.complete)
  BY <1>1, <1>3 DEF Router
<1>4. ASSUME NEW n, n = [r EXCEPT !.pending = p] PROVE n = Router(r.stack, p, r.complete)
  BY <1>1, <1>4 DEF Router
<1>5. ASSUME NEW n, n = [r EXCEPT !.complete = c] PROVE n = Router(r.stack, r.pending, c)
  BY <1>1, <1>5 DEF Router
<1> QED BY <1>1, <1>2, <1>3, <1>4, <1>5

LEMMA RouterParts ==
    ASSUME NEW s, NEW p, NEW c
    PROVE  /\ Router(s, p, c).stack = s /\ Router(s, p, c).pending = p
           /\ Router(s, p, c).complete = c
           /\ IsSeq(s) /\ (\A i \in 1..Len(s) : IsFrame(s[i])) => IsRouter(Router(s, p, c))
BY DEF Router, IsRouter

(* The last of the frames with an id.                                       *)
LEMMA PositionFinds ==
    ASSUME NEW r, IsRouter(r), NEW id, Position(r, id) # 0
    PROVE  /\ Position(r, id) \in 1..Len(r.stack)
           /\ Frame(r, id).id = id
           /\ \A i \in 1..Len(r.stack) : r.stack[i].id = id => i <= Position(r, id)
<1> DEFINE L == Len(r.stack)
           I == { i \in 1..L : r.stack[i].id = id }
           D == { d \in Nat : L - d \in I }
<1>1. L \in Nat
  BY IsSeqLen DEF IsRouter
<1>2. Position(r, id) = IF I # {} THEN Max(I) ELSE 0
  BY DEF Position, SelectLastInSeq
<1>3. I # {} /\ Position(r, id) = Max(I)
  BY <1>2
<1>4. \E n \in I : \A i \in I : n >= i
  <2>1. PICK i \in I : TRUE
    BY <1>3
  <2>2. L - i \in D
    BY <1>1
  <2> HIDE DEF D
  <2>3. PICK d \in D : \A x \in D : d <= x
    <3>1. D \in SUBSET Nat
      BY DEF D
    <3> QED BY <2>2, <3>1, LeastNatural, Zenon
  <2>4. L - d \in I /\ d \in Nat
    BY <2>3 DEF D
  <2>5. \A j \in I : L - j \in D
    BY <1>1 DEF D
  <2>6. \A j \in I : L - d >= j
    <3> SUFFICES ASSUME NEW j \in I PROVE L - d >= j
      OBVIOUS
    <3>1. d <= L - j
      BY <2>3, <2>5
    <3>2. j \in Int
      OBVIOUS
    <3> HIDE DEF I
    <3> QED BY <1>1, <2>4, <3>1, <3>2
  <2> HIDE DEF I
  <2> QED BY <2>4, <2>6
<1>5. Max(I) \in I /\ \A i \in I : Max(I) >= i
  <2> HIDE DEF I
  <2> QED BY <1>4 DEF Max
<1>6. \A i \in I : i \in Int
  BY <1>1
<1> QED BY <1>3, <1>5, <1>6 DEF Frame

LEMMA UndoOpening ==
    ASSUME NEW r, IsRouter(r), NEW f, IsFrame(f), NEW p
    PROVE  LET n == Router(Append(r.stack, f), p, r.complete)
           IN  IsRouter(n) /\ RouterUndone(n, PopOpenedFrame(r)) = {r}
<1> DEFINE s == Append(r.stack, f)
           n == Router(s, p, r.complete)
           u == PopOpenedFrame(r)
<1>1. /\ IsSeq(s) /\ Len(s) = Len(r.stack) + 1 /\ s # <<>> /\ Front(s) = r.stack
      /\ Len(r.stack) \in Nat
      /\ \A i \in 1..Len(s) : IsFrame(s[i])
  <2>1. /\ IsSeq(s) /\ Len(s) = Len(r.stack) + 1 /\ s # <<>> /\ Front(s) = r.stack
        /\ Len(r.stack) \in Nat /\ s[Len(r.stack) + 1] = f
        /\ \A i \in 1..Len(r.stack) : s[i] = r.stack[i]
    BY IsSeqAppend, IsSeqLen DEF IsRouter
  <2> HIDE DEF s
  <2>2. ASSUME NEW i \in 1..Len(s) PROVE IsFrame(s[i])
    <3>1. i \in 1..Len(r.stack) \/ i = Len(r.stack) + 1
      BY <2>1
    <3> QED BY <2>1, <3>1 DEF IsRouter
  <2> QED BY <2>1, <2>2
<1> HIDE DEF s
<1>2. IsRouter(n) /\ n.stack = s
  BY <1>1, RouterParts
<1>3. u.op = "PopOpenedFrame" /\ u.pending = r.pending
  BY DEF PopOpenedFrame
<1>4. RouterUndone(n, u) = {[n EXCEPT !.stack = Front(s), !.pending = r.pending]}
  <2> HIDE DEF n, u
  <2> QED BY <1>1, <1>2, <1>3, Zenon DEF RouterUndone
<1>5. [n EXCEPT !.stack = Front(s), !.pending = r.pending] = Router(r.stack, r.pending, n.complete)
  <2> DEFINE b == Front(s)
  <2> HIDE DEF n, b
  <2>1. [n EXCEPT !.stack = b, !.pending = r.pending] = Router(b, r.pending, n.complete)
    BY <1>2, RouterEdits, Zenon
  <2> QED BY <1>1, <2>1 DEF b
<1>6. n.complete = r.complete /\ r = Router(r.stack, r.pending, r.complete)
  <2>1. n.complete = r.complete
    BY RouterParts
  <2>2. r = Router(r.stack, r.pending, r.complete)
    BY RouterEdits, Zenon
  <2> QED BY <2>1, <2>2
<1> QED BY <1>2, <1>4, <1>5, <1>6 DEF s

LEMMA UndoClosing ==
    ASSUME NEW r, IsRouter(r), r.stack # <<>>, NEW p
    PROVE  LET n == Router(Front(r.stack), p, r.complete)
           IN  IsRouter(n) /\ RouterUndone(n, RestoreClosedFrame(r)) = {r}
<1> DEFINE s == Front(r.stack)
           n == Router(s, p, r.complete)
           u == RestoreClosedFrame(r)
<1>1. /\ IsSeq(s) /\ Len(s) = Len(r.stack) - 1 /\ Append(s, Last(r.stack)) = r.stack
      /\ Len(r.stack) \in Nat \ {0}
      /\ \A i \in 1..(Len(r.stack) - 1) : s[i] = r.stack[i]
  BY IsSeqFront DEF IsRouter
<1> HIDE DEF s
<1>2. \A i \in 1..Len(s) : IsFrame(s[i])
  <2>1. \A i \in 1..Len(s) : i \in 1..Len(r.stack) /\ s[i] = r.stack[i]
    BY <1>1
  <2> QED BY <2>1 DEF IsRouter
<1>3. IsRouter(n) /\ n.stack = s
  BY <1>1, <1>2, RouterParts
<1>4. u.op = "RestoreClosedFrame" /\ u.pending = r.pending /\ u.frame = Last(r.stack)
  BY DEF RestoreClosedFrame
<1>5. RouterUndone(n, u) = {[n EXCEPT !.stack = Append(s, Last(r.stack)), !.pending = r.pending]}
  <2> HIDE DEF n, u
  <2> QED BY <1>3, <1>4 DEF RouterUndone
<1>6. [n EXCEPT !.stack = r.stack, !.pending = r.pending] = Router(r.stack, r.pending, n.complete)
  <2> HIDE DEF n
  <2> QED BY <1>3, RouterEdits, Zenon
<1>7. n.complete = r.complete /\ r = Router(r.stack, r.pending, r.complete)
  <2>1. n.complete = r.complete
    BY RouterParts
  <2>2. r = Router(r.stack, r.pending, r.complete)
    BY RouterEdits, Zenon
  <2> QED BY <2>1, <2>2
<1> QED BY <1>1, <1>3, <1>5, <1>6, <1>7 DEF s

LEMMA UndoPendingArray ==
    ASSUME NEW r, IsRouter(r), NEW i \in 1..Len(r.stack), r.stack[i].kind = "array", NEW p
    PROVE  LET n == Router(r.stack, p, r.complete)
           IN  IsRouter(n) /\ RouterUndone(n, RestorePending(r, i, {})) = {r}
<1> DEFINE n == Router(r.stack, p, r.complete)
           u == RestorePending(r, i, {})
<1>1. IsRouter(n) /\ n.stack = r.stack /\ n.complete = r.complete
  BY RouterParts DEF IsRouter
<1>2. u.op = "RestorePending" /\ u.pending = r.pending /\ u.index = i /\ u.property = {}
  BY DEF RestorePending
<1>3. i \in DOMAIN r.stack
  BY IsSeqLen DEF IsRouter
<1>4. RouterUndone(n, u) = {[n EXCEPT !.pending = r.pending]}
  <2> HIDE DEF n, u
  <2> QED BY <1>1, <1>2, <1>3 DEF RouterUndone
<1>5. [n EXCEPT !.pending = r.pending] = Router(n.stack, r.pending, n.complete)
  <2> HIDE DEF n
  <2> QED BY <1>1, RouterEdits, Zenon
<1>6. r = Router(r.stack, r.pending, r.complete)
  BY RouterEdits, Zenon
<1> QED BY <1>1, <1>4, <1>5, <1>6

LEMMA UndoPendingObject ==
    ASSUME NEW r, IsRouter(r), NEW i \in 1..Len(r.stack), r.stack[i].kind = "object",
           NEW child, NEW p
    PROVE  LET n == Router([r.stack EXCEPT ![i].property = child], p, r.complete)
           IN  IsRouter(n) /\ RouterUndone(n, RestorePending(r, i, r.stack[i].property)) = {r}
<1> DEFINE f == r.stack[i]
           g == [f EXCEPT !.property = child]
           s == [r.stack EXCEPT ![i] = g]
           n == Router(s, p, r.complete)
           u == RestorePending(r, i, f.property)
<1>1. /\ IsSeq(r.stack) /\ Len(r.stack) \in Nat /\ DOMAIN r.stack = 1..Len(r.stack)
      /\ \A j \in 1..Len(r.stack) : IsFrame(r.stack[j])
  BY IsSeqLen DEF IsRouter
<1>2. IsFrame(f)
  BY <1>1
<1>3. f = [kind |-> "object", id |-> f.id, node |-> f.node, property |-> f.property]
  BY <1>2 DEF IsFrame
<1> HIDE DEF f
<1>4. IsFrame(g) /\ g.kind = "object" /\ [g EXCEPT !.property = f.property] = f
  <2>1. g = [kind |-> "object", id |-> f.id, node |-> f.node, property |-> child]
    BY <1>3
  <2> HIDE DEF g
  <2>2. IsFrame(g) /\ g.kind = "object"
    BY <2>1 DEF IsFrame
  <2>3. [g EXCEPT !.property = f.property] =
            [kind |-> "object", id |-> f.id, node |-> f.node, property |-> f.property]
    BY <2>1
  <2> QED BY <1>3, <2>2, <2>3
<1> HIDE DEF g
<1>5. /\ IsSeq(s) /\ Len(s) = Len(r.stack) /\ s[i] = g /\ DOMAIN s = 1..Len(r.stack)
      /\ \A j \in 1..Len(r.stack) : j # i => s[j] = r.stack[j]
  <2>1. /\ s = [j \in 1..Len(r.stack) |-> s[j]] /\ s[i] = g
        /\ \A j \in 1..Len(r.stack) : j # i => s[j] = r.stack[j]
    BY <1>1
  <2> HIDE DEF s
  <2> QED BY <1>1, <2>1, FunctionIsSeq, Zenon
<1> HIDE DEF s
<1>6. \A j \in 1..Len(s) : IsFrame(s[j])
  BY <1>1, <1>4, <1>5
<1>7. IsRouter(n) /\ n.stack = s /\ n.complete = r.complete
  BY <1>5, <1>6, RouterParts
<1>8. u.op = "RestorePending" /\ u.pending = r.pending /\ u.index = i
      /\ u.property = f.property
  BY DEF RestorePending
<1> DEFINE back == [s EXCEPT ![i].property = f.property]
<1>9. RouterUndone(n, u) = {[n EXCEPT !.stack = back, !.pending = r.pending]}
  <2>1. n.stack[i].kind = "object" /\ i \in DOMAIN n.stack
    BY <1>4, <1>5, <1>7
  <2>2. [n EXCEPT !.stack[i].property = f.property, !.pending = r.pending]
          = [n EXCEPT !.stack = [n.stack EXCEPT ![i].property = f.property], !.pending = r.pending]
    OBVIOUS
  <2>3. RouterUndone(n, u) =
          {[n EXCEPT !.stack[i].property = f.property, !.pending = r.pending]}
    <3> HIDE DEF n, u
    <3> QED BY <1>8, <2>1 DEF RouterUndone
  <2> QED BY <1>7, <2>2, <2>3
<1>10. back = r.stack
  <2>1. back = [s EXCEPT ![i] = [g EXCEPT !.property = f.property]]
    BY <1>5
  <2>2. back = [s EXCEPT ![i] = f]
    BY <1>4, <2>1, Zenon
  <2>3. /\ DOMAIN back = 1..Len(r.stack) /\ back[i] = f
        /\ \A j \in 1..Len(r.stack) : j # i => back[j] = r.stack[j]
        /\ back = [j \in DOMAIN back |-> back[j]]
    <3> HIDE DEF f
    <3> QED BY <1>5, <2>2, Zenon
  <2>4. f = r.stack[i]
    BY DEF f
  <2>5. r.stack = [j \in 1..Len(r.stack) |-> r.stack[j]]
    BY <1>1 DEF IsSeq
  <2> HIDE DEF back
  <2> QED BY <2>3, <2>4, <2>5
<1>11. [n EXCEPT !.stack = back, !.pending = r.pending] = Router(back, r.pending, n.complete)
  <2> HIDE DEF n, back
  <2> QED BY <1>7, RouterEdits, Zenon
<1>12. r = Router(r.stack, r.pending, r.complete)
  BY RouterEdits, Zenon
<1>13. s = [r.stack EXCEPT ![i].property = child]
  BY DEF s, g, f
<1> HIDE DEF back
<1> QED BY <1>7, <1>9, <1>10, <1>11, <1>12, <1>13, Zenon DEF f

LEMMA UndoComplete ==
    ASSUME NEW r, IsRouter(r), NEW c
    PROVE  LET n == Router(r.stack, r.pending, c)
           IN  IsRouter(n) /\ RouterUndone(n, RestoreRootComplete(r)) = {r}
<1> DEFINE n == Router(r.stack, r.pending, c)
           u == RestoreRootComplete(r)
<1>1. IsRouter(n) /\ n.stack = r.stack /\ n.pending = r.pending
  BY RouterParts DEF IsRouter
<1>2. u.op = "RestoreRootComplete" /\ u.complete = r.complete
  BY DEF RestoreRootComplete
<1>3. RouterUndone(n, u) = {[n EXCEPT !.complete = r.complete]}
  <2> HIDE DEF n, u
  <2> QED BY <1>2 DEF RouterUndone
<1>4. [n EXCEPT !.complete = r.complete] = Router(n.stack, n.pending, r.complete)
  <2> DEFINE old == r.complete
  <2> HIDE DEF n, old
  <2>1. [n EXCEPT !.complete = old] = Router(n.stack, n.pending, old)
    BY <1>1, RouterEdits, Zenon
  <2> QED BY <2>1 DEF old
<1>5. r = Router(r.stack, r.pending, r.complete)
  BY RouterEdits, Zenon
<1> QED BY <1>1, <1>3, <1>4, <1>5

-------------------------------------------------------------------------------
(* The router's operations.  Each leads back where it began, whether it is    *)
(* done or refused; done, it changes the router as stated.                   *)

LEMMA RequireFrameRetraces ==
    ASSUME NEW e, NEW r, NEW m, Retraces(e, r, m), NEW id, NEW kind
    PROVE  LET f == RequireFrame(e, id, kind)
           IN  /\ Retraces(f, r, m) /\ Kept(e, f)
               /\ Ok(f) => f = e /\ Position(e.router, id) # 0 /\ Frame(e.router, id).kind = kind
<1> DEFINE f == RequireFrame(e, id, kind)
           is == Frame(e.router, id).kind = kind
<1>1. CASE ~Ok(e)
  <2>1. f = e
    BY <1>1 DEF RequireFrame
  <2> QED BY <1>1, <2>1 DEF Kept
<1>2. CASE Ok(e) /\ Position(e.router, id) = 0
  <2>1. f = Fail(e, "UnknownFrame")
    BY <1>2 DEF RequireFrame
  <2> QED BY <2>1, FailRetraces DEF Ok, Kept
<1>3. CASE Ok(e) /\ Position(e.router, id) # 0
  <2>1. f = Require(e, is, "WrongFrame")
    BY <1>3 DEF RequireFrame
  <2>2. is \in BOOLEAN /\ "WrongFrame" # "none"
    OBVIOUS
  <2> HIDE DEF is
  <2>3. /\ Retraces(Require(e, is, "WrongFrame"), r, m) /\ Kept(e, Require(e, is, "WrongFrame"))
        /\ Ok(Require(e, is, "WrongFrame")) => Require(e, is, "WrongFrame") = e /\ is
    BY <2>2, RequireRetraces
  <2> QED BY <1>3, <2>1, <2>3 DEF is
<1> QED BY <1>1, <1>2, <1>3

LEMMA OpenArray ==
    ASSUME NEW e, NEW r, NEW m, Retraces(e, r, m), NEW id
    PROVE  LET f == open_array(e, id)
               node == e.router.pending
           IN  /\ Retraces(f, r, m)
               /\ Ok(f) =>
                    /\ Ok(e) /\ schema[node].kind = "array"
                    /\ f.router = Router(Append(e.router.stack, RuntimeArray(id, node)),
                                         schema[node].items, e.router.complete)
<1> DEFINE node == e.router.pending
           is == schema[node].kind = "array"
           q == Require(e, is, "ExpectedArray")
           frame == RuntimeArray(id, node)
           record == PopOpenedFrame(e.router)
           changed == [e.router EXCEPT !.stack = Append(@, frame), !.pending = schema[node].items]
           new == Router(Append(e.router.stack, frame), schema[node].items, e.router.complete)
           f == RouterStep(q, record, changed)
<1>1. f = open_array(e, id)
  BY DEF open_array
<1>2. Retraces(q, r, m) /\ (Ok(q) => q = e /\ is)
  <2>1. is \in BOOLEAN /\ "ExpectedArray" # "none"
    OBVIOUS
  <2> HIDE DEF is
  <2> QED BY <2>1, RequireRetraces
<1>3. IsRouter(e.router)
  BY DEF Retraces
<1>4. changed = new
  <2> DEFINE s == Append(e.router.stack, frame)
             p == schema[node].items
  <2>1. changed = [e.router EXCEPT !.stack = s, !.pending = p]
    OBVIOUS
  <2> HIDE DEF s, p, changed
  <2>2. [e.router EXCEPT !.stack = s, !.pending = p] = Router(s, p, e.router.complete)
    BY <1>3, RouterEdits, Zenon
  <2> QED BY <2>1, <2>2 DEF s, p
<1>5. IsFrame(frame)
  BY DEF IsFrame, RuntimeArray
<1> HIDE DEF changed, frame
<1>6. IsRouter(new) /\ RouterUndone(new, record) = {e.router}
  <2> HIDE DEF node
  <2> QED BY <1>3, <1>5, UndoOpening
<1> HIDE DEF q, new, record, is
<1>7. /\ Retraces(f, r, m)
      /\ Ok(f) => Ok(q) /\ f.router = changed
  BY <1>2, <1>4, <1>6, RouterStepRetraces
<1> HIDE DEF f
<1>8. Ok(f) => Ok(e) /\ is /\ f.router = new
  BY <1>2, <1>4, <1>7
<1> QED BY <1>1, <1>7, <1>8 DEF new, is, frame

LEMMA OpenObject ==
    ASSUME NEW e, NEW r, NEW m, Retraces(e, r, m), NEW id
    PROVE  LET f == open_object(e, id)
               node == e.router.pending
           IN  /\ Retraces(f, r, m)
               /\ Ok(f) =>
                    /\ Ok(e) /\ schema[node].kind = "object"
                    /\ f.router = Router(Append(e.router.stack, RuntimeObject(id, node)),
                                         node, e.router.complete)
<1> DEFINE node == e.router.pending
           is == schema[node].kind = "object"
           q == Require(e, is, "ExpectedObject")
           frame == RuntimeObject(id, node)
           record == PopOpenedFrame(e.router)
           changed == [e.router EXCEPT !.stack = Append(@, frame)]
           new == Router(Append(e.router.stack, frame), node, e.router.complete)
           f == RouterStep(q, record, changed)
<1>1. f = open_object(e, id)
  BY DEF open_object
<1>2. Retraces(q, r, m) /\ (Ok(q) => q = e /\ is)
  <2>1. is \in BOOLEAN /\ "ExpectedObject" # "none"
    OBVIOUS
  <2> HIDE DEF is
  <2> QED BY <2>1, RequireRetraces
<1>3. IsRouter(e.router)
  BY DEF Retraces
<1>4. changed = new
  <2> DEFINE s == Append(e.router.stack, frame)
  <2>1. changed = [e.router EXCEPT !.stack = s]
    OBVIOUS
  <2> HIDE DEF s, changed
  <2>2. [e.router EXCEPT !.stack = s] = Router(s, e.router.pending, e.router.complete)
    BY <1>3, RouterEdits, Zenon
  <2> QED BY <2>1, <2>2 DEF s
<1>5. IsFrame(frame)
  BY DEF IsFrame, RuntimeObject
<1> HIDE DEF changed, frame
<1>6. IsRouter(new) /\ RouterUndone(new, record) = {e.router}
  <2> HIDE DEF node
  <2> QED BY <1>3, <1>5, UndoOpening
<1> HIDE DEF q, new, record, is
<1>7. /\ Retraces(f, r, m)
      /\ Ok(f) => Ok(q) /\ f.router = changed
  BY <1>2, <1>4, <1>6, RouterStepRetraces
<1> HIDE DEF f
<1>8. Ok(f) => Ok(e) /\ is /\ f.router = new
  BY <1>2, <1>4, <1>7
<1> QED BY <1>1, <1>7, <1>8 DEF new, is, frame

(* The router once the frame i is told of a pending property, and once it is   *)
(* told that there is none.                                                 *)
Told(r, i, property, pending) ==
    Router([r.stack EXCEPT ![i].property = property], pending, r.complete)

Telling(r, i, property, pending) ==
    [r EXCEPT !.stack[i].property = property, !.pending = pending]

LEMMA ToldEdit ==
    ASSUME NEW r, IsRouter(r), NEW i, NEW property, NEW pending
    PROVE  Telling(r, i, property, pending) = Told(r, i, property, pending)
<1> DEFINE s == [r.stack EXCEPT ![i].property = property]
<1>1. Telling(r, i, property, pending) = [r EXCEPT !.stack = s, !.pending = pending]
  BY DEF Telling
<1> HIDE DEF s
<1>2. [r EXCEPT !.stack = s, !.pending = pending] = Router(s, pending, r.complete)
  BY RouterEdits, Zenon
<1> QED BY <1>1, <1>2 DEF Told, s

LEMMA SetPendingProperty ==
    ASSUME NEW e, NEW r, NEW m, Retraces(e, r, m), NEW id, NEW key
    PROVE  LET f == set_pending_property(e, id, key)
               i == Position(e.router, id)
               child == PropertyNodes(e.router.stack[i].node, key)
           IN  /\ Retraces(f, r, m)
               /\ Ok(f) =>
                    /\ Ok(e) /\ i # 0 /\ e.router.stack[i].kind = "object" /\ child # {}
                    /\ f.router = Told(e.router, i, child, The(child))
<1> DEFINE found == RequireFrame(e, id, "object")
           i == Position(e.router, id)
           child == PropertyNodes(e.router.stack[i].node, key)
           known == Require(e, child # {}, "UnknownProperty")
           record == RestorePending(e.router, i, e.router.stack[i].property)
           changed == [e.router EXCEPT !.stack[i].property = child, !.pending = The(child)]
           f == set_pending_property(e, id, key)
<1>1. Retraces(found, r, m) /\ (Ok(found) => found = e /\ Ok(e) /\ i # 0 /\ e.router.stack[i].kind = "object")
  BY RequireFrameRetraces DEF Kept, Frame
<1>2. CASE ~Ok(found)
  <2>1. f = found
    BY <1>2 DEF set_pending_property, Then
  <2> QED BY <1>1, <1>2, <2>1
<1>3. CASE Ok(found)
  <2>1. f = RouterStep(known, record, changed)
    BY <1>1, <1>3, Zenon DEF set_pending_property, Then
  <2>2. IsRouter(e.router) /\ i \in 1..Len(e.router.stack)
    BY <1>1, <1>3, PositionFinds DEF Retraces
  <2>3. Retraces(known, r, m) /\ (Ok(known) => known = e /\ child # {})
    <3> DEFINE has == child # {}
    <3>1. has \in BOOLEAN /\ "UnknownProperty" # "none"
      OBVIOUS
    <3>2. known = Require(e, has, "UnknownProperty")
      OBVIOUS
    <3> HIDE DEF has
    <3>3. /\ Retraces(Require(e, has, "UnknownProperty"), r, m)
          /\ Ok(Require(e, has, "UnknownProperty")) => Require(e, has, "UnknownProperty") = e /\ has
      BY <3>1, RequireRetraces
    <3> QED BY <3>2, <3>3 DEF has
  <2> HIDE DEF known, child
  <2>4. changed = Told(e.router, i, child, The(child))
    <3>1. changed = Telling(e.router, i, child, The(child))
      BY DEF Telling
    <3> HIDE DEF changed, i
    <3> QED BY <2>2, <3>1, ToldEdit
  <2>5. IsRouter(Told(e.router, i, child, The(child)))
        /\ RouterUndone(Told(e.router, i, child, The(child)), record) = {e.router}
    BY <1>1, <1>3, <2>2, UndoPendingObject, Zenon DEF Told
  <2> HIDE DEF changed, record
  <2>6. /\ Retraces(RouterStep(known, record, changed), r, m)
        /\ Ok(RouterStep(known, record, changed)) =>
             Ok(known) /\ RouterStep(known, record, changed).router = changed
    BY <2>3, <2>4, <2>5, RouterStepRetraces
  <2> QED BY <1>1, <1>3, <2>1, <2>3, <2>4, <2>6 DEF child
<1> QED BY <1>2, <1>3

LEMMA CompleteArrayItem ==
    ASSUME NEW e, NEW r, NEW m, Retraces(e, r, m), NEW id
    PROVE  LET f == complete_array_item(e, id)
               i == Position(e.router, id)
           IN  /\ Retraces(f, r, m)
               /\ Ok(f) =>
                    /\ Ok(e) /\ i # 0 /\ e.router.stack[i].kind = "array"
                    /\ f.router = Router(e.router.stack, e.router.stack[i].item,
                                         e.router.complete)
<1> DEFINE found == RequireFrame(e, id, "array")
           i == Position(e.router, id)
           record == RestorePending(e.router, i, {})
           p == e.router.stack[i].item
           changed == [e.router EXCEPT !.pending = p]
           f == complete_array_item(e, id)
<1>1. Retraces(found, r, m) /\ (Ok(found) => found = e /\ Ok(e) /\ i # 0 /\ e.router.stack[i].kind = "array")
  BY RequireFrameRetraces DEF Kept, Frame
<1>2. CASE ~Ok(found)
  <2>1. f = found
    BY <1>2 DEF complete_array_item, Then
  <2> QED BY <1>1, <1>2, <2>1
<1>3. CASE Ok(found)
  <2>1. f = RouterStep(e, record, changed)
    BY <1>1, <1>3 DEF complete_array_item, Then, Frame
  <2>2. IsRouter(e.router) /\ i \in 1..Len(e.router.stack)
    BY <1>1, <1>3, PositionFinds DEF Retraces
  <2> HIDE DEF p
  <2>3. changed = Router(e.router.stack, p, e.router.complete)
    BY <2>2, RouterEdits, Zenon
  <2>4. IsRouter(Router(e.router.stack, p, e.router.complete))
        /\ RouterUndone(Router(e.router.stack, p, e.router.complete), record) = {e.router}
    BY <1>1, <1>3, <2>2, UndoPendingArray, Zenon
  <2> HIDE DEF changed, record
  <2>5. /\ Retraces(RouterStep(e, record, changed), r, m)
        /\ Ok(RouterStep(e, record, changed)) =>
             Ok(e) /\ RouterStep(e, record, changed).router = changed
    BY <2>3, <2>4, RouterStepRetraces
  <2> QED BY <1>1, <1>3, <2>1, <2>3, <2>5 DEF p
<1> QED BY <1>2, <1>3

LEMMA CompleteProperty ==
    ASSUME NEW e, NEW r, NEW m, Retraces(e, r, m), NEW id
    PROVE  LET f == complete_property(e, id)
               i == Position(e.router, id)
           IN  /\ Retraces(f, r, m)
               /\ Ok(f) =>
                    /\ Ok(e) /\ i # 0 /\ e.router.stack[i].kind = "object"
                    /\ f.router = Told(e.router, i, {}, e.router.stack[i].node)
<1> DEFINE found == RequireFrame(e, id, "object")
           i == Position(e.router, id)
           node == e.router.stack[i].node
           has == e.router.stack[i].property # {}
           known == Require(e, has, "MissingPendingProperty")
           record == RestorePending(e.router, i, e.router.stack[i].property)
           changed == [e.router EXCEPT !.stack[i].property = {}, !.pending = node]
           f == complete_property(e, id)
<1>1. Retraces(found, r, m) /\ (Ok(found) => found = e /\ Ok(e) /\ i # 0 /\ e.router.stack[i].kind = "object")
  BY RequireFrameRetraces DEF Kept, Frame
<1>2. CASE ~Ok(found)
  <2>1. f = found
    BY <1>2 DEF complete_property, Then
  <2> QED BY <1>1, <1>2, <2>1
<1>3. CASE Ok(found)
  <2>1. f = RouterStep(known, record, changed)
    BY <1>1, <1>3, Zenon DEF complete_property, Then
  <2>2. IsRouter(e.router) /\ i \in 1..Len(e.router.stack)
    BY <1>1, <1>3, PositionFinds DEF Retraces
  <2>3. Retraces(known, r, m) /\ (Ok(known) => known = e)
    <3>1. has \in BOOLEAN /\ "MissingPendingProperty" # "none"
      OBVIOUS
    <3> HIDE DEF has
    <3> QED BY <3>1, RequireRetraces
  <2> HIDE DEF known, node
  <2>4. changed = Told(e.router, i, {}, node)
    <3>1. changed = Telling(e.router, i, {}, node)
      BY DEF Telling
    <3> HIDE DEF changed, i
    <3> QED BY <2>2, <3>1, ToldEdit
  <2>5. IsRouter(Told(e.router, i, {}, node))
        /\ RouterUndone(Told(e.router, i, {}, node), record) = {e.router}
    BY <1>1, <1>3, <2>2, UndoPendingObject, Zenon DEF Told
  <2> HIDE DEF changed, record
  <2>6. /\ Retraces(RouterStep(known, record, changed), r, m)
        /\ Ok(RouterStep(known, record, changed)) =>
             Ok(known) /\ RouterStep(known, record, changed).router = changed
    BY <2>3, <2>4, <2>5, RouterStepRetraces
  <2> QED BY <1>1, <1>3, <2>1, <2>3, <2>4, <2>6 DEF node
<1> QED BY <1>2, <1>3

LEMMA CloseFrame ==
    ASSUME NEW e, NEW r, NEW m, Retraces(e, r, m), NEW id
    PROVE  LET f == close_frame(e, id)
               rest == Front(e.router.stack)
           IN  /\ Retraces(f, r, m)
               /\ Ok(f) =>
                    /\ Ok(e) /\ e.router.stack # <<>> /\ Last(e.router.stack).id = id
                    /\ f.router = Router(rest, PendingAfterClose(rest), e.router.complete)
<1> DEFINE open == e.router.stack # <<>>
           found == Require(e, open, "UnknownFrame")
           last == Last(e.router.stack).id = id
           known == Require(e, last, "CloseOrder")
           rest == Front(e.router.stack)
           p == PendingAfterClose(rest)
           record == RestoreClosedFrame(e.router)
           changed == [e.router EXCEPT !.stack = Front(@), !.pending = p]
           f == close_frame(e, id)
<1>1. Retraces(found, r, m) /\ (Ok(found) => found = e /\ Ok(e) /\ open)
  <2>1. open \in BOOLEAN /\ "UnknownFrame" # "none"
    OBVIOUS
  <2> HIDE DEF open
  <2> QED BY <2>1, RequireRetraces DEF Kept
<1>2. CASE ~Ok(found)
  <2>1. f = found
    BY <1>2 DEF close_frame, Then
  <2> QED BY <1>1, <1>2, <2>1
<1>3. CASE Ok(found)
  <2>1. f = RouterStep(known, record, changed)
    BY <1>1, <1>3, Zenon DEF close_frame, Then
  <2>2. IsRouter(e.router)
    BY DEF Retraces
  <2>3. Retraces(known, r, m) /\ (Ok(known) => known = e /\ last)
    <3>1. last \in BOOLEAN /\ "CloseOrder" # "none"
      OBVIOUS
    <3> HIDE DEF last
    <3> QED BY <3>1, RequireRetraces
  <2>4. changed = Router(rest, p, e.router.complete)
    <3>1. changed = [e.router EXCEPT !.stack = rest, !.pending = p]
      OBVIOUS
    <3> HIDE DEF rest, p, changed
    <3> QED BY <2>2, <3>1, RouterEdits, Zenon
  <2> HIDE DEF known, p
  <2>5. IsRouter(Router(rest, p, e.router.complete))
        /\ RouterUndone(Router(rest, p, e.router.complete), record) = {e.router}
    BY <1>1, <1>3, <2>2, UndoClosing, Zenon
  <2> HIDE DEF changed, record, last
  <2>6. /\ Retraces(RouterStep(known, record, changed), r, m)
        /\ Ok(RouterStep(known, record, changed)) =>
             Ok(known) /\ RouterStep(known, record, changed).router = changed
    BY <2>3, <2>4, <2>5, RouterStepRetraces
  <2> QED BY <1>1, <1>3, <2>1, <2>3, <2>4, <2>6 DEF p, last
<1> QED BY <1>2, <1>3

LEMMA CompleteRoot ==
    ASSUME NEW e, NEW r, NEW m, Retraces(e, r, m)
    PROVE  LET f == complete_root(e)
           IN  /\ Retraces(f, r, m)
               /\ Ok(f) =>
                    /\ Ok(e) /\ e.router.stack = <<>>
                    /\ f.router = Router(e.router.stack, e.router.pending, TRUE)
<1> DEFINE closed == e.router.stack = <<>>
           known == Require(e, closed, "RootWithOpenFrames")
           record == RestoreRootComplete(e.router)
           changed == [e.router EXCEPT !.complete = TRUE]
           f == complete_root(e)
<1>1. f = RouterStep(known, record, changed)
  BY DEF complete_root
<1>2. Retraces(known, r, m) /\ (Ok(known) => known = e /\ closed)
  <2>1. closed \in BOOLEAN /\ "RootWithOpenFrames" # "none"
    OBVIOUS
  <2> HIDE DEF closed
  <2> QED BY <2>1, RequireRetraces
<1>3. IsRouter(e.router)
  BY DEF Retraces
<1> DEFINE new == Router(e.router.stack, e.router.pending, TRUE)
<1>4. changed = new
  BY <1>3, RouterEdits, Zenon
<1>5. IsRouter(new) /\ RouterUndone(new, record) = {e.router}
  BY <1>3, UndoComplete, Zenon
<1> HIDE DEF known, changed, record, new
<1>6. /\ Retraces(RouterStep(known, record, changed), r, m)
      /\ Ok(RouterStep(known, record, changed)) =>
           Ok(known) /\ RouterStep(known, record, changed).router = changed
  BY <1>2, <1>4, <1>5, RouterStepRetraces
<1> QED BY <1>1, <1>2, <1>4, <1>6, Zenon DEF new

-------------------------------------------------------------------------------
(* The operations of the stores.  Each leads back where it began, whether it   *)
(* is done or refused, and leaves the router alone.                           *)

LEMMA KeptTwice ==
    ASSUME NEW e, NEW f, NEW g, Kept(e, f), Kept(f, g)
    PROVE  Kept(e, g)
BY DEF Kept

LEMMA KeptSelf ==
    ASSUME NEW e
    PROVE  Kept(e, e)
BY DEF Kept

LEMMA CreateHistoryRetraces ==
    ASSUME NEW e, NEW r, NEW m, Retraces(e, r, m), NEW k
    PROVE  LET f == create_history(e, k) IN Retraces(f, r, m) /\ Kept(e, f)
<1> DEFINE fresh == k \notin DOMAIN e.memory.histories
           few == Cardinality(DOMAIN e.memory.histories) < MaxHistories
           q == Require(e, fresh, "DuplicateHistory")
           s == Require(q, few, "LimitExceeded")
           u == RemoveCreatedHistory(k)
           new == CreateHistory(e.memory, k)
<1>1. create_history(e, k) = MemoryStep(s, u, new)
  BY DEF create_history
<1>2. Retraces(q, r, m) /\ Kept(e, q) /\ (Ok(q) => q = e /\ fresh)
  <2>1. fresh \in BOOLEAN /\ "DuplicateHistory" # "none"
    OBVIOUS
  <2> HIDE DEF fresh
  <2> QED BY <2>1, RequireRetraces
<1> HIDE DEF q
<1>3. Retraces(s, r, m) /\ Kept(q, s) /\ (Ok(s) => s = q /\ Ok(q))
  <2>1. few \in BOOLEAN /\ "LimitExceeded" # "none"
    OBVIOUS
  <2> HIDE DEF few
  <2> QED BY <1>2, <2>1, RequireRetraces DEF Kept
<1> HIDE DEF s
<1>4. Ok(s) => IsMemory(new) /\ StoreCanUndo(new, u) /\ StoreUndo(new, u) = s.memory
  <2> SUFFICES ASSUME Ok(s) PROVE IsMemory(new) /\ StoreCanUndo(new, u) /\ StoreUndo(new, u) = e.memory
    BY <1>2, <1>3
  <2>1. k \notin DOMAIN e.memory.histories /\ IsMemory(e.memory)
    BY <1>2, <1>3 DEF Retraces
  <2>2. PICK V : WellFormedMemory(e.memory, V)
    BY <2>1, MemoryWellFormed
  <2> QED BY <2>1, <2>2, UndoCreateHistory, CreateHistoryKeepsMemory
<1> HIDE DEF new, u
<1>5. Retraces(MemoryStep(s, u, new), r, m) /\ Kept(s, MemoryStep(s, u, new))
  BY <1>3, <1>4, MemoryStepRetraces
<1> QED BY <1>1, <1>2, <1>3, <1>5, KeptTwice

LEMMA CloseHistoryRetraces ==
    ASSUME NEW e, NEW r, NEW m, Retraces(e, r, m), NEW k
    PROVE  LET f == close_history(e, k) IN Retraces(f, r, m) /\ Kept(e, f)
<1> DEFINE held == k \in DOMAIN e.memory.histories
           q == Require(e, held, "MissingHistory")
           u == RestoreClosedHistory(e.memory, k)
           new == CloseHistory(e.memory, k)
<1>1. Retraces(q, r, m) /\ Kept(e, q) /\ (Ok(q) => q = e /\ held)
  <2>1. held \in BOOLEAN /\ "MissingHistory" # "none"
    OBVIOUS
  <2> HIDE DEF held
  <2> QED BY <2>1, RequireRetraces
<1>2. CASE ~Ok(q)
  <2>1. close_history(e, k) = q
    BY <1>2 DEF close_history, Then
  <2> QED BY <1>1, <2>1
<1>3. CASE Ok(q)
  <2>1. close_history(e, k) = MemoryStep(e, u, new)
    BY <1>1, <1>3 DEF close_history, Then
  <2>2. IsMemory(new) /\ StoreCanUndo(new, u) /\ StoreUndo(new, u) = e.memory
    <3>1. k \in DOMAIN e.memory.histories /\ IsMemory(e.memory)
      BY <1>1, <1>3 DEF Retraces
    <3>2. PICK V : WellFormedMemory(e.memory, V)
      BY <3>1, MemoryWellFormed
    <3> QED BY <3>1, <3>2, UndoCloseHistory, CloseHistoryKeepsMemory
  <2> HIDE DEF new, u
  <2> QED BY <2>1, <2>2, MemoryStepRetraces
<1> QED BY <1>2, <1>3

LEMMA CreateCounterRetraces ==
    ASSUME NEW e, NEW r, NEW m, Retraces(e, r, m), NEW k
    PROVE  LET f == create_counter(e, k) IN Retraces(f, r, m) /\ Kept(e, f)
<1> DEFINE fresh == k \notin DOMAIN e.memory.counters
           few == Cardinality(DOMAIN e.memory.counters) < MaxCounters
           q == Require(e, fresh, "DuplicateCounter")
           s == Require(q, few, "LimitExceeded")
           u == RemoveCreatedCounter(k)
           new == CreateCounter(e.memory, k)
<1>1. create_counter(e, k) = MemoryStep(s, u, new)
  BY DEF create_counter
<1>2. Retraces(q, r, m) /\ Kept(e, q) /\ (Ok(q) => q = e /\ fresh)
  <2>1. fresh \in BOOLEAN /\ "DuplicateCounter" # "none"
    OBVIOUS
  <2> HIDE DEF fresh
  <2> QED BY <2>1, RequireRetraces
<1> HIDE DEF q
<1>3. Retraces(s, r, m) /\ Kept(q, s) /\ (Ok(s) => s = q /\ Ok(q))
  <2>1. few \in BOOLEAN /\ "LimitExceeded" # "none"
    OBVIOUS
  <2> HIDE DEF few
  <2> QED BY <1>2, <2>1, RequireRetraces DEF Kept
<1> HIDE DEF s
<1>4. Ok(s) => IsMemory(new) /\ StoreCanUndo(new, u) /\ StoreUndo(new, u) = s.memory
  <2> SUFFICES ASSUME Ok(s) PROVE IsMemory(new) /\ StoreCanUndo(new, u) /\ StoreUndo(new, u) = e.memory
    BY <1>2, <1>3
  <2>1. k \notin DOMAIN e.memory.counters /\ IsMemory(e.memory)
    BY <1>2, <1>3 DEF Retraces
  <2>2. PICK V : WellFormedMemory(e.memory, V)
    BY <2>1, MemoryWellFormed
  <2> QED BY <2>1, <2>2, UndoCreateCounter, CountersKeepMemory
<1> HIDE DEF new, u
<1>5. Retraces(MemoryStep(s, u, new), r, m) /\ Kept(s, MemoryStep(s, u, new))
  BY <1>3, <1>4, MemoryStepRetraces
<1> QED BY <1>1, <1>2, <1>3, <1>5, KeptTwice

LEMMA CloseScopeRetraces ==
    ASSUME NEW e, NEW r, NEW m, Retraces(e, r, m), NEW id
    PROVE  LET f == close_scope(e, id) IN Retraces(f, r, m) /\ Kept(e, f)
<1> DEFINE held == id \in DOMAIN e.memory.scopes
           q == Require(e, held, "MissingScope")
           u == RestoreClosedRegisterScope(e.memory, id)
           new == CloseScope(e.memory, id)
<1>1. Retraces(q, r, m) /\ Kept(e, q) /\ (Ok(q) => q = e /\ held)
  <2>1. held \in BOOLEAN /\ "MissingScope" # "none"
    OBVIOUS
  <2> HIDE DEF held
  <2> QED BY <2>1, RequireRetraces
<1>2. CASE ~Ok(q)
  <2>1. close_scope(e, id) = q
    BY <1>2 DEF close_scope, Then
  <2> QED BY <1>1, <2>1
<1>3. CASE Ok(q)
  <2>1. close_scope(e, id) = MemoryStep(e, u, new)
    BY <1>1, <1>3 DEF close_scope, Then
  <2>2. IsMemory(new) /\ StoreCanUndo(new, u) /\ StoreUndo(new, u) = e.memory
    <3>1. id \in DOMAIN e.memory.scopes /\ IsMemory(e.memory)
      BY <1>1, <1>3 DEF Retraces
    <3>2. PICK V : WellFormedMemory(e.memory, V)
      BY <3>1, MemoryWellFormed
    <3> QED BY <3>1, <3>2, UndoCloseScope, CloseScopeKeepsMemory
  <2> HIDE DEF new, u
  <2> QED BY <2>1, <2>2, MemoryStepRetraces
<1> QED BY <1>2, <1>3

LEMMA OpenScopeRetraces ==
    ASSUME NEW e, NEW r, NEW m, Retraces(e, r, m), NEW id
    PROVE  LET f == open_scope(e, id) IN Retraces(f, r, m) /\ Kept(e, f)
<1> DEFINE fresh == id \notin DOMAIN e.memory.scopes
           few == Cardinality(DOMAIN e.memory.scopes) < MaxScopes
           q == Require(e, fresh, "DuplicateScope")
           s == Require(q, few, "LimitExceeded")
           u == RemoveCreatedRegisterScope(id)
           new == OpenScope(e.memory, id)
<1>1. open_scope(e, id) = MemoryStep(s, u, new)
  BY DEF open_scope
<1>2. Retraces(q, r, m) /\ Kept(e, q) /\ (Ok(q) => q = e /\ fresh)
  <2>1. fresh \in BOOLEAN /\ "DuplicateScope" # "none"
    OBVIOUS
  <2> HIDE DEF fresh
  <2> QED BY <2>1, RequireRetraces
<1> HIDE DEF q
<1>3. Retraces(s, r, m) /\ Kept(q, s) /\ (Ok(s) => s = q /\ Ok(q))
  <2>1. few \in BOOLEAN /\ "LimitExceeded" # "none"
    OBVIOUS
  <2> HIDE DEF few
  <2> QED BY <1>2, <2>1, RequireRetraces DEF Kept
<1> HIDE DEF s
<1>4. Ok(s) => IsMemory(new) /\ StoreCanUndo(new, u) /\ StoreUndo(new, u) = s.memory
  <2> SUFFICES ASSUME Ok(s) PROVE IsMemory(new) /\ StoreCanUndo(new, u) /\ StoreUndo(new, u) = e.memory
    BY <1>2, <1>3
  <2>1. id \notin DOMAIN e.memory.scopes /\ IsMemory(e.memory)
    BY <1>2, <1>3 DEF Retraces
  <2>2. PICK V : WellFormedMemory(e.memory, V)
    BY <2>1, MemoryWellFormed
  <2> QED BY <2>1, <2>2, UndoOpenScope, OpenScopeKeepsMemory
<1> HIDE DEF new, u
<1>5. Retraces(MemoryStep(s, u, new), r, m) /\ Kept(s, MemoryStep(s, u, new))
  BY <1>3, <1>4, MemoryStepRetraces
<1> QED BY <1>1, <1>2, <1>3, <1>5, KeptTwice

LEMMA SetRegisterRetraces ==
    ASSUME NEW e, NEW r, NEW m, Retraces(e, r, m), NEW id, NEW register, NEW v
    PROVE  LET f == set_register(e, id, register, v) IN Retraces(f, r, m) /\ Kept(e, f)
<1> DEFINE held == id \in DOMAIN e.memory.scopes
           few == NextCount(e.memory, id, register) <= MaxRegisterValues
           q == Require(e, held, "MissingScope")
           s == Require(e, few, "LimitExceeded")
           u == RestoreRegister(e.memory, id, register)
           new == SetRegister(e.memory, id, register, v)
<1>1. Retraces(q, r, m) /\ Kept(e, q) /\ (Ok(q) => q = e /\ held)
  <2>1. held \in BOOLEAN /\ "MissingScope" # "none"
    OBVIOUS
  <2> HIDE DEF held
  <2> QED BY <2>1, RequireRetraces
<1>2. CASE ~Ok(q)
  <2>1. set_register(e, id, register, v) = q
    BY <1>2 DEF set_register, Then
  <2> QED BY <1>1, <2>1
<1>3. CASE Ok(q)
  <2>1. set_register(e, id, register, v) = MemoryStep(s, u, new)
    BY <1>1, <1>3 DEF set_register, Then
  <2>2. IsMemory(new) /\ StoreCanUndo(new, u) /\ StoreUndo(new, u) = e.memory
    <3>1. id \in DOMAIN e.memory.scopes /\ IsMemory(e.memory)
      BY <1>1, <1>3 DEF Retraces
    <3>2. PICK V : WellFormedMemory(e.memory, V)
      BY <3>1, MemoryWellFormed
    <3> QED BY <3>1, <3>2, UndoSetRegister, SetRegisterKeepsMemory
  <2>3. Retraces(s, r, m) /\ Kept(e, s) /\ s.memory = e.memory
    <3>1. few \in BOOLEAN /\ "LimitExceeded" # "none"
      OBVIOUS
    <3> HIDE DEF few
    <3> QED BY <3>1, RequireRetraces
  <2> HIDE DEF new, u, s
  <2>4. Retraces(MemoryStep(s, u, new), r, m) /\ Kept(s, MemoryStep(s, u, new))
    BY <2>2, <2>3, MemoryStepRetraces
  <2> QED BY <2>1, <2>3, <2>4, KeptTwice
<1> QED BY <1>2, <1>3

(* The comparisons counted are no part of what is taken back.                 *)
Counting(e, c) == [e EXCEPT !.scratch.checks = c]

LEMMA CountingRetraces ==
    ASSUME NEW e, NEW r, NEW m, Retraces(e, r, m), NEW c
    PROVE  LET f == Counting(e, c)
           IN  Retraces(f, r, m) /\ f.router = e.router /\ f.memory = e.memory /\ f.error = e.error
<1> DEFINE s == [e.scratch EXCEPT !.checks = c]
<1>1. Counting(e, c) = [e EXCEPT !.scratch = s]
  BY DEF Counting
<1> HIDE DEF s
<1>2. ASSUME NEW f, f = [e EXCEPT !.scratch = s]
      PROVE  f = [router |-> e.router, memory |-> e.memory, routerUndo |-> e.routerUndo,
                  semanticUndo |-> e.semanticUndo, scratch |-> s, error |-> e.error]
  BY <1>2 DEF Retraces, IsEffect
<1>3. ASSUME NEW f, f = [router |-> e.router, memory |-> e.memory, routerUndo |-> e.routerUndo,
                         semanticUndo |-> e.semanticUndo, scratch |-> s, error |-> e.error]
      PROVE  Retraces(f, r, m) /\ f.router = e.router /\ f.memory = e.memory /\ f.error = e.error
  <2>1. IsEffect(f)
    BY <1>3 DEF IsEffect
  <2> QED BY <1>3, <2>1 DEF Retraces
<1> QED BY <1>1, <1>2, <1>3

LEMMA CountChecksRetraces ==
    ASSUME NEW e, NEW r, NEW m, Retraces(e, r, m), NEW bucket, NEW v
    PROVE  LET f == CountChecks(e, bucket, v)
           IN  Retraces(f, r, m) /\ Kept(e, f) /\ f.memory = e.memory
<1> DEFINE limit == e.scratch.limit
           total == e.scratch.checks + Compared(bucket, v)
           stop == The(limit) + 1
           f == CountChecks(e, bucket, v)
<1>1. \/ f = Fail(Counting(e, stop), "LimitExceeded")
      \/ f = e
      \/ f = Counting(e, total)
  BY DEF CountChecks, Counting
<1> SUFFICES Retraces(f, r, m) /\ Kept(e, f) /\ f.memory = e.memory
  OBVIOUS
<1> HIDE DEF f, stop, total
<1>2. CASE f = Fail(Counting(e, stop), "LimitExceeded")
  <2>1. /\ Retraces(Counting(e, stop), r, m) /\ Counting(e, stop).router = e.router
        /\ Counting(e, stop).memory = e.memory
    BY CountingRetraces
  <2> DEFINE g == Counting(e, stop)
  <2> HIDE DEF g
  <2>2. /\ Retraces(Fail(g, "LimitExceeded"), r, m) /\ Fail(g, "LimitExceeded").router = g.router
        /\ Fail(g, "LimitExceeded").memory = g.memory
        /\ Fail(g, "LimitExceeded").error = "LimitExceeded"
    BY <2>1, FailRetraces DEF g
  <2> QED BY <1>2, <2>1, <2>2 DEF g, Kept, Ok
<1>3. CASE f = e
  BY <1>3 DEF Kept
<1>4. CASE f = Counting(e, total)
  BY <1>4, CountingRetraces DEF Kept, Ok
<1> QED BY <1>1, <1>2, <1>3, <1>4

LEMMA SealUniqueRetraces ==
    ASSUME NEW e, NEW r, NEW m, Retraces(e, r, m), NEW k, NEW v
    PROVE  LET f == seal_unique_item(e, k, v) IN Retraces(f, r, m) /\ Kept(e, f)
<1> DEFINE held == k \in DOMAIN e.memory.histories
           q == Require(e, held, "MissingHistory")
           h == e.memory.histories[k]
           l == CountChecks(e, Bucket(h, v), v)
           new == ~Holds(h, v)
           few == e.memory.item_count < MaxHistoryItems
           short == Len(Bucket(h, v)) < MaxBucketEntries
           a == Require(l, new, "DuplicateArrayItem")
           b == Require(a, few, "LimitExceeded")
           c == Require(b, short, "LimitExceeded")
           u == RestoreBucket(e.memory, k, v)
           grown == Insert(e.memory, k, v)
           f == seal_unique_item(e, k, v)
<1>1. Retraces(q, r, m) /\ Kept(e, q) /\ (Ok(q) => q = e /\ held)
  <2>1. held \in BOOLEAN /\ "MissingHistory" # "none"
    OBVIOUS
  <2> HIDE DEF held
  <2> QED BY <2>1, RequireRetraces
<1>2. CASE ~Ok(q)
  <2>1. f = q
    BY <1>2 DEF seal_unique_item, Then
  <2> QED BY <1>1, <2>1
<1>3. CASE Ok(q)
  <2>1. Retraces(l, r, m) /\ Kept(e, l) /\ l.memory = e.memory
    BY CountChecksRetraces
  <2>2. CASE ~Ok(l)
    <3>1. f = l
      BY <1>1, <1>3, <2>2 DEF seal_unique_item, Then
    <3> QED BY <2>1, <3>1
  <2>3. CASE Ok(l)
    <3>1. f = MemoryStep(c, u, grown)
      BY <1>1, <1>3, <2>1, <2>3, Zenon DEF seal_unique_item, Then
    <3>2. IsMemory(grown) /\ StoreCanUndo(grown, u) /\ StoreUndo(grown, u) = e.memory
      <4>1. k \in DOMAIN e.memory.histories /\ IsMemory(e.memory)
        BY <1>1, <1>3 DEF Retraces
      <4>2. PICK V : WellFormedMemory(e.memory, V)
        BY <4>1, MemoryWellFormed
      <4>3. WellFormedMemory(e.memory, V \union {v})
        <5>1. \A s : s \in Seq(V) => s \in Seq(V \union {v})
          OBVIOUS
        <5> QED BY <4>2, <5>1 DEF WellFormedMemory, WellFormedHistory
      <4> QED BY <4>1, <4>3, UndoInsert, InsertKeepsMemory
    <3> HIDE DEF l, u, grown
    <3>3. Retraces(a, r, m) /\ Kept(l, a) /\ a.memory = l.memory
      <4>1. new \in BOOLEAN /\ "DuplicateArrayItem" # "none"
        OBVIOUS
      <4> HIDE DEF new
      <4> QED BY <2>1, <4>1, RequireRetraces
    <3> HIDE DEF a
    <3>4. Retraces(b, r, m) /\ Kept(a, b) /\ b.memory = a.memory
      <4>1. few \in BOOLEAN /\ "LimitExceeded" # "none"
        OBVIOUS
      <4> HIDE DEF few
      <4> QED BY <3>3, <4>1, RequireRetraces
    <3> HIDE DEF b
    <3>5. Retraces(c, r, m) /\ Kept(b, c) /\ c.memory = b.memory
      <4>1. short \in BOOLEAN /\ "LimitExceeded" # "none"
        OBVIOUS
      <4> HIDE DEF short
      <4> QED BY <3>4, <4>1, RequireRetraces
    <3> HIDE DEF c
    <3>6. c.memory = e.memory /\ Kept(e, c)
      BY <2>1, <3>3, <3>4, <3>5 DEF Kept
    <3>7. Retraces(MemoryStep(c, u, grown), r, m) /\ Kept(c, MemoryStep(c, u, grown))
      BY <3>2, <3>5, <3>6, MemoryStepRetraces
    <3> QED BY <3>1, <3>6, <3>7, KeptTwice
  <2> QED BY <2>2, <2>3
<1> QED BY <1>2, <1>3

-------------------------------------------------------------------------------
(* What is done for an item and for a sealed property.                       *)

LEMMA SealContainsRetraces ==
    ASSUME NEW e, NEW r, NEW m, Retraces(e, r, m), NEW k, NEW v, NEW c, NEW max
    PROVE  LET f == seal_contains_item(e, k, v, c, max) IN Retraces(f, r, m) /\ Kept(e, f)
<1> DEFINE outcome == validate_predicate(schema, c.predicate, v, Limits[root])
           matched == IF outcome.valid THEN 1 ELSE 0
           within == ~outcome.limited
           held == k \in DOMAIN e.memory.counters
           a == Require(e, within, "LimitExceeded")
           b == Require(a, held, "MissingCounter")
           u == RestoreCounter(e.memory, k)
           new == UpdateCounter(e.memory, k, matched)
           d == Then(b, LAMBDA l :
                    MemoryStep(l, RestoreCounter(l.memory, k), UpdateCounter(l.memory, k, matched)))
           count == d.memory.counters[k]
           under == ~Exceeds(count, c.upper)
           hopeful == ~Unreachable(count, c, max)
           g == Require(d, under, "ContainsMaximumExceeded")
           f == seal_contains_item(e, k, v, c, max)
<1>1. Retraces(a, r, m) /\ Kept(e, a) /\ a.memory = e.memory
  <2>1. within \in BOOLEAN /\ "LimitExceeded" # "none"
    OBVIOUS
  <2> HIDE DEF within
  <2> QED BY <2>1, RequireRetraces
<1>2. f = IF Ok(d) THEN Require(g, hopeful, "ContainsMinimumUnreachable") ELSE d
  <2> HIDE DEF outcome
  <2> QED BY DEF seal_contains_item, Then, outcome
<1> SUFFICES Retraces(f, r, m) /\ Kept(e, f)
  OBVIOUS
<1> HIDE DEF f, a, matched
<1>3. Retraces(b, r, m) /\ Kept(a, b) /\ (Ok(b) => b = a /\ held)
  <2>1. held \in BOOLEAN /\ "MissingCounter" # "none"
    OBVIOUS
  <2> HIDE DEF held
  <2> QED BY <1>1, <2>1, RequireRetraces
<1> HIDE DEF b
<1>4. Retraces(d, r, m) /\ Kept(b, d)
  <2>1. CASE ~Ok(b)
    <3>1. d = b
      BY <2>1 DEF Then
    <3> QED BY <1>3, <3>1, KeptSelf
  <2>2. CASE Ok(b)
    <3>1. d = MemoryStep(b, u, new)
      BY <1>1, <1>3, <2>2 DEF Then
    <3>2. IsMemory(new) /\ StoreCanUndo(new, u) /\ StoreUndo(new, u) = b.memory
      <4>1. k \in DOMAIN e.memory.counters /\ IsMemory(e.memory) /\ b.memory = e.memory
        BY <1>1, <1>3, <2>2 DEF Retraces
      <4>2. PICK V : WellFormedMemory(e.memory, V)
        BY <4>1, MemoryWellFormed
      <4> QED BY <4>1, <4>2, UndoUpdateCounter, CountersKeepMemory
    <3> HIDE DEF u, new, d
    <3> QED BY <1>3, <3>1, <3>2, MemoryStepRetraces
  <2> QED BY <2>1, <2>2
<1> HIDE DEF d
<1>5. Retraces(g, r, m) /\ Kept(d, g)
  <2>1. under \in BOOLEAN /\ "ContainsMaximumExceeded" # "none"
    OBVIOUS
  <2> HIDE DEF under
  <2> QED BY <1>4, <2>1, RequireRetraces
<1> HIDE DEF g
<1>6. /\ Retraces(Require(g, hopeful, "ContainsMinimumUnreachable"), r, m)
      /\ Kept(g, Require(g, hopeful, "ContainsMinimumUnreachable"))
  <2>1. hopeful \in BOOLEAN /\ "ContainsMinimumUnreachable" # "none"
    OBVIOUS
  <2> HIDE DEF hopeful
  <2> QED BY <1>5, <2>1, RequireRetraces
<1>7. Kept(e, d) /\ Kept(e, Require(g, hopeful, "ContainsMinimumUnreachable"))
  BY <1>1, <1>3, <1>4, <1>5, <1>6 DEF Kept
<1> QED BY <1>2, <1>4, <1>6, <1>7

LEMMA CloseContainsRetraces ==
    ASSUME NEW e, NEW r, NEW m, Retraces(e, r, m), NEW k, NEW c
    PROVE  LET f == close_contains(e, k, c) IN Retraces(f, r, m) /\ Kept(e, f)
<1> DEFINE held == k \in DOMAIN e.memory.counters
           q == Require(e, held, "MissingCounter")
           count == e.memory.counters[k]
           enough == count.matched >= c.lower
           under == ~Exceeds(count, c.upper)
           a == Require(e, enough, "ContainsMinimumNotMet")
           b == Require(a, under, "ContainsMaximumExceeded")
           u == RestoreClosedCounter(e.memory, k)
           new == CloseCounter(e.memory, k)
           f == close_contains(e, k, c)
<1>1. Retraces(q, r, m) /\ Kept(e, q) /\ (Ok(q) => q = e /\ held)
  <2>1. held \in BOOLEAN /\ "MissingCounter" # "none"
    OBVIOUS
  <2> HIDE DEF held
  <2> QED BY <2>1, RequireRetraces
<1>2. CASE ~Ok(q)
  <2>1. f = q
    BY <1>2 DEF close_contains, Then
  <2> QED BY <1>1, <2>1
<1>3. CASE Ok(q)
  <2>1. f = MemoryStep(b, u, new)
    BY <1>1, <1>3 DEF close_contains, Then
  <2>2. IsMemory(new) /\ StoreCanUndo(new, u) /\ StoreUndo(new, u) = e.memory
    <3>1. k \in DOMAIN e.memory.counters /\ IsMemory(e.memory)
      BY <1>1, <1>3 DEF Retraces
    <3>2. PICK V : WellFormedMemory(e.memory, V)
      BY <3>1, MemoryWellFormed
    <3> QED BY <3>1, <3>2, UndoCloseCounter, CountersKeepMemory
  <2>3. Retraces(a, r, m) /\ Kept(e, a) /\ a.memory = e.memory
    <3>1. enough \in BOOLEAN /\ "ContainsMinimumNotMet" # "none"
      OBVIOUS
    <3> HIDE DEF enough
    <3> QED BY <3>1, RequireRetraces
  <2> HIDE DEF new, u, a
  <2>4. Retraces(b, r, m) /\ Kept(a, b) /\ b.memory = a.memory
    <3>1. under \in BOOLEAN /\ "ContainsMaximumExceeded" # "none"
      OBVIOUS
    <3> HIDE DEF under
    <3> QED BY <2>3, <3>1, RequireRetraces
  <2> HIDE DEF b
  <2>5. Retraces(MemoryStep(b, u, new), r, m) /\ Kept(b, MemoryStep(b, u, new))
    BY <2>2, <2>3, <2>4, MemoryStepRetraces
  <2>6. Kept(e, b)
    BY <2>3, <2>4, KeptTwice
  <2> QED BY <2>1, <2>5, <2>6, KeptTwice
<1> QED BY <1>2, <1>3

(* The actions of a property that an extension plan gives.                    *)
AreRelations(many) == IsSeq(many) /\ \A i \in 1..Len(many) : many[i].operator \in Operators

LEMMA EvaluateRetraces ==
    ASSUME NEW e, NEW r, NEW m, Retraces(e, r, m), NEW relation, relation.operator \in Operators,
           NEW id, NEW v
    PROVE  LET f == evaluate(e, relation, id, v) IN Retraces(f, r, m) /\ Kept(e, f)
<1> DEFINE f == evaluate(e, relation, id, v)
           capture == Captured(e, id, relation.source)
           has == capture # {}
           set == Imports[relation.source]
           is == v \in capture
           isnt == v \notin capture
           in == v \in set
           out == v \notin set
           known == Require(e, has, "MissingCapture")
<1> SUFFICES Retraces(f, r, m) /\ Kept(e, f)
  OBVIOUS
<1>1. \/ f = Require(known, is, "EqualityMismatch")
      \/ f = Require(known, isnt, "InequalityMismatch")
      \/ f = Require(e, in, "ImportedMemberRequired")
      \/ f = Require(e, out, "ImportedMemberForbidden")
  <2> HIDE DEF capture, set
  <2> QED BY DEF evaluate, Operators, capture, set
<1> HIDE DEF f
<1>2. Retraces(known, r, m) /\ Kept(e, known)
  <2>1. has \in BOOLEAN /\ "MissingCapture" # "none"
    OBVIOUS
  <2> HIDE DEF has
  <2> QED BY <2>1, RequireRetraces
<1>3. /\ is \in BOOLEAN /\ isnt \in BOOLEAN /\ in \in BOOLEAN /\ out \in BOOLEAN
      /\ "EqualityMismatch" # "none" /\ "InequalityMismatch" # "none"
      /\ "ImportedMemberRequired" # "none" /\ "ImportedMemberForbidden" # "none"
  OBVIOUS
<1> HIDE DEF is, isnt, in, out, known
<1>4. ASSUME f = Require(known, is, "EqualityMismatch") \/ f = Require(known, isnt, "InequalityMismatch")
      PROVE  Retraces(f, r, m) /\ Kept(known, f)
  BY <1>2, <1>3, <1>4, RequireRetraces
<1>5. ASSUME f = Require(e, in, "ImportedMemberRequired") \/ f = Require(e, out, "ImportedMemberForbidden")
      PROVE  Retraces(f, r, m) /\ Kept(e, f)
  BY <1>3, <1>5, RequireRetraces
<1> QED BY <1>1, <1>2, <1>4, <1>5, KeptTwice

Evaluating == INSTANCE Folding WITH Op <- Evaluated
Registering == INSTANCE Folding WITH Op <- Registered

LEMMA RelatingStages ==
    ASSUME NEW e, NEW many, IsSeq(many), NEW id, NEW v
    PROVE  LET asked == Asked(many, id, v)
               Stage(n) == Evaluating!Left(e, Evaluating!Truncate(asked, n))
           IN  /\ Stage(0) = e
               /\ \A n \in Nat : n + 1 <= Len(many) => Stage(n + 1) = Evaluated(Stage(n), asked[n + 1])
               /\ Stage(Len(many)) = Relating(e, many, id, v)
<1> DEFINE asked == Asked(many, id, v)
<1>1. IsSeq(asked) /\ Len(asked) = Len(many)
  <2>1. Len(many) \in Nat /\ DOMAIN many = 1..Len(many)
    BY IsSeqLen
  <2>2. asked = [i \in 1..Len(many) |-> asked[i]]
    BY <2>1 DEF Asked
  <2> HIDE DEF asked
  <2> QED BY <2>1, <2>2, FunctionIsSeq
<1>2. Relating(e, many, id, v) = Evaluating!Left(e, asked)
  BY DEF Relating, FoldLeft, MapThenFoldSet, Max, Evaluating!Left, Evaluating!FoldLeft,
         Evaluating!MapThenFoldSet, Evaluating!Max
<1>3. Evaluating!IsSeq(asked)
  BY <1>1 DEF IsSeq, Evaluating!IsSeq, ToSet, Evaluating!ToSet
<1> HIDE DEF asked
<1>4. /\ Evaluating!Left(e, Evaluating!Truncate(asked, 0)) = e
      /\ \A n \in Nat : n + 1 <= Len(asked) =>
             Evaluating!Left(e, Evaluating!Truncate(asked, n + 1))
               = Evaluated(Evaluating!Left(e, Evaluating!Truncate(asked, n)), asked[n + 1])
      /\ Evaluating!Truncate(asked, Len(asked)) = asked
  BY <1>3, Evaluating!LeftStages, Zenon
<1> QED BY <1>1, <1>2, <1>4 DEF asked

LEMMA RegisteringStages ==
    ASSUME NEW e, NEW many, IsSeq(many), NEW id, NEW v
    PROVE  LET asked == Asked(many, id, v)
               Stage(n) == Registering!Left(e, Registering!Truncate(asked, n))
           IN  /\ Stage(0) = e
               /\ \A n \in Nat : n + 1 <= Len(many) => Stage(n + 1) = Registered(Stage(n), asked[n + 1])
               /\ Stage(Len(many)) = Capturing(e, many, id, v)
<1> DEFINE asked == Asked(many, id, v)
<1>1. IsSeq(asked) /\ Len(asked) = Len(many)
  <2>1. Len(many) \in Nat /\ DOMAIN many = 1..Len(many)
    BY IsSeqLen
  <2>2. asked = [i \in 1..Len(many) |-> asked[i]]
    BY <2>1 DEF Asked
  <2> HIDE DEF asked
  <2> QED BY <2>1, <2>2, FunctionIsSeq
<1>2. Capturing(e, many, id, v) = Registering!Left(e, asked)
  BY DEF Capturing, FoldLeft, MapThenFoldSet, Max, Registering!Left, Registering!FoldLeft,
         Registering!MapThenFoldSet, Registering!Max
<1>3. Registering!IsSeq(asked)
  BY <1>1 DEF IsSeq, Registering!IsSeq, ToSet, Registering!ToSet
<1> HIDE DEF asked
<1>4. /\ Registering!Left(e, Registering!Truncate(asked, 0)) = e
      /\ \A n \in Nat : n + 1 <= Len(asked) =>
             Registering!Left(e, Registering!Truncate(asked, n + 1))
               = Registered(Registering!Left(e, Registering!Truncate(asked, n)), asked[n + 1])
      /\ Registering!Truncate(asked, Len(asked)) = asked
  BY <1>3, Registering!LeftStages, Zenon
<1> QED BY <1>1, <1>2, <1>4 DEF asked

LEMMA RelatingRetraces ==
    ASSUME NEW e, NEW r, NEW m, Retraces(e, r, m), NEW many, AreRelations(many), NEW id, NEW v
    PROVE  LET f == Relating(e, many, id, v) IN Retraces(f, r, m) /\ Kept(e, f)
<1> DEFINE asked == Asked(many, id, v)
           Stage(n) == Evaluating!Left(e, Evaluating!Truncate(asked, n))
           Good(n) == Retraces(Stage(n), r, m) /\ Kept(e, Stage(n))
           S == { n \in Nat : n <= Len(many) => Good(n) }
<1>1. /\ Stage(0) = e
      /\ \A n \in Nat : n + 1 <= Len(many) => Stage(n + 1) = Evaluated(Stage(n), asked[n + 1])
      /\ Stage(Len(many)) = Relating(e, many, id, v)
  BY RelatingStages DEF AreRelations
<1>2. Len(many) \in Nat /\ \A n \in 1..Len(many) :
          asked[n] = [of |-> many[n], frame |-> id, value |-> v]
  BY IsSeqLen DEF Asked, AreRelations
<1> HIDE DEF Stage, asked
<1>3. 0 \in S
  BY <1>1, KeptSelf
<1>4. ASSUME NEW n \in Nat, n \in S PROVE n + 1 \in S
  <2> SUFFICES ASSUME n + 1 <= Len(many) PROVE Good(n + 1)
    OBVIOUS
  <2> DEFINE b == Stage(n)
             f == Stage(n + 1)
  <2>1. Retraces(b, r, m) /\ Kept(e, b)
    BY <1>2, <1>4
  <2>2. n + 1 \in 1..Len(many) /\ many[n + 1].operator \in Operators
    BY <1>2 DEF AreRelations
  <2>3. f = IF Ok(b) THEN evaluate(b, many[n + 1], id, v) ELSE b
    <3>1. asked[n + 1] = [of |-> many[n + 1], frame |-> id, value |-> v]
      BY <1>2, <2>2
    <3> QED BY <1>1, <3>1 DEF Evaluated, Then
  <2>4. Retraces(evaluate(b, many[n + 1], id, v), r, m) /\ Kept(b, evaluate(b, many[n + 1], id, v))
    <3> DEFINE relation == many[n + 1]
    <3> HIDE DEF relation, b
    <3> QED BY <2>1, <2>2, EvaluateRetraces DEF relation
  <2> HIDE DEF b, f
  <2>5. Retraces(f, r, m) /\ Kept(e, f)
    BY <2>1, <2>3, <2>4, KeptTwice
  <2> QED BY <2>5 DEF f
<1>5. Nat \subseteq S
  <2> HIDE DEF S
  <2> QED BY <1>3, <1>4, Induct
<1>6. Good(Len(many))
  BY <1>2, <1>5
<1> QED BY <1>1, <1>6

LEMMA CapturingRetraces ==
    ASSUME NEW e, NEW r, NEW m, Retraces(e, r, m), NEW many, IsSeq(many), NEW id, NEW v
    PROVE  LET f == Capturing(e, many, id, v) IN Retraces(f, r, m) /\ Kept(e, f)
<1> DEFINE asked == Asked(many, id, v)
           Stage(n) == Registering!Left(e, Registering!Truncate(asked, n))
           Good(n) == Retraces(Stage(n), r, m) /\ Kept(e, Stage(n))
           S == { n \in Nat : n <= Len(many) => Good(n) }
<1>1. /\ Stage(0) = e
      /\ \A n \in Nat : n + 1 <= Len(many) => Stage(n + 1) = Registered(Stage(n), asked[n + 1])
      /\ Stage(Len(many)) = Capturing(e, many, id, v)
  BY RegisteringStages
<1>2. Len(many) \in Nat /\ \A n \in 1..Len(many) :
          asked[n] = [of |-> many[n], frame |-> id, value |-> v]
  BY IsSeqLen DEF Asked
<1> HIDE DEF Stage, asked
<1>3. 0 \in S
  BY <1>1, KeptSelf
<1>4. ASSUME NEW n \in Nat, n \in S PROVE n + 1 \in S
  <2> SUFFICES ASSUME n + 1 <= Len(many) PROVE Good(n + 1)
    OBVIOUS
  <2> DEFINE b == Stage(n)
             f == Stage(n + 1)
  <2>1. Retraces(b, r, m) /\ Kept(e, b)
    BY <1>2, <1>4
  <2>3. f = IF Ok(b) THEN set_register(b, id, many[n + 1], v) ELSE b
    <3>1. asked[n + 1] = [of |-> many[n + 1], frame |-> id, value |-> v]
      BY <1>2
    <3> QED BY <1>1, <3>1 DEF Registered, Then
  <2>4. /\ Retraces(set_register(b, id, many[n + 1], v), r, m)
        /\ Kept(b, set_register(b, id, many[n + 1], v))
    <3> DEFINE register == many[n + 1]
    <3> HIDE DEF register, b
    <3> QED BY <2>1, SetRegisterRetraces DEF register
  <2> HIDE DEF b, f
  <2>5. Retraces(f, r, m) /\ Kept(e, f)
    BY <2>1, <2>3, <2>4, KeptTwice
  <2> QED BY <2>5 DEF f
<1>5. Nat \subseteq S
  <2> HIDE DEF S
  <2> QED BY <1>3, <1>4, Induct
<1>6. Good(Len(many))
  BY <1>2, <1>5
<1> QED BY <1>1, <1>6

-------------------------------------------------------------------------------
(* The handlers of the events.                                              *)

LEMMA ArrayStartedRetraces ==
    ASSUME NEW e, NEW r, NEW m, Retraces(e, r, m), NEW id
    PROVE  LET f == ArrayStarted(e, id)
               node == e.router.pending
           IN  /\ Retraces(f, r, m)
               /\ Ok(f) =>
                    /\ Ok(e) /\ schema[node].kind = "array"
                    /\ f.router = Router(Append(e.router.stack, RuntimeArray(id, node)),
                                         schema[node].items, e.router.complete)
<1> DEFINE node == e.router.pending
           k == Key(id, node)
           o == open_array(e, id)
           created == IF Unique(node) THEN create_history(o, k) ELSE o
           counted == IF ContainsOf(node) = {} THEN created
                      ELSE Then(created, LAMBDA l : create_counter(l, k))
           f == ArrayStarted(e, id)
           new == Router(Append(e.router.stack, RuntimeArray(id, node)), schema[node].items,
                         e.router.complete)
<1>1. f = IF Ok(o) THEN counted ELSE o
  BY DEF ArrayStarted, Then
<1>2. Retraces(o, r, m) /\ (Ok(o) => Ok(e) /\ schema[node].kind = "array" /\ o.router = new)
  BY OpenArray
<1> SUFFICES Retraces(f, r, m) /\ (Ok(f) => Ok(e) /\ schema[node].kind = "array" /\ f.router = new)
  OBVIOUS
<1> HIDE DEF f, o, new
<1>3. Retraces(created, r, m) /\ Kept(o, created)
  <2> HIDE DEF k
  <2> QED BY <1>2, CreateHistoryRetraces, KeptSelf
<1> HIDE DEF created
<1>4. Retraces(counted, r, m) /\ Kept(created, counted)
  <2> HIDE DEF k
  <2>1. Retraces(create_counter(created, k), r, m) /\ Kept(created, create_counter(created, k))
    BY <1>3, CreateCounterRetraces
  <2> QED BY <1>3, <2>1, KeptSelf DEF Then
<1> HIDE DEF counted, k
<1> QED BY <1>1, <1>2, <1>3, <1>4 DEF Kept

LEMMA ObjectStartedRetraces ==
    ASSUME NEW e, NEW r, NEW m, Retraces(e, r, m), NEW id
    PROVE  LET f == ObjectStarted(e, id)
               node == e.router.pending
           IN  /\ Retraces(f, r, m)
               /\ Ok(f) =>
                    /\ Ok(e) /\ schema[node].kind = "object"
                    /\ f.router = Router(Append(e.router.stack, RuntimeObject(id, node)),
                                         node, e.router.complete)
<1> DEFINE node == e.router.pending
           o == open_object(e, id)
           f == ObjectStarted(e, id)
           opened == IF Extended(node) THEN open_scope(o, id) ELSE o
           new == Router(Append(e.router.stack, RuntimeObject(id, node)), node,
                         e.router.complete)
<1>1. f = IF Ok(o) THEN opened ELSE o
  BY DEF ObjectStarted, Then
<1>2. Retraces(o, r, m) /\ (Ok(o) => Ok(e) /\ schema[node].kind = "object" /\ o.router = new)
  BY OpenObject
<1> SUFFICES Retraces(f, r, m) /\ (Ok(f) => Ok(e) /\ schema[node].kind = "object" /\ f.router = new)
  OBVIOUS
<1> HIDE DEF f, o, new
<1>3. Retraces(opened, r, m) /\ Kept(o, opened)
  BY <1>2, OpenScopeRetraces, KeptSelf
<1> HIDE DEF opened
<1> QED BY <1>1, <1>2, <1>3 DEF Kept

LEMMA ItemSealedRetraces ==
    ASSUME NEW e, NEW r, NEW m, Retraces(e, r, m), NEW id, NEW v
    PROVE  LET f == ItemSealed(e, id, v)
               i == Position(e.router, id)
           IN  /\ Retraces(f, r, m)
               /\ Ok(f) =>
                    /\ Ok(e) /\ i # 0 /\ e.router.stack[i].kind = "array"
                    /\ f.router = Router(e.router.stack, e.router.stack[i].item,
                                         e.router.complete)
<1> DEFINE found == RequireFrame(e, id, "array")
           i == Position(e.router, id)
           node == Frame(e.router, id).node
           k == Key(id, node)
           unique == IF Unique(node) THEN seal_unique_item(e, k, v) ELSE e
           counted == IF ContainsOf(node) = {} THEN unique
                      ELSE Then(unique, LAMBDA u :
                          seal_contains_item(u, k, v, The(ContainsOf(node)), schema[node].max))
           done == complete_array_item(counted, id)
           f == ItemSealed(e, id, v)
           new == Router(e.router.stack, e.router.stack[i].item, e.router.complete)
<1>1. Retraces(found, r, m) /\ (Ok(found) => found = e /\ Ok(e) /\ i # 0 /\ e.router.stack[i].kind = "array")
  BY RequireFrameRetraces DEF Kept, Frame
<1>2. CASE ~Ok(found)
  <2>1. f = found
    BY <1>2 DEF ItemSealed, Then
  <2> QED BY <1>1, <1>2, <2>1
<1>3. CASE Ok(found)
  <2>1. f = IF Ok(counted) THEN done ELSE counted
    BY <1>1, <1>3 DEF ItemSealed, Then
  <2> SUFFICES Retraces(f, r, m) /\ (Ok(f) => Ok(e) /\ i # 0 /\ e.router.stack[i].kind = "array" /\ f.router = new)
    OBVIOUS
  <2> HIDE DEF f
  <2>2. Retraces(unique, r, m) /\ Kept(e, unique)
    <3> HIDE DEF k
    <3> QED BY SealUniqueRetraces, KeptSelf
  <2> HIDE DEF unique
  <2>3. Retraces(counted, r, m) /\ Kept(unique, counted)
    <3> DEFINE c == The(ContainsOf(node))
               max == schema[node].max
    <3>1. counted = IF ContainsOf(node) = {} \/ ~Ok(unique) THEN unique
                    ELSE seal_contains_item(unique, k, v, c, max)
      BY DEF Then
    <3> HIDE DEF k, c, max, counted
    <3>2. /\ Retraces(seal_contains_item(unique, k, v, c, max), r, m)
          /\ Kept(unique, seal_contains_item(unique, k, v, c, max))
      BY <2>2, SealContainsRetraces
    <3> QED BY <2>2, <3>1, <3>2, KeptSelf
  <2> HIDE DEF counted
  <2>4. counted.router = e.router
    BY <2>2, <2>3 DEF Kept
  <2>5. Retraces(done, r, m) /\ (Ok(done) => done.router = new)
    <3>1. LET j == Position(counted.router, id)
          IN  /\ Retraces(done, r, m)
              /\ Ok(done) => done.router = Router(counted.router.stack, counted.router.stack[j].item,
                                                  counted.router.complete)
      BY <2>3, CompleteArrayItem
    <3> QED BY <2>4, <3>1
  <2> HIDE DEF done, new
  <2> QED BY <1>1, <1>3, <2>1, <2>3, <2>5
<1> QED BY <1>2, <1>3

(* What an extension plan gives a property to do.                            *)
AreActions(actions) == IsSeq(actions.captures) /\ AreRelations(actions.relations)

LEMMA ActRetraces ==
    ASSUME NEW e, NEW r, NEW m, Retraces(e, r, m), NEW actions, AreActions(actions), NEW id, NEW v
    PROVE  LET f == Act(e, actions, id, v) IN Retraces(f, r, m) /\ Kept(e, f)
<1> DEFINE related == Relating(e, actions.relations, id, v)
           f == Capturing(related, actions.captures, id, v)
<1>1. Act(e, actions, id, v) = f
  BY DEF Act
<1>2. Retraces(related, r, m) /\ Kept(e, related)
  <2> DEFINE many == actions.relations
  <2>1. AreRelations(many)
    BY DEF AreActions
  <2> HIDE DEF many
  <2> QED BY <2>1, RelatingRetraces DEF many
<1> HIDE DEF related
<1>3. Retraces(f, r, m) /\ Kept(related, f)
  <2> DEFINE many == actions.captures
  <2>1. IsSeq(many)
    BY DEF AreActions
  <2> HIDE DEF many
  <2>2. LET g == Capturing(related, many, id, v) IN Retraces(g, r, m) /\ Kept(related, g)
    BY <1>2, <2>1, CapturingRetraces
  <2> QED BY <2>2 DEF many
<1> QED BY <1>1, <1>2, <1>3, KeptTwice

LEMMA PropertyValueSealedRetraces ==
    ASSUME NEW e, NEW r, NEW m, Retraces(e, r, m), NEW id, NEW key, NEW v,
           Position(e.router, id) # 0 /\ Frame(e.router, id).kind = "object" =>
               \A actions \in ActionsOf(Frame(e.router, id).node, key) : AreActions(actions)
    PROVE  LET f == PropertyValueSealed(e, id, key, v)
               i == Position(e.router, id)
           IN  /\ Retraces(f, r, m)
               /\ Ok(f) =>
                    /\ Ok(e) /\ i # 0 /\ e.router.stack[i].kind = "object"
                    /\ f.router = Told(e.router, i, {}, e.router.stack[i].node)
<1> DEFINE found == RequireFrame(e, id, "object")
           i == Position(e.router, id)
           node == Frame(e.router, id).node
           known == ActionsOf(node, key)
           acted == IF known = {} THEN e ELSE Act(e, The(known), id, v)
           done == complete_property(acted, id)
           f == PropertyValueSealed(e, id, key, v)
           new == Told(e.router, i, {}, e.router.stack[i].node)
<1>1. Retraces(found, r, m) /\ (Ok(found) => found = e /\ Ok(e) /\ i # 0 /\ e.router.stack[i].kind = "object")
  BY RequireFrameRetraces DEF Kept, Frame
<1>2. CASE ~Ok(found)
  <2>1. f = found
    BY <1>2 DEF PropertyValueSealed, Then
  <2> QED BY <1>1, <1>2, <2>1
<1>3. CASE Ok(found)
  <2>1. f = IF Ok(acted) THEN done ELSE acted
    BY <1>1, <1>3 DEF PropertyValueSealed, Then
  <2>2. \A actions \in known : AreActions(actions)
    BY <1>1, <1>3 DEF Frame
  <2> SUFFICES Retraces(f, r, m) /\ (Ok(f) => Ok(e) /\ i # 0 /\ e.router.stack[i].kind = "object" /\ f.router = new)
    OBVIOUS
  <2> HIDE DEF f
  <2>3. Retraces(acted, r, m) /\ Kept(e, acted)
    <3> HIDE DEF known
    <3>1. CASE known = {}
      BY <3>1, KeptSelf
    <3>2. CASE known # {}
      <4>1. The(known) \in known
        BY <3>2 DEF The
      <4>2. AreActions(The(known))
        BY <2>2, <4>1
      <4> DEFINE actions == The(known)
      <4> HIDE DEF actions
      <4>3. LET g == Act(e, actions, id, v) IN Retraces(g, r, m) /\ Kept(e, g)
        BY <4>2, ActRetraces DEF actions
      <4> QED BY <3>2, <4>3 DEF actions
    <3> QED BY <3>1, <3>2
  <2> HIDE DEF acted
  <2>4. acted.router = e.router
    BY <2>3 DEF Kept
  <2>5. Retraces(done, r, m) /\ (Ok(done) => done.router = new)
    <3>1. LET j == Position(acted.router, id)
          IN  /\ Retraces(done, r, m)
              /\ Ok(done) => done.router = Told(acted.router, j, {}, acted.router.stack[j].node)
      BY <2>3, CompleteProperty
    <3> QED BY <2>4, <3>1
  <2> HIDE DEF done, new
  <2> QED BY <1>1, <1>3, <2>1, <2>3, <2>5
<1> QED BY <1>2, <1>3

LEMMA ArrayEndedRetraces ==
    ASSUME NEW e, NEW r, NEW m, Retraces(e, r, m), NEW id
    PROVE  LET f == ArrayEnded(e, id)
               rest == Front(e.router.stack)
           IN  /\ Retraces(f, r, m)
               /\ Ok(f) =>
                    /\ Ok(e) /\ e.router.stack # <<>> /\ Last(e.router.stack).id = id
                    /\ f.router = Router(rest, PendingAfterClose(rest), e.router.complete)
<1> DEFINE found == RequireFrame(e, id, "array")
           node == Frame(e.router, id).node
           k == Key(id, node)
           counted == IF ContainsOf(node) = {} THEN e
                      ELSE close_contains(e, k, The(ContainsOf(node)))
           closed == IF Unique(node) THEN Then(counted, LAMBDA c : close_history(c, k)) ELSE counted
           done == close_frame(closed, id)
           f == ArrayEnded(e, id)
           rest == Front(e.router.stack)
           new == Router(rest, PendingAfterClose(rest), e.router.complete)
<1>1. Retraces(found, r, m) /\ (Ok(found) => found = e /\ Ok(e))
  BY RequireFrameRetraces DEF Kept
<1>2. CASE ~Ok(found)
  <2>1. f = found
    BY <1>2 DEF ArrayEnded, Then
  <2> QED BY <1>1, <1>2, <2>1
<1>3. CASE Ok(found)
  <2>1. f = IF Ok(closed) THEN done ELSE closed
    BY <1>1, <1>3 DEF ArrayEnded, Then
  <2> SUFFICES Retraces(f, r, m) /\ (Ok(f) => Ok(e) /\ e.router.stack # <<>> /\ Last(e.router.stack).id = id /\ f.router = new)
    OBVIOUS
  <2> HIDE DEF f
  <2>2. Retraces(counted, r, m) /\ Kept(e, counted)
    <3> DEFINE c == The(ContainsOf(node))
    <3>1. counted = IF ContainsOf(node) = {} THEN e ELSE close_contains(e, k, c)
      OBVIOUS
    <3> HIDE DEF k, c, counted
    <3>2. Retraces(close_contains(e, k, c), r, m) /\ Kept(e, close_contains(e, k, c))
      BY CloseContainsRetraces
    <3> QED BY <3>1, <3>2, KeptSelf
  <2> HIDE DEF counted
  <2>3. Retraces(closed, r, m) /\ Kept(counted, closed)
    <3> HIDE DEF k
    <3>1. Retraces(close_history(counted, k), r, m) /\ Kept(counted, close_history(counted, k))
      BY <2>2, CloseHistoryRetraces
    <3> QED BY <2>2, <3>1, KeptSelf DEF Then
  <2> HIDE DEF closed
  <2>4. closed.router = e.router
    BY <2>2, <2>3 DEF Kept
  <2>5. Retraces(done, r, m) /\ (Ok(done) => e.router.stack # <<>> /\ Last(e.router.stack).id = id /\ done.router = new)
    <3>1. LET b == Front(closed.router.stack)
          IN  /\ Retraces(done, r, m)
              /\ Ok(done) => /\ closed.router.stack # <<>> /\ Last(closed.router.stack).id = id
                             /\ done.router = Router(b, PendingAfterClose(b), closed.router.complete)
      BY <2>3, CloseFrame
    <3> QED BY <2>4, <3>1
  <2> HIDE DEF done, new
  <2> QED BY <1>1, <1>3, <2>1, <2>3, <2>5
<1> QED BY <1>2, <1>3

LEMMA ObjectEndedRetraces ==
    ASSUME NEW e, NEW r, NEW m, Retraces(e, r, m), NEW id
    PROVE  LET f == ObjectEnded(e, id)
               rest == Front(e.router.stack)
           IN  /\ Retraces(f, r, m)
               /\ Ok(f) =>
                    /\ Ok(e) /\ e.router.stack # <<>> /\ Last(e.router.stack).id = id
                    /\ f.router = Router(rest, PendingAfterClose(rest), e.router.complete)
<1> DEFINE found == RequireFrame(e, id, "object")
           node == Frame(e.router, id).node
           closed == IF Extended(node) THEN close_scope(e, id) ELSE e
           done == close_frame(closed, id)
           f == ObjectEnded(e, id)
           rest == Front(e.router.stack)
           new == Router(rest, PendingAfterClose(rest), e.router.complete)
<1>1. Retraces(found, r, m) /\ (Ok(found) => found = e /\ Ok(e))
  BY RequireFrameRetraces DEF Kept
<1>2. CASE ~Ok(found)
  <2>1. f = found
    BY <1>2 DEF ObjectEnded, Then
  <2> QED BY <1>1, <1>2, <2>1
<1>3. CASE Ok(found)
  <2>1. f = IF Ok(closed) THEN done ELSE closed
    BY <1>1, <1>3 DEF ObjectEnded, Then
  <2> SUFFICES Retraces(f, r, m) /\ (Ok(f) => Ok(e) /\ e.router.stack # <<>> /\ Last(e.router.stack).id = id /\ f.router = new)
    OBVIOUS
  <2> HIDE DEF f
  <2>2. Retraces(closed, r, m) /\ Kept(e, closed)
    BY CloseScopeRetraces, KeptSelf
  <2> HIDE DEF closed
  <2>4. closed.router = e.router
    BY <2>2 DEF Kept
  <2>5. Retraces(done, r, m) /\ (Ok(done) => e.router.stack # <<>> /\ Last(e.router.stack).id = id /\ done.router = new)
    <3>1. LET b == Front(closed.router.stack)
          IN  /\ Retraces(done, r, m)
              /\ Ok(done) => /\ closed.router.stack # <<>> /\ Last(closed.router.stack).id = id
                             /\ done.router = Router(b, PendingAfterClose(b), closed.router.complete)
      BY <2>2, CloseFrame
    <3> QED BY <2>4, <3>1
  <2> HIDE DEF done, new
  <2> QED BY <1>1, <1>3, <2>1, <2>2, <2>5
<1> QED BY <1>2, <1>3

-------------------------------------------------------------------------------
(* The events of a token, one after the other.                               *)
Handled(e, ev) == Then(e, LAMBDA b : process_event(b, ev))

Handling == INSTANCE Folding WITH Op <- Handled

LEMMA ProcessingFolds ==
    ASSUME NEW e, NEW events
    PROVE  process_pending_events(e, events) = Handling!Left(e, events)
BY DEF process_pending_events, Handled, Then, FoldLeft, MapThenFoldSet, Max, Handling!Left,
       Handling!FoldLeft, Handling!MapThenFoldSet, Handling!Max

LEMMA OneEvent ==
    ASSUME NEW e, NEW ev
    PROVE  process_pending_events(e, <<ev>>) = Handled(e, ev)
<1> DEFINE s == <<ev>>
<1>1. s \in Seq({ev}) /\ Len(s) = 1 /\ s[1] = ev
  OBVIOUS
<1>2. Handling!IsSeq(s)
  BY DEF Handling!IsSeq, Handling!ToSet
<1> HIDE DEF s
<1>3. /\ Handling!Left(e, Handling!Truncate(s, 0)) = e
      /\ \A n \in Nat : n + 1 <= Len(s) =>
             Handling!Left(e, Handling!Truncate(s, n + 1))
               = Handled(Handling!Left(e, Handling!Truncate(s, n)), s[n + 1])
      /\ Handling!Truncate(s, Len(s)) = s
  BY <1>2, Handling!LeftStages, Zenon
<1>4. Handling!Left(e, Handling!Truncate(s, 1)) = Handled(e, ev)
  <2>1. 0 \in Nat /\ 0 + 1 <= Len(s) /\ 0 + 1 = 1
    BY <1>1
  <2>2. Handling!Left(e, Handling!Truncate(s, 0 + 1))
               = Handled(Handling!Left(e, Handling!Truncate(s, 0)), s[0 + 1])
    BY <1>3, <2>1
  <2> QED BY <1>1, <1>3, <2>1, <2>2
<1>5. Handling!Left(e, s) = Handled(e, ev)
  BY <1>1, <1>3, <1>4
<1> QED BY <1>5, ProcessingFolds DEF s

LEMMA TwoEvents ==
    ASSUME NEW e, NEW one, NEW two
    PROVE  process_pending_events(e, <<one, two>>) = Handled(Handled(e, one), two)
<1> DEFINE s == <<one, two>>
<1>1. s \in Seq({one, two}) /\ Len(s) = 2 /\ s[1] = one /\ s[2] = two
  OBVIOUS
<1>2. Handling!IsSeq(s)
  BY DEF Handling!IsSeq, Handling!ToSet
<1> HIDE DEF s
<1>3. /\ Handling!Left(e, Handling!Truncate(s, 0)) = e
      /\ \A n \in Nat : n + 1 <= Len(s) =>
             Handling!Left(e, Handling!Truncate(s, n + 1))
               = Handled(Handling!Left(e, Handling!Truncate(s, n)), s[n + 1])
      /\ Handling!Truncate(s, Len(s)) = s
  BY <1>2, Handling!LeftStages, Zenon
<1>4. Handling!Left(e, Handling!Truncate(s, 1)) = Handled(e, one)
  <2>1. 0 \in Nat /\ 0 + 1 <= Len(s) /\ 0 + 1 = 1
    BY <1>1
  <2>2. Handling!Left(e, Handling!Truncate(s, 0 + 1))
               = Handled(Handling!Left(e, Handling!Truncate(s, 0)), s[0 + 1])
    BY <1>3, <2>1
  <2> QED BY <1>1, <1>3, <2>1, <2>2
<1>5. Handling!Left(e, Handling!Truncate(s, 2)) = Handled(Handled(e, one), two)
  <2>1. 1 \in Nat /\ 1 + 1 <= Len(s) /\ 1 + 1 = 2
    BY <1>1
  <2>2. Handling!Left(e, Handling!Truncate(s, 1 + 1))
               = Handled(Handling!Left(e, Handling!Truncate(s, 1)), s[1 + 1])
    BY <1>3, <2>1
  <2> QED BY <1>1, <1>4, <2>1, <2>2
<1>6. Handling!Left(e, s) = Handled(Handled(e, one), two)
  BY <1>1, <1>3, <1>5
<1> QED BY <1>6, ProcessingFolds DEF s

-------------------------------------------------------------------------------
(* What is open in the document, and the router that follows it.              *)

FrameFits(f) ==
    /\ f = [kind |-> f.kind, id |-> f.id, node |-> f.node, values |-> f.values, key |-> f.key]
    /\ f.node \in DOMAIN schema
    /\ f.kind = schema[f.node].kind
    /\ f.kind \in {"array", "object"}
    /\ f.key # {} => PropertyNodes(f.node, The(f.key)) # {}

DocumentFits(d) ==
    /\ d = [text |-> d.text, pool |-> d.pool, open |-> d.open, root |-> d.root]
    /\ IsSeq(d.open)
    /\ \A i \in 1..Len(d.open) : FrameFits(d.open[i])

PropertyOf(f) == IF f.key = {} THEN {} ELSE PropertyNodes(f.node, The(f.key))
Following(f) ==
    IF f.kind = "array" THEN RuntimeArray(f.id, f.node)
    ELSE [RuntimeObject(f.id, f.node) EXCEPT !.property = PropertyOf(f)]
StackOf(open) == [i \in DOMAIN open |-> Following(open[i])]

LEMMA RouterFollows ==
    ASSUME NEW d
    PROVE  RouterOf(d) =
             Router(StackOf(d.open), PendingAfterClose(StackOf(d.open)), d.root # {})
BY DEF RouterOf, Router, StackOf, Following, PropertyOf

LEMMA FollowingFrame ==
    ASSUME NEW f
    PROVE  /\ f.kind = "array" =>
                Following(f) = [kind |-> "array", id |-> f.id, node |-> f.node,
                                item |-> schema[f.node].items]
           /\ f.kind # "array" =>
                Following(f) = [kind |-> "object", id |-> f.id, node |-> f.node,
                                property |-> PropertyOf(f)]
           /\ IsFrame(Following(f))
           /\ Following(f).id = f.id /\ Following(f).node = f.node
<1>1. f.kind = "array" => Following(f) = [kind |-> "array", id |-> f.id, node |-> f.node,
                                          item |-> schema[f.node].items]
  BY DEF Following, RuntimeArray
<1>2. f.kind # "array" => Following(f) = [kind |-> "object", id |-> f.id, node |-> f.node,
                                          property |-> PropertyOf(f)]
  BY DEF Following, RuntimeObject
<1> QED BY <1>1, <1>2 DEF IsFrame

LEMMA StackFollows ==
    ASSUME NEW s, IsSeq(s)
    PROVE  /\ IsSeq(StackOf(s)) /\ Len(StackOf(s)) = Len(s)
           /\ \A i \in 1..Len(s) : StackOf(s)[i] = Following(s[i])
<1> DEFINE t == StackOf(s)
<1>1. Len(s) \in Nat /\ DOMAIN s = 1..Len(s)
  BY IsSeqLen
<1>2. t = [i \in 1..Len(s) |-> t[i]] /\ \A i \in 1..Len(s) : t[i] = Following(s[i])
  BY <1>1 DEF StackOf
<1> HIDE DEF t
<1> QED BY <1>1, <1>2, FunctionIsSeq DEF t

LEMMA StackGrows ==
    ASSUME NEW s, IsSeq(s), NEW f
    PROVE  StackOf(Append(s, f)) = Append(StackOf(s), Following(f))
<1> DEFINE a == Append(s, f)
           b == Append(StackOf(s), Following(f))
           g == Following(f)
           t == StackOf(s)
<1>1. /\ IsSeq(a) /\ Len(a) = Len(s) + 1 /\ a[Len(s) + 1] = f
      /\ \A i \in 1..Len(s) : a[i] = s[i]
  BY IsSeqAppend
<1>2. /\ IsSeq(t) /\ Len(t) = Len(s) /\ Len(s) \in Nat
      /\ \A i \in 1..Len(s) : t[i] = Following(s[i])
  BY StackFollows, IsSeqLen
<1>3. /\ IsSeq(b) /\ Len(b) = Len(t) + 1 /\ b[Len(t) + 1] = g
      /\ \A i \in 1..Len(t) : b[i] = t[i]
  <2> HIDE DEF t, g
  <2> QED BY <1>2, IsSeqAppend DEF t, g
<1> HIDE DEF a
<1>4. /\ IsSeq(StackOf(a)) /\ Len(StackOf(a)) = Len(a)
      /\ \A i \in 1..Len(a) : StackOf(a)[i] = Following(a[i])
  BY <1>1, StackFollows
<1> HIDE DEF b, t
<1>5. \A i \in 1..Len(a) : StackOf(a)[i] = b[i]
  <2> SUFFICES ASSUME NEW i \in 1..Len(a) PROVE StackOf(a)[i] = b[i]
    OBVIOUS
  <2>1. i \in 1..Len(s) \/ i = Len(s) + 1
    BY <1>1, <1>2
  <2>2. CASE i \in 1..Len(s)
    BY <1>1, <1>2, <1>3, <1>4, <2>2
  <2>3. CASE i = Len(s) + 1
    BY <1>1, <1>2, <1>3, <1>4, <2>3
  <2> QED BY <2>1, <2>2, <2>3
<1>6. StackOf(a) = b
  BY <1>1, <1>2, <1>3, <1>4, <1>5, IsSeqEqual
<1> QED BY <1>6 DEF a, b, t

LEMMA StackShrinks ==
    ASSUME NEW s, IsSeq(s), s # <<>>
    PROVE  /\ IsSeq(Front(s)) /\ s = Append(Front(s), Last(s))
           /\ StackOf(s) = Append(StackOf(Front(s)), Following(Last(s)))
           /\ Front(StackOf(s)) = StackOf(Front(s)) /\ Last(StackOf(s)) = Following(Last(s))
           /\ StackOf(s) # <<>> /\ IsSeq(StackOf(Front(s)))
           /\ Len(s) = Len(StackOf(Front(s))) + 1 /\ Len(s) \in Nat \ {0}
<1> DEFINE b == Front(s)
           g == Following(Last(s))
           t == StackOf(b)
<1>1. IsSeq(b) /\ s = Append(b, Last(s)) /\ Len(b) = Len(s) - 1 /\ Len(s) \in Nat \ {0}
  BY IsSeqFront
<1> HIDE DEF b
<1>2. StackOf(s) = Append(t, g)
  BY <1>1, StackGrows, Zenon
<1>3. IsSeq(t) /\ Len(t) = Len(b)
  BY <1>1, StackFollows
<1> HIDE DEF g, t
<1>4. Front(Append(t, g)) = t /\ Last(Append(t, g)) = g /\ Append(t, g) # <<>>
  BY <1>3, IsSeqAppend
<1> QED BY <1>1, <1>2, <1>3, <1>4 DEF b, g, t

(* The frame an event speaks of is the one opened last.                       *)
LEMMA LastPosition ==
    ASSUME NEW r, IsRouter(r), r.stack # <<>>
    PROVE  /\ Position(r, Last(r.stack).id) = Len(r.stack)
           /\ r.stack[Len(r.stack)] = Last(r.stack) /\ Len(r.stack) \in Nat \ {0}
<1> DEFINE L == Len(r.stack)
           id == Last(r.stack).id
           I == { i \in 1..L : r.stack[i].id = id }
<1>1. L \in Nat \ {0} /\ Last(r.stack) = r.stack[L]
  BY IsSeqFront DEF IsRouter
<1>2. L \in I
  BY <1>1
<1>3. Position(r, id) = IF I # {} THEN Max(I) ELSE 0
  BY DEF Position, SelectLastInSeq
<1>4. \A i \in I : L >= i
  BY <1>1
<1>5. Max(I) \in I /\ \A i \in I : Max(I) >= i
  <2> HIDE DEF I, L
  <2> QED BY <1>2, <1>4 DEF Max
<1>6. Max(I) = L
  <2>1. Max(I) >= L /\ L >= Max(I) /\ Max(I) \in Int
    BY <1>1, <1>2, <1>4, <1>5
  <2> HIDE DEF I
  <2> QED BY <1>1, <2>1
<1> QED BY <1>1, <1>2, <1>3, <1>6

LEMMA RouterOfFits ==
    ASSUME NEW d, DocumentFits(d)
    PROVE  IsRouter(RouterOf(d))
<1> DEFINE s == StackOf(d.open)
<1>1. IsSeq(s) /\ Len(s) = Len(d.open) /\ \A i \in 1..Len(s) : s[i] = Following(d.open[i])
  BY StackFollows DEF DocumentFits
<1>2. \A i \in 1..Len(s) : IsFrame(s[i])
  BY <1>1, FollowingFrame
<1>3. RouterOf(d) = Router(s, PendingAfterClose(s), d.root # {})
  BY RouterFollows
<1> HIDE DEF s
<1> DEFINE p == PendingAfterClose(s)
           c == d.root # {}
<1> HIDE DEF p, c
<1>4. IsRouter(Router(s, p, c))
  BY <1>1, <1>2, RouterParts
<1> QED BY <1>3, <1>4 DEF p, c

-------------------------------------------------------------------------------
(* Documents whose frames are nodes of the schema, and the router that follows*)
(* one.                                                                      *)

(* A schema with the actions that a plan gave it.                            *)
ActionsFit(ir) ==
    \A n \in DOMAIN ir : ir[n].kind = "object" =>
        \A actions \in ir[n].actions : \A key \in DOMAIN actions : AreActions(actions[key])

Compiled == SchemaFits(schema, root) /\ ActionsFit(schema)

(* Where the document goes on, the router goes on, and nothing is lost.       *)
Follows(e, d, r, m) ==
    /\ Retraces(e, r, m)
    /\ Ok(e) => DocumentFits(d) /\ e.router = RouterOf(d)

LEMMA ActionsKnown ==
    ASSUME Compiled, NEW n \in DOMAIN schema, schema[n].kind = "object", NEW key
    PROVE  \A actions \in ActionsOf(n, key) : AreActions(actions)
BY DEF Compiled, ActionsFit, ActionsOf

LEMMA HandledStops ==
    ASSUME NEW e, ~Ok(e), NEW ev
    PROVE  Handled(e, ev) = e
BY DEF Handled, Then

(* Nothing of the document but its open frames and its root tells the router. *)
LEMMA TextAside ==
    ASSUME NEW d, DocumentFits(d), NEW text
    PROVE  LET n == [d EXCEPT !.text = text]
           IN  DocumentFits(n) /\ RouterOf(n) = RouterOf(d)
<1>1. ASSUME NEW n, n = [d EXCEPT !.text = text]
      PROVE  /\ n = [text |-> text, pool |-> d.pool, open |-> d.open, root |-> d.root]
             /\ n.open = d.open /\ n.root = d.root
  BY <1>1 DEF DocumentFits
<1>2. ASSUME NEW n, n = [d EXCEPT !.text = text]
      PROVE  DocumentFits(n) /\ RouterOf(n) = RouterOf(d)
  <2>1. n = [text |-> text, pool |-> d.pool, open |-> d.open, root |-> d.root]
        /\ n.open = d.open /\ n.root = d.root
    BY <1>1, <1>2
  <2>2. DocumentFits(n)
    BY <2>1 DEF DocumentFits
  <2>3. RouterOf(n) = RouterOf(d)
    BY <2>1, RouterFollows
  <2> QED BY <2>2, <2>3
<1> QED BY <1>2

(* The open frames replaced: what the document is then.                       *)
Reopened(d, open) == [d EXCEPT !.open = open]
Repooled(d, open, pool) == [d EXCEPT !.open = open, !.pool = pool]

LEMMA OpenReplaced ==
    ASSUME NEW d, DocumentFits(d), NEW open, IsSeq(open),
           \A i \in 1..Len(open) : FrameFits(open[i]),
           NEW n, n = Reopened(d, open) \/ \E pool : n = Repooled(d, open, pool)
    PROVE  DocumentFits(n) /\ n.open = open /\ n.root = d.root
<1>1. CASE n = Reopened(d, open)
  <2>1. n = [text |-> d.text, pool |-> d.pool, open |-> open, root |-> d.root]
    BY <1>1 DEF DocumentFits, Reopened
  <2> QED BY <2>1 DEF DocumentFits
<1>2. ASSUME NEW pool, n = Repooled(d, open, pool)
      PROVE  DocumentFits(n) /\ n.open = open /\ n.root = d.root
  <2>1. n = [text |-> d.text, pool |-> pool, open |-> open, root |-> d.root]
    BY <1>2, Zenon DEF DocumentFits, Repooled
  <2> QED BY <2>1 DEF DocumentFits
<1> QED BY <1>1, <1>2

LEMMA FramesGrow ==
    ASSUME NEW s, IsSeq(s), \A i \in 1..Len(s) : FrameFits(s[i]), NEW f, FrameFits(f)
    PROVE  IsSeq(Append(s, f)) /\ \A i \in 1..Len(Append(s, f)) : FrameFits(Append(s, f)[i])
<1> DEFINE a == Append(s, f)
<1>1. /\ IsSeq(a) /\ Len(a) = Len(s) + 1 /\ a[Len(s) + 1] = f /\ Len(s) \in Nat
      /\ \A i \in 1..Len(s) : a[i] = s[i]
  BY IsSeqAppend, IsSeqLen
<1> HIDE DEF a
<1>2. \A i \in 1..Len(a) : i \in 1..Len(s) \/ i = Len(s) + 1
  BY <1>1
<1>3. \A i \in 1..Len(a) : FrameFits(a[i])
  BY <1>1, <1>2
<1> QED BY <1>1, <1>3 DEF a

LEMMA FramesShrink ==
    ASSUME NEW s, IsSeq(s), \A i \in 1..Len(s) : FrameFits(s[i]), s # <<>>
    PROVE  /\ IsSeq(Front(s)) /\ \A i \in 1..Len(Front(s)) : FrameFits(Front(s)[i])
           /\ FrameFits(Last(s))
<1> DEFINE b == Front(s)
<1>1. /\ IsSeq(b) /\ Len(b) = Len(s) - 1 /\ Len(s) \in Nat \ {0} /\ Last(s) = s[Len(s)]
      /\ \A i \in 1..(Len(s) - 1) : b[i] = s[i]
  BY IsSeqFront
<1> HIDE DEF b
<1>2. \A i \in 1..Len(b) : FrameFits(b[i])
  BY <1>1
<1>3. FrameFits(Last(s))
  BY <1>1
<1> QED BY <1>1, <1>2, <1>3 DEF b

(* The last frame of the router is that of the document.                      *)
LEMMA LastFollows ==
    ASSUME NEW d, DocumentFits(d), d.open # <<>>
    PROVE  LET f == Last(d.open)
               r == RouterOf(d)
           IN  /\ FrameFits(f) /\ r.stack # <<>> /\ IsRouter(r)
               /\ Position(r, f.id) = Len(r.stack)
               /\ Len(r.stack) \in Nat \ {0}
               /\ r.stack[Len(r.stack)] = Following(f)
               /\ r.stack = Append(StackOf(Front(d.open)), Following(f))
               /\ Front(r.stack) = StackOf(Front(d.open))
               /\ IsSeq(StackOf(Front(d.open)))
               /\ Len(r.stack) = Len(StackOf(Front(d.open))) + 1
<1> DEFINE f == Last(d.open)
           r == RouterOf(d)
           b == StackOf(Front(d.open))
           g == Following(f)
<1>1. FrameFits(f)
  BY FramesShrink DEF DocumentFits
<1>2. r.stack = StackOf(d.open) /\ IsRouter(r)
  BY RouterFollows, RouterParts, RouterOfFits
<1>3. StackOf(d.open) = Append(b, g) /\ StackOf(d.open) # <<>> /\ Front(StackOf(d.open)) = b
      /\ Last(StackOf(d.open)) = g /\ IsSeq(b)
  BY StackShrinks, Zenon DEF DocumentFits
<1>4. g.id = f.id
  BY FollowingFrame
<1>5. Len(Append(b, g)) = Len(b) + 1
  <2> HIDE DEF b, g
  <2> QED BY <1>3, IsSeqAppend
<1> HIDE DEF f, r, b, g
<1>6. r.stack = Append(b, g) /\ r.stack # <<>> /\ Front(r.stack) = b /\ Last(r.stack) = g
  BY <1>2, <1>3
<1>7. Position(r, g.id) = Len(r.stack) /\ r.stack[Len(r.stack)] = g /\ Len(r.stack) \in Nat \ {0}
  BY <1>2, <1>6, LastPosition
<1> QED BY <1>1, <1>2, <1>3, <1>4, <1>5, <1>6, <1>7 DEF f, r, b, g

-------------------------------------------------------------------------------
(* What publishing a value, opening and closing do to the router.            *)

LEMMA PendingThere ==
    ASSUME NEW b, IsSeq(b), NEW x
    PROVE  PendingAfterClose(Append(b, x)) =
             IF x.kind = "array" THEN x.item
             ELSE IF x.property # {} THEN The(x.property) ELSE x.node
<1> DEFINE s == Append(b, x)
<1>1. s # <<>> /\ Last(s) = x
  BY IsSeqAppend
<1> HIDE DEF s
<1>2. PendingAfterClose(s) = IF x.kind = "array" THEN x.item
             ELSE IF x.property # {} THEN The(x.property) ELSE x.node
  BY <1>1 DEF PendingAfterClose
<1> QED BY <1>2 DEF s

Replacing(s, property) == [s EXCEPT ![Len(s)].property = property]
Forgetting(x, property) == [x EXCEPT !.property = property]

LEMMA LastReplaced ==
    ASSUME NEW b, IsSeq(b), NEW x, NEW property, NEW y, y = Forgetting(x, property)
    PROVE  Replacing(Append(b, x), property) = Append(b, y)
<1> DEFINE s == Append(b, x)
           t == Replacing(s, property)
           a == Append(b, y)
<1>1. /\ IsSeq(s) /\ Len(s) = Len(b) + 1 /\ s[Len(b) + 1] = x /\ Len(b) \in Nat
      /\ DOMAIN s = 1..Len(s)
      /\ \A i \in 1..Len(b) : s[i] = b[i]
  BY IsSeqAppend, IsSeqLen
<1>2. t = [s EXCEPT ![Len(s)] = y]
  <2>1. t = [s EXCEPT ![Len(s)] = [s[Len(s)] EXCEPT !.property = property]]
    BY DEF Replacing
  <2>2. s[Len(s)] = x
    BY <1>1
  <2> QED BY <2>1, <2>2 DEF Forgetting
<1>3. IsSeq(a) /\ Len(a) = Len(b) + 1 /\ a[Len(b) + 1] = y /\ \A i \in 1..Len(b) : a[i] = b[i]
  BY IsSeqAppend
<1> HIDE DEF s, t
<1>4. t = [i \in 1..(Len(b) + 1) |-> t[i]] /\ t[Len(b) + 1] = y /\ \A i \in 1..Len(b) : t[i] = b[i]
  <2>1. DOMAIN s = 1..(Len(b) + 1) /\ Len(s) = Len(b) + 1
    BY <1>1
  <2>2. DOMAIN t = DOMAIN s /\ t = [i \in DOMAIN t |-> t[i]]
    BY <1>2, Zenon
  <2>3. t[Len(b) + 1] = y
    BY <1>1, <1>2, <2>1
  <2>4. \A i \in 1..Len(b) : t[i] = s[i]
    BY <1>1, <1>2, <2>1
  <2> QED BY <1>1, <2>1, <2>2, <2>3, <2>4
<1> HIDE DEF a
<1>5. IsSeq(t) /\ Len(t) = Len(b) + 1
  BY <1>1, <1>4, FunctionIsSeq
<1>6. \A i \in 1..Len(t) : t[i] = a[i]
  <2>1. \A i \in 1..Len(t) : i \in 1..Len(b) \/ i = Len(b) + 1
    BY <1>1, <1>5
  <2> QED BY <1>3, <1>4, <2>1, Zenon
<1>7. t = a
  BY <1>3, <1>5, <1>6, IsSeqEqual
<1> QED BY <1>7 DEF t, a, s

(* A frame told that a value is complete.                                     *)
LEMMA FrameEmptied ==
    ASSUME NEW f, FrameFits(f), NEW values, NEW g, g = [f EXCEPT !.values = values, !.key = {}]
    PROVE  g = [kind |-> f.kind, id |-> f.id, node |-> f.node, values |-> values, key |-> {}]
BY Zenon DEF FrameFits

LEMMA PropertyForgotten ==
    ASSUME NEW id, NEW node, NEW property, NEW new, NEW x, NEW y,
           x = [kind |-> "object", id |-> id, node |-> node, property |-> property],
           y = Forgetting(x, new)
    PROVE  y = [kind |-> "object", id |-> id, node |-> node, property |-> new]
BY DEF Forgetting

(* The last open frame replaced by another one.                              *)
LEMMA LastFrameReplaced ==
    ASSUME NEW d, DocumentFits(d), d.open # <<>>, NEW g, FrameFits(g),
           NEW n, n = Reopened(d, Append(Front(d.open), g))
    PROVE  /\ DocumentFits(n)
           /\ LET s == Append(StackOf(Front(d.open)), Following(g))
                  x == Following(g)
              IN  RouterOf(n) = Router(s, IF x.kind = "array" THEN x.item
                                          ELSE IF x.property # {} THEN The(x.property) ELSE x.node,
                                       d.root # {})
<1> DEFINE b == Front(d.open)
           open == Append(b, g)
           t == StackOf(b)
           x == Following(g)
           s == Append(t, x)
<1>1. IsSeq(b) /\ \A i \in 1..Len(b) : FrameFits(b[i])
  BY FramesShrink DEF DocumentFits
<1> HIDE DEF b
<1>2. IsSeq(open) /\ \A i \in 1..Len(open) : FrameFits(open[i])
  BY <1>1, FramesGrow
<1>3. StackOf(open) = s /\ IsSeq(t)
  BY <1>1, StackGrows, StackFollows
<1>4. n = Reopened(d, open)
  BY DEF b
<1> HIDE DEF open
<1>5. DocumentFits(n) /\ n.open = open /\ n.root = d.root
  BY <1>2, <1>4, OpenReplaced
<1>6. RouterOf(n) = Router(s, PendingAfterClose(s), d.root # {})
  BY <1>3, <1>5, RouterFollows, Zenon
<1>7. PendingAfterClose(s) = IF x.kind = "array" THEN x.item
                             ELSE IF x.property # {} THEN The(x.property) ELSE x.node
  <2> HIDE DEF t, x
  <2> QED BY <1>3, PendingThere
<1> HIDE DEF s
<1> QED BY <1>5, <1>6, <1>7 DEF s, t, x, b

LEMMA PublishedAtRoot ==
    ASSUME NEW d, DocumentFits(d), d.open = <<>>, NEW e, NEW r, NEW m, Follows(e, d, r, m), NEW v
    PROVE  LET p == Published(d, v)
           IN  \E ev : p.events = <<ev>> /\ Follows(Handled(e, ev), p.document, r, m)
<1> DEFINE ev == [type |-> "RootComplete"]
           n == [d EXCEPT !.root = {v}]
           f == Handled(e, ev)
<1>1. Published(d, v).events = <<ev>> /\ Published(d, v).document = n
  BY DEF Published
<1>2. CASE ~Ok(e)
  <2>1. f = e
    BY <1>2, HandledStops
  <2>2. Follows(f, n, r, m)
    BY <1>2, <2>1 DEF Follows
  <2> QED BY <1>1, <2>2
<1>3. CASE Ok(e)
  <2>1. f = complete_root(e)
    BY <1>3 DEF Handled, Then, process_event
  <2>2. Retraces(e, r, m) /\ e.router = RouterOf(d)
    BY <1>3 DEF Follows
  <2> HIDE DEF f
  <2>3. /\ Retraces(f, r, m)
        /\ Ok(f) => f.router = Router(e.router.stack, e.router.pending, TRUE)
    BY <2>1, <2>2, CompleteRoot, Zenon
  <2>4. n = [text |-> d.text, pool |-> d.pool, open |-> d.open, root |-> {v}]
    BY DEF DocumentFits
  <2> HIDE DEF n
  <2>5. DocumentFits(n) /\ n.open = d.open /\ n.root # {}
    BY <2>4 DEF DocumentFits
  <2>6. RouterOf(n) = Router(e.router.stack, e.router.pending, TRUE)
    <3> DEFINE s == StackOf(d.open)
               p == PendingAfterClose(s)
               c == d.root # {}
               a == n.root # {}
    <3>1. RouterOf(n) = Router(s, p, a) /\ e.router = Router(s, p, c)
      BY <2>2, <2>5, RouterFollows
    <3>2. a = TRUE
      BY <2>5
    <3> HIDE DEF s, p, c, a
    <3>3. RouterOf(n) = Router(s, p, TRUE)
      BY <3>1, <3>2
    <3>4. e.router.stack = s /\ e.router.pending = p
      BY <3>1, RouterParts
    <3> QED BY <3>3, <3>4
  <2>7. Follows(f, n, r, m)
    BY <2>3, <2>5, <2>6, Zenon DEF Follows
  <2> QED BY <1>1, <2>7 DEF f, n
<1> QED BY <1>2, <1>3

LEMMA PublishedInArray ==
    ASSUME NEW d, DocumentFits(d), d.open # <<>>, Last(d.open).kind = "array",
           NEW e, NEW r, NEW m, Follows(e, d, r, m), NEW v
    PROVE  LET p == Published(d, v)
           IN  \E ev : p.events = <<ev>> /\ Follows(Handled(e, ev), p.document, r, m)
<1> DEFINE frame == Last(d.open)
           ev == [type |-> "ItemSealed", frame |-> frame.id, value |-> v]
           values == Append(frame.values, v)
           g == [frame EXCEPT !.values = values, !.key = {}]
           n == [d EXCEPT !.open = Append(Front(@), g)]
           f == Handled(e, ev)
           b == StackOf(Front(d.open))
           x == Following(frame)
<1>1. Published(d, v).events = <<ev>> /\ Published(d, v).document = n
  BY DEF Published
<1>2. CASE ~Ok(e)
  <2>1. f = e
    BY <1>2, HandledStops
  <2>2. Follows(f, n, r, m)
    BY <1>2, <2>1 DEF Follows
  <2> QED BY <1>1, <2>2
<1>3. CASE Ok(e)
  <2>1. f = ItemSealed(e, frame.id, v)
    <3> HIDE DEF frame
    <3> QED BY <1>3 DEF Handled, Then, process_event
  <2>2. Retraces(e, r, m) /\ e.router = RouterOf(d)
    BY <1>3 DEF Follows
  <2>3. LET q == RouterOf(d)
        IN  /\ FrameFits(frame) /\ Position(q, frame.id) = Len(q.stack)
            /\ q.stack[Len(q.stack)] = x /\ q.stack = Append(b, x)
    BY LastFollows
  <2>4. g = [kind |-> "array", id |-> frame.id, node |-> frame.node, values |-> values, key |-> {}]
    <3>1. frame.kind = "array"
      OBVIOUS
    <3> HIDE DEF frame, values
    <3>2. g = [kind |-> frame.kind, id |-> frame.id, node |-> frame.node, values |-> values,
               key |-> {}]
      BY <2>3, FrameEmptied, Zenon
    <3> QED BY <3>1, <3>2
  <2>5. FrameFits(g) /\ Following(g) = x /\ x.kind = "array"
    <3>1. frame.kind = "array"
      OBVIOUS
    <3> HIDE DEF frame, g, values
    <3> QED BY <2>3, <2>4, <3>1, Zenon DEF FrameFits, Following, RuntimeArray
  <2>6. n = Reopened(d, Append(Front(d.open), g))
    BY DEF Reopened
  <2> HIDE DEF n, g, f, b, x
  <2>7. DocumentFits(n) /\ RouterOf(n) = Router(Append(b, x), x.item, d.root # {})
    <3>1. /\ DocumentFits(n)
          /\ LET s == Append(StackOf(Front(d.open)), Following(g))
                  y == Following(g)
              IN  RouterOf(n) = Router(s, IF y.kind = "array" THEN y.item
                                          ELSE IF y.property # {} THEN The(y.property) ELSE y.node,
                                       d.root # {})
      BY <2>5, <2>6, LastFrameReplaced
    <3> QED BY <2>5, <3>1 DEF b
  <2>8. LET i == Position(e.router, frame.id)
        IN  /\ Retraces(f, r, m)
            /\ Ok(f) => f.router = Router(e.router.stack, e.router.stack[i].item, e.router.complete)
    BY <2>1, <2>2, ItemSealedRetraces
  <2>9. Ok(f) => f.router = Router(Append(b, x), x.item, e.router.complete)
    BY <2>2, <2>3, <2>8
  <2>10. e.router.complete = (d.root # {})
    BY <2>2, RouterFollows, RouterParts
  <2>11. Follows(f, n, r, m)
    BY <2>7, <2>8, <2>9, <2>10 DEF Follows
  <2> QED BY <1>1, <2>11 DEF f, n
<1> QED BY <1>2, <1>3

LEMMA PublishedInObject ==
    ASSUME Compiled, NEW d, DocumentFits(d), d.open # <<>>, Last(d.open).kind # "array",
           NEW e, NEW r, NEW m, Follows(e, d, r, m), NEW v
    PROVE  LET p == Published(d, v)
           IN  \E ev : p.events = <<ev>> /\ Follows(Handled(e, ev), p.document, r, m)
<1> DEFINE frame == Last(d.open)
           key == The(frame.key)
           ev == [type |-> "PropertyValueSealed", frame |-> frame.id, key |-> key, value |-> v]
           values == Append(frame.values, <<key, v>>)
           g == [frame EXCEPT !.values = values, !.key = {}]
           n == [d EXCEPT !.open = Append(Front(@), g)]
           f == Handled(e, ev)
           b == StackOf(Front(d.open))
           x == Following(frame)
           y == Forgetting(x, {})
<1>1. Published(d, v).events = <<ev>> /\ Published(d, v).document = n
  BY DEF Published
<1>2. CASE ~Ok(e)
  <2>1. f = e
    BY <1>2, HandledStops
  <2>2. Follows(f, n, r, m)
    BY <1>2, <2>1 DEF Follows
  <2> QED BY <1>1, <2>2
<1>3. CASE Ok(e)
  <2>1. f = PropertyValueSealed(e, frame.id, key, v)
    <3> HIDE DEF frame, key
    <3> QED BY <1>3 DEF Handled, Then, process_event
  <2>2. Retraces(e, r, m) /\ e.router = RouterOf(d)
    BY <1>3 DEF Follows
  <2>3. LET q == RouterOf(d)
        IN  /\ FrameFits(frame) /\ Position(q, frame.id) = Len(q.stack)
            /\ q.stack[Len(q.stack)] = x /\ q.stack = Append(b, x) /\ IsSeq(b)
    BY LastFollows
  <2>4. /\ x = [kind |-> "object", id |-> frame.id, node |-> frame.node, property |-> PropertyOf(frame)]
        /\ frame.kind # "array" /\ frame.kind = "object" /\ frame.node \in DOMAIN schema
        /\ schema[frame.node].kind = "object"
    <3>1. frame.kind # "array"
      OBVIOUS
    <3> HIDE DEF frame, x
    <3>2. Following(frame) = [kind |-> "object", id |-> frame.id, node |-> frame.node,
                              property |-> PropertyOf(frame)]
      BY <3>1, FollowingFrame
    <3> QED BY <2>3, <3>1, <3>2 DEF FrameFits, x
  <2>5. g = [kind |-> "object", id |-> frame.id, node |-> frame.node, values |-> values, key |-> {}]
    <3> HIDE DEF frame, values
    <3>1. g = [kind |-> frame.kind, id |-> frame.id, node |-> frame.node, values |-> values,
               key |-> {}]
      BY <2>3, FrameEmptied, Zenon
    <3> QED BY <2>4, <3>1
  <2>6. y = [kind |-> "object", id |-> frame.id, node |-> frame.node, property |-> {}]
    <3>1. x = [kind |-> "object", id |-> frame.id, node |-> frame.node, property |-> PropertyOf(frame)]
      BY <2>4
    <3> DEFINE property == PropertyOf(frame)
               id == frame.id
               node == frame.node
               new == {}
    <3>2. y = Forgetting(x, new)
      OBVIOUS
    <3> HIDE DEF x, y, property, id, node, new
    <3>3. y = [kind |-> "object", id |-> id, node |-> node, property |-> new]
      BY <3>1, <3>2, PropertyForgotten DEF property, id, node
    <3> QED BY <3>3 DEF id, node, new
  <2>7. FrameFits(g) /\ Following(g) = y
    <3> HIDE DEF frame, g, values, x, y
    <3>1. FrameFits(g)
      BY <2>3, <2>4, <2>5 DEF FrameFits
    <3>2. PropertyOf(g) = {} /\ g.kind = "object" /\ g.id = frame.id /\ g.node = frame.node
      BY <2>5 DEF PropertyOf
    <3>3. Following(g) = [kind |-> "object", id |-> g.id, node |-> g.node, property |-> PropertyOf(g)]
      BY <3>2, FollowingFrame
    <3> QED BY <2>6, <3>1, <3>2, <3>3
  <2>8. n = Reopened(d, Append(Front(d.open), g))
    BY DEF Reopened
  <2> HIDE DEF n, g, f, b, x
  <2>9. DocumentFits(n) /\ RouterOf(n) = Router(Append(b, y), frame.node, d.root # {})
    <3>1. /\ DocumentFits(n)
          /\ LET s == Append(StackOf(Front(d.open)), Following(g))
                  z == Following(g)
              IN  RouterOf(n) = Router(s, IF z.kind = "array" THEN z.item
                                          ELSE IF z.property # {} THEN The(z.property) ELSE z.node,
                                       d.root # {})
      BY <2>7, <2>8, LastFrameReplaced
    <3>2. y.kind # "array" /\ y.property = {} /\ y.node = frame.node
      BY <2>6
    <3> HIDE DEF y
    <3> QED BY <2>7, <3>1, <3>2 DEF b
  <2>10. LET i == Position(e.router, frame.id)
         IN  /\ Retraces(f, r, m)
             /\ Ok(f) => f.router = Told(e.router, i, {}, e.router.stack[i].node)
    <3>1. Frame(e.router, frame.id).node = frame.node
      BY <2>2, <2>3, <2>4 DEF Frame
    <3>2. \A actions \in ActionsOf(frame.node, key) : AreActions(actions)
      BY <2>4, ActionsKnown
    <3>3. \A actions \in ActionsOf(Frame(e.router, frame.id).node, key) : AreActions(actions)
      BY <3>1, <3>2
    <3> HIDE DEF frame, key
    <3> QED BY <2>1, <2>2, <3>3, PropertyValueSealedRetraces
  <2>11. Ok(f) => f.router = Router(Append(b, y), frame.node, e.router.complete)
    <3> DEFINE s == Append(b, x)
               old == e.router
    <3>1. Replacing(s, {}) = Append(b, y)
      BY <2>3, LastReplaced
    <3>2. old.stack = s /\ Position(old, frame.id) = Len(s) /\ s[Len(s)] = x
      BY <2>2, <2>3
    <3>3. x.node = frame.node
      BY <2>4
    <3> HIDE DEF s, old, y, frame
    <3>4. Told(old, Len(s), {}, frame.node) = Router(Append(b, y), frame.node, old.complete)
      BY <3>1, <3>2, Zenon DEF Told, Replacing
    <3>5. Ok(f) => f.router = Told(old, Len(s), {}, frame.node)
      BY <2>10, <3>2, <3>3 DEF old
    <3> QED BY <3>4, <3>5 DEF old
  <2>12. e.router.complete = (d.root # {})
    BY <2>2, RouterFollows, RouterParts
  <2>13. Follows(f, n, r, m)
    <3> HIDE DEF y
    <3> QED BY <2>9, <2>10, <2>11, <2>12 DEF Follows
  <2> QED BY <1>1, <2>13 DEF f, n
<1> QED BY <1>2, <1>3

(* A value published in its frame, or as the root.                           *)
LEMMA PublishedFollows ==
    ASSUME Compiled, NEW d, DocumentFits(d), NEW e, NEW r, NEW m, Follows(e, d, r, m), NEW v
    PROVE  LET p == Published(d, v)
           IN  \E ev : p.events = <<ev>> /\ Follows(Handled(e, ev), p.document, r, m)
BY PublishedAtRoot, PublishedInArray, PublishedInObject

-------------------------------------------------------------------------------
(* What the automaton offers: a value where one belongs, a key or a closing    *)
(* where something is open.                                                   *)
LEMMA ValueKinds ==
    ASSUME NEW n, NEW t \in ValueTokens(n)
    PROVE  /\ t[1] \in {"scalar", "open"}
           /\ ~IsLeaf(n) => t = <<"open", schema[n].kind>>
<1>1. CASE IsLeaf(n)
  <2>1. t \in { <<"scalar", x>> : x \in GeneratedScalars(schema[n]) }
        \/ t \in {"open"} \X {"array", "object"}
    BY <1>1 DEF ValueTokens
  <2> QED BY <1>1, <2>1
<1>2. CASE ~IsLeaf(n)
  BY <1>2 DEF ValueTokens
<1> QED BY <1>1, <1>2

LEMMA FrameKinds ==
    ASSUME NEW f, FrameFits(f), NEW t \in FrameTokens(f)
    PROVE  \/ t[1] = "scalar"
           \/ t[1] = "close"
           \/ t[1] = "key"
           \/ /\ t[1] = "open" /\ t \in ValueTokens(ValueNode(f))
              /\ f.kind # "array" => f.key # {}
<1> DEFINE s == schema[f.node]
           count == Len(f.values)
           close == {<<"close">>}
           values == IF count < MaxItems THEN ValueTokens(ValueNode(f)) ELSE {}
           keys == { <<"key", key>> : key \in NextKeys(s, UsedKeys(f)) }
<1>1. ~IsLeaf(f.node)
  BY DEF FrameFits, IsLeaf, IsLeafNode
<1>2. \A x \in close : x[1] = "close"
  OBVIOUS
<1>3. \A x \in values : x \in ValueTokens(ValueNode(f))
  OBVIOUS
<1>4. \A x \in keys : x[1] = "key"
  OBVIOUS
<1>5. \/ t \in close
      \/ f.kind = "array" /\ t \in values
      \/ f.kind # "array" /\ f.key # {} /\ t \in ValueTokens(ValueNode(f))
      \/ t \in keys
  <2> HIDE DEF close, values, keys
  <2>1. CASE f.kind = "array"
    BY <1>1, <2>1 DEF FrameTokens, close, values
  <2>2. CASE f.kind # "array" /\ f.key # {}
    BY <1>1, <2>2 DEF FrameTokens
  <2>3. CASE f.kind # "array" /\ f.key = {}
    BY <1>1, <2>3 DEF FrameTokens, close, keys
  <2> QED BY <2>1, <2>2, <2>3
<1> HIDE DEF close, values, keys
<1>6. \A x \in ValueTokens(ValueNode(f)) : x[1] \in {"scalar", "open"}
  BY ValueKinds
<1> QED BY <1>2, <1>3, <1>4, <1>5, <1>6

LEMMA CandidateKinds ==
    ASSUME NEW d, DocumentFits(d), NEW t \in Candidates(d)
    PROVE  \/ t[1] = "scalar"
           \/ t[1] = "close" /\ d.open # <<>>
           \/ t[1] = "key" /\ d.open # <<>>
           \/ /\ t[1] = "open" /\ t \in ValueTokens(ExpectedNode(d))
              /\ d.open # <<>> /\ Last(d.open).kind # "array" => Last(d.open).key # {}
<1>1. CASE d.open = <<>>
  <2>1. t \in ValueTokens(root) /\ ExpectedNode(d) = root
    BY <1>1 DEF Candidates, ExpectedNode
  <2>2. t[1] \in {"scalar", "open"}
    BY <2>1, ValueKinds
  <2> QED BY <1>1, <2>1, <2>2
<1>2. CASE d.open # <<>>
  <2> DEFINE f == Last(d.open)
  <2>1. t \in FrameTokens(f) /\ ExpectedNode(d) = ValueNode(f)
    BY <1>2 DEF Candidates, ExpectedNode
  <2>2. FrameFits(f)
    BY <1>2, LastFollows
  <2> HIDE DEF f
  <2>3. \/ t[1] = "scalar"
        \/ t[1] = "close"
        \/ t[1] = "key"
        \/ /\ t[1] = "open" /\ t \in ValueTokens(ValueNode(f))
           /\ f.kind # "array" => f.key # {}
    BY <2>1, <2>2, FrameKinds
  <2> QED BY <1>2, <2>1, <2>3 DEF f
<1> QED BY <1>1, <1>2

LEMMA BeginFollows ==
    ASSUME NEW d, DocumentFits(d), NEW m, IsMemory(m), NEW counting
    PROVE  LET e == EffectOn(RouterOf(d), m, counting)
           IN  Follows(e, d, RouterOf(d), m) /\ Ok(e) /\ e.router = RouterOf(d)
<1>1. IsRouter(RouterOf(d))
  BY RouterOfFits
<1> DEFINE r == RouterOf(d)
           e == EffectOn(r, m, counting)
<1>2. Retraces(e, r, m)
  <2> HIDE DEF r
  <2> QED BY <1>1, BeginRetraces DEF r
<1>3. Ok(e) /\ e.router = r
  BY DEF EffectOn, Ok
<1> QED BY <1>2, <1>3 DEF Follows

(* Every token also adds to the text.                                        *)
Dated(p, t) == [p EXCEPT !.document.text = Append(@, t)]

LEMMA DatedFollows ==
    ASSUME NEW p, p = [document |-> p.document, events |-> p.events], NEW t,
           NEW e, NEW r, NEW m, Follows(e, p.document, r, m)
    PROVE  Dated(p, t).events = p.events /\ Follows(e, Dated(p, t).document, r, m)
<1> DEFINE d == p.document
           text == Append(d.text, t)
           n == [d EXCEPT !.text = text]
<1>1. Dated(p, t) = [document |-> n, events |-> p.events]
  <2>1. Dated(p, t) = [p EXCEPT !.document = n]
    BY DEF Dated
  <2> HIDE DEF n
  <2>2. ASSUME NEW q, q = [p EXCEPT !.document = n] PROVE q = [document |-> n, events |-> p.events]
    BY <2>2
  <2> QED BY <2>1, <2>2
<1>2. DocumentFits(d) => DocumentFits(n) /\ RouterOf(n) = RouterOf(d)
  <2> HIDE DEF d, text
  <2> QED BY TextAside
<1>3. Follows(e, n, r, m)
  <2> HIDE DEF n
  <2> QED BY <1>2 DEF Follows
<1> HIDE DEF n
<1> QED BY <1>1, <1>3

LEMMA PublishedShape ==
    ASSUME NEW d, NEW v
    PROVE  LET p == Published(d, v) IN p = [document |-> p.document, events |-> p.events]
BY Zenon DEF Published

LEMMA ScalarFollows ==
    ASSUME Compiled, NEW d, DocumentFits(d), NEW m, IsMemory(m), NEW counting,
           NEW t, t[1] = "scalar"
    PROVE  LET e == process_pending_events(EffectOn(RouterOf(d), m, counting), Read(d, t).events)
           IN  Follows(e, Read(d, t).document, RouterOf(d), m)
<1> DEFINE p == Published(d, Scalar(t[2]))
           e == EffectOn(RouterOf(d), m, counting)
           r == RouterOf(d)
<1>1. Read(d, t) = Dated(p, t)
  BY DEF Read, Dated
<1>2. Follows(e, d, r, m)
  BY BeginFollows
<1>3. PICK ev : p.events = <<ev>> /\ Follows(Handled(e, ev), p.document, r, m)
  <2> DEFINE v == Scalar(t[2])
  <2> HIDE DEF e, r, v
  <2> QED BY <1>2, PublishedFollows
<1>4. p = [document |-> p.document, events |-> p.events]
  BY PublishedShape
<1> DEFINE f == Handled(e, ev)
<1> HIDE DEF p, e, r, f
<1>5. Dated(p, t).events = <<ev>> /\ Follows(f, Dated(p, t).document, r, m)
  BY <1>3, <1>4, DatedFollows DEF f
<1>6. process_pending_events(e, <<ev>>) = f
  BY OneEvent DEF f
<1> QED BY <1>1, <1>5, <1>6 DEF e, r

LEMMA KeyFollows ==
    ASSUME NEW d, DocumentFits(d), NEW m, IsMemory(m), NEW counting,
           NEW t, t[1] = "key", d.open # <<>>
    PROVE  LET e == process_pending_events(EffectOn(RouterOf(d), m, counting), Read(d, t).events)
           IN  Follows(e, Read(d, t).document, RouterOf(d), m)
<1> DEFINE key == t[2]
           p == KeyRead(d, key)
           r == RouterOf(d)
           e == EffectOn(r, m, counting)
           frame == Last(d.open)
           ev == [type |-> "PropertyKeySealed", frame |-> frame.id, key |-> key]
           f == Handled(e, ev)
           b == StackOf(Front(d.open))
           x == Following(frame)
           g == [frame EXCEPT !.key = {key}]
           n == p.document
<1>1. Read(d, t) = Dated(p, t)
  BY DEF Read, Dated
<1>2. Follows(e, d, r, m) /\ Ok(e) /\ e.router = r
  BY BeginFollows
<1>3. p = [document |-> p.document, events |-> p.events] /\ p.events = <<ev>>
      /\ n = [d EXCEPT !.open[Len(d.open)].key = {key}]
  BY DEF KeyRead
<1>4. f = set_pending_property(e, frame.id, key)
  <2> HIDE DEF e, frame, key
  <2> QED BY <1>2 DEF Handled, Then, process_event
<1>5. /\ FrameFits(frame) /\ Position(r, frame.id) = Len(r.stack)
      /\ r.stack[Len(r.stack)] = x /\ r.stack = Append(b, x) /\ IsSeq(b)
      /\ Len(r.stack) = Len(b) + 1 /\ Len(r.stack) \in Nat \ {0}
  BY LastFollows
<1>6. LET i == Position(e.router, frame.id)
          child == PropertyNodes(e.router.stack[i].node, key)
      IN  /\ Retraces(f, r, m)
          /\ Ok(f) =>
               /\ Ok(e) /\ i # 0 /\ e.router.stack[i].kind = "object" /\ child # {}
               /\ f.router = Told(e.router, i, child, The(child))
  <2> HIDE DEF e, r, f, frame, key
  <2>1. Retraces(e, r, m)
    BY <1>2 DEF Follows
  <2> QED BY <1>4, <2>1, SetPendingProperty
<1> SUFFICES Follows(f, n, r, m)
  <2> HIDE DEF p, e, f, ev, r
  <2>1. process_pending_events(e, <<ev>>) = f
    BY OneEvent DEF f
  <2>2. Dated(p, t).events = <<ev>> /\ Follows(f, Dated(p, t).document, r, m)
    BY <1>3, DatedFollows, Zenon
  <2> QED BY <1>1, <2>1, <2>2 DEF e, r
<1> HIDE DEF e, f, r, p, b, x
<1>7. CASE ~Ok(f)
  BY <1>6, <1>7 DEF Follows
<1>8. CASE Ok(f)
  <2> DEFINE child == PropertyNodes(frame.node, key)
  <2>1. /\ x.kind = "object" /\ PropertyNodes(x.node, key) # {} /\ e.router = r
        /\ f.router = Told(r, Len(r.stack), PropertyNodes(x.node, key), The(PropertyNodes(x.node, key)))
    BY <1>2, <1>5, <1>6, <1>8
  <2>2. frame.kind # "array" /\ x.node = frame.node
    BY <2>1, FollowingFrame DEF x
  <2>3. frame.kind = "object" /\ schema[frame.node].kind = "object"
    BY <1>5, <2>2 DEF FrameFits
  <2>4. x = [kind |-> "object", id |-> frame.id, node |-> frame.node, property |-> PropertyOf(frame)]
    BY <2>2, FollowingFrame DEF x
  <2>5. g = [kind |-> "object", id |-> frame.id, node |-> frame.node, values |-> frame.values,
             key |-> {key}]
    <3> DEFINE k == {key}
    <3>1. frame = [kind |-> frame.kind, id |-> frame.id, node |-> frame.node,
                   values |-> frame.values, key |-> frame.key]
      BY <1>5 DEF FrameFits
    <3> HIDE DEF frame, k
    <3>2. ASSUME NEW h, h = [frame EXCEPT !.key = k]
          PROVE  h = [kind |-> "object", id |-> frame.id, node |-> frame.node,
                      values |-> frame.values, key |-> k]
      BY <2>3, <3>1, <3>2
    <3> QED BY <3>2, Zenon DEF k
  <2> HIDE DEF g
  <2>6. PropertyOf(g) = child /\ g.key # {} /\ The(g.key) = key /\ child # {}
    <3>1. The({key}) = key
      BY DEF The
    <3> QED BY <2>1, <2>2, <2>5, <3>1 DEF PropertyOf
  <2>7. FrameFits(g)
    BY <1>5, <2>3, <2>5, <2>6 DEF FrameFits
  <2> DEFINE y == Following(g)
  <2>8. y = [kind |-> "object", id |-> frame.id, node |-> frame.node, property |-> child]
    <3> HIDE DEF child
    <3>1. g.kind # "array" /\ g.id = frame.id /\ g.node = frame.node
      BY <2>5
    <3> QED BY <2>6, <3>1, FollowingFrame
  <2>9. n = Reopened(d, Append(Front(d.open), g))
    <3> DEFINE a == Front(d.open)
    <3>1. n = [d EXCEPT !.open = [d.open EXCEPT ![Len(d.open)] = g]]
      BY <1>3 DEF g, Last
    <3>2. IsSeq(a) /\ d.open = Append(a, frame) /\ Len(d.open) = Len(a) + 1 /\ Len(a) \in Nat
      BY StackShrinks, IsSeqFront DEF DocumentFits
    <3> HIDE DEF a, frame
    <3>3. [Append(a, frame) EXCEPT ![Len(a) + 1] = g] = Append(a, g)
      <4> DEFINE s == Append(a, frame)
                 u == [s EXCEPT ![Len(a) + 1] = g]
                 w == Append(a, g)
      <4>1. /\ IsSeq(s) /\ Len(s) = Len(a) + 1 /\ \A i \in 1..Len(a) : s[i] = a[i]
            /\ IsSeq(w) /\ Len(w) = Len(a) + 1 /\ w[Len(a) + 1] = g
            /\ \A i \in 1..Len(a) : w[i] = a[i]
            /\ DOMAIN s = 1..(Len(a) + 1)
        <5>1. IsSeq(s) /\ Len(s) = Len(a) + 1 /\ \A i \in 1..Len(a) : s[i] = a[i]
          BY <3>2, IsSeqAppend
        <5>2. /\ IsSeq(w) /\ Len(w) = Len(a) + 1 /\ w[Len(a) + 1] = g
              /\ \A i \in 1..Len(a) : w[i] = a[i]
          BY <3>2, IsSeqAppend
        <5> HIDE DEF s
        <5>3. DOMAIN s = 1..(Len(a) + 1)
          BY <5>1, IsSeqLen
        <5> QED BY <5>1, <5>2, <5>3
      <4> HIDE DEF s, w
      <4>2. /\ u = [i \in 1..(Len(a) + 1) |-> u[i]]
            /\ u[Len(a) + 1] = g /\ \A i \in 1..Len(a) : u[i] = a[i]
        <5>1. Len(a) + 1 \in DOMAIN s /\ \A i \in 1..Len(a) : i \in DOMAIN s /\ i # Len(a) + 1
          BY <3>2, <4>1
        <5>2. DOMAIN u = DOMAIN s /\ u = [i \in DOMAIN u |-> u[i]]
          OBVIOUS
        <5>3. u[Len(a) + 1] = g /\ \A i \in 1..Len(a) : u[i] = s[i]
          BY <5>1
        <5> HIDE DEF u
        <5> QED BY <4>1, <5>2, <5>3
      <4> HIDE DEF u
      <4>3. IsSeq(u) /\ Len(u) = Len(a) + 1
        BY <3>2, <4>2, FunctionIsSeq
      <4>4. \A i \in 1..Len(u) : u[i] = w[i]
        <5>1. \A i \in 1..Len(u) : i \in 1..Len(a) \/ i = Len(a) + 1
          BY <3>2, <4>3
        <5> QED BY <4>1, <4>2, <5>1
      <4>5. u = w
        BY <4>1, <4>3, <4>4, IsSeqEqual
      <4> QED BY <4>5 DEF u, w, s
    <3> QED BY <3>1, <3>2, <3>3, Zenon DEF Reopened, a
  <2> HIDE DEF y, child, n
  <2>10. /\ DocumentFits(n)
         /\ RouterOf(n) = Router(Append(b, y), The(child), d.root # {})
    <3>1. /\ DocumentFits(n)
          /\ LET s == Append(StackOf(Front(d.open)), Following(g))
                 z == Following(g)
             IN  RouterOf(n) = Router(s, IF z.kind = "array" THEN z.item
                                         ELSE IF z.property # {} THEN The(z.property) ELSE z.node,
                                      d.root # {})
      <4> HIDE DEF frame
      <4> QED BY <2>7, <2>9, LastFrameReplaced
    <3>2. y.kind # "array" /\ y.property = child
      BY <2>8
    <3> QED BY <2>6, <3>1, <3>2 DEF b, y
  <2>11. f.router = Router(Append(b, y), The(child), r.complete)
    <3> DEFINE s == Append(b, x)
    <3>1. y = Forgetting(x, child)
      <4> HIDE DEF frame
      <4> DEFINE old == PropertyOf(frame)
                 id == frame.id
                 node == frame.node
                 z == Forgetting(x, child)
      <4> HIDE DEF old, id, node, z
      <4>1. z = [kind |-> "object", id |-> id, node |-> node, property |-> child]
        <5>1. x = [kind |-> "object", id |-> id, node |-> node, property |-> old]
          BY <2>4 DEF old, id, node
        <5>2. z = Forgetting(x, child)
          BY DEF z
        <5> QED BY <5>1, <5>2, PropertyForgotten
      <4> QED BY <2>8, <4>1 DEF id, node, z
    <3>2. Replacing(s, child) = Append(b, y)
      BY <1>5, <3>1, LastReplaced
    <3>3. r.stack = s /\ Len(r.stack) = Len(s)
      BY <1>5
    <3>4. f.router = Told(r, Len(s), child, The(child))
      BY <2>1, <2>2, <3>3 DEF child
    <3> HIDE DEF s
    <3> QED BY <3>2, <3>3, <3>4, Zenon DEF Told, Replacing
  <2>12. r.complete = (d.root # {})
    BY RouterFollows, RouterParts DEF r
  <2> QED BY <1>6, <2>10, <2>11, <2>12 DEF Follows
<1> QED BY <1>7, <1>8

-------------------------------------------------------------------------------
(* The node of the next value is what the router has pending.                  *)
LEMMA ExpectedPending ==
    ASSUME Compiled, NEW d, DocumentFits(d),
           d.open # <<>> /\ Last(d.open).kind # "array" => Last(d.open).key # {}
    PROVE  RouterOf(d).pending = ExpectedNode(d) /\ ExpectedNode(d) \in DOMAIN schema
<1>1. CASE d.open = <<>>
  <2>1. StackOf(d.open) = <<>>
    <3>1. IsSeq(StackOf(d.open)) /\ Len(StackOf(d.open)) = Len(d.open)
      BY StackFollows DEF DocumentFits
    <3> QED BY <1>1, <3>1 DEF IsSeq
  <2>2. RouterOf(d).pending = root
    BY <2>1, RouterFollows, RouterParts DEF PendingAfterClose
  <2> QED BY <1>1, <2>2 DEF ExpectedNode, Compiled, SchemaFits
<1>2. CASE d.open # <<>>
  <2> DEFINE f == Last(d.open)
             b == StackOf(Front(d.open))
             x == Following(f)
  <2>1. FrameFits(f) /\ RouterOf(d).stack = Append(b, x) /\ IsSeq(b)
    BY <1>2, LastFollows
  <2>2. RouterOf(d).pending = PendingAfterClose(RouterOf(d).stack)
    BY RouterFollows, RouterParts
  <2>3. ExpectedNode(d) = ValueNode(f)
    BY <1>2 DEF ExpectedNode
  <2>4. f.kind # "array" => f.key # {}
    BY <1>2
  <2> HIDE DEF b, f
  <2>5. RouterOf(d).pending = IF x.kind = "array" THEN x.item
                              ELSE IF x.property # {} THEN The(x.property) ELSE x.node
    <3> HIDE DEF x
    <3> QED BY <2>1, <2>2, PendingThere
  <2>6. f.node \in DOMAIN schema /\ schema[f.node].kind = f.kind /\ f.kind \in {"array", "object"}
        /\ ~IsLeaf(f.node) /\ NodeFits(schema, schema[f.node])
    BY <2>1 DEF FrameFits, IsLeaf, IsLeafNode, Compiled, SchemaFits
  <2>7. CASE f.kind = "array"
    <3>1. x.kind = "array" /\ x.item = schema[f.node].items
      BY <2>7, FollowingFrame
    <3>2. ValueNode(f) = schema[f.node].items
      BY <2>6, <2>7 DEF ValueNode
    <3>3. schema[f.node].items \in DOMAIN schema
      BY <2>6, <2>7 DEF NodeFits
    <3> HIDE DEF x
    <3> QED BY <2>3, <2>5, <3>1, <3>2, <3>3
  <2>8. CASE f.kind = "object"
    <3> DEFINE nodes == PropertyNodes(f.node, The(f.key))
    <3>1. x.kind = "object" /\ x.property = PropertyOf(f)
      BY <2>8, FollowingFrame
    <3>2. PropertyOf(f) = nodes /\ nodes # {}
      BY <2>1, <2>4, <2>8 DEF PropertyOf, FrameFits
    <3>3. ValueNode(f) = The(nodes)
      BY <2>6, <2>8 DEF ValueNode
    <3>4. \A p \in ToSet(schema[f.node].properties) : p[2] \in DOMAIN schema
      BY <2>6, <2>8 DEF NodeFits
    <3>5. nodes \subseteq DOMAIN schema
      BY <3>4 DEF PropertyNodes
    <3> HIDE DEF nodes
    <3>6. The(nodes) \in nodes
      BY <3>2 DEF The
    <3> HIDE DEF x
    <3> QED BY <2>3, <2>5, <3>1, <3>2, <3>3, <3>5, <3>6
  <2> QED BY <2>6, <2>7, <2>8
<1> QED BY <1>1, <1>2

(* A frame opened for the expected node.                                     *)
LEMMA FrameOpened ==
    ASSUME Compiled, NEW d, DocumentFits(d), NEW kind, kind \in {"array", "object"},
           NEW id, NEW node \in DOMAIN schema, schema[node].kind = kind, NEW pool, NEW n,
           n = Repooled(d, Append(d.open, OpenFrame(kind, id, node)), pool)
    PROVE  /\ DocumentFits(n)
           /\ kind = "array" =>
                RouterOf(n) = Router(Append(StackOf(d.open), RuntimeArray(id, node)),
                                     schema[node].items, d.root # {})
           /\ kind = "object" =>
                RouterOf(n) = Router(Append(StackOf(d.open), RuntimeObject(id, node)),
                                     node, d.root # {})
<1> DEFINE g == OpenFrame(kind, id, node)
           open == Append(d.open, g)
           x == Following(g)
           t == StackOf(d.open)
<1>1. g = [kind |-> kind, id |-> id, node |-> node, values |-> <<>>, key |-> {}]
  BY DEF OpenFrame
<1>2. FrameFits(g) /\ PropertyOf(g) = {}
  BY <1>1 DEF FrameFits, PropertyOf
<1> HIDE DEF g
<1>3. IsSeq(d.open) /\ IsSeq(open) /\ \A i \in 1..Len(open) : FrameFits(open[i])
  BY <1>2, FramesGrow DEF DocumentFits
<1>4. StackOf(open) = Append(t, x) /\ IsSeq(t)
  BY <1>3, StackGrows, StackFollows
<1>5. DocumentFits(n) /\ n.open = open /\ n.root = d.root
  <2>1. n = Repooled(d, open, pool)
    BY DEF g
  <2> HIDE DEF open
  <2> QED BY <1>3, <2>1, OpenReplaced
<1>6. RouterOf(n) = Router(Append(t, x), PendingAfterClose(Append(t, x)), d.root # {})
  BY <1>4, <1>5, RouterFollows, Zenon
<1>7. PendingAfterClose(Append(t, x)) = IF x.kind = "array" THEN x.item
                                        ELSE IF x.property # {} THEN The(x.property) ELSE x.node
  <2> HIDE DEF t, x
  <2> QED BY <1>4, PendingThere
<1>8. kind = "array" => x = RuntimeArray(id, node) /\ x.kind = "array" /\ x.item = schema[node].items
  BY <1>1 DEF Following, RuntimeArray
<1>9. kind = "object" => x = RuntimeObject(id, node) /\ x.kind = "object" /\ x.property = {}
                         /\ x.node = node
  <2> SUFFICES ASSUME kind = "object"
               PROVE  x = RuntimeObject(id, node) /\ x.kind = "object" /\ x.property = {}
                      /\ x.node = node
    OBVIOUS
  <2>1. g.kind # "array" /\ g.id = id /\ g.node = node
    BY <1>1
  <2>2. x = [kind |-> "object", id |-> id, node |-> node, property |-> {}]
    BY <1>2, <2>1, FollowingFrame
  <2> QED BY <2>2 DEF RuntimeObject
<1> HIDE DEF x, t
<1> QED BY <1>5, <1>6, <1>7, <1>8, <1>9 DEF t

LEMMA OpenFollows ==
    ASSUME Compiled, NEW d, DocumentFits(d), NEW m, IsMemory(m), NEW counting,
           NEW t, t[1] = "open", t \in ValueTokens(ExpectedNode(d)),
           d.open # <<>> /\ Last(d.open).kind # "array" => Last(d.open).key # {}
    PROVE  LET e == process_pending_events(EffectOn(RouterOf(d), m, counting), Read(d, t).events)
           IN  Follows(e, Read(d, t).document, RouterOf(d), m)
<1> DEFINE kind == t[2]
           p == Opened(d, kind)
           r == RouterOf(d)
           e == EffectOn(r, m, counting)
           id == Allocated(d.pool)
           node == ExpectedNode(d)
           type == IF kind = "array" THEN "ArrayStart" ELSE "ObjectStart"
           ev == [type |-> type, frame |-> id]
           f == Handled(e, ev)
           n == p.document
           pool == Allocate(d.pool)
<1>1. Read(d, t) = Dated(p, t)
  BY DEF Read, Dated
<1>2. Follows(e, d, r, m) /\ Ok(e) /\ e.router = r
  BY BeginFollows
<1>3. p = [document |-> p.document, events |-> p.events] /\ p.events = <<ev>>
      /\ n = Repooled(d, Append(d.open, OpenFrame(kind, id, node)), pool)
  BY Zenon DEF Opened, Repooled
<1>4. r.pending = node /\ node \in DOMAIN schema
  BY ExpectedPending
<1>5. r.stack = StackOf(d.open) /\ r.complete = (d.root # {})
  BY RouterFollows, RouterParts
<1>6. Retraces(e, r, m)
  BY <1>2 DEF Follows
<1>7. schema[node].kind = "object" => kind = "object" \/ kind = "array"
  <2> SUFFICES ASSUME schema[node].kind = "object" PROVE kind = "object"
    OBVIOUS
  <2>1. ~IsLeaf(node)
    BY DEF IsLeaf, IsLeafNode
  <2> HIDE DEF node
  <2>2. t = <<"open", schema[node].kind>>
    BY <2>1, ValueKinds DEF node
  <2> QED BY <2>2
<1> SUFFICES Follows(f, n, r, m)
  <2> HIDE DEF p, e, f, ev, r
  <2>1. process_pending_events(e, <<ev>>) = f
    BY OneEvent DEF f
  <2>2. Dated(p, t).events = <<ev>> /\ Follows(f, Dated(p, t).document, r, m)
    BY <1>3, DatedFollows
  <2> QED BY <1>1, <2>1, <2>2 DEF e, r
<1>8. f = IF kind = "array" THEN ArrayStarted(e, id) ELSE ObjectStarted(e, id)
  <2> HIDE DEF e, id, kind
  <2> QED BY <1>2 DEF Handled, Then, process_event
<1> HIDE DEF e, f, r, p, node, id, kind, pool
<1>9. CASE kind = "array"
  <2>1. LET q == e.router.pending
        IN  /\ Retraces(f, r, m)
            /\ Ok(f) =>
                 /\ Ok(e) /\ schema[q].kind = "array"
                 /\ f.router = Router(Append(e.router.stack, RuntimeArray(id, q)),
                                      schema[q].items, e.router.complete)
    BY <1>6, <1>8, <1>9, ArrayStartedRetraces
  <2>2. CASE ~Ok(f)
    BY <2>1, <2>2 DEF Follows
  <2>3. CASE Ok(f)
    <3>1. schema[node].kind = kind
      BY <1>2, <1>4, <1>9, <2>1, <2>3
    <3>2. DocumentFits(n) /\ RouterOf(n) = Router(Append(StackOf(d.open), RuntimeArray(id, node)),
                                                  schema[node].items, d.root # {})
      BY <1>3, <1>4, <1>9, <3>1, FrameOpened
    <3> QED BY <1>2, <1>4, <1>5, <2>1, <2>3, <3>2 DEF Follows
  <2> QED BY <2>2, <2>3
<1>10. CASE kind # "array"
  <2>1. LET q == e.router.pending
        IN  /\ Retraces(f, r, m)
            /\ Ok(f) =>
                 /\ Ok(e) /\ schema[q].kind = "object"
                 /\ f.router = Router(Append(e.router.stack, RuntimeObject(id, q)),
                                      q, e.router.complete)
    BY <1>6, <1>8, <1>10, ObjectStartedRetraces
  <2>2. CASE ~Ok(f)
    BY <2>1, <2>2 DEF Follows
  <2>3. CASE Ok(f)
    <3>1. schema[node].kind = kind /\ kind = "object"
      BY <1>2, <1>4, <1>7, <1>10, <2>1, <2>3
    <3>2. DocumentFits(n) /\ RouterOf(n) = Router(Append(StackOf(d.open), RuntimeObject(id, node)),
                                                  node, d.root # {})
      BY <1>3, <1>4, <3>1, FrameOpened
    <3> QED BY <1>2, <1>4, <1>5, <2>1, <2>3, <3>2 DEF Follows
  <2> QED BY <2>2, <2>3
<1> QED BY <1>9, <1>10

(* Two events in a row.                                                     *)
LEMMA TwoInARow ==
    ASSUME NEW a, NEW b
    PROVE  <<a>> \o <<b>> = <<a, b>>
<1> DEFINE T == {a, b}
<1>1. <<a>> \in Seq(T) /\ <<b>> \in Seq(T) /\ <<a, b>> \in Seq(T)
  OBVIOUS
<1>2. Len(<<a>>) = 1 /\ Len(<<b>>) = 1 /\ Len(<<a, b>>) = 2
      /\ <<a>>[1] = a /\ <<b>>[1] = b /\ <<a, b>>[1] = a /\ <<a, b>>[2] = b
  OBVIOUS
<1> HIDE DEF T
<1>3. IsSeq(<<a>>) /\ IsSeq(<<b>>) /\ IsSeq(<<a, b>>)
  BY <1>1, SeqIsSeq, Zenon
<1> DEFINE s == <<a>>  t == <<b>>  u == <<a, b>>
<1>4. IsSeq(s) /\ IsSeq(t) /\ IsSeq(u) /\ Len(s) = 1 /\ Len(t) = 1 /\ Len(u) = 2
      /\ s[1] = a /\ t[1] = b /\ u[1] = a /\ u[2] = b
  BY <1>2, <1>3
<1> HIDE DEF s, t, u
<1>5. IsSeq(s \o t) /\ Len(s \o t) = Len(s) + Len(t)
      /\ (\A i \in 1..Len(s) : (s \o t)[i] = s[i]) /\ \A i \in 1..Len(t) : (s \o t)[Len(s) + i] = t[i]
  <2>1. IsSeq(s) /\ IsSeq(t)
    BY <1>4
  <2> QED BY <2>1, IsSeqConcat
<1>6. \A i \in 1..2 : (s \o t)[i] = u[i]
  BY <1>4, <1>5
<1>7. s \o t = u
  <2> DEFINE w == s \o t
  <2>1. IsSeq(w) /\ IsSeq(u) /\ Len(w) = Len(u) /\ Len(w) = 2 /\ \A i \in 1..2 : w[i] = u[i]
    BY <1>4, <1>5, <1>6
  <2> HIDE DEF w
  <2>2. w = u
    BY <2>1, IsSeqEqual, Zenon
  <2> QED BY <2>2 DEF w
<1> QED BY <1>7 DEF s, t, u

(* The last open frame closed, before its value is published.                 *)
Ending(frame) ==
    [type |-> IF frame.kind = "array" THEN "ArrayEnd" ELSE "ObjectEnd", frame |-> frame.id]
Shortened(d) == Repooled(d, Front(d.open), Release(d.pool, Last(d.open).id))

LEMMA EndingFollows ==
    ASSUME NEW d, DocumentFits(d), d.open # <<>>, NEW e, NEW r, NEW m, Follows(e, d, r, m), Ok(e)
    PROVE  DocumentFits(Shortened(d)) /\ Follows(Handled(e, Ending(Last(d.open))), Shortened(d), r, m)
<1> DEFINE frame == Last(d.open)
           a == Front(d.open)
           b == StackOf(a)
           pool == Release(d.pool, frame.id)
           n == Shortened(d)
           ev == Ending(frame)
           f == Handled(e, ev)
           q == RouterOf(d)
<1>1. Retraces(e, r, m) /\ e.router = q /\ Front(q.stack) = b
  BY LastFollows DEF Follows
<1>2. /\ Retraces(f, r, m)
      /\ Ok(f) => f.router = Router(Front(e.router.stack), PendingAfterClose(Front(e.router.stack)),
                                    e.router.complete)
  <2>1. CASE frame.kind = "array"
    <3>1. f = ArrayEnded(e, frame.id)
      BY <2>1 DEF Handled, Then, process_event, Ending
    <3> HIDE DEF f, frame
    <3> QED BY <1>1, <3>1, ArrayEndedRetraces
  <2>2. CASE frame.kind # "array"
    <3>1. f = ObjectEnded(e, frame.id)
      BY <2>2 DEF Handled, Then, process_event, Ending
    <3> HIDE DEF f, frame
    <3> QED BY <1>1, <3>1, ObjectEndedRetraces
  <2> QED BY <2>1, <2>2
<1>3. IsSeq(a) /\ \A i \in 1..Len(a) : FrameFits(a[i])
  BY FramesShrink DEF DocumentFits
<1>4. n = Repooled(d, a, pool)
  BY DEF Shortened
<1> HIDE DEF a, pool, n, f, frame, q
<1>5. DocumentFits(n) /\ n.open = a /\ n.root = d.root
  BY <1>3, <1>4, OpenReplaced
<1>6. RouterOf(n) = Router(b, PendingAfterClose(b), d.root # {})
  BY <1>5, RouterFollows
<1>7. q.complete = (d.root # {})
  BY RouterFollows, RouterParts DEF q
<1>8. Follows(f, n, r, m)
  <2> HIDE DEF b
  <2> QED BY <1>1, <1>2, <1>5, <1>6, <1>7 DEF Follows
<1> QED BY <1>5, <1>8 DEF f, n, frame

LEMMA ClosedParts ==
    ASSUME NEW d, DocumentFits(d), d.open # <<>>
    PROVE  \E v : LET up == Published(Shortened(d), v)
                 IN  Closed(d) = [document |-> up.document,
                                  events |-> <<Ending(Last(d.open))>> \o up.events]
<1> DEFINE frame == Last(d.open)
           value == IF frame.kind = "array" THEN ArrayValue(frame.values)
                    ELSE ObjectValue(frame.values)
           n == [d EXCEPT !.open = Front(@), !.pool = Release(@, frame.id)]
           up == Published(n, value)
           ev == Ending(frame)
           p == Closed(d)
<1>1. p = [up EXCEPT !.events = <<ev>> \o @]
  BY DEF Closed, Ending
<1>2. n = Shortened(d)
  BY DEF Shortened, Repooled
<1>3. up = [document |-> up.document, events |-> up.events]
  BY PublishedShape
<1> HIDE DEF up, p, ev
<1>4. p = [document |-> up.document, events |-> <<ev>> \o up.events]
  BY <1>1, <1>3, Zenon
<1> QED BY <1>2, <1>4 DEF up, p, ev

LEMMA CloseFollows ==
    ASSUME Compiled, NEW d, DocumentFits(d), NEW m, IsMemory(m), NEW counting,
           NEW t, t[1] = "close", d.open # <<>>
    PROVE  LET e == process_pending_events(EffectOn(RouterOf(d), m, counting), Read(d, t).events)
           IN  Follows(e, Read(d, t).document, RouterOf(d), m)
<1> DEFINE p == Closed(d)
           r == RouterOf(d)
           e == EffectOn(r, m, counting)
           ev == Ending(Last(d.open))
           f == Handled(e, ev)
           n == Shortened(d)
<1>1. Read(d, t) = Dated(p, t)
  BY DEF Read, Dated
<1>2. Follows(e, d, r, m) /\ Ok(e)
  BY BeginFollows
<1>3. PICK v : LET up == Published(n, v)
               IN  p = [document |-> up.document, events |-> <<ev>> \o up.events]
  BY ClosedParts
<1> DEFINE up == Published(n, v)
<1>4. p = [document |-> up.document, events |-> <<ev>> \o up.events]
  BY <1>3
<1> HIDE DEF r, e
<1>5. DocumentFits(n) /\ Follows(f, n, r, m)
  BY <1>2, EndingFollows
<1> HIDE DEF n, f, p
<1>6. PICK two : up.events = <<two>> /\ Follows(Handled(f, two), up.document, r, m)
  BY <1>5, PublishedFollows
<1> DEFINE g == Handled(f, two)
<1>7. p.events = <<ev, two>> /\ p.document = up.document
      /\ p = [document |-> p.document, events |-> p.events]
  <2> HIDE DEF up, ev
  <2>1. <<ev>> \o <<two>> = <<ev, two>>
    BY TwoInARow
  <2> QED BY <1>4, <1>6, <2>1
<1>8. process_pending_events(e, <<ev, two>>) = g
  BY TwoEvents DEF f
<1> HIDE DEF up, ev, g
<1>9. Dated(p, t).events = <<ev, two>> /\ Follows(g, Dated(p, t).document, r, m)
  BY <1>6, <1>7, DatedFollows DEF g
<1> QED BY <1>1, <1>8, <1>9 DEF e, r

(* A token that the automaton offers is processed so that all it did is taken *)
(* back, and done, the router follows the document.                          *)
LEMMA TokenFollows ==
    ASSUME Compiled, NEW d, DocumentFits(d), NEW m, IsMemory(m), NEW counting,
           NEW t \in Candidates(d)
    PROVE  LET e == process_pending_events(EffectOn(RouterOf(d), m, counting), Read(d, t).events)
           IN  Follows(e, Read(d, t).document, RouterOf(d), m)
<1>1. \/ t[1] = "scalar"
      \/ t[1] = "close" /\ d.open # <<>>
      \/ t[1] = "key" /\ d.open # <<>>
      \/ /\ t[1] = "open" /\ t \in ValueTokens(ExpectedNode(d))
         /\ d.open # <<>> /\ Last(d.open).kind # "array" => Last(d.open).key # {}
  BY CandidateKinds
<1> QED BY <1>1, ScalarFollows, CloseFollows, KeyFollows, OpenFollows, Zenon

-------------------------------------------------------------------------------
(* What an extension plan makes of a schema.                                 *)
PlannedAll(all, o) == UNION { Planned(done, root, o) : done \in all }

Joining == INSTANCE Folding WITH Op <- Joined
Planning == INSTANCE Folding WITH Op <- PlannedAll

LEMMA JoinedStays ==
    ASSUME NEW S, NEW parts, IsSeq(parts), \A i \in 1..Len(parts) : parts[i] \in Seq(S)
    PROVE  FoldLeft(Joined, <<>>, parts) \in Seq(S)
<1> DEFINE Stage(n) == Joining!Left(<<>>, Joining!Truncate(parts, n))
           T == { n \in Nat : n <= Len(parts) => Stage(n) \in Seq(S) }
<1>1. FoldLeft(Joined, <<>>, parts) = Joining!Left(<<>>, parts)
  BY DEF FoldLeft, MapThenFoldSet, Max, Joining!Left, Joining!FoldLeft, Joining!MapThenFoldSet,
         Joining!Max
<1>2. Joining!IsSeq(parts)
  BY DEF IsSeq, ToSet, Joining!IsSeq, Joining!ToSet
<1>3. /\ Stage(0) = <<>>
      /\ \A n \in Nat : n + 1 <= Len(parts) => Stage(n + 1) = Joined(Stage(n), parts[n + 1])
      /\ Stage(Len(parts)) = Joining!Left(<<>>, parts)
  <2>1. /\ Joining!Left(<<>>, Joining!Truncate(parts, 0)) = <<>>
        /\ \A n \in Nat : n + 1 <= Len(parts) =>
               Joining!Left(<<>>, Joining!Truncate(parts, n + 1))
                 = Joined(Joining!Left(<<>>, Joining!Truncate(parts, n)), parts[n + 1])
        /\ Joining!Truncate(parts, Len(parts)) = parts
    BY <1>2, Joining!LeftStages, Zenon
  <2> QED BY <2>1
<1> HIDE DEF Stage
<1>4. 0 \in T
  <2>1. <<>> \in Seq(S)
    OBVIOUS
  <2> QED BY <1>3, <2>1, Zenon
<1>5. ASSUME NEW n \in Nat, n \in T PROVE n + 1 \in T
  <2> SUFFICES ASSUME n + 1 <= Len(parts) PROVE Stage(n + 1) \in Seq(S)
    OBVIOUS
  <2>1. Len(parts) \in Nat
    BY IsSeqLen
  <2>2. Stage(n) \in Seq(S) /\ parts[n + 1] \in Seq(S)
    BY <1>5, <2>1
  <2>3. Stage(n + 1) = Stage(n) \o parts[n + 1]
    BY <1>3 DEF Joined
  <2>4. \A a, b \in Seq(S) : a \o b \in Seq(S)
    OBVIOUS
  <2> QED BY <2>2, <2>3, <2>4, Zenon
<1> HIDE DEF T
<1>6. Len(parts) \in T
  BY <1>4, <1>5, Induct, IsSeqLen, Zenon
<1> QED BY <1>1, <1>3, <1>6, IsSeqLen DEF T

LEMMA CapturesList ==
    ASSUME NEW o, IsList(o.captures), NEW next, NEW property
    PROVE  IsSeq(CapturesOf(o, next, property))
<1> DEFINE many == o.captures
           Part(i) == IF many[i].source = property
                      THEN <<RegisterOf(o, next, many[i].name)>> ELSE <<>>
           parts == [i \in DOMAIN many |-> Part(i)]
           S == { RegisterOf(o, next, many[i].name) : i \in DOMAIN many }
<1>1. IsSeq(many)
  BY SeqIsSeq DEF IsList
<1>2. Len(many) \in Nat /\ DOMAIN many = 1..Len(many)
  BY <1>1, IsSeqLen
<1>3. ASSUME NEW i \in DOMAIN many PROVE Part(i) \in Seq(S)
  <2> DEFINE made == RegisterOf(o, next, many[i].name)
  <2>1. made \in S
    OBVIOUS
  <2>2. <<>> \in Seq(S)
    OBVIOUS
  <2>3. Part(i) = IF many[i].source = property THEN <<made>> ELSE <<>>
    OBVIOUS
  <2> HIDE DEF made, many, S, Part
  <2>4. <<made>> \in Seq(S)
    BY <2>1
  <2> QED BY <2>2, <2>3, <2>4
<1>4. CapturesOf(o, next, property) = FoldLeft(Joined, <<>>, parts)
  BY DEF CapturesOf
<1> HIDE DEF S, many, Part
<1>5. parts \in Seq(Seq(S)) /\ Len(parts) = Len(many)
      /\ \A i \in 1..Len(parts) : parts[i] \in Seq(S)
  BY <1>2, <1>3
<1>6. IsSeq(parts)
  BY <1>5, SeqIsSeq
<1> HIDE DEF parts
<1>7. FoldLeft(Joined, <<>>, parts) \in Seq(S)
  BY <1>5, <1>6, JoinedStays
<1> QED BY <1>4, <1>7, SeqIsSeq

LEMMA RelationsList ==
    ASSUME NEW o, IsList(o.relations),
           \A relation \in ToSet(o.relations) : relation.operator \in Operators,
           NEW next, NEW property
    PROVE  AreRelations(RelationsOf(o, next, property))
<1> DEFINE many == o.relations
           Part(i) == IF many[i].target = property
                      THEN <<RelationPlan(o, next, many[i])>> ELSE <<>>
           parts == [i \in DOMAIN many |-> Part(i)]
           S == { RelationPlan(o, next, many[i]) : i \in DOMAIN many }
<1>1. IsSeq(many)
  BY SeqIsSeq DEF IsList
<1>2. Len(many) \in Nat /\ DOMAIN many = 1..Len(many)
  BY <1>1, IsSeqLen
<1>3. ASSUME NEW i \in DOMAIN many PROVE Part(i) \in Seq(S)
  <2> DEFINE made == RelationPlan(o, next, many[i])
  <2>1. made \in S
    OBVIOUS
  <2>2. <<>> \in Seq(S)
    OBVIOUS
  <2>3. Part(i) = IF many[i].target = property THEN <<made>> ELSE <<>>
    OBVIOUS
  <2> HIDE DEF made, many, S, Part
  <2>4. <<made>> \in Seq(S)
    BY <2>1
  <2> QED BY <2>2, <2>3, <2>4
<1>4. RelationsOf(o, next, property) = FoldLeft(Joined, <<>>, parts)
  BY DEF RelationsOf
<1>5. \A s \in S : s.operator \in Operators
  <2>1. \A i \in DOMAIN many : many[i].operator \in Operators
    BY DEF ToSet
  <2>2. \A relation : RelationPlan(o, next, relation).operator = relation.operator
    BY DEF RelationPlan
  <2> HIDE DEF many
  <2> QED BY <2>1, <2>2
<1> HIDE DEF S, many, Part
<1>6. parts \in Seq(Seq(S)) /\ Len(parts) = Len(many)
      /\ \A i \in 1..Len(parts) : parts[i] \in Seq(S)
  BY <1>2, <1>3
<1>7. IsSeq(parts)
  BY <1>6, SeqIsSeq
<1> HIDE DEF parts
<1>8. FoldLeft(Joined, <<>>, parts) \in Seq(S)
  BY <1>6, <1>7, JoinedStays
<1> DEFINE all == FoldLeft(Joined, <<>>, parts)
<1> HIDE DEF all
<1>9. all \in Seq(S)
  BY <1>8 DEF all
<1>10. IsSeq(all) /\ \A i \in 1..Len(all) : all[i] \in S
  BY <1>9, SeqIsSeq
<1> QED BY <1>4, <1>5, <1>10 DEF AreRelations, all

-------------------------------------------------------------------------------
(* A schema as it is while a plan is applied to it.                          *)
Fits(ir) == SchemaFits(ir, root) /\ ActionsFit(ir)

(* A node with the properties and the actions of a plan's object.            *)
Given(s, properties, yes, actions) ==
    [kind |-> "object", properties |-> properties, required |-> s.required, fixed |-> yes,
     actions |-> actions]

Reordered(s, properties) == [s EXCEPT !.properties = properties]
Settled(s, yes) == [s EXCEPT !.fixed = yes]
Acting(s, actions) == [s EXCEPT !.actions = actions]

LEMMA GivenNode ==
    ASSUME NEW s, s = [kind |-> "object", properties |-> s.properties, required |-> s.required,
                       fixed |-> s.fixed, actions |-> s.actions],
           NEW properties, NEW yes, NEW actions
    PROVE  Acting(Settled(Reordered(s, properties), yes), actions)
             = Given(s, properties, yes, actions)
<1> DEFINE Node(p, r, f, a) ==
               [kind |-> "object", properties |-> p, required |-> r, fixed |-> f, actions |-> a]
<1>1. \A p, r, f, a, q : Reordered(Node(p, r, f, a), q) = Node(q, r, f, a)
  BY DEF Reordered
<1>2. \A p, r, f, a, y : Settled(Node(p, r, f, a), y) = Node(p, r, y, a)
  BY DEF Settled
<1>3. \A p, r, f, a, c : Acting(Node(p, r, f, a), c) = Node(p, r, f, c)
  BY DEF Acting
<1>4. s = Node(s.properties, s.required, s.fixed, s.actions)
      /\ Given(s, properties, yes, actions) = Node(properties, s.required, yes, actions)
  BY DEF Given
<1> HIDE DEF Node
<1> QED BY <1>1, <1>2, <1>3, <1>4

LEMMA OrderedFits ==
    ASSUME NEW ir, NEW node \in DOMAIN ir, NodeFits(ir, ir[node]), ir[node].kind = "object",
           NEW order, IsList(order), validate_order(ir[node].properties, order)
    PROVE  LET p == Ordered(ir, node, order)
           IN  IsList(p) /\ \A q \in ToSet(p) : q[2] \in DOMAIN ir
<1> DEFINE Nodes(name) == property_node(ir, node, name)
           Pair(i) == <<order[i], CHOOSE n \in Nodes(order[i]) : TRUE>>
           p == [i \in DOMAIN order |-> Pair(i)]
           S == { Pair(i) : i \in DOMAIN order }
<1>1. Len(order) \in Nat /\ DOMAIN order = 1..Len(order)
  BY SeqIsSeq, IsSeqLen DEF IsList
<1>2. \A i \in DOMAIN order : Nodes(order[i]) # {}
  BY DEF validate_order, property_node, ToSet
<1>3. \A name : Nodes(name) \subseteq DOMAIN ir
  BY DEF property_node, NodeFits
<1>4. \A i \in DOMAIN order : Pair(i)[2] \in DOMAIN ir /\ Pair(i) \in S
  BY <1>2, <1>3
<1>5. p = Ordered(ir, node, order)
  BY DEF Ordered
<1> HIDE DEF Pair, S
<1>6. p \in Seq(S)
  BY <1>1, <1>4
<1>7. ToSet(p) = { Pair(i) : i \in DOMAIN order }
  BY DEF ToSet
<1>8. \A q \in ToSet(p) : q[2] \in DOMAIN ir
  BY <1>4, <1>7
<1>9. IsList(p)
  <2> HIDE DEF p
  <2> QED BY <1>6, SeqIsSeq DEF IsList, IsSeq
<1> QED BY <1>5, <1>8, <1>9

LEMMA PlannedFits ==
    ASSUME NEW done, Fits(done.ir), NEW o,
           IsList(o.order), IsList(o.captures), IsList(o.relations),
           \A relation \in ToSet(o.relations) : relation.operator \in Operators
    PROVE  \A next \in Planned(done, root, o) : Fits(next.ir)
<1> DEFINE ir == done.ir
           Properties(node) == Ordered(ir, node, o.order)
           actions == {[p \in Acted(o) |-> PropertyActions(o, done.next_register, p)]}
           New(node) == [ir EXCEPT ![node].properties = Properties(node),
                                   ![node].fixed = TRUE, ![node].actions = actions]
<1>1. ASSUME NEW next \in Planned(done, root, o)
      PROVE  \E node : Accepts(ir, node, o) /\ next.ir = New(node)
  <2>1. PICK node \in { n \in resolve_object(ir, root, o.path) : Accepts(ir, n, o) } :
             next = [ir |-> New(node), next_register |-> done.next_register + Len(o.captures)]
    BY <1>1, Zenon DEF Planned
  <2> HIDE DEF New, ir
  <2> QED BY <2>1
<1>2. \A act \in actions : \A key \in DOMAIN act : AreActions(act[key])
  <2>1. \A p : AreActions(PropertyActions(o, done.next_register, p))
    <3> SUFFICES ASSUME NEW p PROVE AreActions(PropertyActions(o, done.next_register, p))
      OBVIOUS
    <3>1. IsSeq(CapturesOf(o, done.next_register, p))
          /\ AreRelations(RelationsOf(o, done.next_register, p))
      BY CapturesList, RelationsList
    <3> QED BY <3>1 DEF AreActions, PropertyActions
  <2> QED BY <2>1
<1> HIDE DEF actions
<1>3. ASSUME NEW node, Accepts(ir, node, o) PROVE Fits(New(node))
  <2> DEFINE yes == TRUE
             new == New(node)
             given == Given(ir[node], Properties(node), yes, actions)
  <2>1. DOMAIN new = DOMAIN ir
    OBVIOUS
  <2>2. \A n \in DOMAIN ir :
           new[n] = IF n = node THEN Acting(Settled(Reordered(ir[n], Properties(node)), yes), actions)
                    ELSE ir[n]
    <3> HIDE DEF Properties
    <3> QED BY Zenon DEF Acting, Settled, Reordered
  <2> HIDE DEF new, yes
  <2>3. \A n \in DOMAIN ir : NodeFits(ir, ir[n])
    BY DEF Fits, SchemaFits
  <2>4. ASSUME NEW n \in DOMAIN ir PROVE new[n] = IF n = node THEN given ELSE ir[n]
    <3>1. ASSUME n = node PROVE new[n] = given
      <4>1. ir[node].kind = "object"
        BY <1>3 DEF Accepts
      <4>2. ir[node] = [kind |-> "object", properties |-> ir[node].properties,
                        required |-> ir[node].required, fixed |-> ir[node].fixed,
                        actions |-> ir[node].actions]
        BY <2>3, <3>1, <4>1 DEF NodeFits
      <4> DEFINE p == Properties(node)
      <4> HIDE DEF p
      <4>3. Acting(Settled(Reordered(ir[node], p), yes), actions) = Given(ir[node], p, yes, actions)
        BY <4>2, GivenNode
      <4> QED BY <2>2, <3>1, <4>3 DEF p
    <3> QED BY <2>2, <3>1
  <2>5. ASSUME NEW n \in DOMAIN ir PROVE NodeFits(new, new[n])
    <3>1. CASE n # node
      <4>1. new[n] = ir[n] /\ NodeFits(ir, ir[n])
        BY <2>3, <2>4, <3>1
      <4> QED BY <2>1, <4>1 DEF NodeFits
    <3>2. CASE n = node
      <4> DEFINE p == Properties(node)
      <4>1. IsList(p) /\ \A q \in ToSet(p) : q[2] \in DOMAIN ir
        <5>1. validate_order(ir[node].properties, o.order) /\ ir[node].kind = "object"
          BY <1>3 DEF Accepts
        <5> QED BY <2>3, <3>2, <5>1, OrderedFits
      <4>2. new[n] = Given(ir[node], p, yes, actions)
        BY <2>4, <3>2
      <4> HIDE DEF p
      <4>3. /\ new[n].kind = "object" /\ new[n].properties = p
            /\ new[n] = [kind |-> "object", properties |-> new[n].properties,
                         required |-> new[n].required, fixed |-> new[n].fixed,
                         actions |-> new[n].actions]
        BY <4>2 DEF Given
      <4> QED BY <2>1, <4>1, <4>3 DEF NodeFits, IsLeafNode
    <3> QED BY <3>1, <3>2
  <2>6. ASSUME NEW n \in DOMAIN ir, new[n].kind = "object", NEW act \in new[n].actions,
               NEW key \in DOMAIN act
        PROVE  AreActions(act[key])
    <3>1. CASE n # node
      <4>1. new[n] = ir[n]
        BY <2>4, <3>1
      <4> QED BY <2>6, <4>1 DEF Fits, ActionsFit
    <3>2. CASE n = node
      <4>1. new[n].actions = actions
        BY <2>4, <3>2 DEF Given
      <4> QED BY <1>2, <2>6, <4>1
    <3> QED BY <3>1, <3>2
  <2>7. SchemaFits(new, root)
    BY <2>1, <2>5 DEF SchemaFits, Fits
  <2>8. ActionsFit(new)
    BY <2>1, <2>6 DEF ActionsFit
  <2>9. Fits(new)
    BY <2>7, <2>8 DEF Fits
  <2> QED BY <2>9 DEF new
<1> HIDE DEF New, ir
<1> QED BY <1>1, <1>3

(* Every schema that a plan is accepted for keeps its shape, and its          *)
(* properties have lists of captures and of relations that the code knows.   *)
LEMMA BuildFits ==
    ASSUME NEW ir, SchemaFits(ir, root),
           \A n \in DOMAIN ir : ir[n].kind = "object" => ir[n].actions = {},
           NEW plan, PlanFits(plan), NEW imports
    PROVE  \A built \in build(ir, root, plan, imports) : Fits(built)
<1> DEFINE start == {[ir |-> ir, next_register |-> 0]}
           all == Planning!Left(start, plan)
           Stage(n) == Planning!Left(start, Planning!Truncate(plan, n))
           Good(set) == \A done \in set : Fits(done.ir)
           T == { n \in Nat : n <= Len(plan) => Good(Stage(n)) }
<1>1. apply(ir, root, plan) = { done.ir : done \in all }
  BY DEF apply, PlannedAll, FoldLeft, MapThenFoldSet, Max, Planning!Left, Planning!FoldLeft,
         Planning!MapThenFoldSet, Planning!Max
<1>2. IsSeq(plan)
  BY SeqIsSeq DEF PlanFits, IsList
<1>3. /\ Stage(0) = start
      /\ \A n \in Nat : n + 1 <= Len(plan) => Stage(n + 1) = PlannedAll(Stage(n), plan[n + 1])
      /\ Stage(Len(plan)) = all
  <2>1. Planning!IsSeq(plan)
    BY <1>2 DEF IsSeq, ToSet, Planning!IsSeq, Planning!ToSet
  <2> HIDE DEF start
  <2>2. /\ Planning!Left(start, Planning!Truncate(plan, 0)) = start
        /\ \A n \in Nat : n + 1 <= Len(plan) =>
               Planning!Left(start, Planning!Truncate(plan, n + 1))
                 = PlannedAll(Planning!Left(start, Planning!Truncate(plan, n)), plan[n + 1])
        /\ Planning!Truncate(plan, Len(plan)) = plan
    BY <2>1, Planning!LeftStages, Zenon
  <2> QED BY <2>2
<1>4. Good(start)
  BY DEF Fits, ActionsFit
<1> HIDE DEF Stage, start, all
<1>5. 0 \in T
  BY <1>3, <1>4
<1>6. ASSUME NEW n \in Nat, n \in T PROVE n + 1 \in T
  <2> SUFFICES ASSUME n + 1 <= Len(plan), NEW next \in Stage(n + 1) PROVE Fits(next.ir)
    OBVIOUS
  <2>1. Len(plan) \in Nat /\ DOMAIN plan = 1..Len(plan)
    BY <1>2, IsSeqLen
  <2>2. PICK done \in Stage(n) : next \in Planned(done, root, plan[n + 1])
    BY <1>3 DEF PlannedAll
  <2>3. Fits(done.ir)
    BY <1>6, <2>1
  <2>4. plan[n + 1] \in ToSet(plan)
    BY <2>1 DEF ToSet
  <2> DEFINE o == plan[n + 1]
  <2>5. /\ IsList(o.order) /\ IsList(o.captures) /\ IsList(o.relations)
        /\ \A relation \in ToSet(o.relations) : relation.operator \in Operators
    BY <2>4 DEF PlanFits
  <2>6. next \in Planned(done, root, o)
    BY <2>2
  <2> HIDE DEF o
  <2> QED BY <2>3, <2>5, <2>6, PlannedFits
<1> HIDE DEF T
<1>7. Len(plan) \in T
  BY <1>2, <1>5, <1>6, Induct, IsSeqLen
<1>8. Good(all)
  BY <1>2, <1>3, <1>7, IsSeqLen DEF T
<1> QED BY <1>1, <1>8 DEF build

LEMMA InitCompiled ==
    ASSUME Init
    PROVE  Compiled
<1>1. /\ root \in DOMAIN Plan /\ schema \in build(Written[root], root, Plan[root], DOMAIN Imports)
  BY DEF Init
<1>2. /\ SchemaFits(Written[root], root) /\ PlanFits(Plan[root])
      /\ \A n \in DOMAIN Written[root] :
             Written[root][n].kind = "object" => Written[root][n].actions = {}
  BY <1>1, GivenAssumption
<1> DEFINE ir == Written[root]
           plan == Plan[root]
           imports == DOMAIN Imports
<1> HIDE DEF ir, plan, imports
<1>3. \A built \in build(ir, root, plan, imports) : Fits(built)
  BY <1>2, BuildFits DEF ir, plan
<1> QED BY <1>1, <1>3 DEF ir, plan, imports, Fits, Compiled

-------------------------------------------------------------------------------
(* The journals lead from a router and a memory back to what a mark saved.   *)
Leads(mark, routers, memories, r, m) ==
    /\ mark.router_len \in 0..Len(routers) /\ mark.semantic_len \in 0..Len(memories)
    /\ RouterFolding!Back(routers, mark.router_len, {r}) = {mark.saved[1]}
    /\ MemoryFolding!Back(memories, mark.semantic_len, {m}) = {mark.saved[2]}

LEMMA LeadsNow ==
    ASSUME NEW routers, IsSeq(routers), NEW memories, IsSeq(memories), NEW r, NEW m,
           NEW mark, mark.router_len = Len(routers), mark.semantic_len = Len(memories),
           mark.saved[1] = r, mark.saved[2] = m
    PROVE  Leads(mark, routers, memories, r, m)
<1>1. RouterFolding!IsSeq(routers) /\ MemoryFolding!IsSeq(memories)
  BY FoldingSequences
<1>2. RouterFolding!Back(routers, Len(routers), {r}) = {r}
  BY <1>1, RouterFolding!BackNothing
<1>3. MemoryFolding!Back(memories, Len(memories), {m}) = {m}
  BY <1>1, MemoryFolding!BackNothing
<1>4. Len(routers) \in 0..Len(routers) /\ Len(memories) \in 0..Len(memories)
  BY IsSeqLen
<1> QED BY <1>2, <1>3, <1>4, Zenon DEF Leads

LEMMA LeadsMore ==
    ASSUME NEW routers, IsSeq(routers), NEW memories, IsSeq(memories), NEW r, NEW m,
           NEW mark, Leads(mark, routers, memories, r, m), NEW e, Retraces(e, r, m)
    PROVE  Leads(mark, routers \o e.routerUndo, memories \o e.semanticUndo, e.router, e.memory)
<1> DEFINE a == e.routerUndo
           b == e.semanticUndo
           n == mark.router_len
           k == mark.semantic_len
<1>1. /\ RouterFolding!IsSeq(routers) /\ MemoryFolding!IsSeq(memories)
      /\ RouterFolding!IsSeq(a) /\ MemoryFolding!IsSeq(b) /\ IsSeq(a) /\ IsSeq(b)
  BY FoldingSequences DEF Retraces
<1>2. /\ RouterFolding!Right(a, {e.router}) = {r} /\ MemoryFolding!Right(b, {e.memory}) = {m}
  BY DEF Retraces
<1>3. /\ n \in 0..Len(routers) /\ k \in 0..Len(memories)
      /\ RouterFolding!Back(routers, n, {r}) = {mark.saved[1]}
      /\ MemoryFolding!Back(memories, k, {m}) = {mark.saved[2]}
  BY Zenon DEF Leads
<1> HIDE DEF a, b, n, k
<1>4. RouterFolding!Back(routers \o a, n, {e.router})
        = RouterFolding!Back(routers, n, RouterFolding!Right(a, {e.router}))
  <2> DEFINE base == {e.router}
  <2> HIDE DEF base
  <2>1. RouterFolding!Back(routers \o a, n, base)
          = RouterFolding!Back(routers, n, RouterFolding!Right(a, base))
    BY <1>1, <1>3, RouterFolding!BackMore
  <2> QED BY <2>1 DEF base
<1>5. MemoryFolding!Back(memories \o b, k, {e.memory})
        = MemoryFolding!Back(memories, k, MemoryFolding!Right(b, {e.memory}))
  <2> DEFINE base == {e.memory}
  <2> HIDE DEF base
  <2>1. MemoryFolding!Back(memories \o b, k, base)
          = MemoryFolding!Back(memories, k, MemoryFolding!Right(b, base))
    BY <1>1, <1>3, MemoryFolding!BackMore
  <2> QED BY <2>1 DEF base
<1>6. n \in 0..Len(routers \o a) /\ k \in 0..Len(memories \o b)
  <2>1. /\ Len(routers \o a) = Len(routers) + Len(a) /\ Len(memories \o b) = Len(memories) + Len(b)
        /\ Len(a) \in Nat /\ Len(b) \in Nat /\ Len(routers) \in Nat /\ Len(memories) \in Nat
    BY <1>1, IsSeqConcat, IsSeqLen
  <2> QED BY <1>3, <2>1
<1> QED BY <1>2, <1>3, <1>4, <1>5, <1>6, Zenon DEF Leads, a, b, n, k

LEMMA LeadsFurther ==
    ASSUME NEW routers, IsSeq(routers), NEW memories, IsSeq(memories), NEW r, NEW m,
           NEW mark, Leads(mark, routers, memories, r, m),
           NEW later, Leads(later, routers, memories, r, m),
           mark.router_len <= later.router_len, mark.semantic_len <= later.semantic_len
    PROVE  Leads(mark, SubSeq(routers, 1, later.router_len), SubSeq(memories, 1, later.semantic_len),
                 later.saved[1], later.saved[2])
<1> DEFINE n == later.router_len
           k == later.semantic_len
           p == mark.router_len
           q == mark.semantic_len
<1>1. RouterFolding!IsSeq(routers) /\ MemoryFolding!IsSeq(memories)
  BY FoldingSequences
<1>2. Len(routers) \in Nat /\ Len(memories) \in Nat
  BY IsSeqLen
<1>0. /\ n \in 0..Len(routers) /\ k \in 0..Len(memories)
      /\ RouterFolding!Back(routers, n, {r}) = {later.saved[1]}
      /\ MemoryFolding!Back(memories, k, {m}) = {later.saved[2]}
  BY Zenon DEF Leads
<1>10. /\ p \in 0..Len(routers) /\ q \in 0..Len(memories)
       /\ RouterFolding!Back(routers, p, {r}) = {mark.saved[1]}
       /\ MemoryFolding!Back(memories, q, {m}) = {mark.saved[2]}
  BY Zenon DEF Leads
<1>11. p <= n /\ q <= k
  OBVIOUS
<1> HIDE DEF n, k, p, q
<1>3. p \in 0..n /\ q \in 0..k
  BY <1>0, <1>10, <1>11, <1>2
<1>4. RouterFolding!Back(SubSeq(routers, 1, n), p, {later.saved[1]}) = {mark.saved[1]}
  <2> DEFINE base == {r}
  <2> HIDE DEF base
  <2>1. RouterFolding!Back(SubSeq(routers, 1, n), p, RouterFolding!Back(routers, n, base))
          = RouterFolding!Back(routers, p, base)
    BY <1>0, <1>1, <1>3, RouterFolding!BackFurther
  <2> QED BY <1>0, <1>10, <2>1, Zenon DEF base
<1>5. MemoryFolding!Back(SubSeq(memories, 1, k), q, {later.saved[2]}) = {mark.saved[2]}
  <2> DEFINE base == {m}
  <2> HIDE DEF base
  <2>1. MemoryFolding!Back(SubSeq(memories, 1, k), q, MemoryFolding!Back(memories, k, base))
          = MemoryFolding!Back(memories, q, base)
    BY <1>0, <1>1, <1>3, MemoryFolding!BackFurther
  <2> QED BY <1>0, <1>10, <2>1, Zenon DEF base
<1>6. Len(SubSeq(routers, 1, n)) = n /\ Len(SubSeq(memories, 1, k)) = k
  BY <1>0, SegmentCut
<1> QED BY <1>3, <1>4, <1>5, <1>6, Zenon DEF Leads, n, k, p, q

(* The places of a mark when as many of the oldest records are dropped.       *)
Shifted(mark, n, k) == [mark EXCEPT !.router_len = @ - n, !.semantic_len = @ - k]

IsMark(mark) ==
    mark = [router_len |-> mark.router_len, semantic_len |-> mark.semantic_len,
            saved |-> mark.saved, document |-> mark.document]

LEMMA LeadsDropped ==
    ASSUME NEW routers, IsSeq(routers), NEW memories, IsSeq(memories), NEW r, NEW m,
           NEW mark, IsMark(mark), Leads(mark, routers, memories, r, m),
           NEW n \in 0..mark.router_len, NEW k \in 0..mark.semantic_len
    PROVE  LET moved == Shifted(mark, n, k)
           IN  /\ IsMark(moved) /\ moved.saved = mark.saved /\ moved.document = mark.document
               /\ moved.router_len = mark.router_len - n
               /\ moved.semantic_len = mark.semantic_len - k
               /\ Leads(moved, SubSeq(routers, n + 1, Len(routers)),
                        SubSeq(memories, k + 1, Len(memories)), r, m)
<1> DEFINE moved == Shifted(mark, n, k)
           p == mark.router_len
           q == mark.semantic_len
           a == SubSeq(routers, n + 1, Len(routers))
           b == SubSeq(memories, k + 1, Len(memories))
<1>1. moved = [router_len |-> p - n, semantic_len |-> q - k, saved |-> mark.saved,
               document |-> mark.document]
  <2>1. mark = [router_len |-> p, semantic_len |-> q, saved |-> mark.saved, document |-> mark.document]
        /\ moved = [mark EXCEPT !.router_len = p - n, !.semantic_len = q - k]
    BY DEF IsMark, Shifted
  <2> HIDE DEF moved, p, q
  <2> DEFINE c == p - n
             d == q - k
             half == [mark EXCEPT !.router_len = c]
  <2> HIDE DEF c, d
  <2>2. half = [router_len |-> c, semantic_len |-> q, saved |-> mark.saved,
                document |-> mark.document]
    BY <2>1
  <2>3. [mark EXCEPT !.router_len = c, !.semantic_len = d] = [half EXCEPT !.semantic_len = d]
    OBVIOUS
  <2> HIDE DEF half
  <2>4. [half EXCEPT !.semantic_len = d]
          = [router_len |-> c, semantic_len |-> d, saved |-> mark.saved, document |-> mark.document]
    BY <2>2
  <2> QED BY <2>1, <2>3, <2>4 DEF c, d
<1> HIDE DEF moved
<1>2. RouterFolding!IsSeq(routers) /\ MemoryFolding!IsSeq(memories)
  BY FoldingSequences
<1>3. Len(routers) \in Nat /\ Len(memories) \in Nat
  BY IsSeqLen
<1>4. /\ p \in 0..Len(routers) /\ q \in 0..Len(memories)
      /\ RouterFolding!Back(routers, p, {r}) = {mark.saved[1]}
      /\ MemoryFolding!Back(memories, q, {m}) = {mark.saved[2]}
  BY Zenon DEF Leads
<1>5. /\ n \in 0..Len(routers) /\ k \in 0..Len(memories) /\ p \in n..Len(routers)
      /\ q \in k..Len(memories) /\ n \in Nat /\ k \in Nat
  BY <1>3, <1>4
<1>6. Len(a) = Len(routers) - n /\ Len(b) = Len(memories) - k
  BY <1>5, SegmentDropped
<1>7. p - n \in 0..Len(a) /\ q - k \in 0..Len(b)
  BY <1>3, <1>5, <1>6
<1> HIDE DEF p, q
<1>8. RouterFolding!Back(a, p - n, {r}) = RouterFolding!Back(routers, p, {r})
  <2> DEFINE base == {r}
  <2> HIDE DEF base
  <2>1. RouterFolding!Back(SubSeq(routers, n + 1, Len(routers)), p - n, base)
          = RouterFolding!Back(routers, p, base)
    BY <1>2, <1>5, RouterFolding!BackDropped, Zenon
  <2> QED BY <2>1 DEF base
<1>9. MemoryFolding!Back(b, q - k, {m}) = MemoryFolding!Back(memories, q, {m})
  <2> DEFINE base == {m}
  <2> HIDE DEF base
  <2>1. MemoryFolding!Back(SubSeq(memories, k + 1, Len(memories)), q - k, base)
          = MemoryFolding!Back(memories, q, base)
    BY <1>2, <1>5, MemoryFolding!BackDropped, Zenon
  <2> QED BY <2>1 DEF base
<1> HIDE DEF a, b
<1>10. Leads(moved, a, b, r, m)
  BY <1>1, <1>4, <1>7, <1>8, <1>9, Zenon DEF Leads
<1> QED BY <1>1, <1>10 DEF IsMark, moved, p, q, a, b

-------------------------------------------------------------------------------
(* What the automaton offers is finite.                                      *)
LEMMA ValuesFinite ==
    ASSUME Compiled, NEW n \in DOMAIN schema
    PROVE  IsFiniteSet(ValueTokens(n))
<1> DEFINE X == GeneratedScalars(schema[n])
           S == { <<"scalar", x>> : x \in X }
           O == {"open"} \X {"array", "object"}
           one == <<"open", schema[n].kind>>
<1>1. NodeFits(schema, schema[n])
  BY DEF Compiled, SchemaFits
<1>2. ASSUME IsLeaf(n) PROVE IsFiniteSet(S)
  <2>1. IsFiniteSet(X)
    BY <1>1, <1>2 DEF NodeFits, IsLeaf, GeneratedScalars
  <2> HIDE DEF X
  <2>2. S = {"scalar"} \X X
    OBVIOUS
  <2>3. IsFiniteSet({"scalar"} \X X)
    BY <2>1, FS_Singleton, FS_Product, Zenon
  <2> HIDE DEF S
  <2> QED BY <2>2, <2>3
<1>3. IsFiniteSet(O) /\ IsFiniteSet({})
  <2>1. {"array", "object"} = {"array"} \union {"object"}
    OBVIOUS
  <2>2. IsFiniteSet({"array"} \union {"object"})
    BY FS_Singleton, FS_Union, Zenon
  <2> QED BY <2>1, <2>2, FS_Singleton, FS_Product, FS_EmptySet, Zenon
<1>4. IsFiniteSet({one})
  BY FS_Singleton, Zenon
<1>5. ValueTokens(n) = IF IsLeaf(n) THEN S \union (IF Unconstrained(n) THEN O ELSE {}) ELSE {one}
  BY DEF ValueTokens
<1> HIDE DEF S, O, one
<1>6. ASSUME IsLeaf(n) PROVE IsFiniteSet(S \union (IF Unconstrained(n) THEN O ELSE {}))
  BY <1>2, <1>3, <1>6, FS_Union, Zenon
<1> QED BY <1>4, <1>5, <1>6

LEMMA KeysFinite ==
    ASSUME Compiled, NEW n \in DOMAIN schema, schema[n].kind = "object", NEW used
    PROVE  IsFiniteSet({ <<"key", key>> : key \in NextKeys(schema[n], used) })
<1> DEFINE properties == schema[n].properties
           Name(i) == properties[i][1]
           N == { Name(i) : i \in DOMAIN properties }
           keys == NextKeys(schema[n], used)
<1>1. IsSeq(properties)
  BY SeqIsSeq DEF Compiled, SchemaFits, NodeFits, IsList
<1>2. keys \subseteq N
  BY DEF NextKeys
<1>3. IsFiniteSet(N)
  <2> DEFINE m == Len(properties)
             f == [i \in 1..m |-> Name(i)]
  <2>1. m \in Nat /\ DOMAIN properties = 1..m
    BY <1>1, IsSeqLen
  <2>2. N = { Name(i) : i \in 1..m }
    BY <2>1
  <2> HIDE DEF Name, m
  <2>3. f \in Surjection(1..m, N)
    BY <2>2, Zenon DEF Surjection
  <2>4. IsFiniteSet(1..m)
    BY <2>1, FS_Interval
  <2> HIDE DEF f, N
  <2> QED BY <2>3, <2>4, FS_Surjection
<1> HIDE DEF N, keys
<1>4. IsFiniteSet(keys)
  BY <1>2, <1>3, FS_Subset
<1>5. IsFiniteSet({"key"} \X keys)
  BY <1>4, FS_Singleton, FS_Product, Zenon
<1>6. { <<"key", key>> : key \in keys } = {"key"} \X keys
  OBVIOUS
<1> QED BY <1>5, <1>6 DEF keys

LEMMA CandidatesFinite ==
    ASSUME Compiled, NEW d, DocumentFits(d)
    PROVE  IsFiniteSet(Candidates(d))
<1>1. CASE d.root # {} \/ d.open = <<>>
  <2>1. root \in DOMAIN schema
    BY DEF Compiled, SchemaFits
  <2> QED BY <1>1, <2>1, ValuesFinite, FS_EmptySet DEF Candidates
<1>2. CASE d.root = {} /\ d.open # <<>>
  <2> DEFINE f == Last(d.open)
  <2>1. FrameFits(f)
    BY <1>2, LastFollows
  <2>2. Candidates(d) = FrameTokens(f)
    BY <1>2 DEF Candidates
  <2> HIDE DEF f
  <2>3. f.node \in DOMAIN schema /\ NodeFits(schema, schema[f.node])
        /\ f.kind = schema[f.node].kind /\ f.kind \in {"array", "object"}
    BY <2>1 DEF FrameFits, Compiled, SchemaFits
  <2>4. ~IsLeaf(f.node)
    BY <2>3 DEF IsLeaf, IsLeafNode
  <2> DEFINE s == schema[f.node]
             close == {<<"close">>}
             values == IF Len(f.values) < MaxItems THEN ValueTokens(ValueNode(f)) ELSE {}
             keys == { <<"key", key>> : key \in NextKeys(s, UsedKeys(f)) }
  <2>5. IsFiniteSet(close) /\ IsFiniteSet({})
    BY FS_Singleton, FS_EmptySet, Zenon
  <2>6. CASE f.kind = "array"
    <3>1. ValueNode(f) \in DOMAIN schema
      BY <2>3, <2>4, <2>6 DEF ValueNode, NodeFits
    <3>2. IsFiniteSet(values)
      BY <2>5, <3>1, ValuesFinite
    <3>3. FrameTokens(f) \subseteq close \union values
      BY <2>4, <2>6 DEF FrameTokens
    <3> HIDE DEF close, values
    <3>4. IsFiniteSet(close \union values)
      BY <2>5, <3>2, FS_Union, Zenon
    <3> QED BY <2>2, <3>3, <3>4, FS_Subset
  <2>7. CASE f.kind = "object" /\ f.key # {}
    <3>1. ValueNode(f) \in DOMAIN schema
      <4>1. PropertyNodes(f.node, The(f.key)) # {}
        BY <2>1, <2>7 DEF FrameFits
      <4>2. PropertyNodes(f.node, The(f.key)) \subseteq DOMAIN schema
        BY <2>3, <2>7 DEF PropertyNodes, NodeFits
      <4>3. The(PropertyNodes(f.node, The(f.key))) \in DOMAIN schema
        BY <4>1, <4>2 DEF The
      <4> QED BY <2>4, <2>7, <4>3 DEF ValueNode
    <3>2. FrameTokens(f) = ValueTokens(ValueNode(f))
      BY <2>4, <2>7 DEF FrameTokens
    <3> QED BY <2>2, <3>1, <3>2, ValuesFinite
  <2>8. CASE f.kind = "object" /\ f.key = {}
    <3>1. FrameTokens(f) \subseteq close \union keys
      BY <2>4, <2>8 DEF FrameTokens
    <3>2. IsFiniteSet(keys)
      BY <2>3, <2>8, KeysFinite, Zenon
    <3> HIDE DEF close, keys
    <3>3. IsFiniteSet(close \union keys)
      BY <2>5, <3>2, FS_Union, Zenon
    <3> QED BY <2>2, <3>1, <3>3, FS_Subset
  <2> QED BY <2>3, <2>6, <2>7, <2>8
<1> QED BY <1>1, <1>2

(* The elements of a finite set in a row.                                    *)
LEMMA InARow ==
    ASSUME NEW S, IsFiniteSet(S)
    PROVE  IsSeq(SetToSeq(S)) /\ \A i \in 1..Len(SetToSeq(S)) : SetToSeq(S)[i] \in S
<1> DEFINE n == Cardinality(S)
           F == { f \in [1..n -> S] : IsInjective(f) }
           row == SetToSeq(S)
<1>1. n \in Nat /\ \E f : f \in Bijection(1..n, S)
  BY FS_CardinalityType DEF ExistsBijection
<1>2. F # {}
  <2>1. PICK f : f \in Bijection(1..n, S)
    BY <1>1
  <2>2. f \in [1..n -> S] /\ IsInjective(f)
    BY <2>1 DEF Bijection, Injection, Surjection, IsInjective
  <2> QED BY <2>2
<1>3. row = CHOOSE f \in [1..n -> S] : IsInjective(f)
  BY DEF SetToSeq
<1> HIDE DEF row, n
<1>4. row \in [1..n -> S]
  BY <1>2, <1>3
<1>5. row \in Seq(S)
  BY <1>1, <1>4
<1>6. IsSeq(row) /\ \A i \in 1..Len(row) : row[i] \in S
  BY <1>5, SeqIsSeq
<1> QED BY <1>6 DEF row

-------------------------------------------------------------------------------
(* A mask gives back the router and the memory it found.                     *)
Tried(acc, t) == Then(acc, LAMBDA ok : Probed(ok, t))

Trying == INSTANCE Folding WITH Op <- Tried

(* What a mask has found out so far.                                         *)
IsFound(acc) ==
    acc = [router |-> acc.router, memory |-> acc.memory, scratch |-> acc.scratch,
           allowed |-> acc.allowed, error |-> acc.error]

Untouched(acc) == IsFound(acc) /\ acc.router = router /\ acc.memory = memory

LEMMA SegmentAll ==
    ASSUME NEW s, IsSeq(s)
    PROVE  Segment(s, 0, Len(s)) = s
<1> DEFINE w == Segment(s, 0, Len(s))
<1>1. Len(s) \in Nat /\ Len(s) \in 0..Len(s) /\ 0 \in 0..Len(s)
  BY IsSeqLen
<1>2. IsSeq(w) /\ Len(w) = Len(s) - 0 /\ \A i \in 1..(Len(s) - 0) : w[i] = s[0 + i]
  BY <1>1, SegmentFacts, Zenon
<1> HIDE DEF w
<1>3. Len(w) = Len(s) /\ \A i \in 1..Len(w) : w[i] = s[i]
  BY <1>1, <1>2
<1>4. w = s
  BY <1>2, <1>3, IsSeqEqual
<1> QED BY <1>4 DEF w

LEMMA UndidBefore ==
    ASSUME NEW e, NEW r, NEW m, Retraces(e, r, m)
    PROVE  Undid(e) = {<<r, m>>}
<1> DEFINE a == e.routerUndo
           b == e.semanticUndo
<1>1. /\ RouterFolding!IsSeq(a) /\ MemoryFolding!IsSeq(b) /\ IsSeq(a) /\ IsSeq(b)
      /\ RouterFolding!Right(a, {e.router}) = {r} /\ MemoryFolding!Right(b, {e.memory}) = {m}
  BY FoldingSequences DEF Retraces
<1>2. Segment(a, 0, Len(a)) = a /\ Segment(b, 0, Len(b)) = b
  BY <1>1, SegmentAll
<1> HIDE DEF a, b
<1>3. RouterFolding!Segment(a, 0, Len(a)) = a /\ MemoryFolding!Segment(b, 0, Len(b)) = b
  BY <1>2 DEF Segment, RouterFolding!Segment, MemoryFolding!Segment
<1>4. RouterFolding!Back(a, 0, {e.router}) = {r} /\ MemoryFolding!Back(b, 0, {e.memory}) = {m}
  BY <1>1, <1>3, Zenon DEF RouterFolding!Back, MemoryFolding!Back
<1>5. Unwound(e.router, a, 0, RouterUndone) = {r}
  BY <1>4, RouterUnwinds
<1>6. Unwound(e.memory, b, 0, MemoryUndone) = {m}
  BY <1>4, MemoryUnwinds
<1>7. Undid(e) = {r} \X {m}
  BY <1>5, <1>6 DEF Undid, a, b
<1> QED BY <1>7

LEMMA JudgedUntouched ==
    ASSUME NEW acc, Untouched(acc), NEW t, NEW e
    PROVE  Untouched(Judged(acc, t, e, {<<router, memory>>}))
<1> DEFINE before == {<<router, memory>>}
           one == [acc EXCEPT !.router = The(before)[1]]
           two == [one EXCEPT !.memory = The(before)[2]]
           back == [two EXCEPT !.scratch = e.scratch]
           more == [back EXCEPT !.allowed = @ \union {t}]
           failed == Fail(back, e.error)
<1>1. before # {} /\ The(before)[1] = router /\ The(before)[2] = memory
  <2> DEFINE pair == <<router, memory>>
  <2>1. pair[1] = router /\ pair[2] = memory
    OBVIOUS
  <2>2. before = {pair}
    OBVIOUS
  <2> HIDE DEF pair, before
  <2> QED BY <2>1, <2>2 DEF The
<1>2. \/ Judged(acc, t, e, before) = back
      \/ Judged(acc, t, e, before) = more
      \/ Judged(acc, t, e, before) = failed
  <2> HIDE DEF before
  <2> DEFINE whole == [acc EXCEPT !.router = The(before)[1], !.memory = The(before)[2],
                                  !.scratch = e.scratch]
             added == [whole EXCEPT !.allowed = @ \union {t}]
  <2>1. whole = back
    OBVIOUS
  <2>2. Judged(acc, t, e, before)
          = CASE Ok(e) -> added [] e.error \in Violations -> whole [] OTHER -> Fail(whole, e.error)
    BY <1>1 DEF Judged
  <2> HIDE DEF whole, back
  <2>3. Judged(acc, t, e, before) = added \/ Judged(acc, t, e, before) = whole
        \/ Judged(acc, t, e, before) = Fail(whole, e.error)
    BY <2>2
  <2> QED BY <2>1, <2>3
<1> HIDE DEF before
<1>3. one = [router |-> router, memory |-> memory, scratch |-> acc.scratch,
             allowed |-> acc.allowed, error |-> acc.error]
  BY <1>1 DEF Untouched, IsFound
<1> HIDE DEF one
<1>4. two = [router |-> router, memory |-> memory, scratch |-> acc.scratch,
             allowed |-> acc.allowed, error |-> acc.error]
  BY <1>1, <1>3
<1> HIDE DEF two
<1>5. back = [router |-> router, memory |-> memory, scratch |-> e.scratch,
              allowed |-> acc.allowed, error |-> acc.error]
  BY <1>4
<1> HIDE DEF back
<1>6. more = [router |-> router, memory |-> memory, scratch |-> e.scratch,
              allowed |-> acc.allowed \union {t}, error |-> acc.error]
  BY <1>5
<1>7. failed = [router |-> router, memory |-> memory, scratch |-> e.scratch,
                allowed |-> acc.allowed, error |-> e.error]
  BY <1>5 DEF Fail
<1> HIDE DEF more, failed
<1> QED BY <1>2, <1>5, <1>6, <1>7 DEF Untouched, IsFound, before

LEMMA TriedUntouched ==
    ASSUME Compiled, IsMemory(memory), DocumentFits(document), router = RouterOf(document),
           NEW acc, Untouched(acc), NEW t \in Candidates(document)
    PROVE  Untouched(Tried(acc, t))
<1> DEFINE step == Read(document, t)
           e == process_pending_events(EffectOn(acc.router, acc.memory, acc.scratch), step.events)
           counting == acc.scratch
           d == document
           m == memory
           e2 == process_pending_events(EffectOn(RouterOf(d), m, counting), Read(d, t).events)
<1>1. e = e2
  BY DEF Untouched
<1>2. Follows(e2, Read(d, t).document, RouterOf(d), m)
  BY TokenFollows
<1> HIDE DEF e, e2
<1>3. Retraces(e, router, memory)
  BY <1>1, <1>2 DEF Follows
<1>4. Undid(e) = {<<router, memory>>}
  BY <1>3, UndidBefore
<1>5. Probed(acc, t) = Judged(acc, t, e, {<<router, memory>>})
  BY <1>4 DEF Probed, JudgedByUndo, e
<1>6. Untouched(Probed(acc, t))
  BY <1>5, JudgedUntouched
<1> QED BY <1>6 DEF Tried, Then

LEMMA MaskUntouched ==
    ASSUME Compiled, IsMemory(memory), DocumentFits(document), router = RouterOf(document)
    PROVE  Untouched(Mask(Candidates(document)))
<1> DEFINE candidates == Candidates(document)
           counting == [checks |-> 0, limit |-> {MaxEqualityChecks}]
           start == [router |-> router, memory |-> memory, scratch |-> counting, allowed |-> {},
                     error |-> "none"]
           row == SetToSeq(candidates)
           all == Trying!Left(start, row)
           Stage(n) == Trying!Left(start, Trying!Truncate(row, n))
           T == { n \in Nat : n <= Len(row) => Untouched(Stage(n)) }
<1>1. filter_candidates(candidates, counting) = all
  BY DEF filter_candidates, Tried, Then, FoldLeft, MapThenFoldSet, Max, Trying!Left,
         Trying!FoldLeft, Trying!MapThenFoldSet, Trying!Max
<1>2. IsSeq(row) /\ \A i \in 1..Len(row) : row[i] \in candidates
  BY CandidatesFinite, InARow
<1>3. Untouched(start)
  BY DEF Untouched, IsFound
<1>4. Untouched([router |-> router, memory |-> memory, scratch |-> scratch, allowed |-> candidates,
                 error |-> "none"])
  BY DEF Untouched, IsFound
<1> HIDE DEF start, row
<1>5. /\ Stage(0) = start
      /\ \A n \in Nat : n + 1 <= Len(row) => Stage(n + 1) = Tried(Stage(n), row[n + 1])
      /\ Stage(Len(row)) = all
  <2>1. Trying!IsSeq(row)
    BY <1>2 DEF IsSeq, ToSet, Trying!IsSeq, Trying!ToSet
  <2>2. /\ Trying!Left(start, Trying!Truncate(row, 0)) = start
        /\ \A n \in Nat : n + 1 <= Len(row) =>
               Trying!Left(start, Trying!Truncate(row, n + 1))
                 = Tried(Trying!Left(start, Trying!Truncate(row, n)), row[n + 1])
        /\ Trying!Truncate(row, Len(row)) = row
    BY <2>1, Trying!LeftStages, Zenon
  <2> QED BY <2>2
<1> HIDE DEF Stage, all
<1>6. 0 \in T
  BY <1>3, <1>5
<1>7. ASSUME NEW n \in Nat, n \in T PROVE n + 1 \in T
  <2> SUFFICES ASSUME n + 1 <= Len(row) PROVE Untouched(Stage(n + 1))
    OBVIOUS
  <2>1. Len(row) \in Nat
    BY <1>2, IsSeqLen
  <2> DEFINE acc == Stage(n)
             t == row[n + 1]
  <2>2. Untouched(acc) /\ t \in Candidates(document)
    BY <1>2, <1>7, <2>1
  <2> HIDE DEF acc, t
  <2>3. Untouched(Tried(acc, t))
    BY <2>2, TriedUntouched
  <2> QED BY <1>5, <2>3 DEF acc, t
<1> HIDE DEF T
<1>8. Len(row) \in T
  BY <1>2, <1>6, <1>7, Induct, IsSeqLen
<1>9. Untouched(all)
  BY <1>2, <1>5, <1>8, IsSeqLen DEF T
<1> QED BY <1>1, <1>4, <1>9 DEF Mask

-------------------------------------------------------------------------------
(* What a mark has to bring back: where its document is, and some memory.     *)
MarkFits(mark) ==
    /\ IsMark(mark)
    /\ mark.saved = <<RouterOf(mark.document), mark.saved[2]>>
    /\ IsMemory(mark.saved[2]) /\ DocumentFits(mark.document)

MarksLead(list, routers, memories, r, m) ==
    /\ IsSeq(routers) /\ IsSeq(memories) /\ IsSeq(list)
    /\ \A i \in 1..Len(list) : MarkFits(list[i]) /\ Leads(list[i], routers, memories, r, m)
    /\ \A i \in 1..Len(list) : \A j \in 1..i :
          list[j].router_len <= list[i].router_len /\ list[j].semantic_len <= list[i].semantic_len

FollowsText(d, r) == DocumentFits(d) /\ r = RouterOf(d)

(* The inductive invariant: the journals lead back to every mark, and the     *)
(* router is where the text is unless the last token was refused half-way.    *)
UndoInv ==
    /\ Compiled
    /\ IsMemory(memory)
    /\ error = "none" => FollowsText(document, router)
    /\ MarksLead(marks, routerJournal, semanticJournal, router, memory)

LEMMA MarkedLead ==
    ASSUME NEW list, NEW routers, NEW memories, NEW r, NEW m, NEW d,
           MarksLead(list, routers, memories, r, m), FollowsText(d, r), IsMemory(m)
    PROVE  MarksLead(Append(list, [router_len |-> Len(routers), semantic_len |-> Len(memories),
                                   saved |-> <<r, m>>, document |-> d]),
                     routers, memories, r, m)
<1> DEFINE mark == [router_len |-> Len(routers), semantic_len |-> Len(memories),
                    saved |-> <<r, m>>, document |-> d]
           new == Append(list, mark)
<1>1. /\ mark.router_len = Len(routers) /\ mark.semantic_len = Len(memories)
      /\ mark.saved = <<r, m>> /\ mark.saved[1] = r /\ mark.saved[2] = m /\ mark.document = d
      /\ IsMark(mark)
  BY DEF IsMark
<1> HIDE DEF mark
<1>2. MarkFits(mark)
  BY <1>1 DEF MarkFits, FollowsText
<1>3. Leads(mark, routers, memories, r, m)
  <2>1. IsSeq(routers) /\ IsSeq(memories)
    BY DEF MarksLead
  <2> QED BY <1>1, <2>1, LeadsNow
<1>4. /\ IsSeq(new) /\ Len(new) = Len(list) + 1 /\ new[Len(list) + 1] = mark
      /\ (\A i \in 1..Len(list) : new[i] = list[i]) /\ Len(list) \in Nat
  BY IsSeqAppend, IsSeqLen DEF MarksLead
<1> HIDE DEF new
<1>5. ASSUME NEW i \in 1..Len(new)
      PROVE  MarkFits(new[i]) /\ Leads(new[i], routers, memories, r, m)
  <2>1. i \in 1..Len(list) \/ i = Len(list) + 1
    BY <1>4
  <2> QED BY <1>2, <1>3, <1>4, <2>1 DEF MarksLead
<1>6. ASSUME NEW i \in 1..Len(new), NEW j \in 1..i
      PROVE  new[j].router_len <= new[i].router_len /\ new[j].semantic_len <= new[i].semantic_len
  <2>0. Len(routers) \in Nat /\ Len(memories) \in Nat
    BY IsSeqLen DEF MarksLead
  <2>1. CASE i \in 1..Len(list)
    <3>1. j \in 1..Len(list) /\ new[j] = list[j] /\ new[i] = list[i]
      BY <1>4, <2>1
    <3> QED BY <2>1, <3>1 DEF MarksLead
  <2>2. CASE i = Len(list) + 1 /\ j \in 1..Len(list)
    <3>1. new[j] = list[j] /\ new[i] = mark
      BY <1>4, <2>2
    <3>2. Leads(list[j], routers, memories, r, m)
      BY <2>2 DEF MarksLead
    <3>3. list[j].router_len \in 0..Len(routers) /\ list[j].semantic_len \in 0..Len(memories)
      BY <3>2 DEF Leads
    <3>4. list[j].router_len <= Len(routers) /\ list[j].semantic_len <= Len(memories)
      BY <2>0, <3>3
    <3> QED BY <1>1, <3>1, <3>4
  <2>3. CASE i = Len(list) + 1 /\ j = Len(list) + 1
    <3>1. new[j] = mark /\ new[i] = mark
      BY <1>4, <2>3
    <3> QED BY <1>1, <2>0, <3>1
  <2> QED BY <1>4, <2>1, <2>2, <2>3
<1> QED BY <1>4, <1>5, <1>6, Zenon DEF MarksLead, new, mark

LEMMA TakenLead ==
    ASSUME NEW list, NEW routers, NEW memories, NEW r, NEW m,
           MarksLead(list, routers, memories, r, m), NEW e, Retraces(e, r, m)
    PROVE  MarksLead(list, routers \o e.routerUndo, memories \o e.semanticUndo, e.router, e.memory)
<1> DEFINE a == routers \o e.routerUndo
           b == memories \o e.semanticUndo
<1>1. IsSeq(routers) /\ IsSeq(memories) /\ IsSeq(e.routerUndo) /\ IsSeq(e.semanticUndo)
  BY DEF MarksLead, Retraces
<1>2. IsSeq(a) /\ IsSeq(b)
  BY <1>1, IsSeqConcat
<1>3. ASSUME NEW mark, Leads(mark, routers, memories, r, m)
      PROVE  Leads(mark, a, b, e.router, e.memory)
  BY <1>1, <1>3, LeadsMore
<1> HIDE DEF a, b
<1> QED BY <1>2, <1>3 DEF MarksLead, a, b

LEMMA RestoredLead ==
    ASSUME NEW list, NEW routers, NEW memories, NEW r, NEW m,
           MarksLead(list, routers, memories, r, m), NEW i \in 1..Len(list)
    PROVE  MarksLead(SubSeq(list, 1, i - 1), SubSeq(routers, 1, list[i].router_len),
                     SubSeq(memories, 1, list[i].semantic_len), list[i].saved[1], list[i].saved[2])
<1> DEFINE later == list[i]
           a == SubSeq(routers, 1, later.router_len)
           b == SubSeq(memories, 1, later.semantic_len)
           new == SubSeq(list, 1, i - 1)
<1>1. IsSeq(routers) /\ IsSeq(memories) /\ IsSeq(list) /\ Len(list) \in Nat
  BY IsSeqLen DEF MarksLead
<1>2. Leads(later, routers, memories, r, m)
  BY DEF MarksLead
<1>3. later.router_len \in 0..Len(routers) /\ later.semantic_len \in 0..Len(memories)
  BY <1>2 DEF Leads
<1>4. IsSeq(a) /\ IsSeq(b)
  <2> DEFINE n == later.router_len
             k == later.semantic_len
  <2>1. n \in 0..Len(routers) /\ k \in 0..Len(memories)
    BY <1>3
  <2>2. 0 \in 0..n /\ 0 \in 0..k /\ 0 \in 0..0
    BY <2>1
  <2> HIDE DEF n, k
  <2>3. IsSeq(SubSeq(routers, 1, n)) /\ IsSeq(SubSeq(memories, 1, k))
    BY <1>1, <2>1, <2>2, SegmentCut
  <2> QED BY <2>3 DEF n, k
<1>5. IsSeq(new) /\ Len(new) = i - 1 /\ \A j \in 1..(i - 1) : new[j] = list[j]
  <2>1. i - 1 \in 0..Len(list) /\ 0 \in 0..(i - 1)
    BY <1>1
  <2> DEFINE l == i - 1
  <2>2. l \in 0..Len(list) /\ 0 \in 0..l
    BY <2>1
  <2> HIDE DEF l
  <2>3. IsSeq(Segment(list, 0, l)) /\ Len(Segment(list, 0, l)) = l - 0
        /\ \A j \in 1..(l - 0) : Segment(list, 0, l)[j] = list[0 + j]
    BY <1>1, <2>2, SegmentFacts, Zenon
  <2>4. Segment(list, 0, l) = SubSeq(list, 1, l)
    <3>1. 0 + 1 = 1
      OBVIOUS
    <3> QED BY <3>1 DEF Segment
  <2> DEFINE w == SubSeq(list, 1, l)
  <2> HIDE DEF w
  <2>6. l - 0 = l /\ \A j \in 1..l : 0 + j = j
    BY <1>1, <2>2
  <2>7. IsSeq(w) /\ Len(w) = l /\ \A j \in 1..l : w[j] = list[0 + j]
    BY <2>3, <2>4, <2>6, Zenon DEF w
  <2>5. IsSeq(SubSeq(list, 1, l)) /\ Len(SubSeq(list, 1, l)) = l
        /\ \A j \in 1..l : SubSeq(list, 1, l)[j] = list[j]
    BY <2>6, <2>7, Zenon DEF w
  <2> QED BY <2>5 DEF l
<1>6. ASSUME NEW j \in 1..(i - 1)
      PROVE  MarkFits(list[j]) /\ Leads(list[j], a, b, later.saved[1], later.saved[2])
  <2> DEFINE mark == list[j]
  <2>1. j \in 1..i /\ j \in 1..Len(list) /\ i \in 1..Len(list)
    BY <1>1
  <2>2. MarkFits(mark) /\ Leads(mark, routers, memories, r, m)
    BY <2>1 DEF MarksLead
  <2>3. mark.router_len <= later.router_len /\ mark.semantic_len <= later.semantic_len
    BY <2>1 DEF MarksLead
  <2> HIDE DEF mark, later
  <2>4. Leads(mark, SubSeq(routers, 1, later.router_len), SubSeq(memories, 1, later.semantic_len),
              later.saved[1], later.saved[2])
    BY <1>1, <1>2, <2>2, <2>3, LeadsFurther
  <2> QED BY <2>2, <2>4 DEF mark
<1> HIDE DEF new, a, b, later
<1>7. ASSUME NEW k \in 1..Len(new), NEW j \in 1..k
      PROVE  new[j].router_len <= new[k].router_len /\ new[j].semantic_len <= new[k].semantic_len
  <2>1. k \in 1..Len(list) /\ k \in 1..(i - 1) /\ j \in 1..(i - 1)
    BY <1>1, <1>5
  <2>2. new[j] = list[j] /\ new[k] = list[k]
    BY <1>5, <2>1
  <2> QED BY <2>1, <2>2 DEF MarksLead
<1>8. \A k \in 1..Len(new) : MarkFits(new[k]) /\ Leads(new[k], a, b, later.saved[1], later.saved[2])
  BY <1>5, <1>6
<1>9. MarksLead(new, a, b, later.saved[1], later.saved[2])
  BY <1>4, <1>5, <1>7, <1>8 DEF MarksLead
<1> QED BY <1>9 DEF new, a, b, later

LEMMA DiscardedLead ==
    ASSUME NEW list, NEW routers, NEW memories, NEW r, NEW m,
           MarksLead(list, routers, memories, r, m), Len(list) > 1
    PROVE  LET n == list[2].router_len
               k == list[2].semantic_len
           IN  MarksLead([i \in 1..Len(list) - 1 |->
                             [list[i + 1] EXCEPT !.router_len = @ - n, !.semantic_len = @ - k]],
                         SubSeq(routers, n + 1, Len(routers)),
                         SubSeq(memories, k + 1, Len(memories)), r, m)
<1> DEFINE n == list[2].router_len
           k == list[2].semantic_len
           new == [i \in 1..Len(list) - 1 |->
                      [list[i + 1] EXCEPT !.router_len = @ - n, !.semantic_len = @ - k]]
           a == SubSeq(routers, n + 1, Len(routers))
           b == SubSeq(memories, k + 1, Len(memories))
           L == Len(list) - 1
<1>1. /\ IsSeq(routers) /\ IsSeq(memories) /\ IsSeq(list) /\ Len(list) \in Nat
      /\ Len(routers) \in Nat /\ Len(memories) \in Nat
  BY IsSeqLen DEF MarksLead
<1>2. L \in Nat /\ 2 \in 1..Len(list)
  BY <1>1
<1>3. n \in 0..Len(routers) /\ k \in 0..Len(memories)
  BY <1>2 DEF MarksLead, Leads
<1>4. \A i \in 1..L : new[i] = Shifted(list[i + 1], n, k)
  BY DEF Shifted
<1>5. IsSeq(new) /\ Len(new) = L
  <2> DEFINE S == { new[i] : i \in 1..L }
  <2>1. new \in [1..L -> S]
    BY Zenon
  <2> HIDE DEF S, new, L
  <2>2. new \in Seq(S) /\ Len(new) = L
    BY <1>2, <2>1
  <2> QED BY <2>2, SeqIsSeq
<1>6. IsSeq(a) /\ IsSeq(b)
  <2>1. Len(routers) \in n..Len(routers) /\ Len(memories) \in k..Len(memories)
    BY <1>1, <1>3
  <2> HIDE DEF n, k
  <2> QED BY <1>1, <1>3, <2>1, SegmentDropped
<1>7. ASSUME NEW i \in 1..L
      PROVE  LET mark == list[i + 1]
                 moved == Shifted(mark, n, k)
             IN  /\ MarkFits(moved) /\ Leads(moved, a, b, r, m)
                 /\ moved.router_len = mark.router_len - n
                 /\ moved.semantic_len = mark.semantic_len - k
                 /\ mark.router_len \in Nat /\ mark.semantic_len \in Nat
                 /\ n \in Nat /\ k \in Nat
  <2> DEFINE mark == list[i + 1]
             moved == Shifted(mark, n, k)
  <2>1. i + 1 \in 1..Len(list) /\ 2 \in 1..(i + 1)
    BY <1>1
  <2>2. MarkFits(mark) /\ Leads(mark, routers, memories, r, m)
    BY <2>1 DEF MarksLead
  <2>3. n <= mark.router_len /\ k <= mark.semantic_len
    BY <2>1 DEF MarksLead
  <2>4. mark.router_len \in 0..Len(routers) /\ mark.semantic_len \in 0..Len(memories)
    BY <2>2 DEF Leads
  <2> HIDE DEF mark, n, k
  <2>5. n \in 0..mark.router_len /\ k \in 0..mark.semantic_len /\ n \in Nat /\ k \in Nat
        /\ mark.router_len \in Nat /\ mark.semantic_len \in Nat
    BY <1>1, <1>3, <2>3, <2>4
  <2>6. IsMark(mark)
    BY <2>2 DEF MarkFits
  <2>7. /\ IsMark(moved) /\ moved.saved = mark.saved /\ moved.document = mark.document
        /\ moved.router_len = mark.router_len - n
        /\ moved.semantic_len = mark.semantic_len - k
        /\ Leads(moved, a, b, r, m)
    BY <1>1, <2>2, <2>5, <2>6, LeadsDropped
  <2> HIDE DEF moved
  <2>8. MarkFits(moved)
    BY <2>2, <2>7 DEF MarkFits
  <2> QED BY <2>5, <2>7, <2>8 DEF moved, mark
<1> HIDE DEF new, a, b, n, k
<1>8. ASSUME NEW i \in 1..L, NEW j \in 1..i
      PROVE  new[j].router_len <= new[i].router_len /\ new[j].semantic_len <= new[i].semantic_len
  <2> DEFINE x == list[j + 1]
             y == list[i + 1]
  <2>1. j \in 1..L /\ j + 1 \in 1..(i + 1) /\ i + 1 \in 1..Len(list)
    BY <1>1, <1>2
  <2>2. x.router_len <= y.router_len /\ x.semantic_len <= y.semantic_len
    BY <2>1 DEF MarksLead
  <2>3. /\ new[j].router_len = x.router_len - n /\ new[j].semantic_len = x.semantic_len - k
        /\ new[i].router_len = y.router_len - n /\ new[i].semantic_len = y.semantic_len - k
        /\ x.router_len \in Nat /\ y.router_len \in Nat /\ x.semantic_len \in Nat
        /\ y.semantic_len \in Nat /\ n \in Nat /\ k \in Nat
    BY <1>4, <1>7, <2>1, Zenon
  <2> HIDE DEF x, y
  <2> QED BY <2>2, <2>3
<1>9. \A i \in 1..L : MarkFits(new[i]) /\ Leads(new[i], a, b, r, m)
  BY <1>4, <1>7
<1> HIDE DEF L
<1>10. MarksLead(new, a, b, r, m)
  BY <1>5, <1>6, <1>8, <1>9 DEF MarksLead
<1> QED BY <1>10, Zenon DEF new, a, b, n, k

-------------------------------------------------------------------------------
(* The invariant, from the start and over every step.                        *)

LEMMA StartsWell == Init => UndoInv
<1> SUFFICES ASSUME Init PROVE UndoInv
  OBVIOUS
<1>1. Compiled
  BY InitCompiled
<1>2. IsMemory(memory)
  BY EmptyIsMemory DEF Init
<1>3. FollowsText(document, router)
  <2>1. /\ document = [text |-> <<>>, pool |-> EmptyPool, open |-> <<>>, root |-> {}]
        /\ router = NewRouter
    BY DEF Init, NewDocument
  <2>2. DocumentFits(document)
    BY <2>1, IsSeqEmpty DEF DocumentFits
  <2>3. RouterOf(document) = NewRouter
    <3>1. StackOf(<<>>) = <<>>
      BY DEF StackOf
    <3>2. document.open = <<>> /\ document.root = {}
      BY <2>1
    <3>3. RouterOf(document) = Router(<<>>, PendingAfterClose(<<>>), FALSE)
      <4>1. (document.root # {}) = FALSE
        BY <3>2
      <4> QED BY <3>1, <3>2, <4>1, RouterFollows, Zenon
    <3> QED BY <3>3 DEF Router, NewRouter, PendingAfterClose
  <2> QED BY <2>1, <2>2, <2>3 DEF FollowsText
<1>4. MarksLead(marks, routerJournal, semanticJournal, router, memory)
  BY IsSeqEmpty DEF Init, MarksLead
<1> QED BY <1>1, <1>2, <1>3, <1>4 DEF UndoInv

(* What is said of a mark is said of it later, for the schema stays.          *)
LEMMA SchemaStays ==
    ASSUME root' = root, schema' = schema
    PROVE  /\ Compiled' <=> Compiled
           /\ \A d : DocumentFits(d)' <=> DocumentFits(d)
           /\ \A d : RouterOf(d)' = RouterOf(d)
           /\ \A mark : MarkFits(mark)' <=> MarkFits(mark)
           /\ \A d, r : FollowsText(d, r)' <=> FollowsText(d, r)
           /\ \A list, routers, memories, r, m :
                 MarksLead(list, routers, memories, r, m)' <=> MarksLead(list, routers, memories, r, m)
<1>1. Compiled' <=> Compiled
  BY DEF Compiled, SchemaFits, NodeFits, ActionsFit
<1>2. \A d : DocumentFits(d)' <=> DocumentFits(d)
  BY DEF DocumentFits, FrameFits, PropertyNodes
<1>3. \A d : RouterOf(d)' = RouterOf(d)
  BY DEF RouterOf, PendingAfterClose, RuntimeArray, RuntimeObject, PropertyNodes
<1>4. \A mark : MarkFits(mark)' <=> MarkFits(mark)
  BY <1>2, <1>3 DEF MarkFits
<1>5. \A d, r : FollowsText(d, r)' <=> FollowsText(d, r)
  BY <1>2, <1>3 DEF FollowsText
<1>6. \A list, routers, memories, r, m :
         MarksLead(list, routers, memories, r, m)' <=> MarksLead(list, routers, memories, r, m)
  BY <1>4 DEF MarksLead
<1> QED BY <1>1, <1>2, <1>3, <1>4, <1>5, <1>6

(* To keep the invariant over a step that leaves the schema.                 *)
LEMMA Keeps ==
    ASSUME Compiled, root' = root, schema' = schema, IsMemory(memory'),
           error' = "none" => FollowsText(document', router'),
           MarksLead(marks', routerJournal', semanticJournal', router', memory')
    PROVE  UndoInv'
<1>1. Compiled'
  BY SchemaStays
<1>2. error' = "none" => FollowsText(document, router)'
  BY SchemaStays
<1>3. MarksLead(marks, routerJournal, semanticJournal, router, memory)'
  BY SchemaStays
<1> QED BY <1>1, <1>2, <1>3 DEF UndoInv

LEMMA MarkKeeps ==
    ASSUME UndoInv, Mark
    PROVE  UndoInv'
<1>1. /\ error = "none" /\ root' = root /\ schema' = schema /\ document' = document
      /\ router' = router /\ memory' = memory /\ error' = error
      /\ routerJournal' = routerJournal /\ semanticJournal' = semanticJournal
      /\ marks' = Append(marks, [router_len |-> Len(routerJournal),
                                 semantic_len |-> Len(semanticJournal),
                                 saved |-> <<router, memory>>, document |-> document])
  BY DEF Mark
<1>2. /\ Compiled /\ IsMemory(memory) /\ FollowsText(document, router)
      /\ MarksLead(marks, routerJournal, semanticJournal, router, memory)
  BY <1>1 DEF UndoInv
<1>3. MarksLead(marks', routerJournal, semanticJournal, router, memory)
  BY <1>1, <1>2, MarkedLead
<1> QED BY <1>1, <1>2, <1>3, Keeps

LEMMA TakeKeeps ==
    ASSUME UndoInv, NEW t \in Candidates(document), Take(t)
    PROVE  UndoInv'
<1> DEFINE step == Read(document, t)
           e == process_pending_events(EffectOn(router, memory, scratch), step.events)
<1>1. /\ error = "none" /\ root' = root /\ schema' = schema /\ marks' = marks
      /\ document' = step.document /\ router' = e.router /\ memory' = e.memory
      /\ routerJournal' = routerJournal \o e.routerUndo
      /\ semanticJournal' = semanticJournal \o e.semanticUndo
      /\ error' = e.error
  BY DEF Take
<1>2. /\ Compiled /\ IsMemory(memory) /\ FollowsText(document, router)
      /\ MarksLead(marks, routerJournal, semanticJournal, router, memory)
  BY <1>1 DEF UndoInv
<1>3. DocumentFits(document) /\ router = RouterOf(document)
  BY <1>2 DEF FollowsText
<1>4. Follows(e, step.document, router, memory)
  <2> DEFINE d == document
             m == memory
             counting == scratch
             a == process_pending_events(EffectOn(RouterOf(d), m, counting), Read(d, t).events)
  <2>1. Follows(a, Read(d, t).document, RouterOf(d), m)
    BY <1>2, <1>3, TokenFollows
  <2>2. a = e
    BY <1>3
  <2> HIDE DEF a, e
  <2> QED BY <1>3, <2>1, <2>2
<1> HIDE DEF e, step
<1>5. Retraces(e, router, memory) /\ (e.error = "none" => FollowsText(step.document, e.router))
  BY <1>4 DEF Follows, FollowsText, Ok
<1>6. IsMemory(e.memory)
  BY <1>5 DEF Retraces
<1>7. MarksLead(marks, routerJournal \o e.routerUndo, semanticJournal \o e.semanticUndo,
                e.router, e.memory)
  BY <1>2, <1>5, TakenLead
<1> QED BY <1>1, <1>2, <1>5, <1>6, <1>7, Keeps

LEMMA RestoredIsSaved ==
    ASSUME MarksLead(marks, routerJournal, semanticJournal, router, memory),
           NEW i \in 1..Len(marks)
    PROVE  Restored(marks[i]) = {marks[i].saved}
<1> DEFINE mark == marks[i]
           n == mark.router_len
           k == mark.semantic_len
<1>1. MarkFits(mark) /\ Leads(mark, routerJournal, semanticJournal, router, memory)
  BY DEF MarksLead
<1>2. /\ RouterFolding!Back(routerJournal, n, {router}) = {mark.saved[1]}
      /\ MemoryFolding!Back(semanticJournal, k, {memory}) = {mark.saved[2]}
  BY <1>1, Zenon DEF Leads
<1>3. mark.saved = <<mark.saved[1], mark.saved[2]>>
  BY <1>1 DEF MarkFits
<1>4. Restored(mark) = Unwound(router, routerJournal, n, RouterUndone)
                         \X Unwound(memory, semanticJournal, k, MemoryUndone)
  BY DEF Restored
<1> HIDE DEF mark, n, k
<1>5. Unwound(router, routerJournal, n, RouterUndone) = {mark.saved[1]}
  BY <1>2, RouterUnwinds, Zenon
<1>6. Unwound(memory, semanticJournal, k, MemoryUndone) = {mark.saved[2]}
  BY <1>2, MemoryUnwinds
<1>7. Restored(mark) = {mark.saved[1]} \X {mark.saved[2]}
  BY <1>4, <1>5, <1>6
<1>8. Restored(mark) = {<<mark.saved[1], mark.saved[2]>>}
  BY <1>7
<1> QED BY <1>3, <1>8, Zenon DEF mark

LEMMA RestoreKeeps ==
    ASSUME UndoInv, NEW i \in 1..Len(marks), Restore(i)
    PROVE  UndoInv'
<1> DEFINE mark == marks[i]
<1>1. /\ Compiled
      /\ MarksLead(marks, routerJournal, semanticJournal, router, memory)
  BY DEF UndoInv
<1>2. /\ root' = root /\ schema' = schema /\ document' = mark.document
      /\ routerJournal' = SubSeq(routerJournal, 1, mark.router_len)
      /\ semanticJournal' = SubSeq(semanticJournal, 1, mark.semantic_len)
      /\ marks' = SubSeq(marks, 1, i - 1)
      /\ \E s \in Restored(mark) : router' = s[1] /\ memory' = s[2]
  BY DEF Restore
<1>3. router' = mark.saved[1] /\ memory' = mark.saved[2]
  BY <1>1, <1>2, RestoredIsSaved, Zenon
<1>4. MarkFits(mark)
  BY <1>1 DEF MarksLead
<1>5. MarksLead(marks', routerJournal', semanticJournal', mark.saved[1], mark.saved[2])
  BY <1>1, <1>2, RestoredLead
<1> HIDE DEF mark
<1>6. IsMemory(memory') /\ FollowsText(document', router')
  BY <1>2, <1>3, <1>4 DEF MarkFits, FollowsText
<1> QED BY <1>1, <1>2, <1>3, <1>5, <1>6, Keeps

LEMMA DiscardKeeps ==
    ASSUME UndoInv, DiscardPrefix
    PROVE  UndoInv'
<1>1. /\ Compiled /\ IsMemory(memory) /\ error = "none" => FollowsText(document, router)
      /\ MarksLead(marks, routerJournal, semanticJournal, router, memory)
  BY DEF UndoInv
<1>2. /\ Compiled /\ IsMemory(memory)
      /\ MarksLead(marks, routerJournal, semanticJournal, router, memory)
      /\ FollowsText(document, router)
  BY Zenon DEF UndoInv, DiscardPrefix
<1> DEFINE n == marks[2].router_len
           k == marks[2].semantic_len
<1>3. /\ Len(marks) > 1 /\ root' = root /\ schema' = schema /\ document' = document
      /\ router' = router /\ memory' = memory /\ error' = error
      /\ routerJournal' = SubSeq(routerJournal, n + 1, Len(routerJournal))
      /\ semanticJournal' = SubSeq(semanticJournal, k + 1, Len(semanticJournal))
      /\ marks' = [i \in 1..Len(marks) - 1 |->
                      [marks[i + 1] EXCEPT !.router_len = @ - n, !.semantic_len = @ - k]]
  BY Zenon DEF DiscardPrefix
<1>4. MarksLead([i \in 1..Len(marks) - 1 |->
                      [marks[i + 1] EXCEPT !.router_len = @ - n, !.semantic_len = @ - k]],
                SubSeq(routerJournal, n + 1, Len(routerJournal)),
                SubSeq(semanticJournal, k + 1, Len(semanticJournal)), router, memory)
  BY <1>2, <1>3, DiscardedLead, Zenon
<1> DEFINE new == [i \in 1..Len(marks) - 1 |->
                      [marks[i + 1] EXCEPT !.router_len = @ - n, !.semantic_len = @ - k]]
<1> HIDE DEF new, n, k
<1>5. MarksLead(marks', routerJournal', semanticJournal', router', memory')
  BY <1>3, <1>4, Zenon DEF new
<1> QED BY <1>2, <1>3, <1>5, Keeps, Zenon

LEMMA MaskKeeps ==
    ASSUME UndoInv, WriteMask
    PROVE  UndoInv'
<1> DEFINE e == Mask(Candidates(document))
<1>1. /\ error = "none" /\ root' = root /\ schema' = schema /\ document' = document
      /\ routerJournal' = routerJournal /\ semanticJournal' = semanticJournal
      /\ marks' = marks /\ error' = error
      /\ router' = e.router /\ memory' = e.memory
  BY DEF WriteMask
<1>2. /\ Compiled /\ IsMemory(memory) /\ FollowsText(document, router)
      /\ MarksLead(marks, routerJournal, semanticJournal, router, memory)
  BY <1>1 DEF UndoInv
<1>3. Untouched(e)
  BY <1>2, MaskUntouched DEF FollowsText
<1> HIDE DEF e
<1>4. router' = router /\ memory' = memory
  BY <1>1, <1>3 DEF Untouched
<1> QED BY <1>1, <1>2, <1>4, Keeps

LEMMA StillKeeps ==
    ASSUME UndoInv, UNCHANGED vars
    PROVE  UndoInv'
<1>1. /\ root' = root /\ schema' = schema /\ document' = document
      /\ routerJournal' = routerJournal /\ semanticJournal' = semanticJournal
      /\ marks' = marks /\ error' = error /\ router' = router /\ memory' = memory
  BY DEF vars
<1> QED BY <1>1, Keeps DEF UndoInv

(* What every state satisfies: the schema is as a plan may leave it, the       *)
(* memory holds together, the journals lead back to every mark, and after a   *)
(* token that was not refused the router is where the text is.                *)
THEOREM UndoInvHolds == Spec => []UndoInv
<1>1. Init => UndoInv
  BY StartsWell
<1>2. UndoInv /\ [Next]_vars => UndoInv'
  <2> SUFFICES ASSUME UndoInv, [Next]_vars PROVE UndoInv'
    OBVIOUS
  <2>1. CASE Mark
    BY <2>1, MarkKeeps
  <2>2. ASSUME NEW t \in Candidates(document), Take(t) PROVE UndoInv'
    BY <2>2, TakeKeeps
  <2>3. ASSUME NEW i \in 1..Len(marks), Restore(i) PROVE UndoInv'
    BY <2>3, RestoreKeeps
  <2>4. CASE DiscardPrefix
    BY <2>4, DiscardKeeps
  <2>5. CASE WriteMask
    BY <2>5, MaskKeeps
  <2>6. CASE UNCHANGED vars
    BY <2>6, StillKeeps
  <2> QED BY <2>1, <2>2, <2>3, <2>4, <2>5, <2>6 DEF Next
<1> QED BY <1>1, <1>2, PTL DEF Spec

(* The router, kept by increments and by undo, is where the text is           *)
(* (sidememory/router.rs, simulation.rs), whatever schema, plan and limits.   *)
THEOREM RouterFollowsTextHolds == Spec => []RouterFollowsText
<1>1. UndoInv => RouterFollowsText
  BY DEF UndoInv, FollowsText, RouterFollowsText
<1> QED BY <1>1, UndoInvHolds, PTL

(* The two journals take back exactly what was done since each mark, also     *)
(* when a token was refused half-way, a mask was taken or the oldest mark was *)
(* dropped in between (sidememory/journal.rs, guide.rs).                      *)
THEOREM UndoExactHolds == Spec => []UndoExact
<1>1. UndoInv => UndoExact
  <2> SUFFICES ASSUME UndoInv, NEW i \in DOMAIN marks
               PROVE  Restored(marks[i]) = {marks[i].saved}
    BY DEF UndoExact
  <2>1. MarksLead(marks, routerJournal, semanticJournal, router, memory)
    BY DEF UndoInv
  <2>2. i \in 1..Len(marks)
    BY <2>1, IsSeqLen DEF MarksLead
  <2> QED BY <2>1, <2>2, RestoredIsSaved, Zenon
<1> QED BY <1>1, UndoInvHolds, PTL
===============================================================================
