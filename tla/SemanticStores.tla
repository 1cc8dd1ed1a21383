---------------------------- MODULE SemanticStores ----------------------------
(***************************************************************************)
(* The stores of the semantic memory (sidememory/history.rs, counter.rs,   *)
(* register.rs): what has been seen in each open array and object.  Every  *)
(* operation has the record that takes it back.                            *)
(*                                                                         *)
(* A memory is                                                             *)
(*   histories    (frame, constraint) -> the values seen, in buckets by    *)
(*                fingerprint, and how many they are                       *)
(*   counters     (frame, constraint) -> items processed and matched       *)
(*   scopes       object frame -> the values captured, by register         *)
(*   item_count, value_count   the totals the limits speak of              *)
(* A canonical id stands here for the value it refers to.                  *)
(***************************************************************************)
EXTENDS Naturals, Sequences, FiniteSets

CONSTANT Fingerprint(_)  \* the hash of a value; different values may share it

(* Maps that grow and shrink.                                              *)
With(f, k, v) == [x \in DOMAIN f \union {k} |-> IF x = k THEN v ELSE f[x]]
Without(f, k) == [x \in DOMAIN f \ {k} |-> f[x]]

EmptyMap == [x \in {} |-> 0]
EmptyMemory ==
    [histories |-> EmptyMap, item_count |-> 0, counters |-> EmptyMap,
     scopes |-> EmptyMap, value_count |-> 0]

-------------------------------------------------------------------------------
(* Histories.                                                              *)

EmptyHistory == [buckets |-> EmptyMap, len |-> 0]

Bucket(h, v) == IF Fingerprint(v) \in DOMAIN h.buckets THEN h.buckets[Fingerprint(v)] ELSE <<>>

Holds(h, v) == \E i \in 1..Len(Bucket(h, v)) : Bucket(h, v)[i] = v

CreateHistory(m, k) == [m EXCEPT !.histories = With(@, k, EmptyHistory)]
RemoveCreatedHistory(k) == [op |-> "RemoveCreatedHistory", key |-> k]

Insert(m, k, v) ==
    LET h == m.histories[k]
        grown == [buckets |-> With(h.buckets, Fingerprint(v), Append(Bucket(h, v), v)),
                  len |-> h.len + 1]
    IN  [m EXCEPT !.histories = With(@, k, grown), !.item_count = @ + 1]

\* Mutant: undo takes the whole bucket for new.
RestoreBucketAsNew(m, k, v) ==
    [op |-> "RestoreBucket", key |-> k, fingerprint |-> Fingerprint(v), previous_len |-> 0,
     bucket_was_created |-> TRUE, previous_item_count |-> m.item_count]

RestoreBucket(m, k, v) ==
    LET h == m.histories[k]
    IN  [op |-> "RestoreBucket", key |-> k, fingerprint |-> Fingerprint(v),
         previous_len |-> Len(Bucket(h, v)),
         bucket_was_created |-> Fingerprint(v) \notin DOMAIN h.buckets,
         previous_item_count |-> m.item_count]

\* Mutant: the items of a closed history still count.
CloseHistoryOnly(m, k) == [m EXCEPT !.histories = Without(@, k)]

CloseHistory(m, k) ==
    [m EXCEPT !.histories = Without(@, k), !.item_count = @ - m.histories[k].len]
RestoreClosedHistory(m, k) ==
    [op |-> "RestoreClosedHistory", key |-> k, history |-> m.histories[k],
     previous_item_count |-> m.item_count]

-------------------------------------------------------------------------------
(* Counters.                                                               *)

NewCounter == [processed |-> 0, matched |-> 0]

CreateCounter(m, k) == [m EXCEPT !.counters = With(@, k, NewCounter)]
RemoveCreatedCounter(k) == [op |-> "RemoveCreatedCounter", key |-> k]

Counted(c, matched) == [processed |-> c.processed + 1, matched |-> c.matched + matched]
UpdateCounter(m, k, matched) ==
    [m EXCEPT !.counters = With(@, k, Counted(m.counters[k], matched))]
RestoreCounter(m, k) == [op |-> "RestoreCounter", key |-> k, previous |-> m.counters[k]]

\* Mutant: a counter outlives its array.
CloseCounterNever(m, k) == m

CloseCounter(m, k) == [m EXCEPT !.counters = Without(@, k)]
RestoreClosedCounter(m, k) == [op |-> "RestoreClosedCounter", key |-> k, state |-> m.counters[k]]

-------------------------------------------------------------------------------
(* Registers.                                                              *)

OpenScope(m, o) == [m EXCEPT !.scopes = With(@, o, EmptyMap)]
RemoveCreatedRegisterScope(o) == [op |-> "RemoveCreatedRegisterScope", key |-> o]

(* A register never set yet counts as one more value.  previous is a set of *)
(* at most one value.                                                      *)
Unset(m, o, r) == r \notin DOMAIN m.scopes[o]
NextCount(m, o, r) == m.value_count + (IF Unset(m, o, r) THEN 1 ELSE 0)
SetRegister(m, o, r, v) ==
    [m EXCEPT !.scopes = With(@, o, With(m.scopes[o], r, v)),
              !.value_count = NextCount(m, o, r)]
RestoreRegister(m, o, r) ==
    [op |-> "RestoreRegister", key |-> o, register |-> r,
     previous |-> IF Unset(m, o, r) THEN {} ELSE {m.scopes[o][r]}]

ScopeSize(scope) == Cardinality(DOMAIN scope)
CloseScope(m, o) ==
    [m EXCEPT !.scopes = Without(@, o), !.value_count = @ - ScopeSize(m.scopes[o])]
RestoreClosedRegisterScope(m, o) ==
    [op |-> "RestoreClosedRegisterScope", key |-> o, scope |-> m.scopes[o]]

-------------------------------------------------------------------------------
(* Undo.  StoreCanUndo is what each store checks of a record, StoreUndo what it does. *)

StoreCanUndo(m, u) ==
    CASE u.op = "RemoveCreatedHistory" ->
            u.key \in DOMAIN m.histories /\ m.histories[u.key].len = 0
      [] u.op = "RestoreBucket" ->
            /\ u.key \in DOMAIN m.histories
            /\ m.histories[u.key].len > 0
            /\ u.fingerprint \in DOMAIN m.histories[u.key].buckets
            /\ u.previous_len <= Len(m.histories[u.key].buckets[u.fingerprint])
            /\ u.bucket_was_created => u.previous_len = 0
      [] u.op = "RestoreClosedHistory" -> u.key \notin DOMAIN m.histories
      [] u.op = "RemoveCreatedCounter" ->
            u.key \in DOMAIN m.counters /\ m.counters[u.key] = NewCounter
      [] u.op = "RestoreCounter" -> u.key \in DOMAIN m.counters
      [] u.op = "RestoreClosedCounter" -> u.key \notin DOMAIN m.counters
      [] u.op = "RemoveCreatedRegisterScope" ->
            u.key \in DOMAIN m.scopes /\ DOMAIN m.scopes[u.key] = {}
      [] u.op = "RestoreRegister" ->
            /\ u.key \in DOMAIN m.scopes
            /\ u.previous = {} => u.register \in DOMAIN m.scopes[u.key] /\ m.value_count > 0
      [] u.op = "RestoreClosedRegisterScope" -> u.key \notin DOMAIN m.scopes

TruncatedBucket(h, u) ==
    [buckets |->
        IF u.bucket_was_created THEN Without(h.buckets, u.fingerprint)
        ELSE With(h.buckets, u.fingerprint, SubSeq(h.buckets[u.fingerprint], 1, u.previous_len)),
     len |-> h.len - 1]

PreviousScope(scope, u) ==
    IF u.previous = {} THEN Without(scope, u.register)
    ELSE With(scope, u.register, CHOOSE v \in u.previous : TRUE)

StoreUndo(m, u) ==
    CASE u.op = "RemoveCreatedHistory" -> [m EXCEPT !.histories = Without(@, u.key)]
      [] u.op = "RestoreBucket" ->
            [m EXCEPT !.histories = With(@, u.key, TruncatedBucket(m.histories[u.key], u)),
                      !.item_count = u.previous_item_count]
      [] u.op = "RestoreClosedHistory" ->
            [m EXCEPT !.histories = With(@, u.key, u.history),
                      !.item_count = u.previous_item_count]
      [] u.op = "RemoveCreatedCounter" -> [m EXCEPT !.counters = Without(@, u.key)]
      [] u.op = "RestoreCounter" -> [m EXCEPT !.counters = With(@, u.key, u.previous)]
      [] u.op = "RestoreClosedCounter" -> [m EXCEPT !.counters = With(@, u.key, u.state)]
      [] u.op = "RemoveCreatedRegisterScope" -> [m EXCEPT !.scopes = Without(@, u.key)]
      [] u.op = "RestoreRegister" ->
            [m EXCEPT !.scopes = With(@, u.key, PreviousScope(m.scopes[u.key], u)),
                      !.value_count = IF u.previous = {} THEN @ - 1 ELSE @]
      [] u.op = "RestoreClosedRegisterScope" ->
            [m EXCEPT !.scopes = With(@, u.key, u.scope),
                      !.value_count = @ + ScopeSize(u.scope)]

-------------------------------------------------------------------------------
(* What the memories that these operations build have in common.             *)

IsMap(f) == f = [x \in DOMAIN f |-> f[x]]

WellFormedHistory(h, Values) ==
    /\ h = [buckets |-> h.buckets, len |-> h.len]
    /\ h.len \in Nat
    /\ IsMap(h.buckets)
    /\ \A p \in DOMAIN h.buckets : h.buckets[p] \in Seq(Values)

WellFormedMemory(m, Values) ==
    /\ m = [histories |-> m.histories, item_count |-> m.item_count,
            counters |-> m.counters, scopes |-> m.scopes, value_count |-> m.value_count]
    /\ IsMap(m.histories) /\ IsMap(m.counters) /\ IsMap(m.scopes)
    /\ m.item_count \in Nat /\ m.value_count \in Nat
    /\ \A k \in DOMAIN m.histories : WellFormedHistory(m.histories[k], Values)
    /\ \A o \in DOMAIN m.scopes :
          /\ IsMap(m.scopes[o])
          /\ ScopeSize(m.scopes[o]) \in Nat
          /\ ScopeSize(m.scopes[o]) <= m.value_count

===============================================================================
