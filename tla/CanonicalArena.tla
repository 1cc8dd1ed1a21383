---------------------------- MODULE CanonicalArena ----------------------------
(***************************************************************************)
(* The arena every value is kept in (sidememory/canonical.rs, value.rs):   *)
(* four vectors that only grow.  A node of a string, an array or an object *)
(* is a span of the bytes, of the children or of the entries; an entry's   *)
(* key is a span of the bytes again.  An id is a node's place, counted     *)
(* from 1, so that a node only refers to ids below its own.                *)
(*                                                                         *)
(* An add_* is the set of the arenas it may leave: none when it refuses,   *)
(* which it does before it changes anything.                               *)
(***************************************************************************)
EXTENDS CanonicalNumber, Bytes

EmptyArena == [nodes |-> <<>>, bytes |-> <<>>, children |-> <<>>, entries |-> <<>>]

arena_mark(arena) ==
    [nodes_len |-> Len(arena.nodes), bytes_len |-> Len(arena.bytes),
     children_len |-> Len(arena.children), entries_len |-> Len(arena.entries)]

MarkInside(arena, mark) ==
    /\ mark.nodes_len <= Len(arena.nodes)
    /\ mark.bytes_len <= Len(arena.bytes)
    /\ mark.children_len <= Len(arena.children)
    /\ mark.entries_len <= Len(arena.entries)

restored(arena, mark) ==
    [nodes |-> SubSeq(arena.nodes, 1, mark.nodes_len),
     bytes |-> SubSeq(arena.bytes, 1, mark.bytes_len),
     children |-> SubSeq(arena.children, 1, mark.children_len),
     entries |-> SubSeq(arena.entries, 1, mark.entries_len)]

Span(values, more) == [start |-> Len(values), len |-> Len(more)]
Slice(values, span) == SubSeq(values, span.start + 1, span.start + span.len)

-------------------------------------------------------------------------------
(* Adding.                                                                 *)

publish(arena, node, limits) ==
    IF Len(arena.nodes) >= limits.nodes THEN {} ELSE {[arena EXCEPT !.nodes = Append(@, node)]}

add_literal(arena, name, limits) == publish(arena, [type |-> "literal", name |-> name], limits)
add_number(arena, value, limits) == publish(arena, [type |-> "number", value |-> value], limits)

add_string(arena, value, limits) ==
    IF Len(value) > limits.valueBytes \/ Len(arena.bytes) + Len(value) > limits.arenaBytes THEN {}
    ELSE publish([arena EXCEPT !.bytes = @ \o value],
                 [type |-> "string", span |-> Span(arena.bytes, value)], limits)

add_array(arena, values, limits) ==
    IF Len(values) > limits.items \/ ~(ToSet(values) \subseteq DOMAIN arena.nodes) THEN {}
    ELSE publish([arena EXCEPT !.children = @ \o values],
                 [type |-> "array", span |-> Span(arena.children, values)], limits)

(* Keys in the order of their bytes, a beginning before what it begins.      *)
KeyBefore(left, right) ==
    \E i \in DOMAIN right :
        /\ i - 1 <= Len(left)
        /\ SubSeq(right, 1, i - 1) = SubSeq(left, 1, i - 1)
        /\ i <= Len(left) => ByteCode[left[i]] < ByteCode[right[i]]

Arrangements(members) ==
    { [i \in DOMAIN members |-> members[p[i]]] : p \in Bijection(DOMAIN members, DOMAIN members) }

\* Mutant: the members stay as they were written.
SortedUnsorted(members) == {members}

(* sort_unstable_by says nothing of the order of equal keys.                 *)
Sorted(members) ==
    { s \in Arrangements(members) : \A i \in 2..Len(s) : ~KeyBefore(s[i][1], s[i - 1][1]) }

add_sorted(arena, members, limits) ==
    LET keys == [i \in DOMAIN members |-> members[i][1]]
        KeyBytes(i) == FlattenSeq(SubSeq(keys, 1, i))
        entry(i) == [key |-> Span(arena.bytes \o KeyBytes(i - 1), keys[i]), value |-> members[i][2]]
        entries == [i \in DOMAIN members |-> entry(i)]
    IN  IF \/ Len(members) > limits.members
           \/ \E i \in DOMAIN keys : Len(keys[i]) > limits.valueBytes
           \/ \E i \in DOMAIN members : members[i][2] \notin DOMAIN arena.nodes
           \/ \E i \in 2..Len(keys) : keys[i - 1] = keys[i]
           \/ Len(arena.bytes) + Len(KeyBytes(Len(keys))) > limits.arenaBytes
        THEN {}
        ELSE publish([arena EXCEPT !.bytes = @ \o KeyBytes(Len(keys)), !.entries = @ \o entries],
                     [type |-> "object", span |-> Span(arena.entries, entries)], limits)

(* members is a sequence of pairs of a key and an id.                       *)
add_object(arena, members, limits) ==
    UNION { add_sorted(arena, sorted, limits) : sorted \in Sorted(members) }

-------------------------------------------------------------------------------
(* Reading.                                                                *)

string_bytes(arena, span) == Slice(arena.bytes, span)
array_values(arena, node) == Slice(arena.children, node.span)
object_entries(arena, node) == Slice(arena.entries, node.span)

(* equal_across: ids that stand for one value, in one arena or in two.       *)
equal_across(arena, left, other, right) ==
    LET Zipped(l, r, Alike(_, _)) ==
            Len(l) = Len(r) /\ \A i \in DOMAIN l : Alike(l[i], r[i])
        Same[p \in (DOMAIN arena.nodes) \X (DOMAIN other.nodes)] ==
            LET l == arena.nodes[p[1]]
                r == other.nodes[p[2]]
            IN  l.type = r.type /\
                CASE l.type = "literal" -> l.name = r.name
                  [] l.type = "number" -> l.value = r.value
                  [] l.type = "string" ->
                        string_bytes(arena, l.span) = string_bytes(other, r.span)
                  [] l.type = "array" ->
                        Zipped(array_values(arena, l), array_values(other, r),
                               LAMBDA x, y : Same[<<x, y>>])
                  [] l.type = "object" ->
                        Zipped(object_entries(arena, l), object_entries(other, r),
                               LAMBDA x, y :
                                  /\ string_bytes(arena, x.key) = string_bytes(other, y.key)
                                  /\ Same[<<x.value, y.value>>])
    IN  Same[<<left, right>>]

equal(arena, left, right) == equal_across(arena, left, arena, right)

(* fingerprint: what it writes to the hasher, a count as one item.           *)
LiteralTag == [null |-> 0, false |-> 1, true |-> 2]

ByteValues(bytes) == [i \in DOMAIN bytes |-> ByteCode[bytes[i]]]
Flag(condition) == IF condition THEN 1 ELSE 0

Field(codes) == <<Len(codes)>> \o codes

fingerprint_stream(arena, root) ==
    LET Stream[id \in DOMAIN arena.nodes] ==
            LET node == arena.nodes[id]
                Parts(tag, values, Part(_)) ==
                    <<tag, Len(values)>> \o FlattenSeq([i \in DOMAIN values |-> Part(values[i])])
            IN  CASE node.type = "literal" -> <<LiteralTag[node.name]>>
                  [] node.type = "number" ->
                        <<3, Flag(node.value.negative)>> \o Field(node.value.coefficient)
                        \o <<Flag(node.value.exponent.negative)>>
                        \o Field(node.value.exponent.digits)
                  [] node.type = "string" ->
                        <<4>> \o Field(ByteValues(string_bytes(arena, node.span)))
                  [] node.type = "array" ->
                        Parts(5, array_values(arena, node), LAMBDA x : Stream[x])
                  [] node.type = "object" ->
                        Parts(6, object_entries(arena, node), LAMBDA x :
                            <<7>> \o Field(ByteValues(string_bytes(arena, x.key))) \o Stream[x.value])
    IN  Stream[root]

-------------------------------------------------------------------------------
(* What keeps the two recursions finite and in range: spans end inside their *)
(* vectors, and a node refers only to nodes before it.                      *)
SpanInside(span, values) ==
    span.start \in Nat /\ span.len \in Nat /\ span.start + span.len <= Len(values)

Places(span) == span.start + 1..span.start + span.len

NodeRefersBack(arena, id) ==
    LET node == arena.nodes[id]
    IN  /\ node.type = "string" => SpanInside(node.span, arena.bytes)
        /\ node.type = "array" =>
              /\ SpanInside(node.span, arena.children)
              /\ \A i \in Places(node.span) : arena.children[i] \in 1..id - 1
        /\ node.type = "object" =>
              /\ SpanInside(node.span, arena.entries)
              /\ \A i \in Places(node.span) : arena.entries[i].value \in 1..id - 1

RefersBack(arena) == \A id \in DOMAIN arena.nodes : NodeRefersBack(arena, id)

KeysInside(arena) == \A i \in DOMAIN arena.entries : SpanInside(arena.entries[i].key, arena.bytes)

===============================================================================
