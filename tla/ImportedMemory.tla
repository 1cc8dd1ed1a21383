---------------------------- MODULE ImportedMemory ----------------------------
(***************************************************************************)
(* Imported memory (sidememory/imports.rs): named sets of values, brought    *)
(* once into an arena of their own and never changed, of which a guide asks    *)
(* whether a value of its own arena is a member.  A set keeps its values in    *)
(* buckets by fingerprint (CanonicalSet of history.rs).                       *)
(*                                                                         *)
(* A value to import has a type, and name, text, bytes, items or members      *)
(* accordingly.  What may be refused is a set, empty when it is.              *)
(***************************************************************************)
EXTENDS CanonicalArena

CONSTANT Hasher(_)    \* of what is written to it, a hash that others may share

Added(arenas) == { <<arena, Len(arena.nodes)>> : arena \in arenas }

RECURSIVE canonicalize(_, _, _)
canonicalize(value, arena, limits) ==
    LET Child(done, child) ==
            UNION { { <<c[1], Append(d[2], c[2])>> : c \in canonicalize(child, d[1], limits) } :
                      d \in done }
        Children(values) == FoldLeft(Child, {<<arena, <<>>>>}, values)
        Named(ids) == [i \in DOMAIN ids |-> <<value.members[i][1], ids[i]>>]
        parts == NumberParts(value.text)
    IN  CASE value.type = "literal" -> Added(add_literal(arena, value.name, limits))
          [] value.type = "number" ->
                IF ~WithinDigitLimits(parts, limits) THEN {}
                ELSE Added(add_number(arena, NormalForm(parts), limits))
          [] value.type = "string" -> Added(add_string(arena, value.bytes, limits))
          [] value.type = "array" ->
                UNION { Added(add_array(d[1], d[2], limits)) : d \in Children(value.items) }
          [] value.type = "object" ->
                UNION { Added(add_object(d[1], Named(d[2]), limits)) :
                          d \in Children([i \in DOMAIN value.members |-> value.members[i][2]]) }

-------------------------------------------------------------------------------
(* CanonicalSet.                                                           *)

EmptySet == [buckets |-> <<>>, len |-> 0]

FingerprintOf(arena, id) == Hasher(fingerprint_stream(arena, id))
BucketOf(set, fingerprint) ==
    IF fingerprint \in DOMAIN set.buckets THEN set.buckets[fingerprint] ELSE <<>>

contains_across(set, stored, arena, id) ==
    \E candidate \in ToSet(BucketOf(set, FingerprintOf(arena, id))) :
        equal_across(stored, candidate, arena, id)

\* Mutant: what has the fingerprint of another is taken for its duplicate.
insertByHash(set, arena, id) ==
    LET fingerprint == FingerprintOf(arena, id)
    IN  IF fingerprint \in DOMAIN set.buckets THEN set
        ELSE [buckets |-> fingerprint :> <<id>> @@ set.buckets, len |-> set.len + 1]

insert(set, arena, id) ==
    LET fingerprint == FingerprintOf(arena, id)
        bucket == BucketOf(set, fingerprint)
    IN  IF \E candidate \in ToSet(bucket) : equal(arena, candidate, id) THEN set
        ELSE [buckets |-> fingerprint :> Append(bucket, id) @@ set.buckets, len |-> set.len + 1]

-------------------------------------------------------------------------------
(* ImportedMemory.                                                         *)

EmptyImports == [arena |-> EmptyArena, sets |-> <<>>, by_name |-> <<>>]

InsertValue(memory, set, value, limits) ==
    { <<[memory EXCEPT !.arena = c[1]], insert(set, c[1], c[2])>> :
        c \in canonicalize(value, memory.arena, limits) }

(* One named list of the text, in its order.                                *)
InsertSet(memory, name, values, limits) ==
    LET Insert(done, value) == UNION { InsertValue(d[1], d[2], value, limits) : d \in done }
    IN  IF name = "" THEN {}
        ELSE { [d[1] EXCEPT !.sets = Append(@, d[2]),
                            !.by_name = name :> Len(memory.sets) + 1 @@ @] :
                 d \in FoldLeft(Insert, {<<memory, EmptySet>>}, values) }

(* object is a sequence of names, each with its list.                       *)
build_json(object, limits, max_sets, max_values) ==
    LET count == FoldLeft(LAMBDA n, entry : n + Len(entry[2]), 0, object)
    IN  IF Len(object) > max_sets \/ count > max_values THEN {}
        ELSE FoldLeft(LAMBDA all, entry :
                          UNION { InsertSet(memory, entry[1], entry[2], limits) : memory \in all },
                      {EmptyImports}, object)

contains(memory, name, arena, id) ==
    contains_across(memory.sets[memory.by_name[name]], memory.arena, arena, id)
===============================================================================
