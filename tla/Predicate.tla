------------------------------ MODULE Predicate ------------------------------
(***************************************************************************)
(* Values, schema nodes, and the predicate of contains (predicate.rs): a    *)
(* walk through a value and a node together that stops at the first           *)
(* mismatch, or with an error at one step, one comparison or one level too    *)
(* many.                                                                    *)
(***************************************************************************)
EXTENDS Integers, SequencesExt

CONSTANT KeyOrder    \* the property names, in the order of their bytes

Scalar(x) == [scalar |-> x]
ArrayValue(items) == [items |-> items]
ObjectValue(members) == [members |-> ToSet(members)]   \* pairs <<key, value>>
IsScalar(v) == "scalar" \in DOMAIN v
IsArray(v) == "items" \in DOMAIN v
IsObject(v) == "members" \in DOMAIN v

(* A scalar node has a type (the scalars of it), const and enum; an "any"    *)
(* node has the same.  An array node has items, min, max, unique, contains;  *)
(* an object node has properties (pairs of key and node, in order), required, *)
(* fixed and actions.  What is optional is a set of at most one element.     *)
IsLeafNode(s) == s.kind \in {"scalar", "any"}
IsFreeNode(s) == s.kind = "any" /\ s.const = {} /\ s.enum = {}
The(set) == CHOOSE x \in set : TRUE

(* The entries of an object as the arena keeps them.                        *)
SortedMembers(v) ==
    LET Named(key) == { p \in v.members : p[1] = key }
        present == SelectSeq(KeyOrder, LAMBDA key : Named(key) # {})
    IN  [i \in DOMAIN present |-> The(Named(present[i]))]

-------------------------------------------------------------------------------
PredicateScratch == [steps |-> 0, checks |-> 0, valid |-> TRUE, limited |-> FALSE]

Goes(scratch) == scratch.valid /\ ~scratch.limited
Refused(scratch) == [scratch EXCEPT !.valid = FALSE]

\* Mutant: the last step that is allowed is refused.
consume_stepEarly(scratch, limits) ==
    [scratch EXCEPT !.steps = @ + 1, !.limited = scratch.steps + 1 >= limits.predicateSteps]

consume_step(scratch, limits) ==
    [scratch EXCEPT !.steps = @ + 1, !.limited = scratch.steps >= limits.predicateSteps]
consume_check(scratch, limits) ==
    [scratch EXCEPT !.checks = @ + 1, !.limited = scratch.checks >= limits.predicateChecks]

matches_type(s, v) ==
    CASE s.kind = "any" -> TRUE
      [] s.kind = "scalar" -> IsScalar(v) /\ v.scalar \in s.type
      [] s.kind = "array" -> IsArray(v)
      [] s.kind = "object" -> IsObject(v)

matches_scalars(s, v) ==
    IF ~IsLeafNode(s) \/ s.const \union s.enum = {} THEN TRUE
    ELSE IsScalar(v) /\ v.scalar \in (IF s.const # {} THEN s.const ELSE s.enum)

MatchesShape(s, v) ==
    /\ s.kind # "never"
    /\ matches_type(s, v)
    /\ matches_scalars(s, v)
    /\ s.kind = "array" => Len(v.items) >= s.min /\ \A max \in s.max : Len(v.items) <= max
    /\ s.kind = "object" => s.required \subseteq { p[1] : p \in v.members }

(* All pairs of items, each with all after it, until two are equal.          *)
CompareItems(items, scratch, limits) ==
    LET After(l) == [k \in 1..Len(items) - l |-> <<l, l + k>>]
        pairs == FlattenSeq([l \in DOMAIN items |-> After(l)])
        Compare(at, p) ==
            LET counted == IF Goes(at) THEN consume_check(at, limits) ELSE at
            IN  IF Goes(counted) /\ items[p[1]] = items[p[2]] THEN Refused(counted) ELSE counted
    IN  FoldLeft(Compare, scratch, pairs)

(* A walk is at a place of the value, named by the way there: the positions of *)
(* items and members.  Its depth is the length of the way.                   *)
Inside(v, path) ==
    FoldLeft(LAMBDA x, i : IF IsArray(x) THEN x.items[i] ELSE SortedMembers(x)[i][2], v, path)

Positions(s) == [i \in DOMAIN s |-> i]

Scratches == [steps : Nat, checks : Nat, valid : BOOLEAN, limited : BOOLEAN]

(* Each predicate starts with a scratch of its own.                          *)
validate_predicate(ir, top, whole, limits) ==
    LET validate_node[n \in DOMAIN ir, path \in Seq(Nat), scratch \in Scratches] ==
            LET s == ir[n]
                v == Inside(whole, path)
                stepped == consume_step(scratch, limits)
                entered == [stepped EXCEPT !.limited = @ \/ Len(path) > limits.predicateDepth]
                Item(at, i) == validate_node[s.items, Append(path, i), at]
                Member(at, i) ==
                    LET key == SortedMembers(v)[i][1]
                        nodes == { p[2] : p \in { q \in ToSet(s.properties) : q[1] = key } }
                    IN  IF ~Goes(at) THEN at
                        ELSE IF nodes = {} THEN Refused(at)
                        ELSE validate_node[The(nodes), Append(path, i), at]
            IN  IF ~Goes(scratch) THEN scratch
                ELSE IF ~Goes(entered) THEN entered
                ELSE IF ~MatchesShape(s, v) THEN Refused(entered)
                ELSE CASE s.kind = "array" ->
                            LET walked == FoldLeft(Item, entered, Positions(v.items))
                            IN  IF s.unique THEN CompareItems(v.items, walked, limits) ELSE walked
                       [] s.kind = "object" -> FoldLeft(Member, entered, Positions(SortedMembers(v)))
                       [] OTHER -> entered
    IN  validate_node[top, <<>>, PredicateScratch]
===============================================================================
