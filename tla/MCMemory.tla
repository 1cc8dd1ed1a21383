------------------------------- MODULE MCMemory -------------------------------
(* Schemas, imported sets and fingerprints for model checking the memory.    *)
EXTENDS SchemaValidity

Leaf(kind, type, const, enum) ==
    [kind |-> kind, type |-> type, const |-> const, enum |-> enum]
OneOf(type) == Leaf("scalar", type, {}, {})
ArrayOf(items, min, max, unique, contains) ==
    [kind |-> "array", items |-> items, min |-> min, max |-> max, unique |-> unique,
     contains |-> contains]
ObjectOf(properties, required) ==
    [kind |-> "object", properties |-> properties, required |-> required, fixed |-> FALSE,
     actions |-> {}]
Counting(predicate, lower, upper) == [predicate |-> predicate, lower |-> lower, upper |-> upper]

(* Extension plans.                                                         *)
PlanFor(path, order, captures, relations) ==
    [path |-> path, order |-> order, captures |-> captures, relations |-> relations]
CaptureOf(source, name) == [name |-> name, source |-> source]
Compare(target, operator, name) ==
    [target |-> target, operator |-> operator, capture |-> {name}, import |-> {}]
Member(target, operator, set) ==
    [target |-> target, operator |-> operator, capture |-> {}, import |-> {set}]

Leaves == [
    bit |-> OneOf({"a", "b"}),
    letter |-> OneOf({"a", "b", "c"}),
    isA |-> Leaf("any", {"a", "b", "c"}, {"a"}, {}),
    inA |-> Leaf("any", {"a", "b"}, {}, {"a"})]

(* Pairs that must not repeat, in arrays that must not repeat either.        *)
NestedSchema == Leaves @@ [
    nested |-> ArrayOf("set", 1, {3}, TRUE, {}),
    set |-> ArrayOf("bit", 0, {2}, TRUE, {})]

(* Exactly one item is a pair of different letters; in each there is exactly *)
(* one "a".                                                                *)
OnePair == ArrayOf("bits", 0, {3}, FALSE, {Counting("distinct", 1, {1})})
CountedSchema == Leaves @@ [
    counted |-> OnePair, steps |-> OnePair, depth |-> OnePair, checks |-> OnePair,
    bits |-> ArrayOf("bit", 1, {2}, FALSE, {Counting("isA", 1, {1})}),
    distinct |-> ArrayOf("bit", 2, {2}, TRUE, {})]

(* A record whose second member is not a closed one, whose third repeats the  *)
(* first, differs from the second and is an open one.                       *)
RecordSchema == Leaves @@ [
    record |-> ObjectOf(<< <<"to", "letter">>, <<"from", "letter">>, <<"back", "letter">> >>,
                        {"to"})]
RecordPlan == << PlanFor(<<>>, <<"from", "to", "back">>,
    <<CaptureOf("to", "second"), CaptureOf("from", "first")>>,
    <<Compare("back", "equal", "first"), Member("to", "notMemberOf", "closed"),
      Compare("back", "notEqual", "second"), Member("back", "memberOf", "open")>>) >>

(* A chain: what is compared is captured in its turn.                        *)
ChainSchema == Leaves @@ [
    chain |-> ObjectOf(<< <<"from", "bit">>, <<"to", "bit">>, <<"back", "bit">> >>,
                       {"from", "to", "back"})]
ChainPlan == << PlanFor(<<>>, <<"from", "to", "back">>,
    <<CaptureOf("from", "first"), CaptureOf("to", "second")>>,
    <<Compare("to", "notEqual", "first"), Compare("back", "notEqual", "second")>>) >>

(* Plans that are refused: a member is compared with itself, a name captured  *)
(* twice, an object planned twice.                                          *)
SelfSchema == Leaves @@ [
    self |-> ObjectOf(<< <<"from", "bit">>, <<"to", "bit">> >>, {"from", "to"}),
    twice |-> ObjectOf(<< <<"from", "bit">>, <<"to", "bit">> >>, {"from", "to"}),
    again |-> ObjectOf(<< <<"from", "bit">>, <<"to", "bit">> >>, {"from", "to"})]
SelfPlan == << PlanFor(<<>>, <<"from", "to">>, <<CaptureOf("to", "own")>>,
                       <<Compare("to", "equal", "own")>>) >>
TwicePlan == << PlanFor(<<>>, <<"from", "to">>, <<CaptureOf("from", "x"), CaptureOf("to", "x")>>,
                        <<Compare("to", "equal", "x")>>) >>
AgainPlan == << PlanFor(<<>>, <<"from", "to">>, <<>>, <<>>),
                PlanFor(<<>>, <<"to", "from">>, <<>>, <<>>) >>

(* Pairs, none twice and at most one of them from "a".                       *)
PairsSchema == Leaves @@ [
    pairs |-> ArrayOf("pair", 0, {2}, TRUE, {Counting("fromA", 0, {1})}),
    pair |-> ObjectOf(<< <<"from", "bit">>, <<"to", "bit">> >>, {"to"}),
    fromA |-> ObjectOf(<< <<"from", "inA">>, <<"to", "bit">> >>, {"from"})]

Sets == [open |-> {Scalar("a"), Scalar("b")}, closed |-> {Scalar("c")}]

(* Objects in objects: a pair and its copy, beside a list that must hold an   *)
(* "a"; the two come in either order.                                       *)
TreesSchema == Leaves @@ [
    trees |-> ObjectOf(<< <<"tree", "tree">>, <<"list", "one">> >>, {"tree", "list"}),
    tree |-> ObjectOf(<< <<"copy", "copy">>, <<"child", "child">> >>, {"child", "copy"}),
    child |-> ObjectOf(<< <<"key", "bit">>, <<"value", "bit">> >>, {"value"}),
    copy |-> ObjectOf(<< <<"key", "bit">>, <<"value", "bit">> >>, {"value"}),
    one |-> ArrayOf("bit", 0, {1}, TRUE, {Counting("isA", 1, {})})]
TreesPlan ==
    LET Pair(path) == PlanFor(path, <<"key", "value">>,
                              <<CaptureOf("key", "k"), CaptureOf("value", "v")>>, <<>>)
    IN  << Pair(<<"tree", "child">>),
           PlanFor(<<"tree">>, <<"child", "copy">>, <<CaptureOf("child", "original")>>,
                   <<Compare("copy", "equal", "original")>>),
           Pair(<<"tree", "copy">>) >>

(* Letters, none twice, for masks; and a list with no memory plan.            *)
WordSchema == Leaves @@ [word |-> ArrayOf("letter", 0, {3}, TRUE, {})]
PlainSchema == Leaves @@ [plain |-> ArrayOf("bit", 0, {3}, FALSE, {})]

(* Every store at once, for the limits: a register captured after another, a *)
(* history inside one, a counter inside one, a scope inside one.             *)
DeepSchema == Leaves @@ [
    top |-> ObjectOf(<< <<"key", "bit">>, <<"letters", "letters">>, <<"counts", "counts">>,
                        <<"nest", "nest">>, <<"last", "last">> >>, {}),
    letters |-> ArrayOf("letter", 0, {3}, TRUE, {Counting("isA", 0, {})}),
    counts |-> ArrayOf("count", 0, {1}, FALSE, {Counting("isA", 0, {})}),
    count |-> ArrayOf("bit", 0, {1}, TRUE, {Counting("isA", 0, {})}),
    nest |-> ArrayOf("list", 0, {2}, TRUE, {}),
    list |-> ArrayOf("bit", 0, {1}, TRUE, {}),
    last |-> ObjectOf(<< <<"key", "bit">> >>, {})]
DeepPlan == << PlanFor(<<>>, <<"key", "letters", "counts", "nest", "last">>,
                       <<CaptureOf("key", "k"), CaptureOf("letters", "l")>>, <<>>),
               PlanFor(<<"last">>, <<"key">>, <<CaptureOf("key", "k")>>, <<>>) >>

AllSchemas == [
    nested |-> NestedSchema, counted |-> CountedSchema, steps |-> CountedSchema,
    depth |-> CountedSchema, checks |-> CountedSchema, record |-> RecordSchema,
    chain |-> ChainSchema, self |-> SelfSchema, twice |-> SelfSchema, again |-> SelfSchema,
    pairs |-> PairsSchema, trees |-> TreesSchema, word |-> WordSchema, plain |-> PlainSchema,
    top |-> DeepSchema, nest |-> DeepSchema]

(* Room for everything, of a predicate just enough; no room for a second of   *)
(* anything; and little room where masks are taken, or for predicates.        *)
Limit(histories, items, entries, counters, scopes, values, records, checks) ==
    [histories |-> histories, historyItems |-> items, bucketEntries |-> entries,
     counters |-> counters, scopes |-> scopes, registerValues |-> values, records |-> records,
     equalityChecks |-> checks, predicateSteps |-> 3, predicateDepth |-> 1, predicateChecks |-> 1]
Ample == Limit(9, 9, 9, 9, 9, 9, 99, 99)
RootLimits == [r \in {"nested", "counted", "record", "chain", "self", "twice", "again", "pairs",
                         "trees", "list"} |-> Ample]
    @@ [top |-> Limit(1, 2, 1, 1, 1, 1, 8, 99),
        word |-> [Ample EXCEPT !.equalityChecks = 1],
        nest |-> [Ample EXCEPT !.equalityChecks = 1],
        plain |-> [Ample EXCEPT !.records = 3],
        steps |-> [Ample EXCEPT !.predicateSteps = 2],
        depth |-> [Ample EXCEPT !.predicateDepth = 0],
        checks |-> [Ample EXCEPT !.predicateChecks = 0]]

Lengths == [r \in DOMAIN RootLimits |->
    CASE r = "list" -> 6 [] r = "top" -> 9 [] OTHER -> 26]

AllPlans == [r \in DOMAIN Lengths \ {"list"} |->
    CASE r = "record" -> RecordPlan [] r = "chain" -> ChainPlan [] r = "self" -> SelfPlan
      [] r = "twice" -> TwicePlan [] r = "again" -> AgainPlan [] r = "trees" -> TreesPlan
      [] r = "top" -> DeepPlan [] OTHER -> <<>>]
ListPlans == [list |-> <<>>]

(* A schema that lets an item be anything, and one whose items have both a   *)
(* const and an enum.                                                       *)
FreeSchema == [list |-> [
    list |-> ArrayOf("anything", 0, {}, TRUE, {}),
    anything |-> Leaf("any", {"a"}, {}, {})]]
BothSchema == [list |-> [
    list |-> ArrayOf("item", 0, {2}, TRUE, {}),
    item |-> Leaf("scalar", {"a", "b"}, {"a"}, {"a", "b"})]]

Names == <<"back", "child", "copy", "counts", "from", "key", "last", "letters", "list", "nest",
           "to", "tree", "value">>

(* Composite values collide, and so do two of the scalars.                   *)
Hash(v) == IF IsScalar(v) /\ v.scalar = "a" THEN 0 ELSE 1
===============================================================================
