------------------------------ MODULE Extensions ------------------------------
(***************************************************************************)
(* Compiling an extension plan (json_schema/extensions.rs).  A plan names    *)
(* objects of a schema and gives each the order of its properties, captures  *)
(* of some and relations of others to what was captured or imported; apply   *)
(* checks it and hands every property its actions.  A result is a set, empty  *)
(* when the plan is refused.                                                *)
(*                                                                         *)
(* A plan is a sequence of objects with path (the properties after "$"),     *)
(* order, captures (name, source) and relations (target, operator, capture,  *)
(* import; either of the last two may be left out, and is a set).            *)
(***************************************************************************)
EXTENDS SequencesExt

property_node(ir, object, property) ==
    IF ir[object].kind # "object" THEN {}
    ELSE { p[2] : p \in { q \in ToSet(ir[object].properties) : q[1] = property } }

resolve_object(ir, top, path) ==
    FoldLeft(LAMBDA at, property : UNION { property_node(ir, n, property) : n \in at },
             {top}, path)

validate_order(properties, order) ==
    /\ order # <<>>
    /\ IsInjective(order)
    /\ ToSet(order) = { p[1] : p \in ToSet(properties) }

(* A kind stands for the type; a node that may be anything, or nothing, has   *)
(* none.                                                                    *)
compatible_types(ir, source, target) ==
    \/ ir[source].kind = ir[target].kind
    \/ \E n \in {source, target} : ir[n].kind \in {"any", "never"}

ValidCaptures(ir, node, captures) ==
    /\ \A i, j \in DOMAIN captures : captures[i].name = captures[j].name => i = j
    /\ \A c \in ToSet(captures) : c.name # "" /\ property_node(ir, node, c.source) # {}

Place(order, property) == SelectInSeq(order, LAMBDA p : p = property)

\* Mutant: a property may be compared with what it captures itself.
BeforeOrAt(order, source, target) == Place(order, source) <= Place(order, target)

Before(order, source, target) == Place(order, source) < Place(order, target)

(* Equality is with a capture of the same object, made before.               *)
ValidEquality(ir, node, o, relation) ==
    /\ relation.import = {}
    /\ \E c \in ToSet(o.captures) :
          /\ c.name \in relation.capture
          /\ Before(o.order, c.source, relation.target)
          /\ \E s \in property_node(ir, node, c.source),
                t \in property_node(ir, node, relation.target) : compatible_types(ir, s, t)

ValidMembership(relation) == relation.capture = {} /\ relation.import \notin {{}, {""}}

ValidRelation(ir, node, o, relation) ==
    /\ property_node(ir, node, relation.target) # {}
    /\ IF relation.operator \in {"equal", "notEqual"}
       THEN ValidEquality(ir, node, o, relation)
       ELSE ValidMembership(relation)

(* Registers are numbered on from object to object, in the order of captures. *)
RegisterOf(o, next, name) == next + SelectInSeq(o.captures, LAMBDA c : c.name = name) - 1

RelationPlan(o, next, relation) ==
    [operator |-> relation.operator,
     source |-> IF relation.import # {} THEN CHOOSE name \in relation.import : TRUE
                ELSE RegisterOf(o, next, CHOOSE name \in relation.capture : TRUE)]

Joined(s, t) == s \o t

CapturesOf(o, next, property) ==
    FoldLeft(Joined, <<>>, [i \in DOMAIN o.captures |->
        IF o.captures[i].source = property
        THEN <<RegisterOf(o, next, o.captures[i].name)>> ELSE <<>>])

RelationsOf(o, next, property) ==
    FoldLeft(Joined, <<>>, [i \in DOMAIN o.relations |->
        IF o.relations[i].target = property
        THEN <<RelationPlan(o, next, o.relations[i])>> ELSE <<>>])

PropertyActions(o, next, property) ==
    [captures |-> CapturesOf(o, next, property), relations |-> RelationsOf(o, next, property)]

Acted(o) == { c.source : c \in ToSet(o.captures) } \union { r.target : r \in ToSet(o.relations) }

\* Mutant: the properties stay in the order of the schema.
OrderedAsWritten(ir, node, order) == ir[node].properties

Ordered(ir, node, order) ==
    [i \in DOMAIN order |-> <<order[i], CHOOSE n \in property_node(ir, node, order[i]) : TRUE>>]

Accepts(ir, node, o) ==
    /\ ir[node].kind = "object"
    /\ ir[node].actions = {}
    /\ validate_order(ir[node].properties, o.order)
    /\ ValidCaptures(ir, node, o.captures)
    /\ \A relation \in ToSet(o.relations) : ValidRelation(ir, node, o, relation)

(* One object of the plan, after those before it.                            *)
Planned(done, top, o) ==
    { [ir |-> [done.ir EXCEPT
            ![node].properties = Ordered(done.ir, node, o.order),
            ![node].fixed = TRUE,
            ![node].actions = {[p \in Acted(o) |-> PropertyActions(o, done.next_register, p)]}],
       next_register |-> done.next_register + Len(o.captures)] :
        node \in { n \in resolve_object(done.ir, top, o.path) : Accepts(done.ir, n, o) } }

apply(ir, top, plan) ==
    { done.ir : done \in
        FoldLeft(LAMBDA all, o : UNION { Planned(done, top, o) : done \in all },
                 {[ir |-> ir, next_register |-> 0]}, plan) }

required_imports(plan) ==
    UNION { UNION { r.import : r \in ToSet(o.relations) } : o \in ToSet(plan) }

(* The nodes a guide is built with (compile_ir, Guide::build): the plan must   *)
(* be accepted and what it imports be at hand.                              *)
build(ir, top, plan, imports) ==
    IF required_imports(plan) \subseteq imports THEN apply(ir, top, plan) ELSE {}
===============================================================================
