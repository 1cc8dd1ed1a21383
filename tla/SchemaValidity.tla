---------------------------- MODULE SchemaValidity ----------------------------
(***************************************************************************)
(* The reference for the verdicts of SemanticMemory: which values a schema  *)
(* admits, judged on the whole value as JSON Schema and the extension plan  *)
(* (docs/extensions-v1.md) define it, and all the texts that denote one.     *)
(***************************************************************************)
EXTENDS SemanticMemory

(* A path is the properties that lead from the root r of a schema on; below an *)
(* array there is none, and no plan.                                        *)
NoPath == {}
AtRoot == {<<>>}
Below(path, key) == { Append(p, key) : p \in path }
PlansAt(r, path) == { o \in ToSet(Plan[r]) : o.path \in path }
WrittenNode(r, n, key) ==
    The({ p[2] : p \in { q \in ToSet(Written[r][n].properties) : q[1] = key } })

InOrder(keys, order) ==
    \A i, j \in DOMAIN keys :
        i < j => \E k, l \in DOMAIN order : k < l /\ order[k] = keys[i] /\ order[l] = keys[j]

(* A relation of one member to the others of its object.                     *)
Related(relation, o, members, v) ==
    LET sources == { c.source : c \in { d \in ToSet(o.captures) : d.name \in relation.capture } }
        captured == { p[2] : p \in { q \in members : q[1] \in sources } }
        imported == UNION { Imports[name] : name \in relation.import }
    IN  CASE relation.operator = "equal" -> captured = {v}
          [] relation.operator = "notEqual" -> captured # {} /\ v \notin captured
          [] relation.operator = "memberOf" -> v \in imported
          [] relation.operator = "notMemberOf" -> v \notin imported

AllRelated(o, members) ==
    \A relation \in ToSet(o.relations) : \A p \in members :
        p[1] = relation.target => Related(relation, o, members, p[2])

RECURSIVE Conforms(_, _, _, _)
Conforms(r, n, path, v) ==
    LET s == Written[r][n]
        matching(c) == { i \in DOMAIN v.items : Conforms(r, c.predicate, NoPath, v.items[i]) }
    IN  CASE s.kind = "never" -> FALSE
          [] IsLeafNode(s) ->
                IF IsScalar(v)
                THEN /\ v.scalar \in s.type
                     /\ \A c \in s.const : v.scalar = c
                     /\ s.enum # {} => v.scalar \in s.enum
                ELSE IsFreeNode(s)
          [] s.kind = "array" ->
                /\ IsArray(v)
                /\ s.min <= Len(v.items)
                /\ \A max \in s.max : Len(v.items) <= max
                /\ \A x \in ToSet(v.items) : Conforms(r, s.items, NoPath, x)
                /\ s.unique => Cardinality(ToSet(v.items)) = Len(v.items)
                /\ \A c \in s.contains :
                      /\ c.lower <= Cardinality(matching(c))
                      /\ \A upper \in c.upper : Cardinality(matching(c)) <= upper
          [] s.kind = "object" ->
                /\ IsObject(v)
                /\ s.required \subseteq { p[1] : p \in v.members }
                /\ \A p \in v.members :
                      /\ p[1] \in { q[1] : q \in ToSet(s.properties) }
                      /\ Conforms(r, WrittenNode(r, n, p[1]), Below(path, p[1]), p[2])
                /\ \A o \in PlansAt(r, path) : AllRelated(o, v.members)

(* The values a node admits, each with a text of at most room tokens that     *)
(* writes it, in the order a plan fixes.  Composite values of unconstrained   *)
(* nodes are left out.                                                      *)
Writing(text, value) == [text |-> text, value |-> value]
Texts(writings) == FoldLeft(LAMBDA text, w : text \o w.text, <<>>, writings)
ValuesIn(writings) == [i \in DOMAIN writings |-> writings[i].value]

Keyed(key, w) == Writing(<<<<"key", key>>>> \o w.text, <<key, w.value>>)

Fit(ws, room) == { w \in ws : Len(Texts(w)) <= room }

RECURSIVE Writings(_, _, _, _)
Writings(r, n, path, room) ==
    LET s == Written[r][n]
        Enclosed(kind, ws) == <<<<"open", kind>>>> \o Texts(ws) \o <<<<"close">>>>
        inside == room - 2
        items == Fit(UNION { [1..k -> Writings(r, s.items, NoPath, inside)] : k \in 0..MaxItems }, inside)
        keys == { p[1] : p \in ToSet(s.properties) }
        orders == { o \in UNION { [1..k -> keys] : k \in 0..Cardinality(keys) } :
                      /\ Cardinality(ToSet(o)) = Len(o)
                      /\ \A p \in PlansAt(r, path) : InOrder(o, p.order) }
        Longer(ms, key) ==
            Fit({ Append(m, Keyed(key, w)) :
                    m \in ms, w \in Writings(r, WrittenNode(r, n, key), Below(path, key), inside - 1) }, inside)
        Members(o) == FoldLeft(Longer, {<<>>}, o)
        all == IF IsLeafNode(s)
               THEN { Writing(<<<<"scalar", x>>>>, Scalar(x)) : x \in s.type }
               ELSE IF s.kind = "array"
               THEN { Writing(Enclosed("array", ws), ArrayValue(ValuesIn(ws))) : ws \in items }
               ELSE UNION { { Writing(Enclosed("object", ws), ObjectValue(ValuesIn(ws))) :
                                ws \in Members(o) } : o \in orders }
    IN  { w \in all : Conforms(r, n, path, w.value) }

Documents == [r \in DOMAIN Plan |-> Writings(r, r, AtRoot, MaxText[r])]

-------------------------------------------------------------------------------
(* What contains counts, as JSON Schema defines it.                         *)
MatchesItems(s, v) ==
    /\ Len(v.items) >= s.min
    /\ \A max \in s.max : Len(v.items) <= max
    /\ s.unique => \A i, j \in DOMAIN v.items : v.items[i] = v.items[j] => i = j

MatchesScalar(s, v) ==
    /\ v.scalar \in s.type
    /\ IF s.const # {} THEN v.scalar \in s.const
       ELSE s.enum # {} => v.scalar \in s.enum

RECURSIVE Matches(_, _)
Matches(n, v) ==
    LET s == schema[n]
        keys == { p[1] : p \in v.members }
    IN  CASE s.kind = "never" -> FALSE
          [] s.kind = "any" /\ ~IsScalar(v) -> Unconstrained(n)
          [] IsLeaf(n) -> IsScalar(v) /\ MatchesScalar(s, v)
          [] s.kind = "array" ->
                /\ IsArray(v)
                /\ MatchesItems(s, v)
                /\ \A i \in DOMAIN v.items : Matches(s.items, v.items[i])
          [] s.kind = "object" ->
                /\ IsObject(v)
                /\ s.required \subseteq keys
                /\ \A p \in v.members : \E c \in PropertyNodes(n, p[1]) : Matches(c, p[2])

-------------------------------------------------------------------------------
(* Properties.                                                             *)

(* Whatever is written to the end without a denial is a value the schema      *)
(* admits: uniqueItems, contains, captures and relations as a whole           *)
(* (docs/supported-profile.md: "Exact generation-time enforcement").  And in   *)
(* an array that is still open, what contains counts is what matches.         *)
AcceptedConforms ==
    error = "none" =>
        /\ \A v \in document.root : Conforms(root, root, AtRoot, v)
        /\ \A f \in ToSet(document.open) :
              HasCounter(f) => Satisfying(f) =
                  { i \in DOMAIN f.values : Matches(The(ContainsOf(f.node)).predicate, f.values[i]) }

(* A denial is never premature or wrong: no admitted value has a text that    *)
(* begins with what was denied.                                             *)
DeniedIsHopeless ==
    error \in Violations => \A d \in Documents[root] : ~IsPrefix(document.text, d.text)

PlansOf(n) ==
    { o \in ToSet(Plan[root]) :
        FoldLeft(LAMBDA at, key : WrittenNode(root, at, key), root, o.path) = n }

(* A relation finds nothing captured only where the schema let the source be   *)
(* left out, and the text did: a plan that compares with what comes later, or   *)
(* a capture that is lost, is no reason (docs/extensions-v1.md: forward         *)
(* references fail compilation).                                             *)
MissingOnlyIfOmitted ==
    error = "MissingCapture" =>
        LET f == Last(document.open)
            comparedWith ==
                { c.source : c \in UNION { { d \in ToSet(o.captures) :
                    \E r \in ToSet(o.relations) :
                        r.target = Last(f.values)[1] /\ d.name \in r.capture } :
                            o \in PlansOf(f.node) } }
        IN  \E source \in comparedWith \ Written[root][f.node].required : source \notin UsedKeys(f)

===============================================================================
