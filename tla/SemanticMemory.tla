---------------------------- MODULE SemanticMemory ----------------------------
(***************************************************************************)
(* The semantic half of a guide: the router that follows the schema        *)
(* (sidememory/router.rs), the handlers of simulation.rs that keep the      *)
(* stores and pass verdicts (constraints/), and their two undo journals.    *)
(*                                                                         *)
(* The document is written one token at a time: an opening, a property      *)
(* key, a scalar or a closing.  Candidates is the automaton, which offers   *)
(* what the regular part of the schema allows; a token reports the cursor's *)
(* events, and they are processed in order until one is refused.  A         *)
(* refusal leaves the state half changed, and only a restore may follow.    *)
(* A mask probes every candidate and restores after each; the values it      *)
(* compares on the way are counted over all of them (guide.rs).              *)
(***************************************************************************)
EXTENDS Effects, SemanticStores, FrameSlots, Extensions, Predicate

CONSTANTS
    Written,          \* root -> SchemaIr as parsed: node id -> node
    Plan,             \* root -> the extension plan given with it
    Imports,          \* ImportedMemory: name -> set of values
    Limits,           \* root -> GuideLimits: the fields named below
    MaxText,          \* bound: root -> tokens of a text
    MaxItems, MaxMarks, \* bounds: items of an array, marks held
    Masked,           \* bound: the roots of which masks are taken
    Limited           \* bound: the roots whose limits are less than a text may need

VARIABLES
    root, schema,    \* SchemaIr: its root and its nodes, the same all along
    document,        \* the text so far and what the cursor holds of it
    router,          \* SemanticRouter
    memory,          \* SemanticState: histories, counters, registers
    routerJournal, semanticJournal,
    marks,           \* the marks held, each with what it must bring back
    scratch,         \* SimulationScratch: comparisons counted, and the limit while a mask runs
    mask,            \* the tokens the mask of this very state lists, if it was taken
    error            \* the violation or error that stopped the last call, or "none"

vars == <<root, schema, document, router, memory, routerJournal, semanticJournal, marks, scratch, mask,
          error>>

MaxHistories == Limits[root].histories
MaxHistoryItems == Limits[root].historyItems
MaxBucketEntries == Limits[root].bucketEntries
MaxCounters == Limits[root].counters
MaxScopes == Limits[root].scopes
MaxRegisterValues == Limits[root].registerValues
MaxRecords == Limits[root].records             \* max_journal_records, of each journal
MaxEqualityChecks == Limits[root].equalityChecks  \* per mask

-------------------------------------------------------------------------------
(* What is given: schemas whose nodes refer to nodes of theirs and have no    *)
(* actions yet, and plans of objects with operators the code knows.          *)

Operators == {"equal", "notEqual", "memberOf", "notMemberOf"}

IsList(s) == s \in Seq(ToSet(s))

NodeFits(ir, s) ==
    /\ IsLeafNode(s) => IsFiniteSet(s.type) /\ IsFiniteSet(s.const) /\ IsFiniteSet(s.enum)
    /\ s.kind = "array" => s.items \in DOMAIN ir
    /\ s.kind = "object" =>
          /\ s = [kind |-> "object", properties |-> s.properties, required |-> s.required,
                  fixed |-> s.fixed, actions |-> s.actions]
          /\ IsList(s.properties)
          /\ \A p \in ToSet(s.properties) : p[2] \in DOMAIN ir

SchemaFits(ir, top) == top \in DOMAIN ir /\ \A n \in DOMAIN ir : NodeFits(ir, ir[n])

PlanFits(plan) ==
    /\ IsList(plan)
    /\ \A o \in ToSet(plan) :
          /\ IsList(o.order) /\ IsList(o.captures) /\ IsList(o.relations)
          /\ \A relation \in ToSet(o.relations) : relation.operator \in Operators

ASSUME GivenAssumption ==
    \A r \in DOMAIN Plan :
        /\ SchemaFits(Written[r], r) /\ PlanFits(Plan[r])
        /\ \A n \in DOMAIN Written[r] : Written[r][n].kind = "object" => Written[r][n].actions = {}

-------------------------------------------------------------------------------
(* Schema nodes.                                                           *)

IsLeaf(n) == IsLeafNode(schema[n])
Unconstrained(n) == IsFreeNode(schema[n])
PropertyNodes(n, key) ==
    { p[2] : p \in { q \in ToSet(schema[n].properties) : q[1] = key } }

-------------------------------------------------------------------------------
(* The cursor's part: the open frames with the values read in them.         *)

NewDocument == [text |-> <<>>, pool |-> EmptyPool, open |-> <<>>, root |-> {}]
OpenFrame(kind, id, node) ==
    [kind |-> kind, id |-> id, node |-> node, values |-> <<>>, key |-> {}]

(* The node the next value of a frame belongs to.                          *)
ValueNode(f) ==
    IF IsLeaf(f.node) THEN f.node
    ELSE IF f.kind = "array" THEN schema[f.node].items
    ELSE The(PropertyNodes(f.node, The(f.key)))

ExpectedNode(d) == IF d.open = <<>> THEN root ELSE ValueNode(Last(d.open))

Published(d, v) ==
    LET f == Last(d.open)
        In(values) ==
            [d EXCEPT !.open = Append(Front(@), [f EXCEPT !.values = values, !.key = {}])]
    IN  IF d.open = <<>>
        THEN [document |-> [d EXCEPT !.root = {v}],
              events |-> <<[type |-> "RootComplete"]>>]
        ELSE IF f.kind = "array"
        THEN [document |-> In(Append(f.values, v)),
              events |-> <<[type |-> "ItemSealed", frame |-> f.id, value |-> v]>>]
        ELSE [document |-> In(Append(f.values, <<The(f.key), v>>)),
              events |-> <<[type |-> "PropertyValueSealed", frame |-> f.id,
                            key |-> The(f.key), value |-> v]>>]

Opened(d, kind) ==
    LET id == Allocated(d.pool)
    IN  [document |-> [d EXCEPT !.pool = Allocate(@),
                                !.open = Append(@, OpenFrame(kind, id, ExpectedNode(d)))],
         events |-> <<[type |-> IF kind = "array" THEN "ArrayStart" ELSE "ObjectStart",
                       frame |-> id]>>]

KeyRead(d, key) ==
    [document |-> [d EXCEPT !.open[Len(d.open)].key = {key}],
     events |-> <<[type |-> "PropertyKeySealed", frame |-> Last(d.open).id, key |-> key]>>]

Closed(d) ==
    LET f == Last(d.open)
        value == IF f.kind = "array" THEN ArrayValue(f.values) ELSE ObjectValue(f.values)
        up == Published([d EXCEPT !.open = Front(@), !.pool = Release(@, f.id)], value)
    IN  [up EXCEPT !.events =
            <<[type |-> IF f.kind = "array" THEN "ArrayEnd" ELSE "ObjectEnd",
               frame |-> f.id]>> \o @]

Read(d, t) ==
    LET step == CASE t[1] = "open" -> Opened(d, t[2])
                  [] t[1] = "key" -> KeyRead(d, t[2])
                  [] t[1] = "scalar" -> Published(d, Scalar(t[2]))
                  [] t[1] = "close" -> Closed(d)
    IN  [step EXCEPT !.document.text = Append(@, t)]

-------------------------------------------------------------------------------
(* The automaton: what the regular part of the schema lets through.         *)

(* An enum is tried before a const, and hides it.                          *)
GeneratedScalars(s) ==
    IF s.enum # {} THEN s.enum ELSE IF s.const # {} THEN s.const ELSE s.type

ValueTokens(n) ==
    IF IsLeaf(n)
    THEN { <<"scalar", x>> : x \in GeneratedScalars(schema[n]) } \union
         (IF Unconstrained(n) THEN {"open"} \X {"array", "object"} ELSE {})
    ELSE { <<"open", schema[n].kind>> }

(* Small objects whose members are all required come in any order, unless an *)
(* extension plan fixes it; others in the order of their properties.         *)
AnyOrder(s) ==
    /\ ~s.fixed
    /\ Len(s.properties) \in 2..8
    /\ \A p \in ToSet(s.properties) : p[1] \in s.required

NextKeys(s, used) ==
    LET Key(i) == s.properties[i][1]
        Follows(i) ==
            /\ \A j \in DOMAIN s.properties : Key(j) \in used => j < i
            /\ \A j \in 1..i - 1 : Key(j) \in s.required => Key(j) \in used
    IN  { Key(i) : i \in { j \in DOMAIN s.properties :
                              Key(j) \notin used /\ (AnyOrder(s) \/ Follows(j)) } }

UsedKeys(f) == { f.values[i][1] : i \in DOMAIN f.values }

FrameTokens(f) ==
    LET s == schema[f.node]
        count == Len(f.values)
        close == {<<"close">>}
        values == IF count < MaxItems THEN ValueTokens(ValueNode(f)) ELSE {}
    IN  IF f.kind = "array" /\ IsLeaf(f.node) THEN close \union values
        ELSE IF f.kind = "array"
        THEN (IF count >= s.min THEN close ELSE {}) \union
             (IF \A max \in s.max : count < max THEN values ELSE {})
        ELSE IF IsLeaf(f.node) THEN close
        ELSE IF f.key # {} THEN ValueTokens(ValueNode(f))
        ELSE (IF s.required \subseteq UsedKeys(f) THEN close ELSE {}) \union
             { <<"key", key>> : key \in NextKeys(s, UsedKeys(f)) }

Candidates(d) ==
    IF d.root # {} THEN {}
    ELSE IF d.open = <<>> THEN ValueTokens(root)
    ELSE FrameTokens(Last(d.open))

-------------------------------------------------------------------------------
(* Effects.  A limit and a refused push both stop with "LimitExceeded".      *)

Violations ==
    {"DuplicateArrayItem", "ContainsMaximumExceeded", "ContainsMinimumUnreachable",
     "ContainsMinimumNotMet", "MissingCapture", "EqualityMismatch", "InequalityMismatch",
     "ImportedMemberRequired", "ImportedMemberForbidden"}

EffectOn(r, m, counting) ==
    [router |-> r, memory |-> m, routerUndo |-> <<>>, semanticUndo |-> <<>>,
     scratch |-> counting, error |-> "none"]

Require(e, condition, why) == IF Ok(e) /\ ~condition THEN Fail(e, why) ELSE e

(* A change of the router or of the memory, journaled first.                 *)
RouterStep(e, record, changed) ==
    IF ~Ok(e) THEN e
    ELSE IF Len(routerJournal) + Len(e.routerUndo) >= MaxRecords
    THEN Fail(e, "LimitExceeded")
    ELSE [e EXCEPT !.routerUndo = Append(@, record), !.router = changed]

\* Mutant: the change is made before the journal is asked.
MemoryStepFirst(e, record, changed) ==
    IF ~Ok(e) THEN e
    ELSE IF Len(semanticJournal) + Len(e.semanticUndo) >= MaxRecords
    THEN [Fail(e, "LimitExceeded") EXCEPT !.memory = changed]
    ELSE [e EXCEPT !.semanticUndo = Append(@, record), !.memory = changed]

MemoryStep(e, record, changed) ==
    IF ~Ok(e) THEN e
    ELSE IF Len(semanticJournal) + Len(e.semanticUndo) >= MaxRecords
    THEN Fail(e, "LimitExceeded")
    ELSE [e EXCEPT !.semanticUndo = Append(@, record), !.memory = changed]

-------------------------------------------------------------------------------
(* The router.                                                             *)

NewRouter == [stack |-> <<>>, pending |-> root, complete |-> FALSE]
RuntimeArray(id, node) ==
    [kind |-> "array", id |-> id, node |-> node, item |-> schema[node].items]
RuntimeObject(id, node) == [kind |-> "object", id |-> id, node |-> node, property |-> {}]

PopOpenedFrame(r) == [op |-> "PopOpenedFrame", pending |-> r.pending]
RestoreClosedFrame(r) ==
    [op |-> "RestoreClosedFrame", frame |-> Last(r.stack), pending |-> r.pending]
RestorePending(r, index, property) ==
    [op |-> "RestorePending", index |-> index, property |-> property, pending |-> r.pending]
RestoreRootComplete(r) == [op |-> "RestoreRootComplete", complete |-> r.complete]

Position(r, id) == SelectLastInSeq(r.stack, LAMBDA f : f.id = id)
Frame(r, id) == r.stack[Position(r, id)]
RequireFrame(e, id, kind) ==
    IF ~Ok(e) THEN e
    ELSE IF Position(e.router, id) = 0 THEN Fail(e, "UnknownFrame")
    ELSE Require(e, Frame(e.router, id).kind = kind, "WrongFrame")

open_array(e, id) ==
    LET node == e.router.pending
        r == Require(e, schema[node].kind = "array", "ExpectedArray")
    IN  RouterStep(r, PopOpenedFrame(e.router),
            [e.router EXCEPT !.stack = Append(@, RuntimeArray(id, node)),
                             !.pending = schema[node].items])

open_object(e, id) ==
    LET node == e.router.pending
        r == Require(e, schema[node].kind = "object", "ExpectedObject")
    IN  RouterStep(r, PopOpenedFrame(e.router),
            [e.router EXCEPT !.stack = Append(@, RuntimeObject(id, node))])

\* Mutant: the frame is not told which property is pending.
set_pending_node(e, id, key) ==
    LET child == PropertyNodes(Frame(e.router, id).node, key)
    IN  RouterStep(e, RestorePending(e.router, Position(e.router, id), {}),
            [e.router EXCEPT !.pending = The(child)])

set_pending_property(e, id, key) ==
    Then(RequireFrame(e, id, "object"), LAMBDA l :
        LET i == Position(l.router, id)
            f == l.router.stack[i]
            child == PropertyNodes(f.node, key)
        IN  RouterStep(Require(l, child # {}, "UnknownProperty"),
                RestorePending(l.router, i, f.property),
                [l.router EXCEPT !.stack[i].property = child, !.pending = The(child)]))

complete_array_item(e, id) ==
    Then(RequireFrame(e, id, "array"), LAMBDA l :
        RouterStep(l, RestorePending(l.router, Position(l.router, id), {}),
            [l.router EXCEPT !.pending = Frame(l.router, id).item]))

complete_property(e, id) ==
    Then(RequireFrame(e, id, "object"), LAMBDA l :
        LET i == Position(l.router, id)
            f == l.router.stack[i]
        IN  RouterStep(Require(l, f.property # {}, "MissingPendingProperty"),
                RestorePending(l.router, i, f.property),
                [l.router EXCEPT !.stack[i].property = {}, !.pending = f.node]))

\* Mutant: the property a closed value belongs to is forgotten.
PendingNodeAfterClose(stack) ==
    IF stack = <<>> THEN root
    ELSE IF Last(stack).kind = "array" THEN Last(stack).item ELSE Last(stack).node

(* What is pending once the frame above stack is closed.                    *)
PendingAfterClose(stack) ==
    IF stack = <<>> THEN root
    ELSE LET f == Last(stack)
         IN  IF f.kind = "array" THEN f.item
             ELSE IF f.property # {} THEN The(f.property)
             ELSE f.node

close_frame(e, id) ==
    LET known == Require(e, e.router.stack # <<>>, "UnknownFrame")
    IN  Then(known, LAMBDA l :
            RouterStep(Require(l, Last(l.router.stack).id = id, "CloseOrder"),
                RestoreClosedFrame(l.router),
                [l.router EXCEPT !.stack = Front(@),
                                 !.pending = PendingAfterClose(Front(l.router.stack))]))

complete_root(e) ==
    RouterStep(Require(e, e.router.stack = <<>>, "RootWithOpenFrames"),
        RestoreRootComplete(e.router), [e.router EXCEPT !.complete = TRUE])

-------------------------------------------------------------------------------
(* The memory plan and the constraints.  A node has one constraint of each   *)
(* sort, so its id stands for the constraint's.                             *)

Key(id, node) == <<id, node>>
Unique(node) == schema[node].unique
ContainsOf(node) == schema[node].contains
Extended(node) == schema[node].actions # {}
ActionsOf(node, key) ==
    { actions[key] : actions \in { a \in schema[node].actions : key \in DOMAIN a } }

create_history(e, k) ==
    LET r == Require(e, k \notin DOMAIN e.memory.histories, "DuplicateHistory")
        s == Require(r, Cardinality(DOMAIN e.memory.histories) < MaxHistories, "LimitExceeded")
    IN  MemoryStep(s, RemoveCreatedHistory(k), CreateHistory(e.memory, k))

(* The values of a bucket an item is compared with, up to the first equal one. *)
Compared(bucket, v) ==
    LET first == SelectInSeq(bucket, LAMBDA x : x = v)
    IN  IF first = 0 THEN Len(bucket) ELSE first

(* While a mask runs, the comparison past its limit stops it.                *)
CountChecks(e, bucket, v) ==
    LET limit == e.scratch.limit
        total == e.scratch.checks + Compared(bucket, v)
    IN  IF \E n \in limit : total > n
        THEN Fail([e EXCEPT !.scratch.checks = The(limit) + 1], "LimitExceeded")
        ELSE IF limit = {} THEN e ELSE [e EXCEPT !.scratch.checks = total]

seal_unique_item(e, k, v) ==
    Then(Require(e, k \in DOMAIN e.memory.histories, "MissingHistory"), LAMBDA m :
    Then(CountChecks(m, Bucket(m.memory.histories[k], v), v), LAMBDA l :
        LET h == l.memory.histories[k]
            r == Require(l, ~Holds(h, v), "DuplicateArrayItem")
            s == Require(r, l.memory.item_count < MaxHistoryItems, "LimitExceeded")
            t == Require(s, Len(Bucket(h, v)) < MaxBucketEntries, "LimitExceeded")
        IN  MemoryStep(t, RestoreBucket(l.memory, k, v), Insert(l.memory, k, v))))

close_history(e, k) ==
    Then(Require(e, k \in DOMAIN e.memory.histories, "MissingHistory"), LAMBDA l :
        MemoryStep(l, RestoreClosedHistory(l.memory, k), CloseHistory(l.memory, k)))

create_counter(e, k) ==
    LET r == Require(e, k \notin DOMAIN e.memory.counters, "DuplicateCounter")
        s == Require(r, Cardinality(DOMAIN e.memory.counters) < MaxCounters, "LimitExceeded")
    IN  MemoryStep(s, RemoveCreatedCounter(k), CreateCounter(e.memory, k))

Exceeds(count, upper) == \E u \in upper : count.matched > u

\* Mutant: one item too few is taken to be still to come.
UnreachableOneOff(count, c, max) ==
    \E limit \in max : count.matched + limit < c.lower + count.processed + 1

(* Even if all items that may still come matched, they would be too few.     *)
Unreachable(count, c, max) ==
    \E limit \in max :
        count.matched + (IF limit > count.processed THEN limit - count.processed ELSE 0)
            < c.lower

seal_contains_item(e, k, v, c, max) ==
    LET outcome == validate_predicate(schema, c.predicate, v, Limits[root])
        matched == IF outcome.valid THEN 1 ELSE 0
        decided == Require(e, ~outcome.limited, "LimitExceeded")
        known == Require(decided, k \in DOMAIN e.memory.counters, "MissingCounter")
        counted == Then(known, LAMBDA l :
            MemoryStep(l, RestoreCounter(l.memory, k), UpdateCounter(l.memory, k, matched)))
    IN  Then(counted, LAMBDA l :
            LET count == l.memory.counters[k]
            IN  Require(Require(l, ~Exceeds(count, c.upper), "ContainsMaximumExceeded"),
                    ~Unreachable(count, c, max), "ContainsMinimumUnreachable"))

close_contains(e, k, c) ==
    Then(Require(e, k \in DOMAIN e.memory.counters, "MissingCounter"), LAMBDA l :
        LET count == l.memory.counters[k]
            r == Require(l, count.matched >= c.lower, "ContainsMinimumNotMet")
            s == Require(r, ~Exceeds(count, c.upper), "ContainsMaximumExceeded")
        IN  MemoryStep(s, RestoreClosedCounter(l.memory, k), CloseCounter(l.memory, k)))

open_scope(e, id) ==
    LET r == Require(e, id \notin DOMAIN e.memory.scopes, "DuplicateScope")
        s == Require(r, Cardinality(DOMAIN e.memory.scopes) < MaxScopes, "LimitExceeded")
    IN  MemoryStep(s, RemoveCreatedRegisterScope(id), OpenScope(e.memory, id))

set_register(e, id, register, v) ==
    Then(Require(e, id \in DOMAIN e.memory.scopes, "MissingScope"), LAMBDA l :
        LET r == Require(l, NextCount(l.memory, id, register) <= MaxRegisterValues,
                     "LimitExceeded")
        IN  MemoryStep(r, RestoreRegister(l.memory, id, register),
                SetRegister(l.memory, id, register, v)))

close_scope(e, id) ==
    Then(Require(e, id \in DOMAIN e.memory.scopes, "MissingScope"), LAMBDA l :
        MemoryStep(l, RestoreClosedRegisterScope(l.memory, id), CloseScope(l.memory, id)))

(* A relation compares a value with a captured one or with an imported set.  *)
Captured(e, id, register) ==
    IF id \in DOMAIN e.memory.scopes /\ register \in DOMAIN e.memory.scopes[id]
    THEN {e.memory.scopes[id][register]} ELSE {}

\* Mutant: without a captured value there is nothing to compare with.
evaluate_captured(e, relation, id, v) ==
    LET capture == Captured(e, id, relation.source)
    IN  IF relation.operator \in {"equal", "notEqual"}
        THEN Require(e, capture # {} => ((v \in capture) = (relation.operator = "equal")),
                 "EqualityMismatch")
        ELSE Require(e, (v \in Imports[relation.source]) = (relation.operator = "memberOf"),
                 "ImportedMemberRequired")

evaluate(e, relation, id, v) ==
    LET capture == Captured(e, id, relation.source)
        known == Require(e, capture # {}, "MissingCapture")
    IN  CASE relation.operator = "equal" ->
                Require(known, v \in capture, "EqualityMismatch")
          [] relation.operator = "notEqual" ->
                Require(known, v \notin capture, "InequalityMismatch")
          [] relation.operator = "memberOf" ->
                Require(e, v \in Imports[relation.source], "ImportedMemberRequired")
          [] relation.operator = "notMemberOf" ->
                Require(e, v \notin Imports[relation.source], "ImportedMemberForbidden")

-------------------------------------------------------------------------------
(* The handlers of the events.                                             *)

ArrayStarted(e, id) ==
    LET node == e.router.pending
        opened == open_array(e, id)
    IN  Then(opened, LAMBDA o :
            LET created == IF Unique(node) THEN create_history(o, Key(id, node)) ELSE o
            IN  IF ContainsOf(node) = {} THEN created
                ELSE Then(created, LAMBDA l : create_counter(l, Key(id, node))))

ObjectStarted(e, id) ==
    LET node == e.router.pending
    IN  Then(open_object(e, id), LAMBDA o : IF Extended(node) THEN open_scope(o, id) ELSE o)

ItemSealed(e, id, v) ==
    Then(RequireFrame(e, id, "array"), LAMBDA l :
        LET node == Frame(l.router, id).node
            k == Key(id, node)
            unique == IF Unique(node) THEN seal_unique_item(l, k, v) ELSE l
            counted == IF ContainsOf(node) = {} THEN unique
                       ELSE Then(unique, LAMBDA u :
                           seal_contains_item(u, k, v, The(ContainsOf(node)), schema[node].max))
        IN  Then(counted, LAMBDA c : complete_array_item(c, id)))

(* What is done with a sealed property: of each relation and each register,    *)
(* with the frame and the value.  Relations come first, each in its order.   *)
Asked(many, id, v) == [i \in DOMAIN many |-> [of |-> many[i], frame |-> id, value |-> v]]

Evaluated(e, a) == Then(e, LAMBDA b : evaluate(b, a.of, a.frame, a.value))
Registered(e, a) == Then(e, LAMBDA b : set_register(b, a.frame, a.of, a.value))

Relating(e, relations, id, v) == FoldLeft(Evaluated, e, Asked(relations, id, v))
Capturing(e, registers, id, v) == FoldLeft(Registered, e, Asked(registers, id, v))

Act(e, actions, id, v) == Capturing(Relating(e, actions.relations, id, v), actions.captures, id, v)

PropertyValueSealed(e, id, key, v) ==
    Then(RequireFrame(e, id, "object"), LAMBDA l :
        LET node == Frame(l.router, id).node
            acted == IF ActionsOf(node, key) = {} THEN l
                     ELSE Act(l, The(ActionsOf(node, key)), id, v)
        IN  Then(acted, LAMBDA a : complete_property(a, id)))

ArrayEnded(e, id) ==
    Then(RequireFrame(e, id, "array"), LAMBDA l :
        LET node == Frame(l.router, id).node
            k == Key(id, node)
            counted == IF ContainsOf(node) = {} THEN l
                       ELSE close_contains(l, k, The(ContainsOf(node)))
            closed == IF Unique(node)
                      THEN Then(counted, LAMBDA c : close_history(c, k)) ELSE counted
        IN  Then(closed, LAMBDA c : close_frame(c, id)))

ObjectEnded(e, id) ==
    Then(RequireFrame(e, id, "object"), LAMBDA l :
        LET closed == IF Extended(Frame(l.router, id).node) THEN close_scope(l, id) ELSE l
        IN  Then(closed, LAMBDA c : close_frame(c, id)))

process_event(e, ev) ==
    CASE ev.type = "ArrayStart" -> ArrayStarted(e, ev.frame)
      [] ev.type = "ObjectStart" -> ObjectStarted(e, ev.frame)
      [] ev.type = "PropertyKeySealed" -> set_pending_property(e, ev.frame, ev.key)
      [] ev.type = "ItemSealed" -> ItemSealed(e, ev.frame, ev.value)
      [] ev.type = "PropertyValueSealed" -> PropertyValueSealed(e, ev.frame, ev.key, ev.value)
      [] ev.type = "ArrayEnd" -> ArrayEnded(e, ev.frame)
      [] ev.type = "ObjectEnd" -> ObjectEnded(e, ev.frame)
      [] ev.type = "RootComplete" -> complete_root(e)

process_pending_events(start, events) ==
    FoldLeft(LAMBDA e, ev : Then(e, LAMBDA ok : process_event(ok, ev)), start, events)

-------------------------------------------------------------------------------
(* Undo.  The semantic journal is restored first, then the router's; each    *)
(* is a set, empty when a record does not apply.                            *)

RouterUndone(r, u) ==
    CASE u.op = "PopOpenedFrame" ->
            IF r.stack = <<>> THEN {}
            ELSE {[r EXCEPT !.stack = Front(@), !.pending = u.pending]}
      [] u.op = "RestoreClosedFrame" ->
            {[r EXCEPT !.stack = Append(@, u.frame), !.pending = u.pending]}
      [] u.op = "RestorePending" ->
            IF u.index \notin DOMAIN r.stack THEN {}
            ELSE IF r.stack[u.index].kind = "object"
            THEN {[r EXCEPT !.stack[u.index].property = u.property, !.pending = u.pending]}
            ELSE IF u.property = {} THEN {[r EXCEPT !.pending = u.pending]} ELSE {}
      [] u.op = "RestoreRootComplete" -> {[r EXCEPT !.complete = u.complete]}

MemoryUndone(m, u) == IF StoreCanUndo(m, u) THEN {StoreUndo(m, u)} ELSE {}

Unwound(start, journal, position, Undone(_, _)) ==
    FoldRight(LAMBDA u, states : UNION { Undone(s, u) : s \in states },
              SubSeq(journal, position + 1, Len(journal)), {start})

-------------------------------------------------------------------------------
(* The mask.                                                               *)

(* A schema without any constraint has an empty memory plan.                 *)
PlanEmpty ==
    \A n \in DOMAIN schema :
        CASE schema[n].kind = "array" -> ~Unique(n) /\ ContainsOf(n) = {}
          [] schema[n].kind = "object" -> ~Extended(n)
          [] OTHER -> TRUE

NoLimit == {}

(* One candidate: processed, then taken back, whatever became of it.  A      *)
(* broken rule only leaves it out, any other error ends the mask.            *)
Undid(e) ==
    Unwound(e.router, e.routerUndo, 0, RouterUndone) \X
    Unwound(e.memory, e.semanticUndo, 0, MemoryUndone)

Judged(acc, t, e, before) ==
    IF before = {} THEN Fail(acc, "Poisoned")
    ELSE LET back == [acc EXCEPT !.router = The(before)[1], !.memory = The(before)[2],
                                 !.scratch = e.scratch]
         IN  CASE Ok(e) -> [back EXCEPT !.allowed = @ \union {t}]
               [] e.error \in Violations -> back
               [] OTHER -> Fail(back, e.error)

JudgedByUndo(acc, t, e) == Judged(acc, t, e, Undid(e))

Probed(acc, t) ==
    JudgedByUndo(acc, t, process_pending_events(
        EffectOn(acc.router, acc.memory, acc.scratch), Read(document, t).events))

(* The candidates come in the order of a hash map; any order will do.        *)
filter_candidates(candidates, counting) ==
    FoldLeft(LAMBDA acc, t : Then(acc, LAMBDA ok : Probed(ok, t)),
             [router |-> router, memory |-> memory, scratch |-> counting, allowed |-> {},
              error |-> "none"],
             SetToSeq(candidates))

Restored(m) ==
    Unwound(router, routerJournal, m.router_len, RouterUndone) \X
    Unwound(memory, semanticJournal, m.semantic_len, MemoryUndone)

-------------------------------------------------------------------------------
(* Actions.                                                                *)

Init ==
    /\ root \in DOMAIN Plan
    /\ schema \in build(Written[root], root, Plan[root], DOMAIN Imports)
    /\ document = NewDocument
    /\ router = NewRouter
    /\ memory = EmptyMemory
    /\ routerJournal = <<>>
    /\ semanticJournal = <<>>
    /\ marks = <<>>
    /\ scratch = [checks |-> 0, limit |-> NoLimit]
    /\ mask = {}
    /\ error = "none"

(* Guide::mark, as far as these components go.                              *)
Mark ==
    /\ error = "none"
    /\ Len(marks) < MaxMarks
    /\ marks' = Append(marks,
          [router_len |-> Len(routerJournal), semantic_len |-> Len(semanticJournal),
           saved |-> <<router, memory>>, document |-> document])
    /\ mask' = {}
    /\ UNCHANGED <<root, schema, document, router, memory, routerJournal, semanticJournal, scratch,
                   error>>

\* Mutant: the comparisons of earlier masks count.
MaskKeepCount(candidates) ==
    filter_candidates(candidates, [scratch EXCEPT !.limit = {MaxEqualityChecks}])

(* A schema without a memory plan has its candidates unprobed.               *)
Mask(candidates) ==
    IF PlanEmpty
    THEN [router |-> router, memory |-> memory, scratch |-> scratch, allowed |-> candidates,
          error |-> "none"]
    ELSE filter_candidates(candidates, [checks |-> 0, limit |-> {MaxEqualityChecks}])

\* Mutant: the limit of the mask stays in force.
AfterMaskKeepLimit(counted) == counted

AfterMask(counted) == [counted EXCEPT !.limit = NoLimit]

(* Guide::allowed_tokens and write_mask: the list, and what it leaves behind. *)
WriteMask ==
    /\ error = "none" /\ mask = {} /\ marks # <<>> /\ root \in Masked
    /\ \E e \in {Mask(Candidates(document))} :
          /\ router' = e.router /\ memory' = e.memory
          /\ scratch' = AfterMask(e.scratch)
          /\ mask' = {[allowed |-> e.allowed, error |-> e.error]}
    /\ UNCHANGED <<root, schema, document, routerJournal, semanticJournal, marks, error>>

Take(t) ==
    /\ error = "none"
    /\ marks # <<>>
    /\ Len(document.text) < MaxText[root]
    /\ \E step \in {Read(document, t)} :
       \E e \in {process_pending_events(EffectOn(router, memory, scratch), step.events)} :
          /\ document' = step.document
          /\ router' = e.router
          /\ memory' = e.memory
          /\ routerJournal' = routerJournal \o e.routerUndo
          /\ semanticJournal' = semanticJournal \o e.semanticUndo
          /\ scratch' = e.scratch
          /\ error' = e.error
    /\ mask' = {}
    /\ UNCHANGED <<root, schema, marks>>

Restore(i) ==
    LET m == marks[i]
    IN  /\ \E s \in Restored(m) : router' = s[1] /\ memory' = s[2]
        /\ document' = m.document
        /\ routerJournal' = SubSeq(routerJournal, 1, m.router_len)
        /\ semanticJournal' = SubSeq(semanticJournal, 1, m.semantic_len)
        /\ marks' = SubSeq(marks, 1, i - 1)
        /\ mask' = {}
        /\ error' = "none"
        /\ UNCHANGED <<root, schema, scratch>>

\* Mutant: the marks on the semantic journal are not shifted.
DiscardPrefixUnshifted ==
    /\ error = "none"
    /\ Len(marks) > 1
    /\ routerJournal' = SubSeq(routerJournal, marks[2].router_len + 1, Len(routerJournal))
    /\ semanticJournal' = SubSeq(semanticJournal, marks[2].semantic_len + 1,
                                Len(semanticJournal))
    /\ marks' = [i \in 1..Len(marks) - 1 |->
                     [marks[i + 1] EXCEPT !.router_len = @ - marks[2].router_len]]
    /\ UNCHANGED <<root, schema, document, router, memory, scratch, mask, error>>

(* Compaction, when the oldest mark leaves the window.                       *)
DiscardPrefix ==
    /\ error = "none"
    /\ Len(marks) > 1
    /\ LET r == marks[2].router_len
           s == marks[2].semantic_len
       IN  /\ routerJournal' = SubSeq(routerJournal, r + 1, Len(routerJournal))
           /\ semanticJournal' = SubSeq(semanticJournal, s + 1, Len(semanticJournal))
           /\ marks' = [i \in 1..Len(marks) - 1 |->
                  [marks[i + 1] EXCEPT !.router_len = @ - r, !.semantic_len = @ - s]]
    /\ UNCHANGED <<root, schema, document, router, memory, scratch, mask, error>>

Next ==
    \/ Mark
    \/ \E t \in Candidates(document) : Take(t)
    \/ \E i \in 1..Len(marks) : Restore(i)
    \/ DiscardPrefix
    \/ WriteMask

Spec == Init /\ [][Next]_vars

-------------------------------------------------------------------------------
(* Properties.                                                             *)

(* The router and the memory as they follow from the document alone.         *)
RouterOf(d) ==
    LET Property(f) == IF f.key = {} THEN {} ELSE PropertyNodes(f.node, The(f.key))
        Follow(f) == IF f.kind = "array" THEN RuntimeArray(f.id, f.node)
                     ELSE [RuntimeObject(f.id, f.node) EXCEPT !.property = Property(f)]
        stack == [i \in DOMAIN d.open |-> Follow(d.open[i])]
    IN  [stack |-> stack, pending |-> PendingAfterClose(stack), complete |-> d.root # {}]

HeldValues(m) ==
    UNION { UNION { ToSet(m.histories[k].buckets[p]) : p \in DOMAIN m.histories[k].buckets } :
              k \in DOMAIN m.histories }

(* What a frame has in the memory.                                          *)
KeyOf(f) == Key(f.id, f.node)
HasHistory(f) == f.kind = "array" /\ Unique(f.node)
HasCounter(f) == f.kind = "array" /\ ContainsOf(f.node) # {}
HasScope(f) == f.kind = "object" /\ Extended(f.node)

(* A bucket lists, in order, the values of its fingerprint.                  *)
Lists(bucket, values, print) ==
    \E at \in [DOMAIN bucket -> DOMAIN values] :
        /\ \A j, k \in DOMAIN bucket : j < k => at[j] < at[k]
        /\ { at[j] : j \in DOMAIN bucket } =
              { i \in DOMAIN values : Fingerprint(values[i]) = print }
        /\ \A j \in DOMAIN bucket : bucket[j] = values[at[j]]

HistoryTells(h, values) ==
    /\ h.len = Len(values)
    /\ DOMAIN h.buckets = { Fingerprint(values[i]) : i \in DOMAIN values }
    /\ \A print \in DOMAIN h.buckets : Lists(h.buckets[print], values, print)

Satisfying(f) ==
    { i \in DOMAIN f.values :
        validate_predicate(schema, The(ContainsOf(f.node)).predicate, f.values[i], Limits[root]).valid }

CounterTells(c, f) == c = [processed |-> Len(f.values), matched |-> Cardinality(Satisfying(f))]

(* A register holds the last of the values captured in it.                   *)
RegistersAt(f, i) ==
    LET actions == ActionsOf(f.node, f.values[i][1])
    IN  IF actions = {} THEN {} ELSE ToSet(The(actions).captures)

ScopeTells(scope, f) ==
    /\ DOMAIN scope = UNION { RegistersAt(f, i) : i \in DOMAIN f.values }
    /\ \A i \in DOMAIN f.values : \A register \in RegistersAt(f, i) :
          (\A j \in DOMAIN f.values : register \in RegistersAt(f, j) => j <= i) =>
              scope[register] = f.values[i][2]

HistoriesTell(histories, open) ==
    /\ DOMAIN histories = { KeyOf(open[i]) : i \in { j \in DOMAIN open : HasHistory(open[j]) } }
    /\ \A i \in DOMAIN open :
          HasHistory(open[i]) => HistoryTells(histories[KeyOf(open[i])], open[i].values)

CountersTell(counters, open) ==
    /\ DOMAIN counters = { KeyOf(open[i]) : i \in { j \in DOMAIN open : HasCounter(open[j]) } }
    /\ \A i \in DOMAIN open :
          HasCounter(open[i]) => CounterTells(counters[KeyOf(open[i])], open[i])

ScopesTell(scopes, open) ==
    /\ DOMAIN scopes = { open[i].id : i \in { j \in DOMAIN open : HasScope(open[j]) } }
    /\ \A i \in DOMAIN open : HasScope(open[i]) => ScopeTells(scopes[open[i].id], open[i])

(* What the totals count.                                                   *)
ItemsHeld(histories) ==
    UNION { {k} \X (1..histories[k].len) : k \in DOMAIN histories }
RegistersSet(scopes) == UNION { {o} \X DOMAIN scopes[o] : o \in DOMAIN scopes }

(* Histories, counters and registers say what the open arrays and objects    *)
(* hold, and nothing of closed ones is left behind; and the totals are those *)
(* of what is held, also where an event was stopped half-way, so that undo    *)
(* can subtract from them.                                                  *)
MemoryTellsTruth ==
    /\ error = "none" =>
          /\ HistoriesTell(memory.histories, document.open)
          /\ CountersTell(memory.counters, document.open)
          /\ ScopesTell(memory.scopes, document.open)
    /\ memory.item_count = Cardinality(ItemsHeld(memory.histories))
    /\ memory.value_count = Cardinality(RegistersSet(memory.scopes))
    /\ WellFormedMemory(memory, HeldValues(memory))

(* The router, kept by increments and by undo, is where the text is.         *)
RouterFollowsText == error = "none" => router = RouterOf(document)

(* The two journals take back exactly what was done since each mark, also    *)
(* when the last event stopped half-way.                                    *)
UndoExact == \A i \in DOMAIN marks : Restored(marks[i]) = {marks[i].saved}

(* The tokens a mask lists are the ones an advance takes: right after it, an  *)
(* advance by a listed token is not refused, and one by a token left out is,  *)
(* for a rule.  Only a schema without memory plan, whose candidates are not   *)
(* probed, may list a token that an advance stops at a limit                 *)
(* (docs/architecture.md: one routine serves probe, mask and advance).       *)
MaskIsAdvance ==
    [][\A m \in mask :
          \A t \in Candidates(document) :
             m.error = "none" /\ document'.text = Append(document.text, t) =>
                IF t \in m.allowed
                THEN error' = "none" \/ (PlanEmpty /\ error' = "LimitExceeded")
                ELSE error' \in Violations]_vars

(* A mask gives up only when its own candidates need more comparisons than    *)
(* the limit: what earlier masks or advances compared does not count.  (On    *)
(* schemas whose only constraint is uniqueItems, with no other limit near.)   *)
Comparisons(t) ==
    LET Seals == { f \in ToSet(document.open) : f.kind = "array" /\ Unique(f.node) }
        Of(f, v) == LET b == SelectSeq(f.values, LAMBDA x : Fingerprint(x) = Fingerprint(v))
                    IN  Compared(b, v)
        sealed == { ev \in ToSet(Read(document, t).events) : ev.type = "ItemSealed" }
    IN  FoldSet(LAMBDA ev, n : n + FoldSet(LAMBDA f, k : IF f.id = ev.frame
                                              THEN k + Of(f, ev.value) ELSE k, 0, Seals),
                0, sealed)

MaskStopsAtItsOwnLimit ==
    \A m \in mask :
        m.error # "none" =>
            FoldSet(LAMBDA t, n : n + Comparisons(t), 0, Candidates(document))
                > MaxEqualityChecks

(* What the automaton lets through, the router understands: nothing but a    *)
(* broken rule of the schema stops a token (docs/architecture.md: semantic    *)
(* memory removes candidates that break a rule), or a limit that is less than  *)
(* the text needs: what is closed, undone or walked before counts no more.     *)
OnlyRulesStop ==
    error \in {"none"} \union Violations
                \union (IF root \in Limited THEN {"LimitExceeded"} ELSE {})

===============================================================================
