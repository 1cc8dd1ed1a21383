------------------------------ MODULE JsonCursor ------------------------------
(***************************************************************************)
(* The incremental JSON cursor (sidememory/cursor.rs): it is fed one byte  *)
(* at a time, keeps the stack of open arrays and objects, interns every    *)
(* finished value in the canonical arena and reports events.  Everything a *)
(* byte changes is journaled, so that a restore to a mark takes it back.   *)
(*                                                                         *)
(* A handler may fail half-way.  Handlers are therefore operators on an    *)
(* effect: the cursor as changed so far, the undo records pushed, the      *)
(* events reported, and the error that stopped it.  After an error the     *)
(* caller restores (simulation.rs), so the half-changed cursor and its     *)
(* records stay visible here until Restore.                                *)
(***************************************************************************)
EXTENDS Effects, FrameSlots, CanonicalArena

CONSTANTS
    Literals,         \* the words of true, false and null by name, shortened
    Inputs            \* the alphabets the cursor is explored in, each with its
                      \* limits and with the bounds of the exploration

(* max_journal_records is a usize.                                          *)
ASSUME InputsAssumption == \A i \in Inputs : i.limits.records \in Nat

VARIABLES
    input,    \* the member of Inputs this behaviour is about
    cursor,   \* JsonCursor
    journal,  \* CursorJournal
    marks,    \* the marks held, oldest first, each with what it must bring back
    text,     \* ghost: the bytes fed
    log,      \* ghost: the events reported
    error     \* the error of the last call, or "none"

vars == <<input, cursor, journal, marks, text, log, error>>

-------------------------------------------------------------------------------
(* RuntimeLimits, max_journal_records and u32::MAX, small.                  *)

MaxDepth == input.limits.depth
MaxItems == input.limits.items
MaxMembers == input.limits.members
MaxValueBytes == input.limits.valueBytes
MaxEvents == input.limits.events
MaxRecords == input.limits.records
MaxGeneration == input.limits.generation

(* Bounds of the model: how long a text and how many marks are explored.     *)
Explored(t, held) == Len(t) <= input.length /\ held <= input.marks

-------------------------------------------------------------------------------
(* Bytes.                                                                  *)

Bytes == input.bytes

NumberBytes == Digits \union {"-", "+", ".", "e"}
Newline == "0A"
Whitespace == {" ", Newline}
Control == {Newline}
\* Mutant: a closing brace does not end a scalar.
DelimitersWithoutBrace == Whitespace \union {",", "]"}

Delimiters == Whitespace \union {",", "]", "}"}

(* The simple escapes, with the byte each stands for.                       *)
Escapes ==
    (Quote :> Quote) @@ (Backslash :> Backslash) @@ ("n" :> Newline) @@ ("t" :> "09") @@ ("r" :> "0D")

hex == ("0" :> 0) @@ ("1" :> 1) @@ ("8" :> 8) @@ ("d" :> 13)

(* char::encode_utf8.                                                       *)
EncodeUtf8(codepoint) ==
    LET Continuation(shift) == ByteName(128 + ((codepoint \div shift) % 64))
    IN  CASE codepoint < 128 -> <<ByteName(codepoint)>>
          [] codepoint < 2048 -> <<ByteName(192 + (codepoint \div 64)), Continuation(1)>>
          [] codepoint < 65536 ->
                <<ByteName(224 + (codepoint \div 4096)), Continuation(64), Continuation(1)>>
          [] OTHER ->
                <<ByteName(240 + (codepoint \div 262144)), Continuation(4096),
                  Continuation(64), Continuation(1)>>

HighSurrogates == 55296..56319
LowSurrogates == 56320..57343

\* Mutant: what is typed so far is held to the whole grammar.
PrefixIsWhole(b) == NumberParts(b).valid

(* What a number may begin with: the sign alone, or a number whose fraction  *)
(* or exponent still lacks its digits.                                      *)
number_prefix_valid(b) ==
    LET Part(i, j) == SubSeq(b, i + 1, j)
        AllDigits(s) == ToSet(s) \subseteq Digits
        Integer(s) == s # <<>> /\ AllDigits(s) /\ (s[1] = "0" => Len(s) = 1)
        Fraction(s) == s = <<>> \/ (s[1] = "." /\ AllDigits(Tail(s)))
        Exponent(s) ==
            \/ s = <<>>
            \/ s[1] = "e" /\ \E d \in 1..2 :
                                /\ d = 2 => Len(s) > 1 /\ s[2] \in {"+", "-"}
                                /\ AllDigits(SubSeq(s, d + 1, Len(s)))
    IN  \/ b = <<"-">>
        \/ \E i \in 0..1 : \E j \in i..Len(b) : \E k \in j..Len(b) :
              /\ i = 1 => b[1] = "-"
              /\ Integer(Part(i, j))
              /\ Fraction(Part(j, k))
              /\ Exponent(Part(k, Len(b)))

number_complete(b) == Last(b) \in Digits /\ number_prefix_valid(b)

-------------------------------------------------------------------------------
(* The cursor.                                                             *)

NoRoot == 0

Mode(name) == <<name>>
InString(context) == <<"InString", context>>
AfterBackslash(context) == <<"AfterBackslash", context>>
InUnicodeEscape(context, digits, value) == <<"InUnicodeEscape", context, digits, value>>
WaitingLowSurrogate(context, high, matched) == <<"WaitingLowSurrogate", context, high, matched>>
InLiteral(name, matched) == <<"InLiteral", name, matched>>

Utf8State(expected, codepoint, minimum) ==
    [expected_continuations |-> expected, codepoint |-> codepoint, minimum_codepoint |-> minimum]
NoUtf8 == Utf8State(0, 0, 0)

NewCursor ==
    [mode |-> Mode("ExpectValue"), frames |-> <<>>, pool |-> EmptyPool, root |-> NoRoot,
     arena |-> EmptyArena, partial |-> <<>>, utf8 |-> NoUtf8, terminated |-> FALSE, byte_offset |-> 0]

(* current_key is a set of at most one key.                                *)
ArrayFrame(id) == [kind |-> "array", id |-> id, values |-> <<>>]
ObjectFrame(id) ==
    [kind |-> "object", id |-> id, current_key |-> {}, values |-> <<>>, seen_keys |-> {}]

Top(c) == Last(c.frames)
Inside(c, kind) == c.frames # <<>> /\ Top(c).kind = kind

(* The undo records.                                                       *)
RestoreCore(c) ==
    [op |-> "RestoreCore", mode |-> c.mode, root |-> c.root, utf8 |-> c.utf8,
     terminated |-> c.terminated, byte_offset |-> c.byte_offset]
TruncatePartial(c) == [op |-> "TruncatePartial", len |-> Len(c.partial)]
RestorePartial(c) == [op |-> "RestorePartial", partial |-> c.partial]
PopOpenedFrame(u) == [op |-> "PopOpenedFrame", slot |-> u]
RestoreClosedFrame(f, u) == [op |-> "RestoreClosedFrame", frame |-> f, slot |-> u]
UndoObjectKey(id) == [op |-> "UndoObjectKey", id |-> id]
PopArrayValue(id) == [op |-> "PopArrayValue", id |-> id]

\* Mutant: a property value is taken back as an array item.
PopObjectValueAsItem(id) == PopArrayValue(id)

PopObjectValue(id) == [op |-> "PopObjectValue", id |-> id]

-------------------------------------------------------------------------------
(* Effects.  room is what max_journal_records leaves for this call.         *)

Effect(c, room) ==
    [c |-> c, undo |-> <<>>, events |-> <<>>, error |-> "none", room |-> room, again |-> FALSE]

Push(e, record) ==
    IF Len(e.undo) >= e.room THEN Fail(e, "PushRefused")
    ELSE [e EXCEPT !.undo = Append(@, record)]

Emit(e, event) == [e EXCEPT !.events = Append(@, event)]
Goto(e, mode) == [e EXCEPT !.c.mode = mode]

(* std::mem::take in the argument of push: the bytes are gone either way.   *)
TakePartial(e) == [Push(e, RestorePartial(e.c)) EXCEPT !.c.partial = <<>>]

push_partial(e, b) ==
    IF Len(e.c.partial) >= MaxValueBytes THEN Fail(e, "ValueLimit")
    ELSE Then(Push(e, TruncatePartial(e.c)), LAMBDA x : [x EXCEPT !.c.partial = Append(@, b)])

(* added is what an add_* of the arena leaves.                              *)
AddNode(e, added) ==
    IF added = {} THEN Fail(e, "ArenaLimit")
    ELSE [e EXCEPT !.c.arena = CHOOSE arena \in added : TRUE]

Newest(e) == Len(e.c.arena.nodes)

-------------------------------------------------------------------------------
(* Handlers.                                                               *)

SetTop(e, f) == [e EXCEPT !.c.frames = Append(Front(@), f)]

AddItem(e, f, v) ==
    Goto(Emit(SetTop(e, [f EXCEPT !.values = Append(@, v)]),
              [type |-> "ItemSealed", frame |-> f.id, index |-> Len(f.values), value |-> v]),
         Mode("ExpectArrayCommaOrEnd"))

\* Mutant: the item is journaled before the limit is checked.
PublishItemJournaledFirst(e, v) ==
    LET f == Top(e.c)
    IN  Then(Push(e, PopArrayValue(f.id)), LAMBDA x :
           IF Len(f.values) >= MaxItems THEN Fail(x, "ItemLimit") ELSE AddItem(x, f, v))

PublishItem(e, v) ==
    LET f == Top(e.c)
    IN  IF Len(f.values) >= MaxItems THEN Fail(e, "ItemLimit")
        ELSE Then(Push(e, PopArrayValue(f.id)), LAMBDA x : AddItem(x, f, v))

\* Mutant: the next key may follow a property without a comma.
AfterPropertyNoComma == Mode("ExpectObjectKeyOrEnd")

AfterProperty == Mode("ExpectObjectCommaOrEnd")

AddProperty(e, f, v) ==
    LET key == CHOOSE k \in f.current_key : TRUE
    IN  Goto(Emit(SetTop(e, [f EXCEPT !.current_key = {}, !.values = Append(@, <<key, v>>)]),
                  [type |-> "PropertyValueSealed", frame |-> f.id, key |-> key, value |-> v]),
             AfterProperty)

PublishProperty(e, v) ==
    LET f == Top(e.c)
    IN  CASE Len(f.values) >= MaxMembers -> Fail(e, "MemberLimit")
          [] f.current_key = {} -> Fail(e, "Internal")
          [] OTHER ->
                Then(Push(e, PopObjectValue(f.id)), LAMBDA x : AddProperty(x, f, v))

PublishRoot(e, v) ==
    IF e.c.root # NoRoot THEN Fail([e EXCEPT !.c.root = v], "Internal")
    ELSE Emit(Goto([e EXCEPT !.c.root = v], Mode("CompleteRoot")),
              [type |-> "RootComplete", value |-> v])

publish_value(e, v) ==
    CASE Inside(e.c, "array") -> PublishItem(e, v)
      [] Inside(e.c, "object") -> PublishProperty(e, v)
      [] OTHER -> PublishRoot(e, v)

Opened(e, kind) ==
    LET id == Allocated(e.c.pool)
        frame == IF kind = "array" THEN ArrayFrame(id) ELSE ObjectFrame(id)
        opened == [e EXCEPT !.c.pool = Allocate(@), !.c.frames = Append(@, frame)]
    IN  IF GenerationExhausted(e.c.pool, MaxGeneration) THEN Fail(e, "Scope")
        ELSE Then(Push(opened, PopOpenedFrame(AllocateUndo(e.c.pool))), LAMBDA x :
                Goto(Emit(x, [type |-> IF kind = "array" THEN "ArrayStart" ELSE "ObjectStart",
                              frame |-> id]),
                     Mode(IF kind = "array" THEN "ExpectArrayValueOrEnd"
                          ELSE "ExpectObjectKeyOrEnd")))

DepthExceeded(c) == Len(c.frames) >= MaxDepth

open_array(e) ==
    IF DepthExceeded(e.c) THEN Fail(e, "DepthLimit")
    ELSE Then(Push(e, TruncatePartial(e.c)), LAMBDA x : Opened(x, "array"))

open_object(e) ==
    IF DepthExceeded(e.c) THEN Fail(e, "DepthLimit") ELSE Opened(e, "object")

(* The value is interned before the frame is taken off, and published in    *)
(* the frame below.                                                        *)
Popped(e, f) ==
    Push([e EXCEPT !.c.pool = Release(@, f.id), !.c.frames = Front(@)],
         RestoreClosedFrame(f, ReleaseUndo(f.id)))

EndEvent(e, f, event) == Emit(e, [type |-> event, frame |-> f.id, value |-> Newest(e)])

\* Mutant: the value is published before its end is reported.
ClosedPublishedFirst(e, f, event) ==
    Then(Popped(e, f), LAMBDA x : EndEvent(publish_value(x, Newest(x)), f, event))

Closed(e, f, event) ==
    Then(Popped(e, f), LAMBDA x : publish_value(EndEvent(x, f, event), Newest(x)))

Close(e, kind, add(_), event) ==
    IF ~Inside(e.c, kind) THEN Fail(e, "Syntax")
    ELSE Then(AddNode(e, add(Top(e.c).values)), LAMBDA x :
         Then(Push(x, TruncatePartial(x.c)), LAMBDA y :
         IF ~IsLive(y.c.pool, Top(y.c).id) THEN Fail(y, "Scope")
         ELSE Closed(y, Top(y.c), event)))

close_array(e) ==
    Close(e, "array", LAMBDA values : add_array(e.c.arena, values, input.limits), "ArrayEnd")

close_object(e) ==
    Close(e, "object", LAMBDA values : add_object(e.c.arena, values, input.limits), "ObjectEnd")

begin_string(e, context) ==
    Then(TakePartial(e), LAMBDA x : Goto([x EXCEPT !.c.utf8 = NoUtf8], InString(context)))

(* A key is journaled and taken from partial before it is known to be new.  *)
FinishKey(e) ==
    LET f == Top(e.c)
        key == e.c.partial
    IN  Then(Push(e, UndoObjectKey(f.id)), LAMBDA x :
        LET taken == [x EXCEPT !.c.partial = <<>>]
        IN  IF key \in f.seen_keys THEN Fail(taken, "DuplicateObjectKey")
            ELSE Goto(Emit(SetTop(taken, [f EXCEPT !.seen_keys = @ \union {key},
                                                   !.current_key = {key}]),
                           [type |-> "PropertyKeySealed", frame |-> f.id, key |-> key]),
                      Mode("ExpectColon")))

ScalarSealed(e, v) == publish_value(Emit(e, [type |-> "ScalarSealed", value |-> v]), v)

FinishValue(e) ==
    Then(AddNode(e, add_string(e.c.arena, e.c.partial, input.limits)), LAMBDA x :
    Then(TakePartial(x), LAMBDA y : ScalarSealed(y, Newest(y))))

seal_number(e) ==
    LET parts == NumberParts(e.c.partial)
    IN  CASE ~parts.valid -> Fail(e, "Number")
          [] ~WithinDigitLimits(parts, input.limits) -> Fail(e, "NumberLimit")
          [] OTHER ->
                Then(AddNode(e, add_number(e.c.arena, NormalForm(parts), input.limits)), LAMBDA x :
                Then(TakePartial(x), LAMBDA y : ScalarSealed(y, Newest(y))))

seal_literal(e) ==
    Then(AddNode(e, add_literal(e.c.arena, e.c.mode[2], input.limits)), LAMBDA x :
        ScalarSealed(x, Newest(x)))

start_value(e, b) ==
    CASE b = "[" -> open_array(e)
      [] b = "{" -> open_object(e)
      [] b = Quote -> begin_string(e, "Value")
      [] b \in Digits \union {"-"} ->
            Then(Then(TakePartial(e), LAMBDA x : push_partial(x, b)), LAMBDA x :
                Goto(x, Mode("InNumber")))
      [] \E l \in DOMAIN Literals : Literals[l][1] = b ->
            Goto(e, InLiteral(CHOOSE l \in DOMAIN Literals : Literals[l][1] = b, 1))
      [] OTHER -> Fail(e, "Syntax")

Pending(c) == c.utf8.expected_continuations # 0

(* One byte of a character: how many continuations it expects, the code      *)
(* read so far, and the least code that takes as many bytes.                *)
Leading(n) ==
    CASE n \in 194..223 -> Utf8State(1, n % 32, 128)
      [] n \in 224..239 -> Utf8State(2, n % 16, 2048)
      [] n \in 240..244 -> Utf8State(3, n % 8, 65536)

\* Mutant: a character may be written in more bytes than it needs.
NotScalarOverlong(codepoint, minimum) ==
    codepoint \in HighSurrogates \union LowSurrogates \/ codepoint > 1114111

NotScalar(codepoint, minimum) ==
    codepoint < minimum \/ codepoint \in HighSurrogates \union LowSurrogates \/ codepoint > 1114111

Continued(e, n) ==
    LET codepoint == e.c.utf8.codepoint * 64 + (n % 64)
        left == e.c.utf8.expected_continuations - 1
    IN  CASE n \notin 128..191 -> Fail(e, "Syntax")
          [] left > 0 ->
                [e EXCEPT !.c.utf8.codepoint = codepoint, !.c.utf8.expected_continuations = left]
          [] NotScalar(codepoint, e.c.utf8.minimum_codepoint) ->
                Fail([e EXCEPT !.c.utf8.codepoint = codepoint,
                               !.c.utf8.expected_continuations = 0], "Syntax")
          [] OTHER -> [e EXCEPT !.c.utf8 = NoUtf8]

feed_utf8(e, b) ==
    CASE Pending(e.c) -> IF b \in DOMAIN Octet THEN Continued(e, Octet[b]) ELSE Fail(e, "Syntax")
      [] b \notin DOMAIN Octet -> e
      [] Octet[b] \in 194..244 -> [e EXCEPT !.c.utf8 = Leading(Octet[b])]
      [] OTHER -> Fail(e, "Syntax")

(* A byte of a string: its end, an escape, or content.                      *)
StringByte(e, b, context) ==
    CASE b = Quote ->
            IF Pending(e.c) THEN Fail(e, "Syntax")
            ELSE IF context = "Key" THEN FinishKey(e) ELSE FinishValue(e)
      [] b = Backslash /\ ~Pending(e.c) -> Goto(e, AfterBackslash(context))
      [] b \in Control -> Fail(e, "Syntax")
      [] OTHER -> Then(feed_utf8(e, b), LAMBDA x : push_partial(x, b))

\* Mutant: an escape stands for its own letter.
UnescapedVerbatim(b) == b

Unescaped(b) == Escapes[b]

EscapeByte(e, b, context) ==
    CASE b = "u" -> Goto(e, InUnicodeEscape(context, 0, 0))
      [] b \in DOMAIN Escapes ->
            Then(push_partial(e, Unescaped(b)), LAMBDA x : Goto(x, InString(context)))
      [] OTHER -> Fail(e, "Syntax")

push_next(e, b) == Then(e, LAMBDA x : push_partial(x, b))
push_codepoint(e, codepoint) == FoldLeft(push_next, e, EncodeUtf8(codepoint))

(* A digit of an escape by code, and what follows the fourth.                *)
UnicodeDigit(e, b, context, digits, value) ==
    LET now == value * 16 + hex[b]
    IN  CASE b \notin DOMAIN hex -> Fail(e, "Syntax")
          [] digits < 3 -> Goto(e, InUnicodeEscape(context, digits + 1, now))
          [] now \in HighSurrogates -> Goto(e, WaitingLowSurrogate(context, now, 0))
          [] now \in LowSurrogates -> Fail(e, "Syntax")
          [] OTHER -> Then(push_codepoint(e, now), LAMBDA x : Goto(x, InString(context)))

(* The escape of the low half, its code gathered in utf8.codepoint, whose     *)
(* bits are clear where the digit goes.                                     *)
PairedWith(high, low) == 65536 + (high - 55296) * 1024 + (low - 56320)

\* Mutant: the code gathered for a low half is not cleared after the pair.
PairedUncleared(e, high, low, context) ==
    Then(push_codepoint(e, PairedWith(high, low)), LAMBDA x : Goto(x, InString(context)))

Paired(e, high, low, context) ==
    Then(push_codepoint([e EXCEPT !.c.utf8.codepoint = 0], PairedWith(high, low)),
         LAMBDA x : Goto(x, InString(context)))

LowSurrogateByte(e, b, context, high, matched) ==
    CASE matched < 2 ->
            IF b = <<Backslash, "u">>[matched + 1]
            THEN Goto(e, WaitingLowSurrogate(context, high, matched + 1))
            ELSE Fail(e, "Syntax")
      [] b \notin DOMAIN hex -> Fail(e, "Syntax")
      [] OTHER ->
            LET low == e.c.utf8.codepoint + hex[b] * 16 ^ (5 - matched)
                read == [e EXCEPT !.c.utf8.codepoint = low]
            IN  CASE matched < 5 -> Goto(read, WaitingLowSurrogate(context, high, matched + 1))
                  [] low \in LowSurrogates -> Paired(read, high, low, context)
                  [] OTHER -> Fail(read, "Syntax")

(* A delimiter ends a number or a literal, and is then processed itself.    *)
Again(e) == [e EXCEPT !.again = TRUE]

NumberByte(e, b) ==
    CASE b \in NumberBytes ->
            Then(push_partial(e, b), LAMBDA x :
                IF number_prefix_valid(x.c.partial) THEN x ELSE Fail(x, "Syntax"))
      [] b \in Delimiters /\ number_complete(e.c.partial) -> Then(seal_number(e), Again)
      [] OTHER -> Fail(e, "Syntax")

feed_literal(e, b, name, matched) ==
    CASE matched < Len(Literals[name]) ->
            IF Literals[name][matched + 1] = b THEN Goto(e, InLiteral(name, matched + 1))
            ELSE Fail(e, "Syntax")
      [] b \in Delimiters -> Then(seal_literal(e), Again)
      [] OTHER -> Fail(e, "Syntax")

(* One pass of the loop of feed_byte_into.                                  *)
SkipsWhitespace == {"ExpectValue", "ExpectArrayValueOrEnd", "ExpectObjectKeyOrEnd",
                    "ExpectColon", "ExpectArrayCommaOrEnd", "ExpectObjectCommaOrEnd"}

AfterArrayComma == Mode("ExpectValue")

Dispatch(e, b) ==
    LET m == e.c.mode
        name == m[1]
    IN  CASE name \in SkipsWhitespace /\ b \in Whitespace -> e
          [] name = "ExpectArrayValueOrEnd" /\ b = "]" -> close_array(e)
          [] name \in {"ExpectValue", "ExpectArrayValueOrEnd"} -> start_value(e, b)
          [] name = "ExpectObjectKeyOrEnd" /\ b = "}" -> close_object(e)
          [] name = "ExpectObjectKeyOrEnd" /\ b = Quote -> begin_string(e, "Key")
          [] name = "ExpectColon" /\ b = ":" -> Goto(e, Mode("ExpectValue"))
          [] name = "ExpectArrayCommaOrEnd" /\ b = "," -> Goto(e, AfterArrayComma)
          [] name = "ExpectArrayCommaOrEnd" /\ b = "]" -> close_array(e)
          [] name = "ExpectObjectCommaOrEnd" /\ b = "," -> Goto(e, Mode("ExpectObjectKeyOrEnd"))
          [] name = "ExpectObjectCommaOrEnd" /\ b = "}" -> close_object(e)
          [] name = "CompleteRoot" /\ b \in Whitespace -> e
          [] name = "InString" -> StringByte(e, b, m[2])
          [] name = "AfterBackslash" -> EscapeByte(e, b, m[2])
          [] name = "InUnicodeEscape" -> UnicodeDigit(e, b, m[2], m[3], m[4])
          [] name = "WaitingLowSurrogate" -> LowSurrogateByte(e, b, m[2], m[3], m[4])
          [] name = "InNumber" -> NumberByte(e, b)
          [] name = "InLiteral" -> feed_literal(e, b, m[2], m[3])
          [] OTHER -> Fail(e, "Syntax")

CheckEvents(e) == IF Len(e.events) > MaxEvents THEN Fail(e, "EventLimit") ELSE e

Pass(e, b) == Then(Dispatch([e EXCEPT !.again = FALSE], b), CheckEvents)

(* After a sealed scalar the mode never leads to a third pass.              *)
Process(e, b) == Then(Pass(e, b), LAMBDA x : IF x.again THEN Pass(x, b) ELSE x)

-------------------------------------------------------------------------------
(* The two calls that move the cursor.                                     *)

\* Mutant: room is asked for two records only.
ByteHeadroomTooLow == 2

ByteHeadroom == 16
EosHeadroom == 8

Room == MaxRecords - Len(journal)

(* What a call starts from: the core state is journaled first.              *)
Begin == Push(Effect(cursor, Room), RestoreCore(cursor))

FedByte(b) ==
    CASE cursor.terminated -> Fail(Effect(cursor, Room), "AlreadyTerminated")
      [] Room < ByteHeadroom -> Fail(Effect(cursor, Room), "JournalLimit")
      [] OTHER -> Process([Begin EXCEPT !.c.byte_offset = @ + 1], b)

SealAtEos(e) ==
    LET m == e.c.mode
    IN  CASE m[1] = "InNumber" /\ number_complete(e.c.partial) -> seal_number(e)
          [] m[1] = "InLiteral" /\ m[3] = Len(Literals[m[2]]) -> seal_literal(e)
          [] m[1] = "CompleteRoot" -> e
          [] OTHER -> Fail(e, "IncompleteDocument")

Terminate(e) ==
    IF e.c.root = NoRoot \/ e.c.frames # <<>> \/ e.c.mode # Mode("CompleteRoot")
    THEN Fail(e, "IncompleteDocument")
    ELSE [e EXCEPT !.c.terminated = TRUE]

FinishedEos ==
    CASE cursor.terminated -> Fail(Effect(cursor, Room), "AlreadyTerminated")
      [] Room < EosHeadroom -> Fail(Effect(cursor, Room), "JournalLimit")
      [] OTHER -> Then(SealAtEos(Begin), Terminate)

-------------------------------------------------------------------------------
(* Restoring.                                                              *)

(* What restore checks before it applies a record.                          *)
Undoable(c, r) ==
    CASE r.op = "TruncatePartial" -> r.len <= Len(c.partial)
      [] r.op = "PopOpenedFrame" -> c.frames # <<>> /\ CanUndo(c.pool, r.slot)
      [] r.op = "RestoreClosedFrame" -> CanUndo(c.pool, r.slot)
      [] r.op = "UndoObjectKey" ->
            /\ Inside(c, "object") /\ Top(c).id = r.id
            /\ Top(c).current_key # {}
            /\ Top(c).current_key \subseteq Top(c).seen_keys
      [] r.op = "PopArrayValue" ->
            Inside(c, "array") /\ Top(c).id = r.id /\ Top(c).values # <<>>
      [] r.op = "PopObjectValue" ->
            /\ Inside(c, "object") /\ Top(c).id = r.id
            /\ Top(c).values # <<>> /\ Top(c).current_key = {}
      [] OTHER -> TRUE

WithTop(c, f) == [c EXCEPT !.frames = Append(Front(@), f)]

Undone(c, r) ==
    CASE r.op = "RestoreCore" ->
            [c EXCEPT !.mode = r.mode, !.root = r.root, !.utf8 = r.utf8,
                      !.terminated = r.terminated, !.byte_offset = r.byte_offset]
      [] r.op = "TruncatePartial" -> [c EXCEPT !.partial = SubSeq(@, 1, r.len)]
      [] r.op = "RestorePartial" -> [c EXCEPT !.partial = r.partial]
      [] r.op = "PopOpenedFrame" ->
            [c EXCEPT !.frames = Front(@), !.pool = Undo(@, r.slot)]
      [] r.op = "RestoreClosedFrame" ->
            [c EXCEPT !.frames = Append(@, r.frame), !.pool = Undo(@, r.slot)]
      [] r.op = "UndoObjectKey" ->
            LET key == Top(c).current_key
            IN  [WithTop(c, [Top(c) EXCEPT !.current_key = {}, !.seen_keys = @ \ key])
                    EXCEPT !.partial = CHOOSE k \in key : TRUE]
      [] r.op = "PopArrayValue" -> WithTop(c, [Top(c) EXCEPT !.values = Front(@)])
      [] r.op = "PopObjectValue" ->
            WithTop(c, [Top(c) EXCEPT !.values = Front(@),
                                      !.current_key = {Last(Top(c).values)[1]}])

(* Records are applied newest first; one that does not apply stops the      *)
(* restore and leaves a broken cursor.                                      *)
Applied(r, cs) == { Undone(c, r) : c \in { d \in cs : Undoable(d, r) } }

(* Restoring to a mark: the set holds the restored cursor, or nothing when  *)
(* the restore breaks.                                                     *)
Restored(m) ==
    LET records == SubSeq(journal, m.undo_len + 1, Len(journal))
        back == FoldRight(Applied, records, {cursor})
    IN  { [c EXCEPT !.arena = restored(@, m.arena_mark)] :
            c \in { d \in back : m.undo_len <= Len(journal) /\ MarkInside(d.arena, m.arena_mark) } }

-------------------------------------------------------------------------------
(* The behaviour: a caller that marks, feeds and restores, as the Guide does. *)

(* What a guide's automaton lets through: the pattern of an object names its *)
(* properties, each at most once, and has no trailing comma.  With          *)
(* duplicateKeys the bytes come through the cursor's own interface          *)
(* (feed_byte, replay_committed), which lets any key repeat.  The last line  *)
(* is a bound: which content of a string is explored.                       *)
LastSolid == LET solid == SelectSeq(text, LAMBDA x : x \notin Whitespace)
             IN  IF solid = <<>> THEN " " ELSE Last(solid)

Structural(b) ==
    /\ ~(b = "}" /\ cursor.mode[1] # "InString" /\ LastSolid = ",")
    /\ input.duplicateKeys \/
       ~ /\ b = Quote
         /\ cursor.mode = InString("Key")
         /\ cursor.partial \in Top(cursor).seen_keys
    /\ cursor.mode[1] = "InString" /\ b \notin DOMAIN Octet \union Control \union {Quote, Backslash}
          => b \in input.plain

Init ==
    /\ input \in Inputs
    /\ cursor = NewCursor
    /\ journal = <<>>
    /\ marks = <<>>
    /\ text = <<>>
    /\ log = <<>>
    /\ error = "none"

Mark ==
    /\ error = "none"
    /\ Explored(text, Len(marks) + 1)
    /\ marks' = Append(marks,
          [undo_len |-> Len(journal), arena_mark |-> arena_mark(cursor.arena),
           saved |-> cursor, text |-> text, log |-> log])
    /\ UNCHANGED <<input, cursor, journal, text, log, error>>

(* The effect of a call, an error's half-way one included.                  *)
Take(e) ==
    /\ cursor' = e.c
    /\ journal' = journal \o e.undo
    /\ log' = log \o e.events
    /\ error' = e.error
    /\ UNCHANGED <<input, marks>>

FeedByte(b) ==
    /\ error = "none"
    /\ marks # <<>>
    /\ Explored(Append(text, b), Len(marks))
    /\ Structural(b)
    /\ Take(FedByte(b))
    /\ text' = Append(text, b)

Finish ==
    /\ error = "none"
    /\ marks # <<>>
    /\ Take(FinishedEos)
    /\ UNCHANGED text

(* After an error the caller can only restore.  A restore that breaks       *)
(* leaves a cursor nobody may use again: it has no successor here.           *)
Restore(i) ==
    LET m == marks[i]
    IN  /\ cursor' \in Restored(m)
        /\ journal' = SubSeq(journal, 1, m.undo_len)
        /\ marks' = SubSeq(marks, 1, i - 1)
        /\ text' = m.text
        /\ log' = m.log
        /\ error' = "none"
        /\ UNCHANGED input

(* CursorJournal::discard_prefix, when the oldest mark leaves the window.    *)
DiscardPrefix ==
    /\ error = "none"
    /\ Len(marks) > 1
    /\ LET count == marks[2].undo_len
       IN  /\ journal' = SubSeq(journal, count + 1, Len(journal))
           /\ marks' = [i \in 1..Len(marks) - 1 |->
                            [marks[i + 1] EXCEPT !.undo_len = @ - count]]
    /\ UNCHANGED <<input, cursor, text, log, error>>

Next ==
    \/ Mark
    \/ \E b \in Bytes : FeedByte(b)
    \/ Finish
    \/ \E i \in 1..Len(marks) : Restore(i)
    \/ DiscardPrefix

Spec == Init /\ [][Next]_vars

-------------------------------------------------------------------------------
(* Properties.                                                             *)

FrameIds(c) == { c.frames[i].id : i \in DOMAIN c.frames }

(* Type invariant: the cursor's parts, its stack, pool and arena fit together, *)
(* and nothing is kept of a character once it is whole.                     *)
TypeOK ==
    /\ WellFormed(cursor.pool)
    /\ FrameIds(cursor) =
          { Handle(s, cursor.pool.slots[s].generation) :
              s \in { t \in DOMAIN cursor.pool.slots : cursor.pool.slots[t].occupied } }
    /\ \A i \in DOMAIN cursor.frames :
          LET f == cursor.frames[i]
          IN  /\ f.kind = "array" => ToSet(f.values) \subseteq DOMAIN cursor.arena.nodes
              /\ f.kind = "object" =>
                    /\ f.seen_keys =
                          { f.values[j][1] : j \in DOMAIN f.values } \union f.current_key
                    /\ i < Len(cursor.frames) => f.current_key # {}
    /\ error = "none" /\ ~Pending(cursor) /\ cursor.mode[1] # "WaitingLowSurrogate"
          => cursor.utf8 = NoUtf8
    /\ cursor.root \in 0..Len(cursor.arena.nodes)
    /\ RefersBack(cursor.arena) /\ KeysInside(cursor.arena)
    /\ cursor.byte_offset = Len(text) \/ error # "none"

(* The journal takes back exactly what was done since each mark held, also   *)
(* when the last call failed half-way (docs/architecture.md: denial and      *)
(* recoverable errors restore atomically).                                  *)
UndoExact == \A i \in DOMAIN marks : Restored(marks[i]) = {marks[i].saved}

(* The headroom asked for at the start of a call covers all its pushes:      *)
(* push is never refused in the middle, with bytes already taken.            *)
HeadroomSuffices == error # "PushRefused"

(* No two frames of a document ever share a handle, so whatever the semantic *)
(* stores keep under a closed frame's handle is never found by a later one.  *)
Starts == { i \in DOMAIN log : log[i].type \in {"ArrayStart", "ObjectStart"} }

HandlesDistinct == \A i, j \in Starts : log[i].frame = log[j].frame => i = j

(* Replaying the events alone, as the router does, rebuilds the stack: each  *)
(* event names the innermost open frame, items come in order of index, a    *)
(* property's value follows its key.  The stack lists kind, handle, number   *)
(* of values and the open key; Stuck marks an event out of place.            *)
Stuck == [kind |-> "stuck"]

Replayed(stack, ev) ==
    LET top == Last(stack)
        At(kind) == stack # <<>> /\ top.kind = kind /\ top.id = ev.frame
        Closing(kind) == At(kind) /\ top.key = {}
        New(kind) == Append(stack, [kind |-> kind, id |-> ev.frame, count |-> 0, key |-> {}])
    IN  CASE ev.type = "ArrayStart" -> New("array")
          [] ev.type = "ObjectStart" -> New("object")
          [] ev.type \in {"ScalarSealed", "RootComplete"} -> stack
          [] ev.type = "ItemSealed" /\ At("array") /\ ev.index = top.count ->
                Append(Front(stack), [top EXCEPT !.count = @ + 1])
          [] ev.type = "PropertyKeySealed" /\ Closing("object") ->
                Append(Front(stack), [top EXCEPT !.key = {ev.key}])
          [] ev.type = "PropertyValueSealed" /\ At("object") /\ top.key = {ev.key} ->
                Append(Front(stack), [top EXCEPT !.count = @ + 1, !.key = {}])
          [] ev.type = "ArrayEnd" /\ Closing("array") -> Front(stack)
          [] ev.type = "ObjectEnd" /\ Closing("object") -> Front(stack)
          [] OTHER -> <<Stuck>>

Shape(f) ==
    [kind |-> f.kind, id |-> f.id, count |-> Len(f.values),
     key |-> IF f.kind = "object" THEN f.current_key ELSE {}]

EventsReplay ==
    error = "none" =>
        /\ FoldLeft(Replayed, <<>>, log) =
              [i \in DOMAIN cursor.frames |-> Shape(cursor.frames[i])]
        /\ (cursor.root # NoRoot) = (log # <<>> /\ Last(log).type = "RootComplete")

===============================================================================
