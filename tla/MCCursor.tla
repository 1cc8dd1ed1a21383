------------------------------- MODULE MCCursor -------------------------------
(* Alphabets and limits for model checking the cursor.                     *)
EXTENDS JsonGrammar

Ample ==
    [depth |-> 4, items |-> 4, members |-> 4, valueBytes |-> 4, numberDigits |-> 9,
     exponentDigits |-> 9, nodes |-> 8, arenaBytes |-> 40, events |-> 64, records |-> 80,
     generation |-> 3]

Input(alphabet, plain, length, held, limits) ==
    [bytes |-> alphabet, plain |-> plain, length |-> length, marks |-> held,
     limits |-> limits, judged |-> TRUE, duplicateKeys |-> FALSE,
     imports |-> EmptyImports, listed |-> <<>>]

(* Imported sets, and the values their lists denote.                        *)
Importing(a, lists, listed) ==
    { [a EXCEPT !.imports = memory, !.listed = listed] : memory \in build_json(lists, Ample, 2, 4) }

NumberText(bytes) == [type |-> "number", text |-> bytes]
ListText(items) == [type |-> "array", items |-> items]
WordText(bytes) == [type |-> "string", bytes |-> bytes]
ObjectText(members) == [type |-> "object", members |-> members]

NumberLists ==
    << <<"ones", << NumberText(<<"1", "0", "e", "-", "1">>), NumberText(<<"1">>),
                    NumberText(<<"-", "0", ".", "0">>) >> >>,
       <<"lists", << ListText(<<NumberText(<<"1">>), NumberText(<<"0">>)>>) >> >> >>
NumbersListed ==
    [ones |-> {NumberValue(<<1, 0>>), NumberValue(<<0, 0>>)},
     lists |-> {[type |-> "array", items |-> <<NumberValue(<<1, 0>>), NumberValue(<<0, 0>>)>>]}]

ObjectLists ==
    << <<"objects", << ObjectText(<< <<<<"u">>, ListText(<<>>)>>, <<<<>>, WordText(<<"u">>)>> >>),
                       ObjectText(<< <<<<>>, WordText(<<"u">>)>>, <<<<"u">>, ListText(<<>>)>> >>),
                       WordText(<<>>) >> >> >>
ObjectsListed ==
    [objects |-> {[type |-> "string", text |-> <<>>],
                  [type |-> "object",
                   entries |-> {<<<<>>, [type |-> "string", text |-> <<"u">>]>>,
                                <<<<"u">>, [type |-> "array", items |-> <<>>]>>}]}]

(* Three buckets for everything.                                            *)
ShortHash(stream) == Len(stream) % 3

StructureBytes == {"[", "]", "{", "}", ",", ":", Quote, "1"}
SpacedBytes == StructureBytes \union {" "}
ScalarBytes == {Quote, Backslash, "n", Newline, "t", "r", "0", "1", "-", ".", "]", "["}
KeyBytes == {"{", "}", ",", ":", Quote, "1"}
CharacterBytes == {Quote, Backslash, "C1", "C2", "E0", "ED", "F0", "F4", "F5",
                   "80", "8F", "90", "9F", "A0"}
PairBytes == {Quote, Backslash, "u", "8", "d"}
CodeBytes == PairBytes \union {"0", "C2", "80"}

Structure == Input(StructureBytes, StructureBytes \ {Quote}, 4, 2, Ample)
SpacedText == Input(SpacedBytes, SpacedBytes \ {Quote}, 6, 1, Ample)
Scalar == Input(ScalarBytes, ScalarBytes \ {Quote, Backslash, Newline}, 5, 1, Ample)
Members == Input(KeyBytes, KeyBytes \ {Quote}, 12, 1, [Ample EXCEPT !.depth = 1, !.valueBytes = 1])
Character == Input(CharacterBytes, {}, 7, 1, Ample)
Code == Input(CodeBytes, {}, 10, 1, Ample)

Pair == Input(PairBytes, {}, 16, 1, [Ample EXCEPT !.valueBytes = 6])

(* Numbers by themselves; values written in more than one way, side by side.  *)
NumeralBytes == {"0", "1", "8", "-", "+", ".", "e"}
EqualBytes == {"[", "]", ",", "0", "1", "-", ".", "e"}
ObjectBytes == {"[", "]", "{", "}", ",", ":", Quote, "u"}

Numeral == Input(NumeralBytes, {}, 6, 1, [Ample EXCEPT !.valueBytes = 6])
EqualNumbers == Input(EqualBytes, {}, 9, 1, [Ample EXCEPT !.depth = 1, !.items = 2])
Objects ==
    [Input(ObjectBytes, {"u"}, 31, 1,
           [Ample EXCEPT !.depth = 2, !.items = 2, !.members = 2, !.valueBytes = 1,
                         !.arenaBytes = 2])
        EXCEPT !.judged = FALSE]

(* Limits that are reached, two marks held.                                 *)
Tight ==
    [Input(StructureBytes, {"1"}, 6, 2,
           [depth |-> 2, items |-> 1, members |-> 1, valueBytes |-> 2, numberDigits |-> 1,
            exponentDigits |-> 1, nodes |-> 3, arenaBytes |-> 2, events |-> 3, records |-> 17,
            generation |-> 0])
        EXCEPT !.judged = FALSE]

Texts ==
    {Structure, SpacedText, Scalar, Members, Character, Code, Pair, Numeral, Tight}
    \union Importing(EqualNumbers, NumberLists, NumbersListed)
    \union Importing(Objects, ObjectLists, ObjectsListed)

(* Any key may repeat.                                                      *)
Repeated == {[Input(KeyBytes, {"1"}, 8, 1, [Ample EXCEPT !.depth = 1, !.valueBytes = 1])
                 EXCEPT !.judged = FALSE, !.duplicateKeys = TRUE]}

Words == [true |-> <<"t", "r">>, null |-> <<"n", "r">>]
===============================================================================
