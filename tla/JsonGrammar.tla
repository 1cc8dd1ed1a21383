----------------------------- MODULE JsonGrammar -----------------------------
(***************************************************************************)
(* The reference for the cursor: the JSON texts of RFC 8259 up to a length *)
(* over an alphabet, each with the value it denotes, built bottom-up from  *)
(* the grammar and without a notion of mode, stack or journal.  Characters *)
(* follow the table of well-formed UTF-8 byte sequences of Unicode.        *)
(*                                                                         *)
(* a is a member of Inputs throughout.                                     *)
(***************************************************************************)
EXTENDS JsonCursor, ImportedMemory

Doc(t, v) == [text |-> t, value |-> v]
Wrap(left, d, right) == Doc(<<left>> \o d.text \o <<right>>, d.value)

(* What Step makes of the shorter texts, for each length up to N.            *)
ByLength(N, shortest, Step(_, _)) ==
    FoldLeft(LAMBDA shorter, n : shorter @@ (n :> Step(shorter, n)),
             0 :> shortest, [n \in 1..N |-> n])

(* The units of a string, each with the bytes it stands for.                *)
PlainUnits(a) == { Doc(<<b>>, <<b>>) : b \in a.plain }

EscapeUnits(a) == { Doc(<<Backslash, b>>, <<Escapes[b]>>) : b \in a.bytes \intersect DOMAIN Escapes }

High(a, range) == { b \in a.bytes \intersect DOMAIN Octet : Octet[b] \in range }

CharacterUnits(a) ==
    LET Tail1 == High(a, 128..191)
        Two == High(a, 194..223) \X Tail1
        Three == UNION { High(a, {224}) \X High(a, 160..191) \X Tail1,
                         High(a, (225..236) \union {238, 239}) \X Tail1 \X Tail1,
                         High(a, {237}) \X High(a, 128..159) \X Tail1 }
        Four == UNION { High(a, {240}) \X High(a, 144..191) \X Tail1 \X Tail1,
                        High(a, 241..243) \X Tail1 \X Tail1 \X Tail1,
                        High(a, {244}) \X High(a, 128..143) \X Tail1 \X Tail1 }
    IN  { Doc(t, t) : t \in Two \union Three \union Four }

CodeUnits(a) ==
    LET Hex == a.bytes \intersect DOMAIN hex
        Code(q) == ((hex[q[1]] * 16 + hex[q[2]]) * 16 + hex[q[3]]) * 16 + hex[q[4]]
        Codes == Hex \X Hex \X Hex \X Hex
        Escape(q) == <<Backslash, "u">> \o q
    IN  IF "u" \notin a.bytes THEN {}
        ELSE { Doc(Escape(q), EncodeUtf8(Code(q))) :
                  q \in { x \in Codes : Code(x) \notin HighSurrogates \union LowSurrogates } }
             \union
             { Doc(Escape(p[1]) \o Escape(p[2]),
                   EncodeUtf8(65536 + (Code(p[1]) % 1024) * 1024 + (Code(p[2]) % 1024))) :
                  p \in { x \in Codes : Code(x) \in HighSurrogates }
                        \X { x \in Codes : Code(x) \in LowSurrogates } }

Units(a) ==
    PlainUnits(a) \union CharacterUnits(a)
    \union (IF Backslash \in a.bytes THEN EscapeUnits(a) \union CodeUnits(a) ELSE {})

(* The inside of a string, by length, denoting at most MaxValueBytes bytes.  *)
Bodies(a, N) ==
    LET units == Units(a)
        Body(B, n) ==
            UNION { { Doc(d.text \o u.text, d.value \o u.value) :
                         d \in { x \in B[n - Len(u.text)] :
                                   Len(x.value) + Len(u.value) <= a.limits.valueBytes } } :
                      u \in { x \in units : Len(x.text) <= n } }
    IN  ByLength(N, {Doc(<<>>, <<>>)}, Body)

(* A number of n bytes: a sign, an integer, a fraction and an exponent, and  *)
(* as its value the mantissa and the exponent of ten, the former no multiple *)
(* of ten.                                                                  *)
DigitTexts(a, n) == IF n < 1 THEN {} ELSE [1..n -> Digits \intersect a.bytes]
IntegerTexts(a, n) == { w \in DigitTexts(a, n) : n > 1 => w[1] # "0" }

Read(digits) == FoldLeft(LAMBDA x, d : 10 * x + DigitValue[d], 0, digits)

Normalised(mantissa, exponent) ==
    IF mantissa = 0 THEN <<0, 0>>
    ELSE LET zeros == CHOOSE k \in 0..9 :
                         mantissa % 10 ^ k = 0 /\ mantissa % 10 ^ (k + 1) # 0
         IN  <<mantissa \div 10 ^ zeros, exponent + zeros>>

NumberValue(value) ==
    [type |-> "number", value |-> value, integer |-> value[2] >= 0]

Numbers(a, n) ==
    LET Signs == {Doc(<<>>, 1)} \union (IF "-" \in a.bytes THEN {Doc(<<"-">>, -1)} ELSE {})
        Fractions(k) ==
            IF k = 0 THEN {<<>>} ELSE IF "." \in a.bytes THEN DigitTexts(a, k - 1) ELSE {}
        Exponent(mark, sign, k) ==
            { Doc(mark \o w, sign * Read(w)) : w \in DigitTexts(a, k - Len(mark)) }
        Exponents(k) ==
            IF k = 0 THEN {Doc(<<>>, 0)}
            ELSE IF "e" \notin a.bytes THEN {}
            ELSE Exponent(<<"e">>, 1, k)
                 \union (IF "+" \in a.bytes THEN Exponent(<<"e", "+">>, 1, k) ELSE {})
                 \union (IF "-" \in a.bytes THEN Exponent(<<"e", "-">>, -1, k) ELSE {})
        Number(s, w, f, x) ==
            Doc(s.text \o w \o (IF f = <<>> THEN f ELSE <<".">> \o f) \o x.text,
                NumberValue(Normalised(s.value * Read(w \o f), x.value - Len(f))))
    IN  IF n > a.limits.valueBytes THEN {}
        ELSE UNION { UNION { UNION {
                 { Number(s, w, f, x) : w \in IntegerTexts(a, n - Len(s.text) - i - k),
                                        f \in Fractions(i), x \in Exponents(k) } :
                 i \in 0..n } : k \in 0..n } : s \in Signs }

Scalars(a, bodies, n) ==
    Numbers(a, n)
    \union { Doc(Literals[l], [type |-> "literal", name |-> l]) :
                l \in { x \in DOMAIN Literals :
                          Len(Literals[x]) = n /\ ToSet(Literals[x]) \subseteq a.bytes } }
    \union
    (IF n < 2 \/ Quote \notin a.bytes THEN {}
     ELSE { Wrap(Quote, Doc(d.text, [type |-> "string", text |-> d.value]), Quote) :
               d \in bodies[n - 2] })

(* Texts of exactly n bytes: values, comma-separated items and members, each *)
(* with any white space around it.                                          *)
Grammar(a, N) ==
    LET Spaces == Whitespace \intersect a.bytes
        Spaced(S, less) == S
            \union { Doc(<<w>> \o d.text, d.value) : w \in Spaces, d \in less }
            \union { Doc(Append(d.text, w), d.value) : w \in Spaces, d \in less }
        bodies == Bodies(a, N - 2)
        none == [values |-> {}, items |-> {}, members |-> {}, keys |-> {}, blank |-> {<<>>}]
        Lengthened(G, n) ==
            LET below == G[n - 1]
                arrays ==
                    { Doc(<<"[">> \o t \o <<"]">>, [type |-> "array", items |-> <<>>]) :
                         t \in G[n - 2].blank }
                    \union
                    { Wrap("[", Doc(d.text, [type |-> "array", items |-> d.value]), "]") :
                         d \in G[n - 2].items }
                objects ==
                    { Doc(<<"{">> \o t \o <<"}">>, [type |-> "object", entries |-> {}]) :
                         t \in G[n - 2].blank }
                    \union
                    { Wrap("{", Doc(d.text, [type |-> "object", entries |-> d.value]), "}") :
                         d \in G[n - 2].members }
                open == IF n < 2 \/ "[" \notin a.bytes THEN {} ELSE arrays
                braced == IF n < 2 \/ "{" \notin a.bytes THEN {} ELSE objects
                values == Spaced(Scalars(a, bodies, n) \union open \union braced, below.values)
                keys == Spaced(IF n < 2 THEN {}
                               ELSE { Wrap(Quote, d, Quote) : d \in bodies[n - 2] }, below.keys)
                more == UNION { { Doc(l.text \o <<",">> \o r.text, Append(l.value, r.value)) :
                                     l \in { x \in G[i].items : Len(x.value) < a.limits.items },
                                     r \in G[n - 1 - i].values } : i \in 1..n - 2 }
                member == UNION { { Doc(k.text \o <<":">> \o v.text, {<<k.value, v.value>>}) :
                                     k \in G[i].keys, v \in G[n - 1 - i].values } : i \in 1..n - 2 }
                joined == UNION { UNION {
                                     { Doc(l.text \o <<",">> \o r.text, l.value \union r.value) :
                                         r \in { x \in G[n - 1 - i].members :
                                                   \A p \in x.value, q \in l.value : p[1] # q[1] } } :
                                     l \in G[i].members } : i \in 1..n - 2 }
            IN  [values |-> values,
                 items |-> IF "[" \notin a.bytes THEN {}
                           ELSE { Doc(d.text, <<d.value>>) : d \in values } \union more,
                 members |-> IF "{" \notin a.bytes THEN {} ELSE member \union joined,
                 keys |-> keys,
                 blank |-> [1..n -> Spaces]]
    IN  ByLength(N, none, Lengthened)

(* The documents of each alphabet they are judged in, and every beginning of *)
(* one.                                                                     *)
Judged == { a \in Inputs : a.judged }

Documents ==
    [a \in Judged |->
        LET G == Grammar(a, a.length) IN UNION { G[n].values : n \in 1..a.length }]

Beginnings ==
    [a \in Judged |-> UNION { { SubSeq(d.text, 1, i) : i \in 1..Len(d.text) } : d \in Documents[a] }]

(* The value an arena holds under each id, numbers read as integers.         *)
ReadDigits(digits) == FoldLeft(LAMBDA x, d : 10 * x + d, 0, digits)
Signed(negative, n) == IF negative THEN -n ELSE n

Value(arena) ==
    LET V[id \in DOMAIN arena.nodes] ==
            LET node == arena.nodes[id]
            IN  CASE node.type = "array" ->
                       LET ids == array_values(arena, node)
                       IN  [type |-> "array", items |-> [i \in DOMAIN ids |-> V[ids[i]]]]
                  [] node.type = "object" ->
                       [type |-> "object",
                        entries |-> { <<string_bytes(arena, x.key), V[x.value]>> :
                                         x \in ToSet(object_entries(arena, node)) }]
                  [] node.type = "string" ->
                       [type |-> "string", text |-> string_bytes(arena, node.span)]
                  [] node.type = "number" ->
                       LET n == node.value
                       IN  [type |-> "number",
                            value |-> <<Signed(n.negative, ReadDigits(n.coefficient)),
                                        Signed(n.exponent.negative, ReadDigits(n.exponent.digits))>>,
                            integer |-> is_integer(n)]
                  [] OTHER -> node
    IN  V

(* Two ids of the arena are equal exactly when they stand for one value, be  *)
(* it written with other exponents or its members in another order; and then,*)
(* and only then, do they write the same to the hasher of a fingerprint      *)
(* (canonical.rs: equal, fingerprint; histories are keyed by the latter and  *)
(* confirmed by the former).  Every pair of ids is the newest one's turn.     *)
(* The same across arenas: an id is found in an imported set exactly when the *)
(* list it was built from denotes its value (imports.rs: contains).           *)
EqualIsValue ==
    error = "none" =>
        LET arena == cursor.arena
            newest == Len(arena.nodes)
            V == Value(arena)
        IN  \A id \in 1..newest :
               LET same == V[id] = V[newest]
               IN  /\ equal(arena, id, newest) = same
                   /\ (fingerprint_stream(arena, id) = fingerprint_stream(arena, newest)) = same
                   /\ id = newest =>
                         \A name \in DOMAIN input.listed :
                            contains(input.imports, name, arena, id)
                                = (V[id] \in input.listed[name])

(* A text the cursor has accepted to its end is a JSON document, and the     *)
(* arena holds under the root the very value the document denotes.           *)
AcceptsDocuments ==
    input.judged /\ cursor.terminated /\ error = "none" =>
        Doc(text, Value(cursor.arena)[cursor.root]) \in Documents[input]

(* The cursor never refuses, for its syntax, a byte that a JSON document     *)
(* continues with, nor the end of a text that is a document.                 *)
RejectsNoDocument ==
    input.judged =>
        /\ error \in {"Syntax", "Number", "DuplicateObjectKey", "Internal"} =>
              text \notin Beginnings[input]
        /\ error = "IncompleteDocument" => text \notin { d.text : d \in Documents[input] }

===============================================================================
