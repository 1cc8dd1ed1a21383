---------------------------- MODULE RegexAutomaton ----------------------------
(***************************************************************************)
(* The dense automaton of the regex-automata crate, as Index::new uses it: *)
(* leftmost-first alternation, every match reported one byte late.         *)
(*                                                                         *)
(* A pattern is a sequence of alternatives, the preferred one first.  An    *)
(* alternative is a sequence of elements: a byte, once or any number of    *)
(* times (greedily).  A state of the automaton lists the rests still to be *)
(* matched, in order of preference, and whether the rests before its last  *)
(* byte held a match.                                                      *)
(***************************************************************************)
EXTENDS Naturals, SequencesExt

Once(b) == [byte |-> b, many |-> FALSE]
Many(b) == [byte |-> b, many |-> TRUE]

Matched == <<>>

State(rests, match) ==
    [rests |-> FoldLeft(LAMBDA s, r : IF Contains(s, r) THEN s ELSE Append(s, r), <<>>, rests),
     match |-> match]

(* A rest with, after it, the rests that repeat the elements at its head     *)
(* no more.                                                                *)
Closure(rest) ==
    LET skipped == { k \in 0..Len(rest) : \A i \in 1..k : rest[i].many }
    IN  [i \in 1..Cardinality(skipped) |-> SubSeq(rest, i, Len(rest))]

start_state(pattern) ==
    State(FlattenSeq([i \in DOMAIN pattern |-> Closure(pattern[i])]), FALSE)

(* After a byte.  A match cuts off the rests that are less preferred.        *)
dfa_next_state(s, b) ==
    LET cut == SelectInSeq(s.rests, LAMBDA r : r = Matched)
        live == IF cut = 0 THEN s.rests ELSE SubSeq(s.rests, 1, cut - 1)
        After(r) ==
            IF r[1].byte # b THEN <<>>
            ELSE Closure(IF r[1].many THEN r ELSE Tail(r))
    IN  State(FlattenSeq([i \in DOMAIN live |-> After(live[i])]), cut # 0)

is_dead_state(s) == s.rests = <<>> /\ ~s.match
is_match_state(s) == s.match

(* is_match_state(next_eoi_state(s)).                                       *)
MatchesAtEnd(s) == Contains(s.rests, Matched)

(* The bytes that go on with a rest; any other leads to the same dead state,  *)
(* or to one that only reports a match.                                     *)
Onward(s) == { s.rests[i][1].byte : i \in { j \in DOMAIN s.rests : s.rests[j] # Matched } }

(* The reference: the texts of at most n bytes a pattern describes, whatever *)
(* the preference of its alternatives.                                      *)
Words(alternative, n) ==
    LET Times(b, k) == [i \in 1..k |-> b]
        Before(e, texts) ==
            { t \in { Times(e.byte, k) \o u : k \in IF e.many THEN 0..n ELSE {1}, u \in texts } :
                 Len(t) <= n }
    IN  FoldRight(Before, alternative, {<<>>})

Language(pattern, n) == UNION { Words(pattern[i], n) : i \in DOMAIN pattern }

(* Alternatives of which a word is cut off by a preferred one that ends      *)
(* inside it.                                                              *)
Shadows(pattern, n) ==
    \E i, j \in DOMAIN pattern :
        /\ i < j
        /\ \E v \in Words(pattern[i], n), w \in Words(pattern[j], n) : IsStrictPrefix(v, w)

===============================================================================
