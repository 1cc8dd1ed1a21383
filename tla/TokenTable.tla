------------------------------ MODULE TokenTable ------------------------------
(***************************************************************************)
(* The token table of a compiled schema (sidememory/token_table.rs), built   *)
(* from the vocabulary its index is built from, and the mask a semantic guide *)
(* writes into (mask.rs).  Here the guide has no memory plan: what it allows  *)
(* is what the index allows.  A result is a set, empty when it is refused.    *)
(***************************************************************************)
EXTENDS LegacyGuide

CONSTANT ModelWidths    \* the widths of a model tried

ASSUME WidthsNat == ModelWidths \subseteq Nat

(* Whatever the order of the vocabulary, a conflict is met.                  *)
Conflicting(tokens) ==
    \E t, u \in DOMAIN tokens : t # u /\ ToSet(tokens[t]) \cap ToSet(tokens[u]) # {}

Outside(tokens, width) == \E id \in Ids(tokens) \union {Eos} : id >= width

EntriesOf(tokens) ==
    [id \in Ids(tokens) |-> CHOOSE token \in DOMAIN tokens : id \in ToSet(tokens[token])]

\* Mutant: a token that is there already is passed over.
buildFirst(tokens, width) ==
    IF Outside(tokens, width) \/ <<>> \in DOMAIN tokens THEN {} ELSE {EntriesOf(tokens)}

build(tokens, width) ==
    IF Outside(tokens, width) \/ <<>> \in DOMAIN tokens \/ Conflicting(tokens) THEN {}
    ELSE {EntriesOf(tokens)}

-------------------------------------------------------------------------------
(* A mask: its words, from 0 on, each with its bits.                         *)

required_words(width) == (width + Word - 1) \div Word

set_token(words, id) ==
    IF id \div Word \notin DOMAIN words THEN {}
    ELSE {[words EXCEPT ![id \div Word] = @ \union {id % Word}]}

\* Mutant: the last bit of the model goes with the padding.
clear_paddingOneOff(words, width) ==
    IF width % Word = 0 THEN words
    ELSE [words EXCEPT ![required_words(width) - 1] = @ \cap 0..(width % Word) - 2]

clear_padding(words, width) ==
    IF width % Word = 0 THEN words
    ELSE [words EXCEPT ![required_words(width) - 1] = @ \cap 0..(width % Word) - 1]

SetIn(masks, id) == UNION { set_token(words, id) : words \in masks }

Cleared(width) == [word \in 0..required_words(width) - 1 |-> {}]

(* A state without a row in the index is an error.                           *)
write_mask(allowed, width) ==
    IF allowed = {} THEN {}
    ELSE { clear_padding(words, width) :
             words \in FoldLeft(SetIn, {Cleared(width)}, SetToSeq(allowed)) }

Shown(words) == UNION { { word * Word + bit : bit \in words[word] } : word \in DOMAIN words }

-------------------------------------------------------------------------------
(* Properties.                                                             *)

(* A mask of the size asked for shows the very tokens of get_tokens, when    *)
(* the ids are those of a vocabulary without gaps.                          *)
LegacyMaskShows ==
    mask.shown /\ (\A id \in allowed_tokens(guide.state) : id < vocab_size) =>
        mask.tokens = allowed_tokens(guide.state)

(* Where the token table is not refused, writing the mask of a semantic guide *)
(* fails in no state that goes on, and shows just the tokens the index allows, *)
(* be there gaps in the ids or not; and each of them has in the table the      *)
(* bytes that lead where the index says, so that cursor and automaton follow   *)
(* one text.                                                                *)
TableServesIndex ==
    HasGuide /\ allowed_tokens(guide.state) # {} =>
        \A width \in ModelWidths : \A table \in build(vocabulary, width) :
            LET allowed == allowed_tokens(guide.state)
            IN  /\ { Shown(words) : words \in write_mask(allowed, width) } = {allowed}
                /\ \A id \in allowed \ {Eos} :
                      id \in DOMAIN table /\ Walk(guide.state, table[id]) = next_state(guide.state, id)

(* Both guides' masks, then, show what they may go on with.                   *)
MaskShowsTokens == LegacyMaskShows /\ TableServesIndex

===============================================================================
