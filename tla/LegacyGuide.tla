------------------------------ MODULE LegacyGuide ------------------------------
(***************************************************************************)
(* The guide that walks an index alone (PyGuide, python/lib.rs): a state    *)
(* and a cache of earlier states, of the capacity its deque has.           *)
(*                                                                         *)
(* The index is built first; then guides come and go on it, one at a time. *)
(***************************************************************************)
EXTENDS Index

CONSTANTS
    Rollbacks,    \* the values of max_rollback tried
    Word,         \* tokens to an element of a mask; 32 in the code
    Buffers,      \* the sizes of a buffer tried, in elements
    MaxText,      \* bounds of the model: how long a text,
    MaxEarlier,   \* how many advances to roll back,
    MaxSequence,  \* how long a sequence to look ahead at,
    MaxVocabulary,\* how many tokens are explored,
    Horizon       \* and how long the texts of a pattern may be

ASSUME RollbacksNat == Rollbacks \subseteq Nat

ASSUME MaskAssumption == Word \in Nat \ {0} /\ Buffers \subseteq Nat

VARIABLES
    guide,     \* PyGuide, or NoGuide
    mask,      \* the tokens the last mask shows, or NoMask
    text,      \* ghost: the bytes of the guide's tokens, as its state stands for them
    earlier    \* ghost: the texts before its advances that were not rolled back

guideVars == <<guide, mask, text, earlier>>
vars == <<indexVars, guideVars>>

NoGuide == [held |-> FALSE]
HasGuide == guide.held

NoMask == [shown |-> FALSE, tokens |-> {}]

(* VecDeque grows to this when something is pushed into one of capacity 0.   *)
MinCapacity == 4

initial_state == start_state(pattern)

NewGuide(max_rollback) ==
    /\ phase = "built" /\ ~HasGuide
    /\ guide' = [held |-> TRUE, state |-> initial_state, state_cache |-> <<>>, capacity |-> max_rollback]
    /\ mask' = NoMask
    /\ text' = <<>>
    /\ earlier' = <<>>
    /\ UNCHANGED indexVars

\* Mutant: room is made one state late.
FullLate(g) == Len(g.state_cache) > g.capacity

Full(g) == Len(g.state_cache) = g.capacity

\* Mutant: the newest state is dropped to make room.
RoomDropsNewest(g) == IF Full(g) /\ g.state_cache # <<>> THEN Front(g.state_cache) ELSE g.state_cache

Room(g) == IF Full(g) /\ g.state_cache # <<>> THEN Tail(g.state_cache) ELSE g.state_cache

Cached(g) ==
    [g EXCEPT !.state_cache = Append(Room(g), g.state),
              !.capacity = IF @ = 0 THEN MinCapacity ELSE @]

(* The token whose bytes lead to the state an id leads to.                  *)
Advance(id, token) ==
    /\ HasGuide
    /\ HasNextState(guide.state, id)
    /\ token \in DOMAIN Leads(guide.state) /\ id \in ToSet(vocabulary[token])
    /\ next_state(guide.state, id) = Walk(guide.state, token)
    /\ Len(text) + Len(token) <= MaxText /\ Len(earlier) < MaxEarlier
    /\ guide' = [Cached(guide) EXCEPT !.state = next_state(guide.state, id)]
    /\ text' = text \o token
    /\ earlier' = Append(earlier, text)
    /\ mask' = NoMask
    /\ UNCHANGED indexVars

\* Mutant: the state of the oldest of the steps taken back is skipped.
CacheIndexOneOff(n, cache) == IF n < Len(cache) THEN Len(cache) - n ELSE 1

CacheIndex(n, cache) == Len(cache) - n + 1

rollback_state(n) ==
    /\ HasGuide
    /\ n \in 1..Len(guide.state_cache)
    /\ LET i == CacheIndex(n, guide.state_cache)
       IN  guide' = [guide EXCEPT !.state = guide.state_cache[i],
                                  !.state_cache = SubSeq(@, 1, i - 1)]
    /\ text' = earlier[Len(earlier) - n + 1]
    /\ earlier' = SubSeq(earlier, 1, Len(earlier) - n)
    /\ mask' = NoMask
    /\ UNCHANGED indexVars

(* The cache stays: a rollback after a reset returns to before it.           *)
Reset ==
    /\ HasGuide
    /\ guide' = [guide EXCEPT !.state = initial_state]
    /\ text' = <<>>
    /\ mask' = NoMask
    /\ UNCHANGED <<indexVars, earlier>>

(* __reduce__ and from_binary: the deque comes back as large as its content. *)
Pickle ==
    /\ HasGuide
    /\ guide' = [guide EXCEPT !.capacity = Len(guide.state_cache)]
    /\ mask' = NoMask
    /\ UNCHANGED <<indexVars, text, earlier>>

\* Mutant: only whole elements are asked for.
ExpectedElementsRoundedDown == vocab_size \div Word

ExpectedElements == (vocab_size + Word - 1) \div Word

(* A buffer too small is refused; tokens past its end are left out.          *)
WriteMask(numel) ==
    /\ HasGuide
    /\ numel >= ExpectedElements
    /\ mask' = [shown |-> TRUE,
                tokens |-> { id \in allowed_tokens(guide.state) : id \div Word < numel }]
    /\ UNCHANGED <<indexVars, guide, text, earlier>>

accepts_tokens(sequence) ==
    FoldLeft(LAMBDA states, id :
                { next_state(s, id) : s \in { r \in states : HasNextState(r, id) } },
             {guide.state}, sequence) # {}

is_finished == guide.state \in final_states

-------------------------------------------------------------------------------

Init ==
    /\ IndexInit
    /\ guide = NoGuide
    /\ mask = NoMask
    /\ text = <<>>
    /\ earlier = <<>>

Prepare ==
    /\ IndexNext
    /\ vocabulary' # vocabulary => vocabulary_len(vocabulary') <= MaxVocabulary
    /\ UNCHANGED guideVars

Next ==
    \/ Prepare
    \/ \E n \in Rollbacks : NewGuide(n)
    \/ \E id \in Ids(vocabulary) : \E token \in DOMAIN vocabulary : Advance(id, token)
    \/ \E n \in 1..MaxEarlier : rollback_state(n)
    \/ Reset
    \/ Pickle
    \/ \E numel \in Buffers : WriteMask(numel)

Spec == Init /\ [][Next]_vars

-------------------------------------------------------------------------------
(* Properties.                                                             *)

(* Type invariant: the guide and its cache are states the index was built    *)
(* for, and the cache is no larger than its deque.                          *)
TypeOK ==
    /\ phase \in {"vocabulary", "building", "built", "refused"}
    /\ HasGuide =>
          /\ phase = "built"
          /\ {guide.state} \union ToSet(guide.state_cache) \subseteq DOMAIN transitions
          /\ Len(guide.state_cache) <= guide.capacity

(* The worklist holds each state found and not yet expanded, once; so it      *)
(* empties after as many steps as the automaton has states, and an index    *)
(* built has every state one of its transitions leads to.                   *)
WorklistExact ==
    /\ phase \in {"building", "built"} =>
          /\ IsInjective(next_states)
          /\ ToSet(next_states) = seen \ DOMAIN transitions
          /\ DOMAIN transitions \subseteq seen
          /\ initial_state \in seen
    /\ phase = "built" =>
          \A s \in DOMAIN transitions : Range(transitions[s]) \subseteq DOMAIN transitions

(* What an index built holds is what the vocabulary and the automaton say,   *)
(* wherever its states were found: a state offers the ids of the tokens that *)
(* lead on, each to where one of its tokens leads, and the end of sequence   *)
(* where a text may end.                                                    *)
IdsOnward(s) == UNION { ToSet(vocabulary[token]) : token \in DOMAIN Leads(s) }

IndexExact ==
    phase = "built" =>
        /\ final_states = { s \in DOMAIN transitions : MatchesAtEnd(s) }
        /\ \A s \in DOMAIN transitions :
              /\ allowed_tokens(s) =
                    IdsOnward(s) \union (IF s \in final_states THEN {Eos} ELSE {})
              /\ \A id \in allowed_tokens(s) \ {Eos} :
                    \E token \in DOMAIN Leads(s) :
                        id \in ToSet(vocabulary[token]) /\ next_state(s, id) = Walk(s, token)

(* The reference: the texts of the pattern, and the texts they begin with.    *)
Texts == [p \in Patterns |-> Language(p, Horizon)]
Beginnings == [p \in Patterns |-> UNION { Prefixes(t) : t \in Texts[p] }]

IsText(t) == t \in Texts[pattern]
Begins(t) == t \in Beginnings[pattern]
Shadowing == [p \in Patterns |-> Shadows(p, Horizon)]

Continuing(t) == { id \in Ids(vocabulary) :
                      \E token \in DOMAIN vocabulary :
                          id \in ToSet(vocabulary[token]) /\ Begins(t \o token) }
Offered(t) == Continuing(t) \union (IF IsText(t) THEN {Eos} ELSE {})

(* What a guide offers after a text are tokens that lead to a text of the     *)
(* pattern, whatever the order in which its states were found.              *)
OffersOnlyTexts ==
    HasGuide =>
        /\ Begins(text)
        /\ is_finished => IsText(text)
        /\ allowed_tokens(guide.state) \subseteq Offered(text)

(* Every token that leads to a text of the pattern is offered, and the end   *)
(* of sequence where the text may end.                                      *)
EveryTextReachable ==
    HasGuide =>
        /\ is_finished = IsText(text)
        /\ allowed_tokens(guide.state) = Offered(text)

(* It is so but for the texts a preferred alternative cuts off.              *)
UnshadowedReachable == HasGuide /\ ~Shadowing[pattern] => EveryTextReachable

(* accepts_tokens foretells whether the tokens can be advanced over, but for  *)
(* ids that two tokens share: of these the index keeps one.                  *)
Unambiguous ==
    \A t, u \in DOMAIN vocabulary :
        t # u => ToSet(vocabulary[t]) \cap ToSet(vocabulary[u]) = {}

Spelt(sequence) ==
    { tokens \in [DOMAIN sequence -> DOMAIN vocabulary] :
        \A i \in DOMAIN sequence : sequence[i] \in ToSet(vocabulary[tokens[i]]) }

AcceptsForetells ==
    HasGuide /\ ~Shadowing[pattern] =>
        \A sequence \in BoundedSeq(Ids(vocabulary) \union {Eos}, MaxSequence) :
            LET foretold == \E tokens \in Spelt(sequence) : Begins(text \o FlattenSeq(tokens))
            IN  /\ accepts_tokens(sequence) => foretold
                /\ foretold /\ Unambiguous => accepts_tokens(sequence)

(* A vocabulary is refused only when after some text that is not whole none  *)
(* of its tokens goes on.  When it is not refused, a guide runs out of       *)
(* tokens only one byte past a text that was whole (a match is reported one  *)
(* byte late, and a state that reports one is let pass).                    *)
RefusesTheUnusable ==
    /\ phase = "refused" /\ ~Shadowing[pattern] =>
          \E t \in Beginnings[pattern] : ~IsText(t) /\ Continuing(t) = {}
    /\ HasGuide /\ allowed_tokens(guide.state) = {} => text # <<>> /\ IsText(Front(text))

(* A rollback of any length the cache allows returns to the state of the     *)
(* text before that many advances, through resets and pickling.             *)
StateAfter(t) == Walk(initial_state, t)

RollbackReturns ==
    HasGuide =>
        LET cache == guide.state_cache
        IN  /\ guide.state = StateAfter(text)
            /\ Len(cache) <= Len(earlier)
            /\ \A n \in 1..Len(cache) :
                  cache[Len(cache) - n + 1] = StateAfter(earlier[Len(earlier) - n + 1])

===============================================================================
