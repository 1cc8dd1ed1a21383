--------------------------------- MODULE Index ---------------------------------
(***************************************************************************)
(* The vocabulary (vocabulary/mod.rs) and the index built from it and from  *)
(* a regular expression (index.rs): which token leads from which state of   *)
(* the automaton to which.  The worklist goes one state at a time; the     *)
(* tokens of a state come in the order of a hash map, so its new states are *)
(* pushed in any order, and of two tokens with one id either may win.       *)
(***************************************************************************)
EXTENDS RegexAutomaton, FiniteSetsExt

CONSTANTS
    Patterns,   \* the regular expressions tried
    Maps,       \* the maps of tokens to ids a vocabulary is made from
    Entries,    \* the tokens, each with an id, that may be inserted
    Eos         \* the end-of-sequence id

ASSUME FiniteMaps == \A tokens \in Maps : IsFiniteSet(DOMAIN tokens)

(* Tokens are sequences of bytes.                                           *)
Spelling(token) == token \in Seq(ToSet(token))

ASSUME TokensAreSequences ==
    /\ \A tokens \in Maps : \A token \in DOMAIN tokens : Spelling(token)
    /\ \A entry \in Entries : Spelling(entry.token)

(* Ids are unsigned numbers.                                                *)
ASSUME IdsAreNumbers ==
    /\ Eos \in Nat
    /\ \A tokens \in Maps : \A token \in DOMAIN tokens : tokens[token] \in Seq(Nat)
    /\ \A entry \in Entries : entry.id \in Nat

VARIABLES
    vocabulary,    \* Vocabulary::tokens
    phase,         \* what has become of the index
    pattern,
    vocab_size, transitions, final_states,   \* Index
    seen, next_states                        \* its worklist

index == <<pattern, vocab_size, transitions, final_states>>
indexVars == <<vocabulary, phase, index, seen, next_states>>

-------------------------------------------------------------------------------
(* Vocabulary.                                                             *)

Ids(tokens) == UNION { ToSet(tokens[token]) : token \in DOMAIN tokens }

(* try_from refuses a map that lists the end-of-sequence id.                *)
Allowed(tokens) == Eos \notin Ids(tokens)

try_insert(tokens, token, id) ==
    [t \in DOMAIN tokens \union {token} |->
        IF t # token THEN tokens[t]
        ELSE Append(IF t \in DOMAIN tokens THEN tokens[t] ELSE <<>>, id)]

(* The end of sequence, which is not among the tokens, counts too.          *)
vocabulary_len(tokens) == MapThenSumSet(LAMBDA t : Len(tokens[t]), DOMAIN tokens) + 1

(* A vocabulary may be changed, and an index built from it, again after one  *)
(* was refused.                                                            *)
Idle == phase \in {"vocabulary", "refused"}

TryInsert(entry) ==
    /\ Idle
    /\ entry.id # Eos
    /\ vocabulary' = try_insert(vocabulary, entry.token, entry.id)
    /\ phase' = "vocabulary"
    /\ UNCHANGED <<index, seen, next_states>>

RemoveToken(token) ==
    /\ Idle
    /\ vocabulary' = [t \in DOMAIN vocabulary \ {token} |-> vocabulary[t]]
    /\ phase' = "vocabulary"
    /\ UNCHANGED <<index, seen, next_states>>

-------------------------------------------------------------------------------
(* Index::new.                                                             *)

WithEntry(map, key, value) ==
    [k \in DOMAIN map \union {key} |-> IF k = key THEN value ELSE map[k]]

Walk(s, token) == FoldLeft(dfa_next_state, s, token)

LeadsOn(s) == \E b \in Onward(s) : ~is_dead_state(dfa_next_state(s, b))

\* Mutant: a match is looked for without the end of the text.
UsefulUndelayed(s) == is_match_state(s) \/ LeadsOn(s)

(* Kept are the states that match at the end of the text or lead on.        *)
Useful(s) == MatchesAtEnd(s) \/ LeadsOn(s)

Skipped(token) == Eos \in ToSet(vocabulary[token])

(* Where each token leads from a state, for the tokens that lead to one worth *)
(* keeping.                                                                *)
Leads(s) ==
    LET to == [token \in DOMAIN vocabulary |-> Walk(s, token)]
    IN  [token \in { t \in DOMAIN vocabulary : ~Skipped(t) /\ Useful(to[t]) } |-> to[token]]

Targets(s) == Range(Leads(s))

(* The rows a state may get: for each id, where one of its tokens leads.     *)
Rows(s) ==
    LET leads == Leads(s)
        ids == UNION { ToSet(vocabulary[token]) : token \in DOMAIN leads }
        choices == [id \in ids |->
                       { leads[t] : t \in { u \in DOMAIN leads : id \in ToSet(vocabulary[u]) } }]
    IN  { row \in [ids -> Range(leads)] : \A id \in ids : row[id] \in choices[id] }

NewIndex(p) ==
    /\ Idle
    /\ phase' = "building"
    /\ pattern' = p
    /\ vocab_size' = vocabulary_len(vocabulary)
    /\ transitions' = <<>>
    /\ final_states' = {}
    /\ seen' = {start_state(p)}
    /\ next_states' = <<start_state(p)>>
    /\ UNCHANGED vocabulary

Current == Last(next_states)

\* Mutant: a byte that leads on will do, whether a token starts with it or not.
HasValidBytes(s) == MatchesAtEnd(s) \/ LeadsOn(s)

HasValidTransitions(s) == MatchesAtEnd(s) \/ DOMAIN Leads(s) # {}

\* Mutant: a state is final when it reports a match, which it does a byte late.
FinalLate(s) == is_match_state(s)

Final(s) == MatchesAtEnd(s)

\* Mutant: a state found before is pushed again.
ExpandAgain ==
    /\ phase = "building"
    /\ next_states # <<>>
    /\ HasValidTransitions(Current) \/ is_match_state(Current)
    /\ \E row \in Rows(Current) : transitions' = WithEntry(transitions, Current, row)
    /\ final_states' = final_states \union (IF Final(Current) THEN {Current} ELSE {})
    /\ seen' = seen \union Targets(Current)
    /\ \E pushed \in SetToSeqs(Targets(Current)) : next_states' = Front(next_states) \o pushed
    /\ UNCHANGED <<vocabulary, phase, pattern, vocab_size>>

Expand ==
    /\ phase = "building"
    /\ next_states # <<>>
    /\ HasValidTransitions(Current) \/ is_match_state(Current)
    /\ \E row \in Rows(Current) : transitions' = WithEntry(transitions, Current, row)
    /\ final_states' = final_states \union (IF Final(Current) THEN {Current} ELSE {})
    /\ seen' = seen \union Targets(Current)
    /\ \E pushed \in SetToSeqs(Targets(Current) \ seen) :
          next_states' = Front(next_states) \o pushed
    /\ UNCHANGED <<vocabulary, phase, pattern, vocab_size>>

(* IncompatibleVocabulary.                                                  *)
Refuse ==
    /\ phase = "building"
    /\ next_states # <<>>
    /\ ~HasValidTransitions(Current) /\ ~is_match_state(Current)
    /\ phase' = "refused"
    /\ UNCHANGED <<vocabulary, index, seen, next_states>>

\* Mutant: only a state with a token is given it.
WithEosIfRow(row, s) ==
    IF s \in final_states /\ row # <<>> THEN WithEntry(row, Eos, s) ELSE row

(* From its final states the index takes the end of sequence.               *)
WithEos(row, s) == IF s \in final_states THEN WithEntry(row, Eos, s) ELSE row

Built ==
    /\ phase = "building"
    /\ next_states = <<>>
    /\ phase' = "built"
    /\ transitions' = [s \in DOMAIN transitions |-> WithEos(transitions[s], s)]
    /\ UNCHANGED <<vocabulary, pattern, vocab_size, final_states, seen, next_states>>

(* An entry is there for a state with a token.                              *)
allowed_tokens(s) == IF s \in DOMAIN transitions THEN DOMAIN transitions[s] ELSE {}

\* Mutant: the end of sequence is a token as any other.
HasNextStateEos(s, id) == id \in allowed_tokens(s)

HasNextState(s, id) == id # Eos /\ id \in allowed_tokens(s)
next_state(s, id) == transitions[s][id]

-------------------------------------------------------------------------------

NoPattern == <<>>

IndexInit ==
    /\ vocabulary \in { tokens \in Maps : Allowed(tokens) }
    /\ phase = "vocabulary"
    /\ pattern = NoPattern
    /\ vocab_size = 0
    /\ transitions = <<>>
    /\ final_states = {}
    /\ seen = {}
    /\ next_states = <<>>

Build == Expand \/ Refuse \/ Built

IndexNext ==
    \/ \E entry \in Entries : TryInsert(entry)
    \/ \E token \in DOMAIN vocabulary : RemoveToken(token)
    \/ \E p \in Patterns : NewIndex(p)
    \/ Build

===============================================================================
