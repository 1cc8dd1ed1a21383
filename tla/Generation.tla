------------------------------- MODULE Generation -------------------------------
(***************************************************************************)
(* One call of a Generator (oc_sidememory/generator.py): a guide per row,   *)
(* the logits processor that keeps the guides in step with the rows, and    *)
(* what becomes of the rows.  An advance of a guide happens or leaves it as *)
(* it was (GuideContract): it takes the tokens of a document one by one,    *)
(* and the end of sequence after a whole one.  Its mask is another matter:  *)
(* with a memory plan the candidates of the automaton are probed, without   *)
(* one they are shown as they are.  Both may raise: over a token, or for a   *)
(* limit.  The loop of transformers' generate is external.                  *)
(***************************************************************************)
EXTENDS Naturals, SequencesExt

CONSTANTS
    Rows,        \* how many prompts
    Tokens,      \* the tokens of the model, Eos and those of Pads among them
    Eos,
    Pads,        \* the padding tokens tried; Eos stands for there being none
    Documents,   \* the token sequences of the accepted documents
    DeadEnds,    \* sequences a guide takes although nothing follows them
    Denied,      \* sequences whose last token the automaton offers and a guide denies
    Raising,     \* sequences over whose last token, offered, a guide raises
    Parsed,      \* the token sequences parse_json accepts
    Budgets      \* the values of max_new_tokens tried

ASSUME DocumentsParse == Documents \subseteq Parsed
ASSUME PadEndsNothing == \A d \in Documents : d # <<>> /\ Last(d) \notin Pads
\* An empty batch is refused, and the end of sequence is no token of a vocabulary.
ASSUME PromptsAssumption == Rows \in Nat \ {0}
ASSUME TokensAssumption ==
    /\ Eos \in Tokens /\ Pads \subseteq Tokens
    /\ Documents \union DeadEnds \subseteq Seq(Tokens)
    /\ \A d \in Documents \union DeadEnds : ~Contains(d, Eos)
    \* A new guide has taken the empty sequence.
    /\ Documents \union DeadEnds # {}

Offered == Denied \union Raising

\* No guide takes what is only offered; where the end is, padding does not stand.
ASSUME OfferedAssumption ==
    /\ Offered \subseteq Seq(Tokens) \ {<<>>}
    /\ \A o \in Offered :
         /\ \A d \in Documents \union DeadEnds : ~IsPrefix(o, d)
         /\ Last(o) = Eos => /\ Front(o) \notin Documents \union {<<>>}
                            /\ Last(Front(o)) \notin Pads

VARIABLES
    max_new_tokens,
    pad,               \* the tokenizer's padding token
    foreign,           \* whether other logits processors are in force
    probed,            \* whether the schema has a memory plan, so that masks are probed
    limited,           \* whether the guides may reach their limits
    call,              \* what the call is doing, or how it ended
    at,                \* the row the processor is at
    generated,         \* the tokens generated, row by row
    guides,            \* the guides, row by row
    committed_length,  \* _BatchMaskProcessor._committed_length
    matrix             \* the tokens allowed, row by row

parameters == <<max_new_tokens, pad, foreign, probed, limited>>
vars == <<parameters, call, at, generated, guides, committed_length, matrix>>

Row == 1..Rows
Ended ==
    {"returned", "incomplete", "refused", "unmasked", "no continuation", "unsupported"}

-------------------------------------------------------------------------------
(* A guide.                                                                *)

Beginnings == UNION { Prefixes(d) : d \in Documents \union DeadEnds }

NewGuide == [taken |-> <<>>, terminated |-> FALSE]

\* What advance takes, unless a limit is reached.
Takable(g) ==
    { t \in Tokens : Append(g.taken, t) \in Beginnings }
        \union (IF g.taken \in Documents THEN {Eos} ELSE {})

\* What the automaton offers.
candidates(g) == Takable(g) \union { t \in Tokens : Append(g.taken, t) \in Offered }

\* What a mask shows.
get_tokens(g) == IF probed THEN Takable(g) ELSE candidates(g)

\* An automaton without candidates has no row, and a probe that raises ends the mask.
MaskRaises(g) ==
    \/ candidates(g) = {}
    \/ probed /\ \E t \in Tokens : Append(g.taken, t) \in Raising

advance(g, t) ==
    IF t = Eos THEN [g EXCEPT !.terminated = TRUE] ELSE [g EXCEPT !.taken = Append(@, t)]

-------------------------------------------------------------------------------
(* The processor.                                                          *)

GeneratedLength == Len(generated[1])

Called ==
    /\ call = "called"
    /\ at' = 1
    /\ call' = CASE GeneratedLength = committed_length -> "filling"
                 [] GeneratedLength = committed_length + 1 -> "advancing"
                 [] OTHER -> "unsupported"
    /\ UNCHANGED <<parameters, generated, guides, committed_length, matrix>>

\* Mutant: a terminated guide is advanced too.
TakesAlways(r) == TRUE

Takes(r) == ~guides[r].terminated

Token(r) == Last(generated[r])

AdvanceRow ==
    /\ call = "advancing"
    /\ at \in Row
    /\ Takes(at) => ~guides[at].terminated /\ Token(at) \in Takable(guides[at])
    /\ guides' = IF Takes(at) THEN [guides EXCEPT ![at] = advance(@, Token(at))] ELSE guides
    /\ at' = at + 1
    /\ UNCHANGED <<parameters, call, generated, committed_length, matrix>>

(* The guide raises and is as it was; the rows before it have advanced.      *)
RefuseRow ==
    /\ call = "advancing"
    /\ at \in Row
    /\ Takes(at)
    /\ guides[at].terminated \/ Token(at) \notin Takable(guides[at]) \/ limited
    /\ call' = "refused"
    /\ UNCHANGED <<parameters, at, generated, guides, committed_length, matrix>>

\* Mutant: what the rows have advanced over is not recorded.
CommitNothing ==
    /\ call = "advancing"
    /\ at > Rows
    /\ call' = "filling"
    /\ at' = 1
    /\ UNCHANGED <<parameters, generated, guides, committed_length, matrix>>

Commit ==
    /\ call = "advancing"
    /\ at > Rows
    /\ committed_length' = GeneratedLength
    /\ call' = "filling"
    /\ at' = 1
    /\ UNCHANGED <<parameters, generated, guides, matrix>>

\* Mutant: the mask of a row is computed once.
RowMaskOnce(r) == IF matrix[r] # {} THEN matrix[r] ELSE get_tokens(guides[r])

(* A row that is done may only go on ending.                                *)
RowMask(r) == IF guides[r].terminated THEN {Eos} ELSE get_tokens(guides[r])

FillRow ==
    /\ call = "filling"
    /\ at \in Row
    /\ guides[at].terminated \/ ~MaskRaises(guides[at])
    /\ matrix' = [matrix EXCEPT ![at] = RowMask(at)]
    /\ IF RowMask(at) = {}
       THEN call' = "no continuation" /\ UNCHANGED at
       ELSE call' = (IF at = Rows THEN "choosing" ELSE call) /\ at' = at + 1
    /\ UNCHANGED <<parameters, generated, guides, committed_length>>

(* fill_mask raises, and the call is over for every row.                    *)
FailMask ==
    /\ call = "filling"
    /\ at \in Row
    /\ ~guides[at].terminated /\ (MaskRaises(guides[at]) \/ limited)
    /\ call' = "unmasked"
    /\ UNCHANGED <<parameters, at, generated, guides, committed_length, matrix>>

-------------------------------------------------------------------------------
(* transformers: a token for each row; a row that has ended is padded.  Of   *)
(* the tokens the processor allows another one may have excluded all, and   *)
(* then any token may come.                                                *)

RowEnded(r) == Contains(generated[r], Eos)

Eligible(r) ==
    IF RowEnded(r) THEN {pad} ELSE IF foreign THEN Tokens ELSE matrix[r]

Choose ==
    /\ call = "choosing"
    /\ \E next \in { f \in [Row -> Tokens] : \A r \in Row : f[r] \in Eligible(r) } :
          generated' = [r \in Row |-> Append(generated[r], next[r])]
    /\ call' = IF \/ GeneratedLength + 1 = max_new_tokens
                  \/ \A r \in Row : Contains(generated'[r], Eos)
               THEN "decoding" ELSE "called"
    /\ UNCHANGED <<parameters, at, guides, committed_length, matrix>>

-------------------------------------------------------------------------------
(* _decode.                                                                *)

UpToEos(ids) ==
    IF Contains(ids, Eos) THEN SubSeq(ids, 1, SelectInSeq(ids, LAMBDA t : t = Eos) - 1) ELSE ids

Unpadded(ids) == SubSeq(ids, 1, Max({0} \union { i \in DOMAIN ids : ids[i] # pad }))

Text(r) == Unpadded(UpToEos(generated[r]))

Decode ==
    /\ call = "decoding"
    /\ call' = IF \A r \in Row : Text(r) \in Parsed THEN "returned" ELSE "incomplete"
    /\ UNCHANGED <<parameters, at, generated, guides, committed_length, matrix>>

-------------------------------------------------------------------------------

Init ==
    /\ max_new_tokens \in Budgets
    /\ pad \in Pads
    /\ foreign \in BOOLEAN
    /\ probed \in BOOLEAN
    /\ limited \in BOOLEAN
    /\ call = "called"
    /\ at = 1
    /\ generated = [r \in Row |-> <<>>]
    /\ guides = [r \in Row |-> NewGuide]
    /\ committed_length = 0
    /\ matrix = [r \in Row |-> {}]

Done == call \in Ended /\ UNCHANGED vars

Next ==
    \/ Called \/ AdvanceRow \/ RefuseRow \/ Commit
    \/ FillRow \/ FailMask \/ Choose \/ Decode \/ Done

Spec == Init /\ [][Next]_vars

-------------------------------------------------------------------------------
(* Properties.                                                             *)

(* When the rows choose their tokens, every guide has taken just the tokens  *)
(* of its row up to its end, and the mask of every row is that of its text:  *)
(* what goes on from it, and what is merely offered if nothing was probed.   *)
RowsInStep ==
    call = "choosing" =>
        \A r \in Row :
            LET text == UpToEos(generated[r])
            IN  /\ committed_length = Len(generated[r])
                /\ guides[r] = [taken |-> text, terminated |-> RowEnded(r)]
                /\ matrix[r] = IF RowEnded(r) THEN {Eos}
                               ELSE { t \in Tokens : \/ Append(text, t) \in Beginnings
                                                     \/ t = Eos /\ text \in Documents
                                                     \/ ~probed /\ Append(text, t) \in Offered }

(* A row that has ended never fails the call for the others.  The row over   *)
(* which a guide raises in advance had not ended before the token refused    *)
(* (its end may be what is refused), and the row without a mask has not ended *)
(* at all, whatever raises: a limit, a candidate, another processor's choice. *)
EndedRowsNeverFail ==
    /\ call = "refused" => ~guides[at].terminated /\ ~Contains(Front(generated[at]), Eos)
    /\ call \in {"unmasked", "no continuation"} => ~guides[at].terminated /\ ~RowEnded(at)
    /\ call # "unsupported"

\* The tokens chosen last in a call are never advanced over: a mask alone vouches
\* for them.
Untried(ids) == ~probed /\ ids \in Offered

(* What is returned for a row that ended is a document, whole; for a row cut *)
(* short it is the beginning of one.  The last token alone may be one that a *)
(* mask showed without a probe, and that no guide has tried.                *)
ReturnedRowsAreDocuments ==
    call = "returned" /\ ~foreign =>
        \A r \in Row :
            IF RowEnded(r) THEN Text(r) \in Documents \/ Untried(Append(Text(r), Eos))
            ELSE /\ Len(generated[r]) = max_new_tokens
                 /\ Text(r) \in Beginnings \/ Untried(Text(r))

(* Incomplete JSON at the token limit is reported, never returned.           *)
IncompleteReported ==
    call = "returned" /\ ~foreign => \A r \in Row : Text(r) \in Documents

===============================================================================
