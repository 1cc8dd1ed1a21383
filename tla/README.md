# A TLA+ model of OC-Sidememory

OC-Sidememory constrains a language model's output to a JSON schema. A finite
automaton over tokens proposes candidates; a *guide* removes those that would
break a stateful rule (`uniqueItems`, counted `contains`, captures and relations
between properties, imported sets). To answer "would this token be legal?" the
guide really takes the token, byte by byte, and undoes it from journals. This
directory holds TLA+ modules of that machinery, the TLC configurations that check
them on small instances, and TLAPS proofs that hold for every instance.

Paths below are relative to `src/crates/core/src/` unless they begin with `src/`.

## Inventory

| component | state it keeps | operations | who it interacts with |
|---|---|---|---|
| **Guide** (`sidememory/guide.rs`, `simulation.rs`, `rollback.rs`, `journal.rs`, `state.rs`) | automaton state, lifecycle, cursor, router, semantic stores, three undo journals, window of checkpoints, ledger, committed trace | `probe`, `advance`, `probe_sequence`, `allowed_tokens`/`write_mask`, `is_accepting`, `rollback`, `reset` | owns all the components below; `&mut self`, one caller at a time |
| **JSON cursor** (`cursor.rs`, `scope.rs`, `event.rs`) | mode, frame stack, slot table with generations, partial scalar, UTF-8 state, root, arena | `feed_byte_into`, `finish_eos_into`, `restore` | emits events to the guide, records to the cursor journal |
| **Arena** (`canonical.rs`, `value.rs`, `number.rs`) | append-only nodes, bytes, children, entries | `add_*`, `equal`, `fingerprint`, `mark`/`restore` | ids held by cursor, histories, registers |
| **Router** (`router.rs`) | frame stack with schema nodes, pending node, root flag | open, set pending property, complete item/property/root, close, undo | told of every event; records to the router journal |
| **Semantic stores** (`history.rs`, `counter.rs`, `register.rs`) | per-frame sets of values, counters, captured registers | create/insert/close, create/update/close, open/set/close, undo | records to the semantic journal; ids refer into the arena |
| **Constraints** (`constraints/*.rs`) | none (scratch only) | uniqueness, contains, equality, membership | read and write the stores |
| **Contains predicates** (`predicate.rs`) | a scratch of steps and comparisons | one walk through a value and a node | asked by `contains` at every item |
| **Imported memory** (`imports.rs`) | an immutable arena and named exact sets | build, `contains` | read by membership |
| **Structural index** (`index.rs`) | transition table, final states | build; `allowed_tokens`, `next_state`, `is_final_state` | read by the guide |
| **Schema compiler** (`json_schema/*`) | none | JSON schema to automaton regex and memory plan | builds what a guide shares |
| **Python bindings** (`src/crates/python/src/lib.rs`) | DFA-only `Guide` with a bounded cache of earlier states; semantic guide wrapper | `advance`, `rollback_state`, `reset`, masks | callers in Python |
| **Token table, mask bits** (`token_table.rs`, `mask.rs`) | the bytes of every id below the model's width | build, `get`; `set_token`, `clear_padding` | read by the guide beside the index |
| **Batch generation** (`src/oc_sidememory/generator.py`) | one guide per row, committed length | one call per decoding step | the model's logits processor |
| **Vocabulary** (`vocabulary/mod.rs`) | the map of tokens to ids | `try_from`, `try_insert`, `remove`, `len` | read by the index |
| tokenizer files, CLI, kernels, output parsing | none | reading, formatting | not modelled, see below |

Nothing in the core runs concurrently: a guide has one owner. What makes it hard
is that every call is a long chain of small mutations of five structures, any of
which may fail (a constraint, a syntax error, one of some twenty limits, an
allocation), that a failure half-way must be undone exactly from the journals,
that the same journals serve both the undo of the current call and the rollback
window of earlier calls, and that they are compacted in between.

What makes each component correct:

* Guide: calls are atomic; `rollback(n)` returns to exactly the state *n* tokens
  ago; every mark it holds stays valid whatever is compacted; journals do not
  leak; the ledger tells the truth; only a failed restoration poisons.
* Cursor: what it undoes is exactly what it did, at every byte and for every
  error; handles of closed frames are dead; events come in causal order.
* Router and stores: router frames, stores and cursor frames move in lockstep;
  undo is exact; no store outlives its frame; the verdicts at an item or a close
  are the schema's.
* Masks: what is listed is what an advance takes, whatever else was probed, and the
  limit on comparisons is that of one mask.
* Values: two ids are equal exactly when the values are, within an arena and across two;
  a value imported is found exactly when it is in the list.
* Extension plans: what is compiled means what is written; a wrong plan is refused.
* Index and legacy guide: what is offered leads to a text of the pattern and every text is
  reachable; the cached states are the states walked through.
* Batch generation: rows of a batch stay in step with the sequence they decode, and an
  ended row cannot fail the others.

## Modules

### `Journal`, `SequenceLemmas`, `Folding`

What an undo journal is for: `ValueAt(journal, position, current)` is the value a
component had when its journal was `position` records long, `Truncate` is the end
of a restore, `DropFirst` is compaction's `discard_prefix`. The lemmas say how
these three interact (a value at a position survives pushes, truncation above it,
and compaction below it with the position shifted), and what the proofs need of
sequences in general. `Folding` says that the folds of the community modules compute
one element after the other, whatever the operator.

### `Guide`

The engine with every step of a call an action of its own.

| state | code |
|---|---|
| `dfa`, `lifecycle`, `cursor`, `arena`, `router`, `semantic` | `GuideState` |
| `cursorJournal`, `routerJournal`, `semanticJournal` | the three journals |
| `checkpoints`, `trace`, `retained` | `RollbackWindow`, `committed_trace`, `ResourceLedger` |
| `op`, `stage`, `mark`, `token`, `bytesLeft`, `todo`, `candidates`, `reply` | the locals of the call in progress: which call, where it is, the mark it will restore, the token and its remaining bytes, tokens or marks to go, candidates to probe, the decision it carries out through a restore |

A call is `Begin*`, then for each byte `FeedByte` (the preflight and first record),
`CursorRecord*`, `CursorDone`, any `RouterEvent` and `SemanticEvent`, `EventsDone`;
`FinishRun` moves the automaton; then `Commit`, or `UndoWith` a decision and the
four restore steps in the order of `Guide::restore`. `Fail` and `Deny` may happen
at every point where the code can return early, which includes the limits and the
injected failures of debug builds. `Commit` is `push`, `compact` and
`refresh_retained_rollback_bytes` in one: nothing between them can return early
except by poisoning.

Abstractions:

* cursor, router and semantic stores are *values* that move along relations; a
  journal record is the value before the record was pushed. What the records of
  each component do concretely belongs to the component modules of the plan.
* `RestoreMayFail` lets a restoration break: the injected `DuringRestore`, or a
  cursor record that does not apply.
* the arena is its length, and `Reach[s]` the length a semantic state refers into.
* the ledger counts one unit for a record and one for a checkpoint where the code
  counts bytes. The two differ in which sums exceed the limit and in nothing else.
* the revision counter, which only overflow could make visible, is left out.
* calls that return before they change anything (validation errors, a mask of a
  schema without memory plan, `RollbackUnavailable`) are stuttering steps.
* the build is a debug one: it has the committed trace and its limit.

### `GuideContract`, `GuideRefinesContract`

What a caller may rely on, without journals: `now` and the states a rollback can
return to. An advance is one step, a rollback one step, and everything else no
step. `GuideRefinesContract` reads the abstract state off the journals: while a
call holds a mark, the contract is still at the state of that mark; a rollback
takes its one step when it begins.

### `FrameSlots`

The pool of generational handles (`scope.rs`) as operators on a pool: `Allocate`,
`Release`, their undo records, `CanUndo` (what `undo` checks) and `Undo`. Slots
count from 1 here and from 0 in the code. `WellFormed` is the invariant of every
pool these operations build.

### `JsonCursor`

| state | code |
|---|---|
| `cursor` | `JsonCursor`: mode, frames, slots, root, arena, partial bytes, terminated, offset |
| `journal` | `CursorJournal`: the concrete undo records (`RestoreCore`, `TruncatePartial`, `RestorePartial`, `PopOpenedFrame`, `RestoreClosedFrame`, `UndoObjectKey`, `PopArrayValue`, `PopObjectValue`) |
| `marks` | the `CursorJournalMark`s a caller holds, each with a copy of the cursor it must bring back |
| `text`, `log` | ghosts: the bytes fed and the events reported since the start |
| `error` | the `Err` of the last call |

`FeedByte(b)` is `feed_byte_into`, `Finish` is `finish_eos_into`, `Restore(i)` is
`restore` to the i-th mark, `DiscardPrefix` is compaction. Each handler of
`cursor.rs` is an operator of the same name on an *effect*: the cursor so far, the
records pushed so far, the events, and the error that stopped it. The order of
checks, pushes and assignments within a handler is the code's, so an error leaves
exactly the half-changed cursor and the records the code would leave, and only a
restore can follow it, as in `simulation.rs`. `Restored(m)` is a set, empty when a
record does not apply (`InvalidJournalMark`).

Abstractions:

* a byte is a class (`Bytes`): brackets, comma, colon, quote, backslash, some digits, the
  letters an alphabet needs, and of the bytes above 127 one on each side of every
  boundary the decoder tells apart. `true` and `null` are short words, and
  `false` is as `true` is;
* a code point, a surrogate pair and the UTF-8 state are numbers, computed as the code
  computes them; `\u` escapes have the hexadecimal digits 0, 1, 8 and d;
* allocation failures and the width of compact ids stop the same handlers at the same
  points as limits and are left out;
* `Structural` stands for the automaton that is consulted before a token reaches the
  cursor. It matters twice: the cursor would accept a comma before `}`, and the
  patterns never let one through; and a repeated key reaches the cursor only through its
  own interface (`duplicateKeys`), a guide's automaton naming each property once.

### `CanonicalNumber`, `CanonicalArena`

The values themselves. `NumberParts` and `NormalForm` are `number.rs`: a numeral taken
apart, zeros trimmed, the exponent in decimal digits of any length (`add_magnitude`,
`subtract_magnitude`), since two numerals of one value must become one record.
`CanonicalArena` has the four vectors with their spans; an `add_*` is the set of the arenas
it may leave, empty when it refuses. `equal`, `equal_across` and `fingerprint_stream` are
the work lists of `canonical.rs`, written as recursion over ids that refer back.

### `ImportedMemory`

`build_json` on JSON already parsed, which names each set once: every value of every
list goes into one arena, its set keeps it in a bucket by `Hasher` of its fingerprint
stream, unless an equal one is there. `contains` asks with an id of another arena. A value or list that a
limit refuses refuses the whole. `JsonGrammar` lets the cursor read texts against such
sets. Identity and version are metadata and left out.

### `JsonGrammar`

The reference: JSON documents up to a length, each with the value it denotes, built
bottom-up from the grammar of RFC 8259 and Unicode's table of well-formed byte sequences. It
shares no definition of a mode with the cursor, so a mode that leads to the wrong place
shows as a document refused, a text accepted that is none, or a wrong value in the arena.
What a number denotes is computed from its digits, with an exponent that is an integer.

### `Effects`

What the handlers of cursor, router and stores share: an effect carries the error
that stopped it, `Then` goes on with an effect that has none, `Fail` stops one.

### `SemanticStores`

The operations of `history.rs`, `counter.rs` and `register.rs` as operators on a
*memory* (histories, counters, register scopes and the two totals the limits speak
of), each with the record it journals. `StoreCanUndo` is what `undo` checks of a
record before it applies, `StoreUndo` what it does then. A history keeps its values in
buckets by `Fingerprint`, a constant about which nothing is assumed.
`WellFormedMemory` says that the memory is made of such maps and that its totals are
right.

### `SemanticMemory`

| state | code |
|---|---|
| `root` | `SchemaIr::root`; one of several, chosen at the start |
| `schema` | `SchemaIr`, as compiled from the schema and the plan of this root |
| `document` | what the cursor knows: the text, the slots, the open frames with the values read in them, the finished root |
| `router` | `SemanticRouter`: frame stack with schema nodes, pending node, root flag |
| `memory` | `HistoryStore`, `ContainsStore`, `RegisterStore` |
| `routerJournal`, `semanticJournal` | the concrete undo records of both |
| `marks` | the positions in both journals, with a copy of what they must bring back |
| `scratch` | `SimulationScratch`: the comparisons counted, and the limit while a mask runs |
| `mask` | the tokens the mask of this very state lists, or the error that ended it |
| `error` | the violation or error that stopped the last call |

`GivenAssumption` is what the Rust types say of what is given: nodes refer to nodes of the same
vector, enumerations are finite, a node gets its actions only from a plan, and operators
are those of the `enum`.

`Init` compiles: `schema` is what `build` of `Extensions` makes of `Written` and `Plan`. A
root whose plan is refused has no initial state, which is what the runs show of it.

`Take(t)` is what `run_transition` does with one token of the document (an opening, a
key, a scalar, a closing): the cursor reports its events, and `process_pending_events`
hands them in order to the handlers, `ArrayStarted` to `complete_root`, until one is
refused. Within a handler the order of router, uniqueness, counter and register steps is
that of `process_event`; each step journals and then changes, so a refusal leaves a half
changed state and the records to take it back. `Restore` undoes the semantic journal and
then the router's; `DiscardPrefix` is compaction. `WriteMask` is `allowed_tokens` and
`write_mask`: every candidate is processed on the state the one before left, and undone from
its records (`Undid`); a violation leaves it out, any other error ends the mask; the
comparisons add up over the candidates, start at zero and are no longer limited afterwards.

Abstractions:

* the bytes of one token are read together, so all events of a closing (`ArrayEnd`,
  `ItemSealed`) are processed in one step; no call can come between them in the code either;
* `Candidates` stands for the automaton: what `structural.rs` lowers of a node and what
  the patterns of `legacy.rs` then let through: enum before const, members in any order or in
  the schema's, `minItems` and `maxItems`, and no rule that needs memory;
* a canonical id is the value it refers to (which ids are equal is the arena's business);
* a constraint's id is the node it belongs to, of which it has one of each sort;
* every limit and every refused push stops with `LimitExceeded`; the limits on the number
  of candidates and on bytes are left out;
* parent targets, which the router only reports, are left out;
* an array under an unconstrained node has at most `MaxItems` items and an object there
  no members: the router refuses the opening anyway (see Findings);
* an object's property is taken to have a pattern of its own. The pattern of an unconstrained
  node is an alternation without brackets (`legacy.rs:88`), which inside an object
  (`legacy.rs:120`, `148`, `173`) splits the object's pattern instead: `Candidates` does not show
  that, and no checked schema has such a property;
* a missing capture counts as a broken relation, as it does in `SemanticViolation`.

### `Extensions`

`apply` of `extensions.rs` with every check it makes of a plan: the object is found and not
planned twice, the order names each property once, captures have names of their own and
sources that exist, an equality compares with what was captured before by a property of a
compatible type, a membership names a set. Registers are numbered through the whole plan.
What a check refuses makes the result empty; which error it reports is left out.

### `Predicate`

Values, schema nodes, and `validate_predicate`, the walk through a value and a node that
decides what `contains` counts. The order of the tests is the code's, since the steps and
comparisons taken before a mismatch count against the limits. The walk is a recursive
function of the node, the scratch so far and the way through the value to where it stands (positions of items
and members), so that modules with proofs may use it.

### `SchemaValidity`

The reference for verdicts: `Conforms` judges a *whole value* by the schema and the
extension plan as written, without frames, counters, histories or registers, and
`Documents` are all the texts that denote a conforming value. `AcceptedConforms`,
`DeniedIsHopeless` and `MissingOnlyIfOmitted` compare. `Matches` says of a value what `contains`
is to count, and `AcceptedConforms` that `validate_predicate` finds just these in every open array.
`MemoryTellsTruth`, in `SemanticMemory` itself, says what the stores hold: each history lists, by
fingerprint and in order, the items of its array, each counter has how many were read and how
many satisfy the predicate, each scope the value its registers captured last.

### `RegexAutomaton`, `Index`, `LegacyGuide`

| state | code |
|---|---|
| `vocabulary` | `Vocabulary::tokens` |
| `phase`, `pattern`, `vocab_size`, `transitions`, `final_states` | `Index`, and what has become of it |
| `seen`, `next_states` | the locals of `Index::new` |
| `guide` | `PyGuide`: state, `state_cache` and the capacity of its deque |
| `mask` | what the last `write_mask_into` wrote |
| `text`, `earlier` | ghosts: the text the state stands for, and those before each advance |

A vocabulary is edited, an index built from it and a pattern, refused or not, and then
guides come and go. `Expand` is one round of the worklist; the order of a hash map is any
order, and of two tokens that share an id either may win. `RegexAutomaton` is the external
`regex-automata`: leftmost-first, with matches one byte late, which is what the
tests for "useful" and "match" states in `index.rs` are written for. It has bytes in
sequence, repetition and alternation at the top. `Word` is 32 in the code.

### `TokenTable`

`build` of `token_table.rs` with what it refuses (ids beyond the width, an empty token, an id
with two spellings), and the words of a semantic guide's mask. `TableServesIndex` sets it
against the index built from the same vocabulary: the bytes of an id lead where the index
says, or cursor and automaton would follow two texts; and `write_mask` never fails over an id.

### `Generation`

| state | code |
|---|---|
| `call`, `at` | which loop of the call runs, and its row |
| `generated`, `guides` | token ids and guide of each row |
| `committed_length`, `matrix` | `_BatchMaskProcessor` |
| `max_new_tokens`, `pad`, `foreign` | parameters of the call |
| `probed`, `limited` | whether the schema has a memory plan; whether the guides may reach a limit |

A guide takes the tokens of a document one by one (`Takable`), and an advance that raises leaves
it as it was, as `GuideContract` promises. What its mask shows is another set: without a
memory plan the candidates of the automaton (`candidates`) are shown unprobed (`guide.rs:203`),
and `advance` may then raise over one, as the router does (`router.rs:74`). With a plan the
candidates are probed: what is denied is left out, and a probe that raises ends the mask.
An automaton without candidates raises too, and where limits may be reached `advance` and `fill_mask`
may raise over any row (`RefuseRow`, `FailMask`). `Choose` is transformers' loop, external: any token the mask allows, the padding for a
row that ended, and any token at all when another logits processor is in force. A padding
token is assumed not to end a document (`PadEndsNothing`): `_decode` would strip it.

## Runs

| run | checks | shows |
|---|---|---|
| `guide_safety` | `TypeOK`, `MarksOrdered`, `WindowStartsJournals`, `NeverPoisoned`, `LedgerExact`, `NoDanglingReference`, `TraceReplays`, `PredictionExact` | the consistency of marks, journals, window, ledger and arena |
| `guide_contract` | `ImplementsContract`, `CallReturns` | atomicity and exact rollback, also when restorations break; every call returns |
| `guide_no_window` | `WindowStartsJournals` | with `max_rollback_tokens = 0` every commit empties the journals (that the guide is still atomic is `Implements`, proved for every limit) |
| `cursor_documents` | `TypeOK`, `UndoExact`, `HandlesDistinct`, `EventsReplay`, `HeadroomSuffices`, `AcceptsDocuments`, `RejectsNoDocument`, `EqualIsValue` | exactly the documents are accepted, with their values; ids are equal, and found among imported ones, exactly when their values are; every byte and every failure is undone exactly, never at a refused push; handles never repeat; events rebuild the stack |
| `cursor_duplicate_key` | `UndoExact` violated | the first finding below |
| `memory_verdicts` | `RouterFollowsText`, `MemoryTellsTruth`, `UndoExact`, `AcceptedConforms`, `DeniedIsHopeless`, `OnlyRulesStop`, `MissingOnlyIfOmitted`, `MaskStopsAtItsOwnLimit`, `MaskIsAdvance` | router and stores are what the text alone says they must be; accepted is conforming; denied is hopeless; a missing capture was left out by the text; a mask lists what advance takes; nothing else stops a token |
| `memory_anything` | `OnlyRulesStop` violated | the second finding |
| `memory_const_enum` | `AcceptedConforms` violated | the third finding |
| `index_guide` | `TypeOK`, `WorklistExact`, `IndexExact`, `OffersOnlyTexts`, `UnshadowedReachable`, `AcceptsForetells`, `RefusesTheUnusable`, `RollbackReturns`, `MaskShowsTokens` | what an index offers are the texts of the pattern, whatever the order of its construction; a row is what the tokens and the automaton say; the guide's cache brings back the states it names, through resets and pickling; masks show what is offered, and token table and index agree |
| `index_enum` | `EveryTextReachable` violated | the fourth finding |
| `generation` | `RowsInStep`, `EndedRowsNeverFail`, `ReturnedRowsAreDocuments` | the guides keep in step with their rows, an ended row fails no other whatever raises, what is returned for an ended row is a document, unless its end was shown unprobed |
| `generation_cut` | `IncompleteReported` violated | the fifth finding |

Bounds (`MCGuide`): two automaton states, two ordinary tokens and EOS; a window of
two checkpoints (0 in `guide_no_window`), so that a third advance evicts the first
and later rollbacks work on shifted marks; journals of at most four records and a
trace of three tokens, so that limits are hit with a window in place; component
values run round a cycle, so that a record restored from the wrong place gives a
wrong value. In `guide_contract` one token is two bytes wide.

Bounds (`MCCursor`): `Texts` lists eleven inputs, each an alphabet with limits of its own, a
length of text and a number of marks; a behaviour is about one of them.

* `Structure`: all structural bytes, four of them, under two marks, so that a restore skips
  one and a compaction shifts one. `SpacedText`: six bytes with blanks under one mark, which
  reaches three nested frames and a slot reused under its next generation.
* `Scalar`: strings with escapes and control characters, numbers, short words. `Members`:
  twelve bytes, two members of an object, at one level.
* `Character`: one byte on each side of every boundary of well-formed UTF-8, over a
  character of four bytes. `Code`: `\u` escapes of one, two and three bytes beside plain characters; `Pair`:
  sixteen bytes, a high and a low surrogate and every way to break the pair.
* `Numeral`: six bytes of every prefix of a number. `EqualNumbers`: two numbers of an array
  in nine bytes, such as `[10e-1,1]`. `Objects`: two objects side by side with their
  members in either order; both against imported sets in other spellings, with three hash
  buckets for everything.
* `Tight`: every limit at a value that a text of six bytes exceeds; 17 records, so that the
  second byte meets `JournalLimit` unless compaction made room.

`duplicateKeys` is `FALSE` but in `cursor_duplicate_key`, as under a guide. `Tight`,
`Objects` and that run are not `judged` against the grammar, the first because its limits
refuse documents, the others because of their length.

Bounds (`MCMemory`): a guide starts from one of sixteen roots and writes its documents to
the end; `MaxText` is longer than any of them, except of `top`.

* `nested` is up to three sets of up to two letters, none twice; `counted` has `contains`
  in the list and in each item, with lower and upper bounds and a `maxItems` that decides
  when the minimum is out of reach; `pairs` compares objects with an optional member, by
  history and predicate; `trees` has members in any order, scopes within scopes and slots
  reused. `Hash` makes all arrays and objects, and two scalars, collide.
* `record` has optional captured members and all four relations, `chain` compares with what
  was itself compared; `self`, `twice` and `again` have plans that are refused, and so no
  behaviour; `self`, let through, would violate `MissingOnlyIfOmitted`.
* `top` opens every store within another one's frame, with each limit the least that lets
  the text go on: each is met, and undone exactly. `steps`, `depth` and `checks` are
  `counted` with one limit of the predicate too small by one; everywhere else these limits
  are just enough, so that one step too many would show as `OnlyRulesStop` violated.
* `word`, `plain`, `nest` and `record` have masks taken at every state; all but `plain`,
  which has no memory plan, and `record` are limited to one comparison a mask.

Two marks let a restore skip one and a compaction shift one. Where a limit is 9 or 99 it is
never met; which roots may meet one is the constant `Limited`.

Bounds (`MCLegacyGuide`): five patterns, with a loop at the end and at the start, texts one
of which begins the other in both orders of preference, and two that share no beginning;
vocabularies of up to four tokens made from one of three maps and five insertions, which
gives tokens of one and two bytes, a token with two ids, ids shared by two tokens, ids
beyond the size, an empty token, and a map with the end-of-sequence id (refused); a deque
of capacity 0 (which grows to 4) and 2; models narrower than the vocabulary, just wide enough, and
with padding in the last word of three bits; three advances, texts of three bytes, and a
reference of texts up to seven.

Bounds (`MCGeneration`): three rows, budgets of one to five tokens, the documents 1 and 123,
one of which begins the other, dead ends, candidates that a guide denies or raises over (the end
of sequence among them), masks with and without probes, limits in reach or not, and a padding token of its own, the end of
sequence, or a digit that is also a token of documents.

Fairness: `FairSpec`, used by `guide_contract` alone, is weak fairness of `Continue`, what a call does by itself
once it has begun. The code runs a call to its end on the caller's thread; it
never waits for anything. No call is ever obliged to begin.

## Proofs

### The guide

`GuideProofs` proves its theorems for every automaton, every component relation and
every limit; the assumptions are `AutomatonAssumption`, `ComponentAssumption` and
`LimitAssumption` of `Guide`, which TLC evaluates in each run.

`IInv` is the inductive invariant. `MarksOrdered` alone is not inductive: a restore
in progress has already cut one journal and not yet the next, so `RestoreProgress`
says which journals are back at the mark; a commit shifts marks by the oldest one,
so `WindowStartsJournals` must say where that is; the ledger is stale while a call
runs, so `LedgerTracks` says what it stands for until then; and a checkpoint is only
safe to return to if the references it brings back lie in the arena it brings back,
so `NoDanglingReference` speaks of every held mark and not only of the current state.

| theorem | statement |
|---|---|
| `TypeCorrect` | `TypeOK` and `CallShape` always hold |
| `MarksStayOrdered` | no restore meets an invalid mark |
| `JournalsStartAtWindow` | compaction keeps exactly what the window needs |
| `NoPoisoning` | a guide is poisoned only by a restore that breaks |
| `LedgerIsExact` | between calls the ledger is what is held, within its limit |
| `NoReferenceDangles` | semantic references stay inside the arena |
| `PredictionIsExact` | the size checked before the push is the size after compaction |
| `Implements` | the engine implements `GuideContract` |
| `TraceAlwaysReplays` | the automaton is where the committed tokens lead |

`Implements` is the refinement: every step of the engine is a step of the contract or none,
under the mapping of `GuideRefinesContract`. What makes it go through is that the states read
off the journals at each held mark do not move (the lemmas of `SequenceLemmas` on pushes,
cuts and compactions), and `AdvanceFromMark`: what an advance commits is what the automaton
makes of the state at its mark. `TraceAlwaysReplays` rests on the same, with the trace cut at
each mark in place of the journals; that a fold over a longer trace is one more step
is `Folding`.

### Frame handles, arena, stores

`JsonCursorProofs` begins with the operators of `FrameSlots`, for every well-formed pool:
`UndoAllocate` and `UndoRelease` (the record returned applies and gives back the very
pool; a new slot, a reused slot and a released one are the three cases),
`AllocateWellFormed`, `ReleaseWellFormed` (the free list holds every unoccupied slot
once), `AllocateHandsOutNew` and `ReleaseEndsOne` (which handles are live
afterwards). The premise that the handle released is live is what `release_with_undo` checks first.

For `CanonicalArena` it proves that restoring an arena to a mark gives back the arena of the
mark after any additions (`RestoreUndoesAdditions`, with `GrownTransitive` for many of them),
and that an addition moves nothing already there and only refers back: any node published
(`PublishKeepsArena`), a string, an array, and an object (`AddStringKeepsArena`,
`AddArrayKeepsArena`, `AddObjectKeepsArena`), so that ids a mark protects keep their values
and no value contains itself. The members of an object are laid out in every order its
unstable sort may leave (`Sorted` is the set of them), and the spans of its keys follow from
the lengths of those before them, by induction over the members.

### The semantic memory

`SemanticMemoryProofs` and `MemoryTruthProofs`, which goes on from it, are about every schema and
plan that satisfy `GivenAssumption`, every imported set, every fingerprint function and every limit.

| theorem | statement |
|---|---|
| `UndoInsert`, `UndoCloseHistory`, `UndoUpdateCounter`, `UndoSetRegister`, ... | the record of each store operation applies after it and gives back the very memory |
| `UndoInvHolds` | the inductive invariant `UndoInv` always holds |
| `RouterFollowsTextHolds` | after a token that was not refused the router is where the text is |
| `UndoExactHolds` | whatever was refused, masked, restored or compacted, every mark held restores exactly |
| `RecallInvHolds` | the memory, and what every mark brings back, recalls its text (`RecallInv`) |
| `MemoryTellsTruthHolds` | histories, counters, registers and totals say what the open part of the text holds |

* Histories and scopes are maps, so the store theorems are about maps that gain and lose a
  key (`WithoutWith`, `WithWithout`, `WithBack`) and about the sequence that `Insert` extends and undo
  truncates. Their premises are what `IsMemory` says of a memory: it is made of
  such maps, and its totals count what it holds, for undo subtracts from them.
* `Retraces(e, r, m)` says of an effect that its records lead back from where it is to the router
  `r` and the memory `m` the token began with. Each step pushes one record that takes the step
  back; every handler keeps `Retraces`, also where it stops half-way, since nothing is assumed of
  what came before. `process_event` and the folds over events, relations and registers follow.
* `Follows` adds that, if nothing was refused, the router is `RouterOf` the document as read so far.
  This is where the shape of the schema matters: the candidates of a frame are keys of its node, so a
  pending property is found, and a closing finds the frame it closes on top. `BuildFits`
  proves that a compiled plan leaves that shape: it reorders properties and adds actions.
* A mask gives back the router and the memory it began with (`MaskUntouched`), since each candidate
  is `Retraces` and taken back before the next.

`UndoInv` is the schema's shape, `IsMemory`, `FollowsText` unless the last token was refused,
and `MarksLead`: the records since each mark lead from the present state to the mark's, marks lie in
order, and what a mark saved is itself a state that follows its text. `UndoExact` alone says
nothing of how the records came to be right, nor of the state a restore brings back; and a
compaction moves every mark by the length it drops, so that the order of the marks must be known.

`RecallInv` adds to it that the memory `Recalls` what is open, unless the last token was refused,
and that the memory each mark brings back recalls what is open in the mark's document: without the
second part nothing is known after a restore. `Recalls(m, open)` sees the three stores as one
set of slots: those held are those the open frames ask for, no two frames share one, and each
tells what its frame holds (`Tells`). The proof has three parts.

* What a store operation does to a slot (`Sets`, `Drops`), and what one more value does to what a
  history, a counter or a scope tells (`InsertedTells`, `CountedTells`, `CapturedTells`). In a
  history it is that the buckets partition the positions of the array by fingerprint.
* What an event does: an opening adds the slots of a new frame (`Grown`), a closing drops them
  (`Shrunk`), a sealed item or property rewrites those of the last frame (`Rewritten`). An opening
  fails if a slot is there already, which is why slots are never shared.
* What a token does (`TokenRemembers`): a closing is two events, and the second seals
  the value of the closed frame in the frame below, which has become the last.

### The cursor

`JsonCursorProofs` proves the safety properties of `JsonCursor` that
are about the cursor itself, for every set of inputs: any alphabet and length of text, any
limits, any number of marks. The one assumption is `InputsAssumption` (the limit of the
journal is a number of records).

| theorem | statement |
|---|---|
| `CursorInvariant` | the inductive invariant `IInv` always holds |
| `TypeAlways` | stack, slots and arena fit together |
| `UndoAlways` | where no input repeats a key, every mark held restores exactly |
| `UndoUnlessRepeated` | of all inputs, it does unless the last call failed at a repeated key |
| `RepeatedBreaks` | after that failure no mark can be restored |
| `HeadroomAlways` | no push is refused half-way |
| `HandlesAlways` | no two frames ever share a handle |
| `EventsAlways` | the events rebuild the stack |

`UndoExact` speaks of what a restore would do and says nothing of how the records came to be
right, so the argument is about half-finished calls:

* `Fit` is what holds of a cursor at every point of a call, also where it fails: the frames
  hold just the live handles, each frame but the last waits for a value, the arena refers
  back. `CoreFits` is what holds between calls: the mode says what kind of frame is on top and
  whether it has a key, and which UTF-8 state may be kept. A handler breaks it and mends it.
* `Sound(e, n)` says of an effect that its records, at most `n`, lead back to the cursor the
  call began with. The elementary changes (`Pushing`, `Swapping`, `Adding`,
  `Going`, ...) keep it: each pushes a record that takes it back (`Undoes`) or changes only
  what `RestoreCore`, pushed first, and the mark of the arena bring back (`Join`). Nothing is assumed about
  the order of a handler's changes, which is how half-changed cursors are covered.
* Each handler is a lemma that counts its records: a byte pushes at most nine, for which
  sixteen are asked, also when a number ends and the byte is read again; the end of
  the document at most three, for which eight are asked. That gives `HeadroomSuffices`.
* `Stranded` is the exception: a repeated key pushes a record that does not apply, so nothing
  leads back (the first finding). The invariant carries it as `LeadsNowhere`.
* `MarksFit` says that the records since a mark lead from the present cursor to the mark's,
  and those between two marks from the later to the earlier; compaction and restore move both.
* `HandlesDistinct` needs that a handle told is one the pool handed out before
  (`HandedOut`), and that generations only grow; `EventsReplay` that each record of an event
  changes the replayed stack as the handler changed the real one (`Tells`).

`IInv` quantifies over all cursors (what a record takes back does not depend on the parts
`RestoreCore` keeps), so TLC cannot evaluate it; it checks what follows from it.

### Index and batch

`LegacyGuideProofs` proves `WorklistIsExact` and `GuideStaysInIndex` for every pattern and
vocabulary, however the worklist is ordered. The invariant is `BuildInv /\ GuideInv`
(`Invariance`): the states to expand are found, each once, and are those found and not yet
expanded; rows lead to found states; a guide and its cache hold expanded ones, of an index
that no longer changes, in a deque at least as large as its content. A guide can therefore
never be in a state the index has no entry for. That the construction ends follows: each
round expands a state that was not expanded before, and an automaton has finitely many.

`IndexIsExact` says what an index built holds, with the invariant `RowsInv` (each row is exact
while the index is built, the end of sequence being put in last; the vocabulary does not change
meanwhile). It also shows that `Advance`, which names a token leading where the id does, leaves no advance of
the code out. `RollbackAlwaysReturns` is about the cached states: `TextsInv` says that the state, and each
cached one counted from the newest, is where the text before leads, which a cache that drops its
oldest state keeps. That walking over two texts is walking over the one they make is a lemma of
`Folding`. Both need `TokensAreSequences` (a token is a sequence of bytes).

`MasksShowTokens` says for every width of a word and of a model that masks show what is
allowed, for the legacy guide and the semantic one. Its assumptions are that ids, widths and
buffer lengths are numbers (`IdsAreNumbers`, `WidthsNat`, `MaskAssumption`; ids are `u32` in the
code) and a word has bits. `MaskInv` says that a mask shown belongs to the state it was taken
in, and `NumbersInv` that ids in the index and the size of the vocabulary are numbers. A mask is
written id by id; that after each the words show just the ids so far is division
with remainder, and the padding cleared at the end holds no id below the width. The token table has
the bytes of each id that the index moves by since both are built from the same vocabulary, and
one id with two spellings makes the table refuse.

`GenerationProofs` proves the three properties of a batch (`GuidesFollowRows`,
`OnlyLivingRowsFail`, `ReturnsDocuments`) for any number of rows, any documents and dead ends,
any padding and any budget. `GInv` says for every point of a call which rows' guides have taken
the last token and which have not (`UpToDate`, `Behind`), that a mask is that of its row's
tokens when a token is chosen, that a guide stands at a beginning and a terminated one at a
document (`Taken`), and that of a row's tokens only the last can be one that was shown and never
tried (`Written`). The assumptions are `PromptsAssumption` (an empty batch is refused),
`TokensAssumption` (the end of sequence is a token, and in no document; a new guide has
taken something: nothing), `OfferedAssumption` (what is only offered is taken by no guide) and
`PadEndsNothing`.

Model-checked only:

* `AcceptedConforms`, `DeniedIsHopeless`, `MissingOnlyIfOmitted`, which compare with
  recursive definitions over whole values (induction over data);
* `OnlyRulesStop` and `MaskStopsAtItsOwnLimit`, which are about given schemas whose limits suffice;
  and `MaskIsAdvance`, which is about schemas with a memory plan (without one a mask is the
  automaton's candidates, see `Generation`);
* `AcceptsDocuments`, `RejectsNoDocument`, `EqualIsValue`, which compare the cursor with a
  recursive grammar;
* `OffersOnlyTexts`, `UnshadowedReachable`, `AcceptsForetells`, `RefusesTheUnusable`, which compare
  with all texts of a pattern up to a bound;
* `CallReturns` (liveness).

Out of the prover's reach are liveness, `ENABLED`, the library's induction
theorems over an operator, and every module that reaches a `RECURSIVE` operator. Where a proof
needs induction, it is done over a set of naturals defined for the purpose (`Induct`).

## Findings

`finish_string` (`sidememory/cursor.rs:870`) journals an object key and takes its bytes
before it learns that the object already has that key. The undo record then meets an
object without a current key, and the restore that should take the byte back ends in
`InvalidJournalMark`, leaving the cursor half changed; `feed_byte` returns that error in
place of `DuplicateObjectKey`. The test `failed_byte_is_atomic_for_the_convenience_api`
(`src/crates/core/tests/transactions.rs:34`) promises the opposite for any failed byte.
Run `cursor_duplicate_key` shows it: in `{"":1,""` the last quote fails and cannot be
taken back. A guide does not get there, since its automaton names the properties of an
object, each once; users of `JsonCursor` do.

A node without a type may generate an array or object, which the router refuses with an
error, not a denial (`sidememory/router.rs:74`): compilation gives such a node no array or
object in the schema tree, while its pattern admits both. `advance` then fails, and a mask
fails as a whole at the first such candidate (`guide.rs:240`), though "mask construction starts from DFA
candidates and can only remove them" (`src/docs/architecture.md:9`) and boolean schemas are
supported (`src/docs/supported-profile.md:7`). Run `memory_anything` shows it for a list with
`uniqueItems` whose items may be anything, the default of `items`.

A node with both `const` and `enum` generates any member of the enum: the pattern is taken
from the enum (`json_schema/legacy.rs:61`) and nothing looks at the const again, while
`src/docs/supported-profile.md:8` promises "exact scalar `const` and `enum`". Run
`memory_const_enum` accepts a list of a value that is not the const.

An enumeration at the root of a schema becomes an alternation in the order of its values
(`json_schema/legacy.rs:271`), and `Index::new` compiles it with an automaton that is
leftmost-first (`index.rs:111`): where one value begins another, the later one is dropped. With
`"enum": [1, 12]` the value 12 is never offered, while `src/docs/supported-profile.md:8`
promises "exact scalar `const` and `enum`". Run `index_enum` shows it; inside an array or an
object a delimiter follows, and nothing is lost. `UnshadowedReachable` states what holds: every
text of a pattern without such alternatives is reachable.

A row cut off by `max_new_tokens` is recognised only by its text failing to parse
(`src/oc_sidememory/generator.py:303`). The beginning of a number is JSON too: of the document
123 the row `12` is returned, while `src/docs/python-api.md:24` lists "incomplete JSON at the
token limit" as reported. Run `generation_cut` shows it; `ReturnedRowsAreDocuments` states
what holds: a row that ended is a whole document, one cut short a beginning, but for a last
token that an unprobed mask showed.

Seen while modelling, and built into the models as the code has it, without a run of their own:

* a state that reports a match one byte late passes the test at the end of `Index::new`, so a
  guide can run out of tokens one byte past a whole text, as with `1(23)?` and no token for
  `3` (a semantic guide stops there with an internal error); `RefusesTheUnusable` says that this is the only way;
* `write_mask_into` asks for as many bits as the vocabulary has tokens and drops ids beyond
  the buffer, which matters when ids have gaps (`MaskShowsTokens` has the premise);
* a `PyGuide` with `max_rollback = 0` keeps up to four earlier states, a pickled one comes back
  with a window as large as its content, and a rollback after a reset returns to before it;
* the tokens chosen last in a call are never advanced over (`generator.py:123` runs only before
  another choice), so without a memory plan they may be ones that `advance` would refuse
  (`ReturnedRowsAreDocuments` names them);
* `advance` of `PyGuide` has advanced when `get_tokens` then raises;
* of two tokens that share an id the index keeps one transition (`AcceptsForetells` has the
  premise), and a token inserted twice with one id counts twice;
* `__len__` of the vocabulary is documented as excluding the end of sequence and counts it.

## Not modelled, and why

* Parsing and diagnosing schemas (`compile.rs`), and the patterns of strings, numbers and
  formats (`legacy.rs`, `mod.rs`): functions from text to text or to the nodes the models take
  as constants. The structural lowering, as far as it decides what a guide is offered, is
  `Candidates` of `SemanticMemory`.
* Vocabulary from tokenizer files (`processor.rs`, `locator.rs`), the command line, mask kernels
  and output types: input, output and arithmetic on whole arrays.
* The translation of errors in the Python bindings, and their semantic guide, which only
  calls `Guide`.
* The replay of a committed trace (`replay.rs`): `TraceReplays` states what it relies on.
* Limits on bytes and on the number of candidates, which stop where the modelled limits do;
  allocation failures and widths of compact ids.

`PROJECT.json` has the status of each component.

## Plan

Done: the guide with its contract, all safety proved and the refinement too; the cursor with
slots, values and reference, everything but the comparison with the reference proved; the semantic memory with stores, masks, predicates, plans,
reference, and the proofs that undo is exact, the router follows the text and the stores tell what it holds; imported memory; index,
vocabulary, legacy guide and masks, proved but for the comparison with texts; batch generation, proved.

1. `Replay`: the independent replay of a trace against the guide's state.
2. The candidate limits within the mask of `SemanticMemory`.

Abstract specifications worth stating: `GuideContract` (done); a memory that keeps whole
values and recomputes every verdict, implemented by the incremental stores (`MemoryTellsTruth` and
`Conforms` say so state by state); a batch whose rows all stand at the same length.
