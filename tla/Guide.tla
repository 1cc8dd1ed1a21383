-------------------------------- MODULE Guide --------------------------------
(***************************************************************************)
(* The transactional engine of a Guide: probe, advance, probe_sequence,    *)
(* mask, rollback and reset over three undo journals and a bounded window  *)
(* of checkpoints (guide.rs, simulation.rs, rollback.rs, journal.rs).      *)
(*                                                                         *)
(* A Guide is owned by one caller (&mut self), so calls never overlap; a   *)
(* call, though, is many steps, any of which may fail, and the failure is  *)
(* undone from the journals.  Here every such step is an action.           *)
(*                                                                         *)
(* The cursor, the router and the semantic stores are values that move     *)
(* along the relations CursorStep, RouterStep and SemanticStep; a journal  *)
(* record is the value the component had before the record was pushed.     *)
(* The arena is append-only, so its length stands for its content.         *)
(***************************************************************************)
EXTENDS Integers, SequencesExt, Journal

CONSTANTS
  DfaStates, InitialDfa, FinalDfa,      \* the structural automaton
  Tokens, Eos,                          \* ordinary tokens, the EOS token
  Delta,                                \* <<state, token>> -> state, partial
  Width,                                \* bytes of each ordinary token
  CursorStates, InitialCursor, CursorStep,
  RouterStates, InitialRouter, RouterStep,
  SemanticStates, InitialSemantic, SemanticStep,
  Reach,                                \* arena length a semantic state refers into
  MaxRollback,                          \* max_rollback_tokens
  MaxRecords,                           \* max_journal_records, of each journal
  MaxRetained,                          \* max_retained_rollback_bytes, in records and marks
  MaxTrace,                             \* max_debug_trace_tokens
  MaxArena,                             \* max_arena_nodes
  ByteHeadroom, EosHeadroom,            \* records reserved before a byte, before EOS
  MaxSequence,                          \* longest list given to probe_sequence
  RestoreMayFail                        \* whether a restore may break

AllTokens == Tokens \union {Eos}
Lifecycles == {"Active", "Terminated", "Poisoned"}

ASSUME AutomatonAssumption ==
  /\ InitialDfa \in DfaStates
  /\ FinalDfa \subseteq DfaStates
  /\ Eos \notin Tokens
  /\ DOMAIN Delta \subseteq DfaStates \X Tokens
  /\ Delta \in [DOMAIN Delta -> DfaStates]
  /\ Width \in [Tokens -> Nat]

ASSUME ComponentAssumption ==
  /\ InitialCursor \in CursorStates
  /\ InitialRouter \in RouterStates
  /\ InitialSemantic \in SemanticStates
  /\ CursorStep \subseteq CursorStates \X CursorStates
  /\ RouterStep \subseteq RouterStates \X RouterStates
  /\ SemanticStep \subseteq SemanticStates \X SemanticStates
  /\ Reach \in [SemanticStates -> Nat]
  /\ Reach[InitialSemantic] = 0

ASSUME LimitAssumption ==
  /\ MaxRollback \in Nat
  /\ MaxRecords \in Nat
  /\ MaxRetained \in Nat
  /\ MaxTrace \in Nat
  /\ MaxArena \in Nat
  /\ ByteHeadroom \in Nat \ {0}
  /\ EosHeadroom \in Nat \ {0}
  /\ MaxSequence \in Nat
  /\ RestoreMayFail \in BOOLEAN

VARIABLES
  dfa, lifecycle, cursor, arena, router, semantic,   \* GuideState
  cursorJournal, routerJournal, semanticJournal,
  checkpoints,      \* RollbackWindow: TokenMarks, oldest first
  trace,            \* committed_trace
  retained,         \* ledger.retained_rollback_bytes
  op,               \* the call in progress, "none" between calls
  stage,            \* the point it has reached
  mark,             \* the TokenMark it will restore
  token, bytesLeft, \* the token in run_transition, its bytes still to feed
  todo,             \* tokens a sequence may still take, marks a rollback still pops
  candidates,       \* tokens a mask has still to probe
  reply             \* the decision carried through a restore

state    == <<dfa, lifecycle, cursor, arena, router, semantic>>
journals == <<cursorJournal, routerJournal, semanticJournal>>
window   == <<checkpoints, trace, retained>>
call     == <<op, stage, mark, token, bytesLeft, todo, candidates, reply>>
vars     == <<state, journals, window, call>>

-----------------------------------------------------------------------------
(* Marks, the ledger and compaction.                                       *)

TokenMark ==
  [dfa : DfaStates, lifecycle : Lifecycles, cursor : Nat, arena : Nat,
   router : Nat, semantic : Nat, traceLen : Nat]

InitialMark ==
  [dfa |-> InitialDfa, lifecycle |-> "Active", cursor |-> 0, arena |-> 0,
   router |-> 0, semantic |-> 0, traceLen |-> 0]

CurrentMark ==
  [dfa |-> dfa, lifecycle |-> lifecycle, cursor |-> Len(cursorJournal),
   arena |-> arena, router |-> Len(routerJournal),
   semantic |-> Len(semanticJournal), traceLen |-> Len(trace)]

\* Ledger units: one for each journal record and one for each checkpoint.
Charge(start, marks) ==
  (Len(cursorJournal) - start.cursor) + (Len(routerJournal) - start.router)
    + (Len(semanticJournal) - start.semantic) + marks

RetainedLenAfterPush ==
  IF Len(checkpoints) + 1 < MaxRollback THEN Len(checkpoints) + 1 ELSE MaxRollback

\* Mutant of RetainedStartAfterPush: charges from the checkpoint about to go.
RetainedStartBeforePush(m) == IF checkpoints = <<>> THEN m ELSE checkpoints[1]

RetainedStartAfterPush(m) ==
  IF Len(checkpoints) < MaxRollback
  THEN IF checkpoints = <<>> THEN m ELSE checkpoints[1]
  ELSE IF Len(checkpoints) > 1 THEN checkpoints[2] ELSE m

RetainedAfterPush(m) ==
  IF MaxRollback = 0 THEN 0
  ELSE Charge(RetainedStartAfterPush(m), RetainedLenAfterPush)

\* Mutant of Refreshed: the checkpoints themselves are not charged.
RefreshedWithoutMarks ==
  IF checkpoints = <<>> THEN 0 ELSE Charge(InitialMark, 0)

Refreshed ==
  IF checkpoints = <<>> THEN 0 ELSE Charge(InitialMark, Len(checkpoints))

\* Mutant of KeptAfterPush: compact never pops the oldest checkpoint.
KeptWithoutPop(m) == Append(checkpoints, m)

\* Mutant of KeptAfterPush: a full window loses the new mark, not the oldest.
KeptPopBack(m) ==
  IF Len(checkpoints) = MaxRollback THEN checkpoints ELSE Append(checkpoints, m)

\* The window after push(m) and the front pops of compact.
KeptAfterPush(m) ==
  LET pushed == IF MaxRollback = 0 THEN checkpoints ELSE Append(checkpoints, m)
  IN  IF Len(pushed) > MaxRollback
      THEN DropFirst(pushed, Len(pushed) - MaxRollback)
      ELSE pushed

\* Mutants of CompactPrefix: the prefix ends at the newest checkpoint; nothing
\* is dropped; nothing is dropped when no checkpoint is kept.
CompactToNewest(kept) == IF kept = <<>> THEN CurrentMark ELSE kept[Len(kept)]
CompactNothing(kept) == InitialMark
CompactUnlessEmpty(kept) == IF kept = <<>> THEN InitialMark ELSE kept[1]

CompactPrefix(kept) == IF kept = <<>> THEN CurrentMark ELSE kept[1]

\* Mutant of Shift: the router mark keeps its old position.
ShiftWithoutRouter(m, prefix) ==
  [m EXCEPT !.cursor = @ - prefix.cursor, !.semantic = @ - prefix.semantic]

Shift(m, prefix) ==
  [m EXCEPT !.cursor = @ - prefix.cursor,
            !.router = @ - prefix.router,
            !.semantic = @ - prefix.semantic]

\* No discard_prefix and no shift of this compaction meets an invalid mark.
Compactable(kept, prefix) ==
  /\ prefix.cursor <= Len(cursorJournal)
  /\ prefix.router <= Len(routerJournal)
  /\ prefix.semantic <= Len(semanticJournal)
  /\ \A i \in 1..Len(kept) :
       /\ prefix.cursor <= kept[i].cursor
       /\ prefix.router <= kept[i].router
       /\ prefix.semantic <= kept[i].semantic

-----------------------------------------------------------------------------
(* Calls.                                                                  *)

\* validate_token: the token is a candidate of the current automaton state.
Structural(t) ==
  /\ lifecycle = "Active"
  /\ IF t = Eos THEN dfa \in FinalDfa ELSE <<dfa, t>> \in DOMAIN Delta

Successor(t) == IF t = Eos THEN dfa ELSE Delta[<<dfa, t>>]

Headroom == IF token = Eos THEN EosHeadroom ELSE ByteHeadroom

\* Feeding a token's bytes; EOS runs finish_eos_into once.
StartTransition(t) ==
  /\ token' = t
  /\ bytesLeft' = IF t = Eos THEN 1 ELSE Width[t]
  /\ stage' = "byte"

Return ==
  /\ op' = "none" /\ stage' = "idle" /\ mark' = InitialMark
  /\ token' = Eos /\ bytesLeft' = 0 /\ todo' = 0
  /\ candidates' = {} /\ reply' = "none"

\* Mutant of RestoreOrder: the arena is rewound before the semantic stores.
RestoreOrderArenaFirst ==
  [begin |-> "restoreCursor", restoreCursor |-> "restoreSemantic",
   restoreSemantic |-> "restoreRouter", restoreRouter |-> "restoreRest"]

\* Semantic references go before the arena they refer into is rewound.
RestoreOrder ==
  [begin |-> "restoreSemantic", restoreSemantic |-> "restoreRouter",
   restoreRouter |-> "restoreCursor", restoreCursor |-> "restoreRest"]

\* Leave the transition with `decision`; the mark is restored on the way out.
UndoWith(decision) ==
  /\ stage' = RestoreOrder.begin
  /\ reply' = decision
  /\ UNCHANGED <<op, mark, token, bytesLeft, todo, candidates>>

\* A restoration that meets an invalid mark poisons the guide and returns.
Poison ==
  /\ lifecycle' = "Poisoned"
  /\ Return

Init ==
  /\ dfa = InitialDfa /\ lifecycle = "Active"
  /\ cursor = InitialCursor /\ arena = 0
  /\ router = InitialRouter /\ semantic = InitialSemantic
  /\ cursorJournal = <<>> /\ routerJournal = <<>> /\ semanticJournal = <<>>
  /\ checkpoints = <<>> /\ trace = <<>> /\ retained = 0
  /\ op = "none" /\ stage = "idle" /\ mark = InitialMark
  /\ token = Eos /\ bytesLeft = 0 /\ todo = 0
  /\ candidates = {} /\ reply = "none"

BeginProbe(t) ==
  /\ stage = "idle" /\ Structural(t)
  /\ op' = "probe" /\ mark' = CurrentMark
  /\ StartTransition(t)
  /\ UNCHANGED <<state, journals, window, todo, candidates, reply>>

BeginAdvance(t) ==
  /\ stage = "idle" /\ Structural(t)
  /\ Len(trace) < MaxTrace
  /\ op' = "advance" /\ mark' = CurrentMark
  /\ StartTransition(t)
  /\ UNCHANGED <<state, journals, window, todo, candidates, reply>>

BeginSequence(n) ==
  /\ stage = "idle" /\ lifecycle = "Active"
  /\ op' = "sequence" /\ mark' = CurrentMark /\ stage' = "next" /\ todo' = n
  /\ UNCHANGED <<state, journals, window, token, bytesLeft, candidates, reply>>

\* The next token of the list, or the EOS of `finish`: fed without a commit.
SequenceToken(t) ==
  /\ stage = "next" /\ op = "sequence" /\ todo > 0 /\ Structural(t)
  /\ todo' = todo - 1
  /\ StartTransition(t)
  /\ UNCHANGED <<state, journals, window, op, mark, candidates, reply>>

SequenceRejected(t) ==
  /\ stage = "next" /\ op = "sequence" /\ todo > 0 /\ ~Structural(t)
  /\ UndoWith("error")
  /\ UNCHANGED <<state, journals, window>>

SequenceEnd ==
  /\ stage = "next" /\ op = "sequence"
  /\ UndoWith("allow")
  /\ UNCHANGED <<state, journals, window>>

BeginMask ==
  /\ stage = "idle" /\ lifecycle = "Active"
  /\ op' = "mask" /\ stage' = "next"
  /\ candidates' = {t \in AllTokens : Structural(t)}
  /\ UNCHANGED <<state, journals, window, mark, token, bytesLeft, todo, reply>>

\* Mutant of MaskProbe: the candidate is not taken off the list.
MaskProbeAgain(t) ==
  /\ stage = "next" /\ op = "mask" /\ t \in candidates /\ Structural(t)
  /\ mark' = CurrentMark
  /\ StartTransition(t)
  /\ UNCHANGED <<state, journals, window, op, todo, candidates, reply>>

MaskProbe(t) ==
  /\ stage = "next" /\ op = "mask" /\ t \in candidates /\ Structural(t)
  /\ candidates' = candidates \ {t}
  /\ mark' = CurrentMark
  /\ StartTransition(t)
  /\ UNCHANGED <<state, journals, window, op, todo, reply>>

\* All candidates are probed, or a limit of the mask itself ends it early.
MaskEnd ==
  /\ stage = "next" /\ op = "mask"
  /\ Return
  /\ UNCHANGED <<state, journals, window>>

-----------------------------------------------------------------------------
(* run_transition: the bytes of one token.                                 *)

CursorPush(new, length) ==
  /\ <<cursor, new>> \in CursorStep
  /\ cursorJournal' = Append(cursorJournal, cursor)
  /\ cursor' = new
  /\ arena' = length
  /\ UNCHANGED <<dfa, lifecycle, router, semantic, routerJournal, semanticJournal, window>>

\* preflight and the RestoreCore record of feed_byte_into / finish_eos_into.
FeedByte(new) ==
  /\ stage = "byte" /\ bytesLeft > 0
  /\ Len(cursorJournal) + Headroom <= MaxRecords
  /\ CursorPush(new, arena)
  /\ stage' = "cursor"
  /\ UNCHANGED <<op, mark, token, bytesLeft, todo, candidates, reply>>

\* A further record of the same byte; values may be published in the arena.
CursorRecord(new, length) ==
  /\ stage = "cursor" /\ Len(cursorJournal) < MaxRecords
  /\ CursorPush(new, length)
  /\ UNCHANGED call

CursorDone ==
  /\ stage = "cursor"
  /\ stage' = "events"
  /\ UNCHANGED <<state, journals, window, op, mark, token, bytesLeft, todo, candidates, reply>>

RouterEvent(new) ==
  /\ stage = "events" /\ Len(routerJournal) < MaxRecords
  /\ <<router, new>> \in RouterStep
  /\ routerJournal' = Append(routerJournal, router)
  /\ router' = new
  /\ UNCHANGED <<dfa, lifecycle, cursor, arena, semantic, cursorJournal, semanticJournal>>
  /\ UNCHANGED <<window, call>>

\* A semantic record may only refer to values the arena already holds.
SemanticEvent(new) ==
  /\ stage = "events" /\ Len(semanticJournal) < MaxRecords
  /\ <<semantic, new>> \in SemanticStep
  /\ Reach[new] <= arena
  /\ semanticJournal' = Append(semanticJournal, semantic)
  /\ semantic' = new
  /\ UNCHANGED <<dfa, lifecycle, cursor, arena, router, cursorJournal, routerJournal>>
  /\ UNCHANGED <<window, call>>

EventsDone ==
  /\ stage = "events"
  /\ stage' = "byte" /\ bytesLeft' = bytesLeft - 1
  /\ UNCHANGED <<state, journals, window, op, mark, token, todo, candidates, reply>>

\* A constraint denies the token; the EOS branch drops its violations.
Deny ==
  /\ stage = "events" /\ token # Eos
  /\ UndoWith("deny")
  /\ UNCHANGED <<state, journals, window>>

\* A syntax error, a limit, a failed allocation or an injected failure.
Fail ==
  /\ \/ stage = "byte" /\ bytesLeft > 0
     \/ stage \in {"cursor", "events"}
  /\ UndoWith("error")
  /\ UNCHANGED <<state, journals, window>>

\* Mutant of Transitioned: the automaton does not move.
TransitionedInPlace ==
  /\ dfa' = dfa
  /\ lifecycle' = IF token = Eos THEN "Terminated" ELSE lifecycle

\* The last byte is in: the automaton moves, or EOS terminates the guide.
Transitioned ==
  /\ dfa' = Successor(token)
  /\ lifecycle' = IF token = Eos THEN "Terminated" ELSE lifecycle

FinishRun ==
  /\ stage = "byte" /\ bytesLeft = 0
  /\ Transitioned
  /\ IF op \in {"probe", "mask"} THEN UndoWith("allow")
     ELSE /\ stage' = IF op = "advance" THEN "commit" ELSE "next"
          /\ UNCHANGED <<op, mark, token, bytesLeft, todo, candidates, reply>>
  /\ UNCHANGED <<cursor, arena, router, semantic, journals, window>>

-----------------------------------------------------------------------------
(* Commit: push the checkpoint, compact the journals, refresh the ledger.  *)

Commit ==
  LET kept   == KeptAfterPush(mark)
      prefix == CompactPrefix(kept)
  IN  /\ stage = "commit"
      /\ RetainedAfterPush(mark) <= MaxRetained
      /\ IF Compactable(kept, prefix)
         THEN /\ cursorJournal' = DropFirst(cursorJournal, prefix.cursor)
              /\ routerJournal' = DropFirst(routerJournal, prefix.router)
              /\ semanticJournal' = DropFirst(semanticJournal, prefix.semantic)
              /\ checkpoints' = [i \in 1..Len(kept) |-> Shift(kept[i], prefix)]
              /\ trace' = Append(trace, token)
              /\ retained' = Refreshed'
              /\ Return
              /\ UNCHANGED state
         ELSE /\ Poison
              /\ UNCHANGED <<dfa, cursor, arena, router, semantic, journals, window>>

\* Over max_retained_rollback_bytes, or an error before the checkpoint is in.
CommitRefused ==
  /\ stage = "commit"
  /\ UndoWith("error")
  /\ UNCHANGED <<state, journals, window>>

-----------------------------------------------------------------------------
(* restore: semantic stores, router, cursor and arena, then the rest.      *)

\* DuringRestore is injected, or an undo record of the cursor does not apply.
RestoreBreaks ==
  /\ RestoreMayFail /\ stage \in {RestoreOrder.begin, "restoreCursor"}
  /\ Poison
  /\ UNCHANGED <<dfa, cursor, arena, router, semantic, journals, window>>

RestoreSemantic ==
  /\ stage = "restoreSemantic"
  /\ IF mark.semantic <= Len(semanticJournal)
     THEN /\ semantic' = ValueAt(semanticJournal, mark.semantic, semantic)
          /\ semanticJournal' = Truncate(semanticJournal, mark.semantic)
          /\ stage' = RestoreOrder.restoreSemantic
          /\ UNCHANGED <<lifecycle, op, mark, token, bytesLeft, todo, candidates, reply>>
     ELSE Poison /\ UNCHANGED <<semantic, semanticJournal>>
  /\ UNCHANGED <<dfa, cursor, arena, router, cursorJournal, routerJournal, window>>

RestoreRouter ==
  /\ stage = "restoreRouter"
  /\ IF mark.router <= Len(routerJournal)
     THEN /\ router' = ValueAt(routerJournal, mark.router, router)
          /\ routerJournal' = Truncate(routerJournal, mark.router)
          /\ stage' = RestoreOrder.restoreRouter
          /\ UNCHANGED <<lifecycle, op, mark, token, bytesLeft, todo, candidates, reply>>
     ELSE Poison /\ UNCHANGED <<router, routerJournal>>
  /\ UNCHANGED <<dfa, cursor, arena, semantic, cursorJournal, semanticJournal, window>>

RestoreCursor ==
  /\ stage = "restoreCursor"
  /\ IF mark.cursor <= Len(cursorJournal) /\ mark.arena <= arena
     THEN /\ cursor' = ValueAt(cursorJournal, mark.cursor, cursor)
          /\ cursorJournal' = Truncate(cursorJournal, mark.cursor)
          /\ arena' = mark.arena
          /\ stage' = RestoreOrder.restoreCursor
          /\ UNCHANGED <<lifecycle, op, mark, token, bytesLeft, todo, candidates, reply>>
     ELSE Poison /\ UNCHANGED <<cursor, arena, cursorJournal>>
  /\ UNCHANGED <<dfa, router, semantic, routerJournal, semanticJournal, window>>

\* A mask goes on to its next candidate, a rollback to its next mark.
AfterRestore ==
  IF op = "rollback" \/ (op = "mask" /\ reply # "error")
  THEN /\ stage' = IF op = "rollback" THEN "unwind" ELSE "next"
       /\ mark' = InitialMark /\ token' = Eos /\ bytesLeft' = 0 /\ reply' = "none"
       /\ UNCHANGED <<op, todo, candidates>>
  ELSE Return

RestoreRest ==
  /\ stage = "restoreRest"
  /\ dfa' = mark.dfa
  /\ lifecycle' = mark.lifecycle
  /\ trace' = IF mark.traceLen < Len(trace) THEN Truncate(trace, mark.traceLen) ELSE trace
  /\ retained' = Refreshed
  /\ AfterRestore
  /\ UNCHANGED <<cursor, arena, router, semantic, journals, checkpoints>>

-----------------------------------------------------------------------------
(* rollback and reset.                                                     *)

BeginRollback(n) ==
  /\ stage = "idle" /\ lifecycle # "Poisoned"
  /\ n <= Len(checkpoints)
  /\ op' = "rollback" /\ stage' = "unwind" /\ todo' = n
  /\ UNCHANGED <<state, journals, window, mark, token, bytesLeft, candidates, reply>>

PopMark ==
  /\ stage = "unwind" /\ todo > 0
  /\ mark' = Last(checkpoints)
  /\ checkpoints' = Front(checkpoints)
  /\ todo' = todo - 1
  /\ stage' = RestoreOrder.begin
  /\ UNCHANGED <<state, journals, trace, retained, op, token, bytesLeft, candidates, reply>>

RollbackEnd ==
  /\ stage = "unwind" /\ todo = 0
  /\ Return
  /\ UNCHANGED <<state, journals, window>>

Reset ==
  /\ stage = "idle"
  /\ dfa' = InitialDfa /\ lifecycle' = "Active"
  /\ cursor' = InitialCursor /\ arena' = 0
  /\ router' = InitialRouter /\ semantic' = InitialSemantic
  /\ cursorJournal' = <<>> /\ routerJournal' = <<>> /\ semanticJournal' = <<>>
  /\ checkpoints' = <<>> /\ trace' = <<>> /\ retained' = 0
  /\ UNCHANGED call

-----------------------------------------------------------------------------

Begin ==
  \/ \E t \in AllTokens : BeginProbe(t) \/ BeginAdvance(t)
  \/ \E n \in 0..MaxSequence : BeginSequence(n)
  \/ BeginMask
  \/ \E n \in 0..MaxRollback : BeginRollback(n)

RunTransition ==
  \/ \E new \in CursorStates : FeedByte(new)
  \/ \E new \in CursorStates, length \in arena..MaxArena : CursorRecord(new, length)
  \/ CursorDone
  \/ \E new \in RouterStates : RouterEvent(new)
  \/ \E new \in SemanticStates : SemanticEvent(new)
  \/ EventsDone \/ Deny \/ Fail \/ FinishRun

Restore ==
  RestoreBreaks \/ RestoreSemantic \/ RestoreRouter \/ RestoreCursor \/ RestoreRest

\* What a call does by itself once it has begun.
Continue ==
  \/ \E t \in AllTokens : SequenceToken(t) \/ SequenceRejected(t) \/ MaskProbe(t)
  \/ SequenceEnd \/ MaskEnd
  \/ RunTransition
  \/ Commit \/ CommitRefused
  \/ Restore
  \/ PopMark \/ RollbackEnd

Next == Begin \/ Continue \/ Reset

Spec == Init /\ [][Next]_vars

\* A call runs to its end on the caller's thread.
FairSpec == Spec /\ WF_vars(Continue)

-----------------------------------------------------------------------------
(* Properties.                                                             *)

Calls == {"none", "probe", "advance", "sequence", "mask", "rollback"}
Stages ==
  {"idle", "next", "byte", "cursor", "events", "commit", "unwind",
   "restoreSemantic", "restoreRouter", "restoreCursor", "restoreRest"}

\* Every variable has its type, the window holds at most max_rollback_tokens
\* checkpoints and no journal outgrows max_journal_records.
TypeOK ==
  /\ dfa \in DfaStates /\ lifecycle \in Lifecycles
  /\ cursor \in CursorStates /\ router \in RouterStates /\ semantic \in SemanticStates
  /\ arena \in 0..MaxArena
  /\ cursorJournal \in Seq(CursorStates) /\ Len(cursorJournal) <= MaxRecords
  /\ routerJournal \in Seq(RouterStates) /\ Len(routerJournal) <= MaxRecords
  /\ semanticJournal \in Seq(SemanticStates) /\ Len(semanticJournal) <= MaxRecords
  /\ checkpoints \in Seq(TokenMark) /\ Len(checkpoints) <= MaxRollback
  /\ trace \in Seq(AllTokens) /\ Len(trace) <= MaxTrace
  /\ retained \in Nat
  /\ op \in Calls /\ stage \in Stages /\ mark \in TokenMark
  /\ token \in AllTokens /\ bytesLeft \in Nat /\ todo \in Nat
  /\ candidates \subseteq AllTokens
  /\ reply \in {"none", "allow", "deny", "error"}

Running == {"byte", "cursor", "events"}
Restoring == {"restoreSemantic", "restoreRouter", "restoreCursor", "restoreRest"}

\* Where each call can be: the part of the invariant that ties op, stage, token
\* and the counters of a call together.
CallShape ==
  /\ stage = "idle" <=> op = "none"
  /\ stage = "next" => op \in {"sequence", "mask"}
  /\ stage = "unwind" => op = "rollback"
  /\ stage = "commit" => op = "advance"
  /\ op = "rollback" => stage \in {"unwind"} \union Restoring /\ todo <= Len(checkpoints)
  /\ op = "advance" => Len(trace) < MaxTrace
  /\ stage \in Running =>
       /\ lifecycle = "Active"
       /\ token # Eos => <<dfa, token>> \in DOMAIN Delta
  /\ stage \in {"cursor", "events"} => bytesLeft > 0
  /\ lifecycle = "Poisoned" => stage = "idle"
  /\ mark.lifecycle = "Active"
  /\ \A i \in 1..Len(checkpoints) : checkpoints[i].lifecycle = "Active"

\* The call in progress will restore `mark`, or commit away from it.
HoldsMark ==
  stage \notin {"idle", "unwind"} /\ ~(stage = "next" /\ op = "mask")

NoLaterThan(m, n) ==
  /\ m.cursor <= n.cursor /\ m.router <= n.router /\ m.semantic <= n.semantic
  /\ m.arena <= n.arena /\ m.traceLen <= n.traceLen

\* Whatever failed, was compacted or was half restored, every held mark lies
\* within the journals, the arena and the trace, and older marks lie below
\* younger ones: no restore can meet an invalid mark (journal.rs InvalidMark).
MarksOrdered ==
  /\ \A i \in 1..Len(checkpoints) :
       /\ NoLaterThan(checkpoints[i], CurrentMark)
       /\ \A j \in 1..i : NoLaterThan(checkpoints[j], checkpoints[i])
  /\ HoldsMark =>
       /\ NoLaterThan(mark, CurrentMark)
       /\ \A i \in 1..Len(checkpoints) : NoLaterThan(checkpoints[i], mark)

\* The journals start exactly at the oldest held mark: compaction keeps no
\* record older than the window (no leak) and drops none the window needs.
WindowStartsJournals ==
  LET oldest == IF checkpoints # <<>> THEN checkpoints[1]
                ELSE IF HoldsMark THEN mark ELSE CurrentMark
  IN  lifecycle # "Poisoned" =>
        oldest.cursor = 0 /\ oldest.router = 0 /\ oldest.semantic = 0

\* Only a restore that breaks poisons a guide (an injected failure, a record that
\* does not apply): no sequence of calls, denials and errors makes a mark invalid
\* or a compaction fail.
NeverPoisoned == ~RestoreMayFail => lifecycle # "Poisoned"

\* What the journals and the window hold.
Held ==
  Len(cursorJournal) + Len(routerJournal) + Len(semanticJournal) + Len(checkpoints)

\* Between calls the ledger is what the journals and the window really hold,
\* and that is within max_retained_rollback_bytes.
LedgerExact ==
  stage = "idle" /\ lifecycle # "Poisoned" =>
    retained = Held /\ Held <= MaxRetained

ReachesWithin(m) ==
  Reach[ValueAt(semanticJournal, m.semantic, semantic)] <= m.arena

\* In every step, those inside a restore included, and at every held mark, the
\* semantic stores refer only to values the arena holds (docs/architecture.md:
\* "removes semantic references before rewinding").
NoDanglingReference ==
  /\ Reach[semantic] <= arena
  /\ \A i \in 1..Len(checkpoints) : ReachesWithin(checkpoints[i])
  /\ HoldsMark => ReachesWithin(mark)

\* How far a restore has come: the journals already back at the mark.
RestoreProgress ==
  /\ stage \in {"restoreRouter", "restoreCursor", "restoreRest"} =>
       Len(semanticJournal) = mark.semantic
  /\ stage \in {"restoreCursor", "restoreRest"} => Len(routerJournal) = mark.router
  /\ stage = "restoreRest" => Len(cursorJournal) = mark.cursor /\ arena = mark.arena

\* What the ledger stands for in the middle of a call.
LedgerTracks ==
  lifecycle # "Poisoned" =>
    /\ ~HoldsMark => retained = Held /\ Held <= MaxRetained
    /\ op = "rollback" => Held <= MaxRetained
    /\ HoldsMark /\ op # "rollback" =>
         /\ retained = mark.cursor + mark.router + mark.semantic + Len(checkpoints)
         /\ retained <= MaxRetained

\* The inductive invariant the safety theorems rest on.
IInv ==
  /\ TypeOK /\ CallShape
  /\ MarksOrdered /\ RestoreProgress /\ WindowStartsJournals
  /\ LedgerTracks /\ NoDanglingReference /\ NeverPoisoned

Moved(s, t) == IF t = Eos THEN s ELSE Delta[<<s, t>>]
Replayed(tokens) == FoldLeft(Moved, InitialDfa, tokens)

\* The committed trace, replayed on the automaton alone, leads to the current
\* state, and EOS is in it exactly when the guide has terminated.
TraceReplays ==
  stage = "idle" /\ lifecycle # "Poisoned" =>
    /\ dfa = Replayed(trace)
    /\ lifecycle = "Terminated" <=> Contains(trace, Eos)

\* The size an advance checks against the limit before it pushes is the size
\* the ledger shows once the window has been compacted.
PredictionExact ==
  [][stage = "commit" /\ trace' # trace => retained' = RetainedAfterPush(mark)]_vars

\* Every call returns: no loop over bytes, tokens, candidates or marks is endless.
CallReturns == stage # "idle" ~> stage = "idle"
==============================================================================
