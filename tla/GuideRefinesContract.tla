------------------------- MODULE GuideRefinesContract -------------------------
(***************************************************************************)
(* Guide implements GuideContract.  The contract's state is read off the   *)
(* journals: the state at a mark is each component's value when its        *)
(* journal had the mark's length.  While a call holds a mark, the contract *)
(* is still at that mark; a rollback takes its one contract step when it   *)
(* begins.                                                                 *)
(***************************************************************************)
EXTENDS Guide

Memory(c, a, r, s) == [cursor |-> c, arena |-> a, router |-> r, semantic |-> s]

StateAt(m) ==
  [dfa |-> m.dfa, lifecycle |-> m.lifecycle, trace |-> Truncate(trace, m.traceLen),
   memory |-> Memory(ValueAt(cursorJournal, m.cursor, cursor), m.arena,
                     ValueAt(routerJournal, m.router, router),
                     ValueAt(semanticJournal, m.semantic, semantic))]

Now ==
  CASE lifecycle = "Poisoned" -> [lifecycle |-> "Poisoned"]
    [] lifecycle # "Poisoned" /\ op = "rollback" /\ todo > 0 ->
         StateAt(checkpoints[Len(checkpoints) - todo + 1])
    [] lifecycle # "Poisoned" /\ ~(op = "rollback" /\ todo > 0) /\ HoldsMark ->
         StateAt(mark)
    [] OTHER -> StateAt(CurrentMark)

Past ==
  IF lifecycle = "Poisoned" THEN <<>>
  ELSE LET visible == Len(checkpoints) - (IF op = "rollback" THEN todo ELSE 0)
       IN  [i \in 1..visible |-> StateAt(checkpoints[i])]

Contract == INSTANCE GuideContract WITH
  InitialMemory <- Memory(InitialCursor, 0, InitialRouter, InitialSemantic),
  now <- Now, past <- Past

\* Probes, masks, sequences, denials and errors restore the guide exactly, an
\* advance is all or nothing, and rollback(n) returns to the state n tokens ago
\* (docs/architecture.md: "denial and recoverable errors restore atomically").
ImplementsContract == Contract!Spec

\* What an advance carries from the state at its mark to its commit: the trace
\* has not grown, the automaton of the mark admits the token, and once the bytes
\* are in, the automaton has made just that move.
AdvanceFromMark ==
  op = "advance" /\ stage \in Running \union {"commit"} =>
    /\ mark.traceLen = Len(trace)
    /\ IF token = Eos THEN mark.dfa \in FinalDfa ELSE <<mark.dfa, token>> \in DOMAIN Delta
    /\ stage \in Running => dfa = mark.dfa
    /\ stage = "commit" =>
         /\ dfa = IF token = Eos THEN mark.dfa ELSE Delta[<<mark.dfa, token>>]
         /\ lifecycle = IF token = Eos THEN "Terminated" ELSE "Active"
==============================================================================
