---------------------------- MODULE GuideContract ----------------------------
(***************************************************************************)
(* What a Guide promises its caller, with no journals, marks or stages:    *)
(* an advance moves to a new state and remembers the old one, a rollback   *)
(* of n tokens returns to exactly the state n advances ago, and everything *)
(* else (probes, masks, sequences, denials, recoverable errors) leaves the *)
(* guide as it was.  A poisoned guide promises nothing until it is reset.  *)
(***************************************************************************)
EXTENDS Integers, SequencesExt

CONSTANTS Tokens, Eos, InitialDfa, FinalDfa, Delta,
          InitialMemory,    \* cursor, arena, router and semantic state
          MaxRollback, RestoreMayFail

VARIABLES
  now,      \* [dfa, lifecycle, trace, memory] seen between calls
  past      \* the states a rollback can return to, oldest first

Fresh == [dfa |-> InitialDfa, lifecycle |-> "Active", trace |-> <<>>,
          memory |-> InitialMemory]

Broken == [lifecycle |-> "Poisoned"]

Init == now = Fresh /\ past = <<>>

\* The youngest MaxRollback states of s.
Youngest(s) ==
  IF Len(s) > MaxRollback
  THEN SubSeq(s, Len(s) - MaxRollback + 1, Len(s))
  ELSE s

\* The automaton's verdict on token t; only the memory is unspecified.
Advance(t) ==
  /\ now.lifecycle = "Active"
  /\ IF t = Eos THEN now.dfa \in FinalDfa ELSE <<now.dfa, t>> \in DOMAIN Delta
  /\ now'.lifecycle = IF t = Eos THEN "Terminated" ELSE "Active"
  /\ now' = [dfa |-> IF t = Eos THEN now.dfa ELSE Delta[<<now.dfa, t>>],
             lifecycle |-> now'.lifecycle,
             trace |-> Append(now.trace, t),
             memory |-> now'.memory]
  /\ past' = Youngest(Append(past, now))

Rollback(n) ==
  /\ now.lifecycle # "Poisoned"
  /\ now' = past[Len(past) - n + 1]
  /\ past' = SubSeq(past, 1, Len(past) - n)

Poison == RestoreMayFail /\ now' = Broken /\ past' = <<>>

Reset == now' = Fresh /\ past' = <<>>

Next ==
  \/ \E t \in Tokens \union {Eos} : Advance(t)
  \/ \E n \in 1..Len(past) : Rollback(n)
  \/ Poison
  \/ Reset

Spec == Init /\ [][Next]_<<now, past>>
==============================================================================
