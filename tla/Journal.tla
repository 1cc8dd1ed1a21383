------------------------------- MODULE Journal -------------------------------
(***************************************************************************)
(* An undo journal of one component (journal.rs, CursorJournal of          *)
(* cursor.rs) and the value it lets the component return to.  A record is  *)
(* the value the component had before the record was pushed.               *)
(***************************************************************************)
EXTENDS Integers, Sequences

\* The value a component had when its journal was `position` records long.
ValueAt(journal, position, current) ==
  IF position < Len(journal) THEN journal[position + 1] ELSE current

\* restore: pop records down to n.
Truncate(s, n) == SubSeq(s, 1, n)

\* discard_prefix: drain(..n).
DropFirst(s, n) == SubSeq(s, n + 1, Len(s))
==============================================================================
