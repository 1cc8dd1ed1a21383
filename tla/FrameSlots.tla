------------------------------ MODULE FrameSlots ------------------------------
(***************************************************************************)
(* The pool of generational frame handles (sidememory/scope.rs).  A slot   *)
(* is reused last-in first-out, each time under the next generation, so a  *)
(* handle kept after its frame closed is stale.  Every operation returns a *)
(* record that takes it back.                                              *)
(*                                                                         *)
(* A pool is [slots, free]: slots holds a generation and an occupancy for  *)
(* each slot, free the released slots in order of release.                 *)
(***************************************************************************)
EXTENDS Naturals, Sequences

EmptyPool == [slots |-> <<>>, free |-> <<>>]

Handle(slot, generation) == [slot |-> slot, generation |-> generation]

Entries == [generation : Nat, occupied : BOOLEAN]
Occupied(generation) == [generation |-> generation, occupied |-> TRUE]
Vacant(generation) == [generation |-> generation, occupied |-> FALSE]

(* The slot the next allocation takes: the one released last, or a new one. *)
Reuses(p) == p.free # <<>>
NextSlot(p) == IF Reuses(p) THEN p.free[Len(p.free)] ELSE Len(p.slots) + 1

(* MaxGeneration is u32::MAX in the code.                                   *)
GenerationExhausted(p, MaxGeneration) ==
    Reuses(p) /\ p.slots[NextSlot(p)].generation >= MaxGeneration

\* Mutant: a slot is reused under its old generation.
AllocatedSameGeneration(p) ==
    Handle(NextSlot(p), IF Reuses(p) THEN p.slots[NextSlot(p)].generation ELSE 0)

Allocated(p) ==
    IF Reuses(p)
    THEN Handle(NextSlot(p), p.slots[NextSlot(p)].generation + 1)
    ELSE Handle(NextSlot(p), 0)

Allocate(p) ==
    LET id == Allocated(p)
    IN  IF Reuses(p)
        THEN [slots |-> [p.slots EXCEPT ![id.slot] = Occupied(id.generation)],
              free |-> SubSeq(p.free, 1, Len(p.free) - 1)]
        ELSE [p EXCEPT !.slots = Append(@, Occupied(0))]

\* Mutant: a reused slot is taken back as if it were new.
AllocateUndoAsNew(p) == [kind |-> "RemoveNew", id |-> Allocated(p)]

AllocateUndo(p) ==
    [kind |-> IF Reuses(p) THEN "RestoreReused" ELSE "RemoveNew", id |-> Allocated(p)]

(* A handle is live while its slot is occupied under its generation.       *)
IsLive(p, id) ==
    /\ id.slot \in 1..Len(p.slots)
    /\ p.slots[id.slot] = Occupied(id.generation)

\* Mutant: a released slot is not offered again.
ReleaseWithoutFree(p, id) == [p EXCEPT !.slots[id.slot] = Vacant(id.generation)]

(* Releasing is refused for a handle that is not live (StaleFrame).         *)
Release(p, id) ==
    [slots |-> [p.slots EXCEPT ![id.slot] = Vacant(id.generation)],
     free |-> Append(p.free, id.slot)]

ReleaseUndo(id) == [kind |-> "RestoreReleased", id |-> id]

(* Undo refuses a record that does not belong to the newest operation.      *)
CanUndo(p, u) ==
    CASE u.kind = "RemoveNew" -> u.id.slot = Len(p.slots) /\ IsLive(p, u.id)
      [] u.kind = "RestoreReused" -> IsLive(p, u.id)
      [] u.kind = "RestoreReleased" ->
            /\ p.free # <<>>
            /\ p.free[Len(p.free)] = u.id.slot
            /\ u.id.slot \in 1..Len(p.slots)
            /\ p.slots[u.id.slot] = Vacant(u.id.generation)

Undo(p, u) ==
    CASE u.kind = "RemoveNew" -> [p EXCEPT !.slots = SubSeq(@, 1, Len(@) - 1)]
      [] u.kind = "RestoreReused" ->
            [slots |-> [p.slots EXCEPT ![u.id.slot] = Vacant(u.id.generation - 1)],
             free |-> Append(p.free, u.id.slot)]
      [] u.kind = "RestoreReleased" ->
            [slots |-> [p.slots EXCEPT ![u.id.slot] = Occupied(u.id.generation)],
             free |-> SubSeq(p.free, 1, Len(p.free) - 1)]

(* What every pool the operations build satisfies: the free list holds each *)
(* unoccupied slot once and no other.                                       *)
WellFormed(p) ==
    /\ p \in [slots : Seq(Entries), free : Seq(Nat \ {0})]
    /\ \A i \in 1..Len(p.free) : p.free[i] <= Len(p.slots)
    /\ \A i, j \in 1..Len(p.free) : p.free[i] = p.free[j] => i = j
    /\ \A i \in 1..Len(p.free) : ~p.slots[p.free[i]].occupied
    /\ \A s \in 1..Len(p.slots) :
          ~p.slots[s].occupied => \E i \in 1..Len(p.free) : p.free[i] = s

===============================================================================
