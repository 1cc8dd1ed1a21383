--------------------------- MODULE JsonCursorProofs ---------------------------
(***************************************************************************)
(* The cursor, for every alphabet, text, limit and number of marks.        *)
(*                                                                         *)
(* First what its handlers are made of: the handle pool and its undo       *)
(* records, the canonical arena and what is added to it, the stack of      *)
(* frames, and the elementary changes a handler makes of them.  A handler  *)
(* is a chain of a few of these, each of which either changes only what    *)
(* RestoreCore keeps, or pushes one record that takes it back.  Sound(e,n) *)
(* says what holds of an effect after any number of them: its records, at  *)
(* most n, lead back to the cursor the call began with; the stack, the     *)
(* slots and the arena fit together; the events tell what happened to the  *)
(* stack.  It holds half-way through a call too, so it also holds where a  *)
(* call fails.  CoreFits, what the mode promises about the stack, holds    *)
(* again only when a handler has come to its end.                          *)
(***************************************************************************)
EXTENDS JsonCursor, SequenceLemmas

-------------------------------------------------------------------------------
(* Frame handles (FrameSlots).                                             *)

(* The empty pool of a new cursor is well formed.                           *)
LEMMA EmptyPoolWellFormed == WellFormed(EmptyPool)
BY DEF WellFormed, EmptyPool

(* Cutting the last element off an appended sequence gives it back, and     *)
(* putting it back on a cut one too.                                       *)
LEMMA CutAppend ==
    ASSUME NEW S, NEW s \in Seq(S), NEW x \in S
    PROVE  /\ SubSeq(Append(s, x), 1, Len(Append(s, x)) - 1) = s
           /\ Append(s, x)[Len(Append(s, x))] = x
OBVIOUS

LEMMA AppendCut ==
    ASSUME NEW S, NEW s \in Seq(S), s # <<>>
    PROVE  /\ Len(s) \in Nat \ {0}
           /\ s[Len(s)] \in S
           /\ SubSeq(s, 1, Len(s) - 1) \in Seq(S)
           /\ Len(SubSeq(s, 1, Len(s) - 1)) = Len(s) - 1
           /\ \A i \in 1..Len(s) - 1 : SubSeq(s, 1, Len(s) - 1)[i] = s[i]
           /\ Append(SubSeq(s, 1, Len(s) - 1), s[Len(s)]) = s
<1>1. Len(s) \in Nat \ {0} OBVIOUS
<1>2. s[Len(s)] \in S BY <1>1
<1>. DEFINE f == SubSeq(s, 1, Len(s) - 1)
<1>3. \A i \in 1..Len(s) - 1 : s[i] \in S BY <1>1
<1>4. /\ f \in Seq(S) /\ Len(f) = Len(s) - 1
      /\ \A i \in 1..Len(s) - 1 : f[i] = s[i]
  <2>. DEFINE k == Len(s) - 1
  <2>1. k \in Nat /\ \A i \in 1..k : s[i] \in S BY <1>1, <1>3
  <2>. HIDE DEF k
  <2>2. /\ SubSeq(s, 1, k) \in Seq(S)
        /\ Len(SubSeq(s, 1, k)) = IF 1 <= k THEN k - 1 + 1 ELSE 0
        /\ \A i \in 1..(k - 1 + 1) : SubSeq(s, 1, k)[i] = s[1 + i - 1]
    BY <2>1, SubSeqProperties
  <2>3. /\ SubSeq(s, 1, k) \in Seq(S) /\ Len(SubSeq(s, 1, k)) = k
        /\ \A i \in 1..k : SubSeq(s, 1, k)[i] = s[i]
    BY <2>1, <2>2
  <2>. QED BY <2>3 DEF k
<1>. HIDE DEF f
<1>5. Append(f, s[Len(s)]) = s
  <2>. DEFINE a == Append(f, s[Len(s)])
  <2>1. a \in Seq(S) /\ Len(a) = Len(s) BY <1>1, <1>2, <1>4
  <2>2. ASSUME NEW i \in 1..Len(s) PROVE a[i] = s[i]
    <3>1. CASE i = Len(s) BY <1>1, <1>4, <3>1
    <3>2. CASE i # Len(s) BY <1>1, <1>4, <3>2
    <3>. QED BY <3>1, <3>2
  <2>. HIDE DEF a
  <2>3. a = s BY <2>1, <2>2
  <2>. QED BY <2>3 DEF a
<1>. QED BY <1>1, <1>2, <1>4, <1>5 DEF f

(* Overwriting an element and writing the old one back changes nothing.      *)
LEMMA WriteBack ==
    ASSUME NEW S, NEW s \in Seq(S), NEW n \in 1..Len(s), NEW x \in S,
           NEW t, t = [s EXCEPT ![n] = x]
    PROVE  /\ t \in Seq(S)
           /\ Len(t) = Len(s)
           /\ t[n] = x
           /\ \A i \in 1..Len(s) : i # n => t[i] = s[i]
           /\ [t EXCEPT ![n] = s[n]] = s
<1>1. /\ t \in Seq(S)
      /\ Len(t) = Len(s)
      /\ t[n] = x
      /\ \A i \in 1..Len(s) : i # n => t[i] = s[i]
  BY ExceptSeq
<1>2. [t EXCEPT ![n] = s[n]] = s
  <2>1. s \in [1..Len(s) -> S] BY LenProperties
  <2>. QED BY <2>1, Zenon
<1>. QED BY <1>1, <1>2

LEMMA SlotWrittenBack ==
    ASSUME NEW S, NEW p, NEW r, NEW n, NEW x, p.slots \in Seq(S), n \in 1..Len(p.slots), x \in S,
           r.slots = [p.slots EXCEPT ![n] = x]
    PROVE  /\ n \in 1..Len(r.slots) /\ r.slots[n] = x
           /\ [r.slots EXCEPT ![n] = p.slots[n]] = p.slots
<1>1. Len(r.slots) = Len(p.slots)
  BY WriteBack
<1>. QED BY <1>1, WriteBack

(* Allocating takes the slot NextSlot; its undo record applies to the pool   *)
(* that results and gives back the pool as it was.                          *)
THEOREM UndoAllocate ==
    ASSUME NEW p, WellFormed(p)
    PROVE  /\ CanUndo(Allocate(p), AllocateUndo(p))
           /\ Undo(Allocate(p), AllocateUndo(p)) = p
<1>1. p.slots \in Seq(Entries)
  BY DEF WellFormed
<1>4. p.free \in Seq(Nat \ {0})
  BY DEF WellFormed
<1>5. p = [slots |-> p.slots, free |-> p.free]
  BY DEF WellFormed
<1>2. CASE Reuses(p)
  <2>. DEFINE n == p.free[Len(p.free)]
              g == p.slots[n].generation
              r == Allocate(p)
              u == AllocateUndo(p)
  <2>0. n \in 1..Len(p.slots) /\ p.slots[n] \in Entries
    <3>1. Len(p.free) \in 1..Len(p.free) /\ n \in Nat \ {0}
      BY <1>4, <1>2, AppendCut DEF Reuses
    <3>2. n <= Len(p.slots)
      BY <3>1 DEF WellFormed
    <3>3. Len(p.slots) \in Nat BY <1>1, LenProperties
    <3>. HIDE DEF n
    <3>4. n \in 1..Len(p.slots) BY <3>1, <3>2, <3>3
    <3>. QED BY <1>1, <3>4, ElementOfSeq
  <2>1. ~p.slots[n].occupied
    <3>1. Len(p.free) \in 1..Len(p.free)
      BY <1>4, <1>2, AppendCut DEF Reuses
    <3>. QED BY <3>1 DEF WellFormed
  <2>2. p.slots[n] = Vacant(g) /\ g \in Nat
    BY <2>0, <2>1 DEF Occupied, Vacant, Entries
  <2>3. u = [kind |-> "RestoreReused", id |-> Handle(n, g + 1)]
    BY <1>2 DEF AllocateUndo, Allocated, NextSlot
  <2>4. r = [slots |-> [p.slots EXCEPT ![n] = Occupied(g + 1)],
             free |-> SubSeq(p.free, 1, Len(p.free) - 1)]
    BY <1>2 DEF Allocate, Allocated, NextSlot, Handle
  <2>. HIDE DEF u, r
  <2>5. /\ n \in 1..Len(r.slots) /\ r.slots[n] = Occupied(g + 1)
        /\ [r.slots EXCEPT ![n] = p.slots[n]] = p.slots
    <3>1. Occupied(g + 1) \in Entries BY <2>2 DEF Occupied, Vacant, Entries
    <3>2. r.slots = [p.slots EXCEPT ![n] = Occupied(g + 1)] BY <2>4
    <3>. QED BY <1>1, <2>0, <3>1, <3>2, SlotWrittenBack
  <2>6. CanUndo(r, u)
    BY <2>3, <2>5 DEF CanUndo, IsLive, Handle
  <2>7. Undo(r, u) = [slots |-> [r.slots EXCEPT ![n] = Vacant(g)], free |-> Append(r.free, n)]
    <3>1. u.kind = "RestoreReused" /\ u.id.slot = n
      BY <2>3 DEF Handle
    <3>2. u.id.generation - 1 = g
      BY <2>2, <2>3 DEF Handle
    <3>3. Undo(r, u) = [slots |-> [r.slots EXCEPT ![u.id.slot] = Vacant(u.id.generation - 1)],
                        free |-> Append(r.free, u.id.slot)]
      BY <3>1, Zenon DEF Undo
    <3>. HIDE DEF n, g
    <3>. QED BY <3>1, <3>2, <3>3, Zenon
  <2>8. [r.slots EXCEPT ![n] = Vacant(g)] = p.slots
    BY <2>2, <2>5, Zenon
  <2>9. Append(r.free, n) = p.free
    BY <1>4, <1>2, <2>4, AppendCut DEF Reuses
  <2>. QED BY <1>5, <2>6, <2>7, <2>8, <2>9 DEF u, r
<1>3. CASE ~Reuses(p)
  <2>. DEFINE n == Len(p.slots) + 1
              r == Allocate(p)
              u == AllocateUndo(p)
  <2>1. u = [kind |-> "RemoveNew", id |-> Handle(n, 0)]
    BY <1>3 DEF AllocateUndo, Allocated, NextSlot
  <2>2. r = [slots |-> Append(p.slots, Occupied(0)), free |-> p.free]
    BY <1>5, <1>3 DEF Allocate
  <2>. HIDE DEF u, r
  <2>3. Occupied(0) \in Entries BY DEF Occupied, Vacant, Entries
  <2>4. /\ Len(r.slots) = n /\ n \in 1..Len(r.slots) /\ r.slots[n] = Occupied(0)
    <3>1. r.slots = Append(p.slots, Occupied(0)) BY <2>2
    <3>2. Len(p.slots) \in Nat BY <1>1, LenProperties
    <3>3. /\ Len(Append(p.slots, Occupied(0))) = Len(p.slots) + 1
          /\ Append(p.slots, Occupied(0))[Len(p.slots) + 1] = Occupied(0)
      BY <1>1, <2>3, AppendProperties
    <3>. QED BY <3>1, <3>2, <3>3
  <2>5. CanUndo(r, u)
    BY <2>1, <2>4 DEF CanUndo, IsLive, Handle
  <2>6. Undo(r, u) = [slots |-> SubSeq(r.slots, 1, Len(r.slots) - 1), free |-> r.free]
    BY <2>1, <2>2 DEF Undo
  <2>7. SubSeq(r.slots, 1, Len(r.slots) - 1) = p.slots
    BY <1>1, <2>2, <2>3, CutAppend
  <2>8. Undo(r, u) = p BY <1>5, <2>2, <2>6, <2>7
  <2>. QED BY <2>5, <2>8 DEF u, r
<1>. QED BY <1>2, <1>3

(* Releasing a live handle: its undo record applies to the pool that results *)
(* and gives back the pool as it was.                                       *)
THEOREM UndoRelease ==
    ASSUME NEW p, WellFormed(p), NEW id \in [slot : Nat \ {0}, generation : Nat], IsLive(p, id)
    PROVE  /\ CanUndo(Release(p, id), ReleaseUndo(id))
           /\ Undo(Release(p, id), ReleaseUndo(id)) = p
<1>. DEFINE r == Release(p, id)
            g == id.generation
            n == id.slot
<1>1. p.slots \in Seq(Entries)
  BY DEF WellFormed
<1>9. p.free \in Seq(Nat \ {0}) /\ p = [slots |-> p.slots, free |-> p.free]
  BY DEF WellFormed
<1>2. n \in 1..Len(p.slots) /\ p.slots[n] = Occupied(g)
  BY DEF IsLive
<1>3. r.slots = [p.slots EXCEPT ![n] = Vacant(g)] /\ r.free = Append(p.free, n)
  BY DEF Release
<1>. HIDE DEF r
<1>4. /\ SubSeq(r.free, 1, Len(r.free) - 1) = p.free
      /\ r.free # <<>> /\ r.free[Len(r.free)] = n
  BY <1>9, <1>2, <1>3, CutAppend, AppendProperties
<1>5. /\ n \in 1..Len(r.slots) /\ r.slots[n] = Vacant(g)
      /\ [r.slots EXCEPT ![n] = p.slots[n]] = p.slots
  <2>1. Vacant(g) \in Entries BY DEF Occupied, Vacant, Entries
  <2>. QED BY <1>1, <1>2, <1>3, <2>1, SlotWrittenBack
<1>6. CanUndo(r, ReleaseUndo(id))
  BY <1>4, <1>5 DEF CanUndo, ReleaseUndo
<1>7. Undo(r, ReleaseUndo(id))
        = [slots |-> [r.slots EXCEPT ![n] = Occupied(g)],
           free |-> SubSeq(r.free, 1, Len(r.free) - 1)]
  BY DEF Undo, ReleaseUndo
<1>8. [r.slots EXCEPT ![n] = Occupied(g)] = p.slots
  BY <1>2, <1>5
<1>. QED BY <1>9, <1>4, <1>6, <1>7, <1>8 DEF r

(* Allocating keeps the pool well formed: the slot taken is off the free     *)
(* list and occupied, or new.                                               *)
THEOREM AllocateWellFormed ==
    ASSUME NEW p, WellFormed(p)
    PROVE  WellFormed(Allocate(p))
<1>. DEFINE r == Allocate(p)
<1>1. p.slots \in Seq(Entries) /\ p.free \in Seq(Nat \ {0})
  BY DEF WellFormed
<1>2. p = [slots |-> p.slots, free |-> p.free]
  BY DEF WellFormed
<1>3. CASE Reuses(p)
  <2>. DEFINE n == p.free[Len(p.free)]
              g == p.slots[n].generation
  <2>1. /\ Len(p.free) \in Nat \ {0}
        /\ SubSeq(p.free, 1, Len(p.free) - 1) \in Seq(Nat \ {0})
        /\ Len(SubSeq(p.free, 1, Len(p.free) - 1)) = Len(p.free) - 1
        /\ \A i \in 1..Len(p.free) - 1 : SubSeq(p.free, 1, Len(p.free) - 1)[i] = p.free[i]
        /\ n \in Nat \ {0}
    BY <1>1, <1>3, AppendCut DEF Reuses
  <2>2. n \in 1..Len(p.slots) /\ p.slots[n] \in Entries
    <3>1. n <= Len(p.slots)
      BY <2>1 DEF WellFormed
    <3>2. Len(p.slots) \in Nat BY <1>1, LenProperties
    <3>. HIDE DEF n
    <3>3. n \in 1..Len(p.slots) BY <2>1, <3>1, <3>2
    <3>. QED BY <1>1, <3>3, ElementOfSeq
  <2>3. Occupied(g + 1) \in Entries /\ Occupied(g + 1).occupied
    BY <2>2 DEF Occupied, Entries
  <2>4. r.slots = [p.slots EXCEPT ![n] = Occupied(g + 1)]
        /\ r.free = SubSeq(p.free, 1, Len(p.free) - 1)
    BY <1>3 DEF Allocate, Allocated, NextSlot, Handle
  <2>5. r \in [slots : Seq(Entries), free : Seq(Nat \ {0})]
    <3>1. r.slots \in Seq(Entries)
      BY <1>1, <2>2, <2>3, <2>4, WriteBack
    <3>2. r = [slots |-> r.slots, free |-> r.free]
      BY <1>3 DEF Allocate
    <3>. HIDE DEF r
    <3>. QED BY <2>1, <2>4, <3>1, <3>2
  <2>. HIDE DEF r, n
  <2>6. /\ Len(r.slots) = Len(p.slots)
        /\ r.slots[n] = Occupied(g + 1)
        /\ \A s \in 1..Len(p.slots) : s # n => r.slots[s] = p.slots[s]
    BY <1>1, <2>2, <2>3, <2>4, WriteBack
  <2>7. Len(r.free) = Len(p.free) - 1 /\ \A i \in 1..Len(r.free) : r.free[i] = p.free[i]
    BY <2>1, <2>4
  <2>8. \A i \in 1..Len(r.free) : i \in 1..Len(p.free) /\ r.free[i] = p.free[i] /\ r.free[i] # n
    <3>1. \A i, j \in 1..Len(p.free) : p.free[i] = p.free[j] => i = j
      BY DEF WellFormed
    <3>2. SUFFICES ASSUME NEW i \in 1..Len(r.free)
                   PROVE  i \in 1..Len(p.free) /\ r.free[i] = p.free[i] /\ r.free[i] # n
      OBVIOUS
    <3>3. i \in 1..Len(p.free) /\ i # Len(p.free) /\ Len(p.free) \in 1..Len(p.free)
      BY <2>1, <2>7
    <3>4. r.free[i] = p.free[i]
      BY <2>7
    <3>5. p.free[i] # p.free[Len(p.free)]
      BY <3>1, <3>3
    <3>. QED BY <3>3, <3>4, <3>5 DEF n
  <2>9. \A i \in 1..Len(r.free) : r.free[i] \in 1..Len(p.slots)
    <3>1. \A i \in 1..Len(p.free) : p.free[i] <= Len(p.slots)
      BY DEF WellFormed
    <3>2. \A i \in 1..Len(p.free) : p.free[i] \in Nat \ {0}
      BY <1>1, ElementOfSeq
    <3>3. Len(p.slots) \in Nat BY <1>1, LenProperties
    <3>. QED BY <2>8, <3>1, <3>2, <3>3
  <2>10. \A i \in 1..Len(r.free) : r.free[i] <= Len(r.slots)
    BY <2>6, <2>8 DEF WellFormed
  <2>11. \A i, j \in 1..Len(r.free) : r.free[i] = r.free[j] => i = j
    BY <2>8 DEF WellFormed
  <2>12. \A i \in 1..Len(r.free) : ~r.slots[r.free[i]].occupied
    BY <2>6, <2>8, <2>9 DEF WellFormed
  <2>13. \A s \in 1..Len(r.slots) :
            ~r.slots[s].occupied => \E i \in 1..Len(r.free) : r.free[i] = s
    <3>. SUFFICES ASSUME NEW s \in 1..Len(p.slots), ~r.slots[s].occupied
                  PROVE  \E i \in 1..Len(r.free) : r.free[i] = s
      BY <2>6
    <3>1. s # n BY <2>3, <2>6
    <3>2. PICK i \in 1..Len(p.free) : p.free[i] = s
      BY <2>6, <3>1 DEF WellFormed
    <3>3. i # Len(p.free) BY <3>1, <3>2 DEF n
    <3>4. i \in 1..Len(r.free) BY <2>1, <2>7, <3>3
    <3>. QED BY <2>7, <3>2, <3>4
  <2>. QED BY <2>5, <2>10, <2>11, <2>12, <2>13 DEF WellFormed, r
<1>4. CASE ~Reuses(p)
  <2>1. r = [slots |-> Append(p.slots, Occupied(0)), free |-> p.free]
    BY <1>2, <1>4 DEF Allocate
  <2>2. p.free = <<>>
    BY <1>4 DEF Reuses
  <2>3. Occupied(0) \in Entries /\ Occupied(0).occupied
    BY DEF Occupied, Entries
  <2>. HIDE DEF r
  <2>4. /\ r.slots = Append(p.slots, Occupied(0)) /\ r.free = <<>>
        /\ r = [slots |-> r.slots, free |-> r.free]
    BY <2>1, <2>2
  <2>5. /\ r.slots \in Seq(Entries)
        /\ Len(r.slots) = Len(p.slots) + 1
        /\ r.slots[Len(p.slots) + 1] = Occupied(0)
        /\ \A s \in 1..Len(p.slots) : r.slots[s] = p.slots[s]
    BY <1>1, <2>3, <2>4, AppendProperties
  <2>6. r \in [slots : Seq(Entries), free : Seq(Nat \ {0})]
    <3>1. r.free \in Seq(Nat \ {0}) BY <1>1, <2>2, <2>4
    <3>. QED BY <2>4, <2>5, <3>1
  <2>7. Len(r.free) = 0 BY <2>4
  <2>8. \A s \in 1..Len(p.slots) : p.slots[s].occupied
    <3>1. 1..Len(p.free) = {} BY <2>2
    <3>. QED BY <3>1 DEF WellFormed
  <2>9. \A s \in 1..Len(r.slots) : r.slots[s].occupied
    <3>1. Len(p.slots) \in Nat BY <1>1, LenProperties
    <3>2. \A s \in 1..Len(p.slots) : r.slots[s].occupied BY <2>5, <2>8
    <3>3. r.slots[Len(p.slots) + 1].occupied BY <2>3, <2>5
    <3>. QED BY <2>5, <3>1, <3>2, <3>3
  <2>. QED BY <2>6, <2>7, <2>9 DEF WellFormed, r
<1>. QED BY <1>3, <1>4

(* So does releasing a live handle.                                         *)
THEOREM ReleaseWellFormed ==
    ASSUME NEW p, WellFormed(p), NEW id \in [slot : Nat \ {0}, generation : Nat], IsLive(p, id)
    PROVE  WellFormed(Release(p, id))
<1>. DEFINE r == Release(p, id)
            g == id.generation
            n == id.slot
            m == Len(p.free)
<1>1. p.slots \in Seq(Entries) /\ p.free \in Seq(Nat \ {0})
  BY DEF WellFormed
<1>2. n \in 1..Len(p.slots) /\ p.slots[n] = Occupied(g) /\ n \in Nat \ {0} /\ g \in Nat
  BY DEF IsLive
<1>3. /\ r.slots = [p.slots EXCEPT ![n] = Vacant(g)] /\ r.free = Append(p.free, n)
      /\ r = [slots |-> r.slots, free |-> r.free]
  BY DEF Release
<1>4. Vacant(g) \in Entries /\ ~Vacant(g).occupied /\ p.slots[n].occupied
  BY <1>2 DEF Vacant, Occupied, Entries
<1>. HIDE DEF r, g, n
<1>5. /\ r.slots \in Seq(Entries)
      /\ Len(r.slots) = Len(p.slots)
      /\ r.slots[n] = Vacant(g)
      /\ \A s \in 1..Len(p.slots) : s # n => r.slots[s] = p.slots[s]
  BY <1>1, <1>2, <1>3, <1>4, WriteBack
<1>6. /\ r.free \in Seq(Nat \ {0})
      /\ Len(r.free) = m + 1 /\ m \in Nat
      /\ r.free[m + 1] = n
      /\ \A i \in 1..m : r.free[i] = p.free[i]
  BY <1>1, <1>2, <1>3, AppendProperties, LenProperties
<1>. HIDE DEF m
<1>7. \A i \in 1..m : p.free[i] # n
  BY <1>4 DEF WellFormed, m
<1>8. \A i \in 1..m : p.free[i] \in 1..Len(p.slots) /\ ~p.slots[p.free[i]].occupied
  <2>1. \A i \in 1..Len(p.free) : p.free[i] \in Nat \ {0}
    BY <1>1, ElementOfSeq
  <2>2. \A i \in 1..Len(p.free) : p.free[i] <= Len(p.slots) /\ ~p.slots[p.free[i]].occupied
    BY DEF WellFormed
  <2>3. Len(p.slots) \in Nat BY <1>1, LenProperties
  <2>. QED BY <2>1, <2>2, <2>3 DEF m
<1>9. \A i \in 1..Len(r.free) : i = m + 1 \/ i \in 1..m
  BY <1>6
<1>10. \A i \in 1..Len(r.free) : r.free[i] <= Len(r.slots)
  <2>1. n <= Len(p.slots) BY <1>2
  <2>2. \A i \in 1..m : p.free[i] <= Len(p.slots) BY <1>8
  <2>. QED BY <1>5, <1>6, <1>9, <2>1, <2>2
<1>11. \A i, j \in 1..Len(r.free) : r.free[i] = r.free[j] => i = j
  <2>1. \A i, j \in 1..m : p.free[i] = p.free[j] => i = j
    BY DEF WellFormed, m
  <2>2. \A i \in 1..m : r.free[i] # r.free[m + 1]
    BY <1>6, <1>7
  <2>3. \A i, j \in 1..m : r.free[i] = r.free[j] => i = j
    BY <1>6, <2>1
  <2>4. SUFFICES ASSUME NEW i \in 1..Len(r.free), NEW j \in 1..Len(r.free),
                        r.free[i] = r.free[j], i # j
                 PROVE  FALSE
    OBVIOUS
  <2>5. (i = m + 1 \/ i \in 1..m) /\ (j = m + 1 \/ j \in 1..m)
    BY <1>9
  <2>6. CASE i = m + 1
    BY <2>2, <2>4, <2>5, <2>6
  <2>7. CASE j = m + 1
    BY <2>2, <2>4, <2>5, <2>7
  <2>8. CASE i \in 1..m /\ j \in 1..m
    BY <2>3, <2>4, <2>8
  <2>. QED BY <2>5, <2>6, <2>7, <2>8
<1>12. \A i \in 1..Len(r.free) : ~r.slots[r.free[i]].occupied
  <2>1. ~r.slots[r.free[m + 1]].occupied
    BY <1>4, <1>5, <1>6
  <2>2. \A i \in 1..m : r.slots[r.free[i]] = p.slots[p.free[i]]
    BY <1>5, <1>6, <1>7, <1>8
  <2>3. \A i \in 1..m : ~r.slots[r.free[i]].occupied
    BY <1>8, <2>2, Zenon
  <2>. QED BY <1>9, <2>1, <2>3, Zenon
<1>13. \A s \in 1..Len(r.slots) :
          ~r.slots[s].occupied => \E i \in 1..Len(r.free) : r.free[i] = s
  <2>. SUFFICES ASSUME NEW s \in 1..Len(p.slots), ~r.slots[s].occupied
                PROVE  \E i \in 1..Len(r.free) : r.free[i] = s
    BY <1>5
  <2>1. CASE s = n
    <3>1. m + 1 \in 1..Len(r.free) BY <1>6
    <3>. QED BY <1>6, <2>1, <3>1
  <2>2. CASE s # n
    <3>1. PICK i \in 1..m : p.free[i] = s
      BY <1>5, <2>2 DEF WellFormed, m
    <3>2. i \in 1..Len(r.free) /\ r.free[i] = s BY <1>6, <3>1
    <3>. QED BY <3>2
  <2>. QED BY <2>1, <2>2
<1>14. r \in [slots : Seq(Entries), free : Seq(Nat \ {0})]
  BY <1>3, <1>5, <1>6
<1>. QED BY <1>10, <1>11, <1>12, <1>13, <1>14 DEF WellFormed, r

Handles == [slot : Nat \ {0}, generation : Nat]

\* A handle was handed out: its slot is there, under its generation or a later one.
HandedOut(p, id) ==
  id.slot \in 1..Len(p.slots) /\ id.generation <= p.slots[id.slot].generation

(* Allocating hands out a handle never handed out before, and leaves all others  *)
(* as they are.                                                             *)
THEOREM AllocateHandsOutNew ==
  ASSUME NEW p, WellFormed(p), NEW q, q = Allocate(p), NEW id, id = Allocated(p)
  PROVE  /\ id \in Handles /\ ~HandedOut(p, id) /\ HandedOut(q, id) /\ IsLive(q, id)
         /\ \A h \in Handles : HandedOut(p, h) => HandedOut(q, h)
         /\ \A h \in Handles : IsLive(p, h) => IsLive(q, h) /\ h.slot # id.slot
         /\ \A s \in 1..Len(q.slots) :
               q.slots[s].occupied => s = id.slot \/ (s \in 1..Len(p.slots) /\ p.slots[s].occupied)
  <1>1. p.slots \in Seq(Entries) /\ p.free \in Seq(Nat \ {0})
    BY DEF WellFormed
  <1>2. Len(p.slots) \in Nat /\ Len(p.free) \in Nat
    BY <1>1, LenProperties
  <1>3. CASE Reuses(p)
    <2> DEFINE n == p.free[Len(p.free)]
               g == p.slots[n].generation
    <2>1. n \in Nat \ {0} /\ Len(p.free) \in 1..Len(p.free)
      BY <1>1, <1>3, AppendCut DEF Reuses
    <2>2. n <= Len(p.slots)
      BY <2>1 DEF WellFormed
    <2>3. ~p.slots[n].occupied
      BY <2>1 DEF WellFormed
    <2>4. id = Handle(n, g + 1) /\ q.slots = [p.slots EXCEPT ![n] = Occupied(g + 1)]
      BY <1>3 DEF Allocated, Allocate, NextSlot, Handle
    <2> HIDE DEF n
    <2>5. n \in 1..Len(p.slots)
      BY <1>2, <2>1, <2>2
    <2>6. g \in Nat
      <3>1. p.slots[n] \in Entries
        BY <1>1, <2>5, ElementOfSeq
      <3>2. QED
        BY <3>1 DEF Entries
    <2>7. Occupied(g + 1) \in Entries
      BY <2>6 DEF Occupied, Entries
    <2> HIDE DEF g
    <2>8. /\ Len(q.slots) = Len(p.slots) /\ q.slots[n] = Occupied(g + 1)
          /\ \A i \in 1..Len(p.slots) : i # n => q.slots[i] = p.slots[i]
      BY <1>1, <2>4, <2>5, <2>7, WriteBack
    <2>9. id.slot = n /\ id.generation = g + 1 /\ id \in Handles
      BY <2>1, <2>4, <2>6 DEF Handle, Handles
    <2>10. q.slots[n].generation = g + 1
      BY <2>8 DEF Occupied
    <2>11. ~HandedOut(p, id)
      <3>1. ~(g + 1 <= p.slots[n].generation)
        BY <2>6 DEF g
      <3>2. QED
        BY <2>9, <3>1 DEF HandedOut
    <2>12. HandedOut(q, id) /\ IsLive(q, id)
      BY <2>5, <2>6, <2>8, <2>9, <2>10 DEF HandedOut, IsLive
    <2>13. ASSUME NEW h \in Handles, HandedOut(p, h)
           PROVE  HandedOut(q, h)
      <3>1. h.slot \in 1..Len(p.slots) /\ h.generation <= p.slots[h.slot].generation
            /\ h.generation \in Nat
        BY <2>13 DEF HandedOut, Handles
      <3>2. CASE h.slot = n
        <4>1. h.generation <= g
          BY <3>1, <3>2 DEF g
        <4>2. h.generation <= g + 1
          BY <2>6, <3>1, <4>1
        <4>3. QED
          BY <2>8, <2>10, <3>1, <3>2, <4>2 DEF HandedOut
      <3>3. CASE h.slot # n
        BY <2>8, <3>1, <3>3 DEF HandedOut
      <3>4. QED
        BY <3>2, <3>3
    <2>14. ASSUME NEW h \in Handles, IsLive(p, h)
           PROVE  IsLive(q, h) /\ h.slot # id.slot
      <3>1. h.slot \in 1..Len(p.slots) /\ p.slots[h.slot] = Occupied(h.generation)
        BY <2>14 DEF IsLive
      <3>2. h.slot # n
        BY <2>3, <3>1 DEF Occupied
      <3>3. QED
        BY <2>8, <2>9, <3>1, <3>2 DEF IsLive
    <2>15. ASSUME NEW s \in 1..Len(q.slots), q.slots[s].occupied
           PROVE  s = id.slot \/ (s \in 1..Len(p.slots) /\ p.slots[s].occupied)
      BY <2>8, <2>9, <2>15
    <2>16. QED
      BY <2>9, <2>11, <2>12, <2>13, <2>14, <2>15
  <1>4. CASE ~Reuses(p)
    <2> DEFINE n == Len(p.slots) + 1
    <2>1. id = Handle(n, 0) /\ q.slots = Append(p.slots, Occupied(0))
      <3>1. q = [p EXCEPT !.slots = Append(@, Occupied(0))]
        BY <1>4 DEF Allocate
      <3>2. p \in [slots : Seq(Entries), free : Seq(Nat \ {0})]
        BY DEF WellFormed
      <3>3. QED
        BY <1>4, <3>1, <3>2 DEF Allocated, NextSlot
    <2>2. Occupied(0) \in Entries
      BY DEF Occupied, Entries
    <2>3. /\ Len(q.slots) = n /\ q.slots[n] = Occupied(0)
          /\ \A i \in 1..Len(p.slots) : q.slots[i] = p.slots[i]
      BY <1>1, <2>1, <2>2, AppendProperties
    <2>4. id.slot = n /\ id.generation = 0 /\ id \in Handles /\ n \in Nat
      BY <1>2, <2>1 DEF Handle, Handles
    <2>5. n \notin 1..Len(p.slots) /\ n \in 1..n /\ \A i \in 1..Len(p.slots) : i \in 1..n /\ i # n
      BY <1>2
    <2>6. \A s \in 1..n : s = n \/ s \in 1..Len(p.slots)
      BY <1>2
    <2>7. q.slots[n].generation = 0
      BY <2>3 DEF Occupied
    <2> HIDE DEF n
    <2>8. ~HandedOut(p, id) /\ HandedOut(q, id) /\ IsLive(q, id)
      BY <2>3, <2>4, <2>5, <2>7 DEF HandedOut, IsLive
    <2>9. \A h \in Handles : HandedOut(p, h) => HandedOut(q, h)
      BY <2>3, <2>5 DEF HandedOut
    <2>10. \A h \in Handles : IsLive(p, h) => IsLive(q, h) /\ h.slot # id.slot
      BY <2>3, <2>4, <2>5 DEF IsLive
    <2>11. \A s \in 1..Len(q.slots) :
              q.slots[s].occupied => s = id.slot \/ (s \in 1..Len(p.slots) /\ p.slots[s].occupied)
      BY <2>3, <2>4, <2>6
    <2>12. QED
      BY <2>4, <2>8, <2>9, <2>10, <2>11
  <1>5. QED
    BY <1>3, <1>4

(* Releasing takes the one handle's life and no other's, and forgets none.     *)
THEOREM ReleaseEndsOne ==
  ASSUME NEW p, WellFormed(p), NEW id \in Handles, IsLive(p, id), NEW q, q = Release(p, id)
  PROVE  /\ \A h \in Handles : HandedOut(p, h) => HandedOut(q, h)
         /\ \A h \in Handles : IsLive(p, h) /\ h.slot # id.slot => IsLive(q, h)
         /\ \A s \in 1..Len(q.slots) :
               q.slots[s].occupied => s \in 1..Len(p.slots) /\ p.slots[s].occupied /\ s # id.slot
  <1> DEFINE n == id.slot
             g == id.generation
  <1>1. p.slots \in Seq(Entries) /\ n \in 1..Len(p.slots) /\ p.slots[n] = Occupied(g) /\ g \in Nat
    BY DEF WellFormed, IsLive, Handles
  <1>2. q.slots = [p.slots EXCEPT ![n] = Vacant(g)]
    BY DEF Release
  <1>3. Vacant(g) \in Entries
    BY <1>1 DEF Vacant, Entries
  <1> HIDE DEF n, g
  <1>4. /\ Len(q.slots) = Len(p.slots) /\ q.slots[n] = Vacant(g)
        /\ \A i \in 1..Len(p.slots) : i # n => q.slots[i] = p.slots[i]
    BY <1>1, <1>2, <1>3, WriteBack
  <1>5. q.slots[n].generation = p.slots[n].generation /\ ~q.slots[n].occupied
    BY <1>1, <1>4 DEF Vacant, Occupied
  <1>6. \A h \in Handles : HandedOut(p, h) => HandedOut(q, h)
    BY <1>4, <1>5 DEF HandedOut
  <1>7. \A h \in Handles : IsLive(p, h) /\ h.slot # n => IsLive(q, h)
    BY <1>4 DEF IsLive
  <1>8. \A s \in 1..Len(q.slots) :
           q.slots[s].occupied => s \in 1..Len(p.slots) /\ p.slots[s].occupied /\ s # n
    BY <1>4, <1>5
  <1>9. QED
    BY <1>6, <1>7, <1>8 DEF n

-------------------------------------------------------------------------------
(* The canonical arena (CanonicalArena).                                   *)

Arenas(N, B, C, E) == [nodes : Seq(N), bytes : Seq(B), children : Seq(C), entries : Seq(E)]

Extends(s, t) == Len(s) <= Len(t) /\ \A i \in 1..Len(s) : t[i] = s[i]

(* The second arena is the first, with more behind each of its vectors.      *)
Grown(old, new) ==
    /\ Extends(old.nodes, new.nodes)
    /\ Extends(old.bytes, new.bytes)
    /\ Extends(old.children, new.children)
    /\ Extends(old.entries, new.entries)

LEMMA AppendExtends ==
    ASSUME NEW S, NEW s \in Seq(S), NEW x
    PROVE  /\ Append(s, x) \in Seq(S \union {x})
           /\ Len(Append(s, x)) = Len(s) + 1
           /\ Append(s, x)[Len(s) + 1] = x
           /\ Extends(s, Append(s, x))
<1>1. s \in Seq(S \union {x}) OBVIOUS
<1>. QED BY <1>1 DEF Extends

LEMMA ConcatExtends ==
    ASSUME NEW S, NEW s \in Seq(S), NEW t \in Seq(S)
    PROVE  /\ s \o t \in Seq(S)
           /\ Len(s \o t) = Len(s) + Len(t)
           /\ \A i \in 1..Len(t) : (s \o t)[Len(s) + i] = t[i]
           /\ Extends(s, s \o t)
BY ConcatProperties DEF Extends

(* A vector cut back to its length before is the vector before.              *)
LEMMA CutBack ==
    ASSUME NEW S, NEW T, NEW s \in Seq(S), NEW t \in Seq(T), Extends(s, t)
    PROVE  SubSeq(t, 1, Len(s)) = s
<1>. DEFINE k == Len(s)
<1>1. k \in Nat /\ k <= Len(t) BY DEF Extends
<1>2. \A i \in 1..k : t[i] \in T BY <1>1
<1>3. \A i \in 1..k : t[i] = s[i] BY DEF Extends
<1>4. s \in [1..k -> S] OBVIOUS
<1>. HIDE DEF k
<1>5. /\ SubSeq(t, 1, k) \in Seq(T)
      /\ Len(SubSeq(t, 1, k)) = IF 1 <= k THEN k - 1 + 1 ELSE 0
      /\ \A i \in 1..(k - 1 + 1) : SubSeq(t, 1, k)[i] = t[1 + i - 1]
  BY <1>1, <1>2, SubSeqProperties
<1>6. Len(SubSeq(t, 1, k)) = k /\ \A i \in 1..k : SubSeq(t, 1, k)[i] = s[i]
  BY <1>1, <1>3, <1>5
<1>. DEFINE cut == SubSeq(t, 1, k)
<1>7. cut \in Seq(T) /\ Len(cut) = Len(s) /\ \A i \in 1..Len(s) : cut[i] = s[i]
  BY <1>5, <1>6 DEF k
<1>. HIDE DEF cut
<1>8. cut = s BY <1>7
<1>. QED BY <1>8 DEF cut, k

(* Restoring to a mark undoes everything added since it was taken, whatever  *)
(* and however much that was (CanonicalArena::restore).                     *)
THEOREM RestoreUndoesAdditions ==
    ASSUME NEW N, NEW B, NEW C, NEW E, NEW N1, NEW B1, NEW C1, NEW E1,
           NEW old \in Arenas(N, B, C, E), NEW new \in Arenas(N1, B1, C1, E1), Grown(old, new)
    PROVE  /\ MarkInside(new, arena_mark(old))
           /\ restored(new, arena_mark(old)) = old
<1>1. /\ Len(old.nodes) <= Len(new.nodes) /\ Len(old.bytes) <= Len(new.bytes)
      /\ Len(old.children) <= Len(new.children) /\ Len(old.entries) <= Len(new.entries)
  BY DEF Grown, Extends
<1>2. SubSeq(new.nodes, 1, Len(old.nodes)) = old.nodes BY CutBack DEF Arenas, Grown
<1>3. SubSeq(new.bytes, 1, Len(old.bytes)) = old.bytes BY CutBack DEF Arenas, Grown
<1>4. SubSeq(new.children, 1, Len(old.children)) = old.children BY CutBack DEF Arenas, Grown
<1>5. SubSeq(new.entries, 1, Len(old.entries)) = old.entries BY CutBack DEF Arenas, Grown
<1>6. restored(new, arena_mark(old)) =
        [nodes |-> old.nodes, bytes |-> old.bytes, children |-> old.children,
         entries |-> old.entries]
  BY <1>2, <1>3, <1>4, <1>5 DEF restored, arena_mark
<1>. QED BY <1>1, <1>6 DEF MarkInside, arena_mark, Arenas

LEMMA ExtendsTransitive ==
    ASSUME NEW R, NEW S, NEW T, NEW r \in Seq(R), NEW s \in Seq(S), NEW t \in Seq(T),
           Extends(r, s), Extends(s, t)
    PROVE  Extends(r, t)
<1>1. Len(r) \in Nat /\ Len(s) \in Nat /\ Len(t) \in Nat OBVIOUS
<1>2. Len(r) <= Len(t) BY <1>1 DEF Extends
<1>3. ASSUME NEW i \in 1..Len(r) PROVE t[i] = r[i]
  <2>1. i \in 1..Len(s) BY <1>1 DEF Extends
  <2>. QED BY <2>1 DEF Extends
<1>. QED BY <1>2, <1>3 DEF Extends

(* Hence the theorem above holds of any number of additions, one after       *)
(* another.                                                                *)
THEOREM GrownTransitive ==
    ASSUME NEW N, NEW B, NEW C, NEW E, NEW N1, NEW B1, NEW C1, NEW E1,
           NEW N2, NEW B2, NEW C2, NEW E2,
           NEW a \in Arenas(N, B, C, E), NEW b \in Arenas(N1, B1, C1, E1),
           NEW c \in Arenas(N2, B2, C2, E2), Grown(a, b), Grown(b, c)
    PROVE  Grown(a, c)
<1>1. Extends(a.nodes, c.nodes) BY ExtendsTransitive DEF Arenas, Grown
<1>2. Extends(a.bytes, c.bytes) BY ExtendsTransitive DEF Arenas, Grown
<1>3. Extends(a.children, c.children) BY ExtendsTransitive DEF Arenas, Grown
<1>4. Extends(a.entries, c.entries) BY ExtendsTransitive DEF Arenas, Grown
<1>. QED BY <1>1, <1>2, <1>3, <1>4 DEF Grown

-------------------------------------------------------------------------------
(* What an addition does: one node more, and nothing before it moved.         *)

LEMMA SpanStays ==
    ASSUME NEW S, NEW T, NEW s \in Seq(S), NEW t \in Seq(T), Extends(s, t),
           NEW span, SpanInside(span, s)
    PROVE  /\ SpanInside(span, t)
           /\ \A i \in Places(span) : i \in 1..Len(s) /\ t[i] = s[i]
<1>. DEFINE start == span.start
            len == span.len
<1>1. start \in Nat /\ len \in Nat /\ start + len <= Len(s) BY DEF SpanInside
<1>2. Len(s) \in Nat /\ Len(t) \in Nat /\ Len(s) <= Len(t) BY DEF Extends
<1>3. Places(span) = start + 1..start + len BY DEF Places
<1>. HIDE DEF start, len
<1>4. start + len <= Len(t) BY <1>1, <1>2
<1>5. ASSUME NEW i \in start + 1..start + len PROVE i \in 1..Len(s) BY <1>1, <1>2
<1>6. \A i \in start + 1..start + len : t[i] = s[i] BY <1>5 DEF Extends
<1>7. SpanInside(span, t) BY <1>1, <1>4 DEF SpanInside, start, len
<1>. QED BY <1>3, <1>5, <1>6, <1>7

LEMMA NodeStays ==
    ASSUME NEW N, NEW B, NEW C, NEW E, NEW N1, NEW B1, NEW C1, NEW E1,
           NEW old \in Arenas(N, B, C, E), NEW new \in Arenas(N1, B1, C1, E1), Grown(old, new),
           NEW id \in 1..Len(old.nodes), NodeRefersBack(old, id)
    PROVE  NodeRefersBack(new, id)
<1>. DEFINE node == old.nodes[id]
<1>1. new.nodes[id] = node BY DEF Grown, Extends
<1>2. /\ node.type = "string" => SpanInside(node.span, old.bytes)
      /\ node.type = "array" =>
            /\ SpanInside(node.span, old.children)
            /\ \A i \in Places(node.span) : old.children[i] \in 1..id - 1
      /\ node.type = "object" =>
            /\ SpanInside(node.span, old.entries)
            /\ \A i \in Places(node.span) : old.entries[i].value \in 1..id - 1
  BY DEF NodeRefersBack
<1>. HIDE DEF node
<1>3. /\ old.bytes \in Seq(B) /\ new.bytes \in Seq(B1) /\ Extends(old.bytes, new.bytes)
      /\ old.children \in Seq(C) /\ new.children \in Seq(C1)
      /\ Extends(old.children, new.children)
      /\ old.entries \in Seq(E) /\ new.entries \in Seq(E1)
      /\ Extends(old.entries, new.entries)
  BY DEF Arenas, Grown
<1>4. ASSUME node.type = "string" PROVE SpanInside(node.span, new.bytes)
  BY <1>2, <1>3, <1>4, SpanStays
<1>5. ASSUME node.type = "array"
      PROVE  /\ SpanInside(node.span, new.children)
             /\ \A i \in Places(node.span) : new.children[i] \in 1..id - 1
  <2>1. /\ SpanInside(node.span, new.children)
        /\ \A i \in Places(node.span) : new.children[i] = old.children[i]
    BY <1>2, <1>3, <1>5, SpanStays
  <2>. QED BY <1>2, <1>5, <2>1
<1>6. ASSUME node.type = "object"
      PROVE  /\ SpanInside(node.span, new.entries)
             /\ \A i \in Places(node.span) : new.entries[i].value \in 1..id - 1
  <2>1. /\ SpanInside(node.span, new.entries)
        /\ \A i \in Places(node.span) : new.entries[i] = old.entries[i]
    BY <1>2, <1>3, <1>6, SpanStays
  <2>. QED BY <1>2, <1>6, <2>1
<1>. QED BY <1>1, <1>4, <1>5, <1>6 DEF NodeRefersBack

-------------------------------------------------------------------------------
(* The bytes of the keys of an object, one key behind another.             *)

\* What FlattenSeq writes up to each element, one recursive function.
FlattenTable(ss, n, f) ==
  f = [i \in 1..n |-> IF i = 1 THEN ss[i] ELSE f[i - 1] \o ss[i]]

LEMMA FlattenTableExists ==
  ASSUME NEW ss, NEW n \in Nat
  PROVE  \E f : FlattenTable(ss, n, f)
  <1> DEFINE S == {k \in Nat : \E f : FlattenTable(ss, k, f)}
  <1>1. 0 \in S
    <2> DEFINE f == [i \in 1..0 |-> ss]
    <2>1. FlattenTable(ss, 0, f)
      BY DEF FlattenTable
    <2> HIDE DEF f
    <2>2. QED
      BY <2>1
  <1>2. ASSUME NEW k \in Nat, k \in S
        PROVE  k + 1 \in S
    <2>1. PICK f : FlattenTable(ss, k, f)
      BY <1>2
    <2> DEFINE last == IF k + 1 = 1 THEN ss[k + 1] ELSE f[k] \o ss[k + 1]
               more == [i \in 1..(k + 1) |-> IF i = k + 1 THEN last ELSE f[i]]
    <2>2. \A i \in 1..(k + 1) : more[i] = IF i = k + 1 THEN last ELSE f[i]
      OBVIOUS
    <2>3. \A i \in 1..k : f[i] = IF i = 1 THEN ss[i] ELSE f[i - 1] \o ss[i]
      BY <2>1 DEF FlattenTable
    <2>4. ASSUME NEW i \in 1..(k + 1)
          PROVE  more[i] = IF i = 1 THEN ss[i] ELSE more[i - 1] \o ss[i]
      <3>1. CASE i = k + 1
        <4>1. i # 1 => i - 1 \in 1..k /\ i - 1 \in 1..(k + 1) /\ i - 1 = k /\ k # k + 1
          BY <3>1
        <4>2. i # 1 => more[i - 1] = f[k]
          BY <2>2, <4>1
        <4>3. more[i] = last
          BY <2>2, <3>1
        <4> HIDE DEF more
        <4>4. QED
          BY <3>1, <4>2, <4>3
      <3>2. CASE i # k + 1
        <4>1. /\ i \in 1..k
              /\ i # 1 => i - 1 \in 1..k /\ i - 1 \in 1..(k + 1) /\ i - 1 # k + 1
          BY <3>2
        <4> HIDE DEF more
        <4>2. more[i] = f[i] /\ (i # 1 => more[i - 1] = f[i - 1])
          BY <2>2, <3>2, <4>1
        <4>3. QED
          BY <2>3, <4>1, <4>2
      <3>3. QED
        BY <3>1, <3>2
    <2>5. more = [i \in 1..(k + 1) |-> more[i]]
      OBVIOUS
    <2> HIDE DEF more
    <2>6. FlattenTable(ss, k + 1, more)
      BY <2>4, <2>5 DEF FlattenTable
    <2>7. QED
      BY <2>6
  <1> HIDE DEF S
  <1>3. n \in S
    BY <1>1, <1>2, Induct
  <1>4. QED
    BY <1>3 DEF S

LEMMA FlattenReads ==
  ASSUME NEW ss, IsSeq(ss), Len(ss) # 0
  PROVE  \E f : FlattenTable(ss, Len(ss), f) /\ FlattenSeq(ss) = f[Len(ss)]
  <1> DEFINE f == CHOOSE f : FlattenTable(ss, Len(ss), f)
  <1>1. FlattenTable(ss, Len(ss), f)
    BY IsSeqLen, FlattenTableExists
  <1>2. FlattenSeq(ss) = f[Len(ss)]
    BY DEF FlattenSeq, FlattenTable
  <1>3. QED
    BY <1>1, <1>2

LEMMA FlattenAppend ==
  ASSUME NEW ss, IsSeq(ss), NEW t, IsSeq(t)
  PROVE  FlattenSeq(Append(ss, t)) = FlattenSeq(ss) \o t
  <1> DEFINE n == Len(ss)
             more == Append(ss, t)
  <1>1. /\ n \in Nat /\ IsSeq(more) /\ Len(more) = n + 1 /\ more[n + 1] = t
        /\ \A i \in 1..n : more[i] = ss[i]
    BY IsSeqLen, IsSeqAppend
  <1> HIDE DEF more
  <1>2. PICK g : FlattenTable(more, n + 1, g) /\ FlattenSeq(more) = g[n + 1]
    <2>1. Len(more) # 0
      BY <1>1
    <2>2. QED
      BY <1>1, <2>1, FlattenReads
  <1>3. \A i \in 1..(n + 1) : g[i] = IF i = 1 THEN more[i] ELSE g[i - 1] \o more[i]
    BY <1>2 DEF FlattenTable
  <1>4. CASE n = 0
    <2>1. ss = <<>> /\ FlattenSeq(ss) = <<>>
      BY <1>4, EmptySeq DEF IsSeq, FlattenSeq
    <2>2. g[1] = t
      BY <1>1, <1>3, <1>4
    <2>3. <<>> \o t = t
      BY ConcatEmptySeq DEF IsSeq
    <2>4. FlattenSeq(more) = t
      BY <1>1, <1>2, <1>4, <2>2
    <2>5. FlattenSeq(ss) \o t = t
      BY <2>1, <2>3
    <2>6. QED
      BY <2>4, <2>5 DEF more
  <1>5. CASE n # 0
    <2>1. PICK f : FlattenTable(ss, n, f) /\ FlattenSeq(ss) = f[n]
      BY <1>5, FlattenReads
    <2>2. \A i \in 1..n : f[i] = IF i = 1 THEN ss[i] ELSE f[i - 1] \o ss[i]
      BY <2>1 DEF FlattenTable
    <2> DEFINE Agree(i) == i \in 1..n => f[i] = g[i]
               S == {i \in Nat : Agree(i)}
    <2>3. 0 \in S
      OBVIOUS
    <2>4. ASSUME NEW i \in Nat, i \in S
          PROVE  i + 1 \in S
      <3>1. ASSUME i + 1 \in 1..n
            PROVE  f[i + 1] = g[i + 1]
        <4>1. i + 1 \in 1..(n + 1) /\ (i + 1 # 1 => i \in 1..n) /\ (i + 1) - 1 = i
          BY <1>1, <3>1
        <4>2. i + 1 # 1 => f[i] = g[i]
          BY <2>4, <4>1
        <4>3. /\ f[i + 1] = IF i + 1 = 1 THEN ss[i + 1] ELSE f[i] \o ss[i + 1]
              /\ g[i + 1] = IF i + 1 = 1 THEN more[i + 1] ELSE g[i] \o more[i + 1]
          BY <1>3, <2>2, <3>1, <4>1
        <4>4. QED
          BY <1>1, <3>1, <4>2, <4>3
      <3>2. Agree(i + 1)
        BY <3>1
      <3> HIDE DEF Agree
      <3>3. QED
        BY <3>2
    <2> HIDE DEF S
    <2>5. n \in S
      BY <1>1, <2>3, <2>4, Induct
    <2>6. f[n] = g[n]
      BY <1>1, <1>5, <2>5 DEF S
    <2>7. g[n + 1] = g[n] \o t
      <3>1. n + 1 \in 1..(n + 1) /\ n + 1 # 1 /\ (n + 1) - 1 = n
        BY <1>1, <1>5
      <3>2. QED
        BY <1>1, <1>3, <3>1
    <2>8. QED
      BY <1>2, <2>1, <2>6, <2>7 DEF more
  <1>6. QED
    BY <1>4, <1>5

\* The bytes of the first keys of a sequence of keys, and how many they are.
LEMMA FlattenPrefix ==
  ASSUME NEW ss, IsSeq(ss), \A i \in 1..Len(ss) : IsSeq(ss[i]), NEW n \in 0..Len(ss)
  PROVE  /\ IsSeq(FlattenSeq(SubSeq(ss, 1, n)))
         /\ n > 0 => Len(FlattenSeq(SubSeq(ss, 1, n)))
                       = Len(FlattenSeq(SubSeq(ss, 1, n - 1))) + Len(ss[n])
  <1> DEFINE First(k) == FlattenSeq(SubSeq(ss, 1, k))
             Fine(k) == k <= Len(ss) => IsSeq(First(k))
             S == {k \in Nat : Fine(k)}
  <1>1. Len(ss) \in Nat /\ ss \in Seq(ToSet(ss))
    BY IsSeqLen DEF IsSeq
  <1>2. ASSUME NEW k \in Nat, k + 1 <= Len(ss)
        PROVE  /\ SubSeq(ss, 1, k + 1) = Append(SubSeq(ss, 1, k), ss[k + 1])
               /\ IsSeq(SubSeq(ss, 1, k))
    <2> DEFINE cut == Truncate(ss, k + 1)
    <2>1. k \in 0..Len(ss) /\ k + 1 \in 0..Len(ss) /\ k \in 0..(k + 1) /\ k + 1 \in 1..(k + 1)
      BY <1>1, <1>2
    <2>2. /\ cut \in Seq(ToSet(ss)) /\ Len(cut) = k + 1 /\ cut[k + 1] = ss[k + 1]
          /\ Truncate(cut, k) = Truncate(ss, k) /\ Truncate(ss, k) \in Seq(ToSet(ss))
      BY <1>1, <2>1, TruncateFacts, TruncateTwice
    <2> HIDE DEF cut
    <2>3. cut = Append(Truncate(cut, k), cut[k + 1])
      BY <2>2, LastBack
    <2>4. IsSeq(Truncate(ss, k))
      BY <2>2, SeqIsSeq
    <2>5. QED
      BY <2>2, <2>3, <2>4 DEF cut, Truncate
  <1>3. ASSUME NEW k \in Nat, k + 1 <= Len(ss), IsSeq(First(k))
        PROVE  IsSeq(First(k + 1)) /\ Len(First(k + 1)) = Len(First(k)) + Len(ss[k + 1])
    <2>1. IsSeq(ss[k + 1])
      BY <1>1, <1>3
    <2>2. First(k + 1) = First(k) \o ss[k + 1]
      BY <1>2, <1>3, <2>1, FlattenAppend
    <2>3. IsSeq(First(k))
      BY <1>3
    <2> DEFINE u == First(k)
               w == ss[k + 1]
    <2>4. IsSeq(u) /\ IsSeq(w)
      BY <2>1, <2>3
    <2>5. First(k + 1) = u \o w
      BY <2>2
    <2> HIDE DEF First, u, w
    <2>6. IsSeq(u \o w) /\ Len(u \o w) = Len(u) + Len(w)
      BY <2>4, IsSeqConcat
    <2>7. IsSeq(First(k + 1)) /\ Len(First(k + 1)) = Len(u) + Len(w)
      BY <2>5, <2>6
    <2>8. QED
      BY <2>7 DEF u, w
  <1>4. 0 \in S
    <2>1. SubSeq(ss, 1, 0) = <<>> /\ FlattenSeq(<<>>) = <<>>
      <3>1. Truncate(ss, 0) \in Seq(ToSet(ss)) /\ Len(Truncate(ss, 0)) = 0
        BY <1>1, TruncateFacts
      <3>2. Truncate(ss, 0) = <<>>
        BY <3>1, EmptySeq
      <3>3. QED
        BY <3>2, IsSeqEmpty DEF FlattenSeq, Truncate
    <2>2. QED
      BY <2>1, IsSeqEmpty
  <1>5. ASSUME NEW k \in Nat, k \in S
        PROVE  k + 1 \in S
    <2>1. Fine(k + 1)
      <3> SUFFICES ASSUME k + 1 <= Len(ss)
                   PROVE  IsSeq(First(k + 1))
        OBVIOUS
      <3>1. k <= Len(ss)
        BY <1>1
      <3>2. IsSeq(First(k))
        BY <1>5, <3>1
      <3> HIDE DEF First
      <3>3. QED
        BY <1>3, <3>2
    <2> HIDE DEF Fine
    <2>2. QED
      BY <2>1
  <1> HIDE DEF S
  <1>6. \A k \in Nat : k \in S
    BY <1>4, <1>5, Induct
  <1>7. IsSeq(First(n))
    BY <1>1, <1>6 DEF S
  <1>8. ASSUME n > 0
        PROVE  Len(First(n)) = Len(First(n - 1)) + Len(ss[n])
    <2> DEFINE k == n - 1
    <2>1. k \in Nat /\ k + 1 <= Len(ss) /\ k <= Len(ss) /\ k + 1 = n
      BY <1>1, <1>8
    <2> HIDE DEF k
    <2>2. IsSeq(First(k))
      BY <1>6, <2>1 DEF S
    <2>3. Len(First(k + 1)) = Len(First(k)) + Len(ss[k + 1])
      <3> HIDE DEF First
      <3>1. QED
        BY <1>3, <2>1, <2>2
    <2>4. QED
      BY <2>1, <2>3 DEF k
  <1>9. QED
    BY <1>7, <1>8

-------------------------------------------------------------------------------
(* Arenas of whatever elements, as the cursor has them.                     *)

IsArena(a) ==
  /\ a = [nodes |-> a.nodes, bytes |-> a.bytes, children |-> a.children, entries |-> a.entries]
  /\ IsSeq(a.nodes) /\ IsSeq(a.bytes) /\ IsSeq(a.children) /\ IsSeq(a.entries)

Whole(a) == IsArena(a) /\ RefersBack(a) /\ KeysInside(a)

\* An addition: one node, and something behind each of the other vectors.
Addition(a, node, bytes, children, entries) ==
  [nodes |-> Append(a.nodes, node), bytes |-> a.bytes \o bytes,
   children |-> a.children \o children, entries |-> a.entries \o entries]

LEMMA ArenaIsTyped ==
  ASSUME NEW a, IsArena(a)
  PROVE  a \in Arenas(ToSet(a.nodes), ToSet(a.bytes), ToSet(a.children), ToSet(a.entries))
  BY DEF IsArena, IsSeq, Arenas

LEMMA GrownReflexive ==
  ASSUME NEW a, IsArena(a)
  PROVE  Grown(a, a)
  BY IsSeqLen DEF IsArena, Grown, Extends

LEMMA GrownThrough ==
  ASSUME NEW a, NEW b, NEW c, IsArena(a), IsArena(b), IsArena(c), Grown(a, b), Grown(b, c)
  PROVE  Grown(a, c)
  BY ArenaIsTyped, GrownTransitive

\* Restoring a grown arena to its mark.
LEMMA RestoredArena ==
  ASSUME NEW a, NEW b, IsArena(a), IsArena(b), Grown(a, b)
  PROVE  MarkInside(b, arena_mark(a)) /\ restored(b, arena_mark(a)) = a
  BY ArenaIsTyped, RestoreUndoesAdditions

LEMMA AddedGrows ==
  ASSUME NEW a, IsArena(a), NEW node, NEW bytes, NEW children, NEW entries,
         IsSeq(bytes), IsSeq(children), IsSeq(entries),
         NEW b, b = Addition(a, node, bytes, children, entries)
  PROVE  /\ IsArena(b) /\ Grown(a, b)
         /\ Len(b.nodes) = Len(a.nodes) + 1 /\ b.nodes[Len(a.nodes) + 1] = node
         /\ Len(a.nodes) \in Nat
  <1>1. /\ b = [nodes |-> b.nodes, bytes |-> b.bytes, children |-> b.children,
                entries |-> b.entries]
        /\ b.nodes = Append(a.nodes, node) /\ b.bytes = a.bytes \o bytes
        /\ b.children = a.children \o children /\ b.entries = a.entries \o entries
    BY DEF Addition
  <1>2. /\ IsSeq(b.nodes) /\ Len(b.nodes) = Len(a.nodes) + 1
        /\ b.nodes[Len(a.nodes) + 1] = node /\ Extends(a.nodes, b.nodes)
        /\ Len(a.nodes) \in Nat
    BY <1>1, IsSeqAppend, IsSeqLen DEF IsArena, Extends
  <1>3. ASSUME NEW s, NEW t, IsSeq(s), IsSeq(t)
        PROVE  IsSeq(s \o t) /\ Extends(s, s \o t)
    <2>1. Len(s) \in Nat /\ Len(t) \in Nat
      BY <1>3, IsSeqLen
    <2>2. /\ IsSeq(s \o t) /\ Len(s \o t) = Len(s) + Len(t)
          /\ \A i \in 1..Len(s) : (s \o t)[i] = s[i]
      BY <1>3, IsSeqConcat
    <2>3. QED
      BY <2>1, <2>2 DEF Extends
  <1>4. QED
    BY <1>1, <1>2, <1>3 DEF IsArena, Grown

\* Nothing is lost of what is whole when the new node refers back and the new keys
\* lie inside.
LEMMA AddedStaysWhole ==
  ASSUME NEW a, Whole(a), NEW node, NEW bytes, NEW children, NEW entries,
         IsSeq(bytes), IsSeq(children), IsSeq(entries),
         NEW b, b = Addition(a, node, bytes, children, entries),
         NodeRefersBack(b, Len(a.nodes) + 1),
         \A i \in 1..Len(entries) : SpanInside(entries[i].key, b.bytes)
  PROVE  Whole(b) /\ Grown(a, b) /\ Len(b.nodes) = Len(a.nodes) + 1
  <1>1. /\ IsArena(a) /\ RefersBack(a) /\ KeysInside(a) /\ IsArena(b) /\ Grown(a, b)
        /\ Len(b.nodes) = Len(a.nodes) + 1 /\ Len(a.nodes) \in Nat
    BY AddedGrows DEF Whole
  <1>2. ASSUME NEW id \in DOMAIN b.nodes
        PROVE  NodeRefersBack(b, id)
    <2>1. id \in 1..(Len(a.nodes) + 1)
      BY <1>1, IsSeqLen DEF IsArena
    <2>2. CASE id = Len(a.nodes) + 1
      BY <2>2
    <2>3. CASE id # Len(a.nodes) + 1
      <3>1. id \in 1..Len(a.nodes) /\ id \in DOMAIN a.nodes
        BY <1>1, <2>1, <2>3, IsSeqLen DEF IsArena
      <3>2. NodeRefersBack(a, id)
        BY <1>1, <3>1 DEF RefersBack
      <3>3. QED
        BY <1>1, <3>1, <3>2, ArenaIsTyped, NodeStays
    <2>4. QED
      BY <2>2, <2>3
  <1>3. ASSUME NEW i \in DOMAIN b.entries
        PROVE  SpanInside(b.entries[i].key, b.bytes)
    <2>1. /\ b.entries = a.entries \o entries /\ IsSeq(a.entries) /\ IsSeq(b.entries)
          /\ IsSeq(a.bytes) /\ IsSeq(b.bytes) /\ Extends(a.bytes, b.bytes)
      BY <1>1 DEF IsArena, Addition, Grown
    <2>2. /\ Len(b.entries) = Len(a.entries) + Len(entries)
          /\ \A j \in 1..Len(a.entries) : b.entries[j] = a.entries[j]
          /\ \A j \in 1..Len(entries) : b.entries[Len(a.entries) + j] = entries[j]
      BY <2>1, IsSeqConcat
    <2>3. /\ Len(a.entries) \in Nat /\ Len(entries) \in Nat /\ i \in 1..Len(b.entries)
          /\ DOMAIN a.entries = 1..Len(a.entries)
      BY <2>1, IsSeqLen
    <2>4. CASE i <= Len(a.entries)
      <3>1. i \in 1..Len(a.entries)
        BY <2>3, <2>4
      <3>2. SpanInside(a.entries[i].key, a.bytes)
        BY <1>1, <2>3, <3>1 DEF KeysInside
      <3>3. SpanInside(a.entries[i].key, b.bytes)
        BY <2>1, <3>2, SpanStays DEF IsSeq
      <3>4. QED
        BY <2>2, <3>1, <3>3
    <2>5. CASE ~(i <= Len(a.entries))
      <3> DEFINE p == Len(a.entries)
                 q == Len(entries)
                 j == i - p
      <3>1. p \in Nat /\ q \in Nat /\ i \in 1..(p + q) /\ ~(i <= p)
        BY <2>2, <2>3, <2>5
      <3>2. j \in 1..q /\ i = p + j
        <4> HIDE DEF p, q
        <4>1. QED
          BY <3>1
      <3>3. QED
        BY <2>2, <3>2
    <2>6. QED
      BY <2>4, <2>5
  <1>4. QED
    BY <1>1, <1>2, <1>3 DEF Whole, RefersBack, KeysInside

(* A literal or a number adds its node and nothing else (publish).            *)
THEOREM PublishKeepsArena ==
  ASSUME NEW a, Whole(a), NEW limits, NEW node, node.type \notin {"string", "array", "object"},
         NEW b \in publish(a, node, limits)
  PROVE  Whole(b) /\ Grown(a, b) /\ Len(b.nodes) = Len(a.nodes) + 1
  <1>1. b = Addition(a, node, <<>>, <<>>, <<>>)
    <2>1. b = [a EXCEPT !.nodes = Append(@, node)]
      BY DEF publish
    <2>2. a.bytes \o <<>> = a.bytes /\ a.children \o <<>> = a.children /\ a.entries \o <<>> = a.entries
      BY IsSeqConcat, IsSeqEmpty DEF Whole, IsArena
    <2>3. QED
      BY <2>1, <2>2 DEF Whole, IsArena, Addition
  <1>2. b.nodes[Len(a.nodes) + 1] = node
    BY <1>1, IsSeqEmpty, AddedGrows DEF Whole
  <1>3. NodeRefersBack(b, Len(a.nodes) + 1)
    BY <1>2 DEF NodeRefersBack
  <1>4. \A i \in 1..Len(<<>>) : SpanInside(<<>>[i].key, b.bytes)
    BY IsSeqEmpty
  <1>5. QED
    BY <1>1, <1>3, <1>4, IsSeqEmpty, AddedStaysWhole

(* A string's bytes lie where its node says (add_string).                     *)
THEOREM AddStringKeepsArena ==
  ASSUME NEW a, Whole(a), NEW limits, NEW value, IsSeq(value),
         NEW b \in add_string(a, value, limits)
  PROVE  /\ Whole(b) /\ Grown(a, b) /\ Len(b.nodes) = Len(a.nodes) + 1
         /\ b.nodes[Len(a.nodes) + 1].type = "string"
         /\ \A i \in 1..Len(value) :
               b.bytes[b.nodes[Len(a.nodes) + 1].span.start + i] = value[i]
  <1> DEFINE node == [type |-> "string", span |-> Span(a.bytes, value)]
  <1>0. /\ IsSeq(a.bytes) /\ IsSeq(a.children) /\ IsSeq(a.entries)
        /\ a.children \o <<>> = a.children /\ a.entries \o <<>> = a.entries
    BY IsSeqConcat, IsSeqEmpty DEF Whole, IsArena
  <1>1. b = Addition(a, node, value, <<>>, <<>>)
    <2>1. b = [a EXCEPT !.bytes = @ \o value, !.nodes = Append(@, node)]
      BY DEF add_string, publish, Whole, IsArena
    <2>2. QED
      BY <1>0, <2>1 DEF Whole, IsArena, Addition
  <1>2. /\ node.type = "string" /\ node.span.start = Len(a.bytes) /\ node.span.len = Len(value)
        /\ b.bytes = a.bytes \o value
    BY <1>1 DEF Span, Addition
  <1> HIDE DEF node
  <1>3. b.nodes[Len(a.nodes) + 1] = node
    BY <1>1, IsSeqEmpty, AddedGrows DEF Whole
  <1>4. SpanInside(node.span, b.bytes)
    <2>1. Len(a.bytes) \in Nat /\ Len(value) \in Nat
      BY <1>0, IsSeqLen
    <2>2. Len(a.bytes \o value) = Len(a.bytes) + Len(value)
      BY <1>0, IsSeqConcat
    <2>3. QED
      BY <1>2, <2>1, <2>2 DEF SpanInside
  <1>5. NodeRefersBack(b, Len(a.nodes) + 1)
    BY <1>2, <1>3, <1>4 DEF NodeRefersBack
  <1>6. \A i \in 1..Len(<<>>) : SpanInside(<<>>[i].key, b.bytes)
    BY IsSeqEmpty
  <1>7. Whole(b) /\ Grown(a, b) /\ Len(b.nodes) = Len(a.nodes) + 1
    BY <1>1, <1>5, <1>6, IsSeqEmpty, AddedStaysWhole
  <1>8. \A i \in 1..Len(value) : b.bytes[Len(a.bytes) + i] = value[i]
    <2>1. \A i \in 1..Len(value) : (a.bytes \o value)[Len(a.bytes) + i] = value[i]
      BY <1>0, IsSeqConcat
    <2>2. QED
      BY <1>2, <2>1
  <1>9. QED
    BY <1>2, <1>3, <1>7, <1>8

(* An array's items are nodes before it (add_array), so equality and           *)
(* fingerprints, which descend from a node to its items, come to an end.      *)
THEOREM AddArrayKeepsArena ==
  ASSUME NEW a, Whole(a), NEW limits, NEW values, IsSeq(values),
         NEW b \in add_array(a, values, limits)
  PROVE  Whole(b) /\ Grown(a, b) /\ Len(b.nodes) = Len(a.nodes) + 1
  <1> DEFINE node == [type |-> "array", span |-> Span(a.children, values)]
             n == Len(a.nodes) + 1
  <1>0. /\ IsSeq(a.nodes) /\ IsSeq(a.bytes) /\ IsSeq(a.children) /\ IsSeq(a.entries)
        /\ a.bytes \o <<>> = a.bytes /\ a.entries \o <<>> = a.entries
    BY IsSeqConcat, IsSeqEmpty DEF Whole, IsArena
  <1>1. b = Addition(a, node, <<>>, values, <<>>)
    <2>1. b = [a EXCEPT !.children = @ \o values, !.nodes = Append(@, node)]
      BY DEF add_array, publish, Whole, IsArena
    <2>2. QED
      BY <1>0, <2>1 DEF Whole, IsArena, Addition
  <1>2. /\ node.type = "array" /\ node.span.start = Len(a.children)
        /\ node.span.len = Len(values) /\ b.children = a.children \o values
    BY <1>1 DEF Span, Addition
  <1> HIDE DEF node
  <1>3. b.nodes[n] = node /\ n - 1 = Len(a.nodes) /\ Len(a.nodes) \in Nat
    BY <1>1, IsSeqEmpty, AddedGrows DEF Whole
  <1>4. /\ Len(a.children) \in Nat /\ Len(values) \in Nat
        /\ Len(b.children) = Len(a.children) + Len(values)
        /\ \A i \in 1..Len(values) : b.children[Len(a.children) + i] = values[i]
    <2>1. Len(a.children) \in Nat /\ Len(values) \in Nat
      BY <1>0, IsSeqLen
    <2>2. /\ Len(a.children \o values) = Len(a.children) + Len(values)
          /\ \A i \in 1..Len(values) : (a.children \o values)[Len(a.children) + i] = values[i]
      BY <1>0, IsSeqConcat
    <2>3. QED
      BY <1>2, <2>1, <2>2
  <1>5. ASSUME NEW i \in Places(node.span)
        PROVE  b.children[i] \in 1..(n - 1)
    <2> DEFINE j == i - Len(a.children)
    <2>1. j \in 1..Len(values) /\ i = Len(a.children) + j
      BY <1>2, <1>4 DEF Places
    <2>2. values[j] \in ToSet(values)
      BY <2>1, IsSeqLen DEF ToSet
    <2>3. values[j] \in 1..Len(a.nodes)
      BY <1>0, <2>2, IsSeqLen DEF add_array
    <2>4. b.children[i] = values[j]
      BY <1>4, <2>1
    <2>5. QED
      BY <1>3, <2>3, <2>4
  <1>6. SpanInside(node.span, b.children)
    BY <1>2, <1>4 DEF SpanInside
  <1> HIDE DEF n
  <1>7. NodeRefersBack(b, n)
    BY <1>2, <1>3, <1>5, <1>6 DEF NodeRefersBack
  <1>8. \A i \in 1..Len(<<>>) : SpanInside(<<>>[i].key, b.bytes)
    BY IsSeqEmpty
  <1>9. QED
    BY <1>1, <1>7, <1>8, IsSeqEmpty, AddedStaysWhole DEF n

\* The bytes of the first keys are no more than those of all the keys.
LEMMA FlattenMonotone ==
  ASSUME NEW ss, IsSeq(ss), \A i \in 1..Len(ss) : IsSeq(ss[i]),
         NEW n \in 0..Len(ss)
  PROVE  Len(FlattenSeq(SubSeq(ss, 1, n))) <= Len(FlattenSeq(SubSeq(ss, 1, Len(ss))))
  <1> DEFINE size(k) == Len(FlattenSeq(SubSeq(ss, 1, k)))
             Below(k) == n + k <= Len(ss) => size(n) <= size(n + k)
             S == {k \in Nat : Below(k)}
             m == Len(ss)
  <1>1. m \in Nat /\ n \in Nat /\ n <= m
    BY IsSeqLen
  <1>2. \A k \in 0..m : size(k) \in Nat
    BY FlattenPrefix, IsSeqLen
  <1>3. \A k \in 0..m : k > 0 => size(k) = size(k - 1) + Len(ss[k]) /\ Len(ss[k]) \in Nat
    <2> SUFFICES ASSUME NEW k \in 0..m, k > 0
                 PROVE  size(k) = size(k - 1) + Len(ss[k]) /\ Len(ss[k]) \in Nat
      OBVIOUS
    <2>1. k \in 1..m
      BY <1>1
    <2>2. QED
      BY <2>1, FlattenPrefix, IsSeqLen
  <1> HIDE DEF size
  <1>4. 0 \in S
    BY <1>1, <1>2
  <1>5. ASSUME NEW k \in Nat, k \in S
        PROVE  k + 1 \in S
    <2> SUFFICES ASSUME n + (k + 1) <= m
                 PROVE  size(n) <= size(n + (k + 1))
      OBVIOUS
    <2>1. n + k \in 0..m /\ n + (k + 1) \in 0..m /\ n + (k + 1) > 0 /\ n + (k + 1) - 1 = n + k
      BY <1>1
    <2>2. size(n) <= size(n + k)
      BY <1>1, <1>5, <2>1
    <2>3. /\ size(n) \in Nat /\ size(n + k) \in Nat /\ Len(ss[n + (k + 1)]) \in Nat
          /\ size(n + (k + 1)) = size(n + k) + Len(ss[n + (k + 1)])
      BY <1>1, <1>2, <1>3, <2>1
    <2>4. QED
      BY <2>2, <2>3
  <1> HIDE DEF Below
  <1>6. m - n \in S
    <2>1. m - n \in Nat
      BY <1>1
    <2> HIDE DEF S, m
    <2>2. QED
      BY <1>4, <1>5, <2>1, Induct
  <1>7. Below(m - n)
    BY <1>6
  <1>8. n + (m - n) = m
    BY <1>1
  <1>9. size(n) <= size(m)
    BY <1>1, <1>7, <1>8 DEF Below
  <1>10. QED
    BY <1>9 DEF size

LEMMA SpanFits ==
  ASSUME NEW x \in Nat, NEW y \in Nat, NEW z \in Nat, NEW t \in Nat, y + z <= t,
         NEW span, NEW s, span.start = x + y, span.len = z, Len(s) = x + t
  PROVE  SpanInside(span, s)
  <1>1. x + y \in Nat /\ (x + y) + z <= x + t
    OBVIOUS
  <1>2. QED
    BY <1>1 DEF SpanInside

LEMMA AddSorted ==
  ASSUME NEW a, Whole(a), NEW limits, NEW members, IsSeq(members),
         \A i \in 1..Len(members) : IsSeq(members[i][1]),
         NEW b \in add_sorted(a, members, limits)
  PROVE  /\ Whole(b) /\ Grown(a, b) /\ Len(b.nodes) = Len(a.nodes) + 1
         /\ b.nodes[Len(a.nodes) + 1].type = "object"
  <1> DEFINE keys == [i \in DOMAIN members |-> members[i][1]]
             KeyBytes(i) == FlattenSeq(SubSeq(keys, 1, i))
             entry(i) == [key |-> Span(a.bytes \o KeyBytes(i - 1), keys[i]),
                          value |-> members[i][2]]
             entries == [i \in DOMAIN members |-> entry(i)]
             node == [type |-> "object", span |-> Span(a.entries, entries)]
             m == Len(members)
             n == Len(a.nodes) + 1
             bytes == KeyBytes(m)
  <1>0. /\ IsSeq(a.nodes) /\ IsSeq(a.bytes) /\ IsSeq(a.children) /\ IsSeq(a.entries)
        /\ a.children \o <<>> = a.children
    BY IsSeqConcat DEF Whole, IsArena
  <1>1. m \in Nat /\ DOMAIN members = 1..m
    BY IsSeqLen
  <1>2. /\ IsSeq(keys) /\ Len(keys) = m /\ DOMAIN keys = 1..m
        /\ \A i \in 1..m : keys[i] = members[i][1] /\ IsSeq(keys[i])
    <2>1. \A i \in 1..m : keys[i] = members[i][1]
      BY <1>1
    <2>2. keys = [i \in 1..m |-> keys[i]]
      BY <1>1
    <2> HIDE DEF keys
    <2>3. QED
      BY <1>1, <2>1, <2>2, FunctionIsSeq
  <1>3. /\ IsSeq(entries) /\ Len(entries) = m
        /\ \A i \in 1..m : entries[i] = entry(i)
    <2>1. \A i \in 1..m : entries[i] = entry(i)
      BY <1>1
    <2>2. entries = [i \in 1..m |-> entries[i]]
      BY <1>1
    <2> HIDE DEF entries
    <2>3. QED
      BY <1>1, <2>1, <2>2, FunctionIsSeq
  <1>4. b = Addition(a, node, bytes, <<>>, entries) /\ \A i \in 1..m : members[i][2] \in 1..Len(a.nodes)
    <2>1. Len(keys) = m
      BY <1>2
    <2>2. /\ b \in publish([a EXCEPT !.bytes = @ \o KeyBytes(Len(keys)),
                                     !.entries = @ \o entries], node, limits)
          /\ ~(\E i \in DOMAIN members : members[i][2] \notin DOMAIN a.nodes)
      BY DEF add_sorted
    <2>3. b \in publish([a EXCEPT !.bytes = @ \o bytes, !.entries = @ \o entries], node, limits)
      BY <2>1, <2>2
    <2>4. \A i \in 1..m : members[i][2] \in 1..Len(a.nodes)
      BY <1>0, <1>1, <2>2, IsSeqLen
    <2> HIDE DEF bytes, entries, node
    <2>5. b = [a EXCEPT !.bytes = @ \o bytes, !.entries = @ \o entries, !.nodes = Append(@, node)]
      BY <2>3 DEF publish, Whole, IsArena
    <2>6. QED
      BY <1>0, <2>4, <2>5 DEF Whole, IsArena, Addition
  <1>5. \A i \in 0..m : IsSeq(KeyBytes(i))
    BY <1>2, FlattenPrefix
  <1>6. IsSeq(bytes)
    BY <1>1, <1>5
  <1>7. /\ node.type = "object" /\ node.span.start = Len(a.entries)
        /\ node.span.len = Len(entries) /\ b.entries = a.entries \o entries
        /\ b.bytes = a.bytes \o bytes
    BY <1>4 DEF Span, Addition
  <1>8. ASSUME NEW i \in 1..m
        PROVE  /\ entries[i].value \in 1..Len(a.nodes)
               /\ SpanInside(entries[i].key, b.bytes)
    <2>1. /\ entries[i].value = members[i][2]
          /\ entries[i].key = Span(a.bytes \o KeyBytes(i - 1), keys[i])
      BY <1>3
    <2>2. i - 1 \in 0..m /\ i \in 0..m /\ i > 0 /\ IsSeq(keys[i])
      BY <1>1, <1>2
    <2>3. /\ Len(KeyBytes(i)) = Len(KeyBytes(i - 1)) + Len(keys[i])
          /\ Len(KeyBytes(i)) <= Len(KeyBytes(m))
      <3>1. Len(KeyBytes(i)) = Len(KeyBytes(i - 1)) + Len(keys[i])
        BY <1>2, <2>2, FlattenPrefix
      <3>2. Len(KeyBytes(i)) <= Len(KeyBytes(m))
        BY <1>2, <2>2, FlattenMonotone
      <3>3. QED
        BY <3>1, <3>2
    <2> DEFINE w == KeyBytes(i - 1)
    <2>4. IsSeq(w) /\ Len(w) \in Nat /\ Len(keys[i]) \in Nat /\ Len(a.bytes) \in Nat
          /\ Len(bytes) \in Nat
      <3>1. IsSeq(w)
        BY <1>5, <2>2
      <3> HIDE DEF w
      <3>2. QED
        BY <1>0, <1>6, <2>2, <3>1, IsSeqLen
    <2>5. Len(b.bytes) = Len(a.bytes) + Len(bytes)
      BY <1>0, <1>6, <1>7, IsSeqConcat
    <2>6. Len(a.bytes \o w) = Len(a.bytes) + Len(w)
      <3>1. IsSeq(w)
        BY <2>4
      <3> HIDE DEF w
      <3>2. QED
        BY <1>0, <3>1, IsSeqConcat
    <2>7. Len(w) + Len(keys[i]) <= Len(bytes)
      BY <2>3
    <2> HIDE DEF entries, keys
    <2>8. /\ entries[i].key.start = Len(a.bytes) + Len(w)
          /\ entries[i].key.len = Len(keys[i])
      BY <2>1, <2>6 DEF Span
    <2> HIDE DEF w, bytes
    <2>9. SpanInside(entries[i].key, b.bytes)
      <3>1. /\ Len(w) \in Nat /\ Len(keys[i]) \in Nat /\ Len(a.bytes) \in Nat
            /\ Len(bytes) \in Nat
        BY <2>4
      <3>2. QED
        BY <2>5, <2>7, <2>8, <3>1, SpanFits
    <2>10. QED
      BY <1>4, <2>1, <2>9
  <1> HIDE DEF entries, node, bytes
  <1>9. b.nodes[n] = node /\ n - 1 = Len(a.nodes) /\ Len(a.nodes) \in Nat
    BY <1>3, <1>4, <1>6, IsSeqEmpty, AddedGrows DEF Whole
  <1>10. /\ Len(a.entries) \in Nat /\ Len(b.entries) = Len(a.entries) + m
         /\ \A i \in 1..m : b.entries[Len(a.entries) + i] = entries[i]
    <2>1. Len(a.entries) \in Nat
      BY <1>0, IsSeqLen
    <2>2. /\ Len(a.entries \o entries) = Len(a.entries) + Len(entries)
          /\ \A i \in 1..Len(entries) : (a.entries \o entries)[Len(a.entries) + i] = entries[i]
      <3>1. IsSeq(a.entries) /\ IsSeq(entries)
        BY <1>0, <1>3
      <3>2. QED
        BY <3>1, IsSeqConcat
    <2>3. QED
      BY <1>3, <1>7, <2>1, <2>2
  <1>11. ASSUME NEW i \in Places(node.span)
         PROVE  b.entries[i].value \in 1..(n - 1)
    <2> DEFINE j == i - Len(a.entries)
    <2>1. j \in 1..m /\ i = Len(a.entries) + j
      BY <1>1, <1>3, <1>7, <1>10 DEF Places
    <2>2. b.entries[i] = entries[j]
      BY <1>10, <2>1
    <2>3. QED
      BY <1>8, <1>9, <2>1, <2>2
  <1>12. SpanInside(node.span, b.entries)
    BY <1>1, <1>3, <1>7, <1>10 DEF SpanInside
  <1> HIDE DEF n
  <1>13. NodeRefersBack(b, n)
    BY <1>7, <1>9, <1>11, <1>12 DEF NodeRefersBack
  <1>14. \A i \in 1..Len(entries) : SpanInside(entries[i].key, b.bytes)
    BY <1>3, <1>8
  <1>15. Whole(b) /\ Grown(a, b) /\ Len(b.nodes) = Len(a.nodes) + 1
    BY <1>3, <1>4, <1>6, <1>13, <1>14, IsSeqEmpty, AddedStaysWhole DEF n
  <1>16. QED
    BY <1>7, <1>9, <1>15 DEF n

(* An object's entries lie behind those there were, each with its key inside   *)
(* the bytes and its value before the object, in whichever order equal keys    *)
(* were left by the sort (add_object).                                       *)
THEOREM AddObjectKeepsArena ==
  ASSUME NEW a, Whole(a), NEW limits, NEW members, IsSeq(members),
         \A i \in 1..Len(members) : IsSeq(members[i][1]),
         NEW b \in add_object(a, members, limits)
  PROVE  /\ Whole(b) /\ Grown(a, b) /\ Len(b.nodes) = Len(a.nodes) + 1
         /\ b.nodes[Len(a.nodes) + 1].type = "object"
  <1>1. PICK s \in Arrangements(members) : b \in add_sorted(a, s, limits)
    BY DEF add_object, Sorted
  <1>2. PICK p \in [DOMAIN members -> DOMAIN members] : s = [i \in DOMAIN members |-> members[p[i]]]
    BY <1>1 DEF Arrangements, Bijection, Injection
  <1>3. Len(members) \in Nat /\ DOMAIN members = 1..Len(members)
    BY IsSeqLen
  <1>4. \A i \in 1..Len(members) : s[i] = members[p[i]] /\ p[i] \in 1..Len(members)
    BY <1>2, <1>3
  <1>5. s = [i \in 1..Len(members) |-> s[i]]
    BY <1>2, <1>3
  <1>6. IsSeq(s) /\ Len(s) = Len(members)
    BY <1>3, <1>5, FunctionIsSeq
  <1>7. \A i \in 1..Len(s) : IsSeq(s[i][1])
    BY <1>4, <1>6
  <1>8. QED
    BY <1>1, <1>6, <1>7, AddSorted

-------------------------------------------------------------------------------
(* The folds of JsonCursor, named.                                         *)

TakenBack(records, cursors) == FoldRight(Applied, records, cursors)

Retold(told) == FoldLeft(Replayed, <<>>, told)

AllTyped(e, bytes) == FoldLeft(push_next, e, bytes)

-------------------------------------------------------------------------------
(* What holds of a cursor at every point of a call.                        *)

CursorShape(c) ==
  c = [mode |-> c.mode, frames |-> c.frames, pool |-> c.pool, root |-> c.root,
       arena |-> c.arena, partial |-> c.partial, utf8 |-> c.utf8,
       terminated |-> c.terminated, byte_offset |-> c.byte_offset]

ArrayFits(f, nodes) ==
  /\ f = [kind |-> "array", id |-> f.id, values |-> f.values]
  /\ \A i \in 1..Len(f.values) : f.values[i] \in 1..nodes

ObjectFits(f) ==
  /\ f = [kind |-> "object", id |-> f.id, current_key |-> f.current_key,
          values |-> f.values, seen_keys |-> f.seen_keys]
  /\ f.current_key = {} \/ \E k \in f.current_key : f.current_key = {k} /\ IsSeq(k)
  /\ \A i \in 1..Len(f.values) :
        f.values[i] = <<f.values[i][1], f.values[i][2]>> /\ IsSeq(f.values[i][1])
  /\ f.seen_keys = { f.values[j][1] : j \in DOMAIN f.values } \union f.current_key

FrameFits(f, nodes) ==
  /\ f.id \in Handles
  /\ IsSeq(f.values)
  /\ ArrayFits(f, nodes) \/ ObjectFits(f)

\* The frames hold exactly the live handles, each once.
FramesLive(frames, pool) ==
  /\ \A i \in 1..Len(frames) : IsLive(pool, frames[i].id)
  /\ \A i, j \in 1..Len(frames) : frames[i].id.slot = frames[j].id.slot => i = j
  /\ \A s \in 1..Len(pool.slots) :
        pool.slots[s].occupied => \E i \in 1..Len(frames) : frames[i].id.slot = s

\* A frame with another one above it waits for a value.
Waits(frames) ==
  \A i \in 1..(Len(frames) - 1) : frames[i].kind = "object" => frames[i].current_key # {}

StackFits(frames, pool, nodes) ==
  /\ IsSeq(frames)
  /\ WellFormed(pool)
  /\ \A i \in 1..Len(frames) : FrameFits(frames[i], nodes)
  /\ FramesLive(frames, pool)
  /\ Waits(frames)

Fit(c) ==
  /\ CursorShape(c)
  /\ StackFits(c.frames, c.pool, Len(c.arena.nodes))
  /\ IsSeq(c.partial)
  /\ Whole(c.arena)
  /\ c.root \in 0..Len(c.arena.nodes)

-------------------------------------------------------------------------------
(* What the mode of a cursor promises between two bytes.                   *)

StringModes == {"InString", "AfterBackslash", "InUnicodeEscape", "WaitingLowSurrogate"}

\* A key is expected or being read.
KeyDue(mode) ==
  \/ mode[1] \in {"ExpectObjectKeyOrEnd", "ExpectObjectCommaOrEnd"}
  \/ mode[1] \in StringModes /\ mode[2] = "Key"

ModeFits(c) ==
  /\ KeyDue(c.mode) => Inside(c, "object") /\ Top(c).current_key = {}
  /\ ~KeyDue(c.mode) /\ Inside(c, "object") => Top(c).current_key # {}
  /\ c.mode[1] \in {"ExpectArrayValueOrEnd", "ExpectArrayCommaOrEnd"} => Inside(c, "array")
  /\ c.mode[1] = "InString" => c.mode = InString(c.mode[2])
  /\ c.root # NoRoot => c.mode = Mode("CompleteRoot")

\* The state of a character, when there is nothing of the next one kept once it is whole.
CharacterFits(utf8) ==
  /\ utf8 = Utf8State(utf8.expected_continuations, utf8.codepoint, utf8.minimum_codepoint)
  /\ utf8.expected_continuations = 0 => utf8 = NoUtf8

Utf8Fits(c) ==
  /\ c.mode[1] = "InString" => CharacterFits(c.utf8)
  /\ c.mode[1] = "WaitingLowSurrogate" => c.utf8 = Utf8State(0, c.utf8.codepoint, 0)
  /\ c.mode[1] \notin {"InString", "WaitingLowSurrogate"} => c.utf8 = NoUtf8

CoreFits(c) == ModeFits(c) /\ Utf8Fits(c)

-------------------------------------------------------------------------------
(* What the events told so far have to do with the stack.                  *)

StartsOf(told) == { i \in DOMAIN told : told[i].type \in {"ArrayStart", "ObjectStart"} }

Shapes(frames) == [i \in DOMAIN frames |-> Shape(frames[i])]

Tells(told, c) ==
  /\ IsSeq(told)
  /\ \A i \in StartsOf(told) : told[i].frame \in Handles /\ HandedOut(c.pool, told[i].frame)
  /\ \A i, j \in StartsOf(told) : told[i].frame = told[j].frame => i = j
  /\ Retold(told) = Shapes(c.frames)

RootTold(told, c) ==
  (c.root # NoRoot) = (told # <<>> /\ Last(told).type = "RootComplete")

-------------------------------------------------------------------------------
(* The cursor of a mark, or of a call that has come to its end.            *)

Settled(c, bytes, told) ==
  /\ Fit(c) /\ CoreFits(c)
  /\ IsSeq(bytes) /\ c.byte_offset = Len(bytes)
  /\ Tells(told, c) /\ RootTold(told, c)

MarkShape(m) ==
  m = [undo_len |-> m.undo_len, arena_mark |-> m.arena_mark, saved |-> m.saved,
       text |-> m.text, log |-> m.log]

StateFits ==
  /\ input \in Inputs
  /\ IsSeq(journal) /\ IsSeq(text)
  /\ Fit(cursor) /\ Tells(log, cursor)
  /\ error = "none" => Settled(cursor, text, log)
  /\ error # "PushRefused"
  /\ ~input.duplicateKeys => error # "DuplicateObjectKey"

-------------------------------------------------------------------------------
(* What holds of an effect.                                                *)

EffectShape(e) ==
  e = [c |-> e.c, undo |-> e.undo, events |-> e.events, error |-> e.error,
       room |-> e.room, again |-> e.again]

\* What records are pushed for, of the one cursor, and the rest, of the other.
Join(c, x) ==
  [mode |-> x.mode, frames |-> c.frames, pool |-> c.pool, root |-> x.root,
   arena |-> x.arena, partial |-> c.partial, utf8 |-> x.utf8,
   terminated |-> x.terminated, byte_offset |-> x.byte_offset]

\* Undoing the records leads back to the cursor the call began with, whatever became
\* of what RestoreCore and the mark of the arena take back.
LeadsBack(records, c) ==
  \A x : TakenBack(records, {Join(c, x)}) = {[cursor EXCEPT !.arena = x.arena]}

Breaks(records, c) == \A x : TakenBack(records, {Join(c, x)}) = {}

Carried(e) ==
  /\ IsSeq(log) /\ Room \in Int /\ IsArena(cursor.arena)
  /\ EffectShape(e) /\ e.room = Room
  /\ IsSeq(e.undo) /\ IsSeq(e.events)
  /\ Fit(e.c) /\ Grown(cursor.arena, e.c.arena)
  /\ Tells(log \o e.events, e.c) /\ RootTold(log \o e.events, e.c)

Sound(e, n) ==
  /\ Carried(e)
  /\ Len(e.undo) <= n
  /\ LeadsBack(e.undo, e.c)
  /\ e.error \notin {"PushRefused", "DuplicateObjectKey"}

\* The one error after which the records do not lead back.
Stranded(e) ==
  /\ Carried(e)
  /\ Breaks(e.undo, e.c)
  /\ e.error = "DuplicateObjectKey"

\* A record takes the one cursor back to the other.
Undoes(r, new, old) ==
  \A x : Undoable(Join(new, x), r) /\ Undone(Join(new, x), r) = Join(old, x)

-------------------------------------------------------------------------------
(* The three folds.                                                        *)

Undoing == INSTANCE Folding WITH Op <- Applied

LEMMA UndoFolds ==
  ASSUME NEW records, NEW base
  PROVE  TakenBack(records, base) = Undoing!Right(records, base)
  BY DEF TakenBack, FoldRight, Undoing!Right, Undoing!FoldRight, MapThenFoldSet,
     Undoing!MapThenFoldSet, Min, Undoing!Min

LEMMA UndoNone ==
  ASSUME NEW base
  PROVE  TakenBack(<<>>, base) = base
  BY UndoFolds, Undoing!RightEmpty

LEMMA UndoAppend ==
  ASSUME NEW records, IsSeq(records), NEW r, NEW base
  PROVE  TakenBack(Append(records, r), base)
           = TakenBack(records, Applied(r, base))
  <1> DEFINE T == ToSet(Append(records, r))
  <1>1. records \in Seq(T) /\ r \in T
    <2>1. IsSeq(Append(records, r)) /\ Len(Append(records, r)) = Len(records) + 1
      BY IsSeqAppend
    <2>2. Len(records) \in Nat /\ DOMAIN Append(records, r) = 1..(Len(records) + 1)
      BY <2>1, IsSeqLen
    <2>3. /\ \A i \in 1..Len(records) : Append(records, r)[i] = records[i]
          /\ Append(records, r)[Len(records) + 1] = r
      BY IsSeqAppend
    <2>4. r \in T
      BY <2>2, <2>3 DEF ToSet
    <2>5. \A i \in 1..Len(records) : records[i] \in T
      BY <2>2, <2>3 DEF ToSet
    <2> HIDE DEF T
    <2>6. records \in Seq(T)
      BY <2>5, IsSeqIn
    <2>7. QED
      BY <2>4, <2>6
  <1> HIDE DEF T
  <1>2. Undoing!Right(Append(records, r), base) = Undoing!Right(records, Applied(r, base))
    BY <1>1, Undoing!RightAppend
  <1>3. QED
    BY <1>2, UndoFolds

LEMMA UndoConcat ==
  ASSUME NEW s, IsSeq(s), NEW t, IsSeq(t), NEW base
  PROVE  TakenBack(s \o t, base) = TakenBack(s, TakenBack(t, base))
  <1> DEFINE T == ToSet(s) \union ToSet(t)
  <1>1. s \in Seq(T) /\ t \in Seq(T)
    <2>1. \A i \in 1..Len(s) : s[i] \in T
      BY IsSeqLen DEF ToSet
    <2>2. \A i \in 1..Len(t) : t[i] \in T
      BY IsSeqLen DEF ToSet
    <2> HIDE DEF T
    <2>3. QED
      BY <2>1, <2>2, IsSeqIn
  <1> HIDE DEF T
  <1>2. Undoing!Right(s \o t, base) = Undoing!Right(s, Undoing!Right(t, base))
    BY <1>1, Undoing!RightConcat
  <1>3. QED
    BY <1>2, UndoFolds

\* Once a record did not apply there is nothing to go on with.
LEMMA UndoNothing ==
  ASSUME NEW s, IsSeq(s)
  PROVE  TakenBack(s, {}) = {}
  <1> DEFINE Empty(n) == \A t : IsSeq(t) /\ Len(t) = n => TakenBack(t, {}) = {}
             S == {n \in Nat : Empty(n)}
  <1>1. 0 \in S
    <2>1. \A t : IsSeq(t) /\ Len(t) = 0 => t = <<>>
      BY EmptySeq DEF IsSeq
    <2>2. QED
      BY <2>1, UndoNone
  <1>2. ASSUME NEW n \in Nat, n \in S
        PROVE  n + 1 \in S
    <2> SUFFICES ASSUME NEW t, IsSeq(t), Len(t) = n + 1
                 PROVE  TakenBack(t, {}) = {}
      OBVIOUS
    <2>1. t # <<>>
      BY IsSeqEmpty
    <2> DEFINE rest == Front(t)
               r == Last(t)
    <2>2. IsSeq(rest) /\ Len(rest) = n /\ Append(rest, r) = t
      BY <2>1, IsSeqFront
    <2> HIDE DEF rest, r
    <2>3. Applied(r, {}) = {}
      BY DEF Applied
    <2>4. IsSeq(rest)
      BY <2>2
    <2>5. TakenBack(Append(rest, r), {}) = TakenBack(rest, Applied(r, {}))
      BY <2>4, UndoAppend
    <2>6. TakenBack(rest, {}) = {}
      BY <1>2, <2>2
    <2>7. QED
      BY <2>2, <2>3, <2>5, <2>6
  <1> HIDE DEF Empty
  <1>3. Len(s) \in S
    <2>1. Len(s) \in Nat
      BY IsSeqLen
    <2> HIDE DEF S
    <2>2. QED
      BY <1>1, <1>2, <2>1, Induct
  <1>4. QED
    BY <1>3 DEF Empty

Telling == INSTANCE Folding WITH Op <- Replayed

LEMMA TellFolds ==
  ASSUME NEW s
  PROVE  Retold(s) = Telling!Left(<<>>, s)
  BY DEF Retold, FoldLeft, Telling!Left, Telling!FoldLeft, MapThenFoldSet,
     Telling!MapThenFoldSet, Max, Telling!Max

LEMMA TellNone == Retold(<<>>) = <<>>
  BY TellFolds, Telling!LeftEmpty

LEMMA TellAppend ==
  ASSUME NEW s, IsSeq(s), NEW ev
  PROVE  Retold(Append(s, ev)) = Replayed(Retold(s), ev)
  <1> DEFINE T == ToSet(s) \union {ev}
  <1>1. s \in Seq(T) /\ ev \in T
    <2>1. \A i \in 1..Len(s) : s[i] \in T
      BY IsSeqLen DEF ToSet
    <2>2. ev \in T
      OBVIOUS
    <2> HIDE DEF T
    <2>3. QED
      BY <2>1, <2>2, IsSeqIn
  <1> HIDE DEF T
  <1>2. Telling!Left(<<>>, Append(s, ev)) = Replayed(Telling!Left(<<>>, s), ev)
    BY <1>1, Telling!LeftAppend
  <1>3. QED
    BY <1>2, TellFolds

Typing == INSTANCE Folding WITH Op <- push_next

LEMMA TypeFolds ==
  ASSUME NEW e, NEW s
  PROVE  AllTyped(e, s) = Typing!Left(e, s)
  BY DEF AllTyped, FoldLeft, Typing!Left, Typing!FoldLeft, MapThenFoldSet,
     Typing!MapThenFoldSet, Max, Typing!Max

LEMMA TypeNone ==
  ASSUME NEW e
  PROVE  AllTyped(e, <<>>) = e
  BY TypeFolds, Typing!LeftEmpty

LEMMA TypeAppend ==
  ASSUME NEW e, NEW s, IsSeq(s), NEW b
  PROVE  AllTyped(e, Append(s, b)) = push_next(AllTyped(e, s), b)
  <1> DEFINE T == ToSet(s) \union {b}
  <1>1. s \in Seq(T) /\ b \in T
    <2>1. \A i \in 1..Len(s) : s[i] \in T
      BY IsSeqLen DEF ToSet
    <2>2. b \in T
      OBVIOUS
    <2> HIDE DEF T
    <2>3. QED
      BY <2>1, <2>2, IsSeqIn
  <1> HIDE DEF T
  <1>2. Typing!Left(e, Append(s, b)) = push_next(Typing!Left(e, s), b)
    BY <1>1, Typing!LeftAppend
  <1>3. QED
    BY <1>2, TypeFolds

-------------------------------------------------------------------------------
(* The stack.                                                              *)

LEMMA FrameFitsMore ==
  ASSUME NEW f, NEW n \in Nat, NEW m \in Nat, n <= m, FrameFits(f, n)
  PROVE  FrameFits(f, m)
  <1>1. \A i \in 1..n : i \in 1..m
    OBVIOUS
  <1>2. ArrayFits(f, n) => ArrayFits(f, m)
    BY <1>1 DEF ArrayFits
  <1>3. QED
    BY <1>2 DEF FrameFits

LEMMA StackFitsMore ==
  ASSUME NEW frames, NEW pool, NEW n \in Nat, NEW m \in Nat, n <= m, StackFits(frames, pool, n)
  PROVE  StackFits(frames, pool, m)
  BY FrameFitsMore DEF StackFits

LEMMA TopSplit ==
  ASSUME NEW frames, IsSeq(frames), frames # <<>>
  PROVE  IsSeq(Front(frames)) /\ frames = Append(Front(frames), Last(frames))
  BY IsSeqFront

LEMMA StackTop ==
  ASSUME NEW rest, IsSeq(rest), NEW old, NEW f, NEW pool, NEW n,
         StackFits(Append(rest, old), pool, n), FrameFits(f, n), f.id = old.id
  PROVE  StackFits(Append(rest, f), pool, n)
  <1> DEFINE frames == Append(rest, old)
             new == Append(rest, f)
             k == Len(rest)
  <1>1. /\ k \in Nat /\ IsSeq(frames) /\ IsSeq(new) /\ Len(frames) = k + 1 /\ Len(new) = k + 1
        /\ frames[k + 1] = old /\ new[k + 1] = f
        /\ \A i \in 1..k : frames[i] = rest[i] /\ new[i] = rest[i]
    BY IsSeqLen, IsSeqAppend
  <1> HIDE DEF frames, new, k
  <1>2. \A i \in 1..(k + 1) : i = k + 1 \/ i \in 1..k
    BY <1>1
  <1>3. \A i \in 1..(k + 1) : new[i].id = frames[i].id
    BY <1>1, <1>2
  <1>4. /\ WellFormed(pool) /\ FramesLive(frames, pool) /\ Waits(frames)
        /\ \A i \in 1..(k + 1) : FrameFits(frames[i], n)
    BY <1>1 DEF StackFits, frames
  <1>5. \A i \in 1..(k + 1) : FrameFits(new[i], n)
    BY <1>1, <1>2, <1>4
  <1>6. FramesLive(new, pool)
    BY <1>1, <1>3, <1>4 DEF FramesLive
  <1>7. Waits(new)
    <2>1. (k + 1) - 1 = k
      BY <1>1
    <2>2. QED
      BY <1>1, <1>4, <2>1 DEF Waits
  <1>8. QED
    BY <1>1, <1>4, <1>5, <1>6, <1>7 DEF StackFits, new

LEMMA StackPush ==
  ASSUME NEW frames, NEW f, NEW p, NEW q, NEW n,
         StackFits(frames, p, n), FrameFits(f, n), f.id = Allocated(p), q = Allocate(p),
         frames # <<>> /\ Last(frames).kind = "object" => Last(frames).current_key # {}
  PROVE  StackFits(Append(frames, f), q, n)
  <1> DEFINE new == Append(frames, f)
             k == Len(frames)
             id == f.id
  <1>1. /\ k \in Nat /\ IsSeq(frames) /\ IsSeq(new) /\ Len(new) = k + 1
        /\ new[k + 1] = f
        /\ \A i \in 1..k : new[i] = frames[i]
    BY IsSeqLen, IsSeqAppend DEF StackFits
  <1>2. /\ WellFormed(p) /\ FramesLive(frames, p) /\ Waits(frames)
        /\ \A i \in 1..k : FrameFits(frames[i], n)
    BY DEF StackFits
  <1>3. /\ IsLive(q, id)
        /\ \A h \in Handles : IsLive(p, h) => IsLive(q, h) /\ h.slot # id.slot
        /\ \A s \in 1..Len(q.slots) :
              q.slots[s].occupied => s = id.slot \/ (s \in 1..Len(p.slots) /\ p.slots[s].occupied)
    BY <1>2, AllocateHandsOutNew
  <1>4. WellFormed(q)
    BY <1>2, AllocateWellFormed
  <1> HIDE DEF new, k, id
  <1>5. \A i \in 1..(k + 1) : i = k + 1 \/ i \in 1..k
    BY <1>1
  <1>6. \A i \in 1..(k + 1) : FrameFits(new[i], n)
    BY <1>1, <1>2, <1>5
  <1>7. \A i \in 1..k : IsLive(q, frames[i].id) /\ frames[i].id.slot # id.slot
    BY <1>2, <1>3 DEF FramesLive, FrameFits, k
  <1>8. FramesLive(new, q)
    <2>1. \A i \in 1..Len(new) : IsLive(q, new[i].id)
      BY <1>1, <1>3, <1>5, <1>7 DEF id
    <2>2. ASSUME NEW i \in 1..Len(new), NEW j \in 1..Len(new), new[i].id.slot = new[j].id.slot
          PROVE  i = j
      <3>1. /\ i = k + 1 => new[i].id = id
            /\ j = k + 1 => new[j].id = id
        BY <1>1 DEF id
      <3>2. \A l \in 1..k : new[l].id.slot # id.slot
        BY <1>1, <1>7
      <3>3. i = k + 1 <=> j = k + 1
        BY <1>1, <1>5, <2>2, <3>1, <3>2
      <3>4. CASE i # k + 1
        <4>1. i \in 1..k /\ j \in 1..k
          BY <1>1, <1>5, <3>3, <3>4
        <4>2. frames[i].id.slot = frames[j].id.slot
          BY <1>1, <2>2, <4>1
        <4>3. QED
          BY <1>2, <4>1, <4>2 DEF FramesLive, k
      <3>5. QED
        BY <3>3, <3>4
    <2>3. ASSUME NEW s \in 1..Len(q.slots), q.slots[s].occupied
          PROVE  \E i \in 1..Len(new) : new[i].id.slot = s
      <3>1. CASE s = id.slot
        <4>1. k + 1 \in 1..Len(new) /\ new[k + 1].id.slot = s
          BY <1>1, <3>1 DEF id
        <4>2. QED
          BY <4>1
      <3>2. CASE s \in 1..Len(p.slots) /\ p.slots[s].occupied
        <4>1. PICK i \in 1..k : frames[i].id.slot = s
          BY <1>2, <3>2 DEF FramesLive, k
        <4>2. i \in 1..Len(new) /\ new[i].id.slot = s
          BY <1>1, <4>1
        <4>3. QED
          BY <4>2
      <3>3. QED
        BY <1>3, <2>3, <3>1, <3>2
    <2>4. QED
      BY <2>1, <2>2, <2>3 DEF FramesLive
  <1>9. Waits(new)
    <2> SUFFICES ASSUME NEW i \in 1..(Len(new) - 1), new[i].kind = "object"
                 PROVE  new[i].current_key # {}
      BY DEF Waits
    <2>1. i \in 1..k /\ new[i] = frames[i]
      BY <1>1
    <2>2. CASE i = k
      <3>1. frames # <<>> /\ Last(frames) = frames[i]
        BY <2>1, <2>2, IsSeqEmpty DEF k, Last
      <3>2. QED
        BY <2>1, <3>1
    <2>3. CASE i # k
      <3>1. i \in 1..(k - 1)
        BY <1>1, <2>1, <2>3
      <3>2. QED
        BY <1>2, <2>1, <3>1 DEF Waits, k
    <2>4. QED
      BY <2>2, <2>3
  <1>10. QED
    BY <1>1, <1>4, <1>6, <1>8, <1>9 DEF StackFits, new

LEMMA StackPop ==
  ASSUME NEW rest, IsSeq(rest), NEW top, NEW p, NEW q, NEW n,
         StackFits(Append(rest, top), p, n), q = Release(p, top.id)
  PROVE  /\ top.id \in Handles /\ IsLive(p, top.id) /\ FrameFits(top, n)
         /\ StackFits(rest, q, n)
         /\ rest # <<>> /\ Last(rest).kind = "object" => Last(rest).current_key # {}
  <1> DEFINE frames == Append(rest, top)
             k == Len(rest)
             id == top.id
  <1>1. /\ k \in Nat /\ Len(frames) = k + 1 /\ frames[k + 1] = top
        /\ \A i \in 1..k : frames[i] = rest[i]
    BY IsSeqLen, IsSeqAppend
  <1> HIDE DEF frames, k
  <1>2. /\ WellFormed(p) /\ FramesLive(frames, p) /\ Waits(frames)
        /\ \A i \in 1..(k + 1) : FrameFits(frames[i], n)
    BY <1>1 DEF StackFits, frames
  <1>3. k + 1 \in 1..(k + 1) /\ \A i \in 1..k : i \in 1..(k + 1) /\ i # k + 1
    BY <1>1
  <1>4. id \in Handles /\ IsLive(p, id) /\ FrameFits(top, n)
    BY <1>1, <1>2, <1>3 DEF FrameFits, FramesLive
  <1>5. /\ \A h \in Handles : IsLive(p, h) /\ h.slot # id.slot => IsLive(q, h)
        /\ \A s \in 1..Len(q.slots) :
              q.slots[s].occupied => s \in 1..Len(p.slots) /\ p.slots[s].occupied /\ s # id.slot
    BY <1>2, <1>4, ReleaseEndsOne
  <1>6. WellFormed(q)
    <2>1. id \in [slot : Nat \ {0}, generation : Nat]
      BY <1>4 DEF Handles
    <2>2. QED
      BY <1>2, <1>4, <2>1, ReleaseWellFormed
  <1> HIDE DEF id
  <1>7. \A i \in 1..k : FrameFits(rest[i], n)
    BY <1>1, <1>2, <1>3
  <1>8. \A i \in 1..k : rest[i].id \in Handles /\ IsLive(p, rest[i].id) /\ rest[i].id.slot # id.slot
    BY <1>1, <1>2, <1>3, <1>7 DEF FrameFits, FramesLive, id
  <1>9. FramesLive(rest, q)
    <2>1. \A i \in 1..Len(rest) : IsLive(q, rest[i].id)
      BY <1>5, <1>8 DEF k
    <2>2. \A i, j \in 1..Len(rest) : rest[i].id.slot = rest[j].id.slot => i = j
      BY <1>1, <1>2, <1>3 DEF FramesLive, k
    <2>3. ASSUME NEW s \in 1..Len(q.slots), q.slots[s].occupied
          PROVE  \E i \in 1..Len(rest) : rest[i].id.slot = s
      <3>1. s \in 1..Len(p.slots) /\ p.slots[s].occupied /\ s # id.slot
        BY <1>5, <2>3
      <3>2. PICK i \in 1..(k + 1) : frames[i].id.slot = s
        BY <1>1, <1>2, <3>1 DEF FramesLive
      <3>3. i # k + 1
        BY <1>1, <3>1, <3>2 DEF id
      <3>4. i \in 1..k
        BY <1>1, <3>3
      <3>5. QED
        BY <1>1, <3>2, <3>4 DEF k
    <2>4. QED
      BY <2>1, <2>2, <2>3 DEF FramesLive
  <1>10. /\ Waits(rest)
         /\ rest # <<>> /\ Last(rest).kind = "object" => Last(rest).current_key # {}
    <2>1. \A i \in 1..k : rest[i].kind = "object" => rest[i].current_key # {}
      <3>1. (k + 1) - 1 = k
        BY <1>1
      <3>2. QED
        BY <1>1, <1>2, <3>1 DEF Waits
    <2>2. \A i \in 1..(k - 1) : i \in 1..k
      BY <1>1
    <2>3. rest # <<>> => k \in 1..k /\ Last(rest) = rest[k]
      BY IsSeqFront DEF Last, k
    <2>4. QED
      BY <2>1, <2>2, <2>3 DEF Waits, k
  <1>11. QED
    BY <1>4, <1>6, <1>7, <1>9, <1>10 DEF StackFits, k, id

-------------------------------------------------------------------------------
(* Events.                                                                 *)

LEMMA ShapesAppend ==
  ASSUME NEW frames, IsSeq(frames), NEW f
  PROVE  /\ IsSeq(Shapes(frames)) /\ Len(Shapes(frames)) = Len(frames)
         /\ Shapes(Append(frames, f)) = Append(Shapes(frames), Shape(f))
  <1> DEFINE k == Len(frames)
             more == Append(frames, f)
             one == Shapes(frames)
             two == Shapes(more)
             longer == Append(one, Shape(f))
  <1>1. k \in Nat /\ DOMAIN frames = 1..k /\ DOMAIN more = 1..(k + 1)
    BY IsSeqLen, IsSeqAppend
  <1>2. one = [i \in 1..k |-> Shape(frames[i])] /\ two = [i \in 1..(k + 1) |-> Shape(more[i])]
    BY <1>1 DEF Shapes
  <1>3. more[k + 1] = f /\ \A i \in 1..k : more[i] = frames[i]
    BY IsSeqAppend
  <1> HIDE DEF k, more, one, two
  <1>4. IsSeq(one) /\ Len(one) = k
    <2>1. one = [i \in 1..k |-> one[i]]
      BY <1>2
    <2>2. QED
      BY <1>1, <2>1, FunctionIsSeq
  <1>5. IsSeq(two) /\ Len(two) = k + 1
    <2>1. two = [i \in 1..(k + 1) |-> two[i]]
      BY <1>2
    <2>2. k + 1 \in Nat
      BY <1>1
    <2>3. QED
      BY <2>1, <2>2, FunctionIsSeq
  <1>6. /\ IsSeq(longer) /\ Len(longer) = k + 1 /\ longer[k + 1] = Shape(f)
        /\ \A i \in 1..k : longer[i] = one[i]
    BY <1>4, IsSeqAppend
  <1> HIDE DEF longer
  <1>7. \A i \in 1..(k + 1) : two[i] = longer[i]
    <2>1. \A i \in 1..(k + 1) : i = k + 1 \/ i \in 1..k
      BY <1>1
    <2>2. two[k + 1] = Shape(f)
      BY <1>1, <1>2, <1>3
    <2>3. \A i \in 1..k : two[i] = Shape(frames[i]) /\ one[i] = Shape(frames[i])
      BY <1>1, <1>2, <1>3
    <2>4. QED
      BY <1>6, <2>1, <2>2, <2>3
  <1>8. two = longer
    BY <1>5, <1>6, <1>7, IsSeqEqual
  <1>9. QED
    BY <1>4, <1>8 DEF one, two, longer, more, k

\* The start of a frame is one told before, or the event now told.
Started(told, ev, more) ==
  \A i \in StartsOf(more) :
     \/ i \in StartsOf(told) /\ more[i] = told[i]
     \/ i = Len(told) + 1 /\ more[i] = ev /\ ev.type \in {"ArrayStart", "ObjectStart"}

LEMMA StartsAppend ==
  ASSUME NEW told, IsSeq(told), NEW ev
  PROVE  IsSeq(Append(told, ev)) /\ Started(told, ev, Append(told, ev))
  <1> DEFINE k == Len(told)
             more == Append(told, ev)
  <1>1. /\ k \in Nat /\ DOMAIN told = 1..k /\ IsSeq(more) /\ DOMAIN more = 1..(k + 1)
        /\ more[k + 1] = ev /\ \A i \in 1..k : more[i] = told[i]
    BY IsSeqLen, IsSeqAppend
  <1> HIDE DEF k, more
  <1>2. \A i \in 1..(k + 1) : i = k + 1 \/ i \in 1..k
    BY <1>1
  <1>3. Started(told, ev, more)
    BY <1>1, <1>2 DEF StartsOf, Started, k
  <1>4. QED
    BY <1>1, <1>3 DEF more

\* An event that opens nothing, when what it says is what happened to the stack.
LEMMA TellsPlain ==
  ASSUME NEW told, NEW c, NEW d, NEW ev, Tells(told, c),
         ev.type \notin {"ArrayStart", "ObjectStart"},
         Replayed(Shapes(c.frames), ev) = Shapes(d.frames),
         \A h \in Handles : HandedOut(c.pool, h) => HandedOut(d.pool, h)
  PROVE  Tells(Append(told, ev), d)
  <1> DEFINE more == Append(told, ev)
  <1>1. IsSeq(more) /\ \A i \in StartsOf(more) : i \in StartsOf(told) /\ more[i] = told[i]
    <2>1. IsSeq(more) /\ Started(told, ev, more)
      BY StartsAppend DEF Tells
    <2>2. QED
      BY <2>1 DEF Started
  <1>2. Retold(more) = Shapes(d.frames)
    BY TellAppend DEF Tells
  <1> HIDE DEF more
  <1>3. QED
    BY <1>1, <1>2 DEF Tells, more

\* An event that opens a frame under a handle nobody had before.
LEMMA TellsStart ==
  ASSUME NEW told, NEW c, NEW d, NEW ev, Tells(told, c),
         Replayed(Shapes(c.frames), ev) = Shapes(d.frames),
         \A h \in Handles : HandedOut(c.pool, h) => HandedOut(d.pool, h),
         ev.frame \in Handles, ~HandedOut(c.pool, ev.frame), HandedOut(d.pool, ev.frame)
  PROVE  Tells(Append(told, ev), d)
  <1> DEFINE more == Append(told, ev)
  <1>1. /\ IsSeq(more)
        /\ \A i \in StartsOf(more) : \/ i \in StartsOf(told) /\ more[i] = told[i]
                                     \/ i = Len(told) + 1 /\ more[i] = ev
    <2>1. IsSeq(more) /\ Started(told, ev, more)
      BY StartsAppend DEF Tells
    <2>2. QED
      BY <2>1 DEF Started
  <1>2. Retold(more) = Shapes(d.frames)
    BY TellAppend DEF Tells
  <1>3. \A i \in StartsOf(told) : told[i].frame \in Handles /\ HandedOut(c.pool, told[i].frame)
    BY DEF Tells
  <1>4. \A i, j \in StartsOf(told) : told[i].frame = told[j].frame => i = j
    BY DEF Tells
  <1> HIDE DEF more
  <1>5. \A i \in StartsOf(more) : more[i].frame \in Handles /\ HandedOut(d.pool, more[i].frame)
    BY <1>1, <1>3
  <1>6. \A i, j \in StartsOf(more) : more[i].frame = more[j].frame => i = j
    BY <1>1, <1>3, <1>4
  <1>7. QED
    BY <1>1, <1>2, <1>5, <1>6 DEF Tells, more

\* What replaying one event does to a stack.
LEMMA ReplaysNothing ==
  ASSUME NEW stack, NEW ev, ev.type \in {"ScalarSealed", "RootComplete"}
  PROVE  Replayed(stack, ev) = stack
  BY DEF Replayed

LEMMA ReplaysArrayStart ==
  ASSUME NEW stack, NEW id
  PROVE  Replayed(stack, [type |-> "ArrayStart", frame |-> id]) = Append(stack, Shape(ArrayFrame(id)))
  <1>1. Shape(ArrayFrame(id)) = [kind |-> "array", id |-> id, count |-> 0, key |-> {}]
    BY IsSeqEmpty DEF Shape, ArrayFrame
  <1>2. QED
    BY <1>1 DEF Replayed

LEMMA ReplaysObjectStart ==
  ASSUME NEW stack, NEW id
  PROVE  Replayed(stack, [type |-> "ObjectStart", frame |-> id]) = Append(stack, Shape(ObjectFrame(id)))
  <1>1. Shape(ObjectFrame(id)) = [kind |-> "object", id |-> id, count |-> 0, key |-> {}]
    BY IsSeqEmpty DEF Shape, ObjectFrame
  <1>2. QED
    BY <1>1 DEF Replayed

ArrayShape(f) == f = [kind |-> "array", id |-> f.id, values |-> f.values]

ObjectShape(f) ==
  f = [kind |-> "object", id |-> f.id, current_key |-> f.current_key,
       values |-> f.values, seen_keys |-> f.seen_keys]

Entry(kind, id, count, key) == [kind |-> kind, id |-> id, count |-> count, key |-> key]

\* An end comes when no key is open.
EndOf(kind) == IF kind = "array" THEN "ArrayEnd" ELSE "ObjectEnd"

LEMMA ReplaysEnd ==
  ASSUME NEW stack, IsSeq(stack), NEW f, NEW v, f.kind \in {"array", "object"},
         f.kind = "object" => f.current_key = {},
         NEW ev, ev = [type |-> EndOf(f.kind), frame |-> f.id, value |-> v]
  PROVE  Replayed(Append(stack, Shape(f)), ev) = stack
  <1> DEFINE s == Shape(f)
             all == Append(stack, s)
  <1>1. s = Entry(f.kind, f.id, Len(f.values), {})
    BY DEF Shape, Entry
  <1>2. all = Append(stack, s)
    OBVIOUS
  <1> HIDE DEF s, all
  <1>3. all # <<>> /\ Front(all) = stack /\ Last(all) = s
    BY <1>2, IsSeqAppend
  <1>4. s.kind = f.kind /\ s.id = f.id /\ s.key = {}
    BY <1>1 DEF Entry
  <1>5. Replayed(all, ev) = Front(all)
    BY <1>3, <1>4 DEF Replayed, EndOf
  <1>6. QED
    BY <1>3, <1>5 DEF all, s

-------------------------------------------------------------------------------
(* The elementary changes.                                                 *)

SameData(c, d) ==
  /\ d.frames = c.frames /\ d.pool = c.pool /\ d.root = c.root
  /\ d.arena = c.arena /\ d.partial = c.partial

\* What a step that only writes to partial or to the arena leaves of a cursor, and of
\* an effect beside its records.
KeepsCore(e, f) ==
  /\ f.c.mode = e.c.mode /\ f.c.frames = e.c.frames /\ f.c.root = e.c.root
  /\ f.c.utf8 = e.c.utf8 /\ f.c.byte_offset = e.c.byte_offset
  /\ f.again = e.again

LEMMA RoomIsNumber == ASSUME StateFits PROVE Room \in Int
  <1>1. Len(journal) \in Nat
    BY IsSeqLen DEF StateFits
  <1>2. MaxRecords \in Nat
    BY InputsAssumption DEF StateFits, MaxRecords
  <1>3. QED
    BY <1>1, <1>2 DEF Room

\* Below the room there is, a record is pushed.
LEMMA PushTaken ==
  ASSUME NEW e, NEW n \in Nat, Sound(e, n), n < Room, NEW r, NEW f, f = Push(e, r)
  PROVE  /\ EffectShape(f) /\ f.c = e.c /\ f.room = e.room /\ f.undo = Append(e.undo, r)
         /\ f.events = e.events /\ f.error = e.error /\ f.again = e.again
  <1>1. /\ e.room = Room /\ Room \in Int /\ IsSeq(e.undo) /\ Len(e.undo) <= n
        /\ EffectShape(e)
    BY DEF Sound, Carried
  <1>2. Len(e.undo) \in Nat
    BY <1>1, IsSeqLen
  <1>3. ~(Len(e.undo) >= e.room)
    BY <1>1, <1>2
  <1>4. f = [e EXCEPT !.undo = Append(@, r)]
    BY <1>3 DEF Push
  <1>5. QED
    BY <1>1, <1>4 DEF EffectShape

\* A change with the record that takes it back.
LEMMA Recorded ==
  ASSUME NEW e, NEW n \in Nat, Sound(e, n), NEW f, Carried(f), NEW r,
         f.undo = Append(e.undo, r), Undoes(r, f.c, e.c),
         f.error \notin {"PushRefused", "DuplicateObjectKey"}
  PROVE  Sound(f, n + 1)
  <1>1. IsSeq(e.undo) /\ Len(e.undo) <= n /\ LeadsBack(e.undo, e.c)
    BY DEF Sound, Carried
  <1>2. Len(f.undo) <= n + 1
    <2>1. Len(e.undo) \in Nat /\ Len(f.undo) = Len(e.undo) + 1
      BY <1>1, IsSeqLen, IsSeqAppend
    <2>2. QED
      BY <1>1, <2>1
  <1>3. LeadsBack(f.undo, f.c)
    <2> SUFFICES ASSUME NEW x
                 PROVE  TakenBack(f.undo, {Join(f.c, x)}) = {[cursor EXCEPT !.arena = x.arena]}
      BY DEF LeadsBack
    <2> DEFINE new == Join(f.c, x)
               old == Join(e.c, x)
    <2>1. Undoable(new, r) /\ Undone(new, r) = old
      BY DEF Undoes
    <2> HIDE DEF new, old
    <2>2. Applied(r, {new}) = {old}
      BY <2>1 DEF Applied
    <2>3. TakenBack(Append(e.undo, r), {new}) = TakenBack(e.undo, Applied(r, {new}))
      BY <1>1, UndoAppend
    <2>4. TakenBack(e.undo, {old}) = {[cursor EXCEPT !.arena = x.arena]}
      BY <1>1 DEF LeadsBack, old
    <2>5. QED
      BY <2>2, <2>3, <2>4 DEF new
  <1>4. QED
    BY <1>2, <1>3 DEF Sound

\* A change of what no record is pushed for.
LEMMA Unrecorded ==
  ASSUME NEW e, NEW n, Sound(e, n), NEW f, Carried(f), f.undo = e.undo,
         f.c.frames = e.c.frames, f.c.pool = e.c.pool, f.c.partial = e.c.partial,
         f.error \notin {"PushRefused", "DuplicateObjectKey"}
  PROVE  Sound(f, n)
  <1>1. \A x : Join(f.c, x) = Join(e.c, x)
    BY DEF Join
  <1>2. LeadsBack(f.undo, f.c)
    BY <1>1 DEF Sound, LeadsBack
  <1>3. QED
    BY <1>2 DEF Sound

LEMMA CoreChanged ==
  ASSUME NEW e, NEW n, Sound(e, n), NEW f, EffectShape(f), CursorShape(f.c),
         f.room = e.room, f.undo = e.undo, f.events = e.events, SameData(e.c, f.c),
         f.error \notin {"PushRefused", "DuplicateObjectKey"}
  PROVE  Sound(f, n)
  <1>1. Carried(e)
    BY DEF Sound
  <1>2. Fit(f.c)
    BY <1>1 DEF Carried, Fit, SameData
  <1>3. Tells(log \o f.events, f.c)
    BY <1>1 DEF Carried, Tells, SameData
  <1>4. RootTold(log \o f.events, f.c)
    BY <1>1 DEF Carried, RootTold, SameData
  <1>5. Carried(f)
    BY <1>1, <1>2, <1>3, <1>4 DEF Carried, SameData
  <1>6. QED
    BY <1>5, Unrecorded DEF SameData

LEMMA Shaped ==
  ASSUME NEW e, NEW n, Sound(e, n)
  PROVE  /\ EffectShape(e) /\ CursorShape(e.c) /\ e.room = Room
         /\ e.error \notin {"PushRefused", "DuplicateObjectKey"}
  BY DEF Sound, Carried, Fit

LEMMA SoundMore ==
  ASSUME NEW e, NEW n \in Nat, Sound(e, n), NEW m \in Nat, n <= m
  PROVE  Sound(e, m)
  <1>1. IsSeq(e.undo) /\ Len(e.undo) <= n
    BY DEF Sound, Carried
  <1>2. Len(e.undo) \in Nat
    BY <1>1, IsSeqLen
  <1>3. Len(e.undo) <= m
    BY <1>1, <1>2
  <1>4. QED
    BY <1>3 DEF Sound

LEMMA Failing ==
  ASSUME NEW e, NEW n, Sound(e, n), NEW why, why \notin {"PushRefused", "DuplicateObjectKey"},
         NEW f, f = Fail(e, why)
  PROVE  Sound(f, n) /\ f.error = why /\ f.c = e.c /\ f.again = e.again
  <1>1. EffectShape(e) /\ CursorShape(e.c)
    BY Shaped
  <1>2. /\ EffectShape(f) /\ f.c = e.c /\ f.room = e.room /\ f.undo = e.undo
        /\ f.events = e.events /\ f.error = why /\ f.again = e.again
    BY <1>1 DEF EffectShape, Fail
  <1>3. SameData(e.c, f.c)
    BY <1>2 DEF SameData
  <1>4. QED
    BY <1>1, <1>2, <1>3, CoreChanged

\* Another mode, and another state of a character.
Restyled(e, f, mode, utf8) ==
  /\ SameData(e.c, f.c) /\ f.c.mode = mode /\ f.c.utf8 = utf8
  /\ f.c.byte_offset = e.c.byte_offset /\ f.again = e.again /\ f.error = e.error

LEMMA Going ==
  ASSUME NEW e, NEW n, Sound(e, n), NEW mode, NEW f, f = Goto(e, mode)
  PROVE  Sound(f, n) /\ Restyled(e, f, mode, e.c.utf8)
  <1>1. EffectShape(e) /\ CursorShape(e.c) /\ e.error \notin {"PushRefused", "DuplicateObjectKey"}
    BY Shaped
  <1>2. /\ EffectShape(f) /\ f.room = e.room /\ f.undo = e.undo
        /\ f.events = e.events /\ f.error = e.error /\ f.again = e.again
    BY <1>1 DEF EffectShape, Goto
  <1>3. CursorShape(f.c)
    BY <1>1 DEF EffectShape, CursorShape, Goto
  <1>4. /\ f.c.mode = mode /\ f.c.utf8 = e.c.utf8 /\ f.c.byte_offset = e.c.byte_offset
        /\ SameData(e.c, f.c)
    BY <1>1 DEF EffectShape, CursorShape, Goto, SameData
  <1>5. QED
    BY <1>1, <1>2, <1>3, <1>4, CoreChanged DEF Restyled

LEMMA Decoding ==
  ASSUME NEW e, NEW n, Sound(e, n), NEW utf8, NEW f, f = [e EXCEPT !.c.utf8 = utf8]
  PROVE  Sound(f, n) /\ Restyled(e, f, e.c.mode, utf8)
  <1>1. EffectShape(e) /\ CursorShape(e.c) /\ e.error \notin {"PushRefused", "DuplicateObjectKey"}
    BY Shaped
  <1>2. /\ EffectShape(f) /\ f.room = e.room /\ f.undo = e.undo
        /\ f.events = e.events /\ f.error = e.error /\ f.again = e.again
    BY <1>1 DEF EffectShape
  <1>3. CursorShape(f.c)
    BY <1>1 DEF EffectShape, CursorShape
  <1>4. /\ f.c.mode = e.c.mode /\ f.c.utf8 = utf8 /\ f.c.byte_offset = e.c.byte_offset
        /\ SameData(e.c, f.c)
    BY <1>1 DEF EffectShape, CursorShape, SameData
  <1>5. QED
    BY <1>1, <1>2, <1>3, <1>4, CoreChanged DEF Restyled

LEMMA Repeating ==
  ASSUME NEW e, NEW n, Sound(e, n), NEW b, NEW f, f = [e EXCEPT !.again = b]
  PROVE  Sound(f, n) /\ f.c = e.c /\ f.again = b /\ f.error = e.error
  <1>1. EffectShape(e) /\ CursorShape(e.c) /\ e.error \notin {"PushRefused", "DuplicateObjectKey"}
    BY Shaped
  <1>2. /\ EffectShape(f) /\ f.room = e.room /\ f.undo = e.undo /\ f.c = e.c
        /\ f.events = e.events /\ f.error = e.error /\ f.again = b
    BY <1>1 DEF EffectShape
  <1>3. SameData(e.c, f.c)
    BY <1>2 DEF SameData
  <1>4. QED
    BY <1>1, <1>2, <1>3, CoreChanged

LEMMA RootUntold ==
  ASSUME NEW told, IsSeq(told), NEW ev, ev.type # "RootComplete", NEW c, c.root = NoRoot
  PROVE  RootTold(Append(told, ev), c)
  BY IsSeqAppend DEF RootTold

\* One more event.
LEMMA OneMore ==
  ASSUME NEW e, Carried(e), NEW ev
  PROVE  /\ IsSeq(log \o e.events) /\ IsSeq(Append(e.events, ev))
         /\ log \o Append(e.events, ev) = Append(log \o e.events, ev)
  <1>1. IsSeq(log) /\ IsSeq(e.events)
    BY DEF Carried
  <1>2. IsSeq(log \o e.events)
    BY <1>1, IsSeqConcat
  <1>3. IsSeq(Append(e.events, ev))
    BY <1>1, IsSeqAppend
  <1>4. log \o Append(e.events, ev) = Append(log \o e.events, ev)
    BY <1>1, ConcatOneMore
  <1>5. QED
    BY <1>2, <1>3, <1>4

LEMMA Sealing ==
  ASSUME NEW e, NEW n, Sound(e, n), e.c.root = NoRoot, NEW ev, ev.type = "ScalarSealed",
         NEW f, f = Emit(e, ev)
  PROVE  Sound(f, n) /\ f.c = e.c /\ f.again = e.again /\ f.error = e.error
  <1>1. EffectShape(e) /\ CursorShape(e.c) /\ e.error \notin {"PushRefused", "DuplicateObjectKey"}
    BY Shaped
  <1>2. /\ EffectShape(f) /\ f.room = e.room /\ f.undo = e.undo /\ f.c = e.c
        /\ f.events = Append(e.events, ev) /\ f.error = e.error /\ f.again = e.again
    BY <1>1 DEF EffectShape, Emit
  <1>3. Carried(e)
    BY DEF Sound
  <1>4. /\ IsSeq(log \o e.events) /\ IsSeq(f.events)
        /\ log \o f.events = Append(log \o e.events, ev)
    BY <1>2, <1>3, OneMore
  <1>5. Tells(log \o f.events, f.c)
    <2>1. Tells(log \o e.events, e.c)
      BY <1>3 DEF Carried
    <2>2. Replayed(Shapes(e.c.frames), ev) = Shapes(e.c.frames)
      BY ReplaysNothing
    <2>3. ev.type \notin {"ArrayStart", "ObjectStart"}
      OBVIOUS
    <2>4. Tells(Append(log \o e.events, ev), e.c)
      BY <2>1, <2>2, <2>3, TellsPlain
    <2>5. QED
      BY <1>2, <1>4, <2>4
  <1>6. RootTold(log \o f.events, f.c)
    BY <1>2, <1>4, RootUntold
  <1>7. Carried(f)
    BY <1>2, <1>3, <1>4, <1>5, <1>6 DEF Carried
  <1>8. QED
    BY <1>1, <1>2, <1>7, Unrecorded

\* A record and another partial, nothing else.
LEMMA Rewritten ==
  ASSUME NEW e, NEW n \in Nat, Sound(e, n), NEW r, NEW partial, IsSeq(partial),
         NEW f, EffectShape(f), CursorShape(f.c), f.room = e.room, f.undo = Append(e.undo, r),
         f.events = e.events, f.error = e.error, f.again = e.again,
         f.c.mode = e.c.mode, f.c.frames = e.c.frames, f.c.pool = e.c.pool, f.c.root = e.c.root,
         f.c.arena = e.c.arena, f.c.partial = partial, f.c.utf8 = e.c.utf8,
         f.c.byte_offset = e.c.byte_offset,
         Undoes(r, f.c, e.c)
  PROVE  Sound(f, n + 1) /\ KeepsCore(e, f)
  <1>1. Carried(e) /\ e.error \notin {"PushRefused", "DuplicateObjectKey"}
    BY DEF Sound
  <1>2. Fit(f.c)
    BY <1>1 DEF Carried, Fit
  <1>3. Tells(log \o f.events, f.c) /\ RootTold(log \o f.events, f.c)
    BY <1>1 DEF Carried, Tells, RootTold
  <1>4. IsSeq(f.undo)
    BY <1>1, IsSeqAppend DEF Carried
  <1>5. Carried(f)
    BY <1>1, <1>2, <1>3, <1>4 DEF Carried
  <1>6. Sound(f, n + 1)
    BY <1>1, <1>5, Recorded
  <1>7. KeepsCore(e, f)
    BY DEF KeepsCore
  <1>8. QED
    BY <1>6, <1>7

LEMMA Truncating ==
  ASSUME NEW c, NEW d, CursorShape(d), IsSeq(c.partial), NEW b,
         d.frames = c.frames, d.pool = c.pool,
         d.partial = c.partial \/ d.partial = Append(c.partial, b)
  PROVE  Undoes(TruncatePartial(c), d, c)
  <1> SUFFICES ASSUME NEW x
               PROVE  LET r == TruncatePartial(c)
                      IN  Undoable(Join(d, x), r) /\ Undone(Join(d, x), r) = Join(c, x)
    BY DEF Undoes
  <1> DEFINE r == TruncatePartial(c)
             new == Join(d, x)
             k == Len(c.partial)
  <1>1. r.op = "TruncatePartial" /\ r.len = k
    BY DEF TruncatePartial
  <1>2. k <= Len(d.partial) /\ SubSeq(d.partial, 1, k) = c.partial
    <2>1. k \in Nat /\ SubSeq(c.partial, 1, k) = c.partial
      BY IsSeqLen, SubSeqFull DEF IsSeq
    <2>2. Len(Append(c.partial, b)) = k + 1 /\ Front(Append(c.partial, b)) = c.partial
      BY IsSeqAppend
    <2>3. SubSeq(Append(c.partial, b), 1, k) = c.partial
      BY <2>1, <2>2 DEF Front
    <2> HIDE DEF k
    <2>4. QED
      BY <2>1, <2>2, <2>3 DEF k
  <1>3. new.partial = d.partial /\ [new EXCEPT !.partial = c.partial] = Join(c, x)
    BY DEF Join
  <1> HIDE DEF r, new, k
  <1>4. Undoable(new, r)
    BY <1>1, <1>2, <1>3 DEF Undoable
  <1>5. Undone(new, r) = [new EXCEPT !.partial = SubSeq(d.partial, 1, k)]
    BY <1>1, <1>3 DEF Undone
  <1>6. QED
    BY <1>2, <1>3, <1>4, <1>5 DEF r, new

LEMMA Typed ==
  ASSUME NEW e, NEW n \in Nat, Sound(e, n), n < Room, e.error = "none", NEW b,
         NEW f, f = push_partial(e, b)
  PROVE  Sound(f, n + 1) /\ KeepsCore(e, f)
  <1>1. EffectShape(e) /\ CursorShape(e.c) /\ Carried(e)
    BY Shaped DEF Sound
  <1>2. IsSeq(e.c.partial) /\ e.room = Room
    BY <1>1 DEF Carried, Fit
  <1>3. CASE Len(e.c.partial) >= MaxValueBytes
    <2>1. f = Fail(e, "ValueLimit")
      BY <1>3 DEF push_partial
    <2>2. Sound(f, n) /\ f.c = e.c /\ f.again = e.again
      BY <2>1, Failing
    <2>3. Sound(f, n + 1)
      BY <2>2, SoundMore
    <2>4. QED
      BY <2>2, <2>3 DEF KeepsCore
  <1>4. CASE ~(Len(e.c.partial) >= MaxValueBytes)
    <2> DEFINE r == TruncatePartial(e.c)
               more == Append(e.c.partial, b)
    <2> DEFINE g == Push(e, r)
    <2>1. g = Push(e, r) /\ IsSeq(more)
      BY <1>2, IsSeqAppend
    <2> HIDE DEF g
    <2>2. /\ EffectShape(g) /\ g.c = e.c /\ g.room = e.room /\ g.undo = Append(e.undo, r)
          /\ g.events = e.events /\ g.error = e.error /\ g.again = e.again
      BY <2>1, PushTaken
    <2>3. f = [g EXCEPT !.c.partial = Append(@, b)]
      BY <1>4, <2>1, <2>2 DEF push_partial, Then, Ok
    <2> HIDE DEF r
    <2>4. /\ EffectShape(f) /\ f.room = g.room /\ f.undo = g.undo
          /\ f.events = g.events /\ f.error = g.error /\ f.again = g.again
      BY <2>2, <2>3 DEF EffectShape
    <2>5. f.c = [e.c EXCEPT !.partial = more]
      BY <2>2, <2>3 DEF EffectShape
    <2> HIDE DEF more
    <2>6. /\ CursorShape(f.c)
          /\ f.c.mode = e.c.mode /\ f.c.frames = e.c.frames /\ f.c.pool = e.c.pool /\ f.c.root = e.c.root
          /\ f.c.arena = e.c.arena /\ f.c.partial = more /\ f.c.utf8 = e.c.utf8
          /\ f.c.byte_offset = e.c.byte_offset
      BY <1>1, <2>5 DEF CursorShape
    <2>7. Undoes(r, f.c, e.c)
      BY <1>2, <2>6, Truncating DEF r, more
    <2>8. QED
      BY <2>1, <2>2, <2>4, <2>6, <2>7, Rewritten
  <1>5. QED
    BY <1>3, <1>4

\* A record that partial is taken back by, while nothing changes.
LEMMA Noting ==
  ASSUME NEW e, NEW n \in Nat, Sound(e, n), n < Room, e.error = "none",
         NEW f, f = Push(e, TruncatePartial(e.c))
  PROVE  Sound(f, n + 1) /\ KeepsCore(e, f) /\ f.c = e.c /\ f.error = "none"
  <1>1. EffectShape(e) /\ CursorShape(e.c) /\ Carried(e)
    BY Shaped DEF Sound
  <1>2. IsSeq(e.c.partial)
    BY <1>1 DEF Carried, Fit
  <1> DEFINE r == TruncatePartial(e.c)
  <1>3. /\ EffectShape(f) /\ f.c = e.c /\ f.room = e.room /\ f.undo = Append(e.undo, r)
        /\ f.events = e.events /\ f.error = e.error /\ f.again = e.again
    BY PushTaken
  <1>4. Undoes(r, f.c, e.c)
    BY <1>1, <1>2, <1>3, Truncating
  <1> HIDE DEF r
  <1>5. Sound(f, n + 1) /\ KeepsCore(e, f)
    BY <1>1, <1>2, <1>3, <1>4, Rewritten
  <1>6. QED
    BY <1>3, <1>5

LEMMA TakingPartial ==
  ASSUME NEW e, NEW n \in Nat, Sound(e, n), n < Room, e.error = "none",
         NEW f, f = TakePartial(e)
  PROVE  /\ Sound(f, n + 1) /\ KeepsCore(e, f) /\ f.error = "none"
         /\ f.c.partial = <<>> /\ f.c.arena = e.c.arena
  <1>1. EffectShape(e) /\ CursorShape(e.c) /\ Carried(e)
    BY Shaped DEF Sound
  <1> DEFINE r == RestorePartial(e.c)
             g == Push(e, r)
  <1>2. g = Push(e, r) /\ f = [g EXCEPT !.c.partial = <<>>]
    BY DEF TakePartial
  <1> HIDE DEF g
  <1>3. /\ EffectShape(g) /\ g.c = e.c /\ g.room = e.room /\ g.undo = Append(e.undo, r)
        /\ g.events = e.events /\ g.error = e.error /\ g.again = e.again
    BY <1>2, PushTaken
  <1> HIDE DEF r
  <1>4. /\ EffectShape(f) /\ f.room = g.room /\ f.undo = g.undo
        /\ f.events = g.events /\ f.error = g.error /\ f.again = g.again
    BY <1>2, <1>3 DEF EffectShape
  <1>5. f.c = [e.c EXCEPT !.partial = <<>>]
    BY <1>2, <1>3 DEF EffectShape
  <1>6. /\ CursorShape(f.c)
        /\ f.c.mode = e.c.mode /\ f.c.frames = e.c.frames /\ f.c.pool = e.c.pool /\ f.c.root = e.c.root
        /\ f.c.arena = e.c.arena /\ f.c.partial = <<>> /\ f.c.utf8 = e.c.utf8
        /\ f.c.byte_offset = e.c.byte_offset
    BY <1>1, <1>5 DEF CursorShape
  <1>7. Undoes(r, f.c, e.c)
    <2> SUFFICES ASSUME NEW x
                 PROVE  Undoable(Join(f.c, x), r) /\ Undone(Join(f.c, x), r) = Join(e.c, x)
      BY DEF Undoes
    <2> DEFINE new == Join(f.c, x)
    <2>1. r.op = "RestorePartial" /\ r.partial = e.c.partial
      BY DEF r, RestorePartial
    <2>2. [new EXCEPT !.partial = e.c.partial] = Join(e.c, x)
      BY <1>6 DEF Join
    <2> HIDE DEF new
    <2>3. Undoable(new, r) /\ Undone(new, r) = [new EXCEPT !.partial = e.c.partial]
      BY <2>1 DEF Undoable, Undone
    <2>4. QED
      BY <2>2, <2>3 DEF new
  <1>8. Sound(f, n + 1) /\ KeepsCore(e, f)
    BY <1>3, <1>4, <1>6, <1>7, IsSeqEmpty, Rewritten
  <1>9. QED
    BY <1>3, <1>4, <1>6, <1>8

\* What an add_* of the arena may leave.
Adds(arena, added) ==
  \A b \in added : Whole(b) /\ Grown(arena, b) /\ Len(b.nodes) = Len(arena.nodes) + 1

LEMMA Adding ==
  ASSUME NEW e, NEW n \in Nat, Sound(e, n), e.error = "none", NEW added, Adds(e.c.arena, added),
         NEW f, f = AddNode(e, added)
  PROVE  /\ Sound(f, n) /\ KeepsCore(e, f)
         /\ f.error = "none" => Newest(f) \in 1..Len(f.c.arena.nodes)
  <1>1. EffectShape(e) /\ CursorShape(e.c) /\ Carried(e) /\ e.error \notin {"PushRefused", "DuplicateObjectKey"}
    BY Shaped DEF Sound
  <1>2. CASE added = {}
    <2>1. f = Fail(e, "ArenaLimit")
      BY <1>2 DEF AddNode
    <2>2. Sound(f, n) /\ f.error = "ArenaLimit" /\ f.c = e.c /\ f.again = e.again
      BY <2>1, Failing
    <2>3. KeepsCore(e, f)
      BY <2>2 DEF KeepsCore
    <2>4. QED
      BY <1>1, <2>2, <2>3
  <1>3. CASE added # {}
    <2> DEFINE b == CHOOSE arena \in added : TRUE
    <2>1. Whole(b) /\ Grown(e.c.arena, b) /\ Len(b.nodes) = Len(e.c.arena.nodes) + 1
      BY <1>3 DEF Adds
    <2>2. f = [e EXCEPT !.c.arena = b]
      BY <1>3 DEF AddNode
    <2> HIDE DEF b
    <2>3. /\ EffectShape(f) /\ f.room = e.room /\ f.undo = e.undo
          /\ f.events = e.events /\ f.error = e.error /\ f.again = e.again
      BY <1>1, <2>2 DEF EffectShape
    <2>4. f.c = [e.c EXCEPT !.arena = b]
      BY <1>1, <2>2 DEF EffectShape
    <2>5. /\ CursorShape(f.c)
          /\ f.c.mode = e.c.mode /\ f.c.frames = e.c.frames /\ f.c.pool = e.c.pool /\ f.c.root = e.c.root
          /\ f.c.arena = b /\ f.c.partial = e.c.partial /\ f.c.utf8 = e.c.utf8
          /\ f.c.byte_offset = e.c.byte_offset
      BY <1>1, <2>4 DEF CursorShape
    <2> DEFINE k == Len(e.c.arena.nodes)
    <2>6. /\ k \in Nat /\ Len(b.nodes) = k + 1 /\ IsArena(b) /\ IsArena(e.c.arena)
          /\ IsArena(cursor.arena) /\ Grown(cursor.arena, e.c.arena)
      BY <1>1, <2>1, IsSeqLen DEF Carried, Fit, Whole, IsArena
    <2>7. Fit(f.c)
      <3>1. StackFits(e.c.frames, e.c.pool, k) /\ IsSeq(e.c.partial) /\ e.c.root \in 0..k
        BY <1>1 DEF Carried, Fit
      <3> HIDE DEF k
      <3>2. k + 1 \in Nat /\ k <= k + 1 /\ e.c.root \in 0..(k + 1)
        BY <2>6, <3>1
      <3>3. StackFits(e.c.frames, e.c.pool, k + 1)
        BY <2>6, <3>1, <3>2, StackFitsMore
      <3>4. QED
        BY <2>1, <2>5, <2>6, <3>1, <3>2, <3>3 DEF Fit
    <2>8. Grown(cursor.arena, f.c.arena)
      BY <2>1, <2>5, <2>6, GrownThrough
    <2>9. Tells(log \o f.events, f.c) /\ RootTold(log \o f.events, f.c)
      <3>1. Tells(log \o e.events, e.c) /\ RootTold(log \o e.events, e.c)
        BY <1>1 DEF Carried
      <3>2. f.c.frames = e.c.frames /\ f.c.pool = e.c.pool /\ f.c.root = e.c.root
        BY <2>5
      <3> DEFINE told == log \o e.events
      <3>3. log \o f.events = told
        BY <2>3
      <3> HIDE DEF told
      <3>4. Tells(told, f.c)
        BY <3>1, <3>2 DEF Tells, told
      <3>5. RootTold(told, f.c)
        BY <3>1, <3>2 DEF RootTold, told
      <3>6. QED
        BY <3>3, <3>4, <3>5
    <2>10. Carried(f)
      BY <1>1, <2>3, <2>7, <2>8, <2>9 DEF Carried
    <2>11. Sound(f, n)
      BY <1>1, <2>3, <2>5, <2>10, Unrecorded
    <2>12. Newest(f) \in 1..Len(f.c.arena.nodes)
      <3> HIDE DEF k
      <3>1. Newest(f) = k + 1 /\ Len(f.c.arena.nodes) = k + 1
        BY <2>5, <2>6 DEF Newest
      <3>2. k + 1 \in 1..(k + 1)
        BY <2>6
      <3>3. QED
        BY <3>1, <3>2
    <2>13. KeepsCore(e, f)
      BY <2>3, <2>5 DEF KeepsCore
    <2>14. QED
      BY <2>3, <2>11, <2>12, <2>13
  <1>4. QED
    BY <1>2, <1>3

-------------------------------------------------------------------------------
(* The top of the stack.                                                   *)

LEMMA TopIs ==
  ASSUME NEW c, NEW rest, IsSeq(rest), NEW f, c.frames = Append(rest, f)
  PROVE  Top(c) = f /\ Front(c.frames) = rest /\ c.frames # <<>>
  <1>1. Last(c.frames) = f /\ Front(c.frames) = rest /\ c.frames # <<>>
    BY IsSeqAppend
  <1>2. QED
    BY <1>1 DEF Top

\* The stack of a cursor, split at its top.
LEMMA Topped ==
  ASSUME NEW e, Carried(e), e.c.frames # <<>>
  PROVE  /\ IsSeq(Front(e.c.frames)) /\ e.c.frames = Append(Front(e.c.frames), Top(e.c))
         /\ FrameFits(Top(e.c), Len(e.c.arena.nodes))
  <1>1. StackFits(e.c.frames, e.c.pool, Len(e.c.arena.nodes)) /\ IsSeq(e.c.frames)
    BY DEF Carried, Fit, StackFits
  <1>2. IsSeq(Front(e.c.frames)) /\ e.c.frames = Append(Front(e.c.frames), Top(e.c))
    BY <1>1, TopSplit DEF Top
  <1>3. Len(e.c.frames) \in 1..Len(e.c.frames) /\ Top(e.c) = e.c.frames[Len(e.c.frames)]
    <2>1. Len(e.c.frames) \in Nat \ {0} /\ Last(e.c.frames) = e.c.frames[Len(e.c.frames)]
      BY <1>1, IsSeqFront
    <2>2. QED
      BY <2>1 DEF Top
  <1>4. QED
    BY <1>1, <1>2, <1>3 DEF StackFits

LEMMA FrameKinds ==
  ASSUME NEW f, NEW nodes, FrameFits(f, nodes)
  PROVE  /\ f.kind \in {"array", "object"} /\ f.id \in Handles /\ IsSeq(f.values)
         /\ f.kind = "array" => ArrayShape(f) /\ ArrayFits(f, nodes)
         /\ f.kind = "object" => ObjectShape(f) /\ ObjectFits(f)
  <1>1. ArrayFits(f, nodes) => f.kind = "array" /\ ArrayShape(f)
    BY DEF ArrayFits, ArrayShape
  <1>2. ObjectFits(f) => f.kind = "object" /\ ObjectShape(f)
    BY DEF ObjectFits, ObjectShape
  <1>3. QED
    BY <1>1, <1>2 DEF FrameFits

\* One frame takes the place of another under the same handle, a record is pushed and an
\* event told.
Swap(e, n, rest, old, new) ==
  /\ Sound(e, n) /\ e.c.root = NoRoot
  /\ IsSeq(rest) /\ e.c.frames = Append(rest, old)
  /\ FrameFits(new, Len(e.c.arena.nodes)) /\ new.id = old.id

TellsSwap(ev, rest, old, new) ==
  /\ ev.type \notin {"ArrayStart", "ObjectStart", "RootComplete"}
  /\ Replayed(Append(Shapes(rest), Shape(old)), ev) = Append(Shapes(rest), Shape(new))

\* The record r is pushed, and partial may have changed.
Noted(e, r, y) ==
  /\ EffectShape(y) /\ y.room = e.room /\ y.undo = Append(e.undo, r) /\ y.events = e.events
  /\ y.error = e.error /\ y.again = e.again
  /\ CursorShape(y.c) /\ y.c.frames = e.c.frames /\ y.c.pool = e.c.pool /\ y.c.root = e.c.root
  /\ y.c.arena = e.c.arena /\ IsSeq(y.c.partial) /\ y.c.utf8 = e.c.utf8
  /\ y.c.byte_offset = e.c.byte_offset

Swapped(y, rest, new, ev, f) ==
  /\ EffectShape(f) /\ f.room = y.room /\ f.undo = y.undo /\ f.events = Append(y.events, ev)
  /\ f.error = y.error /\ f.again = y.again
  /\ CursorShape(f.c) /\ f.c.frames = Append(rest, new) /\ f.c.pool = y.c.pool
  /\ f.c.root = y.c.root /\ f.c.arena = y.c.arena /\ f.c.partial = y.c.partial
  /\ f.c.utf8 = y.c.utf8 /\ f.c.byte_offset = y.c.byte_offset

LEMMA Swapping ==
  ASSUME NEW y, EffectShape(y), CursorShape(y.c), NEW rest, IsSeq(rest), NEW old,
         y.c.frames = Append(rest, old), NEW new, NEW ev, NEW f, f = Emit(SetTop(y, new), ev)
  PROVE  Swapped(y, rest, new, ev, f)
  <1> DEFINE z == SetTop(y, new)
  <1>1. z = [y EXCEPT !.c.frames = Append(Front(@), new)]
    BY DEF SetTop
  <1>2. f = [z EXCEPT !.events = Append(@, ev)]
    BY DEF Emit
  <1> HIDE DEF z
  <1>3. /\ EffectShape(z) /\ z.room = y.room /\ z.undo = y.undo /\ z.events = y.events
        /\ z.error = y.error /\ z.again = y.again
    BY <1>1 DEF EffectShape
  <1>4. z.c = [y.c EXCEPT !.frames = Append(rest, new)]
    <2> DEFINE changed == Append(Front(y.c.frames), new)
    <2>1. changed = Append(rest, new)
      BY IsSeqAppend
    <2>2. z.c = [y.c EXCEPT !.frames = changed]
      BY <1>1 DEF EffectShape
    <2> HIDE DEF changed
    <2>3. QED
      BY <2>1, <2>2
  <1>5. /\ EffectShape(f) /\ f.room = y.room /\ f.undo = y.undo /\ f.events = Append(y.events, ev)
        /\ f.error = y.error /\ f.again = y.again /\ f.c = z.c
    BY <1>2, <1>3 DEF EffectShape
  <1>6. /\ CursorShape(f.c) /\ f.c.frames = Append(rest, new) /\ f.c.pool = y.c.pool
        /\ f.c.root = y.c.root /\ f.c.arena = y.c.arena /\ f.c.partial = y.c.partial
        /\ f.c.utf8 = y.c.utf8 /\ f.c.byte_offset = y.c.byte_offset
    BY <1>4, <1>5 DEF CursorShape
  <1>7. QED
    BY <1>5, <1>6 DEF Swapped

LEMMA SwapSound ==
  ASSUME NEW e, NEW n \in Nat, NEW rest, NEW old, NEW new, Swap(e, n, rest, old, new),
         NEW ev, TellsSwap(ev, rest, old, new), NEW r, NEW y, Noted(e, r, y),
         NEW f, Swapped(y, rest, new, ev, f), Undoes(r, f.c, e.c)
  PROVE  Sound(f, n + 1)
  <1>1. Sound(e, n) /\ Carried(e) /\ e.error \notin {"PushRefused", "DuplicateObjectKey"}
    BY DEF Sound, Swap
  <1>2. /\ e.c.frames = Append(rest, old) /\ e.c.root = NoRoot /\ IsSeq(rest) /\ new.id = old.id
        /\ FrameFits(new, Len(e.c.arena.nodes))
    BY DEF Swap
  <1>3. /\ EffectShape(f) /\ f.room = e.room /\ f.undo = Append(e.undo, r)
        /\ f.events = Append(e.events, ev) /\ f.error = e.error
    BY DEF Swapped, Noted
  <1>4. /\ CursorShape(f.c) /\ f.c.frames = Append(rest, new) /\ f.c.pool = e.c.pool
        /\ f.c.root = NoRoot /\ f.c.arena = e.c.arena /\ IsSeq(f.c.partial)
    BY <1>2 DEF Swapped, Noted
  <1>5. Fit(f.c)
    <2>1. StackFits(Append(rest, old), e.c.pool, Len(e.c.arena.nodes)) /\ Whole(e.c.arena)
      BY <1>1, <1>2 DEF Carried, Fit
    <2>2. StackFits(Append(rest, new), e.c.pool, Len(e.c.arena.nodes))
      BY <1>2, <2>1, StackTop
    <2>3. NoRoot \in 0..Len(e.c.arena.nodes)
      BY <1>1, <1>2 DEF Carried, Fit
    <2>4. QED
      BY <1>4, <2>1, <2>2, <2>3 DEF Fit
  <1> DEFINE told == log \o e.events
  <1>6. IsSeq(told) /\ IsSeq(f.events) /\ log \o f.events = Append(told, ev)
    BY <1>1, <1>3, OneMore
  <1>7. Tells(Append(told, ev), f.c)
    <2>1. Tells(told, e.c)
      BY <1>1 DEF Carried
    <2>2. Replayed(Shapes(e.c.frames), ev) = Shapes(f.c.frames)
      BY <1>2, <1>4, ShapesAppend DEF TellsSwap
    <2>3. ev.type \notin {"ArrayStart", "ObjectStart"}
      BY DEF TellsSwap
    <2> HIDE DEF told
    <2>4. QED
      BY <1>4, <2>1, <2>2, <2>3, TellsPlain
  <1>8. RootTold(Append(told, ev), f.c)
    <2> HIDE DEF told
    <2>1. ev.type # "RootComplete"
      BY DEF TellsSwap
    <2>2. QED
      BY <1>4, <1>6, <2>1, RootUntold
  <1> HIDE DEF told
  <1>9. IsSeq(f.undo)
    BY <1>1, <1>3, IsSeqAppend DEF Carried
  <1>10. Carried(f)
    BY <1>1, <1>3, <1>4, <1>5, <1>6, <1>7, <1>8, <1>9 DEF Carried
  <1>11. QED
    BY <1>1, <1>3, <1>10, Recorded

\* Taking the top of the stack back.
TopReturns(j, k, old, new, partial) ==
  /\ Top(j) = new /\ j.frames # <<>>
  /\ j.partial = partial => WithTop(j, old) = k
  /\ [WithTop(j, old) EXCEPT !.partial = partial] = k

LEMMA TopTakenBack ==
  ASSUME NEW c, NEW d, NEW x, NEW rest, IsSeq(rest), NEW old, NEW new,
         c.frames = Append(rest, old), d.frames = Append(rest, new), d.pool = c.pool
  PROVE  TopReturns(Join(d, x), Join(c, x), old, new, c.partial)
  <1> DEFINE j == Join(d, x)
             k == Join(c, x)
             w == WithTop(j, old)
             v == [w EXCEPT !.partial = c.partial]
  <1>1. /\ CursorShape(j) /\ j.mode = x.mode /\ j.frames = Append(rest, new) /\ j.pool = c.pool
        /\ j.root = x.root /\ j.arena = x.arena /\ j.partial = d.partial /\ j.utf8 = x.utf8
        /\ j.terminated = x.terminated /\ j.byte_offset = x.byte_offset
    BY DEF Join, CursorShape
  <1>2. /\ CursorShape(k) /\ k.mode = x.mode /\ k.frames = Append(rest, old) /\ k.pool = c.pool
        /\ k.root = x.root /\ k.arena = x.arena /\ k.partial = c.partial /\ k.utf8 = x.utf8
        /\ k.terminated = x.terminated /\ k.byte_offset = x.byte_offset
    BY DEF Join, CursorShape
  <1>3. w = [j EXCEPT !.frames = Append(Front(@), old)]
    BY DEF WithTop
  <1>4. v = [w EXCEPT !.partial = c.partial]
    OBVIOUS
  <1> HIDE DEF j, k, w, v
  <1>5. Front(j.frames) = rest /\ Top(j) = new /\ j.frames # <<>>
    BY <1>1, TopIs
  <1>6. /\ CursorShape(w) /\ w.mode = x.mode /\ w.frames = Append(rest, old) /\ w.pool = c.pool
        /\ w.root = x.root /\ w.arena = x.arena /\ w.partial = d.partial /\ w.utf8 = x.utf8
        /\ w.terminated = x.terminated /\ w.byte_offset = x.byte_offset
    BY <1>1, <1>3, <1>5 DEF CursorShape
  <1>7. /\ CursorShape(v) /\ v.mode = x.mode /\ v.frames = Append(rest, old) /\ v.pool = c.pool
        /\ v.root = x.root /\ v.arena = x.arena /\ v.partial = c.partial /\ v.utf8 = x.utf8
        /\ v.terminated = x.terminated /\ v.byte_offset = x.byte_offset
    BY <1>4, <1>6 DEF CursorShape
  <1>8. v = k
    BY <1>2, <1>7 DEF CursorShape
  <1>9. j.partial = c.partial => w = k
    BY <1>1, <1>2, <1>6 DEF CursorShape
  <1>10. QED
    BY <1>5, <1>8, <1>9 DEF j, k, w, v, TopReturns

\* The cursors c and d differ in the top of the stack.
Restacked(c, d, rest, old, new) ==
  /\ IsSeq(rest) /\ c.frames = Append(rest, old) /\ d.frames = Append(rest, new)
  /\ d.pool = c.pool

\* What an item, a key and a value do to the frame they are published in.
ItemAdded(old, new, v) ==
  /\ ArrayShape(old) /\ old.kind = "array" /\ IsSeq(old.values)
  /\ new = [old EXCEPT !.values = Append(@, v)]

KeyAdded(old, new, key) ==
  /\ ObjectShape(old) /\ old.kind = "object" /\ IsSeq(old.values)
  /\ old.current_key = {} /\ key \notin old.seen_keys
  /\ new = [old EXCEPT !.seen_keys = @ \union {key}, !.current_key = {key}]

PropertyAdded(old, new, key, v) ==
  /\ ObjectShape(old) /\ old.kind = "object" /\ IsSeq(old.values) /\ old.current_key = {key}
  /\ new = [old EXCEPT !.current_key = {}, !.values = Append(@, <<key, v>>)]

LEMMA TakingItemBack ==
  ASSUME NEW c, NEW d, NEW rest, NEW old, NEW new, Restacked(c, d, rest, old, new),
         d.partial = c.partial, NEW v, ItemAdded(old, new, v)
  PROVE  Undoes(PopArrayValue(old.id), d, c)
  <1> DEFINE r == PopArrayValue(old.id)
  <1>1. /\ ArrayShape(old) /\ old.kind = "array" /\ IsSeq(old.values)
        /\ ArrayShape(new) /\ new.kind = "array" /\ new.id = old.id
        /\ new.values = Append(old.values, v)
    BY DEF ArrayShape, ItemAdded
  <1>2. new.values # <<>> /\ Front(new.values) = old.values
    <2> DEFINE more == Append(old.values, v)
    <2>1. more # <<>> /\ Front(more) = old.values
      BY <1>1, IsSeqAppend
    <2> HIDE DEF more
    <2>2. QED
      BY <1>1, <2>1 DEF more
  <1> DEFINE w == [new EXCEPT !.values = Front(@)]
  <1>3. w = old
    <2>1. w = [new EXCEPT !.values = old.values]
      BY <1>2
    <2> HIDE DEF w
    <2>2. ArrayShape(w) /\ w.kind = "array" /\ w.id = new.id /\ w.values = old.values
      BY <1>1, <2>1 DEF ArrayShape
    <2>3. QED
      BY <1>1, <2>2 DEF ArrayShape
  <1>4. r.op = "PopArrayValue" /\ r.id = old.id
    BY DEF PopArrayValue
  <1> HIDE DEF r
  <1> SUFFICES ASSUME NEW x
               PROVE  Undoable(Join(d, x), r) /\ Undone(Join(d, x), r) = Join(c, x)
    BY DEF Undoes, r
  <1> DEFINE j == Join(d, x)
  <1>0. TopReturns(j, Join(c, x), old, new, c.partial) /\ j.partial = d.partial
    BY TopTakenBack DEF Join, Restacked
  <1> HIDE DEF j
  <1>5. Top(j) = new /\ j.frames # <<>> /\ WithTop(j, old) = Join(c, x)
    BY <1>0 DEF TopReturns
  <1>6. Undoable(j, r)
    BY <1>1, <1>2, <1>4, <1>5 DEF Undoable, Inside
  <1>7. Undone(j, r) = WithTop(j, w)
    BY <1>4, <1>5 DEF Undone
  <1> HIDE DEF w
  <1>8. QED
    BY <1>3, <1>5, <1>6, <1>7 DEF j

LEMMA TakingPropertyBack ==
  ASSUME NEW c, NEW d, NEW rest, NEW old, NEW new, Restacked(c, d, rest, old, new),
         d.partial = c.partial, NEW key, NEW v, PropertyAdded(old, new, key, v)
  PROVE  Undoes(PopObjectValue(old.id), d, c)
  <1> DEFINE pair == <<key, v>>
             r == PopObjectValue(old.id)
  <1>0. pair[1] = key
    OBVIOUS
  <1> HIDE DEF pair
  <1>1. /\ ObjectShape(old) /\ old.kind = "object" /\ IsSeq(old.values) /\ old.current_key = {key}
        /\ ObjectShape(new) /\ new.kind = "object" /\ new.id = old.id /\ new.current_key = {}
        /\ new.values = Append(old.values, pair) /\ new.seen_keys = old.seen_keys
    BY DEF ObjectShape, pair, PropertyAdded
  <1>2. new.values # <<>> /\ Front(new.values) = old.values /\ Last(new.values) = pair
    BY <1>1, IsSeqAppend
  <1> DEFINE w == [new EXCEPT !.values = Front(@), !.current_key = {Last(new.values)[1]}]
  <1>3. w = old
    <2>1. w = [new EXCEPT !.values = old.values, !.current_key = {key}]
      BY <1>0, <1>2
    <2> HIDE DEF w
    <2>2. /\ ObjectShape(w) /\ w.kind = "object" /\ w.id = old.id /\ w.values = old.values
          /\ w.current_key = {key} /\ w.seen_keys = old.seen_keys
      BY <1>1, <2>1 DEF ObjectShape
    <2>3. QED
      BY <1>1, <2>2 DEF ObjectShape
  <1>4. r.op = "PopObjectValue" /\ r.id = old.id
    BY DEF PopObjectValue
  <1> HIDE DEF r
  <1> SUFFICES ASSUME NEW x
               PROVE  Undoable(Join(d, x), r) /\ Undone(Join(d, x), r) = Join(c, x)
    BY DEF Undoes, r
  <1> DEFINE j == Join(d, x)
  <1>5. TopReturns(j, Join(c, x), old, new, c.partial) /\ j.partial = d.partial
    BY TopTakenBack DEF Join, Restacked
  <1> HIDE DEF j
  <1>6. Top(j) = new /\ j.frames # <<>> /\ WithTop(j, old) = Join(c, x)
    BY <1>5 DEF TopReturns
  <1>7. Undoable(j, r)
    BY <1>1, <1>2, <1>4, <1>6 DEF Undoable, Inside
  <1>8. Undone(j, r) = WithTop(j, w)
    BY <1>4, <1>6 DEF Undone
  <1> HIDE DEF w
  <1>9. QED
    BY <1>3, <1>6, <1>7, <1>8 DEF j

LEMMA TakingKeyBack ==
  ASSUME NEW c, NEW d, NEW rest, NEW old, NEW new, Restacked(c, d, rest, old, new),
         NEW key, KeyAdded(old, new, key), c.partial = key
  PROVE  Undoes(UndoObjectKey(old.id), d, c)
  <1> DEFINE r == UndoObjectKey(old.id)
  <1>1. /\ ObjectShape(old) /\ old.kind = "object" /\ old.current_key = {} /\ key \notin old.seen_keys
        /\ ObjectShape(new) /\ new.kind = "object" /\ new.id = old.id /\ new.current_key = {key}
        /\ new.values = old.values /\ new.seen_keys = old.seen_keys \union {key}
    BY DEF ObjectShape, KeyAdded
  <1> DEFINE w == [new EXCEPT !.current_key = {}, !.seen_keys = @ \ new.current_key]
  <1>3. w = old
    <2>1. new.seen_keys \ new.current_key = old.seen_keys
      BY <1>1
    <2>2. w = [new EXCEPT !.current_key = {}, !.seen_keys = old.seen_keys]
      BY <2>1
    <2> HIDE DEF w
    <2>3. /\ ObjectShape(w) /\ w.kind = "object" /\ w.id = old.id /\ w.values = old.values
          /\ w.current_key = {} /\ w.seen_keys = old.seen_keys
      BY <1>1, <2>2 DEF ObjectShape
    <2>4. QED
      BY <1>1, <2>3 DEF ObjectShape
  <1>4. r.op = "UndoObjectKey" /\ r.id = old.id
    BY DEF UndoObjectKey
  <1> HIDE DEF r
  <1> SUFFICES ASSUME NEW x
               PROVE  Undoable(Join(d, x), r) /\ Undone(Join(d, x), r) = Join(c, x)
    BY DEF Undoes, r
  <1> DEFINE j == Join(d, x)
  <1>0. TopReturns(j, Join(c, x), old, new, c.partial)
    BY TopTakenBack DEF Restacked
  <1> HIDE DEF j
  <1>5. /\ Top(j) = new /\ j.frames # <<>>
        /\ [WithTop(j, old) EXCEPT !.partial = c.partial] = Join(c, x)
    BY <1>0 DEF TopReturns
  <1>6. Undoable(j, r)
    BY <1>1, <1>4, <1>5 DEF Undoable, Inside
  <1>7. Undone(j, r) = [WithTop(j, w) EXCEPT !.partial = CHOOSE k \in new.current_key : TRUE]
    BY <1>4, <1>5 DEF Undone
  <1>8. (CHOOSE k \in new.current_key : TRUE) = key
    BY <1>1
  <1> HIDE DEF w
  <1>9. QED
    BY <1>3, <1>5, <1>6, <1>7, <1>8 DEF j

\* What is told of it.
ItemSealed(f, v) ==
  [type |-> "ItemSealed", frame |-> f.id, index |-> Len(f.values), value |-> v]
KeySealed(f, key) == [type |-> "PropertyKeySealed", frame |-> f.id, key |-> key]
ValueSealed(f, key, v) ==
  [type |-> "PropertyValueSealed", frame |-> f.id, key |-> key, value |-> v]

LEMMA TellsItem ==
  ASSUME NEW old, NEW new, NEW v, ItemAdded(old, new, v), NEW rest, IsSeq(rest)
  PROVE  TellsSwap(ItemSealed(old, v), rest, old, new)
  <1> DEFINE base == Shapes(rest)
             s == Shape(old)
             all == Append(base, s)
             n == Len(old.values)
             ev == ItemSealed(old, v)
  <1>1. /\ old.kind = "array" /\ IsSeq(old.values)
        /\ new.kind = "array" /\ new.id = old.id /\ new.values = Append(old.values, v)
    BY DEF ItemAdded, ArrayShape
  <1>2. ev = [type |-> "ItemSealed", frame |-> old.id, index |-> Len(old.values), value |-> v]
    BY DEF ItemSealed
  <1>3. IsSeq(base)
    BY ShapesAppend
  <1> HIDE DEF ev, base
  <1>4. s = Entry("array", old.id, n, {})
    BY <1>1 DEF Shape, Entry
  <1>5. Shape(new) = Entry("array", old.id, n + 1, {})
    BY <1>1, IsSeqAppend DEF Shape, Entry
  <1>6. all = Append(base, s)
    OBVIOUS
  <1> HIDE DEF s, all
  <1>7. all # <<>> /\ Front(all) = base /\ Last(all) = s
    BY <1>3, <1>6, IsSeqAppend
  <1>8. s.kind = "array" /\ s.id = old.id /\ s.count = n /\ s.key = {}
    BY <1>4 DEF Entry
  <1> DEFINE t == [s EXCEPT !.count = n + 1]
  <1>9. t = Entry("array", old.id, n + 1, {})
    <2>1. t = [s EXCEPT !.count = n + 1]
      OBVIOUS
    <2> HIDE DEF t
    <2>2. t = [kind |-> t.kind, id |-> t.id, count |-> t.count, key |-> t.key]
      BY <1>4, <2>1 DEF Entry
    <2>3. t.kind = "array" /\ t.id = old.id /\ t.count = n + 1 /\ t.key = {}
      BY <1>4, <2>1 DEF Entry
    <2>4. QED
      BY <2>2, <2>3 DEF Entry
  <1>10. Replayed(all, ev) = Append(Front(all), t)
    BY <1>2, <1>7, <1>8 DEF Replayed
  <1>11. Replayed(Append(base, Shape(old)), ev) = Append(base, Shape(new))
    BY <1>5, <1>7, <1>9, <1>10 DEF all, s
  <1>12. QED
    BY <1>2, <1>11 DEF TellsSwap, base, ev

LEMMA TellsKey ==
  ASSUME NEW old, NEW new, NEW key, KeyAdded(old, new, key), NEW rest, IsSeq(rest)
  PROVE  TellsSwap(KeySealed(old, key), rest, old, new)
  <1> DEFINE base == Shapes(rest)
             s == Shape(old)
             all == Append(base, s)
             n == Len(old.values)
             ev == KeySealed(old, key)
  <1>1. /\ old.kind = "object" /\ old.current_key = {}
        /\ new.kind = "object" /\ new.id = old.id /\ new.values = old.values
        /\ new.current_key = {key}
    BY DEF KeyAdded, ObjectShape
  <1>2. ev = [type |-> "PropertyKeySealed", frame |-> old.id, key |-> key]
    BY DEF KeySealed
  <1>3. IsSeq(base)
    BY ShapesAppend
  <1> HIDE DEF ev, base
  <1>4. s = Entry("object", old.id, n, {})
    BY <1>1 DEF Shape, Entry
  <1>5. Shape(new) = Entry("object", old.id, n, {key})
    BY <1>1 DEF Shape, Entry
  <1>6. all = Append(base, s)
    OBVIOUS
  <1> HIDE DEF s, all
  <1>7. all # <<>> /\ Front(all) = base /\ Last(all) = s
    BY <1>3, <1>6, IsSeqAppend
  <1>8. s.kind = "object" /\ s.id = old.id /\ s.count = n /\ s.key = {}
    BY <1>4 DEF Entry
  <1> DEFINE t == [s EXCEPT !.key = {key}]
  <1>9. t = Entry("object", old.id, n, {key})
    <2>1. t = [s EXCEPT !.key = {key}]
      OBVIOUS
    <2> HIDE DEF t
    <2>2. t = [kind |-> t.kind, id |-> t.id, count |-> t.count, key |-> t.key]
      BY <1>4, <2>1 DEF Entry
    <2>3. t.kind = "object" /\ t.id = old.id /\ t.count = n /\ t.key = {key}
      BY <1>4, <2>1 DEF Entry
    <2>4. QED
      BY <2>2, <2>3 DEF Entry
  <1>10. Replayed(all, ev) = Append(Front(all), t)
    BY <1>2, <1>7, <1>8 DEF Replayed
  <1>11. Replayed(Append(base, Shape(old)), ev) = Append(base, Shape(new))
    BY <1>5, <1>7, <1>9, <1>10 DEF all, s
  <1>12. QED
    BY <1>2, <1>11 DEF TellsSwap, base, ev

LEMMA TellsValue ==
  ASSUME NEW old, NEW new, NEW key, NEW v, PropertyAdded(old, new, key, v), NEW rest, IsSeq(rest)
  PROVE  TellsSwap(ValueSealed(old, key, v), rest, old, new)
  <1> DEFINE base == Shapes(rest)
             s == Shape(old)
             all == Append(base, s)
             n == Len(old.values)
             ev == ValueSealed(old, key, v)
             pair == <<key, v>>
  <1>1. /\ old.kind = "object" /\ IsSeq(old.values) /\ old.current_key = {key}
        /\ new.kind = "object" /\ new.id = old.id /\ new.values = Append(old.values, pair)
        /\ new.current_key = {}
    BY DEF PropertyAdded, ObjectShape
  <1>2. ev = [type |-> "PropertyValueSealed", frame |-> old.id, key |-> key, value |-> v]
    BY DEF ValueSealed
  <1>3. IsSeq(base)
    BY ShapesAppend
  <1> HIDE DEF ev, base, pair
  <1>4. s = Entry("object", old.id, n, {key})
    BY <1>1 DEF Shape, Entry
  <1>5. Shape(new) = Entry("object", old.id, n + 1, {})
    BY <1>1, IsSeqAppend DEF Shape, Entry
  <1>6. all = Append(base, s)
    OBVIOUS
  <1> HIDE DEF s, all
  <1>7. all # <<>> /\ Front(all) = base /\ Last(all) = s
    BY <1>3, <1>6, IsSeqAppend
  <1>8. s.kind = "object" /\ s.id = old.id /\ s.key = {key} /\ s.count = n
    BY <1>4 DEF Entry
  <1> DEFINE t == [s EXCEPT !.count = n + 1, !.key = {}]
  <1>9. t = Entry("object", old.id, n + 1, {})
    <2>1. t = [s EXCEPT !.count = n + 1, !.key = {}]
      OBVIOUS
    <2> HIDE DEF t
    <2>2. t = [kind |-> t.kind, id |-> t.id, count |-> t.count, key |-> t.key]
      BY <1>4, <2>1 DEF Entry
    <2>3. t.kind = "object" /\ t.id = old.id /\ t.count = n + 1 /\ t.key = {}
      BY <1>4, <2>1 DEF Entry
    <2>4. QED
      BY <2>2, <2>3 DEF Entry
  <1>10. Replayed(all, ev) = Append(Front(all), t)
    BY <1>2, <1>7, <1>8 DEF Replayed
  <1>11. Replayed(Append(base, Shape(old)), ev) = Append(base, Shape(new))
    BY <1>5, <1>7, <1>9, <1>10 DEF all, s
  <1>12. QED
    BY <1>2, <1>11 DEF TellsSwap, base, ev

-------------------------------------------------------------------------------
(* Publishing a value.                                                     *)

\* Where a value is due.
Expecting(c) ==
  /\ c.root = NoRoot /\ c.utf8 = NoUtf8
  /\ Inside(c, "object") => Top(c).current_key # {}

AfterValue == {"ExpectArrayCommaOrEnd", "ExpectObjectCommaOrEnd", "CompleteRoot"}

Published(e, f, n) ==
  /\ Sound(f, n)
  /\ f.c.byte_offset = e.c.byte_offset /\ f.again = e.again
  /\ f.error = "none" => CoreFits(f.c) /\ f.c.mode[1] \in AfterValue

LEMMA PublishedAnyway ==
  ASSUME NEW e, NEW n \in Nat, Sound(e, n), NEW m \in Nat, n <= m, NEW why,
         why \notin {"PushRefused", "DuplicateObjectKey", "none"}, NEW f, f = Fail(e, why)
  PROVE  Published(e, f, m)
  <1>1. Sound(f, n) /\ f.error = why /\ f.c = e.c /\ f.again = e.again
    BY Failing
  <1>2. Sound(f, m)
    BY <1>1, SoundMore
  <1>3. QED
    BY <1>1, <1>2 DEF Published

LEMMA Pushing ==
  ASSUME NEW e, NEW n \in Nat, Sound(e, n), n < Room, e.error = "none", NEW r,
         NEW y, y = Push(e, r)
  PROVE  Noted(e, r, y) /\ y.c = e.c /\ y.error = "none"
  <1>1. /\ EffectShape(y) /\ y.c = e.c /\ y.room = e.room /\ y.undo = Append(e.undo, r)
        /\ y.events = e.events /\ y.error = e.error /\ y.again = e.again
    BY PushTaken
  <1>2. CursorShape(e.c) /\ IsSeq(e.c.partial)
    BY DEF Sound, Carried, Fit
  <1>3. QED
    BY <1>1, <1>2 DEF Noted

LEMMA ItemFits ==
  ASSUME NEW old, NEW nodes, FrameFits(old, nodes), old.kind = "array", NEW v \in 1..nodes,
         NEW new, new = [old EXCEPT !.values = Append(@, v)]
  PROVE  /\ FrameFits(new, nodes) /\ new.kind = "array" /\ new.id = old.id
         /\ new.values = Append(old.values, v)
  <1>1. ArrayShape(old) /\ ArrayFits(old, nodes) /\ old.id \in Handles /\ IsSeq(old.values)
    BY FrameKinds
  <1>2. /\ ArrayShape(new) /\ new.kind = "array" /\ new.id = old.id
        /\ new.values = Append(old.values, v)
    BY <1>1 DEF ArrayShape
  <1> DEFINE k == Len(old.values)
  <1>3. /\ k \in Nat /\ IsSeq(new.values) /\ Len(new.values) = k + 1 /\ new.values[k + 1] = v
        /\ \A i \in 1..k : new.values[i] = old.values[i]
    <2> DEFINE more == Append(old.values, v)
    <2>1. /\ k \in Nat /\ IsSeq(more) /\ Len(more) = k + 1 /\ more[k + 1] = v
          /\ \A i \in 1..k : more[i] = old.values[i]
      BY <1>1, IsSeqLen, IsSeqAppend
    <2> HIDE DEF more, k
    <2>2. QED
      BY <1>2, <2>1 DEF more
  <1>4. \A i \in 1..k : old.values[i] \in 1..nodes
    BY <1>1 DEF ArrayFits
  <1> HIDE DEF k
  <1>5. \A i \in 1..(k + 1) : i = k + 1 \/ i \in 1..k
    BY <1>3
  <1>6. \A i \in 1..Len(new.values) : new.values[i] \in 1..nodes
    BY <1>3, <1>4, <1>5
  <1>7. ArrayFits(new, nodes)
    BY <1>2, <1>6 DEF ArrayFits, ArrayShape
  <1>8. QED
    BY <1>1, <1>2, <1>3, <1>7 DEF FrameFits

LEMMA PublishingItem ==
  ASSUME NEW e, NEW n \in Nat, Sound(e, n), n < Room, e.error = "none", Expecting(e.c),
         Inside(e.c, "array"), NEW v \in 1..Len(e.c.arena.nodes), NEW f, f = PublishItem(e, v)
  PROVE  Published(e, f, n + 1)
  <1> DEFINE old == Top(e.c)
             rest == Front(e.c.frames)
             new == [old EXCEPT !.values = Append(@, v)]
             nodes == Len(e.c.arena.nodes)
             r == PopArrayValue(old.id)
             ev == ItemSealed(old, v)
             y == Push(e, r)
             g == Emit(SetTop(y, new), ev)
  <1>1. CASE Len(old.values) >= MaxItems
    <2>1. f = Fail(e, "ItemLimit")
      BY <1>1 DEF PublishItem
    <2> HIDE DEF old
    <2>2. QED
      BY <2>1, PublishedAnyway
  <1>2. CASE ~(Len(old.values) >= MaxItems)
    <2>1. Carried(e) /\ e.c.frames # <<>> /\ old.kind = "array" /\ e.c.root = NoRoot
      BY DEF Sound, Inside, Expecting
    <2>2. IsSeq(rest) /\ e.c.frames = Append(rest, old) /\ FrameFits(old, nodes)
      BY <2>1, Topped
    <2>3. y = Push(e, r) /\ new = [old EXCEPT !.values = Append(@, v)] /\ v \in 1..nodes
      OBVIOUS
    <2>4. f = Then(y, LAMBDA x : AddItem(x, old, v))
      BY <1>2 DEF PublishItem
    <2>5. g = Emit(SetTop(y, new), ev) /\ r = PopArrayValue(old.id) /\ ev = ItemSealed(old, v)
      OBVIOUS
    <2>6. AddItem(y, old, v) = Goto(g, Mode("ExpectArrayCommaOrEnd"))
      BY DEF AddItem, ItemSealed
    <2> HIDE DEF old, rest, new, r, ev, y, g
    <2>7. Noted(e, r, y) /\ y.c = e.c /\ y.error = "none"
      BY <2>3, Pushing
    <2>8. f = Goto(g, Mode("ExpectArrayCommaOrEnd"))
      BY <2>4, <2>6, <2>7 DEF Then, Ok
    <2>9. FrameFits(new, nodes) /\ new.id = old.id /\ new.kind = "array"
      <3> HIDE DEF nodes
      <3>1. QED
        BY <2>1, <2>2, <2>3, ItemFits
    <2>10. ItemAdded(old, new, v)
      BY <2>1, <2>2, <2>3, FrameKinds DEF ItemAdded
    <2>11. TellsSwap(ev, rest, old, new)
      BY <2>2, <2>5, <2>10, TellsItem
    <2>12. Swap(e, n, rest, old, new)
      BY <2>1, <2>2, <2>9 DEF Swap
    <2>13. Swapped(y, rest, new, ev, g)
      BY <2>2, <2>5, <2>7, Swapping DEF Noted
    <2>14. Restacked(e.c, g.c, rest, old, new) /\ g.c.partial = e.c.partial
      BY <2>2, <2>7, <2>13 DEF Swapped, Restacked
    <2>15. Undoes(r, g.c, e.c)
      BY <2>5, <2>10, <2>14, TakingItemBack
    <2>16. Sound(g, n + 1)
      BY <2>7, <2>11, <2>12, <2>13, <2>15, SwapSound
    <2>17. Sound(f, n + 1) /\ Restyled(g, f, Mode("ExpectArrayCommaOrEnd"), g.c.utf8)
      BY <2>8, <2>16, Going
    <2>18. /\ f.c.frames = Append(rest, new) /\ f.c.root = NoRoot /\ f.c.utf8 = NoUtf8
           /\ f.c.mode = Mode("ExpectArrayCommaOrEnd") /\ f.c.byte_offset = e.c.byte_offset
           /\ f.again = e.again
      BY <2>1, <2>7, <2>13, <2>17 DEF Restyled, SameData, Swapped, Noted, Expecting
    <2>19. Top(f.c) = new /\ f.c.frames # <<>>
      BY <2>2, <2>18, TopIs
    <2>20. f.c.mode[1] = "ExpectArrayCommaOrEnd"
      BY <2>18 DEF Mode
    <2>21. CoreFits(f.c)
      BY <2>9, <2>18, <2>19, <2>20 DEF CoreFits, ModeFits, Utf8Fits, KeyDue, StringModes, Inside, NoRoot
    <2>22. QED
      BY <2>17, <2>18, <2>20, <2>21 DEF Published, AfterValue
  <1>3. QED
    BY <1>1, <1>2

LEMMA PropertyFits ==
  ASSUME NEW old, NEW new, NEW key, NEW v, PropertyAdded(old, new, key, v),
         NEW nodes, FrameFits(old, nodes)
  PROVE  /\ FrameFits(new, nodes) /\ new.kind = "object" /\ new.id = old.id
         /\ new.current_key = {}
  <1>1. /\ ObjectShape(old) /\ ObjectFits(old) /\ old.id \in Handles /\ IsSeq(old.values)
        /\ old.current_key = {key}
    BY FrameKinds DEF PropertyAdded
  <1> DEFINE pair == <<key, v>>
  <1>2. pair = <<pair[1], pair[2]>> /\ pair[1] = key
    OBVIOUS
  <1> HIDE DEF pair
  <1>3. /\ ObjectShape(new) /\ new.kind = "object" /\ new.id = old.id
        /\ new.values = Append(old.values, pair) /\ new.current_key = {}
        /\ new.seen_keys = old.seen_keys
    BY <1>1 DEF ObjectShape, pair, PropertyAdded
  <1> DEFINE k == Len(old.values)
  <1>4. /\ k \in Nat /\ IsSeq(new.values) /\ DOMAIN new.values = 1..(k + 1)
        /\ Len(new.values) = k + 1 /\ new.values[k + 1] = pair /\ DOMAIN old.values = 1..k
        /\ \A i \in 1..k : new.values[i] = old.values[i]
    <2> DEFINE more == Append(old.values, pair)
    <2>1. /\ k \in Nat /\ IsSeq(more) /\ Len(more) = k + 1 /\ more[k + 1] = pair
          /\ \A i \in 1..k : more[i] = old.values[i]
      BY <1>1, IsSeqLen, IsSeqAppend
    <2>2. DOMAIN old.values = 1..k /\ DOMAIN more = 1..Len(more)
      BY <1>1, <2>1, IsSeqLen
    <2> HIDE DEF more, k
    <2>3. QED
      BY <1>3, <2>1, <2>2 DEF more
  <1> HIDE DEF k
  <1>5. \A i \in 1..(k + 1) : i = k + 1 \/ i \in 1..k
    BY <1>4
  <1>6. k + 1 \in 1..(k + 1) /\ \A i \in 1..k : i \in 1..(k + 1)
    BY <1>4
  <1>7. IsSeq(key)
    BY <1>1 DEF ObjectFits
  <1>8. \A i \in 1..k : old.values[i] = <<old.values[i][1], old.values[i][2]>> /\ IsSeq(old.values[i][1])
    BY <1>1 DEF ObjectFits, k
  <1>9. \A i \in 1..(k + 1) : new.values[i] = <<new.values[i][1], new.values[i][2]>> /\ IsSeq(new.values[i][1])
    BY <1>2, <1>4, <1>5, <1>7, <1>8
  <1>10. new.seen_keys = { new.values[j][1] : j \in 1..(k + 1) }
    <2>1. new.seen_keys = { old.values[j][1] : j \in 1..k } \union {key}
      BY <1>1, <1>3, <1>4 DEF ObjectFits
    <2>2. \A j \in 1..k : old.values[j][1] = new.values[j][1]
      BY <1>4
    <2>3. new.values[k + 1][1] = key
      BY <1>2, <1>4
    <2>4. QED
      BY <1>5, <1>6, <2>1, <2>2, <2>3
  <1>11. ObjectFits(new)
    BY <1>3, <1>4, <1>9, <1>10 DEF ObjectFits, ObjectShape
  <1>12. FrameFits(new, nodes)
    BY <1>1, <1>3, <1>4, <1>11 DEF FrameFits
  <1>13. QED
    BY <1>3, <1>12

LEMMA PublishingProperty ==
  ASSUME NEW e, NEW n \in Nat, Sound(e, n), n < Room, e.error = "none", Expecting(e.c),
         Inside(e.c, "object"), NEW v, NEW f, f = PublishProperty(e, v)
  PROVE  Published(e, f, n + 1)
  <1> DEFINE old == Top(e.c)
             key == CHOOSE k \in old.current_key : TRUE
             rest == Front(e.c.frames)
             new == [old EXCEPT !.current_key = {}, !.values = Append(@, <<key, v>>)]
             nodes == Len(e.c.arena.nodes)
             r == PopObjectValue(old.id)
             ev == ValueSealed(old, key, v)
             y == Push(e, r)
             g == Emit(SetTop(y, new), ev)
  <1>1. CASE Len(old.values) >= MaxMembers
    <2>1. f = Fail(e, "MemberLimit")
      BY <1>1 DEF PublishProperty, Expecting
    <2> HIDE DEF old
    <2>2. QED
      BY <2>1, PublishedAnyway
  <1>2. CASE ~(Len(old.values) >= MaxMembers)
    <2>1. /\ Carried(e) /\ e.c.frames # <<>> /\ old.kind = "object" /\ e.c.root = NoRoot
          /\ old.current_key # {}
      BY DEF Sound, Inside, Expecting
    <2>2. IsSeq(rest) /\ e.c.frames = Append(rest, old) /\ FrameFits(old, nodes)
      BY <2>1, Topped
    <2>3. /\ y = Push(e, r)
          /\ new = [old EXCEPT !.current_key = {}, !.values = Append(@, <<key, v>>)]
      OBVIOUS
    <2>4. f = Then(y, LAMBDA x : AddProperty(x, old, v))
      BY <1>2, <2>1 DEF PublishProperty
    <2>5. g = Emit(SetTop(y, new), ev) /\ r = PopObjectValue(old.id) /\ ev = ValueSealed(old, key, v)
      OBVIOUS
    <2>6. AddProperty(y, old, v) = Goto(g, Mode("ExpectObjectCommaOrEnd"))
      BY DEF AddProperty, ValueSealed, AfterProperty
    <2>7. old.current_key = {key}
      <3>1. ObjectFits(old)
        BY <2>1, <2>2, FrameKinds
      <3> HIDE DEF old
      <3>2. QED
        BY <2>1, <3>1 DEF ObjectFits
    <2> HIDE DEF old, rest, new, r, ev, y, g, key
    <2>8. Noted(e, r, y) /\ y.c = e.c /\ y.error = "none"
      BY <2>3, Pushing
    <2>9. f = Goto(g, Mode("ExpectObjectCommaOrEnd"))
      BY <2>4, <2>6, <2>8 DEF Then, Ok
    <2>10. /\ FrameFits(new, nodes) /\ new.id = old.id /\ new.kind = "object"
           /\ new.current_key = {} /\ PropertyAdded(old, new, key, v)
      <3>1. PropertyAdded(old, new, key, v)
        BY <2>1, <2>2, <2>3, <2>7, FrameKinds DEF PropertyAdded
      <3> HIDE DEF nodes
      <3>2. QED
        BY <2>2, <3>1, PropertyFits
    <2>11. TellsSwap(ev, rest, old, new)
      BY <2>2, <2>5, <2>10, TellsValue
    <2>12. Swap(e, n, rest, old, new)
      BY <2>1, <2>2, <2>10 DEF Swap
    <2>13. Swapped(y, rest, new, ev, g)
      BY <2>2, <2>5, <2>8, Swapping DEF Noted
    <2>14. Restacked(e.c, g.c, rest, old, new) /\ g.c.partial = e.c.partial
      BY <2>2, <2>8, <2>13 DEF Swapped, Restacked
    <2>15. Undoes(r, g.c, e.c)
      BY <2>5, <2>10, <2>14, TakingPropertyBack
    <2>16. Sound(g, n + 1)
      BY <2>8, <2>11, <2>12, <2>13, <2>15, SwapSound
    <2>17. Sound(f, n + 1) /\ Restyled(g, f, Mode("ExpectObjectCommaOrEnd"), g.c.utf8)
      BY <2>9, <2>16, Going
    <2>18. /\ f.c.frames = Append(rest, new) /\ f.c.root = NoRoot /\ f.c.utf8 = NoUtf8
           /\ f.c.mode = Mode("ExpectObjectCommaOrEnd") /\ f.c.byte_offset = e.c.byte_offset
           /\ f.again = e.again
      BY <2>1, <2>8, <2>13, <2>17 DEF Restyled, SameData, Swapped, Noted, Expecting
    <2>19. Top(f.c) = new /\ f.c.frames # <<>>
      BY <2>2, <2>18, TopIs
    <2>20. f.c.mode[1] = "ExpectObjectCommaOrEnd"
      BY <2>18 DEF Mode
    <2>21. CoreFits(f.c)
      BY <2>10, <2>18, <2>19, <2>20 DEF CoreFits, ModeFits, Utf8Fits, KeyDue, StringModes, Inside, NoRoot
    <2>22. QED
      BY <2>17, <2>18, <2>20, <2>21 DEF Published, AfterValue
  <1>3. QED
    BY <1>1, <1>2

LEMMA PublishingRoot ==
  ASSUME NEW e, NEW n \in Nat, Sound(e, n), e.error = "none", Expecting(e.c),
         ~Inside(e.c, "object"), NEW v \in 1..Len(e.c.arena.nodes), NEW f, f = PublishRoot(e, v)
  PROVE  Published(e, f, n)
  <1> DEFINE ev == [type |-> "RootComplete", value |-> v]
             mode == Mode("CompleteRoot")
             g == [e EXCEPT !.c.root = v]
             h == Goto(g, mode)
             told == log \o e.events
  <1>1. EffectShape(e) /\ CursorShape(e.c) /\ Carried(e)
    BY Shaped DEF Sound
  <1>2. f = Emit(h, ev)
    BY DEF PublishRoot, Expecting
  <1>3. ev.type = "RootComplete" /\ mode[1] = "CompleteRoot"
    BY DEF Mode
  <1>4. g = [e EXCEPT !.c.root = v] /\ h = Goto(g, mode)
    OBVIOUS
  <1> HIDE DEF ev, mode, g, h
  <1>5. /\ EffectShape(g) /\ g.room = e.room /\ g.undo = e.undo /\ g.events = e.events
        /\ g.error = "none" /\ g.again = e.again /\ g.c = [e.c EXCEPT !.root = v]
    BY <1>1, <1>4 DEF EffectShape
  <1>6. /\ EffectShape(h) /\ h.room = e.room /\ h.undo = e.undo /\ h.events = e.events
        /\ h.error = "none" /\ h.again = e.again /\ h.c = [g.c EXCEPT !.mode = mode]
    BY <1>4, <1>5 DEF EffectShape, Goto
  <1>7. /\ EffectShape(f) /\ f.room = e.room /\ f.undo = e.undo /\ f.events = Append(e.events, ev)
        /\ f.error = "none" /\ f.again = e.again /\ f.c = h.c
    BY <1>2, <1>6 DEF EffectShape, Emit
  <1>8. /\ CursorShape(f.c) /\ f.c.mode = mode /\ f.c.frames = e.c.frames /\ f.c.pool = e.c.pool
        /\ f.c.root = v /\ f.c.arena = e.c.arena /\ f.c.partial = e.c.partial
        /\ f.c.utf8 = NoUtf8 /\ f.c.byte_offset = e.c.byte_offset
    <2>1. CursorShape(g.c) /\ g.c.frames = e.c.frames /\ g.c.pool = e.c.pool
          /\ g.c.root = v /\ g.c.arena = e.c.arena /\ g.c.partial = e.c.partial
          /\ g.c.utf8 = e.c.utf8 /\ g.c.byte_offset = e.c.byte_offset
      BY <1>1, <1>5 DEF CursorShape
    <2>2. e.c.utf8 = NoUtf8
      BY DEF Expecting
    <2>3. QED
      BY <1>6, <1>7, <2>1, <2>2 DEF CursorShape
  <1>9. v # NoRoot /\ v \in 0..Len(f.c.arena.nodes)
    <2>1. v \in 0..Len(e.c.arena.nodes) /\ v # NoRoot
      BY DEF NoRoot
    <2>2. QED
      BY <1>8, <2>1
  <1>10. Fit(f.c)
    BY <1>1, <1>8, <1>9 DEF Carried, Fit
  <1>11. IsSeq(told) /\ IsSeq(f.events) /\ log \o f.events = Append(told, ev)
    BY <1>1, <1>7, OneMore
  <1>12. Tells(Append(told, ev), f.c)
    <2>1. Tells(told, e.c)
      BY <1>1 DEF Carried
    <2> HIDE DEF told
    <2>2. Replayed(Shapes(e.c.frames), ev) = Shapes(f.c.frames)
      BY <1>3, <1>8, ReplaysNothing
    <2>3. ev.type \notin {"ArrayStart", "ObjectStart"}
      BY <1>3
    <2>4. QED
      BY <1>8, <2>1, <2>2, <2>3, TellsPlain
  <1>13. RootTold(Append(told, ev), f.c)
    <2> HIDE DEF told
    <2>1. Append(told, ev) # <<>> /\ Last(Append(told, ev)) = ev
      BY <1>11, IsSeqAppend
    <2>2. QED
      BY <1>3, <1>8, <1>9, <2>1 DEF RootTold
  <1> HIDE DEF told
  <1>14. Carried(f)
    BY <1>1, <1>7, <1>8, <1>10, <1>11, <1>12, <1>13 DEF Carried
  <1>15. Sound(f, n)
    BY <1>7, <1>8, <1>14, Unrecorded
  <1>16. ~Inside(f.c, "object")
    BY <1>8 DEF Inside, Top
  <1>17. CoreFits(f.c)
    BY <1>3, <1>8, <1>16 DEF CoreFits, ModeFits, Utf8Fits, KeyDue, StringModes, mode
  <1>18. QED
    BY <1>3, <1>7, <1>8, <1>15, <1>17 DEF Published, AfterValue

LEMMA Publishing ==
  ASSUME NEW e, NEW n \in Nat, Sound(e, n), n < Room, e.error = "none", Expecting(e.c),
         NEW v \in 1..Len(e.c.arena.nodes), NEW f, f = publish_value(e, v)
  PROVE  Published(e, f, n + 1)
  <1>1. CASE Inside(e.c, "array")
    <2>1. ~Inside(e.c, "object")
      BY <1>1 DEF Inside
    <2>2. f = PublishItem(e, v)
      BY <1>1, <2>1 DEF publish_value
    <2>3. QED
      BY <1>1, <2>2, PublishingItem
  <1>2. CASE Inside(e.c, "object")
    <2>1. ~Inside(e.c, "array")
      BY <1>2 DEF Inside
    <2>2. f = PublishProperty(e, v)
      BY <1>2, <2>1 DEF publish_value
    <2>3. QED
      BY <1>2, <2>2, PublishingProperty
  <1>3. CASE ~Inside(e.c, "array") /\ ~Inside(e.c, "object")
    <2>1. f = PublishRoot(e, v)
      BY <1>3 DEF publish_value
    <2>2. Published(e, f, n)
      BY <1>3, <2>1, PublishingRoot
    <2>3. Sound(f, n + 1)
      BY <2>2, SoundMore DEF Published
    <2>4. QED
      BY <2>2, <2>3 DEF Published
  <1>4. QED
    BY <1>1, <1>2, <1>3

\* A scalar that has been added to the arena.
LEMMA SealingScalar ==
  ASSUME NEW e, NEW n \in Nat, Sound(e, n), n < Room, e.error = "none", Expecting(e.c),
         NEW v \in 1..Len(e.c.arena.nodes), NEW f, f = ScalarSealed(e, v)
  PROVE  Published(e, f, n + 1)
  <1> DEFINE ev == [type |-> "ScalarSealed", value |-> v]
             g == Emit(e, ev)
  <1>1. g = Emit(e, ev) /\ f = publish_value(g, v) /\ ev.type = "ScalarSealed"
    BY DEF ScalarSealed
  <1> HIDE DEF g, ev
  <1>2. e.c.root = NoRoot
    BY DEF Expecting
  <1>3. Sound(g, n) /\ g.c = e.c /\ g.again = e.again /\ g.error = e.error
    BY <1>1, <1>2, Sealing
  <1>4. Expecting(g.c) /\ v \in 1..Len(g.c.arena.nodes) /\ g.error = "none"
    BY <1>3
  <1>5. Published(g, f, n + 1)
    BY <1>1, <1>3, <1>4, Publishing
  <1>6. QED
    BY <1>3, <1>5 DEF Published

-------------------------------------------------------------------------------
(* Opening and closing a frame.                                            *)

\* What a handler leaves when it is done, and when it has failed.
Handled(e, f, n) ==
  /\ Sound(f, n) /\ f.c.byte_offset = e.c.byte_offset
  /\ f.again = e.again \/ f.c.mode[1] \in AfterValue
  /\ f.error = "none" => CoreFits(f.c)

LEMMA PublishedHandled ==
  ASSUME NEW e, NEW f, NEW n, Published(e, f, n)
  PROVE  Handled(e, f, n)
  BY DEF Published, Handled

LEMMA HandledAnyway ==
  ASSUME NEW e, NEW n \in Nat, Sound(e, n), NEW m \in Nat, n <= m, NEW why,
         why \notin {"PushRefused", "DuplicateObjectKey", "none"}, NEW f, f = Fail(e, why)
  PROVE  Handled(e, f, m)
  BY PublishedAnyway, PublishedHandled

\* A record is pushed when there is room, whatever has been changed before.
Pushed(e, g, r, f) ==
  /\ EffectShape(f) /\ f.c = g.c /\ f.room = g.room /\ f.undo = Append(e.undo, r)
  /\ f.events = g.events /\ f.error = g.error /\ f.again = g.again

LEMMA PushAnyway ==
  ASSUME NEW e, NEW n \in Nat, Sound(e, n), n < Room, NEW g, EffectShape(g), g.undo = e.undo,
         g.room = e.room, NEW r, NEW f, f = Push(g, r)
  PROVE  Pushed(e, g, r, f)
  <1>1. /\ e.room = Room /\ Room \in Int /\ IsSeq(e.undo) /\ Len(e.undo) <= n
    BY DEF Sound, Carried
  <1>2. Len(e.undo) \in Nat
    BY <1>1, IsSeqLen
  <1>3. ~(Len(g.undo) >= g.room)
    BY <1>1, <1>2
  <1>4. f = [g EXCEPT !.undo = Append(@, r)]
    BY <1>3 DEF Push
  <1>5. QED
    BY <1>1, <1>4 DEF EffectShape, Pushed

\* The stack changed, a record pushed and an event told.
Stacking(e, f, r, ev) ==
  /\ EffectShape(f) /\ f.room = e.room /\ f.undo = Append(e.undo, r)
  /\ f.events = Append(e.events, ev) /\ f.error = e.error /\ f.again = e.again
  /\ CursorShape(f.c) /\ f.c.root = e.c.root /\ f.c.arena = e.c.arena
  /\ f.c.partial = e.c.partial /\ f.c.utf8 = e.c.utf8 /\ f.c.byte_offset = e.c.byte_offset

LEMMA Stacked ==
  ASSUME NEW e, NEW n \in Nat, Sound(e, n), e.c.root = NoRoot,
         NEW f, NEW r, NEW ev, Stacking(e, f, r, ev),
         StackFits(f.c.frames, f.c.pool, Len(e.c.arena.nodes)), Undoes(r, f.c, e.c),
         Tells(Append(log \o e.events, ev), f.c), ev.type # "RootComplete"
  PROVE  Sound(f, n + 1)
  <1>1. Sound(e, n) /\ Carried(e) /\ e.error \notin {"PushRefused", "DuplicateObjectKey"}
    BY DEF Sound
  <1>2. /\ EffectShape(f) /\ f.room = e.room /\ f.undo = Append(e.undo, r)
        /\ f.events = Append(e.events, ev) /\ f.error = e.error
        /\ CursorShape(f.c) /\ f.c.root = NoRoot /\ f.c.arena = e.c.arena
        /\ f.c.partial = e.c.partial
    BY DEF Stacking
  <1>3. Fit(f.c)
    BY <1>1, <1>2 DEF Carried, Fit
  <1> DEFINE told == log \o e.events
  <1>4. IsSeq(told) /\ IsSeq(f.events) /\ log \o f.events = Append(told, ev)
    BY <1>1, <1>2, OneMore
  <1> HIDE DEF told
  <1>5. RootTold(Append(told, ev), f.c)
    BY <1>2, <1>4, RootUntold
  <1>6. IsSeq(f.undo)
    BY <1>1, <1>2, IsSeqAppend DEF Carried
  <1>7. Tells(Append(told, ev), f.c)
    BY DEF told
  <1>8. Carried(f)
    BY <1>1, <1>2, <1>3, <1>4, <1>5, <1>6, <1>7 DEF Carried
  <1>9. QED
    BY <1>1, <1>2, <1>8, Recorded

LEMMA TakingOpenedBack ==
  ASSUME NEW c, NEW d, IsSeq(c.frames), NEW frame, d.frames = Append(c.frames, frame),
         WellFormed(c.pool), d.pool = Allocate(c.pool), d.partial = c.partial
  PROVE  Undoes(PopOpenedFrame(AllocateUndo(c.pool)), d, c)
  <1> DEFINE u == AllocateUndo(c.pool)
             r == PopOpenedFrame(u)
  <1>1. r.op = "PopOpenedFrame" /\ r.slot = u
    BY DEF PopOpenedFrame
  <1>2. CanUndo(d.pool, u) /\ Undo(d.pool, u) = c.pool
    BY UndoAllocate
  <1> HIDE DEF u, r
  <1> SUFFICES ASSUME NEW x
               PROVE  Undoable(Join(d, x), r) /\ Undone(Join(d, x), r) = Join(c, x)
    BY DEF Undoes, r, u
  <1> DEFINE j == Join(d, x)
             k == Join(c, x)
             w == [j EXCEPT !.frames = Front(@), !.pool = Undo(@, u)]
  <1>3. /\ CursorShape(j) /\ j.mode = x.mode /\ j.frames = Append(c.frames, frame)
        /\ j.pool = d.pool /\ j.root = x.root /\ j.arena = x.arena /\ j.partial = c.partial
        /\ j.utf8 = x.utf8 /\ j.terminated = x.terminated /\ j.byte_offset = x.byte_offset
    BY DEF Join, CursorShape
  <1>4. /\ CursorShape(k) /\ k.mode = x.mode /\ k.frames = c.frames /\ k.pool = c.pool
        /\ k.root = x.root /\ k.arena = x.arena /\ k.partial = c.partial /\ k.utf8 = x.utf8
        /\ k.terminated = x.terminated /\ k.byte_offset = x.byte_offset
    BY DEF Join, CursorShape
  <1>5. w = [j EXCEPT !.frames = Front(@), !.pool = Undo(@, u)]
    OBVIOUS
  <1> HIDE DEF j, k, w
  <1>6. j.frames # <<>> /\ Front(j.frames) = c.frames
    BY <1>3, TopIs
  <1>7. Undoable(j, r)
    BY <1>1, <1>2, <1>3, <1>6 DEF Undoable
  <1>8. Undone(j, r) = w
    BY <1>1, <1>5 DEF Undone
  <1>9. /\ CursorShape(w) /\ w.mode = x.mode /\ w.frames = c.frames /\ w.pool = c.pool
        /\ w.root = x.root /\ w.arena = x.arena /\ w.partial = c.partial /\ w.utf8 = x.utf8
        /\ w.terminated = x.terminated /\ w.byte_offset = x.byte_offset
    BY <1>2, <1>3, <1>5, <1>6 DEF CursorShape
  <1>10. w = k
    BY <1>4, <1>9 DEF CursorShape
  <1>11. QED
    BY <1>7, <1>8, <1>10 DEF j, k

LEMMA TakingClosedBack ==
  ASSUME NEW c, NEW d, NEW rest, IsSeq(rest), NEW top, c.frames = Append(rest, top),
         d.frames = rest, WellFormed(c.pool), top.id \in Handles, IsLive(c.pool, top.id),
         d.pool = Release(c.pool, top.id), d.partial = c.partial
  PROVE  Undoes(RestoreClosedFrame(top, ReleaseUndo(top.id)), d, c)
  <1> DEFINE u == ReleaseUndo(top.id)
             r == RestoreClosedFrame(top, u)
  <1>1. r.op = "RestoreClosedFrame" /\ r.slot = u /\ r.frame = top
    BY DEF RestoreClosedFrame
  <1>2. CanUndo(d.pool, u) /\ Undo(d.pool, u) = c.pool
    <2>1. top.id \in [slot : Nat \ {0}, generation : Nat]
      BY DEF Handles
    <2>2. QED
      BY <2>1, UndoRelease
  <1> HIDE DEF u, r
  <1> SUFFICES ASSUME NEW x
               PROVE  Undoable(Join(d, x), r) /\ Undone(Join(d, x), r) = Join(c, x)
    BY DEF Undoes, r, u
  <1> DEFINE j == Join(d, x)
             k == Join(c, x)
             w == [j EXCEPT !.frames = Append(@, top), !.pool = Undo(@, u)]
  <1>3. /\ CursorShape(j) /\ j.mode = x.mode /\ j.frames = rest
        /\ j.pool = d.pool /\ j.root = x.root /\ j.arena = x.arena /\ j.partial = c.partial
        /\ j.utf8 = x.utf8 /\ j.terminated = x.terminated /\ j.byte_offset = x.byte_offset
    BY DEF Join, CursorShape
  <1>4. /\ CursorShape(k) /\ k.mode = x.mode /\ k.frames = Append(rest, top) /\ k.pool = c.pool
        /\ k.root = x.root /\ k.arena = x.arena /\ k.partial = c.partial /\ k.utf8 = x.utf8
        /\ k.terminated = x.terminated /\ k.byte_offset = x.byte_offset
    BY DEF Join, CursorShape
  <1>5. w = [j EXCEPT !.frames = Append(@, top), !.pool = Undo(@, u)]
    OBVIOUS
  <1> HIDE DEF j, k, w
  <1>6. Undoable(j, r)
    BY <1>1, <1>2, <1>3 DEF Undoable
  <1>7. Undone(j, r) = w
    BY <1>1, <1>5 DEF Undone
  <1>8. /\ CursorShape(w) /\ w.mode = x.mode /\ w.frames = Append(rest, top) /\ w.pool = c.pool
        /\ w.root = x.root /\ w.arena = x.arena /\ w.partial = c.partial /\ w.utf8 = x.utf8
        /\ w.terminated = x.terminated /\ w.byte_offset = x.byte_offset
    BY <1>2, <1>3, <1>5 DEF CursorShape
  <1>9. w = k
    BY <1>4, <1>8 DEF CursorShape
  <1>10. QED
    BY <1>6, <1>7, <1>9 DEF j, k

OpenedFrame(kind, id) == IF kind = "array" THEN ArrayFrame(id) ELSE ObjectFrame(id)
StartOf(kind, id) == [type |-> IF kind = "array" THEN "ArrayStart" ELSE "ObjectStart", frame |-> id]

OpensWith(kind, id, nodes, frame) ==
  /\ FrameFits(frame, nodes) /\ frame.kind = kind /\ frame.id = id
  /\ kind = "object" => frame.current_key = {}
  /\ \A stack : Replayed(stack, StartOf(kind, id)) = Append(stack, Shape(frame))

LEMMA OpenedFits ==
  ASSUME NEW kind \in {"array", "object"}, NEW id \in Handles, NEW nodes,
         NEW frame, frame = OpenedFrame(kind, id)
  PROVE  OpensWith(kind, id, nodes, frame)
  <1>1. IsSeq(<<>>) /\ Len(<<>>) = 0 /\ DOMAIN <<>> = {}
    BY IsSeqEmpty
  <1>2. CASE kind = "array"
    <2>1. frame = [kind |-> "array", id |-> id, values |-> <<>>]
      BY <1>2 DEF OpenedFrame, ArrayFrame
    <2>2. frame.kind = "array" /\ frame.id = id /\ frame.values = <<>>
      BY <2>1
    <2>3. ArrayFits(frame, nodes)
      BY <1>1, <2>1, <2>2 DEF ArrayFits
    <2>4. \A stack : Replayed(stack, StartOf(kind, id)) = Append(stack, Shape(frame))
      BY <1>2, ReplaysArrayStart DEF StartOf, OpenedFrame
    <2>5. QED
      BY <1>1, <1>2, <2>2, <2>3, <2>4 DEF FrameFits, OpensWith
  <1>3. CASE kind = "object"
    <2>1. frame = [kind |-> "object", id |-> id, current_key |-> {}, values |-> <<>>, seen_keys |-> {}]
      BY <1>3 DEF OpenedFrame, ObjectFrame
    <2>2. /\ frame.kind = "object" /\ frame.id = id /\ frame.values = <<>>
          /\ frame.current_key = {} /\ frame.seen_keys = {}
      BY <2>1
    <2>3. ObjectFits(frame)
      BY <1>1, <2>1, <2>2 DEF ObjectFits
    <2>4. \A stack : Replayed(stack, StartOf(kind, id)) = Append(stack, Shape(frame))
      BY <1>3, ReplaysObjectStart DEF StartOf, OpenedFrame
    <2>5. QED
      BY <1>1, <1>3, <2>2, <2>3, <2>4 DEF FrameFits, OpensWith
  <1>4. QED
    BY <1>2, <1>3

LEMMA Opening ==
  ASSUME NEW e, NEW n \in Nat, Sound(e, n), n < Room, e.error = "none", Expecting(e.c),
         NEW kind \in {"array", "object"}, NEW f, f = Opened(e, kind)
  PROVE  Handled(e, f, n + 1)
  <1> DEFINE p == e.c.pool
             q == Allocate(p)
             id == Allocated(p)
             frame == OpenedFrame(kind, id)
             r == PopOpenedFrame(AllocateUndo(p))
             ev == StartOf(kind, id)
             mode == Mode(IF kind = "array" THEN "ExpectArrayValueOrEnd" ELSE "ExpectObjectKeyOrEnd")
             frames == e.c.frames
             g == [e EXCEPT !.c.pool = Allocate(@), !.c.frames = Append(@, frame)]
             h == Push(g, r)
             k == Emit(h, ev)
  <1>1. EffectShape(e) /\ CursorShape(e.c) /\ Carried(e)
    BY Shaped DEF Sound
  <1>2. CASE GenerationExhausted(e.c.pool, MaxGeneration)
    <2>1. f = Fail(e, "Scope")
      BY <1>2 DEF Opened
    <2>2. QED
      BY <2>1, HandledAnyway
  <1>3. CASE ~GenerationExhausted(e.c.pool, MaxGeneration)
    <2>1. f = Then(h, LAMBDA x : Goto(Emit(x, ev), mode))
      BY <1>3 DEF Opened, OpenedFrame, StartOf
    <2>2. /\ g = [e EXCEPT !.c.pool = q, !.c.frames = Append(@, frame)]
          /\ h = Push(g, r) /\ k = Emit(h, ev)
      OBVIOUS
    <2>3. Then(h, LAMBDA x : Goto(Emit(x, ev), mode))
            = IF h.error = "none" THEN Goto(k, mode) ELSE h
      BY DEF Then, Ok
    <2>4. StackFits(frames, p, Len(e.c.arena.nodes)) /\ WellFormed(p) /\ IsSeq(frames)
      BY <1>1 DEF Carried, Fit, StackFits
    <2>5. /\ id \in Handles /\ ~HandedOut(p, id) /\ HandedOut(q, id)
          /\ \A a \in Handles : HandedOut(p, a) => HandedOut(q, a)
      BY <2>4, AllocateHandsOutNew
    <2>6. q = Allocate(p) /\ id = Allocated(p)
      OBVIOUS
    <2>7. mode[1] = IF kind = "array" THEN "ExpectArrayValueOrEnd" ELSE "ExpectObjectKeyOrEnd"
      BY DEF Mode
    <2>8. ev.type \in {"ArrayStart", "ObjectStart"} /\ ev.frame = id
      BY DEF StartOf
    <2>9. frame = OpenedFrame(kind, id) /\ ev = StartOf(kind, id) /\ r = PopOpenedFrame(AllocateUndo(p))
      OBVIOUS
    <2> HIDE DEF id, q, frame, ev, mode, r
    <2> HIDE DEF g, h, k
    <2>10. g.c = [e.c EXCEPT !.pool = q, !.frames = Append(frames, frame)]
      BY <1>1, <2>2 DEF EffectShape
    <2>11. /\ EffectShape(g) /\ g.room = e.room /\ g.undo = e.undo /\ g.events = e.events
           /\ g.error = "none" /\ g.again = e.again
      BY <1>1, <2>2 DEF EffectShape
    <2>12. /\ FrameFits(frame, Len(e.c.arena.nodes)) /\ frame.kind = kind /\ frame.id = id
           /\ kind = "object" => frame.current_key = {}
           /\ \A stack : Replayed(stack, ev) = Append(stack, Shape(frame))
      <3>1. OpensWith(kind, id, Len(e.c.arena.nodes), frame)
        BY <2>5, <2>9, OpenedFits
      <3>2. QED
        BY <2>9, <3>1 DEF OpensWith
    <2>13. /\ CursorShape(g.c) /\ g.c.root = e.c.root /\ g.c.arena = e.c.arena
           /\ g.c.partial = e.c.partial /\ g.c.utf8 = e.c.utf8 /\ g.c.byte_offset = e.c.byte_offset
           /\ g.c.pool = q /\ g.c.frames = Append(frames, frame)
      BY <1>1, <2>10 DEF CursorShape
    <2>14. /\ EffectShape(h) /\ h.c = g.c /\ h.room = e.room /\ h.undo = Append(e.undo, r)
           /\ h.events = e.events /\ h.error = "none" /\ h.again = e.again
      <3>1. Pushed(e, g, r, h)
        BY <2>2, <2>11, PushAnyway
      <3>2. QED
        BY <2>11, <3>1 DEF Pushed
    <2>15. /\ EffectShape(k) /\ k.c = g.c /\ k.room = e.room /\ k.undo = Append(e.undo, r)
           /\ k.events = Append(e.events, ev) /\ k.error = "none" /\ k.again = e.again
      BY <2>2, <2>14 DEF Emit, EffectShape
    <2>16. Stacking(e, k, r, ev)
      BY <2>13, <2>15 DEF Stacking
    <2>17. frames # <<>> /\ Last(frames).kind = "object" => Last(frames).current_key # {}
      BY DEF Expecting, Inside, Top
    <2>18. StackFits(k.c.frames, k.c.pool, Len(e.c.arena.nodes))
      <3>1. StackFits(Append(frames, frame), q, Len(e.c.arena.nodes))
        <4> HIDE DEF p, frames
        <4>1. QED
          BY <2>4, <2>6, <2>12, <2>17, StackPush
      <3>2. QED
        BY <2>13, <2>15, <3>1
    <2>19. Undoes(r, k.c, e.c)
      BY <2>4, <2>6, <2>9, <2>13, <2>15, TakingOpenedBack
    <2>20. Tells(Append(log \o e.events, ev), k.c)
      <3>1. Tells(log \o e.events, e.c)
        BY <1>1 DEF Carried
      <3>2. Replayed(Shapes(e.c.frames), ev) = Shapes(k.c.frames)
        <4>1. k.c.frames = Append(frames, frame)
          BY <2>13, <2>15
        <4>2. Shapes(Append(frames, frame)) = Append(Shapes(frames), Shape(frame))
          BY <2>4, ShapesAppend
        <4>3. Replayed(Shapes(frames), ev) = Append(Shapes(frames), Shape(frame))
          BY <2>12
        <4>4. QED
          BY <4>1, <4>2, <4>3
      <3>3. \A a \in Handles : HandedOut(e.c.pool, a) => HandedOut(k.c.pool, a)
        BY <2>5, <2>13, <2>15
      <3>4. ev.frame \in Handles /\ ~HandedOut(e.c.pool, ev.frame) /\ HandedOut(k.c.pool, ev.frame)
        BY <2>5, <2>8, <2>13, <2>15
      <3> HIDE DEF p, frames
      <3>5. QED
        BY <3>1, <3>2, <3>3, <3>4, TellsStart
    <2>21. e.c.root = NoRoot /\ e.c.utf8 = NoUtf8
      BY DEF Expecting
    <2>22. Sound(k, n + 1)
      BY <2>8, <2>16, <2>18, <2>19, <2>20, <2>21, Stacked
    <2>23. f = Goto(k, mode)
      BY <2>1, <2>3, <2>14
    <2>24. Sound(f, n + 1) /\ Restyled(k, f, mode, k.c.utf8)
      BY <2>22, <2>23, Going
    <2>25. /\ f.c.frames = Append(frames, frame) /\ f.c.root = NoRoot /\ f.c.utf8 = NoUtf8
           /\ f.c.mode = mode /\ f.c.byte_offset = e.c.byte_offset /\ f.again = e.again
      BY <2>13, <2>15, <2>21, <2>24 DEF Restyled, SameData
    <2>26. Top(f.c) = frame /\ f.c.frames # <<>>
      BY <2>4, <2>25, TopIs
    <2>27. CoreFits(f.c)
      BY <2>7, <2>12, <2>25, <2>26 DEF CoreFits, ModeFits, Utf8Fits, KeyDue, StringModes, Inside, NoRoot
    <2>28. QED
      BY <2>24, <2>25, <2>27 DEF Handled
  <1>4. QED
    BY <1>2, <1>3

LEMMA OpeningArray ==
  ASSUME NEW e, NEW n \in Nat, Sound(e, n), n + 2 <= Room, e.error = "none", Expecting(e.c),
         NEW f, f = open_array(e)
  PROVE  Handled(e, f, n + 2)
  <1>1. CASE DepthExceeded(e.c)
    <2>1. f = Fail(e, "DepthLimit")
      BY <1>1 DEF open_array
    <2>2. QED
      BY <2>1, HandledAnyway
  <1>2. CASE ~DepthExceeded(e.c)
    <2> DEFINE g == Push(e, TruncatePartial(e.c))
    <2>0. g = Push(e, TruncatePartial(e.c))
      OBVIOUS
    <2>1. f = Then(g, LAMBDA x : Opened(x, "array"))
      BY <1>2 DEF open_array
    <2> HIDE DEF g
    <2>2. n < Room /\ n + 1 < Room /\ n + 1 \in Nat /\ (n + 1) + 1 = n + 2
      BY DEF Sound, Carried
    <2>3. Sound(g, n + 1) /\ KeepsCore(e, g) /\ g.c = e.c /\ g.error = "none"
      BY <2>0, <2>2, Noting
    <2>4. f = Opened(g, "array") /\ Expecting(g.c)
      BY <2>1, <2>3 DEF Then, Ok
    <2>5. Handled(g, f, n + 2)
      BY <2>2, <2>3, <2>4, Opening
    <2>6. QED
      BY <2>3, <2>5 DEF Handled, KeepsCore
  <1>3. QED
    BY <1>1, <1>2

LEMMA OpeningObject ==
  ASSUME NEW e, NEW n \in Nat, Sound(e, n), n < Room, e.error = "none", Expecting(e.c),
         NEW f, f = open_object(e)
  PROVE  Handled(e, f, n + 1)
  <1>1. CASE DepthExceeded(e.c)
    <2>1. f = Fail(e, "DepthLimit")
      BY <1>1 DEF open_object
    <2>2. QED
      BY <2>1, HandledAnyway
  <1>2. CASE ~DepthExceeded(e.c)
    <2>1. f = Opened(e, "object")
      BY <1>2 DEF open_object
    <2>2. QED
      BY <2>1, Opening
  <1>3. QED
    BY <1>1, <1>2

\* The end of a frame: it is taken off the stack and its end is told.
EndSealed(kind, top, v) == [type |-> EndOf(kind), frame |-> top.id, value |-> v]

LEMMA Ending ==
  ASSUME NEW e, NEW n \in Nat, Sound(e, n), n < Room, e.error = "none", e.c.root = NoRoot,
         e.c.utf8 = NoUtf8, e.c.frames # <<>>, NEW top, top = Top(e.c),
         top.kind = "object" => top.current_key = {},
         NEW h, h = Popped(e, top), NEW f, f = EndEvent(h, top, EndOf(top.kind))
  PROVE  /\ Sound(f, n + 1) /\ Expecting(f.c) /\ h.error = "none" /\ f.error = "none"
         /\ f.c.byte_offset = e.c.byte_offset /\ f.again = e.again
         /\ Newest(h) = Newest(f) /\ f.c.arena = e.c.arena
  <1> DEFINE p == e.c.pool
             q == Release(p, top.id)
             rest == Front(e.c.frames)
             r == RestoreClosedFrame(top, ReleaseUndo(top.id))
             nodes == Len(e.c.arena.nodes)
             ev == EndSealed(top.kind, top, nodes)
             g == [e EXCEPT !.c.pool = Release(@, top.id), !.c.frames = Front(@)]
  <1>1. EffectShape(e) /\ CursorShape(e.c) /\ Carried(e)
    BY Shaped DEF Sound
  <1>2. IsSeq(rest) /\ e.c.frames = Append(rest, top) /\ FrameFits(top, nodes)
    BY <1>1, Topped
  <1>3. h = Push(g, r)
    BY DEF Popped
  <1>6. g = [e EXCEPT !.c.pool = q, !.c.frames = rest] /\ q = Release(p, top.id) /\ r = RestoreClosedFrame(top, ReleaseUndo(top.id))
    OBVIOUS
  <1>7. StackFits(e.c.frames, p, nodes) /\ WellFormed(p)
    BY <1>1 DEF Carried, Fit, StackFits
  <1>8. ev = EndSealed(top.kind, top, nodes)
    OBVIOUS
  <1> HIDE DEF g, q, r, rest, nodes, ev
  <1>4. /\ EffectShape(g) /\ g.room = e.room /\ g.undo = e.undo /\ g.events = e.events
        /\ g.error = "none" /\ g.again = e.again
    BY <1>1, <1>6 DEF EffectShape
  <1>5. g.c = [e.c EXCEPT !.pool = q, !.frames = rest]
    BY <1>1, <1>6 DEF EffectShape
  <1>9. /\ CursorShape(g.c) /\ g.c.root = e.c.root /\ g.c.arena = e.c.arena
        /\ g.c.partial = e.c.partial /\ g.c.utf8 = e.c.utf8 /\ g.c.byte_offset = e.c.byte_offset
        /\ g.c.pool = q /\ g.c.frames = rest
    BY <1>1, <1>5 DEF CursorShape
  <1>10. /\ EffectShape(h) /\ h.c = g.c /\ h.room = e.room /\ h.undo = Append(e.undo, r)
         /\ h.events = e.events /\ h.error = "none" /\ h.again = e.again
    <2>1. Pushed(e, g, r, h)
      BY <1>3, <1>4, PushAnyway
    <2>2. QED
      BY <1>4, <2>1 DEF Pushed
  <1>11. Newest(h) = nodes
    BY <1>9, <1>10 DEF Newest, nodes
  <1>12. f = Emit(h, ev)
    BY <1>8, <1>11 DEF EndEvent, EndSealed
  <1>13. /\ EffectShape(f) /\ f.c = g.c /\ f.room = e.room /\ f.undo = Append(e.undo, r)
         /\ f.events = Append(e.events, ev) /\ f.error = "none" /\ f.again = e.again
    BY <1>10, <1>12 DEF Emit, EffectShape
  <1>14. Stacking(e, f, r, ev)
    BY <1>9, <1>13 DEF Stacking
  <1>15. /\ top.id \in Handles /\ IsLive(p, top.id) /\ StackFits(rest, q, nodes)
         /\ rest # <<>> /\ Last(rest).kind = "object" => Last(rest).current_key # {}
    <2>1. StackFits(Append(rest, top), p, nodes)
      BY <1>2, <1>7
    <2> HIDE DEF p
    <2>2. QED
      BY <1>2, <1>6, <2>1, StackPop
  <1>16. StackFits(f.c.frames, f.c.pool, nodes)
    BY <1>9, <1>13, <1>15
  <1>17. Undoes(r, f.c, e.c)
    <2>1. /\ f.c.frames = rest /\ f.c.pool = Release(e.c.pool, top.id)
          /\ f.c.partial = e.c.partial
      BY <1>6, <1>9, <1>13
    <2>2. WellFormed(e.c.pool) /\ IsLive(e.c.pool, top.id) /\ top.id \in Handles
      BY <1>7, <1>15
    <2>3. IsSeq(rest) /\ e.c.frames = Append(rest, top)
      BY <1>2
    <2>4. Undoes(RestoreClosedFrame(top, ReleaseUndo(top.id)), f.c, e.c)
      BY <2>1, <2>2, <2>3, TakingClosedBack
    <2>5. QED
      BY <1>6, <2>4
  <1>18. ev.type = EndOf(top.kind) /\ ev.type \notin {"ArrayStart", "ObjectStart", "RootComplete"}
    BY <1>8 DEF EndSealed, EndOf
  <1>19. Tells(Append(log \o e.events, ev), f.c)
    <2>1. Tells(log \o e.events, e.c)
      BY <1>1 DEF Carried
    <2>2. Replayed(Shapes(e.c.frames), ev) = Shapes(f.c.frames)
      <3>1. IsSeq(Shapes(rest)) /\ Shapes(Append(rest, top)) = Append(Shapes(rest), Shape(top))
        BY <1>2, ShapesAppend
      <3>2. top.kind \in {"array", "object"}
        BY <1>2, FrameKinds
      <3>3. ev = [type |-> EndOf(top.kind), frame |-> top.id, value |-> nodes]
        BY <1>8 DEF EndSealed
      <3>4. Replayed(Append(Shapes(rest), Shape(top)), ev) = Shapes(rest)
        BY <3>1, <3>2, <3>3, ReplaysEnd, SMTT(20)
      <3>5. f.c.frames = rest
        BY <1>9, <1>13
      <3>6. Shapes(e.c.frames) = Append(Shapes(rest), Shape(top))
        BY <1>2, <3>1
      <3>7. QED
        BY <3>4, <3>5, <3>6
    <2>3. \A a \in Handles : HandedOut(e.c.pool, a) => HandedOut(f.c.pool, a)
      <3>1. \A a \in Handles : HandedOut(p, a) => HandedOut(q, a)
        BY <1>6, <1>7, <1>15, ReleaseEndsOne
      <3>2. QED
        BY <1>9, <1>13, <3>1
    <2>4. QED
      BY <1>18, <2>1, <2>2, <2>3, TellsPlain
  <1>20. Sound(f, n + 1)
    BY <1>14, <1>16, <1>17, <1>18, <1>19, Stacked DEF nodes
  <1>21. Expecting(f.c)
    BY <1>9, <1>13, <1>15 DEF Expecting, Inside, Top
  <1>22. QED
    BY <1>9, <1>10, <1>11, <1>13, <1>20, <1>21 DEF Newest, nodes

\* What close_array and close_object do with what the arena adds.
ClosedWith(e, added, kind) ==
  Then(AddNode(e, added), LAMBDA x :
  Then(Push(x, TruncatePartial(x.c)), LAMBDA y :
  IF ~IsLive(y.c.pool, Top(y.c).id) THEN Fail(y, "Scope")
  ELSE Closed(y, Top(y.c), EndOf(kind))))

LEMMA Closing ==
  ASSUME NEW e, NEW n \in Nat, Sound(e, n), n + 3 <= Room, e.error = "none", e.c.root = NoRoot,
         e.c.utf8 = NoUtf8, NEW kind, Inside(e.c, kind), kind = "object" => Top(e.c).current_key = {},
         NEW added, Adds(e.c.arena, added), NEW f, f = ClosedWith(e, added, kind)
  PROVE  Published(e, f, n + 3)
  <1>1. n < Room /\ n + 1 < Room /\ n + 2 < Room /\ n + 1 \in Nat /\ n + 2 \in Nat /\ n + 3 \in Nat
        /\ (n + 1) + 1 = n + 2 /\ (n + 2) + 1 = n + 3 /\ n <= n + 3 /\ n + 1 <= n + 3
    BY DEF Sound, Carried
  <1> DEFINE x == AddNode(e, added)
             y == Push(x, TruncatePartial(x.c))
             h == Popped(y, Top(y.c))
             g == EndEvent(h, Top(y.c), EndOf(Top(y.c).kind))
             v == Newest(h)
  <1>2. f = IF x.error # "none" THEN x ELSE
            IF y.error # "none" THEN y ELSE
            IF ~IsLive(y.c.pool, Top(y.c).id) THEN Fail(y, "Scope")
            ELSE Closed(y, Top(y.c), EndOf(kind))
    BY DEF ClosedWith, Then, Ok
  <1>3. x = AddNode(e, added) /\ y = Push(x, TruncatePartial(x.c)) /\ h = Popped(y, Top(y.c))
        /\ g = EndEvent(h, Top(y.c), EndOf(Top(y.c).kind)) /\ v = Newest(h)
    OBVIOUS
  <1>4. Closed(y, Top(y.c), EndOf(Top(y.c).kind)) = IF h.error = "none" THEN publish_value(g, v) ELSE h
    BY DEF Closed, Then, Ok
  <1> HIDE DEF x, y, h, g, v
  <1>5. Sound(x, n) /\ KeepsCore(e, x) /\ (x.error = "none" => Newest(x) \in 1..Len(x.c.arena.nodes))
    BY <1>3, Adding
  <1>6. x.c.byte_offset = e.c.byte_offset /\ x.again = e.again /\ x.c.frames = e.c.frames
        /\ x.c.root = NoRoot /\ x.c.utf8 = NoUtf8
    BY <1>5 DEF KeepsCore
  <1>7. CASE x.error # "none"
    <2>1. Sound(x, n + 3)
      BY <1>1, <1>5, SoundMore
    <2>2. QED
      BY <1>2, <1>6, <1>7, <2>1 DEF Published
  <1>8. CASE x.error = "none"
    <2>1. Sound(y, n + 1) /\ KeepsCore(x, y) /\ y.c = x.c /\ y.error = "none"
      BY <1>1, <1>3, <1>5, <1>8, Noting
    <2>2. y.again = e.again
      BY <1>6, <2>1 DEF KeepsCore
    <2>3. CASE ~IsLive(y.c.pool, Top(y.c).id)
      <3>1. f = Fail(y, "Scope")
        BY <1>2, <1>8, <2>1, <2>3
      <3>2. Published(y, f, n + 3)
        BY <1>1, <2>1, <3>1, PublishedAnyway
      <3>3. QED
        BY <1>6, <2>1, <2>2, <3>2 DEF Published
    <2>4. CASE IsLive(y.c.pool, Top(y.c).id)
      <3> DEFINE top == Top(y.c)
      <3>1. top = Top(y.c) /\ y.c.frames # <<>> /\ top.kind = kind
            /\ (top.kind = "object" => top.current_key = {})
        BY <1>6, <2>1 DEF Inside, Top
      <3>2. f = IF h.error = "none" THEN publish_value(g, v) ELSE h
        BY <1>2, <1>4, <1>8, <2>1, <2>4, <3>1
      <3>3. h = Popped(y, top) /\ g = EndEvent(h, top, EndOf(top.kind))
        BY <1>3
      <3>4. y.c.root = NoRoot /\ y.c.utf8 = NoUtf8
        BY <1>6, <2>1
      <3> HIDE DEF top
      <3>5. /\ Sound(g, n + 2) /\ Expecting(g.c) /\ h.error = "none" /\ g.error = "none"
            /\ g.c.byte_offset = y.c.byte_offset /\ g.again = y.again
            /\ Newest(h) = Newest(g) /\ g.c.arena = y.c.arena
        BY <1>1, <2>1, <3>1, <3>3, <3>4, Ending
      <3>6. v \in 1..Len(g.c.arena.nodes)
        BY <1>3, <1>5, <1>8, <2>1, <3>5 DEF Newest
      <3>7. Published(g, f, n + 3)
        BY <1>1, <3>2, <3>5, <3>6, Publishing
      <3>8. QED
        BY <1>6, <2>1, <2>2, <3>5, <3>7 DEF Published
    <2>5. QED
      BY <2>3, <2>4
  <1>9. QED
    BY <1>7, <1>8

LEMMA ClosingArray ==
  ASSUME NEW e, NEW n \in Nat, Sound(e, n), n + 3 <= Room, e.error = "none", e.c.root = NoRoot,
         e.c.utf8 = NoUtf8, NEW f, f = close_array(e)
  PROVE  Published(e, f, n + 3)
  <1>1. CASE ~Inside(e.c, "array")
    <2>1. f = Fail(e, "Syntax")
      BY <1>1 DEF close_array, Close
    <2>2. QED
      BY <2>1, PublishedAnyway
  <1>2. CASE Inside(e.c, "array")
    <2> DEFINE values == Top(e.c).values
               added == add_array(e.c.arena, values, input.limits)
    <2>1. f = ClosedWith(e, added, "array")
      BY <1>2 DEF close_array, Close, ClosedWith, EndOf
    <2>2. IsSeq(values) /\ Whole(e.c.arena)
      <3>1. Carried(e) /\ e.c.frames # <<>>
        BY <1>2 DEF Sound, Inside
      <3>2. FrameFits(Top(e.c), Len(e.c.arena.nodes))
        BY <3>1, Topped
      <3>3. QED
        BY <3>1, <3>2 DEF FrameFits, Carried, Fit
    <2> HIDE DEF values
    <2>3. Adds(e.c.arena, added)
      BY <2>2, AddArrayKeepsArena DEF Adds
    <2> HIDE DEF added
    <2>4. QED
      BY <1>2, <2>1, <2>3, Closing
  <1>3. QED
    BY <1>1, <1>2

LEMMA ClosingObject ==
  ASSUME NEW e, NEW n \in Nat, Sound(e, n), n + 3 <= Room, e.error = "none", e.c.root = NoRoot,
         e.c.utf8 = NoUtf8, Inside(e.c, "object") => Top(e.c).current_key = {},
         NEW f, f = close_object(e)
  PROVE  Published(e, f, n + 3)
  <1>1. CASE ~Inside(e.c, "object")
    <2>1. f = Fail(e, "Syntax")
      BY <1>1 DEF close_object, Close
    <2>2. QED
      BY <2>1, PublishedAnyway
  <1>2. CASE Inside(e.c, "object")
    <2> DEFINE values == Top(e.c).values
               added == add_object(e.c.arena, values, input.limits)
    <2>1. f = ClosedWith(e, added, "object")
      BY <1>2 DEF close_object, Close, ClosedWith, EndOf
    <2>2. /\ IsSeq(values) /\ Whole(e.c.arena)
          /\ \A i \in 1..Len(values) : IsSeq(values[i][1])
      <3>1. Carried(e) /\ e.c.frames # <<>> /\ Top(e.c).kind = "object"
        BY <1>2 DEF Sound, Inside
      <3>2. FrameFits(Top(e.c), Len(e.c.arena.nodes))
        BY <3>1, Topped
      <3>3. ObjectFits(Top(e.c))
        BY <3>1, <3>2, FrameKinds
      <3>4. QED
        BY <3>1, <3>2, <3>3 DEF FrameFits, Carried, Fit, ObjectFits
    <2> HIDE DEF values
    <2>3. Adds(e.c.arena, added)
      BY <2>2, AddObjectKeepsArena DEF Adds
    <2> HIDE DEF added
    <2>4. QED
      BY <1>2, <2>1, <2>3, Closing
  <1>3. QED
    BY <1>1, <1>2

-------------------------------------------------------------------------------
(* The end of a key.                                                       *)

LEMMA KeyFits ==
  ASSUME NEW old, NEW new, NEW key, IsSeq(key), KeyAdded(old, new, key),
         NEW nodes, FrameFits(old, nodes)
  PROVE  /\ FrameFits(new, nodes) /\ new.kind = "object" /\ new.id = old.id
         /\ new.current_key = {key}
  <1>1. /\ ObjectShape(old) /\ ObjectFits(old) /\ old.id \in Handles /\ IsSeq(old.values)
        /\ old.current_key = {}
    BY FrameKinds DEF KeyAdded
  <1>2. /\ ObjectShape(new) /\ new.kind = "object" /\ new.id = old.id
        /\ new.values = old.values /\ new.current_key = {key}
        /\ new.seen_keys = old.seen_keys \union {key}
    BY <1>1 DEF ObjectShape, KeyAdded
  <1>3. ObjectFits(new)
    BY <1>1, <1>2 DEF ObjectFits, ObjectShape
  <1>4. QED
    BY <1>1, <1>2, <1>3 DEF FrameFits

\* Taking the key out of partial, after its record.
LEMMA TakingKey ==
  ASSUME NEW e, NEW n \in Nat, Sound(e, n), n < Room, e.error = "none", NEW r,
         NEW x, x = Push(e, r), NEW y, y = [x EXCEPT !.c.partial = <<>>]
  PROVE  Noted(e, r, y) /\ y.c.partial = <<>> /\ y.error = "none" /\ x.error = "none"
  <1>1. Noted(e, r, x) /\ x.c = e.c /\ x.error = "none"
    BY Pushing
  <1>2. CursorShape(x.c) /\ EffectShape(x)
    BY <1>1 DEF Noted
  <1>3. /\ EffectShape(y) /\ y.room = x.room /\ y.undo = x.undo /\ y.events = x.events
        /\ y.error = x.error /\ y.again = x.again
    BY <1>2 DEF EffectShape
  <1>4. y.c = [x.c EXCEPT !.partial = <<>>]
    BY <1>2 DEF EffectShape
  <1>5. /\ CursorShape(y.c) /\ y.c.frames = x.c.frames /\ y.c.pool = x.c.pool
        /\ y.c.root = x.c.root /\ y.c.arena = x.c.arena /\ y.c.partial = <<>>
        /\ y.c.utf8 = x.c.utf8 /\ y.c.byte_offset = x.c.byte_offset
    BY <1>2, <1>4 DEF CursorShape
  <1>6. QED
    BY <1>1, <1>3, <1>5, IsSeqEmpty DEF Noted

LEMMA FinishingNewKey ==
  ASSUME NEW e, NEW n \in Nat, Sound(e, n), n < Room, e.error = "none", e.c.root = NoRoot,
         e.c.utf8 = NoUtf8, Inside(e.c, "object"), Top(e.c).current_key = {},
         e.c.partial \notin Top(e.c).seen_keys, NEW f, f = FinishKey(e)
  PROVE  Handled(e, f, n + 1)
  <1> DEFINE old == Top(e.c)
             key == e.c.partial
             rest == Front(e.c.frames)
             new == [old EXCEPT !.seen_keys = @ \union {key}, !.current_key = {key}]
             nodes == Len(e.c.arena.nodes)
             r == UndoObjectKey(old.id)
             ev == KeySealed(old, key)
             x == Push(e, r)
             y == [x EXCEPT !.c.partial = <<>>]
             g == Emit(SetTop(y, new), ev)
             mode == Mode("ExpectColon")
  <1>1. Carried(e) /\ e.c.frames # <<>> /\ old.kind = "object" /\ IsSeq(key)
    BY DEF Sound, Inside, Carried, Fit
  <1>2. IsSeq(rest) /\ e.c.frames = Append(rest, old) /\ FrameFits(old, nodes)
    BY <1>1, Topped
  <1>3. f = IF x.error = "none" THEN Goto(g, mode) ELSE x
    BY DEF FinishKey, Then, Ok, KeySealed
  <1>4. /\ x = Push(e, r) /\ y = [x EXCEPT !.c.partial = <<>>] /\ r = UndoObjectKey(old.id)
        /\ g = Emit(SetTop(y, new), ev) /\ ev = KeySealed(old, key) /\ key = e.c.partial
        /\ new = [old EXCEPT !.seen_keys = @ \union {key}, !.current_key = {key}]
    OBVIOUS
  <1>5. mode[1] = "ExpectColon"
    BY DEF Mode
  <1>6. old.current_key = {} /\ key \notin old.seen_keys
    OBVIOUS
  <1> HIDE DEF old, rest, new, r, ev, x, y, g, key, mode
  <1>7. Noted(e, r, y) /\ y.c.partial = <<>> /\ y.error = "none" /\ x.error = "none"
    BY <1>4, TakingKey
  <1>8. f = Goto(g, mode)
    BY <1>3, <1>7
  <1>9. KeyAdded(old, new, key)
    BY <1>1, <1>2, <1>4, <1>6, FrameKinds DEF KeyAdded
  <1>10. /\ FrameFits(new, nodes) /\ new.id = old.id /\ new.kind = "object"
         /\ new.current_key = {key}
    <2> HIDE DEF nodes
    <2>1. QED
      BY <1>1, <1>2, <1>9, KeyFits
  <1>11. TellsSwap(ev, rest, old, new)
    BY <1>2, <1>4, <1>9, TellsKey
  <1>12. Swap(e, n, rest, old, new)
    BY <1>1, <1>2, <1>10 DEF Swap
  <1>13. Swapped(y, rest, new, ev, g)
    BY <1>2, <1>4, <1>7, Swapping DEF Noted
  <1>14. Restacked(e.c, g.c, rest, old, new)
    BY <1>2, <1>7, <1>13 DEF Swapped, Restacked, Noted
  <1>15. Undoes(r, g.c, e.c)
    BY <1>4, <1>9, <1>14, TakingKeyBack
  <1>16. Sound(g, n + 1)
    BY <1>7, <1>11, <1>12, <1>13, <1>15, SwapSound
  <1>17. Sound(f, n + 1) /\ Restyled(g, f, mode, g.c.utf8)
    BY <1>8, <1>16, Going
  <1>18. /\ f.c.frames = Append(rest, new) /\ f.c.root = NoRoot /\ f.c.utf8 = NoUtf8
         /\ f.c.mode = mode /\ f.c.byte_offset = e.c.byte_offset
         /\ f.again = e.again
    BY <1>1, <1>7, <1>13, <1>17 DEF Restyled, SameData, Swapped, Noted
  <1>19. Top(f.c) = new /\ f.c.frames # <<>>
    BY <1>2, <1>18, TopIs
  <1>20. CoreFits(f.c)
    BY <1>5, <1>10, <1>18, <1>19 DEF CoreFits, ModeFits, Utf8Fits, KeyDue, StringModes, Inside, NoRoot
  <1>21. QED
    BY <1>17, <1>18, <1>20 DEF Handled

LEMMA FinishingOldKey ==
  ASSUME NEW e, NEW n \in Nat, Sound(e, n), n < Room, e.error = "none", e.c.root = NoRoot,
         Inside(e.c, "object"), Top(e.c).current_key = {},
         e.c.partial \in Top(e.c).seen_keys, NEW f, f = FinishKey(e)
  PROVE  Stranded(f)
  <1> DEFINE old == Top(e.c)
             r == UndoObjectKey(old.id)
             x == Push(e, r)
             y == [x EXCEPT !.c.partial = <<>>]
  <1>1. Carried(e) /\ e.c.frames # <<>> /\ IsSeq(e.undo)
    BY DEF Sound, Inside, Carried
  <1>2. f = IF x.error = "none" THEN Fail(y, "DuplicateObjectKey") ELSE x
    BY DEF FinishKey, Then, Ok
  <1>3. /\ x = Push(e, r) /\ y = [x EXCEPT !.c.partial = <<>>] /\ r.op = "UndoObjectKey"
    BY DEF UndoObjectKey
  <1>4. old = Top(e.c) /\ old.current_key = {}
    OBVIOUS
  <1> HIDE DEF old, r, x, y
  <1>5. Noted(e, r, y) /\ y.c.partial = <<>> /\ y.error = "none" /\ x.error = "none"
    BY <1>3, TakingKey
  <1>6. f = Fail(y, "DuplicateObjectKey")
    BY <1>2, <1>5
  <1>7. /\ EffectShape(f) /\ f.c = y.c /\ f.room = y.room /\ f.undo = y.undo
        /\ f.events = y.events /\ f.error = "DuplicateObjectKey"
    BY <1>5, <1>6 DEF Noted, EffectShape, Fail
  <1>8. /\ EffectShape(f) /\ f.room = e.room /\ f.undo = Append(e.undo, r) /\ f.events = e.events
        /\ CursorShape(f.c) /\ f.c.frames = e.c.frames /\ f.c.pool = e.c.pool /\ f.c.root = e.c.root
        /\ f.c.arena = e.c.arena /\ IsSeq(f.c.partial)
    BY <1>5, <1>7 DEF Noted
  <1>9. Fit(f.c)
    BY <1>1, <1>8 DEF Carried, Fit
  <1>10. Tells(log \o f.events, f.c) /\ RootTold(log \o f.events, f.c)
    <2> DEFINE told == log \o e.events
    <2>1. Tells(told, e.c) /\ RootTold(told, e.c) /\ log \o f.events = told
      BY <1>1, <1>8 DEF Carried
    <2> HIDE DEF told
    <2>2. Tells(told, f.c)
      BY <1>8, <2>1 DEF Tells
    <2>3. RootTold(told, f.c)
      BY <1>8, <2>1 DEF RootTold
    <2>4. QED
      BY <2>1, <2>2, <2>3
  <1>11. IsSeq(f.undo)
    BY <1>1, <1>8, IsSeqAppend
  <1>12. Carried(f)
    BY <1>1, <1>8, <1>9, <1>10, <1>11 DEF Carried
  <1>13. Breaks(f.undo, f.c)
    <2> SUFFICES ASSUME NEW z
                 PROVE  TakenBack(f.undo, {Join(f.c, z)}) = {}
      BY DEF Breaks
    <2> DEFINE j == Join(f.c, z)
    <2>1. j.frames = e.c.frames
      BY <1>8 DEF Join
    <2> HIDE DEF j
    <2>2. Top(j) = old
      BY <1>4, <2>1 DEF Top
    <2>3. ~Undoable(j, r)
      BY <1>3, <1>4, <2>2 DEF Undoable
    <2>4. Applied(r, {j}) = {}
      BY <2>3 DEF Applied
    <2>5. TakenBack(Append(e.undo, r), {j}) = TakenBack(e.undo, Applied(r, {j}))
      BY <1>1, UndoAppend
    <2>6. TakenBack(e.undo, {}) = {}
      BY <1>1, UndoNothing
    <2>7. QED
      BY <1>8, <2>4, <2>5, <2>6 DEF j
  <1>14. QED
    BY <1>7, <1>12, <1>13 DEF Stranded

-------------------------------------------------------------------------------
(* Scalars.                                                                *)

LEMMA BeginningString ==
  ASSUME NEW e, NEW n \in Nat, Sound(e, n), n < Room, e.error = "none",
         NEW context, NEW f, f = begin_string(e, context)
  PROVE  /\ Sound(f, n + 1) /\ f.error = "none" /\ f.c.mode = InString(context)
         /\ f.c.utf8 = NoUtf8 /\ f.c.frames = e.c.frames /\ f.c.root = e.c.root
         /\ f.c.byte_offset = e.c.byte_offset /\ f.again = e.again
  <1> DEFINE x == TakePartial(e)
             y == [x EXCEPT !.c.utf8 = NoUtf8]
  <1>1. x = TakePartial(e) /\ y = [x EXCEPT !.c.utf8 = NoUtf8]
    OBVIOUS
  <1>2. f = IF x.error = "none" THEN Goto(y, InString(context)) ELSE x
    BY DEF begin_string, Then, Ok
  <1> HIDE DEF x, y
  <1>3. Sound(x, n + 1) /\ KeepsCore(e, x) /\ x.error = "none"
    BY <1>1, TakingPartial
  <1>4. Sound(y, n + 1) /\ Restyled(x, y, x.c.mode, NoUtf8)
    BY <1>1, <1>3, Decoding
  <1>5. Sound(f, n + 1) /\ Restyled(y, f, InString(context), y.c.utf8)
    BY <1>2, <1>3, <1>4, Going
  <1>6. QED
    BY <1>3, <1>4, <1>5 DEF Restyled, SameData, KeepsCore

\* A scalar is added to the arena, its bytes are taken, and it is published.
LEMMA SealingTaken ==
  ASSUME NEW e, NEW n \in Nat, Sound(e, n), n + 2 <= Room, e.error = "none", Expecting(e.c),
         NEW added, Adds(e.c.arena, added),
         NEW f, f = Then(AddNode(e, added), LAMBDA x :
                    Then(TakePartial(x), LAMBDA y : ScalarSealed(y, Newest(y))))
  PROVE  Published(e, f, n + 2)
  <1>1. n < Room /\ n + 1 < Room /\ n + 1 \in Nat /\ n + 2 \in Nat /\ (n + 1) + 1 = n + 2 /\ n <= n + 2
    BY DEF Sound, Carried
  <1> DEFINE x == AddNode(e, added)
             y == TakePartial(x)
  <1>2. x = AddNode(e, added) /\ y = TakePartial(x)
    OBVIOUS
  <1>3. f = IF x.error # "none" THEN x ELSE IF y.error # "none" THEN y ELSE ScalarSealed(y, Newest(y))
    BY DEF Then, Ok
  <1> HIDE DEF x, y
  <1>4. Sound(x, n) /\ KeepsCore(e, x) /\ (x.error = "none" => Newest(x) \in 1..Len(x.c.arena.nodes))
    BY <1>2, Adding
  <1>5. CASE x.error # "none"
    <2>1. Sound(x, n + 2)
      BY <1>1, <1>4, SoundMore
    <2>2. QED
      BY <1>3, <1>4, <1>5, <2>1 DEF Published, KeepsCore
  <1>6. CASE x.error = "none"
    <2>1. Sound(y, n + 1) /\ KeepsCore(x, y) /\ y.error = "none" /\ y.c.arena = x.c.arena
      BY <1>1, <1>2, <1>4, <1>6, TakingPartial
    <2>2. f = ScalarSealed(y, Newest(y))
      BY <1>3, <1>6, <2>1
    <2>3. /\ y.c.frames = e.c.frames /\ y.c.root = e.c.root /\ y.c.utf8 = e.c.utf8
          /\ y.c.byte_offset = e.c.byte_offset /\ y.again = e.again
      BY <1>4, <2>1 DEF KeepsCore
    <2>4. Expecting(y.c)
      BY <2>3 DEF Expecting, Inside, Top
    <2>5. Newest(y) \in 1..Len(y.c.arena.nodes)
      BY <1>4, <1>6, <2>1 DEF Newest
    <2>6. Published(y, f, n + 2)
      BY <1>1, <2>1, <2>2, <2>4, <2>5, SealingScalar
    <2>7. QED
      BY <2>3, <2>6 DEF Published
  <1>7. QED
    BY <1>5, <1>6

LEMMA FinishingValue ==
  ASSUME NEW e, NEW n \in Nat, Sound(e, n), n + 2 <= Room, e.error = "none", Expecting(e.c),
         NEW f, f = FinishValue(e)
  PROVE  Published(e, f, n + 2)
  <1> DEFINE added == add_string(e.c.arena, e.c.partial, input.limits)
  <1>1. IsSeq(e.c.partial) /\ Whole(e.c.arena)
    BY DEF Sound, Carried, Fit
  <1>2. Adds(e.c.arena, added)
    BY <1>1, AddStringKeepsArena DEF Adds
  <1>3. f = Then(AddNode(e, added), LAMBDA x :
            Then(TakePartial(x), LAMBDA y : ScalarSealed(y, Newest(y))))
    BY DEF FinishValue
  <1> HIDE DEF added
  <1>4. QED
    BY <1>2, <1>3, SealingTaken

LEMMA SealingNumber ==
  ASSUME NEW e, NEW n \in Nat, Sound(e, n), n + 2 <= Room, e.error = "none", Expecting(e.c),
         NEW f, f = seal_number(e)
  PROVE  Published(e, f, n + 2)
  <1> DEFINE parts == NumberParts(e.c.partial)
             added == add_number(e.c.arena, NormalForm(parts), input.limits)
  <1>1. Whole(e.c.arena) /\ n <= n + 2 /\ n + 2 \in Nat
    BY DEF Sound, Carried, Fit
  <1>2. Adds(e.c.arena, added)
    <2> SUFFICES ASSUME NEW b \in added
                 PROVE  Whole(b) /\ Grown(e.c.arena, b) /\ Len(b.nodes) = Len(e.c.arena.nodes) + 1
      BY DEF Adds
    <2> DEFINE node == [type |-> "number", value |-> NormalForm(parts)]
    <2>1. node.type \notin {"string", "array", "object"} /\ b \in publish(e.c.arena, node, input.limits)
      BY DEF add_number
    <2> HIDE DEF node, added
    <2>2. QED
      BY <1>1, <2>1, PublishKeepsArena
  <1>3. CASE ~(parts.valid /\ WithinDigitLimits(parts, input.limits))
    <2>1. f = Fail(e, "Number") \/ f = Fail(e, "NumberLimit")
      BY <1>3 DEF seal_number
    <2> HIDE DEF parts
    <2>2. QED
      BY <1>1, <2>1, PublishedAnyway
  <1>5. CASE parts.valid /\ WithinDigitLimits(parts, input.limits)
    <2>1. f = Then(AddNode(e, added), LAMBDA x :
              Then(TakePartial(x), LAMBDA y : ScalarSealed(y, Newest(y))))
      BY <1>5 DEF seal_number
    <2> HIDE DEF added, parts
    <2>2. QED
      BY <1>2, <2>1, SealingTaken
  <1>6. QED
    BY <1>3, <1>5

LEMMA SealingLiteral ==
  ASSUME NEW e, NEW n \in Nat, Sound(e, n), n < Room, e.error = "none", Expecting(e.c),
         NEW f, f = seal_literal(e)
  PROVE  Published(e, f, n + 1)
  <1> DEFINE node == [type |-> "literal", name |-> e.c.mode[2]]
             added == add_literal(e.c.arena, e.c.mode[2], input.limits)
             x == AddNode(e, added)
  <1>1. Whole(e.c.arena) /\ n <= n + 1 /\ n + 1 \in Nat
    BY DEF Sound, Carried, Fit
  <1>2. f = IF x.error = "none" THEN ScalarSealed(x, Newest(x)) ELSE x
    BY DEF seal_literal, Then, Ok
  <1>3. node.type = "literal" /\ added = publish(e.c.arena, node, input.limits) /\ x = AddNode(e, added)
    BY DEF add_literal
  <1> HIDE DEF node, added, x
  <1>4. Adds(e.c.arena, added)
    <2> SUFFICES ASSUME NEW b \in added
                 PROVE  Whole(b) /\ Grown(e.c.arena, b) /\ Len(b.nodes) = Len(e.c.arena.nodes) + 1
      BY DEF Adds
    <2>1. node.type \notin {"string", "array", "object"} /\ b \in publish(e.c.arena, node, input.limits)
      BY <1>3
    <2>2. QED
      BY <1>1, <2>1, PublishKeepsArena
  <1>5. Sound(x, n) /\ KeepsCore(e, x) /\ (x.error = "none" => Newest(x) \in 1..Len(x.c.arena.nodes))
    BY <1>3, <1>4, Adding
  <1>6. /\ x.c.frames = e.c.frames /\ x.c.root = e.c.root /\ x.c.utf8 = e.c.utf8
        /\ x.c.byte_offset = e.c.byte_offset /\ x.again = e.again
    BY <1>5 DEF KeepsCore
  <1>7. CASE x.error # "none"
    <2>1. Sound(x, n + 1)
      BY <1>1, <1>5, SoundMore
    <2>2. QED
      BY <1>2, <1>6, <1>7, <2>1 DEF Published
  <1>8. CASE x.error = "none"
    <2>1. f = ScalarSealed(x, Newest(x))
      BY <1>2, <1>8
    <2>2. Expecting(x.c)
      BY <1>6 DEF Expecting, Inside, Top
    <2>3. Published(x, f, n + 1)
      BY <1>5, <1>8, <2>1, <2>2, SealingScalar
    <2>4. QED
      BY <1>6, <2>3 DEF Published
  <1>9. QED
    BY <1>7, <1>8

-------------------------------------------------------------------------------
(* Strings.                                                                *)

ValueModes == {"ExpectValue", "ExpectArrayValueOrEnd", "InNumber", "InLiteral"}

LEMMA ValueExpected ==
  ASSUME NEW c, CoreFits(c), c.mode[1] \in ValueModes
  PROVE  Expecting(c)
  <1>1. Mode("CompleteRoot")[1] = "CompleteRoot"
    BY DEF Mode
  <1>2. c.mode # Mode("CompleteRoot")
    BY <1>1 DEF ValueModes
  <1>3. ~KeyDue(c.mode)
    BY DEF KeyDue, StringModes, ValueModes
  <1>4. QED
    BY <1>2, <1>3 DEF CoreFits, ModeFits, Utf8Fits, ValueModes, Expecting

LEMMA ValueFits ==
  ASSUME NEW c, Expecting(c), c.mode[1] \in ValueModes,
         c.mode[1] = "ExpectArrayValueOrEnd" => Inside(c, "array")
  PROVE  CoreFits(c)
  <1>1. ~KeyDue(c.mode)
    BY DEF KeyDue, StringModes, ValueModes
  <1>2. QED
    BY <1>1 DEF CoreFits, ModeFits, Utf8Fits, ValueModes, Expecting

\* A string is being read, as a key or as a value.
Reading(c, context) ==
  /\ c.root = NoRoot
  /\ context = "Key" => Inside(c, "object") /\ Top(c).current_key = {}
  /\ context # "Key" /\ Inside(c, "object") => Top(c).current_key # {}

LEMMA ReadingOn ==
  ASSUME NEW c, NEW d, d.frames = c.frames, d.root = c.root, NEW context, Reading(c, context)
  PROVE  Reading(d, context)
  BY DEF Reading, Inside, Top

LEMMA StringRead ==
  ASSUME NEW c, CoreFits(c), c.mode[1] \in StringModes
  PROVE  /\ Reading(c, c.mode[2])
         /\ c.mode[1] = "InString" => c.mode = InString(c.mode[2]) /\ CharacterFits(c.utf8)
         /\ c.mode[1] = "WaitingLowSurrogate" => c.utf8 = Utf8State(0, c.utf8.codepoint, 0)
         /\ c.mode[1] \in {"AfterBackslash", "InUnicodeEscape"} => c.utf8 = NoUtf8
  <1>1. Mode("CompleteRoot")[1] = "CompleteRoot"
    BY DEF Mode
  <1>2. c.mode # Mode("CompleteRoot")
    BY <1>1 DEF StringModes
  <1>3. KeyDue(c.mode) <=> c.mode[2] = "Key"
    BY DEF KeyDue, StringModes
  <1>4. QED
    BY <1>2, <1>3 DEF CoreFits, ModeFits, Utf8Fits, StringModes, Reading

LEMMA StringFits ==
  ASSUME NEW c, c.mode[1] \in StringModes, Reading(c, c.mode[2]),
         c.mode[1] = "InString" => c.mode = InString(c.mode[2]) /\ CharacterFits(c.utf8),
         c.mode[1] = "WaitingLowSurrogate" => c.utf8 = Utf8State(0, c.utf8.codepoint, 0),
         c.mode[1] \in {"AfterBackslash", "InUnicodeEscape"} => c.utf8 = NoUtf8
  PROVE  CoreFits(c)
  <1>1. KeyDue(c.mode) <=> c.mode[2] = "Key"
    BY DEF KeyDue, StringModes
  <1>2. QED
    BY <1>1 DEF CoreFits, ModeFits, Utf8Fits, StringModes, Reading

LEMMA NoCharacter == CharacterFits(NoUtf8)
  BY DEF CharacterFits, NoUtf8, Utf8State

\* A cursor at the content of a string, between two characters of it.
LEMMA ContentFits ==
  ASSUME NEW c, NEW context, c.mode = InString(context), Reading(c, context), c.utf8 = NoUtf8
  PROVE  CoreFits(c)
  <1>1. c.mode[1] = "InString" /\ c.mode[2] = context
    BY DEF InString
  <1>2. QED
    BY <1>1, NoCharacter, StringFits DEF StringModes

\* Any change of the state of a character.
LEMMA Redecoding ==
  ASSUME NEW e, NEW n, Sound(e, n), NEW utf8, NEW f, EffectShape(f), f.room = e.room,
         f.undo = e.undo, f.events = e.events, f.error = e.error, f.again = e.again,
         f.c = [e.c EXCEPT !.utf8 = utf8]
  PROVE  Sound(f, n) /\ Restyled(e, f, e.c.mode, utf8)
  <1>1. EffectShape(e) /\ CursorShape(e.c) /\ e.error \notin {"PushRefused", "DuplicateObjectKey"}
    BY Shaped
  <1>2. CursorShape(f.c)
    BY <1>1 DEF CursorShape
  <1>3. /\ f.c.mode = e.c.mode /\ f.c.utf8 = utf8 /\ f.c.byte_offset = e.c.byte_offset
        /\ SameData(e.c, f.c)
    BY <1>1 DEF CursorShape, SameData
  <1>4. QED
    BY <1>1, <1>2, <1>3, CoreChanged DEF Restyled

\* What reading a byte of a character leaves.
Decoded(e, f, n) ==
  /\ Sound(f, n) /\ SameData(e.c, f.c) /\ f.c.mode = e.c.mode
  /\ f.c.byte_offset = e.c.byte_offset /\ f.again = e.again
  /\ f.error = "none" => CharacterFits(f.c.utf8)

LEMMA DecodedAnyway ==
  ASSUME NEW e, NEW n, Sound(e, n), NEW why,
         why \notin {"PushRefused", "DuplicateObjectKey", "none"}, NEW f, f = Fail(e, why)
  PROVE  Decoded(e, f, n)
  BY Failing DEF Decoded, SameData

LEMMA Continuing ==
  ASSUME NEW e, NEW n, Sound(e, n), e.error = "none", CharacterFits(e.c.utf8),
         NEW code, NEW f, f = Continued(e, code)
  PROVE  Decoded(e, f, n)
  <1> DEFINE u == e.c.utf8
             codepoint == u.codepoint * 64 + (code % 64)
             left == u.expected_continuations - 1
             more == [e EXCEPT !.c.utf8.codepoint = codepoint, !.c.utf8.expected_continuations = left]
             none == [e EXCEPT !.c.utf8.codepoint = codepoint, !.c.utf8.expected_continuations = 0]
             done == [e EXCEPT !.c.utf8 = NoUtf8]
             one == [u EXCEPT !.codepoint = codepoint, !.expected_continuations = left]
             two == [u EXCEPT !.codepoint = codepoint, !.expected_continuations = 0]
  <1>1. \/ f = Fail(e, "Syntax")
        \/ left > 0 /\ f = more
        \/ f = Fail(none, "Syntax")
        \/ f = done
    BY DEF Continued
  <1>2. EffectShape(e) /\ CursorShape(e.c)
    BY Shaped
  <1>3. /\ more = [e EXCEPT !.c.utf8.codepoint = codepoint, !.c.utf8.expected_continuations = left]
        /\ none = [e EXCEPT !.c.utf8.codepoint = codepoint, !.c.utf8.expected_continuations = 0]
        /\ one = [u EXCEPT !.codepoint = codepoint, !.expected_continuations = left]
        /\ two = [u EXCEPT !.codepoint = codepoint, !.expected_continuations = 0]
    OBVIOUS
  <1> HIDE DEF codepoint, left, more, none, one, two
  <1>4. /\ EffectShape(more) /\ more.room = e.room /\ more.undo = e.undo /\ more.events = e.events
        /\ more.error = e.error /\ more.again = e.again /\ more.c = [e.c EXCEPT !.utf8 = one]
    BY <1>2, <1>3 DEF EffectShape
  <1>5. /\ EffectShape(none) /\ none.room = e.room /\ none.undo = e.undo /\ none.events = e.events
        /\ none.error = e.error /\ none.again = e.again /\ none.c = [e.c EXCEPT !.utf8 = two]
    BY <1>2, <1>3 DEF EffectShape
  <1>6. left > 0 => CharacterFits(one)
    <2> HIDE DEF u
    <2>1. u = Utf8State(u.expected_continuations, u.codepoint, u.minimum_codepoint)
      BY DEF CharacterFits, u
    <2>2. one = Utf8State(left, codepoint, u.minimum_codepoint)
      BY <1>3, <2>1 DEF Utf8State
    <2>3. one.expected_continuations = left /\ one.codepoint = codepoint
          /\ one.minimum_codepoint = u.minimum_codepoint
      BY <2>2 DEF Utf8State
    <2>4. left > 0 => left # 0
      OBVIOUS
    <2>5. QED
      BY <2>2, <2>3, <2>4 DEF CharacterFits
  <1>7. Sound(more, n) /\ Restyled(e, more, e.c.mode, one)
    BY <1>4, Redecoding
  <1>8. Sound(none, n) /\ Restyled(e, none, e.c.mode, two)
    BY <1>5, Redecoding
  <1>9. left > 0 => Decoded(e, more, n)
    BY <1>6, <1>7 DEF Decoded, Restyled
  <1>10. CASE f = Fail(none, "Syntax")
    <2>1. Decoded(none, f, n)
      BY <1>8, <1>10, DecodedAnyway
    <2>2. QED
      BY <1>8, <2>1 DEF Decoded, Restyled, SameData
  <1>11. CASE f = done
    <2>1. Sound(f, n) /\ Restyled(e, f, e.c.mode, NoUtf8)
      BY <1>11, Decoding
    <2>2. QED
      BY <2>1, NoCharacter DEF Decoded, Restyled
  <1> HIDE DEF done
  <1>12. QED
    BY <1>1, <1>9, <1>10, <1>11, DecodedAnyway

LEMMA DecodingByte ==
  ASSUME NEW e, NEW n, Sound(e, n), e.error = "none", CharacterFits(e.c.utf8),
         NEW b, NEW f, f = feed_utf8(e, b)
  PROVE  Decoded(e, f, n)
  <1>1. \/ f = Continued(e, Octet[b])
        \/ f = Fail(e, "Syntax")
        \/ f = e
        \/ Octet[b] \in 194..244 /\ f = [e EXCEPT !.c.utf8 = Leading(Octet[b])]
    BY DEF feed_utf8
  <1>2. CASE f = Continued(e, Octet[b])
    BY <1>2, Continuing
  <1>3. CASE f = Fail(e, "Syntax")
    BY <1>3, DecodedAnyway
  <1>4. CASE f = e
    BY <1>4 DEF Decoded, SameData
  <1>5. CASE Octet[b] \in 194..244 /\ f = [e EXCEPT !.c.utf8 = Leading(Octet[b])]
    <2> DEFINE code == Octet[b]
               u == Leading(code)
    <2>1. u = Leading(code) /\ f = [e EXCEPT !.c.utf8 = u] /\ code \in 194..244
      BY <1>5
    <2> HIDE DEF code, u
    <2>2. Sound(f, n) /\ Restyled(e, f, e.c.mode, u)
      BY <2>1, Decoding
    <2>3. CharacterFits(u)
      <3>1. code \in 194..223 \/ code \in 224..239 \/ code \in 240..244
        BY <2>1
      <3>2. \/ u = Utf8State(1, code % 32, 128)
            \/ u = Utf8State(2, code % 16, 2048)
            \/ u = Utf8State(3, code % 8, 65536)
        BY <2>1, <3>1 DEF Leading
      <3>3. \A x, y \in {1, 2, 3} : \A cp, least : CharacterFits(Utf8State(x, cp, least))
        BY DEF CharacterFits, Utf8State
      <3>4. QED
        BY <3>2, <3>3
    <2>4. QED
      BY <2>2, <2>3 DEF Decoded, Restyled
  <1>6. QED
    BY <1>1, <1>2, <1>3, <1>4, <1>5

\* The end of a key that is already in its object.
Repeats(c, b) ==
  /\ b = Quote /\ c.mode = InString("Key") /\ c.partial \in Top(c).seen_keys

LEMMA ReadingByte ==
  ASSUME NEW e, NEW n \in Nat, Sound(e, n), n + 2 <= Room, e.error = "none", CoreFits(e.c),
         NEW context, e.c.mode = InString(context), NEW b, NEW f, f = StringByte(e, b, context)
  PROVE  Handled(e, f, n + 2) \/ (Stranded(f) /\ Repeats(e.c, b))
  <1>1. /\ n < Room /\ n + 1 \in Nat /\ n + 2 \in Nat /\ n + 1 <= n + 2 /\ n <= n + 2
    BY DEF Sound, Carried
  <1>2. e.c.mode[1] = "InString" /\ e.c.mode[2] = context
    BY DEF InString
  <1>3. Reading(e.c, context) /\ CharacterFits(e.c.utf8)
    BY <1>2, StringRead DEF StringModes
  <1> DEFINE x == feed_utf8(e, b)
             go == Then(feed_utf8(e, b), LAMBDA y : push_partial(y, b))
  <1>4. \/ f = Fail(e, "Syntax")
        \/ b = Quote /\ ~Pending(e.c) /\ context = "Key" /\ f = FinishKey(e)
        \/ ~Pending(e.c) /\ context # "Key" /\ f = FinishValue(e)
        \/ ~Pending(e.c) /\ f = Goto(e, AfterBackslash(context))
        \/ f = go
    BY DEF StringByte
  <1>5. ~Pending(e.c) => e.c.utf8 = NoUtf8
    BY <1>3 DEF CharacterFits, Pending
  <1>6. CASE f = Fail(e, "Syntax")
    BY <1>1, <1>6, HandledAnyway
  <1>7. CASE b = Quote /\ ~Pending(e.c) /\ context = "Key" /\ f = FinishKey(e)
    <2>1. /\ e.c.root = NoRoot /\ e.c.utf8 = NoUtf8 /\ Inside(e.c, "object")
          /\ Top(e.c).current_key = {}
      BY <1>3, <1>5, <1>7 DEF Reading
    <2>2. CASE e.c.partial \in Top(e.c).seen_keys
      <3>1. Stranded(f)
        BY <1>1, <1>7, <2>1, <2>2, FinishingOldKey
      <3>2. QED
        BY <1>7, <2>2, <3>1 DEF Repeats
    <2>3. CASE e.c.partial \notin Top(e.c).seen_keys
      <3>1. Handled(e, f, n + 1)
        BY <1>1, <1>7, <2>1, <2>3, FinishingNewKey
      <3>2. Sound(f, n + 2)
        BY <1>1, <3>1, SoundMore DEF Handled
      <3>3. QED
        BY <3>1, <3>2 DEF Handled
    <2>4. QED
      BY <2>2, <2>3
  <1>8. CASE ~Pending(e.c) /\ context # "Key" /\ f = FinishValue(e)
    <2>1. Expecting(e.c)
      BY <1>3, <1>5, <1>8 DEF Reading, Expecting
    <2>2. Published(e, f, n + 2)
      BY <1>8, <2>1, FinishingValue
    <2>3. QED
      BY <2>2, PublishedHandled
  <1>9. CASE ~Pending(e.c) /\ f = Goto(e, AfterBackslash(context))
    <2> DEFINE mode == AfterBackslash(context)
    <2>1. mode[1] = "AfterBackslash" /\ mode[2] = context
      BY DEF AfterBackslash
    <2> HIDE DEF mode
    <2>2. Sound(f, n) /\ Restyled(e, f, mode, e.c.utf8)
      BY <1>9, Going DEF mode
    <2>3. Sound(f, n + 2)
      BY <1>1, <2>2, SoundMore
    <2>4. f.c.mode = mode /\ f.c.utf8 = NoUtf8 /\ f.c.frames = e.c.frames /\ f.c.root = e.c.root
      BY <1>5, <1>9, <2>2 DEF Restyled, SameData
    <2>5. Reading(f.c, context)
      BY <1>3, <2>4, ReadingOn
    <2>6. CoreFits(f.c)
      BY <2>1, <2>4, <2>5, StringFits DEF StringModes
    <2>7. QED
      BY <2>2, <2>3, <2>6 DEF Handled, Restyled
  <1>10. CASE f = go
    <2>1. f = IF x.error = "none" THEN push_partial(x, b) ELSE x
      BY <1>10 DEF Then, Ok
    <2>2. x = feed_utf8(e, b)
      OBVIOUS
    <2> HIDE DEF x, go
    <2>3. Decoded(e, x, n)
      BY <1>3, <2>2, DecodingByte
    <2>4. CASE x.error # "none"
      <3>1. Sound(f, n + 2)
        BY <1>1, <2>1, <2>3, <2>4, SoundMore DEF Decoded
      <3>2. QED
        BY <2>1, <2>3, <2>4, <3>1 DEF Decoded, Handled
    <2>5. CASE x.error = "none"
      <3>1. Sound(f, n + 1) /\ KeepsCore(x, f)
        BY <1>1, <2>1, <2>3, <2>5, Typed DEF Decoded
      <3>2. Sound(f, n + 2)
        BY <1>1, <3>1, SoundMore
      <3>3. /\ f.c.mode = InString(context) /\ CharacterFits(f.c.utf8)
            /\ f.c.frames = e.c.frames /\ f.c.root = e.c.root
            /\ f.c.byte_offset = e.c.byte_offset /\ f.again = e.again
        BY <2>3, <2>5, <3>1 DEF Decoded, KeepsCore, SameData
      <3>4. Reading(f.c, context)
        BY <1>3, <3>3, ReadingOn
      <3>5. f.c.mode[1] = "InString" /\ f.c.mode[2] = context
        BY <1>2, <3>3
      <3>6. CoreFits(f.c)
        BY <3>3, <3>4, <3>5, StringFits DEF StringModes
      <3>7. QED
        BY <3>2, <3>3, <3>6 DEF Handled
    <2>6. QED
      BY <2>4, <2>5
  <1> HIDE DEF go
  <1>11. QED
    BY <1>4, <1>6, <1>7, <1>8, <1>9, <1>10

\* Back to the content of a string, after some bytes of it.
LEMMA BackToContent ==
  ASSUME NEW e, NEW context, Reading(e.c, context), NEW x, NEW n \in Nat, NEW m \in Nat,
         n <= m, Sound(x, n), x.c.frames = e.c.frames, x.c.root = e.c.root,
         x.c.utf8 = NoUtf8, x.c.byte_offset = e.c.byte_offset, x.again = e.again,
         NEW f, f = IF x.error = "none" THEN Goto(x, InString(context)) ELSE x
  PROVE  Handled(e, f, m)
  <1>2. CASE x.error # "none"
    <2>1. Sound(f, m)
      BY <1>2, SoundMore
    <2>2. QED
      BY <1>2, <2>1 DEF Handled
  <1>3. CASE x.error = "none"
    <2>1. Sound(f, n) /\ Restyled(x, f, InString(context), x.c.utf8)
      BY <1>3, Going
    <2>2. Sound(f, m)
      BY <2>1, SoundMore
    <2>3. /\ f.c.mode = InString(context) /\ f.c.utf8 = NoUtf8 /\ f.c.frames = e.c.frames
          /\ f.c.root = e.c.root /\ f.c.byte_offset = e.c.byte_offset /\ f.again = e.again
      BY <2>1 DEF Restyled, SameData
    <2>4. Reading(f.c, context)
      BY <2>3, ReadingOn
    <2>5. CoreFits(f.c)
      BY <2>3, <2>4, ContentFits
    <2>6. QED
      BY <2>2, <2>3, <2>5 DEF Handled
  <1>4. QED
    BY <1>2, <1>3

LEMMA Escaping ==
  ASSUME NEW e, NEW n \in Nat, Sound(e, n), n < Room, e.error = "none", CoreFits(e.c),
         e.c.mode[1] = "AfterBackslash", NEW b, NEW f, f = EscapeByte(e, b, e.c.mode[2])
  PROVE  Handled(e, f, n + 1)
  <1> DEFINE context == e.c.mode[2]
             mode == InUnicodeEscape(context, 0, 0)
             x == push_partial(e, Unescaped(b))
             go == IF x.error = "none" THEN Goto(x, InString(context)) ELSE x
  <1>1. n + 1 \in Nat /\ n <= n + 1 /\ n + 1 <= n + 1
    OBVIOUS
  <1>2. Reading(e.c, context) /\ e.c.utf8 = NoUtf8
    BY StringRead DEF StringModes
  <1>3. f = Goto(e, mode) \/ f = go \/ f = Fail(e, "Syntax")
    BY DEF EscapeByte, Then, Ok
  <1>4. mode[1] = "InUnicodeEscape" /\ mode[2] = context
    BY DEF InUnicodeEscape
  <1>5. x = push_partial(e, Unescaped(b))
    OBVIOUS
  <1> HIDE DEF mode, x, context
  <1>6. CASE f = Goto(e, mode)
    <2>1. Sound(f, n) /\ Restyled(e, f, mode, e.c.utf8)
      BY <1>6, Going
    <2>2. Sound(f, n + 1)
      BY <1>1, <2>1, SoundMore
    <2>3. f.c.mode = mode /\ f.c.utf8 = NoUtf8 /\ f.c.frames = e.c.frames /\ f.c.root = e.c.root
      BY <1>2, <2>1 DEF Restyled, SameData
    <2>4. Reading(f.c, context)
      BY <1>2, <2>3, ReadingOn
    <2>5. CoreFits(f.c)
      BY <1>4, <2>3, <2>4, StringFits DEF StringModes
    <2>6. QED
      BY <2>1, <2>2, <2>5 DEF Handled, Restyled
  <1>7. CASE f = go
    <2>1. Sound(x, n + 1) /\ KeepsCore(e, x)
      BY <1>5, Typed
    <2>2. x.c.frames = e.c.frames /\ x.c.root = e.c.root /\ x.c.utf8 = NoUtf8
          /\ x.c.byte_offset = e.c.byte_offset /\ x.again = e.again
      BY <1>2, <2>1 DEF KeepsCore
    <2>3. QED
      BY <1>1, <1>2, <1>7, <2>1, <2>2, BackToContent
  <1>8. CASE f = Fail(e, "Syntax")
    BY <1>1, <1>8, HandledAnyway
  <1> HIDE DEF go
  <1>9. QED
    BY <1>3, <1>6, <1>7, <1>8

-------------------------------------------------------------------------------
(* Characters by code: at most four bytes.                                  *)

\* A sequence of bytes typed one by one.
Fine(e, f, n) == Sound(f, n) /\ KeepsCore(e, f)

LEMMA TypingAll ==
  ASSUME NEW e, NEW n \in Nat, Sound(e, n), e.error = "none", NEW s, IsSeq(s), n + Len(s) <= Room
  PROVE  Fine(e, AllTyped(e, s), n + Len(s))
  <1> DEFINE P(k) == \A t : IsSeq(t) /\ Len(t) = k /\ n + k <= Room => Fine(e, AllTyped(e, t), n + k)
             S == {k \in Nat : P(k)}
  <1>1. 0 \in S
    <2> SUFFICES ASSUME NEW t, IsSeq(t), Len(t) = 0
                 PROVE  Fine(e, AllTyped(e, t), n + 0)
      OBVIOUS
    <2>1. t = <<>>
      BY EmptySeq DEF IsSeq
    <2>2. AllTyped(e, t) = e /\ n + 0 = n
      BY <2>1, TypeNone
    <2>3. QED
      BY <2>2 DEF Fine, KeepsCore
  <1>2. ASSUME NEW k \in Nat, k \in S
        PROVE  k + 1 \in S
    <2> SUFFICES ASSUME NEW t, IsSeq(t), Len(t) = k + 1, n + (k + 1) <= Room
                 PROVE  Fine(e, AllTyped(e, t), n + (k + 1))
      OBVIOUS
    <2>1. t # <<>>
      BY IsSeqEmpty
    <2> DEFINE rest == Front(t)
               b == Last(t)
               x == AllTyped(e, rest)
               y == AllTyped(e, t)
    <2>2. IsSeq(rest) /\ Len(rest) = k /\ Append(rest, b) = t
      BY <2>1, IsSeqFront
    <2>3. x = AllTyped(e, rest) /\ y = AllTyped(e, t)
      OBVIOUS
    <2> HIDE DEF rest, b, x, y
    <2>4. y = push_next(x, b)
      BY <2>2, <2>3, TypeAppend
    <2>5. Room \in Int /\ n + k < Room /\ n + k \in Nat /\ n + (k + 1) \in Nat
          /\ (n + k) + 1 = n + (k + 1) /\ n + k <= n + (k + 1) /\ n + k <= Room
      BY DEF Sound, Carried
    <2>6. Sound(x, n + k) /\ KeepsCore(e, x)
      BY <1>2, <2>2, <2>3, <2>5 DEF Fine
    <2>7. CASE x.error = "none"
      <3>1. y = push_partial(x, b)
        BY <2>4, <2>7 DEF push_next, Then, Ok
      <3>2. Sound(y, (n + k) + 1) /\ KeepsCore(x, y)
        BY <2>5, <2>6, <2>7, <3>1, Typed
      <3>3. QED
        BY <2>5, <2>6, <3>2 DEF Fine, KeepsCore, y
    <2>8. CASE x.error # "none"
      <3>1. y = x
        BY <2>4, <2>8 DEF push_next, Then, Ok
      <3>2. Sound(y, n + (k + 1))
        BY <2>5, <2>6, <3>1, SoundMore
      <3>3. QED
        BY <2>6, <3>1, <3>2 DEF Fine, y
    <2>9. QED
      BY <2>7, <2>8
  <1> HIDE DEF P
  <1>3. Len(s) \in S
    <2>1. Len(s) \in Nat
      BY IsSeqLen
    <2> HIDE DEF S
    <2>2. QED
      BY <1>1, <1>2, <2>1, Induct
  <1>4. QED
    BY <1>3 DEF P

LEMMA FewBytes ==
  ASSUME NEW codepoint
  PROVE  IsSeq(EncodeUtf8(codepoint)) /\ Len(EncodeUtf8(codepoint)) \in 0..4
  <1>1. \E p, q, r, s : \/ EncodeUtf8(codepoint) = <<p>>
                        \/ EncodeUtf8(codepoint) = <<p, q>>
                        \/ EncodeUtf8(codepoint) = <<p, q, r>>
                        \/ EncodeUtf8(codepoint) = <<p, q, r, s>>
    BY DEF EncodeUtf8
  <1>2. ASSUME NEW p, NEW q, NEW r, NEW s
        PROVE  /\ IsSeq(<<p>>) /\ Len(<<p>>) = 1
               /\ IsSeq(<<p, q>>) /\ Len(<<p, q>>) = 2
               /\ IsSeq(<<p, q, r>>) /\ Len(<<p, q, r>>) = 3
               /\ IsSeq(<<p, q, r, s>>) /\ Len(<<p, q, r, s>>) = 4
    <2> DEFINE T == {p, q, r, s}
    <2>1. <<p>> \in Seq(T) /\ <<p, q>> \in Seq(T) /\ <<p, q, r>> \in Seq(T) /\ <<p, q, r, s>> \in Seq(T)
      OBVIOUS
    <2> HIDE DEF T
    <2>2. QED
      BY <2>1, SeqIsSeq
  <1>3. PICK p, q, r, s : \/ EncodeUtf8(codepoint) = <<p>>
                          \/ EncodeUtf8(codepoint) = <<p, q>>
                          \/ EncodeUtf8(codepoint) = <<p, q, r>>
                          \/ EncodeUtf8(codepoint) = <<p, q, r, s>>
    BY <1>1
  <1> DEFINE bytes == EncodeUtf8(codepoint)
  <1> HIDE DEF bytes
  <1>4. bytes = <<p>> \/ bytes = <<p, q>> \/ bytes = <<p, q, r>> \/ bytes = <<p, q, r, s>>
    BY <1>3 DEF bytes
  <1>5. IsSeq(bytes) /\ Len(bytes) \in {1, 2, 3, 4}
    BY <1>2, <1>4
  <1>6. Len(bytes) \in 0..4
    BY <1>5
  <1>7. QED
    BY <1>5, <1>6 DEF bytes

LEMMA TypingCode ==
  ASSUME NEW e, NEW n \in Nat, Sound(e, n), n + 4 <= Room, e.error = "none", NEW codepoint,
         NEW f, f = push_codepoint(e, codepoint)
  PROVE  Sound(f, n + 4) /\ KeepsCore(e, f)
  <1> DEFINE s == EncodeUtf8(codepoint)
             k == Len(s)
  <1>1. IsSeq(s) /\ k \in 0..4
    BY FewBytes
  <1>2. f = AllTyped(e, s)
    BY DEF push_codepoint, AllTyped
  <1> HIDE DEF s
  <1> HIDE DEF k
  <1>3. Room \in Int /\ n + k <= Room /\ n + k <= n + 4 /\ n + k \in Nat /\ n + 4 \in Nat
    <2>1. Room \in Int
      BY DEF Sound, Carried
    <2>2. QED
      BY <1>1, <2>1
  <1>4. Fine(e, f, n + k)
    BY <1>1, <1>2, <1>3, TypingAll DEF k
  <1>5. QED
    BY <1>3, <1>4, SoundMore DEF Fine

\* From one point of an escape by code to the next.
LEMMA EscapeOn ==
  ASSUME NEW e, NEW context, Reading(e.c, context), NEW x, NEW n \in Nat, NEW m \in Nat, n <= m,
         Sound(x, n), x.c.frames = e.c.frames, x.c.root = e.c.root,
         x.c.byte_offset = e.c.byte_offset, x.again = e.again,
         NEW mode, mode[2] = context,
         \/ mode[1] = "InUnicodeEscape" /\ x.c.utf8 = NoUtf8
         \/ mode[1] = "WaitingLowSurrogate" /\ x.c.utf8 = Utf8State(0, x.c.utf8.codepoint, 0),
         NEW f, f = Goto(x, mode)
  PROVE  Handled(e, f, m)
  <1>1. Sound(f, n) /\ Restyled(x, f, mode, x.c.utf8)
    BY Going
  <1>2. Sound(f, m)
    BY <1>1, SoundMore
  <1>3. /\ f.c.mode = mode /\ f.c.utf8 = x.c.utf8 /\ f.c.frames = e.c.frames
        /\ f.c.root = e.c.root /\ f.c.byte_offset = e.c.byte_offset /\ f.again = e.again
    BY <1>1 DEF Restyled, SameData
  <1>4. Reading(f.c, context)
    BY <1>3, ReadingOn
  <1>5. CoreFits(f.c)
    BY <1>3, <1>4, StringFits DEF StringModes
  <1>6. QED
    BY <1>2, <1>3, <1>5 DEF Handled

LEMMA EscapingByCode ==
  ASSUME NEW e, NEW n \in Nat, Sound(e, n), n + 4 <= Room, e.error = "none", CoreFits(e.c),
         e.c.mode[1] = "InUnicodeEscape", NEW b, NEW digits, NEW value,
         NEW f, f = UnicodeDigit(e, b, e.c.mode[2], digits, value)
  PROVE  Handled(e, f, n + 4)
  <1> DEFINE context == e.c.mode[2]
             now == value * 16 + hex[b]
             one == InUnicodeEscape(context, digits + 1, now)
             two == WaitingLowSurrogate(context, now, 0)
             x == push_codepoint(e, now)
             go == IF x.error = "none" THEN Goto(x, InString(context)) ELSE x
  <1>1. n + 4 \in Nat /\ n <= n + 4 /\ n + 4 <= n + 4
    OBVIOUS
  <1>2. Reading(e.c, context) /\ e.c.utf8 = NoUtf8
    BY StringRead DEF StringModes
  <1>3. f = Goto(e, one) \/ f = Goto(e, two) \/ f = go \/ f = Fail(e, "Syntax")
    BY DEF UnicodeDigit, Then, Ok
  <1>4. one[1] = "InUnicodeEscape" /\ one[2] = context
    BY DEF InUnicodeEscape
  <1>5. two[1] = "WaitingLowSurrogate" /\ two[2] = context
    BY DEF WaitingLowSurrogate
  <1>6. x = push_codepoint(e, now)
    OBVIOUS
  <1>7. e.c.utf8 = Utf8State(0, e.c.utf8.codepoint, 0)
    BY <1>2 DEF NoUtf8, Utf8State
  <1> HIDE DEF one, two, x, now, context
  <1>8. CASE f = Goto(e, one)
    BY <1>1, <1>2, <1>4, <1>8, EscapeOn
  <1>9. CASE f = Goto(e, two)
    BY <1>1, <1>2, <1>5, <1>7, <1>9, EscapeOn
  <1>10. CASE f = go
    <2>1. Sound(x, n + 4) /\ KeepsCore(e, x)
      BY <1>6, TypingCode
    <2>2. x.c.frames = e.c.frames /\ x.c.root = e.c.root /\ x.c.utf8 = NoUtf8
          /\ x.c.byte_offset = e.c.byte_offset /\ x.again = e.again
      BY <1>2, <2>1 DEF KeepsCore
    <2>3. QED
      BY <1>1, <1>2, <1>10, <2>1, <2>2, BackToContent
  <1>11. CASE f = Fail(e, "Syntax")
    BY <1>1, <1>11, HandledAnyway
  <1> HIDE DEF go
  <1>12. QED
    BY <1>3, <1>8, <1>9, <1>10, <1>11

\* A pair of halves is whole: the code gathered is cleared, the character typed.
LEMMA Pairing ==
  ASSUME NEW e, NEW n \in Nat, Sound(e, n), n + 4 <= Room, e.error = "none", NEW context,
         Reading(e.c, context), e.c.utf8 = Utf8State(0, e.c.utf8.codepoint, 0),
         NEW high, NEW low, NEW f, f = Paired(e, high, low, context)
  PROVE  Handled(e, f, n + 4)
  <1> DEFINE cleared == [e EXCEPT !.c.utf8.codepoint = 0]
             u == [e.c.utf8 EXCEPT !.codepoint = 0]
             x == push_codepoint(cleared, PairedWith(high, low))
  <1>1. f = IF x.error = "none" THEN Goto(x, InString(context)) ELSE x
    BY DEF Paired, Then, Ok
  <1>2. EffectShape(e) /\ CursorShape(e.c)
    BY Shaped
  <1>3. x = push_codepoint(cleared, PairedWith(high, low)) /\ u = [e.c.utf8 EXCEPT !.codepoint = 0]
        /\ cleared = [e EXCEPT !.c.utf8.codepoint = 0]
    OBVIOUS
  <1> HIDE DEF cleared, u, x
  <1>4. /\ EffectShape(cleared) /\ cleared.room = e.room /\ cleared.undo = e.undo
        /\ cleared.events = e.events /\ cleared.error = e.error /\ cleared.again = e.again
        /\ cleared.c = [e.c EXCEPT !.utf8 = u]
    BY <1>2, <1>3 DEF EffectShape
  <1>5. u = NoUtf8
    BY <1>3 DEF Utf8State, NoUtf8
  <1>6. Sound(cleared, n) /\ Restyled(e, cleared, e.c.mode, u)
    BY <1>4, Redecoding
  <1>7. Sound(x, n + 4) /\ KeepsCore(cleared, x)
    BY <1>3, <1>4, <1>6, TypingCode
  <1>8. x.c.frames = e.c.frames /\ x.c.root = e.c.root /\ x.c.utf8 = NoUtf8
        /\ x.c.byte_offset = e.c.byte_offset /\ x.again = e.again
    BY <1>4, <1>5, <1>6, <1>7 DEF KeepsCore, Restyled, SameData
  <1>9. n + 4 \in Nat /\ n + 4 <= n + 4
    OBVIOUS
  <1>10. QED
    BY <1>1, <1>7, <1>8, <1>9, BackToContent

\* The code of the low half so far.
LowSoFar(e, b, matched) == e.c.utf8.codepoint + hex[b] * 16 ^ (5 - matched)

LEMMA ReadingLowHalf ==
  ASSUME NEW e, NEW n \in Nat, Sound(e, n), n + 4 <= Room, e.error = "none", CoreFits(e.c),
         e.c.mode[1] = "WaitingLowSurrogate", NEW b, NEW high, NEW matched,
         NEW f, f = LowSurrogateByte(e, b, e.c.mode[2], high, matched)
  PROVE  Handled(e, f, n + 4)
  <1> DEFINE context == e.c.mode[2]
             low == LowSoFar(e, b, matched)
             read == [e EXCEPT !.c.utf8.codepoint = low]
             mode == WaitingLowSurrogate(context, high, matched + 1)
             u == [e.c.utf8 EXCEPT !.codepoint = low]
  <1>1. n + 4 \in Nat /\ n <= n + 4
    OBVIOUS
  <1>2. Reading(e.c, context) /\ e.c.utf8 = Utf8State(0, e.c.utf8.codepoint, 0)
    BY StringRead DEF StringModes
  <1>3. EffectShape(e) /\ CursorShape(e.c)
    BY Shaped
  <1>4. /\ read = [e EXCEPT !.c.utf8.codepoint = low]
        /\ u = [e.c.utf8 EXCEPT !.codepoint = low]
    OBVIOUS
  <1>5. mode[1] = "WaitingLowSurrogate" /\ mode[2] = context
    BY DEF WaitingLowSurrogate
  <1>6. \/ f = Goto(e, mode) \/ f = Fail(e, "Syntax")
        \/ f = Goto(read, mode) \/ f = Paired(read, high, low, context) \/ f = Fail(read, "Syntax")
    <2>1. low = e.c.utf8.codepoint + hex[b] * 16 ^ (5 - matched)
      BY DEF LowSoFar
    <2> HIDE DEF low
    <2>2. QED
      BY <2>1 DEF LowSurrogateByte
  <1> HIDE DEF context, low, read, mode, u
  <1>7. /\ EffectShape(read) /\ read.room = e.room /\ read.undo = e.undo
        /\ read.events = e.events /\ read.error = e.error /\ read.again = e.again
        /\ read.c = [e.c EXCEPT !.utf8 = u]
    BY <1>3, <1>4 DEF EffectShape
  <1>8. Sound(read, n) /\ Restyled(e, read, e.c.mode, u)
    BY <1>7, Redecoding
  <1>9. /\ read.c.frames = e.c.frames /\ read.c.root = e.c.root /\ read.c.utf8 = u
        /\ read.c.byte_offset = e.c.byte_offset /\ read.again = e.again /\ read.error = "none"
    BY <1>7, <1>8 DEF Restyled, SameData
  <1>10. u = Utf8State(0, u.codepoint, 0)
    BY <1>2, <1>4 DEF Utf8State
  <1>11. Reading(read.c, context)
    BY <1>2, <1>9, ReadingOn
  <1>12. CASE f = Goto(e, mode)
    BY <1>1, <1>2, <1>5, <1>12, EscapeOn
  <1>13. CASE f = Fail(e, "Syntax")
    BY <1>1, <1>13, HandledAnyway
  <1>14. CASE f = Goto(read, mode)
    BY <1>1, <1>2, <1>5, <1>8, <1>9, <1>10, <1>14, EscapeOn
  <1>15. CASE f = Paired(read, high, low, context)
    <2>1. Handled(read, f, n + 4)
      BY <1>8, <1>9, <1>10, <1>11, <1>15, Pairing
    <2>2. QED
      BY <1>9, <2>1 DEF Handled
  <1>16. CASE f = Fail(read, "Syntax")
    <2>1. Handled(read, f, n + 4)
      BY <1>1, <1>8, <1>16, HandledAnyway
    <2>2. QED
      BY <1>9, <2>1 DEF Handled
  <1>17. QED
    BY <1>6, <1>12, <1>13, <1>14, <1>15, <1>16

-------------------------------------------------------------------------------
(* Numbers and literals.                                                   *)

\* The byte that ends a scalar is processed once more.
LEMMA EndedBy ==
  ASSUME NEW e, NEW x, NEW n \in Nat, NEW m \in Nat, n <= m, Published(e, x, n),
         NEW f, f = IF x.error = "none" THEN Again(x) ELSE x
  PROVE  Handled(e, f, m)
  <1>1. CASE x.error # "none"
    <2>1. Sound(f, m)
      BY <1>1, SoundMore DEF Published
    <2>2. QED
      BY <1>1, <2>1 DEF Published, Handled
  <1>2. CASE x.error = "none"
    <2>1. f = [x EXCEPT !.again = TRUE]
      BY <1>2 DEF Again
    <2>2. Sound(f, n) /\ f.c = x.c /\ f.again = TRUE /\ f.error = x.error
      BY <2>1, Repeating DEF Published
    <2>3. Sound(f, m)
      BY <2>2, SoundMore
    <2>4. QED
      BY <1>2, <2>2, <2>3 DEF Published, Handled
  <1>3. QED
    BY <1>1, <1>2

LEMMA ReadingNumber ==
  ASSUME NEW e, NEW n \in Nat, Sound(e, n), n + 2 <= Room, e.error = "none", CoreFits(e.c),
         e.c.mode[1] = "InNumber", NEW b, NEW f, f = NumberByte(e, b)
  PROVE  Handled(e, f, n + 2)
  <1> DEFINE x == push_partial(e, b)
             y == seal_number(e)
             more == IF x.error = "none"
                     THEN IF number_prefix_valid(x.c.partial) THEN x ELSE Fail(x, "Syntax")
                     ELSE x
             end == IF y.error = "none" THEN Again(y) ELSE y
  <1>1. n < Room /\ n + 1 \in Nat /\ n + 2 \in Nat /\ n <= n + 2 /\ n + 1 <= n + 2 /\ n + 2 <= n + 2
    BY DEF Sound, Carried
  <1>2. f = more \/ f = end \/ f = Fail(e, "Syntax")
    BY DEF NumberByte, Then, Ok
  <1>3. Expecting(e.c)
    BY ValueExpected DEF ValueModes
  <1>4. x = push_partial(e, b) /\ y = seal_number(e)
    OBVIOUS
  <1> HIDE DEF x, y
  <1>5. CASE f = more
    <2>1. Sound(x, n + 1) /\ KeepsCore(e, x)
      BY <1>1, <1>4, Typed
    <2>2. Sound(x, n + 2)
      BY <1>1, <2>1, SoundMore
    <2>3. x.c.byte_offset = e.c.byte_offset /\ x.again = e.again
      BY <2>1 DEF KeepsCore
    <2>4. CASE f = x
      <3>1. Expecting(x.c) /\ x.c.mode = e.c.mode
        BY <1>3, <2>1 DEF KeepsCore, Expecting, Inside, Top
      <3>2. CoreFits(x.c)
        BY <3>1, ValueFits DEF ValueModes
      <3>3. QED
        BY <2>2, <2>3, <2>4, <3>2 DEF Handled
    <2>5. CASE f = Fail(x, "Syntax")
      <3>1. Handled(x, f, n + 2)
        BY <1>1, <2>1, <2>5, HandledAnyway
      <3>2. QED
        BY <2>3, <3>1 DEF Handled
    <2>6. QED
      BY <1>5, <2>4, <2>5
  <1>6. CASE f = end
    <2>1. Published(e, y, n + 2)
      BY <1>3, <1>4, SealingNumber
    <2>2. QED
      BY <1>1, <1>6, <2>1, EndedBy
  <1>7. CASE f = Fail(e, "Syntax")
    BY <1>1, <1>7, HandledAnyway
  <1> HIDE DEF more, end
  <1>8. QED
    BY <1>2, <1>5, <1>6, <1>7

LEMMA ReadingLiteral ==
  ASSUME NEW e, NEW n \in Nat, Sound(e, n), n < Room, e.error = "none", CoreFits(e.c),
         e.c.mode[1] = "InLiteral", NEW b, NEW name, NEW matched,
         NEW f, f = feed_literal(e, b, name, matched)
  PROVE  Handled(e, f, n + 1)
  <1> DEFINE y == seal_literal(e)
             mode == InLiteral(name, matched + 1)
             end == IF y.error = "none" THEN Again(y) ELSE y
  <1>1. n + 1 \in Nat /\ n <= n + 1 /\ n + 1 <= n + 1
    OBVIOUS
  <1>2. f = Goto(e, mode) \/ f = end \/ f = Fail(e, "Syntax")
    BY DEF feed_literal, Then, Ok
  <1>3. Expecting(e.c)
    BY ValueExpected DEF ValueModes
  <1>4. y = seal_literal(e) /\ mode[1] = "InLiteral"
    BY DEF InLiteral
  <1> HIDE DEF y, mode
  <1>5. CASE f = Goto(e, mode)
    <2>1. Sound(f, n) /\ Restyled(e, f, mode, e.c.utf8)
      BY <1>5, Going
    <2>2. Sound(f, n + 1)
      BY <1>1, <2>1, SoundMore
    <2>3. Expecting(f.c) /\ f.c.mode = mode
      BY <1>3, <2>1 DEF Restyled, SameData, Expecting, Inside, Top
    <2>4. CoreFits(f.c)
      BY <1>4, <2>3, ValueFits DEF ValueModes
    <2>5. QED
      BY <2>1, <2>2, <2>4 DEF Handled, Restyled
  <1>6. CASE f = end
    <2>1. Published(e, y, n + 1)
      BY <1>3, <1>4, SealingLiteral
    <2>2. QED
      BY <1>1, <1>6, <2>1, EndedBy
  <1>7. CASE f = Fail(e, "Syntax")
    BY <1>1, <1>7, HandledAnyway
  <1> HIDE DEF end
  <1>8. QED
    BY <1>2, <1>5, <1>6, <1>7

-------------------------------------------------------------------------------
(* The start of a value.                                                   *)

\* On to a mode in which a value is still to come.
LEMMA StillExpecting ==
  ASSUME NEW e, Expecting(e.c), NEW x, NEW n \in Nat, NEW m \in Nat, n <= m, Sound(x, n),
         KeepsCore(e, x), NEW mode, mode[1] \in ValueModes, mode[1] # "ExpectArrayValueOrEnd",
         NEW f, f = IF x.error = "none" THEN Goto(x, mode) ELSE x
  PROVE  Handled(e, f, m)
  <1>1. CASE x.error # "none"
    <2>1. Sound(f, m)
      BY <1>1, SoundMore
    <2>2. QED
      BY <1>1, <2>1 DEF Handled, KeepsCore
  <1>2. CASE x.error = "none"
    <2>1. Sound(f, n) /\ Restyled(x, f, mode, x.c.utf8)
      BY <1>2, Going
    <2>2. Sound(f, m)
      BY <2>1, SoundMore
    <2>3. /\ f.c.mode = mode /\ f.c.utf8 = e.c.utf8 /\ f.c.frames = e.c.frames
          /\ f.c.root = e.c.root /\ f.c.byte_offset = e.c.byte_offset /\ f.again = e.again
      BY <2>1 DEF Restyled, SameData, KeepsCore
    <2>4. Expecting(f.c)
      BY <2>3 DEF Expecting, Inside, Top
    <2>5. CoreFits(f.c)
      BY <2>3, <2>4, ValueFits
    <2>6. QED
      BY <2>2, <2>3, <2>5 DEF Handled
  <1>3. QED
    BY <1>1, <1>2

NumberBegun(e, b, f) ==
  LET t == TakePartial(e)
      p == push_partial(t, b)
  IN  t.error = "none" => f = IF p.error = "none" THEN Goto(p, Mode("InNumber")) ELSE p

LEMMA StartingNumber ==
  ASSUME NEW e, NEW n \in Nat, Sound(e, n), n + 2 <= Room, e.error = "none", Expecting(e.c), NEW b,
         NEW f, NumberBegun(e, b, f)
  PROVE  Handled(e, f, n + 2)
  <1> DEFINE t == TakePartial(e)
             p == push_partial(t, b)
  <1>1. n < Room /\ n + 1 < Room /\ n + 1 \in Nat /\ (n + 1) + 1 = n + 2 /\ n + 2 \in Nat /\ n + 2 <= n + 2
    BY DEF Sound, Carried
  <1>2. t = TakePartial(e) /\ p = push_partial(t, b)
    OBVIOUS
  <1>3. t.error = "none" => f = IF p.error = "none" THEN Goto(p, Mode("InNumber")) ELSE p
    BY DEF NumberBegun
  <1> HIDE DEF t, p
  <1>4. Sound(t, n + 1) /\ KeepsCore(e, t) /\ t.error = "none"
    BY <1>1, <1>2, TakingPartial
  <1>5. Sound(p, n + 2) /\ KeepsCore(t, p)
    BY <1>1, <1>2, <1>4, Typed
  <1>6. KeepsCore(e, p)
    BY <1>4, <1>5 DEF KeepsCore
  <1>7. Mode("InNumber")[1] = "InNumber"
    BY DEF Mode
  <1>8. QED
    BY <1>1, <1>3, <1>4, <1>5, <1>6, <1>7, StillExpecting DEF ValueModes

LEMMA StartingString ==
  ASSUME NEW e, NEW n \in Nat, Sound(e, n), n < Room, e.error = "none", NEW context,
         Reading(e.c, context), NEW f, f = begin_string(e, context)
  PROVE  Handled(e, f, n + 1)
  <1>1. /\ Sound(f, n + 1) /\ f.error = "none" /\ f.c.mode = InString(context)
        /\ f.c.utf8 = NoUtf8 /\ f.c.frames = e.c.frames /\ f.c.root = e.c.root
        /\ f.c.byte_offset = e.c.byte_offset /\ f.again = e.again
    BY BeginningString
  <1>2. Reading(f.c, context)
    BY <1>1, ReadingOn
  <1>3. CoreFits(f.c)
    BY <1>1, <1>2, ContentFits
  <1>4. QED
    BY <1>1, <1>3 DEF Handled

LEMMA HandledMore ==
  ASSUME NEW e, NEW f, NEW n \in Nat, Handled(e, f, n), NEW m \in Nat, n <= m
  PROVE  Handled(e, f, m)
  BY SoundMore DEF Handled

LEMMA Starting ==
  ASSUME NEW e, NEW n \in Nat, Sound(e, n), n + 2 <= Room, e.error = "none", Expecting(e.c), NEW b,
         NEW f, f = start_value(e, b)
  PROVE  Handled(e, f, n + 2)
  <1>1. /\ n < Room /\ n + 1 \in Nat /\ n + 1 <= n + 2 /\ n + 2 \in Nat /\ n <= n + 2
    BY DEF Sound, Carried
  <1>2. \/ f = open_array(e)
        \/ f = open_object(e)
        \/ f = begin_string(e, "Value")
        \/ NumberBegun(e, b, f)
        \/ \E l : f = Goto(e, InLiteral(l, 1))
        \/ f = Fail(e, "Syntax")
    <2> DEFINE word == \E l \in DOMAIN Literals : Literals[l][1] = b
               l == CHOOSE l \in DOMAIN Literals : Literals[l][1] = b
               literal == Goto(e, InLiteral(l, 1))
               number == Then(Then(TakePartial(e), LAMBDA x : push_partial(x, b)), LAMBDA x :
                              Goto(x, Mode("InNumber")))
    <2>1. f = CASE b = "[" -> open_array(e)
                [] b = "{" -> open_object(e)
                [] b = Quote -> begin_string(e, "Value")
                [] b \in Digits \union {"-"} -> number
                [] word -> literal
                [] OTHER -> Fail(e, "Syntax")
      BY DEF start_value
    <2>2. f = number => NumberBegun(e, b, f)
      BY DEF NumberBegun, Then, Ok
    <2>3. f = literal => \E k : f = Goto(e, InLiteral(k, 1))
      OBVIOUS
    <2> HIDE DEF word, literal, number
    <2>4. QED
      BY <2>1, <2>2, <2>3
  <1>3. CASE f = open_array(e)
    BY <1>3, OpeningArray
  <1>4. CASE f = open_object(e)
    <2>1. Handled(e, f, n + 1)
      BY <1>1, <1>4, OpeningObject
    <2>2. QED
      BY <1>1, <2>1, HandledMore
  <1>5. CASE f = begin_string(e, "Value")
    <2>1. Reading(e.c, "Value")
      BY DEF Expecting, Reading
    <2>2. Handled(e, f, n + 1)
      BY <1>1, <1>5, <2>1, StartingString
    <2>3. QED
      BY <1>1, <2>2, HandledMore
  <1>6. CASE NumberBegun(e, b, f)
    BY <1>6, StartingNumber
  <1>7. ASSUME NEW l, f = Goto(e, InLiteral(l, 1))
        PROVE  Handled(e, f, n + 2)
    <2>1. KeepsCore(e, e) /\ f = IF e.error = "none" THEN Goto(e, InLiteral(l, 1)) ELSE e
      BY <1>7 DEF KeepsCore
    <2>2. InLiteral(l, 1)[1] = "InLiteral"
      BY DEF InLiteral
    <2>3. QED
      BY <1>1, <2>1, <2>2, StillExpecting DEF ValueModes
  <1>8. CASE f = Fail(e, "Syntax")
    BY <1>1, <1>8, HandledAnyway
  <1>9. QED
    BY <1>2, <1>3, <1>4, <1>5, <1>6, <1>7, <1>8

-------------------------------------------------------------------------------
(* One pass over a byte.                                                   *)

Unfinished(c) == c.mode[1] \notin StringModes \union {"CompleteRoot"}

\* Before the end of the document, outside a string: there is no root, and nothing of a
\* character is kept.
LEMMA StillOpen ==
  ASSUME NEW c, CoreFits(c), Unfinished(c)
  PROVE  /\ c.root = NoRoot /\ c.utf8 = NoUtf8
         /\ ~KeyDue(c.mode) => Expecting(c)
  <1>1. Mode("CompleteRoot")[1] = "CompleteRoot"
    BY DEF Mode
  <1>2. c.mode # Mode("CompleteRoot")
    BY <1>1 DEF Unfinished
  <1>3. QED
    BY <1>2 DEF CoreFits, ModeFits, Utf8Fits, Unfinished, StringModes, Expecting

LEMMA NothingDone ==
  ASSUME NEW e, NEW n \in Nat, Sound(e, n), CoreFits(e.c), NEW m \in Nat, n <= m
  PROVE  Handled(e, e, m)
  <1>1. Sound(e, m)
    BY SoundMore
  <1>2. QED
    BY <1>1 DEF Handled

\* On to a value, from an expected colon or comma.
LEMMA ToValue ==
  ASSUME NEW e, NEW n \in Nat, Sound(e, n), e.error = "none", CoreFits(e.c),
         e.c.mode[1] \in {"ExpectColon", "ExpectArrayCommaOrEnd"}, NEW m \in Nat, n <= m,
         NEW f, f = Goto(e, Mode("ExpectValue"))
  PROVE  Handled(e, f, m)
  <1>1. Unfinished(e.c) /\ ~KeyDue(e.c.mode)
    BY DEF Unfinished, KeyDue, StringModes
  <1>2. Expecting(e.c)
    BY <1>1, StillOpen
  <1>3. Mode("ExpectValue")[1] = "ExpectValue"
    BY DEF Mode
  <1>4. KeepsCore(e, e) /\ f = IF e.error = "none" THEN Goto(e, Mode("ExpectValue")) ELSE e
    BY DEF KeepsCore
  <1>5. QED
    BY <1>2, <1>3, <1>4, StillExpecting DEF ValueModes

\* On to the key after a comma.
LEMMA ToKey ==
  ASSUME NEW e, NEW n \in Nat, Sound(e, n), CoreFits(e.c),
         e.c.mode[1] = "ExpectObjectCommaOrEnd", NEW m \in Nat, n <= m,
         NEW f, f = Goto(e, Mode("ExpectObjectKeyOrEnd"))
  PROVE  Handled(e, f, m)
  <1>1. Unfinished(e.c) /\ KeyDue(e.c.mode)
    BY DEF Unfinished, KeyDue, StringModes
  <1>2. /\ e.c.root = NoRoot /\ e.c.utf8 = NoUtf8
        /\ Inside(e.c, "object") /\ Top(e.c).current_key = {}
    BY <1>1, StillOpen DEF CoreFits, ModeFits
  <1>3. Sound(f, n) /\ Restyled(e, f, Mode("ExpectObjectKeyOrEnd"), e.c.utf8)
    BY Going
  <1>4. Sound(f, m)
    BY <1>3, SoundMore
  <1>5. /\ f.c.mode[1] = "ExpectObjectKeyOrEnd" /\ f.c.root = NoRoot /\ f.c.utf8 = NoUtf8
        /\ Inside(f.c, "object") /\ Top(f.c).current_key = {}
    BY <1>2, <1>3 DEF Restyled, SameData, Mode, Inside, Top
  <1>6. KeyDue(f.c.mode)
    BY <1>5 DEF KeyDue
  <1>7. CoreFits(f.c)
    BY <1>5, <1>6 DEF CoreFits, ModeFits, Utf8Fits
  <1>8. QED
    BY <1>3, <1>4, <1>7 DEF Handled, Restyled

LEMMA EndOfArray ==
  ASSUME NEW e, NEW n \in Nat, Sound(e, n), n + 3 <= Room, e.error = "none", CoreFits(e.c),
         e.c.mode[1] \in {"ExpectArrayValueOrEnd", "ExpectArrayCommaOrEnd"},
         NEW f, f = close_array(e)
  PROVE  Handled(e, f, n + 3)
  <1>1. Unfinished(e.c)
    BY DEF Unfinished, StringModes
  <1>2. e.c.root = NoRoot /\ e.c.utf8 = NoUtf8
    BY <1>1, StillOpen
  <1>3. QED
    BY <1>2, ClosingArray, PublishedHandled

LEMMA EndOfObject ==
  ASSUME NEW e, NEW n \in Nat, Sound(e, n), n + 3 <= Room, e.error = "none", CoreFits(e.c),
         e.c.mode[1] \in {"ExpectObjectKeyOrEnd", "ExpectObjectCommaOrEnd"},
         NEW f, f = close_object(e)
  PROVE  Handled(e, f, n + 3)
  <1>1. Unfinished(e.c) /\ KeyDue(e.c.mode)
    BY DEF Unfinished, StringModes, KeyDue
  <1>2. e.c.root = NoRoot /\ e.c.utf8 = NoUtf8 /\ Top(e.c).current_key = {}
    BY <1>1, StillOpen DEF CoreFits, ModeFits
  <1>3. QED
    BY <1>2, ClosingObject, PublishedHandled

LEMMA StartOfKey ==
  ASSUME NEW e, NEW n \in Nat, Sound(e, n), n < Room, e.error = "none", CoreFits(e.c),
         e.c.mode[1] = "ExpectObjectKeyOrEnd", NEW f, f = begin_string(e, "Key")
  PROVE  Handled(e, f, n + 1)
  <1>1. Unfinished(e.c) /\ KeyDue(e.c.mode)
    BY DEF Unfinished, StringModes, KeyDue
  <1>2. Reading(e.c, "Key")
    BY <1>1, StillOpen DEF CoreFits, ModeFits, Reading
  <1>3. QED
    BY <1>2, StartingString

LEMMA Dispatching ==
  ASSUME NEW e, NEW n \in Nat, Sound(e, n), n + 4 <= Room, e.error = "none", CoreFits(e.c),
         NEW b, NEW f, f = Dispatch(e, b)
  PROVE  Handled(e, f, n + 4) \/ (Stranded(f) /\ Repeats(e.c, b))
  <1> DEFINE m == e.c.mode
  <1>1. /\ n + 1 \in Nat /\ n + 2 \in Nat /\ n + 3 \in Nat /\ n + 4 \in Nat
        /\ n <= n + 4 /\ n + 1 <= n + 4 /\ n + 2 <= n + 4 /\ n + 3 <= n + 4
    OBVIOUS
  <1>2. n < Room /\ n + 2 <= Room /\ n + 3 <= Room
    BY DEF Sound, Carried
  <1>3. \/ f = e
        \/ m[1] \in {"ExpectArrayValueOrEnd", "ExpectArrayCommaOrEnd"} /\ f = close_array(e)
        \/ m[1] \in {"ExpectValue", "ExpectArrayValueOrEnd"} /\ f = start_value(e, b)
        \/ m[1] \in {"ExpectObjectKeyOrEnd", "ExpectObjectCommaOrEnd"} /\ f = close_object(e)
        \/ m[1] = "ExpectObjectKeyOrEnd" /\ f = begin_string(e, "Key")
        \/ /\ m[1] \in {"ExpectColon", "ExpectArrayCommaOrEnd"}
           /\ f = Goto(e, Mode("ExpectValue"))
        \/ m[1] = "ExpectObjectCommaOrEnd" /\ f = Goto(e, Mode("ExpectObjectKeyOrEnd"))
        \/ m[1] = "InString" /\ f = StringByte(e, b, m[2])
        \/ m[1] = "AfterBackslash" /\ f = EscapeByte(e, b, m[2])
        \/ m[1] = "InUnicodeEscape" /\ f = UnicodeDigit(e, b, m[2], m[3], m[4])
        \/ m[1] = "WaitingLowSurrogate" /\ f = LowSurrogateByte(e, b, m[2], m[3], m[4])
        \/ m[1] = "InNumber" /\ f = NumberByte(e, b)
        \/ m[1] = "InLiteral" /\ f = feed_literal(e, b, m[2], m[3])
        \/ f = Fail(e, "Syntax")
    <2> HIDE DEF m
    <2>1. f = LET name == m[1]
              IN  CASE name \in SkipsWhitespace /\ b \in Whitespace -> e
                    [] name = "ExpectArrayValueOrEnd" /\ b = "]" -> close_array(e)
                    [] name \in {"ExpectValue", "ExpectArrayValueOrEnd"} -> start_value(e, b)
                    [] name = "ExpectObjectKeyOrEnd" /\ b = "}" -> close_object(e)
                    [] name = "ExpectObjectKeyOrEnd" /\ b = Quote -> begin_string(e, "Key")
                    [] name = "ExpectColon" /\ b = ":" -> Goto(e, Mode("ExpectValue"))
                    [] name = "ExpectArrayCommaOrEnd" /\ b = "," -> Goto(e, Mode("ExpectValue"))
                    [] name = "ExpectArrayCommaOrEnd" /\ b = "]" -> close_array(e)
                    [] name = "ExpectObjectCommaOrEnd" /\ b = "," ->
                          Goto(e, Mode("ExpectObjectKeyOrEnd"))
                    [] name = "ExpectObjectCommaOrEnd" /\ b = "}" -> close_object(e)
                    [] name = "CompleteRoot" /\ b \in Whitespace -> e
                    [] name = "InString" -> StringByte(e, b, m[2])
                    [] name = "AfterBackslash" -> EscapeByte(e, b, m[2])
                    [] name = "InUnicodeEscape" -> UnicodeDigit(e, b, m[2], m[3], m[4])
                    [] name = "WaitingLowSurrogate" -> LowSurrogateByte(e, b, m[2], m[3], m[4])
                    [] name = "InNumber" -> NumberByte(e, b)
                    [] name = "InLiteral" -> feed_literal(e, b, m[2], m[3])
                    [] OTHER -> Fail(e, "Syntax")
      BY DEF Dispatch, m, AfterArrayComma
    <2>2. QED
      BY <2>1, ZenonT(30)
  <1>4. CASE f = e
    BY <1>1, <1>4, NothingDone
  <1>5. CASE m[1] \in {"ExpectArrayValueOrEnd", "ExpectArrayCommaOrEnd"} /\ f = close_array(e)
    <2>1. Handled(e, f, n + 3)
      BY <1>2, <1>5, EndOfArray
    <2>2. QED
      BY <1>1, <2>1, HandledMore
  <1>6. CASE m[1] \in {"ExpectValue", "ExpectArrayValueOrEnd"} /\ f = start_value(e, b)
    <2>1. Expecting(e.c)
      BY <1>6, ValueExpected DEF ValueModes
    <2>2. Handled(e, f, n + 2)
      BY <1>2, <1>6, <2>1, Starting
    <2>3. QED
      BY <1>1, <2>2, HandledMore
  <1>7. CASE m[1] \in {"ExpectObjectKeyOrEnd", "ExpectObjectCommaOrEnd"} /\ f = close_object(e)
    <2>1. Handled(e, f, n + 3)
      BY <1>2, <1>7, EndOfObject
    <2>2. QED
      BY <1>1, <2>1, HandledMore
  <1>8. CASE m[1] = "ExpectObjectKeyOrEnd" /\ f = begin_string(e, "Key")
    <2>1. Handled(e, f, n + 1)
      BY <1>2, <1>8, StartOfKey
    <2>2. QED
      BY <1>1, <2>1, HandledMore
  <1>9. CASE /\ m[1] \in {"ExpectColon", "ExpectArrayCommaOrEnd"}
             /\ f = Goto(e, Mode("ExpectValue"))
    BY <1>1, <1>9, ToValue
  <1>10. CASE m[1] = "ExpectObjectCommaOrEnd" /\ f = Goto(e, Mode("ExpectObjectKeyOrEnd"))
    BY <1>1, <1>10, ToKey
  <1>11. CASE m[1] = "InString" /\ f = StringByte(e, b, m[2])
    <2>1. e.c.mode = InString(m[2])
      BY <1>11 DEF CoreFits, ModeFits
    <2>2. Handled(e, f, n + 2) \/ (Stranded(f) /\ Repeats(e.c, b))
      BY <1>2, <1>11, <2>1, ReadingByte
    <2>3. QED
      BY <1>1, <2>2, HandledMore
  <1>12. CASE m[1] = "AfterBackslash" /\ f = EscapeByte(e, b, m[2])
    <2>1. Handled(e, f, n + 1)
      BY <1>2, <1>12, Escaping
    <2>2. QED
      BY <1>1, <2>1, HandledMore
  <1>13. CASE m[1] = "InUnicodeEscape" /\ f = UnicodeDigit(e, b, m[2], m[3], m[4])
    BY <1>13, EscapingByCode
  <1>14. CASE m[1] = "WaitingLowSurrogate" /\ f = LowSurrogateByte(e, b, m[2], m[3], m[4])
    BY <1>14, ReadingLowHalf
  <1>15. CASE m[1] = "InNumber" /\ f = NumberByte(e, b)
    <2>1. Handled(e, f, n + 2)
      BY <1>2, <1>15, ReadingNumber
    <2>2. QED
      BY <1>1, <2>1, HandledMore
  <1>16. CASE m[1] = "InLiteral" /\ f = feed_literal(e, b, m[2], m[3])
    <2>1. Handled(e, f, n + 1)
      BY <1>2, <1>16, ReadingLiteral
    <2>2. QED
      BY <1>1, <2>1, HandledMore
  <1>17. CASE f = Fail(e, "Syntax")
    BY <1>1, <1>17, HandledAnyway
  <1> HIDE DEF m
  <1>18. QED
    BY <1>3, <1>4, <1>5, <1>6, <1>7, <1>8, <1>9, <1>10, <1>11, <1>12, <1>13, <1>14,
       <1>15, <1>16, <1>17

-------------------------------------------------------------------------------
(* A byte, passed over once or twice.                                      *)

Passed(e, f, n) ==
  /\ Sound(f, n) /\ f.c.byte_offset = e.c.byte_offset
  /\ f.again = FALSE \/ f.c.mode[1] \in AfterValue
  /\ f.error = "none" => CoreFits(f.c)

LEMMA Passing ==
  ASSUME NEW e, NEW n \in Nat, Sound(e, n), n + 4 <= Room, e.error = "none", CoreFits(e.c),
         NEW b, NEW f, f = Pass(e, b)
  PROVE  Passed(e, f, n + 4) \/ (Stranded(f) /\ Repeats(e.c, b))
  <1> DEFINE d == [e EXCEPT !.again = FALSE]
             x == Dispatch(d, b)
  <1>1. d = [e EXCEPT !.again = FALSE] /\ x = Dispatch(d, b)
    OBVIOUS
  <1>2. f = x \/ (x.error = "none" /\ f = Fail(x, "EventLimit"))
    BY DEF Pass, Then, Ok, CheckEvents
  <1> HIDE DEF d, x
  <1>3. Sound(d, n) /\ d.c = e.c /\ d.again = FALSE /\ d.error = e.error
    BY <1>1, Repeating
  <1>4. Handled(d, x, n + 4) \/ (Stranded(x) /\ Repeats(d.c, b))
    BY <1>1, <1>3, Dispatching
  <1>5. CASE Stranded(x) /\ Repeats(d.c, b)
    <2>1. x.error # "none"
      BY <1>5 DEF Stranded
    <2>2. QED
      BY <1>2, <1>3, <1>5, <2>1
  <1>6. CASE Handled(d, x, n + 4)
    <2>1. Passed(e, x, n + 4)
      BY <1>3, <1>6 DEF Handled, Passed
    <2>2. CASE f = Fail(x, "EventLimit")
      <3>1. Sound(x, n + 4)
        BY <2>1 DEF Passed
      <3>2. Sound(f, n + 4) /\ f.error = "EventLimit" /\ f.c = x.c /\ f.again = x.again
        BY <2>2, <3>1, Failing
      <3>3. QED
        BY <2>1, <3>2 DEF Passed
    <2>3. QED
      BY <1>2, <2>1, <2>2
  <1>7. QED
    BY <1>4, <1>5, <1>6

\* What a byte leads to, when the call has room.
Fed(e, b, f) ==
  \/ /\ \E n \in Nat : Sound(f, n)
     /\ f.c.byte_offset = e.c.byte_offset
     /\ f.error = "none" => CoreFits(f.c)
  \/ Stranded(f) /\ Repeats(e.c, b)

LEMMA Processing ==
  ASSUME NEW e, Sound(e, 1), 9 <= Room, e.error = "none", CoreFits(e.c), NEW b,
         NEW f, f = Process(e, b)
  PROVE  Fed(e, b, f)
  <1> DEFINE x == Pass(e, b)
             y == Pass(x, b)
  <1>1. x = Pass(e, b) /\ y = Pass(x, b)
    OBVIOUS
  <1>2. f = x \/ (x.error = "none" /\ x.again # FALSE /\ f = y)
    BY DEF Process, Then, Ok
  <1> HIDE DEF x, y
  <1>3. 1 + 4 <= Room /\ 1 + 4 = 5 /\ 5 + 4 <= Room /\ 5 + 4 = 9
    BY DEF Sound, Carried
  <1>4. Passed(e, x, 5) \/ (Stranded(x) /\ Repeats(e.c, b))
    BY <1>1, <1>3, Passing
  <1>5. CASE f = x
    BY <1>4, <1>5 DEF Passed, Fed
  <1>6. CASE x.error = "none" /\ x.again # FALSE /\ f = y
    <2>1. Passed(e, x, 5) /\ x.c.mode[1] \in AfterValue
      BY <1>4, <1>6 DEF Stranded, Passed
    <2>2. ~Repeats(x.c, b)
      BY <2>1 DEF Repeats, AfterValue, InString
    <2>3. Sound(x, 5) /\ CoreFits(x.c)
      BY <1>6, <2>1 DEF Passed
    <2>4. Passed(x, y, 9)
      BY <1>1, <1>3, <1>6, <2>2, <2>3, Passing
    <2>5. QED
      BY <1>6, <2>1, <2>4 DEF Passed, Fed
  <1>7. QED
    BY <1>2, <1>5, <1>6

-------------------------------------------------------------------------------
(* The end of the document.                                                *)

LEMMA SealingAtEos ==
  ASSUME NEW e, NEW n \in Nat, Sound(e, n), n + 2 <= Room, e.error = "none", CoreFits(e.c),
         NEW f, f = SealAtEos(e)
  PROVE  /\ Sound(f, n + 2) /\ f.c.byte_offset = e.c.byte_offset
         /\ f.error = "none" => CoreFits(f.c)
  <1> DEFINE m == e.c.mode
  <1>1. n < Room /\ n + 1 \in Nat /\ n + 2 \in Nat /\ n <= n + 2 /\ n + 1 <= n + 2
    BY DEF Sound, Carried
  <1>2. \/ m[1] = "InNumber" /\ f = seal_number(e)
        \/ m[1] = "InLiteral" /\ f = seal_literal(e)
        \/ f = e
        \/ f = Fail(e, "IncompleteDocument")
    BY DEF SealAtEos
  <1>3. CASE m[1] = "InNumber" /\ f = seal_number(e)
    <2>1. Expecting(e.c)
      BY <1>3, ValueExpected DEF ValueModes
    <2>2. Published(e, f, n + 2)
      BY <1>3, <2>1, SealingNumber
    <2>3. QED
      BY <2>2 DEF Published
  <1>4. CASE m[1] = "InLiteral" /\ f = seal_literal(e)
    <2>1. Expecting(e.c)
      BY <1>4, ValueExpected DEF ValueModes
    <2>2. Published(e, f, n + 1)
      BY <1>1, <1>4, <2>1, SealingLiteral
    <2>3. QED
      BY <1>1, <2>2, SoundMore DEF Published
  <1>5. CASE f = e
    BY <1>1, <1>5, SoundMore
  <1>6. CASE f = Fail(e, "IncompleteDocument")
    <2>1. Handled(e, f, n + 2)
      BY <1>1, <1>6, HandledAnyway
    <2>2. QED
      BY <2>1 DEF Handled
  <1>7. QED
    BY <1>2, <1>3, <1>4, <1>5, <1>6

LEMMA Terminating ==
  ASSUME NEW e, NEW n, Sound(e, n), e.error = "none", CoreFits(e.c),
         NEW f, f = Terminate(e)
  PROVE  /\ Sound(f, n) /\ f.c.byte_offset = e.c.byte_offset
         /\ f.error = "none" => CoreFits(f.c)
  <1>1. CASE f = Fail(e, "IncompleteDocument")
    <2>1. Sound(f, n) /\ f.error = "IncompleteDocument" /\ f.c = e.c
      BY <1>1, Failing
    <2>2. QED
      BY <2>1
  <1>2. CASE f = [e EXCEPT !.c.terminated = TRUE]
    <2>1. EffectShape(e) /\ CursorShape(e.c)
      BY Shaped
    <2>2. /\ EffectShape(f) /\ f.room = e.room /\ f.undo = e.undo
          /\ f.events = e.events /\ f.error = e.error
      BY <1>2, <2>1 DEF EffectShape
    <2> DEFINE d == f.c
    <2>a. d = [e.c EXCEPT !.terminated = TRUE]
      BY <1>2, <2>1 DEF EffectShape
    <2> HIDE DEF d
    <2>b. /\ CursorShape(d) /\ SameData(e.c, d) /\ d.mode = e.c.mode
          /\ d.utf8 = e.c.utf8 /\ d.byte_offset = e.c.byte_offset
      BY <2>1, <2>a DEF CursorShape, SameData
    <2>3. /\ CursorShape(f.c) /\ SameData(e.c, f.c) /\ f.c.mode = e.c.mode
          /\ f.c.utf8 = e.c.utf8 /\ f.c.byte_offset = e.c.byte_offset
      BY <2>b DEF d
    <2>4. Sound(f, n)
      BY <2>2, <2>3, CoreChanged
    <2>5. CoreFits(f.c)
      BY <2>3 DEF CoreFits, ModeFits, Utf8Fits, SameData, Inside, Top
    <2>6. QED
      BY <2>3, <2>4, <2>5
  <1>3. QED
    BY <1>1, <1>2 DEF Terminate

-------------------------------------------------------------------------------
(* The beginning of a call.                                                *)

LEMMA Resting ==
  ASSUME StateFits, error = "none", NEW e, e = Effect(cursor, Room)
  PROVE  /\ Carried(e) /\ e.c = cursor /\ e.undo = <<>> /\ e.error = "none" /\ e.events = <<>>
         /\ CoreFits(cursor) /\ e.room = Room /\ EffectShape(e)
  <1>1. /\ e.c = cursor /\ e.undo = <<>> /\ e.error = "none" /\ e.events = <<>> /\ e.room = Room
        /\ EffectShape(e)
    BY DEF Effect, EffectShape
  <1>2. Fit(cursor) /\ Tells(log, cursor) /\ RootTold(log, cursor) /\ CoreFits(cursor)
    BY DEF StateFits, Settled
  <1>3. IsSeq(log) /\ log \o <<>> = log
    BY <1>2, IsSeqConcat, IsSeqEmpty DEF Tells
  <1>4. IsArena(cursor.arena) /\ Grown(cursor.arena, cursor.arena)
    BY <1>2, GrownReflexive DEF Fit, Whole
  <1>5. QED
    BY <1>1, <1>2, <1>3, <1>4, RoomIsNumber, IsSeqEmpty DEF Carried

\* A cursor with another arena is what the one cursor and itself are joined to.
LEMMA JoinedAlone ==
  ASSUME NEW c, CursorShape(c), NEW a, NEW d, d = [c EXCEPT !.arena = a]
  PROVE  /\ Join(c, d) = d /\ d.arena = a
         /\ d.mode = c.mode /\ d.root = c.root /\ d.utf8 = c.utf8
         /\ d.terminated = c.terminated /\ d.byte_offset = c.byte_offset
  BY DEF Join, CursorShape

LEMMA RestoringCore ==
  ASSUME NEW c, CursorShape(c), NEW r, r = RestoreCore(c), NEW x
  PROVE  TakenBack(Append(<<>>, r), {Join(c, x)}) = {[c EXCEPT !.arena = x.arena]}
  <1> DEFINE new == Join(c, x)
             old == [c EXCEPT !.arena = x.arena]
             w == [new EXCEPT !.mode = r.mode, !.root = r.root, !.utf8 = r.utf8,
                              !.terminated = r.terminated, !.byte_offset = r.byte_offset]
  <1>1. /\ r.op = "RestoreCore" /\ r.mode = c.mode /\ r.root = c.root /\ r.utf8 = c.utf8
        /\ r.terminated = c.terminated /\ r.byte_offset = c.byte_offset
    BY DEF RestoreCore
  <1>2. /\ CursorShape(new) /\ new.frames = c.frames /\ new.pool = c.pool
        /\ new.arena = x.arena /\ new.partial = c.partial
    BY DEF Join, CursorShape
  <1>3. /\ old = [c EXCEPT !.arena = x.arena]
        /\ w = [new EXCEPT !.mode = r.mode, !.root = r.root, !.utf8 = r.utf8,
                           !.terminated = r.terminated, !.byte_offset = r.byte_offset]
    OBVIOUS
  <1> HIDE DEF new, old, w
  <1>4. Undoable(new, r) /\ Undone(new, r) = w
    BY <1>1, <1>3 DEF Undoable, Undone
  <1>5. /\ CursorShape(old) /\ old.mode = c.mode /\ old.frames = c.frames /\ old.pool = c.pool
        /\ old.root = c.root /\ old.arena = x.arena /\ old.partial = c.partial
        /\ old.utf8 = c.utf8 /\ old.terminated = c.terminated /\ old.byte_offset = c.byte_offset
    BY <1>3 DEF CursorShape
  <1>6. /\ CursorShape(w) /\ w.mode = c.mode /\ w.frames = c.frames /\ w.pool = c.pool
        /\ w.root = c.root /\ w.arena = x.arena /\ w.partial = c.partial
        /\ w.utf8 = c.utf8 /\ w.terminated = c.terminated /\ w.byte_offset = c.byte_offset
    BY <1>1, <1>2, <1>3 DEF CursorShape
  <1>7. w = old
    BY <1>5, <1>6 DEF CursorShape
  <1>8. Applied(r, {new}) = {old}
    BY <1>4, <1>7 DEF Applied
  <1>9. TakenBack(Append(<<>>, r), {new}) = TakenBack(<<>>, Applied(r, {new}))
    <2> DEFINE nothing == <<>>
    <2>1. IsSeq(nothing)
      BY IsSeqEmpty
    <2> HIDE DEF nothing
    <2>2. TakenBack(Append(nothing, r), {new}) = TakenBack(nothing, Applied(r, {new}))
      BY <2>1, UndoAppend
    <2>3. QED
      BY <2>2 DEF nothing
  <1>10. QED
    BY <1>8, <1>9, UndoNone DEF new, old

LEMMA Beginning ==
  ASSUME StateFits, error = "none", 8 <= Room, NEW e, e = Begin
  PROVE  Sound(e, 1) /\ e.c = cursor /\ e.error = "none" /\ CoreFits(e.c)
  <1> DEFINE g == Effect(cursor, Room)
             r == RestoreCore(cursor)
  <1>1. g = Effect(cursor, Room) /\ r = RestoreCore(cursor) /\ e = Push(g, r)
    BY DEF Begin
  <1> HIDE DEF g, r
  <1>2. /\ Carried(g) /\ g.c = cursor /\ g.undo = <<>> /\ g.error = "none" /\ g.events = <<>>
        /\ CoreFits(cursor) /\ g.room = Room /\ EffectShape(g)
    BY <1>1, Resting
  <1>3. ~(Len(g.undo) >= g.room)
    BY <1>2, IsSeqEmpty, RoomIsNumber
  <1>4. e = [g EXCEPT !.undo = Append(@, r)]
    BY <1>1, <1>3 DEF Push
  <1>5. /\ EffectShape(e) /\ e.c = cursor /\ e.undo = Append(<<>>, r) /\ e.error = "none"
        /\ e.events = g.events /\ e.room = Room
    BY <1>2, <1>4 DEF EffectShape
  <1>6. IsSeq(e.undo) /\ Len(e.undo) = 1
    <2> DEFINE nothing == <<>>
    <2>1. e.undo = Append(nothing, r) /\ IsSeq(nothing) /\ Len(nothing) = 0
      BY <1>5, IsSeqEmpty
    <2> HIDE DEF nothing
    <2>2. /\ IsSeq(Append(nothing, r)) /\ Len(Append(nothing, r)) = Len(nothing) + 1
      BY <2>1, IsSeqAppend
    <2>3. QED
      BY <2>1, <2>2
  <1>7. Carried(e)
    BY <1>2, <1>5, <1>6 DEF Carried
  <1>8. LeadsBack(e.undo, e.c)
    <2>1. CursorShape(cursor)
      BY DEF StateFits, Fit
    <2>2. \A x : TakenBack(Append(<<>>, r), {Join(cursor, x)}) = {[cursor EXCEPT !.arena = x.arena]}
      BY <1>1, <2>1, RestoringCore
    <2>3. QED
      BY <1>5, <2>2 DEF LeadsBack
  <1>9. QED
    BY <1>2, <1>5, <1>6, <1>7, <1>8 DEF Sound

-------------------------------------------------------------------------------
(* The two calls.                                                          *)

\* The records lead from the one cursor to the other, whatever the arena; or nowhere.
LeadsTo(records, c, saved) ==
  \A a : TakenBack(records, {[c EXCEPT !.arena = a]}) = {[saved EXCEPT !.arena = a]}

LeadsNowhere(records, c) ==
  \A a : TakenBack(records, {[c EXCEPT !.arena = a]}) = {}

LEMMA LeadsBackTo ==
  ASSUME NEW c, CursorShape(c), NEW records
  PROVE  /\ LeadsBack(records, c) => LeadsTo(records, c, cursor)
         /\ Breaks(records, c) => LeadsNowhere(records, c)
  <1>1. ASSUME LeadsBack(records, c), NEW a
        PROVE  TakenBack(records, {[c EXCEPT !.arena = a]}) = {[cursor EXCEPT !.arena = a]}
    <2> DEFINE d == [c EXCEPT !.arena = a]
    <2>0. d = [c EXCEPT !.arena = a]
      OBVIOUS
    <2> HIDE DEF d
    <2>1. Join(c, d) = d /\ d.arena = a
      BY <2>0, JoinedAlone
    <2>2. TakenBack(records, {Join(c, d)}) = {[cursor EXCEPT !.arena = d.arena]}
      BY <1>1 DEF LeadsBack
    <2>3. QED
      BY <2>1, <2>2 DEF d
  <1>2. ASSUME Breaks(records, c), NEW a
        PROVE  TakenBack(records, {[c EXCEPT !.arena = a]}) = {}
    <2> DEFINE d == [c EXCEPT !.arena = a]
    <2>0. d = [c EXCEPT !.arena = a]
      OBVIOUS
    <2> HIDE DEF d
    <2>1. Join(c, d) = d
      BY <2>0, JoinedAlone
    <2>2. TakenBack(records, {Join(c, d)}) = {}
      BY <1>2 DEF Breaks
    <2>3. QED
      BY <2>1, <2>2 DEF d
  <1>3. QED
    BY <1>1, <1>2 DEF LeadsTo, LeadsNowhere

\* What a call leaves.
CallFits(f) ==
  /\ Carried(f)
  /\ f.error \notin {"PushRefused", "DuplicateObjectKey"} => LeadsTo(f.undo, f.c, cursor)
  /\ f.error = "DuplicateObjectKey" => LeadsNowhere(f.undo, f.c)
  /\ f.error # "PushRefused"
  /\ f.error = "none" => CoreFits(f.c)

LEMMA RefusedCall ==
  ASSUME StateFits, error = "none", NEW why, why \notin {"PushRefused", "DuplicateObjectKey", "none"},
         NEW f, f = Fail(Effect(cursor, Room), why)
  PROVE  CallFits(f) /\ f.error = why
  <1> DEFINE g == Effect(cursor, Room)
  <1>1. g = Effect(cursor, Room) /\ f = Fail(g, why)
    OBVIOUS
  <1> HIDE DEF g
  <1>2. /\ Carried(g) /\ g.c = cursor /\ g.undo = <<>> /\ g.error = "none" /\ g.events = <<>>
        /\ CoreFits(cursor) /\ g.room = Room /\ EffectShape(g)
    BY <1>1, Resting
  <1>3. /\ EffectShape(f) /\ f.c = cursor /\ f.undo = <<>> /\ f.error = why
        /\ f.events = g.events /\ f.room = Room
    BY <1>1, <1>2 DEF EffectShape, Fail
  <1>4. Carried(f)
    BY <1>2, <1>3 DEF Carried
  <1>5. LeadsTo(f.undo, f.c, cursor)
    BY <1>3, UndoNone DEF LeadsTo
  <1>6. QED
    BY <1>3, <1>4, <1>5 DEF CallFits

LEMMA SoundCall ==
  ASSUME NEW f, NEW n, Sound(f, n), f.error = "none" => CoreFits(f.c)
  PROVE  CallFits(f) /\ f.error # "DuplicateObjectKey"
  <1>1. CursorShape(f.c)
    BY Shaped
  <1>2. LeadsTo(f.undo, f.c, cursor)
    BY <1>1, LeadsBackTo DEF Sound
  <1>3. QED
    BY <1>2 DEF Sound, CallFits

LEMMA StrandedCall ==
  ASSUME NEW f, Stranded(f)
  PROVE  CallFits(f) /\ f.error = "DuplicateObjectKey"
  <1>1. CursorShape(f.c)
    BY DEF Stranded, Carried, Fit
  <1>2. LeadsNowhere(f.undo, f.c)
    BY <1>1, LeadsBackTo DEF Stranded
  <1>3. QED
    BY <1>2 DEF Stranded, CallFits

LEMMA FeedingByte ==
  ASSUME StateFits, error = "none", NEW b, NEW f, f = FedByte(b)
  PROVE  /\ CallFits(f)
         /\ f.error = "none" => f.c.byte_offset = cursor.byte_offset + 1
         /\ f.error = "DuplicateObjectKey" => Repeats(cursor, b)
  <1> DEFINE g == Begin
             e == [g EXCEPT !.c.byte_offset = @ + 1]
  <1>1. /\ g = Begin /\ e = [g EXCEPT !.c.byte_offset = @ + 1]
        /\ \/ f = Fail(Effect(cursor, Room), "AlreadyTerminated")
           \/ f = Fail(Effect(cursor, Room), "JournalLimit")
           \/ ~(Room < ByteHeadroom) /\ f = Process(e, b)
    BY DEF FedByte
  <1> HIDE DEF g, e
  <1>2. CASE f = Fail(Effect(cursor, Room), "AlreadyTerminated")
    BY <1>2, RefusedCall
  <1>3. CASE f = Fail(Effect(cursor, Room), "JournalLimit")
    BY <1>3, RefusedCall
  <1>4. CASE ~(Room < ByteHeadroom) /\ f = Process(e, b)
    <2>1. 8 <= Room /\ 9 <= Room
      BY <1>4, RoomIsNumber DEF ByteHeadroom
    <2>2. Sound(g, 1) /\ g.c = cursor /\ g.error = "none" /\ CoreFits(g.c)
      BY <1>1, <2>1, Beginning
    <2>3. EffectShape(g) /\ CursorShape(g.c)
      BY <2>2, Shaped
    <2>4. /\ EffectShape(e) /\ e.room = g.room /\ e.undo = g.undo
          /\ e.events = g.events /\ e.error = g.error
      BY <1>1, <2>3 DEF EffectShape
    <2>5. /\ CursorShape(e.c) /\ SameData(g.c, e.c) /\ e.c.mode = g.c.mode
          /\ e.c.utf8 = g.c.utf8 /\ e.c.byte_offset = g.c.byte_offset + 1
      BY <1>1, <2>3 DEF EffectShape, CursorShape, SameData
    <2>6. Sound(e, 1)
      BY <2>2, <2>4, <2>5, CoreChanged
    <2>7. CoreFits(e.c)
      BY <2>2, <2>5 DEF CoreFits, ModeFits, Utf8Fits, SameData, Inside, Top
    <2>8. Fed(e, b, f)
      BY <1>4, <2>1, <2>2, <2>4, <2>6, <2>7, Processing
    <2>9. CASE Stranded(f) /\ Repeats(e.c, b)
      <3>1. Repeats(cursor, b)
        BY <2>2, <2>5, <2>9 DEF Repeats, SameData, Top
      <3>2. QED
        BY <2>9, <3>1, StrandedCall
    <2>10. CASE /\ \E n \in Nat : Sound(f, n)
                /\ f.c.byte_offset = e.c.byte_offset
                /\ f.error = "none" => CoreFits(f.c)
      BY <2>2, <2>5, <2>10, SoundCall
    <2>11. QED
      BY <2>8, <2>9, <2>10 DEF Fed
  <1>5. QED
    BY <1>1, <1>2, <1>3, <1>4

LEMMA FinishingEos ==
  ASSUME StateFits, error = "none", NEW f, f = FinishedEos
  PROVE  /\ CallFits(f)
         /\ f.error = "none" => f.c.byte_offset = cursor.byte_offset
         /\ f.error # "DuplicateObjectKey"
  <1> DEFINE e == Begin
             x == SealAtEos(e)
  <1>1. /\ e = Begin /\ x = SealAtEos(e)
        /\ \/ f = Fail(Effect(cursor, Room), "AlreadyTerminated")
           \/ f = Fail(Effect(cursor, Room), "JournalLimit")
           \/ ~(Room < EosHeadroom) /\ f = IF x.error = "none" THEN Terminate(x) ELSE x
    BY DEF FinishedEos, Then, Ok
  <1> HIDE DEF e, x
  <1>2. CASE f = Fail(Effect(cursor, Room), "AlreadyTerminated")
    BY <1>2, RefusedCall
  <1>3. CASE f = Fail(Effect(cursor, Room), "JournalLimit")
    BY <1>3, RefusedCall
  <1>4. CASE ~(Room < EosHeadroom) /\ f = IF x.error = "none" THEN Terminate(x) ELSE x
    <2>1. 8 <= Room /\ 1 + 2 <= Room /\ 1 + 2 = 3
      BY <1>4, RoomIsNumber DEF EosHeadroom
    <2>2. Sound(e, 1) /\ e.c = cursor /\ e.error = "none" /\ CoreFits(e.c)
      BY <1>1, <2>1, Beginning
    <2>3. /\ Sound(x, 3) /\ x.c.byte_offset = cursor.byte_offset
          /\ x.error = "none" => CoreFits(x.c)
      BY <1>1, <2>1, <2>2, SealingAtEos
    <2>4. /\ Sound(f, 3) /\ f.c.byte_offset = cursor.byte_offset
          /\ f.error = "none" => CoreFits(f.c)
      <3>1. CASE x.error = "none"
        BY <1>4, <2>3, <3>1, Terminating
      <3>2. CASE x.error # "none"
        BY <1>4, <2>3, <3>2
      <3>3. QED
        BY <3>1, <3>2
    <2>5. QED
      BY <2>4, SoundCall
  <1>5. QED
    BY <1>1, <1>2, <1>3, <1>4

-------------------------------------------------------------------------------
(* The marks held.                                                         *)

MarkFits(m, records, c) ==
  /\ MarkShape(m)
  /\ m.undo_len \in 0..Len(records)
  /\ m.arena_mark = arena_mark(m.saved.arena)
  /\ Settled(m.saved, m.text, m.log)
  /\ Grown(m.saved.arena, c.arena)

\* What was done since a mark leads back to what it saved, unless a key came twice.
MarkLeads(m, records, c, why) ==
  LET since == Segment(records, m.undo_len, Len(records))
  IN  /\ why # "DuplicateObjectKey" => LeadsTo(since, c, m.saved)
      /\ why = "DuplicateObjectKey" => LeadsNowhere(since, c)

\* What was done between two marks leads from the one to the other.
MarksLead(m, later, records) ==
  /\ m.undo_len <= later.undo_len
  /\ Grown(m.saved.arena, later.saved.arena)
  /\ LeadsTo(Segment(records, m.undo_len, later.undo_len), later.saved, m.saved)

MarksFit ==
  /\ IsSeq(marks)
  /\ \A i \in 1..Len(marks) :
        /\ MarkFits(marks[i], journal, cursor)
        /\ MarkLeads(marks[i], journal, cursor, error)
        /\ \A j \in i..Len(marks) : MarksLead(marks[i], marks[j], journal)

IInv == StateFits /\ MarksFit

-------------------------------------------------------------------------------
(* Ways of leading back put behind each other.                             *)

LEMMA LeadsNothing ==
  ASSUME NEW c
  PROVE  LeadsTo(<<>>, c, c)
  BY UndoNone DEF LeadsTo

LEMMA LeadsOn ==
  ASSUME NEW s, IsSeq(s), NEW t, IsSeq(t), NEW saved, NEW c, NEW d, LeadsTo(s, c, saved)
  PROVE  /\ LeadsTo(t, d, c) => LeadsTo(s \o t, d, saved)
         /\ LeadsNowhere(t, d) => LeadsNowhere(s \o t, d)
  <1>1. ASSUME LeadsTo(t, d, c), NEW a
        PROVE  TakenBack(s \o t, {[d EXCEPT !.arena = a]}) = {[saved EXCEPT !.arena = a]}
    <2> DEFINE one == [d EXCEPT !.arena = a]
               two == [c EXCEPT !.arena = a]
               three == [saved EXCEPT !.arena = a]
    <2>1. TakenBack(t, {one}) = {two} /\ TakenBack(s, {two}) = {three}
      BY <1>1 DEF LeadsTo
    <2> HIDE DEF one, two, three
    <2>2. TakenBack(s \o t, {one}) = TakenBack(s, TakenBack(t, {one}))
      BY UndoConcat
    <2>3. TakenBack(s \o t, {one}) = {three}
      BY <2>1, <2>2
    <2>4. QED
      BY <2>3 DEF one, three
  <1>2. ASSUME LeadsNowhere(t, d), NEW a
        PROVE  TakenBack(s \o t, {[d EXCEPT !.arena = a]}) = {}
    <2> DEFINE one == [d EXCEPT !.arena = a]
    <2>1. TakenBack(t, {one}) = {}
      BY <1>2 DEF LeadsNowhere
    <2> HIDE DEF one
    <2>2. TakenBack(s \o t, {one}) = TakenBack(s, TakenBack(t, {one}))
      BY UndoConcat
    <2>3. TakenBack(s \o t, {one}) = {}
      BY <2>1, <2>2, UndoNothing
    <2>4. QED
      BY <2>3 DEF one
  <1>3. QED
    BY <1>1, <1>2 DEF LeadsTo, LeadsNowhere

-------------------------------------------------------------------------------
(* Restoring to a mark.                                                    *)

LEMMA RestoredIs ==
  ASSUME StateFits, NEW m, MarkFits(m, journal, cursor), MarkLeads(m, journal, cursor, error)
  PROVE  /\ error # "DuplicateObjectKey" => Restored(m) = {m.saved}
         /\ error = "DuplicateObjectKey" => Restored(m) = {}
  <1> DEFINE records == Segment(journal, m.undo_len, Len(journal))
             back == TakenBack(records, {cursor})
             d == [m.saved EXCEPT !.arena = cursor.arena]
             Found(c) == m.undo_len <= Len(journal) /\ MarkInside(c.arena, m.arena_mark)
             Cut(c) == [c EXCEPT !.arena = restored(@, m.arena_mark)]
  <1>1. Restored(m) = { Cut(c) : c \in { x \in back : Found(x) } }
    BY DEF Restored, TakenBack, Segment
  <1>2. cursor = [cursor EXCEPT !.arena = cursor.arena]
    BY DEF StateFits, Fit, CursorShape
  <1> HIDE DEF records
  <1>3. CASE error # "DuplicateObjectKey"
    <2>1. back = {d}
      <3>1. LeadsTo(records, cursor, m.saved)
        BY <1>3 DEF MarkLeads, records
      <3>2. TakenBack(records, {[cursor EXCEPT !.arena = cursor.arena]}) = {d}
        BY <3>1 DEF LeadsTo
      <3>3. QED
        BY <1>2, <3>2
    <2>2. d.arena = cursor.arena /\ CursorShape(m.saved) /\ [d EXCEPT !.arena = m.saved.arena] = m.saved
      <3>1. CursorShape(m.saved)
        BY DEF MarkFits, Settled, Fit
      <3>2. d.arena = cursor.arena
        BY <3>1 DEF CursorShape
      <3>3. [d EXCEPT !.arena = m.saved.arena] = [m.saved EXCEPT !.arena = m.saved.arena]
        OBVIOUS
      <3>4. [m.saved EXCEPT !.arena = m.saved.arena] = m.saved
        BY <3>1 DEF CursorShape
      <3>5. QED
        BY <3>1, <3>2, <3>3, <3>4
    <2>3. /\ MarkInside(cursor.arena, m.arena_mark)
          /\ restored(cursor.arena, m.arena_mark) = m.saved.arena
      <3>1. IsArena(m.saved.arena) /\ IsArena(cursor.arena) /\ Grown(m.saved.arena, cursor.arena)
        BY DEF StateFits, MarkFits, Settled, Fit, Whole
      <3>2. m.arena_mark = arena_mark(m.saved.arena)
        BY DEF MarkFits
      <3>3. QED
        BY <3>1, <3>2, RestoredArena
    <2>4. m.undo_len <= Len(journal)
      <3>1. m.undo_len \in 0..Len(journal) /\ Len(journal) \in Nat
        BY IsSeqLen DEF StateFits, MarkFits
      <3>2. QED
        BY <3>1
    <2> HIDE DEF d, back
    <2>5. Found(d) /\ Cut(d) = m.saved
      BY <2>2, <2>3, <2>4
    <2> HIDE DEF Found, Cut
    <2>6. Restored(m) = {m.saved}
      BY <1>1, <2>1, <2>5
    <2>7. QED
      BY <1>3, <2>6
  <1>4. CASE error = "DuplicateObjectKey"
    <2>1. back = {}
      <3>1. LeadsNowhere(records, cursor)
        BY <1>4 DEF MarkLeads, records
      <3>2. TakenBack(records, {[cursor EXCEPT !.arena = cursor.arena]}) = {}
        BY <3>1 DEF LeadsNowhere
      <3>3. QED
        BY <1>2, <3>2
    <2> HIDE DEF back, Found, Cut
    <2>2. QED
      BY <1>1, <1>4, <2>1
  <1>5. QED
    BY <1>3, <1>4

-------------------------------------------------------------------------------
(* The invariant, step by step.                                            *)

LEMMA NewCursorFits == Settled(NewCursor, <<>>, <<>>)
  <1> DEFINE c == NewCursor
  <1>1. /\ c.mode = Mode("ExpectValue") /\ c.frames = <<>> /\ c.pool = EmptyPool /\ c.root = 0
        /\ c.arena = EmptyArena /\ c.partial = <<>> /\ c.utf8 = NoUtf8 /\ c.byte_offset = 0
        /\ CursorShape(c)
    BY DEF NewCursor, CursorShape, NoRoot
  <1> HIDE DEF c
  <1>2. IsSeq(<<>>) /\ Len(<<>>) = 0
    BY IsSeqEmpty
  <1>3. /\ EmptyArena.nodes = <<>> /\ EmptyArena.bytes = <<>> /\ EmptyArena.children = <<>>
        /\ EmptyArena.entries = <<>>
    BY DEF EmptyArena
  <1>4. DOMAIN <<>> = {}
    BY <1>2, IsSeqLen
  <1>5. Whole(EmptyArena)
    <2>1. IsArena(EmptyArena)
      BY <1>2, <1>3 DEF IsArena, EmptyArena
    <2>2. QED
      BY <1>3, <1>4, <2>1 DEF Whole, RefersBack, KeysInside
  <1>6. StackFits(<<>>, EmptyPool, 0)
    <2>1. EmptyPool.slots = <<>>
      BY DEF EmptyPool
    <2>2. \A i \in 1..Len(<<>>) : FALSE
      BY <1>2
    <2>3. \A i \in 1..(Len(<<>>) - 1) : FALSE
      BY <1>2
    <2>4. FramesLive(<<>>, EmptyPool)
      BY <2>1, <2>2 DEF FramesLive
    <2>5. Waits(<<>>)
      BY <2>3 DEF Waits
    <2>6. QED
      BY <1>2, <2>2, <2>4, <2>5, EmptyPoolWellFormed DEF StackFits
  <1>7. Fit(c)
    BY <1>1, <1>2, <1>3, <1>5, <1>6 DEF Fit
  <1>8. CoreFits(c)
    <2>1. c.mode[1] = "ExpectValue" /\ c.root = NoRoot
      BY <1>1 DEF Mode, NoRoot
    <2>2. ~KeyDue(c.mode)
      BY <2>1 DEF KeyDue, StringModes
    <2>3. \A kind : ~Inside(c, kind)
      BY <1>1 DEF Inside
    <2>4. QED
      BY <1>1, <2>1, <2>2, <2>3 DEF CoreFits, ModeFits, Utf8Fits
  <1>9. Tells(<<>>, c) /\ RootTold(<<>>, c)
    <2>1. StartsOf(<<>>) = {}
      BY <1>4 DEF StartsOf
    <2>2. Shapes(<<>>) = <<>>
      BY <1>2, ShapesAppend, EmptySeq DEF IsSeq
    <2>3. QED
      BY <1>1, <1>2, <2>1, <2>2, TellNone DEF Tells, RootTold, NoRoot
  <1>10. QED
    BY <1>1, <1>2, <1>7, <1>8, <1>9 DEF Settled, c

LEMMA InitFits == Init => IInv
  <1> SUFFICES ASSUME Init
               PROVE  IInv
    OBVIOUS
  <1>1. /\ input \in Inputs /\ cursor = NewCursor /\ journal = <<>> /\ marks = <<>>
        /\ text = <<>> /\ log = <<>> /\ error = "none"
    BY DEF Init
  <1>2. Settled(cursor, text, log)
    BY <1>1, NewCursorFits
  <1>3. IsSeq(journal) /\ IsSeq(text) /\ IsSeq(marks) /\ Len(marks) = 0
    BY <1>1, IsSeqEmpty
  <1>4. StateFits
    BY <1>1, <1>2, <1>3 DEF StateFits, Settled
  <1>5. MarksFit
    BY <1>3 DEF MarksFit
  <1>6. QED
    BY <1>4, <1>5 DEF IInv

\* A mark is put behind the others.
LEMMA MarkKeeps ==
  ASSUME IInv, Mark
  PROVE  IInv'
  <1> DEFINE new == [undo_len |-> Len(journal), arena_mark |-> arena_mark(cursor.arena),
                     saved |-> cursor, text |-> text, log |-> log]
  <1>1. /\ error = "none" /\ marks' = Append(marks, new)
        /\ input' = input /\ cursor' = cursor /\ journal' = journal /\ text' = text
        /\ log' = log /\ error' = error
    BY DEF Mark
  <1>2. StateFits /\ MarksFit /\ Settled(cursor, text, log) /\ IsSeq(journal)
    BY <1>1 DEF IInv, StateFits
  <1>3. StateFits'
    BY <1>1, <1>2 DEF StateFits, Settled, Fit, CursorShape, Tells, RootTold, CoreFits, ModeFits, Utf8Fits
  <1>4. /\ MarkShape(new) /\ new.undo_len = Len(journal) /\ new.arena_mark = arena_mark(cursor.arena)
        /\ new.saved = cursor /\ new.text = text /\ new.log = log
    BY DEF MarkShape
  <1>5. Len(journal) \in Nat /\ Len(journal) \in 0..Len(journal)
    BY <1>2, IsSeqLen
  <1>6. Grown(cursor.arena, cursor.arena)
    BY <1>2, GrownReflexive DEF Settled, Fit, Whole
  <1> HIDE DEF new
  <1>7. MarkFits(new, journal, cursor)
    BY <1>2, <1>4, <1>5, <1>6 DEF MarkFits
  <1>8. LeadsTo(Segment(journal, Len(journal), Len(journal)), cursor, cursor)
    BY <1>2, <1>5, SegmentNothing, LeadsNothing
  <1>9. MarkLeads(new, journal, cursor, error)
    BY <1>1, <1>4, <1>8 DEF MarkLeads
  <1>10. MarksLead(new, new, journal)
    BY <1>4, <1>5, <1>6, <1>8 DEF MarksLead
  <1>11. ASSUME NEW m, MarkFits(m, journal, cursor), MarkLeads(m, journal, cursor, error)
         PROVE  MarksLead(m, new, journal)
    <2>1. m.undo_len \in 0..Len(journal) /\ Grown(m.saved.arena, cursor.arena)
      BY <1>11 DEF MarkFits
    <2>2. m.undo_len <= Len(journal)
      BY <1>5, <2>1
    <2>3. LeadsTo(Segment(journal, m.undo_len, Len(journal)), cursor, m.saved)
      BY <1>1, <1>11 DEF MarkLeads
    <2>4. QED
      BY <1>4, <2>1, <2>2, <2>3 DEF MarksLead
  <1>12. MarksFit'
    <2> DEFINE k == Len(marks)
    <2>1. /\ k \in Nat /\ IsSeq(marks) /\ IsSeq(marks') /\ Len(marks') = k + 1
          /\ marks'[k + 1] = new /\ \A i \in 1..k : marks'[i] = marks[i]
      BY <1>1, <1>2, IsSeqLen, IsSeqAppend DEF MarksFit
    <2>2. \A i \in 1..k :
            /\ MarkFits(marks[i], journal, cursor)
            /\ MarkLeads(marks[i], journal, cursor, error)
            /\ \A j \in i..k : MarksLead(marks[i], marks[j], journal)
      BY <1>2 DEF MarksFit
    <2> HIDE DEF k
    <2>3. ASSUME NEW i \in 1..(k + 1)
          PROVE  /\ MarkFits(marks'[i], journal, cursor)
                 /\ MarkLeads(marks'[i], journal, cursor, error)
                 /\ \A j \in i..(k + 1) : MarksLead(marks'[i], marks'[j], journal)
      <3>1. CASE i = k + 1
        <4>1. \A j \in i..(k + 1) : j = k + 1
          BY <2>1, <3>1
        <4>2. QED
          BY <1>7, <1>9, <1>10, <2>1, <3>1, <4>1
      <3>2. CASE i # k + 1
        <4>1. i \in 1..k /\ \A j \in i..(k + 1) : j = k + 1 \/ (j \in i..k /\ j \in 1..k)
          BY <2>1, <3>2
        <4>2. marks'[i] = marks[i] /\ MarksLead(marks[i], new, journal)
          BY <1>11, <2>1, <2>2, <4>1
        <4>3. QED
          BY <2>1, <2>2, <4>1, <4>2
      <3>3. QED
        BY <3>1, <3>2
    <2>4. QED
      BY <1>1, <2>1, <2>3 DEF MarksFit
  <1>13. QED
    BY <1>3, <1>12 DEF IInv

\* A call that leaves what CallFits says of it.
LEMMA TakeKeeps ==
  ASSUME IInv, error = "none", NEW f, CallFits(f), Take(f), IsSeq(text'),
         f.error = "none" => f.c.byte_offset = Len(text'),
         ~input.duplicateKeys => f.error # "DuplicateObjectKey"
  PROVE  IInv'
  <1>1. /\ cursor' = f.c /\ journal' = journal \o f.undo /\ log' = log \o f.events
        /\ error' = f.error /\ input' = input /\ marks' = marks
    BY DEF Take
  <1>2. StateFits /\ MarksFit /\ IsSeq(journal) /\ input \in Inputs
    BY DEF IInv, StateFits
  <1>3. /\ IsSeq(f.undo) /\ Fit(f.c) /\ Grown(cursor.arena, f.c.arena)
        /\ Tells(log \o f.events, f.c) /\ RootTold(log \o f.events, f.c)
    BY DEF CallFits, Carried
  <1>4. f.error = "none" => Settled(f.c, text', log \o f.events)
    BY <1>3 DEF CallFits, Settled
  <1>5. IsSeq(journal \o f.undo) /\ Len(journal \o f.undo) = Len(journal) + Len(f.undo)
    BY <1>2, <1>3, IsSeqConcat
  <1>6. StateFits'
    <2>1. f.error # "PushRefused"
      BY DEF CallFits
    <2> DEFINE bytes == text'
               told == log \o f.events
               records == journal \o f.undo
    <2>2. text' = bytes /\ log' = told /\ journal' = records /\ IsSeq(bytes) /\ IsSeq(records)
      BY <1>1, <1>5
    <2>3. f.error = "none" => Settled(f.c, bytes, told)
      BY <1>4
    <2>4. Tells(told, f.c)
      BY <1>3
    <2> HIDE DEF bytes, told, records
    <2>5. (Fit(cursor))' /\ (Tells(log, cursor))'
      BY <1>1, <1>3, <2>2, <2>4 DEF Fit, CursorShape, Tells
    <2>6. (error = "none" => Settled(cursor, text, log))'
      BY <1>1, <2>2, <2>3
         DEF Settled, Fit, CursorShape, CoreFits, ModeFits, Utf8Fits, Tells, RootTold
    <2>7. QED
      BY <1>1, <1>2, <2>1, <2>2, <2>5, <2>6 DEF StateFits
  <1>7. ASSUME NEW m, MarkFits(m, journal, cursor), MarkLeads(m, journal, cursor, error)
        PROVE  /\ MarkFits(m, journal \o f.undo, f.c)
               /\ MarkLeads(m, journal \o f.undo, f.c, f.error)
    <2>1. m.undo_len \in 0..Len(journal) /\ Grown(m.saved.arena, cursor.arena) /\ Fit(m.saved)
      BY <1>7 DEF MarkFits, Settled
    <2>2. m.undo_len \in 0..Len(journal \o f.undo)
      <3>1. Len(journal) \in Nat /\ Len(f.undo) \in Nat
        BY <1>2, <1>3, IsSeqLen
      <3>2. QED
        BY <1>5, <2>1, <3>1
    <2>3. Grown(m.saved.arena, f.c.arena)
      <3>1. IsArena(m.saved.arena) /\ IsArena(cursor.arena) /\ IsArena(f.c.arena)
        BY <1>2, <1>3, <2>1 DEF StateFits, Fit, Whole
      <3>2. QED
        BY <1>3, <2>1, <3>1, GrownThrough
    <2>4. MarkFits(m, journal \o f.undo, f.c)
      BY <1>7, <2>2, <2>3 DEF MarkFits
    <2> DEFINE since == Segment(journal, m.undo_len, Len(journal))
    <2>5. /\ Segment(journal \o f.undo, m.undo_len, Len(journal \o f.undo)) = since \o f.undo
          /\ IsSeq(since)
      <3>1. Len(journal) \in 0..Len(journal)
        BY <1>2, IsSeqLen
      <3>2. QED
        BY <1>2, <1>3, <2>1, <3>1, SegmentConcat, SegmentFacts
    <2>6. LeadsTo(since, cursor, m.saved)
      BY <1>7 DEF MarkLeads
    <2> HIDE DEF since
    <2>7. /\ LeadsTo(f.undo, f.c, cursor) => LeadsTo(since \o f.undo, f.c, m.saved)
          /\ LeadsNowhere(f.undo, f.c) => LeadsNowhere(since \o f.undo, f.c)
      BY <1>3, <2>5, <2>6, LeadsOn
    <2>8. MarkLeads(m, journal \o f.undo, f.c, f.error)
      BY <2>5, <2>7 DEF MarkLeads, CallFits
    <2>9. QED
      BY <2>4, <2>8
  <1>8. ASSUME NEW m, NEW later, m.undo_len \in 0..Len(journal), later.undo_len \in 0..Len(journal),
               MarksLead(m, later, journal)
        PROVE  MarksLead(m, later, journal \o f.undo)
    <2>1. m.undo_len \in 0..later.undo_len
      BY <1>8 DEF MarksLead
    <2>2. Segment(journal \o f.undo, m.undo_len, later.undo_len)
            = Segment(journal, m.undo_len, later.undo_len)
      BY <1>2, <1>3, <1>8, <2>1, SegmentBefore
    <2>3. QED
      BY <1>8, <2>2 DEF MarksLead
  <1>9. MarksFit'
    <2>1. IsSeq(marks) /\ Len(marks) \in Nat
      BY <1>2, IsSeqLen DEF MarksFit
    <2>2. \A i \in 1..Len(marks) :
            /\ MarkFits(marks[i], journal, cursor)
            /\ MarkLeads(marks[i], journal, cursor, error)
            /\ \A j \in i..Len(marks) : MarksLead(marks[i], marks[j], journal)
      BY <1>2 DEF MarksFit
    <2>3. \A i \in 1..Len(marks) : marks[i].undo_len \in 0..Len(journal)
      BY <2>2 DEF MarkFits
    <2> DEFINE records == journal \o f.undo
    <2>4. \A i \in 1..Len(marks) :
            /\ MarkFits(marks[i], records, f.c)
            /\ MarkLeads(marks[i], records, f.c, f.error)
            /\ \A j \in i..Len(marks) : MarksLead(marks[i], marks[j], records)
      <3> SUFFICES ASSUME NEW i \in 1..Len(marks)
                   PROVE  /\ MarkFits(marks[i], records, f.c)
                          /\ MarkLeads(marks[i], records, f.c, f.error)
                          /\ \A j \in i..Len(marks) : MarksLead(marks[i], marks[j], records)
        OBVIOUS
      <3>1. \A j \in i..Len(marks) : j \in 1..Len(marks)
        BY <2>1
      <3> HIDE DEF records
      <3>2. QED
        BY <1>7, <1>8, <2>2, <2>3, <3>1 DEF records
    <2>5. journal' = records
      BY <1>1
    <2> HIDE DEF records
    <2>6. QED
      BY <1>1, <2>1, <2>4, <2>5 DEF MarksFit
  <1>10. QED
    BY <1>6, <1>9 DEF IInv

LEMMA FeedByteKeeps ==
  ASSUME IInv, NEW b, FeedByte(b)
  PROVE  IInv'
  <1> DEFINE f == FedByte(b)
  <1>1. error = "none" /\ Structural(b) /\ Take(f) /\ text' = Append(text, b)
    BY DEF FeedByte
  <1>2. StateFits /\ IsSeq(text) /\ cursor.byte_offset = Len(text) /\ Len(text) \in Nat
    BY <1>1, IsSeqLen DEF IInv, StateFits, Settled
  <1>3. f = FedByte(b)
    OBVIOUS
  <1> HIDE DEF f
  <1>4. /\ CallFits(f)
        /\ f.error = "none" => f.c.byte_offset = cursor.byte_offset + 1
        /\ f.error = "DuplicateObjectKey" => Repeats(cursor, b)
    BY <1>1, <1>2, <1>3, FeedingByte
  <1>5. IsSeq(text') /\ Len(text') = Len(text) + 1
    BY <1>1, <1>2, IsSeqAppend
  <1>6. ~input.duplicateKeys => ~Repeats(cursor, b)
    BY <1>1 DEF Structural, Repeats
  <1>7. QED
    BY <1>1, <1>2, <1>4, <1>5, <1>6, TakeKeeps

LEMMA FinishKeeps ==
  ASSUME IInv, Finish
  PROVE  IInv'
  <1> DEFINE f == FinishedEos
  <1>1. error = "none" /\ Take(f) /\ text' = text
    BY DEF Finish
  <1>2. StateFits /\ IsSeq(text) /\ cursor.byte_offset = Len(text)
    BY <1>1 DEF IInv, StateFits, Settled
  <1>3. f = FinishedEos
    OBVIOUS
  <1> HIDE DEF f
  <1>4. /\ CallFits(f)
        /\ f.error = "none" => f.c.byte_offset = cursor.byte_offset
        /\ f.error # "DuplicateObjectKey"
    BY <1>1, <1>2, <1>3, FinishingEos
  <1>5. QED
    BY <1>1, <1>2, <1>4, TakeKeeps

\* What holds of the state when a call has come to its end, whatever came before it.
LEMMA SettledState ==
  ASSUME input \in Inputs, IsSeq(journal), Settled(cursor, text, log), error = "none"
  PROVE  StateFits
  BY DEF StateFits, Settled

LEMMA SettledStateNext == (input \in Inputs /\ IsSeq(journal) /\ Settled(cursor, text, log)
                             /\ error = "none")' => StateFits'
  BY SettledState, PTL

LEMMA RestoreKeeps ==
  ASSUME IInv, NEW i \in 1..Len(marks), Restore(i)
  PROVE  IInv'
  <1> DEFINE m == marks[i]
             n == m.undo_len
             cut == SubSeq(journal, 1, n)
             kept == SubSeq(marks, 1, i - 1)
  <1>1. /\ cursor' \in Restored(m) /\ journal' = cut /\ marks' = kept
        /\ text' = m.text /\ log' = m.log /\ error' = "none" /\ input' = input
    BY DEF Restore
  <1>2. /\ StateFits /\ IsSeq(marks) /\ IsSeq(journal) /\ Len(marks) \in Nat /\ input \in Inputs
        /\ Len(journal) \in Nat
    BY IsSeqLen DEF IInv, StateFits, MarksFit
  <1>3. \A k \in 1..Len(marks) :
          /\ MarkFits(marks[k], journal, cursor)
          /\ MarkLeads(marks[k], journal, cursor, error)
          /\ \A j \in k..Len(marks) : MarksLead(marks[k], marks[j], journal)
    BY DEF IInv, MarksFit
  <1>4. MarkFits(m, journal, cursor) /\ MarkLeads(m, journal, cursor, error)
    BY <1>3
  <1> HIDE DEF m
  <1>5. cursor' = m.saved
    <2>1. error # "DuplicateObjectKey" => Restored(m) = {m.saved}
      BY <1>2, <1>4, RestoredIs
    <2>2. error = "DuplicateObjectKey" => Restored(m) = {}
      BY <1>2, <1>4, RestoredIs
    <2>3. QED
      BY <1>1, <2>1, <2>2
  <1>6. n \in 0..Len(journal) /\ Settled(m.saved, m.text, m.log) /\ n \in Nat
    BY <1>4 DEF MarkFits
  <1>7. IsSeq(cut) /\ Len(cut) = n
    <2>1. n \in 0..n /\ 0 \in 0..n
      BY <1>6
    <2>2. QED
      BY <1>2, <1>6, <2>1, SegmentCut
  <1>8. (Settled(cursor, text, log))'
    BY <1>1, <1>5, <1>6
       DEF Settled, Fit, CursorShape, CoreFits, ModeFits, Utf8Fits, Tells, RootTold
  <1>9. StateFits'
    <2>1. IsSeq(journal')
      BY <1>1, <1>7
    <2>2. QED
      BY <1>1, <1>2, <1>8, <2>1, SettledStateNext
  <1> HIDE DEF n, cut
  <1>10. ASSUME NEW k \in 1..(i - 1)
         PROVE  /\ MarkFits(marks[k], cut, m.saved)
                /\ MarkLeads(marks[k], cut, m.saved, "none")
                /\ \A j \in k..(i - 1) : MarksLead(marks[k], marks[j], cut)
    <2> DEFINE p == marks[k]
    <2>1. k \in 1..Len(marks) /\ i \in k..Len(marks)
      BY <1>2
    <2>2. MarkFits(p, journal, cursor) /\ MarksLead(p, m, journal)
      BY <1>3, <2>1 DEF m
    <2>3. p.undo_len \in 0..n
      BY <1>6, <2>2 DEF MarksLead, MarkFits, n
    <2>4. ASSUME NEW later, MarkFits(later, journal, cursor), MarksLead(p, later, journal),
                 MarksLead(later, m, journal)
          PROVE  MarksLead(p, later, cut)
      <3>1. later.undo_len \in 0..n
        BY <1>6, <2>4 DEF MarksLead, MarkFits, n
      <3>2. p.undo_len \in 0..later.undo_len
        BY <2>3, <2>4, <3>1 DEF MarksLead
      <3>3. Segment(cut, p.undo_len, later.undo_len) = Segment(journal, p.undo_len, later.undo_len)
        BY <1>2, <1>6, <3>1, <3>2, SegmentCut DEF cut
      <3>4. QED
        BY <2>4, <3>3 DEF MarksLead
    <2>5. MarkFits(p, cut, m.saved)
      BY <1>7, <2>2, <2>3 DEF MarkFits, MarksLead
    <2>6. MarkLeads(p, cut, m.saved, "none")
      <3>1. n \in 0..n
        BY <1>6
      <3>2. Segment(cut, p.undo_len, n) = Segment(journal, p.undo_len, n)
        BY <1>2, <1>6, <2>3, <3>1, SegmentCut DEF cut
      <3>3. LeadsTo(Segment(cut, p.undo_len, n), m.saved, p.saved)
        BY <2>2, <3>2 DEF MarksLead, n
      <3>4. QED
        BY <1>7, <3>3 DEF MarkLeads
    <2>7. ASSUME NEW j \in k..(i - 1)
          PROVE  MarksLead(p, marks[j], cut)
      <3>1. j \in 1..Len(marks) /\ j \in k..Len(marks) /\ i \in j..Len(marks)
        BY <1>2
      <3>2. MarkFits(marks[j], journal, cursor) /\ MarksLead(p, marks[j], journal)
            /\ MarksLead(marks[j], m, journal)
        BY <1>3, <2>1, <3>1 DEF m
      <3> HIDE DEF p
      <3>3. QED
        BY <2>4, <3>2
    <2>8. QED
      BY <2>5, <2>6, <2>7
  <1>11. IsSeq(kept) /\ Len(kept) = i - 1 /\ \A k \in 1..(i - 1) : kept[k] = marks[k]
    <2>1. i - 1 \in 0..Len(marks) /\ 0 \in 0..(i - 1) /\ (i - 1) - 0 = i - 1
          /\ \A k \in 1..(i - 1) : 0 + k = k
      BY <1>2
    <2>2. Segment(marks, 0, i - 1) = kept
      BY DEF Segment
    <2> HIDE DEF kept
    <2>3. /\ IsSeq(Segment(marks, 0, i - 1)) /\ Len(Segment(marks, 0, i - 1)) = (i - 1) - 0
          /\ \A k \in 1..((i - 1) - 0) : Segment(marks, 0, i - 1)[k] = marks[0 + k]
      <3>1. IsSeq(marks)
        BY <1>2
      <3>2. QED
        BY <2>1, <3>1, SegmentFacts
    <2>4. QED
      BY <2>1, <2>2, <2>3
  <1> HIDE DEF kept
  <1>12. MarksFit'
    <2>1. \A k \in 1..(i - 1) : \A j \in k..(i - 1) : j \in 1..(i - 1)
      BY <1>2
    <2>2. \A k \in 1..Len(kept) :
            /\ MarkFits(kept[k], cut, m.saved)
            /\ MarkLeads(kept[k], cut, m.saved, "none")
            /\ \A j \in k..Len(kept) : MarksLead(kept[k], kept[j], cut)
      BY <1>10, <1>11, <2>1
    <2> DEFINE s == m.saved
    <2>3. cursor' = s
      BY <1>5
    <2>4. \A k \in 1..Len(kept) :
            /\ MarkFits(kept[k], cut, s)
            /\ MarkLeads(kept[k], cut, s, "none")
            /\ \A j \in k..Len(kept) : MarksLead(kept[k], kept[j], cut)
      BY <2>2
    <2> HIDE DEF s
    <2>5. QED
      BY <1>1, <1>11, <2>3, <2>4 DEF MarksFit
  <1>13. QED
    BY <1>9, <1>12 DEF IInv

\* The records before the second mark go, and with them the first mark.
LEMMA DiscardKeeps ==
  ASSUME IInv, DiscardPrefix
  PROVE  IInv'
  <1> DEFINE k == Len(marks)
             n == marks[2].undo_len
             rest == SubSeq(journal, n + 1, Len(journal))
             Moved(m) == [m EXCEPT !.undo_len = m.undo_len - n]
             left == [i \in 1..k - 1 |-> Moved(marks[i + 1])]
  <1>1. /\ error = "none" /\ k > 1 /\ journal' = rest /\ marks' = left
        /\ input' = input /\ cursor' = cursor /\ text' = text /\ log' = log /\ error' = error
    BY DEF DiscardPrefix
  <1>2. /\ StateFits /\ IsSeq(marks) /\ IsSeq(journal) /\ k \in Nat /\ input \in Inputs
        /\ Len(journal) \in Nat /\ Settled(cursor, text, log)
    BY <1>1, IsSeqLen DEF IInv, StateFits, MarksFit
  <1>3. \A i \in 1..k :
          /\ MarkFits(marks[i], journal, cursor)
          /\ MarkLeads(marks[i], journal, cursor, error)
          /\ \A j \in i..k : MarksLead(marks[i], marks[j], journal)
    BY DEF IInv, MarksFit
  <1>4. /\ IsSeq(left) /\ Len(left) = k - 1
        /\ \A i \in 1..(k - 1) : left[i] = Moved(marks[i + 1])
    <2>1. k - 1 \in Nat
      BY <1>1, <1>2
    <2>2. left = [i \in 1..(k - 1) |-> left[i]]
      OBVIOUS
    <2>3. \A i \in 1..(k - 1) : left[i] = Moved(marks[i + 1])
      OBVIOUS
    <2> HIDE DEF left
    <2>4. QED
      BY <2>1, <2>2, <2>3, FunctionIsSeq
  <1> HIDE DEF left, k
  <1>5. 2 \in 1..k
    BY <1>1, <1>2
  <1>6. n \in 0..Len(journal) /\ n \in Nat
    BY <1>3, <1>5 DEF MarkFits
  <1>7. IsSeq(rest) /\ Len(rest) = Len(journal) - n
    <2>1. Len(journal) \in n..Len(journal)
      BY <1>2, <1>6
    <2>2. QED
      BY <1>2, <1>6, <2>1, SegmentDropped
  <1> HIDE DEF n, rest
  <1>8. StateFits'
    <2>1. (Settled(cursor, text, log))'
      BY <1>1, <1>2 DEF Settled, Fit, CursorShape, CoreFits, ModeFits, Utf8Fits, Tells, RootTold
    <2>2. IsSeq(journal')
      BY <1>1, <1>7
    <2>3. QED
      BY <1>1, <1>2, <2>1, <2>2, SettledStateNext
  <1>9. ASSUME NEW m, MarkShape(m)
        PROVE  /\ MarkShape(Moved(m)) /\ Moved(m).undo_len = m.undo_len - n
               /\ Moved(m).arena_mark = m.arena_mark /\ Moved(m).saved = m.saved
               /\ Moved(m).text = m.text /\ Moved(m).log = m.log
    BY <1>9 DEF MarkShape
  <1> HIDE DEF Moved
  <1>10. ASSUME NEW m, MarkFits(m, journal, cursor), MarkLeads(m, journal, cursor, "none"),
                n <= m.undo_len
         PROVE  MarkFits(Moved(m), rest, cursor) /\ MarkLeads(Moved(m), rest, cursor, "none")
    <2> DEFINE u == m.undo_len
    <2>1. u \in n..Len(journal) /\ u - n \in 0..(Len(journal) - n) /\ Len(journal) \in n..Len(journal)
      BY <1>2, <1>6, <1>10 DEF MarkFits
    <2>2. MarkShape(m)
      BY <1>10 DEF MarkFits
    <2>3. MarkFits(Moved(m), rest, cursor)
      BY <1>7, <1>9, <1>10, <2>1, <2>2 DEF MarkFits
    <2> HIDE DEF u
    <2>4. Segment(rest, u - n, Len(journal) - n) = Segment(journal, u, Len(journal))
      BY <1>2, <1>6, <2>1, SegmentDropped DEF rest
    <2>5. LeadsTo(Segment(journal, u, Len(journal)), cursor, m.saved)
      BY <1>10 DEF MarkLeads, u
    <2>6. MarkLeads(Moved(m), rest, cursor, "none")
      BY <1>7, <1>9, <2>2, <2>4, <2>5 DEF MarkLeads, u
    <2>7. QED
      BY <2>3, <2>6
  <1>11. ASSUME NEW m, NEW later, MarkFits(m, journal, cursor), MarkFits(later, journal, cursor),
                n <= m.undo_len, MarksLead(m, later, journal)
         PROVE  MarksLead(Moved(m), Moved(later), rest)
    <2> DEFINE u == m.undo_len
               v == later.undo_len
    <2>1. v \in n..Len(journal) /\ u \in n..v /\ u - n <= v - n
      BY <1>2, <1>6, <1>11 DEF MarkFits, MarksLead
    <2>2. MarkShape(m) /\ MarkShape(later)
      BY <1>11 DEF MarkFits
    <2>3. Segment(rest, u - n, v - n) = Segment(journal, u, v)
      BY <1>2, <1>6, <2>1, SegmentDropped DEF rest
    <2>4. QED
      BY <1>9, <1>11, <2>1, <2>2, <2>3 DEF MarksLead
  <1>12. MarksFit'
    <2>1. ASSUME NEW i \in 1..(k - 1)
          PROVE  /\ MarkFits(left[i], rest, cursor)
                 /\ MarkLeads(left[i], rest, cursor, "none")
                 /\ \A j \in i..(k - 1) : MarksLead(left[i], left[j], rest)
      <3>1. i + 1 \in 1..k /\ i + 1 \in 2..k
        BY <1>2
      <3>2. n <= marks[i + 1].undo_len
        BY <1>3, <1>5, <3>1 DEF MarksLead, n
      <3>3. ASSUME NEW j \in i..(k - 1)
            PROVE  MarksLead(left[i], left[j], rest)
        <4>1. j \in 1..(k - 1) /\ j + 1 \in 1..k /\ j + 1 \in (i + 1)..k
          BY <1>2
        <4>2. /\ MarkFits(marks[i + 1], journal, cursor) /\ MarkFits(marks[j + 1], journal, cursor)
              /\ MarksLead(marks[i + 1], marks[j + 1], journal)
          BY <1>3, <3>1, <4>1
        <4>3. MarksLead(Moved(marks[i + 1]), Moved(marks[j + 1]), rest)
          BY <1>11, <3>2, <4>2
        <4>4. QED
          BY <1>4, <4>1, <4>3
      <3>4. /\ MarkFits(marks[i + 1], journal, cursor)
            /\ MarkLeads(marks[i + 1], journal, cursor, "none")
        BY <1>1, <1>3, <3>1
      <3>5. MarkFits(Moved(marks[i + 1]), rest, cursor) /\ MarkLeads(Moved(marks[i + 1]), rest, cursor, "none")
        BY <1>10, <3>2, <3>4
      <3>6. QED
        BY <1>4, <3>3, <3>5
    <2>2. QED
      BY <1>1, <1>4, <2>1 DEF MarksFit
  <1>13. QED
    BY <1>8, <1>12 DEF IInv

LEMMA NextKeeps == IInv /\ [Next]_vars => IInv'
  <1> SUFFICES ASSUME IInv, [Next]_vars
               PROVE  IInv'
    OBVIOUS
  <1>1. CASE Mark
    BY <1>1, MarkKeeps
  <1>2. ASSUME NEW b \in Bytes, FeedByte(b)
        PROVE  IInv'
    BY <1>2, FeedByteKeeps
  <1>3. CASE Finish
    BY <1>3, FinishKeeps
  <1>4. ASSUME NEW i \in 1..Len(marks), Restore(i)
        PROVE  IInv'
    BY <1>4, RestoreKeeps
  <1>5. CASE DiscardPrefix
    BY <1>5, DiscardKeeps
  <1>6. CASE UNCHANGED vars
    <2>1. /\ input' = input /\ cursor' = cursor /\ journal' = journal /\ marks' = marks
          /\ text' = text /\ log' = log /\ error' = error
      BY <1>6 DEF vars
    <2>2. StateFits'
      BY <2>1 DEF IInv, StateFits, Settled, Fit, CursorShape, CoreFits, ModeFits, Utf8Fits, Tells, RootTold
    <2>3. MarksFit'
      BY <2>1 DEF IInv, MarksFit
    <2>4. QED
      BY <2>2, <2>3 DEF IInv
  <1>7. QED
    BY <1>1, <1>2, <1>3, <1>4, <1>5, <1>6 DEF Next

\* The inductive invariant holds in every state.
THEOREM CursorInvariant == Spec => []IInv
  <1>1. QED
    BY InitFits, NextKeeps, PTL DEF Spec

-------------------------------------------------------------------------------
(* What follows from the invariant.                                        *)

\* The cursor's parts, its stack, pool and arena always fit together, and nothing is kept
\* of a character once it is whole (JsonCursor, every handler of cursor.rs).
LEMMA TypeHolds == IInv => TypeOK
  <1> SUFFICES ASSUME IInv
               PROVE  TypeOK
    OBVIOUS
  <1> DEFINE frames == cursor.frames
             pool == cursor.pool
             nodes == Len(cursor.arena.nodes)
  <1>1. StateFits /\ Fit(cursor) /\ StackFits(frames, pool, nodes) /\ Whole(cursor.arena)
    BY DEF IInv, StateFits, Fit
  <1>2. /\ WellFormed(pool) /\ FramesLive(frames, pool) /\ Waits(frames) /\ IsSeq(frames)
        /\ DOMAIN frames = 1..Len(frames) /\ Len(frames) \in Nat
        /\ \A i \in 1..Len(frames) : FrameFits(frames[i], nodes)
    BY <1>1, IsSeqLen DEF StackFits
  <1>3. FrameIds(cursor) =
          { Handle(s, pool.slots[s].generation) :
              s \in { t \in DOMAIN pool.slots : pool.slots[t].occupied } }
    <2> DEFINE Live == { t \in DOMAIN pool.slots : pool.slots[t].occupied }
    <2>1. DOMAIN pool.slots = 1..Len(pool.slots)
      BY <1>2, LenProperties DEF WellFormed
    <2>2. ASSUME NEW i \in 1..Len(frames)
          PROVE  \E s \in Live : frames[i].id = Handle(s, pool.slots[s].generation)
      <3>1. IsLive(pool, frames[i].id) /\ frames[i].id \in Handles
        BY <1>2 DEF FramesLive, FrameFits
      <3>2. frames[i].id.slot \in Live
        BY <2>1, <3>1 DEF IsLive, Occupied
      <3>3. frames[i].id = Handle(frames[i].id.slot, pool.slots[frames[i].id.slot].generation)
        BY <3>1 DEF IsLive, Occupied, Handles, Handle
      <3>4. QED
        BY <3>2, <3>3
    <2>3. ASSUME NEW s \in Live
          PROVE  \E i \in 1..Len(frames) : frames[i].id = Handle(s, pool.slots[s].generation)
      <3>1. PICK i \in 1..Len(frames) : frames[i].id.slot = s
        BY <1>2, <2>1 DEF FramesLive
      <3>2. IsLive(pool, frames[i].id) /\ frames[i].id \in Handles
        BY <1>2 DEF FramesLive, FrameFits
      <3>3. frames[i].id = Handle(s, pool.slots[s].generation)
        BY <3>1, <3>2 DEF IsLive, Occupied, Handles, Handle
      <3>4. QED
        BY <3>3
    <2> HIDE DEF Live
    <2>4. FrameIds(cursor) = { frames[i].id : i \in 1..Len(frames) }
      <3>1. DOMAIN frames = 1..Len(frames)
        BY <1>2, LenProperties
      <3>2. QED
        BY <3>1 DEF FrameIds
    <2>5. { frames[i].id : i \in 1..Len(frames) }
            = { Handle(s, pool.slots[s].generation) : s \in Live }
      BY <2>2, <2>3
    <2>6. QED
      BY <2>4, <2>5 DEF Live
  <1>4. ASSUME NEW i \in 1..Len(frames)
        PROVE  LET f == frames[i]
               IN  /\ f.kind = "array" => ToSet(f.values) \subseteq DOMAIN cursor.arena.nodes
                   /\ f.kind = "object" =>
                         /\ f.seen_keys =
                               { f.values[j][1] : j \in DOMAIN f.values } \union f.current_key
                         /\ i < Len(frames) => f.current_key # {}
    <2> DEFINE f == frames[i]
    <2>1. FrameFits(f, nodes) /\ IsSeq(f.values) /\ DOMAIN f.values = 1..Len(f.values)
      BY <1>2, IsSeqLen DEF FrameFits
    <2>2. CASE f.kind = "array"
      <3>1. \A j \in 1..Len(f.values) : f.values[j] \in 1..nodes
        BY <2>1, <2>2, FrameKinds DEF ArrayFits
      <3>2. DOMAIN cursor.arena.nodes = 1..nodes
        BY <1>1, IsSeqLen DEF Whole, IsArena
      <3>3. ToSet(f.values) \subseteq DOMAIN cursor.arena.nodes
        BY <2>1, <3>1, <3>2 DEF ToSet
      <3>4. f.kind # "object"
        BY <2>2
      <3>5. QED
        BY <3>3, <3>4
    <2>3. CASE f.kind = "object"
      <3>1. f.seen_keys = { f.values[j][1] : j \in DOMAIN f.values } \union f.current_key
        BY <2>1, <2>3, FrameKinds DEF ObjectFits
      <3>2. i < Len(frames) => f.current_key # {}
        <4>1. i < Len(frames) => i \in 1..(Len(frames) - 1)
          BY <1>2
        <4>2. QED
          BY <1>2, <2>3, <4>1 DEF Waits
      <3>3. f.kind # "array"
        BY <2>3
      <3>4. QED
        BY <3>1, <3>2, <3>3
    <2>4. QED
      BY <2>2, <2>3
  <1>5. error = "none" /\ ~Pending(cursor) /\ cursor.mode[1] # "WaitingLowSurrogate"
          => cursor.utf8 = NoUtf8
    BY <1>1 DEF StateFits, Settled, CoreFits, Utf8Fits, CharacterFits, Pending
  <1>6. /\ cursor.root \in 0..nodes /\ RefersBack(cursor.arena) /\ KeysInside(cursor.arena)
        /\ cursor.byte_offset = Len(text) \/ error # "none"
    BY <1>1 DEF StateFits, Settled, Fit, Whole
  <1>7. QED
    BY <1>2, <1>3, <1>4, <1>5, <1>6 DEF TypeOK

THEOREM TypeAlways == Spec => []TypeOK
  <1>1. QED
    BY CursorInvariant, TypeHolds, PTL

\* A restore brings back exactly what was saved at each mark held, in every state but the
\* one a repeated key leaves: FinishKey journals a key before it knows the key to be new.
LEMMA UndoHolds == IInv => (error # "DuplicateObjectKey" => UndoExact)
  <1> SUFFICES ASSUME IInv, error # "DuplicateObjectKey", NEW i \in DOMAIN marks
               PROVE  Restored(marks[i]) = {marks[i].saved}
    BY DEF UndoExact
  <1>1. StateFits /\ DOMAIN marks = 1..Len(marks)
    BY IsSeqLen DEF IInv, MarksFit
  <1>2. MarkFits(marks[i], journal, cursor) /\ MarkLeads(marks[i], journal, cursor, error)
    BY <1>1 DEF IInv, MarksFit
  <1>3. QED
    BY <1>1, <1>2, RestoredIs

THEOREM UndoUnlessRepeated == Spec => [](error # "DuplicateObjectKey" => UndoExact)
  <1>1. QED
    BY CursorInvariant, UndoHolds, PTL

\* Where no input repeats a key, as under a guide, every restore is exact.
THEOREM UndoAlways ==
  ASSUME \A i \in Inputs : ~i.duplicateKeys
  PROVE  Spec => []UndoExact
  <1>1. IInv => UndoExact
    <2>1. IInv => error # "DuplicateObjectKey"
      BY DEF IInv, StateFits
    <2>2. QED
      BY <2>1, UndoHolds
  <1>2. QED
    BY <1>1, CursorInvariant, PTL

\* And where one does, there is nothing any mark can be restored to (the finding of the
\* run cursor_duplicate_key): the records break at the key that was never put on the frame.
THEOREM RepeatedBreaks ==
  Spec => [](error = "DuplicateObjectKey" => \A i \in DOMAIN marks : Restored(marks[i]) = {})
  <1>1. IInv => (error = "DuplicateObjectKey" => \A i \in DOMAIN marks : Restored(marks[i]) = {})
    <2> SUFFICES ASSUME IInv, error = "DuplicateObjectKey", NEW i \in DOMAIN marks
                 PROVE  Restored(marks[i]) = {}
      OBVIOUS
    <2>1. StateFits /\ DOMAIN marks = 1..Len(marks)
      BY IsSeqLen DEF IInv, MarksFit
    <2>2. MarkFits(marks[i], journal, cursor) /\ MarkLeads(marks[i], journal, cursor, error)
      BY <2>1 DEF IInv, MarksFit
    <2>3. QED
      BY <2>1, <2>2, RestoredIs
  <1>2. QED
    BY <1>1, CursorInvariant, PTL

\* The room asked for before a call covers all the records its handlers push: a byte needs
\* at most nine of the sixteen, the end of the document at most three of the eight.
THEOREM HeadroomAlways == Spec => []HeadroomSuffices
  <1>1. IInv => HeadroomSuffices
    BY DEF IInv, StateFits, HeadroomSuffices
  <1>2. QED
    BY <1>1, CursorInvariant, PTL

\* No two frames of a document share a handle.
THEOREM HandlesAlways == Spec => []HandlesDistinct
  <1>1. IInv => HandlesDistinct
    BY DEF IInv, StateFits, Tells, HandlesDistinct, Starts, StartsOf
  <1>2. QED
    BY <1>1, CursorInvariant, PTL

\* The events alone rebuild the stack, and the root is told exactly when there is one.
THEOREM EventsAlways == Spec => []EventsReplay
  <1>1. IInv => EventsReplay
    <2> SUFFICES ASSUME IInv, error = "none"
                 PROVE  /\ FoldLeft(Replayed, <<>>, log) =
                             [i \in DOMAIN cursor.frames |-> Shape(cursor.frames[i])]
                        /\ (cursor.root # NoRoot)
                             = (log # <<>> /\ Last(log).type = "RootComplete")
      BY DEF EventsReplay
    <2>1. Tells(log, cursor) /\ RootTold(log, cursor)
      BY DEF IInv, StateFits, Settled
    <2>2. FoldLeft(Replayed, <<>>, log) = Shapes(cursor.frames)
      BY <2>1 DEF Tells, Retold
    <2>3. QED
      BY <2>1, <2>2 DEF RootTold, Shapes
  <1>2. QED
    BY <1>1, CursorInvariant, PTL

===============================================================================
