----------------------------- MODULE GuideProofs -----------------------------
(***************************************************************************)
(* The safety of Guide for every value of its constants: first that it is  *)
(* type correct, then its inductive invariant IInv, step by step, and the  *)
(* properties that follow from it; last, that it implements GuideContract. *)
(***************************************************************************)
EXTENDS GuideRefinesContract, SequenceLemmas

\* The lengths the invariants compare are natural numbers.
LEMMA Lengths ==
  ASSUME TypeOK
  PROVE  /\ Len(cursorJournal) \in Nat
         /\ Len(routerJournal) \in Nat
         /\ Len(semanticJournal) \in Nat
         /\ Len(checkpoints) \in Nat
         /\ Len(trace) \in Nat
  BY LenProperties DEF TypeOK

LEMMA MarkFields ==
  ASSUME NEW m \in TokenMark
  PROVE  /\ m.dfa \in DfaStates /\ m.lifecycle \in Lifecycles
         /\ m.cursor \in Nat /\ m.arena \in Nat /\ m.router \in Nat
         /\ m.semantic \in Nat /\ m.traceLen \in Nat
  BY DEF TokenMark

LEMMA CurrentMarkType ==
  ASSUME TypeOK
  PROVE  CurrentMark \in TokenMark /\ CurrentMark.lifecycle = lifecycle
  <1>1. arena \in Nat
    BY LimitAssumption DEF TypeOK
  <1>2. QED
    BY <1>1, Lengths DEF TypeOK, CurrentMark, TokenMark

LEMMA InitialMarkType ==
  InitialMark \in TokenMark /\ InitialMark.lifecycle = "Active"
  BY AutomatonAssumption DEF InitialMark, TokenMark, Lifecycles

LEMMA InitTyped == Init => TypeOK /\ CallShape
  BY AutomatonAssumption, ComponentAssumption, LimitAssumption, InitialMarkType
     DEF Init, TypeOK, CallShape, AllTokens, Lifecycles, Calls, Stages, Running, Restoring

\* The checkpoints a commit keeps are the youngest of those held.
LEMMA KeptFacts ==
  ASSUME TypeOK, NEW m \in TokenMark
  PROVE  /\ KeptAfterPush(m) \in Seq(TokenMark)
         /\ Len(KeptAfterPush(m)) <= MaxRollback
         /\ Len(KeptAfterPush(m)) \in Nat
         /\ MaxRollback = 0 => KeptAfterPush(m) = <<>>
         /\ MaxRollback > 0 =>
              LET d == Len(checkpoints) + 1 - Len(KeptAfterPush(m))
              IN  /\ d = IF Len(checkpoints) < MaxRollback THEN 0 ELSE 1
                  /\ \A i \in 1..Len(KeptAfterPush(m)) :
                       KeptAfterPush(m)[i] = Append(checkpoints, m)[i + d]
  <1> DEFINE pushed == Append(checkpoints, m)
  <1>1. /\ checkpoints \in Seq(TokenMark) /\ Len(checkpoints) <= MaxRollback
        /\ Len(checkpoints) \in Nat /\ MaxRollback \in Nat
    BY Lengths, LimitAssumption DEF TypeOK
  <1>2. /\ pushed \in Seq(TokenMark) /\ Len(pushed) = Len(checkpoints) + 1
    BY <1>1, AppendProperties
  <1> HIDE DEF pushed
  <1>3. CASE MaxRollback = 0
    <2>1. KeptAfterPush(m) = checkpoints /\ Len(checkpoints) = 0
      BY <1>1, <1>3 DEF KeptAfterPush
    <2>2. QED
      BY <1>1, <1>3, <2>1, EmptySeq
  <1>4. CASE MaxRollback > 0 /\ Len(checkpoints) < MaxRollback
    <2>1. KeptAfterPush(m) = pushed
      BY <1>1, <1>2, <1>4 DEF KeptAfterPush, pushed
    <2>2. QED
      BY <1>1, <1>2, <1>4, <2>1 DEF pushed
  <1>5. CASE MaxRollback > 0 /\ Len(checkpoints) = MaxRollback
    <2>1. KeptAfterPush(m) = DropFirst(pushed, 1)
      BY <1>1, <1>2, <1>5 DEF KeptAfterPush, pushed
    <2>2. /\ KeptAfterPush(m) \in Seq(TokenMark)
          /\ Len(KeptAfterPush(m)) = MaxRollback
          /\ \A i \in 1..MaxRollback : KeptAfterPush(m)[i] = pushed[i + 1]
      <3>1. 1 \in 0..Len(pushed) /\ Len(pushed) - 1 = MaxRollback
        BY <1>1, <1>2, <1>5
      <3>2. /\ DropFirst(pushed, 1) \in Seq(TokenMark)
            /\ Len(DropFirst(pushed, 1)) = Len(pushed) - 1
            /\ \A i \in 1..(Len(pushed) - 1) : DropFirst(pushed, 1)[i] = pushed[i + 1]
        BY <1>2, <3>1, DropFirstFacts
      <3>3. QED
        BY <2>1, <3>1, <3>2
    <2>3. QED
      BY <1>1, <1>5, <2>2 DEF pushed
  <1>6. \/ MaxRollback = 0
        \/ MaxRollback > 0 /\ Len(checkpoints) < MaxRollback
        \/ MaxRollback > 0 /\ Len(checkpoints) = MaxRollback
    BY <1>1
  <1>7. QED
    BY <1>3, <1>4, <1>5, <1>6

LEMMA KeptActive ==
  ASSUME TypeOK, CallShape
  PROVE  \A i \in 1..Len(KeptAfterPush(mark)) : KeptAfterPush(mark)[i].lifecycle = "Active"
  <1> DEFINE pushed == Append(checkpoints, mark)
  <1>1. /\ checkpoints \in Seq(TokenMark) /\ Len(checkpoints) \in Nat
        /\ mark \in TokenMark /\ MaxRollback \in Nat
    BY Lengths, LimitAssumption DEF TypeOK
  <1>2. \A i \in 1..(Len(checkpoints) + 1) : pushed[i].lifecycle = "Active"
    <2>1. /\ \A i \in 1..Len(checkpoints) : pushed[i] = checkpoints[i]
          /\ pushed[Len(checkpoints) + 1] = mark
      BY <1>1, AppendProperties
    <2>2. QED
      BY <1>1, <2>1 DEF CallShape
  <1>3. CASE MaxRollback = 0
    BY <1>1, <1>3, KeptFacts, EmptySeq
  <1>4. CASE MaxRollback > 0
    <2>1. PICK d \in {0, 1} :
            /\ d = Len(checkpoints) + 1 - Len(KeptAfterPush(mark))
            /\ \A i \in 1..Len(KeptAfterPush(mark)) : KeptAfterPush(mark)[i] = pushed[i + d]
      <3>1. LET e == Len(checkpoints) + 1 - Len(KeptAfterPush(mark))
            IN  /\ e = IF Len(checkpoints) < MaxRollback THEN 0 ELSE 1
                /\ \A i \in 1..Len(KeptAfterPush(mark)) : KeptAfterPush(mark)[i] = pushed[i + e]
        BY <1>1, <1>4, KeptFacts
      <3>2. QED
        BY <3>1
    <2>2. \A i \in 1..Len(KeptAfterPush(mark)) : i + d \in 1..(Len(checkpoints) + 1)
      <3>1. Len(KeptAfterPush(mark)) \in Nat
        BY <1>1, KeptFacts
      <3>2. QED
        BY <1>1, <2>1, <3>1
    <2>3. QED
      BY <1>2, <2>1, <2>2
  <1>5. QED
    BY <1>1, <1>3, <1>4

\* A commit keeps every type, whether the window compacts or not.
LEMMA CommitTyped ==
  ASSUME TypeOK, CallShape, Commit
  PROVE  TypeOK' /\ CallShape'
  <1> DEFINE kept == KeptAfterPush(mark)
             prefix == CompactPrefix(kept)
  <1>1. /\ kept \in Seq(TokenMark) /\ Len(kept) <= MaxRollback /\ Len(kept) \in Nat
    BY KeptFacts DEF TypeOK
  <1>2. prefix \in TokenMark
    <2>1. CASE kept = <<>>
      BY <2>1, CurrentMarkType DEF CompactPrefix
    <2>2. CASE kept # <<>>
      BY <1>1, <2>2, EmptySeq, ElementOfSeq DEF CompactPrefix
    <2>3. QED
      BY <2>1, <2>2
  <1>3. stage = "commit" /\ op = "advance" /\ Len(trace) < MaxTrace
    BY DEF Commit, CallShape
  <1>4. CASE Compactable(kept, prefix)
    <2> DEFINE shifted == [i \in 1..Len(kept) |-> Shift(kept[i], prefix)]
    <2>1. /\ cursorJournal' = DropFirst(cursorJournal, prefix.cursor)
          /\ routerJournal' = DropFirst(routerJournal, prefix.router)
          /\ semanticJournal' = DropFirst(semanticJournal, prefix.semantic)
          /\ checkpoints' = shifted
          /\ trace' = Append(trace, token)
          /\ retained' = Refreshed'
          /\ Return
          /\ UNCHANGED state
      BY <1>4 DEF Commit
    <2>2. /\ prefix.cursor \in 0..Len(cursorJournal)
          /\ prefix.router \in 0..Len(routerJournal)
          /\ prefix.semantic \in 0..Len(semanticJournal)
      BY <1>2, <1>4, Lengths, MarkFields DEF Compactable
    <2>3. /\ cursorJournal' \in Seq(CursorStates) /\ Len(cursorJournal') <= MaxRecords
          /\ routerJournal' \in Seq(RouterStates) /\ Len(routerJournal') <= MaxRecords
          /\ semanticJournal' \in Seq(SemanticStates) /\ Len(semanticJournal') <= MaxRecords
      <3>1. /\ cursorJournal \in Seq(CursorStates) /\ Len(cursorJournal) <= MaxRecords
            /\ routerJournal \in Seq(RouterStates) /\ Len(routerJournal) <= MaxRecords
            /\ semanticJournal \in Seq(SemanticStates) /\ Len(semanticJournal) <= MaxRecords
        BY DEF TypeOK
      <3>2. /\ cursorJournal' \in Seq(CursorStates)
            /\ Len(cursorJournal') = Len(cursorJournal) - prefix.cursor
        BY <2>1, <2>2, <3>1, DropFirstFacts
      <3>3. /\ routerJournal' \in Seq(RouterStates)
            /\ Len(routerJournal') = Len(routerJournal) - prefix.router
        BY <2>1, <2>2, <3>1, DropFirstFacts
      <3>4. /\ semanticJournal' \in Seq(SemanticStates)
            /\ Len(semanticJournal') = Len(semanticJournal) - prefix.semantic
        BY <2>1, <2>2, <3>1, DropFirstFacts
      <3>5. QED
        <4>1. /\ Len(cursorJournal) - prefix.cursor <= MaxRecords
              /\ Len(routerJournal) - prefix.router <= MaxRecords
              /\ Len(semanticJournal) - prefix.semantic <= MaxRecords
          <5>1. /\ Len(cursorJournal) \in Nat /\ Len(routerJournal) \in Nat
                /\ Len(semanticJournal) \in Nat /\ MaxRecords \in Nat
            BY Lengths, LimitAssumption
          <5>2. QED
            BY <2>2, <3>1, <5>1
        <4>2. QED
          BY <3>2, <3>3, <3>4, <4>1
    <2>4. checkpoints' \in Seq(TokenMark) /\ Len(checkpoints') = Len(kept)
      <3>1. ASSUME NEW i \in 1..Len(kept)
            PROVE  Shift(kept[i], prefix) \in TokenMark
        <4>1. kept[i] \in TokenMark
          BY <1>1, ElementOfSeq
        <4>2. /\ prefix.cursor <= kept[i].cursor
              /\ prefix.router <= kept[i].router
              /\ prefix.semantic <= kept[i].semantic
          BY <1>4 DEF Compactable
        <4>3. /\ kept[i].cursor - prefix.cursor \in Nat
              /\ kept[i].router - prefix.router \in Nat
              /\ kept[i].semantic - prefix.semantic \in Nat
          BY <1>2, <4>1, <4>2, MarkFields
        <4>4. QED
          BY <4>1, <4>3 DEF Shift, TokenMark
      <3>2. QED
        BY <1>1, <2>1, <3>1
    <2>5. trace' \in Seq(AllTokens) /\ Len(trace') <= MaxTrace
      BY <1>3, <2>1, AppendProperties, Lengths, LimitAssumption DEF TypeOK
    <2>6. retained' \in Nat
      <3>1. /\ Len(cursorJournal') \in Nat /\ Len(routerJournal') \in Nat
            /\ Len(semanticJournal') \in Nat /\ Len(checkpoints') \in Nat
        BY <2>3, <2>4, LenProperties
      <3>2. QED
        BY <2>1, <3>1 DEF Refreshed, Charge, InitialMark
    <2>7. TypeOK'
      BY <1>1, <2>1, <2>3, <2>4, <2>5, <2>6, InitialMarkType
         DEF TypeOK, Return, state, AllTokens, Calls, Stages
    <2>8. \A i \in 1..Len(checkpoints') : checkpoints'[i].lifecycle = "Active"
      <3>1. \A i \in 1..Len(kept) : kept[i].lifecycle = "Active"
        BY KeptActive
      <3>2. \A i \in 1..Len(kept) : shifted[i].lifecycle = kept[i].lifecycle
        <4>1. \A i \in 1..Len(kept) : kept[i] \in TokenMark
          BY <1>1, ElementOfSeq
        <4>2. QED
          BY <4>1 DEF Shift, TokenMark
      <3>3. QED
        BY <2>1, <2>4, <3>1, <3>2
    <2>9. CallShape'
      BY <2>1, <2>8, InitialMarkType DEF CallShape, Return, state, Running, Restoring
    <2>10. QED
      BY <2>7, <2>9
  <1>5. CASE ~Compactable(kept, prefix)
    BY <1>5, InitialMarkType DEF Commit, Poison, Return, TypeOK, CallShape, AllTokens,
       journals, window, Lifecycles, Calls, Stages, Running, Restoring
  <1>6. QED
    BY <1>4, <1>5

LEMMA NextTyped ==
  ASSUME TypeOK, CallShape, [Next]_vars
  PROVE  TypeOK' /\ CallShape'
  <1>1. ASSUME NEW t \in AllTokens, BeginProbe(t)
        PROVE  TypeOK' /\ CallShape'
    BY <1>1, CurrentMarkType, AutomatonAssumption DEF BeginProbe, Structural, StartTransition, TypeOK, CallShape,
       state, journals, window, AllTokens, Calls, Stages, Running, Restoring
  <1>2. ASSUME NEW t \in AllTokens, BeginAdvance(t)
        PROVE  TypeOK' /\ CallShape'
    BY <1>2, CurrentMarkType, AutomatonAssumption DEF BeginAdvance, Structural, StartTransition, TypeOK, CallShape,
       state, journals, window, AllTokens, Calls, Stages, Running, Restoring
  <1>3. ASSUME NEW n \in 0..MaxSequence, BeginSequence(n)
        PROVE  TypeOK' /\ CallShape'
    <2>1. n \in Nat
      OBVIOUS
    <2>2. TypeOK'
      BY <1>3, <2>1, CurrentMarkType DEF BeginSequence, TypeOK, state, journals, window,
         Calls, Stages
    <2>3. CallShape'
      BY <1>3, CurrentMarkType DEF BeginSequence, CallShape, state, window, Running, Restoring
    <2>4. QED
      BY <2>2, <2>3
  <1>4. CASE BeginMask
    BY <1>4 DEF BeginMask, TypeOK, CallShape, state, journals, window, AllTokens,
       Calls, Stages, Running, Restoring
  <1>5. ASSUME NEW n \in 0..MaxRollback, BeginRollback(n)
        PROVE  TypeOK' /\ CallShape'
    BY <1>5 DEF BeginRollback, TypeOK, CallShape, state, journals, window,
       Calls, Stages, Running, Restoring
  <1>6. ASSUME NEW t \in AllTokens, SequenceToken(t)
        PROVE  TypeOK' /\ CallShape'
    <2>1. bytesLeft' \in Nat /\ todo' \in Nat
      <3>1. t # Eos => Width[t] \in Nat
        BY AutomatonAssumption DEF AllTokens
      <3>2. todo \in Nat /\ todo > 0
        BY <1>6 DEF SequenceToken, TypeOK
      <3>3. todo' = todo - 1 /\ bytesLeft' = IF t = Eos THEN 1 ELSE Width[t]
        BY <1>6 DEF SequenceToken, StartTransition
      <3>4. QED
        BY <3>1, <3>2, <3>3
    <2>2. TypeOK'
      BY <1>6, <2>1 DEF SequenceToken, StartTransition, TypeOK, state, journals, window, Stages
    <2>3. CallShape'
      BY <1>6 DEF SequenceToken, Structural, StartTransition, CallShape, state, window,
         Running, Restoring
    <2>4. QED
      BY <2>2, <2>3
  <1>7. ASSUME NEW t \in AllTokens, SequenceRejected(t)
        PROVE  TypeOK' /\ CallShape'
    BY <1>7 DEF SequenceRejected, UndoWith, RestoreOrder, TypeOK, CallShape,
       state, journals, window, Calls, Stages, Running, Restoring
  <1>8. ASSUME NEW t \in AllTokens, MaskProbe(t)
        PROVE  TypeOK' /\ CallShape'
    BY <1>8, CurrentMarkType, AutomatonAssumption DEF MaskProbe, Structural, StartTransition, TypeOK, CallShape,
       state, journals, window, AllTokens, Calls, Stages, Running, Restoring
  <1>9. CASE SequenceEnd
    BY <1>9 DEF SequenceEnd, UndoWith, RestoreOrder, TypeOK, CallShape,
       state, journals, window, Calls, Stages, Running, Restoring
  <1>10. CASE MaskEnd
    BY <1>10, InitialMarkType DEF MaskEnd, Return, TypeOK, CallShape, AllTokens,
       state, journals, window, Calls, Stages, Running, Restoring
  <1>11. ASSUME NEW new \in CursorStates, FeedByte(new)
         PROVE  TypeOK' /\ CallShape'
    <2>1. /\ cursorJournal' \in Seq(CursorStates)
          /\ Len(cursorJournal') = Len(cursorJournal) + 1
          /\ Len(cursorJournal') <= MaxRecords
      <3>1. cursorJournal' = Append(cursorJournal, cursor) /\ Len(cursorJournal) + 1 <= MaxRecords
        BY <1>11, LimitAssumption, Lengths DEF FeedByte, CursorPush, Headroom
      <3>2. QED
        BY <3>1, AppendProperties DEF TypeOK
    <2>2. TypeOK'
      BY <1>11, <2>1 DEF FeedByte, CursorPush, Headroom, TypeOK, window, call, Stages
    <2>3. CallShape'
      BY <1>11 DEF FeedByte, CursorPush, Headroom, CallShape, window, call, Running, Restoring
    <2>4. QED
      BY <2>2, <2>3
  <1>12. ASSUME NEW new \in CursorStates, NEW length \in arena..MaxArena,
                CursorRecord(new, length)
         PROVE  TypeOK' /\ CallShape'
    <2>1. /\ cursorJournal' \in Seq(CursorStates)
          /\ Len(cursorJournal') = Len(cursorJournal) + 1
          /\ Len(cursorJournal') <= MaxRecords
      <3>1. cursorJournal' = Append(cursorJournal, cursor) /\ Len(cursorJournal) + 1 <= MaxRecords
        BY <1>12, LimitAssumption, Lengths DEF CursorRecord, CursorPush
      <3>2. QED
        BY <3>1, AppendProperties DEF TypeOK
    <2>2. TypeOK'
      BY <1>12, <2>1 DEF CursorRecord, CursorPush, TypeOK, window, call, Stages
    <2>3. CallShape'
      BY <1>12 DEF CursorRecord, CursorPush, CallShape, window, call, Running, Restoring
    <2>4. QED
      BY <2>2, <2>3
  <1>13. CASE CursorDone
    BY <1>13 DEF CursorDone, TypeOK, CallShape, state, journals, window,
       Calls, Stages, Running, Restoring
  <1>14. ASSUME NEW new \in RouterStates, RouterEvent(new)
         PROVE  TypeOK' /\ CallShape'
    <2>1. /\ routerJournal' \in Seq(RouterStates)
          /\ Len(routerJournal') = Len(routerJournal) + 1
          /\ Len(routerJournal') <= MaxRecords
      <3>1. routerJournal' = Append(routerJournal, router) /\ Len(routerJournal) + 1 <= MaxRecords
        BY <1>14, LimitAssumption, Lengths DEF RouterEvent
      <3>2. QED
        BY <3>1, AppendProperties DEF TypeOK
    <2>2. TypeOK'
      BY <1>14, <2>1 DEF RouterEvent, TypeOK, window, call, Stages
    <2>3. CallShape'
      BY <1>14 DEF RouterEvent, CallShape, window, call, Running, Restoring
    <2>4. QED
      BY <2>2, <2>3
  <1>15. ASSUME NEW new \in SemanticStates, SemanticEvent(new)
         PROVE  TypeOK' /\ CallShape'
    <2>1. /\ semanticJournal' \in Seq(SemanticStates)
          /\ Len(semanticJournal') = Len(semanticJournal) + 1
          /\ Len(semanticJournal') <= MaxRecords
      <3>1. semanticJournal' = Append(semanticJournal, semantic) /\ Len(semanticJournal) + 1 <= MaxRecords
        BY <1>15, LimitAssumption, Lengths DEF SemanticEvent
      <3>2. QED
        BY <3>1, AppendProperties DEF TypeOK
    <2>2. TypeOK'
      BY <1>15, <2>1 DEF SemanticEvent, TypeOK, window, call, Stages
    <2>3. CallShape'
      BY <1>15 DEF SemanticEvent, CallShape, window, call, Running, Restoring
    <2>4. QED
      BY <2>2, <2>3
  <1>16. CASE EventsDone
    <2>1. bytesLeft' \in Nat
      <3>1. bytesLeft \in Nat /\ bytesLeft > 0
        BY <1>16 DEF EventsDone, TypeOK, CallShape
      <3>2. bytesLeft' = bytesLeft - 1
        BY <1>16 DEF EventsDone
      <3>3. QED
        BY <3>1, <3>2
    <2>2. TypeOK'
      BY <1>16, <2>1 DEF EventsDone, TypeOK, state, journals, window, Stages
    <2>3. CallShape'
      BY <1>16 DEF EventsDone, CallShape, state, journals, window, Running, Restoring
    <2>4. QED
      BY <2>2, <2>3
  <1>17. CASE Deny
    BY <1>17 DEF Deny, UndoWith, RestoreOrder, TypeOK, CallShape,
       state, journals, window, Calls, Stages, Running, Restoring
  <1>18. CASE Fail
    BY <1>18 DEF Fail, UndoWith, RestoreOrder, TypeOK, CallShape,
       state, journals, window, Calls, Stages, Running, Restoring
  <1>19. CASE FinishRun
    BY <1>19, AutomatonAssumption DEF FinishRun, Transitioned, Successor, UndoWith, RestoreOrder, TypeOK, CallShape,
       journals, window, AllTokens, Lifecycles, Calls, Stages, Running, Restoring
  <1>20. CASE Commit
    BY <1>20, CommitTyped
  <1>21. CASE CommitRefused
    BY <1>21 DEF CommitRefused, UndoWith, RestoreOrder, TypeOK, CallShape,
       state, journals, window, Calls, Stages, Running, Restoring
  <1>22. CASE RestoreBreaks
    BY <1>22, InitialMarkType DEF RestoreBreaks, Poison, Return, TypeOK, CallShape, AllTokens,
       journals, window, Lifecycles, Calls, Stages, Running, Restoring
  <1>23. CASE RestoreSemantic
    <2>1. CASE mark.semantic <= Len(semanticJournal)
      <3>1. mark.semantic \in 0..Len(semanticJournal)
        BY <2>1, MarkFields, Lengths DEF TypeOK
      <3>2. /\ semantic' \in SemanticStates
            /\ semanticJournal' \in Seq(SemanticStates)
            /\ Len(semanticJournal') <= MaxRecords
        <4>1. /\ semantic' = ValueAt(semanticJournal, mark.semantic, semantic)
              /\ semanticJournal' = Truncate(semanticJournal, mark.semantic)
          BY <1>23, <2>1 DEF RestoreSemantic
        <4>2. /\ semanticJournal \in Seq(SemanticStates) /\ Len(semanticJournal) <= MaxRecords
              /\ semantic \in SemanticStates /\ mark.semantic \in Nat
          BY MarkFields DEF TypeOK
        <4>3. /\ Truncate(semanticJournal, mark.semantic) \in Seq(SemanticStates)
              /\ Len(Truncate(semanticJournal, mark.semantic)) = mark.semantic
          BY <3>1, <4>2, TruncateFacts
        <4>4. ValueAt(semanticJournal, mark.semantic, semantic) \in SemanticStates
          BY <4>2, ValueAtType
        <4>5. mark.semantic <= MaxRecords
          BY <2>1, <4>2, LimitAssumption, Lengths
        <4>6. QED
          BY <4>1, <4>3, <4>4, <4>5
      <3>3. TypeOK'
        BY <1>23, <2>1, <3>2 DEF RestoreSemantic, RestoreOrder, TypeOK, window, Stages
      <3>4. CallShape'
        BY <1>23, <2>1 DEF RestoreSemantic, RestoreOrder, CallShape, window, Running, Restoring
      <3>5. QED
        BY <3>3, <3>4
    <2>2. CASE ~(mark.semantic <= Len(semanticJournal))
      BY <1>23, <2>2, InitialMarkType DEF RestoreSemantic, Poison, Return, TypeOK, CallShape,
         AllTokens, window, Lifecycles, Calls, Stages, Running, Restoring
    <2>3. QED
      BY <2>1, <2>2
  <1>24. CASE RestoreRouter
    <2>1. CASE mark.router <= Len(routerJournal)
      <3>1. mark.router \in 0..Len(routerJournal)
        BY <2>1, MarkFields, Lengths DEF TypeOK
      <3>2. /\ router' \in RouterStates
            /\ routerJournal' \in Seq(RouterStates)
            /\ Len(routerJournal') <= MaxRecords
        <4>1. /\ router' = ValueAt(routerJournal, mark.router, router)
              /\ routerJournal' = Truncate(routerJournal, mark.router)
          BY <1>24, <2>1 DEF RestoreRouter
        <4>2. /\ routerJournal \in Seq(RouterStates) /\ Len(routerJournal) <= MaxRecords
              /\ router \in RouterStates /\ mark.router \in Nat
          BY MarkFields DEF TypeOK
        <4>3. /\ Truncate(routerJournal, mark.router) \in Seq(RouterStates)
              /\ Len(Truncate(routerJournal, mark.router)) = mark.router
          BY <3>1, <4>2, TruncateFacts
        <4>4. ValueAt(routerJournal, mark.router, router) \in RouterStates
          BY <4>2, ValueAtType
        <4>5. mark.router <= MaxRecords
          BY <2>1, <4>2, LimitAssumption, Lengths
        <4>6. QED
          BY <4>1, <4>3, <4>4, <4>5
      <3>3. TypeOK'
        BY <1>24, <2>1, <3>2 DEF RestoreRouter, RestoreOrder, TypeOK, window, Stages
      <3>4. CallShape'
        BY <1>24, <2>1 DEF RestoreRouter, RestoreOrder, CallShape, window, Running, Restoring
      <3>5. QED
        BY <3>3, <3>4
    <2>2. CASE ~(mark.router <= Len(routerJournal))
      BY <1>24, <2>2, InitialMarkType DEF RestoreRouter, Poison, Return, TypeOK, CallShape,
         AllTokens, window, Lifecycles, Calls, Stages, Running, Restoring
    <2>3. QED
      BY <2>1, <2>2
  <1>25. CASE RestoreCursor
    <2>1. CASE mark.cursor <= Len(cursorJournal) /\ mark.arena <= arena
      <3>1. mark.cursor \in 0..Len(cursorJournal)
        BY <2>1, MarkFields, Lengths DEF TypeOK
      <3>2. /\ cursor' \in CursorStates
            /\ cursorJournal' \in Seq(CursorStates)
            /\ Len(cursorJournal') <= MaxRecords
        <4>1. /\ cursor' = ValueAt(cursorJournal, mark.cursor, cursor)
              /\ cursorJournal' = Truncate(cursorJournal, mark.cursor)
          BY <1>25, <2>1 DEF RestoreCursor
        <4>2. /\ cursorJournal \in Seq(CursorStates) /\ Len(cursorJournal) <= MaxRecords
              /\ cursor \in CursorStates /\ mark.cursor \in Nat
          BY MarkFields DEF TypeOK
        <4>3. /\ Truncate(cursorJournal, mark.cursor) \in Seq(CursorStates)
              /\ Len(Truncate(cursorJournal, mark.cursor)) = mark.cursor
          BY <3>1, <4>2, TruncateFacts
        <4>4. ValueAt(cursorJournal, mark.cursor, cursor) \in CursorStates
          BY <4>2, ValueAtType
        <4>5. mark.cursor <= MaxRecords
          BY <2>1, <4>2, LimitAssumption, Lengths
        <4>6. QED
          BY <4>1, <4>3, <4>4, <4>5
      <3>3. arena' \in 0..MaxArena
        BY <1>25, <2>1, MarkFields, LimitAssumption DEF RestoreCursor, TypeOK
      <3>4. TypeOK'
        BY <1>25, <2>1, <3>2, <3>3 DEF RestoreCursor, RestoreOrder, TypeOK, window, Stages
      <3>5. CallShape'
        BY <1>25, <2>1 DEF RestoreCursor, RestoreOrder, CallShape, window, Running, Restoring
      <3>6. QED
        BY <3>4, <3>5
    <2>2. CASE ~(mark.cursor <= Len(cursorJournal) /\ mark.arena <= arena)
      BY <1>25, <2>2, InitialMarkType DEF RestoreCursor, Poison, Return, TypeOK, CallShape,
         AllTokens, window, Lifecycles, Calls, Stages, Running, Restoring
    <2>3. QED
      BY <2>1, <2>2
  <1>26. CASE RestoreRest
    <2>1. /\ trace' \in Seq(AllTokens)
          /\ Len(trace') <= Len(trace)
      <3>1. trace \in Seq(AllTokens) /\ mark.traceLen \in Nat
        BY MarkFields DEF TypeOK
      <3>2. CASE mark.traceLen < Len(trace)
        <4>1. mark.traceLen \in 0..Len(trace)
          BY <3>1, <3>2, Lengths
        <4>2. trace' = Truncate(trace, mark.traceLen)
          BY <1>26, <3>2 DEF RestoreRest
        <4>3. QED
          BY <3>1, <3>2, <4>1, <4>2, TruncateFacts
      <3>3. CASE ~(mark.traceLen < Len(trace))
        BY <1>26, <3>1, <3>3, Lengths DEF RestoreRest
      <3>4. QED
        BY <3>2, <3>3
    <2>2. retained' \in Nat
      BY <1>26, Lengths DEF RestoreRest, Refreshed, Charge, InitialMark
    <2>3. dfa' \in DfaStates /\ lifecycle' \in Lifecycles
      BY <1>26 DEF RestoreRest, TypeOK, TokenMark
    <2>4. Len(trace') \in Nat /\ Len(trace) \in Nat
      BY <2>1, LenProperties, Lengths
    <2>5. /\ op' \in Calls /\ stage' \in Stages /\ mark' \in TokenMark
          /\ token' \in AllTokens /\ bytesLeft' \in Nat /\ todo' \in Nat
          /\ candidates' \subseteq AllTokens
          /\ reply' \in {"none", "allow", "deny", "error"}
      BY <1>26, InitialMarkType DEF RestoreRest, AfterRestore, Return, TypeOK, AllTokens,
         Calls, Stages
    <2>6. Len(trace') <= MaxTrace
      BY <2>1, <2>4, LimitAssumption DEF TypeOK
    <2>7. TypeOK'
      BY <1>26, <2>1, <2>2, <2>3, <2>5, <2>6 DEF RestoreRest, TypeOK, journals
    <2>8. /\ lifecycle' = "Active" /\ checkpoints' = checkpoints
          /\ \A i \in 1..Len(checkpoints) : checkpoints[i].lifecycle = "Active"
          /\ mark'.lifecycle = "Active"
      BY <1>26, InitialMarkType DEF RestoreRest, AfterRestore, Return, CallShape
    <2>9. CASE op = "rollback" \/ (op = "mask" /\ reply # "error")
      <3>1. /\ stage' = IF op = "rollback" THEN "unwind" ELSE "next"
            /\ op' = op /\ todo' = todo
        BY <1>26, <2>9 DEF RestoreRest, AfterRestore
      <3>2. op = "rollback" => todo <= Len(checkpoints)
        BY DEF CallShape
      <3>3. QED
        BY <2>7, <2>8, <2>9, <3>1, <3>2 DEF CallShape, Running, Restoring
    <2>10. CASE ~(op = "rollback" \/ (op = "mask" /\ reply # "error"))
      BY <1>26, <2>7, <2>8, <2>10 DEF RestoreRest, AfterRestore, Return, CallShape, Running, Restoring
    <2>11. QED
      BY <2>9, <2>10
  <1>27. CASE PopMark
    <2>1. Len(checkpoints) \in Nat \ {0}
      <3>1. todo \in Nat /\ todo > 0 /\ op = "rollback" /\ todo <= Len(checkpoints)
        BY <1>27 DEF PopMark, TypeOK, CallShape
      <3>2. QED
        BY <3>1, Lengths
    <2>2. /\ checkpoints' \in Seq(TokenMark)
          /\ Len(checkpoints') = Len(checkpoints) - 1
          /\ mark' \in TokenMark
      <3>1. checkpoints' = Truncate(checkpoints, Len(checkpoints) - 1)
            /\ mark' = checkpoints[Len(checkpoints)]
        BY <1>27 DEF PopMark, Front, Last, Truncate
      <3>2. checkpoints \in Seq(TokenMark)
        BY DEF TypeOK
      <3>3. /\ Len(checkpoints) - 1 \in 0..Len(checkpoints)
            /\ Len(checkpoints) \in 1..Len(checkpoints)
        BY <2>1
      <3>4. QED
        BY <3>1, <3>2, <3>3, ElementOfSeq, TruncateFacts
    <2>3. /\ Len(checkpoints') <= MaxRollback
          /\ todo' \in Nat
      BY <1>27, <2>1, <2>2, LimitAssumption DEF PopMark, TypeOK
    <2>4. TypeOK'
      BY <1>27, <2>2, <2>3 DEF PopMark, RestoreOrder, TypeOK, state, journals, Stages
    <2>5. /\ mark'.lifecycle = "Active"
          /\ \A i \in 1..Len(checkpoints') : checkpoints'[i].lifecycle = "Active"
      <3>1. /\ \A i \in 1..(Len(checkpoints) - 1) : checkpoints'[i] = checkpoints[i]
            /\ mark' = checkpoints[Len(checkpoints)]
        BY <1>27, <2>1, TruncateFacts DEF PopMark, Front, Last, Truncate, TypeOK
      <3>2. QED
        BY <2>1, <2>2, <3>1 DEF CallShape
    <2>6. todo' <= Len(checkpoints')
      BY <1>27, <2>1, <2>2 DEF PopMark, CallShape, TypeOK
    <2>7. CallShape'
      BY <1>27, <2>5, <2>6 DEF PopMark, RestoreOrder, CallShape, state, journals,
         Running, Restoring
    <2>8. QED
      BY <2>4, <2>7
  <1>28. CASE RollbackEnd
    BY <1>28, InitialMarkType DEF RollbackEnd, Return, TypeOK, CallShape, AllTokens,
       state, journals, window, Calls, Stages, Running, Restoring
  <1>29. CASE Reset
    BY <1>29, AutomatonAssumption, ComponentAssumption, LimitAssumption
       DEF Reset, TypeOK, CallShape, call, Lifecycles, Running, Restoring
  <1>30. CASE UNCHANGED vars
    BY <1>30 DEF vars, state, journals, window, call, TypeOK, CallShape
  <1>31. QED
    BY <1>1, <1>2, <1>3, <1>4, <1>5, <1>6, <1>7, <1>8, <1>9, <1>10, <1>11, <1>12, <1>13,
       <1>14, <1>15, <1>16, <1>17, <1>18, <1>19, <1>20, <1>21, <1>22, <1>23, <1>24, <1>25,
       <1>26, <1>27, <1>28, <1>29, <1>30
       DEF Next, Begin, Continue, RunTransition, Restore

\* A Guide's state has its types after any sequence of calls, failures and
\* restores, and a call is only ever where CallShape says it can be.
THEOREM TypeCorrect == Spec => [](TypeOK /\ CallShape)
  <1>1. Init => TypeOK /\ CallShape
    BY InitTyped
  <1>2. (TypeOK /\ CallShape) /\ [Next]_vars => (TypeOK /\ CallShape)'
    BY NextTyped
  <1>3. QED
    BY <1>1, <1>2, PTL DEF Spec

-----------------------------------------------------------------------------
(* The inductive invariant.                                                *)

LEMMA MarkTypes ==
  ASSUME TypeOK
  PROVE  /\ mark \in TokenMark /\ CurrentMark \in TokenMark
         /\ \A i \in 1..Len(checkpoints) : checkpoints[i] \in TokenMark
  BY CurrentMarkType, ElementOfSeq DEF TypeOK

LEMMA NoLaterTransitive ==
  ASSUME NEW a \in TokenMark, NEW b \in TokenMark, NEW c \in TokenMark,
         NoLaterThan(a, b), NoLaterThan(b, c)
  PROVE  NoLaterThan(a, c)
  BY MarkFields DEF NoLaterThan

LEMMA NoLaterReflexive ==
  ASSUME NEW m \in TokenMark
  PROVE  NoLaterThan(m, m)
  BY MarkFields DEF NoLaterThan

LEMMA SubtractMonotone ==
  ASSUME NEW a \in Nat, NEW b \in Nat, NEW p \in Nat, a <= b
  PROVE  a - p <= b - p
  OBVIOUS

\* The value at a held mark is the one it had when a record is pushed on top.
LEMMA ValueAtEnd ==
  ASSUME TypeOK
  PROVE  ValueAt(semanticJournal, Len(semanticJournal), semantic) = semantic
  BY Lengths DEF ValueAt

-----------------------------------------------------------------------------
(* Steps that only push records, or only move the call along.              *)

Growing ==
  /\ Len(cursorJournal) <= Len(cursorJournal') /\ Len(routerJournal) <= Len(routerJournal')
  /\ Len(semanticJournal) <= Len(semanticJournal') /\ arena <= arena'
  /\ \A p \in 0..Len(semanticJournal) :
       ValueAt(semanticJournal', p, semantic') = ValueAt(semanticJournal, p, semantic)
  /\ Reach[semantic'] <= arena'

ForwardStep ==
  /\ UNCHANGED window
  /\ lifecycle # "Poisoned" /\ lifecycle' # "Poisoned"
  /\ Growing
  /\ stage' \notin {"restoreRouter", "restoreCursor", "restoreRest"}
  /\ \/ HoldsMark /\ HoldsMark' /\ mark' = mark /\ op # "rollback" /\ op' # "rollback"
     \/ /\ ~HoldsMark /\ UNCHANGED <<journals, arena>>
        /\ HoldsMark' => mark' = CurrentMark /\ op' # "rollback"

LEMMA ForwardOrdered ==
  ASSUME IInv, TypeOK', ForwardStep
  PROVE  MarksOrdered'
  <1>1. /\ CurrentMark' \in TokenMark /\ mark' \in TokenMark /\ TypeOK
        /\ UNCHANGED <<checkpoints, trace>>
    <2>1. /\ Len(cursorJournal') \in Nat /\ Len(routerJournal') \in Nat
          /\ Len(semanticJournal') \in Nat /\ Len(trace') \in Nat /\ arena' \in Nat
      BY LenProperties, LimitAssumption DEF TypeOK
    <2>2. QED
      BY <2>1 DEF CurrentMark, TokenMark, TypeOK, IInv, ForwardStep, window
  <1>2. NoLaterThan(CurrentMark, CurrentMark')
    BY <1>1, Lengths DEF NoLaterThan, CurrentMark, ForwardStep, Growing
  <1>3. MarksOrdered
    BY DEF IInv
  <1>4. \A i \in 1..Len(checkpoints) : NoLaterThan(checkpoints[i], CurrentMark')
    BY <1>1, <1>2, <1>3, MarkTypes, NoLaterTransitive DEF MarksOrdered
  <1>5. ASSUME HoldsMark'
        PROVE  /\ NoLaterThan(mark', CurrentMark')
               /\ \A i \in 1..Len(checkpoints) : NoLaterThan(checkpoints[i], mark')
    <2>1. CASE HoldsMark /\ mark' = mark
      BY <1>1, <1>2, <1>3, <2>1, MarkTypes, NoLaterTransitive DEF MarksOrdered
    <2>2. CASE mark' = CurrentMark
      BY <1>2, <1>3, <2>2 DEF MarksOrdered
    <2>3. QED
      BY <1>5, <2>1, <2>2 DEF ForwardStep
  <1>6. QED
    BY <1>1, <1>3, <1>4, <1>5 DEF MarksOrdered

LEMMA ForwardReferences ==
  ASSUME IInv, TypeOK', ForwardStep
  PROVE  NoDanglingReference'
  <1>1. TypeOK /\ MarksOrdered /\ NoDanglingReference
    BY DEF IInv
  <1>2. ASSUME NEW m \in TokenMark, NoLaterThan(m, CurrentMark), ReachesWithin(m)
        PROVE  Reach[ValueAt(semanticJournal', m.semantic, semantic')] <= m.arena
    <2>1. m.semantic \in 0..Len(semanticJournal)
      BY <1>1, <1>2, MarkFields, Lengths DEF NoLaterThan, CurrentMark
    <2>2. QED
      BY <1>2, <2>1 DEF ForwardStep, Growing, ReachesWithin
  <1>3. UNCHANGED checkpoints /\ Reach[semantic'] <= arena'
    BY DEF ForwardStep, window, Growing
  <1>4. \A i \in 1..Len(checkpoints) : ReachesWithin(checkpoints[i])'
    <2>1. ASSUME NEW i \in 1..Len(checkpoints)
          PROVE  ReachesWithin(checkpoints[i])'
      <3>1. /\ checkpoints[i] \in TokenMark /\ NoLaterThan(checkpoints[i], CurrentMark)
            /\ ReachesWithin(checkpoints[i])
        BY <1>1, MarkTypes DEF MarksOrdered, NoDanglingReference
      <3>2. QED
        BY <1>2, <1>3, <3>1 DEF ReachesWithin
    <2>2. QED
      BY <2>1
  <1>5. ASSUME HoldsMark'
        PROVE  ReachesWithin(mark)'
    <2>1. CASE HoldsMark /\ mark' = mark
      BY <1>1, <1>2, <2>1, MarkTypes DEF MarksOrdered, NoDanglingReference, ReachesWithin
    <2>2. CASE mark' = CurrentMark
      <3>1. ReachesWithin(CurrentMark)
        BY <1>1, ValueAtEnd DEF ReachesWithin, CurrentMark, NoDanglingReference
      <3>2. QED
        BY <1>1, <1>2, <2>2, <3>1, MarkTypes, NoLaterReflexive DEF ReachesWithin
    <2>3. QED
      BY <1>5, <2>1, <2>2 DEF ForwardStep
  <1>6. QED
    BY <1>3, <1>4, <1>5 DEF NoDanglingReference

LEMMA ForwardLedger ==
  ASSUME IInv, TypeOK', ForwardStep
  PROVE  LedgerTracks' /\ WindowStartsJournals' /\ RestoreProgress' /\ NeverPoisoned'
  <1>1. TypeOK /\ LedgerTracks /\ WindowStartsJournals /\ UNCHANGED <<checkpoints, retained>>
    BY DEF IInv, ForwardStep, window
  <1>2. CASE HoldsMark /\ HoldsMark' /\ mark' = mark /\ op # "rollback" /\ op' # "rollback"
    <2>1. LedgerTracks'
      BY <1>1, <1>2 DEF LedgerTracks, ForwardStep
    <2>2. WindowStartsJournals'
      BY <1>1, <1>2 DEF WindowStartsJournals, ForwardStep
    <2>3. QED
      BY <2>1, <2>2 DEF ForwardStep, RestoreProgress, NeverPoisoned
  <1>3. CASE /\ ~HoldsMark /\ UNCHANGED <<journals, arena>>
             /\ HoldsMark' => mark' = CurrentMark /\ op' # "rollback"
    <2>1. Held' = Held /\ lifecycle # "Poisoned"
      BY <1>1, <1>3 DEF Held, journals, ForwardStep
    <2>2. retained = Held /\ Held <= MaxRetained
      BY <1>1, <1>3, <2>1 DEF LedgerTracks
    <2>3. HoldsMark' => retained = mark'.cursor + mark'.router + mark'.semantic + Len(checkpoints)
      BY <1>1, <1>3, <2>2, Lengths DEF Held, CurrentMark
    <2>4. LedgerTracks'
      BY <1>1, <1>3, <2>1, <2>2, <2>3 DEF LedgerTracks
    <2>5. WindowStartsJournals'
      BY <1>1, <1>3, <2>1 DEF WindowStartsJournals, CurrentMark, journals
    <2>6. QED
      BY <2>4, <2>5 DEF ForwardStep, RestoreProgress, NeverPoisoned
  <1>4. QED
    BY <1>2, <1>3 DEF ForwardStep

LEMMA ForwardKeeps ==
  ASSUME IInv, TypeOK', CallShape', ForwardStep
  PROVE  IInv'
  BY ForwardOrdered, ForwardReferences, ForwardLedger DEF IInv

-----------------------------------------------------------------------------
(* Commit: what compaction keeps.                                          *)

\* The checkpoints a commit keeps are in order, lie within the journals, and
\* are what the size it predicted was computed from.
LEMMA CommitKeeps ==
  ASSUME IInv, stage = "commit", MaxRollback > 0
  PROVE  LET kept == KeptAfterPush(mark)
         IN  /\ kept \in Seq(TokenMark) /\ Len(kept) \in Nat \ {0} /\ kept # <<>>
             /\ Len(kept) <= MaxRollback
             /\ \A i \in 1..Len(kept) :
                  /\ kept[i] \in TokenMark
                  /\ NoLaterThan(kept[i], CurrentMark)
                  /\ ReachesWithin(kept[i])
                  /\ \A j \in 1..i : NoLaterThan(kept[j], kept[i])
             /\ RetainedStartAfterPush(mark) = kept[1]
             /\ RetainedLenAfterPush = Len(kept)
  <1> DEFINE kept == KeptAfterPush(mark)
             pushed == Append(checkpoints, mark)
  <1>1. /\ TypeOK /\ MarksOrdered /\ NoDanglingReference /\ HoldsMark
        /\ mark \in TokenMark /\ checkpoints \in Seq(TokenMark)
        /\ Len(checkpoints) \in Nat /\ Len(checkpoints) <= MaxRollback /\ MaxRollback \in Nat
    <2>1. TypeOK /\ MarksOrdered /\ NoDanglingReference /\ HoldsMark
      BY DEF IInv, HoldsMark
    <2>2. QED
      BY <2>1, Lengths, LimitAssumption DEF TypeOK
  <1>2. /\ Len(pushed) = Len(checkpoints) + 1
        /\ \A i \in 1..Len(checkpoints) : pushed[i] = checkpoints[i]
        /\ pushed[Len(checkpoints) + 1] = mark
    BY <1>1, AppendProperties
  <1>3. /\ kept \in Seq(TokenMark) /\ Len(kept) <= MaxRollback /\ Len(kept) \in Nat
    BY <1>1, KeptFacts
  <1>4. PICK d \in {0, 1} :
          /\ d = Len(checkpoints) + 1 - Len(kept)
          /\ d = IF Len(checkpoints) < MaxRollback THEN 0 ELSE 1
          /\ \A i \in 1..Len(kept) : kept[i] = pushed[i + d]
    <2>1. LET e == Len(checkpoints) + 1 - Len(kept)
          IN  /\ e = IF Len(checkpoints) < MaxRollback THEN 0 ELSE 1
              /\ \A i \in 1..Len(kept) : kept[i] = pushed[i + e]
      BY <1>1, KeptFacts
    <2>2. QED
      BY <2>1
  <1> HIDE DEF pushed, kept
  <1>5. Len(kept) \in Nat \ {0} /\ kept # <<>>
    <2>1. Len(kept) = Len(checkpoints) + 1 - d
      BY <1>1, <1>3, <1>4
    <2>2. Len(kept) > 0
      BY <1>1, <1>4, <2>1
    <2>3. QED
      BY <1>3, <2>2, EmptySeq
  <1>6. ASSUME NEW i \in 1..Len(pushed)
        PROVE  /\ pushed[i] \in TokenMark
               /\ NoLaterThan(pushed[i], CurrentMark)
               /\ ReachesWithin(pushed[i])
               /\ \A j \in 1..i : NoLaterThan(pushed[j], pushed[i])
    <2>1. CASE i \in 1..Len(checkpoints)
      <3>1. \A j \in 1..i : pushed[j] = checkpoints[j]
        BY <1>1, <1>2, <2>1
      <3>2. pushed[i] = checkpoints[i]
        BY <1>2, <2>1
      <3>3. QED
        BY <1>1, <2>1, <3>1, <3>2, MarkTypes DEF MarksOrdered, NoDanglingReference
    <2>2. CASE i = Len(checkpoints) + 1
      <3>1. pushed[i] = mark
        BY <1>2, <2>2
      <3>2. ASSUME NEW j \in 1..i
            PROVE  NoLaterThan(pushed[j], mark)
        <4>1. CASE j \in 1..Len(checkpoints)
          BY <1>1, <1>2, <4>1 DEF MarksOrdered
        <4>2. CASE j = i
          BY <1>1, <3>1, <4>2, NoLaterReflexive
        <4>3. QED
          BY <1>1, <2>2, <4>1, <4>2
      <3>3. QED
        BY <1>1, <3>1, <3>2 DEF MarksOrdered, NoDanglingReference
    <2>3. QED
      BY <1>1, <1>2, <2>1, <2>2
  <1>7. ASSUME NEW i \in 1..Len(kept)
        PROVE  /\ kept[i] \in TokenMark
               /\ NoLaterThan(kept[i], CurrentMark)
               /\ ReachesWithin(kept[i])
               /\ \A j \in 1..i : NoLaterThan(kept[j], kept[i])
    <2>1. i + d \in 1..Len(pushed) /\ kept[i] = pushed[i + d]
      BY <1>1, <1>2, <1>3, <1>4
    <2>2. \A j \in 1..i : j + d \in 1..(i + d) /\ kept[j] = pushed[j + d]
      BY <1>3, <1>4
    <2>3. QED
      BY <1>6, <2>1, <2>2
  <1>8. RetainedStartAfterPush(mark) = kept[1]
    <2>1. kept[1] = pushed[1 + d]
      BY <1>4, <1>5
    <2>2. CASE Len(checkpoints) < MaxRollback
      <3>1. kept[1] = pushed[1]
        BY <1>4, <2>1, <2>2
      <3>2. CASE checkpoints = <<>>
        BY <1>2, <2>2, <3>1, <3>2, EmptySeq DEF RetainedStartAfterPush
      <3>3. CASE checkpoints # <<>>
        <4>1. 1 \in 1..Len(checkpoints)
          BY <1>1, <3>3, EmptySeq
        <4>2. QED
          BY <1>2, <2>2, <3>1, <3>3, <4>1 DEF RetainedStartAfterPush
      <3>4. QED
        BY <3>2, <3>3
    <2>3. CASE Len(checkpoints) = MaxRollback
      <3>1. kept[1] = pushed[2]
        BY <1>1, <1>4, <2>1, <2>3
      <3>2. CASE Len(checkpoints) = 1
        BY <1>1, <1>2, <2>3, <3>1, <3>2 DEF RetainedStartAfterPush
      <3>3. CASE Len(checkpoints) > 1
        BY <1>1, <1>2, <2>3, <3>1, <3>3 DEF RetainedStartAfterPush
      <3>4. QED
        BY <1>1, <2>3, <3>2, <3>3
    <2>4. QED
      BY <1>1, <2>2, <2>3
  <1>9. RetainedLenAfterPush = Len(kept)
    BY <1>1, <1>3, <1>4 DEF RetainedLenAfterPush
  <1>10. QED
    BY <1>3, <1>5, <1>7, <1>8, <1>9 DEF kept

\* No commit compacts past a mark it keeps, so none poisons the guide.
LEMMA CommitCompactable ==
  ASSUME IInv, stage = "commit"
  PROVE  LET kept == KeptAfterPush(mark)
         IN  /\ CompactPrefix(kept) \in TokenMark
             /\ NoLaterThan(CompactPrefix(kept), CurrentMark)
             /\ Compactable(kept, CompactPrefix(kept))
  <1> DEFINE kept == KeptAfterPush(mark)
             prefix == CompactPrefix(kept)
  <1>1. TypeOK /\ MaxRollback \in Nat /\ CurrentMark \in TokenMark
    BY CurrentMarkType, LimitAssumption DEF IInv
  <1>2. CASE MaxRollback = 0
    <2>1. kept = <<>> /\ prefix = CurrentMark
      BY <1>1, <1>2, KeptFacts DEF CompactPrefix, TypeOK
    <2>2. NoLaterThan(prefix, CurrentMark)
      BY <1>1, <2>1, NoLaterReflexive
    <2>3. Compactable(kept, prefix)
      BY <1>1, <2>1, Lengths, EmptySeq DEF Compactable, CurrentMark
    <2>4. QED
      BY <1>1, <2>1, <2>2, <2>3
  <1>3. CASE MaxRollback > 0
    <2>1. /\ kept # <<>> /\ Len(kept) \in Nat \ {0} /\ prefix = kept[1]
          /\ \A i \in 1..Len(kept) :
               /\ kept[i] \in TokenMark
               /\ NoLaterThan(kept[i], CurrentMark)
               /\ \A j \in 1..i : NoLaterThan(kept[j], kept[i])
      BY <1>3, CommitKeeps DEF CompactPrefix
    <2> HIDE DEF kept, prefix
    <2>2. /\ prefix \in TokenMark /\ NoLaterThan(prefix, CurrentMark)
          /\ \A i \in 1..Len(kept) : NoLaterThan(prefix, kept[i])
      BY <2>1
    <2>3. Compactable(kept, prefix)
      BY <2>2 DEF Compactable, NoLaterThan, CurrentMark
    <2>4. QED
      BY <2>2, <2>3 DEF kept, prefix
  <1>4. QED
    BY <1>1, <1>2, <1>3

\* What a commit does to the journals, the checkpoints and the ledger.
LEMMA CommitStep ==
  ASSUME IInv, Commit
  PROVE  LET kept   == KeptAfterPush(mark)
             prefix == CompactPrefix(kept)
         IN  /\ prefix.cursor \in 0..Len(cursorJournal)
             /\ prefix.router \in 0..Len(routerJournal)
             /\ prefix.semantic \in 0..Len(semanticJournal)
             /\ Len(cursorJournal') = Len(cursorJournal) - prefix.cursor
             /\ Len(routerJournal') = Len(routerJournal) - prefix.router
             /\ Len(semanticJournal') = Len(semanticJournal) - prefix.semantic
             /\ semanticJournal' = DropFirst(semanticJournal, prefix.semantic)
             /\ Len(trace') = Len(trace) + 1
             /\ checkpoints' = [i \in 1..Len(kept) |-> Shift(kept[i], prefix)]
             /\ Len(checkpoints') = Len(kept)
             /\ retained' = Refreshed'
             /\ lifecycle' # "Poisoned" /\ ~HoldsMark' /\ stage' = "idle" /\ op' = "none"
             /\ UNCHANGED <<arena, semantic>>
  <1> DEFINE kept == KeptAfterPush(mark)
             prefix == CompactPrefix(kept)
  <1>1. stage = "commit" /\ TypeOK /\ CallShape /\ mark \in TokenMark
    BY DEF Commit, IInv, TypeOK
  <1>2. prefix \in TokenMark /\ Compactable(kept, prefix)
    BY <1>1, CommitCompactable
  <1>3. /\ cursorJournal' = DropFirst(cursorJournal, prefix.cursor)
        /\ routerJournal' = DropFirst(routerJournal, prefix.router)
        /\ semanticJournal' = DropFirst(semanticJournal, prefix.semantic)
        /\ checkpoints' = [i \in 1..Len(kept) |-> Shift(kept[i], prefix)]
        /\ trace' = Append(trace, token)
        /\ retained' = Refreshed'
        /\ Return
        /\ UNCHANGED state
    BY <1>2 DEF Commit
  <1>4. Len(kept) \in Nat
    BY <1>1, KeptFacts
  <1> HIDE DEF kept, prefix
  <1>5. /\ prefix.cursor \in 0..Len(cursorJournal)
        /\ prefix.router \in 0..Len(routerJournal)
        /\ prefix.semantic \in 0..Len(semanticJournal)
    BY <1>1, <1>2, Lengths, MarkFields DEF Compactable
  <1>6. /\ Len(cursorJournal') = Len(cursorJournal) - prefix.cursor
        /\ Len(routerJournal') = Len(routerJournal) - prefix.router
        /\ Len(semanticJournal') = Len(semanticJournal) - prefix.semantic
    <2>1. /\ cursorJournal \in Seq(CursorStates) /\ routerJournal \in Seq(RouterStates)
          /\ semanticJournal \in Seq(SemanticStates)
      BY <1>1 DEF TypeOK
    <2>2. QED
      BY <1>3, <1>5, <2>1, DropFirstFacts
  <1>7. Len(trace') = Len(trace) + 1
    BY <1>1, <1>3, AppendProperties DEF TypeOK
  <1>8. Len(checkpoints') = Len(kept)
    BY <1>3, <1>4
  <1>9. lifecycle' # "Poisoned" /\ ~HoldsMark' /\ stage' = "idle" /\ op' = "none"
    BY <1>1, <1>3 DEF CallShape, Return, state, HoldsMark
  <1>10. QED
    BY <1>3, <1>5, <1>6, <1>7, <1>8, <1>9 DEF kept, prefix, state

\* The ledger after a commit is the size the commit was admitted with.
LEMMA CommitLedger ==
  ASSUME IInv, TypeOK', Commit
  PROVE  retained' = Held' /\ retained' = RetainedAfterPush(mark)
  <1> DEFINE kept == KeptAfterPush(mark)
             prefix == CompactPrefix(kept)
  <1>1. stage = "commit" /\ TypeOK /\ mark \in TokenMark /\ MaxRollback \in Nat
    BY LimitAssumption DEF Commit, IInv, TypeOK
  <1>2. /\ Len(cursorJournal') = Len(cursorJournal) - prefix.cursor
        /\ Len(routerJournal') = Len(routerJournal) - prefix.router
        /\ Len(semanticJournal') = Len(semanticJournal) - prefix.semantic
        /\ Len(checkpoints') = Len(kept) /\ retained' = Refreshed'
    BY CommitStep
  <1>3. /\ Len(cursorJournal') \in Nat /\ Len(routerJournal') \in Nat
        /\ Len(semanticJournal') \in Nat /\ checkpoints' \in Seq(TokenMark)
    BY LenProperties DEF TypeOK
  <1>4. CASE MaxRollback = 0
    <2>1. kept = <<>> /\ prefix = CurrentMark
      BY <1>1, <1>4, KeptFacts DEF CompactPrefix
    <2>2. checkpoints' = <<>>
      BY <1>2, <1>3, <2>1, EmptySeq
    <2>3. /\ Len(cursorJournal') = 0 /\ Len(routerJournal') = 0 /\ Len(semanticJournal') = 0
      BY <1>1, <1>2, <2>1, Lengths DEF CurrentMark
    <2>4. QED
      BY <1>2, <1>4, <2>2, <2>3, EmptySeq DEF Held, Refreshed, RetainedAfterPush
  <1>5. CASE MaxRollback > 0
    <2>1. /\ kept # <<>> /\ Len(kept) \in Nat \ {0} /\ prefix = kept[1]
          /\ RetainedStartAfterPush(mark) = kept[1]
          /\ RetainedLenAfterPush = Len(kept)
      BY <1>1, <1>5, CommitKeeps DEF CompactPrefix
    <2>2. checkpoints' # <<>>
      BY <1>2, <2>1, EmptySeq
    <2> HIDE DEF kept, prefix
    <2>3. retained' = Held'
      <3>1. retained' = Charge(InitialMark, Len(checkpoints))'
        BY <1>2, <2>2 DEF Refreshed
      <3>2. /\ InitialMark.cursor = 0 /\ InitialMark.router = 0 /\ InitialMark.semantic = 0
        BY DEF InitialMark
      <3>3. Len(checkpoints') \in Nat
        BY <1>3, LenProperties
      <3>4. QED
        BY <1>3, <3>1, <3>2, <3>3 DEF Held, Charge
    <2>4. RetainedAfterPush(mark) = Charge(prefix, Len(kept))
      <3>1. MaxRollback # 0
        BY <1>5
      <3>2. QED
        BY <2>1, <3>1 DEF RetainedAfterPush
    <2>5. Held' = Charge(prefix, Len(kept))
      BY <1>2 DEF Held, Charge
    <2>6. QED
      BY <2>3, <2>4, <2>5
  <1>6. QED
    BY <1>1, <1>4, <1>5

LEMMA CommitInvariant ==
  ASSUME IInv, TypeOK', CallShape', Commit
  PROVE  IInv'
  <1> DEFINE kept == KeptAfterPush(mark)
             prefix == CompactPrefix(kept)
  <1>1. /\ stage = "commit" /\ TypeOK /\ mark \in TokenMark /\ MaxRollback \in Nat
        /\ RetainedAfterPush(mark) <= MaxRetained /\ NoDanglingReference
        /\ semantic \in SemanticStates /\ semanticJournal \in Seq(SemanticStates)
    BY LimitAssumption DEF Commit, IInv, TypeOK
  <1>2. /\ prefix.cursor \in 0..Len(cursorJournal)
        /\ prefix.router \in 0..Len(routerJournal)
        /\ prefix.semantic \in 0..Len(semanticJournal)
        /\ Len(cursorJournal') = Len(cursorJournal) - prefix.cursor
        /\ Len(routerJournal') = Len(routerJournal) - prefix.router
        /\ Len(semanticJournal') = Len(semanticJournal) - prefix.semantic
        /\ semanticJournal' = DropFirst(semanticJournal, prefix.semantic)
        /\ Len(trace') = Len(trace) + 1
        /\ checkpoints' = [i \in 1..Len(kept) |-> Shift(kept[i], prefix)]
        /\ Len(checkpoints') = Len(kept)
        /\ lifecycle' # "Poisoned" /\ ~HoldsMark' /\ stage' = "idle" /\ op' = "none"
        /\ UNCHANGED <<arena, semantic>>
    BY CommitStep
  <1>3. retained' = Held' /\ retained' = RetainedAfterPush(mark)
    BY CommitLedger
  <1>4. LedgerTracks' /\ RestoreProgress' /\ NeverPoisoned'
    BY <1>1, <1>2, <1>3 DEF LedgerTracks, RestoreProgress, NeverPoisoned
  <1>5. CASE MaxRollback = 0
    <2>1. kept = <<>> /\ prefix = CurrentMark
      BY <1>1, <1>5, KeptFacts DEF CompactPrefix
    <2>2. checkpoints' = <<>> /\ Len(checkpoints') = 0
      BY <1>2, <2>1, EmptySeq DEF TypeOK
    <2>3. /\ Len(cursorJournal') = 0 /\ Len(routerJournal') = 0 /\ Len(semanticJournal') = 0
      BY <1>1, <1>2, <2>1, Lengths DEF CurrentMark
    <2>4. MarksOrdered' /\ NoDanglingReference'
      BY <1>1, <1>2, <2>2 DEF MarksOrdered, NoDanglingReference
    <2>5. WindowStartsJournals'
      BY <1>2, <2>2, <2>3 DEF WindowStartsJournals, CurrentMark
    <2>6. QED
      BY <1>4, <2>4, <2>5 DEF IInv
  <1>6. CASE MaxRollback > 0
    <2>1. /\ kept # <<>> /\ Len(kept) \in Nat \ {0} /\ prefix = kept[1]
          /\ \A i \in 1..Len(kept) :
               /\ kept[i] \in TokenMark
               /\ NoLaterThan(kept[i], CurrentMark)
               /\ ReachesWithin(kept[i])
               /\ \A j \in 1..i : NoLaterThan(kept[j], kept[i])
      BY <1>1, <1>6, CommitKeeps DEF CompactPrefix
    <2> HIDE DEF kept, prefix
    <2>2. prefix \in TokenMark /\ \A i \in 1..Len(kept) : NoLaterThan(prefix, kept[i])
      BY <2>1
    <2>3. ASSUME NEW i \in 1..Len(kept)
          PROVE  /\ checkpoints'[i].cursor = kept[i].cursor - prefix.cursor
                 /\ checkpoints'[i].router = kept[i].router - prefix.router
                 /\ checkpoints'[i].semantic = kept[i].semantic - prefix.semantic
                 /\ checkpoints'[i].arena = kept[i].arena
                 /\ checkpoints'[i].traceLen = kept[i].traceLen
      <3>1. checkpoints'[i] = Shift(kept[i], prefix) /\ kept[i] \in TokenMark
        BY <1>2, <2>1
      <3>2. QED
        BY <2>2, <3>1 DEF Shift, TokenMark
    <2>4. /\ CurrentMark'.cursor = Len(cursorJournal) - prefix.cursor
          /\ CurrentMark'.router = Len(routerJournal) - prefix.router
          /\ CurrentMark'.semantic = Len(semanticJournal) - prefix.semantic
          /\ CurrentMark'.arena = arena
          /\ CurrentMark'.traceLen = Len(trace) + 1
      BY <1>2 DEF CurrentMark
    <2>5. ASSUME NEW i \in 1..Len(kept)
          PROVE  NoLaterThan(checkpoints'[i], CurrentMark')
      <3>1. kept[i] \in TokenMark /\ NoLaterThan(kept[i], CurrentMark)
        BY <2>1
      <3>2. /\ kept[i].cursor <= Len(cursorJournal) /\ kept[i].router <= Len(routerJournal)
            /\ kept[i].semantic <= Len(semanticJournal) /\ kept[i].arena <= arena
            /\ kept[i].traceLen <= Len(trace)
        BY <3>1 DEF NoLaterThan, CurrentMark
      <3>3. /\ kept[i].cursor \in Nat /\ kept[i].router \in Nat /\ kept[i].semantic \in Nat
            /\ prefix.cursor \in Nat /\ prefix.router \in Nat /\ prefix.semantic \in Nat
            /\ kept[i].traceLen \in Nat
        BY <2>2, <3>1, MarkFields
      <3>4. /\ kept[i].cursor - prefix.cursor <= Len(cursorJournal) - prefix.cursor
            /\ kept[i].router - prefix.router <= Len(routerJournal) - prefix.router
            /\ kept[i].semantic - prefix.semantic <= Len(semanticJournal) - prefix.semantic
            /\ kept[i].traceLen <= Len(trace) + 1
        <4>1. /\ Len(cursorJournal) \in Nat /\ Len(routerJournal) \in Nat
              /\ Len(semanticJournal) \in Nat /\ Len(trace) \in Nat
          BY <1>1, Lengths
        <4>2. kept[i].traceLen <= Len(trace) + 1
          BY <3>2, <3>3, <4>1
        <4>3. QED
          BY <3>2, <3>3, <4>1, <4>2, SubtractMonotone
      <3>5. QED
        <4>1. /\ checkpoints'[i].cursor <= CurrentMark'.cursor
              /\ checkpoints'[i].router <= CurrentMark'.router
              /\ checkpoints'[i].semantic <= CurrentMark'.semantic
              /\ checkpoints'[i].arena <= CurrentMark'.arena
              /\ checkpoints'[i].traceLen <= CurrentMark'.traceLen
          BY <2>3, <2>4, <3>2, <3>4
        <4>2. QED
          BY <4>1 DEF NoLaterThan
    <2>6. ASSUME NEW i \in 1..Len(kept), NEW j \in 1..i
          PROVE  NoLaterThan(checkpoints'[j], checkpoints'[i])
      <3>1. j \in 1..Len(kept)
        BY <2>1
      <3>2. kept[i] \in TokenMark /\ kept[j] \in TokenMark /\ NoLaterThan(kept[j], kept[i])
        BY <2>1, <3>1
      <3>3. /\ kept[j].cursor - prefix.cursor <= kept[i].cursor - prefix.cursor
            /\ kept[j].router - prefix.router <= kept[i].router - prefix.router
            /\ kept[j].semantic - prefix.semantic <= kept[i].semantic - prefix.semantic
            /\ kept[j].arena <= kept[i].arena /\ kept[j].traceLen <= kept[i].traceLen
        <4>1. /\ kept[i].cursor \in Nat /\ kept[i].router \in Nat /\ kept[i].semantic \in Nat
              /\ kept[j].cursor \in Nat /\ kept[j].router \in Nat /\ kept[j].semantic \in Nat
              /\ prefix.cursor \in Nat /\ prefix.router \in Nat /\ prefix.semantic \in Nat
          BY <2>2, <3>2, MarkFields
        <4>2. QED
          BY <3>2, <4>1, SubtractMonotone DEF NoLaterThan
      <3>4. /\ checkpoints'[j].cursor <= checkpoints'[i].cursor
            /\ checkpoints'[j].router <= checkpoints'[i].router
            /\ checkpoints'[j].semantic <= checkpoints'[i].semantic
            /\ checkpoints'[j].arena <= checkpoints'[i].arena
            /\ checkpoints'[j].traceLen <= checkpoints'[i].traceLen
        BY <2>3, <3>1, <3>3
      <3>5. QED
        BY <3>4 DEF NoLaterThan
    <2>7. MarksOrdered'
      BY <1>2, <2>5, <2>6 DEF MarksOrdered
    <2>8. WindowStartsJournals'
      <3>1. checkpoints' # <<>> /\ 1 \in 1..Len(kept)
        <4>1. Len(checkpoints') = Len(kept)
          BY <1>2
        <4>2. Len(kept) # 0 /\ 1 \in 1..Len(kept)
          BY <2>1
        <4>3. QED
          BY <4>1, <4>2, EmptySeq
      <3>2. /\ checkpoints'[1].cursor = 0 /\ checkpoints'[1].router = 0
            /\ checkpoints'[1].semantic = 0
        <4>1. /\ checkpoints'[1].cursor = kept[1].cursor - prefix.cursor
              /\ checkpoints'[1].router = kept[1].router - prefix.router
              /\ checkpoints'[1].semantic = kept[1].semantic - prefix.semantic
          BY <2>3, <3>1
        <4>2. /\ prefix.cursor \in Nat /\ prefix.router \in Nat /\ prefix.semantic \in Nat
          BY <2>2, MarkFields
        <4>3. prefix = kept[1]
          BY <2>1
        <4>4. QED
          BY <4>1, <4>2, <4>3
      <3>3. QED
        BY <3>1, <3>2 DEF WindowStartsJournals
    <2>9. ASSUME NEW i \in 1..Len(kept)
          PROVE  ReachesWithin(checkpoints[i])'
      <3>1. /\ kept[i] \in TokenMark /\ NoLaterThan(kept[i], CurrentMark)
            /\ ReachesWithin(kept[i]) /\ NoLaterThan(prefix, kept[i])
        BY <2>1, <2>2
      <3>2. kept[i].semantic \in prefix.semantic..Len(semanticJournal)
        BY <1>1, <2>2, <3>1, MarkFields, Lengths DEF NoLaterThan, CurrentMark
      <3>3. ValueAt(semanticJournal', kept[i].semantic - prefix.semantic, semantic)
              = ValueAt(semanticJournal, kept[i].semantic, semantic)
        BY <1>1, <1>2, <3>2, ValueAtDropFirst
      <3>4. QED
        BY <1>2, <2>3, <3>1, <3>3 DEF ReachesWithin
    <2>10. NoDanglingReference'
      BY <1>1, <1>2, <2>9 DEF NoDanglingReference
    <2>11. QED
      BY <1>4, <2>7, <2>8, <2>10 DEF IInv
  <1>7. QED
    BY <1>1, <1>5, <1>6

-----------------------------------------------------------------------------
(* Restores, the marks a rollback pops, and reset.                         *)

\* What a step inside a restore finds: a mark that the journals contain.
LEMMA RestoreFinds ==
  ASSUME IInv, stage \in Restoring
  PROVE  /\ TypeOK /\ HoldsMark /\ lifecycle # "Poisoned" /\ mark \in TokenMark
         /\ mark.cursor \in 0..Len(cursorJournal)
         /\ mark.router \in 0..Len(routerJournal)
         /\ mark.semantic \in 0..Len(semanticJournal)
         /\ mark.arena <= arena /\ mark.traceLen <= Len(trace)
         /\ ReachesWithin(mark)
         /\ \A i \in 1..Len(checkpoints) :
              /\ checkpoints[i] \in TokenMark
              /\ NoLaterThan(checkpoints[i], mark)
              /\ ReachesWithin(checkpoints[i])
              /\ \A j \in 1..i : NoLaterThan(checkpoints[j], checkpoints[i])
  <1>1. TypeOK /\ MarksOrdered /\ NoDanglingReference /\ CallShape
    BY DEF IInv
  <1>2. HoldsMark /\ lifecycle # "Poisoned"
    BY <1>1 DEF HoldsMark, CallShape, Restoring
  <1>3. NoLaterThan(mark, CurrentMark) /\ mark \in TokenMark
    BY <1>1, <1>2, MarkTypes DEF MarksOrdered
  <1>4. /\ mark.cursor \in 0..Len(cursorJournal)
        /\ mark.router \in 0..Len(routerJournal)
        /\ mark.semantic \in 0..Len(semanticJournal)
        /\ mark.arena <= arena /\ mark.traceLen <= Len(trace)
    BY <1>1, <1>3, MarkFields, Lengths DEF NoLaterThan, CurrentMark
  <1>5. ReachesWithin(mark)
    BY <1>1, <1>2 DEF NoDanglingReference
  <1>6. \A i \in 1..Len(checkpoints) :
          /\ NoLaterThan(checkpoints[i], mark)
          /\ ReachesWithin(checkpoints[i])
          /\ \A j \in 1..i : NoLaterThan(checkpoints[j], checkpoints[i])
    BY <1>1, <1>2 DEF MarksOrdered, NoDanglingReference
  <1>7. QED
    BY <1>1, <1>2, <1>3, <1>4, <1>5, <1>6, MarkTypes

LEMMA RestoreSemanticInvariant ==
  ASSUME IInv, TypeOK', CallShape', RestoreSemantic
  PROVE  IInv'
  <1>1. /\ stage = "restoreSemantic" /\ IInv
        /\ semantic \in SemanticStates /\ semanticJournal \in Seq(SemanticStates)
    BY DEF RestoreSemantic, IInv, TypeOK
  <1>2. stage \in Restoring
    BY <1>1 DEF Restoring
  <1>3. /\ TypeOK /\ HoldsMark /\ lifecycle # "Poisoned" /\ mark \in TokenMark
        /\ mark.semantic \in 0..Len(semanticJournal) /\ mark.arena <= arena
        /\ ReachesWithin(mark)
        /\ \A i \in 1..Len(checkpoints) :
             /\ checkpoints[i] \in TokenMark
             /\ NoLaterThan(checkpoints[i], mark)
             /\ ReachesWithin(checkpoints[i])
    BY <1>2, RestoreFinds
  <1>4. /\ semantic' = ValueAt(semanticJournal, mark.semantic, semantic)
        /\ semanticJournal' = Truncate(semanticJournal, mark.semantic)
        /\ stage' = "restoreRouter"
        /\ UNCHANGED <<lifecycle, op, mark, todo, cursorJournal, routerJournal, arena,
                       checkpoints, trace, retained>>
    BY <1>3, Lengths DEF RestoreSemantic, RestoreOrder, window
  <1>5. Len(semanticJournal') = mark.semantic
    BY <1>1, <1>3, <1>4, TruncateFacts
  <1>6. HoldsMark'
    BY <1>4 DEF HoldsMark
  <1>7. MarksOrdered'
    <2>1. \A i \in 1..Len(checkpoints) : NoLaterThan(checkpoints[i], CurrentMark')
      <3>1. ASSUME NEW i \in 1..Len(checkpoints)
            PROVE  NoLaterThan(checkpoints[i], CurrentMark')
        <4>1. NoLaterThan(checkpoints[i], mark) /\ NoLaterThan(checkpoints[i], CurrentMark)
          BY <1>3, <1>1 DEF IInv, MarksOrdered
        <4>2. QED
          BY <1>4, <1>5, <4>1 DEF NoLaterThan, CurrentMark
      <3>2. QED
        BY <3>1
    <2>2. NoLaterThan(mark, CurrentMark')
      <3>1. NoLaterThan(mark, CurrentMark)
        BY <1>1, <1>3 DEF IInv, MarksOrdered
      <3>2. QED
        BY <1>3, <1>4, <1>5, <3>1, MarkFields DEF NoLaterThan, CurrentMark
    <2>3. QED
      BY <1>1, <1>3, <1>4, <2>1, <2>2 DEF IInv, MarksOrdered
  <1>8. WindowStartsJournals'
    BY <1>1, <1>3, <1>4, <1>6 DEF IInv, WindowStartsJournals
  <1>9. LedgerTracks'
    <2>1. Held' <= Held
      BY <1>3, <1>4, <1>5, Lengths, MarkFields DEF Held
    <2>2. op = "rollback" => Held' <= MaxRetained
      <3>1. /\ Len(cursorJournal) \in Nat /\ Len(routerJournal) \in Nat
            /\ Len(semanticJournal) \in Nat /\ Len(checkpoints) \in Nat
            /\ Len(semanticJournal') \in Nat /\ MaxRetained \in Nat
        BY <1>3, <1>5, Lengths, MarkFields, LimitAssumption
      <3>2. Held \in Nat /\ Held' \in Nat
        BY <1>4, <3>1 DEF Held
      <3>3. QED
        BY <1>1, <1>3, <2>1, <3>1, <3>2 DEF IInv, LedgerTracks
    <2>3. QED
      BY <1>1, <1>3, <1>4, <1>6, <2>2 DEF IInv, LedgerTracks
  <1>10. NoDanglingReference'
    <2>1. Reach[semantic'] <= arena'
      <3>1. semantic' \in SemanticStates
        BY DEF TypeOK
      <3>2. Reach[semantic'] \in Nat /\ mark.arena \in Nat /\ arena \in Nat
        BY <1>3, <3>1, MarkFields, ComponentAssumption, LimitAssumption DEF TypeOK
      <3>3. QED
        BY <1>3, <1>4, <3>2 DEF ReachesWithin
    <2>2. ASSUME NEW m \in TokenMark, NoLaterThan(m, mark), ReachesWithin(m)
          PROVE  Reach[ValueAt(semanticJournal', m.semantic, semantic')] <= m.arena
      <3>1. m.semantic \in 0..mark.semantic
        BY <1>3, <2>2, MarkFields DEF NoLaterThan
      <3>2. ValueAt(semanticJournal', m.semantic, semantic')
              = ValueAt(semanticJournal, m.semantic, semantic)
        BY <1>1, <1>3, <1>4, <3>1, ValueAtTruncate
      <3>3. QED
        BY <2>2, <3>2 DEF ReachesWithin
    <2>3. \A i \in 1..Len(checkpoints) : ReachesWithin(checkpoints[i])'
      BY <1>3, <1>4, <2>2 DEF ReachesWithin
    <2>4. ReachesWithin(mark)'
      BY <1>3, <1>4, <2>2, NoLaterReflexive DEF ReachesWithin
    <2>5. QED
      BY <1>4, <2>1, <2>3, <2>4 DEF NoDanglingReference
  <1>11. RestoreProgress' /\ NeverPoisoned'
    BY <1>3, <1>4, <1>5 DEF RestoreProgress, NeverPoisoned
  <1>12. QED
    BY <1>7, <1>8, <1>9, <1>10, <1>11 DEF IInv

\* A step that pops router or cursor records, but none below the mark.
Rewind ==
  /\ UNCHANGED <<window, mark, op, lifecycle, semantic, semanticJournal>>
  /\ stage' \in Restoring
  /\ Len(cursorJournal') \in mark.cursor..Len(cursorJournal)
  /\ Len(routerJournal') \in mark.router..Len(routerJournal)
  /\ arena' \in mark.arena..arena
  /\ Reach[semantic] <= arena'

LEMMA RewindKeeps ==
  ASSUME IInv, TypeOK', stage \in Restoring, Rewind
  PROVE  /\ MarksOrdered' /\ WindowStartsJournals' /\ LedgerTracks'
         /\ NoDanglingReference' /\ NeverPoisoned'
  <1>1. /\ TypeOK /\ HoldsMark /\ lifecycle # "Poisoned" /\ mark \in TokenMark
        /\ mark.semantic \in 0..Len(semanticJournal) /\ mark.traceLen <= Len(trace)
        /\ ReachesWithin(mark)
        /\ \A i \in 1..Len(checkpoints) :
             /\ checkpoints[i] \in TokenMark
             /\ NoLaterThan(checkpoints[i], mark)
             /\ ReachesWithin(checkpoints[i])
             /\ \A j \in 1..i : NoLaterThan(checkpoints[j], checkpoints[i])
    BY RestoreFinds
  <1>2. /\ UNCHANGED <<checkpoints, trace, retained, mark, op, lifecycle, semantic, semanticJournal>>
        /\ HoldsMark'
    BY DEF Rewind, window, HoldsMark, Restoring
  <1>3. CurrentMark' \in TokenMark
    <2>1. /\ Len(cursorJournal') \in Nat /\ Len(routerJournal') \in Nat
          /\ Len(semanticJournal') \in Nat /\ Len(trace') \in Nat /\ arena' \in Nat
      BY LenProperties, LimitAssumption DEF TypeOK
    <2>2. QED
      BY <2>1 DEF CurrentMark, TokenMark, TypeOK
  <1>4. NoLaterThan(mark, CurrentMark')
    BY <1>1, <1>2 DEF Rewind, NoLaterThan, CurrentMark
  <1>5. MarksOrdered'
    <2>1. \A i \in 1..Len(checkpoints) : NoLaterThan(checkpoints[i], CurrentMark')
      BY <1>1, <1>3, <1>4, NoLaterTransitive
    <2>2. QED
      BY <1>1, <1>2, <1>4, <2>1 DEF MarksOrdered
  <1>6. WindowStartsJournals'
    BY <1>1, <1>2 DEF IInv, WindowStartsJournals
  <1>7. LedgerTracks'
    <2>1. op = "rollback" => Held' <= MaxRetained
      <3>1. /\ Len(cursorJournal) \in Nat /\ Len(routerJournal) \in Nat
            /\ Len(semanticJournal) \in Nat /\ Len(checkpoints) \in Nat
            /\ Len(cursorJournal') \in Nat /\ Len(routerJournal') \in Nat
            /\ MaxRetained \in Nat
        BY <1>1, Lengths, LimitAssumption, LenProperties DEF TypeOK
      <3>2. /\ Len(cursorJournal') <= Len(cursorJournal)
            /\ Len(routerJournal') <= Len(routerJournal)
        BY <1>1, MarkFields, Lengths DEF Rewind
      <3>3. Held' <= Held /\ Held' \in Nat /\ Held \in Nat
        BY <1>2, <3>1, <3>2 DEF Held
      <3>4. QED
        BY <1>1, <3>1, <3>3 DEF IInv, LedgerTracks
    <2>2. QED
      BY <1>1, <1>2, <2>1 DEF IInv, LedgerTracks
  <1>8. NoDanglingReference'
    BY <1>1, <1>2 DEF NoDanglingReference, ReachesWithin, Rewind
  <1>9. NeverPoisoned'
    BY <1>1, <1>2 DEF NeverPoisoned
  <1>10. QED
    BY <1>5, <1>6, <1>7, <1>8, <1>9

LEMMA RestoreRouterInvariant ==
  ASSUME IInv, TypeOK', CallShape', RestoreRouter
  PROVE  IInv'
  <1>1. /\ stage = "restoreRouter" /\ stage \in Restoring
        /\ routerJournal \in Seq(RouterStates) /\ NoDanglingReference /\ RestoreProgress
    BY DEF RestoreRouter, IInv, TypeOK, Restoring
  <1>2. /\ TypeOK /\ mark \in TokenMark /\ mark.arena <= arena
        /\ mark.cursor \in 0..Len(cursorJournal) /\ mark.router \in 0..Len(routerJournal)
    BY <1>1, RestoreFinds
  <1>3. /\ routerJournal' = Truncate(routerJournal, mark.router)
        /\ stage' = "restoreCursor"
        /\ UNCHANGED <<lifecycle, op, mark, cursorJournal, semanticJournal, semantic, arena, window>>
    BY <1>2, Lengths DEF RestoreRouter, RestoreOrder
  <1>4. Len(routerJournal') = mark.router
    BY <1>1, <1>2, <1>3, TruncateFacts
  <1>5. Rewind
    <2>1. /\ Len(cursorJournal) \in mark.cursor..Len(cursorJournal)
          /\ mark.router \in mark.router..Len(routerJournal)
          /\ arena \in mark.arena..arena
      <3>1. arena \in Nat /\ mark.arena \in Nat /\ mark.cursor \in Nat /\ mark.router \in Nat
        BY <1>2, MarkFields, LimitAssumption DEF TypeOK
      <3>2. QED
        BY <1>2, <3>1, Lengths
    <2>2. QED
      BY <1>1, <1>3, <1>4, <2>1 DEF Rewind, Restoring, NoDanglingReference
  <1>6. RestoreProgress'
    BY <1>1, <1>3, <1>4 DEF RestoreProgress
  <1>7. QED
    BY <1>1, <1>5, <1>6, RewindKeeps DEF IInv

LEMMA RestoreCursorInvariant ==
  ASSUME IInv, TypeOK', CallShape', RestoreCursor
  PROVE  IInv'
  <1>1. /\ stage = "restoreCursor" /\ stage \in Restoring
        /\ cursorJournal \in Seq(CursorStates) /\ RestoreProgress
    BY DEF RestoreCursor, IInv, TypeOK, Restoring
  <1>2. /\ TypeOK /\ mark \in TokenMark /\ mark.arena <= arena /\ ReachesWithin(mark)
        /\ mark.cursor \in 0..Len(cursorJournal) /\ mark.router \in 0..Len(routerJournal)
    BY <1>1, RestoreFinds
  <1>3. /\ cursorJournal' = Truncate(cursorJournal, mark.cursor)
        /\ arena' = mark.arena
        /\ stage' = "restoreRest"
        /\ UNCHANGED <<lifecycle, op, mark, routerJournal, semanticJournal, semantic, window>>
    BY <1>2, Lengths DEF RestoreCursor, RestoreOrder
  <1>4. Len(cursorJournal') = mark.cursor
    BY <1>1, <1>2, <1>3, TruncateFacts
  <1>5. Reach[semantic] <= mark.arena
    <2>1. Len(semanticJournal) = mark.semantic
      BY <1>1 DEF RestoreProgress
    <2>2. QED
      BY <1>2, <2>1, ValueAtEnd DEF ReachesWithin
  <1>6. Rewind
    <2>1. /\ mark.cursor \in mark.cursor..Len(cursorJournal)
          /\ Len(routerJournal) \in mark.router..Len(routerJournal)
          /\ mark.arena \in mark.arena..arena
      <3>1. arena \in Nat /\ mark.arena \in Nat /\ mark.cursor \in Nat /\ mark.router \in Nat
        BY <1>2, MarkFields, LimitAssumption DEF TypeOK
      <3>2. QED
        BY <1>2, <3>1, Lengths
    <2>2. QED
      BY <1>1, <1>3, <1>4, <1>5, <2>1 DEF Rewind, Restoring
  <1>7. RestoreProgress'
    BY <1>1, <1>3, <1>4 DEF RestoreProgress
  <1>8. QED
    BY <1>1, <1>6, <1>7, RewindKeeps DEF IInv

LEMMA RestoreRestInvariant ==
  ASSUME IInv, TypeOK', CallShape', RestoreRest
  PROVE  IInv'
  <1>1. /\ stage = "restoreRest" /\ stage \in Restoring /\ RestoreProgress
        /\ NoDanglingReference /\ CallShape /\ trace \in Seq(AllTokens)
    BY DEF RestoreRest, IInv, TypeOK, Restoring
  <1>2. /\ TypeOK /\ HoldsMark /\ lifecycle # "Poisoned" /\ mark \in TokenMark
        /\ mark.traceLen <= Len(trace)
        /\ \A i \in 1..Len(checkpoints) :
             /\ checkpoints[i] \in TokenMark
             /\ NoLaterThan(checkpoints[i], mark)
             /\ ReachesWithin(checkpoints[i])
             /\ \A j \in 1..i : NoLaterThan(checkpoints[j], checkpoints[i])
    BY <1>1, RestoreFinds
  <1>3. /\ Len(cursorJournal) = mark.cursor /\ Len(routerJournal) = mark.router
        /\ Len(semanticJournal) = mark.semantic /\ arena = mark.arena
    BY <1>1 DEF RestoreProgress
  <1>4. /\ trace' = IF mark.traceLen < Len(trace) THEN Truncate(trace, mark.traceLen) ELSE trace
        /\ retained' = Refreshed /\ lifecycle' = mark.lifecycle /\ AfterRestore
        /\ UNCHANGED <<semantic, arena, journals, checkpoints>>
    BY DEF RestoreRest
  <1>5. Len(trace') = mark.traceLen
    <2>1. Len(trace) \in Nat /\ mark.traceLen \in Nat
      BY <1>2, MarkFields, Lengths
    <2>2. CASE mark.traceLen < Len(trace)
      BY <1>1, <1>4, <2>1, <2>2, TruncateFacts
    <2>3. CASE ~(mark.traceLen < Len(trace))
      BY <1>2, <1>4, <2>1, <2>3
    <2>4. QED
      BY <2>2, <2>3
  <1>6. ~HoldsMark' /\ lifecycle' # "Poisoned" /\ (op' = "rollback" => op = "rollback")
    BY <1>1, <1>4 DEF AfterRestore, Return, HoldsMark, CallShape
  <1>7. MarksOrdered'
    <2>1. /\ CurrentMark'.cursor = mark.cursor /\ CurrentMark'.router = mark.router
          /\ CurrentMark'.semantic = mark.semantic /\ CurrentMark'.arena = mark.arena
          /\ CurrentMark'.traceLen = mark.traceLen
      BY <1>3, <1>4, <1>5 DEF CurrentMark, journals
    <2>2. QED
      BY <1>2, <1>4, <1>6, <2>1 DEF MarksOrdered, NoLaterThan
  <1>8. WindowStartsJournals'
    BY <1>2, <1>3, <1>4, <1>6 DEF IInv, WindowStartsJournals, CurrentMark, journals
  <1>9. retained' = Held' /\ Held' <= MaxRetained
    <2>1. Held' = Held /\ Held = mark.cursor + mark.router + mark.semantic + Len(checkpoints)
      BY <1>3, <1>4 DEF Held, journals
    <2>2. retained' = Held
      <3>1. CASE checkpoints = <<>>
        <4>1. mark.cursor = 0 /\ mark.router = 0 /\ mark.semantic = 0
          BY <1>2, <3>1 DEF IInv, WindowStartsJournals
        <4>2. QED
          BY <1>4, <2>1, <3>1, <4>1, EmptySeq DEF Refreshed
      <3>2. CASE checkpoints # <<>>
        BY <1>2, <1>4, <3>2, Lengths DEF Refreshed, Charge, InitialMark, Held
      <3>3. QED
        BY <3>1, <3>2
    <2>3. Held <= MaxRetained
      BY <1>2, <2>1 DEF IInv, LedgerTracks
    <2>4. QED
      BY <2>1, <2>2, <2>3
  <1>10. NoDanglingReference'
    BY <1>1, <1>4, <1>6 DEF NoDanglingReference, ReachesWithin, journals
  <1>11. LedgerTracks' /\ RestoreProgress' /\ NeverPoisoned'
    BY <1>4, <1>6, <1>9 DEF LedgerTracks, RestoreProgress, NeverPoisoned, HoldsMark,
       AfterRestore, Return
  <1>12. QED
    BY <1>7, <1>8, <1>10, <1>11 DEF IInv

LEMMA RestoreBreaksInvariant ==
  ASSUME IInv, TypeOK', CallShape', RestoreBreaks
  PROVE  IInv'
  <1>1. /\ RestoreMayFail /\ lifecycle' = "Poisoned" /\ stage' = "idle" /\ ~HoldsMark'
        /\ UNCHANGED <<arena, semantic, journals, window>>
    BY DEF RestoreBreaks, Poison, Return, HoldsMark
  <1>2. MarksOrdered'
    BY <1>1 DEF IInv, MarksOrdered, CurrentMark, journals, window, NoLaterThan
  <1>3. NoDanglingReference'
    BY <1>1 DEF IInv, NoDanglingReference, ReachesWithin, journals, window
  <1>4. QED
    BY <1>1, <1>2, <1>3 DEF IInv, RestoreProgress, WindowStartsJournals, LedgerTracks, NeverPoisoned

LEMMA PopMarkInvariant ==
  ASSUME IInv, TypeOK', CallShape', PopMark
  PROVE  IInv'
  <1>1. /\ stage = "unwind" /\ op = "rollback" /\ ~HoldsMark /\ lifecycle # "Poisoned"
        /\ todo > 0 /\ todo \in Nat /\ todo <= Len(checkpoints)
        /\ TypeOK /\ MarksOrdered /\ NoDanglingReference /\ checkpoints \in Seq(TokenMark)
    BY DEF PopMark, IInv, CallShape, TypeOK, HoldsMark
  <1>2. Len(checkpoints) \in Nat \ {0}
    BY <1>1, Lengths
  <1>3. /\ checkpoints' = Truncate(checkpoints, Len(checkpoints) - 1)
        /\ mark' = checkpoints[Len(checkpoints)]
        /\ stage' = "restoreSemantic" /\ op' = "rollback" /\ HoldsMark'
        /\ UNCHANGED <<dfa, lifecycle, arena, semantic, journals, trace, retained>>
    BY <1>1 DEF PopMark, Front, Last, Truncate, RestoreOrder, HoldsMark, state
  <1>4. /\ Len(checkpoints') = Len(checkpoints) - 1
        /\ \A i \in 1..(Len(checkpoints) - 1) : checkpoints'[i] = checkpoints[i]
    <2>1. Len(checkpoints) - 1 \in 0..Len(checkpoints)
      BY <1>2
    <2>2. QED
      BY <1>1, <1>3, <2>1, TruncateFacts
  <1>5. /\ Len(checkpoints) \in 1..Len(checkpoints)
        /\ \A i \in 1..(Len(checkpoints) - 1) : i \in 1..Len(checkpoints)
    BY <1>2
  <1>6. CurrentMark' = CurrentMark
    BY <1>3 DEF CurrentMark, journals
  <1>7. MarksOrdered'
    <2>1. \A i \in 1..Len(checkpoints') :
            /\ NoLaterThan(checkpoints'[i], CurrentMark')
            /\ NoLaterThan(checkpoints'[i], mark')
      BY <1>1, <1>3, <1>4, <1>5, <1>6 DEF MarksOrdered
    <2>2. \A i \in 1..Len(checkpoints') : \A j \in 1..i :
            NoLaterThan(checkpoints'[j], checkpoints'[i])
      <3>1. ASSUME NEW i \in 1..Len(checkpoints'), NEW j \in 1..i
            PROVE  NoLaterThan(checkpoints'[j], checkpoints'[i])
        <4>1. i \in 1..(Len(checkpoints) - 1) /\ j \in 1..(Len(checkpoints) - 1)
          BY <1>2, <1>4
        <4>2. QED
          BY <1>1, <1>4, <1>5, <4>1 DEF MarksOrdered
      <3>2. QED
        BY <3>1
    <2>3. NoLaterThan(mark', CurrentMark')
      BY <1>1, <1>3, <1>5, <1>6 DEF MarksOrdered
    <2>4. QED
      BY <2>1, <2>2, <2>3 DEF MarksOrdered
  <1>8. WindowStartsJournals'
    <2>1. checkpoints # <<>>
      BY <1>2, EmptySeq
    <2>2. /\ checkpoints[1].cursor = 0 /\ checkpoints[1].router = 0
          /\ checkpoints[1].semantic = 0
      BY <1>1, <2>1 DEF IInv, WindowStartsJournals
    <2>3. CASE Len(checkpoints) = 1
      <3>1. checkpoints' = <<>> /\ mark' = checkpoints[1]
        BY <1>3, <1>4, <2>3, EmptySeq DEF TypeOK
      <3>2. QED
        BY <1>3, <2>2, <3>1 DEF WindowStartsJournals
    <2>4. CASE Len(checkpoints) > 1
      <3>1. checkpoints'[1] = checkpoints[1] /\ checkpoints' # <<>>
        BY <1>2, <1>4, <2>4, EmptySeq
      <3>2. QED
        BY <2>2, <3>1 DEF WindowStartsJournals
    <2>5. QED
      BY <1>2, <2>3, <2>4
  <1>9. LedgerTracks'
    <2>1. Held \in Nat /\ Held' = Held - 1
      <3>1. Held' = Len(cursorJournal) + Len(routerJournal) + Len(semanticJournal)
                      + (Len(checkpoints) - 1)
        BY <1>3, <1>4 DEF Held, journals
      <3>2. QED
        BY <1>1, <3>1, Lengths DEF Held
    <2>2. Held' <= MaxRetained
      BY <1>1, <2>1, LimitAssumption DEF IInv, LedgerTracks
    <2>3. QED
      BY <1>3, <2>2 DEF LedgerTracks
  <1>10. NoDanglingReference'
    BY <1>1, <1>3, <1>4, <1>5 DEF NoDanglingReference, ReachesWithin, journals
  <1>11. RestoreProgress' /\ NeverPoisoned'
    BY <1>1, <1>3 DEF RestoreProgress, NeverPoisoned
  <1>12. QED
    BY <1>7, <1>8, <1>9, <1>10, <1>11 DEF IInv

LEMMA InitialInvariant == Init => IInv
  <1> SUFFICES ASSUME Init PROVE IInv
    OBVIOUS
  <1>1. TypeOK /\ CallShape
    BY InitTyped
  <1>2. Held = 0
    BY DEF Init, Held
  <1>3. QED
    BY <1>1, <1>2, ComponentAssumption, LimitAssumption
       DEF Init, IInv, MarksOrdered, HoldsMark, RestoreProgress, WindowStartsJournals,
           CurrentMark, LedgerTracks, NoDanglingReference, NeverPoisoned

LEMMA ResetInvariant ==
  ASSUME IInv, TypeOK', CallShape', Reset
  PROVE  IInv'
  <1>1. /\ cursorJournal' = <<>> /\ routerJournal' = <<>> /\ semanticJournal' = <<>>
        /\ checkpoints' = <<>> /\ retained' = 0 /\ arena' = 0
        /\ semantic' = InitialSemantic /\ lifecycle' = "Active"
        /\ stage' = "idle" /\ ~HoldsMark' /\ op' = "none"
    BY DEF Reset, call, IInv, CallShape, HoldsMark
  <1>2. Held' = 0
    BY <1>1 DEF Held
  <1>3. QED
    BY <1>1, <1>2, ComponentAssumption, LimitAssumption
       DEF IInv, MarksOrdered, RestoreProgress, WindowStartsJournals,
           CurrentMark, LedgerTracks, NoDanglingReference, NeverPoisoned

-----------------------------------------------------------------------------
(* Every step preserves the invariant.                                     *)

\* The steps that begin a call or move it along without touching a journal.
LEMMA QuietSteps ==
  ASSUME IInv, TypeOK', CallShape'
  PROVE  /\ (\E t \in AllTokens : BeginProbe(t) \/ BeginAdvance(t)) => ForwardStep
         /\ (\E n \in 0..MaxSequence : BeginSequence(n)) => ForwardStep
         /\ BeginMask => ForwardStep
         /\ (\E n \in 0..MaxRollback : BeginRollback(n)) => ForwardStep
         /\ (\E t \in AllTokens :
               SequenceToken(t) \/ SequenceRejected(t) \/ MaskProbe(t)) => ForwardStep
         /\ SequenceEnd \/ MaskEnd \/ CursorDone \/ EventsDone \/ Deny \/ Fail
              \/ FinishRun \/ CommitRefused \/ RollbackEnd => ForwardStep
  <1>1. CallShape /\ TypeOK /\ Reach[semantic] <= arena
    BY DEF IInv, NoDanglingReference
  <1>2. UNCHANGED journals /\ UNCHANGED <<arena, semantic>> => Growing
    <2>1. arena \in Nat
      BY <1>1, LimitAssumption DEF TypeOK
    <2>2. QED
      BY <1>1, <2>1, Lengths DEF Growing, journals
  <1>3. ASSUME NEW t \in AllTokens, BeginProbe(t) \/ BeginAdvance(t)
        PROVE  ForwardStep
    BY <1>1, <1>2, <1>3 DEF BeginProbe, BeginAdvance, Structural, StartTransition, ForwardStep,
       HoldsMark, CallShape, Restoring, state
  <1>4. ASSUME NEW n \in 0..MaxSequence, BeginSequence(n)
        PROVE  ForwardStep
    BY <1>1, <1>2, <1>4 DEF BeginSequence, ForwardStep, HoldsMark, CallShape, Restoring, state
  <1>5. ASSUME BeginMask
        PROVE  ForwardStep
    BY <1>1, <1>2, <1>5 DEF BeginMask, ForwardStep, HoldsMark, CallShape, Restoring, state, journals
  <1>6. ASSUME NEW n \in 0..MaxRollback, BeginRollback(n)
        PROVE  ForwardStep
    BY <1>1, <1>2, <1>6 DEF BeginRollback, ForwardStep, HoldsMark, CallShape, Restoring, state, journals
  <1>7. ASSUME NEW t \in AllTokens, SequenceToken(t) \/ SequenceRejected(t) \/ MaskProbe(t)
        PROVE  ForwardStep
    BY <1>1, <1>2, <1>7 DEF SequenceToken, SequenceRejected, MaskProbe, UndoWith, RestoreOrder,
       StartTransition, ForwardStep, HoldsMark, CallShape, Restoring, state, journals
  <1>8. SequenceEnd \/ Deny \/ Fail \/ CommitRefused => ForwardStep
    BY <1>1, <1>2 DEF SequenceEnd, Deny, Fail, CommitRefused, UndoWith, RestoreOrder,
       ForwardStep, HoldsMark, CallShape, Restoring, state, journals
  <1>9. MaskEnd \/ RollbackEnd => ForwardStep
    BY <1>1, <1>2 DEF MaskEnd, RollbackEnd, Return, ForwardStep, HoldsMark, CallShape, Restoring,
       state, journals
  <1>10. CursorDone \/ EventsDone => ForwardStep
    BY <1>1, <1>2 DEF CursorDone, EventsDone, ForwardStep, HoldsMark, CallShape, Restoring, state, journals
  <1>11. FinishRun => ForwardStep
    BY <1>1, <1>2 DEF FinishRun, Transitioned, UndoWith, RestoreOrder, ForwardStep, HoldsMark,
       CallShape, Restoring, Running, journals
  <1>12. QED
    BY <1>3, <1>4, <1>5, <1>6, <1>7, <1>8, <1>9, <1>10, <1>11

\* The steps that push a record.
LEMMA PushSteps ==
  ASSUME IInv, TypeOK', CallShape'
  PROVE  /\ (\E new \in CursorStates : FeedByte(new)) => ForwardStep
         /\ (\E new \in CursorStates, length \in arena..MaxArena :
               CursorRecord(new, length)) => ForwardStep
         /\ (\E new \in RouterStates : RouterEvent(new)) => ForwardStep
         /\ (\E new \in SemanticStates : SemanticEvent(new)) => ForwardStep
  <1>1. /\ CallShape /\ TypeOK /\ Reach[semantic] <= arena
        /\ semantic \in SemanticStates /\ Reach[semantic] \in Nat /\ arena \in Nat
    <2>1. CallShape /\ TypeOK /\ Reach[semantic] <= arena
      BY DEF IInv, NoDanglingReference
    <2>2. semantic \in SemanticStates /\ arena \in Nat
      BY <2>1, LimitAssumption DEF TypeOK
    <2>3. QED
      BY <2>1, <2>2, ComponentAssumption
  <1>2. /\ Len(Append(cursorJournal, cursor)) = Len(cursorJournal) + 1
        /\ Len(Append(routerJournal, router)) = Len(routerJournal) + 1
        /\ Len(Append(semanticJournal, semantic)) = Len(semanticJournal) + 1
    BY <1>1, AppendProperties DEF TypeOK
  <1>3. ASSUME NEW new \in CursorStates, FeedByte(new)
        PROVE  ForwardStep
    BY <1>1, <1>2, <1>3, Lengths DEF FeedByte, CursorPush, ForwardStep, Growing,
       HoldsMark, CallShape, Restoring, Running
  <1>4. ASSUME NEW new \in CursorStates, NEW length \in arena..MaxArena,
               CursorRecord(new, length)
        PROVE  ForwardStep
    <2>1. length \in Nat /\ arena <= length /\ Reach[semantic] <= length
      BY <1>1, LimitAssumption
    <2>2. QED
      BY <1>1, <1>2, <1>4, <2>1, Lengths DEF CursorRecord, CursorPush, ForwardStep, Growing,
         HoldsMark, CallShape, Restoring, Running, call
  <1>5. ASSUME NEW new \in RouterStates, RouterEvent(new)
        PROVE  ForwardStep
    BY <1>1, <1>2, <1>5, Lengths DEF RouterEvent, ForwardStep, Growing, HoldsMark, CallShape, Restoring,
       Running, call
  <1>6. ASSUME NEW new \in SemanticStates, SemanticEvent(new)
        PROVE  ForwardStep
    <2>1. /\ semanticJournal' = Append(semanticJournal, semantic) /\ semantic' = new
          /\ stage = "events" /\ Reach[new] <= arena
          /\ UNCHANGED <<lifecycle, arena, cursorJournal, routerJournal, window, call>>
      BY <1>6 DEF SemanticEvent
    <2>2. semanticJournal \in Seq(SemanticStates)
      BY <1>1 DEF TypeOK
    <2>3. \A p \in 0..Len(semanticJournal) :
            ValueAt(semanticJournal', p, semantic') = ValueAt(semanticJournal, p, semantic)
      BY <1>1, <2>1, <2>2, ValueAtAppend
    <2>4. Growing
      BY <1>1, <1>2, <2>1, <2>3, Lengths DEF Growing
    <2>5. QED
      BY <1>1, <2>1, <2>4 DEF ForwardStep, HoldsMark, CallShape, Restoring, Running, call
  <1>7. QED
    BY <1>3, <1>4, <1>5, <1>6

LEMMA NextInvariant ==
  ASSUME IInv, [Next]_vars
  PROVE  IInv'
  <1>1. TypeOK' /\ CallShape'
    BY NextTyped DEF IInv
  <1>2. CASE ForwardStep
    BY <1>1, <1>2, ForwardKeeps
  <1>3. CASE Begin
    BY <1>1, <1>2, <1>3, QuietSteps DEF Begin
  <1>4. CASE RunTransition
    BY <1>1, <1>2, <1>4, QuietSteps, PushSteps DEF RunTransition
  <1>5. CASE Restore
    BY <1>1, <1>5, RestoreBreaksInvariant, RestoreSemanticInvariant,
       RestoreRouterInvariant, RestoreCursorInvariant, RestoreRestInvariant DEF Restore
  <1>6. CASE Continue
    BY <1>1, <1>2, <1>4, <1>5, <1>6, QuietSteps, CommitInvariant, PopMarkInvariant DEF Continue
  <1>7. CASE Reset
    BY <1>1, <1>7, ResetInvariant
  <1>8. CASE UNCHANGED vars
    <2>1. /\ MarksOrdered' /\ WindowStartsJournals'
      BY <1>8 DEF vars, state, journals, window, call, IInv, MarksOrdered, CurrentMark, HoldsMark,
         WindowStartsJournals
    <2>2. /\ RestoreProgress' /\ NoDanglingReference'
      BY <1>8 DEF vars, state, journals, window, call, IInv, RestoreProgress,
         NoDanglingReference, ReachesWithin, HoldsMark
    <2>3. /\ LedgerTracks' /\ NeverPoisoned'
      BY <1>8 DEF vars, state, journals, window, call, IInv, LedgerTracks, Held, HoldsMark,
         NeverPoisoned
    <2>4. QED
      BY <1>1, <2>1, <2>2, <2>3 DEF IInv
  <1>9. QED
    BY <1>3, <1>6, <1>7, <1>8 DEF Next

\* The inductive invariant holds in every reachable state.
THEOREM Invariance == Spec => []IInv
  <1>1. IInv /\ [Next]_vars => IInv'
    BY NextInvariant
  <1>2. QED
    BY <1>1, InitialInvariant, PTL DEF Spec

\* No restore, whatever failed before it, meets a mark its journals do not
\* contain, and older marks lie below younger ones.
THEOREM MarksStayOrdered == Spec => []MarksOrdered
  <1>1. IInv => MarksOrdered
    BY DEF IInv
  <1>2. QED
    BY <1>1, Invariance, PTL

\* Compaction keeps exactly the records the window needs.
THEOREM JournalsStartAtWindow == Spec => []WindowStartsJournals
  <1>1. IInv => WindowStartsJournals
    BY DEF IInv
  <1>2. QED
    BY <1>1, Invariance, PTL

\* Without an injected restore failure a guide is never poisoned: no mark it
\* restores or compacts to is ever invalid.
THEOREM NoPoisoning == Spec => []NeverPoisoned
  <1>1. IInv => NeverPoisoned
    BY DEF IInv
  <1>2. QED
    BY <1>1, Invariance, PTL

\* Between calls the ledger is exact and within its limit.
THEOREM LedgerIsExact == Spec => []LedgerExact
  <1>1. IInv => LedgerExact
    BY DEF IInv, LedgerTracks, LedgerExact, HoldsMark
  <1>2. QED
    BY <1>1, Invariance, PTL

\* Semantic state never refers past the arena, in the middle of a restore
\* and at every state a restore can return to.
THEOREM NoReferenceDangles == Spec => []NoDanglingReference
  <1>1. IInv => NoDanglingReference
    BY DEF IInv
  <1>2. QED
    BY <1>1, Invariance, PTL

\* The admission check of a commit predicts the ledger the commit leaves.
THEOREM PredictionIsExact == Spec => PredictionExact
  <1>1. ASSUME IInv, [Next]_vars
        PROVE  [stage = "commit" /\ trace' # trace => retained' = RetainedAfterPush(mark)]_vars
    <2>1. SUFFICES ASSUME stage = "commit", trace' # trace, Next
                   PROVE  retained' = RetainedAfterPush(mark)
      BY <1>1 DEF vars, window
    <2>2. TypeOK' /\ IInv
      BY <1>1, NextTyped DEF IInv
    <2>3. CASE Commit
      BY <2>2, <2>3, CommitLedger
    <2>4. CASE CommitRefused
      BY <2>1, <2>4 DEF CommitRefused, window
    <2>5. QED
      BY <2>1, <2>3, <2>4 DEF Next, Begin, BeginProbe, BeginAdvance, BeginSequence, BeginMask,
         BeginRollback, Continue, SequenceToken, SequenceRejected, MaskProbe, SequenceEnd,
         MaskEnd, RunTransition, FeedByte, CursorRecord, CursorDone, RouterEvent, SemanticEvent,
         EventsDone, Deny, Fail, FinishRun, Restore, RestoreBreaks, RestoreSemantic,
         RestoreRouter, RestoreCursor, RestoreRest, RestoreOrder, PopMark, RollbackEnd, Reset
  <1>2. QED
    BY <1>1, Invariance, PTL DEF Spec, PredictionExact

------------------------------------------------------------------------------
(***************************************************************************)
(* The engine implements GuideContract.                                    *)
(*                                                                         *)
(* What the contract sees of a mark is the state it resolves to in the     *)
(* journals.  A step that pushes records, or that pops none below a mark,  *)
(* leaves what the mark resolves to as it was; so only an advance that     *)
(* commits, a rollback that begins, a restore that breaks and a reset      *)
(* are steps of the contract.                                              *)
(***************************************************************************)

\* What the mark m resolves to once a step has been taken.
NextStateAt(m) ==
  [dfa |-> m.dfa, lifecycle |-> m.lifecycle, trace |-> Truncate(trace', m.traceLen),
   memory |-> Memory(ValueAt(cursorJournal', m.cursor, cursor'), m.arena,
                     ValueAt(routerJournal', m.router, router'),
                     ValueAt(semanticJournal', m.semantic, semantic'))]

\* A mark that lies within the journals and the trace.
Within(m) ==
  /\ m.cursor \in 0..Len(cursorJournal)
  /\ m.router \in 0..Len(routerJournal)
  /\ m.semantic \in 0..Len(semanticJournal)
  /\ m.traceLen \in 0..Len(trace)

LEMMA MarkWithin ==
  ASSUME TypeOK, NEW m \in TokenMark, NoLaterThan(m, CurrentMark)
  PROVE  Within(m)
  BY MarkFields, Lengths DEF NoLaterThan, CurrentMark, Within

\* Every mark held lies within the journals and the trace.
LEMMA HeldWithin ==
  ASSUME IInv
  PROVE  /\ Within(CurrentMark) /\ CurrentMark \in TokenMark /\ mark \in TokenMark
         /\ HoldsMark => Within(mark)
         /\ \A i \in 1..Len(checkpoints) : checkpoints[i] \in TokenMark /\ Within(checkpoints[i])
  <1>1. TypeOK /\ MarksOrdered
    BY DEF IInv
  <1>2. QED
    BY <1>1, MarkTypes, MarkWithin, NoLaterReflexive DEF MarksOrdered

-----------------------------------------------------------------------------
(* Steps that change no journal, push one record, or pop one journal.      *)

LEMMA QuietResolves ==
  ASSUME UNCHANGED <<cursor, router, semantic, journals, trace>>, NEW m
  PROVE  NextStateAt(m) = StateAt(m)
  BY DEF NextStateAt, StateAt, journals

LEMMA CursorPushResolves ==
  ASSUME TypeOK, NEW new, cursorJournal' = Append(cursorJournal, cursor),
         UNCHANGED <<router, semantic, routerJournal, semanticJournal, trace>>,
         NEW m, Within(m)
  PROVE  NextStateAt(m) = StateAt(m)
  <1>1. ValueAt(cursorJournal', m.cursor, cursor') = ValueAt(cursorJournal, m.cursor, cursor)
    BY ValueAtAppend DEF TypeOK, Within
  <1>2. QED
    BY <1>1 DEF NextStateAt, StateAt

LEMMA RouterPushResolves ==
  ASSUME TypeOK, routerJournal' = Append(routerJournal, router),
         UNCHANGED <<cursor, semantic, cursorJournal, semanticJournal, trace>>,
         NEW m, Within(m)
  PROVE  NextStateAt(m) = StateAt(m)
  <1>1. ValueAt(routerJournal', m.router, router') = ValueAt(routerJournal, m.router, router)
    BY ValueAtAppend DEF TypeOK, Within
  <1>2. QED
    BY <1>1 DEF NextStateAt, StateAt

LEMMA SemanticPushResolves ==
  ASSUME TypeOK, semanticJournal' = Append(semanticJournal, semantic),
         UNCHANGED <<cursor, router, cursorJournal, routerJournal, trace>>,
         NEW m, Within(m)
  PROVE  NextStateAt(m) = StateAt(m)
  <1>1. ValueAt(semanticJournal', m.semantic, semantic')
          = ValueAt(semanticJournal, m.semantic, semantic)
    BY ValueAtAppend DEF TypeOK, Within
  <1>2. QED
    BY <1>1 DEF NextStateAt, StateAt

-----------------------------------------------------------------------------
(* Steps the contract does not see.                                        *)

\* Every step that neither restores, commits, pops a mark nor begins a rollback.
Unseen ==
  /\ ForwardStep
  /\ \A m \in TokenMark : Within(m) => NextStateAt(m) = StateAt(m)
  /\ ~HoldsMark => UNCHANGED <<dfa, lifecycle>>
  /\ op = "rollback" => todo = 0
  /\ op' # "rollback"

LEMMA UnseenStutters ==
  ASSUME IInv, Unseen
  PROVE  UNCHANGED <<Now, Past>>
  <1>1. /\ UNCHANGED <<checkpoints, trace>>
        /\ lifecycle # "Poisoned" /\ lifecycle' # "Poisoned"
        /\ ~(op = "rollback" /\ todo > 0) /\ ~(op' = "rollback" /\ todo' > 0)
    BY DEF Unseen, ForwardStep, window
  <1>2. UNCHANGED Past
    <2>1. Len(checkpoints) \in Nat
      BY Lengths DEF IInv
    <2>2. Past = [i \in 1..Len(checkpoints) |-> StateAt(checkpoints[i])]
      BY <1>1, <2>1 DEF Past, Unseen
    <2>3. Past' = [i \in 1..Len(checkpoints) |-> NextStateAt(checkpoints[i])]
      BY <1>1, <2>1 DEF Past, Unseen, StateAt, NextStateAt
    <2>4. \A i \in 1..Len(checkpoints) : NextStateAt(checkpoints[i]) = StateAt(checkpoints[i])
      BY HeldWithin DEF Unseen
    <2>5. QED
      BY <2>2, <2>3, <2>4
  <1>3. CASE HoldsMark
    <2>1. HoldsMark' /\ mark' = mark
      BY <1>3 DEF Unseen, ForwardStep
    <2>2. Now = StateAt(mark)
      BY <1>1, <1>3 DEF Now
    <2>3. Now' = NextStateAt(mark)
      BY <1>1, <2>1 DEF Now, StateAt, NextStateAt
    <2>4. NextStateAt(mark) = StateAt(mark)
      BY <1>3, HeldWithin DEF Unseen
    <2>5. QED
      BY <1>2, <2>2, <2>3, <2>4
  <1>4. CASE ~HoldsMark
    <2>1. CurrentMark' = CurrentMark /\ (HoldsMark' => mark' = CurrentMark)
      BY <1>1, <1>4 DEF Unseen, ForwardStep, journals, CurrentMark
    <2>2. Now = StateAt(CurrentMark)
      BY <1>1, <1>4 DEF Now
    <2>3. Now' = NextStateAt(CurrentMark)
      <3>1. CASE HoldsMark'
        BY <1>1, <2>1, <3>1 DEF Now, StateAt, NextStateAt
      <3>2. CASE ~HoldsMark'
        <4>1. Now' = StateAt(CurrentMark)'
          BY <1>1, <3>2 DEF Now
        <4>2. StateAt(CurrentMark)' = NextStateAt(CurrentMark')
          BY DEF StateAt, NextStateAt
        <4>3. QED
          BY <2>1, <4>1, <4>2
      <3>3. QED
        BY <3>1, <3>2
    <2>4. NextStateAt(CurrentMark) = StateAt(CurrentMark)
      BY HeldWithin DEF Unseen
    <2>5. QED
      BY <1>2, <2>2, <2>3, <2>4
  <1>5. QED
    BY <1>3, <1>4

\* The steps of a call between the ones the contract sees.
LEMMA UnseenSteps ==
  ASSUME IInv, TypeOK', CallShape'
  PROVE  /\ \A t \in AllTokens : BeginProbe(t) \/ BeginAdvance(t) => Unseen
         /\ \A n \in 0..MaxSequence : BeginSequence(n) => Unseen
         /\ BeginMask => Unseen
         /\ \A t \in AllTokens : SequenceToken(t) \/ SequenceRejected(t) \/ MaskProbe(t) => Unseen
         /\ SequenceEnd \/ MaskEnd \/ CursorDone \/ EventsDone \/ Deny \/ Fail => Unseen
         /\ FinishRun \/ CommitRefused \/ RollbackEnd => Unseen
  <1>1. CallShape /\ TypeOK
    BY DEF IInv
  <1>2. UNCHANGED <<cursor, router, semantic, journals, trace>>
          => \A m \in TokenMark : Within(m) => NextStateAt(m) = StateAt(m)
    BY QuietResolves
  <1>3. ASSUME NEW t \in AllTokens, BeginProbe(t) \/ BeginAdvance(t)
        PROVE  Unseen
    <2>1. ForwardStep
      BY <1>3, QuietSteps
    <2>2. QED
      BY <1>1, <1>2, <1>3, <2>1 DEF BeginProbe, BeginAdvance, Unseen, state, window, CallShape
  <1>4. ASSUME NEW n \in 0..MaxSequence, BeginSequence(n)
        PROVE  Unseen
    <2>1. ForwardStep
      BY <1>4, QuietSteps
    <2>2. QED
      BY <1>1, <1>2, <1>4, <2>1 DEF BeginSequence, Unseen, state, window, CallShape
  <1>5. ASSUME BeginMask
        PROVE  Unseen
    <2>1. ForwardStep
      BY <1>5, QuietSteps
    <2>2. QED
      BY <1>1, <1>2, <1>5, <2>1 DEF BeginMask, Unseen, state, window, CallShape
  <1>6. ASSUME NEW t \in AllTokens, SequenceToken(t) \/ SequenceRejected(t) \/ MaskProbe(t)
        PROVE  Unseen
    <2>1. ForwardStep
      BY <1>6, QuietSteps
    <2>2. QED
      BY <1>1, <1>2, <1>6, <2>1 DEF SequenceToken, SequenceRejected, MaskProbe, UndoWith,
         Unseen, state, window, CallShape
  <1>7. ASSUME SequenceEnd \/ MaskEnd \/ CursorDone \/ EventsDone \/ Deny \/ Fail
        PROVE  Unseen
    <2>1. ForwardStep
      BY <1>7, QuietSteps
    <2>2. QED
      BY <1>1, <1>2, <1>7, <2>1 DEF SequenceEnd, MaskEnd, CursorDone, EventsDone, Deny, Fail,
         Return, UndoWith, Unseen, state, window, CallShape, Restoring
  <1>8. ASSUME FinishRun \/ CommitRefused \/ RollbackEnd
        PROVE  Unseen
    <2>1. ForwardStep
      BY <1>8, QuietSteps
    <2>2. op = "rollback" => todo = 0
      BY <1>1, <1>8 DEF FinishRun, CommitRefused, RollbackEnd, CallShape, Restoring
    <2>3. op' # "rollback"
      BY <1>1, <1>8 DEF FinishRun, CommitRefused, RollbackEnd, CallShape, Restoring, Return, UndoWith
    <2>4. ~HoldsMark => UNCHANGED <<dfa, lifecycle>>
      BY <1>8 DEF FinishRun, CommitRefused, RollbackEnd, HoldsMark, state
    <2>5. UNCHANGED <<cursor, router, semantic, journals, trace>>
      BY <1>8 DEF FinishRun, CommitRefused, RollbackEnd, state, window
    <2>6. QED
      BY <1>2, <2>1, <2>2, <2>3, <2>4, <2>5 DEF Unseen
  <1>9. QED
    BY <1>3, <1>4, <1>5, <1>6, <1>7, <1>8

\* The steps that push a record.
LEMMA UnseenPushes ==
  ASSUME IInv, TypeOK', CallShape'
  PROVE  /\ \A new \in CursorStates : FeedByte(new) => Unseen
         /\ \A new \in CursorStates, length \in arena..MaxArena :
              CursorRecord(new, length) => Unseen
         /\ \A new \in RouterStates : RouterEvent(new) => Unseen
         /\ \A new \in SemanticStates : SemanticEvent(new) => Unseen
  <1>1. CallShape /\ TypeOK
    BY DEF IInv
  <1>2. ASSUME NEW new \in CursorStates, NEW length, stage \in {"byte", "cursor"},
               CursorPush(new, length), ForwardStep, UNCHANGED op
        PROVE  Unseen
    <2>1. /\ cursorJournal' = Append(cursorJournal, cursor)
          /\ UNCHANGED <<dfa, lifecycle, router, semantic, routerJournal, semanticJournal, trace>>
      BY <1>2 DEF CursorPush, window
    <2>2. \A m \in TokenMark : Within(m) => NextStateAt(m) = StateAt(m)
      BY <1>1, <2>1, CursorPushResolves
    <2>3. QED
      BY <1>1, <1>2, <2>1, <2>2 DEF Unseen, CallShape, Restoring
  <1>3. ASSUME NEW new \in CursorStates, FeedByte(new)
        PROVE  Unseen
    BY <1>2, <1>3, PushSteps DEF FeedByte
  <1>4. ASSUME NEW new \in CursorStates, NEW length \in arena..MaxArena, CursorRecord(new, length)
        PROVE  Unseen
    BY <1>2, <1>4, PushSteps DEF CursorRecord, call
  <1>5. ASSUME NEW new \in RouterStates, RouterEvent(new)
        PROVE  Unseen
    <2>1. /\ routerJournal' = Append(routerJournal, router)
          /\ UNCHANGED <<dfa, lifecycle, cursor, semantic, cursorJournal, semanticJournal>>
          /\ UNCHANGED <<trace, op, todo>> /\ stage = "events"
      BY <1>5 DEF RouterEvent, window, call
    <2>2. \A m \in TokenMark : Within(m) => NextStateAt(m) = StateAt(m)
      BY <1>1, <2>1, RouterPushResolves
    <2>3. ForwardStep
      BY <1>5, PushSteps
    <2>4. QED
      BY <1>1, <2>1, <2>2, <2>3 DEF Unseen, CallShape, Restoring
  <1>6. ASSUME NEW new \in SemanticStates, SemanticEvent(new)
        PROVE  Unseen
    <2>1. /\ semanticJournal' = Append(semanticJournal, semantic)
          /\ UNCHANGED <<dfa, lifecycle, cursor, router, cursorJournal, routerJournal>>
          /\ UNCHANGED <<trace, op, todo>> /\ stage = "events"
      BY <1>6 DEF SemanticEvent, window, call
    <2>2. \A m \in TokenMark : Within(m) => NextStateAt(m) = StateAt(m)
      BY <1>1, <2>1, SemanticPushResolves
    <2>3. ForwardStep
      BY <1>6, PushSteps
    <2>4. QED
      BY <1>1, <2>1, <2>2, <2>3 DEF Unseen, CallShape, Restoring
  <1>7. QED
    BY <1>3, <1>4, <1>5, <1>6

-----------------------------------------------------------------------------
(* Restores.                                                               *)

\* A step inside a restore, before the mark is let go: what the mark and the
\* older ones resolve to stays.
Rewinding ==
  /\ stage \in Restoring /\ HoldsMark'
  /\ lifecycle' # "Poisoned"
  /\ UNCHANGED <<mark, checkpoints, op, todo>>
  /\ \A m \in TokenMark : NoLaterThan(m, mark) => NextStateAt(m) = StateAt(m)

LEMMA RewindingStutters ==
  ASSUME IInv, Rewinding
  PROVE  UNCHANGED <<Now, Past>>
  <1>1. /\ HoldsMark /\ lifecycle # "Poisoned" /\ mark \in TokenMark
        /\ \A i \in 1..Len(checkpoints) :
             checkpoints[i] \in TokenMark /\ NoLaterThan(checkpoints[i], mark)
    BY RestoreFinds DEF Rewinding
  <1>2. /\ NextStateAt(mark) = StateAt(mark)
        /\ \A i \in 1..Len(checkpoints) : NextStateAt(checkpoints[i]) = StateAt(checkpoints[i])
    BY <1>1, NoLaterReflexive DEF Rewinding
  <1>3. Len(checkpoints) \in Nat /\ todo \in Nat /\ (op = "rollback" => todo <= Len(checkpoints))
    BY Lengths DEF IInv, TypeOK, CallShape
  <1> DEFINE ahead == IF op = "rollback" THEN todo ELSE 0
             visible == Len(checkpoints) - ahead
  <1>4. visible \in 0..Len(checkpoints)
    BY <1>3
  <1>5. UNCHANGED Past
    <2>1. Past = [i \in 1..visible |-> StateAt(checkpoints[i])]
      BY <1>1 DEF Past
    <2>2. Past' = [i \in 1..visible |-> NextStateAt(checkpoints[i])]
      BY DEF Rewinding, Past, StateAt, NextStateAt
    <2>3. \A i \in 1..visible : i \in 1..Len(checkpoints)
      BY <1>3, <1>4
    <2> HIDE DEF visible
    <2>4. QED
      BY <1>2, <2>1, <2>2, <2>3
  <1>6. CASE op = "rollback" /\ todo > 0
    <2>1. Len(checkpoints) - todo + 1 \in 1..Len(checkpoints)
      BY <1>3, <1>6
    <2>2. Now = StateAt(checkpoints[Len(checkpoints) - todo + 1])
      BY <1>1, <1>6 DEF Now
    <2>3. Now' = NextStateAt(checkpoints[Len(checkpoints) - todo + 1])
      BY <1>6 DEF Rewinding, Now, StateAt, NextStateAt
    <2>4. QED
      BY <1>2, <1>5, <2>1, <2>2, <2>3
  <1>7. CASE ~(op = "rollback" /\ todo > 0)
    <2>1. Now = StateAt(mark)
      BY <1>1, <1>7 DEF Now
    <2>2. Now' = NextStateAt(mark)
      BY <1>7 DEF Rewinding, Now, StateAt, NextStateAt
    <2>3. QED
      BY <1>2, <1>5, <2>1, <2>2
  <1>8. QED
    BY <1>6, <1>7

LEMMA RewindingSteps ==
  ASSUME IInv, RestoreSemantic \/ RestoreRouter \/ RestoreCursor
  PROVE  Rewinding
  <1>1. stage \in Restoring
    BY DEF RestoreSemantic, RestoreRouter, RestoreCursor, Restoring
  <1>2. /\ TypeOK /\ lifecycle # "Poisoned" /\ mark \in TokenMark
        /\ mark.cursor \in 0..Len(cursorJournal) /\ mark.arena <= arena
        /\ mark.router \in 0..Len(routerJournal)
        /\ mark.semantic \in 0..Len(semanticJournal)
    BY <1>1, RestoreFinds
  <1>3. \A m \in TokenMark : NoLaterThan(m, mark) =>
          /\ m.cursor \in 0..mark.cursor
          /\ m.router \in 0..mark.router
          /\ m.semantic \in 0..mark.semantic
    BY <1>2, MarkFields DEF NoLaterThan
  <1>4. CASE RestoreSemantic
    <2>1. /\ semantic' = ValueAt(semanticJournal, mark.semantic, semantic)
          /\ semanticJournal' = Truncate(semanticJournal, mark.semantic)
          /\ stage' = "restoreRouter"
          /\ UNCHANGED <<lifecycle, op, mark, todo, cursor, router, cursorJournal, routerJournal,
                         checkpoints, trace>>
      BY <1>2, <1>4, Lengths DEF RestoreSemantic, RestoreOrder, window
    <2>2. ASSUME NEW m \in TokenMark, NoLaterThan(m, mark)
          PROVE  ValueAt(semanticJournal', m.semantic, semantic')
                   = ValueAt(semanticJournal, m.semantic, semantic)
      BY <1>2, <1>3, <2>1, <2>2, ValueAtTruncate DEF TypeOK
    <2>3. QED
      BY <1>1, <1>2, <2>1, <2>2 DEF Rewinding, NextStateAt, StateAt, HoldsMark
  <1>5. CASE RestoreRouter
    <2>1. /\ router' = ValueAt(routerJournal, mark.router, router)
          /\ routerJournal' = Truncate(routerJournal, mark.router)
          /\ stage' = "restoreCursor"
          /\ UNCHANGED <<lifecycle, op, mark, todo, cursor, semantic, cursorJournal,
                         semanticJournal, checkpoints, trace>>
      BY <1>2, <1>5, Lengths DEF RestoreRouter, RestoreOrder, window
    <2>2. ASSUME NEW m \in TokenMark, NoLaterThan(m, mark)
          PROVE  ValueAt(routerJournal', m.router, router')
                   = ValueAt(routerJournal, m.router, router)
      BY <1>2, <1>3, <2>1, <2>2, ValueAtTruncate DEF TypeOK
    <2>3. QED
      BY <1>1, <1>2, <2>1, <2>2 DEF Rewinding, NextStateAt, StateAt, HoldsMark
  <1>6. CASE RestoreCursor
    <2>1. /\ cursor' = ValueAt(cursorJournal, mark.cursor, cursor)
          /\ cursorJournal' = Truncate(cursorJournal, mark.cursor)
          /\ stage' = "restoreRest"
          /\ UNCHANGED <<lifecycle, op, mark, todo, router, semantic, routerJournal,
                         semanticJournal, checkpoints, trace>>
      BY <1>2, <1>6, Lengths DEF RestoreCursor, RestoreOrder, window
    <2>2. ASSUME NEW m \in TokenMark, NoLaterThan(m, mark)
          PROVE  ValueAt(cursorJournal', m.cursor, cursor')
                   = ValueAt(cursorJournal, m.cursor, cursor)
      BY <1>2, <1>3, <2>1, <2>2, ValueAtTruncate DEF TypeOK
    <2>3. QED
      BY <1>1, <1>2, <2>1, <2>2 DEF Rewinding, NextStateAt, StateAt, HoldsMark
  <1>7. QED
    BY <1>4, <1>5, <1>6

\* The last step of a restore: the guide is at the mark, and lets it go.
LEMMA RestoreRestStutters ==
  ASSUME IInv, TypeOK', RestoreRest
  PROVE  UNCHANGED <<Now, Past>>
  <1>1. stage = "restoreRest" /\ stage \in Restoring
    BY DEF RestoreRest, Restoring
  <1>2. /\ TypeOK /\ CallShape /\ RestoreProgress /\ HoldsMark /\ lifecycle # "Poisoned"
        /\ mark \in TokenMark /\ mark.traceLen <= Len(trace)
        /\ \A i \in 1..Len(checkpoints) :
             checkpoints[i] \in TokenMark /\ NoLaterThan(checkpoints[i], mark)
    BY <1>1, RestoreFinds DEF IInv
  <1>3. /\ dfa' = mark.dfa /\ lifecycle' = mark.lifecycle /\ mark.lifecycle = "Active"
        /\ UNCHANGED <<cursor, arena, router, semantic, journals, checkpoints>>
        /\ (op = "rollback" => op' = op /\ todo' = todo /\ stage' = "unwind")
        /\ (op # "rollback" => op' # "rollback")
        /\ ~HoldsMark'
    BY <1>2 DEF RestoreRest, AfterRestore, Return, HoldsMark, CallShape
  <1>4. trace \in Seq(AllTokens) /\ mark.traceLen \in 0..Len(trace) /\ Len(trace) \in Nat
    <2>1. trace \in Seq(AllTokens)
      BY <1>2 DEF TypeOK
    <2>2. mark.traceLen \in Nat
      BY <1>2, MarkFields
    <2>3. Len(trace) \in Nat
      BY <2>1, LenProperties
    <2>4. QED
      BY <1>2, <2>1, <2>2, <2>3
  <1>5. trace' = Truncate(trace, mark.traceLen)
    <2>1. mark.traceLen < Len(trace) \/ mark.traceLen = Len(trace)
      BY <1>4
    <2>2. Truncate(trace, Len(trace)) = trace
      BY <1>4, TruncateAll
    <2>3. QED
      BY <2>1, <2>2 DEF RestoreRest
  <1>6. Len(trace') = mark.traceLen
    BY <1>4, <1>5, TruncateFacts
  <1>7. ASSUME NEW m \in TokenMark, NoLaterThan(m, mark)
        PROVE  NextStateAt(m) = StateAt(m)
    <2>1. m.traceLen \in 0..mark.traceLen
      BY <1>2, <1>7, MarkFields DEF NoLaterThan
    <2>2. Truncate(trace', m.traceLen) = Truncate(trace, m.traceLen)
      BY <1>4, <1>5, <2>1, TruncateTwice
    <2>3. QED
      BY <1>3, <2>2 DEF NextStateAt, StateAt, journals
  <1>8. CurrentMark' = mark
    <2>1. /\ CurrentMark'.cursor = mark.cursor /\ CurrentMark'.router = mark.router
          /\ CurrentMark'.semantic = mark.semantic /\ CurrentMark'.arena = mark.arena
          /\ CurrentMark'.traceLen = mark.traceLen /\ CurrentMark'.dfa = mark.dfa
          /\ CurrentMark'.lifecycle = mark.lifecycle
      BY <1>1, <1>2, <1>3, <1>6 DEF CurrentMark, RestoreProgress, journals
    <2>2. CurrentMark' = [dfa |-> CurrentMark'.dfa, lifecycle |-> CurrentMark'.lifecycle,
                          cursor |-> CurrentMark'.cursor, arena |-> CurrentMark'.arena,
                          router |-> CurrentMark'.router, semantic |-> CurrentMark'.semantic,
                          traceLen |-> CurrentMark'.traceLen]
      BY DEF CurrentMark
    <2>3. mark = [dfa |-> mark.dfa, lifecycle |-> mark.lifecycle,
                  cursor |-> mark.cursor, arena |-> mark.arena,
                  router |-> mark.router, semantic |-> mark.semantic,
                  traceLen |-> mark.traceLen]
      BY <1>2 DEF TokenMark
    <2>4. QED
      BY <2>1, <2>2, <2>3
  <1>9. /\ NextStateAt(mark) = StateAt(mark)
        /\ \A i \in 1..Len(checkpoints) : NextStateAt(checkpoints[i]) = StateAt(checkpoints[i])
    BY <1>2, <1>7, NoLaterReflexive
  <1>10. Len(checkpoints) \in Nat /\ todo \in Nat /\ (op = "rollback" => todo <= Len(checkpoints))
    BY <1>2, Lengths DEF TypeOK, CallShape
  <1> DEFINE visible == Len(checkpoints) - (IF op = "rollback" THEN todo ELSE 0)
  <1>11. visible \in 0..Len(checkpoints)
    BY <1>10
  <1>12. UNCHANGED Past
    <2>1. Past = [i \in 1..visible |-> StateAt(checkpoints[i])]
      BY <1>2 DEF Past
    <2>2. Past' = [i \in 1..visible |-> NextStateAt(checkpoints[i])]
      BY <1>3 DEF Past, StateAt, NextStateAt
    <2>3. \A i \in 1..visible : i \in 1..Len(checkpoints)
      BY <1>10, <1>11
    <2> HIDE DEF visible
    <2>4. QED
      BY <1>9, <2>1, <2>2, <2>3
  <1>13. CASE op = "rollback" /\ todo > 0
    <2>1. Len(checkpoints) - todo + 1 \in 1..Len(checkpoints)
      BY <1>10, <1>13
    <2>2. Now = StateAt(checkpoints[Len(checkpoints) - todo + 1])
      BY <1>2, <1>13 DEF Now
    <2>3. Now' = NextStateAt(checkpoints[Len(checkpoints) - todo + 1])
      BY <1>3, <1>13 DEF Now, StateAt, NextStateAt
    <2>4. QED
      BY <1>9, <1>12, <2>1, <2>2, <2>3
  <1>14. CASE ~(op = "rollback" /\ todo > 0)
    <2>1. Now = StateAt(mark)
      BY <1>2, <1>14 DEF Now
    <2>2. Now' = StateAt(CurrentMark)'
      BY <1>3, <1>14 DEF Now
    <2>3. StateAt(CurrentMark)' = NextStateAt(CurrentMark')
      BY DEF StateAt, NextStateAt
    <2>4. QED
      BY <1>8, <1>9, <1>12, <2>1, <2>2, <2>3
  <1>15. QED
    BY <1>13, <1>14

\* A mark popped is the mark restored: the contract has returned there already.
LEMMA PopMarkStutters ==
  ASSUME IInv, PopMark
  PROVE  UNCHANGED <<Now, Past>>
  <1>1. /\ stage = "unwind" /\ op = "rollback" /\ ~HoldsMark /\ lifecycle # "Poisoned"
        /\ todo > 0 /\ todo \in Nat /\ todo <= Len(checkpoints)
        /\ TypeOK /\ checkpoints \in Seq(TokenMark) /\ Len(checkpoints) \in Nat
    BY Lengths DEF PopMark, IInv, CallShape, TypeOK, HoldsMark
  <1>2. /\ checkpoints' = Truncate(checkpoints, Len(checkpoints) - 1)
        /\ mark' = checkpoints[Len(checkpoints)] /\ todo' = todo - 1
        /\ op' = "rollback" /\ HoldsMark'
        /\ UNCHANGED <<lifecycle, state, journals, trace>>
    BY <1>1 DEF PopMark, Front, Last, Truncate, RestoreOrder, HoldsMark, state
  <1>3. /\ Len(checkpoints') = Len(checkpoints) - 1
        /\ \A i \in 1..(Len(checkpoints) - 1) : checkpoints'[i] = checkpoints[i]
    <2>1. Len(checkpoints) - 1 \in 0..Len(checkpoints)
      BY <1>1
    <2>2. QED
      BY <1>1, <1>2, <2>1, TruncateFacts
  <1>4. \A m : NextStateAt(m) = StateAt(m)
    BY <1>2, QuietResolves DEF state
  <1> DEFINE visible == Len(checkpoints) - todo
  <1>5. visible = Len(checkpoints') - todo' /\ \A i \in 1..visible : i \in 1..(Len(checkpoints) - 1)
    BY <1>1, <1>2, <1>3
  <1>6. UNCHANGED Past
    <2>1. Past = [i \in 1..visible |-> StateAt(checkpoints[i])]
      BY <1>1 DEF Past
    <2>2. Past' = [i \in 1..(Len(checkpoints') - todo') |-> NextStateAt(checkpoints'[i])]
      BY <1>1, <1>2 DEF Past, StateAt, NextStateAt
    <2> HIDE DEF visible
    <2>3. QED
      BY <1>3, <1>4, <1>5, <2>1, <2>2
  <1>7. Now = StateAt(checkpoints[Len(checkpoints) - todo + 1])
    BY <1>1 DEF Now
  <1>8. CASE todo = 1
    <2>1. Now' = NextStateAt(mark')
      BY <1>1, <1>2, <1>8 DEF Now, StateAt, NextStateAt
    <2>2. Len(checkpoints) - todo + 1 = Len(checkpoints)
      BY <1>1, <1>8
    <2>3. QED
      BY <1>2, <1>4, <1>6, <1>7, <2>1, <2>2
  <1>9. CASE todo > 1
    <2>1. Now' = NextStateAt(checkpoints'[Len(checkpoints') - todo' + 1])
      <3>1. todo' > 0
        BY <1>1, <1>2, <1>9
      <3>2. QED
        BY <1>1, <1>2, <3>1 DEF Now, StateAt, NextStateAt
    <2>2. /\ Len(checkpoints') - todo' + 1 = Len(checkpoints) - todo + 1
          /\ Len(checkpoints) - todo + 1 \in 1..(Len(checkpoints) - 1)
      <3>1. Len(checkpoints') = Len(checkpoints) - 1 /\ todo' = todo - 1
        BY <1>2, <1>3
      <3>2. todo \in Nat /\ Len(checkpoints) \in Nat /\ todo <= Len(checkpoints)
        BY <1>1
      <3>3. QED
        BY <1>9, <3>1, <3>2
    <2>3. QED
      BY <1>3, <1>4, <1>6, <1>7, <2>1, <2>2
  <1>10. QED
    BY <1>1, <1>8, <1>9

-----------------------------------------------------------------------------
(* The steps of the contract.                                              *)

\* A rollback of n tokens returns at once to the state n advances ago.
LEMMA BeginRollbackStep ==
  ASSUME IInv, NEW n \in 0..MaxRollback, BeginRollback(n)
  PROVE  (\E k \in 1..Len(Past) : Contract!Rollback(k)) \/ UNCHANGED <<Now, Past>>
  <1>1. /\ stage = "idle" /\ op = "none" /\ ~HoldsMark /\ lifecycle # "Poisoned"
        /\ n \in Nat /\ n <= Len(checkpoints) /\ Len(checkpoints) \in Nat
        /\ op' = "rollback" /\ stage' = "unwind" /\ todo' = n /\ ~HoldsMark'
        /\ UNCHANGED <<lifecycle, state, journals, window, checkpoints, trace>>
    BY Lengths, LimitAssumption DEF BeginRollback, IInv, CallShape, HoldsMark, state, window
  <1>2. \A m : NextStateAt(m) = StateAt(m)
    BY <1>1, QuietResolves DEF state
  <1>3. /\ Now = StateAt(CurrentMark)
        /\ Past = [i \in 1..Len(checkpoints) |-> StateAt(checkpoints[i])]
    BY <1>1 DEF Now, Past
  <1>4. Past' = [i \in 1..(Len(checkpoints) - n) |-> StateAt(checkpoints[i])]
    <2>1. Past' = [i \in 1..(Len(checkpoints) - n) |-> NextStateAt(checkpoints[i])]
      BY <1>1 DEF Past, StateAt, NextStateAt
    <2>2. QED
      BY <1>2, <2>1
  <1>5. CASE n = 0
    <2>1. Now' = StateAt(CurrentMark)'
      BY <1>1, <1>5 DEF Now
    <2>2. StateAt(CurrentMark)' = NextStateAt(CurrentMark') /\ CurrentMark' = CurrentMark
      BY <1>1 DEF StateAt, NextStateAt, CurrentMark, journals, state
    <2>3. QED
      BY <1>1, <1>2, <1>3, <1>4, <1>5, <2>1, <2>2
  <1>6. CASE n > 0
    <2>1. Len(Past) = Len(checkpoints) /\ n \in 1..Len(Past)
      BY <1>1, <1>3, <1>6
    <2>2. Len(checkpoints) - n + 1 \in 1..Len(checkpoints)
      BY <1>1, <1>6
    <2>3. Now' = NextStateAt(checkpoints[Len(checkpoints) - n + 1])
      BY <1>1, <1>6 DEF Now, StateAt, NextStateAt
    <2>4. Now' = Past[Len(Past) - n + 1]
      BY <1>2, <1>3, <2>1, <2>2, <2>3
    <2>5. Past' = SubSeq(Past, 1, Len(Past) - n)
      <3>1. SubSeq(Past, 1, Len(Past) - n) = [i \in 1..(Len(checkpoints) - n) |-> Past[i]]
        BY <1>1, <1>6, <2>1
      <3>2. \A i \in 1..(Len(checkpoints) - n) : i \in 1..Len(checkpoints)
        BY <1>1
      <3>3. QED
        BY <1>3, <1>4, <3>1, <3>2
    <2>6. Now.lifecycle # "Poisoned"
      BY <1>1, <1>3 DEF StateAt, CurrentMark
    <2>7. QED
      BY <2>1, <2>4, <2>5, <2>6 DEF Contract!Rollback
  <1>7. QED
    BY <1>1, <1>5, <1>6

LEMMA RestoreBreaksStep ==
  ASSUME RestoreBreaks
  PROVE  Contract!Poison
  <1>1. lifecycle' = "Poisoned" /\ RestoreMayFail
    BY DEF RestoreBreaks, Poison
  <1>2. Now' = [lifecycle |-> "Poisoned"] /\ Past' = <<>>
    BY <1>1 DEF Now, Past
  <1>3. QED
    BY <1>1, <1>2 DEF Contract!Poison, Contract!Broken

LEMMA ResetStep ==
  ASSUME IInv, Reset
  PROVE  Contract!Reset
  <1>1. /\ op' = "none" /\ stage' = "idle" /\ ~HoldsMark' /\ lifecycle' = "Active"
        /\ dfa' = InitialDfa /\ cursor' = InitialCursor /\ arena' = 0
        /\ router' = InitialRouter /\ semantic' = InitialSemantic
        /\ cursorJournal' = <<>> /\ routerJournal' = <<>> /\ semanticJournal' = <<>>
        /\ checkpoints' = <<>> /\ trace' = <<>>
    BY DEF Reset, call, IInv, CallShape, HoldsMark
  <1>2. Now' = StateAt(CurrentMark)'
    BY <1>1 DEF Now
  <1>3. Now' = Contract!Fresh
    BY <1>1, <1>2 DEF StateAt, CurrentMark, Contract!Fresh, Memory, ValueAt, Truncate
  <1>4. Past' = <<>>
    BY <1>1 DEF Past
  <1>5. QED
    BY <1>3, <1>4 DEF Contract!Reset

-----------------------------------------------------------------------------
(* The commit.                                                             *)

\* A step of the same advance that leaves the trace, the automaton and the mark.
Feeding ==
  /\ stage \in Running /\ stage' \in Running
  /\ UNCHANGED <<dfa, trace, op, mark, token>>

LEMMA FeedingSteps ==
  /\ \A new \in CursorStates : FeedByte(new) => Feeding
  /\ \A new \in CursorStates, length \in arena..MaxArena :
       CursorRecord(new, length) => Feeding
  /\ CursorDone => Feeding
  /\ \A new \in RouterStates : RouterEvent(new) => Feeding
  /\ \A new \in SemanticStates : SemanticEvent(new) => Feeding
  /\ EventsDone => Feeding
  BY DEF FeedByte, CursorPush, CursorRecord, CursorDone, RouterEvent, SemanticEvent, EventsDone,
     Feeding, Running, state, window, call

\* From the mark an advance took to its commit, only its own token has moved the
\* automaton and nothing has grown the trace.
LEMMA AdvanceFromMarkKept ==
  ASSUME IInv, AdvanceFromMark, [Next]_vars
  PROVE  AdvanceFromMark'
  <1> SUFFICES ASSUME op' = "advance", stage' \in Running \union {"commit"}
               PROVE  /\ mark'.traceLen = Len(trace')
                      /\ IF token' = Eos THEN mark'.dfa \in FinalDfa
                         ELSE <<mark'.dfa, token'>> \in DOMAIN Delta
                      /\ stage' \in Running => dfa' = mark'.dfa
                      /\ stage' = "commit" =>
                           /\ dfa' = IF token' = Eos THEN mark'.dfa ELSE Delta[<<mark'.dfa, token'>>]
                           /\ lifecycle' = IF token' = Eos THEN "Terminated" ELSE "Active"
    BY DEF AdvanceFromMark
  <1>1. TypeOK /\ CallShape
    BY DEF IInv
  <1>2. CASE Feeding
    BY <1>2 DEF Feeding, AdvanceFromMark, Running
  <1>3. ASSUME NEW t \in AllTokens, BeginAdvance(t)
        PROVE  AdvanceFromMark'
    BY <1>3 DEF BeginAdvance, StartTransition, CurrentMark, Structural, AdvanceFromMark, Running,
       state, window
  <1>4. CASE FinishRun
    <2>1. /\ stage = "byte" /\ op = "advance" /\ stage' = "commit"
          /\ UNCHANGED <<mark, token, trace>>
          /\ dfa' = Successor(token)
          /\ lifecycle' = IF token = Eos THEN "Terminated" ELSE lifecycle
      BY <1>4 DEF FinishRun, Transitioned, UndoWith, RestoreOrder, Running, window
    <2>2. lifecycle = "Active" /\ dfa = mark.dfa
      BY <1>1, <2>1 DEF AdvanceFromMark, CallShape, Running
    <2>3. QED
      BY <2>1, <2>2 DEF AdvanceFromMark, Successor, Running
  <1>5. CASE Begin
    <2>1. \A t \in AllTokens : ~BeginProbe(t)
      BY DEF BeginProbe
    <2>2. (\A n \in 0..MaxSequence : ~BeginSequence(n)) /\ ~BeginMask
      BY DEF BeginSequence, BeginMask
    <2>3. \A n \in 0..MaxRollback : ~BeginRollback(n)
      BY DEF BeginRollback
    <2>4. QED
      BY <1>3, <1>5, <2>1, <2>2, <2>3 DEF Begin, AdvanceFromMark
  <1>6. CASE RunTransition
    <2>1. ~Deny /\ ~Fail
      BY DEF Deny, Fail, UndoWith, RestoreOrder, Running
    <2>2. QED
      BY <1>2, <1>4, <1>6, <2>1, FeedingSteps DEF RunTransition
  <1>7. CASE Restore
    <2>1. ~RestoreBreaks
      BY DEF RestoreBreaks, Poison, Return
    <2>2. ~RestoreSemantic
      BY DEF RestoreSemantic, Poison, Return, RestoreOrder, Running
    <2>3. ~RestoreRouter
      BY DEF RestoreRouter, Poison, Return, RestoreOrder, Running
    <2>4. ~RestoreCursor
      BY DEF RestoreCursor, Poison, Return, RestoreOrder, Running
    <2>5. ~RestoreRest
      BY DEF RestoreRest, AfterRestore, Return, Running
    <2>6. QED
      BY <1>7, <2>1, <2>2, <2>3, <2>4, <2>5 DEF Restore
  <1>8. CASE Continue
    <2>1. \A t \in AllTokens : ~SequenceToken(t) /\ ~SequenceRejected(t) /\ ~MaskProbe(t)
      BY DEF SequenceToken, SequenceRejected, MaskProbe, UndoWith
    <2>2. ~SequenceEnd /\ ~MaskEnd
      BY DEF SequenceEnd, MaskEnd, UndoWith, Return
    <2>3. ~Commit
      BY DEF Commit, Poison, Return
    <2>4. ~CommitRefused
      BY DEF CommitRefused, UndoWith, RestoreOrder, Running
    <2>5. ~PopMark /\ ~RollbackEnd
      BY DEF PopMark, RollbackEnd, Return, RestoreOrder, Running
    <2>6. QED
      BY <1>6, <1>7, <1>8, <2>1, <2>2, <2>3, <2>4, <2>5 DEF Continue
  <1>9. CASE Reset
    BY <1>1, <1>9 DEF Reset, call, CallShape, Running
  <1>10. CASE UNCHANGED vars
    BY <1>10 DEF vars, state, window, call, AdvanceFromMark
  <1>11. QED
    BY <1>5, <1>8, <1>9, <1>10 DEF Next

\* What a commit leaves alone, and what it does to the journals and the window.
LEMMA CommitMoves ==
  ASSUME IInv, Commit
  PROVE  LET kept   == KeptAfterPush(mark)
             prefix == CompactPrefix(kept)
         IN  /\ cursorJournal' = DropFirst(cursorJournal, prefix.cursor)
             /\ routerJournal' = DropFirst(routerJournal, prefix.router)
             /\ semanticJournal' = DropFirst(semanticJournal, prefix.semantic)
             /\ checkpoints' = [i \in 1..Len(kept) |-> Shift(kept[i], prefix)]
             /\ trace' = Append(trace, token)
             /\ op' = "none" /\ stage' = "idle"
             /\ UNCHANGED <<dfa, lifecycle, cursor, arena, router, semantic>>
  <1>1. stage = "commit"
    BY DEF Commit
  <1>2. Compactable(KeptAfterPush(mark), CompactPrefix(KeptAfterPush(mark)))
    BY <1>1, CommitCompactable
  <1>3. QED
    BY <1>2 DEF Commit, Return, state

LEMMA Between ==
  ASSUME NEW a \in Nat, NEW n \in Nat, NEW b \in 0..n, a <= b
  PROVE  a \in 0..n /\ b \in a..n
  OBVIOUS

\* A mark that is kept resolves, once it is shifted, to what it resolved to.
LEMMA ShiftResolves ==
  ASSUME IInv, NEW prefix \in TokenMark, NEW m \in TokenMark, Within(m),
         prefix.cursor <= m.cursor, prefix.router <= m.router, prefix.semantic <= m.semantic,
         cursorJournal' = DropFirst(cursorJournal, prefix.cursor),
         routerJournal' = DropFirst(routerJournal, prefix.router),
         semanticJournal' = DropFirst(semanticJournal, prefix.semantic),
         trace' = Append(trace, token),
         UNCHANGED <<cursor, router, semantic>>
  PROVE  NextStateAt(Shift(m, prefix)) = StateAt(m)
  <1>1. /\ cursorJournal \in Seq(CursorStates) /\ cursor \in CursorStates
        /\ routerJournal \in Seq(RouterStates) /\ router \in RouterStates
        /\ semanticJournal \in Seq(SemanticStates) /\ semantic \in SemanticStates
        /\ trace \in Seq(AllTokens) /\ token \in AllTokens
    BY DEF IInv, TypeOK
  <1>2. /\ Shift(m, prefix).cursor = m.cursor - prefix.cursor
        /\ Shift(m, prefix).router = m.router - prefix.router
        /\ Shift(m, prefix).semantic = m.semantic - prefix.semantic
        /\ Shift(m, prefix).dfa = m.dfa /\ Shift(m, prefix).lifecycle = m.lifecycle
        /\ Shift(m, prefix).arena = m.arena /\ Shift(m, prefix).traceLen = m.traceLen
    BY DEF Shift, TokenMark
  <1>3. /\ prefix.cursor \in 0..Len(cursorJournal) /\ m.cursor \in prefix.cursor..Len(cursorJournal)
        /\ prefix.router \in 0..Len(routerJournal) /\ m.router \in prefix.router..Len(routerJournal)
        /\ prefix.semantic \in 0..Len(semanticJournal)
        /\ m.semantic \in prefix.semantic..Len(semanticJournal)
    <2>1. /\ prefix.cursor \in Nat /\ prefix.router \in Nat /\ prefix.semantic \in Nat
          /\ Len(cursorJournal) \in Nat /\ Len(routerJournal) \in Nat
          /\ Len(semanticJournal) \in Nat
      BY MarkFields, Lengths DEF IInv
    <2>2. /\ m.cursor \in 0..Len(cursorJournal) /\ m.router \in 0..Len(routerJournal)
          /\ m.semantic \in 0..Len(semanticJournal)
      BY DEF Within
    <2>3. QED
      BY <2>1, <2>2, Between
  <1>4. ValueAt(cursorJournal', m.cursor - prefix.cursor, cursor')
          = ValueAt(cursorJournal, m.cursor, cursor)
    BY <1>1, <1>3, ValueAtDropFirst
  <1>5. ValueAt(routerJournal', m.router - prefix.router, router')
          = ValueAt(routerJournal, m.router, router)
    BY <1>1, <1>3, ValueAtDropFirst
  <1>6. ValueAt(semanticJournal', m.semantic - prefix.semantic, semantic')
          = ValueAt(semanticJournal, m.semantic, semantic)
    BY <1>1, <1>3, ValueAtDropFirst
  <1>7. Truncate(trace', m.traceLen) = Truncate(trace, m.traceLen)
    BY <1>1, TruncateAppend DEF Within
  <1>8. QED
    BY <1>2, <1>4, <1>5, <1>6, <1>7 DEF NextStateAt, StateAt

\* The youngest of the states so far and the one at the mark are those the kept
\* checkpoints resolve to.
LEMMA YoungestKept ==
  ASSUME IInv, stage = "commit"
  PROVE  Contract!Youngest(Append(Past, Now))
           = [i \in 1..Len(KeptAfterPush(mark)) |-> StateAt(KeptAfterPush(mark)[i])]
  <1> DEFINE kept   == KeptAfterPush(mark)
             pushed == Append(checkpoints, mark)
             States == {StateAt(m) : m \in TokenMark}
             states == Append(Past, Now)
             youngest == [i \in 1..Len(kept) |-> StateAt(kept[i])]
  <1>1. /\ op = "advance" /\ HoldsMark /\ lifecycle # "Poisoned"
        /\ TypeOK /\ checkpoints \in Seq(TokenMark) /\ mark \in TokenMark
        /\ Len(checkpoints) \in Nat /\ Len(checkpoints) <= MaxRollback /\ MaxRollback \in Nat
    BY Lengths, LimitAssumption DEF IInv, CallShape, TypeOK, HoldsMark
  <1>2. /\ Len(pushed) = Len(checkpoints) + 1
        /\ \A i \in 1..Len(checkpoints) : pushed[i] = checkpoints[i]
        /\ pushed[Len(checkpoints) + 1] = mark
    BY <1>1, AppendProperties
  <1>3. \A i \in 1..Len(checkpoints) : checkpoints[i] \in TokenMark
    BY <1>1, ElementOfSeq
  <1>4. Now = StateAt(mark) /\ Now \in States
    BY <1>1 DEF Now
  <1>5. /\ Past = [i \in 1..Len(checkpoints) |-> StateAt(checkpoints[i])]
        /\ Past \in Seq(States) /\ Len(Past) = Len(checkpoints)
    <2>1. Past = [i \in 1..Len(checkpoints) |-> StateAt(checkpoints[i])]
      BY <1>1 DEF Past
    <2>2. \A i \in 1..Len(checkpoints) : StateAt(checkpoints[i]) \in States
      BY <1>3
    <2> HIDE DEF States
    <2>3. QED
      BY <1>1, <2>1, <2>2
  <1>6. /\ kept \in Seq(TokenMark) /\ Len(kept) \in Nat
        /\ MaxRollback = 0 => kept = <<>>
        /\ MaxRollback > 0 =>
             LET d == Len(checkpoints) + 1 - Len(kept)
             IN  /\ d = IF Len(checkpoints) < MaxRollback THEN 0 ELSE 1
                 /\ \A i \in 1..Len(kept) : kept[i] = pushed[i + d]
    BY <1>1, KeptFacts
  <1>7. \A i \in 1..Len(kept) : kept[i] \in TokenMark
    BY <1>6, ElementOfSeq
  <1> HIDE DEF kept, pushed
  <1>8. youngest \in Seq(States) /\ Len(youngest) = Len(kept)
    <2>1. \A i \in 1..Len(kept) : StateAt(kept[i]) \in States
      BY <1>7
    <2> HIDE DEF States
    <2>2. QED
      BY <1>6, <2>1
  <1>9. /\ states \in Seq(States) /\ Len(states) = Len(checkpoints) + 1
        /\ \A i \in 1..(Len(checkpoints) + 1) : states[i] = StateAt(pushed[i])
    <2> HIDE DEF States
    <2>1. /\ states \in Seq(States) /\ Len(states) = Len(Past) + 1
          /\ \A i \in 1..Len(Past) : states[i] = Past[i]
          /\ states[Len(Past) + 1] = Now
      BY <1>4, <1>5, AppendProperties
    <2>2. \A i \in 1..Len(checkpoints) : states[i] = StateAt(pushed[i])
      BY <1>2, <1>5, <2>1
    <2>3. states[Len(checkpoints) + 1] = StateAt(pushed[Len(checkpoints) + 1])
      BY <1>2, <1>4, <1>5, <2>1
    <2> HIDE DEF states
    <2>4. QED
      BY <1>1, <1>5, <2>1, <2>2, <2>3
  <1> HIDE DEF states, States
  <1>10. CASE MaxRollback = 0
    <2>1. Len(states) = 1 /\ Contract!Youngest(states) = SubSeq(states, 2, 1)
      BY <1>1, <1>9, <1>10 DEF Contract!Youngest
    <2>2. kept = <<>>
      BY <1>6, <1>10
    <2>3. youngest = <<>>
      BY <2>2
    <2>4. SubSeq(states, 2, 1) = <<>>
      BY <1>9
    <2>5. QED
      BY <2>1, <2>3, <2>4 DEF states, kept
  <1>11. CASE MaxRollback > 0 /\ Len(checkpoints) < MaxRollback
    <2>1. Contract!Youngest(states) = states
      BY <1>1, <1>9, <1>11 DEF Contract!Youngest
    <2>2. Len(kept) = Len(checkpoints) + 1 /\ \A i \in 1..Len(kept) : kept[i] = pushed[i]
      BY <1>1, <1>6, <1>11
    <2>3. \A i \in 1..Len(kept) : youngest[i] = states[i]
      BY <1>9, <2>2
    <2> HIDE DEF youngest
    <2>4. youngest = states
      BY <1>8, <1>9, <2>2, <2>3, SeqEqual
    <2>5. QED
      BY <2>1, <2>4 DEF states, kept, youngest
  <1>12. CASE MaxRollback > 0 /\ Len(checkpoints) = MaxRollback
    <2> DEFINE cut == DropFirst(states, 1)
    <2>1. Contract!Youngest(states) = cut
      <3>1. Len(states) > MaxRollback /\ Len(states) - MaxRollback + 1 = 2
        BY <1>1, <1>9, <1>12
      <3>2. QED
        BY <3>1 DEF Contract!Youngest, DropFirst
    <2>2. Len(kept) = Len(checkpoints) /\ \A i \in 1..Len(kept) : kept[i] = pushed[i + 1]
      BY <1>1, <1>6, <1>12
    <2>3. /\ cut \in Seq(States) /\ Len(cut) = Len(checkpoints)
          /\ \A i \in 1..Len(checkpoints) : cut[i] = states[i + 1]
      <3>1. 1 \in 0..Len(states) /\ Len(states) - 1 = Len(checkpoints)
        BY <1>1, <1>9
      <3>2. /\ cut \in Seq(States) /\ Len(cut) = Len(states) - 1
            /\ \A i \in 1..(Len(states) - 1) : cut[i] = states[i + 1]
        BY <1>9, <3>1, DropFirstFacts
      <3>3. QED
        BY <3>1, <3>2
    <2>4. \A i \in 1..Len(kept) : youngest[i] = cut[i]
      <3> SUFFICES ASSUME NEW i \in 1..Len(kept) PROVE youngest[i] = cut[i]
        OBVIOUS
      <3>1. i \in 1..Len(checkpoints) /\ i + 1 \in 1..(Len(checkpoints) + 1)
        BY <1>1, <2>2
      <3> HIDE DEF cut
      <3>2. QED
        BY <1>9, <2>2, <2>3, <3>1
    <2> HIDE DEF youngest, cut
    <2>5. youngest = cut
      BY <1>8, <2>2, <2>3, <2>4, SeqEqual
    <2>6. QED
      BY <2>1, <2>5 DEF states, kept, youngest
  <1>13. QED
    BY <1>1, <1>10, <1>11, <1>12

\* A commit is the contract's advance by the token of the call.
LEMMA CommitAdvances ==
  ASSUME IInv, TypeOK', AdvanceFromMark, Commit
  PROVE  Contract!Advance(token)
  <1> DEFINE kept   == KeptAfterPush(mark)
             prefix == CompactPrefix(kept)
  <1>1. /\ stage = "commit" /\ op = "advance" /\ HoldsMark /\ lifecycle # "Poisoned"
        /\ TypeOK /\ mark.lifecycle = "Active" /\ trace \in Seq(AllTokens)
        /\ mark.traceLen = Len(trace)
        /\ IF token = Eos THEN mark.dfa \in FinalDfa ELSE <<mark.dfa, token>> \in DOMAIN Delta
        /\ dfa = IF token = Eos THEN mark.dfa ELSE Delta[<<mark.dfa, token>>]
        /\ lifecycle = IF token = Eos THEN "Terminated" ELSE "Active"
    BY DEF Commit, IInv, CallShape, TypeOK, HoldsMark, AdvanceFromMark
  <1>2. /\ cursorJournal' = DropFirst(cursorJournal, prefix.cursor)
        /\ routerJournal' = DropFirst(routerJournal, prefix.router)
        /\ semanticJournal' = DropFirst(semanticJournal, prefix.semantic)
        /\ checkpoints' = [i \in 1..Len(kept) |-> Shift(kept[i], prefix)]
        /\ trace' = Append(trace, token)
        /\ op' = "none" /\ stage' = "idle"
        /\ UNCHANGED <<dfa, lifecycle, cursor, arena, router, semantic>>
    BY CommitMoves
  <1>3. Now = StateAt(mark)
    BY <1>1 DEF Now
  <1>4. Now' = [dfa |-> dfa, lifecycle |-> lifecycle, trace |-> trace', memory |-> Now'.memory]
    <2>1. Now' = StateAt(CurrentMark)'
      BY <1>1, <1>2 DEF Now, HoldsMark
    <2>2. Truncate(trace', Len(trace')) = trace'
      BY TruncateAll DEF TypeOK
    <2>3. QED
      BY <1>2, <2>1, <2>2 DEF StateAt, CurrentMark
  <1>5. Now.trace = trace
    BY <1>1, <1>3, TruncateAll DEF StateAt
  <1>6. /\ prefix \in TokenMark /\ kept \in Seq(TokenMark) /\ Len(kept) \in Nat
        /\ \A i \in 1..Len(kept) :
             /\ kept[i] \in TokenMark /\ Within(kept[i])
             /\ prefix.cursor <= kept[i].cursor /\ prefix.router <= kept[i].router
             /\ prefix.semantic <= kept[i].semantic
    <2>1. prefix \in TokenMark /\ Compactable(kept, prefix)
      BY <1>1, CommitCompactable
    <2>2. mark \in TokenMark /\ kept \in Seq(TokenMark) /\ Len(kept) \in Nat
          /\ (MaxRollback = 0 => kept = <<>>)
      BY <1>1, KeptFacts DEF TypeOK
    <2>3. CASE MaxRollback = 0
      BY <2>1, <2>2, <2>3
    <2>4. CASE MaxRollback > 0
      <3>1. \A i \in 1..Len(kept) : kept[i] \in TokenMark /\ NoLaterThan(kept[i], CurrentMark)
        BY <1>1, <2>4, CommitKeeps
      <3> HIDE DEF kept, prefix
      <3>2. \A i \in 1..Len(kept) : Within(kept[i])
        BY <1>1, <3>1, MarkWithin
      <3>3. QED
        BY <2>1, <2>2, <3>1, <3>2 DEF Compactable
    <2>5. QED
      BY <2>3, <2>4, LimitAssumption
  <1> HIDE DEF kept, prefix
  <1>7. \A i \in 1..Len(kept) : NextStateAt(Shift(kept[i], prefix)) = StateAt(kept[i])
    BY <1>2, <1>6, ShiftResolves
  <1>8. Past' = [i \in 1..Len(kept) |-> StateAt(kept[i])]
    <2>1. Len(checkpoints') = Len(kept) /\ \A i \in 1..Len(kept) : checkpoints'[i] = Shift(kept[i], prefix)
      BY <1>2, <1>6
    <2>2. Past' = [i \in 1..Len(checkpoints') |-> NextStateAt(checkpoints'[i])]
      <3>1. Len(checkpoints') \in Nat
        BY <1>6, <2>1
      <3>2. QED
        BY <1>1, <1>2, <3>1 DEF Past, StateAt, NextStateAt
    <2>3. QED
      BY <1>7, <2>1, <2>2
  <1>9. Past' = Contract!Youngest(Append(Past, Now))
    BY <1>1, <1>8, YoungestKept DEF kept
  <1>10. /\ Now.lifecycle = "Active" /\ Now.dfa = mark.dfa
    BY <1>1, <1>3 DEF StateAt
  <1>11. Now'.lifecycle = IF token = Eos THEN "Terminated" ELSE "Active"
    BY <1>1, <1>4
  <1>12. Now' = [dfa |-> IF token = Eos THEN Now.dfa ELSE Delta[<<Now.dfa, token>>],
                 lifecycle |-> Now'.lifecycle, trace |-> Append(Now.trace, token),
                 memory |-> Now'.memory]
    BY <1>1, <1>2, <1>4, <1>5, <1>10
  <1>13. QED
    BY <1>1, <1>9, <1>10, <1>11, <1>12 DEF Contract!Advance

-----------------------------------------------------------------------------
(* The refinement.                                                         *)

LEMMA InitialContract ==
  ASSUME Init
  PROVE  Contract!Init /\ AdvanceFromMark
  <1>1. /\ lifecycle = "Active" /\ op = "none" /\ stage = "idle" /\ ~HoldsMark
        /\ checkpoints = <<>> /\ trace = <<>> /\ dfa = InitialDfa
        /\ cursorJournal = <<>> /\ routerJournal = <<>> /\ semanticJournal = <<>>
        /\ cursor = InitialCursor /\ arena = 0 /\ router = InitialRouter
        /\ semantic = InitialSemantic
    BY DEF Init, HoldsMark
  <1>2. Now = StateAt(CurrentMark) /\ Past = <<>>
    BY <1>1 DEF Now, Past
  <1>3. Now = Contract!Fresh
    BY <1>1, <1>2 DEF StateAt, CurrentMark, Contract!Fresh, Memory, ValueAt, Truncate
  <1>4. QED
    BY <1>1, <1>2, <1>3 DEF Contract!Init, AdvanceFromMark

\* Every step of the engine is a step of the contract or is not seen by it.
LEMMA StepImplements ==
  ASSUME IInv, AdvanceFromMark, [Next]_vars
  PROVE  [Contract!Next]_<<Now, Past>>
  <1>1. TypeOK' /\ CallShape' /\ token \in AllTokens
    BY NextTyped DEF IInv, TypeOK
  <1>2. CASE Unseen
    BY <1>2, UnseenStutters
  <1>3. CASE Begin
    <2>1. CASE \E n \in 0..MaxRollback : BeginRollback(n)
      BY <2>1, BeginRollbackStep DEF Contract!Next
    <2>2. CASE ~(\E n \in 0..MaxRollback : BeginRollback(n))
      BY <1>1, <1>2, <1>3, <2>2, UnseenSteps DEF Begin
    <2>3. QED
      BY <2>1, <2>2
  <1>4. CASE RunTransition
    BY <1>1, <1>2, <1>4, UnseenSteps, UnseenPushes DEF RunTransition
  <1>5. CASE Restore
    <2>1. CASE RestoreBreaks
      BY <2>1, RestoreBreaksStep DEF Contract!Next
    <2>2. CASE RestoreSemantic \/ RestoreRouter \/ RestoreCursor
      BY <2>2, RewindingSteps, RewindingStutters
    <2>3. CASE RestoreRest
      BY <1>1, <2>3, RestoreRestStutters
    <2>4. QED
      BY <1>5, <2>1, <2>2, <2>3 DEF Restore
  <1>6. CASE Continue
    <2>1. CASE Commit
      <3>1. Contract!Advance(token)
        BY <1>1, <2>1, CommitAdvances
      <3>2. QED
        BY <1>1, <3>1 DEF Contract!Next, AllTokens
    <2>2. CASE PopMark
      BY <2>2, PopMarkStutters
    <2>3. CASE ~Commit /\ ~PopMark
      BY <1>1, <1>2, <1>4, <1>5, <1>6, <2>3, UnseenSteps DEF Continue
    <2>4. QED
      BY <2>1, <2>2, <2>3
  <1>7. CASE Reset
    BY <1>7, ResetStep DEF Contract!Next
  <1>8. CASE UNCHANGED vars
    <2>1. UNCHANGED <<Now, Past>>
      BY <1>8 DEF vars, state, journals, window, call, Now, Past, StateAt, CurrentMark, HoldsMark
    <2>2. QED
      BY <2>1
  <1>9. QED
    BY <1>3, <1>6, <1>7, <1>8 DEF Next

\* Probes, masks, sequences, denials and errors restore the guide exactly, an
\* advance is all or nothing, and rollback(n) returns to the state n advances ago:
\* for any automaton, components, limits and window (guide.rs, simulation.rs).
THEOREM Implements == Spec => ImplementsContract
  <1>1. Init => Contract!Init /\ AdvanceFromMark
    BY InitialContract
  <1>2. IInv /\ AdvanceFromMark /\ [Next]_vars => AdvanceFromMark'
    BY AdvanceFromMarkKept
  <1>3. IInv /\ AdvanceFromMark /\ [Next]_vars => [Contract!Next]_<<Now, Past>>
    BY StepImplements
  <1>4. QED
    BY <1>1, <1>2, <1>3, Invariance, PTL DEF Spec, ImplementsContract, Contract!Spec

-----------------------------------------------------------------------------
(* The trace replays: an invariant of the contract's states, so of the     *)
(* engine's between calls.                                                 *)

Fold == INSTANCE Folding WITH Op <- Moved

LEMMA ReplayedFolds ==
  ASSUME NEW s
  PROVE  Replayed(s) = Fold!Left(InitialDfa, s)
  BY DEF Replayed, Fold!Left, FoldLeft, Fold!FoldLeft, MapThenFoldSet, Fold!MapThenFoldSet,
     Max, Fold!Max

LEMMA ReplayedEmpty == Replayed(<<>>) = InitialDfa
  BY ReplayedFolds, Fold!LeftEmpty

LEMMA ReplayedAppend ==
  ASSUME NEW s \in Seq(AllTokens), NEW t \in AllTokens
  PROVE  Replayed(Append(s, t)) = Moved(Replayed(s), t)
  BY ReplayedFolds, Fold!LeftAppend

Memories ==
  [cursor : CursorStates, arena : Nat, router : RouterStates, semantic : SemanticStates]

GuideStates ==
  [dfa : DfaStates, lifecycle : Lifecycles, trace : Seq(AllTokens), memory : Memories]

\* The states whose trace, replayed, leads to their automaton state.
ReplayingStates ==
  {g \in GuideStates : /\ g.dfa = Replayed(g.trace)
                       /\ g.lifecycle = "Terminated" <=> Contains(g.trace, Eos)}

StatesReplay ==
  Now.lifecycle # "Poisoned" => Now \in ReplayingStates /\ Past \in Seq(ReplayingStates)

LEMMA StateAtType ==
  ASSUME TypeOK, NEW m \in TokenMark, Within(m)
  PROVE  StateAt(m) \in GuideStates
  <1>1. ValueAt(cursorJournal, m.cursor, cursor) \in CursorStates
    BY MarkFields, ValueAtType DEF TypeOK
  <1>2. ValueAt(routerJournal, m.router, router) \in RouterStates
    BY MarkFields, ValueAtType DEF TypeOK
  <1>3. ValueAt(semanticJournal, m.semantic, semantic) \in SemanticStates
    BY MarkFields, ValueAtType DEF TypeOK
  <1>4. Truncate(trace, m.traceLen) \in Seq(AllTokens)
    BY TruncateFacts DEF TypeOK, Within
  <1>5. QED
    BY <1>1, <1>2, <1>3, <1>4, MarkFields DEF StateAt, GuideStates, Memories, Memory

\* What the contract sees is the poisoned state or a state of the guide.
NowTyped ==
  /\ lifecycle = "Poisoned" => Now.lifecycle = "Poisoned"
  /\ lifecycle # "Poisoned" => Now \in GuideStates

LEMMA NowType == IInv => NowTyped
  <1> SUFFICES ASSUME IInv
               PROVE  /\ lifecycle = "Poisoned" => Now.lifecycle = "Poisoned"
                      /\ lifecycle # "Poisoned" => Now \in GuideStates
    BY DEF NowTyped
  <1>1. CASE lifecycle = "Poisoned"
    BY <1>1 DEF Now
  <1>2. CASE lifecycle # "Poisoned" /\ op = "rollback" /\ todo > 0
    <2>1. Len(checkpoints) - todo + 1 \in 1..Len(checkpoints)
      BY <1>2, Lengths DEF IInv, CallShape, TypeOK
    <2>2. Now = StateAt(checkpoints[Len(checkpoints) - todo + 1])
      BY <1>2 DEF Now
    <2>3. QED
      BY <1>2, <2>1, <2>2, HeldWithin, StateAtType DEF IInv
  <1>3. CASE lifecycle # "Poisoned" /\ ~(op = "rollback" /\ todo > 0) /\ HoldsMark
    <2>1. Now = StateAt(mark)
      BY <1>3 DEF Now
    <2>2. QED
      BY <1>3, <2>1, HeldWithin, StateAtType DEF IInv
  <1>4. CASE lifecycle # "Poisoned" /\ ~(op = "rollback" /\ todo > 0) /\ ~HoldsMark
    <2>1. Now = StateAt(CurrentMark)
      BY <1>4 DEF Now
    <2>2. QED
      BY <1>4, <2>1, HeldWithin, StateAtType DEF IInv
  <1>5. QED
    BY <1>1, <1>2, <1>3, <1>4

LEMMA FreshReplays == Contract!Fresh \in ReplayingStates
  <1>1. ~Contains(<<>>, Eos)
    BY DEF Contains
  <1>2. <<>> \in Seq(AllTokens)
    OBVIOUS
  <1>3. QED
    BY <1>1, <1>2, ReplayedEmpty, AutomatonAssumption, ComponentAssumption
       DEF Contract!Fresh, ReplayingStates, GuideStates, Memories, Memory, Lifecycles

LEMMA AdvanceReplays ==
  ASSUME IInv', Now.lifecycle # "Poisoned", StatesReplay, NEW t \in AllTokens, Contract!Advance(t)
  PROVE  StatesReplay'
  <1>1. /\ Now \in GuideStates /\ Now.dfa = Replayed(Now.trace) /\ Past \in Seq(ReplayingStates)
        /\ Now \in ReplayingStates
        /\ Now.lifecycle = "Terminated" <=> Contains(Now.trace, Eos)
    BY DEF StatesReplay, ReplayingStates
  <1>2. /\ Now.lifecycle = "Active"
        /\ Now'.dfa = Moved(Now.dfa, t)
        /\ Now'.lifecycle = IF t = Eos THEN "Terminated" ELSE "Active"
        /\ Now'.trace = Append(Now.trace, t)
        /\ Past' = Contract!Youngest(Append(Past, Now))
    BY DEF Contract!Advance, Moved
  <1>3. Now' \in GuideStates
    <2>1. IInv' => NowTyped'
      BY NowType, PTL
    <2>2. QED
      BY <1>2, <2>1 DEF NowTyped
  <1>4. Now.trace \in Seq(AllTokens)
    BY <1>1 DEF GuideStates
  <1>5. Now'.dfa = Replayed(Now'.trace)
    BY <1>1, <1>2, <1>4, ReplayedAppend
  <1>6. Contains(Append(Now.trace, t), Eos) <=> t = Eos
    <2>1. /\ Len(Append(Now.trace, t)) = Len(Now.trace) + 1 /\ Len(Now.trace) \in Nat
          /\ \A i \in 1..Len(Now.trace) : Append(Now.trace, t)[i] = Now.trace[i]
          /\ Append(Now.trace, t)[Len(Now.trace) + 1] = t
      BY <1>4, AppendProperties, LenProperties
    <2>2. ~Contains(Now.trace, Eos)
      BY <1>1, <1>2
    <2>3. QED
      BY <2>1, <2>2 DEF Contains
  <1>7. Now' \in ReplayingStates
    BY <1>2, <1>3, <1>5, <1>6 DEF ReplayingStates
  <1>8. Past' \in Seq(ReplayingStates)
    <2> HIDE DEF ReplayingStates
    <2>1. Append(Past, Now) \in Seq(ReplayingStates) /\ Len(Append(Past, Now)) \in Nat
      BY <1>1, AppendProperties, LenProperties
    <2>2. CASE Len(Append(Past, Now)) > MaxRollback
      <3>1. Past' = DropFirst(Append(Past, Now), Len(Append(Past, Now)) - MaxRollback)
        BY <1>2, <2>2 DEF Contract!Youngest, DropFirst
      <3>2. Len(Append(Past, Now)) - MaxRollback \in 0..Len(Append(Past, Now))
        BY <2>1, <2>2, LimitAssumption
      <3>3. QED
        BY <2>1, <3>1, <3>2, DropFirstFacts
    <2>3. CASE ~(Len(Append(Past, Now)) > MaxRollback)
      BY <1>2, <2>1, <2>3 DEF Contract!Youngest
    <2>4. QED
      BY <2>2, <2>3
  <1>9. QED
    BY <1>7, <1>8 DEF StatesReplay

LEMMA StatesReplayKept ==
  ASSUME IInv', StatesReplay, [Contract!Next]_<<Now, Past>>
  PROVE  StatesReplay'
  <1>1. ASSUME NEW t \in AllTokens, Contract!Advance(t)
        PROVE  StatesReplay'
    <2>1. Now.lifecycle # "Poisoned"
      BY <1>1 DEF Contract!Advance
    <2>2. QED
      BY <1>1, <2>1, AdvanceReplays
  <1>2. ASSUME NEW n \in 1..Len(Past), Contract!Rollback(n)
        PROVE  StatesReplay'
    <2> HIDE DEF ReplayingStates
    <2>1. /\ Past \in Seq(ReplayingStates) /\ Len(Past) \in Nat
          /\ Now' = Past[Len(Past) - n + 1] /\ Past' = Truncate(Past, Len(Past) - n)
      BY <1>2, LenProperties DEF Contract!Rollback, StatesReplay, Truncate
    <2>2. Len(Past) - n + 1 \in 1..Len(Past) /\ Len(Past) - n \in 0..Len(Past)
      BY <2>1
    <2>3. Now' \in ReplayingStates
      BY <2>1, <2>2, ElementOfSeq
    <2>4. Past' \in Seq(ReplayingStates)
      BY <2>1, <2>2, TruncateFacts
    <2>5. QED
      BY <2>3, <2>4 DEF StatesReplay
  <1>3. CASE Contract!Poison
    BY <1>3 DEF Contract!Poison, Contract!Broken, StatesReplay
  <1>4. CASE Contract!Reset
    BY <1>4, FreshReplays DEF Contract!Reset, StatesReplay
  <1>5. CASE UNCHANGED <<Now, Past>>
    BY <1>5 DEF StatesReplay
  <1>6. QED
    BY <1>1, <1>2, <1>3, <1>4, <1>5 DEF Contract!Next, AllTokens

\* The committed trace, replayed on the automaton, leads to the state the guide
\* is in, whatever was probed, masked, denied, rolled back or broken before.
THEOREM TraceAlwaysReplays == Spec => []TraceReplays
  <1>1. Contract!Init => StatesReplay
    BY FreshReplays DEF Contract!Init, StatesReplay
  <1>2. IInv' /\ StatesReplay /\ [Contract!Next]_<<Now, Past>> => StatesReplay'
    BY StatesReplayKept
  <1>3. IInv /\ StatesReplay => TraceReplays
    <2> SUFFICES ASSUME IInv, StatesReplay, stage = "idle", lifecycle # "Poisoned"
                 PROVE  /\ dfa = Replayed(trace)
                        /\ lifecycle = "Terminated" <=> Contains(trace, Eos)
      BY DEF TraceReplays
    <2>1. op = "none" /\ ~HoldsMark /\ trace \in Seq(AllTokens)
      BY DEF IInv, CallShape, HoldsMark, TypeOK
    <2>2. Now = StateAt(CurrentMark)
      BY <2>1 DEF Now
    <2>3. /\ Now.dfa = dfa /\ Now.lifecycle = lifecycle /\ Now.trace = trace
      BY <2>1, <2>2, TruncateAll DEF StateAt, CurrentMark
    <2>4. QED
      BY <2>3 DEF StatesReplay, ReplayingStates
  <1>4. QED
    BY <1>1, <1>2, <1>3, Invariance, Implements, PTL DEF ImplementsContract, Contract!Spec
==============================================================================
