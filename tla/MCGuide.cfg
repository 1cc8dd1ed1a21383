SPECIFICATION Spec
CONSTANTS
  DfaStates = {0, 1}
  InitialDfa = 0
  FinalDfa = {1}
  Tokens = {"open", "more"}
  Eos = "eos"
  Delta <- MCDelta
  CursorStates = {0, 1, 2, 3}
  InitialCursor = 0
  CursorStep <- MCCursorStep
  RouterStates = {0, 1, 2}
  InitialRouter = 0
  RouterStep <- MCRouterStep
  SemanticStates = {0, 1, 2}
  InitialSemantic = 0
  SemanticStep <- MCSemanticStep
  Reach <- MCReach
  Width <- MCWidth
  MaxRollback = 2
  MaxRecords = 4
  MaxRetained = 7
  MaxTrace = 3
  MaxArena = 1
  ByteHeadroom = 2
  EosHeadroom = 1
  MaxSequence = 1
  RestoreMayFail = FALSE
INVARIANTS TypeOK MarksOrdered WindowStartsJournals NeverPoisoned LedgerExact NoDanglingReference TraceReplays
PROPERTIES PredictionExact
