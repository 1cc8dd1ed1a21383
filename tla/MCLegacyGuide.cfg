SPECIFICATION Spec
CONSTANTS
    Patterns <- MCPatterns
    Maps <- MCMaps
    Entries <- MCEntries
    Eos = 3
    Rollbacks = {0, 2}
    Word = 3
    Buffers = {1, 2}
    MaxText = 3
    MaxEarlier = 3
    MaxSequence = 2
    MaxVocabulary = 4
    Horizon = 7
    ModelWidths = {3, 5, 7}
INVARIANTS
    TypeOK
    WorklistExact
    IndexExact
    OffersOnlyTexts
    UnshadowedReachable
    AcceptsForetells
    RefusesTheUnusable
    RollbackReturns
    MaskShowsTokens
