SPECIFICATION Spec
CONSTANTS
    Written <- AllSchemas
    KeyOrder <- Names
    Plan <- AllPlans
    Imports <- Sets
    Fingerprint <- Hash
    Limits <- RootLimits
    MaxText <- Lengths
    MaxItems = 3
    MaxMarks = 2
    Masked = {"word", "plain", "nest", "record"}
    Limited = {"top", "plain", "steps", "depth", "checks"}
INVARIANTS
    RouterFollowsText
    MemoryTellsTruth
    UndoExact
    AcceptedConforms
    DeniedIsHopeless
    OnlyRulesStop
    MissingOnlyIfOmitted
    MaskStopsAtItsOwnLimit
PROPERTIES
    MaskIsAdvance
