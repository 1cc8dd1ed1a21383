SPECIFICATION Spec
CONSTANTS
    Written <- BothSchema
    KeyOrder <- Names
    Plan <- ListPlans
    Imports <- Sets
    Fingerprint <- Hash
    Limits <- RootLimits
    MaxText <- Lengths
    MaxItems = 3
    MaxMarks = 1
    Masked = {}
    Limited = {}
INVARIANT
    AcceptedConforms
