SPECIFICATION Spec
CONSTANTS
    Inputs <- Repeated
    Literals <- Words
    Hasher <- ShortHash
INVARIANTS
    UndoExact
