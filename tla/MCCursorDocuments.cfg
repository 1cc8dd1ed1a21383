SPECIFICATION Spec
CONSTANTS
    Inputs <- Texts
    Literals <- Words
    Hasher <- ShortHash
INVARIANTS
    TypeOK
    UndoExact
    HandlesDistinct
    EventsReplay
    HeadroomSuffices
    AcceptsDocuments
    RejectsNoDocument
    EqualIsValue
