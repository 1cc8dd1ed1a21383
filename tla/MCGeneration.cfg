SPECIFICATION Spec
CONSTANTS
    Rows = 3
    Tokens <- MCTokens
    Eos = "eos"
    Pads <- MCPads
    Documents <- MCDocuments
    DeadEnds <- MCDeadEnds
    Denied <- MCDenied
    Raising <- MCRaising
    Parsed <- MCParsed
    Budgets = {1, 2, 3, 4, 5}
INVARIANTS
    RowsInStep
    EndedRowsNeverFail
    ReturnedRowsAreDocuments
