SPECIFICATION Spec
CONSTANTS
    Rows = 2
    Tokens <- MCTokens
    Eos = "eos"
    Pads <- MCPads
    Documents <- MCDocuments
    DeadEnds = {}
    Denied = {}
    Raising = {}
    Parsed <- MCParsed
    Budgets = {2}
INVARIANTS
    IncompleteReported
