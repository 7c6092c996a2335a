CONSTANTS
    Programs <- Symbols
    AstNode <- NodesOfPrograms
    WholeNode <- NodesOfAccepted
    MAX_UNROLL_COUNT = 2
SPECIFICATION Spec
INVARIANTS
    SymbolsScoped
    UnusedReported
    ValStoredOnce
    NoNullStored
CHECK_DEADLOCK FALSE
