CONSTANTS
    Programs <- Unroll
    AstNode <- NodesOfPrograms
    WholeNode <- NodesOfAccepted
    MAX_UNROLL_COUNT = 3
SPECIFICATION Spec
INVARIANTS
    CounterStoresConstant
    UnrollMatchesLoop
CHECK_DEADLOCK FALSE
