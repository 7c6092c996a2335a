CONSTANTS
    Programs <- ValCounter
    AstNode <- NodesOfPrograms
    WholeNode <- NodesOfAccepted
    MAX_UNROLL_COUNT = 8
SPECIFICATION Spec
INVARIANTS
    ValStoredOnce
CHECK_DEADLOCK FALSE
