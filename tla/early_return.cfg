CONSTANTS
    Programs <- EarlyReturn
    AstNode <- NodesOfPrograms
    WholeNode <- NodesOfAccepted
    MAX_UNROLL_COUNT = 8
SPECIFICATION Spec
INVARIANTS
    OneTerminator
CHECK_DEADLOCK FALSE
