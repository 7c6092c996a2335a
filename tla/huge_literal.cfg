CONSTANTS
    Programs <- HugeLiteral
    AstNode <- NodesOfPrograms
    WholeNode <- NodesOfAccepted
    MAX_UNROLL_COUNT = 8
SPECIFICATION Spec
INVARIANTS
    AlwaysFreshValue
CHECK_DEADLOCK FALSE
