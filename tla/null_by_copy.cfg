CONSTANTS
    Programs <- NullByCopy
    AstNode <- NodesOfPrograms
    WholeNode <- NodesOfAccepted
    MAX_UNROLL_COUNT = 8
SPECIFICATION Spec
INVARIANTS
    NonNullableNeverNull
CHECK_DEADLOCK FALSE
