CONSTANTS
    Programs <- SmallInteger
    AstNode <- NodesOfPrograms
    WholeNode <- NodesOfAccepted
    MAX_UNROLL_COUNT = 8
SPECIFICATION Spec
INVARIANTS
    StoresMatchSlots
CHECK_DEADLOCK FALSE
