CONSTANTS
    Programs <- Errors
    AstNode <- NodesOfPrograms
    WholeNode <- NodesOfAccepted
    MAX_UNROLL_COUNT = 2
SPECIFICATION Spec
INVARIANTS
    FreshValue
    NullDereferenceReported
CHECK_DEADLOCK FALSE
