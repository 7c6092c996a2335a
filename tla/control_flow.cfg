CONSTANTS
    Programs <- ControlFlow
    AstNode <- NodesOfPrograms
    WholeNode <- NodesOfAccepted
    MAX_UNROLL_COUNT = 2
SPECIFICATION FairSpec
INVARIANTS
    TypeOK
    OneOpenBlock
    BlocksPlaced
    PhiCoversPredecessors
    DefinitionsDominateUses
PROPERTIES
    Terminates
CHECK_DEADLOCK FALSE
