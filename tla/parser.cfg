CONSTANTS
    Inputs <- ParserInputs
    LiteralValue <- LiteralTokens
    UppercaseNames = {"X", "V", "S"}
SPECIFICATION FairSpec
INVARIANTS
    TypeOK
    HolesReported
    TreeSpellsInput
    RoundTrip
PROPERTIES
    ReadsTokens
CHECK_DEADLOCK FALSE
