CONSTANTS
    Characters <- SomeCharacters
    Letters <- SomeLetters
    Digits <- SomeDigits
    Sources <- SomeFiles
    Spelled <- Join
    LiteralValue <- Literals
    UppercaseNames = {"X", "P", "Q", "I"}
    MAX_UNROLL_COUNT = 2
SPECIFICATION FairSpec
INVARIANTS
    HandedOver
    CrashExplained
    NothingLost
PROPERTIES
    Returns
CHECK_DEADLOCK FALSE
