CONSTANTS
    Characters <- SomeCharacters
    Sources <- SourceTexts
    Letters <- SomeLetters
    Digits <- SomeDigits
SPECIFICATION FairSpec
INVARIANTS
    TypeOK
    LongestMatch
    NothingDropped
    LineNumbers
PROPERTIES
    ReadsText
CHECK_DEADLOCK FALSE
