CONSTANTS
    Sources <- AllTexts
    Letter <- Letters
    Digit <- Digits
    Keyword <- Keywords
    Modulus = 16
SPECIFICATION FrontEndSpec
CHECK_DEADLOCK FALSE
INVARIANTS
    TypeOK
    StreamWellFormed
    BlocksFollowLayout
    TokensAccurate
    ParsesTheGrammar
    TreeFollowsLayout
PROPERTIES
    MunchesWhole
    Terminates
