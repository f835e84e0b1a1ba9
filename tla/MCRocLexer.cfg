SPECIFICATION LexFairSpec
CONSTANTS
    MaxLength = 5
    Sources <- MCSources
INVARIANTS
    LexTypeOK
    NoTokenLost
    CurrentToken
PROPERTIES
    PeekPromise
    ReachesEnd
    StreamSpec
