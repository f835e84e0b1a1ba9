SPECIFICATION ParserSpec
CONSTANTS
    Names <- MCNames
    Numbers <- MCNumbers
    Sources <- MCSources
INVARIANTS
    RoundTrip
    LiveTokens
CHECK_DEADLOCK FALSE
