SPECIFICATION ParserSpec
CONSTANTS
    Names <- MCNames
    Numbers <- MCNumbers
    Sources <- ListSources
INVARIANT BodyHasEach
CHECK_DEADLOCK FALSE
