SPECIFICATION ParserSpec
CONSTANTS
    Names <- MCNames
    Numbers <- MCNumbers
    Sources <- MCSources
INVARIANTS
    ParserTypeOK
    OwnedOnce
    NoNullNode
    DeletedOnce
    DepthBound
    ParsedToTheEnd
PROPERTIES
    Termination
    ClientOfLexer
CHECK_DEADLOCK FALSE
