SPECIFICATION ParserSpec
CONSTANTS
    Names <- MCNames
    Numbers <- MCNumbers
    Sources <- RetSources
INVARIANT RetOnNewLine
CHECK_DEADLOCK FALSE
