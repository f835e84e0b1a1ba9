SPECIFICATION ParserSpec
CONSTANTS
    Names <- MCNames
    Numbers <- MCNumbers
    Sources <- ChainSources
INVARIANT GroupedByMap
CHECK_DEADLOCK FALSE
