SPECIFICATION ParserSpec
CONSTANTS
    Names <- MCNames
    Numbers <- MCNumbers
    Sources <- ParamSources
INVARIANT RefusedUnclosed
CHECK_DEADLOCK FALSE
