SPECIFICATION ScanSpec
CONSTANTS
    MaxLength = 4
    Texts <- MCTexts
    Keywords <- MCKeywords
    OutOfRange <- MCOutOfRange
INVARIANTS
    ScanTypeOK
    Lossless
    InTextOrder
    LongestMatch
    NumbersRead
PROPERTIES
    ScanEnds
CHECK_DEADLOCK FALSE
