SPECIFICATION LoweringSpec
CONSTANTS
    Names <- MCNames
    Numbers <- MCNumbers
    Doubles <- MCDoubles
    Programs <- MCLowered
    Height = 12
INVARIANTS
    OwnOperands
    StatementsKept
    CastsReach
    PlainIsLowered
CHECK_DEADLOCK FALSE
