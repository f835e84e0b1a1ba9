SPECIFICATION LoweringSpec
CONSTANTS
    Names <- MCNames
    Numbers <- MCNumbers
    Doubles <- MCDoubles
    Programs <- MCLowered
    Height = 12
INVARIANTS
    PrimitivesAreWrapped
CHECK_DEADLOCK FALSE
