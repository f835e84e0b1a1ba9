SPECIFICATION ResolverSpec
CONSTANTS
    Names <- MCNames
    Numbers <- MCNumbers
    Doubles <- MCDoubles
    Programs <- MCPrograms
    Height = 12
INVARIANTS
    ResolverTypeOK
    TypesRight
    LoweringReady
    ConditionsAreBool
    EveryProblemReported
    TestVerdicts
CHECK_DEADLOCK FALSE
