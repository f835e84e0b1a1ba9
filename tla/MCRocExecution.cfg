SPECIFICATION ProcessSpec
CONSTANTS
    Names <- MCNames
    Numbers <- MCNumbers
    Doubles <- MCDoubles
    Programs <- MCProcess
    Height = 12
    IntValue <- MCIntValue
    Inputs <- MCInputs
    Limit = 4
    MaxDepth = 4
INVARIANTS
    ProcessTypeOK
    OwnValues
    OneTerminator
    CallsReachTargets
    DirectIsEmitted
    ComputesTree
    DispatchFinds
PROPERTIES
    CompilerEnds
CHECK_DEADLOCK FALSE
