SPECIFICATION Spec
CONSTANTS
    v1 = v1
    v2 = v2
    v3 = v3
    None = None
    Undefined = Undefined
    vsValidators <- MCValidators
    viPower <- MCWrapPower
    viActive <- MCAll
    vsTotalPower = 6
    WordSize = 16
    Engines <- MCOne
    PlaceholdersFilled = TRUE
    OneRunPerRound = TRUE
    DriverMsgs <- MCWrapMsgs
    DriverSteps <- MCNoSteps
    TimeoutPropose = 3
    MaxRound = 3
    MaxProposals = 2
    MaxQueue = 2
INVARIANT DecisionProposed
