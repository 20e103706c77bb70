SPECIFICATION Spec
CONSTANTS
    v1 = v1
    v2 = v2
    v3 = v3
    None = None
    Undefined = Undefined
    vsValidators <- MCValidators
    viPower <- MCPower
    viActive <- MCAll
    vsTotalPower = 4
    WordSize = 4096
    Engines <- MCTwo
    PlaceholdersFilled = TRUE
    OneRunPerRound = TRUE
    DriverMsgs <- MCNilVote
    DriverSteps <- MCNoSteps
    TimeoutPropose = 3
    MaxRound = 0
    MaxProposals = 1
    MaxQueue = 2
INVARIANT DecisionBacked
