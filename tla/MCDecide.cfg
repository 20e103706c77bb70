SPECIFICATION FairSpec
CONSTANTS
    v1 = v1
    v2 = v2
    v3 = v3
    None = None
    Undefined = Undefined
    vsValidators <- MCTurns
    viPower <- MCPower
    viActive <- MCAll
    vsTotalPower = 4
    WordSize = 4096
    Engines <- MCTwo
    PlaceholdersFilled = TRUE
    OneRunPerRound = TRUE
    DriverMsgs <- MCNoMsgs
    DriverSteps <- MCNoSteps
    TimeoutPropose = 3
    MaxRound = 1
    MaxProposals = 1
    MaxQueue = 4
PROPERTY DecidesWhenSynchronous
