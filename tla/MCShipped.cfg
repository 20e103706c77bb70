SPECIFICATION Spec
CONSTANTS
    v1 = v1
    v2 = v2
    v3 = v3
    None = None
    Undefined = Undefined
    vsValidators <- MCValidators
    viPower <- MCPower
    viActive <- MCAll
    vsTotalPower = 4
    WordSize = 4096
    Engines <- MCSecond
    PlaceholdersFilled = FALSE
    OneRunPerRound = FALSE
    DriverMsgs <- MCShippedMsgs
    DriverSteps <- MCCommitStep
    TimeoutPropose = 3
    MaxRound = 1
    MaxProposals = 2
    MaxQueue = 1
INVARIANTS
    TypeOK
    PrevoteFollowsProposal
PROPERTY DecisionFinal
