SPECIFICATION Spec
CONSTANTS
    v1 = v1
    v2 = v2
    v3 = v3
    None = None
    Undefined = Undefined
    vsValidators <- MCValidators
    viPower <- MCPower
    viActive <- MCAll
    vsTotalPower = 4
    WordSize = 4096
    Engines <- MCAll
    PlaceholdersFilled = TRUE
    OneRunPerRound = TRUE
    DriverMsgs <- MCOneCommit
    DriverSteps <- MCNoSteps
    TimeoutPropose = 3
    MaxRound = 1
    MaxProposals = 1
    MaxQueue = 1
INVARIANTS
    IInv
    Agreement
    DecisionBacked
    LockBacked
    LockHolds
    NoDoubleVote
PROPERTIES
    DecisionFinal
    ImplementsConsensus
