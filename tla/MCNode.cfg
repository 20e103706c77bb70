SPECIFICATION NodeFairSpec
CONSTANTS
    t1 = t1
    t2 = t2
    b0 = b0
    b1 = b1
    f0 = f0
    c1 = c1
    c2 = c2
    NoBlock = NoBlock
    Tasks <- MCTasks
    Cancellable <- MCTasks
    Block <- MCBlocks
    heightOf <- MCHeights
    stores <- MCStores
    reads <- MCReads
    Services <- MCServices
    Callers <- MCCallers
    Status <- MCStatus
INVARIANTS
    NodeTypeOK
    HeadIsHighest
    ReadSeesStored
    ShutdownQuiesces
PROPERTIES
    IsBlockStore
    ShutdownReturns
