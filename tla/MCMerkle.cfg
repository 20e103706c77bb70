SPECIFICATION Spec
CONSTANTS
    x = x
    Zero = Zero
    Leaf <- MCLeaf
    MaxLeaves = 5
INVARIANTS
    CollectInBounds
    DepthsAgree
    RootBinds
    AcceptedIsPath
    OnlySmallProofsVerify
CHECK_DEADLOCK FALSE
