SPECIFICATION Spec
CONSTANTS
    x = x
    Zero = Zero
    Leaf <- MCLeaf
    MaxLeaves = 5
INVARIANT ProofsVerify
CHECK_DEADLOCK FALSE
