SPECIFICATION Spec
CONSTANTS
    v1 = v1
    v2 = v2
    v3 = v3
    v4 = v4
    Addresses <- MCAddresses
    MaxPower = 3
    MaxRound = 2
    WordSize = 64
CHECK_DEADLOCK FALSE
INVARIANTS
    SuperMajorityExact
    QuorumsIntersect
    CountAgrees
    ProposersRotate
