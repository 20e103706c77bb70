SPECIFICATION Spec
CONSTANTS
    p1 = p1
    p2 = p2
    a1 = a1
    ZeroId = ZeroId
    BadAddr = BadAddr
    Unknown = Unknown
    PeerId <- MCPeers
    Addr <- MCAddrs
    bootstrap_peers <- MCSeeds
    PeerTimeout = 1
    target_outgoing = 2
INVARIANTS
    BannedStaysOut
    SharedAreConnected
    TargetIsMet
    CountsReported
