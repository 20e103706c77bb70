SPECIFICATION FairSpec
CONSTANTS
    c1 = c1
    c2 = c2
    p1 = p1
    a1 = a1
    a2 = a2
    Nobody = Nobody
    ZeroId = ZeroId
    BadAddr = BadAddr
    Unknown = Unknown
    Callers <- MCCallers
    Identities <- MCIdentities
    max_peers = 2
    MaxCalls = 4
    PeerId <- MCPeers
    Addr <- MCAddrs
    bootstrap_peers <- MCSeeds
    PeerTimeout = 1
    target_outgoing = 2
INVARIANTS
    FramesWhole
    BroadcastReaches
    SentOnce
PROPERTY CallsReturn
CHECK_DEADLOCK FALSE
