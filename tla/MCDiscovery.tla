---------------------------- MODULE MCDiscovery -----------------------------
(* A small instance of DiscoveryManager for TLC. *)
EXTENDS DiscoveryManager

CONSTANTS p1, p2, a1

MCPeers == {p1, p2, ZeroId}
MCAddrs == {a1}
MCSeeds == <<a1, a1>>
=============================================================================
