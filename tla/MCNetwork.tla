------------------------------ MODULE MCNetwork -----------------------------
(* A small instance of P2PManager for TLC. *)
EXTENDS P2PManager, TLC

CONSTANTS c1, c2, p1, a1, a2

MCCallers == {c1, c2}
MCPeers == {p1, ZeroId}
MCAddrs == {a1, a2}
MCSeeds == <<a2, a1>>

\* The handshake as shipped, which returns the zero id, and one that tells the
\* peers apart.
MCIdentities ==
    {(a1 :> ZeroId) @@ (a2 :> ZeroId), (a1 :> ZeroId) @@ (a2 :> p1)}
=============================================================================
