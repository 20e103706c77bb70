----------------------------- MODULE MCQuorums ------------------------------
(* Small instances of ValidatorQuorums for TLC. *)
EXTENDS ValidatorQuorums

CONSTANTS v1, v2, v3, v4

MCAddresses == <<v1, v2, v3, v4>>
=============================================================================
