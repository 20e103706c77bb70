------------------------------ MODULE MCMerkle ------------------------------
(* A small instance of MerkleTree for TLC: the leaves are a hash, the zero   *)
(* hash and the hash of the two.                                             *)
EXTENDS MerkleTree

CONSTANT x

MCLeaf == {x, Zero, combine_hashes(x, Zero)}
=============================================================================
