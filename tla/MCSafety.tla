------------------------------ MODULE MCSafety ------------------------------
(* The fault-free instances of MCConsensus, under the assumptions of the proof. *)
EXTENDS MCConsensus, ConsensusSafety

ASSUME InstanceFaultFree == FaultFree
=============================================================================
