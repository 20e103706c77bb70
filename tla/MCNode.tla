------------------------------- MODULE MCNode -------------------------------
(* A small instance of Node for TLC. *)
EXTENDS Node, TLC

CONSTANTS t1, t2, b0, b1, f0, c1, c2

MCTasks == {t1, t2}
MCCallers == {c1, c2}
MCServices == {t2}
MCBlocks == {b0, b1, f0}
MCHeights == (b0 :> 0) @@ (b1 :> 1) @@ (f0 :> 0)
MCStores == (t1 :> {b1, f0}) @@ (t2 :> {b0})
MCReads == (t1 :> {0}) @@ (t2 :> {0})
MCStatus == {"InSync"}
=============================================================================
