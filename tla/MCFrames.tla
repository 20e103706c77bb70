------------------------------ MODULE MCFrames ------------------------------
(* A small instance of WireFrame for TLC. *)
EXTENDS WireFrame

CONSTANTS x, y

MCBytes == {x, y}
=============================================================================
