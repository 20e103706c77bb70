----------------------------- MODULE BlockStore -----------------------------
(***************************************************************************)
(* What a block store promises the rest of the node: blocks are only ever  *)
(* added, and the head only ever moves from a stored block to a higher     *)
(* stored block.                                                           *)
(***************************************************************************)
EXTENDS Naturals

CONSTANTS
    Block,      \* the blocks there are
    heightOf,   \* block -> its height
    NoBlock     \* None

VARIABLES
    blocks,     \* the blocks that can be read by hash
    head        \* the head of the chain

Init == blocks = {} /\ head = NoBlock

Add(b) ==
    /\ blocks' = blocks \cup {b}
    /\ UNCHANGED head

Advance(b) ==
    /\ b \in blocks
    /\ head # NoBlock => heightOf[b] > heightOf[head]
    /\ head' = b
    /\ UNCHANGED blocks

Next == \E b \in Block : Add(b) \/ Advance(b)

Spec == Init /\ [][Next]_<<blocks, head>>

=============================================================================
