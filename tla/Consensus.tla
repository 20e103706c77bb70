----------------------------- MODULE Consensus ------------------------------
(***************************************************************************)
(* What the validators promise together, whatever the rounds, votes, locks *)
(* and messages: blocks are proposed, and every validator decides at most  *)
(* once, on a block proposed before, and on no other than the rest.        *)
(***************************************************************************)
CONSTANTS
    Validators,
    Block,
    None        \* no decision

VARIABLES
    proposed,   \* the blocks proposed so far
    decision    \* validator -> what it has decided

Init ==
    /\ proposed = {}
    /\ decision = [v \in Validators |-> None]

Propose(b) ==
    /\ proposed' = proposed \cup {b}
    /\ UNCHANGED decision

Decide(v, b) ==
    /\ b \in proposed
    /\ decision[v] = None
    /\ \A w \in Validators : decision[w] \in {None, b}
    /\ decision' = [decision EXCEPT ![v] = b]
    /\ UNCHANGED proposed

Next ==
    \E b \in Block :
        \/ Propose(b)
        \/ \E v \in Validators : Decide(v, b)

Spec == Init /\ [][Next]_<<proposed, decision>>

=============================================================================
