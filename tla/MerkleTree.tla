----------------------------- MODULE MerkleTree -----------------------------
(***************************************************************************)
(* Merkle trees and proofs (crypto/merkle).  The hash of two hashes is the *)
(* pair of them, so hashing is injective.  A leaf may be any hash: the     *)
(* zero hash that also pads the lists, the hash of two hashes, or another. *)
(*                                                                         *)
(* The two loops, collect_siblings and MerkleProof::compute_root, take one *)
(* step per iteration: a proof is generated for some index of some list,   *)
(* and a verifier is handed that proof or another one.                     *)
(***************************************************************************)
EXTENDS Naturals, Sequences

CONSTANTS
    Leaf,       \* the hashes that are in the lists
    Zero,       \* Hash::zero()
    MaxLeaves   \* bounds the lists

ASSUME MerkleAssumption ==
    /\ Zero \in Leaf
    /\ MaxLeaves \in Nat

Lists == UNION {[1..n -> Leaf] : n \in 0..MaxLeaves}

-----------------------------------------------------------------------------
(* Roots *)

\* Mutant: the two hashes are put in order before they are hashed.
combine_hashes_Sorted(left, right) == [both |-> {left, right}]

combine_hashes(left, right) == [left |-> left, right |-> right]

next_power_of_two(n) ==
    LET doubled[p \in 1..2 * n] == IF p < n THEN doubled[2 * p] ELSE p
    IN  IF n =< 1 THEN 1 ELSE doubled[1]

\* Mutant: the last hash is repeated.
pad_to_power_of_two_Repeat(hs) ==
    IF hs = <<>> THEN <<Zero>>
    ELSE [k \in 1..next_power_of_two(Len(hs)) |-> IF k =< Len(hs) THEN hs[k] ELSE hs[Len(hs)]]

\* Mutant: the list is only made even.
pad_to_power_of_two_Even(hs) ==
    IF hs = <<>> THEN <<Zero>> ELSE IF Len(hs) > 1 /\ Len(hs) % 2 = 1 THEN Append(hs, Zero) ELSE hs

pad_to_power_of_two(hs) ==
    IF hs = <<>> THEN <<Zero>>
    ELSE [k \in 1..next_power_of_two(Len(hs)) |-> IF k =< Len(hs) THEN hs[k] ELSE Zero]

\* The variants of the enum MerkleTree; a leaf has no children.
LeafNode(hash) == [hash |-> hash, children |-> <<>>]
InnerNode(hash, left, right) == [hash |-> hash, children |-> <<left, right>>]

root_hash(tree) == tree.hash

\* build_tree splits a list until one hash is left; it is never given none.
TreeInput == {hs \in Seq(Leaf) : Len(hs) > 0}

build_tree[hs \in TreeInput] ==
    IF Len(hs) = 1 THEN LeafNode(hs[1])
    ELSE LET mid == Len(hs) \div 2
             left == build_tree[SubSeq(hs, 1, mid)]
             right == build_tree[SubSeq(hs, mid + 1, Len(hs))]
         IN  InnerNode(combine_hashes(root_hash(left), root_hash(right)), left, right)

pow2[k \in Nat] == IF k = 0 THEN 1 ELSE 2 * pow2[k - 1]

\* The logarithm of a power of two is exact in an f64.
log2(p) == CHOOSE k \in 0..p : pow2[k] = p

tree_depth(n) == IF n =< 1 THEN 1 ELSE log2(next_power_of_two(n)) + 1

\* The nodes on the left edge of a tree, from the root down to the leaf.
leftEdge(tree) ==
    LET down[k \in Nat] ==
            IF k = 0 THEN tree
            ELSE IF down[k - 1].children = <<>> THEN down[k - 1] ELSE down[k - 1].children[1]
    IN  down

\* How far down the leaf is.  MaxLeaves bounds the search, not the tree: a list
\* has at least as many leaves as its tree has levels above them.
depth(tree) ==
    LET isLeaf(k) == leftEdge(tree)[k].children = <<>>
    IN  1 + CHOOSE k \in 0..MaxLeaves : isLeaf(k) /\ \A j \in 0..k - 1 : ~isLeaf(j)

compute_root(hs) == IF hs = <<>> THEN Zero ELSE root_hash(build_tree[pad_to_power_of_two(hs)])

\* No hash is made from itself: none is the root of a tree of which it is a leaf.
ASSUME NoCycleAssumption ==
    \A hs \in Lists : Len(hs) > 1 => \A k \in DOMAIN hs : compute_root(hs) # hs[k]

-----------------------------------------------------------------------------
(* Proofs *)

VARIABLES
    hashes,     \* the list
    phase,      \* "new", "none", "collect" or "verify"
    current,    \* collect_siblings: the half of the list that holds the leaf
    idx,        \* index in either loop
    proof,      \* the proof that is generated
    received,   \* the proof that is verified
    computed,   \* compute_root of a proof: the hash so far
    rest        \* and the siblings that are left

vars == <<hashes, phase, current, idx, proof, received, computed, rest>>

NoProof == [index |-> 0, leaf |-> Zero, siblings |-> <<>>]

Init ==
    /\ hashes \in Lists
    /\ phase = "new"
    /\ current = <<>>
    /\ idx = 0
    /\ proof = NoProof
    /\ received = NoProof
    /\ computed = Zero
    /\ rest = <<>>

GenerateProof(index) ==
    /\ phase = "new"
    /\ IF hashes = <<>> \/ index >= Len(hashes)
       THEN phase' = "none" /\ UNCHANGED <<current, idx, proof>>
       ELSE /\ phase' = "collect"
            /\ current' = pad_to_power_of_two(hashes)
            /\ idx' = index
            /\ proof' = [index |-> index, leaf |-> hashes[index + 1], siblings |-> <<>>]
    /\ UNCHANGED <<hashes, received, computed, rest>>

\* Mutant: the sibling is looked up in the same half.
siblingIndex_SameHalf(mid) == idx

siblingIndex(mid) == IF idx < mid THEN mid + (idx % mid) ELSE idx % mid

\* Mutant: the index stays that of the whole list.
nextIndex_Whole(mid) == idx

nextIndex(mid) == idx % mid

\* One iteration of collect_siblings.
CollectSibling ==
    LET mid == Len(current) \div 2
    IN  /\ phase = "collect"
        /\ Len(current) > 1
        /\ proof' = [proof EXCEPT !.siblings = Append(@, current[siblingIndex(mid) + 1])]
        /\ current' = IF idx < mid THEN SubSeq(current, 1, mid)
                                   ELSE SubSeq(current, mid + 1, Len(current))
        /\ idx' = nextIndex(mid)
        /\ UNCHANGED <<hashes, phase, received, computed, rest>>

\* The root of a subtree: the block-th group of size leaves.
subroot(size, block) ==
    root_hash(build_tree[SubSeq(pad_to_power_of_two(hashes), size * block + 1, size * (block + 1))])

neighbour(block) == IF block % 2 = 0 THEN block + 1 ELSE block - 1

\* A sibling path as it should be: the root of the neighbouring subtree at
\* every level, from the leaf up.
path(index) ==
    [k \in 1..log2(next_power_of_two(Len(hashes))) |->
        subroot(pow2[k - 1], neighbour(index \div pow2[k - 1]))]

generated == phase # "new" /\ phase # "none" /\ Len(current) = 1

\* A verifier is handed a proof about any index and leaf, with the siblings that
\* were generated or with a true path.
ReceiveProof ==
    /\ phase = "collect"
    /\ generated
    /\ \E index \in 0..Len(hashes) - 1, leaf \in Leaf, siblings \in {proof.siblings, path(proof.index)} :
          /\ received' = [index |-> index, leaf |-> leaf, siblings |-> siblings]
          /\ computed' = leaf
          /\ idx' = index
          /\ rest' = siblings
    /\ phase' = "verify"
    /\ UNCHANGED <<hashes, current, proof>>

isLeftChild == idx % 2 = 0

\* One iteration of compute_root of a proof.
VerifyStep ==
    /\ phase = "verify"
    /\ rest # <<>>
    /\ computed' = IF isLeftChild THEN combine_hashes(computed, Head(rest))
                                  ELSE combine_hashes(Head(rest), computed)
    /\ idx' = idx \div 2
    /\ rest' = Tail(rest)
    /\ UNCHANGED <<hashes, phase, current, proof, received>>

Next ==
    \/ \E index \in 0..MaxLeaves : GenerateProof(index)
    \/ CollectSibling
    \/ ReceiveProof
    \/ VerifyStep

Spec == Init /\ [][Next]_vars

\* verify, once its loop has ended.
verified == phase = "verify" /\ rest = <<>>
accepted == verified /\ computed = compute_root(hashes)

-----------------------------------------------------------------------------
(* Properties *)

\* No iteration of collect_siblings reads outside of the list it halves, whose
\* length stays a power of two.
CollectInBounds ==
    phase = "collect" =>
        /\ idx < Len(current)
        /\ Len(current) = next_power_of_two(Len(current))
        /\ Len(current) > 1 => siblingIndex(Len(current) \div 2) \in 0..Len(current) - 1

\* A generated proof has one sibling for every level of the tree above the
\* leaves, and tree_depth and MerkleTree::depth agree on how many those are.
DepthsAgree ==
    generated =>
        /\ Len(proof.siblings) = tree_depth(Len(hashes)) - 1
        /\ depth(build_tree[pad_to_power_of_two(hashes)]) = tree_depth(Len(hashes))

\* The hash at a position of a list, or of its padding.
at(hs, k) == IF k =< Len(hs) THEN hs[k] ELSE Zero

\* The padded length of a list.
width(hs) == next_power_of_two(Len(hs))

\* Another list has the root of this one exactly if its leaves, with zero hashes
\* after them, are the roots of equal parts of this one: of its leaves one by one,
\* or, when it is the shorter list, of its subtrees.  No other order, leaf or length
\* lets one list pass for another.
RootBinds ==
    phase = "new" =>
        \A other \in {hs \in Lists : width(hs) =< width(hashes)} :
            compute_root(other) = compute_root(hashes) <=>
                \A k \in 1..width(other) :
                    at(other, k) = subroot(width(hashes) \div width(other), k - 1)

\* Of what it is handed, verify accepts the leaf at the index of the proof with its
\* true path, and nothing else: no other leaf, no path of another index, and no
\* generated siblings that are not the path.
AcceptedIsPath ==
    verified =>
        (accepted <=> /\ received.leaf = hashes[received.index + 1]
                      /\ received.siblings = path(received.index))

\* verify accepts the proofs that generate_proof makes.
ProofsVerify == verified /\ received = proof => accepted

\* It does so for lists of one or two leaves, and refuses them for any longer list.
OnlySmallProofsVerify ==
    verified /\ received = proof => (accepted <=> Len(hashes) =< 2)

=============================================================================
