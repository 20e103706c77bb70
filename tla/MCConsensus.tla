---------------------------- MODULE MCConsensus -----------------------------
(* Small instances of ConsensusEngine for TLC. *)
EXTENDS ConsensusEngine, TLC

CONSTANTS v1, v2, v3

MCValidators == <<v1, v2, v3>>
MCPower == (v1 :> 1) @@ (v2 :> 1) @@ (v3 :> 2)
MCAll == {v1, v2, v3}
MCTwo == {v1, v3}

\* The engines of MCTwo propose in the first two rounds.
MCTurns == <<v1, v3, v2>>

MCNoSteps == {}
MCNoMsgs == {}
MCViewChange(v, view) == [type |-> "viewchange", newView |-> view, sender |-> v]
MCCommit(v, block) == [type |-> "commit", block |-> block, sender |-> v]

\* A commit message for a block that nobody proposes.
MCOneCommit == {MCCommit(v3, <<v3, 1>>)}

\* A single new-view announcement, which nobody asked for.
MCNewViews == {[type |-> "newview", view |-> 0, sender |-> v3]}

MCVote(type, v, round, block) ==
    [type |-> type, round |-> round, block |-> block, sender |-> v]
MCProposal(v, round, block) ==
    [type |-> "proposal", round |-> round, block |-> block, validRound |-> None,
     sender |-> v]

\* v2 runs other software and votes nil, as a validator whose proposal timed
\* out does.
MCNilVote == {MCVote("prevote", v2, 0, None), MCVote("precommit", v2, 0, None)}

\* Powers whose triple exceeds the word: all three validators together are no
\* super-majority, two of them are.  v2 and v3 vote nil in round 0 and ask for a
\* change of view, and v2 proposes out of turn.
MCOne == {v1}
MCWrapPower == (v1 :> 1) @@ (v2 :> 1) @@ (v3 :> 4)
MCWrapMsgs ==
    {MCVote(type, v, 0, None) : type \in {"prevote", "precommit"}, v \in {v2, v3}}
        \cup {MCProposal(v2, 0, <<v2, 1>>), MCViewChange(v2, 1), MCViewChange(v3, 1)}

\* The shipped engine of v2: v1 proposes in round 0 and out of turn in
\* round 1, votes, and commits; a view change and a new view arrive.
MCSecond == {v2}
MCCommitStep == {"Commit"}
MCShippedMsgs ==
    {MCProposal(v1, 0, <<v1, 1>>), MCProposal(v1, 1, <<v1, 2>>),
     MCVote("prevote", v1, 0, <<v1, 1>>), MCVote("precommit", v1, 0, <<v1, 1>>),
     MCCommit(v1, <<v1, 1>>), MCCommit(v1, <<v1, 2>>),
     MCViewChange(v1, 1)} \cup MCNewViews
=============================================================================
