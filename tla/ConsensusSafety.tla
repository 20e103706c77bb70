-------------------------- MODULE ConsensusSafety ---------------------------
(***************************************************************************)
(* Why the engines agree when no validator is faulty: the assumptions on   *)
(* the driver and on the voting powers, and the inductive invariant.       *)
(***************************************************************************)
EXTENDS ConsensusEngine

\* The stored total is the sum of the powers, and three times it fits the word.
\* superMajority never wraps then, and any two super-majorities share a validator.
PowersSummed ==
    /\ vsTotalPower = SumFunctionOnSet(viPower, ValidatorId)
    /\ vsTotalPower * 3 < WordSize

\* Moreover every vote and proposal comes from an engine, the placeholders are
\* filled, the driver forces no step and runs a round once as its proposer.
FaultFree ==
    /\ PowersSummed
    /\ PlaceholdersFilled
    /\ OneRunPerRound
    /\ DriverSteps = {}
    /\ \A m \in DriverMsgs : m.type \in {"viewchange", "commit"}

\* Weaker: those outside the engines vote nil only, and the driver does not force
\* the commit step.
OutsidersNil ==
    /\ \A m \in DriverMsgs : m.type \in {"prevote", "precommit"} => m.block = None
    /\ "Commit" \notin DriverSteps

-----------------------------------------------------------------------------
(* The promise of the engines *)

proposedBlocks == {p.block : p \in {m \in sent : m.type = "proposal"}}

Promise == INSTANCE Consensus WITH Validators <- Engines, proposed <- proposedBlocks, decision <- csDecision

\* The engines implement Consensus: a call of one engine proposes one block, or
\* decides for that engine alone a proposed block no other decision contradicts,
\* or does neither.
ImplementsConsensus == Promise!Spec

-----------------------------------------------------------------------------
(* The inductive invariant, part by part *)

\* What is queued, batched or kept was broadcast, or came from the driver.
Provenance ==
    /\ \A m \in sent : /\ m.sender \in Engines
                       /\ m.type \in {"proposal", "prevote", "precommit"}
    /\ \A e \in Engines :
          /\ received[e] \subseteq sent \cup DriverMsgs
          /\ ceMsgQueue[e] \in Seq(sent)
          /\ batch[e] \in Seq(sent)

\* A proposal comes from the proposer of its round, which has reached that
\* round, carries a block numbered among those it built, and its valid round is
\* an earlier round with a polka.
ProposalInv ==
    \A p \in sent : p.type = "proposal" =>
        /\ p.sender = roundProposer(p.round)
        /\ p.round =< csRound[p.sender]
        /\ p.block \in Block
        /\ p.block[1] = p.sender
        /\ p.block[2] =< cmBlocksProposed[p.sender]
        /\ p.validRound # None =>
              /\ p.validRound < p.round
              /\ \E b \in Block : polka(p.validRound, b)

\* One proposal for each round, one round for each block.
UniqueProposal ==
    \A p, q \in sent :
        p.type = "proposal" /\ q.type = "proposal" =>
            (p.round = q.round <=> p.block = q.block)

\* A prevote is for the proposal of its round.
PrevoteInv ==
    \A v \in sent : v.type = "prevote" =>
        /\ v.round =< csRound[v.sender]
        /\ \E p \in sent : /\ p.type = "proposal"
                           /\ p.round = v.round
                           /\ p.block = v.block

\* A precommit rests on a polka, and its sender stays locked at least there.
PrecommitInv ==
    \A v \in sent : v.type = "precommit" =>
        /\ v.round =< csRound[v.sender]
        /\ polka(v.round, v.block)
        /\ csLockedRound[v.sender] # None
        /\ v.round =< csLockedRound[v.sender]

LockInv ==
    \A e \in Engines :
        /\ csValidRound[e] = csLockedRound[e]
        /\ csLockedRound[e] = None => csLockedBlock[e] = None
        /\ csLockedRound[e] # None =>
              /\ csLockedRound[e] =< csRound[e]
              /\ csLockedBlock[e] \in Block
              /\ polka(csLockedRound[e], csLockedBlock[e])

DecisionInv ==
    \A e \in Engines :
        /\ csStep[e] = "Commit" => csDecision[e] # None
        /\ csDecision[e] # None => \E r \in Round : committable(r, csDecision[e])

hasVoted(type, e, r) ==
    \E v \in sent : v.type = type /\ v.sender = e /\ v.round = r

\* Either a round between r and k has a polka, or some super-majority prevoted
\* in k without having precommitted in r.
released(r, k) ==
    \/ \E j \in Round, b \in Block : r < j /\ j < k /\ polka(j, b)
    \/ \E Q \in SUBSET Engines :
          /\ superMajority(Q)
          /\ \A e \in Q : hasVoted("prevote", e, k) /\ ~hasVoted("precommit", e, r)

\* An engine that precommitted in r prevotes in a later round k only when it
\* has been released from r.
ReleaseInv ==
    \A e \in Engines : \A r, k \in Round :
        r < k /\ hasVoted("precommit", e, r) /\ hasVoted("prevote", e, k) => released(r, k)

IInv ==
    /\ TypeOK
    /\ Provenance
    /\ ProposalInv
    /\ UniqueProposal
    /\ PrevoteInv
    /\ PrecommitInv
    /\ LockInv
    /\ DecisionInv
    /\ ReleaseInv

=============================================================================
