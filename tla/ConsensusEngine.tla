-------------------------- MODULE ConsensusEngine ---------------------------
(***************************************************************************)
(* The consensus engine (CryptoCoin.Consensus.Engine): one engine per      *)
(* validator of the set Engines, each driven by one thread that calls its  *)
(* exported operations one after the other.                                *)
(*                                                                         *)
(* A call of runConsensusRound or of a handler that runs from start to end *)
(* on its own engine is one action.  processMessages is the exception: it  *)
(* drains the queue into a batch and applies the batch one message at a    *)
(* time, so batch[e] holds what is left of the batch and applying its head *)
(* is an action of its own.                                                *)
(*                                                                         *)
(* The source leaves three placeholders: pmBlock = undefined in            *)
(* proposeBlock, and collectVotes and collectViewChanges, which return [].  *)
(* PlaceholdersFilled = FALSE is the code as it stands.  With TRUE a        *)
(* proposal carries a fresh block and the collectors return the votes the  *)
(* engine has sent or been handed, which is what the handlers need in      *)
(* order to do anything at all.                                            *)
(*                                                                         *)
(* How messages travel between engines is not part of the source:          *)
(* broadcastMessage only pushes on the engine's own queue.  The network is *)
(* external: it hands any message ever broadcast to any other engine, in   *)
(* any order, any number of times, or never.                               *)
(***************************************************************************)
EXTENDS ValidatorSet

CONSTANTS
    Engines,            \* the validators that run this engine
    None,               \* Nothing
    Undefined,          \* the block of a proposal built by the shipped code
    PlaceholdersFilled, \* see above
    OneRunPerRound,     \* the driver never runs a round twice as its proposer
    DriverMsgs,         \* messages handed in that no engine broadcast
    DriverSteps,        \* the steps the driver requests by transitionStep
    TimeoutPropose,     \* ccTimeoutPropose
    MaxRound,           \* bound: no engine goes past this round
    MaxProposals,       \* bound: proposals per engine
    MaxQueue            \* bound: no delivery makes a queue longer

VARIABLES
    csRound, csStep, csProposedBlock,
    csLockedBlock, csLockedRound, csValidBlock, csValidRound,
    csDecision, csTimeout,
    ceMsgQueue,         \* engine -> messages, newest first
    cmBlocksProposed,   \* engine -> number of proposals it made
    batch,              \* engine -> drained messages not applied yet
    sent,               \* every message broadcast so far
    received            \* engine -> votes and view changes it keeps

lockVars == <<csLockedBlock, csLockedRound, csValidBlock, csValidRound>>
proposeVars == <<csProposedBlock, cmBlocksProposed>>
roundVars == <<csRound, csTimeout>>
netVars == <<ceMsgQueue, sent>>
vars == <<roundVars, csStep, proposeVars, lockVars, csDecision, netVars,
          batch, received>>

Round == 0 .. MaxRound
Step == {"Propose", "Prevote", "Precommit", "Commit"}

\* A block is known by who built it and as which of their blocks: createBlock
\* stamps the time, so no two blocks built are equal.
Block == ValidatorId \X (1 .. MaxProposals)

Vote == [type : {"prevote", "precommit"}, round : Round,
         block : Block \cup {None}, sender : ValidatorId]
Proposal == [type : {"proposal"}, round : Round, block : Block \cup {Undefined},
             validRound : Round \cup {None}, sender : ValidatorId]
Commit == [type : {"commit"}, block : Block, sender : ValidatorId]
ViewChange == [type : {"viewchange"}, newView : Round, sender : ValidatorId]
NewView == [type : {"newview"}, view : Round, sender : ValidatorId]
Message == Vote \cup Proposal \cup Commit \cup ViewChange \cup NewView

ASSUME EngineAssumption ==
    /\ Engines \subseteq ValidatorId
    /\ None \notin Block \cup Nat
    /\ Undefined \notin Block \cup {None}
    /\ PlaceholdersFilled \in BOOLEAN
    /\ OneRunPerRound \in BOOLEAN
    /\ DriverMsgs \subseteq Message
    /\ \A m \in DriverMsgs : /\ m \in Vote \cup Proposal => m.sender \notin Engines
                             /\ m \in Proposal => m.block # Undefined
    /\ DriverSteps \subseteq Step
    /\ TimeoutPropose \in Nat
    /\ MaxRound \in Nat
    /\ MaxProposals \in Nat
    /\ MaxQueue \in Nat

TypeOK ==
    /\ csRound \in [Engines -> Round]
    /\ csStep \in [Engines -> Step]
    /\ csProposedBlock \in [Engines -> Block \cup {None, Undefined}]
    /\ csLockedBlock \in [Engines -> Block \cup {None}]
    /\ csLockedRound \in [Engines -> Round \cup {None}]
    /\ csValidBlock \in [Engines -> Block \cup {None}]
    /\ csValidRound \in [Engines -> Round \cup {None}]
    /\ csDecision \in [Engines -> Block \cup {None}]
    /\ csTimeout \in [Engines -> Nat]
    /\ ceMsgQueue \in [Engines -> Seq(Message)]
    /\ cmBlocksProposed \in [Engines -> 0 .. MaxProposals]
    /\ batch \in [Engines -> Seq(Message)]
    /\ sent \in SUBSET Message
    /\ received \in [Engines -> SUBSET Message]

\* newConsensusEngine
Init ==
    /\ csRound = [e \in Engines |-> 0]
    /\ csStep = [e \in Engines |-> "Propose"]
    /\ csProposedBlock = [e \in Engines |-> None]
    /\ csLockedBlock = [e \in Engines |-> None]
    /\ csLockedRound = [e \in Engines |-> None]
    /\ csValidBlock = [e \in Engines |-> None]
    /\ csValidRound = [e \in Engines |-> None]
    /\ csDecision = [e \in Engines |-> None]
    /\ csTimeout = [e \in Engines |-> TimeoutPropose]
    /\ ceMsgQueue = [e \in Engines |-> <<>>]
    /\ cmBlocksProposed = [e \in Engines |-> 0]
    /\ batch = [e \in Engines |-> <<>>]
    /\ sent = {}
    /\ received = [e \in Engines |-> {}]

-----------------------------------------------------------------------------
(* Proposing and running a round *)

newBlock(e) ==
    IF PlaceholdersFilled THEN <<e, cmBlocksProposed[e] + 1>> ELSE Undefined

\* proposeBlock in round r, followed by the drain of processMessages: the
\* proposal is pushed on the queue, which is newest first, and the whole
\* queue becomes the batch.  rest is what an enclosing batch still holds.
proposeBlock(e, r, rest) ==
    LET proposal == [type |-> "proposal", round |-> r, block |-> newBlock(e),
                     validRound |-> csValidRound[e], sender |-> e]
    IN  /\ cmBlocksProposed[e] < MaxProposals
        /\ sent' = sent \cup {proposal}
        /\ batch' = [batch EXCEPT ![e] = <<proposal>> \o ceMsgQueue[e] \o rest]
        /\ ceMsgQueue' = [ceMsgQueue EXCEPT ![e] = <<>>]
        /\ cmBlocksProposed' = [cmBlocksProposed EXCEPT ![e] = @ + 1]
        /\ csProposedBlock' = [csProposedBlock EXCEPT ![e] = newBlock(e)]
        /\ csStep' = [csStep EXCEPT ![e] = "Prevote"]

\* processMessages up to the point where the batch starts to be applied.
processMessages(e, step, rest) ==
    /\ batch' = [batch EXCEPT ![e] = ceMsgQueue[e] \o rest]
    /\ ceMsgQueue' = [ceMsgQueue EXCEPT ![e] = <<>>]
    /\ csStep' = [csStep EXCEPT ![e] = step]
    /\ UNCHANGED <<proposeVars, sent>>

\* r and step are the round and the step at the time of the call.
runConsensusRound(e, r, step, rest) ==
    \/ shouldPropose(r, e) /\ proposeBlock(e, r, rest)
    \/ ~shouldPropose(r, e) /\ processMessages(e, step, rest)

startNextRound(e) ==
    /\ csRound[e] < MaxRound
    /\ csRound' = [csRound EXCEPT ![e] = @ + 1]
    /\ csStep' = [csStep EXCEPT ![e] = "Propose"]
    /\ csTimeout' = [csTimeout EXCEPT ![e] = TimeoutPropose]

-----------------------------------------------------------------------------
(* Sending and collecting votes *)

broadcastMessage(e, m) ==
    /\ ceMsgQueue' = [ceMsgQueue EXCEPT ![e] = <<m>> \o @]
    /\ sent' = sent \cup {m}

sendVote(e, type, block) ==
    broadcastMessage(e, [type |-> type, round |-> csRound[e],
                         block |-> block, sender |-> e])

\* The engine adds msgs to what it keeps for the collectors: view changes, and
\* the votes of its round (after the step) or of a later one.
remember(e, msgs) ==
    received' = [received EXCEPT ![e] =
        {m \in @ \cup msgs :
            \/ m.type = "viewchange"
            \/ m.type \in {"prevote", "precommit"} /\ m.round >= csRound'[e]}]

\* What the collectors look at while m is handled.
messageLog(e, m) == received[e] \cup {m} \cup {s \in sent : s.sender = e}

\* Mutant: the votes of later rounds count as well.
collectVotes_AnyRound(e, m, type, round) ==
    IF PlaceholdersFilled THEN {v \in messageLog(e, m) : v.type = type} ELSE {}

\* The source returns a list; its order is unspecified, so it is a set here
\* and the handlers' "first vote" is any member of it.
collectVotes(e, m, type, round) ==
    IF PlaceholdersFilled
    THEN {v \in messageLog(e, m) : v.type = type /\ v.round = round}
    ELSE {}

collectViewChanges(e, m, targetView) ==
    IF PlaceholdersFilled
    THEN {v \in messageLog(e, m) : v.type = "viewchange" /\ v.newView = targetView}
    ELSE {}

senders(msgs) == {v.sender : v \in msgs}

-----------------------------------------------------------------------------
(* Message handlers.  Each leaves received and, but for handleViewChange,   *)
(* batch to the caller.                                                     *)

\* The ordering of Maybe: Nothing is below every Just.
above(a, b) == a # None /\ (b # None => a > b)

\* Mutant: the lock is not looked at.
shouldVote_Unlocked(e, m) == TRUE

shouldVote(e, m) ==
    \/ csLockedBlock[e] = None
    \/ m.block = csLockedBlock[e]
    \/ above(m.validRound, csLockedRound[e])

\* Mutants: a proposal of another round, or of another proposer, is voted for.
acceptsProposal_AnyRound(e, m) ==
    /\ isRoundProposer(m.round, m.sender)
    /\ shouldVote(e, m)
acceptsProposal_AnyProposer(e, m) ==
    /\ m.round = csRound[e]
    /\ shouldVote(e, m)

acceptsProposal(e, m) ==
    /\ m.round = csRound[e]
    /\ isRoundProposer(csRound[e], m.sender)
    /\ shouldVote(e, m)

handleProposal(e, m) ==
    \/ /\ acceptsProposal(e, m)
       /\ sendVote(e, "prevote", m.block)
       /\ csStep' = [csStep EXCEPT ![e] = "Prevote"]
       /\ UNCHANGED <<roundVars, proposeVars, lockVars, csDecision>>
    \/ /\ ~acceptsProposal(e, m)
       /\ UNCHANGED <<roundVars, csStep, proposeVars, lockVars, csDecision, netVars>>

lockOn(e, block, round) ==
    /\ csLockedBlock' = [csLockedBlock EXCEPT ![e] = block]
    /\ csLockedRound' = [csLockedRound EXCEPT ![e] = round]
    /\ csValidBlock' = [csValidBlock EXCEPT ![e] = block]
    /\ csValidRound' = [csValidRound EXCEPT ![e] = round]

handlePrevote(e, m) ==
    LET prevotes == collectVotes(e, m, "prevote", csRound[e])
        majority == superMajority(senders(prevotes))
        nilMajority == superMajority(senders({v \in prevotes : v.block = None}))
    IN  /\ \/ /\ majority
              /\ \E first \in prevotes :
                    /\ lockOn(e, first.block, csRound[e])
                    /\ sendVote(e, "precommit", first.block)
              /\ csStep' = [csStep EXCEPT ![e] = "Precommit"]
           \/ /\ ~majority
              /\ nilMajority
              /\ sendVote(e, "precommit", None)
              /\ csStep' = [csStep EXCEPT ![e] = "Precommit"]
              /\ UNCHANGED lockVars
           \/ /\ ~majority
              /\ ~nilMajority
              /\ UNCHANGED <<csStep, lockVars, netVars>>
        /\ UNCHANGED <<roundVars, proposeVars, csDecision>>

handlePrecommit(e, m) ==
    LET precommits == collectVotes(e, m, "precommit", csRound[e])
        majority == superMajority(senders(precommits))
    IN  /\ \/ /\ majority
              /\ \E first \in precommits :
                    /\ first.block # None
                    /\ csDecision' = [csDecision EXCEPT ![e] = first.block]
              /\ csStep' = [csStep EXCEPT ![e] = "Commit"]
              /\ UNCHANGED roundVars
           \/ /\ majority
              /\ \E first \in precommits : first.block = None
              /\ startNextRound(e)
              /\ UNCHANGED csDecision
           \/ /\ ~majority
              /\ UNCHANGED <<roundVars, csStep, csDecision>>
        /\ UNCHANGED <<proposeVars, lockVars, netVars>>

\* Mutants: the step is not looked at, or a decision is overwritten.
handleCommit_AnyStep(e, m) ==
    /\ csDecision' = [csDecision EXCEPT ![e] = IF @ \in {None, m.block} THEN m.block ELSE @]
    /\ UNCHANGED <<roundVars, csStep, proposeVars, lockVars, netVars>>
handleCommit_Overwrite(e, m) ==
    /\ csDecision' = [csDecision EXCEPT ![e] = IF csStep[e] = "Commit" THEN m.block ELSE @]
    /\ UNCHANGED <<roundVars, csStep, proposeVars, lockVars, netVars>>

handleCommit(e, m) ==
    /\ \/ /\ csStep[e] = "Commit"
          /\ csDecision[e] \in {None, m.block}
          /\ csDecision' = [csDecision EXCEPT ![e] = m.block]
       \/ /\ ~(csStep[e] = "Commit" /\ csDecision[e] \in {None, m.block})
          /\ UNCHANGED csDecision
    /\ UNCHANGED <<roundVars, csStep, proposeVars, lockVars, netVars>>

\* The round adds to what is left of the queue.  As only own proposals and votes
\* are queued, a view change always comes from outside and nothing is left.
handleViewChange(e, m, rest) ==
    LET viewChanges == collectViewChanges(e, m, m.newView)
        majority == superMajority(senders(viewChanges))
    IN  /\ \/ /\ majority
              /\ csRound[e] < MaxRound
              /\ csRound' = [csRound EXCEPT ![e] = @ + 1]
              /\ runConsensusRound(e, csRound[e] + 1, "Propose", rest)
           \/ /\ ~majority
              /\ batch' = [batch EXCEPT ![e] = rest]
              /\ UNCHANGED <<csRound, csStep, proposeVars, netVars>>
        /\ UNCHANGED <<csTimeout, lockVars, csDecision>>

handleNewView(e, m) ==
    /\ csRound' = [csRound EXCEPT ![e] = m.view]
    /\ csStep' = [csStep EXCEPT ![e] = "Propose"]
    /\ UNCHANGED <<csTimeout, proposeVars, lockVars, csDecision, netVars>>

applyConsensusMessage(e, m, rest) ==
    \/ /\ \/ m.type = "proposal" /\ handleProposal(e, m)
          \/ m.type = "prevote" /\ handlePrevote(e, m)
          \/ m.type = "precommit" /\ handlePrecommit(e, m)
          \/ m.type = "commit" /\ handleCommit(e, m)
          \/ m.type = "newview" /\ handleNewView(e, m)
       /\ batch' = [batch EXCEPT ![e] = rest]
    \/ m.type = "viewchange" /\ handleViewChange(e, m, rest)

-----------------------------------------------------------------------------
(* The calls a driver makes, and the steps of a batch *)

Idle(e) == batch[e] = <<>>

hasProposed(e, r) ==
    \E p \in sent : p.type = "proposal" /\ p.sender = e /\ p.round = r

\* startConsensus.
StartConsensus(e) ==
    /\ Idle(e)
    /\ csDecision[e] = None
    /\ OneRunPerRound => ~hasProposed(e, csRound[e])
    /\ runConsensusRound(e, csRound[e], csStep[e], <<>>)
    /\ UNCHANGED <<roundVars, lockVars, csDecision, received>>

\* The exported runConsensusRound, which does not look at csDecision.
RunConsensusRound(e) ==
    /\ Idle(e)
    /\ csDecision[e] # None
    /\ OneRunPerRound => ~hasProposed(e, csRound[e])
    /\ runConsensusRound(e, csRound[e], csStep[e], <<>>)
    /\ UNCHANGED <<roundVars, lockVars, csDecision, received>>

\* Mutant: the block field is lazy, so that an unset block goes unnoticed.
isUndefined_Lazy(m) == FALSE

isUndefined(m) == m.type = "proposal" /\ m.block = Undefined

\* The next message of the batch.  Forcing a proposal whose strict block
\* field is undefined raises: the exception leaves mapM_ and every enclosing
\* call, and the rest of the batch is lost.
ApplyBatched(e) ==
    /\ ~Idle(e)
    /\ \/ /\ ~isUndefined(Head(batch[e]))
          /\ applyConsensusMessage(e, Head(batch[e]), Tail(batch[e]))
       \/ /\ isUndefined(Head(batch[e]))
          /\ batch' = [batch EXCEPT ![e] = <<>>]
          /\ UNCHANGED <<roundVars, csStep, proposeVars, lockVars, csDecision, netVars>>
    /\ remember(e, {})

\* What the driver may hand to engine e.  A proposal without a block cannot
\* be put on the wire.
deliverable(e) == {m \in sent : m.sender # e /\ ~isUndefined(m)} \cup DriverMsgs

\* The driver hands a message to applyConsensusMessage.
Deliver(e, m) ==
    /\ Idle(e)
    /\ applyConsensusMessage(e, m, <<>>)
    /\ Len(ceMsgQueue'[e]) =< MaxQueue
    /\ remember(e, {m})

\* timeoutHandler.
Timeout(e) ==
    /\ Idle(e)
    /\ startNextRound(e)
    /\ remember(e, {})
    /\ UNCHANGED <<proposeVars, lockVars, csDecision, netVars, batch>>

\* transitionStep.
TransitionStep(e) ==
    /\ Idle(e)
    /\ \E s \in DriverSteps : csStep' = [csStep EXCEPT ![e] = s]
    /\ UNCHANGED <<roundVars, proposeVars, lockVars, csDecision, netVars,
                   batch, received>>

Next ==
    \E e \in Engines :
        \/ StartConsensus(e)
        \/ RunConsensusRound(e)
        \/ ApplyBatched(e)
        \/ \E m \in deliverable(e) : Deliver(e, m)
        \/ Timeout(e)
        \/ TransitionStep(e)

Spec == Init /\ [][Next]_vars

\* The driver keeps running rounds and batches, a round that is not the last
\* times out, and the network delivers every vote and proposal again and again
\* as long as its receiver can take it.
Fairness ==
    \A e \in Engines :
        /\ WF_vars(StartConsensus(e))
        /\ WF_vars(ApplyBatched(e))
        /\ WF_vars(Timeout(e))
        /\ \A f \in Engines \ {e}, t \in {"proposal", "prevote", "precommit"}, r \in Round :
              SF_vars(\E m \in deliverable(e) :
                         /\ m.type = t /\ m.sender = f /\ m.round = r
                         /\ Deliver(e, m))

FairSpec == Spec /\ Fairness

-----------------------------------------------------------------------------
(* Properties *)

\* The validators among Engines and outsiders that voted for block in round.
voters(type, round, block) ==
    senders({v \in sent \cup DriverMsgs :
                v.type = type /\ v.round = round /\ v.block = block})

quorumOf(type, round, block) ==
    \E Q \in SUBSET voters(type, round, block) : superMajority(Q)

polka(round, block) == quorumOf("prevote", round, block)
committable(round, block) == quorumOf("precommit", round, block)

\* No two engines decide different blocks: csDecision, written by
\* handlePrecommit and finalizeBlock, agrees across validators.
Agreement ==
    \A e, f \in Engines :
        csDecision[e] # None /\ csDecision[f] # None => csDecision[e] = csDecision[f]

\* Once an engine has decided, no later call (a late precommit, a commit
\* message for another block, a further round) changes its decision.
DecisionFinal ==
    [][\A e \in Engines : csDecision[e] # None => csDecision'[e] = csDecision[e]]_vars

\* A decision rests on +2/3 precommits for that very block in one round;
\* handlePrecommit counts the precommits of all blocks together and takes the
\* block of the first, and handleCommit counts nothing.
DecisionBacked ==
    \A e \in Engines : csDecision[e] # None =>
        \E r \in Round : committable(r, csDecision[e])

\* A lock rests on +2/3 prevotes for the locked block in the locked round,
\* although handlePrevote does not compare the blocks of the prevotes.
LockBacked ==
    \A e \in Engines : csLockedRound[e] # None =>
        polka(csLockedRound[e], csLockedBlock[e])

\* Once a block can be committed in a round, no other block gets a polka in
\* that round or a later one: what the lock check of handleProposal is for.
LockHolds ==
    \A r, k \in Round : \A b, c \in Block :
        k >= r /\ committable(r, b) /\ polka(k, c) => b = c

\* No engine sends two votes of one phase for different blocks in one round,
\* although no handler looks at csStep before it votes.
NoDoubleVote ==
    \A v, w \in {x \in sent : x.type \in {"prevote", "precommit"}} :
        v.type = w.type /\ v.sender = w.sender /\ v.round = w.round => v.block = w.block

\* An engine prevotes only a block that the proposer of that round proposed
\* in that round (the two guards of handleProposal, over every delivery).
PrevoteFollowsProposal ==
    \A v \in {x \in sent : x.type = "prevote"} :
        \E p \in sent \cup DriverMsgs :
            /\ p.type = "proposal"
            /\ p.round = v.round
            /\ p.block = v.block
            /\ p.sender = roundProposer(v.round)

\* A decided block was proposed by the proposer of some round, through the
\* chain of handleProposal, handlePrevote and handlePrecommit, whatever nil
\* votes are mixed in.
DecisionProposed ==
    \A e \in Engines : csDecision[e] # None =>
        \E p \in sent \cup DriverMsgs :
            /\ p.type = "proposal"
            /\ p.block = csDecision[e]
            /\ p.sender = roundProposer(p.round)

\* Every engine is in the last round, which does not time out, undecided, and
\* its proposer has yet to propose and knows the latest lock of all.
synchronous ==
    LET proposer == roundProposer(MaxRound)
    IN  /\ proposer \in Engines
        /\ ~hasProposed(proposer, MaxRound)
        /\ \A e \in Engines :
              /\ csRound[e] = MaxRound
              /\ csDecision[e] = None
              /\ ~above(csLockedRound[e], csValidRound[proposer])

\* The liveness that the consensus specification claims: under partial synchrony
\* every engine decides.  A round that lasts, in which every message arrives and
\* whose proposer is up to date, ends in a decision.
DecidesWhenSynchronous == synchronous ~> \A e \in Engines : csDecision[e] # None

=============================================================================
