-------------------------- MODULE ConsensusProofs ---------------------------
(***************************************************************************)
(* Type correctness of the consensus engine, for every driver and every    *)
(* validator set, and agreement of the engines under the assumptions of    *)
(* ConsensusSafety.                                                        *)
(*                                                                         *)
(* As far as voting goes, a step of an engine is silent, or broadcasts one *)
(* proposal, one prevote or one precommit.  VotingStep says so, and the    *)
(* voting part of the invariant is shown to be preserved by a VotingStep;  *)
(* that every action is one is a separate lemma.                           *)
(***************************************************************************)
EXTENDS ConsensusSafety, RecursionProofs

-----------------------------------------------------------------------------
(* Type correctness, from none of the assumptions of ConsensusSafety *)

\* TypeOK without received, which applyConsensusMessage leaves to its caller.
EngineTypeOK ==
    /\ csRound \in [Engines -> Round]
    /\ csStep \in [Engines -> Step]
    /\ csProposedBlock \in [Engines -> Block \cup {None, Undefined}]
    /\ csLockedBlock \in [Engines -> Block \cup {None}]
    /\ csLockedRound \in [Engines -> Round \cup {None}]
    /\ csValidBlock \in [Engines -> Block \cup {None}]
    /\ csValidRound \in [Engines -> Round \cup {None}]
    /\ csDecision \in [Engines -> Block \cup {None}]
    /\ csTimeout \in [Engines -> Nat]
    /\ ceMsgQueue \in [Engines -> Seq(Message)]
    /\ cmBlocksProposed \in [Engines -> 0 .. MaxProposals]
    /\ batch \in [Engines -> Seq(Message)]
    /\ sent \in SUBSET Message

\* The kinds of messages are told apart by their type field.
LEMMA MessageKinds ==
    ASSUME NEW m \in Message
    PROVE  /\ m.type = "proposal" => m \in Proposal
           /\ m.type \in {"prevote", "precommit"} => m \in Vote
           /\ m.type = "commit" => m \in Commit
           /\ m.type = "viewchange" => m \in ViewChange
           /\ m.type = "newview" => m \in NewView
BY Zenon DEF Message, Proposal, Vote, Commit, ViewChange, NewView

\* runConsensusRound, in a round of the model, keeps the types of what it
\* changes.
LEMMA RunTypeOK ==
    ASSUME EngineTypeOK, NEW e \in Engines, NEW r \in Round, NEW step \in Step,
           NEW rest \in Seq(Message), runConsensusRound(e, r, step, rest)
    PROVE  /\ csStep' \in [Engines -> Step]
           /\ csProposedBlock' \in [Engines -> Block \cup {None, Undefined}]
           /\ ceMsgQueue' \in [Engines -> Seq(Message)]
           /\ cmBlocksProposed' \in [Engines -> 0 .. MaxProposals]
           /\ batch' \in [Engines -> Seq(Message)]
           /\ sent' \in SUBSET Message
<1>1. CASE shouldPropose(r, e) /\ proposeBlock(e, r, rest)
  <2> DEFINE p == [type |-> "proposal", round |-> r, block |-> newBlock(e),
                   validRound |-> csValidRound[e], sender |-> e]
  <2>1. cmBlocksProposed[e] + 1 \in 1 .. MaxProposals
    BY <1>1, EngineAssumption DEF proposeBlock, EngineTypeOK
  <2>2. newBlock(e) \in Block \cup {Undefined}
    BY Zenon, <2>1, EngineAssumption DEF newBlock, Block
  <2>3. p \in Message
    BY Zenon, <2>2, EngineAssumption DEF Message, Proposal, EngineTypeOK
  <2>4. <<p>> \o ceMsgQueue[e] \o rest \in Seq(Message)
    BY <2>3 DEF EngineTypeOK
  <2>5. batch' = [batch EXCEPT ![e] = <<p>> \o ceMsgQueue[e] \o rest]
    BY Zenon, <1>1 DEF proposeBlock
  <2>6. sent' = sent \cup {p}
    BY Zenon, <1>1 DEF proposeBlock
  <2> HIDE DEF p
  <2>7. batch' \in [Engines -> Seq(Message)] /\ sent' \in SUBSET Message
    BY Zenon, <2>3, <2>4, <2>5, <2>6 DEF EngineTypeOK
  <2> QED
    BY <1>1, <2>1, <2>2, <2>7, EngineAssumption DEF proposeBlock, EngineTypeOK, Step
<1>2. CASE ~shouldPropose(r, e) /\ processMessages(e, step, rest)
  BY <1>2 DEF processMessages, EngineTypeOK, proposeVars
<1> QED
  BY Zenon, <1>1, <1>2 DEF runConsensusRound

\* Broadcasting a message keeps the types of the queues and of sent.
LEMMA SendTypeOK ==
    ASSUME EngineTypeOK, NEW e \in Engines, NEW type \in {"prevote", "precommit"},
           NEW block \in Block \cup {None}, sendVote(e, type, block)
    PROVE  /\ ceMsgQueue' \in [Engines -> Seq(Message)]
           /\ sent' \in SUBSET Message
<1> DEFINE v == [type |-> type, round |-> csRound[e], block |-> block, sender |-> e]
<1>1. v \in Message
  BY Zenon, EngineAssumption DEF Message, Vote, EngineTypeOK
<1>2. ceMsgQueue' = [ceMsgQueue EXCEPT ![e] = <<v>> \o ceMsgQueue[e]] /\ sent' = sent \cup {v}
  BY Zenon DEF sendVote, broadcastMessage, EngineTypeOK
<1> HIDE DEF v
<1>3. <<v>> \o ceMsgQueue[e] \in Seq(Message)
  BY <1>1 DEF EngineTypeOK
<1> QED
  BY Zenon, <1>1, <1>2, <1>3 DEF EngineTypeOK

\* Every handler keeps the types, whatever message it is given.
LEMMA ApplyTypeOK ==
    ASSUME EngineTypeOK, received \in [Engines -> SUBSET Message],
           NEW e \in Engines, NEW m \in Message, ~isUndefined(m),
           NEW rest \in Seq(Message), applyConsensusMessage(e, m, rest)
    PROVE  EngineTypeOK'
<1> USE DEF roundVars, proposeVars, lockVars, netVars, Step
<1>a. CASE m.type = "proposal" /\ handleProposal(e, m)
  <2>1. m.block \in Block
    BY Zenon, <1>a, MessageKinds DEF isUndefined, Proposal
  <2>2. batch' \in [Engines -> Seq(Message)]
    BY Zenon, <1>a DEF applyConsensusMessage, EngineTypeOK
  <2>3. CASE acceptsProposal(e, m)
    BY Zenon, <1>a, <2>1, <2>2, <2>3, SendTypeOK DEF handleProposal, EngineTypeOK
  <2>4. CASE ~acceptsProposal(e, m)
    BY Zenon, <1>a, <2>2, <2>4 DEF handleProposal, EngineTypeOK
  <2> QED BY Zenon, <2>3, <2>4
<1>b. CASE m.type = "prevote" /\ handlePrevote(e, m)
  <2>1. batch' \in [Engines -> Seq(Message)]
    BY Zenon, <1>b DEF applyConsensusMessage, EngineTypeOK
  <2>2. \A v \in collectVotes(e, m, "prevote", csRound[e]) : v.block \in Block \cup {None}
    <3> SUFFICES ASSUME NEW v \in collectVotes(e, m, "prevote", csRound[e])
                 PROVE  v.block \in Block \cup {None}
      BY Zenon
    <3>1. v \in Message /\ v.type = "prevote"
      BY Zenon DEF collectVotes, messageLog, EngineTypeOK
    <3> QED BY Zenon, <3>1, MessageKinds DEF Vote
  <2>3. CASE \E first \in collectVotes(e, m, "prevote", csRound[e]) :
                 lockOn(e, first.block, csRound[e]) /\ sendVote(e, "precommit", first.block)
             /\ csStep' = [csStep EXCEPT ![e] = "Precommit"]
    <3> PICK first \in collectVotes(e, m, "prevote", csRound[e]) :
            lockOn(e, first.block, csRound[e]) /\ sendVote(e, "precommit", first.block)
      BY Zenon, <2>3
    <3>1. csStep' = [csStep EXCEPT ![e] = "Precommit"]
      BY Zenon, <2>3
    <3> QED BY Zenon, <1>b, <2>1, <2>2, <3>1, SendTypeOK DEF handlePrevote, lockOn, EngineTypeOK
  <2>4. CASE sendVote(e, "precommit", None) /\ UNCHANGED lockVars
             /\ csStep' = [csStep EXCEPT ![e] = "Precommit"]
    BY Zenon, <1>b, <2>1, <2>4, SendTypeOK DEF handlePrevote, EngineTypeOK
  <2>5. CASE UNCHANGED <<csStep, lockVars, netVars>>
    BY Zenon, <1>b, <2>1, <2>5 DEF handlePrevote, EngineTypeOK
  <2> QED
    BY Zenon, <1>b, <2>3, <2>4, <2>5 DEF handlePrevote
<1>c. CASE m.type = "precommit" /\ handlePrecommit(e, m)
  <2>1. batch' \in [Engines -> Seq(Message)]
    BY Zenon, <1>c DEF applyConsensusMessage, EngineTypeOK
  <2>2. \A v \in collectVotes(e, m, "precommit", csRound[e]) :
            v.block # None => v.block \in Block
    <3> SUFFICES ASSUME NEW v \in collectVotes(e, m, "precommit", csRound[e])
                 PROVE  v.block # None => v.block \in Block
      BY Zenon
    <3>1. v \in Message /\ v.type = "precommit"
      BY Zenon DEF collectVotes, messageLog, EngineTypeOK
    <3> QED BY Zenon, <3>1, MessageKinds DEF Vote
  <2>3. csDecision' \in [Engines -> Block \cup {None}]
    BY Zenon, <1>c, <2>2 DEF handlePrecommit, EngineTypeOK
  <2>4. /\ csRound' \in [Engines -> Round]
        /\ csStep' \in [Engines -> Step]
        /\ csTimeout' \in [Engines -> Nat]
    <3>1. CASE startNextRound(e)
      BY <3>1, EngineAssumption DEF startNextRound, EngineTypeOK, Round
    <3>2. CASE UNCHANGED roundVars /\ csStep' = [csStep EXCEPT ![e] = "Commit"]
      BY Zenon, <3>2 DEF EngineTypeOK
    <3>3. CASE UNCHANGED <<roundVars, csStep>>
      BY Zenon, <3>3 DEF EngineTypeOK
    <3> QED BY Zenon, <1>c, <3>1, <3>2, <3>3 DEF handlePrecommit
  <2> QED
    BY Zenon, <1>c, <2>1, <2>3, <2>4 DEF handlePrecommit, EngineTypeOK
<1>d. CASE m.type = "commit" /\ handleCommit(e, m)
  <2>1. m.block \in Block
    BY Zenon, <1>d, MessageKinds DEF Commit
  <2> QED
    BY ZenonT(30), <1>d, <2>1 DEF applyConsensusMessage, handleCommit, EngineTypeOK
<1>e. CASE m.type = "newview" /\ handleNewView(e, m)
  <2>1. m.view \in Round
    BY Zenon, <1>e, MessageKinds DEF NewView
  <2>2. batch' \in [Engines -> Seq(Message)]
    BY Zenon, <1>e DEF applyConsensusMessage, EngineTypeOK
  <2>3. csRound' \in [Engines -> Round] /\ csStep' \in [Engines -> Step]
    BY Zenon, <1>e, <2>1 DEF handleNewView, EngineTypeOK
  <2> QED
    BY Zenon, <1>e, <2>2, <2>3 DEF handleNewView, EngineTypeOK
<1>f. CASE m.type = "viewchange" /\ handleViewChange(e, m, rest)
  <2>1. CASE /\ csRound[e] < MaxRound
             /\ csRound' = [csRound EXCEPT ![e] = @ + 1]
             /\ runConsensusRound(e, csRound[e] + 1, "Propose", rest)
    <3>1. csRound[e] + 1 \in Round /\ "Propose" \in Step
      BY <2>1, EngineAssumption DEF Round, EngineTypeOK
    <3> HIDE DEF Step
    <3>2. /\ csStep' \in [Engines -> Step]
          /\ csProposedBlock' \in [Engines -> Block \cup {None, Undefined}]
          /\ ceMsgQueue' \in [Engines -> Seq(Message)]
          /\ cmBlocksProposed' \in [Engines -> 0 .. MaxProposals]
          /\ batch' \in [Engines -> Seq(Message)]
          /\ sent' \in SUBSET Message
      BY Zenon, <2>1, <3>1, RunTypeOK
    <3> QED BY Zenon, <1>f, <2>1, <3>1, <3>2 DEF handleViewChange, EngineTypeOK
  <2>2. CASE /\ batch' = [batch EXCEPT ![e] = rest]
             /\ UNCHANGED <<csRound, csStep, proposeVars, netVars>>
    BY Zenon, <1>f, <2>2 DEF handleViewChange, EngineTypeOK
  <2> QED BY Zenon, <1>f, <2>1, <2>2 DEF handleViewChange
<1> QED
  BY Zenon, <1>a, <1>b, <1>c, <1>d, <1>e, <1>f DEF applyConsensusMessage

\* The engine keeps messages only.
LEMMA RememberTypeOK ==
    ASSUME received \in [Engines -> SUBSET Message],
           NEW e \in Engines, NEW msgs \in SUBSET Message, remember(e, msgs)
    PROVE  received' \in [Engines -> SUBSET Message]
BY Zenon DEF remember

LEMMA TypeParts == TypeOK <=> EngineTypeOK /\ received \in [Engines -> SUBSET Message]
BY Zenon DEF TypeOK, EngineTypeOK

\* Every action keeps the types.
LEMMA TypeStep ==
    ASSUME TypeOK, [Next]_vars
    PROVE  TypeOK'
<1> USE DEF roundVars, proposeVars, lockVars, netVars
<1>0. EngineTypeOK /\ received \in [Engines -> SUBSET Message]
  BY Zenon, TypeParts
<1>1. CASE UNCHANGED vars
  BY Zenon, <1>1 DEF vars, TypeOK
<1>2. ASSUME NEW e \in Engines, StartConsensus(e) \/ RunConsensusRound(e)
      PROVE  TypeOK'
  <2>1. csRound[e] \in Round /\ csStep[e] \in Step /\ <<>> \in Seq(Message)
    BY DEF TypeOK
  <2>2. runConsensusRound(e, csRound[e], csStep[e], <<>>)
    BY Zenon, <1>2 DEF StartConsensus, RunConsensusRound
  <2>3. /\ csStep' \in [Engines -> Step]
        /\ csProposedBlock' \in [Engines -> Block \cup {None, Undefined}]
        /\ ceMsgQueue' \in [Engines -> Seq(Message)]
        /\ cmBlocksProposed' \in [Engines -> 0 .. MaxProposals]
        /\ batch' \in [Engines -> Seq(Message)]
        /\ sent' \in SUBSET Message
    BY Zenon, <1>0, <2>1, <2>2, RunTypeOK
  <2> QED BY Zenon, <1>2, <2>3 DEF StartConsensus, RunConsensusRound, TypeOK
<1>3. ASSUME NEW e \in Engines, ApplyBatched(e) PROVE TypeOK'
  <2>1. received' \in [Engines -> SUBSET Message]
    BY Zenon, <1>0, <1>3, RememberTypeOK DEF ApplyBatched
  <2>2. batch[e] \in Seq(Message) /\ batch[e] # <<>>
    BY Zenon, <1>3 DEF ApplyBatched, Idle, TypeOK
  <2>3. Head(batch[e]) \in Message /\ Tail(batch[e]) \in Seq(Message)
    BY <2>2
  <2>4. CASE ~isUndefined(Head(batch[e]))
    <3>1. applyConsensusMessage(e, Head(batch[e]), Tail(batch[e]))
      BY Zenon, <1>3, <2>4 DEF ApplyBatched
    <3>2. EngineTypeOK'
      BY Zenon, <1>0, <2>3, <2>4, <3>1, ApplyTypeOK
    <3> QED BY Zenon, <2>1, <3>2 DEF TypeOK, EngineTypeOK
  <2>5. CASE isUndefined(Head(batch[e]))
    <3>1. batch' \in [Engines -> Seq(Message)]
      <4>1. batch' = [batch EXCEPT ![e] = <<>>] /\ <<>> \in Seq(Message)
        BY <1>3, <2>5 DEF ApplyBatched
      <4> QED BY Zenon, <4>1 DEF TypeOK
    <3> QED BY Zenon, <1>3, <2>1, <2>5, <3>1 DEF ApplyBatched, TypeOK
  <2> QED BY Zenon, <2>4, <2>5
<1>4. ASSUME NEW e \in Engines, NEW m \in deliverable(e), Deliver(e, m) PROVE TypeOK'
  <2>1. m \in Message /\ ~isUndefined(m)
    BY Zenon, EngineAssumption, MessageKinds DEF deliverable, isUndefined, TypeOK
  <2>2. received' \in [Engines -> SUBSET Message]
    BY Zenon, <1>0, <1>4, <2>1, RememberTypeOK DEF Deliver
  <2>3. EngineTypeOK'
    <3>1. <<>> \in Seq(Message)
      OBVIOUS
    <3> QED BY Zenon, <1>0, <1>4, <2>1, <3>1, ApplyTypeOK DEF Deliver
  <2> QED BY Zenon, <2>2, <2>3 DEF TypeOK, EngineTypeOK
<1>5. ASSUME NEW e \in Engines, Timeout(e) PROVE TypeOK'
  <2>1. received' \in [Engines -> SUBSET Message]
    BY Zenon, <1>0, <1>5, RememberTypeOK DEF Timeout
  <2>2. /\ csRound' \in [Engines -> Round]
        /\ csStep' \in [Engines -> Step]
        /\ csTimeout' \in [Engines -> Nat]
    BY <1>5, EngineAssumption DEF Timeout, startNextRound, TypeOK, Round, Step
  <2> QED BY Zenon, <1>5, <2>1, <2>2 DEF Timeout, TypeOK
<1>6. ASSUME NEW e \in Engines, TransitionStep(e) PROVE TypeOK'
  <2>1. csStep' \in [Engines -> Step]
    BY Zenon, <1>6, EngineAssumption DEF TransitionStep, TypeOK
  <2> QED BY Zenon, <1>6, <2>1 DEF TransitionStep, TypeOK
<1> QED
  BY Zenon, <1>1, <1>2, <1>3, <1>4, <1>5, <1>6 DEF Next

\* Every state that the engines reach is well typed, for any driver, any
\* messages from outside and any validator set: no handler ever locks on, votes
\* for or decides the undefined block of the shipped proposeBlock.
THEOREM TypeCorrect == Spec => []TypeOK
<1>1. Init => TypeOK
  BY EngineAssumption DEF Init, TypeOK, Round, Step
<1>2. TypeOK /\ [Next]_vars => TypeOK'
  BY Zenon, TypeStep
<1> QED
  BY <1>1, <1>2, PTL DEF Spec

-----------------------------------------------------------------------------
(* Votes and decisions under any driver, whatever the powers *)

LEMMA SeqOfMore ==
    ASSUME NEW S, NEW T, S \subseteq T
    PROVE  Seq(S) \subseteq Seq(T)
OBVIOUS

LEMMA SeqConcat ==
    ASSUME NEW S, NEW s \in Seq(S), NEW t \in Seq(S)
    PROVE  s \o t \in Seq(S)
OBVIOUS

\* What an engine may be handed.
handed == sent \cup DriverMsgs

Queued == \A f \in Engines : ceMsgQueue[f] \in Seq(sent) /\ batch[f] \in Seq(sent)

Kept == \A f \in Engines : received[f] \subseteq handed

inTurn(block) ==
    \E p \in handed : p.type = "proposal" /\ p.block = block /\ p.sender = roundProposer(p.round)

\* A message that a step adds to sent: a prevote takes its block from a proposal
\* of its round, a precommit from a prevote.
Justified(v) ==
    \/ v.type = "proposal"
    \/ /\ v.type = "prevote"
       /\ \E p \in handed : /\ p.type = "proposal" /\ p.round = v.round /\ p.block = v.block
                            /\ p.sender = roundProposer(v.round)
    \/ /\ v.type = "precommit"
       /\ v.block # None => \E w \in handed : w.type = "prevote" /\ w.block = v.block

VotesJustified == sent \subseteq sent' /\ \A v \in sent' : v \in sent \/ Justified(v)

\* A decision that a step makes: the block of a precommit, or that of a commit
\* message, which only an undecided engine in the commit step listens to.
DecisionJustified(f) ==
    \/ csDecision'[f] = csDecision[f]
    \/ PlaceholdersFilled /\ \E w \in handed : w.type = "precommit" /\ w.block = csDecision'[f]
    \/ csDecision[f] = None /\ csStep[f] = "Commit"

StepJustified(f) ==
    csStep'[f] = "Commit" => csStep[f] = "Commit" \/ csDecision'[f] # None \/ "Commit" \in DriverSteps

AnyEffect ==
    /\ VotesJustified
    /\ \A f \in Engines : DecisionJustified(f) /\ StepJustified(f)

\* Nobody is no super-majority, even if the products wrap.
LEMMA EmptyIsNoQuorum == ~superMajority({})
<1>1. /\ viPower \in [ValidatorId -> Nat] /\ {} \in SUBSET ValidatorId /\ IsFiniteSet({})
      /\ {} \cap ValidatorId = {} /\ WordSize \in Nat \ {0} /\ vsTotalPower \in Nat
  BY ValidatorSetAssumption, FS_EmptySet
<1>2. SumFunctionOnSet(viPower, {}) = 0
  BY ONLY <1>1, SumRecursion, Zenon
<1>3. votingPower({}) = 0 % WordSize
  BY <1>1, <1>2, Zenon DEF votingPower
<1>4. 0 % WordSize = 0 /\ (0 * 3) % WordSize = 0 /\ (vsTotalPower * 2) % WordSize \in Nat
  BY <1>1
<1> QED
  BY <1>3, <1>4 DEF superMajority

LEMMA StillQueued ==
    ASSUME Queued, sent \subseteq sent', NEW f \in Engines
    PROVE  ceMsgQueue[f] \in Seq(sent') /\ batch[f] \in Seq(sent')
BY Zenon, SeqOfMore DEF Queued

\* runConsensusRound broadcasts at most a proposal.
LEMMA RunJustified ==
    ASSUME TypeOK, Queued, NEW e \in Engines, NEW r, NEW step, NEW rest \in Seq(sent),
           runConsensusRound(e, r, step, rest)
    PROVE  /\ VotesJustified
           /\ Queued'
           /\ \A f \in Engines : csStep'[f] = csStep[f] \/ (f = e /\ csStep'[f] \in {"Prevote", step})
<1>1. CASE shouldPropose(r, e) /\ proposeBlock(e, r, rest)
  <2> DEFINE p == [type |-> "proposal", round |-> r, block |-> newBlock(e),
                   validRound |-> csValidRound[e], sender |-> e]
  <2>1. /\ sent' = sent \cup {p}
        /\ batch' = [batch EXCEPT ![e] = <<p>> \o ceMsgQueue[e] \o rest]
        /\ ceMsgQueue' = [ceMsgQueue EXCEPT ![e] = <<>>]
        /\ csStep' = [csStep EXCEPT ![e] = "Prevote"]
    BY Zenon, <1>1 DEF proposeBlock
  <2>2. p.type = "proposal"
    BY Zenon
  <2> HIDE DEF p
  <2>3. VotesJustified
    BY Zenon, <2>1, <2>2 DEF VotesJustified, Justified
  <2>4. Queued'
    <3>1. <<p>> \in Seq(sent') /\ ceMsgQueue[e] \in Seq(sent') /\ rest \in Seq(sent')
      BY <2>1, StillQueued, SeqOfMore
    <3>2. <<p>> \o ceMsgQueue[e] \o rest \in Seq(sent')
      BY Zenon, <3>1, SeqConcat
    <3>3. <<>> \in Seq(sent')
      OBVIOUS
    <3>4. \A f \in Engines : ceMsgQueue[f] \in Seq(sent') /\ batch[f] \in Seq(sent')
      BY Zenon, <2>1, StillQueued
    <3> QED BY Zenon, <2>1, <3>2, <3>3, <3>4 DEF Queued, TypeOK
  <2> QED BY Zenon, <2>1, <2>3, <2>4 DEF TypeOK
<1>2. CASE ~shouldPropose(r, e) /\ processMessages(e, step, rest)
  <2>1. /\ batch' = [batch EXCEPT ![e] = ceMsgQueue[e] \o rest]
        /\ ceMsgQueue' = [ceMsgQueue EXCEPT ![e] = <<>>]
        /\ csStep' = [csStep EXCEPT ![e] = step]
        /\ sent' = sent
    BY Zenon, <1>2 DEF processMessages
  <2>2. ceMsgQueue[e] \o rest \in Seq(sent) /\ <<>> \in Seq(sent)
    BY SeqConcat DEF Queued
  <2>3. Queued'
    BY Zenon, <2>1, <2>2 DEF Queued, TypeOK
  <2> QED BY Zenon, <2>1, <2>3 DEF VotesJustified, TypeOK
<1> QED BY Zenon, <1>1, <1>2 DEF runConsensusRound

\* A vote joins the queue of its sender and the messages sent.
LEMMA SendJustified ==
    ASSUME TypeOK, Queued, NEW e \in Engines, NEW type, NEW block, sendVote(e, type, block),
           Justified([type |-> type, round |-> csRound[e], block |-> block, sender |-> e])
    PROVE  VotesJustified /\ \A f \in Engines : ceMsgQueue'[f] \in Seq(sent')
<1> DEFINE v == [type |-> type, round |-> csRound[e], block |-> block, sender |-> e]
<1>1. ceMsgQueue' = [ceMsgQueue EXCEPT ![e] = <<v>> \o @] /\ sent' = sent \cup {v}
  BY Zenon DEF sendVote, broadcastMessage
<1>2. Justified(v)
  BY Zenon
<1> HIDE DEF v
<1>3. <<v>> \in Seq(sent')
  BY <1>1
<1>4. \A f \in Engines : ceMsgQueue[f] \in Seq(sent')
  BY Zenon, <1>1, StillQueued
<1>5. <<v>> \o ceMsgQueue[e] \in Seq(sent')
  BY Zenon, <1>3, <1>4, SeqConcat
<1> QED
  BY Zenon, <1>1, <1>2, <1>4, <1>5 DEF VotesJustified, TypeOK

\* The collectors return messages that the engine was handed, of the phase asked for.
LEMMA CollectedWereHanded ==
    ASSUME Kept, NEW e \in Engines, NEW m \in handed, NEW type, NEW r,
           NEW v \in collectVotes(e, m, type, r)
    PROVE  v \in handed /\ v.type = type /\ PlaceholdersFilled
BY Zenon DEF Kept, handed, collectVotes, messageLog

\* What handling one message does, whatever the message and the powers.
LEMMA ApplyJustified ==
    ASSUME TypeOK, Queued, Kept, NEW e \in Engines, NEW m \in handed,
           NEW rest \in Seq(sent), applyConsensusMessage(e, m, rest)
    PROVE  AnyEffect /\ Queued'
<1> USE DEF roundVars, proposeVars, lockVars, netVars
\* Nothing is sent.
<1>1. ASSUME UNCHANGED netVars, batch' = [batch EXCEPT ![e] = rest]
      PROVE  VotesJustified /\ Queued'
  BY Zenon, <1>1 DEF VotesJustified, Queued, TypeOK
\* A vote is sent.
<1>2. ASSUME NEW type, NEW b, sendVote(e, type, b), batch' = [batch EXCEPT ![e] = rest],
             Justified([type |-> type, round |-> csRound[e], block |-> b, sender |-> e])
      PROVE  VotesJustified /\ Queued'
  <2>1. VotesJustified /\ \A f \in Engines : ceMsgQueue'[f] \in Seq(sent')
    BY ONLY <1>2, TypeOK, Queued, e \in Engines, SendJustified
  <2>2. sent \subseteq sent'
    BY Zenon, <2>1 DEF VotesJustified
  <2>3. rest \in Seq(sent') /\ \A f \in Engines : batch[f] \in Seq(sent')
    BY Zenon, <2>2, SeqOfMore, StillQueued
  <2>4. \A f \in Engines : batch'[f] \in Seq(sent')
    BY Zenon, <1>2, <2>3 DEF TypeOK
  <2> QED BY Zenon, <2>1, <2>4 DEF Queued
\* Decisions are left alone and no engine enters the commit step.
<1>3. ASSUME UNCHANGED csDecision,
             \A f \in Engines : csStep'[f] = csStep[f] \/ csStep'[f] # "Commit"
      PROVE  \A f \in Engines : DecisionJustified(f) /\ StepJustified(f)
  BY Zenon, <1>3 DEF DecisionJustified, StepJustified
<1>a. CASE m.type = "proposal" /\ handleProposal(e, m)
  <2>1. batch' = [batch EXCEPT ![e] = rest]
    BY Zenon, <1>a DEF applyConsensusMessage
  <2>2. CASE /\ acceptsProposal(e, m)
             /\ sendVote(e, "prevote", m.block)
             /\ csStep' = [csStep EXCEPT ![e] = "Prevote"]
             /\ UNCHANGED csDecision
    <3>1. m.round = csRound[e] /\ m.sender = roundProposer(csRound[e])
      BY Zenon, <2>2 DEF acceptsProposal, isRoundProposer, shouldPropose
    <3>2. Justified([type |-> "prevote", round |-> csRound[e], block |-> m.block, sender |-> e])
      BY Zenon, <1>a, <3>1 DEF Justified
    <3>3. VotesJustified /\ Queued'
      BY Zenon, <1>2, <2>1, <2>2, <3>2
    <3> QED BY Zenon, <1>3, <2>2, <3>3 DEF AnyEffect, TypeOK
  <2>3. CASE UNCHANGED <<csStep, csDecision, netVars>>
    BY Zenon, <1>1, <1>3, <2>1, <2>3 DEF AnyEffect
  <2> QED BY Zenon, <1>a, <2>2, <2>3 DEF handleProposal
<1>b. CASE m.type = "prevote" /\ handlePrevote(e, m)
  <2> DEFINE prevotes == collectVotes(e, m, "prevote", csRound[e])
  <2>1. batch' = [batch EXCEPT ![e] = rest] /\ UNCHANGED csDecision
    BY Zenon, <1>b DEF applyConsensusMessage, handlePrevote
  <2>2. \A v \in prevotes : v \in handed /\ v.type = "prevote"
    BY CollectedWereHanded
  <2> HIDE DEF prevotes
  <2>3. CASE /\ \E first \in prevotes : sendVote(e, "precommit", first.block)
             /\ csStep' = [csStep EXCEPT ![e] = "Precommit"]
    <3>1. PICK first \in prevotes : sendVote(e, "precommit", first.block)
      BY Zenon, <2>3
    <3>2. Justified([type |-> "precommit", round |-> csRound[e], block |-> first.block,
                     sender |-> e])
      BY Zenon, <2>2 DEF Justified
    <3>3. VotesJustified /\ Queued'
      BY Zenon, <1>2, <2>1, <3>1, <3>2
    <3> QED BY Zenon, <1>3, <2>1, <2>3, <3>3 DEF AnyEffect, TypeOK
  <2>4. CASE /\ sendVote(e, "precommit", None)
             /\ csStep' = [csStep EXCEPT ![e] = "Precommit"]
    <3>1. Justified([type |-> "precommit", round |-> csRound[e], block |-> None, sender |-> e])
      BY Zenon DEF Justified
    <3>2. VotesJustified /\ Queued'
      BY Zenon, <1>2, <2>1, <2>4, <3>1
    <3> QED BY Zenon, <1>3, <2>1, <2>4, <3>2 DEF AnyEffect, TypeOK
  <2>5. CASE UNCHANGED <<csStep, netVars>>
    BY Zenon, <1>1, <1>3, <2>1, <2>5 DEF AnyEffect
  <2> QED BY Zenon, <1>b, <2>3, <2>4, <2>5 DEF handlePrevote, prevotes
<1>c. CASE m.type = "precommit" /\ handlePrecommit(e, m)
  <2> DEFINE precommits == collectVotes(e, m, "precommit", csRound[e])
  <2>1. batch' = [batch EXCEPT ![e] = rest] /\ UNCHANGED netVars
    BY Zenon, <1>c DEF applyConsensusMessage, handlePrecommit
  <2>2. \A v \in precommits : v \in handed /\ v.type = "precommit" /\ PlaceholdersFilled
    BY Zenon, CollectedWereHanded
  <2> HIDE DEF precommits
  <2>3. CASE /\ \E first \in precommits :
                   /\ first.block # None
                   /\ csDecision' = [csDecision EXCEPT ![e] = first.block]
             /\ csStep' = [csStep EXCEPT ![e] = "Commit"]
    <3>1. PICK first \in precommits :
              first.block # None /\ csDecision' = [csDecision EXCEPT ![e] = first.block]
      BY Zenon, <2>3
    <3>2. csDecision'[e] = first.block /\ first.block # None
      BY Zenon, <3>1 DEF TypeOK
    <3>3. DecisionJustified(e) /\ StepJustified(e)
      BY Zenon, <2>2, <3>2 DEF DecisionJustified, StepJustified
    <3>4. \A f \in Engines \ {e} : DecisionJustified(f) /\ StepJustified(f)
      BY Zenon, <2>3, <3>1 DEF DecisionJustified, StepJustified, TypeOK
    <3> QED BY Zenon, <1>1, <2>1, <3>3, <3>4 DEF AnyEffect
  <2>4. CASE csStep' = [csStep EXCEPT ![e] = "Propose"] /\ UNCHANGED csDecision
    BY Zenon, <1>1, <1>3, <2>1, <2>4 DEF AnyEffect, TypeOK
  <2>5. CASE UNCHANGED <<csStep, csDecision>>
    BY Zenon, <1>1, <1>3, <2>1, <2>5 DEF AnyEffect
  <2> QED BY Zenon, <1>c, <2>3, <2>4, <2>5 DEF handlePrecommit, startNextRound, precommits
<1>d. CASE m.type = "commit" /\ handleCommit(e, m)
  <2>1. batch' = [batch EXCEPT ![e] = rest] /\ UNCHANGED <<csStep, netVars>>
    BY Zenon, <1>d DEF applyConsensusMessage, handleCommit
  <2>2. \A f \in Engines : DecisionJustified(f)
    BY Zenon, <1>d DEF handleCommit, DecisionJustified, TypeOK
  <2>3. \A f \in Engines : StepJustified(f)
    BY Zenon, <2>1 DEF StepJustified
  <2> QED BY Zenon, <1>1, <2>1, <2>2, <2>3 DEF AnyEffect
<1>e. CASE m.type = "newview" /\ handleNewView(e, m)
  <2>1. /\ batch' = [batch EXCEPT ![e] = rest] /\ UNCHANGED <<csDecision, netVars>>
        /\ csStep' = [csStep EXCEPT ![e] = "Propose"]
    BY Zenon, <1>e DEF applyConsensusMessage, handleNewView
  <2> QED BY Zenon, <1>1, <1>3, <2>1 DEF AnyEffect, TypeOK
<1>f. CASE m.type = "viewchange" /\ handleViewChange(e, m, rest)
  <2>1. UNCHANGED csDecision
    BY <1>f, Zenon DEF handleViewChange
  <2>2. CASE runConsensusRound(e, csRound[e] + 1, "Propose", rest)
    <3>1. ASSUME NEW r, r = csRound[e] + 1
          PROVE  /\ VotesJustified
                 /\ Queued'
                 /\ \A f \in Engines : csStep'[f] = csStep[f]
                       \/ (f = e /\ csStep'[f] \in {"Prevote", "Propose"})
      BY <2>2, <3>1, RunJustified, ZenonT(30)
    <3> QED BY Zenon, <1>3, <2>1, <3>1 DEF AnyEffect
  <2>3. CASE batch' = [batch EXCEPT ![e] = rest] /\ UNCHANGED <<csStep, netVars>>
    BY Zenon, <1>1, <1>3, <2>1, <2>3 DEF AnyEffect
  <2> QED BY Zenon, <1>f, <2>2, <2>3 DEF handleViewChange
<1> QED
  BY Zenon, <1>a, <1>b, <1>c, <1>d, <1>e, <1>f DEF applyConsensusMessage

LEMMA KeptStep ==
    ASSUME TypeOK, Kept, sent \subseteq sent', NEW e \in Engines,
           NEW msgs \in SUBSET handed, remember(e, msgs)
    PROVE  Kept'
BY Zenon DEF remember, Kept, handed, TypeOK

\* Every action, under any driver.
LEMMA NextJustified ==
    ASSUME TypeOK, Queued, Kept, [Next]_vars
    PROVE  AnyEffect /\ Queued' /\ Kept'
<1> USE DEF roundVars, proposeVars, lockVars, netVars
<1>1. ASSUME UNCHANGED csDecision,
             \A f \in Engines : csStep'[f] = csStep[f] \/ csStep'[f] # "Commit"
      PROVE  \A f \in Engines : DecisionJustified(f) /\ StepJustified(f)
  BY Zenon, <1>1 DEF DecisionJustified, StepJustified
<1>2. ASSUME UNCHANGED <<netVars, batch>>
      PROVE  VotesJustified /\ Queued'
  BY Zenon, <1>2 DEF VotesJustified, Queued
<1>3. ASSUME NEW e \in Engines, StartConsensus(e) \/ RunConsensusRound(e)
      PROVE  AnyEffect /\ Queued' /\ Kept'
  <2>1. /\ UNCHANGED <<csDecision, received>>
        /\ runConsensusRound(e, csRound[e], csStep[e], <<>>)
    BY <1>3, Zenon DEF StartConsensus, RunConsensusRound
  <2>2. <<>> \in Seq(sent)
    OBVIOUS
  <2>3. ASSUME NEW r, r = csRound[e], NEW step, step = csStep[e]
        PROVE  /\ VotesJustified
               /\ Queued'
               /\ \A f \in Engines : csStep'[f] = csStep[f]
                     \/ (f = e /\ csStep'[f] \in {"Prevote", step})
    BY <2>1, <2>2, <2>3, RunJustified, Zenon
  <2>4. Kept'
    BY Zenon, <2>1, <2>3 DEF Kept, handed, VotesJustified
  <2> QED BY Zenon, <1>1, <2>1, <2>3, <2>4 DEF AnyEffect
<1>4. ASSUME NEW e \in Engines, ApplyBatched(e)
      PROVE  AnyEffect /\ Queued' /\ Kept'
  <2>1. batch[e] \in Seq(sent) /\ batch[e] # <<>>
    BY Zenon, <1>4 DEF ApplyBatched, Idle, Queued
  <2>2. Head(batch[e]) \in handed /\ Tail(batch[e]) \in Seq(sent)
    BY <2>1 DEF handed
  <2>3. ASSUME applyConsensusMessage(e, Head(batch[e]), Tail(batch[e]))
        PROVE  AnyEffect /\ Queued'
    BY Zenon, <2>2, <2>3, ApplyJustified
  <2>4. ASSUME batch' = [batch EXCEPT ![e] = <<>>], UNCHANGED <<csStep, csDecision, netVars>>
        PROVE  AnyEffect /\ Queued'
    <3>1. <<>> \in Seq(sent)
      OBVIOUS
    <3>2. Queued'
      BY Zenon, <2>4, <3>1 DEF Queued, TypeOK
    <3>3. VotesJustified
      BY Zenon, <2>4 DEF VotesJustified
    <3> QED BY Zenon, <1>1, <2>4, <3>2, <3>3 DEF AnyEffect
  <2>5. AnyEffect /\ Queued'
    BY Zenon, <1>4, <2>3, <2>4 DEF ApplyBatched
  <2>6. remember(e, {}) /\ {} \in SUBSET handed
    BY Zenon, <1>4 DEF ApplyBatched
  <2>7. Kept'
    BY Zenon, <2>5, <2>6, KeptStep DEF AnyEffect, VotesJustified
  <2> QED BY Zenon, <2>5, <2>7
<1>5. ASSUME NEW e \in Engines, NEW m \in deliverable(e), Deliver(e, m)
      PROVE  AnyEffect /\ Queued' /\ Kept'
  <2>1. m \in handed /\ {m} \in SUBSET handed /\ <<>> \in Seq(sent)
    BY DEF deliverable, handed
  <2>2. AnyEffect /\ Queued'
    BY <1>5, <2>1, ApplyJustified, Zenon DEF Deliver
  <2>3. Kept'
    BY Zenon, <1>5, <2>1, <2>2, KeptStep DEF Deliver, AnyEffect, VotesJustified
  <2> QED BY Zenon, <2>2, <2>3
<1>6. ASSUME NEW e \in Engines, Timeout(e)
      PROVE  AnyEffect /\ Queued' /\ Kept'
  <2>1. /\ csStep' = [csStep EXCEPT ![e] = "Propose"]
        /\ UNCHANGED <<csDecision, netVars, batch>>
        /\ remember(e, {}) /\ {} \in SUBSET handed
    BY Zenon, <1>6 DEF Timeout, startNextRound
  <2>2. Kept'
    BY Zenon, <2>1, KeptStep
  <2> QED BY Zenon, <1>1, <1>2, <2>1, <2>2 DEF AnyEffect, TypeOK
<1>7. ASSUME NEW e \in Engines, TransitionStep(e)
      PROVE  AnyEffect /\ Queued' /\ Kept'
  <2>1. PICK s \in DriverSteps : csStep' = [csStep EXCEPT ![e] = s]
    BY Zenon, <1>7 DEF TransitionStep
  <2>2. UNCHANGED <<csDecision, netVars, batch, received>>
    BY Zenon, <1>7 DEF TransitionStep
  <2>3. \A f \in Engines : DecisionJustified(f) /\ StepJustified(f)
    BY Zenon, <2>1, <2>2 DEF DecisionJustified, StepJustified, TypeOK
  <2> QED BY Zenon, <1>2, <2>2, <2>3 DEF AnyEffect, Kept, handed
<1>8. CASE UNCHANGED vars
  <2>1. UNCHANGED <<csStep, csDecision, netVars, batch, received>>
    BY Zenon, <1>8 DEF vars
  <2> QED BY Zenon, <1>1, <1>2, <2>1 DEF AnyEffect, Kept, handed
<1> QED
  BY Zenon, <1>3, <1>4, <1>5, <1>6, <1>7, <1>8 DEF Next

\* No call takes a decision back.
LEMMA StillDecided ==
    ASSUME TypeOK, [Next]_vars, NEW e \in Engines, csDecision[e] # None
    PROVE  csDecision'[e] # None
<1>1. ASSUME NEW f \in Engines, NEW m \in Message, NEW rest,
             applyConsensusMessage(f, m, rest)
      PROVE  csDecision'[e] # None
  <2>1. CASE m.type = "precommit" /\ handlePrecommit(f, m)
    BY Zenon, <2>1 DEF handlePrecommit, TypeOK
  <2>2. CASE m.type = "commit" /\ handleCommit(f, m)
    <3>1. m.block # None
      BY Zenon, <2>2, EngineAssumption, MessageKinds DEF Commit
    <3> QED BY Zenon, <2>2, <3>1 DEF handleCommit, TypeOK
  <2>3. CASE UNCHANGED csDecision
    BY Zenon, <2>3
  <2> QED
    BY ZenonT(30), <1>1, <2>1, <2>2, <2>3
       DEF applyConsensusMessage, handleProposal, handlePrevote, handleNewView, handleViewChange
<1>2. ASSUME NEW f \in Engines, ApplyBatched(f) PROVE csDecision'[e] # None
  <2>1. batch[f] \in Seq(Message) /\ batch[f] # <<>>
    BY Zenon, <1>2 DEF ApplyBatched, Idle, TypeOK
  <2>2. Head(batch[f]) \in Message
    BY <2>1
  <2> QED BY Zenon, <1>1, <1>2, <2>2 DEF ApplyBatched
<1>3. ASSUME NEW f \in Engines, NEW m \in deliverable(f), Deliver(f, m)
      PROVE  csDecision'[e] # None
  BY ZenonT(30), <1>1, <1>3, EngineAssumption DEF Deliver, deliverable, TypeOK
<1> QED
  BY ZenonT(30), <1>2, <1>3 DEF Next, vars, StartConsensus, RunConsensusRound, Timeout, TransitionStep

-----------------------------------------------------------------------------
(* Theorems for any driver *)

HandledInv == TypeOK /\ Queued /\ Kept

\* Messages come from the engines or from the driver, for any driver.
LEMMA HandledInvariant == Spec => []HandledInv
<1>1. Init => HandledInv
  <2> SUFFICES ASSUME Init PROVE HandledInv
    BY Zenon
  <2>1. TypeOK
    BY EngineAssumption DEF Init, TypeOK, Round, Step
  <2>2. <<>> \in Seq(sent)
    OBVIOUS
  <2>3. Queued /\ Kept
    BY Zenon, <2>2 DEF Init, Queued, Kept
  <2> QED BY Zenon, <2>1, <2>3 DEF HandledInv
<1>2. HandledInv /\ [Next]_vars => HandledInv'
  BY Zenon, TypeStep, NextJustified DEF HandledInv
<1> QED
  BY <1>1, <1>2, PTL DEF Spec

\* An engine prevotes only blocks that the proposer of that round proposed in
\* that round: for any driver, any powers, and the shipped placeholders too.
THEOREM PrevoteFollowsProposalHolds == Spec => []PrevoteFollowsProposal
<1>1. Init => PrevoteFollowsProposal
  BY Zenon DEF Init, PrevoteFollowsProposal
<1>2. HandledInv /\ PrevoteFollowsProposal /\ [Next]_vars => PrevoteFollowsProposal'
  <2> SUFFICES ASSUME HandledInv, PrevoteFollowsProposal, [Next]_vars,
                      NEW v \in sent', v.type = "prevote"
               PROVE  \E p \in sent' \cup DriverMsgs :
                          /\ p.type = "proposal" /\ p.round = v.round /\ p.block = v.block
                          /\ p.sender = roundProposer(v.round)
    BY Zenon DEF PrevoteFollowsProposal
  <2>1. VotesJustified
    BY Zenon, NextJustified DEF HandledInv, AnyEffect
  <2>2. \E p \in handed : /\ p.type = "proposal" /\ p.round = v.round /\ p.block = v.block
                          /\ p.sender = roundProposer(v.round)
    BY Zenon, <2>1 DEF VotesJustified, Justified, PrevoteFollowsProposal, handed
  <2> QED BY Zenon, <2>1, <2>2 DEF VotesJustified, handed
<1> QED
  BY <1>1, <1>2, HandledInvariant, PTL DEF Spec

\* As shipped, with placeholders that collect no votes, a decision is made once,
\* from a commit message, and no later call changes it: whatever the driver
\* sends, whatever step it forces.
THEOREM ShippedDecisionIsFinal ==
    ASSUME ~PlaceholdersFilled
    PROVE  Spec => DecisionFinal
<1>1. HandledInv /\ [Next]_vars =>
          [\A e \in Engines : csDecision[e] # None => csDecision'[e] = csDecision[e]]_vars
  BY Zenon, NextJustified DEF HandledInv, AnyEffect, DecisionJustified
<1> QED
  BY <1>1, HandledInvariant, PTL DEF Spec, DecisionFinal

\* A precommit for a block, and a decision, name a block proposed in turn.
ProposedInv ==
    /\ \A v \in sent : v.type = "precommit" /\ v.block # None => inTurn(v.block)
    /\ \A e \in Engines : /\ csStep[e] = "Commit" => csDecision[e] # None
                          /\ csDecision[e] # None => inTurn(csDecision[e])

LEMMA InTurnStays ==
    ASSUME NEW b, sent \subseteq sent', inTurn(b)
    PROVE  inTurn(b)'
BY Zenon DEF inTurn, handed

\* A decided block was proposed by the proposer of some round, whatever the
\* powers (the products of isSuperMajority may wrap), whatever proposals, commits,
\* changes of view and nil votes the driver hands over.
THEOREM DecisionProposedHolds ==
    ASSUME OutsidersNil
    PROVE  Spec => []DecisionProposed
<1>1. Init => ProposedInv
  <2> SUFFICES ASSUME Init PROVE ProposedInv
    BY Zenon
  <2> QED BY Zenon DEF Init, ProposedInv
<1>2. HandledInv /\ PrevoteFollowsProposal /\ ProposedInv /\ [Next]_vars => ProposedInv'
  <2> SUFFICES ASSUME HandledInv, PrevoteFollowsProposal, ProposedInv, [Next]_vars
               PROVE  ProposedInv'
    BY Zenon
  <2>1. AnyEffect
    BY Zenon, NextJustified DEF HandledInv
  <2>2. sent \subseteq sent' /\ \A v \in sent' : v \in sent \/ Justified(v)
    BY Zenon, <2>1 DEF AnyEffect, VotesJustified
  <2>3. \A w \in handed : w.type \in {"prevote", "precommit"} /\ w.block # None => inTurn(w.block)
    <3> SUFFICES ASSUME NEW w \in handed, w.type \in {"prevote", "precommit"}, w.block # None
                 PROVE  inTurn(w.block)
      BY Zenon
    <3>1. w \in sent
      BY Zenon DEF handed, OutsidersNil
    <3>2. CASE w.type = "precommit"
      BY Zenon, <3>1, <3>2 DEF ProposedInv
    <3>3. CASE w.type = "prevote"
      BY Zenon, <3>1, <3>3 DEF PrevoteFollowsProposal, inTurn, handed
    <3> QED BY Zenon, <3>2, <3>3
  <2>4. ASSUME NEW v \in sent', v.type = "precommit", v.block # None
        PROVE  inTurn(v.block)'
    <3>1. inTurn(v.block)
      BY Zenon, <2>2, <2>3, <2>4 DEF Justified, handed
    <3>2. \A b : inTurn(b) => inTurn(b)'
      BY Zenon, <2>2, InTurnStays
    <3> QED BY Zenon, <3>1, <3>2
  <2>5. ASSUME NEW e \in Engines, csDecision'[e] # None
        PROVE  inTurn(csDecision[e])'
    <3>1. csDecision[e] = None => csStep[e] # "Commit"
      BY Zenon DEF ProposedInv
    <3>2. ASSUME NEW d, d = csDecision'[e]
          PROVE  inTurn(d)'
      <4>1. inTurn(d)
        BY Zenon, <2>1, <2>3, <2>5, <3>1, <3>2 DEF AnyEffect, DecisionJustified, ProposedInv
      <4> QED BY Zenon, <2>2, <4>1, InTurnStays
    <3> QED BY Zenon, <3>2
  <2>6. ASSUME NEW e \in Engines, csStep'[e] = "Commit"
        PROVE  csDecision'[e] # None
    <3>1. csStep[e] = "Commit" => csDecision[e] # None
      BY Zenon DEF ProposedInv
    <3>2. csDecision[e] # None => csDecision'[e] # None
      BY Zenon, StillDecided DEF HandledInv
    <3> QED BY Zenon, <2>1, <2>6, <3>1, <3>2 DEF AnyEffect, StepJustified, OutsidersNil
  <2> QED BY Zenon, <2>4, <2>5, <2>6 DEF ProposedInv
<1>3. ProposedInv => DecisionProposed
  BY Zenon DEF ProposedInv, DecisionProposed, inTurn, handed
<1> QED
  BY <1>1, <1>2, <1>3, HandledInvariant, PrevoteFollowsProposalHolds, PTL DEF Spec

-----------------------------------------------------------------------------
(* Voting steps and quorums *)

proposalOf(e, r) ==
    [type |-> "proposal", round |-> r, block |-> <<e, cmBlocksProposed[e] + 1>>,
     validRound |-> csValidRound[e], sender |-> e]
voteOf(type, e, b) ==
    [type |-> type, round |-> csRound[e], block |-> b, sender |-> e]

RoundsGrow == \A f \in Engines : csRound[f] =< csRound'[f]

Silent == RoundsGrow /\ UNCHANGED <<sent, cmBlocksProposed, lockVars>>

Proposes(e) ==
    /\ RoundsGrow
    /\ shouldPropose(csRound'[e], e)
    /\ ~hasProposed(e, csRound'[e])
    /\ cmBlocksProposed[e] < MaxProposals
    /\ sent' = sent \cup {proposalOf(e, csRound'[e])}
    /\ cmBlocksProposed' = [cmBlocksProposed EXCEPT ![e] = @ + 1]
    /\ UNCHANGED lockVars

Prevotes(e) ==
    \E m \in sent :
        /\ m.type = "proposal"
        /\ acceptsProposal(e, m)
        /\ sent' = sent \cup {voteOf("prevote", e, m.block)}
        /\ UNCHANGED <<csRound, cmBlocksProposed, lockVars>>

Precommits(e) ==
    \E b \in Block :
        /\ polka(csRound[e], b)
        /\ lockOn(e, b, csRound[e])
        /\ sent' = sent \cup {voteOf("precommit", e, b)}
        /\ UNCHANGED <<csRound, cmBlocksProposed>>

VotingStep ==
    Silent \/ \E e \in Engines : Proposes(e) \/ Prevotes(e) \/ Precommits(e)

VotingInv ==
    /\ TypeOK
    /\ \A m \in sent : /\ m.sender \in Engines
                       /\ m.type \in {"proposal", "prevote", "precommit"}
    /\ ProposalInv
    /\ UniqueProposal
    /\ PrevoteInv
    /\ PrecommitInv
    /\ LockInv
    /\ ReleaseInv

-----------------------------------------------------------------------------
(* Facts about quorums of votes *)

LEMMA ValidatorsFinite == IsFiniteSet(ValidatorId)
<1>1. vsValidators \in Surjection(1 .. Len(vsValidators), ValidatorId)
  BY ValidatorSetAssumption DEF ValidatorId, Surjection
<1>2. IsFiniteSet(1 .. Len(vsValidators))
  <2>1. 1 \in Int /\ Len(vsValidators) \in Int
    BY ValidatorSetAssumption
  <2> QED
    BY Zenon, <2>1, FS_Interval
<1> QED
  BY Zenon, <1>1, <1>2, FS_Surjection

\* Any two super-majorities share a validator.
LEMMA QuorumIntersection ==
    ASSUME FaultFree, NEW P, NEW Q, superMajority(P), superMajority(Q)
    PROVE  P \cap Q # {}
<1> DEFINE sum(S) == SumFunctionOnSet(viPower, S)
           A == P \cap ValidatorId
           B == Q \cap ValidatorId
<1>1. /\ viPower \in [ValidatorId -> Nat] /\ WordSize \in Nat
      /\ vsTotalPower \in Nat /\ vsTotalPower < WordSize
      /\ vsTotalPower = sum(ValidatorId) /\ sum(ValidatorId) * 3 < WordSize
  BY ValidatorSetAssumption DEF FaultFree, PowersSummed
<1>2. vsTotalPower = sum(ValidatorId) % WordSize
  <2> HIDE DEF sum
  <2> QED BY Zenon, <1>1, SmallRemainder
<1>3. ASSUME NEW S, superMajority(S)
      PROVE  sum(S \cap ValidatorId) * 3 > sum(ValidatorId) * 2
  <2>1. ((sum(S \cap ValidatorId) % WordSize) * 3) % WordSize
            > ((sum(ValidatorId) % WordSize) * 2) % WordSize
    BY <1>2, <1>3, Zenon DEF superMajority, votingPower
  <2>2. S \cap ValidatorId \in SUBSET ValidatorId
    BY Zenon
  <2> QED
    BY Zenon, <1>1, <2>1, <2>2, ValidatorsFinite, WordMajority
<1>4. sum(A) * 3 > sum(ValidatorId) * 2 /\ sum(B) * 3 > sum(ValidatorId) * 2
  BY Zenon, <1>3
<1>5. A \in SUBSET ValidatorId /\ B \in SUBSET ValidatorId
  BY Zenon
<1>6. sum(A \cap B) > 0
  BY Zenon, <1>1, <1>4, <1>5, ValidatorsFinite, ThirdsOverlap
<1>7. sum({}) = 0
  <2>1. viPower \in [ValidatorId -> Nat] /\ {} \in SUBSET ValidatorId /\ IsFiniteSet({})
    BY Zenon, <1>1, FS_EmptySet
  <2> QED
    BY ONLY <2>1, SumRecursion, Zenon
<1>8. A \cap B # {}
  BY <1>6, <1>7
<1> QED
  BY Zenon, <1>8

\* Only engines vote.
LEMMA VoterVoted ==
    ASSUME FaultFree, NEW type \in {"prevote", "precommit"}, NEW r, NEW b, NEW e
    PROVE  e \in voters(type, r, b) <=>
             \E v \in sent : v.type = type /\ v.round = r /\ v.block = b /\ v.sender = e
BY Zenon DEF FaultFree, voters, senders

LEMMA VotersAreEngines ==
    ASSUME FaultFree, VotingInv, NEW type \in {"prevote", "precommit"}, NEW r, NEW b
    PROVE  voters(type, r, b) \subseteq Engines
BY VoterVoted DEF VotingInv

\* A quorum of votes is never lost.
LEMMA QuorumStays ==
    ASSUME sent \subseteq sent', NEW type, NEW r, NEW b, quorumOf(type, r, b)
    PROVE  quorumOf(type, r, b)'
<1>1. voters(type, r, b) \subseteq voters(type, r, b)'
  BY Zenon DEF voters, senders
<1> QED BY Zenon, <1>1 DEF quorumOf

LEMMA PolkaStays ==
    ASSUME sent \subseteq sent', NEW r, NEW b, polka(r, b)
    PROVE  polka(r, b)'
BY Zenon, QuorumStays DEF polka

\* A block with a polka was proposed in that round.
LEMMA PolkaProposed ==
    ASSUME FaultFree, VotingInv, NEW r, NEW b, polka(r, b)
    PROVE  \E p \in sent : p.type = "proposal" /\ p.round = r /\ p.block = b
<1>1. PICK Q \in SUBSET voters("prevote", r, b) : superMajority(Q)
  BY Zenon DEF polka, quorumOf
<1>2. PICK e \in Q : TRUE
  BY Zenon, <1>1, EmptyIsNoQuorum
<1>3. PICK v \in sent : v.type = "prevote" /\ v.round = r /\ v.block = b
  BY <1>1, <1>2, VoterVoted
<1> QED BY Zenon, <1>3 DEF VotingInv, PrevoteInv

LEMMA PolkaTyped ==
    ASSUME FaultFree, VotingInv, NEW r, NEW b, polka(r, b)
    PROVE  r \in Round /\ b \in Block
<1>1. PICK p \in sent : p.type = "proposal" /\ p.round = r /\ p.block = b
  BY PolkaProposed
<1>2. p \in Proposal /\ p.block \in Block
  BY Zenon, <1>1, MessageKinds DEF VotingInv, TypeOK, ProposalInv
<1> QED BY Zenon, <1>1, <1>2 DEF Proposal

\* A round has a polka for one block only.
LEMMA PolkaUnique ==
    ASSUME FaultFree, VotingInv, NEW r, NEW b, NEW c, polka(r, b), polka(r, c)
    PROVE  b = c
<1>1. PICK p \in sent : p.type = "proposal" /\ p.round = r /\ p.block = b
  BY PolkaProposed
<1>2. PICK q \in sent : q.type = "proposal" /\ q.round = r /\ q.block = c
  BY PolkaProposed
<1> QED BY Zenon, <1>1, <1>2 DEF VotingInv, UniqueProposal

-----------------------------------------------------------------------------
(* A voting step preserves the voting invariant *)

\* The domains the arithmetic below relies on.
LEMMA VotingTypes ==
    ASSUME VotingInv
    PROVE  /\ Round \subseteq Nat
           /\ \A e \in Engines : csRound[e] \in Round
           /\ \A e \in Engines : csLockedRound[e] # None => csLockedRound[e] \in Round
           /\ \A e \in Engines : cmBlocksProposed[e] \in Nat
           /\ \A m \in sent : m.round \in Round
           /\ \A m \in sent : m.type = "proposal" /\ m.validRound # None => m.validRound \in Round
<1>1. \A m \in sent : m \in Proposal \cup Vote
  BY Zenon, MessageKinds DEF VotingInv, TypeOK
<1>2. \A m \in sent : m.round \in Round
  BY Zenon, <1>1 DEF Proposal, Vote
<1>3. \A m \in sent : m.type = "proposal" /\ m.validRound # None => m.validRound \in Round
  BY Zenon, <1>1 DEF Proposal, Vote
<1>4. Round \subseteq Nat
  BY EngineAssumption DEF Round
<1>5. \A e \in Engines : /\ csRound[e] \in Round
                         /\ csLockedRound[e] # None => csLockedRound[e] \in Round
                         /\ cmBlocksProposed[e] \in Nat
  BY EngineAssumption DEF VotingInv, TypeOK
<1> QED
  BY Zenon, <1>2, <1>3, <1>4, <1>5

\* What holds of old messages, whoever advances a round and whatever is added.
LEMMA OldProposals ==
    ASSUME VotingInv, TypeOK', RoundsGrow, sent \subseteq sent',
           \A e \in Engines : cmBlocksProposed[e] =< cmBlocksProposed'[e],
           NEW p \in sent, p.type = "proposal"
    PROVE  /\ p.sender = roundProposer(p.round)
           /\ p.round =< csRound'[p.sender]
           /\ p.block \in Block
           /\ p.block[1] = p.sender
           /\ p.block[2] =< cmBlocksProposed'[p.sender]
           /\ p.validRound # None =>
                 /\ p.validRound < p.round
                 /\ \E b \in Block : polka(p.validRound, b)'
<1>1. p.sender \in Engines /\ p.round \in Nat
  BY Zenon, VotingTypes DEF VotingInv
<1>2. /\ csRound[p.sender] \in Nat
      /\ csRound'[p.sender] \in Nat
      /\ cmBlocksProposed[p.sender] \in Nat
      /\ cmBlocksProposed'[p.sender] \in Nat
  BY <1>1, VotingTypes DEF TypeOK, Round
<1>3. p.round =< csRound'[p.sender]
  BY <1>1, <1>2 DEF VotingInv, ProposalInv, RoundsGrow
<1>4. p.block \in Block /\ p.block[2] =< cmBlocksProposed'[p.sender]
  <2>1. p.block \in Block /\ p.block[2] =< cmBlocksProposed[p.sender]
    BY Zenon DEF VotingInv, ProposalInv
  <2>2. p.block[2] \in Nat
    BY <2>1, EngineAssumption DEF Block
  <2>3. cmBlocksProposed[p.sender] =< cmBlocksProposed'[p.sender]
    BY Zenon, <1>1
  <2> QED BY <1>2, <2>1, <2>2, <2>3
<1>5. p.validRound # None => \E b \in Block : polka(p.validRound, b)'
  BY Zenon, PolkaStays DEF VotingInv, ProposalInv
<1> QED
  BY Zenon, <1>3, <1>4, <1>5 DEF VotingInv, ProposalInv

LEMMA OldPrevotes ==
    ASSUME VotingInv, TypeOK', RoundsGrow, sent \subseteq sent',
           NEW v \in sent, v.type = "prevote"
    PROVE  /\ v.round =< csRound'[v.sender]
           /\ \E p \in sent' : p.type = "proposal" /\ p.round = v.round /\ p.block = v.block
<1>1. v.sender \in Engines /\ v.round \in Nat
  BY Zenon, VotingTypes DEF VotingInv
<1>2. csRound[v.sender] \in Nat /\ csRound'[v.sender] \in Nat
  BY Zenon, <1>1, VotingTypes DEF TypeOK, Round
<1>3. v.round =< csRound'[v.sender]
  BY <1>1, <1>2 DEF VotingInv, PrevoteInv, RoundsGrow
<1> QED
  BY Zenon, <1>3 DEF VotingInv, PrevoteInv

LEMMA OldPrecommits ==
    ASSUME VotingInv, TypeOK', RoundsGrow, sent \subseteq sent',
           NEW v \in sent, v.type = "precommit"
    PROVE  v.round =< csRound'[v.sender] /\ polka(v.round, v.block)'
<1>1. v.sender \in Engines /\ v.round \in Nat
  BY Zenon, VotingTypes DEF VotingInv
<1>2. csRound[v.sender] \in Nat /\ csRound'[v.sender] \in Nat
  BY Zenon, <1>1, VotingTypes DEF TypeOK, Round
<1>3. v.round =< csRound'[v.sender]
  BY <1>1, <1>2 DEF VotingInv, PrecommitInv, RoundsGrow
<1> QED
  BY Zenon, <1>3, PolkaStays DEF VotingInv, PrecommitInv

\* The lock of an engine that takes no new one keeps its backing.
LEMMA OldLocks ==
    ASSUME VotingInv, TypeOK', RoundsGrow, sent \subseteq sent', UNCHANGED lockVars
    PROVE  LockInv'
<1> SUFFICES ASSUME NEW e \in Engines, NEW r, NEW b,
                    r = csLockedRound[e], b = csLockedBlock[e]
             PROVE  /\ csValidRound'[e] = r
                    /\ r = None => b = None
                    /\ r # None => r =< csRound'[e] /\ b \in Block /\ polka(r, b)'
  BY Zenon DEF LockInv, lockVars
<1>1. csRound[e] \in Nat /\ csRound'[e] \in Nat
  BY Zenon, VotingTypes DEF TypeOK, Round
<1>2. r # None => r \in Nat
  BY Zenon, VotingTypes
<1>3. r # None => r =< csRound'[e]
  BY <1>1, <1>2 DEF VotingInv, LockInv, RoundsGrow
<1>4. r # None => b \in Block /\ polka(r, b)
  BY Zenon DEF VotingInv, LockInv
<1> QED
  BY Zenon, <1>3, <1>4, PolkaStays DEF VotingInv, LockInv, lockVars

LEMMA VotesStay ==
    ASSUME sent \subseteq sent', NEW type, NEW e, NEW r, hasVoted(type, e, r)
    PROVE  hasVoted(type, e, r)'
BY Zenon DEF hasVoted

\* ReleaseInv survives a step after which nobody precommits in a round they had
\* left, and whose new votes are covered by a release.
LEMMA ReleaseKept ==
    ASSUME VotingInv, sent \subseteq sent',
           \A f \in Engines : \A r, k \in Round :
               r < k /\ hasVoted("prevote", f, k) /\ hasVoted("precommit", f, r)' =>
                   hasVoted("precommit", f, r),
           \A f \in Engines : \A r, k \in Round :
               r < k /\ hasVoted("prevote", f, k)' /\ hasVoted("precommit", f, r)' =>
                   hasVoted("prevote", f, k) \/ released(r, k)
    PROVE  ReleaseInv'
<1> SUFFICES ASSUME NEW f \in Engines, NEW r \in Round, NEW k \in Round, r < k,
                    hasVoted("precommit", f, r)', hasVoted("prevote", f, k)'
             PROVE  released(r, k)'
  BY Zenon DEF ReleaseInv
<1>1. released(r, k)
  BY Zenon DEF VotingInv, ReleaseInv
<1>2. CASE \E j \in Round, b \in Block : r < j /\ j < k /\ polka(j, b)
  <2> PICK j \in Round, b \in Block : r < j /\ j < k /\ polka(j, b)
    BY Zenon, <1>2
  <2>1. polka(j, b)'
    BY Zenon, PolkaStays
  <2> QED BY Zenon, <2>1 DEF released
<1>3. CASE \E Q \in SUBSET Engines :
              /\ superMajority(Q)
              /\ \A e \in Q : hasVoted("prevote", e, k) /\ ~hasVoted("precommit", e, r)
  <2> PICK Q \in SUBSET Engines :
              /\ superMajority(Q)
              /\ \A e \in Q : hasVoted("prevote", e, k) /\ ~hasVoted("precommit", e, r)
    BY Zenon, <1>3
  <2>1. \A e \in Q : hasVoted("prevote", e, k)' /\ ~hasVoted("precommit", e, r)'
    BY Zenon, VotesStay
  <2> QED BY Zenon, <2>1 DEF released
<1> QED BY Zenon, <1>1, <1>2, <1>3 DEF released

\* A step that broadcasts no vote of its own.
LEMMA NoNewVote ==
    ASSUME VotingInv, sent \subseteq sent',
           \A m \in sent' : m \in sent \/ m.type = "proposal"
    PROVE  ReleaseInv'
<1>1. \A f, r : \A type \in {"prevote", "precommit"} :
          hasVoted(type, f, r)' => hasVoted(type, f, r)
  BY Zenon DEF hasVoted
<1> QED BY Zenon, <1>1, ReleaseKept

LEMMA SilentStep ==
    ASSUME VotingInv, TypeOK', Silent
    PROVE  VotingInv'
<1>1. sent \subseteq sent' /\ RoundsGrow
  BY Zenon DEF Silent
<1>2. \A e \in Engines : cmBlocksProposed[e] =< cmBlocksProposed'[e]
  BY VotingTypes DEF Silent
<1>3. ProposalInv'
  BY Zenon, <1>1, <1>2, OldProposals DEF ProposalInv, Silent
<1>4. UniqueProposal'
  BY Zenon DEF Silent, VotingInv, UniqueProposal
<1>5. PrevoteInv'
  BY Zenon, <1>1, OldPrevotes DEF PrevoteInv, Silent
<1>6. PrecommitInv'
  BY Zenon, <1>1, OldPrecommits DEF PrecommitInv, Silent, lockVars, VotingInv
<1>7. LockInv'
  BY Zenon, <1>1, OldLocks DEF Silent
<1>8. ReleaseInv'
  BY Zenon, <1>1, NoNewVote DEF Silent
<1> QED
  BY Zenon, <1>3, <1>4, <1>5, <1>6, <1>7, <1>8 DEF VotingInv, Silent

LEMMA ProposeStep ==
    ASSUME FaultFree, VotingInv, TypeOK', NEW e \in Engines, Proposes(e)
    PROVE  VotingInv'
<1> DEFINE r == csRound'[e]
           p == proposalOf(e, r)
<1>1. sent \subseteq sent' /\ RoundsGrow /\ sent' = sent \cup {p}
  BY Zenon DEF Proposes
<1>2. \A f \in Engines : cmBlocksProposed[f] =< cmBlocksProposed'[f]
  BY SMTT(30), VotingTypes DEF Proposes, VotingInv, TypeOK
<1>3. /\ p.type = "proposal" /\ p.round = r /\ p.sender = e
      /\ p.block = <<e, cmBlocksProposed[e] + 1>> /\ p.validRound = csLockedRound[e]
  BY ZenonT(30) DEF proposalOf, VotingInv, LockInv
<1>4. r = csRound'[e] /\ r \in Nat /\ csRound[e] \in Nat /\ csRound[e] =< r
  BY Zenon, <1>1, VotingTypes DEF TypeOK, Round, RoundsGrow
<1>5. e = roundProposer(r) /\ ~hasProposed(e, r)
  BY Zenon DEF Proposes, shouldPropose
<1>6. \A q \in sent : q.type = "proposal" => q.round # r
  BY Zenon, <1>5 DEF hasProposed, VotingInv, ProposalInv
<1>7. p.block \in Block /\ cmBlocksProposed'[e] = cmBlocksProposed[e] + 1
  <2>1. cmBlocksProposed \in [Engines -> 0 .. MaxProposals] /\ cmBlocksProposed[e] < MaxProposals
    BY Zenon DEF VotingInv, TypeOK, Proposes
  <2>2. cmBlocksProposed'[e] = cmBlocksProposed[e] + 1
    BY Zenon, <2>1 DEF Proposes
  <2>3. e \in ValidatorId /\ cmBlocksProposed[e] + 1 \in 1 .. MaxProposals
    BY <2>1, EngineAssumption
  <2> HIDE DEF p
  <2> QED
    BY <1>3, <2>2, <2>3 DEF Block
<1>8. csLockedRound[e] # None =>
          csLockedRound[e] < r /\ \E b \in Block : polka(csLockedRound[e], b)
  <2> SUFFICES ASSUME csLockedRound[e] # None
               PROVE  csLockedRound[e] < r /\ \E b \in Block : polka(csLockedRound[e], b)
    BY Zenon
  <2>1. /\ csLockedRound[e] \in Nat /\ csLockedRound[e] =< csRound[e]
        /\ csLockedBlock[e] \in Block
        /\ polka(csLockedRound[e], csLockedBlock[e])
    BY Zenon, VotingTypes DEF VotingInv, LockInv
  <2>2. PICK q \in sent : q.type = "proposal" /\ q.round = csLockedRound[e]
    BY SMTT(30), <2>1, PolkaProposed
  <2> QED BY <1>4, <1>6, <2>1, <2>2
<1> HIDE DEF p, r
<1>9. ProposalInv'
  <2>1. ASSUME NEW j, j = csLockedRound[e], j # None
        PROVE  j < r /\ \E b \in Block : polka(j, b)'
    BY Zenon, <1>1, <1>8, <2>1, PolkaStays
  <2> SUFFICES ASSUME NEW q \in sent', q.type = "proposal"
               PROVE  /\ q.sender = roundProposer(q.round)
                      /\ q.round =< csRound'[q.sender]
                      /\ q.block \in Block
                      /\ q.block[1] = q.sender
                      /\ q.block[2] =< cmBlocksProposed'[q.sender]
                      /\ q.validRound # None =>
                            /\ q.validRound < q.round
                            /\ \E b \in Block : polka(q.validRound, b)'
    BY Zenon DEF ProposalInv
  <2>2. CASE q \in sent
    BY Zenon, <1>1, <1>2, <2>2, OldProposals
  <2>3. CASE q = p
    <3>1. q.validRound # None =>
             q.validRound < q.round /\ \E b \in Block : polka(q.validRound, b)'
      BY Zenon, <1>3, <2>1, <2>3
    <3>2. cmBlocksProposed[e] + 1 \in Nat
      BY VotingTypes
    <3> QED BY <1>3, <1>4, <1>5, <1>7, <2>3, <3>1, <3>2
  <2> QED BY Zenon, <1>1, <2>2, <2>3
<1>10. UniqueProposal'
  <2>1. \A q \in sent : q.type = "proposal" => q.block # p.block
    BY <1>3, VotingTypes DEF VotingInv, ProposalInv
  <2> QED BY SMTT(30), <1>1, <1>3, <1>6, <2>1 DEF UniqueProposal, VotingInv
<1>11. PrevoteInv'
  BY Zenon, <1>1, <1>3, OldPrevotes DEF PrevoteInv
<1>12. PrecommitInv'
  BY Zenon, <1>1, <1>3, OldPrecommits DEF PrecommitInv, Proposes, lockVars, VotingInv
<1>13. LockInv'
  BY Zenon, <1>1, OldLocks DEF Proposes
<1>14. ReleaseInv'
  BY Zenon, <1>1, <1>3, NoNewVote
<1> QED
  BY Zenon, <1>1, <1>3, <1>9, <1>10, <1>11, <1>12, <1>13, <1>14 DEF VotingInv

\* A prevote that the lock check of handleProposal lets through: either the
\* proposal's valid round releases the voter, or the voter is locked on the
\* proposed block itself, whose polka decides the matter.
LEMMA AcceptedIsReleased ==
    ASSUME FaultFree, VotingInv, NEW e \in Engines, NEW m \in sent, m.type = "proposal",
           acceptsProposal(e, m), NEW r \in Round, r < csRound[e],
           hasVoted("precommit", e, r)
    PROVE  released(r, csRound[e])
<1>1. PICK v \in sent : v.type = "precommit" /\ v.sender = e /\ v.round = r
  BY Zenon DEF hasVoted
<1>2. csLockedRound[e] # None /\ r =< csLockedRound[e]
  BY Zenon, <1>1 DEF VotingInv, PrecommitInv
<1>3. /\ csLockedRound[e] \in Nat /\ csRound[e] \in Nat /\ r \in Nat
      /\ m.round = csRound[e] /\ csRound[e] \in Round
  BY ZenonT(30), <1>2, VotingTypes DEF acceptsProposal
<1>4. csLockedBlock[e] \in Block /\ polka(csLockedRound[e], csLockedBlock[e])
  BY ZenonT(30), <1>2 DEF VotingInv, LockInv
<1>5. CASE m.block = csLockedBlock[e]
  <2>1. PICK p \in sent : /\ p.type = "proposal"
                          /\ p.round = csLockedRound[e]
                          /\ p.block = csLockedBlock[e]
    BY <1>4, PolkaProposed
  <2>2. csLockedRound[e] = csRound[e]
    BY Zenon, <1>3, <1>5, <2>1 DEF VotingInv, UniqueProposal
  <2>3. PICK Q \in SUBSET voters("prevote", csLockedRound[e], csLockedBlock[e]) :
                superMajority(Q)
    BY Zenon, <1>4 DEF polka, quorumOf
  <2>4. Q \in SUBSET Engines
    BY Zenon, <2>3, VotersAreEngines
  <2>5. \A f \in Q : hasVoted("prevote", f, csRound[e])
    BY SMTT(30), <2>2, <2>3, VoterVoted DEF hasVoted
  <2>6. CASE \E f \in Q : hasVoted("precommit", f, r)
    BY Zenon, <1>3, <2>4, <2>5, <2>6 DEF VotingInv, ReleaseInv
  <2>7. CASE \A f \in Q : ~hasVoted("precommit", f, r)
    BY Zenon, <2>3, <2>4, <2>5, <2>7 DEF released
  <2> QED BY Zenon, <2>6, <2>7
<1>6. CASE above(m.validRound, csLockedRound[e])
  <2>1. /\ m.validRound \in Round /\ m.validRound \in Nat
        /\ csLockedRound[e] < m.validRound
    BY Zenon, <1>2, <1>6, VotingTypes DEF above
  <2>2. m.validRound < csRound[e] /\ \E b \in Block : polka(m.validRound, b)
    BY Zenon, <1>3, <1>6 DEF above, VotingInv, ProposalInv
  <2>3. r < m.validRound
    BY <1>2, <1>3, <2>1
  <2> QED BY Zenon, <2>1, <2>2, <2>3 DEF released
<1> QED
  BY ZenonT(30), <1>4, <1>5, <1>6, EngineAssumption DEF acceptsProposal, shouldVote

LEMMA PrevoteStep ==
    ASSUME FaultFree, VotingInv, TypeOK', NEW e \in Engines, Prevotes(e)
    PROVE  VotingInv'
<1>1. PICK m \in sent : /\ m.type = "proposal"
                        /\ acceptsProposal(e, m)
                        /\ sent' = sent \cup {voteOf("prevote", e, m.block)}
                        /\ UNCHANGED <<csRound, cmBlocksProposed, lockVars>>
  BY Zenon DEF Prevotes
<1> DEFINE v == voteOf("prevote", e, m.block)
<1>2. sent \subseteq sent' /\ RoundsGrow /\ sent' = sent \cup {v}
  BY <1>1, VotingTypes DEF RoundsGrow
<1>3. v.type = "prevote" /\ v.round = csRound[e] /\ v.sender = e /\ v.block = m.block
  BY Zenon DEF voteOf
<1> HIDE DEF v
<1>4. \A f \in Engines : cmBlocksProposed[f] =< cmBlocksProposed'[f]
  BY <1>1, VotingTypes
<1>5. ProposalInv'
  BY Zenon, <1>2, <1>3, <1>4, OldProposals DEF ProposalInv
<1>6. UniqueProposal'
  BY Zenon, <1>2, <1>3 DEF VotingInv, UniqueProposal
<1>7. PrevoteInv'
  <2>1. m.round = csRound[e] /\ csRound[e] =< csRound'[e]
    BY Zenon, <1>1, <1>2 DEF acceptsProposal, RoundsGrow
  <2> QED BY Zenon, <1>1, <1>2, <1>3, <2>1, OldPrevotes DEF PrevoteInv
<1>8. PrecommitInv'
  BY Zenon, <1>1, <1>2, <1>3, OldPrecommits DEF PrecommitInv, lockVars, VotingInv
<1>9. LockInv'
  BY Zenon, <1>1, <1>2, OldLocks
<1>10. ReleaseInv'
  <2>1. \A f, r : hasVoted("precommit", f, r)' => hasVoted("precommit", f, r)
    BY Zenon, <1>2, <1>3 DEF hasVoted
  <2>2. \A f, k : hasVoted("prevote", f, k)' =>
            hasVoted("prevote", f, k) \/ (f = e /\ k = csRound[e])
    BY Zenon, <1>2, <1>3 DEF hasVoted
  <2> QED BY <1>1, <1>2, <2>1, <2>2, AcceptedIsReleased, ReleaseKept
<1> QED
  BY Zenon, <1>2, <1>3, <1>5, <1>6, <1>7, <1>8, <1>9, <1>10 DEF VotingInv

LEMMA PrecommitStep ==
    ASSUME VotingInv, TypeOK', NEW e \in Engines, Precommits(e)
    PROVE  VotingInv'
<1>1. PICK b \in Block : /\ polka(csRound[e], b)
                         /\ lockOn(e, b, csRound[e])
                         /\ sent' = sent \cup {voteOf("precommit", e, b)}
                         /\ UNCHANGED <<csRound, cmBlocksProposed>>
  BY Zenon DEF Precommits
<1> DEFINE v == voteOf("precommit", e, b)
<1>2. sent \subseteq sent' /\ RoundsGrow /\ sent' = sent \cup {v}
  <2>1. sent' = sent \cup {v} /\ csRound' = csRound
    BY Zenon, <1>1
  <2>2. \A f \in Engines : csRound[f] \in Nat
    BY Zenon, VotingTypes
  <2>3. RoundsGrow
    <3> HIDE DEF v
    <3> QED BY <2>1, <2>2 DEF RoundsGrow
  <2>4. sent \subseteq sent'
    BY Zenon, <2>1
  <2> QED BY Zenon, <2>1, <2>3, <2>4
<1>3. v.type = "precommit" /\ v.round = csRound[e] /\ v.sender = e /\ v.block = b
  BY Zenon DEF voteOf
<1> HIDE DEF v
<1>4. \A f \in Engines : cmBlocksProposed[f] =< cmBlocksProposed'[f]
  BY <1>1, VotingTypes
<1>5. /\ csLockedRound'[e] = csRound[e] /\ csLockedBlock'[e] = b
      /\ csValidRound'[e] = csRound[e]
      /\ \A f \in Engines \ {e} : /\ csLockedRound'[f] = csLockedRound[f]
                                  /\ csLockedBlock'[f] = csLockedBlock[f]
                                  /\ csValidRound'[f] = csValidRound[f]
  BY SMTT(30), <1>1 DEF lockOn, VotingInv, TypeOK
<1>6. csRound[e] \in Nat /\ csRound[e] # None
  BY ZenonT(30), VotingTypes, EngineAssumption
<1>p. \A p \in sent' : p.type = "proposal" => p \in sent
  BY Zenon, <1>2, <1>3
<1>7. ProposalInv'
  <2> SUFFICES ASSUME NEW p \in sent', p.type = "proposal"
               PROVE  /\ p.sender = roundProposer(p.round)
                      /\ p.round =< csRound'[p.sender]
                      /\ p.block \in Block
                      /\ p.block[1] = p.sender
                      /\ p.block[2] =< cmBlocksProposed'[p.sender]
                      /\ p.validRound # None =>
                            /\ p.validRound < p.round
                            /\ \E c \in Block : polka(p.validRound, c)'
    BY Zenon DEF ProposalInv
  <2> QED BY Zenon, <1>2, <1>4, <1>p, OldProposals
<1>8. UniqueProposal'
  BY Zenon, <1>p DEF VotingInv, UniqueProposal
<1>9. PrevoteInv'
  BY Zenon, <1>2, <1>3, OldPrevotes DEF PrevoteInv
<1>10. ASSUME NEW r, NEW c, polka(r, c) PROVE polka(r, c)'
  BY Zenon, <1>2, <1>10, PolkaStays
<1>11. PrecommitInv'
  <2> SUFFICES ASSUME NEW w \in sent', w.type = "precommit"
               PROVE  /\ w.round =< csRound'[w.sender]
                      /\ polka(w.round, w.block)'
                      /\ csLockedRound'[w.sender] # None
                      /\ w.round =< csLockedRound'[w.sender]
    BY Zenon DEF PrecommitInv
  <2>1. CASE w = v
    BY SMTT(30), <1>1, <1>3, <1>5, <1>6, <1>10, <2>1
  <2>2. CASE w \in sent /\ w.sender = e
    BY Zenon, <1>1, <1>2, <1>5, <1>6, <2>2, OldPrecommits
  <2>3. CASE w \in sent /\ w.sender # e
    BY Zenon, <1>2, <1>5, <2>3, OldPrecommits DEF VotingInv, PrecommitInv
  <2> QED BY Zenon, <1>2, <2>1, <2>2, <2>3
<1>12. LockInv'
  <2> SUFFICES ASSUME NEW f \in Engines, NEW r, NEW c,
                      r = csLockedRound'[f], c = csLockedBlock'[f]
               PROVE  /\ csValidRound'[f] = r
                      /\ r = None => c = None
                      /\ r # None => r =< csRound'[f] /\ c \in Block /\ polka(r, c)'
    BY SMTT(30) DEF LockInv
  <2>1. CASE f = e
    BY SMTT(30), <1>1, <1>5, <1>6, <1>10, <2>1
  <2>2. CASE f # e
    <3>1. r # None => polka(r, c)
      BY Zenon, <1>5, <2>2 DEF VotingInv, LockInv
    <3> QED BY Zenon, <1>1, <1>5, <1>10, <2>2, <3>1 DEF VotingInv, LockInv
  <2> QED BY Zenon, <2>1, <2>2
<1>13. ReleaseInv'
  <2>1. \A f, k : hasVoted("prevote", f, k)' => hasVoted("prevote", f, k)
    BY Zenon, <1>2, <1>3 DEF hasVoted
  <2>2. \A f, r : hasVoted("precommit", f, r)' =>
            hasVoted("precommit", f, r) \/ (f = e /\ r = csRound[e])
    BY Zenon, <1>2, <1>3 DEF hasVoted
  <2>3. \A k \in Round : hasVoted("prevote", e, k) => k =< csRound[e]
    BY Zenon DEF hasVoted, VotingInv, PrevoteInv
  <2>4. \A k \in Round : csRound[e] < k => ~hasVoted("prevote", e, k)
    BY <1>6, <2>3, VotingTypes
  <2> QED BY <1>2, <2>1, <2>2, <2>4, ReleaseKept
<1> QED
  BY ZenonT(30), <1>2, <1>3, <1>7, <1>8, <1>9, <1>11, <1>12, <1>13 DEF VotingInv

LEMMA VotingInvStep ==
    ASSUME FaultFree, VotingInv, TypeOK', VotingStep
    PROVE  VotingInv'
BY Zenon, SilentStep, ProposeStep, PrevoteStep, PrecommitStep DEF VotingStep

-----------------------------------------------------------------------------
(* Every action is a voting step *)

LEMMA InvParts == IInv <=> VotingInv /\ Provenance /\ DecisionInv
BY Zenon DEF IInv, VotingInv, Provenance

\* The collectors return votes that engines broadcast.
LEMMA CollectedWereSent ==
    ASSUME FaultFree, Provenance, NEW e \in Engines, NEW m \in sent \cup DriverMsgs,
           NEW type \in {"prevote", "precommit"}, NEW r
    PROVE  \A v \in collectVotes(e, m, type, r) :
               v \in sent /\ v.type = type /\ v.round = r
BY Zenon DEF FaultFree, collectVotes, messageLog, Provenance

\* Prevotes of a super-majority in one round are a polka for the block of any
\* of them: handlePrevote may take the first.
LEMMA FirstPrevoteHasPolka ==
    ASSUME FaultFree, VotingInv, NEW r, NEW votes \in SUBSET sent,
           \A v \in votes : v.type = "prevote" /\ v.round = r,
           superMajority(senders(votes)), NEW first \in votes
    PROVE  polka(r, first.block) /\ first.block \in Block
<1>1. \A v \in votes : v.block = first.block
  BY DEF VotingInv, PrevoteInv, UniqueProposal
<1>2. senders(votes) \subseteq voters("prevote", r, first.block)
  BY Zenon, <1>1 DEF senders, voters
<1>3. polka(r, first.block)
  BY Zenon, <1>2 DEF polka, quorumOf
<1> QED BY Zenon, <1>3, PolkaTyped

\* The same for precommits and handlePrecommit.
LEMMA FirstPrecommitCommits ==
    ASSUME FaultFree, VotingInv, NEW r, NEW votes \in SUBSET sent,
           \A v \in votes : v.type = "precommit" /\ v.round = r,
           superMajority(senders(votes)), NEW first \in votes
    PROVE  committable(r, first.block) /\ first.block \in Block
<1>1. polka(r, first.block)
  BY Zenon DEF VotingInv, PrecommitInv
<1>2. \A v \in votes : polka(r, v.block)
  BY Zenon DEF VotingInv, PrecommitInv
<1>3. \A v \in votes : v.block = first.block
  BY Zenon, <1>1, <1>2, PolkaUnique
<1>4. senders(votes) \subseteq voters("precommit", r, first.block)
  BY Zenon, <1>3 DEF senders, voters
<1>5. committable(r, first.block)
  BY Zenon, <1>4 DEF committable, quorumOf
<1> QED BY Zenon, <1>1, <1>5, PolkaTyped

\* runConsensusRound in a round in which the engine has not proposed.
LEMMA RunEffect ==
    ASSUME FaultFree, IInv, NEW e \in Engines, NEW r, r = csRound'[e], NEW step,
           NEW rest \in Seq(sent), RoundsGrow, UNCHANGED lockVars,
           ~hasProposed(e, r), runConsensusRound(e, r, step, rest)
    PROVE  /\ Silent \/ Proposes(e)
           /\ sent \subseteq sent'
           /\ Queued'
           /\ \A f \in Engines : csStep'[f] = csStep[f] \/ (f = e /\ csStep'[f] \in {"Prevote", step})
<1> USE InvParts DEF roundVars, proposeVars, lockVars, netVars
<1>0. Queued
  BY Zenon DEF Provenance, Queued
<1>1. CASE shouldPropose(r, e) /\ proposeBlock(e, r, rest)
  <2> DEFINE p == proposalOf(e, r)
  <2>1. /\ cmBlocksProposed[e] < MaxProposals
        /\ sent' = sent \cup {p}
        /\ batch' = [batch EXCEPT ![e] = <<p>> \o ceMsgQueue[e] \o rest]
        /\ ceMsgQueue' = [ceMsgQueue EXCEPT ![e] = <<>>]
        /\ cmBlocksProposed' = [cmBlocksProposed EXCEPT ![e] = @ + 1]
        /\ csStep' = [csStep EXCEPT ![e] = "Prevote"]
    BY Zenon, <1>1 DEF FaultFree, proposeBlock, newBlock, proposalOf
  <2>2. Proposes(e)
    BY Zenon, <1>1, <2>1 DEF Proposes
  <2> HIDE DEF p
  <2>3. Queued'
    <3>1. <<p>> \in Seq(sent') /\ ceMsgQueue[e] \in Seq(sent') /\ rest \in Seq(sent')
      BY <1>0, <2>1, StillQueued, SeqOfMore
    <3>2. <<p>> \o ceMsgQueue[e] \o rest \in Seq(sent')
      BY Zenon, <3>1, SeqConcat
    <3>3. <<>> \in Seq(sent')
      OBVIOUS
    <3>4. \A f \in Engines : ceMsgQueue[f] \in Seq(sent') /\ batch[f] \in Seq(sent')
      BY Zenon, <1>0, <2>1, StillQueued
    <3> QED BY ZenonT(30), <2>1, <3>2, <3>3, <3>4 DEF Queued, VotingInv, TypeOK
  <2> QED BY ZenonT(30), <2>1, <2>2, <2>3 DEF VotingInv, TypeOK
<1>2. CASE ~shouldPropose(r, e) /\ processMessages(e, step, rest)
  <2>1. /\ batch' = [batch EXCEPT ![e] = ceMsgQueue[e] \o rest]
        /\ ceMsgQueue' = [ceMsgQueue EXCEPT ![e] = <<>>]
        /\ csStep' = [csStep EXCEPT ![e] = step]
        /\ UNCHANGED <<cmBlocksProposed, sent>>
    BY Zenon, <1>2 DEF processMessages
  <2>2. ceMsgQueue[e] \o rest \in Seq(sent) /\ <<>> \in Seq(sent)
    BY SMTT(30), SeqConcat DEF Provenance
  <2>3. Queued'
    BY ZenonT(30), <2>1, <2>2 DEF Queued, Provenance, VotingInv, TypeOK
  <2> QED BY Zenon, <2>1, <2>3 DEF Silent, VotingInv, TypeOK
<1> QED BY Zenon, <1>1, <1>2 DEF runConsensusRound

Decided(f) ==
    /\ csStep[f] = "Commit" => csDecision[f] # None
    /\ csDecision[f] # None => \E r \in Round : committable(r, csDecision[f])

\* An engine that keeps its decision and does not enter the commit step.
LEMMA OldDecision ==
    ASSUME DecisionInv, sent \subseteq sent', NEW f \in Engines,
           csDecision'[f] = csDecision[f],
           csStep'[f] = csStep[f] \/ csStep'[f] # "Commit"
    PROVE  Decided(f)'
<1>1. ASSUME NEW d, d = csDecision[f], d # None
      PROVE  \E r \in Round : committable(r, d)'
  BY Zenon, <1>1, QuorumStays DEF DecisionInv, committable
<1> QED BY ZenonT(30), <1>1 DEF Decided, DecisionInv

\* What handling one message does, whatever the message.
LEMMA ApplyEffect ==
    ASSUME FaultFree, IInv, NEW e \in Engines, NEW m \in sent \cup DriverMsgs, ~isUndefined(m),
           NEW rest \in Seq(sent), applyConsensusMessage(e, m, rest)
    PROVE  VotingStep /\ sent \subseteq sent' /\ Queued' /\ DecisionInv'
<1> USE DEF roundVars, proposeVars, lockVars, netVars
<1>0. VotingInv /\ Provenance /\ DecisionInv /\ TypeOK
  BY Zenon, InvParts DEF VotingInv
<1>1. SUFFICES VotingStep /\ sent \subseteq sent' /\ Queued' /\ \A f \in Engines : Decided(f)'
  BY Zenon DEF DecisionInv, Decided
<1>2. m.type \in {"proposal", "prevote", "precommit", "viewchange", "commit"}
  BY Zenon, <1>0 DEF FaultFree, Provenance
<1>3. \A f \in Engines : csRound[f] \in Nat
  BY Zenon, <1>0, VotingTypes
\* A vote of e is pushed on its queue and added to sent.
<1>4. ASSUME NEW type, NEW b, sendVote(e, type, b), batch' = [batch EXCEPT ![e] = rest]
      PROVE  sent' = sent \cup {voteOf(type, e, b)} /\ sent \subseteq sent' /\ Queued'
  <2> DEFINE v == voteOf(type, e, b)
  <2>1. sent' = sent \cup {v} /\ ceMsgQueue' = [ceMsgQueue EXCEPT ![e] = <<v>> \o ceMsgQueue[e]]
    BY Zenon, <1>0, <1>4 DEF sendVote, broadcastMessage, voteOf, TypeOK
  <2> HIDE DEF v
  <2>2. <<v>> \in Seq(sent') /\ rest \in Seq(sent')
    BY <2>1, SeqOfMore
  <2>3. \A f \in Engines : ceMsgQueue[f] \in Seq(sent') /\ batch[f] \in Seq(sent')
    BY Zenon, <1>0, <2>1, StillQueued DEF Provenance, Queued
  <2>4. <<v>> \o ceMsgQueue[e] \in Seq(sent')
    BY Zenon, <2>2, <2>3, SeqConcat
  <2>5. Queued'
    BY Zenon, <1>0, <1>4, <2>1, <2>2, <2>3, <2>4 DEF Queued, TypeOK
  <2> QED BY Zenon, <2>1, <2>5 DEF v
\* Nothing is sent.
<1>5. ASSUME UNCHANGED netVars, batch' = [batch EXCEPT ![e] = rest]
      PROVE  sent \subseteq sent' /\ Queued'
  BY Zenon, <1>0, <1>5 DEF Queued, Provenance, TypeOK
<1>a. CASE m.type = "proposal" /\ handleProposal(e, m)
  <2>1. batch' = [batch EXCEPT ![e] = rest]
    BY Zenon, <1>a DEF applyConsensusMessage
  <2>2. CASE /\ acceptsProposal(e, m)
             /\ sendVote(e, "prevote", m.block)
             /\ csStep' = [csStep EXCEPT ![e] = "Prevote"]
             /\ UNCHANGED <<roundVars, proposeVars, lockVars, csDecision>>
    <3>1. m \in sent
      BY Zenon, <1>a DEF FaultFree
    <3>2. sent' = sent \cup {voteOf("prevote", e, m.block)} /\ sent \subseteq sent' /\ Queued'
      BY Zenon, <1>4, <2>1, <2>2
    <3>3. Prevotes(e)
      BY Zenon, <1>a, <2>2, <3>1, <3>2 DEF Prevotes
    <3>4. \A f \in Engines : Decided(f)'
      BY Zenon, <1>0, <2>2, <3>2, OldDecision DEF TypeOK
    <3> QED BY Zenon, <3>2, <3>3, <3>4 DEF VotingStep
  <2>3. CASE UNCHANGED <<roundVars, csStep, proposeVars, lockVars, csDecision, netVars>>
    <3>1. Silent
      BY <1>3, <2>3 DEF Silent, RoundsGrow
    <3>2. \A f \in Engines : Decided(f)'
      BY Zenon, <1>0, <1>5, <2>1, <2>3, OldDecision
    <3> QED BY Zenon, <1>5, <2>1, <2>3, <3>1, <3>2 DEF VotingStep
  <2> QED BY Zenon, <1>a, <2>2, <2>3 DEF handleProposal
<1>b. CASE m.type = "prevote" /\ handlePrevote(e, m)
  <2> DEFINE prevotes == collectVotes(e, m, "prevote", csRound[e])
  <2>1. batch' = [batch EXCEPT ![e] = rest]
    BY Zenon, <1>b DEF applyConsensusMessage
  <2>2. \A v \in prevotes : v \in sent /\ v.type = "prevote" /\ v.round = csRound[e]
    BY ZenonT(30), <1>0, CollectedWereSent
  <2>3. UNCHANGED <<roundVars, proposeVars, csDecision>>
    BY Zenon, <1>b DEF handlePrevote
  <2> HIDE DEF prevotes
  <2>4. CASE /\ superMajority(senders(prevotes))
             /\ \E first \in prevotes :
                   lockOn(e, first.block, csRound[e]) /\ sendVote(e, "precommit", first.block)
             /\ csStep' = [csStep EXCEPT ![e] = "Precommit"]
    <3>1. PICK first \in prevotes :
              lockOn(e, first.block, csRound[e]) /\ sendVote(e, "precommit", first.block)
      BY Zenon, <2>4
    <3>2. polka(csRound[e], first.block) /\ first.block \in Block
      BY ZenonT(30), <1>0, <2>2, <2>4, FirstPrevoteHasPolka
    <3>3. /\ sent' = sent \cup {voteOf("precommit", e, first.block)}
          /\ sent \subseteq sent' /\ Queued'
      BY Zenon, <1>4, <2>1, <3>1
    <3>4. Precommits(e)
      BY Zenon, <2>3, <3>1, <3>2, <3>3 DEF Precommits
    <3>5. \A f \in Engines : Decided(f)'
      BY Zenon, <1>0, <2>3, <2>4, <3>3, OldDecision DEF TypeOK
    <3> QED BY Zenon, <3>3, <3>4, <3>5 DEF VotingStep
  <2>5. ~superMajority(senders({v \in prevotes : v.block = None}))
    <3>1. \A v \in prevotes : v.block # None
      BY <1>0, <2>2, EngineAssumption DEF VotingInv, PrevoteInv, ProposalInv
    <3>2. {v \in prevotes : v.block = None} = {}
      BY Zenon, <3>1
    <3>3. senders({}) = {}
      BY Zenon DEF senders
    <3> QED BY Zenon, <3>2, <3>3, EmptyIsNoQuorum
  <2>6. CASE UNCHANGED <<csStep, lockVars, netVars>>
    <3>1. Silent
      BY <1>3, <2>3, <2>6 DEF Silent, RoundsGrow
    <3>2. \A f \in Engines : Decided(f)'
      BY Zenon, <1>0, <1>5, <2>1, <2>3, <2>6, OldDecision
    <3> QED BY Zenon, <1>5, <2>1, <2>6, <3>1, <3>2 DEF VotingStep
  <2> QED BY Zenon, <1>b, <2>4, <2>5, <2>6 DEF handlePrevote, prevotes
<1>c. CASE m.type = "precommit" /\ handlePrecommit(e, m)
  <2> DEFINE precommits == collectVotes(e, m, "precommit", csRound[e])
  <2>1. batch' = [batch EXCEPT ![e] = rest]
    BY Zenon, <1>c DEF applyConsensusMessage
  <2>2. \A v \in precommits : v \in sent /\ v.type = "precommit" /\ v.round = csRound[e]
    BY ZenonT(30), <1>0, CollectedWereSent
  <2>3. UNCHANGED <<proposeVars, lockVars, netVars>>
    BY Zenon, <1>c DEF handlePrecommit
  <2>4. superMajority(senders(precommits)) => \A first \in precommits :
            committable(csRound[e], first.block) /\ first.block \in Block
    <3> HIDE DEF precommits
    <3> QED BY ZenonT(30), <1>0, <2>2, FirstPrecommitCommits
  <2> HIDE DEF precommits
  <2>5. CASE /\ superMajority(senders(precommits))
             /\ \E first \in precommits :
                   csDecision' = [csDecision EXCEPT ![e] = first.block]
             /\ csStep' = [csStep EXCEPT ![e] = "Commit"]
             /\ UNCHANGED roundVars
    <3>1. PICK first \in precommits : csDecision' = [csDecision EXCEPT ![e] = first.block]
      BY ZenonT(30), <2>5
    <3>2. PICK r \in Round : committable(r, first.block)
      BY Zenon, <1>0, <2>4, <2>5, VotingTypes
    <3>3. Decided(e)'
      <4>1. committable(r, first.block)'
        BY Zenon, <2>3, <3>2, QuorumStays DEF committable
      <4>2. csDecision'[e] = first.block /\ first.block \in Block
        BY Zenon, <1>0, <2>4, <2>5, <3>1 DEF TypeOK
      <4> QED BY Zenon, <4>1, <4>2, EngineAssumption DEF Decided
    <3>4. \A f \in Engines \ {e} : Decided(f)'
      BY Zenon, <1>0, <2>3, <2>5, <3>1, OldDecision DEF TypeOK
    <3>5. Silent
      BY SMTT(30), <1>3, <2>3, <2>5 DEF Silent, RoundsGrow
    <3> QED BY Zenon, <1>5, <2>1, <2>3, <3>3, <3>4, <3>5 DEF VotingStep
  <2>6. CASE superMajority(senders(precommits)) /\ \E first \in precommits : first.block = None
    BY Zenon, <2>4, <2>6, EngineAssumption
  <2>7. CASE UNCHANGED <<roundVars, csStep, csDecision>>
    <3>1. Silent
      BY <1>3, <2>3, <2>7 DEF Silent, RoundsGrow
    <3>2. \A f \in Engines : Decided(f)'
      BY Zenon, <1>0, <2>3, <2>7, OldDecision
    <3> QED BY Zenon, <1>5, <2>1, <2>3, <3>1, <3>2 DEF VotingStep
  <2> QED BY Zenon, <1>c, <2>5, <2>6, <2>7 DEF handlePrecommit, precommits
<1>d. CASE m.type = "commit" /\ handleCommit(e, m)
  <2>1. batch' = [batch EXCEPT ![e] = rest]
    BY Zenon, <1>d DEF applyConsensusMessage
  <2>2. UNCHANGED <<roundVars, csStep, proposeVars, lockVars, netVars>>
    BY Zenon, <1>d DEF handleCommit
  <2>3. csDecision' = csDecision
    <3>1. CASE /\ csStep[e] = "Commit" /\ csDecision[e] \in {None, m.block}
               /\ csDecision' = [csDecision EXCEPT ![e] = m.block]
      <4>1. csDecision[e] = m.block
        BY Zenon, <1>0, <3>1 DEF DecisionInv
      <4> QED BY Zenon, <1>0, <3>1, <4>1 DEF TypeOK
    <3> QED BY Zenon, <1>d, <3>1 DEF handleCommit
  <2>4. Silent
    BY <1>3, <2>2 DEF Silent, RoundsGrow
  <2>5. \A f \in Engines : Decided(f)'
    BY Zenon, <1>0, <2>2, <2>3, OldDecision
  <2> QED BY Zenon, <1>5, <2>1, <2>2, <2>4, <2>5 DEF VotingStep
<1>f. CASE m.type = "viewchange" /\ handleViewChange(e, m, rest)
  <2>1. UNCHANGED <<lockVars, csDecision>>
    BY Zenon, <1>f DEF handleViewChange
  <2>2. CASE /\ csRound' = [csRound EXCEPT ![e] = @ + 1]
             /\ runConsensusRound(e, csRound[e] + 1, "Propose", rest)
    <3>1. csRound'[e] = csRound[e] + 1 /\ RoundsGrow
      BY SMTT(30), <1>0, <1>3, <2>2 DEF RoundsGrow, TypeOK
    <3>2. ~hasProposed(e, csRound[e] + 1)
      <4>1. \A p \in sent : p.type = "proposal" /\ p.sender = e => p.round =< csRound[e]
        BY Zenon, <1>0 DEF VotingInv, ProposalInv
      <4>2. \A p \in sent : p.round \in Nat
        BY Zenon, <1>0, VotingTypes
      <4> QED BY <1>3, <4>1, <4>2 DEF hasProposed
    <3>3. /\ Silent \/ Proposes(e)
          /\ sent \subseteq sent'
          /\ Queued'
          /\ \A f \in Engines : csStep'[f] = csStep[f]
                \/ (f = e /\ csStep'[f] \in {"Prevote", "Propose"})
      <4>1. ASSUME NEW r, r = csRound[e] + 1
            PROVE  /\ Silent \/ Proposes(e)
                   /\ sent \subseteq sent'
                   /\ Queued'
                   /\ \A f \in Engines : csStep'[f] = csStep[f]
                         \/ (f = e /\ csStep'[f] \in {"Prevote", "Propose"})
        BY ZenonT(30), <2>1, <2>2, <3>1, <3>2, <4>1, RunEffect
      <4> QED BY Zenon, <4>1
    <3>4. \A f \in Engines : Decided(f)'
      BY Zenon, <1>0, <2>1, <3>3, OldDecision
    <3> QED BY ZenonT(30), <3>3, <3>4 DEF VotingStep
  <2>3. CASE /\ batch' = [batch EXCEPT ![e] = rest]
             /\ UNCHANGED <<csRound, csStep, proposeVars, netVars>>
    <3>1. Silent
      BY <1>3, <2>1, <2>3 DEF Silent, RoundsGrow
    <3>2. \A f \in Engines : Decided(f)'
      BY Zenon, <1>0, <2>1, <2>3, OldDecision
    <3> QED BY Zenon, <1>5, <2>3, <3>1, <3>2 DEF VotingStep
  <2> QED BY Zenon, <1>f, <2>2, <2>3 DEF handleViewChange
<1> QED
  BY Zenon, <1>2, <1>a, <1>b, <1>c, <1>d, <1>f DEF applyConsensusMessage

LEMMA ReceivedKept ==
    ASSUME Provenance, TypeOK, sent \subseteq sent', NEW e \in Engines,
           NEW msgs \in SUBSET (sent \cup DriverMsgs), remember(e, msgs)
    PROVE  \A f \in Engines : received'[f] \subseteq sent' \cup DriverMsgs
BY Zenon DEF remember, Provenance, TypeOK

\* Every action is a voting step and keeps the queues, the logs and the
\* decisions in order.
LEMMA NextEffect ==
    ASSUME FaultFree, IInv, Next
    PROVE  /\ VotingStep
           /\ Queued'
           /\ \A f \in Engines : received'[f] \subseteq sent' \cup DriverMsgs
           /\ DecisionInv'
<1> USE DEF roundVars, proposeVars, lockVars, netVars
<1>0. VotingInv /\ Provenance /\ DecisionInv /\ TypeOK
  BY Zenon, InvParts DEF VotingInv
<1>1. \A f \in Engines : csRound[f] \in Nat
  BY Zenon, <1>0, VotingTypes
<1>2. ASSUME NEW e \in Engines, StartConsensus(e) \/ RunConsensusRound(e)
      PROVE  /\ VotingStep /\ Queued' /\ DecisionInv'
             /\ \A f \in Engines : received'[f] \subseteq sent' \cup DriverMsgs
  <2>1. /\ ~hasProposed(e, csRound[e]) /\ csRound' = csRound
        /\ UNCHANGED <<lockVars, csDecision, received>>
        /\ runConsensusRound(e, csRound[e], csStep[e], <<>>)
    BY ZenonT(30), <1>2 DEF FaultFree, StartConsensus, RunConsensusRound
  <2>2. RoundsGrow /\ <<>> \in Seq(sent)
    BY <1>1, <2>1 DEF RoundsGrow
  <2>3. ASSUME NEW r, r = csRound[e], NEW step, step = csStep[e]
        PROVE  /\ Silent \/ Proposes(e)
               /\ sent \subseteq sent'
               /\ Queued'
               /\ \A f \in Engines : csStep'[f] = csStep[f]
                     \/ (f = e /\ csStep'[f] \in {"Prevote", step})
    BY ZenonT(30), <2>1, <2>2, <2>3, RunEffect
  <2>4. \A f \in Engines : Decided(f)'
    BY ZenonT(30), <1>0, <2>1, <2>3, OldDecision
  <2>5. \A f \in Engines : received'[f] \subseteq sent' \cup DriverMsgs
    BY Zenon, <1>0, <2>1, <2>3 DEF Provenance
  <2>6. DecisionInv'
    BY Zenon, <2>4 DEF DecisionInv, Decided
  <2> QED BY Zenon, <2>3, <2>5, <2>6 DEF VotingStep
<1>3. ASSUME NEW e \in Engines, ApplyBatched(e)
      PROVE  /\ VotingStep /\ Queued' /\ DecisionInv'
             /\ \A f \in Engines : received'[f] \subseteq sent' \cup DriverMsgs
  <2>1. batch[e] \in Seq(sent) /\ batch[e] # <<>>
    BY ZenonT(30), <1>0, <1>3 DEF ApplyBatched, Idle, Provenance
  <2>2. Head(batch[e]) \in sent /\ Tail(batch[e]) \in Seq(sent)
    BY SMTT(30), <2>1
  <2>3. ~isUndefined(Head(batch[e]))
    BY Zenon, <1>0, <2>2, EngineAssumption DEF isUndefined, VotingInv, ProposalInv
  <2>4. applyConsensusMessage(e, Head(batch[e]), Tail(batch[e])) /\ remember(e, {})
    BY Zenon, <1>3, <2>3 DEF ApplyBatched
  <2>5. VotingStep /\ sent \subseteq sent' /\ Queued' /\ DecisionInv'
    BY Zenon, <2>2, <2>3, <2>4, ApplyEffect
  <2> QED BY Zenon, <1>0, <2>4, <2>5, ReceivedKept
<1>4. ASSUME NEW e \in Engines, NEW m \in deliverable(e), Deliver(e, m)
      PROVE  /\ VotingStep /\ Queued' /\ DecisionInv'
             /\ \A f \in Engines : received'[f] \subseteq sent' \cup DriverMsgs
  <2>1. m \in sent \cup DriverMsgs /\ ~isUndefined(m) /\ <<>> \in Seq(sent)
    BY DEF FaultFree, deliverable, isUndefined
  <2>2. VotingStep /\ sent \subseteq sent' /\ Queued' /\ DecisionInv'
    BY ZenonT(30), <1>4, <2>1, ApplyEffect DEF Deliver
  <2> QED BY Zenon, <1>0, <1>4, <2>1, <2>2, ReceivedKept DEF Deliver
<1>5. ASSUME NEW e \in Engines, Timeout(e)
      PROVE  /\ VotingStep /\ Queued' /\ DecisionInv'
             /\ \A f \in Engines : received'[f] \subseteq sent' \cup DriverMsgs
  <2>1. /\ csRound' = [csRound EXCEPT ![e] = @ + 1]
        /\ csStep' = [csStep EXCEPT ![e] = "Propose"]
        /\ UNCHANGED <<proposeVars, lockVars, csDecision, netVars, batch>>
        /\ remember(e, {})
    BY Zenon, <1>5 DEF Timeout, startNextRound
  <2>2. Silent
    BY <1>0, <1>1, <2>1 DEF Silent, RoundsGrow, TypeOK
  <2>3. \A f \in Engines : Decided(f)'
    BY Zenon, <1>0, <2>1, OldDecision DEF TypeOK
  <2>4. Queued'
    BY Zenon, <1>0, <2>1 DEF Queued, Provenance
  <2> QED BY ZenonT(30), <1>0, <2>1, <2>2, <2>3, <2>4, ReceivedKept DEF VotingStep, DecisionInv, Decided
<1>6. ASSUME NEW e \in Engines, TransitionStep(e) PROVE FALSE
  BY Zenon, <1>6 DEF FaultFree, TransitionStep
<1> QED
  BY Zenon, <1>2, <1>3, <1>4, <1>5, <1>6 DEF Next

\* The invariant is inductive.
THEOREM Invariance ==
    ASSUME FaultFree
    PROVE  Spec => []IInv
<1>1. Init => IInv
  <2> SUFFICES ASSUME Init PROVE IInv
    BY Zenon
  <2>1. TypeOK
    BY SMTT(30), EngineAssumption DEF Init, TypeOK, Round, Step
  <2>2. Provenance /\ ProposalInv /\ UniqueProposal /\ PrevoteInv /\ PrecommitInv
    BY DEF Init, Provenance, ProposalInv, UniqueProposal, PrevoteInv, PrecommitInv
  <2>3. LockInv /\ DecisionInv
    BY Zenon DEF Init, LockInv, DecisionInv
  <2>4. ReleaseInv
    BY Zenon DEF Init, ReleaseInv, hasVoted
  <2> QED BY Zenon, <2>1, <2>2, <2>3, <2>4 DEF IInv
<1>2. IInv /\ [Next]_vars => IInv'
  <2> SUFFICES ASSUME IInv, [Next]_vars PROVE IInv'
    BY Zenon
  <2>1. TypeOK'
    BY Zenon, TypeStep DEF IInv
  <2>2. CASE Next
    <3>1. /\ VotingStep /\ Queued' /\ DecisionInv'
          /\ \A f \in Engines : received'[f] \subseteq sent' \cup DriverMsgs
      BY Zenon, <2>2, NextEffect
    <3>2. VotingInv'
      BY Zenon, <2>1, <3>1, InvParts, VotingInvStep
    <3>3. Provenance'
      BY Zenon, <3>1, <3>2 DEF Provenance, VotingInv, Queued
    <3> QED BY Zenon, <3>1, <3>2, <3>3 DEF IInv, VotingInv
  <2>3. CASE UNCHANGED vars
    <3>1. UNCHANGED <<csRound, csStep, csLockedBlock, csLockedRound, csValidRound, csDecision,
                      ceMsgQueue, cmBlocksProposed, batch, sent, received>>
      BY Zenon, <2>3 DEF vars, roundVars, proposeVars, lockVars, netVars
    <3>2. Provenance' /\ UniqueProposal'
      BY Zenon, <3>1 DEF IInv, Provenance, UniqueProposal
    <3>3. Silent
      BY <3>1, <2>3, InvParts, VotingTypes
         DEF Silent, RoundsGrow, vars, lockVars
    <3>4. VotingInv'
      BY Zenon, <2>1, <3>3, InvParts, SilentStep
    <3>5. \A f \in Engines : Decided(f)'
      BY Zenon, <3>1, OldDecision DEF IInv
    <3> QED BY Zenon, <3>2, <3>4, <3>5 DEF IInv, VotingInv, DecisionInv, Decided
  <2> QED BY Zenon, <2>2, <2>3
<1> QED
  BY <1>1, <1>2, PTL DEF Spec

-----------------------------------------------------------------------------
(* What the invariant says of decisions, locks and votes *)

\* A block that can be committed has a polka in that round.
LEMMA CommittableHasPolka ==
    ASSUME FaultFree, VotingInv, NEW r, NEW b, committable(r, b)
    PROVE  polka(r, b)
<1>1. PICK Q \in SUBSET voters("precommit", r, b) : superMajority(Q)
  BY Zenon DEF committable, quorumOf
<1>2. PICK e \in Q : TRUE
  BY Zenon, <1>1, EmptyIsNoQuorum
<1>3. PICK v \in sent : v.type = "precommit" /\ v.round = r /\ v.block = b
  BY <1>1, <1>2, VoterVoted
<1> QED BY Zenon, <1>3 DEF VotingInv, PrecommitInv

\* A polka after a round in which a block can be committed needs an earlier
\* polka, itself after that round.
LEMMA EarlierPolka ==
    ASSUME FaultFree, VotingInv, NEW r \in Round, NEW b, committable(r, b),
           NEW k \in Round, NEW c, polka(k, c), r < k
    PROVE  \E j \in Round, d \in Block : r < j /\ j < k /\ polka(j, d)
<1>1. PICK P \in SUBSET Engines :
         superMajority(P) /\ \A e \in P : hasVoted("precommit", e, r)
  BY VotersAreEngines, VoterVoted DEF committable, quorumOf, hasVoted
<1>2. PICK Q \in SUBSET Engines :
         superMajority(Q) /\ \A e \in Q : hasVoted("prevote", e, k)
  BY VotersAreEngines, VoterVoted DEF polka, quorumOf, hasVoted
<1>3. PICK e \in P \cap Q : TRUE
  BY Zenon, <1>1, <1>2, QuorumIntersection
<1>4. released(r, k)
  BY Zenon, <1>1, <1>2, <1>3 DEF VotingInv, ReleaseInv
<1>5. ASSUME NEW S \in SUBSET Engines, superMajority(S),
             \A f \in S : ~hasVoted("precommit", f, r)
      PROVE  FALSE
  BY Zenon, <1>1, <1>5, QuorumIntersection
<1> QED BY Zenon, <1>4, <1>5 DEF released

\* Hence there is none: the first such polka would need an earlier one.
LEMMA NoLaterPolka ==
    ASSUME FaultFree, VotingInv, NEW r \in Round, NEW b, committable(r, b),
           NEW k \in Round, NEW c, polka(k, c), r < k
    PROVE  FALSE
<1> DEFINE T == {j \in Nat : j \in Round /\ r < j /\ \E d \in Block : polka(j, d)}
<1>1. Round \subseteq Nat
  BY Zenon, VotingTypes
<1>2. k \in T
  BY Zenon, <1>1, PolkaTyped
<1>3. PICK j \in T : \A i \in T : ~(<<i, j>> \in OpToRel(<, Nat))
  <2>1. T \subseteq Nat /\ T # {}
    BY Zenon, <1>2
  <2> HIDE DEF T
  <2> QED BY Zenon, <2>1, NatLessThanWellFounded, WFMin
<1>4. PICK i \in Round, d \in Block : r < i /\ i < j /\ polka(i, d)
  BY Zenon, <1>3, EarlierPolka
<1>5. i \in T /\ j \in Nat /\ i < j
  BY ZenonT(30), <1>1, <1>3, <1>4
<1> QED BY Zenon, <1>3, <1>5 DEF OpToRel

LEMMA Locks ==
    ASSUME FaultFree
    PROVE  IInv => LockHolds
<1> SUFFICES ASSUME IInv, NEW r \in Round, NEW k \in Round, NEW b \in Block, NEW c \in Block,
                    k >= r, committable(r, b), polka(k, c)
             PROVE  b = c
  BY Zenon DEF LockHolds
<1>1. VotingInv
  BY Zenon, InvParts
<1>2. CASE k = r
  BY Zenon, <1>1, <1>2, CommittableHasPolka, PolkaUnique
<1>3. CASE r < k
  BY Zenon, <1>1, <1>3, NoLaterPolka
<1> QED BY <1>1, <1>2, <1>3, VotingTypes

OneCommittable ==
    \A r, k \in Round : \A b, c \in Block : committable(r, b) /\ committable(k, c) => b = c

\* Any two blocks that can be committed, in whatever rounds, are the same.
LEMMA CommittableUnique ==
    ASSUME FaultFree
    PROVE  IInv => OneCommittable
<1> SUFFICES ASSUME IInv, NEW r \in Round, NEW k \in Round, NEW b \in Block, NEW c \in Block,
                    committable(r, b), committable(k, c)
             PROVE  b = c
  BY Zenon DEF OneCommittable
<1>1. VotingInv
  BY Zenon, InvParts
<1>2. polka(r, b) /\ polka(k, c)
  BY Zenon, <1>1, CommittableHasPolka
<1>3. k >= r \/ r >= k
  BY <1>1, VotingTypes
<1> QED BY Zenon, <1>2, <1>3, Locks DEF LockHolds

LEMMA Decisions ==
    ASSUME FaultFree
    PROVE  IInv => DecisionBacked /\ Agreement
<1> SUFFICES ASSUME IInv PROVE DecisionBacked /\ Agreement
  BY Zenon
<1>1. DecisionBacked
  BY Zenon DEF IInv, DecisionInv, DecisionBacked
<1>2. \A e \in Engines : csDecision[e] # None => csDecision[e] \in Block
  BY Zenon DEF IInv, TypeOK
<1> QED BY Zenon, <1>1, <1>2, CommittableUnique DEF DecisionBacked, Agreement, OneCommittable

LEMMA DecisionsStay ==
    ASSUME FaultFree
    PROVE  IInv /\ IInv' /\ [Next]_vars =>
        \A e \in Engines : csDecision[e] # None => csDecision'[e] = csDecision[e]
<1>1. IInv' => OneCommittable'
  BY CommittableUnique, PTL
<1> SUFFICES ASSUME IInv, IInv', [Next]_vars, NEW e \in Engines, csDecision[e] # None
             PROVE  csDecision'[e] = csDecision[e]
  BY Zenon
<1>2. sent \subseteq sent'
  <2>1. CASE Next
    BY Zenon, <2>1, NextEffect DEF VotingStep, Silent, Proposes, Prevotes, Precommits
  <2>2. CASE UNCHANGED vars
    BY Zenon, <2>2 DEF vars, netVars
  <2> QED BY Zenon, <2>1, <2>2
<1>3. csDecision'[e] # None
  BY Zenon, StillDecided DEF IInv
<1>4. ASSUME NEW d, d = csDecision[e], NEW c, c = csDecision'[e]
      PROVE  c = d
  <2>1. d \in Block /\ c \in Block
    BY Zenon, <1>3, <1>4 DEF IInv, TypeOK
  <2>2. \E r \in Round : committable(r, d)'
    BY ZenonT(30), <1>2, <1>4, QuorumStays DEF IInv, DecisionInv, committable
  <2>3. \E k \in Round : committable(k, c)'
    BY Zenon, <1>3, <1>4 DEF IInv, DecisionInv
  <2> QED BY Zenon, <1>1, <2>1, <2>2, <2>3 DEF OneCommittable
<1> QED BY Zenon, <1>4

\* No two engines ever decide different blocks.
THEOREM AgreementHolds ==
    ASSUME FaultFree
    PROVE  Spec => []Agreement
<1>1. IInv => Agreement
  BY Zenon, Decisions
<1> QED BY <1>1, Invariance, PTL

\* Every decision rests on +2/3 precommits for that block in one round.
THEOREM DecisionBackedHolds ==
    ASSUME FaultFree
    PROVE  Spec => []DecisionBacked
<1>1. IInv => DecisionBacked
  BY Zenon, Decisions
<1> QED BY <1>1, Invariance, PTL

\* Once a block can be committed, no other block gets a polka then or later.
THEOREM LocksHold ==
    ASSUME FaultFree
    PROVE  Spec => []LockHolds
BY Locks, Invariance, PTL

\* Every lock rests on a polka for the locked block in the locked round.
THEOREM LockBackedHolds ==
    ASSUME FaultFree
    PROVE  Spec => []LockBacked
<1>1. IInv => LockBacked
  BY Zenon DEF IInv, LockInv, LockBacked
<1> QED BY <1>1, Invariance, PTL

\* A decision is final: no later call changes it.
THEOREM DecisionIsFinal ==
    ASSUME FaultFree
    PROVE  Spec => DecisionFinal
<1>1. Spec => [][Next]_vars
  BY PTL DEF Spec
<1>2. IInv /\ IInv' /\ [Next]_vars =>
        [\A e \in Engines : csDecision[e] # None => csDecision'[e] = csDecision[e]]_vars
  BY Zenon, DecisionsStay
<1> QED BY <1>1, <1>2, Invariance, PTL DEF DecisionFinal

\* No engine sends two different votes of one phase in one round.
THEOREM NoDoubleVoteHolds ==
    ASSUME FaultFree
    PROVE  Spec => []NoDoubleVote
<1>1. IInv => NoDoubleVote
  <2> SUFFICES ASSUME IInv, NEW v \in sent, NEW w \in sent,
                      v.type \in {"prevote", "precommit"}, v.type = w.type, v.round = w.round
               PROVE  v.block = w.block
    BY Zenon DEF NoDoubleVote
  <2>1. VotingInv
    BY Zenon, InvParts
  <2>2. CASE v.type = "prevote"
    <3>1. PICK p \in sent : p.type = "proposal" /\ p.round = v.round /\ p.block = v.block
      BY Zenon, <2>1, <2>2 DEF VotingInv, PrevoteInv
    <3>2. PICK q \in sent : q.type = "proposal" /\ q.round = w.round /\ q.block = w.block
      BY Zenon, <2>1, <2>2 DEF VotingInv, PrevoteInv
    <3> QED BY Zenon, <2>1, <3>1, <3>2 DEF VotingInv, UniqueProposal
  <2>3. CASE v.type = "precommit"
    <3>1. polka(v.round, v.block) /\ polka(v.round, w.block)
      BY ZenonT(30), <2>1, <2>3 DEF VotingInv, PrecommitInv
    <3> QED BY Zenon, <2>1, <3>1, PolkaUnique
  <2> QED BY Zenon, <2>2, <2>3
<1> QED BY <1>1, Invariance, PTL

-----------------------------------------------------------------------------
(* The engines implement Consensus *)

\* A step that touches the decisions is that of one engine, and sends nothing.
decidesAlone ==
    \/ UNCHANGED csDecision
    \/ UNCHANGED sent /\ \E e \in Engines : \E b : csDecision' = [csDecision EXCEPT ![e] = b]

LEMMA ApplyDecidesAlone ==
    ASSUME NEW e \in Engines, NEW m, NEW rest, applyConsensusMessage(e, m, rest)
    PROVE  decidesAlone
<1> USE DEF netVars
<1>1. CASE handleProposal(e, m)
  BY Zenon, <1>1 DEF handleProposal, decidesAlone
<1>2. CASE handlePrevote(e, m)
  BY Zenon, <1>2 DEF handlePrevote, decidesAlone
<1>3. CASE handlePrecommit(e, m)
  BY Zenon, <1>3 DEF handlePrecommit, decidesAlone
<1>4. CASE handleCommit(e, m)
  BY Zenon, <1>4 DEF handleCommit, decidesAlone
<1>5. CASE handleNewView(e, m)
  BY Zenon, <1>5 DEF handleNewView, decidesAlone
<1>6. CASE handleViewChange(e, m, rest)
  BY Zenon, <1>6 DEF handleViewChange, decidesAlone
<1> QED
  BY Zenon, <1>1, <1>2, <1>3, <1>4, <1>5, <1>6 DEF applyConsensusMessage

LEMMA DecidesAlone ==
    ASSUME [Next]_vars
    PROVE  decidesAlone
<1>1. ASSUME NEW e \in Engines, StartConsensus(e) \/ RunConsensusRound(e) \/ Timeout(e) \/ TransitionStep(e)
      PROVE  decidesAlone
  BY Zenon, <1>1 DEF StartConsensus, RunConsensusRound, Timeout, TransitionStep, decidesAlone
<1>2. ASSUME NEW e \in Engines, ApplyBatched(e)
      PROVE  decidesAlone
  <2>1. CASE applyConsensusMessage(e, Head(batch[e]), Tail(batch[e]))
    BY Zenon, <2>1, ApplyDecidesAlone
  <2>2. CASE UNCHANGED csDecision
    BY Zenon, <2>2 DEF decidesAlone
  <2> QED
    BY Zenon, <1>2, <2>1, <2>2 DEF ApplyBatched
<1>3. ASSUME NEW e \in Engines, NEW m, Deliver(e, m)
      PROVE  decidesAlone
  BY Zenon, <1>3, ApplyDecidesAlone DEF Deliver
<1>4. CASE UNCHANGED vars
  BY Zenon, <1>4 DEF vars, decidesAlone
<1> QED
  BY Zenon, <1>1, <1>2, <1>3, <1>4 DEF Next

\* A step proposes one block or none.
LEMMA ProposesOne ==
    ASSUME FaultFree, IInv, [Next]_vars
    PROVE  \/ UNCHANGED proposedBlocks
           \/ \E b \in Block : proposedBlocks' = proposedBlocks \cup {b}
<1>1. CASE UNCHANGED sent
  BY Zenon, <1>1 DEF proposedBlocks
<1>2. ASSUME NEW e \in Engines, Proposes(e)
      PROVE  \E b \in Block : proposedBlocks' = proposedBlocks \cup {b}
  <2> DEFINE p == proposalOf(e, csRound'[e])
             b == <<e, cmBlocksProposed[e] + 1>>
  <2>1. sent' = sent \cup {p} /\ p.type = "proposal" /\ p.block = b
    BY Zenon, <1>2 DEF Proposes, proposalOf
  <2>2. b \in Block
    <3>1. cmBlocksProposed[e] + 1 \in 1 .. MaxProposals
      BY <1>2, EngineAssumption DEF Proposes, IInv, TypeOK
    <3> QED
      BY Zenon, <3>1, EngineAssumption DEF Block
  <2> HIDE DEF p, b
  <2>3. proposedBlocks' = proposedBlocks \cup {b}
    BY Zenon, <2>1 DEF proposedBlocks
  <2> QED
    BY Zenon, <2>2, <2>3
<1>3. ASSUME NEW v, sent' = sent \cup {v}, v.type # "proposal"
      PROVE  UNCHANGED proposedBlocks
  BY Zenon, <1>3 DEF proposedBlocks
<1>4. ASSUME NEW e \in Engines, Prevotes(e) \/ Precommits(e)
      PROVE  UNCHANGED proposedBlocks
  <2>1. PICK type \in {"prevote", "precommit"} : \E b : sent' = sent \cup {voteOf(type, e, b)}
    BY Zenon, <1>4 DEF Prevotes, Precommits
  <2>2. PICK b : sent' = sent \cup {voteOf(type, e, b)}
    BY Zenon, <2>1
  <2>3. voteOf(type, e, b).type # "proposal"
    BY Zenon, "prevote" # "proposal", "precommit" # "proposal" DEF voteOf
  <2> QED
    BY Zenon, <1>3, <2>2, <2>3
<1>5. CASE Next
  <2>1. VotingStep
    BY Zenon, <1>5, NextEffect
  <2> QED
    BY Zenon, <1>1, <1>2, <1>4, <2>1 DEF VotingStep, Silent
<1>6. CASE UNCHANGED vars
  BY Zenon, <1>1, <1>6 DEF vars, netVars
<1> QED
  BY Zenon, <1>5, <1>6

\* What an engine has decided was proposed.
decidedProposed == \A e \in Engines : csDecision[e] # None => csDecision[e] \in proposedBlocks

LEMMA DecidedWasProposed ==
    ASSUME FaultFree
    PROVE  IInv => decidedProposed
<1> SUFFICES ASSUME IInv, NEW e \in Engines, NEW d, d = csDecision[e], d # None
             PROVE  d \in proposedBlocks
  BY Zenon DEF decidedProposed
<1>1. VotingInv
  BY Zenon, InvParts
<1>2. PICK r \in Round : committable(r, d)
  BY Zenon DEF IInv, DecisionInv
<1>3. polka(r, d)
  BY Zenon, <1>1, <1>2, CommittableHasPolka
<1>4. PICK p \in sent : p.type = "proposal" /\ p.round = r /\ p.block = d
  BY <1>1, <1>3, PolkaProposed
<1> QED
  BY Zenon, <1>4 DEF proposedBlocks

\* Every call of every engine is, seen from outside, a proposal of one block, the
\* decision of one engine for a proposed block that no other decision contradicts,
\* or no step at all.
LEMMA StepImplements ==
    ASSUME FaultFree
    PROVE  IInv /\ IInv' /\ [Next]_vars => [Promise!Next]_<<proposedBlocks, csDecision>>
<1>1. IInv' => Agreement'
  BY Decisions, PTL
<1>2. IInv' => decidedProposed'
  BY DecidedWasProposed, PTL
<1> SUFFICES ASSUME IInv, IInv', [Next]_vars
             PROVE  [Promise!Next]_<<proposedBlocks, csDecision>>
  BY Zenon
<1>3. CASE UNCHANGED csDecision
  BY Zenon, <1>3, ProposesOne DEF Promise!Next, Promise!Propose
<1>4. CASE csDecision' # csDecision
  <2>1. PICK e \in Engines : UNCHANGED sent /\ \E b : csDecision' = [csDecision EXCEPT ![e] = b]
    BY Zenon, <1>4, DecidesAlone DEF decidesAlone
  <2>2. PICK b : csDecision' = [csDecision EXCEPT ![e] = b]
    BY Zenon, <2>1
  <2>3. UNCHANGED proposedBlocks
    BY Zenon, <2>1 DEF proposedBlocks
  <2>4. csDecision \in [Engines -> Block \cup {None}] /\ csDecision' \in [Engines -> Block \cup {None}]
    BY Zenon DEF IInv, TypeOK
  <2>5. csDecision'[e] = b /\ \A f \in Engines : f # e => csDecision'[f] = csDecision[f]
    BY Zenon, <2>2, <2>4
  <2>6. b # csDecision[e]
    BY <1>4, <2>2, <2>4
  <2>7. csDecision[e] = None
    BY Zenon, <2>5, <2>6, DecisionsStay
  <2>8. b # None /\ b \in Block
    BY Zenon, <2>4, <2>5, <2>6, <2>7
  <2>9. b \in proposedBlocks
    BY Zenon, <1>2, <2>3, <2>5, <2>8 DEF decidedProposed
  <2>10. \A f \in Engines : csDecision[f] \in {None, b}
    BY Zenon, <1>1, <2>5, <2>7, <2>8 DEF Agreement
  <2>11. Promise!Decide(e, b)
    BY Zenon, <2>2, <2>3, <2>7, <2>9, <2>10 DEF Promise!Decide
  <2> QED
    BY Zenon, <2>8, <2>11 DEF Promise!Next
<1> QED
  BY Zenon, <1>3, <1>4

\* The engines, with all their rounds, votes, locks and messages, implement the
\* promise of Consensus: each decides at most once, all decide the same block, and
\* it was proposed before the first of them decided.
THEOREM EnginesImplementConsensus ==
    ASSUME FaultFree
    PROVE  Spec => ImplementsConsensus
<1>1. Init => Promise!Init
  BY Zenon DEF Init, Promise!Init, proposedBlocks
<1>2. IInv /\ IInv' /\ [Next]_vars => [Promise!Next]_<<proposedBlocks, csDecision>>
  BY StepImplements
<1> QED
  BY <1>1, <1>2, Invariance, PTL DEF Spec, ImplementsConsensus, Promise!Spec

=============================================================================
