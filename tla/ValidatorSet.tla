---------------------------- MODULE ValidatorSet ----------------------------
(***************************************************************************)
(* The validator set of the consensus layer: stake-weighted quorums and    *)
(* round-robin proposer selection (CryptoCoin.Consensus.Types and the      *)
(* selection functions of CryptoCoin.Consensus.Engine).                    *)
(*                                                                         *)
(* A ValidatorSet value never changes during a run of the engine           *)
(* (csValidatorSet is written once, by newConsensusEngine), so it is a     *)
(* group of constants here.  An address stands for the whole               *)
(* ValidatorInfo; keys, endpoint and metadata play no part in consensus.   *)
(***************************************************************************)
EXTENDS Integers, Sequences, FiniteSets, Functions

CONSTANTS
    vsValidators,   \* the list of validator addresses, in set order
    viPower,        \* address -> voting power
    viActive,       \* the addresses whose viStatus is Active
    vsTotalPower,   \* the stored total; a field, not computed from viPower
    WordSize        \* 2^64 in the code: all powers are Word64

ValidatorId == {vsValidators[i] : i \in DOMAIN vsValidators}

ASSUME ValidatorSetAssumption ==
    /\ vsValidators \in Seq(ValidatorId)
    /\ \A i, j \in DOMAIN vsValidators : vsValidators[i] = vsValidators[j] => i = j
    /\ viActive \subseteq ValidatorId
    /\ WordSize \in Nat \ {0}
    /\ vsTotalPower \in 0 .. (WordSize - 1)
    /\ viPower \in [ValidatorId -> 0 .. (WordSize - 1)]

validatorSetSize == Len(vsValidators)

isValidatorActive(v) == v \in viActive

\* The active ones among the first i validators, in order.
activeAmong[i \in 0 .. Len(vsValidators)] ==
    IF i = 0 THEN <<>>
    ELSE IF isValidatorActive(vsValidators[i])
         THEN Append(activeAmong[i - 1], vsValidators[i])
         ELSE activeAmong[i - 1]

activeValidators == activeAmong[Len(vsValidators)]

\* roundProposer indexes activeValidators modulo its length: an empty list
\* would divide by zero.
ASSUME SomeActiveAssumption == Len(activeValidators) > 0

\* The Word64 sum of the powers of a set of voters.  Every validator of the
\* set counts, whatever its status.
votingPower(voters) ==
    SumFunctionOnSet(viPower, voters \cap ValidatorId) % WordSize

\* Mutants: two thirds are enough, or a half is.
superMajority_AtLeast(voters) ==
    (votingPower(voters) * 3) % WordSize >= (vsTotalPower * 2) % WordSize
superMajority_Half(voters) ==
    (votingPower(voters) * 2) % WordSize >= vsTotalPower

superMajority(voters) ==
    (votingPower(voters) * 3) % WordSize > (vsTotalPower * 2) % WordSize

\* Mutant: rounded down.
superMajorityCount_Floor == (validatorSetSize * 2) \div 3

superMajorityCount == (validatorSetSize * 2) \div 3 + 1

\* Mutant: the turn goes through all validators, active or not.
roundProposer_AllValidators(round) ==
    vsValidators[(round % Len(vsValidators)) + 1]

\* fromIntegral from Word64 to Int: the upper half of the word is negative.
toInt(word) == IF word < WordSize \div 2 THEN word ELSE word - WordSize

roundProposer(round) ==
    activeValidators[(toInt(round) % Len(activeValidators)) + 1]

shouldPropose(round, v) == roundProposer(round) = v

isRoundProposer(round, v) == shouldPropose(round, v)

=============================================================================
