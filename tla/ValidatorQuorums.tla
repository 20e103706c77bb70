-------------------------- MODULE ValidatorQuorums --------------------------
(***************************************************************************)
(* The quorum and proposer arithmetic of ValidatorSet over every small     *)
(* validator set.  A behaviour fixes a validator set once, as              *)
(* newConsensusEngine does, and then counts rounds.                        *)
(***************************************************************************)
EXTENDS Integers, Sequences, FiniteSets, Functions

CONSTANTS
    Addresses,  \* the list of validator addresses
    MaxPower,   \* bound: no validator has more power
    MaxRound,   \* bound: no later round is looked at
    WordSize    \* 2^64 in the code

VARIABLES power, active, round

vars == <<power, active, round>>

Ids == {Addresses[i] : i \in DOMAIN Addresses}

\* The validators differ, three times the largest total power fits the word
\* (superMajority triples a power), and no round looked at is negative as an Int.
ASSUME QuorumsAssumption ==
    /\ Addresses \in Seq(Ids)
    /\ \A i, j \in DOMAIN Addresses : Addresses[i] = Addresses[j] => i = j
    /\ MaxPower \in Nat
    /\ MaxRound \in Nat
    /\ WordSize \in Nat
    /\ (MaxPower * Len(Addresses)) * 3 < WordSize
    /\ MaxRound + Len(Addresses) =< WordSize \div 2

totalPower == SumFunctionOnSet(power, Ids)

V == INSTANCE ValidatorSet WITH
        vsValidators <- Addresses, viPower <- power, viActive <- active,
        vsTotalPower <- totalPower % WordSize

\* Every validator set with at least one active validator.
Init ==
    /\ power \in [Ids -> 0 .. MaxPower]
    /\ active \in (SUBSET Ids) \ {{}}
    /\ round = 0

startNextRound ==
    /\ round < MaxRound
    /\ round' = round + 1
    /\ UNCHANGED <<power, active>>

Spec == Init /\ [][startNextRound]_vars

-----------------------------------------------------------------------------
(* Properties *)

powerOf(P) == SumFunctionOnSet(power, P)

\* superMajority says whether a set of voters holds more than two thirds of
\* the power, computed without wrapping.
SuperMajorityExact ==
    \A P \in SUBSET Ids : V!superMajority(P) <=> powerOf(P) * 3 > totalPower * 2

\* Any two super-majorities share a validator that has some power.
QuorumsIntersect ==
    \A P, Q \in SUBSET Ids :
        V!superMajority(P) /\ V!superMajority(Q) => powerOf(P \cap Q) > 0

\* When all validators weigh the same, superMajority is the count of
\* superMajorityCount.
CountAgrees ==
    (\A v, w \in Ids : power[v] = power[w] /\ power[v] > 0) =>
        \A P \in SUBSET Ids : V!superMajority(P) <=> Cardinality(P) >= V!superMajorityCount

\* The rounds among the next n in which v proposes.
turns(v, n) == {r \in round .. (round + n - 1) : V!shouldPropose(r, v)}

\* Each active validator proposes exactly once in as many consecutive rounds as
\* there are active validators, wherever they start; no other ever proposes.
ProposersRotate ==
    \A v \in Ids :
        Cardinality(turns(v, Cardinality(active))) = IF v \in active THEN 1 ELSE 0

=============================================================================
