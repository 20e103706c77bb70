# Crypto_Coin: TLA+ models of consensus, storage, runtime, networking and Merkle trees

TLA+ modules for the protocol and node parts of Crypto_Coin, TLC configurations that
model-check them on small instances, and TLAPS proofs of the central results.
Everything is translated from the sources under `src/`.

## 1. The system

| Part | Source | State | Operations that change it |
|---|---|---|---|
| Validator set | `formal-protocol/crypto-coin-consensus/.../Types.hs`, `Engine.hs` | none: fixed when an engine is made | - (`superMajority`, `roundProposer`, ... are pure) |
| Consensus engine | `.../Consensus/Engine.hs` | `ConsensusState`, message queue, metrics, each in a `TVar` | `startConsensus`, `runConsensusRound`, `proposeBlock`, six message handlers, `timeoutHandler`, `transitionStep` |
| Storage manager | `node/storage/src/lib.rs` | head, height index, block cache, each behind its own lock | `store_block` |
| Node runtime | `node/node-core/src/runtime.rs` | sync status, height, shutdown channel, task handles | `start`, `shutdown`, `spawn`, `update_height`, `update_sync_status` |
| Peer discovery | `node/p2p/src/discovery.rs` | routing table, ban list | `add_peer`, `mark_connected`, `mark_disconnected`, `ban_peer`, `prune_stale_peers`, `bootstrap` |
| Transport, P2P manager | `node/p2p/src/transport.rs`, `lib.rs` | connections | `start`, `dial`, `send`, `broadcast`, `disconnect`; `listen` |
| Wire protocol | `node/p2p/src/protocol.rs` | none | frame encoding and decoding |
| Block and transaction validation | `.../Protocol/Block.hs`, `Types.hs` | none of its own | `createBlock`, `validateBlock`, `validateTransaction` |
| Merkle trees | `.../Protocol/Merkle.hs`, `crypto/merkle/src/lib.rs` | none | root, proof, verification |
| Cryptography | `.../Protocol/Crypto.hs`, `crypto/signatures/src/lib.rs` | none | hashes, signatures |
| HTTP API | `node/api/src/lib.rs` | none | - |

Two parts call each other: the P2P manager asks peer discovery whom to dial, and
the runtime runs (and drops) the futures that use the storage. Otherwise the
parts are not connected yet: `commitBlock` does not reach the storage
("In production: write block to storage", `Engine.hs:363`), and nothing connects
an engine's queue to the network.

**Where it is hard.** Engines in different rounds that see votes in different
orders; votes kept across rounds; locks that have to carry a possible decision
into later rounds; handlers that never look at the step they are in; Word64 arithmetic in
the quorum test; three maps updated one lock at a time by tasks that may be
dropped at any await; a shutdown with one signal for many tasks, whose handles
are pushed after they run; a lock held across dials and writes; an index that is
halved level by level; leaves that look like the hashes of inner nodes.

**What should hold.** Agreement, finality, decisions and locks that rest on
quorums, no double votes, decision under synchrony; exact and intersecting
quorums; a head that is never behind, reads that see finished stores; shutdowns
that return and leave nothing half done; bans that last, connections that are
counted; streams of whole messages and broadcasts that reach everyone; frames that
are accepted only as sent; roots that stand for their leaves. Where the code keeps
one of these only in part, the property says exactly which part (section 3).

**Reading unfinished code.** The Haskell sources do not compile as they stand
(for example `startNextRound` is given a round in one place and a state in
another). The model takes the evident meaning. Three placeholders matter:
`pmBlock = undefined` (`Engine.hs:180`), and `collectVotes` and
`collectViewChanges`, which return `[]` (`Engine.hs:461-470`). The constant
`PlaceholdersFilled` chooses between the code as it is (`FALSE`) and its
completion (`TRUE`): a proposal carries a freshly built block, and the
collectors return the votes the engine has sent or been handed. That completion
is an assumption about code that is not there; its definitions (`remember`,
`messageLog`, `deliverable`) are marked external in `PROJECT.json`.

## 2. Modules

| Module | Role |
|---|---|
| `ValidatorSet` | quorum arithmetic modulo `WordSize`, proposer selection; constants only |
| `ValidatorQuorums`, `MCQuorums` | the same arithmetic over every small validator set |
| `Consensus` | what the validators promise together (abstract) |
| `ConsensusEngine` | the engines, their driver and the network |
| `MCConsensus` | instances of it |
| `ConsensusSafety` | the engines as an implementation of `Consensus`, the hypotheses of the agreement proof and its inductive invariant |
| `MCSafety` | the instances that satisfy them, as TLC evaluates |
| `ConsensusProofs` | type correctness, what holds under any driver, agreement and the other fault-free theorems |
| `RecursionProofs` | induction, recursive functions and sums over finite sets, for the other proofs |
| `QuorumProofs` | the properties of `ValidatorQuorums` |
| `BlockStore` | what a block store promises (abstract) |
| `StorageManager` | the storage manager, task by task and lock by lock |
| `NodeRuntime` | tasks, handles, shutdown signal, status |
| `Node`, `MCNode` | the runtime with storage calls as the futures of its tasks, and an instance |
| `NodeProofs` | the storage refines `BlockStore`, head and read guarantees; a node uses its storage as `StorageManager` allows; shutdown |
| `DiscoveryManager`, `MCDiscovery`, `DiscoveryProofs` | the routing table, an instance, its proofs |
| `P2PManager`, `MCNetwork`, `NetworkProofs` | concurrent calls of manager and transport, with `DiscoveryManager` inside; an instance; its proofs |
| `WireFrame`, `MCFrames`, `FrameProofs` | frames over a bad connection, an instance, proofs |
| `MerkleTree`, `MCMerkle`, `MerkleProofs` | the Rust Merkle crate with symbolic hashes, an instance, its proofs |

### ConsensusEngine

The variables carry the names of the fields (`csRound`, `csStep`,
`csLockedBlock`, ... , `ceMsgQueue`, `cmBlocksProposed`), as functions of the
engine. `batch[e]` is what is left of the list that `processMessages` drained,
`sent` is every message broadcast so far and `received[e]` what the engine keeps
for the collectors.

One thread drives each engine, so a call is one action, except that
`processMessages` applies a batch one message at a time (`ApplyBatched`).
`StartConsensus`, `RunConsensusRound`, `Timeout` and `TransitionStep` are the
exported calls. `Deliver(e, m)` hands a message to `applyConsensusMessage`,
which runs the whole handler. A view change that starts a round adds to what is left
of the batch; as an engine queues only its own proposals and votes, nothing is ever
left there. The network is external: any message ever broadcast may reach any other
engine, in any order, any number of times, or never. `DriverMsgs` are messages of validators outside `Engines`; they model
software that votes nil or sends commits, view changes and new views, which this
engine never sends itself.

`roundProposer` converts the round from Word64 to Int (`toInt`), which turns negative
at half the word, where the rotation of the proposers breaks once. The proofs about the
engine allow it; `ProposersRotate` is about rounds below it (`QuorumsAssumption`).

Left out: signatures (never verified by the engine), times of day, `ceDecisions`
and the metrics other than `cmBlocksProposed`, none of which is read.

### StorageManager

A task runs alone between two awaits, so `store_block` is three actions
(`StoreIndex`, `StoreCache`, `StoreHead`) and `get_by_height` two (`ReadIndex`,
`ReadCache`). `Cancel` drops a task's future at an await, as the `select!` of
`NodeRuntime::spawn` does on shutdown. A block stands for its hash, and any number of
blocks may share a height. `completed` and `answer` record which calls returned and
with what, `dropped` the blocks whose `store_block` was dropped between its two
inserts, and `missing` of an answer the block that was looked up while its own
`store_block` was between them or dropped there (`unfinished`). `prune` returns `Ok(0)`
and `init` and `shutdown` touch no map, so they have no action.

### NodeRuntime and Node

`spawn` is two actions, because the task is running before its handle is pushed
(`spawn`, `pushHandle`); `shutdown` is four (`callShutdown`, `sendSignal`,
`drainHandles`, `joinTasks`) and keeps the lock of the handles from the drain to
the last join. The channel holds one signal. `spawn` clones the receiver, which
tokio's mpsc does not offer; the model reads the clones as one shared queue, so a
signal reaches one task. `owed[c]` records the tasks whose `spawn` had returned
when `shutdown` was called. Not modelled: events, metrics, and `info`, which
reads status and height in two steps and so may combine values of two moments.

`Node` composes it with `StorageManager`. `spawn` takes any future: the tasks in
`Services` make storage calls for ever, the others make one. `PollTask` runs the
future of a task to its next await and completes the task when its one call returns;
`DropTask` is the other branch of `select!`, in which the runtime's `ReceiveSignal` and
the storage's `Cancel` are one step.

### DiscoveryManager

`peers` is the table, `told` the last event about each peer, `age` the time since
`last_seen`, which `Tick` advances, and `renewed` the peers that were in the table and
were announced again since the last event about them. `add_peers` handles one batch of
records, `bootstrap` the seeds, all of which get the zero id. Queries that choose at
random (`peers_to_connect`, `peer_exchange_subset`) are the sets of possible
results.

### P2PManager

A call is `Begin`, `Acquire` (the write lock of the transport), the steps under
the lock, `Return`. A dial succeeds or fails; a message is two writes, of its
length and of its data; a write fails when the connection is lost. `streams` is
what reached the other end of every connection ever made. `Cancel` drops a call that
waits, for the lock or in a dial or a write, as the `select!` of `NodeRuntime::spawn`
does with any future: the lock is free again, and `torn` records the message whose
length was written and whose data was not. A length stands for the message it
announces; sizes, and the cast `data.len() as u32` (`transport.rs:130`), are left out.
`disconnect` is an operation of the transport (`transport.rs:149`), for whoever shares
it; the manager itself never calls it.

`identity` is the result of the handshake for each address: the shipped placeholder gives one id to
all, which is one of the instances. `RemoteCloses` is what `listen` does to a
remote end: the accepted stream is dropped once the peer is announced. `start` is
`Discovery!bootstrap` and a choice of `Discovery!peers_to_connect`; it never calls
`listen`, although its comment says so (`p2p/src/lib.rs:155`).

### WireFrame

A frame is a sequence of units: magic, length, checksum, then one per payload
byte. `Damage`, `Truncate` and `Follow` alter, cut and extend what arrives. The
length is taken modulo `WordSize`, as `as u32` does. The checksum is injective
and damage never produces a valid one (`GarbageAssumption`).

### MerkleTree

The hash of two hashes is the pair of them, so that hashing is injective. A leaf is any
hash, as `compute_root` takes any: the zero hash of the padding and hashes of two
hashes are among the leaves of the instance. No hash is made from itself
(`NoCycleAssumption`). `build_tree` and `next_power_of_two` are recursive functions.
`MerkleTree::depth` goes down the left children; `leftEdge` is the nodes it meets,
and `depth` counts them up to the leaf.
`GenerateProof` and `CollectSibling` are `generate_proof` and the iterations of
`collect_siblings`; `ReceiveProof` hands `verify` a proof about any index and leaf,
with the generated siblings or a true path, and `VerifyStep` is an iteration of its
loop. `hash_leaf`, which would keep leaves apart from the rest, is called by none of them
(`merkle/src/lib.rs:231`).

## 3. Runs

| Run | Asks | Result |
|---|---|---|
| `MCAgreement` | three engines, rounds 0 and 1, a stray commit message: the engines implement `Consensus`; agreement, finality, backing of locks and decisions, single votes, and the invariant of the proof, which includes the types | holds, 185,018 states |
| `MCWrap` | powers whose triple exceeds the word, nil votes and view changes from outside: a decided block was proposed in turn | holds, 649 states |
| `MCShipped` | the placeholders as shipped, every exported call and message: votes follow proposals, decisions are final | holds, 960 states |
| `MCQuorums` | every set of four validators with powers 0 to 3: exact and intersecting quorums, the count of equal validators, proposer rotation | holds, 11,520 states |
| `MCNode` | a task that stores or reads, a service, two blocks of one height, two shutdowns: block store refinement, head never behind, reads see finished stores unless an unfinished one hides them, shutdown leaves nothing it owes half done, shutdown returns unless a service did not get the signal | holds, 784,660 states |
| `MCDiscovery` | three peers, any calls: bans last, shared peers are connected, the target is met before the manager stops asking, a reported connection is counted until the peer is announced again | holds, 97,336 states |
| `MCNetwork` | two callers, two addresses, four calls, any of them dropped: whole messages on every stream but for a dropped send, none of them twice, broadcasts reach all, calls return | holds, 376,887 states |
| `MCFrames` | payloads of up to five bytes with lengths modulo four: only what was sent is accepted; undamaged frames are accepted exactly when their length fits | holds, 129,414 states |
| `MCMerkle` | lists of up to five leaves: bounds of the halving, levels and depth, which lists share a root, exactly the true path of a leaf is accepted, generated proofs verify for one or two leaves and no more | holds, 180,569 states |
| `MCNilVotes` | decisions backed by precommits for that block when another validator votes nil | violated |
| `MCDecide` | two engines of three, fair scheduling and delivery: a round that lasts decides | violated |
| `MCProofs` | generated proofs verify | violated |

**What the violations say.** `MCNilVotes`: `handlePrecommit` counts all precommits
of the round and takes the block of the first, against "If +2/3 precommits for
block hash `v`" (`docs/specifications/consensus-spec.md:129`). `MCDecide`: both engines
are locked on a block of round 0, and the proposer of round 1 proposes a new block
instead of `csValidBlock`, with the round of its own lock as `pmValidRound`
(`Engine.hs:182`); line 221 asks for a higher one, so everyone, the proposer included,
refuses the proposal, against "The protocol eventually commits a new block under
partial synchrony" (`consensus-spec.md:10`, and the theorem at `:177`). `MCProofs`:
`collect_siblings` pushes, from the root down, one leaf hash of the opposite half
(`merkle/src/lib.rs:195`), and `verify` combines siblings from the leaf up, so
proofs for more than two leaves are refused; the test at `merkle/src/lib.rs:341`
asserts that they verify. `AcceptedIsPath` shows that `verify` itself is right, and
`OnlySmallProofsVerify` that one and two leaves work and every longer list fails.

**Where the properties end.** Some properties make an exception, because the code
does less than its comments say. The exception is part of the property, so that
the run shows that nothing else goes wrong.

- `ReadSeesStored`: a second block of a height is in the index before it is in the
  cache, and `get_by_height` returns nothing in between, although another block of
  that height was stored; a `store_block` dropped there leaves the height that way.
  `storage/src/lib.rs:11` promises "Atomic batch writes for consistency"; lines 87
  and 88 are two inserts under two locks.
- `ShutdownReturns`: one signal is sent "to all tasks" (`runtime.rs:75`), one task
  receives it, and the handles of the others are awaited. A service that did not get
  it keeps `shutdown` waiting (`signalSpent`). A signal that no task takes stays in the
  channel, stops a task spawned later, and makes the next `shutdown` wait at
  `sendSignal`; this is why the property speaks of some call of `shutdown`.
- `CountsReported`: `add_peer` resets a connected peer to Discovered
  (`discovery.rs:109`), so that it is no longer counted or shared and may be dialled
  again or pruned.
- `FramesWhole`: a send that is dropped between its two writes leaves a length without
  data on a stream that stays in use (`transport.rs:131`, `:132`).
- `RootBinds`: the lists [a, b, c] and [a, b, c, zero] share a root, and so do [l, r]
  and the one hash of l and r. `merkle/src/lib.rs:230` and the tests at `:295` and
  `:302` ask for leaves that are hashed by `hash_leaf`; nothing calls it.

`Agreement` has a hypothesis that the code does not enforce, a single run of a round
(`FaultFree`). With the constants of `MCAgreement`, but `OneRunPerRound = FALSE`,
`MaxProposals = 2` and no driver messages, TLC finds it violated in `MCConsensus`:
`runConsensusRound` proposes every time it is called, each proposal gets a prevote, and
two engines decide differently (`Engine.hs:159`, spec line 9).

Further disagreements with the documents can be read off a single line and have
no run: every round has the same timeout (`Engine.hs:485`, spec line 38),
`handleNewView` needs no votes (`Engine.hs:411`, spec lines 144-145), proposer
selection ignores the stake (`Engine.hs:437`, `formal-methods.md:77`), blocks are
kept in memory only (`storage/src/lib.rs:54-62`, `:3`), `prune` removes nothing, and
`max_peers` limits no table (`discovery.rs:17`).

**Bounds.** `MaxRound` bounds the rounds. Two rounds are what it takes for a lock
to meet a competing proposal; three for a lock to be replaced. `MaxProposals`
bounds the blocks an engine builds; one is enough for a proposer that has one
round, two for a repeated proposal. `MaxQueue` bounds the queue after a
delivery; in `MCDecide` it is 4, which holds the votes of a round. In `MCAgreement` powers are 1, 1, 2, so that a quorum needs the third
validator and either other one. In `MCQuorums`, `WordSize = 64` exceeds three
times the largest total, 36; `MCWrap` has a total of 6 in a word of 16.

In `MCNode` a service stores a block of height 0 or reads that height, again and again,
while the other task stores a second block of height 0 or one of height 1, or reads:
every overlap of two storage operations, with a shutdown dropping either of them and a
second shutdown meeting the full channel or the taken lock. The three orders that
matter are there: two stores of one height, two of different heights, a store and a
read. In
`MCDiscovery` ages stop at one past the timeout, where every older age behaves
alike; three peers with a target of two leave one to replace another. In
`MCNetwork` four calls let two dials be followed by two overlapping sends. In
`MCFrames` a word of 4 makes payloads of four and five bytes wrap. In `MCMerkle`
five leaves pad to eight, three levels, and the leaves include the zero hash and the
hash of two others. Deadlock is not checked where a run ends
by its bounds: `MCQuorums` (rounds), `MCNetwork` (calls), `MCFrames` (bytes) and
`MCMerkle`, `MCProofs` (one proof per behaviour).

**Fairness.** `FairSpec` assumes weak fairness of `StartConsensus` and
`ApplyBatched` (a driver that keeps calling, a loop that runs to its end) and of
`Timeout` (a timer that fires), and strong fairness of delivery for each
receiver, sender, message type and round: a network that loses messages but not
for ever. None of it is in `src/`, which has no driver; it is the partial
synchrony of the specification. The conclusion is only claimed from a state in
which all engines are in a round that does not time out (`synchronous`).

`NodeFairSpec`: a task that is ready is polled, and the steps of `spawn` and
`shutdown` that wait for a lock or for room in the channel are taken when they
stay possible, as tokio's scheduler and its fair locks guarantee. So is `DropTask`: a
signal in the channel makes the other branch of `select!` ready, and a task that makes
calls for ever sees it. Futures need not end: nothing makes a service return. `FairSpec` of `P2PManager`: strong fairness of `Acquire`, since tokio
queues the waiters of a lock in order; weak fairness of dials, which end by
`dial_timeout`, of `Disconnect` and of `Return`. A write has no timeout and no
fairness: `CallsReturn` assumes instead that none blocks for ever.

## 4. Proofs

Every safety property that a passing run checks is proved for all values of the
constants, with the hypotheses given here.

**Recursion and sums** (`RecursionProofs`). The provers cannot use an induction
principle that takes an operator, so the induction is done over sets: a set of
naturals that has 0 and is closed under successor is `Nat` (`NatClosed`), and a set
that contains an element as soon as it contains all of smaller measure is everything
(`MeasureInduction`). `RecursionExists` shows that a function defined by recursion on
a measure exists, which is what a recursive definition needs before it says anything.
`SumRecursion` gives the folds of the library their equation: the sum of a set is that
of the set without one element, plus the element, whichever element `CHOOSE` takes.
Additivity, monotony and constant sums follow, and with them `WordMajority` (the
Word64 test is exact when the tripled total fits) and `ThirdsOverlap` (two sets with
more than two thirds share weight).

**Quorums** (`QuorumProofs`), for any number of validators, any powers and any
word that holds three times the largest total, with rounds below half the word
(`QuorumsAssumption`):
`SuperMajorityExact`, `QuorumsIntersect`, `CountAgrees` and `ProposersRotate`. For
the last, `activeAmong` lists each active validator once, so the turns of a window of
rounds are the residues of consecutive numbers, each once.

**Any driver** (`ConsensusProofs`). `TypeCorrect` holds for every driver, all powers
and with or without the placeholders. So does `PrevoteFollowsProposal`: whatever an
engine has queued, batched or kept was broadcast or came from the driver
(`HandledInv`), and every step adds only votes and decisions that rest on such
messages (`NextJustified`). With the placeholders as shipped, `DecisionFinal` holds
for every driver (`ShippedDecisionIsFinal`): nobody is no super-majority, so only a
commit message decides, and it never changes a decision. `DecisionProposed` holds for
all powers, also those for which the test wraps, if outsiders vote nil only and the
commit step is not forced (`OutsidersNil`, which `MCWrap` satisfies).

**Agreement** (`ConsensusProofs`) has the hypothesis `FaultFree` of
`ConsensusSafety`: the stored total is the sum of the powers and its triple fits the
word (`PowersSummed`), the placeholders are filled, a proposer runs a round once, no
step is forced, and outsiders send only view changes and commits. `MCSafety` assumes
it, so TLC evaluates it on the instance of `MCAgreement`. That two super-majorities
share a validator is a lemma (`QuorumIntersection`, from `ThirdsOverlap`). The number
of validators, their powers, the rounds and the proposals are arbitrary.

`Agreement` is not inductive: it says nothing about votes under way. `IInv` adds
that messages in queues were broadcast (`Provenance`), that a round has one
proposal and a block one round (`ProposalInv`, `UniqueProposal`), that prevotes
follow proposals and precommits follow polkas (`PrevoteInv`, `PrecommitInv`,
`LockInv`), that decisions have quorums (`DecisionInv`), and the central part,
`ReleaseInv`: an engine that precommitted in round r prevotes in a later round k
only if a round strictly between had a polka, or a quorum without precommits in r
has prevoted in k. As to votes, every action is silent or sends one proposal, one
prevote or one precommit (`VotingStep`); the invariant is preserved by those four
kinds of step, and `NextEffect` shows that each action is one of them.

From `IInv`: suppose b can be committed in r and some later round has a polka.
Take the earliest such round k (`WFMin` on the naturals). The two quorums share
an engine, so `ReleaseInv` gives either an earlier polka after r, against the
choice of k, or a quorum that avoids the precommitters of r, against
intersection (`NoLaterPolka`). Hence `LockHolds`, `Agreement`, `DecisionBacked`
and, because quorums of votes are never lost, `DecisionFinal`. `LockBacked` and
`NoDoubleVote` follow as well.

`EnginesImplementConsensus` sums this up: under `FaultFree` the engines implement
`Consensus`, whose `proposed` is the blocks of the proposals sent and whose
`decision` is `csDecision`. A step that changes a decision does so for one engine
alone and sends nothing (`DecidesAlone`), and every other sends at most one proposal
(`ProposesOne`), so a step is one `Propose`, one `Decide` or a stutter
(`StepImplements`). The guard of `Decide` comes from `DecisionFinal`, from `Agreement`
after the step, and from the fact that a decided block has a polka and so a proposal
(`DecidedWasProposed`).
`MCAgreement` checks `IInv`. View changes are within `FaultFree`, so agreement is
proved with rounds that are cut short by them.

**Storage and node** (`NodeProofs`), for any tasks, blocks and dropped calls: `HeadIsHighestHolds`,
`Refinement` (the cache and the head implement `BlockStore`) and `ReadSeesStoredHolds`,
for any blocks, forks included. The last needs that a height with a finished store is
in the index (`IndexInv`), that a reader has looked up a hash of the height it expects
(`LookupInv`), and that every hash the index or a reader names is in the cache or has an
unfinished `store_block` (`NamedInv`).

For any tasks, calls and shutdowns of a node: every step of a node is a step
of `StorageManager` or leaves it alone (`NodeUsesStorage`), because a dropped
future is a `Cancel`; so the three theorems above carry over to a node.
`ShutdownQuiesces` is not inductive, as it does not say where handles are.
`NodeInv` adds that a task is in a storage call only while it runs (`CallInv`),
that one shutdown at a time holds the lock and has emptied the list (`LockInv`),
that a task whose `spawn` returned has its handle in the list, in a shutdown's
hands, or is done (`HandleInv`), and that a shutdown owes only such tasks
(`OwedInv`). A second shutdown gets the lock only after the first has joined,
which is why an empty list means that everything is done.

**Discovery** (`DiscoveryProofs`), for any finite set of peers, seeds, timeout and target:
`DiscoveryInv` ties the status Connected to the last event, and a status that differs
from it to `renewed`. `SharedAreConnected`, `CountsReported` and `TargetIsMet` follow
from it, the last by the cardinality of subsets.

**Network** (`NetworkProofs`), for any callers, peers, addresses and handshakes, also ones that
give two peers one id: who has written a length holds the lock and the length is
the last unit of its stream (`WriterInv`, `HolderInv`); every other stream is made
of pairs, but for the lengths in `torn`, or is broken (`WireInv`). A call that is dropped
gives up the lock and puts the length it had written into `torn` (`CancelInv`); a broadcast has still to send to whom it has not
reached (`ReachInv`). `FramesWhole` and `BroadcastReaches` follow.

`SentOnce` needs more, since it compares what a call writes with all that was
written before. `OnceInv` adds that no two peers share a stream (`StreamInv`; a dial
takes a new one, so this holds for every handshake), that a call has a message of
its own (`MessageInv`), that who waits for the lock has written nothing (`WaitInv`),
and that its holder has written to a peer it has still to send to at most the length
it is in the middle of (`TodoInv`). A write therefore appends a unit that its stream
does not have, and leaves the streams of the other peers to do alone.

**Frames** (`FrameProofs`), for payloads and words of any size: `FrameInv` says of which kind
each unit is and that the checksum on the wire is the one of the payload or
garbage. A frame that passes `validate` carries data with the checksum of the
payload; as the checksum is injective, it is the payload.

**Merkle trees** (`MerkleProofs`), for leaves that are any hashes of which none is made
from itself (`NoCycleAssumption`), and lists of any length.
`next_power_of_two` is the least power of two not below its argument, and the recursive
`build_tree` exists and has the equation of the code (`TreeExists`). By induction on the
length, a list has the root of one 2^k times as long exactly if each of its elements is
the root of the part of 2^k elements in its place: a hash of two hashes determines both,
and halving either list halves the parts with it (`RootOfParts`). Of padded lists, with
the elements of the padding written out (`Widened`), this is `RootBinds`. The properties of proofs are not inductive, as they
speak of finished loops. `Inv` says, of `collect_siblings`, that the half that is left
and the siblings taken add up to the levels of the tree, and of `verify`, that the
hash computed so far is the root of the group it has climbed to exactly when the leaf
is the one at its index and the siblings used are the neighbours on the way. `RootUp`
carries this one level up: the root of a group is the hash of the roots of its two
halves, and a hash determines both. At the top the group is the whole padded list,
which gives `AcceptedIsPath`. `OnlySmallProofsVerify` follows: with three leaves or
more the siblings of the true path go from a leaf to the root of half the tree
(`PathEnds`), while `collect_siblings` puts the leaf across first and the neighbour
last (`PlaceAcross`). Were the two the same, the root of the other half would be one of
its own leaves (`OtherHalfRoot`), which `NoCycleAssumption` excludes.

`DepthsAgree` has a recursion on trees in it. The node k steps down the left edge of
the tree of a list is the tree of the first part of the list, 2^k times shorter
(`Front`, `EdgeChildren`, `LeftEdge`), so the first leaf on the edge is where one
element is left, and `depth` is the `tree_depth` of the padded length
(`DepthOfTree`).

**Only model-checked.** Liveness (`ShutdownReturns`, `CallsReturn`), which is beyond the
prover. Nothing is claimed outside the hypotheses
above: what fails there is in section 3.

## 5. Not modelled

- Block and transaction validation (`Block.hs`, `Types.hs`): the state transition
  it serves, `CryptoCoin.Protocol.State`, is imported and missing from the
  repository. What is left are predicates over single values.
- The Haskell Merkle tree: a second implementation of the same tree. Its
  `nextPowerOfTwo` is 0 for two or more leaves, since 1 `shiftL` 63 is negative.
- One engine called by several threads: the sources have no driver that says
  which threads share an engine.
- The handshake and message types of the wire protocol: data that no code sends.
- Configuration, metrics, errors: records and counters that no decision reads.
- Cryptographic primitives: byte-level functions without state; hashes are taken
  to be injective.
- The HTTP API: a stub.
