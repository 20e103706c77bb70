-------------------------- MODULE DiscoveryManager --------------------------
(***************************************************************************)
(* Peer discovery (node/p2p discovery.rs): the routing table, the ban list *)
(* and the events that tell subscribers of them.                           *)
(*                                                                         *)
(* Of a peer record the id and the address are kept; an address may not    *)
(* parse.  age counts the time since last_seen, in units that make         *)
(* peer_timeout the constant PeerTimeout.  told is the last event sent     *)
(* about a peer, and renewed are the peers whose entry a later call has    *)
(* replaced since, without an event.  The code never reads max_peers,      *)
(* never gives a peer the status Connecting or Banned and never sends      *)
(* NeedMorePeers.                                                          *)
(***************************************************************************)
EXTENDS Naturals, FiniteSets, Sequences

CONSTANTS
    PeerId,
    ZeroId,         \* the id that bootstrap gives to every seed
    Addr,           \* addresses that parse
    BadAddr,        \* an address that does not
    bootstrap_peers,\* the addresses of the seeds, a sequence
    PeerTimeout,    \* peer_timeout
    target_outgoing,\* how many connections the manager asks for
    Unknown         \* no entry in the table

VARIABLES
    peers,          \* peer -> its entry
    banned,
    age,            \* peer -> how long ago it was seen
    told,           \* peer -> the last event about it
    renewed         \* the peers whose entry was replaced after that event

vars == <<peers, banned, age, told, renewed>>

PeerStatus == {"Discovered", "Connected", "Disconnected"}
TrackedPeer == [addr : Addr \cup {BadAddr}, status : PeerStatus]
PeerRecord == [peer_id : PeerId, addr : Addr \cup {BadAddr}]
DiscoveryEvent == {"NewPeerDiscovered", "PeerConnected", "PeerDisconnected", "PeerBanned"}

ASSUME DiscoveryAssumption ==
    /\ IsFiniteSet(PeerId)
    /\ ZeroId \in PeerId
    /\ bootstrap_peers \in Seq(Addr \cup {BadAddr})
    /\ PeerTimeout \in Nat
    /\ target_outgoing \in Nat
    /\ Unknown \notin TrackedPeer

TypeOK ==
    /\ peers \in [PeerId -> TrackedPeer \cup {Unknown}]
    /\ banned \in SUBSET PeerId
    /\ age \in [PeerId -> 0..PeerTimeout + 1]
    /\ told \in [PeerId -> DiscoveryEvent \cup {"Nothing"}]
    /\ renewed \in SUBSET PeerId

known == {p \in PeerId : peers[p] # Unknown}
withStatus(status) == {p \in known : peers[p].status = status}

\* DiscoveryManager::new
Init ==
    /\ peers = [p \in PeerId |-> Unknown]
    /\ banned = {}
    /\ age = [p \in PeerId |-> 0]
    /\ told = [p \in PeerId |-> "Nothing"]
    /\ renewed = {}

-----------------------------------------------------------------------------
(* The table *)

\* Mutant: the ban list is not consulted.
admitted_Anyone(records) == {records[k].peer_id : k \in DOMAIN records}

\* The peers that the records add or overwrite.
admitted(records) == {records[k].peer_id : k \in DOMAIN records} \ banned

\* The last record of a peer wins.
lastAddr(records, p) ==
    LET k == CHOOSE i \in DOMAIN records :
                /\ records[i].peer_id = p
                /\ \A j \in DOMAIN records : records[j].peer_id = p => j =< i
    IN  records[k].addr

\* Mutant: whether a peer is new is asked after it was inserted.
add_peers_AskedLate(records) ==
    /\ peers' = [p \in PeerId |->
          IF p \in admitted(records)
          THEN [addr |-> lastAddr(records, p), status |-> "Discovered"] ELSE peers[p]]
    /\ age' = [p \in PeerId |-> IF p \in admitted(records) THEN 0 ELSE age[p]]
    /\ renewed' = renewed \cup (admitted(records) \cap known)
    /\ UNCHANGED <<banned, told>>

\* add_peer for every record in turn.
add_peers(records) ==
    /\ peers' = [p \in PeerId |->
          IF p \in admitted(records)
          THEN [addr |-> lastAddr(records, p), status |-> "Discovered"] ELSE peers[p]]
    /\ age' = [p \in PeerId |-> IF p \in admitted(records) THEN 0 ELSE age[p]]
    /\ told' = [p \in PeerId |->
          IF p \in admitted(records) \ known THEN "NewPeerDiscovered" ELSE told[p]]
    /\ renewed' = (renewed \cup admitted(records)) \ (admitted(records) \ known)
    /\ UNCHANGED banned

bootstrap ==
    add_peers([k \in DOMAIN bootstrap_peers |-> [peer_id |-> ZeroId, addr |-> bootstrap_peers[k]]])

\* What mark_connected and mark_disconnected have in common.
mark(p, status, event) ==
    /\ peers' = IF p \in known THEN [peers EXCEPT ![p].status = status] ELSE peers
    /\ age' = IF p \in known THEN [age EXCEPT ![p] = 0] ELSE age
    /\ told' = [told EXCEPT ![p] = event]
    /\ renewed' = renewed \ {p}
    /\ UNCHANGED banned

mark_connected(p) == mark(p, "Connected", "PeerConnected")

\* Mutant: a lost connection is announced, but stays in the table.
mark_disconnected_Announced(p) == mark(p, "Connected", "PeerDisconnected")

mark_disconnected(p) == mark(p, "Disconnected", "PeerDisconnected")

ban_peer(p) ==
    /\ banned' = banned \cup {p}
    /\ peers' = [peers EXCEPT ![p] = Unknown]
    /\ age' = [age EXCEPT ![p] = 0]
    /\ told' = [told EXCEPT ![p] = "PeerBanned"]
    /\ renewed' = renewed \ {p}

stale == {p \in known : peers[p].status # "Connected" /\ age[p] > PeerTimeout}

prune_stale_peers ==
    /\ peers' = [p \in PeerId |-> IF p \in stale THEN Unknown ELSE peers[p]]
    /\ age' = [p \in PeerId |-> IF p \in stale THEN 0 ELSE age[p]]
    /\ UNCHANGED <<banned, told, renewed>>

\* Time passes; ages beyond the timeout are all alike.
Tick ==
    /\ age' = [p \in PeerId |-> IF p \in known /\ age[p] =< PeerTimeout THEN age[p] + 1 ELSE age[p]]
    /\ UNCHANGED <<peers, banned, told, renewed>>

Next ==
    \/ \E r1 \in PeerRecord : add_peers(<<r1>>)
    \/ \E r1, r2 \in PeerRecord : add_peers(<<r1, r2>>)
    \/ bootstrap
    \/ \E p \in PeerId : mark_connected(p) \/ mark_disconnected(p) \/ ban_peer(p)
    \/ prune_stale_peers
    \/ Tick

Spec == Init /\ [][Next]_vars

-----------------------------------------------------------------------------
(* Queries: the sets of peers that a random choice may return *)

candidates == (withStatus("Discovered") \cup withStatus("Disconnected")) \ banned

\* The choice is made before the addresses are parsed.
peers_to_connect(count) ==
    {{p \in chosen : peers[p].addr \in Addr} :
        chosen \in {S \in SUBSET candidates :
                       /\ Cardinality(S) =< count
                       /\ Cardinality(S) < count => S = candidates}}

\* Mutant: every known peer counts.
connected_peers_Known == known

connected_peers == withStatus("Connected")

needs_more_peers == Cardinality(connected_peers) < target_outgoing

peer_exchange_subset(count) ==
    {S \in SUBSET connected_peers :
        /\ Cardinality(S) =< count
        /\ Cardinality(S) < count => S = connected_peers}

-----------------------------------------------------------------------------
(* Properties *)

\* A banned peer is in no table, is not offered for dialling or exchange, and
\* no record of a peer exchange or a seed brings it back.
BannedStaysOut == banned \cap known = {}

\* Every peer that a peer exchange may hand out is one whose last event says
\* that it is connected.
SharedAreConnected ==
    \A n \in 0..Cardinality(PeerId) : \A S \in peer_exchange_subset(n) :
        \A p \in S : told[p] = "PeerConnected"

\* The manager stops asking for peers only when as many as it wants are
\* connected, by the last event about each.
TargetIsMet ==
    ~needs_more_peers =>
        Cardinality({p \in PeerId : told[p] = "PeerConnected"}) >= target_outgoing

\* A known peer whose last event says that it is connected counts as connected,
\* and is not dialled or pruned, exactly until another record of it arrives: that
\* makes it Discovered again, although nothing was said of its connection.
CountsReported ==
    \A p \in known : told[p] = "PeerConnected" => (p \in connected_peers <=> p \notin renewed)

=============================================================================
