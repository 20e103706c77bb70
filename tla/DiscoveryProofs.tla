--------------------------- MODULE DiscoveryProofs --------------------------
(***************************************************************************)
(* Proofs about DiscoveryManager, for any peers, seeds, timeout and target.*)
(***************************************************************************)
EXTENDS DiscoveryManager, FiniteSetTheorems, TLAPS

\* Whoever the table calls connected is connected by the last event about it; the
\* converse, for the peers in the table, fails for the renewed ones only.
DiscoveryInv ==
    /\ TypeOK
    /\ BannedStaysOut
    /\ CountsReported
    /\ \A p \in withStatus("Connected") : told[p] = "PeerConnected"

-----------------------------------------------------------------------------

\* The initial state, with an empty table.
LEMMA InitInv == Init => DiscoveryInv
  BY DiscoveryAssumption DEF Init, DiscoveryInv, TypeOK, BannedStaysOut, CountsReported, known, withStatus

\* The records of an exchange or of the seeds: each peer's entry gets an address
\* of theirs.
LEMMA AddInv ==
    ASSUME DiscoveryInv,
           NEW records,
           \A p \in admitted(records) : lastAddr(records, p) \in Addr \cup {BadAddr},
           add_peers(records)
    PROVE  DiscoveryInv'
<1>1. TypeOK'
  <2>1. peers' \in [PeerId -> TrackedPeer \cup {Unknown}]
    BY DEF add_peers, DiscoveryInv, TypeOK, TrackedPeer, PeerStatus
  <2>2. age' \in [PeerId -> 0..PeerTimeout + 1]
    BY DiscoveryAssumption DEF add_peers, DiscoveryInv, TypeOK
  <2>3. told' \in [PeerId -> DiscoveryEvent \cup {"Nothing"}]
    BY DEF add_peers, DiscoveryInv, TypeOK, DiscoveryEvent
  <2>4. renewed' \in SUBSET PeerId
    BY DEF add_peers, known, DiscoveryInv, TypeOK
  <2> QED
    BY <2>1, <2>2, <2>3, <2>4 DEF add_peers, DiscoveryInv, TypeOK
<1>2. BannedStaysOut'
  BY DEF add_peers, admitted, DiscoveryInv, BannedStaysOut, known
<1>3. ASSUME NEW p \in withStatus("Connected")' PROVE told'[p] = "PeerConnected"
  <2>1. p \in PeerId /\ p \notin admitted(records)
    BY DEF withStatus, known, add_peers
  <2>2. p \in withStatus("Connected") /\ told'[p] = told[p]
    BY <2>1 DEF withStatus, known, add_peers
  <2> QED
    BY <2>2 DEF DiscoveryInv
<1>4. ASSUME NEW p \in known', told'[p] = "PeerConnected"
      PROVE  p \in connected_peers' <=> p \notin renewed'
  <2>1. p \in PeerId /\ peers'[p] # Unknown
    BY <1>4 DEF known
  <2>2. CASE p \in admitted(records)
    <3>1. p \in known
      BY <1>4, <2>1, <2>2 DEF add_peers
    <3>2. peers'[p].status = "Discovered" /\ p \in renewed'
      BY <2>1, <2>2, <3>1 DEF add_peers
    <3> QED
      BY <3>2 DEF connected_peers, withStatus
  <2>3. CASE p \notin admitted(records)
    <3>1. peers'[p] = peers[p] /\ told'[p] = told[p] /\ (p \in renewed' <=> p \in renewed)
      BY <2>1, <2>3 DEF add_peers
    <3> QED
      BY <1>4, <2>1, <3>1 DEF DiscoveryInv, CountsReported, connected_peers, withStatus, known
  <2> QED
    BY <2>2, <2>3
<1> QED
  BY <1>1, <1>2, <1>3, <1>4 DEF DiscoveryInv, CountsReported

\* A record that is alone is the last of its peer.
LEMMA OneRecord ==
    ASSUME NEW r1 \in PeerRecord
    PROVE  \A p \in admitted(<<r1>>) : lastAddr(<<r1>>, p) \in Addr \cup {BadAddr}
  BY SMTT(30) DEF admitted, lastAddr, PeerRecord

\* Of two records, each peer has a last one.
LEMMA TwoRecords ==
    ASSUME NEW r1 \in PeerRecord, NEW r2 \in PeerRecord
    PROVE  \A p \in admitted(<<r1, r2>>) : lastAddr(<<r1, r2>>, p) \in Addr \cup {BadAddr}
<1> SUFFICES ASSUME NEW p \in admitted(<<r1, r2>>)
             PROVE  lastAddr(<<r1, r2>>, p) \in Addr \cup {BadAddr}
  OBVIOUS
<1> DEFINE r == <<r1, r2>>
<1>1. \E i \in {1, 2} : r[i].peer_id = p /\ \A j \in {1, 2} : r[j].peer_id = p => j =< i
  BY DEF admitted
<1>2. DOMAIN r = {1, 2} /\ \A i \in {1, 2} : r[i].addr \in Addr \cup {BadAddr}
  BY DEF PeerRecord
<1> HIDE DEF r
<1>3. lastAddr(r, p) \in Addr \cup {BadAddr}
  BY <1>1, <1>2 DEF lastAddr
<1> QED
  BY <1>3 DEF r

\* All seeds have one id, and the last of them is its last record.
LEMMA Seeds ==
    LET records == [k \in DOMAIN bootstrap_peers |-> [peer_id |-> ZeroId, addr |-> bootstrap_peers[k]]]
    IN  \A p \in admitted(records) : lastAddr(records, p) \in Addr \cup {BadAddr}
<1> DEFINE records == [k \in DOMAIN bootstrap_peers |-> [peer_id |-> ZeroId, addr |-> bootstrap_peers[k]]]
<1> SUFFICES ASSUME NEW p \in admitted(records)
             PROVE  lastAddr(records, p) \in Addr \cup {BadAddr}
  OBVIOUS
<1>1. DOMAIN records = 1..Len(bootstrap_peers) /\ Len(bootstrap_peers) \in Nat
  BY DiscoveryAssumption
<1>2. p = ZeroId /\ Len(bootstrap_peers) \in DOMAIN records
  BY <1>1 DEF admitted
<1>3. \A i \in DOMAIN records : records[i].peer_id = ZeroId /\ records[i].addr \in Addr \cup {BadAddr}
  BY DiscoveryAssumption
<1> HIDE DEF records
<1>4. \E i \in DOMAIN records :
          records[i].peer_id = p /\ \A j \in DOMAIN records : records[j].peer_id = p => j =< i
  BY <1>1, <1>2, <1>3
<1> QED
  BY <1>3, <1>4 DEF lastAddr

\* mark_connected and mark_disconnected.
LEMMA MarkInv ==
    ASSUME DiscoveryInv, NEW p \in PeerId, NEW status \in PeerStatus, NEW event \in DiscoveryEvent,
           status = "Connected" <=> event = "PeerConnected",
           mark(p, status, event)
    PROVE  DiscoveryInv'
<1>1. p \in known => peers[p] \in TrackedPeer
  BY DEF known, DiscoveryInv, TypeOK
<1>2. peers' \in [PeerId -> TrackedPeer \cup {Unknown}]
  BY <1>1 DEF mark, DiscoveryInv, TypeOK, TrackedPeer
<1>3. age' \in [PeerId -> 0..PeerTimeout + 1] /\ told' \in [PeerId -> DiscoveryEvent \cup {"Nothing"}]
  BY DiscoveryAssumption DEF mark, DiscoveryInv, TypeOK
<1>4. \A q \in PeerId : q # p =>
          peers'[q] = peers[q] /\ told'[q] = told[q] /\ (q \in renewed' <=> q \in renewed)
  BY DEF mark, DiscoveryInv, TypeOK
<1>5. known' \subseteq known
  BY <1>4 DEF known, mark
<1>6. ASSUME NEW q \in withStatus("Connected")' PROVE told'[q] = "PeerConnected"
  <2>1. CASE q = p
    <3>1. p \in known /\ peers'[p].status = status /\ told'[p] = event
      BY <1>1, <1>5, <1>6, <2>1 DEF withStatus, mark, DiscoveryInv, TypeOK, TrackedPeer
    <3> QED
      BY <3>1, <1>6, <2>1 DEF withStatus
  <2>2. CASE q # p
    BY <1>4, <1>5, <1>6, <2>2 DEF withStatus, known, DiscoveryInv
  <2> QED
    BY <2>1, <2>2
<1>7. ASSUME NEW q \in known', told'[q] = "PeerConnected"
      PROVE  q \in connected_peers' <=> q \notin renewed'
  <2>1. CASE q = p
    <3>1. peers'[p].status = status /\ told'[p] = event /\ p \notin renewed'
      BY <1>1, <1>5, <1>7, <2>1 DEF mark, DiscoveryInv, TypeOK, TrackedPeer
    <3> QED
      BY <3>1, <1>7, <2>1 DEF connected_peers, withStatus
  <2>2. CASE q # p
    BY <1>4, <1>5, <1>7, <2>2 DEF connected_peers, withStatus, known, DiscoveryInv, CountsReported
  <2> QED
    BY <2>1, <2>2
<1> QED
  BY <1>2, <1>3, <1>5, <1>6, <1>7 DEF DiscoveryInv, TypeOK, BannedStaysOut, CountsReported, mark

\* Every operation preserves the invariant.
LEMMA NextInv == DiscoveryInv /\ [Next]_vars => DiscoveryInv'
<1> SUFFICES ASSUME DiscoveryInv, [Next]_vars PROVE DiscoveryInv'
  OBVIOUS
<1> USE DiscoveryAssumption
<1>1. ASSUME NEW r1 \in PeerRecord, add_peers(<<r1>>) PROVE DiscoveryInv'
  BY <1>1, OneRecord, AddInv
<1>2. ASSUME NEW r1 \in PeerRecord, NEW r2 \in PeerRecord, add_peers(<<r1, r2>>) PROVE DiscoveryInv'
  BY <1>2, TwoRecords, AddInv
<1>3. ASSUME bootstrap PROVE DiscoveryInv'
  BY <1>3, Seeds, AddInv DEF bootstrap
<1>4. ASSUME NEW p \in PeerId, mark_connected(p) PROVE DiscoveryInv'
  BY <1>4, MarkInv DEF mark_connected, PeerStatus, DiscoveryEvent
<1>5. ASSUME NEW p \in PeerId, mark_disconnected(p) PROVE DiscoveryInv'
  BY <1>5, MarkInv DEF mark_disconnected, PeerStatus, DiscoveryEvent
<1>6. ASSUME NEW p \in PeerId, ban_peer(p) PROVE DiscoveryInv'
  <2>1. TypeOK'
    BY <1>6 DEF ban_peer, DiscoveryInv, TypeOK, DiscoveryEvent
  <2>2. BannedStaysOut'
    BY <1>6 DEF ban_peer, DiscoveryInv, TypeOK, BannedStaysOut, known
  <2>3. \A q \in withStatus("Connected")' : told'[q] = "PeerConnected"
    BY <1>6 DEF ban_peer, DiscoveryInv, TypeOK, withStatus, known
  <2>4. CountsReported'
    BY <1>6 DEF ban_peer, DiscoveryInv, TypeOK, CountsReported, connected_peers, withStatus, known
  <2> QED
    BY <2>1, <2>2, <2>3, <2>4 DEF DiscoveryInv
<1>7. ASSUME prune_stale_peers PROVE DiscoveryInv'
  <2>1. TypeOK'
    BY <1>7 DEF prune_stale_peers, DiscoveryInv, TypeOK
  <2>2. BannedStaysOut'
    BY <1>7 DEF prune_stale_peers, DiscoveryInv, TypeOK, BannedStaysOut, known
  <2>3. \A q \in withStatus("Connected")' : told'[q] = "PeerConnected"
    BY <1>7 DEF prune_stale_peers, DiscoveryInv, TypeOK, withStatus, known
  <2>4. CountsReported'
    BY <1>7 DEF prune_stale_peers, DiscoveryInv, TypeOK, CountsReported, connected_peers, withStatus, known
  <2> QED
    BY <2>1, <2>2, <2>3, <2>4 DEF DiscoveryInv
<1>8. ASSUME Tick PROVE DiscoveryInv'
  <2>1. age' \in [PeerId -> 0..PeerTimeout + 1]
    BY <1>8 DEF Tick, DiscoveryInv, TypeOK
  <2> QED
    BY <1>8, <2>1 DEF Tick, DiscoveryInv, TypeOK, BannedStaysOut, CountsReported, connected_peers, withStatus, known
<1>9. ASSUME UNCHANGED vars PROVE DiscoveryInv'
  BY <1>9 DEF vars, DiscoveryInv, TypeOK, BannedStaysOut, CountsReported, connected_peers, withStatus, known
<1> QED
  BY <1>1, <1>2, <1>3, <1>4, <1>5, <1>6, <1>7, <1>8, <1>9 DEF Next

\* The invariant holds of every behaviour.
LEMMA Invariance == Spec => []DiscoveryInv
  BY InitInv, NextInv, PTL DEF Spec

-----------------------------------------------------------------------------

\* The table, the ban list and the events keep their types.
THEOREM TypeCorrect == Spec => []TypeOK
<1>1. DiscoveryInv => TypeOK
  BY DEF DiscoveryInv
<1> QED
  BY <1>1, Invariance, PTL

\* No record, seed or connection brings a banned peer back into the table.
THEOREM BannedStaysOutHolds == Spec => []BannedStaysOut
<1>1. DiscoveryInv => BannedStaysOut
  BY DEF DiscoveryInv
<1> QED
  BY <1>1, Invariance, PTL

\* A peer exchange hands out only peers whose last event is PeerConnected.
THEOREM SharedAreConnectedHolds == Spec => []SharedAreConnected
<1>1. DiscoveryInv => SharedAreConnected
  BY DEF DiscoveryInv, SharedAreConnected, peer_exchange_subset, connected_peers
<1> QED
  BY <1>1, Invariance, PTL

\* When needs_more_peers is false, target_outgoing peers are connected by the
\* last event about each.
THEOREM TargetIsMetHolds == Spec => []TargetIsMet
<1>1. ASSUME DiscoveryInv, ~needs_more_peers
      PROVE  Cardinality({p \in PeerId : told[p] = "PeerConnected"}) >= target_outgoing
  <2> DEFINE S == {p \in PeerId : told[p] = "PeerConnected"}
  <2>1. connected_peers \subseteq S
    BY <1>1 DEF DiscoveryInv, connected_peers, withStatus, known
  <2>2. IsFiniteSet(S)
    BY DiscoveryAssumption, FS_Subset
  <2>3. IsFiniteSet(connected_peers) /\ Cardinality(connected_peers) =< Cardinality(S)
    BY <2>1, <2>2, FS_Subset
  <2>4. Cardinality(connected_peers) \in Nat /\ Cardinality(S) \in Nat
    BY <2>2, <2>3, FS_CardinalityType
  <2> QED
    BY <1>1, <2>3, <2>4, DiscoveryAssumption DEF needs_more_peers
<1>2. DiscoveryInv => TargetIsMet
  BY <1>1 DEF TargetIsMet
<1> QED
  BY <1>2, Invariance, PTL

\* A known peer reported as connected counts as connected exactly until another
\* record of it arrives.
THEOREM CountsReportedHolds == Spec => []CountsReported
<1>1. DiscoveryInv => CountsReported
  BY DEF DiscoveryInv
<1> QED
  BY <1>1, Invariance, PTL

=============================================================================
