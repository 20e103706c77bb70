---------------------------- MODULE NetworkProofs ---------------------------
(***************************************************************************)
(* Proofs about P2PManager: for any number of callers, peers and calls,    *)
(* messages are not mixed up on a stream, none comes twice on it, and a    *)
(* broadcast skips nobody.                                                 *)
(***************************************************************************)
EXTENDS P2PManager, TLAPS

Sending == [op : {"broadcast", "send_to"}, todo : SUBSET PeerId, msg : P2PMessage,
            at : PeerId \cup {Nobody}]
Dialing == [op : {"dial"}, todo : SUBSET Addr]
Closing == [op : {"disconnect"}, todo : SUBSET PeerId]

\* The call has written a length, and has its data to write.
Writing(c) == call[c].op \in {"broadcast", "send_to"} /\ call[c].at # Nobody

\* On stream s data is preceded by its length, and a length followed by data, but
\* for those of the sends in T.
PairsOK(w, s, T) ==
    \A k \in DOMAIN w :
        /\ w[k].part = "data" => k > 1 /\ w[k - 1] = [part |-> "length", msg |-> w[k].msg]
        /\ w[k].part = "length" /\ k < Len(w) => w[k + 1].part = "data" \/ <<s, w[k].msg>> \in T

EndsInLength(w, s, T) == w # <<>> /\ w[Len(w)].part = "length" /\ <<s, w[Len(w)].msg>> \notin T

\* Who has written a length holds the lock, and the length is the last unit.
WriterInv ==
    \A c \in Callers : Writing(c) =>
        /\ transport = c
        /\ call[c].at \in call[c].todo
        /\ LET w == stream(call[c].at).wire
           IN  w # <<>> /\ w[Len(w)] = [part |-> "length", msg |-> call[c].msg]

\* Who holds the lock is in a call, and a sender has only connected peers to do.
HolderInv ==
    /\ \A c \in Callers : transport = c => call[c] # Idle
    /\ \A c \in Callers : sending(c) => call[c].todo \subseteq connected

\* The wires; one that ends in a length is broken, has a writer, or lost it.
WireInv ==
    \A s \in 1..Len(streams) :
        /\ PairsOK(streams[s].wire, s, torn)
        /\ EndsInLength(streams[s].wire, s, torn) =>
              \/ streams[s].broken
              \/ \E c \in Callers : Writing(c) /\ connections[call[c].at] = s

\* A broadcast has still to send to whom it has not reached.
ReachInv ==
    \A c \in Callers : holds(c, "broadcast") =>
        \A p \in connected :
            p \in call[c].todo \/ got(connections[p], call[c].msg) \/ stream(p).broken

NetworkInv == TypeOK /\ WriterInv /\ HolderInv /\ WireInv /\ ReachInv

-----------------------------------------------------------------------------
(* Types *)

\* The fields of a call, by its operation.
LEMMA CallKinds ==
    ASSUME TypeOK, NEW c \in Callers
    PROVE  /\ call[c] = Idle \/ call[c] \in Sending \cup Dialing \cup Closing
           /\ call[c].op \in {"broadcast", "send_to"} => call[c] \in Sending
           /\ call[c].op = "dial" => call[c] \in Dialing
           /\ call[c].op = "disconnect" => call[c] \in Closing
  BY DEF TypeOK, Idle, Call, Sending, Dialing, Closing

\* A sender is a call.
LEMMA Calling == Sending \cup Dialing \cup Closing \subseteq Call
  BY DEF Call, Sending, Dialing, Closing

\* A stream that is written to or broken is still one of the streams.
LEMMA StreamStep ==
    ASSUME TypeOK, NEW s \in 1..Len(streams), NEW st \in Stream, streams' = [streams EXCEPT ![s] = st]
    PROVE  /\ streams' \in Seq(Stream) /\ Len(streams') = Len(streams)
           /\ streams'[s] = st
           /\ \A u \in 1..Len(streams) : u # s => streams'[u] = streams[u]
  BY DEF TypeOK

\* Every step that writes to no stream keeps the types.
LEMMA TypeStep ==
    ASSUME TypeOK,
           \/ \E c \in Callers :
                 Calls(c) \/ Acquire(c) \/ Dial(c) \/ Return(c) \/ \E p \in PeerId : Disconnect(c, p)
           \/ UNCHANGED vars
    PROVE  TypeOK'
<1> USE NetworkAssumption
<1>1. ASSUME NEW c \in Callers, NEW newCall, Begin(c, newCall), newCall \in Call
      PROVE  TypeOK'
  BY <1>1 DEF Begin, TypeOK, transportVars
<1>2. ASSUME NEW c \in Callers, Calls(c) PROVE TypeOK'
  <2>1. ASSUME start(c) PROVE TypeOK'
    <3>1. PICK chosen \in Discovery!peers_to_connect(max_peers)' :
              Begin(c, [op |-> "dial", todo |-> {peers'[p].addr : p \in chosen}])
      BY Zenon, <2>1 DEF start
    <3>2. \A p \in chosen : peers'[p].addr \in Addr
      BY <3>1 DEF Discovery!peers_to_connect
    <3>3. [op |-> "dial", todo |-> {peers'[p].addr : p \in chosen}] \in Call
      BY <3>2 DEF Call
    <3> QED
      BY <3>1, <3>3, <1>1
  <2>2. ASSUME NEW addr \in Addr, dial_peer(c, addr) PROVE TypeOK'
    <3>1. [op |-> "dial", todo |-> {addr}] \in Call
      BY DEF Call
    <3> QED
      BY <2>2, <3>1, <1>1 DEF dial_peer
  <2>3. ASSUME broadcast(c) PROVE TypeOK'
    <3>1. calls + 1 \in P2PMessage
      BY <2>3 DEF broadcast, Begin, TypeOK, P2PMessage
    <3>2. [op |-> "broadcast", todo |-> {}, msg |-> calls + 1, at |-> Nobody] \in Call
      BY <3>1 DEF Call
    <3> QED
      BY <2>3, <3>2, <1>1 DEF broadcast
  <2>4. ASSUME NEW p \in PeerId, send_to(c, p) PROVE TypeOK'
    <3>1. calls + 1 \in P2PMessage
      BY <2>4 DEF send_to, Begin, TypeOK, P2PMessage
    <3>2. [op |-> "send_to", todo |-> {p}, msg |-> calls + 1, at |-> Nobody] \in Call
      BY <3>1 DEF Call
    <3> QED
      BY <2>4, <3>2, <1>1 DEF send_to
  <2>5. ASSUME NEW p \in PeerId, disconnect(c, p) PROVE TypeOK'
    <3>1. [op |-> "disconnect", todo |-> {p}] \in Call
      BY DEF Call
    <3> QED
      BY <2>5, <3>1, <1>1 DEF disconnect
  <2> QED
    BY <1>2, <2>1, <2>2, <2>3, <2>4, <2>5 DEF Calls
<1>3. ASSUME NEW c \in Callers, Acquire(c) PROVE TypeOK'
  <2>1. call' \in [Callers -> {Idle} \cup Call]
    <3>1. CASE call[c].op = "broadcast"
      <4>1. call[c] \in Sending
        BY <3>1, CallKinds
      <4>2. [call[c] EXCEPT !.todo = connected] \in Sending
        BY <4>1 DEF Sending, connected
      <4> QED
        BY <1>3, <3>1, <4>2, Calling DEF Acquire, TypeOK
    <3>2. CASE call[c].op = "send_to"
      <4>1. call[c] \in Sending
        BY <3>2, CallKinds
      <4>2. [call[c] EXCEPT !.todo = @ \cap connected] \in Sending
        BY <4>1 DEF Sending, connected
      <4> QED
        BY <1>3, <3>2, <4>2, Calling DEF Acquire, TypeOK
    <3>3. CASE call[c].op \notin {"broadcast", "send_to"}
      BY <1>3, <3>3 DEF Acquire, TypeOK
    <3> QED
      BY <3>1, <3>2, <3>3
  <2> QED
    BY <1>3, <2>1 DEF Acquire, TypeOK, transportVars
<1>4. ASSUME NEW c \in Callers, NEW addr \in Addr, DialSucceeds(c, addr) \/ DialFails(c, addr)
      PROVE  TypeOK'
  <2>1. call[c] \in Dialing
    BY <1>4, CallKinds DEF DialSucceeds, DialFails, holds
  <2>2. [call[c] EXCEPT !.todo = @ \ {addr}] \in Dialing
    BY <2>1 DEF Dialing
  <2>3. call' \in [Callers -> {Idle} \cup Call]
    BY Zenon, <1>4, <2>2, Calling DEF DialSucceeds, DialFails, TypeOK
  <2>4. identity[addr] \in PeerId
    BY DEF TypeOK
  <2>5. [wire |-> <<>>, broken |-> FALSE] \in Stream
    BY DEF Stream
  <2>6. /\ streams' \in Seq(Stream) /\ connections' \in [PeerId -> 0..Len(streams')]
        /\ torn' \in SUBSET ((1..Len(streams')) \X P2PMessage)
    <3>1. CASE DialSucceeds(c, addr)
      <4>1. /\ streams' = Append(streams, [wire |-> <<>>, broken |-> FALSE])
            /\ connections' = [connections EXCEPT ![identity[addr]] = Len(streams')]
        BY <3>1 DEF DialSucceeds, perform_handshake
      <4>2. streams' \in Seq(Stream) /\ Len(streams') = Len(streams) + 1 /\ Len(streams) \in Nat
        BY <4>1, <2>5 DEF TypeOK
      <4>3. torn' \in SUBSET ((1..Len(streams')) \X P2PMessage)
        <5>1. torn' = torn /\ 1..Len(streams) \subseteq 1..Len(streams')
          BY <3>1, <4>2 DEF DialSucceeds
        <5> QED
          BY <5>1 DEF TypeOK
      <4> QED
        BY <4>1, <4>2, <4>3, <2>4 DEF TypeOK
    <3>2. CASE DialFails(c, addr)
      BY <3>2 DEF DialFails, TypeOK, transportVars
    <3> QED
      BY <1>4, <3>1, <3>2
  <2> QED
    BY <1>4, <2>3, <2>6 DEF DialSucceeds, DialFails, TypeOK
<1>5. ASSUME NEW c \in Callers, NEW p \in PeerId, Disconnect(c, p) PROVE TypeOK'
  <2>1. call[c] \in Closing
    BY <1>5, CallKinds DEF Disconnect, holds
  <2>2. [call[c] EXCEPT !.todo = {}] \in Closing
    BY <2>1 DEF Closing
  <2>3. call' \in [Callers -> {Idle} \cup Call]
    BY <1>5, <2>2, Calling DEF Disconnect, TypeOK
  <2> QED
    BY <1>5, <2>3 DEF Disconnect, TypeOK
<1>6. ASSUME NEW c \in Callers, Return(c) PROVE TypeOK'
  BY <1>6 DEF Return, TypeOK, transportVars
<1>7. CASE UNCHANGED vars
  BY <1>7 DEF vars, transportVars, TypeOK
<1> QED
  BY <1>2, <1>3, <1>4, <1>5, <1>6, <1>7 DEF Dial

-----------------------------------------------------------------------------
(* Wires *)

\* A length may follow whole messages.
LEMMA AppendLength ==
    ASSUME NEW w \in Seq(Unit), NEW s, NEW T, PairsOK(w, s, T), ~EndsInLength(w, s, T), NEW m \in P2PMessage
    PROVE  LET v == Append(w, [part |-> "length", msg |-> m])
           IN  v \in Seq(Unit) /\ PairsOK(v, s, T) /\ v # <<>> /\ v[Len(v)] = [part |-> "length", msg |-> m]
<1> DEFINE u == [part |-> "length", msg |-> m]
           v == Append(w, u)
<1>1. u \in Unit /\ u.part = "length"
  BY DEF Unit
<1>2. Len(w) \in Nat /\ \A k \in 1..Len(w) : w[k] \in Unit
  OBVIOUS
<1> HIDE DEF u
<1>3. /\ v \in Seq(Unit) /\ Len(v) = Len(w) + 1 /\ v[Len(w) + 1] = u
      /\ \A k \in 1..Len(w) : v[k] = w[k]
      /\ DOMAIN v = 1..Len(w) + 1
  BY <1>1
<1>4. w # <<>> => w[Len(w)].part # "length" \/ <<s, w[Len(w)].msg>> \in T
  BY DEF EndsInLength
<1> HIDE DEF v
<1>5. ASSUME NEW k \in DOMAIN v
      PROVE  /\ v[k].part = "data" => k > 1 /\ v[k - 1] = [part |-> "length", msg |-> v[k].msg]
             /\ v[k].part = "length" /\ k < Len(v) => v[k + 1].part = "data" \/ <<s, v[k].msg>> \in T
  <2>1. CASE k = Len(w) + 1
    BY <1>1, <1>2, <1>3, <2>1
  <2>2. CASE k \in 1..Len(w)
    <3>1. v[k] = w[k] /\ k \in DOMAIN w
      BY <1>2, <1>3, <2>2
    <3>2. v[k].part = "data" => k > 1 /\ v[k - 1] = [part |-> "length", msg |-> v[k].msg]
      <4>1. k > 1 => v[k - 1] = w[k - 1]
        BY <1>2, <1>3, <2>2
      <4> QED
        BY <3>1, <4>1 DEF PairsOK
    <3>3. ASSUME v[k].part = "length", <<s, v[k].msg>> \notin T PROVE v[k + 1].part = "data"
      <4>1. k < Len(w)
        <5>1. k # Len(w)
          BY <1>4, <2>2, <3>1, <3>3
        <5> QED
          BY <1>2, <2>2, <5>1
      <4>2. v[k + 1] = w[k + 1]
        BY <1>2, <1>3, <2>2, <4>1
      <4> QED
        BY Zenon, <3>1, <3>3, <4>1, <4>2 DEF PairsOK
    <3> QED
      BY <3>2, <3>3
  <2> QED
    BY <1>2, <1>3, <2>1, <2>2
<1>6. v \in Seq(Unit) /\ PairsOK(v, s, T) /\ v # <<>> /\ v[Len(v)] = u
  <2>1. v[Len(v)] = u /\ v # <<>>
    BY <1>2, <1>3
  <2> QED
    BY Zenon, <1>3, <1>5, <2>1 DEF PairsOK
<1> QED
  BY <1>6 DEF u, v

\* The data of a message may follow its length.
LEMMA AppendData ==
    ASSUME NEW w \in Seq(Unit), NEW s, NEW T, PairsOK(w, s, T), w # <<>>, NEW m \in P2PMessage,
           w[Len(w)] = [part |-> "length", msg |-> m]
    PROVE  LET v == Append(w, [part |-> "data", msg |-> m])
           IN  /\ v \in Seq(Unit) /\ PairsOK(v, s, T) /\ ~EndsInLength(v, s, T)
               /\ \E k \in DOMAIN v : v[k] = [part |-> "data", msg |-> m]
<1> DEFINE u == [part |-> "data", msg |-> m]
           v == Append(w, u)
<1>1. u \in Unit /\ u.part = "data" /\ u.msg = m
  BY DEF Unit
<1>2. Len(w) \in Nat /\ Len(w) > 0 /\ \A k \in 1..Len(w) : w[k] \in Unit
  OBVIOUS
<1> HIDE DEF u
<1>3. /\ v \in Seq(Unit) /\ Len(v) = Len(w) + 1 /\ v[Len(w) + 1] = u
      /\ \A k \in 1..Len(w) : v[k] = w[k]
      /\ DOMAIN v = 1..Len(w) + 1
  BY <1>1
<1> HIDE DEF v
<1>5. ASSUME NEW k \in DOMAIN v
      PROVE  /\ v[k].part = "data" => k > 1 /\ v[k - 1] = [part |-> "length", msg |-> v[k].msg]
             /\ v[k].part = "length" /\ k < Len(v) => v[k + 1].part = "data" \/ <<s, v[k].msg>> \in T
  <2>1. CASE k = Len(w) + 1
    <3>1. k > 1 /\ v[k - 1] = w[Len(w)] /\ v[k] = u
      BY <1>2, <1>3, <2>1
    <3> QED
      BY <1>1, <3>1
  <2>2. CASE k \in 1..Len(w)
    <3>1. v[k] = w[k] /\ k \in DOMAIN w
      BY <1>2, <1>3, <2>2
    <3>2. v[k].part = "data" => k > 1 /\ v[k - 1] = [part |-> "length", msg |-> v[k].msg]
      <4>1. k > 1 => v[k - 1] = w[k - 1]
        BY <1>2, <1>3, <2>2
      <4> QED
        BY <3>1, <4>1 DEF PairsOK
    <3>3. ASSUME v[k].part = "length", <<s, v[k].msg>> \notin T PROVE v[k + 1].part = "data"
      <4>1. CASE k = Len(w)
        BY <1>1, <1>3, <4>1
      <4>2. CASE k < Len(w)
        <5>1. v[k + 1] = w[k + 1]
          BY <1>2, <1>3, <2>2, <4>2
        <5> QED
          BY Zenon, <3>1, <3>3, <4>2, <5>1 DEF PairsOK
      <4> QED
        BY <1>2, <2>2, <4>1, <4>2
    <3> QED
      BY <3>2, <3>3
  <2> QED
    BY <1>2, <1>3, <2>1, <2>2
<1>6. /\ v \in Seq(Unit) /\ PairsOK(v, s, T) /\ ~EndsInLength(v, s, T)
      /\ \E k \in DOMAIN v : v[k] = u
  <2>1. v[Len(v)] = u /\ Len(w) + 1 \in DOMAIN v
    BY <1>2, <1>3
  <2> QED
    BY Zenon, <1>1, <1>3, <1>5, <2>1 DEF PairsOK, EndsInLength
<1> QED
  BY <1>6 DEF u, v

-----------------------------------------------------------------------------
(* Steps *)

\* Nobody else writes or sends while a caller holds the lock.
LEMMA OneHolder ==
    ASSUME NetworkInv, NEW c \in Callers, NEW d \in Callers, transport = c, d # c
    PROVE  ~Writing(d) /\ ~sending(d)
  BY Zenon DEF NetworkInv, WriterInv, sending, holds

\* A step that leaves the streams, the connections and the writers alone.
LEMMA QuietStep ==
    ASSUME NetworkInv, UNCHANGED <<streams, connections, torn>>,
           \A d \in Callers : Writing(d) => call'[d] = call[d] /\ transport' = transport,
           \A d \in Callers : Writing(d)' => Writing(d)
    PROVE  WriterInv' /\ WireInv'
<1>1. ASSUME NEW d \in Callers, Writing(d)'
      PROVE  Writing(d) /\ call'[d] = call[d] /\ transport' = d
  BY Zenon, <1>1 DEF NetworkInv, WriterInv
<1>2. WriterInv'
  BY <1>1 DEF NetworkInv, WriterInv, stream
<1>3. WireInv'
  <2> SUFFICES ASSUME NEW s \in 1..Len(streams)
               PROVE  /\ PairsOK(streams'[s].wire, s, torn')
                      /\ EndsInLength(streams'[s].wire, s, torn') =>
                            \/ streams'[s].broken
                            \/ \E c \in Callers : Writing(c)' /\ connections'[call'[c].at] = s
    BY Zenon DEF WireInv, PairsOK, EndsInLength
  <2>1. \A c \in Callers : Writing(c) => Writing(c)' /\ call'[c] = call[c]
    BY DEF Writing
  <2> QED
    BY <2>1 DEF NetworkInv, WireInv
<1> QED
  BY <1>2, <1>3

\* A call begins.
LEMMA BeginInv ==
    ASSUME NetworkInv, NEW c \in Callers, NEW newCall, Begin(c, newCall),
           newCall.op \in {"broadcast", "send_to"} => newCall.at = Nobody
    PROVE  WriterInv' /\ HolderInv' /\ WireInv' /\ ReachInv'
<1>1. /\ call[c] = Idle /\ transport # c
      /\ call' = [call EXCEPT ![c] = newCall]
      /\ UNCHANGED <<streams, connections, torn, transport>>
  BY DEF Begin, transportVars, NetworkInv, HolderInv
<1>2. call'[c] = newCall /\ \A d \in Callers : d # c => call'[d] = call[d]
  BY <1>1 DEF NetworkInv, TypeOK
<1>3. ~Writing(c) /\ ~Writing(c)'
  BY <1>1, <1>2 DEF Writing, Idle
<1>4. \A d \in Callers : d # c => (Writing(d)' <=> Writing(d))
  BY <1>2 DEF Writing
<1>5. WriterInv' /\ WireInv'
  BY <1>1, <1>2, <1>3, <1>4, QuietStep
<1>6. HolderInv'
  BY <1>1, <1>2 DEF NetworkInv, HolderInv, sending, holds, connected
<1>7. ReachInv'
  BY <1>1, <1>2 DEF NetworkInv, ReachInv, holds, connected, got, stream
<1> QED
  BY <1>5, <1>6, <1>7

\* The operations all begin without a length written.
LEMMA CallsInv ==
    ASSUME NetworkInv, NEW c \in Callers, Calls(c)
    PROVE  WriterInv' /\ HolderInv' /\ WireInv' /\ ReachInv'
  BY Zenon, BeginInv DEF Calls, start, dial_peer, broadcast, send_to, disconnect

\* A caller gets the lock.
LEMMA AcquireInv ==
    ASSUME NetworkInv, NEW c \in Callers, Acquire(c)
    PROVE  WriterInv' /\ HolderInv' /\ WireInv' /\ ReachInv'
<1>1. /\ call[c] # Idle /\ transport = Nobody /\ transport' = c
      /\ UNCHANGED <<streams, connections, torn>>
  BY DEF Acquire, lockFree, transportVars
<1>2. \A d \in Callers : ~Writing(d)
  BY Zenon, <1>1, NetworkAssumption DEF NetworkInv, WriterInv
<1>3. \A d \in Callers : d # c => call'[d] = call[d]
  BY DEF Acquire, NetworkInv, TypeOK
<1>4. call[c].op \in {"broadcast", "send_to"} =>
          /\ call'[c].op = call[c].op /\ call'[c].at = call[c].at
          /\ call'[c].todo \subseteq connected
          /\ call[c].op = "broadcast" => call'[c].todo = connected
  <2> SUFFICES ASSUME call[c].op \in {"broadcast", "send_to"}
               PROVE  /\ call'[c].op = call[c].op /\ call'[c].at = call[c].at
                      /\ call'[c].todo \subseteq connected
                      /\ call[c].op = "broadcast" => call'[c].todo = connected
    OBVIOUS
  <2>1. call[c] \in Sending /\ TypeOK
    BY CallKinds DEF NetworkInv
  <2>2. CASE call[c].op = "broadcast"
    <3>1. call'[c] = [call[c] EXCEPT !.todo = connected]
      BY <2>1, <2>2 DEF Acquire, TypeOK
    <3> QED
      BY <2>1, <3>1 DEF Sending
  <2>3. CASE call[c].op = "send_to"
    <3>1. call'[c] = [call[c] EXCEPT !.todo = @ \cap connected]
      BY <2>1, <2>3 DEF Acquire, TypeOK
    <3> QED
      BY <2>1, <2>3, <3>1 DEF Sending
  <2> QED
    BY <2>2, <2>3
<1>5. call[c].op \notin {"broadcast", "send_to"} => call'[c] = call[c]
  BY DEF Acquire
<1>6. \A d \in Callers : ~Writing(d)'
  BY <1>2, <1>3, <1>4, <1>5 DEF Writing
<1>7. WriterInv' /\ WireInv'
  BY <1>1, <1>2, <1>6, QuietStep
<1>8. call'[c] # Idle
  BY <1>1, <1>4, <1>5 DEF Idle
<1>9. HolderInv'
  BY <1>1, <1>4, <1>5, <1>8 DEF HolderInv, sending, holds, connected
<1>10. ReachInv'
  BY <1>1, <1>4, <1>5 DEF ReachInv, holds, connected
<1> QED
  BY <1>7, <1>9, <1>10

\* The call returns.
LEMMA ReturnInv ==
    ASSUME NetworkInv, NEW c \in Callers, Return(c)
    PROVE  WriterInv' /\ HolderInv' /\ WireInv' /\ ReachInv'
<1>1. /\ transport = c /\ call[c].todo = {} /\ transport' = Nobody
      /\ call' = [call EXCEPT ![c] = Idle]
      /\ UNCHANGED <<streams, connections, torn>>
  BY DEF Return, finished, transportVars
<1>2. call'[c] = Idle /\ \A d \in Callers : d # c => call'[d] = call[d]
  BY <1>1 DEF NetworkInv, TypeOK
<1>3. \A d \in Callers : ~Writing(d)
  BY Zenon, <1>1, OneHolder DEF NetworkInv, WriterInv
<1>4. \A d \in Callers : ~Writing(d)'
  BY <1>2, <1>3 DEF Writing, Idle
<1>5. WriterInv' /\ WireInv'
  BY <1>1, <1>3, <1>4, QuietStep
<1> QED
  BY <1>1, <1>5, NetworkAssumption DEF HolderInv, ReachInv, sending, holds

\* The call is dropped: the length it may have written is accounted for.
LEMMA CancelInv ==
    ASSUME NetworkInv, NEW c \in Callers, Cancel(c)
    PROVE  NetworkInv'
<1>1. /\ TypeOK /\ call' = [call EXCEPT ![c] = Idle]
      /\ UNCHANGED <<identity, connections, streams, calls>> /\ torn \subseteq torn'
  BY DEF NetworkInv, Cancel
<1>2. call'[c] = Idle /\ \A d \in Callers : d # c => call'[d] = call[d]
  BY <1>1 DEF TypeOK
<1>3. \A d \in Callers : d # c => (transport' = d <=> transport = d)
  BY NetworkAssumption DEF Cancel
<1>4. transport' # c
  BY NetworkAssumption DEF Cancel
<1>5. ~Writing(c)' /\ \A d \in Callers : d # c => (Writing(d)' <=> Writing(d))
  BY <1>2 DEF Writing, Idle
<1>6. ASSUME Writing(c)
      PROVE  /\ connections[call[c].at] \in 1..Len(streams) /\ call[c].msg \in P2PMessage
             /\ torn' = torn \cup {<<connections[call[c].at], call[c].msg>>}
  <2>1. call[c] \in Sending /\ transport = c /\ call[c].at \in call[c].todo /\ call[c].at # Nobody
    BY <1>1, <1>6, CallKinds DEF NetworkInv, WriterInv, Writing
  <2>2. sending(c)
    BY <1>6, <2>1 DEF sending, holds, Writing, Idle
  <2>3. call[c].at \in connected
    BY <2>1, <2>2 DEF NetworkInv, HolderInv
  <2>4. call[c].msg \in P2PMessage
    BY <2>1 DEF Sending
  <2> QED
    BY <1>1, <2>1, <2>2, <2>3, <2>4 DEF Cancel, connected, TypeOK
<1>7. ~Writing(c) => torn' = torn
  BY DEF Cancel, Writing, sending, holds
<1>8. TypeOK'
  <2>1. torn' \in SUBSET ((1..Len(streams)) \X P2PMessage)
    BY <1>1, <1>6, <1>7 DEF TypeOK
  <2>2. transport' \in Callers \cup {Nobody}
    BY <1>1 DEF Cancel, TypeOK
  <2> QED
    BY <1>1, <2>1, <2>2 DEF TypeOK
<1>9. WriterInv'
  BY <1>1, <1>2, <1>3, <1>5 DEF NetworkInv, WriterInv, stream
<1>10. HolderInv'
  BY <1>1, <1>2, <1>3, <1>4 DEF NetworkInv, HolderInv, sending, holds, connected
<1>11. WireInv'
  <2> SUFFICES ASSUME NEW s \in 1..Len(streams')
               PROVE  /\ PairsOK(streams'[s].wire, s, torn')
                      /\ EndsInLength(streams'[s].wire, s, torn') =>
                            \/ streams'[s].broken
                            \/ \E d \in Callers : Writing(d)' /\ connections'[call'[d].at] = s
    BY Zenon DEF WireInv, PairsOK, EndsInLength
  <2>1. /\ s \in 1..Len(streams) /\ PairsOK(streams[s].wire, s, torn)
        /\ EndsInLength(streams[s].wire, s, torn) =>
              \/ streams[s].broken
              \/ \E d \in Callers : Writing(d) /\ connections[call[d].at] = s
    BY <1>1 DEF NetworkInv, WireInv
  <2>2. PairsOK(streams[s].wire, s, torn')
    BY Zenon, <1>1, <2>1 DEF PairsOK
  <2>3. ASSUME EndsInLength(streams[s].wire, s, torn'), ~streams[s].broken
        PROVE  \E d \in Callers : Writing(d)' /\ connections'[call'[d].at] = s
    <3>1. PICK d \in Callers : Writing(d) /\ connections[call[d].at] = s
      BY Zenon, <1>1, <2>1, <2>3 DEF EndsInLength
    <3>2. d # c
      <4>1. SUFFICES ASSUME d = c PROVE FALSE
        OBVIOUS
      <4>2. <<s, call[c].msg>> \in torn'
        BY <1>6, <3>1, <4>1
      <4>3. streams[s].wire[Len(streams[s].wire)] = [part |-> "length", msg |-> call[c].msg]
        BY Zenon, <3>1, <4>1 DEF NetworkInv, WriterInv, stream
      <4> QED
        BY <2>3, <4>2, <4>3 DEF EndsInLength
    <3> QED
      BY <1>1, <1>2, <1>5, <3>1, <3>2
  <2> QED
    BY <1>1, <2>2, <2>3
<1>12. ReachInv'
  <2>1. \A d \in Callers : holds(d, "broadcast")' => d # c /\ holds(d, "broadcast") /\ call'[d] = call[d]
    BY <1>2, <1>3, <1>4 DEF holds
  <2> QED
    BY <1>1, <2>1 DEF NetworkInv, ReachInv, connected, got, stream
<1> QED
  BY <1>8, <1>9, <1>10, <1>11, <1>12 DEF NetworkInv

\* The holder of the lock dials or disconnects, and so nobody is sending: the
\* wires stay, but for a new and empty one.
LEMMA NoSenderInv ==
    ASSUME NetworkInv, NEW c \in Callers, transport = c, transport' = c,
           call[c].op \in {"dial", "disconnect"}, call'[c].op = call[c].op,
           \A d \in Callers : d # c => call'[d] = call[d],
           torn' = torn, Len(streams') \in Nat,
           \A s \in 1..Len(streams') :
              streams'[s].wire = <<>> \/ (s \in 1..Len(streams) /\ streams'[s] = streams[s])
    PROVE  WriterInv' /\ HolderInv' /\ WireInv' /\ ReachInv'
<1>1. \A d \in Callers : ~Writing(d)
  BY OneHolder DEF Writing
<1>2. \A d \in Callers : ~Writing(d)'
  BY <1>1 DEF Writing
<1>3. \A d \in Callers : ~sending(d)' /\ ~holds(d, "broadcast")'
  BY DEF sending, holds
<1>4. WireInv'
  <2> SUFFICES ASSUME NEW s \in 1..Len(streams')
               PROVE  PairsOK(streams'[s].wire, s, torn') /\ (EndsInLength(streams'[s].wire, s, torn') => streams'[s].broken)
    BY Zenon DEF WireInv, PairsOK, EndsInLength
  <2>1. CASE streams'[s].wire = <<>>
    BY <2>1 DEF PairsOK, EndsInLength
  <2>2. CASE s \in 1..Len(streams) /\ streams'[s] = streams[s]
    BY <1>1, <2>2 DEF NetworkInv, WireInv
  <2> QED
    BY <2>1, <2>2
<1>5. HolderInv'
  <2>1. call'[c] # Idle
    BY DEF Idle
  <2> QED
    BY <1>3, <2>1 DEF HolderInv
<1> QED
  BY <1>2, <1>3, <1>4, <1>5 DEF WriterInv, ReachInv

\* A dial succeeds or fails.
LEMMA DialInv ==
    ASSUME NetworkInv, NEW c \in Callers, NEW addr \in Addr, DialSucceeds(c, addr) \/ DialFails(c, addr)
    PROVE  WriterInv' /\ HolderInv' /\ WireInv' /\ ReachInv'
<1>1. TypeOK /\ transport = c /\ transport' = c /\ call[c].op = "dial"
  BY DEF NetworkInv, DialSucceeds, DialFails, holds
<1>2. call[c] \in Dialing
  BY <1>1, CallKinds
<1>3. call' = [call EXCEPT ![c] = [call[c] EXCEPT !.todo = @ \ {addr}]]
  BY DEF DialSucceeds, DialFails
<1>4. call'[c].op = call[c].op /\ \A d \in Callers : d # c => call'[d] = call[d]
  BY <1>1, <1>2, <1>3 DEF TypeOK, Dialing
<1>5. /\ Len(streams') \in Nat /\ torn' = torn
      /\ \A s \in 1..Len(streams') :
            streams'[s].wire = <<>> \/ (s \in 1..Len(streams) /\ streams'[s] = streams[s])
  <2>1. CASE DialFails(c, addr)
    BY <1>1, <2>1 DEF DialFails, transportVars, TypeOK
  <2>2. CASE DialSucceeds(c, addr)
    <3> DEFINE st == [wire |-> <<>>, broken |-> FALSE]
    <3>1. st \in Stream /\ streams' = Append(streams, st) /\ st.wire = <<>> /\ torn' = torn
      BY <2>2 DEF DialSucceeds, Stream
    <3> HIDE DEF st
    <3>2. /\ Len(streams) \in Nat /\ Len(streams') = Len(streams) + 1
          /\ streams'[Len(streams) + 1] = st
          /\ \A s \in 1..Len(streams) : streams'[s] = streams[s]
      BY <1>1, <3>1 DEF TypeOK
    <3> QED
      BY <3>1, <3>2
  <2> QED
    BY <2>1, <2>2
<1> QED
  BY <1>1, <1>4, <1>5, NoSenderInv

\* A connection is given up.
LEMMA DisconnectInv ==
    ASSUME NetworkInv, NEW c \in Callers, NEW p \in PeerId, Disconnect(c, p)
    PROVE  WriterInv' /\ HolderInv' /\ WireInv' /\ ReachInv'
<1>1. /\ TypeOK /\ transport = c /\ transport' = c /\ call[c].op = "disconnect"
      /\ streams' = streams /\ torn' = torn
  BY DEF NetworkInv, Disconnect, holds
<1>2. call[c] \in Closing
  BY <1>1, CallKinds
<1>3. call' = [call EXCEPT ![c] = [call[c] EXCEPT !.todo = {}]]
  BY DEF Disconnect
<1>4. call'[c].op = call[c].op /\ \A d \in Callers : d # c => call'[d] = call[d]
  BY <1>1, <1>2, <1>3 DEF TypeOK, Closing
<1>5. Len(streams) \in Nat
  BY <1>1 DEF TypeOK
<1> QED
  BY <1>1, <1>4, <1>5, NoSenderInv

\* A stream of which nothing is lost keeps what it has got.
LEMMA GotStays ==
    ASSUME NEW w \in Seq(Unit), NEW u \in Unit, NEW k \in DOMAIN w
    PROVE  k \in DOMAIN Append(w, u) /\ Append(w, u)[k] = w[k]
  OBVIOUS

\* The other end closes.
LEMMA RemoteInv ==
    ASSUME NetworkInv, NEW s \in DOMAIN streams, RemoteCloses(s)
    PROVE  NetworkInv'
<1>1. /\ TypeOK /\ s \in 1..Len(streams)
      /\ streams' = [streams EXCEPT ![s] = [streams[s] EXCEPT !.broken = TRUE]]
      /\ UNCHANGED <<identity, connections, torn, transport, call, calls>>
  BY DEF NetworkInv, TypeOK, RemoteCloses
<1>2. streams[s] \in Stream
  BY <1>1 DEF TypeOK
<1>3. [streams[s] EXCEPT !.broken = TRUE] \in Stream
  BY Zenon, <1>2 DEF Stream
<1>4. streams' \in Seq(Stream) /\ Len(streams') = Len(streams)
  BY Zenon, <1>1, <1>3, StreamStep
<1>5. \A r \in 1..Len(streams) :
          streams'[r].wire = streams[r].wire /\ (streams[r].broken => streams'[r].broken)
  <2>1. streams'[s] = [streams[s] EXCEPT !.broken = TRUE]
    BY <1>1, <1>3, StreamStep
  <2>2. streams'[s].wire = streams[s].wire /\ streams'[s].broken
    BY <1>2, <2>1 DEF Stream
  <2>3. \A r \in 1..Len(streams) : r # s => streams'[r] = streams[r]
    BY <1>1, <1>3, StreamStep
  <2> QED
    BY <2>2, <2>3
<1>6. TypeOK'
  BY <1>1, <1>4 DEF TypeOK
<1>7. \A p \in connected : connections[p] \in 1..Len(streams)
  BY <1>1 DEF TypeOK, connected
<1>8. HolderInv'
  BY <1>1 DEF NetworkInv, HolderInv, sending, holds, connected
<1>9. WriterInv'
  <2> SUFFICES ASSUME NEW c \in Callers, Writing(c)
               PROVE  /\ transport = c
                      /\ call[c].at \in call[c].todo
                      /\ LET w == streams'[connections[call[c].at]].wire
                         IN  w # <<>> /\ w[Len(w)] = [part |-> "length", msg |-> call[c].msg]
    BY <1>1 DEF WriterInv, Writing, stream
  <2>1. transport = c /\ call[c].at \in call[c].todo /\ sending(c)
    BY Zenon DEF NetworkInv, WriterInv, HolderInv, Writing, sending, holds
  <2>2. connections[call[c].at] \in 1..Len(streams)
    BY <1>7, <2>1 DEF NetworkInv, HolderInv
  <2> QED
    BY <1>5, <2>1, <2>2 DEF NetworkInv, WriterInv, stream
<1>10. WireInv'
  <2> SUFFICES ASSUME NEW r \in 1..Len(streams)
               PROVE  /\ PairsOK(streams'[r].wire, r, torn')
                      /\ EndsInLength(streams'[r].wire, r, torn') =>
                            \/ streams'[r].broken
                            \/ \E c \in Callers : Writing(c)' /\ connections'[call'[c].at] = r
    BY Zenon, <1>4 DEF WireInv, PairsOK, EndsInLength
  <2>1. torn' = torn /\ \A c \in Callers : Writing(c) => Writing(c)' /\ connections'[call'[c].at] = connections[call[c].at]
    BY <1>1 DEF Writing
  <2> QED
    BY <1>5, <2>1 DEF NetworkInv, WireInv
<1>11. ReachInv'
  <2> SUFFICES ASSUME NEW c \in Callers, holds(c, "broadcast"), NEW p \in connected
               PROVE  \/ p \in call[c].todo
                      \/ \E k \in DOMAIN streams'[connections[p]].wire :
                            streams'[connections[p]].wire[k] = [part |-> "data", msg |-> call[c].msg]
                      \/ streams'[connections[p]].broken
    BY <1>1 DEF ReachInv, holds, connected, got, stream
  <2> QED
    BY <1>5, <1>7 DEF NetworkInv, ReachInv, got, stream
<1> QED
  BY <1>6, <1>8, <1>9, <1>10, <1>11 DEF NetworkInv

\* A sender acts on the stream of p: the stream becomes st, its call k.
LEMMA WriteInv ==
    ASSUME NetworkInv, NEW c \in Callers, sending(c), NEW p \in call[c].todo,
           call[c].at \in {Nobody, p},
           NEW st \in Stream, NEW k \in Sending,
           k.op = call[c].op, k.msg = call[c].msg, call[c].todo \subseteq k.todo \cup {p},
           k.todo \subseteq call[c].todo,
           call' = [call EXCEPT ![c] = k],
           streams' = [streams EXCEPT ![connections[p]] = st],
           UNCHANGED <<identity, connections, torn, transport, calls>>,
           PairsOK(st.wire, connections[p], torn),
           stream(p).broken => st.broken,
           \A i \in DOMAIN stream(p).wire : i \in DOMAIN st.wire /\ st.wire[i] = stream(p).wire[i],
           k.at = Nobody => (EndsInLength(st.wire, connections[p], torn) => st.broken),
           k.at # Nobody => /\ k.at = p /\ p \in k.todo /\ st.wire # <<>>
                            /\ st.wire[Len(st.wire)] = [part |-> "length", msg |-> k.msg],
           p \notin k.todo =>
              st.broken \/ \E i \in DOMAIN st.wire : st.wire[i] = [part |-> "data", msg |-> k.msg]
    PROVE  NetworkInv'
<1>1. TypeOK /\ transport = c /\ call[c].op \in {"broadcast", "send_to"} /\ p \in connected
  BY DEF NetworkInv, HolderInv, sending, holds
<1> DEFINE s == connections[p]
<1>2. s \in 1..Len(streams) /\ \A q \in connected : connections[q] \in 1..Len(streams)
  BY <1>1 DEF TypeOK, connected
<1> HIDE DEF s
<1>3. /\ streams' \in Seq(Stream) /\ Len(streams') = Len(streams)
      /\ streams'[s] = st
      /\ \A r \in 1..Len(streams) : r # s => streams'[r] = streams[r]
  <2>1. streams' = [streams EXCEPT ![s] = st]
    BY DEF s
  <2> QED
    BY ZenonT(40), <1>1, <1>2, <2>1, StreamStep
<1>4. call'[c] = k /\ \A d \in Callers : d # c => call'[d] = call[d]
  BY <1>1 DEF TypeOK
<1>5. \A d \in Callers : d # c => ~Writing(d) /\ ~Writing(d)' /\ ~sending(d)'
  <2>1. \A d \in Callers : d # c => ~Writing(d) /\ ~sending(d)
    BY <1>1, OneHolder
  <2> QED
    BY <1>4, <2>1 DEF Writing, sending, holds
<1>6. TypeOK'
  BY <1>1, <1>3, Calling DEF TypeOK
<1>7. HolderInv'
  <2>1. k # Idle
    BY <1>1 DEF Idle
  <2>2. k.todo \subseteq connected
    BY DEF NetworkInv, HolderInv
  <2>3. \A d \in Callers : transport' = d => call'[d] # Idle
    BY <1>1, <1>4, <2>1
  <2>4. \A d \in Callers : sending(d)' => call'[d].todo \subseteq connected'
    BY <1>4, <1>5, <2>2 DEF connected
  <2> QED
    BY <2>3, <2>4 DEF HolderInv
<1>8. WriterInv'
  <2> SUFFICES ASSUME Writing(c)'
               PROVE  /\ transport' = c
                      /\ call'[c].at \in call'[c].todo
                      /\ LET w == stream(call[c].at)'.wire
                         IN  w # <<>> /\ w[Len(w)] = [part |-> "length", msg |-> call'[c].msg]
    BY <1>5 DEF WriterInv
  <2>1. k.at = p /\ p \in k.todo
    BY <1>4 DEF Writing
  <2>2. stream(call[c].at)' = st
    BY <1>3, <1>4, <2>1 DEF stream, s
  <2> QED
    BY <1>1, <1>4, <2>1, <2>2, NetworkAssumption DEF TypeOK, connected
<1>9. WireInv'
  <2> SUFFICES ASSUME NEW r \in 1..Len(streams')
               PROVE  /\ PairsOK(streams'[r].wire, r, torn')
                      /\ EndsInLength(streams'[r].wire, r, torn') =>
                            \/ streams'[r].broken
                            \/ \E d \in Callers : Writing(d)' /\ connections'[call'[d].at] = r
    BY Zenon DEF WireInv, PairsOK, EndsInLength
  <2>0. r \in 1..Len(streams) /\ connections' = connections /\ torn' = torn
    BY <1>3
  <2>1. CASE r = s
    <3>1. CASE k.at = Nobody
      BY <1>3, <2>0, <2>1, <3>1 DEF s
    <3>2. CASE k.at # Nobody
      <4>1. Writing(c)' /\ connections'[call'[c].at] = r
        BY <1>1, <1>4, <2>0, <2>1, <3>2 DEF Writing, s
      <4> QED
        BY <1>3, <2>0, <2>1, <4>1 DEF s
    <3> QED
      BY <3>1, <3>2
  <2>2. CASE r # s
    <3>1. streams'[r] = streams[r]
      BY <1>3, <2>0, <2>2
    <3>2. ~\E d \in Callers : Writing(d) /\ connections[call[d].at] = r
      BY <1>5, <2>2 DEF Writing, s
    <3> QED
      BY <2>0, <3>1, <3>2 DEF NetworkInv, WireInv
  <2> QED
    BY <2>1, <2>2
<1>10. ReachInv'
  <2> SUFFICES ASSUME holds(c, "broadcast"), NEW q \in connected
               PROVE  \/ q \in k.todo
                      \/ \E i \in DOMAIN streams'[connections[q]].wire :
                            streams'[connections[q]].wire[i] = [part |-> "data", msg |-> k.msg]
                      \/ streams'[connections[q]].broken
    <3>1. \A d \in Callers : holds(d, "broadcast")' => d = c /\ holds(c, "broadcast")
      BY <1>1, <1>4 DEF holds, Idle
    <3> QED
      BY <1>4, <3>1 DEF ReachInv, connected, got, stream
  <2>1. CASE q = p
    BY <1>3, <2>1 DEF s
  <2>2. CASE q # p /\ q \in call[c].todo
    BY <2>2
  <2>3. CASE q \notin call[c].todo
    <3>1. got(connections[q], k.msg) \/ stream(q).broken
      BY <2>3 DEF NetworkInv, ReachInv
    <3>2. CASE connections[q] = s
      BY <1>3, <3>1, <3>2 DEF got, stream, s
    <3>3. CASE connections[q] # s
      BY <1>2, <1>3, <3>1, <3>3 DEF got, stream
    <3> QED
      BY <3>2, <3>3
  <2> QED
    BY <2>1, <2>2, <2>3
<1> QED
  BY <1>6, <1>7, <1>8, <1>9, <1>10 DEF NetworkInv

\* The writes of send, and their failure.
LEMMA SendInv ==
    ASSUME NetworkInv, NEW c \in Callers, Send(c)
    PROVE  NetworkInv'
<1>1. TypeOK
  BY DEF NetworkInv
<1>2. call[c] \in Sending /\ call[c].todo \subseteq connected /\ call[c].todo \subseteq PeerId /\ sending(c)
  BY Zenon, <1>1, CallKinds DEF Send, WriteLength, WriteData, WriteFails, sending, holds,
     NetworkInv, HolderInv, connected
<1>3. ASSUME NEW p \in call[c].todo
      PROVE  /\ stream(p) \in Stream /\ stream(p).wire \in Seq(Unit) /\ PairsOK(stream(p).wire, connections[p], torn)
             /\ EndsInLength(stream(p).wire, connections[p], torn) =>
                   \/ stream(p).broken
                   \/ \E d \in Callers : Writing(d)
  <2>1. connections[p] \in 1..Len(streams)
    BY <1>1, <1>2 DEF TypeOK, connected
  <2>2. stream(p) \in Stream
    BY <1>1, <2>1 DEF TypeOK, stream
  <2> QED
    BY <2>1, <2>2 DEF NetworkInv, WireInv, stream, Stream
<1>4. ASSUME NEW p \in PeerId, WriteLength(c, p) PROVE NetworkInv'
  <2> DEFINE w == stream(p).wire
             st == [stream(p) EXCEPT !.wire = Append(w, [part |-> "length", msg |-> call[c].msg])]
             k == [call[c] EXCEPT !.at = p]
  <2>1. /\ p \in call[c].todo /\ call[c].at = Nobody /\ ~stream(p).broken
        /\ call' = [call EXCEPT ![c] = k]
        /\ streams' = [streams EXCEPT ![connections[p]] = st]
        /\ UNCHANGED <<identity, connections, torn, transport, calls>>
    BY <1>4 DEF WriteLength, Write, stream
  <2>2. k \in Sending /\ k.op = call[c].op /\ k.msg = call[c].msg /\ k.todo = call[c].todo /\ k.at = p
    BY <1>2 DEF Sending
  <2>3. ~EndsInLength(w, connections[p], torn)
    <3>1. \A d \in Callers : ~Writing(d)
      BY <1>2, <2>1, OneHolder DEF Writing, sending, holds
    <3> QED
      BY <1>3, <2>1, <3>1
  <2>4. /\ Append(w, [part |-> "length", msg |-> call[c].msg]) \in Seq(Unit)
        /\ PairsOK(Append(w, [part |-> "length", msg |-> call[c].msg]), connections[p], torn)
        /\ Append(w, [part |-> "length", msg |-> call[c].msg]) # <<>>
        /\ LET v == Append(w, [part |-> "length", msg |-> call[c].msg])
           IN  v[Len(v)] = [part |-> "length", msg |-> call[c].msg]
    BY <1>2, <1>3, <2>1, <2>3, AppendLength DEF Sending
  <2>5. /\ st \in Stream /\ st.broken = stream(p).broken
        /\ st.wire = Append(w, [part |-> "length", msg |-> call[c].msg])
    BY Zenon, <1>3, <2>1, <2>4 DEF Stream
  <2>6. \A i \in DOMAIN w : i \in DOMAIN st.wire /\ st.wire[i] = w[i]
    BY <1>2, <1>3, <2>1, <2>5, GotStays DEF Unit, Sending
  <2> HIDE DEF w, st, k
  <2>7. /\ PairsOK(st.wire, connections[p], torn) /\ st.wire # <<>>
        /\ st.wire[Len(st.wire)] = [part |-> "length", msg |-> k.msg]
    BY <2>2, <2>4, <2>5
  <2>8. \A i \in DOMAIN stream(p).wire : i \in DOMAIN st.wire /\ st.wire[i] = stream(p).wire[i]
    BY <2>6 DEF w
  <2>9. p # Nobody
    BY NetworkAssumption
  <2> QED
    BY Zenon, <1>2, <2>1, <2>2, <2>5, <2>7, <2>8, <2>9, WriteInv
<1>5. ASSUME WriteData(c) PROVE NetworkInv'
  <2> DEFINE p == call[c].at
             w == stream(p).wire
             st == [stream(p) EXCEPT !.wire = Append(w, [part |-> "data", msg |-> call[c].msg])]
             k == [[call[c] EXCEPT !.at = Nobody] EXCEPT !.todo = @ \ {p}]
  <2>1. /\ p # Nobody
        /\ call' = [call EXCEPT ![c] = k]
        /\ streams' = [streams EXCEPT ![connections[p]] = st]
        /\ UNCHANGED <<identity, connections, torn, transport, calls>>
    BY Zenon, <1>5, <1>2, <1>1 DEF WriteData, Write, stream, TypeOK, Sending
  <2>2. /\ p \in call[c].todo
        /\ w # <<>> /\ w[Len(w)] = [part |-> "length", msg |-> call[c].msg]
    BY <1>2, <2>1 DEF NetworkInv, WriterInv, Writing, sending, holds
  <2>3. k \in Sending /\ k.op = call[c].op /\ k.msg = call[c].msg /\ k.todo = call[c].todo \ {p} /\ k.at = Nobody
    BY Zenon, <1>2 DEF Sending
  <2>4. /\ Append(w, [part |-> "data", msg |-> call[c].msg]) \in Seq(Unit)
        /\ PairsOK(Append(w, [part |-> "data", msg |-> call[c].msg]), connections[p], torn)
        /\ ~EndsInLength(Append(w, [part |-> "data", msg |-> call[c].msg]), connections[p], torn)
        /\ \E i \in DOMAIN Append(w, [part |-> "data", msg |-> call[c].msg]) :
              Append(w, [part |-> "data", msg |-> call[c].msg])[i] = [part |-> "data", msg |-> call[c].msg]
    BY SMTT(30), <1>2, <1>3, <2>2, AppendData DEF Sending
  <2>5. /\ st \in Stream /\ st.broken = stream(p).broken
        /\ st.wire = Append(w, [part |-> "data", msg |-> call[c].msg])
    BY Zenon, <1>3, <2>2, <2>4 DEF Stream
  <2>6. \A i \in DOMAIN w : i \in DOMAIN st.wire /\ st.wire[i] = w[i]
    BY <1>2, <1>3, <2>2, <2>5, GotStays DEF Unit, Sending
  <2> HIDE DEF w, st, k
  <2>7. /\ PairsOK(st.wire, connections[p], torn) /\ ~EndsInLength(st.wire, connections[p], torn)
        /\ \E i \in DOMAIN st.wire : st.wire[i] = [part |-> "data", msg |-> k.msg]
    BY <2>3, <2>4, <2>5
  <2>8. \A i \in DOMAIN stream(p).wire : i \in DOMAIN st.wire /\ st.wire[i] = stream(p).wire[i]
    BY <2>6 DEF w
  <2> HIDE DEF p
  <2>9. call[c].at \in {Nobody, p}
    BY DEF p
  <2>10. call[c].todo \subseteq k.todo \cup {p} /\ k.todo \subseteq call[c].todo
    BY <2>3
  <2>11. /\ stream(p).broken => st.broken
         /\ k.at = Nobody => (EndsInLength(st.wire, connections[p], torn) => st.broken)
         /\ k.at # Nobody => /\ k.at = p /\ p \in k.todo /\ st.wire # <<>>
                             /\ st.wire[Len(st.wire)] = [part |-> "length", msg |-> k.msg]
         /\ p \notin k.todo =>
               st.broken \/ \E i \in DOMAIN st.wire : st.wire[i] = [part |-> "data", msg |-> k.msg]
    BY ONLY Zenon, <2>3, <2>5, <2>7
  <2>12. /\ st \in Stream /\ k \in Sending /\ k.op = call[c].op /\ k.msg = call[c].msg
         /\ PairsOK(st.wire, connections[p], torn)
    BY ONLY Zenon, <2>3, <2>5, <2>7
  <2> QED
    BY Zenon, <1>2, <2>1, <2>2, <2>8, <2>9, <2>10, <2>11, <2>12, WriteInv
<1>6. ASSUME NEW p \in PeerId, WriteFails(c, p) PROVE NetworkInv'
  <2> DEFINE st == [stream(p) EXCEPT !.broken = TRUE]
             k == [[call[c] EXCEPT !.at = Nobody] EXCEPT !.todo = call[c].todo \ {p}]
  <2>1. /\ p \in call[c].todo /\ call[c].at \in {Nobody, p}
        /\ call' = [call EXCEPT ![c] = k]
        /\ streams' = [streams EXCEPT ![connections[p]] = st]
        /\ UNCHANGED <<identity, connections, torn, transport, calls>>
    BY <1>6, <1>2, <1>1 DEF WriteFails, afterError, stream, TypeOK, Sending
  <2>2. k \in Sending /\ k.op = call[c].op /\ k.msg = call[c].msg /\ k.todo = call[c].todo \ {p} /\ k.at = Nobody
    BY Zenon, <1>2 DEF Sending
  <2>3. st \in Stream /\ st.broken /\ st.wire = stream(p).wire
    BY Zenon, <1>3, <2>1 DEF Stream
  <2> HIDE DEF st, k
  <2> QED
    BY Zenon, <1>2, <1>3, <2>1, <2>2, <2>3, WriteInv
<1> QED
  BY <1>4, <1>5, <1>6 DEF Send

-----------------------------------------------------------------------------
(* Results *)

\* The initial state: no stream, no call.
LEMMA InitInv == Init => NetworkInv
<1> SUFFICES ASSUME Init PROVE NetworkInv
  OBVIOUS
<1>1. streams = <<>> /\ Len(streams) = 0 /\ streams \in Seq(Stream)
  BY DEF Init, TransportInit
<1>2. TypeOK
  BY <1>1, NetworkAssumption DEF Init, TransportInit, TypeOK
<1>3. \A c \in Callers : ~Writing(c) /\ ~sending(c) /\ ~holds(c, "broadcast") /\ transport # c
  BY Zenon, NetworkAssumption DEF Init, Writing, sending, holds, Idle
<1> QED
  BY <1>1, <1>2, <1>3 DEF NetworkInv, WriterInv, HolderInv, WireInv, ReachInv

\* The invariant holds of every behaviour.
LEMMA Invariance == Spec => []NetworkInv
<1>1. ASSUME NetworkInv, [Next]_vars PROVE NetworkInv'
  <2>0. TypeOK
    BY <1>1 DEF NetworkInv
  <2>1. ASSUME NEW c \in Callers, Calls(c) PROVE NetworkInv'
    BY <1>1, <2>0, <2>1, TypeStep, CallsInv DEF NetworkInv
  <2>2. ASSUME NEW c \in Callers, Acquire(c) PROVE NetworkInv'
    BY <1>1, <2>0, <2>2, TypeStep, AcquireInv DEF NetworkInv
  <2>3. ASSUME NEW c \in Callers, Dial(c) PROVE NetworkInv'
    <3>1. TypeOK'
      BY <2>0, <2>3, TypeStep
    <3> QED
      BY <1>1, <2>3, <3>1, DialInv DEF NetworkInv, Dial
  <2>4. ASSUME NEW c \in Callers, Return(c) PROVE NetworkInv'
    BY <1>1, <2>0, <2>4, TypeStep, ReturnInv DEF NetworkInv
  <2>5. ASSUME NEW c \in Callers, NEW p \in PeerId, Disconnect(c, p) PROVE NetworkInv'
    BY SMTT(30), <1>1, <2>0, <2>5, TypeStep, DisconnectInv DEF NetworkInv
  <2>6. ASSUME UNCHANGED vars PROVE NetworkInv'
    BY <1>1, <2>6 DEF vars, transportVars, NetworkInv, TypeOK, WriterInv, HolderInv, WireInv, ReachInv,
       Writing, sending, holds, connected, stream, got
  <2> QED
    BY <1>1, <2>1, <2>2, <2>3, <2>4, <2>5, <2>6, CancelInv, SendInv, RemoteInv DEF Next
<1> QED
  BY <1>1, InitInv, PTL DEF Spec

\* A peer's connection is one of the streams, in every state.
THEOREM TypeCorrect == Spec => []TypeOK
<1>1. NetworkInv => TypeOK
  BY DEF NetworkInv
<1> QED
  BY <1>1, Invariance, PTL

\* However callers interleave and connections are lost, no stream carries a
\* length that is followed by anything but the data of the same message, unless
\* the send was dropped there.
THEOREM FramesWholeHolds == Spec => []FramesWhole
<1>1. ASSUME NetworkInv, NEW s \in DOMAIN streams, NEW k \in DOMAIN streams[s].wire,
             streams[s].wire[k].part = "length", ~(k < Len(streams[s].wire)), ~streams[s].broken,
             <<s, streams[s].wire[k].msg>> \notin torn
      PROVE  inProgress(s, streams[s].wire[k].msg)
  <2> DEFINE w == streams[s].wire
  <2>1. s \in 1..Len(streams) /\ streams[s] \in Stream
    BY <1>1 DEF NetworkInv, TypeOK
  <2>2. w \in Seq(Unit)
    BY <2>1 DEF Stream
  <2>3. k = Len(w) /\ w # <<>>
    BY <1>1, <2>2
  <2>4. PICK c \in Callers : Writing(c) /\ connections[call[c].at] = s
    BY <1>1, <2>1, <2>3 DEF NetworkInv, WireInv, EndsInLength
  <2>5. transport = c /\ w[Len(w)] = [part |-> "length", msg |-> call[c].msg]
    BY <1>1, <2>4 DEF NetworkInv, WriterInv, stream
  <2>6. sending(c)
    BY <2>4, <2>5 DEF Writing, sending, holds, Idle
  <2> QED
    BY <2>3, <2>4, <2>5, <2>6 DEF inProgress, Writing
<1>2. ASSUME NetworkInv, NEW s \in DOMAIN streams PROVE PairsOK(streams[s].wire, s, torn)
  BY <1>2 DEF NetworkInv, TypeOK, WireInv
<1>3. NetworkInv => FramesWhole
  BY <1>1, <1>2 DEF FramesWhole, PairsOK
<1> QED
  BY <1>3, Invariance, PTL

\* A broadcast ends with every connection served or lost, whichever writes fail.
THEOREM BroadcastReachesHolds == Spec => []BroadcastReaches
<1>1. NetworkInv => BroadcastReaches
  BY DEF NetworkInv, ReachInv, BroadcastReaches, finished
<1> QED
  BY <1>1, Invariance, PTL

-----------------------------------------------------------------------------
(* No message comes twice *)

\* The caller has a message, sent or to be sent.
HasMessage(c) == call[c].op \in {"broadcast", "send_to"}

noRepeat(w) == \A j, k \in DOMAIN w : w[j] = w[k] => j = k
lacks(w, m) == \A k \in DOMAIN w : w[k].msg # m

\* No two peers share a stream.
StreamInv == \A p, q \in connected : connections[p] = connections[q] => p = q

\* What is on the wires is of calls that have been made.
UnitInv ==
    \A s \in 1..Len(streams) :
        /\ noRepeat(streams[s].wire)
        /\ \A k \in DOMAIN streams[s].wire : streams[s].wire[k].msg =< calls

\* Every call has a message of its own.
MessageInv ==
    \A c \in Callers : HasMessage(c) =>
        /\ call[c].msg =< calls
        /\ \A d \in Callers : HasMessage(d) /\ call[d].msg = call[c].msg => d = c

\* Who waits for the lock has written nothing.
WaitInv ==
    \A c \in Callers : HasMessage(c) /\ transport # c =>
        \A s \in 1..Len(streams) : lacks(streams[s].wire, call[c].msg)

\* Nor has who holds it to a peer it has still to send to, but for the length.
unsent(w, k, p) ==
    IF k.at = p THEN \A i \in DOMAIN w : w[i] # [part |-> "data", msg |-> k.msg]
    ELSE lacks(w, k.msg)

TodoInv ==
    \A c \in Callers : HasMessage(c) /\ transport = c =>
        \A p \in call[c].todo : unsent(stream(p).wire, call[c], p)

OnceInv == StreamInv /\ UnitInv /\ MessageInv /\ WaitInv /\ TodoInv

LEMMA UnitTypes ==
    ASSUME NetworkInv, NEW s \in 1..Len(streams)
    PROVE  /\ streams[s] \in Stream /\ streams[s].wire \in Seq(Unit)
           /\ \A k \in DOMAIN streams[s].wire :
                 streams[s].wire[k] \in Unit /\ streams[s].wire[k].msg \in Nat
<1>1. streams[s] \in Stream
  BY DEF NetworkInv, TypeOK
<1>2. streams[s].wire \in Seq(Unit)
  BY Zenon, <1>1 DEF Stream
<1>3. \A k \in DOMAIN streams[s].wire : streams[s].wire[k] \in Unit
  BY <1>2
<1>4. \A u \in Unit : u.msg \in Nat
  BY NetworkAssumption DEF Unit, P2PMessage
<1> QED
  BY Zenon, <1>1, <1>2, <1>3, <1>4

\* A step that leaves the wires, the connections and the calls alone.
LEMMA SameWires ==
    ASSUME NetworkInv, OnceInv, UNCHANGED <<connections, transport, call, calls>>,
           Len(streams') = Len(streams),
           \A r \in 1..Len(streams) : streams'[r].wire = streams[r].wire
    PROVE  OnceInv'
<1>1. StreamInv' /\ MessageInv'
  BY Zenon DEF OnceInv, StreamInv, MessageInv, connected, HasMessage
<1>2. UnitInv'
  BY Zenon DEF OnceInv, UnitInv, noRepeat
<1>3. WaitInv'
  BY ZenonT(40) DEF OnceInv, WaitInv, HasMessage, lacks
<1>4. TodoInv'
  <2> SUFFICES ASSUME NEW c \in Callers, HasMessage(c), transport = c, NEW p \in call[c].todo
               PROVE  unsent(streams'[connections[p]].wire, call[c], p)
    BY Zenon DEF TodoInv, HasMessage, stream, unsent, lacks
  <2>1. p \in connected
    BY Zenon DEF HasMessage, NetworkInv, HolderInv, sending, holds
  <2>2. connections[p] \in 1..Len(streams)
    BY <2>1 DEF NetworkInv, TypeOK, connected
  <2> QED
    BY Zenon, <2>2 DEF OnceInv, TodoInv, stream
<1> QED
  BY Zenon, <1>1, <1>2, <1>3, <1>4 DEF OnceInv

\* A call begins, with a new message.
LEMMA BeginOnce ==
    ASSUME NetworkInv, OnceInv, NEW c \in Callers, NEW newCall, Begin(c, newCall),
           newCall.op \in {"broadcast", "send_to"} => newCall.msg = calls + 1
    PROVE  OnceInv'
<1>1. /\ call[c] = Idle /\ transport # c /\ calls' = calls + 1
      /\ call' = [call EXCEPT ![c] = newCall]
      /\ UNCHANGED <<streams, connections, transport>>
  BY Zenon DEF Begin, transportVars, NetworkInv, HolderInv
<1>2. call'[c] = newCall /\ \A d \in Callers : d # c => call'[d] = call[d]
  BY Zenon, <1>1 DEF NetworkInv, TypeOK
<1>3. \A d \in Callers : d # c => (HasMessage(d)' <=> HasMessage(d))
  BY Zenon, <1>2 DEF HasMessage
<1>4. HasMessage(c)' => call'[c].msg = calls + 1
  BY Zenon, <1>2 DEF HasMessage
<1>5. calls \in Nat /\ Len(streams) \in Nat
  BY NetworkAssumption DEF NetworkInv, TypeOK
<1>6. \A d \in Callers : HasMessage(d) => call[d].msg \in Nat
  <2>1. \A d \in Callers : HasMessage(d) => call[d] \in Sending
    BY Zenon, CallKinds DEF NetworkInv, HasMessage
  <2> QED
    BY <2>1, NetworkAssumption DEF Sending, P2PMessage
<1>7. \A s \in 1..Len(streams) : \A k \in DOMAIN streams[s].wire : streams[s].wire[k].msg \in Nat
  BY UnitTypes
<1>8. StreamInv'
  BY Zenon, <1>1 DEF OnceInv, StreamInv, connected
<1>9. UnitInv'
  BY <1>1, <1>5, <1>7 DEF OnceInv, UnitInv, noRepeat
<1>10. MessageInv'
  <2>1. \A d \in Callers : HasMessage(d)' => call'[d].msg =< calls'
    BY <1>1, <1>2, <1>3, <1>4, <1>5, <1>6 DEF OnceInv, MessageInv
  <2>2. \A d \in Callers : d # c /\ HasMessage(d)' => call'[d].msg # calls + 1
    BY <1>2, <1>3, <1>5, <1>6 DEF OnceInv, MessageInv
  <2>3. \A d, e \in Callers : d # c /\ e # c /\ HasMessage(d)' /\ HasMessage(e)' =>
            (call'[e].msg = call'[d].msg => e = d)
    BY Zenon, <1>2, <1>3 DEF OnceInv, MessageInv
  <2> QED
    BY Zenon, <1>4, <2>1, <2>2, <2>3 DEF MessageInv
<1>11. WaitInv'
  <2>1. \A s \in 1..Len(streams) : lacks(streams[s].wire, calls + 1)
    BY <1>5, <1>7 DEF OnceInv, UnitInv, lacks
  <2>2. \A d \in Callers : HasMessage(d)' /\ transport # d =>
            \A s \in 1..Len(streams) : lacks(streams[s].wire, call'[d].msg)
    BY Zenon, <1>2, <1>3, <1>4, <2>1 DEF OnceInv, WaitInv
  <2> QED
    BY Zenon, <1>1, <2>2 DEF WaitInv, lacks
<1>12. TodoInv'
  <2> SUFFICES ASSUME NEW d \in Callers, HasMessage(d)', transport = d, NEW p \in call'[d].todo
               PROVE  unsent(streams[connections[p]].wire, call'[d], p)
    BY Zenon, <1>1 DEF TodoInv, stream
  <2>1. d # c /\ call'[d] = call[d] /\ HasMessage(d)
    BY Zenon, <1>1, <1>2, <1>3
  <2> QED
    BY Zenon, <2>1 DEF OnceInv, TodoInv, stream
<1> QED
  BY Zenon, <1>8, <1>9, <1>10, <1>11, <1>12 DEF OnceInv

\* A caller gets the lock, having written nothing.
LEMMA AcquireOnce ==
    ASSUME NetworkInv, OnceInv, NEW c \in Callers, Acquire(c)
    PROVE  OnceInv'
<1>1. /\ transport = Nobody /\ transport' = c /\ c # Nobody
      /\ UNCHANGED <<streams, connections, calls>>
  BY Zenon, NetworkAssumption DEF Acquire, lockFree, transportVars
<1>2. \A d \in Callers : d # c => call'[d] = call[d]
  BY Zenon DEF Acquire, NetworkInv, TypeOK
<1>3. /\ HasMessage(c)' <=> HasMessage(c)
      /\ HasMessage(c) => /\ call'[c].msg = call[c].msg /\ call'[c].at = call[c].at
                          /\ call'[c].todo \subseteq connected
  <2>1. CASE call[c].op = "broadcast"
    <3>1. call[c] \in Sending
      BY <2>1, CallKinds DEF NetworkInv
    <3>2. call'[c] = [call[c] EXCEPT !.todo = connected]
      BY <2>1 DEF Acquire, NetworkInv, TypeOK
    <3> QED
      BY <2>1, <3>1, <3>2 DEF Sending, HasMessage
  <2>2. CASE call[c].op = "send_to"
    <3>1. call[c] \in Sending
      BY <2>2, CallKinds DEF NetworkInv
    <3>2. call'[c] = [call[c] EXCEPT !.todo = @ \cap connected]
      BY <2>2 DEF Acquire, NetworkInv, TypeOK
    <3> QED
      BY <2>2, <3>1, <3>2 DEF Sending, HasMessage
  <2>3. CASE ~HasMessage(c)
    BY <2>3 DEF Acquire, HasMessage
  <2> QED
    BY Zenon, <2>1, <2>2, <2>3 DEF HasMessage
<1>4. \A d \in Callers : /\ HasMessage(d)' <=> HasMessage(d)
                         /\ HasMessage(d) => call'[d].msg = call[d].msg
  BY Zenon, <1>2, <1>3 DEF HasMessage
<1>5. StreamInv' /\ UnitInv'
  BY Zenon, <1>1 DEF OnceInv, StreamInv, UnitInv, connected, noRepeat
<1>6. MessageInv'
  BY Zenon, <1>1, <1>4 DEF OnceInv, MessageInv
<1>7. WaitInv'
  <2> SUFFICES ASSUME NEW d \in Callers, HasMessage(d)', transport' # d, NEW s \in 1..Len(streams)
               PROVE  lacks(streams[s].wire, call'[d].msg)
    BY Zenon, <1>1 DEF WaitInv, lacks
  <2>1. transport # d /\ HasMessage(d) /\ call'[d].msg = call[d].msg
    BY Zenon, <1>1, <1>4, NetworkAssumption
  <2> QED
    BY Zenon, <2>1 DEF OnceInv, WaitInv
<1>8. ASSUME HasMessage(c)', NEW p \in call'[c].todo
      PROVE  unsent(streams[connections[p]].wire, call'[c], p)
  <2>1. connections[p] \in 1..Len(streams)
    BY <1>3, <1>8 DEF NetworkInv, TypeOK, connected
  <2>2. lacks(streams[connections[p]].wire, call'[c].msg)
    BY Zenon, <1>1, <1>3, <1>8, <2>1 DEF OnceInv, WaitInv
  <2>3. \A i \in DOMAIN streams[connections[p]].wire :
            streams[connections[p]].wire[i] # [part |-> "data", msg |-> call'[c].msg]
    BY <2>2 DEF lacks
  <2> QED
    BY <2>2, <2>3 DEF unsent
<1>9. TodoInv'
  BY Zenon, <1>1, <1>8 DEF TodoInv, stream
<1> QED
  BY Zenon, <1>5, <1>6, <1>7, <1>9 DEF OnceInv

\* The call returns.
LEMMA ReturnOnce ==
    ASSUME NetworkInv, OnceInv, NEW c \in Callers, Return(c)
    PROVE  OnceInv'
<1>1. /\ transport = c /\ transport' = Nobody
      /\ call' = [call EXCEPT ![c] = Idle]
      /\ UNCHANGED <<streams, connections, calls>>
  BY Zenon DEF Return, finished, transportVars
<1>2. call'[c] = Idle /\ \A d \in Callers : d # c => call'[d] = call[d]
  BY Zenon, <1>1 DEF NetworkInv, TypeOK
<1>3. ~HasMessage(c)' /\ \A d \in Callers : d # c => (HasMessage(d)' <=> HasMessage(d))
  BY <1>2 DEF HasMessage, Idle
<1>4. StreamInv' /\ UnitInv'
  BY Zenon, <1>1 DEF OnceInv, StreamInv, UnitInv, connected, noRepeat
<1>5. MessageInv'
  BY Zenon, <1>1, <1>2, <1>3 DEF OnceInv, MessageInv
<1>6. WaitInv'
  <2> SUFFICES ASSUME NEW d \in Callers, HasMessage(d)', NEW s \in 1..Len(streams)
               PROVE  lacks(streams[s].wire, call'[d].msg)
    BY Zenon, <1>1 DEF WaitInv, lacks
  <2>1. transport # d /\ HasMessage(d) /\ call'[d].msg = call[d].msg
    BY Zenon, <1>1, <1>2, <1>3
  <2> QED
    BY Zenon, <2>1 DEF OnceInv, WaitInv
<1>7. TodoInv'
  BY Zenon, <1>1, NetworkAssumption DEF TodoInv
<1> QED
  BY Zenon, <1>4, <1>5, <1>6, <1>7 DEF OnceInv

\* The call is dropped, and writes no more.
LEMMA CancelOnce ==
    ASSUME NetworkInv, OnceInv, NEW c \in Callers, Cancel(c)
    PROVE  OnceInv'
<1>1. call' = [call EXCEPT ![c] = Idle] /\ UNCHANGED <<streams, connections, calls>>
  BY Zenon DEF Cancel
<1>2. call'[c] = Idle /\ \A d \in Callers : d # c => call'[d] = call[d]
  BY Zenon, <1>1 DEF NetworkInv, TypeOK
<1>3. ~HasMessage(c)' /\ \A d \in Callers : d # c => (HasMessage(d)' <=> HasMessage(d))
  BY <1>2 DEF HasMessage, Idle
<1>4. \A d \in Callers : d # c => (transport' = d <=> transport = d)
  BY NetworkAssumption DEF Cancel
<1>5. StreamInv' /\ UnitInv'
  BY Zenon, <1>1 DEF OnceInv, StreamInv, UnitInv, connected, noRepeat
<1>6. MessageInv'
  BY Zenon, <1>1, <1>2, <1>3 DEF OnceInv, MessageInv
<1>7. WaitInv'
  <2> SUFFICES ASSUME NEW d \in Callers, HasMessage(d)', transport' # d, NEW s \in 1..Len(streams)
               PROVE  lacks(streams[s].wire, call'[d].msg)
    BY Zenon, <1>1 DEF WaitInv, lacks
  <2>1. transport # d /\ HasMessage(d) /\ call'[d].msg = call[d].msg
    BY Zenon, <1>2, <1>3, <1>4
  <2> QED
    BY Zenon, <2>1 DEF OnceInv, WaitInv
<1>8. TodoInv'
  <2> SUFFICES ASSUME NEW d \in Callers, HasMessage(d)', transport' = d, NEW p \in call'[d].todo
               PROVE  unsent(streams[connections[p]].wire, call'[d], p)
    BY Zenon, <1>1 DEF TodoInv, stream
  <2>1. transport = d /\ HasMessage(d) /\ call'[d] = call[d]
    BY Zenon, <1>2, <1>3, <1>4
  <2> QED
    BY Zenon, <2>1 DEF OnceInv, TodoInv, stream
<1> QED
  BY Zenon, <1>5, <1>6, <1>7, <1>8 DEF OnceInv

\* The holder dials or disconnects: the wires stay, but for new and empty ones.
LEMMA NoSenderOnce ==
    ASSUME NetworkInv, OnceInv, NEW c \in Callers, transport = c, transport' = c,
           call[c].op \in {"dial", "disconnect"}, call'[c].op = call[c].op,
           \A d \in Callers : d # c => call'[d] = call[d],
           calls' = calls, StreamInv',
           \A s \in 1..Len(streams') :
              streams'[s].wire = <<>> \/ (s \in 1..Len(streams) /\ streams'[s] = streams[s])
    PROVE  OnceInv'
<1>1. ~HasMessage(c) /\ ~HasMessage(c)'
  BY DEF HasMessage
<1>2. \A d \in Callers : d # c => (HasMessage(d)' <=> HasMessage(d))
  BY Zenon DEF HasMessage
<1>3. noRepeat(<<>>) /\ \A m : lacks(<<>>, m)
  BY DEF noRepeat, lacks
<1>4. UnitInv'
  <2> SUFFICES ASSUME NEW s \in 1..Len(streams')
               PROVE  /\ noRepeat(streams'[s].wire)
                      /\ \A k \in DOMAIN streams'[s].wire : streams'[s].wire[k].msg =< calls
    BY Zenon DEF UnitInv, noRepeat
  <2>1. CASE streams'[s].wire = <<>>
    BY <1>3, <2>1
  <2>2. CASE s \in 1..Len(streams) /\ streams'[s] = streams[s]
    BY Zenon, <2>2 DEF OnceInv, UnitInv
  <2> QED
    BY Zenon, <2>1, <2>2
<1>5. MessageInv'
  BY Zenon, <1>1, <1>2 DEF OnceInv, MessageInv
<1>6. WaitInv'
  <2> SUFFICES ASSUME NEW d \in Callers, HasMessage(d)', transport' # d, NEW s \in 1..Len(streams')
               PROVE  lacks(streams'[s].wire, call'[d].msg)
    BY Zenon DEF WaitInv, lacks
  <2>1. CASE streams'[s].wire = <<>>
    BY Zenon, <1>3, <2>1
  <2>2. CASE s \in 1..Len(streams) /\ streams'[s] = streams[s]
    BY Zenon, <1>1, <1>2, <2>2 DEF OnceInv, WaitInv
  <2> QED
    BY Zenon, <2>1, <2>2
<1>7. TodoInv'
  BY Zenon, <1>1 DEF TodoInv
<1> QED
  BY Zenon, <1>4, <1>5, <1>6, <1>7 DEF OnceInv

\* A dial succeeds, with a stream no peer has, or fails.
LEMMA DialOnce ==
    ASSUME NetworkInv, OnceInv, NEW c \in Callers, NEW addr \in Addr,
           DialSucceeds(c, addr) \/ DialFails(c, addr)
    PROVE  OnceInv'
<1>1. TypeOK /\ transport = c /\ transport' = c /\ call[c].op = "dial" /\ calls' = calls
  BY Zenon DEF NetworkInv, DialSucceeds, DialFails, holds
<1>2. call[c] \in Dialing
  BY Zenon, <1>1, CallKinds
<1>3. call' = [call EXCEPT ![c] = [call[c] EXCEPT !.todo = @ \ {addr}]]
  BY DEF DialSucceeds, DialFails
<1>4. call'[c].op = call[c].op /\ \A d \in Callers : d # c => call'[d] = call[d]
  BY <1>1, <1>2, <1>3 DEF TypeOK, Dialing
<1>5. CASE DialFails(c, addr)
  <2>1. UNCHANGED <<streams, connections>>
    BY Zenon, <1>5 DEF DialFails, transportVars
  <2>2. StreamInv'
    BY Zenon, <2>1 DEF OnceInv, StreamInv, connected
  <2> QED
    BY <1>1, <1>4, <2>1, <2>2, NoSenderOnce
<1>6. CASE DialSucceeds(c, addr)
  <2> DEFINE st == [wire |-> <<>>, broken |-> FALSE]
             id == identity[addr]
  <2>1. st \in Stream /\ streams' = Append(streams, st) /\ st.wire = <<>>
    BY <1>6 DEF DialSucceeds, Stream
  <2> HIDE DEF st
  <2>2. /\ Len(streams) \in Nat /\ Len(streams') = Len(streams) + 1
        /\ streams'[Len(streams) + 1] = st
        /\ \A s \in 1..Len(streams) : streams'[s] = streams[s]
    BY <1>1, <2>1 DEF TypeOK
  <2>3. \A s \in 1..Len(streams') :
            streams'[s].wire = <<>> \/ (s \in 1..Len(streams) /\ streams'[s] = streams[s])
    BY <2>1, <2>2
  <2>4. connections' = [connections EXCEPT ![id] = Len(streams')]
    BY Zenon, <1>6 DEF DialSucceeds, perform_handshake
  <2>5. connections \in [PeerId -> 0..Len(streams)]
    BY Zenon, <1>1 DEF TypeOK
  <2> HIDE DEF id
  <2>6. \A p \in PeerId : p # id => connections'[p] = connections[p] /\ connections'[p] # Len(streams')
    BY <2>2, <2>4, <2>5
  <2>7. \A p \in PeerId : p = id => connections'[p] = Len(streams')
    BY Zenon, <2>4, <2>5
  <2>8. StreamInv'
    BY Zenon, <2>6, <2>7 DEF OnceInv, StreamInv, connected
  <2> QED
    BY <1>1, <1>4, <2>3, <2>8, NoSenderOnce
<1> QED
  BY Zenon, <1>5, <1>6

\* A connection is given up.
LEMMA DisconnectOnce ==
    ASSUME NetworkInv, OnceInv, NEW c \in Callers, NEW p \in PeerId, Disconnect(c, p)
    PROVE  OnceInv'
<1>1. /\ TypeOK /\ transport = c /\ transport' = c /\ call[c].op = "disconnect"
      /\ streams' = streams /\ calls' = calls
  BY Zenon DEF NetworkInv, Disconnect, holds
<1>2. call[c] \in Closing
  BY Zenon, <1>1, CallKinds
<1>3. call' = [call EXCEPT ![c] = [call[c] EXCEPT !.todo = {}]]
  BY DEF Disconnect
<1>4. call'[c].op = call[c].op /\ \A d \in Callers : d # c => call'[d] = call[d]
  BY <1>1, <1>2, <1>3 DEF TypeOK, Closing
<1>5. \A q \in PeerId : connections'[q] # 0 => connections'[q] = connections[q]
  BY Zenon, <1>1 DEF Disconnect, TypeOK
<1>6. StreamInv'
  BY Zenon, <1>5 DEF OnceInv, StreamInv, connected
<1> QED
  BY <1>1, <1>4, <1>6, NoSenderOnce

\* The wires stay, whatever breaks.
LEMMA RemoteOnce ==
    ASSUME NetworkInv, OnceInv, NEW s \in DOMAIN streams, RemoteCloses(s)
    PROVE  OnceInv'
<1>1. /\ TypeOK /\ s \in 1..Len(streams)
      /\ streams' = [streams EXCEPT ![s] = [streams[s] EXCEPT !.broken = TRUE]]
      /\ UNCHANGED <<connections, transport, call, calls>>
  BY DEF NetworkInv, TypeOK, RemoteCloses
<1>2. streams[s] \in Stream
  BY <1>1 DEF TypeOK
<1>3. [streams[s] EXCEPT !.broken = TRUE] \in Stream
  BY Zenon, <1>2 DEF Stream
<1>4. Len(streams') = Len(streams)
  BY <1>1, <1>3, StreamStep
<1>5. \A r \in 1..Len(streams) : streams'[r].wire = streams[r].wire
  <2>1. streams'[s] = [streams[s] EXCEPT !.broken = TRUE]
    BY <1>1, <1>3, StreamStep
  <2>2. streams'[s].wire = streams[s].wire
    BY <1>2, <2>1 DEF Stream
  <2>3. \A r \in 1..Len(streams) : r # s => streams'[r] = streams[r]
    BY <1>1, <1>3, StreamStep
  <2> QED
    BY Zenon, <2>2, <2>3
<1> QED
  BY <1>1, <1>4, <1>5, SameWires

\* A unit that is new to the wire is put at its end.
LEMMA AppendOnce ==
    ASSUME NEW w \in Seq(Unit), NEW u \in Unit, noRepeat(w), \A i \in DOMAIN w : w[i] # u
    PROVE  /\ noRepeat(Append(w, u))
           /\ \A i \in DOMAIN Append(w, u) :
                 Append(w, u)[i] = u \/ (i \in DOMAIN w /\ Append(w, u)[i] = w[i])
<1>1. /\ Len(w) \in Nat /\ DOMAIN w = 1..Len(w) /\ DOMAIN Append(w, u) = 1..(Len(w) + 1)
      /\ Append(w, u)[Len(w) + 1] = u
      /\ \A i \in DOMAIN w : Append(w, u)[i] = w[i]
  OBVIOUS
<1>2. \A i \in DOMAIN Append(w, u) : i = Len(w) + 1 \/ i \in DOMAIN w
  BY <1>1
<1> DEFINE v == Append(w, u)
           n == Len(w) + 1
<1>3. v[n] = u /\ (\A i \in DOMAIN w : v[i] = w[i]) /\ \A i \in DOMAIN v : i = n \/ i \in DOMAIN w
  BY <1>1, <1>2
<1> HIDE DEF v, n
<1>4. noRepeat(v) /\ \A i \in DOMAIN v : v[i] = u \/ (i \in DOMAIN w /\ v[i] = w[i])
  BY Zenon, <1>3 DEF noRepeat
<1> QED
  BY <1>4 DEF v

\* The holder writes to p what was not on its stream, or finds the stream lost.
LEMMA WriteOnce ==
    ASSUME NetworkInv, OnceInv, NEW c \in Callers, sending(c), NEW p \in call[c].todo,
           call[c].at \in {Nobody, p},
           NEW st \in Stream, NEW k \in Sending,
           k.op = call[c].op, k.msg = call[c].msg, k.todo \subseteq call[c].todo,
           k.at \in {Nobody, p},
           call' = [call EXCEPT ![c] = k],
           streams' = [streams EXCEPT ![connections[p]] = st],
           UNCHANGED <<connections, transport, calls>>,
           noRepeat(st.wire),
           \A i \in DOMAIN st.wire :
              \/ st.wire[i].msg = k.msg
              \/ i \in DOMAIN stream(p).wire /\ st.wire[i] = stream(p).wire[i],
           p \in k.todo => unsent(st.wire, k, p)
    PROVE  OnceInv'
<1>1. /\ TypeOK /\ transport = c /\ HasMessage(c) /\ p \in connected
      /\ call[c].todo \subseteq connected
  BY DEF NetworkInv, HolderInv, sending, holds, HasMessage
<1> DEFINE s == connections[p]
<1>2. s \in 1..Len(streams) /\ \A q \in connected : connections[q] \in 1..Len(streams)
  BY <1>1 DEF TypeOK, connected
<1>3. \A q \in connected : q # p => connections[q] # s
  BY Zenon, <1>1 DEF OnceInv, StreamInv
<1>4. stream(p) = streams[s]
  BY Zenon DEF stream
<1>5. streams' = [streams EXCEPT ![s] = st]
  BY Zenon
<1> HIDE DEF s
<1>6. /\ Len(streams') = Len(streams) /\ streams'[s] = st
      /\ \A u \in 1..Len(streams) : u # s => streams'[u] = streams[u]
  BY Zenon, <1>1, <1>2, <1>5, StreamStep
<1>7. call'[c] = k /\ \A d \in Callers : d # c => call'[d] = call[d]
  BY Zenon, <1>1 DEF TypeOK
<1>8. \A d \in Callers : /\ HasMessage(d)' <=> HasMessage(d)
                         /\ call'[d].msg = call[d].msg
  BY Zenon, <1>7 DEF HasMessage
<1>9. StreamInv'
  BY Zenon DEF OnceInv, StreamInv, connected
<1>10. UnitInv'
  <2>1. \A i \in DOMAIN st.wire : st.wire[i].msg =< calls
    BY Zenon, <1>1, <1>2, <1>4 DEF OnceInv, UnitInv, MessageInv
  <2>2. ASSUME NEW r \in 1..Len(streams)
        PROVE  /\ noRepeat(streams'[r].wire)
               /\ \A i \in DOMAIN streams'[r].wire : streams'[r].wire[i].msg =< calls
    <3>1. CASE r = s
      BY Zenon, <1>6, <2>1, <3>1
    <3>2. CASE r # s
      <4>1. streams'[r] = streams[r]
        BY Zenon, <1>6, <3>2
      <4> QED
        BY Zenon, <4>1 DEF OnceInv, UnitInv
    <3> QED
      BY Zenon, <3>1, <3>2
  <2> QED
    BY <1>6, <2>2 DEF UnitInv
<1>11. MessageInv'
  BY Zenon, <1>8 DEF OnceInv, MessageInv
<1>12. WaitInv'
  <2> SUFFICES ASSUME NEW d \in Callers, HasMessage(d)', transport # d, NEW r \in 1..Len(streams)
               PROVE  lacks(streams'[r].wire, call'[d].msg)
    BY <1>6 DEF WaitInv
  <2>1. d # c /\ HasMessage(d) /\ call'[d].msg = call[d].msg /\ lacks(streams[r].wire, call[d].msg)
    BY Zenon, <1>1, <1>8 DEF OnceInv, WaitInv
  <2>2. call[d].msg # k.msg
    BY Zenon, <1>1, <2>1 DEF OnceInv, MessageInv
  <2>3. CASE r = s
    <3>1. lacks(st.wire, call[d].msg)
      BY Zenon, <1>4, <2>1, <2>2, <2>3 DEF lacks
    <3> QED
      BY Zenon, <1>6, <2>1, <2>3, <3>1
  <2>4. CASE r # s
    BY Zenon, <1>6, <2>1, <2>4
  <2> QED
    BY Zenon, <2>3, <2>4
<1>13. TodoInv'
  <2>1. ASSUME NEW q \in k.todo PROVE unsent(streams'[connections[q]].wire, k, q)
    <3>1. CASE q = p
      BY Zenon, <1>6, <3>1 DEF s
    <3>2. CASE q # p
      <4>1. q \in call[c].todo /\ q \in connected /\ q # Nobody
        BY Zenon, <1>1, NetworkAssumption DEF connected
      <4>2. streams'[connections[q]] = streams[connections[q]]
        BY Zenon, <1>2, <1>3, <1>6, <3>2, <4>1
      <4>3. unsent(streams[connections[q]].wire, call[c], q)
        BY Zenon, <1>1, <4>1 DEF OnceInv, TodoInv, stream
      <4>4. call[c].at # q /\ k.at # q
        BY Zenon, <3>2, <4>1
      <4> QED
        BY <4>2, <4>3, <4>4 DEF unsent
    <3> QED
      BY Zenon, <3>1, <3>2
  <2>2. \A d \in Callers : transport = d => d = c
    BY Zenon, <1>1
  <2> QED
    BY ZenonT(40), <1>7, <2>1, <2>2 DEF TodoInv, stream
<1> QED
  BY Zenon, <1>9, <1>10, <1>11, <1>12, <1>13 DEF OnceInv

\* A write, or its failure.
LEMMA SendOnce ==
    ASSUME NetworkInv, OnceInv, NEW c \in Callers, Send(c)
    PROVE  OnceInv'
<1>1. TypeOK /\ sending(c) /\ HasMessage(c) /\ transport = c
  BY Zenon DEF NetworkInv, Send, WriteLength, WriteData, WriteFails, sending, holds, HasMessage
<1>2. call[c] \in Sending /\ call[c].todo \subseteq connected
  BY <1>1, CallKinds DEF sending, holds, NetworkInv, HolderInv
<1>3. ASSUME NEW p \in call[c].todo
      PROVE  /\ stream(p) \in Stream /\ stream(p).wire \in Seq(Unit) /\ noRepeat(stream(p).wire)
             /\ unsent(stream(p).wire, call[c], p)
  <2>1. connections[p] \in 1..Len(streams)
    BY <1>1, <1>2 DEF TypeOK, connected
  <2>2. stream(p) \in Stream /\ stream(p).wire \in Seq(Unit)
    BY Zenon, <2>1, UnitTypes DEF stream
  <2> QED
    BY Zenon, <1>1, <2>1, <2>2 DEF OnceInv, UnitInv, TodoInv, stream
<1>4. ASSUME NEW p \in PeerId, WriteLength(c, p) PROVE OnceInv'
  <2> DEFINE w == stream(p).wire
             u == [part |-> "length", msg |-> call[c].msg]
             st == [stream(p) EXCEPT !.wire = Append(w, u)]
             k == [call[c] EXCEPT !.at = p]
  <2>1. /\ p \in call[c].todo /\ call[c].at = Nobody
        /\ call' = [call EXCEPT ![c] = k]
        /\ streams' = [streams EXCEPT ![connections[p]] = st]
        /\ UNCHANGED <<connections, transport, calls>>
    BY <1>4 DEF WriteLength, Write, stream
  <2>2. k \in Sending /\ k.op = call[c].op /\ k.msg = call[c].msg /\ k.todo = call[c].todo /\ k.at = p
    BY <1>2 DEF Sending
  <2>3. u \in Unit /\ u.msg = k.msg /\ u # [part |-> "data", msg |-> k.msg]
    BY <1>2, <2>2 DEF Sending, Unit
  <2>4. lacks(w, k.msg)
    <3>1. call[c].at # p
      BY <2>1, NetworkAssumption
    <3> QED
      BY <1>3, <2>1, <2>2, <3>1 DEF unsent
  <2>5. \A i \in DOMAIN w : w[i] # u /\ w[i] # [part |-> "data", msg |-> k.msg]
    BY <2>3, <2>4 DEF lacks
  <2>6. w \in Seq(Unit) /\ noRepeat(w) /\ stream(p) \in Stream
    BY Zenon, <1>3, <2>1
  <2>7. st \in Stream /\ st.wire = Append(w, u)
    BY <2>3, <2>6 DEF Stream
  <2> HIDE DEF w, u, st, k
  <2>8. /\ noRepeat(st.wire)
        /\ \A i \in DOMAIN st.wire : st.wire[i] = u \/ (i \in DOMAIN w /\ st.wire[i] = w[i])
    <3>1. \A i \in DOMAIN w : w[i] # u
      BY Zenon, <2>5
    <3> QED
      BY ZenonT(40), <2>3, <2>6, <2>7, <3>1, AppendOnce
  <2>9. \A i \in DOMAIN st.wire : st.wire[i] # [part |-> "data", msg |-> k.msg]
    BY Zenon, <2>3, <2>5, <2>8
  <2>10. unsent(st.wire, k, p)
    BY Zenon, <2>2, <2>9 DEF unsent
  <2>11. \A i \in DOMAIN st.wire :
            \/ st.wire[i].msg = k.msg
            \/ i \in DOMAIN stream(p).wire /\ st.wire[i] = stream(p).wire[i]
    BY Zenon, <2>3, <2>8 DEF w
  <2> QED
    BY Zenon, <1>1, <2>1, <2>2, <2>7, <2>8, <2>10, <2>11, WriteOnce
<1>5. ASSUME WriteData(c) PROVE OnceInv'
  <2> DEFINE p == call[c].at
             w == stream(p).wire
             u == [part |-> "data", msg |-> call[c].msg]
             st == [stream(p) EXCEPT !.wire = Append(w, u)]
             k == [[call[c] EXCEPT !.at = Nobody] EXCEPT !.todo = @ \ {p}]
  <2>1. /\ p # Nobody
        /\ call' = [call EXCEPT ![c] = k]
        /\ streams' = [streams EXCEPT ![connections[p]] = st]
        /\ UNCHANGED <<connections, transport, calls>>
    BY Zenon, <1>5, <1>2, <1>1 DEF WriteData, Write, stream, TypeOK, Sending
  <2>2. p \in call[c].todo
    BY Zenon, <1>1, <2>1 DEF NetworkInv, WriterInv, Writing, HasMessage
  <2>3. k \in Sending /\ k.op = call[c].op /\ k.msg = call[c].msg /\ k.todo = call[c].todo \ {p} /\ k.at = Nobody
    BY Zenon, <1>2 DEF Sending
  <2>4. u \in Unit /\ u.msg = k.msg
    BY <1>2, <2>3 DEF Sending, Unit
  <2>5. \A i \in DOMAIN w : w[i] # u
    BY <1>3, <2>2 DEF unsent
  <2>6. w \in Seq(Unit) /\ noRepeat(w) /\ stream(p) \in Stream
    BY Zenon, <1>3, <2>2
  <2>7. st \in Stream /\ st.wire = Append(w, u)
    BY <2>4, <2>6 DEF Stream
  <2> HIDE DEF w, u, st, k
  <2>8. /\ noRepeat(st.wire)
        /\ \A i \in DOMAIN st.wire : st.wire[i] = u \/ (i \in DOMAIN w /\ st.wire[i] = w[i])
    BY ZenonT(40), <2>4, <2>5, <2>6, <2>7, AppendOnce
  <2>9. \A i \in DOMAIN st.wire :
            \/ st.wire[i].msg = k.msg
            \/ i \in DOMAIN stream(p).wire /\ st.wire[i] = stream(p).wire[i]
    BY Zenon, <2>4, <2>8 DEF w
  <2> HIDE DEF p
  <2>10. call[c].at = p /\ p \notin k.todo
    BY <2>3 DEF p
  <2> QED
    BY Zenon, <1>1, <2>1, <2>2, <2>3, <2>7, <2>8, <2>9, <2>10, WriteOnce
<1>6. ASSUME NEW p \in PeerId, WriteFails(c, p) PROVE OnceInv'
  <2> DEFINE st == [stream(p) EXCEPT !.broken = TRUE]
             k == [[call[c] EXCEPT !.at = Nobody] EXCEPT !.todo = call[c].todo \ {p}]
  <2>1. /\ p \in call[c].todo /\ call[c].at \in {Nobody, p}
        /\ call' = [call EXCEPT ![c] = k]
        /\ streams' = [streams EXCEPT ![connections[p]] = st]
        /\ UNCHANGED <<connections, transport, calls>>
    BY <1>6, <1>2, <1>1 DEF WriteFails, afterError, stream, TypeOK, Sending
  <2>2. k \in Sending /\ k.op = call[c].op /\ k.msg = call[c].msg /\ k.todo = call[c].todo \ {p} /\ k.at = Nobody
    BY Zenon, <1>2 DEF Sending
  <2>3. st \in Stream /\ st.wire = stream(p).wire /\ noRepeat(st.wire)
    BY Zenon, <1>3, <2>1 DEF Stream
  <2> HIDE DEF st, k
  <2>4. p \notin k.todo
    BY <2>2
  <2> QED
    BY Zenon, <1>1, <2>1, <2>2, <2>3, <2>4, WriteOnce
<1> QED
  BY Zenon, <1>4, <1>5, <1>6 DEF Send

\* The invariant holds of every behaviour.
LEMMA OnceInvariance == Spec => []OnceInv
<1>1. Init => OnceInv
  <2> SUFFICES ASSUME Init PROVE OnceInv
    OBVIOUS
  <2>1. Len(streams) = 0 /\ connected = {} /\ \A c \in Callers : ~HasMessage(c)
    BY DEF Init, TransportInit, connected, HasMessage, Idle
  <2>2. 1..Len(streams) = {}
    BY <2>1
  <2> QED
    BY Zenon, <2>1, <2>2 DEF OnceInv, StreamInv, UnitInv, MessageInv, WaitInv, TodoInv
<1>2. ASSUME NetworkInv, OnceInv, [Next]_vars PROVE OnceInv'
  <2>1. ASSUME NEW c \in Callers, Calls(c) PROVE OnceInv'
    <3>1. PICK newCall : /\ Begin(c, newCall)
                         /\ newCall.op \in {"broadcast", "send_to"} => newCall.msg = calls + 1
      <4>1. CASE start(c)
        <5>1. PICK chosen : Begin(c, [op |-> "dial", todo |-> {peers'[p].addr : p \in chosen}])
          BY Zenon, <4>1 DEF start
        <5> QED
          BY <5>1
      <4>2. CASE \E addr \in Addr : dial_peer(c, addr)
        BY <4>2 DEF dial_peer
      <4>3. CASE broadcast(c)
        BY <4>3 DEF broadcast
      <4>4. CASE \E p \in PeerId : send_to(c, p)
        BY <4>4 DEF send_to
      <4>5. CASE \E p \in PeerId : disconnect(c, p)
        BY <4>5 DEF disconnect
      <4> QED
        BY Zenon, <2>1, <4>1, <4>2, <4>3, <4>4, <4>5 DEF Calls
    <3> QED
      BY Zenon, <1>2, <3>1, BeginOnce
  <2>2. ASSUME UNCHANGED vars PROVE OnceInv'
    <3>1. UNCHANGED <<connections, transport, call, calls, streams>>
      BY Zenon, <2>2 DEF vars, transportVars
    <3> QED
      BY Zenon, <1>2, <3>1, SameWires
  <2> QED
    BY Zenon, <1>2, <2>1, <2>2, AcquireOnce, DialOnce, SendOnce, DisconnectOnce, ReturnOnce, CancelOnce,
       RemoteOnce DEF Next, Dial
<1> QED
  BY <1>1, <1>2, Invariance, PTL DEF Spec

\* On no stream does a message, or a part of one, come twice: the holder of the
\* lock ticks off every peer it has written to, each of which has a stream of
\* its own, and the messages of two calls are two.
THEOREM SentOnceHolds == Spec => []SentOnce
<1>1. NetworkInv /\ OnceInv => SentOnce
  <2> SUFFICES ASSUME NetworkInv, OnceInv PROVE SentOnce
    OBVIOUS
  <2>1. DOMAIN streams = 1..Len(streams)
    BY DEF NetworkInv, TypeOK
  <2> QED
    BY Zenon, <2>1 DEF SentOnce, OnceInv, UnitInv, noRepeat
<1> QED
  BY <1>1, Invariance, OnceInvariance, PTL

=============================================================================
