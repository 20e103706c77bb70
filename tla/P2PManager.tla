----------------------------- MODULE P2PManager -----------------------------
(***************************************************************************)
(* The P2P manager and its transport (node/p2p lib.rs, transport.rs),      *)
(* shared by concurrent callers, with the peer discovery that start        *)
(* consults.                                                               *)
(*                                                                         *)
(* Every operation of the transport runs under one write lock, which is    *)
(* held across its awaits: connecting, and the two writes of a message, of *)
(* the length and of the data.  Between two awaits a caller runs alone.    *)
(*                                                                         *)
(* A message is the number of the call that sends it.  A stream records    *)
(* the units that reach its other end.  On a lost connection no more do; a *)
(* write that is then lost in a buffer counts as one that fails, since the *)
(* call goes on in the same way.                                           *)
(* The events and message_tx have no receivers in src/, and peer_list      *)
(* returns a map that nothing fills; they are left out.                    *)
(***************************************************************************)
EXTENDS Naturals, Sequences

CONSTANTS
    Callers,        \* the tasks that share the manager
    Identities,     \* the handshakes to consider, each address -> peer id
    max_peers,      \* of the configuration
    MaxCalls,       \* bounds the calls
    PeerId, ZeroId, Addr, BadAddr, bootstrap_peers, PeerTimeout, target_outgoing,
    Unknown, Nobody

ASSUME NetworkAssumption ==
    /\ Nobody \notin Callers \cup PeerId
    /\ Identities \subseteq [Addr -> PeerId]
    /\ MaxCalls \in Nat

VARIABLES
    peers, banned, age, told, renewed,  \* the discovery manager
    identity,       \* address -> the id that perform_handshake returns
    connections,    \* peer -> its stream, or 0
    streams,        \* every stream opened so far
    torn,           \* <<stream, message>>: sends dropped between their writes
    transport,      \* who holds the lock of the transport
    call,           \* caller -> its call
    calls           \* the number of calls made so far

discoveryVars == <<peers, banned, age, told, renewed>>
transportVars == <<connections, streams, torn>>
vars == <<discoveryVars, identity, transportVars, transport, call, calls>>

Discovery == INSTANCE DiscoveryManager

Idle == [op |-> "idle"]
P2PMessage == 1..MaxCalls
Unit == [part : {"length", "data"}, msg : P2PMessage]
Stream == [wire : Seq(Unit), broken : BOOLEAN]

\* todo are the addresses still to dial or the peers still to send to; at is
\* the peer whose length has been written.
Call ==
    [op : {"dial"}, todo : SUBSET Addr]
        \cup [op : {"broadcast"}, todo : SUBSET PeerId, msg : P2PMessage, at : PeerId \cup {Nobody}]
        \cup [op : {"send_to"}, todo : SUBSET PeerId, msg : P2PMessage, at : PeerId \cup {Nobody}]
        \cup [op : {"disconnect"}, todo : SUBSET PeerId]

TypeOK ==
    /\ identity \in Identities
    /\ connections \in [PeerId -> 0..Len(streams)]
    /\ streams \in Seq(Stream)
    /\ torn \in SUBSET ((1..Len(streams)) \X P2PMessage)
    /\ transport \in Callers \cup {Nobody}
    /\ call \in [Callers -> {Idle} \cup Call]
    /\ calls \in 0..MaxCalls

connected == {p \in PeerId : connections[p] # 0}

\* TransportManager::new
TransportInit ==
    /\ connections = [p \in PeerId |-> 0]
    /\ streams = <<>>
    /\ torn = {}

\* P2PManager::new
Init ==
    /\ Discovery!Init
    /\ TransportInit
    /\ identity \in Identities
    /\ transport = Nobody
    /\ call = [c \in Callers |-> Idle]
    /\ calls = 0

-----------------------------------------------------------------------------
(* Calls, up to the lock of the transport *)

Begin(c, newCall) ==
    /\ call[c] = Idle
    /\ calls < MaxCalls
    /\ call' = [call EXCEPT ![c] = newCall]
    /\ calls' = calls + 1
    /\ UNCHANGED <<identity, transportVars, transport>>

start(c) ==
    /\ Discovery!bootstrap
    /\ \E chosen \in Discovery!peers_to_connect(max_peers)' :
          Begin(c, [op |-> "dial", todo |-> {peers'[p].addr : p \in chosen}])

dial_peer(c, addr) ==
    /\ Begin(c, [op |-> "dial", todo |-> {addr}])
    /\ UNCHANGED discoveryVars

broadcast(c) ==
    /\ Begin(c, [op |-> "broadcast", todo |-> {}, msg |-> calls + 1, at |-> Nobody])
    /\ UNCHANGED discoveryVars

send_to(c, p) ==
    /\ Begin(c, [op |-> "send_to", todo |-> {p}, msg |-> calls + 1, at |-> Nobody])
    /\ UNCHANGED discoveryVars

\* The transport's own operation, for whoever shares the transport.
disconnect(c, p) ==
    /\ Begin(c, [op |-> "disconnect", todo |-> {p}])
    /\ UNCHANGED discoveryVars

\* Mutant: the lock is shared.
lockFree_Shared == TRUE

lockFree == transport = Nobody

\* The caller gets the lock; a broadcast lists the connections, send looks its
\* peer up.
Acquire(c) ==
    /\ call[c] # Idle
    /\ transport # c
    /\ lockFree
    /\ transport' = c
    /\ call' = CASE call[c].op = "broadcast" -> [call EXCEPT ![c].todo = connected]
                 [] call[c].op = "send_to" -> [call EXCEPT ![c].todo = @ \cap connected]
                 [] OTHER -> call
    /\ UNCHANGED <<discoveryVars, identity, transportVars, calls>>

-----------------------------------------------------------------------------
(* Steps under the lock *)

holds(c, op) == transport = c /\ call[c] # Idle /\ call[c].op = op

\* The shipped one returns the zero id for every address.
perform_handshake(addr) == identity[addr]

\* dial: the connection is made, and replaces the stream the peer had.
DialSucceeds(c, addr) ==
    /\ holds(c, "dial")
    /\ addr \in call[c].todo
    /\ streams' = Append(streams, [wire |-> <<>>, broken |-> FALSE])
    /\ connections' = [connections EXCEPT ![perform_handshake(addr)] = Len(streams')]
    /\ call' = [call EXCEPT ![c].todo = @ \ {addr}]
    /\ UNCHANGED <<discoveryVars, identity, torn, transport, calls>>

\* It is refused, or dial_timeout passes.
DialFails(c, addr) ==
    /\ holds(c, "dial")
    /\ addr \in call[c].todo
    /\ call' = [call EXCEPT ![c].todo = @ \ {addr}]
    /\ UNCHANGED <<discoveryVars, identity, transportVars, transport, calls>>

sending(c) == holds(c, "broadcast") \/ holds(c, "send_to")
stream(p) == streams[connections[p]]

Write(p, part, msg) ==
    streams' = [streams EXCEPT ![connections[p]].wire = Append(@, [part |-> part, msg |-> msg])]

\* Sizes are left out: a length stands for the message that it announces.
WriteLength(c, p) ==
    /\ sending(c)
    /\ call[c].at = Nobody
    /\ p \in call[c].todo
    /\ ~stream(p).broken
    /\ Write(p, "length", call[c].msg)
    /\ call' = [call EXCEPT ![c].at = p]
    /\ UNCHANGED <<discoveryVars, identity, connections, torn, transport, calls>>

\* Mutant: a peer that has been sent to is not ticked off.
WriteData_Again(c) ==
    /\ sending(c)
    /\ call[c].at # Nobody
    /\ ~stream(call[c].at).broken
    /\ Write(call[c].at, "data", call[c].msg)
    /\ call' = [call EXCEPT ![c].at = Nobody]
    /\ UNCHANGED <<discoveryVars, identity, connections, torn, transport, calls>>

WriteData(c) ==
    /\ sending(c)
    /\ call[c].at # Nobody
    /\ ~stream(call[c].at).broken
    /\ Write(call[c].at, "data", call[c].msg)
    /\ call' = [call EXCEPT ![c].at = Nobody, ![c].todo = @ \ {call[c].at}]
    /\ UNCHANGED <<discoveryVars, identity, connections, torn, transport, calls>>

\* Mutant: a write error ends the whole call.
afterError_Abort(c, p) == {}

\* What a call has left to do when the write to p fails.
afterError(c, p) == call[c].todo \ {p}

\* The connection is lost; send returns the error, and keeps the connection.
WriteFails(c, p) ==
    /\ sending(c)
    /\ p \in call[c].todo
    /\ call[c].at \in {Nobody, p}
    /\ streams' = [streams EXCEPT ![connections[p]].broken = TRUE]
    /\ call' = [call EXCEPT ![c].at = Nobody, ![c].todo = afterError(c, p)]
    /\ UNCHANGED <<discoveryVars, identity, connections, torn, transport, calls>>

\* Mutant: a call for a peer without a connection waits for one.
Disconnect_Waits(c, p) ==
    /\ holds(c, "disconnect")
    /\ p \in call[c].todo \cap connected
    /\ connections' = [connections EXCEPT ![p] = 0]
    /\ call' = [call EXCEPT ![c].todo = {}]
    /\ UNCHANGED <<discoveryVars, identity, streams, torn, transport, calls>>

Disconnect(c, p) ==
    /\ holds(c, "disconnect")
    /\ p \in call[c].todo
    /\ connections' = [connections EXCEPT ![p] = 0]
    /\ call' = [call EXCEPT ![c].todo = {}]
    /\ UNCHANGED <<discoveryVars, identity, streams, torn, transport, calls>>

\* The other end runs listen: its task shakes hands, announces the peer and is
\* over, and the stream is dropped.
RemoteCloses(s) ==
    /\ ~streams[s].broken
    /\ streams' = [streams EXCEPT ![s].broken = TRUE]
    /\ UNCHANGED <<discoveryVars, identity, connections, torn, transport, call, calls>>

finished(c) == transport = c /\ call[c] # Idle /\ call[c].todo = {}

\* The call returns and gives the lock back.
Return(c) ==
    /\ finished(c)
    /\ transport' = Nobody
    /\ call' = [call EXCEPT ![c] = Idle]
    /\ UNCHANGED <<discoveryVars, identity, transportVars, calls>>

\* The future of the call is dropped, as spawn of the runtime does with its task's
\* at the signal: the lock is free again, and a length may be left without data.
\* Of a write cut short, a length counts as written and data as not begun.
Cancel(c) ==
    /\ call[c] # Idle
    /\ transport' = IF transport = c THEN Nobody ELSE transport
    /\ torn' = IF sending(c) /\ call[c].at # Nobody
               THEN torn \cup {<<connections[call[c].at], call[c].msg>>} ELSE torn
    /\ call' = [call EXCEPT ![c] = Idle]
    /\ UNCHANGED <<discoveryVars, identity, connections, streams, calls>>

-----------------------------------------------------------------------------

Calls(c) ==
    \/ start(c)
    \/ \E addr \in Addr : dial_peer(c, addr)
    \/ broadcast(c)
    \/ \E p \in PeerId : send_to(c, p) \/ disconnect(c, p)

Dial(c) == \E addr \in Addr : DialSucceeds(c, addr) \/ DialFails(c, addr)

Send(c) == WriteData(c) \/ \E p \in PeerId : WriteLength(c, p) \/ WriteFails(c, p)

Next ==
    \/ \E c \in Callers :
          \/ Calls(c)
          \/ Acquire(c)
          \/ Dial(c)
          \/ Send(c)
          \/ \E p \in PeerId : Disconnect(c, p)
          \/ Return(c)
          \/ Cancel(c)
    \/ \E s \in DOMAIN streams : RemoteCloses(s)

Spec == Init /\ [][Next]_vars

\* Ready callers are polled and the lock is given out in turn; a dial ends by
\* its timeout.  Nothing bounds a write.
FairSpec ==
    /\ Spec
    /\ \A c \in Callers :
          /\ SF_vars(Acquire(c))
          /\ WF_vars(Dial(c))
          /\ WF_vars(\E p \in PeerId : Disconnect(c, p))
          /\ WF_vars(Return(c))

-----------------------------------------------------------------------------
(* Properties *)

inProgress(s, msg) ==
    \E c \in Callers : /\ sending(c)
                       /\ call[c].at # Nobody
                       /\ connections[call[c].at] = s
                       /\ call[c].msg = msg

\* A stream carries whole messages: every length is followed by the data of the
\* same message, unless that is being written, or the stream broke or the send was
\* dropped in between.  (On a dropped one the stream stays in use, and the next
\* message follows the length without data.)
FramesWhole ==
    \A s \in DOMAIN streams : LET wire == streams[s].wire IN
        \A k \in DOMAIN wire :
            /\ wire[k].part = "data" => k > 1 /\ wire[k - 1] = [part |-> "length", msg |-> wire[k].msg]
            /\ wire[k].part = "length" =>
                  \/ <<s, wire[k].msg>> \in torn
                  \/ IF k < Len(wire) THEN wire[k + 1].part = "data"
                     ELSE streams[s].broken \/ inProgress(s, wire[k].msg)

got(s, msg) == \E k \in DOMAIN streams[s].wire : streams[s].wire[k] = [part |-> "data", msg |-> msg]

\* When a broadcast is over, every connection has got the message or is lost:
\* one failed write does not keep it from the others.
BroadcastReaches ==
    \A c \in Callers : holds(c, "broadcast") /\ finished(c) =>
        \A p \in connected : got(connections[p], call[c].msg) \/ stream(p).broken

\* No message, nor a part of one, comes twice on a stream, whoever else sends,
\* dials or disconnects and whichever of the writes to others fail.
SentOnce ==
    \A s \in DOMAIN streams : LET wire == streams[s].wire IN
        \A j, k \in DOMAIN wire : wire[j] = wire[k] => j = k

\* If no write stays blocked for ever, every call returns.
CallsReturn ==
    (\A c \in Callers : []<>~sending(c)) => \A c \in Callers : call[c] # Idle ~> call[c] = Idle

=============================================================================
