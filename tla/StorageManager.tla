--------------------------- MODULE StorageManager ---------------------------
(***************************************************************************)
(* The storage manager of the node (node/storage): three maps, each behind *)
(* a lock of its own, shared by asynchronous tasks.                        *)
(*                                                                         *)
(* A task may be suspended at every .await, that is before each lock it    *)
(* takes; between two awaits it runs alone.  store_block takes three locks *)
(* and is three actions, get_by_height takes two and is two actions.  The  *)
(* runtime drops the future of a task that is told to shut down, so a call *)
(* may also end at any of its awaits (Cancel).                             *)
(*                                                                         *)
(* A block stands for its hash: hashing is taken to be injective.          *)
(***************************************************************************)
EXTENDS Naturals, Functions

CONSTANTS
    Tasks,          \* the tasks that share the manager
    Cancellable,    \* those whose future may be dropped
    Block,          \* the blocks, known by their hashes
    heightOf,       \* block -> its height
    NoBlock         \* None

VARIABLES
    head, height_index, block_cache,
    call,       \* task -> the call it is suspended in
    completed,  \* the blocks whose store_block has returned
    dropped,    \* the blocks whose store_block was dropped before the cache
    answer      \* task -> what its last get_by_height returned

vars == <<head, height_index, block_cache, call, completed, dropped, answer>>

ASSUME StorageAssumption ==
    /\ NoBlock \notin Block
    /\ heightOf \in [Block -> Nat]
    /\ Cancellable \subseteq Tasks

Height == Range(heightOf)

\* A task is idle, in store_block(block) before its second or third lock, or in
\* get_by_height between its two locks.
Idle == [op |-> "idle"]
Storing == [op : {"cache", "head"}, block : Block]
Reading == [op : {"lookup"}, hash : Block, expected : SUBSET Block]
Answer == [value : Block \cup {NoBlock}, expected : SUBSET Block, missing : SUBSET Block]
NoAnswer == [value |-> NoBlock, expected |-> {}, missing |-> {}]

TypeOK ==
    /\ head \in Block \cup {NoBlock}
    /\ height_index \in [Height -> Block \cup {NoBlock}]
    /\ block_cache \in SUBSET Block
    /\ call \in [Tasks -> {Idle} \cup Storing \cup Reading]
    /\ completed \in SUBSET Block
    /\ dropped \in SUBSET Block
    /\ answer \in [Tasks -> Answer]

\* StorageManager::new
Init ==
    /\ head = NoBlock
    /\ height_index = [h \in Height |-> NoBlock]
    /\ block_cache = {}
    /\ call = [t \in Tasks |-> Idle]
    /\ completed = {}
    /\ dropped = {}
    /\ answer = [t \in Tasks |-> NoAnswer]

-----------------------------------------------------------------------------
(* store_block *)

StoreIndex(t, b) ==
    /\ call[t] = Idle
    /\ height_index' = [height_index EXCEPT ![heightOf[b]] = b]
    /\ call' = [call EXCEPT ![t] = [op |-> "cache", block |-> b]]
    /\ UNCHANGED <<head, block_cache, completed, dropped, answer>>

\* Mutant: the cache holds one block, and a new one evicts it.
StoreCache_Evicting(t) ==
    /\ call[t].op = "cache"
    /\ block_cache' = {call[t].block}
    /\ call' = [call EXCEPT ![t] = [op |-> "head", block |-> call[t].block]]
    /\ UNCHANGED <<head, height_index, completed, dropped, answer>>

StoreCache(t) ==
    /\ call[t].op = "cache"
    /\ block_cache' = block_cache \cup {call[t].block}
    /\ call' = [call EXCEPT ![t] = [op |-> "head", block |-> call[t].block]]
    /\ UNCHANGED <<head, height_index, completed, dropped, answer>>

\* Mutant: the last store_block to get there sets the head.
isLatest_LastWriter(b) == TRUE

isLatest(b) == head # NoBlock => heightOf[b] > heightOf[head]

StoreHead(t) ==
    /\ call[t].op = "head"
    /\ head' = IF isLatest(call[t].block) THEN call[t].block ELSE head
    /\ call' = [call EXCEPT ![t] = Idle]
    /\ completed' = completed \cup {call[t].block}
    /\ UNCHANGED <<height_index, block_cache, dropped, answer>>

-----------------------------------------------------------------------------
(* Queries *)

get_by_hash(hash) == IF hash \in block_cache THEN hash ELSE NoBlock

height == IF head = NoBlock THEN 0 ELSE heightOf[head]

\* The blocks that are not cached yet although the index has named them: their
\* store_block is before its second lock, or was dropped there.
unfinished ==
    {b \in Block \ block_cache :
        b \in dropped \/ \E t \in Tasks : call[t] = [op |-> "cache", block |-> b]}

\* get_by_height up to the lock of the cache; expected are the blocks of that
\* height whose store_block had returned when the call began.
ReadIndex(t, h) ==
    LET expected == {b \in completed : heightOf[b] = h}
    IN  /\ call[t] = Idle
        /\ \/ /\ height_index[h] = NoBlock
              /\ answer' = [answer EXCEPT ![t] =
                    [value |-> NoBlock, expected |-> expected, missing |-> {}]]
              /\ UNCHANGED call
           \/ /\ height_index[h] # NoBlock
              /\ call' = [call EXCEPT ![t] =
                    [op |-> "lookup", hash |-> height_index[h], expected |-> expected]]
              /\ UNCHANGED answer
        /\ UNCHANGED <<head, height_index, block_cache, completed, dropped>>

\* missing is the block that was looked up, if its store_block was unfinished.
ReadCache(t) ==
    /\ call[t].op = "lookup"
    /\ answer' = [answer EXCEPT ![t] =
          [value |-> get_by_hash(call[t].hash), expected |-> call[t].expected,
           missing |-> {call[t].hash} \cap unfinished]]
    /\ call' = [call EXCEPT ![t] = Idle]
    /\ UNCHANGED <<head, height_index, block_cache, completed, dropped>>

-----------------------------------------------------------------------------

\* The task's future is dropped at the await it is suspended in.
Cancel(t) ==
    /\ t \in Cancellable
    /\ call[t] # Idle
    /\ call' = [call EXCEPT ![t] = Idle]
    /\ dropped' = IF call[t].op = "cache" THEN dropped \cup {call[t].block} ELSE dropped
    /\ UNCHANGED <<head, height_index, block_cache, completed, answer>>

Next ==
    \E t \in Tasks :
        \/ \E b \in Block : StoreIndex(t, b)
        \/ StoreCache(t)
        \/ StoreHead(t)
        \/ \E h \in Height : ReadIndex(t, h)
        \/ ReadCache(t)
        \/ Cancel(t)

Spec == Init /\ [][Next]_vars

-----------------------------------------------------------------------------
(* Properties *)

Abstract == INSTANCE BlockStore WITH blocks <- block_cache

\* The maps behave as a block store for readers by hash and of the head,
\* however the three parts of concurrent store_block calls interleave and
\* wherever a call is dropped.
IsBlockStore == Abstract!Spec

\* The head is at least as high as every block whose store_block has returned:
\* no update of the head is lost between the test and the assignment.
HeadIsHighest ==
    \A b \in completed : head # NoBlock /\ heightOf[b] =< height

\* get_by_height finds a block at every height where a store_block had returned
\* before the call, unless the index named another block of that height whose
\* own store_block was between its inserts, or had been dropped there.
ReadSeesStored ==
    \A t \in Tasks : LET a == answer[t] IN
        a.expected # {} =>
            \/ a.value # NoBlock /\ \A b \in a.expected : heightOf[a.value] = heightOf[b]
            \/ a.value = NoBlock /\ \E m \in a.missing \ a.expected :
                                       \A b \in a.expected : heightOf[m] = heightOf[b]

=============================================================================
