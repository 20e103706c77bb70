----------------------------- MODULE NodeProofs -----------------------------
(***************************************************************************)
(* Proofs about StorageManager and Node, for any tasks, calls of shutdown  *)
(* and blocks.  The storage manager is a block store, its head is never    *)
(* behind, and a reader by height misses a stored block only because of an *)
(* unfinished store at that height.  All of that holds when the runtime    *)
(* drives and drops its callers, and shutdown leaves nothing half done.    *)
(***************************************************************************)
EXTENDS Node, TLAPS

-----------------------------------------------------------------------------
(* The storage manager *)

\* A store_block that has passed its second lock has cached its block; so has
\* one that has returned; the head is a cached block.
CacheInv ==
    /\ \A t \in Tasks : call[t].op = "head" => call[t].block \in block_cache
    /\ completed \subseteq block_cache
    /\ head \in block_cache \cup {NoBlock}

\* The index holds a block at the height of every block whose store_block has
\* passed its first lock, and only blocks of the right height.
IndexInv ==
    /\ \A t \in Tasks : call[t].op \in {"cache", "head"} =>
          height_index[heightOf[call[t].block]] # NoBlock
    /\ \A b \in completed : height_index[heightOf[b]] # NoBlock
    /\ \A h \in Height : height_index[h] # NoBlock => heightOf[height_index[h]] = h

\* A get_by_height between its two locks holds a hash of the height it was
\* asked for, at which the blocks it should see were stored.
LookupInv ==
    \A t \in Tasks : call[t].op = "lookup" =>
        /\ call[t].expected \subseteq completed
        /\ \A b \in call[t].expected : heightOf[b] = heightOf[call[t].hash]

\* A block that the index names, or that a get_by_height has found in it, is
\* cached, or its store_block is unfinished.
NamedInv ==
    /\ \A h \in Height : height_index[h] \in block_cache \cup unfinished \cup {NoBlock}
    /\ \A t \in Tasks : call[t].op = "lookup" => call[t].hash \in block_cache \cup unfinished

IInv == TypeOK /\ CacheInv /\ HeadIsHighest

-----------------------------------------------------------------------------

LEMMA HeightTypes ==
    /\ \A b \in Block : heightOf[b] \in Height /\ heightOf[b] \in Nat
    /\ Height \subseteq Nat
BY StorageAssumption DEF Height, Range

LEMMA CallKinds ==
    ASSUME TypeOK, NEW t \in Tasks
    PROVE  /\ call[t].op \in {"cache", "head"} => call[t] \in Storing /\ call[t].block \in Block
           /\ call[t].op = "lookup" =>
                 call[t] \in Reading /\ call[t].hash \in Block /\ call[t].expected \in SUBSET Block
BY DEF TypeOK, Idle, Storing, Reading

LEMMA TypeStep == TypeOK /\ [Next]_vars => TypeOK'
<1> SUFFICES ASSUME TypeOK, [Next]_vars PROVE TypeOK'
  OBVIOUS
<1> USE DEF TypeOK
<1>1. ASSUME NEW t \in Tasks, NEW b \in Block, StoreIndex(t, b) PROVE TypeOK'
  BY <1>1, HeightTypes DEF StoreIndex, Storing
<1>2. ASSUME NEW t \in Tasks, StoreCache(t) PROVE TypeOK'
  BY <1>2, CallKinds DEF StoreCache, Storing
<1>3. ASSUME NEW t \in Tasks, StoreHead(t) PROVE TypeOK'
  BY <1>3, CallKinds DEF StoreHead
<1>4. ASSUME NEW t \in Tasks, NEW h \in Height, ReadIndex(t, h) PROVE TypeOK'
  BY <1>4 DEF ReadIndex, Reading, Answer
<1>5. ASSUME NEW t \in Tasks, ReadCache(t) PROVE TypeOK'
  <2>1. get_by_hash(call[t].hash) \in Block \cup {NoBlock} /\ call[t].expected \in SUBSET Block
        /\ {call[t].hash} \cap unfinished \in SUBSET Block
    BY <1>5, CallKinds DEF ReadCache, get_by_hash, unfinished
  <2> QED
    BY <1>5, <2>1 DEF ReadCache, Answer
<1>6. ASSUME NEW t \in Tasks, Cancel(t) PROVE TypeOK'
  BY <1>6, CallKinds DEF Cancel
<1>7. CASE UNCHANGED vars
  BY <1>7 DEF vars
<1> QED
  BY <1>1, <1>2, <1>3, <1>4, <1>5, <1>6, <1>7 DEF Next

LEMMA InitInv == Init => IInv /\ IndexInv /\ LookupInv /\ NamedInv
BY StorageAssumption
   DEF Init, IInv, TypeOK, CacheInv, HeadIsHighest, IndexInv, LookupInv, NamedInv, Idle, Answer, NoAnswer

LEMMA CacheStep == TypeOK /\ CacheInv /\ [Next]_vars => CacheInv'
<1> SUFFICES ASSUME TypeOK, CacheInv, [Next]_vars PROVE CacheInv'
  OBVIOUS
<1> USE DEF CacheInv, TypeOK, Idle
<1>1. ASSUME NEW t \in Tasks, NEW b \in Block, StoreIndex(t, b) PROVE CacheInv'
  BY <1>1 DEF StoreIndex
<1>2. ASSUME NEW t \in Tasks, StoreCache(t) PROVE CacheInv'
  BY <1>2 DEF StoreCache
<1>3. ASSUME NEW t \in Tasks, StoreHead(t) PROVE CacheInv'
  BY <1>3 DEF StoreHead
<1>4. ASSUME NEW t \in Tasks, NEW h \in Height, ReadIndex(t, h) PROVE CacheInv'
  BY <1>4 DEF ReadIndex
<1>5. ASSUME NEW t \in Tasks, ReadCache(t) PROVE CacheInv'
  BY <1>5 DEF ReadCache
<1>6. ASSUME NEW t \in Tasks, Cancel(t) PROVE CacheInv'
  BY <1>6 DEF Cancel
<1>7. CASE UNCHANGED vars
  BY <1>7 DEF vars
<1> QED
  BY <1>1, <1>2, <1>3, <1>4, <1>5, <1>6, <1>7 DEF Next

\* Only StoreHead touches the head or the completed blocks.
LEMMA HeadStep == TypeOK /\ HeadIsHighest /\ [Next]_vars => HeadIsHighest'
<1> SUFFICES ASSUME TypeOK, HeadIsHighest, [Next]_vars PROVE HeadIsHighest'
  OBVIOUS
<1>1. ASSUME NEW t \in Tasks, StoreHead(t) PROVE HeadIsHighest'
  <2>1. call[t].block \in Block /\ call[t].block # NoBlock
    BY <1>1, CallKinds, StorageAssumption DEF StoreHead
  <2>2. CASE isLatest(call[t].block)
    BY <1>1, <2>1, <2>2, HeightTypes
       DEF StoreHead, isLatest, HeadIsHighest, height, TypeOK
  <2>3. CASE ~isLatest(call[t].block)
    BY <1>1, <2>1, <2>3, HeightTypes
       DEF StoreHead, isLatest, HeadIsHighest, height, TypeOK
  <2> QED BY <2>2, <2>3
<1>2. CASE UNCHANGED <<head, completed>>
  BY <1>2 DEF HeadIsHighest, height
<1> QED
  BY <1>1, <1>2 DEF Next, vars, StoreIndex, StoreCache, ReadIndex, ReadCache, Cancel

\* The maps and the head agree in every state, whatever calls are dropped.
THEOREM Invariance == Spec => []IInv
<1>1. IInv /\ [Next]_vars => IInv'
  BY TypeStep, CacheStep, HeadStep DEF IInv
<1> QED BY <1>1, InitInv, PTL DEF Spec

\* The head is never behind a block whose store_block has returned.
THEOREM HeadIsHighestHolds == Spec => []HeadIsHighest
<1>1. IInv => HeadIsHighest
  BY DEF IInv
<1> QED BY <1>1, Invariance, PTL

\* The three maps implement a block store.
THEOREM Refinement == Spec => IsBlockStore
<1> USE DEF Abstract!Init, Abstract!Next, Abstract!Add, Abstract!Advance
<1>1. Init => Abstract!Init
  BY DEF Init
<1>2. IInv /\ [Next]_vars => [Abstract!Next]_<<block_cache, head>>
  <2> SUFFICES ASSUME IInv, [Next]_vars
               PROVE  Abstract!Next \/ UNCHANGED <<block_cache, head>>
    OBVIOUS
  <2>1. ASSUME NEW t \in Tasks, StoreCache(t) PROVE Abstract!Add(call[t].block)
    BY <2>1 DEF StoreCache
  <2>2. ASSUME NEW t \in Tasks, StoreHead(t), isLatest(call[t].block)
        PROVE  Abstract!Advance(call[t].block)
    BY <2>2 DEF StoreHead, isLatest, IInv, CacheInv
  <2>3. ASSUME NEW t \in Tasks, StoreCache(t) \/ StoreHead(t) PROVE call[t].block \in Block
    BY <2>3, CallKinds DEF IInv, StoreCache, StoreHead
  <2>4. ASSUME NEW t \in Tasks, StoreHead(t), ~isLatest(call[t].block)
        PROVE  UNCHANGED <<block_cache, head>>
    BY <2>4 DEF StoreHead
  <2> QED
    BY <2>1, <2>2, <2>3, <2>4 DEF Next, vars, StoreIndex, ReadIndex, ReadCache, Cancel
<1> QED BY <1>1, <1>2, Invariance, PTL DEF Spec, IsBlockStore, Abstract!Spec

-----------------------------------------------------------------------------
(* Reading by height *)

LEMMA IndexStep == TypeOK /\ IndexInv /\ [Next]_vars => IndexInv'
<1> SUFFICES ASSUME TypeOK, IndexInv, [Next]_vars PROVE IndexInv'
  OBVIOUS
<1> USE DEF IndexInv, TypeOK, Idle
<1>1. ASSUME NEW t \in Tasks, NEW b \in Block, StoreIndex(t, b) PROVE IndexInv'
  <2>1. /\ height_index' = [height_index EXCEPT ![heightOf[b]] = b]
        /\ call' = [call EXCEPT ![t] = [op |-> "cache", block |-> b]]
        /\ completed' = completed /\ b # NoBlock
    BY <1>1, StorageAssumption DEF StoreIndex
  <2>2. \A h \in Height : height_index'[h] = IF h = heightOf[b] THEN b ELSE height_index[h]
    BY <2>1
  <2>3. \A u \in Tasks : call'[u].op \in {"cache", "head"} =>
           /\ call'[u].block \in Block
           /\ u # t => call'[u] = call[u]
           /\ u = t => call'[u].block = b
    BY <2>1, CallKinds
  <2>4. \A u \in Tasks : call'[u].op \in {"cache", "head"} =>
           height_index'[heightOf[call'[u].block]] # NoBlock
    BY <2>1, <2>2, <2>3, HeightTypes
  <2>5. \A c \in completed' : height_index'[heightOf[c]] # NoBlock
    BY <2>1, <2>2, HeightTypes
  <2>6. \A h \in Height : height_index'[h] # NoBlock => heightOf[height_index'[h]] = h
    BY <2>2
  <2> QED BY <2>4, <2>5, <2>6
<1>2. ASSUME NEW t \in Tasks, StoreCache(t) PROVE IndexInv'
  BY <1>2 DEF StoreCache
<1>3. ASSUME NEW t \in Tasks, StoreHead(t) PROVE IndexInv'
  BY <1>3 DEF StoreHead
<1>4. ASSUME NEW t \in Tasks, NEW h \in Height, ReadIndex(t, h) PROVE IndexInv'
  BY <1>4 DEF ReadIndex
<1>5. ASSUME NEW t \in Tasks, ReadCache(t) PROVE IndexInv'
  BY <1>5 DEF ReadCache
<1>6. ASSUME NEW t \in Tasks, Cancel(t) PROVE IndexInv'
  BY <1>6 DEF Cancel
<1>7. CASE UNCHANGED vars
  BY <1>7 DEF vars
<1> QED
  BY <1>1, <1>2, <1>3, <1>4, <1>5, <1>6, <1>7 DEF Next

LEMMA LookupStep == TypeOK /\ IndexInv /\ LookupInv /\ [Next]_vars => LookupInv'
<1> SUFFICES ASSUME TypeOK, IndexInv, LookupInv, [Next]_vars PROVE LookupInv'
  OBVIOUS
<1> USE DEF LookupInv, TypeOK, Idle
<1>1. ASSUME NEW t \in Tasks, NEW b \in Block, StoreIndex(t, b) PROVE LookupInv'
  BY <1>1 DEF StoreIndex
<1>2. ASSUME NEW t \in Tasks, StoreCache(t) PROVE LookupInv'
  BY <1>2 DEF StoreCache
<1>3. ASSUME NEW t \in Tasks, StoreHead(t) PROVE LookupInv'
  BY <1>3 DEF StoreHead
<1>4. ASSUME NEW t \in Tasks, NEW h \in Height, ReadIndex(t, h) PROVE LookupInv'
  BY <1>4 DEF ReadIndex, IndexInv
<1>5. ASSUME NEW t \in Tasks, ReadCache(t) PROVE LookupInv'
  BY <1>5 DEF ReadCache
<1>6. ASSUME NEW t \in Tasks, Cancel(t) PROVE LookupInv'
  BY <1>6 DEF Cancel
<1>7. CASE UNCHANGED vars
  BY <1>7 DEF vars
<1> QED
  BY <1>1, <1>2, <1>3, <1>4, <1>5, <1>6, <1>7 DEF Next

\* No step takes a block out of the cache or forgets that its store_block is
\* unfinished: it is cached next, or dropped.
LEMMA NamedKept ==
    ASSUME TypeOK, [Next]_vars
    PROVE  block_cache \cup unfinished \subseteq (block_cache \cup unfinished)'
<1> USE DEF TypeOK, unfinished, Idle
<1>1. ASSUME NEW t \in Tasks, NEW b \in Block, StoreIndex(t, b)
      PROVE  block_cache \cup unfinished \subseteq (block_cache \cup unfinished)'
  <2>1. \A u \in Tasks, d \in Block :
           call[u] = [op |-> "cache", block |-> d] => u # t /\ call'[u] = call[u]
    BY <1>1 DEF StoreIndex
  <2> QED BY <1>1, <2>1 DEF StoreIndex
<1>2. ASSUME NEW t \in Tasks, StoreCache(t)
      PROVE  block_cache \cup unfinished \subseteq (block_cache \cup unfinished)'
  <2>1. \A u \in Tasks, d \in Block :
           call[u] = [op |-> "cache", block |-> d] => d \in block_cache' \/ call'[u] = call[u]
    BY <1>2 DEF StoreCache
  <2> QED BY <1>2, <2>1 DEF StoreCache
<1>3. ASSUME NEW t \in Tasks, StoreHead(t) \/ (\E h \in Height : ReadIndex(t, h)) \/ ReadCache(t)
      PROVE  block_cache \cup unfinished \subseteq (block_cache \cup unfinished)'
  <2>1. \A u \in Tasks, d \in Block :
           call[u] = [op |-> "cache", block |-> d] => call'[u] = call[u]
    <3>1. call[t].op # "cache"
      BY <1>3 DEF StoreHead, ReadIndex, ReadCache
    <3>2. \A u \in Tasks \ {t} : call'[u] = call[u]
      BY <1>3 DEF StoreHead, ReadIndex, ReadCache
    <3> QED BY <3>1, <3>2
  <2>2. UNCHANGED <<block_cache, dropped>>
    BY <1>3 DEF StoreHead, ReadIndex, ReadCache
  <2> QED BY <2>1, <2>2
<1>4. ASSUME NEW t \in Tasks, Cancel(t)
      PROVE  block_cache \cup unfinished \subseteq (block_cache \cup unfinished)'
  <2>1. \A u \in Tasks, d \in Block :
           call[u] = [op |-> "cache", block |-> d] => d \in dropped' \/ call'[u] = call[u]
    BY <1>4 DEF Cancel
  <2>2. block_cache' = block_cache /\ dropped \subseteq dropped'
    BY <1>4 DEF Cancel
  <2> QED BY <2>1, <2>2
<1>5. CASE UNCHANGED vars
  BY <1>5 DEF vars
<1> QED
  BY <1>1, <1>2, <1>3, <1>4, <1>5 DEF Next

LEMMA NamedStep == TypeOK /\ NamedInv /\ [Next]_vars => NamedInv'
<1> SUFFICES ASSUME TypeOK, NamedInv, [Next]_vars PROVE NamedInv'
  OBVIOUS
<1> DEFINE named == block_cache \cup unfinished
<1>0. named \subseteq named'
  BY NamedKept
<1> USE DEF TypeOK, NamedInv, Idle
<1>1. ASSUME NEW t \in Tasks, NEW b \in Block, StoreIndex(t, b) PROVE NamedInv'
  <2>1. b \in named'
    BY <1>1 DEF StoreIndex, unfinished
  <2> HIDE DEF named
  <2>2. \A h \in Height : height_index'[h] \in {b, height_index[h]}
    BY <1>1 DEF StoreIndex
  <2>3. \A u \in Tasks : call'[u].op = "lookup" => call'[u] = call[u]
    BY <1>1 DEF StoreIndex
  <2> QED BY <1>0, <2>1, <2>2, <2>3 DEF named
<1>2. ASSUME NEW t \in Tasks, NEW h \in Height, ReadIndex(t, h) PROVE NamedInv'
  <2>1. height_index' = height_index
    BY <1>2 DEF ReadIndex
  <2>2. \A u \in Tasks : call'[u].op = "lookup" =>
           call'[u] = call[u] \/ (call'[u].hash = height_index[h] /\ height_index[h] # NoBlock)
    BY <1>2 DEF ReadIndex
  <2> HIDE DEF named
  <2> QED BY <1>0, <2>1, <2>2 DEF named
<1>3. ASSUME NEW t \in Tasks, StoreCache(t) \/ StoreHead(t) \/ ReadCache(t) \/ Cancel(t)
      PROVE  NamedInv'
  <2>1. height_index' = height_index
    BY <1>3 DEF StoreCache, StoreHead, ReadCache, Cancel
  <2>2. \A u \in Tasks : call'[u].op = "lookup" => call'[u] = call[u]
    BY <1>3 DEF StoreCache, StoreHead, ReadCache, Cancel
  <2> HIDE DEF named
  <2> QED BY <1>0, <2>1, <2>2 DEF named
<1>4. CASE UNCHANGED vars
  <2>1. UNCHANGED <<height_index, call>>
    BY <1>4 DEF vars
  <2> HIDE DEF named
  <2> QED BY <1>0, <2>1 DEF named
<1> QED
  BY <1>1, <1>2, <1>3, <1>4 DEF Next

ReadInv == IInv /\ IndexInv /\ LookupInv /\ NamedInv /\ ReadSeesStored

LEMMA ReadStep == ReadInv /\ [Next]_vars => ReadSeesStored'
<1> SUFFICES ASSUME ReadInv, [Next]_vars PROVE ReadSeesStored'
  OBVIOUS
<1>0. TypeOK /\ CacheInv /\ IndexInv /\ LookupInv /\ NamedInv /\ ReadSeesStored
  BY DEF ReadInv, IInv
\* The index is empty at h: nothing of that height has been stored.
<1>1. ASSUME NEW t \in Tasks, NEW h \in Height, ReadIndex(t, h) PROVE ReadSeesStored'
  <2>1. height_index[h] = NoBlock => {b \in completed : heightOf[b] = h} = {}
    BY <1>0 DEF IndexInv
  <2>2. \/ answer' = [answer EXCEPT ![t] = [value |-> NoBlock, expected |-> {}, missing |-> {}]]
        \/ answer' = answer
    BY <1>1, <2>1 DEF ReadIndex
  <2> QED BY <1>0, <2>2 DEF ReadSeesStored, TypeOK
\* The hash that was read has the right height, and is cached or unfinished; the
\* blocks expected are cached.
<1>2. ASSUME NEW t \in Tasks, ReadCache(t) PROVE ReadSeesStored'
  <2> DEFINE want == call[t].expected
             hash == call[t].hash
             got == get_by_hash(hash)
             gap == {hash} \cap unfinished
  <2>1. hash \in Block /\ hash # NoBlock /\ want \subseteq block_cache
    BY <1>0, <1>2, CallKinds, StorageAssumption DEF ReadCache, LookupInv, CacheInv
  <2>2. \A b \in want : heightOf[hash] = heightOf[b]
    BY <1>0, <1>2 DEF ReadCache, LookupInv
  <2>3. hash \in block_cache \/ hash \in unfinished \ block_cache
    BY <1>0, <1>2 DEF ReadCache, NamedInv
  <2>4. \/ got = hash /\ got # NoBlock
        \/ got = NoBlock /\ hash \in gap \ want
    BY <2>1, <2>3 DEF get_by_hash
  <2>5. answer' = [answer EXCEPT ![t] = [value |-> got, expected |-> want, missing |-> gap]]
    BY <1>2 DEF ReadCache
  <2> HIDE DEF want, got, hash, gap
  <2> QED BY <1>0, <2>2, <2>4, <2>5 DEF ReadSeesStored, TypeOK
<1>3. CASE UNCHANGED answer
  BY <1>0, <1>3 DEF ReadSeesStored
<1> QED
  BY <1>1, <1>2, <1>3 DEF Next, vars, StoreIndex, StoreCache, StoreHead, Cancel

\* Whatever blocks share a height and whatever calls are dropped, get_by_height
\* misses a height where a store_block had returned before the call only if it was
\* led to another block of that height whose store_block was unfinished.
THEOREM ReadSeesStoredHolds == Spec => []ReadSeesStored
<1>1. Init => ReadInv
  <2>1. Init => ReadSeesStored
    BY DEF Init, ReadSeesStored, NoAnswer
  <2> QED BY <2>1, InitInv DEF ReadInv
<1>2. ReadInv /\ [Next]_vars => ReadInv'
  BY TypeStep, CacheStep, HeadStep, IndexStep, LookupStep, NamedStep, ReadStep DEF ReadInv, IInv
<1>3. ReadInv => ReadSeesStored
  BY DEF ReadInv
<1> QED BY <1>1, <1>2, <1>3, PTL DEF Spec

-----------------------------------------------------------------------------
(* The node *)

\* A task is in a storage call only while it runs.
CallInv == \A t \in Tasks : call[t] # Idle => task[t] = "running"

\* One shutdown at a time holds the lock of the handles.  While one does, the
\* list is empty; while none does, no handle is out of the list.
LockInv ==
    /\ \A c, d \in Callers : shutdown[c] = "joining" /\ shutdown[d] = "joining" => c = d
    /\ Runtime!handlesFree => drained = {}
    /\ ~Runtime!handlesFree => handles = {}

\* A task whose spawn has returned has its handle in the list, in the hands of
\* a shutdown, or is done.
HandleInv == Runtime!registered \subseteq handles \cup drained \cup Runtime!done

\* A shutdown owes only tasks whose spawn had returned, and has waited for them.
OwedInv ==
    \A c \in Callers :
        /\ owed[c] \subseteq Runtime!registered
        /\ shutdown[c] = "returned" => owed[c] \subseteq Runtime!done

NodeInv == NodeTypeOK /\ CallInv /\ LockInv /\ HandleInv /\ OwedInv

-----------------------------------------------------------------------------
(* Storage *)

\* A step of the node is a step of the storage manager, or leaves it alone.
LEMMA NodeStepIsStorageStep == [NodeNext]_nodeVars => [Next]_vars
<1> SUFFICES ASSUME [NodeNext]_nodeVars PROVE [Next]_vars
  OBVIOUS
<1>1. ASSUME NEW t \in Tasks, PollTask(t) PROVE Next
  BY <1>1, NodeAssumption DEF PollTask, StorageStep, Next
<1>2. ASSUME NEW t \in Tasks, DropTask(t) PROVE [Next]_vars
  BY <1>2 DEF DropTask, Next
<1> QED
  BY <1>1, <1>2 DEF NodeNext, nodeVars

\* Whatever the runtime does with the tasks, the storage manager behaves as its
\* own specification says: dropping a task is a Cancel.
THEOREM NodeUsesStorage == NodeSpec => Spec
<1>1. NodeInit => Init
  BY DEF NodeInit
<1> QED
  BY <1>1, NodeStepIsStorageStep, PTL DEF NodeSpec, Spec

\* In the node the maps are a block store, also when tasks are dropped at shutdown.
THEOREM NodeIsBlockStore == NodeSpec => IsBlockStore
  BY NodeUsesStorage, Refinement, PTL

\* In the node the head is never behind a block whose store_block has returned.
THEOREM NodeHeadIsHighest == NodeSpec => []HeadIsHighest
  BY NodeUsesStorage, HeadIsHighestHolds, PTL

\* In the node, too, a reader by height misses a stored block only because of an
\* unfinished store at that height, one that shutdown dropped included.
THEOREM NodeReadSeesStored == NodeSpec => []ReadSeesStored
  BY NodeUsesStorage, ReadSeesStoredHolds, PTL

-----------------------------------------------------------------------------
(* Shutdown *)

\* The initial state, with no task.
LEMMA NodeInitInv == NodeInit => NodeInv
<1> SUFFICES ASSUME NodeInit PROVE NodeInv
  OBVIOUS
<1>1. TypeOK
  BY InitInv DEF NodeInit, IInv
<1>2. Runtime!TypeOK
  BY DEF NodeInit, Runtime!Init, Runtime!TypeOK, Runtime!SyncStatus, Runtime!ChannelCapacity
<1>3. CallInv /\ LockInv /\ HandleInv /\ OwedInv
  BY DEF NodeInit, Init, Runtime!Init, CallInv, LockInv, HandleInv, OwedInv,
         Runtime!handlesFree, Runtime!registered, Runtime!done
<1> QED
  BY <1>1, <1>2, <1>3 DEF NodeInv, NodeTypeOK

\* What a step does to the tasks and to the locks, for those that only touch the status.
LEMMA StatusStep ==
    ASSUME NodeInv, UNCHANGED <<signals, task, spawning, handles, drained, shutdown, owed, vars>>
    PROVE  CallInv' /\ LockInv' /\ HandleInv' /\ OwedInv'
  BY DEF NodeInv, CallInv, LockInv, HandleInv, OwedInv, vars,
         Runtime!handlesFree, Runtime!registered, Runtime!done

\* The end of a task, by itself or by the signal, takes nothing from what
\* shutdown has to wait for.
LEMMA EndInv ==
    ASSUME NodeInv, NEW t \in Tasks, task[t] = "running",
           NEW end \in {"done", "stopped"}, task' = [task EXCEPT ![t] = end],
           UNCHANGED <<spawning, handles, drained, shutdown, owed>>
    PROVE  LockInv' /\ HandleInv' /\ OwedInv'
<1> USE DEF NodeInv, NodeTypeOK, Runtime!TypeOK
<1>1. Runtime!registered' = Runtime!registered /\ Runtime!done \subseteq Runtime!done'
  BY DEF Runtime!registered, Runtime!done
<1> QED
  BY <1>1 DEF LockInv, HandleInv, OwedInv, Runtime!handlesFree

\* spawn and its registration.
LEMMA SpawnInv ==
    ASSUME NodeInv, NEW t \in Tasks, Runtime!spawn(t) \/ Runtime!pushHandle(t), UNCHANGED vars
    PROVE  NodeInv'
<1> USE DEF NodeInv, NodeTypeOK, Runtime!TypeOK
<1>0. TypeOK' /\ Runtime!TypeOK'
  BY DEF TypeOK, vars, Runtime!spawn, Runtime!pushHandle
<1>1. CASE Runtime!spawn(t)
  <2>1. Runtime!registered' = Runtime!registered /\ Runtime!done' = Runtime!done
    BY <1>1 DEF Runtime!spawn, Runtime!registered, Runtime!done
  <2>2. CallInv'
    BY <1>1 DEF Runtime!spawn, CallInv, vars
  <2> QED
    BY <1>0, <1>1, <2>1, <2>2 DEF Runtime!spawn, LockInv, HandleInv, OwedInv, Runtime!handlesFree
<1>2. CASE Runtime!pushHandle(t)
  <2>1. /\ Runtime!registered \subseteq Runtime!registered'
        /\ Runtime!registered' \subseteq Runtime!registered \cup {t}
        /\ Runtime!done' = Runtime!done
    BY <1>2 DEF Runtime!pushHandle, Runtime!registered, Runtime!done
  <2>2. CallInv' /\ LockInv'
    BY <1>2 DEF Runtime!pushHandle, CallInv, LockInv, Runtime!handlesFree, vars
  <2>3. HandleInv' /\ OwedInv'
    BY <1>2, <2>1 DEF Runtime!pushHandle, HandleInv, OwedInv
  <2> QED
    BY <1>0, <2>2, <2>3
<1> QED
  BY <1>1, <1>2

\* The four parts of shutdown.
LEMMA ShutdownInv ==
    ASSUME NodeInv, NEW c \in Callers, UNCHANGED vars,
           \/ Runtime!callShutdown(c) \/ Runtime!sendSignal(c)
           \/ Runtime!drainHandles(c) \/ Runtime!joinTasks(c)
    PROVE  NodeInv'
<1> USE DEF NodeInv, NodeTypeOK, Runtime!TypeOK
<1>1. TypeOK' /\ CallInv'
  BY DEF TypeOK, CallInv, vars, Runtime!callShutdown, Runtime!sendSignal, Runtime!drainHandles, Runtime!joinTasks
<1>2. Runtime!registered' = Runtime!registered /\ Runtime!done' = Runtime!done
  BY DEF Runtime!registered, Runtime!done,
         Runtime!callShutdown, Runtime!sendSignal, Runtime!drainHandles, Runtime!joinTasks
<1>3. CASE Runtime!callShutdown(c)
  <2>1. Runtime!TypeOK'
    BY <1>3 DEF Runtime!callShutdown, Runtime!registered
  <2>2. LockInv' /\ HandleInv' /\ OwedInv'
    BY <1>2, <1>3 DEF Runtime!callShutdown, LockInv, HandleInv, OwedInv, Runtime!handlesFree
  <2> QED
    BY <1>1, <2>1, <2>2
<1>4. CASE Runtime!sendSignal(c)
  <2>1. Runtime!TypeOK'
    BY <1>4 DEF Runtime!sendSignal, Runtime!ChannelCapacity
  <2>2. LockInv' /\ HandleInv' /\ OwedInv'
    BY <1>2, <1>4 DEF Runtime!sendSignal, LockInv, HandleInv, OwedInv, Runtime!handlesFree
  <2> QED
    BY <1>1, <2>1, <2>2
<1>5. CASE Runtime!drainHandles(c)
  <2>1. Runtime!TypeOK'
    BY <1>5 DEF Runtime!drainHandles
  <2>2. LockInv'
    BY <1>5 DEF Runtime!drainHandles, LockInv, Runtime!handlesFree
  <2>3. HandleInv' /\ OwedInv'
    BY <1>2, <1>5 DEF Runtime!drainHandles, HandleInv, OwedInv, LockInv
  <2> QED
    BY <1>1, <2>1, <2>2, <2>3
<1>6. CASE Runtime!joinTasks(c)
  <2>1. Runtime!TypeOK'
    BY <1>6 DEF Runtime!joinTasks
  <2>2. handles = {} /\ Runtime!registered \subseteq Runtime!done
    BY <1>6 DEF Runtime!joinTasks, LockInv, HandleInv, Runtime!handlesFree
  <2>3. LockInv'
    BY <1>6, <2>2 DEF Runtime!joinTasks, LockInv, Runtime!handlesFree
  <2>4. HandleInv' /\ OwedInv'
    BY <1>2, <1>6, <2>2 DEF Runtime!joinTasks, HandleInv, OwedInv
  <2> QED
    BY <1>1, <2>1, <2>3, <2>4
<1> QED
  BY <1>3, <1>4, <1>5, <1>6

\* A task that is polled or dropped.
LEMMA TaskInv ==
    ASSUME NodeInv, NEW t \in Tasks, PollTask(t) \/ DropTask(t)
    PROVE  NodeInv'
<1> USE DEF NodeInv, NodeTypeOK, Runtime!TypeOK
<1>1. TypeOK'
  <2>1. [Next]_vars
    BY NodeStepIsStorageStep DEF NodeNext
  <2> QED
    BY <2>1, TypeStep
<1>2. CASE PollTask(t)
  <2>1. \A u \in Tasks : u # t => call'[u] = call[u]
    BY <1>2 DEF PollTask, StorageStep, StoreIndex, StoreCache, StoreHead, ReadIndex, ReadCache, TypeOK
  <2>2. CASE call'[t] = Idle /\ t \notin Services
    <3>1. Runtime!Complete(t)
      BY <1>2, <2>2 DEF PollTask
    <3>2. Runtime!TypeOK' /\ LockInv' /\ HandleInv' /\ OwedInv'
      BY <3>1, EndInv DEF Runtime!Complete
    <3>3. CallInv'
      BY <2>1, <2>2, <3>1 DEF CallInv, Runtime!Complete
    <3> QED
      BY <1>1, <3>2, <3>3
  <2>3. CASE ~(call'[t] = Idle /\ t \notin Services)
    <3>1. UNCHANGED runtimeVars /\ task[t] = "running"
      BY <1>2, <2>3 DEF PollTask
    <3>2. Runtime!TypeOK' /\ LockInv' /\ HandleInv' /\ OwedInv'
      BY <3>1 DEF runtimeVars, LockInv, HandleInv, OwedInv,
                  Runtime!handlesFree, Runtime!registered, Runtime!done
    <3>3. CallInv'
      BY <2>1, <3>1 DEF CallInv, runtimeVars
    <3> QED
      BY <1>1, <3>2, <3>3
  <2> QED
    BY <2>2, <2>3
<1>3. CASE DropTask(t)
  <2>1. Runtime!ReceiveSignal(t)
    BY <1>3 DEF DropTask
  <2>2. call'[t] = Idle /\ \A u \in Tasks : u # t => call'[u] = call[u]
    BY <1>3 DEF DropTask, Cancel, vars, TypeOK
  <2>3. Runtime!TypeOK' /\ LockInv' /\ HandleInv' /\ OwedInv'
    <3>1. signals' \in 0..Runtime!ChannelCapacity
      BY <2>1 DEF Runtime!ReceiveSignal, Runtime!ChannelCapacity
    <3>2. Runtime!TypeOK'
      BY <2>1, <3>1 DEF Runtime!ReceiveSignal
    <3>3. LockInv' /\ HandleInv' /\ OwedInv'
      BY <2>1, EndInv DEF Runtime!ReceiveSignal
    <3> QED
      BY <3>2, <3>3
  <2>4. CallInv'
    BY <2>1, <2>2 DEF CallInv, Runtime!ReceiveSignal
  <2> QED
    BY <1>1, <2>3, <2>4
<1> QED
  BY <1>2, <1>3

\* Every step of the node preserves the invariant.
LEMMA NodeNextInv == NodeInv /\ [NodeNext]_nodeVars => NodeInv'
<1> SUFFICES ASSUME NodeInv, [NodeNext]_nodeVars PROVE NodeInv'
  OBVIOUS
<1>1. ASSUME UNCHANGED vars,
             Runtime!start \/ (\E s \in Status : Runtime!update_sync_status(s))
               \/ (\E h \in Height : Runtime!update_height(h))
      PROVE  NodeInv'
  <2>1. UNCHANGED <<signals, task, spawning, handles, drained, shutdown, owed, vars>>
    BY <1>1 DEF Runtime!start, Runtime!update_sync_status, Runtime!update_height, Runtime!taskVars
  <2>2. CallInv' /\ LockInv' /\ HandleInv' /\ OwedInv'
    BY <2>1, StatusStep
  <2>3. sync_status' \in Runtime!SyncStatus /\ latest_height' \in {Runtime!GENESIS} \cup Height
    BY <1>1, NodeAssumption DEF NodeInv, NodeTypeOK, Runtime!TypeOK, Runtime!SyncStatus,
         Runtime!start, Runtime!update_sync_status, Runtime!update_height
  <2> QED
    BY <2>1, <2>2, <2>3 DEF NodeInv, NodeTypeOK, TypeOK, Runtime!TypeOK, vars
<1>2. ASSUME UNCHANGED nodeVars PROVE NodeInv'
  <2>1. UNCHANGED <<signals, task, spawning, handles, drained, shutdown, owed, vars>>
    BY <1>2 DEF nodeVars, runtimeVars
  <2>2. CallInv' /\ LockInv' /\ HandleInv' /\ OwedInv'
    BY <2>1, StatusStep
  <2> QED
    BY <1>2, <2>2 DEF NodeInv, NodeTypeOK, TypeOK, Runtime!TypeOK, vars, nodeVars, runtimeVars
<1> QED
  BY <1>1, <1>2, SpawnInv, ShutdownInv, TaskInv DEF NodeNext, Runtime!RuntimeStep

\* The invariant holds of every behaviour of the node.
LEMMA NodeInvariance == NodeSpec => []NodeInv
  BY NodeInitInv, NodeNextInv, PTL DEF NodeSpec

\* The node keeps its types: in particular the channel never holds more signals
\* than it has room for.
THEOREM NodeTypeCorrect == NodeSpec => []NodeTypeOK
<1>1. NodeInv => NodeTypeOK
  BY DEF NodeInv
<1> QED
  BY <1>1, NodeInvariance, PTL

\* However calls of shutdown, spawns and tasks interleave, a shutdown that has
\* returned has waited for every task it owed, and none is inside a storage call.
THEOREM ShutdownQuiescesHolds == NodeSpec => []ShutdownQuiesces
<1>1. ASSUME NodeInv, NEW c \in Callers, shutdown[c] = "returned", NEW t \in owed[c]
      PROVE  t \in Runtime!done /\ call[t] = Idle
  <2>1. t \in Tasks /\ t \in Runtime!done /\ task[t] # "running"
    BY <1>1 DEF NodeInv, OwedInv, Runtime!done
  <2> QED
    BY <1>1, <2>1 DEF NodeInv, CallInv
<1>2. NodeInv => ShutdownQuiesces
  BY <1>1 DEF ShutdownQuiesces
<1> QED
  BY <1>2, NodeInvariance, PTL

=============================================================================
