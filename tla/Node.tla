-------------------------------- MODULE Node --------------------------------
(***************************************************************************)
(* Tasks of the node runtime that use the storage manager.  spawn takes    *)
(* any future: that of a service makes calls of store_block and            *)
(* get_by_height for ever, any other makes one and is complete when it     *)
(* returns.  A task that receives the shutdown signal drops its future at  *)
(* the await it is suspended in.                                           *)
(***************************************************************************)
EXTENDS StorageManager

CONSTANTS
    stores,     \* task -> the blocks its future may store
    reads,      \* task -> the heights its future may read
    Services,   \* the tasks whose futures never end
    Callers,    \* the calls of shutdown
    Status      \* what update_sync_status is told

VARIABLES
    sync_status, latest_height, signals, task, spawning, handles, drained,
    shutdown, owed

ASSUME NodeAssumption ==
    /\ Cancellable = Tasks
    /\ stores \in [Tasks -> SUBSET Block]
    /\ reads \in [Tasks -> SUBSET Height]
    /\ Services \subseteq Tasks
    /\ Status \subseteq {"Booting", "Syncing", "InSync", "Stalled"}

Runtime == INSTANCE NodeRuntime

runtimeVars == <<sync_status, latest_height, signals, task, spawning, handles,
                 drained, shutdown, owed>>
nodeVars == <<vars, runtimeVars>>

NodeInit == Init /\ Runtime!Init

\* One step of the storage call that task t makes.
StorageStep(t) ==
    \/ \E b \in stores[t] : StoreIndex(t, b)
    \/ StoreCache(t)
    \/ StoreHead(t)
    \/ \E h \in reads[t] : ReadIndex(t, h)
    \/ ReadCache(t)

\* The future is polled and stops at its next await, or is ready.
PollTask(t) ==
    /\ task[t] = "running"
    /\ StorageStep(t)
    /\ IF call'[t] = Idle /\ t \notin Services
       THEN Runtime!Complete(t) ELSE UNCHANGED runtimeVars

\* The other branch of select! is ready, and the future is dropped.
DropTask(t) ==
    /\ Runtime!ReceiveSignal(t)
    /\ IF call[t] = Idle THEN UNCHANGED vars ELSE Cancel(t)

NodeNext ==
    \/ Runtime!RuntimeStep /\ UNCHANGED vars
    \/ \E t \in Tasks : PollTask(t) \/ DropTask(t)

NodeSpec == NodeInit /\ [][NodeNext]_nodeVars

\* A task that is ready is polled, a signal in the channel wakes those that wait
\* for one, and a lock that is free is given to those who wait for it.
NodeFairSpec ==
    /\ NodeSpec
    /\ \A t \in Tasks :
          /\ WF_nodeVars(PollTask(t))
          /\ WF_nodeVars(DropTask(t))
          /\ WF_nodeVars(Runtime!pushHandle(t) /\ UNCHANGED vars)
    /\ \A c \in Callers :
          /\ WF_nodeVars(Runtime!sendSignal(c) /\ UNCHANGED vars)
          /\ WF_nodeVars(Runtime!drainHandles(c) /\ UNCHANGED vars)
          /\ WF_nodeVars(Runtime!joinTasks(c) /\ UNCHANGED vars)

-----------------------------------------------------------------------------
(* Properties *)

NodeTypeOK == TypeOK /\ Runtime!TypeOK

\* When shutdown returns, the tasks it had to wait for are done and none of
\* them is left in the middle of a storage call.
ShutdownQuiesces ==
    \A c \in Callers : shutdown[c] = "returned" =>
        \A t \in owed[c] : t \in Runtime!done /\ call[t] = Idle

\* A shutdown waits for a service, and the signal it sent stopped another task.
signalSpent ==
    \E c \in Callers : shutdown[c] = "joining" /\
        \E t \in drained \cap Services, u \in Tasks : task[t] = "running" /\ task[u] = "stopped"

\* Once shutdown is called, some call of it returns, unless it waits for a
\* service and another task has taken the one signal that shutdown sends.
ShutdownReturns ==
    (\E c \in Callers : shutdown[c] # "idle") ~>
        ((\E c \in Callers : shutdown[c] = "returned") \/ signalSpent)

=============================================================================
