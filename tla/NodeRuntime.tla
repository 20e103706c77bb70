----------------------------- MODULE NodeRuntime ----------------------------
(***************************************************************************)
(* The node runtime (node-core): background tasks, the handles by which    *)
(* the runtime waits for them, and shutdown.                               *)
(*                                                                         *)
(* A call may be suspended at every .await and runs alone between two, so  *)
(* spawn is two actions (the task runs before its handle is pushed) and    *)
(* shutdown is four.  shutdown keeps the lock of the handles while it      *)
(* waits for the tasks it drained.                                         *)
(*                                                                         *)
(* spawn clones the receiver of the shutdown channel, which tokio's mpsc   *)
(* does not offer; the clones are read as sharing one queue, so a signal   *)
(* is received by one task.  The runtime keeps the original receiver, so   *)
(* the channel never closes.  Nothing in src/ reads the broadcast events   *)
(* and the metrics; they are left out.                                     *)
(***************************************************************************)
EXTENDS Naturals

CONSTANTS
    Tasks,      \* the futures that may be spawned
    Callers,    \* the calls of shutdown
    Height,     \* the heights that may be reported
    Status      \* what update_sync_status is told

VARIABLES
    sync_status, latest_height,
    signals,    \* messages in the shutdown channel
    task,       \* task -> its state
    spawning,   \* tasks whose spawn waits for the lock of the handles
    handles,    \* the tasks whose handles are in the list
    drained,    \* the tasks whose handles a shutdown has taken out and awaits
    shutdown,   \* caller -> where its call is
    owed        \* caller -> the tasks it has to wait for

taskVars == <<signals, task, spawning, handles, drained, shutdown, owed>>
vars == <<sync_status, latest_height, taskVars>>

ChannelCapacity == 1
GENESIS == 0
SyncStatus == {"Booting", "Syncing", "InSync", "Stalled"}

TypeOK ==
    /\ sync_status \in SyncStatus
    /\ latest_height \in {GENESIS} \cup Height
    /\ signals \in 0..ChannelCapacity
    /\ task \in [Tasks -> {"absent", "running", "done", "stopped"}]
    /\ spawning \in SUBSET Tasks
    /\ handles \in SUBSET Tasks
    /\ drained \in SUBSET Tasks
    /\ shutdown \in [Callers -> {"idle", "sending", "locking", "joining", "returned"}]
    /\ owed \in [Callers -> SUBSET Tasks]

\* NodeRuntime::new
Init ==
    /\ sync_status = "Booting"
    /\ latest_height = GENESIS
    /\ signals = 0
    /\ task = [t \in Tasks |-> "absent"]
    /\ spawning = {}
    /\ handles = {}
    /\ drained = {}
    /\ shutdown = [c \in Callers |-> "idle"]
    /\ owed = [c \in Callers |-> {}]

-----------------------------------------------------------------------------
(* Status *)

start ==
    /\ sync_status' = "InSync"
    /\ UNCHANGED <<latest_height, taskVars>>

update_sync_status(status) ==
    /\ sync_status' = status
    /\ UNCHANGED <<latest_height, taskVars>>

update_height(height) ==
    /\ latest_height' = IF height > latest_height THEN height ELSE latest_height
    /\ UNCHANGED <<sync_status, taskVars>>

-----------------------------------------------------------------------------
(* spawn *)

\* Done by itself, or stopped by a signal.
done == {t \in Tasks : task[t] \in {"done", "stopped"}}

\* The tasks whose spawn has returned.
registered == {t \in Tasks : task[t] # "absent"} \ spawning

\* Mutant: the lock is given back before the handles are awaited.
handlesFree_Unlocked == TRUE

\* No shutdown holds the lock of the handles.
handlesFree == \A c \in Callers : shutdown[c] # "joining"

spawn(t) ==
    /\ task[t] = "absent"
    /\ task' = [task EXCEPT ![t] = "running"]
    /\ spawning' = spawning \cup {t}
    /\ UNCHANGED <<sync_status, latest_height, signals, handles, drained, shutdown, owed>>

pushHandle(t) ==
    /\ t \in spawning
    /\ handlesFree
    /\ spawning' = spawning \ {t}
    /\ handles' = handles \cup {t}
    /\ UNCHANGED <<sync_status, latest_height, signals, task, drained, shutdown, owed>>

\* The two branches of the task's select!.
Complete(t) ==
    /\ task[t] = "running"
    /\ task' = [task EXCEPT ![t] = "done"]
    /\ UNCHANGED <<sync_status, latest_height, signals, spawning, handles, drained, shutdown, owed>>

ReceiveSignal(t) ==
    /\ task[t] = "running"
    /\ signals > 0
    /\ signals' = signals - 1
    /\ task' = [task EXCEPT ![t] = "stopped"]
    /\ UNCHANGED <<sync_status, latest_height, spawning, handles, drained, shutdown, owed>>

-----------------------------------------------------------------------------
(* shutdown *)

callShutdown(c) ==
    /\ shutdown[c] = "idle"
    /\ shutdown' = [shutdown EXCEPT ![c] = "sending"]
    /\ owed' = [owed EXCEPT ![c] = registered]
    /\ UNCHANGED <<sync_status, latest_height, signals, task, spawning, handles, drained>>

\* Mutant: the channel is unbounded.
sendSignal_Unbounded(c) ==
    /\ shutdown[c] = "sending"
    /\ signals' = signals + 1
    /\ shutdown' = [shutdown EXCEPT ![c] = "locking"]
    /\ UNCHANGED <<sync_status, latest_height, task, spawning, handles, drained, owed>>

\* Mutant: the send is not awaited, so that nothing is sent.
sendSignal_NotAwaited(c) ==
    /\ shutdown[c] = "sending"
    /\ shutdown' = [shutdown EXCEPT ![c] = "locking"]
    /\ UNCHANGED <<sync_status, latest_height, signals, task, spawning, handles, drained, owed>>

sendSignal(c) ==
    /\ shutdown[c] = "sending"
    /\ signals < ChannelCapacity
    /\ signals' = signals + 1
    /\ shutdown' = [shutdown EXCEPT ![c] = "locking"]
    /\ UNCHANGED <<sync_status, latest_height, task, spawning, handles, drained, owed>>

drainHandles(c) ==
    /\ shutdown[c] = "locking"
    /\ handlesFree
    /\ drained' = handles
    /\ handles' = {}
    /\ shutdown' = [shutdown EXCEPT ![c] = "joining"]
    /\ UNCHANGED <<sync_status, latest_height, signals, task, spawning, owed>>

joinTasks(c) ==
    /\ shutdown[c] = "joining"
    /\ drained \subseteq done
    /\ drained' = {}
    /\ shutdown' = [shutdown EXCEPT ![c] = "returned"]
    /\ UNCHANGED <<sync_status, latest_height, signals, task, spawning, handles, owed>>

-----------------------------------------------------------------------------

\* What the runtime does, whatever the futures do.
RuntimeStep ==
    \/ start
    \/ \E s \in Status : update_sync_status(s)
    \/ \E h \in Height : update_height(h)
    \/ \E t \in Tasks : spawn(t) \/ pushHandle(t)
    \/ \E c \in Callers : callShutdown(c) \/ sendSignal(c) \/ drainHandles(c) \/ joinTasks(c)

Next == RuntimeStep \/ \E t \in Tasks : Complete(t) \/ ReceiveSignal(t)

Spec == Init /\ [][Next]_vars

=============================================================================
