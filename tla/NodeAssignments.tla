--------------------------- MODULE NodeAssignments ---------------------------
(***************************************************************************)
(* How one indexing node follows the assignments of the store: the         *)
(* registrar's assignment events (core/src/subgraph/registrar.rs), the     *)
(* assignment provider (provider.rs) and the instance manager              *)
(* (instance_manager.rs), down to the tasks that index a deployment.       *)
(*                                                                         *)
(* The assignment table is changed by others (Deployments).  A change is   *)
(* committed first and announced in a transaction of its own; the node     *)
(* subscribes, reads the table, and then works through the announcements,  *)
(* while its tasks start, restart, stop and fail on their own.             *)
(***************************************************************************)
EXTENDS Integers, Sequences, FiniteSets

CONSTANTS
    Deployment,       \* deployment ids
    MaxUnsent,        \* callers that change assignments at the same time: with
                      \* more than one, announcements may overtake each other
    MaxStream,        \* bound on announcements the node has not handled
    MaxQueue,         \* room in the channel to the instance manager (100)
    MaxTasks          \* bound on the tasks of a deployment, alive or on their way

VARIABLES
    table,        \* the node each deployment is assigned to, as seen from here
    unannounced,  \* changes that are committed and not announced yet
    stream,       \* announcements this node has received, in order
    phase,        \* SubgraphRegistrar::start: "down", "subscribed", "booting", "running"
    toStart,      \* deployments start_assigned_subgraphs has still to start
    running,      \* SubgraphAssignmentProvider.subgraphs_running
    queue,        \* provider events the instance manager has not handled
    spawned,      \* tasks that have not put their cancel guard into `instances`
    working,      \* tasks at work, with their cancel guard in `instances`
    doomed,       \* canceled tasks that have not noticed yet
    failed,       \* deployments whose health is Failed
    broken        \* deployments whose manifest or handlers have really failed

avars == <<table, unannounced, stream, phase, toStart, running, queue, spawned,
           working, doomed, failed, broken>>

Here == {d \in Deployment : table[d] = "here"}
Room == Len(queue) < MaxQueue
TasksOf(d) == spawned[d] + working[d] + doomed[d]
NoTasks == [d \in Deployment |-> 0]

AssignmentsInit ==
    /\ table \in [Deployment -> {"here", "none"}]
    /\ unannounced = <<>> /\ stream = <<>> /\ phase = "down" /\ toStart = {}
    /\ running = {} /\ queue = <<>> /\ spawned = NoTasks /\ working = NoTasks /\ doomed = NoTasks
    /\ failed = {} /\ broken = {}

----------------------------------------------------------------------------
(* The store.                                                               *)

\* A metadata transaction assigns, reassigns or unassigns a deployment.
ChangeAssignment(d, place) ==
    /\ place # table[d] /\ Len(unannounced) < MaxUnsent /\ Len(stream) < MaxStream
    /\ TasksOf(d) + Len(queue) + Len(stream) < MaxTasks
    /\ table' = [table EXCEPT ![d] = place]
    /\ unannounced' = Append(unannounced, [d |-> d, op |-> IF place = "none" THEN "Removed" ELSE "Set"])
    /\ UNCHANGED <<stream, phase, toStart, running, queue, spawned, working, doomed, failed, broken>>

\* send_store_event: an announcement, to the nodes that have subscribed.
Announce ==
    /\ \E i \in 1 .. Len(unannounced) :
         /\ unannounced' = SubSeq(unannounced, 1, i - 1) \o SubSeq(unannounced, i + 1, Len(unannounced))
         /\ stream' = IF phase = "down" THEN stream ELSE Append(stream, unannounced[i])
    /\ UNCHANGED <<table, phase, toStart, running, queue, spawned, working, doomed, failed, broken>>

----------------------------------------------------------------------------
(* The provider.                                                            *)

\* provider.start: resolve the manifest, enter the set, ask for the start.
\* Every error marks the deployment failed, "already running" included.
ProviderStart(d) ==
    IF d \in running
    THEN failed' = failed \cup {d} /\ UNCHANGED <<running, queue, broken>>
    ELSE /\ running' = running \cup {d} /\ queue' = Append(queue, [d |-> d, op |-> "Start"])
         /\ UNCHANGED <<failed, broken>>
ResolveFails(d) ==
    failed' = failed \cup {d} /\ broken' = broken \cup {d} /\ UNCHANGED <<running, queue>>

\* Faulty variant: the manager is told before the provider knows.
StopUnchecked(d) ==
    /\ running' = running /\ queue' = Append(queue, [d |-> d, op |-> "Stop"])
    /\ UNCHANGED <<failed, broken>>

\* provider.stop: nothing happens for a deployment that is not running.
ProviderStop(d) ==
    /\ running' = running \ {d}
    /\ queue' = IF d \in running THEN Append(queue, [d |-> d, op |-> "Stop"]) ELSE queue
    /\ UNCHANGED <<failed, broken>>

----------------------------------------------------------------------------
(* The registrar.                                                           *)

\* SubgraphRegistrar::start: open the event stream, then read the table.
SubscribeToEvents ==
    \/ /\ phase = "down" /\ phase' = "subscribed" /\ UNCHANGED <<toStart, stream>>
    \/ /\ phase = "subscribed" /\ phase' = "booting" /\ toStart' = Here /\ UNCHANGED stream
StartRegistrar ==
    /\ SubscribeToEvents
    /\ UNCHANGED <<table, unannounced, running, queue, spawned, working, doomed, failed, broken>>

\* start_assigned_subgraphs: one task per assignment, in any order.
StartAssigned(d) ==
    /\ phase = "booting" /\ d \in toStart /\ Room
    /\ toStart' = toStart \ {d}
    /\ ProviderStart(d) \/ ResolveFails(d)
    /\ UNCHANGED <<table, unannounced, stream, phase, spawned, working, doomed>>

\* All of them have been tried: begin with the announcements.
StartedAll ==
    /\ phase = "booting" /\ toStart = {} /\ phase' = "running"
    /\ UNCHANGED <<table, unannounced, stream, toStart, running, queue, spawned, working, doomed, failed, broken>>

\* assignment_events and handle_assignment_event.  For "Set" the assignment is
\* read again: it may be gone (its removal is announced separately).
HandleAssignment(event) ==
    \/ event.op = "Set" /\ table[event.d] = "here"
         /\ (ProviderStart(event.d) \/ ResolveFails(event.d))
    \/ event.op = "Set" /\ table[event.d] = "elsewhere" /\ ProviderStop(event.d)
    \/ event.op = "Set" /\ table[event.d] = "none" /\ UNCHANGED <<running, queue, failed, broken>>
    \/ event.op = "Removed" /\ ProviderStop(event.d)
NextAssignment ==
    /\ phase = "running" /\ stream # <<>> /\ Room
    /\ stream' = Tail(stream)
    /\ HandleAssignment(Head(stream))
    /\ UNCHANGED <<table, unannounced, phase, toStart, spawned, working, doomed>>

----------------------------------------------------------------------------
(* The instance manager and its tasks.                                      *)

\* start_subgraph: the health is reset and a task is spawned; if the deployment
\* cannot be started there is no task.
ManagerStart(d) ==
    /\ queue # <<>> /\ Head(queue) = [d |-> d, op |-> "Start"] /\ queue' = Tail(queue)
    /\ \/ spawned' = [spawned EXCEPT ![d] = @ + 1] /\ failed' = failed \ {d} /\ UNCHANGED broken
       \/ broken' = broken \cup {d} /\ UNCHANGED <<spawned, failed>>
    /\ UNCHANGED <<table, unannounced, stream, phase, toStart, running, working, doomed>>

\* Faulty variant: a guard that leaves `instances` cancels nothing.
DroppedNever(d) == 0

\* The tasks that end when the entry of `instances` goes or is replaced: the
\* guard in it is dropped, and cancels the task it belongs to.
Dropped(d) == IF working[d] > 0 THEN 1 ELSE 0

\* stop_subgraph: drop the cancel guard, if there is one.
ManagerStop(d) ==
    /\ queue # <<>> /\ Head(queue) = [d |-> d, op |-> "Stop"] /\ queue' = Tail(queue)
    /\ working' = [working EXCEPT ![d] = @ - Dropped(d)]
    /\ doomed' = [doomed EXCEPT ![d] = @ + Dropped(d)]
    /\ UNCHANGED <<table, unannounced, stream, phase, toStart, running, spawned, failed, broken>>

\* run_subgraph: the task builds its block stream and stores the cancel guard,
\* in the place of the guard of an earlier task, if there is one.
TaskRegisters(d) ==
    /\ spawned[d] > 0 /\ spawned' = [spawned EXCEPT ![d] = @ - 1]
    /\ working' = [working EXCEPT ![d] = @ + 1 - Dropped(d)]
    /\ doomed' = [doomed EXCEPT ![d] = @ + Dropped(d)]
    /\ UNCHANGED <<table, unannounced, stream, phase, toStart, running, queue, failed, broken>>

\* A block creates data sources, or a reorg is suspected: the task takes its
\* guard out of the map and builds a new stream.
TaskRestarts(d) ==
    /\ working[d] > 0 /\ working' = [working EXCEPT ![d] = @ - 1]
    /\ spawned' = [spawned EXCEPT ![d] = @ + 1]
    /\ UNCHANGED <<table, unannounced, stream, phase, toStart, running, queue, doomed, failed, broken>>

\* A canceled task ends at its next block, before it writes.
TaskEnds(d) ==
    /\ doomed[d] > 0 /\ doomed' = [doomed EXCEPT ![d] = @ - 1]
    /\ UNCHANGED <<table, unannounced, stream, phase, toStart, running, queue, spawned, working, failed, broken>>

\* A handler fails: the deployment is marked failed and the task ends, while the
\* provider counts it as running.  A canceled task may still fail in this way.
TaskFails(d) ==
    /\ \/ working[d] > 0 /\ working' = [working EXCEPT ![d] = @ - 1] /\ UNCHANGED doomed
       \/ doomed[d] > 0 /\ doomed' = [doomed EXCEPT ![d] = @ - 1] /\ UNCHANGED working
    /\ failed' = failed \cup {d} /\ broken' = broken \cup {d}
    /\ UNCHANGED <<table, unannounced, stream, phase, toStart, running, queue, spawned>>

\* The node is killed; what it had received and started is gone.
NodeCrash ==
    /\ phase # "down" /\ phase' = "down" /\ stream' = <<>> /\ toStart' = {} /\ running' = {}
    /\ queue' = <<>> /\ spawned' = NoTasks /\ working' = NoTasks /\ doomed' = NoTasks
    /\ UNCHANGED <<table, unannounced, failed, broken>>

NodeStep ==
    \/ Announce \/ StartRegistrar \/ StartedAll \/ NextAssignment
    \/ \E d \in Deployment : \/ StartAssigned(d) \/ ManagerStart(d) \/ ManagerStop(d)
                             \/ TaskRegisters(d) \/ TaskEnds(d)

AssignmentsNext ==
    \/ NodeStep \/ NodeCrash
    \/ \E d \in Deployment, place \in {"here", "elsewhere", "none"} : ChangeAssignment(d, place)
    \/ \E d \in Deployment : TaskRestarts(d) \/ TaskFails(d)

\* The announcements are sent, and the tasks of the runtime make progress.
AssignmentsFairness ==
    /\ WF_avars(Announce) /\ WF_avars(StartRegistrar) /\ WF_avars(StartedAll)
    /\ WF_avars(NextAssignment)
    /\ \A d \in Deployment :
          /\ WF_avars(StartAssigned(d)) /\ WF_avars(ManagerStart(d)) /\ WF_avars(ManagerStop(d))
          /\ WF_avars(TaskRegisters(d)) /\ WF_avars(TaskEnds(d))

AssignmentsSpec == AssignmentsInit /\ [][AssignmentsNext]_avars /\ AssignmentsFairness

----------------------------------------------------------------------------
(* Properties.                                                              *)

\* The registrar's phases, the provider's running set and the numbers of tasks
\* have their types.
AssignmentsTypeOK ==
    /\ table \in [Deployment -> {"here", "elsewhere", "none"}]
    /\ phase \in {"down", "subscribed", "booting", "running"}
    /\ running \subseteq Deployment /\ toStart \subseteq Deployment
    /\ \A d \in Deployment : {spawned[d], working[d], doomed[d]} \subseteq Nat

\* The instance manager is asked in turns to start and to stop a deployment, and
\* the last request in the queue is what the provider believes: a removal that
\* overlaps the start up can not be handled before the start it undoes.
RequestsAlternate ==
    \A d \in Deployment :
      LET mine == {i \in DOMAIN queue : queue[i].d = d}
      IN  /\ \A i, j \in mine : i < j /\ (\A k \in mine : k <= i \/ j <= k) =>
                queue[i].op # queue[j].op
          /\ \A i \in mine : (\A j \in mine : j <= i) =>
                ((queue[i].op = "Start") <=> (d \in running))

\* When the assignments stay as they are and the node stays up, it comes to index
\* exactly the deployments assigned to it, except those that fail: "Starting the
\* event stream before reading the assignments table ensures that no assignments
\* are missed".
NodeFollowsAssignments ==
    <>[][UNCHANGED table /\ ~NodeCrash]_avars
      => <>[](running \subseteq Here /\ Here \subseteq running \cup broken)

\* Stopping and starting again never leaves two tasks of one deployment at work
\* for good: the one that registers later cancels the other.
OneTaskRemains ==
    <>[][UNCHANGED <<table, broken>> /\ ~NodeCrash /\ ~(\E d \in Deployment : TaskRestarts(d))]_avars
      => <>[](\A d \in Deployment : TasksOf(d) <= 1)

\* "handle_assignment_events handles these cases by ignoring AlreadyRunning ...,
\* which makes the operations idempotent": an announcement of what the node does
\* already has no effect, so only a deployment that has failed is marked failed.
FailedOnlyIfBroken == failed \subseteq broken

\* A deployment that was unassigned does not keep a task: "Keep the stream's
\* cancel guard around to be able to shut it down when the subgraph deployment is
\* unassigned".
UnassignedStops ==
    <>[][UNCHANGED <<table, broken>> /\ ~NodeCrash]_avars => <>[](\A d \in Deployment \ running : working[d] = 0)

\* Provider, queue and instance manager agree on what was asked for.
NodeConsistent == AssignmentsTypeOK /\ RequestsAlternate

\* A node settles: it comes to run what the table assigns to it, with one task
\* for each deployment.
NodeSettles == NodeFollowsAssignments /\ OneTaskRemains
============================================================================
