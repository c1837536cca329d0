---------------------------- MODULE Subscriptions ----------------------------
(* Store events and GraphQL subscriptions: from the transaction that changes *)
(* entities, over NOTIFY (store/postgres/src/notification_listener.rs), the  *)
(* fan-out to subscribers (store_events.rs), the filter and the throttle     *)
(* (graph/src/components/store.rs) and the execution of the query            *)
(* (graphql/src/subscription/mod.rs) to the WebSocket connection of a client *)
(* (server/websocket/src/connection.rs).                                     *)
(*                                                                           *)
(* The data of an entity type is the number of its changes.  The indexing    *)
(* node and the query node are different processes.  The channels of the     *)
(* code are unbounded in effect: every send uses a fresh clone of the        *)
(* sender, which has a slot of its own.                                      *)
EXTENDS Integers, Sequences, FiniteSets, SequencesExt

CONSTANTS
    EntityTypes,
    Changes,                        \* entity types that one block may change
    Operations,                     \* operation ids that the client uses
    QueryOf,                        \* QueryOf[o]: the fields of an operation's query,
                                    \* each as the path of types that leads to it
    LARGE_NOTIFICATION_THRESHOLD,   \* changes that fit into a notification
    MAX_OPERATIONS_PER_CONNECTION,
    Commits,                        \* bound: changes of an entity type
    Messages                        \* bound: messages of the client, and so
                                    \* subscription tasks

(* collect_entities_from_query_field: through fields of object types, not   *)
(* through fragments or interfaces.                                         *)
CollectEntities(fields) ==
    {path[Len(path)].type : path \in
        {p \in fields : /\ \A i \in 1..Len(p) : p[i].kind \in {"entity", "object"}
                        /\ p[Len(p)].kind = "entity"}}

ASSUME SubscriptionsAssumption ==
    /\ {LARGE_NOTIFICATION_THRESHOLD, MAX_OPERATIONS_PER_CONNECTION, Commits, Messages}
       \subseteq Nat
    /\ Changes \subseteq SUBSET EntityTypes \ {{}}
    /\ IsFiniteSet(Operations)
    /\ \A o \in Operations : CollectEntities(QueryOf[o]) \subseteq EntityTypes

VARIABLES
    data,       \* changes of each entity type so far
    unsent,     \* a committed block whose event is not sent yet
    notes,      \* notifications that Postgres has for the listener
    rows,       \* large_notifications: id, payload and age
    serial,     \* the last id of large_notifications
    events,     \* what the listener has passed on
    fanout,     \* the event being sent, and the subscribers still to get it
    senders,    \* SubscriptionManager::subscriptions
    dsynced,    \* the deployment is marked as synced
    tasks,      \* subscription tasks, in the order of their start
    operations, \* operations of the connection: their task, or 0
    sent,       \* messages put into the sink of the connection, in order
    connection, \* "open" or "closed"
    messages,   \* messages of the client so far
    missed      \* history: entity types of events that were lost

storeEventVars == <<data, unsent, notes, rows, serial, missed>>
fanoutVars == <<events, fanout, senders>>
socketVars == <<operations, sent, connection, messages>>
subscriptionVars == <<storeEventVars, fanoutVars, dsynced, tasks, socketVars>>

Tasks == 1..Len(tasks)

Listens(t) == CollectEntities(QueryOf[tasks[t].operation])

SubscriptionsInit ==
    /\ data = [e \in EntityTypes |-> 0]
    /\ unsent = {}
    /\ notes = <<>> /\ events = <<>>
    /\ rows = {} /\ serial = 0
    /\ fanout = [event |-> {}, to |-> {}]
    /\ senders = {}
    /\ dsynced \in BOOLEAN
    /\ tasks = <<>>
    /\ operations = [o \in Operations |-> 0]
    /\ sent = <<>>
    /\ connection = "open"
    /\ messages = 0
    /\ missed = {}

---------------------------------------------------------------------------
(* The indexing node                                                       *)

(* transact_block_operations, revert_block_operations: the entities in one *)
(* transaction ...                                                         *)
TransactBlock ==
    /\ unsent = {} /\ \A e \in EntityTypes : data[e] < Commits
    /\ \E changed \in Changes :
          /\ data' = [e \in EntityTypes |-> data[e] + IF e \in changed THEN 1 ELSE 0]
          /\ unsent' = changed
    /\ UNCHANGED <<notes, rows, serial, missed, fanoutVars, dsynced, tasks, socketVars>>

(* JsonNotification::send: a large payload goes into a table, from which   *)
(* old rows are removed now and then.                                      *)
SendLarge ==
    /\ serial' = serial + 1
    /\ \E pruned \in {{}, {r \in rows : r.old}} :
          rows' = (rows \ pruned) \cup {[id |-> serial', payload |-> unsent, old |-> FALSE]}
    /\ notes' = Append(notes, [changes |-> {}, large |-> serial'])

SendStoreEvent ==
    /\ unsent # {} /\ unsent' = {}
    /\ \/ /\ Cardinality(unsent) <= LARGE_NOTIFICATION_THRESHOLD
          /\ notes' = Append(notes, [changes |-> unsent, large |-> 0])
          /\ UNCHANGED <<rows, serial>>
       \/ Cardinality(unsent) > LARGE_NOTIFICATION_THRESHOLD /\ SendLarge
    /\ UNCHANGED <<data, missed, fanoutVars, dsynced, tasks, socketVars>>

(* ... and the event in a transaction of its own, before which the node    *)
(* may crash.                                                              *)
SendFails ==
    /\ unsent # {}
    /\ unsent' = {} /\ missed' = missed \cup unsent
    /\ UNCHANGED <<data, notes, rows, serial, fanoutVars, dsynced, tasks, socketVars>>

(* LARGE_NOTIFICATION_CLEANUP_INTERVAL passes.                             *)
RowsGrowOld ==
    /\ \E r \in rows : ~r.old
    /\ rows' = {[r EXCEPT !.old = TRUE] : r \in rows}
    /\ UNCHANGED <<data, unsent, notes, serial, missed, fanoutVars, dsynced, tasks, socketVars>>

DeploymentSynced ==
    /\ ~dsynced /\ dsynced' = TRUE
    /\ UNCHANGED <<storeEventVars, fanoutVars, tasks, socketVars>>

---------------------------------------------------------------------------
(* The query node: listener and SubscriptionManager                        *)

(* JsonNotification::parse: the payload of the notification, or none if it *)
(* is not in the table any more.                                           *)
Payload(note) ==
    IF note.large = 0 THEN note.changes
    ELSE UNION {r.payload : r \in {r \in rows : r.id = note.large}}

Listen ==
    /\ notes # <<>>
    /\ notes' = Tail(notes)
    /\ LET changes == Payload(Head(notes))
       IN /\ events' = IF changes = {} THEN events ELSE Append(events, changes)
          /\ missed' = IF changes = {} THEN EntityTypes ELSE missed
    /\ UNCHANGED <<data, unsent, rows, serial, fanout, senders, dsynced, tasks, socketVars>>

(* handle_store_events: every event goes to those that have subscribed by  *)
(* then, one after the other.                                              *)
NextEvent ==
    /\ fanout.to = {} /\ events # <<>>
    /\ fanout' = [event |-> Head(events), to |-> senders]
    /\ events' = Tail(events)
    /\ UNCHANGED <<storeEventVars, senders, dsynced, tasks, socketVars>>

Send(t) ==
    /\ t \in fanout.to
    /\ fanout' = [fanout EXCEPT !.to = @ \ {t}]
    /\ IF tasks[t].phase = "gone"
       THEN senders' = senders \ {t} /\ UNCHANGED tasks
       ELSE /\ tasks' = [tasks EXCEPT ![t].channel = Append(@, fanout.event)]
            /\ UNCHANGED senders
    /\ UNCHANGED <<storeEventVars, events, dsynced, socketVars>>

(* A sender whose receiver was dropped.                                    *)
Stale(t) == tasks[t].phase = "gone"

(* periodically_clean_up_stale_subscriptions                               *)
CleanUp ==
    /\ \E t \in senders : Stale(t)
    /\ senders' = {t \in senders : ~Stale(t)}
    /\ UNCHANGED <<storeEventVars, events, fanout, dsynced, tasks, socketVars>>

---------------------------------------------------------------------------
(* The connection                                                          *)

Active == {o \in Operations : operations[o] # 0}

Message(kind, t) == [kind |-> kind, task |-> t]

NothingSeen == [e \in EntityTypes |-> -1]

(* Operations::drop *)
CompleteAll == SetToSeq({Message("complete", operations[o]) : o \in Active})

(* The reader ends: all operations are stopped.  The connection is done    *)
(* when its reader is, whatever the writer still has to send: what was     *)
(* sent last need not reach the client.                                    *)
Close(last) ==
    /\ connection' = "closed"
    /\ operations' = [o \in Operations |-> 0]
    /\ sent' = sent \o last \o CompleteAll

AtLimit == Cardinality(Active) >= MAX_OPERATIONS_PER_CONNECTION

NewTask(o) == [operation |-> o, phase |-> "starting", channel |-> <<>>, synced |-> FALSE,
               pending |-> {}, seen |-> NothingSeen]

Reading == connection = "open" /\ messages < Messages /\ messages' = messages + 1

(* A start message: refused, which ends the connection, or a new task.     *)
StartOperation(o) ==
    /\ Reading
    /\ operations[o] = 0 /\ ~AtLimit
    /\ tasks' = Append(tasks, NewTask(o))
    /\ operations' = [operations EXCEPT ![o] = Len(tasks) + 1]
    /\ UNCHANGED <<storeEventVars, fanoutVars, dsynced, sent, connection>>

(* An operation with that id is there already, or there are too many, or   *)
(* the query or its variables are invalid.                                 *)
RefuseOperation(o) ==
    /\ Reading
    /\ Close(<<Message("error", 0)>>)
    /\ UNCHANGED <<storeEventVars, fanoutVars, dsynced, tasks>>

StopOperation(o) ==
    /\ Reading
    /\ operations' = [operations EXCEPT ![o] = 0]
    /\ sent' = Append(sent, Message(IF operations[o] = 0 THEN "error" ELSE "complete",
                                    operations[o]))
    /\ UNCHANGED <<storeEventVars, fanoutVars, dsynced, tasks, connection>>

(* The client terminates the connection, or is gone.                       *)
Terminate ==
    /\ connection = "open"
    /\ Close(<<>>)
    /\ UNCHANGED <<storeEventVars, fanoutVars, dsynced, tasks, messages>>

---------------------------------------------------------------------------
(* A subscription task                                                     *)

(* Faulty variant: a task goes on after its operation was stopped.         *)
CanceledOnClose(t) == connection = "closed"

(* Cancelable: the guard of the task was dropped.                          *)
Canceled(t) == operations[tasks[t].operation] # t

SetTask(t, task) == tasks' = [tasks EXCEPT ![t] = task]

(* map_source_to_response_stream: an empty event comes first.              *)
FirstPhase == "execute"

(* run_subscription: the task subscribes to the store, then its query is   *)
(* executed for the first time.                                            *)
Subscribe(t) ==
    /\ tasks[t].phase = "starting" /\ ~Canceled(t)
    /\ senders' = senders \cup {t}
    /\ SetTask(t, [tasks[t] EXCEPT !.phase = FirstPhase, !.synced = dsynced])
    /\ UNCHANGED <<storeEventVars, events, fanout, dsynced, socketVars>>

(* The query is invalid, which the client is told, or too expensive, which *)
(* it is not.  The operation stays.                                        *)
SubscribeFails(t) ==
    /\ tasks[t].phase = "starting" /\ ~Canceled(t)
    /\ SetTask(t, [tasks[t] EXCEPT !.phase = "gone"])
    /\ \/ sent' = Append(sent, Message("data", t))
       \/ UNCHANGED sent
    /\ UNCHANGED <<storeEventVars, fanoutVars, dsynced, operations, connection, messages>>

(* filter_by_entities: the places of the events that pass.                 *)
Wanted(t) ==
    {i \in 1..Len(tasks[t].channel) : tasks[t].channel[i] \cap Listens(t) # {}}

(* throttle_while_syncing, synced: the events one by one.                  *)
PassEvent(t) ==
    LET channel == tasks[t].channel
    IN /\ tasks[t].phase = "waiting" /\ ~Canceled(t) /\ tasks[t].synced
       /\ channel # <<>>
       /\ \/ /\ Wanted(t) = {}
             /\ SetTask(t, [tasks[t] EXCEPT !.channel = <<>>])
          \/ \E i \in Wanted(t) :
                /\ \A j \in Wanted(t) : i <= j
                /\ SetTask(t, [tasks[t] EXCEPT
                       !.channel = SubSeq(channel, i + 1, Len(channel)), !.phase = "execute"])
       /\ UNCHANGED <<storeEventVars, fanoutVars, dsynced, socketVars>>

(* StoreEvent::accumulate: what is held, with what has come.               *)
Accumulate(t) ==
    tasks[t].pending \cup UNION {tasks[t].channel[i] : i \in Wanted(t)}

(* throttle_while_syncing, not synced: all events that are there.          *)
HoldEvents(t) ==
    /\ tasks[t].phase = "waiting" /\ ~Canceled(t) /\ ~tasks[t].synced
    /\ tasks[t].channel # <<>>
    /\ SetTask(t, [tasks[t] EXCEPT !.channel = <<>>, !.pending = Accumulate(t)])
    /\ UNCHANGED <<storeEventVars, fanoutVars, dsynced, socketVars>>

(* Faulty variant: the timer sends only what has just come.                *)
DueWithEvent(t) == Wanted(t) # {}

Due(t) == Accumulate(t) # {}

(* The interval is over: what is held goes, with what has just come.      *)
SendPending(t) ==
    /\ tasks[t].phase = "waiting" /\ ~Canceled(t) /\ ~tasks[t].synced
    /\ Due(t)
    /\ SetTask(t, [tasks[t] EXCEPT !.channel = <<>>, !.pending = {}, !.phase = "execute"])
    /\ UNCHANGED <<storeEventVars, fanoutVars, dsynced, socketVars>>

(* Now and then a task that throttles looks whether the deployment is      *)
(* synced; from then on it does not look at what is pending.               *)
NoticeSynced(t) ==
    /\ tasks[t].phase = "waiting" /\ ~Canceled(t) /\ ~tasks[t].synced /\ dsynced
    /\ SetTask(t, [tasks[t] EXCEPT !.synced = TRUE])
    /\ UNCHANGED <<storeEventVars, fanoutVars, dsynced, socketVars>>

(* execute_subscription_event: the query sees the entities of the moment.  *)
ExecuteEvent(t) ==
    /\ tasks[t].phase = "execute" /\ ~Canceled(t)
    /\ SetTask(t, [tasks[t] EXCEPT !.seen = data, !.phase = "executed"])
    /\ UNCHANGED <<storeEventVars, fanoutVars, dsynced, socketVars>>

(* The poll that gets the result has found the guard in place ...          *)
PollResult(t) ==
    /\ tasks[t].phase = "executed" /\ ~Canceled(t)
    /\ SetTask(t, [tasks[t] EXCEPT !.phase = "polled"])
    /\ UNCHANGED <<storeEventVars, fanoutVars, dsynced, socketVars>>

(* ... and sends it, unless the connection is gone.                        *)
ForwardResult(t) ==
    /\ tasks[t].phase = "polled"
    /\ IF connection = "open"
       THEN /\ sent' = Append(sent, Message("data", t))
            /\ SetTask(t, [tasks[t] EXCEPT !.phase = "waiting"])
       ELSE SetTask(t, [tasks[t] EXCEPT !.phase = "gone"]) /\ UNCHANGED sent
    /\ UNCHANGED <<storeEventVars, fanoutVars, dsynced, operations, connection, messages>>

CancelTask(t) ==
    /\ tasks[t].phase \notin {"polled", "gone"} /\ Canceled(t)
    /\ SetTask(t, [tasks[t] EXCEPT !.phase = "gone", !.channel = <<>>])
    /\ UNCHANGED <<storeEventVars, fanoutVars, dsynced, socketVars>>

TaskStep(t) ==
    \/ Subscribe(t) \/ SubscribeFails(t) \/ PassEvent(t) \/ HoldEvents(t) \/ SendPending(t)
    \/ ExecuteEvent(t) \/ PollResult(t) \/ ForwardResult(t) \/ CancelTask(t)

FanoutStep == Listen \/ NextEvent \/ (\E t \in Tasks : Send(t))

SubscriptionsNext ==
    \/ TransactBlock \/ SendStoreEvent \/ SendFails \/ RowsGrowOld \/ DeploymentSynced
    \/ FanoutStep \/ CleanUp
    \/ \E o \in Operations : StartOperation(o) \/ RefuseOperation(o) \/ StopOperation(o)
    \/ Terminate
    \/ \E t \in Tasks : TaskStep(t) \/ NoticeSynced(t)

(* The threads and timers of the node go on; the indexing node sends its   *)
(* event or fails.                                                         *)
SubscriptionsFairness ==
    /\ WF_subscriptionVars(SendStoreEvent \/ SendFails)
    /\ WF_subscriptionVars(FanoutStep)
    /\ WF_subscriptionVars(CleanUp)
    /\ \A t \in 1..Messages : WF_subscriptionVars(t \in Tasks /\ TaskStep(t))

SubscriptionsSpec ==
    SubscriptionsInit /\ [][SubscriptionsNext]_subscriptionVars /\ SubscriptionsFairness

---------------------------------------------------------------------------
(* Properties                                                              *)

Task == [operation : Operations,
         phase : {"starting", "execute", "executed", "polled", "waiting", "gone"},
         channel : Seq(SUBSET EntityTypes), synced : BOOLEAN,
         pending : SUBSET EntityTypes, seen : [EntityTypes -> Int]]

(* The shape of the state; there are never more operations than allowed,   *)
(* each with a task of its own, and no sender without a task.              *)
SubscriptionsTypeOK ==
    /\ data \in [EntityTypes -> Nat] /\ unsent \subseteq EntityTypes /\ missed \subseteq EntityTypes
    /\ serial \in Nat
    /\ notes \in Seq([changes : SUBSET EntityTypes, large : 0..serial])
    /\ rows \subseteq [id : 1..serial, payload : SUBSET EntityTypes, old : BOOLEAN]
    /\ events \in Seq(SUBSET EntityTypes)
    /\ tasks \in Seq(Task)
    /\ fanout \in [event : SUBSET EntityTypes, to : SUBSET Tasks]
    /\ senders \subseteq Tasks
    /\ sent \in Seq([kind : {"data", "complete", "error"}, task : 0..Len(tasks)])
    /\ operations \in [Operations -> 0..Len(tasks)]
    /\ \A o \in Active : tasks[operations[o]].operation = o
    /\ Cardinality(Active) <= MAX_OPERATIONS_PER_CONNECTION
    /\ connection \in {"open", "closed"} /\ dsynced \in BOOLEAN /\ messages \in Nat
    /\ connection = "closed" => Active = {}

Live(t) == t \in Tasks /\ tasks[t].phase # "gone" /\ ~Canceled(t)

(* An event with a change of an entity type is on its way to a task.       *)
Underway(e, t) ==
    \/ e \in unsent
    \/ \E i \in 1..Len(notes) : e \in Payload(notes[i])
    \/ e \in UNION ToSet(events)
    \/ t \in fanout.to /\ e \in fanout.event
    \/ e \in UNION ToSet(tasks[t].channel)
    \/ e \in tasks[t].pending

(* Types of which an event was lost, or will be: a row was pruned before   *)
(* the listener came to its notification.                                  *)
Lost == missed \cup {e \in EntityTypes : \E i \in 1..Len(notes) : Payload(notes[i]) = {}}

(* No change falls between two stools: what a subscription listens to is   *)
(* either in the last result, or the query is about to run, or an event    *)
(* for it is on its way, whenever the client subscribes.  (Events may be   *)
(* lost in a crash or when their payload is removed too early.)            *)
ChangesUnderway ==
    \A t \in Tasks : Live(t) =>
        \/ tasks[t].phase \in {"starting", "execute"}
        \/ \A e \in Listens(t) \ Lost : tasks[t].seen[e] < data[e] => Underway(e, t)

DataAfter(i) ==
    {j \in (i + 1)..Len(sent) : sent[j].kind = "data" /\ sent[j].task = sent[i].task}

(* After the answer to a stop message, at most one more result comes for   *)
(* the operation: one that was just being sent.  A new operation with the  *)
(* same id is not taken for the old one longer than that.                  *)
OneResultAfterComplete ==
    \A i \in 1..Len(sent) : sent[i].kind = "complete" => Cardinality(DataAfter(i)) <= 1

(* A subscription that goes on sees every change in the end, unless the    *)
(* event was lost or is pending in a task that has stopped to throttle.    *)
ChangesSeen ==
    \A t \in 1..Messages : \A e \in EntityTypes :
        (t \in Tasks /\ e \in Listens(t) /\ tasks[t].seen[e] < data[e])
        ~> (~Live(t) \/ e \in missed \/ tasks[t].seen[e] = data[e]
            \/ (tasks[t].synced /\ tasks[t].pending # {}))

(* What throttle_while_syncing says: no event is held for longer than the  *)
(* interval.                                                               *)
NoEventHeld ==
    \A t \in 1..Messages :
        (t \in Tasks /\ tasks[t].pending # {}) ~> (~Live(t) \/ tasks[t].pending = {})

(* Every operation gets at least one result, as the protocol demands,      *)
(* unless it is stopped or refused.                                        *)
EveryOperationResponds ==
    \A t \in 1..Messages :
        t \in Tasks ~> (~Live(t) \/ \E i \in 1..Len(sent) : sent[i].task = t)

(* Subscriptions whose client is gone do not stay.                         *)
StaleSubscriptionsRemoved ==
    \A t \in 1..Messages : (t \in senders /\ tasks[t].phase = "gone") ~> t \notin senders

\* A change that a subscriber has not seen is on its way to it, and a client that
\* was told an operation is complete gets at most the one result in hand.
SubscriptionsConsistent ==
    SubscriptionsTypeOK /\ ChangesUnderway /\ OneResultAfterComplete

\* Subscriptions live as long as they should: every operation gets a result, every
\* change is seen in the end, and a subscriber that is gone is removed.
SubscriptionsServe == ChangesSeen /\ EveryOperationResponds /\ StaleSubscriptionsRemoved
=============================================================================
