----------------------------- MODULE MCServices -----------------------------
(***************************************************************************)
(* Four services of a node that share a run and nothing else:              *)
(*   network: the network indexer on two forks from the genesis block; a2  *)
(*     names b1 as an ommer, and b3 names a2;                              *)
(*                                                                         *)
(*     G --- a1 --- a2 --- a3                                              *)
(*      \--- b1 --- b2 --- b3                                              *)
(*                                                                         *)
(*   node: an index node that follows the assignments of a deployment;     *)
(*   caching: two clients with a query for the latest block or for the     *)
(*     status of the deployments, and one permit;                          *)
(*   subscriptions: a client that starts an operation, stops it and starts *)
(*     it again while two changes are committed.                           *)
(***************************************************************************)
EXTENDS NetworkIndexer, NodeAssignments, QueryCaching, Subscriptions, TLC

CONSTANTS G, a1, a2, a3, b1, b2, b3

VARIABLE part   \* the service at work

TreeParent == [b \in Block |->
    ((G :> NoBlock) @@ (a1 :> G) @@ (a2 :> a1) @@ (a3 :> a2)
       @@ (b1 :> G) @@ (b2 :> b1) @@ (b3 :> b2))[b]]

TreeNumber == [b \in Block |->
    ((G :> 0) @@ (a1 :> 1) @@ (a2 :> 2) @@ (a3 :> 3)
       @@ (b1 :> 1) @@ (b2 :> 2) @@ (b3 :> 3))[b]]

TreeHash == [b \in Block |->
    ((G :> 10) @@ (a1 :> 11) @@ (a2 :> 12) @@ (a3 :> 13)
       @@ (b1 :> 15) @@ (b2 :> 9) @@ (b3 :> 8))[b]]

TreeOmmers == [b \in Block |-> IF b = a2 THEN {b1} ELSE IF b = b3 THEN {a2} ELSE {}]

ClientRequest(q, by, n) == [query |-> q, by |-> by, number |-> n]

MCClientRequests == {ClientRequest("q1", "latest", 0), ClientRequest("q1", "index", 0)}

FieldType(kind, type) == [kind |-> kind, type |-> type]

\* The operation also selects an interface, which is not listened to.
MCQueryOf == [o \in Operations |->
    {<<FieldType("entity", "a")>>, <<FieldType("entity", "a"), FieldType("interface", "b")>>}]

-----------------------------------------------------------------------------
(* Each behaviour is one of one service.  The others are in a state in which *)
(* they have nothing to do, so that their fairness asks for nothing.         *)

NetworkIdle ==
    /\ step = "Failed" /\ localHead = NoBlock /\ candidate = NoBlock
    /\ range = EmptyRange /\ fetched = <<>> /\ deployed = FALSE /\ stored = <<>>
    /\ follower = Unknown /\ closed = TRUE /\ nodeHead = G

AssignmentsIdle ==
    /\ table = [d \in Deployment |-> "none"]
    /\ unannounced = <<>> /\ stream = <<>> /\ phase = "running" /\ toStart = {}
    /\ running = {} /\ queue = <<>> /\ spawned = NoTasks /\ working = NoTasks /\ doomed = NoTasks
    /\ failed = {} /\ broken = {}

CachingIdle ==
    /\ chain = FirstChain /\ undone = [count |-> 0, current |-> 0, max |-> 0, blocks |-> {}]
    /\ client = [c \in Clients |->
          [step |-> "gone", request |-> ClientRequest("q1", "latest", 0),
           ptr |-> [hash |-> NoHash, number |-> 0], state |-> [count |-> 0, latest |-> 0],
           result |-> <<>>, shared |-> 0, hit |-> FALSE]]
    /\ work = [c \in Clients |-> NoWork]
    /\ herd = <<>> /\ blockCache = <<>> /\ lfuCache = <<>> /\ permits = QueryPermits

SubscriptionsIdle == SubscriptionsInit /\ dsynced

ServicesInit ==
    \/ /\ part = "network"
       /\ NetworkInit /\ AssignmentsIdle /\ CachingIdle /\ SubscriptionsIdle
    \/ /\ part = "node"
       /\ NetworkIdle /\ AssignmentsInit /\ CachingIdle /\ SubscriptionsIdle
    \/ /\ part = "caching"
       /\ NetworkIdle /\ AssignmentsIdle /\ CachingInit /\ SubscriptionsIdle
    \/ /\ part = "subscriptions"
       /\ NetworkIdle /\ AssignmentsIdle /\ CachingIdle /\ SubscriptionsInit

ServicesNext ==
    \/ /\ part = "network" /\ NetworkNext
       /\ UNCHANGED <<part, avars, cachingVars, subscriptionVars>>
    \/ /\ part = "node" /\ AssignmentsNext
       /\ UNCHANGED <<part, nvars, cachingVars, subscriptionVars>>
    \/ /\ part = "caching" /\ CachingNext
       /\ UNCHANGED <<part, nvars, avars, subscriptionVars>>
    \/ /\ part = "subscriptions" /\ SubscriptionsNext
       /\ UNCHANGED <<part, nvars, avars, cachingVars>>

ServicesSpec ==
    /\ ServicesInit
    /\ [][ServicesNext]_<<part, nvars, avars, cachingVars, subscriptionVars>>
    /\ NetworkFairness /\ AssignmentsFairness /\ CachingFairness /\ SubscriptionsFairness
=============================================================================
