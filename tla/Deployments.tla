----------------------------- MODULE Deployments -----------------------------
(***************************************************************************)
(* The subgraph of subgraphs: names, versions, deployments and assignments,*)
(* as the registrar (core/src/subgraph/registrar.rs) and the block streams *)
(* (update_subgraph_synced_status) change them.                            *)
(*                                                                         *)
(* Every operation first reads what it needs, in queries of their own, and *)
(* then applies its changes in one transaction that starts with            *)
(* AbortUnless checks.  A caller here is a request or a stream that is     *)
(* between its reads and its transaction; several run at the same time, on *)
(* this node and on others.                                                *)
(***************************************************************************)
EXTENDS Integers, FiniteSets

CONSTANTS
    Names,            \* subgraph names
    Hashes,           \* deployment ids (the IPFS hashes of manifests)
    Nodes,            \* indexing nodes
    NoNode, None,     \* no assignment; an empty currentVersion or pendingVersion
    Callers,          \* operations that may be in flight at the same time
    SwitchMode,       \* version_switching_mode: "instant" or "synced"
    MaxId             \* bound on the entity ids generated in a behaviour

ASSUME DeploymentsAssumption ==
    /\ SwitchMode \in {"instant", "synced"} /\ NoNode \notin Nodes
    /\ MaxId \in Nat /\ None \notin Nat

VARIABLES
    subgraphs,    \* Subgraph entities: [sid, name, current, pending]
    versions,     \* SubgraphVersion entities: [vid, sid, dep]
    deployed,     \* ids of the SubgraphDeployment entities
    synced,       \* those with the synced flag
    assigned,     \* SubgraphDeploymentAssignment: the node of each deployment
    call,         \* what each caller has read
    lastId,       \* the last generated id
    overlapped    \* ghost: whether an operation committed while another one
                  \* was between its reads and its transaction

dvars == <<subgraphs, versions, deployed, synced, assigned, call, lastId, overlapped>>

Idle == [op |-> "idle"]
Ids == 1 .. MaxId

DeploymentsInit ==
    /\ subgraphs = {} /\ versions = {} /\ deployed = {} /\ synced = {}
    /\ assigned = [h \in Hashes |-> NoNode]
    /\ call = [c \in Callers |-> Idle]
    /\ lastId = 0
    /\ overlapped = FALSE

----------------------------------------------------------------------------
(* Version summaries.                                                       *)

UsesVersion(s, vids) == s.current \in vids \/ s.pending \in vids

\* read_subgraph_version_summaries: the versions of these deployments, the
\* subgraphs that have one as current or pending, and the deployments that
\* these make worth indexing (should_have_assignment).
ReadSummaries(hashes) ==
    LET vs   == {v \in versions : v.dep \in hashes}
        vids == {v.vid : v \in vs}
        subs == {s \in subgraphs : UsesVersion(s, vids)}
    IN  [hashes |-> hashes, vids |-> vids, sids |-> {s.sid : s \in subs},
         current |-> {s.current : s \in subs} \cap vids,
         pending |-> {s.pending : s \in subs} \cap vids,
         dep |-> [v \in vids |-> (CHOOSE w \in vs : w.vid = v).dep]]

\* The AbortUnless operations that come with the summaries.
SummariesHold(r) ==
    LET now == ReadSummaries(r.hashes) IN now.vids = r.vids /\ now.sids = r.sids

\* should_have_assignment over a list of summaries.
ShouldHaveAssignment(current, pending, dep) == {dep[v] : v \in current \cup pending}

\* reconcile_assignments: what to remove and what to add.
Reconcile(before, after, node) ==
    [h \in Hashes |-> IF h \in before \ after THEN NoNode
                      ELSE IF h \in after \ before THEN node
                      ELSE assigned[h]]

Before(r) == ShouldHaveAssignment(r.current, r.pending, r.dep)

DepOf(vid) == {v.dep : v \in {w \in versions : w.vid = vid}}
Start(c, r) == call[c] = Idle /\ call' = [call EXCEPT ![c] = r] /\ UNCHANGED overlapped
Finish(c) == call' = [call EXCEPT ![c] = Idle]

\* The end of an operation whose transaction commits.
Commit(c) ==
    /\ Finish(c)
    /\ overlapped' = (overlapped \/ \E d \in Callers \ {c} : call[d] # Idle)

----------------------------------------------------------------------------
(* The registrar.                                                           *)

\* create_subgraph: the name must be free when it is read and still be free
\* in the transaction.  The two coincide here: a refused call changes nothing.
CreateSubgraph(name) ==
    /\ \A s \in subgraphs : s.name # name
    /\ lastId < MaxId /\ lastId' = lastId + 1
    /\ subgraphs' = subgraphs \cup
          {[sid |-> lastId', name |-> name, current |-> None, pending |-> None]}
    /\ UNCHANGED <<versions, deployed, synced, assigned, call, overlapped>>

\* get_version_ids_and_summaries, first the Subgraph entity, the deployments of
\* its current and pending versions, and whether the current one is synced.
ReadSubgraph(c, name, h) ==
    \E s \in subgraphs :
      /\ s.name = name
      /\ Start(c, [op |-> "create", stage |-> 1, h |-> h, s |-> s,
                   currentSynced |-> DepOf(s.current) \cap synced # {},
                   hashes |-> {h} \cup DepOf(s.current) \cup DepOf(s.pending)])
      /\ UNCHANGED <<subgraphs, versions, deployed, synced, assigned, lastId>>

\* ... then the summaries, and whether the deployment exists already.
ReadVersions(c) ==
    /\ call[c].op = "create" /\ call[c].stage = 1
    /\ call' = [call EXCEPT ![c] =
          [op |-> "create", stage |-> 2, h |-> call[c].h, s |-> call[c].s,
           currentSynced |-> call[c].currentSynced,
           read |-> ReadSummaries(call[c].hashes), exists |-> call[c].h \in deployed]]
    /\ UNCHANGED <<subgraphs, versions, deployed, synced, assigned, lastId, overlapped>>

\* Whether the new version only becomes pending: there is a synced current one.
BecomesPending(k) == SwitchMode = "synced" /\ k.currentSynced

\* Faulty variant: the pending version that the new one replaces is kept.
AfterKeepsPending(k) ==
    LET r == k.read
    IN  ShouldHaveAssignment(r.current \ (IF BecomesPending(k) THEN {} ELSE {k.s.current}),
                             r.pending, r.dep) \cup {k.h}

\* version_summaries_after: the old pending version is dropped, the old current
\* one too unless it stays, and the new version is pending or current.
AfterNewVersion(k) ==
    LET r == k.read
    IN  ShouldHaveAssignment(r.current \ (IF BecomesPending(k) THEN {} ELSE {k.s.current}),
                             r.pending \ {k.s.pending}, r.dep) \cup {k.h}

\* The AbortUnless operations of create_subgraph_version, without the summaries'.
VersionsStillTheSame(k) ==
    {s.sid : s \in {t \in subgraphs : t.name = k.s.name /\ t.current = k.s.current
                                       /\ t.pending = k.s.pending}} = {k.s.sid}

\* The transaction of create_subgraph_version: the new version, the assignments,
\* the version pointers and, if it is new, the deployment.
ApplyVersion(c, node) ==
    LET k == call[c] IN
    /\ k.op = "create" /\ k.stage = 2 /\ lastId < MaxId
    /\ VersionsStillTheSame(k) /\ SummariesHold(k.read)
    /\ k.exists <=> (k.h \in deployed)
    /\ lastId' = lastId + 1
    /\ versions' = versions \cup {[vid |-> lastId', sid |-> k.s.sid, dep |-> k.h]}
    /\ assigned' = Reconcile(Before(k.read), AfterNewVersion(k), node)
    /\ subgraphs' = {IF s.sid # k.s.sid THEN s
                     ELSE IF BecomesPending(k) THEN [s EXCEPT !.pending = lastId']
                     ELSE [s EXCEPT !.pending = None, !.current = lastId'] : s \in subgraphs}
    /\ deployed' = deployed \cup {k.h}
    /\ Commit(c)
    /\ UNCHANGED synced

\* remove_subgraph and remove_subgraph_versions, the reads.
ReadForRemoval(c, name) ==
    \E s \in subgraphs :
      /\ s.name = name
      /\ LET vs == {v \in versions : v.sid = s.sid}
         IN  Start(c, [op |-> "remove", s |-> s, vids |-> {v.vid : v \in vs},
                       read |-> ReadSummaries({v.dep : v \in vs})])
      /\ UNCHANGED <<subgraphs, versions, deployed, synced, assigned, lastId>>

RemovalStillTheSame(k) ==
    /\ {s.sid : s \in {t \in subgraphs : t.name = k.s.name}} = {k.s.sid}
    /\ {v.vid : v \in {w \in versions : w.sid = k.s.sid}} = k.vids

ApplyRemoval(c) ==
    LET k == call[c]
        after == ShouldHaveAssignment(k.read.current \ k.vids, k.read.pending \ k.vids, k.read.dep)
    IN
    /\ k.op = "remove"
    /\ RemovalStillTheSame(k) /\ SummariesHold(k.read)
    /\ assigned' = Reconcile(Before(k.read), after, NoNode)
    /\ versions' = {v \in versions : v.vid \notin k.vids}
    /\ subgraphs' = {s \in subgraphs : s.sid # k.s.sid}
    /\ Commit(c)
    /\ UNCHANGED <<deployed, synced, lastId>>

\* reassign_subgraph: the assignment must exist and must not change meanwhile.
ReadAssignment(c, h, node) ==
    /\ assigned[h] \notin {NoNode, node}
    /\ Start(c, [op |-> "reassign", h |-> h, from |-> assigned[h], to |-> node])
    /\ UNCHANGED <<subgraphs, versions, deployed, synced, assigned, lastId>>

AssignmentUnchanged(k) == assigned[k.h] = k.from

ApplyReassign(c) ==
    LET k == call[c] IN
    /\ k.op = "reassign" /\ AssignmentUnchanged(k)
    /\ assigned' = [assigned EXCEPT ![k.h] = k.to]
    /\ Commit(c)
    /\ UNCHANGED <<subgraphs, versions, deployed, synced, lastId>>

----------------------------------------------------------------------------
(* update_subgraph_synced_status of the block stream of a deployment.       *)

\* The stream is at the chain head: read the versions of the deployment, the
\* subgraphs that have one pending, and what demoting their current versions
\* affects.
ReadSynced(c, h) ==
    LET vids == {v.vid : v \in {w \in versions : w.dep = h}}
        subs == {s \in subgraphs : s.pending \in vids}
        curs == {s.current : s \in subs} \ {None}
    IN
    /\ assigned[h] # NoNode
    /\ Start(c, [op |-> "sync", h |-> h, vids |-> vids, subs |-> subs, demoted |-> curs,
                 read |-> ReadSummaries({v.dep : v \in {w \in versions : w.vid \in curs}})])
    /\ UNCHANGED <<subgraphs, versions, deployed, synced, assigned, lastId>>

PromotionStillTheSame(k) ==
    /\ {v.vid : v \in {w \in versions : w.dep = k.h}} = k.vids
    /\ {s.sid : s \in {t \in subgraphs : t.pending \in k.vids}} = {s.sid : s \in k.subs}

\* The transaction: the synced flag, the assignments no longer needed, and the
\* pending versions become current.
ApplySynced(c) ==
    LET k == call[c]
        after == ShouldHaveAssignment(k.read.current \ k.demoted, k.read.pending, k.read.dep)
    IN
    /\ k.op = "sync" /\ k.h \in deployed
    /\ PromotionStillTheSame(k) /\ SummariesHold(k.read)
    /\ synced' = synced \cup {k.h}
    /\ assigned' = Reconcile(Before(k.read), after, NoNode)
    /\ subgraphs' = {IF \E t \in k.subs : t.sid = s.sid
                     THEN [s EXCEPT !.pending = None,
                                    !.current = (CHOOSE t \in k.subs : t.sid = s.sid).pending]
                     ELSE s : s \in subgraphs}
    /\ Commit(c)
    /\ UNCHANGED <<versions, deployed, lastId>>

\* A failed read, a failed check or a database error ends the operation: its
\* transaction is rolled back and the caller gets the error.
Aborts(c) ==
    /\ call[c] # Idle /\ Finish(c)
    /\ UNCHANGED <<subgraphs, versions, deployed, synced, assigned, lastId, overlapped>>

DeploymentsNext ==
    \/ \E name \in Names : CreateSubgraph(name)
    \/ \E c \in Callers :
         \/ \E name \in Names, h \in Hashes : ReadSubgraph(c, name, h)
         \/ ReadVersions(c)
         \/ \E node \in Nodes : ApplyVersion(c, node)
         \/ \E name \in Names : ReadForRemoval(c, name)
         \/ ApplyRemoval(c)
         \/ \E h \in Hashes, node \in Nodes : ReadAssignment(c, h, node)
         \/ ApplyReassign(c)
         \/ \E h \in Hashes : ReadSynced(c, h)
         \/ ApplySynced(c)
         \/ Aborts(c)

DeploymentsSpec == DeploymentsInit /\ [][DeploymentsNext]_dvars

----------------------------------------------------------------------------
(* Properties.                                                              *)

\* The entities of the registrar have their types, only what is deployed is
\* synced, and an assignment names a node.
DeploymentsTypeOK ==
    /\ \A s \in subgraphs : /\ s.sid \in Ids /\ s.name \in Names
                            /\ s.current \in Ids \cup {None} /\ s.pending \in Ids \cup {None}
    /\ \A v \in versions : v.vid \in Ids /\ v.sid \in Ids /\ v.dep \in Hashes
    /\ synced \subseteq deployed /\ deployed \subseteq Hashes
    /\ assigned \in [Hashes -> Nodes \cup {NoNode}]
    /\ lastId \in 0 .. MaxId /\ overlapped \in BOOLEAN

\* However the operations overlap, a name has at most one Subgraph entity, and
\* its current and pending versions exist, belong to it and are deployed: the
\* assert_eq! in read_subgraph_version_summaries and the unwraps of the registrar
\* never fail.
VersionsOfSubgraphsExist ==
    /\ \A s, t \in subgraphs : s.name = t.name => s = t
    /\ \A s \in subgraphs : \A x \in {s.current, s.pending} \ {None} :
          \E v \in versions : v.vid = x /\ v.sid = s.sid /\ v.dep \in deployed
    /\ \A v \in versions : \E s \in subgraphs : s.sid = v.sid

\* In the synced mode a version waits as pending only while queries are served by
\* a current version that is synced; "the new version becomes the pending version
\* if the current version is synced".
PendingBehindSynced ==
    \A s \in subgraphs : s.pending # None =>
        SwitchMode = "synced" /\ s.current # None /\ DepOf(s.current) \subseteq synced

\* Deployments that are some subgraph's current or pending version.
Used == {v.dep : v \in {w \in versions : \E s \in subgraphs : UsesVersion(s, {w.vid})}}

\* No node is left indexing a deployment that no subgraph uses any more.
AssignedAreUsed == \A h \in Hashes : assigned[h] # NoNode => h \in Used

\* The comment on read_subgraph_version_summaries says of the AbortUnless checks
\* that they "will abort the transaction if the version summaries are out of
\* date": then every deployment that is in use stays assigned to a node.
UsedAreAssigned == \A h \in Used : assigned[h] # NoNode

\* Every operation leaves exactly the deployments in use assigned, as long as no
\* operation commits between the reads and the transaction of another one.  (The
\* AbortUnless checks compare the sets of versions and of subgraphs, not which
\* version a subgraph has where, so neither half holds when they overlap.)
AssignmentsExact == overlapped \/ (AssignedAreUsed /\ UsedAreAssigned)

\* The metadata of subgraphs, versions and assignments fit together although
\* every registrar operation reads and writes in different transactions: the
\* versions that a subgraph refers to exist, a version only waits behind a synced
\* one, and what is assigned is what is in use unless operations overlapped.
RegistryConsistent ==
    /\ DeploymentsTypeOK /\ VersionsOfSubgraphsExist
    /\ PendingBehindSynced /\ AssignmentsExact
============================================================================
