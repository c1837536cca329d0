------------------------- MODULE DeploymentsProofs -------------------------
(***************************************************************************)
(* Proofs about Deployments: RegistryConsistent for any number of names,   *)
(* deployments, nodes, callers and ids, and in both switching modes.       *)
(*                                                                         *)
(* The inductive invariant has three parts.  IdsOK: the entities have      *)
(* their types, and an id generated later is greater than every id that is *)
(* stored or was read.  CallOK: what a caller has read is old, but the part*)
(* of it that its transaction relies on cannot become false, because ids   *)
(* are never reused, a version never changes its subgraph or deployment,   *)
(* and a deployment stays synced.  Serial: until operations overlap, what a*)
(* caller has read is what it would read now.                              *)
(*                                                                         *)
(* The last part is about TriggerFilters: the requests for logs divide the *)
(* pairs of contract and event that the data sources want.                 *)
(***************************************************************************)
EXTENDS Deployments, TriggerFilters, FiniteSetTheorems, SequenceTheorems, TLAPS

SubgraphEntity ==
    [sid : 1 .. lastId, name : Names,
     current : (1 .. lastId) \cup {None}, pending : (1 .. lastId) \cup {None}]

VersionEntity == [vid : 1 .. lastId, sid : 1 .. lastId, dep : Hashes]

IdsOK ==
    /\ lastId \in 0 .. MaxId /\ overlapped \in BOOLEAN
    /\ subgraphs \subseteq SubgraphEntity /\ versions \subseteq VersionEntity
    /\ synced \subseteq deployed /\ deployed \subseteq Hashes
    /\ assigned \in [Hashes -> Nodes \cup {NoNode}]
    /\ DOMAIN call = Callers
    /\ \A s, t \in subgraphs : s.sid = t.sid => s = t
    /\ \A v, w \in versions : v.vid = w.vid => v = w

CallOK(k) ==
    /\ k.op = "create" =>
          /\ k.h \in Hashes /\ k.s \in SubgraphEntity
          /\ k.currentSynced => k.s.current # None /\ DepOf(k.s.current) \subseteq synced
    /\ k.op = "reassign" => k.h \in Hashes /\ k.to \in Nodes /\ k.from # NoNode
    /\ k.op = "sync" =>
          /\ k.h \in Hashes
          /\ \A t \in k.subs :
                /\ t \in SubgraphEntity /\ t.pending \in k.vids /\ t.pending \in 1 .. lastId
                /\ \A v \in versions : v.vid = t.pending => v.sid = t.sid

\* The summaries r are those of the present versions of the deployments.
Right(r) ==
    /\ \A x \in r.current : \E v \in versions : v.vid = x /\ v.dep \in r.hashes
    /\ \A x \in r.pending : \E v \in versions : v.vid = x /\ v.dep \in r.hashes
    /\ \A v \in versions : v.dep \in r.hashes =>
          /\ v.vid \in r.current <=> \E s \in subgraphs : s.current = v.vid
          /\ v.vid \in r.pending <=> \E s \in subgraphs : s.pending = v.vid
          /\ r.dep[v.vid] = v.dep

\* The deployments cover what a new version of k.s displaces.
Covers(hashes, k) ==
    k.h \in hashes /\ \A v \in versions : v.vid \in {k.s.current, k.s.pending} => v.dep \in hashes

\* What a caller has read is what it would read now.
Fresh(k) ==
    /\ k.op = "create" =>
          /\ k.s \in subgraphs
          /\ k.stage = 1 => Covers(k.hashes, k)
          /\ k.stage = 2 => Covers(k.read.hashes, k) /\ Right(k.read)
    /\ k.op = "remove" =>
          /\ \A v \in versions : v.sid = k.s.sid => v.dep \in k.read.hashes
          /\ Right(k.read)
    /\ k.op = "sync" =>
          /\ k.subs \subseteq subgraphs
          /\ k.demoted = {s.current : s \in k.subs} \ {None}
          /\ \A v \in versions : v.vid \in k.demoted => v.dep \in k.read.hashes
          /\ Right(k.read)

Exact == \A h \in Hashes : assigned[h] # NoNode <=> h \in Used

Serial == overlapped \/ (Exact /\ \A c \in Callers : Fresh(call[c]))

RegistryInv ==
    /\ IdsOK /\ VersionsOfSubgraphsExist /\ PendingBehindSynced
    /\ \A c \in Callers : CallOK(call[c])
    /\ Serial

----------------------------------------------------------------------------
(* Facts about the entities.                                                *)

\* A version belongs to one subgraph: what a subgraph has as current or pending
\* version, no other one has.
LEMMA OwnVersions ==
    ASSUME IdsOK, VersionsOfSubgraphsExist,
           NEW s \in subgraphs, NEW t \in subgraphs,
           NEW x \in {s.current, s.pending} \cap {t.current, t.pending}, x # None
    PROVE  s = t
<1>1. PICK v \in versions : v.vid = x /\ v.sid = s.sid
  BY DEF VersionsOfSubgraphsExist
<1>2. PICK w \in versions : w.vid = x /\ w.sid = t.sid
  BY DEF VersionsOfSubgraphsExist
<1>. QED  BY <1>1, <1>2 DEF IdsOK

\* VersionsStillTheSame finds the entity that was read.
LEMMA EntityStillThere ==
    ASSUME IdsOK, NEW k, k.s \in SubgraphEntity, VersionsStillTheSame(k)
    PROVE  k.s \in subgraphs
<1>1. PICK t \in subgraphs : /\ t.sid = k.s.sid /\ t.name = k.s.name
                             /\ t.current = k.s.current /\ t.pending = k.s.pending
  BY DEF VersionsStillTheSame
<1>2. t = k.s
  BY <1>1 DEF IdsOK, SubgraphEntity
<1>. QED  BY <1>2

\* RemovalStillTheSame: the versions to remove are those of the subgraph.
LEMMA RemovedVersions ==
    ASSUME IdsOK, NEW k, RemovalStillTheSame(k)
    PROVE  \A v \in versions : v.vid \in k.vids <=> v.sid = k.s.sid
  BY DEF RemovalStillTheSame, IdsOK

\* What read_subgraph_version_summaries returns is right when it is read.
LEMMA SummariesRight ==
    ASSUME IdsOK, NEW hashes
    PROVE  Right(ReadSummaries(hashes)) /\ ReadSummaries(hashes).hashes = hashes
<1>. DEFINE vs == {v \in versions : v.dep \in hashes}
            vids == {v.vid : v \in vs}
            subs == {s \in subgraphs : UsesVersion(s, vids)}
            r == ReadSummaries(hashes)
<1>1. /\ r.hashes = hashes
      /\ r.current = {s.current : s \in subs} \cap vids
      /\ r.pending = {s.pending : s \in subs} \cap vids
      /\ r.dep = [v \in vids |-> (CHOOSE w \in vs : w.vid = v).dep]
  BY DEF ReadSummaries
<1>2. ASSUME NEW x \in vids
      PROVE  \E v \in versions : v.vid = x /\ v.dep \in hashes
  OBVIOUS
<1>3. ASSUME NEW v \in versions, v.dep \in hashes
      PROVE  /\ v.vid \in r.current <=> \E s \in subgraphs : s.current = v.vid
             /\ v.vid \in r.pending <=> \E s \in subgraphs : s.pending = v.vid
             /\ r.dep[v.vid] = v.dep
  <2>1. v \in vs /\ v.vid \in vids
    BY <1>3
  <2>2. v.vid \in r.current <=> \E s \in subgraphs : s.current = v.vid
    BY <1>1, <2>1 DEF UsesVersion
  <2>3. v.vid \in r.pending <=> \E s \in subgraphs : s.pending = v.vid
    BY <1>1, <2>1 DEF UsesVersion
  <2>4. (CHOOSE w \in vs : w.vid = v.vid) = v
    <3>1. \A w \in vs : w.vid = v.vid => w = v
      BY DEF IdsOK
    <3>. QED  BY <2>1, <3>1
  <2>5. r.dep[v.vid] = v.dep
    BY <1>1, <2>1, <2>4, ZenonT(30)
  <2>. QED  BY <2>2, <2>3, <2>5
<1>. HIDE DEF vids, r
<1>4. Right(r)
  BY <1>1, <1>2, <1>3 DEF Right
<1>. QED  BY <1>1, <1>4 DEF r

----------------------------------------------------------------------------
(* Steps that change no entity.                                             *)

entities == <<subgraphs, versions, deployed, synced, assigned, lastId>>

\* Every read of an operation, and its failure, only changes what the caller
\* knows, and what it then knows is right.
LEMMA ReadsRight ==
    ASSUME RegistryInv, NEW c \in Callers,
           \/ \E name \in Names, h \in Hashes : ReadSubgraph(c, name, h)
           \/ ReadVersions(c)
           \/ \E name \in Names : ReadForRemoval(c, name)
           \/ \E h \in Hashes, node \in Nodes : ReadAssignment(c, h, node)
           \/ \E h \in Hashes : ReadSynced(c, h)
           \/ Aborts(c)
    PROVE  /\ UNCHANGED <<entities, overlapped>>
           /\ \E k : /\ call' = [call EXCEPT ![c] = k]
                     /\ CallOK(k) /\ (overlapped \/ Fresh(k))
<1>. USE DEF entities
<1>. IdsOK /\ CallOK(call[c]) /\ (overlapped \/ Fresh(call[c]))
  BY DEF RegistryInv, Serial
<1>1. ASSUME NEW name \in Names, NEW h \in Hashes, ReadSubgraph(c, name, h)
      PROVE  /\ UNCHANGED <<entities, overlapped>>
             /\ \E k : /\ call' = [call EXCEPT ![c] = k]
                       /\ CallOK(k) /\ (overlapped \/ Fresh(k))
  <2>1. PICK s \in subgraphs :
           call' = [call EXCEPT ![c] =
              [op |-> "create", stage |-> 1, h |-> h, s |-> s,
               currentSynced |-> DepOf(s.current) \cap synced # {},
               hashes |-> {h} \cup DepOf(s.current) \cup DepOf(s.pending)]]
    BY <1>1 DEF ReadSubgraph, Start
  <2>. DEFINE k == [op |-> "create", stage |-> 1, h |-> h, s |-> s,
                    currentSynced |-> DepOf(s.current) \cap synced # {},
                    hashes |-> {h} \cup DepOf(s.current) \cup DepOf(s.pending)]
  <2>2. s \in SubgraphEntity
    BY DEF IdsOK
  <2>3. DepOf(s.current) \cap synced # {} => s.current # None /\ DepOf(s.current) \subseteq synced
    BY DeploymentsAssumption DEF DepOf, IdsOK, VersionEntity
  <2>4. CallOK(k)
    BY <2>2, <2>3 DEF CallOK
  <2>5. Covers(k.hashes, k)
    BY DEF Covers, DepOf
  <2>6. Fresh(k)
    BY <2>5 DEF Fresh
  <2>. QED  BY <1>1, <2>1, <2>4, <2>6 DEF ReadSubgraph, Start
<1>2. ASSUME ReadVersions(c)
      PROVE  /\ UNCHANGED <<entities, overlapped>>
             /\ \E k : /\ call' = [call EXCEPT ![c] = k]
                       /\ CallOK(k) /\ (overlapped \/ Fresh(k))
  <2>. DEFINE k == [op |-> "create", stage |-> 2, h |-> call[c].h, s |-> call[c].s,
                    currentSynced |-> call[c].currentSynced,
                    read |-> ReadSummaries(call[c].hashes), exists |-> call[c].h \in deployed]
  <2>1. call' = [call EXCEPT ![c] = k] /\ UNCHANGED <<entities, overlapped>>
    BY <1>2 DEF ReadVersions
  <2>2. CallOK(k)
    BY <1>2 DEF CallOK, ReadVersions
  <2>3. Right(k.read) /\ k.read.hashes = call[c].hashes
    BY SummariesRight
  <2>4. ASSUME ~overlapped
        PROVE  Fresh(k)
    <3>1. call[c].s \in subgraphs /\ Covers(call[c].hashes, call[c])
      BY <1>2, <2>4 DEF Fresh, ReadVersions
    <3>2. k.s \in subgraphs /\ Covers(k.read.hashes, k)
      BY <3>1, <2>3 DEF Covers
    <3>3. k.op = "create" /\ k.stage = 2
      OBVIOUS
    <3>. HIDE DEF k
    <3>. QED  BY <2>3, <3>2, <3>3 DEF Fresh
  <2>. QED  BY <2>1, <2>2, <2>4
<1>3. ASSUME NEW name \in Names, ReadForRemoval(c, name)
      PROVE  /\ UNCHANGED <<entities, overlapped>>
             /\ \E k : /\ call' = [call EXCEPT ![c] = k]
                       /\ CallOK(k) /\ (overlapped \/ Fresh(k))
  <2>1. PICK s \in subgraphs :
           call' = [call EXCEPT ![c] =
              [op |-> "remove", s |-> s, vids |-> {v.vid : v \in {w \in versions : w.sid = s.sid}},
               read |-> ReadSummaries({v.dep : v \in {w \in versions : w.sid = s.sid}})]]
    BY <1>3 DEF ReadForRemoval, Start
  <2>. DEFINE hs == {v.dep : v \in {w \in versions : w.sid = s.sid}}
              k == [op |-> "remove", s |-> s,
                    vids |-> {v.vid : v \in {w \in versions : w.sid = s.sid}},
                    read |-> ReadSummaries(hs)]
  <2>2. CallOK(k)
    BY DEF CallOK
  <2>3. Right(k.read) /\ k.read.hashes = hs
    BY SummariesRight
  <2>4. \A v \in versions : v.sid = k.s.sid => v.dep \in k.read.hashes
    BY <2>3
  <2>5. k.op = "remove"
    OBVIOUS
  <2>6. Fresh(k)
    <3>. HIDE DEF k
    <3>. QED  BY <2>3, <2>4, <2>5 DEF Fresh
  <2>. QED  BY <1>3, <2>1, <2>2, <2>6 DEF ReadForRemoval, Start
<1>4. ASSUME NEW h \in Hashes, NEW node \in Nodes, ReadAssignment(c, h, node)
      PROVE  /\ UNCHANGED <<entities, overlapped>>
             /\ \E k : /\ call' = [call EXCEPT ![c] = k]
                       /\ CallOK(k) /\ (overlapped \/ Fresh(k))
  <2>. DEFINE k == [op |-> "reassign", h |-> h, from |-> assigned[h], to |-> node]
  <2>1. /\ call' = [call EXCEPT ![c] = k] /\ UNCHANGED <<entities, overlapped>>
        /\ assigned[h] # NoNode
    BY <1>4 DEF ReadAssignment, Start
  <2>2. CallOK(k)
    BY <2>1 DEF CallOK
  <2>3. Fresh(k)
    BY DEF Fresh
  <2>. QED  BY <2>1, <2>2, <2>3
<1>5. ASSUME NEW h \in Hashes, ReadSynced(c, h)
      PROVE  /\ UNCHANGED <<entities, overlapped>>
             /\ \E k : /\ call' = [call EXCEPT ![c] = k]
                       /\ CallOK(k) /\ (overlapped \/ Fresh(k))
  <2>. DEFINE vids == {v.vid : v \in {w \in versions : w.dep = h}}
              subs == {s \in subgraphs : s.pending \in vids}
              curs == {s.current : s \in subs} \ {None}
              hs == {v.dep : v \in {w \in versions : w.vid \in curs}}
              k == [op |-> "sync", h |-> h, vids |-> vids, subs |-> subs, demoted |-> curs,
                    read |-> ReadSummaries(hs)]
  <2>1. call' = [call EXCEPT ![c] = k] /\ UNCHANGED <<entities, overlapped>>
    BY <1>5 DEF ReadSynced, Start
  <2>2. ASSUME NEW t \in subs
        PROVE  /\ t \in SubgraphEntity /\ t.pending \in vids /\ t.pending \in 1 .. lastId
               /\ \A v \in versions : v.vid = t.pending => v.sid = t.sid
    <3>1. t \in SubgraphEntity /\ t.pending \in vids /\ t.pending \in 1 .. lastId
      BY DEF IdsOK, VersionEntity
    <3>2. t.pending # None
      BY <3>1, DeploymentsAssumption
    <3>3. PICK v \in versions : v.vid = t.pending /\ v.sid = t.sid
      BY <3>2 DEF RegistryInv, VersionsOfSubgraphsExist
    <3>. QED  BY <3>1, <3>3 DEF IdsOK
  <2>3. CallOK(k)
    BY <2>2 DEF CallOK
  <2>4. Right(k.read) /\ k.read.hashes = hs
    BY SummariesRight
  <2>5. /\ k.subs \subseteq subgraphs /\ k.demoted = {s.current : s \in k.subs} \ {None}
        /\ k.op = "sync"
        /\ \A v \in versions : v.vid \in k.demoted => v.dep \in k.read.hashes
    BY <2>4
  <2>6. Fresh(k)
    <3>. HIDE DEF k
    <3>. QED  BY <2>4, <2>5 DEF Fresh
  <2>. QED  BY <2>1, <2>3, <2>6
<1>6. ASSUME Aborts(c)
      PROVE  /\ UNCHANGED <<entities, overlapped>>
             /\ \E k : /\ call' = [call EXCEPT ![c] = k]
                       /\ CallOK(k) /\ (overlapped \/ Fresh(k))
  <2>1. CallOK(Idle) /\ Fresh(Idle)
    BY DEF Idle, CallOK, Fresh
  <2>. QED  BY <1>6, <2>1 DEF Aborts, Finish
<1>. QED  BY <1>1, <1>2, <1>3, <1>4, <1>5, <1>6

\* Such a step keeps the invariant.
LEMMA ReadStep ==
    ASSUME RegistryInv, NEW c \in Callers, NEW k,
           UNCHANGED <<entities, overlapped>>, call' = [call EXCEPT ![c] = k],
           CallOK(k), overlapped \/ Fresh(k)
    PROVE  RegistryInv'
<1>. USE DEF entities
<1>1. IdsOK' /\ VersionsOfSubgraphsExist' /\ PendingBehindSynced'
  BY DEF RegistryInv, IdsOK, SubgraphEntity, VersionEntity, VersionsOfSubgraphsExist,
         PendingBehindSynced, DepOf
<1>2. ASSUME NEW d \in Callers
      PROVE  CallOK(call'[d]) /\ (overlapped \/ Fresh(call'[d]))
  BY DEF RegistryInv, IdsOK, Serial
<1>3. ASSUME NEW d \in Callers
      PROVE  CallOK(call[d])'
  BY <1>2 DEF CallOK, SubgraphEntity, DepOf
<1>4. Serial'
  <2>1. overlapped \/ Exact'
    BY DEF RegistryInv, Serial, Exact, Used, UsesVersion
  <2>2. ASSUME NEW d \in Callers, ~overlapped
        PROVE  Fresh(call[d])'
    <3>. DEFINE j == call'[d]
    <3>1. Fresh(j)
      BY <1>2, <2>2
    <3>2. CASE j.op = "create"
      BY <3>1, <3>2 DEF Fresh, Covers, Right
    <3>3. CASE j.op = "remove"
      BY <3>1, <3>3 DEF Fresh, Right
    <3>4. CASE j.op = "sync"
      BY <3>1, <3>4 DEF Fresh, Right
    <3>. QED  BY <3>2, <3>3, <3>4 DEF Fresh
  <2>. QED  BY <2>1, <2>2 DEF Serial
<1>. QED  BY <1>1, <1>3, <1>4 DEF RegistryInv

----------------------------------------------------------------------------
(* Transactions.                                                            *)

\* What callers rely on stays true while versions are added with new ids or
\* removed, and deployments get synced.
LEMMA CallsKept ==
    ASSUME RegistryInv, lastId' \in Nat, lastId' >= lastId, synced \subseteq synced',
           \A v \in versions' : v \in versions \/ v.vid = lastId + 1,
           \A d \in Callers : call'[d] = call[d] \/ call'[d] = Idle
    PROVE  \A d \in Callers : CallOK(call[d])'
<1>. SUFFICES ASSUME NEW d \in Callers
              PROVE  CallOK(call[d])'
  OBVIOUS
<1>. DEFINE k == call'[d]
<1>1. CASE call'[d] = Idle
  BY <1>1 DEF Idle, CallOK
<1>2. CASE call'[d] = call[d]
  <2>. CallOK(k) /\ lastId \in Nat
    BY <1>2 DEF RegistryInv, IdsOK
  <2>1. \A s \in SubgraphEntity : s \in SubgraphEntity'
    BY DEF SubgraphEntity
  <2>2. CASE k.op = "create"
    <3>1. k.h \in Hashes /\ k.s \in SubgraphEntity'
      BY <2>1, <2>2 DEF CallOK
    <3>2. ASSUME k.currentSynced
          PROVE  /\ k.s.current # None
                 /\ {v.dep : v \in {w \in versions' : w.vid = k.s.current}} \subseteq synced'
      <4>1. /\ k.s.current # None /\ k.s.current \in 1 .. lastId
            /\ \A v \in versions : v.vid = k.s.current => v.dep \in synced
        BY <2>2, <3>2 DEF CallOK, SubgraphEntity, DepOf
      <4>. QED  BY <4>1
    <3>. QED  BY <2>2, <3>1, <3>2 DEF CallOK, DepOf
  <2>3. CASE k.op = "reassign"
    BY <2>3 DEF CallOK
  <2>4. CASE k.op = "sync"
    <3>1. ASSUME NEW t \in k.subs
          PROVE  /\ t \in SubgraphEntity' /\ t.pending \in k.vids /\ t.pending \in 1 .. lastId'
                 /\ \A v \in versions' : v.vid = t.pending => v.sid = t.sid
      BY <2>1, <2>4 DEF CallOK
    <3>. QED  BY <2>4, <3>1 DEF CallOK
  <2>. QED  BY <2>2, <2>3, <2>4 DEF CallOK
<1>. QED  BY <1>1, <1>2

\* create_subgraph adds an entity without versions.
LEMMA CreateStep ==
    ASSUME RegistryInv, NEW name \in Names, CreateSubgraph(name)
    PROVE  RegistryInv'
<1>. DEFINE new == [sid |-> lastId + 1, name |-> name, current |-> None, pending |-> None]
<1>0. /\ subgraphs' = subgraphs \cup {new} /\ lastId' = lastId + 1 /\ lastId < MaxId
      /\ UNCHANGED <<versions, deployed, synced, assigned, call, overlapped>>
      /\ \A s \in subgraphs : s.name # name
  BY DEF CreateSubgraph
<1>. IdsOK /\ lastId \in Nat /\ MaxId \in Nat
  BY DeploymentsAssumption DEF RegistryInv, IdsOK
<1>1. IdsOK'
  <2>1. new \in SubgraphEntity'
    BY <1>0 DEF SubgraphEntity
  <2>2. SubgraphEntity \subseteq SubgraphEntity' /\ VersionEntity \subseteq VersionEntity'
    BY <1>0 DEF SubgraphEntity, VersionEntity
  <2>3. \A s \in subgraphs : s.sid # new.sid
    BY DEF IdsOK, SubgraphEntity
  <2>4. \A s, t \in subgraphs' : s.sid = t.sid => s = t
    BY <1>0, <2>3 DEF IdsOK
  <2>. QED  BY <1>0, <2>1, <2>2, <2>4 DEF IdsOK
<1>2. VersionsOfSubgraphsExist'
  <2>1. \A s, t \in subgraphs' : s.name = t.name => s = t
    BY <1>0 DEF RegistryInv, VersionsOfSubgraphsExist
  <2>2. ASSUME NEW s \in subgraphs', NEW x \in {s.current, s.pending} \ {None}
        PROVE  \E v \in versions : v.vid = x /\ v.sid = s.sid /\ v.dep \in deployed
    BY <1>0 DEF RegistryInv, VersionsOfSubgraphsExist
  <2>3. \A v \in versions : \E s \in subgraphs' : s.sid = v.sid
    BY <1>0 DEF RegistryInv, VersionsOfSubgraphsExist
  <2>. QED  BY <1>0, <2>1, <2>2, <2>3 DEF VersionsOfSubgraphsExist
<1>3. PendingBehindSynced'
  BY <1>0 DEF RegistryInv, PendingBehindSynced, DepOf
<1>4. \A d \in Callers : CallOK(call[d])'
  BY <1>0, CallsKept
<1>5. \A v \in versions : v.vid # None
  BY DeploymentsAssumption DEF IdsOK, VersionEntity
<1>6. Serial'
  <2>1. ASSUME ~overlapped
        PROVE  Exact'
    <3>1. ASSUME NEW h \in Hashes
          PROVE  h \in Used <=> h \in Used'
      BY <1>0, <1>5 DEF Used, UsesVersion
    <3>. QED  BY <1>0, <2>1, <3>1 DEF RegistryInv, Serial, Exact
  <2>2. ASSUME ~overlapped, NEW d \in Callers
        PROVE  Fresh(call[d])'
    <3>. DEFINE j == call[d]
    <3>1. Fresh(j)
      BY <2>2 DEF RegistryInv, Serial
    <3>2. ASSUME NEW r, Right(r)
          PROVE  /\ \A x \in r.current : \E v \in versions' : v.vid = x /\ v.dep \in r.hashes
                 /\ \A x \in r.pending : \E v \in versions' : v.vid = x /\ v.dep \in r.hashes
                 /\ \A v \in versions' : v.dep \in r.hashes =>
                       /\ v.vid \in r.current <=> \E s \in subgraphs' : s.current = v.vid
                       /\ v.vid \in r.pending <=> \E s \in subgraphs' : s.pending = v.vid
                       /\ r.dep[v.vid] = v.dep
      BY <1>0, <1>5, <3>2 DEF Right
    <3>3. CASE j.op = "create"
      BY <1>0, <3>1, <3>2, <3>3 DEF Fresh, Covers, Right
    <3>4. CASE j.op = "remove"
      BY <1>0, <3>1, <3>2, <3>4 DEF Fresh, Right
    <3>5. CASE j.op = "sync"
      BY <1>0, <3>1, <3>2, <3>5 DEF Fresh, Right
    <3>. QED  BY <1>0, <3>3, <3>4, <3>5 DEF Fresh
  <2>. QED  BY <1>0, <2>1, <2>2 DEF Serial
<1>. QED  BY <1>1, <1>2, <1>3, <1>4, <1>6 DEF RegistryInv

\* A transaction that leaves no overlap behind started from what is still so, and
\* no other operation is under way.
LEMMA CommitSerial ==
    ASSUME RegistryInv, NEW c \in Callers, Commit(c)
    PROVE  /\ DOMAIN call' = Callers
           /\ \A d \in Callers : call'[d] = call[d] \/ call'[d] = Idle
           /\ overlapped' \in BOOLEAN
           /\ ~overlapped' => /\ Exact /\ Fresh(call[c])
                              /\ \A d \in Callers : call'[d] = Idle
<1>1. DOMAIN call' = Callers /\ \A d \in Callers : call'[d] = IF d = c THEN Idle ELSE call[d]
  BY DEF RegistryInv, IdsOK, Commit, Finish
<1>2. overlapped' = (overlapped \/ \E d \in Callers \ {c} : call[d] # Idle)
  BY DEF Commit
<1>. QED  BY <1>1, <1>2 DEF RegistryInv, Serial

\* After it, the invariant's last part only asks for exact assignments.
LEMMA SerialAfter ==
    ASSUME ~overlapped' => Exact' /\ \A d \in Callers : call'[d] = Idle,
           overlapped' \in BOOLEAN
    PROVE  Serial'
<1>1. ASSUME NEW d \in Callers, call'[d] = Idle
      PROVE  Fresh(call[d])'
  BY <1>1 DEF Fresh, Idle
<1>. QED  BY <1>1 DEF Serial

\* The deployments of versions that right summaries name.
LEMMA SummaryDeployments ==
    ASSUME IdsOK, NEW r, Right(r), NEW current, NEW pending,
           current \subseteq r.current, pending \subseteq r.pending, NEW h
    PROVE  h \in ShouldHaveAssignment(current, pending, r.dep) <=>
              \E v \in versions : /\ v.dep = h /\ v.dep \in r.hashes
                                  /\ v.vid \in current \cup pending
<1>1. ASSUME NEW x \in current \cup pending
      PROVE  \E v \in versions : v.vid = x /\ v.dep \in r.hashes /\ r.dep[x] = v.dep
  BY DEF Right
<1>2. \A v \in versions : v.dep \in r.hashes => r.dep[v.vid] = v.dep
  BY DEF Right
<1>. QED  BY <1>1, <1>2 DEF ShouldHaveAssignment

\* should_have_assignment of right summaries: the deployments in use.
LEMMA BeforeIsUsed ==
    ASSUME IdsOK, NEW r, Right(r), NEW h
    PROVE  h \in Before(r) <=> h \in Used /\ h \in r.hashes
<1>1. h \in Before(r) <=> \E v \in versions : /\ v.dep = h /\ v.dep \in r.hashes
                                               /\ v.vid \in r.current \cup r.pending
  <2>. DEFINE cur == r.current  pen == r.pending
  <2>1. cur \subseteq r.current /\ pen \subseteq r.pending
    OBVIOUS
  <2>. HIDE DEF cur, pen
  <2>2. h \in ShouldHaveAssignment(cur, pen, r.dep) <=>
           \E v \in versions : /\ v.dep = h /\ v.dep \in r.hashes /\ v.vid \in cur \cup pen
    BY <2>1, SummaryDeployments, SMTT(30)
  <2>. QED  BY <2>2 DEF Before, cur, pen
<1>2. h \in Used <=> \E v \in versions : /\ v.dep = h
                                          /\ \E s \in subgraphs : s.current = v.vid \/ s.pending = v.vid
  BY DEF Used, UsesVersion
<1>. QED  BY <1>1, <1>2 DEF Right

\* reconcile_assignments keeps the assignments exact when the summaries cover the
\* deployments whose use changes.
LEMMA Reconciled ==
    ASSUME IdsOK, Exact, NEW r, Right(r), NEW after, NEW node,
           \A h \in Hashes : h \in after => h \in Before(r) \/ node # NoNode,
           \A h \in Hashes : h \in r.hashes => (h \in after <=> h \in Used'),
           \A h \in Hashes : h \notin r.hashes => h \notin after /\ (h \in Used <=> h \in Used'),
           assigned' = Reconcile(Before(r), after, node)
    PROVE  Exact'
<1>. SUFFICES ASSUME NEW h \in Hashes
              PROVE  assigned'[h] # NoNode <=> h \in Used'
  BY DEF Exact
<1>1. assigned'[h] = IF h \in Before(r) \ after THEN NoNode
                     ELSE IF h \in after \ Before(r) THEN node ELSE assigned[h]
  BY DEF Reconcile
<1>2. h \in Before(r) <=> h \in Used /\ h \in r.hashes
  BY BeforeIsUsed
<1>3. assigned[h] # NoNode <=> h \in Used
  BY DEF Exact
<1>. QED  BY <1>1, <1>2, <1>3

\* reconcile_assignments assigns nodes.
LEMMA ReconcileType ==
    ASSUME IdsOK, NEW before, NEW after, NEW node \in Nodes \cup {NoNode}
    PROVE  Reconcile(before, after, node) \in [Hashes -> Nodes \cup {NoNode}]
  BY DEF IdsOK, Reconcile

\* reassign_subgraph.
LEMMA ReassignStep ==
    ASSUME RegistryInv, NEW c \in Callers, ApplyReassign(c)
    PROVE  RegistryInv'
<1>. DEFINE k == call[c]
<1>0. /\ k.op = "reassign" /\ assigned[k.h] = k.from /\ Commit(c)
      /\ assigned' = [assigned EXCEPT ![k.h] = k.to]
      /\ UNCHANGED <<subgraphs, versions, deployed, synced, lastId>>
  BY DEF ApplyReassign, AssignmentUnchanged
<1>1. k.h \in Hashes /\ k.to \in Nodes /\ k.from # NoNode
  BY <1>0 DEF RegistryInv, CallOK
<1>2. /\ DOMAIN call' = Callers /\ \A d \in Callers : call'[d] = call[d] \/ call'[d] = Idle
      /\ overlapped' \in BOOLEAN
      /\ ~overlapped' => Exact /\ \A d \in Callers : call'[d] = Idle
  BY <1>0, CommitSerial
<1>3. IdsOK'
  BY <1>0, <1>1, <1>2 DEF RegistryInv, IdsOK, SubgraphEntity, VersionEntity
<1>4. VersionsOfSubgraphsExist' /\ PendingBehindSynced'
  BY <1>0 DEF RegistryInv, VersionsOfSubgraphsExist, PendingBehindSynced, DepOf
<1>5. \A d \in Callers : CallOK(call[d])'
  <2>1. lastId' \in Nat /\ lastId' >= lastId
    BY <1>0 DEF RegistryInv, IdsOK
  <2>. QED  BY <1>0, <1>2, <2>1, CallsKept
<1>6. Exact => Exact'
  <2>1. Used' = Used
    BY <1>0 DEF Used, UsesVersion
  <2>2. ASSUME NEW h \in Hashes
        PROVE  assigned'[h] # NoNode <=> assigned[h] # NoNode
    BY <1>0, <1>1, DeploymentsAssumption DEF RegistryInv, IdsOK
  <2>. QED  BY <2>1, <2>2 DEF Exact
<1>7. Serial'
  BY <1>2, <1>6, SerialAfter
<1>. QED  BY <1>3, <1>4, <1>5, <1>7 DEF RegistryInv

\* remove_subgraph deletes the entity and all of its versions.
LEMMA RemovalStep ==
    ASSUME RegistryInv, NEW c \in Callers, ApplyRemoval(c)
    PROVE  RegistryInv'
<1>. DEFINE k == call[c]
            r == k.read
            after == ShouldHaveAssignment(r.current \ k.vids, r.pending \ k.vids, r.dep)
<1>0. /\ k.op = "remove" /\ RemovalStillTheSame(k) /\ Commit(c)
      /\ assigned' = Reconcile(Before(r), after, NoNode)
      /\ versions' = {v \in versions : v.vid \notin k.vids}
      /\ subgraphs' = {s \in subgraphs : s.sid # k.s.sid}
      /\ UNCHANGED <<deployed, synced, lastId>>
  BY DEF ApplyRemoval
<1>. IdsOK /\ VersionsOfSubgraphsExist
  BY DEF RegistryInv
<1>1. \A v \in versions : v.vid \in k.vids <=> v.sid = k.s.sid
  BY <1>0, RemovedVersions
<1>2. /\ DOMAIN call' = Callers /\ \A d \in Callers : call'[d] = call[d] \/ call'[d] = Idle
      /\ overlapped' \in BOOLEAN
      /\ ~overlapped' => Exact /\ Fresh(k) /\ \A d \in Callers : call'[d] = Idle
  BY <1>0, CommitSerial
<1>3. IdsOK'
  <2>1. assigned' \in [Hashes -> Nodes \cup {NoNode}]
    BY <1>0, ReconcileType
  <2>. HIDE DEF after
  <2>. QED  BY <1>0, <1>2, <2>1 DEF IdsOK, SubgraphEntity, VersionEntity
<1>. HIDE DEF k, after
<1>4. VersionsOfSubgraphsExist'
  <2>1. \A s, t \in subgraphs' : s.name = t.name => s = t
    BY <1>0 DEF VersionsOfSubgraphsExist
  <2>2. ASSUME NEW s \in subgraphs', NEW x \in {s.current, s.pending} \ {None}
        PROVE  \E v \in versions' : v.vid = x /\ v.sid = s.sid /\ v.dep \in deployed
    <3>1. s \in subgraphs /\ s.sid # k.s.sid
      BY <1>0
    <3>2. PICK v \in versions : v.vid = x /\ v.sid = s.sid /\ v.dep \in deployed
      BY <3>1 DEF VersionsOfSubgraphsExist
    <3>. QED  BY <1>0, <1>1, <3>1, <3>2
  <2>3. \A v \in versions' : \E s \in subgraphs' : s.sid = v.sid
    BY <1>0, <1>1 DEF VersionsOfSubgraphsExist
  <2>. QED  BY <1>0, <2>1, <2>2, <2>3 DEF VersionsOfSubgraphsExist
<1>5. PendingBehindSynced'
  BY <1>0 DEF RegistryInv, PendingBehindSynced, DepOf
<1>6. \A d \in Callers : CallOK(call[d])'
  <2>1. lastId' \in Nat /\ lastId' >= lastId
    BY <1>0 DEF IdsOK
  <2>. QED  BY <1>0, <1>2, <2>1, CallsKept
<1>7. ASSUME Exact, Fresh(k)
      PROVE  Exact'
  <2>1. /\ Right(r) /\ \A v \in versions : v.sid = k.s.sid => v.dep \in r.hashes
    BY <1>0, <1>7 DEF Fresh
  <2>2. ASSUME NEW v \in versions
        PROVE  (v \in versions' /\ \E s \in subgraphs' : s.current = v.vid \/ s.pending = v.vid)
               <=> /\ v.vid \notin k.vids
                   /\ \E s \in subgraphs : s.current = v.vid \/ s.pending = v.vid
    <3>1. ASSUME NEW s \in subgraphs, s.current = v.vid \/ s.pending = v.vid
          PROVE  v.sid = s.sid
      <4>1. v.vid # None
        BY DeploymentsAssumption DEF IdsOK, VersionEntity
      <4>2. PICK w \in versions : w.vid = v.vid /\ w.sid = s.sid
        BY <3>1, <4>1 DEF VersionsOfSubgraphsExist
      <4>. QED  BY <4>2 DEF IdsOK
    <3>. QED  BY <1>0, <1>1, <3>1
  <2>3. ASSUME NEW h
        PROVE  h \in Used' <=>
                 \E v \in versions : /\ v.dep = h /\ v.vid \notin k.vids
                                     /\ \E s \in subgraphs : s.current = v.vid \/ s.pending = v.vid
    <3>1. h \in Used' <=> \E v \in versions' : v.dep = h /\
                              \E s \in subgraphs' : s.current = v.vid \/ s.pending = v.vid
      BY DEF Used, UsesVersion
    <3>2. versions' \subseteq versions
      BY <1>0
    <3>. QED  BY <2>2, <3>1, <3>2
  <2>4. ASSUME NEW h
        PROVE  h \in Used <=>
                 \E v \in versions : /\ v.dep = h
                                     /\ \E s \in subgraphs : s.current = v.vid \/ s.pending = v.vid
    BY DEF Used, UsesVersion
  <2>5. ASSUME NEW h
        PROVE  h \in after <=> h \in Used' /\ h \in r.hashes
    <3>. DEFINE cur == r.current \ k.vids  pen == r.pending \ k.vids
    <3>1. cur \subseteq r.current /\ pen \subseteq r.pending
      OBVIOUS
    <3>2. h \in ShouldHaveAssignment(cur, pen, r.dep) <=>
             \E v \in versions : /\ v.dep = h /\ v.dep \in r.hashes /\ v.vid \in cur \cup pen
      <4>. HIDE DEF cur, pen
      <4>. QED  BY <2>1, <3>1, SummaryDeployments
    <3>. QED  BY <2>1, <2>3, <3>2 DEF Right, after
  <2>6. \A h \in Hashes : h \notin r.hashes => h \notin after /\ (h \in Used <=> h \in Used')
    BY <1>1, <2>1, <2>3, <2>4, <2>5
  <2>7. \A h \in Hashes : h \in after => h \in Before(r)
    BY <2>1, <2>3, <2>4, <2>5, BeforeIsUsed
  <2>. QED  BY <1>0, <1>7, <2>1, <2>5, <2>6, <2>7, Reconciled
<1>8. Serial'
  BY <1>2, <1>7, SerialAfter
<1>. QED  BY <1>3, <1>4, <1>5, <1>6, <1>8 DEF RegistryInv

\* create_subgraph_version adds a version and moves the pointers to it.
LEMMA VersionStep ==
    ASSUME RegistryInv, NEW c \in Callers, NEW node \in Nodes, ApplyVersion(c, node)
    PROVE  RegistryInv'
<1>. DEFINE k == call[c]
            r == k.read
            new == [vid |-> lastId + 1, sid |-> k.s.sid, dep |-> k.h]
            moved(s) == IF s.sid # k.s.sid THEN s
                        ELSE IF BecomesPending(k) THEN [s EXCEPT !.pending = lastId + 1]
                        ELSE [s EXCEPT !.pending = None, !.current = lastId + 1]
            after == AfterNewVersion(k)
<1>0. /\ k.op = "create" /\ k.stage = 2 /\ lastId < MaxId /\ Commit(c)
      /\ VersionsStillTheSame(k)
      /\ lastId' = lastId + 1
      /\ versions' = versions \cup {new}
      /\ assigned' = Reconcile(Before(r), after, node)
      /\ subgraphs' = {moved(s) : s \in subgraphs}
      /\ deployed' = deployed \cup {k.h}
      /\ UNCHANGED synced
  BY DEF ApplyVersion
<1>. IdsOK /\ VersionsOfSubgraphsExist /\ PendingBehindSynced /\ lastId \in Nat /\ MaxId \in Nat
  BY DeploymentsAssumption DEF RegistryInv, IdsOK
<1>1. /\ k.h \in Hashes /\ k.s \in SubgraphEntity /\ k.s \in subgraphs
      /\ k.currentSynced => k.s.current # None /\ DepOf(k.s.current) \subseteq synced
  BY <1>0, EntityStillThere DEF RegistryInv, CallOK
<1>2. /\ DOMAIN call' = Callers /\ \A d \in Callers : call'[d] = call[d] \/ call'[d] = Idle
      /\ overlapped' \in BOOLEAN
      /\ ~overlapped' => Exact /\ Fresh(k) /\ \A d \in Callers : call'[d] = Idle
  BY <1>0, CommitSerial
<1>. HIDE DEF k, after
<1>3. /\ \A s \in subgraphs : s \in SubgraphEntity
      /\ \A v \in versions : v \in VersionEntity /\ v.vid \in 1 .. lastId
      /\ None \notin Nat
  BY DeploymentsAssumption DEF IdsOK, VersionEntity
<1>4. ASSUME NEW s \in subgraphs
      PROVE  /\ moved(s) \in SubgraphEntity'
             /\ moved(s).sid = s.sid /\ moved(s).name = s.name
             /\ moved(s).current = IF s = k.s /\ ~BecomesPending(k) THEN lastId + 1 ELSE s.current
             /\ moved(s).pending = IF s # k.s THEN s.pending
                                   ELSE IF BecomesPending(k) THEN lastId + 1 ELSE None
  <2>1. s.sid = k.s.sid <=> s = k.s
    BY <1>1 DEF IdsOK
  <2>2. s \in SubgraphEntity /\ lastId' = lastId + 1
    BY <1>0, <1>3
  <2>3. CASE s # k.s
    BY <2>1, <2>2, <2>3 DEF SubgraphEntity
  <2>4. CASE s = k.s /\ BecomesPending(k)
    <3>1. moved(s) = [s EXCEPT !.pending = lastId + 1]
      BY <2>1, <2>4
    <3>. QED  BY <2>2, <2>4, <3>1 DEF SubgraphEntity
  <2>5. CASE s = k.s /\ ~BecomesPending(k)
    <3>1. moved(s) = [s EXCEPT !.pending = None, !.current = lastId + 1]
      BY <2>1, <2>5
    <3>2. moved(s) = [sid |-> s.sid, name |-> s.name, current |-> lastId + 1, pending |-> None]
      BY <2>2, <3>1 DEF SubgraphEntity
    <3>. QED  BY <2>2, <2>5, <3>2 DEF SubgraphEntity
  <2>. QED  BY <2>3, <2>4, <2>5
<1>5. \A s \in subgraphs : moved(s) \in subgraphs'
  BY <1>0
<1>6. ASSUME NEW t \in subgraphs'
      PROVE  \E s \in subgraphs : t = moved(s)
  BY <1>0
<1>. HIDE DEF moved
<1>7. IdsOK'
  <2>1. assigned' \in [Hashes -> Nodes \cup {NoNode}]
    BY <1>0, ReconcileType
  <2>2. \A s, t \in subgraphs' : s.sid = t.sid => s = t
    BY <1>4, <1>6 DEF IdsOK
  <2>3. subgraphs' \subseteq SubgraphEntity'
    BY <1>4, <1>6
  <2>4. versions' \subseteq VersionEntity'
    BY <1>0, <1>1, <1>3 DEF VersionEntity, SubgraphEntity
  <2>5. \A v, w \in versions' : v.vid = w.vid => v = w
    BY <1>0, <1>3 DEF IdsOK
  <2>6. synced' \subseteq deployed' /\ deployed' \subseteq Hashes /\ lastId' \in 0 .. MaxId
    BY <1>0, <1>1 DEF IdsOK
  <2>. QED  BY <1>2, <2>1, <2>2, <2>3, <2>4, <2>5, <2>6 DEF IdsOK
<1>8. VersionsOfSubgraphsExist'
  <2>1. \A s, t \in subgraphs' : s.name = t.name => s = t
    BY <1>4, <1>6 DEF VersionsOfSubgraphsExist
  <2>2. ASSUME NEW t \in subgraphs', NEW x \in {t.current, t.pending} \ {None}
        PROVE  \E v \in versions' : v.vid = x /\ v.sid = t.sid /\ v.dep \in deployed'
    <3>1. PICK s \in subgraphs : t = moved(s)
      BY <1>6
    <3>2. CASE x = lastId + 1
      <4>1. s = k.s /\ t.sid = k.s.sid
        BY <1>3, <1>4, <3>1, <3>2 DEF SubgraphEntity
      <4>2. new.vid = x /\ new.sid = t.sid /\ new.dep \in deployed' /\ new \in versions'
        BY <1>0, <3>2, <4>1
      <4>. QED  BY <4>2
    <3>3. CASE x # lastId + 1
      <4>1. x \in {s.current, s.pending} \ {None} /\ t.sid = s.sid
        BY <1>4, <3>1, <3>3
      <4>2. PICK v \in versions : v.vid = x /\ v.sid = s.sid /\ v.dep \in deployed
        BY <4>1 DEF VersionsOfSubgraphsExist
      <4>. QED  BY <1>0, <4>1, <4>2
    <3>. QED  BY <3>2, <3>3
  <2>3. ASSUME NEW v \in versions'
        PROVE  \E t \in subgraphs' : t.sid = v.sid
    <3>1. PICK s \in subgraphs : s.sid = v.sid
      BY <1>0, <1>1 DEF VersionsOfSubgraphsExist
    <3>. QED  BY <1>4, <1>5, <3>1
  <2>. QED  BY <2>1, <2>2, <2>3 DEF VersionsOfSubgraphsExist
<1>9. PendingBehindSynced'
  <2>. SUFFICES ASSUME NEW t \in subgraphs', t.pending # None
                PROVE  /\ SwitchMode = "synced" /\ t.current # None
                       /\ \A v \in versions' : v.vid = t.current => v.dep \in synced'
    BY DEF PendingBehindSynced, DepOf
  <2>1. PICK s \in subgraphs : t = moved(s)
    BY <1>6
  <2>2. /\ SwitchMode = "synced" /\ s.current # None
        /\ \A v \in versions : v.vid = s.current => v.dep \in synced
    <3>1. CASE s = k.s
      <4>1. BecomesPending(k)
        BY <1>4, <2>1, <3>1
      <4>. QED  BY <1>1, <3>1, <4>1 DEF BecomesPending, DepOf
    <3>2. CASE s # k.s
      <4>1. s.pending # None
        BY <1>4, <2>1, <3>2
      <4>. QED  BY <4>1 DEF PendingBehindSynced, DepOf
    <3>. QED  BY <3>1, <3>2
  <2>3. t.current = s.current
    <3>1. s = k.s => BecomesPending(k)
      BY <1>4, <2>1
    <3>. QED  BY <1>4, <2>1, <3>1
  <2>4. s.current \in 1 .. lastId
    BY <1>3, <2>2 DEF SubgraphEntity
  <2>. QED  BY <1>0, <2>2, <2>3, <2>4
<1>10. \A d \in Callers : CallOK(call[d])'
  <2>1. /\ lastId' \in Nat /\ lastId' >= lastId /\ synced \subseteq synced'
        /\ \A v \in versions' : v \in versions \/ v.vid = lastId + 1
    BY <1>0
  <2>. QED  BY <1>2, <2>1, CallsKept
<1>11. ASSUME Exact, Fresh(k)
       PROVE  Exact'
  <2>1. Right(r) /\ Covers(r.hashes, k)
    BY <1>0, <1>11 DEF Fresh
  <2>. DEFINE cur == r.current \ (IF BecomesPending(k) THEN {} ELSE {k.s.current})
              pen == r.pending \ {k.s.pending}
              uses(s, v) == s.current = v.vid \/ s.pending = v.vid
  <2>2. ASSUME NEW v \in versions
        PROVE  (\E t \in subgraphs' : uses(t, v)) <=>
                  \/ BecomesPending(k) /\ v.vid = k.s.current
                  \/ \E s \in subgraphs : s # k.s /\ uses(s, v)
    <3>1. v.vid \in 1 .. lastId /\ v.vid # None
      BY <1>3
    <3>2. ASSUME NEW s \in subgraphs
          PROVE  uses(moved(s), v) <=> \/ s = k.s /\ BecomesPending(k) /\ v.vid = k.s.current
                                       \/ s # k.s /\ uses(s, v)
      BY <1>4, <3>1
    <3>. QED  BY <1>1, <1>5, <1>6, <3>2
  <2>3. ASSUME NEW v \in versions, v.dep \in r.hashes
        PROVE  v.vid \in cur \cup pen <=> \E t \in subgraphs' : uses(t, v)
    <3>1. v.vid # None
      BY <1>3
    <3>2. ASSUME NEW s \in subgraphs, uses(s, v), uses(k.s, v)
          PROVE  s = k.s
      <4>1. v.vid \in {s.current, s.pending} \cap {k.s.current, k.s.pending}
        BY <3>2
      <4>. QED  BY <1>1, <3>1, <4>1, OwnVersions
    <3>3. /\ v.vid \in r.current <=> \E s \in subgraphs : s.current = v.vid
          /\ v.vid \in r.pending <=> \E s \in subgraphs : s.pending = v.vid
      BY <2>1, <2>3 DEF Right
    <3>. QED  BY <1>1, <2>2, <3>2, <3>3
  <2>4. \E t \in subgraphs' : uses(t, new)
    <3>1. uses(moved(k.s), new)
      BY <1>1, <1>4
    <3>. QED  BY <1>1, <1>5, <3>1
  <2>5. ASSUME NEW h
        PROVE  h \in Used' <=> \/ h = k.h
                               \/ \E v \in versions : v.dep = h /\ \E t \in subgraphs' : uses(t, v)
    <3>1. h \in Used' <=> \E v \in versions' : v.dep = h /\ \E t \in subgraphs' : uses(t, v)
      BY DEF Used, UsesVersion
    <3>2. versions' = versions \cup {new} /\ new.dep = k.h
      BY <1>0
    <3>. HIDE DEF uses, new
    <3>. QED  BY <2>4, <3>1, <3>2
  <2>6. ASSUME NEW h
        PROVE  h \in Used <=> \E v \in versions : v.dep = h /\ \E s \in subgraphs : uses(s, v)
    BY DEF Used, UsesVersion
  <2>7. ASSUME NEW h
        PROVE  h \in after <=> h \in Used' /\ h \in r.hashes
    <3>1. cur \subseteq r.current /\ pen \subseteq r.pending
      OBVIOUS
    <3>2. h \in ShouldHaveAssignment(cur, pen, r.dep) <=>
             \E v \in versions : /\ v.dep = h /\ v.dep \in r.hashes /\ v.vid \in cur \cup pen
      <4>1. IdsOK /\ Right(r)
        BY <2>1
      <4>2. \A a \in SUBSET r.current, b \in SUBSET r.pending :
               h \in ShouldHaveAssignment(a, b, r.dep) <=>
                 \E v \in versions : /\ v.dep = h /\ v.dep \in r.hashes /\ v.vid \in a \cup b
        BY <4>1, SummaryDeployments
      <4>. HIDE DEF cur, pen
      <4>. QED  BY <3>1, <4>2
    <3>3. h \in after <=> h \in ShouldHaveAssignment(cur, pen, r.dep) \/ h = k.h
      BY DEF after, AfterNewVersion
    <3>4. k.h \in r.hashes
      BY <2>1 DEF Covers
    <3>. HIDE DEF cur, pen, uses
    <3>. QED  BY <2>3, <2>5, <3>2, <3>3, <3>4
  <2>8. ASSUME NEW h \in Hashes, h \notin r.hashes
        PROVE  h \notin after /\ (h \in Used <=> h \in Used')
    <3>1. h # k.h /\ \A v \in versions : v.dep = h => v.vid \notin {k.s.current, k.s.pending}
      BY <2>1, <2>8 DEF Covers
    <3>2. ASSUME NEW v \in versions, v.dep = h
          PROVE  (\E t \in subgraphs' : uses(t, v)) <=> \E s \in subgraphs : uses(s, v)
      BY <2>2, <3>1, <3>2
    <3>. QED  BY <2>5, <2>6, <2>7, <2>8, <3>1, <3>2
  <2>9. node # NoNode
    BY DeploymentsAssumption
  <2>. HIDE DEF r
  <2>. QED  BY <1>0, <1>11, <2>1, <2>7, <2>8, <2>9, Reconciled
<1>12. Serial'
  BY <1>2, <1>11, SerialAfter
<1>. QED  BY <1>7, <1>8, <1>9, <1>10, <1>12 DEF RegistryInv

\* update_subgraph_synced_status promotes the versions that were read as pending.
LEMMA SyncStep ==
    ASSUME RegistryInv, NEW c \in Callers, ApplySynced(c)
    PROVE  RegistryInv'
<1>. DEFINE k == call[c]
            r == k.read
            chosen(s) == CHOOSE t \in k.subs : t.sid = s.sid
            promoted(s) == \E t \in k.subs : t.sid = s.sid
            moved(s) == IF promoted(s) THEN [s EXCEPT !.pending = None, !.current = chosen(s).pending]
                        ELSE s
            after == ShouldHaveAssignment(r.current \ k.demoted, r.pending, r.dep)
<1>0. /\ k.op = "sync" /\ k.h \in deployed /\ PromotionStillTheSame(k) /\ Commit(c)
      /\ synced' = synced \cup {k.h}
      /\ assigned' = Reconcile(Before(r), after, NoNode)
      /\ subgraphs' = {moved(s) : s \in subgraphs}
      /\ UNCHANGED <<versions, deployed, lastId>>
  BY DEF ApplySynced
<1>. IdsOK /\ VersionsOfSubgraphsExist /\ PendingBehindSynced
  BY DEF RegistryInv
<1>1. \A t \in k.subs :
         /\ t \in SubgraphEntity /\ t.pending \in k.vids /\ t.pending \in 1 .. lastId
         /\ \A v \in versions : v.vid = t.pending => v.sid = t.sid
  BY <1>0 DEF RegistryInv, CallOK
<1>2. /\ DOMAIN call' = Callers /\ \A d \in Callers : call'[d] = call[d] \/ call'[d] = Idle
      /\ overlapped' \in BOOLEAN
      /\ ~overlapped' => Exact /\ Fresh(k) /\ \A d \in Callers : call'[d] = Idle
  BY <1>0, CommitSerial
<1>. HIDE DEF k, after
<1>3. /\ \A s \in subgraphs : s \in SubgraphEntity
      /\ \A v \in versions : v.vid \in 1 .. lastId
      /\ None \notin 1 .. lastId
  BY DeploymentsAssumption DEF IdsOK, VersionEntity
<1>4. ASSUME NEW s \in subgraphs, promoted(s)
      PROVE  chosen(s) \in k.subs /\ chosen(s).sid = s.sid
  BY <1>4
<1>5. ASSUME NEW s \in subgraphs
      PROVE  /\ moved(s) \in SubgraphEntity
             /\ moved(s).sid = s.sid /\ moved(s).name = s.name
             /\ moved(s).current = IF promoted(s) THEN chosen(s).pending ELSE s.current
             /\ moved(s).pending = IF promoted(s) THEN None ELSE s.pending
  <2>1. CASE promoted(s)
    <3>. DEFINE p == chosen(s).pending
    <3>1. s \in SubgraphEntity /\ p \in 1 .. lastId
      BY <1>1, <1>3, <1>4, <2>1
    <3>2. moved(s) = [s EXCEPT !.pending = None, !.current = p]
      BY <2>1
    <3>. HIDE DEF p, moved
    <3>3. moved(s) = [sid |-> s.sid, name |-> s.name, current |-> p, pending |-> None]
      BY <3>1, <3>2 DEF SubgraphEntity
    <3>4. /\ moved(s) \in SubgraphEntity
          /\ moved(s).sid = s.sid /\ moved(s).name = s.name
          /\ moved(s).current = p /\ moved(s).pending = None
      BY <3>1, <3>3 DEF SubgraphEntity
    <3>. QED  BY <2>1, <3>4 DEF p
  <2>2. CASE ~promoted(s)
    BY <1>3, <2>2
  <2>. QED  BY <2>1, <2>2
<1>6. \A s \in subgraphs : moved(s) \in subgraphs'
  BY <1>0
<1>7. ASSUME NEW t \in subgraphs'
      PROVE  \E s \in subgraphs : t = moved(s)
  BY <1>0
<1>. HIDE DEF moved, promoted, chosen
<1>8. IdsOK'
  <2>1. assigned' \in [Hashes -> Nodes \cup {NoNode}]
    BY <1>0, ReconcileType
  <2>2. \A s, t \in subgraphs' : s.sid = t.sid => s = t
    BY <1>5, <1>7 DEF IdsOK
  <2>3. subgraphs' \subseteq SubgraphEntity' /\ versions' \subseteq VersionEntity'
    BY <1>0, <1>5, <1>7 DEF IdsOK, SubgraphEntity, VersionEntity
  <2>4. synced' \subseteq deployed' /\ deployed' \subseteq Hashes
    BY <1>0 DEF IdsOK
  <2>. QED  BY <1>0, <1>2, <2>1, <2>2, <2>3, <2>4 DEF IdsOK
<1>9. VersionsOfSubgraphsExist'
  <2>1. \A s, t \in subgraphs' : s.name = t.name => s = t
    BY <1>5, <1>7 DEF VersionsOfSubgraphsExist
  <2>2. ASSUME NEW t \in subgraphs', NEW x \in {t.current, t.pending} \ {None}
        PROVE  \E v \in versions' : v.vid = x /\ v.sid = t.sid /\ v.dep \in deployed'
    <3>1. PICK s \in subgraphs : t = moved(s)
      BY <1>7
    <3>2. CASE promoted(s)
      <4>1. x = chosen(s).pending /\ t.sid = s.sid
        BY <1>5, <3>1, <3>2
      <4>2. x \in k.vids /\ \A v \in versions : v.vid = x => v.sid = s.sid
        BY <1>1, <1>4, <3>2, <4>1
      <4>3. PICK v \in versions : v.dep = k.h /\ v.vid = x
        BY <1>0, <4>2 DEF PromotionStillTheSame
      <4>. QED  BY <1>0, <4>1, <4>2, <4>3
    <3>3. CASE ~promoted(s)
      BY <1>0, <1>5, <3>1, <3>3 DEF VersionsOfSubgraphsExist
    <3>. QED  BY <3>2, <3>3
  <2>3. ASSUME NEW v \in versions'
        PROVE  \E t \in subgraphs' : t.sid = v.sid
    <3>1. PICK s \in subgraphs : s.sid = v.sid
      BY <1>0 DEF VersionsOfSubgraphsExist
    <3>. QED  BY <1>5, <1>6, <3>1
  <2>. QED  BY <2>1, <2>2, <2>3 DEF VersionsOfSubgraphsExist
<1>10. PendingBehindSynced'
  <2>. SUFFICES ASSUME NEW t \in subgraphs', t.pending # None
                PROVE  /\ SwitchMode = "synced" /\ t.current # None
                       /\ \A v \in versions' : v.vid = t.current => v.dep \in synced'
    BY DEF PendingBehindSynced, DepOf
  <2>1. PICK s \in subgraphs : t = moved(s)
    BY <1>7
  <2>2. s.pending # None /\ t.current = s.current
    BY <1>5, <2>1
  <2>3. /\ SwitchMode = "synced" /\ s.current # None
        /\ \A v \in versions : v.vid = s.current => v.dep \in synced
    BY <2>2 DEF PendingBehindSynced, DepOf
  <2>. QED  BY <1>0, <2>2, <2>3
<1>11. \A d \in Callers : CallOK(call[d])'
  <2>1. /\ lastId' \in Nat /\ lastId' >= lastId /\ synced \subseteq synced'
        /\ \A v \in versions' : v \in versions \/ v.vid = lastId + 1
    BY <1>0 DEF IdsOK
  <2>. QED  BY <1>2, <2>1, CallsKept
<1>12. ASSUME Exact, Fresh(k)
       PROVE  Exact'
  <2>1. /\ Right(r) /\ k.subs \subseteq subgraphs
        /\ k.demoted = {s.current : s \in k.subs} \ {None}
        /\ \A v \in versions : v.vid \in k.demoted => v.dep \in r.hashes
    BY <1>0, <1>12 DEF Fresh
  <2>. DEFINE cur == r.current \ k.demoted
              pen == r.pending
              uses(s, v) == s.current = v.vid \/ s.pending = v.vid
  <2>2. ASSUME NEW s \in subgraphs
        PROVE  /\ promoted(s) <=> s \in k.subs
               /\ promoted(s) => chosen(s) = s
    <3>1. \A t \in k.subs : t.sid = s.sid => t = s
      BY <2>1 DEF IdsOK
    <3>2. promoted(s) <=> s \in k.subs
      BY <3>1 DEF promoted
    <3>. QED  BY <1>4, <3>1, <3>2
  <2>3. ASSUME NEW v \in versions
        PROVE  (\E t \in subgraphs' : uses(t, v)) <=>
                  \/ \E s \in subgraphs : s.pending = v.vid
                  \/ \E s \in subgraphs \ k.subs : s.current = v.vid
    <3>1. v.vid # None
      BY <1>3
    <3>2. ASSUME NEW s \in subgraphs
          PROVE  uses(moved(s), v) <=> s.pending = v.vid \/ (s \notin k.subs /\ s.current = v.vid)
      BY <1>5, <2>2, <3>1
    <3>. QED  BY <1>6, <1>7, <3>2
  <2>4. ASSUME NEW v \in versions, NEW s \in subgraphs, s.current = v.vid
        PROVE  v.vid \in k.demoted <=> s \in k.subs
    <3>1. v.vid # None
      BY <1>3
    <3>2. ASSUME NEW t \in k.subs, t.current = v.vid
          PROVE  t = s
      <4>1. t \in subgraphs /\ v.vid \in {s.current, s.pending} \cap {t.current, t.pending}
        BY <2>1, <2>4, <3>2
      <4>. QED  BY <3>1, <4>1, OwnVersions
    <3>. QED  BY <2>1, <2>4, <3>1, <3>2
  <2>5. ASSUME NEW v \in versions, v.dep \in r.hashes
        PROVE  v.vid \in cur \cup pen <=> \E t \in subgraphs' : uses(t, v)
    <3>1. /\ v.vid \in r.current <=> \E s \in subgraphs : s.current = v.vid
          /\ v.vid \in r.pending <=> \E s \in subgraphs : s.pending = v.vid
      BY <2>1, <2>5 DEF Right
    <3>. QED  BY <2>3, <2>4, <3>1
  <2>6. ASSUME NEW h
        PROVE  h \in Used' <=> \E v \in versions : v.dep = h /\ \E t \in subgraphs' : uses(t, v)
    <3>1. h \in Used' <=> \E v \in versions' : v.dep = h /\ \E t \in subgraphs' : uses(t, v)
      BY DEF Used, UsesVersion
    <3>. QED  BY <1>0, <3>1
  <2>7. ASSUME NEW h
        PROVE  h \in Used <=> \E v \in versions : v.dep = h /\ \E s \in subgraphs : uses(s, v)
    BY DEF Used, UsesVersion
  <2>8. ASSUME NEW h
        PROVE  h \in after <=> h \in Used' /\ h \in r.hashes
    <3>1. cur \in SUBSET r.current /\ pen \in SUBSET r.pending
      OBVIOUS
    <3>2. \A a \in SUBSET r.current, b \in SUBSET r.pending :
             h \in ShouldHaveAssignment(a, b, r.dep) <=>
               \E v \in versions : /\ v.dep = h /\ v.dep \in r.hashes /\ v.vid \in a \cup b
      <4>1. IdsOK /\ Right(r)
        BY <2>1
      <4>. HIDE DEF r
      <4>. QED  BY <4>1, SummaryDeployments
    <3>3. h \in after <=> h \in ShouldHaveAssignment(cur, pen, r.dep)
      BY DEF after
    <3>. HIDE DEF cur, pen, uses, r
    <3>4. h \in after <=> \E v \in versions : /\ v.dep = h /\ v.dep \in r.hashes
                                              /\ v.vid \in cur \cup pen
      BY <3>1, <3>2, <3>3
    <3>. QED  BY <2>5, <2>6, <3>4
  <2>9. ASSUME NEW h \in Hashes, h \notin r.hashes
        PROVE  h \notin after /\ (h \in Used <=> h \in Used')
    <3>1. ASSUME NEW v \in versions, v.dep = h
          PROVE  (\E t \in subgraphs' : uses(t, v)) <=> \E s \in subgraphs : uses(s, v)
      <4>1. v.vid \notin k.demoted
        BY <2>1, <2>9, <3>1
      <4>. QED  BY <2>3, <2>4, <4>1
    <3>. HIDE DEF uses
    <3>. QED  BY <2>6, <2>7, <2>8, <2>9, <3>1
  <2>10. ASSUME NEW h \in Hashes, h \in after
         PROVE  h \in Before(r)
    <3>1. h \in Used
      BY <2>3, <2>6, <2>7, <2>8, <2>10
    <3>. QED  BY <2>1, <2>8, <2>10, <3>1, BeforeIsUsed
  <2>. HIDE DEF r
  <2>. QED  BY <1>0, <1>12, <2>1, <2>8, <2>9, <2>10, Reconciled
<1>13. Serial'
  BY <1>2, <1>12, SerialAfter
<1>. QED  BY <1>8, <1>9, <1>10, <1>11, <1>13 DEF RegistryInv

----------------------------------------------------------------------------

\* No registry entity, no caller at work.
LEMMA RegistryInvInit == DeploymentsInit => RegistryInv
<1>. SUFFICES ASSUME DeploymentsInit
              PROVE  RegistryInv
  OBVIOUS
<1>1. IdsOK
  <2>1. lastId \in 0 .. MaxId
    BY DeploymentsAssumption DEF DeploymentsInit
  <2>2. assigned \in [Hashes -> Nodes \cup {NoNode}] /\ DOMAIN call = Callers
    BY DEF DeploymentsInit
  <2>. QED  BY <2>1, <2>2 DEF DeploymentsInit, IdsOK
<1>2. VersionsOfSubgraphsExist /\ PendingBehindSynced
  BY DEF DeploymentsInit, VersionsOfSubgraphsExist, PendingBehindSynced
<1>3. \A c \in Callers : CallOK(call[c]) /\ Fresh(call[c])
  BY DEF DeploymentsInit, Idle, CallOK, Fresh
<1>4. Exact
  BY DEF DeploymentsInit, Exact, Used
<1>. QED  BY <1>1, <1>2, <1>3, <1>4 DEF RegistryInv, Serial

\* Every step of the registrar and the block streams keeps the invariant.
LEMMA RegistryInvStep == RegistryInv /\ [DeploymentsNext]_dvars => RegistryInv'
<1>. SUFFICES ASSUME RegistryInv, [DeploymentsNext]_dvars
              PROVE  RegistryInv'
  OBVIOUS
<1>1. CASE \E name \in Names : CreateSubgraph(name)
  BY <1>1, CreateStep
<1>2. ASSUME NEW c \in Callers,
             \/ \E name \in Names, h \in Hashes : ReadSubgraph(c, name, h)
             \/ ReadVersions(c)
             \/ \E name \in Names : ReadForRemoval(c, name)
             \/ \E h \in Hashes, node \in Nodes : ReadAssignment(c, h, node)
             \/ \E h \in Hashes : ReadSynced(c, h)
             \/ Aborts(c)
      PROVE  RegistryInv'
  BY <1>2, ReadsRight, ReadStep
<1>3. ASSUME NEW c \in Callers, NEW node \in Nodes, ApplyVersion(c, node)
      PROVE  RegistryInv'
  BY <1>3, VersionStep
<1>4. ASSUME NEW c \in Callers, ApplyRemoval(c) \/ ApplyReassign(c) \/ ApplySynced(c)
      PROVE  RegistryInv'
  BY <1>4, RemovalStep, ReassignStep, SyncStep
<1>5. CASE UNCHANGED dvars
  <2>1. IdsOK' /\ VersionsOfSubgraphsExist' /\ PendingBehindSynced'
    BY <1>5 DEF dvars, RegistryInv, IdsOK, SubgraphEntity, VersionEntity,
                VersionsOfSubgraphsExist, PendingBehindSynced, DepOf
  <2>2. \A c \in Callers : CallOK(call[c])'
    BY <1>5 DEF dvars, RegistryInv, CallOK, SubgraphEntity, DepOf
  <2>3. Serial'
    <3>1. overlapped \/ Exact'
      BY <1>5 DEF dvars, RegistryInv, Serial, Exact, Used, UsesVersion
    <3>2. ASSUME NEW c \in Callers, ~overlapped
          PROVE  Fresh(call[c])'
      <4>1. Fresh(call[c])
        BY <3>2 DEF RegistryInv, Serial
      <4>2. CASE call[c].op = "create"
        BY <1>5, <4>1, <4>2 DEF dvars, Fresh, Covers, Right
      <4>3. CASE call[c].op = "remove"
        BY <1>5, <4>1, <4>3 DEF dvars, Fresh, Right
      <4>4. CASE call[c].op = "sync"
        BY <1>5, <4>1, <4>4 DEF dvars, Fresh, Right
      <4>. QED  BY <1>5, <4>2, <4>3, <4>4 DEF dvars, Fresh
    <3>. QED  BY <1>5, <3>1, <3>2 DEF dvars, Serial
  <2>. QED  BY <2>1, <2>2, <2>3 DEF RegistryInv
<1>. QED  BY <1>1, <1>2, <1>3, <1>4, <1>5 DEF DeploymentsNext

\* For any names, deployments, nodes and number of operations under way: the
\* metadata of subgraphs, versions and assignments that the registrar and the
\* block streams maintain fit together.
THEOREM RegistryStaysConsistent == DeploymentsSpec => []RegistryConsistent
<1>1. RegistryInv => RegistryConsistent
  <2>. SUFFICES ASSUME RegistryInv
                PROVE  RegistryConsistent
    OBVIOUS
  <2>1. DeploymentsTypeOK
    BY DeploymentsAssumption
       DEF RegistryInv, IdsOK, SubgraphEntity, VersionEntity, DeploymentsTypeOK, Ids
  <2>2. AssignmentsExact
    <3>1. Used \subseteq Hashes
      BY ZenonT(30) DEF RegistryInv, IdsOK, VersionEntity, Used
    <3>. QED  BY <3>1 DEF RegistryInv, Serial, Exact, AssignmentsExact, AssignedAreUsed, UsedAreAssigned
  <2>. QED  BY <2>1, <2>2 DEF RegistryInv, RegistryConsistent
<1>. QED  BY <1>1, RegistryInvInit, RegistryInvStep, PTL DEF DeploymentsSpec
-----------------------------------------------------------------------------
(* The requests for logs                                                   *)

\* A set that is listed as a sequence keeps its elements.
LEMMA ListedInSet ==
    ASSUME NEW S, IsFiniteSet(S)
    PROVE  SetToSeq(S) \in Seq(S)
<1>1. Cardinality(S) \in Nat /\ ExistsBijection(1..Cardinality(S), S)
  BY FS_CardinalityType
<1>2. \E f \in [1..Cardinality(S) -> S] : IsInjective(f)
  BY <1>1 DEF ExistsBijection, Bijection, Injection
<1>3. SetToSeq(S) \in [1..Cardinality(S) -> S]
  BY <1>2 DEF SetToSeq
<1>. QED  BY <1>1, <1>3, SeqDef

\* What a request covers.
Covered(r) == r.contracts \X r.events

AnyRequest == [contracts : SUBSET ContractsOf(tcase), events : SUBSET EventsOf(tcase)]

\* The inductive invariant: the graph joins contracts with events.
PlanInv ==
    /\ tcase \in TriggerCases
    /\ tphase \in {"wildcards", "plan"} =>
          /\ tfilters.log.edges \subseteq ContractsOf(tcase) \X EventsOf(tcase)
          /\ tfilters.log.wildcards \subseteq EventsOf(tcase)
    /\ tphase = "plan" =>
          /\ requests \in Seq(AnyRequest)
          /\ tgraph \cup UNION {Covered(requests[i]) : i \in 1..Len(requests)} = tfilters.log.edges
          /\ \A i \in 1..Len(requests) : Covered(requests[i]) \cap tgraph = {}
          /\ \A i, j \in 1..Len(requests) :
                i # j => Covered(requests[i]) \cap Covered(requests[j]) = {}

\* The filter that start_subgraph builds joins contracts with events.
LEMMA FilterOfSources ==
    ASSUME NEW c, NEW s, ToSet(s) \subseteq SourcesOf(c)
    PROVE  /\ LogFilter(s).edges \subseteq ContractsOf(c) \X EventsOf(c)
           /\ LogFilter(s).wildcards \subseteq EventsOf(c)
<1>1. ASSUME NEW d \in SourcesOf(c)
      PROVE  EdgesOf(d) \subseteq ContractsOf(c) \X EventsOf(c) /\ d.events \subseteq EventsOf(c)
  BY DEF EdgesOf, ContractsOf, EventsOf
<1>2. /\ LogFilter(s).edges = UNION {EdgesOf(d) : d \in ToSet(s)}
      /\ LogFilter(s).wildcards
            = UNION {d.events : d \in {d \in ToSet(s) : d.address = NoAddress}}
  BY DEF LogFilter
<1>. QED  BY <1>1, <1>2

\* A vertex of the graph and its neighbours are exactly its edges: nothing is
\* asked for that no data source wants.
LEMMA EdgesAreProduct ==
    ASSUME PlanInv, tphase = "plan", NEW v \in Vertices
    PROVE  /\ {e[1] : e \in EdgesAt(v)} \X {e[2] : e \in EdgesAt(v)} = EdgesAt(v)
           /\ {e[1] : e \in EdgesAt(v)} \subseteq ContractsOf(tcase)
           /\ {e[2] : e \in EdgesAt(v)} \subseteq EventsOf(tcase)
<1>1. tgraph \subseteq ContractsOf(tcase) \X EventsOf(tcase)
  BY DEF PlanInv
<1>2. ContractsOf(tcase) \cap EventsOf(tcase) = {}
  BY LogNodesAssumption DEF PlanInv
<1>3. \A e \in tgraph : e = <<e[1], e[2]>> /\ e[1] \in ContractsOf(tcase) /\ e[2] \in EventsOf(tcase)
  BY <1>1
<1>4. CASE v \in ContractsOf(tcase)
  <2>1. EdgesAt(v) = {e \in tgraph : e[1] = v}
    BY <1>2, <1>3, <1>4 DEF EdgesAt
  <2>. QED  BY <1>3, <2>1
<1>5. CASE v \in EventsOf(tcase)
  <2>1. EdgesAt(v) = {e \in tgraph : e[2] = v}
    BY <1>2, <1>3, <1>5 DEF EdgesAt
  <2>. QED  BY <1>3, <2>1
<1>. QED  BY <1>3, <1>4, <1>5 DEF Vertices

LEMMA PlanInvInit == TriggerInit => PlanInv
BY DEF TriggerInit, PlanInv

LEMMA PlanInvStep == PlanInv /\ [TriggerNext]_triggerVars => PlanInv'
<1>. SUFFICES ASSUME PlanInv, [TriggerNext]_triggerVars
              PROVE  PlanInv'
  OBVIOUS
<1>1. CASE BuildFilters
  <2>1. tfilters'.log = LogFilterExtend(LogFilter(tcase.manifest), LogFilter(tcase.dynamic))
    BY <1>1 DEF BuildFilters
  <2>2. /\ tfilters'.log.edges \subseteq ContractsOf(tcase) \X EventsOf(tcase)
        /\ tfilters'.log.wildcards \subseteq EventsOf(tcase)
    BY <2>1, FilterOfSources DEF LogFilterExtend, SourcesOf
  <2>. QED  BY <1>1, <2>2 DEF BuildFilters, PlanInv
<1>2. CASE PlanWildcards
  <2>. DEFINE W == tfilters.log.wildcards
              R == {Request({}, {e}) : e \in W}
  <2>1. W \subseteq EventsOf(tcase) /\ IsFiniteSet(W)
    BY <1>2, LogNodesAssumption, FS_Subset DEF PlanWildcards, PlanInv
  <2>2. R \subseteq AnyRequest
    BY <2>1 DEF AnyRequest, Request
  <2>3. IsFiniteSet(R)
    <3>. DEFINE f == [e \in W |-> Request({}, {e})]
    <3>1. f \in Surjection(W, R)
      BY DEF Surjection
    <3>. QED  BY <2>1, <3>1, FS_Surjection DEF ExistsSurjection
  <2>4. \A r \in R : Covered(r) = {}
    BY DEF Request, Covered
  <2>5. requests' = SetToSeq(R) /\ tcase' = tcase /\ tphase' = "plan"
        /\ tgraph' = tfilters.log.edges /\ tfilters' = tfilters
    BY <1>2 DEF PlanWildcards
  <2>. HIDE DEF R
  <2>6. requests' \in Seq(R)
    BY <2>3, <2>5, ListedInSet
  <2>7. requests' \in Seq(AnyRequest)
    BY <2>2, <2>6
  <2>8. \A k \in 1..Len(requests') : Covered(requests'[k]) = {}
    BY <2>4, <2>6
  <2>9. /\ tfilters.log.edges \subseteq ContractsOf(tcase) \X EventsOf(tcase)
        /\ tcase \in TriggerCases
    BY <1>2 DEF PlanWildcards, PlanInv
  <2>10. UNION {Covered(requests'[k]) : k \in 1..Len(requests')} = {}
    BY <2>8
  <2>11. AnyRequest' = AnyRequest /\ W \subseteq EventsOf(tcase)
    BY <2>1, <2>5 DEF AnyRequest
  <2>. HIDE DEF W
  <2>12. /\ tgraph' \cup UNION {Covered(requests'[k]) : k \in 1..Len(requests')} = tfilters'.log.edges
         /\ \A k \in 1..Len(requests') : Covered(requests'[k]) \cap tgraph' = {}
         /\ \A k, l \in 1..Len(requests') :
               k # l => Covered(requests'[k]) \cap Covered(requests'[l]) = {}
    BY <2>5, <2>8, <2>10
  <2>. QED  BY <2>5, <2>7, <2>9, <2>11, <2>12 DEF PlanInv, W
<1>3. CASE PlanRequest
  <2>1. PICK v \in Vertices :
            /\ requests' = Append(requests, Request({e[1] : e \in EdgesAt(v)},
                                                    {e[2] : e \in EdgesAt(v)}))
            /\ tgraph' = tgraph \ EdgesAt(v)
    BY <1>3 DEF PlanRequest, WithoutVertex
  <2>. DEFINE r == Request({e[1] : e \in EdgesAt(v)}, {e[2] : e \in EdgesAt(v)})
  <2>2. tphase = "plan" /\ tphase' = "plan" /\ tcase' = tcase /\ tfilters' = tfilters
    BY <1>3 DEF PlanRequest
  <2>3. Covered(r) = EdgesAt(v) /\ r \in AnyRequest /\ EdgesAt(v) \subseteq tgraph
    BY <2>2, EdgesAreProduct DEF Covered, Request, AnyRequest, EdgesAt
  <2>. HIDE DEF r
  <2>4. requests \in Seq(AnyRequest) /\ requests' = Append(requests, r)
    BY <2>1, <2>2 DEF PlanInv, r
  <2>5. /\ requests' \in Seq(AnyRequest)
        /\ Len(requests) \in Nat /\ Len(requests') = Len(requests) + 1
        /\ \A k \in 1..Len(requests) : requests'[k] = requests[k]
        /\ requests'[Len(requests) + 1] = r
    BY <2>3, <2>4
  <2>. DEFINE n == Len(requests)
  <2>6. \A k \in 1..n + 1 : k \in 1..n \/ k = n + 1
    BY <2>5
  <2>7. tgraph' \cup UNION {Covered(requests'[i]) : i \in 1..n + 1} = tfilters.log.edges
    <3>1. UNION {Covered(requests'[i]) : i \in 1..n + 1}
            = EdgesAt(v) \cup UNION {Covered(requests[i]) : i \in 1..n}
      <4>1. \A i \in 1..n : i \in 1..n + 1 /\ Covered(requests'[i]) = Covered(requests[i])
        BY <2>5
      <4>2. n + 1 \in 1..n + 1 /\ Covered(requests'[n + 1]) = EdgesAt(v)
        BY <2>3, <2>5
      <4>. HIDE DEF n
      <4>. QED  BY <2>6, <4>1, <4>2
    <3>2. tgraph \cup UNION {Covered(requests[i]) : i \in 1..n} = tfilters.log.edges
      BY <2>2 DEF PlanInv
    <3>. QED  BY <2>1, <2>3, <3>1, <3>2
  <2>8. ASSUME NEW k \in 1..n + 1
        PROVE  Covered(requests'[k]) \cap tgraph' = {}
    BY <2>1, <2>2, <2>3, <2>5, <2>6 DEF PlanInv
  <2>9. ASSUME NEW k \in 1..n + 1, NEW l \in 1..n + 1, k # l
        PROVE  Covered(requests'[k]) \cap Covered(requests'[l]) = {}
    <3>1. CASE k \in 1..n /\ l \in 1..n
      BY <2>2, <2>5, <2>9, <3>1 DEF PlanInv
    <3>2. CASE k \in 1..n /\ l = n + 1
      BY <2>2, <2>3, <2>5, <3>2 DEF PlanInv
    <3>3. CASE k = n + 1 /\ l \in 1..n
      BY <2>2, <2>3, <2>5, <3>3 DEF PlanInv
    <3>. QED  BY <2>6, <2>9, <3>1, <3>2, <3>3
  <2>. QED  BY <2>2, <2>5, <2>7, <2>8, <2>9 DEF PlanInv, AnyRequest
<1>4. CASE Planned \/ ScanLogs \/ TooManyLogs \/ RpcError \/ NextRequest \/ LogsDone
           \/ ScanCalls \/ CallsDone
  <2>1. tcase' = tcase /\ tphase' \notin {"wildcards", "plan"}
    BY <1>4 DEF Planned, ScanLogs, TooManyLogs, RpcError, NextRequest, LogsDone, ScanCalls, CallsDone
  <2>. QED  BY <2>1 DEF PlanInv
<1>5. CASE UNCHANGED triggerVars
  BY <1>5 DEF triggerVars, PlanInv, AnyRequest
<1>. QED  BY <1>1, <1>2, <1>3, <1>4, <1>5 DEF TriggerNext

\* For any data sources with any contracts and events: the requests that
\* eth_get_logs_filters makes divide the pairs of contract and event that the
\* data sources want, so that every pair is asked for exactly once and none
\* that nobody wants ("The filters will not return false positives").
THEOREM LogRequestsDividePairs == TriggerSpec => []RequestsDividePairs
<1>1. PlanInv => RequestsDividePairs
  BY DEF PlanInv, RequestsDividePairs, Covered
<1>. QED  BY <1>1, PlanInvInit, PlanInvStep, PTL DEF TriggerSpec
=============================================================================
