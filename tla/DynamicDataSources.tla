------------------------- MODULE DynamicDataSources -------------------------
(* Data sources that handlers create while a subgraph is indexed            *)
(* (core/src/subgraph/instance.rs, instance_manager.rs, loader.rs): the     *)
(* hosts of the running instance, the filters of its block stream and the   *)
(* data sources in the store, through reverts of blocks and restarts of the *)
(* node.                                                                    *)
(*                                                                          *)
(* A block is a sequence of triggers.  A trigger belongs to an address and  *)
(* is handled by every host for it; the handler of one data source, its     *)
(* maker, creates others.                                                   *)
EXTENDS Integers, Sequences, FiniteSets, SequencesExt

CONSTANTS
    ManifestSources,    \* the data sources of the manifest, in order
    SourceAddress,      \* the address of every data source
    BlockContents,      \* what blocks may contain
    MAX_DATA_SOURCES,   \* the limit on hosts
    SourceBlocks        \* bound: height of the chain

ASSUME SourcesAssumption ==
    /\ MAX_DATA_SOURCES \in Nat /\ SourceBlocks \in Nat
    /\ ToSet(ManifestSources) \subseteq DOMAIN SourceAddress

VARIABLES
    indexed,     \* the blocks of the chain, and what was handled in each
    hosts,       \* SubgraphInstance::hosts
    listened,    \* the addresses in the filters of the block stream
    persisted,   \* the stored data sources: source and block, in order
    instance,    \* "running", or "failed"
    tainted      \* history: a block was processed with hosts that no block
                 \* of the chain accounts for

sourceVars == <<indexed, hosts, listened, persisted, instance, tainted>>

Height == Len(indexed)

Addressed(sources) == {SourceAddress[d] : d \in ToSet(sources)}

PersistedSources == {p.source : p \in ToSet(persisted)}

SourcesInit ==
    /\ indexed = <<>>
    /\ hosts = ManifestSources
    /\ listened = Addressed(ManifestSources)
    /\ persisted = <<>>
    /\ instance = "running"
    /\ tainted = FALSE

---------------------------------------------------------------------------
(* Processing a block                                                      *)

(* The triggers in a block that a filter for some addresses lets through.  *)
(* Each keeps its place in the block.                                      *)
TriggersFor(block, addresses) ==
    SelectSeq([i \in 1..Len(block) |-> [at |-> i, trigger |-> block[i]]],
              LAMBDA t : t.trigger.address \in addresses)

(* process_trigger_in_runtime_hosts: a trigger is handled by the matching  *)
(* hosts in their order.                                                   *)
HandledBy(trigger, sources) ==
    LET matching == SelectSeq(sources, LAMBDA d : SourceAddress[d] = trigger.trigger.address)
    IN [i \in 1..Len(matching) |-> [source |-> matching[i], at |-> trigger.at]]

Runs(triggers, sources) ==
    FlattenSeq([i \in 1..Len(triggers) |-> HandledBy(triggers[i], sources)])

(* data_source_create, called by the handlers that ran.                    *)
CreatedBy(block, runs) ==
    FlattenSeq([i \in 1..Len(runs) |-> IF runs[i].source = block[runs[i].at].maker
                                       THEN block[runs[i].at].creates ELSE <<>>])

(* add_dynamic_data_source: the limit counts before the host is compared   *)
(* with those that are there.                                              *)
AddSource(acc, d) ==
    IF acc.failed \/ Len(acc.hosts) >= MAX_DATA_SOURCES THEN [acc EXCEPT !.failed = TRUE]
    ELSE IF d \in ToSet(acc.hosts) THEN acc
    ELSE [acc EXCEPT !.hosts = Append(@, d), !.new = Append(@, d)]

(* Faulty variant: new data sources start with the next block.             *)
ReprocessedNever(new) == <<>>

(* The triggers for new data sources are processed in their hosts only.    *)
Reprocessed(new) == new

RECURSIVE CreateSources(_, _, _)
(* The loop of process_block: create what was asked for, process the block *)
(* again for it, until nothing more is asked for.                          *)
CreateSources(block, acc, created) ==
    LET added == FoldLeft(AddSource, [acc EXCEPT !.new = <<>>], created)
        runs  == Runs(TriggersFor(block, Addressed(added.new)), Reprocessed(added.new))
        next  == [added EXCEPT !.runs = @ \o runs, !.all = @ \o added.new]
    IN IF created = <<>> \/ added.failed THEN [acc EXCEPT !.failed = added.failed]
       ELSE CreateSources(block, next, CreatedBy(block, runs))

(* process_block up to the transaction.                                    *)
Processed(block) ==
    LET runs == Runs(TriggersFor(block, listened), hosts)
    IN CreateSources(block, [hosts |-> hosts, new |-> <<>>, all |-> <<>>, runs |-> runs,
                             failed |-> FALSE],
                     CreatedBy(block, runs))

Stale == ToSet(hosts) \ (ToSet(ManifestSources) \cup PersistedSources)

(* process_block: the sources are stored with the block they come from, in *)
(* one transaction with everything the handlers wrote.                     *)
ProcessSourceBlock(block) ==
    LET done == Processed(block)
    IN /\ instance = "running" /\ Height < SourceBlocks
       /\ ~done.failed
       /\ indexed' = Append(indexed, [block |-> block, runs |-> done.runs])
       /\ hosts' = done.hosts
       /\ listened' = listened \cup Addressed(done.all)
       /\ persisted' = persisted \o [i \in 1..Len(done.all) |->
                           [source |-> done.all[i], block |-> Height + 1]]
       /\ tainted' = (tainted \/ Stale # {})
       /\ UNCHANGED instance

(* An error in a handler, or the limit: the task ends, nothing is written. *)
ProcessingFails(block) ==
    /\ instance = "running" /\ Height < SourceBlocks
    /\ Processed(block).failed
    /\ instance' = "failed"
    /\ UNCHANGED <<indexed, hosts, listened, persisted, tainted>>

(* The block stream reverts the last block: its data sources leave the     *)
(* store.  The instance keeps them.                                        *)
RevertSourceBlock ==
    /\ instance = "running" /\ Height > 0
    /\ indexed' = Front(indexed)
    /\ persisted' = SelectSeq(persisted, LAMBDA p : p.block < Height)
    /\ UNCHANGED <<hosts, listened, instance, tainted>>

(* load_dynamic_data_sources: by id, which is random.                      *)
Orders == {s \in [1..Len(persisted) -> PersistedSources] : IsInjective(s)}

(* The node starts again: the manifest's data sources, then the stored.    *)
RestartSubgraph ==
    /\ \E loaded \in Orders :
          /\ hosts' = ManifestSources \o loaded
          /\ listened' = Addressed(ManifestSources \o loaded)
    /\ instance' = "running"
    /\ UNCHANGED <<indexed, persisted, tainted>>

SourcesNext ==
    \/ \E block \in BlockContents : ProcessSourceBlock(block) \/ ProcessingFails(block)
    \/ RevertSourceBlock
    \/ RestartSubgraph

SourcesSpec == SourcesInit /\ [][SourcesNext]_sourceVars

---------------------------------------------------------------------------
(* Properties                                                              *)

RECURSIVE Closure(_, _)
(* All data sources after a block, given those before.                     *)
Closure(block, sources) ==
    LET more == UNION {ToSet(t.creates) : t \in {t \in ToSet(block) :
                          t.maker \in sources /\ SourceAddress[t.maker] = t.address}}
    IN IF more \subseteq sources THEN sources ELSE Closure(block, sources \cup more)

RECURSIVE SourcesAt(_)
(* The data sources that the first blocks of the chain account for.        *)
SourcesAt(n) == IF n = 0 THEN ToSet(ManifestSources)
                ELSE Closure(indexed[n].block, SourcesAt(n - 1))

(* Blocks, hosts and stored data sources are what they should be in shape, *)
(* and the instance listens to every host's address.                       *)
SourcesTypeOK ==
    /\ instance \in {"running", "failed"} /\ tainted \in BOOLEAN
    /\ Addressed(hosts) \subseteq listened
    /\ \A p \in ToSet(persisted) : p.block \in 1..Height
    /\ Len(hosts) <= MAX_DATA_SOURCES

(* No data source has two hosts or is stored twice, so that none handles a *)
(* trigger twice: whatever handlers create again, in one block or after a  *)
(* revert, and whatever the store gives back at a restart.                 *)
EverySourceOnce ==
    /\ IsInjective(hosts)
    /\ IsInjective([i \in 1..Len(persisted) |-> persisted[i].source])
    /\ PersistedSources \cap ToSet(ManifestSources) = {}
    /\ \A n \in 1..Height : IsInjective(indexed[n].runs)

(* As long as no block is processed by hosts of reverted blocks, the store *)
(* has exactly the data sources of the chain, each with its block, and in  *)
(* every block exactly those of that moment have handled its triggers,     *)
(* even those created by triggers of the same block.                       *)
SourcesOfTheChain ==
    ~tainted =>
        /\ \A n \in 1..Height :
              {r.source : r \in {r \in ToSet(persisted) : r.block = n}}
              = SourcesAt(n) \ SourcesAt(n - 1)
        /\ \A n \in 1..Height :
              ToSet(indexed[n].runs) =
                  {r \in [source : SourcesAt(n), at : 1..Len(indexed[n].block)] :
                      SourceAddress[r.source] = indexed[n].block[r.at].address}

(* What persist_dynamic_data_sources says it is for: what handlers create  *)
(* is in the store, so that it is there after a restart.                   *)
CreatedSourcesStored == SourcesAt(Height) \ ToSet(ManifestSources) \subseteq PersistedSources

(* The data sources of the instance and of the store are those of the      *)
(* chain, each once, through reverts and restarts.                         *)
SourcesConsistent == SourcesTypeOK /\ EverySourceOnce /\ SourcesOfTheChain
=============================================================================
