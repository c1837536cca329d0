--------------------------- MODULE QueryExecution ---------------------------
(* One GraphQL query against a subgraph, as graphql/src/runner.rs and      *)
(* graphql/src/store/prefetch.rs and resolver.rs execute it: the state of  *)
(* the deployment is read and the block located, then the entities are     *)
(* fetched level by level, one request to the store for each level however *)
(* many parents there are, and handed to their parents; in the end the     *)
(* runner checks that no revert has disturbed the query.  Between any two  *)
(* requests the indexer may add a block to the subgraph or revert one.     *)
EXTENDS EntityQueries

CONSTANTS
    Workloads,     \* pairs of the rows of the subgraph and a query: its
                   \* fields for each level, its block, whether it is disturbed
    max_first,     \* limits for the arguments first and skip
    max_skip,
    LatestBlock,   \* the subgraph's block when the query starts
    MaxBlock,      \* bound: blocks the indexer adds
    MaxReverts,    \* bound: blocks the indexer reverts
    Infinity,      \* end of an open block range
    FirstVid       \* the vids of the rows there are to begin with are below

(* The rows of a subgraph whose block is LatestBlock.                      *)
StoredRow(r) ==
    /\ r = [type |-> r.type, id |-> r.id, vid |-> r.vid, n |-> r.n, up |-> r.up,
            kids |-> r.kids, from |-> r.from, to |-> r.to]
    /\ r.id \in Nat /\ r.vid \in Nat /\ r.vid < FirstVid
    /\ r.from \in 0..LatestBlock /\ r.to \in 1..LatestBlock \cup {Infinity}

(* Types whose entities a field of the query may hold together: the        *)
(* implementations of an interface.                                        *)
Together(fields, type, other) ==
    \/ type = other
    \/ \E k \in 1..Len(fields) : type \in fields[k].types /\ other \in fields[k].types

(* The vid is the primary key of a table, the block ranges of an entity    *)
(* exclude each other, and check_interface_entity_uniqueness keeps ids     *)
(* unique among the implementations of an interface.                       *)
Unique(rows, fields) ==
    \A r, q \in rows :
        /\ r.type = q.type /\ r.vid = q.vid => r = q
        /\ r.id = q.id /\ Together(fields, r.type, q.type) =>
              r = q \/ r.to <= q.from \/ q.to <= r.from

ASSUME BlockAssumption ==
    MaxBlock \in Nat /\ LatestBlock \in 0..MaxBlock /\ Infinity \in Nat
    /\ Infinity > MaxBlock /\ FirstVid \in Nat

(* A field as the API schema lets it be: one for a single object does not  *)
(* take the arguments first and skip.                                      *)
FieldArguments(args) ==
    /\ IsFiniteSet(args.types) /\ args.single \in BOOLEAN
    /\ args.first \in Int \cup {Null} /\ args.skip \in Int \cup {Null}
    /\ args.single => args.first = Null /\ args.skip = Null

ASSUME WorkloadAssumption ==
    \A w \in Workloads :
        /\ IsFiniteSet(w[1]) /\ Unique(w[1], w[2].fields) /\ \A r \in w[1] : StoredRow(r)
        /\ w[2].number \in Nat \cup {Null}
        /\ Len(w[2].fields) \in Nat \ {0}
        /\ \A k \in 1..Len(w[2].fields) : FieldArguments(w[2].fields[k])

VARIABLES
    db,        \* the rows of the subgraph
    head,      \* block_ptr of the subgraph
    reorgs,    \* reorg_count, current_reorg_depth and max_reorg_depth
    state,     \* the DeploymentState that was read when the query came in
    request,   \* the query
    start,     \* the rows when its block was located
    block,     \* StoreResolver.block
    levels,    \* the nodes of each level: rows with the parent they are for
    phase      \* "new", "locate", "fetch", "done" or an error

storeVars == <<db, head, reorgs>>
queryVars == <<storeVars, state, request, start, block, levels, phase>>

Errors == {"RangeArgumentsError", "ValueParseError", "Timeout", "DeploymentReverted"}

QueryInit ==
    /\ \E w \in Workloads : db = w[1] /\ request = w[2]
    /\ head = LatestBlock
    /\ reorgs = [count |-> 0, current |-> 0, max |-> 0]
    /\ state = [count |-> 0, latest |-> 0]
    /\ start = {}
    /\ block = 0
    /\ levels = <<>>
    /\ phase = "new"

(* The object types of a field's entities: one, or the implementations of  *)
(* an interface.                                                           *)
TypesOf(level) == request.fields[level].types

---------------------------------------------------------------------------
(* Arguments                                                               *)

(* build_range: first between 1 and max_first, skip between 0 and max_skip,*)
(* 100 and 0 by default.                                                   *)
RangeError(args) == \/ args.first # Null /\ args.first \notin 1..max_first
                    \/ args.skip # Null /\ args.skip \notin 0..max_skip

BuildRange(args) == [first |-> IF args.first = Null THEN 100 ELSE args.first,
                     skip |-> IF args.skip = Null THEN 0 ELSE args.skip]

(* build_order_by and build_order_direction: a direction without a field   *)
(* is ignored, and anything but desc is ascending.                         *)
BuildOrder(args) == IF ~args.byN THEN "id"
                    ELSE IF args.direction = "desc" THEN "desc" ELSE "asc"

(* build_query as execute_field and fetch call it: no order for a field    *)
(* with a single object.                                                   *)
BuildQuery(level, args) ==
    [types |-> TypesOf(level), block |-> block, filter |-> args.filter,
     range |-> BuildRange(args), single |-> args.single,
     order |-> IF args.single THEN "none" ELSE BuildOrder(args)]

---------------------------------------------------------------------------
(* Prefetching                                                             *)

(* JoinCond: whether the field of a parent type is derived from a field of *)
(* the child or holds the children's ids itself.                           *)
Direct(args, parentType) == parentType \in args.derived

NamesAChild(args, type, row) == Direct(args, type) \/ row.kids # {}

(* Join::windows with JoinCond::entity_link: one window for each pair of a *)
(* parent and a child type, with the parents of that type without          *)
(* duplicates and, when they hold the ids, only those that name a child.   *)
Windows(level, args, parents) ==
    LET rows(type)  == {n.row : n \in {n \in parents : n.row.type = type}}
        ids(type)   == {r.id : r \in {r \in rows(type) : NamesAChild(args, type, r)}}
        kids(type)  == [id \in ids(type) |-> UNION {r.kids : r \in {r \in rows(type) : r.id = id}}]
    IN {[parent |-> type, type |-> child, direct |-> Direct(args, type),
         ids |-> ids(type), kids |-> kids(type)]
        : type \in {t \in TypesOf(level - 1) : rows(t) # {}}, child \in TypesOf(level)}

(* fetch: what the store may return for the nodes of the level above.      *)
Fetch(level, args, parents) ==
    LET query   == BuildQuery(level, args)
        windows == Windows(level, args, parents)
    IN IF windows = {} THEN {{}} ELSE WindowResults(db, query, windows)

(* Join::perform: a parent gets, in order, the children that carry its id; *)
(* a single parent gets them all.                                          *)
Perform(parents, children, node) ==
    IF Cardinality(parents) = 1 THEN children
    ELSE {c \in children : c.parent = node.row.id}

(* The entities of the first level have the query for a parent.            *)
Root(rows) == Placed(0, rows)

(* The nodes of a level: the same entity under two parents is two nodes.   *)
Level(k) == IF k \in 1..Len(levels) THEN levels[k] ELSE {}

ChildrenOfNode(k, node) == Perform(Level(k), Level(k + 1), node)

---------------------------------------------------------------------------
(* The steps of the query                                                  *)

Failed(error) == phase' = error /\ UNCHANGED <<request, start, block, levels>>

(* deployment_state_from_id or _from_name, by the server that received the *)
(* query.                                                                  *)
ReadState ==
    /\ phase = "new"
    /\ state' = [count |-> reorgs.count, latest |-> head]
    /\ phase' = "locate"
    /\ UNCHANGED <<storeVars, request, start, block, levels>>

(* StoreResolver::locate_block: a number the subgraph has not reached yet  *)
(* is refused, and Latest is the block of the moment.                      *)
LocateBlock ==
    /\ phase = "locate"
    /\ UNCHANGED <<storeVars, state>>
    /\ IF request.number # Null /\ head < request.number
       THEN Failed("ValueParseError")
       ELSE /\ block' = IF request.number # Null THEN request.number ELSE head
            /\ start' = db
            /\ phase' = "fetch"
            /\ UNCHANGED <<request, levels>>

(* execute_root_selection_set                                              *)
ExecuteRoot ==
    LET args == request.fields[1]
    IN /\ phase = "fetch" /\ levels = <<>>
       /\ UNCHANGED <<storeVars, state>>
       /\ IF RangeError(args) THEN Failed("RangeArgumentsError")
          ELSE /\ levels' = <<Root(QueryNoWindow(db, BuildQuery(1, args)))>>
               /\ UNCHANGED <<request, start, block, phase>>

(* execute_selection_set and execute_field for the next level; nothing is  *)
(* fetched for no parents.                                                 *)
ExecuteField ==
    LET level == Len(levels) + 1
        args  == request.fields[level]
    IN /\ phase = "fetch" /\ levels # <<>>
       /\ level <= Len(request.fields)
       /\ UNCHANGED <<storeVars, state>>
       /\ \/ /\ levels[level - 1] = {}
             /\ levels' = Append(levels, {})
             /\ UNCHANGED <<request, start, block, phase>>
          \/ /\ levels[level - 1] # {} /\ RangeError(args)
             /\ Failed("RangeArgumentsError")
          \/ /\ levels[level - 1] # {} /\ ~RangeError(args)
             /\ \E children \in Fetch(level, args, levels[level - 1]) :
                    levels' = Append(levels, children)
             /\ UNCHANGED <<request, start, block, phase>>

(* The deadline has passed when the next field is about to be executed.    *)
DeadlinePassed ==
    /\ phase = "fetch"
    /\ Len(levels) < Len(request.fields)
    /\ request.disturbed
    /\ Failed("Timeout")
    /\ UNCHANGED <<storeVars, state>>

(* Faulty variant: only reverts of the query's own block are looked for.   *)
DeploymentChangedAtBlock ==
    reorgs.count > state.count /\ block + 1 > state.latest

(* deployment_changed: reverts since the state was read may have touched   *)
(* the block of the query, judging by how deep reverts ever went.          *)
DeploymentChanged ==
    /\ reorgs.count > state.count
    /\ block + reorgs.max * (reorgs.count - state.count) > state.latest

(* The end of GraphQlRunner::execute.                                      *)
FetchDone ==
    /\ phase = "fetch" /\ Len(levels) = Len(request.fields)
    /\ phase' = IF DeploymentChanged THEN "DeploymentReverted" ELSE "done"
    /\ UNCHANGED <<storeVars, state, request, start, block, levels>>

Running == phase \in {"new", "locate", "fetch"}

(* nextval of the sequence behind vid, which does not go back when a block *)
(* is reverted: one number for each block that was ever added.             *)
NextVid == FirstVid + head + reorgs.count

(* The indexer, for queries that run next to it: a new block changes the   *)
(* attribute of an entity and takes its children from it                   *)
(* (forward_block_ptr) ...                                                 *)
IndexBlock ==
    /\ request.disturbed /\ Running
    /\ head < MaxBlock
    /\ head' = head + 1
    /\ \E r \in {r \in db : r.to = Infinity} :
          db' = (db \ {r}) \cup
                {[r EXCEPT !.to = head'],
                 [r EXCEPT !.from = head', !.vid = NextVid, !.n = 3, !.kids = {}]}
    /\ reorgs' = [reorgs EXCEPT !.current = 0]
    /\ UNCHANGED <<state, request, start, block, levels, phase>>

(* revert_block_ptr *)
CountedRevert ==
    LET depth == reorgs.current + 1
    IN [count |-> reorgs.count + 1, current |-> depth,
        max |-> IF depth > reorgs.max THEN depth ELSE reorgs.max]

(* ... and a revert undoes the last block.                                 *)
RevertBlock ==
    /\ request.disturbed /\ Running
    /\ head > 0 /\ reorgs.count < MaxReverts
    /\ head' = head - 1
    /\ db' = {IF r.to = head THEN [r EXCEPT !.to = Infinity] ELSE r
              : r \in {r \in db : r.from # head}}
    /\ reorgs' = CountedRevert
    /\ UNCHANGED <<state, request, start, block, levels, phase>>

QueryNext ==
    \/ ReadState \/ LocateBlock \/ ExecuteRoot \/ ExecuteField \/ FetchDone
    \/ DeadlinePassed \/ IndexBlock \/ RevertBlock

QuerySpec == QueryInit /\ [][QueryNext]_queryVars

---------------------------------------------------------------------------
(* Properties                                                              *)

(* The state of a query keeps its shape: it never has more levels than     *)
(* fields, and every node is a row of a type its level is about.           *)
QueryTypeOK ==
    /\ phase \in {"new", "locate", "fetch", "done"} \cup Errors
    /\ Len(levels) <= Len(request.fields)
    /\ \A k \in 1..Len(levels) : \A n \in levels[k] : n.row.type \in TypesOf(k)
    /\ head \in 0..MaxBlock /\ block \in 0..MaxBlock

(* What a field means for one parent on its own: the entities linked to it *)
(* that pass the filter, in order, cut to the range.                       *)
LinkedRows(args, level, node) ==
    {r \in start : /\ r.type \in TypesOf(level) /\ BlockRangeContains(r, block)
                   /\ r.n \in args.filter
                   /\ IF Direct(args, node.row.type) THEN node.row.id \in r.up
                      ELSE r.id \in node.row.kids}

Naive(args, level, node) ==
    Ranged(BuildOrder(args), BuildRange(args), LinkedRows(args, level, node))

(* The data of a row without its block range, which later blocks may close.*)
Data(row) == [type |-> row.type, id |-> row.id, vid |-> row.vid]

RowsOf(nodes) == {[row |-> Data(n.row), place |-> n.place] : n \in nodes}

(* Batching is invisible: one request for all parents of a level, through  *)
(* windows, interfaces and shared children, gives every parent of a list   *)
(* field exactly the children, the order and the range that a request of   *)
(* its own at the located block would give it, whatever the indexer does   *)
(* meanwhile.                                                              *)
BatchesMatchSingleRequests ==
    phase = "done" =>
        \A k \in 1..Len(levels) - 1 : \A node \in levels[k] :
            ~request.fields[k + 1].single =>
                RowsOf(ChildrenOfNode(k, node))
                    = RowsOf(Naive(request.fields[k + 1], k + 1, node))

(* The limit for fields with a single object loses nothing: either every   *)
(* parent gets the one entity linked to it, or some parent gets several    *)
(* and the whole query fails with AmbiguousDerivedFromResult, which can    *)
(* only happen when the data are really ambiguous.                         *)
SingleObjectsExact ==
    phase = "done" =>
        \A k \in 1..Len(levels) - 1 :
            LET args == request.fields[k + 1]
                got(node) == {Data(n.row) : n \in ChildrenOfNode(k, node)}
                linked(node) == {Data(r) : r \in LinkedRows(args, k + 1, node)}
            IN args.single =>
                  \/ \A node \in levels[k] : got(node) = linked(node)
                                             /\ Cardinality(got(node)) <= 1
                  \/ \E node \in levels[k] : Cardinality(got(node)) > 1
                                             /\ got(node) \subseteq linked(node)

(* A query that runs next to the indexer returns the entities of one       *)
(* moment: all of them as of the located block as the subgraph was then,   *)
(* although each level is a request of its own and the block is kept as a  *)
(* number.  A revert in between makes the runner discard the result.       *)
DeliveredAsOfLocatedBlock ==
    phase = "done" =>
        \A k \in 1..Len(levels) : \A n \in levels[k] :
            \E r \in start : /\ r.vid = n.row.vid /\ r.type = n.row.type /\ r.n = n.row.n
                             /\ BlockRangeContains(r, block)

\* Every level of a query holds, for every parent, what a request for that parent
\* alone would give, in batches, through interfaces and for single objects.
LevelsExact == QueryTypeOK /\ BatchesMatchSingleRequests /\ SingleObjectsExact
============================================================================
