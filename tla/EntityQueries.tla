--------------------------- MODULE EntityQueries ---------------------------
(* The SQL that graph-node's relational storage generates for a query      *)
(* (store/postgres/src/relational_queries.rs), by what Postgres returns    *)
(* for it: sort keys, ranges, and the four shapes of an entity query, with *)
(* and without windows that hold the parents the entities are fetched for. *)
(* Filters have a module of their own, EntityFilters; here a filter is the *)
(* set of values that pass it.                                             *)
(*                                                                         *)
(* A row is a record with its type (the table), id, vid (unique within a   *)
(* table), n (an attribute to sort and filter by, possibly Null), up (the  *)
(* ids in its column that points to parents), kids (the ids in its column  *)
(* that points to children) and the block range from, to.                  *)
EXTENDS Integers, Sequences, FiniteSets, SequencesExt

CONSTANTS
    TYPEA_BATCH_SIZE,  \* below it child_type_a adds a redundant clause
    Null               \* SQL null, a model value

ASSUME BatchAssumption == TYPEA_BATCH_SIZE \in Nat

ASSUME NullAssumption == Null \notin BOOLEAN

---------------------------------------------------------------------------
(* Sorting and ranges                                                      *)

(* A query orders by n ascending or descending, by id (the default), or    *)
(* not at all.  Nulls come last in both directions, and the id breaks ties.*)
Orders == {"asc", "desc", "id", "none"}

SortsBefore(order, a, b) ==
    IF order = "id" \/ a.n = b.n THEN a.id < b.id
    ELSE IF a.n = Null \/ b.n = Null THEN b.n = Null
    ELSE IF order = "asc" THEN a.n < b.n ELSE a.n > b.n

(* Where a row stands among rows that are sorted.                          *)
Place(order, rows, row) ==
    Cardinality({r \in rows : r = row \/ SortsBefore(order, r, row)})

(* FilterRange, limit {first} offset {skip}, of rows that are sorted: what *)
(* is left of them, with the place each has in the result.                 *)
Ranged(order, range, rows) ==
    {p \in {[row |-> r, place |-> Place(order, rows, r) - range.skip] : r \in rows}
        : p.place \in 1..range.first}

---------------------------------------------------------------------------
(* Entity queries                                                          *)

BlockRangeContains(row, block) == row.from <= block /\ block < row.to

(* The rows of a table at a block that pass the filter (given as the set   *)
(* of values of n that pass).                                              *)
FilteredRows(db, type, filter, block) ==
    {r \in db : r.type = type /\ BlockRangeContains(r, block) /\ r.n \in filter}

(* query_no_window_one_entity and query_no_window: the matches of all      *)
(* tables are put together, sorted and cut before their data are fetched   *)
(* by table and vid.                                                       *)
QueryNoWindow(db, query) ==
    Ranged(query.order, query.range,
           UNION {FilteredRows(db, type, query.filter, query.block) : type \in query.types})

(* A window: the child and the parent type, the parents' ids, whether the child points to *)
(* the parent (direct) or the parent to its children, and then the ids the *)
(* parents name.  TableLink, ParentIds; ids are kept as sets, so that      *)
(* neither the padding of the lists nor their order shows.                 *)
Links(window, id, row) ==
    IF window.direct
    THEN /\ id \in row.up
         /\ Cardinality(window.ids) < TYPEA_BATCH_SIZE => row.up \cap window.ids # {}
    ELSE row.id \in window.kids[id]

(* children_type_a, _b and _c without their limit: the rows for one parent.*)
ChildrenOf(db, query, window, id) ==
    {r \in FilteredRows(db, window.type, query.filter, query.block)
        : Links(window, id, r)}

(* A result is a set of records: a parent's id, a row, and the row's place *)
(* among the rows that the query returns for that parent (0 when the query *)
(* does not order).                                                        *)
Placed(id, rows) == {[parent |-> id, row |-> p.row, place |-> p.place] : p \in rows}

(* Faulty variant: one limit for all parents together.                     *)
LimitedTogether(db, query, window) ==
    LET all == UNION {ChildrenOf(db, query, window, id) : id \in window.ids}
        cut == {p.row : p \in Ranged(query.order, query.range, all)}
    IN UNION {Placed(id, Ranged(query.order, [first |-> query.range.first, skip |-> 0],
                                cut \cap ChildrenOf(db, query, window, id)))
              : id \in window.ids}

(* query_window_one_entity with ParentLimit::Ranked and many children: a   *)
(* lateral join, sorted and cut for each parent.                           *)
RankedChildren(db, query, window) ==
    UNION {Placed(id, Ranged(query.order, query.range, ChildrenOf(db, query, window, id)))
           : id \in window.ids}

SingleLimit(ids) == Cardinality(ids) + 1

(* child_type_a, _b and _d: at most one child for each parent is expected, *)
(* so nothing is sorted and any SingleLimit rows are returned.             *)
SingleChildren(db, query, window) ==
    LET all == UNION {{[parent |-> id, row |-> r, place |-> 0]
                          : r \in ChildrenOf(db, query, window, id)}
                      : id \in window.ids}
        n   == IF Cardinality(all) < SingleLimit(window.ids)
               THEN Cardinality(all) ELSE SingleLimit(window.ids)
    IN {rows \in SUBSET all : Cardinality(rows) = n}

(* query_window, first half: for each parent of any window, the matches of *)
(* all windows put together, sorted and cut.  A match names table and vid. *)
Matches(db, query, windows, id) ==
    LET all == UNION {ChildrenOf(db, query, w, id) : w \in {w \in windows : id \in w.ids}}
    IN Placed(id, Ranged(IF query.order = "none" THEN "id" ELSE query.order,
                         query.range, all))

(* query_window, second half: the data of a match, from the table it names.*)
MatchData(db, m) ==
    {[m EXCEPT !.row = r] : r \in {r \in db : r.vid = m.row.vid /\ r.type = m.row.type}}

(* FilterWindow::collect_parents                                           *)
CollectParents(windows) == UNION {w.ids : w \in windows}

QueryWindow(db, query, windows) ==
    UNION {UNION {MatchData(db, m) : m \in Matches(db, query, windows, id)}
           : id \in CollectParents(windows)}

(* FilterQuery::walk_ast for a collection of windows: the set of results   *)
(* that Postgres may return.                                               *)
WindowResults(db, query, windows) ==
    IF Cardinality(windows) # 1 THEN {QueryWindow(db, query, windows)}
    ELSE LET window == CHOOSE w \in windows : TRUE
         IN IF query.single THEN SingleChildren(db, query, window)
            ELSE {RankedChildren(db, query, window)}

============================================================================
