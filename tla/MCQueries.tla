----------------------------- MODULE MCQueries -----------------------------
(* Five instances that share a run and nothing else.                       *)
(*   query: queries over two parents and three children of two types each, *)
(*     linked in every possible way;                                       *)
(*   filter: every filter the API schema offers, over short texts;         *)
(*   selection: nested selections with fragments, interfaces and aliases;  *)
(*   load: two shapes of queries that are measured and declined;           *)
(*   caching: two clients that share caches and one permit, with queries   *)
(*     for the latest block, for a number and for the deployments' status. *)
EXTENDS QueryExecution, EntityFilters, Selections, LoadManager, QueryCaching

VARIABLE part   \* the part of the system at work

Pairs == {1, 2} \X {3, 4, 5}

Attributes == {<<Null, 1, 2>>, <<2, 1, 1>>, <<1, Null, Null>>}

Row(type, id, vid, n, up, kids) ==
    [type |-> type, id |-> id, vid |-> vid, n |-> n, up |-> up, kids |-> kids,
     from |-> 0, to |-> Infinity]

(* A child's id order differs from its vid order, and tables share vids.   *)
Database(types, n, links) ==
    LET kids(p) == {l[2] : l \in {l \in links : l[1] = p}}
        up(c)   == {l[1] : l \in {l \in links : l[2] = c}}
    IN {Row(types[1], 1, 1, 1, {}, kids(1)), Row(types[2], 2, 2, Null, {}, kids(2)),
        Row("C1", 3, 2, n[1], up(3), up(3)), Row("C2", 4, 1, n[2], up(4), up(4)),
        Row("C1", 5, 1, n[3], up(5), up(5))}

Databases == {Database(types, n, links) : types \in {<<"P1", "P1">>, <<"P1", "P2">>},
                                          n \in Attributes, links \in SUBSET Pairs}

OneDatabase == Database(<<"P1", "P2">>, <<2, 1, 1>>, {<<1, 3>>, <<1, 4>>, <<2, 4>>, <<2, 5>>})

AnyN == {Null, 1, 2, 3}

Args(types, byN, direction, first, skip, filter, single, derived) ==
    [types |-> types, byN |-> byN, direction |-> direction, first |-> first,
     skip |-> skip, filter |-> filter, single |-> single, derived |-> derived]

Parents == {"P1", "P2"}

Children == {"C1", "C2"}

All(types, derived) == Args(types, FALSE, "asc", Null, Null, AnyN, FALSE, derived)

Listed == {Args(types, byN, dir, range[1], range[2], filter, FALSE, derived)
            : types \in {Children, {"C1"}}, byN \in BOOLEAN, dir \in {"asc", "desc"},
              range \in {<<1, 1>>, <<2, 0>>}, filter \in {AnyN, {1, 2}},
              derived \in {{}, {"P1"}, Parents}}

Singles == {Args(types, FALSE, "asc", Null, Null, AnyN, TRUE, derived)
            : types \in {Children, {"C1"}}, derived \in {{}, {"P1"}, Parents}}

OutOfRange == {Args(Parents, FALSE, "asc", r[1], r[2], AnyN, FALSE, {})
                : r \in {<<0, 0>>, <<1, 4>>}}

Grandparents == Args(Parents, TRUE, "desc", 1, Null, AnyN, FALSE, {})

Query(fields, number, disturbed) ==
    [fields |-> fields, number |-> number, disturbed |-> disturbed]

Undisturbed ==
    {Query(<<All(Parents, {}), f>>, Null, FALSE) : f \in Listed \cup Singles \cup OutOfRange}
    \cup {Query(<<All(Parents, {}), All(Children, {"P1"}), Grandparents>>, Null, FALSE)}
    \cup {Query(<<f, All(Children, {})>>, Null, FALSE) : f \in OutOfRange}

Disturbed ==
    {Query(<<All(Parents, {}), All(Children, {"P1"})>>, number, TRUE) : number \in {Null, 1, 2}}

MCWorkloads == (Databases \X Undisturbed) \cup ({OneDatabase} \X Disturbed)

---------------------------------------------------------------------------
(* Filters *)

Texts == UNION {[1..n -> {1, 2}] : n \in 0..3}

Patterns == {<<Wildcard, 1>>, <<1, Wildcard>>}

V(kind, v) == [kind |-> kind, v |-> v]

NullValue == V("null", {})

TextValues == {V("text", t) : t \in Texts \cup Patterns}

ListsOf(values) == {V("list", vs) : vs \in {vs \in SUBSET values : Cardinality(vs) <= 2}}

Case(name, type, suffix, value, column) ==
    [name |-> name, type |-> type, suffix |-> suffix, value |-> value, column |-> column]

InSuffixes == {<<"in">>, <<"not", "in">>}

CasesFor(type, values, columns) ==
    {Case(name, type, suffix, value, column)
        : name \in {<<"a">>, <<"gt", "a">>}, suffix \in OfferedSuffixes(type) \ InSuffixes,
          value \in values \cup {NullValue}, column \in columns \cup {Null}}
    \cup {Case(<<"a">>, type, suffix, value, column)
        : suffix \in OfferedSuffixes(type) \cap InSuffixes,
          value \in ListsOf(values \cup {NullValue}) \cup {NullValue},
          column \in columns \cup {Null}}

MCFilterCases ==
    CasesFor("String", TextValues, Texts)
    \cup CasesFor("Bytes", {V("bytes", t) : t \in {<<1>>, <<1, 2>>}},
                  {<<1>>, <<1, 2>>, <<2, 1, 2>>})
    \cup CasesFor("Int", {V("number", n) : n \in 1..2}, 1..3)
    \cup CasesFor("Boolean", {V("bool", b) : b \in BOOLEAN}, BOOLEAN)
    \cup CasesFor("List", ListsOf({V("number", n) : n \in 1..2}), SUBSET (1..2))

---------------------------------------------------------------------------
(* Selections: an interface within another one, a field for one entity and *)
(* one for several, fragments that spread others, aliases.                 *)

F(key, name, first, sel) ==
    [kind |-> "field", key |-> key, name |-> name, first |-> first, selections |-> sel]

Inline(on, sel) == [kind |-> "inline", on |-> on, selections |-> sel]

Spread(name) == [kind |-> "spread", name |-> name]

Frag(on, sel) == [on |-> on, selections |-> sel]

MCObjectTypes == <<"A", "B", "C">>

MCInterfaces == [I |-> {"A", "B"}, J |-> {"A", "B", "C"}]

FieldOf(base, list) == [base |-> base, list |-> list]

EntityFields == [s |-> FieldOf("scalar", FALSE), r |-> FieldOf("I", FALSE),
                 q |-> FieldOf("A", TRUE)]

MCTypeFields ==
    [t \in {"A", "B", "C", "I", "J"} |-> EntityFields]
    @@ [Query |-> [things |-> FieldOf("I", TRUE), as |-> FieldOf("A", TRUE)]]

Leaf == <<F("s", "s", 1, <<>>)>>

Deep == <<F("r", "r", 1, Leaf)>>

Refs == {F("r", "r", 1, Leaf), F("x", "r", 1, Deep), F("x", "q", 1, Leaf), F("q", "q", 2, Deep)}

Inlines == {Inline(on, <<f>>) : on \in {"none", "I", "J", "A", "B"}, f \in Refs \cup {Spread("F")}}

Items == Refs \cup Inlines \cup {Spread("F")}

Sets == {<<i>> : i \in Items} \cup {<<i, j>> : i \in Items, j \in Items}

Fragments ==
    {[F |-> Frag(on, sel), G |-> Frag("I", <<F("r", "r", 1, Leaf)>>)]
        : on \in {"I", "J", "A"},
          sel \in {<<F("r", "r", 1, Leaf)>>, <<Spread("G")>>,
                   <<Inline("B", <<F("x", "q", 1, Leaf)>>), F("r", "r", 1, Deep)>>}}

RootFragment == [F |-> Frag("Query", <<F("things", "things", 1, Leaf)>>)]

(* Roots with large, zero and negative limits, deep ones and invalid ones. *)
Roots ==
    {<<F("things", "things", n, <<F("q", "q", m, Deep)>>),
       F("as", "as", k, <<F("r", "r", 1, <<F("q", "q", m, Leaf)>>)>>)>>
        : n \in {-1, 0, 1, 2, 4}, m \in {-1, 1, 3}, k \in {-1, 1, 2, 4}}
    \cup {<<F("as", "as", -1, Leaf), F("r", "r", 1, Leaf)>>,
          <<F("as", "as", 1, Leaf), Spread("F")>>,
          <<F("as", "as", 1, <<F("r", "r", 1, <<F("r", "r", 1, <<F("r", "r", 1, Deep)>>)>>)>>)>>}

MCDocuments ==
    {[root |-> <<F(root, root, 1, set)>>, fragments |-> fs]
        : root \in {"things", "as"}, set \in Sets, fs \in Fragments}
    \cup {[root |-> root, fragments |-> RootFragment] : root \in Roots}

---------------------------------------------------------------------------
(* Clients of the cached queries *)

ClientRequest(q, by, n) == [query |-> q, by |-> by, number |-> n]

MCClientRequests ==
    {ClientRequest("q1", "latest", 0), ClientRequest("q2", "latest", 0),
     ClientRequest("q1", "number", 2), ClientRequest("q1", "index", 0)}

CachingIdle ==
    /\ CachingInit /\ blockCache = <<>>
    /\ \A c \in Clients : client[c].request = ClientRequest("q1", "latest", 0)

---------------------------------------------------------------------------
(* The parts do not interact: each behaviour is one of one part.           *)
QueryIdle ==
    /\ db = {} /\ head = LatestBlock /\ reorgs = [count |-> 0, current |-> 0, max |-> 0]
    /\ state = [count |-> 0, latest |-> 0] /\ start = {} /\ block = 0
    /\ request = Query(<<>>, Null, FALSE) /\ levels = <<>> /\ phase = "done"

FilterIdle == fcase = <<>> /\ ffilter = <<>> /\ foutcome = "none"

SelectionIdle ==
    /\ doc = [root |-> <<>>, fragments |-> <<>>] /\ stage = "idle"
    /\ complexity = 0 /\ fetched = <<>> /\ missing = {}

vars == <<part, queryVars, filterVars, selectionVars, loadVars, cachingVars>>

(* The load part's variables have one initial value, which is its idle one. *)
Init ==
    /\ LoadInit
    /\ \/ part = "query" /\ QueryInit /\ FilterIdle /\ SelectionIdle /\ CachingIdle
       \/ part = "filter" /\ FilterInit /\ QueryIdle /\ SelectionIdle /\ CachingIdle
       \/ part = "selection" /\ SelectionInit /\ QueryIdle /\ FilterIdle /\ CachingIdle
       \/ part = "load" /\ QueryIdle /\ FilterIdle /\ SelectionIdle /\ CachingIdle
       \/ part = "caching" /\ CachingInit /\ QueryIdle /\ FilterIdle /\ SelectionIdle

Next ==
    \/ /\ part = "query" /\ QueryNext
       /\ UNCHANGED <<part, filterVars, selectionVars, loadVars, cachingVars>>
    \/ /\ part = "filter" /\ FilterNext
       /\ UNCHANGED <<part, queryVars, selectionVars, loadVars, cachingVars>>
    \/ /\ part = "selection" /\ SelectionNext
       /\ UNCHANGED <<part, queryVars, filterVars, loadVars, cachingVars>>
    \/ /\ part = "load" /\ LoadNext
       /\ UNCHANGED <<part, queryVars, filterVars, selectionVars, cachingVars>>
    \/ /\ part = "caching" /\ CachingNext
       /\ UNCHANGED <<part, queryVars, filterVars, selectionVars, loadVars>>

Spec == Init /\ [][Next]_vars

============================================================================
