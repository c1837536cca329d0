---------------------------- MODULE Selections ----------------------------
(* What a GraphQL query selects: graph-node walks the selections of a      *)
(* query four times, to validate them and to add up their complexity       *)
(* (graphql/src/execution/query.rs), to prefetch the entities of every     *)
(* field that refers to some (graphql/src/store/prefetch.rs), and to build *)
(* the response (graphql/src/execution/execution.rs), which expects to     *)
(* find under a response key what prefetching has put there.  The walks    *)
(* read fragments and type conditions each in their own way.               *)
(*                                                                         *)
(* A selection is a record with its kind: a "field" with its response key, *)
(* name, first argument and own selections, a "spread" of a named fragment,*)
(* or an "inline" fragment with its type condition ("none" if it has none).*)
(* Selections that @skip or @include rule out are left out of a document.  *)
(* The store holds one entity of every object type for every reference.    *)
EXTENDS Integers, Sequences, FiniteSets, SequencesExt

CONSTANTS
    ObjectTypes,      \* the names of the object types, as a sequence
    Interfaces,       \* interface name -> set of the types implementing it
    TypeFields,       \* type -> field name -> its base type ("scalar" if it
                      \* refers to no entity) and whether it is a list
    Documents,        \* records of the root selections and the fragments
    max_complexity,
    max_depth,
    max_list,         \* max_first of the options: limit for first
    U64_MAX           \* the largest complexity a u64 holds

VARIABLES
    doc,        \* the document
    stage,      \* "new", "valid", "prefetch", "execute", "done" or an error
    complexity, \* of the query, as the code computes it
    fetched,    \* the prefetched entities, as a tree
    missing     \* fields for which execution found no prefetched value, or
                \* that of another field

selectionVars == <<doc, stage, complexity, fetched, missing>>

---------------------------------------------------------------------------
(* The schema                                                              *)

IsInterface(type) == type \in DOMAIN Interfaces

Concrete(type) == IF IsInterface(type) THEN Interfaces[type] ELSE {type}

HasField(type, name) == name \in DOMAIN TypeFields[type]

BaseType(type, name) == TypeFields[type][name].base

IsReferenceField(type, name) == HasField(type, name) /\ BaseType(type, name) # "scalar"

FragmentOn(name) == doc.fragments[name].on

FragmentSelections(name) == doc.fragments[name].selections

---------------------------------------------------------------------------
(* Query::new: validation and complexity                                   *)

RECURSIVE InvalidSelections(_, _)
(* validate_fields_inner: does a selection set of a type have an error?    *)
InvalidSelections(type, selections) ==
    \/ selections = <<>>
    \/ \E s \in ToSet(selections) :
          CASE s.kind = "field" ->
                  \/ ~HasField(type, s.name)
                  \/ IsReferenceField(type, s.name)
                        /\ InvalidSelections(BaseType(type, s.name), s.selections)
            [] s.kind = "spread" ->
                  \/ s.name \notin DOMAIN doc.fragments
                  \/ InvalidSelections(FragmentOn(s.name), FragmentSelections(s.name))
            [] s.kind = "inline" ->
                  InvalidSelections(IF s.on = "none" THEN type ELSE s.on, s.selections)

Checked(n) == IF n > U64_MAX THEN [error |-> "Overflow", n |-> 0]
              ELSE [error |-> "none", n |-> n]

(* An argument first that is negative becomes a huge unsigned number.      *)
AsU64(first) == IF first < 0 THEN U64_MAX + 1 + first ELSE first

ListComplexity(first, n) == Checked(AsU64(first) + AsU64(first) * n)

(* complexity_inner: the field of a single entity is added without the     *)
(* check for overflow that the others have, so that the sum wraps.         *)
RECURSIVE ComplexityInner(_, _, _)
ComplexityInner(type, selections, depth) ==
    LET one(total, s) ==
            CASE s.kind = "field" ->
                    IF s.selections = <<>> THEN total
                    ELSE LET c == ComplexityInner(BaseType(type, s.name), s.selections, depth + 1)
                             l == ListComplexity(s.first, c.n)
                         IN IF c.error # "none" THEN c
                            ELSE IF ~TypeFields[type][s.name].list
                            THEN Checked((total.n + c.n) % (U64_MAX + 1))
                            ELSE IF l.error # "none" THEN l ELSE Checked(total.n + l.n)
              [] s.kind = "spread" ->
                    LET c == ComplexityInner(FragmentOn(s.name), FragmentSelections(s.name),
                                             depth + 1)
                    IN IF c.error # "none" THEN c ELSE Checked(total.n + c.n)
              [] s.kind = "inline" ->
                    LET c == ComplexityInner(IF s.on = "none" THEN type ELSE s.on,
                                             s.selections, depth + 1)
                    IN IF c.error # "none" THEN c ELSE Checked(total.n + c.n)
    IN IF depth >= max_depth THEN [error |-> "TooDeep", n |-> 0]
       ELSE FoldLeft(LAMBDA total, s : IF total.error # "none" THEN total ELSE one(total, s),
                     Checked(0), selections)

ValidateFields ==
    /\ stage = "new"
    /\ stage' = IF InvalidSelections("Query", doc.root) THEN "Invalid" ELSE "valid"
    /\ UNCHANGED <<doc, complexity, fetched, missing>>

CheckComplexity ==
    LET c == ComplexityInner("Query", doc.root, 0)
    IN /\ stage = "valid"
       /\ stage' = CASE c.error = "TooDeep" -> "TooDeep"
                     [] c.error = "Overflow" \/ c.n > max_complexity -> "TooComplex"
                     [] OTHER -> "prefetch"
       /\ complexity' = c.n
       /\ UNCHANGED <<doc, fetched, missing>>

(* Query::block_constraint keeps the fields of the root and drops its      *)
(* fragments.                                                              *)
RootFields == SelectSeq(doc.root, LAMBDA s : s.kind = "field")

---------------------------------------------------------------------------
(* Prefetching                                                             *)

(* The implementations that two interfaces share, in the order of the      *)
(* outer one.                                                              *)
SharedTypes(outer, inner) ==
    SelectSeq(ObjectTypes, LAMBDA t : t \in Interfaces[outer] \cap Interfaces[inner])

RECURSIVE CollectForType(_, _, _)
(* collect_fields_inner and its collect_fragment: the fields that refer to *)
(* entities, each with the type it is to be fetched for, and the fragments *)
(* visited so far.  Below an object type every condition is ignored.       *)
CollectForType(type, selections, acc) ==
    LET fragment(on, inner, a) ==
            LET t     == IF on = "none" \/ ~IsInterface(type) THEN type ELSE on
                types == IF t = type \/ ~IsInterface(t) THEN <<t>> ELSE SharedTypes(type, t)
            IN FoldLeft(LAMBDA b, u : CollectForType(u, inner, b), a, types)
        one(a, s) ==
            CASE s.kind = "field" ->
                    IF ~IsReferenceField(type, s.name) THEN a
                    ELSE [a EXCEPT !.out = Append(@, [type |-> type, field |-> s])]
              [] s.kind = "spread" ->
                    IF s.name \in a.visited THEN a
                    ELSE fragment(FragmentOn(s.name), FragmentSelections(s.name),
                                  [a EXCEPT !.visited = @ \cup {s.name}])
              [] s.kind = "inline" -> fragment(s.on, s.selections, a)
    IN FoldLeft(one, acc, selections)

(* collect_fields starts with no visited fragments for each selection set  *)
(* that it merges.                                                         *)
Collected(type, sets) ==
    FlattenSeq([i \in 1..Len(sets) |->
                   CollectForType(type, sets[i], [visited |-> {}, out |-> <<>>]).out])

(* Faulty variant: what is selected on the interface is not merged.        *)
FieldsForUnmerged(collected, key, type, parent) ==
    LET of(t) == SelectSeq(collected, LAMBDA c : c.field.key = key /\ c.type = t)
    IN IF of(type) = <<>> THEN of(parent) ELSE of(type)

(* CollectedResponseKey: the fields to execute for a response key and an   *)
(* object type.  Those of the interface come after its own, and when it    *)
(* has none, it gets the interface's.                                      *)
FieldsFor(collected, key, type, parent) ==
    LET of(t) == SelectSeq(collected, LAMBDA c : c.field.key = key /\ c.type = t)
    IN of(type) \o (IF parent = type THEN <<>> ELSE of(parent))

Keys(collected) == {c.field.key : c \in ToSet(collected)}

SelectionsOf(fields) == [i \in 1..Len(fields) |-> fields[i].field.selections]

RECURSIVE PrefetchFor(_, _)
(* execute_selection_set: for the entities of each object type, response   *)
(* key by response key, the children of the first field with the key.      *)
PrefetchFor(type, sets) ==
    LET collected == Collected(type, sets)
        child(t, key) ==
            LET fields == FieldsFor(collected, key, t, type)
                base   == BaseType(t, fields[1].field.name)
            IN [name |-> fields[1].field.name, first |-> fields[1].field.first,
                children |-> PrefetchFor(base, SelectionsOf(fields))]
        keys(t) == {k \in Keys(collected) : FieldsFor(collected, k, t, type) # <<>>}
    IN [t \in Concrete(type) |-> [k \in keys(t) |-> child(t, k)]]

RECURSIVE FetchFields(_, _)
(* Every field that prefetching executes.                                  *)
FetchFields(tree, types) ==
    UNION {UNION {{tree[t][k]} \cup FetchFields(tree[t][k].children, DOMAIN tree[t][k].children)
                  : k \in DOMAIN tree[t]} : t \in types}

InRange(f) == f.first \in 1..max_list

Prefetch ==
    LET tree == PrefetchFor("Query", <<RootFields>>)
    IN /\ stage = "prefetch"
       /\ fetched' = tree
       /\ stage' = IF \A f \in FetchFields(tree, {"Query"}) : InRange(f) THEN "execute"
                   ELSE "RangeArgumentsError"
       /\ UNCHANGED <<doc, complexity, missing>>

---------------------------------------------------------------------------
(* Execution                                                               *)

(* does_fragment_type_apply *)
FragmentTypeApplies(type, on) == on = "none" \/ type \in Concrete(on)

RECURSIVE CollectForObject(_, _, _)
(* collect_fields_inner of execution.rs: all fields that apply to an       *)
(* object type.                                                            *)
CollectForObject(type, selections, acc) ==
    LET one(a, s) ==
            CASE s.kind = "field" -> [a EXCEPT !.out = Append(@, s)]
              [] s.kind = "spread" ->
                    LET b == [a EXCEPT !.visited = @ \cup {s.name}]
                    IN IF s.name \in a.visited THEN a
                       ELSE IF FragmentTypeApplies(type, FragmentOn(s.name))
                       THEN CollectForObject(type, FragmentSelections(s.name), b)
                       ELSE b
              [] s.kind = "inline" ->
                    IF FragmentTypeApplies(type, s.on)
                    THEN CollectForObject(type, s.selections, a) ELSE a
    IN FoldLeft(one, acc, selections)

(* collect_fields: here the visited fragments are shared by all the sets.  *)
ObjectFields(type, sets) ==
    CollectForObject(type, FlattenSeq(sets), [visited |-> {}, out |-> <<>>]).out

WithKey(fields, key) == SelectSeq(fields, LAMBDA f : f.key = key)

RECURSIVE Unserved(_, _, _)
(* execute_selection_set_to_map, execute_field, resolve_objects,           *)
(* resolve_object and complete_value: the fields of an entity that refer   *)
(* to entities and are not under "prefetch:key", or belong to another      *)
(* field, together with those of the entities found.                       *)
Unserved(type, sets, tree) ==
    LET fields == ObjectFields(type, sets)
        refs   == {f.key : f \in {f \in ToSet(fields) : IsReferenceField(type, f.name)}}
        here(k) == WithKey(fields, k)
        sub(k)  == [i \in 1..Len(here(k)) |-> here(k)[i].selections]
        below(k) == LET c == tree[k].children
                    IN UNION {Unserved(t, sub(k), c[t]) : t \in DOMAIN c}
        value(k) == [what |-> "value", key |-> k, type |-> type]
        nothing(k) == [what |-> "nothing", key |-> k, type |-> type]
    IN UNION {IF k \notin DOMAIN tree THEN {nothing(k)}
              ELSE IF tree[k].name # here(k)[1].name \/ tree[k].first # here(k)[1].first
              THEN {value(k)}
              ELSE below(k) : k \in refs}

ExecuteSelections ==
    /\ stage = "execute"
    /\ missing' = Unserved("Query", <<RootFields>>, fetched["Query"])
    /\ stage' = "done"
    /\ UNCHANGED <<doc, complexity, fetched>>

SelectionInit ==
    /\ doc \in Documents
    /\ stage = "new"
    /\ complexity = 0
    /\ fetched = <<>>
    /\ missing = {}

SelectionNext == ValidateFields \/ CheckComplexity \/ Prefetch \/ ExecuteSelections

---------------------------------------------------------------------------
(* Properties                                                              *)

RECURSIVE Flat(_)
(* All selections of a document, its fragments apart.                      *)
Flat(selections) ==
    UNION {{s} \cup IF s.kind = "spread" THEN {} ELSE Flat(s.selections)
           : s \in ToSet(selections)}

AllSelections ==
    Flat(doc.root) \cup UNION {Flat(FragmentSelections(f)) : f \in DOMAIN doc.fragments}

(* The names of the fragments spread among some selections, as often as    *)
(* they are.                                                               *)
SpreadsIn(selections) ==
    LET spreads == SelectSeq(selections, LAMBDA s : s.kind = "spread")
    IN [i \in 1..Len(spreads) |-> spreads[i].name]

(* Fragments are spread directly in the selections of a field, each in one *)
(* place, and a response key always stands for the same field with the     *)
(* same arguments.                                                         *)
PlainDocument ==
    LET fields == {s \in AllSelections : s.kind = "field"}
        inner  == {s.selections : s \in {s \in AllSelections : s.kind = "inline"}}
                  \cup {FragmentSelections(f) : f \in DOMAIN doc.fragments}
    IN /\ \A selections \in inner : SpreadsIn(selections) = <<>>
       /\ \A s \in fields : IsInjective(SpreadsIn(s.selections))
       /\ \A s, t \in fields :
             /\ s.key = t.key => s.name = t.name /\ s.first = t.first
             /\ s # t => ToSet(SpreadsIn(s.selections)) \cap ToSet(SpreadsIn(t.selections)) = {}

(* The walks agree: through inline fragments, interfaces within interfaces,*)
(* aliases and merged selection sets, execution finds under every response *)
(* key what prefetching put there for that very field, in documents that   *)
(* keep fragments out of fragments and use a response key for one field.   *)
PlainFieldsPrefetched == PlainDocument => missing = {}

(* What the error in resolve_objects calls internal: execution never looks *)
(* for a prefetched result and finds nothing.  A fragment spread under two *)
(* type conditions breaks it: prefetching visits it for the first only.    *)
NothingMissing == \A m \in missing : m.what # "nothing"

RECURSIVE TrueComplexity(_, _)
TrueComplexity(type, selections) ==
    FoldLeft(LAMBDA total, s :
        total +
        CASE s.kind = "field" ->
                IF s.selections = <<>> THEN 0
                ELSE LET c == TrueComplexity(BaseType(type, s.name), s.selections)
                     IN IF TypeFields[type][s.name].list THEN s.first * (1 + c) ELSE c
          [] s.kind = "spread" -> TrueComplexity(FragmentOn(s.name), FragmentSelections(s.name))
          [] s.kind = "inline" ->
                TrueComplexity(IF s.on = "none" THEN type ELSE s.on, s.selections),
        0, selections)

(* No query gets past the limit because a number wrapped: what is executed *)
(* has a complexity, computed without any bound, of at most the limit,     *)
(* although a negative first counts as a huge number and one of the sums   *)
(* is not checked.                                                         *)
ExecutedWithinLimit ==
    stage \in {"execute", "done"} => TrueComplexity("Query", RootFields) <= max_complexity

(* Execution finds what prefetching put there, and nothing is executed     *)
(* that is more complex than the limit.                                    *)
SelectionsConsistent == PlainFieldsPrefetched /\ ExecutedWithinLimit
============================================================================
