--------------------------- MODULE EntityFilters ---------------------------
(* The way of a filter from the generated API to the database: the filter  *)
(* keys that graphql/src/schema/api.rs offers for a field, how             *)
(* parse_field_as_filter and build_filter_from_object read a key and its   *)
(* value back, and the condition that QueryFilter writes for it            *)
(* (store/postgres/src/relational_queries.rs), by what Postgres makes of   *)
(* it, with nulls.                                                         *)
(*                                                                         *)
(* A name is a sequence of words, joined by underscores in the source.  A  *)
(* text is a sequence of numbers that stand for characters; Wildcard is    *)
(* the character '%'.  A value has a kind and what it holds.               *)
EXTENDS EntityQueries

CONSTANTS
    STRING_PREFIX_SIZE, \* length of the indexed prefix of a text column
    FilterCases         \* records of a field's name and type, the suffix and
                        \* the value of a filter and the value in the column

ASSUME PrefixAssumption == STRING_PREFIX_SIZE \in Nat \ {0}

VARIABLES
    fcase,    \* the case at hand
    ffilter,  \* the EntityFilter that was built, if any, and the error if not
    foutcome  \* what its condition evaluates to, or the error

filterVars == <<fcase, ffilter, foutcome>>

---------------------------------------------------------------------------
(* The keys that the API offers                                            *)

FieldTypes == {"BigInt", "BigDecimal", "ID", "Int", "Boolean", "Bytes", "String",
               "Reference", "Enum", "List", "Derived"}

ScalarKinds == {"text", "number", "bool", "bytes"}

Ordered == {<<>>, <<"not">>, <<"gt">>, <<"lt">>, <<"gte">>, <<"lte">>,
            <<"in">>, <<"not", "in">>}

(* field_scalar_filter_input_values and its siblings for enum and list     *)
(* fields; a reference to another entity is filtered like a String, and a  *)
(* derived field not at all.                                               *)
OfferedSuffixes(type) ==
    CASE type \in {"BigInt", "BigDecimal", "ID", "Int"} -> Ordered
      [] type = "Boolean" -> {<<>>, <<"not">>, <<"in">>, <<"not", "in">>}
      [] type = "Bytes" -> {<<>>, <<"not">>, <<"in">>, <<"not", "in">>,
                            <<"contains">>, <<"not", "contains">>}
      [] type \in {"String", "Reference"} ->
            Ordered \cup {<<"contains">>, <<"not", "contains">>,
                <<"starts", "with">>, <<"not", "starts", "with">>,
                <<"ends", "with">>, <<"not", "ends", "with">>}
      [] type = "Enum" -> {<<>>, <<"not">>}
      [] type = "List" -> {<<>>, <<"not">>, <<"contains">>, <<"not", "contains">>}
      [] type = "Derived" -> {}

IsListOp(suffix) == suffix \in {<<"in">>, <<"not", "in">>}

(* The store value that a value of the type becomes; ids and references    *)
(* are texts.                                                              *)
KindOf(type) ==
    CASE type \in {"BigInt", "BigDecimal", "Int"} -> "number"
      [] type = "Boolean" -> "bool"
      [] type = "Bytes" -> "bytes"
      [] type = "List" -> "list"
      [] type \in {"ID", "String", "Reference", "Enum", "Derived"} -> "text"

Holds(kind, v) ==
    CASE kind \in {"text", "bytes"} -> v \in Seq(Nat)
      [] kind = "number" -> v \in Int
      [] kind = "bool" -> v \in BOOLEAN
      [] kind = "list" -> TRUE

IsListOf(value, kinds) ==
    /\ value.kind = "list"
    /\ \A v \in value.v : v.kind \in kinds /\ (v.kind # "null" => Holds(v.kind, v.v))

(* What validation and the coercion of values against the generated API    *)
(* let through, and what a column of the type holds.                       *)
FilterCase(c) ==
    /\ c.name \in Seq(STRING) /\ c.name # <<>>
    /\ c.type \in FieldTypes
    /\ c.column = Null \/ Holds(KindOf(c.type), c.column)
    /\ \/ c.value.kind = "null"
       \/ IsListOp(c.suffix) /\ IsListOf(c.value, {"null", KindOf(c.type)})
       \/ ~IsListOp(c.suffix) /\ c.type = "List" /\ IsListOf(c.value, ScalarKinds)
       \/ /\ ~IsListOp(c.suffix) /\ c.type # "List"
          /\ c.value.kind = KindOf(c.type) /\ Holds(c.value.kind, c.value.v)

ASSUME CaseAssumption == \A c \in FilterCases : FilterCase(c)

---------------------------------------------------------------------------
(* Reading a key and its value                                             *)

(* parse_field_as_filter tries the suffixes in this order.                 *)
SuffixOrder == << <<"not">>, <<"gt">>, <<"lt">>, <<"gte">>, <<"lte">>,
    <<"not", "in">>, <<"in">>, <<"not", "contains">>, <<"contains">>,
    <<"not", "starts", "with">>, <<"not", "ends", "with">>,
    <<"starts", "with">>, <<"ends", "with">> >>

EndsIn(key, suffix) == Len(suffix) < Len(key) /\ IsSuffix(suffix, key)

(* trim_end_matches strips the suffix as often as it is there.             *)
Trimmed(key, suffix) ==
    LET size     == Len(suffix)
        times(n) == /\ n * size <= Len(key)
                    /\ \A i \in 0..n * size - 1 : key[Len(key) - i] = suffix[size - (i % size)]
        most     == CHOOSE n \in 0..Len(key) : times(n) /\ ~times(n + 1)
    IN IF suffix = <<>> THEN key ELSE SubSeq(key, 1, Len(key) - most * size)

ParseFieldAsFilter(key) ==
    LET matching == {i \in 1..Len(SuffixOrder) : EndsIn(key, SuffixOrder[i])}
        first    == CHOOSE i \in matching : \A j \in matching : i <= j
        suffix   == IF matching = {} THEN <<>> ELSE SuffixOrder[first]
    IN [name |-> Trimmed(key, suffix), suffix |-> suffix]

(* list_values: the values of _in and _not_in must be of one kind.         *)
ListError(value) ==
    IF value.kind # "list" THEN "ListFilterError"
    ELSE IF Cardinality({v.kind : v \in value.v}) > 1 THEN "ListTypesError"
    ELSE "none"

(* build_filter_from_object, for one key.                                  *)
BuildFilter ==
    LET parsed == ParseFieldAsFilter(fcase.name \o fcase.suffix)
        error  == IF parsed.name # fcase.name THEN "EntityFieldError"
                  ELSE IF IsListOp(parsed.suffix) THEN ListError(fcase.value)
                  ELSE "none"
    IN /\ ffilter = <<>>
       /\ ffilter' = <<[suffix |-> parsed.suffix, error |-> error]>>
       /\ UNCHANGED <<fcase, foutcome>>

---------------------------------------------------------------------------
(* Conditions                                                              *)

Wildcard == 0

Left(s) == SubSeq(s, 1, IF Len(s) < STRING_PREFIX_SIZE THEN Len(s)
                        ELSE STRING_PREFIX_SIZE)

TextBefore(s, t) ==
    \E k \in 0..Len(s) :
        /\ k <= Len(t)
        /\ \A i \in 1..k : s[i] = t[i]
        /\ \/ k = Len(s) /\ k < Len(t)
           \/ k < Len(s) /\ k < Len(t) /\ s[k + 1] < t[k + 1]

Before(kind, x, y) == IF kind = "text" THEN TextBefore(x, y) ELSE x < y

(* Comparison: what `x op y` means in Postgres for values of a kind.       *)
Compares(kind, op, x, y) ==
    CASE op = "lt"  -> Before(kind, x, y)
      [] op = "lte" -> ~Before(kind, y, x)
      [] op = "eq"  -> x = y
      [] op = "not" -> x # y
      [] op = "gte" -> ~Before(kind, x, y)
      [] op = "gt"  -> Before(kind, y, x)

PrefixCmp(op, s, t) == Compares("text", op, Left(s), Left(t))

(* Faulty variant: a text that fills the prefix counts as short.           *)
LargerThanPrefix(t) == Len(t) > STRING_PREFIX_SIZE

(* Only a text of fewer than STRING_PREFIX_SIZE characters is decided by   *)
(* its prefix.                                                             *)
Large(t) == Len(t) > STRING_PREFIX_SIZE - 1

StrictOp(op) == IF op = "lte" THEN "lt" ELSE IF op = "gte" THEN "gt" ELSE op

(* PrefixComparison::walk_ast for a text column that is not null.          *)
PrefixComparison(op, s, t) ==
    IF ~Large(t) THEN PrefixCmp(op, s, t)
    ELSE CASE op = "eq"  -> PrefixCmp("eq", s, t) /\ Compares("text", "eq", s, t)
           [] op = "not" -> Compares("text", "not", s, t)
           [] OTHER      -> \/ PrefixCmp(StrictOp(op), s, t)
                            \/ PrefixCmp("eq", s, t) /\ Compares("text", op, s, t)

(* Postgres' LIKE: every character of the pattern takes one character of   *)
(* the text, a wildcard any number of them.                                *)
Like(s, pattern) ==
    \E pos \in [0..Len(pattern) -> 0..Len(s)] :
        /\ pos[0] = 0
        /\ pos[Len(pattern)] = Len(s)
        /\ \A i \in 1..Len(pattern) :
              IF pattern[i] = Wildcard THEN pos[i] >= pos[i - 1]
              ELSE pos[i] = pos[i - 1] + 1 /\ s[pos[i]] = pattern[i]

Enclosed(t) ==
    IF t # <<>> /\ (t[1] = Wildcard \/ t[Len(t)] = Wildcard) THEN t
    ELSE <<Wildcard>> \o t \o <<Wildcard>>

Within(s, t) == \E i \in 0..Len(t) - Len(s) : SubSeq(t, i + 1, i + Len(s)) = s

Negated(suffix) == suffix # <<>> /\ suffix[1] = "not"

Is(outcome, negated) == IF negated THEN ~outcome ELSE outcome

(* A condition on a column that is null is null.                           *)
OnColumn(column, outcome) == IF column = Null THEN Null ELSE outcome

(* QueryFilter::contains; for a list the negation is not looked at.        *)
FilterContains(column, value, negated) ==
    CASE value.kind = "text" -> Is(Like(column, Enclosed(value.v)), negated)
      [] value.kind = "bytes" -> Is(Within(value.v, column), negated)
      [] value.kind = "list" -> {v.v : v \in value.v} \subseteq column

(* QueryFilter::equals *)
FilterEquals(column, value, op) ==
    IF value.kind = "null" THEN Is(column = Null, op = "not")
    ELSE OnColumn(column,
            CASE value.kind = "text" -> PrefixComparison(op, column, value.v)
              [] value.kind = "list" -> Is(column = {v.v : v \in value.v}, op = "not")
              [] OTHER -> Is(column = value.v, op = "not"))

(* QueryFilter::compare *)
FilterCompare(column, value, op) ==
    OnColumn(column, IF value.kind = "text" THEN PrefixComparison(op, column, value.v)
                     ELSE Compares(value.kind, op, column, value.v))

SqlOr(p, q) == IF TRUE \in {p, q} THEN TRUE
               ELSE IF Null \in {p, q} THEN Null ELSE FALSE

(* in_array looks at the prefix only when all values are short texts.      *)
ByPrefix(values) == \A v \in values : v.kind = "text" /\ ~Large(v.v)

(* QueryFilter::in_array *)
InArray(column, values, negated) ==
    LET held     == {v.v : v \in {v \in values : v.kind # "null"}}
        nulls    == \E v \in values : v.kind = "null"
        isNull   == Is(column = Null, negated)
        isIn     == OnColumn(column,
                        Is((IF ByPrefix(values) THEN Left(column) ELSE column) \in held,
                           negated))
    IN IF values = {} THEN FALSE
       ELSE IF held = {} THEN isNull
       ELSE IF ~nulls THEN isIn
       ELSE SqlOr(isNull, isIn)

(* QueryFilter::starts_or_ends_with *)
StartsOrEndsWith(column, value, negated, starts) ==
    OnColumn(column, Is(Like(column, IF starts THEN value.v \o <<Wildcard>>
                                     ELSE <<Wildcard>> \o value.v), negated))

OrderOps == {<<"gt">>, <<"lt">>, <<"gte">>, <<"lte">>}

ContainsOps == {<<"contains">>, <<"not", "contains">>}

(* The kinds of values that each function refuses with UnsupportedFilter.  *)
SupportedKinds(suffix) ==
    CASE suffix \in {<<>>, <<"not">>, <<"in">>, <<"not", "in">>} ->
            {"null", "text", "number", "bool", "bytes", "list"}
      [] suffix \in OrderOps -> {"text", "number"}
      [] suffix \in ContainsOps -> {"text", "bytes", "list"}
      [] OTHER -> {"text"}

(* QueryFilter::walk_ast for a filter on one attribute.                    *)
Condition(suffix, column, value) ==
    CASE suffix = <<>> -> FilterEquals(column, value, "eq")
      [] suffix = <<"not">> -> FilterEquals(column, value, "not")
      [] suffix \in OrderOps -> FilterCompare(column, value, suffix[1])
      [] IsListOp(suffix) -> InArray(column, value.v, Negated(suffix))
      [] suffix \in ContainsOps ->
            OnColumn(column, FilterContains(column, value, Negated(suffix)))
      [] OTHER -> StartsOrEndsWith(column, value, Negated(suffix),
                                   "starts" \in ToSet(suffix))

Outcome(condition) == IF condition = Null THEN "null"
                      ELSE IF condition THEN "true" ELSE "false"

ApplyFilter ==
    /\ ffilter # <<>> /\ foutcome = "none"
    /\ foutcome' =
          CASE ffilter[1].error # "none" -> ffilter[1].error
            [] fcase.value.kind \notin SupportedKinds(ffilter[1].suffix) -> "UnsupportedFilter"
            [] OTHER -> Outcome(Condition(ffilter[1].suffix, fcase.column, fcase.value))
    /\ UNCHANGED <<fcase, ffilter>>

FilterInit ==
    /\ fcase \in {c \in FilterCases : c.suffix \in OfferedSuffixes(c.type)}
    /\ ffilter = <<>>
    /\ foutcome = "none"

FilterNext == BuildFilter \/ ApplyFilter

FilterSpec == FilterInit /\ [][FilterNext]_filterVars

---------------------------------------------------------------------------
(* Properties                                                              *)

(* What a filter means for a column that is not null, written down without *)
(* prefixes and patterns.                                                  *)
Meaning(suffix, column, value) ==
    LET held     == {v.v : v \in {v \in value.v : v.kind # "null"}}
        positive ==
            CASE suffix \in {<<>>, <<"not">>} ->
                    IF value.kind = "list" THEN column = held
                    ELSE value.kind # "null" /\ column = value.v
              [] suffix \in OrderOps -> Compares(value.kind, suffix[1], column, value.v)
              [] IsListOp(suffix) -> column \in held
              [] suffix \in ContainsOps ->
                    IF value.kind = "list" THEN held \subseteq column
                    ELSE Within(value.v, column)
              [] OTHER -> IF "starts" \in ToSet(suffix) THEN IsPrefix(value.v, column)
                          ELSE IsSuffix(value.v, column)
    IN Is(positive, Negated(suffix))

(* Two filters do not mean what their names say: not_contains on a list is *)
(* the same as contains, and not_in with an empty list excludes everything.*)
Deviates(suffix, value) ==
    \/ suffix = <<"not", "contains">> /\ value.kind = "list"
    \/ suffix = <<"not", "in">> /\ value.v = {}

(* Texts with a wildcard of their own are patterns, not texts.             *)
Plain(value) == value.kind = "text" => Wildcard \notin ToSet(value.v)

Computed == foutcome \in {"true", "false", "null"}

(* A filter selects what its name says, for every key the API offers: the  *)
(* shortcut over the indexed prefix of a text, the patterns and the null   *)
(* handling of the generated conditions never change the outcome, and a    *)
(* column that is null is selected by nothing but a filter for null.       *)
FilterMeansItsName ==
    Computed =>
        IF fcase.column = Null
        THEN foutcome = "true" =>
                \/ fcase.value.kind = "null"
                \/ IsListOp(fcase.suffix) /\ \E v \in fcase.value.v : v.kind = "null"
        ELSE ~Deviates(fcase.suffix, fcase.value) /\ Plain(fcase.value) =>
                foutcome = Outcome(Meaning(fcase.suffix, fcase.column, fcase.value))

(* Every key that the API offers for a field is read back as that field    *)
(* and that operation, and storage supports it for every value but null:   *)
(* a query that passes validation does not fail on its filter, unless a    *)
(* list mixes kinds.                                                       *)
OfferedFiltersWork ==
    /\ ffilter # <<>> => ffilter[1].suffix = fcase.suffix
    /\ foutcome # "none" /\ ~Computed =>
          \/ foutcome \in {"UnsupportedFilter", "ListFilterError"} /\ fcase.value.kind = "null"
          \/ foutcome = "ListTypesError"

(* A filter the API offers is accepted, and selects what its name says.    *)
FiltersRight == FilterMeansItsName /\ OfferedFiltersWork
============================================================================
