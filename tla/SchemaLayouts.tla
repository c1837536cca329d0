--------------------------- MODULE SchemaLayouts ---------------------------
(* What is derived from a valid schema when a subgraph is deployed, started *)
(* and queried: the tables of its relational layout                         *)
(* (store/postgres/src/relational.rs), the copy of the tables of a graft    *)
(* base (CopyEntityDataQuery), and the API schema that queries are checked  *)
(* against (graphql/src/schema/api.rs).                                     *)
(*                                                                          *)
(* The id of a deployment is a hash of its manifest.                        *)
EXTENDS Schemas

CONSTANTS
    SnakeCase,      \* to_snake_case of a name, where it differs
    BadIdentifiers, \* texts that are no SQL identifiers
    DeploymentIds,  \* the deployments
    Manifests,      \* what the manifests of each may be: schema, data
                    \* sources and graft base ("none" if there is none)
    Submissions     \* bound: how often deployments are submitted

VARIABLES
    manifest,   \* the manifest behind each id
    request,    \* the deployment that is being created, and how far it is
    created,    \* the deployments with a schema in the database
    started,    \* of each deployment "init", "ready", or "failed"
    apis,       \* subgraph_cache: the API schemas that were built
    submitted   \* how many requests there were

layoutVars == <<manifest, request, created, started, apis, submitted>>

NoRequest == [id |-> "none", stage |-> "idle"]

NoManifest == [schema |-> <<>>, sources |-> <<>>, graft |-> "none"]

---------------------------------------------------------------------------
(* Layout::new                                                             *)

SqlName(name) == Convert(SnakeCase, name)

PRIMARY_KEY_COLUMN == "id"

(* The object types that get a table.                                      *)
TableTypes(document) ==
    SelectSeq(ObjectDefinitions(document), LAMBDA d : d.name # SCHEMA_TYPE_NAME)

(* IdType::try_from: a type without an id makes the caller panic.          *)
IdTypeOf(object) ==
    IF ~HasNamed(object.fields, PRIMARY_KEY_COLUMN) THEN "panic"
    ELSE LET base == FieldNamed(object.fields, PRIMARY_KEY_COLUMN).base
         IN CASE base \in {"String", "ID"} -> "String"
              [] base = "Bytes" -> "Bytes"
              [] OTHER -> "error"

IdTypesForInterface(document, interface) ==
    {IdTypeOf(o) : o \in TypesForInterface(document, interface)}

(* The first failure, in the order in which the types are looked at.       *)
IdTypesOutcome(document) ==
    LET ofTypes == [i \in 1..Len(TableTypes(document)) |-> IdTypeOf(TableTypes(document)[i])]
        bad     == SelectSeq(ofTypes, LAMBDA t : t \in {"panic", "error"})
    IN IF bad # <<>> THEN bad[1]
       ELSE IF \E i \in ToSet(OfKind(document, "interface")) :
                 Cardinality(IdTypesForInterface(document, i.name)) > 1
       THEN "error" ELSE "ok"

(* id_types: the type of the ids of an object type or an interface; an     *)
(* interface without implementors has ids of type String.                  *)
IdTypes(document) ==
    LET objects    == TableTypes(document)
        interfaces == {i.name : i \in ToSet(OfKind(document, "interface"))}
        names      == {o.name : o \in ToSet(objects)}
        ofInterface(i) == IF TypesForInterface(document, i) = {} THEN "String"
                          ELSE CHOOSE t \in IdTypesForInterface(document, i) : TRUE
    IN [n \in names \union interfaces |->
          IF n \in interfaces THEN ofInterface(n) ELSE IdTypeOf(FirstNamed(objects, n))]

(* ColumnType::from_field_type; "error" if the type is not known here.     *)
ColumnType(document, field) ==
    CASE SqlName(field.name) = PRIMARY_KEY_COLUMN ->
           IF field.base \in {"String", "ID"} THEN [type |-> "String", values |-> {}]
           ELSE IF field.base = "Bytes" THEN [type |-> "BytesId", values |-> {}]
           ELSE [type |-> "error", values |-> {}]
      [] field.base \in DOMAIN IdTypes(document) ->
           [type |-> IF IdTypes(document)[field.base] = "Bytes" THEN "BytesId" ELSE "String",
            values |-> {}]
      [] field.base \in EnumNames(document) ->
           [type |-> "Enum",
            values |-> FirstNamed(Reverse(OfKind(document, "enum")), field.base).values]
      [] field.base \in {"String", "ID"} -> [type |-> "String", values |-> {}]
      [] field.base \in Scalars -> [type |-> field.base, values |-> {}]
      [] OTHER -> [type |-> "error", values |-> {}]

NewColumn(document, field) ==
    [name |-> SqlName(field.name), type |-> ColumnType(document, field),
     list |-> field.list, nullable |-> ~field.nonNull, fulltext |-> {}]

(* entity_fulltext_definitions: the directives that include the type, each *)
(* with the fields of its first include.                                   *)
FulltextsOf(document, type) ==
    SelectSeq(DirectivesOf(document, "fulltext"),
              LAMBDA d : \E i \in ToSet(d.include) : i.entity = type)

NewFulltext(directive) ==
    [name |-> SqlName(directive.name.text), type |-> [type |-> "TSVector", values |-> {}],
     list |-> FALSE, nullable |-> TRUE, fulltext |-> directive.include[1].fields]

(* Table::new: a column for every field that is not derived.               *)
NewTable(document, object) ==
    LET stored    == SelectSeq(object.fields, LAMBDA f : f.derived.sort = "no directive")
        fulltexts == FulltextsOf(document, object.name)
    IN [object |-> object.name, name |-> SqlName(object.name),
        columns |-> [i \in 1..Len(stored) |-> NewColumn(document, stored[i])]
                    \o [i \in 1..Len(fulltexts) |-> NewFulltext(fulltexts[i])]]

(* Of two types with one name the later one has the table.                 *)
Tables(document) ==
    LET types == TableTypes(document)
    IN {NewTable(document, types[i]) :
        i \in {i \in 1..Len(types) : \A j \in i + 1..Len(types) : types[j].name # types[i].name}}

ColumnsFail(document) ==
    \E o \in ToSet(TableTypes(document)) :
        \/ \E c \in ToSet(NewTable(document, o).columns) : c.type.type = "error"
        \/ \E f \in ToSet(FulltextsOf(document, o.name)) : f.name.text \in BadIdentifiers

Distinct(seq) == Cardinality(ToSet(seq)) = Len(seq)

(* Postgres refuses to create two types, tables or columns with one name;  *)
(* a table is also a type.                                                 *)
DdlFails(document) ==
    LET enums  == EnumNames(document)
        tables == Tables(document)
        relations == {t.name : t \in tables} \union {SqlName(e) : e \in enums}
    IN \/ Cardinality(relations) # Cardinality(tables) + Cardinality(enums)
       \/ \E t \in tables :
            ~Distinct([i \in 1..Len(t.columns) |-> t.columns[i].name]
                      \o <<"vid", "block_range">>)

(* Layout::create_relational_schema                                        *)
LayoutOutcome(document) ==
    IF IdTypesOutcome(document) # "ok" THEN IdTypesOutcome(document)
    ELSE IF ColumnsFail(document) \/ DdlFails(document) THEN "error" ELSE "ok"

---------------------------------------------------------------------------
(* Copying the tables of a graft base                                      *)

(* Table::column leaves fulltext columns out.                              *)
PlainColumns(table) == {c \in ToSet(table.columns) : c.type.type # "TSVector"}

HasColumn(table, name) == \E c \in PlainColumns(table) : c.name = name

ColumnOf(table, name) == CHOOSE c \in PlainColumns(table) : c.name = name

(* Faulty variant: the values of an enum are not compared.                 *)
AssignableByType(dst, src) ==
    /\ dst.nullable \/ ~src.nullable
    /\ dst.type.type = src.type.type
    /\ dst.type.type = "Enum" \/ dst.list = src.list

(* is_assignable_from                                                      *)
IsAssignableFrom(dst, src) ==
    /\ dst.nullable \/ ~src.nullable
    /\ IF dst.type.type = "Enum"
       THEN src.type.type = "Enum" /\ src.type.values \subseteq dst.type.values
       ELSE dst.type = src.type /\ dst.list = src.list

TableCanCopyFrom(dst, src) ==
    \A d \in ToSet(dst.columns) :
        IF HasColumn(src, d.name) THEN IsAssignableFrom(d, ColumnOf(src, d.name))
        ELSE d.nullable

(* Tables are matched by their names in the database.                      *)
Copied(document, base) ==
    {<<d, s>> \in Tables(document) \X Tables(base) : d.name = s.name}

CanCopyFrom(document, base) ==
    \A p \in Copied(document, base) : TableCanCopyFrom(p[1], p[2])

(* CopyEntityDataQuery selects every column of the target from the source. *)
CopySelects(dst, src) ==
    \A d \in ToSet(dst.columns) : \E s \in ToSet(src.columns) : s.name = d.name

(* A list of enum values is cast to the type of a single one.              *)
CopyCasts(dst) == \A d \in ToSet(dst.columns) : ~(d.type.type = "Enum" /\ d.list)

CopyWorks(dst, src) == CopySelects(dst, src) /\ CopyCasts(dst)

---------------------------------------------------------------------------
(* The API schema                                                          *)

(* get_type_definition_from_type: the types in the input schema, and those *)
(* that were added.                                                        *)
KindOf(document, name) ==
    IF HasNamed(document, name) THEN FirstNamed(document, name).kind ELSE "scalar"

(* field_filter_input_values: TypeNotFound for a field, except in a list.  *)
TypeNotFound(types, fields) ==
    \E f \in ToSet(fields) : ~f.list /\ f.base \notin types

HasFilters(document, types, fields) ==
    \E f \in ToSet(fields) :
        /\ f.base \in types
        /\ KindOf(document, f.base) \in {"object", "interface"} => f.derived.sort = "no directive"

(* add_order_by_type and add_filter_type of one type                       *)
AddTypes(document, acc, d) ==
    LET orderBy == d.name \o "_orderBy"
        filter  == d.name \o "_filter"
    IN IF \/ acc.failed
          \/ orderBy \in acc.types
          \/ filter \in acc.types \union {orderBy}
          \/ TypeNotFound(acc.types \union {orderBy}, d.fields)
       THEN [acc EXCEPT !.failed = TRUE]
       ELSE [acc EXCEPT !.types = @ \union {orderBy}
               \union (IF HasFilters(document, acc.types, d.fields) THEN {filter} ELSE {})]

(* add_builtin_scalar_types; OrderDirection and Block_height are added     *)
(* without a look.                                                         *)
BuiltinTypes(document) ==
    LET names == {d.name : d \in ToSet(document)}
    IN [failed |-> names \intersect Scalars # {},
        types  |-> names \union Scalars \union {"OrderDirection", "Block_height"}]

(* add_field_arguments: a list of entities in a type gets the arguments of *)
(* a collection, for which the type is looked up by its name.              *)
ArgumentsPanic(document) ==
    \E d \in ToSet(document) :
        /\ d.kind \in {"object", "interface"} /\ KindOf(document, d.name) # d.kind
        /\ \E f \in ToSet(d.fields) :
             /\ f.list /\ HasNamed(document, f.base)
             /\ \/ KindOf(document, f.base) = "interface"
                \/ KindOf(document, f.base) = "object" /\ FirstNamed(document, f.base).entity

(* query_fields_for_type                                                   *)
QueryFieldsForType(name) == <<ToCamelCase(name), ToCamelCase(ToPlural(name))>>

QueryFields(document) ==
    LET types     == ObjectDefinitions(document) \o OfKind(document, "interface")
        fulltexts == DirectivesOf(document, "fulltext")
    IN FlattenSeq([i \in 1..Len(types) |-> QueryFieldsForType(types[i].name)])
       \o [i \in 1..Len(fulltexts) |-> fulltexts[i].name.text]

(* add_query_type and add_subscription_type                                *)
RootTypeExists(types) == {"Query", "Subscription"} \intersect types # {}

(* api_schema                                                              *)
ApiOutcome(document) ==
    LET add(acc, d) == AddTypes(document, acc, d)
        built == FoldLeft(add, BuiltinTypes(document),
                          ObjectDefinitions(document) \o OfKind(document, "interface"))
    IN CASE built.failed -> "error"
         [] ~built.failed /\ ArgumentsPanic(document) -> "panic"
         [] OTHER -> IF RootTypeExists(built.types) THEN "error" ELSE "ok"

---------------------------------------------------------------------------
(* Deploying                                                               *)

Document(id) == manifest[id].schema

(* SchemaReference::resolve asks for the input schema, which the store     *)
(* only returns together with an API schema.                               *)
SchemaStore ==
    [id \in {d \in created : ApiOutcome(Document(d)) = "ok"} |-> Document(id)]

(* UnvalidatedSubgraphManifest::validate, the data sources and the graft   *)
SourcesValid(sources) ==
    /\ sources # <<>>
    /\ \A s \in ToSet(sources) :
         /\ s.address \/ (~s.calls /\ s.blocks = <<>>)
         /\ \A filtered \in BOOLEAN : Len(SelectSeq(s.blocks, LAMBDA b : b = filtered)) <= 1
    /\ Cardinality({s.network : s \in {s \in ToSet(sources) :
                                       s.kind = "ethereum/contract" /\ s.network # "none"}}) = 1

LayoutsInit ==
    /\ manifest = [d \in DeploymentIds |-> NoManifest]
    /\ request = NoRequest
    /\ created = {}
    /\ started = [d \in DeploymentIds |-> "init"]
    /\ apis = {}
    /\ submitted = 0

(* UnvalidatedSubgraphManifest::resolve; an id always names one manifest.  *)
Submit(id) ==
    /\ request = NoRequest /\ submitted < Submissions /\ id \notin created
    /\ submitted' = submitted + 1
    /\ \E m \in (IF manifest[id] = NoManifest THEN Manifests[id] ELSE {manifest[id]}) :
         /\ manifest' = [manifest EXCEPT ![id] = m]
         /\ request' = [id |-> id,
                        stage |-> IF CollectInterfaces(m.schema) THEN "parsed" ELSE "refused"]
    /\ UNCHANGED <<created, started, apis>>

(* The graft base must exist; that it has processed the block is in        *)
(* EntityVersions.                                                         *)
ValidateManifest ==
    /\ request.stage = "parsed"
    /\ LET document == Document(request.id)
           resolved == ResolveSchemaReferences(document, SchemaStore)
           valid == /\ SourcesValid(manifest[request.id].sources)
                    /\ SchemaValid(document, SchemaStore, resolved.schemas)
                    /\ manifest[request.id].graft \in created \union {"none"}
       IN request' = [request EXCEPT !.stage = IF valid THEN "valid" ELSE "refused"]
    /\ UNCHANGED <<manifest, created, started, apis, submitted>>

(* create_subgraph_deployment: one transaction                             *)
CreateSchema ==
    /\ request.stage = "valid"
    /\ LET id      == request.id
           base    == manifest[id].graft
           outcome == LayoutOutcome(Document(id))
           ok      == outcome = "ok"
                      /\ (base = "none" \/ CanCopyFrom(Document(id), Document(base)))
       IN /\ created' = IF ok THEN created \union {id} ELSE created
          /\ request' = [request EXCEPT !.stage = IF ok THEN "created"
                                                  ELSE IF outcome = "panic" THEN "panicked"
                                                  ELSE "failed"]
    /\ UNCHANGED <<manifest, started, apis, submitted>>

Answer ==
    /\ request.stage \in {"refused", "created", "failed", "panicked"}
    /\ request' = NoRequest
    /\ UNCHANGED <<manifest, created, started, apis, submitted>>

(* start_subgraph: a graft is copied, in one transaction.                  *)
StartSubgraph(id) ==
    /\ id \in created /\ started[id] = "init"
    /\ LET base == manifest[id].graft
           ok   == base = "none" \/ \A p \in Copied(Document(id), Document(base)) :
                                      CopyWorks(p[1], p[2])
       IN started' = [started EXCEPT ![id] = IF ok THEN "ready" ELSE "failed"]
    /\ UNCHANGED <<manifest, request, created, apis, submitted>>

(* subgraph_info                                                           *)
SubgraphInfo(id) ==
    /\ id \in created \ apis
    /\ ApiOutcome(Document(id)) = "ok"
    /\ apis' = apis \union {id}
    /\ UNCHANGED <<manifest, request, created, started, submitted>>

LayoutsNext ==
    \/ ValidateManifest \/ CreateSchema \/ Answer
    \/ \E id \in DeploymentIds : Submit(id) \/ StartSubgraph(id) \/ SubgraphInfo(id)
---------------------------------------------------------------------------
(* Properties                                                              *)

(* Type invariant: requests go through their stages, and only deployments  *)
(* with a schema in the database are started and queried.                  *)
LayoutsTypeOK ==
    /\ request.stage \in {"idle", "parsed", "refused", "valid", "created", "failed", "panicked"}
    /\ request.id \in DeploymentIds \union {"none"}
    /\ created \subseteq DeploymentIds /\ apis \subseteq created
    /\ \A d \in DeploymentIds : started[d] # "init" => d \in created
    /\ submitted \in 0..Submissions

(* resolve_import_graph follows imports of imports, also around cycles:    *)
(* what it finds or misses is the smallest set of schemas that has those   *)
(* the document imports and, with each schema found, those it imports.     *)
ImportsResolved ==
    request.stage \in {"parsed", "valid"} =>
        LET result == ResolveSchemaReferences(Document(request.id), SchemaStore)
            all    == result.schemas \union result.missing
            closed(S) ==
                /\ ToSet(ImportedSchemas(Document(request.id))) \subseteq S
                /\ \A i \in S \intersect DOMAIN SchemaStore :
                     ToSet(ImportedSchemas(SchemaStore[i])) \subseteq S
        IN /\ closed(all)
           /\ \A S \in SUBSET ValidIds : closed(S) => all \subseteq S
           /\ result.schemas = all \intersect DOMAIN SchemaStore

(* What validate() lets through and the database then refuses: types       *)
(* without an id or with one of a wrong type, implementors of an interface *)
(* with different ids, fields with an imported type, names that are equal  *)
(* in snake case, and fulltext names that are no identifiers.              *)
KnownFlaw(document) ==
    LET types  == {d \in ToSet(document) : d.kind = "object" /\ d.name # SCHEMA_TYPE_NAME}
        tables == {d \in types : TRUE} \union {d \in ToSet(document) : d.kind = "enum"}
        idOf(o) == {f.base : f \in {f \in ToSet(o.fields) : f.name = "id"}}
        norm(S) == IF S = {"ID"} THEN {"String"} ELSE S
    IN \/ \E o \in types : norm(idOf(o)) \notin {{"String"}, {"Bytes"}}
       \/ \E o, p \in types : /\ ToSet(o.implements) \intersect ToSet(p.implements) # {}
                               /\ norm(idOf(o)) # norm(idOf(p))
       \/ \E o \in types : \E f \in ToSet(o.fields) :
            \E i \in ImportedTypes(document) : i.type.alias = f.base
       \/ \E a, b \in tables : a # b /\ SqlName(a.name) = SqlName(b.name)
       \/ \E o \in types : \E i, j \in 1..Len(o.fields) :
            i # j /\ SqlName(o.fields[i].name) = SqlName(o.fields[j].name)
       \/ \E f \in ToSet(DirectivesOf(document, "fulltext")) : f.name.text \in BadIdentifiers

(* A manifest that was found valid can be deployed, but for the known      *)
(* flaws (and a graft base that does not fit): create_schema fails, or     *)
(* panics for want of an id, for no other reason.                          *)
ValidSchemasDeploy ==
    /\ request.stage \in {"failed", "panicked"} =>
         \/ KnownFlaw(Document(request.id))
         \/ request.stage = "failed" /\ manifest[request.id].graft # "none"
    /\ request.stage = "panicked" =>
         \E o \in ToSet(Document(request.id)) :
             o.kind = "object" /\ \A f \in ToSet(o.fields) : f.name # "id"

(* The deployment that was just created; nothing changes it later.         *)
JustDeployed == {d \in created : request = [id |-> d, stage |-> "created"]}

(* A deployed schema has an API schema, so that its entities can be        *)
(* written and queried, unless it defines a type twice or one that         *)
(* api_schema adds itself.                                                 *)
DeployedSchemasServe ==
    \A d \in JustDeployed :
        LET names == {t.name : t \in ToSet(Document(d))}
        IN \/ ApiOutcome(Document(d)) = "ok"
           \/ Cardinality(names) < Len(Document(d))
           \/ names \intersect (Scalars \union {"Query", "Subscription"}) # {}
           \/ \E n \in names : {n \o "_orderBy", n \o "_filter"} \intersect names # {}

(* The fulltext column of a table is made from text columns of the table,  *)
(* if the directive includes one type only.                                *)
FulltextOverOwnColumns ==
    \A d \in JustDeployed : \A o \in ToSet(TableTypes(Document(d))) :
        \A f \in ToSet(FulltextsOf(Document(d), o.name)) :
            Len(f.include) = 1 =>
                \A name \in NewFulltext(f).fulltext :
                    \E c \in ToSet(NewTable(Document(d), o).columns) :
                        c.name = SqlName(name) /\ c.type.type = "String"

(* The values that a column can hold, by its definition in the database.   *)
Storable(column) ==
    LET kinds == IF column.type.type = "Enum" THEN column.type.values ELSE {column.type.type}
    IN {<<IF column.list /\ column.type.type # "Enum" THEN "list" ELSE "one", k>> : k \in kinds}
       \union (IF column.nullable /\ column.name # PRIMARY_KEY_COLUMN
               THEN {<<"one", "null">>} ELSE {})

(* Every row of the graft base fits the table it is copied to: a value can *)
(* be stored in the column of the same name, and a column that the base    *)
(* does not have can be null.                                              *)
CopiedRowsFit ==
    \A d \in {d \in JustDeployed : manifest[d].graft # "none"} :
        \A p \in Copied(Document(d), Document(manifest[d].graft)) :
            \A c \in ToSet(p[1].columns) :
                IF HasColumn(p[2], c.name)
                THEN Storable(ColumnOf(p[2], c.name)) \subseteq Storable(c)
                ELSE <<"one", "null">> \in Storable(c)

(* Stated by can_copy_from: an empty list of errors means that the tables  *)
(* can be copied.  The copy selects columns that the source does not have. *)
GraftsCopy ==
    \A d \in DeploymentIds : started[d] # "failed"

(* Stated by ImportedType: importing "Thing" is the same as importing      *)
(* {name: "Thing", as: "Thing"}.  The second form keeps the quotes.        *)
ExplicitImportsAsPlain ==
    \A d \in DeploymentIds : \A i \in ToSet(DirectivesOf(Document(d), "import")) :
        \A t \in ToSet(i.types) :
            (~t.plain /\ t.name = t.as) => ParsedType(t) = ParsedType([t EXCEPT !.plain = TRUE])

(* Stated in validate_fulltext_directive_name: a fulltext field does not   *)
(* have the name of a query field of a type.                               *)
FulltextNamesFree ==
    \A d \in JustDeployed : \A f \in ToSet(DirectivesOf(Document(d), "fulltext")) :
        Cardinality({i \in 1..Len(QueryFields(Document(d))) :
                       QueryFields(Document(d))[i] = f.name.text}) = 1

(* A schema goes the whole way: imports are resolved, what is valid gets   *)
(* tables, what has tables serves queries, its fulltext columns are over   *)
(* columns it has, and rows copied for a graft fit.                        *)
SchemasConsistent ==
    /\ LayoutsTypeOK /\ ImportsResolved /\ ValidSchemasDeploy
    /\ DeployedSchemasServe /\ FulltextOverOwnColumns /\ CopiedRowsFit
============================================================================
