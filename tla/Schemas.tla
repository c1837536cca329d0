------------------------------ MODULE Schemas ------------------------------
(* The GraphQL schema of a subgraph (graph/src/data/schema.rs): how it is   *)
(* parsed, how the schemas it imports from are found in the store, and what *)
(* validate() demands of it.                                                *)
(*                                                                          *)
(* A document is a sequence of type definitions.  A field has a name, the   *)
(* name of its base type, and whether it is a list and non-null.  The value *)
(* of an argument of a directive has a sort and a text.                     *)
EXTENDS Integers, Sequences, FiniteSets, SequencesExt

CONSTANTS
    CamelCase,      \* to_camel_case of a name, where it differs
    PluralOf,       \* to_plural of a name, where it differs
    ValidIds,       \* the texts that are SubgraphDeploymentIds
    ValidNames,     \* the texts that are SubgraphNames
    Languages,      \* the languages of FulltextLanguage
    Algorithms      \* the algorithms of FulltextAlgorithm

Absent == [sort |-> "absent", text |-> ""]

Text(t) == [sort |-> "string", text |-> t]

SCHEMA_TYPE_NAME == "_Schema_"

Convert(f, name) == IF name \in DOMAIN f THEN f[name] ELSE name

ToCamelCase(name) == Convert(CamelCase, name)

ToPlural(name) == Convert(PluralOf, name)

Quoted(text) == "'" \o text \o "'"

---------------------------------------------------------------------------
(* Reading a document                                                      *)

OfKind(document, kind) == SelectSeq(document, LAMBDA d : d.kind = kind)

ObjectDefinitions(document) == OfKind(document, "object")

EnumNames(document) == {e.name : e \in ToSet(OfKind(document, "enum"))}

(* get_object_and_interface_type_fields: of two types with one name, the   *)
(* later one counts.                                                       *)
TypeFieldsOf(document) ==
    LET types  == SelectSeq(document, LAMBDA d : d.kind \in {"object", "interface"})
        last(n) == CHOOSE i \in 1..Len(types) :
                     /\ types[i].name = n
                     /\ \A j \in i + 1..Len(types) : types[j].name # n
    IN [n \in {d.name : d \in ToSet(types)} |-> types[last(n)].fields]

(* find_interface, and ObjectTypeExt::field: the first that matches.       *)
FirstNamed(seq, name) == SelectSeq(seq, LAMBDA d : d.name = name)[1]

HasNamed(seq, name) == \E d \in ToSet(seq) : d.name = name

FieldNamed(fields, name) == FirstNamed(fields, name)

DirectivesOf(document, kind) ==
    LET schemas == SelectSeq(ObjectDefinitions(document), LAMBDA d : d.name = SCHEMA_TYPE_NAME)
    IN IF schemas = <<>> THEN <<>>
       ELSE SelectSeq(schemas[1].directives, LAMBDA d : d.kind = kind)

SameType(a, b) == a.base = b.base /\ a.list = b.list /\ a.nonNull = b.nonNull

(* ValueType::from_str and is_scalar                                       *)
Scalars == {"Boolean", "BigInt", "Bytes", "BigDecimal", "Int", "String", "ID"}

---------------------------------------------------------------------------
(* Parsing: every interface that an object implements must be defined, and *)
(* the object must have its fields with the same types.                    *)

ImplementsAll(object, interface) ==
    \A f \in ToSet(interface.fields) :
        \E o \in ToSet(object.fields) : o.name = f.name /\ SameType(o, f)

CollectInterfaces(document) ==
    \A object \in ToSet(ObjectDefinitions(document)) :
        \A i \in ToSet(object.implements) :
            LET interfaces == OfKind(document, "interface")
            IN HasNamed(interfaces, i) /\ ImplementsAll(object, FirstNamed(interfaces, i))

TypesForInterface(document, interface) ==
    {o \in ToSet(ObjectDefinitions(document)) : interface \in ToSet(o.implements)}

---------------------------------------------------------------------------
(* Imports                                                                 *)

(* SchemaReference::parse: only an id makes a reference.                   *)
IsReference(from) == from.given /\ from.id.sort = "string" /\ from.id.text \in ValidIds

ImportedSchemas(document) ==
    LET imports == SelectSeq(DirectivesOf(document, "import"), LAMBDA d : IsReference(d.from))
    IN [i \in 1..Len(imports) |-> imports[i].from.id.text]

(* ImportedType::parse.  The name and the alias of an object are written   *)
(* with to_string(), which puts them in quotes.                            *)
ParsedType(t) ==
    IF t.plain THEN [name |-> t.name.text, alias |-> t.name.text]
    ELSE [name |-> Quoted(t.name.text), alias |-> Quoted(t.as.text)]

Parses(t) == t.plain \/ (t.name # Absent /\ t.as # Absent)

ImportedTypes(document) ==
    UNION {{[type |-> ParsedType(t), from |-> d.from.id.text] :
            t \in {t \in ToSet(d.types) : Parses(t)}} :
           d \in {d \in ToSet(DirectivesOf(document, "import")) : IsReference(d.from)}}

MayVisit(id, visited) == id \notin visited

RECURSIVE ResolveImportGraph(_, _, _)
(* The schemas that can be reached over imports.  The store finds a schema *)
(* that is deployed and has an API schema; the others are noted.           *)
ResolveImportGraph(document, store, log) ==
    LET visit(acc, id) ==
            IF id \notin DOMAIN store
            THEN [acc EXCEPT !.missing = @ \union {id}]
            ELSE LET found == [acc EXCEPT !.schemas = @ \union {id}]
                 IN IF MayVisit(id, found.visited)
                    THEN ResolveImportGraph(store[id], store,
                                            [found EXCEPT !.visited = @ \union {id}])
                    ELSE found
    IN FoldLeft(visit, log, ImportedSchemas(document))

ResolveSchemaReferences(document, store) ==
    ResolveImportGraph(document, store, [schemas |-> {}, missing |-> {}, visited |-> {}])

---------------------------------------------------------------------------
(* Validation                                                              *)

EntityDirectivesMissing(document) ==
    \E t \in ToSet(ObjectDefinitions(document)) : ~t.entity /\ t.name # SCHEMA_TYPE_NAME

(* validate_derived_from: the target must be a type with the field, and    *)
(* the field's type must be the object, an interface of it with the        *)
(* derived field, or ID.                                                   *)
DerivedFromInvalid(document) ==
    LET fieldsOf == TypeFieldsOf(document)
        interfaces == OfKind(document, "interface")
        pointsBack(object, field, target) ==
            \/ target.base \in {object.name, "ID"}
            \/ \E i \in ToSet(object.implements) :
                 /\ HasNamed(interfaces, i)
                 /\ HasNamed(FirstNamed(interfaces, i).fields, field.name)
                 /\ target.base = i
    IN \E object \in ToSet(ObjectDefinitions(document)) : \E field \in ToSet(object.fields) :
         /\ field.derived.sort # "no directive"
         /\ ~ /\ field.derived.sort = "string"
              /\ field.base \in DOMAIN fieldsOf
              /\ HasNamed(fieldsOf[field.base], field.derived.text)
              /\ pointsBack(object, field,
                            FieldNamed(fieldsOf[field.base], field.derived.text))

SchemaTypeWithFields(document) ==
    LET types == SelectSeq(ObjectDefinitions(document), LAMBDA d : d.name = SCHEMA_TYPE_NAME)
    IN types # <<>> /\ types[1].fields # <<>>

InvalidSchemaTypeDirectives(document) == DirectivesOf(document, "other") # <<>>

FieldTypeKnown(document, base) ==
    \/ base \in Scalars
    \/ base \in DOMAIN TypeFieldsOf(document)
    \/ \E i \in ImportedTypes(document) : i.type.alias = base
    \/ base \in EnumNames(document)

FieldTypeUnknown(document) ==
    LET fieldsOf == TypeFieldsOf(document)
    IN \E t \in DOMAIN fieldsOf : \E f \in ToSet(fieldsOf[t]) :
         ~FieldTypeKnown(document, f.base)

(* Either the id or the name of a subgraph must be given.                  *)
ImportDirectiveInvalid(d) ==
    ~ /\ d.from.given
      /\ (d.from.id.sort = "string") # (d.from.name.sort = "string")
      /\ \A t \in ToSet(d.types) : t.name.sort = "string" /\ (t.plain \/ t.as.sort = "string")

ImportReferenceInvalid(d) ==
    /\ d.from.given
    /\ \/ d.from.id.sort = "string" /\ d.from.id.text \notin ValidIds
       \/ d.from.name.sort = "string" /\ d.from.name.text \notin ValidNames

(* A name is refused if it is the name of a field of a type, or a          *)
(* conversion of one.                                                      *)
FulltextNameInvalid(document, fulltext) ==
    \/ fulltext.name.sort # "string"
    \/ \E t \in ToSet(ObjectDefinitions(document)) : \E f \in ToSet(t.fields) :
         fulltext.name.text \in {ToCamelCase(f.name), ToCamelCase(ToPlural(f.name)), f.name}
    \/ Len(SelectSeq(DirectivesOf(document, "fulltext"),
                     LAMBDA d : d.name = fulltext.name)) > 1

FulltextLanguageInvalid(fulltext) ==
    fulltext.language.sort # "enum" \/ fulltext.language.text \notin Languages

FulltextAlgorithmInvalid(fulltext) ==
    fulltext.algorithm.sort # "enum" \/ fulltext.algorithm.text \notin Algorithms

TextFieldIncluded(fields, name) ==
    \E f \in ToSet(fields) : f.name = name /\ f.base \in {"String", "ID"}

FulltextIncludesInvalid(document, fulltext) ==
    \/ fulltext.include = <<>>
    \/ \E include \in ToSet(fulltext.include) :
         LET types == ObjectDefinitions(document)
         IN \/ ~HasNamed(types, include.entity)
            \/ \E name \in include.fields :
                 ~TextFieldIncluded(FirstNamed(types, include.entity).fields, name)

FulltextInvalid(document) ==
    \E f \in ToSet(DirectivesOf(document, "fulltext")) :
        \/ FulltextNameInvalid(document, f)
        \/ FulltextLanguageInvalid(f)
        \/ FulltextAlgorithmInvalid(f)
        \/ FulltextIncludesInvalid(document, f)

(* A type must be defined in the schema it is imported from or imported    *)
(* there; a schema that was not found is not asked.                        *)
ImportedTypeUndefined(document, store, schemas) ==
    \E i \in ImportedTypes(document) :
        /\ i.from \in schemas
        /\ ~HasNamed(ObjectDefinitions(store[i.from]), i.type.name)
        /\ \A j \in ImportedTypes(store[i.from]) : j.type.alias # i.type.name

SchemaValid(document, store, schemas) ==
    /\ ~EntityDirectivesMissing(document)
    /\ ~DerivedFromInvalid(document)
    /\ ~SchemaTypeWithFields(document)
    /\ ~InvalidSchemaTypeDirectives(document)
    /\ ~FieldTypeUnknown(document)
    /\ \A d \in ToSet(DirectivesOf(document, "import")) :
         ~ImportDirectiveInvalid(d) /\ ~ImportReferenceInvalid(d)
    /\ ~FulltextInvalid(document)
    /\ ~ImportedTypeUndefined(document, store, schemas)
============================================================================
