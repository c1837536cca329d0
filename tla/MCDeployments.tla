---------------------------- MODULE MCDeployments ----------------------------
(* Four instances that share a run and nothing else.                       *)
(*   versions: two names, two deployments, two callers and two nodes;      *)
(*   schema: documents of up to two types and a _Schema_ type, submitted   *)
(*     after a first deployment that may be imported from or grafted onto; *)
(*   triggers: every pair of six data sources, with a dynamic one or       *)
(*     without, on short chains of empty and busy blocks;                  *)
(*   sources: a factory whose contracts create others, over three blocks.  *)
EXTENDS Deployments, SchemaLayouts, TriggerFilters, DynamicDataSources, TLC

CONSTANTS n1, n2, h1, h2, c1, c2, node1, node2

VARIABLE part   \* the part of the deployment at work

ModelSymmetry ==
    UNION {Permutations(s) : s \in {{n1, n2}, {h1, h2}, {c1, c2}, {node1, node2}}}

---------------------------------------------------------------------------
(* Schemas                                                                 *)

Plain == [sort |-> "no directive", text |-> ""]

Field(name, base, list, nonNull) ==
    [name |-> name, base |-> base, list |-> list, nonNull |-> nonNull, derived |-> Plain]

Derived(name, base, from) ==
    [name |-> name, base |-> base, list |-> TRUE, nonNull |-> TRUE, derived |-> from]

Type(kind, name, implements, fields) ==
    [kind |-> kind, name |-> name, fields |-> fields, implements |-> implements,
     entity |-> TRUE, values |-> {}, directives |-> <<>>]

Object(name, implements, fields) == Type("object", name, implements, fields)

Enum(name, values) == [Type("enum", name, <<>>, <<>>) EXCEPT !.values = values]

SchemaType(directives) == [Object("_Schema_", <<>>, <<>>) EXCEPT !.directives = directives]

Id == Field("id", "ID", FALSE, TRUE)
BytesId == Field("id", "Bytes", FALSE, TRUE)
Name == Field("name", "String", FALSE, TRUE)

Import(from, types) == [kind |-> "import", from |-> from, types |-> types]

FromId(id) == [given |-> TRUE, id |-> Text(id), name |-> Absent]

PlainType(t) == [plain |-> TRUE, name |-> Text(t), as |-> Absent]

Fulltext(name, include) ==
    [kind |-> "fulltext", name |-> Text(name), language |-> [sort |-> "enum", text |-> "en"],
     algorithm |-> [sort |-> "enum", text |-> "rank"], include |-> include]

Include(entity, fields) == [entity |-> entity, fields |-> fields]

Search == Fulltext("search", <<Include("Token", {"name"})>>)

(* What the first deployment may define: a graft base and source of types. *)
BaseDefinitions == <<
    Object("Token", <<>>, <<Id, Name, Field("kind", "Kind", FALSE, TRUE)>>),
    Object("Account", <<>>, <<BytesId, Field("label", "String", FALSE, FALSE)>>),
    Enum("Kind", {"a", "b"}),
    SchemaType(<<Import(FromId("d2"), <<PlainType("Token")>>), Import(FromId("d0"), <<>>)>>)>>

(* What the second may define: two types, and the _Schema_ type.           *)
Definitions == <<
    Object("Token", <<>>, <<Id, Name, Field("owner", "Account", FALSE, FALSE)>>),
    Object("Token", <<>>, <<Id, Name, Field("kind", "Kind", FALSE, TRUE)>>),
    Object("Account", <<>>, <<BytesId, Field("label", "String", FALSE, FALSE),
                              Derived("tokens", "Token", Text("owner"))>>),
    Object("User", <<"Holder">>, <<Id, Field("label", "String", FALSE, FALSE),
                                   Derived("peers", "Holder", Text("label"))>>),
    Object("token", <<>>, <<Id, Field("Name", "Int", TRUE, FALSE)>>),
    Object("Note", <<>>, <<Name>>),
    Object("Query", <<>>, <<Field("id", "String", FALSE, FALSE), Name,
                            Field("NAME", "Bytes", FALSE, FALSE)>>),
    Object("Query", <<>>, <<Field("id", "String", FALSE, FALSE), Name>>),
    Object("Link", <<>>, <<Id, Field("other", "Foreign", FALSE, FALSE)>>),
    Object("Link", <<>>, <<Field("id", "Int", FALSE, TRUE), Derived("d", "Token", Absent)>>),
    [Object("Loose", <<>>, <<Id>>) EXCEPT !.entity = FALSE],
    Type("interface", "Holder", <<>>, <<Field("label", "String", FALSE, FALSE)>>),
    Enum("Kind", {"a"}),
    Enum("Kind", {"a", "b", "c"}),
    Enum("Token", {"x"})>>

SchemaTypes == {
    SchemaType(<<Import(FromId("d1"), <<PlainType("Token")>>)>>),
    SchemaType(<<Import(FromId("d1"), <<PlainType("Foreign")>>)>>),
    SchemaType(<<Import(FromId("d1"), <<[plain |-> FALSE, name |-> Text("Token"), as |-> Text("Token")]>>)>>),
    SchemaType(<<Import(FromId("d 1"), <<PlainType("Foreign")>>)>>),
    SchemaType(<<Import([given |-> TRUE, id |-> Text("d1"), name |-> Text("s")], <<>>)>>),
    [SchemaType(<<>>) EXCEPT !.fields = <<Id>>],
    SchemaType(<<[kind |-> "other"]>>),
    SchemaType(<<Search>>),
    SchemaType(<<Search, Search>>),
    SchemaType(<<Fulltext("names", <<Include("Token", {"name"})>>)>>),
    SchemaType(<<Fulltext("token", <<Include("Token", {"name"})>>)>>),
    SchemaType(<<Fulltext("a b", <<Include("Token", {"name"})>>)>>),
    SchemaType(<<Fulltext("search", <<Include("Token", {"kind"})>>)>>),
    SchemaType(<<Fulltext("search", <<Include("Token", {"name"}), Include("User", {"label"})>>)>>),
    SchemaType(<<[Search EXCEPT !.language.text = "xx"]>>),
    SchemaType(<<[Search EXCEPT !.algorithm.sort = "absent"]>>)}

UpToTwo(definitions) ==
    LET n == DOMAIN definitions
    IN {<<definitions[i]>> : i \in n}
       \union {<<definitions[p[1]], definitions[p[2]]>> : p \in {p \in n \X n : p[1] < p[2]}}

Holders == <<
    Object("Account", <<"Holder">>, <<BytesId, Field("label", "String", FALSE, FALSE)>>),
    Definitions[4], Definitions[12]>>

WithSchemaType(documents) == documents \union {d \o <<s>> : d \in documents, s \in SchemaTypes}

BaseDocuments ==
    {<<BaseDefinitions[1], BaseDefinitions[3]>>, <<BaseDefinitions[2]>>, <<BaseDefinitions[4]>>,
     <<BaseDefinitions[1], BaseDefinitions[3], BaseDefinitions[4]>>}

PlainSource == [kind |-> "ethereum/contract", network |-> "mainnet", address |-> TRUE,
           calls |-> TRUE, blocks |-> <<TRUE, FALSE>>]

Manifest(schema, graft) == [schema |-> schema, sources |-> <<PlainSource>>, graft |-> graft]

MCManifests ==
    [d \in DeploymentIds |->
       IF d = "d1" THEN {Manifest(s, "none") : s \in BaseDocuments}
       ELSE {Manifest(s, "none") : s \in WithSchemaType(UpToTwo(Definitions)) \union {Holders}}
            \union {Manifest(s, "d1") : s \in UpToTwo(Definitions)}
            \union {[Manifest(<<Definitions[8]>>, "none") EXCEPT !.sources = s] :
                    s \in {<<>>, <<[PlainSource EXCEPT !.network = "kovan"], PlainSource>>,
                           <<[PlainSource EXCEPT !.address = FALSE]>>,
                           <<[PlainSource EXCEPT !.blocks = <<TRUE, TRUE>>]>>}}]

MCCamelCase == [n \in {"Token", "Account", "User", "Note", "Query", "Link", "Holder",
                       "Tokens", "Accounts", "Users", "Notes", "Queries", "Links", "Holders",
                       "_Schema_", "_Schema_s", "Name", "NAME"} |->
                 CASE n = "Token" -> "token" [] n = "Account" -> "account"
                   [] n = "User" -> "user" [] n = "Tokens" -> "tokens"
                   [] n = "_Schema_" -> "schema" [] OTHER -> n]
MCPluralOf == [n \in {"Token", "token", "Account", "User", "name"} |-> n \o "s"]
MCSnakeCase == [n \in {"Token", "NAME", "Name"} |-> IF n = "Token" THEN "token" ELSE "name"]

---------------------------------------------------------------------------
(* Triggers: data sources with and without an address, with start blocks   *)
(* and every kind of handler.                                              *)

Listener(address, events, functions, every, withCall, start) ==
    [address |-> address, events |-> events, functions |-> functions, every |-> every,
     withCall |-> withCall, start |-> start]

Listeners ==
    {Listener("a", {"e", "f"}, {"g"}, FALSE, FALSE, 0), Listener("b", {"e"}, {}, TRUE, FALSE, 2),
     Listener(NoAddress, {"h"}, {}, FALSE, FALSE, 0), Listener(NoAddress, {"e"}, {"g"}, TRUE, FALSE, 0),
     Listener("a", {"e", "h"}, {"k"}, FALSE, TRUE, 2), Listener("b", {}, {"g", "k"}, FALSE, TRUE, 3)}

Log(address, event, number, tx, index) ==
    [kind |-> "log", address |-> address, event |-> event, number |-> number, tx |-> tx,
     index |-> index]

Call(to, function, number, tx, ok) ==
    [kind |-> "call", to |-> to, function |-> function, number |-> number, tx |-> tx, ok |-> ok]

(* In a transaction the logs and the calls alternate.                      *)
BusyBlock(n) ==
    <<Call("b", "g", n, 0, TRUE), Log("a", "e", n, 0, 0), Call("a", "k", n, 0, n # 2),
      Log("b", "e", n, 1, 1), Call("a", "g", n, 1, TRUE), Log("a", "h", n, 1, 2),
      Log("c", NoTopic, n, 2, 3), Log("a", "f", n, 2, 4), Call("b", "k", n, 2, TRUE)>>

Chains == {<<BusyBlock(1), BusyBlock(2), BusyBlock(3), <<>>, BusyBlock(5)>>,
           <<<<>>, BusyBlock(2)>>, <<BusyBlock(1)>>}

SeqsOf(S) == {<<>>} \cup {<<s>> : s \in S}

MCTriggerCases ==
    {[manifest |-> m, dynamic |-> d, blocks |-> blocks]
        : m \in {<<s, t>> : s \in Listeners, t \in Listeners},
          d \in SeqsOf(Listeners), blocks \in Chains}

---------------------------------------------------------------------------
(* Dynamic data sources                                                    *)

Creation(address, maker, creates) == [address |-> address, maker |-> maker, creates |-> creates]

MCManifest == <<"factory">>

MCAddress == ("factory" :> "f") @@ ("pair" :> "p") @@ ("twin" :> "p") @@ ("token" :> "t")

(* Blocks whose triggers create sources that listen in the same block, for *)
(* an address that is listened to already, or twice.                       *)
MCBlocks ==
    {<<>>,
     <<Creation("f", "factory", <<"pair">>), Creation("p", "pair", <<"token">>),
       Creation("t", "token", <<>>)>>,
     <<Creation("p", "pair", <<>>), Creation("f", "factory", <<"pair", "twin">>)>>,
     <<Creation("f", "factory", <<"token", "token">>), Creation("t", "token", <<"twin">>),
       Creation("p", "twin", <<"pair">>)>>,
     <<Creation("p", "twin", <<"token">>), Creation("t", "token", <<>>)>>}

---------------------------------------------------------------------------
(* The parts do not interact: each behaviour is one of one part.           *)
IdleCase == [manifest |-> <<>>, dynamic |-> <<>>, blocks |-> <<>>]

TriggersIdle ==
    /\ tcase = IdleCase /\ tphase = "idle" /\ tgraph = {} /\ requests = <<>>
    /\ tfilters = [log |-> LogFilter(<<>>), call |-> CallFilter(<<>>), block |-> NoBlockFilter]
    /\ scan = [start |-> 1, step |-> 0] /\ found = <<>>

DeploymentInit ==
    /\ DeploymentsInit /\ LayoutsInit /\ SourcesInit
    /\ \/ part \in {"versions", "schema", "sources"} /\ TriggersIdle
       \/ part = "triggers" /\ TriggerInit

DeploymentNext ==
    \/ part = "versions" /\ DeploymentsNext /\ UNCHANGED <<part, layoutVars, triggerVars, sourceVars>>
    \/ part = "schema" /\ LayoutsNext /\ UNCHANGED <<part, dvars, triggerVars, sourceVars>>
    \/ part = "triggers" /\ TriggerNext /\ UNCHANGED <<part, dvars, layoutVars, sourceVars>>
    \/ part = "sources" /\ SourcesNext /\ UNCHANGED <<part, dvars, layoutVars, triggerVars>>

DeploymentSpec ==
    DeploymentInit /\ [][DeploymentNext]_<<part, dvars, layoutVars, triggerVars, sourceVars>>
==============================================================================
