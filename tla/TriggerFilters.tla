--------------------------- MODULE TriggerFilters ---------------------------
(* What reaches the handlers of a subgraph: the filters that are built from *)
(* its data sources (graph/src/components/ethereum/adapter.rs), the scans   *)
(* of a range of old blocks with eth_getLogs and trace_filter               *)
(* (chain/ethereum/src/ethereum_adapter.rs), the direct way for a block     *)
(* near the head, the order of triggers (ethereum/types.rs) and the match   *)
(* with the runtime hosts (runtime/wasm/src/host.rs).                       *)
(*                                                                          *)
(* A block is a sequence of logs and calls in the order of the chain; an    *)
(* item knows its block and its transaction, a log its index.               *)
EXTENDS Integers, Sequences, FiniteSets, SequencesExt, FiniteSetsExt

CONSTANTS
    TriggerCases,            \* data sources of the manifest, those created
                             \* later, and the blocks of the range
    NoAddress,               \* a data source for any contract
    NoTopic,                 \* a log without topics
    MAX_EVENT_ONLY_RANGE,
    TRACE_STREAM_STEP_SIZE,
    StepDivisor              \* 10 in the code: how a range that is too
                             \* heavy is made smaller

ASSUME RangeAssumption ==
    /\ {MAX_EVENT_ONLY_RANGE, TRACE_STREAM_STEP_SIZE} \subseteq Nat \ {0}
    /\ StepDivisor \in Nat \ {0, 1}

SourcesOf(c) == ToSet(c.manifest) \cup ToSet(c.dynamic)

ContractsOf(c) == {d.address : d \in SourcesOf(c)}

EventsOf(c) == UNION {d.events : d \in SourcesOf(c)}

(* A node of the graph is a contract or an event: the two variants of      *)
(* LogFilterNode are never equal.                                          *)
ASSUME LogNodesAssumption ==
    \A c \in TriggerCases :
        IsFiniteSet(EventsOf(c)) /\ ContractsOf(c) \cap EventsOf(c) = {}

VARIABLES
    tcase,      \* the case at hand
    tphase,     \* what blocks_with_triggers is about to do
    tfilters,   \* the filters of the indexing state
    tgraph,     \* contracts and events that no request covers yet
    requests,   \* eth_getLogs requests
    scan,       \* start and step of the scan
    found       \* triggers, in the order in which they were found

triggerVars == <<tcase, tphase, tfilters, tgraph, requests, scan, found>>

To == Len(tcase.blocks)

Hosts == tcase.manifest \o tcase.dynamic

---------------------------------------------------------------------------
(* Filters *)

EdgesOf(d) == IF d.address = NoAddress THEN {} ELSE {d.address} \X d.events

LogFilter(sources) ==
    [edges |-> UNION {EdgesOf(d) : d \in ToSet(sources)},
     wildcards |-> UNION {d.events : d \in {d \in ToSet(sources) : d.address = NoAddress}}]

LogFilterExtend(a, b) ==
    [edges |-> a.edges \cup b.edges, wildcards |-> a.wildcards \cup b.wildcards]

LogMatches(filter, log) ==
    /\ log.event # NoTopic
    /\ <<log.address, log.event>> \in filter.edges \/ log.event \in filter.wildcards

CallFilter(sources) ==
    LET with(a) == {d \in ToSet(sources) : d.address = a /\ d.functions # {}}
        addresses == {d.address : d \in ToSet(sources)} \ {NoAddress}
    IN [a \in {a \in addresses : with(a) # {}} |->
           [start |-> Min({d.start : d \in with(a)}),
            functions |-> UNION {d.functions : d \in with(a)}]]

CallFilterExtend(a, b) ==
    [c \in DOMAIN a \cup DOMAIN b |->
        IF c \notin DOMAIN a THEN b[c] ELSE IF c \notin DOMAIN b THEN a[c]
        ELSE [start |-> Min({a[c].start, b[c].start}),
              functions |-> a[c].functions \cup b[c].functions]]

(* An address without functions matches every call to it.                  *)
CallMatches(filter, call) ==
    /\ call.to \in DOMAIN filter
    /\ filter[call.to].functions = {} \/ call.function \in filter[call.to].functions

(* EthereumBlockFilter::extend goes over its own addresses and takes start *)
(* blocks for them from the other filter, and no addresses.                *)
BlockFilterExtend(a, b) ==
    [every |-> a.every \/ b.every,
     addresses |-> {<<Min({p[1]} \cup {q[1] : q \in {q \in b.addresses : q[2] = p[2]}}), p[2]>>
                    : p \in a.addresses}]

NoBlockFilter == [every |-> FALSE, addresses |-> {}]

BlockFilter(sources) ==
    LET one(d) == [every |-> d.every,
                   addresses |-> IF d.withCall THEN {<<d.start, d.address>>} ELSE {}]
    IN FoldLeft(LAMBDA f, d : IF d.address = NoAddress THEN f ELSE BlockFilterExtend(f, one(d)),
                NoBlockFilter, sources)

(* EthereumCallFilter::from(EthereumBlockFilter) *)
AsCallFilter(filter) ==
    [a \in {p[2] : p \in filter.addresses} |->
        [start |-> (CHOOSE p \in filter.addresses : p[2] = a)[1], functions |-> {}]]

(* start_subgraph, and persist_dynamic_data_sources for those that blocks  *)
(* create.                                                                 *)
BuildFilters ==
    /\ tphase = "new"
    /\ tfilters' =
          [log |-> LogFilterExtend(LogFilter(tcase.manifest), LogFilter(tcase.dynamic)),
           call |-> CallFilterExtend(CallFilter(tcase.manifest), CallFilter(tcase.dynamic)),
           block |-> BlockFilterExtend(BlockFilter(tcase.manifest), BlockFilter(tcase.dynamic))]
    /\ tphase' = "wildcards"
    /\ UNCHANGED <<tcase, tgraph, requests, scan, found>>

---------------------------------------------------------------------------
(* Logs: eth_get_logs_filters                                              *)

Request(contracts, events) == [contracts |-> contracts, events |-> events]

PlanWildcards ==
    /\ tphase = "wildcards"
    /\ requests' = SetToSeq({Request({}, {e}) : e \in tfilters.log.wildcards})
    /\ tgraph' = tfilters.log.edges
    /\ tphase' = "plan"
    /\ UNCHANGED <<tcase, tfilters, scan, found>>

(* The edges of a vertex: a contract or an event.                          *)
EdgesAt(v) == {e \in tgraph : v \in {e[1], e[2]}}

Vertices == {e[1] : e \in tgraph} \cup {e[2] : e \in tgraph}

WithoutVertex(v) == tgraph \ EdgesAt(v)

(* A vertex with the most neighbours becomes a request; which one of those *)
(* with equally many depends on the order of the graph.                    *)
PlanRequest ==
    /\ tphase = "plan" /\ tgraph # {}
    /\ \E v \in Vertices :
          /\ \A w \in Vertices : Cardinality(EdgesAt(w)) <= Cardinality(EdgesAt(v))
          /\ requests' = Append(requests, Request({e[1] : e \in EdgesAt(v)},
                                                  {e[2] : e \in EdgesAt(v)}))
          /\ tgraph' = WithoutVertex(v)
    /\ UNCHANGED <<tcase, tphase, tfilters, scan, found>>

(* log_stream: the first step.  Requests for any contract are expensive.   *)
FirstStep(request) ==
    IF request.contracts # {} THEN To - 1 ELSE Min({To - 1, MAX_EVENT_ONLY_RANGE - 1})

StartOf(rs) == [start |-> 1, step |-> IF rs = <<>> THEN 0 ELSE FirstStep(rs[1])]

Planned ==
    /\ tphase = "plan" /\ tgraph = {}
    /\ tphase' = "logs"
    /\ scan' = StartOf(requests)
    /\ UNCHANGED <<tcase, tfilters, tgraph, requests, found>>

ItemsIn(from, to, Matches(_)) ==
    FlattenSeq([i \in 1..(to - from + 1) |-> SelectSeq(tcase.blocks[from + i - 1], Matches)])

(* The answer of the node, external: all logs of the blocks asked for.     *)
GetLogs(request, from, to) ==
    ItemsIn(from, to, LAMBDA x : /\ x.kind = "log" /\ x.event \in request.events
                                 /\ request.contracts = {} \/ x.address \in request.contracts)

(* Faulty variant: the next range starts at the end of the last.           *)
NextStartOverlap(end) == IF end = To THEN end + 1 ELSE end

NextStart(end) == end + 1

ScanLogs ==
    /\ tphase = "logs" /\ requests # <<>> /\ scan.start <= To
    /\ LET end == Min({scan.start + scan.step, To})
       IN /\ found' = found \o GetLogs(requests[1], scan.start, end)
          /\ scan' = [scan EXCEPT !.start = NextStart(end)]
    /\ UNCHANGED <<tcase, tphase, tfilters, tgraph, requests>>

(* The node finds the request too heavy: the range becomes smaller, down   *)
(* to one block.  With that, and with every other error that persists, the *)
(* whole operation fails.                                                  *)
TooManyLogs ==
    /\ tphase = "logs" /\ requests # <<>> /\ scan.start <= To
    /\ scan.step > 0
    /\ scan' = [scan EXCEPT !.step = @ \div StepDivisor]
    /\ UNCHANGED <<tcase, tphase, tfilters, tgraph, requests, found>>

RpcError ==
    /\ tphase \in {"logs", "calls"}
    /\ tphase' = "failed"
    /\ UNCHANGED <<tcase, tfilters, tgraph, requests, scan, found>>

NextRequest ==
    /\ tphase = "logs" /\ requests # <<>> /\ scan.start > To
    /\ requests' = Tail(requests)
    /\ scan' = StartOf(Tail(requests))
    /\ UNCHANGED <<tcase, tphase, tfilters, tgraph, found>>

---------------------------------------------------------------------------
(* Calls: calls_in_block_range and trace_stream                            *)

(* try_from_trace: calls that failed or carry no function are no calls.    *)
IsCall(x) == x.kind = "call" /\ x.ok

Addresses(filter) == {a \in DOMAIN filter : filter[a].start <= To}

TraceStep(filter) ==
    Max({1, IF Addresses(filter) # {} THEN TRACE_STREAM_STEP_SIZE
            ELSE TRACE_STREAM_STEP_SIZE \div 4})

(* The answer of the node, external: trace_filter without addresses gives  *)
(* all traces.                                                             *)
Traces(filter, from, to) ==
    ItemsIn(from, to, LAMBDA x : /\ x.kind = "call"
                                 /\ Addresses(filter) = {} \/ x.to \in Addresses(filter))

CallsIn(filter, from, to) ==
    SelectSeq(Traces(filter, from, to), LAMBDA x : IsCall(x) /\ CallMatches(filter, x))

TraceEnd(filter) == Min({scan.start + TraceStep(filter) - 1, To})

LogsDone ==
    /\ tphase = "logs" /\ requests = <<>>
    /\ tphase' = "calls"
    /\ scan' = [scan EXCEPT !.start = IF DOMAIN tfilters.call = {} THEN To + 1 ELSE 1]
    /\ UNCHANGED <<tcase, tfilters, tgraph, requests, found>>

ScanCalls ==
    /\ tphase = "calls" /\ scan.start <= To
    /\ found' = found \o CallsIn(tfilters.call, scan.start, TraceEnd(tfilters.call))
    /\ scan' = [scan EXCEPT !.start = TraceEnd(tfilters.call) + 1]
    /\ UNCHANGED <<tcase, tphase, tfilters, tgraph, requests>>

---------------------------------------------------------------------------
(* Blocks *)

EveryBlock(n) == [kind |-> "block", every |-> TRUE, to |-> NoAddress, number |-> n]

BlockWithCall(call) == [kind |-> "block", every |-> FALSE, to |-> call.to, number |-> call.number]

(* Blocks with a call to some address are looked for only when no handler  *)
(* wants every block.                                                      *)
BlocksInRange ==
    LET filter == AsCallFilter(tfilters.block)
        calls  == CallsIn(filter, 1, To)
    IN IF tfilters.block.every THEN [n \in 1..To |-> EveryBlock(n)]
       ELSE IF tfilters.block.addresses = {} THEN <<>>
       ELSE [i \in 1..Len(calls) |-> BlockWithCall(calls[i])]

CallsDone ==
    /\ tphase = "calls" /\ scan.start > To
    /\ found' = found \o BlocksInRange
    /\ tphase' = "done"
    /\ UNCHANGED <<tcase, tfilters, tgraph, requests, scan>>

TriggerInit ==
    /\ tcase \in TriggerCases
    /\ tphase = "new"
    /\ tfilters = [log |-> LogFilter(<<>>), call |-> CallFilter(<<>>), block |-> NoBlockFilter]
    /\ tgraph = {}
    /\ requests = <<>>
    /\ scan = [start |-> 1, step |-> 0]
    /\ found = <<>>

TriggerNext ==
    \/ BuildFilters \/ PlanWildcards \/ PlanRequest \/ Planned
    \/ ScanLogs \/ TooManyLogs \/ RpcError \/ NextRequest \/ LogsDone
    \/ ScanCalls \/ CallsDone

TriggerSpec == TriggerInit /\ [][TriggerNext]_triggerVars

---------------------------------------------------------------------------
(* The triggers of a block                                                 *)

(* Ord for EthereumTrigger: events by their index, calls by transaction    *)
(* and after its events, blocks last.                                      *)
Precedes(a, b) ==
    CASE a.kind = "block" -> FALSE
      [] b.kind = "block" -> TRUE
      [] a.kind = "log" /\ b.kind = "log" -> a.index < b.index
      [] a.kind = "log" /\ b.kind = "call" -> a.tx <= b.tx
      [] OTHER -> a.tx < b.tx

(* A stable sort.                                                          *)
Sorted(s) ==
    LET place(i) == Cardinality({j \in 1..Len(s) :
                        Precedes(s[j], s[i]) \/ (j <= i /\ ~Precedes(s[i], s[j]))})
    IN [p \in 1..Len(s) |-> s[CHOOSE i \in 1..Len(s) : place(i) = p]]

(* blocks_with_triggers: what was found, by block.                         *)
RangeTriggers(n) == Sorted(SelectSeq(found, LAMBDA t : t.number = n))

(* triggers_in_block for a block that is not final.                        *)
HeadTriggers(n) ==
    LET items  == tcase.blocks[n]
        logs   == SelectSeq(items, LAMBDA x : x.kind = "log" /\ LogMatches(tfilters.log, x))
        calls  == SelectSeq(items, LAMBDA x : IsCall(x) /\ CallMatches(tfilters.call, x))
        blocks == SelectSeq(items, LAMBDA x : IsCall(x)
                                   /\ CallMatches(AsCallFilter(tfilters.block), x))
    IN Sorted(logs \o calls \o [i \in 1..Len(blocks) |-> BlockWithCall(blocks[i])]
              \o IF tfilters.block.every THEN <<EveryBlock(n)>> ELSE <<>>)

(* matches_log, matches_call, matches_block                                *)
HostMatches(d, t) ==
    /\ d.start <= t.number
    /\ CASE t.kind = "log" -> d.address \in {NoAddress, t.address} /\ t.event \in d.events
         [] t.kind = "call" -> d.address \in {NoAddress, t.to} /\ t.function \in d.functions
         [] t.kind = "block" -> IF t.every THEN d.every ELSE d.withCall /\ d.address = t.to

(* process_trigger_in_runtime_hosts: the handlers that run, in order.      *)
Handled(hosts, triggers) ==
    LET for(t) == SelectSeq([i \in 1..Len(hosts) |-> [host |-> i, trigger |-> t]],
                            LAMBDA h : HostMatches(hosts[h.host], h.trigger))
    IN FlattenSeq([i \in 1..Len(triggers) |-> for(triggers[i])])

---------------------------------------------------------------------------
(* Properties                                                              *)

(* Everything a block has to offer, in order.                              *)
AllTriggers(n) ==
    Sorted(SelectSeq(tcase.blocks[n], LAMBDA x : x.kind = "log" \/ IsCall(x))
           \o <<EveryBlock(n)>>)

(* No event has both a handler for any contract and one for a contract,    *)
(* and only events are handled for any contract.                           *)
PlainSources ==
    /\ \A d \in ToSet(Hosts) : d.address = NoAddress => d.functions = {} /\ ~d.every
    /\ \A e \in LogFilter(Hosts).edges : e[2] \notin LogFilter(Hosts).wildcards

(* The same handlers run, in the same order, whether a block is fetched as *)
(* part of a range of old blocks, in as many pieces as the node wants, or  *)
(* alone when it is new; and they are the ones the data sources ask for,   *)
(* each once, with data sources created later as good as those in the      *)
(* manifest.  (For block handlers with a filter see below.)                *)
HandlersIndependentOfTheWay ==
    tphase = "done" /\ PlainSources =>
        \A n \in 1..To :
            /\ Handled(Hosts, RangeTriggers(n)) = Handled(Hosts, AllTriggers(n))
            /\ Handled(Hosts, HeadTriggers(n)) = Handled(Hosts, AllTriggers(n))

(* The requests for logs divide the pairs of contract and event: no pair   *)
(* is asked for twice or left out, and "the filters will not return false  *)
(* positives".                                                             *)
RequestsDividePairs ==
    LET pairs(r) == r.contracts \X r.events
        of(i) == pairs(requests[i])
    IN tphase = "plan" =>
        /\ tgraph \cup UNION {of(i) : i \in 1..Len(requests)} = tfilters.log.edges
        /\ \A i, j \in 1..Len(requests) :
              /\ of(i) \cap tgraph = {}
              /\ i # j => of(i) \cap of(j) = {}

(* What the manifest's documentation says of a block handler with a        *)
(* filter: the filter decides which blocks trigger it.  A block with a     *)
(* call to the contract triggers the handler of its data source.           *)
CallFilteredBlocksTrigger ==
    tphase = "done" =>
        \A n \in 1..To : \A x \in ToSet(tcase.blocks[n]) : \A i \in 1..Len(Hosts) :
            IsCall(x) /\ Hosts[i].withCall /\ Hosts[i].address = x.to /\ Hosts[i].start <= n
            => \E h \in ToSet(Handled(Hosts, RangeTriggers(n))) :
                  h.host = i /\ h.trigger.kind = "block"

(* Filters and requests lose nothing: the log requests divide what the     *)
(* filter asks for, and the handlers that run do not depend on the way a   *)
(* block was fetched.                                                      *)
TriggersConsistent == HandlersIndependentOfTheWay /\ RequestsDividePairs
=============================================================================
