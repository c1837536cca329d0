----------------------------- MODULE LoadManager -----------------------------
(* The load manager of the query node: moving statistics over a window      *)
(* (graph/src/util/stats.rs) and the decision whether a query runs          *)
(* (graph/src/data/graphql/effort.rs), which several requests make at the   *)
(* same time.  The kill rate is in thousandths.                             *)
EXTENDS Integers, Sequences, FiniteSets, SequencesExt, FiniteSetsExt

CONSTANTS
    Shapes,                      \* shapes of queries
    BlockedShapes,
    Deciders,                    \* requests at the same time
    WorkUnits,                   \* how long a query, or a wait, may take
    UnitsPerMilli,               \* finer than the milliseconds of as_millis
    WINDOW_SIZE,
    BIN_SIZE,
    LOAD_THRESHOLD,
    JAIL_THRESHOLD,              \* in percent
    KILL_RATE_UPDATE_INTERVAL,
    SIMULATE,
    LoadTime,                    \* bound: the clock
    Measurements                 \* bound: work and waits that are recorded

(* MovingStats::new asserts the first two.                                 *)
ASSUME LoadAssumption ==
    /\ WINDOW_SIZE \in Nat /\ BIN_SIZE \in Nat \ {0} /\ WINDOW_SIZE > BIN_SIZE
    /\ LOAD_THRESHOLD \in Nat /\ JAIL_THRESHOLD \in Nat /\ UnitsPerMilli \in Nat \ {0}
    /\ WorkUnits \subseteq Nat /\ KILL_RATE_UPDATE_INTERVAL \in Nat /\ SIMULATE \in BOOLEAN
    /\ BlockedShapes \subseteq Shapes

VARIABLES
    clock,
    effort,      \* QueryEffortInner::effort: statistics of the shapes seen
    total,       \* QueryEffortInner::total
    waits,       \* semaphore_wait_stats and store_wait_stats
    jailed,      \* jailed_queries
    killState,   \* rate and last update
    deciders,    \* what the requests are about to do
    workLog      \* history: all work, when it was recorded and for what

loadVars == <<clock, effort, total, waits, jailed, killState, deciders, workLog>>

---------------------------------------------------------------------------
(* MovingStats *)

NoStats == [bins |-> <<>>, duration |-> 0, count |-> 0]

NeedNewBin(stats, now) == stats.bins = <<>> \/ now - Last(stats.bins).start >= BIN_SIZE

Expired(bin, now) == now - bin.start >= WINDOW_SIZE

Durations(bins) == SumFunctionOnSet([i \in 1..Len(bins) |-> bins[i].duration], 1..Len(bins))

Counts(bins) == SumFunctionOnSet([i \in 1..Len(bins) |-> bins[i].count], 1..Len(bins))

(* The first bin, from the front, that has not expired.                    *)
FirstKept(bins, now) ==
    Min({i \in 1..Len(bins) : ~Expired(bins[i], now)} \cup {Len(bins) + 1})

(* Faulty variant: the total keeps the duration of what expires.           *)
ExpireCountOnly(stats, now) ==
    LET first == FirstKept(stats.bins, now)
    IN [bins |-> SubSeq(stats.bins, first, Len(stats.bins)),
        duration |-> stats.duration,
        count |-> stats.count - Counts(SubSeq(stats.bins, 1, first - 1))]

(* expire_bins *)
ExpireBins(stats, now) ==
    LET first == FirstKept(stats.bins, now)
        gone  == SubSeq(stats.bins, 1, first - 1)
    IN [bins |-> SubSeq(stats.bins, first, Len(stats.bins)),
        duration |-> stats.duration - Durations(gone),
        count |-> stats.count - Counts(gone)]

WithBin(stats, now) ==
    IF NeedNewBin(stats, now)
    THEN Append(stats.bins, [start |-> now, duration |-> 0, count |-> 0])
    ELSE stats.bins

(* add_at *)
AddAt(stats, now, d) ==
    LET kept == ExpireBins([stats EXCEPT !.bins = WithBin(stats, now)], now)
        back == Last(kept.bins)
    IN [bins |-> [kept.bins EXCEPT ![Len(kept.bins)] =
                     [back EXCEPT !.duration = @ + d, !.count = @ + 1]],
        duration |-> kept.duration + d,
        count |-> kept.count + 1]

(* average, compared with a threshold: none without measurements.          *)
AverageAbove(stats, threshold) == stats.count > 0 /\ stats.duration \div stats.count > threshold

---------------------------------------------------------------------------
(* LoadManager *)

LoadInit ==
    /\ clock = KILL_RATE_UPDATE_INTERVAL + 1
    /\ effort = <<>>
    /\ total = NoStats
    /\ waits = [s \in {"semaphore", "store"} |-> NoStats]
    /\ jailed = {}
    /\ killState = [rate |-> 0, updated |-> 0]
    /\ deciders = [c \in Deciders |-> [phase |-> "idle"]]
    /\ workLog = <<>>

LoadClock ==
    /\ clock < LoadTime
    /\ clock' = clock + 1
    /\ UNCHANGED <<effort, total, waits, jailed, killState, deciders, workLog>>

Recorded == Len(workLog) + waits["semaphore"].count + waits["store"].count

(* overloaded: the larger average decides.                                 *)
Overloaded == \E s \in DOMAIN waits : AverageAbove(waits[s], LOAD_THRESHOLD)

Goto(c, decider) == deciders' = [deciders EXCEPT ![c] = decider]

Refused(q) == IF SIMULATE THEN [phase |-> "permit", shape |-> q] ELSE [phase |-> "idle"]

(* decide, up to the locks it reads: the state of the overload is what     *)
(* this request goes by from here on.                                      *)
Ask(c, q) ==
    /\ deciders[c].phase = "idle"
    /\ Goto(c, IF q \in BlockedShapes THEN [phase |-> "idle"]
               ELSE IF LOAD_THRESHOLD = 0 THEN [phase |-> "permit", shape |-> q]
               ELSE IF q \in jailed THEN Refused(q)
               ELSE IF ~Overloaded /\ killState.rate = 0 THEN [phase |-> "permit", shape |-> q]
               ELSE [phase |-> "weigh", shape |-> q, overloaded |-> Overloaded,
                     killState |-> killState])
    /\ deciders'[c] # deciders[c]
    /\ UNCHANGED <<clock, effort, total, waits, jailed, killState, workLog>>

Known(q) == q \in DOMAIN effort

AsMillis(d) == d \div UnitsPerMilli

(* An unknown query is assumed to be all the work.                         *)
QueryEffort(q) == AsMillis(IF Known(q) THEN effort[q].duration ELSE total.duration)

TotalEffort == AsMillis(total.duration)

MustJail(q) ==
    Known(q) /\ 100 * QueryEffort(q) > JAIL_THRESHOLD * TotalEffort

Welcome(c) ==
    /\ deciders[c].phase = "weigh" /\ total.duration = 0
    /\ Goto(c, [phase |-> "permit", shape |-> deciders[c].shape])
    /\ UNCHANGED <<clock, effort, total, waits, jailed, killState, workLog>>

Jail(c) ==
    /\ deciders[c].phase = "weigh" /\ total.duration > 0
    /\ MustJail(deciders[c].shape)
    /\ jailed' = jailed \cup {deciders[c].shape}
    /\ Goto(c, Refused(deciders[c].shape))
    /\ UNCHANGED <<clock, effort, total, waits, killState, workLog>>

Step(overloaded, rate) ==
    IF overloaded THEN rate + (1000 - rate) \div 10 ELSE Max({rate - 200, 0})

(* update_kill_rate, with the rate and the time the request has read.      *)
Updated(c) ==
    LET d == deciders[c]
    IN IF clock - d.killState.updated > KILL_RATE_UPDATE_INTERVAL
       THEN [rate |-> Step(d.overloaded, d.killState.rate), updated |-> clock]
       ELSE killState

RateFor(c) ==
    LET d == deciders[c]
    IN IF clock - d.killState.updated > KILL_RATE_UPDATE_INTERVAL
       THEN Updated(c).rate ELSE d.killState.rate

(* Faulty variant: the effort of the query does not matter.                *)
DeclinesByRate(rate, q) == {b \in BOOLEAN : b => rate > 0}

(* gen_bool with probability rate * effort / total, which is one when both *)
(* efforts are below a millisecond: 0/0 is no number, and min(1.0) of no   *)
(* number is 1.0.                                                          *)
Declines(rate, q) ==
    IF TotalEffort = 0 THEN {TRUE}
    ELSE {b \in BOOLEAN : /\ b => rate * QueryEffort(q) > 0
                          /\ ~b => rate * QueryEffort(q) < 1000 * TotalEffort}

Weigh(c) ==
    LET q == deciders[c].shape
    IN /\ deciders[c].phase = "weigh" /\ total.duration > 0
       /\ ~MustJail(q)
       /\ killState' = Updated(c)
       /\ \E decline \in Declines(RateFor(c), q) :
             Goto(c, IF decline /\ ~SIMULATE
                     THEN [phase |-> "throttled", shape |-> q]
                     ELSE [phase |-> "permit", shape |-> q])
       /\ UNCHANGED <<clock, effort, total, waits, jailed, workLog>>

(* The request is answered with an error.                                  *)
Answered(c) ==
    /\ deciders[c].phase = "throttled"
    /\ Goto(c, [phase |-> "idle"])
    /\ UNCHANGED <<clock, effort, total, waits, jailed, killState, workLog>>

(* query_permit, add_wait_time *)
Permit(c) ==
    /\ deciders[c].phase = "permit" /\ Recorded < Measurements
    /\ \E d \in WorkUnits : waits' = [waits EXCEPT !["semaphore"] = AddAt(@, clock, d)]
    /\ Goto(c, [phase |-> "run", shape |-> deciders[c].shape])
    /\ UNCHANGED <<clock, effort, total, jailed, killState, workLog>>

(* record_work *)
RecordWork(c) ==
    LET q == deciders[c].shape
    IN /\ deciders[c].phase = "run" /\ Recorded < Measurements
       /\ \E d \in WorkUnits :
             /\ effort' = [s \in DOMAIN effort \cup {q} |->
                              IF s # q THEN effort[s]
                              ELSE AddAt(IF Known(q) THEN effort[q] ELSE NoStats, clock, d)]
             /\ total' = AddAt(total, clock, d)
             /\ workLog' = Append(workLog, [shape |-> q, at |-> clock, duration |-> d])
       /\ Goto(c, [phase |-> "idle"])
       /\ UNCHANGED <<clock, waits, jailed, killState>>

(* Something waits for a connection: external, through PoolWaitStats.      *)
StoreWaits ==
    /\ Recorded < Measurements
    /\ \E d \in WorkUnits : waits' = [waits EXCEPT !["store"] = AddAt(@, clock, d)]
    /\ UNCHANGED <<clock, effort, total, jailed, killState, deciders, workLog>>

LoadNext ==
    \/ LoadClock \/ StoreWaits
    \/ \E c \in Deciders :
          \/ \E q \in Shapes : Ask(c, q)
          \/ Welcome(c) \/ Jail(c) \/ Weigh(c) \/ Answered(c) \/ Permit(c) \/ RecordWork(c)

LoadSpec == LoadInit /\ [][LoadNext]_loadVars

---------------------------------------------------------------------------
(* Properties                                                              *)

AllStats == {total, waits["semaphore"], waits["store"]} \cup {effort[q] : q \in DOMAIN effort}

(* The totals are those of the bins, so that removing one never goes below *)
(* zero (which panics), bins are in order and within one window, and the   *)
(* kill rate is between 0 and 1.                                           *)
LoadTypeOK ==
    /\ killState.rate \in 0..1000
    /\ \A s \in AllStats :
          /\ s.duration = Durations(s.bins) /\ s.count = Counts(s.bins)
          /\ \A i, j \in 1..Len(s.bins) : i < j =>
                /\ s.bins[j].start - s.bins[i].start >= BIN_SIZE
                /\ s.bins[j].start - s.bins[i].start < WINDOW_SIZE

(* Work that was recorded in a stretch of time, for some shapes.           *)
WorkIn(shapes, from, to) ==
    SumFunctionOnSet([i \in 1..Len(workLog) |-> workLog[i].duration],
                     {i \in 1..Len(workLog) : /\ workLog[i].shape \in shapes
                                              /\ workLog[i].at \in from..to})

LastWork(shapes) == Max({0} \cup {w.at : w \in {w \in ToSet(workLog) : w.shape \in shapes}})

(* As of the last time something was added, a statistic has all work of    *)
(* the window but what shares a bin with its beginning, and nothing from   *)
(* before the window.                                                      *)
InWindow(stats, shapes) ==
    LET now == LastWork(shapes)
    IN /\ stats.duration >= WorkIn(shapes, now - WINDOW_SIZE + BIN_SIZE, now)
       /\ stats.duration <= WorkIn(shapes, now - WINDOW_SIZE + 1, now)

(* The statistics that decide on declining, of all queries and of each     *)
(* shape, cover the window, however much later the next measurement comes. *)
WindowRespected ==
    workLog # <<>> => /\ InWindow(total, Shapes)
                   /\ \A q \in DOMAIN effort : InWindow(effort[q], {q})

(* "We will decline to run queries randomly with a probability of          *)
(* kill_rate * query_effort / total_effort": a query that is known and     *)
(* takes no time to speak of is not declined when others do the work.  (It *)
(* is when all work together takes less than a millisecond.)               *)
CheapQueriesRun ==
    [][\A c \in Deciders :
          deciders[c].phase = "weigh" /\ deciders'[c].phase = "throttled" /\ TotalEffort > 0
          => ~Known(deciders[c].shape) \/ QueryEffort(deciders[c].shape) > 0]_loadVars

(* What the load manager says of jail: a query is jailed for causing more  *)
(* than its share of the work in the window.                               *)
JailedCausedTheWork ==
    [][\A q \in jailed' \ jailed :
          100 * WorkIn({q}, clock - WINDOW_SIZE, clock)
          > JAIL_THRESHOLD * WorkIn(Shapes, clock - WINDOW_SIZE, clock)]_loadVars

(* "We adjust the kill_rate at most every KILL_RATE_UPDATE_INTERVAL"       *)
RateUpdatesSpaced ==
    [][killState'.updated # killState.updated =>
          killState'.updated - killState.updated > KILL_RATE_UPDATE_INTERVAL]_loadVars

(* The statistics the load manager decides by are those of the window, and *)
(* neither they nor the kill rate ever leave their range.                  *)
LoadConsistent == LoadTypeOK /\ WindowRespected
=============================================================================
