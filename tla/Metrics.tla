------------------------------- MODULE Metrics -------------------------------
(***************************************************************************)
(* The metrics stage: MetricsAggregator shards fed by the LLM stage, and   *)
(* the in-flight table ActiveCalls they share (server/h-metrics/src).      *)
(*                                                                         *)
(* Every map of the stage is keyed by source and no step reads another     *)
(* source's entries, so there is one source here.  Of a bucket's fields    *)
(* the two that every other one goes with are kept, the number of Starts   *)
(* and of Completes; of the four dimensions the model's and the global     *)
(* one.  A shard's step is two: the writes of an event, and the watermark  *)
(* with expiry and drain, because the shared table is locked in each.      *)
(***************************************************************************)
EXTENDS Integers, Sequences, FiniteSets, FiniteSetsExt

CONSTANTS
    Shards,     \* metrics shards
    Calls,      \* CallKeys
    Models,
    Requested,  \* the model a call's request names: [Calls -> Models]
    Answered,   \* the model its response names
    ShardOf,    \* metrics_shard_index: [Models -> Shards]
    Surface,    \* the tool surface the classifier finds: [Calls -> Surfaces \cup {None}]
    Surfaces,
    Grans,      \* window sizes, one per granularity
    MaxOpen,    \* MAX_OPEN_US
    Cap,        \* capacity of a shard's channel
    MaxTime,    \* bound: largest event time
    All,        \* the dimension "*"
    None        \* Rust's Option::None

ASSUME MetricsAssumption ==
    /\ IsFiniteSet(Shards) /\ IsFiniteSet(Calls)
    /\ Requested \in [Calls -> Models] /\ Answered \in [Calls -> Models]
    /\ ShardOf \in [Models -> Shards] /\ Surface \in [Calls -> Surfaces \cup {None}]
    /\ Grans \subseteq Nat \ {0} /\ MaxOpen \in Nat /\ Cap \in Nat /\ MaxTime \in Nat
    /\ All \notin Models /\ None \notin Nat /\ None \notin Surfaces

Times == 0..MaxTime

Dims == Models \cup {All}

\* dimension_keys.
DimensionKeys(m) == {m, All}

\* window_start.
WindowStart(t, g) == (t \div g) * g

\* BucketKey.
Keys ==
    UNION {[gran: {g}, window: {WindowStart(t, g) : t \in Times}, dim: Dims,
            surface: Surfaces \cup {None}] : g \in Grans}

\* The entry of an open call.
OpenCall == [dims: SUBSET Dims, start: Times]

ASSUME NoneAssumption == None \notin OpenCall

Event == [kind: {"Start", "Complete"}, call: Calls, ts: Times]
            \cup [kind: {"Heartbeat"}, ts: Times]

VARIABLES
    clock,      \* event time at the capture
    started,    \* request time of each call whose Start was sent, else None
    completed,  \* calls whose Complete was sent
    beaten,     \* event time of the last heartbeat
    eof,        \* the LLM stage has dropped its senders
    queue,      \* each shard's channel
    buckets,    \* each shard's buckets: by key, Starts and Completes counted
    latest,     \* each shard's latest_ts
    lastFlush,  \* each shard's last_flush_ts by granularity
    due,        \* the event time a shard has yet to advance to, else None
    open,       \* ActiveCalls.open: None, or the dimensions and start time
    counts,     \* ActiveCalls.counts
    stopped,    \* shards that have returned
    rows,       \* history: what each shard emitted, summed by key
    handled,    \* history: the events each shard recorded
    since       \* history: a shard's watermark when a bucket was opened

sent == <<clock, started, completed, beaten, eof>>
vars == <<clock, started, completed, beaten, eof, queue, buckets, latest, lastFlush, due,
          open, counts, stopped, rows, handled, since>>

Empty == [start |-> 0, complete |-> 0]

-----------------------------------------------------------------------------
(* The LLM stage's side of the channel.                                     *)

Offer(k, e) == Len(queue[k]) < Cap /\ queue' = [queue EXCEPT ![k] = Append(@, e)]

Unsent == <<buckets, latest, lastFlush, due, open, counts, stopped, rows, handled, since>>

\* A blocking send to the shard of the model the request names.
SendStart(c) ==
    /\ ~eof /\ started[c] = None
    /\ Offer(ShardOf[Requested[c]], [kind |-> "Start", call |-> c, ts |-> clock])
    /\ started' = [started EXCEPT ![c] = clock]
    /\ UNCHANGED <<clock, completed, beaten, eof>> /\ UNCHANGED Unsent

\* A blocking send to the shard of the model the response names; the response
\* ended at t, or was flushed now and had its last packet at t.
SendComplete(c, t) ==
    /\ ~eof /\ started[c] # None /\ c \notin completed /\ t \in started[c]..clock
    /\ Offer(ShardOf[Answered[c]], [kind |-> "Complete", call |-> c, ts |-> t])
    /\ completed' = completed \cup {c}
    /\ UNCHANGED <<clock, started, beaten, eof>> /\ UNCHANGED Unsent

\* try_send to every shard: dropped where the channel is full.
SendHeartbeat ==
    /\ ~eof /\ beaten < clock
    /\ beaten' = clock
    /\ queue' = [k \in Shards |->
                   IF Len(queue[k]) < Cap
                   THEN Append(queue[k], [kind |-> "Heartbeat", ts |-> clock])
                   ELSE queue[k]]
    /\ UNCHANGED <<clock, started, completed, eof>> /\ UNCHANGED Unsent

Tick ==
    /\ ~eof /\ clock < MaxTime
    /\ clock' = clock + 1
    /\ UNCHANGED <<started, completed, beaten, eof, queue>> /\ UNCHANGED Unsent

CloseUpstream ==
    /\ ~eof /\ eof' = TRUE
    /\ UNCHANGED <<clock, started, completed, beaten, queue>> /\ UNCHANGED Unsent

-----------------------------------------------------------------------------
(* ActiveCalls.                                                             *)

\* start: a call that is already open is not counted again.
Opened(c, t) ==
    IF open[c] # None THEN UNCHANGED <<open, counts>>
    ELSE /\ open' = [open EXCEPT ![c] = [dims |-> DimensionKeys(Requested[c]), start |-> t]]
         /\ counts' = [d \in Dims |-> IF d \in DimensionKeys(Requested[c])
                                      THEN counts[d] + 1 ELSE counts[d]]

\* Deviation: the same, clamped at zero.
Decremented_Clamped(cs) ==
    [d \in Dims |->
        LET n == Cardinality({c \in cs : d \in DimensionKeys(Answered[c])})
        IN  IF n > counts[d] THEN 0 ELSE counts[d] - n]

\* decrement: the dimensions stored with each closed call.
Decremented(cs) ==
    [d \in Dims |-> counts[d] - Cardinality({c \in cs : d \in open[c].dims})]

\* complete and expire: the open ones of cs are closed.
Closed(cs) ==
    LET gone == {c \in cs : open[c] # None}
    IN  /\ open' = [c \in Calls |-> IF c \in gone THEN None ELSE open[c]]
        /\ counts' = Decremented(gone)

\* expire: every call that opened more than MAX_OPEN_US before now.
Stale(now) == {c \in Calls : open[c] # None /\ now - open[c].start > MaxOpen}

-----------------------------------------------------------------------------
(* MetricsAggregator.                                                       *)

\* The buckets an event of call c is written to: a Start is untagged, and so is
\* a Complete, since the stage sends the call on before it sets its tool_surface.
TaggedSurface(c) == None

KeysOf(c, m, surface) ==
    {[gran |-> g, window |-> WindowStart(started[c], g), dim |-> d, surface |-> surface] :
        g \in Grans, d \in DimensionKeys(m)}

StartKeys(c) == KeysOf(c, Requested[c], None)
CompleteKeys(c) == KeysOf(c, Answered[c], TaggedSurface(c))

Later(a, b) == IF a < b THEN b ELSE a

Added(a, b) == [start |-> a.start + b.start, complete |-> a.complete + b.complete]

OneStart == [Empty EXCEPT !.start = 1]
OneComplete == [Empty EXCEPT !.complete = 1]

\* Entry::or_insert_with, then one more Start or Complete.
Written(k, keys, one, now) ==
    /\ buckets' = [buckets EXCEPT ![k] =
                     [x \in Keys |-> IF x \in keys
                                     THEN Added(buckets[k][x], one)
                                     ELSE buckets[k][x]]]
    /\ since' = [since EXCEPT ![k] =
                   [x \in Keys |-> IF x \in keys /\ buckets[k][x] = Empty
                                   THEN Later(latest[k], now) ELSE since[k][x]]]

\* Deviation: every write moves the anchor.
Anchored_Always(k, c) ==
    [lastFlush EXCEPT ![k] = [g \in Grans |-> WindowStart(started[c], g)]]

\* The cadence anchor of a first write is the start of its window.
Anchored(k, c) ==
    [lastFlush EXCEPT ![k] =
        [g \in Grans |-> IF lastFlush[k][g] = None THEN WindowStart(started[c], g)
                         ELSE lastFlush[k][g]]]

\* process, first part: on_call_start, on_call_complete, or nothing for a heartbeat.
Record(k) ==
    /\ k \notin stopped /\ due[k] = None /\ queue[k] # << >>
    /\ LET e == Head(queue[k])
       IN  /\ \/ /\ e.kind = "Start"
                 /\ Opened(e.call, e.ts)
                 /\ Written(k, StartKeys(e.call), OneStart, e.ts)
                 /\ lastFlush' = Anchored(k, e.call)
                 /\ handled' = [handled EXCEPT ![k] = @ \cup {<<"Start", e.call>>}]
              \/ /\ e.kind = "Complete"
                 /\ Closed({e.call})
                 /\ Written(k, CompleteKeys(e.call), OneComplete, e.ts)
                 /\ lastFlush' = Anchored(k, e.call)
                 /\ handled' = [handled EXCEPT ![k] = @ \cup {<<"Complete", e.call>>}]
              \/ /\ e.kind = "Heartbeat"
                 /\ UNCHANGED <<open, counts, buckets, since, lastFlush, handled>>
           /\ due' = [due EXCEPT ![k] = e.ts]
           /\ queue' = [queue EXCEPT ![k] = Tail(@)]
    /\ UNCHANGED sent /\ UNCHANGED <<latest, stopped, rows>>

\* Deviation: a drain takes the buckets of every granularity along and reports
\* the due one's.
Emit_DropsOthers(k, gs) ==
    /\ rows' = [rows EXCEPT ![k] =
                  [x \in Keys |-> IF x.gran \in gs THEN Added(rows[k][x], buckets[k][x])
                                  ELSE rows[k][x]]]
    /\ buckets' = [buckets EXCEPT ![k] = [x \in Keys |-> IF gs # {} THEN Empty ELSE buckets[k][x]]]

\* Every bucket of the granularities gs is flushed and removed.
Emit(k, gs) ==
    /\ rows' = [rows EXCEPT ![k] =
                  [x \in Keys |-> IF x.gran \in gs THEN Added(rows[k][x], buckets[k][x])
                                  ELSE rows[k][x]]]
    /\ buckets' = [buckets EXCEPT ![k] =
                     [x \in Keys |-> IF x.gran \in gs THEN Empty ELSE buckets[k][x]]]

\* maybe_drain: the granularities whose cadence has elapsed.
Elapsed(k, now) == {g \in Grans : lastFlush[k][g] # None /\ now - lastFlush[k][g] >= g}

\* process, second part: the watermark, expire, maybe_drain.
Advance(k) ==
    /\ due[k] # None
    /\ LET now == Later(latest[k], due[k])
       IN  /\ latest' = [latest EXCEPT ![k] = now]
           /\ Closed(Stale(now))
           /\ Emit(k, Elapsed(k, now))
           /\ lastFlush' = [lastFlush EXCEPT ![k] =
                              [g \in Grans |-> IF g \in Elapsed(k, now) THEN now ELSE @[g]]]
    /\ due' = [due EXCEPT ![k] = None]
    /\ UNCHANGED sent /\ UNCHANGED <<queue, stopped, handled, since>>

\* Deviation: the last windows are left behind.
Stop_NoFlush(k) ==
    /\ eof /\ k \notin stopped /\ due[k] = None /\ queue[k] = << >>
    /\ stopped' = stopped \cup {k}
    /\ UNCHANGED sent
    /\ UNCHANGED <<queue, buckets, latest, lastFlush, due, open, counts, rows, handled, since>>

\* Upstream EOF: flush_all, then the task returns.
Stop(k) ==
    /\ eof /\ k \notin stopped /\ due[k] = None /\ queue[k] = << >>
    /\ Emit(k, Grans)
    /\ stopped' = stopped \cup {k}
    /\ UNCHANGED sent
    /\ UNCHANGED <<queue, latest, lastFlush, due, open, counts, handled, since>>

Shard(k) == Record(k) \/ Advance(k) \/ Stop(k)

Init ==
    /\ clock = 0 /\ beaten = 0 /\ eof = FALSE
    /\ started = [c \in Calls |-> None] /\ completed = {}
    /\ queue = [k \in Shards |-> << >>]
    /\ buckets = [k \in Shards |-> [x \in Keys |-> Empty]]
    /\ latest = [k \in Shards |-> 0]
    /\ lastFlush = [k \in Shards |-> [g \in Grans |-> None]]
    /\ due = [k \in Shards |-> None]
    /\ open = [c \in Calls |-> None] /\ counts = [d \in Dims |-> 0]
    /\ stopped = {}
    /\ rows = [k \in Shards |-> [x \in Keys |-> Empty]]
    /\ handled = [k \in Shards |-> {}]
    /\ since = [k \in Shards |-> [x \in Keys |-> 0]]

Next ==
    \/ Tick \/ SendHeartbeat \/ CloseUpstream
    \/ \E c \in Calls : SendStart(c) \/ \E t \in Times : SendComplete(c, t)
    \/ \E k \in Shards : Shard(k)

Spec == Init /\ [][Next]_vars

\* Tokio polls a task that can run.
FairSpec == Spec /\ \A k \in Shards : WF_vars(Shard(k))

-----------------------------------------------------------------------------
Count == [start: Nat, complete: Nat]

TypeOK ==
    /\ clock \in Times /\ beaten \in Times /\ eof \in BOOLEAN
    /\ started \in [Calls -> Times \cup {None}] /\ completed \subseteq Calls
    /\ queue \in [Shards -> Seq(Event)]
    /\ buckets \in [Shards -> [Keys -> Count]]
    /\ latest \in [Shards -> Times]
    /\ lastFlush \in [Shards -> [Grans -> Times \cup {None}]]
    /\ due \in [Shards -> Times \cup {None}]
    /\ open \in [Calls -> OpenCall \cup {None}]
    /\ counts \in [Dims -> Nat]
    /\ stopped \subseteq Shards
    /\ rows \in [Shards -> [Keys -> Count]]
    /\ handled \in [Shards -> SUBSET ({"Start", "Complete"} \X Calls)]
    /\ since \in [Shards -> [Keys -> Times]]

CountsMatchOpen ==
    \A d \in Dims : counts[d] = Cardinality({c \in Calls : open[c] # None /\ d \in open[c].dims})

\* The state keeps its types, in particular no count goes below zero, and the
\* shared table's count of a dimension is the number of open calls whose Start
\* named it, whichever shards open, close and expire them and whatever model
\* the response names (ActiveCalls).
InFlightSound == TypeOK /\ CountsMatchOpen

StartsOf(k, x) == {c \in Calls : <<"Start", c>> \in handled[k] /\ x \in StartKeys(c)}
CompletesOf(k, x) == {c \in Calls : <<"Complete", c>> \in handled[k] /\ x \in CompleteKeys(c)}

\* Nothing is lost or reported twice: the rows a shard has emitted for a window
\* and what its bucket still holds sum to the events it was given, however many
\* drains a late Complete comes after (docs: "Late Complete never lost").
Conserved ==
    \A k \in Shards, x \in Keys :
        /\ rows[k][x].start + buckets[k][x].start = Cardinality(StartsOf(k, x))
        /\ rows[k][x].complete + buckets[k][x].complete = Cardinality(CompletesOf(k, x))

\* With every shard returned the rows of all shards sum to the calls of the
\* window: a window's total does not depend on which shards its events went to,
\* on where drains fell, or on events still queued at EOF (flush_all).
FinalTotals ==
    \A x \in Keys :
        /\ MapThenSumSet(LAMBDA k : rows[k][x].start, Shards)
             = Cardinality({c \in Calls : started[c] # None /\ x \in StartKeys(c)})
        /\ MapThenSumSet(LAMBDA k : rows[k][x].complete, Shards)
             = Cardinality({c \in completed : x \in CompleteKeys(c)})

\* A bucket is reported before its shard's watermark is a full window past the
\* event that opened it, wherever in a window the drains have drifted to
\* (maybe_drain, last_flush_ts).
LagBounded ==
    \A k \in Shards, x \in Keys :
        due[k] = None /\ buckets[k][x] # Empty => latest[k] - since[k][x] < x.gran

\* When a shard has handled an event no call stays open longer than MAX_OPEN_US
\* before that shard's watermark, also the calls other shards opened ("the worst
\* a lost Complete can do is linger for that long").
LingerBounded ==
    [][\A k \in Shards : due[k] # None /\ due'[k] = None =>
          \A c \in Calls : open'[c] # None => latest'[k] - open'[c].start =< MaxOpen]_vars

\* No step makes a wait overlong: a bucket's for its drain (there is none at the
\* start) and an open call's for its expiry.
ReportedInTime == [][LagBounded']_vars /\ LingerBounded

\* Every shard returns once the upstream is gone, and then the totals are right.
Drains == eof ~> stopped = Shards /\ FinalTotals

\* What the aggregator's comment on BucketKey says of a Complete: it is counted
\* under the tool surface the call was classified with.
CompletesAreTagged ==
    \A k \in Shards, c \in Calls : <<"Complete", c>> \in handled[k] =>
        \E x \in Keys : /\ x.surface = Surface[c]
                        /\ rows[k][x].complete + buckets[k][x].complete > 0

=============================================================================
