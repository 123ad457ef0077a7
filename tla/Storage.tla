------------------------------ MODULE Storage ------------------------------
(***************************************************************************)
(* One storage backend under writes, patches, deletions and the engine's   *)
(* own background work, with the read queries evaluated over every state   *)
(* it can reach.                                                           *)
(*                                                                         *)
(* DuckDB appends and updates in place.  ClickHouse appends; a patch is a  *)
(* new version of the row and a merge drops the old one at some later      *)
(* time.  AgLake only appends, cannot patch, stores bodies apart from      *)
(* their spans, and may store a batch twice when an acknowledgement is     *)
(* lost.  The three must answer alike.                                     *)
(***************************************************************************)
EXTENDS ConsoleQueries

CONSTANTS Calls,      \* span records that may be written
          Turns,      \* trace records that may be written
          HttpRows,   \* exchange records that may be written
          Patches,    \* turn_id -> metadata patch the sweeper may apply
          Clock,      \* wall-clock readings, a finite set of instants
          Keep,       \* retention ages
          AllTime,    \* a window that holds every instant of the instance
          Filters,    \* dimension filters the queries are asked with
          MaxVersions,\* versions of one trace in a behaviour
          MaxResent,  \* rows AgLake may store twice in a behaviour
          Minted      \* span id -> the instant its UUIDv7 carries, or Null

VARIABLES backend,   \* "duckdb", "clickhouse" or "aglake"
          dedup,     \* storage.aglake.metrics_dedup
          now,       \* the wall clock
          spans, bodies, traces, metrics, finish, exchanges, httpBodies,  \* the tables
          flushed,   \* ghost: calls the metric tables stand for
          unlabelled,\* ghost: flushed calls whose finish rows failed to be written
          sent,      \* ghost: what has been written, each once
          patched,   \* ghost: turns patched when the clock had passed their end
          sweptTo    \* ghost: the metric cutoffs of the last sweep

ghosts == <<flushed, unlabelled, sent, patched, sweptTo>>

vars == <<backend, dedup, now, spans, bodies, traces, metrics, finish, exchanges, httpBodies, ghosts>>

Backends == {"duckdb", "clickhouse", "aglake"}
-----------------------------------------------------------------------------
(* Rows as each backend stores them. *)

\* SQL keeps no tokens_estimated column: reads derive it from the body.
prepare_call(c) == [c EXCEPT !.tokens_estimated = Null]

CallRow(c) == [c EXCEPT !.tokens_estimated = Null]

LakeSpan(c) ==
  [c EXCEPT !.tokens_estimated = derive_tokens_estimated(c.input_tokens, Null, c.response_body),
            !.response_body = Null, !.has_body = c.response_body # Null]

LakeBody(c) == IF c.response_body = Null THEN {}
               ELSE {[span_id |-> c.id, ts |-> c.ts, text |-> c.response_body, copy |-> 1]}

prepare_turn(t) == t

\* The first version of a turn is its end time.
TurnRow(t) == [t EXCEPT !._version = t.end_time]

\* proxy_hidden is decided once, by the metadata the turn is written with.
proxy_fields(t) == Role(t)

trace_event(t) == [t EXCEPT !.proxy_hidden = proxy_fields(t) \in HiddenRoles]

\* A response body is kept unless the response is a stream.
http_events(x) ==
  [meta |-> [x EXCEPT !.response_body = Null, !.has_body = TRUE],
   body |-> [span_id |-> x.id, ts |-> x.ts, text |-> prepare_exchange(x).response_body, copy |-> 1]]

metric_event(r, flush) == r @@ [row_id |-> flush, copy |-> 1]

finish_event(r, flush) == r @@ [row_id |-> flush, copy |-> 1]
-----------------------------------------------------------------------------
Init ==
  /\ backend \in Backends
  /\ dedup \in BOOLEAN /\ (backend # "aglake" => dedup)
  /\ now = Min(Clock)
  /\ spans = {} /\ bodies = {} /\ traces = {} /\ metrics = {} /\ finish = {}
  /\ exchanges = {} /\ httpBodies = {} /\ flushed = {} /\ unlabelled = {} /\ sent = {} /\ patched = {}
  /\ sweptTo = [g \in Granularities |-> 0]

Once(tag) == tag \notin sent /\ sent' = sent \union {tag}

\* The write of one batch by each backend.
DuckWriteSpans(c) == spans' = spans \union {prepare_call(c)} /\ UNCHANGED bodies

ChWriteSpans(c) == spans' = spans \union {CallRow(c)} /\ UNCHANGED bodies

\* Spans and bodies travel in two requests; the second may fail.
LakeWriteSpans(c) ==
  /\ spans' = spans \union {LakeSpan(c)}
  /\ bodies' \in {bodies, bodies \union LakeBody(c)}

write_spans(c) ==
  /\ Once(<<"span", c.id>>)
  /\ \/ backend = "duckdb" /\ DuckWriteSpans(c)
     \/ backend = "clickhouse" /\ ChWriteSpans(c)
     \/ backend = "aglake" /\ LakeWriteSpans(c)
  /\ UNCHANGED <<backend, dedup, now, traces, metrics, finish, exchanges, httpBodies, flushed, unlabelled, patched, sweptTo>>

DuckWriteTraces(t) == traces' = traces \union {prepare_turn(t)}

ChWriteTraces(t) == traces' = traces \union {TurnRow(t)}

LakeWriteTraces(t) == traces' = traces \union {trace_event(t)}

write_traces(t) ==
  /\ Once(<<"trace", t.turn_id>>)
  /\ \/ backend = "duckdb" /\ DuckWriteTraces(t)
     \/ backend = "clickhouse" /\ ChWriteTraces(t)
     \/ backend = "aglake" /\ LakeWriteTraces(t)
  /\ UNCHANGED <<backend, dedup, now, spans, bodies, metrics, finish, exchanges, httpBodies, flushed, unlabelled, patched, sweptTo>>

SqlWriteExchanges(x) == exchanges' = exchanges \union {prepare_exchange(x)} /\ UNCHANGED httpBodies

LakeWriteExchanges(x) ==
  /\ exchanges' = exchanges \union {http_events(x).meta}
  /\ httpBodies' = httpBodies \union {http_events(x).body}

write_exchanges(x) ==
  /\ Once(<<"exchange", x.id>>)
  /\ IF backend = "aglake" THEN LakeWriteExchanges(x) ELSE SqlWriteExchanges(x)
  /\ UNCHANGED <<backend, dedup, now, spans, bodies, traces, metrics, finish, flushed, unlabelled, patched, sweptTo>>

\* A flush of the aggregator: the wide rows, then the finish-reason rows,
\* which may fail after the first were stored.
write_metrics(S, stored) ==
  LET flush == Cardinality(flushed) + 1
  IN /\ S \intersect flushed = {}
     /\ metrics' = metrics \union {metric_event(r, flush) : r \in MetricRows(S)}
     /\ finish' = IF stored THEN finish \union {finish_event(r, flush) : r \in FinishRows(S)} ELSE finish
     /\ flushed' = flushed \union S
     /\ unlabelled' = IF stored THEN unlabelled ELSE unlabelled \union S
     /\ UNCHANGED <<backend, dedup, now, spans, bodies, traces, exchanges, httpBodies, sent, patched, sweptTo>>

Copied(T) == T \union {[r EXCEPT !.copy = 2] : r \in T}

\* AgLake: a batch whose acknowledgement was lost is stored again.
resend_metrics(flush) ==
  /\ backend = "aglake"
  /\ metrics' = metrics \union Copied({r \in metrics : r.row_id = flush})
  /\ finish' = finish \union Copied({r \in finish : r.row_id = flush})
  /\ UNCHANGED <<backend, dedup, now, spans, bodies, traces, exchanges, httpBodies, ghosts>>

Resent == Cardinality({t \in traces : t.copy = 2}) + Cardinality({s \in spans : s.copy = 2})

resend_trace(t) ==
  /\ backend = "aglake" /\ Resent < MaxResent
  /\ traces' = traces \union Copied({t})
  /\ UNCHANGED <<backend, dedup, now, spans, bodies, metrics, finish, exchanges, httpBodies, ghosts>>

resend_span(s) ==
  /\ backend = "aglake" /\ Resent < MaxResent
  /\ spans' = spans \union Copied({s})
  /\ UNCHANGED <<backend, dedup, now, bodies, traces, metrics, finish, exchanges, httpBodies, ghosts>>

\* The shallow merge of a patch into a metadata object.
Merged(metadata, patch) == IF metadata = Null THEN patch ELSE patch @@ metadata

\* update_trace_metadata: in place on DuckDB, a new version stamped with the
\* wall clock on ClickHouse, refused on AgLake, and nothing for a turn that
\* is not stored yet.
DuckPatch(id) ==
  {IF t.turn_id = id THEN [t EXCEPT !.metadata = Merged(t.metadata, Patches[id])] ELSE t : t \in traces}

now_micros == now

ChPatch(id) ==
  traces \union {[t EXCEPT !.metadata = Merged(t.metadata, Patches[id]), !._version = now_micros,
                           !.copy = Max({r.copy : r \in {x \in traces : x.turn_id = id}}) + 1]
                   : t \in {x \in Final(traces) : x.turn_id = id}}

update_trace_metadata(id) ==
  /\ backend # "aglake"
  /\ \E t \in traces : t.turn_id = id /\ Role(t) = Null
  /\ \A t \in traces : t.turn_id = id => t.copy < MaxVersions
  /\ traces' = IF backend = "duckdb" THEN DuckPatch(id) ELSE ChPatch(id)
  /\ patched' = IF \E t \in traces : t.turn_id = id /\ t.end_time <= now THEN patched \union {id} ELSE patched
  /\ UNCHANGED <<backend, dedup, now, spans, bodies, metrics, finish, exchanges, httpBodies, flushed, unlabelled, sent, sweptTo>>

\* ClickHouse merges parts and drops the versions that lost.
MergeParts ==
  /\ backend = "clickhouse"
  /\ \E t \in traces \ Final(traces) : traces' = traces \ {t}
  /\ UNCHANGED <<backend, dedup, now, spans, bodies, metrics, finish, exchanges, httpBodies, ghosts>>

\* One sweep of the SQL backends: spans and exchanges by request time, traces
\* by end time, metrics per granularity.  AgLake's own retention is modelled
\* in AgLakeClient.
policy_from_config ==
  [spans |-> now - Keep.spans, traces |-> now - Keep.traces,
   metrics |-> [g \in Granularities |-> now - Keep.metrics[g]]]

\* The rows a cutoff takes; metrics have one for each granularity.
Expired(T, time, cutoff) == {r \in T : r[time] < cutoff}

ExpiredMetrics(T, cutoffs) == {r \in T : r.timestamp < cutoffs[r.granularity]}

apply_retention ==
  /\ backend # "aglake"
  /\ LET p == policy_from_config
     IN /\ spans' = spans \ Expired(spans, "request_time", p.spans)
        /\ exchanges' = exchanges \ Expired(exchanges, "request_time", p.spans)
        /\ traces' = traces \ Expired(traces, "end_time", p.traces)
        /\ metrics' = metrics \ ExpiredMetrics(metrics, p.metrics)
        /\ finish' = finish \ ExpiredMetrics(finish, p.metrics)
        /\ sweptTo' = p.metrics
  /\ UNCHANGED <<backend, dedup, now, bodies, httpBodies, flushed, unlabelled, sent, patched>>

\* Only the SQL backends read the wall clock here.
Tick ==
  /\ backend # "aglake"
  /\ \E t \in Clock : t > now /\ now' = t
  /\ UNCHANGED <<backend, dedup, spans, bodies, traces, metrics, finish, exchanges, httpBodies, ghosts>>
-----------------------------------------------------------------------------
(* Reads of whichever backend is configured. *)

query_metrics_timeseries(q) ==
  CASE backend = "duckdb" -> DuckTimeseries(metrics, q)
    [] backend = "clickhouse" -> ChTimeseries(metrics, q)
    [] OTHER -> LakeTimeseries(metrics, dedup, q)

query_metrics_summary(q) ==
  CASE backend = "duckdb" -> DuckSummary(metrics, q)
    [] backend = "clickhouse" -> ChSummary(metrics, q)
    [] OTHER -> LakeSummary(metrics, dedup, q)

query_models(q) ==
  CASE backend = "duckdb" -> DuckModels(metrics, q)
    [] backend = "clickhouse" -> ChModels(metrics, q)
    [] OTHER -> LakeModels(metrics, dedup, q)

query_finish_reasons(q) ==
  CASE backend = "duckdb" -> DuckFinishReasons(finish, q)
    [] backend = "clickhouse" -> ChFinishReasons(finish, q)
    [] OTHER -> LakeFinishReasons(finish, dedup, q)

query_spans(q) ==
  CASE backend = "duckdb" -> DuckSpans(spans, q)
    [] backend = "clickhouse" -> ChSpans(spans, q)
    [] OTHER -> LakeSpans(spans, q)

query_span_by_id(id, minted) ==
  CASE backend = "duckdb" -> DuckSpanById(spans, id)
    [] backend = "clickhouse" -> ChSpanById(spans, id)
    [] OTHER -> LakeSpanById(spans, bodies, id, minted)

query_trace_spans(id, include_bodies) ==
  CASE backend = "duckdb" -> DuckTraceSpans(traces, spans, id, include_bodies)
    [] backend = "clickhouse" -> ChTraceSpans(Final(traces), spans, id, include_bodies)
    [] OTHER -> LakeTraceSpans(traces, spans, bodies, id, include_bodies)

query_spans_by_ids(ids, include_bodies, minted) ==
  CASE backend = "duckdb" -> DuckSpansByIds(spans, ids, include_bodies)
    [] backend = "clickhouse" -> ChSpansByIds(spans, ids, include_bodies)
    [] OTHER -> read_spans_by_ids(spans, bodies, ids, include_bodies, Null, minted)

query_traces(q) ==
  CASE backend = "duckdb" -> DuckTraces(traces, spans, q)
    [] backend = "clickhouse" -> ChTraces(traces, spans, q)
    [] OTHER -> LakeTraces(traces, spans, q)

query_trace_by_id(id) ==
  CASE backend = "duckdb" -> DuckTraceById(traces, spans, id)
    [] backend = "clickhouse" -> ChTraceById(traces, id)
    [] OTHER -> LakeTraceById(traces, id, Null)

query_sessions(q) ==
  CASE backend = "duckdb" -> DuckSessions(traces, q)
    [] backend = "clickhouse" -> ChSessions(traces, q)
    [] OTHER -> LakeSessions(traces, q)

query_session_by_id(k) ==
  CASE backend = "duckdb" -> DuckSessionById(traces, k)
    [] backend = "clickhouse" -> ChSessionById(traces, k)
    [] OTHER -> LakeSessionById(traces, k)

query_session_traces(q) ==
  CASE backend = "duckdb" -> DuckSessionTraces(traces, q)
    [] backend = "clickhouse" -> ChSessionTraces(traces, q)
    [] OTHER -> LakeSessionTraces(traces, q)

query_http_exchanges(q) ==
  CASE backend = "duckdb" -> DuckExchanges(exchanges, q)
    [] backend = "clickhouse" -> ChExchanges(exchanges, q)
    [] OTHER -> LakeExchanges(exchanges, q)

query_http_exchange_by_id(id) ==
  CASE backend = "duckdb" -> DuckExchangeById(exchanges, id)
    [] backend = "clickhouse" -> ChExchangeById(exchanges, id)
    [] OTHER -> LakeExchangeById(exchanges, httpBodies, id, Null)

query_services(q) ==
  CASE backend = "duckdb" -> DuckServices(spans, q)
    [] backend = "clickhouse" -> ChServices(spans, q)
    [] OTHER -> LakeServices(spans, q)

query_services_topology(w) ==
  CASE backend = "duckdb" -> DuckTopology(traces, spans, w)
    [] backend = "clickhouse" -> ChTopology(traces, spans, w)
    [] OTHER -> LakeTopology(traces, spans, w)

query_agent_summary(w) ==
  CASE backend = "duckdb" -> DuckAgentSummary(traces, w)
    [] backend = "clickhouse" -> ChAgentSummary(traces, w)
    [] OTHER -> LakeAgentSummary(traces, w)

query_agent_activity(w, bucket) ==
  CASE backend = "duckdb" -> DuckAgentActivity(traces, w, bucket)
    [] backend = "clickhouse" -> ChAgentActivity(traces, w, bucket)
    [] OTHER -> LakeAgentActivity(traces, w, bucket)

query_distinct_wire_apis ==
  CASE backend = "duckdb" -> DuckDistinctWireApis(metrics)
    [] backend = "clickhouse" -> ChDistinctWireApis(metrics)
    [] OTHER -> LakeDistinctWireApis(spans)

query_distinct_models ==
  CASE backend = "duckdb" -> DuckDistinctModels(metrics)
    [] backend = "clickhouse" -> ChDistinctModels(metrics)
    [] OTHER -> LakeDistinctModels(spans)

query_distinct_server_ips ==
  CASE backend = "duckdb" -> DuckDistinctServerIps(metrics)
    [] backend = "clickhouse" -> ChDistinctServerIps(metrics)
    [] OTHER -> LakeDistinctServerIps(spans)

query_distinct_finish_reasons ==
  CASE backend = "duckdb" -> DuckDistinctFinish(finish)
    [] backend = "clickhouse" -> ChDistinctFinish(finish)
    [] OTHER -> LakeDistinctFinish(spans)

query_distinct_agent_kinds(q) ==
  CASE backend = "duckdb" -> DuckDistinctAgents(traces, q)
    [] backend = "clickhouse" -> ChDistinctAgents(traces, q)
    [] OTHER -> LakeDistinctAgents(traces, q)
-----------------------------------------------------------------------------
RowsNext ==
  \/ \E c \in Calls : write_spans(c)
  \/ \E t \in Turns : write_traces(t)
  \/ \E t \in traces : resend_trace(t)
  \/ \E s \in spans : resend_span(s)
  \/ \E id \in DOMAIN Patches : update_trace_metadata(id)
  \/ MergeParts
  \/ apply_retention
  \/ Tick

HttpNext ==
  \/ \E x \in HttpRows : write_exchanges(x)
  \/ apply_retention
  \/ Tick

MetricsNext ==
  \/ \E S \in SUBSET Calls \ {{}}, stored \in BOOLEAN : write_metrics(S, stored)
  \/ \E r \in metrics : resend_metrics(r.row_id)
  \/ apply_retention
  \/ Tick
-----------------------------------------------------------------------------
(* Properties. *)

TypeOK ==
  /\ backend \in Backends /\ dedup \in BOOLEAN /\ now \in Clock
  /\ \A s \in spans : s.id \in {c.id : c \in Calls} /\ s.copy \in 1..2
  /\ \A t \in traces : t.turn_id \in {x.turn_id : x \in Turns} /\ t.copy \in 1..(2 + MaxVersions)
  /\ flushed \subseteq Calls /\ unlabelled \subseteq flushed

\* The answer is exact unless AgLake holds a batch twice and is not asked to
\* de-duplicate.
ExactMetrics == backend # "aglake" \/ dedup \/ \A r \in metrics : r.copy = 1

Selected(S, f) ==
  {c \in S : /\ Admits(f.wire_apis, c.wire_api) /\ Admits(f.models, c.model)
             /\ Admits(f.server_ips, c.server_ip) /\ Admits(f.tool_surfaces, c.tool_surface)}

\* Windows no sweep has eaten into.
Since(g) == [start |-> ((sweptTo[g] + Width(g) - 1) \div Width(g)) * Width(g), end |-> AllTime.end]

Dimension(c, g) == IF g = "wire_api" THEN c.wire_api ELSE IF g = "model" THEN c.model ELSE Null

\* Every read of the rollups counts a flushed call exactly once, whatever it
\* filters and groups by: the read lands on one wildcard tier, on every backend.
CallsCountedOnce ==
  ExactMetrics =>
    \A f \in Filters :
      /\ \A g \in Granularities, gb \in {Null, "wire_api", "model", "server_ip"} :
           LET q  == [time_range |-> Since(g), granularity |-> g, filter |-> f, group_by |-> gb,
                      fields |-> {"call_count"}]
               rs == query_metrics_timeseries(q).rows
               in == {c \in Selected(flushed, f) : InRange(Bucket(c.request_time, g), Since(g))}
           IN \A v \in {r.group : r \in rs} \union {Dimension(c, gb) : c \in in} :
                MapThenSumSet(LAMBDA r : r.values["call_count"][1], {r \in rs : r.group = v})
                  = IF gb = "server_ip" THEN (IF v = Null THEN 0 ELSE Cardinality({c \in in : v \in {Star, c.server_ip}}))
                    ELSE Cardinality({c \in in : Dimension(c, gb) = v})
      /\ LET in == {c \in Selected(flushed, f) : InRange(Bucket(c.request_time, "10s"), Since("10s"))}
         IN /\ query_metrics_summary([time_range |-> Since("10s"), filter |-> f]).call_count = Cardinality(in)
            /\ \A ms \in query_models([time_range |-> Since("10s"), filter |-> f, sort_by |-> "call_count", limit |-> 9]) :
                 /\ MapThenSumSet(LAMBDA m : m.row.call_count, ToSet(ms)) = Cardinality(in)
                 /\ Cardinality({<<m.wire_api, m.model>> : m \in ToSet(ms)}) = Len(ms)

\* The finish-reason table accounts for every flushed call with a reason,
\* except those of a flush whose second write failed.
FinishCounted ==
  (ExactMetrics /\ \A f \in finish : dedup \/ f.copy = 1) =>
    \A f \in {x \in Filters : x.tool_surfaces = {}}, g \in Granularities :
      LET out == query_finish_reasons([time_range |-> Since(g), granularity |-> g, filter |-> f])
          in  == {c \in Selected(flushed \ unlabelled, f) :
                    c.finish_reason # Null /\ InRange(Bucket(c.complete_time, g), Since(g))}
      IN /\ DOMAIN out = {c.finish_reason : c \in in}
         /\ \A fr \in DOMAIN out :
              FoldFunction(LAMBDA a, b : a + b, 0, out[fr]) = Cardinality({c \in in : c.finish_reason = fr})

\* A percentile of a bucket lies between the smallest and the largest of its
\* samples, and is missing exactly when the bucket has none: also where the
\* samples land in a bucket without calls.
PercentileBracketed ==
  ExactMetrics =>
    \A f \in Filters, p \in PERCENTILES, g \in Granularities :
      LET rs == query_metrics_timeseries([time_range |-> Since(g), granularity |-> g, filter |-> f,
                                          group_by |-> Null, fields |-> {p}]).rows
          Samples(t) == {c.ttft_ms : c \in {x \in Selected(flushed, f) :
                           /\ Bucket(x.complete_time, g) = t /\ x.ttft_ms # Null
                           /\ p = "ttft_stream_p95" => x.is_stream}}
      IN \A r \in rs :
           LET v == r.values[p]
               s == Samples(r.timestamp)
           IN /\ v = Null <=> s = {}
              /\ v # Null => Min(s) * v[2] <= v[1] /\ v[1] <= Max(s) * v[2]

NoFilter == [wire_apis |-> {}, models |-> {}, server_ips |-> {}, tool_surfaces |-> {}]

SpanList(by, asc, page, size) ==
  query_spans([time_range |-> AllTime, filter |-> NoFilter, status_codes |-> {}, finish_reasons |-> {},
               client_ips |-> {}, server_ports |-> {}, request_path_contains |-> Null, is_stream |-> Null,
               sort_by |-> by, asc |-> asc, page |-> page, page_size |-> size])

TraceList(by, asc, page, size, hops) ==
  query_traces([time_range |-> AllTime, filter |-> NoFilter, client_ips |-> {}, statuses |-> {},
                agent_kinds |-> {}, server_ports |-> {}, include_proxy_hops |-> hops,
                sort_by |-> by, asc |-> asc, page |-> page, page_size |-> size])

HttpList(asc, page, size) ==
  query_http_exchanges([time_range |-> AllTime, server_ips |-> {}, client_ips |-> {}, methods |-> {},
                        status_codes |-> {}, uri_contains |-> Null, is_sse |-> Null,
                        sort_by |-> "request_time", asc |-> asc, page |-> page, page_size |-> size])

\* Turning the pages of a list shows every row once and then stops, in any
\* order the list can be sorted by, rows with equal or missing keys included.
PagesPartition ==
  \A asc \in BOOLEAN, size \in 1..2 :
    LET Whole(List(_), ids, n) ==
          LET all == FlattenSeq([p \in 1..(n \div size + 1) |-> List(p).items])
          IN /\ \A p \in 1..(n \div size + 2) : List(p).ok /\ List(p).total = n
             /\ Len(all) = n
             /\ {all[i].id : i \in DOMAIN all} = ids
        Ids(L) == [L EXCEPT !.items = SeqMap(LAMBDA t : [id |-> t.turn_id], @)]
        stored == IF backend = "clickhouse" THEN Final(traces) ELSE traces
    IN /\ \A by \in SpanSortFields :
            Whole(LAMBDA p : SpanList(by, asc, p, size), {s.id : s \in spans}, Cardinality(spans))
       /\ \A by \in TraceSortFields :
            Whole(LAMBDA p : Ids(TraceList(by, asc, p, size, TRUE)), {t.turn_id : t \in stored}, Cardinality(stored))
       /\ Whole(LAMBDA p : HttpList(asc, p, size), {x.id : x \in exchanges}, Cardinality(exchanges))

\* A hop the sweeper has marked is in no trace list and in no list of agent
\* kinds, before and after ClickHouse merges the versions of its row, and can
\* still be opened by its id.
HiddenHops ==
  LET shown  == TraceList("start_time", FALSE, 1, 9, FALSE)
      hidden == {id \in patched : Patches[id]["proxy"].role \in HiddenRoles /\ \E t \in traces : t.turn_id = id}
      kinds(hops) == query_distinct_agent_kinds([time_range |-> AllTime, filter |-> NoFilter, include_proxy_hops |-> hops])
  IN \A id \in hidden :
       /\ \A i \in DOMAIN shown.items : shown.items[i].turn_id # id
       /\ query_trace_by_id(id) # {}
       /\ \A k \in kinds(FALSE) : \E t \in traces : t.turn_id # id /\ t.agent_kind = k

\* A session's totals are over its whole life and count each turn once,
\* on whatever page of the list it is, and agree with the session's own page.
SessionTotals ==
  (\A t \in traces : backend = "clickhouse" \/ t.copy = 1) =>
    LET out == query_sessions([time_range |-> [start |-> 4, end |-> AllTime.end], source_id |-> Null,
                               agent_kinds |-> {}, page_size |-> 9, cursor |-> Null])
    IN \A i \in DOMAIN out.items :
         LET x == out.items[i]
             k == <<x.source_id, x.session_id>>
         IN /\ x.lifetime.turn_count = Cardinality({t.turn_id : t \in {y \in traces : SessionOf(y) = k}})
            /\ x.lifetime = query_session_by_id(k)
            /\ x.lifetime.last_turn_at >= x.last_turn_at_in_window

\* Following next_cursor to the end of the session list never repeats a
\* session, and leaves one out only if it ended in the same millisecond as
\* another: the cursor carries milliseconds.
SessionWalk ==
  LET q == [time_range |-> AllTime, source_id |-> Null, agent_kinds |-> {}, page_size |-> 1]
      w == Walk(LAMBDA c : query_sessions(q @@ [cursor |-> c]), decode_session_cursor, 4)
      K(x) == <<x.source_id, x.session_id>>
      seen == SeqMap(K, w.items)
      keys == {SessionOf(t) : t \in traces}
      End(k) == Ms(Max({t.end_time : t \in {y \in traces : SessionOf(y) = k}}))
  IN /\ NoDuplicates(seen)
     /\ \A k \in keys \ ToSet(seen) : \E j \in ToSet(seen) : End(j) = End(k)

\* The turns of a session, page by page: no repetition, newest first, and on
\* the SQL backends none missing but those that start in the millisecond of
\* another.  AgLake shows the newest without a gap.
SessionTurnWalk ==
  \A k \in {SessionOf(t) : t \in traces}, size \in 1..2 :
    LET w    == Walk(LAMBDA c : query_session_traces([key |-> k, page_size |-> size, cursor |-> c]),
                     decode_session_turns_cursor, 5)
        mine == {t \in traces : SessionOf(t) = k}
        Row(id) == CHOOSE t \in mine : t.turn_id = id
    IN (\A t \in mine : backend = "clickhouse" \/ t.copy = 1) =>
         /\ NoDuplicates(w.items)
         /\ \A i, j \in DOMAIN w.items : i < j => CursorLess(TurnOrder(Row(w.items[j])), TurnOrder(Row(w.items[i])))
         /\ \A t \in mine : t.turn_id \notin ToSet(w.items) =>
              IF backend = "aglake"
                THEN /\ Len(w.items) > 2 * size
                     /\ \A i \in DOMAIN w.items : CursorLess(TurnOrder(t), TurnOrder(Row(w.items[i])))
                ELSE \E i \in DOMAIN w.items : Ms(Row(w.items[i]).start_time) = Ms(t.start_time)

\* Opening a trace lists every stored span of it once, in the order of their
\* requests, and a stored body with it, whichever rows a capped AgLake search
\* returns, as long as no span is stored twice.  The lookup an unfinished turn
\* uses, by ids alone, finds some of them whenever there are any.
TraceSpansComplete ==
  (\A s \in spans : s.copy = 1) =>
    \A t \in traces : \A out \in query_trace_spans(t.turn_id, TRUE) :
      /\ {out[i].id : i \in DOMAIN out} = {s.id : s \in {x \in spans : x.id \in ToSet(t.span_ids)}}
      /\ NoDuplicates(SeqMap(LAMBDA r : r.id, out))
      /\ \A i, j \in DOMAIN out : i < j => out[i].request_time <= out[j].request_time
      /\ \A i \in DOMAIN out, b \in bodies : b.span_id = out[i].id => out[i].response_body = b.text
      /\ \A found \in query_spans_by_ids(t.span_ids, FALSE, Minted) :
           LET ids == {found[i].id : i \in DOMAIN found}
               all == {out[i].id : i \in DOMAIN out}
           IN ids \subseteq all /\ (ids = {} => all = {}) /\ (backend # "aglake" => ids = all)

\* The detail of a stored span is found wherever the clock that minted its id
\* pointed, and shows its body when that is stored.
SpanFound ==
  \A s \in spans :
    LET out == query_span_by_id(s.id, Minted[s.id])
    IN /\ out # {}
       /\ \A d \in out : /\ d.item.id = s.id
                         /\ \A b \in bodies : b.span_id = s.id => d.response_body = b.text

\* The service graph: every arrow joins two nodes, none is a loop, no two join
\* the same pair, and every turn that is not an outgoing hop has an arrow into
\* the endpoint it called.
GraphSound ==
  \A g \in query_services_topology(AllTime) :
    LET eps == {n.endpoint : n \in g.nodes}
    IN /\ \A e \in g.edges : e.from \in eps /\ e.to \in eps /\ e.from # e.to /\ e.turn_count > 0
       /\ \A e, f \in g.edges : e.from = f.from /\ e.to = f.to => e = f
       /\ (backend # "aglake" \/ \A s \in spans : s.copy = 1) =>
            \A t \in (IF backend = "clickhouse" THEN Final(traces) ELSE traces), s \in spans :
              s.id = FirstSpan(t) /\ Role(t) # "proxy_out" => \E e \in g.edges : e.to = Endpoint(s)

\* The overview's bars and its activity chart count the same turns.
OverviewAgrees ==
  LET sum == query_agent_summary(AllTime)
      act == query_agent_activity(AllTime, 4)
  IN \A k \in DOMAIN sum :
       sum[k].turn_count = FoldFunction(LAMBDA a, b : a + b, 0, [x \in {y \in DOMAIN act : y[2] = k} |-> act[x]])

\* Every value a filter offers selects something, and the wire API of every
\* finish reason on offer is on offer too.
FilterOptionsSelect ==
  LET Rows(f) == UNION {query_metrics_timeseries([time_range |-> AllTime, granularity |-> g, filter |-> f,
                                                  group_by |-> Null, fields |-> {"call_count"}]).rows : g \in Granularities}
  IN backend # "aglake" =>
       /\ \A v \in query_distinct_wire_apis : Rows([NoFilter EXCEPT !.wire_apis = {v}]) # {}
       /\ \A v \in query_distinct_models : Rows([NoFilter EXCEPT !.models = {v}]) # {}
       /\ \A v \in query_distinct_server_ips : Rows([NoFilter EXCEPT !.server_ips = {v}]) # {}
       /\ \A x \in query_distinct_finish_reasons : x[1] \in query_distinct_wire_apis

\* The Services page counts every span of its window at exactly one endpoint,
\* and lists the endpoints the graph draws.
ServicesCoverSpans ==
  \A rows \in query_services([time_range |-> AllTime, sort_by |-> "call_count", asc |-> FALSE, limit |-> 9]) :
    /\ MapThenSumSet(LAMBDA r : r.call_count, ToSet(rows)) = Cardinality(spans)
    /\ Cardinality({r.endpoint : r \in ToSet(rows)}) = Len(rows)
    /\ \A g \in query_services_topology(AllTime) :
         {r.endpoint : r \in ToSet(rows)} = {n.endpoint : n \in g.nodes} \ {Clients}

\* A stored exchange opens, with its response body unless it streamed.
ExchangeOpens ==
  \A x \in exchanges :
    LET out == query_http_exchange_by_id(x.id)
    IN out # {} /\ \A d \in out : d.id = x.id /\ (d.response_body = Null <=> x.is_sse)
=============================================================================
