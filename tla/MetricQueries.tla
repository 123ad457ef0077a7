--------------------------- MODULE MetricQueries ---------------------------
(***************************************************************************)
(* Reads of the pre-aggregated llm_metrics and llm_finish_metrics tables.  *)
(*                                                                         *)
(* The aggregator materialises four of the eight wildcard combinations of  *)
(* (wire_api, model, server_ip).  A read must land on exactly one of the   *)
(* four tiers, or it counts calls twice or not at all.  The SQL backends   *)
(* choose the tier with the '*' sentinel; AgLake cannot compare against    *)
(* '*' and stores the tier's name in every row.                            *)
(***************************************************************************)
EXTENDS StorageRows, FiniteSetsExt

Granularities == {"10s", "1m"}

Width(gran) == IF gran = "10s" THEN 4 ELSE 8

Bucket(t, gran) == (t \div Width(gran)) * Width(gran)

-----------------------------------------------------------------------------
(* The rows one flush of an aggregator writes for a set of calls.  A call   *)
(* counts in the bucket of its request and its latency in the bucket of its *)
(* completion, so a slow response leaves a row whose call_count is 0.       *)

dimension_keys(c) ==
  {<<c.wire_api, c.model, c.server_ip>>, <<c.wire_api, c.model, Star>>,
   <<Star, Star, c.server_ip>>, <<Star, Star, Star>>}

Events(c) == {[call |-> c, at |-> c.request_time, done |-> FALSE],
              [call |-> c, at |-> c.complete_time, done |-> TRUE]}

\* The values of one row.  A p95 is any value the row's samples bracket.
RowValues(evs) ==
  LET starts == {e \in evs : ~e.done}
      ttfts  == {e \in evs : e.done /\ e.call.ttft_ms # Null}
      stream == {e \in ttfts : e.call.is_stream}
      Sum(S) == MapThenSumSet(LAMBDA e : e.call.ttft_ms, S)
      Top(S) == IF S = {} THEN Null ELSE Max({e.call.ttft_ms : e \in S})
  IN [call_count        |-> Cardinality(starts),
      error_count       |-> Cardinality({e \in evs : e.done /\ e.call.status_code >= 400}),
      ttft_sum          |-> Sum(ttfts),
      ttft_count        |-> Cardinality(ttfts),
      ttft_p95          |-> Top(ttfts),
      ttft_stream_sum   |-> Sum(stream),
      ttft_stream_count |-> Cardinality(stream),
      ttft_stream_p95   |-> Top(stream),
      active_calls_max  |-> Cardinality(starts)]

MetricRows(calls) ==
  UNION {LET evs == UNION {Events(c) : c \in calls}
             ids == {<<Bucket(e.at, g), d>> : e \in evs, d \in UNION {dimension_keys(c) : c \in calls}}
         IN UNION {LET mine == {e \in evs : Bucket(e.at, g) = id[1] /\ id[2] \in dimension_keys(e.call)}
                   IN IF mine = {} THEN {}
                      ELSE {[timestamp |-> id[1], granularity |-> g, wire_api |-> id[2][1],
                             model |-> id[2][2], server_ip |-> id[2][3], tool_surface |-> s,
                             vals |-> RowValues({e \in mine : e.call.tool_surface = s})]
                              : s \in {e.call.tool_surface : e \in mine}}
                   : id \in ids}
         : g \in Granularities}

FinishRows(calls) ==
  UNION {UNION {{[timestamp |-> Bucket(c.complete_time, g), granularity |-> g,
                  wire_api |-> d[1], model |-> d[2], server_ip |-> d[3],
                  finish_reason |-> c.finish_reason, count |-> 1, id |-> c.id]
                   : d \in dimension_keys(c)} : g \in Granularities}
         : c \in {x \in calls : x.finish_reason # Null}}

-----------------------------------------------------------------------------
(* Tier selection. *)

DimIn(list, v) == IF list = {} THEN v # Star ELSE v \in list

build_tool_surface_clause(filter, r) == Admits(filter.tool_surfaces, r.tool_surface)

Tier(wires, models, servers, r) ==
  /\ IF wires = {} /\ models = {}
       THEN r.wire_api = Star /\ r.model = Star
       ELSE DimIn(wires, r.wire_api) /\ DimIn(models, r.model)
  /\ IF servers = {} THEN r.server_ip = Star ELSE r.server_ip \in servers

build_dimension_where(filter, r) ==
  /\ Tier(filter.wire_apis, filter.models, filter.server_ips, r)
  /\ build_tool_surface_clause(filter, r)

\* Deviation: grouped reads forget the server_ip sentinel and see two tiers.
build_dimension_where_for_group_both(filter, group_by, r) ==
  IF group_by \in {"wire_api", "model"}
    THEN /\ DimIn(filter.wire_apis, r.wire_api) /\ DimIn(filter.models, r.model)
         /\ Admits(filter.server_ips, r.server_ip) /\ build_tool_surface_clause(filter, r)
    ELSE build_dimension_where(filter, r)

build_dimension_where_for_group(filter, group_by, r) ==
  IF group_by \in {"wire_api", "model"}
    THEN /\ DimIn(filter.wire_apis, r.wire_api)
         /\ DimIn(filter.models, r.model)
         /\ IF filter.server_ips = {} THEN r.server_ip = Star ELSE r.server_ip \in filter.server_ips
         /\ build_tool_surface_clause(filter, r)
    ELSE build_dimension_where(filter, r)

\* AgLake: the tier is a field of the row, written from the row's sentinels.
dim_tier(r) ==
  LET w == r.wire_api = Star
      m == r.model = Star
      s == r.server_ip = Star
  IN CASE ~w /\ ~m /\ ~s -> "wms"
       [] ~w /\ ~m /\ s  -> "wm"
       [] w /\ m /\ ~s   -> "s"
       [] w /\ m /\ s    -> "all"
       [] OTHER -> "other"

tier_for(has_wire, has_model, has_server) ==
  CASE ~(has_wire \/ has_model) /\ ~has_server -> "all"
    [] ~(has_wire \/ has_model) /\ has_server  -> "s"
    [] (has_wire \/ has_model) /\ ~has_server  -> "wm"
    [] OTHER -> "wms"

apply_parts(wires, models, servers, r) ==
  /\ dim_tier(r) = tier_for(wires # {}, models # {}, servers # {})
  /\ Admits(wires, r.wire_api) /\ Admits(models, r.model) /\ Admits(servers, r.server_ip)

apply(filter, r) ==
  /\ apply_parts(filter.wire_apis, filter.models, filter.server_ips, r)
  /\ Admits(filter.tool_surfaces, r.tool_surface)

apply_for_group(filter, group_by, r) ==
  LET forced == group_by \in {"wire_api", "model"}
  IN /\ dim_tier(r) = tier_for(forced \/ filter.wire_apis # {}, forced \/ filter.models # {},
                               filter.server_ips # {})
     /\ Admits(filter.wire_apis, r.wire_api) /\ Admits(filter.models, r.model)
     /\ Admits(filter.server_ips, r.server_ip) /\ Admits(filter.tool_surfaces, r.tool_surface)
-----------------------------------------------------------------------------
(* Field arithmetic.  A value is a numerator and a denominator; no sample   *)
(* is NULL, which is not the same answer as zero.                           *)

SUM_FIELDS == {"call_count", "error_count", "ttft_sum", "ttft_count",
               "ttft_stream_sum", "ttft_stream_count"}
MAX_FIELDS == {"active_calls_max"}
PERCENTILES == {"ttft_p95", "ttft_stream_p95"}
AVERAGES == {"ttft_avg", "ttft_stream_avg"}
VALID_METRIC_FIELDS == SUM_FIELDS \union MAX_FIELDS \union PERCENTILES \union AVERAGES

avg_pair(f) == IF f = "ttft_avg" THEN <<"ttft_sum", "ttft_count">>
                                 ELSE <<"ttft_stream_sum", "ttft_stream_count">>

\* The more specific prefix first: ttft_stream_* is also a ttft_*.
percentile_weight(f) == IF f = "ttft_stream_p95" THEN "ttft_stream_count" ELSE "ttft_count"

ColSum(rows, f) == MapThenSumSet(LAMBDA r : r.vals[f], rows)

Ratio(n, d) == IF d > 0 THEN <<n, d>> ELSE Null

Weighted(rows, f) ==
  MapThenSumSet(LAMBDA r : IF r.vals[f] = Null THEN 0 ELSE r.vals[f] * r.vals[percentile_weight(f)], rows)

build_field_exprs(rows, f) ==
  IF f \in MAX_FIELDS THEN <<Max({r.vals[f] : r \in rows}), 1>>
  ELSE IF f \in SUM_FIELDS THEN <<ColSum(rows, f), 1>>
  ELSE IF f \in AVERAGES THEN Ratio(ColSum(rows, avg_pair(f)[1]), ColSum(rows, avg_pair(f)[2]))
  ELSE Ratio(Weighted(rows, f), ColSum(rows, percentile_weight(f)))

ch_field_expr(rows, f) == build_field_exprs(rows, f)

\* AgLake forms the product p95 * count per row before the sum and divides
\* in Rust; a field with no plan is not a field.
FieldCalc(f) ==
  IF f \in MAX_FIELDS \union SUM_FIELDS THEN <<"plain", f>>
  ELSE IF f \in AVERAGES THEN <<"ratio", avg_pair(f)[1], avg_pair(f)[2]>>
  ELSE IF f \in PERCENTILES THEN <<"weighted", f, percentile_weight(f)>>
  ELSE Null

eval_all(rows, f) ==
  LET c == FieldCalc(f)
  IN CASE c[1] = "plain" -> <<IF f \in MAX_FIELDS THEN Max({r.vals[f] : r \in rows}) ELSE ColSum(rows, f), 1>>
       [] c[1] = "ratio" -> Ratio(ColSum(rows, c[2]), ColSum(rows, c[3]))
       [] c[1] = "weighted" -> Ratio(Weighted(rows, f), ColSum(rows, c[3]))

\* dedup row_id: when configured, the copies of one logical row read as one.
dedup_metrics(T, on) == IF on THEN {[r EXCEPT !.copy = 1] : r \in T} ELSE T
-----------------------------------------------------------------------------
(* Queries.  The grouped series is a function of (timestamp, group).        *)

GroupOf(r, group_by) ==
  CASE group_by = "wire_api" -> r.wire_api [] group_by = "model" -> r.model
    [] group_by = "server_ip" -> r.server_ip [] OTHER -> Null

Series(rows, q, Value(_, _)) ==
  [ok |-> TRUE,
   rows |-> {[timestamp |-> k[1], group |-> k[2],
              values |-> [f \in q.fields |->
                            Value({r \in rows : <<r.timestamp, GroupOf(r, q.group_by)>> = k}, f)]]
               : k \in {<<r.timestamp, GroupOf(r, q.group_by)>> : r \in rows}}]

NoSeries == [ok |-> FALSE, rows |-> {}]

AtGranularity(T, q) == {r \in T : r.granularity = q.granularity /\ InRange(r.timestamp, q.time_range)}

DuckTimeseries(T, q) ==
  IF ~(q.fields \subseteq VALID_METRIC_FIELDS) THEN NoSeries
  ELSE Series({r \in AtGranularity(T, q) :
                 IF q.group_by = Null THEN build_dimension_where(q.filter, r)
                 ELSE build_dimension_where_for_group(q.filter, q.group_by, r)},
              q, build_field_exprs)

ChTimeseries(T, q) ==
  IF ~(q.fields \subseteq VALID_METRIC_FIELDS) \/ q.group_by \notin {Null, "wire_api", "model", "server_ip"}
  THEN NoSeries
  ELSE Series({r \in AtGranularity(T, q) :
                 IF q.group_by = Null THEN build_dimension_where(q.filter, r)
                 ELSE build_dimension_where_for_group(q.filter, q.group_by, r)},
              q, ch_field_expr)

LakeTimeseries(T, dedup, q) ==
  IF \/ \E f \in q.fields : FieldCalc(f) = Null
     \/ q.group_by \notin {Null, "wire_api", "model", "server_ip"}
     \/ q.granularity \notin Granularities
  THEN NoSeries
  ELSE Series({r \in dedup_metrics(AtGranularity(T, q), dedup) : apply_for_group(q.filter, q.group_by, r)},
              q, eval_all)

SummaryOf(rows) ==
  [call_count |-> ColSum(rows, "call_count"), error_count |-> ColSum(rows, "error_count"),
   ttft_avg |-> Ratio(ColSum(rows, "ttft_sum"), ColSum(rows, "ttft_count"))]

Finest(T, w) == {r \in T : r.granularity = "10s" /\ InRange(r.timestamp, w)}

DuckSummary(T, q) == SummaryOf({r \in Finest(T, q.time_range) : build_dimension_where(q.filter, r)})

ChSummary(T, q) == SummaryOf({r \in Finest(T, q.time_range) : build_dimension_where(q.filter, r)})

LakeSummary(T, dedup, q) ==
  SummaryOf({r \in dedup_metrics(Finest(T, q.time_range), dedup) : apply(q.filter, r)})

\* One row per (wire_api, model) of the detail tier.
ModelRowsOf(rows) ==
  {[wire_api |-> k[1], model |-> k[2],
    row |-> SummaryOf({r \in rows : <<r.wire_api, r.model>> = k}),
    ttft_p95 |-> LET g == {r \in rows : <<r.wire_api, r.model>> = k}
                 IN Ratio(Weighted(g, "ttft_p95"), ColSum(g, "ttft_count"))]
     : k \in {<<r.wire_api, r.model>> : r \in rows}}

ModelSortFields == {"call_count", "error_count", "ttft_avg"}

ModelKey(m, sort_by) ==
  CASE sort_by = "call_count" -> <<m.row.call_count, 1>>
    [] sort_by = "error_count" -> <<m.row.error_count, 1>>
    [] OTHER -> m.row.ttft_avg

\* Larger first, a missing value last; ties are left to the engine.
ModelBefore(a, b, sort_by) ==
  LET x == ModelKey(a, sort_by)
      y == ModelKey(b, sort_by)
  IN x # Null /\ (y = Null \/ (y # Null /\ x[1] * y[2] > y[1] * x[2]))

\* The possible answers: SQL breaks ties arbitrarily under its LIMIT.
Limited(orders, n) == {Slice(s, 0, n) : s \in orders}

DuckModels(T, q) ==
  IF q.sort_by \notin ModelSortFields THEN {}
  ELSE Limited(OrdersOf(ModelRowsOf({r \in Finest(T, q.time_range) :
                                       build_dimension_where_for_group(q.filter, "wire_api", r)}),
                        LAMBDA a, b : ModelBefore(a, b, q.sort_by)), q.limit)

ChModels(T, q) ==
  IF q.sort_by \notin ModelSortFields THEN {}
  ELSE Limited(OrdersOf(ModelRowsOf({r \in Finest(T, q.time_range) :
                                       build_dimension_where_for_group(q.filter, "wire_api", r)}),
                        LAMBDA a, b : ModelBefore(a, b, q.sort_by)), q.limit)

LakeModels(T, dedup, q) ==
  IF q.sort_by \notin ModelSortFields THEN {}
  ELSE Limited(OrdersOf(ModelRowsOf({r \in dedup_metrics(Finest(T, q.time_range), dedup) :
                                       apply_for_group(q.filter, "model", r)}),
                        LAMBDA a, b : \/ ModelBefore(a, b, q.sort_by)
                                      \/ /\ ~ModelBefore(b, a, q.sort_by)
                                         /\ CursorLess(<<a.wire_api, a.model>>, <<b.wire_api, b.model>>)),
               q.limit)

\* finish_reason -> (timestamp -> count).
FinishSeries(rows) ==
  [fr \in {r.finish_reason : r \in rows} |->
     [t \in {r.timestamp : r \in {x \in rows : x.finish_reason = fr}} |->
        MapThenSumSet(LAMBDA r : r.count, {r \in rows : r.finish_reason = fr /\ r.timestamp = t})]]

DuckFinishReasons(T, q) ==
  FinishSeries({r \in AtGranularity(T, q) :
                  Tier(q.filter.wire_apis, q.filter.models, q.filter.server_ips, r)})

ChFinishReasons(T, q) ==
  FinishSeries({r \in AtGranularity(T, q) :
                  Tier(q.filter.wire_apis, q.filter.models, q.filter.server_ips, r)})

LakeFinishReasons(T, dedup, q) ==
  IF q.granularity \notin Granularities THEN <<>>
  ELSE FinishSeries({r \in dedup_metrics(AtGranularity(T, q), dedup) :
                       apply_parts(q.filter.wire_apis, q.filter.models, q.filter.server_ips, r)})
=============================================================================
