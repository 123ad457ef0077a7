--------------------------- MODULE ConsoleQueries ---------------------------
(***************************************************************************)
(* What the console's pages read besides spans and traces: the endpoints   *)
(* seen in a window with the server application each one runs and the call *)
(* graph between them, the agent overview, the http_exchanges table, and   *)
(* the value lists of the filters.                                         *)
(*                                                                         *)
(* Evidence about an endpoint's application is a set of <<kind, app>>      *)
(* pairs a span carries.  The SQL backends classify an endpoint from a few *)
(* recent spans; AgLake classifies every span as it is written and takes   *)
(* the majority.  Where the engine chooses, a query is a set of answers.   *)
(***************************************************************************)
EXTENDS TraceQueries, MetricQueries

CONSTANTS SampleWindow,      \* how far back bodies are sampled (24 h)
          SamplesPerEndpoint,\* rows sampled per endpoint (5)
          MaxTopologyTurns,  \* MAX_TOPOLOGY_TURNS
          MaxDistinct        \* MAX_DISTINCT of the AgLake value lists

Endpoint(s) == <<s.server_ip, s.server_port>>

ProxyApps == {"litellm", "haproxy", "nginx"}
-----------------------------------------------------------------------------
(* Classification: the strongest evidence decides. *)

Precedence ==
  << <<"path", "ollama">>, <<"path", "llamacpp">>, <<"path", "sglang">>, <<"path", "vllm">>,
     <<"response_headers", "litellm">>,
     <<"request_headers", "openai">>, <<"request_headers", "anthropic">>, <<"request_headers", "gemini">>,
     <<"finish", "sglang">>, <<"response_body", "vllm">>, <<"request_body", "vllm">>,
     <<"server", "ollama">>, <<"server", "litellm">> >>

\* uvicorn serves vLLM and SGLang alike; the model family tells them apart.
classify_app(evidence) ==
  LET hits == {i \in DOMAIN Precedence : Precedence[i] \in evidence}
  IN IF hits # {} THEN Precedence[Min(hits)][2]
     ELSE IF <<"server", "uvicorn">> \notin evidence THEN Null
     ELSE IF <<"model", "sglang">> \in evidence THEN "sglang" ELSE "vllm"

OfKind(evidence, kinds) == {e \in evidence : e[1] \in kinds}

\* The Server header, when the sampled response headers hold one.
extract_server_header(evidence) == OfKind(evidence, {"server"})

extract_host_header(evidence) == OfKind(evidence, {"request_headers"})

\* What one sampled row can contribute, when its column has a usable shape.
SampleKinds == {"response_headers", "request_headers", "request_body", "response_body"}

Contribution(s, kind) ==
  CASE kind = "response_headers" -> OfKind(s.evidence, {"response_headers"}) \union extract_server_header(s.evidence)
    [] kind = "request_headers" -> extract_host_header(s.evidence)
    [] OTHER -> OfKind(s.evidence, {kind})

\* First match wins, per column, over the sampled rows in the order they come.
FirstSample(rows, kind) ==
  LET usable == {i \in DOMAIN rows : kind \in rows[i].shapes}
  IN IF usable = {} THEN {} ELSE Contribution(rows[Min(usable)], kind)

\* Paths and finish reasons of the sampled window, models of the whole one;
\* an endpoint without a recent span keeps the paths of the whole window.
Evidence(rows, recent, sample) ==
  LET All(S, kinds) == UNION {OfKind(s.evidence, kinds) : s \in S}
  IN All(rows, {"model"}) \union All(recent, {"finish"})
     \union All(IF recent = {} THEN rows ELSE recent, {"path"})
     \union UNION {FirstSample(sample, k) : k \in SampleKinds}

Recent(rows, w) ==
  {s \in rows : s.request_time >= (IF w.start > w.end - SampleWindow THEN w.start ELSE w.end - SampleWindow)}

NewestFirst(rows) == OrdersOf(rows, LAMBDA a, b : a.request_time > b.request_time)

\* The apps an endpoint's rows may be classified as.  DuckDB reads the newest
\* rows newest first; ClickHouse reads the same rows in any order.
DuckFetchAppSamples(rows, w) ==
  {classify_app(Evidence(rows, Recent(rows, w), Slice(o, 0, SamplesPerEndpoint)))
     : o \in NewestFirst(Recent(rows, w))}

ChFetchAppSamples(rows, w) ==
  {classify_app(Evidence(rows, Recent(rows, w), o))
     : o \in UNION {SetToSeqs(ToSet(Slice(n, 0, SamplesPerEndpoint))) : n \in NewestFirst(Recent(rows, w))}}

\* AgLake: app_hint is classify_app of the span alone, written with it.  The
\* most frequent (hint, Server header) pair names the endpoint; among equals,
\* the first the search returns.
app_hint(s) == classify_app(s.evidence)

app_by_endpoint(rows) ==
  LET Vote(s)  == <<app_hint(s), extract_server_header(s.evidence)>>
      Count(v) == Cardinality({s \in rows : Vote(s) = v})
  IN {v[1] : v \in {Vote(s) : s \in {x \in rows : \A y \in rows : Count(Vote(y)) <= Count(Vote(x))}}}
-----------------------------------------------------------------------------
(* Endpoints. *)

InWindow(T, w) == {s \in T : InRange(s.request_time, w)}

service_endpoints(T, w) ==
  {[endpoint |-> e, rows |-> {s \in InWindow(T, w) : Endpoint(s) = e}] : e \in {Endpoint(s) : s \in InWindow(T, w)}}

\* One way to name every endpoint's app, out of the possible ones.
Labelled(T, w, Apps(_, _)) ==
  LET eps == service_endpoints(T, w)
      may == [x \in eps |-> Apps(x.rows, w)]
  IN {{[endpoint |-> x.endpoint, app |-> f[x], call_count |-> Cardinality(x.rows),
        error_count |-> Cardinality({s \in x.rows : s.status_code >= 400})] : x \in eps}
        : f \in {g \in [eps -> UNION {may[x] : x \in eps}] : \A x \in eps : g[x] \in may[x]}}

ServiceSortFields == {"call_count", "error_count"}

ServiceBefore(a, b, q) ==
  IF q.asc THEN a[q.sort_by] < b[q.sort_by] ELSE a[q.sort_by] > b[q.sort_by]

DuckServices(T, q) ==
  IF q.sort_by \notin ServiceSortFields THEN {}
  ELSE UNION {Limited(OrdersOf(n, LAMBDA a, b : ServiceBefore(a, b, q)), q.limit)
              : n \in Labelled(T, q.time_range, DuckFetchAppSamples)}

ChServices(T, q) ==
  IF q.sort_by \notin ServiceSortFields THEN {}
  ELSE UNION {Limited(OrdersOf(n, LAMBDA a, b : ServiceBefore(a, b, q)), q.limit)
              : n \in Labelled(T, q.time_range, ChFetchAppSamples)}

\* AgLake sorts in Rust, with the endpoint as the tie-break.
LakeServices(T, q) ==
  IF q.sort_by \notin ServiceSortFields THEN {}
  ELSE {Slice(SetToSortSeq(n, LAMBDA a, b : \/ ServiceBefore(a, b, q)
                                            \/ ~ServiceBefore(b, a, q) /\ CursorLess(a.endpoint, b.endpoint)),
              0, q.limit)
        : n \in Labelled(T, q.time_range, LAMBDA rows, w : app_by_endpoint(rows))}
-----------------------------------------------------------------------------
(* The graph.  `ends` holds, for each turn, where its first call went.      *)

\* The synthetic "__clients__" node; 0 is no address of an instance.
Clients == <<0, 0>>

PairOf(t) == IF t.metadata = Null \/ "proxy" \notin DOMAIN t.metadata THEN Null ELSE t.metadata["proxy"].pair_id

TurnEnd(t, s) ==
  [turn |-> <<t.turn_id, t.copy, s.copy>>, to |-> Endpoint(s), caller |-> s.client_ip,
   role |-> Role(t), pair |-> PairOf(t)]

\* A pair whose two sides hit one endpoint is a call captured twice, no hop.
proxy_edges(ends) ==
  LET hops == {p \in ends \X ends : /\ p[1].role = "proxy_in" /\ p[2].role = "proxy_out"
                                    /\ p[1].pair = p[2].pair /\ p[1].pair # Null
                                    /\ p[1].to # p[2].to}
  IN {[from |-> k[1], to |-> k[2], kind |-> "proxy",
       turn_count |-> Cardinality({p \in hops : <<p[1].to, p[2].to>> = k})]
        : k \in {<<p[1].to, p[2].to>> : p \in hops}}

\* The service behind a caller's address: LiteLLM, then any proxy, then the
\* busiest; the rest of the choice is the order of the nodes.
resolve_caller(nodes, caller_ip, to) ==
  LET usable == {i \in DOMAIN nodes : nodes[i].endpoint[1] = caller_ip /\ nodes[i].endpoint # to}
      With(apps) == {i \in usable : nodes[i].app \in apps}
      busiest == {i \in usable : \A j \in usable : nodes[j].call_count <= nodes[i].call_count}
  IN IF \/ \E i \in DOMAIN nodes : nodes[i].endpoint = to /\ nodes[i].app \in ProxyApps
        \/ usable = {}
     THEN Null
     ELSE nodes[IF With({"litellm"}) # {} THEN Min(With({"litellm"}))
                ELSE IF With(ProxyApps) # {} THEN Min(With(ProxyApps))
                ELSE Max(busiest)].endpoint

\* Entry edges: callers that resolve to a service, unless the sweeper already
\* found that hop, and the rest from the clients.
assemble_edges(nodes, ends, proxied) ==
  LET entries == {e \in ends : e.role # "proxy_out"}
      From(e) == LET r == resolve_caller(nodes, e.caller, e.to) IN IF r = Null THEN Clients ELSE r
      drawn   == {e \in entries : ~\E p \in proxied : p.from = From(e) /\ p.to = e.to}
  IN proxied \union
     {[from |-> k[1], to |-> k[2], kind |-> IF k[1] = Clients THEN "client" ELSE "inferred",
       turn_count |-> Cardinality({e \in drawn : <<From(e), e.to>> = k})]
        : k \in {<<From(e), e.to>> : e \in drawn}}

Graph(nodes, ends) ==
  LET edges == assemble_edges(nodes, ends, proxy_edges(ends))
      total == MapThenSumSet(LAMBDA e : e.turn_count, {e \in edges : e.kind = "client"})
  IN [nodes |-> ToSet(nodes) \union (IF total > 0
                  THEN {[endpoint |-> Clients, app |-> "clients", call_count |-> total, error_count |-> 0]}
                  ELSE {}),
      edges |-> edges]

Graphs(labels, ends) == UNION {{Graph(o, ends) : o \in SetToSeqs(n)} : n \in labels}

\* DuckDB joins: a span stored twice counts its turn twice.
DuckTopology(T, spans, w) ==
  Graphs(Labelled(spans, w, DuckFetchAppSamples),
         {TurnEnd(x[1], x[2]) : x \in {y \in {t \in T : InRange(t.start_time, w)} \X spans : y[2].id = FirstSpan(y[1])}})

OneOf(spans, id) == CHOOSE s \in {x \in spans : x.id = id} : TRUE

\* ClickHouse resolves through a map of the first calls' ids.
ChTopology(T, spans, w) ==
  Graphs(Labelled(spans, w, ChFetchAppSamples),
         {TurnEnd(t, OneOf(spans, FirstSpan(t)))
            : t \in {x \in Final(T) : InRange(x.start_time, w) /\ FirstSpan(x) \in {s.id : s \in spans}}})

\* AgLake reads a bounded number of turns and looks the ids up in chunks, each
\* search capped at as many rows as it asks for ids.
topology_turns(T, w) ==
  AnyOf({t \in T : InRange(t.start_time, w) /\ FirstSpan(t) # Null}, MaxTopologyTurns)

endpoints_for_span_ids(spans, ids, w) ==
  PerChunk(spans, ids, LAMBDA s : s.id, LAMBDA rows, c : AnyOf(InWindow(rows, w), ChunkSize(ids, c)))

LakeTopology(T, spans, w) ==
  UNION {UNION {Graphs(Labelled(spans, w, LAMBDA rows, x : app_by_endpoint(rows)),
                       {TurnEnd(t, OneOf(found, FirstSpan(t)))
                          : t \in {x \in turns : FirstSpan(x) \in {s.id : s \in found}}})
                : found \in endpoints_for_span_ids(spans, SetToSeq({FirstSpan(t) : t \in turns}), w)}
         : turns \in topology_turns(T, w)}
-----------------------------------------------------------------------------
(* The agent overview. *)

agent_summary(rows, w) ==
  LET mine == {t \in rows : InRange(t.start_time, w)}
  IN [k \in {t.agent_kind : t \in mine} |->
        [turn_count |-> Cardinality({t \in mine : t.agent_kind = k}),
         last_seen_ms |-> Ms(Max({t.start_time : t \in {x \in mine : x.agent_kind = k}}))]]

agent_activity(rows, w, bucket) ==
  LET mine == {t \in rows : InRange(t.start_time, w)}
      At(t) == <<Ms((t.start_time \div bucket) * bucket), t.agent_kind>>
  IN [k \in {At(t) : t \in mine} |-> Cardinality({t \in mine : At(t) = k})]

DuckAgentSummary(T, w) == agent_summary(T, w)
DuckAgentActivity(T, w, bucket) == agent_activity(T, w, bucket)
ChAgentSummary(T, w) == agent_summary(Final(T), w)

ChAgentActivity(T, w, bucket) == agent_activity(Final(T), w, bucket)
LakeAgentSummary(T, w) == agent_summary(T, w)
LakeAgentActivity(T, w, bucket) == agent_activity(T, w, bucket)
-----------------------------------------------------------------------------
(* Reads of the http_exchanges table. *)

ExchangeSortFields == {"request_time", "status", "duration_ms"}

Duration(x) == IF x.complete_time = Null THEN Null ELSE x.complete_time - x.request_time

ExchangeKey(x, by) ==
  CASE by = "request_time" -> x.request_time [] by = "status" -> x.status [] OTHER -> Duration(x)

ExchangeMatch(x, q) ==
  /\ InRange(x.request_time, q.time_range)
  /\ Admits(q.server_ips, x.server_ip)
  /\ Admits(q.client_ips, x.client_ip)
  /\ Admits(q.methods, x.method)
  /\ Admits(q.status_codes, x.status)
  /\ q.uri_contains = Null \/ q.uri_contains \in x.uri
  /\ q.is_sse = Null \/ x.is_sse = q.is_sse

\* What is stored of an exchange: an empty request body is NULL, and a
\* response body is kept for a response that is not a stream.
prepare_exchange(x) ==
  [x EXCEPT !.request_body = IF @ = "" THEN Null ELSE @,
            !.response_body = IF x.is_sse THEN Null ELSE @]

exchange_list_item(x) ==
  [id |-> x.id, request_time |-> Ms(x.request_time), status |-> x.status, duration |-> Duration(x)]

\* ORDER BY <field> NULLS LAST <direction>: the engines want the direction
\* first and reject the statement, so only request_time, which carries no
\* NULLS LAST, can be sorted by.
SqlParses(by) == by = "request_time"

SqlExchanges(T, q) ==
  LET rows == {x \in T : ExchangeMatch(x, q)}
      all  == SetToSortSeq(rows, LAMBDA a, b :
                SqlBefore(a, b, ExchangeKey(a, q.sort_by), ExchangeKey(b, q.sort_by), a.id, b.id, q.asc))
  IN IF q.sort_by \notin ExchangeSortFields \/ ~SqlParses(q.sort_by) THEN Failed
     ELSE Page(Cardinality(rows), SeqMap(exchange_list_item, Slice(all, Offset(q.page, q.page_size), q.page_size)))

DuckExchanges(T, q) == SqlExchanges(T, q)

ChExchanges(T, q) == SqlExchanges(T, q)

LakeExchanges(T, q) ==
  IF q.sort_by \notin ExchangeSortFields THEN Failed
  ELSE fetch_page({x \in T : ExchangeMatch(x, q)},
                  LAMBDA a, b : \/ LakeBefore(a, b, ExchangeKey(a, q.sort_by), ExchangeKey(b, q.sort_by),
                                              <<a.request_time, a.id>>, <<b.request_time, b.id>>, q.asc)
                                \/ a.id = b.id /\ a.copy < b.copy,
                  q.page, q.page_size, exchange_list_item)

\* The detail: milliseconds from DuckDB and AgLake, microseconds from
\* ClickHouse.
exchange_detail(x, time, body) == [id |-> x.id, request_time |-> time, response_body |-> body]

DuckExchangeById(T, id) ==
  {exchange_detail(x, Ms(x.request_time), x.response_body) : x \in {y \in T : y.id = id}}

ChExchangeById(T, id) ==
  {exchange_detail(x, x.request_time, x.response_body) : x \in {y \in T : y.id = id}}

\* AgLake: the body is a second lookup, and without one the headers read [].
LakeExchangeById(T, B, id, minted) ==
  UNION {IF hit = {} THEN {}
         ELSE LET x == CHOOSE y \in hit : TRUE
              IN IF ~x.has_body THEN {exchange_detail(x, Ms(x.request_time), Null)}
                 ELSE {exchange_detail(x, Ms(x.request_time),
                                       IF b = {} THEN Null ELSE (CHOOSE y \in b : TRUE).text)
                         : b \in fetch_raw_by_id({y \in B : y.span_id = id}, 1, minted)}
         : hit \in fetch_raw_by_id({y \in T : y.id = id}, 1, minted)}
-----------------------------------------------------------------------------
(* Value lists.  The SQL backends read them from the rollups, whose '*'     *)
(* rows are no values; AgLake from the spans, in their text order and       *)
(* capped.                                                                  *)

sql_distinct(values) == values \ {Star}

DuckDistinctWireApis(M) == sql_distinct({r.wire_api : r \in M})
DuckDistinctModels(M) == sql_distinct({r.model : r \in M})
DuckDistinctServerIps(M) == sql_distinct({r.server_ip : r \in M})
ChDistinctWireApis(M) == sql_distinct({r.wire_api : r \in M})
ChDistinctModels(M) == sql_distinct({r.model : r \in M})
ChDistinctServerIps(M) == sql_distinct({r.server_ip : r \in M})

\* The least MaxDistinct of the values present.
distinct_values(values) ==
  LET present == values \ {Null}
  IN {v \in present : Cardinality({w \in present : w < v}) < MaxDistinct}

LakeDistinctWireApis(spans) == distinct_values({s.wire_api : s \in spans})
LakeDistinctModels(spans) == distinct_values({s.model : s \in spans})
LakeDistinctServerIps(spans) == distinct_values({s.server_ip : s \in spans})

\* (wire_api, finish_reason) pairs.
DuckDistinctFinish(F) == {<<r.wire_api, r.finish_reason>> : r \in {x \in F : x.wire_api # Star}}
ChDistinctFinish(F) == {<<r.wire_api, r.finish_reason>> : r \in {x \in F : x.wire_api # Star}}
LakeDistinctFinish(spans) == {<<s.wire_api, s.finish_reason>> : s \in {x \in spans : x.finish_reason # Null}}

\* Agent kinds of the turns a trace list with the same filter would show.
AgentKindMatch(t, q) ==
  /\ InRange(t.start_time, q.time_range)
  /\ Admits(q.filter.wire_apis, t.wire_api)
  /\ q.filter.models = {} \/ ToSet(parse_json_string_list(t.models_used)) \intersect q.filter.models # {}
  /\ Admits(q.filter.server_ips, t.server_ip)

DuckDistinctAgents(T, q) == {t.agent_kind : t \in {x \in T : AgentKindMatch(x, q) /\ Visible(x, q)}}
ChDistinctAgents(T, q) == {t.agent_kind : t \in {x \in Final(T) : AgentKindMatch(x, q) /\ Visible(x, q)}}
LakeDistinctAgents(T, q) ==
  {t.agent_kind : t \in {x \in T : AgentKindMatch(x, q) /\ (q.include_proxy_hops \/ ~x.proxy_hidden)}}
=============================================================================
