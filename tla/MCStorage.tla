----------------------------- MODULE MCStorage -----------------------------
(* An instance of Storage, DuckDb and AgLakeClient: a behaviour exercises    *)
(* the rollups, the row tables, the exchanges, the upgrade of a DuckDB file, *)
(* the connections to it or the client of an AgLake daemon, which share      *)
(* nothing but the clock.                                                    *)
EXTENDS Storage, DuckDb, AgLakeClient

CONSTANTS r1, r2, r3

VARIABLE part

Call(id, t, done, wire, model, server, port, client, status, fr, strm, ttft, body, surf, ev, shapes) ==
  [id |-> id, source_id |-> 1, request_time |-> t, complete_time |-> done, ts |-> t,
   wire_api |-> wire, model |-> model, server_ip |-> server, server_port |-> port, client_ip |-> client,
   status_code |-> status, finish_reason |-> fr, is_stream |-> strm, request_path |-> {"v1"},
   ttft_ms |-> ttft, input_tokens |-> 7, response_body |-> body, tokens_estimated |-> Null,
   has_body |-> FALSE, pid |-> Null, copy |-> 1, tool_surface |-> surf, evidence |-> ev, shapes |-> shapes]

(* Two calls of one millisecond; a slow one whose latency lands in a later  *)
(* bucket; the proxy on address 1 calls the server on address 2.            *)
MCCalls ==
  {Call(1, 0, 2, 1, 1, 1, 80, 9, 200, "stop", TRUE, 1, "usage", "bash", {<<"response_headers", "litellm">>}, {"response_headers"}),
   Call(2, 1, 5, 1, 2, 2, 81, 1, 500, Null, FALSE, 3, Null, Null, {<<"server", "uvicorn">>}, {"response_headers"}),
   Call(3, 5, 6, 2, 1, 1, 82, 1, 200, "length", TRUE, Null, "no_usage", "bash", {}, {})}

Turn(id, ses, from, to, spanIds, kind, n) ==
  [turn_id |-> id, source_id |-> 1, session_id |-> ses, start_time |-> from, end_time |-> to,
   wire_api |-> 1, models_used |-> <<1>>, server_ip |-> 1, client_ip |-> 9, status |-> "complete",
   agent_kind |-> kind, call_count |-> n, span_ids |-> spanIds, metadata |-> Null, preview |-> Null,
   user_call_id |-> Null, _version |-> 0, copy |-> 1, proxy_hidden |-> FALSE, ts |-> from]

MCTurns == {Turn(1, 1, 0, 2, <<1>>, "claude", 1), Turn(2, 1, 1, 6, <<2, 3>>, "codex", 1),
            Turn(3, 2, 5, 6, <<3>>, "claude", 1), Turn(4, 1, 6, 7, <<>>, "claude", 2)}

MCHttpRows ==
  {[id |-> i, request_time |-> i \div 2, complete_time |-> i + 1, ts |-> i \div 2, server_ip |-> 1, client_ip |-> 9,
    method |-> "POST", status |-> 200, uri |-> {"v1"}, is_sse |-> i = 1, request_body |-> "", response_body |-> "text",
    has_body |-> FALSE, copy |-> 1] : i \in 1..4}

MCPatches ==
  [id \in {1, 2} |-> [k \in {"proxy"} |-> [role |-> IF id = 1 THEN "proxy_in" ELSE "proxy_out",
                                           peers |-> {3 - id}, pair_id |-> "p"]]]

MCClock == {2, 9}
MCKeep == [spans |-> 6, traces |-> 6, metrics |-> [g \in Granularities |-> IF g = "10s" THEN 4 ELSE 8]]
MCAllTime == [start |-> 0, end |-> 16]
MCMinted == [i \in 1..3 |-> IF i = 1 THEN 0 ELSE IF i = 2 THEN 4 ELSE Null]
MCIdSkew == <<1, 2>>

F(w, m, s, t) == [wire_apis |-> w, models |-> m, server_ips |-> s, tool_surfaces |-> t]

MCFilters == {F({}, {}, {}, {}), F({1}, {}, {}, {}), F({}, {1}, {2}, {}), F({}, {}, {1}, {}), F({1, 2}, {1}, {}, {"bash"})}

(* One to two calls, each with at most one thing wrong with it, so that a   *)
(* rejected, an oversized and a sound event meet in one batch.              *)
MCFaults == {"none", "encode", "badSpan", "badBody", "bigSpan", "bigBody"}
MCCall(i) == {[id |-> i, body |-> b, fault |-> f] : b \in BOOLEAN, f \in MCFaults}
MCBatches ==
  {<<>>} \cup {<<c>> : c \in MCCall(1)}
  \cup {<<c, d>> : c \in {x \in MCCall(1) : x.body}, d \in {x \in MCCall(2) : x.fault \in {"none", "badSpan"}}}

\* What the soundness of an upgrade rests on: the rollups of the history count.
ASSUME HistoryCounted == RollupsCount

Fixed == {"upgrade", "connections", "client"}

MCInit ==
  /\ Init /\ part \in {"rows", "http", "rollups"} \union Fixed
  /\ part \in Fixed => backend = "duckdb"
  /\ IF part = "connections" THEN DuckServing ELSE DuckInit
  /\ part # "upgrade" => dialect = "duckdb" /\ (at = Serving \/ db = [t \in {} |-> {}])
  /\ IF part = "client" THEN ClientInit ELSE ClientAtRest

MCNext ==
  \/ part = "http" /\ HttpNext /\ UNCHANGED <<duckVars, clientVars, part>>
  \/ part = "rows" /\ RowsNext /\ UNCHANGED <<duckVars, clientVars, part>>
  \/ part = "rollups" /\ MetricsNext /\ UNCHANGED <<duckVars, clientVars, part>>
  \/ part = "upgrade" /\ UpgradeNext /\ UNCHANGED <<vars, clientVars, part>>
  \/ part = "connections" /\ ConnectionNext /\ UNCHANGED <<vars, clientVars, part>>
  \/ part = "client" /\ ClientNext /\ UNCHANGED <<vars, duckVars, part>>

\* The connections' fairness; the client's needs no part, it is at rest elsewhere.
MCFairness ==
  /\ WF_duckVars(part = "connections" /\ Recovery /\ UNCHANGED <<vars, clientVars, part>>)
  /\ \A r \in Readers : WF_duckVars(part = "connections" /\ ReadStep(r) /\ UNCHANGED <<vars, clientVars, part>>)
  /\ ClientFairness

MCSpec == MCInit /\ [][MCNext]_<<vars, duckVars, clientVars, part>> /\ MCFairness
-----------------------------------------------------------------------------
(* The read queries, each where a behaviour fills the tables it reads.      *)

\* What the rollups answer is what the calls were, counted once, on every backend,
\* after repeated batches, failed finish writes and sweeps.
MetricsAgree ==
  part = "rollups" => TypeOK /\ CallsCountedOnce /\ FinishCounted /\ PercentileBracketed

\* Turning pages and following cursors shows every row once, and a session's totals
\* count each of its turns once.
PagesComplete ==
  part \in {"rows", "http"} => PagesPartition /\ SessionTotals /\ SessionWalk /\ SessionTurnWalk

\* Opening a trace, a span or an exchange finds all that is stored of it; hidden
\* hops stay hidden; the graph, the services and the filters are about stored rows.
DetailsComplete ==
  /\ part = "rows" => /\ TypeOK /\ TraceSpansComplete /\ SpanFound /\ HiddenHops
                      /\ GraphSound /\ OverviewAgrees /\ ServicesCoverSpans
  /\ part = "http" => ExchangeOpens
  /\ part = "rollups" => FilterOptionsSelect
=============================================================================
