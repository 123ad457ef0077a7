------------------------------- MODULE DuckDb -------------------------------
(***************************************************************************)
(* The DuckDB file over restarts and upgrades, and the connections of the  *)
(* process that has it open (server/h-storage-duckdb/src/schema.rs,        *)
(* lib.rs, pool.rs).                                                       *)
(*                                                                         *)
(* init() is a script of statements, each committed by itself: a crash     *)
(* between two of them leaves what the earlier ones did.  Writers append   *)
(* rows by position, so the order of the columns is part of the contract.  *)
(* A fatal error invalidates the whole in-process instance and with it     *)
(* every connection; the pair sweeper is the one who notices and reopens.  *)
(***************************************************************************)
EXTENDS MetricQueries, Sequences

CONSTANTS
  History,    \* calls an older release has stored
  PoolSize,   \* read connections
  Readers,    \* concurrent read queries
  MaxStops,   \* bound: crashes of the process
  MaxSkips,   \* bound: failing statements of init
  MaxFaults   \* bound: invalidations, failed opens, panics

ASSUME DuckAssumption ==
  /\ PoolSize \in Nat \ {0} /\ MaxStops \in Nat /\ MaxSkips \in Nat /\ MaxFaults \in Nat
  /\ IsFiniteSet(Readers)

VARIABLES
  dialect,   \* "duckdb" or "clickhouse": whose init runs
  db,        \* name of a table -> [cols, rows]
  at,        \* 0: down; k: init is at statement k; Serving
  filling,   \* init found the rollup empty and calls present
  stops, faulted,
  misses,    \* ghost: a statement of init failed and was skipped
  cut,       \* ghost: the process died while back-filling
  served,    \* ghost: the tables when they were first served
  writer,    \* of each writer mutex: the instance its connection belongs to
  poisoned,  \* writer mutexes whose holder panicked
  dead,      \* invalidated instances
  pool,      \* inner -> its idle connections; a connection is <<instance, i>>
  current,   \* the inner acquire() sees
  permits,   \* free permits of the semaphore
  reader,    \* of each read query: [pc, inner, conn]
  reopening  \* 0, or the next step of reopen_all_connections

tables == <<dialect, db, filling, misses, cut, served>>
conns  == <<writer, poisoned, dead, pool, current, permits, reader, reopening>>
duckVars == <<tables, conns, at, stops, faulted>>

Writers == <<"spans", "traces", "metrics", "exchanges">>
-----------------------------------------------------------------------------
(* Tables.  Of each run of columns that one migration adds, at least one is *)
(* kept, and two where they are added by separate statements.               *)

CREATE_LLM_CALLS == <<"id", "bodies", "is_agent_request", "tool_surface", "body_bytes_dropped",
                      "process_pid", "process_exe", "kind">>
CREATE_LLM_METRICS == <<"call_count", "ttft_p99", "ttft_stream_sum", "e2e_sum", "tool_surface">>
CREATE_LLM_TURNS == <<"turn_id", "status", "span_ids", "metadata", "tool_surfaces_json",
                      "suspicious_skills_json">>
CREATE_LLM_FINISH_METRICS == <<"finish_reason", "count">>
CREATE_HTTP_EXCHANGES == <<"id", "status">>

Canonical == [spans |-> CREATE_LLM_CALLS, llm_metrics |-> CREATE_LLM_METRICS, traces |-> CREATE_LLM_TURNS,
              llm_finish_metrics |-> CREATE_LLM_FINISH_METRICS, http_exchanges |-> CREATE_HTTP_EXCHANGES]

\* The statements of init, in order.
Rename(from, to) == [op |-> "rename_table", from |-> from, to |-> to]
RenameColumn == [op |-> "rename_column", from |-> "call_ids", to |-> "span_ids"]
Create(t) == [op |-> "create", table |-> t]
Add(t, c) == [op |-> "add_column", table |-> t, col |-> c]

DuckScript ==
  <<Rename("agent_turns", "traces"), Rename("llm_calls", "spans"), RenameColumn,
    Create("spans"), Create("llm_metrics"), Create("llm_finish_metrics"), Create("traces"),
    Create("http_exchanges"),
    [op |-> "drop_column", table |-> "llm_metrics", col |-> "finish_complete_count"],
    [op |-> "drop_misordered"], Create("llm_metrics"), [op |-> "check_rollup"],
    [op |-> "backfill", gran |-> "10s"], [op |-> "backfill", gran |-> "1m"],
    [op |-> "rewrite_status"],
    Add("spans", "is_agent_request"), Add("spans", "tool_surface"), Add("spans", "body_bytes_dropped"),
    Add("spans", "process_pid"), Add("spans", "process_exe"),
    Add("traces", "tool_surfaces_json"), Add("traces", "suspicious_skills_json"),
    Add("llm_metrics", "tool_surface"), Add("spans", "kind")>>

\* ClickHouse has one migration; its writers name their columns.
ChScript ==
  <<Rename("agent_turns", "traces"), Rename("llm_calls", "spans"), RenameColumn,
    [op |-> "add_if_table", table |-> "spans", col |-> "kind"],
    Create("spans"), Create("llm_metrics"), Create("llm_finish_metrics"), Create("traces"),
    Create("http_exchanges")>>

Script == IF dialect = "duckdb" THEN DuckScript ELSE ChScript

Serving == Len(Script) + 1

table_exists(t) == t \in DOMAIN db
column_exists(t, c) == table_exists(t) /\ c \in Range(db[t].cols)

IndexIn(c, s) == CHOOSE i \in DOMAIN s : s[i] = c

\* Deviation: the columns being there is enough.
needs_canonical_rebuild_presence ==
  LET cols == db["llm_metrics"].cols
  IN table_exists("llm_metrics") /\ "ttft_p99" \in Range(cols) /\ "ttft_stream_sum" \notin Range(cols)

\* Columns appended by an ALTER are in the wrong place for the appender.
needs_canonical_rebuild ==
  /\ table_exists("llm_metrics")
  /\ LET cols == db["llm_metrics"].cols
     IN /\ "ttft_p99" \in Range(cols)
        /\ \/ "ttft_stream_sum" \notin Range(cols)
           \/ IndexIn("ttft_stream_sum", cols) # IndexIn("ttft_p99", cols) + 1

rollup_empty_but_calls_present == db["llm_metrics"].rows = {} /\ db["spans"].rows # {}

\* The rollup rebuilt from the calls: all of a call in the bucket of its
\* request, no tool surface, no sampled concurrency.
backfill_sql(calls, g) ==
  LET keyed == {<<Bucket(c.request_time, g), d>> : c \in calls, d \in UNION {dimension_keys(c) : c \in calls}}
      Mine(k) == {c \in calls : Bucket(c.request_time, g) = k[1] /\ k[2] \in dimension_keys(c)}
      Ended(S) == {[call |-> c, at |-> c.request_time, done |-> b] : c \in S, b \in BOOLEAN}
  IN {[timestamp |-> k[1], granularity |-> g, wire_api |-> k[2][1], model |-> k[2][2],
       server_ip |-> k[2][3], tool_surface |-> Null,
       vals |-> [RowValues(Ended(Mine(k))) EXCEPT !.active_calls_max = 0]]
        : k \in {x \in keyed : Mine(x) # {}}}

\* status 'length' is complete, 'failed' and 'cancelled' are incomplete.
Rewritten(status) == CASE status = "length" -> "complete"
                       [] status \in {"failed", "cancelled"} -> "incomplete"
                       [] OTHER -> status

\* The file with one table's columns, or its rows, replaced.
SetCols(t, cols) == [db EXCEPT ![t] = [cols |-> cols, rows |-> db[t].rows]]
SetRows(t, rows) == [db EXCEPT ![t] = [cols |-> db[t].cols, rows |-> rows]]

\* ADD COLUMN IF NOT EXISTS, at the end; DROP COLUMN IF EXISTS.
With(t, c) == IF c \in Range(db[t].cols) THEN db ELSE SetCols(t, Append(db[t].cols, c))
Without(t, c) ==
  IF c \in Range(db[t].cols) THEN SetCols(t, RemoveAt(db[t].cols, IndexIn(c, db[t].cols))) ELSE db

\* The tables after one statement.
After(s) ==
  CASE s.op = "rename_table" ->
         IF table_exists(s.from) /\ ~table_exists(s.to)
           THEN [t \in (DOMAIN db \ {s.from}) \union {s.to} |-> db[IF t = s.to THEN s.from ELSE t]] ELSE db
    [] s.op = "rename_column" ->
         IF column_exists("traces", s.from) /\ ~column_exists("traces", s.to)
           THEN LET cols == db["traces"].cols
                IN SetCols("traces", [i \in DOMAIN cols |-> IF cols[i] = s.from THEN s.to ELSE cols[i]]) ELSE db
    [] s.op = "create" ->
         IF table_exists(s.table) THEN db
         ELSE [t \in DOMAIN db \union {s.table} |->
                 IF t = s.table THEN [cols |-> Canonical[t], rows |-> {}] ELSE db[t]]
    [] s.op = "drop_column" -> Without(s.table, s.col)
    [] s.op = "drop_misordered" ->
         IF needs_canonical_rebuild THEN [t \in DOMAIN db \ {"llm_metrics"} |-> db[t]] ELSE db
    [] s.op = "backfill" ->
         IF filling
           THEN SetRows("llm_metrics", db["llm_metrics"].rows \union backfill_sql(db["spans"].rows, s.gran)) ELSE db
    [] s.op = "rewrite_status" ->
         SetRows("traces", {[r EXCEPT !.status = Rewritten(@)] : r \in db["traces"].rows})
    [] s.op = "add_column" -> With(s.table, s.col)
    [] s.op = "add_if_table" -> IF table_exists(s.table) THEN With(s.table, s.col) ELSE db
    [] OTHER -> db

\* DuckDB: creating and rebuilding tables is fatal when it fails, all else is
\* logged.  ClickHouse: everything is.
Fatal(s) == dialect = "clickhouse" \/ s.op \in {"create", "drop_misordered"}

Fault == faulted < MaxFaults /\ faulted' = faulted + 1
-----------------------------------------------------------------------------
(* The process. *)

Idle == [pc |-> "idle", inner |-> 0, conn |-> <<>>]

Fresh(instance) == {<<instance, i>> : i \in 1..PoolSize}

\* open_with_pool: all connections are clones of one.
open_with_pool ==
  /\ at = 0 /\ at' = 1
  /\ LET new == stops * 10 + 1
     IN /\ writer' = [w \in Range(Writers) |-> new]
        /\ pool' = [i \in {new} |-> Fresh(i)] /\ current' = new
  /\ permits' = PoolSize /\ poisoned' = {} /\ dead' = {} /\ reopening' = 0
  /\ reader' = [r \in Readers |-> Idle]
  /\ filling' = FALSE
  /\ UNCHANGED <<dialect, db, stops, faulted, misses, cut, served>>

InitStatement ==
  /\ at \in 1..Len(Script) /\ at' = at + 1
  /\ db' = After(Script[at])
  /\ filling' = IF Script[at].op = "check_rollup" THEN rollup_empty_but_calls_present ELSE filling
  /\ served' = IF at' = Serving /\ served = Null THEN db' ELSE served
  /\ UNCHANGED <<dialect, stops, faulted, misses, cut, conns>>

StatementFails ==
  /\ at \in 1..Len(Script) /\ faulted < MaxSkips /\ faulted' = faulted + 1
  /\ IF Fatal(Script[at]) THEN at' = 0 /\ UNCHANGED <<misses, served>>
     ELSE /\ at' = at + 1 /\ misses' = TRUE
          /\ served' = IF at' = Serving /\ served = Null THEN db ELSE served
  /\ UNCHANGED <<dialect, db, stops, filling, cut, conns>>

Crash ==
  /\ at # 0 /\ stops < MaxStops /\ stops' = stops + 1
  /\ at' = 0
  /\ cut' = (cut \/ (at \in 1..Len(Script) /\ filling))
  /\ UNCHANGED <<dialect, db, filling, misses, served, faulted, conns>>
-----------------------------------------------------------------------------
(* Read connections. *)

acquire_permit(r) ==
  /\ at = Serving /\ reader[r].pc = "idle" /\ permits > 0
  /\ permits' = permits - 1
  /\ reader' = [reader EXCEPT ![r] = [Idle EXCEPT !.pc = "permit"]]
  /\ UNCHANGED <<tables, at, stops, faulted, writer, poisoned, dead, pool, current, reopening>>

acquire_snapshot(r) ==
  /\ at = Serving /\ reader[r].pc = "permit"
  /\ reader' = [reader EXCEPT ![r].pc = "snapshot", ![r].inner = current]
  /\ UNCHANGED <<tables, at, stops, faulted, writer, poisoned, dead, pool, current, permits, reopening>>

\* The pop; an empty inner is an error of the query.
acquire_pop(r) ==
  /\ at = Serving /\ reader[r].pc = "snapshot"
  /\ LET inner == reader[r].inner
     IN IF pool[inner] = {}
          THEN reader' = [reader EXCEPT ![r].pc = "error"] /\ UNCHANGED pool
          ELSE \E c \in pool[inner] :
                 /\ pool' = [pool EXCEPT ![inner] = @ \ {c}]
                 /\ reader' = [reader EXCEPT ![r].pc = "held", ![r].conn = c]
  /\ UNCHANGED <<tables, at, stops, faulted, writer, poisoned, dead, current, permits, reopening>>

\* Deviation: the connection goes back to the pool of the day.
PooledConn_drop_to_current(r) ==
  /\ at = Serving /\ reader[r].pc = "held"
  /\ pool' = [pool EXCEPT ![current] = @ \union {reader[r].conn}]
  /\ reader' = [reader EXCEPT ![r].pc = "returned"]
  /\ UNCHANGED <<tables, at, stops, faulted, writer, poisoned, dead, current, permits, reopening>>

\* Drop: the connection goes back to the inner it came from; the permit is a
\* field, dropped after the body of drop().
PooledConn_drop(r) ==
  /\ at = Serving /\ reader[r].pc = "held"
  /\ pool' = [pool EXCEPT ![reader[r].inner] = @ \union {reader[r].conn}]
  /\ reader' = [reader EXCEPT ![r].pc = "returned"]
  /\ UNCHANGED <<tables, at, stops, faulted, writer, poisoned, dead, current, permits, reopening>>

drop_permit(r) ==
  /\ at = Serving /\ reader[r].pc \in {"returned", "error"}
  /\ permits' = permits + 1
  /\ reader' = [reader EXCEPT ![r] = Idle]
  /\ UNCHANGED <<tables, at, stops, faulted, writer, poisoned, dead, pool, current, reopening>>

ReadStep(r) == acquire_snapshot(r) \/ acquire_pop(r) \/ PooledConn_drop(r) \/ drop_permit(r)
-----------------------------------------------------------------------------
(* Invalidation and recovery. *)

InUse == {writer[w] : w \in Range(Writers)} \union {current}

\* The engine declares one instance unusable.
Invalidate ==
  /\ at = Serving /\ Fault
  /\ \E g \in InUse \ dead : dead' = dead \union {g}
  /\ UNCHANGED <<tables, at, stops, writer, poisoned, pool, current, permits, reader, reopening>>

\* A writer's blocking task panics with its mutex held.
WriterPanics ==
  /\ at = Serving /\ Fault
  /\ \E w \in Range(Writers) : poisoned' = poisoned \union {w}
  /\ UNCHANGED <<tables, at, stops, writer, dead, pool, current, permits, reader, reopening>>

\* A sweep that reads candidates or tags a turn meets the error and starts
\* reopen_all_connections; the anchor and its clones are opened first and,
\* when that fails, nothing has changed.
SweepNotices ==
  /\ at = Serving /\ reopening = 0
  /\ current \in dead \/ writer["traces"] \in dead
  /\ reopening' = 1
  /\ UNCHANGED <<tables, at, stops, faulted, writer, poisoned, dead, pool, current, permits, reader>>

OpenFails ==
  /\ at = Serving /\ reopening = 1 /\ Fault
  /\ reopening' = 0
  /\ UNCHANGED <<tables, at, stops, writer, poisoned, dead, pool, current, permits, reader>>

\* Inners some read still points to; a replaced one is freed without them.
Held == {reader[r].inner : r \in {x \in Readers : reader[x].pc \in {"snapshot", "held"}}}

\* A number no live handle carries.
NewInstance ==
  LET taken == InUse \union Held
  IN CHOOSE g \in 1..(Cardinality(taken) + 1) : g \notin taken

\* The four writers one after the other, the first of them with the anchor;
\* a poisoned mutex ends the attempt where it is.
SwapWriter ==
  /\ at = Serving /\ reopening \in 1..4
  /\ LET w == Writers[reopening]
         new == IF reopening = 1 THEN NewInstance ELSE writer[Writers[1]]
     IN IF w \in poisoned
          THEN reopening' = 0 /\ UNCHANGED writer
          ELSE writer' = [writer EXCEPT ![w] = new] /\ reopening' = reopening + 1
  /\ dead' = IF reopening = 1 THEN dead \ {NewInstance} ELSE dead
  /\ UNCHANGED <<tables, at, stops, faulted, poisoned, pool, current, permits, reader>>

replace_all ==
  /\ at = Serving /\ reopening = 5
  /\ LET new == writer[Writers[1]]
     IN /\ pool' = [i \in Held \union {new} |-> IF i = new THEN Fresh(i) ELSE pool[i]]
        /\ current' = new
  /\ reopening' = 0
  /\ UNCHANGED <<tables, at, stops, faulted, writer, poisoned, dead, permits, reader>>

Recovery == SweepNotices \/ SwapWriter \/ replace_all
-----------------------------------------------------------------------------
Rows(statuses) == {[turn |-> i, status |-> statuses[i]] : i \in DOMAIN statuses}

Table(cols, rows) == [cols |-> cols, rows |-> rows]

Rollup == MetricRows(History)

OldTurns == Rows(<<"complete", "length", "failed">>)

\* What the releases before this one leave: nothing; the first schema; one
\* whose rollup columns an ALTER appended; the one before the renames; the
\* current one; and the current one restored without its rollup.
LegacyFiles ==
  { [t \in {} |-> {}],
    [agent_turns |-> Table(<<"turn_id", "status", "call_ids", "metadata">>, OldTurns),
     llm_calls   |-> Table(<<"id", "bodies">>, History),
     llm_metrics |-> Table(<<"call_count", "finish_complete_count", "ttft_p99", "e2e_sum">>, Rollup)],
    [agent_turns |-> Table(<<"turn_id", "status", "call_ids", "metadata", "tool_surfaces_json">>, OldTurns),
     llm_calls   |-> Table(<<"id", "bodies", "is_agent_request", "tool_surface">>, History),
     llm_metrics |-> Table(<<"call_count", "ttft_p99", "e2e_sum", "ttft_stream_sum", "tool_surface">>, Rollup)],
    [agent_turns |-> Table(<<"turn_id", "status", "call_ids", "metadata", "tool_surfaces_json",
                             "suspicious_skills_json">>, OldTurns),
     llm_calls   |-> Table(<<"id", "bodies", "is_agent_request", "tool_surface", "body_bytes_dropped">>, History),
     llm_metrics |-> Table(CREATE_LLM_METRICS, Rollup)],
    [t \in {"spans", "traces", "llm_metrics", "llm_finish_metrics", "http_exchanges"} |->
       Table(Canonical[t], CASE t = "spans" -> History [] t = "traces" -> OldTurns
                             [] t = "llm_metrics" -> Rollup [] OTHER -> {})],
    [t \in {"spans", "traces", "llm_finish_metrics", "http_exchanges"} |->
       Table(Canonical[t], CASE t = "spans" -> History [] t = "traces" -> OldTurns [] OTHER -> {})] }

\* ClickHouse only ever had the current schema under the old names.
ChFiles == {f \in LegacyFiles : "llm_calls" \in DOMAIN f => f["llm_metrics"].cols = CREATE_LLM_METRICS}

DuckInit ==
  /\ \/ dialect = "duckdb" /\ db \in LegacyFiles
     \/ dialect = "clickhouse" /\ db \in ChFiles
  /\ at = 0 /\ filling = FALSE /\ stops = 0 /\ faulted = 0
  /\ misses = FALSE /\ cut = FALSE /\ served = Null
  /\ writer = [w \in Range(Writers) |-> 0] /\ poisoned = {} /\ dead = {}
  /\ pool = [i \in {} |-> {}] /\ current = 0 /\ permits = 0
  /\ reader = [r \in Readers |-> Idle] /\ reopening = 0

\* Once the tables are served nothing here touches them, and until then
\* nothing uses the connections but init: the two halves run apart.
UpgradeNext == open_with_pool \/ InitStatement \/ StatementFails \/ Crash

ConnectionNext ==
  \/ \E r \in Readers : acquire_permit(r) \/ ReadStep(r)
  \/ Invalidate \/ WriterPanics \/ OpenFails \/ Recovery

\* The process on a file it has just made, before its first query.
DuckServing ==
  /\ dialect = "duckdb"
  /\ db = [t \in DOMAIN Canonical |-> [cols |-> Canonical[t], rows |-> {}]] /\ served = db
  /\ at = Serving /\ filling = FALSE /\ stops = 0 /\ faulted = 0 /\ misses = FALSE /\ cut = FALSE
  /\ writer = [w \in Range(Writers) |-> 1] /\ poisoned = {} /\ dead = {}
  /\ pool = [i \in {1} |-> Fresh(i)] /\ current = 1 /\ permits = PoolSize
  /\ reader = [r \in Readers |-> Idle] /\ reopening = 0

\* Starts, upgrades and crashes, and the queries and invalidations between them.
DuckSpec == DuckInit /\ [][UpgradeNext \/ ConnectionNext]_duckVars
-----------------------------------------------------------------------------
(* Properties. *)

\* The positional appenders of calls, turns and metrics meet the column order
\* they were written for, whichever release made the file and wherever an
\* earlier upgrade died, unless a statement was skipped because it failed.
ColumnsAligned ==
  at = Serving /\ ~misses /\ dialect = "duckdb" => \A t \in DOMAIN Canonical : table_exists(t) /\ db[t].cols = Canonical[t]

\* The calls and the ids of the turns in the file, under the old or the new name.
StoredCalls == UNION {db[t].rows : t \in {"llm_calls", "spans"} \intersect DOMAIN db}
StoredTurns == {r.turn : r \in UNION {db[t].rows : t \in {"agent_turns", "traces"} \intersect DOMAIN db}}

\* No upgrade loses the calls and turns of the file: they are in the table
\* under its old or its new name, and in the one the reads use once the
\* backend serves (the rename guards of init).
HistoryKept ==
  /\ StoredCalls \in {{}, History}
  /\ at = Serving /\ ~misses =>
       /\ db["spans"].rows = StoredCalls
       /\ {r.turn : r \in db["traces"].rows} = StoredTurns
       /\ column_exists("traces", "span_ids") /\ column_exists("spans", "kind")
       /\ dialect = "duckdb" => \A r \in db["traces"].rows : r.status \in {"complete", "incomplete"}

\* Every one of the calls is counted once, at every granularity and on every
\* tier a filter can choose.
RollupCounts(rollup, calls) ==
  \A g \in Granularities, f \in {<<{}, {}, {}>>} \union
        {<<{}, {}, {c.server_ip}>> : c \in History} \union {<<{c.wire_api}, {c.model}, {}>> : c \in History} :
    LET filter == [wire_apis |-> f[1], models |-> f[2], server_ips |-> f[3], tool_surfaces |-> {}]
        rows   == {r \in rollup : r.granularity = g /\ build_dimension_where(filter, r)}
        mine   == {c \in calls : Admits(f[1], c.wire_api) /\ Admits(f[2], c.model) /\ Admits(f[3], c.server_ip)}
    IN ColSum(rows, "call_count") = Cardinality(mine)

\* What that asks of the two rollups the file may hold, the live one and the
\* rebuilt one, of calls that are the constant's: folds, which TLC evaluates.
RollupsCount ==
  /\ RollupCounts({}, {}) /\ RollupCounts(Rollup, History)
  /\ RollupCounts(backfill_sql(History, "10s") \union backfill_sql(History, "1m"), History)

\* The rollup counts every stored call once, be it the live one or the one
\* rebuilt from the calls, unless the rebuild failed or was cut short (which
\* no later start repairs: rollup_empty_but_calls_present).
RollupRestored ==
  at = Serving /\ ~misses /\ ~cut /\ dialect = "duckdb" =>
    RollupCounts(db["llm_metrics"].rows, db["spans"].rows)

\* A restart of the same release changes nothing in the file.
RestartChangesNothing == at = Serving /\ ~misses /\ ~cut => db = served

\* A read that got a permit gets a connection, also while the pool is being
\* replaced ("read pool invariant violated" cannot happen).
PopSucceeds == \A r \in Readers : reader[r].pc # "error"

\* Connections of an instance that was replaced never come back into the pool
\* that acquire() uses.
NoStaleCirculates == current # 0 /\ at # 0 => \A c \in pool[current] : c[1] = current

\* What a read relies on whatever fails, as one state predicate.
PoolSafe == PopSucceeds /\ NoStaleCirculates

\* After an invalidation every writer and the pool end up on a live instance,
\* or the process went down, or a poisoned mutex stands in the way.
Recovers == (at = Serving /\ dead \intersect InUse # {}) ~>
              (dead \intersect InUse = {} \/ poisoned # {} \/ at = 0)

\* An upgrade interrupted anywhere and started again keeps the history, the column
\* order and the rollup, and a further start leaves the file alone.
UpgradeSound == ColumnsAligned /\ HistoryKept /\ RollupRestored /\ RestartChangesNothing

\* Replacing the connections under running reads: no read that has a permit comes
\* away empty, no connection of the old instance comes back, and the swap completes.
PoolRecovers == [](PopSucceeds /\ NoStaleCirculates) /\ Recovers
=============================================================================
