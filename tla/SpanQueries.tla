---------------------------- MODULE SpanQueries ----------------------------
(***************************************************************************)
(* Reads of the spans table: the filtered, paged list, the detail of one   *)
(* span, and the fetch of a trace's spans by id.                           *)
(*                                                                         *)
(* AgLake keeps the bodies of a span in an index of their own and has no   *)
(* point lookup: a lookup by id is a search with a time window guessed     *)
(* from the id, capped at as many rows as ids were asked for.  An answer   *)
(* that depends on which rows the search returns first is a set of         *)
(* possible answers here.                                                  *)
(***************************************************************************)
EXTENDS StorageRows

CONSTANTS IdChunk,        \* ids of one AgLake lookup (64)
          IdSkew,         \* the widenings of the id-derived window, narrow first
          TraceSkew,      \* storage.aglake.trace_time_skew
          MaxPageOffset   \* storage.aglake.max_page_offset

SpanSortFields == {"request_time", "status_code", "ttft_ms"}

SpanKey(s, by) ==
  CASE by = "request_time" -> s.request_time
    [] by = "status_code" -> s.status_code
    [] OTHER -> s.ttft_ms

SpanMatch(s, q) ==
  /\ InRange(s.request_time, q.time_range)
  /\ Admits(q.filter.wire_apis, s.wire_api)
  /\ Admits(q.filter.models, s.model)
  /\ Admits(q.filter.server_ips, s.server_ip)
  /\ Admits(q.status_codes, s.status_code)
  /\ Admits(q.finish_reasons, s.finish_reason)
  /\ Admits(q.client_ips, s.client_ip)
  /\ Admits(q.server_ports, s.server_port)
  /\ q.request_path_contains = Null \/ q.request_path_contains \in s.request_path
  /\ q.is_stream = Null \/ s.is_stream = q.is_stream

\* ORDER BY {sort_by} {sort_order}, id ASC; a NULL key sorts last.
SqlBefore(a, b, ka, kb, ida, idb, asc) ==
  \/ ka # Null /\ kb = Null
  \/ ka # Null /\ kb # Null /\ (IF asc THEN ka < kb ELSE ka > kb)
  \/ ka = kb /\ ida < idb

\* AgLake: every key in the direction of the first; a missing key is least.
LakeBefore(a, b, ka, kb, ta, tb, asc) ==
  LET va == <<IF ka = Null THEN -1 ELSE ka, ta[1], ta[2]>>
      vb == <<IF kb = Null THEN -1 ELSE kb, tb[1], tb[2]>>
  IN IF asc THEN CursorLess(va, vb) ELSE CursorLess(vb, va)

span_list_item(s, estimated) ==
  [id |-> s.id, source_id |-> s.source_id, request_time |-> Ms(s.request_time),
   wire_api |-> s.wire_api, model |-> s.model, status_code |-> s.status_code,
   tokens_estimated |-> estimated, server_port |-> s.server_port,
   process |-> read_process(s.pid, s.source_id)]

SqlEstimated(s) == derive_tokens_estimated(s.input_tokens, Null, s.response_body)

call_list_item(s) == span_list_item(s, SqlEstimated(s))

DuckSpans(T, q) ==
  IF q.sort_by \notin SpanSortFields THEN Failed
  ELSE LET rows == {s \in T : SpanMatch(s, q)}
           all  == SetToSortSeq(rows, LAMBDA a, b :
                     SqlBefore(a, b, SpanKey(a, q.sort_by), SpanKey(b, q.sort_by), a.id, b.id, q.asc))
       IN Page(Cardinality(rows), SeqMap(call_list_item, Slice(all, Offset(q.page, q.page_size), q.page_size)))

ChSpans(T, q) ==
  IF q.sort_by \notin SpanSortFields THEN Failed
  ELSE LET rows == {s \in T : SpanMatch(s, q)}
           all  == SetToSortSeq(rows, LAMBDA a, b :
                     SqlBefore(a, b, SpanKey(a, q.sort_by), SpanKey(b, q.sort_by), a.id, b.id, q.asc))
       IN Page(Cardinality(rows), SeqMap(call_list_item, Slice(all, Offset(q.page, q.page_size), q.page_size)))

\* fetch_page: the page and the total come from two searches over one prefix.
fetch_page(rows, before(_, _), page, page_size, item(_)) ==
  LET size == IF page_size = 0 THEN 1 ELSE page_size
      off  == Offset(page, size)
  IN IF off > MaxPageOffset THEN Failed
     ELSE Page(Cardinality(rows), SeqMap(item, Slice(SetToSortSeq(rows, before), off, size)))

\* tokens_estimated is computed when the span is written.
LakeSpans(T, q) ==
  IF q.sort_by \notin SpanSortFields THEN Failed
  ELSE fetch_page({s \in T : SpanMatch(s, q)},
                  LAMBDA a, b : \/ LakeBefore(a, b, SpanKey(a, q.sort_by), SpanKey(b, q.sort_by),
                                              <<a.request_time, a.id>>, <<b.request_time, b.id>>, q.asc)
                                \/ a.id = b.id /\ a.copy < b.copy,
                  q.page, q.page_size, LAMBDA s : span_list_item(s, s.tokens_estimated))
-----------------------------------------------------------------------------
(* One span. *)

SpanDetail(s, estimated, body) ==
  [item |-> span_list_item(s, estimated), response_body |-> body]

DuckSpanById(T, id) == {SpanDetail(s, SqlEstimated(s), s.response_body) : s \in {x \in T : x.id = id}}

ChSpanById(T, id) == {SpanDetail(s, SqlEstimated(s), s.response_body) : s \in {x \in T : x.id = id}}

\* `| head n`: any n of the rows a search matches.
AnyOf(rows, n) ==
  {S \in SUBSET rows : Cardinality(S) = IF Cardinality(rows) < n THEN Cardinality(rows) ELSE n}

Within(rows, from, to) == {r \in rows : from <= r.ts /\ r.ts <= to}

\* The windows an id suggests, tried narrow first; an id that is not a
\* UUIDv7 suggests none.
id_windows(minted) ==
  IF minted = Null THEN <<>>
  ELSE [i \in 1..Len(IdSkew) |-> [from |-> minted - IdSkew[i], to |-> minted + IdSkew[i]]]

\* The first window with a hit, else everything.
fetch_raw_by_id(rows, n, minted) ==
  LET ws   == id_windows(minted)
      hits == {i \in DOMAIN ws : Within(rows, ws[i].from, ws[i].to) # {}}
  IN IF hits = {} THEN AnyOf(rows, n)
     ELSE LET i == CHOOSE i \in hits : \A j \in hits : i <= j
          IN AnyOf(Within(rows, ws[i].from, ws[i].to), n)

\* Bodies carry the timestamp of their span; the window is the extent of the
\* spans in hand, so it cannot miss one of theirs.  The map is keyed by span
\* id, so a second copy of a body replaces the first.
body_window(spans, pad) ==
  [from |-> (CHOOSE t \in {s.ts : s \in spans} : \A s \in spans : t <= s.ts) - pad,
   to   |-> (CHOOSE t \in {s.ts : s \in spans} : \A s \in spans : t >= s.ts) + pad]

Chunks(ids) ==
  [c \in 1..((Len(ids) + IdChunk - 1) \div IdChunk) |->
     {ids[i] : i \in {i \in DOMAIN ids : (i - 1) \div IdChunk = c - 1}}]

\* One search per chunk, each capped at the chunk's size.
PerChunk(rows, ids, idOf(_), Fetch(_, _)) ==
  LET found == [c \in DOMAIN Chunks(ids) |-> Fetch({r \in rows : idOf(r) \in Chunks(ids)[c]}, c)]
  IN {UNION {pick[c] : c \in DOMAIN found} : pick \in {f \in [DOMAIN found -> UNION {found[c] : c \in DOMAIN found}] :
                                                          \A c \in DOMAIN found : f[c] \in found[c]}}

ChunkSize(ids, c) == Cardinality(Chunks(ids)[c])

fetch_bodies(B, ids, win) ==
  {[id \in {b.span_id : b \in found} |-> (CHOOSE b \in found : b.span_id = id).text]
     : found \in PerChunk(B, ids, LAMBDA b : b.span_id,
                          LAMBDA rows, c : AnyOf(Within(rows, win.from, win.to), ChunkSize(ids, c)))}

LakeSpanById(T, B, id, minted) ==
  UNION {IF hit = {} THEN {}
         ELSE LET s == CHOOSE s \in hit : TRUE
              IN IF ~s.has_body THEN {SpanDetail(s, s.tokens_estimated, Null)}
                 ELSE {SpanDetail(s, s.tokens_estimated, IF id \in DOMAIN m THEN m[id] ELSE Null)
                         : m \in fetch_bodies(B, <<id>>, body_window({s}, 1))}
         : hit \in fetch_raw_by_id({s \in T : s.id = id}, 1, minted)}
-----------------------------------------------------------------------------
(* A trace's spans. *)

TraceSpanItem(s, n, estimated, body) ==
  [id |-> s.id, sequence |-> n, request_time |-> Ms(s.request_time),
   tokens_estimated |-> estimated, response_body |-> body]

\* ORDER BY request_time, complete_time: equal instants in any order.
ByTimes(a, b) == CursorLess(<<a.request_time, a.complete_time>>, <<b.request_time, b.complete_time>>)

\* The lite mode selects NULL for the bodies, and the token heuristic then
\* sees no response body.
read_calls_by_ids(T, ids, include_bodies) ==
  LET Body(s) == IF include_bodies THEN s.response_body ELSE Null
  IN {[i \in DOMAIN o |-> TraceSpanItem(o[i], i, derive_tokens_estimated(o[i].input_tokens, Null, Body(o[i])),
                                        Body(o[i]))]
        : o \in OrdersOf({s \in T : s.id \in ToSet(ids)}, ByTimes)}

DuckSpansByIds(T, ids, include_bodies) == read_calls_by_ids(T, ids, include_bodies)

ChSpansByIds(T, ids, include_bodies) == read_calls_by_ids(T, ids, include_bodies)

\* AgLake: the caller's window when it has one, else the first id's.
read_spans_by_ids(T, B, ids, include_bodies, win, minted) ==
  LET Found == PerChunk(T, ids, LAMBDA s : s.id,
                        LAMBDA rows, c : IF win # Null THEN AnyOf(Within(rows, win.from, win.to), ChunkSize(ids, c))
                                         ELSE fetch_raw_by_id(rows, ChunkSize(ids, c),
                                                              minted[ids[(c - 1) * IdChunk + 1]]))
      Items(found, m) ==
        LET o == SetToSortSeq(found, LAMBDA a, b :
                   CursorLess(<<a.request_time, a.complete_time, a.id, a.copy>>,
                              <<b.request_time, b.complete_time, b.id, b.copy>>))
        IN [i \in DOMAIN o |-> TraceSpanItem(o[i], i, o[i].tokens_estimated,
                                             IF o[i].id \in DOMAIN m THEN m[o[i].id] ELSE Null)]
  IN IF ids = <<>> THEN {<<>>}
     ELSE UNION {IF include_bodies /\ found # {}
                   THEN {Items(found, m) : m \in fetch_bodies(B, SetToSeq({s.id : s \in found}), body_window(found, 1))}
                   ELSE {Items(found, [i \in {} |-> Null])}
                 : found \in Found}

\* Step 1 reads the trace's span_ids, step 2 the spans; a trace that is not
\* there has none.
DuckTraceSpans(traces, T, turn_id, include_bodies) ==
  LET hit == {t \in traces : t.turn_id = turn_id}
  IN IF hit = {} THEN {<<>>} ELSE read_calls_by_ids(T, (CHOOSE t \in hit : TRUE).span_ids, include_bodies)

turn_span_ids(finalTraces, turn_id) ==
  LET hit == {t \in finalTraces : t.turn_id = turn_id}
  IN IF hit = {} THEN <<>> ELSE (CHOOSE t \in hit : TRUE).span_ids

ChTraceSpans(finalTraces, T, turn_id, include_bodies) ==
  read_calls_by_ids(T, turn_span_ids(finalTraces, turn_id), include_bodies)

\* The trace's own extent, widened by the configured skew.
window(start, end) == [from |-> start - TraceSkew, to |-> end + TraceSkew]

LakeTraceSpans(traces, T, B, turn_id, include_bodies) ==
  LET hit == {t \in traces : t.turn_id = turn_id}
  IN IF hit = {} THEN {<<>>}
     ELSE LET t == CHOOSE t \in hit : TRUE
          IN read_spans_by_ids(T, B, t.span_ids, include_bodies, window(t.start_time, t.end_time), Null)
=============================================================================
