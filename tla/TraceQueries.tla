---------------------------- MODULE TraceQueries ----------------------------
(***************************************************************************)
(* Reads of the traces table: the paged list, one trace, and the sessions  *)
(* view over it with its two cursor-paged lists.                           *)
(*                                                                         *)
(* ClickHouse stores a trace's versions as separate rows and merges them   *)
(* when it likes; a FINAL read sees the highest version only.  AgLake      *)
(* cannot change a stored event and may hold one twice.                    *)
(***************************************************************************)
EXTENDS SpanQueries, FiniteSetsExt

CONSTANT MaxSessionsScan   \* storage.aglake.max_sessions_scan

TraceSortFields == {"start_time", "end_time", "call_count"}

TraceKey(t, by) ==
  CASE by = "start_time" -> t.start_time
    [] by = "end_time" -> t.end_time
    [] OTHER -> t.call_count

\* Deviation: FINAL left out.
Final_omitted(T) == T

\* FROM traces FINAL: the row of a turn with the highest version, the later
\* insert among equals.
Final(T) ==
  {r \in T : \A s \in T : s.turn_id = r.turn_id => ~CursorLess(<<r._version, r.copy>>, <<s._version, s.copy>>)}

Role(t) == extract_proxy_fields(t.metadata).role

TraceMatch(t, q) ==
  /\ InRange(t.start_time, q.time_range)
  /\ Admits(q.filter.wire_apis, t.wire_api)
  /\ q.filter.models = {} \/ ToSet(parse_json_string_list(t.models_used)) \intersect q.filter.models # {}
  /\ Admits(q.filter.server_ips, t.server_ip)
  /\ Admits(q.client_ips, t.client_ip)
  /\ Admits(q.statuses, t.status)
  /\ Admits(q.agent_kinds, t.agent_kind)

Visible(t, q) == q.include_proxy_hops \/ Role(t) \notin HiddenRoles

FirstSpan(t) == IF t.span_ids = <<>> THEN Null ELSE t.span_ids[1]

trace_list_item(t) ==
  [turn_id |-> t.turn_id, source_id |-> t.source_id, session_id |-> t.session_id,
   start_time |-> Ms(t.start_time), end_time |-> Ms(t.end_time), agent_kind |-> t.agent_kind,
   primary_model |-> IF t.models_used \in {Null, <<>>} THEN Null ELSE t.models_used[1],
   call_count |-> t.call_count, proxy_role |-> Role(t)]

TracePage(rows, q) ==
  LET all == SetToSortSeq(rows, LAMBDA a, b :
               SqlBefore(a, b, TraceKey(a, q.sort_by), TraceKey(b, q.sort_by), a.turn_id, b.turn_id, q.asc))
  IN Page(Cardinality(rows), SeqMap(trace_list_item, Slice(all, Offset(q.page, q.page_size), q.page_size)))

\* The turn's port is its first call's: EXISTS over spans.
DuckTraceRows(T, spans, q) ==
  {t \in T : /\ TraceMatch(t, q)
             /\ Visible(t, q)
             /\ \/ q.server_ports = {}
                \/ \E s \in spans : s.id = FirstSpan(t) /\ s.server_port \in q.server_ports}

DuckTraces(T, spans, q) ==
  IF q.sort_by \notin TraceSortFields THEN Failed ELSE TracePage(DuckTraceRows(T, spans, q), q)

ChTraceRows(T, spans, q) ==
  {t \in Final(T) : /\ TraceMatch(t, q)
                    /\ Visible(t, q)
                    /\ \/ q.server_ports = {}
                       \/ FirstSpan(t) \in {s.id : s \in {x \in spans : x.server_port \in q.server_ports}}}

ChTraces(T, spans, q) ==
  IF q.sort_by \notin TraceSortFields THEN Failed ELSE TracePage(ChTraceRows(T, spans, q), q)

\* AgLake resolves the ports to span ids first, within the query's window,
\* and refuses when they are too many.
CONSTANT PortFilterIdCap

span_ids_on_ports(spans, ports, w) ==
  {<<s.id, s.copy>> : s \in {x \in spans : x.server_port \in ports /\ InRange(x.request_time, w)}}

\* proxy_hidden is computed when the trace is written.
LakeTraces(T, spans, q) ==
  LET ids  == span_ids_on_ports(spans, q.server_ports, q.time_range)
      rows == {t \in T : /\ TraceMatch(t, q)
                         /\ q.include_proxy_hops \/ ~t.proxy_hidden
                         /\ q.server_ports = {} \/ FirstSpan(t) \in {x[1] : x \in ids}}
  IN IF q.sort_by \notin TraceSortFields THEN Failed
     ELSE IF q.server_ports # {} /\ Cardinality(ids) > PortFilterIdCap THEN Failed
     ELSE IF q.server_ports # {} /\ ids = {} THEN Page(0, <<>>)
     ELSE fetch_page(rows, LAMBDA a, b :
                       \/ LakeBefore(a, b, TraceKey(a, q.sort_by), TraceKey(b, q.sort_by),
                                     <<a.start_time, a.turn_id>>, <<b.start_time, b.turn_id>>, q.asc)
                       \/ a.turn_id = b.turn_id /\ a.copy < b.copy,
                     q.page, q.page_size, trace_list_item)

-----------------------------------------------------------------------------
(* One trace.  A preview is its text and whether it was cut; a cut one is   *)
(* replaced by the text of the call it came from, when that can be read.    *)

FullText(t, spans) ==
  IF t.preview = Null \/ ~t.preview.cut THEN t.preview
  ELSE IF \E s \in spans : s.id = t.user_call_id /\ s.response_body # Null
       THEN [text |-> t.user_call_id, cut |-> FALSE]
       ELSE t.preview

trace_detail(t, preview) ==
  [turn_id |-> t.turn_id, span_ids |-> t.span_ids, metadata |-> t.metadata,
   start_time |-> Ms(t.start_time), user_input |-> preview]

DuckTraceById(T, spans, id) == {trace_detail(t, FullText(t, spans)) : t \in {x \in T : x.turn_id = id}}

ChTraceById(T, id) == {trace_detail(t, t.preview) : t \in {x \in Final(T) : x.turn_id = id}}

LakeTraceById(T, id, minted) ==
  {trace_detail(CHOOSE t \in hit : TRUE, (CHOOSE t \in hit : TRUE).preview)
     : hit \in fetch_raw_by_id({t \in T : t.turn_id = id}, 1, minted) \ {{}}}
-----------------------------------------------------------------------------
(* Sessions: listed when a turn of theirs ended in the window, with totals  *)
(* over their whole life.                                                   *)

SessionOf(t) == <<t.source_id, t.session_id>>

InSessionFilter(t, q) ==
  /\ q.source_id = Null \/ t.source_id = q.source_id
  /\ Admits(q.agent_kinds, t.agent_kind)

\* Step 1: the sessions of the window, each with its last end there.
SessionKeys(rows, q) ==
  LET mine == {t \in rows : InRange(t.end_time, q.time_range) /\ InSessionFilter(t, q)}
  IN {[key |-> k, last |-> Max({t.end_time : t \in {x \in mine : SessionOf(x) = k}})]
        : k \in {SessionOf(t) : t \in mine}}

SessionOrder(x) == <<x.last, x.key[1], x.key[2]>>

\* Deviation: the comparison in milliseconds, and inclusive.
AfterCursor_inclusive(keys, cursor) ==
  IF cursor = Null THEN keys ELSE {x \in keys : Ms(x.last) <= cursor.last_turn_at_ms}

\* The cursor holds milliseconds; the comparison is in microseconds.
AfterCursor(keys, cursor) ==
  IF cursor = Null THEN keys
  ELSE {x \in keys : CursorLess(SessionOrder(x), <<MsToUs(cursor.last_turn_at_ms), cursor.source_id, cursor.session_id>>)}

Descending(keys) == SetToSortSeq(keys, LAMBDA a, b : CursorLess(SessionOrder(b), SessionOrder(a)))

\* Step 2: lifetime totals, and the opening turn's preview.
SessionAggregate(rows, k) ==
  LET mine == {t \in rows : SessionOf(t) = k}
  IN [first_turn_at |-> Ms(Min({t.start_time : t \in mine})),
      last_turn_at  |-> Ms(Max({t.end_time : t \in mine})),
      turn_count    |-> Cardinality(mine),
      call_count    |-> MapThenSumSet(LAMBDA t : t.call_count, mine)]

SessionItem(rows, x) ==
  [source_id |-> x.key[1], session_id |-> x.key[2], last_turn_at_in_window |-> Ms(x.last),
   lifetime |-> SessionAggregate(rows, x.key)]

\* One row more than the page says whether another page follows.
SessionPage(items, more) ==
  [ok |-> TRUE, items |-> items,
   next_cursor |-> IF ~more \/ items = <<>> THEN Null
                   ELSE encode_session_cursor([last_turn_at_ms |-> Last(items).last_turn_at_in_window,
                                               source_id |-> Last(items).source_id,
                                               session_id |-> Last(items).session_id])]

DuckSessions(T, q) ==
  LET keys == Descending(AfterCursor(SessionKeys(T, q), q.cursor))
  IN SessionPage(SeqMap(LAMBDA x : SessionItem(T, x), Slice(keys, 0, q.page_size)), Len(keys) > q.page_size)

ChSessions(T, q) ==
  LET keys == Descending(AfterCursor(SessionKeys(Final(T), q), q.cursor))
  IN SessionPage(SeqMap(LAMBDA x : SessionItem(Final(T), x), Slice(keys, 0, q.page_size)), Len(keys) > q.page_size)

\* AgLake folds the turns it can read: at most MaxSessionsScan of them, which
\* ones is the store's choice.
session_aggregates(T, ids) ==
  CHOOSE S \in AnyOf({t \in T : t.session_id \in ids}, MaxSessionsScan) : TRUE

\* AgLake: the window reaches back by the trace skew, because events are
\* stored at their start; too many sessions is an error, and a session whose
\* turns the fold missed is left out.
LakeSessions(T, q) ==
  LET rows == {t \in T : q.time_range.start - TraceSkew <= t.start_time /\ t.start_time < q.time_range.end}
      all  == SessionKeys(rows, q)
      keys == Descending(AfterCursor(all, q.cursor))
      page == Slice(keys, 0, q.page_size)
      life == session_aggregates(T, {page[i].key[2] : i \in DOMAIN page})
      kept == SelectSeq(page, LAMBDA x : \E t \in life : SessionOf(t) = x.key)
  IN IF Cardinality(all) >= MaxSessionsScan THEN [ok |-> FALSE, items |-> <<>>, next_cursor |-> Null]
     ELSE SessionPage(SeqMap(LAMBDA x : SessionItem(life, x), kept), Len(keys) > q.page_size)

DuckSessionById(T, k) == IF \E t \in T : SessionOf(t) = k THEN SessionAggregate(T, k) ELSE Null

ChSessionById(T, k) == DuckSessionById(Final(T), k)

LakeSessionById(T, k) == DuckSessionById(session_aggregates({t \in T : t.source_id = k[1]}, {k[2]}), k)
-----------------------------------------------------------------------------
(* The turns of one session, newest first. *)

TurnOrder(t) == <<t.start_time, t.turn_id>>

SessionTurns(rows, q) ==
  SetToSortSeq({t \in rows : /\ SessionOf(t) = q.key
                             /\ \/ q.cursor = Null
                                \/ CursorLess(TurnOrder(t), <<q.cursor.start_time_us, q.cursor.turn_id>>)},
               LAMBDA a, b : CursorLess(TurnOrder(b), TurnOrder(a)))

TurnPage(seq, n, startOf(_)) ==
  LET items == Slice(seq, 0, n)
  IN [items |-> SeqMap(LAMBDA t : t.turn_id, items),
      next_cursor |-> IF Len(seq) <= n \/ items = <<>> THEN Null
                      ELSE encode_session_turns_cursor([start_time_us |-> startOf(Last(items)),
                                                        turn_id |-> Last(items).turn_id])]

\* The SQL backends rebuild the cursor from the item's milliseconds.
DuckSessionTraces(T, q) == TurnPage(SessionTurns(T, q), q.page_size, LAMBDA t : MsToUs(Ms(t.start_time)))

ChSessionTraces(T, q) == TurnPage(SessionTurns(Final(T), q), q.page_size, LAMBDA t : MsToUs(Ms(t.start_time)))

\* AgLake fetches the newest rows and drops the ones at or before the cursor
\* afterwards; with a cursor it fetches one page more.
LakeSessionTraces(T, q) ==
  LET fetch == IF q.cursor = Null THEN q.page_size + 1 ELSE 2 * q.page_size + 1
      top   == SetToSortSeq({t \in T : SessionOf(t) = q.key},
                            LAMBDA a, b : CursorLess(Append(TurnOrder(b), b.copy), Append(TurnOrder(a), a.copy)))
      kept  == SelectSeq(Slice(top, 0, fetch),
                         LAMBDA t : q.cursor = Null \/ CursorLess(TurnOrder(t), <<q.cursor.start_time_us, q.cursor.turn_id>>))
  IN TurnPage(kept, q.page_size, LAMBDA t : t.start_time)
-----------------------------------------------------------------------------
(* Walking a paged list to its end, as the console does. *)

\* All items of at most `fuel` pages; Fetch(cursor) is one page.
Walk(Fetch(_), decode(_), fuel) ==
  LET step[n \in 0..fuel] ==
        IF n = 0 THEN LET p == Fetch(Null) IN [items |-> p.items, cur |-> p.next_cursor, last |-> p.items]
        ELSE LET prev == step[n - 1]
             IN IF prev.cur = Null THEN prev
                ELSE LET p == Fetch(decode(prev.cur))
                     IN [items |-> prev.items \o p.items, cur |-> p.next_cursor, last |-> p.items]
  IN step[fuel]

NoDuplicates(s) == Cardinality(ToSet(s)) = Len(s)
=============================================================================
