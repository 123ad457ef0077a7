---------------------------- MODULE StorageRows ----------------------------
(***************************************************************************)
(* What the three storage backends share: time windows, multi-select       *)
(* filters, paging cursors and the value conversions of h-storage.         *)
(*                                                                         *)
(* A table is a set of row records.  Ids are integers, because paging      *)
(* compares them; every other name is opaque.  A row carries `copy`, so    *)
(* that a row stored twice is two elements of its table.  Times are        *)
(* microseconds, of which TicksPerMs make a millisecond: small enough that *)
(* two instants of one millisecond occur in a small instance.              *)
(***************************************************************************)
EXTENDS Integers, FiniteSets, Sequences, SequencesExt

CONSTANTS Null,        \* SQL NULL, Rust None
          Star,        \* the '*' of a rolled-up dimension
          TicksPerMs   \* ticks of the model's clock in one millisecond

ASSUME StorageTicks == TicksPerMs \in Nat \ {0}

\* epoch_ms / toUnixTimestamp64Milli / ms(): what the API shows of an instant.
Ms(us) == us \div TicksPerMs

MsToUs(ms) == ms * TicksPerMs

\* start <= t < end.
InRange(t, w) == w.start <= t /\ t < w.end

\* A multi-select filter: an empty list filters nothing.
Admits(list, v) == list = {} \/ v \in list

Failed == [ok |-> FALSE, total |-> 0, items |-> <<>>]

Page(total, items) == [ok |-> TRUE, total |-> total, items |-> items]

\* LIMIT size OFFSET (page - 1) * size; pages count from 1 and 0 means 1.
Offset(page, size) == (IF page = 0 THEN 0 ELSE page - 1) * size

Slice(s, offset, size) ==
  SubSeq(s, offset + 1, IF offset + size > Len(s) THEN Len(s) ELSE offset + size)

\* The orders an engine may return when `before` leaves ties.
OrdersOf(rows, before(_, _)) ==
  {s \in SetToSeqs(rows) : \A i, j \in DOMAIN s : before(s[i], s[j]) => i < j}

SeqMap(f(_), s) == [i \in DOMAIN s |-> f(s[i])]
-----------------------------------------------------------------------------
(* Conversions. *)

\* Whether a row's tokens come from the estimator: it has tokens, and its
\* response body is missing, is not JSON, or holds no usage that counts.
derive_tokens_estimated(input_tokens, output_tokens, body) ==
  /\ input_tokens \notin {Null, 0} \/ output_tokens \notin {Null, 0}
  /\ body # "usage"

\* A list column: a missing or malformed value reads as no elements.
parse_json_string_list(raw) == IF raw = Null THEN <<>> ELSE raw

\* The proxy fields of a trace's metadata; absent on a direct turn.
extract_proxy_fields(metadata) ==
  IF metadata = Null \/ "proxy" \notin DOMAIN metadata
    THEN [role |-> Null, peers |-> Null]
    ELSE [role |-> metadata["proxy"].role, peers |-> metadata["proxy"].peers]

HiddenRoles == {"proxy_out", "mirror_secondary"}

read_process(pid, comm) ==
  IF pid = Null THEN Null ELSE [pid |-> pid, comm |-> comm]
-----------------------------------------------------------------------------
(* Cursors.  The text a client gets back is a JSON object in hex; a text    *)
(* of any other shape decodes to None.                                      *)

CursorLess(a, b) ==
  \E i \in 1..Len(a) : a[i] < b[i] /\ \A j \in 1..(i - 1) : a[j] = b[j]

encode_session_cursor(c) == [t |-> c.last_turn_at_ms, s |-> c.source_id, k |-> c.session_id]

decode_session_cursor(x) ==
  IF DOMAIN x # {"t", "s", "k"} THEN Null
    ELSE [last_turn_at_ms |-> x.t, source_id |-> x.s, session_id |-> x.k]

encode_session_turns_cursor(c) == [t |-> c.start_time_us, k |-> c.turn_id]

decode_session_turns_cursor(x) ==
  IF DOMAIN x # {"t", "k"} THEN Null
    ELSE [start_time_us |-> x.t, turn_id |-> x.k]
=============================================================================
