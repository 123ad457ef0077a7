------------------------------- MODULE HecClient -------------------------------
(***************************************************************************)
(* The write path of the aglake backend: `span_batch` turns a batch of    *)
(* calls into HEC events (a span event and, when there is anything to      *)
(* store, a body event), and HecClient posts them in chunks.  The daemon   *)
(* is external: what it does with a request is read off the outcomes       *)
(* HecClient handles (client.rs 28-70).                                    *)
(*                                                                         *)
(* The write buffer drops a batch whose flush failed, so every retry lives *)
(* here.  A request can be lost, answered too late, answered 500 after     *)
(* some indexes committed, or its answer can be lost; the ack question     *)
(* (one fresh channel per request) tells a committed request from one that *)
(* must be resent, except across a daemon restart.                         *)
(***************************************************************************)
EXTENDS Integers, Sequences, FiniteSets, SequencesExt

CONSTANTS
    Batches,        \* the batches a flush may hold: sequences of calls
    MaxEventBytes,  \* storage.aglake.max_event_bytes
    MaxBodyBytes,   \* storage.aglake.max_body_bytes
    DaemonLimits,   \* body sizes above which a daemon answers 413
    Retries,        \* storage.aglake.write_retries
    MaxRequestFaults       \* bound: requests that fail without a usable answer

VARIABLES
    limit,      \* the daemon's own body limit
    useAck,     \* config: ask the daemon before resending
    calls,      \* the batch being written
    events,     \* the events left after enforce_event_size, in order
    work,       \* the chunks still to send; the first is the current one
    hpc,        \* where the writer is
    stored,     \* stored[i]: copies of events[i] the daemon holds
    acked,      \* the daemon acknowledges ack id 0 of the current channel
    late,       \* requests the client gave up on and the daemon still holds
    refused,    \* events the daemon reported as malformed
    hfaults     \* which ways of losing an answer have happened

hvars == <<limit, useAck, calls, events, work, hpc, stored, acked, late, refused, hfaults>>

FaultKinds == {"lost", "lost200", "lost400", "partial500", "late", "ackLost", "restart"}

(* A call: `body` whether bodies or headers are stored for it, `fault` the *)
(* one thing that is wrong with it.                                        *)
CallType ==
    [id : Nat, body : BOOLEAN,
     fault : {"none", "encode", "badSpan", "badBody", "bigSpan", "bigBody"}]

ASSUME HecAssumption ==
    /\ Batches \subseteq Seq(CallType)
    /\ MaxEventBytes \in Nat /\ MaxBodyBytes \in Nat /\ Retries \in Nat

-----------------------------------------------------------------------------
(* rows.rs span_events: metadata always, a body event when there is one.   *)
SpanEvent(c) ==
    [id |-> c.id, ix |-> "spans", bad |-> c.fault = "badSpan",
     size |-> IF c.fault = "bigSpan" THEN MaxEventBytes + 1 ELSE 1]

BodyEvent(c) ==
    [id |-> c.id, ix |-> "bodies", bad |-> c.fault = "badBody",
     size |-> IF c.fault = "bigBody" THEN MaxEventBytes + 1 ELSE 2]

(* An event above the ceiling is dropped before anything is sent.          *)
enforce_event_size(e) == IF e.size <= MaxEventBytes THEN <<e>> ELSE <<>>

(* What a call contributes: a span that fails to encode takes its body     *)
(* along (calls.rs write_spans).                                           *)
span_events(c) ==
    IF c.fault = "encode" THEN <<>>
    ELSE enforce_event_size(SpanEvent(c))
         \o (IF c.body THEN enforce_event_size(BodyEvent(c)) ELSE <<>>)

\* Encoded(cs)[n]: the events of the first n calls.
Encoded(cs) ==
    LET Upto[n \in 0..Len(cs)] == IF n = 0 THEN <<>> ELSE Upto[n - 1] \o span_events(cs[n])
    IN Upto

span_batch(cs) == Encoded(cs)[Len(cs)]

(* A chunk is closed when the next event would take it past MaxBodyBytes;  *)
(* every chunk holds at least one event.  Chunks are [lo, hi) ranges.      *)
Chunk(lo, hi) == [lo |-> lo, hi |-> hi, attempt |-> 0]

NextEvent(p, i, n) ==
    IF p.acc + n > MaxBodyBytes /\ i > p.start
    THEN [start |-> i, acc |-> n, out |-> Append(p.out, Chunk(p.start, i))]
    ELSE [p EXCEPT !.acc = p.acc + n]

\* Chunked(evs)[i]: the chunks closed and the one open after i events.
Chunked(evs) ==
    LET Upto[i \in 0..Len(evs)] ==
            IF i = 0 THEN [start |-> 1, acc |-> 0, out |-> <<>>]
            ELSE NextEvent(Upto[i - 1], i, evs[i].size + 1)
    IN Upto

split_by_bytes(evs) ==
    LET last == Chunked(evs)[Len(evs)]
    IN IF last.start <= Len(evs) THEN Append(last.out, Chunk(last.start, Len(evs) + 1)) ELSE last.out

-----------------------------------------------------------------------------
(* The daemon (external).  A batch is ingested in order up to the first    *)
(* malformed event.                                                        *)
FirstBad(evs, lo, hi) ==
    LET bad == {i \in lo..(hi - 1) : evs[i].bad}
    IN IF bad = {} THEN hi ELSE CHOOSE i \in bad : \A j \in bad : i <= j

RangeBytes(evs, lo, hi) ==
    LET Sum[i \in lo..hi] == IF i = hi THEN 0 ELSE evs[i].size + Sum[i + 1] IN Sum[lo]

Commit(st, S) == [i \in DOMAIN st |-> IF i \in S THEN st[i] + 1 ELSE st[i]]

Fits(c) == RangeBytes(events, c.lo, c.hi) <= limit

-----------------------------------------------------------------------------
(* The client.                                                             *)
HecInit ==
    /\ limit \in DaemonLimits
    /\ useAck \in BOOLEAN
    /\ calls \in Batches
    /\ events = span_batch(calls)
    /\ work = split_by_bytes(events)
    /\ hpc = IF events = <<>> THEN "ok" ELSE "post"
    /\ stored = [i \in DOMAIN events |-> 0]
    /\ acked = FALSE
    /\ late = {}
    /\ refused = {}
    /\ hfaults = {}

(* The next chunk, or the end of `send` when there is none.                *)
Advance(rest) ==
    /\ work' = rest
    /\ hpc' = IF rest = <<>> THEN "ok" ELSE "post"

(* HecOutcome::Transient: one more attempt unless the budget is spent; the *)
(* error aborts every chunk still waiting.                                 *)
Transient ==
    IF Head(work).attempt + 1 > Retries
    THEN work' = <<>> /\ hpc' = "err"
    ELSE /\ work' = [work EXCEPT ![1].attempt = @ + 1]
         /\ hpc' = "post"

(* post: the request goes out on a freshly minted channel.                 *)
Post ==
    /\ hpc = "post"
    /\ hpc' = "sent"
    /\ acked' = FALSE
    /\ UNCHANGED <<limit, useAck, calls, events, work, stored, late, refused, hfaults>>

(* 200: everything is on disk.                                             *)
ReplyOk ==
    /\ hpc = "sent"
    /\ LET c == Head(work)
       IN /\ Fits(c)
          /\ FirstBad(events, c.lo, c.hi) = c.hi
          /\ stored' = Commit(stored, c.lo..(c.hi - 1))
    /\ acked' = TRUE
    /\ Advance(Tail(work))
    /\ UNCHANGED <<limit, useAck, calls, events, late, refused, hfaults>>

(* 400 with invalid-event-number k: the prefix is committed, event k is    *)
(* skipped and the rest of the chunk goes out next.                        *)
SkipRejected(c, k) ==
    IF k + 1 < c.hi THEN Advance(<<[c EXCEPT !.lo = k + 1]>> \o Tail(work))
    ELSE Advance(Tail(work))

Reply400 ==
    /\ hpc = "sent"
    /\ LET c == Head(work)
           k == FirstBad(events, c.lo, c.hi)
       IN /\ Fits(c) /\ k < c.hi
          /\ stored' = Commit(stored, c.lo..(k - 1))
          /\ refused' = refused \cup {k}
          /\ SkipRejected(c, k)
    /\ UNCHANGED <<limit, useAck, calls, events, acked, late, hfaults>>

(* 413: the range is halved, each half with a retry budget of its own; a   *)
(* single event cannot be split.                                           *)
Halves(c) ==
    LET half == (c.hi - c.lo + 1) \div 2
    IN <<Chunk(c.lo, c.lo + half), Chunk(c.lo + half, c.hi)>>

Reply413 ==
    /\ hpc = "sent"
    /\ LET c == Head(work)
       IN /\ ~Fits(c)
          /\ IF c.hi - c.lo = 1 THEN work' = <<>> /\ hpc' = "err"
             ELSE Advance(Halves(c) \o Tail(work))
    /\ UNCHANGED <<limit, useAck, calls, events, stored, acked, late, refused, hfaults>>

(* 401, 415 or a 400 of another kind: nothing was ingested and resending   *)
(* cannot help.                                                            *)
ReplyPermanent ==
    /\ hpc = "sent"
    /\ work' = <<>> /\ hpc' = "err"
    /\ UNCHANGED <<limit, useAck, calls, events, stored, acked, late, refused, hfaults>>

(* resolve_transient: with acks the client asks, without it resends.       *)
resolve_transient ==
    IF useAck THEN hpc' = "asking" /\ UNCHANGED work ELSE Transient

Faulty(kind) == Cardinality(hfaults) < MaxRequestFaults /\ hfaults' = hfaults \cup {kind}

(* The connection fails or the daemon answers 500, in each of the ways     *)
(* that leave the client without a usable answer: nothing was ingested;    *)
(* the whole batch was (and acknowledged); the prefix of a malformed batch *)
(* was; one index was and another was not; or the daemon still holds the   *)
(* request and will ingest it later.                                       *)
RequestFails ==
    /\ hpc = "sent"
    /\ LET c == Head(work)
           all == c.lo..(c.hi - 1)
           k == FirstBad(events, c.lo, c.hi)
       IN \/ /\ Faulty("lost")
             /\ UNCHANGED <<stored, acked, late>>
          \/ /\ Faulty("lost200") /\ Fits(c) /\ k = c.hi
             /\ stored' = Commit(stored, all) /\ acked' = TRUE
             /\ UNCHANGED late
          \/ /\ Faulty("lost400") /\ Fits(c) /\ k < c.hi /\ k > c.lo
             /\ stored' = Commit(stored, c.lo..(k - 1))
             /\ UNCHANGED <<acked, late>>
          \/ /\ Faulty("partial500") /\ Fits(c) /\ k = c.hi
             /\ \E ix \in {"spans", "bodies"} :
                  stored' = Commit(stored, {i \in all : events[i].ix = ix})
             /\ UNCHANGED <<acked, late>>
          \/ /\ Faulty("late") /\ Fits(c) /\ k = c.hi
             /\ late' = late \cup {c}
             /\ UNCHANGED <<stored, acked>>
    /\ resolve_transient
    /\ UNCHANGED <<limit, useAck, calls, events, refused>>

(* Deviation: the answer is not looked at and the request is resent.          *)
AckAnswer_ignored ==
    /\ hpc = "asking"
    /\ Transient
    /\ UNCHANGED <<limit, useAck, calls, events, stored, acked, late, refused, hfaults>>

(* ack_committed: only Some(true) suppresses the resend.                   *)
AckAnswer ==
    /\ hpc = "asking"
    /\ IF acked THEN Advance(Tail(work)) ELSE Transient
    /\ UNCHANGED <<limit, useAck, calls, events, stored, acked, late, refused, hfaults>>

AckLost ==
    /\ hpc = "asking"
    /\ Faulty("ackLost")
    /\ Transient
    /\ UNCHANGED <<limit, useAck, calls, events, stored, acked, late, refused>>

(* The daemon ingests a request its client no longer waits for.            *)
LateCommit ==
    /\ \E c \in late :
          /\ late' = late \ {c}
          /\ stored' = Commit(stored, c.lo..(c.hi - 1))
    /\ UNCHANGED <<limit, useAck, calls, events, work, hpc, acked, refused, hfaults>>

(* The daemon restarts: its ack table is process-local.                    *)
DaemonRestart ==
    /\ hpc \notin {"ok", "err"}
    /\ "restart" \notin hfaults
    /\ Faulty("restart")
    /\ acked' = FALSE
    /\ late' = {}
    /\ hpc' = hpc
    /\ UNCHANGED <<limit, useAck, calls, events, work, stored, refused>>

Writer ==
    \/ Post \/ ReplyOk \/ Reply400 \/ Reply413 \/ ReplyPermanent
    \/ RequestFails \/ AckAnswer \/ AckLost

HecNext == Writer \/ LateCommit \/ DaemonRestart

HecFairness == WF_hvars(Writer)

-----------------------------------------------------------------------------
HecTypeOK ==
    /\ useAck \in BOOLEAN
    /\ \A i \in DOMAIN calls : calls[i] \in CallType
    /\ hpc \in {"post", "sent", "asking", "ok", "err"}
    /\ \A w \in Range(work) : w.lo < w.hi /\ w.hi <= Len(events) + 1 /\ w.attempt <= Retries
    /\ DOMAIN stored = DOMAIN events
    /\ refused \subseteq DOMAIN events
    /\ hfaults \subseteq FaultKinds

(* A flush that reports success has every event on disk but the ones the   *)
(* daemon named as malformed: nothing is lost between the chunks, in the   *)
(* halves of a 413, behind a rejected event or on a retried request        *)
(* (client.rs send_chunk).                                                 *)
SuccessIsDurable ==
    hpc = "ok" => \A i \in DOMAIN events : stored[i] > 0 \/ i \in refused

(* With acks on, an event is stored twice only when one of the windows the *)
(* ack cannot see was hit: a restart, a 500 after part of the indexes, a   *)
(* request ingested after the client gave up on it, the lost answer to a   *)
(* partly malformed batch, or a lost answer to the ack question.           *)
DuplicateOnlyInAckGap ==
    (useAck /\ hfaults \subseteq {"lost", "lost200"}) => \A i \in DOMAIN events : stored[i] <= 1

(* A body on disk has its span on disk, unless that span itself was        *)
(* refused (malformed or above the size ceiling) or the daemon failed      *)
(* between two indexes (calls.rs: metadata is ordered before its body).    *)
OrphanBodyHasReason ==
    \A i \in DOMAIN events :
        (events[i].ix = "bodies" /\ stored[i] > 0) =>
            \/ \E j \in DOMAIN events :
                  /\ events[j].ix = "spans" /\ events[j].id = events[i].id
                  /\ stored[j] > 0 \/ events[j].bad
            \/ \E k \in DOMAIN calls : calls[k].id = events[i].id /\ calls[k].fault = "bigSpan"
            \/ "partial500" \in hfaults

(* Every flush returns: partial answers make progress and every other      *)
(* answer spends the retry budget.                                         *)
FlushReturns == <>(hpc \in {"ok", "err"})
=============================================================================
