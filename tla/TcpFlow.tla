------------------------------ MODULE TcpFlow ------------------------------
(***************************************************************************)
(* TcpFlow::push of server/h-protocol/src/tcp.rs for the packets of one    *)
(* flow key, with the removal of a closed flow by FlowWorker.  The tap     *)
(* reads a script of packets in the order the two hosts sent them and may  *)
(* lose, truncate, delay or repeat any of them.                            *)
(***************************************************************************)
EXTENDS TcpDirState, HttpParser

\* What a tap may record of this flow key: the packets in the order they were
\* sent, how many earlier ones a packet may overtake, how many the tap may miss
\* or cut short, and which ones may be retransmitted.
CONSTANT Captures

Dirs == {"AtoB", "BtoA"}

ASSUME CaptureAssumption ==
    \A c \in Captures : /\ c.delay \in Nat /\ c.maxLost \in Nat /\ c.maxTrunc \in Nat
                        /\ c.repeatable \subseteq DOMAIN c.pkts

VARIABLES
    capture,   \* the capture at hand
    flow,      \* the TcpFlow of this key
    seenPkts,  \* indexes of the packets delivered or lost
    lost,      \* indexes the tap missed
    cut,       \* indexes captured truncated
    repeated,  \* indexes captured twice
    out        \* history: the HttpParseEvents emitted

tapVars == <<capture, flow, seenPkts, lost, cut, repeated, out>>

\* TcpFlow::new.
NewTcpFlow ==
    [state |-> "Init", client |-> Nil, synced |-> FALSE,
     dir |-> [d \in Dirs |-> NewDir], parser |-> NewParser]

Server(f) == IF f.client = "AtoB" THEN "BtoA" ELSE "AtoB"

\* looks_like_http_request on a payload.
LooksLikeRequest(bytes) == bytes # <<>> /\ Head(bytes).k = "rq"

\* A pure function of push returns the flow and the events it emits.
Result(f, events) == [f |-> f, out |-> events]

\* The shape shared by every resync site: both directions and the parser.
Resync(f, synced) ==
    [f EXCEPT !.synced = synced, !.parser = NewParser,
              !.dir = [d \in Dirs |-> Resynced(f.dir[d])]]

\* try_parse_http: what the parser left in the buffers is kept unless it asks
\* for a resync.
Parsed(f, a) ==
    Result(IF a.res = "NeedResync" THEN Resync(f, FALSE)
           ELSE [f EXCEPT !.parser = a.p,
                          !.dir = [@ EXCEPT ![f.client].buf = a.cb, ![Server(f)].buf = a.sb]],
           a.out)

TryParseHttp(f) ==
    Parsed(f, Parse(f.parser, f.dir[f.client].buf, f.dir[Server(f)].buf))

AppendAndParse(f, pkt) ==
    TryParseHttp([f EXCEPT !.dir[pkt.dir] = AppendPayload(@, pkt.seq, pkt.bytes)])

\* finish_pending_response.
Finished(f, r) == Result([f EXCEPT !.parser = r.p, !.dir[Server(f)].buf = r.sb], r.out)

FinishPending(f) ==
    IF f.client = Nil THEN Result(f, <<>>)
    ELSE Finished(f, FinishResponse(f.parser, f.dir[Server(f)].buf))

\* The state after the FIN rule, then after the first-data rule.
AfterFin(state, pkt) ==
    IF pkt.flag # "fin" THEN state
    ELSE IF state = "Closing" THEN "Closed" ELSE "Closing"

AfterData(state, pkt) ==
    IF state \in {"Init", "SynSent"} /\ pkt.bytes # <<>> THEN "Established" ELSE state

\* The flow a payload is appended to: an unsynced one and one that awaits a
\* response when its client sends a request are reset first.
Prepared(f, pkt) ==
    IF ~f.synced THEN [Resync(f, TRUE) EXCEPT !.client = pkt.dir]
    ELSE IF /\ f.client = pkt.dir
            /\ IsWaitingForResponse(f.parser)
            /\ LooksLikeRequest(pkt.bytes)
         THEN Resync(f, TRUE)
         ELSE f

\* The payload part of push_inner; an unsynced flow discards all but a request.
PushPayload(f, pkt) ==
    IF pkt.bytes = <<>> \/ (~f.synced /\ ~LooksLikeRequest(pkt.bytes))
    THEN Result(f, <<>>)
    ELSE AppendAndParse(Prepared(f, pkt), pkt)

\* A closing flow's response is flushed after the payload.
FlushedResponse(p, e) == Result(e.f, p.out \o e.out)

AfterPayload(p) ==
    IF p.f.state \in {"Closing", "Closed"} THEN FlushedResponse(p, FinishPending(p.f)) ELSE p

\* A segment without SYN or RST; the truncation guard returns before the flush.
PushSegment(f, pkt, truncated) ==
    IF truncated THEN Result(Resync(f, FALSE), <<>>) ELSE AfterPayload(PushPayload(f, pkt))

\* push_inner.
Push(f, pkt, truncated) ==
    CASE pkt.flag = "rst" -> FinishPending([f EXCEPT !.state = "Closed"])
      [] pkt.flag = "syn" ->
            Result([f EXCEPT !.state = "SynSent", !.client = pkt.dir, !.synced = TRUE,
                             !.dir[pkt.dir] = SynSeen(@, pkt.seq)], <<>>)
      [] pkt.flag = "synack" ->
            Result([f EXCEPT !.state = "Established",
                             !.dir[pkt.dir] = SynSeen(@, pkt.seq)], <<>>)
      [] OTHER -> PushSegment([f EXCEPT !.state = AfterData(AfterFin(@, pkt), pkt)], pkt, truncated)

\* A closed flow leaves the table, so the next packet of its key meets a new one.
Commit(r) ==
    /\ flow' = IF r.f.state = "Closed" THEN NewTcpFlow ELSE r.f
    /\ out' = out \o r.out

\* FlowWorker::process_packet.
ProcessPacket(pkt, truncated) == Commit(Push(flow, pkt, truncated))

-----------------------------------------------------------------------------
script == capture.pkts

TapInit ==
    /\ capture \in Captures
    /\ flow = NewTcpFlow
    /\ seenPkts = {} /\ lost = {} /\ cut = {} /\ repeated = {}
    /\ out = <<>>

\* The earlier packets that packet i overtakes when it is captured now.
Overtaken(i) == (1..(i - 1)) \ seenPkts

\* The capture order: data segments of one direction overtake each other within
\* the bound, the two directions stay in step, and SYN, FIN and RST keep their
\* place (what goes wrong otherwise is listed among the hazards).
Due(i) ==
    /\ i \in DOMAIN script \ seenPkts
    /\ Cardinality(Overtaken(i)) =< capture.delay
    /\ \A j \in Overtaken(i) : /\ script[j].dir = script[i].dir
                               /\ script[j].flag = "data" /\ script[i].flag = "data"

Deliver(i) ==
    /\ Due(i)
    /\ ProcessPacket(script[i], FALSE)
    /\ seenPkts' = seenPkts \cup {i}
    /\ UNCHANGED <<capture, lost, cut, repeated>>

DeliverTruncated(i) ==
    /\ Due(i) /\ script[i].bytes # <<>>
    /\ Cardinality(cut) < capture.maxTrunc
    /\ ProcessPacket(script[i], TRUE)
    /\ seenPkts' = seenPkts \cup {i}
    /\ cut' = cut \cup {i}
    /\ UNCHANGED <<capture, lost, repeated>>

Lose(i) ==
    /\ Due(i)
    /\ Cardinality(lost) < capture.maxLost
    /\ seenPkts' = seenPkts \cup {i}
    /\ lost' = lost \cup {i}
    /\ UNCHANGED <<capture, flow, cut, repeated, out>>

\* A retransmission: a packet already captured is captured once more.
Repeat(i) ==
    /\ i \in seenPkts \ (lost \cup cut \cup repeated)
    /\ i \in capture.repeatable
    /\ ProcessPacket(script[i], FALSE)
    /\ repeated' = repeated \cup {i}
    /\ UNCHANGED <<capture, seenPkts, lost, cut>>

TapNext == \E i \in DOMAIN script : Deliver(i) \/ DeliverTruncated(i) \/ Lose(i) \/ Repeat(i)

TapSpec == TapInit /\ [][TapNext]_tapVars

-----------------------------------------------------------------------------
(* What was sent, as the script has it.                                     *)

Units == UNION {Range(script[i].bytes) : i \in DOMAIN script}

Calls == {<<u.c, u.n>> : u \in {v \in Units : v.k = "rs"}}

\* Body units of the message that `head' opens, without the terminal chunk.
BodyOf(head) ==
    {u \in Units : u.side = head.side /\ u.c = head.c /\ u.n = head.n /\ u.k \in {"b", "c"}}

\* The call was captured whole: no packet with a unit of it is missing or short.
CapturedWhole(call) ==
    \A i \in lost \cup cut : \A u \in Range(script[i].bytes) : <<u.c, u.n>> # call

Ended == seenPkts = DOMAIN script

IsMessage(e) == e.t \in {"request", "response"}

\* The call an event belongs to.
CallOf(e) == IF IsMessage(e) THEN <<e.head.c, e.head.n>> ELSE <<e.unit.c, e.unit.n>>

\* The events of a call as they must be: the request with its body, the SSE
\* events in stream order, the response with its body, and nothing between.
Emitted(call) ==
    \E i, j \in DOMAIN out :
        /\ i < j
        /\ out[i].t = "request" /\ out[j].t = "response"
        /\ \A k \in i..j : CallOf(out[k]) = call
        /\ \A k \in (i + 1)..(j - 1) : out[k].t = "sse"
        /\ Range(out[i].body) = BodyOf(out[i].head)
        /\ IF out[j].head.sse
           THEN {out[k].unit : k \in (i + 1)..(j - 1)} = BodyOf(out[j].head)
           ELSE Range(out[j].body) = BodyOf(out[j].head)

-----------------------------------------------------------------------------
EventsAreContiguous ==
    \A k \in DOMAIN out : IsMessage(out[k]) =>
        \A i \in DOMAIN out[k].body :
            /\ out[k].body[i].side = out[k].head.side
            /\ out[k].body[i].c = out[k].head.c
            /\ out[k].body[i].pos = out[k].head.pos + i

PairedInOrder ==
    \A k \in DOMAIN out : out[k].t # "request" =>
        \E i \in 1..(k - 1) :
            /\ out[i].t = "request" /\ CallOf(out[i]) = CallOf(out[k])
            /\ \A j \in (i + 1)..k : out[j].t # "request"

EmittedOnce ==
    \A i, j \in DOMAIN out :
        IsMessage(out[i]) /\ out[i].t = out[j].t /\ CallOf(out[i]) = CallOf(out[j]) => i = j

\* Every emitted message is one run of one connection's stream: its body units
\* follow its head in the order they were sent, however the packets arrived
\* (append_payload, drain_ooo, parse, finish_response).  A response, and an SSE
\* event, follows the request it answers: the newest request emitted before it
\* is its own (what HttpJoiner relies on).  No message is emitted twice.
MessagesSound == EventsAreContiguous /\ PairedInOrder /\ EmittedOnce

\* Truncation costs the truncated call only: when the capture ends, every call
\* whose packets were all captured whole has been emitted whole, reordering,
\* repetition and resynchronisation notwithstanding (truncation guard, push_inner).
BoundedLoss ==
    Ended /\ lost = {} => \A call \in Calls : CapturedWhole(call) => Emitted(call)

\* A packet all of whose bytes were buffered before produces no event.
RetransmissionsIgnored == [][repeated' # repeated => out' = out]_tapVars

=============================================================================
