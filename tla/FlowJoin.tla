------------------------------ MODULE FlowJoin ------------------------------
(***************************************************************************)
(* One shard's flow table and request/response joiner: FlowWorker of       *)
(* server/h-protocol/src/tcp.rs feeding HttpJoiner of                      *)
(* server/h-protocol/src/joiner.rs.  A flow is reduced to where its parser *)
(* is (module TcpFlow has the rest); the two sweeps, each with its own     *)
(* timeout, are driven by the event time of the flow's own source.         *)
(*                                                                         *)
(* The events of one input cross a FIFO channel to the joiner, which has   *)
(* no other input and no state anybody else reads, so they are joined in   *)
(* the step that emits them.                                               *)
(***************************************************************************)
EXTENDS Integers, FiniteSets

CONSTANTS
    Sources,          \* capture source ids
    Conns,            \* connections (5-tuples) of a source
    CleanupInterval,  \* CLEANUP_INTERVAL_US
    FlowTimeout,      \* FLOW_TIMEOUT_US
    PendingStale,     \* PENDING_STALE_TIMEOUT_US
    MaxTime,          \* bound: largest event time
    MaxCalls,         \* bound: requests parsed
    MaxSse,           \* bound: SSE events of one response
    None              \* Rust's Option::None

ASSUME TimeoutAssumption ==
    /\ CleanupInterval \in Nat \ {0} /\ FlowTimeout \in Nat /\ PendingStale \in Nat
    /\ FlowTimeout + CleanupInterval =< PendingStale
    /\ MaxTime \in Nat /\ MaxCalls \in Nat /\ MaxSse \in Nat

FlowKeys == Sources \X Conns

SourceOf(f) == f[1]

Places == {"WaitingForRequest", "WaitingForResponse", "ReadingResponseBody"}

Flow == [at: Places, last: Nat, call: Nat, sse: Nat]

Pending == [call: Nat, sse: Nat, last: Nat]

\* None is no record (Option::None).
ASSUME NoneAssumption == None \notin Flow \cup Pending

Exchange == [flow: FlowKeys, request: Nat, response: Nat, sse: Nat, sent: Nat]

VARIABLES
    flows,        \* FlowWorker.flows: None or a Flow; call and sse are what was parsed
    lastCleanup,  \* FlowWorker.last_cleanup_by_source
    pending,      \* HttpJoiner.pending
    clock,        \* newest event time of each source
    ncalls,       \* requests parsed so far
    beat,         \* history: newest heartbeat handled, by source
    exchanges,    \* history: the Exchange events sent downstream
    expired       \* history: what the last heartbeat evicted from pending

vars == <<flows, lastCleanup, pending, clock, ncalls, beat, exchanges, expired>>

\* Deviation: a new flow has no parser yet.
NewFlow_NoParser(now) == [at |-> None, last |-> now, call |-> 0, sse |-> 0]

NewFlow(now) == [at |-> "WaitingForRequest", last |-> now, call |-> 0, sse |-> 0]

\* HashMap::entry(..).or_insert_with, and last_pkt_ts of the packet.
Touched(f, now) == IF flows[f] = None THEN NewFlow(now) ELSE [flows[f] EXCEPT !.last = now]

-----------------------------------------------------------------------------
(* maybe_cleanup_stale_flows.                                               *)

\* Deviation: the sweep waits one tick more than the interval.
CleanupDue_Strict(s, now) == now - lastCleanup[s] > CleanupInterval

CleanupDue(s, now) == now - lastCleanup[s] >= CleanupInterval

\* Deviation: every source's flows are measured against this source's clock.
TimedOut_AllSources(tab, s, now) ==
    IF ~CleanupDue(s, now) THEN {}
    ELSE {f \in FlowKeys : tab[f] # None /\ now - tab[f].last > FlowTimeout}

\* The flows the sweep removes from the table `tab'.
TimedOut(tab, s, now) ==
    IF ~CleanupDue(s, now) THEN {}
    ELSE {f \in FlowKeys : SourceOf(f) = s /\ tab[f] # None /\ now - tab[f].last > FlowTimeout}

\* The ones whose response finish_pending_response flushes on the way out.
Flushed(tab, gone) == {f \in gone : tab[f].at = "ReadingResponseBody"}

CleanupNoted(s, now) ==
    IF CleanupDue(s, now) THEN [lastCleanup EXCEPT ![s] = now] ELSE lastCleanup

Removed(tab, gone) == [f \in FlowKeys |-> IF f \in gone THEN None ELSE tab[f]]

-----------------------------------------------------------------------------
(* HttpJoiner.                                                              *)

\* on_response: the pending request and its SSE events leave with the response.
Paired(tab, pend, responding) ==
    {[flow |-> f, request |-> pend[f].call, response |-> tab[f].call,
      sse |-> pend[f].sse, sent |-> tab[f].sse] :
        f \in {g \in responding : pend[g] # None}}

AfterResponses(pend, responding) ==
    [f \in FlowKeys |-> IF f \in responding THEN None ELSE pend[f]]

\* Deviation: a request is only recorded when nothing is pending on its flow.
OnRequest_KeepsOld(f, call, now) ==
    IF pending[f] # None THEN pending
    ELSE [pending EXCEPT ![f] = [call |-> call, sse |-> 0, last |-> now]]

\* on_request: a pending request without a response is overwritten, stale or not.
OnRequest(f, call, now) ==
    [pending EXCEPT ![f] = [call |-> call, sse |-> 0, last |-> now]]

\* on_sse.
OnSse(f, now) ==
    IF pending[f] = None THEN pending
    ELSE [pending EXCEPT ![f].sse = @ + 1,
                         ![f].last = IF now > @ THEN now ELSE @]

\* cleanup_stale.
StalePending(pend, s, now) ==
    {f \in FlowKeys : SourceOf(f) = s /\ pend[f] # None /\ now - pend[f].last > PendingStale}

-----------------------------------------------------------------------------
Init ==
    /\ flows = [f \in FlowKeys |-> None]
    /\ lastCleanup = [s \in Sources |-> 0]
    /\ pending = [f \in FlowKeys |-> None]
    /\ clock = [s \in Sources |-> 0]
    /\ ncalls = 0
    /\ beat = [s \in Sources |-> 0]
    /\ exchanges = {}
    /\ expired = {}

\* The rest of process_packet once the flow's own packet has been parsed: `tab'
\* is the table with the packet applied, `pend' the joiner after its request or
\* SSE event, `responding' the flow if the packet ended a response, `closed' the
\* flow if the packet closed it.
Processed(f, tab, pend, responding, closed) ==
    LET s == SourceOf(f)
        now == clock[s]
        kept == Removed(tab, closed)
        gone == TimedOut(kept, s, now)
        answered == responding \cup Flushed(kept, gone)
    IN  /\ flows' = Removed(kept, gone)
        /\ lastCleanup' = CleanupNoted(s, now)
        /\ pending' = AfterResponses(pend, answered)
        /\ exchanges' = exchanges \cup Paired(tab, pend, answered)
        /\ expired' = {}
        /\ UNCHANGED <<clock, beat>>

\* The last packet of a request: also while a response is awaited (resync).
RequestPacket(f) ==
    /\ ncalls < MaxCalls
    /\ ncalls' = ncalls + 1
    /\ LET now == clock[SourceOf(f)]
           tab == [flows EXCEPT ![f] = [at |-> "WaitingForResponse", last |-> now,
                                        call |-> ncalls', sse |-> 0]]
       IN  Processed(f, tab, OnRequest(f, ncalls', now), {}, {})

At(f, place) == flows[f] # None /\ flows[f].at = place

\* A response head.
ResponseHeadPacket(f) ==
    /\ At(f, "WaitingForResponse")
    /\ Processed(f, [flows EXCEPT ![f] = [Touched(f, clock[SourceOf(f)])
                                          EXCEPT !.at = "ReadingResponseBody"]],
                 pending, {}, {})
    /\ UNCHANGED ncalls

\* A packet that completes an SSE event.
SsePacket(f) ==
    /\ At(f, "ReadingResponseBody") /\ flows[f].sse < MaxSse
    /\ Processed(f, [flows EXCEPT ![f] = [Touched(f, clock[SourceOf(f)]) EXCEPT !.sse = @ + 1]],
                 OnSse(f, clock[SourceOf(f)]), {}, {})
    /\ UNCHANGED ncalls

\* The last packet of a response on a connection that stays open.
ResponseEndPacket(f) ==
    /\ At(f, "ReadingResponseBody")
    /\ Processed(f, [flows EXCEPT ![f] = [Touched(f, clock[SourceOf(f)])
                                          EXCEPT !.at = "WaitingForRequest"]],
                 pending, {f}, {})
    /\ UNCHANGED ncalls

\* Any packet that emits nothing: an ACK, body bytes, an SSE comment, bytes of a
\* flow that is not synced.
QuietPacket(f) ==
    /\ Processed(f, [flows EXCEPT ![f] = Touched(f, clock[SourceOf(f)])], pending, {}, {})
    /\ UNCHANGED ncalls

\* An RST, or the second FIN: a response being read is flushed, the flow removed.
ClosingPacket(f) ==
    LET tab == [flows EXCEPT ![f] = Touched(f, clock[SourceOf(f)])]
    IN  /\ flows[f] # None
        /\ Processed(f, tab, pending, Flushed(tab, {f}), {f})
        /\ UNCHANGED ncalls

\* Deviation: the heartbeat reaches the joiner ahead of the flushed responses.
Heartbeat_EvictsFirst(s) ==
    LET now == clock[s]
        gone == TimedOut(flows, s, now)
        answered == Flushed(flows, gone)
        stale == StalePending(pending, s, now)
        kept == [f \in FlowKeys |-> IF f \in stale THEN None ELSE pending[f]]
    IN  /\ flows' = Removed(flows, gone)
        /\ lastCleanup' = CleanupNoted(s, now)
        /\ pending' = AfterResponses(kept, answered)
        /\ exchanges' = exchanges \cup Paired(flows, kept, answered)
        /\ expired' = stale
        /\ beat' = [beat EXCEPT ![s] = now]
        /\ UNCHANGED <<clock, ncalls>>

\* process_heartbeat, then the joiner's cleanup_stale: the sweep's responses are
\* sent before the heartbeat itself.
Heartbeat(s) ==
    LET now == clock[s]
        gone == TimedOut(flows, s, now)
        answered == Flushed(flows, gone)
        joined == AfterResponses(pending, answered)
        stale == StalePending(joined, s, now)
    IN  /\ flows' = Removed(flows, gone)
        /\ lastCleanup' = CleanupNoted(s, now)
        /\ pending' = [f \in FlowKeys |-> IF f \in stale THEN None ELSE joined[f]]
        /\ exchanges' = exchanges \cup Paired(flows, pending, answered)
        /\ expired' = stale
        /\ beat' = [beat EXCEPT ![s] = now]
        /\ UNCHANGED <<clock, ncalls>>

\* The source's capture moves on; heartbeats of the time in between may be lost
\* (broadcast by try_send).
Tick(s) ==
    /\ clock[s] < MaxTime
    /\ clock' = [clock EXCEPT ![s] = @ + 1]
    /\ UNCHANGED <<flows, lastCleanup, pending, ncalls, beat, exchanges>>
    /\ expired' = {}

Next ==
    \/ \E f \in FlowKeys :
          \/ RequestPacket(f) \/ ResponseHeadPacket(f) \/ SsePacket(f)
          \/ ResponseEndPacket(f) \/ QuietPacket(f) \/ ClosingPacket(f)
    \/ \E s \in Sources : Heartbeat(s) \/ Tick(s)

Spec == Init /\ [][Next]_vars

-----------------------------------------------------------------------------
\* Type invariant.
TypeOK ==
    /\ flows \in [FlowKeys -> Flow \cup {None}]
    /\ lastCleanup \in [Sources -> Nat]
    /\ pending \in [FlowKeys -> Pending \cup {None}]
    /\ clock \in [Sources -> Nat]
    /\ ncalls \in Nat
    /\ beat \in [Sources -> Nat]
    /\ exchanges \subseteq Exchange
    /\ expired \subseteq FlowKeys

\* An exchange joins a response with the request it answers and with exactly the
\* SSE events parsed for it, whatever was overwritten, flushed or evicted before
\* (on_request, on_sse, on_response).
ExchangeIsWhole ==
    \A x \in exchanges : x.request = x.response /\ x.sse = x.sent

\* No flow outlives its timeout by a whole cleanup interval: at a heartbeat
\* every flow still in the table has been seen since, throttle included
\* (maybe_cleanup_stale_flows).
FlowsCollected ==
    \A f \in FlowKeys : flows[f] # None =>
        beat[SourceOf(f)] - flows[f].last < FlowTimeout + CleanupInterval

\* Nothing stale survives a heartbeat of its source in the joiner (cleanup_stale).
PendingCollected ==
    \A f \in FlowKeys : pending[f] # None => beat[SourceOf(f)] - pending[f].last =< PendingStale

\* Neither table outgrows its timeouts: what FlowsCollected says of the flows
\* and PendingCollected of the unanswered requests.
CollectedInTime == FlowsCollected /\ PendingCollected

\* A response that was being read when its connection fell silent is not lost:
\* the joiner never evicts its request, because the flow's own timeout flushes
\* the response first.  Evicted are only requests that were never answered, and
\* responses whose flow kept sending packets that are no SSE events.
SilenceIsFlushed ==
    [][\A f \in expired' :
          ~(At(f, "ReadingResponseBody") /\ flows[f].last = pending[f].last)]_vars

\* A step leaves the flows and the pending requests of all sources but one
\* alone: no source's clock, however far ahead, ages another source's traffic.
SourcesAreIndependent ==
    [][\A f, g \in FlowKeys : SourceOf(f) # SourceOf(g) =>
          \/ flows'[f] = flows[f] /\ pending'[f] = pending[f]
          \/ flows'[g] = flows[g] /\ pending'[g] = pending[g]]_vars

=============================================================================
