------------------------------ MODULE Capture ------------------------------
(* The capture sources and the way to the flow workers: live capture with   *)
(* its reader thread and its waker, the cloud probe's batches, the replay   *)
(* of a file; each feeds the dumper and RoutingSender, and a FlowDispatcher *)
(* hands packets to workers by flow and heartbeats to all of them.  A send  *)
(* waits for room in its channel; how that back-pressure travels is in      *)
(* Pipeline, here the dispatchers' channels are unbounded.                  *)
EXTENDS PacketDump

CONSTANTS
  Interval,       \* HEARTBEAT_INTERVAL_US
  Margin,         \* SAFETY_MARGIN_US
  MaxPreempt,     \* how long the reader may lie between a timeout and its clock read
  LoopGap,        \* LOOP_GAP_US
  LiveId, FileId, \* source ids
  Route,          \* source id -> dispatcher: the hash of RoutingSender
  Shard,          \* flow -> worker: the hash of FlowDispatcher
  WorkerCap,      \* the bound of a worker's channel
  Batches,        \* what the probe receives: [uuid, pkts, truncated]
  FileStamps,     \* the time stamps of the packets in the file
  LoopCount, MaxPasses,
  MaxArrivals

(* RawPacket's fields.                                                      *)
Packets ==
  [source_id : Nat, timestamp_us : Nat \ {0}, link_type : Nat, src : {"a", "b", None} \cup UNION DOMAIN Shard,
   dst : {"a", "b", None} \cup UNION DOMAIN Shard, heartbeat : BOOLEAN]

(* The margin covers the delay it is there for, and is within an interval.  *)
ASSUME SourceAssumption ==
  /\ Interval \in Nat /\ Margin \in Nat /\ MaxPreempt \in Nat
  /\ MaxPreempt <= Margin /\ Margin < Interval
  /\ LiveId \in Nat /\ FileId \in Nat /\ LoopGap \in Nat /\ LoopCount \in Nat /\ None \notin Nat
  /\ FileStamps \in Seq(Nat \ {0})

(* What the probes send: batches of packets, the packets of each source in  *)
(* the order of their stamps.                                               *)
ASSUME ProbeAssumption ==
  /\ \A i \in 1..Len(Batches) : Batches[i].pkts \in Seq(Packets)
  /\ Len(Batches) \in Nat
  /\ \A i, j \in 1..Len(Batches) : \A a \in DOMAIN Batches[i].pkts, b \in DOMAIN Batches[j].pkts :
       /\ i < j \/ (i = j /\ a < b)
       /\ Batches[i].pkts[a].source_id = Batches[j].pkts[b].source_id
       => Batches[i].pkts[a].timestamp_us <= Batches[j].pkts[b].timestamp_us

VARIABLES
  live,        \* the live source: reader, ring, breakloop flag, waker
  probe,       \* the cloud-probe source and its HeartbeatTracker
  replay,      \* the file source
  sent,        \* everything sent to RoutingSender, in order
  dispatched,  \* per dispatcher, the last of it that was taken
  got,         \* per worker, what its channel was given, in order
  taken,       \* per worker, how much of it the worker took
  cancelled, closed

sourceVars == <<live, probe, replay, sent, dispatched, got, taken, cancelled, closed>>

Dispatchers == {Route[s] : s \in DOMAIN Route}
Workers == {Shard[f] : f \in DOMAIN Shard}

(* RawPacket; a heartbeat is a sentinel with no addresses.                  *)
Raw(s, ts, src, dst) ==
  [source_id |-> s, timestamp_us |-> ts, link_type |-> 1, src |-> src, dst |-> dst, heartbeat |-> FALSE]
Heartbeat(s, ts) == [Raw(s, ts, None, None) EXCEPT !.heartbeat = TRUE]

NoSource == [pc |-> "done"]
SourcesQuiet ==
  /\ sent = <<>> /\ dispatched = [d \in Dispatchers |-> 0]
  /\ got = [w \in Workers |-> <<>>] /\ taken = [w \in Workers |-> 0]
  /\ cancelled = FALSE /\ closed = FALSE

-----------------------------------------------------------------------------
(* Live capture.                                                            *)

LiveInit ==
  live = [pc |-> "open", ring |-> <<>>, arrived |-> 0, last_hb_ts |-> 0, idle_at |-> 0,
          breakloop |-> FALSE, waker |-> "waiting", handle |-> FALSE]

Rest == <<probe, replay, dispatched, got, taken, cancelled, closed, sweep, wall, count, strayed, faults>>

(* The kernel stamps a packet and queues it.                                *)
Arrive ==
  /\ live.pc \in {"loop", "read", "timeout"} /\ live.arrived < MaxArrivals
  /\ live' = [live EXCEPT !.arrived = @ + 1,
                          !.ring = Append(@, Raw(LiveId, wall, IF live.arrived = 1 THEN "b" ELSE "a",
                                                               IF live.arrived = 1 THEN "a" ELSE "b"))]
  /\ UNCHANGED <<sent, dump, Rest>>

(* The device may be missing; the filter may be refused, after the          *)
(* breakloop handle was handed to the waker.                                *)
LiveOpen ==
  /\ live.pc = "open"
  /\ live' \in {[live EXCEPT !.pc = "failed"], [live EXCEPT !.pc = "failed", !.handle = TRUE],
                [live EXCEPT !.pc = "loop", !.handle = TRUE]}
  /\ UNCHANGED <<sent, dump, Rest>>

LiveCheck ==
  /\ live.pc = "loop"
  /\ live' = [live EXCEPT !.pc = IF cancelled THEN "exit" ELSE "read"]
  /\ UNCHANGED <<sent, dump, Rest>>

(* One packet: the heartbeat it makes due goes first and flushes the dump.  *)
HeartbeatDue(last, ts) == last # 0 /\ ts - last >= Interval
LivePacket ==
  LET p == Head(live.ring)
      due == HeartbeatDue(live.last_hb_ts, p.timestamp_us)
      hb == IF due THEN <<Heartbeat(LiveId, p.timestamp_us)>> ELSE <<>>
  IN /\ live.pc = "read" /\ live.ring # <<>> /\ ~closed
     /\ sent' = sent \o hb \o <<p>>
     /\ dump' = Write(IF due THEN FlushAll(dump) ELSE dump, p, "ok")
     /\ live' = [live EXCEPT !.pc = "loop", !.ring = Tail(@),
                             !.last_hb_ts = IF @ = 0 \/ due THEN p.timestamp_us ELSE @]
     /\ UNCHANGED Rest

(* The receivers are gone: a due heartbeat fails before the packet is       *)
(* dumped, otherwise the packet fails after it was.                         *)
LivePacketClosed ==
  LET p == Head(live.ring)  due == HeartbeatDue(live.last_hb_ts, p.timestamp_us) IN
  /\ live.pc = "read" /\ live.ring # <<>> /\ closed
  /\ dump' = IF due THEN dump ELSE Write(dump, p, "ok")
  /\ live' = [live EXCEPT !.pc = "exit", !.ring = Tail(@)]
  /\ UNCHANGED <<sent, Rest>>

(* pcap_breakloop surfaces as NoMorePackets.                                *)
LiveBreak ==
  /\ live.pc = "read" /\ live.breakloop
  /\ live' = [live EXCEPT !.pc = "exit"]
  /\ UNCHANGED <<sent, dump, Rest>>

(* TimeoutExpired on a quiet interface; some platforms never report it.     *)
LiveQuiet ==
  /\ live.pc = "read" /\ live.ring = <<>>
  /\ live' = [live EXCEPT !.pc = "timeout", !.idle_at = wall]
  /\ UNCHANGED <<sent, dump, Rest>>

LiveReadError ==
  /\ live.pc = "read" /\ faults < MaxFaults
  /\ live' = [live EXCEPT !.pc = "loop"] /\ faults' = faults + 1
  /\ UNCHANGED <<sent, dump, probe, replay, dispatched, got, taken, cancelled, closed, sweep, wall, count, strayed>>

(* The idle heartbeat: a little in the past, above the last one.            *)
IdleStamp_no_margin(last) == IF wall > last + 1 THEN wall ELSE last + 1
IdleStamp(last) == IF wall - Margin > last + 1 THEN wall - Margin ELSE last + 1
LiveTimeout ==
  LET due == live.last_hb_ts > 0 /\ wall - live.last_hb_ts >= Interval
      hb_ts == IdleStamp(live.last_hb_ts)
  IN /\ live.pc = "timeout"
     /\ IF cancelled \/ closed THEN live' = [live EXCEPT !.pc = "exit"] /\ UNCHANGED <<sent, dump>>
        ELSE /\ sent' = IF due THEN Append(sent, Heartbeat(LiveId, hb_ts)) ELSE sent
             /\ dump' = IF due THEN FlushAll(dump) ELSE dump
             /\ live' = [live EXCEPT !.pc = "loop", !.last_hb_ts = IF due THEN hb_ts ELSE @]
     /\ UNCHANGED Rest

LiveExit ==
  /\ live.pc = "exit"
  /\ dump' = FlushAll(dump) /\ live' = [live EXCEPT !.pc = "done"]
  /\ UNCHANGED <<sent, Rest>>

LiveOver == live.pc \in {"done", "failed"}

(* The waker: it waits for the handle, then for the cancellation or for the *)
(* reader to be over.                                                       *)
WakerTakesHandle ==
  /\ live.waker = "waiting" /\ (live.handle \/ LiveOver)
  /\ live' = [live EXCEPT !.waker = IF live.handle THEN "armed" ELSE "gone"]
  /\ UNCHANGED <<sent, dump, Rest>>
WakerActs_without_break ==
  /\ live.waker = "armed" /\ (cancelled \/ LiveOver)
  /\ live' = [live EXCEPT !.waker = "gone"]
  /\ UNCHANGED <<sent, dump, Rest>>
WakerActs ==
  /\ live.waker = "armed" /\ (cancelled \/ LiveOver)
  /\ live' = [live EXCEPT !.waker = "gone", !.breakloop = cancelled]
  /\ UNCHANGED <<sent, dump, Rest>>

Waker == WakerTakesHandle \/ WakerActs
(* What the reader thread does when it is scheduled.                        *)
LiveThread ==
  \/ LiveOpen \/ LiveCheck \/ LivePacket \/ LivePacketClosed \/ LiveBreak \/ LiveTimeout \/ LiveExit
LiveNext == Arrive \/ LiveThread \/ LiveQuiet \/ LiveReadError \/ Waker

-----------------------------------------------------------------------------
(* Cloud probe.                                                             *)

ProbeInit == probe = [pc |-> "recv", next |-> 1, pending |-> <<>>, slots |-> [u \in {} |-> 0]]

ProbeRest == <<live, replay, dispatched, got, taken, cancelled, closed, sweep, wall, count, strayed, faults>>

(* The next batch arrives or is lost on the way; one whose lengths do not   *)
(* add up is dropped whole.  The cancellation is looked at first.           *)
ProbeRecv ==
  /\ probe.pc = "recv" /\ ~cancelled /\ probe.next <= Len(Batches)
  /\ LET b == Batches[probe.next] IN
     probe' = [probe EXCEPT !.next = @ + 1,
                            !.pc = IF b.truncated \/ b.pkts = <<>> THEN "recv" ELSE "batch",
                            !.pending = IF b.truncated THEN <<>> ELSE b.pkts]
  /\ UNCHANGED <<sent, dump, ProbeRest>>
ProbeLoses ==
  /\ probe.pc = "recv" /\ probe.next <= Len(Batches) /\ faults < MaxFaults
  /\ probe' = [probe EXCEPT !.next = @ + 1] /\ faults' = faults + 1
  /\ UNCHANGED <<sent, dump, live, replay, dispatched, got, taken, cancelled, closed, sweep, wall, count, strayed>>

(* HeartbeatTracker::on_packet: the slot after a packet, and whether a      *)
(* heartbeat goes ahead of it.                                              *)
SlotOf(p) == IF p.source_id \in DOMAIN probe.slots THEN probe.slots[p.source_id] ELSE 0
Synthesizes(slot, p) == ~p.heartbeat /\ slot # 0 /\ p.timestamp_us - slot >= Interval
SlotAfter(slot, p) ==
  IF p.heartbeat THEN Max({slot, p.timestamp_us})
  ELSE IF slot = 0 \/ Synthesizes(slot, p) THEN p.timestamp_us ELSE slot

ProbePacket ==
  LET p == Head(probe.pending)
      synth == Synthesizes(SlotOf(p), p)
      d1 == IF synth THEN FlushAll(dump) ELSE dump
      d2 == Write(d1, p, "ok")
      last == Len(probe.pending) = 1
  IN /\ probe.pc = "batch" /\ ~closed
     /\ sent' = sent \o (IF synth THEN <<Heartbeat(p.source_id, p.timestamp_us)>> ELSE <<>>) \o <<p>>
     /\ dump' = IF p.heartbeat THEN FlushAll(d2) ELSE d2
     /\ probe' = [probe EXCEPT !.pending = Tail(@), !.pc = IF last THEN "recv" ELSE "batch",
                               !.slots = [u \in DOMAIN @ \cup {p.source_id} |->
                                  IF u = p.source_id THEN SlotAfter(SlotOf(p), p) ELSE @[u]]]
     /\ UNCHANGED ProbeRest

(* The receivers are gone, or the cancellation is seen between batches.     *)
ProbeExit ==
  /\ \/ probe.pc = "recv" /\ cancelled
     \/ probe.pc = "batch" /\ closed
  /\ dump' = FlushAll(dump) /\ probe' = [probe EXCEPT !.pc = "done"]
  /\ UNCHANGED <<sent, ProbeRest>>

ProbeTask == ProbeRecv \/ ProbePacket \/ ProbeExit
ProbeNext == ProbeTask \/ ProbeLoses

-----------------------------------------------------------------------------
(* File replay.                                                             *)

(* loop_secs > 0 ends a replay by the clock, which may strike at any pass.  *)
ReplayInit ==
  \E secs \in BOOLEAN :
    replay = [pc |-> "pass", by_clock |-> secs, iter |-> 0, pos |-> 1, min_ts |-> None, max_ts |-> None]

ReplayRest == <<live, probe, dispatched, got, taken, cancelled, closed, sweep, wall, count, strayed, faults>>

Looping == replay.by_clock \/ LoopCount > 1
PassId == IF Looping THEN FileId + replay.iter ELSE FileId
PassOffset == IF replay.iter = 0 \/ replay.min_ts = None THEN 0
              ELSE (replay.max_ts - replay.min_ts + LoopGap) * replay.iter

ReplayPacket ==
  LET ts == FileStamps[replay.pos]
      p == Raw(PassId, ts + PassOffset, "a", "b")
      first == replay.iter = 0
  IN /\ replay.pc = "pass" /\ replay.pos <= Len(FileStamps) /\ ~cancelled
     /\ dump' = Write(dump, p, "ok")
     /\ sent' = IF closed THEN sent ELSE Append(sent, p)
     /\ replay' = [replay EXCEPT !.pos = @ + 1, !.pc = IF closed THEN "exit" ELSE "pass",
                     !.min_ts = IF first THEN Min({ts} \cup (IF @ = None THEN {} ELSE {@})) ELSE @,
                     !.max_ts = IF first THEN Max({ts} \cup (IF @ = None THEN {} ELSE {@})) ELSE @]
     /\ UNCHANGED ReplayRest

(* The end of a pass, and whether it was the last.                          *)
ReplayPassEnds ==
  /\ replay.pc = "pass" /\ replay.pos > Len(FileStamps) /\ ~cancelled
  /\ \E stop \in IF replay.by_clock THEN IF replay.iter + 1 < MaxPasses THEN BOOLEAN ELSE {TRUE}
                 ELSE {replay.iter + 1 >= LoopCount} :
       replay' = [replay EXCEPT !.iter = @ + 1, !.pos = 1, !.pc = IF stop THEN "exit" ELSE "pass"]
  /\ UNCHANGED <<sent, dump, ReplayRest>>

(* A read error returns at once; dropping the dumper drains its buffers as  *)
(* flush_all does.                                                          *)
ReplayFails ==
  /\ replay.pc = "pass" /\ faults < MaxFaults
  /\ replay' = [replay EXCEPT !.pc = "done"] /\ dump' = FlushAll(dump) /\ faults' = faults + 1
  /\ UNCHANGED <<sent, live, probe, dispatched, got, taken, cancelled, closed, sweep, wall, count, strayed>>

ReplayExit ==
  /\ replay.pc = "exit" \/ (replay.pc = "pass" /\ cancelled)
  /\ replay' = [replay EXCEPT !.pc = "done"] /\ dump' = FlushAll(dump)
  /\ UNCHANGED <<sent, ReplayRest>>

ReplayThread == ReplayPacket \/ ReplayPassEnds \/ ReplayExit
ReplayNext == ReplayThread \/ ReplayFails

-----------------------------------------------------------------------------
(* RoutingSender, FlowDispatcher, and the workers that take what they send. *)

DispatchRest == <<live, probe, replay, sent, cancelled, closed, dumpVars>>

Queued(d) == {i \in DOMAIN sent : i > dispatched[d] /\ Route[sent[i].source_id] = d}
Free(w) == Len(got[w]) - taken[w] < WorkerCap

(* dispatch: a heartbeat goes to every worker with room, a packet that      *)
(* decodes waits for room at the worker of its flow, others are dropped.    *)
Dispatched(p) ==
  LET w == Shard[{p.src, p.dst}] IN
  \/ p.heartbeat /\ got' = [v \in Workers |-> IF Free(v) THEN Append(got[v], p) ELSE got[v]]
  \/ ~p.heartbeat /\ p.src # None /\ Free(w) /\ got' = [got EXCEPT ![w] = Append(@, p)]
  \/ ~p.heartbeat /\ p.src = None /\ UNCHANGED got
Dispatch(d) ==
  \E i \in Queued(d) :
    /\ \A k \in Queued(d) : i <= k
    /\ Dispatched(sent[i])
    /\ dispatched' = [dispatched EXCEPT ![d] = i]
    /\ UNCHANGED <<taken, DispatchRest>>

Take(w) ==
  /\ taken[w] < Len(got[w])
  /\ taken' = [taken EXCEPT ![w] = @ + 1]
  /\ UNCHANGED <<got, dispatched, DispatchRest>>

Serve == (\E d \in Dispatchers : Dispatch(d)) \/ (\E w \in Workers : Take(w))

(* The pipeline is told to stop; a dispatcher that dies closes the channel. *)
Cancel == ~cancelled /\ cancelled' = TRUE /\ UNCHANGED <<live, probe, replay, sent, dispatched, got, taken, closed, dumpVars>>
Close == ~closed /\ faults < MaxFaults /\ closed' = TRUE /\ faults' = faults + 1
         /\ UNCHANGED <<live, probe, replay, sent, dispatched, got, taken, cancelled, dump, sweep, wall, count, strayed>>

(* Time passes; a reader that has seen a timeout is scheduled before long.  *)
Tick ==
  /\ live.pc \in {"loop", "read", "timeout"} /\ wall < MaxWall
  /\ live.pc = "timeout" => wall - live.idle_at < MaxPreempt
  /\ wall' = wall + 1
  /\ UNCHANGED <<sourceVars, dump, sweep, count, strayed, faults>>

(* A pipeline with a live interface, with probes, and with a file.          *)
captureVars == <<sourceVars, dumpVars>>
LiveSpec ==
  /\ DumpInit /\ SourcesQuiet /\ LiveInit /\ probe = NoSource /\ replay = NoSource
  /\ [][LiveNext \/ Tick \/ Serve \/ Cancel \/ Close]_captureVars
ProbeSpec ==
  /\ DumpInit /\ SourcesQuiet /\ live = NoSource /\ ProbeInit /\ replay = NoSource
  /\ [][ProbeNext \/ Serve \/ Cancel \/ Close]_captureVars
ReplaySpec ==
  /\ DumpInit /\ SourcesQuiet /\ live = NoSource /\ probe = NoSource /\ ReplayInit
  /\ [][ReplayNext \/ Serve \/ Cancel \/ Close]_captureVars

-----------------------------------------------------------------------------
(* Properties.                                                              *)

NoneEarlierAfter ==
  \A q \in {sent} \cup Range(got) : \A i, j \in DOMAIN q :
    i < j /\ q[i].heartbeat /\ q[j].source_id = q[i].source_id /\ q[i].source_id < FileId
      => q[i].timestamp_us <= q[j].timestamp_us
(* What item i of q finds of its source ahead of it: the heartbeats, and    *)
(* the first item.                                                          *)
Ahead(q, i, s) == {k \in 1..(i - 1) : q[k].source_id = s}
Known(q, i, s) ==
  {q[k].timestamp_us : k \in {n \in Ahead(q, i, s) : q[n].heartbeat \/ \A m \in Ahead(q, i, s) : n <= m}}
NeverStale ==
  \A i \in DOMAIN sent :
    LET known == Known(sent, i, sent[i].source_id)
    IN sent[i].source_id < FileId /\ ~sent[i].heartbeat /\ known # {}
         => sent[i].timestamp_us - Max(known) < Interval

(* A heartbeat tells a worker that no earlier packet of its source will     *)
(* come: routing, dispatch and a reader scheduled late between its timeout  *)
(* and its clock read (by no more than the margin) keep it so.  And a       *)
(* packet of a live interface or a probe is sent less than an interval      *)
(* after the newest heartbeat of its source, or after the source's first    *)
(* packet: event time advances during any traffic, with batches lost and    *)
(* upstream heartbeats missing.                                             *)
HeartbeatsSound == NoneEarlierAfter /\ NeverStale

PassesApart ==
  \A i, j \in DOMAIN sent :
    LET PassOf(k) == (k - 1) \div Len(FileStamps) IN
    replay # NoSource /\ PassOf(i) < PassOf(j)
      => /\ sent[i].source_id # sent[j].source_id
         /\ sent[j].timestamp_us - sent[i].timestamp_us >= LoopGap
=============================================================================
