-------------------------------- MODULE Ebpf --------------------------------
(* TLS capture by uprobes: the BPF program that stamps each chunk of an     *)
(* SSL_read or SSL_write with its place in the stream, the ring buffer, and *)
(* the pump that turns the events into TCP segments of a made-up flow.  A   *)
(* stream's bytes are numbered; a segment carries one byte.                 *)
EXTENDS Capture

CONSTANTS
  Pids, Ptrs,     \* processes and the SSL* values they may use
  EbpfId,
  DataCap,        \* DATA_CAP, in bytes of a chunk
  MaxChunks,      \* MAX_CHUNKS
  RingCap,        \* room in the EVENTS ring
  CallSizes,      \* the lengths of an SSL_* call
  MaxCalls, MaxConns, MaxIdle   \* bounds

ASSUME EbpfAssumption ==
  EbpfId \in Nat /\ DataCap \in Nat /\ MaxChunks \in Nat /\ RingCap \in Nat /\ CallSizes \subseteq Nat

VARIABLE ebpf

SYNTH_ISN == 1
Dirs == {"c2s", "s2c"}

EbpfIdle == ebpf = [pc |-> "done"]
(* off, ring, ktime: the kernel's; conns, generations, slot: the pump's;    *)
(* the others record what is really connected and what was lost.            *)
EbpfInit ==
  ebpf = [pc |-> "run", off |-> [k \in {} |-> 0], ring |-> <<>>, ktime |-> 1,
          conns |-> [c \in {} |-> <<>>], generations |-> [c \in {} |-> 0], slot |-> 0,
          owner |-> [k \in {} |-> 0], at |-> [k \in {} |-> 0],
          opened |-> 0, calls |-> 0, idle |-> 0, closes_lost |-> 0]

At(f, k) == IF k \in DOMAIN f THEN f[k] ELSE 0
Put(f, k, v) == [x \in DOMAIN f \cup {k} |-> IF x = k THEN v ELSE f[x]]

EbpfRest == <<live, probe, replay, dispatched, got, taken, cancelled, closed, dumpVars>>

(* The application opens a connection on a pointer that is not in use.      *)
SslNew(pid, ssl) ==
  /\ ebpf.pc = "run" /\ <<pid, ssl>> \notin DOMAIN ebpf.owner /\ ebpf.opened < MaxConns
  /\ ebpf' = [ebpf EXCEPT !.opened = @ + 1, !.owner = Put(@, <<pid, ssl>>, ebpf.opened + 1),
                          !.at = Put(Put(@, <<pid, ssl, "c2s">>, 0), <<pid, ssl, "s2c">>, 0)]
  /\ UNCHANGED <<sent, EbpfRest>>

(* emit_chunk_at: chunk k of a call of n bytes, or nothing when the ring is *)
(* full.  The pointer alone names the connection.                           *)
Room(ring) == Len(ring) < RingCap
Chunk(pid, ssl, dir, base, k, n) ==
  LET start == k * DataCap IN
  [kind |-> "data", pid |-> pid, conn_id |-> ssl, dir |-> dir, seq_off |-> base + start,
   len |-> IF n - start > DataCap THEN DataCap ELSE n - start, ktime |-> ebpf.ktime,
   owner |-> ebpf.owner[<<pid, ssl>>], at |-> ebpf.at[<<pid, ssl, dir>>] + start]
EmitData(ring, pid, ssl, dir, n) ==
  LET fit == Cardinality({k \in 0..(MaxChunks - 1) : k * DataCap < n /\ Len(ring) + k < RingCap})
  IN ring \o [i \in 1..fit |-> Chunk(pid, ssl, dir, At(ebpf.off, <<ssl, dir>>), i - 1, n)]

(* ssl_write, and ssl_read_exit with bytes: the running offset moves past   *)
(* the whole call, whatever was lost of it.                                 *)
AdvanceBy_captured(ring, n) == FoldSeq(LAMBDA e, m : m + (IF e.ktime = ebpf.ktime THEN e.len ELSE 0), 0, ring)
AdvanceBy(ring, n) == n
SslData(pid, ssl, dir, n) ==
  LET ring == EmitData(ebpf.ring, pid, ssl, dir, n) IN
  /\ ebpf.pc = "run" /\ <<pid, ssl>> \in DOMAIN ebpf.owner /\ ebpf.calls < MaxCalls
  /\ ebpf' = [ebpf EXCEPT !.ring = ring, !.calls = @ + 1, !.ktime = @ + 1,
                 !.off = Put(@, <<ssl, dir>>, At(@, <<ssl, dir>>) + AdvanceBy(ring, n)),
                 !.at = Put(@, <<pid, ssl, dir>>, @[<<pid, ssl, dir>>] + n)]
  /\ UNCHANGED <<sent, EbpfRest>>

(* emit_close, for SSL_shutdown, SSL_free and a read that returns 0: the    *)
(* offsets are forgotten whether or not the event finds room.  After        *)
(* SSL_free the pointer can be used again.                                  *)
SslClose(pid, ssl, freed) ==
  LET e == [kind |-> "close", conn_id |-> ssl, ktime |-> ebpf.ktime] IN
  /\ ebpf.pc = "run" /\ <<pid, ssl>> \in DOMAIN ebpf.owner /\ ebpf.calls < MaxCalls
  /\ ebpf' = [ebpf EXCEPT !.off = [k \in DOMAIN @ \ {<<ssl, d>> : d \in Dirs} |-> @[k]],
                          !.ring = IF Room(@) THEN Append(@, e) ELSE @,
                          !.closes_lost = IF Room(ebpf.ring) THEN @ ELSE @ + 1,
                          !.owner = IF freed THEN [k \in DOMAIN @ \ {<<pid, ssl>>} |-> @[k]] ELSE @,
                          !.calls = @ + 1, !.ktime = @ + 1]
  /\ UNCHANGED <<sent, EbpfRest>>

(* FlowSynthesizer::data: a connection not seen yet is opened with the made *)
(* up tuple of its generation; each byte goes to its absolute sequence.     *)
(* The tuple is made of bits of the pointer, and of a port that each        *)
(* generation moves on, except that the low ports are one.                  *)
Wrap16 == 65536
SyntheticTuple(conn_id, generation) ==
  LET lo == conn_id % Wrap16
      mid == (conn_id \div Wrap16) % Wrap16
      hi == (conn_id \div Wrap16) \div Wrap16
      port == (1024 + mid + (generation % Wrap16) * 40503) % Wrap16
  IN [client_ip |-> lo, client_port |-> Max({port, 1024}), server_ip |-> hi % 256]
FlowOf(id) == IF id \in DOMAIN ebpf.conns THEN ebpf.conns[id].tuple ELSE SyntheticTuple(id, At(ebpf.generations, id))
(* name, owner and at say what a segment really is.                         *)
Frame(flow, dir, seq, flags, e, i) ==
  [source_id |-> EbpfId, timestamp_us |-> e.ktime, link_type |-> 1, src |-> "a", dst |-> "b", heartbeat |-> FALSE,
   flow |-> flow, dir |-> dir, seq |-> seq, flags |-> flags,
   name |-> <<e.conn_id, At(ebpf.generations, e.conn_id)>>,
   owner |-> IF e.kind = "data" THEN e.owner ELSE 0, at |-> IF e.kind = "data" THEN e.at + i ELSE 0]
DataFrames(e) == [i \in 1..e.len |-> Frame(FlowOf(e.conn_id), e.dir, SYNTH_ISN + e.seq_off + i - 1, "psh", e, i - 1)]
Observed(e) ==
  LET id == e.conn_id
      c == IF id \in DOMAIN ebpf.conns THEN ebpf.conns[id] ELSE [tuple |-> FlowOf(id), hi |-> [d \in Dirs |-> 0]]
  IN Put(ebpf.conns, id, [c EXCEPT !.hi[e.dir] = Max({@, e.seq_off + e.len})])

(* FlowSynthesizer::close                                                   *)
CloseFrames(e) ==
  IF e.conn_id \notin DOMAIN ebpf.conns THEN <<>>
  ELSE LET c == ebpf.conns[e.conn_id] IN
       <<Frame(c.tuple, "c2s", SYNTH_ISN + c.hi["c2s"], "fin", e, 0),
         Frame(c.tuple, "s2c", SYNTH_ISN + c.hi["s2c"], "fin", e, 0)>>

(* on_event: the tracker may put one heartbeat ahead of the frames, which   *)
(* all carry the event's time.                                              *)
Tracked(frames) ==
  IF frames = <<>> THEN [out |-> <<>>, slot |-> ebpf.slot]
  ELSE [out |-> (IF Synthesizes(ebpf.slot, frames[1]) THEN <<Heartbeat(EbpfId, frames[1].timestamp_us)>> ELSE <<>>) \o frames,
        slot |-> SlotAfter(ebpf.slot, frames[1])]

PumpEvent(allowed) ==
  LET e == Head(ebpf.ring)
      dropped == e.kind = "data" /\ allowed # {} /\ e.pid \notin allowed
      t == Tracked(IF dropped THEN <<>> ELSE IF e.kind = "data" THEN DataFrames(e) ELSE CloseFrames(e))
  IN /\ ebpf.pc = "run" /\ ebpf.ring # <<>> /\ ~cancelled
     /\ sent' = IF closed THEN sent ELSE sent \o t.out
     /\ ebpf' = [ebpf EXCEPT !.ring = Tail(@), !.slot = t.slot, !.pc = IF closed /\ t.out # <<>> THEN "done" ELSE @,
            !.conns = IF dropped THEN @ ELSE IF e.kind = "data" THEN Observed(e)
                      ELSE [c \in DOMAIN @ \ {e.conn_id} |-> @[c]],
            !.generations = IF e.kind = "data" THEN @ ELSE Put(@, e.conn_id, At(@, e.conn_id) + 1)]
     /\ UNCHANGED EbpfRest

(* The one-second tick of the source, stamped now.                          *)
IdleHeartbeat ==
  /\ ebpf.pc = "run" /\ ~cancelled /\ ebpf.idle < MaxIdle
  /\ sent' = IF closed THEN sent ELSE Append(sent, Heartbeat(EbpfId, ebpf.ktime))
  /\ ebpf' = [ebpf EXCEPT !.idle = @ + 1, !.pc = IF closed THEN "done" ELSE @]
  /\ UNCHANGED EbpfRest

EbpfExit ==
  /\ ebpf.pc = "run" /\ cancelled
  /\ ebpf' = [ebpf EXCEPT !.pc = "done"]
  /\ UNCHANGED <<sent, EbpfRest>>

EbpfNext ==
  \/ \E pid \in Pids, ssl \in Ptrs :
       \/ SslNew(pid, ssl) \/ SslClose(pid, ssl, TRUE) \/ SslClose(pid, ssl, FALSE)
       \/ \E dir \in Dirs, n \in CallSizes : SslData(pid, ssl, dir, n)
  \/ PumpEvent({}) \/ IdleHeartbeat \/ EbpfExit

EbpfSpec ==
  /\ DumpInit /\ SourcesQuiet /\ live = NoSource /\ probe = NoSource /\ replay = NoSource /\ EbpfInit
  /\ [][EbpfNext \/ ((Serve \/ Cancel \/ Close) /\ UNCHANGED ebpf)]_<<ebpf, captureVars>>

-----------------------------------------------------------------------------
(* Properties.                                                              *)

Segments == {sent[i] : i \in {k \in DOMAIN sent : sent[k].source_id = EbpfId /\ ~sent[k].heartbeat}}
OneByteEach ==
  \A f, g \in {x \in Segments : x.flags = "psh"} :
    f.flow = g.flow /\ f.dir = g.dir /\ f.seq = g.seq => f.owner = g.owner /\ f.at = g.at
Contiguous ==
  \A f, g \in {x \in Segments : x.flags = "psh"} :
    f.flow = g.flow /\ f.dir = g.dir => f.seq - g.seq = f.at - g.at

(* Once cancelled every source stops, with its dump drained and its waker   *)
(* gone; a quiet interface whose reads never time out stops too.            *)
SourcesStopped ==
  /\ LiveOver /\ (live # NoSource => live.waker = "gone")
  /\ probe.pc = "done" /\ replay.pc = "done" /\ ebpf.pc = "done"
  /\ \A s \in OpenSinks(dump) : Buf(dump, s) = <<>>
SourcesStop == cancelled ~> SourcesStopped

StreamsApart == ebpf # [pc |-> "done"] /\ ebpf.closes_lost = 0 => OneByteEach /\ Contiguous

(* Sources make up flows of their own that are never mixed.  Packets of     *)
(* different passes over a file carry different sources and are at least    *)
(* the gap apart, whatever the order of the file's time stamps.  A sequence *)
(* number of a TLS flow stands for one byte of one connection, and bytes    *)
(* keep their distance in the stream: with chunks lost to a full ring,      *)
(* calls longer than the chunks, connections closed and their pointer used  *)
(* again, as long as no close event itself is lost.                         *)
FlowsApart == PassesApart /\ StreamsApart
=============================================================================
