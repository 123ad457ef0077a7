----------------------------- MODULE PacketDump -----------------------------
(* The pcap dump of a pipeline: the PacketDumper that a capture source      *)
(* writes through, the minute files it leaves, the retention sweep that     *)
(* removes them and the extraction that reads them back.  A file is a       *)
(* sequence of units: the global header, then two units per record (the     *)
(* record header and the packet's bytes), so that a record can be cut in    *)
(* two by the point at which BufWriter spills.  Compression adds one more   *)
(* buffer in front of the same BufWriter and is left out.                   *)
EXTENDS Integers, FiniteSets, FiniteSetsExt, Sequences, SequencesExt, Functions, TLC

CONSTANTS
  Ids,            \* the source ids packets carry
  BadIds,         \* those sanitize refuses
  MinuteTicks,    \* MICROS_PER_MINUTE
  BufUnits,       \* BUF_CAPACITY
  MaxAge,         \* max_age_hours, in minutes; 0 turns the rule off
  SizeCap,        \* max_size_mb, in units; 0 turns the rule off
  Lags,           \* how long a packet may take from its stamp to the dumper
  Script,         \* the packets in order: what each may be: source, link type, endpoints
  Requests,       \* the extractions asked for
  MaxWall, MaxFaults,   \* bounds
  None

(* A packet is at the dumper within a minute of its stamp, the margin that  *)
(* the sweep leaves (race_cutoff).  True of live sources and probes; a      *)
(* replay of an old recording with retention on is not covered.             *)
ASSUME DumpAssumption ==
  /\ MinuteTicks \in Nat \ {0} /\ BufUnits \in Nat \ {0} /\ MaxAge \in Nat /\ SizeCap \in Nat
  /\ Lags \subseteq 0..MinuteTicks /\ MaxFaults \in Nat
  /\ Len(Script) \in Nat /\ DOMAIN Script = 1..Len(Script)
  /\ \A i \in DOMAIN Script : \A w \in Script[i] : w.source_id \in Ids
  /\ \A r \in Requests : r.start_us \in Nat /\ r.end_us \in Nat

VARIABLES
  dump,     \* the dumper and the directory it writes
  sweep,    \* the retention task: None between sweeps
  wall,     \* the wall clock
  count,    \* how many packets the dumper was handed
  strayed,  \* the packets whose record went to a file the sweep had removed
  faults

dumpVars == <<dump, sweep, wall, count, strayed, faults>>

Minute(ts) == ts \div MinuteTicks
File(s, m) == [source |-> s, minute |-> m]

(* write_pcap_global_header, write_pcap_record                              *)
GlobalHeader(link) == [kind |-> "header", link |-> link, pkt |-> None]
RecordHead(p) == [kind |-> "head", link |-> p.link_type, pkt |-> p]
RecordBody(p) == [kind |-> "body", link |-> p.link_type, pkt |-> p]

NewDumper(disk, dirs) == [writers |-> [s \in {} |-> None], disabled |-> {}, disk |-> disk, dirs |-> dirs]
(* A source without pcap_dump writes no file.                               *)
NoDumper == [NewDumper([f \in {} |-> <<>>], {}) EXCEPT !.disabled = Ids]

Buf(d, s) == d.writers[s].current.buf

(* Sink::flush_all_layers: an unlinked file takes the bytes with it.        *)
FlushSink(d, s) ==
  LET c == d.writers[s].current
      disk == IF c.linked = "yes" THEN [d.disk EXCEPT ![File(s, c.minute)] = @ \o c.buf] ELSE d.disk
  IN [d EXCEPT !.disk = disk, !.writers[s].current.buf = <<>>]

OpenSinks(d) == {s \in DOMAIN d.writers : d.writers[s].current # None}

(* What the sink of a file has buffered for it.                             *)
Pending(d, f) ==
  LET c == d.writers[f.source].current IN
  IF f.source \in OpenSinks(d) /\ c.minute = f.minute /\ c.linked = "yes" THEN c.buf ELSE <<>>

FlushAll(d) ==
  [d EXCEPT !.disk = [f \in DOMAIN @ |-> @[f] \o Pending(d, f)],
            !.writers = [s \in DOMAIN @ |-> IF s \in OpenSinks(d) THEN [@[s] EXCEPT !.current.buf = <<>>] ELSE @[s]]]

(* One write_all through BufWriter: it spills first when the unit does not  *)
(* fit, and when the spill fails the unit is not stored.                    *)
SpillFails(d, s, io) == io = "write" /\ Len(Buf(d, s)) = BufUnits
PutUnit(d, s, u, io) ==
  LET e == IF Len(Buf(d, s)) = BufUnits THEN FlushSink(d, s) ELSE d IN
  IF SpillFails(d, s, io) THEN d ELSE [e EXCEPT !.writers[s].current.buf = Append(@, u)]

PutRecord(d, s, p, io) ==
  IF SpillFails(d, s, io) THEN d ELSE PutUnit(PutUnit(d, s, RecordHead(p), io), s, RecordBody(p), io)

Mute(d, s) == [d EXCEPT !.disabled = @ \cup {s}]

OpenSourceDir(d, p, io) ==
  LET s == p.source_id IN
  IF s \in BadIds \/ io = "mkdir" THEN Mute(d, s)
  ELSE [d EXCEPT !.dirs = @ \cup {s},
                 !.writers = [x \in DOMAIN @ \cup {s} |->
                                IF x = s THEN [link_type |-> p.link_type, current |-> None] ELSE @[x]]]

(* A missing directory is made again and the open retried once.             *)
MakeFile(d, s, m) ==
  [d EXCEPT !.dirs = @ \cup {s},
            !.disk = [f \in DOMAIN @ \cup {File(s, m)} |-> IF f \in DOMAIN @ THEN @[f] ELSE <<>>]]

(* An existing file is appended to; only an empty one gets a header.  The   *)
(* header cannot fail: it fits the new buffer.                              *)
OpenMinuteFile(d, s, m, io) ==
  LET e == MakeFile(d, s, m) IN
  IF io = "open" THEN Mute(d, s)
  ELSE [e EXCEPT !.writers[s].current =
          [minute |-> m, linked |-> "yes",
           buf |-> IF e.disk[File(s, m)] = <<>> THEN <<GlobalHeader(d.writers[s].link_type)>> ELSE <<>>]]

(* Phases 3 and 4 of write: only a later minute rotates; dropping the old   *)
(* file drains its buffer.                                                  *)
NeedsNewFile(w, m) == w.current = None \/ m > w.current.minute

Rotate(d, p, io) ==
  LET s == p.source_id
      closed == IF d.writers[s].current = None THEN d ELSE [FlushSink(d, s) EXCEPT !.writers[s].current = None]
  IN IF NeedsNewFile(d.writers[s], Minute(p.timestamp_us))
     THEN OpenMinuteFile(closed, s, Minute(p.timestamp_us), io) ELSE d

(* PacketDumper::write.  io names the call that fails, if one does.         *)
Write(d, p, io) ==
  LET s == p.source_id
      e == IF s \in DOMAIN d.writers THEN d ELSE OpenSourceDir(d, p, io)
      r == Rotate(e, p, io)
  IN IF p.heartbeat \/ s \in d.disabled THEN d
     ELSE IF s \in e.disabled \/ e.writers[s].link_type # p.link_type THEN e
     ELSE IF s \in r.disabled THEN r
     ELSE PutRecord(r, s, p, io)

-----------------------------------------------------------------------------
(* Extraction.                                                              *)

(* PacketIter over a file: the complete records in front of the first cut.  *)
(* Behind a record header that its bytes do not follow, the reader is out   *)
(* of step with the records and nothing it returns is one.                  *)
IsRecord(u, i) ==
  /\ 2 * i <= Len(u) /\ u[2 * i - 1].kind = "head" /\ u[2 * i].kind = "body"
  /\ u[2 * i - 1].pkt = u[2 * i].pkt
Readable(units) ==
  IF units = <<>> \/ units[1].kind # "header" THEN <<>>
  ELSE LET u == Tail(units)
           n == Max({k \in 0..Len(u) : \A i \in 1..k : IsRecord(u, i)})
       IN [i \in 1..n |-> u[2 * i].pkt]

FieldMatch(filter, actual) == filter = None \/ filter = actual
Matches(req, p) ==
  /\ req.start_us <= p.timestamp_us /\ p.timestamp_us <= req.end_us
  /\ p.src # None
  /\ \/ FieldMatch(req.client, p.src) /\ FieldMatch(req.server, p.dst)
     \/ FieldMatch(req.client, p.dst) /\ FieldMatch(req.server, p.src)

(* list_candidate_files: the minutes the window touches.                    *)
CandidateMinutes(disk, req) ==
  {m \in Minute(req.start_us)..Minute(req.end_us) : File(req.source_id, m) \in DOMAIN disk}

(* A file without a header cannot be opened and is skipped; files of two    *)
(* link types are refused as a whole.                                       *)
LinkTypes(disk, req) ==
  {disk[f][1].link : f \in {g \in {File(req.source_id, m) : m \in CandidateMinutes(disk, req)} :
                              disk[g] # <<>> /\ disk[g][1].kind = "header"}}
LinkTypeMismatch(disk, req) == \E a, b \in LinkTypes(disk, req) : a # b

(* The records that pass the filter: <<m, i>> is record i of minute m.      *)
Found(disk, req) ==
  LET Recs(m) == Readable(disk[File(req.source_id, m)])
      selected == UNION {{<<m, i>> : i \in {k \in DOMAIN Recs(m) : Matches(req, Recs(m)[k])}} :
                           m \in CandidateMinutes(disk, req)}
  IN [x \in selected |-> Recs(x[1])[x[2]]]

(* MergeIter: of the next record of each file the smallest, the earlier     *)
(* file first among equals.                                                 *)
Heads(left) == {x \in left : \A y \in left : y[1] = x[1] => x[2] <= y[2]}
Precedes(found, x, y) ==
  \/ found[x].timestamp_us < found[y].timestamp_us
  \/ found[x].timestamp_us = found[y].timestamp_us /\ x[1] <= y[1]
MergeStep(found, acc) ==
  LET first == CHOOSE x \in Heads(acc.left) : \A y \in Heads(acc.left) : Precedes(found, x, y)
  IN [out |-> Append(acc.out, found[first]), left |-> acc.left \ {first}]
Merged(found) ==
  LET After[n \in 0..Cardinality(DOMAIN found)] ==
        IF n = 0 THEN [out |-> <<>>, left |-> DOMAIN found] ELSE MergeStep(found, After[n - 1])
  IN After

(* prepare and stream_extract                                               *)
Extract(disk, req) ==
  LET found == Found(disk, req) IN Merged(found)[Cardinality(DOMAIN found)].out

-----------------------------------------------------------------------------
(* Retention.                                                               *)

NowMinute == Minute(wall)
RaceCutoff_late == NowMinute + 1
RaceCutoff == NowMinute - 1

(* The walk of run_sweep: names and sizes are taken now, used later.  A     *)
(* sweep that finds nothing changes nothing.                                *)
Candidates == {[file |-> f, size |-> Len(dump.disk[f])] : f \in {g \in DOMAIN dump.disk : g.minute < RaceCutoff}}
SweepList ==
  /\ sweep = None /\ MaxAge + SizeCap > 0 /\ Candidates # {}
  /\ sweep' = [phase |-> "age", now |-> NowMinute, candidates |-> Candidates]
  /\ UNCHANGED <<dump, wall, count, strayed, faults>>

(* The files of a set lose their name; a writer that holds one of them goes *)
(* on writing to it.                                                        *)
Unlink(d, files, by) ==
  [d EXCEPT !.disk = Restrict(@, DOMAIN @ \ files),
            !.writers = [s \in DOMAIN @ |->
               IF @[s].current # None /\ File(s, @[s].current.minute) \in files
               THEN [@[s] EXCEPT !.current.linked = by] ELSE @[s]]]

(* The files try_unlink fails on, at most one and as a fault.               *)
Stuck(files) == {{}} \cup {b \in {{f} : f \in files} : faults < MaxFaults}

Listed == {c.file : c \in sweep.candidates}
Aged(bad) == {c \in sweep.candidates : MaxAge > 0 /\ c.file.minute < sweep.now - MaxAge /\ c.file \notin bad}

(* Phase 1; a file that could not be removed stays a candidate.             *)
SweepAge ==
  /\ sweep # None /\ sweep.phase = "age"
  /\ \E bad \in Stuck(Listed) :
       /\ dump' = Unlink(dump, {c.file : c \in Aged(bad)}, "swept")
       /\ sweep' = [sweep EXCEPT !.phase = "size", !.candidates = @ \ Aged(bad)]
       /\ faults' = faults + Cardinality(bad)
  /\ UNCHANGED <<wall, count, strayed>>

(* Phase 2: oldest first until what is left of the listed sizes fits the    *)
(* cap, so a file goes if the listed units less those of the older files    *)
(* that go still exceed it.  A file gone since the walk counts as removed.  *)
Older(a, b) == a.file.minute < b.file.minute \/ (a.file.minute = b.file.minute /\ a.file.source < b.file.source)
TotalSize(cands) == Cardinality(UNION {{c} \X (1..c.size) : c \in cands})
Evicted(cands, bad) ==
  {c.file : c \in {x \in cands :
     /\ x.file \notin bad
     /\ TotalSize(cands) - TotalSize({o \in cands : Older(o, x) /\ o.file \notin bad}) > SizeCap}}

SweepSize ==
  /\ sweep # None /\ sweep.phase = "size"
  /\ \E bad \in Stuck(Listed) :
       /\ dump' = Unlink(dump, IF SizeCap = 0 THEN {} ELSE Evicted(sweep.candidates, bad), "swept")
       /\ faults' = faults + Cardinality(bad)
  /\ sweep' = None
  /\ UNCHANGED <<wall, count, strayed>>

-----------------------------------------------------------------------------
(* A capture source at the dumper.                                          *)

Packet(n, ts, wire) ==
  [id |-> n, timestamp_us |-> ts, heartbeat |-> FALSE, source_id |-> wire.source_id,
   link_type |-> wire.link_type, src |-> wire.src, dst |-> wire.dst]

DumpPacket ==
  /\ count < Len(Script)
  /\ \E late \in Lags, wire \in Script[count + 1], io \in {"ok", "mkdir", "open", "write"} :
       LET p == Packet(count + 1, wall - late, wire)  s == p.source_id IN
       /\ late <= wall
       /\ io # "ok" => faults < MaxFaults
       /\ faults' = faults + (IF io = "ok" THEN 0 ELSE 1)
       /\ dump' = Write(dump, p, io)
       /\ count' = count + 1
       /\ strayed' = IF s \in OpenSinks(dump') /\ dump'.writers[s].current.linked = "swept"
                        /\ RecordBody(p) \in ToSet(Buf(dump', s))
                     THEN strayed \cup {p} ELSE strayed
  /\ UNCHANGED <<sweep, wall>>

(* flush_all, at each heartbeat and when a source stops.                    *)
DumpFlush ==
  /\ \E s \in OpenSinks(dump) : Buf(dump, s) # <<>>
  /\ dump' = FlushAll(dump)
  /\ UNCHANGED <<sweep, wall, count, strayed, faults>>

(* The process dies: what was buffered is gone, the files stay.  A sweep in *)
(* progress dies with it.                                                   *)
DumpCrash ==
  /\ faults < MaxFaults /\ DOMAIN dump.writers # {}
  /\ dump' = NewDumper(dump.disk, dump.dirs) /\ sweep' = None /\ faults' = faults + 1
  /\ UNCHANGED <<wall, count, strayed>>

(* Someone removes the directory of a source.                               *)
RemoveDir ==
  \E s \in dump.dirs :
    /\ faults < MaxFaults
    /\ dump' = [Unlink(dump, {f \in DOMAIN dump.disk : f.source = s}, "rm") EXCEPT !.dirs = @ \ {s}]
    /\ faults' = faults + 1
    /\ UNCHANGED <<sweep, wall, count, strayed>>

DumpTick == wall < MaxWall /\ wall' = wall + 1 /\ UNCHANGED <<dump, sweep, count, strayed, faults>>

DumpInit ==
  /\ dump \in {NewDumper([f \in {} |-> <<>>], {}), NoDumper} /\ sweep = None /\ wall = 1
  /\ count = 0 /\ strayed = {} /\ faults = 0

DumpNext ==
  \/ DumpPacket \/ DumpFlush \/ DumpCrash \/ RemoveDir \/ DumpTick
  \/ SweepList \/ SweepAge \/ SweepSize

DumpSpec == DumpInit /\ [][DumpNext]_dumpVars

-----------------------------------------------------------------------------
(* Properties.                                                              *)

OnDisk == UNION {{[file |-> f, pkt |-> Readable(dump.disk[f])[i]] : i \in DOMAIN Readable(dump.disk[f])} :
                   f \in DOMAIN dump.disk}
Sorted(ps) == \A i, j \in DOMAIN ps : i < j => ps[i].timestamp_us <= ps[j].timestamp_us

(* Any extraction returns each packet at most once, only packets the window *)
(* and the endpoints select, and every such packet that is readable in the  *)
(* file of its own minute; packets that reached the dumper in order come    *)
(* out in order.  The reader computes the minutes on its own, beside a      *)
(* writer that rotates, a crash that cuts a record and a sweep.             *)
ExtractExact ==
  \A req \in Requests : ~LinkTypeMismatch(dump.disk, req) =>
    LET out == Extract(dump.disk, req)
        right == {x \in OnDisk : x.file.source = req.source_id /\ Matches(req, x.pkt)}
    IN /\ \A i, j \in DOMAIN out : out[i] = out[j] => i = j
       /\ {x.pkt : x \in {y \in right : y.file.minute = Minute(y.pkt.timestamp_us)}} \subseteq ToSet(out)
       /\ ToSet(out) \subseteq {x.pkt : x \in right}
       /\ (\A f \in DOMAIN dump.disk : Sorted(Readable(dump.disk[f]))) => Sorted(out)

(* A record that could be read once stays readable until its file goes, and *)
(* a file goes only by hand or by a rule: it is past the protected minutes, *)
(* and either past the age limit or the listed files exceed the cap and all *)
(* older ones that could be removed have gone too.  No record is written to *)
(* a file the sweep has taken from under the writer.                        *)
RecordsKept ==
  [][/\ strayed' = {}
     /\ \A f \in DOMAIN dump.disk :
          IF f \in DOMAIN dump'.disk THEN IsPrefix(Readable(dump.disk[f]), Readable(dump'.disk[f]))
          ELSE \/ f.source \notin dump'.dirs
               \/ /\ f.minute < NowMinute - 1
                  /\ \/ MaxAge > 0 /\ f.minute < NowMinute - MaxAge
                     \/ /\ TotalSize(sweep.candidates) > SizeCap /\ SizeCap > 0
                        /\ Cardinality({g \in Listed \cap DOMAIN dump'.disk : g.minute < f.minute}) <= faults' - faults]_dumpVars

(* The dump is faithful: what extraction returns and what retention removes *)
(* is exactly what the rules say, at any moment of the writer and the sweep.*)
DumpFaithful == []ExtractExact /\ RecordsKept
=============================================================================
