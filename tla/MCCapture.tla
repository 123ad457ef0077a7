----------------------------- MODULE MCCapture -----------------------------
(* An instance of Ebpf and what it extends: a behaviour exercises the dump  *)
(* with its sweep, or one source on its way to the workers.                 *)
EXTENDS Ebpf

VARIABLE plan

vars == <<plan, ebpf, sourceVars, dumpVars>>

Wire(s, link, src, dst) == [source_id |-> s, link_type |-> link, src |-> src, dst |-> dst]
(* A reply, a packet of another link type, another source, a source whose   *)
(* name sanitize refuses.                                                   *)
MCScript ==
  <<{Wire(1, 1, "a", "b")}, {Wire(1, 1, "b", "a"), Wire(1, 2, "a", "b")},
    {Wire(1, 1, "a", "c"), Wire(2, 1, None, None), Wire(3, 1, "a", "b")}>>
MCRequests ==
  {r \in [source_id : {1, 2}, start_us : {0, 3}, end_us : {2, 5}, client : {None, "a"}, server : {"b"}] :
     r.start_us <= r.end_us}

MCRoute == [s \in {1, 2, 3, 4, 20} \cup 10..14 |-> s % 2]
MCShard == [f \in {{"a", "b"}, {"a", "c"}} |-> IF "b" \in f THEN 1 ELSE 2]
P(u, ts, dst) == Raw(u, ts, "a", dst)
(* Two probes; the second batch is cut; the first probe also sends          *)
(* heartbeats of its own and a packet that is not IP.                       *)
MCBatches ==
  <<[uuid |-> 1, truncated |-> FALSE, pkts |-> <<P(1, 1, "b"), P(2, 3, "b")>>],
    [uuid |-> 1, truncated |-> TRUE, pkts |-> <<P(1, 3, "b")>>],
    [uuid |-> 1, truncated |-> FALSE, pkts |-> <<Heartbeat(1, 4), Raw(1, 6, None, None)>>],
    [uuid |-> 2, truncated |-> FALSE, pkts |-> <<P(2, 6, "c"), P(1, 7, "b")>>]>>
MCStamps == <<3, 1, 4>>

MCInit ==
  /\ DumpInit /\ plan \in {"dump", "live", "probe", "replay", "ebpf"}
  /\ plan \in {"probe", "ebpf"} <=> dump = NoDumper
  /\ SourcesQuiet /\ IF plan = "live" THEN LiveInit ELSE live = NoSource
  /\ IF plan = "probe" THEN ProbeInit ELSE probe = NoSource
  /\ IF plan = "replay" THEN ReplayInit ELSE replay = NoSource
  /\ IF plan = "ebpf" THEN EbpfInit ELSE EbpfIdle

MCNext ==
  \/ plan = "dump" /\ DumpNext /\ UNCHANGED <<plan, ebpf, sourceVars>>
  \/ plan = "live" /\ (LiveNext \/ Tick) /\ UNCHANGED <<plan, ebpf>>
  \/ plan = "probe" /\ ProbeNext /\ UNCHANGED <<plan, ebpf>>
  \/ plan = "replay" /\ ReplayNext /\ UNCHANGED <<plan, ebpf>>
  \/ plan = "ebpf" /\ EbpfNext /\ UNCHANGED plan
  \/ plan = "probe" /\ Serve /\ UNCHANGED <<plan, ebpf>>
  \/ plan # "dump" /\ (Cancel \/ Close) /\ UNCHANGED <<plan, ebpf>>

MCFairness ==
  /\ WF_vars(plan = "live" /\ LiveThread /\ UNCHANGED <<plan, ebpf>>)
  /\ WF_vars(plan = "live" /\ Waker /\ UNCHANGED <<plan, ebpf>>)
  /\ WF_vars(plan = "probe" /\ ProbeTask /\ UNCHANGED <<plan, ebpf>>)
  /\ WF_vars(plan = "replay" /\ ReplayThread /\ UNCHANGED <<plan, ebpf>>)
  /\ WF_vars(plan = "ebpf" /\ EbpfExit /\ UNCHANGED plan)

MCSpec == MCInit /\ [][MCNext]_vars /\ MCFairness
=============================================================================
