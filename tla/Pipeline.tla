------------------------------ MODULE Pipeline ------------------------------
(***************************************************************************)
(* The composition root: the stage tasks of every capture pipeline, the    *)
(* bounded channels between them and the storage sink they share           *)
(* (server/app/heron/src/pipeline.rs and the stage loops it spawns).       *)
(*                                                                         *)
(* An item is one HTTP exchange on its way from a capture source to the    *)
(* tables.  What the stages compute is modelled elsewhere; here a stage is *)
(* its loop: receive, send on in order, end at EOF or when a receiver is   *)
(* gone.  One shard per stage.  Heartbeats are left out: they are offered  *)
(* with try_send and never block.                                          *)
(***************************************************************************)
EXTENDS Integers, Sequences, FiniteSets, SequencesExt

CONSTANTS
    Pipelines,
    Items,
    SourceOf,   \* the pipeline whose source captures an item: [Items -> Pipelines]
    Llm,        \* items that are LLM calls
    Agents,     \* LLM calls with an agent identity
    Cap,        \* capacity of every channel, with the item a forwarder holds
    Batch,      \* batch_size
    Faulty,     \* names of the tasks whose faults the instance looks at
    MaxFaults,  \* bound: panics, failed flushes and hanging backend calls
    Shared      \* stands for the pipeline of a shared task

\* The tables, named after the write buffer that fills each.
Tables == {"exchanges", "calls", "turns", "metrics"}

Writer(table) == <<table, Shared>>
Writers == {Writer(table) : table \in Tables}
Unwrap == <<"unwrap", Shared>>
StageNames == {"dispatcher", "protocol", "joiner", "llm", "turn", "aggregator"}
Tasks == (StageNames \X Pipelines) \cup Writers \cup {Unwrap}

ASSUME PipelineAssumption ==
    /\ SourceOf \in [Items -> Pipelines] /\ Shared \notin Pipelines
    /\ Agents \subseteq Llm /\ Llm \subseteq Items
    /\ Faulty \subseteq {t[1] : t \in Tasks}
    /\ Cap \in Nat \ {0} /\ Batch \in Nat \ {0} /\ MaxFaults \in Nat

\* Tasks with one receiver, the LLM stage and the joiner with several, and the
\* tasks that keep what they receive.
Forwarders == ({"dispatcher", "protocol"} \X Pipelines) \cup {Unwrap}
Fanouts == {"joiner", "llm"} \X Pipelines
Stateful == {"turn", "aggregator"} \X Pipelines

\* Who holds a sender of the channel a task reads.
Senders(t) ==
    CASE t[1] = "dispatcher" -> {}
      [] t[1] = "protocol"   -> {<<"dispatcher", t[2]>>}
      [] t[1] = "joiner"     -> {<<"protocol", t[2]>>}
      [] t[1] = "llm"        -> {<<"joiner", t[2]>>}
      [] t \in Stateful      -> {<<"llm", t[2]>>}
      [] t = Unwrap          -> {"llm"} \X Pipelines
      [] t[1] = "exchanges"  -> {"joiner"} \X Pipelines
      [] t[1] = "calls"      -> {Unwrap}
      [] t[1] = "turns"      -> {"turn"} \X Pipelines
      [] t[1] = "metrics"    -> {"aggregator"} \X Pipelines

VARIABLES
    unread,     \* items the sources have yet to see
    capture,    \* each pipeline's capture task: "running" or "done"
    chan,       \* the channel each task reads
    outbox,     \* what a task has yet to send: destination and item, in order
    held,       \* the tracker's, the aggregator's and the write buffers' items
    status,     \* of each task: running, flushing, hung, ended, panicked
    stored,     \* the tables
    finish,     \* the finish-reason rows of the metrics table
    failed,     \* items of failed flushes, counted and logged
    faults      \* faults so far

tables == <<stored, finish, failed>>
vars == <<unread, capture, chan, outbox, held, status, stored, finish, failed, faults>>

Live(t) == status[t] \in {"running", "flushing", "hung"}
Gone(t) == status[t] \in {"ended", "panicked"}
Room(t) == Live(t) /\ Len(chan[t]) < Cap

Fault(name) == name \in Faulty /\ faults < MaxFaults /\ faults' = faults + 1

-----------------------------------------------------------------------------
(* Capture sources.                                                         *)

\* A packet is read and sent; a closed channel ends the source.
Read(p) ==
    LET d == <<"dispatcher", p>>
    IN  /\ capture[p] = "running"
        /\ \E i \in unread :
              /\ SourceOf[i] = p
              /\ \/ /\ Room(d)
                    /\ chan' = [chan EXCEPT ![d] = Append(@, i)]
                    /\ unread' = unread \ {i}
                    /\ UNCHANGED capture
                 \/ /\ Gone(d)
                    /\ capture' = [capture EXCEPT ![p] = "done"]
                    /\ UNCHANGED <<unread, chan>>
        /\ UNCHANGED <<outbox, held, status, faults>> /\ UNCHANGED tables

\* The file ends, or the source is cancelled, with or without packets left.
Finish(p) ==
    /\ capture[p] = "running"
    /\ capture' = [capture EXCEPT ![p] = "done"]
    /\ UNCHANGED <<unread, chan, outbox, held, status, faults>> /\ UNCHANGED tables

-----------------------------------------------------------------------------
(* Stage tasks.                                                             *)

To(name, p, i) == <<<<name, p>>, i>>

\* Where a forwarder sends.
Receiver(t) ==
    CASE t[1] = "dispatcher" -> <<"protocol", t[2]>>
      [] t[1] = "protocol"   -> <<"joiner", t[2]>>
      [] t = Unwrap          -> Writer("calls")

\* Deviation: the LLM stage is served before storage.
JoinerSends_LlmFirst(p, i) == <<To("llm", p, i), To("exchanges", Shared, i)>>

\* The storage-bound slice first.
JoinerSends(p, i) == <<To("exchanges", Shared, i), To("llm", p, i)>>

\* The metrics shard, storage, and the turn shard of a call with an agent.
LlmSends(p, i) ==
    CASE i \notin Llm -> << >>
      [] i \in Agents -> <<To("aggregator", p, i), To("unwrap", Shared, i), To("turn", p, i)>>
      [] OTHER        -> <<To("aggregator", p, i), To("unwrap", Shared, i)>>

\* The shared table a stateful stage feeds.
Sink(t) == IF t[1] = "turn" THEN Writer("turns") ELSE Writer("metrics")

Emits(t, out) == [n \in DOMAIN out |-> <<Sink(t), out[n]>>]

\* A task that returns drops its receiver, with what is in it, and its state.
Return(t, how) ==
    /\ status' = [status EXCEPT ![t] = how]
    /\ chan' = [chan EXCEPT ![t] = << >>]
    /\ outbox' = [outbox EXCEPT ![t] = << >>]
    /\ held' = [held EXCEPT ![t] = {}]

\* One turn of a forwarder's loop: the send waits for room, a closed channel ends it.
Forward(t) ==
    /\ status[t] = "running" /\ chan[t] # << >>
    /\ LET to == Receiver(t)
       IN  \/ /\ Room(to)
              /\ chan' = [chan EXCEPT ![t] = Tail(@), ![to] = Append(@, Head(chan[t]))]
              /\ UNCHANGED <<outbox, held, status>>
           \/ Gone(to) /\ Return(t, "ended")
    /\ UNCHANGED <<unread, capture, faults>> /\ UNCHANGED tables

\* One turn of the loop of another stage: the next input becomes sends; the tracker
\* and the aggregator keep it and emit what it completes.
Receive(t) ==
    /\ status[t] = "running" /\ outbox[t] = << >> /\ chan[t] # << >>
    /\ chan' = [chan EXCEPT ![t] = Tail(@)]
    /\ LET i == Head(chan[t])
       IN  \/ /\ t[1] = "joiner" /\ outbox' = [outbox EXCEPT ![t] = JoinerSends(t[2], i)]
              /\ UNCHANGED held
           \/ /\ t[1] = "llm" /\ outbox' = [outbox EXCEPT ![t] = LlmSends(t[2], i)]
              /\ UNCHANGED held
           \/ /\ t \in Stateful
              /\ \E out \in {{}, held[t] \cup {i}} :
                    /\ held' = [held EXCEPT ![t] = (@ \cup {i}) \ out]
                    /\ outbox' = [outbox EXCEPT ![t] = Emits(t, SetToSeq(out))]
    /\ UNCHANGED <<unread, capture, status, faults>> /\ UNCHANGED tables

\* A send waits for room; a closed channel ends the loop, and is ignored by the
\* final flush.
Send(t) ==
    /\ outbox[t] # << >>
    /\ LET to == Head(outbox[t])[1]
           i == Head(outbox[t])[2]
       IN  \/ /\ status[t] \in {"running", "flushing"} /\ Room(to)
              /\ chan' = [chan EXCEPT ![to] = Append(@, i)]
              /\ outbox' = [outbox EXCEPT ![t] = Tail(@)]
              /\ UNCHANGED <<held, status>>
           \/ /\ status[t] = "flushing" /\ Gone(to)
              /\ outbox' = [outbox EXCEPT ![t] = Tail(@)]
              /\ UNCHANGED <<chan, held, status>>
           \/ status[t] = "running" /\ Gone(to) /\ Return(t, "ended")
    /\ UNCHANGED <<unread, capture, faults>> /\ UNCHANGED tables

\* Deviation: build keeps its own clones of the shared senders.
SendersGone_OuterClone(t) ==
    CASE t[1] = "dispatcher" -> capture[t[2]] = "done"
      [] t = Unwrap \/ t \in Writers \ {Writer("calls")} -> FALSE
      [] OTHER -> \A u \in Senders(t) : Gone(u)

\* recv returns None once every sender is dropped; build drops its own clones.
SendersGone(t) ==
    IF t[1] = "dispatcher" THEN capture[t[2]] = "done" ELSE \A u \in Senders(t) : Gone(u)

AtEof(t) == status[t] = "running" /\ outbox[t] = << >> /\ chan[t] = << >> /\ SendersGone(t)

\* Deviation: what the tracker and the aggregator hold is dropped.
Eof_NoFlush(t) ==
    /\ AtEof(t) /\ Return(t, "ended")
    /\ UNCHANGED <<unread, capture, faults>> /\ UNCHANGED tables

\* EOF: the tracker and the aggregator emit all they hold, then every stage ends.
Eof(t) ==
    /\ \/ /\ AtEof(t) /\ t \in Stateful
          /\ status' = [status EXCEPT ![t] = "flushing"]
          /\ outbox' = [outbox EXCEPT ![t] = Emits(t, SetToSeq(held[t]))]
          /\ held' = [held EXCEPT ![t] = {}]
          /\ UNCHANGED chan
       \/ AtEof(t) /\ t \notin Stateful /\ Return(t, "ended")
       \/ status[t] = "flushing" /\ outbox[t] = << >> /\ Return(t, "ended")
    /\ UNCHANGED <<unread, capture, faults>> /\ UNCHANGED tables

-----------------------------------------------------------------------------
(* The storage sink.                                                        *)

Store(table, batch) == stored' = [stored EXCEPT ![table] = @ \cup batch]
Drop(table, batch) == failed' = [failed EXCEPT ![table] = @ \cup batch]

\* A batch is stored, or the backend fails and it is dropped; of the two writes
\* of a metrics batch the first may have succeeded.
Flush(table, batch) ==
    \/ /\ Store(table, batch) /\ UNCHANGED <<failed, faults>>
       /\ finish' = IF table = "metrics" THEN finish \cup batch ELSE finish
    \/ Fault(table) /\ Drop(table, batch) /\ UNCHANGED <<stored, finish>>
    \/ /\ table = "metrics" /\ Fault(table)
       /\ Store(table, batch) /\ Drop(table, batch) /\ UNCHANGED finish

\* WriteBuffer::run: an item arrives, and a full batch is flushed.
Buffer(w) ==
    /\ status[w] = "running" /\ chan[w] # << >>
    /\ chan' = [chan EXCEPT ![w] = Tail(@)]
    /\ LET batch == held[w] \cup {Head(chan[w])}
       IN  \/ /\ Cardinality(batch) < Batch
              /\ held' = [held EXCEPT ![w] = batch]
              /\ UNCHANGED faults /\ UNCHANGED tables
           \/ /\ Cardinality(batch) >= Batch
              /\ held' = [held EXCEPT ![w] = {}]
              /\ Flush(w[1], batch)
    /\ UNCHANGED <<unread, capture, outbox, status>>

\* The flush interval.
FlushTick(w) ==
    /\ status[w] = "running" /\ held[w] # {}
    /\ held' = [held EXCEPT ![w] = {}]
    /\ Flush(w[1], held[w])
    /\ UNCHANGED <<unread, capture, chan, outbox, status>>

\* EOF: the last batch is flushed.
FinishWriter(w) ==
    /\ AtEof(w)
    /\ \/ held[w] = {} /\ UNCHANGED faults /\ UNCHANGED tables
       \/ held[w] # {} /\ Flush(w[1], held[w])
    /\ Return(w, "ended")
    /\ UNCHANGED <<unread, capture>>

\* A backend call that never returns.
Hang(w) ==
    /\ status[w] = "running" /\ held[w] # {} /\ Fault(w[1])
    /\ status' = [status EXCEPT ![w] = "hung"]
    /\ UNCHANGED <<unread, capture, chan, outbox, held>>
    /\ UNCHANGED tables

-----------------------------------------------------------------------------
(* Failure.                                                                 *)

\* A task panics and is dropped where it stands.
Panic(t) ==
    /\ status[t] \in {"running", "flushing"} /\ Fault(t[1])
    /\ Return(t, "panicked")
    /\ UNCHANGED <<unread, capture>> /\ UNCHANGED tables

-----------------------------------------------------------------------------

Step(t) == Forward(t) \/ Eof(t)
FanoutStep(t) == Receive(t) \/ Send(t) \/ Eof(t)
WriterStep(w) == Buffer(w) \/ FlushTick(w) \/ FinishWriter(w)

Init ==
    /\ unread = Items /\ capture = [p \in Pipelines |-> "running"]
    /\ chan = [t \in Tasks |-> << >>] /\ outbox = [t \in Tasks |-> << >>]
    /\ held = [t \in Tasks |-> {}] /\ status = [t \in Tasks |-> "running"]
    /\ stored = [x \in Tables |-> {}] /\ finish = {} /\ failed = [x \in Tables |-> {}]
    /\ faults = 0

\* The step of some task the runtime can poll.
Progress ==
    \/ \E t \in Forwarders : Step(t)
    \/ \E t \in Fanouts \cup Stateful : FanoutStep(t)
    \/ \E w \in Writers : WriterStep(w)

Next ==
    \/ \E p \in Pipelines : Read(p) \/ Finish(p)
    \/ Progress
    \/ \E w \in Writers : Hang(w)
    \/ \E t \in Tasks : Panic(t)

\* The runtime does not idle while a task can run: less than the fairness of its
\* scheduler, and enough.  No source need end, no fault need come.
Fairness == WF_vars(Progress)

Spec == Init /\ [][Next]_vars /\ Fairness

-----------------------------------------------------------------------------
(* Properties.                                                              *)

\* Type invariant.
TypeOK ==
    /\ unread \subseteq Items /\ capture \in [Pipelines -> {"running", "done"}]
    /\ chan \in [Tasks -> Seq(Items)] /\ \A t \in Tasks : Len(chan[t]) =< Cap
    /\ outbox \in [Tasks -> Seq(Tasks \X Items)] /\ held \in [Tasks -> SUBSET Items]
    /\ status \in [Tasks -> {"running", "flushing", "hung", "ended", "panicked"}]
    /\ stored \in [Tables -> SUBSET Items] /\ failed \in [Tables -> SUBSET Items]
    /\ finish \subseteq Items /\ faults \in 0..MaxFaults

Destined == [exchanges |-> Items, calls |-> Llm, turns |-> Agents, metrics |-> Llm]

\* The tasks an item passes on its way to each table.
Way ==
    LET front == {"dispatcher", "protocol", "joiner"}
        Via(names) == names \X Pipelines
    IN  [exchanges |-> Via(front) \cup {Writer("exchanges")},
         calls     |-> Via(front \cup {"llm"}) \cup {Unwrap, Writer("calls")},
         turns     |-> Via(front \cup {"llm", "turn"}) \cup {Writer("turns")},
         metrics   |-> Via(front \cup {"llm", "aggregator"}) \cup {Writer("metrics")}]

Outgoing == UNION {Range(outbox[t]) : t \in Fanouts \cup Stateful}

InFlight ==
    [table \in Tables |->
        Destined[table] \cap
            ((UNION {Range(chan[t]) \cup held[t] : t \in Way[table]})
               \cup {s[2] : s \in {x \in Outgoing : x[1] \in Way[table]}})]

Panicked == \E t \in Tasks : status[t] = "panicked"

D == INSTANCE Delivery WITH
        inFlight <- InFlight,
        settled <- [table \in Tables |-> stored[table] \cup failed[table]],
        panicked <- Panicked

\* The stages, channels and buffers implement the delivery of Delivery: an
\* exchange enters the way to all its tables in one step and is settled in each by
\* the flush of one batch, once, and it is lost only after a panic (the wiring of
\* build, the sends of the stage loops, the flushes at EOF).
Delivers == D!Spec

\* The LLM stage never knows of an exchange storage was not given first ("keep
\* storage authoritative for raw transport records").
StorageFirst ==
    \A p \in Pipelines : \A i \in Range(chan[<<"llm", p>>]) :
        \/ i \in Range(chan[Writer("exchanges")]) \cup held[Writer("exchanges")]
        \/ i \in stored["exchanges"] \cup failed["exchanges"]
        \/ status[Writer("exchanges")] = "panicked"

\* A finish-reason row never stands without the row it refines, whichever of the
\* two writes of a batch fails.
FinishHasWide == finish \subseteq stored["metrics"]

\* Storage knows of an exchange before the LLM stage does, and of a row before its
\* finish-reason row, whatever the channels hold and whichever write fails (the
\* sends of the joiner, the two writes of a metrics batch); and the types.
StoredInOrder == TypeOK /\ StorageFirst /\ FinishHasWide

Hung == \E w \in Writers : status[w] = "hung"
AllCaptured == \A p \in Pipelines : capture[p] = "done"

\* The end of the sources reaches every stage of every pipeline and the sink,
\* whatever panics on the way, unless a backend call hangs: the tasks' channels
\* form no cycle and no outer clone of a sender survives build.
EofCascades == AllCaptured ~> (\A t \in Tasks : Gone(t)) \/ Hung

=============================================================================
