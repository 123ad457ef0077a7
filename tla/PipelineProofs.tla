--------------------------- MODULE PipelineProofs ---------------------------
(***************************************************************************)
(* Proofs about the composition root: storage is told first, the stage     *)
(* network implements Delivery, and a process that gave up on a source     *)
(* never exits with success.                                               *)
(***************************************************************************)
EXTENDS Pipeline, Shutdown, TLAPS, FiniteSetTheorems

Statuses == {"running", "flushing", "hung", "ended", "panicked"}
Fans == Fanouts \cup Stateful

\* The types, with the finiteness of what a task holds.
NetType ==
    /\ TypeOK
    /\ \A t \in Tasks : IsFiniteSet(held[t])

\* Storage has been told of exchange i.
Known(i) ==
    \/ i \in Range(chan[Writer("exchanges")]) \cup held[Writer("exchanges")]
    \/ i \in stored["exchanges"] \cup failed["exchanges"]
    \/ status[Writer("exchanges")] = "panicked"

\* What a joiner has left to send: both slices of an exchange, or the LLM stage's,
\* once storage has its own.
JoinerSendsInOrder ==
    \A p \in Pipelines :
        \/ outbox[<<"joiner", p>>] = << >>
        \/ \E i \in Items : outbox[<<"joiner", p>>] = JoinerSends(p, i)
        \/ \E i \in Items : outbox[<<"joiner", p>>] = <<To("llm", p, i)>> /\ Known(i)

\* What an LLM stage, a tracker and an aggregator have left to send.
OthersSend ==
    /\ \A p \in Pipelines : \A k \in DOMAIN outbox[<<"llm", p>>] :
          outbox[<<"llm", p>>][k][1] \in {<<"aggregator", p>>, Unwrap, <<"turn", p>>}
    /\ \A t \in Stateful : \A k \in DOMAIN outbox[t] : outbox[t][k][1] = Sink(t)

\* Only a tracker and an aggregator have something to flush.
FlushersKeep == \A t \in Tasks : status[t] = "flushing" => t \in Stateful

OrderInv ==
    /\ NetType /\ JoinerSendsInOrder /\ OthersSend /\ FlushersKeep
    /\ StorageFirst /\ FinishHasWide

\* A stage ends only when all who could send to it are gone, or after a panic.
EndsInTurn ==
    \A t \in Tasks :
        /\ status[t] = "ended" => SendersGone(t) \/ Panicked
        /\ status[t] = "flushing" =>
              t \in Stateful /\ SendersGone(t) /\ chan[t] = << >> /\ held[t] = {}

\* Only the tracker, the aggregator and the write buffers keep items.
KeepersKeep == \A t \in Tasks \ (Stateful \cup Writers) : held[t] = {}

\* What may be in the channel and in the hands of a task.
Kind(t) ==
    CASE t[1] \in {"unwrap", "calls", "aggregator", "metrics"} -> Llm
      [] t[1] \in {"turn", "turns"} -> Agents
      [] OTHER -> Items

RightKind ==
    /\ \A t \in Tasks : Range(chan[t]) \subseteq Kind(t) /\ held[t] \subseteq Kind(t)
    /\ \A t \in Fans : \A s \in Range(outbox[t]) : s[2] \in Kind(s[1])

\* The places of the items on their way to table x: the channels and the hands of
\* the tasks on the way, and the outboxes, for the entries that go on along it.
Places == {"chan", "held", "out"} \X Tasks

InChan(x, ch, t) == IF t \in Way[x] THEN Range(ch[t]) ELSE {}
InHeld(x, he, t) == IF t \in Way[x] THEN he[t] ELSE {}
OutOf(x, q) == {s[2] : s \in {y \in Range(q) : y[1] \in Way[x]}}
InOut(x, ob, t) == IF t \in Fans THEN OutOf(x, ob[t]) ELSE {}

PlaceOf(x, ch, he, ob) ==
    [c \in Places |-> IF c[1] = "chan" THEN InChan(x, ch, c[2])
                      ELSE IF c[1] = "held" THEN InHeld(x, he, c[2])
                      ELSE InOut(x, ob, c[2])]

Apart(f) == \A a, b \in DOMAIN f : \A i \in f[a] : i \in f[b] => a = b
Everything(f) == UNION {f[a] : a \in DOMAIN f}

\* An outbox sends no item along a way twice.
NoTwice(x, q) ==
    \A j, k \in DOMAIN q :
        q[j][1] \in Way[x] /\ q[k][1] \in Way[x] /\ q[j][2] = q[k][2] => j = k

OnWay(x) == Everything(PlaceOf(x, chan, held, outbox))

\* An item is in one place of each way, once, and in none before it is read.
InOnePlace ==
    /\ \A x \in Tables : Apart(PlaceOf(x, chan, held, outbox)) /\ OnWay(x) \cap unread = {}
    /\ \A t \in Tasks : IsInjective(chan[t])
    /\ \A t \in Fans, x \in Tables : NoTwice(x, outbox[t])

DeliveryInv == OrderInv /\ EndsInTurn /\ KeepersKeep /\ RightKind /\ InOnePlace

-----------------------------------------------------------------------------
(* The tasks and their ways.                                                *)

LEMMA TaskNames ==
  /\ \A t \in Tasks : t = <<t[1], t[2]>>
  /\ \A t \in Tasks : t \in Writers <=> t[1] \in Tables
  /\ \A t \in Tasks : t = Unwrap <=> t[1] = "unwrap"
  /\ \A t \in Tasks \ (Writers \cup {Unwrap}) : t[1] \in StageNames /\ t[2] \in Pipelines
  /\ \A p \in Pipelines, n \in StageNames : <<n, p>> \in Tasks /\ <<n, p>> \notin Writers \cup {Unwrap}
  /\ \A w \in Writers : w \in Tasks /\ w[1] \in Tables /\ w = Writer(w[1])
  /\ Unwrap \in Tasks
  BY PipelineAssumption DEF Tasks, Writers, Writer, Unwrap, StageNames, Tables

LEMMA Ways ==
  /\ Way["exchanges"] = ({"dispatcher", "protocol", "joiner"} \X Pipelines) \cup {Writer("exchanges")}
  /\ Way["calls"] = ({"dispatcher", "protocol", "joiner", "llm"} \X Pipelines) \cup {Unwrap, Writer("calls")}
  /\ Way["turns"] = ({"dispatcher", "protocol", "joiner", "llm", "turn"} \X Pipelines) \cup {Writer("turns")}
  /\ Way["metrics"] = ({"dispatcher", "protocol", "joiner", "llm", "aggregator"} \X Pipelines) \cup {Writer("metrics")}
<1>1. {"dispatcher", "protocol", "joiner"} \cup {"llm"} = {"dispatcher", "protocol", "joiner", "llm"}
      /\ {"dispatcher", "protocol", "joiner"} \cup {"llm", "turn"} = {"dispatcher", "protocol", "joiner", "llm", "turn"}
      /\ {"dispatcher", "protocol", "joiner"} \cup {"llm", "aggregator"} = {"dispatcher", "protocol", "joiner", "llm", "aggregator"}
  OBVIOUS
<1> QED  BY <1>1 DEF Way

-----------------------------------------------------------------------------
(* Sequences without repetition.                                            *)

LEMMA AppendFacts ==
  ASSUME NEW S, NEW s \in Seq(S), NEW x \in S
  PROVE  /\ Append(s, x) \in Seq(S) /\ Len(Append(s, x)) = Len(s) + 1
         /\ Range(Append(s, x)) = Range(s) \cup {x}
         /\ IsInjective(s) /\ x \notin Range(s) => IsInjective(Append(s, x))
<1>1. /\ Append(s, x) \in Seq(S) /\ Len(Append(s, x)) = Len(s) + 1 /\ Len(s) \in Nat
      /\ DOMAIN Append(s, x) = 1..(Len(s) + 1) /\ DOMAIN s = 1..Len(s)
      /\ \A i \in 1..Len(s) : Append(s, x)[i] = s[i]
      /\ Append(s, x)[Len(s) + 1] = x
  OBVIOUS
<1>2. Range(Append(s, x)) = Range(s) \cup {x}
  BY <1>1 DEF Range
<1>3. IsInjective(s) /\ x \notin Range(s) => IsInjective(Append(s, x))
  BY <1>1 DEF Range, IsInjective
<1> QED  BY <1>1, <1>2, <1>3

LEMMA TailFacts ==
  ASSUME NEW S, NEW s \in Seq(S), s # << >>
  PROVE  /\ Head(s) \in S /\ Tail(s) \in Seq(S) /\ Len(Tail(s)) = Len(s) - 1 /\ Len(s) \in Nat
         /\ Range(s) = Range(Tail(s)) \cup {Head(s)}
         /\ IsInjective(s) => IsInjective(Tail(s)) /\ Range(Tail(s)) = Range(s) \ {Head(s)}
<1>1. /\ Head(s) \in S /\ Tail(s) \in Seq(S) /\ Len(Tail(s)) = Len(s) - 1 /\ Len(s) \in Nat \ {0}
      /\ DOMAIN s = 1..Len(s) /\ DOMAIN Tail(s) = 1..(Len(s) - 1) /\ Head(s) = s[1]
      /\ \A i \in 1..(Len(s) - 1) : Tail(s)[i] = s[i + 1]
  OBVIOUS
<1>2. ASSUME NEW y \in Range(s) PROVE y \in Range(Tail(s)) \cup {Head(s)}
  <2>1. PICK i \in 1..Len(s) : y = s[i]
    BY <1>1 DEF Range
  <2>2. CASE i = 1
    BY <1>1, <2>1, <2>2
  <2>3. CASE i # 1
    <3>1. i - 1 \in 1..(Len(s) - 1) /\ (i - 1) + 1 = i
      BY <1>1, <2>3
    <3>2. Tail(s)[i - 1] = y
      BY <1>1, <2>1, <3>1
    <3> QED  BY <1>1, <3>1, <3>2 DEF Range
  <2> QED  BY <2>2, <2>3
<1>3. Range(Tail(s)) \cup {Head(s)} \subseteq Range(s)
  BY <1>1 DEF Range
<1>4. ASSUME IsInjective(s) PROVE IsInjective(Tail(s)) /\ Head(s) \notin Range(Tail(s))
  BY <1>1, <1>4 DEF Range, IsInjective
<1> QED  BY <1>1, <1>2, <1>3, <1>4

\* SetToSeq lists every element once.
LEMMA SetToSeqFacts ==
  ASSUME NEW S, IsFiniteSet(S)
  PROVE  SetToSeq(S) \in Seq(S) /\ Range(SetToSeq(S)) = S /\ IsInjective(SetToSeq(S))
<1> DEFINE n == Cardinality(S)
<1>1. n \in Nat /\ ExistsBijection(1..n, S)
  BY FS_CardinalityType
<1>2. \E f \in [1..n -> S] : IsInjective(f)
  BY <1>1 DEF ExistsBijection, Bijection, Injection
<1>3. SetToSeq(S) \in [1..n -> S] /\ IsInjective(SetToSeq(S))
  BY <1>2 DEF SetToSeq
<1>4. SetToSeq(S) \in Seq(S)
  BY <1>1, <1>3
<1>5. Range(SetToSeq(S)) = S
  <2> DEFINE f == SetToSeq(S)
             R == Range(f)
  <2>1. f \in [1..n -> R] /\ R \subseteq S
    BY <1>3 DEF Range
  <2>2. f \in Bijection(1..n, R)
    BY <1>3, <2>1 DEF Bijection, Injection, Surjection, Range, IsInjective
  <2>3. Cardinality(R) = n
    <3>1. IsFiniteSet(1..n) /\ Cardinality(1..n) = n
      BY <1>1, FS_Interval
    <3> HIDE DEF f, R, n
    <3> QED  BY <2>2, <3>1, FS_Bijection DEF ExistsBijection
  <2> HIDE DEF f, R
  <2>4. R = S
    BY <2>1, <2>3, FS_Subset
  <2> QED  BY <2>4 DEF R, f
<1> QED  BY <1>3, <1>4, <1>5

-----------------------------------------------------------------------------
(* Types.                                                                   *)

\* A task that returns, and the parts of a flush.
LEMMA ReturnTypes ==
  ASSUME NetType, NEW t \in Tasks, NEW how \in Statuses, Return(t, how),
         UNCHANGED <<unread, capture>>, faults' \in 0..MaxFaults,
         stored' \in [Tables -> SUBSET Items], failed' \in [Tables -> SUBSET Items],
         finish' \subseteq Items
  PROVE  NetType'
<1>1. << >> \in Seq(Items) /\ << >> \in Seq(Tasks \X Items) /\ IsFiniteSet({}) /\ Len(<< >>) = 0
  BY FS_EmptySet
<1>2. /\ chan' \in [Tasks -> Seq(Items)] /\ (\A u \in Tasks : Len(chan'[u]) =< Cap)
      /\ outbox' \in [Tasks -> Seq(Tasks \X Items)] /\ held' \in [Tasks -> SUBSET Items]
      /\ \A u \in Tasks : IsFiniteSet(held'[u])
  BY <1>1, PipelineAssumption DEF Return, NetType, TypeOK
<1>3. status' \in [Tasks -> Statuses]
  BY DEF Return, NetType, TypeOK, Statuses
<1> QED  BY <1>2, <1>3 DEF NetType, TypeOK, Statuses

LEMMA FlushTypes ==
  ASSUME NetType, NEW x \in Tables, NEW batch \in SUBSET Items, Flush(x, batch)
  PROVE  /\ stored' \in [Tables -> SUBSET Items] /\ failed' \in [Tables -> SUBSET Items]
         /\ finish' \subseteq Items /\ faults' \in 0..MaxFaults
<1>1. /\ stored \in [Tables -> SUBSET Items] /\ failed \in [Tables -> SUBSET Items]
      /\ finish \subseteq Items /\ faults \in 0..MaxFaults /\ MaxFaults \in Nat
  BY PipelineAssumption DEF NetType, TypeOK
<1>2. stored' \in [Tables -> SUBSET Items] /\ failed' \in [Tables -> SUBSET Items]
      /\ finish' \subseteq Items
  BY <1>1 DEF Flush, Store, Drop
<1>3. faults' \in 0..MaxFaults
  BY <1>1 DEF Flush, Fault
<1> QED  BY <1>2, <1>3

LEMMA ReceiverIsTask ==
  ASSUME NEW t \in Forwarders PROVE Receiver(t) \in Tasks /\ t \in Tasks /\ Receiver(t) # t
  BY DEF Receiver, Forwarders, Tasks, Unwrap, Writers, Writer, StageNames, Tables

LEMMA ReadTypes == ASSUME NetType, NEW p \in Pipelines, Read(p) PROVE NetType'
<1> DEFINE d == <<"dispatcher", p>>
<1>1. d \in Tasks
  BY TaskNames DEF StageNames
<1>2. PICK i \in unread : \/ /\ Room(d) /\ chan' = [chan EXCEPT ![d] = Append(@, i)]
                             /\ unread' = unread \ {i} /\ UNCHANGED capture
                          \/ capture' = [capture EXCEPT ![p] = "done"] /\ UNCHANGED <<unread, chan>>
  BY DEF Read
<1>3. UNCHANGED <<outbox, held, status, faults, stored, finish, failed>>
  BY DEF Read, tables
<1> HIDE DEF d
<1>4. CASE Room(d) /\ chan' = [chan EXCEPT ![d] = Append(@, i)] /\ unread' = unread \ {i}
           /\ UNCHANGED capture
  <2>1. i \in Items /\ chan[d] \in Seq(Items) /\ Len(chan[d]) < Cap
    BY <1>1, <1>4 DEF NetType, TypeOK, Room
  <2>2. Append(chan[d], i) \in Seq(Items) /\ Len(Append(chan[d], i)) =< Cap
    BY <2>1, AppendFacts, PipelineAssumption
  <2> QED  BY <1>1, <1>3, <1>4, <2>2 DEF NetType, TypeOK
<1>5. CASE capture' = [capture EXCEPT ![p] = "done"] /\ UNCHANGED <<unread, chan>>
  BY <1>3, <1>5 DEF NetType, TypeOK
<1> QED  BY <1>2, <1>4, <1>5

LEMMA ForwardTypes == ASSUME NetType, NEW t \in Forwarders, Forward(t) PROVE NetType'
<1> DEFINE to == Receiver(t)
           i == Head(chan[t])
<1>1. t \in Tasks /\ to \in Tasks /\ to # t
  BY ReceiverIsTask
<1>2. UNCHANGED <<unread, capture, faults, stored, finish, failed>> /\ chan[t] # << >>
  BY DEF Forward, tables
<1>3. CASE /\ Room(to) /\ chan' = [chan EXCEPT ![t] = Tail(@), ![to] = Append(@, i)]
           /\ UNCHANGED <<outbox, held, status>>
  <2>1. /\ chan[t] \in Seq(Items) /\ chan[to] \in Seq(Items) /\ Len(chan[to]) < Cap
        /\ Len(chan[t]) =< Cap
    BY <1>1, <1>3 DEF NetType, TypeOK, Room
  <2>2. /\ i \in Items /\ Tail(chan[t]) \in Seq(Items) /\ Len(Tail(chan[t])) =< Cap
        /\ Append(chan[to], i) \in Seq(Items) /\ Len(Append(chan[to], i)) =< Cap
    BY <1>2, <2>1, AppendFacts, TailFacts, PipelineAssumption
  <2> HIDE DEF to, i
  <2> QED  BY <1>1, <1>2, <1>3, <2>2 DEF NetType, TypeOK
<1>4. CASE Return(t, "ended")
  <2> HIDE DEF to, i
  <2> QED  BY <1>1, <1>2, <1>4, ReturnTypes DEF NetType, TypeOK, Statuses
<1> QED  BY <1>3, <1>4 DEF Forward

\* What a stage has to send after an input, and what a final flush sends.
LEMMA SendsTypes ==
  ASSUME NEW p \in Pipelines, NEW i \in Items
  PROVE  JoinerSends(p, i) \in Seq(Tasks \X Items) /\ LlmSends(p, i) \in Seq(Tasks \X Items)
<1>1. /\ To("exchanges", Shared, i) \in Tasks \X Items /\ To("llm", p, i) \in Tasks \X Items
      /\ To("aggregator", p, i) \in Tasks \X Items /\ To("unwrap", Shared, i) \in Tasks \X Items
      /\ To("turn", p, i) \in Tasks \X Items
  BY DEF To, Tasks, StageNames, Writers, Writer, Tables, Unwrap
<1> HIDE DEF To
<1>2. LlmSends(p, i) \in {<< >>,
         <<To("aggregator", p, i), To("unwrap", Shared, i), To("turn", p, i)>>,
         <<To("aggregator", p, i), To("unwrap", Shared, i)>>}
  BY DEF LlmSends
<1>3. ASSUME NEW S, NEW a \in S, NEW b \in S, NEW c \in S
      PROVE  << >> \in Seq(S) /\ <<a, b>> \in Seq(S) /\ <<a, b, c>> \in Seq(S)
  OBVIOUS
<1>4. JoinerSends(p, i) \in Seq(Tasks \X Items)
  BY <1>1, <1>3 DEF JoinerSends
<1>5. /\ << >> \in Seq(Tasks \X Items)
      /\ <<To("aggregator", p, i), To("unwrap", Shared, i), To("turn", p, i)>> \in Seq(Tasks \X Items)
      /\ <<To("aggregator", p, i), To("unwrap", Shared, i)>> \in Seq(Tasks \X Items)
  BY <1>1, <1>3
<1> QED  BY <1>2, <1>4, <1>5

LEMMA EmitsFacts ==
  ASSUME NEW t \in Stateful, NEW S \in SUBSET Items, IsFiniteSet(S)
  PROVE  /\ Emits(t, SetToSeq(S)) \in Seq(Tasks \X Items)
         /\ Range(Emits(t, SetToSeq(S))) = {<<Sink(t), i>> : i \in S}
         /\ IsInjective(Emits(t, SetToSeq(S)))
<1> DEFINE q == SetToSeq(S)
           e == Emits(t, q)
<1>1. q \in Seq(S) /\ Range(q) = S /\ IsInjective(q)
  BY SetToSeqFacts
<1>2. Sink(t) \in Tasks
  BY DEF Sink, Tasks, Writers, Writer, Tables
<1>3. DOMAIN q = 1..Len(q) /\ Len(q) \in Nat /\ \A n \in 1..Len(q) : q[n] \in S
  BY <1>1
<1> HIDE DEF q
<1>4. e = [n \in 1..Len(q) |-> <<Sink(t), q[n]>>]
  BY <1>3 DEF Emits
<1>5. e \in Seq(Tasks \X Items)
  BY <1>2, <1>3, <1>4
<1>6. Range(e) = {<<Sink(t), i>> : i \in S}
  BY <1>1, <1>3, <1>4 DEF Range
<1>7. IsInjective(e)
  BY <1>1, <1>3, <1>4 DEF IsInjective
<1> QED  BY <1>5, <1>6, <1>7 DEF q

LEMMA ReceiveTypes == ASSUME NetType, NEW t \in Fans, Receive(t) PROVE NetType'
<1> DEFINE i == Head(chan[t])
<1>1. t \in Tasks /\ t[2] \in Pipelines
  BY DEF Fans, Fanouts, Stateful, Tasks, StageNames
<1>2. UNCHANGED <<unread, capture, status, faults, stored, finish, failed>> /\ chan[t] # << >>
      /\ chan' = [chan EXCEPT ![t] = Tail(@)]
  BY DEF Receive, tables
<1>3. /\ chan[t] \in Seq(Items) /\ held[t] \subseteq Items /\ IsFiniteSet(held[t])
      /\ Len(chan[t]) =< Cap
  BY <1>1 DEF NetType, TypeOK
<1>4. /\ i \in Items /\ Tail(chan[t]) \in Seq(Items) /\ Len(Tail(chan[t])) =< Cap
  BY <1>2, <1>3, TailFacts, PipelineAssumption
<1> HIDE DEF i
<1>5. chan' \in [Tasks -> Seq(Items)] /\ \A u \in Tasks : Len(chan'[u]) =< Cap
  BY <1>1, <1>2, <1>4 DEF NetType, TypeOK
<1>6. /\ outbox' \in [Tasks -> Seq(Tasks \X Items)] /\ held' \in [Tasks -> SUBSET Items]
      /\ \A u \in Tasks : IsFiniteSet(held'[u])
  <2>1. CASE outbox' = [outbox EXCEPT ![t] = JoinerSends(t[2], i)] /\ UNCHANGED held
    BY <1>1, <1>4, <2>1, SendsTypes DEF NetType, TypeOK
  <2>2. CASE outbox' = [outbox EXCEPT ![t] = LlmSends(t[2], i)] /\ UNCHANGED held
    BY <1>1, <1>4, <2>2, SendsTypes DEF NetType, TypeOK
  <2>3. CASE t \in Stateful /\ \E out \in {{}, held[t] \cup {i}} :
                 /\ held' = [held EXCEPT ![t] = (@ \cup {i}) \ out]
                 /\ outbox' = [outbox EXCEPT ![t] = Emits(t, SetToSeq(out))]
    <3>0. PICK out \in {{}, held[t] \cup {i}} :
                 /\ held' = [held EXCEPT ![t] = (@ \cup {i}) \ out]
                 /\ outbox' = [outbox EXCEPT ![t] = Emits(t, SetToSeq(out))]
      BY <2>3
    <3>1. IsFiniteSet(held[t] \cup {i}) /\ IsFiniteSet({})
      BY <1>3, FS_AddElement, FS_EmptySet
    <3>2. /\ out \subseteq Items /\ IsFiniteSet(out) /\ (held[t] \cup {i}) \ out \subseteq Items
          /\ IsFiniteSet((held[t] \cup {i}) \ out)
      BY <1>3, <1>4, <3>1, FS_Subset
    <3>3. Emits(t, SetToSeq(out)) \in Seq(Tasks \X Items)
      BY <2>3, <3>2, EmitsFacts
    <3> QED  BY <1>1, <3>0, <3>2, <3>3 DEF NetType, TypeOK
  <2> QED  BY <2>1, <2>2, <2>3 DEF Receive, i
<1> QED  BY <1>2, <1>5, <1>6 DEF NetType, TypeOK

LEMMA SendTypes == ASSUME NetType, NEW t \in Fans, Send(t) PROVE NetType'
<1> DEFINE to == Head(outbox[t])[1]
           i == Head(outbox[t])[2]
<1>1. t \in Tasks
  BY DEF Fans, Fanouts, Stateful, Tasks, StageNames
<1>2. UNCHANGED <<unread, capture, faults, stored, finish, failed>> /\ outbox[t] # << >>
  BY DEF Send, tables
<1>3. outbox[t] \in Seq(Tasks \X Items)
  BY <1>1 DEF NetType, TypeOK
<1>4. Head(outbox[t]) \in Tasks \X Items /\ Tail(outbox[t]) \in Seq(Tasks \X Items)
  BY <1>2, <1>3, TailFacts
<1>5. to \in Tasks /\ i \in Items
  BY <1>4
<1> HIDE DEF to, i
<1>6. CASE /\ Room(to) /\ chan' = [chan EXCEPT ![to] = Append(@, i)]
           /\ outbox' = [outbox EXCEPT ![t] = Tail(@)] /\ UNCHANGED <<held, status>>
  <2>1. chan[to] \in Seq(Items) /\ Len(chan[to]) < Cap
    BY <1>5, <1>6 DEF NetType, TypeOK, Room
  <2>2. Append(chan[to], i) \in Seq(Items) /\ Len(Append(chan[to], i)) =< Cap
    BY <1>5, <2>1, AppendFacts, PipelineAssumption
  <2> QED  BY <1>1, <1>2, <1>4, <1>5, <1>6, <2>2 DEF NetType, TypeOK
<1>7. CASE outbox' = [outbox EXCEPT ![t] = Tail(@)] /\ UNCHANGED <<chan, held, status>>
  BY <1>1, <1>2, <1>4, <1>7 DEF NetType, TypeOK
<1>8. CASE Return(t, "ended")
  BY <1>1, <1>2, <1>8, ReturnTypes DEF NetType, TypeOK, Statuses
<1> QED  BY <1>6, <1>7, <1>8 DEF Send, to, i

LEMMA EofTypes == ASSUME NetType, NEW t \in Tasks, Eof(t) PROVE NetType'
<1>1. UNCHANGED <<unread, capture, faults, stored, finish, failed>>
  BY DEF Eof, tables
<1>2. CASE /\ t \in Stateful /\ status' = [status EXCEPT ![t] = "flushing"]
           /\ outbox' = [outbox EXCEPT ![t] = Emits(t, SetToSeq(held[t]))]
           /\ held' = [held EXCEPT ![t] = {}] /\ UNCHANGED chan
  <2>1. held[t] \in SUBSET Items /\ IsFiniteSet(held[t]) /\ IsFiniteSet({})
    BY FS_EmptySet DEF NetType, TypeOK
  <2>2. Emits(t, SetToSeq(held[t])) \in Seq(Tasks \X Items)
    BY <1>2, <2>1, EmitsFacts
  <2> QED  BY <1>1, <1>2, <2>1, <2>2 DEF NetType, TypeOK
<1>3. CASE Return(t, "ended")
  BY <1>1, <1>3, ReturnTypes DEF NetType, TypeOK, Statuses
<1> QED  BY <1>2, <1>3 DEF Eof

LEMMA WriterTypes == ASSUME NetType, NEW w \in Writers, WriterStep(w) \/ Hang(w) PROVE NetType'
<1>1. w \in Tasks /\ w[1] \in Tables
  BY TaskNames
<1>2. /\ chan[w] \in Seq(Items) /\ Len(chan[w]) =< Cap /\ held[w] \in SUBSET Items
      /\ IsFiniteSet(held[w]) /\ IsFiniteSet({})
  BY <1>1, FS_EmptySet DEF NetType, TypeOK
<1>3. CASE Buffer(w)
  <2> DEFINE batch == held[w] \cup {Head(chan[w])}
  <2>1. UNCHANGED <<unread, capture, outbox, status>> /\ chan[w] # << >>
        /\ chan' = [chan EXCEPT ![w] = Tail(@)]
    BY <1>3 DEF Buffer
  <2>2. /\ Head(chan[w]) \in Items /\ Tail(chan[w]) \in Seq(Items) /\ Len(Tail(chan[w])) =< Cap
    BY <1>2, <2>1, TailFacts, PipelineAssumption
  <2>3. batch \in SUBSET Items /\ IsFiniteSet(batch)
    BY <1>2, <2>2, FS_AddElement
  <2> HIDE DEF batch
  <2>4. chan' \in [Tasks -> Seq(Items)] /\ \A u \in Tasks : Len(chan'[u]) =< Cap
    BY <1>1, <2>1, <2>2 DEF NetType, TypeOK
  <2>5. CASE held' = [held EXCEPT ![w] = batch] /\ UNCHANGED faults /\ UNCHANGED tables
    BY <1>1, <2>1, <2>3, <2>4, <2>5 DEF NetType, TypeOK, tables
  <2>6. CASE held' = [held EXCEPT ![w] = {}] /\ Flush(w[1], batch)
    BY <1>1, <1>2, <2>1, <2>3, <2>4, <2>6, FlushTypes DEF NetType, TypeOK
  <2> QED  BY <1>3, <2>5, <2>6 DEF Buffer, batch
<1>4. CASE FlushTick(w)
  BY <1>1, <1>2, <1>4, FlushTypes DEF FlushTick, NetType, TypeOK
<1>5. CASE FinishWriter(w)
  <2>1. Return(w, "ended") /\ UNCHANGED <<unread, capture>>
    BY <1>5 DEF FinishWriter
  <2>2. CASE UNCHANGED faults /\ UNCHANGED tables
    BY <1>1, <2>1, <2>2, ReturnTypes DEF NetType, TypeOK, tables, Statuses
  <2>3. CASE Flush(w[1], held[w])
    BY <1>1, <1>2, <2>1, <2>3, FlushTypes, ReturnTypes DEF Statuses
  <2> QED  BY <1>5, <2>2, <2>3 DEF FinishWriter
<1>6. CASE Hang(w)
  BY <1>1, <1>6, PipelineAssumption DEF Hang, Fault, NetType, TypeOK, tables
<1> QED  BY <1>3, <1>4, <1>5, <1>6 DEF WriterStep

LEMMA PanicTypes == ASSUME NetType, NEW t \in Tasks, Panic(t) PROVE NetType'
<1>1. Return(t, "panicked") /\ UNCHANGED <<unread, capture, stored, finish, failed>>
      /\ faults' \in 0..MaxFaults
  BY PipelineAssumption DEF Panic, Fault, tables, NetType, TypeOK
<1> QED  BY <1>1, ReturnTypes DEF NetType, TypeOK, Statuses

-----------------------------------------------------------------------------
(* Storage is told first.                                                   *)

W == Writer("exchanges")

\* What a returning task changes.
LEMMA ReturnEffects ==
  ASSUME NetType, NEW t \in Tasks, NEW how \in Statuses, Return(t, how)
  PROVE  /\ chan'[t] = << >> /\ outbox'[t] = << >> /\ held'[t] = {} /\ status'[t] = how
         /\ \A u \in Tasks \ {t} : /\ chan'[u] = chan[u] /\ outbox'[u] = outbox[u]
                                   /\ held'[u] = held[u] /\ status'[u] = status[u]
  BY DEF Return, NetType, TypeOK

\* A step that tells storage nothing, sends nothing to the LLM stages and lets the
\* joiners' sends stand.
LEMMA QuietOrder ==
  ASSUME OrderInv, NetType', OthersSend', FinishHasWide', FlushersKeep',
         \A i \in Items : Known(i) => Known(i)',
         \A p \in Pipelines : Range(chan'[<<"llm", p>>]) \subseteq Range(chan[<<"llm", p>>]),
         \A p \in Pipelines : outbox'[<<"joiner", p>>] \in {outbox[<<"joiner", p>>], << >>}
  PROVE  OrderInv'
<1>1. JoinerSendsInOrder'
  <2> SUFFICES ASSUME NEW p \in Pipelines
               PROVE  \/ outbox'[<<"joiner", p>>] = << >>
                      \/ \E i \in Items : outbox'[<<"joiner", p>>] = JoinerSends(p, i)
                      \/ \E i \in Items : outbox'[<<"joiner", p>>] = <<To("llm", p, i)>> /\ Known(i)'
    BY DEF JoinerSendsInOrder, To, JoinerSends, Known
  <2> QED  BY DEF OrderInv, JoinerSendsInOrder
<1>2. StorageFirst'
  <2> SUFFICES ASSUME NEW p \in Pipelines, NEW i \in Range(chan'[<<"llm", p>>]) PROVE Known(i)'
    BY DEF StorageFirst, Known
  <2>1. i \in Range(chan[<<"llm", p>>])
    OBVIOUS
  <2>2. chan[<<"llm", p>>] \in Seq(Items)
    BY TaskNames DEF OrderInv, NetType, TypeOK, StageNames
  <2>3. i \in Items
    BY <2>1, <2>2 DEF Range
  <2>4. Known(i)
    BY <2>1 DEF OrderInv, StorageFirst, Known
  <2> QED  BY <2>3, <2>4
<1> QED  BY <1>1, <1>2 DEF OrderInv

\* Storage does not forget: what the table's writer, its channel and its table have
\* stays there while other tasks work.
LEMMA OthersKeepKnown ==
  ASSUME NEW i \in Items, Known(i),
         Range(chan[W]) \subseteq Range(chan'[W]), held'[W] = held[W], status'[W] = status[W],
         stored["exchanges"] \subseteq stored'["exchanges"],
         failed["exchanges"] \subseteq failed'["exchanges"]
  PROVE  Known(i)'
  BY DEF Known, W

LEMMA PairFacts == \A a, b : <<a, b>>[1] = a /\ <<a, b>>[2] = b
  OBVIOUS

LEMMA TaskFacts ==
  /\ \A p \in Pipelines :
        /\ <<"joiner", p>> \in Fanouts /\ <<"llm", p>> \in Fanouts
        /\ <<"joiner", p>> \in Tasks /\ <<"llm", p>> \in Tasks /\ <<"dispatcher", p>> \in Tasks
  /\ W \in Tasks /\ W \in Writers /\ W \notin Fans \cup Forwarders
  /\ Fans \subseteq Tasks /\ Forwarders \subseteq Tasks /\ Writers \subseteq Tasks
  /\ Fanouts \subseteq Fans /\ Stateful \subseteq Fans
  /\ Forwarders \cap Fans = {} /\ Forwarders \cap Writers = {} /\ Fans \cap Writers = {}
  /\ Fanouts \cap Stateful = {}
  BY PipelineAssumption
     DEF W, Fans, Fanouts, Stateful, Forwarders, Tasks, Writers, Writer, Unwrap, StageNames, Tables

\* A stage that returns leaves nothing to send.
LEMMA ReturnOrder ==
  ASSUME OrderInv, NEW t \in Tasks, t # W, NEW how \in {"ended", "panicked"}, Return(t, how),
         NetType', UNCHANGED <<stored, failed, finish>>
  PROVE  OrderInv'
<1> USE TaskFacts
<1>1. NetType /\ how \in Statuses
  BY DEF OrderInv, Statuses
<1>2. /\ chan'[t] = << >> /\ outbox'[t] = << >> /\ held'[t] = {} /\ status'[t] = how
      /\ \A u \in Tasks \ {t} : /\ chan'[u] = chan[u] /\ outbox'[u] = outbox[u]
                                /\ held'[u] = held[u] /\ status'[u] = status[u]
  BY <1>1, ReturnEffects
<1>3. Range(<< >>) = {} /\ DOMAIN << >> = {}
  BY DEF Range
<1>4. OthersSend'
  <2>1. \A u \in Fans : outbox'[u] = outbox[u] \/ DOMAIN outbox'[u] = {}
    BY <1>2, <1>3
  <2> QED  BY <2>1 DEF OrderInv, OthersSend, Sink
<1>5. FlushersKeep' /\ FinishHasWide'
  BY <1>2 DEF OrderInv, FlushersKeep, FinishHasWide
<1>6. \A i \in Items : Known(i) => Known(i)'
  BY <1>2, OthersKeepKnown
<1>7. \A q \in Pipelines : /\ Range(chan'[<<"llm", q>>]) \subseteq Range(chan[<<"llm", q>>])
                           /\ outbox'[<<"joiner", q>>] \in {outbox[<<"joiner", q>>], << >>}
  BY <1>2, <1>3
<1> QED  BY <1>4, <1>5, <1>6, <1>7, QuietOrder

LEMMA ReadOrder == ASSUME OrderInv, NEW p \in Pipelines, Read(p) \/ Finish(p) PROVE OrderInv'
<1> USE TaskFacts
<1>1. NetType'
  <2>1. CASE Read(p)
    BY <2>1, ReadTypes DEF OrderInv
  <2>2. CASE Finish(p)
    BY <2>2 DEF Finish, tables, OrderInv, NetType, TypeOK
  <2> QED  BY <2>1, <2>2
<1>2. /\ UNCHANGED <<outbox, held, status, stored, failed, finish>>
      /\ \A u \in Tasks \ {<<"dispatcher", p>>} : chan'[u] = chan[u]
  BY DEF Read, Finish, tables, OrderInv, NetType, TypeOK
<1>3. /\ W # <<"dispatcher", p>> /\ \A q \in Pipelines : <<"llm", q>> # <<"dispatcher", p>>
  BY DEF W, Writer
<1>4. OthersSend' /\ FlushersKeep' /\ FinishHasWide'
  BY <1>2 DEF OrderInv, OthersSend, FlushersKeep, FinishHasWide
<1>5. \A i \in Items : Known(i) => Known(i)'
  BY <1>2, <1>3, OthersKeepKnown
<1> QED  BY <1>1, <1>2, <1>3, <1>4, <1>5, QuietOrder

LEMMA ForwardOrder == ASSUME OrderInv, NEW t \in Forwarders, Forward(t) PROVE OrderInv'
<1> USE TaskFacts
<1>1. NetType'
  BY ForwardTypes DEF OrderInv
<1>2. t \in Tasks /\ t # W /\ UNCHANGED <<stored, failed, finish>>
  BY DEF Forward, tables
<1>3. CASE Return(t, "ended")
  BY <1>1, <1>2, <1>3, ReturnOrder
<1>4. CASE /\ chan' = [chan EXCEPT ![t] = Tail(@), ![Receiver(t)] = Append(@, Head(chan[t]))]
           /\ UNCHANGED <<outbox, held, status>>
  <2>1. W # Receiver(t) /\ \A q \in Pipelines : <<"llm", q>> \notin {t, Receiver(t)}
    BY PipelineAssumption DEF W, Writer, Receiver, Forwarders, Unwrap
  <2>2. \A u \in Tasks \ {t, Receiver(t)} : chan'[u] = chan[u]
    BY <1>4 DEF OrderInv, NetType, TypeOK
  <2>3. OthersSend' /\ FlushersKeep' /\ FinishHasWide'
    BY <1>2, <1>4 DEF OrderInv, OthersSend, FlushersKeep, FinishHasWide
  <2>4. \A i \in Items : Known(i) => Known(i)'
    BY <1>2, <1>4, <2>1, <2>2, OthersKeepKnown
  <2> QED  BY <1>1, <1>2, <1>4, <2>1, <2>2, <2>3, <2>4, QuietOrder
<1> QED  BY <1>3, <1>4 DEF Forward

LEMMA ReceiveOrder == ASSUME OrderInv, NEW t \in Fans, Receive(t) PROVE OrderInv'
<1> USE TaskFacts
<1> DEFINE i == Head(chan[t])
<1>1. NetType'
  BY ReceiveTypes DEF OrderInv
<1>2. /\ t \in Tasks /\ t # W /\ UNCHANGED <<stored, failed, finish, status>> /\ chan[t] # << >>
      /\ chan' = [chan EXCEPT ![t] = Tail(@)]
  BY DEF Receive, tables
<1>3. chan[t] \in Seq(Items) /\ outbox[t] \in Seq(Tasks \X Items)
  BY <1>2 DEF OrderInv, NetType, TypeOK
<1>4. /\ i \in Items /\ chan'[t] = Tail(chan[t]) /\ Range(chan'[t]) \subseteq Range(chan[t])
      /\ \A u \in Tasks \ {t} : /\ chan'[u] = chan[u] /\ outbox'[u] = outbox[u]
                                /\ held'[u] = held[u]
  <2>1. chan'[t] = Tail(chan[t]) /\ \A u \in Tasks \ {t} : chan'[u] = chan[u]
    BY <1>2 DEF OrderInv, NetType, TypeOK
  <2>2. i \in Items /\ Range(Tail(chan[t])) \subseteq Range(chan[t])
    BY <1>2, <1>3, TailFacts
  <2>3. \A u \in Tasks \ {t} : outbox'[u] = outbox[u] /\ held'[u] = held[u]
    BY DEF Receive, OrderInv, NetType, TypeOK
  <2> QED  BY <2>1, <2>2, <2>3
<1>5. FlushersKeep' /\ FinishHasWide'
  BY <1>2 DEF OrderInv, FlushersKeep, FinishHasWide
<1>6. \A k \in Items : Known(k) => Known(k)'
  BY <1>2, <1>4, OthersKeepKnown
<1>7. \A q \in Pipelines : Range(chan'[<<"llm", q>>]) \subseteq Range(chan[<<"llm", q>>])
  BY <1>4
<1> HIDE DEF i
<1>8. CASE t[1] = "joiner" /\ outbox' = [outbox EXCEPT ![t] = JoinerSends(t[2], i)]
  <2>1. t = <<"joiner", t[2]>> /\ t[2] \in Pipelines /\ outbox'[t] = JoinerSends(t[2], i)
    BY <1>2, <1>8 DEF OrderInv, NetType, TypeOK, Fans, Fanouts, Stateful
  <2>2. OthersSend'
    <3>1. \A u \in Fans : u # t => outbox'[u] = outbox[u]
      BY <1>4
    <3>2. t \notin Stateful /\ \A q \in Pipelines : <<"llm", q>> # t
      BY <2>1 DEF Stateful
    <3> QED  BY <3>1, <3>2 DEF OrderInv, OthersSend, Sink
  <2>3. JoinerSendsInOrder'
    <3> SUFFICES ASSUME NEW q \in Pipelines
               PROVE  \/ outbox'[<<"joiner", q>>] = << >>
                      \/ \E k \in Items : outbox'[<<"joiner", q>>] = JoinerSends(q, k)
                      \/ \E k \in Items : outbox'[<<"joiner", q>>] = <<To("llm", q, k)>> /\ Known(k)'
      BY DEF JoinerSendsInOrder, To, JoinerSends, Known
    <3>1. CASE q = t[2]
      BY <1>4, <2>1, <3>1
    <3>2. CASE q # t[2]
      <4>0. <<"joiner", q>> # t
        BY <3>2, PairFacts
      <4>1. outbox'[<<"joiner", q>>] = outbox[<<"joiner", q>>]
        BY <1>4, <4>0
      <4> QED  BY <1>6, <4>1 DEF OrderInv, JoinerSendsInOrder
    <3> QED  BY <3>1, <3>2
  <2>4. StorageFirst'
    <3> SUFFICES ASSUME NEW q \in Pipelines, NEW k \in Range(chan'[<<"llm", q>>]) PROVE Known(k)'
      BY DEF StorageFirst, Known
    <3>1. k \in Range(chan[<<"llm", q>>]) /\ chan[<<"llm", q>>] \in Seq(Items)
      BY <1>7 DEF OrderInv, NetType, TypeOK
    <3>2. k \in Items
      BY <3>1 DEF Range
    <3> QED  BY <1>6, <3>1, <3>2 DEF OrderInv, StorageFirst, Known
  <2> QED  BY <1>1, <1>5, <2>2, <2>3, <2>4 DEF OrderInv
<1>9. CASE t[1] # "joiner"
  <2>0. \A q \in Pipelines : <<"joiner", q>> # t
    BY <1>9, PairFacts
  <2>1. \A q \in Pipelines : outbox'[<<"joiner", q>>] = outbox[<<"joiner", q>>]
    BY <1>4, <2>0
  <2>2. OthersSend'
    <3>1. \A q \in Pipelines : \A k \in DOMAIN outbox'[<<"llm", q>>] :
            outbox'[<<"llm", q>>][k][1] \in {<<"aggregator", q>>, Unwrap, <<"turn", q>>}
      <4>1. CASE t = <<"llm", t[2]>> /\ t[2] \in Pipelines
        <5>1. outbox'[t] = LlmSends(t[2], i)
          BY <1>2, <1>9, <4>1 DEF Receive, OrderInv, NetType, TypeOK, Stateful, i
        <5>2. \A k \in DOMAIN LlmSends(t[2], i) :
                LlmSends(t[2], i)[k][1] \in {<<"aggregator", t[2]>>, Unwrap, <<"turn", t[2]>>}
          BY DEF LlmSends, To, Unwrap
        <5>3. \A q \in Pipelines : q # t[2] => outbox'[<<"llm", q>>] = outbox[<<"llm", q>>]
          <6>1. \A q \in Pipelines : q # t[2] => <<"llm", q>> # t
            BY PairFacts
          <6> QED  BY <1>4, <6>1
        <5> QED  BY <4>1, <5>1, <5>2, <5>3 DEF OrderInv, OthersSend
      <4>2. CASE t \in Stateful
        <5>1. \A q \in Pipelines : <<"llm", q>> # t
          BY <4>2
        <5>2. \A q \in Pipelines : outbox'[<<"llm", q>>] = outbox[<<"llm", q>>]
          BY <1>4, <5>1
        <5> QED  BY <5>2 DEF OrderInv, OthersSend
      <4>3. t \in Fanouts => t = <<"llm", t[2]>> /\ t[2] \in Pipelines
        BY <1>9, PairFacts DEF Fanouts
      <4> QED  BY <4>1, <4>2, <4>3 DEF Fans
    <3>2. \A u \in Stateful : \A k \in DOMAIN outbox'[u] : outbox'[u][k][1] = Sink(u)
      <4> SUFFICES ASSUME NEW u \in Stateful, NEW k \in DOMAIN outbox'[u]
                   PROVE  outbox'[u][k][1] = Sink(u)
        OBVIOUS
      <4>1. CASE u # t
        BY <1>4, <4>1 DEF OrderInv, OthersSend
      <4>2. CASE u = t
        <5>1. t[1] # "llm"
          BY <4>2 DEF Stateful
        <5>2. PICK out : outbox' = [outbox EXCEPT ![t] = Emits(t, SetToSeq(out))]
          BY <1>9, <5>1 DEF Receive
        <5>3. outbox'[t] = Emits(t, SetToSeq(out))
          BY <1>2, <5>2 DEF OrderInv, NetType, TypeOK
        <5> QED  BY <4>2, <5>3 DEF Emits
      <4> QED  BY <4>1, <4>2
    <3> QED  BY <3>1, <3>2 DEF OthersSend, Sink
  <2> QED  BY <1>1, <1>5, <1>6, <1>7, <2>1, <2>2, QuietOrder
<1> QED  BY <1>8, <1>9 DEF Receive, i, Stateful

\* Nor does a stage that sends to the tracker, the aggregator or another table.
LEMMA SendsNothingToLlm ==
  ASSUME OrderInv, NetType', OthersSend', NEW t \in Fans, t[1] # "joiner",
         NEW to, to \in {Unwrap, Sink(t), <<"aggregator", t[2]>>, <<"turn", t[2]>>},
         UNCHANGED <<held, status, stored, failed, finish>>,
         \A u \in Tasks \ {t} : outbox'[u] = outbox[u],
         \A u \in Tasks \ {to} : chan'[u] = chan[u]
  PROVE  OrderInv'
<1> USE TaskFacts
<1>1. to # W /\ \A q \in Pipelines : <<"llm", q>> # to
  BY PairFacts, PipelineAssumption DEF W, Writer, Unwrap, Sink
<1>2. \A q \in Pipelines : <<"joiner", q>> # t
  BY PairFacts
<1>3. \A i \in Items : Known(i) => Known(i)'
  BY <1>1, OthersKeepKnown
<1>4. FlushersKeep' /\ FinishHasWide'
  BY DEF OrderInv, FlushersKeep, FinishHasWide
<1>5. \A q \in Pipelines : /\ Range(chan'[<<"llm", q>>]) \subseteq Range(chan[<<"llm", q>>])
                           /\ outbox'[<<"joiner", q>>] \in {outbox[<<"joiner", q>>], << >>}
  BY <1>1, <1>2
<1> QED  BY <1>3, <1>4, <1>5, QuietOrder

\* The send of the first entry, by a stage other than a joiner.
LEMMA OtherSendOrder ==
  ASSUME OrderInv, NEW t \in Fans, t[1] # "joiner", Send(t) PROVE OrderInv'
<1> USE TaskFacts
<1> DEFINE to == Head(outbox[t])[1]
           i == Head(outbox[t])[2]
<1>1. NetType'
  BY SendTypes DEF OrderInv
<1>2. t \in Tasks /\ t # W /\ UNCHANGED <<stored, failed, finish>> /\ outbox[t] # << >>
  BY DEF Send, tables
<1>3. CASE Return(t, "ended")
  BY <1>1, <1>2, <1>3, ReturnOrder
<1>4. CASE outbox' = [outbox EXCEPT ![t] = Tail(@)] /\ UNCHANGED <<held, status>>
           /\ (chan' = [chan EXCEPT ![to] = Append(@, i)] \/ UNCHANGED chan)
  <2>1. /\ outbox'[t] = Tail(outbox[t]) /\ outbox[t] \in Seq(Tasks \X Items)
        /\ \A u \in Tasks \ {t} : outbox'[u] = outbox[u]
        /\ \A u \in Tasks \ {to} : chan'[u] = chan[u]
    BY <1>2, <1>4 DEF OrderInv, NetType, TypeOK
  <2>2. /\ DOMAIN outbox'[t] = 1..(Len(outbox[t]) - 1) /\ DOMAIN outbox[t] = 1..Len(outbox[t])
        /\ Len(outbox[t]) \in Nat \ {0} /\ Head(outbox[t]) = outbox[t][1]
        /\ \A k \in DOMAIN outbox'[t] : outbox'[t][k] = outbox[t][k + 1]
    BY <1>2, <2>1
  <2>3. CASE t \in Fanouts
    <3>1. t = <<"llm", t[2]>> /\ t[2] \in Pipelines
      BY <2>3, PairFacts DEF Fanouts
    <3>2. to \in {<<"aggregator", t[2]>>, Unwrap, <<"turn", t[2]>>}
      BY <2>2, <3>1 DEF OrderInv, OthersSend
    <3>3. \A k \in DOMAIN outbox'[t] : outbox'[t][k][1] \in {<<"aggregator", t[2]>>, Unwrap, <<"turn", t[2]>>}
      <4> SUFFICES ASSUME NEW k \in DOMAIN outbox'[t]
                   PROVE  outbox'[t][k][1] \in {<<"aggregator", t[2]>>, Unwrap, <<"turn", t[2]>>}
        OBVIOUS
      <4>1. k + 1 \in DOMAIN outbox[t] /\ outbox'[t][k] = outbox[t][k + 1]
        BY <2>2
      <4> QED  BY <3>1, <4>1 DEF OrderInv, OthersSend
    <3>4. \A q \in Pipelines : q # t[2] => <<"llm", q>> # t
      BY PairFacts
    <3>5. \A q \in Pipelines : q # t[2] => outbox'[<<"llm", q>>] = outbox[<<"llm", q>>]
      BY <2>1, <3>4
    <3>6. \A u \in Stateful : outbox'[u] = outbox[u]
      BY <2>1, <2>3
    <3>7. OthersSend'
      BY <3>1, <3>3, <3>5, <3>6 DEF OrderInv, OthersSend, Sink
    <3> QED  BY <3>2, <3>7, <2>1, <1>1, <1>2, <1>4, SendsNothingToLlm
  <2>4. CASE t \in Stateful
    <3>1. to = Sink(t)
      BY <2>2, <2>4 DEF OrderInv, OthersSend
    <3>2. \A k \in DOMAIN outbox'[t] : outbox'[t][k][1] = Sink(t)
      <4> SUFFICES ASSUME NEW k \in DOMAIN outbox'[t] PROVE outbox'[t][k][1] = Sink(t)
        OBVIOUS
      <4>1. k + 1 \in DOMAIN outbox[t] /\ outbox'[t][k] = outbox[t][k + 1]
        BY <2>2
      <4> QED  BY <2>4, <4>1 DEF OrderInv, OthersSend
    <3>3. \A u \in Fanouts : outbox'[u] = outbox[u]
      BY <2>1, <2>4
    <3>4. \A u \in Stateful : u # t => outbox'[u] = outbox[u]
      BY <2>1
    <3>5. OthersSend'
      <4>1. \A u \in Stateful : \A k \in DOMAIN outbox'[u] : outbox'[u][k][1] = Sink(u)
        BY <3>2, <3>4 DEF OrderInv, OthersSend
      <4>2. \A q \in Pipelines : outbox'[<<"llm", q>>] = outbox[<<"llm", q>>]
        BY <3>3
      <4> QED  BY <4>1, <4>2 DEF OrderInv, OthersSend, Sink
    <3> QED  BY <3>1, <3>5, <2>1, <1>1, <1>2, <1>4, SendsNothingToLlm
  <2> QED  BY <2>3, <2>4 DEF Fans
<1> QED  BY <1>3, <1>4 DEF Send

\* A joiner's send: storage's slice, then the LLM stage's.
LEMMA JoinerSendOrder ==
  ASSUME OrderInv, NEW p \in Pipelines, Send(<<"joiner", p>>) PROVE OrderInv'
<1> USE TaskFacts
<1> DEFINE t == <<"joiner", p>>
           to == Head(outbox[t])[1]
           i == Head(outbox[t])[2]
<1>1. t \in Fans /\ t \in Tasks /\ t # W /\ UNCHANGED <<stored, failed, finish>> /\ outbox[t] # << >>
  BY DEF Send, tables
<1>2. NetType'
  BY <1>1, SendTypes DEF OrderInv
<1>3. CASE Return(t, "ended")
  BY <1>1, <1>2, <1>3, ReturnOrder
<1>4. status[t] # "flushing"
  BY <1>1 DEF OrderInv, FlushersKeep
<1>5. CASE /\ outbox' = [outbox EXCEPT ![t] = Tail(@)] /\ UNCHANGED <<held, status>>
           /\ chan' = [chan EXCEPT ![to] = Append(@, i)]
  <2>1. /\ outbox'[t] = Tail(outbox[t]) /\ outbox[t] \in Seq(Tasks \X Items)
        /\ \A u \in Tasks \ {t} : outbox'[u] = outbox[u]
        /\ \A u \in Tasks \ {to} : chan'[u] = chan[u]
    BY <1>1, <1>5 DEF OrderInv, NetType, TypeOK
  <2>2. Head(outbox[t]) \in Tasks \X Items
    BY <1>1, <2>1, TailFacts
  <2>3. /\ to \in Tasks /\ i \in Items /\ chan[to] \in Seq(Items)
        /\ chan'[to] = Append(chan[to], i)
    BY <1>5, <2>2 DEF OrderInv, NetType, TypeOK
  <2>4. Range(chan'[to]) = Range(chan[to]) \cup {i}
    BY <2>3, AppendFacts
  <2>5. \A k \in Items : Known(k) => Known(k)'
    BY <1>1, <1>5, <2>1, <2>4, OthersKeepKnown
  <2>6. FlushersKeep' /\ FinishHasWide'
    BY <1>1, <1>5 DEF OrderInv, FlushersKeep, FinishHasWide
  <2>7. OthersSend'
    <3>1. \A q \in Pipelines : <<"llm", q>> # t
      BY PairFacts
    <3>2. \A u \in Stateful : u # t
      BY TaskFacts
    <3>3. /\ \A q \in Pipelines : outbox'[<<"llm", q>>] = outbox[<<"llm", q>>]
          /\ \A u \in Stateful : outbox'[u] = outbox[u]
      BY <2>1, <3>1, <3>2
    <3> QED  BY <3>3 DEF OrderInv, OthersSend, Sink
  <2>0. PICK j \in Items : j = i
    BY <2>3
  <2>8. \/ to = W /\ Known(j)' /\ outbox'[t] = <<To("llm", p, j)>>
        \/ to = <<"llm", p>> /\ Known(j) /\ outbox'[t] = << >>
    <3>1. CASE \E k \in Items : outbox[t] = JoinerSends(p, k)
      <4>1. PICK k \in Items : outbox[t] = JoinerSends(p, k)
        BY <3>1
      <4>2. to = W /\ i = k /\ Tail(outbox[t]) = <<To("llm", p, k)>>
        BY <4>1 DEF JoinerSends, To, W, Writer
      <4>3. j \in Range(chan'[W])
        BY <2>0, <2>4, <4>2
      <4>4. Known(j)'
        BY <4>3 DEF Known, W
      <4> QED  BY <2>0, <2>1, <4>2, <4>4
    <3>2. CASE \E k \in Items : outbox[t] = <<To("llm", p, k)>> /\ Known(k)
      <4>1. PICK k \in Items : outbox[t] = <<To("llm", p, k)>> /\ Known(k)
        BY <3>2
      <4>2. to = <<"llm", p>> /\ i = k /\ Tail(outbox[t]) = << >>
        BY <4>1 DEF To
      <4> QED  BY <2>0, <2>1, <4>1, <4>2
    <3> QED  BY <1>1, <3>1, <3>2 DEF OrderInv, JoinerSendsInOrder
  <2> HIDE DEF to, i
  <2>9. JoinerSendsInOrder'
    <3> SUFFICES ASSUME NEW q \in Pipelines
               PROVE  \/ outbox'[<<"joiner", q>>] = << >>
                      \/ \E k \in Items : outbox'[<<"joiner", q>>] = JoinerSends(q, k)
                      \/ \E k \in Items : outbox'[<<"joiner", q>>] = <<To("llm", q, k)>> /\ Known(k)'
      BY DEF JoinerSendsInOrder, To, JoinerSends, Known
    <3>1. CASE q = p
      BY <2>8, <3>1
    <3>2. CASE q # p
      <4>1. <<"joiner", q>> # t
        BY <3>2, PairFacts
      <4>2. outbox'[<<"joiner", q>>] = outbox[<<"joiner", q>>]
        BY <2>1, <4>1
      <4> QED  BY <2>5, <4>2 DEF OrderInv, JoinerSendsInOrder
    <3> QED  BY <3>1, <3>2
  <2>10. StorageFirst'
    <3> SUFFICES ASSUME NEW q \in Pipelines, NEW k \in Range(chan'[<<"llm", q>>]) PROVE Known(k)'
      BY DEF StorageFirst, Known
    <3>1. <<"llm", q>> # W
      BY DEF W, Writer
    <3>2. CASE k \in Range(chan[<<"llm", q>>])
      <4>1. chan[<<"llm", q>>] \in Seq(Items)
        BY DEF OrderInv, NetType, TypeOK
      <4>2. k \in Items
        BY <3>2, <4>1 DEF Range
      <4> QED  BY <2>5, <3>2, <4>2 DEF OrderInv, StorageFirst, Known
    <3>3. CASE k \notin Range(chan[<<"llm", q>>])
      <4>1. <<"llm", q>> = to /\ k = j
        BY <2>0, <2>1, <2>4, <3>3
      <4> QED  BY <2>5, <2>8, <3>1, <4>1
    <3> QED  BY <3>2, <3>3
  <2> QED  BY <1>2, <2>6, <2>7, <2>9, <2>10 DEF OrderInv
<1> QED  BY <1>3, <1>4, <1>5 DEF Send

LEMMA EofOrder == ASSUME OrderInv, NEW t \in Forwarders \cup Fans, Eof(t) PROVE OrderInv'
<1> USE TaskFacts
<1>1. t \in Tasks /\ t # W /\ UNCHANGED <<stored, failed, finish>>
  BY DEF Eof, tables
<1>2. NetType'
  BY <1>1, EofTypes DEF OrderInv
<1>3. CASE Return(t, "ended")
  BY <1>1, <1>2, <1>3, ReturnOrder
<1>4. CASE /\ t \in Stateful /\ status' = [status EXCEPT ![t] = "flushing"]
           /\ outbox' = [outbox EXCEPT ![t] = Emits(t, SetToSeq(held[t]))]
           /\ held' = [held EXCEPT ![t] = {}] /\ UNCHANGED chan
  <2>1. /\ outbox'[t] = Emits(t, SetToSeq(held[t]))
        /\ \A u \in Tasks \ {t} : /\ outbox'[u] = outbox[u] /\ held'[u] = held[u]
                                  /\ status'[u] = status[u]
    BY <1>1, <1>4 DEF OrderInv, NetType, TypeOK
  <2>2. \A k \in DOMAIN outbox'[t] : outbox'[t][k][1] = Sink(t)
    BY <2>1 DEF Emits
  <2>3. OthersSend'
    <3>1. \A u \in Stateful : \A k \in DOMAIN outbox'[u] : outbox'[u][k][1] = Sink(u)
      <4> SUFFICES ASSUME NEW u \in Stateful, NEW k \in DOMAIN outbox'[u]
                   PROVE  outbox'[u][k][1] = Sink(u)
        OBVIOUS
      <4>1. CASE u = t
        BY <2>2, <4>1
      <4>2. CASE u # t
        BY <2>1, <4>2 DEF OrderInv, OthersSend
      <4> QED  BY <4>1, <4>2
    <3>2. \A q \in Pipelines : outbox'[<<"llm", q>>] = outbox[<<"llm", q>>]
      BY <1>4, <2>1
    <3> QED  BY <3>1, <3>2 DEF OrderInv, OthersSend, Sink
  <2>4. FlushersKeep' /\ FinishHasWide'
    BY <1>1, <1>4, <2>1 DEF OrderInv, FlushersKeep, FinishHasWide
  <2>5. \A k \in Items : Known(k) => Known(k)'
    BY <1>1, <1>4, <2>1, OthersKeepKnown
  <2>6. \A q \in Pipelines : outbox'[<<"joiner", q>>] = outbox[<<"joiner", q>>]
    BY <1>4, <2>1
  <2> QED  BY <1>2, <1>4, <2>3, <2>4, <2>5, <2>6, QuietOrder
<1> QED  BY <1>3, <1>4 DEF Eof

\* A flush keeps the batch in one of the two sets, and a finish row has its row.
LEMMA FlushOrder ==
  ASSUME NetType, FinishHasWide, NEW x \in Tables, NEW batch \in SUBSET Items, Flush(x, batch)
  PROVE  /\ FinishHasWide'
         /\ \A y \in Tables : stored[y] \subseteq stored'[y] /\ failed[y] \subseteq failed'[y]
         /\ batch \subseteq stored'[x] \cup failed'[x]
<1>1. stored \in [Tables -> SUBSET Items] /\ failed \in [Tables -> SUBSET Items]
  BY DEF NetType, TypeOK
<1> QED  BY <1>1 DEF FinishHasWide, Flush, Store, Drop, Fault, Tables

LEMMA WriterOrder == ASSUME OrderInv, NEW w \in Writers, WriterStep(w) \/ Hang(w) PROVE OrderInv'
<1> USE TaskFacts
<1>1. w \in Tasks /\ w[1] \in Tables /\ w = Writer(w[1]) /\ w \notin Fans
  BY TaskNames
<1>2. NetType /\ NetType' /\ FinishHasWide /\ held[w] \in SUBSET Items /\ chan[w] \in Seq(Items)
  BY <1>1, WriterTypes DEF OrderInv, NetType, TypeOK
<1>3. /\ \A u \in Tasks \ {w} : /\ chan'[u] = chan[u] /\ outbox'[u] = outbox[u]
                                /\ held'[u] = held[u] /\ status'[u] = status[u]
      /\ status'[w] \in {status[w], "ended", "hung"}
  <2>1. CASE Buffer(w)
    BY <1>1, <1>2, <2>1 DEF Buffer, NetType, TypeOK
  <2>2. CASE FlushTick(w)
    BY <1>1, <1>2, <2>2 DEF FlushTick, NetType, TypeOK
  <2>3. CASE Return(w, "ended")
    BY <1>1, <1>2, <2>3, ReturnEffects DEF Statuses
  <2>4. CASE Hang(w)
    BY <1>1, <1>2, <2>4 DEF Hang, NetType, TypeOK
  <2> QED  BY <2>1, <2>2, <2>3, <2>4 DEF WriterStep, FinishWriter
<1>4. /\ FinishHasWide'
      /\ \A y \in Tables : stored[y] \subseteq stored'[y] /\ failed[y] \subseteq failed'[y]
      /\ \A k \in Range(chan[w]) \cup held[w] :
            k \in Range(chan'[w]) \cup held'[w] \cup stored'[w[1]] \cup failed'[w[1]]
  <2>1. CASE Buffer(w)
    <3> DEFINE batch == held[w] \cup {Head(chan[w])}
    <3>1. chan[w] # << >> /\ chan' = [chan EXCEPT ![w] = Tail(@)]
      BY <2>1 DEF Buffer
    <3>2. chan'[w] = Tail(chan[w]) /\ Range(chan[w]) = Range(Tail(chan[w])) \cup {Head(chan[w])}
          /\ batch \in SUBSET Items
      BY <1>1, <1>2, <3>1, TailFacts DEF NetType, TypeOK
    <3> HIDE DEF batch
    <3>3. CASE held' = [held EXCEPT ![w] = batch] /\ UNCHANGED tables
      <4>1. held'[w] = batch
        BY <1>1, <1>2, <3>3 DEF NetType, TypeOK
      <4> QED  BY <1>2, <3>2, <3>3, <4>1 DEF tables, FinishHasWide, batch
    <3>4. CASE Flush(w[1], batch)
      BY <1>1, <1>2, <3>2, <3>4, FlushOrder DEF batch
    <3> QED  BY <2>1, <3>3, <3>4 DEF Buffer, batch
  <2>2. CASE FlushTick(w)
    <3>1. Flush(w[1], held[w]) /\ UNCHANGED chan
      BY <2>2 DEF FlushTick
    <3> QED  BY <1>1, <1>2, <3>1, FlushOrder
  <2>3. CASE FinishWriter(w)
    <3>1. chan[w] = << >> /\ Range(<< >>) = {}
      BY <2>3 DEF FinishWriter, AtEof, Range
    <3>2. CASE held[w] = {} /\ UNCHANGED tables
      BY <1>2, <3>1, <3>2 DEF tables, FinishHasWide
    <3>3. CASE Flush(w[1], held[w])
      BY <1>1, <1>2, <3>1, <3>3, FlushOrder
    <3> QED  BY <2>3, <3>2, <3>3 DEF FinishWriter
  <2>4. CASE Hang(w)
    BY <1>2, <2>4 DEF Hang, tables, FinishHasWide
  <2> QED  BY <2>1, <2>2, <2>3, <2>4 DEF WriterStep
<1>5. FlushersKeep'
  BY <1>1, <1>3 DEF OrderInv, FlushersKeep
<1>6. \A u \in Fans : outbox'[u] = outbox[u]
  BY <1>1, <1>3
<1>7. OthersSend'
  BY <1>6 DEF OrderInv, OthersSend, Sink
<1>8. \A k \in Items : Known(k) => Known(k)'
  <2> SUFFICES ASSUME NEW k \in Items, Known(k) PROVE Known(k)'
    OBVIOUS
  <2>1. CASE w # W
    BY <1>3, <1>4, <2>1, OthersKeepKnown DEF Tables
  <2>2. CASE w = W
    <3>1. w[1] = "exchanges" /\ status[W] \notin {"ended", "panicked"}
      BY <2>2 DEF W, Writer, WriterStep, Buffer, FlushTick, FinishWriter, AtEof, Hang
    <3>2. k \in Range(chan[w]) \cup held[w] \/ k \in stored["exchanges"] \cup failed["exchanges"]
      BY <2>2, <3>1 DEF Known, W
    <3>3. k \in Range(chan'[w]) \cup held'[w] \cup stored'["exchanges"] \cup failed'["exchanges"]
      BY <1>4, <3>1, <3>2 DEF Tables
    <3> QED  BY <2>2, <3>3 DEF Known, W
  <2> QED  BY <2>1, <2>2
<1>9. \A q \in Pipelines : chan'[<<"llm", q>>] = chan[<<"llm", q>>]
  BY <1>1, <1>3
<1> QED  BY <1>2, <1>4, <1>5, <1>6, <1>7, <1>8, <1>9, QuietOrder

LEMMA PanicOrder == ASSUME OrderInv, NEW t \in Tasks, Panic(t) PROVE OrderInv'
<1> USE TaskFacts
<1>1. NetType /\ NetType' /\ Return(t, "panicked") /\ UNCHANGED <<stored, failed, finish>>
  BY PanicTypes DEF OrderInv, Panic, tables
<1>2. CASE t # W
  BY <1>1, <1>2, ReturnOrder
<1>3. CASE t = W
  <2>1. status'[W] = "panicked" /\ \A u \in Tasks \ {W} :
          /\ chan'[u] = chan[u] /\ outbox'[u] = outbox[u] /\ status'[u] = status[u]
    BY <1>1, <1>3, ReturnEffects DEF Statuses
  <2>2. \A k \in Items : Known(k)'
    BY <2>1 DEF Known, W
  <2>3. \A u \in Fans : outbox'[u] = outbox[u] /\ chan'[u] = chan[u]
    BY <2>1
  <2>4. OthersSend'
    <3>1. \A q \in Pipelines : outbox'[<<"llm", q>>] = outbox[<<"llm", q>>]
      BY <2>3
    <3>2. \A u \in Stateful : outbox'[u] = outbox[u]
      BY <2>3
    <3> QED  BY <3>1, <3>2 DEF OrderInv, OthersSend, Sink
  <2>5. FlushersKeep' /\ FinishHasWide'
    BY <1>1, <2>1 DEF OrderInv, FlushersKeep, FinishHasWide
  <2> QED  BY <1>1, <2>2, <2>3, <2>4, <2>5, QuietOrder
<1> QED  BY <1>2, <1>3

LEMMA OrderInitially == Init => OrderInv
<1> SUFFICES ASSUME Init PROVE OrderInv
  OBVIOUS
<1> USE TaskFacts
<1>1. << >> \in Seq(Items) /\ << >> \in Seq(Tasks \X Items) /\ Len(<< >>) = 0 /\ DOMAIN << >> = {}
      /\ Range(<< >>) = {} /\ IsFiniteSet({})
  BY FS_EmptySet DEF Range
<1>2. TypeOK
  BY <1>1, PipelineAssumption DEF Init, TypeOK
<1>3. \A t \in Tasks : outbox[t] = << >> /\ held[t] = {} /\ chan[t] = << >> /\ status[t] = "running"
  BY DEF Init
<1>4. NetType /\ FlushersKeep /\ FinishHasWide
  BY <1>1, <1>2, <1>3 DEF NetType, FlushersKeep, FinishHasWide, Init
<1>5. OthersSend /\ JoinerSendsInOrder /\ StorageFirst
  BY <1>1, <1>3 DEF OthersSend, JoinerSendsInOrder, StorageFirst
<1> QED  BY <1>4, <1>5 DEF OrderInv

LEMMA OrderStep == OrderInv /\ [Next]_vars => OrderInv'
<1> SUFFICES ASSUME OrderInv, [Next]_vars PROVE OrderInv'
  OBVIOUS
<1>1. ASSUME NEW p \in Pipelines, Read(p) \/ Finish(p) PROVE OrderInv'
  BY <1>1, ReadOrder
<1>2. ASSUME NEW t \in Forwarders, Step(t) PROVE OrderInv'
  BY <1>2, ForwardOrder, EofOrder DEF Step
<1>3. ASSUME NEW t \in Fanouts \cup Stateful, FanoutStep(t) PROVE OrderInv'
  <2>0. t \in Fans
    BY DEF Fans
  <2>1. CASE Receive(t)
    BY <2>0, <2>1, ReceiveOrder
  <2>2. CASE Send(t) /\ t[1] # "joiner"
    BY <2>0, <2>2, OtherSendOrder
  <2>3. CASE Send(t) /\ t[1] = "joiner"
    <3>1. t = <<"joiner", t[2]>> /\ t[2] \in Pipelines
      BY <2>3, PairFacts DEF Fanouts, Stateful
    <3> QED  BY <2>3, <3>1, JoinerSendOrder
  <2>4. CASE Eof(t)
    BY <2>0, <2>4, EofOrder
  <2> QED  BY <1>3, <2>1, <2>2, <2>3, <2>4 DEF FanoutStep
<1>4. ASSUME NEW w \in Writers, WriterStep(w) \/ Hang(w) PROVE OrderInv'
  BY <1>4, WriterOrder
<1>5. ASSUME NEW t \in Tasks, Panic(t) PROVE OrderInv'
  BY <1>5, PanicOrder
<1>6. CASE UNCHANGED vars
  <2>1. UNCHANGED <<unread, capture, chan, outbox, held, status, stored, finish, failed, faults>>
    BY <1>6 DEF vars
  <2> QED  BY <2>1 DEF OrderInv, NetType, TypeOK, JoinerSendsInOrder, OthersSend, FlushersKeep,
                 StorageFirst, FinishHasWide, Known, Sink
<1> QED  BY <1>1, <1>2, <1>3, <1>4, <1>5, <1>6 DEF Next, Progress

\* Whatever the tasks do, storage is given an exchange before the LLM stage is (the
\* two sends of the joiner), and a finish-reason row is written after the row it
\* refines, for any number of pipelines, items, faults and any channel capacity.
THEOREM StorageIsToldFirst == Spec => []StoredInOrder
<1>1. OrderInv => StoredInOrder
  BY DEF OrderInv, NetType, StoredInOrder
<1> QED  BY <1>1, OrderInitially, OrderStep, PTL DEF Spec

-----------------------------------------------------------------------------
(* The ends of the stages.                                                  *)

LEMMA WayFacts ==
  \A x \in Tables :
    /\ Way[x] \subseteq Tasks
    /\ \A p \in Pipelines :
          /\ <<"dispatcher", p>> \in Way[x] /\ <<"protocol", p>> \in Way[x]
          /\ <<"joiner", p>> \in Way[x]
          /\ <<"llm", p>> \in Way[x] <=> x # "exchanges"
          /\ <<"turn", p>> \in Way[x] <=> x = "turns"
          /\ <<"aggregator", p>> \in Way[x] <=> x = "metrics"
    /\ Unwrap \in Way[x] <=> x = "calls"
    /\ \A y \in Tables : Writer(y) \in Way[x] <=> x = y
<1> SUFFICES ASSUME NEW x \in Tables
             PROVE  /\ Way[x] \subseteq Tasks
                    /\ \A p \in Pipelines :
                          /\ <<"dispatcher", p>> \in Way[x] /\ <<"protocol", p>> \in Way[x]
                          /\ <<"joiner", p>> \in Way[x]
                          /\ <<"llm", p>> \in Way[x] <=> x # "exchanges"
                          /\ <<"turn", p>> \in Way[x] <=> x = "turns"
                          /\ <<"aggregator", p>> \in Way[x] <=> x = "metrics"
                    /\ Unwrap \in Way[x] <=> x = "calls"
                    /\ \A y \in Tables : Writer(y) \in Way[x] <=> x = y
  OBVIOUS
<1> USE PipelineAssumption DEF Tasks, Writers, Writer, Unwrap, StageNames
<1>1. CASE x = "exchanges"
  BY <1>1, Ways DEF Tables
<1>2. CASE x = "calls"
  BY <1>2, Ways DEF Tables
<1>3. CASE x = "turns"
  BY <1>3, Ways DEF Tables
<1>4. CASE x = "metrics"
  BY <1>4, Ways DEF Tables
<1> QED  BY <1>1, <1>2, <1>3, <1>4 DEF Tables

LEMMA SendersFacts ==
  /\ \A p \in Pipelines :
        /\ Senders(<<"protocol", p>>) = {<<"dispatcher", p>>}
        /\ Senders(<<"joiner", p>>) = {<<"protocol", p>>}
        /\ Senders(<<"llm", p>>) = {<<"joiner", p>>}
        /\ Senders(<<"turn", p>>) = {<<"llm", p>>}
        /\ Senders(<<"aggregator", p>>) = {<<"llm", p>>}
  /\ Senders(Unwrap) = {"llm"} \X Pipelines
  /\ Senders(W) = {"joiner"} \X Pipelines
  /\ Senders(Writer("calls")) = {Unwrap}
  /\ Senders(Writer("turns")) = {"turn"} \X Pipelines
  /\ Senders(Writer("metrics")) = {"aggregator"} \X Pipelines
  BY PipelineAssumption DEF Senders, Unwrap, W, Writer, Stateful

\* Nobody sends to a task without holding a sender of its channel.
LEMMA SendersAreTasks == \A t \in Tasks : t[1] # "dispatcher" => Senders(t) \subseteq Tasks
<1> SUFFICES ASSUME NEW t \in Tasks, t[1] # "dispatcher" PROVE Senders(t) \subseteq Tasks
  OBVIOUS
<1>1. CASE t \in Writers
  <2>1. t = Writer("exchanges") \/ t = Writer("calls") \/ t = Writer("turns") \/ t = Writer("metrics")
    BY <1>1 DEF Writers, Tables
  <2>2. /\ {"joiner"} \X Pipelines \subseteq Tasks /\ {"turn"} \X Pipelines \subseteq Tasks
        /\ {"aggregator"} \X Pipelines \subseteq Tasks /\ Unwrap \in Tasks
    BY DEF Tasks, StageNames
  <2> QED  BY <2>1, <2>2, SendersFacts DEF W
<1>2. CASE t = Unwrap
  <2>1. {"llm"} \X Pipelines \subseteq Tasks
    BY DEF Tasks, StageNames
  <2> QED  BY <1>2, <2>1, SendersFacts
<1>3. CASE t \notin Writers \cup {Unwrap}
  <2>1. t = <<t[1], t[2]>> /\ t[1] \in StageNames \ {"dispatcher"} /\ t[2] \in Pipelines
    BY <1>3, TaskNames
  <2>2. \A n \in StageNames, p \in Pipelines : {<<n, p>>} \subseteq Tasks
    BY TaskNames
  <2>3. \E n \in StageNames : Senders(<<t[1], t[2]>>) = {<<n, t[2]>>}
    BY <2>1, SendersFacts DEF StageNames
  <2> QED  BY <2>1, <2>2, <2>3
<1> QED  BY <1>1, <1>2, <1>3

LEMMA ReceiverFacts ==
  ASSUME NEW t \in Forwarders
  PROVE  /\ t \in Senders(Receiver(t)) /\ Receiver(t) \in Tasks \ Stateful
         /\ Receiver(t)[1] # "dispatcher" /\ Receiver(t) # t
         /\ \A x \in Tables : t \in Way[x] <=> Receiver(t) \in Way[x]
         /\ Kind(t) = Kind(Receiver(t)) /\ \E x \in Tables : t \in Way[x]
<1>1. CASE t = Unwrap
  <2>1. Receiver(t) = Writer("calls")
    BY <1>1 DEF Receiver, Unwrap
  <2>2. Kind(Unwrap) = Llm /\ Kind(Writer("calls")) = Llm
    BY DEF Kind, Unwrap, Writer
  <2>3. Unwrap \in Senders(Writer("calls")) /\ "calls" \in Tables
    BY SendersFacts DEF Tables
  <2>4. Writer("calls") \in Tasks \ Stateful /\ Writer("calls")[1] # "dispatcher"
        /\ Writer("calls") # Unwrap
    BY DEF Tasks, Writers, Tables, Writer, Unwrap, Stateful
  <2>5. \A x \in Tables : /\ Unwrap \in Way[x] <=> x = "calls"
                          /\ Writer("calls") \in Way[x] <=> x = "calls"
    BY <2>3, WayFacts
  <2> QED  BY <1>1, <2>1, <2>2, <2>3, <2>4, <2>5
<1>2. ASSUME NEW p \in Pipelines, t = <<"dispatcher", p>>
      PROVE  /\ Receiver(t) = <<"protocol", p>> /\ Kind(t) = Kind(Receiver(t))
             /\ Receiver(t) \in Tasks \ Stateful
  BY <1>2, TaskNames DEF Receiver, Kind, Stateful, StageNames
<1>3. ASSUME NEW p \in Pipelines, t = <<"protocol", p>>
      PROVE  /\ Receiver(t) = <<"joiner", p>> /\ Kind(t) = Kind(Receiver(t))
             /\ Receiver(t) \in Tasks \ Stateful
  BY <1>3, TaskNames DEF Receiver, Kind, Stateful, StageNames
<1>4. ASSUME NEW p \in Pipelines, t = <<"dispatcher", p>> \/ t = <<"protocol", p>>
      PROVE  /\ t \in Senders(Receiver(t)) /\ Receiver(t)[1] # "dispatcher" /\ Receiver(t) # t
             /\ \A x \in Tables : t \in Way[x] <=> Receiver(t) \in Way[x]
             /\ \E x \in Tables : t \in Way[x]
  <2>1. "calls" \in Tables
    BY DEF Tables
  <2>2. CASE t = <<"dispatcher", p>>
    <3>1. t \in Senders(<<"protocol", p>>)
      BY <2>2, SendersFacts
    <3>2. \A x \in Tables : t \in Way[x] /\ <<"protocol", p>> \in Way[x]
      BY <2>2, WayFacts
    <3>3. <<"protocol", p>>[1] # "dispatcher" /\ t # <<"protocol", p>>
      BY <2>2
    <3> QED  BY <1>2, <2>1, <2>2, <3>1, <3>2, <3>3
  <2>3. CASE t = <<"protocol", p>>
    <3>1. t \in Senders(<<"joiner", p>>)
      BY <2>3, SendersFacts
    <3>2. \A x \in Tables : t \in Way[x] /\ <<"joiner", p>> \in Way[x]
      BY <2>3, WayFacts
    <3>3. <<"joiner", p>>[1] # "dispatcher" /\ t # <<"joiner", p>>
      BY <2>3
    <3> QED  BY <1>3, <2>1, <2>3, <3>1, <3>2, <3>3
  <2> QED  BY <1>4, <2>2, <2>3
<1> QED  BY <1>1, <1>2, <1>3, <1>4 DEF Forwarders

\* Whom the entries of an outbox are for.
LEMMA Targets ==
  ASSUME OrderInv, NEW t \in Fans, NEW k \in DOMAIN outbox[t]
  PROVE  /\ outbox[t][k][1] \in Tasks /\ t \in Senders(outbox[t][k][1])
         /\ outbox[t][k][1] # t /\ outbox[t][k][1][1] # "dispatcher" /\ outbox[t][k][2] \in Items
         /\ (\E x \in Tables : outbox[t][k][1] \in Way[x])
<1> DEFINE to == outbox[t][k][1]
<1>0. outbox[t] \in Seq(Tasks \X Items)
  BY TaskFacts DEF OrderInv, NetType, TypeOK
<1>1. outbox[t][k] \in Tasks \X Items
  BY <1>0
<1>2. to \in Tasks /\ outbox[t][k][2] \in Items
  BY <1>1
<1> HIDE DEF to
<1>3. CASE t \in Stateful
  <2>1. to = Sink(t)
    BY <1>3 DEF OrderInv, OthersSend, to
  <2>2. "turns" \in Tables /\ "metrics" \in Tables
    BY DEF Tables
  <2>3. CASE t[1] = "turn"
    <3>1. to = Writer("turns") /\ t \in {"turn"} \X Pipelines
      BY <1>3, <2>1, <2>3 DEF Sink, Stateful
    <3>2. to \in Way["turns"] /\ t \in Senders(to)
      BY <2>2, <3>1, WayFacts, SendersFacts
    <3> QED  BY <1>2, <2>2, <2>3, <3>1, <3>2 DEF Writer, to
  <2>4. CASE t[1] = "aggregator"
    <3>1. to = Writer("metrics") /\ t \in {"aggregator"} \X Pipelines
      BY <1>3, <2>1, <2>4 DEF Sink, Stateful
    <3>2. to \in Way["metrics"] /\ t \in Senders(to)
      BY <2>2, <3>1, WayFacts, SendersFacts
    <3> QED  BY <1>2, <2>2, <2>4, <3>1, <3>2 DEF Writer, to
  <2> QED  BY <1>3, <2>3, <2>4 DEF Stateful
<1>4. ASSUME NEW p \in Pipelines, t = <<"llm", p>>
      PROVE  t \in Senders(to) /\ to # t /\ to[1] # "dispatcher" /\ \E x \in Tables : to \in Way[x]
  <2>1. to \in {<<"aggregator", p>>, Unwrap, <<"turn", p>>}
    BY <1>4 DEF OrderInv, OthersSend, to
  <2>2. "turns" \in Tables /\ "metrics" \in Tables /\ "calls" \in Tables
    BY DEF Tables
  <2>3. to # t /\ to[1] # "dispatcher"
    BY <1>4, <2>1, PairFacts DEF Unwrap
  <2>4. to \in Way["turns"] \cup Way["metrics"] \cup Way["calls"]
    <3>1. /\ <<"aggregator", p>> \in Way["metrics"] /\ <<"turn", p>> \in Way["turns"]
          /\ Unwrap \in Way["calls"]
      BY <2>2, WayFacts
    <3> QED  BY <2>1, <3>1
  <2>5. t \in Senders(to)
    <3>1. /\ t \in Senders(<<"aggregator", p>>) /\ t \in Senders(<<"turn", p>>)
          /\ t \in Senders(Unwrap)
      BY <1>4, SendersFacts
    <3> QED  BY <2>1, <3>1
  <2> QED  BY <2>2, <2>3, <2>4, <2>5
<1>5. ASSUME NEW p \in Pipelines, t = <<"joiner", p>>
      PROVE  t \in Senders(to) /\ to # t /\ to[1] # "dispatcher" /\ \E x \in Tables : to \in Way[x]
  <2>1. \/ outbox[t] = << >>
        \/ \E i \in Items : outbox[t] = <<To("exchanges", Shared, i), To("llm", p, i)>>
        \/ \E i \in Items : outbox[t] = <<To("llm", p, i)>>
    BY <1>5 DEF OrderInv, JoinerSendsInOrder, JoinerSends
  <2>2. to \in {W, <<"llm", p>>}
    BY <2>1 DEF to, To, W, Writer
  <2>3. "turns" \in Tables /\ "exchanges" \in Tables
    BY DEF Tables
  <2>4. to # t /\ to[1] # "dispatcher"
    BY <1>5, <2>2, PairFacts DEF W, Writer
  <2>5. to \in Way["turns"] \cup Way["exchanges"]
    <3>1. <<"llm", p>> \in Way["turns"]
      BY <2>3, WayFacts
    <3>2. W \in Way["exchanges"]
      BY <2>3, WayFacts DEF W
    <3> QED  BY <2>2, <3>1, <3>2
  <2>6. t \in Senders(to)
    <3>1. t \in Senders(<<"llm", p>>) /\ t \in Senders(W)
      BY <1>5, SendersFacts
    <3> QED  BY <2>2, <3>1
  <2> QED  BY <2>3, <2>4, <2>5, <2>6
<1> QED  BY <1>2, <1>3, <1>4, <1>5 DEF Fans, Fanouts, to

\* A task that is gone stays gone, a source that is done stays done.
LEMMA GoneStays ==
  ASSUME NetType, [Next]_vars
  PROVE  /\ \A u \in Tasks : Gone(u) => status'[u] = status[u]
         /\ \A p \in Pipelines : capture[p] = "done" => capture'[p] = "done"
<1>0. status \in [Tasks -> Statuses] /\ capture \in [Pipelines -> {"running", "done"}]
  BY DEF NetType, TypeOK, Statuses
<1>1. ASSUME NEW t \in Tasks, NEW how, status[t] \in {"running", "flushing"}, Return(t, how),
             UNCHANGED capture
      PROVE  /\ \A u \in Tasks : Gone(u) => status'[u] = status[u]
             /\ \A p \in Pipelines : capture[p] = "done" => capture'[p] = "done"
  BY <1>0, <1>1 DEF Return, Gone
<1>2. ASSUME NEW p \in Pipelines, Read(p) \/ Finish(p)
      PROVE  UNCHANGED status /\ \A q \in Pipelines : capture[q] = "done" => capture'[q] = "done"
  BY <1>0, <1>2 DEF Read, Finish
<1>3. ASSUME NEW t \in Tasks, Forward(t) \/ Receive(t) \/ Send(t)
      PROVE  UNCHANGED capture /\ (UNCHANGED status \/ (status[t] = "running" /\ Return(t, "ended")))
  BY <1>3 DEF Forward, Receive, Send
<1>4. ASSUME NEW t \in Tasks, Eof(t)
      PROVE  /\ UNCHANGED capture /\ status[t] \in {"running", "flushing"}
             /\ status' = [status EXCEPT ![t] = "flushing"] \/ Return(t, "ended")
  BY <1>4 DEF Eof, AtEof
<1>5. ASSUME NEW w \in Tasks, WriterStep(w) \/ Hang(w)
      PROVE  /\ UNCHANGED capture
             /\ \/ UNCHANGED status
                \/ status[w] = "running" /\ status' = [status EXCEPT ![w] = "hung"]
                \/ status[w] = "running" /\ Return(w, "ended")
  BY <1>5 DEF WriterStep, Buffer, FlushTick, FinishWriter, Hang, AtEof
<1>6. ASSUME NEW t \in Tasks, Panic(t)
      PROVE  UNCHANGED capture /\ status[t] \in {"running", "flushing"} /\ Return(t, "panicked")
  BY <1>6 DEF Panic
<1>7. CASE \E p \in Pipelines : Read(p) \/ Finish(p)
  BY <1>2, <1>7
<1>8. CASE \E t \in Tasks : Forward(t) \/ Receive(t) \/ Send(t)
  BY <1>1, <1>3, <1>8
<1>9. CASE \E t \in Tasks : Eof(t)
  <2>1. PICK t \in Tasks : Eof(t)
    BY <1>9
  <2>2. CASE status' = [status EXCEPT ![t] = "flushing"]
    BY <1>0, <1>4, <2>1, <2>2 DEF Gone
  <2> QED  BY <1>1, <1>4, <2>1, <2>2
<1>10. CASE \E w \in Tasks : WriterStep(w) \/ Hang(w)
  <2>1. PICK w \in Tasks : WriterStep(w) \/ Hang(w)
    BY <1>10
  <2>2. CASE status[w] = "running" /\ status' = [status EXCEPT ![w] = "hung"]
    BY <1>0, <1>5, <2>1, <2>2 DEF Gone
  <2> QED  BY <1>1, <1>5, <2>1, <2>2
<1>11. CASE \E t \in Tasks : Panic(t)
  BY <1>1, <1>6, <1>11
<1>12. CASE UNCHANGED vars
  BY <1>12 DEF vars
<1> QED  BY <1>7, <1>8, <1>9, <1>10, <1>11, <1>12, TaskFacts
         DEF Next, Progress, Step, FanoutStep, Fans

LEMMA EndsStay ==
  ASSUME NetType, [Next]_vars
  PROVE  /\ Panicked => Panicked'
         /\ \A t \in Tasks : SendersGone(t) => SendersGone(t)'
<1>1. Panicked => Panicked'
  BY GoneStays DEF Panicked, Gone
<1>2. ASSUME NEW t \in Tasks, SendersGone(t) PROVE SendersGone(t)'
  <2>1. CASE t[1] = "dispatcher"
    <3>1. t[2] \in Pipelines
      BY <2>1, TaskNames DEF Writers, Writer, Tables, Unwrap
    <3> QED  BY <1>2, <2>1, <3>1, GoneStays DEF SendersGone
  <2>2. CASE t[1] # "dispatcher"
    <3>1. \A u \in Senders(t) : Gone(u) /\ u \in Tasks
      BY <1>2, <2>2, SendersAreTasks DEF SendersGone
    <3>2. \A u \in Senders(t) : status'[u] \in {"ended", "panicked"}
      BY <3>1, GoneStays DEF Gone
    <3> QED  BY <2>2, <3>2 DEF SendersGone, Gone
  <2> QED  BY <2>1, <2>2
<1> QED  BY <1>1, <1>2

\* A receiver is gone before its sender only after a panic.
LEMMA GoneMeansPanicked ==
  ASSUME EndsInTurn, NEW t \in Tasks, NEW to \in Tasks, status[t] \in {"running", "flushing"},
         t \in Senders(to), to[1] # "dispatcher", Gone(to)
  PROVE  Panicked
<1>1. CASE status[to] = "panicked"
  BY <1>1 DEF Panicked
<1>2. CASE status[to] = "ended"
  <2>1. ~ Gone(t)
    BY DEF Gone
  <2>2. ~ SendersGone(to)
    BY <2>1 DEF SendersGone
  <2> QED  BY <1>2, <2>2 DEF EndsInTurn
<1> QED  BY <1>1, <1>2 DEF Gone

\* What the steps have to show of the stages that end or flush.
LEMMA EndsFrom ==
  ASSUME NetType, EndsInTurn, [Next]_vars,
         \A t \in Tasks :
            /\ status'[t] = "ended" => status[t] = "ended" \/ SendersGone(t) \/ Panicked
            /\ status'[t] = "flushing" =>
                  /\ status[t] = "flushing" \/ (t \in Stateful /\ SendersGone(t))
                  /\ chan'[t] = << >> /\ held'[t] = {}
  PROVE  EndsInTurn'
<1>1. ASSUME NEW t \in Tasks, status'[t] = "ended" PROVE SendersGone(t)' \/ Panicked'
  BY <1>1, EndsStay DEF EndsInTurn
<1>2. ASSUME NEW t \in Tasks, status'[t] = "flushing"
      PROVE  t \in Stateful /\ SendersGone(t)' /\ chan'[t] = << >> /\ held'[t] = {}
  BY <1>2, EndsStay DEF EndsInTurn
<1>3. \A t \in Tasks : /\ status'[t] = "ended" => SendersGone(t)' \/ Panicked'
                       /\ status'[t] = "flushing" =>
                            t \in Stateful /\ SendersGone(t)' /\ chan'[t] = << >> /\ held'[t] = {}
  BY <1>1, <1>2
<1> QED  BY <1>3 DEF EndsInTurn, SendersGone, Panicked, Gone

\* A task that returns.
LEMMA ReturnEnds ==
  ASSUME NetType, EndsInTurn, [Next]_vars, NEW t \in Tasks, NEW how \in {"ended", "panicked"},
         Return(t, how), how = "ended" => SendersGone(t) \/ Panicked
  PROVE  EndsInTurn'
<1>1. /\ chan'[t] = << >> /\ held'[t] = {} /\ status'[t] = how
      /\ \A u \in Tasks \ {t} : chan'[u] = chan[u] /\ held'[u] = held[u] /\ status'[u] = status[u]
  BY ReturnEffects DEF Statuses
<1> QED  BY <1>1, EndsFrom DEF EndsInTurn

\* A task that works on, and gives something to a stage that is still fed.
LEMMA WorkEnds ==
  ASSUME NetType, EndsInTurn, [Next]_vars, NEW t \in Tasks, status[t] # "flushing",
         NEW to \in Tasks, ~ SendersGone(to),
         UNCHANGED status,
         \A u \in Tasks \ {t, to} : chan'[u] = chan[u], \A u \in Tasks \ {t} : held'[u] = held[u]
  PROVE  EndsInTurn'
<1>1. status[to] # "flushing"
  BY DEF EndsInTurn
<1> QED  BY <1>1, EndsFrom DEF EndsInTurn

LEMMA EndsStep == ASSUME OrderInv, EndsInTurn, [Next]_vars PROVE EndsInTurn'
<1> USE TaskFacts
<1>0. NetType /\ NetType'
  BY OrderStep DEF OrderInv
<1>1. ASSUME NEW p \in Pipelines, Read(p) \/ Finish(p) PROVE EndsInTurn'
  <2>1. CASE UNCHANGED <<chan, held, status>>
    BY <1>0, <2>1, EndsFrom DEF EndsInTurn
  <2>2. CASE ~ UNCHANGED <<chan, held, status>>
    <3>1. /\ UNCHANGED <<held, status>> /\ capture[p] = "running"
          /\ \A u \in Tasks \ {<<"dispatcher", p>>} : chan'[u] = chan[u]
      BY <1>0, <1>1, <2>2 DEF Read, Finish, NetType, TypeOK
    <3>2. <<"dispatcher", p>> \notin Stateful
      BY DEF Stateful
    <3>3. status[<<"dispatcher", p>>] # "flushing"
      BY <3>2 DEF EndsInTurn
    <3> QED  BY <1>0, <3>1, <3>3, EndsFrom DEF EndsInTurn
  <2> QED  BY <2>1, <2>2
<1>2. ASSUME NEW t \in Forwarders, Forward(t) PROVE EndsInTurn'
  <2>1. /\ t \in Tasks /\ status[t] = "running" /\ Receiver(t) \in Tasks /\ t \in Senders(Receiver(t))
        /\ Receiver(t)[1] # "dispatcher" /\ ~ Gone(t)
    BY <1>2, ReceiverFacts DEF Forward, Gone
  <2>2. CASE Gone(Receiver(t)) /\ Return(t, "ended")
    BY <1>0, <2>1, <2>2, ReturnEnds, GoneMeansPanicked
  <2>3. CASE chan' = [chan EXCEPT ![t] = Tail(@), ![Receiver(t)] = Append(@, Head(chan[t]))]
             /\ UNCHANGED <<outbox, held, status>>
    <3>1. ~ SendersGone(Receiver(t))
      BY <2>1 DEF SendersGone
    <3>2. \A u \in Tasks \ {t, Receiver(t)} : chan'[u] = chan[u]
      BY <1>0, <2>3 DEF NetType, TypeOK
    <3> QED  BY <1>0, <2>1, <2>3, <3>1, <3>2, WorkEnds
  <2> QED  BY <1>2, <2>2, <2>3 DEF Forward
<1>3. ASSUME NEW t \in Fans, Receive(t) PROVE EndsInTurn'
  <2>1. /\ t \in Tasks /\ status[t] = "running" /\ UNCHANGED status
        /\ \A u \in Tasks \ {t} : chan'[u] = chan[u] /\ held'[u] = held[u]
    BY <1>0, <1>3 DEF Receive, NetType, TypeOK
  <2> QED  BY <1>0, <2>1, EndsFrom DEF EndsInTurn
<1>4. ASSUME NEW t \in Fans, Send(t) PROVE EndsInTurn'
  <2> DEFINE to == Head(outbox[t])[1]
  <2>1. t \in Tasks /\ outbox[t] \in Seq(Tasks \X Items) /\ outbox[t] # << >>
        /\ status[t] \in {"running", "flushing"} /\ ~ Gone(t)
    BY <1>0, <1>4 DEF Send, NetType, TypeOK, Gone
  <2>2. 1 \in DOMAIN outbox[t] /\ Head(outbox[t]) = outbox[t][1]
    BY <2>1
  <2>3. to \in Tasks /\ t \in Senders(to) /\ to[1] # "dispatcher" /\ to # t
    BY <2>2, Targets
  <2> HIDE DEF to
  <2>4. CASE status[t] = "running" /\ Gone(to) /\ Return(t, "ended")
    BY <1>0, <2>1, <2>3, <2>4, ReturnEnds, GoneMeansPanicked
  <2>5. CASE UNCHANGED <<chan, held, status>>
    BY <1>0, <2>5, EndsFrom DEF EndsInTurn
  <2>6. CASE (\E i : chan' = [chan EXCEPT ![to] = Append(@, i)]) /\ UNCHANGED <<held, status>>
    <3>1. ~ SendersGone(to)
      BY <2>1, <2>3 DEF SendersGone
    <3>2. \A u \in Tasks \ {to} : chan'[u] = chan[u]
      BY <1>0, <2>6 DEF NetType, TypeOK
    <3>3. status[to] # "flushing"
      BY <2>3, <3>1 DEF EndsInTurn
    <3> QED  BY <1>0, <2>6, <3>2, <3>3, EndsFrom DEF EndsInTurn
  <2> QED  BY <1>4, <2>4, <2>5, <2>6 DEF Send, to
<1>5. ASSUME NEW t \in Tasks, Eof(t) PROVE EndsInTurn'
  <2>1. CASE /\ AtEof(t) /\ t \in Stateful /\ status' = [status EXCEPT ![t] = "flushing"]
             /\ held' = [held EXCEPT ![t] = {}] /\ UNCHANGED chan
    <3>1. /\ SendersGone(t) /\ chan'[t] = << >> /\ held'[t] = {}
          /\ \A u \in Tasks \ {t} : /\ chan'[u] = chan[u] /\ held'[u] = held[u]
                                    /\ status'[u] = status[u]
          /\ status'[t] = "flushing"
      BY <1>0, <2>1 DEF AtEof, NetType, TypeOK
    <3> QED  BY <1>0, <2>1, <3>1, EndsFrom DEF EndsInTurn
  <2>2. CASE AtEof(t) /\ Return(t, "ended")
    BY <1>0, <2>2, ReturnEnds DEF AtEof
  <2>3. CASE status[t] = "flushing" /\ Return(t, "ended")
    BY <1>0, <2>3, ReturnEnds DEF EndsInTurn
  <2> QED  BY <1>5, <2>1, <2>2, <2>3 DEF Eof
<1>6. ASSUME NEW w \in Writers, WriterStep(w) \/ Hang(w) PROVE EndsInTurn'
  <2>1. CASE FinishWriter(w)
    BY <1>0, <2>1, ReturnEnds DEF FinishWriter, AtEof
  <2>2. CASE Buffer(w) \/ FlushTick(w) \/ Hang(w)
    <3>1. /\ status'[w] \in {"running", "hung"}
          /\ \A u \in Tasks \ {w} : chan'[u] = chan[u] /\ held'[u] = held[u] /\ status'[u] = status[u]
      BY <1>0, <2>2 DEF Buffer, FlushTick, Hang, NetType, TypeOK
    <3> QED  BY <1>0, <3>1, EndsFrom DEF EndsInTurn
  <2> QED  BY <1>6, <2>1, <2>2 DEF WriterStep
<1>7. ASSUME NEW t \in Tasks, Panic(t) PROVE EndsInTurn'
  BY <1>0, <1>7, ReturnEnds DEF Panic
<1>8. CASE UNCHANGED vars
  BY <1>0, <1>8, EndsFrom DEF EndsInTurn, vars
<1> QED  BY <1>1, <1>2, <1>3, <1>4, <1>5, <1>6, <1>7, <1>8 DEF Next, Progress, Step, FanoutStep, Fans

-----------------------------------------------------------------------------
(* What is where.                                                           *)

LEMMA KindFacts ==
  /\ \A p \in Pipelines : /\ Kind(<<"dispatcher", p>>) = Items /\ Kind(<<"llm", p>>) = Items
                          /\ Kind(<<"turn", p>>) = Agents /\ Kind(<<"aggregator", p>>) = Llm
  /\ Kind(Unwrap) = Llm /\ Kind(W) = Items
  /\ \A x \in Tables : Kind(Writer(x)) = Destined[x]
  /\ \A t \in Stateful : Kind(Sink(t)) = Kind(t)
  BY DEF Kind, Unwrap, W, Writer, Tables, Destined, Stateful, Sink

\* What the steps have to show of the tasks they change.
LEMMA KeepFrom ==
  ASSUME KeepersKeep, RightKind, NetType', NEW A \in SUBSET Tasks,
         \A u \in Tasks \ A : chan'[u] = chan[u] /\ held'[u] = held[u] /\ outbox'[u] = outbox[u],
         \A u \in A : /\ Range(chan'[u]) \subseteq Kind(u) /\ held'[u] \subseteq Kind(u)
                      /\ u \notin Stateful \cup Writers => held'[u] = {}
                      /\ u \in Fans => \A k \in DOMAIN outbox'[u] : outbox'[u][k][2] \in Kind(outbox'[u][k][1])
  PROVE  KeepersKeep' /\ RightKind'
<1> USE TaskFacts
<1>1. KeepersKeep'
  BY DEF KeepersKeep
<1>2. ASSUME NEW u \in Tasks PROVE Range(chan'[u]) \subseteq Kind(u) /\ held'[u] \subseteq Kind(u)
  BY DEF RightKind
<1>3. ASSUME NEW u \in Fans, NEW s \in Range(outbox'[u]) PROVE s[2] \in Kind(s[1])
  <2>1. CASE u \in A
    BY <2>1 DEF Range
  <2>2. CASE u \notin A
    BY <2>2 DEF RightKind
  <2> QED  BY <2>1, <2>2
<1>4. RightKind'
  BY <1>2, <1>3 DEF RightKind, Kind
<1> QED  BY <1>1, <1>4

LEMMA KeepOne ==
  ASSUME KeepersKeep, RightKind, NetType', NEW t \in Tasks,
         \A u \in Tasks \ {t} : chan'[u] = chan[u] /\ held'[u] = held[u] /\ outbox'[u] = outbox[u],
         Range(chan'[t]) \subseteq Kind(t), held'[t] \subseteq Kind(t),
         t \notin Stateful \cup Writers => held'[t] = {},
         t \in Fans => \A k \in DOMAIN outbox'[t] : outbox'[t][k][2] \in Kind(outbox'[t][k][1])
  PROVE  KeepersKeep' /\ RightKind'
<1>1. {t} \in SUBSET Tasks
  OBVIOUS
<1>2. \A u \in {t} : /\ Range(chan'[u]) \subseteq Kind(u) /\ held'[u] \subseteq Kind(u)
                     /\ u \notin Stateful \cup Writers => held'[u] = {}
                     /\ u \in Fans => \A k \in DOMAIN outbox'[u] : outbox'[u][k][2] \in Kind(outbox'[u][k][1])
  OBVIOUS
<1> QED  BY <1>1, <1>2, KeepFrom

LEMMA ReturnKeeps ==
  ASSUME NetType, NetType', KeepersKeep, RightKind, NEW t \in Tasks, NEW how \in Statuses,
         Return(t, how)
  PROVE  KeepersKeep' /\ RightKind'
<1>1. /\ chan'[t] = << >> /\ held'[t] = {} /\ outbox'[t] = << >>
      /\ \A u \in Tasks \ {t} : chan'[u] = chan[u] /\ held'[u] = held[u] /\ outbox'[u] = outbox[u]
  BY ReturnEffects
<1>2. Range(<< >>) = {} /\ DOMAIN << >> = {}
  BY DEF Range
<1>3. {t} \in SUBSET Tasks
  OBVIOUS
<1> QED  BY <1>1, <1>2, <1>3, KeepFrom

LEMMA KeepStep ==
  ASSUME OrderInv, KeepersKeep, RightKind, [Next]_vars PROVE KeepersKeep' /\ RightKind'
<1> USE TaskFacts
<1>0. NetType /\ NetType'
  BY OrderStep DEF OrderInv
<1>1. ASSUME NEW p \in Pipelines, Read(p) \/ Finish(p) PROVE KeepersKeep' /\ RightKind'
  <2> DEFINE d == <<"dispatcher", p>>
  <2>1. UNCHANGED <<held, outbox>> /\ \A u \in Tasks \ {d} : chan'[u] = chan[u]
    BY <1>0, <1>1 DEF Read, Finish, NetType, TypeOK
  <2>2. chan'[d] \in Seq(Items)
    BY <1>0 DEF NetType, TypeOK
  <2>3. Range(chan'[d]) \subseteq Kind(d)
    <3>1. Kind(d) = Items
      BY KindFacts
    <3>2. Range(chan'[d]) \subseteq Items
      BY <2>2 DEF Range
    <3> QED  BY <3>1, <3>2
  <2>4. d \notin Fans \cup Stateful \cup Writers
    BY DEF Fans, Fanouts, Stateful, Writers, Writer, Tables
  <2>5. held'[d] = {}
    BY <2>1, <2>4 DEF KeepersKeep
  <2>6. d \in Tasks /\ held'[d] \subseteq Kind(d)
    BY <2>5
  <2> HIDE DEF d
  <2> QED  BY <1>0, <2>1, <2>3, <2>4, <2>5, <2>6, KeepOne
<1>2. ASSUME NEW t \in Forwarders, Forward(t) PROVE KeepersKeep' /\ RightKind'
  <2> DEFINE to == Receiver(t)
             i == Head(chan[t])
  <2>1. t \in Tasks /\ to \in Tasks /\ to # t /\ chan[t] # << >> /\ Kind(t) = Kind(to)
        /\ to \notin Stateful
    BY <1>2, ReceiverFacts DEF Forward
  <2>2. CASE Return(t, "ended")
    BY <1>0, <2>1, <2>2, ReturnKeeps DEF Statuses
  <2>3. CASE chan' = [chan EXCEPT ![t] = Tail(@), ![to] = Append(@, i)] /\ UNCHANGED <<outbox, held>>
    <3>1. chan[t] \in Seq(Items) /\ chan[to] \in Seq(Items)
      BY <1>0, <2>1 DEF NetType, TypeOK
    <3>2. Range(chan[t]) = Range(Tail(chan[t])) \cup {i} /\ i \in Items
      BY <2>1, <3>1, TailFacts
    <3>3. Range(Append(chan[to], i)) = Range(chan[to]) \cup {i}
      BY <3>1, <3>2, AppendFacts
    <3> HIDE DEF to, i
    <3>4. /\ chan'[t] = Tail(chan[t]) /\ chan'[to] = Append(chan[to], i)
          /\ \A u \in Tasks \ {t, to} : chan'[u] = chan[u]
      BY <1>0, <2>1, <2>3 DEF NetType, TypeOK
    <3>5. \A u \in {t, to} : Range(chan'[u]) \subseteq Kind(u)
      BY <2>1, <3>2, <3>3, <3>4 DEF RightKind
    <3>6. \A u \in {t, to} : /\ held'[u] \subseteq Kind(u)
                             /\ u \notin Stateful \cup Writers => held'[u] = {}
      BY <2>1, <2>3 DEF RightKind, KeepersKeep
    <3>7. \A u \in Fans : \A k \in DOMAIN outbox'[u] : outbox'[u][k][2] \in Kind(outbox'[u][k][1])
      BY <2>3 DEF RightKind, Range
    <3>8. {t, to} \in SUBSET Tasks
      BY <2>1
    <3>9. \A u \in Tasks \ {t, to} : chan'[u] = chan[u] /\ held'[u] = held[u] /\ outbox'[u] = outbox[u]
      BY <2>3, <3>4
    <3>10. KeepersKeep /\ RightKind /\ NetType'
      BY <1>0
    <3>11. \A u \in {t, to} :
             /\ Range(chan'[u]) \subseteq Kind(u) /\ held'[u] \subseteq Kind(u)
             /\ u \notin Stateful \cup Writers => held'[u] = {}
             /\ u \in Fans => \A k \in DOMAIN outbox'[u] : outbox'[u][k][2] \in Kind(outbox'[u][k][1])
      BY ONLY <3>5, <3>6, <3>7
    <3> QED  BY ONLY <3>8, <3>9, <3>10, <3>11, KeepFrom
  <2> QED  BY <1>2, <2>2, <2>3 DEF Forward
<1>3. ASSUME NEW t \in Fans, Receive(t) PROVE KeepersKeep' /\ RightKind'
  <2> DEFINE i == Head(chan[t])
  <2>1. t \in Tasks /\ chan[t] # << >> /\ chan' = [chan EXCEPT ![t] = Tail(@)] /\ chan[t] \in Seq(Items)
    BY <1>0, <1>3 DEF Receive, NetType, TypeOK
  <2>2. Range(chan[t]) = Range(Tail(chan[t])) \cup {i} /\ i \in Items
    BY <2>1, TailFacts
  <2> HIDE DEF i
  <2>3. /\ chan'[t] = Tail(chan[t])
        /\ \A u \in Tasks \ {t} : chan'[u] = chan[u] /\ held'[u] = held[u] /\ outbox'[u] = outbox[u]
    BY <1>0, <1>3, <2>1 DEF Receive, NetType, TypeOK
  <2>4. Range(chan'[t]) \subseteq Kind(t) /\ i \in Kind(t) /\ held[t] \subseteq Kind(t)
    BY <2>1, <2>2, <2>3 DEF RightKind
  <2>5. /\ held'[t] \subseteq Kind(t) /\ (t \notin Stateful => held'[t] = {})
        /\ \A k \in DOMAIN outbox'[t] : outbox'[t][k][2] \in Kind(outbox'[t][k][1])
    <3>1. CASE t[1] = "joiner" /\ outbox' = [outbox EXCEPT ![t] = JoinerSends(t[2], i)] /\ UNCHANGED held
      <4>1. t \notin Stateful \cup Writers /\ t[2] \in Pipelines
        BY <3>1 DEF Stateful, Fans, Fanouts
      <4>2. outbox'[t] = <<<<W, i>>, <<<<"llm", t[2]>>, i>>>>
        BY <1>0, <2>1, <3>1 DEF NetType, TypeOK, JoinerSends, To, W, Writer
      <4> HIDE DEF W
      <4>3. \A k \in DOMAIN outbox'[t] : outbox'[t][k] \in {<<W, i>>, <<<<"llm", t[2]>>, i>>}
        BY <4>2
      <4>4. Kind(W) = Items /\ Kind(<<"llm", t[2]>>) = Items
        BY <4>1, KindFacts
      <4>5. held'[t] = {}
        BY <2>1, <3>1, <4>1 DEF KeepersKeep
      <4> QED  BY <2>2, <4>3, <4>4, <4>5
    <3>2. CASE t[1] = "llm" /\ outbox' = [outbox EXCEPT ![t] = LlmSends(t[2], i)] /\ UNCHANGED held
      <4>1. t \notin Stateful \cup Writers /\ t[2] \in Pipelines
        BY <3>2 DEF Stateful, Fans, Fanouts
      <4>2. outbox'[t] = LlmSends(t[2], i)
        BY <1>0, <2>1, <3>2 DEF NetType, TypeOK
      <4>3. \A k \in DOMAIN LlmSends(t[2], i) :
              \/ LlmSends(t[2], i)[k] \in {<<<<"aggregator", t[2]>>, i>>, <<Unwrap, i>>} /\ i \in Llm
              \/ LlmSends(t[2], i)[k] = <<<<"turn", t[2]>>, i>> /\ i \in Agents
        <5>1. CASE i \notin Llm
          <6>1. LlmSends(t[2], i) = << >>
            BY <5>1, PipelineAssumption DEF LlmSends
          <6> QED  BY <6>1
        <5>2. CASE i \in Agents
          <6>1. LlmSends(t[2], i) = <<<<<<"aggregator", t[2]>>, i>>, <<Unwrap, i>>, <<<<"turn", t[2]>>, i>>>>
            BY <5>2, PipelineAssumption DEF LlmSends, To, Unwrap
          <6> QED  BY <5>2, <6>1, PipelineAssumption
        <5>3. CASE i \in Llm \ Agents
          <6>1. LlmSends(t[2], i) = <<<<<<"aggregator", t[2]>>, i>>, <<Unwrap, i>>>>
            BY <5>3 DEF LlmSends, To, Unwrap
          <6> QED  BY <5>3, <6>1
        <5> QED  BY <5>1, <5>2, <5>3
      <4>4. Kind(<<"aggregator", t[2]>>) = Llm /\ Kind(Unwrap) = Llm /\ Kind(<<"turn", t[2]>>) = Agents
        BY <4>1, KindFacts
      <4>5. held'[t] = {}
        BY <2>1, <3>2, <4>1 DEF KeepersKeep
      <4> QED  BY <4>2, <4>3, <4>4, <4>5
    <3>3. CASE t \in Stateful /\ \E out \in {{}, held[t] \cup {i}} :
                   /\ held' = [held EXCEPT ![t] = (@ \cup {i}) \ out]
                   /\ outbox' = [outbox EXCEPT ![t] = Emits(t, SetToSeq(out))]
      <4>1. PICK out \in {{}, held[t] \cup {i}} :
                   /\ held' = [held EXCEPT ![t] = (@ \cup {i}) \ out]
                   /\ outbox' = [outbox EXCEPT ![t] = Emits(t, SetToSeq(out))]
        BY <3>3
      <4>2. held'[t] = (held[t] \cup {i}) \ out /\ outbox'[t] = Emits(t, SetToSeq(out))
        BY <1>0, <2>1, <4>1 DEF NetType, TypeOK
      <4>3. IsFiniteSet(out) /\ out \in SUBSET Items /\ out \subseteq Kind(t)
        <5>1. IsFiniteSet(held[t] \cup {i}) /\ IsFiniteSet({}) /\ held[t] \subseteq Items
          <6>1. IsFiniteSet(held[t]) /\ held[t] \subseteq Items
            BY <1>0, <2>1 DEF NetType, TypeOK
          <6> QED  BY <6>1, FS_AddElement, FS_EmptySet
        <5> QED  BY <2>2, <2>4, <5>1
      <4>4. Range(outbox'[t]) = {<<Sink(t), j>> : j \in out}
        BY <3>3, <4>2, <4>3, EmitsFacts
      <4>5. Kind(Sink(t)) = Kind(t)
        BY <3>3, KindFacts
      <4>6. \A k \in DOMAIN outbox'[t] : \E j \in out : outbox'[t][k] = <<Sink(t), j>>
        BY <4>4 DEF Range
      <4> QED  BY <2>4, <3>3, <4>2, <4>3, <4>5, <4>6
    <3> QED  BY <1>3, <3>1, <3>2, <3>3 DEF Receive, i
  <2> QED  BY <1>0, <2>1, <2>3, <2>4, <2>5, KeepOne
<1>4. ASSUME NEW t \in Fans, Send(t) PROVE KeepersKeep' /\ RightKind'
  <2> DEFINE to == Head(outbox[t])[1]
             i == Head(outbox[t])[2]
  <2>1. t \in Tasks /\ outbox[t] \in Seq(Tasks \X Items) /\ outbox[t] # << >>
    BY <1>0, <1>4 DEF Send, NetType, TypeOK
  <2>2. /\ 1 \in DOMAIN outbox[t] /\ Head(outbox[t]) = outbox[t][1]
        /\ Range(outbox[t]) = Range(Tail(outbox[t])) \cup {Head(outbox[t])}
    BY <2>1, TailFacts
  <2>3. to \in Tasks /\ i \in Items /\ to # t
    BY <2>2, Targets
  <2>4. i \in Kind(to) /\ \A s \in Range(Tail(outbox[t])) : s[2] \in Kind(s[1])
    BY <2>2 DEF RightKind
  <2> HIDE DEF to, i
  <2>5. CASE Return(t, "ended")
    BY <1>0, <2>1, <2>5, ReturnKeeps DEF Statuses
  <2>6. CASE /\ outbox' = [outbox EXCEPT ![t] = Tail(@)] /\ UNCHANGED held
             /\ (chan' = [chan EXCEPT ![to] = Append(@, i)] \/ UNCHANGED chan)
    <3>1. chan[to] \in Seq(Items)
      BY <1>0, <2>3 DEF NetType, TypeOK
    <3>2. Range(Append(chan[to], i)) = Range(chan[to]) \cup {i}
      BY <2>3, <3>1, AppendFacts
    <3>3. /\ chan'[to] = Append(chan[to], i) \/ chan'[to] = chan[to]
          /\ \A u \in Tasks \ {to} : chan'[u] = chan[u]
          /\ outbox'[t] = Tail(outbox[t]) /\ \A u \in Tasks \ {t} : outbox'[u] = outbox[u]
      BY <1>0, <2>1, <2>3, <2>6 DEF NetType, TypeOK
    <3>4. \A u \in {t, to} : Range(chan'[u]) \subseteq Kind(u)
      BY <2>1, <2>3, <2>4, <3>2, <3>3 DEF RightKind
    <3>5. \A u \in {t, to} : /\ held'[u] \subseteq Kind(u)
                             /\ u \notin Stateful \cup Writers => held'[u] = {}
      BY <2>1, <2>3, <2>6 DEF RightKind, KeepersKeep
    <3>6. \A k \in DOMAIN outbox'[t] : outbox'[t][k][2] \in Kind(outbox'[t][k][1])
      BY <2>4, <3>3 DEF Range
    <3>7. \A u \in Fans \ {t} : \A k \in DOMAIN outbox'[u] : outbox'[u][k][2] \in Kind(outbox'[u][k][1])
      BY <3>3 DEF RightKind, Range
    <3>8. {t, to} \in SUBSET Tasks
      BY <2>1, <2>3
    <3>9. \A u \in Tasks \ {t, to} : chan'[u] = chan[u] /\ held'[u] = held[u] /\ outbox'[u] = outbox[u]
      BY <2>6, <3>3
    <3>10. \A u \in {t, to} : u \in Fans =>
             \A k \in DOMAIN outbox'[u] : outbox'[u][k][2] \in Kind(outbox'[u][k][1])
      BY <3>6, <3>7
    <3> DEFINE A == {t, to}
    <3>11. A \in SUBSET Tasks /\ \A u \in Tasks \ A : chan'[u] = chan[u] /\ held'[u] = held[u] /\ outbox'[u] = outbox[u]
      BY <3>8, <3>9
    <3>12. \A u \in A : /\ Range(chan'[u]) \subseteq Kind(u) /\ held'[u] \subseteq Kind(u)
                        /\ u \notin Stateful \cup Writers => held'[u] = {}
                        /\ u \in Fans => \A k \in DOMAIN outbox'[u] : outbox'[u][k][2] \in Kind(outbox'[u][k][1])
      BY <3>4, <3>5, <3>10
    <3> HIDE DEF A
    <3> QED  BY <1>0, <3>11, <3>12, KeepFrom
  <2> QED  BY <1>4, <2>5, <2>6 DEF Send, to, i
<1>5. ASSUME NEW t \in Tasks, Eof(t) PROVE KeepersKeep' /\ RightKind'
  <2>1. CASE Return(t, "ended")
    BY <1>0, <2>1, ReturnKeeps DEF Statuses
  <2>2. CASE /\ t \in Stateful /\ outbox' = [outbox EXCEPT ![t] = Emits(t, SetToSeq(held[t]))]
             /\ held' = [held EXCEPT ![t] = {}] /\ UNCHANGED chan
    <3>1. /\ held[t] \in SUBSET Items /\ IsFiniteSet(held[t]) /\ outbox'[t] = Emits(t, SetToSeq(held[t]))
          /\ held'[t] = {} /\ chan'[t] = chan[t]
          /\ \A u \in Tasks \ {t} : chan'[u] = chan[u] /\ held'[u] = held[u] /\ outbox'[u] = outbox[u]
      BY <1>0, <2>2 DEF NetType, TypeOK
    <3>2. Range(outbox'[t]) = {<<Sink(t), j>> : j \in held[t]}
      BY <2>2, <3>1, EmitsFacts
    <3>3. \A k \in DOMAIN outbox'[t] : \E j \in held[t] : outbox'[t][k] = <<Sink(t), j>>
      BY <3>2 DEF Range
    <3>4. Kind(Sink(t)) = Kind(t) /\ held[t] \subseteq Kind(t) /\ Range(chan[t]) \subseteq Kind(t)
      BY <2>2, KindFacts DEF RightKind
    <3>5. \A k \in DOMAIN outbox'[t] : outbox'[t][k][2] \in Kind(outbox'[t][k][1])
      BY <3>3, <3>4
    <3> QED  BY <1>0, <3>1, <3>4, <3>5, KeepOne
  <2> QED  BY <1>5, <2>1, <2>2 DEF Eof
<1>6. ASSUME NEW w \in Writers, WriterStep(w) \/ Hang(w) PROVE KeepersKeep' /\ RightKind'
  <2>1. CASE FinishWriter(w)
    BY <1>0, <2>1, ReturnKeeps DEF FinishWriter, Statuses
  <2>2. CASE Buffer(w) \/ FlushTick(w) \/ Hang(w)
    <3>1. \A u \in Tasks \ {w} : chan'[u] = chan[u] /\ held'[u] = held[u] /\ outbox'[u] = outbox[u]
      BY <1>0, <2>2 DEF Buffer, FlushTick, Hang, NetType, TypeOK
    <3>2. Range(chan'[w]) \subseteq Kind(w) /\ held'[w] \subseteq Kind(w)
      <4>1. CASE Buffer(w)
        <5>1. chan[w] # << >> /\ chan[w] \in Seq(Items) /\ chan'[w] = Tail(chan[w])
          BY <1>0, <4>1 DEF Buffer, NetType, TypeOK
        <5>2. Range(chan[w]) = Range(Tail(chan[w])) \cup {Head(chan[w])}
          BY <5>1, TailFacts
        <5>3. held'[w] = {} \/ held'[w] = held[w] \cup {Head(chan[w])}
          BY <1>0, <4>1 DEF Buffer, NetType, TypeOK
        <5> QED  BY <5>1, <5>2, <5>3 DEF RightKind
      <4>2. CASE FlushTick(w)
        BY <1>0, <4>2 DEF FlushTick, RightKind, NetType, TypeOK
      <4>3. CASE Hang(w)
        BY <4>3 DEF Hang, RightKind
      <4> QED  BY <2>2, <4>1, <4>2, <4>3
    <3>3. w \in Tasks /\ w \notin Fans
      OBVIOUS
    <3> QED  BY <1>0, <3>1, <3>2, <3>3, KeepOne
  <2> QED  BY <1>6, <2>1, <2>2 DEF WriterStep
<1>7. ASSUME NEW t \in Tasks, Panic(t) PROVE KeepersKeep' /\ RightKind'
  BY <1>0, <1>7, ReturnKeeps DEF Panic, Statuses
<1>8. CASE UNCHANGED vars
  <2>1. {} \in SUBSET Tasks /\ UNCHANGED <<chan, held, outbox>>
    BY <1>8 DEF vars
  <2> QED  BY <1>0, <2>1, KeepFrom
<1> QED  BY <1>1, <1>2, <1>3, <1>4, <1>5, <1>6, <1>7, <1>8 DEF Next, Progress, Step, FanoutStep, Fans

-----------------------------------------------------------------------------
(* One place for each item.                                                 *)

\* Items change places among A, and some new ones arrive there.
LEMMA Transfer ==
  ASSUME NEW f, NEW g, DOMAIN g = DOMAIN f, Apart(f), NEW A \in SUBSET DOMAIN f,
         \A c \in DOMAIN f \ A : g[c] = f[c],
         \A a, b \in A : \A i \in g[a] : i \in g[b] => a = b,
         \A a \in A : \A i \in g[a] : i \notin Everything(f) \/ \E b \in A : i \in f[b]
  PROVE  /\ Apart(g)
         /\ \A i : i \in Everything(g) <=>
                      \/ \E a \in A : i \in g[a]
                      \/ i \in Everything(f) /\ \A a \in A : i \notin f[a]
<1>1. Apart(g)
  <2> SUFFICES ASSUME NEW a \in DOMAIN f, NEW b \in DOMAIN f, NEW i \in g[a], i \in g[b]
               PROVE  a = b
    BY DEF Apart
  <2>1. CASE a \in A /\ b \in A
    BY <2>1
  <2>2. CASE a \notin A /\ b \notin A
    BY <2>2 DEF Apart
  <2>3. CASE a \in A /\ b \notin A
    <3>1. i \in f[b] /\ i \in Everything(f)
      BY <2>3 DEF Everything
    <3>2. PICK c \in A : i \in f[c]
      BY <2>3, <3>1
    <3> QED  BY <2>3, <3>1, <3>2 DEF Apart
  <2>4. CASE a \notin A /\ b \in A
    <3>1. i \in f[a] /\ i \in Everything(f)
      BY <2>4 DEF Everything
    <3>2. PICK c \in A : i \in f[c]
      BY <2>4, <3>1
    <3> QED  BY <2>4, <3>1, <3>2 DEF Apart
  <2> QED  BY <2>1, <2>2, <2>3, <2>4
<1>2. ASSUME NEW i, i \in Everything(g)
      PROVE  (\E a \in A : i \in g[a]) \/ (i \in Everything(f) /\ \A a \in A : i \notin f[a])
  <2>1. PICK c \in DOMAIN f : i \in g[c]
    BY <1>2 DEF Everything
  <2>2. CASE c \notin A
    <3>1. i \in f[c] /\ i \in Everything(f)
      BY <2>1, <2>2 DEF Everything
    <3> QED  BY <2>2, <3>1 DEF Apart
  <2> QED  BY <2>1, <2>2
<1>3. ASSUME NEW i, i \in Everything(f), \A a \in A : i \notin f[a] PROVE i \in Everything(g)
  <2>1. PICK c \in DOMAIN f : i \in f[c]
    BY <1>3 DEF Everything
  <2> QED  BY <1>3, <2>1 DEF Everything
<1>4. ASSUME NEW i, NEW a \in A, i \in g[a] PROVE i \in Everything(g)
  BY <1>4 DEF Everything
<1> QED  BY <1>1, <1>2, <1>3, <1>4

LEMMA PlaceValues ==
  ASSUME NEW x, NEW ch, NEW he, NEW ob
  PROVE  /\ DOMAIN PlaceOf(x, ch, he, ob) = Places
         /\ \A t \in Tasks :
               /\ <<"chan", t>> \in Places /\ <<"held", t>> \in Places /\ <<"out", t>> \in Places
               /\ PlaceOf(x, ch, he, ob)[<<"chan", t>>] = InChan(x, ch, t)
               /\ PlaceOf(x, ch, he, ob)[<<"held", t>>] = InHeld(x, he, t)
               /\ PlaceOf(x, ch, he, ob)[<<"out", t>>] = InOut(x, ob, t)
         /\ \A c \in Places : \E t \in Tasks : c \in {<<"chan", t>>, <<"held", t>>, <<"out", t>>}
  BY DEF PlaceOf, Places

\* One task works, and may give something to another: what its hands and the other's
\* channel hold before and after says what is where.
LEMMA Hands ==
  ASSUME NEW x \in Tables, NEW ch, NEW he, NEW ob, NEW ch2, NEW he2, NEW ob2,
         NEW t \in Tasks, NEW to \in Tasks, t # to,
         \A u \in Tasks \ {t, to} : ch2[u] = ch[u],
         \A u \in Tasks \ {t} : he2[u] = he[u] /\ ob2[u] = ob[u],
         Apart(PlaceOf(x, ch, he, ob)),
         NEW C, C = InChan(x, ch, t), NEW H, H = InHeld(x, he, t), NEW O, O = InOut(x, ob, t),
         NEW R, R = InChan(x, ch, to),
         NEW C2, C2 = InChan(x, ch2, t), NEW H2, H2 = InHeld(x, he2, t), NEW O2, O2 = InOut(x, ob2, t),
         NEW R2, R2 = InChan(x, ch2, to),
         C2 \cap H2 = {}, C2 \cap O2 = {}, C2 \cap R2 = {}, H2 \cap O2 = {}, H2 \cap R2 = {}, O2 \cap R2 = {},
         \A i \in C2 \cup H2 \cup O2 \cup R2 :
            i \in C \cup H \cup O \cup R \/ i \notin Everything(PlaceOf(x, ch, he, ob))
  PROVE  /\ Apart(PlaceOf(x, ch2, he2, ob2))
         /\ Everything(PlaceOf(x, ch2, he2, ob2)) =
               (Everything(PlaceOf(x, ch, he, ob)) \ (C \cup H \cup O \cup R))
                  \cup (C2 \cup H2 \cup O2 \cup R2)
<1>0. PICK f : f = PlaceOf(x, ch, he, ob)
  OBVIOUS
<1>1. PICK g : g = PlaceOf(x, ch2, he2, ob2)
  OBVIOUS
<1>2. /\ DOMAIN f = Places /\ DOMAIN g = Places
      /\ f[<<"chan", t>>] = C /\ f[<<"held", t>>] = H /\ f[<<"out", t>>] = O /\ f[<<"chan", to>>] = R
      /\ g[<<"chan", t>>] = C2 /\ g[<<"held", t>>] = H2 /\ g[<<"out", t>>] = O2 /\ g[<<"chan", to>>] = R2
  BY <1>0, <1>1 DEF PlaceOf, Places
<1> DEFINE A == {<<"chan", t>>, <<"held", t>>, <<"out", t>>, <<"chan", to>>}
<1>3. A \in SUBSET Places
  BY DEF Places
<1>4. ASSUME NEW c \in Places \ A PROVE g[c] = f[c]
  <2>1. PICK u \in Tasks : c \in {<<"chan", u>>, <<"held", u>>, <<"out", u>>}
    BY PlaceValues
  <2>2. CASE c = <<"chan", u>>
    <3>1. u \in Tasks \ {t, to}
      BY <2>2
    <3> QED  BY <1>0, <1>1, <2>2, <3>1 DEF PlaceOf, Places, InChan
  <2>3. CASE c = <<"held", u>>
    <3>1. u \in Tasks \ {t}
      BY <2>3
    <3> QED  BY <1>0, <1>1, <2>3, <3>1 DEF PlaceOf, Places, InHeld
  <2>4. CASE c = <<"out", u>>
    <3>1. u \in Tasks \ {t}
      BY <2>4
    <3> QED  BY <1>0, <1>1, <2>4, <3>1 DEF PlaceOf, Places, InOut
  <2> QED  BY <2>1, <2>2, <2>3, <2>4
<1>5. \A a, b \in A : \A i \in g[a] : i \in g[b] => a = b
  BY <1>2
<1>6. \A i : /\ (\E a \in A : i \in g[a]) <=> i \in C2 \cup H2 \cup O2 \cup R2
             /\ (\E a \in A : i \in f[a]) <=> i \in C \cup H \cup O \cup R
  BY <1>2
<1>7. \A a \in A : \A i \in g[a] : i \notin Everything(f) \/ \E b \in A : i \in f[b]
  BY <1>0, <1>6
<1> HIDE DEF A
<1>8. /\ Apart(g)
      /\ \A i : i \in Everything(g) <=>
                      \/ \E a \in A : i \in g[a]
                      \/ i \in Everything(f) /\ \A a \in A : i \notin f[a]
  <2>1. DOMAIN g = DOMAIN f /\ A \in SUBSET DOMAIN f /\ \A c \in DOMAIN f \ A : g[c] = f[c]
    BY <1>2, <1>3, <1>4
  <2>2. Apart(f)
    BY <1>0
  <2> QED  BY <2>1, <2>2, <1>5, <1>7, Transfer
<1>9. Everything(g) = (Everything(f) \ (C \cup H \cup O \cup R)) \cup (C2 \cup H2 \cup O2 \cup R2)
  BY <1>6, <1>8
<1> QED  BY <1>0, <1>1, <1>8, <1>9

\* What one task has is on the way, each item in one place.
LEMMA OwnHands ==
  ASSUME NEW x \in Tables, NEW ch, NEW he, NEW ob, NEW t \in Tasks, NEW to \in Tasks, t # to,
         Apart(PlaceOf(x, ch, he, ob)),
         NEW C, C = InChan(x, ch, t), NEW H, H = InHeld(x, he, t), NEW O, O = InOut(x, ob, t),
         NEW R, R = InChan(x, ch, to)
  PROVE  /\ C \cap H = {} /\ C \cap O = {} /\ C \cap R = {}
         /\ H \cap O = {} /\ H \cap R = {} /\ O \cap R = {}
         /\ C \cup H \cup O \cup R \subseteq Everything(PlaceOf(x, ch, he, ob))
<1>0. PICK f : f = PlaceOf(x, ch, he, ob)
  OBVIOUS
<1>1. /\ DOMAIN f = Places /\ {<<"chan", t>>, <<"held", t>>, <<"out", t>>, <<"chan", to>>} \subseteq Places
      /\ f[<<"chan", t>>] = C /\ f[<<"held", t>>] = H /\ f[<<"out", t>>] = O /\ f[<<"chan", to>>] = R
  BY <1>0 DEF PlaceOf, Places
<1>2. /\ <<"chan", t>> # <<"held", t>> /\ <<"chan", t>> # <<"out", t>> /\ <<"chan", t>> # <<"chan", to>>
      /\ <<"held", t>> # <<"out", t>> /\ <<"held", t>> # <<"chan", to>> /\ <<"out", t>> # <<"chan", to>>
  BY PairFacts
<1> QED  BY <1>0, <1>1, <1>2 DEF Apart, Everything

\* The same when the task gives nothing away.
LEMMA HandsAlone ==
  ASSUME NEW x \in Tables, NEW ch, NEW he, NEW ob, NEW ch2, NEW he2, NEW ob2, NEW t \in Tasks,
         \A u \in Tasks \ {t} : ch2[u] = ch[u] /\ he2[u] = he[u] /\ ob2[u] = ob[u],
         Apart(PlaceOf(x, ch, he, ob)),
         NEW C, C = InChan(x, ch, t), NEW H, H = InHeld(x, he, t), NEW O, O = InOut(x, ob, t),
         NEW C2, C2 = InChan(x, ch2, t), NEW H2, H2 = InHeld(x, he2, t), NEW O2, O2 = InOut(x, ob2, t),
         C2 \cap H2 = {}, C2 \cap O2 = {}, H2 \cap O2 = {},
         \A i \in C2 \cup H2 \cup O2 :
            i \in C \cup H \cup O \/ i \notin Everything(PlaceOf(x, ch, he, ob))
  PROVE  /\ Apart(PlaceOf(x, ch2, he2, ob2))
         /\ Everything(PlaceOf(x, ch2, he2, ob2)) =
               (Everything(PlaceOf(x, ch, he, ob)) \ (C \cup H \cup O)) \cup (C2 \cup H2 \cup O2)
<1>1. PICK to \in Tasks : to # t
  <2>1. W \in Tasks /\ Unwrap \in Tasks /\ W # Unwrap
    BY TaskFacts, TaskNames DEF W, Writer, Unwrap
  <2> QED  BY <2>1
<1>2. PICK R : R = InChan(x, ch, to)
  OBVIOUS
<1>3. PICK R2 : R2 = InChan(x, ch2, to)
  OBVIOUS
<1>4. R2 = R
  BY <1>1, <1>2, <1>3 DEF InChan
<1>5. R \cap (C \cup H \cup O) = {} /\ R \subseteq Everything(PlaceOf(x, ch, he, ob))
  BY <1>1, <1>2, OwnHands
<1>6. /\ C2 \cap R2 = {} /\ H2 \cap R2 = {} /\ O2 \cap R2 = {}
      /\ \A i \in C2 \cup H2 \cup O2 \cup R2 :
            i \in C \cup H \cup O \cup R \/ i \notin Everything(PlaceOf(x, ch, he, ob))
  BY <1>4, <1>5
<1>7. /\ t # to /\ \A u \in Tasks \ {t, to} : ch2[u] = ch[u]
      /\ \A u \in Tasks \ {t} : he2[u] = he[u] /\ ob2[u] = ob[u]
  BY <1>1
<1>8. /\ Apart(PlaceOf(x, ch2, he2, ob2))
      /\ Everything(PlaceOf(x, ch2, he2, ob2)) =
               (Everything(PlaceOf(x, ch, he, ob)) \ (C \cup H \cup O \cup R))
                  \cup (C2 \cup H2 \cup O2 \cup R2)
  BY <1>2, <1>3, <1>6, <1>7, Hands
<1>9. PICK E : E = Everything(PlaceOf(x, ch, he, ob))
  OBVIOUS
<1>10. (E \ (C \cup H \cup O \cup R)) \cup (C2 \cup H2 \cup O2 \cup R2) = (E \ (C \cup H \cup O)) \cup (C2 \cup H2 \cup O2)
  BY <1>4, <1>5, <1>9
<1> QED  BY <1>8, <1>9, <1>10

LEMMA OwnHandsAlone ==
  ASSUME NEW x \in Tables, NEW ch, NEW he, NEW ob, NEW t \in Tasks,
         Apart(PlaceOf(x, ch, he, ob)),
         NEW C, C = InChan(x, ch, t), NEW H, H = InHeld(x, he, t), NEW O, O = InOut(x, ob, t)
  PROVE  /\ C \cap H = {} /\ C \cap O = {} /\ H \cap O = {}
         /\ C \cup H \cup O \subseteq Everything(PlaceOf(x, ch, he, ob))
<1>1. PICK to \in Tasks : to # t
  <2>1. W \in Tasks /\ Unwrap \in Tasks /\ W # Unwrap
    BY TaskFacts, TaskNames DEF W, Writer, Unwrap
  <2> QED  BY <2>1
<1> QED  BY <1>1, OwnHands

\* What an outbox sends along a way.
LEMMA OutEmpty == \A x : OutOf(x, << >>) = {} /\ NoTwice(x, << >>)
  BY DEF OutOf, NoTwice, Range

LEMMA OutMember ==
  ASSUME NEW x, NEW q, NEW i
  PROVE  i \in OutOf(x, q) <=> \E k \in DOMAIN q : q[k][1] \in Way[x] /\ q[k][2] = i
  BY DEF OutOf, Range

LEMMA OutTail ==
  ASSUME NEW x, NEW q \in Seq(Tasks \X Items), q # << >>, NoTwice(x, q)
  PROVE  /\ NoTwice(x, Tail(q))
         /\ Head(q)[1] \in Way[x] => /\ Head(q)[2] \in OutOf(x, q)
                                     /\ OutOf(x, Tail(q)) = OutOf(x, q) \ {Head(q)[2]}
         /\ Head(q)[1] \notin Way[x] => OutOf(x, Tail(q)) = OutOf(x, q)
<1>0. PICK r : r = Tail(q)
  OBVIOUS
<1>1. /\ Len(q) \in Nat \ {0} /\ DOMAIN q = 1..Len(q) /\ DOMAIN r = 1..(Len(q) - 1)
      /\ Head(q) = q[1] /\ \A k \in 1..(Len(q) - 1) : r[k] = q[k + 1]
  BY <1>0
<1>2. \A k \in DOMAIN r : k + 1 \in DOMAIN q /\ k + 1 # 1 /\ r[k] = q[k + 1]
  BY <1>1
<1>3. \A k \in DOMAIN q : k # 1 => k - 1 \in DOMAIN r /\ r[k - 1] = q[k]
  BY <1>1
<1>4. NoTwice(x, r)
  <2> SUFFICES ASSUME NEW j \in DOMAIN r, NEW k \in DOMAIN r,
                      r[j][1] \in Way[x], r[k][1] \in Way[x], r[j][2] = r[k][2]
               PROVE  j = k
    BY DEF NoTwice
  <2>1. j + 1 = k + 1
    BY <1>2 DEF NoTwice
  <2> QED  BY <1>1, <2>1
<1>5. ASSUME NEW i PROVE i \in OutOf(x, q) <=> i \in OutOf(x, r) \/ (Head(q)[1] \in Way[x] /\ i = Head(q)[2])
  <2>1. ASSUME i \in OutOf(x, q) PROVE i \in OutOf(x, r) \/ (Head(q)[1] \in Way[x] /\ i = Head(q)[2])
    <3>1. PICK k \in DOMAIN q : q[k][1] \in Way[x] /\ q[k][2] = i
      BY <2>1, OutMember
    <3>2. CASE k = 1
      BY <1>1, <3>1, <3>2
    <3>3. CASE k # 1
      BY <1>3, <3>1, <3>3, OutMember
    <3> QED  BY <3>2, <3>3
  <2>2. ASSUME i \in OutOf(x, r) PROVE i \in OutOf(x, q)
    <3>1. PICK k \in DOMAIN r : r[k][1] \in Way[x] /\ r[k][2] = i
      BY <2>2, OutMember
    <3> QED  BY <1>2, <3>1, OutMember
  <2>3. ASSUME Head(q)[1] \in Way[x] /\ i = Head(q)[2] PROVE i \in OutOf(x, q)
    BY <1>1, <2>3, OutMember
  <2> QED  BY <2>1, <2>2, <2>3
<1>6. ASSUME Head(q)[1] \in Way[x] PROVE Head(q)[2] \notin OutOf(x, r)
  <2> SUFFICES ASSUME Head(q)[2] \in OutOf(x, r) PROVE FALSE
    OBVIOUS
  <2>0. PICK i : i = Head(q)[2]
    OBVIOUS
  <2>1. PICK k \in DOMAIN r : r[k][1] \in Way[x] /\ r[k][2] = i
    BY <2>0, OutMember
  <2>2. /\ k + 1 \in DOMAIN q /\ k + 1 # 1 /\ 1 \in DOMAIN q /\ q[k + 1][1] \in Way[x]
        /\ q[k + 1][2] = q[1][2] /\ q[1][1] \in Way[x]
    BY <1>1, <1>2, <1>6, <2>0, <2>1
  <2> QED  BY <2>2 DEF NoTwice
<1>7. ASSUME Head(q)[1] \in Way[x]
      PROVE  Head(q)[2] \in OutOf(x, q) /\ OutOf(x, r) = OutOf(x, q) \ {Head(q)[2]}
  BY <1>5, <1>6, <1>7
<1>8. ASSUME Head(q)[1] \notin Way[x] PROVE OutOf(x, r) = OutOf(x, q)
  BY <1>5, <1>8
<1> QED  BY <1>0, <1>4, <1>7, <1>8

LEMMA OutJoiner ==
  ASSUME NEW p \in Pipelines, NEW i, NEW x \in Tables
  PROVE  OutOf(x, JoinerSends(p, i)) = {i} /\ NoTwice(x, JoinerSends(p, i))
<1>1. PICK q : q = JoinerSends(p, i)
  OBVIOUS
<1>2. DOMAIN q = {1, 2} /\ q[1][1] = W /\ q[1][2] = i /\ q[2][1] = <<"llm", p>> /\ q[2][2] = i
  BY <1>1 DEF JoinerSends, To, W, Writer
<1>3. W \in Way[x] <=> <<"llm", p>> \notin Way[x]
  BY WayFacts DEF W, Tables
<1>4. \A j : j \in OutOf(x, q) <=> \E k \in DOMAIN q : q[k][1] \in Way[x] /\ q[k][2] = j
  BY OutMember
<1>5. OutOf(x, q) = {i}
  BY <1>2, <1>3, <1>4
<1>6. NoTwice(x, q)
  BY <1>2, <1>3 DEF NoTwice
<1> QED  BY <1>1, <1>5, <1>6

LEMMA OutLlm ==
  ASSUME NEW p \in Pipelines, NEW i \in Items, NEW x \in Tables
  PROVE  /\ OutOf(x, LlmSends(p, i)) = IF x = "exchanges" THEN {} ELSE {i} \cap Destined[x]
         /\ NoTwice(x, LlmSends(p, i))
<1>1. PICK q : q = LlmSends(p, i)
  OBVIOUS
<1>2. /\ <<"aggregator", p>> \in Way[x] <=> x = "metrics"
      /\ Unwrap \in Way[x] <=> x = "calls"
      /\ <<"turn", p>> \in Way[x] <=> x = "turns"
  BY WayFacts
<1>3. \A j : j \in OutOf(x, q) <=> \E k \in DOMAIN q : q[k][1] \in Way[x] /\ q[k][2] = j
  BY OutMember
<1>4. x \in {"exchanges", "calls", "turns", "metrics"} /\ Destined["calls"] = Llm
      /\ Destined["turns"] = Agents /\ Destined["metrics"] = Llm
  BY DEF Tables, Destined
<1>5. CASE i \notin Llm
  <2>1. q = << >> /\ i \notin Agents
    BY <1>1, <1>5, PipelineAssumption DEF LlmSends
  <2> QED  BY <1>1, <1>4, <1>5, <2>1, OutEmpty
<1>6. CASE i \in Agents
  <2>1. /\ DOMAIN q = {1, 2, 3} /\ q[1][1] = <<"aggregator", p>> /\ q[1][2] = i
        /\ q[2][1] = Unwrap /\ q[2][2] = i /\ q[3][1] = <<"turn", p>> /\ q[3][2] = i /\ i \in Llm
    BY <1>1, <1>6, PipelineAssumption DEF LlmSends, To, Unwrap
  <2>2. NoTwice(x, q)
    BY <1>2, <2>1 DEF NoTwice
  <2>3. \A j : j \in OutOf(x, q) <=> j = i /\ x # "exchanges"
    BY <1>2, <1>3, <1>4, <2>1
  <2> QED  BY <1>1, <1>4, <1>6, <2>1, <2>2, <2>3
<1>7. CASE i \in Llm \ Agents
  <2>1. /\ DOMAIN q = {1, 2} /\ q[1][1] = <<"aggregator", p>> /\ q[1][2] = i
        /\ q[2][1] = Unwrap /\ q[2][2] = i
    BY <1>1, <1>7 DEF LlmSends, To, Unwrap
  <2>2. NoTwice(x, q)
    BY <1>2, <2>1 DEF NoTwice
  <2>3. \A j : j \in OutOf(x, q) <=> j = i /\ x \in {"calls", "metrics"}
    BY <1>2, <1>3, <2>1
  <2> QED  BY <1>1, <1>4, <1>7, <2>2, <2>3
<1> QED  BY <1>5, <1>6, <1>7

LEMMA OutEmits ==
  ASSUME NEW t \in Stateful, NEW S \in SUBSET Items, IsFiniteSet(S), NEW x \in Tables
  PROVE  /\ OutOf(x, Emits(t, SetToSeq(S))) = IF t \in Way[x] THEN S ELSE {}
         /\ NoTwice(x, Emits(t, SetToSeq(S)))
<1>1. PICK q : q = Emits(t, SetToSeq(S))
  OBVIOUS
<1>2. q \in Seq(Tasks \X Items) /\ Range(q) = {<<Sink(t), i>> : i \in S} /\ IsInjective(q)
  BY <1>1, EmitsFacts
<1>3. t \in Way[x] <=> Sink(t) \in Way[x]
  <2>1. CASE t[1] = "turn"
    <3>1. t = <<"turn", t[2]>> /\ t[2] \in Pipelines /\ Sink(t) = Writer("turns")
      BY <2>1 DEF Stateful, Sink
    <3> QED  BY <3>1, WayFacts DEF Tables
  <2>2. CASE t[1] = "aggregator"
    <3>1. t = <<"aggregator", t[2]>> /\ t[2] \in Pipelines /\ Sink(t) = Writer("metrics")
      BY <2>2 DEF Stateful, Sink
    <3> QED  BY <3>1, WayFacts DEF Tables
  <2> QED  BY <2>1, <2>2 DEF Stateful
<1>4. \A k \in DOMAIN q : q[k] = <<Sink(t), q[k][2]>> /\ q[k][2] \in S
  <2> SUFFICES ASSUME NEW k \in DOMAIN q PROVE q[k] = <<Sink(t), q[k][2]>> /\ q[k][2] \in S
    OBVIOUS
  <2>1. q[k] \in {<<Sink(t), i>> : i \in S}
    BY <1>2 DEF Range
  <2> QED  BY <2>1
<1>5. \A i \in S : \E k \in DOMAIN q : q[k] = <<Sink(t), i>>
  <2> SUFFICES ASSUME NEW i \in S PROVE \E k \in DOMAIN q : q[k] = <<Sink(t), i>>
    OBVIOUS
  <2>1. <<Sink(t), i>> \in Range(q)
    BY <1>2
  <2> QED  BY <2>1 DEF Range
<1>6. \A j : j \in OutOf(x, q) <=> \E k \in DOMAIN q : q[k][1] \in Way[x] /\ q[k][2] = j
  BY OutMember
<1>7. OutOf(x, q) = IF t \in Way[x] THEN S ELSE {}
  <2>1. \A k \in DOMAIN q : q[k][1] = Sink(t) /\ q[k][2] \in S
    BY <1>4
  <2>2. \A i \in S : \E k \in DOMAIN q : q[k][1] = Sink(t) /\ q[k][2] = i
    BY <1>5
  <2>3. CASE t \in Way[x]
    <3>1. \A j : j \in OutOf(x, q) <=> j \in S
      BY <1>3, <1>6, <2>1, <2>2, <2>3
    <3> QED  BY <2>3, <3>1
  <2>4. CASE t \notin Way[x]
    <3>1. \A j : j \notin OutOf(x, q)
      BY <1>3, <1>6, <2>1, <2>4
    <3> QED  BY <2>4, <3>1
  <2> QED  BY <2>3, <2>4
<1>8. NoTwice(x, q)
  <2> SUFFICES ASSUME NEW j \in DOMAIN q, NEW k \in DOMAIN q, q[j][2] = q[k][2] PROVE j = k
    BY DEF NoTwice
  <2>1. q[j] = q[k]
    BY <1>4
  <2> QED  BY <1>2, <2>1 DEF IsInjective
<1> QED  BY <1>1, <1>7, <1>8

\* A packet enters at the dispatcher.
LEMMA ReadPlaces ==
  ASSUME NEW x \in Tables, Apart(PlaceOf(x, chan, held, outbox)), NEW d \in Tasks, d \in Way[x],
         NEW i, i \notin Everything(PlaceOf(x, chan, held, outbox)),
         Range(chan'[d]) = Range(chan[d]) \cup {i}, \A u \in Tasks \ {d} : chan'[u] = chan[u],
         UNCHANGED <<held, outbox>>
  PROVE  /\ Apart(PlaceOf(x, chan', held', outbox'))
         /\ Everything(PlaceOf(x, chan', held', outbox')) = Everything(PlaceOf(x, chan, held, outbox)) \cup {i}
<1>1. PICK C, H, O : C = InChan(x, chan, d) /\ H = InHeld(x, held, d) /\ O = InOut(x, outbox, d)
  OBVIOUS
<1>2. PICK C2, H2, O2 : C2 = InChan(x, chan', d) /\ H2 = InHeld(x, held', d) /\ O2 = InOut(x, outbox', d)
  OBVIOUS
<1>3. C2 = C \cup {i} /\ H2 = H /\ O2 = O
  BY <1>1, <1>2 DEF InChan, InHeld, InOut
<1>4. /\ C \cap H = {} /\ C \cap O = {} /\ H \cap O = {}
      /\ C \cup H \cup O \subseteq Everything(PlaceOf(x, chan, held, outbox))
  BY <1>1, OwnHandsAlone
<1>5. /\ C2 \cap H2 = {} /\ C2 \cap O2 = {} /\ H2 \cap O2 = {}
      /\ \A j \in C2 \cup H2 \cup O2 :
            j \in C \cup H \cup O \/ j \notin Everything(PlaceOf(x, chan, held, outbox))
  BY <1>3, <1>4
<1>6. \A u \in Tasks \ {d} : chan'[u] = chan[u] /\ held'[u] = held[u] /\ outbox'[u] = outbox[u]
  OBVIOUS
<1>7. /\ Apart(PlaceOf(x, chan', held', outbox'))
      /\ Everything(PlaceOf(x, chan', held', outbox')) =
            (Everything(PlaceOf(x, chan, held, outbox)) \ (C \cup H \cup O)) \cup (C2 \cup H2 \cup O2)
  BY <1>1, <1>2, <1>5, <1>6, HandsAlone
<1>8. PICK E : E = Everything(PlaceOf(x, chan, held, outbox))
  OBVIOUS
<1>9. (E \ (C \cup H \cup O)) \cup (C2 \cup H2 \cup O2) = E \cup {i}
  BY <1>3, <1>4, <1>8
<1> QED  BY <1>7, <1>8, <1>9

\* The head of one channel moves to another.
LEMMA ForwardPlaces ==
  ASSUME NEW x \in Tables, Apart(PlaceOf(x, chan, held, outbox)), NEW t \in Tasks, NEW to \in Tasks,
         t # to, t \in Way[x] <=> to \in Way[x], NEW i \in Range(chan[t]),
         Range(chan'[t]) = Range(chan[t]) \ {i}, Range(chan'[to]) = Range(chan[to]) \cup {i},
         \A u \in Tasks \ {t, to} : chan'[u] = chan[u],
         UNCHANGED <<held, outbox>>
  PROVE  /\ Apart(PlaceOf(x, chan', held', outbox'))
         /\ Everything(PlaceOf(x, chan', held', outbox')) = Everything(PlaceOf(x, chan, held, outbox))
         /\ t \in Way[x] => i \notin Range(chan[to])
<1>1. PICK C, H, O, R : /\ C = InChan(x, chan, t) /\ H = InHeld(x, held, t) /\ O = InOut(x, outbox, t)
                        /\ R = InChan(x, chan, to)
  OBVIOUS
<1>2. PICK C2, H2, O2, R2 : /\ C2 = InChan(x, chan', t) /\ H2 = InHeld(x, held', t)
                            /\ O2 = InOut(x, outbox', t) /\ R2 = InChan(x, chan', to)
  OBVIOUS
<1>3. /\ H2 = H /\ O2 = O
      /\ \/ C2 = C \ {i} /\ R2 = R \cup {i} /\ i \in C
         \/ C2 = C /\ R2 = R
  BY <1>1, <1>2 DEF InChan, InHeld, InOut
<1>4. /\ C \cap H = {} /\ C \cap O = {} /\ C \cap R = {}
      /\ H \cap O = {} /\ H \cap R = {} /\ O \cap R = {}
      /\ C \cup H \cup O \cup R \subseteq Everything(PlaceOf(x, chan, held, outbox))
  BY <1>1, OwnHands
<1>5. /\ C2 \cap H2 = {} /\ C2 \cap O2 = {} /\ C2 \cap R2 = {}
      /\ H2 \cap O2 = {} /\ H2 \cap R2 = {} /\ O2 \cap R2 = {}
      /\ \A j \in C2 \cup H2 \cup O2 \cup R2 :
            j \in C \cup H \cup O \cup R \/ j \notin Everything(PlaceOf(x, chan, held, outbox))
  BY <1>3, <1>4
<1>6. \A u \in Tasks \ {t} : held'[u] = held[u] /\ outbox'[u] = outbox[u]
  OBVIOUS
<1>7. /\ Apart(PlaceOf(x, chan', held', outbox'))
      /\ Everything(PlaceOf(x, chan', held', outbox')) =
            (Everything(PlaceOf(x, chan, held, outbox)) \ (C \cup H \cup O \cup R))
               \cup (C2 \cup H2 \cup O2 \cup R2)
  BY <1>1, <1>2, <1>5, <1>6, Hands
<1>8. PICK E : E = Everything(PlaceOf(x, chan, held, outbox))
  OBVIOUS
<1>9. (E \ (C \cup H \cup O \cup R)) \cup (C2 \cup H2 \cup O2 \cup R2) = E
  BY <1>3, <1>4, <1>8
<1>10. t \in Way[x] => i \notin Range(chan[to])
  BY <1>1, <1>4 DEF InChan
<1> QED  BY <1>7, <1>8, <1>9, <1>10

\* The first entry of an outbox goes out, or is dropped.
LEMMA SendPlaces ==
  ASSUME NEW x \in Tables, Apart(PlaceOf(x, chan, held, outbox)), NEW t \in Fans, NEW to \in Tasks,
         t # to, NEW i,
         IF to \in Way[x] THEN i \in OutOf(x, outbox[t]) /\ OutOf(x, outbox'[t]) = OutOf(x, outbox[t]) \ {i}
                          ELSE OutOf(x, outbox'[t]) = OutOf(x, outbox[t]),
         \A u \in Tasks \ {to} : chan'[u] = chan[u],
         Range(chan'[to]) = Range(chan[to]) \cup {i} \/ chan'[to] = chan[to],
         \A u \in Tasks \ {t} : outbox'[u] = outbox[u], UNCHANGED held
  PROVE  /\ Apart(PlaceOf(x, chan', held', outbox'))
         /\ Everything(PlaceOf(x, chan', held', outbox')) \subseteq Everything(PlaceOf(x, chan, held, outbox))
         /\ Range(chan'[to]) = Range(chan[to]) \cup {i} =>
               Everything(PlaceOf(x, chan', held', outbox')) = Everything(PlaceOf(x, chan, held, outbox))
         /\ to \in Way[x] => i \notin Range(chan[to])
<1>0. t \in Tasks
  BY TaskFacts
<1>1. PICK C, H, O, R : /\ C = InChan(x, chan, t) /\ H = InHeld(x, held, t) /\ O = InOut(x, outbox, t)
                        /\ R = InChan(x, chan, to)
  OBVIOUS
<1>2. PICK C2, H2, O2, R2 : /\ C2 = InChan(x, chan', t) /\ H2 = InHeld(x, held', t)
                            /\ O2 = InOut(x, outbox', t) /\ R2 = InChan(x, chan', to)
  OBVIOUS
<1>3. /\ H2 = H /\ C2 = C
      /\ \/ /\ O2 = O \ {i} /\ i \in O /\ to \in Way[x]
            /\ R2 = R \cup {i} \/ (R2 = R /\ chan'[to] = chan[to])
         \/ O2 = O /\ R2 = R /\ to \notin Way[x]
  <2>1. C2 = C /\ H2 = H
    BY <1>0, <1>1, <1>2 DEF InChan, InHeld
  <2>2. O = OutOf(x, outbox[t]) /\ O2 = OutOf(x, outbox'[t])
    BY <1>1, <1>2 DEF InOut
  <2>3. CASE to \in Way[x]
    <3>1. R = Range(chan[to]) /\ R2 = Range(chan'[to])
      BY <1>1, <1>2, <2>3 DEF InChan
    <3> QED  BY <2>1, <2>2, <2>3, <3>1
  <2>4. CASE to \notin Way[x]
    <3>1. R = {} /\ R2 = {}
      BY <1>1, <1>2, <2>4 DEF InChan
    <3> QED  BY <2>1, <2>2, <2>4, <3>1
  <2> QED  BY <2>3, <2>4
<1>4. /\ C \cap H = {} /\ C \cap O = {} /\ C \cap R = {}
      /\ H \cap O = {} /\ H \cap R = {} /\ O \cap R = {}
      /\ C \cup H \cup O \cup R \subseteq Everything(PlaceOf(x, chan, held, outbox))
  BY <1>0, <1>1, OwnHands
<1>5. /\ C2 \cap H2 = {} /\ C2 \cap O2 = {} /\ C2 \cap R2 = {}
      /\ H2 \cap O2 = {} /\ H2 \cap R2 = {} /\ O2 \cap R2 = {}
      /\ \A j \in C2 \cup H2 \cup O2 \cup R2 :
            j \in C \cup H \cup O \cup R \/ j \notin Everything(PlaceOf(x, chan, held, outbox))
  BY <1>3, <1>4
<1>6. /\ \A u \in Tasks \ {t} : held'[u] = held[u] /\ outbox'[u] = outbox[u]
      /\ \A u \in Tasks \ {t, to} : chan'[u] = chan[u]
  OBVIOUS
<1>7. /\ Apart(PlaceOf(x, chan', held', outbox'))
      /\ Everything(PlaceOf(x, chan', held', outbox')) =
            (Everything(PlaceOf(x, chan, held, outbox)) \ (C \cup H \cup O \cup R))
               \cup (C2 \cup H2 \cup O2 \cup R2)
  BY <1>0, <1>1, <1>2, <1>5, <1>6, Hands
<1>8. PICK E : E = Everything(PlaceOf(x, chan, held, outbox))
  OBVIOUS
<1>9. (E \ (C \cup H \cup O \cup R)) \cup (C2 \cup H2 \cup O2 \cup R2) \subseteq E
  BY <1>3, <1>4, <1>8
<1>10. ASSUME Range(chan'[to]) = Range(chan[to]) \cup {i}
       PROVE  (E \ (C \cup H \cup O \cup R)) \cup (C2 \cup H2 \cup O2 \cup R2) = E
  <2>1. \/ O2 = O /\ R2 = R
        \/ O2 = O \ {i} /\ i \in O /\ R2 = R \cup {i}
    <3>1. to \in Way[x] => R2 = R \cup {i}
      BY <1>1, <1>2, <1>10 DEF InChan
    <3> QED  BY <1>3, <3>1
  <2> QED  BY <1>3, <1>4, <1>8, <2>1
<1>11. to \in Way[x] => i \notin Range(chan[to])
  BY <1>1, <1>3, <1>4 DEF InChan
<1> QED  BY <1>7, <1>8, <1>9, <1>10, <1>11

\* A task takes in the head of its channel, keeps some of what it has and makes some
\* of it ready to send.
LEMMA WorkPlaces ==
  ASSUME NEW x \in Tables, Apart(PlaceOf(x, chan, held, outbox)), NEW t \in Tasks,
         \A u \in Tasks \ {t} : chan'[u] = chan[u] /\ held'[u] = held[u] /\ outbox'[u] = outbox[u],
         InOut(x, outbox, t) = {},
         InChan(x, chan', t) \subseteq InChan(x, chan, t),
         InChan(x, chan', t) \cap (InHeld(x, held', t) \cup InOut(x, outbox', t)) = {},
         InHeld(x, held', t) \cap InOut(x, outbox', t) = {},
         InHeld(x, held', t) \cup InOut(x, outbox', t) \subseteq InChan(x, chan, t) \cup InHeld(x, held, t)
  PROVE  /\ Apart(PlaceOf(x, chan', held', outbox'))
         /\ Everything(PlaceOf(x, chan', held', outbox')) =
               (Everything(PlaceOf(x, chan, held, outbox)) \ (InChan(x, chan, t) \cup InHeld(x, held, t)))
                  \cup (InChan(x, chan', t) \cup InHeld(x, held', t) \cup InOut(x, outbox', t))
         /\ InChan(x, chan, t) \cup InHeld(x, held, t) \subseteq Everything(PlaceOf(x, chan, held, outbox))
         /\ InChan(x, chan, t) \cap InHeld(x, held, t) = {}
<1>1. PICK C, H, O : C = InChan(x, chan, t) /\ H = InHeld(x, held, t) /\ O = InOut(x, outbox, t)
  OBVIOUS
<1>2. PICK C2, H2, O2 : C2 = InChan(x, chan', t) /\ H2 = InHeld(x, held', t) /\ O2 = InOut(x, outbox', t)
  OBVIOUS
<1>3. O = {} /\ C2 \subseteq C /\ C2 \cap (H2 \cup O2) = {} /\ H2 \cap O2 = {} /\ H2 \cup O2 \subseteq C \cup H
  BY <1>1, <1>2
<1>4. /\ C \cap H = {}
      /\ C \cup H \cup O \subseteq Everything(PlaceOf(x, chan, held, outbox))
  BY <1>1, OwnHandsAlone
<1>5. /\ C2 \cap H2 = {} /\ C2 \cap O2 = {} /\ H2 \cap O2 = {}
      /\ \A j \in C2 \cup H2 \cup O2 :
            j \in C \cup H \cup O \/ j \notin Everything(PlaceOf(x, chan, held, outbox))
  BY <1>3
<1>6. /\ Apart(PlaceOf(x, chan', held', outbox'))
      /\ Everything(PlaceOf(x, chan', held', outbox')) =
            (Everything(PlaceOf(x, chan, held, outbox)) \ (C \cup H \cup O)) \cup (C2 \cup H2 \cup O2)
  BY <1>1, <1>2, <1>5, HandsAlone
<1>7. C \cup H \cup O = C \cup H
  BY <1>3
<1> QED  BY <1>1, <1>2, <1>4, <1>6, <1>7

\* A task that returns takes what it has off the way.
LEMMA ReturnPlaces ==
  ASSUME NetType, NEW x \in Tables, Apart(PlaceOf(x, chan, held, outbox)), NEW t \in Tasks, NEW how \in Statuses,
         Return(t, how)
  PROVE  /\ Apart(PlaceOf(x, chan', held', outbox'))
         /\ Everything(PlaceOf(x, chan', held', outbox')) =
               Everything(PlaceOf(x, chan, held, outbox))
                  \ (InChan(x, chan, t) \cup InHeld(x, held, t) \cup InOut(x, outbox, t))
         /\ InChan(x, chan, t) \cup InHeld(x, held, t) \subseteq Everything(PlaceOf(x, chan, held, outbox))
<1>1. PICK C, H, O : C = InChan(x, chan, t) /\ H = InHeld(x, held, t) /\ O = InOut(x, outbox, t)
  OBVIOUS
<1>2. PICK C2, H2, O2 : C2 = InChan(x, chan', t) /\ H2 = InHeld(x, held', t) /\ O2 = InOut(x, outbox', t)
  OBVIOUS
<1>3. /\ chan'[t] = << >> /\ outbox'[t] = << >> /\ held'[t] = {}
      /\ \A u \in Tasks \ {t} : chan'[u] = chan[u] /\ held'[u] = held[u] /\ outbox'[u] = outbox[u]
  BY ReturnEffects
<1>4. Range(<< >>) = {}
  BY DEF Range
<1>5. C2 = {} /\ H2 = {} /\ O2 = {}
  BY <1>2, <1>3, <1>4, OutEmpty DEF InChan, InHeld, InOut
<1>6. /\ C2 \cap H2 = {} /\ C2 \cap O2 = {} /\ H2 \cap O2 = {}
      /\ \A j \in C2 \cup H2 \cup O2 :
            j \in C \cup H \cup O \/ j \notin Everything(PlaceOf(x, chan, held, outbox))
  BY <1>5
<1>7. /\ Apart(PlaceOf(x, chan', held', outbox'))
      /\ Everything(PlaceOf(x, chan', held', outbox')) =
            (Everything(PlaceOf(x, chan, held, outbox)) \ (C \cup H \cup O)) \cup (C2 \cup H2 \cup O2)
  BY <1>1, <1>2, <1>3, <1>6, HandsAlone
<1>8. C \cup H \cup O \subseteq Everything(PlaceOf(x, chan, held, outbox))
  BY <1>1, OwnHandsAlone
<1> QED  BY <1>1, <1>5, <1>7, <1>8

-----------------------------------------------------------------------------
(* Every step is a step of Delivery.                                        *)

LEMMA WayContents ==
  ASSUME NEW x \in Tables, NEW ch, NEW he, NEW ob
  PROVE  Everything(PlaceOf(x, ch, he, ob)) =
            (UNION {Range(ch[t]) \cup he[t] : t \in Way[x]})
               \cup {s[2] : s \in {y \in UNION {Range(ob[t]) : t \in Fanouts \cup Stateful} : y[1] \in Way[x]}}
<1> DEFINE A == UNION {Range(ch[t]) \cup he[t] : t \in Way[x]}
           B == {s[2] : s \in {y \in UNION {Range(ob[t]) : t \in Fanouts \cup Stateful} : y[1] \in Way[x]}}
<1>1. PICK f : f = PlaceOf(x, ch, he, ob)
  OBVIOUS
<1>2. /\ DOMAIN f = Places
      /\ \A t \in Tasks : /\ f[<<"chan", t>>] = InChan(x, ch, t) /\ f[<<"held", t>>] = InHeld(x, he, t)
                          /\ f[<<"out", t>>] = InOut(x, ob, t)
                          /\ <<"chan", t>> \in Places /\ <<"held", t>> \in Places /\ <<"out", t>> \in Places
      /\ \A c \in Places : \E t \in Tasks : c \in {<<"chan", t>>, <<"held", t>>, <<"out", t>>}
  BY <1>1, PlaceValues
<1>3. \A i : i \in Everything(f) <=> \E t \in Tasks : i \in InChan(x, ch, t) \cup InHeld(x, he, t) \cup InOut(x, ob, t)
  <2>1. ASSUME NEW i, i \in Everything(f)
        PROVE  \E t \in Tasks : i \in InChan(x, ch, t) \cup InHeld(x, he, t) \cup InOut(x, ob, t)
    <3>1. PICK c \in Places : i \in f[c]
      BY <1>2, <2>1 DEF Everything
    <3>2. PICK t \in Tasks : c \in {<<"chan", t>>, <<"held", t>>, <<"out", t>>}
      BY <1>2
    <3> QED  BY <1>2, <3>1, <3>2
  <2>2. ASSUME NEW i, NEW t \in Tasks, i \in InChan(x, ch, t) \cup InHeld(x, he, t) \cup InOut(x, ob, t)
        PROVE  i \in Everything(f)
    BY <1>2, <2>2 DEF Everything
  <2> QED  BY <2>1, <2>2
<1>4. Way[x] \subseteq Tasks /\ Fans \subseteq Tasks
  BY WayFacts, TaskFacts
<1>5. ASSUME NEW i, i \in Everything(f) PROVE i \in A \cup B
  <2>1. PICK t \in Tasks : i \in InChan(x, ch, t) \cup InHeld(x, he, t) \cup InOut(x, ob, t)
    BY <1>3, <1>5
  <2>2. CASE i \in InChan(x, ch, t) \cup InHeld(x, he, t)
    BY <2>2 DEF InChan, InHeld
  <2>3. CASE i \in InOut(x, ob, t)
    <3>1. t \in Fans /\ i \in OutOf(x, ob[t])
      BY <2>3 DEF InOut
    <3>2. PICK s \in Range(ob[t]) : s[1] \in Way[x] /\ s[2] = i
      BY <3>1 DEF OutOf
    <3>3. s \in UNION {Range(ob[u]) : u \in Fanouts \cup Stateful}
      BY <3>1, <3>2 DEF Fans
    <3> QED  BY <3>2, <3>3
  <2> QED  BY <2>1, <2>2, <2>3
<1>6. ASSUME NEW i \in A PROVE i \in Everything(f)
  <2>1. PICK t \in Way[x] : i \in Range(ch[t]) \cup he[t]
    BY <1>6
  <2> QED  BY <1>3, <1>4, <2>1 DEF InChan, InHeld
<1>7. ASSUME NEW i \in B PROVE i \in Everything(f)
  <2>1. PICK s \in UNION {Range(ob[t]) : t \in Fanouts \cup Stateful} : s[1] \in Way[x] /\ s[2] = i
    BY <1>7
  <2>2. PICK t \in Fanouts \cup Stateful : s \in Range(ob[t])
    BY <2>1
  <2>3. t \in Fans /\ i \in OutOf(x, ob[t])
    BY <2>1, <2>2 DEF OutOf, Fans
  <2> QED  BY <1>3, <1>4, <2>3 DEF InOut
<1>8. Everything(f) = A \cup B
  BY <1>5, <1>6, <1>7
<1> HIDE DEF A, B
<1>9. Everything(PlaceOf(x, ch, he, ob)) = A \cup B
  BY <1>1, <1>8
<1> QED  BY <1>9 DEF A, B

LEMMA FlightIs ==
  /\ InFlight = [x \in Tables |-> Destined[x] \cap Everything(PlaceOf(x, chan, held, outbox))]
  /\ InFlight' = [x \in Tables |-> Destined[x] \cap Everything(PlaceOf(x, chan', held', outbox'))]
<1>1. InFlight = [x \in Tables |-> Destined[x] \cap Everything(PlaceOf(x, chan, held, outbox))]
  BY WayContents DEF InFlight, Outgoing
<1>2. InFlight' = [x \in Tables |-> Destined[x] \cap Everything(PlaceOf(x, chan', held', outbox'))]
  BY WayContents DEF InFlight, Outgoing
<1> QED  BY <1>1, <1>2

\* Steps that move items along their ways, and change nothing else.
LEMMA StutterStep ==
  ASSUME \A x \in Tables : Destined[x] \cap Everything(PlaceOf(x, chan', held', outbox'))
                              = Destined[x] \cap Everything(PlaceOf(x, chan, held, outbox)),
         UNCHANGED <<unread, stored, failed>>, Panicked' <=> Panicked
  PROVE  UNCHANGED D!vars
<1>1. InFlight' = InFlight
  BY FlightIs
<1>2. [x \in Tables |-> stored[x] \cup failed[x]]' = [x \in Tables |-> stored[x] \cup failed[x]]
  OBVIOUS
<1>3. Panicked' = Panicked
  BY DEF Panicked
<1> QED  BY <1>1, <1>2, <1>3 DEF D!vars

\* A panic, and the end of a stage that follows from one.
LEMMA LoseStep ==
  ASSUME \A x \in Tables : Everything(PlaceOf(x, chan', held', outbox'))
                              \subseteq Everything(PlaceOf(x, chan, held, outbox)),
         UNCHANGED <<unread, stored, failed>>, Panicked'
  PROVE  D!Next
<1>1. \A x \in Tables : InFlight'[x] \subseteq InFlight[x]
  BY FlightIs
<1>2. [x \in Tables |-> stored[x] \cup failed[x]]' = [x \in Tables |-> stored[x] \cup failed[x]]
  OBVIOUS
<1>3. Panicked' = TRUE
  BY DEF Panicked
<1>4. D!Lose
  BY <1>1, <1>2, <1>3 DEF D!Lose
<1> QED  BY <1>4 DEF D!Next

LEMMA CaptureStep ==
  ASSUME NEW i \in Items, i \in unread, unread' = unread \ {i},
         \A x \in Tables : Everything(PlaceOf(x, chan', held', outbox'))
                              = Everything(PlaceOf(x, chan, held, outbox)) \cup {i},
         UNCHANGED <<stored, failed>>, Panicked' <=> Panicked
  PROVE  D!Next
<1>1. InFlight' = [x \in Tables |-> InFlight[x] \cup ({i} \cap Destined[x])]
  BY FlightIs
<1>2. [x \in Tables |-> stored[x] \cup failed[x]]' = [x \in Tables |-> stored[x] \cup failed[x]]
  OBVIOUS
<1>3. Panicked' = Panicked
  BY DEF Panicked
<1>4. D!Capture(i)
  BY <1>1, <1>2, <1>3 DEF D!Capture
<1> QED  BY <1>4 DEF D!Next

LEMMA SettleStep ==
  ASSUME NEW x \in Tables, NEW batch \in SUBSET Items, batch \subseteq Destined[x],
         batch \subseteq Everything(PlaceOf(x, chan, held, outbox)),
         Everything(PlaceOf(x, chan', held', outbox')) = Everything(PlaceOf(x, chan, held, outbox)) \ batch,
         \A y \in Tables \ {x} : Everything(PlaceOf(y, chan', held', outbox'))
                                    = Everything(PlaceOf(y, chan, held, outbox)),
         stored'[x] \cup failed'[x] = stored[x] \cup failed[x] \cup batch,
         \A y \in Tables \ {x} : stored'[y] \cup failed'[y] = stored[y] \cup failed[y],
         UNCHANGED unread, Panicked' <=> Panicked
  PROVE  D!Next
<1>1. InFlight' = [InFlight EXCEPT ![x] = @ \ batch] /\ batch \subseteq InFlight[x]
  BY FlightIs
<1>2. [y \in Tables |-> stored[y] \cup failed[y]]'
         = [[y \in Tables |-> stored[y] \cup failed[y]] EXCEPT ![x] = @ \cup batch]
  OBVIOUS
<1>3. Panicked' = Panicked
  BY DEF Panicked
<1>4. D!Settle(x, batch)
  BY <1>1, <1>2, <1>3 DEF D!Settle
<1> QED  BY <1>4 DEF D!Next

LEMMA PlacesFrom ==
  ASSUME \A x \in Tables : /\ Apart(PlaceOf(x, chan', held', outbox'))
                           /\ Everything(PlaceOf(x, chan', held', outbox')) \cap unread' = {},
         \A t \in Tasks : IsInjective(chan'[t]),
         \A t \in Fans, x \in Tables : NoTwice(x, outbox'[t])
  PROVE  InOnePlace'
  BY DEF InOnePlace, OnWay

\* Only a panic makes Panicked true.
LEMMA NoPanic ==
  ASSUME NEW t \in Tasks, \A u \in Tasks \ {t} : status'[u] = status[u],
         status'[t] # "panicked", status[t] # "panicked"
  PROVE  Panicked' <=> Panicked
  BY DEF Panicked

\* A task that returns drops what it has.
LEMMA ReturnDelivers ==
  ASSUME NetType, InOnePlace, NEW t \in Tasks, NEW how \in Statuses, Return(t, how), UNCHANGED unread
  PROVE  /\ InOnePlace'
         /\ \A x \in Tables : Everything(PlaceOf(x, chan', held', outbox'))
                                 \subseteq Everything(PlaceOf(x, chan, held, outbox))
<1>1. \A x \in Tables : /\ Apart(PlaceOf(x, chan', held', outbox'))
                        /\ Everything(PlaceOf(x, chan', held', outbox'))
                              \subseteq Everything(PlaceOf(x, chan, held, outbox))
  BY ReturnPlaces DEF InOnePlace
<1>2. /\ chan'[t] = << >> /\ outbox'[t] = << >>
      /\ \A u \in Tasks \ {t} : chan'[u] = chan[u] /\ outbox'[u] = outbox[u]
  BY ReturnEffects
<1>3. IsInjective(<< >>)
  BY DEF IsInjective
<1>4. \A u \in Tasks : IsInjective(chan'[u])
  BY <1>2, <1>3 DEF InOnePlace
<1>5. \A u \in Fans, x \in Tables : NoTwice(x, outbox'[u])
  BY <1>2, OutEmpty, TaskFacts DEF InOnePlace
<1>6. \A x \in Tables : Everything(PlaceOf(x, chan', held', outbox')) \cap unread' = {}
  BY <1>1 DEF InOnePlace, OnWay
<1> QED  BY <1>1, <1>4, <1>5, <1>6, PlacesFrom

LEMMA ReadDelivers ==
  ASSUME NetType, InOnePlace, NEW p \in Pipelines, Read(p) \/ Finish(p)
  PROVE  InOnePlace' /\ [D!Next]_(D!vars)
<1> USE TaskFacts
<1> DEFINE d == <<"dispatcher", p>>
<1>0. UNCHANGED <<outbox, held, status, stored, failed>>
  BY DEF Read, Finish, tables
<1>1. Panicked' <=> Panicked
  BY <1>0 DEF Panicked
<1>2. CASE UNCHANGED <<unread, chan>>
  <2>1. UNCHANGED D!vars
    BY <1>0, <1>1, <1>2, StutterStep
  <2>2. InOnePlace'
    BY <1>0, <1>2 DEF InOnePlace, OnWay
  <2> QED  BY <2>1, <2>2
<1>3. CASE \E i \in unread : chan' = [chan EXCEPT ![d] = Append(@, i)] /\ unread' = unread \ {i}
  <2>1. PICK i \in unread : chan' = [chan EXCEPT ![d] = Append(@, i)] /\ unread' = unread \ {i}
    BY <1>3
  <2>2. /\ d \in Tasks /\ i \in Items /\ chan[d] \in Seq(Items)
        /\ chan'[d] = Append(chan[d], i) /\ \A u \in Tasks \ {d} : chan'[u] = chan[u]
    BY <2>1 DEF NetType, TypeOK
  <2>3. \A x \in Tables : d \in Way[x] /\ i \notin Everything(PlaceOf(x, chan, held, outbox))
    BY <2>1, WayFacts DEF InOnePlace, OnWay
  <2>4. Range(chan'[d]) = Range(chan[d]) \cup {i}
    BY <2>2, AppendFacts
  <2> HIDE DEF d
  <2>5. \A x \in Tables :
           /\ Apart(PlaceOf(x, chan', held', outbox'))
           /\ Everything(PlaceOf(x, chan', held', outbox')) = Everything(PlaceOf(x, chan, held, outbox)) \cup {i}
    <3> SUFFICES ASSUME NEW x \in Tables
                 PROVE  /\ Apart(PlaceOf(x, chan', held', outbox'))
                        /\ Everything(PlaceOf(x, chan', held', outbox'))
                              = Everything(PlaceOf(x, chan, held, outbox)) \cup {i}
      OBVIOUS
    <3>1. /\ Apart(PlaceOf(x, chan, held, outbox)) /\ d \in Way[x]
          /\ i \notin Everything(PlaceOf(x, chan, held, outbox))
      BY <2>3 DEF InOnePlace
    <3>2. UNCHANGED <<held, outbox>>
      BY <1>0
    <3>3. d \in Tasks /\ \A u \in Tasks \ {d} : chan'[u] = chan[u]
      BY <2>2
    <3> QED  BY <2>4, <3>1, <3>2, <3>3, ReadPlaces
  <2>6. \A u \in Tasks : IsInjective(chan'[u])
    <3>1. "exchanges" \in Tables
      BY DEF Tables
    <3>2. InChan("exchanges", chan, d) \subseteq Everything(PlaceOf("exchanges", chan, held, outbox))
      <4>1. PICK C, H, O : /\ C = InChan("exchanges", chan, d) /\ H = InHeld("exchanges", held, d)
                           /\ O = InOut("exchanges", outbox, d)
        OBVIOUS
      <4>2. Apart(PlaceOf("exchanges", chan, held, outbox))
        BY <3>1 DEF InOnePlace
      <4> QED  BY <2>2, <3>1, <4>1, <4>2, OwnHandsAlone
    <3>3. i \notin Range(chan[d])
      BY <2>3, <3>1, <3>2 DEF InChan
    <3>4. IsInjective(chan'[d])
      BY <2>2, <3>3, AppendFacts DEF InOnePlace
    <3> QED  BY <2>2, <3>4 DEF InOnePlace
  <2>7. InOnePlace'
    <3>1. \A x \in Tables : Everything(PlaceOf(x, chan', held', outbox')) \cap unread' = {}
      BY <2>1, <2>5 DEF InOnePlace, OnWay
    <3>2. \A u \in Fans, x \in Tables : NoTwice(x, outbox'[u])
      BY <1>0 DEF InOnePlace
    <3> QED  BY <2>5, <2>6, <3>1, <3>2, PlacesFrom
  <2>8. D!Next
    BY <1>0, <1>1, <2>1, <2>2, <2>5, CaptureStep
  <2> QED  BY <2>7, <2>8
<1> QED  BY <1>2, <1>3 DEF Read, Finish

LEMMA ForwardDelivers ==
  ASSUME NetType, EndsInTurn, InOnePlace, [Next]_vars, NEW t \in Forwarders, Forward(t)
  PROVE  InOnePlace' /\ [D!Next]_(D!vars)
<1> USE TaskFacts
<1> DEFINE to == Receiver(t)
           i == Head(chan[t])
<1>1. /\ t \in Tasks /\ to \in Tasks /\ to # t /\ t \in Senders(to) /\ to[1] # "dispatcher"
      /\ (\A x \in Tables : t \in Way[x] <=> to \in Way[x]) /\ (\E x \in Tables : t \in Way[x])
  BY ReceiverFacts
<1>2. UNCHANGED <<unread, stored, failed>> /\ chan[t] # << >> /\ status[t] = "running"
  BY DEF Forward, tables
<1> HIDE DEF to, i
<1>3. CASE Gone(to) /\ Return(t, "ended")
  <2>1. Panicked'
    BY <1>1, <1>2, <1>3, GoneMeansPanicked, EndsStay
  <2>2. /\ InOnePlace'
        /\ \A x \in Tables : Everything(PlaceOf(x, chan', held', outbox'))
                                 \subseteq Everything(PlaceOf(x, chan, held, outbox))
    BY <1>1, <1>2, <1>3, ReturnDelivers DEF Statuses
  <2>3. D!Next
    BY <1>2, <2>1, <2>2, LoseStep
  <2> QED  BY <2>2, <2>3
<1>4. CASE chan' = [chan EXCEPT ![t] = Tail(@), ![to] = Append(@, i)] /\ UNCHANGED <<outbox, held, status>>
  <2>1. /\ chan[t] \in Seq(Items) /\ chan[to] \in Seq(Items) /\ chan'[t] = Tail(chan[t])
        /\ chan'[to] = Append(chan[to], i) /\ \A u \in Tasks \ {t, to} : chan'[u] = chan[u]
    BY <1>1, <1>4 DEF NetType, TypeOK
  <2>2. /\ IsInjective(chan'[t]) /\ Range(chan'[t]) = Range(chan[t]) \ {i} /\ i \in Range(chan[t]) /\ i \in Items
    BY <1>1, <1>2, <2>1, TailFacts DEF InOnePlace, i
  <2>3. /\ Range(chan'[to]) = Range(chan[to]) \cup {i}
        /\ i \notin Range(chan[to]) => IsInjective(chan'[to])
    BY <1>1, <2>1, <2>2, AppendFacts DEF InOnePlace
  <2>4. \A x \in Tables :
           /\ Apart(PlaceOf(x, chan', held', outbox'))
           /\ Everything(PlaceOf(x, chan', held', outbox')) = Everything(PlaceOf(x, chan, held, outbox))
           /\ t \in Way[x] => i \notin Range(chan[to])
    BY <1>1, <1>4, <2>1, <2>2, <2>3, ForwardPlaces DEF InOnePlace
  <2>5. \A u \in Tasks : IsInjective(chan'[u])
    BY <1>1, <2>1, <2>2, <2>3, <2>4 DEF InOnePlace
  <2>6. InOnePlace'
    <3>1. \A x \in Tables : Everything(PlaceOf(x, chan', held', outbox')) \cap unread' = {}
      BY <1>2, <2>4 DEF InOnePlace, OnWay
    <3>2. \A u \in Fans, x \in Tables : NoTwice(x, outbox'[u])
      BY <1>4 DEF InOnePlace
    <3> QED  BY <2>4, <2>5, <3>1, <3>2, PlacesFrom
  <2>7. Panicked' <=> Panicked
    BY <1>4 DEF Panicked
  <2>8. UNCHANGED D!vars
    BY <1>2, <2>4, <2>7, StutterStep
  <2> QED  BY <2>6, <2>8
<1> QED  BY <1>3, <1>4 DEF Forward, to, i

LEMMA SendDelivers ==
  ASSUME OrderInv, EndsInTurn, InOnePlace, [Next]_vars, NEW t \in Fans, Send(t)
  PROVE  InOnePlace' /\ [D!Next]_(D!vars)
<1> USE TaskFacts
<1> DEFINE to == Head(outbox[t])[1]
           i == Head(outbox[t])[2]
<1>0. NetType /\ t \in Tasks /\ UNCHANGED <<unread, stored, failed>> /\ outbox[t] # << >>
      /\ status[t] \in {"running", "flushing"}
  BY DEF OrderInv, Send, tables
<1>1. outbox[t] \in Seq(Tasks \X Items)
  BY <1>0 DEF NetType, TypeOK
<1>2. 1 \in DOMAIN outbox[t] /\ Head(outbox[t]) = outbox[t][1]
  BY <1>0, <1>1
<1>3. /\ to \in Tasks /\ t # to /\ t \in Senders(to) /\ to[1] # "dispatcher" /\ i \in Items
      /\ \E x \in Tables : to \in Way[x]
  BY <1>2, Targets
<1>4. \A x \in Tables :
        /\ NoTwice(x, Tail(outbox[t]))
        /\ IF to \in Way[x]
           THEN i \in OutOf(x, outbox[t]) /\ OutOf(x, Tail(outbox[t])) = OutOf(x, outbox[t]) \ {i}
           ELSE OutOf(x, Tail(outbox[t])) = OutOf(x, outbox[t])
  BY <1>0, <1>1, OutTail DEF InOnePlace
<1> HIDE DEF to, i
<1>5. CASE Gone(to) /\ Return(t, "ended")
  <2>1. Panicked'
    BY <1>0, <1>3, <1>5, GoneMeansPanicked, EndsStay
  <2>2. /\ InOnePlace'
        /\ \A x \in Tables : Everything(PlaceOf(x, chan', held', outbox'))
                                 \subseteq Everything(PlaceOf(x, chan, held, outbox))
    BY <1>0, <1>5, ReturnDelivers DEF Statuses
  <2>3. D!Next
    BY <1>0, <2>1, <2>2, LoseStep
  <2> QED  BY <2>2, <2>3
<1>6. CASE /\ outbox' = [outbox EXCEPT ![t] = Tail(@)] /\ UNCHANGED <<held, status>>
           /\ chan' = [chan EXCEPT ![to] = Append(@, i)] \/ (UNCHANGED chan /\ Gone(to))
  <2>1. /\ outbox'[t] = Tail(outbox[t]) /\ \A u \in Tasks \ {t} : outbox'[u] = outbox[u]
        /\ \A u \in Tasks \ {to} : chan'[u] = chan[u]
        /\ chan'[to] = Append(chan[to], i) \/ (UNCHANGED chan /\ Gone(to))
        /\ chan[to] \in Seq(Items)
    BY <1>0, <1>3, <1>6 DEF NetType, TypeOK
  <2>2. chan'[to] = Append(chan[to], i) =>
           /\ Range(chan'[to]) = Range(chan[to]) \cup {i}
           /\ i \notin Range(chan[to]) => IsInjective(chan'[to])
    BY <1>3, <2>1, AppendFacts DEF InOnePlace
  <2>3. \A x \in Tables :
          IF to \in Way[x]
          THEN i \in OutOf(x, outbox[t]) /\ OutOf(x, outbox'[t]) = OutOf(x, outbox[t]) \ {i}
          ELSE OutOf(x, outbox'[t]) = OutOf(x, outbox[t])
    BY <1>4, <2>1
  <2>4. Range(chan'[to]) = Range(chan[to]) \cup {i} \/ chan'[to] = chan[to]
    BY <2>1, <2>2
  <2>5. \A x \in Tables :
         /\ Apart(PlaceOf(x, chan', held', outbox'))
         /\ Everything(PlaceOf(x, chan', held', outbox')) \subseteq Everything(PlaceOf(x, chan, held, outbox))
         /\ Range(chan'[to]) = Range(chan[to]) \cup {i} =>
               Everything(PlaceOf(x, chan', held', outbox')) = Everything(PlaceOf(x, chan, held, outbox))
         /\ to \in Way[x] => i \notin Range(chan[to])
    BY <1>3, <1>6, <2>1, <2>3, <2>4, SendPlaces DEF InOnePlace
  <2>6. \A u \in Tasks : IsInjective(chan'[u])
    BY <1>3, <2>1, <2>2, <2>5 DEF InOnePlace
  <2>7. \A u \in Fans, x \in Tables : NoTwice(x, outbox'[u])
    BY <1>4, <2>1 DEF InOnePlace
  <2>8. InOnePlace'
    <3>1. \A x \in Tables : Everything(PlaceOf(x, chan', held', outbox')) \cap unread' = {}
      BY <1>0, <2>5 DEF InOnePlace, OnWay
    <3> QED  BY <2>5, <2>6, <2>7, <3>1, PlacesFrom
  <2>9. CASE chan'[to] = Append(chan[to], i)
    <3>1. Panicked' <=> Panicked
      BY <1>6 DEF Panicked
    <3>2. UNCHANGED D!vars
      BY <1>0, <2>2, <2>5, <2>9, <3>1, StutterStep
    <3> QED  BY <2>8, <3>2
  <2>10. CASE Gone(to)
    <3>1. Panicked'
      BY <1>0, <1>3, <2>10, GoneMeansPanicked, EndsStay
    <3>2. D!Next
      BY <1>0, <2>5, <3>1, LoseStep
    <3> QED  BY <2>8, <3>2
  <2> QED  BY <2>1, <2>9, <2>10
<1> QED  BY <1>5, <1>6 DEF Send, to, i

\* What an input becomes, at each kind of stage, on the way to table x.
LEMMA ReceivePlaces ==
  ASSUME NetType, KeepersKeep, NEW x \in Tables, Apart(PlaceOf(x, chan, held, outbox)),
         NEW t \in Fans, IsInjective(chan[t]), Receive(t)
  PROVE  /\ Apart(PlaceOf(x, chan', held', outbox'))
         /\ Everything(PlaceOf(x, chan', held', outbox')) \subseteq Everything(PlaceOf(x, chan, held, outbox))
         /\ Destined[x] \cap Everything(PlaceOf(x, chan', held', outbox'))
               = Destined[x] \cap Everything(PlaceOf(x, chan, held, outbox))
         /\ NoTwice(x, outbox'[t])
<1> USE TaskFacts
<1>1. PICK i : i = Head(chan[t])
  OBVIOUS
<1>2. /\ t \in Tasks /\ chan[t] # << >> /\ chan' = [chan EXCEPT ![t] = Tail(@)] /\ outbox[t] = << >>
      /\ chan[t] \in Seq(Items) /\ held[t] \in SUBSET Items /\ IsFiniteSet(held[t])
  BY DEF Receive, NetType, TypeOK
<1>3. chan'[t] = Tail(chan[t]) /\ \A u \in Tasks \ {t} : chan'[u] = chan[u] /\ held'[u] = held[u] /\ outbox'[u] = outbox[u]
  BY <1>2 DEF Receive, NetType, TypeOK
<1>4. i \in Items /\ i \in Range(chan[t]) /\ Range(chan'[t]) = Range(chan[t]) \ {i}
  BY <1>1, <1>2, <1>3, TailFacts
<1>5. PICK C, H, O : C = InChan(x, chan, t) /\ H = InHeld(x, held, t) /\ O = InOut(x, outbox, t)
  OBVIOUS
<1>6. PICK C2, H2, O2 : C2 = InChan(x, chan', t) /\ H2 = InHeld(x, held', t) /\ O2 = InOut(x, outbox', t)
  OBVIOUS
<1>7. PICK E : E = Everything(PlaceOf(x, chan, held, outbox))
  OBVIOUS
<1>8. O = {} /\ C \cap H = {} /\ C \cup H \subseteq E
  <2>1. O = {}
    BY <1>2, <1>5, OutEmpty DEF InOut
  <2>2. C \cap H = {} /\ C \cup H \cup O \subseteq Everything(PlaceOf(x, chan, held, outbox))
    BY <1>2, <1>5, OwnHandsAlone
  <2> QED  BY <1>7, <2>1, <2>2
<1>9. /\ t \in Way[x] => C = Range(chan[t]) /\ C2 = C \ {i} /\ i \in C /\ H = held[t] /\ H2 = held'[t]
      /\ t \notin Way[x] => C = {} /\ C2 = {} /\ H = {} /\ H2 = {}
      /\ O2 = OutOf(x, outbox'[t])
  BY <1>4, <1>5, <1>6 DEF InChan, InHeld, InOut
<1>10. /\ H2 \cap O2 = {} /\ C2 \cap (H2 \cup O2) = {} /\ H2 \cup O2 \subseteq C \cup H /\ C2 \subseteq C
       /\ Destined[x] \cap (C2 \cup H2 \cup O2) = Destined[x] \cap (C \cup H)
       /\ NoTwice(x, outbox'[t])
  <2>1. CASE t[1] = "joiner" /\ outbox' = [outbox EXCEPT ![t] = JoinerSends(t[2], i)] /\ UNCHANGED held
    <3>1. t = <<"joiner", t[2]>> /\ t[2] \in Pipelines /\ t \notin Stateful \cup Writers
      BY <2>1 DEF Fans, Fanouts, Stateful
    <3>2. t \in Way[x] /\ held'[t] = {} /\ outbox'[t] = JoinerSends(t[2], i)
      <4>0. t[2] \in Pipelines => <<"joiner", t[2]>> \in Way[x]
        BY WayFacts
      <4>1. t \in Way[x]
        BY <3>1, <4>0
      <4>2. held'[t] = {}
        BY <1>2, <2>1, <3>1 DEF KeepersKeep
      <4>3. outbox'[t] = JoinerSends(t[2], i)
        BY <1>2, <2>1 DEF NetType, TypeOK
      <4> QED  BY <4>1, <4>2, <4>3
    <3>3. O2 = {i} /\ NoTwice(x, outbox'[t])
      BY <1>9, <3>1, <3>2, OutJoiner
    <3>4. held[t] = {}
      BY <1>2, <3>1 DEF KeepersKeep
    <3> QED  BY <1>8, <1>9, <3>2, <3>3, <3>4
  <2>2. CASE t[1] = "llm" /\ outbox' = [outbox EXCEPT ![t] = LlmSends(t[2], i)] /\ UNCHANGED held
    <3>1. t = <<"llm", t[2]>> /\ t[2] \in Pipelines /\ t \notin Stateful \cup Writers
      BY <2>2 DEF Fans, Fanouts, Stateful
    <3>2. outbox'[t] = LlmSends(t[2], i) /\ held'[t] = {} /\ held[t] = {}
      <4>1. held'[t] = {} /\ held[t] = {}
        BY <1>2, <2>2, <3>1 DEF KeepersKeep
      <4>2. outbox'[t] = LlmSends(t[2], i)
        BY <1>2, <2>2 DEF NetType, TypeOK
      <4> QED  BY <4>1, <4>2
    <3>3. t \in Way[x] <=> x # "exchanges"
      <4>1. t[2] \in Pipelines => (<<"llm", t[2]>> \in Way[x] <=> x # "exchanges")
        BY WayFacts
      <4> QED  BY <3>1, <4>1
    <3>4. /\ O2 = IF x = "exchanges" THEN {} ELSE {i} \cap Destined[x]
          /\ NoTwice(x, outbox'[t])
      BY <1>4, <1>9, <3>1, <3>2, OutLlm
    <3>5. CASE x = "exchanges"
      BY <1>9, <3>3, <3>4, <3>5
    <3>6. CASE x # "exchanges"
      <4>1. C2 = C \ {i} /\ i \in C /\ H = {} /\ H2 = {} /\ O2 = {i} \cap Destined[x]
        BY <1>9, <3>2, <3>3, <3>4, <3>6
      <4> QED  BY <3>4, <4>1
    <3> QED  BY <3>5, <3>6
  <2>3. CASE t \in Stateful /\ \E out \in {{}, held[t] \cup {i}} :
                 /\ held' = [held EXCEPT ![t] = (@ \cup {i}) \ out]
                 /\ outbox' = [outbox EXCEPT ![t] = Emits(t, SetToSeq(out))]
    <3>1. PICK out \in {{}, held[t] \cup {i}} :
                 /\ held' = [held EXCEPT ![t] = (@ \cup {i}) \ out]
                 /\ outbox' = [outbox EXCEPT ![t] = Emits(t, SetToSeq(out))]
      BY <2>3
    <3>2. held'[t] = (held[t] \cup {i}) \ out /\ outbox'[t] = Emits(t, SetToSeq(out))
      BY <1>2, <3>1 DEF NetType, TypeOK
    <3>3. out \in SUBSET Items /\ IsFiniteSet(out)
      <4>1. IsFiniteSet(held[t] \cup {i}) /\ IsFiniteSet({})
        BY <1>2, FS_AddElement, FS_EmptySet
      <4> QED  BY <1>2, <1>4, <4>1
    <3>4. O2 = (IF t \in Way[x] THEN out ELSE {}) /\ NoTwice(x, outbox'[t])
      <4>1. t \in Stateful /\ x \in Tables
        BY <2>3
      <4>2. /\ OutOf(x, Emits(t, SetToSeq(out))) = IF t \in Way[x] THEN out ELSE {}
            /\ NoTwice(x, Emits(t, SetToSeq(out)))
        BY ONLY <4>1, <3>3, OutEmits
      <4>3. O2 = OutOf(x, outbox'[t]) /\ outbox'[t] = Emits(t, SetToSeq(out))
        BY <1>9, <3>2
      <4> QED  BY ONLY <4>2, <4>3
    <3>5. CASE t \in Way[x]
      <4>1. /\ C2 = C \ {i} /\ i \in C /\ H = held[t] /\ H2 = (H \cup {i}) \ out /\ O2 = out
            /\ out \in {{}, H \cup {i}}
        BY <1>9, <3>2, <3>4, <3>5
      <4> QED  BY <1>8, <3>4, <4>1
    <3>6. CASE t \notin Way[x]
      BY <1>9, <3>4, <3>6
    <3> QED  BY <3>5, <3>6
  <2> QED  BY <1>1, <2>1, <2>2, <2>3 DEF Receive
<1>11. /\ Apart(PlaceOf(x, chan', held', outbox'))
       /\ Everything(PlaceOf(x, chan', held', outbox')) = (E \ (C \cup H)) \cup (C2 \cup H2 \cup O2)
  <2>1. /\ InOut(x, outbox, t) = {} /\ InChan(x, chan', t) \subseteq InChan(x, chan, t)
        /\ InChan(x, chan', t) \cap (InHeld(x, held', t) \cup InOut(x, outbox', t)) = {}
        /\ InHeld(x, held', t) \cap InOut(x, outbox', t) = {}
        /\ InHeld(x, held', t) \cup InOut(x, outbox', t) \subseteq InChan(x, chan, t) \cup InHeld(x, held, t)
    BY <1>5, <1>6, <1>8, <1>10
  <2>2. /\ Apart(PlaceOf(x, chan', held', outbox'))
        /\ Everything(PlaceOf(x, chan', held', outbox')) =
               (Everything(PlaceOf(x, chan, held, outbox)) \ (InChan(x, chan, t) \cup InHeld(x, held, t)))
                  \cup (InChan(x, chan', t) \cup InHeld(x, held', t) \cup InOut(x, outbox', t))
    BY <1>2, <1>3, <2>1, WorkPlaces
  <2> QED  BY <1>5, <1>6, <1>7, <2>2
<1>12. (E \ (C \cup H)) \cup (C2 \cup H2 \cup O2) \subseteq E
  BY <1>8, <1>10
<1>13. Destined[x] \cap ((E \ (C \cup H)) \cup (C2 \cup H2 \cup O2)) = Destined[x] \cap E
  BY <1>8, <1>10
<1> QED  BY <1>7, <1>10, <1>11, <1>12, <1>13

LEMMA ReceiveDelivers ==
  ASSUME NetType, KeepersKeep, InOnePlace, NEW t \in Fans, Receive(t)
  PROVE  InOnePlace' /\ UNCHANGED D!vars
<1> USE TaskFacts
<1>1. UNCHANGED <<unread, stored, failed, status>> /\ t \in Tasks /\ chan[t] # << >>
      /\ chan' = [chan EXCEPT ![t] = Tail(@)] /\ chan[t] \in Seq(Items)
  BY DEF Receive, tables, NetType, TypeOK
<1>2. /\ chan'[t] = Tail(chan[t])
      /\ \A u \in Tasks \ {t} : chan'[u] = chan[u] /\ outbox'[u] = outbox[u]
  BY <1>1 DEF Receive, NetType, TypeOK
<1>3. \A x \in Tables : Apart(PlaceOf(x, chan, held, outbox)) /\ IsInjective(chan[t])
  BY <1>1 DEF InOnePlace
<1>4. \A x \in Tables :
         /\ Apart(PlaceOf(x, chan', held', outbox'))
         /\ Everything(PlaceOf(x, chan', held', outbox')) \subseteq Everything(PlaceOf(x, chan, held, outbox))
         /\ Destined[x] \cap Everything(PlaceOf(x, chan', held', outbox'))
               = Destined[x] \cap Everything(PlaceOf(x, chan, held, outbox))
         /\ NoTwice(x, outbox'[t])
  BY <1>3, ReceivePlaces
<1>5. IsInjective(chan'[t])
  BY <1>1, <1>2, TailFacts DEF InOnePlace
<1>6. \A u \in Tasks : IsInjective(chan'[u])
  BY <1>2, <1>5 DEF InOnePlace
<1>7. \A u \in Fans, x \in Tables : NoTwice(x, outbox'[u])
  BY <1>2, <1>4 DEF InOnePlace
<1>8. \A x \in Tables : Everything(PlaceOf(x, chan', held', outbox')) \cap unread' = {}
  BY <1>1, <1>4 DEF InOnePlace, OnWay
<1>9. InOnePlace'
  BY <1>4, <1>6, <1>7, <1>8, PlacesFrom
<1>10. Panicked' <=> Panicked
  BY <1>1 DEF Panicked
<1> QED  BY <1>1, <1>4, <1>9, <1>10, StutterStep

\* A task that ends with empty hands takes nothing with it.
LEMMA EmptyReturnDelivers ==
  ASSUME NetType, InOnePlace, NEW t \in Tasks, Return(t, "ended"), chan[t] = << >>, held[t] = {},
         outbox[t] = << >>, status[t] # "panicked", UNCHANGED <<unread, stored, failed>>
  PROVE  InOnePlace' /\ UNCHANGED D!vars
<1>1. InOnePlace'
  BY ReturnDelivers DEF Statuses
<1>2. /\ status'[t] = "ended" /\ \A u \in Tasks \ {t} : status'[u] = status[u]
  BY ReturnEffects DEF Statuses
<1>3. Panicked' <=> Panicked
  BY <1>2, NoPanic
<1>4. ASSUME NEW x \in Tables
      PROVE  Everything(PlaceOf(x, chan', held', outbox')) = Everything(PlaceOf(x, chan, held, outbox))
  <2>1. Range(<< >>) = {}
    BY DEF Range
  <2>2. InChan(x, chan, t) = {} /\ InHeld(x, held, t) = {} /\ InOut(x, outbox, t) = {}
    BY <2>1, OutEmpty DEF InChan, InHeld, InOut
  <2>3. Apart(PlaceOf(x, chan, held, outbox))
    BY DEF InOnePlace
  <2>4. Everything(PlaceOf(x, chan', held', outbox')) =
           Everything(PlaceOf(x, chan, held, outbox))
              \ (InChan(x, chan, t) \cup InHeld(x, held, t) \cup InOut(x, outbox, t))
    BY <2>3, ReturnPlaces DEF Statuses
  <2> QED  BY <2>2, <2>4
<1> QED  BY <1>1, <1>3, <1>4, StutterStep

LEMMA EofDelivers ==
  ASSUME NetType, EndsInTurn, KeepersKeep, InOnePlace, NEW t \in Forwarders \cup Fans, Eof(t)
  PROVE  InOnePlace' /\ UNCHANGED D!vars
<1> USE TaskFacts
<1>1. t \in Tasks /\ t \notin Writers /\ UNCHANGED <<unread, stored, failed>> /\ outbox[t] = << >>
      /\ status[t] # "panicked"
  BY DEF Eof, AtEof, tables
<1>2. CASE AtEof(t) /\ t \notin Stateful /\ Return(t, "ended")
  <2>1. held[t] = {} /\ chan[t] = << >>
    BY <1>1, <1>2 DEF KeepersKeep, AtEof
  <2> QED  BY <1>1, <1>2, <2>1, EmptyReturnDelivers
<1>3. CASE status[t] = "flushing" /\ Return(t, "ended")
  <2>1. held[t] = {} /\ chan[t] = << >>
    BY <1>1, <1>3 DEF EndsInTurn
  <2> QED  BY <1>1, <1>3, <2>1, EmptyReturnDelivers
<1>4. CASE /\ AtEof(t) /\ t \in Stateful /\ status' = [status EXCEPT ![t] = "flushing"]
           /\ outbox' = [outbox EXCEPT ![t] = Emits(t, SetToSeq(held[t]))]
           /\ held' = [held EXCEPT ![t] = {}] /\ UNCHANGED chan
  <2>1. /\ chan[t] = << >> /\ chan'[t] = << >> /\ outbox'[t] = Emits(t, SetToSeq(held[t])) /\ held'[t] = {}
        /\ \A u \in Tasks \ {t} : chan'[u] = chan[u] /\ held'[u] = held[u] /\ outbox'[u] = outbox[u]
        /\ status'[t] = "flushing" /\ \A u \in Tasks \ {t} : status'[u] = status[u]
        /\ held[t] \in SUBSET Items /\ IsFiniteSet(held[t])
    BY <1>1, <1>4 DEF AtEof, NetType, TypeOK
  <2>2. \A x \in Tables : /\ OutOf(x, outbox'[t]) = IF t \in Way[x] THEN held[t] ELSE {}
                          /\ NoTwice(x, outbox'[t])
    <3>1. PICK S \in SUBSET Items : S = held[t] /\ IsFiniteSet(S)
      BY <2>1
    <3>2. outbox'[t] = Emits(t, SetToSeq(S)) /\ t \in Stateful
      BY <1>4, <2>1, <3>1
    <3> QED  BY <3>1, <3>2, OutEmits
  <2>3. ASSUME NEW x \in Tables
        PROVE  /\ Apart(PlaceOf(x, chan', held', outbox'))
               /\ Everything(PlaceOf(x, chan', held', outbox')) = Everything(PlaceOf(x, chan, held, outbox))
    <3>1. Range(<< >>) = {}
      BY DEF Range
    <3>2. /\ InOut(x, outbox, t) = {} /\ InChan(x, chan', t) = {} /\ InChan(x, chan, t) = {}
          /\ InHeld(x, held', t) = {}
      BY <1>1, <2>1, <3>1, OutEmpty DEF InOut, InChan, InHeld
    <3>3. InOut(x, outbox', t) = InHeld(x, held, t)
      BY <1>4, <2>2 DEF InOut, InHeld
    <3>4. Apart(PlaceOf(x, chan, held, outbox))
      BY DEF InOnePlace
    <3>5. /\ Apart(PlaceOf(x, chan', held', outbox'))
          /\ Everything(PlaceOf(x, chan', held', outbox')) =
               (Everything(PlaceOf(x, chan, held, outbox)) \ (InChan(x, chan, t) \cup InHeld(x, held, t)))
                  \cup (InChan(x, chan', t) \cup InHeld(x, held', t) \cup InOut(x, outbox', t))
          /\ InChan(x, chan, t) \cup InHeld(x, held, t) \subseteq Everything(PlaceOf(x, chan, held, outbox))
      <4>1. /\ InChan(x, chan', t) \subseteq InChan(x, chan, t)
            /\ InChan(x, chan', t) \cap (InHeld(x, held', t) \cup InOut(x, outbox', t)) = {}
            /\ InHeld(x, held', t) \cap InOut(x, outbox', t) = {}
            /\ InHeld(x, held', t) \cup InOut(x, outbox', t) \subseteq InChan(x, chan, t) \cup InHeld(x, held, t)
        BY <3>2, <3>3
      <4> QED  BY <1>1, <2>1, <3>2, <3>4, <4>1, WorkPlaces
    <3> QED  BY <3>2, <3>3, <3>5
  <2>4. InOnePlace'
    <3>1. \A u \in Tasks : IsInjective(chan'[u])
      BY <1>4 DEF InOnePlace
    <3>2. \A u \in Fans, x \in Tables : NoTwice(x, outbox'[u])
      BY <2>1, <2>2 DEF InOnePlace
    <3>3. \A x \in Tables : Everything(PlaceOf(x, chan', held', outbox')) \cap unread' = {}
      BY <1>1, <2>3 DEF InOnePlace, OnWay
    <3> QED  BY <2>3, <3>1, <3>2, <3>3, PlacesFrom
  <2>5. Panicked' <=> Panicked
    BY <1>1, <2>1, NoPanic
  <2> QED  BY <1>1, <2>3, <2>4, <2>5, StutterStep
<1> QED  BY <1>2, <1>3, <1>4 DEF Eof

LEMMA FlushSettles ==
  ASSUME NetType, NEW x \in Tables, NEW batch \in SUBSET Items, Flush(x, batch)
  PROVE  /\ stored'[x] \cup failed'[x] = stored[x] \cup failed[x] \cup batch
         /\ \A y \in Tables \ {x} : stored'[y] \cup failed'[y] = stored[y] \cup failed[y]
<1>1. stored \in [Tables -> SUBSET Items] /\ failed \in [Tables -> SUBSET Items]
  BY DEF NetType, TypeOK
<1> QED  BY <1>1 DEF Flush, Store, Drop

\* A write buffer's step: some of what it has is settled.
LEMMA WriterPlaces ==
  ASSUME InOnePlace, NEW w \in Writers, NEW batch,
         \A u \in Tasks \ {w} : chan'[u] = chan[u] /\ held'[u] = held[u] /\ outbox'[u] = outbox[u],
         Range(chan'[w]) \subseteq Range(chan[w]),
         Range(chan'[w]) \cup held'[w] \cup batch = Range(chan[w]) \cup held[w],
         Range(chan'[w]) \cap held'[w] = {}, batch \cap (Range(chan'[w]) \cup held'[w]) = {}
  PROVE  /\ \A x \in Tables : Apart(PlaceOf(x, chan', held', outbox'))
         /\ \A x \in Tables \ {w[1]} : Everything(PlaceOf(x, chan', held', outbox'))
                                          = Everything(PlaceOf(x, chan, held, outbox))
         /\ Everything(PlaceOf(w[1], chan', held', outbox')) = Everything(PlaceOf(w[1], chan, held, outbox)) \ batch
         /\ batch \subseteq Everything(PlaceOf(w[1], chan, held, outbox))
<1>1. w \in Tasks /\ w \notin Fans /\ w[1] \in Tables /\ w = Writer(w[1])
  BY TaskNames, TaskFacts
<1>2. \A x \in Tables : w \in Way[x] <=> x = w[1]
  BY <1>1, WayFacts
<1>3. ASSUME NEW x \in Tables
      PROVE  /\ Apart(PlaceOf(x, chan', held', outbox'))
             /\ Everything(PlaceOf(x, chan', held', outbox')) =
                  (Everything(PlaceOf(x, chan, held, outbox)) \ (InChan(x, chan, w) \cup InHeld(x, held, w)))
                     \cup (InChan(x, chan', w) \cup InHeld(x, held', w))
             /\ InChan(x, chan, w) \cup InHeld(x, held, w) \subseteq Everything(PlaceOf(x, chan, held, outbox))
  <2>1. InOut(x, outbox, w) = {} /\ InOut(x, outbox', w) = {}
    BY <1>1 DEF InOut
  <2>2. /\ InChan(x, chan', w) \subseteq InChan(x, chan, w)
        /\ InChan(x, chan', w) \cap (InHeld(x, held', w) \cup InOut(x, outbox', w)) = {}
        /\ InHeld(x, held', w) \cap InOut(x, outbox', w) = {}
        /\ InHeld(x, held', w) \cup InOut(x, outbox', w) \subseteq InChan(x, chan, w) \cup InHeld(x, held, w)
    BY <2>1 DEF InChan, InHeld
  <2>3. Apart(PlaceOf(x, chan, held, outbox))
    BY DEF InOnePlace
  <2>4. /\ Apart(PlaceOf(x, chan', held', outbox'))
        /\ Everything(PlaceOf(x, chan', held', outbox')) =
              (Everything(PlaceOf(x, chan, held, outbox)) \ (InChan(x, chan, w) \cup InHeld(x, held, w)))
                 \cup (InChan(x, chan', w) \cup InHeld(x, held', w) \cup InOut(x, outbox', w))
        /\ InChan(x, chan, w) \cup InHeld(x, held, w) \subseteq Everything(PlaceOf(x, chan, held, outbox))
    BY <1>1, <2>1, <2>2, <2>3, WorkPlaces
  <2> QED  BY <2>1, <2>4
<1>4. ASSUME NEW x \in Tables \ {w[1]}
      PROVE  Everything(PlaceOf(x, chan', held', outbox')) = Everything(PlaceOf(x, chan, held, outbox))
  <2>1. InChan(x, chan, w) = {} /\ InHeld(x, held, w) = {} /\ InChan(x, chan', w) = {} /\ InHeld(x, held', w) = {}
    BY <1>2 DEF InChan, InHeld
  <2> QED  BY <1>3, <2>1
<1>5. /\ Everything(PlaceOf(w[1], chan', held', outbox')) = Everything(PlaceOf(w[1], chan, held, outbox)) \ batch
      /\ batch \subseteq Everything(PlaceOf(w[1], chan, held, outbox))
  <2>1. PICK C, H, C2, H2, E : /\ C = InChan(w[1], chan, w) /\ H = InHeld(w[1], held, w)
                               /\ C2 = InChan(w[1], chan', w) /\ H2 = InHeld(w[1], held', w)
                               /\ E = Everything(PlaceOf(w[1], chan, held, outbox))
    OBVIOUS
  <2>2. C = Range(chan[w]) /\ H = held[w] /\ C2 = Range(chan'[w]) /\ H2 = held'[w]
    BY <1>1, <1>2, <2>1 DEF InChan, InHeld
  <2>3. C2 \cup H2 \cup batch = C \cup H /\ batch \cap (C2 \cup H2) = {}
    BY <2>2
  <2>4. /\ Everything(PlaceOf(w[1], chan', held', outbox')) = (E \ (C \cup H)) \cup (C2 \cup H2)
        /\ C \cup H \subseteq E
    BY <1>1, <1>3, <2>1
  <2>5. (E \ (C \cup H)) \cup (C2 \cup H2) = E \ batch /\ batch \subseteq E
    BY <2>3, <2>4
  <2> QED  BY <2>1, <2>4, <2>5
<1> QED  BY <1>3, <1>4, <1>5

\* What a writer's step leaves in one place, whatever it settles.
LEMMA WriterInOnePlace ==
  ASSUME InOnePlace, NEW w \in Writers, UNCHANGED unread,
         \A u \in Tasks \ {w} : chan'[u] = chan[u] /\ outbox'[u] = outbox[u],
         IsInjective(chan'[w]),
         \A x \in Tables : /\ Apart(PlaceOf(x, chan', held', outbox'))
                           /\ Everything(PlaceOf(x, chan', held', outbox'))
                                 \subseteq Everything(PlaceOf(x, chan, held, outbox))
  PROVE  InOnePlace'
<1>1. w \in Tasks /\ w \notin Fans /\ Fans \subseteq Tasks
  BY TaskFacts
<1>2. \A u \in Tasks : IsInjective(chan'[u])
  BY DEF InOnePlace
<1>3. \A u \in Fans, x \in Tables : NoTwice(x, outbox'[u])
  BY <1>1 DEF InOnePlace
<1>4. \A x \in Tables : Everything(PlaceOf(x, chan', held', outbox')) \cap unread' = {}
  BY DEF InOnePlace, OnWay
<1> QED  BY <1>2, <1>3, <1>4, PlacesFrom

LEMMA WriterDelivers ==
  ASSUME NetType, RightKind, InOnePlace, NEW w \in Writers, WriterStep(w) \/ Hang(w)
  PROVE  InOnePlace' /\ [D!Next]_(D!vars)
<1>1. w \in Tasks /\ w[1] \in Tables /\ w = Writer(w[1]) /\ Kind(w) = Destined[w[1]]
  BY TaskNames, KindFacts
<1>2. /\ chan[w] \in Seq(Items) /\ held[w] \in SUBSET Items /\ IsInjective(chan[w])
      /\ Range(chan[w]) \cup held[w] \subseteq Destined[w[1]]
  BY <1>1 DEF NetType, TypeOK, InOnePlace, RightKind
<1>3. Range(chan[w]) \cap held[w] = {}
  <2>1. w \in Way[w[1]]
    BY <1>1, WayFacts
  <2>2. Apart(PlaceOf(w[1], chan, held, outbox))
    BY <1>1 DEF InOnePlace
  <2>3. PICK C, H, O : /\ C = InChan(w[1], chan, w) /\ H = InHeld(w[1], held, w)
                       /\ O = InOut(w[1], outbox, w)
    OBVIOUS
  <2>4. C \cap H = {}
    BY <1>1, <2>2, <2>3, OwnHandsAlone
  <2> QED  BY <2>1, <2>3, <2>4 DEF InChan, InHeld
<1>4. Panicked' <=> Panicked
  <2>1. status[w] = "running"
    BY DEF WriterStep, Buffer, FlushTick, FinishWriter, AtEof, Hang
  <2>2. CASE Return(w, "ended")
    <3>1. status'[w] = "ended" /\ \A u \in Tasks \ {w} : status'[u] = status[u]
      BY <1>1, <2>2, ReturnEffects DEF Statuses
    <3> QED  BY <1>1, <2>1, <3>1, NoPanic
  <2>3. CASE UNCHANGED status
    BY <2>3 DEF Panicked
  <2>4. CASE status' = [status EXCEPT ![w] = "hung"]
    <3>1. status'[w] = "hung" /\ \A u \in Tasks \ {w} : status'[u] = status[u]
      BY <1>1, <2>4 DEF NetType, TypeOK
    <3> QED  BY <1>1, <2>1, <3>1, NoPanic
  <2> QED  BY <2>2, <2>3, <2>4 DEF WriterStep, Buffer, FlushTick, FinishWriter, Hang
<1>5. UNCHANGED unread
  BY DEF WriterStep, Buffer, FlushTick, FinishWriter, Hang
<1>6. ASSUME NEW batch \in SUBSET Items,
             \A u \in Tasks \ {w} : chan'[u] = chan[u] /\ held'[u] = held[u] /\ outbox'[u] = outbox[u],
             Range(chan'[w]) \subseteq Range(chan[w]), IsInjective(chan'[w]),
             Range(chan'[w]) \cup held'[w] \cup batch = Range(chan[w]) \cup held[w],
             Range(chan'[w]) \cap held'[w] = {}, batch \cap (Range(chan'[w]) \cup held'[w]) = {},
             (batch = {} /\ UNCHANGED <<stored, failed>>) \/ Flush(w[1], batch)
      PROVE  InOnePlace' /\ [D!Next]_(D!vars)
  <2>1. /\ \A x \in Tables : Apart(PlaceOf(x, chan', held', outbox'))
        /\ \A x \in Tables \ {w[1]} : Everything(PlaceOf(x, chan', held', outbox'))
                                         = Everything(PlaceOf(x, chan, held, outbox))
        /\ Everything(PlaceOf(w[1], chan', held', outbox')) = Everything(PlaceOf(w[1], chan, held, outbox)) \ batch
        /\ batch \subseteq Everything(PlaceOf(w[1], chan, held, outbox))
    BY <1>6, WriterPlaces
  <2>2. \A x \in Tables : Everything(PlaceOf(x, chan', held', outbox'))
                             \subseteq Everything(PlaceOf(x, chan, held, outbox))
    BY <2>1
  <2>3. InOnePlace'
    BY <1>5, <1>6, <2>1, <2>2, WriterInOnePlace
  <2>4. CASE batch = {} /\ UNCHANGED <<stored, failed>>
    <3>1. \A x \in Tables : Everything(PlaceOf(x, chan', held', outbox'))
                               = Everything(PlaceOf(x, chan, held, outbox))
      BY <2>1, <2>4
    <3>2. UNCHANGED D!vars
      BY <1>4, <1>5, <2>4, <3>1, StutterStep
    <3> QED  BY <2>3, <3>2
  <2>5. CASE Flush(w[1], batch)
    <3>1. batch \subseteq Destined[w[1]]
      BY <1>2, <1>6
    <3>2. /\ stored'[w[1]] \cup failed'[w[1]] = stored[w[1]] \cup failed[w[1]] \cup batch
          /\ \A y \in Tables \ {w[1]} : stored'[y] \cup failed'[y] = stored[y] \cup failed[y]
      BY <1>1, <1>6, <2>5, FlushSettles
    <3>3. D!Next
      BY <1>1, <1>4, <1>5, <2>1, <3>1, <3>2, SettleStep
    <3> QED  BY <2>3, <3>3
  <2> QED  BY <1>6, <2>4, <2>5
<1>7. CASE Buffer(w)
  <2> DEFINE batch == held[w] \cup {Head(chan[w])}
  <2>1. /\ chan[w] # << >> /\ chan'[w] = Tail(chan[w])
        /\ \A u \in Tasks \ {w} : chan'[u] = chan[u] /\ held'[u] = held[u] /\ outbox'[u] = outbox[u]
    BY <1>1, <1>7 DEF Buffer, NetType, TypeOK
  <2>2. /\ IsInjective(chan'[w]) /\ Range(chan'[w]) = Range(chan[w]) \ {Head(chan[w])}
        /\ Head(chan[w]) \in Range(chan[w]) /\ Head(chan[w]) \in Items
    BY <1>2, <2>1, TailFacts
  <2>3. batch \in SUBSET Items /\ batch \cap Range(chan'[w]) = {} /\ Range(chan'[w]) \cup batch = Range(chan[w]) \cup held[w]
    BY <1>2, <1>3, <2>2
  <2> HIDE DEF batch
  <2>4. CASE held' = [held EXCEPT ![w] = batch] /\ UNCHANGED tables
    <3>1. held'[w] = batch /\ UNCHANGED <<stored, failed>>
      BY <1>1, <2>4 DEF NetType, TypeOK, tables
    <3>2. {} \in SUBSET Items /\ Range(chan'[w]) \cup held'[w] \cup {} = Range(chan[w]) \cup held[w]
          /\ Range(chan'[w]) \cap held'[w] = {} /\ {} \cap (Range(chan'[w]) \cup held'[w]) = {}
      BY <2>3, <3>1
    <3>3. PICK none : none = {}
      OBVIOUS
    <3>4. /\ none \in SUBSET Items /\ Range(chan'[w]) \cup held'[w] \cup none = Range(chan[w]) \cup held[w]
          /\ none \cap (Range(chan'[w]) \cup held'[w]) = {}
      BY <3>2, <3>3
    <3> QED  BY <1>6, <2>1, <2>2, <3>1, <3>2, <3>3, <3>4
  <2>5. CASE held' = [held EXCEPT ![w] = {}] /\ Flush(w[1], batch)
    <3>1. held'[w] = {}
      BY <1>1, <2>5 DEF NetType, TypeOK
    <3>2. /\ Range(chan'[w]) \cup held'[w] \cup batch = Range(chan[w]) \cup held[w]
          /\ Range(chan'[w]) \cap held'[w] = {} /\ batch \cap (Range(chan'[w]) \cup held'[w]) = {}
      BY <2>3, <3>1
    <3> QED  BY <1>6, <2>1, <2>2, <2>3, <2>5, <3>2
  <2> QED  BY <1>7, <2>4, <2>5 DEF Buffer, batch
<1>8. CASE FlushTick(w)
  <2>1. /\ held'[w] = {} /\ chan'[w] = chan[w] /\ Flush(w[1], held[w])
        /\ \A u \in Tasks \ {w} : chan'[u] = chan[u] /\ held'[u] = held[u] /\ outbox'[u] = outbox[u]
    BY <1>1, <1>8 DEF FlushTick, NetType, TypeOK
  <2>2. PICK batch \in SUBSET Items : batch = held[w]
    BY <1>2
  <2>3. /\ Range(chan'[w]) \cup held'[w] \cup batch = Range(chan[w]) \cup held[w]
        /\ Range(chan'[w]) \cap held'[w] = {} /\ batch \cap (Range(chan'[w]) \cup held'[w]) = {}
        /\ Range(chan'[w]) \subseteq Range(chan[w]) /\ IsInjective(chan'[w]) /\ Flush(w[1], batch)
    BY <1>2, <1>3, <2>1, <2>2
  <2> QED  BY <1>6, <2>1, <2>3
<1>9. CASE FinishWriter(w)
  <2>1. /\ held'[w] = {} /\ chan'[w] = << >> /\ chan[w] = << >>
        /\ \A u \in Tasks \ {w} : chan'[u] = chan[u] /\ held'[u] = held[u] /\ outbox'[u] = outbox[u]
        /\ (held[w] = {} /\ UNCHANGED <<stored, failed>>) \/ Flush(w[1], held[w])
    <3>1. Return(w, "ended") /\ chan[w] = << >>
      BY <1>9 DEF FinishWriter, AtEof
    <3>2. (held[w] = {} /\ UNCHANGED <<stored, failed>>) \/ Flush(w[1], held[w])
      BY <1>9 DEF FinishWriter, tables
    <3> QED  BY <1>1, <3>1, <3>2, ReturnEffects DEF Statuses
  <2>2. PICK batch \in SUBSET Items : batch = held[w]
    BY <1>2
  <2>3. /\ Range(chan'[w]) \cup held'[w] \cup batch = Range(chan[w]) \cup held[w]
        /\ Range(chan'[w]) \cap held'[w] = {} /\ batch \cap (Range(chan'[w]) \cup held'[w]) = {}
        /\ Range(chan'[w]) \subseteq Range(chan[w]) /\ IsInjective(chan'[w])
        /\ (batch = {} /\ UNCHANGED <<stored, failed>>) \/ Flush(w[1], batch)
    BY <1>2, <1>3, <2>1, <2>2
  <2> QED  BY <1>6, <2>1, <2>3
<1>10. CASE Hang(w)
  <2>1. UNCHANGED <<unread, chan, outbox, held, stored, failed>>
    BY <1>10 DEF Hang, tables
  <2>2. UNCHANGED D!vars
    BY <1>4, <2>1, StutterStep
  <2>3. InOnePlace'
    BY <2>1 DEF InOnePlace, OnWay
  <2> QED  BY <2>2, <2>3
<1> QED  BY <1>7, <1>8, <1>9, <1>10 DEF WriterStep

LEMMA DeliveryInitially == Init => DeliveryInv /\ D!Init
<1> SUFFICES ASSUME Init PROVE DeliveryInv /\ D!Init
  OBVIOUS
<1> USE TaskFacts
<1>1. OrderInv
  BY OrderInitially
<1>2. \A t \in Tasks : outbox[t] = << >> /\ held[t] = {} /\ chan[t] = << >> /\ status[t] = "running"
  BY DEF Init
<1>3. Range(<< >>) = {} /\ IsInjective(<< >>)
  BY DEF Range, IsInjective
<1>4. EndsInTurn /\ KeepersKeep /\ RightKind
  BY <1>2, <1>3 DEF EndsInTurn, KeepersKeep, RightKind
<1>5. ASSUME NEW x \in Tables
      PROVE  /\ Apart(PlaceOf(x, chan, held, outbox))
             /\ Everything(PlaceOf(x, chan, held, outbox)) = {}
  <2>1. PICK f : f = PlaceOf(x, chan, held, outbox)
    OBVIOUS
  <2>2. \A t \in Tasks : InChan(x, chan, t) = {} /\ InHeld(x, held, t) = {} /\ InOut(x, outbox, t) = {}
    BY <1>2, <1>3, OutEmpty DEF InChan, InHeld, InOut
  <2>3. DOMAIN f = Places /\ \A c \in Places : f[c] = {}
    BY <2>1, <2>2 DEF PlaceOf, Places
  <2> QED  BY <2>1, <2>3 DEF Apart, Everything
<1>6. InOnePlace
  BY <1>2, <1>3, <1>5, OutEmpty DEF InOnePlace, OnWay
<1>7. InFlight = [x \in Tables |-> {}]
  BY <1>5, FlightIs
<1>8. [x \in Tables |-> stored[x] \cup failed[x]] = [x \in Tables |-> {}] /\ unread = Items
  BY DEF Init
<1>9. Panicked = FALSE
  BY <1>2 DEF Panicked
<1>10. D!Init
  BY <1>7, <1>8, <1>9 DEF D!Init
<1> QED  BY <1>1, <1>4, <1>6, <1>10 DEF DeliveryInv

LEMMA DeliveryStep == DeliveryInv /\ [Next]_vars => DeliveryInv' /\ [D!Next]_(D!vars)
<1> SUFFICES ASSUME DeliveryInv, [Next]_vars PROVE DeliveryInv' /\ [D!Next]_(D!vars)
  OBVIOUS
<1> USE TaskFacts
<1>0. OrderInv /\ NetType /\ EndsInTurn /\ KeepersKeep /\ RightKind /\ InOnePlace
  BY DEF DeliveryInv, OrderInv
<1>1. OrderInv' /\ EndsInTurn' /\ KeepersKeep' /\ RightKind'
  BY <1>0, OrderStep, EndsStep, KeepStep
<1>2. InOnePlace' /\ [D!Next]_(D!vars)
  <2>1. ASSUME NEW p \in Pipelines, Read(p) \/ Finish(p) PROVE InOnePlace' /\ [D!Next]_(D!vars)
    BY <1>0, <2>1, ReadDelivers
  <2>2. ASSUME NEW t \in Forwarders, Forward(t) PROVE InOnePlace' /\ [D!Next]_(D!vars)
    BY <1>0, <2>2, ForwardDelivers
  <2>3. ASSUME NEW t \in Fans, Receive(t) PROVE InOnePlace' /\ [D!Next]_(D!vars)
    BY <1>0, <2>3, ReceiveDelivers
  <2>4. ASSUME NEW t \in Fans, Send(t) PROVE InOnePlace' /\ [D!Next]_(D!vars)
    BY <1>0, <2>4, SendDelivers
  <2>5. ASSUME NEW t \in Forwarders \cup Fans, Eof(t) PROVE InOnePlace' /\ [D!Next]_(D!vars)
    BY <1>0, <2>5, EofDelivers
  <2>6. ASSUME NEW w \in Writers, WriterStep(w) \/ Hang(w) PROVE InOnePlace' /\ [D!Next]_(D!vars)
    BY <1>0, <2>6, WriterDelivers
  <2>7. ASSUME NEW t \in Tasks, Panic(t) PROVE InOnePlace' /\ [D!Next]_(D!vars)
    <3>1. Return(t, "panicked") /\ UNCHANGED <<unread, stored, failed>>
      BY <2>7 DEF Panic, tables
    <3>2. /\ InOnePlace'
          /\ \A x \in Tables : Everything(PlaceOf(x, chan', held', outbox'))
                                   \subseteq Everything(PlaceOf(x, chan, held, outbox))
      BY <1>0, <3>1, ReturnDelivers DEF Statuses
    <3>3. status'[t] = "panicked"
      BY <1>0, <3>1, ReturnEffects DEF Statuses
    <3>4. Panicked'
      BY <3>3 DEF Panicked
    <3>5. D!Next
      BY <3>1, <3>2, <3>4, LoseStep
    <3> QED  BY <3>2, <3>5
  <2>8. CASE UNCHANGED vars
    <3>1. UNCHANGED <<unread, chan, outbox, held, stored, failed, status>>
      BY <2>8 DEF vars
    <3>2. Panicked' <=> Panicked
      BY <3>1 DEF Panicked
    <3>3. UNCHANGED D!vars
      BY <3>1, <3>2, StutterStep
    <3>4. InOnePlace'
      BY <1>0, <3>1 DEF InOnePlace, OnWay
    <3> QED  BY <3>3, <3>4
  <2> QED  BY <2>1, <2>2, <2>3, <2>4, <2>5, <2>6, <2>7, <2>8
           DEF Next, Progress, Step, FanoutStep, Fans
<1> QED  BY <1>1, <1>2 DEF DeliveryInv

\* The stage tasks, their channels, the sends in order, the flushes at EOF and the
\* write buffers implement Delivery: every exchange a source hands in reaches each of
\* its tables once, stored or counted as failed, or a stage panicked.  For any number
\* of pipelines and items, any capacity, any batch size and any faults.
THEOREM PipelineDelivers == Spec => Delivers
<1>1. Init => DeliveryInv /\ D!Init
  BY DeliveryInitially
<1>2. DeliveryInv /\ [Next]_vars => DeliveryInv' /\ [D!Next]_(D!vars)
  BY DeliveryStep
<1> QED  BY <1>1, <1>2, PTL DEF Spec, Delivers, D!Spec

-----------------------------------------------------------------------------
(* The process.                                                             *)

\* run_pipeline aborted the sources at the timeout: it will exit, and by force.
GaveUp == force /\ main \in {"drain", "parked", "exit", "forced"}

Detached == \E s \in Sources : source[s] = "detached"

ProcessInv == ProcessTypeOK /\ (Detached => GaveUp)

LEMMA ProcessStarts ==
  ASSUME ProcessInit PROVE ProcessTypeOK
<1>1. main = "start" /\ sweeper = "running" /\ supervisor = "waiting" /\ api = "off"
  BY DEF ProcessInit
<1>2. cancelled \in BOOLEAN /\ force \in BOOLEAN /\ drained \in BOOLEAN
  BY DEF ProcessInit
<1>3. crashes \in 0..MaxCrashes
  BY ShutdownAssumption DEF ProcessInit
<1>4. source \in [Sources -> {"idle", "running", "done", "detached"}]
  BY DEF ProcessInit
<1>5. stage \in [Stages -> {"running", "hung", "ended", "panicked"}]
  BY DEF ProcessInit
<1> QED  BY <1>1, <1>2, <1>3, <1>4, <1>5 DEF ProcessTypeOK

LEMMA ProcessTypes ==
  ASSUME ProcessTypeOK, [ProcessNext]_processVars PROVE ProcessTypeOK'
<1> USE ShutdownAssumption DEF ProcessTypeOK
<1>1. CASE Start
  BY <1>1 DEF Start, tasks
<1>2. CASE Select
  BY <1>2 DEF Select, tasks
<1>3. CASE JoinCaptures
  BY <1>3 DEF JoinCaptures
<1>4. CASE Drain
  BY <1>4 DEF Drain, tasks
<1>5. CASE Exit
  BY <1>5 DEF Exit, tasks
<1>6. CASE Signal
  BY <1>6 DEF Signal, tasks
<1>7. ASSUME NEW s \in Sources, CaptureEnds(s) PROVE ProcessTypeOK'
  BY <1>7 DEF CaptureEnds
<1>8. ASSUME NEW h \in Stages, StageEnds(h) PROVE ProcessTypeOK'
  BY <1>8 DEF StageEnds
<1>9. ASSUME NEW h \in Stages, StageFails(h) PROVE ProcessTypeOK'
  BY <1>9 DEF StageFails, TaskFault
<1>10. CASE SweeperPanics
  BY <1>10 DEF SweeperPanics, TaskFault
<1>11. CASE Supervise
  BY <1>11 DEF Supervise
<1>12. CASE ApiStops
  BY <1>12 DEF ApiStops
<1>13. CASE UNCHANGED processVars
  BY <1>13 DEF processVars
<1> QED  BY <1>1, <1>2, <1>3, <1>4, <1>5, <1>6, <1>7, <1>8, <1>9, <1>10, <1>11, <1>12, <1>13
         DEF ProcessNext, Main

\* Once it gave up, every way out of run_pipeline is the forced one.
LEMMA GaveUpStays ==
  ASSUME GaveUp, [ProcessNext]_processVars PROVE GaveUp'
<1>1. CASE Main \/ Signal
  BY <1>1 DEF GaveUp, Main, Start, Select, JoinCaptures, Drain, Exit, Signal
<1>2. CASE UNCHANGED <<main, force>>
  BY <1>2 DEF GaveUp
<1>3. Main \/ Signal \/ UNCHANGED <<main, force>>
  BY DEF ProcessNext, CaptureEnds, StageEnds, StageFails, SweeperPanics, Supervise, ApiStops,
         processVars
<1> QED  BY <1>1, <1>2, <1>3

\* A source becomes detached in JoinCaptures only.
LEMMA DetachedGaveUp ==
  ASSUME ProcessInv, [ProcessNext]_processVars PROVE (Detached => GaveUp)'
<1>1. CASE GaveUp
  BY <1>1, GaveUpStays
<1>2. CASE ~GaveUp
  <2>1. ~Detached
    BY <1>2 DEF ProcessInv
  <2>2. CASE JoinCaptures
    <3>1. CASE SourcesDone
      BY <2>1, <2>2, <3>1 DEF JoinCaptures, Detached
    <3>2. CASE ~SourcesDone
      BY <2>2, <3>2 DEF JoinCaptures, GaveUp
    <3> QED  BY <3>1, <3>2
  <2>3. CASE Start
    BY <2>1, <2>3 DEF Start, tasks, Detached
  <2>4. ASSUME NEW s \in Sources, CaptureEnds(s) PROVE ~Detached'
    <3>1. source \in [Sources -> {"idle", "running", "done", "detached"}]
      BY DEF ProcessInv, ProcessTypeOK
    <3> QED  BY <2>1, <2>4, <3>1 DEF CaptureEnds, Detached
  <2>5. CASE UNCHANGED source
    BY <2>1, <2>5 DEF Detached
  <2>6. JoinCaptures \/ Start \/ (\E s \in Sources : CaptureEnds(s)) \/ UNCHANGED source
    BY DEF ProcessNext, Main, Select, Drain, Exit, Signal, StageEnds, StageFails, SweeperPanics,
           Supervise, ApiStops, processVars, tasks
  <2> QED  BY <2>2, <2>3, <2>4, <2>5, <2>6
<1> QED  BY <1>1, <1>2

\* The life of the process is well typed, in every order of signals, ends of sources,
\* panics, hangs and timeouts.
THEOREM ProcessIsTyped == ProcessSpec => []ProcessTypeOK
<1>1. ProcessInit => ProcessTypeOK
  BY ProcessStarts
<1>2. ProcessTypeOK /\ [ProcessNext]_processVars => ProcessTypeOK'
  BY ProcessTypes
<1> QED  BY <1>1, <1>2, PTL DEF ProcessSpec

\* run_pipeline never returns with success once it aborted a source that was still
\* reading (CAPTURE_SHUTDOWN_TIMEOUT, force_exit): not even when the blocking thread
\* ends later, while the process is parked and a signal comes.
THEOREM GivenUpIsForced == ProcessSpec => GivenUpNeverClean
<1>1. ProcessInit => ProcessInv
  BY ProcessStarts DEF ProcessInit, ProcessInv, Detached
<1>2. ProcessInv /\ [ProcessNext]_processVars => ProcessInv'
  BY ProcessTypes, DetachedGaveUp DEF ProcessInv
<1>3. GaveUp /\ [ProcessNext]_processVars => GaveUp'
  BY GaveUpStays
<1>4. ProcessInv => (Detached => GaveUp)
  BY DEF ProcessInv
<1>5. GaveUp => main # "stopped"
  BY DEF GaveUp
<1>6. (\E s \in Sources : source[s] = "detached") <=> Detached
  BY DEF Detached
<1> QED  BY <1>1, <1>2, <1>3, <1>4, <1>5, <1>6, PTL DEF ProcessSpec, GivenUpNeverClean

=============================================================================
