---------------------------- MODULE MetricsProofs ----------------------------
(***************************************************************************)
(* Proofs about Metrics for any shards, calls, models, window sizes and    *)
(* bounds: the shared in-flight counts, the linger of a call that is never *)
(* answered, and the lag of a window.                                      *)
(***************************************************************************)
EXTENDS Metrics, TLAPS, FiniteSetTheorems

\* An event is not older than the request of its call, which was sent first.
SentInOrder ==
    \A k \in Shards : \A i \in 1..Len(queue[k]) :
        queue[k][i].kind # "Heartbeat" =>
            /\ started[queue[k][i].call] # None
            /\ started[queue[k][i].call] =< queue[k][i].ts

\* The cadence anchor of a granularity is not ahead of the shard's watermark, or
\* of the event the shard is about to advance to.
AnchorIsPast ==
    \A k \in Shards, g \in Grans : lastFlush[k][g] # None =>
        \/ lastFlush[k][g] =< latest[k]
        \/ due[k] # None /\ lastFlush[k][g] =< due[k]

\* Between two events every cadence is running.
CadenceRuns ==
    \A k \in Shards, g \in Grans : due[k] = None /\ lastFlush[k][g] # None =>
        latest[k] - lastFlush[k][g] < g

\* A bucket was opened after its granularity was last drained.
OpenedAfterDrain ==
    \A k \in Shards, x \in Keys : buckets[k][x] # Empty =>
        /\ lastFlush[k][x.gran] # None
        /\ lastFlush[k][x.gran] =< since[k][x]

\* The inductive invariant.
IInv ==
    /\ TypeOK /\ CountsMatchOpen /\ SentInOrder
    /\ AnchorIsPast /\ CadenceRuns /\ OpenedAfterDrain

-----------------------------------------------------------------------------
(* Windows, times and counts.                                               *)

LEMMA TimesType == /\ Times \subseteq Nat /\ 0 \in Times
                   /\ None \notin Times /\ \A g \in Grans : g \in Nat /\ g > 0
  BY MetricsAssumption DEF Times

\* A window starts no later than what is in it.
LEMMA WindowStartType ==
  ASSUME NEW t \in Times, NEW g \in Grans
  PROVE  WindowStart(t, g) \in Times /\ WindowStart(t, g) =< t
<1>1. t \in Nat /\ t =< MaxTime /\ g \in Nat /\ g > 0 /\ MaxTime \in Nat
  BY MetricsAssumption, TimesType DEF Times
<1>2. (t \div g) \in Nat /\ (t % g) \in Nat /\ t = g * (t \div g) + (t % g)
  BY <1>1
<1>3. (t \div g) * g \in Nat /\ (t \div g) * g = g * (t \div g)
  BY <1>1, <1>2
<1>4. (t \div g) * g =< t
  BY <1>1, <1>2, <1>3
<1> QED  BY <1>1, <1>3, <1>4 DEF WindowStart, Times

LEMMA LaterType ==
  ASSUME NEW a \in Times, NEW b \in Times
  PROVE  Later(a, b) \in Times /\ a =< Later(a, b) /\ b =< Later(a, b)
  BY TimesType DEF Later

LEMMA EmptyIsCount == Empty \in Count /\ OneStart \in Count /\ OneComplete \in Count
  BY DEF Empty, Count, OneStart, OneComplete

LEMMA AddedIsCount == ASSUME NEW a \in Count, NEW b \in Count PROVE Added(a, b) \in Count
  BY DEF Added, Count

LEMMA KeyHasGran == ASSUME NEW x \in Keys PROVE x.gran \in Grans
  BY DEF Keys

LEMMA EmptyQueue == << >> \in Seq(Event)
  OBVIOUS

-----------------------------------------------------------------------------
(* The in-flight table.                                                     *)

OpenIn(d) == {c \in Calls : open[c] # None /\ d \in open[c].dims}

LEMMA OpenInFinite ==
  ASSUME NEW d \in Dims
  PROVE  IsFiniteSet(OpenIn(d)) /\ Cardinality(OpenIn(d)) \in Nat
<1>1. OpenIn(d) \in SUBSET Calls
  BY DEF OpenIn
<1>2. IsFiniteSet(OpenIn(d))
  <2> HIDE DEF OpenIn
  <2> QED  BY <1>1, MetricsAssumption, FS_Subset
<1> QED  BY <1>2, FS_CardinalityType

\* What the in-flight table must keep.
TableOK ==
    /\ open \in [Calls -> OpenCall \cup {None}]
    /\ counts \in [Dims -> Nat]
    /\ CountsMatchOpen

\* start counts a call once, also when it is open already.
LEMMA OpenedKeeps ==
  ASSUME TableOK, NEW c \in Calls, NEW t \in Times, Opened(c, t)
  PROVE  TableOK'
<1> DEFINE dims == DimensionKeys(Requested[c])
           e == [dims |-> dims, start |-> t]
<1>1. CASE open[c] # None
  BY <1>1 DEF Opened, TableOK, CountsMatchOpen
<1>2. CASE open[c] = None
  <2>1. /\ open' = [open EXCEPT ![c] = e]
        /\ counts' = [d \in Dims |-> IF d \in dims THEN counts[d] + 1 ELSE counts[d]]
    BY <1>2 DEF Opened
  <2>2. e \in OpenCall /\ e # None /\ e.dims = dims
    BY MetricsAssumption, NoneAssumption DEF OpenCall, DimensionKeys, Dims
  <2> HIDE DEF e, dims
  <2>3. open' \in [Calls -> OpenCall \cup {None}] /\ counts' \in [Dims -> Nat]
    BY <2>1, <2>2 DEF TableOK
  <2>4. open'[c] = e /\ \A b \in Calls : b # c => open'[b] = open[b]
    BY <2>1 DEF TableOK
  <2>5. ASSUME NEW d \in Dims
        PROVE  counts'[d] = Cardinality({b \in Calls : open'[b] # None /\ d \in open'[b].dims})
    <3> DEFINE now == {b \in Calls : open'[b] # None /\ d \in open'[b].dims}
    <3>1. counts[d] = Cardinality(OpenIn(d)) /\ c \notin OpenIn(d)
      BY <1>2 DEF TableOK, CountsMatchOpen, OpenIn
    <3>2. CASE d \in dims
      <4>1. now = OpenIn(d) \cup {c}
        BY <2>2, <2>4, <3>2 DEF OpenIn
      <4>2. Cardinality(OpenIn(d) \cup {c}) = Cardinality(OpenIn(d)) + 1
        BY <3>1, OpenInFinite, FS_AddElement
      <4>3. counts'[d] = counts[d] + 1
        BY <2>1, <3>2
      <4> QED  BY <3>1, <4>1, <4>2, <4>3
    <3>3. CASE d \notin dims
      <4>1. now = OpenIn(d)
        BY <1>2, <2>2, <2>4, <3>3 DEF OpenIn
      <4>2. counts'[d] = counts[d]
        BY <2>1, <3>3
      <4> QED  BY <3>1, <4>1, <4>2
    <3> QED  BY <3>2, <3>3
  <2> QED  BY <2>3, <2>5 DEF TableOK, CountsMatchOpen
<1> QED  BY <1>1, <1>2

\* complete and expire give back exactly what the closed calls had taken.
LEMMA ClosedKeeps ==
  ASSUME TableOK, NEW cs \in SUBSET Calls, Closed(cs)
  PROVE  TableOK' /\ \A c \in Calls : open'[c] # None => open'[c] = open[c] /\ c \notin cs
<1> DEFINE gone == {c \in cs : open[c] # None}
           Taken(d) == {c \in gone : d \in open[c].dims}
<1>1. /\ open' = [c \in Calls |-> IF c \in gone THEN None ELSE open[c]]
      /\ counts' = [d \in Dims |-> counts[d] - Cardinality(Taken(d))]
  BY DEF Closed, Decremented
<1>2. open' \in [Calls -> OpenCall \cup {None}]
  BY <1>1 DEF TableOK
<1>3. \A c \in Calls : open'[c] # None => open'[c] = open[c] /\ c \notin cs
  BY <1>1 DEF TableOK
<1>4. ASSUME NEW d \in Dims
      PROVE  /\ counts'[d] = Cardinality({b \in Calls : open'[b] # None /\ d \in open'[b].dims})
             /\ counts'[d] \in Nat
  <2> DEFINE now == {b \in Calls : open'[b] # None /\ d \in open'[b].dims}
  <2>1. counts[d] = Cardinality(OpenIn(d))
    BY DEF TableOK, CountsMatchOpen, OpenIn
  <2>2. now = OpenIn(d) \ Taken(d) /\ OpenIn(d) \cap Taken(d) = Taken(d)
    BY <1>1 DEF OpenIn
  <2>3. counts'[d] = counts[d] - Cardinality(Taken(d))
    BY <1>1
  <2> HIDE DEF now, Taken
  <2>4. IsFiniteSet(now) /\ Cardinality(now) = Cardinality(OpenIn(d)) - Cardinality(Taken(d))
    BY <2>2, OpenInFinite, FS_Difference
  <2>5. Cardinality(now) \in Nat
    BY <2>4, FS_CardinalityType
  <2>6. counts'[d] = Cardinality(now)
    BY <2>1, <2>3, <2>4
  <2> QED  BY <2>5, <2>6 DEF now
<1>5. counts' \in [Dims -> Nat]
  <2>1. \A d \in Dims : counts'[d] \in Nat
    BY <1>4
  <2> HIDE DEF Taken
  <2> QED  BY <1>1, <2>1
<1> QED  BY <1>2, <1>3, <1>4, <1>5 DEF TableOK, CountsMatchOpen

-----------------------------------------------------------------------------
(* Emission.                                                                *)

\* Emit empties the buckets of gs and leaves every other one.
LEMMA EmitKeeps ==
  ASSUME TypeOK, NEW k \in Shards, NEW gs \in SUBSET Grans, Emit(k, gs)
  PROVE  /\ buckets' \in [Shards -> [Keys -> Count]] /\ rows' \in [Shards -> [Keys -> Count]]
         /\ \A j \in Shards, x \in Keys : j # k => buckets'[j][x] = buckets[j][x]
         /\ \A x \in Keys : buckets'[k][x] = IF x.gran \in gs THEN Empty ELSE buckets[k][x]
<1>1. buckets \in [Shards -> [Keys -> Count]] /\ rows \in [Shards -> [Keys -> Count]]
  BY DEF TypeOK
<1>2. \A x \in Keys : Added(rows[k][x], buckets[k][x]) \in Count /\ Empty \in Count
  BY <1>1, AddedIsCount, EmptyIsCount
<1> DEFINE b == [x \in Keys |-> IF x.gran \in gs THEN Empty ELSE buckets[k][x]]
           r == [x \in Keys |-> IF x.gran \in gs THEN Added(rows[k][x], buckets[k][x])
                                ELSE rows[k][x]]
<1>3. buckets' = [buckets EXCEPT ![k] = b] /\ rows' = [rows EXCEPT ![k] = r]
  BY DEF Emit
<1>4. b \in [Keys -> Count] /\ r \in [Keys -> Count]
  <2> HIDE DEF Keys, Count, Empty, Added
  <2> QED  BY <1>1, <1>2
<1>5. \A x \in Keys : b[x] = IF x.gran \in gs THEN Empty ELSE buckets[k][x]
  OBVIOUS
<1> HIDE DEF b, r
<1> QED  BY <1>1, <1>3, <1>4, <1>5

-----------------------------------------------------------------------------
(* The senders.                                                             *)

\* A send appends to one channel; the shards' state is not touched.
LEMMA SendKeeps ==
  ASSUME IInv, NEW q, q \in [Shards -> Seq(Event)], queue' = q, UNCHANGED Unsent,
         clock' \in Times, beaten' \in Times, eof' \in BOOLEAN,
         started' \in [Calls -> Times \cup {None}], completed' \subseteq Calls,
         SentInOrder'
  PROVE  IInv'
<1>1. UNCHANGED <<buckets, latest, lastFlush, due, open, counts, stopped, rows, handled, since>>
  BY DEF Unsent
<1>2. TypeOK'
  BY <1>1 DEF IInv, TypeOK
<1> QED  BY <1>1, <1>2
         DEF IInv, CountsMatchOpen, AnchorIsPast, CadenceRuns, OpenedAfterDrain

\* An appended event is in order if it is itself, and no request time is lost.
LEMMA AppendInOrder ==
  ASSUME IInv, NEW k \in Shards, NEW e \in Event, queue' = [queue EXCEPT ![k] = Append(@, e)],
         started' \in [Calls -> Times \cup {None}],
         \A c \in Calls : started[c] # None => started'[c] = started[c],
         e.kind # "Heartbeat" => started'[e.call] # None /\ started'[e.call] =< e.ts
  PROVE  SentInOrder' /\ queue' \in [Shards -> Seq(Event)]
<1>1. queue \in [Shards -> Seq(Event)] /\ queue[k] \in Seq(Event)
  BY DEF IInv, TypeOK
<1>2. queue' \in [Shards -> Seq(Event)]
  BY <1>1
<1>3. ASSUME NEW j \in Shards, NEW i \in 1..Len(queue'[j]), queue'[j][i].kind # "Heartbeat"
      PROVE  /\ started'[queue'[j][i].call] # None
             /\ started'[queue'[j][i].call] =< queue'[j][i].ts
  <2>1. CASE j \in Shards /\ i \in 1..Len(queue[j]) /\ queue'[j][i] = queue[j][i]
    <3>1. queue[j][i] \in Event
      BY <1>1, <2>1
    <3>2. queue[j][i].call \in Calls
      BY <1>3, <2>1, <3>1 DEF Event
    <3>3. /\ started[queue[j][i].call] # None /\ started[queue[j][i].call] =< queue[j][i].ts
      BY <1>3, <2>1 DEF IInv, SentInOrder
    <3> QED  BY <2>1, <3>2, <3>3
  <2>2. CASE j = k /\ queue'[j][i] = e
    BY <1>3, <2>2
  <2>3. \/ i \in 1..Len(queue[j]) /\ queue'[j][i] = queue[j][i]
        \/ j = k /\ queue'[j][i] = e
    BY <1>1, <1>3
  <2> QED  BY <2>1, <2>2, <2>3
<1> QED  BY <1>2, <1>3 DEF SentInOrder

LEMMA SendStartKeeps == ASSUME IInv, NEW c \in Calls, SendStart(c) PROVE IInv'
<1> DEFINE e == [kind |-> "Start", call |-> c, ts |-> clock]
           k == ShardOf[Requested[c]]
<1>1. /\ k \in Shards /\ clock \in Times /\ started \in [Calls -> Times \cup {None}]
      /\ beaten \in Times /\ eof \in BOOLEAN /\ completed \subseteq Calls
  BY MetricsAssumption DEF IInv, TypeOK
<1>2. e \in Event /\ e.kind = "Start" /\ e.call = c /\ e.ts = clock
  BY <1>1 DEF Event
<1>3. /\ queue' = [queue EXCEPT ![k] = Append(@, e)] /\ started[c] = None
      /\ started' = [started EXCEPT ![c] = clock]
      /\ UNCHANGED <<clock, completed, beaten, eof>> /\ UNCHANGED Unsent
  BY DEF SendStart, Offer
<1> HIDE DEF e, k
<1>4. /\ started' \in [Calls -> Times \cup {None}] /\ started'[c] = clock
      /\ \A b \in Calls : started[b] # None => started'[b] = started[b]
  BY <1>1, <1>3
<1>5. started'[e.call] # None /\ started'[e.call] =< e.ts
  BY <1>1, <1>2, <1>4, TimesType
<1>6. SentInOrder' /\ queue' \in [Shards -> Seq(Event)]
  BY <1>1, <1>2, <1>3, <1>4, <1>5, AppendInOrder
<1> QED  BY <1>1, <1>3, <1>4, <1>6, SendKeeps

LEMMA SendCompleteKeeps ==
  ASSUME IInv, NEW c \in Calls, NEW t \in Times, SendComplete(c, t)
  PROVE  IInv'
<1> DEFINE e == [kind |-> "Complete", call |-> c, ts |-> t]
           k == ShardOf[Answered[c]]
<1>1. /\ k \in Shards /\ clock \in Times /\ started \in [Calls -> Times \cup {None}]
      /\ beaten \in Times /\ eof \in BOOLEAN /\ completed \subseteq Calls
  BY MetricsAssumption DEF IInv, TypeOK
<1>2. e \in Event /\ e.kind = "Complete" /\ e.call = c /\ e.ts = t
  BY <1>1 DEF Event
<1>3. /\ queue' = [queue EXCEPT ![k] = Append(@, e)] /\ started[c] # None
      /\ t \in started[c]..clock /\ completed' = completed \cup {c}
      /\ UNCHANGED <<clock, started, beaten, eof>> /\ UNCHANGED Unsent
  BY DEF SendComplete, Offer
<1> HIDE DEF e, k
<1>4. started'[e.call] # None /\ started'[e.call] =< e.ts
  BY <1>1, <1>2, <1>3, TimesType
<1>5. SentInOrder' /\ queue' \in [Shards -> Seq(Event)]
  BY <1>1, <1>2, <1>3, <1>4, AppendInOrder
<1> QED  BY <1>1, <1>3, <1>5, SendKeeps

LEMMA SendHeartbeatKeeps == ASSUME IInv, SendHeartbeat PROVE IInv'
<1> DEFINE h == [kind |-> "Heartbeat", ts |-> clock]
<1>1. /\ clock \in Times /\ started \in [Calls -> Times \cup {None}]
      /\ eof \in BOOLEAN /\ completed \subseteq Calls /\ queue \in [Shards -> Seq(Event)]
  BY DEF IInv, TypeOK
<1>2. h \in Event /\ h.kind = "Heartbeat"
  BY <1>1 DEF Event
<1>3. /\ beaten' = clock
      /\ queue' = [k \in Shards |-> IF Len(queue[k]) < Cap THEN Append(queue[k], h) ELSE queue[k]]
      /\ UNCHANGED <<clock, started, completed, eof>> /\ UNCHANGED Unsent
  BY DEF SendHeartbeat
<1> HIDE DEF h
<1>4. queue' \in [Shards -> Seq(Event)]
  BY <1>1, <1>2, <1>3
<1>5. SentInOrder'
  <2> SUFFICES ASSUME NEW j \in Shards, NEW i \in 1..Len(queue'[j]),
                      queue'[j][i].kind # "Heartbeat"
               PROVE  /\ started[queue'[j][i].call] # None
                      /\ started[queue'[j][i].call] =< queue'[j][i].ts
    BY <1>3 DEF SentInOrder
  <2>1. \/ i \in 1..Len(queue[j]) /\ queue'[j][i] = queue[j][i]
        \/ queue'[j][i] = h
    BY <1>1, <1>2, <1>3
  <2> QED  BY <1>2, <2>1 DEF IInv, SentInOrder
<1> QED  BY <1>1, <1>3, <1>4, <1>5, SendKeeps

LEMMA UpstreamKeeps == ASSUME IInv, Tick \/ CloseUpstream PROVE IInv'
<1>1. /\ clock' \in Times /\ eof' \in BOOLEAN
      /\ UNCHANGED <<started, completed, beaten, queue>> /\ UNCHANGED Unsent
  <2>1. clock \in Times /\ eof \in BOOLEAN
    BY DEF IInv, TypeOK
  <2>2. CASE Tick
    <3>1. clock' \in Times
      BY <2>1, <2>2, MetricsAssumption DEF Tick, Times
    <3> QED  BY <2>1, <2>2, <3>1 DEF Tick
  <2>3. CASE CloseUpstream
    BY <2>1, <2>3 DEF CloseUpstream
  <2> QED  BY <2>2, <2>3
<1>2. SentInOrder'
  BY <1>1 DEF IInv, SentInOrder
<1>3. /\ beaten' \in Times /\ started' \in [Calls -> Times \cup {None}]
      /\ completed' \subseteq Calls /\ queue' \in [Shards -> Seq(Event)]
  BY <1>1 DEF IInv, TypeOK
<1> QED  BY <1>1, <1>2, <1>3, SendKeeps

-----------------------------------------------------------------------------
(* A shard.                                                                 *)

\* What a shard takes from its channel.
LEMMA HeadOfQueue ==
  ASSUME IInv, NEW k \in Shards, queue[k] # << >>, queue' = [queue EXCEPT ![k] = Tail(@)],
         UNCHANGED started
  PROVE  /\ Head(queue[k]) \in Event /\ Head(queue[k]).ts \in Times
         /\ Head(queue[k]).kind # "Heartbeat" =>
               /\ Head(queue[k]).call \in Calls /\ started[Head(queue[k]).call] \in Times
               /\ started[Head(queue[k]).call] =< Head(queue[k]).ts
         /\ queue' \in [Shards -> Seq(Event)] /\ SentInOrder'
<1>1. queue \in [Shards -> Seq(Event)] /\ started \in [Calls -> Times \cup {None}]
  BY DEF IInv, TypeOK
<1>2. Head(queue[k]) \in Event /\ Head(queue[k]) = queue[k][1] /\ 1 \in 1..Len(queue[k])
  BY <1>1
<1>3. Head(queue[k]).ts \in Times /\
      (Head(queue[k]).kind # "Heartbeat" => Head(queue[k]).call \in Calls)
  BY <1>2 DEF Event
<1>4. Head(queue[k]).kind # "Heartbeat" =>
         /\ started[Head(queue[k]).call] \in Times
         /\ started[Head(queue[k]).call] =< Head(queue[k]).ts
  BY <1>1, <1>2, <1>3 DEF IInv, SentInOrder
<1>5. queue' \in [Shards -> Seq(Event)]
  BY <1>1
<1>6. SentInOrder'
  <2> SUFFICES ASSUME NEW j \in Shards, NEW i \in 1..Len(queue'[j]),
                      queue'[j][i].kind # "Heartbeat"
               PROVE  /\ started[queue'[j][i].call] # None
                      /\ started[queue'[j][i].call] =< queue'[j][i].ts
    BY DEF SentInOrder
  <2>1. \E n \in 1..Len(queue[j]) : queue'[j][i] = queue[j][n]
    <3>1. CASE j = k
      <4>1. queue'[j] = Tail(queue[j]) /\ queue[j] \in Seq(Event) /\ queue[j] # << >>
        BY <1>1, <3>1
      <4>2. \A q \in Seq(Event) : q # << >> =>
               \A n \in 1..Len(Tail(q)) : n + 1 \in 1..Len(q) /\ Tail(q)[n] = q[n + 1]
        OBVIOUS
      <4>3. i + 1 \in 1..Len(queue[j]) /\ queue'[j][i] = queue[j][i + 1]
        BY <4>1, <4>2
      <4> QED  BY <4>3
    <3>2. CASE j # k
      BY <1>1, <3>2
    <3> QED  BY <3>1, <3>2
  <2> QED  BY <2>1 DEF IInv, SentInOrder
<1> QED  BY <1>2, <1>3, <1>4, <1>5, <1>6

\* on_call_start and on_call_complete on the buckets.
LEMMA WrittenKeeps ==
  ASSUME TypeOK, NEW k \in Shards, NEW keys, NEW one \in Count, NEW now \in Times,
         Written(k, keys, one, now)
  PROVE  /\ buckets' \in [Shards -> [Keys -> Count]] /\ since' \in [Shards -> [Keys -> Times]]
         /\ \A j \in Shards, x \in Keys : buckets[j][x] # Empty => since'[j][x] = since[j][x]
         /\ \A j \in Shards, x \in Keys : j # k => buckets'[j][x] = buckets[j][x]
         /\ \A x \in Keys : buckets[k][x] = Empty /\ buckets'[k][x] # Empty
                               => since'[k][x] = Later(latest[k], now)
<1>1. /\ buckets \in [Shards -> [Keys -> Count]] /\ since \in [Shards -> [Keys -> Times]]
      /\ latest[k] \in Times
  BY DEF TypeOK
<1>2. \A x \in Keys : Added(buckets[k][x], one) \in Count
  BY <1>1, AddedIsCount
<1>3. Later(latest[k], now) \in Times
  BY <1>1, LaterType
<1> DEFINE b == [x \in Keys |-> IF x \in keys THEN Added(buckets[k][x], one) ELSE buckets[k][x]]
           v == [x \in Keys |-> IF x \in keys /\ buckets[k][x] = Empty
                                THEN Later(latest[k], now) ELSE since[k][x]]
<1>4. buckets' = [buckets EXCEPT ![k] = b] /\ since' = [since EXCEPT ![k] = v]
  BY DEF Written
<1>5. b \in [Keys -> Count] /\ v \in [Keys -> Times]
  BY <1>1, <1>2, <1>3
<1>6. \A x \in Keys : /\ buckets[k][x] # Empty => v[x] = since[k][x]
                      /\ buckets[k][x] = Empty /\ b[x] # Empty => v[x] = Later(latest[k], now)
  OBVIOUS
<1> HIDE DEF b, v
<1>7. /\ buckets'[k] = b /\ since'[k] = v
      /\ \A j \in Shards : j # k => buckets'[j] = buckets[j] /\ since'[j] = since[j]
  BY <1>1, <1>4
<1>8. buckets' \in [Shards -> [Keys -> Count]] /\ since' \in [Shards -> [Keys -> Times]]
  BY <1>1, <1>4, <1>5
<1>9. ASSUME NEW j \in Shards, NEW x \in Keys, buckets[j][x] # Empty
      PROVE  since'[j][x] = since[j][x]
  BY <1>6, <1>7, <1>9
<1>10. ASSUME NEW x \in Keys, buckets[k][x] = Empty, buckets'[k][x] # Empty
       PROVE  since'[k][x] = Later(latest[k], now)
  BY <1>6, <1>7, <1>10
<1> QED  BY <1>7, <1>8, <1>9, <1>10

\* The first write of a granularity sets its cadence, no other one does.
LEMMA AnchoredKeeps ==
  ASSUME TypeOK, NEW k \in Shards, NEW c \in Calls, started[c] \in Times,
         lastFlush' = Anchored(k, c)
  PROVE  /\ lastFlush' \in [Shards -> [Grans -> Times \cup {None}]]
         /\ \A j \in Shards, g \in Grans :
               j # k \/ lastFlush[j][g] # None => lastFlush'[j][g] = lastFlush[j][g]
         /\ \A g \in Grans : lastFlush[k][g] = None =>
               lastFlush'[k][g] \in Times /\ lastFlush'[k][g] =< started[c]
<1>1. lastFlush \in [Shards -> [Grans -> Times \cup {None}]]
  BY DEF TypeOK
<1>2. \A g \in Grans : /\ WindowStart(started[c], g) \in Times
                       /\ WindowStart(started[c], g) =< started[c]
  BY WindowStartType
<1> DEFINE a == [g \in Grans |-> IF lastFlush[k][g] = None THEN WindowStart(started[c], g)
                                 ELSE lastFlush[k][g]]
<1>3. lastFlush' = [lastFlush EXCEPT ![k] = a]
  BY DEF Anchored
<1>4. /\ a \in [Grans -> Times \cup {None}]
      /\ \A g \in Grans : /\ lastFlush[k][g] # None => a[g] = lastFlush[k][g]
                          /\ lastFlush[k][g] = None => a[g] \in Times /\ a[g] =< started[c]
  BY <1>1, <1>2
<1> HIDE DEF a
<1>5. lastFlush'[k] = a /\ \A j \in Shards : j # k => lastFlush'[j] = lastFlush[j]
  BY <1>1, <1>3
<1>6. lastFlush' \in [Shards -> [Grans -> Times \cup {None}]]
  BY <1>1, <1>3, <1>4
<1>7. ASSUME NEW j \in Shards, NEW g \in Grans, j # k \/ lastFlush[j][g] # None
      PROVE  lastFlush'[j][g] = lastFlush[j][g]
  BY <1>4, <1>5, <1>7
<1>8. ASSUME NEW g \in Grans, lastFlush[k][g] = None
      PROVE  lastFlush'[k][g] \in Times /\ lastFlush'[k][g] =< started[c]
  BY <1>4, <1>5, <1>8
<1> QED  BY <1>6, <1>7, <1>8

\* A write keeps the cadence facts.
LEMMA WriteStep ==
  ASSUME IInv, NEW k \in Shards, NEW c \in Calls, NEW ts \in Times, NEW keys, NEW one \in Count,
         started[c] \in Times, started[c] =< ts, due[k] = None,
         Written(k, keys, one, ts), lastFlush' = Anchored(k, c),
         due' = [due EXCEPT ![k] = ts], UNCHANGED latest
  PROVE  /\ buckets' \in [Shards -> [Keys -> Count]] /\ since' \in [Shards -> [Keys -> Times]]
         /\ lastFlush' \in [Shards -> [Grans -> Times \cup {None}]]
         /\ AnchorIsPast' /\ CadenceRuns' /\ OpenedAfterDrain'
<1>1. /\ TypeOK /\ due \in [Shards -> Times \cup {None}] /\ latest \in [Shards -> Times]
      /\ lastFlush \in [Shards -> [Grans -> Times \cup {None}]]
  BY DEF IInv, TypeOK
<1>2. /\ lastFlush' \in [Shards -> [Grans -> Times \cup {None}]]
      /\ \A j \in Shards, g \in Grans :
            j # k \/ lastFlush[j][g] # None => lastFlush'[j][g] = lastFlush[j][g]
      /\ \A g \in Grans : lastFlush[k][g] = None =>
            lastFlush'[k][g] \in Times /\ lastFlush'[k][g] =< started[c]
  BY <1>1, AnchoredKeeps
<1>3. /\ buckets' \in [Shards -> [Keys -> Count]] /\ since' \in [Shards -> [Keys -> Times]]
      /\ \A j \in Shards, x \in Keys : buckets[j][x] # Empty => since'[j][x] = since[j][x]
      /\ \A j \in Shards, x \in Keys : j # k => buckets'[j][x] = buckets[j][x]
      /\ \A x \in Keys : buckets[k][x] = Empty /\ buckets'[k][x] # Empty
                            => since'[k][x] = Later(latest[k], ts)
  BY <1>1, WrittenKeeps
<1>4. due'[k] = ts /\ ts # None /\ \A j \in Shards : j # k => due'[j] = due[j]
  BY <1>1, TimesType
<1>5. \A g \in Grans : lastFlush[k][g] # None => lastFlush[k][g] =< latest[k]
  BY DEF IInv, AnchorIsPast
<1>6. AnchorIsPast'
  <2> SUFFICES ASSUME NEW j \in Shards, NEW g \in Grans, lastFlush'[j][g] # None
               PROVE  \/ lastFlush'[j][g] =< latest[j]
                      \/ due'[j] # None /\ lastFlush'[j][g] =< due'[j]
    BY DEF AnchorIsPast
  <2>1. CASE j # k
    BY <1>2, <1>4, <2>1 DEF IInv, AnchorIsPast
  <2>2. CASE j = k /\ lastFlush[k][g] # None
    BY <1>2, <1>5, <2>2
  <2>3. CASE j = k /\ lastFlush[k][g] = None
    <3>1. lastFlush'[k][g] \in Nat /\ started[c] \in Nat /\ ts \in Nat
      BY <1>2, <2>3, TimesType
    <3> QED  BY <1>2, <1>4, <2>3, <3>1
  <2> QED  BY <2>1, <2>2, <2>3
<1>7. CadenceRuns'
  BY <1>2, <1>4 DEF IInv, CadenceRuns
<1>8. OpenedAfterDrain'
  <2> SUFFICES ASSUME NEW j \in Shards, NEW x \in Keys, buckets'[j][x] # Empty
               PROVE  lastFlush'[j][x.gran] # None /\ lastFlush'[j][x.gran] =< since'[j][x]
    BY DEF OpenedAfterDrain
  <2>1. x.gran \in Grans
    BY KeyHasGran
  <2>2. CASE buckets[j][x] # Empty
    BY <1>2, <1>3, <2>1, <2>2 DEF IInv, OpenedAfterDrain
  <2>3. CASE buckets[j][x] = Empty
    <3>1. j = k /\ since'[j][x] = Later(latest[k], ts)
      BY <1>3, <2>3
    <3>2. /\ latest[k] \in Nat /\ ts \in Nat /\ started[c] \in Nat /\ Later(latest[k], ts) \in Nat
          /\ latest[k] =< Later(latest[k], ts) /\ ts =< Later(latest[k], ts)
      BY <1>1, LaterType, TimesType
    <3>3. CASE lastFlush[k][x.gran] # None
      <4>1. lastFlush[k][x.gran] \in Times \cup {None}
        BY <1>1, <2>1
      <4>2. lastFlush[k][x.gran] \in Nat
        BY <3>3, <4>1, TimesType
      <4> QED  BY <1>2, <1>5, <2>1, <3>1, <3>2, <3>3, <4>2
    <3>4. CASE lastFlush[k][x.gran] = None
      <4>1. lastFlush'[k][x.gran] \in Nat /\ lastFlush'[k][x.gran] # None
        BY <1>2, <2>1, <3>4, TimesType
      <4> QED  BY <1>2, <2>1, <3>1, <3>2, <3>4, <4>1
    <3> QED  BY <3>3, <3>4
  <2> QED  BY <2>2, <2>3
<1> QED  BY <1>2, <1>3, <1>6, <1>7, <1>8

\* process, first part.
LEMMA RecordKeeps == ASSUME IInv, NEW k \in Shards, Record(k) PROVE IInv'
<1> DEFINE e == Head(queue[k])
<1>1. /\ due[k] = None /\ queue[k] # << >>
      /\ queue' = [queue EXCEPT ![k] = Tail(@)] /\ due' = [due EXCEPT ![k] = e.ts]
      /\ UNCHANGED <<clock, started, completed, beaten, eof, latest, stopped, rows>>
  BY DEF Record, sent
<1>2. /\ e \in Event /\ e.ts \in Times
      /\ e.kind # "Heartbeat" => /\ e.call \in Calls /\ started[e.call] \in Times
                                 /\ started[e.call] =< e.ts
      /\ queue' \in [Shards -> Seq(Event)] /\ SentInOrder'
  BY <1>1, HeadOfQueue
<1>3. \/ /\ e.kind = "Start" /\ Opened(e.call, e.ts)
         /\ Written(k, StartKeys(e.call), OneStart, e.ts) /\ lastFlush' = Anchored(k, e.call)
         /\ handled' = [handled EXCEPT ![k] = @ \cup {<<"Start", e.call>>}]
      \/ /\ e.kind = "Complete" /\ Closed({e.call})
         /\ Written(k, CompleteKeys(e.call), OneComplete, e.ts) /\ lastFlush' = Anchored(k, e.call)
         /\ handled' = [handled EXCEPT ![k] = @ \cup {<<"Complete", e.call>>}]
      \/ /\ e.kind = "Heartbeat"
         /\ UNCHANGED <<open, counts, buckets, since, lastFlush, handled>>
  BY DEF Record
<1> HIDE DEF e
<1>4. /\ due \in [Shards -> Times \cup {None}] /\ TableOK
      /\ handled \in [Shards -> SUBSET ({"Start", "Complete"} \X Calls)]
  BY DEF IInv, TypeOK, TableOK
<1>5. due' \in [Shards -> Times \cup {None}]
  BY <1>1, <1>2, <1>4
<1>6. ASSUME TableOK', AnchorIsPast', CadenceRuns', OpenedAfterDrain',
             buckets' \in [Shards -> [Keys -> Count]], since' \in [Shards -> [Keys -> Times]],
             lastFlush' \in [Shards -> [Grans -> Times \cup {None}]],
             handled' \in [Shards -> SUBSET ({"Start", "Complete"} \X Calls)]
      PROVE  IInv'
  <2>1. TypeOK'
    BY <1>1, <1>2, <1>5, <1>6 DEF IInv, TypeOK, TableOK
  <2> QED  BY <1>2, <1>6, <2>1 DEF IInv, TableOK
<1>7. CASE e.kind = "Start"
  <2>1. /\ Opened(e.call, e.ts) /\ Written(k, StartKeys(e.call), OneStart, e.ts)
        /\ lastFlush' = Anchored(k, e.call)
        /\ handled' = [handled EXCEPT ![k] = @ \cup {<<"Start", e.call>>}]
    BY <1>3, <1>7
  <2>2. e.call \in Calls /\ started[e.call] \in Times /\ started[e.call] =< e.ts
    BY <1>2, <1>7
  <2>3. TableOK'
    BY <1>2, <1>4, <2>1, <2>2, OpenedKeeps
  <2>4. handled' \in [Shards -> SUBSET ({"Start", "Complete"} \X Calls)]
    BY <1>4, <2>1, <2>2
  <2>5. /\ buckets' \in [Shards -> [Keys -> Count]] /\ since' \in [Shards -> [Keys -> Times]]
        /\ lastFlush' \in [Shards -> [Grans -> Times \cup {None}]]
        /\ AnchorIsPast' /\ CadenceRuns' /\ OpenedAfterDrain'
    BY <1>1, <1>2, <2>1, <2>2, EmptyIsCount, WriteStep
  <2> QED  BY <1>6, <2>3, <2>4, <2>5
<1>8. CASE e.kind = "Complete"
  <2>1. /\ Closed({e.call}) /\ Written(k, CompleteKeys(e.call), OneComplete, e.ts)
        /\ lastFlush' = Anchored(k, e.call)
        /\ handled' = [handled EXCEPT ![k] = @ \cup {<<"Complete", e.call>>}]
    BY <1>3, <1>8
  <2>2. e.call \in Calls /\ started[e.call] \in Times /\ started[e.call] =< e.ts
    BY <1>2, <1>8
  <2>3. TableOK'
    BY <1>4, <2>1, <2>2, ClosedKeeps
  <2>4. handled' \in [Shards -> SUBSET ({"Start", "Complete"} \X Calls)]
    BY <1>4, <2>1, <2>2
  <2>5. /\ buckets' \in [Shards -> [Keys -> Count]] /\ since' \in [Shards -> [Keys -> Times]]
        /\ lastFlush' \in [Shards -> [Grans -> Times \cup {None}]]
        /\ AnchorIsPast' /\ CadenceRuns' /\ OpenedAfterDrain'
    BY <1>1, <1>2, <2>1, <2>2, EmptyIsCount, WriteStep
  <2> QED  BY <1>6, <2>3, <2>4, <2>5
<1>9. CASE e.kind = "Heartbeat"
  <2>1. UNCHANGED <<open, counts, buckets, since, lastFlush, handled, latest>>
    BY <1>1, <1>3, <1>9
  <2>2. due'[k] # None /\ \A j \in Shards : j # k => due'[j] = due[j]
    BY <1>1, <1>2, <1>4, TimesType
  <2>3. AnchorIsPast'
    BY <1>1, <2>1, <2>2 DEF IInv, AnchorIsPast
  <2>4. CadenceRuns'
    BY <2>1, <2>2 DEF IInv, CadenceRuns
  <2>5. TableOK' /\ OpenedAfterDrain'
    BY <1>4, <2>1 DEF IInv, OpenedAfterDrain, TableOK, CountsMatchOpen
  <2>6. /\ buckets' \in [Shards -> [Keys -> Count]] /\ since' \in [Shards -> [Keys -> Times]]
        /\ lastFlush' \in [Shards -> [Grans -> Times \cup {None}]]
        /\ handled' \in [Shards -> SUBSET ({"Start", "Complete"} \X Calls)]
    BY <1>4, <2>1 DEF IInv, TypeOK
  <2> QED  BY <1>6, <2>3, <2>4, <2>5, <2>6
<1> QED  BY <1>3, <1>7, <1>8, <1>9

\* process, second part: what one advance does to the shard's clocks.
LEMMA AdvanceFacts ==
  ASSUME IInv, NEW k \in Shards, Advance(k)
  PROVE  \E now \in Times :
            /\ latest[k] =< now /\ due[k] \in Times /\ due[k] =< now
            /\ latest' = [latest EXCEPT ![k] = now] /\ due' = [due EXCEPT ![k] = None]
            /\ Closed(Stale(now)) /\ Emit(k, Elapsed(k, now))
            /\ lastFlush' = [lastFlush EXCEPT ![k] =
                               [g \in Grans |-> IF g \in Elapsed(k, now) THEN now ELSE @[g]]]
            /\ UNCHANGED <<clock, started, completed, beaten, eof, queue, stopped, handled, since>>
<1>1. latest[k] \in Times /\ due[k] \in Times
  BY DEF IInv, TypeOK, Advance
<1>2. /\ Later(latest[k], due[k]) \in Times
      /\ latest[k] =< Later(latest[k], due[k]) /\ due[k] =< Later(latest[k], due[k])
  BY <1>1, LaterType
<1> USE <1>2
<1> WITNESS Later(latest[k], due[k]) \in Times
<1> QED  BY <1>1 DEF Advance, sent

LEMMA AdvanceKeeps == ASSUME IInv, NEW k \in Shards, Advance(k) PROVE IInv'
<1>1. PICK now \in Times :
         /\ latest[k] =< now /\ due[k] \in Times /\ due[k] =< now
         /\ latest' = [latest EXCEPT ![k] = now] /\ due' = [due EXCEPT ![k] = None]
         /\ Closed(Stale(now)) /\ Emit(k, Elapsed(k, now))
         /\ lastFlush' = [lastFlush EXCEPT ![k] =
                            [g \in Grans |-> IF g \in Elapsed(k, now) THEN now ELSE @[g]]]
         /\ UNCHANGED <<clock, started, completed, beaten, eof, queue, stopped, handled, since>>
  BY AdvanceFacts
<1>2. /\ TypeOK /\ TableOK /\ latest \in [Shards -> Times]
      /\ due \in [Shards -> Times \cup {None}]
      /\ lastFlush \in [Shards -> [Grans -> Times \cup {None}]]
  BY DEF IInv, TypeOK, TableOK
<1>3. TableOK'
  <2>1. Stale(now) \in SUBSET Calls
    BY DEF Stale
  <2> QED  BY <1>1, <1>2, <2>1, ClosedKeeps
<1>4. Elapsed(k, now) \in SUBSET Grans
  BY DEF Elapsed
<1>5. /\ buckets' \in [Shards -> [Keys -> Count]] /\ rows' \in [Shards -> [Keys -> Count]]
      /\ \A j \in Shards, x \in Keys : j # k => buckets'[j][x] = buckets[j][x]
      /\ \A x \in Keys : buckets'[k][x] = IF x.gran \in Elapsed(k, now) THEN Empty
                                         ELSE buckets[k][x]
  BY <1>1, <1>2, <1>4, EmitKeeps
<1>6. /\ \A j \in Shards : j # k => /\ lastFlush'[j] = lastFlush[j] /\ latest'[j] = latest[j]
                                   /\ due'[j] = due[j]
      /\ latest'[k] = now /\ due'[k] = None
      /\ \A g \in Grans : lastFlush'[k][g] = IF g \in Elapsed(k, now) THEN now
                                            ELSE lastFlush[k][g]
  BY <1>1, <1>2
<1>7. /\ lastFlush' \in [Shards -> [Grans -> Times \cup {None}]]
      /\ latest' \in [Shards -> Times] /\ due' \in [Shards -> Times \cup {None}]
  <2> DEFINE a == [g \in Grans |-> IF g \in Elapsed(k, now) THEN now ELSE lastFlush[k][g]]
  <2>1. a \in [Grans -> Times \cup {None}]
    BY <1>2
  <2>2. lastFlush' = [lastFlush EXCEPT ![k] = a]
    BY <1>1
  <2> HIDE DEF a
  <2> QED  BY <1>1, <1>2, <2>1, <2>2
<1>8. TypeOK'
  BY <1>1, <1>3, <1>5, <1>7 DEF IInv, TypeOK, TableOK
<1>9. \A g \in Grans : /\ g \in Nat /\ g > 0 /\ now \in Nat /\ latest[k] \in Nat /\ due[k] \in Nat
                       /\ lastFlush[k][g] # None => lastFlush[k][g] \in Nat
  <2>1. \A g \in Grans : lastFlush[k][g] \in Times \cup {None}
    BY <1>2
  <2> QED  BY <1>1, <1>2, <2>1, TimesType
<1>10. \A g \in Grans : lastFlush[k][g] # None => lastFlush[k][g] =< now
  BY <1>1, <1>9 DEF IInv, AnchorIsPast
<1>11. AnchorIsPast'
  <2> SUFFICES ASSUME NEW j \in Shards, NEW g \in Grans, lastFlush'[j][g] # None
               PROVE  \/ lastFlush'[j][g] =< latest'[j]
                      \/ due'[j] # None /\ lastFlush'[j][g] =< due'[j]
    BY DEF AnchorIsPast
  <2>1. CASE j = k
    BY <1>6, <1>9, <1>10, <2>1
  <2>2. CASE j # k
    BY <1>6, <2>2 DEF IInv, AnchorIsPast
  <2> QED  BY <2>1, <2>2
<1>12. CadenceRuns'
  <2> SUFFICES ASSUME NEW j \in Shards, NEW g \in Grans, due'[j] = None, lastFlush'[j][g] # None
               PROVE  latest'[j] - lastFlush'[j][g] < g
    BY DEF CadenceRuns
  <2>1. CASE j = k /\ g \in Elapsed(k, now)
    BY <1>6, <1>9, <2>1
  <2>2. CASE j = k /\ g \notin Elapsed(k, now)
    BY <1>6, <1>9, <2>2 DEF Elapsed
  <2>3. CASE j # k
    BY <1>6, <2>3 DEF IInv, CadenceRuns
  <2> QED  BY <2>1, <2>2, <2>3
<1>13. OpenedAfterDrain'
  <2> SUFFICES ASSUME NEW j \in Shards, NEW x \in Keys, buckets'[j][x] # Empty
               PROVE  lastFlush'[j][x.gran] # None /\ lastFlush'[j][x.gran] =< since[j][x]
    BY <1>1 DEF OpenedAfterDrain
  <2>1. buckets[j][x] # Empty /\ (j = k => x.gran \notin Elapsed(k, now))
    BY <1>5
  <2>2. lastFlush'[j][x.gran] = lastFlush[j][x.gran]
    BY <1>6, <2>1, KeyHasGran
  <2> QED  BY <2>1, <2>2 DEF IInv, OpenedAfterDrain
<1>14. SentInOrder'
  BY <1>1 DEF IInv, SentInOrder
<1> QED  BY <1>3, <1>8, <1>11, <1>12, <1>13, <1>14 DEF IInv, TableOK

LEMMA StopKeeps == ASSUME IInv, NEW k \in Shards, Stop(k) PROVE IInv'
<1>1. /\ Emit(k, Grans) /\ stopped' = stopped \cup {k}
      /\ UNCHANGED <<clock, started, completed, beaten, eof, queue, latest, lastFlush, due, open,
                     counts, handled, since>>
  BY DEF Stop, sent
<1>2. TypeOK /\ Grans \in SUBSET Grans
  BY DEF IInv
<1>3. /\ buckets' \in [Shards -> [Keys -> Count]] /\ rows' \in [Shards -> [Keys -> Count]]
      /\ \A j \in Shards, x \in Keys : j # k => buckets'[j][x] = buckets[j][x]
      /\ \A x \in Keys : buckets'[k][x] = IF x.gran \in Grans THEN Empty ELSE buckets[k][x]
  BY <1>1, <1>2, EmitKeeps
<1>4. TypeOK'
  BY <1>1, <1>3 DEF IInv, TypeOK
<1>5. OpenedAfterDrain'
  BY <1>1, <1>3, KeyHasGran DEF IInv, OpenedAfterDrain
<1> QED  BY <1>1, <1>4, <1>5 DEF IInv, CountsMatchOpen, SentInOrder, AnchorIsPast, CadenceRuns

-----------------------------------------------------------------------------
(* The specification.                                                       *)

LEMMA InitEstablishes == ASSUME Init PROVE IInv
<1>1. TypeOK
  <2>1. /\ buckets \in [Shards -> [Keys -> Count]] /\ rows \in [Shards -> [Keys -> Count]]
    BY EmptyIsCount DEF Init
  <2>2. /\ since \in [Shards -> [Keys -> Times]] /\ latest \in [Shards -> Times]
        /\ clock \in Times /\ beaten \in Times
    BY TimesType DEF Init
  <2>3. queue \in [Shards -> Seq(Event)]
    BY EmptyQueue DEF Init
  <2>4. /\ lastFlush \in [Shards -> [Grans -> Times \cup {None}]]
        /\ due \in [Shards -> Times \cup {None}] /\ started \in [Calls -> Times \cup {None}]
        /\ open \in [Calls -> OpenCall \cup {None}] /\ counts \in [Dims -> Nat]
        /\ handled \in [Shards -> SUBSET ({"Start", "Complete"} \X Calls)]
    BY DEF Init
  <2>5. completed \subseteq Calls /\ stopped \subseteq Shards /\ eof \in BOOLEAN
    BY DEF Init
  <2> QED  BY <2>1, <2>2, <2>3, <2>4, <2>5 DEF TypeOK
<1>2. CountsMatchOpen
  <2> SUFFICES ASSUME NEW d \in Dims
               PROVE  counts[d] = Cardinality({c \in Calls : open[c] # None /\ d \in open[c].dims})
    BY DEF CountsMatchOpen
  <2>1. {c \in Calls : open[c] # None /\ d \in open[c].dims} = {} /\ counts[d] = 0
    BY DEF Init
  <2> QED  BY <2>1, FS_EmptySet
<1>3. SentInOrder
  <2>1. \A k \in Shards : Len(queue[k]) = 0
    BY DEF Init
  <2> QED  BY <2>1 DEF SentInOrder
<1>4. /\ \A k \in Shards, g \in Grans : lastFlush[k][g] = None
      /\ \A k \in Shards, x \in Keys : buckets[k][x] = Empty
  BY DEF Init
<1> QED  BY <1>1, <1>2, <1>3, <1>4 DEF IInv, AnchorIsPast, CadenceRuns, OpenedAfterDrain

LEMMA StutterKeeps == ASSUME IInv, UNCHANGED vars PROVE IInv'
<1>1. TypeOK'
  BY DEF vars, IInv, TypeOK
<1> QED  BY <1>1 DEF vars, IInv, CountsMatchOpen, SentInOrder, AnchorIsPast, CadenceRuns,
                     OpenedAfterDrain

LEMMA StepKeeps == ASSUME IInv, [Next]_vars PROVE IInv'
  BY SendStartKeeps, SendCompleteKeeps, SendHeartbeatKeeps, UpstreamKeeps, RecordKeeps,
     AdvanceKeeps, StopKeeps, StutterKeeps DEF Next, Shard

\* The strengthening is an invariant of all shards and the table they share.
THEOREM MetricsInvariant == Spec => []IInv
<1> QED  BY InitEstablishes, StepKeeps, PTL DEF Spec

\* Type correctness; in particular no in-flight count goes below zero, so the
\* saturating subtraction of decrement never saturates.
THEOREM MetricsTypeCorrect == Spec => []TypeOK
<1>1. IInv => TypeOK
  BY DEF IInv
<1> QED  BY <1>1, MetricsInvariant, PTL

\* ActiveCalls counts the open calls of every dimension, whichever shards open,
\* close and expire them.
THEOREM InFlightCountsAreRight == Spec => []CountsMatchOpen
<1>1. IInv => CountsMatchOpen
  BY DEF IInv
<1> QED  BY <1>1, MetricsInvariant, PTL

\* Both together: the counts are natural numbers and they are the right ones.
THEOREM InFlightIsSound == Spec => []InFlightSound
<1> QED  BY MetricsTypeCorrect, InFlightCountsAreRight, PTL DEF InFlightSound

\* A window is reported before the shard's watermark is a window length past
\* the event that opened its bucket (maybe_drain).
THEOREM WindowsAreReported == Spec => []LagBounded
<1>1. IInv => LagBounded
  <2> SUFFICES ASSUME IInv, NEW k \in Shards, NEW x \in Keys, due[k] = None, buckets[k][x] # Empty
               PROVE  latest[k] - since[k][x] < x.gran
    BY DEF LagBounded
  <2> DEFINE g == x.gran
             f == lastFlush[k][g]
  <2>1. g \in Grans /\ g \in Nat
    BY KeyHasGran, TimesType
  <2>2. f # None /\ f =< since[k][x]
    BY DEF IInv, OpenedAfterDrain
  <2>3. latest[k] - f < g
    BY <2>1, <2>2 DEF IInv, CadenceRuns
  <2>4. f \in Times \cup {None} /\ latest[k] \in Times /\ since[k][x] \in Times
    BY <2>1 DEF IInv, TypeOK
  <2>5. f \in Nat /\ latest[k] \in Nat /\ since[k][x] \in Nat
    BY <2>2, <2>4, TimesType
  <2> HIDE DEF f, g
  <2>6. latest[k] - since[k][x] < g
    BY <2>1, <2>2, <2>3, <2>5
  <2> QED  BY <2>6 DEF g
<1> QED  BY <1>1, MetricsInvariant, PTL

\* A call that is never answered lingers in the table for MAX_OPEN_US at most,
\* by the watermark of any shard that handles an event (expire).
THEOREM LingeringIsBounded == Spec => LingerBounded
<1>1. ASSUME IInv, [Next]_vars
      PROVE  [\A k \in Shards : due[k] # None /\ due'[k] = None =>
                 \A c \in Calls : open'[c] # None => latest'[k] - open'[c].start =< MaxOpen]_vars
  <2> SUFFICES ASSUME NEW k \in Shards, due[k] # None, due'[k] = None
               PROVE  \A c \in Calls : open'[c] # None => latest'[k] - open'[c].start =< MaxOpen
    OBVIOUS
  <2>1. Advance(k)
    <3>1. due \in [Shards -> Times \cup {None}]
      BY <1>1 DEF IInv, TypeOK
    <3>2. ASSUME NEW j \in Shards, Record(j) PROVE FALSE
      <4>1. due[j] = None /\ due' = [due EXCEPT ![j] = Head(queue[j]).ts]
        BY <3>2 DEF Record
      <4>2. queue[j] # << >> /\ queue' = [queue EXCEPT ![j] = Tail(@)] /\ UNCHANGED started
        BY <3>2 DEF Record, sent
      <4>3. Head(queue[j]).ts \in Times
        BY <1>1, <4>2, HeadOfQueue
      <4> QED  BY <3>1, <4>1, <4>3, TimesType
    <3>3. ASSUME NEW j \in Shards, Advance(j) PROVE j = k
      BY <3>1, <3>3 DEF Advance
    <3>4. ~UNCHANGED due
      OBVIOUS
    <3>5. \E j \in Shards : Record(j) \/ Advance(j)
      BY <1>1, <3>4 DEF Next, Shard, Stop, SendStart, SendComplete, SendHeartbeat, Tick,
                        CloseUpstream, Unsent, vars
    <3> QED  BY <3>2, <3>3, <3>5
  <2>2. PICK now \in Times : /\ latest' = [latest EXCEPT ![k] = now] /\ Closed(Stale(now))
    BY <1>1, <2>1, AdvanceFacts
  <2>3. TableOK /\ Stale(now) \in SUBSET Calls
    BY <1>1 DEF IInv, TypeOK, TableOK, Stale
  <2>4. \A c \in Calls : open'[c] # None => open'[c] = open[c] /\ c \notin Stale(now)
    BY <2>2, <2>3, ClosedKeeps
  <2>5. latest'[k] = now
    BY <1>1, <2>2 DEF IInv, TypeOK
  <2>6. \A c \in Calls : open[c] # None => open[c].start \in Nat
    BY <2>3, TimesType DEF TableOK, OpenCall
  <2>7. now \in Nat /\ MaxOpen \in Nat
    BY TimesType, MetricsAssumption
  <2> QED  BY <2>4, <2>5, <2>6, <2>7 DEF Stale
<1> QED  BY <1>1, MetricsInvariant, PTL DEF Spec, LingerBounded

\* Every wait in the stage ends in time: buckets are drained within a window and
\* unanswered calls expire.
THEOREM WaitsAreBounded == Spec => ReportedInTime
<1> QED  BY WindowsAreReported, LingeringIsBounded, PTL DEF ReportedInTime

-----------------------------------------------------------------------------
(* Conservation: no event is lost or counted twice.                         *)

\* The LLM stage has sent this event: st and co are started and completed.
WasSent(st, co, kind, c) == st[c] # None /\ (kind = "Complete" => c \in co)

Same(d, e) == d.kind # "Heartbeat" /\ d.kind = e.kind /\ d.call = e.call

\* An event is sent once: it is in a shard's channel once or handled, not both.
SentOnce ==
    /\ \A c \in completed : started[c] # None
    /\ \A k \in Shards : \A i \in 1..Len(queue[k]) : queue[k][i].kind # "Heartbeat" =>
          /\ WasSent(started, completed, queue[k][i].kind, queue[k][i].call)
          /\ <<queue[k][i].kind, queue[k][i].call>> \notin handled[k]
    /\ \A k \in Shards : \A i, j \in 1..Len(queue[k]) : i # j => ~Same(queue[k][i], queue[k][j])
    /\ \A k \in Shards : \A c \in Calls :
          /\ <<"Start", c>> \in handled[k] => WasSent(started, completed, "Start", c)
          /\ <<"Complete", c>> \in handled[k] => WasSent(started, completed, "Complete", c)

\* The inductive invariant of conservation.
CInv == IInv /\ SentOnce /\ Conserved

\* What is sent later does not move the windows of the events handled so far.
LEMMA SendConserves ==
  ASSUME CInv, UNCHANGED Unsent,
         \A c \in Calls : started[c] # None => started'[c] = started[c]
  PROVE  Conserved'
<1>1. UNCHANGED <<buckets, rows, handled>>
  BY DEF Unsent
<1>2. ASSUME NEW k \in Shards, NEW x \in Keys
      PROVE  StartsOf(k, x)' = StartsOf(k, x) /\ CompletesOf(k, x)' = CompletesOf(k, x)
  <2>1. \A c \in Calls : <<"Start", c>> \in handled[k] \/ <<"Complete", c>> \in handled[k]
                            => started'[c] = started[c]
    BY DEF CInv, SentOnce, WasSent
  <2>2. \A c \in Calls : started'[c] = started[c] =>
            StartKeys(c)' = StartKeys(c) /\ CompleteKeys(c)' = CompleteKeys(c)
    BY DEF StartKeys, CompleteKeys, KeysOf, TaggedSurface
  <2> HIDE DEF StartKeys, CompleteKeys
  <2> QED  BY <1>1, <2>1, <2>2 DEF StartsOf, CompletesOf
<1> QED  BY <1>1, <1>2 DEF CInv, Conserved

\* A new event in a channel.
LEMMA AppendOnce ==
  ASSUME CInv, NEW k \in Shards, NEW e \in Event, queue' = [queue EXCEPT ![k] = Append(@, e)],
         UNCHANGED handled, e.kind # "Heartbeat", ~WasSent(started, completed, e.kind, e.call),
         WasSent(started', completed', e.kind, e.call), completed \subseteq completed',
         \A c \in completed' : started'[c] # None,
         \A c \in Calls : started[c] # None => started'[c] # None
  PROVE  SentOnce'
<1>1. queue \in [Shards -> Seq(Event)] /\ queue[k] \in Seq(Event)
  BY DEF CInv, IInv, TypeOK
<1>2. e.call \in Calls /\ e.kind \in {"Start", "Complete"}
  BY DEF Event
<1>3. ASSUME NEW kind, NEW c \in Calls, WasSent(started, completed, kind, c)
      PROVE  WasSent(started', completed', kind, c)
  BY <1>3 DEF WasSent
<1>4. \A j \in Shards : \A i \in 1..Len(queue'[j]) :
         \/ i \in 1..Len(queue[j]) /\ queue'[j][i] = queue[j][i] /\ queue[j][i] \in Event
         \/ j = k /\ i = Len(queue[k]) + 1 /\ queue'[j][i] = e
  BY <1>1
<1>5. <<e.kind, e.call>> \notin handled[k]
  BY <1>2 DEF CInv, SentOnce
<1>6. ASSUME NEW j \in Shards, NEW i \in 1..Len(queue'[j]), queue'[j][i].kind # "Heartbeat"
      PROVE  /\ WasSent(started', completed', queue'[j][i].kind, queue'[j][i].call)
             /\ <<queue'[j][i].kind, queue'[j][i].call>> \notin handled[j]
  <2>1. CASE i \in 1..Len(queue[j]) /\ queue'[j][i] = queue[j][i] /\ queue[j][i] \in Event
    <3>1. queue[j][i].call \in Calls
      BY <1>6, <2>1 DEF Event
    <3>2. /\ WasSent(started, completed, queue[j][i].kind, queue[j][i].call)
          /\ <<queue[j][i].kind, queue[j][i].call>> \notin handled[j]
      BY <1>6, <2>1 DEF CInv, SentOnce
    <3>3. WasSent(started', completed', queue[j][i].kind, queue[j][i].call)
      BY <2>1, <3>1, <3>2 DEF WasSent
    <3> QED  BY <2>1, <3>2, <3>3 DEF WasSent
  <2>2. CASE j = k /\ queue'[j][i] = e
    BY <1>5, <2>2 DEF WasSent
  <2> QED  BY <1>4, <2>1, <2>2
<1>7. ASSUME NEW j \in Shards, NEW i \in 1..Len(queue'[j]), NEW n \in 1..Len(queue'[j]), i # n
      PROVE  ~Same(queue'[j][i], queue'[j][n])
  <2>1. \A m \in 1..Len(queue[k]) : ~Same(queue[k][m], e) /\ ~Same(e, queue[k][m])
    BY DEF CInv, SentOnce, Same
  <2>2. \A m, l \in 1..Len(queue[j]) : m # l => ~Same(queue[j][m], queue[j][l])
    BY DEF CInv, SentOnce
  <2> QED  BY <1>4, <1>7, <2>1, <2>2
<1>8. ASSUME NEW j \in Shards, NEW c \in Calls
      PROVE  /\ <<"Start", c>> \in handled[j] => WasSent(started', completed', "Start", c)
             /\ <<"Complete", c>> \in handled[j] => WasSent(started', completed', "Complete", c)
  BY <1>3 DEF CInv, SentOnce
<1> QED  BY <1>6, <1>7, <1>8 DEF SentOnce, WasSent

LEMMA SendStartConserves == ASSUME CInv, NEW c \in Calls, SendStart(c) PROVE CInv'
<1> DEFINE e == [kind |-> "Start", call |-> c, ts |-> clock]
           k == ShardOf[Requested[c]]
<1>1. /\ k \in Shards /\ clock \in Times /\ started \in [Calls -> Times \cup {None}]
      /\ completed \subseteq Calls
  BY MetricsAssumption DEF CInv, IInv, TypeOK
<1>2. e \in Event /\ e.kind = "Start" /\ e.call = c
  BY <1>1 DEF Event
<1>3. /\ queue' = [queue EXCEPT ![k] = Append(@, e)] /\ started[c] = None
      /\ started' = [started EXCEPT ![c] = clock]
      /\ UNCHANGED completed /\ UNCHANGED Unsent /\ UNCHANGED handled
  BY DEF SendStart, Offer, Unsent
<1> HIDE DEF e, k
<1>4. \A b \in Calls : /\ started[b] # None => started'[b] = started[b]
                       /\ started'[b] = None => started[b] = None
  BY <1>1, <1>3, TimesType
<1>5. ~WasSent(started, completed, e.kind, e.call) /\ WasSent(started', completed', e.kind, e.call)
  BY <1>1, <1>2, <1>3, TimesType DEF WasSent
<1>6. \A b \in completed' : started'[b] # None
  BY <1>1, <1>3, <1>4 DEF CInv, SentOnce
<1>7. SentOnce'
  BY <1>1, <1>2, <1>3, <1>4, <1>5, <1>6, AppendOnce
<1>8. Conserved'
  BY <1>3, <1>4, SendConserves
<1> QED  BY <1>7, <1>8, SendStartKeeps DEF CInv

LEMMA SendCompleteConserves ==
  ASSUME CInv, NEW c \in Calls, NEW t \in Times, SendComplete(c, t)
  PROVE  CInv'
<1> DEFINE e == [kind |-> "Complete", call |-> c, ts |-> t]
           k == ShardOf[Answered[c]]
<1>1. k \in Shards
  BY MetricsAssumption
<1>2. e \in Event /\ e.kind = "Complete" /\ e.call = c
  BY DEF Event
<1>3. /\ queue' = [queue EXCEPT ![k] = Append(@, e)] /\ started[c] # None /\ c \notin completed
      /\ completed' = completed \cup {c}
      /\ UNCHANGED started /\ UNCHANGED Unsent /\ UNCHANGED handled
  BY DEF SendComplete, Offer, Unsent
<1> HIDE DEF e, k
<1>4. ~WasSent(started, completed, e.kind, e.call) /\ WasSent(started', completed', e.kind, e.call)
  BY <1>2, <1>3 DEF WasSent
<1>5. \A b \in completed' : started'[b] # None
  BY <1>3 DEF CInv, SentOnce
<1>6. SentOnce'
  BY <1>1, <1>2, <1>3, <1>4, <1>5, AppendOnce
<1>7. Conserved'
  BY <1>3, SendConserves
<1> QED  BY <1>6, <1>7, SendCompleteKeeps DEF CInv

LEMMA SendHeartbeatConserves == ASSUME CInv, SendHeartbeat PROVE CInv'
<1> DEFINE h == [kind |-> "Heartbeat", ts |-> clock]
<1>1. queue \in [Shards -> Seq(Event)] /\ h.kind = "Heartbeat"
  BY DEF CInv, IInv, TypeOK
<1>2. /\ queue' = [k \in Shards |-> IF Len(queue[k]) < Cap THEN Append(queue[k], h) ELSE queue[k]]
      /\ UNCHANGED <<started, completed, handled>> /\ UNCHANGED Unsent
  BY DEF SendHeartbeat, Unsent
<1> HIDE DEF h
<1>3. \A j \in Shards : \A i \in 1..Len(queue'[j]) :
         \/ i \in 1..Len(queue[j]) /\ queue'[j][i] = queue[j][i]
         \/ queue'[j][i] = h
  BY <1>1, <1>2
<1>4. ASSUME NEW j \in Shards, NEW i \in 1..Len(queue'[j]), queue'[j][i].kind # "Heartbeat"
      PROVE  /\ WasSent(started, completed, queue'[j][i].kind, queue'[j][i].call)
             /\ <<queue'[j][i].kind, queue'[j][i].call>> \notin handled[j]
  <2>1. i \in 1..Len(queue[j]) /\ queue'[j][i] = queue[j][i]
    BY <1>1, <1>3, <1>4
  <2> QED  BY <1>4, <2>1 DEF CInv, SentOnce
<1>5. ASSUME NEW j \in Shards, NEW i \in 1..Len(queue'[j]), NEW n \in 1..Len(queue'[j]), i # n
      PROVE  ~Same(queue'[j][i], queue'[j][n])
  <2>1. \A m, l \in 1..Len(queue[j]) : m # l => ~Same(queue[j][m], queue[j][l])
    BY DEF CInv, SentOnce
  <2>2. \A d : ~Same(h, d) /\ ~Same(d, h)
    BY <1>1 DEF Same
  <2> QED  BY <1>3, <1>5, <2>1, <2>2
<1>6. SentOnce'
  BY <1>2, <1>4, <1>5 DEF CInv, SentOnce
<1>7. Conserved'
  BY <1>2, SendConserves
<1> QED  BY <1>6, <1>7, SendHeartbeatKeeps DEF CInv

LEMMA UpstreamConserves == ASSUME CInv, Tick \/ CloseUpstream PROVE CInv'
<1>1. UNCHANGED <<started, completed, queue>> /\ UNCHANGED Unsent /\ UNCHANGED handled
  BY DEF Tick, CloseUpstream, Unsent
<1>2. SentOnce'
  BY <1>1 DEF CInv, SentOnce
<1>3. Conserved'
  BY <1>1, SendConserves
<1> QED  BY <1>2, <1>3, UpstreamKeeps DEF CInv

LEMMA KeysStay ==
  ASSUME UNCHANGED started
  PROVE  \A c \in Calls : StartKeys(c)' = StartKeys(c) /\ CompleteKeys(c)' = CompleteKeys(c)
  BY DEF StartKeys, CompleteKeys, KeysOf, TaggedSurface

\* The handled sets grow by an event that was in the channel once.
LEMMA RecordOnce ==
  ASSUME CInv, NEW k \in Shards, queue[k] # << >>, queue' = [queue EXCEPT ![k] = Tail(@)],
         UNCHANGED <<started, completed>>,
         \/ Head(queue[k]).kind = "Heartbeat" /\ UNCHANGED handled
         \/ /\ Head(queue[k]).kind # "Heartbeat"
            /\ handled' = [handled EXCEPT ![k] =
                             @ \cup {<<Head(queue[k]).kind, Head(queue[k]).call>>}]
  PROVE  SentOnce'
<1> DEFINE e == Head(queue[k])
<1>1. /\ queue \in [Shards -> Seq(Event)]
      /\ handled \in [Shards -> SUBSET ({"Start", "Complete"} \X Calls)]
  BY DEF CInv, IInv, TypeOK
<1>2. e = queue[k][1] /\ 1 \in 1..Len(queue[k])
  BY <1>1
<1>3. /\ \A j \in Shards : j # k => queue'[j] = queue[j] /\ handled'[j] = handled[j]
      /\ \A i \in 1..Len(queue'[k]) : /\ i + 1 \in 1..Len(queue[k]) /\ i + 1 # 1
                                      /\ queue'[k][i] = queue[k][i + 1]
  <2>1. \A q \in Seq(Event) : q # << >> => \A n \in 1..Len(Tail(q)) :
           n + 1 \in 1..Len(q) /\ n + 1 # 1 /\ Tail(q)[n] = q[n + 1]
    OBVIOUS
  <2>2. queue'[k] = Tail(queue[k]) /\ queue[k] \in Seq(Event)
    BY <1>1
  <2>3. \A i \in 1..Len(queue'[k]) : /\ i + 1 \in 1..Len(queue[k]) /\ i + 1 # 1
                                     /\ queue'[k][i] = queue[k][i + 1]
    BY <2>1, <2>2
  <2>4. \A j \in Shards : j # k => queue'[j] = queue[j] /\ handled'[j] = handled[j]
    BY <1>1
  <2> QED  BY <2>3, <2>4
<1>4. \/ e.kind = "Heartbeat" /\ handled'[k] = handled[k]
      \/ e.kind # "Heartbeat" /\ handled'[k] = handled[k] \cup {<<e.kind, e.call>>}
  BY <1>1
<1> HIDE DEF e
<1>5. ASSUME NEW j \in Shards, NEW i \in 1..Len(queue'[j]), queue'[j][i].kind # "Heartbeat"
      PROVE  /\ WasSent(started, completed, queue'[j][i].kind, queue'[j][i].call)
             /\ <<queue'[j][i].kind, queue'[j][i].call>> \notin handled'[j]
  <2>1. CASE j = k
    <3>1. /\ i + 1 \in 1..Len(queue[k]) /\ queue'[k][i] = queue[k][i + 1] /\ i + 1 # 1
          /\ queue[k][i + 1].kind # "Heartbeat"
      BY <1>3, <1>5, <2>1
    <3>2. /\ WasSent(started, completed, queue[k][i + 1].kind, queue[k][i + 1].call)
          /\ <<queue[k][i + 1].kind, queue[k][i + 1].call>> \notin handled[k]
      BY <3>1 DEF CInv, SentOnce
    <3>3. ~Same(queue[k][i + 1], e)
      BY <1>2, <3>1 DEF CInv, SentOnce
    <3>4. <<queue[k][i + 1].kind, queue[k][i + 1].call>> # <<e.kind, e.call>>
      BY <3>1, <3>3 DEF Same
    <3> QED  BY <1>4, <2>1, <3>1, <3>2, <3>4
  <2>2. CASE j # k
    BY <1>3, <1>5, <2>2 DEF CInv, SentOnce
  <2> QED  BY <2>1, <2>2
<1>6. ASSUME NEW j \in Shards, NEW i \in 1..Len(queue'[j]), NEW n \in 1..Len(queue'[j]), i # n
      PROVE  ~Same(queue'[j][i], queue'[j][n])
  <2>1. CASE j = k
    <3>1. /\ i + 1 \in 1..Len(queue[k]) /\ n + 1 \in 1..Len(queue[k]) /\ i + 1 # n + 1
          /\ queue'[k][i] = queue[k][i + 1] /\ queue'[k][n] = queue[k][n + 1]
      BY <1>3, <1>6, <2>1
    <3> QED  BY <2>1, <3>1 DEF CInv, SentOnce
  <2>2. CASE j # k
    BY <1>3, <1>6, <2>2 DEF CInv, SentOnce
  <2> QED  BY <2>1, <2>2
<1>7. ASSUME NEW j \in Shards, NEW c \in Calls
      PROVE  /\ <<"Start", c>> \in handled'[j] => WasSent(started, completed, "Start", c)
             /\ <<"Complete", c>> \in handled'[j] => WasSent(started, completed, "Complete", c)
  <2>1. e.kind # "Heartbeat" => WasSent(started, completed, e.kind, e.call)
    BY <1>2 DEF CInv, SentOnce
  <2>2. /\ <<"Start", c>> \in handled[j] => WasSent(started, completed, "Start", c)
        /\ <<"Complete", c>> \in handled[j] => WasSent(started, completed, "Complete", c)
    BY DEF CInv, SentOnce
  <2> QED  BY <1>3, <1>4, <2>1, <2>2
<1> QED  BY <1>5, <1>6, <1>7 DEF CInv, SentOnce

\* A written event adds one to its own keys and to nothing else.
LEMMA WrittenAdds ==
  ASSUME TypeOK, NEW k \in Shards, NEW keys, NEW one \in Count, NEW now, Written(k, keys, one, now)
  PROVE  /\ \A j \in Shards, x \in Keys : j # k => buckets'[j][x] = buckets[j][x]
         /\ \A x \in Keys :
               /\ buckets'[k][x].start = IF x \in keys THEN buckets[k][x].start + one.start
                                         ELSE buckets[k][x].start
               /\ buckets'[k][x].complete = IF x \in keys THEN buckets[k][x].complete + one.complete
                                            ELSE buckets[k][x].complete
<1> DEFINE b == [x \in Keys |-> IF x \in keys THEN Added(buckets[k][x], one) ELSE buckets[k][x]]
<1>1. buckets \in [Shards -> [Keys -> Count]] /\ buckets' = [buckets EXCEPT ![k] = b]
  BY DEF TypeOK, Written
<1>2. \A x \in Keys : b[x] = IF x \in keys THEN Added(buckets[k][x], one) ELSE buckets[k][x]
  OBVIOUS
<1> HIDE DEF b
<1>3. buckets'[k] = b /\ \A j \in Shards : j # k => buckets'[j] = buckets[j]
  BY <1>1
<1>4. ASSUME NEW x \in Keys
      PROVE  /\ buckets'[k][x].start = IF x \in keys THEN buckets[k][x].start + one.start
                                       ELSE buckets[k][x].start
             /\ buckets'[k][x].complete = IF x \in keys THEN buckets[k][x].complete + one.complete
                                          ELSE buckets[k][x].complete
  <2>1. buckets'[k][x] = IF x \in keys THEN Added(buckets[k][x], one) ELSE buckets[k][x]
    BY <1>2, <1>3
  <2>2. /\ Added(buckets[k][x], one).start = buckets[k][x].start + one.start
        /\ Added(buckets[k][x], one).complete = buckets[k][x].complete + one.complete
    BY DEF Added
  <2> HIDE DEF Added
  <2> QED  BY <2>1, <2>2
<1> QED  BY <1>3, <1>4

\* One more handled call of a window.
LEMMA OneMore ==
  ASSUME NEW S \in SUBSET Calls, NEW c \in Calls, c \notin S
  PROVE  /\ Cardinality(S) \in Nat /\ Cardinality(S \cup {c}) = Cardinality(S) + 1
<1>1. IsFiniteSet(S)
  BY MetricsAssumption, FS_Subset
<1> QED  BY <1>1, FS_CardinalityType, FS_AddElement

\* The step of a shard that handles an event.
LEMMA RecordConserves == ASSUME CInv, NEW k \in Shards, Record(k) PROVE CInv'
<1> DEFINE e == Head(queue[k])
<1>1. /\ queue[k] # << >> /\ queue' = [queue EXCEPT ![k] = Tail(@)]
      /\ UNCHANGED <<started, completed>> /\ UNCHANGED rows
  BY DEF Record, sent
<1>2. \/ /\ e.kind = "Start" /\ Written(k, StartKeys(e.call), OneStart, e.ts)
         /\ handled' = [handled EXCEPT ![k] = @ \cup {<<"Start", e.call>>}]
      \/ /\ e.kind = "Complete" /\ Written(k, CompleteKeys(e.call), OneComplete, e.ts)
         /\ handled' = [handled EXCEPT ![k] = @ \cup {<<"Complete", e.call>>}]
      \/ e.kind = "Heartbeat" /\ UNCHANGED <<buckets, handled>>
  BY DEF Record
<1>3. /\ IInv /\ TypeOK
      /\ rows \in [Shards -> [Keys -> Count]] /\ buckets \in [Shards -> [Keys -> Count]]
      /\ handled \in [Shards -> SUBSET ({"Start", "Complete"} \X Calls)]
      /\ queue \in [Shards -> Seq(Event)]
  BY DEF CInv, IInv, TypeOK
<1>4. SentOnce'
  BY <1>1, <1>2, RecordOnce
<1>5. e.kind # "Heartbeat" => e.call \in Calls /\ <<e.kind, e.call>> \notin handled[k]
  <2>1. e = queue[k][1] /\ 1 \in 1..Len(queue[k]) /\ e \in Event
    BY <1>1, <1>3
  <2> QED  BY <2>1 DEF CInv, SentOnce, Event
<1> HIDE DEF e
<1>6. \A c \in Calls : StartKeys(c)' = StartKeys(c) /\ CompleteKeys(c)' = CompleteKeys(c)
  BY <1>1, KeysStay
<1>7. ASSUME NEW j \in Shards, NEW x \in Keys
      PROVE  /\ StartsOf(j, x) \in SUBSET Calls /\ CompletesOf(j, x) \in SUBSET Calls
             /\ rows[j][x].start + buckets[j][x].start = Cardinality(StartsOf(j, x))
             /\ rows[j][x].complete + buckets[j][x].complete = Cardinality(CompletesOf(j, x))
             /\ rows[j][x] \in Count /\ buckets[j][x] \in Count
  BY <1>3 DEF CInv, Conserved, StartsOf, CompletesOf
<1>8. /\ OneStart.start = 1 /\ OneStart.complete = 0
      /\ OneComplete.start = 0 /\ OneComplete.complete = 1
  BY DEF OneStart, OneComplete, Empty
<1>9. Conserved'
  <2> SUFFICES ASSUME NEW j \in Shards, NEW x \in Keys
               PROVE  /\ rows[j][x].start + buckets'[j][x].start = Cardinality(StartsOf(j, x)')
                      /\ rows[j][x].complete + buckets'[j][x].complete
                            = Cardinality(CompletesOf(j, x)')
    BY <1>1 DEF Conserved
  <2> HIDE DEF StartKeys, CompleteKeys
  <2>1. /\ StartsOf(j, x)' = {c \in Calls : <<"Start", c>> \in handled'[j] /\ x \in StartKeys(c)}
        /\ CompletesOf(j, x)' = {c \in Calls : /\ <<"Complete", c>> \in handled'[j]
                                               /\ x \in CompleteKeys(c)}
    BY <1>6 DEF StartsOf, CompletesOf
  <2>2. rows[j][x].start \in Nat /\ buckets[j][x].start \in Nat
        /\ rows[j][x].complete \in Nat /\ buckets[j][x].complete \in Nat
    BY <1>7 DEF Count
  <2>3. CASE handled'[j] = handled[j] /\ buckets'[j][x] = buckets[j][x]
    <3>1. StartsOf(j, x)' = StartsOf(j, x) /\ CompletesOf(j, x)' = CompletesOf(j, x)
      BY <2>1, <2>3 DEF StartsOf, CompletesOf
    <3> QED  BY <1>7, <2>3, <3>1
  <2>4. CASE e.kind = "Start" /\ j = k
    <3>1. /\ Written(k, StartKeys(e.call), OneStart, e.ts)
          /\ handled'[k] = handled[k] \cup {<<"Start", e.call>>}
      BY <1>2, <1>3, <2>4
    <3>2. /\ buckets'[k][x].start = IF x \in StartKeys(e.call) THEN buckets[k][x].start + 1
                                    ELSE buckets[k][x].start
          /\ buckets'[k][x].complete = buckets[k][x].complete
      <4>1. /\ buckets'[k][x].start = IF x \in StartKeys(e.call)
                                      THEN buckets[k][x].start + OneStart.start
                                      ELSE buckets[k][x].start
            /\ buckets'[k][x].complete = IF x \in StartKeys(e.call)
                                         THEN buckets[k][x].complete + OneStart.complete
                                         ELSE buckets[k][x].complete
        BY <1>3, <3>1, EmptyIsCount, WrittenAdds
      <4> QED  BY <1>8, <2>2, <2>4, <4>1
    <3>3. CompletesOf(k, x)' = CompletesOf(k, x)
      BY <2>1, <2>4, <3>1 DEF CompletesOf
    <3>4. e.call \in Calls /\ e.call \notin StartsOf(k, x)
      BY <1>5, <2>4 DEF StartsOf
    <3>5. CASE x \in StartKeys(e.call)
      <4>1. StartsOf(k, x)' = StartsOf(k, x) \cup {e.call}
        BY <2>1, <2>4, <3>1, <3>4, <3>5 DEF StartsOf
      <4>2. Cardinality(StartsOf(k, x)') = Cardinality(StartsOf(k, x)) + 1
        BY <1>7, <3>4, <4>1, OneMore
      <4> QED  BY <1>7, <2>2, <2>4, <3>2, <3>3, <3>5, <4>2
    <3>6. CASE x \notin StartKeys(e.call)
      <4>1. StartsOf(k, x)' = StartsOf(k, x)
        BY <2>1, <2>4, <3>1, <3>6 DEF StartsOf
      <4> QED  BY <1>7, <2>4, <3>2, <3>3, <3>6, <4>1
    <3> QED  BY <3>5, <3>6
  <2>5. CASE e.kind = "Complete" /\ j = k
    <3>1. /\ Written(k, CompleteKeys(e.call), OneComplete, e.ts)
          /\ handled'[k] = handled[k] \cup {<<"Complete", e.call>>}
      BY <1>2, <1>3, <2>5
    <3>2. /\ buckets'[k][x].complete = IF x \in CompleteKeys(e.call) THEN buckets[k][x].complete + 1
                                       ELSE buckets[k][x].complete
          /\ buckets'[k][x].start = buckets[k][x].start
      <4>1. /\ buckets'[k][x].start = IF x \in CompleteKeys(e.call)
                                      THEN buckets[k][x].start + OneComplete.start
                                      ELSE buckets[k][x].start
            /\ buckets'[k][x].complete = IF x \in CompleteKeys(e.call)
                                         THEN buckets[k][x].complete + OneComplete.complete
                                         ELSE buckets[k][x].complete
        BY <1>3, <3>1, EmptyIsCount, WrittenAdds
      <4> QED  BY <1>8, <2>2, <2>5, <4>1
    <3>3. StartsOf(k, x)' = StartsOf(k, x)
      BY <2>1, <2>5, <3>1 DEF StartsOf
    <3>4. e.call \in Calls /\ e.call \notin CompletesOf(k, x)
      BY <1>5, <2>5 DEF CompletesOf
    <3>5. CASE x \in CompleteKeys(e.call)
      <4>1. CompletesOf(k, x)' = CompletesOf(k, x) \cup {e.call}
        BY <2>1, <2>5, <3>1, <3>4, <3>5 DEF CompletesOf
      <4>2. Cardinality(CompletesOf(k, x)') = Cardinality(CompletesOf(k, x)) + 1
        BY <1>7, <3>4, <4>1, OneMore
      <4> QED  BY <1>7, <2>2, <2>5, <3>2, <3>3, <3>5, <4>2
    <3>6. CASE x \notin CompleteKeys(e.call)
      <4>1. CompletesOf(k, x)' = CompletesOf(k, x)
        BY <2>1, <2>5, <3>1, <3>6 DEF CompletesOf
      <4> QED  BY <1>7, <2>5, <3>2, <3>3, <3>6, <4>1
    <3> QED  BY <3>5, <3>6
  <2>6. CASE j # k \/ e.kind = "Heartbeat"
    <3>1. handled'[j] = handled[j]
      BY <1>2, <1>3, <2>6
    <3>2. buckets'[j][x] = buckets[j][x]
      <4>1. CASE UNCHANGED buckets
        BY <4>1
      <4>2. CASE e.kind = "Start" /\ Written(k, StartKeys(e.call), OneStart, e.ts)
        <5>1. j # k
          BY <2>6, <4>2
        <5> QED  BY <1>3, <4>2, <5>1 DEF Written
      <4>3. CASE e.kind = "Complete" /\ Written(k, CompleteKeys(e.call), OneComplete, e.ts)
        <5>1. j # k
          BY <2>6, <4>3
        <5> QED  BY <1>3, <4>3, <5>1 DEF Written
      <4> QED  BY <1>2, <4>1, <4>2, <4>3
    <3> QED  BY <2>3, <3>1, <3>2
  <2> QED  BY <1>2, <2>4, <2>5, <2>6
<1> QED  BY <1>4, <1>9, RecordKeeps DEF CInv

\* Emission moves counts from the buckets to the rows.
LEMMA EmitConserves ==
  ASSUME CInv, NEW k \in Shards, NEW gs \in SUBSET Grans, Emit(k, gs),
         UNCHANGED <<started, completed, queue, handled>>
  PROVE  SentOnce' /\ Conserved'
<1>1. rows \in [Shards -> [Keys -> Count]] /\ buckets \in [Shards -> [Keys -> Count]]
  BY DEF CInv, IInv, TypeOK
<1>2. SentOnce'
  BY DEF CInv, SentOnce
<1> DEFINE b == [x \in Keys |-> IF x.gran \in gs THEN Empty ELSE buckets[k][x]]
           r == [x \in Keys |-> IF x.gran \in gs THEN Added(rows[k][x], buckets[k][x])
                                ELSE rows[k][x]]
<1>3. buckets' = [buckets EXCEPT ![k] = b] /\ rows' = [rows EXCEPT ![k] = r]
  BY DEF Emit
<1>4. ASSUME NEW x \in Keys
      PROVE  /\ r[x].start + b[x].start = rows[k][x].start + buckets[k][x].start
             /\ r[x].complete + b[x].complete = rows[k][x].complete + buckets[k][x].complete
  <2>1. rows[k][x] \in Count /\ buckets[k][x] \in Count
    BY <1>1
  <2>2. /\ rows[k][x].start \in Nat /\ rows[k][x].complete \in Nat
        /\ buckets[k][x].start \in Nat /\ buckets[k][x].complete \in Nat
    BY <2>1 DEF Count
  <2>3. CASE x.gran \in gs
    <3>1. b[x] = Empty /\ r[x] = Added(rows[k][x], buckets[k][x])
      BY <2>3
    <3>2. Empty.start = 0 /\ Empty.complete = 0
      BY DEF Empty
    <3>3. /\ Added(rows[k][x], buckets[k][x]).start = rows[k][x].start + buckets[k][x].start
          /\ Added(rows[k][x], buckets[k][x]).complete = rows[k][x].complete + buckets[k][x].complete
      BY DEF Added
    <3> HIDE DEF b, r
    <3> QED  BY <2>2, <3>1, <3>2, <3>3
  <2>4. CASE x.gran \notin gs
    BY <2>4
  <2> QED  BY <2>3, <2>4
<1> HIDE DEF b, r
<1>5. /\ buckets'[k] = b /\ rows'[k] = r
      /\ \A j \in Shards : j # k => buckets'[j] = buckets[j] /\ rows'[j] = rows[j]
  BY <1>1, <1>3
<1>6. ASSUME NEW j \in Shards, NEW x \in Keys
      PROVE  /\ rows'[j][x].start + buckets'[j][x].start = rows[j][x].start + buckets[j][x].start
             /\ rows'[j][x].complete + buckets'[j][x].complete
                    = rows[j][x].complete + buckets[j][x].complete
  <2>1. CASE j = k
    BY <1>4, <1>5, <2>1
  <2>2. CASE j # k
    BY <1>5, <2>2
  <2> QED  BY <2>1, <2>2
<1>7. ASSUME NEW j \in Shards, NEW x \in Keys
      PROVE  StartsOf(j, x)' = StartsOf(j, x) /\ CompletesOf(j, x)' = CompletesOf(j, x)
  <2> HIDE DEF StartKeys, CompleteKeys
  <2> QED  BY KeysStay DEF StartsOf, CompletesOf
<1>8. Conserved'
  BY <1>6, <1>7 DEF CInv, Conserved
<1> QED  BY <1>2, <1>8

LEMMA ConservedInit == ASSUME Init PROVE CInv
<1>1. \A k \in Shards : Len(queue[k]) = 0 /\ handled[k] = {}
  BY DEF Init
<1>2. SentOnce
  BY <1>1 DEF SentOnce, Init
<1>3. Conserved
  <2> SUFFICES ASSUME NEW k \in Shards, NEW x \in Keys
               PROVE  /\ rows[k][x].start + buckets[k][x].start = Cardinality(StartsOf(k, x))
                      /\ rows[k][x].complete + buckets[k][x].complete = Cardinality(CompletesOf(k, x))
    BY DEF Conserved
  <2>1. StartsOf(k, x) = {} /\ CompletesOf(k, x) = {}
    BY <1>1 DEF StartsOf, CompletesOf
  <2>2. rows[k][x] = Empty /\ buckets[k][x] = Empty
    BY DEF Init
  <2>3. Empty.start = 0 /\ Empty.complete = 0
    BY DEF Empty
  <2> QED  BY <2>1, <2>2, <2>3, FS_EmptySet
<1> QED  BY <1>2, <1>3, InitEstablishes DEF CInv

LEMMA StepConserves == ASSUME CInv, [Next]_vars PROVE CInv'
<1>1. IInv /\ IInv'
  BY StepKeeps DEF CInv
<1>2. ASSUME NEW k \in Shards, Advance(k) PROVE CInv'
  <2>1. PICK now \in Times : /\ Emit(k, Elapsed(k, now))
                             /\ UNCHANGED <<started, completed, queue, handled>>
    BY <1>1, <1>2, AdvanceFacts
  <2>2. Elapsed(k, now) \in SUBSET Grans
    BY DEF Elapsed
  <2> QED  BY <1>1, <2>1, <2>2, EmitConserves DEF CInv
<1>3. ASSUME NEW k \in Shards, Stop(k) PROVE CInv'
  <2>1. Emit(k, Grans) /\ UNCHANGED <<started, completed, queue, handled>>
    BY <1>3 DEF Stop, sent
  <2> QED  BY <1>1, <2>1, EmitConserves DEF CInv
<1>4. CASE UNCHANGED vars
  <2>1. UNCHANGED <<started, completed, queue, handled>> /\ UNCHANGED Unsent
    BY <1>4 DEF vars, Unsent
  <2>2. SentOnce' /\ Conserved'
    BY <2>1, SendConserves DEF CInv, SentOnce
  <2> QED  BY <1>1, <2>2 DEF CInv
<1> QED  BY <1>2, <1>3, <1>4, SendStartConserves, SendCompleteConserves, SendHeartbeatConserves,
            UpstreamConserves, RecordConserves DEF Next, Shard

\* No event is lost or reported twice, however shards, drains and late Completes
\* interleave: each shard's rows and open buckets sum to what it was given.
THEOREM EventsAreConserved == Spec => []Conserved
<1>1. CInv => Conserved
  BY DEF CInv
<1>2. Init => CInv
  BY ConservedInit
<1>3. CInv /\ [Next]_vars => CInv'
  BY StepConserves
<1> QED  BY <1>1, <1>2, <1>3, PTL DEF Spec

=============================================================================
