--------------------------- MODULE CaptureProofs ---------------------------
(***************************************************************************)
(* Proofs about the capture sources on their way to the workers, for any   *)
(* traffic, any number of probes, dispatchers and workers, and about the   *)
(* packet dump, for any packets, limits, faults and requests.              *)
(***************************************************************************)
EXTENDS Ebpf, TLAPS, SequenceTheorems, FiniteSetTheorems, WellFoundedInduction

-----------------------------------------------------------------------------
(* What a source sends, and the slot in which it keeps the time of its      *)
(* newest heartbeat, or of its first item.                                  *)

LEMMA MaxIs ==
  ASSUME NEW S, S \subseteq Int, NEW m \in S, \A x \in S : x <= m
  PROVE  Max(S) = m
<1>1. \A x \in S : m >= x
  OBVIOUS
<1>2. ASSUME NEW y \in S, \A x \in S : y >= x PROVE y = m
  BY <1>2
<1> QED  BY <1>1, <1>2 DEF Max

\* Item i of q is of source s and comes no more than the interval after what is
\* known of the source.
Fresh(q, i) ==
  ~q[i].heartbeat /\ Known(q, i, q[i].source_id) # {}
    => q[i].timestamp_us - Max(Known(q, i, q[i].source_id)) < Interval

\* Items that follow a heartbeat are no older.
Ordered(q) ==
  \A i, j \in DOMAIN q :
    i < j /\ q[i].heartbeat /\ q[j].source_id = q[i].source_id => q[i].timestamp_us <= q[j].timestamp_us

\* The slot is the newest time known, or zero when there is none.
SlotIs(q, s, t) ==
  /\ t = 0 => Ahead(q, Len(q) + 1, s) = {}
  /\ t # 0 => t \in Known(q, Len(q) + 1, s) /\ \A x \in Known(q, Len(q) + 1, s) : x <= t

GoodSent(q, slot) ==
  /\ q \in Seq(Packets)
  /\ slot \in [Nat -> Nat]
  /\ \A i \in DOMAIN q : Fresh(q, i)
  /\ Ordered(q)
  /\ \A s \in Nat : SlotIs(q, s, slot[s])

LEMMA PacketFacts ==
  ASSUME NEW p \in Packets
  PROVE  p.source_id \in Nat /\ p.timestamp_us \in Nat /\ p.timestamp_us # 0 /\ p.heartbeat \in BOOLEAN
  BY DEF Packets

\* One more item at the end changes nothing of what the earlier ones know.
LEMMA KnownAppend ==
  ASSUME NEW q \in Seq(Packets), NEW p \in Packets, NEW s, NEW i \in 1..(Len(q) + 1)
  PROVE  Known(Append(q, p), i, s) = Known(q, i, s) /\ Ahead(Append(q, p), i, s) = Ahead(q, i, s)
<1> DEFINE r == Append(q, p)
<1>1. \A k \in 1..(i - 1) : r[k] = q[k]
  BY AppendProperties
<1> HIDE DEF r
<1>2. Ahead(r, i, s) = Ahead(q, i, s) /\ Ahead(q, i, s) \subseteq 1..(i - 1)
  BY <1>1 DEF Ahead
<1>3. Known(r, i, s) = Known(q, i, s)
  BY <1>1, <1>2 DEF Known
<1> QED  BY <1>2, <1>3 DEF r

\* What is known once item p is there, as the n-th of r.
Tells(q, r, n, p, s) ==
  /\ p.source_id # s => Ahead(r, n + 1, s) = Ahead(q, n, s) /\ Known(r, n + 1, s) = Known(q, n, s)
  /\ p.source_id = s => Ahead(r, n + 1, s) = Ahead(q, n, s) \cup {n}
  /\ p.source_id = s /\ (p.heartbeat \/ Ahead(q, n, s) = {})
        => Known(r, n + 1, s) = Known(q, n, s) \cup {p.timestamp_us}
  /\ p.source_id = s /\ ~p.heartbeat /\ Ahead(q, n, s) # {}
        => Known(r, n + 1, s) = Known(q, n, s)

LEMMA KnownAfter ==
  ASSUME NEW q, NEW r, NEW n \in Nat \ {0}, NEW p, NEW s, r[n] = p, \A k \in 1..(n - 1) : r[k] = q[k]
  PROVE  Tells(q, r, n, p, s)
<1> DEFINE A == Ahead(q, n, s)
           B == Ahead(r, n + 1, s)
<1>1. (n + 1) - 1 = n
  OBVIOUS
<1>2. A = {k \in 1..(n - 1) : q[k].source_id = s} /\ B = {k \in 1..n : r[k].source_id = s}
  BY <1>1 DEF Ahead
<1>3. 1..n = 1..(n - 1) \cup {n} /\ n \notin 1..(n - 1)
  OBVIOUS
<1>4. B = IF p.source_id = s THEN A \cup {n} ELSE A
  BY <1>1, <1>2, <1>3
<1>5. \A k \in A : k <= n /\ k # n /\ ~(n <= k) /\ r[k] = q[k]
  BY <1>1, <1>2, <1>3
<1>6. /\ Known(q, n, s) = {q[k].timestamp_us : k \in {x \in A : q[x].heartbeat \/ \A m \in A : x <= m}}
      /\ Known(r, n + 1, s) = {r[k].timestamp_us : k \in {x \in B : r[x].heartbeat \/ \A m \in B : x <= m}}
  BY DEF Known
<1> HIDE DEF A, B
<1>7. CASE p.source_id # s
  <2>1. B = A
    BY <1>4, <1>7
  <2>2. Known(r, n + 1, s) = Known(q, n, s)
    BY <1>5, <1>6, <2>1
  <2> QED  BY <1>1, <1>4, <1>7, <2>2 DEF A, B, Tells
<1>8. CASE p.source_id = s /\ (p.heartbeat \/ A = {})
  <2>1. B = A \cup {n}
    BY <1>4, <1>8
  <2> DEFINE X == {x \in A : q[x].heartbeat \/ \A m \in A : x <= m}
             Y == {x \in B : r[x].heartbeat \/ \A m \in B : x <= m}
  <2>2. n <= n
    BY <1>1
  <2>3. Y = X \cup {n}
    BY <1>1, <1>5, <1>8, <2>1, <2>2
  <2> HIDE DEF X, Y
  <2>4. X \subseteq A
    BY DEF X
  <2>5. {r[k].timestamp_us : k \in Y} = {q[k].timestamp_us : k \in X} \cup {p.timestamp_us}
    BY <1>1, <1>5, <2>3, <2>4
  <2>6. Known(r, n + 1, s) = Known(q, n, s) \cup {p.timestamp_us}
    BY <1>6, <2>5 DEF X, Y
  <2> QED  BY <1>1, <1>4, <1>8, <2>6 DEF A, B, Tells
<1>9. CASE p.source_id = s /\ ~p.heartbeat /\ A # {}
  <2>1. B = A \cup {n}
    BY <1>4, <1>9
  <2> DEFINE X == {x \in A : q[x].heartbeat \/ \A m \in A : x <= m}
             Y == {x \in B : r[x].heartbeat \/ \A m \in B : x <= m}
  <2>3. Y = X
    BY <1>1, <1>5, <1>9, <2>1
  <2> HIDE DEF X, Y
  <2>4. X \subseteq A
    BY DEF X
  <2>5. {r[k].timestamp_us : k \in Y} = {q[k].timestamp_us : k \in X}
    BY <1>5, <2>3, <2>4
  <2>6. Known(r, n + 1, s) = Known(q, n, s)
    BY <1>6, <2>5 DEF X, Y
  <2> QED  BY <1>1, <1>4, <1>9, <2>6 DEF A, B, Tells
<1> QED  BY <1>7, <1>8, <1>9

\* An item is sent when it fits the slot, which then follows it.
Fitting(p, t) ==
  IF p.heartbeat THEN t <= p.timestamp_us
  ELSE t # 0 => t <= p.timestamp_us /\ p.timestamp_us - t < Interval

Following(p, t) == IF p.heartbeat \/ t = 0 THEN p.timestamp_us ELSE t

LEMMA SentMore ==
  ASSUME NEW q, NEW slot, GoodSent(q, slot), NEW p \in Packets, Fitting(p, slot[p.source_id])
  PROVE  GoodSent(Append(q, p), [slot EXCEPT ![p.source_id] = Following(p, slot[p.source_id])])
<1> DEFINE s == p.source_id
           r == Append(q, p)
           n == Len(q) + 1
           t == slot[s]
           sl == [slot EXCEPT ![s] = Following(p, t)]
<1>a. q \in Seq(Packets) /\ slot \in [Nat -> Nat]
  BY DEF GoodSent
<1>b. Len(q) \in Nat /\ DOMAIN q = 1..Len(q) /\ n \in Nat
  BY <1>a, LenProperties
<1>c. s \in Nat /\ p.timestamp_us \in Nat /\ p.timestamp_us # 0
  BY PacketFacts
<1>d. t \in Nat
  BY <1>a, <1>c
<1>1. r \in Seq(Packets) /\ Len(r) = n /\ r[n] = p /\ (\A k \in 1..Len(q) : r[k] = q[k]) /\ DOMAIN r = 1..n
  BY <1>a, <1>b, <1>c, <1>d, AppendProperties, LenProperties
<1>2. Following(p, t) \in Nat /\ Following(p, t) # 0 /\ sl \in [Nat -> Nat] /\ sl[s] = Following(p, t)
      /\ \A u \in Nat \ {s} : sl[u] = slot[u]
  BY <1>a, <1>b, <1>c, <1>d DEF Following
<1>3. SlotIs(q, s, t) /\ (t # 0 => t \in Known(q, n, s) /\ \A x \in Known(q, n, s) : x <= t)
      /\ (t = 0 => Ahead(q, n, s) = {})
  BY <1>a, <1>b, <1>c, <1>d DEF GoodSent, SlotIs
<1>4. t = 0 => Known(q, n, s) = {}
  BY <1>3 DEF Known
<1>5. Known(q, n, s) \subseteq Nat /\ Ahead(q, n, s) \subseteq 1..Len(q)
  <2>1. Ahead(q, n, s) \subseteq 1..Len(q)
    BY <1>a, <1>b, <1>c, <1>d DEF Ahead
  <2>2. \A k \in Ahead(q, n, s) : q[k].timestamp_us \in Nat
    BY <1>a, <1>b, <1>c, <1>d, <2>1, PacketFacts, ElementOfSeq
  <2> QED  BY <2>1, <2>2 DEF Known
<1>6. /\ Ahead(r, n + 1, s) = Ahead(q, n, s) \cup {n}
      /\ p.heartbeat \/ Ahead(q, n, s) = {} => Known(r, n + 1, s) = Known(q, n, s) \cup {p.timestamp_us}
      /\ ~p.heartbeat /\ Ahead(q, n, s) # {} => Known(r, n + 1, s) = Known(q, n, s)
  <2> HIDE DEF r, n, s
  <2>1. n \in Nat \ {0} /\ n - 1 = Len(q) /\ p.source_id = s
    BY <1>b DEF n, s
  <2>2. \A k \in 1..(n - 1) : r[k] = q[k]
    BY <1>1, <2>1
  <2>3. r[n] = p
    BY <1>1
  <2>4. Tells(q, r, n, p, s)
    BY ONLY <2>1, <2>2, <2>3, KnownAfter
  <2> QED  BY <2>1, <2>4 DEF Tells
<1>7. ASSUME NEW u \in Nat, u # s PROVE SlotIs(r, u, sl[u])
  <2>1. Ahead(r, n + 1, u) = Ahead(q, n, u) /\ Known(r, n + 1, u) = Known(q, n, u)
    <3> HIDE DEF r, n, s
    <3>1. n \in Nat \ {0} /\ n - 1 = Len(q) /\ p.source_id # u
      BY <1>b, <1>7 DEF n, s
    <3>2. \A k \in 1..(n - 1) : r[k] = q[k]
      BY <1>1, <3>1
    <3>3. r[n] = p
      BY <1>1
    <3>4. Tells(q, r, n, p, u)
      BY ONLY <3>1, <3>2, <3>3, KnownAfter
    <3> QED  BY <3>1, <3>4 DEF Tells
  <2>2. SlotIs(q, u, slot[u])
    BY DEF GoodSent
  <2>3. sl[u] = slot[u]
    BY <1>2, <1>7
  <2> QED  BY <1>1, <2>1, <2>2, <2>3 DEF SlotIs
<1>8. SlotIs(r, s, sl[s])
  <2>1. CASE p.heartbeat
    <3>1. sl[s] = p.timestamp_us /\ t <= p.timestamp_us
      BY <1>2, <2>1 DEF Following, Fitting
    <3>2. Known(r, n + 1, s) = Known(q, n, s) \cup {p.timestamp_us}
      BY <1>6, <2>1
    <3>3. \A x \in Known(q, n, s) : x <= p.timestamp_us
      <4> HIDE DEF t, n, s
      <4>1. CASE t = 0
        BY <1>4, <4>1
      <4>2. CASE t # 0
        BY <1>c, <1>d, <1>3, <1>5, <3>1, <4>2
      <4> QED  BY <4>1, <4>2
    <3>4. p.timestamp_us <= p.timestamp_us
      BY <1>c
    <3> HIDE DEF r, n, sl, t, s
    <3> QED  BY <1>a, <1>b, <1>c, <1>d, <1>1, <3>1, <3>2, <3>3, <3>4 DEF SlotIs
  <2>2. CASE ~p.heartbeat /\ t = 0
    <3>1. sl[s] = p.timestamp_us /\ Known(r, n + 1, s) = {p.timestamp_us}
      BY <1>2, <1>3, <1>4, <1>6, <2>2 DEF Following
    <3>4. p.timestamp_us <= p.timestamp_us
      BY <1>c
    <3> HIDE DEF r, n, sl, t, s
    <3> QED  BY <1>a, <1>b, <1>c, <1>d, <1>1, <3>1, <3>4 DEF SlotIs
  <2>3. CASE ~p.heartbeat /\ t # 0
    <3>1. sl[s] = t
      BY <1>2, <2>3 DEF Following
    <3>2. Ahead(q, n, s) # {}
      BY <1>3, <2>3 DEF Known
    <3>3. Known(r, n + 1, s) = Known(q, n, s)
      BY <1>6, <2>3, <3>2
    <3> HIDE DEF r, n, sl, t, s
    <3> QED  BY <1>1, <1>3, <2>3, <3>1, <3>3 DEF SlotIs
  <2> QED  BY <2>1, <2>2, <2>3
<1>9. ASSUME NEW i \in DOMAIN r PROVE Fresh(r, i)
  <2>1. Known(r, i, r[i].source_id) = Known(q, i, r[i].source_id)
    BY <1>a, <1>b, <1>c, <1>d, <1>1, KnownAppend
  <2>2. CASE i # n
    <3>1. i \in DOMAIN q /\ r[i] = q[i]
      <4> HIDE DEF r
      <4>1. i \in 1..Len(q)
        BY <1>a, <1>b, <1>c, <1>d, <1>1, <2>2
      <4> QED  BY <1>a, <1>b, <1>c, <1>d, <1>1, <4>1
    <3>2. Fresh(q, i)
      BY <3>1 DEF GoodSent
    <3> HIDE DEF r
    <3> QED  BY <2>1, <3>1, <3>2 DEF Fresh
  <2>3. CASE i = n
    <3>1. SUFFICES ASSUME ~p.heartbeat, Known(q, n, s) # {} PROVE p.timestamp_us - Max(Known(q, n, s)) < Interval
      <4> HIDE DEF r, n
      <4> QED  BY <1>1, <2>1, <2>3 DEF Fresh
    <3>2. t # 0 /\ p.timestamp_us - t < Interval
      BY <1>4, <3>1 DEF Fitting
    <3>3. Max(Known(q, n, s)) = t
      BY <1>3, <1>5, <3>2, MaxIs
    <3> QED  BY <3>2, <3>3
  <2> QED  BY <2>2, <2>3
<1>10. Ordered(r)
  <2> SUFFICES ASSUME NEW i \in DOMAIN r, NEW j \in DOMAIN r, i < j, r[i].heartbeat,
                      r[j].source_id = r[i].source_id
               PROVE  r[i].timestamp_us <= r[j].timestamp_us
    BY DEF Ordered
  <2>1. i \in 1..Len(q) /\ r[i] = q[i]
    BY <1>a, <1>b, <1>c, <1>d, <1>1
  <2>2. CASE j # n
    <3>1. j \in 1..Len(q) /\ r[j] = q[j]
      BY <1>a, <1>b, <1>c, <1>d, <1>1, <2>2
    <3> HIDE DEF r
    <3> QED  BY <1>a, <1>b, <1>c, <1>d, <2>1, <3>1 DEF GoodSent, Ordered
  <2>3. CASE j = n
    <3>1. r[j] = p /\ q[i].heartbeat /\ q[i].source_id = s
      BY <1>1, <2>1, <2>3
    <3>2. i \in Ahead(q, n, s)
      BY <1>a, <1>b, <1>c, <1>d, <2>1, <3>1 DEF Ahead
    <3>3. q[i].timestamp_us \in Known(q, n, s)
      BY <3>1, <3>2 DEF Known
    <3>4. t # 0 /\ q[i].timestamp_us <= t
      BY <1>3, <1>4, <3>3
    <3>5. t <= p.timestamp_us
      BY <3>4 DEF Fitting
    <3>6. q[i].timestamp_us \in Nat
      BY <1>5, <3>3
    <3> HIDE DEF r, t
    <3>7. q[i].timestamp_us <= p.timestamp_us
      BY <1>c, <1>d, <3>4, <3>5, <3>6
    <3> QED  BY <2>1, <3>1, <3>7
  <2> QED  BY <2>2, <2>3
<1> HIDE DEF r, sl
<1>11. GoodSent(r, sl)
  BY <1>1, <1>2, <1>7, <1>8, <1>9, <1>10 DEF GoodSent
<1> QED  BY <1>11 DEF r, sl

-----------------------------------------------------------------------------
(* RoutingSender and FlowDispatcher: what the workers are given.            *)

\* The channels of the workers hold items of q that their dispatchers have
\* reached, and keep the order of each source.
Delivered(q, g, d) ==
  /\ g \in [Workers -> Seq(Packets)]
  /\ d \in [Dispatchers -> Nat]
  /\ \A w \in Workers : \A x \in DOMAIN g[w] :
       \E k \in DOMAIN q : k <= d[Route[q[k].source_id]] /\ g[w][x] = q[k]
  /\ \A w \in Workers : Ordered(g[w])

Extends(q, r) == DOMAIN q \subseteq DOMAIN r /\ \A k \in DOMAIN q : r[k] = q[k]

LEMMA ExtendsMore ==
  ASSUME NEW q \in Seq(Packets), NEW p \in Packets
  PROVE  Extends(q, Append(q, p))
  BY AppendProperties, LenProperties DEF Extends

LEMMA DeliveredMore ==
  ASSUME NEW q, NEW r, NEW g, NEW d, Delivered(q, g, d), Extends(q, r)
  PROVE  Delivered(r, g, d)
<1>1. ASSUME NEW w \in Workers, NEW x \in DOMAIN g[w]
      PROVE  \E k \in DOMAIN r : k <= d[Route[r[k].source_id]] /\ g[w][x] = r[k]
  <2>1. PICK k \in DOMAIN q : k <= d[Route[q[k].source_id]] /\ g[w][x] = q[k]
    BY DEF Delivered
  <2>2. k \in DOMAIN r /\ r[k] = q[k]
    BY DEF Extends
  <2> QED  BY <2>1, <2>2
<1> QED  BY <1>1 DEF Delivered

\* One more item in the channel of worker w.
LEMMA ChannelMore ==
  ASSUME NEW q \in Seq(Packets), Ordered(q), NEW g, NEW d, Delivered(q, g, d),
         NEW w \in Workers, NEW n \in Dispatchers, NEW i \in DOMAIN q, i > d[n], Route[q[i].source_id] = n
  PROVE  LET c == Append(g[w], q[i])
         IN  /\ c \in Seq(Packets) /\ Ordered(c)
             /\ \A x \in DOMAIN c : \E k \in DOMAIN q : (k <= d[Route[q[k].source_id]] \/ k = i) /\ c[x] = q[k]
<1> DEFINE h == g[w]
           c == Append(h, q[i])
           m == Len(h) + 1
<1>1. h \in Seq(Packets) /\ q[i] \in Packets /\ i \in Nat /\ DOMAIN q = 1..Len(q) /\ d[n] \in Nat
  BY LenProperties, ElementOfSeq DEF Delivered
<1>2. Len(h) \in Nat /\ DOMAIN h = 1..Len(h) /\ m \in Nat
  BY <1>1, LenProperties
<1>3. c \in Seq(Packets) /\ Len(c) = m /\ c[m] = q[i] /\ DOMAIN c = 1..m /\ \A k \in 1..Len(h) : c[k] = h[k]
  BY <1>1, <1>2, AppendProperties, LenProperties
<1>4. \A x \in 1..Len(h) : \E k \in DOMAIN q : k <= d[Route[q[k].source_id]] /\ h[x] = q[k]
  BY <1>2 DEF Delivered
<1>5. Ordered(h)
  BY DEF Delivered
<1> HIDE DEF h, c, m
<1>6. ASSUME NEW x \in DOMAIN c
      PROVE  \E k \in DOMAIN q : (k <= d[Route[q[k].source_id]] \/ k = i) /\ c[x] = q[k]
  <2>1. CASE x = m
    BY <1>3, <2>1
  <2>2. CASE x # m
    <3>1. x \in 1..Len(h)
      BY <1>2, <1>3, <2>2 DEF m
    <3> QED  BY <1>3, <1>4, <3>1
  <2> QED  BY <2>1, <2>2
<1>7. Ordered(c)
  <2> SUFFICES ASSUME NEW x \in DOMAIN c, NEW y \in DOMAIN c, x < y, c[x].heartbeat,
                      c[y].source_id = c[x].source_id
               PROVE  c[x].timestamp_us <= c[y].timestamp_us
    BY DEF Ordered
  <2>1. x \in 1..Len(h) /\ c[x] = h[x]
    <3>1. x \in 1..Len(h)
      BY <1>2, <1>3 DEF m
    <3> QED  BY <1>3, <3>1
  <2>2. CASE y # m
    <3>1. y \in 1..Len(h)
      BY <1>2, <1>3, <2>2 DEF m
    <3>2. c[y] = h[y]
      BY <1>3, <3>1
    <3> QED  BY <1>2, <1>5, <2>1, <3>1, <3>2 DEF Ordered
  <2>3. CASE y = m
    <3>1. PICK k \in DOMAIN q : k <= d[Route[q[k].source_id]] /\ h[x] = q[k]
      BY <1>4, <2>1
    <3>2. c[y] = q[i] /\ q[i].source_id = q[k].source_id /\ q[k].heartbeat
      BY <1>3, <2>1, <2>3, <3>1
    <3>3. k <= d[n]
      BY <3>1, <3>2
    <3>4. k < i
      BY <1>1, <3>3
    <3>5. q[k].timestamp_us <= q[i].timestamp_us
      BY <3>2, <3>4 DEF Ordered
    <3> QED  BY <2>1, <3>1, <3>2, <3>5
  <2> QED  BY <2>2, <2>3
<1> QED  BY <1>3, <1>6, <1>7 DEF c, h

LEMMA ServeStep ==
  ASSUME sent \in Seq(Packets), Ordered(sent), Delivered(sent, got, dispatched), Serve
  PROVE  Delivered(sent, got', dispatched')
<1>1. CASE \E w \in Workers : Take(w)
  BY <1>1 DEF Take
<1>2. ASSUME NEW n \in Dispatchers, Dispatch(n) PROVE Delivered(sent, got', dispatched')
  <2>1. PICK i \in Queued(n) : Dispatched(sent[i]) /\ dispatched' = [dispatched EXCEPT ![n] = i]
    BY <1>2 DEF Dispatch
  <2>2. i \in DOMAIN sent /\ i > dispatched[n] /\ Route[sent[i].source_id] = n /\ i \in Nat
    <3>1. DOMAIN sent = 1..Len(sent)
      BY LenProperties
    <3> QED  BY <3>1 DEF Queued
  <2>3. PICK q, g, d, e, f : q = sent /\ g = got /\ d = dispatched /\ e = got' /\ f = dispatched'
    OBVIOUS
  <2>4. /\ q \in Seq(Packets) /\ Ordered(q) /\ Delivered(q, g, d) /\ i \in DOMAIN q /\ i > d[n] /\ i \in Nat
        /\ Route[q[i].source_id] = n /\ f = [d EXCEPT ![n] = i]
    BY <2>1, <2>2, <2>3
  <2>5. f \in [Dispatchers -> Nat] /\ f[n] = i /\ (\A m \in Dispatchers : d[m] <= f[m])
        /\ \A m : d[m] = f[m] \/ m = n
    <3>1. d \in [Dispatchers -> Nat]
      BY <2>4 DEF Delivered
    <3> QED  BY <2>4, <3>1
  <2>6. ASSUME NEW k \in DOMAIN q, k <= d[Route[q[k].source_id]] \/ k = i PROVE k <= f[Route[q[k].source_id]]
    <3>1. k \in Nat
      <4>1. DOMAIN q = 1..Len(q)
        BY <2>4, LenProperties
      <4> QED  BY <4>1
    <3>2. CASE k = i
      BY <2>4, <2>5, <3>1, <3>2
    <3>3. CASE k # i /\ Route[q[k].source_id] = n
      <4>1. k <= d[n] /\ d[n] \in Nat
        BY <2>4, <2>6, <3>3 DEF Delivered
      <4> QED  BY <2>4, <2>5, <3>1, <3>3, <4>1
    <3>4. CASE k # i /\ Route[q[k].source_id] # n
      BY <2>5, <2>6, <3>4
    <3> QED  BY <3>2, <3>3, <3>4
  <2>7. /\ e \in [Workers -> Seq(Packets)]
        /\ \A w \in Workers : e[w] = g[w] \/ e[w] = Append(g[w], q[i])
    <3>0. g \in [Workers -> Seq(Packets)] /\ q[i] \in Packets
      BY <2>4, ElementOfSeq, LenProperties DEF Delivered
    <3>1. CASE \E v : e = [g EXCEPT ![v] = Append(@, q[i])]
      <4>1. PICK v : e = [g EXCEPT ![v] = Append(@, q[i])]
        BY <3>1
      <4>2. \A w \in Workers : Append(g[w], q[i]) \in Seq(Packets)
        BY <3>0, AppendProperties
      <4> QED  BY <3>0, <4>1, <4>2
    <3>2. CASE e = [v \in Workers |-> IF Free(v) THEN Append(g[v], q[i]) ELSE g[v]]
      <4>2. \A w \in Workers : Append(g[w], q[i]) \in Seq(Packets)
        BY <3>0, AppendProperties
      <4> QED  BY <3>0, <3>2, <4>2
    <3>3. CASE e = g
      BY <3>0, <3>3
    <3> QED  BY <2>1, <2>3, <3>1, <3>2, <3>3 DEF Dispatched
  <2>8. ASSUME NEW w \in Workers
        PROVE  /\ Ordered(e[w])
               /\ \A x \in DOMAIN e[w] : \E k \in DOMAIN q : k <= f[Route[q[k].source_id]] /\ e[w][x] = q[k]
    <3>1. CASE e[w] = g[w]
      <4>1. Ordered(g[w]) /\ \A x \in DOMAIN g[w] : \E k \in DOMAIN q :
              k <= d[Route[q[k].source_id]] /\ g[w][x] = q[k]
        BY <2>4 DEF Delivered
      <4> QED  BY <2>6, <3>1, <4>1
    <3>2. CASE e[w] = Append(g[w], q[i])
      <4>1. Ordered(e[w]) /\ \A x \in DOMAIN e[w] : \E k \in DOMAIN q :
              (k <= d[Route[q[k].source_id]] \/ k = i) /\ e[w][x] = q[k]
        BY <2>4, <3>2, ChannelMore
      <4> QED  BY <2>6, <4>1
    <3> QED  BY <2>7, <3>1, <3>2
  <2>9. Delivered(q, e, f)
    BY <2>5, <2>7, <2>8 DEF Delivered
  <2> QED  BY <2>3, <2>9
<1> QED  BY <1>1, <1>2 DEF Serve
-----------------------------------------------------------------------------
(* Live capture.                                                            *)

\* The record keeps its fields.
LiveShape(v) ==
  v = [pc |-> v.pc, ring |-> v.ring, arrived |-> v.arrived, last_hb_ts |-> v.last_hb_ts, idle_at |-> v.idle_at,
       breakloop |-> v.breakloop, waker |-> v.waker, handle |-> v.handle]

\* The ring holds packets of the interface in the order of their stamps, none
\* before the newest heartbeat nor after the clock.
RingOk(ring, last, w) ==
  /\ ring \in Seq(Packets)
  /\ \A k \in DOMAIN ring : /\ ring[k].source_id = LiveId /\ ~ring[k].heartbeat
                            /\ last <= ring[k].timestamp_us /\ ring[k].timestamp_us <= w
  /\ \A j, k \in DOMAIN ring : j < k => ring[j].timestamp_us <= ring[k].timestamp_us

\* After a timeout the clock has moved on by no more than the delay, and what
\* the ring holds came after it.
IdleOk(v, w) ==
  v.pc = "timeout" => /\ v.idle_at <= w /\ w - v.idle_at <= MaxPreempt
                      /\ \A k \in DOMAIN v.ring : v.idle_at <= v.ring[k].timestamp_us

LiveOk(v, w) ==
  /\ LiveShape(v)
  /\ v.last_hb_ts \in Nat /\ v.idle_at \in Nat /\ w \in Nat \ {0} /\ v.last_hb_ts <= w
  /\ RingOk(v.ring, v.last_hb_ts, w)
  /\ IdleOk(v, w)

LiveSlot(t) == [s \in Nat |-> IF s = LiveId THEN t ELSE 0]

LiveInv ==
  /\ LiveOk(live, wall)
  /\ GoodSent(sent, LiveSlot(live.last_hb_ts))
  /\ Delivered(sent, got, dispatched)

\* The steps that only move the reader or the waker.
LEMMA QuietStep ==
  ASSUME NEW v, NEW u, NEW w, LiveOk(v, w), LiveShape(u), u.ring = v.ring, u.last_hb_ts = v.last_hb_ts,
         \/ u.idle_at = v.idle_at /\ (u.pc = "timeout" => v.pc = "timeout")
         \/ u.idle_at = w /\ v.ring = <<>>
  PROVE  LiveOk(u, w)
<1>1. u.idle_at \in Nat
  BY DEF LiveOk
<1>2. IdleOk(u, w)
  <2>1. CASE u.idle_at = v.idle_at /\ (u.pc = "timeout" => v.pc = "timeout")
    BY <2>1 DEF LiveOk, IdleOk
  <2>2. CASE u.idle_at = w /\ v.ring = <<>>
    <3>1. w <= w /\ w - w <= MaxPreempt
      BY SourceAssumption DEF LiveOk
    <3>2. DOMAIN u.ring = {}
      BY <2>2
    <3> QED  BY <2>2, <3>1, <3>2 DEF IdleOk
  <2> QED  BY <2>1, <2>2
<1> QED  BY <1>1, <1>2 DEF LiveOk

LEMMA RawIsPacket ==
  ASSUME NEW s \in Nat, NEW ts \in Nat, ts # 0, NEW a \in {"a", "b", None}, NEW b \in {"a", "b", None}
  PROVE  /\ Raw(s, ts, a, b) \in Packets /\ Raw(s, ts, a, b).source_id = s
         /\ Raw(s, ts, a, b).timestamp_us = ts /\ ~Raw(s, ts, a, b).heartbeat
<1>1. Raw(s, ts, a, b) \in Packets
  BY DEF Raw, Packets
<1>2. ~Raw(s, ts, a, b).heartbeat /\ Raw(s, ts, a, b).source_id = s /\ Raw(s, ts, a, b).timestamp_us = ts
  BY DEF Raw
<1> QED  BY <1>1, <1>2

LEMMA HeartbeatIsPacket ==
  ASSUME NEW s \in Nat, NEW ts \in Nat, ts # 0
  PROVE  /\ Heartbeat(s, ts) \in Packets /\ Heartbeat(s, ts).source_id = s
         /\ Heartbeat(s, ts).timestamp_us = ts /\ Heartbeat(s, ts).heartbeat
<1>1. Heartbeat(s, ts) =
        [source_id |-> s, timestamp_us |-> ts, link_type |-> 1, src |-> None, dst |-> None, heartbeat |-> TRUE]
  <2>1. ASSUME NEW T PROVE
          [[source_id |-> s, timestamp_us |-> ts, link_type |-> 1, src |-> None, dst |-> None, heartbeat |-> FALSE]
             EXCEPT !.heartbeat = T] =
          [source_id |-> s, timestamp_us |-> ts, link_type |-> 1, src |-> None, dst |-> None, heartbeat |-> T]
    OBVIOUS
  <2> QED  BY <2>1, Zenon DEF Heartbeat, Raw
<1> QED  BY <1>1 DEF Packets

LEMMA ArriveStep ==
  ASSUME NEW v, NEW u, NEW w, LiveOk(v, w), NEW p \in Packets, p.source_id = LiveId, ~p.heartbeat,
         p.timestamp_us = w,
         u = [v EXCEPT !.arrived = @ + 1, !.ring = Append(@, p)]
  PROVE  LiveOk(u, w) /\ u.last_hb_ts = v.last_hb_ts
<1> DEFINE ring == Append(v.ring, p)
           n == Len(v.ring) + 1
<1>1. LiveShape(u) /\ u.ring = ring /\ u.last_hb_ts = v.last_hb_ts /\ u.idle_at = v.idle_at /\ u.pc = v.pc
  BY DEF LiveOk, LiveShape
<1>2. v.ring \in Seq(Packets) /\ Len(v.ring) \in Nat /\ DOMAIN v.ring = 1..Len(v.ring)
  BY LenProperties DEF LiveOk, RingOk
<1>3. /\ ring \in Seq(Packets) /\ DOMAIN ring = 1..n /\ ring[n] = p /\ \A k \in 1..Len(v.ring) : ring[k] = v.ring[k]
  BY <1>2, AppendProperties, LenProperties
<1> HIDE DEF ring
<1>4. \A k \in DOMAIN ring : k = n \/ (k \in DOMAIN v.ring /\ ring[k] = v.ring[k])
  BY <1>2, <1>3
<1>5. v.last_hb_ts \in Nat /\ w \in Nat /\ v.last_hb_ts <= w /\ w <= w
  BY DEF LiveOk
<1>6. \A k \in DOMAIN ring : /\ ring[k].source_id = LiveId /\ ~ring[k].heartbeat
                             /\ v.last_hb_ts <= ring[k].timestamp_us /\ ring[k].timestamp_us <= w
  BY <1>3, <1>4, <1>5 DEF LiveOk, RingOk
<1>7. ASSUME NEW j \in DOMAIN ring, NEW k \in DOMAIN ring, j < k
      PROVE  ring[j].timestamp_us <= ring[k].timestamp_us
  <2>1. j # n
    BY <1>2, <1>3, <1>7
  <2>2. CASE k = n
    BY <1>3, <1>6, <2>2
  <2>3. CASE k # n
    BY <1>4, <1>7, <2>1, <2>3 DEF LiveOk, RingOk
  <2> QED  BY <2>2, <2>3
<1>8. RingOk(ring, v.last_hb_ts, w)
  BY <1>3, <1>6, <1>7 DEF RingOk
<1>9. IdleOk(u, w)
  <2> SUFFICES ASSUME v.pc = "timeout", NEW k \in DOMAIN ring PROVE v.idle_at <= ring[k].timestamp_us
    BY <1>1 DEF LiveOk, IdleOk
  <2> QED  BY <1>3, <1>4 DEF LiveOk, IdleOk
<1> QED  BY <1>1, <1>5, <1>8, <1>9 DEF LiveOk

\* Taking the first packet: the ring that stays, with the slot it leaves.
LEMMA TakeStep ==
  ASSUME NEW v, NEW u, NEW w, LiveOk(v, w), v.ring # <<>>, LiveShape(u), u.ring = Tail(v.ring),
         u.idle_at = v.idle_at, u.pc # "timeout",
         u.last_hb_ts \in {v.last_hb_ts, Head(v.ring).timestamp_us}
  PROVE  LiveOk(u, w)
<1> DEFINE ring == Tail(v.ring)
           p == Head(v.ring)
<1>1. v.ring \in Seq(Packets) /\ Len(v.ring) \in Nat /\ DOMAIN v.ring = 1..Len(v.ring) /\ p = v.ring[1]
  BY LenProperties DEF LiveOk, RingOk
<1>2. Len(v.ring) >= 1
  BY <1>1, EmptySeq
<1>3. /\ ring \in Seq(Packets) /\ DOMAIN ring = 1..(Len(v.ring) - 1)
      /\ \A k \in 1..(Len(v.ring) - 1) : ring[k] = v.ring[k + 1]
  BY <1>1, <1>2, HeadTailProperties, LenProperties
<1> HIDE DEF ring, p
<1>4. \A k \in DOMAIN ring : k + 1 \in DOMAIN v.ring /\ 1 < k + 1 /\ ring[k] = v.ring[k + 1]
  BY <1>1, <1>2, <1>3
<1>5. 1 \in DOMAIN v.ring
  BY <1>1, <1>2
<1>6. /\ v.last_hb_ts \in Nat /\ w \in Nat /\ v.last_hb_ts <= w
      /\ p.timestamp_us \in Nat /\ p.timestamp_us <= w
  BY <1>1, <1>5, PacketFacts, ElementOfSeq DEF LiveOk, RingOk
<1>7. u.last_hb_ts \in Nat /\ u.last_hb_ts <= w
  BY <1>6 DEF p
<1>8. ASSUME NEW k \in DOMAIN ring
      PROVE  /\ ring[k].source_id = LiveId /\ ~ring[k].heartbeat
             /\ u.last_hb_ts <= ring[k].timestamp_us /\ ring[k].timestamp_us <= w
  <2>1. v.ring[1].timestamp_us <= v.ring[k + 1].timestamp_us
    BY <1>4, <1>5 DEF LiveOk, RingOk
  <2> QED  BY <1>1, <1>4, <2>1 DEF LiveOk, RingOk, p
<1>9. ASSUME NEW j \in DOMAIN ring, NEW k \in DOMAIN ring, j < k
      PROVE  ring[j].timestamp_us <= ring[k].timestamp_us
  <2>1. j + 1 < k + 1
    BY <1>1, <1>3, <1>9
  <2> QED  BY <1>4, <2>1 DEF LiveOk, RingOk
<1>10. RingOk(ring, u.last_hb_ts, w)
  BY <1>3, <1>8, <1>9 DEF RingOk
<1> QED  BY <1>6, <1>7, <1>10 DEF LiveOk, IdleOk, ring
\* A heartbeat that is due goes ahead of the packet; the slot moves to it, or to
\* the source's first packet.
LEMMA SentTwo ==
  ASSUME NEW q, NEW slot, GoodSent(q, slot), NEW p \in Packets, NEW due \in BOOLEAN, ~p.heartbeat,
         LET t == slot[p.source_id]
         IN  /\ due <=> t # 0 /\ p.timestamp_us - t >= Interval
             /\ t <= p.timestamp_us
  PROVE  LET t == slot[p.source_id]
             hb == IF due THEN <<Heartbeat(p.source_id, p.timestamp_us)>> ELSE <<>>
         IN  /\ GoodSent(q \o hb \o <<p>>, [slot EXCEPT ![p.source_id] = IF t = 0 \/ due THEN p.timestamp_us ELSE t])
             /\ Extends(q, q \o hb \o <<p>>)
<1> DEFINE s == p.source_id
           t == slot[s]
           h == Heartbeat(s, p.timestamp_us)
           s1 == [slot EXCEPT ![s] = Following(h, t)]
<1>1. q \in Seq(Packets) /\ slot \in [Nat -> Nat] /\ s \in Nat /\ p.timestamp_us \in Nat /\ p.timestamp_us # 0
      /\ t \in Nat /\ Interval \in Nat \ {0}
  <2>1. p.timestamp_us \in Nat /\ p.timestamp_us # 0 /\ s \in Nat
    BY PacketFacts
  <2>2. q \in Seq(Packets) /\ slot \in [Nat -> Nat]
    BY DEF GoodSent
  <2>3. Interval \in Nat \ {0}
    BY SourceAssumption
  <2> QED  BY <2>1, <2>2, <2>3
<1>2. h \in Packets /\ h.source_id = s /\ h.timestamp_us = p.timestamp_us /\ h.heartbeat
  BY <1>1, HeartbeatIsPacket
<1>3. ASSUME NEW r, NEW x \in Packets, r \in Seq(Packets) PROVE r \o <<x>> = Append(r, x) /\ Extends(r, Append(r, x))
  BY <1>3, AppendProperties, AppendIsConcat, LenProperties DEF Extends
<1> HIDE DEF h
<1>4. CASE due
  <2>1. Fitting(h, t) /\ Following(h, t) = p.timestamp_us
    BY <1>1, <1>2 DEF Fitting, Following
  <2>2. GoodSent(Append(q, h), s1)
    BY <1>2, <2>1, SentMore
  <2>3. s1 \in [Nat -> Nat] /\ s1[s] = p.timestamp_us /\ s1 = [slot EXCEPT ![s] = p.timestamp_us]
    BY <1>1, <2>1
  <2> HIDE DEF s1
  <2>4. Fitting(p, s1[s]) /\ Following(p, s1[s]) = p.timestamp_us
    <3>1. p.timestamp_us <= p.timestamp_us /\ p.timestamp_us - p.timestamp_us < Interval
      <4>1. \A x \in Nat, i \in Nat \ {0} : x <= x /\ x - x < i
        OBVIOUS
      <4> QED  BY <1>1, <4>1, Zenon
    <3> QED  BY <2>3, <3>1, Zenon DEF Fitting, Following
  <2>5. GoodSent(Append(Append(q, h), p), [s1 EXCEPT ![s] = Following(p, s1[s])])
    BY <2>2, <2>4, SentMore
  <2>6. [s1 EXCEPT ![s] = Following(p, s1[s])] = [slot EXCEPT ![s] = p.timestamp_us]
    BY <1>1, <2>3, <2>4
  <2>7. q \o <<h>> \o <<p>> = Append(Append(q, h), p) /\ Append(q, h) \in Seq(Packets)
    <3>1. Append(q, h) \in Seq(Packets)
      BY <1>1, <1>2, AppendProperties
    <3>2. q \o <<h>> = Append(q, h)
      BY <1>1, <1>2, <1>3
    <3>3. Append(q, h) \o <<p>> = Append(Append(q, h), p)
      BY <1>3, <3>1
    <3> QED  BY <3>1, <3>2, <3>3
  <2>8. Extends(q, Append(Append(q, h), p))
    <3>1. Extends(q, Append(q, h)) /\ Extends(Append(q, h), Append(Append(q, h), p))
      BY <1>1, <1>2, <1>3, <2>7
    <3> QED  BY <3>1, Zenon DEF Extends
  <2> QED  BY <1>4, <2>5, <2>6, <2>7, <2>8 DEF h
<1>5. CASE ~due
  <2>1. Fitting(p, t) /\ Following(p, t) = IF t = 0 THEN p.timestamp_us ELSE t
    <3>1. t # 0 => p.timestamp_us - t < Interval
      <4>1. \A x, y \in Nat, i \in Nat \ {0} : ~(x - y >= i) => x - y < i
        OBVIOUS
      <4> QED  BY <1>1, <1>5, <4>1, Zenon
    <3> QED  BY <3>1, Zenon DEF Fitting, Following
  <2>2. GoodSent(Append(q, p), [slot EXCEPT ![s] = Following(p, t)])
    BY <2>1, SentMore
  <2>3. q \o <<>> \o <<p>> = Append(q, p)
    BY <1>1, <1>3, ConcatEmptySeq
  <2>4. Extends(q, Append(q, p))
    BY <1>1, <1>3
  <2> QED  BY <1>5, <2>1, <2>2, <2>3, <2>4
<1> QED  BY <1>4, <1>5

LEMMA LiveSlotFacts ==
  ASSUME NEW t \in Nat
  PROVE  /\ LiveSlot(t) \in [Nat -> Nat] /\ LiveSlot(t)[LiveId] = t
         /\ \A x \in Nat : [LiveSlot(t) EXCEPT ![LiveId] = x] = LiveSlot(x)
  BY SourceAssumption DEF LiveSlot

LEMMA LivePacketStep ==
  ASSUME LiveInv, LivePacket
  PROVE  LiveInv'
<1> DEFINE p == Head(live.ring)
           due == HeartbeatDue(live.last_hb_ts, p.timestamp_us)
           hb == IF due THEN <<Heartbeat(LiveId, p.timestamp_us)>> ELSE <<>>
           next == IF live.last_hb_ts = 0 \/ due THEN p.timestamp_us ELSE live.last_hb_ts
<1>1. /\ live.ring # <<>> /\ sent' = sent \o hb \o <<p>>
      /\ live' = [live EXCEPT !.pc = "loop", !.ring = Tail(@), !.last_hb_ts = IF @ = 0 \/ due THEN p.timestamp_us ELSE @]
      /\ wall' = wall /\ got' = got /\ dispatched' = dispatched
  BY DEF LivePacket, Rest
<1>2. PICK v, u, w, q, r : v = live /\ u = live' /\ w = wall /\ q = sent /\ r = sent'
  OBVIOUS
<1>3. LiveOk(v, w) /\ GoodSent(q, LiveSlot(v.last_hb_ts)) /\ v.ring # <<>>
  BY <1>1, <1>2 DEF LiveInv
<1>4. LiveShape(u) /\ u.ring = Tail(v.ring) /\ u.idle_at = v.idle_at /\ u.pc # "timeout" /\ u.last_hb_ts = next
  BY <1>1, <1>2, <1>3 DEF LiveOk, LiveShape
<1>5. LiveOk(u, w)
  BY <1>2, <1>3, <1>4, TakeStep
<1>6. p \in Packets /\ p.source_id = LiveId /\ ~p.heartbeat /\ v.last_hb_ts <= p.timestamp_us /\ v.last_hb_ts \in Nat
  <2>1. v.ring \in Seq(Packets) /\ Len(v.ring) \in Nat /\ DOMAIN v.ring = 1..Len(v.ring) /\ p = v.ring[1]
    BY <1>2, <1>3, LenProperties DEF LiveOk, RingOk
  <2>2. 1 \in DOMAIN v.ring
    BY <1>3, <2>1, EmptySeq
  <2> HIDE DEF p
  <2>3. v.ring[1] \in Packets
    BY <2>1, <2>2, ElementOfSeq
  <2> QED  BY <1>3, <2>1, <2>2, <2>3 DEF LiveOk, RingOk
<1>7. due \in BOOLEAN
  BY DEF HeartbeatDue
<1>8. GoodSent(r, LiveSlot(u.last_hb_ts)) /\ Extends(q, r)
  <2> DEFINE slot == LiveSlot(v.last_hb_ts)
  <2>1. slot[p.source_id] = v.last_hb_ts
    BY <1>6, LiveSlotFacts
  <2>2. due <=> v.last_hb_ts # 0 /\ p.timestamp_us - v.last_hb_ts >= Interval
    BY <1>2 DEF HeartbeatDue
  <2>3. p.timestamp_us \in Nat
    BY <1>6, PacketFacts
  <2>4. next \in Nat
    BY <1>2, <1>6, <2>3
  <2>5. [slot EXCEPT ![LiveId] = next] = LiveSlot(next)
    <3> HIDE DEF next
    <3> QED  BY <1>6, <2>4, LiveSlotFacts
  <2>6. r = q \o hb \o <<p>>
    BY <1>1, <1>2
  <2> HIDE DEF slot, due, p
  <2>7. /\ GoodSent(q \o hb \o <<p>>,
                    [slot EXCEPT ![p.source_id] = IF slot[p.source_id] = 0 \/ due THEN p.timestamp_us ELSE slot[p.source_id]])
        /\ Extends(q, q \o hb \o <<p>>)
    <3>1. GoodSent(q, slot)
      BY <1>3 DEF slot
    <3> QED  BY <1>6, <1>7, <2>1, <2>2, <3>1, SentTwo
  <2>8. next = IF slot[p.source_id] = 0 \/ due THEN p.timestamp_us ELSE slot[p.source_id]
    BY <1>2, <2>1
  <2> HIDE DEF next, hb
  <2> QED  BY <1>4, <1>6, <2>5, <2>6, <2>7, <2>8
<1>9. Delivered(r, got, dispatched)
  BY <1>2, <1>8, DeliveredMore DEF LiveInv
<1> QED  BY <1>1, <1>2, <1>5, <1>8, <1>9 DEF LiveInv
\* The idle heartbeat lies above the last one and no later than the timeout, so
\* before all the ring holds: the reader was late by no more than the margin.
LEMMA IdleStampIs ==
  ASSUME NEW last \in Nat, wall \in Nat, wall - last >= Interval
  PROVE  IdleStamp(last) \in Nat /\ last < IdleStamp(last) /\ IdleStamp(last) <= wall - Margin
  BY SourceAssumption DEF IdleStamp

LEMMA LiveTimeoutStep ==
  ASSUME LiveInv, LiveTimeout
  PROVE  LiveInv'
<1> DEFINE due == live.last_hb_ts > 0 /\ wall - live.last_hb_ts >= Interval
           hb_ts == IdleStamp(live.last_hb_ts)
<1>1. live.pc = "timeout" /\ wall' = wall /\ got' = got /\ dispatched' = dispatched
  BY DEF LiveTimeout, Rest
<1>2. PICK v, u, w, q, r : v = live /\ u = live' /\ w = wall /\ q = sent /\ r = sent'
  OBVIOUS
<1>3. LiveOk(v, w) /\ GoodSent(q, LiveSlot(v.last_hb_ts)) /\ Delivered(q, got, dispatched)
  BY <1>2 DEF LiveInv
<1>4. CASE u = [v EXCEPT !.pc = "exit"] /\ r = q
  <2>1. LiveShape(u) /\ u.ring = v.ring /\ u.last_hb_ts = v.last_hb_ts /\ u.idle_at = v.idle_at /\ u.pc # "timeout"
    BY <1>3, <1>4 DEF LiveOk, LiveShape
  <2>2. LiveOk(u, w)
    BY <1>3, <2>1, QuietStep
  <2> QED  BY <1>1, <1>2, <1>3, <1>4, <2>1, <2>2 DEF LiveInv
<1>5. CASE ~due /\ u = [v EXCEPT !.pc = "loop"] /\ r = q
  <2>1. LiveShape(u) /\ u.ring = v.ring /\ u.last_hb_ts = v.last_hb_ts /\ u.idle_at = v.idle_at /\ u.pc # "timeout"
    BY <1>3, <1>5 DEF LiveOk, LiveShape
  <2>2. LiveOk(u, w)
    BY <1>3, <2>1, QuietStep
  <2> QED  BY <1>1, <1>2, <1>3, <1>5, <2>1, <2>2 DEF LiveInv
<1>6. CASE due /\ u = [v EXCEPT !.pc = "loop", !.last_hb_ts = hb_ts] /\ r = Append(q, Heartbeat(LiveId, hb_ts))
  <2> DEFINE h == Heartbeat(LiveId, hb_ts)
             last == v.last_hb_ts
  <2>1. /\ LiveShape(u) /\ u.ring = v.ring /\ u.last_hb_ts = hb_ts /\ u.idle_at = v.idle_at
        /\ u.pc = "loop"
    BY <1>3, <1>6 DEF LiveOk, LiveShape
  <2>2. last \in Nat /\ wall \in Nat /\ w = wall /\ last <= w /\ v.idle_at \in Nat
    BY <1>2, <1>3 DEF LiveOk
  <2>3. hb_ts \in Nat /\ last < hb_ts /\ hb_ts <= w - Margin
    BY <1>2, <1>6, <2>2, IdleStampIs
  <2> HIDE DEF hb_ts
  <2>4. w - v.idle_at <= MaxPreempt /\ \A k \in DOMAIN v.ring : v.idle_at <= v.ring[k].timestamp_us
    BY <1>1, <1>2, <1>3 DEF LiveOk, IdleOk
  <2>5. hb_ts <= v.idle_at /\ hb_ts <= w /\ hb_ts # 0 /\ last <= hb_ts
    BY <2>2, <2>3, <2>4, SourceAssumption
  <2>6. \A k \in DOMAIN v.ring : hb_ts <= v.ring[k].timestamp_us
    <3> SUFFICES ASSUME NEW k \in DOMAIN v.ring PROVE hb_ts <= v.ring[k].timestamp_us
      OBVIOUS
    <3>1. v.ring[k].timestamp_us \in Nat
      <4>1. v.ring[k] \in Packets
        BY <1>3, ElementOfSeq, LenProperties DEF LiveOk, RingOk
      <4> QED  BY <4>1, PacketFacts
    <3> QED  BY <2>2, <2>3, <2>4, <2>5, <3>1
  <2>7. RingOk(v.ring, hb_ts, w)
    BY <1>3, <2>6 DEF LiveOk, RingOk
  <2>8. LiveOk(u, w)
    BY <1>3, <2>1, <2>3, <2>5, <2>7 DEF LiveOk, IdleOk
  <2>9. h \in Packets /\ h.source_id = LiveId /\ h.timestamp_us = hb_ts /\ h.heartbeat
    BY <2>3, <2>5, HeartbeatIsPacket, SourceAssumption
  <2> HIDE DEF h
  <2>10. Fitting(h, last) /\ Following(h, last) = hb_ts
    BY <2>5, <2>9, Zenon DEF Fitting, Following
  <2>11. LiveSlot(last)[LiveId] = last /\ [LiveSlot(last) EXCEPT ![LiveId] = hb_ts] = LiveSlot(hb_ts)
    BY <2>2, <2>3, LiveSlotFacts
  <2>12. GoodSent(Append(q, h), [LiveSlot(last) EXCEPT ![h.source_id] = Following(h, LiveSlot(last)[h.source_id])])
    BY <1>3, <2>9, <2>10, <2>11, SentMore
  <2>13. GoodSent(r, LiveSlot(u.last_hb_ts))
    BY <1>6, <2>1, <2>9, <2>10, <2>11, <2>12 DEF h
  <2>14. Extends(q, r)
    <3>1. q \in Seq(Packets)
      BY <1>3 DEF GoodSent
    <3>2. r = Append(q, h)
      BY <1>6 DEF h
    <3> QED  BY <2>9, <3>1, <3>2, AppendProperties, LenProperties DEF Extends
  <2>15. Delivered(r, got, dispatched)
    BY <1>3, <2>14, DeliveredMore
  <2> QED  BY <1>1, <1>2, <2>8, <2>13, <2>15 DEF LiveInv
<1>7. CASE cancelled \/ closed
  BY <1>2, <1>4, <1>7 DEF LiveTimeout
<1>8. CASE ~(cancelled \/ closed) /\ due
  BY <1>2, <1>6, <1>8 DEF LiveTimeout
<1>9. CASE ~(cancelled \/ closed) /\ ~due
  <2>1. /\ r = q /\ u = [v EXCEPT !.pc = "loop", !.last_hb_ts = v.last_hb_ts]
    BY <1>2, <1>9 DEF LiveTimeout
  <2>2. u = [v EXCEPT !.pc = "loop"]
    BY <1>3, <2>1 DEF LiveOk, LiveShape
  <2> QED  BY <1>5, <1>9, <2>1, <2>2
<1> QED  BY <1>7, <1>8, <1>9

\* What the steps of the reader and the waker do, other than sending.
LEMMA LiveQuietStep ==
  ASSUME LiveInv,
         LiveOpen \/ LiveCheck \/ LiveBreak \/ LiveQuiet \/ LiveReadError \/ LiveExit \/ Waker
  PROVE  LiveInv'
<1>1. PICK v, u, w : v = live /\ u = live' /\ w = wall
  OBVIOUS
<1>2. LiveOk(v, w) /\ LiveShape(v)
  BY <1>1 DEF LiveInv, LiveOk
<1>3. sent' = sent /\ wall' = wall /\ got' = got /\ dispatched' = dispatched
  BY DEF LiveOpen, LiveCheck, LiveBreak, LiveQuiet, LiveReadError, LiveExit, Waker, WakerTakesHandle, WakerActs, Rest
<1>4. /\ LiveShape(u) /\ u.ring = v.ring /\ u.last_hb_ts = v.last_hb_ts
      /\ \/ u.idle_at = v.idle_at /\ (u.pc = "timeout" => v.pc = "timeout")
         \/ u.idle_at = w /\ v.ring = <<>>
  <2>1. CASE LiveOpen
    BY <1>1, <1>2, <2>1 DEF LiveOpen, LiveShape
  <2>2. CASE LiveCheck
    BY <1>1, <1>2, <2>2 DEF LiveCheck, LiveShape
  <2>3. CASE LiveBreak
    BY <1>1, <1>2, <2>3 DEF LiveBreak, LiveShape
  <2>4. CASE LiveQuiet
    BY <1>1, <1>2, <2>4 DEF LiveQuiet, LiveShape
  <2>5. CASE LiveReadError
    BY <1>1, <1>2, <2>5 DEF LiveReadError, LiveShape
  <2>6. CASE LiveExit
    BY <1>1, <1>2, <2>6 DEF LiveExit, LiveShape
  <2>7. CASE WakerTakesHandle
    BY <1>1, <1>2, <2>7 DEF WakerTakesHandle, LiveShape
  <2>8. CASE WakerActs
    BY <1>1, <1>2, <2>8 DEF WakerActs, LiveShape
  <2> QED  BY <2>1, <2>2, <2>3, <2>4, <2>5, <2>6, <2>7, <2>8 DEF Waker
<1>5. LiveOk(u, w)
  BY <1>2, <1>4, QuietStep
<1> QED  BY <1>1, <1>3, <1>4, <1>5 DEF LiveInv

LEMMA LiveArriveStep ==
  ASSUME LiveInv, Arrive
  PROVE  LiveInv'
<1>1. PICK v, u, w : v = live /\ u = live' /\ w = wall
  OBVIOUS
<1>2. LiveOk(v, w) /\ w \in Nat /\ w # 0
  BY <1>1 DEF LiveInv, LiveOk
<1>3. PICK a \in {"a", "b", None}, b \in {"a", "b", None} :
        u = [v EXCEPT !.arrived = @ + 1, !.ring = Append(@, Raw(LiveId, w, a, b))]
  <2>1. CASE live.arrived = 1
    BY <1>1, <2>1 DEF Arrive
  <2>2. CASE live.arrived # 1
    BY <1>1, <2>2 DEF Arrive
  <2> QED  BY <2>1, <2>2
<1>4. LiveOk(u, w) /\ u.last_hb_ts = v.last_hb_ts
  <2>1. PICK p : p = Raw(LiveId, w, a, b)
    OBVIOUS
  <2>2. p \in Packets /\ p.source_id = LiveId /\ ~p.heartbeat /\ p.timestamp_us = w
    BY <1>2, <2>1, RawIsPacket, SourceAssumption
  <2> QED  BY <1>2, <1>3, <2>1, <2>2, ArriveStep
<1> QED  BY <1>1, <1>4 DEF Arrive, Rest, LiveInv

LEMMA LiveClosedStep ==
  ASSUME LiveInv, LivePacketClosed
  PROVE  LiveInv'
<1>1. PICK v, u, w : v = live /\ u = live' /\ w = wall
  OBVIOUS
<1>2. LiveOk(v, w) /\ v.ring # <<>> /\ u = [v EXCEPT !.pc = "exit", !.ring = Tail(@)]
  BY <1>1 DEF LiveInv, LivePacketClosed
<1>3. /\ LiveShape(u) /\ u.ring = Tail(v.ring) /\ u.idle_at = v.idle_at /\ u.pc # "timeout"
      /\ u.last_hb_ts = v.last_hb_ts
  BY <1>2 DEF LiveOk, LiveShape
<1>4. LiveOk(u, w)
  BY <1>2, <1>3, TakeStep
<1> QED  BY <1>1, <1>3, <1>4 DEF LivePacketClosed, Rest, LiveInv

LEMMA TickStep ==
  ASSUME LiveInv, Tick
  PROVE  LiveInv'
<1>1. PICK v, w, x : v = live /\ w = wall /\ x = wall'
  OBVIOUS
<1>2. /\ LiveOk(v, w) /\ x = w + 1 /\ (v.pc = "timeout" => w - v.idle_at < MaxPreempt)
      /\ w \in Nat /\ v.idle_at \in Nat /\ v.last_hb_ts \in Nat
  BY <1>1 DEF LiveInv, LiveOk, Tick
<1>3. live' = live /\ sent' = sent /\ got' = got /\ dispatched' = dispatched
  BY DEF Tick, sourceVars
<1>4. \A k \in DOMAIN v.ring : v.ring[k].timestamp_us \in Nat
  BY <1>2, PacketFacts, ElementOfSeq, LenProperties DEF LiveOk, RingOk
<1>5. RingOk(v.ring, v.last_hb_ts, x)
  <2>1. \A k \in DOMAIN v.ring : v.ring[k].timestamp_us <= x
    BY <1>2, <1>4 DEF LiveOk, RingOk
  <2> QED  BY <1>2, <2>1 DEF LiveOk, RingOk
<1>6. IdleOk(v, x)
  <2>1. v.pc = "timeout" => v.idle_at <= x /\ x - v.idle_at <= MaxPreempt
    BY <1>2, SourceAssumption DEF LiveOk, IdleOk
  <2> QED  BY <1>2, <2>1 DEF LiveOk, IdleOk
<1>7. x \in Nat \ {0} /\ v.last_hb_ts <= x
  BY <1>2 DEF LiveOk
<1>8. LiveOk(v, x)
  BY <1>2, <1>5, <1>6, <1>7 DEF LiveOk
<1> QED  BY <1>1, <1>3, <1>8 DEF LiveInv
-----------------------------------------------------------------------------
(* What the two sources have in common.                                     *)

LEMMA NothingSent ==
  ASSUME SourcesQuiet
  PROVE  GoodSent(sent, [s \in Nat |-> 0]) /\ Delivered(sent, got, dispatched)
<1>1. sent = <<>> /\ sent \in Seq(Packets) /\ Len(sent) = 0 /\ DOMAIN sent = {}
  BY DEF SourcesQuiet
<1>2. \A s \in Nat : Ahead(sent, Len(sent) + 1, s) = {}
  BY <1>1 DEF Ahead
<1>3. \A s \in Nat : SlotIs(sent, s, 0)
  BY <1>2 DEF SlotIs
<1>4. GoodSent(sent, [s \in Nat |-> 0])
  BY <1>1, <1>3 DEF GoodSent, Ordered
<1>5. got = [w \in Workers |-> <<>>] /\ dispatched = [d \in Dispatchers |-> 0]
  BY DEF SourcesQuiet
<1>6. got \in [Workers -> Seq(Packets)] /\ \A w \in Workers : DOMAIN got[w] = {}
  BY <1>5
<1>7. dispatched \in [Dispatchers -> Nat]
  BY <1>5
<1> QED  BY <1>4, <1>6, <1>7 DEF Delivered, Ordered

LEMMA GoodIsSound ==
  ASSUME NEW slot, GoodSent(sent, slot), Delivered(sent, got, dispatched)
  PROVE  HeartbeatsSound
<1>1. NoneEarlierAfter
  <2>1. DOMAIN got = Workers /\ \A w \in Workers : Ordered(got[w])
    BY DEF Delivered
  <2>2. \A q \in {sent} \cup Range(got) : Ordered(q)
    BY <2>1 DEF GoodSent, Range
  <2> QED  BY <2>2 DEF NoneEarlierAfter, Ordered
<1>2. NeverStale
  BY DEF GoodSent, Fresh, NeverStale
<1> QED  BY <1>1, <1>2 DEF HeartbeatsSound

-----------------------------------------------------------------------------
(* The theorems.                                                            *)

\* A live interface keeps its slot, its ring and its timeouts in order.
THEOREM LiveInvariant == LiveSpec => []LiveInv
<1>1. ASSUME DumpInit, SourcesQuiet, LiveInit PROVE LiveInv
  <2>1. PICK v, w : v = live /\ w = wall
    OBVIOUS
  <2>2. /\ v = [pc |-> "open", ring |-> <<>>, arrived |-> 0, last_hb_ts |-> 0, idle_at |-> 0,
                breakloop |-> FALSE, waker |-> "waiting", handle |-> FALSE]
        /\ w = 1
    BY <1>1, <2>1 DEF LiveInit, DumpInit
  <2>3. /\ v.pc = "open" /\ v.ring = <<>> /\ v.arrived = 0 /\ v.last_hb_ts = 0 /\ v.idle_at = 0
        /\ v.waker = "waiting"
    BY <2>2
  <2>4. v.breakloop = FALSE /\ v.handle = FALSE
    BY <2>2, Zenon
  <2>5. LiveShape(v)
    BY <2>2, <2>3, <2>4, Zenon DEF LiveShape
  <2>6. RingOk(<<>>, 0, 1)
    BY DEF RingOk
  <2>7. LiveOk(v, w)
    BY <2>2, <2>3, <2>5, <2>6 DEF LiveOk, IdleOk
  <2>8. LiveSlot(0) = [s \in Nat |-> 0]
    BY DEF LiveSlot
  <2> QED  BY <1>1, <2>1, <2>3, <2>7, <2>8, NothingSent DEF LiveInv
<1>2. LiveInv /\ [LiveNext \/ Tick \/ Serve \/ Cancel \/ Close]_captureVars => LiveInv'
  <2> SUFFICES ASSUME LiveInv, [LiveNext \/ Tick \/ Serve \/ Cancel \/ Close]_captureVars PROVE LiveInv'
    OBVIOUS
  <2>1. CASE LiveNext
    BY <2>1, LiveArriveStep, LivePacketStep, LiveClosedStep, LiveTimeoutStep, LiveQuietStep DEF LiveNext, LiveThread
  <2>2. CASE Tick
    BY <2>2, TickStep
  <2>3. CASE Serve
    <3>1. live' = live /\ sent' = sent /\ wall' = wall
      BY <2>3 DEF Serve, Dispatch, Take, DispatchRest, dumpVars
    <3>2. sent \in Seq(Packets) /\ Ordered(sent)
      BY DEF LiveInv, GoodSent
    <3>3. Delivered(sent, got', dispatched')
      BY <2>3, <3>2, ServeStep DEF LiveInv
    <3> QED  BY <3>1, <3>3 DEF LiveInv
  <2>4. CASE Cancel \/ Close \/ UNCHANGED captureVars
    <3>1. live' = live /\ sent' = sent /\ wall' = wall /\ got' = got /\ dispatched' = dispatched
      BY <2>4 DEF Cancel, Close, captureVars, sourceVars, dumpVars
    <3> QED  BY <3>1 DEF LiveInv
  <2> QED  BY <2>1, <2>2, <2>3, <2>4
<1> QED  BY <1>1, <1>2, PTL DEF LiveSpec

\* The heartbeats of a live interface are sound at the sender and at every
\* worker, whatever the traffic and however late the reader within the margin.
THEOREM LiveHeartbeatsAreSound == LiveSpec => []HeartbeatsSound
<1>1. LiveInv => HeartbeatsSound
  BY GoodIsSound DEF LiveInv
<1> QED  BY <1>1, LiveInvariant, PTL
-----------------------------------------------------------------------------
(* The cloud probe.                                                         *)

\* The packets at hand and the batches that may still come: no source has one
\* before its slot, and each source's are in the order of their stamps.
Coming(slot, pending, n) ==
  /\ pending \in Seq(Packets) /\ n \in Nat \ {0}
  /\ \A k \in DOMAIN pending : slot[pending[k].source_id] <= pending[k].timestamp_us
  /\ \A j, k \in DOMAIN pending :
       j < k /\ pending[j].source_id = pending[k].source_id => pending[j].timestamp_us <= pending[k].timestamp_us
  /\ \A m \in n..Len(Batches) : \A b \in DOMAIN Batches[m].pkts : LET p == Batches[m].pkts[b] IN
       /\ slot[p.source_id] <= p.timestamp_us
       /\ \A k \in DOMAIN pending : pending[k].source_id = p.source_id => pending[k].timestamp_us <= p.timestamp_us

LEMMA LoseStep ==
  ASSUME NEW slot, NEW pending, NEW n, Coming(slot, pending, n)
  PROVE  Coming(slot, pending, n + 1)
<1>1. n \in Nat \ {0} /\ n + 1 \in Nat \ {0} /\ Len(Batches) \in Nat
  BY ProbeAssumption DEF Coming
<1>2. \A m \in (n + 1)..Len(Batches) : m \in n..Len(Batches)
  BY <1>1
<1> QED  BY <1>1, <1>2 DEF Coming

LEMMA ReceiveStep ==
  ASSUME NEW slot, NEW pending, NEW n, Coming(slot, pending, n), n <= Len(Batches),
         NEW next \in {<<>>, Batches[n].pkts}
  PROVE  Coming(slot, next, n + 1)
<1>1. n \in Nat \ {0} /\ n + 1 \in Nat \ {0} /\ Len(Batches) \in Nat /\ n \in 1..Len(Batches) /\ n \in n..Len(Batches)
  BY ProbeAssumption DEF Coming
<1>2. \A m \in (n + 1)..Len(Batches) : m \in n..Len(Batches) /\ m \in 1..Len(Batches) /\ n < m
  BY <1>1
<1>3. CASE next = <<>>
  <2>1. next \in Seq(Packets) /\ DOMAIN next = {}
    BY <1>3
  <2> QED  BY <1>1, <1>2, <2>1 DEF Coming
<1>4. CASE next = Batches[n].pkts
  <2>1. next \in Seq(Packets)
    BY <1>1, <1>4, ProbeAssumption
  <2>2. \A k \in DOMAIN next : slot[next[k].source_id] <= next[k].timestamp_us
    BY <1>1, <1>4 DEF Coming
  <2>3. \A j, k \in DOMAIN next :
          j < k /\ next[j].source_id = next[k].source_id => next[j].timestamp_us <= next[k].timestamp_us
    BY <1>1, <1>4, ProbeAssumption
  <2>4. ASSUME NEW m \in (n + 1)..Len(Batches), NEW b \in DOMAIN Batches[m].pkts
        PROVE  LET p == Batches[m].pkts[b] IN
               /\ slot[p.source_id] <= p.timestamp_us
               /\ \A k \in DOMAIN next : next[k].source_id = p.source_id => next[k].timestamp_us <= p.timestamp_us
    BY <1>1, <1>2, <1>4, <2>4, ProbeAssumption DEF Coming
  <2> QED  BY <1>1, <2>1, <2>2, <2>3, <2>4 DEF Coming
<1> QED  BY <1>3, <1>4

LEMMA NextStep ==
  ASSUME NEW slot, NEW pending, NEW n, Coming(slot, pending, n), pending # <<>>,
         NEW after, after \in {slot[Head(pending).source_id], Head(pending).timestamp_us},
         slot \in [Nat -> Nat]
  PROVE  Coming([slot EXCEPT ![Head(pending).source_id] = after], Tail(pending), n)
<1> DEFINE p == Head(pending)
           next == Tail(pending)
           s2 == [slot EXCEPT ![p.source_id] = after]
<1>1. pending \in Seq(Packets) /\ Len(pending) \in Nat /\ DOMAIN pending = 1..Len(pending) /\ p = pending[1]
  BY LenProperties DEF Coming
<1>2. Len(pending) >= 1 /\ 1 \in DOMAIN pending
  BY <1>1, EmptySeq
<1>3. /\ next \in Seq(Packets) /\ DOMAIN next = 1..(Len(pending) - 1)
      /\ \A k \in 1..(Len(pending) - 1) : next[k] = pending[k + 1]
  BY <1>1, <1>2, HeadTailProperties, LenProperties
<1> HIDE DEF next, p
<1>4. \A k \in DOMAIN next : k + 1 \in DOMAIN pending /\ 1 < k + 1 /\ next[k] = pending[k + 1]
  <2>1. \A l \in Nat : \A k \in 1..(l - 1) : k + 1 \in 1..l /\ 1 < k + 1
    OBVIOUS
  <2> QED  BY ONLY <1>1, <1>3, <2>1
<1>5. p.source_id \in Nat /\ \A s \in Nat : s2[s] = slot[s] \/ (s = p.source_id /\ s2[s] = p.timestamp_us)
  <2>1. p.source_id \in Nat
    BY <1>1, <1>2, PacketFacts, ElementOfSeq
  <2> QED  BY <2>1 DEF p
<1>6. \A k \in DOMAIN next : next[k].source_id \in Nat
  BY <1>3, PacketFacts, ElementOfSeq, LenProperties
<1> HIDE DEF s2
<1>7. \A k \in DOMAIN next : s2[next[k].source_id] <= next[k].timestamp_us
  <2> SUFFICES ASSUME NEW k \in DOMAIN next PROVE s2[next[k].source_id] <= next[k].timestamp_us
    OBVIOUS
  <2>1. /\ slot[pending[k + 1].source_id] <= pending[k + 1].timestamp_us
        /\ pending[1].source_id = pending[k + 1].source_id => pending[1].timestamp_us <= pending[k + 1].timestamp_us
    BY <1>2, <1>4 DEF Coming
  <2>2. next[k] = pending[k + 1]
    BY <1>4
  <2> QED  BY <1>1, <1>5, <1>6, <2>1, <2>2
<1>8. ASSUME NEW j \in DOMAIN next, NEW k \in DOMAIN next, j < k, next[j].source_id = next[k].source_id
      PROVE  next[j].timestamp_us <= next[k].timestamp_us
  <2>1. j + 1 < k + 1
    BY <1>1, <1>3, <1>8
  <2> QED  BY <1>4, <1>8, <2>1 DEF Coming
<1>9. ASSUME NEW m \in n..Len(Batches), NEW b \in DOMAIN Batches[m].pkts
      PROVE  LET x == Batches[m].pkts[b] IN
             /\ s2[x.source_id] <= x.timestamp_us
             /\ \A k \in DOMAIN next : next[k].source_id = x.source_id => next[k].timestamp_us <= x.timestamp_us
  <2> DEFINE x == Batches[m].pkts[b]
  <2>1. x.source_id \in Nat
    <3>1. m \in 1..Len(Batches)
      BY ProbeAssumption DEF Coming
    <3>2. Batches[m].pkts \in Seq(Packets)
      BY <3>1, ProbeAssumption
    <3> QED  BY <3>2, PacketFacts, ElementOfSeq, LenProperties
  <2>2. /\ slot[x.source_id] <= x.timestamp_us
        /\ \A k \in DOMAIN pending : pending[k].source_id = x.source_id => pending[k].timestamp_us <= x.timestamp_us
    BY DEF Coming
  <2> HIDE DEF x
  <2>3. s2[x.source_id] <= x.timestamp_us
    BY <1>1, <1>2, <1>5, <2>1, <2>2
  <2>4. \A k \in DOMAIN next : next[k].source_id = x.source_id => next[k].timestamp_us <= x.timestamp_us
    BY <1>4, <2>2
  <2> QED  BY <2>3, <2>4 DEF x
<1>10. n \in Nat \ {0}
  BY DEF Coming
<1>11. Coming(s2, next, n)
  BY <1>3, <1>7, <1>8, <1>9, <1>10 DEF Coming
<1> QED  BY <1>11 DEF s2, next, p

ProbeSlot(slots) == [s \in Nat |-> IF s \in DOMAIN slots THEN slots[s] ELSE 0]

ProbeInv ==
  /\ probe = [pc |-> probe.pc, next |-> probe.next, pending |-> probe.pending, slots |-> probe.slots]
  /\ probe.pc = "batch" => probe.pending # <<>>
  /\ Coming(ProbeSlot(probe.slots), probe.pending, probe.next)
  /\ GoodSent(sent, ProbeSlot(probe.slots))
  /\ Delivered(sent, got, dispatched)

\* One packet of a batch: the slot of its source moves as SlotAfter says.
LEMMA SentOne ==
  ASSUME NEW q, NEW slots, NEW p \in Packets, GoodSent(q, ProbeSlot(slots)),
         ProbeSlot(slots)[p.source_id] <= p.timestamp_us
  PROVE  LET t == ProbeSlot(slots)[p.source_id]
             r == q \o (IF Synthesizes(t, p) THEN <<Heartbeat(p.source_id, p.timestamp_us)>> ELSE <<>>) \o <<p>>
         IN  /\ GoodSent(r, [ProbeSlot(slots) EXCEPT ![p.source_id] = SlotAfter(t, p)])
             /\ Extends(q, r)
             /\ SlotAfter(t, p) \in {t, p.timestamp_us}
<1> DEFINE slot == ProbeSlot(slots)
           t == slot[p.source_id]
           due == Synthesizes(t, p)
           r == q \o (IF due THEN <<Heartbeat(p.source_id, p.timestamp_us)>> ELSE <<>>) \o <<p>>
<1>1. q \in Seq(Packets) /\ slot \in [Nat -> Nat] /\ p.source_id \in Nat /\ p.timestamp_us \in Nat /\ t \in Nat
      /\ t <= p.timestamp_us
  <2>1. p.source_id \in Nat /\ p.timestamp_us \in Nat
    BY PacketFacts
  <2> QED  BY <2>1 DEF GoodSent
<1>2. due \in BOOLEAN /\ (due <=> ~p.heartbeat /\ t # 0 /\ p.timestamp_us - t >= Interval)
  BY DEF Synthesizes
<1> HIDE DEF slot, due
<1>3. CASE p.heartbeat
  <2>1. Max({t, p.timestamp_us}) = p.timestamp_us
    <3>1. PICK S : S = {t, p.timestamp_us}
      OBVIOUS
    <3>2. S \subseteq Int /\ p.timestamp_us \in S /\ \A x \in S : x <= p.timestamp_us
      BY <1>1, <3>1
    <3> QED  BY <3>1, <3>2, MaxIs
  <2>2. SlotAfter(t, p) = p.timestamp_us /\ Following(p, t) = p.timestamp_us /\ Fitting(p, t)
    BY <1>1, <1>3, <2>1, Zenon DEF SlotAfter, Following, Fitting
  <2>3. GoodSent(Append(q, p), [slot EXCEPT ![p.source_id] = p.timestamp_us])
    BY <2>2, SentMore DEF slot
  <2>4. r = Append(q, p)
    <3>1. ~due
      BY <1>2, <1>3, Zenon
    <3>2. q \o <<>> = q /\ q \o <<p>> = Append(q, p)
      BY <1>1, ConcatEmptySeq, AppendIsConcat
    <3> QED  BY <3>1, <3>2
  <2>5. Extends(q, Append(q, p))
    BY <1>1, ExtendsMore
  <2> QED  BY <2>2, <2>3, <2>4, <2>5 DEF slot, due
<1>4. CASE ~p.heartbeat
  <2>1. due <=> t # 0 /\ p.timestamp_us - t >= Interval
    BY <1>2, <1>4, Zenon
  <2>2. SlotAfter(t, p) = IF t = 0 \/ due THEN p.timestamp_us ELSE t
    BY <1>4, Zenon DEF SlotAfter, due
  <2>3. /\ GoodSent(r, [slot EXCEPT ![p.source_id] = IF t = 0 \/ due THEN p.timestamp_us ELSE t])
        /\ Extends(q, r)
    <3>1. GoodSent(q, slot)
      BY DEF slot
    <3> QED  BY <1>1, <1>2, <1>4, <2>1, <3>1, SentTwo
  <2>4. SlotAfter(t, p) \in {t, p.timestamp_us}
    BY <2>2
  <2> QED  BY <2>2, <2>3, <2>4 DEF slot, due
<1> QED  BY <1>3, <1>4
LEMMA ProbePacketStep ==
  ASSUME ProbeInv, ProbePacket
  PROVE  ProbeInv'
<1> DEFINE head == Head(probe.pending)
           synth == Synthesizes(SlotOf(head), head)
<1>1. PICK v, u, q, r, p : v = probe /\ u = probe' /\ q = sent /\ r = sent' /\ p = head
  OBVIOUS
<1> DEFINE slot == ProbeSlot(v.slots)
           t == slot[p.source_id]
<1>2. /\ v = [pc |-> v.pc, next |-> v.next, pending |-> v.pending, slots |-> v.slots]
      /\ v.pending # <<>> /\ Coming(slot, v.pending, v.next) /\ GoodSent(q, slot)
  BY <1>1 DEF ProbeInv, ProbePacket
<1>3. p \in Packets /\ p = Head(v.pending) /\ t <= p.timestamp_us /\ p.source_id \in Nat
  <2>1. v.pending \in Seq(Packets) /\ p = v.pending[1]
    BY <1>1, <1>2 DEF Coming
  <2>2. 1 \in DOMAIN v.pending
    BY <1>2, <2>1, EmptySeq, LenProperties
  <2>3. p \in Packets
    BY <2>1, <2>2, ElementOfSeq, LenProperties
  <2>4. t <= p.timestamp_us
    BY <1>2, <2>1, <2>2 DEF Coming
  <2>5. p.source_id \in Nat
    BY <2>3, PacketFacts
  <2> QED  BY <1>1, <2>3, <2>4, <2>5
<1>4. SlotOf(p) = t
  BY <1>1, <1>3 DEF SlotOf, ProbeSlot
<1>5. /\ r = q \o (IF Synthesizes(t, p) THEN <<Heartbeat(p.source_id, p.timestamp_us)>> ELSE <<>>) \o <<p>>
      /\ u.pc = IF Len(v.pending) = 1 THEN "recv" ELSE "batch"
      /\ u.slots = [x \in DOMAIN v.slots \cup {p.source_id} |-> IF x = p.source_id THEN SlotAfter(t, p) ELSE v.slots[x]]
      /\ u.pending = Tail(v.pending) /\ u.next = v.next
      /\ u = [pc |-> u.pc, next |-> u.next, pending |-> u.pending, slots |-> u.slots]
      /\ got' = got /\ dispatched' = dispatched
  <2>1. r = q \o (IF Synthesizes(t, p) THEN <<Heartbeat(p.source_id, p.timestamp_us)>> ELSE <<>>) \o <<p>>
    BY <1>1, <1>4 DEF ProbePacket
  <2>2. u = [v EXCEPT !.pending = Tail(v.pending), !.pc = IF Len(v.pending) = 1 THEN "recv" ELSE "batch",
               !.slots = [x \in DOMAIN v.slots \cup {p.source_id} |->
                            IF x = p.source_id THEN SlotAfter(t, p) ELSE v.slots[x]]]
    BY <1>1, <1>4 DEF ProbePacket
  <2>3. got' = got /\ dispatched' = dispatched
    BY DEF ProbePacket, ProbeRest
  <2> HIDE DEF t
  <2> QED  BY <1>2, <2>1, <2>2, <2>3
<1>6. ProbeSlot(u.slots) = [slot EXCEPT ![p.source_id] = SlotAfter(t, p)]
  <2>1. PICK a : a = SlotAfter(t, p)
    OBVIOUS
  <2>2. u.slots = [x \in DOMAIN v.slots \cup {p.source_id} |-> IF x = p.source_id THEN a ELSE v.slots[x]]
    BY <1>5, <2>1
  <2>3. ProbeSlot(u.slots) = [ProbeSlot(v.slots) EXCEPT ![p.source_id] = a]
    BY <1>3, <2>2 DEF ProbeSlot
  <2> QED  BY <2>1, <2>3
<1>7. GoodSent(r, ProbeSlot(u.slots)) /\ Extends(q, r) /\ SlotAfter(t, p) \in {t, p.timestamp_us}
  <2>1. PICK slots : slots = v.slots
    OBVIOUS
  <2>2. GoodSent(q, ProbeSlot(slots)) /\ ProbeSlot(slots)[p.source_id] <= p.timestamp_us
    BY <1>2, <1>3, <2>1
  <2> DEFINE y == ProbeSlot(slots)[p.source_id]
             x == q \o (IF Synthesizes(y, p) THEN <<Heartbeat(p.source_id, p.timestamp_us)>> ELSE <<>>) \o <<p>>
  <2>3. /\ GoodSent(x, [ProbeSlot(slots) EXCEPT ![p.source_id] = SlotAfter(y, p)]) /\ Extends(q, x)
        /\ SlotAfter(y, p) \in {y, p.timestamp_us}
    BY <1>3, <2>2, SentOne
  <2>4. y = t /\ x = r
    BY <1>5, <2>1
  <2> HIDE DEF x, y
  <2> QED  BY <1>6, <2>1, <2>3, <2>4
<1>8. Coming(ProbeSlot(u.slots), u.pending, u.next)
  <2>1. slot \in [Nat -> Nat]
    BY <1>2 DEF GoodSent
  <2>2. PICK a, b : a = SlotAfter(t, p) /\ b = v.pending
    OBVIOUS
  <2>3. a \in {slot[Head(b).source_id], Head(b).timestamp_us} /\ b # <<>> /\ Coming(slot, b, v.next)
    BY <1>2, <1>3, <1>7, <2>2
  <2> HIDE DEF slot
  <2>4. Coming([slot EXCEPT ![Head(b).source_id] = a], Tail(b), v.next)
    BY <2>1, <2>3, NextStep
  <2> QED  BY <1>3, <1>5, <1>6, <2>2, <2>4
<1>9. u.pc = "batch" => u.pending # <<>>
  <2>1. v.pending \in Seq(Packets) /\ Len(v.pending) \in Nat
    BY <1>2, LenProperties DEF Coming
  <2>2. Len(v.pending) # 0
    BY <1>2, <2>1, EmptySeq
  <2>3. Len(Tail(v.pending)) = Len(v.pending) - 1
    BY <1>2, <2>1, HeadTailProperties
  <2>4. Len(v.pending) # 1 => Tail(v.pending) # <<>>
    <3>1. Len(<<>>) = 0
      BY EmptySeq
    <3>2. ASSUME Len(v.pending) # 1 PROVE Len(Tail(v.pending)) # 0
      BY ONLY <2>1, <2>3, <3>2
    <3> QED  BY <3>1, <3>2, Zenon
  <2> QED  BY <1>5, <2>4
<1>10. Delivered(r, got, dispatched)
  BY <1>1, <1>7, DeliveredMore DEF ProbeInv
<1> QED  BY <1>1, <1>5, <1>7, <1>8, <1>9, <1>10 DEF ProbeInv

LEMMA ProbeOtherStep ==
  ASSUME ProbeInv, ProbeRecv \/ ProbeLoses \/ ProbeExit
  PROVE  ProbeInv'
<1>1. sent' = sent /\ got' = got /\ dispatched' = dispatched
  BY DEF ProbeRecv, ProbeLoses, ProbeExit, ProbeRest
<1>2. PICK v, u : v = probe /\ u = probe'
  OBVIOUS
<1>3. /\ v = [pc |-> v.pc, next |-> v.next, pending |-> v.pending, slots |-> v.slots]
      /\ v.pc = "batch" => v.pending # <<>>
      /\ Coming(ProbeSlot(v.slots), v.pending, v.next)
  BY <1>2 DEF ProbeInv
<1>4. SUFFICES /\ u = [pc |-> u.pc, next |-> u.next, pending |-> u.pending, slots |-> u.slots]
               /\ u.slots = v.slots
               /\ u.pc = "batch" => u.pending # <<>>
               /\ Coming(ProbeSlot(v.slots), u.pending, u.next)
  BY <1>1, <1>2 DEF ProbeInv
<1>5. CASE ProbeRecv
  <2> DEFINE b == Batches[v.next]
             next == IF b.truncated THEN <<>> ELSE b.pkts
             pc == IF b.truncated \/ b.pkts = <<>> THEN "recv" ELSE "batch"
  <2>1. u = [v EXCEPT !.next = @ + 1, !.pc = pc, !.pending = next] /\ v.next <= Len(Batches)
    BY <1>2, <1>5 DEF ProbeRecv
  <2>2. next \in {<<>>, b.pkts} /\ (pc = "batch" => next # <<>>)
    OBVIOUS
  <2> HIDE DEF next, pc, b
  <2>3. /\ u.next = v.next + 1 /\ u.pc = pc /\ u.pending = next /\ u.slots = v.slots
        /\ u = [pc |-> u.pc, next |-> u.next, pending |-> u.pending, slots |-> u.slots]
    BY <1>3, <2>1
  <2>4. Coming(ProbeSlot(v.slots), next, v.next + 1)
    BY <1>3, <2>1, <2>2, ReceiveStep DEF b
  <2> QED  BY <2>2, <2>3, <2>4
<1>6. CASE ProbeLoses
  <2>1. u = [v EXCEPT !.next = @ + 1]
    BY <1>2, <1>6 DEF ProbeLoses
  <2>2. /\ u.next = v.next + 1 /\ u.pc = v.pc /\ u.pending = v.pending /\ u.slots = v.slots
        /\ u = [pc |-> u.pc, next |-> u.next, pending |-> u.pending, slots |-> u.slots]
    BY <1>3, <2>1
  <2>3. Coming(ProbeSlot(v.slots), v.pending, v.next + 1)
    BY <1>3, LoseStep
  <2> QED  BY <1>3, <2>2, <2>3
<1>7. CASE ProbeExit
  <2>1. u = [v EXCEPT !.pc = "done"]
    BY <1>2, <1>7 DEF ProbeExit
  <2>2. /\ u.next = v.next /\ u.pc = "done" /\ u.pending = v.pending /\ u.slots = v.slots
        /\ u = [pc |-> u.pc, next |-> u.next, pending |-> u.pending, slots |-> u.slots]
    BY <1>3, <2>1
  <2> QED  BY <1>3, <2>2
<1> QED  BY <1>5, <1>6, <1>7

\* The probe's slots follow what was sent and stay behind what may still come.
THEOREM ProbeInvariant == ProbeSpec => []ProbeInv
<1>1. ASSUME SourcesQuiet, ProbeInit PROVE ProbeInv
  <2>1. PICK v : v = probe
    OBVIOUS
  <2>2. v = [pc |-> "recv", next |-> 1, pending |-> <<>>, slots |-> [u \in {} |-> 0]]
    BY <1>1, <2>1 DEF ProbeInit
  <2>3. /\ v = [pc |-> v.pc, next |-> v.next, pending |-> v.pending, slots |-> v.slots]
        /\ v.pc = "recv" /\ v.next = 1 /\ v.pending = <<>> /\ v.slots = [u \in {} |-> 0]
    BY <2>2
  <2>4. ProbeSlot(v.slots) = [s \in Nat |-> 0]
    BY <2>3 DEF ProbeSlot
  <2>5. Coming([s \in Nat |-> 0], <<>>, 1)
    <3>1. ASSUME NEW m \in 1..Len(Batches), NEW b \in DOMAIN Batches[m].pkts
          PROVE  [s \in Nat |-> 0][Batches[m].pkts[b].source_id] <= Batches[m].pkts[b].timestamp_us
      <4>1. Batches[m].pkts \in Seq(Packets)
        BY ProbeAssumption
      <4>2. PICK p \in Packets : p = Batches[m].pkts[b]
        BY <4>1, ElementOfSeq, LenProperties
      <4>3. p.source_id \in Nat /\ p.timestamp_us \in Nat
        BY PacketFacts
      <4> QED  BY <4>2, <4>3
    <3>2. <<>> \in Seq(Packets) /\ DOMAIN <<>> = {}
      OBVIOUS
    <3> QED  BY <3>1, <3>2 DEF Coming
  <2> QED  BY <1>1, <2>1, <2>3, <2>4, <2>5, NothingSent DEF ProbeInv
<1>2. ProbeInv /\ [ProbeNext \/ Serve \/ Cancel \/ Close]_captureVars => ProbeInv'
  <2> SUFFICES ASSUME ProbeInv, [ProbeNext \/ Serve \/ Cancel \/ Close]_captureVars PROVE ProbeInv'
    OBVIOUS
  <2>1. CASE ProbeNext
    BY <2>1, ProbePacketStep, ProbeOtherStep DEF ProbeNext, ProbeTask
  <2>2. CASE Serve
    <3>1. probe' = probe /\ sent' = sent
      BY <2>2 DEF Serve, Dispatch, Take, DispatchRest
    <3>2. sent \in Seq(Packets) /\ Ordered(sent)
      BY DEF ProbeInv, GoodSent
    <3>3. Delivered(sent, got', dispatched')
      BY <2>2, <3>2, ServeStep DEF ProbeInv
    <3> QED  BY <3>1, <3>3 DEF ProbeInv
  <2>3. CASE Cancel \/ Close \/ UNCHANGED captureVars
    <3>1. probe' = probe /\ sent' = sent /\ got' = got /\ dispatched' = dispatched
      BY <2>3 DEF Cancel, Close, captureVars, sourceVars
    <3> QED  BY <3>1 DEF ProbeInv
  <2> QED  BY <2>1, <2>2, <2>3
<1> QED  BY <1>1, <1>2, PTL DEF ProbeSpec

\* The same of the probes, however many of their batches are lost or cut and
\* whether or not they send heartbeats of their own.
THEOREM ProbeHeartbeatsAreSound == ProbeSpec => []HeartbeatsSound
<1>1. ProbeInv => HeartbeatsSound
  BY GoodIsSound DEF ProbeInv
<1> QED  BY <1>1, ProbeInvariant, PTL
-----------------------------------------------------------------------------
(* The passes of a replay.                                                  *)

LEMMA MinIs ==
  ASSUME NEW S, S \subseteq Int, NEW m \in S, \A x \in S : m <= x
  PROVE  Min(S) = m
<1>1. ASSUME NEW y \in S, \A x \in S : y <= x PROVE y = m
  BY <1>1
<1> QED  BY <1>1 DEF Min

L == Len(FileStamps)

LEMMA FileFacts == L \in Nat /\ FileStamps \in [1..L -> Nat \ {0}]
BY SourceAssumption DEF L

LEMMA Quotient ==
  ASSUME NEW q \in Nat, NEW r \in Nat, r < L
  PROVE  (q * L + r) \div L = q
<1>1. L \in Nat
  BY FileFacts
<1> HIDE DEF L
<1> QED  BY <1>1

\* How many of the file's packets have been measured, and the extent of them.
Seen(v) == IF v.iter = 0 THEN v.pos - 1 ELSE L

ExtentOk(v) ==
  /\ Seen(v) = 0 => v.min_ts = None /\ v.max_ts = None
  /\ Seen(v) # 0 => /\ v.min_ts \in Nat /\ v.max_ts \in Nat
                    /\ \A k \in 1..Seen(v) : v.min_ts <= FileStamps[k] /\ FileStamps[k] <= v.max_ts

Loops(v) == v.by_clock \/ LoopCount > 1

\* A packet of pass n: its source, and its stamp moved by as many extents.
OfPass(v, p, n) ==
  /\ n \in Nat /\ n <= v.iter
  /\ p.source_id = IF Loops(v) THEN FileId + n ELSE FileId
  /\ ~Loops(v) => n = 0
  /\ \E k \in 1..Seen(v) :
       p.timestamp_us = IF n = 0 THEN FileStamps[k] ELSE FileStamps[k] + (v.max_ts - v.min_ts + LoopGap) * n

ReplayShape(v) ==
  /\ v = [pc |-> v.pc, by_clock |-> v.by_clock, iter |-> v.iter, pos |-> v.pos, min_ts |-> v.min_ts, max_ts |-> v.max_ts]
  /\ v.iter \in Nat /\ v.pos \in 1..(L + 1)

ReplayOk(v, q) ==
  /\ ReplayShape(v) /\ ExtentOk(v)
  /\ q \in Seq(Packets)
  /\ v.pc = "pass" => Len(q) = v.iter * L + v.pos - 1 /\ (v.iter = 0 \/ Loops(v))
  /\ \A i \in DOMAIN q : OfPass(v, q[i], (i - 1) \div L)

ReplayInv == ReplayOk(replay, sent)

LEMMA PassesDiffer ==
  ASSUME ReplayInv, NEW i \in DOMAIN sent, NEW j \in DOMAIN sent, (i - 1) \div L < (j - 1) \div L
  PROVE  /\ sent[i].source_id # sent[j].source_id
         /\ sent[j].timestamp_us - sent[i].timestamp_us >= LoopGap
<1>1. PICK m, n : m = (i - 1) \div L /\ n = (j - 1) \div L
  OBVIOUS
<1>2. OfPass(replay, sent[i], m) /\ OfPass(replay, sent[j], n) /\ m < n
  BY <1>1 DEF ReplayInv, ReplayOk
<1>3. m \in Nat /\ n \in Nat /\ n # 0 /\ Loops(replay) /\ FileId \in Nat /\ LoopGap \in Nat
  BY <1>2, SourceAssumption DEF OfPass
<1>4. sent[i].source_id = FileId + m /\ sent[j].source_id = FileId + n
  BY <1>2, <1>3 DEF OfPass
<1>5. PICK a \in 1..Seen(replay) : sent[i].timestamp_us = IF m = 0 THEN FileStamps[a]
                              ELSE FileStamps[a] + (replay.max_ts - replay.min_ts + LoopGap) * m
  BY <1>2 DEF OfPass
<1>6. PICK b \in 1..Seen(replay) : sent[j].timestamp_us = IF n = 0 THEN FileStamps[b]
                              ELSE FileStamps[b] + (replay.max_ts - replay.min_ts + LoopGap) * n
  BY <1>2 DEF OfPass
<1>7. Seen(replay) \in 0..L
  BY FileFacts DEF ReplayInv, ReplayOk, ReplayShape, Seen
<1>8. Seen(replay) # 0 /\ a \in 1..L /\ b \in 1..L
  BY <1>5, <1>6, <1>7, FileFacts
<1>9. FileStamps[a] \in Nat /\ FileStamps[b] \in Nat
  BY <1>8, FileFacts
<1>10. /\ replay.min_ts \in Nat /\ replay.max_ts \in Nat
       /\ replay.min_ts <= FileStamps[a] /\ FileStamps[a] <= replay.max_ts
       /\ replay.min_ts <= FileStamps[b] /\ FileStamps[b] <= replay.max_ts
  BY <1>8 DEF ReplayInv, ReplayOk, ExtentOk
<1>11. PICK x, y, D : x = FileStamps[a] /\ y = FileStamps[b] /\ D = replay.max_ts - replay.min_ts + LoopGap
  OBVIOUS
<1>12. /\ D \in Nat /\ x \in Nat /\ y \in Nat /\ y - x >= LoopGap - D
  BY <1>3, <1>9, <1>10, <1>11
<1>13. /\ sent[i].timestamp_us = x + D * m /\ sent[j].timestamp_us = y + D * n
  <2>1. m = 0 => D * m = 0
    BY <1>3, <1>12
  <2> QED  BY <2>1, <1>3, <1>5, <1>6, <1>11, <1>12
<1>14. D * n >= D * m + D /\ D * n \in Nat /\ D * m \in Nat
  BY ONLY <1>2, <1>3, <1>12
<1> QED  BY ONLY <1>2, <1>3, <1>4, <1>12, <1>13, <1>14
\* Measuring one packet more of the first pass.
Widened(v, ts) ==
  [v EXCEPT !.pos = @ + 1,
            !.min_ts = IF v.iter = 0 THEN Min({ts} \cup (IF @ = None THEN {} ELSE {@})) ELSE @,
            !.max_ts = IF v.iter = 0 THEN Max({ts} \cup (IF @ = None THEN {} ELSE {@})) ELSE @]

LEMMA WidenedOk ==
  ASSUME NEW v, ReplayShape(v), ExtentOk(v), v.pos <= L
  PROVE  LET u == Widened(v, FileStamps[v.pos]) IN
         /\ ReplayShape(u) /\ ExtentOk(u)
         /\ u.pc = v.pc /\ u.by_clock = v.by_clock /\ u.iter = v.iter /\ u.pos = v.pos + 1
         /\ v.iter # 0 => u.min_ts = v.min_ts /\ u.max_ts = v.max_ts
         /\ Seen(v) <= Seen(u) /\ v.pos <= Seen(u) /\ Seen(v) \in Nat /\ Seen(u) \in Nat
<1> DEFINE u == Widened(v, FileStamps[v.pos])
<1>1. PICK ts : ts = FileStamps[v.pos]
  OBVIOUS
<1>2. /\ v.iter \in Nat /\ v.pos \in 1..L /\ L \in Nat /\ ts \in Nat
  BY <1>1, FileFacts DEF ReplayShape
<1>3. v = [pc |-> v.pc, by_clock |-> v.by_clock, iter |-> v.iter, pos |-> v.pos, min_ts |-> v.min_ts, max_ts |-> v.max_ts]
  BY DEF ReplayShape
<1>4. u = [pc |-> v.pc, by_clock |-> v.by_clock, iter |-> v.iter, pos |-> v.pos + 1,
           min_ts |-> IF v.iter = 0 THEN Min({ts} \cup (IF v.min_ts = None THEN {} ELSE {v.min_ts})) ELSE v.min_ts,
           max_ts |-> IF v.iter = 0 THEN Max({ts} \cup (IF v.max_ts = None THEN {} ELSE {v.max_ts})) ELSE v.max_ts]
  <2>1. PICK lo, hi :
          /\ lo = IF v.iter = 0 THEN Min({ts} \cup (IF v.min_ts = None THEN {} ELSE {v.min_ts})) ELSE v.min_ts
          /\ hi = IF v.iter = 0 THEN Max({ts} \cup (IF v.max_ts = None THEN {} ELSE {v.max_ts})) ELSE v.max_ts
    OBVIOUS
  <2>2. u = [v EXCEPT !.pos = @ + 1, !.min_ts = lo, !.max_ts = hi]
    BY ONLY <1>1, <2>1 DEF Widened, u
  <2>3. u = [pc |-> v.pc, by_clock |-> v.by_clock, iter |-> v.iter, pos |-> v.pos + 1, min_ts |-> lo, max_ts |-> hi]
    BY ONLY <1>3, <2>2
  <2> QED  BY ONLY <2>1, <2>3
<1>5. /\ u.pc = v.pc /\ u.by_clock = v.by_clock /\ u.iter = v.iter /\ u.pos = v.pos + 1
      /\ v.iter # 0 => u.min_ts = v.min_ts /\ u.max_ts = v.max_ts
      /\ u = [pc |-> u.pc, by_clock |-> u.by_clock, iter |-> u.iter, pos |-> u.pos, min_ts |-> u.min_ts, max_ts |-> u.max_ts]
  BY <1>4
<1>6. v.iter = 0 => /\ u.min_ts = Min({ts} \cup (IF v.min_ts = None THEN {} ELSE {v.min_ts}))
                    /\ u.max_ts = Max({ts} \cup (IF v.max_ts = None THEN {} ELSE {v.max_ts}))
  BY <1>4
<1> HIDE DEF u
<1>7. ReplayShape(u)
  <2>1. u.iter \in Nat /\ u.pos \in 1..(L + 1)
    BY ONLY <1>2, <1>5
  <2> QED  BY ONLY <2>1, <1>5 DEF ReplayShape
<1>8. /\ Seen(v) \in Nat /\ Seen(u) \in Nat /\ Seen(v) <= Seen(u) /\ v.pos <= Seen(u)
      /\ v.iter = 0 => Seen(v) = v.pos - 1 /\ Seen(u) = v.pos
      /\ v.iter # 0 => Seen(v) = L /\ Seen(u) = L
  BY <1>2, <1>5 DEF Seen
<1>9. CASE v.iter # 0
  <2>1. u.min_ts = v.min_ts /\ u.max_ts = v.max_ts /\ Seen(u) = Seen(v)
    BY <1>5, <1>8, <1>9
  <2>2. ExtentOk(u)
    BY <2>1 DEF ExtentOk
  <2> QED  BY <1>5, <1>7, <1>8, <2>2 DEF u
<1>10. CASE v.iter = 0 /\ v.pos = 1
  <2>1. v.min_ts = None /\ v.max_ts = None
    BY <1>8, <1>10 DEF ExtentOk
  <2>2. u.min_ts = Min({ts}) /\ u.max_ts = Max({ts})
    BY <1>6, <1>10, <2>1
  <2>3. u.min_ts = ts /\ u.max_ts = ts
    BY <1>2, <2>2, MinIs, MaxIs
  <2>4. Seen(u) = 1
    BY <1>8, <1>10
  <2>5. ExtentOk(u)
    BY <1>1, <1>2, <1>10, <2>3, <2>4 DEF ExtentOk
  <2> QED  BY <1>5, <1>7, <1>8, <2>5 DEF u
<1>11. CASE v.iter = 0 /\ v.pos # 1
  <2>1. /\ v.min_ts \in Nat /\ v.max_ts \in Nat
        /\ \A k \in 1..(v.pos - 1) : v.min_ts <= FileStamps[k] /\ FileStamps[k] <= v.max_ts
    BY <1>2, <1>8, <1>11 DEF ExtentOk
  <2>2. v.min_ts # None /\ v.max_ts # None
    BY <2>1, SourceAssumption
  <2>3. u.min_ts = Min({ts, v.min_ts}) /\ u.max_ts = Max({ts, v.max_ts})
    <3>1. {ts} \cup {v.min_ts} = {ts, v.min_ts} /\ {ts} \cup {v.max_ts} = {ts, v.max_ts}
      OBVIOUS
    <3> QED  BY <1>6, <1>11, <2>2, <3>1
  <2>4. /\ u.min_ts = IF ts <= v.min_ts THEN ts ELSE v.min_ts
        /\ u.max_ts = IF ts <= v.max_ts THEN v.max_ts ELSE ts
    <3>1. Min({ts, v.min_ts}) = IF ts <= v.min_ts THEN ts ELSE v.min_ts
      <4>1. CASE ts <= v.min_ts
        <5>1. {ts, v.min_ts} \subseteq Int /\ ts \in {ts, v.min_ts} /\ \A x \in {ts, v.min_ts} : ts <= x
          BY ONLY <1>2, <2>1, <4>1
        <5> QED  BY ONLY <4>1, <5>1, MinIs
      <4>2. CASE ~(ts <= v.min_ts)
        <5>1. {ts, v.min_ts} \subseteq Int /\ v.min_ts \in {ts, v.min_ts} /\ \A x \in {ts, v.min_ts} : v.min_ts <= x
          BY ONLY <1>2, <2>1, <4>2
        <5> QED  BY ONLY <4>2, <5>1, MinIs
      <4> QED  BY <4>1, <4>2
    <3>2. Max({ts, v.max_ts}) = IF ts <= v.max_ts THEN v.max_ts ELSE ts
      <4>1. CASE ts <= v.max_ts
        BY ONLY <1>2, <2>1, <4>1, MaxIs
      <4>2. CASE ~(ts <= v.max_ts)
        BY ONLY <1>2, <2>1, <4>2, MaxIs
      <4> QED  BY <4>1, <4>2
    <3> QED  BY <2>3, <3>1, <3>2
  <2>5. ASSUME NEW k \in 1..v.pos PROVE u.min_ts <= FileStamps[k] /\ FileStamps[k] <= u.max_ts
    <3>1. FileStamps[k] \in Nat
      BY <1>2, FileFacts
    <3>2. CASE k = v.pos
      BY <1>1, <1>2, <2>1, <2>4, <3>2
    <3>3. CASE k # v.pos
      <4>1. v.min_ts <= FileStamps[k] /\ FileStamps[k] <= v.max_ts
        BY <1>2, <2>1, <3>3
      <4> QED  BY <1>2, <2>1, <2>4, <3>1, <4>1
    <3> QED  BY <3>2, <3>3
  <2>6. u.min_ts \in Nat /\ u.max_ts \in Nat
    BY <1>2, <2>1, <2>4
  <2>7. ExtentOk(u)
    BY <1>2, <1>8, <1>11, <2>5, <2>6 DEF ExtentOk
  <2> QED  BY <1>5, <1>7, <1>8, <2>7 DEF u
<1> QED  BY <1>9, <1>10, <1>11

\* What was sent keeps its pass while the extent grows only in the first.
LEMMA OfPassKeeps ==
  ASSUME NEW v, NEW u, NEW p, NEW n, OfPass(v, p, n), v.iter \in Nat, u.iter \in Nat, v.iter <= u.iter,
         u.by_clock = v.by_clock, Seen(v) \in Nat, Seen(u) \in Nat, Seen(v) <= Seen(u),
         v.iter # 0 => u.min_ts = v.min_ts /\ u.max_ts = v.max_ts
  PROVE  OfPass(u, p, n)
<1>1. Loops(u) <=> Loops(v)
  BY DEF Loops
<1>2. n \in Nat /\ n <= u.iter /\ (n # 0 => v.iter # 0)
  BY DEF OfPass
<1>3. PICK k \in 1..Seen(v) :
        p.timestamp_us = IF n = 0 THEN FileStamps[k] ELSE FileStamps[k] + (v.max_ts - v.min_ts + LoopGap) * n
  BY DEF OfPass
<1>4. k \in 1..Seen(u)
  BY <1>3
<1>5. p.timestamp_us = IF n = 0 THEN FileStamps[k] ELSE FileStamps[k] + (u.max_ts - u.min_ts + LoopGap) * n
  BY <1>2, <1>3
<1>6. /\ p.source_id = IF Loops(u) THEN FileId + n ELSE FileId
      /\ ~Loops(u) => n = 0
  BY <1>1 DEF OfPass
<1> QED  BY <1>2, <1>4, <1>5, <1>6 DEF OfPass
\* The packet a pass sends.
LEMMA PassPacket ==
  ASSUME NEW v, NEW u, NEW p, ReplayShape(v), ExtentOk(v), v.pos <= L, v.iter = 0 \/ Loops(v),
         u.iter = v.iter, u.by_clock = v.by_clock, v.pos <= Seen(u), Seen(u) \in Nat,
         v.iter # 0 => u.min_ts = v.min_ts /\ u.max_ts = v.max_ts,
         p = Raw(IF Loops(v) THEN FileId + v.iter ELSE FileId,
                 FileStamps[v.pos] + (IF v.iter = 0 \/ v.min_ts = None THEN 0
                                      ELSE (v.max_ts - v.min_ts + LoopGap) * v.iter), "a", "b")
  PROVE  p \in Packets /\ OfPass(u, p, v.iter)
<1>1. v.iter \in Nat /\ v.pos \in 1..L /\ L \in Nat /\ FileStamps[v.pos] \in Nat \ {0} /\ FileId \in Nat /\ LoopGap \in Nat
  BY FileFacts, SourceAssumption DEF ReplayShape
<1>2. v.iter # 0 => /\ v.min_ts \in Nat /\ v.max_ts \in Nat /\ v.min_ts <= v.max_ts /\ v.min_ts # None
                    /\ v.max_ts - v.min_ts + LoopGap \in Nat
  <2> SUFFICES ASSUME v.iter # 0 PROVE /\ v.min_ts \in Nat /\ v.max_ts \in Nat /\ v.min_ts <= v.max_ts /\ v.min_ts # None
                                       /\ v.max_ts - v.min_ts + LoopGap \in Nat
    OBVIOUS
  <2>1. Seen(v) = L /\ Seen(v) # 0
    BY <1>1 DEF Seen
  <2>2. v.min_ts \in Nat /\ v.max_ts \in Nat /\ v.min_ts <= FileStamps[v.pos] /\ FileStamps[v.pos] <= v.max_ts
    BY <1>1, <2>1 DEF ExtentOk
  <2>3. v.min_ts # None
    BY <2>2, SourceAssumption
  <2> QED  BY ONLY <1>1, <2>2, <2>3
<1>3. PICK off : off = IF v.iter = 0 THEN 0 ELSE (v.max_ts - v.min_ts + LoopGap) * v.iter
  OBVIOUS
<1>4. off \in Nat
  <2>1. ASSUME NEW D \in Nat PROVE D * v.iter \in Nat
    BY <1>1
  <2> QED  BY <1>2, <1>3, <2>1
<1>5. PICK id : id = IF Loops(v) THEN FileId + v.iter ELSE FileId
  OBVIOUS
<1>6. id \in Nat
  BY <1>1, <1>5
<1>7. p = [source_id |-> id, timestamp_us |-> FileStamps[v.pos] + off, link_type |-> 1, src |-> "a", dst |-> "b",
           heartbeat |-> FALSE]
  BY <1>2, <1>3, <1>5 DEF Raw
<1>8. PICK t : t = FileStamps[v.pos] + off
  OBVIOUS
<1>9. t \in Nat \ {0}
  BY <1>1, <1>4, <1>8
<1>10. p \in Packets
  <2>1. p = [source_id |-> id, timestamp_us |-> t, link_type |-> 1, src |-> "a", dst |-> "b", heartbeat |-> FALSE]
    BY <1>7, <1>8
  <2>2. PICK A : A = {"a", "b", None} \cup UNION DOMAIN Shard
    OBVIOUS
  <2>3. "a" \in A /\ "b" \in A /\ 1 \in Nat
    BY <2>2
  <2>4. Packets = [source_id : Nat, timestamp_us : Nat \ {0}, link_type : Nat, src : A, dst : A, heartbeat : BOOLEAN]
    BY <2>2 DEF Packets
  <2> QED  BY ONLY <1>6, <1>9, <2>1, <2>3, <2>4
<1>11. Loops(u) <=> Loops(v)
  BY DEF Loops
<1>12. v.pos \in 1..Seen(u)
  BY <1>1
<1>13. p.timestamp_us = IF v.iter = 0 THEN FileStamps[v.pos]
                        ELSE FileStamps[v.pos] + (u.max_ts - u.min_ts + LoopGap) * v.iter
  BY <1>1, <1>3, <1>7
<1>14. /\ p.source_id = IF Loops(u) THEN FileId + v.iter ELSE FileId
       /\ ~Loops(u) => v.iter = 0
  BY <1>5, <1>7, <1>11
<1> QED  BY <1>1, <1>10, <1>12, <1>13, <1>14 DEF OfPass

LEMMA ReplayPacketStep ==
  ASSUME ReplayInv, ReplayPacket PROVE ReplayInv'
<1>1. PICK v, u, q, ts : v = replay /\ u = replay' /\ q = sent /\ ts = FileStamps[v.pos]
  OBVIOUS
<1>2. PICK w : w = Widened(v, ts)
  OBVIOUS
<1>3. /\ ReplayShape(v) /\ ExtentOk(v) /\ q \in Seq(Packets) /\ v.pc = "pass" /\ v.pos <= L
      /\ Len(q) = v.iter * L + v.pos - 1 /\ (v.iter = 0 \/ Loops(v))
      /\ \A i \in DOMAIN q : OfPass(v, q[i], (i - 1) \div L)
  BY <1>1 DEF ReplayInv, ReplayOk, ReplayPacket, L
<1>4. /\ ReplayShape(w) /\ ExtentOk(w)
      /\ w.by_clock = v.by_clock /\ w.iter = v.iter /\ w.pos = v.pos + 1
      /\ v.iter # 0 => w.min_ts = v.min_ts /\ w.max_ts = v.max_ts
      /\ Seen(v) <= Seen(w) /\ v.pos <= Seen(w) /\ Seen(v) \in Nat /\ Seen(w) \in Nat
  BY ONLY <1>1, <1>2, <1>3, WidenedOk
<1>5. u = [w EXCEPT !.pc = IF closed THEN "exit" ELSE "pass"]
  <2>1. PICK lo, hi :
          /\ lo = IF v.iter = 0 THEN Min({ts} \cup (IF v.min_ts = None THEN {} ELSE {v.min_ts})) ELSE v.min_ts
          /\ hi = IF v.iter = 0 THEN Max({ts} \cup (IF v.max_ts = None THEN {} ELSE {v.max_ts})) ELSE v.max_ts
    OBVIOUS
  <2>2. w = [v EXCEPT !.pos = @ + 1, !.min_ts = lo, !.max_ts = hi]
    BY ONLY <1>2, <2>1 DEF Widened
  <2>3. u = [v EXCEPT !.pos = @ + 1, !.pc = IF closed THEN "exit" ELSE "pass", !.min_ts = lo, !.max_ts = hi]
    BY ONLY <1>1, <2>1, ReplayPacket DEF ReplayPacket
  <2>4. v = [pc |-> v.pc, by_clock |-> v.by_clock, iter |-> v.iter, pos |-> v.pos, min_ts |-> v.min_ts, max_ts |-> v.max_ts]
    BY <1>3 DEF ReplayShape
  <2> QED  BY ONLY <2>2, <2>3, <2>4
<1>6. /\ u = [pc |-> u.pc, by_clock |-> u.by_clock, iter |-> u.iter, pos |-> u.pos, min_ts |-> u.min_ts, max_ts |-> u.max_ts]
      /\ u.by_clock = w.by_clock /\ u.iter = w.iter /\ u.pos = w.pos /\ u.min_ts = w.min_ts /\ u.max_ts = w.max_ts
      /\ u.pc = IF closed THEN "exit" ELSE "pass"
  <2>1. w = [pc |-> w.pc, by_clock |-> w.by_clock, iter |-> w.iter, pos |-> w.pos, min_ts |-> w.min_ts, max_ts |-> w.max_ts]
    BY <1>4 DEF ReplayShape
  <2> QED  BY ONLY <1>5, <2>1
<1>7. Seen(u) = Seen(w)
  BY <1>6 DEF Seen
<1>8. ReplayShape(u) /\ ExtentOk(u)
  BY <1>4, <1>6, <1>7 DEF ReplayShape, ExtentOk
<1>9. PICK p : p = Raw(PassId, ts + PassOffset, "a", "b")
  OBVIOUS
<1>10. p \in Packets /\ OfPass(u, p, v.iter)
  <2>1. p = Raw(IF Loops(v) THEN FileId + v.iter ELSE FileId,
                FileStamps[v.pos] + (IF v.iter = 0 \/ v.min_ts = None THEN 0
                                     ELSE (v.max_ts - v.min_ts + LoopGap) * v.iter), "a", "b")
    BY ONLY <1>1, <1>9 DEF PassId, PassOffset, Looping, Loops
  <2>2. /\ u.iter = v.iter /\ u.by_clock = v.by_clock /\ v.pos <= Seen(u) /\ Seen(u) \in Nat
        /\ v.iter # 0 => u.min_ts = v.min_ts /\ u.max_ts = v.max_ts
    BY ONLY <1>4, <1>6, <1>7
  <2> QED  BY ONLY <1>3, <2>1, <2>2, PassPacket
<1>11. \A i \in DOMAIN q : OfPass(u, q[i], (i - 1) \div L)
  <2> SUFFICES ASSUME NEW i \in DOMAIN q PROVE OfPass(u, q[i], (i - 1) \div L)
    OBVIOUS
  <2>1. PICK n, x : n = (i - 1) \div L /\ x = q[i]
    OBVIOUS
  <2>2. OfPass(v, x, n)
    BY <1>3, <2>1
  <2>3. /\ v.iter \in Nat /\ u.iter \in Nat /\ v.iter <= u.iter /\ u.by_clock = v.by_clock
        /\ Seen(v) \in Nat /\ Seen(u) \in Nat /\ Seen(v) <= Seen(u)
        /\ v.iter # 0 => u.min_ts = v.min_ts /\ u.max_ts = v.max_ts
    BY <1>3, <1>4, <1>6, <1>7 DEF ReplayShape
  <2>4. OfPass(u, x, n)
    BY ONLY <2>2, <2>3, OfPassKeeps
  <2> QED  BY <2>1, <2>4
<1>12. CASE closed
  <2>1. sent' = q /\ u.pc = "exit"
    BY <1>1, <1>6, <1>12 DEF ReplayPacket
  <2>2. ReplayOk(u, sent')
    BY <1>3, <1>8, <1>11, <2>1 DEF ReplayOk
  <2> QED  BY <1>1, <2>2 DEF ReplayInv
<1>13. CASE ~closed
  <2>1. sent' = Append(q, p) /\ u.pc = "pass"
    BY <1>1, <1>6, <1>9, <1>13 DEF ReplayPacket
  <2>2. /\ Append(q, p) \in Seq(Packets) /\ Len(Append(q, p)) = Len(q) + 1
        /\ \A i \in 1..Len(q) : Append(q, p)[i] = q[i]
        /\ Append(q, p)[Len(q) + 1] = p /\ Len(q) \in Nat /\ DOMAIN q = 1..Len(q)
        /\ DOMAIN Append(q, p) = 1..(Len(q) + 1)
    BY ONLY <1>3, <1>10, AppendProperties, LenProperties
  <2>3. /\ v.iter \in Nat /\ v.pos - 1 \in Nat /\ v.pos - 1 < L /\ L \in Nat /\ v.iter * L \in Nat
    BY <1>3, FileFacts DEF ReplayShape
  <2>4. (Len(q) + 1 - 1) \div L = v.iter
    <3>1. (v.iter * L + (v.pos - 1)) \div L = v.iter
      BY ONLY <2>3, Quotient
    <3>2. Len(q) + 1 - 1 = v.iter * L + (v.pos - 1)
      BY ONLY <1>3, <2>2, <2>3
    <3> QED  BY <3>1, <3>2
  <2>5. ASSUME NEW i \in 1..(Len(q) + 1) PROVE OfPass(u, Append(q, p)[i], (i - 1) \div L)
    <3>1. CASE i = Len(q) + 1
      BY <1>10, <2>2, <2>4, <3>1
    <3>2. CASE i # Len(q) + 1
      <4>1. i \in 1..Len(q)
        BY <2>2, <3>2
      <4> QED  BY <1>11, <2>2, <4>1
    <3> QED  BY <3>1, <3>2
  <2>6. Len(Append(q, p)) = u.iter * L + u.pos - 1
    <3>1. u.iter = v.iter /\ u.pos = v.pos + 1
      BY <1>4, <1>6
    <3>2. PICK m : m = v.iter * L
      OBVIOUS
    <3>3. m \in Nat /\ v.pos \in Int /\ Len(q) = m + v.pos - 1 /\ u.iter * L = m
      BY ONLY <1>3, <2>3, <3>1, <3>2 DEF ReplayShape
    <3> QED  BY ONLY <2>2, <3>1, <3>3
  <2>7. u.iter = 0 \/ Loops(u)
    BY <1>3, <1>4, <1>6 DEF Loops
  <2>8. ReplayOk(u, Append(q, p))
    BY <1>8, <2>2, <2>5, <2>6, <2>7 DEF ReplayOk
  <2> QED  BY <1>1, <2>1, <2>8 DEF ReplayInv
<1> QED  BY <1>12, <1>13

LEMMA PassEndsStep ==
  ASSUME ReplayInv, ReplayPassEnds PROVE ReplayInv'
<1>0. PICK v, u, q : v = replay /\ u = replay' /\ q = sent
  OBVIOUS
<1>a. PICK stop \in IF replay.by_clock THEN IF replay.iter + 1 < MaxPasses THEN BOOLEAN ELSE {TRUE}
                     ELSE {replay.iter + 1 >= LoopCount} :
        replay' = [replay EXCEPT !.iter = @ + 1, !.pos = 1, !.pc = IF stop THEN "exit" ELSE "pass"]
  BY Zenon DEF ReplayPassEnds
<1>1. /\ v = replay /\ u = replay' /\ q = sent
      /\ ~v.by_clock => stop = (v.iter + 1 >= LoopCount)
      /\ u = [v EXCEPT !.iter = @ + 1, !.pos = 1, !.pc = IF stop THEN "exit" ELSE "pass"]
  <2>1. ~v.by_clock => stop = (v.iter + 1 >= LoopCount)
    BY <1>0, <1>a
  <2>2. u = [v EXCEPT !.iter = @ + 1, !.pos = 1, !.pc = IF stop THEN "exit" ELSE "pass"]
    BY <1>0, <1>a
  <2> QED  BY <1>0, <2>1, <2>2
<1>2. /\ ReplayShape(v) /\ ExtentOk(v) /\ q \in Seq(Packets) /\ v.pc = "pass" /\ v.pos > L
      /\ Len(q) = v.iter * L + v.pos - 1 /\ (v.iter = 0 \/ Loops(v))
      /\ \A i \in DOMAIN q : OfPass(v, q[i], (i - 1) \div L)
  BY <1>1 DEF ReplayInv, ReplayOk, ReplayPassEnds, L
<1>3. v = [pc |-> v.pc, by_clock |-> v.by_clock, iter |-> v.iter, pos |-> v.pos, min_ts |-> v.min_ts, max_ts |-> v.max_ts]
  BY <1>2 DEF ReplayShape
<1>4. /\ u = [pc |-> u.pc, by_clock |-> u.by_clock, iter |-> u.iter, pos |-> u.pos, min_ts |-> u.min_ts, max_ts |-> u.max_ts]
      /\ u.by_clock = v.by_clock /\ u.iter = v.iter + 1 /\ u.pos = 1 /\ u.min_ts = v.min_ts /\ u.max_ts = v.max_ts
      /\ u.pc = IF stop THEN "exit" ELSE "pass"
  BY ONLY <1>1, <1>3
<1>5. v.iter \in Nat /\ L \in Nat /\ v.pos = L + 1
  BY <1>2, FileFacts DEF ReplayShape
<1>6. Seen(v) = L /\ Seen(u) = L
  BY <1>4, <1>5 DEF Seen
<1>7. ReplayShape(u) /\ ExtentOk(u)
  <2>1. u.iter \in Nat /\ u.pos \in 1..(L + 1)
    BY ONLY <1>4, <1>5
  <2>2. ReplayShape(u)
    BY ONLY <1>4, <2>1 DEF ReplayShape
  <2>3. ExtentOk(u)
    BY ONLY <1>2, <1>4, <1>6 DEF ExtentOk
  <2> QED  BY <2>2, <2>3
<1>8. \A i \in DOMAIN q : OfPass(u, q[i], (i - 1) \div L)
  <2> SUFFICES ASSUME NEW i \in DOMAIN q PROVE OfPass(u, q[i], (i - 1) \div L)
    OBVIOUS
  <2>1. PICK n, x : n = (i - 1) \div L /\ x = q[i]
    OBVIOUS
  <2>2. OfPass(v, x, n)
    BY <1>2, <2>1
  <2>3. /\ v.iter \in Nat /\ u.iter \in Nat /\ v.iter <= u.iter /\ u.by_clock = v.by_clock
        /\ Seen(v) \in Nat /\ Seen(u) \in Nat /\ Seen(v) <= Seen(u)
        /\ v.iter # 0 => u.min_ts = v.min_ts /\ u.max_ts = v.max_ts
    BY ONLY <1>4, <1>5, <1>6
  <2>4. OfPass(u, x, n)
    BY ONLY <2>2, <2>3, OfPassKeeps
  <2> QED  BY <2>1, <2>4
<1>9. Len(q) = u.iter * L + u.pos - 1
  BY ONLY <1>2, <1>4, <1>5
<1>10. u.pc = "pass" => Loops(u)
  <2>1. CASE v.by_clock
    BY <1>4, <2>1 DEF Loops
  <2>2. CASE ~v.by_clock
    <3>1. u.pc = "pass" => ~stop /\ stop = (v.iter + 1 >= LoopCount)
      BY <1>1, <1>4, <2>2
    <3>2. v.iter # 0 => Loops(v)
      BY <1>2
    <3>3. Loops(v) => Loops(u)
      BY <1>4 DEF Loops
    <3>4. v.iter = 0 /\ ~(v.iter + 1 >= LoopCount) => LoopCount > 1
      BY SourceAssumption
    <3> QED  BY <3>1, <3>2, <3>3, <3>4 DEF Loops
  <2> QED  BY <2>1, <2>2
<1>11. ReplayOk(u, q)
  BY <1>2, <1>7, <1>8, <1>9, <1>10 DEF ReplayOk
<1>12. sent' = q
  BY <1>1 DEF ReplayPassEnds
<1> QED  BY <1>1, <1>11, <1>12 DEF ReplayInv
LEMMA ReplayStep ==
  ASSUME ReplayInv, [ReplayNext \/ Serve \/ Cancel \/ Close]_captureVars PROVE ReplayInv'
<1>1. CASE ReplayPacket
  BY <1>1, ReplayPacketStep
<1>2. CASE ReplayPassEnds
  BY <1>2, PassEndsStep
<1>3. CASE ReplayFails \/ ReplayExit
  <2>1. sent' = sent /\ replay' = [replay EXCEPT !.pc = "done"]
    BY <1>3 DEF ReplayFails, ReplayExit
  <2>2. PICK v, u, q : v = replay /\ u = replay' /\ q = sent
    OBVIOUS
  <2>3. ReplayOk(v, q) /\ u = [v EXCEPT !.pc = "done"]
    BY <2>1, <2>2 DEF ReplayInv
  <2>4. v = [pc |-> v.pc, by_clock |-> v.by_clock, iter |-> v.iter, pos |-> v.pos, min_ts |-> v.min_ts, max_ts |-> v.max_ts]
    BY <2>3 DEF ReplayOk, ReplayShape
  <2>5. /\ u = [pc |-> u.pc, by_clock |-> u.by_clock, iter |-> u.iter, pos |-> u.pos, min_ts |-> u.min_ts, max_ts |-> u.max_ts]
        /\ u.by_clock = v.by_clock /\ u.iter = v.iter /\ u.pos = v.pos /\ u.min_ts = v.min_ts /\ u.max_ts = v.max_ts
        /\ u.pc = "done"
    BY ONLY <2>3, <2>4
  <2>6. Seen(u) = Seen(v) /\ (Loops(u) <=> Loops(v))
    BY ONLY <2>5 DEF Seen, Loops
  <2>7. ReplayShape(u) /\ ExtentOk(u)
    BY ONLY <2>3, <2>5, <2>6 DEF ReplayOk, ReplayShape, ExtentOk
  <2>8. \A i \in DOMAIN q : OfPass(u, q[i], (i - 1) \div L)
    BY ONLY <2>3, <2>5, <2>6 DEF ReplayOk, OfPass
  <2>9. ReplayOk(u, q)
    BY ONLY <2>3, <2>5, <2>7, <2>8 DEF ReplayOk
  <2> QED  BY <2>1, <2>2, <2>9 DEF ReplayInv
<1>4. CASE Serve \/ Cancel \/ Close \/ UNCHANGED captureVars
  <2>1. UNCHANGED <<replay, sent>>
    BY <1>4 DEF Serve, Dispatch, Take, DispatchRest, Cancel, Close, captureVars, sourceVars
  <2> QED  BY <2>1 DEF ReplayInv
<1> QED  BY <1>1, <1>2, <1>3, <1>4 DEF ReplayNext, ReplayThread

\* The three facts about the passes, inductive together: what was measured of the
\* file bounds its stamps, the number of packets sent tells pass and place, and each
\* packet carries the source and the shift of its pass.
THEOREM ReplayInvariant == ReplaySpec => []ReplayInv
<1>1. DumpInit /\ SourcesQuiet /\ live = NoSource /\ probe = NoSource /\ ReplayInit => ReplayInv
  <2> SUFFICES ASSUME SourcesQuiet, ReplayInit PROVE ReplayInv
    OBVIOUS
  <2>1. PICK v, b : v = replay /\ v = [pc |-> "pass", by_clock |-> b, iter |-> 0, pos |-> 1, min_ts |-> None, max_ts |-> None]
    BY DEF ReplayInit
  <2>2. sent = <<>> /\ <<>> \in Seq(Packets) /\ Len(<<>>) = 0 /\ DOMAIN <<>> = {}
    BY DEF SourcesQuiet
  <2>3. /\ v.iter = 0 /\ v.pos = 1 /\ v.min_ts = None /\ v.max_ts = None
        /\ v = [pc |-> v.pc, by_clock |-> v.by_clock, iter |-> v.iter, pos |-> v.pos, min_ts |-> v.min_ts, max_ts |-> v.max_ts]
    BY ONLY <2>1
  <2>4. ReplayShape(v) /\ ExtentOk(v)
    <3>1. Seen(v) = 0
      BY <2>3 DEF Seen
    <3>2. v.iter \in Nat /\ v.pos \in 1..(L + 1)
      BY <2>3, FileFacts
    <3> QED  BY ONLY <2>3, <3>1, <3>2 DEF ReplayShape, ExtentOk
  <2>5. v.iter * L + v.pos - 1 = 0
    BY <2>3, FileFacts
  <2>6. ReplayOk(v, <<>>)
    BY ONLY <2>2, <2>3, <2>4, <2>5 DEF ReplayOk
  <2> QED  BY <2>1, <2>2, <2>6 DEF ReplayInv
<1> QED  BY <1>1, ReplayStep, PTL DEF ReplaySpec

\* FileSource::run over any file and any number of passes, cut at any point by the
\* cancellation, a dead dispatcher or a read error: packets of different passes carry
\* different source ids and their stamps are at least the gap apart, so no flow and
\* no clock of one pass is met by another, although the stamps of the file come in
\* any order.
THEOREM ReplayFlowsAreApart == ReplaySpec /\ []EbpfIdle => []FlowsApart
<1>1. ReplayInv => PassesApart
  <2> SUFFICES ASSUME ReplayInv, NEW i \in DOMAIN sent, NEW j \in DOMAIN sent, (i - 1) \div L < (j - 1) \div L
      PROVE  /\ sent[i].source_id # sent[j].source_id
             /\ sent[j].timestamp_us - sent[i].timestamp_us >= LoopGap
    BY DEF PassesApart, L
  <2> QED  BY PassesDiffer
<1>2. EbpfIdle => StreamsApart
  BY DEF EbpfIdle, StreamsApart
<1> QED  BY <1>1, <1>2, ReplayInvariant, PTL DEF FlowsApart
-----------------------------------------------------------------------------
(* The flows made up for TLS connections.                                   *)

\* The SSL* pointer alone names a connection in the kernel's maps and in the
\* synthesizer: what follows is about the pointers of one process.
OneProcess == \A p, r \in Pids : p = r
\* The generations so far have tuples of their own.
TuplesApart ==
  \A s, r \in Ptrs : \A m \in 0..At(ebpf.generations, s), n \in 0..At(ebpf.generations, r) :
    SyntheticTuple(s, m) = SyntheticTuple(r, n) => s = r /\ m = n

Flow == Ptrs \X Nat
Tuple(f) == SyntheticTuple(f[1], f[2])
Tuples == {Tuple(f) : f \in Flow}
TlsEvents ==
  [kind : {"data"}, pid : Pids, conn_id : Ptrs, dir : Dirs, seq_off : Nat, len : Int, ktime : Nat, owner : Nat, at : Nat]
    \cup [kind : {"close"}, conn_id : Ptrs, ktime : Nat]
Frames ==
  [source_id : {EbpfId}, timestamp_us : Nat, link_type : {1}, src : {"a"}, dst : {"b"}, heartbeat : {FALSE},
   flow : Tuples, name : Flow, dir : Dirs, seq : Int, flags : {"psh", "fin"}, owner : Nat, at : Int]
TlsItems == Frames \cup {Heartbeat(EbpfId, t) : t \in Nat}

\* g[k] says how often each pointer has been closed when event k of the ring
\* will be handled, and the last entry how often it has been closed by now.
Epochs(ring, gen, g) ==
  /\ g \in [1..(Len(ring) + 1) -> [Ptrs -> Nat]]
  /\ \A s \in Ptrs : g[1][s] = At(gen, s)
  /\ \A k \in 1..Len(ring), s \in Ptrs :
       g[k + 1][s] = IF ring[k].kind = "close" /\ ring[k].conn_id = s THEN g[k][s] + 1 ELSE g[k][s]
  /\ \A k \in 1..(Len(ring) + 1), s \in Ptrs : g[k][s] <= g[Len(ring) + 1][s]

\* Each flow has one owner o, and d says how far its numbers are behind the
\* owner's stream in each direction.
EventsOk(ring, g, o, d) ==
  \A k \in 1..Len(ring) : ring[k].kind = "data" =>
    LET f == <<ring[k].conn_id, g[k][ring[k].conn_id]>> IN
    ring[k].owner = o[f] /\ ring[k].at - ring[k].seq_off = d[f][ring[k].dir]

Psh(q) == {i \in DOMAIN q : ~q[i].heartbeat /\ q[i].flags = "psh"}
SentOk(q, gen, o, d) ==
  \A i \in Psh(q) :
    /\ q[i].flow = Tuple(q[i].name) /\ q[i].name[2] <= At(gen, q[i].name[1])
    /\ q[i].owner = o[q[i].name]
    /\ q[i].at - q[i].seq = d[q[i].name][q[i].dir] - SYNTH_ISN

\* The flow of a connection in use continues it.
OpenOk(off, owner, at, now, o, d) ==
  \A p \in Pids, s \in Ptrs : <<p, s>> \in DOMAIN owner =>
    /\ owner[<<p, s>>] \in Nat /\ o[<<s, now[s]>>] = owner[<<p, s>>]
    /\ \A x \in Dirs : /\ <<p, s, x>> \in DOMAIN at /\ at[<<p, s, x>>] \in Nat
                       /\ at[<<p, s, x>>] - At(off, <<s, x>>) = d[<<s, now[s]>>][x]

\* The next flow of a pointer that is not in use is new.
ShutOk(ring, q, off, owner, g) ==
  \A s \in Ptrs : (\A p \in Pids : <<p, s>> \notin DOMAIN owner) =>
    /\ \A x \in Dirs : At(off, <<s, x>>) = 0
    /\ \A k \in 1..Len(ring) : ring[k].kind = "data" /\ ring[k].conn_id = s => g[k][s] < g[Len(ring) + 1][s]
    /\ \A i \in Psh(q) : q[i].name[1] = s => q[i].name[2] < g[Len(ring) + 1][s]

ConnsOk(conns, gen) ==
  \A s \in DOMAIN conns : /\ conns[s] = [tuple |-> conns[s].tuple, hi |-> conns[s].hi]
                          /\ conns[s].tuple = Tuple(<<s, At(gen, s)>>) /\ conns[s].hi \in [Dirs -> Int]

Typed(ring, q, off, gen, o, d) ==
  /\ ring \in Seq(TlsEvents) /\ q \in Seq(TlsItems)
  /\ \A s \in Ptrs : At(gen, s) \in Nat
  /\ \A s \in Ptrs, x \in Dirs : At(off, <<s, x>>) \in Nat
  /\ o \in [Flow -> Nat] /\ d \in [Flow -> [Dirs -> Int]]

FlowsOk(ring, q, off, gen, owner, at, g, o, d) ==
  /\ Typed(ring, q, off, gen, o, d)
  /\ Epochs(ring, gen, g)
  /\ EventsOk(ring, g, o, d)
  /\ SentOk(q, gen, o, d)
  /\ OpenOk(off, owner, at, g[Len(ring) + 1], o, d)
  /\ ShutOk(ring, q, off, owner, g)

LEMMA EventFacts ==
  ASSUME NEW e \in TlsEvents
  PROVE  /\ e.kind \in {"data", "close"} /\ e.conn_id \in Ptrs /\ e.ktime \in Nat
         /\ e.kind = "data" => /\ e.dir \in Dirs /\ e.seq_off \in Nat /\ e.len \in Int /\ e.owner \in Nat /\ e.at \in Nat
                               /\ e.pid \in Pids
BY DEF TlsEvents

LEMMA ItemFacts ==
  ASSUME NEW x \in TlsItems
  PROVE  /\ x.source_id = EbpfId
         /\ ~x.heartbeat => /\ x.name \in Flow /\ x.name = <<x.name[1], x.name[2]>> /\ x.name[1] \in Ptrs /\ x.name[2] \in Nat
                            /\ x.dir \in Dirs /\ x.seq \in Int /\ x.owner \in Nat /\ x.at \in Int /\ x \in Frames
<1>1. ASSUME NEW t \in Nat, x = Heartbeat(EbpfId, t) PROVE x.source_id = EbpfId /\ x.heartbeat
  BY <1>1 DEF Heartbeat, Raw
<1>2. CASE x \in Frames
  <2>1. x.source_id = EbpfId /\ x.name \in Flow /\ x.dir \in Dirs /\ x.seq \in Int /\ x.owner \in Nat /\ x.at \in Int
    BY <1>2 DEF Frames
  <2>2. x.name = <<x.name[1], x.name[2]>> /\ x.name[1] \in Ptrs /\ x.name[2] \in Nat
    BY <2>1 DEF Flow
  <2> QED  BY <1>2, <2>1, <2>2
<1> QED  BY <1>1, <1>2 DEF TlsItems

LEMMA PutFacts ==
  ASSUME NEW f, NEW k, NEW v
  PROVE  /\ DOMAIN Put(f, k, v) = DOMAIN f \cup {k} /\ Put(f, k, v)[k] = v
         /\ \A x \in DOMAIN f : x # k => Put(f, k, v)[x] = f[x]
         /\ At(Put(f, k, v), k) = v /\ \A x : x # k => At(Put(f, k, v), x) = At(f, x)
BY DEF Put, At

\* What the invariant says of the segments.
LEMMA SegmentsApart ==
  ASSUME NEW ring, NEW q, NEW off, NEW gen, NEW owner, NEW at, NEW g, NEW o, NEW d,
         FlowsOk(ring, q, off, gen, owner, at, g, o, d),
         NEW i \in Psh(q), NEW j \in Psh(q), q[i].name = q[j].name, q[i].dir = q[j].dir
  PROVE  q[i].owner = q[j].owner /\ q[i].seq - q[j].seq = q[i].at - q[j].at /\ (q[i].seq = q[j].seq => q[i].at = q[j].at)
<1>1. q \in Seq(TlsItems) /\ d \in [Flow -> [Dirs -> Int]] /\ SentOk(q, gen, o, d)
  BY DEF FlowsOk, Typed
<1>2. i \in DOMAIN q /\ j \in DOMAIN q /\ q[i] \in TlsItems /\ q[j] \in TlsItems /\ ~q[i].heartbeat /\ ~q[j].heartbeat
  BY <1>1 DEF Psh
<1>3. PICK a, b : a = q[i] /\ b = q[j]
  OBVIOUS
<1>4. /\ a.name \in Flow /\ a.dir \in Dirs /\ a.seq \in Int /\ a.at \in Int /\ b.seq \in Int /\ b.at \in Int
      /\ b.name = a.name /\ b.dir = a.dir
  BY <1>2, <1>3, ItemFacts
<1>5. PICK c : c = d[a.name][a.dir]
  OBVIOUS
<1>6. c \in Int
  BY <1>1, <1>4, <1>5
<1>7. a.owner = b.owner /\ a.at - a.seq = c - SYNTH_ISN /\ b.at - b.seq = c - SYNTH_ISN
  BY <1>1, <1>3, <1>4, <1>5 DEF SentOk
<1>8. a.at - a.seq = c - 1 /\ b.at - b.seq = c - 1
  BY <1>7 DEF SYNTH_ISN
<1> QED  BY <1>3, <1>4, <1>6, <1>7, <1>8
\* A flow that nothing belongs to yet may be given to any owner.
Unused(ring, q, g, f) ==
  /\ \A k \in 1..Len(ring) : ring[k].kind = "data" => <<ring[k].conn_id, g[k][ring[k].conn_id]>> # f
  /\ \A i \in Psh(q) : q[i].name # f
Retold(o, d, f, a, b, o2, d2) == o2 = [o EXCEPT ![f] = a] /\ d2 = [d EXCEPT ![f] = b]

LEMMA Retell ==
  ASSUME NEW ring, NEW q, NEW off, NEW gen, NEW g, NEW o, NEW d, NEW f \in Flow, NEW a \in Nat, NEW b \in [Dirs -> Int],
         Typed(ring, q, off, gen, o, d), Epochs(ring, gen, g), EventsOk(ring, g, o, d), SentOk(q, gen, o, d),
         Unused(ring, q, g, f), NEW o2, NEW d2, Retold(o, d, f, a, b, o2, d2)
  PROVE  /\ Typed(ring, q, off, gen, o2, d2) /\ EventsOk(ring, g, o2, d2) /\ SentOk(q, gen, o2, d2)
         /\ o2[f] = a /\ d2[f] = b /\ \A h \in Flow : h # f => o2[h] = o[h] /\ d2[h] = d[h]
<1>1. o \in [Flow -> Nat] /\ d \in [Flow -> [Dirs -> Int]] /\ ring \in Seq(TlsEvents) /\ q \in Seq(TlsItems)
  BY DEF Typed
<1>2. /\ o2 \in [Flow -> Nat] /\ d2 \in [Flow -> [Dirs -> Int]] /\ o2[f] = a /\ d2[f] = b
      /\ \A h \in Flow : h # f => o2[h] = o[h] /\ d2[h] = d[h]
  BY <1>1 DEF Retold
<1>3. Typed(ring, q, off, gen, o2, d2)
  BY <1>2 DEF Typed
<1>4. EventsOk(ring, g, o2, d2)
  <2> SUFFICES ASSUME NEW k \in 1..Len(ring), ring[k].kind = "data"
      PROVE  /\ ring[k].owner = o2[<<ring[k].conn_id, g[k][ring[k].conn_id]>>]
             /\ ring[k].at - ring[k].seq_off = d2[<<ring[k].conn_id, g[k][ring[k].conn_id]>>][ring[k].dir]
    BY DEF EventsOk
  <2>1. PICK h : h = <<ring[k].conn_id, g[k][ring[k].conn_id]>>
    OBVIOUS
  <2>2. ring[k] \in TlsEvents /\ k \in 1..(Len(ring) + 1)
    BY <1>1
  <2>3. ring[k].conn_id \in Ptrs
    BY <2>2, EventFacts
  <2>4. g[k][ring[k].conn_id] \in Nat
    BY <2>2, <2>3 DEF Epochs
  <2>5. h \in Flow /\ h # f
    BY <2>1, <2>3, <2>4 DEF Flow, Unused
  <2>6. ring[k].owner = o[h] /\ ring[k].at - ring[k].seq_off = d[h][ring[k].dir]
    BY <2>1 DEF EventsOk
  <2> QED  BY <1>2, <2>1, <2>5, <2>6
<1>5. SentOk(q, gen, o2, d2)
  <2> SUFFICES ASSUME NEW i \in Psh(q)
      PROVE  /\ q[i].flow = Tuple(q[i].name) /\ q[i].name[2] <= At(gen, q[i].name[1])
             /\ q[i].owner = o2[q[i].name] /\ q[i].at - q[i].seq = d2[q[i].name][q[i].dir] - SYNTH_ISN
    BY DEF SentOk
  <2>1. q[i] \in TlsItems /\ ~q[i].heartbeat
    BY <1>1 DEF Psh
  <2>2. q[i].name \in Flow /\ q[i].name # f
    BY <2>1, ItemFacts DEF Unused
  <2>3. /\ q[i].flow = Tuple(q[i].name) /\ q[i].name[2] <= At(gen, q[i].name[1])
        /\ q[i].owner = o[q[i].name] /\ q[i].at - q[i].seq = d[q[i].name][q[i].dir] - SYNTH_ISN
    BY DEF SentOk
  <2> QED  BY <1>2, <2>2, <2>3
<1> QED  BY <1>2, <1>3, <1>4, <1>5

\* SSL_new on a pointer that is not in use.
LEMMA NewKeeps ==
  ASSUME OneProcess, NEW ring, NEW q, NEW off, NEW gen, NEW owner, NEW at, NEW g, NEW o, NEW d,
         FlowsOk(ring, q, off, gen, owner, at, g, o, d),
         NEW pid \in Pids, NEW ssl \in Ptrs, <<pid, ssl>> \notin DOMAIN owner, NEW c \in Nat
  PROVE  \E o2, d2 : FlowsOk(ring, q, off, gen, Put(owner, <<pid, ssl>>, c),
                             Put(Put(at, <<pid, ssl, "c2s">>, 0), <<pid, ssl, "s2c">>, 0), g, o2, d2)
<1>1. /\ Typed(ring, q, off, gen, o, d) /\ Epochs(ring, gen, g) /\ EventsOk(ring, g, o, d) /\ SentOk(q, gen, o, d)
      /\ OpenOk(off, owner, at, g[Len(ring) + 1], o, d) /\ ShutOk(ring, q, off, owner, g)
  BY DEF FlowsOk
<1>2. PICK now : now = g[Len(ring) + 1]
  OBVIOUS
<1>3. Len(ring) \in Nat /\ now \in [Ptrs -> Nat]
  <2>1. Len(ring) \in Nat
    BY <1>1, LenProperties DEF Typed
  <2>2. g \in [1..(Len(ring) + 1) -> [Ptrs -> Nat]]
    BY <1>1 DEF Epochs
  <2>3. g[Len(ring) + 1] \in [Ptrs -> Nat]
    BY ONLY <2>1, <2>2
  <2> QED  BY <2>1, <2>3, <1>2
<1>4. \A p \in Pids : <<p, ssl>> \notin DOMAIN owner
  BY DEF OneProcess
<1>5. PICK f : f = <<ssl, now[ssl]>>
  OBVIOUS
<1>6. f \in Flow
  BY <1>3, <1>5 DEF Flow
<1>7. /\ \A x \in Dirs : At(off, <<ssl, x>>) = 0
      /\ \A k \in 1..Len(ring) : ring[k].kind = "data" /\ ring[k].conn_id = ssl => g[k][ssl] < now[ssl]
      /\ \A i \in Psh(q) : q[i].name[1] = ssl => q[i].name[2] < now[ssl]
  BY <1>1, <1>2, <1>4 DEF ShutOk
<1>8. ASSUME NEW k \in 1..Len(ring), ring[k].kind = "data" PROVE <<ring[k].conn_id, g[k][ring[k].conn_id]>> # f
  <2>1. ring[k].conn_id = ssl => g[k][ssl] # now[ssl]
    <3>1. k \in 1..(Len(ring) + 1)
      BY <1>3
    <3>2. g[k][ssl] \in Nat /\ now[ssl] \in Nat
      BY <1>1, <1>3, <3>1 DEF Epochs
    <3> QED  BY <1>7, <1>8, <3>2
  <2> QED  BY <1>5, <2>1
<1>9. ASSUME NEW i \in Psh(q) PROVE q[i].name # f
  <2>1. q[i] \in TlsItems /\ ~q[i].heartbeat
    BY <1>1 DEF Typed, Psh
  <2>2. q[i].name[2] \in Nat /\ now[ssl] \in Nat
    BY <1>3, <2>1, ItemFacts
  <2>3. q[i].name[1] = ssl => q[i].name[2] # now[ssl]
    BY <1>7, <2>2
  <2> QED  BY <1>5, <2>3
<1>10. PICK b : b = [x \in Dirs |-> 0]
  OBVIOUS
<1>11. b \in [Dirs -> Int]
  BY <1>10
<1>12. PICK o2, d2 : Retold(o, d, f, c, b, o2, d2)
  BY DEF Retold
<1>13. /\ Typed(ring, q, off, gen, o2, d2) /\ EventsOk(ring, g, o2, d2) /\ SentOk(q, gen, o2, d2)
       /\ o2[f] = c /\ d2[f] = b /\ \A h \in Flow : h # f => o2[h] = o[h] /\ d2[h] = d[h]
  <2>1. Unused(ring, q, g, f) /\ c \in Nat
    BY <1>8, <1>9 DEF Unused
  <2> QED  BY ONLY <1>1, <1>6, <1>11, <1>12, <2>1, Retell
<1>14. PICK w, t : w = Put(owner, <<pid, ssl>>, c) /\ t = Put(Put(at, <<pid, ssl, "c2s">>, 0), <<pid, ssl, "s2c">>, 0)
  OBVIOUS
<1>15. DOMAIN w = DOMAIN owner \cup {<<pid, ssl>>} /\ w[<<pid, ssl>>] = c
       /\ \A x \in DOMAIN owner : x # <<pid, ssl>> => w[x] = owner[x]
  BY ONLY <1>14 DEF Put
<1>16. /\ \A x \in Dirs : <<pid, ssl, x>> \in DOMAIN t /\ t[<<pid, ssl, x>>] = 0
       /\ \A x \in DOMAIN at : x \in DOMAIN t /\ ((\A y \in Dirs : x # <<pid, ssl, y>>) => t[x] = at[x])
  <2>1. PICK m : m = Put(at, <<pid, ssl, "c2s">>, 0)
    OBVIOUS
  <2>2. DOMAIN m = DOMAIN at \cup {<<pid, ssl, "c2s">>} /\ m[<<pid, ssl, "c2s">>] = 0
        /\ \A x \in DOMAIN at : x # <<pid, ssl, "c2s">> => m[x] = at[x]
    BY ONLY <2>1 DEF Put
  <2>3. DOMAIN t = DOMAIN m \cup {<<pid, ssl, "s2c">>} /\ t[<<pid, ssl, "s2c">>] = 0
        /\ \A x \in DOMAIN m : x # <<pid, ssl, "s2c">> => t[x] = m[x]
    BY ONLY <1>14, <2>1 DEF Put
  <2> QED  BY <2>2, <2>3 DEF Dirs
<1>17. OpenOk(off, w, t, now, o2, d2)
  <2> SUFFICES ASSUME NEW p \in Pids, NEW s \in Ptrs, <<p, s>> \in DOMAIN w
      PROVE  /\ w[<<p, s>>] \in Nat /\ o2[<<s, now[s]>>] = w[<<p, s>>]
             /\ \A x \in Dirs : /\ <<p, s, x>> \in DOMAIN t /\ t[<<p, s, x>>] \in Nat
                                /\ t[<<p, s, x>>] - At(off, <<s, x>>) = d2[<<s, now[s]>>][x]
    BY DEF OpenOk
  <2>1. CASE s = ssl
    <3>1. p = pid
      BY DEF OneProcess
    <3>2. w[<<p, s>>] = c /\ o2[<<s, now[s]>>] = c /\ d2[<<s, now[s]>>] = b
      BY <1>5, <1>13, <1>15, <2>1, <3>1
    <3>3. ASSUME NEW x \in Dirs
          PROVE  /\ <<p, s, x>> \in DOMAIN t /\ t[<<p, s, x>>] = 0 /\ At(off, <<s, x>>) = 0 /\ d2[<<s, now[s]>>][x] = 0
      BY <1>7, <1>10, <1>16, <2>1, <3>1, <3>2
    <3> QED  BY <3>2, <3>3
  <2>2. CASE s # ssl
    <3>1. <<p, s>> # <<pid, ssl>> /\ \A x, y \in Dirs : <<p, s, x>> # <<pid, ssl, y>>
      BY <2>2
    <3>2. <<p, s>> \in DOMAIN owner /\ w[<<p, s>>] = owner[<<p, s>>]
      BY <1>15, <3>1
    <3>3. <<s, now[s]>> # f /\ <<s, now[s]>> \in Flow
      BY <1>3, <1>5, <2>2 DEF Flow
    <3>4. /\ owner[<<p, s>>] \in Nat /\ o[<<s, now[s]>>] = owner[<<p, s>>]
          /\ \A x \in Dirs : /\ <<p, s, x>> \in DOMAIN at /\ at[<<p, s, x>>] \in Nat
                             /\ at[<<p, s, x>>] - At(off, <<s, x>>) = d[<<s, now[s]>>][x]
      BY <1>1, <1>2, <3>2 DEF OpenOk
    <3>5. o2[<<s, now[s]>>] = o[<<s, now[s]>>] /\ d2[<<s, now[s]>>] = d[<<s, now[s]>>]
      BY <1>13, <3>3
    <3>6. ASSUME NEW x \in Dirs PROVE <<p, s, x>> \in DOMAIN t /\ t[<<p, s, x>>] = at[<<p, s, x>>]
      BY <1>16, <3>1, <3>4
    <3> QED  BY <3>2, <3>4, <3>5, <3>6
  <2> QED  BY <2>1, <2>2
<1>18. ShutOk(ring, q, off, w, g)
  BY <1>1, <1>15 DEF ShutOk
<1>19. FlowsOk(ring, q, off, gen, w, t, g, o2, d2)
  BY ONLY <1>1, <1>2, <1>13, <1>17, <1>18 DEF FlowsOk
<1> QED  BY <1>14, <1>19
\* SSL_write and SSL_read: what is emitted belongs to the connection's flow, and the
\* offset moves on with the stream.
LEMMA DataKeeps ==
  ASSUME OneProcess, NEW ring, NEW q, NEW off, NEW gen, NEW owner, NEW at, NEW g, NEW o, NEW d,
         FlowsOk(ring, q, off, gen, owner, at, g, o, d),
         NEW pid \in Pids, NEW ssl \in Ptrs, NEW dir \in Dirs, NEW n \in Nat, <<pid, ssl>> \in DOMAIN owner,
         NEW ch \in Seq(TlsEvents),
         \A k \in 1..Len(ch) :
           /\ ch[k].kind = "data" /\ ch[k].conn_id = ssl /\ ch[k].dir = dir /\ ch[k].owner = owner[<<pid, ssl>>]
           /\ ch[k].at - ch[k].seq_off = at[<<pid, ssl, dir>>] - At(off, <<ssl, dir>>)
  PROVE  \E g2 : FlowsOk(ring \o ch, q, Put(off, <<ssl, dir>>, At(off, <<ssl, dir>>) + n), gen, owner,
                         Put(at, <<pid, ssl, dir>>, at[<<pid, ssl, dir>>] + n), g2, o, d)
<1>1. /\ Typed(ring, q, off, gen, o, d) /\ Epochs(ring, gen, g) /\ EventsOk(ring, g, o, d) /\ SentOk(q, gen, o, d)
      /\ OpenOk(off, owner, at, g[Len(ring) + 1], o, d) /\ ShutOk(ring, q, off, owner, g)
  BY DEF FlowsOk
<1>2. PICK N, M, r2, now : N = Len(ring) /\ M = Len(ch) /\ r2 = ring \o ch /\ now = g[Len(ring) + 1]
  OBVIOUS
<1>3. ring \in Seq(TlsEvents) /\ N \in Nat /\ M \in Nat /\ now \in [Ptrs -> Nat] /\ g \in [1..(N + 1) -> [Ptrs -> Nat]]
  <2>1. ring \in Seq(TlsEvents) /\ ch \in Seq(TlsEvents)
    BY <1>1 DEF Typed
  <2>2. N \in Nat /\ M \in Nat
    BY ONLY <1>2, <2>1, LenProperties
  <2>3. g \in [1..(N + 1) -> [Ptrs -> Nat]]
    BY ONLY <1>1, <1>2 DEF Epochs
  <2> QED  BY ONLY <1>2, <2>1, <2>2, <2>3
<1>4. /\ r2 \in Seq(TlsEvents) /\ Len(r2) = N + M
      /\ \A k \in 1..N : r2[k] = ring[k]
      /\ \A k \in (N + 1)..(N + M) : r2[k] = ch[k - N] /\ k - N \in 1..M
  <2>1. /\ ring \o ch \in Seq(TlsEvents) /\ Len(ring \o ch) = Len(ring) + Len(ch)
        /\ \A k \in 1..(Len(ring) + Len(ch)) : (ring \o ch)[k] = IF k <= Len(ring) THEN ring[k] ELSE ch[k - Len(ring)]
    BY ONLY <1>3, ch \in Seq(TlsEvents), ConcatProperties
  <2> QED  BY ONLY <1>2, <1>3, <2>1
<1>5. PICK g2 : g2 = [k \in 1..(N + M + 1) |-> IF k <= N + 1 THEN g[k] ELSE now]
  OBVIOUS
<1>6. /\ g2 \in [1..(N + M + 1) -> [Ptrs -> Nat]] /\ \A k \in 1..(N + 1) : g2[k] = g[k]
      /\ \A k \in (N + 1)..(N + M + 1) : g2[k] = now
  BY ONLY <1>2, <1>3, <1>5
<1>a. \A k \in 1..N : g2[k] = g[k] /\ r2[k] = ring[k] /\ k \in 1..(N + 1)
  BY ONLY <1>3, <1>4, <1>6
<1>7. PICK c : c = owner[<<pid, ssl>>]
  OBVIOUS
<1>8. /\ c = o[<<ssl, now[ssl]>>]
      /\ \A x \in Dirs : /\ <<pid, ssl, x>> \in DOMAIN at /\ at[<<pid, ssl, x>>] \in Nat
                         /\ at[<<pid, ssl, x>>] - At(off, <<ssl, x>>) = d[<<ssl, now[ssl]>>][x]
  BY <1>1, <1>2, <1>7 DEF OpenOk
<1>9. Epochs(r2, gen, g2)
  <2>1. g2 \in [1..(Len(r2) + 1) -> [Ptrs -> Nat]] /\ g2[Len(r2) + 1] = now
    BY ONLY <1>3, <1>4, <1>6
  <2>2. \A s \in Ptrs : g2[1][s] = At(gen, s)
    BY <1>1, <1>3, <1>6 DEF Epochs
  <2>3. ASSUME NEW k \in 1..Len(r2), NEW s \in Ptrs
        PROVE  g2[k + 1][s] = IF r2[k].kind = "close" /\ r2[k].conn_id = s THEN g2[k][s] + 1 ELSE g2[k][s]
    <3>1. CASE k \in 1..N
      <4>1. g2[k] = g[k] /\ g2[k + 1] = g[k + 1] /\ r2[k] = ring[k]
        <5>1. k + 1 \in 1..(N + 1)
          BY ONLY <1>3, <3>1
        <5> QED  BY ONLY <1>a, <1>6, <3>1, <5>1
      <4>2. g[k + 1][s] = IF ring[k].kind = "close" /\ ring[k].conn_id = s THEN g[k][s] + 1 ELSE g[k][s]
        BY <1>1, <1>2, <3>1 DEF Epochs
      <4> QED  BY <4>1, <4>2
    <3>2. CASE k \in (N + 1)..(N + M)
      <4>1. g2[k] = now /\ g2[k + 1] = now
        BY ONLY <1>3, <1>6, <3>2
      <4>2. r2[k].kind = "data"
        BY <1>2, <1>4, <3>2
      <4> QED  BY <4>1, <4>2
    <3> QED  BY ONLY <1>3, <1>4, <2>3, <3>1, <3>2
  <2>4. ASSUME NEW k \in 1..(Len(r2) + 1), NEW s \in Ptrs PROVE g2[k][s] <= g2[Len(r2) + 1][s]
    <3>1. CASE k \in 1..(N + 1)
      <4>1. g[k][s] <= now[s]
        BY <1>1, <1>2, <3>1 DEF Epochs
      <4> QED  BY <1>6, <2>1, <3>1, <4>1
    <3>2. CASE k \in (N + 1)..(N + M + 1)
      <4>1. g2[k] = now /\ now[s] \in Nat
        BY <1>3, <1>6, <3>2
      <4> QED  BY <2>1, <4>1
    <3> QED  BY ONLY <1>3, <1>4, <2>4, <3>1, <3>2
  <2> QED  BY <2>1, <2>2, <2>3, <2>4 DEF Epochs
<1>10. EventsOk(r2, g2, o, d)
  <2> SUFFICES ASSUME NEW k \in 1..Len(r2), r2[k].kind = "data"
      PROVE  /\ r2[k].owner = o[<<r2[k].conn_id, g2[k][r2[k].conn_id]>>]
             /\ r2[k].at - r2[k].seq_off = d[<<r2[k].conn_id, g2[k][r2[k].conn_id]>>][r2[k].dir]
    BY DEF EventsOk
  <2>1. CASE k \in 1..N
    <3>1. g2[k] = g[k] /\ r2[k] = ring[k]
      BY ONLY <1>a, <2>1
    <3> QED  BY <1>1, <1>2, <2>1, <3>1 DEF EventsOk
  <2>2. CASE k \in (N + 1)..(N + M)
    <3>1. g2[k] = now /\ r2[k] = ch[k - N] /\ k - N \in 1..Len(ch)
      BY ONLY <1>2, <1>3, <1>4, <1>6, <2>2
    <3> QED  BY <1>7, <1>8, <3>1, ZenonT(60)
  <2> QED  BY ONLY <1>3, <1>4, <2>1, <2>2, k \in 1..Len(r2)
<1>11. PICK off2, at2, z : /\ off2 = Put(off, <<ssl, dir>>, At(off, <<ssl, dir>>) + n)
                           /\ at2 = Put(at, <<pid, ssl, dir>>, at[<<pid, ssl, dir>>] + n) /\ z = At(off, <<ssl, dir>>)
  OBVIOUS
<1>12. z \in Nat
  BY <1>1, <1>11 DEF Typed
<1>13. At(off2, <<ssl, dir>>) = z + n /\ \A s, x : <<s, x>> # <<ssl, dir>> => At(off2, <<s, x>>) = At(off, <<s, x>>)
  BY ONLY <1>11 DEF Put, At
<1>14. DOMAIN at2 = DOMAIN at /\ at2[<<pid, ssl, dir>>] = at[<<pid, ssl, dir>>] + n
       /\ \A y \in DOMAIN at : y # <<pid, ssl, dir>> => at2[y] = at[y]
  <2>1. <<pid, ssl, dir>> \in DOMAIN at
    BY <1>8
  <2> QED  BY ONLY <1>11, <2>1 DEF Put
<1>15. Typed(r2, q, off2, gen, o, d)
  <2>1. ASSUME NEW s \in Ptrs, NEW x \in Dirs PROVE At(off2, <<s, x>>) \in Nat
    <3>1. CASE <<s, x>> = <<ssl, dir>>
      BY <1>12, <1>13, <3>1
    <3>2. CASE <<s, x>> # <<ssl, dir>>
      BY <1>1, <1>13, <3>2 DEF Typed
    <3> QED  BY <3>1, <3>2
  <2> QED  BY <1>1, <1>4, <2>1 DEF Typed
<1>16. OpenOk(off2, owner, at2, now, o, d)
  <2> SUFFICES ASSUME NEW p \in Pids, NEW s \in Ptrs, <<p, s>> \in DOMAIN owner
      PROVE  /\ owner[<<p, s>>] \in Nat /\ o[<<s, now[s]>>] = owner[<<p, s>>]
             /\ \A x \in Dirs : /\ <<p, s, x>> \in DOMAIN at2 /\ at2[<<p, s, x>>] \in Nat
                                /\ at2[<<p, s, x>>] - At(off2, <<s, x>>) = d[<<s, now[s]>>][x]
    BY DEF OpenOk
  <2>1. /\ owner[<<p, s>>] \in Nat /\ o[<<s, now[s]>>] = owner[<<p, s>>]
        /\ \A x \in Dirs : /\ <<p, s, x>> \in DOMAIN at /\ at[<<p, s, x>>] \in Nat
                           /\ at[<<p, s, x>>] - At(off, <<s, x>>) = d[<<s, now[s]>>][x]
    BY <1>1, <1>2 DEF OpenOk
  <2>2. p = pid
    BY DEF OneProcess
  <2>3. ASSUME NEW x \in Dirs
        PROVE  /\ <<p, s, x>> \in DOMAIN at2 /\ at2[<<p, s, x>>] \in Nat
               /\ at2[<<p, s, x>>] - At(off2, <<s, x>>) = d[<<s, now[s]>>][x]
    <3>1. CASE s = ssl /\ x = dir
      <4>1. PICK a : a = at[<<pid, ssl, dir>>]
        OBVIOUS
      <4>2. a \in Nat /\ at2[<<p, s, x>>] = a + n /\ At(off2, <<s, x>>) = z + n /\ a - z = d[<<s, now[s]>>][x]
        BY <1>11, <1>13, <1>14, <2>1, <2>2, <3>1, <4>1
      <4>3. (a + n) - (z + n) = a - z /\ a + n \in Nat
        BY <1>12, <4>2
      <4> QED  BY <1>14, <2>1, <4>2, <4>3
    <3>2. CASE ~(s = ssl /\ x = dir)
      <4>1. <<s, x>> # <<ssl, dir>> /\ <<p, s, x>> # <<pid, ssl, dir>>
        BY <3>2
      <4>2. at2[<<p, s, x>>] = at[<<p, s, x>>] /\ <<p, s, x>> \in DOMAIN at2
        BY ONLY <1>14, <2>1, <4>1, x \in Dirs
      <4>3. At(off2, <<s, x>>) = At(off, <<s, x>>)
        BY ONLY <1>13, <4>1
      <4> QED  BY <2>1, <4>2, <4>3
    <3> QED  BY <3>1, <3>2
  <2> QED  BY <2>1, <2>3
<1>17. ShutOk(r2, q, off2, owner, g2)
  <2> SUFFICES ASSUME NEW s \in Ptrs, \A p \in Pids : <<p, s>> \notin DOMAIN owner
      PROVE  /\ \A x \in Dirs : At(off2, <<s, x>>) = 0
             /\ \A k \in 1..Len(r2) : r2[k].kind = "data" /\ r2[k].conn_id = s => g2[k][s] < g2[Len(r2) + 1][s]
             /\ \A i \in Psh(q) : q[i].name[1] = s => q[i].name[2] < g2[Len(r2) + 1][s]
    BY DEF ShutOk
  <2>1. s # ssl
    OBVIOUS
  <2>2. /\ \A x \in Dirs : At(off, <<s, x>>) = 0
        /\ \A k \in 1..N : ring[k].kind = "data" /\ ring[k].conn_id = s => g[k][s] < now[s]
        /\ \A i \in Psh(q) : q[i].name[1] = s => q[i].name[2] < now[s]
    BY <1>1, <1>2 DEF ShutOk
  <2>3. g2[Len(r2) + 1] = now
    BY ONLY <1>3, <1>4, <1>6
  <2>4. ASSUME NEW k \in 1..Len(r2), r2[k].kind = "data", r2[k].conn_id = s PROVE g2[k][s] < now[s]
    <3>1. CASE k \in 1..N
      <4>1. g2[k] = g[k] /\ r2[k] = ring[k]
        BY ONLY <1>a, <3>1
      <4> QED  BY <2>2, <2>4, <3>1, <4>1
    <3>2. CASE k \in (N + 1)..(N + M)
      <4>1. r2[k].conn_id = ssl
        BY <1>2, <1>4, <3>2
      <4> QED  BY <2>1, <2>4, <4>1
    <3> QED  BY ONLY <1>3, <1>4, <2>4, <3>1, <3>2
  <2>5. ASSUME NEW x \in Dirs PROVE At(off2, <<s, x>>) = 0
    <3>1. <<s, x>> # <<ssl, dir>>
      BY <2>1
    <3> QED  BY <1>13, <2>2, <3>1
  <2> QED  BY <2>2, <2>3, <2>4, <2>5
<1>18. g2[Len(r2) + 1] = now
  BY ONLY <1>3, <1>4, <1>6
<1>19. FlowsOk(r2, q, off2, gen, owner, at2, g2, o, d)
  BY ONLY <1>1, <1>9, <1>10, <1>15, <1>16, <1>17, <1>18 DEF FlowsOk
<1> QED  BY <1>2, <1>11, <1>19

\* A close whose event found room: what the connection still sends is a new flow.
Forgotten(off, ssl) == [k \in DOMAIN off \ {<<ssl, x>> : x \in Dirs} |-> off[k]]
MaybeFreed(owner, k, w) == w = owner \/ w = [y \in DOMAIN owner \ {k} |-> owner[y]]
LEMMA CloseKeeps ==
  ASSUME OneProcess, NEW ring, NEW q, NEW off, NEW gen, NEW owner, NEW at, NEW g, NEW o, NEW d,
         FlowsOk(ring, q, off, gen, owner, at, g, o, d),
         NEW pid \in Pids, NEW ssl \in Ptrs, <<pid, ssl>> \in DOMAIN owner,
         NEW e \in TlsEvents, e.kind = "close", e.conn_id = ssl,
         NEW off2, off2 = Forgotten(off, ssl), NEW w, MaybeFreed(owner, <<pid, ssl>>, w)
  PROVE  \E g2, o2, d2 : FlowsOk(Append(ring, e), q, off2, gen, w, at, g2, o2, d2)
<1>1. /\ Typed(ring, q, off, gen, o, d) /\ Epochs(ring, gen, g) /\ EventsOk(ring, g, o, d) /\ SentOk(q, gen, o, d)
      /\ OpenOk(off, owner, at, g[Len(ring) + 1], o, d) /\ ShutOk(ring, q, off, owner, g)
  BY DEF FlowsOk
<1>2. PICK N, r2, now, next : /\ N = Len(ring) /\ r2 = Append(ring, e) /\ now = g[Len(ring) + 1]
                              /\ next = [s \in Ptrs |-> IF s = ssl THEN now[s] + 1 ELSE now[s]]
  OBVIOUS
<1>3. /\ ring \in Seq(TlsEvents) /\ N \in Nat /\ now \in [Ptrs -> Nat] /\ g \in [1..(N + 1) -> [Ptrs -> Nat]]
      /\ \A k \in 1..(N + 1), s \in Ptrs : g[k][s] <= now[s]
  <2>1. ring \in Seq(TlsEvents)
    BY <1>1 DEF Typed
  <2>2. N \in Nat
    BY ONLY <1>2, <2>1, LenProperties
  <2>3. g \in [1..(N + 1) -> [Ptrs -> Nat]] /\ \A k \in 1..(N + 1), s \in Ptrs : g[k][s] <= now[s]
    BY ONLY <1>1, <1>2 DEF Epochs
  <2> QED  BY ONLY <1>2, <2>1, <2>2, <2>3
<1>4. next \in [Ptrs -> Nat] /\ next[ssl] = now[ssl] + 1 /\ \A s \in Ptrs : s # ssl => next[s] = now[s]
  BY <1>2, <1>3
<1>5. /\ r2 \in Seq(TlsEvents) /\ Len(r2) = N + 1 /\ r2[N + 1] = e
      /\ \A k \in 1..N : r2[k] = ring[k] /\ k \in 1..(N + 1)
  <2>1. /\ Append(ring, e) \in Seq(TlsEvents) /\ Len(Append(ring, e)) = Len(ring) + 1
        /\ \A k \in 1..Len(ring) : Append(ring, e)[k] = ring[k]
        /\ Append(ring, e)[Len(ring) + 1] = e
    BY ONLY <1>3, e \in TlsEvents, AppendProperties
  <2> QED  BY ONLY <1>2, <1>3, <2>1
<1>6. PICK g2 : g2 = [k \in 1..(N + 2) |-> IF k <= N + 1 THEN g[k] ELSE next]
  OBVIOUS
<1>7. /\ g2 \in [1..(N + 2) -> [Ptrs -> Nat]] /\ g2[N + 2] = next /\ \A k \in 1..(N + 1) : g2[k] = g[k]
      /\ \A k \in 1..N : g2[k] = g[k]
  BY ONLY <1>3, <1>4, <1>6
<1>8. Len(r2) + 1 = N + 2 /\ g2[Len(r2) + 1] = next
  BY ONLY <1>3, <1>5, <1>7
<1>9. Epochs(r2, gen, g2)
  <2>1. g2 \in [1..(Len(r2) + 1) -> [Ptrs -> Nat]] /\ \A s \in Ptrs : g2[1][s] = At(gen, s)
    <3>1. 1 \in 1..(N + 1)
      BY <1>3
    <3> QED  BY <1>1, <1>7, <1>8, <3>1 DEF Epochs
  <2>2. ASSUME NEW k \in 1..Len(r2), NEW s \in Ptrs
        PROVE  g2[k + 1][s] = IF r2[k].kind = "close" /\ r2[k].conn_id = s THEN g2[k][s] + 1 ELSE g2[k][s]
    <3>1. CASE k \in 1..N
      <4>1. g2[k] = g[k] /\ g2[k + 1] = g[k + 1] /\ r2[k] = ring[k]
        <5>1. k + 1 \in 1..(N + 1)
          BY ONLY <1>3, <3>1
        <5> QED  BY ONLY <1>5, <1>7, <3>1, <5>1
      <4>2. g[k + 1][s] = IF ring[k].kind = "close" /\ ring[k].conn_id = s THEN g[k][s] + 1 ELSE g[k][s]
        BY <1>1, <1>2, <3>1 DEF Epochs
      <4> QED  BY <4>1, <4>2
    <3>2. CASE k = N + 1
      <4>1. g2[k] = now /\ g2[k + 1] = next /\ r2[k] = e
        <5>1. k \in 1..(N + 1) /\ k + 1 = N + 2
          BY <1>3, <3>2
        <5> QED  BY <1>2, <1>5, <1>7, <3>2, <5>1
      <4> QED  BY <1>4, <4>1
    <3> QED  BY ONLY <1>3, <1>5, <2>2, <3>1, <3>2
  <2>3. ASSUME NEW k \in 1..(Len(r2) + 1), NEW s \in Ptrs PROVE g2[k][s] <= g2[Len(r2) + 1][s]
    <3>1. now[s] <= next[s] /\ now[s] \in Nat /\ next[s] \in Nat
      <4>1. now[s] \in Nat /\ (next[s] = now[s] \/ next[s] = now[s] + 1)
        BY ONLY <1>3, <1>4, s \in Ptrs
      <4> QED  BY ONLY <4>1
    <3>2. CASE k \in 1..(N + 1)
      <4>1. g[k][s] <= now[s] /\ g[k][s] \in Nat /\ g2[k] = g[k]
        BY <1>3, <1>7, <3>2
      <4> QED  BY <1>8, <3>1, <4>1
    <3>3. CASE k = N + 2
      BY <1>8, <3>1, <3>3
    <3> QED  BY ONLY <1>3, <1>8, <2>3, <3>2, <3>3
  <2> QED  BY <2>1, <2>2, <2>3 DEF Epochs
<1>10. PICK f, a, b : /\ f = <<ssl, next[ssl]>> /\ a = owner[<<pid, ssl>>] /\ b = [x \in Dirs |-> at[<<pid, ssl, x>>]]
  OBVIOUS
<1>11. f \in Flow /\ a \in Nat /\ b \in [Dirs -> Int] /\ \A x \in Dirs : <<pid, ssl, x>> \in DOMAIN at /\ at[<<pid, ssl, x>>] \in Nat
  <2>1. a \in Nat /\ \A x \in Dirs : <<pid, ssl, x>> \in DOMAIN at /\ at[<<pid, ssl, x>>] \in Nat
    BY <1>1, <1>10 DEF OpenOk
  <2>2. f \in Flow
    BY <1>4, <1>10 DEF Flow
  <2> QED  BY <1>10, <2>1, <2>2
<1>12. ASSUME NEW i \in Psh(q) PROVE q[i].name[2] \in Nat /\ q[i].name[1] \in Ptrs /\ q[i].name[2] <= now[q[i].name[1]]
  <2>1. q[i] \in TlsItems /\ ~q[i].heartbeat
    BY <1>1 DEF Typed, Psh
  <2>2. q[i].name[2] \in Nat /\ q[i].name[1] \in Ptrs
    BY <2>1, ItemFacts
  <2>3. PICK s, n : s = q[i].name[1] /\ n = q[i].name[2]
    OBVIOUS
  <2>4. n <= At(gen, s) /\ At(gen, s) = g[1][s] /\ 1 \in 1..(N + 1)
    BY <1>1, <1>3, <2>2, <2>3 DEF SentOk, Epochs
  <2>5. g[1][s] <= now[s] /\ g[1][s] \in Nat /\ now[s] \in Nat
    BY <1>3, <2>2, <2>3, <2>4
  <2> QED  BY <2>2, <2>3, <2>4, <2>5
<1>13. Unused(ring, q, g, f)
  <2>1. ASSUME NEW k \in 1..Len(ring), ring[k].kind = "data" PROVE <<ring[k].conn_id, g[k][ring[k].conn_id]>> # f
    <3>1. k \in 1..(N + 1)
      BY <1>2, <1>3
    <3>2. g[k][ssl] <= now[ssl] /\ g[k][ssl] \in Nat /\ now[ssl] \in Nat
      BY <1>3, <3>1
    <3>3. g[k][ssl] # next[ssl]
      BY <1>4, <3>2
    <3> QED  BY <1>10, <3>3
  <2>2. ASSUME NEW i \in Psh(q) PROVE q[i].name # f
    <3>1. q[i].name[1] = ssl => q[i].name[2] <= now[ssl]
      BY <1>12
    <3>2. q[i].name[1] = ssl => q[i].name[2] # next[ssl]
      BY <1>3, <1>4, <1>12, <3>1
    <3> QED  BY <1>10, <3>2
  <2> QED  BY <2>1, <2>2 DEF Unused
<1>14. PICK o2, d2 : Retold(o, d, f, a, b, o2, d2)
  BY DEF Retold
<1>15. /\ Typed(ring, q, off, gen, o2, d2) /\ EventsOk(ring, g, o2, d2) /\ SentOk(q, gen, o2, d2)
       /\ o2[f] = a /\ d2[f] = b /\ \A h \in Flow : h # f => o2[h] = o[h] /\ d2[h] = d[h]
  BY ONLY <1>1, <1>11, <1>13, <1>14, Retell
<1>16. \A x \in Dirs : At(off2, <<ssl, x>>) = 0 /\ \A s : s # ssl => At(off2, <<s, x>>) = At(off, <<s, x>>)
  BY DEF At, Forgotten
<1>17. Typed(r2, q, off2, gen, o2, d2)
  <2>1. ASSUME NEW s \in Ptrs, NEW x \in Dirs PROVE At(off2, <<s, x>>) \in Nat
    <3>1. At(off, <<s, x>>) \in Nat
      BY <1>1 DEF Typed
    <3>2. At(off2, <<s, x>>) = 0 \/ At(off2, <<s, x>>) = At(off, <<s, x>>)
      BY ONLY <1>16, x \in Dirs
    <3> QED  BY ONLY <3>1, <3>2
  <2> QED  BY ONLY <1>5, <1>15, <2>1 DEF Typed
<1>18. EventsOk(r2, g2, o2, d2)
  <2> SUFFICES ASSUME NEW k \in 1..Len(r2), r2[k].kind = "data"
      PROVE  /\ r2[k].owner = o2[<<r2[k].conn_id, g2[k][r2[k].conn_id]>>]
             /\ r2[k].at - r2[k].seq_off = d2[<<r2[k].conn_id, g2[k][r2[k].conn_id]>>][r2[k].dir]
    BY DEF EventsOk
  <2>1. k # N + 1
    BY <1>5
  <2>2. k \in 1..N
    BY ONLY <1>3, <1>5, <2>1, k \in 1..Len(r2)
  <2>3. g2[k] = g[k] /\ r2[k] = ring[k]
    BY ONLY <1>5, <1>7, <2>2
  <2> QED  BY <1>2, <1>15, <2>2, <2>3 DEF EventsOk
<1>19. OpenOk(off2, w, at, next, o2, d2)
  <2> SUFFICES ASSUME NEW p \in Pids, NEW s \in Ptrs, <<p, s>> \in DOMAIN w
      PROVE  /\ w[<<p, s>>] \in Nat /\ o2[<<s, next[s]>>] = w[<<p, s>>]
             /\ \A x \in Dirs : /\ <<p, s, x>> \in DOMAIN at /\ at[<<p, s, x>>] \in Nat
                                /\ at[<<p, s, x>>] - At(off2, <<s, x>>) = d2[<<s, next[s]>>][x]
    BY DEF OpenOk
  <2>1. <<p, s>> \in DOMAIN owner /\ w[<<p, s>>] = owner[<<p, s>>]
    BY DEF MaybeFreed
  <2>2. p = pid
    BY DEF OneProcess
  <2>3. /\ owner[<<p, s>>] \in Nat /\ o[<<s, now[s]>>] = owner[<<p, s>>]
        /\ \A x \in Dirs : /\ <<p, s, x>> \in DOMAIN at /\ at[<<p, s, x>>] \in Nat
                           /\ at[<<p, s, x>>] - At(off, <<s, x>>) = d[<<s, now[s]>>][x]
    BY <1>1, <1>2, <2>1 DEF OpenOk
  <2>4. CASE s = ssl
    <3>1. <<s, next[s]>> = f
      BY <1>10, <2>4
    <3>2. o2[<<s, next[s]>>] = a /\ d2[<<s, next[s]>>] = b
      BY <1>15, <3>1
    <3>3. ASSUME NEW x \in Dirs PROVE at[<<p, s, x>>] - At(off2, <<s, x>>) = d2[<<s, next[s]>>][x]
      <4>1. at[<<p, s, x>>] \in Nat /\ b[x] = at[<<p, s, x>>] /\ At(off2, <<s, x>>) = 0
        BY <1>10, <1>16, <2>2, <2>3, <2>4
      <4> QED  BY <3>2, <4>1
    <3> QED  BY <1>10, <2>1, <2>2, <2>3, <2>4, <3>2, <3>3
  <2>5. CASE s # ssl
    <3>1. <<s, next[s]>> = <<s, now[s]>> /\ <<s, now[s]>> # f /\ <<s, now[s]>> \in Flow
      BY <1>3, <1>4, <1>10, <2>5 DEF Flow
    <3>2. o2[<<s, next[s]>>] = o[<<s, now[s]>>] /\ d2[<<s, next[s]>>] = d[<<s, now[s]>>]
      BY <1>15, <3>1
    <3> QED  BY <1>16, <2>1, <2>3, <2>5, <3>2
  <2> QED  BY <2>4, <2>5
<1>20. ShutOk(r2, q, off2, w, g2)
  <2> SUFFICES ASSUME NEW s \in Ptrs, \A p \in Pids : <<p, s>> \notin DOMAIN w
      PROVE  /\ \A x \in Dirs : At(off2, <<s, x>>) = 0
             /\ \A k \in 1..Len(r2) : r2[k].kind = "data" /\ r2[k].conn_id = s => g2[k][s] < next[s]
             /\ \A i \in Psh(q) : q[i].name[1] = s => q[i].name[2] < next[s]
    BY <1>8 DEF ShutOk
  <2>1. ASSUME NEW k \in 1..Len(r2), r2[k].kind = "data" PROVE k \in 1..N /\ g2[k] = g[k] /\ r2[k] = ring[k]
    <3>1. k # N + 1
      BY <1>5, <2>1
    <3>2. k \in 1..N
      BY ONLY <1>3, <1>5, <3>1, <2>1
    <3> QED  BY ONLY <1>5, <1>7, <3>2
  <2>2. CASE s = ssl
    <3>1. ASSUME NEW k \in 1..N PROVE g[k][s] < next[s]
      <4>1. g[k][ssl] <= now[ssl] /\ g[k][ssl] \in Nat /\ now[ssl] \in Nat
        BY <1>3, <1>5, <3>1
      <4> QED  BY <1>4, <2>2, <4>1
    <3>2. ASSUME NEW i \in Psh(q), q[i].name[1] = s PROVE q[i].name[2] < next[s]
      <4>1. q[i].name[2] \in Nat /\ q[i].name[2] <= now[ssl] /\ now[ssl] \in Nat
        BY <1>3, <1>12, <2>2, <3>2
      <4> QED  BY <1>4, <2>2, <4>1
    <3> QED  BY <1>16, <2>1, <2>2, <3>1, <3>2
  <2>3. CASE s # ssl
    <3>1. \A p \in Pids : <<p, s>> \notin DOMAIN owner
      <4>1. \A p \in Pids : <<p, s>> # <<pid, ssl>>
        BY <2>3
      <4> QED  BY <4>1 DEF MaybeFreed
    <3>2. /\ \A x \in Dirs : At(off, <<s, x>>) = 0
          /\ \A k \in 1..N : ring[k].kind = "data" /\ ring[k].conn_id = s => g[k][s] < now[s]
          /\ \A i \in Psh(q) : q[i].name[1] = s => q[i].name[2] < now[s]
      BY <1>1, <1>2, <3>1 DEF ShutOk
    <3> QED  BY <1>4, <1>16, <2>1, <2>3, <3>2
  <2> QED  BY <2>2, <2>3
<1>21. FlowsOk(r2, q, off2, gen, w, at, g2, o2, d2)
  BY ONLY <1>8, <1>9, <1>15, <1>17, <1>18, <1>19, <1>20 DEF FlowsOk
<1> QED  BY <1>2, <1>21

\* The pump is done with the first event of the ring.
Handled(gen, e) == IF e.kind = "data" THEN gen ELSE Put(gen, e.conn_id, At(gen, e.conn_id) + 1)
LEMMA TailKeeps ==
  ASSUME NEW ring, NEW q, NEW off, NEW gen, NEW owner, NEW at, NEW g, NEW o, NEW d,
         FlowsOk(ring, q, off, gen, owner, at, g, o, d), ring # <<>>
  PROVE  \E g2 : FlowsOk(Tail(ring), q, off, Handled(gen, Head(ring)), owner, at, g2, o, d)
<1>1. /\ Typed(ring, q, off, gen, o, d) /\ Epochs(ring, gen, g) /\ EventsOk(ring, g, o, d) /\ SentOk(q, gen, o, d)
      /\ OpenOk(off, owner, at, g[Len(ring) + 1], o, d) /\ ShutOk(ring, q, off, owner, g)
  BY DEF FlowsOk
<1>2. PICK N, r2, e, gen2, g2 : /\ N = Len(ring) /\ r2 = Tail(ring) /\ e = Head(ring) /\ gen2 = Handled(gen, e)
                                /\ g2 = [k \in 1..N |-> g[k + 1]]
  OBVIOUS
<1>3. /\ ring \in Seq(TlsEvents) /\ N \in Nat /\ N > 0 /\ g \in [1..(N + 1) -> [Ptrs -> Nat]]
      /\ r2 \in Seq(TlsEvents) /\ Len(r2) = N - 1 /\ \A k \in 1..(N - 1) : r2[k] = ring[k + 1] /\ k + 1 \in 1..N
      /\ e = ring[1] /\ e \in TlsEvents
  <2>1. ring \in Seq(TlsEvents)
    BY <1>1 DEF Typed
  <2>2. /\ Tail(ring) \in Seq(TlsEvents) /\ Len(Tail(ring)) = Len(ring) - 1 /\ Head(ring) = ring[1]
        /\ \A k \in 1..Len(Tail(ring)) : Tail(ring)[k] = ring[k + 1]
        /\ Head(ring) \in TlsEvents
    BY ONLY <2>1, ring # <<>>, HeadTailProperties
  <2>3. N \in Nat /\ N > 0
    BY ONLY <1>2, <2>1, ring # <<>>, LenProperties, EmptySeq
  <2>4. g \in [1..(N + 1) -> [Ptrs -> Nat]]
    BY ONLY <1>1, <1>2 DEF Epochs
  <2> QED  BY ONLY <1>2, <2>1, <2>2, <2>3, <2>4
<1>4. /\ Len(r2) + 1 = N /\ g2[N] = g[N + 1] /\ g2 \in [1..N -> [Ptrs -> Nat]]
      /\ \A k \in 1..N : g2[k] = g[k + 1] /\ k + 1 \in 1..(N + 1) /\ k \in 1..(N + 1)
  BY ONLY <1>2, <1>3
<1>5. \A k \in 1..N, s \in Ptrs : g[k + 1][s] = IF ring[k].kind = "close" /\ ring[k].conn_id = s THEN g[k][s] + 1 ELSE g[k][s]
  BY ONLY <1>1, <1>2 DEF Epochs
<1>6. e.kind \in {"data", "close"} /\ e.conn_id \in Ptrs
  BY <1>3, EventFacts
<1>7. ASSUME NEW s \in Ptrs PROVE At(gen2, s) = g2[1][s] /\ At(gen2, s) \in Nat /\ At(gen, s) <= At(gen2, s)
  <2>1. 1 \in 1..N
    BY <1>3
  <2>2. g2[1] = g[2] /\ g[1][s] \in Nat /\ g[2][s] \in Nat
    <3>1. 1 + 1 = 2 /\ 2 \in 1..(N + 1) /\ 1 \in 1..(N + 1)
      BY <1>3
    <3> QED  BY <1>3, <1>4, <2>1, <3>1
  <2>3. g[2][s] = IF e.kind = "close" /\ e.conn_id = s THEN g[1][s] + 1 ELSE g[1][s]
    <3>1. g[1 + 1][s] = IF ring[1].kind = "close" /\ ring[1].conn_id = s THEN g[1][s] + 1 ELSE g[1][s]
      BY ONLY <1>5, <2>1, s \in Ptrs
    <3> QED  BY ONLY <1>3, <3>1
  <2>4. At(gen, s) = g[1][s]
    BY <1>1 DEF Epochs
  <2>5. CASE e.kind = "data"
    BY <1>2, <2>2, <2>3, <2>4, <2>5 DEF Handled
  <2>6. CASE e.kind = "close"
    <3>1. gen2 = Put(gen, e.conn_id, At(gen, e.conn_id) + 1)
      BY ONLY <1>2, <2>6 DEF Handled
    <3>2. At(gen2, s) = IF s = e.conn_id THEN At(gen, s) + 1 ELSE At(gen, s)
      BY ONLY <3>1 DEF Put, At
    <3> QED  BY <2>2, <2>3, <2>4, <2>6, <3>2
  <2> QED  BY <1>6, <2>5, <2>6
<1>8. Typed(r2, q, off, gen2, o, d)
  BY <1>1, <1>3, <1>7 DEF Typed
<1>9. Epochs(r2, gen2, g2)
  <2>1. ASSUME NEW k \in 1..Len(r2), NEW s \in Ptrs
        PROVE  g2[k + 1][s] = IF r2[k].kind = "close" /\ r2[k].conn_id = s THEN g2[k][s] + 1 ELSE g2[k][s]
    <3>1. k \in 1..(N - 1) /\ k + 1 \in 1..N /\ k \in 1..N
      BY ONLY <1>3, <2>1
    <3>2. r2[k] = ring[k + 1] /\ g2[k] = g[k + 1] /\ g2[k + 1] = g[(k + 1) + 1]
      BY ONLY <1>3, <1>4, <3>1
    <3> QED  BY ONLY <1>5, <3>1, <3>2, s \in Ptrs
  <2>2. ASSUME NEW k \in 1..N, NEW s \in Ptrs PROVE g2[k][s] <= g2[N][s]
    <3>1. \A m \in 1..(N + 1) : g[m][s] <= g[N + 1][s]
      BY ONLY <1>1, <1>2, s \in Ptrs DEF Epochs
    <3> QED  BY ONLY <1>4, <3>1, k \in 1..N
  <2> QED  BY ONLY <1>4, <1>7, <2>1, <2>2 DEF Epochs
<1>10. EventsOk(r2, g2, o, d)
  <2> SUFFICES ASSUME NEW k \in 1..Len(r2), r2[k].kind = "data"
      PROVE  /\ r2[k].owner = o[<<r2[k].conn_id, g2[k][r2[k].conn_id]>>]
             /\ r2[k].at - r2[k].seq_off = d[<<r2[k].conn_id, g2[k][r2[k].conn_id]>>][r2[k].dir]
    BY DEF EventsOk
  <2>1. k \in 1..(N - 1) /\ k + 1 \in 1..Len(ring) /\ k \in 1..N
    BY ONLY <1>2, <1>3, k \in 1..Len(r2)
  <2>2. r2[k] = ring[k + 1] /\ g2[k] = g[k + 1]
    BY ONLY <1>3, <1>4, <2>1
  <2> QED  BY <1>1, <2>1, <2>2 DEF EventsOk
<1>11. SentOk(q, gen2, o, d)
  <2> SUFFICES ASSUME NEW i \in Psh(q) PROVE q[i].name[2] <= At(gen2, q[i].name[1])
    BY <1>1 DEF SentOk
  <2>1. q[i] \in TlsItems /\ ~q[i].heartbeat
    BY <1>1 DEF Typed, Psh
  <2>2. q[i].name[2] \in Nat /\ q[i].name[1] \in Ptrs
    BY <2>1, ItemFacts
  <2>3. PICK s, n, y, z : s = q[i].name[1] /\ n = q[i].name[2] /\ y = At(gen, s) /\ z = At(gen2, s)
    OBVIOUS
  <2>4. n <= y /\ y \in Nat
    BY <1>1, <2>2, <2>3 DEF SentOk, Typed
  <2>5. y <= z /\ z \in Nat
    BY <1>7, <2>2, <2>3
  <2> QED  BY <2>2, <2>3, <2>4, <2>5
<1>12. OpenOk(off, owner, at, g2[Len(r2) + 1], o, d)
  BY <1>1, <1>2, <1>4
<1>13. ShutOk(r2, q, off, owner, g2)
  <2> SUFFICES ASSUME NEW s \in Ptrs, \A p \in Pids : <<p, s>> \notin DOMAIN owner
      PROVE  /\ \A x \in Dirs : At(off, <<s, x>>) = 0
             /\ \A k \in 1..Len(r2) : r2[k].kind = "data" /\ r2[k].conn_id = s => g2[k][s] < g2[N][s]
             /\ \A i \in Psh(q) : q[i].name[1] = s => q[i].name[2] < g2[N][s]
    BY <1>4 DEF ShutOk
  <2>1. /\ \A x \in Dirs : At(off, <<s, x>>) = 0
        /\ \A k \in 1..N : ring[k].kind = "data" /\ ring[k].conn_id = s => g[k][s] < g[N + 1][s]
        /\ \A i \in Psh(q) : q[i].name[1] = s => q[i].name[2] < g[N + 1][s]
    BY <1>1, <1>2 DEF ShutOk
  <2>2. ASSUME NEW k \in 1..Len(r2) PROVE k + 1 \in 1..N /\ r2[k] = ring[k + 1] /\ g2[k] = g[k + 1]
    <3>1. k \in 1..(N - 1) /\ k \in 1..N
      BY ONLY <1>3, <2>2
    <3> QED  BY ONLY <1>3, <1>4, <3>1
  <2> QED  BY <1>4, <2>1, <2>2
<1>14. FlowsOk(r2, q, off, gen2, owner, at, g2, o, d)
  BY ONLY <1>8, <1>9, <1>10, <1>11, <1>12, <1>13 DEF FlowsOk
<1> QED  BY <1>2, <1>14

\* What may be sent: heartbeats, ends of flows, and bytes of the flow's owner.
Fits(x, gen, owner, now, o, d) ==
  ~x.heartbeat /\ x.flags = "psh" =>
    /\ x.flow = Tuple(x.name) /\ x.name[2] <= At(gen, x.name[1])
    /\ x.owner = o[x.name] /\ x.at - x.seq = d[x.name][x.dir] - SYNTH_ISN
    /\ (\A p \in Pids : <<p, x.name[1]>> \notin DOMAIN owner) => x.name[2] < now[x.name[1]]
LEMMA MoreKeeps ==
  ASSUME NEW ring, NEW q, NEW off, NEW gen, NEW owner, NEW at, NEW g, NEW o, NEW d,
         FlowsOk(ring, q, off, gen, owner, at, g, o, d), NEW more \in Seq(TlsItems),
         \A i \in 1..Len(more) : Fits(more[i], gen, owner, g[Len(ring) + 1], o, d)
  PROVE  FlowsOk(ring, q \o more, off, gen, owner, at, g, o, d)
<1>1. /\ Typed(ring, q, off, gen, o, d) /\ Epochs(ring, gen, g) /\ EventsOk(ring, g, o, d) /\ SentOk(q, gen, o, d)
      /\ OpenOk(off, owner, at, g[Len(ring) + 1], o, d) /\ ShutOk(ring, q, off, owner, g)
  BY DEF FlowsOk
<1>2. PICK q2, now : q2 = q \o more /\ now = g[Len(ring) + 1]
  OBVIOUS
<1>3. q \in Seq(TlsItems)
  BY <1>1 DEF Typed
<1>4. q2 \in Seq(TlsItems) /\ \A i \in DOMAIN q2 : (i \in DOMAIN q /\ q2[i] = q[i]) \/ (\E j \in 1..Len(more) : q2[i] = more[j])
  <2>1. /\ q \o more \in Seq(TlsItems) /\ Len(q \o more) = Len(q) + Len(more)
        /\ \A k \in 1..(Len(q) + Len(more)) : (q \o more)[k] = IF k <= Len(q) THEN q[k] ELSE more[k - Len(q)]
    BY ONLY <1>3, more \in Seq(TlsItems), ConcatProperties
  <2>2. Len(q) \in Nat /\ Len(more) \in Nat /\ DOMAIN q = 1..Len(q) /\ DOMAIN q2 = 1..(Len(q) + Len(more))
    BY ONLY <1>2, <1>3, <2>1, more \in Seq(TlsItems), LenProperties
  <2>3. ASSUME NEW i \in DOMAIN q2, ~(i \in DOMAIN q /\ q2[i] = q[i]) PROVE \E j \in 1..Len(more) : q2[i] = more[j]
    <3>1. i \in 1..(Len(q) + Len(more)) /\ ~(i <= Len(q))
      BY ONLY <1>2, <2>1, <2>2, <2>3
    <3>2. q2[i] = more[i - Len(q)] /\ i - Len(q) \in 1..Len(more)
      BY ONLY <1>2, <2>1, <2>2, <3>1
    <3> QED  BY <3>2
  <2> QED  BY ONLY <1>2, <2>1, <2>3
<1>5. ASSUME NEW i \in Psh(q2)
      PROVE  (i \in Psh(q) /\ q2[i] = q[i]) \/ (Fits(q2[i], gen, owner, now, o, d) /\ ~q2[i].heartbeat /\ q2[i].flags = "psh")
  BY <1>2, <1>4 DEF Psh
<1>6. Typed(ring, q2, off, gen, o, d)
  BY ONLY <1>1, <1>4 DEF Typed
<1>7. SentOk(q2, gen, o, d)
  BY <1>1, <1>5 DEF SentOk, Fits
<1>8. ShutOk(ring, q2, off, owner, g)
  BY <1>1, <1>2, <1>5 DEF ShutOk, Fits
<1> QED  BY <1>1, <1>2, <1>6, <1>7, <1>8 DEF FlowsOk

\* What the synthesizer makes of an event.
IsFrame(x, flow, dir, seq, flags, e, i) ==
  /\ x \in Frames /\ x.heartbeat = FALSE /\ x.flow = flow /\ x.dir = dir /\ x.seq = seq /\ x.flags = flags
  /\ x.name = <<e.conn_id, At(ebpf.generations, e.conn_id)>>
  /\ e.kind = "data" => x.owner = e.owner /\ x.at = e.at + i
LEMMA FrameIs ==
  \A flow \in Tuples, dir \in Dirs, seq \in Int, flags \in {"psh", "fin"}, e \in TlsEvents, i \in Int :
    At(ebpf.generations, e.conn_id) \in Nat => IsFrame(Frame(flow, dir, seq, flags, e, i), flow, dir, seq, flags, e, i)
<1> TAKE flow \in Tuples, dir \in Dirs, seq \in Int, flags \in {"psh", "fin"}, e \in TlsEvents, i \in Int
<1> HAVE At(ebpf.generations, e.conn_id) \in Nat
<1>1. PICK a, b, x : /\ a = (IF e.kind = "data" THEN e.owner ELSE 0) /\ b = (IF e.kind = "data" THEN e.at + i ELSE 0)
                     /\ x = Frame(flow, dir, seq, flags, e, i)
  OBVIOUS
<1>2. a \in Nat /\ b \in Int /\ e.ktime \in Nat /\ <<e.conn_id, At(ebpf.generations, e.conn_id)>> \in Flow
  BY <1>1, EventFacts DEF Flow
<1>3. x = [source_id |-> EbpfId, timestamp_us |-> e.ktime, link_type |-> 1, src |-> "a", dst |-> "b", heartbeat |-> FALSE,
           flow |-> flow, dir |-> dir, seq |-> seq, flags |-> flags, name |-> <<e.conn_id, At(ebpf.generations, e.conn_id)>>,
           owner |-> a, at |-> b]
  BY <1>1 DEF Frame
<1>4. x \in Frames
  BY ONLY <1>2, <1>3, flow \in Tuples, dir \in Dirs, seq \in Int, flags \in {"psh", "fin"} DEF Frames
<1> QED  BY <1>1, <1>3, <1>4 DEF IsFrame

LEMMA DataFramesAre ==
  ASSUME NEW e \in TlsEvents, e.kind = "data", At(ebpf.generations, e.conn_id) \in Nat,
         ConnsOk(ebpf.conns, ebpf.generations), NEW out, out = DataFrames(e)
  PROVE  /\ out \in Seq(Frames)
         /\ \A i \in 1..Len(out) :
              /\ out[i].name = <<e.conn_id, At(ebpf.generations, e.conn_id)>> /\ out[i].flow = Tuple(out[i].name)
              /\ out[i].owner = e.owner /\ out[i].dir = e.dir
              /\ out[i].at - out[i].seq = e.at - e.seq_off - SYNTH_ISN
<1>1. /\ e.conn_id \in Ptrs /\ e.dir \in Dirs /\ e.seq_off \in Nat /\ e.len \in Int /\ e.owner \in Nat /\ e.at \in Nat
  BY EventFacts
<1>2. PICK h, f : h = <<e.conn_id, At(ebpf.generations, e.conn_id)>> /\ f = Tuple(h)
  OBVIOUS
<1>3. f \in Tuples
  BY <1>1, <1>2 DEF Flow, Tuples
<1>4. FlowOf(e.conn_id) = f
  BY <1>2 DEF FlowOf, ConnsOk, Tuple
<1>5. PICK n : n \in Nat /\ 1..e.len = 1..n
  <2>1. CASE e.len >= 0
    BY <1>1, <2>1
  <2>2. CASE ~(e.len >= 0)
    <3>1. 1..e.len = 1..0
      BY <1>1, <2>2
    <3> QED  BY <3>1
  <2> QED  BY <2>1, <2>2
<1>6. out = [i \in 1..n |-> Frame(f, e.dir, SYNTH_ISN + e.seq_off + i - 1, "psh", e, i - 1)]
  BY ONLY <1>4, <1>5, out = DataFrames(e) DEF DataFrames
<1>7. ASSUME NEW i \in 1..n
      PROVE  /\ out[i] \in Frames /\ out[i].flow = f /\ out[i].name = h /\ out[i].owner = e.owner /\ out[i].dir = e.dir
             /\ out[i].at - out[i].seq = e.at - e.seq_off - SYNTH_ISN
  <2>1. PICK s : s = SYNTH_ISN + e.seq_off + i - 1
    OBVIOUS
  <2>2. s = e.seq_off + i /\ s \in Int /\ i - 1 \in Int
    BY <1>1, <1>5, <2>1 DEF SYNTH_ISN
  <2>3. out[i] = Frame(f, e.dir, s, "psh", e, i - 1)
    BY ONLY <1>6, <2>1, <1>7
  <2>4. PICK x : x = out[i]
    OBVIOUS
  <2>5. PICK y, m, z : y = e.dir /\ m = i - 1 /\ z = "psh"
    OBVIOUS
  <2>6. x \in Frames /\ x.flow = f /\ x.name = h /\ x.dir = e.dir /\ x.seq = s /\ (e.kind = "data" => x.owner = e.owner /\ x.at = e.at + (i - 1))
    <3>1. y \in Dirs /\ m \in Int /\ z \in {"psh", "fin"} /\ s \in Int /\ x = Frame(f, y, s, z, e, m)
      BY ONLY <1>1, <2>2, <2>3, <2>4, <2>5
    <3>2. IsFrame(Frame(f, y, s, z, e, m), f, y, s, z, e, m)
      BY ONLY <1>3, <3>1, e \in TlsEvents, At(ebpf.generations, e.conn_id) \in Nat, FrameIs, Zenon
    <3> QED  BY ONLY <1>2, <2>5, <3>1, <3>2 DEF IsFrame
  <2>7. (e.at + (i - 1)) - (e.seq_off + i) = e.at - e.seq_off - SYNTH_ISN
    BY <1>1, <1>5 DEF SYNTH_ISN
  <2> QED  BY <2>2, <2>4, <2>6, <2>7
<1>8. out \in Seq(Frames) /\ Len(out) = n
  <2>1. out \in [1..n -> Frames]
    BY ONLY <1>6, <1>7
  <2> QED  BY ONLY <1>5, <2>1
<1> QED  BY <1>2, <1>7, <1>8

LEMMA CloseFramesAre ==
  ASSUME NEW e \in TlsEvents, e.kind = "close", At(ebpf.generations, e.conn_id) \in Nat,
         ConnsOk(ebpf.conns, ebpf.generations), NEW out, out = CloseFrames(e)
  PROVE  out \in Seq(Frames) /\ \A i \in 1..Len(out) : out[i].flags = "fin"
<1>1. e.conn_id \in Ptrs
  BY EventFacts
<1>2. CASE e.conn_id \notin DOMAIN ebpf.conns
  <2>1. out = <<>>
    BY <1>2 DEF CloseFrames
  <2> QED  BY <2>1
<1>3. CASE e.conn_id \in DOMAIN ebpf.conns
  <2>1. PICK c : c = ebpf.conns[e.conn_id]
    OBVIOUS
  <2>2. c.tuple = Tuple(<<e.conn_id, At(ebpf.generations, e.conn_id)>>) /\ c.hi \in [Dirs -> Int]
    BY <1>3, <2>1 DEF ConnsOk
  <2>3. PICK a, b, m, n : /\ m = SYNTH_ISN + c.hi["c2s"] /\ n = SYNTH_ISN + c.hi["s2c"]
                          /\ a = Frame(c.tuple, "c2s", m, "fin", e, 0) /\ b = Frame(c.tuple, "s2c", n, "fin", e, 0)
    OBVIOUS
  <2>4. c.tuple \in Tuples /\ m \in Int /\ n \in Int /\ "c2s" \in Dirs /\ "s2c" \in Dirs /\ "fin" \in {"psh", "fin"} /\ 0 \in Int
    BY <1>1, <2>2, <2>3 DEF Flow, Tuples, Dirs, SYNTH_ISN
  <2>5. a \in Frames /\ a.flags = "fin"
    <3>1. PICK f, x, z, i : f = c.tuple /\ x = "c2s" /\ z = "fin" /\ i = 0
      OBVIOUS
    <3>2. f \in Tuples /\ x \in Dirs /\ m \in Int /\ z \in {"psh", "fin"} /\ i \in Int /\ a = Frame(f, x, m, z, e, i)
      BY ONLY <2>3, <2>4, <3>1
    <3>3. IsFrame(Frame(f, x, m, z, e, i), f, x, m, z, e, i)
      BY ONLY <3>2, e \in TlsEvents, At(ebpf.generations, e.conn_id) \in Nat, FrameIs, Zenon
    <3> QED  BY ONLY <3>1, <3>2, <3>3 DEF IsFrame
  <2>6. b \in Frames /\ b.flags = "fin"
    <3>1. PICK f, x, z, i : f = c.tuple /\ x = "s2c" /\ z = "fin" /\ i = 0
      OBVIOUS
    <3>2. f \in Tuples /\ x \in Dirs /\ n \in Int /\ z \in {"psh", "fin"} /\ i \in Int /\ b = Frame(f, x, n, z, e, i)
      BY ONLY <2>3, <2>4, <3>1
    <3>3. IsFrame(Frame(f, x, n, z, e, i), f, x, n, z, e, i)
      BY ONLY <3>2, e \in TlsEvents, At(ebpf.generations, e.conn_id) \in Nat, FrameIs, ZenonT(60)
    <3> QED  BY ONLY <3>1, <3>2, <3>3 DEF IsFrame
  <2>7. out = <<a, b>>
    BY <1>3, <2>1, <2>3 DEF CloseFrames
  <2> QED  BY ONLY <2>5, <2>6, <2>7
<1> QED  BY <1>2, <1>3

LEMMA HeartbeatItem ==
  ASSUME NEW t \in Nat, NEW x, x = Heartbeat(EbpfId, t)
  PROVE  x \in TlsItems /\ x.heartbeat
BY DEF TlsItems, Heartbeat, Raw

LEMMA TrackedIs ==
  ASSUME NEW frames \in Seq(Frames), NEW out, out = Tracked(frames).out
  PROVE  /\ out \in Seq(TlsItems)
         /\ \A i \in 1..Len(out) : out[i].heartbeat \/ \E j \in 1..Len(frames) : out[i] = frames[j]
<1>1. CASE frames = <<>>
  <2>1. out = <<>>
    BY <1>1 DEF Tracked
  <2> QED  BY <2>1
<1>2. CASE frames # <<>>
  <2>1. PICK h : h = Heartbeat(EbpfId, frames[1].timestamp_us)
    OBVIOUS
  <2>2. PICK hs : hs = (IF Synthesizes(ebpf.slot, frames[1]) THEN <<h>> ELSE <<>>)
    OBVIOUS
  <2>3. out = hs \o frames
    BY ONLY <1>2, <2>1, <2>2, out = Tracked(frames).out DEF Tracked
  <2>4. h \in TlsItems /\ h.heartbeat
    <3>1. frames[1] \in Frames
      BY <1>2
    <3>2. frames[1].timestamp_us \in Nat
      BY <3>1 DEF Frames
    <3> QED  BY ONLY <2>1, <3>2, HeartbeatItem
  <2>5. hs \in Seq(TlsItems) /\ \A i \in 1..Len(hs) : hs[i].heartbeat
    <3>1. CASE hs = <<h>>
      BY ONLY <2>4, <3>1
    <3>2. CASE hs = <<>>
      BY ONLY <3>2
    <3> QED  BY ONLY <2>2, <3>1, <3>2
  <2>6. frames \in Seq(TlsItems)
    BY DEF TlsItems
  <2>7. /\ hs \o frames \in Seq(TlsItems) /\ Len(hs \o frames) = Len(hs) + Len(frames)
        /\ \A k \in 1..(Len(hs) + Len(frames)) : (hs \o frames)[k] = IF k <= Len(hs) THEN hs[k] ELSE frames[k - Len(hs)]
    BY ONLY <2>5, <2>6, ConcatProperties
  <2>8. Len(hs) \in Nat /\ Len(frames) \in Nat
    BY ONLY <2>5, <2>6, LenProperties
  <2>9. ASSUME NEW i \in 1..Len(out) PROVE out[i].heartbeat \/ \E j \in 1..Len(frames) : out[i] = frames[j]
    <3>1. CASE i <= Len(hs)
      <4>1. i \in 1..Len(hs) /\ out[i] = hs[i]
        BY ONLY <2>3, <2>7, <2>8, <2>9, <3>1
      <4> QED  BY <2>5, <4>1
    <3>2. CASE ~(i <= Len(hs))
      <4>1. i - Len(hs) \in 1..Len(frames) /\ out[i] = frames[i - Len(hs)]
        BY ONLY <2>3, <2>7, <2>8, <2>9, <3>2
      <4> QED  BY <4>1
    <3> QED  BY <3>1, <3>2
  <2> QED  BY <2>3, <2>7, <2>9
<1> QED  BY <1>1, <1>2

AllFields(v) ==
  v = [pc |-> v.pc, off |-> v.off, ring |-> v.ring, ktime |-> v.ktime, conns |-> v.conns, generations |-> v.generations,
       slot |-> v.slot, owner |-> v.owner, at |-> v.at, opened |-> v.opened, calls |-> v.calls, idle |-> v.idle,
       closes_lost |-> v.closes_lost]
TlsShape(v) == AllFields(v) /\ v.ktime \in Nat /\ v.opened \in Nat /\ v.closes_lost \in Nat
TlsFlows(v, q) ==
  /\ ConnsOk(v.conns, v.generations)
  /\ \E g, o, d : FlowsOk(v.ring, q, v.off, v.generations, v.owner, v.at, g, o, d)
TlsInv ==
  /\ replay = NoSource /\ TlsShape(ebpf)
  /\ ebpf.closes_lost = 0 => TlsFlows(ebpf, sent)

LEMMA SslNewStep ==
  ASSUME OneProcess, TlsInv, NEW pid \in Pids, NEW ssl \in Ptrs, SslNew(pid, ssl)
  PROVE  TlsInv'
<1>1. PICK v, u, w, t : /\ v = ebpf /\ u = ebpf' /\ w = Put(v.owner, <<pid, ssl>>, v.opened + 1)
                        /\ t = Put(Put(v.at, <<pid, ssl, "c2s">>, 0), <<pid, ssl, "s2c">>, 0)
  OBVIOUS
<1>2. /\ <<pid, ssl>> \notin DOMAIN v.owner /\ sent' = sent /\ replay' = replay
      /\ u = [v EXCEPT !.opened = v.opened + 1, !.owner = w, !.at = t]
  BY <1>1 DEF SslNew, EbpfRest
<1>3. TlsShape(v) /\ replay = NoSource /\ (v.closes_lost = 0 => TlsFlows(v, sent))
  BY <1>1 DEF TlsInv
<1>4. /\ TlsShape(u) /\ u.off = v.off /\ u.ring = v.ring /\ u.conns = v.conns /\ u.generations = v.generations
      /\ u.owner = w /\ u.at = t /\ u.closes_lost = v.closes_lost
  <2>1. AllFields(v) /\ v.ktime \in Nat /\ v.opened \in Nat /\ v.closes_lost \in Nat
    BY <1>3 DEF TlsShape
  <2>2. PICK m : m = v.opened + 1
    OBVIOUS
  <2>3. m \in Nat /\ u = [v EXCEPT !.opened = m, !.owner = w, !.at = t]
    BY ONLY <1>2, <2>1, <2>2
  <2>4. /\ AllFields(u) /\ u.off = v.off /\ u.ring = v.ring /\ u.conns = v.conns /\ u.generations = v.generations
        /\ u.owner = w /\ u.at = t /\ u.closes_lost = v.closes_lost /\ u.opened = m /\ u.ktime = v.ktime
    BY ONLY <2>1, <2>3 DEF AllFields
  <2> QED  BY ONLY <2>1, <2>3, <2>4 DEF TlsShape
<1>5. ASSUME u.closes_lost = 0 PROVE TlsFlows(u, sent)
  <2>1. ConnsOk(v.conns, v.generations)
    BY <1>3, <1>4, <1>5 DEF TlsFlows
  <2>2. PICK g, o, d : FlowsOk(v.ring, sent, v.off, v.generations, v.owner, v.at, g, o, d)
    BY <1>3, <1>4, <1>5 DEF TlsFlows
  <2>3. PICK ring, off, gen, owner, at, q, c : /\ ring = v.ring /\ off = v.off /\ gen = v.generations /\ owner = v.owner
                                               /\ at = v.at /\ q = sent /\ c = v.opened + 1
    OBVIOUS
  <2>4. FlowsOk(ring, q, off, gen, owner, at, g, o, d) /\ <<pid, ssl>> \notin DOMAIN owner /\ c \in Nat
    BY <1>2, <1>3, <2>2, <2>3 DEF TlsShape
  <2>5. \E o2, d2 : FlowsOk(ring, q, off, gen, Put(owner, <<pid, ssl>>, c),
                            Put(Put(at, <<pid, ssl, "c2s">>, 0), <<pid, ssl, "s2c">>, 0), g, o2, d2)
    BY ONLY OneProcess, <2>4, pid \in Pids, ssl \in Ptrs, NewKeeps
  <2>6. PICK o2, d2 : FlowsOk(v.ring, sent, v.off, v.generations, w, t, g, o2, d2)
    BY ONLY <1>1, <2>3, <2>5
  <2> QED  BY <1>4, <2>1, <2>6 DEF TlsFlows
<1> QED  BY <1>1, <1>2, <1>3, <1>4, <1>5 DEF TlsInv

\* The chunks of a call are numbered from the offset on.
Chunks(pid, ssl, dir, base, fit, n) == [i \in 1..fit |-> Chunk(pid, ssl, dir, base, i - 1, n)]
ChunksOk(ch, ssl, dir, c, a, base) ==
  /\ ch \in Seq(TlsEvents)
  /\ \A k \in 1..Len(ch) : /\ ch[k].kind = "data" /\ ch[k].conn_id = ssl /\ ch[k].dir = dir /\ ch[k].owner = c
                           /\ ch[k].at - ch[k].seq_off = a - base
LEMMA ChunksAre ==
  ASSUME NEW pid \in Pids, NEW ssl \in Ptrs, NEW dir \in Dirs, NEW n \in Nat, NEW fit \in Nat,
         NEW base \in Nat, base = At(ebpf.off, <<ssl, dir>>), NEW a \in Nat, a = ebpf.at[<<pid, ssl, dir>>],
         NEW c \in Nat, c = ebpf.owner[<<pid, ssl>>], ebpf.ktime \in Nat,
         NEW ch, ch = Chunks(pid, ssl, dir, base, fit, n)
  PROVE  ChunksOk(ch, ssl, dir, c, a, base)
<1>0. ch = [i \in 1..fit |-> Chunk(pid, ssl, dir, base, i - 1, n)]
  BY DEF Chunks
<1>1. DataCap \in Nat
  BY EbpfAssumption
<1>2. ASSUME NEW i \in 1..fit
      PROVE  /\ ch[i] \in TlsEvents /\ ch[i].kind = "data" /\ ch[i].conn_id = ssl /\ ch[i].dir = dir /\ ch[i].owner = c
             /\ ch[i].at - ch[i].seq_off = a - base
  <2>1. PICK s, l, x : /\ s = (i - 1) * DataCap /\ l = (IF n - s > DataCap THEN DataCap ELSE n - s)
                       /\ x = ch[i]
    OBVIOUS
  <2>2. s \in Nat
    <3>1. PICK m : m = i - 1 /\ m \in Nat
      OBVIOUS
    <3>2. \A y \in Nat, z \in Nat : y * z \in Nat
      OBVIOUS
    <3> QED  BY ONLY <1>1, <2>1, <3>1, <3>2
  <2>3. l \in Int
    BY <1>1, <2>1, <2>2
  <2>4. x = [kind |-> "data", pid |-> pid, conn_id |-> ssl, dir |-> dir, seq_off |-> base + s, len |-> l,
             ktime |-> ebpf.ktime, owner |-> c, at |-> a + s]
    BY <1>0, <2>1 DEF Chunk
  <2>5. base + s \in Nat /\ a + s \in Nat /\ (a + s) - (base + s) = a - base
    BY <2>2
  <2>6. x \in TlsEvents
    BY ONLY <2>3, <2>4, <2>5, pid \in Pids, ssl \in Ptrs, dir \in Dirs, c \in Nat, ebpf.ktime \in Nat DEF TlsEvents
  <2>7. x.kind = "data" /\ x.conn_id = ssl /\ x.dir = dir /\ x.owner = c /\ x.at = a + s /\ x.seq_off = base + s
    BY ONLY <2>4
  <2> QED  BY ONLY <2>1, <2>5, <2>6, <2>7
<1>3. ch \in Seq(TlsEvents) /\ Len(ch) = fit
  <2>1. ch \in [1..fit -> TlsEvents]
    BY ONLY <1>0, <1>2
  <2> QED  BY ONLY <2>1, fit \in Nat
<1> QED  BY ONLY <1>2, <1>3 DEF ChunksOk

LEMMA SslDataStep ==
  ASSUME OneProcess, TlsInv, NEW pid \in Pids, NEW ssl \in Ptrs, NEW dir \in Dirs, NEW n \in CallSizes, SslData(pid, ssl, dir, n)
  PROVE  TlsInv'
<1>1. PICK v, u, base, fit, ch : /\ v = ebpf /\ u = ebpf' /\ base = At(v.off, <<ssl, dir>>)
         /\ fit = Cardinality({k \in 0..(MaxChunks - 1) : k * DataCap < n /\ Len(v.ring) + k < RingCap})
         /\ ch = [i \in 1..fit |-> Chunk(pid, ssl, dir, base, i - 1, n)]
  OBVIOUS
<1>2. EmitData(v.ring, pid, ssl, dir, n) = v.ring \o ch
  BY ONLY <1>1 DEF EmitData
<1>3. PICK off2, at2, r2 : /\ off2 = Put(v.off, <<ssl, dir>>, base + n) /\ r2 = v.ring \o ch
                           /\ at2 = Put(v.at, <<pid, ssl, dir>>, v.at[<<pid, ssl, dir>>] + n)
  OBVIOUS
<1>4. /\ <<pid, ssl>> \in DOMAIN v.owner /\ sent' = sent /\ replay' = replay
      /\ u = [v EXCEPT !.ring = r2, !.calls = v.calls + 1, !.ktime = v.ktime + 1, !.off = off2, !.at = at2]
  <2>1. /\ <<pid, ssl>> \in DOMAIN ebpf.owner /\ sent' = sent /\ replay' = replay
        /\ ebpf' = [ebpf EXCEPT !.ring = EmitData(ebpf.ring, pid, ssl, dir, n), !.calls = @ + 1, !.ktime = @ + 1,
                                !.off = Put(@, <<ssl, dir>>, At(@, <<ssl, dir>>) + n),
                                !.at = Put(@, <<pid, ssl, dir>>, @[<<pid, ssl, dir>>] + n)]
    BY DEF SslData, AdvanceBy, EbpfRest
  <2>2. AllFields(v)
    BY <1>1 DEF TlsInv, TlsShape
  <2>3. u = [v EXCEPT !.ring = r2, !.calls = @ + 1, !.ktime = @ + 1, !.off = Put(@, <<ssl, dir>>, At(@, <<ssl, dir>>) + n),
                      !.at = Put(@, <<pid, ssl, dir>>, @[<<pid, ssl, dir>>] + n)]
    BY ONLY <1>1, <1>2, <1>3, <2>1
  <2>4. u = [v EXCEPT !.ring = r2, !.calls = v.calls + 1, !.ktime = v.ktime + 1,
                      !.off = Put(v.off, <<ssl, dir>>, At(v.off, <<ssl, dir>>) + n),
                      !.at = Put(v.at, <<pid, ssl, dir>>, v.at[<<pid, ssl, dir>>] + n)]
    BY ONLY <2>2, <2>3 DEF AllFields
  <2> QED  BY ONLY <1>1, <1>3, <2>1, <2>4
<1>5. TlsShape(v) /\ replay = NoSource /\ (v.closes_lost = 0 => TlsFlows(v, sent))
  BY <1>1 DEF TlsInv
<1>6. /\ TlsShape(u) /\ u.off = off2 /\ u.ring = r2 /\ u.conns = v.conns /\ u.generations = v.generations
      /\ u.owner = v.owner /\ u.at = at2 /\ u.closes_lost = v.closes_lost
  <2>1. AllFields(v) /\ v.ktime \in Nat /\ v.opened \in Nat /\ v.closes_lost \in Nat
    BY <1>5 DEF TlsShape
  <2>2. PICK m, c : m = v.ktime + 1 /\ c = v.calls + 1
    OBVIOUS
  <2>3. m \in Nat /\ u = [v EXCEPT !.ring = r2, !.calls = c, !.ktime = m, !.off = off2, !.at = at2]
    BY ONLY <1>4, <2>1, <2>2
  <2>4. /\ AllFields(u) /\ u.off = off2 /\ u.ring = r2 /\ u.conns = v.conns /\ u.generations = v.generations
        /\ u.owner = v.owner /\ u.at = at2 /\ u.closes_lost = v.closes_lost /\ u.opened = v.opened /\ u.ktime = m
    BY ONLY <2>1, <2>3 DEF AllFields
  <2> QED  BY ONLY <2>1, <2>3, <2>4 DEF TlsShape
<1>7. n \in Nat /\ fit \in Nat
  <2>1. n \in Nat /\ MaxChunks \in Nat
    BY EbpfAssumption
  <2>2. IsFiniteSet(0..(MaxChunks - 1))
    BY ONLY <2>1, FS_Interval
  <2>3. IsFiniteSet({k \in 0..(MaxChunks - 1) : k * DataCap < n /\ Len(v.ring) + k < RingCap})
    BY ONLY <2>2, FS_Subset
  <2> QED  BY ONLY <1>1, <2>1, <2>3, FS_CardinalityType
<1>8. ASSUME u.closes_lost = 0 PROVE TlsFlows(u, sent)
  <2>1. ConnsOk(v.conns, v.generations)
    BY <1>5, <1>6, <1>8 DEF TlsFlows
  <2>2. PICK g, o, d : FlowsOk(v.ring, sent, v.off, v.generations, v.owner, v.at, g, o, d)
    BY <1>5, <1>6, <1>8 DEF TlsFlows
  <2>3. PICK ring, off, gen, owner, at, q, a, c : /\ ring = v.ring /\ off = v.off /\ gen = v.generations /\ owner = v.owner
                     /\ at = v.at /\ q = sent /\ a = at[<<pid, ssl, dir>>] /\ c = owner[<<pid, ssl>>]
    OBVIOUS
  <2>4. FlowsOk(ring, q, off, gen, owner, at, g, o, d) /\ <<pid, ssl>> \in DOMAIN owner
    BY <1>4, <2>2, <2>3
  <2>5. base \in Nat
    BY <1>1, <2>3, <2>4 DEF FlowsOk, Typed
  <2>6. a \in Nat /\ c \in Nat
    BY <2>3, <2>4 DEF FlowsOk, OpenOk
  <2>7. /\ ch \in Seq(TlsEvents)
        /\ \A k \in 1..Len(ch) : /\ ch[k].kind = "data" /\ ch[k].conn_id = ssl /\ ch[k].dir = dir /\ ch[k].owner = c
                                 /\ ch[k].at - ch[k].seq_off = a - base
    <3>0. ch = Chunks(pid, ssl, dir, base, fit, n)
      BY ONLY <1>1 DEF Chunks
    <3>1. base = At(ebpf.off, <<ssl, dir>>) /\ a = ebpf.at[<<pid, ssl, dir>>] /\ c = ebpf.owner[<<pid, ssl>>] /\ ebpf.ktime \in Nat
      BY <1>1, <1>5, <2>3 DEF TlsShape
    <3>2. n \in Nat /\ fit \in Nat
      BY <1>7
    <3>3. ChunksOk(ch, ssl, dir, c, a, base)
      BY ONLY <2>5, <2>6, <3>0, <3>1, <3>2, pid \in Pids, ssl \in Ptrs, dir \in Dirs, ChunksAre
    <3> QED  BY ONLY <3>3 DEF ChunksOk
  <2>8. \A k \in 1..Len(ch) :
           /\ ch[k].kind = "data" /\ ch[k].conn_id = ssl /\ ch[k].dir = dir /\ ch[k].owner = owner[<<pid, ssl>>]
           /\ ch[k].at - ch[k].seq_off = at[<<pid, ssl, dir>>] - At(off, <<ssl, dir>>)
    <3>1. base = At(off, <<ssl, dir>>) /\ a = at[<<pid, ssl, dir>>] /\ c = owner[<<pid, ssl>>]
      BY ONLY <1>1, <2>3
    <3> QED  BY ONLY <2>7, <3>1
  <2>9. \E g2 : FlowsOk(ring \o ch, q, Put(off, <<ssl, dir>>, At(off, <<ssl, dir>>) + n), gen, owner,
                         Put(at, <<pid, ssl, dir>>, at[<<pid, ssl, dir>>] + n), g2, o, d)
    BY ONLY OneProcess, <1>7, <2>4, <2>7, <2>8, pid \in Pids, ssl \in Ptrs, dir \in Dirs, DataKeeps
  <2>10. PICK g2 : FlowsOk(r2, sent, off2, v.generations, v.owner, at2, g2, o, d)
    BY ONLY <1>1, <1>3, <2>3, <2>9
  <2> QED  BY <1>6, <2>1, <2>10 DEF TlsFlows
<1> QED  BY <1>1, <1>4, <1>5, <1>6, <1>8 DEF TlsInv

LEMMA SslCloseStep ==
  ASSUME OneProcess, TlsInv, NEW pid \in Pids, NEW ssl \in Ptrs, NEW freed \in BOOLEAN, SslClose(pid, ssl, freed)
  PROVE  TlsInv'
<1>1. PICK v, u, e : v = ebpf /\ u = ebpf' /\ e = [kind |-> "close", conn_id |-> ssl, ktime |-> v.ktime]
  OBVIOUS
<1>2. PICK off2, w, r2, lost : /\ off2 = [k \in DOMAIN v.off \ {<<ssl, x>> : x \in Dirs} |-> v.off[k]]
           /\ w = (IF freed THEN [k \in DOMAIN v.owner \ {<<pid, ssl>>} |-> v.owner[k]] ELSE v.owner)
           /\ r2 = (IF Room(v.ring) THEN Append(v.ring, e) ELSE v.ring)
           /\ lost = (IF Room(v.ring) THEN v.closes_lost ELSE v.closes_lost + 1)
  OBVIOUS
<1>3. /\ <<pid, ssl>> \in DOMAIN v.owner /\ sent' = sent /\ replay' = replay
      /\ u = [v EXCEPT !.off = off2, !.ring = r2, !.closes_lost = lost, !.owner = w,
                      !.calls = v.calls + 1, !.ktime = v.ktime + 1]
  <2>1. AllFields(v)
    BY <1>1 DEF TlsInv, TlsShape
  <2>2. /\ <<pid, ssl>> \in DOMAIN v.owner /\ sent' = sent /\ replay' = replay
        /\ u = [v EXCEPT !.off = [k \in DOMAIN @ \ {<<ssl, x>> : x \in Dirs} |-> @[k]],
                         !.ring = IF Room(@) THEN Append(@, e) ELSE @, !.closes_lost = IF Room(v.ring) THEN @ ELSE @ + 1,
                         !.owner = IF freed THEN [k \in DOMAIN @ \ {<<pid, ssl>>} |-> @[k]] ELSE @,
                         !.calls = @ + 1, !.ktime = @ + 1]
    BY <1>1 DEF SslClose, EbpfRest
  <2>3. u = [v EXCEPT !.off = [k \in DOMAIN v.off \ {<<ssl, x>> : x \in Dirs} |-> v.off[k]],
                      !.ring = IF Room(v.ring) THEN Append(v.ring, e) ELSE v.ring,
                      !.closes_lost = IF Room(v.ring) THEN v.closes_lost ELSE v.closes_lost + 1,
                      !.owner = IF freed THEN [k \in DOMAIN v.owner \ {<<pid, ssl>>} |-> v.owner[k]] ELSE v.owner,
                      !.calls = v.calls + 1, !.ktime = v.ktime + 1]
    BY ONLY <2>1, <2>2 DEF AllFields
  <2> QED  BY ONLY <1>2, <2>2, <2>3
<1>4. TlsShape(v) /\ replay = NoSource /\ (v.closes_lost = 0 => TlsFlows(v, sent))
  BY <1>1 DEF TlsInv
<1>5. lost \in Nat /\ (lost = 0 => Room(v.ring) /\ v.closes_lost = 0)
  <2>1. v.closes_lost \in Nat
    BY <1>4 DEF TlsShape
  <2> QED  BY ONLY <1>2, <2>1
<1>6. /\ TlsShape(u) /\ u.off = off2 /\ u.ring = r2 /\ u.conns = v.conns /\ u.generations = v.generations
      /\ u.owner = w /\ u.at = v.at /\ u.closes_lost = lost
  <2>1. AllFields(v) /\ v.ktime \in Nat /\ v.opened \in Nat
    BY <1>4 DEF TlsShape
  <2>2. PICK m, c : m = v.ktime + 1 /\ c = v.calls + 1
    OBVIOUS
  <2>3. m \in Nat /\ u = [v EXCEPT !.off = off2, !.ring = r2, !.closes_lost = lost, !.owner = w, !.calls = c, !.ktime = m]
    BY ONLY <1>3, <2>1, <2>2
  <2>4. /\ AllFields(u) /\ u.off = off2 /\ u.ring = r2 /\ u.conns = v.conns /\ u.generations = v.generations
        /\ u.owner = w /\ u.at = v.at /\ u.closes_lost = lost /\ u.opened = v.opened /\ u.ktime = m
    BY ONLY <2>1, <2>3 DEF AllFields
  <2> QED  BY ONLY <1>5, <2>1, <2>3, <2>4 DEF TlsShape
<1>7. ASSUME u.closes_lost = 0 PROVE TlsFlows(u, sent)
  <2>1. ConnsOk(v.conns, v.generations)
    BY <1>4, <1>5, <1>6, <1>7 DEF TlsFlows
  <2>2. PICK g, o, d : FlowsOk(v.ring, sent, v.off, v.generations, v.owner, v.at, g, o, d)
    BY <1>4, <1>5, <1>6, <1>7 DEF TlsFlows
  <2>3. PICK ring, off, gen, owner, at, q : /\ ring = v.ring /\ off = v.off /\ gen = v.generations /\ owner = v.owner
                                            /\ at = v.at /\ q = sent
    OBVIOUS
  <2>4. FlowsOk(ring, q, off, gen, owner, at, g, o, d) /\ <<pid, ssl>> \in DOMAIN owner
    BY <1>3, <2>2, <2>3
  <2>5. e \in TlsEvents /\ e.kind = "close" /\ e.conn_id = ssl
    <3>1. v.ktime \in Nat
      BY <1>4 DEF TlsShape
    <3> QED  BY ONLY <1>1, <3>1, ssl \in Ptrs DEF TlsEvents
  <2>6. off2 = Forgotten(off, ssl)
    BY ONLY <1>2, <2>3 DEF Forgotten
  <2>7. MaybeFreed(owner, <<pid, ssl>>, w)
    BY ONLY <1>2, <2>3 DEF MaybeFreed
  <2>8. \E g2, o2, d2 : FlowsOk(Append(ring, e), q, off2, gen, w, at, g2, o2, d2)
    BY ONLY OneProcess, <2>4, <2>5, <2>6, <2>7, pid \in Pids, ssl \in Ptrs, CloseKeeps
  <2>9. r2 = Append(ring, e)
    BY <1>2, <1>5, <1>6, <1>7, <2>3
  <2>10. PICK g2, o2, d2 : FlowsOk(r2, sent, off2, v.generations, w, v.at, g2, o2, d2)
    BY ONLY <2>3, <2>8, <2>9
  <2> QED  BY <1>6, <2>1, <2>10 DEF TlsFlows
<1> QED  BY <1>1, <1>3, <1>4, <1>6, <1>7 DEF TlsInv

\* The pump's table after an event.
LEMMA ObservedKeeps ==
  ASSUME ConnsOk(ebpf.conns, ebpf.generations), NEW e \in TlsEvents, e.kind = "data", NEW conns, conns = Observed(e)
  PROVE  ConnsOk(conns, ebpf.generations)
<1>1. e.conn_id \in Ptrs /\ e.dir \in Dirs /\ e.seq_off \in Nat /\ e.len \in Int
  BY EventFacts
<1>2. PICK old, gen, id, c, m : /\ old = ebpf.conns /\ gen = ebpf.generations /\ id = e.conn_id
           /\ c = (IF id \in DOMAIN old THEN old[id] ELSE [tuple |-> FlowOf(id), hi |-> [x \in Dirs |-> 0]])
           /\ m = Max({c.hi[e.dir], e.seq_off + e.len})
  OBVIOUS
<1>3. ConnsOk(old, gen)
  BY <1>2
<1>4. c = [tuple |-> c.tuple, hi |-> c.hi] /\ c.tuple = Tuple(<<id, At(gen, id)>>) /\ c.hi \in [Dirs -> Int]
  <2>1. CASE id \in DOMAIN old
    <3>1. c = old[id]
      BY <1>2, <2>1
    <3> QED  BY <1>3, <2>1, <3>1 DEF ConnsOk
  <2>2. CASE id \notin DOMAIN old
    <3>1. FlowOf(id) = Tuple(<<id, At(gen, id)>>)
      BY <1>2, <2>2 DEF FlowOf, Tuple
    <3>2. c = [tuple |-> Tuple(<<id, At(gen, id)>>), hi |-> [x \in Dirs |-> 0]]
      BY <1>2, <2>2, <3>1
    <3>3. c.tuple = Tuple(<<id, At(gen, id)>>) /\ c.hi = [x \in Dirs |-> 0]
      BY ONLY <3>2
    <3>4. [x \in Dirs |-> 0] \in [Dirs -> Int]
      OBVIOUS
    <3> QED  BY ONLY <3>2, <3>3, <3>4
  <2> QED  BY <2>1, <2>2
<1>5. m \in Int
  <2>1. PICK a, b : a = c.hi[e.dir] /\ b = e.seq_off + e.len
    OBVIOUS
  <2>2. a \in Int /\ b \in Int
    BY <1>1, <1>4, <2>1
  <2>3. CASE a <= b
    <3>1. {a, b} \subseteq Int /\ b \in {a, b} /\ \A x \in {a, b} : x <= b
      BY <2>2, <2>3
    <3>2. Max({a, b}) = b
      BY ONLY <3>1, MaxIs
    <3> QED  BY <1>2, <2>1, <2>2, <3>2
  <2>4. CASE b <= a
    <3>1. {a, b} \subseteq Int /\ a \in {a, b} /\ \A x \in {a, b} : x <= a
      BY <2>2, <2>4
    <3>2. Max({a, b}) = a
      BY ONLY <3>1, MaxIs
    <3> QED  BY <1>2, <2>1, <2>2, <3>2
  <2> QED  BY <2>2, <2>3, <2>4
<1>6. PICK c2 : c2 = [c EXCEPT !.hi = [c.hi EXCEPT ![e.dir] = m]]
  OBVIOUS
<1>7. conns = Put(old, id, c2)
  <2>1. conns = Put(old, id, [c EXCEPT !.hi[e.dir] = Max({@, e.seq_off + e.len})])
    BY ONLY <1>2, conns = Observed(e) DEF Observed
  <2>2. [c EXCEPT !.hi[e.dir] = Max({@, e.seq_off + e.len})] = c2
    BY ONLY <1>2, <1>4, <1>6
  <2> QED  BY ONLY <2>1, <2>2
<1>8. c2 = [tuple |-> c2.tuple, hi |-> c2.hi] /\ c2.tuple = Tuple(<<id, At(gen, id)>>) /\ c2.hi \in [Dirs -> Int]
  <2>1. PICK h, w : h = c.hi /\ w = [h EXCEPT ![e.dir] = m]
    OBVIOUS
  <2>2. w \in [Dirs -> Int]
    BY <1>1, <1>4, <1>5, <2>1
  <2>3. c2 = [c EXCEPT !.hi = w]
    BY <1>6, <2>1
  <2>4. c2 = [tuple |-> c.tuple, hi |-> w] /\ c2.tuple = c.tuple /\ c2.hi = w
    BY ONLY <1>4, <2>3
  <2> QED  BY ONLY <1>4, <2>2, <2>4
<1>9. DOMAIN conns = DOMAIN old \cup {id} /\ conns[id] = c2 /\ \A s \in DOMAIN old : s # id => conns[s] = old[s]
  BY ONLY <1>7 DEF Put
<1>10. ASSUME NEW s \in DOMAIN conns
       PROVE  conns[s] = [tuple |-> conns[s].tuple, hi |-> conns[s].hi] /\ conns[s].tuple = Tuple(<<s, At(gen, s)>>) /\ conns[s].hi \in [Dirs -> Int]
  <2>1. CASE s = id
    BY ONLY <1>8, <1>9, <2>1
  <2>2. CASE s # id
    <3>1. s \in DOMAIN old /\ conns[s] = old[s]
      BY ONLY <1>9, <1>10, <2>2
    <3> QED  BY <1>3, <3>1 DEF ConnsOk
  <2> QED  BY <2>1, <2>2
<1> QED  BY <1>2, <1>10 DEF ConnsOk

LEMMA DroppedKeeps ==
  ASSUME NEW conns, NEW gen, ConnsOk(conns, gen), NEW id, NEW n, NEW left, left = [c \in DOMAIN conns \ {id} |-> conns[c]]
  PROVE  ConnsOk(left, Put(gen, id, n))
<1>1. PICK gen2 : gen2 = Put(gen, id, n)
  OBVIOUS
<1>2. \A s : s # id => At(gen2, s) = At(gen, s)
  BY ONLY <1>1 DEF Put, At
<1>3. ASSUME NEW s \in DOMAIN left
      PROVE  left[s] = [tuple |-> left[s].tuple, hi |-> left[s].hi] /\ left[s].tuple = Tuple(<<s, At(gen2, s)>>) /\ left[s].hi \in [Dirs -> Int]
  <2>1. s \in DOMAIN conns /\ s # id /\ left[s] = conns[s]
    OBVIOUS
  <2> QED  BY <1>2, <2>1 DEF ConnsOk
<1> QED  BY <1>1, <1>3 DEF ConnsOk

\* What the pump sends for the first event of the ring.
Answer(e) == IF e.kind = "data" THEN DataFrames(e) ELSE CloseFrames(e)
LEMMA AnswerFits ==
  ASSUME ConnsOk(ebpf.conns, ebpf.generations), NEW q, NEW g, NEW o, NEW d,
         FlowsOk(ebpf.ring, q, ebpf.off, ebpf.generations, ebpf.owner, ebpf.at, g, o, d), ebpf.ring # <<>>,
         NEW out, out = Tracked(Answer(Head(ebpf.ring))).out
  PROVE  /\ Head(ebpf.ring) \in TlsEvents /\ out \in Seq(TlsItems) /\ At(ebpf.generations, Head(ebpf.ring).conn_id) \in Nat
         /\ \A i \in 1..Len(out) : Fits(out[i], ebpf.generations, ebpf.owner, g[Len(ebpf.ring) + 1], o, d)
<1>1. PICK ring, gen, owner, e, frames : /\ ring = ebpf.ring /\ gen = ebpf.generations /\ owner = ebpf.owner /\ e = Head(ring)
                                         /\ frames = Answer(e)
  OBVIOUS
<1>2. /\ ring \in Seq(TlsEvents) /\ Epochs(ring, gen, g) /\ EventsOk(ring, g, o, d) /\ ShutOk(ring, q, ebpf.off, owner, g)
      /\ \A s \in Ptrs : At(gen, s) \in Nat
  BY <1>1 DEF FlowsOk, Typed
<1>3. e \in TlsEvents /\ e = ring[1] /\ 1 \in 1..Len(ring)
  <2>1. Head(ring) = ring[1] /\ Head(ring) \in TlsEvents
    BY ONLY <1>1, <1>2, ebpf.ring # <<>>, HeadTailProperties
  <2>2. Len(ring) \in Nat /\ Len(ring) # 0
    BY ONLY <1>1, <1>2, ebpf.ring # <<>>, LenProperties, EmptySeq
  <2> QED  BY <1>1, <2>1, <2>2
<1>4. e.kind \in {"data", "close"} /\ e.conn_id \in Ptrs
  BY <1>3, EventFacts
<1>5. At(gen, e.conn_id) \in Nat /\ At(gen, e.conn_id) = g[1][e.conn_id]
  BY <1>2, <1>4 DEF Epochs
<1>6. ASSUME frames \in Seq(Frames),
             \A j \in 1..Len(frames) : Fits(frames[j], gen, owner, g[Len(ring) + 1], o, d)
      PROVE  out \in Seq(TlsItems) /\ \A i \in 1..Len(out) : Fits(out[i], gen, owner, g[Len(ring) + 1], o, d)
  <2>1. out = Tracked(frames).out
    BY <1>1
  <2>2. /\ out \in Seq(TlsItems)
        /\ \A i \in 1..Len(out) : out[i].heartbeat \/ \E j \in 1..Len(frames) : out[i] = frames[j]
    BY ONLY <1>6, <2>1, TrackedIs
  <2>3. ASSUME NEW i \in 1..Len(out) PROVE Fits(out[i], gen, owner, g[Len(ring) + 1], o, d)
    <3>1. CASE out[i].heartbeat
      BY ONLY <3>1 DEF Fits
    <3>2. CASE \E j \in 1..Len(frames) : out[i] = frames[j]
      BY ONLY <1>6, <3>2
    <3> QED  BY ONLY <2>2, <2>3, <3>1, <3>2
  <2> QED  BY <2>2, <2>3
<1>7. CASE e.kind = "data"
  <2>1. frames = DataFrames(e)
    BY <1>1, <1>7 DEF Answer
  <2>2. PICK f : f = <<e.conn_id, At(gen, e.conn_id)>>
    OBVIOUS
  <2>3. /\ frames \in Seq(Frames)
        /\ \A i \in 1..Len(frames) :
             /\ frames[i].name = f /\ frames[i].flow = Tuple(frames[i].name) /\ frames[i].owner = e.owner /\ frames[i].dir = e.dir
             /\ frames[i].at - frames[i].seq = e.at - e.seq_off - SYNTH_ISN
    BY <1>1, <1>3, <1>5, <1>7, <2>1, <2>2, DataFramesAre
  <2>4. e.owner = o[f] /\ e.at - e.seq_off = d[f][e.dir]
    BY <1>2, <1>3, <1>5, <1>7, <2>2 DEF EventsOk
  <2>5. (\A p \in Pids : <<p, f[1]>> \notin DOMAIN owner) => f[2] < g[Len(ring) + 1][f[1]]
    <3>1. f[1] = e.conn_id /\ f[2] = g[1][e.conn_id]
      BY <1>5, <2>2
    <3> QED  BY <1>2, <1>3, <1>4, <1>7, <3>1 DEF ShutOk
  <2>6. f[2] <= At(gen, f[1])
    BY <1>5, <2>2
  <2>7. ASSUME NEW i \in 1..Len(frames) PROVE Fits(frames[i], gen, owner, g[Len(ring) + 1], o, d)
    <3>1. frames[i].name = f /\ frames[i].flow = Tuple(f) /\ frames[i].owner = o[f] /\ frames[i].at - frames[i].seq = d[f][frames[i].dir] - SYNTH_ISN
      BY ONLY <2>3, <2>4, <2>7
    <3> QED  BY ONLY <2>5, <2>6, <3>1 DEF Fits
  <2> QED  BY <1>1, <1>3, <1>5, <1>6, <2>3, <2>7
<1>8. CASE e.kind = "close"
  <2>1. frames = CloseFrames(e)
    BY <1>1, <1>8 DEF Answer
  <2>2. frames \in Seq(Frames) /\ \A i \in 1..Len(frames) : frames[i].flags = "fin"
    BY <1>1, <1>3, <1>5, <1>8, <2>1, CloseFramesAre
  <2>3. ASSUME NEW i \in 1..Len(frames) PROVE Fits(frames[i], gen, owner, g[Len(ring) + 1], o, d)
    <3>1. frames[i].flags = "fin"
      BY ONLY <2>2, <2>3
    <3> QED  BY ONLY <3>1 DEF Fits
  <2> QED  BY <1>1, <1>3, <1>5, <1>6, <2>2, <2>3
<1> QED  BY <1>4, <1>7, <1>8

LEMMA PumpStep ==
  ASSUME TlsInv, PumpEvent({})
  PROVE  TlsInv'
<1>1. PICK v, u, e, frames, out, slot : /\ v = ebpf /\ u = ebpf' /\ e = Head(v.ring) /\ frames = Answer(e)
                                        /\ out = Tracked(frames).out /\ slot = Tracked(frames).slot
  OBVIOUS
<1>2. PICK pc, conns, gen2, r2 : /\ pc = (IF closed /\ out # <<>> THEN "done" ELSE v.pc) /\ r2 = Tail(v.ring)
           /\ conns = (IF e.kind = "data" THEN Observed(e) ELSE [c \in DOMAIN v.conns \ {e.conn_id} |-> v.conns[c]])
           /\ gen2 = (IF e.kind = "data" THEN v.generations ELSE Put(v.generations, e.conn_id, At(v.generations, e.conn_id) + 1))
  OBVIOUS
<1>3. TlsShape(v) /\ replay = NoSource /\ (v.closes_lost = 0 => TlsFlows(v, sent))
  BY <1>1 DEF TlsInv
<1>4. /\ v.ring # <<>> /\ sent' = (IF closed THEN sent ELSE sent \o out) /\ replay' = replay
      /\ u = [v EXCEPT !.ring = r2, !.slot = slot, !.pc = pc, !.conns = conns, !.generations = gen2]
  <2>1. AllFields(v)
    BY <1>3 DEF TlsShape
  <2>2. /\ v.ring # <<>> /\ sent' = (IF closed THEN sent ELSE sent \o out) /\ replay' = replay
        /\ u = [v EXCEPT !.ring = Tail(@), !.slot = slot, !.pc = IF closed /\ out # <<>> THEN "done" ELSE @,
                         !.conns = IF e.kind = "data" THEN Observed(e) ELSE [c \in DOMAIN @ \ {e.conn_id} |-> @[c]],
                         !.generations = IF e.kind = "data" THEN @ ELSE Put(@, e.conn_id, At(@, e.conn_id) + 1)]
    BY <1>1 DEF PumpEvent, Answer, EbpfRest
  <2>3. u = [v EXCEPT !.ring = Tail(v.ring), !.slot = slot, !.pc = IF closed /\ out # <<>> THEN "done" ELSE v.pc,
               !.conns = IF e.kind = "data" THEN Observed(e) ELSE [c \in DOMAIN v.conns \ {e.conn_id} |-> v.conns[c]],
               !.generations = IF e.kind = "data" THEN v.generations
                               ELSE Put(v.generations, e.conn_id, At(v.generations, e.conn_id) + 1)]
    BY ONLY <2>1, <2>2 DEF AllFields
  <2> QED  BY ONLY <1>2, <2>2, <2>3
<1>5. /\ TlsShape(u) /\ u.off = v.off /\ u.ring = r2 /\ u.conns = conns /\ u.generations = gen2
      /\ u.owner = v.owner /\ u.at = v.at /\ u.closes_lost = v.closes_lost
  <2>1. AllFields(v) /\ v.ktime \in Nat /\ v.opened \in Nat /\ v.closes_lost \in Nat
    BY <1>3 DEF TlsShape
  <2>2. /\ AllFields(u) /\ u.off = v.off /\ u.ring = r2 /\ u.conns = conns /\ u.generations = gen2
        /\ u.owner = v.owner /\ u.at = v.at /\ u.closes_lost = v.closes_lost /\ u.opened = v.opened /\ u.ktime = v.ktime
    BY ONLY <1>4, <2>1 DEF AllFields
  <2> QED  BY ONLY <2>1, <2>2 DEF TlsShape
<1>6. ASSUME u.closes_lost = 0 PROVE TlsFlows(u, sent')
  <2>1. ConnsOk(v.conns, v.generations)
    BY <1>3, <1>5, <1>6 DEF TlsFlows
  <2>2. PICK g, o, d : FlowsOk(v.ring, sent, v.off, v.generations, v.owner, v.at, g, o, d)
    BY <1>3, <1>5, <1>6 DEF TlsFlows
  <2>3. /\ e \in TlsEvents /\ out \in Seq(TlsItems) /\ At(v.generations, e.conn_id) \in Nat
        /\ \A i \in 1..Len(out) : Fits(out[i], v.generations, v.owner, g[Len(v.ring) + 1], o, d)
    <3>1. PICK q : q = sent
      OBVIOUS
    <3>2. /\ ConnsOk(ebpf.conns, ebpf.generations) /\ ebpf.ring # <<>> /\ out = Tracked(Answer(Head(ebpf.ring))).out
          /\ FlowsOk(ebpf.ring, q, ebpf.off, ebpf.generations, ebpf.owner, ebpf.at, g, o, d)
      BY <1>1, <1>4, <2>1, <2>2, <3>1
    <3>3. /\ Head(ebpf.ring) \in TlsEvents /\ out \in Seq(TlsItems) /\ At(ebpf.generations, Head(ebpf.ring).conn_id) \in Nat
          /\ \A i \in 1..Len(out) : Fits(out[i], ebpf.generations, ebpf.owner, g[Len(ebpf.ring) + 1], o, d)
      BY ONLY <3>2, AnswerFits
    <3> QED  BY ONLY <1>1, <3>3
  <2>4. PICK ring, off, gen, owner, at, q, q2 : /\ ring = v.ring /\ off = v.off /\ gen = v.generations /\ owner = v.owner
                                                /\ at = v.at /\ q = sent /\ q2 = sent'
    OBVIOUS
  <2>5. /\ FlowsOk(ring, q, off, gen, owner, at, g, o, d) /\ ring # <<>> /\ out \in Seq(TlsItems)
        /\ \A i \in 1..Len(out) : Fits(out[i], gen, owner, g[Len(ring) + 1], o, d)
    BY ONLY <1>4, <2>2, <2>3, <2>4
  <2>6. FlowsOk(ring, q \o out, off, gen, owner, at, g, o, d)
    BY ONLY <2>5, MoreKeeps
  <2>7. FlowsOk(ring, q2, off, gen, owner, at, g, o, d)
    BY ONLY <1>4, <2>4, <2>5, <2>6
  <2>8. \E g2 : FlowsOk(Tail(ring), q2, off, Handled(gen, Head(ring)), owner, at, g2, o, d)
    BY ONLY <2>5, <2>7, TailKeeps
  <2>9. gen2 = Handled(gen, Head(ring)) /\ r2 = Tail(ring)
    BY ONLY <1>1, <1>2, <2>4 DEF Handled
  <2>10. PICK g2 : FlowsOk(u.ring, sent', u.off, u.generations, u.owner, u.at, g2, o, d)
    BY ONLY <1>5, <2>4, <2>8, <2>9
  <2>11. ConnsOk(conns, gen2)
    <3>1. CASE e.kind = "data"
      <4>1. conns = Observed(e) /\ gen2 = ebpf.generations /\ ConnsOk(ebpf.conns, ebpf.generations)
        BY <1>1, <1>2, <2>1, <3>1
      <4>2. ConnsOk(conns, ebpf.generations)
        BY ONLY <2>3, <3>1, <4>1, ObservedKeeps
      <4> QED  BY <4>1, <4>2
    <3>2. CASE e.kind # "data"
      <4>1. PICK cs, id, n : cs = v.conns /\ id = e.conn_id /\ n = At(gen, e.conn_id) + 1
        OBVIOUS
      <4>2. conns = [c \in DOMAIN cs \ {id} |-> cs[c]] /\ gen2 = Put(gen, id, n) /\ ConnsOk(cs, gen)
        BY ONLY <1>2, <2>1, <2>4, <3>2, <4>1
      <4> QED  BY ONLY <4>2, DroppedKeeps
    <3> QED  BY <3>1, <3>2
  <2> QED  BY <1>5, <2>10, <2>11 DEF TlsFlows
<1> QED  BY <1>1, <1>3, <1>4, <1>5, <1>6 DEF TlsInv

LEMMA IdleStep ==
  ASSUME TlsInv, IdleHeartbeat
  PROVE  TlsInv'
<1>1. PICK v, u, h, pc, n : /\ v = ebpf /\ u = ebpf' /\ h = Heartbeat(EbpfId, v.ktime)
                            /\ pc = (IF closed THEN "done" ELSE v.pc) /\ n = v.idle + 1
  OBVIOUS
<1>2. TlsShape(v) /\ replay = NoSource /\ (v.closes_lost = 0 => TlsFlows(v, sent))
  BY <1>1 DEF TlsInv
<1>3. sent' = (IF closed THEN sent ELSE Append(sent, h)) /\ replay' = replay /\ u = [v EXCEPT !.idle = n, !.pc = pc]
  <2>1. AllFields(v)
    BY <1>2 DEF TlsShape
  <2>2. /\ sent' = (IF closed THEN sent ELSE Append(sent, h)) /\ replay' = replay
        /\ u = [v EXCEPT !.idle = @ + 1, !.pc = IF closed THEN "done" ELSE @]
    BY <1>1 DEF IdleHeartbeat, EbpfRest
  <2>3. u = [v EXCEPT !.idle = v.idle + 1, !.pc = IF closed THEN "done" ELSE v.pc]
    BY ONLY <2>1, <2>2 DEF AllFields
  <2> QED  BY ONLY <1>1, <2>2, <2>3
<1>4. /\ TlsShape(u) /\ u.off = v.off /\ u.ring = v.ring /\ u.conns = v.conns /\ u.generations = v.generations
      /\ u.owner = v.owner /\ u.at = v.at /\ u.closes_lost = v.closes_lost
  <2>1. AllFields(v) /\ v.ktime \in Nat /\ v.opened \in Nat /\ v.closes_lost \in Nat
    BY <1>2 DEF TlsShape
  <2>2. /\ AllFields(u) /\ u.off = v.off /\ u.ring = v.ring /\ u.conns = v.conns /\ u.generations = v.generations
        /\ u.owner = v.owner /\ u.at = v.at /\ u.closes_lost = v.closes_lost /\ u.opened = v.opened /\ u.ktime = v.ktime
    BY ONLY <1>3, <2>1 DEF AllFields
  <2> QED  BY ONLY <2>1, <2>2 DEF TlsShape
<1>5. ASSUME u.closes_lost = 0 PROVE TlsFlows(u, sent')
  <2>1. ConnsOk(v.conns, v.generations)
    BY <1>2, <1>4, <1>5 DEF TlsFlows
  <2>2. PICK g, o, d : FlowsOk(v.ring, sent, v.off, v.generations, v.owner, v.at, g, o, d)
    BY <1>2, <1>4, <1>5 DEF TlsFlows
  <2>3. PICK ring, off, gen, owner, at, q, q2, more : /\ ring = v.ring /\ off = v.off /\ gen = v.generations /\ owner = v.owner
                                                      /\ at = v.at /\ q = sent /\ q2 = sent' /\ more = <<h>>
    OBVIOUS
  <2>4. h \in TlsItems /\ h.heartbeat
    <3>1. v.ktime \in Nat
      BY <1>2 DEF TlsShape
    <3> QED  BY ONLY <1>1, <3>1, HeartbeatItem
  <2>5. FlowsOk(ring, q, off, gen, owner, at, g, o, d) /\ q \in Seq(TlsItems)
    BY <2>2, <2>3 DEF FlowsOk, Typed
  <2>6. more \in Seq(TlsItems) /\ Len(more) = 1 /\ more[1] = h
    BY ONLY <2>3, <2>4
  <2>7. \A i \in 1..Len(more) : Fits(more[i], gen, owner, g[Len(ring) + 1], o, d)
    <3>1. Fits(h, gen, owner, g[Len(ring) + 1], o, d)
      BY ONLY <2>4 DEF Fits
    <3>2. \A i \in 1..Len(more) : more[i] = h
      BY ONLY <2>6
    <3> QED  BY ONLY <3>1, <3>2
  <2>8. FlowsOk(ring, q \o more, off, gen, owner, at, g, o, d)
    BY ONLY <2>5, <2>6, <2>7, MoreKeeps
  <2>9. Append(q, h) = q \o more
    BY ONLY <2>3, <2>4, <2>5
  <2>10. FlowsOk(ring, q2, off, gen, owner, at, g, o, d)
    BY ONLY <1>3, <2>3, <2>5, <2>8, <2>9
  <2>11. FlowsOk(u.ring, sent', u.off, u.generations, u.owner, u.at, g, o, d)
    BY ONLY <1>4, <2>3, <2>10
  <2> QED  BY <1>4, <2>1, <2>11 DEF TlsFlows
<1> QED  BY <1>1, <1>2, <1>3, <1>4, <1>5 DEF TlsInv

LEMMA ExitStep ==
  ASSUME TlsInv, EbpfExit
  PROVE  TlsInv'
<1>1. PICK v, u : v = ebpf /\ u = ebpf'
  OBVIOUS
<1>2. TlsShape(v) /\ replay = NoSource /\ (v.closes_lost = 0 => TlsFlows(v, sent))
  BY <1>1 DEF TlsInv
<1>3. sent' = sent /\ replay' = replay /\ u = [v EXCEPT !.pc = "done"]
  BY <1>1 DEF EbpfExit, EbpfRest
<1>4. AllFields(v) /\ v.ktime \in Nat /\ v.opened \in Nat /\ v.closes_lost \in Nat
  BY <1>2 DEF TlsShape
<1>5. /\ AllFields(u) /\ u.off = v.off /\ u.ring = v.ring /\ u.conns = v.conns /\ u.generations = v.generations
      /\ u.owner = v.owner /\ u.at = v.at /\ u.closes_lost = v.closes_lost /\ u.opened = v.opened /\ u.ktime = v.ktime
  BY ONLY <1>3, <1>4 DEF AllFields
<1>6. u.closes_lost = 0 => TlsFlows(u, sent)
  BY ONLY <1>2, <1>5 DEF TlsFlows
<1> QED  BY <1>1, <1>2, <1>3, <1>4, <1>5, <1>6 DEF TlsInv, TlsShape

LEMMA TlsStart ==
  ASSUME SourcesQuiet, replay = NoSource, EbpfInit
  PROVE  TlsInv
<1>1. PICK v, q : v = ebpf /\ q = sent
  OBVIOUS
<1>2. q = <<>> /\ v = [pc |-> "run", off |-> [k \in {} |-> 0], ring |-> <<>>, ktime |-> 1,
            conns |-> [c \in {} |-> <<>>], generations |-> [c \in {} |-> 0], slot |-> 0,
            owner |-> [k \in {} |-> 0], at |-> [k \in {} |-> 0], opened |-> 0, calls |-> 0, idle |-> 0, closes_lost |-> 0]
  BY <1>1 DEF SourcesQuiet, EbpfInit
<1>3. PICK ring, off, gen, owner, at, conns :
         /\ ring = v.ring /\ off = v.off /\ gen = v.generations /\ owner = v.owner /\ at = v.at /\ conns = v.conns
  OBVIOUS
<1>4. /\ AllFields(v) /\ v.ktime = 1 /\ v.opened = 0 /\ v.closes_lost = 0 /\ ring = <<>>
      /\ off = [k \in {} |-> 0] /\ gen = [c \in {} |-> 0] /\ owner = [k \in {} |-> 0] /\ conns = [c \in {} |-> <<>>]
  BY ONLY <1>2, <1>3 DEF AllFields
<1>5. DOMAIN off = {} /\ DOMAIN gen = {} /\ DOMAIN owner = {} /\ DOMAIN conns = {}
  BY ONLY <1>4
<1>6. (\A s \in Ptrs : At(gen, s) = 0) /\ (\A s \in Ptrs, x \in Dirs : At(off, <<s, x>>) = 0)
  BY <1>5 DEF At
<1>7. PICK g, o, d : /\ g = [k \in 1..1 |-> [s \in Ptrs |-> 0]] /\ o = [f \in Flow |-> 0]
                     /\ d = [f \in Flow |-> [x \in Dirs |-> 0]]
  OBVIOUS
<1>8. /\ ring \in Seq(TlsEvents) /\ Len(ring) = 0 /\ 1..Len(ring) = {} /\ Len(ring) + 1 = 1 /\ 1..(Len(ring) + 1) = 1..1
      /\ q \in Seq(TlsItems) /\ Psh(q) = {}
  BY ONLY <1>2, <1>4 DEF Psh
<1>9. Typed(ring, q, off, gen, o, d)
  <2>1. o \in [Flow -> Nat] /\ d \in [Flow -> [Dirs -> Int]]
    BY ONLY <1>7
  <2>2. (\A s \in Ptrs : At(gen, s) \in Nat) /\ (\A s \in Ptrs, x \in Dirs : At(off, <<s, x>>) \in Nat)
    BY ONLY <1>6
  <2> QED  BY ONLY <1>8, <2>1, <2>2 DEF Typed
<1>10. Epochs(ring, gen, g)
  <2>1. g \in [1..1 -> [Ptrs -> Nat]] /\ \A k \in 1..1, s \in Ptrs : g[k][s] = 0
    BY ONLY <1>7
  <2>2. g[1] = [s \in Ptrs |-> 0]
    BY ONLY <1>7
  <2>3. \A s \in Ptrs : g[1][s] = At(gen, s)
    BY ONLY <1>6, <2>2
  <2>4. \A k \in 1..1, s \in Ptrs : g[k][s] <= g[1][s]
    BY ONLY <2>1, <2>2
  <2> QED  BY ONLY <1>8, <2>1, <2>3, <2>4 DEF Epochs
<1>11. EventsOk(ring, g, o, d) /\ SentOk(q, gen, o, d)
  BY ONLY <1>8 DEF EventsOk, SentOk
<1>12. OpenOk(off, owner, at, g[Len(ring) + 1], o, d)
  BY ONLY <1>5 DEF OpenOk
<1>13. ShutOk(ring, q, off, owner, g)
  BY ONLY <1>6, <1>8 DEF ShutOk
<1>14. FlowsOk(ring, q, off, gen, owner, at, g, o, d)
  BY ONLY <1>9, <1>10, <1>11, <1>12, <1>13 DEF FlowsOk
<1>15. ConnsOk(conns, gen)
  BY ONLY <1>5 DEF ConnsOk
<1>16. TlsFlows(v, q)
  BY ONLY <1>3, <1>14, <1>15 DEF TlsFlows
<1>17. TlsShape(v)
  BY ONLY <1>4 DEF TlsShape
<1> QED  BY <1>1, <1>16, <1>17 DEF TlsInv

\* The inductive invariant of the TLS source: every flow number of a pointer, those of
\* the events still in the ring and the one in use included, belongs to one connection
\* and one distance between the numbers and the stream, and the next number of a
\* pointer that is not in use is fresh.
THEOREM TlsInvariant == ASSUME OneProcess PROVE EbpfSpec => []TlsInv
<1>1. SourcesQuiet /\ replay = NoSource /\ EbpfInit => TlsInv
  BY TlsStart
<1>2. ASSUME TlsInv, [EbpfNext \/ ((Serve \/ Cancel \/ Close) /\ UNCHANGED ebpf)]_<<ebpf, captureVars>>
      PROVE  TlsInv'
  <2>1. ASSUME NEW pid \in Pids, NEW ssl \in Ptrs, SslNew(pid, ssl) PROVE TlsInv'
    BY <1>2, <2>1, SslNewStep
  <2>2. ASSUME NEW pid \in Pids, NEW ssl \in Ptrs, SslClose(pid, ssl, TRUE) \/ SslClose(pid, ssl, FALSE) PROVE TlsInv'
    BY <1>2, <2>2, SslCloseStep
  <2>3. ASSUME NEW pid \in Pids, NEW ssl \in Ptrs, NEW dir \in Dirs, NEW n \in CallSizes, SslData(pid, ssl, dir, n) PROVE TlsInv'
    BY <1>2, <2>3, SslDataStep
  <2>4. CASE PumpEvent({})
    BY <1>2, <2>4, PumpStep
  <2>5. CASE IdleHeartbeat
    BY <1>2, <2>5, IdleStep
  <2>6. CASE EbpfExit
    BY <1>2, <2>6, ExitStep
  <2>7. CASE ((Serve \/ Cancel \/ Close) /\ UNCHANGED ebpf) \/ UNCHANGED <<ebpf, captureVars>>
    <3>1. UNCHANGED <<ebpf, replay, sent>>
      BY <2>7 DEF Serve, Dispatch, Take, DispatchRest, Cancel, Close, captureVars, sourceVars
    <3> QED  BY <1>2, <3>1 DEF TlsInv
  <2> QED  BY <1>2, <2>1, <2>2, <2>3, <2>4, <2>5, <2>6, <2>7 DEF EbpfNext
<1> QED  BY <1>1, <1>2, PTL DEF EbpfSpec

\* The uprobe source, for a process with any number of pointers and connections, calls
\* of any length against any chunk size and ring, closes at any time, and a pump as far
\* behind as it likes: as long as no close event is lost and the generations of the
\* pointers so far have tuples of their own, a sequence number of a made-up flow stands for one byte of one connection
\* and bytes keep their distance.
THEOREM TlsFlowsAreApart == ASSUME OneProcess PROVE EbpfSpec /\ []TuplesApart => []FlowsApart
<1>1. TlsInv => PassesApart
  BY DEF TlsInv, PassesApart
<1>2. TlsInv /\ TuplesApart => StreamsApart
  <2> SUFFICES ASSUME TlsInv, TuplesApart, ebpf.closes_lost = 0 PROVE OneByteEach /\ Contiguous
    BY DEF StreamsApart
  <2>1. PICK g, o, d : FlowsOk(ebpf.ring, sent, ebpf.off, ebpf.generations, ebpf.owner, ebpf.at, g, o, d)
    BY DEF TlsInv, TlsFlows
  <2>2. PICK ring, q, off, gen, owner, at : /\ ring = ebpf.ring /\ q = sent /\ off = ebpf.off /\ gen = ebpf.generations
                                            /\ owner = ebpf.owner /\ at = ebpf.at
    OBVIOUS
  <2>3. FlowsOk(ring, q, off, gen, owner, at, g, o, d)
    BY ONLY <2>1, <2>2
  <2>4. ASSUME NEW a \in {x \in Segments : x.flags = "psh"}, NEW b \in {x \in Segments : x.flags = "psh"},
               a.flow = b.flow, a.dir = b.dir
        PROVE  a.owner = b.owner /\ a.seq - b.seq = a.at - b.at /\ (a.seq = b.seq => a.at = b.at)
    <3>1. PICK i \in Psh(q) : a = q[i]
      BY <2>2 DEF Segments, Psh
    <3>2. PICK j \in Psh(q) : b = q[j]
      BY <2>2 DEF Segments, Psh
    <3>3. q[i].name = q[j].name /\ q[i].dir = q[j].dir
      <4>1. PICK s, m, r, n : s = q[i].name[1] /\ m = q[i].name[2] /\ r = q[j].name[1] /\ n = q[j].name[2]
        OBVIOUS
      <4>2. q \in Seq(TlsItems) /\ SentOk(q, gen, o, d) /\ \A y \in Ptrs : At(gen, y) \in Nat
        BY <2>3 DEF FlowsOk, Typed
      <4>3. q[i] \in TlsItems /\ ~q[i].heartbeat /\ q[j] \in TlsItems /\ ~q[j].heartbeat
        BY <4>2 DEF Psh
      <4>4. /\ q[i].name = <<s, m>> /\ s \in Ptrs /\ m \in Nat /\ q[j].name = <<r, n>> /\ r \in Ptrs /\ n \in Nat
        BY <4>1, <4>3, ItemFacts
      <4>5. /\ q[i].flow = SyntheticTuple(s, m) /\ m <= At(gen, s)
            /\ q[j].flow = SyntheticTuple(r, n) /\ n <= At(gen, r)
        BY <4>1, <4>2 DEF SentOk, Tuple
      <4>6. m \in 0..At(ebpf.generations, s) /\ n \in 0..At(ebpf.generations, r)
        BY <2>2, <4>2, <4>4, <4>5
      <4>7. SyntheticTuple(s, m) = SyntheticTuple(r, n)
        BY <2>4, <3>1, <3>2, <4>5
      <4>8. s = r /\ m = n
        BY <4>4, <4>6, <4>7 DEF TuplesApart
      <4> QED  BY <2>4, <3>1, <3>2, <4>4, <4>8
    <3>4. q[i].owner = q[j].owner /\ q[i].seq - q[j].seq = q[i].at - q[j].at /\ (q[i].seq = q[j].seq => q[i].at = q[j].at)
      BY ONLY <2>3, <3>3, i \in Psh(q), j \in Psh(q), SegmentsApart
    <3> QED  BY ONLY <3>1, <3>2, <3>4
  <2>5. OneByteEach
    BY ONLY <2>4 DEF OneByteEach
  <2>6. Contiguous
    BY ONLY <2>4 DEF Contiguous
  <2> QED  BY <2>5, <2>6
<1> QED  BY <1>1, <1>2, TlsInvariant, PTL DEF FlowsApart
-----------------------------------------------------------------------------
(* The packet dump.  Every record has a number of its own; a file and a     *)
(* buffer hold units, and a number is in at most one of them, once.         *)

Wires == UNION {Script[i] : i \in DOMAIN Script}
Written == {Packet(n, ts, w) : n \in 1..Len(Script), ts \in Nat, w \in Wires}
Units == {GlobalHeader(w.link_type) : w \in Wires} \cup {RecordHead(p) : p \in Written}
         \cup {RecordBody(p) : p \in Written}
DumpFiles == [source : Ids, minute : Nat]
Sink == [minute : Nat, linked : {"yes", "swept", "rm"}, buf : Seq(Units)]

BodyIds(q) == {q[i].pkt.id : i \in {k \in DOMAIN q : q[k].kind = "body"}}
Single(q) ==
  \A i, j \in DOMAIN q : q[i].kind = "body" /\ q[j].kind = "body" /\ q[i].pkt.id = q[j].pkt.id => i = j

\* S are the sources with an open file.
DumpShape(d, S) ==
  /\ d = [writers |-> d.writers, disabled |-> d.disabled, disk |-> d.disk, dirs |-> d.dirs]
  /\ d.disk = [f \in DOMAIN d.disk |-> d.disk[f]] /\ IsFiniteSet(DOMAIN d.disk)
  /\ \A f \in DOMAIN d.disk : f \in DumpFiles /\ d.disk[f] \in Seq(Units)
  /\ d.writers = [s \in DOMAIN d.writers |-> d.writers[s]] /\ DOMAIN d.writers \subseteq Ids
  /\ S \subseteq DOMAIN d.writers
  /\ \A s \in DOMAIN d.writers :
       /\ d.writers[s] = [link_type |-> d.writers[s].link_type, current |-> d.writers[s].current]
       /\ GlobalHeader(d.writers[s].link_type) \in Units
       /\ s \in S => d.writers[s].current \in Sink
       /\ s \notin S => d.writers[s].current = None

Good(q, n) == Single(q) /\ BodyIds(q) \subseteq 1..n
Apart(q, r) == BodyIds(q) \intersect BodyIds(r) = {}

\* The numbers up to n are where they are once.
DumpOnce(d, S, n) ==
  /\ \A f \in DOMAIN d.disk : Good(d.disk[f], n)
  /\ \A s \in S : Good(Buf(d, s), n)
  /\ \A f, g \in DOMAIN d.disk : f # g => Apart(d.disk[f], d.disk[g])
  /\ \A f \in DOMAIN d.disk, s \in S : Apart(d.disk[f], Buf(d, s))
  /\ \A s, t \in S : s # t => Apart(Buf(d, s), Buf(d, t))

DumpOk(d, S, n) == DumpShape(d, S) /\ DumpOnce(d, S, n)

\* q is the beginning of r.
Begins(q, r) == Len(q) <= Len(r) /\ \A i \in 1..Len(q) : r[i] = q[i]

\* A step of the dumper: files only grow, and a sink that is not new writes to
\* the file it wrote to.
Grows(d, e) == \A f \in DOMAIN d.disk : f \in DOMAIN e.disk /\ Begins(d.disk[f], e.disk[f])
Follows(d, S, e, T) ==
  \A s \in T : \/ e.writers[s].current.linked = "yes"
               \/ /\ s \in S
                  /\ e.writers[s].current.linked = d.writers[s].current.linked
                  /\ e.writers[s].current.minute = d.writers[s].current.minute
Onward(d, S, e, T) == Grows(d, e) /\ Follows(d, S, e, T)


LEMMA UnitFacts ==
  /\ \A u \in Units : u.kind = "body" => u.pkt \in Written
  /\ \A p \in Written : /\ RecordHead(p) \in Units /\ RecordHead(p).kind = "head"
                        /\ RecordBody(p) \in Units /\ RecordBody(p).kind = "body" /\ RecordBody(p).pkt = p
  /\ \A p \in Written : p.id \in 1..Len(Script) /\ p.timestamp_us \in Nat /\ p.source_id \in Ids
                        /\ GlobalHeader(p.link_type) \in Units /\ ~p.heartbeat
  /\ \A l : GlobalHeader(l).kind = "header"
<1>1. \A p \in Written : p.id \in 1..Len(Script) /\ p.timestamp_us \in Nat /\ ~p.heartbeat
        /\ \E w \in Wires : p.source_id = w.source_id /\ p.link_type = w.link_type
  BY DEF Written, Packet
<1>2. \A w \in Wires : w.source_id \in Ids
  BY DumpAssumption DEF Wires
<1>3. \A u \in Units : u.kind = "body" => u.pkt \in Written
  BY DEF Units, GlobalHeader, RecordHead, RecordBody
<1>4. \A p \in Written : /\ RecordHead(p) \in Units /\ RecordHead(p).kind = "head"
                         /\ RecordBody(p) \in Units /\ RecordBody(p).kind = "body" /\ RecordBody(p).pkt = p
  BY Zenon DEF Units, RecordHead, RecordBody
<1>5. \A p \in Written : GlobalHeader(p.link_type) \in Units
  <2> SUFFICES ASSUME NEW p \in Written PROVE GlobalHeader(p.link_type) \in Units
    OBVIOUS
  <2>1. PICK w \in Wires : p.link_type = w.link_type
    BY <1>1
  <2> QED  BY <2>1 DEF Units
<1>6. \A l : GlobalHeader(l).kind = "header"
  BY DEF GlobalHeader
<1> QED  BY <1>1, <1>2, <1>3, <1>4, <1>5, <1>6

LEMMA JoinedIds ==
  ASSUME NEW q \in Seq(Units), NEW r \in Seq(Units)
  PROVE  /\ q \o r \in Seq(Units) /\ Begins(q, q \o r)
         /\ BodyIds(q \o r) = BodyIds(q) \cup BodyIds(r)
         /\ Single(q) /\ Single(r) /\ Apart(q, r) => Single(q \o r)
<1> PICK v : v = q \o r
  OBVIOUS
<1>1. /\ v \in Seq(Units) /\ Len(v) = Len(q) + Len(r) /\ Len(q) \in Nat /\ Len(r) \in Nat
      /\ DOMAIN v = 1..Len(v) /\ DOMAIN q = 1..Len(q) /\ DOMAIN r = 1..Len(r)
      /\ \A i \in 1..Len(q) : v[i] = q[i]
      /\ \A i \in 1..Len(r) : v[Len(q) + i] = r[i]
  BY ConcatProperties
<1>2. \A i \in DOMAIN v : (i \in DOMAIN q /\ v[i] = q[i]) \/ (i - Len(q) \in DOMAIN r /\ v[i] = r[i - Len(q)] /\ i > Len(q))
  <2> TAKE i \in DOMAIN v
  <2>1. CASE i <= Len(q)
    BY <1>1, <2>1
  <2>2. CASE i > Len(q)
    <3>1. i - Len(q) \in 1..Len(r) /\ Len(q) + (i - Len(q)) = i
      BY <1>1, <2>2
    <3> QED  BY <1>1, <2>2, <3>1
  <2> QED  BY <1>1, <2>1, <2>2
<1>3. \A i \in DOMAIN q : i \in DOMAIN v /\ v[i] = q[i]
  BY <1>1
<1>4. \A i \in DOMAIN r : Len(q) + i \in DOMAIN v /\ v[Len(q) + i] = r[i]
  BY <1>1
<1>5. BodyIds(v) = BodyIds(q) \cup BodyIds(r)
  <2>1. \A x \in BodyIds(v) : x \in BodyIds(q) \cup BodyIds(r)
    BY <1>2 DEF BodyIds
  <2>2. \A x \in BodyIds(q) : x \in BodyIds(v)
    BY <1>3 DEF BodyIds
  <2>3. \A x \in BodyIds(r) : x \in BodyIds(v)
    BY <1>4, Zenon DEF BodyIds
  <2> QED  BY <2>1, <2>2, <2>3
<1>6. ASSUME Single(q), Single(r), Apart(q, r) PROVE Single(v)
  <2> SUFFICES ASSUME NEW i \in DOMAIN v, NEW j \in DOMAIN v, v[i].kind = "body", v[j].kind = "body",
                      v[i].pkt.id = v[j].pkt.id
               PROVE  i = j
    BY DEF Single
  <2>0. i \in Int /\ j \in Int /\ Len(q) \in Int
    BY <1>1
  <2>1. CASE i \in DOMAIN q /\ v[i] = q[i] /\ j \in DOMAIN q /\ v[j] = q[j]
    BY <1>6, <2>1 DEF Single
  <2>2. CASE i - Len(q) \in DOMAIN r /\ v[i] = r[i - Len(q)] /\ j - Len(q) \in DOMAIN r /\ v[j] = r[j - Len(q)]
    <3>1. i - Len(q) = j - Len(q)
      BY <1>6, <2>2 DEF Single
    <3> QED  BY <2>0, <3>1
  <2>3. \A a \in DOMAIN q, b \in DOMAIN r : ~(q[a].kind = "body" /\ r[b].kind = "body" /\ q[a].pkt.id = r[b].pkt.id)
    BY <1>6 DEF Apart, BodyIds
  <2> QED  BY <1>2, <2>1, <2>2, <2>3
<1>7. Begins(q, v)
  BY <1>1 DEF Begins
<1> QED  BY <1>1, <1>5, <1>6, <1>7

LEMMA OneUnit ==
  ASSUME NEW u \in Units
  PROVE  /\ <<u>> \in Seq(Units) /\ Single(<<u>>) /\ (u.kind # "body" => BodyIds(<<u>>) = {})
         /\ (u.kind = "body" => BodyIds(<<u>>) = {u.pkt.id})
<1>1. DOMAIN <<u>> = {1} /\ <<u>>[1] = u /\ <<u>> \in Seq(Units)
  OBVIOUS
<1> PICK q : q = <<u>>
  OBVIOUS
<1>2. Single(q)
  BY <1>1 DEF Single
<1>3. (u.kind # "body" => BodyIds(q) = {}) /\ (u.kind = "body" => BodyIds(q) = {u.pkt.id})
  BY <1>1 DEF BodyIds
<1> QED  BY <1>1, <1>2, <1>3

LEMMA NoUnits == <<>> \in Seq(Units) /\ Single(<<>>) /\ BodyIds(<<>>) = {}
<1>1. DOMAIN <<>> = {} /\ <<>> \in Seq(Units)
  OBVIOUS
<1> QED  BY <1>1 DEF Single, BodyIds

LEMMA AppendedIds ==
  ASSUME NEW q \in Seq(Units), NEW u \in Units
  PROVE  /\ Append(q, u) \in Seq(Units)
         /\ (u.kind # "body" => BodyIds(Append(q, u)) = BodyIds(q) /\ (Single(q) => Single(Append(q, u))))
         /\ (u.kind = "body" => BodyIds(Append(q, u)) = BodyIds(q) \cup {u.pkt.id}
                                 /\ (Single(q) /\ u.pkt.id \notin BodyIds(q) => Single(Append(q, u))))
<1>1. Append(q, u) = q \o <<u>>
  BY AppendIsConcat, OneUnit
<1>2. /\ q \o <<u>> \in Seq(Units) /\ BodyIds(q \o <<u>>) = BodyIds(q) \cup BodyIds(<<u>>)
      /\ Single(q) /\ Single(<<u>>) /\ Apart(q, <<u>>) => Single(q \o <<u>>)
  BY OneUnit, JoinedIds
<1>3. CASE u.kind # "body"
  BY <1>1, <1>2, <1>3, OneUnit DEF Apart
<1>4. CASE u.kind = "body"
  BY <1>1, <1>2, <1>4, OneUnit DEF Apart
<1> QED  BY <1>1, <1>2, <1>3, <1>4

LEMMA SinkFacts ==
  ASSUME NEW d, NEW S, DumpShape(d, S), NEW s \in S
  PROVE  /\ s \in DOMAIN d.writers /\ s \in Ids
         /\ d.writers[s].current \in Sink
         /\ Buf(d, s) \in Seq(Units) /\ d.writers[s].current.minute \in Nat
         /\ d.writers[s].current.linked \in {"yes", "swept", "rm"}
         /\ d.writers[s].current = [minute |-> d.writers[s].current.minute, linked |-> d.writers[s].current.linked,
                                    buf |-> Buf(d, s)]
<1>1. s \in DOMAIN d.writers /\ s \in Ids /\ d.writers[s].current \in Sink
  BY DEF DumpShape
<1> PICK c : c = d.writers[s].current
  OBVIOUS
<1>2. c \in Sink
  BY <1>1
<1>3. c.buf \in Seq(Units) /\ c.minute \in Nat /\ c.linked \in {"yes", "swept", "rm"}
      /\ c = [minute |-> c.minute, linked |-> c.linked, buf |-> c.buf]
  BY <1>2 DEF Sink
<1> QED  BY <1>1, <1>3 DEF Buf

\* A dumper that has what another has, or less.
LEMMA FewerOnce ==
  ASSUME NEW d, NEW S, NEW e, NEW T, NEW n, DumpOnce(d, S, n),
         \A f \in DOMAIN e.disk : \/ f \in DOMAIN d.disk /\ e.disk[f] = d.disk[f]
                                  \/ BodyIds(e.disk[f]) = {} /\ Single(e.disk[f]),
         \A s \in T : \/ s \in S /\ Buf(e, s) = Buf(d, s)
                      \/ BodyIds(Buf(e, s)) = {} /\ Single(Buf(e, s))
  PROVE  DumpOnce(e, T, n)
<1>1. \A f \in DOMAIN e.disk : Good(e.disk[f], n)
  BY DEF DumpOnce, Good
<1>2. \A s \in T : Good(Buf(e, s), n)
  BY DEF DumpOnce, Good
<1>3. \A f, g \in DOMAIN e.disk : f # g => Apart(e.disk[f], e.disk[g])
  BY DEF DumpOnce, Apart
<1>4. \A f \in DOMAIN e.disk, s \in T : Apart(e.disk[f], Buf(e, s))
  BY DEF DumpOnce, Apart
<1>5. \A s, t \in T : s # t => Apart(Buf(e, s), Buf(e, t))
  BY DEF DumpOnce, Apart
<1> QED  BY <1>1, <1>2, <1>3, <1>4, <1>5 DEF DumpOnce

LEMMA MoreNumbers ==
  ASSUME NEW d, NEW S, NEW n \in Nat, DumpOk(d, S, n)
  PROVE  DumpOk(d, S, n + 1)
<1>1. \A q : Good(q, n) => Good(q, n + 1)
  BY DEF Good
<1> QED  BY <1>1 DEF DumpOk, DumpOnce

\* What the sources of Q have buffered goes to their files.
Due(d, Q, f) ==
  IF f.source \in Q /\ d.writers[f.source].current.minute = f.minute
     /\ d.writers[f.source].current.linked = "yes" THEN Buf(d, f.source) ELSE <<>>

LEMMA DrainedOnce ==
  ASSUME NEW d, NEW S, NEW e, NEW n, NEW Q, DumpOk(d, S, n), Q \subseteq S,
         DOMAIN e.disk = DOMAIN d.disk,
         \A f \in DOMAIN d.disk : e.disk[f] = d.disk[f] \o Due(d, Q, f),
         \A s \in S : Buf(e, s) = IF s \in Q THEN <<>> ELSE Buf(d, s)
  PROVE  /\ DumpOnce(e, S, n) /\ Grows(d, e)
         /\ \A f \in DOMAIN d.disk : e.disk[f] \in Seq(Units)
<1> DEFINE Mine(f) == f.source \in Q /\ d.writers[f.source].current.minute = f.minute
<1>1. \A s \in S : Buf(d, s) \in Seq(Units) /\ Good(Buf(d, s), n)
  BY SinkFacts DEF DumpOk, DumpOnce
<1>2. \A f \in DOMAIN d.disk : d.disk[f] \in Seq(Units) /\ f \in DumpFiles /\ Good(d.disk[f], n)
  BY DEF DumpOk, DumpShape, DumpOnce
<1>3. \A f \in DOMAIN d.disk : Due(d, Q, f) \in Seq(Units) /\ Good(Due(d, Q, f), n) /\ Apart(d.disk[f], Due(d, Q, f))
      /\ (BodyIds(Due(d, Q, f)) = {} \/ (Mine(f) /\ Due(d, Q, f) = Buf(d, f.source)))
  <2> SUFFICES ASSUME NEW f \in DOMAIN d.disk
               PROVE  Due(d, Q, f) \in Seq(Units) /\ Good(Due(d, Q, f), n) /\ Apart(d.disk[f], Due(d, Q, f))
                      /\ (BodyIds(Due(d, Q, f)) = {} \/ (Mine(f) /\ Due(d, Q, f) = Buf(d, f.source)))
    OBVIOUS
  <2>1. CASE Due(d, Q, f) = <<>>
    BY <2>1, NoUnits DEF Good, Apart
  <2>2. CASE Mine(f) /\ Due(d, Q, f) = Buf(d, f.source)
    <3>1. f.source \in S
      BY <2>2
    <3> QED  BY <1>1, <2>2, <3>1 DEF DumpOk, DumpOnce
  <2> QED  BY <2>1, <2>2 DEF Due
<1>4. \A f \in DOMAIN d.disk : /\ e.disk[f] \in Seq(Units) /\ Begins(d.disk[f], e.disk[f])
                               /\ BodyIds(e.disk[f]) = BodyIds(d.disk[f]) \cup BodyIds(Due(d, Q, f))
                               /\ Single(e.disk[f])
  <2> SUFFICES ASSUME NEW f \in DOMAIN d.disk
               PROVE  /\ e.disk[f] \in Seq(Units) /\ Begins(d.disk[f], e.disk[f])
                      /\ BodyIds(e.disk[f]) = BodyIds(d.disk[f]) \cup BodyIds(Due(d, Q, f))
                      /\ Single(e.disk[f])
    OBVIOUS
  <2>1. e.disk[f] = d.disk[f] \o Due(d, Q, f)
    OBVIOUS
  <2>2. d.disk[f] \in Seq(Units) /\ Due(d, Q, f) \in Seq(Units) /\ Single(d.disk[f]) /\ Single(Due(d, Q, f))
        /\ Apart(d.disk[f], Due(d, Q, f))
    BY <1>2, <1>3 DEF Good
  <2> QED  BY <2>1, <2>2, JoinedIds
<1>5. \A f \in DOMAIN d.disk : \A x \in BodyIds(e.disk[f]) : x \in BodyIds(d.disk[f]) \/ (Mine(f) /\ x \in BodyIds(Buf(d, f.source)))
  BY <1>3, <1>4
<1>6. \A f \in DOMAIN e.disk : Good(e.disk[f], n)
  BY <1>2, <1>3, <1>4 DEF Good
<1>7. \A s \in S : Good(Buf(e, s), n)
  BY <1>1, NoUnits DEF Good
<1>8. \A f, g \in DOMAIN e.disk : f # g => Apart(e.disk[f], e.disk[g])
  <2> SUFFICES ASSUME NEW f \in DOMAIN d.disk, NEW g \in DOMAIN d.disk, f # g,
                      NEW x \in BodyIds(e.disk[f]), x \in BodyIds(e.disk[g])
               PROVE  FALSE
    BY DEF Apart
  <2>1. ~(x \in BodyIds(d.disk[f]) /\ x \in BodyIds(d.disk[g]))
    BY DEF DumpOk, DumpOnce, Apart
  <2>2. ~(Mine(f) /\ x \in BodyIds(Buf(d, f.source)) /\ x \in BodyIds(d.disk[g]))
    BY DEF DumpOk, DumpOnce, Apart
  <2>3. ~(Mine(g) /\ x \in BodyIds(Buf(d, g.source)) /\ x \in BodyIds(d.disk[f]))
    BY DEF DumpOk, DumpOnce, Apart
  <2>4. ~(Mine(f) /\ x \in BodyIds(Buf(d, f.source)) /\ Mine(g) /\ x \in BodyIds(Buf(d, g.source)))
    <3> SUFFICES ASSUME Mine(f), x \in BodyIds(Buf(d, f.source)), Mine(g), x \in BodyIds(Buf(d, g.source))
                 PROVE  FALSE
      OBVIOUS
    <3>1. f.source = g.source
      BY DEF DumpOk, DumpOnce, Apart
    <3>2. f.minute = g.minute
      BY <3>1
    <3>3. f \in DumpFiles /\ g \in DumpFiles
      BY <1>2
    <3> QED  BY <3>1, <3>2, <3>3 DEF DumpFiles
  <2> QED  BY <1>5, <2>1, <2>2, <2>3, <2>4
<1>9. \A f \in DOMAIN e.disk, s \in S : Apart(e.disk[f], Buf(e, s))
  <2> SUFFICES ASSUME NEW f \in DOMAIN d.disk, NEW s \in S, NEW x \in BodyIds(e.disk[f]), x \in BodyIds(Buf(e, s))
               PROVE  FALSE
    BY DEF Apart
  <2>1. s \notin Q /\ x \in BodyIds(Buf(d, s))
    BY NoUnits
  <2>2. ~(x \in BodyIds(d.disk[f]))
    BY <2>1 DEF DumpOk, DumpOnce, Apart
  <2>3. ~(Mine(f) /\ x \in BodyIds(Buf(d, f.source)))
    BY <2>1 DEF DumpOk, DumpOnce, Apart
  <2> QED  BY <1>5, <2>2, <2>3
<1>10. \A s, t \in S : s # t => Apart(Buf(e, s), Buf(e, t))
  BY NoUnits DEF DumpOk, DumpOnce, Apart
<1>11. Grows(d, e)
  BY <1>4 DEF Grows
<1> HIDE DEF Mine
<1> QED  BY <1>4, <1>6, <1>7, <1>8, <1>9, <1>10, <1>11 DEF DumpOnce

LEMMA FileFactsOf ==
  ASSUME NEW f \in DumpFiles, NEW s, NEW m
  PROVE  f.source \in Ids /\ f.minute \in Nat /\ (f = File(s, m) <=> f.source = s /\ f.minute = m)
  BY DEF DumpFiles, File

\* What a dumper keeps of its writers when only the buffer of s changes.
SameWriters(d, e, S, s) ==
  /\ e.disabled = d.disabled /\ e.dirs = d.dirs /\ DOMAIN e.writers = DOMAIN d.writers
  /\ \A t \in DOMAIN d.writers : t # s => e.writers[t] = d.writers[t]
  /\ e.writers[s].link_type = d.writers[s].link_type
  /\ e.writers[s].current.minute = d.writers[s].current.minute
  /\ e.writers[s].current.linked = d.writers[s].current.linked

LEMMA RebufferedWriter ==
  ASSUME NEW r, NEW l, NEW c, NEW b, NEW v, r = [link_type |-> l, current |-> c], [c EXCEPT !.buf = b] = v
  PROVE  [r EXCEPT !.current.buf = b] = [link_type |-> l, current |-> v]
  OBVIOUS

Rebuffered(d, s, k, b) == [d EXCEPT !.disk = k, !.writers[s].current.buf = b]
WithBuffer(w, s, b) == [w EXCEPT ![s].current.buf = b]

LEMMA RebufferedDump ==
  ASSUME NEW d, NEW w, NEW b, NEW k, NEW s, NEW x, NEW da, NEW di, NEW dr, WithBuffer(w, s, b) = x,
         d = [writers |-> w, disabled |-> da, disk |-> di, dirs |-> dr]
  PROVE  Rebuffered(d, s, k, b) = [writers |-> x, disabled |-> da, disk |-> k, dirs |-> dr]
<1> PICK d1 : d1 = [d EXCEPT !.disk = k]
  OBVIOUS
<1>1. d1 = [writers |-> w, disabled |-> da, disk |-> k, dirs |-> dr]
  OBVIOUS
<1>2. [d1 EXCEPT !.writers[s].current.buf = b] = [writers |-> x, disabled |-> da, disk |-> k, dirs |-> dr]
  BY ONLY <1>1, WithBuffer(w, s, b) = x DEF WithBuffer
<1>3. [d EXCEPT !.disk = k, !.writers[s].current.buf = b] = [d1 EXCEPT !.writers[s].current.buf = b]
  BY ONLY d1 = [d EXCEPT !.disk = k]
<1> QED  BY ONLY <1>2, <1>3 DEF Rebuffered

DiskOf(d, k) == k = [f \in DOMAIN d.disk |-> k[f]] /\ \A f \in DOMAIN d.disk : k[f] \in Seq(Units)

LEMMA RebufferedShape ==
  ASSUME NEW d, NEW S, DumpShape(d, S), NEW s \in S, NEW b \in Seq(Units), NEW k,
         DiskOf(d, k), NEW e,
         e = Rebuffered(d, s, k, b)
  PROVE  /\ DumpShape(e, S) /\ SameWriters(d, e, S, s) /\ e.disk = k /\ Buf(e, s) = b
         /\ \A t \in S \ {s} : Buf(e, t) = Buf(d, t)
<1> PICK w : w = d.writers
  OBVIOUS
<1> PICK c : c = w[s].current
  OBVIOUS
<1>1. s \in DOMAIN w /\ c = [minute |-> c.minute, linked |-> c.linked, buf |-> c.buf]
      /\ c.minute \in Nat /\ c.linked \in {"yes", "swept", "rm"}
  BY SinkFacts DEF Buf
<1> PICK da, di, dr : da = d.disabled /\ di = d.disk /\ dr = d.dirs
  OBVIOUS
<1>2. d = [writers |-> w, disabled |-> da, disk |-> di, dirs |-> dr]
      /\ w = [x \in DOMAIN w |-> w[x]] /\ w[s] = [link_type |-> w[s].link_type, current |-> c]
  BY <1>1 DEF DumpShape
<1> PICK v : v = [minute |-> c.minute, linked |-> c.linked, buf |-> b]
  OBVIOUS
<1>3. [c EXCEPT !.buf = b] = v
  BY ONLY <1>1, v = [minute |-> c.minute, linked |-> c.linked, buf |-> b]
<1>4. [w[s] EXCEPT !.current.buf = b] = [link_type |-> w[s].link_type, current |-> v]
  BY ONLY <1>2, <1>3, RebufferedWriter
<1> PICK x : x = [w EXCEPT ![s] = [link_type |-> w[s].link_type, current |-> v]]
  OBVIOUS
<1>5. WithBuffer(w, s, b) = x
  BY <1>4 DEF WithBuffer
<1>6. e = [writers |-> x, disabled |-> da, disk |-> k, dirs |-> dr]
  BY ONLY <1>2, <1>5, RebufferedDump, e = Rebuffered(d, s, k, b)
<1>7. DOMAIN x = DOMAIN w /\ x = [t \in DOMAIN x |-> x[t]] /\ x[s] = [link_type |-> w[s].link_type, current |-> v]
      /\ \A t \in DOMAIN w : t # s => x[t] = w[t]
  BY <1>1, <1>2
<1>8. v \in Sink /\ v.buf = b /\ v.minute = c.minute /\ v.linked = c.linked
  BY <1>1 DEF Sink
<1>9. SameWriters(d, e, S, s) /\ e.disk = k
  <2>1. e.writers = x /\ e.disabled = da /\ e.disk = k /\ e.dirs = dr
    BY ONLY <1>6
  <2>2. SameWriters(d, e, S, s)
    BY ONLY <1>2, <1>7, <1>8, <2>1, w = d.writers, c = w[s].current, da = d.disabled, dr = d.dirs DEF SameWriters
  <2> QED  BY <2>1, <2>2
<1>10. Buf(e, s) = b /\ \A t \in S \ {s} : Buf(e, t) = Buf(d, t)
  <2>1. S \subseteq DOMAIN w
    BY DEF DumpShape
  <2>2. e.writers = x
    BY ONLY <1>6
  <2> QED  BY ONLY <2>1, <2>2, <1>7, <1>8, w = d.writers DEF Buf
<1>11. e = [writers |-> e.writers, disabled |-> e.disabled, disk |-> e.disk, dirs |-> e.dirs] /\ e.writers = x /\ e.disk = k
  BY ONLY <1>6
<1>12. DOMAIN k = DOMAIN d.disk
  BY DEF DiskOf
<1>13. \A t \in DOMAIN x : /\ x[t] = [link_type |-> x[t].link_type, current |-> x[t].current]
                           /\ GlobalHeader(x[t].link_type) \in Units
                           /\ t \in S => x[t].current \in Sink
                           /\ t \notin S => x[t].current = None
  <2> TAKE t \in DOMAIN x
  <2>1. CASE t = s
    BY <2>1, <1>7, <1>8, <1>1 DEF DumpShape
  <2>2. CASE t # s
    BY <2>2, <1>7 DEF DumpShape
  <2> QED  BY <2>1, <2>2
<1>14. \A f \in DOMAIN k : f \in DumpFiles /\ k[f] \in Seq(Units)
  BY <1>12 DEF DumpShape, DiskOf
<1>15. k = [f \in DOMAIN k |-> k[f]] /\ IsFiniteSet(DOMAIN k) /\ DOMAIN x \subseteq Ids /\ S \subseteq DOMAIN x
  BY <1>12, <1>7 DEF DumpShape, DiskOf
<1>16. DumpShape(e, S)
  BY ONLY <1>7, <1>11, <1>13, <1>14, <1>15 DEF DumpShape
<1> QED  BY ONLY <1>9, <1>10, <1>16

LEMMA FlushKeeps ==
  ASSUME NEW d, NEW S, NEW n, DumpOk(d, S, n), NEW s \in S, NEW e, e = FlushSink(d, s)
  PROVE  DumpOk(e, S, n) /\ Onward(d, S, e, S) /\ SameWriters(d, e, S, s) /\ Buf(e, s) = <<>>
         /\ DOMAIN e.disk = DOMAIN d.disk
<1> PICK c : c = d.writers[s].current
  OBVIOUS
<1> PICK F : F = File(s, c.minute)
  OBVIOUS
<1> PICK k : k = IF c.linked = "yes" THEN [d.disk EXCEPT ![F] = @ \o c.buf] ELSE d.disk
  OBVIOUS
<1>1. DumpShape(d, S)
  BY DEF DumpOk
<1>2. e = Rebuffered(d, s, k, <<>>)
  BY Zenon DEF FlushSink, Rebuffered
<1>3. Buf(d, s) = c.buf /\ c.buf \in Seq(Units)
  BY <1>1, SinkFacts DEF Buf
<1>4. d.disk = [f \in DOMAIN d.disk |-> d.disk[f]] /\ \A f \in DOMAIN d.disk : f \in DumpFiles /\ d.disk[f] \in Seq(Units)
  BY <1>1 DEF DumpShape
<1>5. DOMAIN k = DOMAIN d.disk /\ k = [f \in DOMAIN d.disk |-> k[f]]
      /\ \A f \in DOMAIN d.disk : k[f] = IF c.linked = "yes" /\ f = F THEN d.disk[f] \o c.buf ELSE d.disk[f]
  BY <1>4, Zenon
<1>6. \A f \in DOMAIN d.disk : k[f] = d.disk[f] \o Due(d, {s}, f)
  <2> TAKE f \in DOMAIN d.disk
  <2>1. f = F <=> f.source = s /\ f.minute = c.minute
    BY <1>4, FileFactsOf
  <2>2. d.disk[f] \o <<>> = d.disk[f]
    BY <1>4, ConcatEmptySeq
  <2>3. CASE c.linked = "yes" /\ f = F
    <3>1. Due(d, {s}, f) = c.buf
      BY <2>1, <2>3, <1>3, Zenon DEF Due
    <3> QED  BY <2>3, <3>1, <1>5, Zenon
  <2>4. CASE ~(c.linked = "yes" /\ f = F)
    <3>1. Due(d, {s}, f) = <<>>
      BY <2>1, <2>4 DEF Due
    <3> QED  BY <2>4, <3>1, <2>2, <1>5, Zenon
  <2> QED  BY <2>3, <2>4, Zenon
<1>7. \A f \in DOMAIN d.disk : k[f] \in Seq(Units)
  BY <1>3, <1>4, <1>5, JoinedIds
<1>8. /\ DumpShape(e, S) /\ SameWriters(d, e, S, s) /\ e.disk = k /\ Buf(e, s) = <<>>
      /\ \A t \in S \ {s} : Buf(e, t) = Buf(d, t)
  <2> PICK b : b = <<>>
    OBVIOUS
  <2>1. b \in Seq(Units) /\ e = Rebuffered(d, s, k, b)
    BY NoUnits, <1>2, Zenon
  <2>2. DiskOf(d, k)
    BY <1>5, <1>7, Zenon DEF DiskOf
  <2>3. /\ DumpShape(e, S) /\ SameWriters(d, e, S, s) /\ e.disk = k /\ Buf(e, s) = b
        /\ \A t \in S \ {s} : Buf(e, t) = Buf(d, t)
    BY ONLY <1>1, s \in S, <2>1, <2>2, RebufferedShape
  <2> QED  BY <2>3, Zenon
<1>9. DumpOnce(e, S, n) /\ Grows(d, e)
  <2>1. /\ {s} \subseteq S /\ DOMAIN e.disk = DOMAIN d.disk
        /\ \A f \in DOMAIN d.disk : e.disk[f] = d.disk[f] \o Due(d, {s}, f)
        /\ \A t \in S : Buf(e, t) = IF t \in {s} THEN <<>> ELSE Buf(d, t)
    BY <1>5, <1>6, <1>8, Zenon
  <2> QED  BY ONLY <2>1, DumpOk(d, S, n), DrainedOnce, Zenon
<1>10. Follows(d, S, e, S)
  <2>1. S \subseteq DOMAIN d.writers
    BY <1>1 DEF DumpShape
  <2> QED  BY <1>8, <2>1, Zenon DEF Follows, SameWriters
<1> QED  BY <1>5, <1>8, <1>9, <1>10, Zenon DEF DumpOk, Onward

LEMMA BeginsTrans ==
  ASSUME NEW q \in Seq(Units), NEW r \in Seq(Units), NEW v \in Seq(Units), Begins(q, r), Begins(r, v)
  PROVE  Begins(q, v)
<1>1. Len(q) \in Nat /\ Len(r) \in Nat /\ Len(v) \in Nat
  BY LenProperties
<1> QED  BY <1>1 DEF Begins

LEMMA OnwardTrans ==
  ASSUME NEW d, NEW S, NEW e, NEW T, NEW g, NEW U, DumpShape(d, S), DumpShape(e, T), DumpShape(g, U),
         Onward(d, S, e, T), Onward(e, T, g, U)
  PROVE  Onward(d, S, g, U)
<1>1. Grows(d, g)
  <2> SUFFICES ASSUME NEW f \in DOMAIN d.disk PROVE f \in DOMAIN g.disk /\ Begins(d.disk[f], g.disk[f])
    BY DEF Grows
  <2>1. f \in DOMAIN e.disk /\ f \in DOMAIN g.disk /\ Begins(d.disk[f], e.disk[f]) /\ Begins(e.disk[f], g.disk[f])
    BY DEF Onward, Grows
  <2>2. d.disk[f] \in Seq(Units) /\ e.disk[f] \in Seq(Units) /\ g.disk[f] \in Seq(Units)
    BY <2>1 DEF DumpShape
  <2> QED  BY <2>1, <2>2, BeginsTrans
<1>2. Follows(d, S, g, U)
  BY DEF Onward, Follows
<1> QED  BY <1>1, <1>2 DEF Onward

LEMMA OnwardSelf ==
  ASSUME NEW d, NEW S, DumpShape(d, S)
  PROVE  Onward(d, S, d, S)
<1>1. \A q \in Seq(Units) : Begins(q, q)
  BY LenProperties DEF Begins
<1>2. Grows(d, d)
  BY <1>1 DEF DumpShape, Grows
<1> QED  BY <1>2 DEF Onward, Follows

LEMMA SameTrans ==
  ASSUME NEW d, NEW e, NEW g, NEW S, NEW s, SameWriters(d, e, S, s), SameWriters(e, g, S, s)
  PROVE  SameWriters(d, g, S, s)
  BY DEF SameWriters

LEMMA SameSelf ==
  ASSUME NEW d, NEW S, NEW s
  PROVE  SameWriters(d, d, S, s)
  BY DEF SameWriters

Appended(d, s, u) == [d EXCEPT !.writers[s].current.buf = Append(@, u)]

LEMMA AppendDump ==
  ASSUME NEW d, NEW S, DumpShape(d, S), NEW s, NEW u
  PROVE  Appended(d, s, u) = Rebuffered(d, s, d.disk, Append(Buf(d, s), u))
<1> PICK w, da, di, dr : w = d.writers /\ da = d.disabled /\ di = d.disk /\ dr = d.dirs
  OBVIOUS
<1>1. d = [writers |-> w, disabled |-> da, disk |-> di, dirs |-> dr]
  BY DEF DumpShape
<1> PICK b : b = Append(Buf(d, s), u)
  OBVIOUS
<1> PICK x : WithBuffer(w, s, b) = x
  OBVIOUS
<1>2. Rebuffered(d, s, di, b) = [writers |-> x, disabled |-> da, disk |-> di, dirs |-> dr]
  BY ONLY <1>1, WithBuffer(w, s, b) = x, RebufferedDump
<1>3. [d EXCEPT !.writers[s].current.buf = b] = [writers |-> x, disabled |-> da, disk |-> di, dirs |-> dr]
  BY ONLY <1>1, WithBuffer(w, s, b) = x DEF WithBuffer
<1>4. Appended(d, s, u) = [d EXCEPT !.writers[s].current.buf = b]
  BY ONLY b = Append(Buf(d, s), u) DEF Buf, Appended
<1> QED  BY ONLY <1>2, <1>3, <1>4, b = Append(Buf(d, s), u), di = d.disk

LEMMA AppendKeeps ==
  ASSUME NEW d, NEW S, NEW n \in Nat, DumpOk(d, S, n), NEW s \in S, NEW u \in Units, u.kind = "body" => u.pkt.id = n + 1,
         NEW e, e = Appended(d, s, u)
  PROVE  /\ DumpOk(e, S, IF u.kind = "body" THEN n + 1 ELSE n)
         /\ Onward(d, S, e, S) /\ SameWriters(d, e, S, s) /\ DOMAIN e.disk = DOMAIN d.disk
<1>1. DumpShape(d, S)
  BY DEF DumpOk
<1> PICK k, b : k = d.disk /\ b = Append(Buf(d, s), u)
  OBVIOUS
<1>2. e = Rebuffered(d, s, k, b)
  BY ONLY <1>1, AppendDump, k = d.disk, b = Append(Buf(d, s), u), e = Appended(d, s, u)
<1>3. Buf(d, s) \in Seq(Units) /\ Good(Buf(d, s), n)
  BY <1>1, SinkFacts DEF DumpOk, DumpOnce
<1>4. /\ b \in Seq(Units)
      /\ (u.kind # "body" => BodyIds(b) = BodyIds(Buf(d, s)) /\ Single(b))
      /\ (u.kind = "body" => BodyIds(b) = BodyIds(Buf(d, s)) \cup {n + 1} /\ Single(b))
  <2>1. n + 1 \notin BodyIds(Buf(d, s)) /\ Single(Buf(d, s))
    BY <1>3 DEF Good
  <2> QED  BY <1>3, <2>1, AppendedIds
<1>5. DiskOf(d, k)
  BY <1>1 DEF DumpShape, DiskOf
<1>6. /\ DumpShape(e, S) /\ SameWriters(d, e, S, s) /\ e.disk = k /\ Buf(e, s) = b
      /\ \A t \in S \ {s} : Buf(e, t) = Buf(d, t)
  BY ONLY <1>1, <1>2, <1>4, <1>5, s \in S, RebufferedShape
<1>7. Onward(d, S, e, S)
  <2>1. Grows(d, e)
    BY <1>1, <1>6, OnwardSelf DEF Onward, Grows
  <2>2. Follows(d, S, e, S)
    BY <1>1, <1>6 DEF Follows, SameWriters, DumpShape
  <2> QED  BY <2>1, <2>2 DEF Onward
<1> DEFINE m == IF u.kind = "body" THEN n + 1 ELSE n
<1>8. DumpOnce(d, S, m) /\ BodyIds(b) \subseteq BodyIds(Buf(d, s)) \cup {n + 1} /\ Single(b) /\ BodyIds(b) \subseteq 1..m
  BY <1>3, <1>4, MoreNumbers DEF DumpOk, Good
<1>9. (\A f \in DOMAIN d.disk : n + 1 \notin BodyIds(d.disk[f])) /\ (\A t \in S : n + 1 \notin BodyIds(Buf(d, t)))
  <2>1. \A q : Good(q, n) => n + 1 \notin BodyIds(q)
    <3>1. n + 1 \notin 1..n
      OBVIOUS
    <3> QED  BY <3>1 DEF Good
  <2> QED  BY <2>1 DEF DumpOk, DumpOnce
<1> HIDE DEF m
<1>10. DumpOnce(e, S, m)
  <2>1. \A f \in DOMAIN e.disk : Good(e.disk[f], m)
    BY <1>6, <1>8 DEF DumpOnce
  <2>2. \A t \in S : Good(Buf(e, t), m)
    BY <1>6, <1>8 DEF DumpOnce, Good
  <2>3. \A f, g \in DOMAIN e.disk : f # g => Apart(e.disk[f], e.disk[g])
    BY <1>6, <1>8 DEF DumpOnce
  <2>4. \A f \in DOMAIN e.disk, t \in S : Apart(e.disk[f], Buf(e, t))
    <3> TAKE f \in DOMAIN e.disk, t \in S
    <3>1. CASE t = s
      <4>1. Apart(d.disk[f], Buf(d, s)) /\ n + 1 \notin BodyIds(d.disk[f])
        BY <1>6, <1>8, <1>9 DEF DumpOnce
      <4> QED  BY <3>1, <4>1, <1>6, <1>8 DEF Apart
    <3>2. CASE t # s
      BY <3>2, <1>6, <1>8 DEF DumpOnce
    <3> QED  BY <3>1, <3>2
  <2>5. \A t, z \in S : t # z => Apart(Buf(e, t), Buf(e, z))
    <3>1. \A t \in S \ {s} : Apart(Buf(d, s), Buf(d, t)) /\ n + 1 \notin BodyIds(Buf(d, t))
      BY <1>8, <1>9 DEF DumpOnce
    <3>2. \A t \in S \ {s} : Apart(Buf(e, s), Buf(e, t)) /\ Apart(Buf(e, t), Buf(e, s))
      BY <3>1, <1>6, <1>8 DEF Apart
    <3>3. \A t, z \in S \ {s} : t # z => Apart(Buf(e, t), Buf(e, z))
      BY <1>6, <1>8 DEF DumpOnce
    <3> QED  BY <3>2, <3>3
  <2> QED  BY <2>1, <2>2, <2>3, <2>4, <2>5 DEF DumpOnce
<1> QED  BY <1>6, <1>7, <1>10 DEF DumpOk, m

LEMMA PutKeeps ==
  ASSUME NEW d, NEW S, NEW n \in Nat, DumpOk(d, S, n), NEW s \in S, NEW u \in Units, u.kind = "body" => u.pkt.id = n + 1,
         NEW io, NEW e, e = PutUnit(d, s, u, io)
  PROVE  /\ DumpOk(e, S, IF u.kind = "body" THEN n + 1 ELSE n)
         /\ Onward(d, S, e, S) /\ SameWriters(d, e, S, s) /\ DOMAIN e.disk = DOMAIN d.disk
<1>0. DumpShape(d, S) /\ DumpOk(d, S, IF u.kind = "body" THEN n + 1 ELSE n)
  BY MoreNumbers DEF DumpOk
<1>1. CASE SpillFails(d, s, io)
  BY <1>0, <1>1, OnwardSelf, SameSelf DEF PutUnit
<1>2. CASE ~SpillFails(d, s, io)
  <2> PICK g : g = IF Len(Buf(d, s)) = BufUnits THEN FlushSink(d, s) ELSE d
    OBVIOUS
  <2>1. e = Appended(g, s, u)
    BY <1>2 DEF PutUnit, Appended
  <2>2. DumpOk(g, S, n) /\ Onward(d, S, g, S) /\ SameWriters(d, g, S, s) /\ DOMAIN g.disk = DOMAIN d.disk
    <3>1. CASE g = d
      BY <1>0, <3>1, OnwardSelf, SameSelf
    <3>2. CASE g = FlushSink(d, s)
      BY <3>2, FlushKeeps
    <3> QED  BY <3>1, <3>2
  <2>3. /\ DumpOk(e, S, IF u.kind = "body" THEN n + 1 ELSE n)
        /\ Onward(g, S, e, S) /\ SameWriters(g, e, S, s) /\ DOMAIN e.disk = DOMAIN g.disk
    BY ONLY <2>1, <2>2, AppendKeeps, n \in Nat, s \in S, u \in Units, u.kind = "body" => u.pkt.id = n + 1
  <2>4. DumpShape(g, S) /\ DumpShape(e, S)
    BY <2>2, <2>3 DEF DumpOk
  <2>5. Onward(d, S, e, S)
    BY ONLY <1>0, <2>2, <2>3, <2>4, OnwardTrans
  <2>6. SameWriters(d, e, S, s)
    BY ONLY <2>2, <2>3, SameTrans
  <2> QED  BY <2>2, <2>3, <2>5, <2>6
<1> QED  BY <1>1, <1>2

LEMMA PutRecordKeeps ==
  ASSUME NEW d, NEW S, NEW n \in Nat, DumpOk(d, S, n), NEW s \in S, NEW p \in Written, p.id = n + 1,
         NEW io, NEW e, e = PutRecord(d, s, p, io)
  PROVE  /\ DumpOk(e, S, n + 1)
         /\ Onward(d, S, e, S) /\ SameWriters(d, e, S, s) /\ DOMAIN e.disk = DOMAIN d.disk
<1>0. DumpShape(d, S) /\ DumpOk(d, S, n + 1)
  BY MoreNumbers DEF DumpOk
<1>1. CASE SpillFails(d, s, io)
  BY <1>0, <1>1, OnwardSelf, SameSelf DEF PutRecord
<1>2. CASE ~SpillFails(d, s, io)
  <2> PICK u, v : u = RecordHead(p) /\ v = RecordBody(p)
    OBVIOUS
  <2>0. u \in Units /\ u.kind = "head" /\ v \in Units /\ v.kind = "body" /\ v.pkt.id = n + 1 /\ u.kind # "body"
    BY UnitFacts
  <2> PICK g : g = PutUnit(d, s, u, io)
    OBVIOUS
  <2>1. e = PutUnit(g, s, v, io)
    BY <1>2 DEF PutRecord
  <2>2. DumpOk(g, S, n) /\ Onward(d, S, g, S) /\ SameWriters(d, g, S, s) /\ DOMAIN g.disk = DOMAIN d.disk
    BY <2>0, PutKeeps
  <2>3. DumpOk(e, S, n + 1) /\ Onward(g, S, e, S) /\ SameWriters(g, e, S, s) /\ DOMAIN e.disk = DOMAIN g.disk
    BY <2>0, <2>1, <2>2, PutKeeps
  <2>4. DumpShape(g, S) /\ DumpShape(e, S)
    BY <2>2, <2>3 DEF DumpOk
  <2>5. Onward(d, S, e, S)
    BY ONLY <1>0, <2>2, <2>3, <2>4, OnwardTrans
  <2>6. SameWriters(d, e, S, s)
    BY ONLY <2>2, <2>3, SameTrans
  <2> QED  BY <2>2, <2>3, <2>5, <2>6
<1> QED  BY <1>1, <1>2

\* The dumper as a record of its parts.
LEMMA DumpParts ==
  ASSUME NEW d, NEW S, DumpShape(d, S)
  PROVE  \E w, da, di, dr : /\ d = [writers |-> w, disabled |-> da, disk |-> di, dirs |-> dr]
                            /\ w = d.writers /\ da = d.disabled /\ di = d.disk /\ dr = d.dirs
  BY DEF DumpShape

LEMMA SameDiskGrows ==
  ASSUME NEW d, NEW S, DumpShape(d, S), NEW e, e.disk = d.disk
  PROVE  Grows(d, e)
  BY OnwardSelf DEF Onward, Grows

LEMMA MuteKeeps ==
  ASSUME NEW d, NEW S, NEW n, DumpOk(d, S, n), NEW s, NEW e, e = Mute(d, s)
  PROVE  DumpOk(e, S, n) /\ Onward(d, S, e, S) /\ s \in e.disabled /\ e.writers = d.writers /\ e.disk = d.disk
<1>1. DumpShape(d, S)
  BY DEF DumpOk
<1>2. PICK w, da, di, dr : /\ d = [writers |-> w, disabled |-> da, disk |-> di, dirs |-> dr]
                           /\ w = d.writers /\ da = d.disabled /\ di = d.disk /\ dr = d.dirs
  BY <1>1, DumpParts
<1>3. e = [writers |-> w, disabled |-> da \cup {s}, disk |-> di, dirs |-> dr]
  BY ONLY <1>2, e = Mute(d, s) DEF Mute
<1>4. /\ e.writers = w /\ e.disabled = da \cup {s} /\ e.disk = di /\ e.dirs = dr
      /\ e = [writers |-> e.writers, disabled |-> e.disabled, disk |-> e.disk, dirs |-> e.dirs]
  BY ONLY <1>3
<1>5. DumpShape(e, S)
  BY ONLY <1>1, <1>2, <1>4 DEF DumpShape
<1>6. DumpOnce(e, S, n)
  BY <1>2, <1>4 DEF DumpOk, DumpOnce, Buf
<1>7. Onward(d, S, e, S)
  BY <1>1, <1>2, <1>4, SameDiskGrows DEF Onward, Follows
<1> QED  BY <1>2, <1>4, <1>5, <1>6, <1>7 DEF DumpOk

LEMMA OpenDirKeeps ==
  ASSUME NEW d, NEW S, NEW n, DumpOk(d, S, n), NEW p \in Written, NEW io, NEW e, e = OpenSourceDir(d, p, io),
         p.source_id \notin DOMAIN d.writers
  PROVE  DumpOk(e, S, n) /\ Onward(d, S, e, S) /\ (p.source_id \in e.disabled \/ p.source_id \in DOMAIN e.writers)
<1> PICK s : s = p.source_id
  OBVIOUS
<1>1. CASE s \in BadIds \/ io = "mkdir"
  <2>1. e = Mute(d, s)
    BY <1>1 DEF OpenSourceDir
  <2> QED  BY <2>1, MuteKeeps
<1>2. CASE ~(s \in BadIds \/ io = "mkdir")
  <2>1. DumpShape(d, S)
    BY DEF DumpOk
  <2>2. PICK w, da, di, dr : /\ d = [writers |-> w, disabled |-> da, disk |-> di, dirs |-> dr]
                             /\ w = d.writers /\ da = d.disabled /\ di = d.disk /\ dr = d.dirs
    BY <2>1, DumpParts
  <2> PICK x : x = [t \in DOMAIN d.writers \cup {s} |-> IF t = s THEN [link_type |-> p.link_type, current |-> None]
                                                        ELSE d.writers[t]]
    OBVIOUS
  <2> PICK r : r = d.dirs \cup {s}
    OBVIOUS
  <2>3. e = [d EXCEPT !.dirs = r, !.writers = x]
    BY <1>2 DEF OpenSourceDir
  <2> PICK d1 : d1 = [d EXCEPT !.dirs = r]
    OBVIOUS
  <2>4. d1 = [writers |-> w, disabled |-> da, disk |-> di, dirs |-> r]
    BY ONLY <2>2, d1 = [d EXCEPT !.dirs = r]
  <2>5. e = [d1 EXCEPT !.writers = x]
    BY ONLY <2>3, d1 = [d EXCEPT !.dirs = r]
  <2>6. e = [writers |-> x, disabled |-> da, disk |-> di, dirs |-> r]
    BY ONLY <2>4, <2>5
  <2>7. /\ e.writers = x /\ e.disabled = da /\ e.disk = di
        /\ e = [writers |-> e.writers, disabled |-> e.disabled, disk |-> e.disk, dirs |-> e.dirs]
    BY ONLY <2>6
  <2>8. /\ DOMAIN x = DOMAIN w \cup {s} /\ x = [t \in DOMAIN x |-> x[t]] /\ \A t \in DOMAIN w : x[t] = w[t]
        /\ x[s] = [link_type |-> p.link_type, current |-> None] /\ s \notin DOMAIN w
    BY <2>2
  <2>9. s \in Ids /\ GlobalHeader(p.link_type) \in Units /\ s \notin S
    BY <2>1, UnitFacts DEF DumpShape
  <2>10. \A t \in DOMAIN x : /\ x[t] = [link_type |-> x[t].link_type, current |-> x[t].current]
                             /\ GlobalHeader(x[t].link_type) \in Units
                             /\ t \in S => x[t].current \in Sink
                             /\ t \notin S => x[t].current = None
    <3> TAKE t \in DOMAIN x
    <3>1. CASE t = s
      BY ONLY <3>1, <2>8, <2>9
    <3>2. CASE t # s
      BY ONLY <3>2, <2>1, <2>2, <2>8, t \in DOMAIN x DEF DumpShape
    <3> QED  BY <3>1, <3>2
  <2>11. DumpShape(e, S)
    BY ONLY <2>1, <2>2, <2>7, <2>8, <2>9, <2>10 DEF DumpShape
  <2>12. \A t \in S : e.writers[t] = d.writers[t] /\ Buf(e, t) = Buf(d, t)
    BY <2>1, <2>2, <2>7, <2>8 DEF DumpShape, Buf
  <2>13. DumpOnce(e, S, n)
    BY <2>2, <2>7, <2>12 DEF DumpOk, DumpOnce
  <2>14. Onward(d, S, e, S)
    BY <2>1, <2>2, <2>7, <2>12, SameDiskGrows DEF Onward, Follows
  <2> QED  BY <2>7, <2>8, <2>11, <2>13, <2>14 DEF DumpOk
<1> QED  BY <1>1, <1>2

\* The current file of source s becomes c.
Opened(d, s, c) == [d EXCEPT !.writers[s].current = c]

Reopens(S, T, s, c) == (c \in Sink /\ T = S \cup {s}) \/ (c = None /\ T = S \ {s})

LEMMA OpenedShape ==
  ASSUME NEW d, NEW S, DumpShape(d, S), NEW s \in DOMAIN d.writers, NEW c, NEW T, NEW e, e = Opened(d, s, c),
         Reopens(S, T, s, c)
  PROVE  /\ DumpShape(e, T) /\ e.disk = d.disk /\ e.disabled = d.disabled /\ DOMAIN e.writers = DOMAIN d.writers
         /\ e.writers[s].current = c /\ e.writers[s].link_type = d.writers[s].link_type
         /\ \A t \in DOMAIN d.writers : t # s => e.writers[t] = d.writers[t]
<1>2. PICK w, da, di, dr : /\ d = [writers |-> w, disabled |-> da, disk |-> di, dirs |-> dr]
                           /\ w = d.writers /\ da = d.disabled /\ di = d.disk /\ dr = d.dirs
  BY DumpParts
<1>3. w = [t \in DOMAIN w |-> w[t]] /\ s \in DOMAIN w
  BY <1>2 DEF DumpShape
<1> PICK r, l, c0 : r = w[s] /\ l = w[s].link_type /\ c0 = w[s].current
  OBVIOUS
<1>4. r = [link_type |-> l, current |-> c0]
  BY <1>2, <1>3 DEF DumpShape
<1>5. [r EXCEPT !.current = c] = [link_type |-> l, current |-> c]
  BY ONLY <1>4
<1> PICK x : x = [w EXCEPT ![s] = [link_type |-> l, current |-> c]]
  OBVIOUS
<1>6. [w EXCEPT ![s].current = c] = x
  BY ONLY <1>5, r = w[s], x = [w EXCEPT ![s] = [link_type |-> l, current |-> c]]
<1>7. e = [writers |-> x, disabled |-> da, disk |-> di, dirs |-> dr]
  BY ONLY <1>2, <1>6, e = Opened(d, s, c) DEF Opened
<1>8. /\ e.writers = x /\ e.disabled = da /\ e.disk = di
      /\ e = [writers |-> e.writers, disabled |-> e.disabled, disk |-> e.disk, dirs |-> e.dirs]
  BY ONLY <1>7
<1>9. /\ DOMAIN x = DOMAIN w /\ x = [t \in DOMAIN x |-> x[t]] /\ \A t \in DOMAIN w : t # s => x[t] = w[t]
      /\ x[s] = [link_type |-> l, current |-> c]
  BY ONLY <1>3, x = [w EXCEPT ![s] = [link_type |-> l, current |-> c]]
<1>10. \A t \in DOMAIN x : /\ x[t] = [link_type |-> x[t].link_type, current |-> x[t].current]
                           /\ GlobalHeader(x[t].link_type) \in Units
                           /\ t \in T => x[t].current \in Sink
                           /\ t \notin T => x[t].current = None
  <2> TAKE t \in DOMAIN x
  <2>1. CASE t = s
    <3>1. x[s].link_type = l /\ x[s].current = c
      BY ONLY <1>9
    <3>2. GlobalHeader(l) \in Units
      BY <1>2, <1>3 DEF DumpShape
    <3> QED  BY <2>1, <3>1, <3>2, <1>9 DEF Reopens
  <2>2. CASE t # s
    BY <2>2, <1>2, <1>9 DEF DumpShape, Reopens
  <2> QED  BY <2>1, <2>2
<1>11. T \subseteq DOMAIN x /\ DOMAIN x \subseteq Ids
  BY <1>2, <1>9 DEF DumpShape, Reopens
<1>12. DumpShape(e, T)
  BY ONLY DumpShape(d, S), <1>2, <1>8, <1>9, <1>10, <1>11 DEF DumpShape
<1>13. e.writers[s].current = c /\ e.writers[s].link_type = d.writers[s].link_type
  BY ONLY <1>2, <1>8, <1>9, l = w[s].link_type
<1> QED  BY <1>2, <1>8, <1>9, <1>12, <1>13

LEMMA ShutKeeps ==
  ASSUME NEW d, NEW S, NEW n, DumpOk(d, S, n), NEW s \in S, NEW e, e = Opened(FlushSink(d, s), s, None)
  PROVE  /\ DumpOk(e, S \ {s}, n) /\ Onward(d, S, e, S \ {s}) /\ DOMAIN e.writers = DOMAIN d.writers
         /\ e.disabled = d.disabled /\ e.writers[s].link_type = d.writers[s].link_type
<1> PICK g : g = FlushSink(d, s)
  OBVIOUS
<1>1. DumpOk(g, S, n) /\ Onward(d, S, g, S) /\ SameWriters(d, g, S, s)
  BY FlushKeeps
<1>2. DumpShape(d, S) /\ DumpShape(g, S) /\ DumpOnce(g, S, n)
  BY <1>1 DEF DumpOk
<1>3. s \in DOMAIN g.writers
  BY <1>2 DEF DumpShape
<1> PICK T : T = S \ {s}
  OBVIOUS
<1>4. e = Opened(g, s, None)
  OBVIOUS
<1>5. /\ DumpShape(e, T) /\ e.disk = g.disk /\ e.disabled = g.disabled /\ DOMAIN e.writers = DOMAIN g.writers
      /\ e.writers[s].current = None /\ e.writers[s].link_type = g.writers[s].link_type
      /\ \A t \in DOMAIN g.writers : t # s => e.writers[t] = g.writers[t]
  <2> PICK c : c = None
    OBVIOUS
  <2>1. e = Opened(g, s, c) /\ Reopens(S, T, s, c)
    BY <1>4 DEF Reopens
  <2>2. /\ DumpShape(e, T) /\ e.disk = g.disk /\ e.disabled = g.disabled /\ DOMAIN e.writers = DOMAIN g.writers
        /\ e.writers[s].current = c /\ e.writers[s].link_type = g.writers[s].link_type
        /\ \A t \in DOMAIN g.writers : t # s => e.writers[t] = g.writers[t]
    BY ONLY <1>2, <1>3, <2>1, OpenedShape
  <2> QED  BY <2>2
<1>6. \A t \in T : t \in S /\ e.writers[t] = g.writers[t] /\ Buf(e, t) = Buf(g, t)
  BY <1>2, <1>5 DEF DumpShape, Buf
<1>7. DumpOnce(e, T, n)
  BY <1>2, <1>5, <1>6 DEF DumpOnce
<1>8. Onward(g, S, e, T)
  BY <1>2, <1>5, <1>6, SameDiskGrows DEF Onward, Follows
<1>9. Onward(d, S, e, T)
  BY ONLY <1>1, <1>2, <1>5, <1>8, OnwardTrans
<1> QED  BY <1>1, <1>5, <1>7, <1>9 DEF DumpOk, SameWriters

LEMMA DivFacts ==
  ASSUME NEW M \in Nat \ {0}, NEW a \in Nat, NEW b \in Nat
  PROVE  /\ a \div M \in Nat
         /\ a <= b => a \div M <= b \div M
         /\ b <= a + M => b \div M <= (a \div M) + 1
<1> PICK x, y : x = a \div M /\ y = b \div M
  OBVIOUS
<1>1. x \in Nat /\ y \in Nat /\ M * x <= a /\ a < M * x + M /\ M * y <= b /\ b < M * y + M
  OBVIOUS
<1>2. ASSUME NEW i \in Nat, NEW j \in Nat, i < j PROVE M * i + M <= M * j
  <2>1. PICK k \in Nat : j = i + 1 + k
    BY <1>2
  <2>2. M * j = M * i + M + M * k /\ M * k \in Nat
    BY <2>1
  <2> QED  BY <2>2
<1>3. ASSUME a <= b PROVE x <= y
  <2>1. CASE y < x
    BY <1>1, <1>2, <1>3, <2>1
  <2> QED  BY <1>1, <2>1
<1>4. ASSUME b <= a + M PROVE y <= x + 1
  <2>1. CASE x + 1 < y
    <3>1. M * (x + 1) + M <= M * y
      BY <1>1, <1>2, <2>1
    <3>2. M * (x + 1) = M * x + M
      BY <1>1
    <3> QED  BY <1>1, <1>4, <3>1, <3>2
  <2> QED  BY <1>1, <2>1
<1> QED  BY <1>1, <1>3, <1>4

LEMMA MinuteFacts ==
  /\ \A a \in Nat : Minute(a) \in Nat
  /\ \A a, b \in Nat : a <= b => Minute(a) <= Minute(b)
  /\ \A a, b \in Nat : b <= a + MinuteTicks => Minute(b) <= Minute(a) + 1
  BY DivFacts, DumpAssumption DEF Minute

LEMMA MakeFileKeeps ==
  ASSUME NEW d, NEW S, NEW n, DumpOk(d, S, n), NEW s \in DOMAIN d.writers, NEW m \in Nat, NEW e, e = MakeFile(d, s, m)
  PROVE  /\ DumpOk(e, S, n) /\ Onward(d, S, e, S) /\ e.writers = d.writers /\ e.disabled = d.disabled
         /\ File(s, m) \in DOMAIN e.disk
<1>1. DumpShape(d, S)
  BY DEF DumpOk
<1>2. PICK w, da, di, dr : /\ d = [writers |-> w, disabled |-> da, disk |-> di, dirs |-> dr]
                           /\ w = d.writers /\ da = d.disabled /\ di = d.disk /\ dr = d.dirs
  BY <1>1, DumpParts
<1> PICK F : F = File(s, m)
  OBVIOUS
<1> PICK r : r = d.dirs \cup {s}
  OBVIOUS
<1> PICK k : k = [f \in DOMAIN d.disk \cup {F} |-> IF f \in DOMAIN d.disk THEN d.disk[f] ELSE <<>>]
  OBVIOUS
<1>3. e = [d EXCEPT !.dirs = r, !.disk = k]
  BY DEF MakeFile
<1> PICK d1 : d1 = [d EXCEPT !.dirs = r]
  OBVIOUS
<1>4. d1 = [writers |-> w, disabled |-> da, disk |-> di, dirs |-> r]
  BY ONLY <1>2, d1 = [d EXCEPT !.dirs = r]
<1>5. e = [d1 EXCEPT !.disk = k]
  BY ONLY <1>3, d1 = [d EXCEPT !.dirs = r]
<1>6. e = [writers |-> w, disabled |-> da, disk |-> k, dirs |-> r]
  BY ONLY <1>4, <1>5
<1>7. /\ e.writers = w /\ e.disabled = da /\ e.disk = k
      /\ e = [writers |-> e.writers, disabled |-> e.disabled, disk |-> e.disk, dirs |-> e.dirs]
  BY ONLY <1>6
<1>8. /\ DOMAIN k = DOMAIN di \cup {F} /\ k = [f \in DOMAIN k |-> k[f]] /\ \A f \in DOMAIN di : k[f] = di[f]
      /\ F \notin DOMAIN di => k[F] = <<>>
  BY ONLY <1>2, k = [f \in DOMAIN d.disk \cup {F} |-> IF f \in DOMAIN d.disk THEN d.disk[f] ELSE <<>>]
<1>9. F \in DumpFiles
  BY <1>1 DEF DumpShape, DumpFiles, File
<1>10. IsFiniteSet(DOMAIN k)
  BY <1>1, <1>2, <1>8, FS_AddElement DEF DumpShape
<1>11. \A f \in DOMAIN k : f \in DumpFiles /\ k[f] \in Seq(Units)
  BY <1>1, <1>2, <1>8, <1>9, NoUnits DEF DumpShape
<1>12. DumpShape(e, S)
  BY ONLY <1>1, <1>2, <1>7, <1>8, <1>10, <1>11 DEF DumpShape
<1>13. DumpOnce(e, S, n)
  <2>1. \A f \in DOMAIN e.disk : \/ f \in DOMAIN d.disk /\ e.disk[f] = d.disk[f]
                                 \/ BodyIds(e.disk[f]) = {} /\ Single(e.disk[f])
    BY <1>2, <1>7, <1>8, NoUnits
  <2>2. \A t \in S : \/ t \in S /\ Buf(e, t) = Buf(d, t)
                     \/ BodyIds(Buf(e, t)) = {} /\ Single(Buf(e, t))
    BY <1>2, <1>7 DEF Buf
  <2>3. DumpOnce(d, S, n)
    BY DEF DumpOk
  <2> QED  BY ONLY <2>1, <2>2, <2>3, FewerOnce
<1>14. Onward(d, S, e, S)
  <2>1. Grows(d, e)
    BY <1>1, <1>2, <1>7, <1>8, OnwardSelf DEF Onward, Grows
  <2> QED  BY <1>2, <1>7, <2>1 DEF Onward, Follows
<1> QED  BY <1>2, <1>7, <1>8, <1>12, <1>13, <1>14 DEF DumpOk

LEMMA OpenFileKeeps ==
  ASSUME NEW d, NEW S, NEW n, DumpOk(d, S, n), NEW s \in DOMAIN d.writers, s \notin S, NEW m \in Nat, NEW io,
         NEW e, e = OpenMinuteFile(d, s, m, io)
  PROVE  \E T : /\ DumpOk(e, T, n) /\ Onward(d, S, e, T)
                /\ s \in e.disabled \/ (s \in T /\ e.writers[s].current.minute = m)
<1>1. CASE io = "open"
  <2>1. e = Mute(d, s)
    BY <1>1 DEF OpenMinuteFile
  <2> QED  BY <2>1, MuteKeeps
<1>2. CASE io # "open"
  <2> PICK g : g = MakeFile(d, s, m)
    OBVIOUS
  <2>1. /\ DumpOk(g, S, n) /\ Onward(d, S, g, S) /\ g.writers = d.writers
    BY MakeFileKeeps
  <2> PICK b : b = IF g.disk[File(s, m)] = <<>> THEN <<GlobalHeader(d.writers[s].link_type)>> ELSE <<>>
    OBVIOUS
  <2> PICK c : c = [minute |-> m, linked |-> "yes", buf |-> b]
    OBVIOUS
  <2>2. e = Opened(g, s, c)
    BY <1>2 DEF OpenMinuteFile, Opened
  <2>3. b \in Seq(Units) /\ BodyIds(b) = {} /\ Single(b)
    <3> PICK h : h = GlobalHeader(d.writers[s].link_type)
      OBVIOUS
    <3>1. h \in Units /\ h.kind # "body"
      BY UnitFacts DEF DumpOk, DumpShape
    <3>2. <<h>> \in Seq(Units) /\ BodyIds(<<h>>) = {} /\ Single(<<h>>)
      BY <3>1, OneUnit
    <3> QED  BY <3>2, NoUnits
  <2>4. c \in Sink /\ c.buf = b /\ c.minute = m /\ c.linked = "yes"
    BY <2>3 DEF Sink
  <2> PICK T : T = S \cup {s}
    OBVIOUS
  <2>5. DumpShape(g, S) /\ DumpShape(d, S) /\ DumpOnce(g, S, n) /\ s \in DOMAIN g.writers /\ Reopens(S, T, s, c)
    BY <2>1, <2>4 DEF DumpOk, Reopens
  <2>6. /\ DumpShape(e, T) /\ e.disk = g.disk /\ DOMAIN e.writers = DOMAIN g.writers
        /\ e.writers[s].current = c
        /\ \A t \in DOMAIN g.writers : t # s => e.writers[t] = g.writers[t]
    BY ONLY <2>2, <2>5, OpenedShape
  <2>7. S \subseteq DOMAIN g.writers
    BY <2>5 DEF DumpShape
  <2>8. DumpOnce(e, T, n)
    <3>1. \A f \in DOMAIN e.disk : \/ f \in DOMAIN g.disk /\ e.disk[f] = g.disk[f]
                                   \/ BodyIds(e.disk[f]) = {} /\ Single(e.disk[f])
      BY <2>6
    <3>2. \A t \in T : \/ t \in S /\ Buf(e, t) = Buf(g, t)
                       \/ BodyIds(Buf(e, t)) = {} /\ Single(Buf(e, t))
      BY <2>3, <2>4, <2>6, <2>7 DEF Buf
    <3> QED  BY ONLY <2>5, <3>1, <3>2, FewerOnce
  <2>9. Onward(g, S, e, T)
    BY <2>4, <2>5, <2>6, <2>7, SameDiskGrows DEF Onward, Follows
  <2>10. Onward(d, S, e, T)
    BY ONLY <2>1, <2>5, <2>6, <2>9, OnwardTrans
  <2> QED  BY <2>4, <2>6, <2>8, <2>10 DEF DumpOk
<1> QED  BY <1>1, <1>2

LEMMA RotateKeeps ==
  ASSUME NEW d, NEW S, NEW n, DumpOk(d, S, n), NEW p \in Written, NEW io, NEW e, e = Rotate(d, p, io),
         p.source_id \in DOMAIN d.writers, d.writers[p.source_id].current = None <=> p.source_id \notin S
  PROVE  \E T : /\ DumpOk(e, T, n) /\ Onward(d, S, e, T)
                /\ \/ p.source_id \in e.disabled
                   \/ p.source_id \in T /\ e.writers[p.source_id].current.minute >= Minute(p.timestamp_us)
<1> PICK s, m : s = p.source_id /\ m = Minute(p.timestamp_us)
  OBVIOUS
<1>1. m \in Nat /\ DumpShape(d, S)
  BY UnitFacts, MinuteFacts DEF DumpOk
<1>2. CASE NeedsNewFile(d.writers[s], m)
  <2> PICK g : g = IF d.writers[s].current = None THEN d ELSE Opened(FlushSink(d, s), s, None)
    OBVIOUS
  <2>1. e = OpenMinuteFile(g, s, m, io)
    BY <1>2 DEF Rotate, Opened
  <2> PICK U : U = S \ {s}
    OBVIOUS
  <2>2. DumpOk(g, U, n) /\ Onward(d, S, g, U) /\ s \in DOMAIN g.writers
    <3>1. CASE s \in S
      <4>1. g = Opened(FlushSink(d, s), s, None)
        BY <3>1
      <4>2. DumpOk(g, S \ {s}, n) /\ Onward(d, S, g, S \ {s}) /\ DOMAIN g.writers = DOMAIN d.writers
        BY ONLY DumpOk(d, S, n), <3>1, <4>1, ShutKeeps
      <4> QED  BY <4>2
    <3>2. CASE s \notin S
      <4>1. g = d /\ U = S
        BY <3>2
      <4> QED  BY <1>1, <4>1, OnwardSelf
    <3> QED  BY <3>1, <3>2
  <2>3. PICK T : /\ DumpOk(e, T, n) /\ Onward(g, U, e, T)
                 /\ s \in e.disabled \/ (s \in T /\ e.writers[s].current.minute = m)
    <3>1. s \notin U
      OBVIOUS
    <3> QED  BY ONLY <1>1, <2>1, <2>2, <3>1, OpenFileKeeps
  <2>4. DumpShape(g, U) /\ DumpShape(e, T)
    BY <2>2, <2>3 DEF DumpOk
  <2>5. Onward(d, S, e, T)
    BY ONLY <1>1, <2>2, <2>3, <2>4, OnwardTrans
  <2> QED  BY <1>1, <2>3, <2>5
<1>3. CASE ~NeedsNewFile(d.writers[s], m)
  <2>1. e = d /\ s \in S /\ ~(m > d.writers[s].current.minute)
    BY <1>3 DEF Rotate, NeedsNewFile
  <2>2. d.writers[s].current.minute \in Nat
    BY <1>1, <2>1, SinkFacts
  <2>3. Onward(d, S, d, S)
    BY <1>1, OnwardSelf
  <2> QED  BY <1>1, <2>1, <2>2, <2>3
<1> QED  BY <1>2, <1>3

\* The sources with an open file are those of the model.
LEMMA OnlyOpen ==
  ASSUME NEW d, NEW S, NEW n, DumpOk(d, S, n)
  PROVE  OpenSinks(d) \subseteq S /\ DumpOk(d, OpenSinks(d), n)
<1>1. OpenSinks(d) \subseteq S /\ OpenSinks(d) \subseteq DOMAIN d.writers
      /\ \A s \in DOMAIN d.writers \ OpenSinks(d) : d.writers[s].current = None
  BY DEF DumpOk, DumpShape, OpenSinks
<1> PICK T : T = OpenSinks(d)
  OBVIOUS
<1>2. DumpShape(d, S)
  BY DEF DumpOk
<1>3. \A s \in DOMAIN d.writers :
        /\ d.writers[s] = [link_type |-> d.writers[s].link_type, current |-> d.writers[s].current]
        /\ GlobalHeader(d.writers[s].link_type) \in Units
        /\ s \in T => d.writers[s].current \in Sink
        /\ s \notin T => d.writers[s].current = None
  BY <1>1, <1>2 DEF DumpShape
<1>4. DumpShape(d, T)
  BY <1>1, <1>2, <1>3 DEF DumpShape
<1>5. DumpOnce(d, T, n)
  BY <1>1 DEF DumpOk, DumpOnce
<1> QED  BY <1>1, <1>4, <1>5 DEF DumpOk

\* A record that is in the buffer is in the file of its minute, or of a later one.
Placed(e, T, p) ==
  \A s \in T : RecordBody(p) \in ToSet(Buf(e, s)) => e.writers[s].current.minute >= Minute(p.timestamp_us)

LEMMA Unplaced ==
  ASSUME NEW n \in Nat, NEW e, NEW T, DumpOk(e, T, n), NEW p \in Written, p.id = n + 1
  PROVE  Placed(e, T, p)
<1> SUFFICES ASSUME NEW s \in T, RecordBody(p) \in ToSet(Buf(e, s)) PROVE FALSE
  BY DEF Placed
<1> PICK q : q = Buf(e, s)
  OBVIOUS
<1>1. BodyIds(q) \subseteq 1..n
  BY DEF DumpOk, DumpOnce, Good
<1>2. PICK i \in DOMAIN q : q[i] = RecordBody(p)
  BY DEF ToSet
<1>3. q[i].kind = "body" /\ q[i].pkt = p
  BY <1>2, UnitFacts
<1>4. q[i].pkt.id \in BodyIds(q)
  BY <1>3 DEF BodyIds
<1> QED  BY <1>1, <1>3, <1>4

LEMMA WriteKeeps ==
  ASSUME NEW d, NEW n \in Nat, DumpOk(d, OpenSinks(d), n), NEW p \in Written, p.id = n + 1, NEW io,
         NEW e, e = Write(d, p, io)
  PROVE  \E T : DumpOk(e, T, n + 1) /\ Onward(d, OpenSinks(d), e, T) /\ \A s \in T : s = p.source_id => Placed(e, {s}, p)
<1> PICK S, s : S = OpenSinks(d) /\ s = p.source_id
  OBVIOUS
<1>0. DumpShape(d, S) /\ ~p.heartbeat
  BY UnitFacts DEF DumpOk
<1>1. ASSUME NEW T, DumpOk(e, T, n), Onward(d, S, e, T)
      PROVE  \E U : DumpOk(e, U, n + 1) /\ Onward(d, S, e, U) /\ \A t \in U : t = s => Placed(e, {t}, p)
  <2>1. DumpOk(e, T, n + 1) /\ Placed(e, T, p)
    BY <1>1, Unplaced, MoreNumbers
  <2>2. \A t \in T : Placed(e, {t}, p)
    BY <2>1 DEF Placed
  <2> QED  BY <1>1, <2>1, <2>2
<1>2. CASE s \in d.disabled
  <2>1. e = d
    BY <1>2 DEF Write
  <2> QED  BY <1>0, <1>1, <2>1, OnwardSelf
<1>3. CASE s \notin d.disabled
  <2> PICK g : g = IF s \in DOMAIN d.writers THEN d ELSE OpenSourceDir(d, p, io)
    OBVIOUS
  <2>1. /\ DumpOk(g, S, n) /\ Onward(d, S, g, S) /\ (s \in g.disabled \/ s \in DOMAIN g.writers)
        /\ s \in DOMAIN g.writers => (g.writers[s].current = None <=> s \notin S)
    <3>1. CASE s \in DOMAIN d.writers
      <4>1. g = d
        BY <3>1
      <4>2. d.writers[s].current = None <=> s \notin S
        BY <3>1 DEF OpenSinks
      <4> QED  BY <1>0, <3>1, <4>1, <4>2, OnwardSelf
    <3>2. CASE s \notin DOMAIN d.writers
      <4>1. DumpOk(g, S, n) /\ Onward(d, S, g, S) /\ (s \in g.disabled \/ s \in DOMAIN g.writers)
        <5>1. g = OpenSourceDir(d, p, io)
          BY <3>2
        <5> QED  BY <3>2, <5>1, OpenDirKeeps
      <4>2. s \notin S
        BY <1>0, <3>2 DEF DumpShape
      <4>3. s \in DOMAIN g.writers => g.writers[s].current = None
        BY <4>1, <4>2 DEF DumpOk, DumpShape
      <4> QED  BY <4>1, <4>2, <4>3
    <3> QED  BY <3>1, <3>2
  <2> PICK r : r = Rotate(g, p, io)
    OBVIOUS
  <2>2. e = IF s \in g.disabled \/ g.writers[s].link_type # p.link_type THEN g
            ELSE IF s \in r.disabled THEN r ELSE PutRecord(r, s, p, io)
    BY <1>0, <1>3 DEF Write
  <2>3. CASE s \in g.disabled \/ g.writers[s].link_type # p.link_type
    BY <1>1, <2>1, <2>2, <2>3
  <2>4. CASE ~(s \in g.disabled \/ g.writers[s].link_type # p.link_type)
    <3>1. PICK T : /\ DumpOk(r, T, n) /\ Onward(g, S, r, T)
                   /\ s \in r.disabled \/ (s \in T /\ r.writers[s].current.minute >= Minute(p.timestamp_us))
      BY <2>1, <2>4, RotateKeeps
    <3>2. DumpShape(g, S) /\ DumpShape(r, T)
      BY <2>1, <3>1 DEF DumpOk
    <3>3. Onward(d, S, r, T)
      BY ONLY <1>0, <2>1, <3>1, <3>2, OnwardTrans
    <3>4. CASE s \in r.disabled
      BY <1>1, <2>2, <2>4, <3>1, <3>3, <3>4
    <3>5. CASE s \notin r.disabled
      <4>1. e = PutRecord(r, s, p, io) /\ s \in T /\ r.writers[s].current.minute >= Minute(p.timestamp_us)
        BY <2>2, <2>4, <3>1, <3>5
      <4>2. DumpOk(e, T, n + 1) /\ Onward(r, T, e, T) /\ SameWriters(r, e, T, s)
        BY <3>1, <4>1, PutRecordKeeps
      <4>3. DumpShape(e, T)
        BY <4>2 DEF DumpOk
      <4>4. Onward(d, S, e, T)
        BY ONLY <1>0, <3>2, <3>3, <4>2, <4>3, OnwardTrans
      <4>5. e.writers[s].current.minute >= Minute(p.timestamp_us)
        BY <4>1, <4>2 DEF SameWriters
      <4>6. \A t \in T : t = s => Placed(e, {t}, p)
        BY <4>5 DEF Placed
      <4> QED  BY <4>2, <4>4, <4>6
    <3> QED  BY <3>4, <3>5
  <2> QED  BY <2>3, <2>4
<1> QED  BY <1>2, <1>3

LEMMA FlushAllKeeps ==
  ASSUME NEW d, NEW n, DumpOk(d, OpenSinks(d), n), NEW e, e = FlushAll(d)
  PROVE  DumpOk(e, OpenSinks(d), n) /\ Onward(d, OpenSinks(d), e, OpenSinks(d))
<1> PICK S : S = OpenSinks(d)
  OBVIOUS
<1>1. DumpShape(d, S)
  BY DEF DumpOk
<1>2. PICK w, da, di, dr : /\ d = [writers |-> w, disabled |-> da, disk |-> di, dirs |-> dr]
                           /\ w = d.writers /\ da = d.disabled /\ di = d.disk /\ dr = d.dirs
  BY <1>1, DumpParts
<1> PICK k : k = [f \in DOMAIN d.disk |-> d.disk[f] \o Pending(d, f)]
  OBVIOUS
<1> PICK x : x = [s \in DOMAIN d.writers |-> IF s \in S THEN [d.writers[s] EXCEPT !.current.buf = <<>>] ELSE d.writers[s]]
  OBVIOUS
<1>3. e = [d EXCEPT !.disk = k, !.writers = x]
  BY DEF FlushAll
<1> PICK d1 : d1 = [d EXCEPT !.disk = k]
  OBVIOUS
<1>4. d1 = [writers |-> w, disabled |-> da, disk |-> k, dirs |-> dr]
  BY ONLY <1>2, d1 = [d EXCEPT !.disk = k]
<1>5. e = [d1 EXCEPT !.writers = x]
  BY ONLY <1>3, d1 = [d EXCEPT !.disk = k]
<1>6. e = [writers |-> x, disabled |-> da, disk |-> k, dirs |-> dr]
  BY ONLY <1>4, <1>5
<1>7. /\ e.writers = x /\ e.disk = k
      /\ e = [writers |-> e.writers, disabled |-> e.disabled, disk |-> e.disk, dirs |-> e.dirs]
  BY ONLY <1>6
<1>8. DOMAIN x = DOMAIN w /\ x = [t \in DOMAIN x |-> x[t]] /\ (\A t \in DOMAIN w \ S : x[t] = w[t])
      /\ \A t \in DOMAIN w : t \in S => x[t] = [w[t] EXCEPT !.current.buf = <<>>]
  BY ONLY <1>2, x = [s \in DOMAIN d.writers |-> IF s \in S THEN [d.writers[s] EXCEPT !.current.buf = <<>>] ELSE d.writers[s]]
<1>9. ASSUME NEW t \in S
      PROVE  /\ t \in DOMAIN w /\ x[t] = [link_type |-> w[t].link_type, current |-> x[t].current]
             /\ x[t].current \in Sink /\ x[t].current.buf = <<>>
             /\ x[t].current.minute = w[t].current.minute /\ x[t].current.linked = w[t].current.linked
  <2> PICK r, l, c, b : r = w[t] /\ l = w[t].link_type /\ c = w[t].current /\ b = <<>>
    OBVIOUS
  <2>1. t \in DOMAIN w /\ c = [minute |-> c.minute, linked |-> c.linked, buf |-> c.buf] /\ c.minute \in Nat
        /\ c.linked \in {"yes", "swept", "rm"}
    BY <1>1, <1>2, <1>9, SinkFacts DEF Buf
  <2>2. r = [link_type |-> l, current |-> c]
    BY <1>1, <1>2, <2>1 DEF DumpShape
  <2> PICK v : v = [minute |-> c.minute, linked |-> c.linked, buf |-> b]
    OBVIOUS
  <2>3. [c EXCEPT !.buf = b] = v
    BY ONLY <2>1, v = [minute |-> c.minute, linked |-> c.linked, buf |-> b]
  <2>4. [r EXCEPT !.current.buf = b] = [link_type |-> l, current |-> v]
    BY ONLY <2>2, <2>3, RebufferedWriter
  <2>5. x[t] = [link_type |-> l, current |-> v]
    BY ONLY <1>8, <1>9, <2>1, <2>4, r = w[t], b = <<>>
  <2>6. v \in Sink /\ v.buf = b /\ v.minute = c.minute /\ v.linked = c.linked
    BY ONLY <2>1, NoUnits, b = <<>>, v = [minute |-> c.minute, linked |-> c.linked, buf |-> b] DEF Sink
  <2>7. x[t].current = v
    BY ONLY <2>5
  <2> QED  BY ONLY <2>1, <2>5, <2>6, <2>7, b = <<>>, l = w[t].link_type, c = w[t].current
<1>10. \A f \in DOMAIN d.disk : Pending(d, f) = Due(d, S, f)
  BY DEF Pending, Due, Buf
<1>11. DumpOnce(e, S, n) /\ Grows(d, e) /\ \A f \in DOMAIN d.disk : e.disk[f] \in Seq(Units)
  <2>1. DOMAIN e.disk = DOMAIN d.disk /\ \A f \in DOMAIN d.disk : e.disk[f] = d.disk[f] \o Due(d, S, f)
    BY <1>7, <1>10
  <2>2. \A t \in S : Buf(e, t) = IF t \in S THEN <<>> ELSE Buf(d, t)
    BY <1>7, <1>9 DEF Buf
  <2> QED  BY ONLY <2>1, <2>2, DumpOk(d, OpenSinks(d), n), S = OpenSinks(d), DrainedOnce
<1>12. \A t \in DOMAIN x : /\ x[t] = [link_type |-> x[t].link_type, current |-> x[t].current]
                           /\ GlobalHeader(x[t].link_type) \in Units
                           /\ t \in S => x[t].current \in Sink
                           /\ t \notin S => x[t].current = None
  <2> TAKE t \in DOMAIN x
  <2>1. CASE t \in S
    <3>1. x[t].link_type = w[t].link_type
      BY <1>9, <2>1, ZenonT(60)
    <3> QED  BY <1>1, <1>2, <1>9, <2>1, <3>1, Zenon DEF DumpShape
  <2>2. CASE t \notin S
    BY <1>1, <1>2, <1>8, <2>2 DEF DumpShape
  <2> QED  BY <2>1, <2>2
<1>13. /\ e.disk = [f \in DOMAIN e.disk |-> e.disk[f]] /\ DOMAIN e.disk = DOMAIN d.disk
  BY <1>7
<1>14. DumpShape(e, S)
  BY ONLY <1>1, <1>2, <1>7, <1>8, <1>11, <1>12, <1>13 DEF DumpShape
<1>15. Follows(d, S, e, S)
  <2>1. \A t \in S : e.writers[t].current.linked = d.writers[t].current.linked
                    /\ e.writers[t].current.minute = d.writers[t].current.minute
    <3> TAKE t \in S
    <3>1. x[t].current.minute = w[t].current.minute /\ x[t].current.linked = w[t].current.linked
      BY ONLY <1>9, t \in S
    <3> QED  BY ONLY <3>1, <1>2, <1>7
  <2> QED  BY ONLY <2>1 DEF Follows
<1> QED  BY <1>11, <1>14, <1>15 DEF DumpOk, Onward

\* The files of a set go.
LEMMA UnlinkKeeps ==
  ASSUME NEW d, NEW n, DumpOk(d, OpenSinks(d), n), NEW files, NEW by \in {"swept", "rm"}, NEW e, e = Unlink(d, files, by)
  PROVE  /\ DumpOk(e, OpenSinks(d), n) /\ e.dirs = d.dirs
         /\ DOMAIN e.disk = DOMAIN d.disk \ files /\ \A f \in DOMAIN e.disk : e.disk[f] = d.disk[f]
         /\ \A s \in OpenSinks(d) :
              /\ e.writers[s].current.minute = d.writers[s].current.minute
              /\ \/ e.writers[s].current.linked = d.writers[s].current.linked
                 \/ e.writers[s].current.linked = by /\ File(s, d.writers[s].current.minute) \in files
<1> PICK S : S = OpenSinks(d)
  OBVIOUS
<1>1. DumpShape(d, S)
  BY DEF DumpOk
<1>2. PICK w, da, di, dr : /\ d = [writers |-> w, disabled |-> da, disk |-> di, dirs |-> dr]
                           /\ w = d.writers /\ da = d.disabled /\ di = d.disk /\ dr = d.dirs
  BY <1>1, DumpParts
<1> PICK k : k = [f \in DOMAIN d.disk \ files |-> d.disk[f]]
  OBVIOUS
<1> PICK x : x = [s \in DOMAIN d.writers |->
               IF d.writers[s].current # None /\ File(s, d.writers[s].current.minute) \in files
               THEN [d.writers[s] EXCEPT !.current.linked = by] ELSE d.writers[s]]
  OBVIOUS
<1>3. e = [d EXCEPT !.disk = k, !.writers = x]
  BY DEF Unlink, Restrict
<1> PICK d1 : d1 = [d EXCEPT !.disk = k]
  OBVIOUS
<1>4. d1 = [writers |-> w, disabled |-> da, disk |-> k, dirs |-> dr]
  BY ONLY <1>2, d1 = [d EXCEPT !.disk = k]
<1>5. e = [d1 EXCEPT !.writers = x]
  BY ONLY <1>3, d1 = [d EXCEPT !.disk = k]
<1>6. e = [writers |-> x, disabled |-> da, disk |-> k, dirs |-> dr]
  BY ONLY <1>4, <1>5
<1>7. /\ e.writers = x /\ e.disk = k /\ e.dirs = dr
      /\ e = [writers |-> e.writers, disabled |-> e.disabled, disk |-> e.disk, dirs |-> e.dirs]
  BY ONLY <1>6
<1>8. DOMAIN x = DOMAIN w /\ x = [t \in DOMAIN x |-> x[t]]
  BY <1>2
<1>9. ASSUME NEW t \in DOMAIN w
      PROVE  \/ x[t] = w[t]
             \/ t \in S /\ File(t, w[t].current.minute) \in files /\ x[t] = [w[t] EXCEPT !.current.linked = by]
  BY <1>2 DEF OpenSinks
<1>10. ASSUME NEW t \in S, x[t] = [w[t] EXCEPT !.current.linked = by]
       PROVE  /\ x[t] = [link_type |-> w[t].link_type, current |-> x[t].current]
              /\ x[t].current \in Sink /\ x[t].current.buf = w[t].current.buf
              /\ x[t].current.minute = w[t].current.minute /\ x[t].current.linked = by
  <2> PICK r, l, c : r = w[t] /\ l = w[t].link_type /\ c = w[t].current
    OBVIOUS
  <2>1. t \in DOMAIN w /\ c = [minute |-> c.minute, linked |-> c.linked, buf |-> c.buf] /\ c.minute \in Nat
        /\ c.buf \in Seq(Units)
    BY <1>1, <1>2, <1>10, SinkFacts DEF Buf
  <2>2. r = [link_type |-> l, current |-> c]
    BY <1>1, <1>2, <2>1 DEF DumpShape
  <2> PICK v : v = [minute |-> c.minute, linked |-> by, buf |-> c.buf]
    OBVIOUS
  <2>3. [c EXCEPT !.linked = by] = v
    BY ONLY <2>1, v = [minute |-> c.minute, linked |-> by, buf |-> c.buf]
  <2>4. [r EXCEPT !.current.linked = by] = [link_type |-> l, current |-> v]
    BY ONLY <2>2, <2>3
  <2>5. x[t] = [link_type |-> l, current |-> v]
    BY ONLY <1>10, <2>4, r = w[t]
  <2>6. v \in Sink /\ v.buf = c.buf /\ v.minute = c.minute /\ v.linked = by
    BY ONLY <2>1, by \in {"swept", "rm"}, v = [minute |-> c.minute, linked |-> by, buf |-> c.buf] DEF Sink
  <2>7. x[t].current = v
    BY ONLY <2>5
  <2> QED  BY ONLY <2>1, <2>5, <2>6, <2>7, l = w[t].link_type, c = w[t].current
<1>11. \A t \in DOMAIN x : /\ x[t] = [link_type |-> x[t].link_type, current |-> x[t].current]
                           /\ GlobalHeader(x[t].link_type) \in Units
                           /\ t \in S => x[t].current \in Sink
                           /\ t \notin S => x[t].current = None
  <2> TAKE t \in DOMAIN x
  <2>1. CASE t \in S /\ x[t] = [w[t] EXCEPT !.current.linked = by]
    <3>1. x[t].link_type = w[t].link_type /\ x[t].current \in Sink
          /\ x[t] = [link_type |-> w[t].link_type, current |-> x[t].current]
      BY <1>10, <2>1, ZenonT(60)
    <3> QED  BY <1>1, <1>2, <1>8, <2>1, <3>1 DEF DumpShape
  <2>2. CASE x[t] = w[t]
    BY <1>1, <1>2, <1>8, <2>2 DEF DumpShape
  <2> QED  BY <1>8, <1>9, <2>1, <2>2
<1>12. /\ DOMAIN k = DOMAIN di \ files /\ k = [f \in DOMAIN k |-> k[f]] /\ \A f \in DOMAIN k : k[f] = di[f]
  BY ONLY <1>2, k = [f \in DOMAIN d.disk \ files |-> d.disk[f]]
<1>13. IsFiniteSet(DOMAIN k)
  BY <1>1, <1>2, <1>12, FS_Subset DEF DumpShape
<1>14. DumpShape(e, S)
  BY ONLY <1>1, <1>2, <1>7, <1>8, <1>11, <1>12, <1>13 DEF DumpShape
<1>15. \A t \in S : /\ x[t].current.buf = w[t].current.buf /\ x[t].current.minute = w[t].current.minute
                    /\ \/ x[t].current.linked = w[t].current.linked
                       \/ x[t].current.linked = by /\ File(t, w[t].current.minute) \in files
  <2> TAKE t \in S
  <2>1. t \in DOMAIN w
    BY <1>1, <1>2 DEF DumpShape
  <2>2. CASE x[t] = w[t]
    BY <2>2
  <2>3. CASE File(t, w[t].current.minute) \in files /\ x[t] = [w[t] EXCEPT !.current.linked = by]
    <3>1. x[t].current.buf = w[t].current.buf /\ x[t].current.minute = w[t].current.minute /\ x[t].current.linked = by
      BY ONLY <1>10, <2>3, t \in S
    <3> QED  BY ONLY <2>3, <3>1
  <2> QED  BY <1>9, <2>1, <2>2, <2>3
<1>16. DumpOnce(e, S, n)
  <2>1. \A f \in DOMAIN e.disk : \/ f \in DOMAIN d.disk /\ e.disk[f] = d.disk[f]
                                 \/ BodyIds(e.disk[f]) = {} /\ Single(e.disk[f])
    BY <1>2, <1>7, <1>12
  <2>2. \A t \in S : \/ t \in S /\ Buf(e, t) = Buf(d, t)
                     \/ BodyIds(Buf(e, t)) = {} /\ Single(Buf(e, t))
    BY ONLY <1>2, <1>7, <1>15 DEF Buf
  <2>3. DumpOnce(d, S, n)
    BY DEF DumpOk
  <2> QED  BY ONLY <2>1, <2>2, <2>3, FewerOnce
<1>17. e.dirs = d.dirs /\ DOMAIN e.disk = DOMAIN d.disk \ files /\ \A f \in DOMAIN e.disk : e.disk[f] = d.disk[f]
  BY ONLY <1>2, <1>7, <1>12
<1>18. \A s \in S : /\ e.writers[s].current.minute = d.writers[s].current.minute
                    /\ \/ e.writers[s].current.linked = d.writers[s].current.linked
                       \/ e.writers[s].current.linked = by /\ File(s, d.writers[s].current.minute) \in files
  BY ONLY <1>2, <1>7, <1>15
<1>19. DumpOk(e, S, n)
  BY <1>14, <1>16 DEF DumpOk
<1> QED  BY ONLY <1>17, <1>18, <1>19, S = OpenSinks(d)

LEMMA RestartKeeps ==
  ASSUME NEW d, NEW S, NEW n, DumpOk(d, S, n), NEW dirs, NEW e, e = NewDumper(d.disk, dirs)
  PROVE  DumpOk(e, {}, n) /\ e.disk = d.disk
<1>1. DumpShape(d, S)
  BY DEF DumpOk
<1> PICK w, k : w = [s \in {} |-> None] /\ k = d.disk
  OBVIOUS
<1>2. e = [writers |-> w, disabled |-> {}, disk |-> k, dirs |-> dirs]
  BY DEF NewDumper
<1>3. /\ e.writers = w /\ e.disk = k
      /\ e = [writers |-> e.writers, disabled |-> e.disabled, disk |-> e.disk, dirs |-> e.dirs]
  BY ONLY <1>2
<1>4. DOMAIN w = {} /\ w = [s \in DOMAIN w |-> w[s]]
  OBVIOUS
<1>5. DumpShape(e, {})
  BY ONLY <1>1, <1>3, <1>4, k = d.disk DEF DumpShape
<1>6. DumpOnce(e, {}, n)
  BY <1>3 DEF DumpOk, DumpOnce
<1> QED  BY <1>3, <1>5, <1>6 DEF DumpOk

LEMMA FreshDump ==
  ASSUME NEW d, d \in {NewDumper([f \in {} |-> <<>>], {}), NoDumper}
  PROVE  DumpOk(d, {}, 0) /\ OpenSinks(d) = {}
<1> PICK w, k : w = [s \in {} |-> None] /\ k = [f \in {} |-> <<>>]
  OBVIOUS
<1>1. PICK x : d = [writers |-> w, disabled |-> x, disk |-> k, dirs |-> {}]
  <2>1. NewDumper(k, {}) = [writers |-> w, disabled |-> {}, disk |-> k, dirs |-> {}]
    BY DEF NewDumper
  <2>2. [NewDumper(k, {}) EXCEPT !.disabled = Ids] = [writers |-> w, disabled |-> Ids, disk |-> k, dirs |-> {}]
    BY ONLY <2>1
  <2>3. d = NewDumper(k, {}) \/ d = [NewDumper(k, {}) EXCEPT !.disabled = Ids]
    BY DEF NoDumper
  <2> QED  BY <2>1, <2>2, <2>3
<1>2. /\ d.writers = w /\ d.disk = k
      /\ d = [writers |-> d.writers, disabled |-> d.disabled, disk |-> d.disk, dirs |-> d.dirs]
  BY ONLY <1>1
<1>3. DOMAIN w = {} /\ w = [s \in DOMAIN w |-> w[s]] /\ DOMAIN k = {} /\ k = [f \in DOMAIN k |-> k[f]]
  OBVIOUS
<1>4. DumpShape(d, {})
  BY ONLY <1>2, <1>3, FS_EmptySet DEF DumpShape
<1>5. DumpOnce(d, {}, 0)
  BY <1>2, <1>3 DEF DumpOnce
<1>6. OpenSinks(d) = {}
  BY <1>2, <1>3 DEF OpenSinks
<1> QED  BY <1>4, <1>5, <1>6 DEF DumpOk

-----------------------------------------------------------------------------
(* The sweep only lists files of minutes the writer has left, so the writer *)
(* of a file it takes is past the minute of any packet still to come.       *)

SweepOk ==
  /\ sweep = [phase |-> sweep.phase, now |-> sweep.now, candidates |-> sweep.candidates]
  /\ sweep.now \in Nat /\ sweep.now <= NowMinute
  /\ IsFiniteSet(sweep.candidates)
  /\ \A c \in sweep.candidates : c.size \in Nat /\ c.file.minute \in Nat /\ c.file.minute < sweep.now - 1

Past(d, now) == \A s \in OpenSinks(d) : d.writers[s].current.linked = "swept" => d.writers[s].current.minute < now - 1

DumpInv ==
  /\ wall \in Nat /\ count \in Nat /\ faults \in Nat /\ strayed = {}
  /\ DumpOk(dump, OpenSinks(dump), count)
  /\ Past(dump, NowMinute)
  /\ sweep # None => SweepOk

LEMMA OpenInt ==
  ASSUME NEW d, NEW n, DumpOk(d, OpenSinks(d), n), NEW s \in OpenSinks(d)
  PROVE  d.writers[s].current.minute \in Nat
  BY SinkFacts DEF DumpOk

LEMMA PastOn ==
  ASSUME NEW d, NEW n, DumpOk(d, OpenSinks(d), n), NEW e, NEW T, OpenSinks(e) \subseteq T,
         Onward(d, OpenSinks(d), e, T), NEW now, Past(d, now)
  PROVE  Past(e, now)
  BY DEF Past, Onward, Follows

LEMMA DumpPacketStep ==
  ASSUME DumpInv, DumpPacket
  PROVE  DumpInv' /\ Grows(dump, dump')
<1> USE DEF DumpInv
<1>1. PICK late \in Lags, wire \in Script[count + 1], io \in {"ok", "mkdir", "open", "write"} :
        /\ late <= wall /\ faults' = faults + (IF io = "ok" THEN 0 ELSE 1)
        /\ dump' = Write(dump, Packet(count + 1, wall - late, wire), io)
        /\ strayed' = LET p == Packet(count + 1, wall - late, wire)  s == p.source_id IN
             IF s \in OpenSinks(dump') /\ dump'.writers[s].current.linked = "swept" /\ RecordBody(p) \in ToSet(Buf(dump', s))
             THEN strayed \cup {p} ELSE strayed
  BY ZenonT(60) DEF DumpPacket
<1>2. count < Len(Script) /\ count' = count + 1 /\ sweep' = sweep /\ wall' = wall
  BY DEF DumpPacket
<1> PICK p, ts, n : p = Packet(n + 1, ts, wire) /\ ts = wall - late /\ n = count
  OBVIOUS
<1>3. late \in Nat /\ late <= MinuteTicks /\ MinuteTicks \in Nat /\ Len(Script) \in Nat /\ DOMAIN Script = 1..Len(Script)
  BY DumpAssumption
<1>4. ts \in Nat /\ wall <= ts + MinuteTicks /\ n + 1 \in 1..Len(Script) /\ n \in Nat
  BY <1>1, <1>2, <1>3
<1>5. p \in Written /\ p.id = n + 1 /\ p.timestamp_us = ts /\ p.source_id = wire.source_id
  <2>1. wire \in Wires
    BY <1>3, <1>4 DEF Wires
  <2>2. p \in Written
    BY <1>4, <2>1 DEF Written
  <2> QED  BY <2>2 DEF Packet
<1> PICK s, e : s = p.source_id /\ e = dump'
  OBVIOUS
<1>6. PICK T : DumpOk(e, T, n + 1) /\ Onward(dump, OpenSinks(dump), e, T) /\ \A t \in T : t = s => Placed(e, {t}, p)
  <2>1. e = Write(dump, p, io) /\ DumpOk(dump, OpenSinks(dump), n)
    BY <1>1
  <2> QED  BY <1>4, <1>5, <2>1, WriteKeeps
<1>7. OpenSinks(e) \subseteq T /\ DumpOk(e, OpenSinks(e), n + 1)
  BY <1>6, OnlyOpen
<1>8. Past(e, NowMinute)
  BY <1>6, <1>7, PastOn
<1>9. NowMinute \in Nat /\ NowMinute <= Minute(ts) + 1 /\ Minute(ts) \in Nat
  BY <1>4, MinuteFacts DEF NowMinute
<1>10. strayed' = {}
  <2> SUFFICES ASSUME s \in OpenSinks(e), e.writers[s].current.linked = "swept", RecordBody(p) \in ToSet(Buf(e, s))
               PROVE  FALSE
    BY <1>1
  <2>1. e.writers[s].current.minute >= Minute(ts)
    BY <1>5, <1>6, <1>7 DEF Placed
  <2>2. e.writers[s].current.minute < NowMinute - 1
    BY <1>8 DEF Past
  <2>3. e.writers[s].current.minute \in Nat
    BY <1>7, OpenInt
  <2> QED  BY <1>9, <2>1, <2>2, <2>3
<1>11. Grows(dump, e)
  BY <1>6 DEF Onward
<1>12. faults' \in Nat /\ count' \in Nat /\ wall' \in Nat /\ NowMinute' = NowMinute /\ count' = n + 1
  BY <1>1, <1>2 DEF NowMinute
<1>13. (sweep # None => SweepOk)'
  BY <1>2, <1>12 DEF SweepOk
<1> QED  BY <1>7, <1>8, <1>10, <1>11, <1>12, <1>13

LEMMA DumpFlushStep ==
  ASSUME DumpInv, DumpFlush
  PROVE  DumpInv' /\ Grows(dump, dump')
<1> PICK e : e = dump'
  OBVIOUS
<1>1. e = FlushAll(dump) /\ sweep' = sweep /\ wall' = wall /\ count' = count /\ strayed' = strayed /\ faults' = faults
  BY DEF DumpFlush
<1>2. DumpOk(dump, OpenSinks(dump), count) /\ Past(dump, NowMinute)
  BY DEF DumpInv
<1>3. DumpOk(e, OpenSinks(dump), count) /\ Onward(dump, OpenSinks(dump), e, OpenSinks(dump))
  BY <1>1, <1>2, FlushAllKeeps
<1>4. OpenSinks(e) \subseteq OpenSinks(dump) /\ DumpOk(e, OpenSinks(e), count)
  BY <1>3, OnlyOpen
<1>5. Past(e, NowMinute)
  BY <1>2, <1>3, <1>4, PastOn
<1>6. NowMinute' = NowMinute
  BY <1>1 DEF NowMinute
<1>7. (sweep # None => SweepOk)'
  BY <1>1, <1>6 DEF SweepOk, DumpInv
<1> QED  BY <1>1, <1>3, <1>4, <1>5, <1>6, <1>7 DEF DumpInv, Onward

LEMMA DumpCrashStep ==
  ASSUME DumpInv, DumpCrash
  PROVE  DumpInv' /\ Grows(dump, dump')
<1> PICK e : e = dump'
  OBVIOUS
<1>1. e = NewDumper(dump.disk, dump.dirs) /\ sweep' = None /\ wall' = wall /\ count' = count /\ strayed' = strayed
      /\ faults' = faults + 1
  BY DEF DumpCrash
<1>2. DumpOk(dump, OpenSinks(dump), count)
  BY DEF DumpInv
<1>3. DumpOk(e, {}, count) /\ e.disk = dump.disk
  BY <1>1, <1>2, RestartKeeps
<1>4. OpenSinks(e) = {} /\ DumpOk(e, OpenSinks(e), count)
  BY <1>3, OnlyOpen
<1>5. Past(e, NowMinute')
  BY <1>4 DEF Past
<1>6. Grows(dump, e)
  BY <1>2, <1>3, SameDiskGrows DEF DumpOk
<1> QED  BY <1>1, <1>4, <1>5, <1>6 DEF DumpInv

LEMMA DumpTickStep ==
  ASSUME DumpInv, DumpTick
  PROVE  DumpInv' /\ dump' = dump
<1>1. wall \in Nat /\ wall' = wall + 1 /\ dump' = dump /\ sweep' = sweep /\ count' = count /\ strayed' = strayed
      /\ faults' = faults
  BY DEF DumpTick, DumpInv
<1>2. NowMinute \in Nat /\ NowMinute' \in Nat /\ NowMinute <= NowMinute'
  BY <1>1, MinuteFacts DEF NowMinute
<1>3. Past(dump, NowMinute')
  <2> SUFFICES ASSUME NEW s \in OpenSinks(dump), dump.writers[s].current.linked = "swept"
               PROVE  dump.writers[s].current.minute < NowMinute' - 1
    BY DEF Past
  <2>1. dump.writers[s].current.minute \in Nat /\ dump.writers[s].current.minute < NowMinute - 1
    BY OpenInt DEF DumpInv, Past
  <2> QED  BY <1>2, <2>1
<1>4. (sweep # None => SweepOk)'
  BY <1>1, <1>2 DEF SweepOk, DumpInv
<1> QED  BY <1>1, <1>3, <1>4 DEF DumpInv, Past, OpenSinks

LEMMA ImageFinite ==
  ASSUME NEW S, IsFiniteSet(S), NEW f, f = [x \in S |-> f[x]]
  PROVE  IsFiniteSet({f[x] : x \in S})
<1> DEFINE T == {f[x] : x \in S}
<1>1. f \in Surjection(S, T)
  BY DEF Surjection
<1> HIDE DEF T
<1>2. IsFiniteSet(T)
  BY <1>1, FS_Surjection
<1> QED  BY <1>2 DEF T

LEMMA SweepListStep ==
  ASSUME DumpInv, SweepList
  PROVE  DumpInv' /\ dump' = dump
<1>1. sweep' = [phase |-> "age", now |-> NowMinute, candidates |-> Candidates]
      /\ dump' = dump /\ wall' = wall /\ count' = count /\ strayed' = strayed /\ faults' = faults
  BY DEF SweepList
<1>2. NowMinute \in Nat /\ NowMinute' = NowMinute
  BY <1>1, MinuteFacts DEF NowMinute, DumpInv
<1>3. IsFiniteSet(DOMAIN dump.disk) /\ \A f \in DOMAIN dump.disk : f.minute \in Nat /\ Len(dump.disk[f]) \in Nat
  <2>1. IsFiniteSet(DOMAIN dump.disk) /\ \A f \in DOMAIN dump.disk : f \in DumpFiles /\ dump.disk[f] \in Seq(Units)
    BY DEF DumpInv, DumpOk, DumpShape
  <2> QED  BY <2>1, FileFactsOf, LenProperties
<1>4. IsFiniteSet(Candidates)
  <2> DEFINE G == {g \in DOMAIN dump.disk : g.minute < RaceCutoff}
  <2>1. IsFiniteSet(G)
    BY <1>3, FS_Subset
  <2> PICK h : h = [f \in G |-> [file |-> f, size |-> Len(dump.disk[f])]]
    OBVIOUS
  <2>2. Candidates = {h[f] : f \in G} /\ h = [f \in G |-> h[f]]
    BY DEF Candidates
  <2> HIDE DEF G
  <2> QED  BY ONLY <2>1, <2>2, ImageFinite
<1>5. \A c \in Candidates : c.size \in Nat /\ c.file.minute \in Nat /\ c.file.minute < NowMinute - 1
  BY <1>3 DEF Candidates, RaceCutoff
<1>6. SweepOk'
  <2> PICK v : v = sweep'
    OBVIOUS
  <2>1. v = [phase |-> "age", now |-> NowMinute, candidates |-> Candidates]
    BY <1>1
  <2>2. v.now = NowMinute /\ v.candidates = Candidates
        /\ v = [phase |-> v.phase, now |-> v.now, candidates |-> v.candidates]
    BY ONLY <2>1
  <2> QED  BY <1>2, <1>4, <1>5, <2>2 DEF SweepOk
<1> QED  BY <1>1, <1>2, <1>6 DEF DumpInv

\* Files of the sweep's list go.
AllBefore(files, now) == now \in Nat /\ now <= NowMinute /\ \A f \in files : f.minute < now - 1

LEMMA SweptKeeps ==
  ASSUME DumpInv, NEW files, NEW now, AllBefore(files, now), NEW e, e = Unlink(dump, files, "swept")
  PROVE  DumpOk(e, OpenSinks(e), count) /\ Past(e, NowMinute)
         /\ DOMAIN e.disk = DOMAIN dump.disk \ files /\ \A f \in DOMAIN e.disk : e.disk[f] = dump.disk[f]
<1>1. /\ DumpOk(e, OpenSinks(dump), count)
      /\ DOMAIN e.disk = DOMAIN dump.disk \ files /\ \A f \in DOMAIN e.disk : e.disk[f] = dump.disk[f]
      /\ \A s \in OpenSinks(dump) :
           /\ e.writers[s].current.minute = dump.writers[s].current.minute
           /\ \/ e.writers[s].current.linked = dump.writers[s].current.linked
              \/ e.writers[s].current.linked = "swept" /\ File(s, dump.writers[s].current.minute) \in files
  <2> PICK by : by = "swept"
    OBVIOUS
  <2>1. by \in {"swept", "rm"} /\ e = Unlink(dump, files, by) /\ DumpOk(dump, OpenSinks(dump), count)
    BY DEF DumpInv
  <2> QED  BY <2>1, UnlinkKeeps
<1>2. OpenSinks(e) \subseteq OpenSinks(dump) /\ DumpOk(e, OpenSinks(e), count)
  BY <1>1, OnlyOpen
<1>3. NowMinute \in Nat
  BY MinuteFacts DEF DumpInv, NowMinute
<1>4. Past(e, NowMinute)
  <2> SUFFICES ASSUME NEW s \in OpenSinks(e), e.writers[s].current.linked = "swept"
               PROVE  e.writers[s].current.minute < NowMinute - 1
    BY DEF Past
  <2>1. s \in OpenSinks(dump) /\ e.writers[s].current.minute = dump.writers[s].current.minute
    BY <1>1, <1>2
  <2>2. CASE dump.writers[s].current.linked = "swept"
    BY <2>1, <2>2 DEF DumpInv, Past
  <2>3. CASE File(s, dump.writers[s].current.minute) \in files
    <3>1. File(s, dump.writers[s].current.minute).minute < now - 1
      BY <2>3 DEF AllBefore
    <3>2. File(s, dump.writers[s].current.minute).minute = dump.writers[s].current.minute
      BY DEF File
    <3>3. dump.writers[s].current.minute \in Nat
      BY <2>1, OpenInt DEF DumpInv
    <3> QED  BY <1>3, <2>1, <3>1, <3>2, <3>3 DEF AllBefore
  <2> QED  BY <1>1, <2>1, <2>2, <2>3
<1> QED  BY <1>1, <1>2, <1>4

LEMMA StuckFacts ==
  ASSUME NEW F, NEW bad \in Stuck(F)
  PROVE  IsFiniteSet(bad) /\ Cardinality(bad) \in Nat
<1>1. bad = {} \/ \E f : bad = {f}
  BY DEF Stuck
<1>2. CASE bad = {}
  BY <1>2, FS_EmptySet
<1>3. CASE \E f : bad = {f}
  <2>1. PICK f : bad = {f}
    BY <1>3
  <2>2. IsFiniteSet({f}) /\ Cardinality({f}) = 1
    BY FS_Singleton
  <2> QED  BY <2>1, <2>2
<1> QED  BY <1>1, <1>2, <1>3

LEMMA SweepAgeStep ==
  ASSUME DumpInv, SweepAge
  PROVE  /\ DumpInv' /\ (\A f \in DOMAIN dump'.disk : f \in DOMAIN dump.disk /\ dump'.disk[f] = dump.disk[f])
         /\ \A f \in DOMAIN dump.disk \ DOMAIN dump'.disk :
              f.minute < NowMinute - 1 /\ MaxAge > 0 /\ f.minute < NowMinute - MaxAge
<1>1. SweepOk
  BY DEF SweepAge, DumpInv
<1>2. PICK bad \in Stuck(Listed) :
         /\ dump' = Unlink(dump, {c.file : c \in Aged(bad)}, "swept")
         /\ sweep' = [sweep EXCEPT !.phase = "size", !.candidates = @ \ Aged(bad)]
         /\ faults' = faults + Cardinality(bad)
  BY Zenon DEF SweepAge
<1>3. wall' = wall /\ count' = count /\ strayed' = strayed
  BY DEF SweepAge
<1> PICK A, files, now : A = Aged(bad) /\ files = {c.file : c \in A} /\ now = sweep.now
  OBVIOUS
<1>4. \A f \in files : f.minute \in Nat /\ f.minute < now - 1 /\ MaxAge > 0 /\ f.minute < now - MaxAge
  BY <1>1 DEF SweepOk, Aged
<1>5. now \in Nat /\ now <= NowMinute /\ NowMinute \in Nat /\ MaxAge \in Nat
  BY <1>1, MinuteFacts, DumpAssumption DEF SweepOk, DumpInv, NowMinute
<1> PICK e : e = dump'
  OBVIOUS
<1>6. DumpOk(e, OpenSinks(e), count) /\ Past(e, NowMinute)
      /\ DOMAIN e.disk = DOMAIN dump.disk \ files /\ \A f \in DOMAIN e.disk : e.disk[f] = dump.disk[f]
  <2>1. e = Unlink(dump, files, "swept")
    BY <1>2
  <2>2. AllBefore(files, now)
    BY <1>5, <1>4 DEF AllBefore
  <2> QED  BY ONLY DumpInv, <2>1, <2>2, SweptKeeps
<1>7. NowMinute' = NowMinute /\ faults' \in Nat
  BY <1>2, <1>3, StuckFacts DEF NowMinute, DumpInv
<1>8. SweepOk'
  <2> PICK v, w, ph, cs : v = sweep' /\ w = sweep /\ ph = sweep.phase /\ cs = sweep.candidates
    OBVIOUS
  <2> PICK ds : ds = cs \ A
    OBVIOUS
  <2>1. w = [phase |-> ph, now |-> now, candidates |-> cs]
    BY <1>1 DEF SweepOk
  <2> PICK x : x = [w EXCEPT !.phase = "size"]
    OBVIOUS
  <2>2. x = [phase |-> "size", now |-> now, candidates |-> cs]
    BY ONLY <2>1, x = [w EXCEPT !.phase = "size"]
  <2>3. v = [w EXCEPT !.phase = "size", !.candidates = ds]
    BY <1>2
  <2>4. v = [x EXCEPT !.candidates = ds]
    BY ONLY <2>3, x = [w EXCEPT !.phase = "size"]
  <2>5. v = [phase |-> "size", now |-> now, candidates |-> ds]
    BY ONLY <2>2, <2>4
  <2>6. v.now = now /\ v.candidates = ds /\ v = [phase |-> v.phase, now |-> v.now, candidates |-> v.candidates]
    BY ONLY <2>5
  <2>7. IsFiniteSet(ds)
    BY <1>1, FS_Subset DEF SweepOk
  <2> QED  BY <1>1, <1>7, <2>6, <2>7 DEF SweepOk
<1>9. DumpInv'
  BY <1>3, <1>6, <1>7, <1>8 DEF DumpInv
<1> QED  BY <1>4, <1>5, <1>6, <1>9

\* The units of a list: finitely many, and no fewer than those of a part of it.
LEMMA SizeFacts ==
  ASSUME NEW B, IsFiniteSet(B), \A c \in B : c.size \in Nat, NEW A, A \subseteq B
  PROVE  TotalSize(A) \in Nat /\ TotalSize(B) \in Nat /\ TotalSize(A) <= TotalSize(B)
<1> DEFINE UU(X) == UNION {{c} \X (1..c.size) : c \in X}
<1>1. ASSUME NEW X, IsFiniteSet(X), \A c \in X : c.size \in Nat PROVE IsFiniteSet(UU(X))
  <2> PICK h : h = [c \in X |-> {c} \X (1..c.size)]
    OBVIOUS
  <2>1. {{c} \X (1..c.size) : c \in X} = {h[c] : c \in X} /\ h = [c \in X |-> h[c]]
    OBVIOUS
  <2>2. IsFiniteSet({h[c] : c \in X})
    BY ONLY <1>1, <2>1, ImageFinite
  <2>3. \A c \in X : IsFiniteSet({c} \X (1..c.size))
    <3> TAKE c \in X
    <3>1. IsFiniteSet({c}) /\ IsFiniteSet(1..c.size)
      <4>1. c.size \in Int /\ 1 \in Int
        BY <1>1
      <4> QED  BY <4>1, FS_Singleton, FS_Interval
    <3> QED  BY <3>1, FS_Product
  <2> PICK HH : HH = {h[c] : c \in X}
    OBVIOUS
  <2>4. \A t \in HH : IsFiniteSet(t)
    BY <2>3
  <2>5. IsFiniteSet(UNION HH)
    BY ONLY <2>2, <2>4, HH = {h[c] : c \in X}, FS_UNION
  <2> QED  BY <2>1, <2>5
<1>2. IsFiniteSet(A)
  BY FS_Subset
<1>3. IsFiniteSet(UU(A)) /\ IsFiniteSet(UU(B))
  BY <1>1, <1>2
<1>4. UU(A) \subseteq UU(B)
  OBVIOUS
<1>5. TotalSize(A) = Cardinality(UU(A)) /\ TotalSize(B) = Cardinality(UU(B))
  BY DEF TotalSize
<1> HIDE DEF UU
<1> QED  BY <1>3, <1>4, <1>5, FS_Subset, FS_CardinalityType

\* Of the files older than one that is evicted, only those that could not be
\* removed stay.
LEMMA OldestFirst ==
  ASSUME NEW cands, IsFiniteSet(cands), \A c \in cands : c.size \in Nat /\ c.file.minute \in Nat,
         NEW bad, NEW f \in Evicted(cands, bad), NEW y \in cands, y.file \notin bad, y.file.minute < f.minute
  PROVE  y.file \in Evicted(cands, bad)
<1>1. PICK x \in cands : /\ x.file = f
         /\ TotalSize(cands) - TotalSize({o \in cands : Older(o, x) /\ o.file \notin bad}) > SizeCap
  BY DEF Evicted
<1> PICK X, Y : X = {o \in cands : Older(o, x) /\ o.file \notin bad} /\ Y = {o \in cands : Older(o, y) /\ o.file \notin bad}
  OBVIOUS
<1>2. \A o \in cands : Older(o, y) => Older(o, x)
  BY <1>1 DEF Older
<1>3. Y \subseteq X /\ X \subseteq cands
  BY <1>2
<1>4. IsFiniteSet(X) /\ \A c \in X : c.size \in Nat
  BY <1>3, FS_Subset
<1>5. TotalSize(Y) \in Nat /\ TotalSize(X) \in Nat /\ TotalSize(Y) <= TotalSize(X)
  BY ONLY <1>3, <1>4, SizeFacts
<1>6. TotalSize(cands) \in Nat
  <2>1. \A c \in cands : c.size \in Nat
    OBVIOUS
  <2> QED  BY ONLY <1>3, <2>1, IsFiniteSet(cands), SizeFacts
<1>7. SizeCap \in Nat
  BY DumpAssumption
<1>8. TotalSize(cands) - TotalSize(Y) > SizeCap
  <2>1. TotalSize(cands) - TotalSize(X) > SizeCap
    BY <1>1
  <2> QED  BY ONLY <1>5, <1>6, <1>7, <2>1
<1> QED  BY <1>8 DEF Evicted

LEMMA SweepSizeStep ==
  ASSUME DumpInv, SweepSize
  PROVE  /\ DumpInv' /\ (\A f \in DOMAIN dump'.disk : f \in DOMAIN dump.disk /\ dump'.disk[f] = dump.disk[f])
         /\ \A f \in DOMAIN dump.disk \ DOMAIN dump'.disk :
              /\ f.minute < NowMinute - 1 /\ TotalSize(sweep.candidates) > SizeCap /\ SizeCap > 0
              /\ Cardinality({g \in Listed \cap DOMAIN dump'.disk : g.minute < f.minute}) <= faults' - faults
<1>1. SweepOk
  BY DEF SweepSize, DumpInv
<1> PICK cands, now, e : cands = sweep.candidates /\ now = sweep.now /\ e = dump'
  OBVIOUS
<1>2. PICK bad \in Stuck(Listed) :
         /\ dump' = Unlink(dump, IF SizeCap = 0 THEN {} ELSE Evicted(cands, bad), "swept")
         /\ faults' = faults + Cardinality(bad)
  BY DEF SweepSize
<1>3. wall' = wall /\ count' = count /\ strayed' = strayed /\ sweep' = None
  BY DEF SweepSize
<1> PICK files : files = IF SizeCap = 0 THEN {} ELSE Evicted(cands, bad)
  OBVIOUS
<1>4. IsFiniteSet(cands) /\ \A c \in cands : c.size \in Nat /\ c.file.minute \in Nat /\ c.file.minute < now - 1
  BY <1>1 DEF SweepOk
<1>5. now \in Nat /\ now <= NowMinute /\ NowMinute \in Nat /\ SizeCap \in Nat
  BY <1>1, MinuteFacts, DumpAssumption DEF SweepOk, DumpInv, NowMinute
<1>6. \A f \in files : f.minute < now - 1 /\ f.minute \in Nat
  <2> SUFFICES ASSUME NEW f \in files PROVE f.minute < now - 1 /\ f.minute \in Nat
    OBVIOUS
  <2>1. \E c \in cands : c.file = f
    BY DEF Evicted
  <2> QED  BY <1>4, <2>1
<1>7. DumpOk(e, OpenSinks(e), count) /\ Past(e, NowMinute)
      /\ DOMAIN e.disk = DOMAIN dump.disk \ files /\ \A f \in DOMAIN e.disk : e.disk[f] = dump.disk[f]
  <2>1. e = Unlink(dump, files, "swept")
    BY <1>2
  <2>2. AllBefore(files, now)
    BY <1>5, <1>6 DEF AllBefore
  <2> QED  BY ONLY DumpInv, <2>1, <2>2, SweptKeeps
<1>8. NowMinute' = NowMinute /\ faults' \in Nat
  BY <1>2, <1>3, StuckFacts DEF NowMinute, DumpInv
<1>9. DumpInv'
  BY <1>3, <1>7, <1>8 DEF DumpInv
<1>10. ASSUME NEW f \in DOMAIN dump.disk \ DOMAIN e.disk
       PROVE  /\ f.minute < NowMinute - 1 /\ TotalSize(cands) > SizeCap /\ SizeCap > 0
              /\ Cardinality({g \in Listed \cap DOMAIN e.disk : g.minute < f.minute}) <= faults' - faults
  <2>1. f \in files
    BY <1>7, <1>10
  <2>2. SizeCap > 0 /\ files = Evicted(cands, bad)
    BY <1>5, <2>1
  <2>3. f.minute < NowMinute - 1
    BY <1>5, <1>6, <2>1
  <2>4. TotalSize(cands) > SizeCap
    <3>1. PICK x \in cands : TotalSize(cands) - TotalSize({o \in cands : Older(o, x) /\ o.file \notin bad}) > SizeCap
      BY <2>1, <2>2 DEF Evicted
    <3> PICK X : X = {o \in cands : Older(o, x) /\ o.file \notin bad}
      OBVIOUS
    <3>2. X \subseteq cands /\ \A c \in cands : c.size \in Nat
      BY <1>4
    <3>3. TotalSize(X) \in Nat /\ TotalSize(cands) \in Nat
      BY ONLY <1>4, <3>2, SizeFacts
    <3>4. TotalSize(cands) - TotalSize(X) > SizeCap
      BY <3>1
    <3> QED  BY ONLY <1>5, <3>3, <3>4
  <2> PICK G : G = {g \in Listed \cap DOMAIN e.disk : g.minute < f.minute}
    OBVIOUS
  <2>5. G \subseteq bad
    <3> SUFFICES ASSUME NEW g \in G, g \notin bad PROVE FALSE
      OBVIOUS
    <3>1. g \in DOMAIN e.disk /\ g.minute < f.minute /\ \E y \in cands : y.file = g
      BY DEF Listed
    <3>2. PICK y \in cands : y.file = g
      BY <3>1
    <3>3. \A c \in cands : c.size \in Nat /\ c.file.minute \in Nat
      BY <1>4
    <3>4. y.file \notin bad /\ y.file.minute < f.minute /\ f \in Evicted(cands, bad)
      BY <2>1, <2>2, <3>1, <3>2
    <3>5. y.file \in Evicted(cands, bad)
      BY ONLY <1>4, <3>2, <3>3, <3>4, OldestFirst
    <3> QED  BY <1>7, <2>2, <3>1, <3>2, <3>5
  <2>6. Cardinality(G) <= Cardinality(bad) /\ Cardinality(bad) \in Nat /\ Cardinality(G) \in Nat
    BY <2>5, StuckFacts, FS_Subset, FS_CardinalityType
  <2>7. faults \in Nat
    BY DEF DumpInv
  <2> QED  BY <1>2, <2>2, <2>3, <2>4, <2>6, <2>7
<1> QED  BY ONLY <1>7, <1>9, <1>10, cands = sweep.candidates, e = dump'

LEMMA RemoveDirStep ==
  ASSUME DumpInv, RemoveDir
  PROVE  /\ DumpInv' /\ (\A f \in DOMAIN dump'.disk : f \in DOMAIN dump.disk /\ dump'.disk[f] = dump.disk[f])
         /\ \A f \in DOMAIN dump.disk \ DOMAIN dump'.disk : f.source \notin dump'.dirs
<1>1. PICK s \in dump.dirs :
        /\ dump' = [Unlink(dump, {f \in DOMAIN dump.disk : f.source = s}, "rm") EXCEPT !.dirs = @ \ {s}]
        /\ faults' = faults + 1 /\ sweep' = sweep /\ wall' = wall /\ count' = count /\ strayed' = strayed
  BY DEF RemoveDir
<1> PICK files, by, S, n : files = {f \in DOMAIN dump.disk : f.source = s} /\ by = "rm" /\ S = OpenSinks(dump) /\ n = count
  OBVIOUS
<1> PICK d, e : d = Unlink(dump, files, by) /\ e = dump'
  OBVIOUS
<1>2. DumpOk(dump, OpenSinks(dump), n) /\ Past(dump, NowMinute) /\ by \in {"swept", "rm"}
  BY DEF DumpInv
<1>3. /\ DumpOk(d, OpenSinks(dump), n) /\ d.dirs = dump.dirs
      /\ DOMAIN d.disk = DOMAIN dump.disk \ files /\ \A f \in DOMAIN d.disk : d.disk[f] = dump.disk[f]
      /\ \A t \in OpenSinks(dump) :
           /\ d.writers[t].current.minute = dump.writers[t].current.minute
           /\ \/ d.writers[t].current.linked = dump.writers[t].current.linked
              \/ d.writers[t].current.linked = by
  BY <1>2, UnlinkKeeps
<1>4. DumpShape(d, S) /\ DumpOnce(d, S, n)
  BY <1>3 DEF DumpOk
<1>5. PICK w, da, di, dr : /\ d = [writers |-> w, disabled |-> da, disk |-> di, dirs |-> dr]
                           /\ w = d.writers /\ da = d.disabled /\ di = d.disk /\ dr = d.dirs
  <2>1. DumpShape(d, S)
    BY <1>4
  <2> QED  BY ONLY <2>1, DumpParts
<1>6. e = [d EXCEPT !.dirs = @ \ {s}]
  BY <1>1
<1>7. e = [writers |-> w, disabled |-> da, disk |-> di, dirs |-> dr \ {s}]
  BY ONLY <1>5, <1>6
<1>8. /\ e.writers = w /\ e.disk = di /\ e.dirs = dr \ {s}
      /\ e = [writers |-> e.writers, disabled |-> e.disabled, disk |-> e.disk, dirs |-> e.dirs]
  BY ONLY <1>7
<1>9. DumpShape(e, S)
  BY ONLY <1>4, <1>5, <1>8 DEF DumpShape
<1>10. DumpOnce(e, S, n)
  BY ONLY <1>4, <1>5, <1>8 DEF DumpOnce, Buf
<1>11. OpenSinks(e) \subseteq S /\ DumpOk(e, OpenSinks(e), n)
  BY <1>9, <1>10, OnlyOpen DEF DumpOk
<1>12. Past(e, NowMinute)
  <2> SUFFICES ASSUME NEW t \in OpenSinks(e), e.writers[t].current.linked = "swept"
               PROVE  e.writers[t].current.minute < NowMinute - 1
    BY DEF Past
  <2>1. t \in OpenSinks(dump) /\ e.writers[t] = d.writers[t]
    BY <1>5, <1>8, <1>11
  <2>2. dump.writers[t].current.linked = "swept" /\ e.writers[t].current.minute = dump.writers[t].current.minute
    BY <1>3, <2>1
  <2> QED  BY <1>2, <2>1, <2>2 DEF Past
<1>13. NowMinute' = NowMinute
  BY <1>1 DEF NowMinute
<1>14. (sweep # None => SweepOk)'
  BY <1>1, <1>13 DEF SweepOk, DumpInv
<1>15. DumpInv'
  BY <1>1, <1>11, <1>12, <1>13, <1>14 DEF DumpInv
<1>16. DOMAIN e.disk = DOMAIN dump.disk \ files /\ \A f \in DOMAIN e.disk : e.disk[f] = dump.disk[f]
  BY ONLY <1>3, <1>5, <1>8
<1>17. \A f \in files : f.source = s /\ s \notin e.dirs
  BY <1>8
<1> QED  BY <1>15, <1>16, <1>17

LEMMA DumpStart ==
  ASSUME DumpInit
  PROVE  DumpInv
<1>1. DumpOk(dump, {}, 0) /\ OpenSinks(dump) = {}
  BY FreshDump DEF DumpInit
<1> QED  BY <1>1 DEF DumpInit, DumpInv, Past

\* The dumper, its files and the sweep keep to their rules: every record is in one
\* place, once (PacketDumper::write, flush_all), the list of a sweep holds files of
\* past minutes only, and no record is written to a file the sweep has taken.
THEOREM DumpInvariant == DumpSpec => []DumpInv
<1>1. DumpInit => DumpInv
  BY DumpStart
<1>2. DumpInv /\ [DumpNext]_dumpVars => DumpInv'
  <2> SUFFICES ASSUME DumpInv, [DumpNext]_dumpVars PROVE DumpInv'
    OBVIOUS
  <2>1. CASE UNCHANGED dumpVars
    BY <2>1 DEF dumpVars, DumpInv, NowMinute, SweepOk
  <2>2. CASE DumpNext
    BY <2>2, DumpPacketStep, DumpFlushStep, DumpCrashStep, RemoveDirStep, DumpTickStep, SweepListStep, SweepAgeStep,
       SweepSizeStep DEF DumpNext
  <2> QED  BY <2>1, <2>2
<1> QED  BY <1>1, <1>2, PTL DEF DumpSpec

-----------------------------------------------------------------------------
(* What a reader gets of a file: complete records, as many as there are in  *)
(* front of the first cut.                                                  *)

LEMMA HasMax ==
  ASSUME NEW N \in Nat, NEW S, S \subseteq 0..N, S # {}
  PROVE  \E m \in S : \A x \in S : x <= m
<1> DEFINE T == {N - x : x \in S}
<1>1. T \subseteq Nat /\ T # {}
  <2>1. \A x \in S : N - x \in Nat
    OBVIOUS
  <2>2. PICK x \in S : TRUE
    OBVIOUS
  <2> QED  BY <2>1, <2>2
<1> HIDE DEF T
<1>2. PICK m \in T : \A y \in T : ~(<<y, m>> \in OpToRel(<, Nat))
  BY <1>1, NatLessThanWellFounded, WFMin, Zenon
<1>3. \A y \in T : ~(y < m)
  BY <1>1, <1>2 DEF OpToRel
<1>4. PICK k \in S : m = N - k
  BY DEF T
<1>5. \A x \in S : N - x \in T
  BY DEF T
<1>6. \A x \in S : x <= k
  <2> TAKE x \in S
  <2>1. ~(N - x < N - k)
    BY <1>3, <1>4, <1>5
  <2>2. x \in Int /\ k \in Int
    OBVIOUS
  <2> QED  BY <2>1, <2>2
<1> QED  BY <1>4, <1>6

\* The first k records of q are complete.
Complete(q, k) ==
  /\ q # <<>> /\ q[1].kind = "header"
  /\ \A i \in 1..k : /\ 2 * i + 1 <= Len(q) /\ q[2 * i].kind = "head" /\ q[2 * i + 1].kind = "body"
                     /\ q[2 * i].pkt = q[2 * i + 1].pkt

Reads(q, n) ==
  /\ n \in Nat /\ Readable(q) = [i \in 1..n |-> q[2 * i + 1].pkt]
  /\ n # 0 => Complete(q, n)
  /\ \A k \in Nat : Complete(q, k) => k <= n

LEMMA ReadableIs ==
  ASSUME NEW q \in Seq(Units)
  PROVE  \E n : Reads(q, n)
<1>1. CASE q = <<>> \/ q[1].kind # "header"
  <2>1. Readable(q) = <<>>
    BY <1>1 DEF Readable
  <2>2. Readable(q) = [i \in 1..0 |-> q[2 * i + 1].pkt]
    BY <2>1
  <2>3. \A k \in Nat : ~Complete(q, k)
    BY <1>1 DEF Complete
  <2> QED  BY <2>2, <2>3 DEF Reads
<1>2. CASE ~(q = <<>> \/ q[1].kind # "header")
  <2> PICK u : u = Tail(q)
    OBVIOUS
  <2>1. /\ Len(q) \in Nat /\ Len(q) # 0 /\ u \in Seq(Units) /\ Len(u) = Len(q) - 1
        /\ \A i \in 1..Len(u) : u[i] = q[i + 1]
    BY <1>2, EmptySeq, HeadTailProperties, LenProperties
  <2> DEFINE S == {k \in 0..Len(u) : \A i \in 1..k : IsRecord(u, i)}
  <2>2. Readable(q) = [i \in 1..Max(S) |-> u[2 * i].pkt]
    BY <1>2 DEF Readable
  <2>3. \A i \in Nat \ {0} : IsRecord(u, i) <=> /\ 2 * i + 1 <= Len(q) /\ q[2 * i].kind = "head"
                                         /\ q[2 * i + 1].kind = "body" /\ q[2 * i].pkt = q[2 * i + 1].pkt
    <3> TAKE i \in Nat \ {0}
    <3>1. 2 * i <= Len(u) <=> 2 * i + 1 <= Len(q)
      BY <2>1
    <3>2. 2 * i <= Len(u) => u[2 * i - 1] = q[2 * i] /\ u[2 * i] = q[2 * i + 1]
      <4> SUFFICES ASSUME 2 * i <= Len(u) PROVE u[2 * i - 1] = q[2 * i] /\ u[2 * i] = q[2 * i + 1]
        OBVIOUS
      <4>1. 2 * i \in 1..Len(u) /\ 2 * i - 1 \in 1..Len(u) /\ (2 * i - 1) + 1 = 2 * i
        BY <2>1
      <4> QED  BY <2>1, <4>1
    <3> QED  BY <3>1, <3>2 DEF IsRecord
  <2>4. S \subseteq 0..Len(u) /\ 0 \in S /\ Len(u) \in Nat
    BY <2>1
  <2>5. PICK m \in S : \A x \in S : x <= m
    <3> HIDE DEF S
    <3> QED  BY <2>4, HasMax
  <2>6. Max(S) = m
    <3>1. S \subseteq Int
      BY <2>4
    <3> HIDE DEF S
    <3> QED  BY <2>5, <3>1, MaxIs
  <2>7. m \in Nat /\ \A i \in 1..m : IsRecord(u, i)
    BY <2>5
  <2>8. \A i \in 1..m : u[2 * i] = q[2 * i + 1]
    <3> TAKE i \in 1..m
    <3>1. IsRecord(u, i)
      BY <2>7
    <3>2. 2 * i \in 1..Len(u)
      BY <2>1, <2>7, <3>1 DEF IsRecord
    <3> QED  BY <2>1, <3>2
  <2>9. Readable(q) = [i \in 1..m |-> q[2 * i + 1].pkt]
    BY <2>2, <2>6, <2>8
  <2>10. Complete(q, m)
    <3>1. \A i \in 1..m : i \in Nat \ {0}
      BY <2>7
    <3> HIDE DEF S
    <3> QED  BY <1>2, <2>3, <2>7, <3>1 DEF Complete
  <2>11. ASSUME NEW k \in Nat, Complete(q, k) PROVE k <= m
    <3>1. \A i \in 1..k : IsRecord(u, i)
      <4> TAKE i \in 1..k
      <4>1. i \in Nat \ {0}
        OBVIOUS
      <4>2. /\ 2 * i + 1 <= Len(q) /\ q[2 * i].kind = "head" /\ q[2 * i + 1].kind = "body"
            /\ q[2 * i].pkt = q[2 * i + 1].pkt
        BY ONLY <2>11, i \in 1..k DEF Complete
      <4> QED  BY ONLY <2>3, <4>1, <4>2
    <3>2. k <= Len(u)
      <4>1. CASE k = 0
        BY <2>4, <4>1
      <4>2. CASE k # 0
        <5>1. 2 * k + 1 <= Len(q)
          BY <2>11, <4>2 DEF Complete
        <5> QED  BY <2>1, <2>11, <5>1
      <4> QED  BY <4>1, <4>2
    <3>3. k \in S
      BY <2>4, <2>11, <3>1, <3>2
    <3> QED  BY <2>5, <3>3
  <2> QED  BY <2>7, <2>9, <2>10, <2>11 DEF Reads
<1> QED  BY <1>1, <1>2

\* A longer file has the records of the shorter one first.
LEMMA ReadableGrows ==
  ASSUME NEW q \in Seq(Units), NEW r \in Seq(Units), Begins(q, r)
  PROVE  IsPrefix(Readable(q), Readable(r))
<1>1. PICK m : Reads(q, m)
  BY ReadableIs
<1>2. PICK n : Reads(r, n)
  BY ReadableIs
<1>0. Len(q) \in Nat /\ Len(r) \in Nat /\ m \in Nat /\ n \in Nat
  BY <1>1, <1>2, LenProperties DEF Reads
<1>3. \A i \in 1..m : r[2 * i + 1] = q[2 * i + 1] /\ r[2 * i] = q[2 * i] /\ 2 * i + 1 <= Len(r)
  <2> SUFFICES ASSUME NEW i \in 1..m PROVE r[2 * i + 1] = q[2 * i + 1] /\ r[2 * i] = q[2 * i] /\ 2 * i + 1 <= Len(r)
    OBVIOUS
  <2>1. 2 * i + 1 <= Len(q)
    BY <1>0, <1>1 DEF Reads, Complete
  <2>2. 2 * i + 1 \in 1..Len(q) /\ 2 * i \in 1..Len(q)
    BY <1>0, <2>1
  <2> QED  BY <1>0, <2>1, <2>2 DEF Begins
<1>4. m <= n
  <2>1. CASE m = 0
    BY <1>0, <2>1
  <2>2. CASE m # 0
    <3>1. Complete(q, m) /\ Len(q) # 0 /\ q # <<>>
      BY <1>1, <2>2, EmptySeq DEF Reads, Complete
    <3>2. r[1] = q[1] /\ r # <<>>
      BY <1>0, <3>1, EmptySeq DEF Begins
    <3>3. Complete(r, m)
      BY <1>3, <3>1, <3>2 DEF Complete
    <3> QED  BY <1>0, <1>2, <3>3 DEF Reads
  <2> QED  BY <2>1, <2>2
<1> PICK a, b : a = Readable(q) /\ b = Readable(r)
  OBVIOUS
<1>5. a = [i \in 1..m |-> q[2 * i + 1].pkt] /\ b = [i \in 1..n |-> r[2 * i + 1].pkt]
  BY <1>1, <1>2 DEF Reads
<1> PICK V : V = {q[2 * i + 1].pkt : i \in 1..m} \cup {r[2 * i + 1].pkt : i \in 1..n}
  OBVIOUS
<1>6. a \in Seq(V) /\ b \in Seq(V) /\ Len(a) = m /\ Len(b) = n
  BY <1>0, <1>5
<1>7. \A i \in 1..m : b[i] = a[i]
  BY <1>0, <1>3, <1>4, <1>5
<1>8. SubSeq(a, 1, m) = SubSeq(b, 1, m)
  <2>1. SubSeq(a, 1, m) = [i \in 1..m |-> a[i]] /\ SubSeq(b, 1, m) = [i \in 1..m |-> b[i]]
    BY <1>0, <1>4, <1>6
  <2> QED  BY <1>7, <2>1
<1> QED  BY <1>4, <1>6, <1>8 DEF IsPrefix

LEMMA ReadableKept ==
  ASSUME NEW d, NEW S, DumpShape(d, S), NEW e, NEW T, DumpShape(e, T), NEW f \in DOMAIN d.disk, f \in DOMAIN e.disk,
         Begins(d.disk[f], e.disk[f])
  PROVE  IsPrefix(Readable(d.disk[f]), Readable(e.disk[f]))
<1>1. d.disk[f] \in Seq(Units) /\ e.disk[f] \in Seq(Units)
  BY DEF DumpShape
<1> QED  BY <1>1, ReadableGrows

\* What RecordsKept says of one step.
StepKeeps ==
  /\ strayed' = {}
  /\ \A f \in DOMAIN dump.disk :
       IF f \in DOMAIN dump'.disk THEN IsPrefix(Readable(dump.disk[f]), Readable(dump'.disk[f]))
       ELSE \/ f.source \notin dump'.dirs
            \/ /\ f.minute < NowMinute - 1
               /\ \/ MaxAge > 0 /\ f.minute < NowMinute - MaxAge
                  \/ /\ TotalSize(sweep.candidates) > SizeCap /\ SizeCap > 0
                     /\ Cardinality({g \in Listed \cap DOMAIN dump'.disk : g.minute < f.minute}) <= faults' - faults

LEMMA GrowingKeeps ==
  ASSUME DumpInv, DumpInv', Grows(dump, dump')
  PROVE  StepKeeps
<1> PICK e, n, S, T : e = dump' /\ n = count' /\ S = OpenSinks(dump) /\ T = OpenSinks(dump')
  OBVIOUS
<1>1. DumpShape(dump, S) /\ DumpShape(e, T) /\ strayed' = {}
  BY DEF DumpInv, DumpOk
<1>2. \A f \in DOMAIN dump.disk : f \in DOMAIN e.disk /\ IsPrefix(Readable(dump.disk[f]), Readable(e.disk[f]))
  BY <1>1, ReadableKept DEF Grows
<1> QED  BY <1>1, <1>2 DEF StepKeeps

LEMMA SameIsPrefix ==
  ASSUME DumpInv, NEW f \in DOMAIN dump.disk
  PROVE  IsPrefix(Readable(dump.disk[f]), Readable(dump.disk[f]))
<1>1. DumpShape(dump, OpenSinks(dump))
  BY DEF DumpInv, DumpOk
<1>2. Begins(dump.disk[f], dump.disk[f])
  BY <1>1, OnwardSelf DEF Onward, Grows
<1> QED  BY <1>1, <1>2, ReadableKept

\* A record that could be read stays readable until its file goes, a file goes only
\* by hand or by a rule of run_sweep, the oldest first, and no record is written to a
\* file the sweep has taken (RecordsKept), whatever the packets, the sizes, the limits
\* and the faults.
THEOREM RecordsAreKept == DumpSpec => RecordsKept
<1>1. DumpInv /\ DumpInv' /\ [DumpNext]_dumpVars => [StepKeeps]_dumpVars
  <2> SUFFICES ASSUME DumpInv, DumpInv', DumpNext PROVE StepKeeps
    BY DEF dumpVars
  <2>0. strayed' = {}
    BY DEF DumpInv
  <2>1. CASE DumpPacket \/ DumpFlush \/ DumpCrash
    BY <2>1, DumpPacketStep, DumpFlushStep, DumpCrashStep, GrowingKeeps
  <2>2. CASE DumpTick \/ SweepList
    BY <2>0, <2>2, DumpTickStep, SweepListStep, SameIsPrefix DEF StepKeeps
  <2>3. CASE RemoveDir
    BY <2>0, <2>3, RemoveDirStep, SameIsPrefix DEF StepKeeps
  <2>4. CASE SweepAge
    BY <2>0, <2>4, SweepAgeStep, SameIsPrefix DEF StepKeeps
  <2>5. CASE SweepSize
    BY <2>0, <2>5, SweepSizeStep, SameIsPrefix DEF StepKeeps
  <2> QED  BY <2>1, <2>2, <2>3, <2>4, <2>5 DEF DumpNext
<1> QED  BY <1>1, DumpInvariant, PTL DEF DumpSpec, RecordsKept, StepKeeps

-----------------------------------------------------------------------------
(* The merge: of the files' next records the smallest, until none is left.  *)

LEMMA HasMin ==
  ASSUME NEW S, S \subseteq Nat, S # {}
  PROVE  \E m \in S : \A x \in S : m <= x
<1>1. PICK m \in S : \A y \in S : ~(<<y, m>> \in OpToRel(<, Nat))
  BY NatLessThanWellFounded, WFMin, Zenon
<1>2. \A y \in S : ~(y < m)
  BY <1>1 DEF OpToRel
<1>3. \A y \in S : m <= y
  BY <1>2
<1> QED  BY <1>3

LEMMA UpTo ==
  ASSUME NEW N \in Nat, NEW S, 0 \in S, \A n \in 0..(N - 1) : n \in S => n + 1 \in S
  PROVE  \A n \in 0..N : n \in S
<1>1. SUFFICES ASSUME NEW k \in 0..N, k \notin S PROVE FALSE
  OBVIOUS
<1> DEFINE T == {n \in 0..N : n \notin S}
<1>2. PICK m \in T : \A y \in T : ~(<<y, m>> \in OpToRel(<, Nat))
  <2>1. T \subseteq Nat /\ T # {}
    BY <1>1
  <2> HIDE DEF T
  <2> QED  BY <2>1, NatLessThanWellFounded, WFMin, Zenon
<1>3. m # 0 /\ m - 1 \in 0..(N - 1)
  OBVIOUS
<1>4. m - 1 \in T
  BY <1>3
<1>5. \A y \in T : ~(y < m)
  <2> TAKE y \in T
  <2>1. y \in Nat /\ m \in Nat
    OBVIOUS
  <2> HIDE DEF T
  <2> QED  BY <1>2, <2>1 DEF OpToRel
<1>6. ~(m - 1 < m)
  BY <1>4, <1>5
<1> QED  BY <1>6

\* Records to merge: where each is, <<minute, position>>, and its stamp.
Mergeable(found) ==
  /\ IsFiniteSet(DOMAIN found) /\ DOMAIN found \subseteq Nat \X Nat
  /\ \A x \in DOMAIN found : found[x].timestamp_us \in Nat

FirstOf(found, left) == CHOOSE x \in Heads(left) : \A y \in Heads(left) : Precedes(found, x, y)

LEMMA HeadBelow ==
  ASSUME NEW left, left \subseteq Nat \X Nat, NEW y \in left
  PROVE  \E h \in Heads(left) : h[1] = y[1] /\ h[2] <= y[2]
<1> DEFINE F == {z \in left : z[1] = y[1]}
           S == {z[2] : z \in F}
<1>0. \A z \in left : z[1] \in Nat /\ z[2] \in Nat
  OBVIOUS
<1>1. S \subseteq Nat /\ S # {} /\ y[2] \in S
  BY <1>0
<1>2. PICK m \in S : \A x \in S : m <= x
  <2> HIDE DEF S
  <2> QED  BY <1>1, HasMin
<1>3. PICK h \in F : h[2] = m
  OBVIOUS
<1>4. \A z \in left : z[1] = h[1] => h[2] <= z[2]
  <2> TAKE z \in left
  <2> HAVE z[1] = h[1]
  <2>1. z \in F
    BY <1>3
  <2>2. z[2] \in S
    BY <2>1
  <2> QED  BY <1>2, <1>3, <2>2
<1>5. h \in Heads(left)
  BY <1>3, <1>4 DEF Heads
<1>6. h[2] <= y[2]
  BY <1>1, <1>2, <1>3
<1> QED  BY <1>3, <1>5, <1>6

LEMMA FirstIs ==
  ASSUME NEW found, Mergeable(found), NEW left, left \subseteq DOMAIN found, left # {}
  PROVE  FirstOf(found, left) \in left /\ \A y \in Heads(left) : Precedes(found, FirstOf(found, left), y)
<1> PICK H : H = Heads(left)
  OBVIOUS
<1>1. left \subseteq Nat \X Nat /\ H \subseteq left
  BY DEF Mergeable, Heads
<1>2. \A z \in H : z[1] \in Nat /\ found[z].timestamp_us \in Nat
  BY <1>1 DEF Mergeable
<1>3. H # {}
  <2>1. PICK y \in left : TRUE
    OBVIOUS
  <2> QED  BY <1>1, <2>1, HeadBelow
<1> DEFINE TS == {found[z].timestamp_us : z \in H}
<1>4. PICK t \in TS : \A x \in TS : t <= x
  <2>1. TS \subseteq Nat /\ TS # {}
    BY <1>2, <1>3
  <2> HIDE DEF TS
  <2> QED  BY <2>1, HasMin
<1> DEFINE E == {z \in H : found[z].timestamp_us = t}
           MS == {z[1] : z \in E}
<1>5. PICK m \in MS : \A x \in MS : m <= x
  <2>1. MS \subseteq Nat /\ MS # {}
    BY <1>2, <1>4
  <2> HIDE DEF MS
  <2> QED  BY <2>1, HasMin
<1>6. PICK x \in E : x[1] = m
  OBVIOUS
<1>7. \A y \in H : Precedes(found, x, y)
  <2> TAKE y \in H
  <2>1. found[y].timestamp_us \in TS /\ found[y].timestamp_us \in Nat /\ t \in Nat
    BY <1>2
  <2>2. t <= found[y].timestamp_us
    BY <1>4, <2>1
  <2>3. CASE t < found[y].timestamp_us
    BY <1>6, <2>3 DEF Precedes
  <2>4. CASE t = found[y].timestamp_us
    <3>1. y[1] \in MS
      BY <2>4
    <3>2. x[1] <= y[1]
      BY <1>5, <1>6, <3>1
    <3> QED  BY <1>6, <2>4, <3>2 DEF Precedes
  <2> HIDE DEF TS
  <2> QED  BY <2>1, <2>2, <2>3, <2>4
<1>8. \E z \in H : \A y \in H : Precedes(found, z, y)
  BY <1>6, <1>7
<1>9. FirstOf(found, left) \in H /\ \A y \in H : Precedes(found, FirstOf(found, left), y)
  BY ONLY <1>8, H = Heads(left) DEF FirstOf
<1> QED  BY <1>1, <1>9

\* The recursive definition of Merged has a solution, so it is one.
LEMMA MergedDef ==
  ASSUME NEW found, Cardinality(DOMAIN found) \in Nat
  PROVE  Merged(found) = [n \in 0..Cardinality(DOMAIN found) |->
            IF n = 0 THEN [out |-> <<>>, left |-> DOMAIN found] ELSE MergeStep(found, Merged(found)[n - 1])]
<1> PICK N : N = Cardinality(DOMAIN found)
  OBVIOUS
<1> DEFINE B(f, n) == IF n = 0 THEN [out |-> <<>>, left |-> DOMAIN found] ELSE MergeStep(found, f[n - 1])
           S == {k \in 0..N : \E f : f = [n \in 0..k |-> B(f, n)]}
<1>1. 0 \in S
  <2> DEFINE f == [n \in 0..0 |-> [out |-> <<>>, left |-> DOMAIN found]]
  <2>1. f = [n \in 0..0 |-> B(f, n)]
    OBVIOUS
  <2>2. 0 \in 0..N
    OBVIOUS
  <2> HIDE DEF f
  <2> QED  BY <2>1, <2>2
<1>2. ASSUME NEW k \in 0..(N - 1), k \in S PROVE k + 1 \in S
  <2>1. PICK f : f = [n \in 0..k |-> B(f, n)]
    BY <1>2
  <2> DEFINE g == [n \in 0..(k + 1) |-> IF n = k + 1 THEN B(f, k + 1) ELSE f[n]]
  <2>2. ASSUME NEW n \in 0..(k + 1) PROVE g[n] = B(g, n)
    <3>1. CASE n = 0
      BY <3>1, <2>1
    <3>2. CASE n # 0
      <4>1. n - 1 \in 0..k /\ g[n - 1] = f[n - 1]
        BY <3>2
      <4>2. g[n] = B(f, n)
        BY <3>2, <2>1
      <4> QED  BY <3>2, <4>1, <4>2
    <3> QED  BY <3>1, <3>2
  <2>3. g = [n \in 0..(k + 1) |-> B(g, n)]
    BY <2>2
  <2>4. k + 1 \in 0..N
    OBVIOUS
  <2> HIDE DEF g
  <2> QED  BY <2>3, <2>4
<1>3. N \in S
  <2>1. N \in Nat /\ N \in 0..N
    OBVIOUS
  <2> HIDE DEF S
  <2>2. \A n \in 0..N : n \in S
    BY <1>1, <1>2, <2>1, UpTo
  <2> QED  BY <2>1, <2>2
<1>4. \E f : f = [n \in 0..Cardinality(DOMAIN found) |-> B(f, n)]
  BY <1>3
<1> QED  BY <1>4, Zenon DEF Merged

\* What is out is what is no longer left, each once; when every file is in order,
\* what is out is in order and not after what is left.
FilesOrdered(found) ==
  \A x, y \in DOMAIN found : x[1] = y[1] /\ x[2] <= y[2] => found[x].timestamp_us <= found[y].timestamp_us

MergeOk(found, out, left, n) ==
  /\ left \subseteq DOMAIN found /\ Cardinality(left) = Cardinality(DOMAIN found) - n
  /\ out \in Seq({found[x] : x \in DOMAIN found}) /\ Len(out) = n
  /\ \A i \in 1..n : \E x \in DOMAIN found \ left : out[i] = found[x]
  /\ \A x \in DOMAIN found \ left : \E i \in 1..n : out[i] = found[x]
  /\ \A i, j \in 1..n : out[i] = out[j] => i = j
  /\ FilesOrdered(found) =>
       /\ \A i, j \in 1..n : i < j => out[i].timestamp_us <= out[j].timestamp_us
       /\ \A i \in 1..n, y \in left : out[i].timestamp_us <= found[y].timestamp_us

Distinct(found) == \A x, y \in DOMAIN found : found[x] = found[y] => x = y

LEMMA MergeStepOk ==
  ASSUME NEW found, Mergeable(found), Distinct(found), NEW out, NEW left, NEW n \in Nat,
         n < Cardinality(DOMAIN found), MergeOk(found, out, left, n), NEW x, x = FirstOf(found, left)
  PROVE  MergeOk(found, Append(out, found[x]), left \ {x}, n + 1)
<1> PICK D, N, V : D = DOMAIN found /\ N = Cardinality(D) /\ V = {found[z] : z \in D}
  OBVIOUS
<1>1. left \subseteq D /\ Cardinality(left) = N - n /\ IsFiniteSet(D) /\ IsFiniteSet(left) /\ N \in Nat
  BY FS_Subset, FS_CardinalityType DEF MergeOk, Mergeable
<1>2. left # {}
  BY <1>1, FS_EmptySet
<1>3. x \in left /\ \A y \in Heads(left) : Precedes(found, x, y)
  BY <1>1, <1>2, FirstIs
<1> PICK v, q, r : v = found[x] /\ q = Append(out, v) /\ r = left \ {x}
  OBVIOUS
<1>4. v \in V /\ out \in Seq(V) /\ Len(out) = n
  BY <1>1, <1>3 DEF MergeOk
<1>5. q \in Seq(V) /\ Len(q) = n + 1 /\ q[n + 1] = v /\ \A i \in 1..n : q[i] = out[i]
  BY <1>4, AppendProperties
<1>6. r \subseteq D /\ Cardinality(r) = N - (n + 1)
  <2>1. Cardinality(r) = Cardinality(left) - 1
    BY <1>1, <1>3, FS_RemoveElement
  <2> QED  BY <1>1, <2>1
<1>7. D \ r = (D \ left) \cup {x}
  BY <1>1, <1>3
<1>8. \A i \in 1..n : \E z \in D \ left : out[i] = found[z]
  BY DEF MergeOk
<1>9. \A i \in 1..(n + 1) : i \in 1..n \/ i = n + 1
  OBVIOUS
<1>10. \A i \in 1..(n + 1) : \E z \in D \ r : q[i] = found[z]
  <2> TAKE i \in 1..(n + 1)
  <2>1. CASE i \in 1..n
    BY <1>5, <1>7, <1>8, <2>1
  <2>2. CASE i = n + 1
    BY <1>5, <1>7, <2>2
  <2> QED  BY <1>9, <2>1, <2>2
<1>11. \A z \in D \ r : \E i \in 1..(n + 1) : q[i] = found[z]
  <2> TAKE z \in D \ r
  <2>1. CASE z = x
    <3>1. n + 1 \in 1..(n + 1)
      OBVIOUS
    <3> QED  BY <1>5, <2>1, <3>1
  <2>2. CASE z \in D \ left
    <3>1. PICK i \in 1..n : out[i] = found[z]
      BY <2>2 DEF MergeOk
    <3>2. i \in 1..(n + 1)
      OBVIOUS
    <3> QED  BY <1>5, <3>1, <3>2
  <2> QED  BY <1>7, <2>1, <2>2
<1>12. \A i \in 1..n : out[i] # v
  <2> TAKE i \in 1..n
  <2>1. PICK z \in D \ left : out[i] = found[z]
    BY <1>8
  <2> QED  BY <1>1, <1>3, <2>1 DEF Distinct
<1>13. \A i, j \in 1..(n + 1) : q[i] = q[j] => i = j
  <2> TAKE i, j \in 1..(n + 1)
  <2>1. CASE i \in 1..n /\ j \in 1..n
    BY <1>5, <2>1 DEF MergeOk
  <2>2. CASE i \in 1..n /\ j = n + 1
    BY <1>5, <1>12, <2>2
  <2>3. CASE i = n + 1 /\ j \in 1..n
    BY <1>5, <1>12, <2>3
  <2> QED  BY <1>9, <2>1, <2>2, <2>3
<1>14. ASSUME FilesOrdered(found)
       PROVE  /\ \A i, j \in 1..(n + 1) : i < j => q[i].timestamp_us <= q[j].timestamp_us
              /\ \A i \in 1..(n + 1), y \in r : q[i].timestamp_us <= found[y].timestamp_us
  <2>1. /\ \A i, j \in 1..n : i < j => out[i].timestamp_us <= out[j].timestamp_us
        /\ \A i \in 1..n, y \in left : out[i].timestamp_us <= found[y].timestamp_us
    BY <1>14 DEF MergeOk
  <2>2. \A y \in left : v.timestamp_us <= found[y].timestamp_us
    <3> TAKE y \in left
    <3>1. left \subseteq Nat \X Nat
      BY <1>1 DEF Mergeable
    <3>2. PICK h \in Heads(left) : h[1] = y[1] /\ h[2] <= y[2]
      BY <3>1, HeadBelow
    <3>3. h \in D /\ y \in D /\ x \in D
      BY <1>1, <1>3, <3>2 DEF Heads
    <3>4. found[h].timestamp_us <= found[y].timestamp_us
      BY <1>14, <3>2, <3>3 DEF FilesOrdered
    <3>5. v.timestamp_us <= found[h].timestamp_us
      <4>1. Precedes(found, x, h) /\ found[h].timestamp_us \in Nat /\ v.timestamp_us \in Nat
        BY <1>3, <3>2, <3>3 DEF Mergeable
      <4> QED  BY <4>1 DEF Precedes
    <3>6. found[h].timestamp_us \in Nat /\ v.timestamp_us \in Nat /\ found[y].timestamp_us \in Nat
      BY <3>3 DEF Mergeable
    <3> QED  BY <3>4, <3>5, <3>6
  <2>3. \A i, j \in 1..(n + 1) : i < j => q[i].timestamp_us <= q[j].timestamp_us
    <3> TAKE i, j \in 1..(n + 1)
    <3> HAVE i < j
    <3>1. i \in 1..n
      OBVIOUS
    <3>2. CASE j \in 1..n
      BY <1>5, <2>1, <3>1, <3>2
    <3>3. CASE j = n + 1
      BY <1>3, <1>5, <2>1, <3>1, <3>3
    <3> QED  BY <1>9, <3>2, <3>3
  <2>4. \A i \in 1..(n + 1), y \in r : q[i].timestamp_us <= found[y].timestamp_us
    <3> TAKE i \in 1..(n + 1), y \in r
    <3>0. y \in left
      OBVIOUS
    <3>1. CASE i \in 1..n
      BY <1>5, <2>1, <3>0, <3>1
    <3>2. CASE i = n + 1
      BY <1>5, <2>2, <3>0, <3>2
    <3> QED  BY <1>9, <3>1, <3>2
  <2> QED  BY <2>3, <2>4
<1>15. MergeOk(found, q, r, n + 1)
  BY ONLY <1>5, <1>6, <1>10, <1>11, <1>13, <1>14, D = DOMAIN found, N = Cardinality(D), V = {found[z] : z \in D} DEF MergeOk
<1> QED  BY <1>15

LEMMA MergeIs ==
  ASSUME NEW found, Mergeable(found), Distinct(found)
  PROVE  LET out == Merged(found)[Cardinality(DOMAIN found)].out IN
         /\ \A i, j \in DOMAIN out : out[i] = out[j] => i = j
         /\ \A i \in DOMAIN out : \E x \in DOMAIN found : out[i] = found[x]
         /\ \A x \in DOMAIN found : \E i \in DOMAIN out : out[i] = found[x]
         /\ FilesOrdered(found) => Sorted(out)
<1> PICK D, N, M : D = DOMAIN found /\ N = Cardinality(D) /\ M = Merged(found)
  OBVIOUS
<1>1. N \in Nat /\ IsFiniteSet(D)
  BY FS_CardinalityType DEF Mergeable
<1>2. M = [n \in 0..N |-> IF n = 0 THEN [out |-> <<>>, left |-> D] ELSE MergeStep(found, M[n - 1])]
  <2>1. Cardinality(DOMAIN found) \in Nat
    BY <1>1
  <2> QED  BY <2>1, MergedDef
<1> DEFINE S == {n \in 0..N : MergeOk(found, M[n].out, M[n].left, n)}
<1>3. 0 \in S
  <2>1. M[0] = [out |-> <<>>, left |-> D]
    BY <1>1, <1>2
  <2>2. M[0].out = <<>> /\ M[0].left = D
    BY <2>1
  <2>3. <<>> \in Seq({found[x] : x \in D}) /\ Len(<<>>) = 0
    OBVIOUS
  <2>4. MergeOk(found, <<>>, D, 0)
    BY <1>1, <2>3 DEF MergeOk
  <2> QED  BY <1>1, <2>2, <2>4
<1>4. ASSUME NEW k \in 0..(N - 1), k \in S PROVE k + 1 \in S
  <2> PICK a, x : a = M[k] /\ x = FirstOf(found, a.left)
    OBVIOUS
  <2>1. k + 1 \in 0..N /\ (k + 1) - 1 = k /\ k + 1 # 0 /\ k \in Nat /\ k < N
    BY <1>1
  <2>2. M[k + 1] = MergeStep(found, a)
    BY <1>2, <2>1
  <2>3. M[k + 1] = [out |-> Append(a.out, found[x]), left |-> a.left \ {x}]
    BY <2>2 DEF MergeStep, FirstOf
  <2>4. M[k + 1].out = Append(a.out, found[x]) /\ M[k + 1].left = a.left \ {x}
    BY ONLY <2>3
  <2> PICK o, l : o = a.out /\ l = a.left
    OBVIOUS
  <2>5. MergeOk(found, o, l, k)
    BY <1>4
  <2>6. MergeOk(found, Append(o, found[x]), l \ {x}, k + 1)
    BY ONLY Mergeable(found), Distinct(found), <2>1, <2>5, N = Cardinality(D), D = DOMAIN found,
            x = FirstOf(found, a.left), l = a.left, MergeStepOk
  <2> QED  BY <2>1, <2>4, <2>6
<1>5. MergeOk(found, M[N].out, M[N].left, N)
  <2>1. N \in 0..N
    BY <1>1
  <2> HIDE DEF S
  <2>2. \A n \in 0..N : n \in S
    BY <1>1, <1>3, <1>4, UpTo
  <2> QED  BY <2>1, <2>2 DEF S
<1> PICK out, left : out = M[N].out /\ left = M[N].left
  OBVIOUS
<1>6. MergeOk(found, out, left, N)
  BY <1>5
<1>7. left = {}
  <2>1. left \subseteq D /\ Cardinality(left) = N - N
    BY <1>6 DEF MergeOk
  <2> QED  BY <1>1, <2>1, FS_Subset, FS_EmptySet
<1>8. DOMAIN out = 1..N
  BY <1>6, LenProperties DEF MergeOk
<1>9. /\ \A i, j \in DOMAIN out : out[i] = out[j] => i = j
      /\ \A i \in DOMAIN out : \E x \in DOMAIN found : out[i] = found[x]
      /\ \A x \in DOMAIN found : \E i \in DOMAIN out : out[i] = found[x]
      /\ FilesOrdered(found) => Sorted(out)
  BY ONLY <1>6, <1>7, <1>8 DEF MergeOk, Sorted
<1> QED  BY <1>9

-----------------------------------------------------------------------------
(* What prepare and stream_extract select, and what comes out of the merge. *)

Recs(k, req, m) == Readable(k[File(req.source_id, m)])

LEMMA FoundIs ==
  ASSUME NEW k, NEW req
  PROVE  /\ \A x : x \in DOMAIN Found(k, req) <=>
                     \E m \in CandidateMinutes(k, req) : \E i \in DOMAIN Recs(k, req, m) :
                        x = <<m, i>> /\ Matches(req, Recs(k, req, m)[i])
         /\ \A x \in DOMAIN Found(k, req) : Found(k, req)[x] = Recs(k, req, x[1])[x[2]]
<1> DEFINE sel == UNION {{<<m, i>> : i \in {j \in DOMAIN Recs(k, req, m) : Matches(req, Recs(k, req, m)[j])}} :
                           m \in CandidateMinutes(k, req)}
<1>1. Found(k, req) = [x \in sel |-> Recs(k, req, x[1])[x[2]]]
  BY DEF Found, Recs
<1>2. \A x : x \in sel <=> \E m \in CandidateMinutes(k, req) : \E i \in DOMAIN Recs(k, req, m) :
                             x = <<m, i>> /\ Matches(req, Recs(k, req, m)[i])
  OBVIOUS
<1> HIDE DEF sel
<1> QED  BY <1>1, <1>2

\* The records of the files on disk.
LEMMA RecordFacts ==
  ASSUME NEW d, NEW S, NEW n, DumpOk(d, S, n), NEW f \in DOMAIN d.disk
  PROVE  /\ \E c \in Nat : DOMAIN Readable(d.disk[f]) = 1..c
         /\ \A i \in DOMAIN Readable(d.disk[f]) :
              /\ Readable(d.disk[f])[i] \in Written
              /\ Readable(d.disk[f])[i].id \in BodyIds(d.disk[f])
         /\ \A i, j \in DOMAIN Readable(d.disk[f]) : Readable(d.disk[f])[i] = Readable(d.disk[f])[j] => i = j
<1> PICK q, r : q = d.disk[f] /\ r = Readable(d.disk[f])
  OBVIOUS
<1>1. q \in Seq(Units) /\ Single(q)
  BY DEF DumpOk, DumpShape, DumpOnce, Good
<1>2. PICK c : Reads(q, c)
  BY <1>1, ReadableIs
<1>3. c \in Nat /\ r = [i \in 1..c |-> q[2 * i + 1].pkt] /\ DOMAIN r = 1..c /\ Len(q) \in Nat /\ DOMAIN q = 1..Len(q)
  BY <1>1, <1>2, LenProperties DEF Reads
<1>4. \A i \in 1..c : 2 * i + 1 \in DOMAIN q /\ q[2 * i + 1].kind = "body" /\ r[i] = q[2 * i + 1].pkt
  <2> TAKE i \in 1..c
  <2>1. 2 * i + 1 <= Len(q) /\ q[2 * i + 1].kind = "body"
    BY <1>2, <1>3 DEF Reads, Complete
  <2> QED  BY <1>3, <2>1
<1>5. \A i \in 1..c : r[i] \in Written /\ r[i].id \in BodyIds(q)
  <2> TAKE i \in 1..c
  <2>1. q[2 * i + 1] \in Units
    BY <1>1, <1>4, ElementOfSeq, <1>3
  <2>2. q[2 * i + 1].pkt \in Written
    BY <1>4, <2>1, UnitFacts
  <2>3. q[2 * i + 1].pkt.id \in BodyIds(q)
    BY <1>4 DEF BodyIds
  <2> QED  BY <1>4, <2>2, <2>3
<1>6. \A i, j \in 1..c : r[i] = r[j] => i = j
  <2> TAKE i, j \in 1..c
  <2> HAVE r[i] = r[j]
  <2> PICK a, b : a = 2 * i + 1 /\ b = 2 * j + 1
    OBVIOUS
  <2>1. a \in DOMAIN q /\ b \in DOMAIN q /\ q[a].kind = "body" /\ q[b].kind = "body" /\ q[a].pkt = q[b].pkt
    BY <1>4
  <2>2. a = b
    BY <1>1, <2>1 DEF Single
  <2> QED  BY <1>3, <2>2
<1>7. \E z \in Nat : DOMAIN r = 1..z
  BY <1>3
<1> QED  BY <1>3, <1>5, <1>6, <1>7

LEMMA RecordsApart ==
  ASSUME NEW d, NEW S, NEW n, DumpOk(d, S, n), NEW f \in DOMAIN d.disk, NEW g \in DOMAIN d.disk, f # g,
         NEW i \in DOMAIN Readable(d.disk[f]), NEW j \in DOMAIN Readable(d.disk[g])
  PROVE  Readable(d.disk[f])[i] # Readable(d.disk[g])[j]
<1>1. Readable(d.disk[f])[i].id \in BodyIds(d.disk[f]) /\ Readable(d.disk[g])[j].id \in BodyIds(d.disk[g])
  BY RecordFacts
<1>2. Apart(d.disk[f], d.disk[g])
  BY DEF DumpOk, DumpOnce
<1> QED  BY <1>1, <1>2 DEF Apart

LEMMA FoundMerges ==
  ASSUME NEW d, NEW S, NEW n, DumpOk(d, S, n), NEW req \in Requests
  PROVE  Mergeable(Found(d.disk, req)) /\ Distinct(Found(d.disk, req))
<1> PICK k, F, C : k = d.disk /\ F = Found(d.disk, req) /\ C = CandidateMinutes(d.disk, req)
  OBVIOUS
<1>1. /\ \A x : x \in DOMAIN F <=> \E m \in C : \E i \in DOMAIN Recs(k, req, m) : x = <<m, i>> /\ Matches(req, Recs(k, req, m)[i])
      /\ \A x \in DOMAIN F : F[x] = Recs(k, req, x[1])[x[2]]
  BY FoundIs
<1>2. Minute(req.start_us) \in Nat /\ Minute(req.end_us) \in Nat
  BY MinuteFacts, DumpAssumption
<1>3. IsFiniteSet(C) /\ C \subseteq Nat /\ \A m \in C : File(req.source_id, m) \in DOMAIN k
  <2> PICK a, b : a = Minute(req.start_us) /\ b = Minute(req.end_us)
    OBVIOUS
  <2>1. C \subseteq a..b /\ a \in Int /\ b \in Int
    BY <1>2 DEF CandidateMinutes
  <2>2. IsFiniteSet(a..b)
    BY <2>1, FS_Interval
  <2>3. IsFiniteSet(C)
    BY <2>1, <2>2, FS_Subset
  <2> QED  BY <1>2, <2>1, <2>3 DEF CandidateMinutes
<1>4. \A m \in C : /\ \E c \in Nat : DOMAIN Recs(k, req, m) = 1..c
                   /\ \A i \in DOMAIN Recs(k, req, m) : Recs(k, req, m)[i] \in Written
                   /\ \A i, j \in DOMAIN Recs(k, req, m) : Recs(k, req, m)[i] = Recs(k, req, m)[j] => i = j
  BY <1>3, RecordFacts, ZenonT(60) DEF Recs
<1>5. \A x \in DOMAIN F : x[1] \in C /\ x[2] \in DOMAIN Recs(k, req, x[1]) /\ x = <<x[1], x[2]>>
  BY <1>1
<1>6. DOMAIN F \subseteq Nat \X Nat
  <2> SUFFICES ASSUME NEW x \in DOMAIN F PROVE x \in Nat \X Nat
    OBVIOUS
  <2>1. x[1] \in Nat
    BY <1>3, <1>5
  <2>2. PICK c \in Nat : DOMAIN Recs(k, req, x[1]) = 1..c
    BY <1>4, <1>5
  <2>3. x[2] \in Nat
    BY <1>5, <2>2
  <2> QED  BY <1>5, <2>1, <2>3
<1>7. IsFiniteSet(DOMAIN F)
  <2> PICK h : h = [m \in C |-> {m} \X DOMAIN Recs(k, req, m)]
    OBVIOUS
  <2> PICK HH : HH = {h[m] : m \in C}
    OBVIOUS
  <2>1. IsFiniteSet(HH)
    <3>1. h = [m \in C |-> h[m]]
      OBVIOUS
    <3> QED  BY ONLY <1>3, <3>1, HH = {h[m] : m \in C}, ImageFinite
  <2>2. \A m \in C : IsFiniteSet({m} \X DOMAIN Recs(k, req, m))
    <3> TAKE m \in C
    <3>1. PICK c \in Nat : DOMAIN Recs(k, req, m) = 1..c
      BY <1>4
    <3>2. IsFiniteSet({m}) /\ IsFiniteSet(1..c)
      <4>1. c \in Int /\ 1 \in Int
        OBVIOUS
      <4>2. IsFiniteSet({m})
        BY FS_Singleton
      <4> QED  BY <4>1, <4>2, FS_Interval
    <3> QED  BY <3>1, <3>2, FS_Product
  <2>3. \A t \in HH : IsFiniteSet(t)
    BY <2>2
  <2>4. IsFiniteSet(UNION HH)
    BY ONLY <2>1, <2>3, FS_UNION
  <2>5. DOMAIN F \subseteq UNION HH
    <3> SUFFICES ASSUME NEW x \in DOMAIN F PROVE x \in UNION HH
      OBVIOUS
    <3>1. x \in {x[1]} \X DOMAIN Recs(k, req, x[1]) /\ x[1] \in C
      BY <1>5
    <3>2. h[x[1]] \in HH /\ h[x[1]] = {x[1]} \X DOMAIN Recs(k, req, x[1])
      BY <3>1
    <3> QED  BY <3>1, <3>2
  <2> QED  BY <2>4, <2>5, FS_Subset
<1>8. \A x \in DOMAIN F : F[x].timestamp_us \in Nat
  BY <1>1, <1>4, <1>5, UnitFacts
<1>9. Distinct(F)
  <2> SUFFICES ASSUME NEW x \in DOMAIN F, NEW y \in DOMAIN F, F[x] = F[y] PROVE x = y
    BY DEF Distinct
  <2> PICK a, b, i, j : a = x[1] /\ b = y[1] /\ i = x[2] /\ j = y[2]
    OBVIOUS
  <2>1. a \in C /\ b \in C /\ i \in DOMAIN Recs(k, req, a) /\ j \in DOMAIN Recs(k, req, b)
        /\ Recs(k, req, a)[i] = Recs(k, req, b)[j] /\ x = <<a, i>> /\ y = <<b, j>>
    BY <1>1, <1>5
  <2>2. CASE a = b
    BY <1>4, <2>1, <2>2
  <2>3. CASE a # b
    <3>1. File(req.source_id, a) # File(req.source_id, b)
      BY <2>3 DEF File
    <3>2. File(req.source_id, a) \in DOMAIN d.disk /\ File(req.source_id, b) \in DOMAIN d.disk
      BY <1>3, <2>1
    <3>3. Readable(d.disk[File(req.source_id, a)])[i] # Readable(d.disk[File(req.source_id, b)])[j]
      BY <2>1, <3>1, <3>2, RecordsApart DEF Recs
    <3> QED  BY <2>1, <3>3 DEF Recs
  <2> QED  BY <2>2, <2>3
<1> QED  BY <1>6, <1>7, <1>8, <1>9 DEF Mergeable

LEMMA ExtractIs ==
  ASSUME DumpInv
  PROVE  ExtractExact
<1> SUFFICES ASSUME NEW req \in Requests
             PROVE  LET out == Extract(dump.disk, req)
                        right == {x \in OnDisk : x.file.source = req.source_id /\ Matches(req, x.pkt)}
                    IN /\ \A i, j \in DOMAIN out : out[i] = out[j] => i = j
                       /\ {x.pkt : x \in {y \in right : y.file.minute = Minute(y.pkt.timestamp_us)}} \subseteq ToSet(out)
                       /\ ToSet(out) \subseteq {x.pkt : x \in right}
                       /\ (\A f \in DOMAIN dump.disk : Sorted(Readable(dump.disk[f]))) => Sorted(out)
  BY DEF ExtractExact
<1> PICK k, F, C, out : k = dump.disk /\ F = Found(dump.disk, req) /\ C = CandidateMinutes(dump.disk, req)
                        /\ out = Extract(dump.disk, req)
  OBVIOUS
<1> DEFINE right == {x \in OnDisk : x.file.source = req.source_id /\ Matches(req, x.pkt)}
<1>1. DumpOk(dump, OpenSinks(dump), count)
  BY DEF DumpInv
<1>2. Mergeable(F) /\ Distinct(F)
  BY <1>1, FoundMerges
<1>3. /\ \A i, j \in DOMAIN out : out[i] = out[j] => i = j
      /\ \A i \in DOMAIN out : \E x \in DOMAIN F : out[i] = F[x]
      /\ \A x \in DOMAIN F : \E i \in DOMAIN out : out[i] = F[x]
      /\ FilesOrdered(F) => Sorted(out)
  BY <1>2, MergeIs DEF Extract
<1>4. /\ \A x : x \in DOMAIN F <=> \E m \in C : \E i \in DOMAIN Recs(k, req, m) : x = <<m, i>> /\ Matches(req, Recs(k, req, m)[i])
      /\ \A x \in DOMAIN F : F[x] = Recs(k, req, x[1])[x[2]]
  BY FoundIs
<1>5. \A f \in DOMAIN k : /\ f \in DumpFiles
                          /\ \A i \in DOMAIN Readable(k[f]) : Readable(k[f])[i] \in Written
  <2>1. \A f \in DOMAIN k : f \in DumpFiles
    BY <1>1 DEF DumpOk, DumpShape
  <2> QED  BY <1>1, <2>1, RecordFacts
<1>6. req.start_us \in Nat /\ req.end_us \in Nat
  BY DumpAssumption
<1>7. ASSUME NEW y \in right, y.file.minute = Minute(y.pkt.timestamp_us) PROVE y.pkt \in ToSet(out)
  <2>0. PICK f \in DOMAIN k : \E i \in DOMAIN Readable(k[f]) : y = [file |-> f, pkt |-> Readable(k[f])[i]]
    BY <1>7 DEF OnDisk
  <2>1. PICK i \in DOMAIN Readable(k[f]) : y = [file |-> f, pkt |-> Readable(k[f])[i]]
    BY <2>0
  <2> PICK p, m : p = Readable(k[f])[i] /\ m = f.minute
    OBVIOUS
  <2>2. y.file = f /\ y.pkt = p
    BY <2>1
  <2>3. f.source = req.source_id /\ Matches(req, p) /\ m = Minute(p.timestamp_us)
    BY <1>7, <2>2
  <2>4. f = File(req.source_id, m) /\ m \in Nat
    BY <1>5, <2>3, FileFactsOf, Zenon
  <2>5. p.timestamp_us \in Nat /\ req.start_us <= p.timestamp_us /\ p.timestamp_us <= req.end_us
    BY <1>5, <2>3, UnitFacts DEF Matches
  <2>6. m \in Minute(req.start_us)..Minute(req.end_us)
    <3>1. Minute(req.start_us) <= m /\ m <= Minute(req.end_us) /\ Minute(req.start_us) \in Nat /\ Minute(req.end_us) \in Nat
      BY <1>6, <2>3, <2>5, MinuteFacts
    <3> QED  BY <2>4, <3>1
  <2>7. m \in C
    BY <2>4, <2>6 DEF CandidateMinutes
  <2>8. i \in DOMAIN Recs(k, req, m) /\ Recs(k, req, m)[i] = p
    BY <2>4 DEF Recs
  <2>9. <<m, i>> \in DOMAIN F /\ F[<<m, i>>] = p
    BY <1>4, <2>3, <2>7, <2>8
  <2> QED  BY <1>3, <2>2, <2>9 DEF ToSet
<1>8. ASSUME NEW j \in DOMAIN out PROVE \E y \in right : y.pkt = out[j]
  <2>1. PICK x \in DOMAIN F : out[j] = F[x]
    BY <1>3
  <2>0. PICK m \in C : \E i \in DOMAIN Recs(k, req, m) : x = <<m, i>> /\ Matches(req, Recs(k, req, m)[i])
    BY <1>4
  <2>2. PICK i \in DOMAIN Recs(k, req, m) : x = <<m, i>> /\ Matches(req, Recs(k, req, m)[i])
    BY <2>0
  <2> PICK f, p : f = File(req.source_id, m) /\ p = Recs(k, req, m)[i]
    OBVIOUS
  <2>3. f \in DOMAIN k /\ f.source = req.source_id
    BY <2>2 DEF CandidateMinutes, File
  <2>4. i \in DOMAIN Readable(k[f]) /\ p = Readable(k[f])[i] /\ out[j] = p /\ Matches(req, p)
    BY <1>4, <2>1, <2>2 DEF Recs
  <2> PICK y : y = [file |-> f, pkt |-> p]
    OBVIOUS
  <2>5. y.file = f /\ y.pkt = p
    OBVIOUS
  <2>6. y \in OnDisk
    BY <2>3, <2>4 DEF OnDisk
  <2> QED  BY <2>3, <2>4, <2>5, <2>6
<1>9. ASSUME \A f \in DOMAIN k : Sorted(Readable(k[f])) PROVE FilesOrdered(F)
  <2> SUFFICES ASSUME NEW x \in DOMAIN F, NEW y \in DOMAIN F, x[1] = y[1], x[2] <= y[2]
               PROVE  F[x].timestamp_us <= F[y].timestamp_us
    BY DEF FilesOrdered
  <2>1. F[x].timestamp_us \in Nat /\ F[y].timestamp_us \in Nat /\ x \in Nat \X Nat /\ y \in Nat \X Nat
    BY <1>2 DEF Mergeable
  <2>2. CASE x[2] = y[2]
    <3>1. x = y
      BY <2>1, <2>2
    <3> QED  BY <2>1, <3>1
  <2>3. CASE x[2] # y[2]
    <3> PICK m, i, j : m = x[1] /\ i = x[2] /\ j = y[2]
      OBVIOUS
    <3>1. m \in C /\ i \in DOMAIN Recs(k, req, m) /\ j \in DOMAIN Recs(k, req, m)
          /\ F[x] = Recs(k, req, m)[i] /\ F[y] = Recs(k, req, m)[j]
      BY <1>4
    <3>2. i < j
      BY <2>1, <2>3
    <3>3. Sorted(Recs(k, req, m))
      BY <1>9, <3>1 DEF Recs, CandidateMinutes
    <3> QED  BY <3>1, <3>2, <3>3 DEF Sorted
  <2> QED  BY <2>2, <2>3
<1>10. {x.pkt : x \in {y \in right : y.file.minute = Minute(y.pkt.timestamp_us)}} \subseteq ToSet(out)
  BY <1>7
<1>11. ToSet(out) \subseteq {x.pkt : x \in right}
  <2> SUFFICES ASSUME NEW v \in ToSet(out) PROVE v \in {x.pkt : x \in right}
    OBVIOUS
  <2>1. PICK j \in DOMAIN out : v = out[j]
    BY DEF ToSet
  <2>2. PICK y \in right : y.pkt = v
    BY <1>8, <2>1
  <2> HIDE DEF right
  <2> QED  BY <2>2
<1>12. (\A f \in DOMAIN k : Sorted(Readable(k[f]))) => Sorted(out)
  BY <1>3, <1>9
<1> HIDE DEF right
<1> QED  BY <1>3, <1>10, <1>11, <1>12 DEF right

\* Extraction (h-pcap-extract's prepare, list_candidate_files and MergeIter) returns
\* exactly the records it is asked for, each once, in order where they arrived in
\* order, and retention removes what its rules name and nothing else: at any moment
\* of the writer, the sweep and the faults, for any script and any requests.
THEOREM TheDumpIsFaithful == DumpSpec => DumpFaithful
<1>1. DumpInv => ExtractExact
  BY ExtractIs
<1>2. DumpSpec => []ExtractExact
  BY <1>1, DumpInvariant, PTL
<1> QED  BY <1>2, RecordsAreKept, PTL DEF DumpFaithful

=============================================================================
