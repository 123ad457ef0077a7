--------------------------- MODULE ProtocolProofs ---------------------------
(***************************************************************************)
(* Proofs about the protocol stage.  The reassembly of one direction of a  *)
(* TCP connection, for every stream, segmentation and order of arrival.    *)
(* Then the flow table and the joiner, for any number of sources and       *)
(* connections, any bounds and any timeouts with                           *)
(* FlowTimeout + CleanupInterval =< PendingStale: the joiner's exchanges   *)
(* are whole, both sweeps collect what they should, silence never loses a  *)
(* response being read, and sources do not affect each other.              *)
(***************************************************************************)
EXTENDS TcpReassembly, FlowJoin, TLAPS, FiniteSetTheorems, WellFoundedInduction, SequenceTheorems

-----------------------------------------------------------------------------
(* Sequence numbers: within half the number space, positions of the stream  *)
(* can be read off them.                                                    *)

LEMMA ModIs ==
  ASSUME NEW S \in Nat \ {0}, NEW x \in Int
  PROVE  /\ 0 =< x /\ x < S => x % S = x
         /\ S =< x /\ x < 2 * S => x % S = x - S
         /\ -S =< x /\ x < 0 => x % S = x + S
  OBVIOUS

LEMMA SeqNumIs ==
  ASSUME isn \in SeqNums, NEW q \in 0..(StreamLen + 1)
  PROVE  /\ SeqNum(q) = IF isn + q < Space THEN isn + q ELSE isn + q - Space
         /\ SeqNum(q) \in SeqNums
<1>1. isn \in Nat /\ isn < Space /\ q \in Nat /\ 2 * q < Space /\ Space \in Nat \ {0}
  BY SeqAssumption, StreamAssumption DEF SeqNums
<1>2. isn + q \in Int /\ 0 =< isn + q /\ isn + q < 2 * Space
  BY <1>1
<1>3. (isn + q) % Space = IF isn + q < Space THEN isn + q ELSE isn + q - Space
  <2>1. PICK x \in Int : x = isn + q
    BY <1>1, <1>2
  <2>2. PICK S \in Nat \ {0} : S = Space
    BY <1>1
  <2>3. /\ 0 =< x /\ x < S => x % S = x
        /\ S =< x /\ x < 2 * S => x % S = x - S
        /\ -S =< x /\ x < 0 => x % S = x + S
    BY ModIs
  <2> QED  BY <1>1, <1>2, <2>1, <2>2, <2>3
<1> QED  BY <1>1, <1>2, <1>3 DEF SeqNum, WrappingAdd, SeqNums

LEMMA DiffIs ==
  ASSUME isn \in SeqNums, NEW p \in 0..(StreamLen + 1), NEW q \in 0..(StreamLen + 1)
  PROVE  SeqDiff(SeqNum(p), SeqNum(q)) = p - q
<1>1. isn \in Nat /\ isn < Space /\ p \in Nat /\ q \in Nat /\ 2 * p < Space /\ 2 * q < Space
      /\ Space \in Nat \ {0}
  BY SeqAssumption, StreamAssumption DEF SeqNums
<1> DEFINE a == SeqNum(p)
           b == SeqNum(q)
<1>2. /\ a = IF isn + p < Space THEN isn + p ELSE isn + p - Space
      /\ b = IF isn + q < Space THEN isn + q ELSE isn + q - Space
  BY SeqNumIs
<1> HIDE DEF a, b
<1>3. a \in Int /\ b \in Int /\ a - b \in {p - q, p - q + Space, p - q - Space} /\ -Space < a - b /\ a - b < Space
  BY <1>1, <1>2
<1>4. (a - b) % Space = IF a - b < 0 THEN a - b + Space ELSE a - b
  <2>1. PICK x \in Int : x = a - b
    BY <1>1, <1>3
  <2>2. PICK S \in Nat \ {0} : S = Space
    BY <1>1
  <2>3. /\ 0 =< x /\ x < S => x % S = x
        /\ S =< x /\ x < 2 * S => x % S = x - S
        /\ -S =< x /\ x < 0 => x % S = x + S
    BY ModIs
  <2> QED  BY <1>1, <1>3, <2>1, <2>2, <2>3
<1>5. (a - b) % Space = IF p - q < 0 THEN p - q + Space ELSE p - q
  BY <1>1, <1>3, <1>4
<1> QED  BY <1>1, <1>5 DEF SeqDiff, a, b

LEMMA AddIs ==
  ASSUME isn \in SeqNums, NEW p \in 0..(StreamLen + 1), NEW n \in Nat, p + n =< StreamLen + 1
  PROVE  WrappingAdd(SeqNum(p), n) = SeqNum(p + n)
<1>1. isn \in Nat /\ isn < Space /\ p \in Nat /\ 2 * (p + n) < Space /\ Space \in Nat \ {0}
      /\ p + n \in 0..(StreamLen + 1)
  BY SeqAssumption, StreamAssumption DEF SeqNums
<1> DEFINE a == SeqNum(p)
           b == SeqNum(p + n)
<1>2. /\ a = IF isn + p < Space THEN isn + p ELSE isn + p - Space
      /\ b = IF isn + (p + n) < Space THEN isn + (p + n) ELSE isn + (p + n) - Space
  BY <1>1, SeqNumIs
<1> HIDE DEF a, b
<1>3. a \in Nat /\ a + n \in Int /\ 0 =< a + n /\ a + n < 2 * Space
  BY <1>1, <1>2
<1>4. (a + n) % Space = IF a + n < Space THEN a + n ELSE a + n - Space
  <2>1. PICK x \in Int : x = a + n
    BY <1>1, <1>3
  <2>2. PICK S \in Nat \ {0} : S = Space
    BY <1>1
  <2>3. /\ 0 =< x /\ x < S => x % S = x
        /\ S =< x /\ x < 2 * S => x % S = x - S
        /\ -S =< x /\ x < 0 => x % S = x + S
    BY ModIs
  <2> QED  BY <1>1, <1>3, <2>1, <2>2, <2>3
<1>5. (a + n) % Space = b
  BY <1>1, <1>2, <1>3, <1>4
<1> QED  BY <1>5 DEF WrappingAdd, a, b

-----------------------------------------------------------------------------
(* A direction that holds a run of the stream.                              *)

Ends == 1..(StreamLen + 1)

\* A held segment is a piece of the stream under the number of its first byte.
Piece(s, bytes) ==
    \E p \in Positions, l \in 1..StreamLen :
        p + l =< StreamLen + 1 /\ s = SeqNum(p) /\ bytes = BytesOf(p, l)

\* The buffer is the stream from b up to n, and n is expected.
Running(d, b, n) ==
    /\ b \in Ends /\ n \in Ends /\ b =< n
    /\ d = [buf |-> d.buf, next |-> d.next, ooo |-> d.ooo]
    /\ d.buf = BytesOf(b, n - b)
    /\ d.next = SeqNum(n)
    /\ IsFiniteSet(DOMAIN d.ooo)
    /\ \A s \in DOMAIN d.ooo : Piece(s, d.ooo[s])

LEMMA BytesAre ==
  ASSUME NEW p \in Nat, NEW l \in Nat
  PROVE  /\ BytesOf(p, l) \in Seq(Int) /\ Len(BytesOf(p, l)) = l
         /\ \A i \in 1..l : BytesOf(p, l)[i] = p + i - 1
         /\ Range(BytesOf(p, l)) = p..(p + l - 1)
<1>1. BytesOf(p, l) \in [1..l -> Int] /\ DOMAIN BytesOf(p, l) = 1..l
  BY DEF BytesOf
<1>2. BytesOf(p, l) \in Seq(Int) /\ Len(BytesOf(p, l)) = l
  BY <1>1
<1>3. \A i \in 1..l : BytesOf(p, l)[i] = p + i - 1
  BY DEF BytesOf
<1>4. Range(BytesOf(p, l)) = {BytesOf(p, l)[i] : i \in 1..l}
  BY <1>1 DEF Range
<1>5. ASSUME NEW q \in p..(p + l - 1) PROVE q \in Range(BytesOf(p, l))
  <2>1. q - p + 1 \in 1..l /\ BytesOf(p, l)[q - p + 1] = q
    BY <1>3
  <2> QED  BY <1>4, <2>1
<1>6. Range(BytesOf(p, l)) \subseteq p..(p + l - 1)
  BY <1>3, <1>4
<1> QED  BY <1>2, <1>3, <1>5, <1>6

\* What a later segment adds continues the run.
LEMMA BytesJoin ==
  ASSUME NEW b \in Nat, NEW n \in Nat, NEW p \in Nat, NEW l \in Nat, b =< n, p =< n, n < p + l
  PROVE  BytesOf(b, n - b) \o SubSeq(BytesOf(p, l), n - p + 1, l) = BytesOf(b, (p + l) - b)
<1> DEFINE x == BytesOf(b, n - b)
           y == BytesOf(p, l)
           z == BytesOf(b, (p + l) - b)
           t == SubSeq(y, n - p + 1, l)
<1>1. n - b \in Nat /\ (p + l) - b \in Nat /\ n - p + 1 \in 1..l /\ l - (n - p) \in Nat
  OBVIOUS
<1>2. /\ x \in Seq(Int) /\ Len(x) = n - b /\ (\A i \in 1..(n - b) : x[i] = b + i - 1)
      /\ y \in Seq(Int) /\ Len(y) = l /\ (\A i \in 1..l : y[i] = p + i - 1)
      /\ z \in Seq(Int) /\ Len(z) = (p + l) - b /\ (\A i \in 1..((p + l) - b) : z[i] = b + i - 1)
  BY <1>1, BytesAre
<1> HIDE DEF x, y, z
<1>3. /\ t \in Seq(Int) /\ Len(t) = l - (n - p)
      /\ \A i \in 1..(l - (n - p)) : t[i] = y[(n - p + 1) + i - 1]
  BY <1>1, <1>2
<1>4. \A i \in 1..(l - (n - p)) : t[i] = n + i - 1
  <2> TAKE i \in 1..(l - (n - p))
  <2>1. (n - p + 1) + i - 1 \in 1..l
    BY <1>1
  <2> QED  BY <1>2, <1>3, <2>1
<1> HIDE DEF t
<1>5. /\ x \o t \in Seq(Int) /\ Len(x \o t) = Len(x) + Len(t)
      /\ \A i \in 1..(Len(x) + Len(t)) : (x \o t)[i] = IF i =< Len(x) THEN x[i] ELSE t[i - Len(x)]
  BY <1>2, <1>3, ConcatProperties
<1>6. Len(x) + Len(t) = (p + l) - b
  BY <1>2, <1>3
<1>8. ASSUME NEW i \in 1..((p + l) - b) PROVE (x \o t)[i] = z[i]
  <2>0. i \in 1..(Len(x) + Len(t)) /\ z[i] = b + i - 1
    BY <1>2, <1>6
  <2>1. CASE i =< n - b
    <3>1. i \in 1..(n - b) /\ (x \o t)[i] = x[i]
      BY <1>2, <1>5, <2>0, <2>1
    <3> QED  BY <1>2, <2>0, <3>1
  <2>2. CASE ~(i =< n - b)
    <3>1. (x \o t)[i] = t[i - (n - b)]
      BY <1>2, <1>5, <2>0, <2>2
    <3>2. i - (n - b) \in 1..(l - (n - p))
      BY <1>1, <2>2
    <3>3. t[i - (n - b)] = n + (i - (n - b)) - 1
      BY <1>4, <3>2
    <3>4. n + (i - (n - b)) - 1 = b + i - 1
      BY <1>1
    <3> QED  BY <2>0, <3>1, <3>3, <3>4
  <2> QED  BY <2>1, <2>2
<1>7. x \o t = z
  BY <1>2, <1>5, <1>6, <1>8, SeqEqual
<1> QED  BY <1>7 DEF x, y, z, t

LEMMA RunningFacts ==
  ASSUME NEW d, NEW b, NEW n, Running(d, b, n), isn \in SeqNums
  PROVE  /\ b \in Nat /\ n \in Nat /\ 1 =< b /\ b =< n /\ n =< StreamLen + 1 /\ StreamLen \in Nat
         /\ n \in 0..(StreamLen + 1)
         /\ d.buf \in Seq(Int) /\ Len(d.buf) = n - b /\ Range(d.buf) = b..(n - 1)
<1>1. b \in Nat /\ n \in Nat /\ 1 =< b /\ b =< n /\ n =< StreamLen + 1 /\ StreamLen \in Nat /\ n - b \in Nat
  BY StreamAssumption DEF Running, Ends
<1>2. d.buf = BytesOf(b, n - b)
  BY DEF Running
<1>3. b + (n - b) - 1 = n - 1
  BY <1>1
<1> QED  BY <1>1, <1>2, <1>3, BytesAre

\* Splice: a segment that starts at or before the expected byte.
LEMMA SpliceRuns ==
  ASSUME NEW d, NEW b, NEW n, Running(d, b, n), isn \in SeqNums,
         NEW p \in Positions, NEW l \in 1..StreamLen, p + l =< StreamLen + 1, p =< n
  PROVE  LET e == Splice(d, SeqNum(p), BytesOf(p, l))
         IN  /\ e.ooo = d.ooo
             /\ n < p + l => e # d /\ Running(e, b, p + l)
             /\ ~(n < p + l) => e = d
<1> DEFINE e == Splice(d, SeqNum(p), BytesOf(p, l))
<1>1. /\ b \in Nat /\ n \in Nat /\ 1 =< b /\ b =< n /\ n =< StreamLen + 1 /\ n \in 0..(StreamLen + 1)
      /\ p \in Nat /\ l \in Nat /\ p \in 0..(StreamLen + 1) /\ StreamLen \in Nat
      /\ d.buf \in Seq(Int) /\ Len(d.buf) = n - b
  BY RunningFacts DEF Positions
<1>2. -SeqDiff(SeqNum(p), d.next) = n - p
  <2>1. SeqDiff(SeqNum(p), SeqNum(n)) = p - n
    BY <1>1, DiffIs
  <2> QED  BY <1>1, <2>1 DEF Running
<1>3. Len(BytesOf(p, l)) = l
  BY <1>1, BytesAre
<1>4. CASE n < p + l
  <2>1. n - p < l
    BY <1>1, <1>4
  <2>2. e = [d EXCEPT !.buf = @ \o SubSeq(BytesOf(p, l), n - p + 1, l),
                      !.next = WrappingAdd(SeqNum(p), l)]
    BY <1>2, <1>3, <2>1 DEF Splice
  <2> HIDE DEF e
  <2>3. d = [buf |-> d.buf, next |-> d.next, ooo |-> d.ooo] /\ d.buf = BytesOf(b, n - b)
    BY DEF Running
  <2>4. e = [buf |-> d.buf \o SubSeq(BytesOf(p, l), n - p + 1, l),
             next |-> WrappingAdd(SeqNum(p), l), ooo |-> d.ooo]
    BY <2>2, <2>3
  <2>5. d.buf \o SubSeq(BytesOf(p, l), n - p + 1, l) = BytesOf(b, (p + l) - b)
    <3>1. BytesOf(b, n - b) \o SubSeq(BytesOf(p, l), n - p + 1, l) = BytesOf(b, (p + l) - b)
      <4>1. b \in Nat /\ n \in Nat /\ p \in Nat /\ l \in Nat /\ b =< n /\ p =< n /\ n < p + l
        BY <1>1, <1>4
      <4> QED  BY ONLY <4>1, BytesJoin
    <3>2. d.buf = BytesOf(b, n - b)
      BY <2>3
    <3> QED  BY <3>1, <3>2, Zenon
  <2>6. WrappingAdd(SeqNum(p), l) = SeqNum(p + l)
    BY <1>1, AddIs
  <2>7. e.buf = BytesOf(b, (p + l) - b) /\ e.next = SeqNum(p + l) /\ e.ooo = d.ooo
        /\ e = [buf |-> e.buf, next |-> e.next, ooo |-> e.ooo]
    <3>1. e.buf = d.buf \o SubSeq(BytesOf(p, l), n - p + 1, l)
      BY <2>4
    <3>2. e.next = WrappingAdd(SeqNum(p), l)
      BY <2>4
    <3>3. e.ooo = d.ooo /\ e = [buf |-> e.buf, next |-> e.next, ooo |-> e.ooo]
      BY <2>4
    <3>4. e.buf = BytesOf(b, (p + l) - b)
      BY ONLY <3>1, <2>5, Zenon
    <3>5. e.next = SeqNum(p + l)
      BY ONLY <3>2, <2>6, Zenon
    <3> QED  BY <3>3, <3>4, <3>5
  <2>8. p + l \in Ends /\ b =< p + l
    BY <1>1, <1>4 DEF Ends
  <2>9. Running(e, b, p + l)
    BY <2>7, <2>8 DEF Running
  <2>10. e # d
    <3>1. Len(e.buf) = (p + l) - b
      BY <2>9, RunningFacts
    <3>2. Len(e.buf) # Len(d.buf)
      BY <3>1, <1>1, <1>4
    <3> QED  BY <3>2
  <2> QED  BY <1>4, <2>7, <2>9, <2>10 DEF e
<1>5. CASE ~(n < p + l)
  <2>1. ~(n - p < l)
    BY <1>1, <1>5
  <2>2. e = d
    BY <1>2, <1>3, <2>1 DEF Splice
  <2> QED  BY <1>5, <2>2
<1> QED  BY <1>4, <1>5

-----------------------------------------------------------------------------
(* drain_ooo: what a turn of its loop, and the whole loop, leave.           *)

\* e is d after some of its held segments were drained: the run reaches m, and
\* what is no longer held lies before m.
Later(d, e, b, n, m) ==
    /\ m \in Ends /\ n =< m
    /\ Running(e, b, m)
    /\ DOMAIN e.ooo \subseteq DOMAIN d.ooo
    /\ \A s \in DOMAIN e.ooo : e.ooo[s] = d.ooo[s]
    /\ \A s \in DOMAIN d.ooo \ DOMAIN e.ooo : \A q \in Range(d.ooo[s]) : q < m

LEMMA LaterTrans ==
  ASSUME NEW d, NEW e, NEW f, NEW b, NEW n \in Nat, NEW m, NEW k,
         Later(d, e, b, n, m), Later(e, f, b, m, k),
         \A s \in DOMAIN d.ooo : Range(d.ooo[s]) \subseteq Nat
  PROVE  Later(d, f, b, n, k)
<1>1. m \in Nat /\ k \in Nat /\ n =< m /\ m =< k /\ k \in Ends /\ n =< k
  BY StreamAssumption DEF Later, Ends
<1>2. \A s \in DOMAIN f.ooo : f.ooo[s] = d.ooo[s]
  BY DEF Later
<1>3. ASSUME NEW s \in DOMAIN d.ooo \ DOMAIN f.ooo, NEW q \in Range(d.ooo[s]) PROVE q < k
  <2>1. CASE s \in DOMAIN e.ooo
    BY <2>1, <1>3 DEF Later
  <2>2. CASE s \notin DOMAIN e.ooo
    <3>1. q < m /\ q \in Nat
      BY <2>2, <1>3 DEF Later
    <3> QED  BY <3>1, <1>1
  <2> QED  BY <2>1, <2>2
<1> QED  BY <1>1, <1>2, <1>3 DEF Later

\* A held segment: where it starts, what it holds.
LEMMA PieceFacts ==
  ASSUME isn \in SeqNums, NEW s, NEW bytes, Piece(s, bytes)
  PROVE  /\ s \in Nat /\ s \in SeqNums
         /\ Range(bytes) \subseteq Nat
         /\ \E p \in Positions, l \in 1..StreamLen :
               /\ p + l =< StreamLen + 1 /\ s = SeqNum(p) /\ bytes = BytesOf(p, l)
               /\ Range(bytes) = p..(p + l - 1)
<1>1. PICK p \in Positions, l \in 1..StreamLen :
        p + l =< StreamLen + 1 /\ s = SeqNum(p) /\ bytes = BytesOf(p, l)
  BY DEF Piece
<1>2. p \in Nat /\ l \in Nat /\ p \in 0..(StreamLen + 1)
  BY StreamAssumption DEF Positions
<1>3. Range(bytes) = p..(p + l - 1)
  BY <1>1, <1>2, BytesAre
<1>4. s \in SeqNums
  BY <1>1, <1>2, SeqNumIs
<1>5. s \in Nat
  BY <1>4, SeqAssumption DEF SeqNums
<1> QED  BY <1>1, <1>2, <1>3, <1>4, <1>5

LEMMA LowestFacts ==
  ASSUME NEW d, NEW b, NEW n, Running(d, b, n), isn \in SeqNums, DOMAIN d.ooo # {}
  PROVE  Lowest(d.ooo) \in DOMAIN d.ooo /\ \A t \in DOMAIN d.ooo : Lowest(d.ooo) =< t
<1>1. DOMAIN d.ooo \subseteq Nat
  BY PieceFacts DEF Running
<1> DEFINE T == DOMAIN d.ooo
<1>2. PICK m \in T : \A y \in T : ~(<<y, m>> \in OpToRel(<, Nat))
  <2>1. T \subseteq Nat /\ T # {}
    BY <1>1
  <2> HIDE DEF T
  <2> QED  BY <2>1, NatLessThanWellFounded, WFMin
<1>3. \A y \in T : m =< y
  <2> TAKE y \in T
  <2>1. y \in Nat /\ m \in Nat
    BY <1>1
  <2> HIDE DEF T
  <2>2. ~(y < m)
    BY <1>2, <2>1 DEF OpToRel
  <2> QED  BY <2>1, <2>2
<1> QED  BY <1>3 DEF Lowest

\* Only the map of held segments changes.
LEMMA OooReplaced ==
  ASSUME NEW d, NEW b, NEW n, Running(d, b, n), NEW o, IsFiniteSet(DOMAIN o),
         \A s \in DOMAIN o : Piece(s, o[s])
  PROVE  Running([d EXCEPT !.ooo = o], b, n) /\ [d EXCEPT !.ooo = o].ooo = o
<1> DEFINE e == [d EXCEPT !.ooo = o]
<1>1. d = [buf |-> d.buf, next |-> d.next, ooo |-> d.ooo]
  BY DEF Running
<1>2. e = [buf |-> d.buf, next |-> d.next, ooo |-> o]
  BY <1>1
<1> HIDE DEF e
<1>3. e.buf = d.buf /\ e.next = d.next /\ e.ooo = o /\ e = [buf |-> e.buf, next |-> e.next, ooo |-> e.ooo]
  BY <1>2
<1>4. Running(e, b, n)
  BY <1>3 DEF Running
<1> QED  BY <1>3, <1>4 DEF e

LEMMA DrainOneLater ==
  ASSUME NEW d, NEW b, NEW n, Running(d, b, n), isn \in SeqNums
  PROVE  /\ \E m \in Ends : Later(d, DrainOne(d), b, n, m)
         /\ AtGap(d) => DrainOne(d) = d
         /\ ~AtGap(d) => Cardinality(DOMAIN DrainOne(d).ooo) = Cardinality(DOMAIN d.ooo) - 1
<1>0. n \in Ends /\ n \in Nat /\ n \in 0..(StreamLen + 1)
  BY RunningFacts DEF Running
<1>1. CASE AtGap(d)
  <2>1. DrainOne(d) = d
    BY <1>1 DEF DrainOne
  <2>2. Later(d, d, b, n, n)
    BY <1>0 DEF Later
  <2> QED  BY <1>0, <1>1, <2>1, <2>2
<1>2. CASE ~AtGap(d)
  <2> DEFINE s == Lowest(d.ooo)
             f == Splice(d, s, d.ooo[s])
             o == Without(d.ooo, {s})
             e == DrainOne(d)
  <2>1. s \in DOMAIN d.ooo
    BY <1>2, LowestFacts DEF AtGap
  <2>2. PICK p \in Positions, l \in 1..StreamLen :
          /\ p + l =< StreamLen + 1 /\ s = SeqNum(p) /\ d.ooo[s] = BytesOf(p, l)
          /\ Range(d.ooo[s]) = p..(p + l - 1)
    <3>1. Piece(s, d.ooo[s])
      BY <2>1 DEF Running
    <3> HIDE DEF s
    <3> QED  BY <3>1, PieceFacts
  <2>3. p \in 0..(StreamLen + 1) /\ p \in Nat /\ l \in Nat
    BY StreamAssumption DEF Positions
  <2>4. p =< n
    <3>1. ~(SeqDiff(SeqNum(p), SeqNum(n)) > 0)
      BY <1>2, <2>2 DEF AtGap, Running
    <3>2. SeqDiff(SeqNum(p), SeqNum(n)) = p - n
      BY <1>0, <2>3, DiffIs
    <3> QED  BY <3>1, <3>2, <1>0, <2>3
  <2>5. f.ooo = d.ooo /\ (n < p + l => Running(f, b, p + l)) /\ (~(n < p + l) => f = d)
    <3>1. f = Splice(d, SeqNum(p), BytesOf(p, l))
      BY <2>2
    <3> HIDE DEF f
    <3> QED  BY <3>1, <2>2, <2>4, SpliceRuns
  <2>6. PICK m \in Ends : Running(f, b, m) /\ n =< m /\ p + l =< m
    <3>1. CASE n < p + l
      <4>1. p + l \in Ends /\ n =< p + l /\ p + l =< p + l
        BY <1>0, <2>2, <2>3, <3>1, StreamAssumption DEF Ends, Positions
      <4> QED  BY <4>1, <2>5, <3>1
    <3>2. CASE ~(n < p + l)
      <4>1. n =< n /\ p + l =< n
        BY <1>0, <2>3, <3>2
      <4> QED  BY <4>1, <1>0, <2>5, <3>2
    <3> QED  BY <3>1, <3>2
  <2>7. e = [f EXCEPT !.ooo = Without(f.ooo, {s})]
    BY <1>2 DEF DrainOne
  <2>8. e = [f EXCEPT !.ooo = o]
    BY <2>5, <2>7
  <2>9. DOMAIN o = DOMAIN d.ooo \ {s} /\ \A t \in DOMAIN o : o[t] = d.ooo[t]
    BY DEF Without
  <2>10. IsFiniteSet(DOMAIN d.ooo) /\ IsFiniteSet(DOMAIN o)
         /\ Cardinality(DOMAIN o) = Cardinality(DOMAIN d.ooo) - 1
    <3>1. IsFiniteSet(DOMAIN d.ooo)
      BY DEF Running
    <3> HIDE DEF o, s
    <3> QED  BY <3>1, <2>1, <2>9, FS_RemoveElement
  <2>11. \A t \in DOMAIN o : Piece(t, o[t])
    BY <2>9 DEF Running
  <2> HIDE DEF e, o, f
  <2>12. Running(e, b, m) /\ e.ooo = o
    BY <2>6, <2>8, <2>10, <2>11, OooReplaced
  <2>13. \A t \in DOMAIN d.ooo \ DOMAIN e.ooo : \A q \in Range(d.ooo[t]) : q < m
    <3> TAKE t \in DOMAIN d.ooo \ DOMAIN e.ooo
    <3>1. t = s
      BY <2>9, <2>12
    <3> TAKE q \in Range(d.ooo[t])
    <3>2. q \in p..(p + l - 1)
      BY <2>2, <3>1
    <3> QED  BY <3>2, <2>3, <2>6, StreamAssumption DEF Ends
  <2>14. Later(d, e, b, n, m)
    BY <2>6, <2>9, <2>12, <2>13 DEF Later
  <2> QED  BY <1>2, <2>10, <2>12, <2>14 DEF e
<1> QED  BY <1>1, <1>2

-----------------------------------------------------------------------------
(* The whole loop.                                                          *)

LEMMA UpTo ==
  ASSUME NEW N \in Nat, NEW S, 0 \in S, \A n \in 0..(N - 1) : n \in S => n + 1 \in S
  PROVE  \A n \in 0..N : n \in S
<1>1. SUFFICES ASSUME NEW k \in 0..N, k \notin S PROVE FALSE
  OBVIOUS
<1> DEFINE T == {n \in 0..N : n \notin S}
<1>2. PICK m \in T : \A y \in T : ~(<<y, m>> \in OpToRel(<, Nat))
  <2>1. T \subseteq Nat /\ T # {}
    BY <1>1
  <2> HIDE DEF T
  <2> QED  BY <2>1, NatLessThanWellFounded, WFMin
<1>3. m # 0 /\ m - 1 \in 0..(N - 1)
  OBVIOUS
<1>4. m - 1 \in T
  BY <1>3
<1>5. \A y \in T : ~(y < m)
  <2> TAKE y \in T
  <2>1. y \in Nat /\ m \in Nat
    OBVIOUS
  <2> HIDE DEF T
  <2> QED  BY <1>2, <2>1 DEF OpToRel
<1>6. ~(m - 1 < m)
  BY <1>4, <1>5
<1> QED  BY <1>6

\* The recursive definition of Turns has a solution, so it is one.
LEMMA TurnsDef ==
  ASSUME NEW d, Cardinality(DOMAIN d.ooo) \in Nat
  PROVE  Turns(d) = [i \in 0..Cardinality(DOMAIN d.ooo) |->
                        IF i = 0 THEN d ELSE DrainOne(Turns(d)[i - 1])]
<1> DEFINE N == Cardinality(DOMAIN d.ooo)
           B(f, i) == IF i = 0 THEN d ELSE DrainOne(f[i - 1])
           S == {k \in 0..N : \E f : f = [i \in 0..k |-> B(f, i)]}
<1>0. N \in Nat
  OBVIOUS
<1> HIDE DEF N
<1>1. 0 \in S
  <2> DEFINE f == [i \in 0..0 |-> d]
  <2>1. f = [i \in 0..0 |-> B(f, i)]
    OBVIOUS
  <2>2. 0 \in 0..N
    BY <1>0
  <2> HIDE DEF f
  <2> QED  BY <2>1, <2>2
<1>2. ASSUME NEW k \in 0..(N - 1), k \in S PROVE k + 1 \in S
  <2>1. PICK f : f = [i \in 0..k |-> B(f, i)]
    BY <1>2
  <2> DEFINE g == [i \in 0..(k + 1) |-> IF i = k + 1 THEN B(f, k + 1) ELSE f[i]]
  <2>2. ASSUME NEW i \in 0..(k + 1) PROVE g[i] = B(g, i)
    <3>1. CASE i = 0
      BY <1>0, <3>1, <2>1
    <3>2. CASE i # 0
      <4>1. i - 1 \in 0..k /\ g[i - 1] = f[i - 1]
        BY <1>0, <3>2
      <4>2. g[i] = B(f, i)
        BY <1>0, <3>2, <2>1
      <4> QED  BY <3>2, <4>1, <4>2
    <3> QED  BY <3>1, <3>2
  <2>3. g = [i \in 0..(k + 1) |-> B(g, i)]
    BY <2>2
  <2>4. k + 1 \in 0..N
    BY <1>0
  <2> HIDE DEF g
  <2> QED  BY <2>3, <2>4
<1>3. N \in S
  <2>1. N \in 0..N
    BY <1>0
  <2> HIDE DEF S
  <2>2. \A i \in 0..N : i \in S
    BY <1>0, <1>1, <1>2, UpTo
  <2> QED  BY <2>1, <2>2
<1>4. \E f : f = [i \in 0..N |-> B(f, i)]
  BY <1>3
<1> QED  BY <1>4, Zenon DEF Turns, N

\* drain_ooo goes on until the first held segment is beyond the run.
LEMMA DrainOooLater ==
  ASSUME NEW d, NEW b, NEW n, Running(d, b, n), isn \in SeqNums
  PROVE  AtGap(DrainOoo(d)) /\ \E m \in Ends : Later(d, DrainOoo(d), b, n, m)
<1>0. n \in Nat /\ n \in Ends /\ \A s \in DOMAIN d.ooo : Range(d.ooo[s]) \subseteq Nat
  <2>1. \A s \in DOMAIN d.ooo : Range(d.ooo[s]) \subseteq Nat
    BY PieceFacts DEF Running
  <2> QED  BY <2>1, RunningFacts DEF Running
<1> DEFINE N == Cardinality(DOMAIN d.ooo)
           T == Turns(d)
           Done(e, k) == /\ \E m \in Ends : Later(d, e, b, n, m)
                         /\ AtGap(e) \/ Cardinality(DOMAIN e.ooo) = N - k
           S == {k \in 0..N : Done(T[k], k)}
<1>1. N \in Nat
  BY FS_CardinalityType DEF Running
<1>2. T = [i \in 0..N |-> IF i = 0 THEN d ELSE DrainOne(T[i - 1])]
  BY <1>1, TurnsDef
<1> HIDE DEF N, T
<1>3. 0 \in S
  <2>1. 0 \in 0..N /\ T[0] = d
    BY <1>1, <1>2
  <2>2. Later(d, d, b, n, n)
    BY <1>0 DEF Later
  <2>3. Cardinality(DOMAIN d.ooo) = N - 0
    BY <1>1 DEF N
  <2> QED  BY <1>0, <2>1, <2>2, <2>3
<1>4. ASSUME NEW k \in 0..(N - 1), k \in S PROVE k + 1 \in S
  <2> DEFINE e == T[k]
             f == T[k + 1]
  <2>1. f = DrainOne(e)
    <3>1. k + 1 \in 0..N /\ k + 1 # 0 /\ (k + 1) - 1 = k
      BY <1>1
    <3> QED  BY <1>2, <3>1
  <2>2. Done(e, k)
    BY <1>4
  <2> HIDE DEF e, f
  <2>3. PICK m \in Ends : Later(d, e, b, n, m)
    BY <2>2
  <2>4. Running(e, b, m)
    BY <2>3 DEF Later
  <2>5. PICK j \in Ends : Later(e, f, b, m, j)
    BY <2>1, <2>4, DrainOneLater
  <2>6. Later(d, f, b, n, j)
    BY <1>0, <2>3, <2>5, LaterTrans
  <2>7. AtGap(f) \/ Cardinality(DOMAIN f.ooo) = N - (k + 1)
    <3>1. CASE AtGap(e)
      BY <2>1, <2>4, <3>1, DrainOneLater
    <3>2. CASE ~AtGap(e)
      <4>1. Cardinality(DOMAIN f.ooo) = Cardinality(DOMAIN e.ooo) - 1
        BY <2>1, <2>4, <3>2, DrainOneLater
      <4>2. Cardinality(DOMAIN e.ooo) = N - k
        BY <2>2, <3>2
      <4> QED  BY <1>1, <4>1, <4>2
    <3> QED  BY <3>1, <3>2
  <2>8. k + 1 \in 0..N
    BY <1>1
  <2> QED  BY <2>6, <2>7, <2>8 DEF f
<1>5. N \in S
  <2>1. N \in 0..N
    BY <1>1
  <2> HIDE DEF S
  <2>2. \A i \in 0..N : i \in S
    BY <1>1, <1>3, <1>4, UpTo
  <2> QED  BY <2>1, <2>2
<1>6. DrainOoo(d) = T[N] /\ Done(T[N], N)
  BY <1>5 DEF DrainOoo, T, N
<1> DEFINE e == T[N]
<1> HIDE DEF e
<1>7. (\E m \in Ends : Later(d, e, b, n, m)) /\ (AtGap(e) \/ Cardinality(DOMAIN e.ooo) = 0)
  BY <1>1, <1>6 DEF e
<1>8. AtGap(e)
  <2>1. IsFiniteSet(DOMAIN e.ooo)
    BY <1>7 DEF Later, Running
  <2>2. CASE Cardinality(DOMAIN e.ooo) = 0
    BY <2>1, <2>2, FS_EmptySet DEF AtGap
  <2> QED  BY <1>7, <2>2
<1> QED  BY <1>6, <1>7, <1>8 DEF e

-----------------------------------------------------------------------------
(* append_payload, branch by branch.                                        *)

\* The eviction leaves room for one more segment.
LEMMA EvictionMakesRoom ==
  ASSUME NEW d, NEW b, NEW n, Running(d, b, n), isn \in SeqNums,
         Cardinality(DOMAIN d.ooo) =< OooCap
  PROVE  /\ IsFiniteSet(DOMAIN d.ooo \ Evictable(d.ooo))
         /\ Cardinality(DOMAIN d.ooo \ Evictable(d.ooo)) + 1 =< OooCap
<1> DEFINE D == DOMAIN d.ooo
<1>1. IsFiniteSet(D) /\ Cardinality(D) \in Nat /\ OooCap \in Nat /\ OooCap > 0
  BY FS_CardinalityType, SeqAssumption DEF Running
<1>2. CASE Cardinality(D) >= OooCap
  <2>1. D # {}
    BY <1>1, <1>2, FS_EmptySet
  <2>2. PICK s \in D : \A t \in D : s =< t
    BY <2>1, LowestFacts
  <2>3. D \subseteq Nat
    BY PieceFacts DEF Running
  <2>4. Evictable(d.ooo) = {s}
    <3>1. s \in Evictable(d.ooo)
      BY <1>2, <2>2 DEF Evictable
    <3>2. ASSUME NEW t \in Evictable(d.ooo) PROVE t = s
      <4>1. t \in D /\ t =< s /\ s =< t
        BY <2>2 DEF Evictable
      <4> QED  BY <4>1, <2>3
    <3> QED  BY <3>1, <3>2
  <2> HIDE DEF D
  <2>5. IsFiniteSet(D \ {s}) /\ Cardinality(D \ {s}) = Cardinality(D) - 1
    BY <1>1, <2>2, FS_RemoveElement
  <2>6. Cardinality(D \ {s}) + 1 =< OooCap
    BY <1>1, <2>5 DEF D
  <2> QED  BY <2>4, <2>5, <2>6 DEF D
<1>3. CASE ~(Cardinality(D) >= OooCap)
  <2>1. Evictable(d.ooo) = {}
    BY <1>3 DEF Evictable
  <2> QED  BY <1>1, <1>3, <2>1
<1> QED  BY <1>2, <1>3

\* The out-of-order branch holds the new segment and gives up at most what it
\* evicts and what it replaces.
LEMMA HoldRuns ==
  ASSUME NEW d, NEW b, NEW n, Running(d, b, n), isn \in SeqNums,
         Cardinality(DOMAIN d.ooo) =< OooCap, NEW seq, NEW bytes, Piece(seq, bytes)
  PROVE  LET e == HoldOoo(d, seq, bytes)
         IN  /\ Running(e, b, n) /\ Cardinality(DOMAIN e.ooo) =< OooCap
             /\ e.buf = d.buf /\ e.next = d.next
             /\ DOMAIN e.ooo = (DOMAIN d.ooo \ Evictable(d.ooo)) \cup {seq}
             /\ e.ooo[seq] = bytes
             /\ \A s \in DOMAIN e.ooo \ {seq} : e.ooo[s] = d.ooo[s]
<1> DEFINE K == DOMAIN d.ooo \ Evictable(d.ooo)
           w == Without(d.ooo, Evictable(d.ooo))
           o == [k \in DOMAIN w \cup {seq} |-> IF k = seq THEN bytes ELSE w[k]]
           e == HoldOoo(d, seq, bytes)
<1>1. e = [d EXCEPT !.ooo = o]
  BY DEF HoldOoo
<1>2. DOMAIN o = K \cup {seq} /\ o[seq] = bytes /\ \A s \in DOMAIN o \ {seq} : o[s] = d.ooo[s]
  BY DEF Without
<1>3. IsFiniteSet(K) /\ Cardinality(K) + 1 =< OooCap /\ Cardinality(K) \in Nat /\ OooCap \in Nat
  BY EvictionMakesRoom, FS_CardinalityType, SeqAssumption
<1>4. \A s \in DOMAIN o : Piece(s, o[s])
  BY <1>2 DEF Running
<1>5. d = [buf |-> d.buf, next |-> d.next, ooo |-> d.ooo]
  BY DEF Running
<1> HIDE DEF K, o, e
<1>6. IsFiniteSet(DOMAIN o) /\ Cardinality(DOMAIN o) =< OooCap
  <2>1. /\ IsFiniteSet(K \cup {seq})
        /\ Cardinality(K \cup {seq}) = IF seq \in K THEN Cardinality(K) ELSE Cardinality(K) + 1
    BY <1>3, FS_AddElement
  <2> QED  BY <1>2, <1>3, <2>1
<1>7. Running(e, b, n) /\ e.ooo = o
  BY <1>1, <1>4, <1>6, OooReplaced
<1>8. e.buf = d.buf /\ e.next = d.next
  BY <1>1, <1>5
<1> QED  BY <1>2, <1>6, <1>7, <1>8 DEF e, K

\* Where a byte of the stream is: before the run, in it, or in a held segment.
Placed(q, d, b) == q < b \/ q \in Range(d.buf) \cup Held(d)

LEMMA BehindIsPlaced ==
  ASSUME NEW d, NEW b, NEW n, Running(d, b, n), isn \in SeqNums, NEW q \in Nat, q < n
  PROVE  Placed(q, d, b)
<1>1. Range(d.buf) = b..(n - 1) /\ b \in Nat /\ n \in Nat
  BY RunningFacts
<1>2. q < b \/ q \in b..(n - 1)
  BY <1>1
<1> QED  BY <1>1, <1>2 DEF Placed

\* Draining moves bytes from the map to the run and loses none.
LEMMA LaterKeeps ==
  ASSUME NEW d, NEW e, NEW b, NEW n, NEW m, Running(d, b, n), Later(d, e, b, n, m),
         isn \in SeqNums, NEW q \in Nat, Placed(q, d, b)
  PROVE  Placed(q, e, b)
<1>0. n \in Nat /\ m \in Nat /\ n =< m /\ Running(e, b, m) /\ Range(d.buf) = b..(n - 1) /\ b \in Nat
  BY RunningFacts, StreamAssumption DEF Later, Ends
<1>1. CASE q < b
  BY <1>1 DEF Placed
<1>2. CASE q \in Range(d.buf)
  <2>1. q < m
    BY <1>0, <1>2
  <2> QED  BY <1>0, <2>1, BehindIsPlaced
<1>3. CASE q \in Held(d)
  <2>1. PICK s \in DOMAIN d.ooo : q \in Range(d.ooo[s])
    BY <1>3 DEF Held
  <2>2. CASE s \in DOMAIN e.ooo
    BY <2>1, <2>2 DEF Later, Placed, Held
  <2>3. CASE s \notin DOMAIN e.ooo
    <3>1. q < m
      BY <2>1, <2>3 DEF Later
    <3> QED  BY <1>0, <3>1, BehindIsPlaced
  <2> QED  BY <2>2, <2>3
<1> QED  BY <1>1, <1>2, <1>3 DEF Placed

\* A segment of the connection.
Fits(p, l) == p \in Positions /\ l \in 1..StreamLen /\ p + l =< StreamLen + 1

\* append_payload finds the segment beyond the run.
Ahead(d, p) == d.next # Nil /\ SeqDiff(SeqNum(p), d.next) > 0

LEMMA AheadIs ==
  ASSUME NEW d, NEW b, NEW n, Running(d, b, n), isn \in SeqNums, NEW p \in Positions
  PROVE  /\ d.next # Nil
         /\ Ahead(d, p) <=> p > n
         /\ SeqDiff(SeqNum(p), d.next) > 0 <=> p > n
<1>1. n \in 0..(StreamLen + 1) /\ p \in 0..(StreamLen + 1) /\ n \in Nat /\ p \in Nat
  BY RunningFacts, StreamAssumption DEF Positions
<1>2. d.next = SeqNum(n)
  BY DEF Running
<1>3. SeqDiff(SeqNum(p), SeqNum(n)) = p - n
  BY <1>1, DiffIs
<1>4. d.next # Nil
  <2>1. SeqNum(n) \in SeqNums
    BY <1>1, SeqNumIs
  <2> QED  BY <1>2, <2>1, SeqAssumption DEF SeqNums
<1> QED  BY <1>1, <1>2, <1>3, <1>4 DEF Ahead

\* An in-order segment or a retransmission.
LEMMA NotAheadRuns ==
  ASSUME NEW d, NEW b, NEW n, Running(d, b, n), isn \in SeqNums,
         NEW p, NEW l, Fits(p, l), ~(p > n)
  PROVE  LET e == AppendPayload(d, SeqNum(p), BytesOf(p, l))
         IN  /\ \E m \in Ends : Later(d, e, b, n, m)
             /\ \A q \in Range(BytesOf(p, l)) : Placed(q, e, b)
             /\ e = d \/ AtGap(e)
<1> DEFINE f == Splice(d, SeqNum(p), BytesOf(p, l))
           e == AppendPayload(d, SeqNum(p), BytesOf(p, l))
<1>1. /\ p \in Positions /\ l \in 1..StreamLen /\ p + l =< StreamLen + 1
      /\ n \in Nat /\ p \in Nat /\ l \in Nat /\ n \in Ends /\ p =< n
  <2>1. n \in Nat /\ n \in Ends
    BY RunningFacts DEF Running
  <2> QED  BY <2>1, StreamAssumption DEF Fits, Positions
<1>2. e = IF f = d THEN d ELSE DrainOoo(f)
  BY <1>1, AheadIs DEF AppendPayload, Drained
<1>3. /\ f.ooo = d.ooo
      /\ n < p + l => f # d /\ Running(f, b, p + l)
      /\ ~(n < p + l) => f = d
  BY <1>1, SpliceRuns
<1>4. Range(BytesOf(p, l)) = p..(p + l - 1)
  BY <1>1, BytesAre
<1> HIDE DEF e, f
<1>5. CASE n < p + l
  <2>1. Running(f, b, p + l) /\ e = DrainOoo(f)
    BY <1>2, <1>3, <1>5
  <2>2. AtGap(e) /\ \E m \in Ends : Later(f, e, b, p + l, m)
    BY <2>1, DrainOooLater
  <2>3. PICK m \in Ends : Later(f, e, b, p + l, m)
    BY <2>2
  <2>4. m \in Nat /\ p + l =< m /\ n =< m /\ Running(e, b, m)
    BY <1>1, <1>5, <2>3, StreamAssumption DEF Later, Ends
  <2>5. Later(d, e, b, n, m)
    BY <1>3, <2>3, <2>4 DEF Later
  <2>6. ASSUME NEW q \in Range(BytesOf(p, l)) PROVE Placed(q, e, b)
    <3>1. q \in Nat /\ q < m
      BY <1>1, <1>4, <2>4
    <3> QED  BY <2>4, <3>1, BehindIsPlaced
  <2> QED  BY <2>2, <2>5, <2>6 DEF e
<1>6. CASE ~(n < p + l)
  <2>1. e = d
    BY <1>2, <1>3, <1>6
  <2>2. Later(d, e, b, n, n)
    BY <1>1, <2>1 DEF Later
  <2>3. ASSUME NEW q \in Range(BytesOf(p, l)) PROVE Placed(q, e, b)
    <3>1. q \in Nat /\ q < n
      BY <1>1, <1>4, <1>6
    <3> QED  BY <2>1, <3>1, BehindIsPlaced
  <2> QED  BY <1>1, <2>1, <2>2, <2>3 DEF e
<1> QED  BY <1>5, <1>6

\* Any segment of a connection that is being followed.
LEMMA AppendRuns ==
  ASSUME NEW d, NEW b, NEW n, Running(d, b, n), isn \in SeqNums,
         Cardinality(DOMAIN d.ooo) =< OooCap, NEW p, NEW l, Fits(p, l)
  PROVE  LET e == AppendPayload(d, SeqNum(p), BytesOf(p, l))
             lost == IF Ahead(d, p) THEN Evictable(d.ooo) ELSE {}
         IN  /\ \E m \in Ends : Running(e, b, m)
             /\ Cardinality(DOMAIN e.ooo) =< OooCap
             /\ \A q \in Range(BytesOf(p, l)) : Placed(q, e, b)
             /\ \A q \in Nat : Placed(q, d, b) =>
                   \/ Placed(q, e, b)
                   \/ q \in UNION {Range(d.ooo[s]) : s \in lost}
                   \/ /\ Ahead(d, p) /\ SeqNum(p) \in DOMAIN d.ooo \ lost
                      /\ q \in Range(d.ooo[SeqNum(p)])
<1> DEFINE seq == SeqNum(p)
           bytes == BytesOf(p, l)
           e == AppendPayload(d, seq, bytes)
           lost == IF Ahead(d, p) THEN Evictable(d.ooo) ELSE {}
<1>0. p \in Positions /\ n \in Ends
  BY DEF Fits, Running
<1>1. CASE p > n
  <2>1. Ahead(d, p) /\ e = HoldOoo(d, seq, bytes)
    BY <1>0, <1>1, AheadIs DEF AppendPayload
  <2>2. Piece(seq, bytes)
    BY DEF Piece, Fits
  <2> HIDE DEF seq, bytes, e
  <2>3. /\ Running(e, b, n) /\ Cardinality(DOMAIN e.ooo) =< OooCap
        /\ e.buf = d.buf /\ e.next = d.next
        /\ DOMAIN e.ooo = (DOMAIN d.ooo \ Evictable(d.ooo)) \cup {seq}
        /\ e.ooo[seq] = bytes
        /\ \A s \in DOMAIN e.ooo \ {seq} : e.ooo[s] = d.ooo[s]
    BY <2>1, <2>2, HoldRuns
  <2>4. \A q \in Range(bytes) : Placed(q, e, b)
    BY <2>3 DEF Placed, Held
  <2>5. ASSUME NEW q \in Nat, Placed(q, d, b)
        PROVE  \/ Placed(q, e, b)
               \/ q \in UNION {Range(d.ooo[s]) : s \in Evictable(d.ooo)}
               \/ /\ seq \in DOMAIN d.ooo \ Evictable(d.ooo)
                  /\ q \in Range(d.ooo[seq])
    <3>1. CASE q < b \/ q \in Range(d.buf)
      BY <2>3, <3>1 DEF Placed
    <3>2. CASE q \in Held(d)
      <4>1. PICK s \in DOMAIN d.ooo : q \in Range(d.ooo[s])
        BY <3>2 DEF Held
      <4>2. CASE s \in Evictable(d.ooo)
        BY <4>1, <4>2
      <4>3. CASE s \notin Evictable(d.ooo) /\ s = seq
        BY <4>1, <4>3
      <4>4. CASE s \notin Evictable(d.ooo) /\ s # seq
        <5>1. s \in DOMAIN e.ooo /\ e.ooo[s] = d.ooo[s]
          BY <2>3, <4>1, <4>4
        <5> QED  BY <4>1, <5>1 DEF Placed, Held
      <4> QED  BY <4>2, <4>3, <4>4
    <3> QED  BY <2>5, <3>1, <3>2 DEF Placed
  <2>6. lost = Evictable(d.ooo)
    BY <2>1
  <2> QED  BY <1>0, <2>1, <2>3, <2>4, <2>5, <2>6 DEF seq, bytes, e
<1>2. CASE ~(p > n)
  <2>1. /\ \E m \in Ends : Later(d, e, b, n, m)
        /\ \A q \in Range(bytes) : Placed(q, e, b)
    BY <1>2, NotAheadRuns
  <2> HIDE DEF seq, bytes, e
  <2>2. PICK m \in Ends : Later(d, e, b, n, m)
    BY <2>1
  <2>3. Running(e, b, m) /\ DOMAIN e.ooo \subseteq DOMAIN d.ooo
    BY <2>2 DEF Later
  <2>4. Cardinality(DOMAIN e.ooo) =< OooCap
    <3>1. IsFiniteSet(DOMAIN d.ooo)
      BY DEF Running
    <3>2. IsFiniteSet(DOMAIN e.ooo) /\ Cardinality(DOMAIN e.ooo) =< Cardinality(DOMAIN d.ooo)
      BY <2>3, <3>1, FS_Subset
    <3>3. Cardinality(DOMAIN e.ooo) \in Nat /\ Cardinality(DOMAIN d.ooo) \in Nat
      BY <3>1, <3>2, FS_CardinalityType
    <3> QED  BY <3>2, <3>3, SeqAssumption
  <2>5. \A q \in Nat : Placed(q, d, b) => Placed(q, e, b)
    BY <2>2, LaterKeeps
  <2> QED  BY <2>1, <2>3, <2>4, <2>5 DEF seq, bytes, e
<1> QED  BY <1>1, <1>2

-----------------------------------------------------------------------------
(* The direction of a connection, whatever its initial number.              *)

ReassemblyInv ==
    /\ isn \in Isns
    /\ base = Nil => dir = NewDir /\ seen = {}
    /\ base # Nil => \E n \in Ends : Running(dir, base, n)
    /\ seen \subseteq Nat
    /\ NothingVanishes
    /\ Cardinality(DOMAIN dir.ooo) =< OooCap

LEMMA NewDirIs ==
  /\ NewDir.buf = <<>> /\ NewDir.next = Nil /\ NewDir.ooo = <<>>
  /\ NewDir = [buf |-> NewDir.buf, next |-> NewDir.next, ooo |-> NewDir.ooo]
  /\ DOMAIN NewDir.ooo = {} /\ IsFiniteSet(DOMAIN NewDir.ooo)
  /\ Cardinality(DOMAIN NewDir.ooo) = 0
<1>1. /\ NewDir.buf = <<>> /\ NewDir.next = Nil /\ NewDir.ooo = <<>>
      /\ NewDir = [buf |-> NewDir.buf, next |-> NewDir.next, ooo |-> NewDir.ooo]
  BY DEF NewDir
<1>2. DOMAIN NewDir.ooo = {}
  BY <1>1
<1> QED  BY <1>1, <1>2, FS_EmptySet

\* The state after a step, read as the state of the same connection.
LEMMA RunningNext ==
  ASSUME isn' = isn, NEW n, NEW e, NEW b, e = dir', b = base', Running(e, b, n)
  PROVE  Running(dir, base, n)'
  BY DEF Running, Piece, SeqNum

\* The first packet of a direction, without its SYN.
LEMMA FirstRuns ==
  ASSUME isn \in SeqNums, NEW p, NEW l, Fits(p, l)
  PROVE  LET e == AppendPayload(NewDir, SeqNum(p), BytesOf(p, l))
         IN  /\ Running(e, p, p + l) /\ p + l \in Ends
             /\ DOMAIN e.ooo = {} /\ Cardinality(DOMAIN e.ooo) = 0
             /\ \A q \in Range(BytesOf(p, l)) : Placed(q, e, p)
<1> DEFINE e == AppendPayload(NewDir, SeqNum(p), BytesOf(p, l))
<1>1. /\ p \in Nat /\ l \in Nat /\ p \in Ends /\ p + l \in Ends /\ p =< p + l
      /\ (p + l) - p = l /\ p \in 0..(StreamLen + 1) /\ p + l =< StreamLen + 1
  BY StreamAssumption DEF Fits, Positions, Ends
<1>2. BytesOf(p, l) \in Seq(Int) /\ Len(BytesOf(p, l)) = l /\ Range(BytesOf(p, l)) = p..(p + l - 1)
  BY <1>1, BytesAre
<1>3. WrappingAdd(SeqNum(p), l) = SeqNum(p + l)
  BY <1>1, AddIs
<1>4. <<>> \o BytesOf(p, l) = BytesOf(p, l)
  BY <1>2
<1>5. e = [NewDir EXCEPT !.buf = <<>> \o BytesOf(p, l), !.next = WrappingAdd(SeqNum(p), l)]
  BY <1>2, NewDirIs DEF AppendPayload
<1> HIDE DEF e
<1>6. e.buf = BytesOf(p, l)
  BY <1>4, <1>5, NewDirIs
<1>7. e.next = SeqNum(p + l)
  BY <1>3, <1>5, NewDirIs
<1>8. e.ooo = NewDir.ooo /\ e = [buf |-> e.buf, next |-> e.next, ooo |-> e.ooo]
  BY <1>5, NewDirIs
<1>9. Running(e, p, p + l)
  BY <1>1, <1>6, <1>7, <1>8, NewDirIs DEF Running
<1>10. \A q \in Range(BytesOf(p, l)) : Placed(q, e, p)
  BY <1>6 DEF Placed
<1> QED  BY <1>1, <1>8, <1>9, <1>10, NewDirIs DEF e

LEMMA SynRuns ==
  ASSUME isn \in SeqNums
  PROVE  LET e == SynSeen(NewDir, isn)
         IN  Running(e, 1, 1) /\ DOMAIN e.ooo = {} /\ Cardinality(DOMAIN e.ooo) = 0
<1> DEFINE e == SynSeen(NewDir, isn)
<1>1. e = [NewDir EXCEPT !.next = WrappingAdd(isn, 1)]
  BY DEF SynSeen
<1> HIDE DEF e
<1>2. e.buf = <<>> /\ e.next = WrappingAdd(isn, 1) /\ e.ooo = NewDir.ooo
      /\ e = [buf |-> e.buf, next |-> e.next, ooo |-> e.ooo]
  BY <1>1, NewDirIs
<1>3. 1 \in Ends /\ 1 - 1 = 0 /\ 1 =< 1
  BY StreamAssumption DEF Ends
<1>4. BytesOf(1, 1 - 1) = <<>>
  <2>1. BytesOf(1, 0) \in Seq(Int) /\ Len(BytesOf(1, 0)) = 0
    BY BytesAre
  <2> QED  BY <1>3, <2>1
<1>5. Running(e, 1, 1)
  BY <1>2, <1>3, <1>4, NewDirIs DEF Running, SeqNum
<1> QED  BY <1>2, <1>5, NewDirIs DEF e

LEMMA InitReassembly ==
  ASSUME ReassemblyInit
  PROVE  ReassemblyInv
  BY NewDirIs, SeqAssumption DEF ReassemblyInit, ReassemblyInv, NothingVanishes

LEMMA SynStep ==
  ASSUME ReassemblyInv, Syn
  PROVE  ReassemblyInv'
<1>1. isn \in Isns /\ isn \in SeqNums /\ isn' = isn /\ base' = 1 /\ seen' = seen /\ dir = NewDir
  BY StreamAssumption DEF ReassemblyInv, Syn
<1>2. base = Nil
  <2>1. SUFFICES ASSUME base # Nil PROVE FALSE
    OBVIOUS
  <2>2. PICK b, d : b = base /\ d = dir
    OBVIOUS
  <2>3. PICK n \in Ends : Running(d, b, n)
    BY <2>1, <2>2 DEF ReassemblyInv
  <2>4. d.next = SeqNum(n) /\ SeqNum(n) \in SeqNums
    BY <1>1, <2>3, RunningFacts, SeqNumIs DEF Running
  <2> QED  BY <1>1, <2>2, <2>4, NewDirIs, SeqAssumption DEF SeqNums
<1>3. PICK e, b : e = dir' /\ b = base'
  OBVIOUS
<1>4. e = SynSeen(NewDir, isn) /\ b = 1
  BY <1>1, <1>3 DEF Syn
<1>5. Running(e, 1, 1) /\ Cardinality(DOMAIN e.ooo) = 0
  BY <1>1, <1>4, SynRuns
<1>6. 1 \in Ends /\ Running(dir, base, 1)'
  BY <1>1, <1>3, <1>4, <1>5, RunningNext DEF Running
<1>7. seen = {}
  BY <1>2 DEF ReassemblyInv
<1> QED  BY <1>1, <1>3, <1>4, <1>5, <1>6, <1>7, SeqAssumption DEF ReassemblyInv, NothingVanishes

LEMMA SegmentStep ==
  ASSUME ReassemblyInv, NEW p \in Positions, NEW l \in 1..MaxSeg, Segment(p, l)
  PROVE  ReassemblyInv'
<1>1. isn \in Isns /\ isn \in SeqNums /\ isn' = isn /\ Cardinality(DOMAIN dir.ooo) =< OooCap
  BY StreamAssumption DEF ReassemblyInv, Segment
<1>2. Fits(p, l) /\ p \in Nat /\ l \in Nat /\ Range(BytesOf(p, l)) \subseteq Nat
  <2>1. p + l - 1 =< StreamLen
    BY DEF Segment
  <2>2. p \in Nat /\ l \in Nat
    BY StreamAssumption DEF Positions
  <2>3. Fits(p, l)
    BY <2>1, <2>2, StreamAssumption DEF Fits, Positions
  <2>4. Range(BytesOf(p, l)) = p..(p + l - 1)
    BY <2>2, BytesAre
  <2>5. p..(p + l - 1) \subseteq Nat
    BY <2>2
  <2> QED  BY <2>2, <2>3, <2>4, <2>5
<1>3. PICK e, c, d, b : e = dir' /\ c = base' /\ d = dir /\ b = base
  OBVIOUS
<1>4. e = AppendPayload(d, SeqNum(p), BytesOf(p, l)) /\ c = (IF b = Nil THEN p ELSE b)
      /\ seen' = seen \cup Range(BytesOf(p, l))
  BY <1>3 DEF Segment
<1>5. c # Nil /\ seen' \subseteq Nat
  BY <1>2, <1>3, <1>4, SeqAssumption DEF ReassemblyInv
<1>6. CASE b = Nil
  <2>1. d = NewDir /\ seen = {}
    BY <1>3, <1>6 DEF ReassemblyInv
  <2>2. /\ Running(e, c, p + l) /\ p + l \in Ends /\ Cardinality(DOMAIN e.ooo) = 0
        /\ \A q \in Range(BytesOf(p, l)) : Placed(q, e, c)
    BY <1>1, <1>2, <1>4, <1>6, <2>1, FirstRuns
  <2>3. Running(dir, base, p + l)'
    BY <1>1, <1>3, <2>2, RunningNext
  <2>4. NothingVanishes'
    BY <1>3, <1>4, <2>1, <2>2 DEF NothingVanishes, Placed, Held
  <2>5. Cardinality(DOMAIN dir'.ooo) =< OooCap
    BY <1>3, <2>2, SeqAssumption
  <2> QED  BY <1>1, <1>3, <1>5, <2>2, <2>3, <2>4, <2>5 DEF ReassemblyInv
<1>7. CASE b # Nil
  <2>1. PICK n \in Ends : Running(d, b, n)
    BY <1>3, <1>7 DEF ReassemblyInv
  <2> DEFINE lost == IF Ahead(d, p) THEN Evictable(d.ooo) ELSE {}
  <2>2. /\ \E m \in Ends : Running(e, b, m)
        /\ Cardinality(DOMAIN e.ooo) =< OooCap
        /\ \A q \in Range(BytesOf(p, l)) : Placed(q, e, b)
        /\ \A q \in Nat : Placed(q, d, b) =>
              \/ Placed(q, e, b)
              \/ q \in UNION {Range(d.ooo[s]) : s \in lost}
              \/ /\ Ahead(d, p) /\ SeqNum(p) \in DOMAIN d.ooo \ lost
                 /\ q \in Range(d.ooo[SeqNum(p)])
    BY <1>1, <1>2, <1>3, <1>4, <2>1, AppendRuns
  <2>3. PICK m \in Ends : Running(e, b, m)
    BY <2>2
  <2>4. Running(dir, base, m)'
    BY <1>1, <1>3, <1>4, <1>7, <2>3, RunningNext
  <2>5. /\ evicted' = evicted \cup UNION {Range(d.ooo[s]) : s \in lost}
        /\ replaced' = replaced \cup
              IF Ahead(d, p) /\ SeqNum(p) \in DOMAIN d.ooo \ lost THEN Range(d.ooo[SeqNum(p)]) ELSE {}
    BY <1>3 DEF Segment, Ahead
  <2>6. ASSUME NEW q \in seen' PROVE Placed(q, e, b) \/ q \in evicted' \cup replaced'
    <3>1. CASE q \in Range(BytesOf(p, l))
      BY <2>2, <3>1
    <3>2. CASE q \in seen
      <4>1. q \in Nat /\ (Placed(q, d, b) \/ q \in evicted \cup replaced)
        BY <1>3, <3>2 DEF ReassemblyInv, NothingVanishes, Placed
      <4>2. CASE Placed(q, d, b)
        <5>1. \/ Placed(q, e, b)
              \/ q \in UNION {Range(d.ooo[s]) : s \in lost}
              \/ /\ Ahead(d, p) /\ SeqNum(p) \in DOMAIN d.ooo \ lost
                 /\ q \in Range(d.ooo[SeqNum(p)])
          BY <2>2, <4>1, <4>2
        <5> HIDE DEF lost
        <5> QED  BY <5>1, <2>5
      <4> QED  BY <2>5, <4>1, <4>2
    <3> QED  BY <1>4, <3>1, <3>2
  <2>7. NothingVanishes'
    BY <1>3, <1>4, <1>7, <2>6 DEF NothingVanishes, Placed, Held
  <2> QED  BY <1>1, <1>3, <1>5, <2>2, <2>3, <2>4, <2>7 DEF ReassemblyInv
<1> QED  BY <1>6, <1>7

\* The buffer is the run of the invariant.
LEMMA InvIsStream ==
  ASSUME ReassemblyInv
  PROVE  BufferIsStream
<1>1. isn \in SeqNums
  BY StreamAssumption DEF ReassemblyInv
<1>2. CASE base = Nil
  <2>1. dir.buf = <<>>
    BY <1>2, NewDirIs DEF ReassemblyInv
  <2> QED  BY <1>2, <2>1 DEF BufferIsStream
<1>3. CASE base # Nil
  <2>1. PICK d, b : d = dir /\ b = base
    OBVIOUS
  <2>2. PICK n \in Ends : Running(d, b, n)
    BY <1>3, <2>1 DEF ReassemblyInv
  <2>3. b \in Nat /\ n \in Nat /\ b =< n /\ Len(d.buf) = n - b /\ d.buf \in Seq(Int)
        /\ d.buf = BytesOf(b, n - b) /\ d.next = SeqNum(n)
    BY <1>1, <2>2, RunningFacts DEF Running
  <2>4. \A i \in DOMAIN d.buf : d.buf[i] = b + i - 1
    <3>1. n - b \in Nat /\ DOMAIN d.buf = 1..(n - b)
      BY <2>3
    <3>2. \A i \in 1..(n - b) : BytesOf(b, n - b)[i] = b + i - 1
      BY <2>3, <3>1, BytesAre
    <3> QED  BY <2>3, <3>1, <3>2
  <2>5. b + Len(d.buf) = n
    BY <2>3
  <2> QED  BY <2>1, <2>3, <2>4, <2>5 DEF BufferIsStream
<1> QED  BY <1>2, <1>3

\* append_payload and drain_ooo: for every initial number, the number space
\* wrapping around included, and for any loss, duplication, reordering and
\* resegmentation, the buffer is a contiguous run of the stream from the first
\* byte tracked, every captured byte is in the run, held, or lost by an
\* eviction or a replacement, and the map never exceeds OOO_CAP_SEGMENTS.
THEOREM BufferIsTheStream ==
  ReassemblySpec => [](BufferIsStream /\ NothingVanishes /\ Cardinality(DOMAIN dir.ooo) =< OooCap)
<1>1. ReassemblyInit => ReassemblyInv
  BY InitReassembly
<1>2. ReassemblyInv /\ [ReassemblyNext]_segmentVars => ReassemblyInv'
  <2> SUFFICES ASSUME ReassemblyInv, [ReassemblyNext]_segmentVars PROVE ReassemblyInv'
    OBVIOUS
  <2>1. CASE Syn
    BY <2>1, SynStep
  <2>2. ASSUME NEW p \in Positions, NEW l \in 1..MaxSeg, Segment(p, l) PROVE ReassemblyInv'
    BY <2>2, SegmentStep
  <2>3. CASE UNCHANGED segmentVars
    BY <2>3 DEF segmentVars, ReassemblyInv, Running, Piece, SeqNum, NothingVanishes, Held
  <2> QED  BY <2>1, <2>2, <2>3 DEF ReassemblyNext
<1>3. ReassemblyInv => BufferIsStream /\ NothingVanishes /\ Cardinality(DOMAIN dir.ooo) =< OooCap
  BY InvIsStream DEF ReassemblyInv
<1> QED  BY <1>1, <1>2, <1>3, PTL DEF ReassemblySpec

-----------------------------------------------------------------------------
(* drain_ooo takes the keys of its map in the order of natural numbers.     *)
(* That is the order of the stream as long as the numbers of the connection *)
(* do not wrap around.                                                      *)

NoWrap == \A i \in Isns : i + StreamLen + 1 < Space

LEMMA OrderIsStream ==
  ASSUME NoWrap, isn \in Isns, NEW p \in 0..(StreamLen + 1)
  PROVE  SeqNum(p) = isn + p
<1>1. isn \in SeqNums /\ isn + StreamLen + 1 < Space
  BY StreamAssumption DEF NoWrap
<1>2. SeqNum(p) = IF isn + p < Space THEN isn + p ELSE isn + p - Space
  BY <1>1, SeqNumIs
<1>3. isn + p < Space
  BY <1>1, StreamAssumption, SeqAssumption DEF SeqNums
<1> QED  BY <1>2, <1>3

\* When the first held segment is beyond the run, all are.
LEMMA GapIsWhole ==
  ASSUME NoWrap, isn \in Isns, NEW d, NEW b, NEW n, Running(d, b, n), AtGap(d)
  PROVE  \A s \in DOMAIN d.ooo : SeqDiff(s, d.next) > 0
<1>0. isn \in SeqNums /\ isn \in Nat
  BY StreamAssumption, SeqAssumption DEF SeqNums
<1> TAKE t \in DOMAIN d.ooo
<1> DEFINE s == Lowest(d.ooo)
<1>1. s \in DOMAIN d.ooo /\ s =< t /\ SeqDiff(s, d.next) > 0
  BY <1>0, LowestFacts DEF AtGap
<1> HIDE DEF s
<1>2. PICK p \in Positions : s = SeqNum(p)
  BY <1>0, <1>1, PieceFacts DEF Running
<1>3. PICK q \in Positions : t = SeqNum(q)
  BY <1>0, PieceFacts DEF Running
<1>4. p \in 0..(StreamLen + 1) /\ q \in 0..(StreamLen + 1) /\ p \in Nat /\ q \in Nat /\ n \in Nat
  BY <1>0, RunningFacts, StreamAssumption DEF Positions
<1>5. s = isn + p /\ t = isn + q
  BY <1>2, <1>3, <1>4, OrderIsStream
<1>6. p > n
  BY <1>0, <1>1, <1>2, AheadIs
<1>7. q > n
  BY <1>0, <1>1, <1>4, <1>5, <1>6
<1> QED  BY <1>0, <1>3, <1>7, AheadIs

LEMMA StrandedStep ==
  ASSUME NoWrap, ReassemblyInv, NothingStranded, NEW p \in Positions, NEW l \in 1..MaxSeg, Segment(p, l)
  PROVE  NothingStranded'
<1>1. isn \in Isns /\ isn \in SeqNums /\ Cardinality(DOMAIN dir.ooo) =< OooCap
  BY StreamAssumption DEF ReassemblyInv
<1>2. Fits(p, l)
  <2>1. p + l - 1 =< StreamLen
    BY DEF Segment
  <2> QED  BY <2>1, StreamAssumption DEF Fits, Positions
<1>3. PICK e, d, b : e = dir' /\ d = dir /\ b = base
  OBVIOUS
<1>4. e = AppendPayload(d, SeqNum(p), BytesOf(p, l))
  BY <1>3 DEF Segment
<1>5. \A s \in DOMAIN d.ooo : SeqDiff(s, d.next) > 0
  BY <1>3 DEF NothingStranded
<1>6. \A s \in DOMAIN e.ooo : SeqDiff(s, e.next) > 0
  <2>1. CASE b = Nil
    <3>1. d = NewDir
      BY <1>3, <2>1 DEF ReassemblyInv
    <3>2. DOMAIN e.ooo = {}
      BY <1>1, <1>2, <1>4, <3>1, FirstRuns
    <3> QED  BY <3>2
  <2>2. CASE b # Nil
    <3>1. PICK n \in Ends : Running(d, b, n)
      BY <1>3, <2>2 DEF ReassemblyInv
    <3>2. CASE p > n
      <4>1. d.next # Nil /\ SeqDiff(SeqNum(p), d.next) > 0
        BY <1>1, <3>1, <3>2, AheadIs
      <4>2. e = HoldOoo(d, SeqNum(p), BytesOf(p, l))
        BY <1>4, <4>1 DEF AppendPayload
      <4>3. Piece(SeqNum(p), BytesOf(p, l))
        BY <1>2 DEF Piece, Fits
      <4>4. e.next = d.next /\ DOMAIN e.ooo = (DOMAIN d.ooo \ Evictable(d.ooo)) \cup {SeqNum(p)}
        BY <1>1, <1>3, <3>1, <4>2, <4>3, HoldRuns
      <4> QED  BY <1>5, <4>1, <4>4
    <3>3. CASE ~(p > n)
      <4>1. (\E m \in Ends : Later(d, e, b, n, m)) /\ (e = d \/ AtGap(e))
        BY <1>1, <1>2, <1>4, <3>1, <3>3, NotAheadRuns
      <4>2. PICK m \in Ends : Running(e, b, m)
        BY <4>1 DEF Later
      <4>3. CASE e = d
        BY <1>5, <4>3
      <4>4. CASE AtGap(e)
        BY <1>1, <4>2, <4>4, GapIsWhole
      <4> QED  BY <4>1, <4>3, <4>4
    <3> QED  BY <3>2, <3>3
  <2> QED  BY <2>1, <2>2
<1> QED  BY <1>3, <1>6 DEF NothingStranded

\* The whole of ReassemblySound, for every connection whose numbers do not wrap
\* around: also nothing that could be appended is left in the map.  Without that
\* hypothesis the statement is false: drain_ooo stops at the lowest key, and
\* after a wrap the lowest key is not the next byte of the stream.
THEOREM ReassemblyIsSound ==
  ASSUME NoWrap
  PROVE  ReassemblySpec => []ReassemblySound
<1> DEFINE Inv == ReassemblyInv /\ NothingStranded
<1>1. ReassemblyInit => Inv
  BY InitReassembly, NewDirIs DEF ReassemblyInit, NothingStranded
<1>2. Inv /\ [ReassemblyNext]_segmentVars => Inv'
  <2> SUFFICES ASSUME Inv, [ReassemblyNext]_segmentVars PROVE Inv'
    OBVIOUS
  <2>1. CASE Syn
    <3>1. dir = NewDir /\ dir' = SynSeen(NewDir, isn) /\ isn \in SeqNums
      BY <2>1, StreamAssumption DEF Syn, ReassemblyInv
    <3>2. DOMAIN dir'.ooo = {}
      BY <3>1, SynRuns
    <3> QED  BY <2>1, <3>2, SynStep DEF NothingStranded
  <2>2. ASSUME NEW p \in Positions, NEW l \in 1..MaxSeg, Segment(p, l) PROVE Inv'
    BY <2>2, SegmentStep, StrandedStep
  <2>3. CASE UNCHANGED segmentVars
    BY <2>3 DEF segmentVars, ReassemblyInv, Running, Piece, SeqNum, NothingVanishes, Held, NothingStranded
  <2> QED  BY <2>1, <2>2, <2>3 DEF ReassemblyNext
<1>3. Inv => ReassemblySound
  BY InvIsStream DEF ReassemblyInv, ReassemblySound
<1> QED  BY <1>1, <1>2, <1>3, PTL DEF ReassemblySpec

-----------------------------------------------------------------------------
(* The flow table and the joiner.                                          *)

\* No record is ahead of its source's clock.
WithinClock ==
    /\ \A f \in FlowKeys : flows[f] # None => flows[f].last =< clock[SourceOf(f)]
    /\ \A f \in FlowKeys : pending[f] # None => pending[f].last =< clock[SourceOf(f)]
    /\ \A s \in Sources : lastCleanup[s] =< clock[s] /\ beat[s] =< clock[s]

\* What the last sweep of a source left in the table had not timed out then, and
\* a heartbeat is at most one interval younger than the last sweep.
Swept ==
    /\ \A f \in FlowKeys : flows[f] # None =>
          lastCleanup[SourceOf(f)] - flows[f].last =< FlowTimeout
    /\ \A s \in Sources : beat[s] < lastCleanup[s] + CleanupInterval

\* While a flow has an unanswered request, what the joiner holds for it is what
\* the parser has seen.
InStep ==
    \A f \in FlowKeys :
        (pending[f] # None /\ flows[f] # None /\ flows[f].at # "WaitingForRequest")
            => pending[f].call = flows[f].call /\ pending[f].sse = flows[f].sse

\* The inductive invariant.
IInv ==
    /\ TypeOK /\ WithinClock /\ Swept /\ InStep
    /\ PendingCollected /\ ExchangeIsWhole

-----------------------------------------------------------------------------
\* A flow key names one of the sources (FlowKey.source_id).
LEMMA SourceOfType == ASSUME NEW f \in FlowKeys PROVE SourceOf(f) \in Sources
  BY DEF FlowKeys, SourceOf

\* What the packet handlers hand to Processed: the table and the joiner differ
\* from the current ones at f only, where they are up to date and in step.
Applied(f, tab, pend, responding, closed) ==
    /\ tab \in [FlowKeys -> Flow \cup {None}]
    /\ pend \in [FlowKeys -> Pending \cup {None}]
    /\ \A g \in FlowKeys : g # f => tab[g] = flows[g] /\ pend[g] = pending[g]
    /\ tab[f] # None /\ tab[f].last = clock[SourceOf(f)]
    /\ pend[f] # None => /\ pend[f].last =< clock[SourceOf(f)]
                         /\ beat[SourceOf(f)] - pend[f].last =< PendingStale
    /\ (pend[f] # None /\ (tab[f].at # "WaitingForRequest" \/ f \in responding))
          => pend[f].call = tab[f].call /\ pend[f].sse = tab[f].sse
    /\ responding \subseteq {f} /\ closed \subseteq {f}

\* What the joiner sends is whole when every answered flow is in step with the
\* joiner (on_response).
LEMMA PairedIsWhole ==
  ASSUME NEW tab \in [FlowKeys -> Flow \cup {None}],
         NEW pend \in [FlowKeys -> Pending \cup {None}],
         NEW answered \in SUBSET FlowKeys,
         \A f \in answered : pend[f] # None =>
            /\ tab[f] # None /\ pend[f].call = tab[f].call /\ pend[f].sse = tab[f].sse
  PROVE  /\ Paired(tab, pend, answered) \subseteq Exchange
         /\ \A x \in Paired(tab, pend, answered) : x.request = x.response /\ x.sse = x.sent
<1> SUFFICES ASSUME NEW x \in Paired(tab, pend, answered)
             PROVE  x \in Exchange /\ x.request = x.response /\ x.sse = x.sent
  OBVIOUS
<1>1. PICK f \in {g \in answered : pend[g] # None} :
         x = [flow |-> f, request |-> pend[f].call, response |-> tab[f].call,
              sse |-> pend[f].sse, sent |-> tab[f].sse]
  BY DEF Paired
<1>2. pend[f] \in Pending /\ tab[f] \in Flow /\ f \in FlowKeys
  BY <1>1
<1>3. /\ pend[f].call \in Nat /\ pend[f].sse \in Nat
      /\ tab[f].call \in Nat /\ tab[f].sse \in Nat
  BY <1>2 DEF Pending, Flow
<1> QED  BY <1>1, <1>2, <1>3 DEF Exchange

\* A packet keeps the invariant, whatever its handler did to its own flow.
LEMMA ProcessedStep ==
  ASSUME IInv, ncalls' \in Nat,
         NEW f \in FlowKeys, NEW tab, NEW pend, NEW responding, NEW closed,
         Applied(f, tab, pend, responding, closed),
         Processed(f, tab, pend, responding, closed)
  PROVE  IInv'
<1> DEFINE s == SourceOf(f)
           now == clock[s]
           kept == Removed(tab, closed)
           gone == TimedOut(kept, s, now)
           answered == responding \cup Flushed(kept, gone)
<1>s. s \in Sources /\ now \in Nat
  BY SourceOfType DEF IInv, TypeOK
<1>1. /\ flows' = Removed(kept, gone)
      /\ lastCleanup' = CleanupNoted(s, now)
      /\ pending' = AfterResponses(pend, answered)
      /\ exchanges' = exchanges \cup Paired(tab, pend, answered)
      /\ expired' = {} /\ clock' = clock /\ beat' = beat
  BY DEF Processed
<1>k. /\ kept \in [FlowKeys -> Flow \cup {None}]
      /\ \A g \in FlowKeys : kept[g] # None => kept[g] = tab[g]
      /\ \A g \in FlowKeys : g # f => kept[g] = flows[g]
  BY DEF Applied, Removed
<1>g. /\ gone \subseteq FlowKeys /\ answered \subseteq FlowKeys
      /\ \A g \in gone : kept[g] # None
      /\ \A g \in answered : g \in responding \/ (kept[g] # None /\ kept[g].at = "ReadingResponseBody")
  BY DEF Applied, TimedOut, Flushed
<1> HIDE DEF s, now, kept, gone, answered
<1>2. /\ flows' \in [FlowKeys -> Flow \cup {None}]
      /\ \A g \in FlowKeys : flows'[g] # None => g \notin gone /\ flows'[g] = kept[g] /\ kept[g] = tab[g]
  BY <1>1, <1>k DEF Removed
<1>3. /\ pending' \in [FlowKeys -> Pending \cup {None}]
      /\ \A g \in FlowKeys : pending'[g] # None => g \notin answered /\ pending'[g] = pend[g]
  BY <1>1 DEF AfterResponses, Applied
<1>4. \A g \in answered : pend[g] # None =>
         tab[g] # None /\ pend[g].call = tab[g].call /\ pend[g].sse = tab[g].sse
  <2> SUFFICES ASSUME NEW g \in answered, pend[g] # None
               PROVE tab[g] # None /\ pend[g].call = tab[g].call /\ pend[g].sse = tab[g].sse
    OBVIOUS
  <2>1. CASE g = f
    <3>1. g \in responding \/ tab[g].at # "WaitingForRequest"
      BY <2>1, <1>g, <1>k
    <3> QED  BY <3>1, <2>1 DEF Applied
  <2>2. CASE g # f
    <3>1. g \notin responding /\ g \in FlowKeys
      BY <2>2, <1>g DEF Applied
    <3>2. kept[g] # None /\ kept[g].at = "ReadingResponseBody" /\ kept[g] = tab[g] /\ kept[g] = flows[g]
      BY <3>1, <2>2, <1>g, <1>k
    <3>3. pend[g] = pending[g]
      BY <3>1, <2>2 DEF Applied
    <3> QED  BY <3>1, <3>2, <3>3 DEF IInv, InStep
  <2> QED  BY <2>1, <2>2
<1>5. exchanges' \subseteq Exchange /\ ExchangeIsWhole'
  <2>1. tab \in [FlowKeys -> Flow \cup {None}] /\ pend \in [FlowKeys -> Pending \cup {None}]
    BY DEF Applied
  <2>2. /\ Paired(tab, pend, answered) \subseteq Exchange
        /\ \A x \in Paired(tab, pend, answered) : x.request = x.response /\ x.sse = x.sent
    BY <2>1, <1>4, <1>g, PairedIsWhole
  <2> QED  BY <2>2, <1>1 DEF IInv, TypeOK, ExchangeIsWhole
<1>6. /\ lastCleanup' \in [Sources -> Nat]
      /\ \A t \in Sources : lastCleanup[t] =< lastCleanup'[t] /\ lastCleanup'[t] =< clock[t]
      /\ \A t \in Sources : t # s => lastCleanup'[t] = lastCleanup[t]
      /\ lastCleanup'[s] = IF CleanupDue(s, now) THEN now ELSE lastCleanup[s]
  BY <1>1, <1>s DEF IInv, TypeOK, WithinClock, CleanupNoted, s, now
<1>7. TypeOK'
  BY <1>1, <1>2, <1>3, <1>5, <1>6 DEF IInv, TypeOK
<1>8. WithinClock'
  <2>1. \A g \in FlowKeys : flows'[g] # None => flows'[g].last =< clock[SourceOf(g)]
    BY <1>2, SourceOfType DEF IInv, TypeOK, WithinClock, Applied
  <2>2. \A g \in FlowKeys : pending'[g] # None => pending'[g].last =< clock[SourceOf(g)]
    BY <1>3 DEF IInv, WithinClock, Applied
  <2> QED  BY <2>1, <2>2, <1>1, <1>6 DEF IInv, WithinClock
<1>9. Swept'
  <2>1. ASSUME NEW g \in FlowKeys, flows'[g] # None
        PROVE  lastCleanup'[SourceOf(g)] - flows'[g].last =< FlowTimeout
    <3>1. /\ g \notin gone /\ flows'[g] = kept[g] /\ kept[g] # None /\ kept[g] = tab[g]
          /\ SourceOf(g) \in Sources
          /\ tab[g] \in Flow /\ tab[g].last \in Nat
      BY <2>1, <1>2, <1>k, SourceOfType DEF Flow
    <3>2. CASE SourceOf(g) = s /\ CleanupDue(s, now)
      <4>1. ~(now - kept[g].last > FlowTimeout)
        BY <3>1, <3>2 DEF TimedOut, gone
      <4> QED  BY <4>1, <3>1, <3>2, <1>6, <1>s, TimeoutAssumption
    <3>3. CASE ~(SourceOf(g) = s /\ CleanupDue(s, now))
      <4>1. lastCleanup'[SourceOf(g)] = lastCleanup[SourceOf(g)]
        BY <3>1, <3>3, <1>6
      <4>2. CASE g = f
        <5>1. tab[g].last = clock[SourceOf(g)] /\ lastCleanup[SourceOf(g)] =< clock[SourceOf(g)]
          BY <4>2, <3>1 DEF Applied, IInv, WithinClock
        <5>2. lastCleanup[SourceOf(g)] \in Nat /\ clock[SourceOf(g)] \in Nat
          BY <3>1 DEF IInv, TypeOK
        <5> QED  BY <5>1, <5>2, <4>1, <3>1, TimeoutAssumption
      <4>3. CASE g # f
        <5>1. tab[g] = flows[g]
          BY <4>3 DEF Applied
        <5> QED  BY <5>1, <4>1, <3>1 DEF IInv, Swept
      <4> QED  BY <4>2, <4>3
    <3> QED  BY <3>2, <3>3
  <2>2. \A t \in Sources : beat[t] < lastCleanup'[t] + CleanupInterval
    <3> TAKE t \in Sources
    <3>1. /\ beat[t] < lastCleanup[t] + CleanupInterval /\ lastCleanup[t] =< lastCleanup'[t]
          /\ beat[t] \in Nat /\ lastCleanup[t] \in Nat /\ lastCleanup'[t] \in Nat
      BY <1>6 DEF IInv, Swept, TypeOK
    <3> QED  BY <3>1, TimeoutAssumption
  <2> QED  BY <2>1, <2>2, <1>1 DEF Swept
<1>10. InStep'
  <2> SUFFICES ASSUME NEW g \in FlowKeys, pending'[g] # None, flows'[g] # None,
                      flows'[g].at # "WaitingForRequest"
               PROVE  pending'[g].call = flows'[g].call /\ pending'[g].sse = flows'[g].sse
    BY DEF InStep
  <2>1. flows'[g] = tab[g] /\ pending'[g] = pend[g]
    BY <1>2, <1>3
  <2>2. CASE g = f
    BY <2>1, <2>2 DEF Applied
  <2>3. CASE g # f
    BY <2>1, <2>3 DEF Applied, IInv, InStep
  <2> QED  BY <2>2, <2>3
<1>11. PendingCollected'
  BY <1>1, <1>3 DEF IInv, PendingCollected, Applied
<1> QED  BY <1>5, <1>7, <1>8, <1>9, <1>10, <1>11 DEF IInv

-----------------------------------------------------------------------------
\* Touching a flow gives a flow with the packet's time (or_insert_with).
LEMMA TouchedType ==
  ASSUME TypeOK, NEW f \in FlowKeys, NEW now \in Nat
  PROVE  /\ Touched(f, now) \in Flow /\ Touched(f, now).last = now
         /\ flows[f] = None => Touched(f, now).at = "WaitingForRequest"
         /\ flows[f] # None => /\ Touched(f, now).at = flows[f].at
                              /\ Touched(f, now).call = flows[f].call
                              /\ Touched(f, now).sse = flows[f].sse
<1>1. CASE flows[f] = None
  BY <1>1 DEF Touched, NewFlow, Flow, Places
<1>2. CASE flows[f] # None
  <2>1. flows[f] \in Flow
    BY <1>2 DEF TypeOK
  <2> QED  BY <2>1, <1>2 DEF Touched, Flow
<1> QED  BY <1>1, <1>2

\* Each packet handler hands Processed something that satisfies Applied.
LEMMA RequestStep == ASSUME IInv, NEW f \in FlowKeys, RequestPacket(f) PROVE IInv'
<1> DEFINE now == clock[SourceOf(f)]
           tab == [flows EXCEPT ![f] = [at |-> "WaitingForResponse", last |-> now,
                                        call |-> ncalls', sse |-> 0]]
<1>1. ncalls' \in Nat /\ Processed(f, tab, OnRequest(f, ncalls', now), {}, {})
  BY DEF IInv, TypeOK, RequestPacket
<1>2. now \in Nat /\ beat[SourceOf(f)] \in Nat /\ beat[SourceOf(f)] =< now
  BY SourceOfType DEF IInv, TypeOK, WithinClock
<1>3. [at |-> "WaitingForResponse", last |-> now, call |-> ncalls', sse |-> 0] \in Flow
  BY <1>1, <1>2 DEF Flow, Places
<1>4. [call |-> ncalls', sse |-> 0, last |-> now] \in Pending
  BY <1>1, <1>2 DEF Pending
<1>5. Applied(f, tab, OnRequest(f, ncalls', now), {}, {})
  <2>1. tab[f] # None /\ flows \in [FlowKeys -> Flow \cup {None}]
                    /\ pending \in [FlowKeys -> Pending \cup {None}]
    BY <1>3, NoneAssumption DEF IInv, TypeOK
  <2> QED  BY <1>2, <1>3, <1>4, <2>1, TimeoutAssumption DEF Applied, OnRequest
<1> QED  BY <1>1, <1>5, ProcessedStep

\* The handlers that only move the flow's own record on and send no request.
LEMMA FlowStep ==
  ASSUME IInv, NEW f \in FlowKeys, NEW r \in Flow, NEW pend, NEW responding, NEW closed,
         r.last = clock[SourceOf(f)], ncalls' = ncalls,
         pend \in [FlowKeys -> Pending \cup {None}],
         \A g \in FlowKeys : g # f => pend[g] = pending[g],
         pend[f] # None => /\ pending[f] # None /\ pending[f].last =< pend[f].last
                           /\ pend[f].last =< clock[SourceOf(f)],
         (pend[f] # None /\ (r.at # "WaitingForRequest" \/ f \in responding))
            => pend[f].call = r.call /\ pend[f].sse = r.sse,
         responding \subseteq {f}, closed \subseteq {f},
         Processed(f, [flows EXCEPT ![f] = r], pend, responding, closed)
  PROVE  IInv'
<1> DEFINE tab == [flows EXCEPT ![f] = r]
<1>1. tab \in [FlowKeys -> Flow \cup {None}] /\ tab[f] = r
        /\ \A g \in FlowKeys : g # f => tab[g] = flows[g]
  BY DEF IInv, TypeOK
<1>2. r # None
  BY NoneAssumption
<1>3. pend[f] # None => beat[SourceOf(f)] - pend[f].last =< PendingStale
  <2> HAVE pend[f] # None
  <2>1. pend[f] \in Pending /\ pending[f] \in Pending
    BY DEF IInv, TypeOK
  <2>2. pend[f].last \in Nat /\ pending[f].last \in Nat /\ beat[SourceOf(f)] \in Nat
    BY <2>1, SourceOfType DEF IInv, TypeOK, Pending
  <2>3. beat[SourceOf(f)] - pending[f].last =< PendingStale
    BY DEF IInv, PendingCollected
  <2> QED  BY <2>2, <2>3, TimeoutAssumption
<1> HIDE DEF tab
<1>4. Applied(f, tab, pend, responding, closed)
  BY <1>1, <1>2, <1>3 DEF Applied
<1>5. Processed(f, tab, pend, responding, closed)
  BY DEF tab
<1>6. ncalls' \in Nat
  BY DEF IInv, TypeOK
<1> QED  BY <1>4, <1>5, <1>6, ProcessedStep

\* The handlers that leave the joiner's record of the flow alone.
LEMMA QuietStep ==
  ASSUME IInv, NEW f \in FlowKeys, NEW r \in Flow, NEW responding, NEW closed,
         r.last = clock[SourceOf(f)], ncalls' = ncalls,
         responding \subseteq {f}, closed \subseteq {f},
         pending[f] # None /\ (r.at # "WaitingForRequest" \/ f \in responding)
            => /\ flows[f] # None /\ flows[f].at # "WaitingForRequest"
               /\ r.call = flows[f].call /\ r.sse = flows[f].sse,
         Processed(f, [flows EXCEPT ![f] = r], pending, responding, closed)
  PROVE  IInv'
<1>1. pending \in [FlowKeys -> Pending \cup {None}]
  BY DEF IInv, TypeOK
<1>2. pending[f] # None => pending[f].last =< pending[f].last /\ pending[f].last =< clock[SourceOf(f)]
  BY <1>1 DEF IInv, WithinClock, Pending
<1>3. (pending[f] # None /\ (r.at # "WaitingForRequest" \/ f \in responding))
         => pending[f].call = r.call /\ pending[f].sse = r.sse
  BY DEF IInv, InStep
<1> QED  BY <1>1, <1>2, <1>3, FlowStep

\* A response head, an SSE event, the end of a response, a packet that emits
\* nothing and a closing packet keep the invariant.
LEMMA PacketStep ==
  ASSUME IInv, NEW f \in FlowKeys,
         \/ ResponseHeadPacket(f) \/ SsePacket(f) \/ ResponseEndPacket(f)
         \/ QuietPacket(f) \/ ClosingPacket(f)
  PROVE  IInv'
<1> DEFINE now == clock[SourceOf(f)]
           r == Touched(f, now)
<1>n. now \in Nat /\ TypeOK
  BY SourceOfType DEF IInv, TypeOK
<1>r. /\ r \in Flow /\ r.last = now
      /\ flows[f] = None => r.at = "WaitingForRequest"
      /\ flows[f] # None => r.at = flows[f].at /\ r.call = flows[f].call /\ r.sse = flows[f].sse
  BY <1>n, TouchedType
<1> HIDE DEF r
<1>1. CASE ResponseHeadPacket(f)
  <2> DEFINE q == [r EXCEPT !.at = "ReadingResponseBody"]
  <2>1. q \in Flow /\ q.last = now /\ q.call = r.call /\ q.sse = r.sse
    BY <1>r DEF Flow, Places
  <2>2. Processed(f, [flows EXCEPT ![f] = q], pending, {}, {}) /\ ncalls' = ncalls
    BY <1>1 DEF ResponseHeadPacket, r
  <2>3. flows[f] # None /\ flows[f].at = "WaitingForResponse"
    BY <1>1 DEF ResponseHeadPacket, At
  <2> HIDE DEF q
  <2> QED  BY <2>1, <2>2, <2>3, <1>r, QuietStep
<1>2. CASE SsePacket(f)
  <2> DEFINE q == [r EXCEPT !.sse = @ + 1]
             pend == OnSse(f, now)
  <2>1. q \in Flow /\ q.last = now /\ q.at = r.at /\ q.call = r.call /\ q.sse = r.sse + 1
    BY <1>r DEF Flow
  <2>2. Processed(f, [flows EXCEPT ![f] = q], pend, {}, {}) /\ ncalls' = ncalls
    BY <1>2 DEF SsePacket, r
  <2>3. flows[f] # None /\ flows[f].at = "ReadingResponseBody"
    BY <1>2 DEF SsePacket, At
  <2>4. pending[f] # None => /\ pending[f] \in Pending /\ pending[f].last =< now
                             /\ pending[f].call = r.call /\ pending[f].sse = r.sse
    BY <2>3, <1>r DEF IInv, TypeOK, WithinClock, InStep
  <2>5. /\ pend \in [FlowKeys -> Pending \cup {None}]
        /\ \A g \in FlowKeys : g # f => pend[g] = pending[g]
        /\ pend[f] # None => /\ pending[f] # None /\ pending[f].last =< pend[f].last
                             /\ pend[f].last =< now
                             /\ pend[f].call = pending[f].call /\ pend[f].sse = pending[f].sse + 1
    <3>1. CASE pending[f] = None
      BY <3>1, <1>n DEF OnSse, TypeOK
    <3>2. CASE pending[f] # None
      <4> DEFINE p == [pending[f] EXCEPT !.sse = @ + 1, !.last = IF now > @ THEN now ELSE @]
      <4>1. pend = [pending EXCEPT ![f] = p]
        BY <3>2, <1>n DEF OnSse, TypeOK
      <4>2. /\ p \in Pending /\ pending[f].last =< p.last /\ p.last =< now
            /\ p.call = pending[f].call /\ p.sse = pending[f].sse + 1
        <5>1. /\ pending[f] \in Pending /\ pending[f].last \in Nat /\ pending[f].last =< now
              /\ pending[f].sse \in Nat
          BY <3>2, <2>4 DEF Pending
        <5>2. p.call = pending[f].call /\ p.sse = pending[f].sse + 1
          BY <5>1 DEF Pending
        <5>3. p.last = IF now > pending[f].last THEN now ELSE pending[f].last
          BY <5>1 DEF Pending
        <5>4. p \in Pending
          <6>1. (IF now > pending[f].last THEN now ELSE pending[f].last) \in Nat
            BY <5>1, <1>n
          <6>2. pending[f].sse + 1 \in Nat
            BY <5>1
          <6> HIDE DEF now
          <6> QED  BY <5>1, <6>1, <6>2 DEF Pending
        <5> QED  BY <5>1, <5>2, <5>3, <5>4, <1>n
      <4> HIDE DEF p
      <4> QED  BY <4>1, <4>2, <3>2, <1>n DEF TypeOK
    <3> QED  BY <3>1, <3>2
  <2> HIDE DEF q, pend
  <2> QED  BY <2>1, <2>2, <2>3, <2>4, <2>5, <1>r, FlowStep
<1>3. CASE ResponseEndPacket(f)
  <2> DEFINE q == [r EXCEPT !.at = "WaitingForRequest"]
  <2>1. q \in Flow /\ q.last = now /\ q.call = r.call /\ q.sse = r.sse
    BY <1>r DEF Flow, Places
  <2>2. Processed(f, [flows EXCEPT ![f] = q], pending, {f}, {}) /\ ncalls' = ncalls
    BY <1>3 DEF ResponseEndPacket, r
  <2>3. flows[f] # None /\ flows[f].at = "ReadingResponseBody"
    BY <1>3 DEF ResponseEndPacket, At
  <2> HIDE DEF q
  <2> QED  BY <2>1, <2>2, <2>3, <1>r, QuietStep
<1>4. CASE QuietPacket(f)
  <2>1. Processed(f, [flows EXCEPT ![f] = r], pending, {}, {}) /\ ncalls' = ncalls
    BY <1>4 DEF QuietPacket, r
  <2> QED  BY <2>1, <1>r, QuietStep
<1>5. CASE ClosingPacket(f)
  <2> DEFINE tab == [flows EXCEPT ![f] = r]
  <2>1. Processed(f, tab, pending, Flushed(tab, {f}), {f}) /\ ncalls' = ncalls /\ flows[f] # None
    BY <1>5 DEF ClosingPacket, r
  <2>2. tab[f] = r
    BY DEF IInv, TypeOK
  <2>3. Flushed(tab, {f}) \subseteq {f} /\ (f \in Flushed(tab, {f}) => r.at = "ReadingResponseBody")
    BY <2>2 DEF Flushed
  <2> HIDE DEF tab
  <2>4. Processed(f, [flows EXCEPT ![f] = r], pending, Flushed(tab, {f}), {f})
    BY <2>1 DEF tab
  <2> QED  BY <2>1, <2>3, <2>4, <1>r, QuietStep
<1> QED  BY <1>1, <1>2, <1>3, <1>4, <1>5

\* A heartbeat keeps the invariant: both sweeps run, the flow table's first.
LEMMA HeartbeatStep == ASSUME IInv, NEW s \in Sources, Heartbeat(s) PROVE IInv'
<1> DEFINE now == clock[s]
           gone == TimedOut(flows, s, now)
           answered == Flushed(flows, gone)
           joined == AfterResponses(pending, answered)
           stale == StalePending(joined, s, now)
<1>1. /\ flows' = Removed(flows, gone)
      /\ lastCleanup' = CleanupNoted(s, now)
      /\ pending' = [f \in FlowKeys |-> IF f \in stale THEN None ELSE joined[f]]
      /\ exchanges' = exchanges \cup Paired(flows, pending, answered)
      /\ expired' = stale
      /\ beat' = [beat EXCEPT ![s] = now]
      /\ clock' = clock /\ ncalls' = ncalls
  BY DEF Heartbeat
<1>2. /\ now \in Nat /\ gone \subseteq FlowKeys /\ answered \subseteq gone /\ stale \subseteq FlowKeys
      /\ \A g \in answered : flows[g] # None /\ flows[g].at = "ReadingResponseBody"
  BY DEF IInv, TypeOK, TimedOut, Flushed, StalePending
<1>3. joined \in [FlowKeys -> Pending \cup {None}]
        /\ \A g \in FlowKeys : joined[g] # None => joined[g] = pending[g]
  BY DEF IInv, TypeOK, AfterResponses
<1>4. \A g \in FlowKeys : joined[g] # None /\ SourceOf(g) = s /\ now - joined[g].last > PendingStale
                             => g \in stale
  BY DEF StalePending
<1>5. \A g \in FlowKeys : flows[g] # None /\ SourceOf(g) = s /\ CleanupDue(s, now)
                             /\ now - flows[g].last > FlowTimeout => g \in gone
  BY DEF TimedOut
<1> HIDE DEF now, gone, answered, joined, stale
<1>6. /\ flows' \in [FlowKeys -> Flow \cup {None}]
      /\ \A g \in FlowKeys : flows'[g] # None => g \notin gone /\ flows'[g] = flows[g]
  BY <1>1, <1>2 DEF IInv, TypeOK, Removed
<1>7. /\ pending' \in [FlowKeys -> Pending \cup {None}]
      /\ \A g \in FlowKeys : pending'[g] # None =>
            pending'[g] = pending[g] /\ joined[g] = pending[g] /\ g \notin stale
  BY <1>1, <1>3
<1>8. exchanges' \subseteq Exchange /\ ExchangeIsWhole'
  <2>1. \A g \in answered : pending[g] # None =>
           flows[g] # None /\ pending[g].call = flows[g].call /\ pending[g].sse = flows[g].sse
    BY <1>2 DEF IInv, InStep
  <2>2. /\ flows \in [FlowKeys -> Flow \cup {None}] /\ pending \in [FlowKeys -> Pending \cup {None}]
        /\ answered \subseteq FlowKeys
    BY <1>2 DEF IInv, TypeOK
  <2>3. /\ Paired(flows, pending, answered) \subseteq Exchange
        /\ \A x \in Paired(flows, pending, answered) : x.request = x.response /\ x.sse = x.sent
    BY <2>1, <2>2, PairedIsWhole
  <2> QED  BY <2>3, <1>1 DEF IInv, TypeOK, ExchangeIsWhole
<1>9. /\ lastCleanup' \in [Sources -> Nat]
      /\ \A t \in Sources : lastCleanup'[t] =< clock[t] /\ lastCleanup[t] \in Nat
      /\ \A t \in Sources : t # s => lastCleanup'[t] = lastCleanup[t]
      /\ lastCleanup'[s] = IF CleanupDue(s, now) THEN now ELSE lastCleanup[s]
  BY <1>1, <1>2 DEF IInv, TypeOK, WithinClock, CleanupNoted, now
<1>10. /\ beat' \in [Sources -> Nat] /\ beat'[s] = now
       /\ \A t \in Sources : t # s => beat'[t] = beat[t]
  BY <1>1, <1>2 DEF IInv, TypeOK
<1>11. TypeOK'
  BY <1>1, <1>2, <1>6, <1>7, <1>8, <1>9, <1>10 DEF IInv, TypeOK
<1>12. WithinClock'
  <2>1. \A t \in Sources : beat'[t] =< clock[t]
    BY <1>10, <1>2 DEF IInv, WithinClock, now
  <2> QED  BY <2>1, <1>1, <1>6, <1>7, <1>9 DEF IInv, WithinClock
<1>13. Swept'
  <2>1. ASSUME NEW g \in FlowKeys, flows'[g] # None
        PROVE  lastCleanup'[SourceOf(g)] - flows'[g].last =< FlowTimeout
    <3>1. /\ g \notin gone /\ flows'[g] = flows[g] /\ SourceOf(g) \in Sources
          /\ flows[g] \in Flow /\ flows[g].last \in Nat
      BY <2>1, <1>6, SourceOfType DEF Flow
    <3>2. CASE SourceOf(g) = s /\ CleanupDue(s, now)
      BY <3>1, <3>2, <2>1, <1>5, <1>9, <1>2, TimeoutAssumption
    <3>3. CASE ~(SourceOf(g) = s /\ CleanupDue(s, now))
      <4>1. lastCleanup'[SourceOf(g)] = lastCleanup[SourceOf(g)]
        BY <3>1, <3>3, <1>9
      <4> QED  BY <4>1, <3>1, <2>1 DEF IInv, Swept
    <3> QED  BY <3>2, <3>3
  <2>2. \A t \in Sources : beat'[t] < lastCleanup'[t] + CleanupInterval
    <3> TAKE t \in Sources
    <3>1. CASE t # s
      BY <3>1, <1>9, <1>10 DEF IInv, Swept
    <3>2. CASE t = s
      BY <3>2, <1>9, <1>10, <1>2, TimeoutAssumption DEF CleanupDue
    <3> QED  BY <3>1, <3>2
  <2> QED  BY <2>1, <2>2 DEF Swept
<1>14. InStep'
  BY <1>6, <1>7 DEF IInv, InStep
<1>15. PendingCollected'
  <2> SUFFICES ASSUME NEW g \in FlowKeys, pending'[g] # None
               PROVE  beat'[SourceOf(g)] - pending'[g].last =< PendingStale
    BY DEF PendingCollected
  <2>1. /\ pending'[g] = pending[g] /\ joined[g] = pending[g] /\ g \notin stale
        /\ pending[g].last \in Nat /\ SourceOf(g) \in Sources
    BY <1>7, SourceOfType DEF Pending
  <2>2. CASE SourceOf(g) = s
    BY <2>1, <2>2, <1>4, <1>10, <1>2, TimeoutAssumption
  <2>3. CASE SourceOf(g) # s
    BY <2>1, <2>3, <1>10 DEF IInv, PendingCollected
  <2> QED  BY <2>2, <2>3
<1> QED  BY <1>8, <1>11, <1>12, <1>13, <1>14, <1>15 DEF IInv

\* The capture moving on keeps the invariant.
LEMMA TickStep == ASSUME IInv, NEW s \in Sources, Tick(s) PROVE IInv'
<1>1. /\ clock' \in [Sources -> Nat]
      /\ \A t \in Sources : clock[t] =< clock'[t] /\ clock[t] \in Nat
  BY DEF IInv, TypeOK, Tick
<1>2. /\ flows' = flows /\ lastCleanup' = lastCleanup /\ pending' = pending /\ ncalls' = ncalls
      /\ beat' = beat /\ exchanges' = exchanges /\ expired' = {}
  BY DEF Tick
<1>3. TypeOK'
  BY <1>1, <1>2 DEF IInv, TypeOK
<1>4. WithinClock'
  <2>1. \A f \in FlowKeys : /\ flows[f] # None => flows[f].last \in Nat
                            /\ pending[f] # None => pending[f].last \in Nat
                            /\ SourceOf(f) \in Sources
    BY SourceOfType DEF IInv, TypeOK, Flow, Pending
  <2>2. \A t \in Sources : lastCleanup[t] \in Nat /\ beat[t] \in Nat
    BY DEF IInv, TypeOK
  <2> QED  BY <1>1, <1>2, <2>1, <2>2 DEF IInv, WithinClock
<1> QED  BY <1>2, <1>3, <1>4 DEF IInv, Swept, InStep, PendingCollected, ExchangeIsWhole

LEMMA InitStep == Init => IInv
<1> SUFFICES ASSUME Init PROVE IInv
  OBVIOUS
<1> QED  BY TimeoutAssumption
         DEF Init, IInv, TypeOK, WithinClock, Swept, InStep, PendingCollected, ExchangeIsWhole

LEMMA NextStep == IInv /\ [Next]_vars => IInv'
<1> SUFFICES ASSUME IInv, [Next]_vars PROVE IInv'
  OBVIOUS
<1>1. CASE UNCHANGED vars
  BY <1>1 DEF IInv, TypeOK, WithinClock, Swept, InStep, PendingCollected, ExchangeIsWhole, vars
<1>2. CASE Next
  BY <1>2, RequestStep, PacketStep, HeartbeatStep, TickStep DEF Next
<1> QED  BY <1>1, <1>2

-----------------------------------------------------------------------------
\* The inductive invariant holds in every reachable state.
THEOREM JoinInvariant == Spec => []IInv
  BY InitStep, NextStep, PTL DEF Spec

\* The type invariant, for every set of sources and connections.
THEOREM TypeCorrect == Spec => []TypeOK
<1>1. IInv => TypeOK
  BY DEF IInv
<1> QED  BY JoinInvariant, <1>1, PTL

\* A response is joined with the request it answers and all its SSE events
\* (on_request, on_sse, on_response), under any interleaving of overwritten
\* requests, flushes, evictions and lost heartbeats.
THEOREM ExchangesAreWhole == Spec => []ExchangeIsWhole
<1>1. IInv => ExchangeIsWhole
  BY DEF IInv
<1> QED  BY JoinInvariant, <1>1, PTL

\* No flow outlives its timeout by a whole cleanup interval, throttle included
\* (maybe_cleanup_stale_flows), and nothing stale survives a heartbeat of its
\* source in the joiner (cleanup_stale).
THEOREM TablesAreCollected == Spec => []CollectedInTime
<1>1. IInv => FlowsCollected
  <2> SUFFICES ASSUME IInv, NEW f \in FlowKeys, flows[f] # None
               PROVE  beat[SourceOf(f)] - flows[f].last < FlowTimeout + CleanupInterval
    BY DEF FlowsCollected
  <2>1. /\ SourceOf(f) \in Sources /\ flows[f].last \in Nat
        /\ beat[SourceOf(f)] \in Nat /\ lastCleanup[SourceOf(f)] \in Nat
    BY SourceOfType DEF IInv, TypeOK, Flow
  <2>2. /\ lastCleanup[SourceOf(f)] - flows[f].last =< FlowTimeout
        /\ beat[SourceOf(f)] < lastCleanup[SourceOf(f)] + CleanupInterval
    BY <2>1 DEF IInv, Swept
  <2> QED  BY <2>1, <2>2, TimeoutAssumption
<1>2. IInv => CollectedInTime
  BY <1>1 DEF IInv, CollectedInTime
<1> QED  BY JoinInvariant, <1>2, PTL

\* The joiner never evicts the request of a response that was being read when
\* its connection fell silent: by the time it could, the flow's own timeout has
\* flushed the response (PENDING_STALE_TIMEOUT_US against FLOW_TIMEOUT_US and
\* CLEANUP_INTERVAL_US).
THEOREM SilentResponsesAreFlushed == Spec => SilenceIsFlushed
<1>1. ASSUME IInv, [Next]_vars
      PROVE  [\A f \in expired' :
                 ~(At(f, "ReadingResponseBody") /\ flows[f].last = pending[f].last)]_vars
  <2> SUFFICES ASSUME Next, NEW f \in expired', At(f, "ReadingResponseBody"),
                      flows[f].last = pending[f].last
               PROVE  FALSE
    BY <1>1 DEF vars
  <2>1. CASE \E g \in FlowKeys :
                \/ RequestPacket(g) \/ ResponseHeadPacket(g) \/ SsePacket(g)
                \/ ResponseEndPacket(g) \/ QuietPacket(g) \/ ClosingPacket(g)
    BY <2>1 DEF RequestPacket, ResponseHeadPacket, SsePacket, ResponseEndPacket,
                QuietPacket, ClosingPacket, Processed
  <2>2. CASE \E s \in Sources : Tick(s)
    BY <2>2 DEF Tick
  <2>3. ASSUME NEW s \in Sources, Heartbeat(s) PROVE FALSE
    <3> DEFINE now == clock[s]
               gone == TimedOut(flows, s, now)
               answered == Flushed(flows, gone)
               joined == AfterResponses(pending, answered)
    <3>1. f \in StalePending(joined, s, now)
      BY <2>3 DEF Heartbeat
    <3>2. f \in FlowKeys /\ SourceOf(f) = s /\ joined[f] # None /\ now - joined[f].last > PendingStale
      BY <3>1 DEF StalePending
    <3>3. f \notin answered /\ joined[f] = pending[f] /\ pending[f] # None
      BY <3>2 DEF AfterResponses
    <3>4. flows[f] # None /\ flows[f].at = "ReadingResponseBody"
      BY DEF At
    <3>5. f \notin gone
      BY <3>3, <3>4 DEF Flushed
    <3>6. ~CleanupDue(s, now) \/ ~(now - flows[f].last > FlowTimeout)
      BY <3>2, <3>4, <3>5 DEF TimedOut
    <3>7. /\ now \in Nat /\ lastCleanup[s] \in Nat /\ flows[f].last \in Nat
          /\ lastCleanup[s] - flows[f].last =< FlowTimeout
      BY <3>2, <3>4, <1>1 DEF IInv, TypeOK, Swept, Flow
    <3>8. now - flows[f].last > PendingStale
      BY <3>2, <3>3
    <3> HIDE DEF now, gone, answered, joined
    <3>9. CASE ~(now - flows[f].last > FlowTimeout)
      BY <3>7, <3>8, <3>9, TimeoutAssumption
    <3>10. CASE ~CleanupDue(s, now)
      BY <3>7, <3>8, <3>10, TimeoutAssumption DEF CleanupDue
    <3> QED  BY <3>6, <3>9, <3>10
  <2> QED  BY <2>1, <2>2, <2>3 DEF Next
<1> QED  BY JoinInvariant, <1>1, PTL DEF Spec, SilenceIsFlushed
\* A step of one source's traffic or heartbeat leaves every other source's flows
\* and pending requests alone (per-source sweeps of FlowWorker and HttpJoiner).
THEOREM SourcesDoNotInterfere == Spec => SourcesAreIndependent
<1>1. ASSUME TypeOK, [Next]_vars
      PROVE  [\A f, g \in FlowKeys : SourceOf(f) # SourceOf(g) =>
                \/ flows'[f] = flows[f] /\ pending'[f] = pending[f]
                \/ flows'[g] = flows[g] /\ pending'[g] = pending[g]]_vars
  <2> DEFINE Alone(s) == \A g \in FlowKeys :
                SourceOf(g) # s => flows'[g] = flows[g] /\ pending'[g] = pending[g]
  <2> SUFFICES ASSUME Next PROVE \E s \in Sources : Alone(s)
    BY <1>1 DEF vars
  <2>1. ASSUME NEW f \in FlowKeys, NEW tab, NEW pend, NEW responding, NEW closed,
               Processed(f, tab, pend, responding, closed),
               \A g \in FlowKeys : g # f => tab[g] = flows[g] /\ pend[g] = pending[g],
               responding \subseteq {f}, closed \subseteq {f}
        PROVE  Alone(SourceOf(f))
    <3> DEFINE s == SourceOf(f)
               kept == Removed(tab, closed)
               gone == TimedOut(kept, s, clock[s])
               answered == responding \cup Flushed(kept, gone)
    <3>1. flows' = Removed(kept, gone) /\ pending' = AfterResponses(pend, answered)
      BY <2>1 DEF Processed
    <3>2. \A g \in gone : SourceOf(g) = s
      BY DEF TimedOut
    <3>3. \A g \in answered : SourceOf(g) = s
      BY <3>2, <2>1 DEF Flushed
    <3> HIDE DEF gone, answered
    <3> QED  BY <3>1, <3>2, <3>3, <2>1 DEF Removed, AfterResponses
  <2>t. /\ flows \in [FlowKeys -> Flow \cup {None}] /\ pending \in [FlowKeys -> Pending \cup {None}]
    BY <1>1 DEF TypeOK
  <2>2. ASSUME NEW f \in FlowKeys, NEW r, NEW responding, NEW closed,
               Processed(f, [flows EXCEPT ![f] = r], pending, responding, closed),
               responding \subseteq {f}, closed \subseteq {f}
        PROVE  Alone(SourceOf(f))
    <3>1. \A g \in FlowKeys : g # f => [flows EXCEPT ![f] = r][g] = flows[g]
      BY <2>t
    <3> HIDE DEF Alone
    <3> QED  BY <3>1, <2>1, <2>2
  <2>3. ASSUME NEW f \in FlowKeys,
               \/ RequestPacket(f) \/ ResponseHeadPacket(f) \/ SsePacket(f)
               \/ ResponseEndPacket(f) \/ QuietPacket(f) \/ ClosingPacket(f)
        PROVE  Alone(SourceOf(f))
    <3> DEFINE now == clock[SourceOf(f)]
    <3>1. CASE RequestPacket(f)
      <4> DEFINE tab == [flows EXCEPT ![f] = [at |-> "WaitingForResponse", last |-> now,
                                              call |-> ncalls', sse |-> 0]]
      <4>1. Processed(f, tab, OnRequest(f, ncalls', now), {}, {})
        BY <3>1 DEF RequestPacket
      <4>2. \A g \in FlowKeys : g # f =>
               tab[g] = flows[g] /\ OnRequest(f, ncalls', now)[g] = pending[g]
        BY <2>t DEF OnRequest
      <4> HIDE DEF Alone, tab
      <4> QED  BY <4>1, <4>2, <2>1
    <3>2. CASE SsePacket(f)
      <4> DEFINE tab == [flows EXCEPT ![f] = [Touched(f, now) EXCEPT !.sse = @ + 1]]
      <4>1. Processed(f, tab, OnSse(f, now), {}, {})
        BY <3>2 DEF SsePacket
      <4>2. \A g \in FlowKeys : g # f => tab[g] = flows[g] /\ OnSse(f, now)[g] = pending[g]
        BY <2>t DEF OnSse
      <4> HIDE DEF Alone, tab
      <4> QED  BY <4>1, <4>2, <2>1
    <3> HIDE DEF Alone
    <3>3. CASE ResponseHeadPacket(f)
      BY <3>3, <2>2 DEF ResponseHeadPacket
    <3>4. CASE ResponseEndPacket(f)
      BY <3>4, <2>2 DEF ResponseEndPacket
    <3>5. CASE QuietPacket(f)
      BY <3>5, <2>2 DEF QuietPacket
    <3>6. CASE ClosingPacket(f)
      <4> DEFINE tab == [flows EXCEPT ![f] = Touched(f, now)]
      <4>1. Processed(f, tab, pending, Flushed(tab, {f}), {f}) /\ Flushed(tab, {f}) \subseteq {f}
        BY <3>6 DEF ClosingPacket, Flushed
      <4> QED  BY <4>1, <2>2
    <3> QED  BY <2>3, <3>1, <3>2, <3>3, <3>4, <3>5, <3>6
  <2>4. ASSUME NEW s \in Sources, Heartbeat(s) PROVE Alone(s)
    <3> DEFINE gone == TimedOut(flows, s, clock[s])
               answered == Flushed(flows, gone)
               joined == AfterResponses(pending, answered)
               stale == StalePending(joined, s, clock[s])
    <3>1. /\ flows' = Removed(flows, gone)
          /\ pending' = [f \in FlowKeys |-> IF f \in stale THEN None ELSE joined[f]]
      BY <2>4 DEF Heartbeat
    <3>2. /\ \A g \in gone : SourceOf(g) = s
          /\ \A g \in answered : SourceOf(g) = s
          /\ \A g \in stale : SourceOf(g) = s
      BY DEF TimedOut, Flushed, StalePending
    <3> HIDE DEF gone, answered, stale
    <3> QED  BY <3>1, <3>2 DEF Removed, AfterResponses
  <2>5. ASSUME NEW s \in Sources, Tick(s) PROVE Alone(s)
    BY <2>5 DEF Tick
  <2> HIDE DEF Alone
  <2> QED  BY <2>3, <2>4, <2>5, SourceOfType DEF Next
<1> QED  BY TypeCorrect, <1>1, PTL DEF Spec, SourcesAreIndependent

=============================================================================
