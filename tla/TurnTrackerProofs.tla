------------------------- MODULE TurnTrackerProofs -------------------------
(***************************************************************************)
(* Proofs about TurnTracker for every set of sources, sessions and call    *)
(* kinds and every grace, idle timeout, sweep interval and bound.          *)
(***************************************************************************)
EXTENDS TurnTracker, TLAPS, WellFoundedInduction

-----------------------------------------------------------------------------
(* Least and greatest elements.                                             *)

\* MinOf really picks the least element of a nonempty set of naturals.
LEMMA MinOfNat ==
    ASSUME NEW S, S \subseteq Nat, S # {}
    PROVE  MinOf(S) \in S /\ \A x \in S : MinOf(S) =< x
<1>1. PICK m \in S : \A y \in S : ~(<<y, m>> \in OpToRel(<, Nat))
  BY NatLessThanWellFounded, WFMin
<1>2. \A y \in S : m =< y
  <2> TAKE y \in S
  <2>1. ~(y < m)
    BY <1>1 DEF OpToRel
  <2> QED BY <2>1
<1> QED BY <1>2 DEF MinOf

\* MaxOf really picks the greatest element of a nonempty set of bounded naturals.
LEMMA MaxOfBounded ==
    ASSUME NEW M \in Nat, NEW S, S \subseteq 0..M, S # {}
    PROVE  MaxOf(S) \in S /\ \A x \in S : x =< MaxOf(S)
<1> DEFINE T == {M - x : x \in S}
<1>0. \A x \in S : x \in Nat /\ M - x \in Nat
  OBVIOUS
<1>1. T \subseteq Nat /\ T # {}
  BY <1>0
<1>2. PICK m \in T : \A y \in T : ~(<<y, m>> \in OpToRel(<, Nat))
  BY <1>1, NatLessThanWellFounded, WFMin
<1>3. \A y \in T : m =< y
  <2> TAKE y \in T
  <2>1. ~(y < m)
    BY <1>1, <1>2 DEF OpToRel
  <2> QED BY <1>1, <2>1
<1>4. PICK x \in S : m = M - x
  OBVIOUS
<1>5. \A y \in S : y =< x
  <2> TAKE y \in S
  <2>1. M - y \in T
    OBVIOUS
  <2>2. M - x =< M - y
    BY <1>3, <1>4, <2>1
  <2>3. x \in Int /\ y \in Int /\ M \in Int
    BY <1>0
  <2> HIDE DEF T
  <2> QED BY ONLY <2>2, <2>3
<1> QED BY <1>5 DEF MaxOf

-----------------------------------------------------------------------------
(* Types of the pure steps on one buffer.                                   *)

\* Request times of buffered calls are naturals up to MaxTime.
LEMMA CallFields ==
    ASSUME NEW c \in BufferedCall
    PROVE  c.rt \in 0..MaxTime /\ c.rt \in Nat /\ c.id \in Nat /\ c.at \in Nat /\ c.key \in Keys
BY ConfigAssumption DEF BufferedCall

\* The cut points of finalize_session are request times of pending calls.
LEMMA CutsType ==
    ASSUME NEW pending \in SUBSET BufferedCall, NEW now \in Nat
    PROVE  /\ Cuts(pending, now) \subseteq 0..MaxTime
           /\ \A r \in Cuts(pending, now) : \E c \in pending : IsTerminal(c) /\ c.rt = r
BY CallFields DEF Cuts, TerminalTimes, Terminals

\* When a terminal is pending there is a front one.
LEMMA FrontExists ==
    ASSUME NEW pending \in SUBSET BufferedCall, Terminals(pending) # {}
    PROVE  \E c \in pending : IsFront(pending, c)
<1> DEFINE T == Terminals(pending)
<1>1. T \subseteq BufferedCall /\ T \subseteq pending
  BY DEF Terminals
<1> DEFINE R == {c.rt : c \in T}
<1>2. R \subseteq Nat /\ R # {}
  BY <1>1, CallFields
<1>3. PICK r \in R : \A x \in R : r =< x
  BY <1>2, MinOfNat
<1> DEFINE I == {c.id : c \in {d \in T : d.rt = r}}
<1>4. I \subseteq Nat /\ I # {}
  BY <1>1, CallFields
<1>5. PICK i \in I : \A x \in I : i =< x
  BY <1>4, MinOfNat
<1>6. PICK c \in T : c.rt = r /\ c.id = i
  OBVIOUS
<1>7. ASSUME NEW d \in T PROVE ~Before(d, c)
  <2>1. c \in BufferedCall /\ d \in BufferedCall
    BY <1>1
  <2>2. c.rt \in Nat /\ d.rt \in Nat /\ c.id \in Nat /\ d.id \in Nat
    BY <2>1, CallFields
  <2>3. c.rt =< d.rt
    BY <1>3, <1>6
  <2>4. d.rt = c.rt => c.id =< d.id
    BY <1>5, <1>6
  <2> QED BY <2>2, <2>3, <2>4 DEF Before
<1> QED BY <1>1, <1>6, <1>7 DEF IsFront

\* The reseated grace clock is an arrival instant, or None.
LEMMA GraceOfType ==
    ASSUME NEW pending \in SUBSET BufferedCall
    PROVE  GraceOf(pending) \in Nat \cup {None}
<1>1. CASE Terminals(pending) = {}
  BY <1>1 DEF GraceOf
<1>2. CASE Terminals(pending) # {}
  <2>1. \E c \in pending : IsFront(pending, c)
    BY <1>2, FrontExists
  <2>2. (CHOOSE c \in pending : IsFront(pending, c)) \in pending
    BY <2>1
  <2> QED BY <1>2, <2>2, CallFields DEF GraceOf
<1> QED BY <1>1, <1>2

\* finalize_session returns a session buffer.
LEMMA FinalizeType ==
    ASSUME NEW b \in SessionBuffer, NEW now \in Nat
    PROVE  FinalizeSession(b, now) \in SessionBuffer
<1> DEFINE cuts == Cuts(b.pending, now)
           rest == Remaining(b.pending, cuts)
<1>1. b.pending \in SUBSET BufferedCall /\ b.lastFinal \in Nat \cup {None}
      /\ b.lastActivity \in Nat /\ b.turnId \in TurnIds \cup {None}
  BY DEF SessionBuffer
<1>2. rest \in SUBSET BufferedCall
  BY <1>1 DEF Remaining
<1>3. GraceOf(rest) \in Nat \cup {None}
  BY <1>2, GraceOfType
<1>4. cuts # {} => MaxOf(cuts) \in Nat
  <2>1. cuts \subseteq 0..MaxTime
    BY <1>1, CutsType
  <2> QED BY <2>1, MaxOfBounded, ConfigAssumption
<1> QED BY <1>1, <1>2, <1>3, <1>4 DEF FinalizeSession, SessionBuffer

\* Taking the whole pending map leaves a session buffer.
LEMMA DrainType ==
    ASSUME NEW b \in SessionBuffer
    PROVE  Drain(b) \in SessionBuffer
<1>1. b.pending \in SUBSET BufferedCall /\ b.lastActivity \in Nat
  BY DEF SessionBuffer
<1>2. b.pending # {} => MaxOf({c.rt : c \in b.pending}) \in Nat
  <2> SUFFICES ASSUME b.pending # {} PROVE MaxOf({c.rt : c \in b.pending}) \in Nat
    OBVIOUS
  <2>1. {c.rt : c \in b.pending} \subseteq 0..MaxTime /\ {c.rt : c \in b.pending} # {}
    BY <1>1, CallFields
  <2> QED BY <2>1, MaxOfBounded, ConfigAssumption
<1> QED BY <1>1, <1>2 DEF Drain, SessionBuffer

\* emit_or_discard only produces turns.
LEMMA EmitType ==
    ASSUME NEW k \in Keys, NEW o \in TurnIds \cup {None},
           NEW calls \in SUBSET BufferedCall, NEW ep \in Nat
    PROVE  EmitOrDiscard(k, o, calls, ep) \subseteq Turn
<1> SUFFICES ASSUME calls # {} PROVE BuildTurn(k, o, calls, ep) \in Turn
  BY DEF EmitOrDiscard
<1>1. {c.id : c \in calls} \subseteq Nat /\ {c.id : c \in calls} # {}
  BY CallFields
<1>2. MinOf({c.id : c \in calls}) \in Nat
  BY <1>1, MinOfNat
<1>3. TurnIdFor(o, calls) \in TurnIds
  BY <1>2 DEF TurnIdFor, TurnIds
<1>4. (Terminals(calls) # {}) \in BOOLEAN
  OBVIOUS
<1> QED BY <1>3, <1>4 DEF BuildTurn, Turn

-----------------------------------------------------------------------------
(* The ordering argument, on a triple of buffers, emitted turns and epochs. *)

\* What makes TurnsOrdered inductive: a pending call never lies below the
\* last cut of its session, and an emitted turn of the current epoch never
\* lies above it.
OrderInv(bs, ts, ep) ==
    /\ \A k \in Keys : \A c \in bs[k].pending :
          c.key = k /\ (bs[k].lastFinal # None => bs[k].lastFinal =< c.rt)
    /\ \A t \in ts :
          /\ t.epoch =< ep[t.key]
          /\ t.epoch = ep[t.key] =>
                bs[t.key].lastFinal # None /\ \A c \in t.calls : c.rt =< bs[t.key].lastFinal
    /\ SessionsOrdered(ts)

\* A pass over the buffers that emits `new': cuts only move up, what it emits
\* lies between the old and the new cut of the session.
OrderedStep(bs, bs2, new, ep) ==
    /\ \A k \in Keys :
          /\ \A c \in bs2[k].pending :
                c.key = k /\ (bs2[k].lastFinal # None => bs2[k].lastFinal =< c.rt)
          /\ bs[k].lastFinal # None =>
                bs2[k].lastFinal # None /\ bs[k].lastFinal =< bs2[k].lastFinal
    /\ \A t \in new :
          /\ t.epoch = ep[t.key]
          /\ bs2[t.key].lastFinal # None
          /\ \A c \in t.calls :
                /\ bs[t.key].lastFinal # None => bs[t.key].lastFinal =< c.rt
                /\ c.rt =< bs2[t.key].lastFinal
    /\ SessionsOrdered(new)

\* A pass of that shape keeps the ordering invariant.
LEMMA OrderedStepKeeps ==
    ASSUME NEW bs \in [Keys -> SessionBuffer], NEW bs2 \in [Keys -> SessionBuffer],
           NEW ts \in SUBSET Turn, NEW new \in SUBSET Turn, NEW ep \in [Keys -> Nat],
           OrderInv(bs, ts, ep), OrderedStep(bs, bs2, new, ep)
    PROVE  OrderInv(bs2, ts \cup new, ep)
<1>1. \A k \in Keys : /\ bs[k].lastFinal \in Nat \cup {None}
                      /\ bs2[k].lastFinal \in Nat \cup {None}
  BY DEF SessionBuffer
<1>2. \A t \in ts \cup new : /\ t.key \in Keys /\ t.epoch \in Nat
                             /\ \A c \in t.calls : c.rt \in Nat
  BY CallFields DEF Turn
<1>3. \A k \in Keys : \A c \in bs2[k].pending :
          c.key = k /\ (bs2[k].lastFinal # None => bs2[k].lastFinal =< c.rt)
  BY DEF OrderedStep
<1>4. ASSUME NEW t \in ts
      PROVE  /\ t.epoch =< ep[t.key]
             /\ t.epoch = ep[t.key] =>
                bs2[t.key].lastFinal # None /\ \A c \in t.calls : c.rt =< bs2[t.key].lastFinal
  <2>1. t.epoch =< ep[t.key]
    BY DEF OrderInv
  <2>2. ASSUME t.epoch = ep[t.key], NEW c \in t.calls
        PROVE  bs2[t.key].lastFinal # None /\ c.rt =< bs2[t.key].lastFinal
    <3>1. bs[t.key].lastFinal # None /\ c.rt =< bs[t.key].lastFinal
      BY <2>2 DEF OrderInv
    <3>2. bs2[t.key].lastFinal # None /\ bs[t.key].lastFinal =< bs2[t.key].lastFinal
      BY <1>2, <3>1 DEF OrderedStep
    <3> QED BY <1>1, <1>2, <3>1, <3>2
  <2>3. t.epoch = ep[t.key] => bs2[t.key].lastFinal # None
    BY <1>2 DEF OrderInv, OrderedStep
  <2> QED BY <2>1, <2>2, <2>3
<1>5. ASSUME NEW t \in new
      PROVE  /\ t.epoch =< ep[t.key]
             /\ bs2[t.key].lastFinal # None /\ \A c \in t.calls : c.rt =< bs2[t.key].lastFinal
  BY <1>2 DEF OrderedStep
<1>6. ASSUME NEW t1 \in ts, NEW t2 \in new, t1.key = t2.key, t1.epoch = t2.epoch
      PROVE  Precedes(t1, t2)
  <2> SUFFICES ASSUME NEW c \in t1.calls, NEW d \in t2.calls PROVE c.rt =< d.rt
    BY DEF Precedes
  <2>1. t1.epoch = ep[t1.key]
    BY <1>6 DEF OrderedStep
  <2>2. bs[t1.key].lastFinal # None /\ c.rt =< bs[t1.key].lastFinal
    BY <2>1 DEF OrderInv
  <2>3. bs[t2.key].lastFinal =< d.rt
    BY <1>6, <2>2 DEF OrderedStep
  <2> QED BY <1>1, <1>2, <1>6, <2>2, <2>3
<1>7. SessionsOrdered(ts \cup new)
  <2>1. SessionsOrdered(ts) /\ SessionsOrdered(new)
    BY DEF OrderInv, OrderedStep
  <2> SUFFICES ASSUME NEW t1 \in ts \cup new, NEW t2 \in ts \cup new,
                      t1.key = t2.key, t1.epoch = t2.epoch, t1 # t2
               PROVE  Precedes(t1, t2) \/ Precedes(t2, t1)
    BY DEF SessionsOrdered
  <2>2. CASE t1 \in ts /\ t2 \in ts
    BY <2>1, <2>2 DEF SessionsOrdered
  <2>3. CASE t1 \in new /\ t2 \in new
    BY <2>1, <2>3 DEF SessionsOrdered
  <2>4. CASE t1 \in ts /\ t2 \in new
    BY <1>6, <2>4
  <2>5. CASE t1 \in new /\ t2 \in ts
    BY <1>6, <2>5
  <2> QED BY <2>2, <2>3, <2>4, <2>5
<1> QED BY <1>3, <1>4, <1>5, <1>7 DEF OrderInv

\* What finalize_session emits for one buffer, between its old and new cut.
LEMMA FinalizeOrder ==
    ASSUME NEW k \in Keys, NEW b \in SessionBuffer, NEW now \in Nat, NEW ep \in Nat,
           \A c \in b.pending : c.key = k /\ (b.lastFinal # None => b.lastFinal =< c.rt)
    PROVE  LET b2 == FinalizeSession(b, now)
               new == FinalizedTurns(k, b, now, ep)
           IN  /\ new \subseteq Turn
               /\ b2.pending \subseteq b.pending
               /\ b2.lastFinal # None => \A c \in b2.pending : b2.lastFinal =< c.rt
               /\ b.lastFinal # None => b2.lastFinal # None /\ b.lastFinal =< b2.lastFinal
               /\ \A t \in new :
                     /\ t.key = k /\ t.epoch = ep /\ b2.lastFinal # None
                     /\ t.calls \subseteq b.pending
                     /\ \A c \in t.calls : c.rt =< b2.lastFinal
               /\ SessionsOrdered(new)
<1> DEFINE cuts == Cuts(b.pending, now)
           b2 == FinalizeSession(b, now)
           new == FinalizedTurns(k, b, now, ep)
           part(r) == Partition(b.pending, cuts, r)
           over(r) == IF r = MinOf(cuts) THEN b.turnId ELSE None
<1>1. b.pending \in SUBSET BufferedCall /\ b.turnId \in TurnIds \cup {None}
      /\ b.lastFinal \in Nat \cup {None}
  BY DEF SessionBuffer
<1>2. \A c \in b.pending : c.rt \in Nat
  BY <1>1, CallFields
<1>3. cuts \subseteq 0..MaxTime /\ cuts \subseteq Nat
      /\ \A r \in cuts : \E c \in b.pending : c.rt = r
  BY <1>1, CutsType
<1>4. cuts # {} => MaxOf(cuts) \in cuts /\ \A r \in cuts : r =< MaxOf(cuts)
  BY <1>3, MaxOfBounded, ConfigAssumption
<1>5. b2.pending = Remaining(b.pending, cuts)
      /\ b2.lastFinal = (IF cuts = {} THEN b.lastFinal ELSE MaxOf(cuts))
  BY DEF FinalizeSession
<1>6. \A r \in cuts : part(r) \in SUBSET BufferedCall /\ part(r) \subseteq b.pending
  BY <1>1 DEF Partition
<1>7. ASSUME NEW t \in new
      PROVE  \E r \in cuts : t \in EmitOrDiscard(k, over(r), part(r), ep)
  BY DEF FinalizedTurns
<1>8. ASSUME NEW t \in new
      PROVE  \E r \in cuts : t = BuildTurn(k, over(r), part(r), ep)
  BY <1>7 DEF EmitOrDiscard
<1>9. new \subseteq Turn
  <2> SUFFICES ASSUME NEW t \in new PROVE t \in Turn
    OBVIOUS
  <2>1. PICK r \in cuts : t \in EmitOrDiscard(k, over(r), part(r), ep)
    BY <1>7
  <2>2. over(r) \in TurnIds \cup {None}
    BY <1>1
  <2> QED BY <1>6, <2>1, <2>2, EmitType
<1>10. b2.pending \subseteq b.pending
  BY <1>5 DEF Remaining
<1>11. b2.lastFinal # None => \A c \in b2.pending : b2.lastFinal =< c.rt
  <2>1. CASE cuts = {}
    BY <1>5, <1>10, <2>1
  <2>2. CASE cuts # {}
    BY <1>2, <1>3, <1>4, <1>5, <1>10, <2>2 DEF Remaining
  <2> QED BY <2>1, <2>2
<1>12. b.lastFinal # None => b2.lastFinal # None /\ b.lastFinal =< b2.lastFinal
  <2>1. CASE cuts = {}
    BY <1>1, <1>5, <2>1
  <2>2. CASE cuts # {}
    BY <1>1, <1>3, <1>4, <1>5, <2>2, ConfigAssumption
  <2> QED BY <2>1, <2>2
<1>13. ASSUME NEW t \in new
       PROVE  /\ t.key = k /\ t.epoch = ep /\ b2.lastFinal # None
              /\ t.calls \subseteq b.pending
              /\ \A c \in t.calls : c.rt =< b2.lastFinal
  <2>1. PICK r \in cuts : t = BuildTurn(k, over(r), part(r), ep)
    BY <1>8
  <2>2. t.key = k /\ t.epoch = ep /\ t.calls = part(r)
    BY <2>1 DEF BuildTurn
  <2>3. b2.lastFinal = MaxOf(cuts) /\ r =< MaxOf(cuts) /\ MaxOf(cuts) \in Nat /\ r \in Nat
    BY <1>3, <1>4, <1>5
  <2>4. \A c \in part(r) : c.rt =< r
    BY DEF Partition
  <2> QED BY <1>2, <1>6, <2>2, <2>3, <2>4, ConfigAssumption
<1>14. SessionsOrdered(new)
  <2> SUFFICES ASSUME NEW t1 \in new, NEW t2 \in new, t1 # t2
               PROVE  Precedes(t1, t2) \/ Precedes(t2, t1)
    BY DEF SessionsOrdered
  <2>1. PICK r1 \in cuts : t1 = BuildTurn(k, over(r1), part(r1), ep)
    BY <1>8
  <2>2. PICK r2 \in cuts : t2 = BuildTurn(k, over(r2), part(r2), ep)
    BY <1>8
  <2>3. t1.calls = part(r1) /\ t2.calls = part(r2)
    BY <2>1, <2>2 DEF BuildTurn
  <2>4. r1 # r2
    BY <2>1, <2>2
  <2>5. \A q1, q2 \in cuts : q1 < q2 =>
           \A c \in part(q1), d \in part(q2) : c.rt =< d.rt
    BY <1>2, <1>3, <1>6 DEF Partition
  <2>6. r1 < r2 \/ r2 < r1
    BY <1>3, <2>4
  <2> QED BY <2>3, <2>5, <2>6 DEF Precedes
<1> QED BY <1>9, <1>10, <1>11, <1>12, <1>13, <1>14

\* What sweep and flush_all emit for one drained buffer.
LEMMA DrainOrder ==
    ASSUME NEW k \in Keys, NEW b \in SessionBuffer, NEW ep \in Nat,
           \A c \in b.pending : c.key = k /\ (b.lastFinal # None => b.lastFinal =< c.rt)
    PROVE  LET b2 == Drain(b)
               new == DrainedTurns(k, b, ep)
           IN  /\ new \subseteq Turn
               /\ b2.pending = {}
               /\ b.lastFinal # None => b2.lastFinal # None /\ b.lastFinal =< b2.lastFinal
               /\ \A t \in new :
                     /\ t.key = k /\ t.epoch = ep /\ b2.lastFinal # None
                     /\ t.calls \subseteq b.pending
                     /\ \A c \in t.calls : c.rt =< b2.lastFinal
               /\ SessionsOrdered(new)
<1> DEFINE b2 == Drain(b)
           new == DrainedTurns(k, b, ep)
           R == {c.rt : c \in b.pending}
<1>1. b.pending \in SUBSET BufferedCall /\ b.turnId \in TurnIds \cup {None}
      /\ b.lastFinal \in Nat \cup {None}
  BY DEF SessionBuffer
<1>2. new \subseteq Turn
  BY <1>1, EmitType DEF DrainedTurns
<1>3. b2.pending = {}
  BY DEF Drain
<1>4. R \subseteq 0..MaxTime /\ R \subseteq Nat
  BY <1>1, CallFields
<1>5. b.pending # {} => /\ MaxOf(R) \in R /\ \A c \in b.pending : c.rt =< MaxOf(R)
                        /\ b2.lastFinal = MaxOf(R)
  BY <1>4, MaxOfBounded, ConfigAssumption DEF Drain
<1>6. b.lastFinal # None => b2.lastFinal # None /\ b.lastFinal =< b2.lastFinal
  <2>1. CASE b.pending = {}
    BY <1>1, <2>1 DEF Drain
  <2>2. CASE b.pending # {}
    BY <1>1, <1>4, <1>5, <2>2, ConfigAssumption
  <2> QED BY <2>1, <2>2
<1>7. \A t \in new : t = BuildTurn(k, b.turnId, b.pending, ep) /\ b.pending # {}
  BY DEF DrainedTurns, EmitOrDiscard
<1>8. ASSUME NEW t \in new
      PROVE  /\ t.key = k /\ t.epoch = ep /\ b2.lastFinal # None
             /\ t.calls \subseteq b.pending
             /\ \A c \in t.calls : c.rt =< b2.lastFinal
  <2>1. t.key = k /\ t.epoch = ep /\ t.calls = b.pending /\ b.pending # {}
    BY <1>7 DEF BuildTurn
  <2> QED BY <1>4, <1>5, <2>1, ConfigAssumption
<1>9. SessionsOrdered(new)
  BY <1>7 DEF SessionsOrdered
<1> QED BY <1>2, <1>3, <1>6, <1>8, <1>9

\* A pass that treats every buffer on its own: if each buffer's share keeps to
\* its own range, so does the whole pass.
LEMMA PointwiseStep ==
    ASSUME NEW bs \in [Keys -> SessionBuffer], NEW bs2 \in [Keys -> SessionBuffer],
           NEW ep \in [Keys -> Nat], NEW share,
           \A k \in Keys : share[k] \subseteq Turn,
           \A k \in Keys : \A c \in bs[k].pending :
              c.key = k /\ (bs[k].lastFinal # None => bs[k].lastFinal =< c.rt),
           \A k \in Keys :
              /\ bs2[k].pending \subseteq bs[k].pending
              /\ bs2[k].lastFinal # None => \A c \in bs2[k].pending : bs2[k].lastFinal =< c.rt
              /\ bs[k].lastFinal # None => bs2[k].lastFinal # None /\ bs[k].lastFinal =< bs2[k].lastFinal
              /\ \A t \in share[k] :
                    /\ t.key = k /\ t.epoch = ep[k] /\ bs2[k].lastFinal # None
                    /\ t.calls \subseteq bs[k].pending
                    /\ \A c \in t.calls : c.rt =< bs2[k].lastFinal
              /\ SessionsOrdered(share[k])
    PROVE  LET new == UNION {share[k] : k \in Keys}
           IN  new \in SUBSET Turn /\ OrderedStep(bs, bs2, new, ep)
<1> DEFINE new == UNION {share[k] : k \in Keys}
<1>1. \A t \in new : \E k \in Keys : t \in share[k]
  OBVIOUS
<1>2. \A t \in new : t.key \in Keys /\ t \in share[t.key]
  BY <1>1
<1>3. SessionsOrdered(new)
  BY <1>2 DEF SessionsOrdered
<1>4. new \in SUBSET Turn
  BY <1>1
<1>5. ASSUME NEW t \in new
      PROVE  /\ t.epoch = ep[t.key]
             /\ bs2[t.key].lastFinal # None
             /\ \A c \in t.calls :
                   /\ bs[t.key].lastFinal # None => bs[t.key].lastFinal =< c.rt
                   /\ c.rt =< bs2[t.key].lastFinal
  BY <1>2
<1>6. ASSUME NEW k \in Keys
      PROVE  /\ \A c \in bs2[k].pending :
                   c.key = k /\ (bs2[k].lastFinal # None => bs2[k].lastFinal =< c.rt)
             /\ bs[k].lastFinal # None =>
                   bs2[k].lastFinal # None /\ bs[k].lastFinal =< bs2[k].lastFinal
  OBVIOUS
<1> QED BY <1>3, <1>4, <1>5, <1>6 DEF OrderedStep

-----------------------------------------------------------------------------
(* The passes of the tracker.                                               *)

\* flush_ready_buffers keeps the ordering invariant.
LEMMA FlushKeeps ==
    ASSUME NEW bs \in [Keys -> SessionBuffer], NEW ts \in SUBSET Turn,
           NEW ep \in [Keys -> Nat], NEW now \in Nat, OrderInv(bs, ts, ep)
    PROVE  /\ Flush(bs, now) \in [Keys -> SessionBuffer]
           /\ FlushTurns(bs, now, ep) \in SUBSET Turn
           /\ OrderInv(Flush(bs, now), ts \cup FlushTurns(bs, now, ep), ep)
<1> DEFINE bs2 == Flush(bs, now)
           share == [k \in Keys |-> IF Ready(bs[k], now)
                                    THEN FinalizedTurns(k, bs[k], now, ep[k]) ELSE {}]
           new == UNION {share[k] : k \in Keys}
<1>1. bs2 \in [Keys -> SessionBuffer]
  BY FinalizeType DEF Flush
<1>2. \A k \in Keys : \A c \in bs[k].pending :
         c.key = k /\ (bs[k].lastFinal # None => bs[k].lastFinal =< c.rt)
  BY DEF OrderInv
<1>3. ASSUME NEW k \in Keys
      PROVE  /\ share[k] \subseteq Turn
             /\ bs2[k].pending \subseteq bs[k].pending
             /\ bs2[k].lastFinal # None => \A c \in bs2[k].pending : bs2[k].lastFinal =< c.rt
             /\ bs[k].lastFinal # None => bs2[k].lastFinal # None /\ bs[k].lastFinal =< bs2[k].lastFinal
             /\ \A t \in share[k] :
                   /\ t.key = k /\ t.epoch = ep[k] /\ bs2[k].lastFinal # None
                   /\ t.calls \subseteq bs[k].pending
                   /\ \A c \in t.calls : c.rt =< bs2[k].lastFinal
             /\ SessionsOrdered(share[k])
  <2>1. CASE Ready(bs[k], now)
    <3>1. bs2[k] = FinalizeSession(bs[k], now) /\ share[k] = FinalizedTurns(k, bs[k], now, ep[k])
      BY <2>1 DEF Flush
    <3>2. bs[k] \in SessionBuffer /\ ep[k] \in Nat
      OBVIOUS
    <3> HIDE DEF share, bs2
    <3> QED BY <1>2, <3>1, <3>2, FinalizeOrder
  <2>2. CASE ~Ready(bs[k], now)
    <3>1. bs2[k] = bs[k] /\ share[k] = {}
      BY <2>2 DEF Flush
    <3>2. bs[k].lastFinal \in Nat \cup {None}
      BY DEF SessionBuffer
    <3>3. SessionsOrdered({})
      BY DEF SessionsOrdered
    <3> HIDE DEF share, bs2
    <3> QED BY <1>2, <3>1, <3>2, <3>3
  <2> QED BY <2>1, <2>2
<1>4. FlushTurns(bs, now, ep) = new
  BY DEF FlushTurns
<1>5. new \in SUBSET Turn /\ OrderedStep(bs, bs2, new, ep)
  <2> HIDE DEF share, bs2
  <2> QED BY <1>1, <1>2, <1>3, PointwiseStep
<1> QED BY <1>1, <1>4, <1>5, OrderedStepKeeps

\* The sweep of idle buffers keeps the ordering invariant.
LEMMA SweepKeeps ==
    ASSUME NEW bs \in [Keys -> SessionBuffer], NEW ts \in SUBSET Turn,
           NEW ep \in [Keys -> Nat], NEW vnow \in [Sources -> 0..MaxTime], OrderInv(bs, ts, ep)
    PROVE  /\ SweepIdle(bs, vnow) \in [Keys -> SessionBuffer]
           /\ SweepTurns(bs, vnow, ep) \in SUBSET Turn
           /\ OrderInv(SweepIdle(bs, vnow), ts \cup SweepTurns(bs, vnow, ep), ep)
<1> DEFINE bs2 == SweepIdle(bs, vnow)
           idle(k) == IsIdle(bs[k], vnow[k[1]])
           share == [k \in Keys |-> IF idle(k) THEN DrainedTurns(k, bs[k], ep[k]) ELSE {}]
           new == UNION {share[k] : k \in Keys}
<1>1. bs2 \in [Keys -> SessionBuffer]
  BY DrainType DEF SweepIdle
<1>2. \A k \in Keys : \A c \in bs[k].pending :
         c.key = k /\ (bs[k].lastFinal # None => bs[k].lastFinal =< c.rt)
  BY DEF OrderInv
<1>3. ASSUME NEW k \in Keys
      PROVE  /\ share[k] \subseteq Turn
             /\ bs2[k].pending \subseteq bs[k].pending
             /\ bs2[k].lastFinal # None => \A c \in bs2[k].pending : bs2[k].lastFinal =< c.rt
             /\ bs[k].lastFinal # None => bs2[k].lastFinal # None /\ bs[k].lastFinal =< bs2[k].lastFinal
             /\ \A t \in share[k] :
                   /\ t.key = k /\ t.epoch = ep[k] /\ bs2[k].lastFinal # None
                   /\ t.calls \subseteq bs[k].pending
                   /\ \A c \in t.calls : c.rt =< bs2[k].lastFinal
             /\ SessionsOrdered(share[k])
  <2>1. CASE idle(k)
    <3>1. bs2[k] = Drain(bs[k]) /\ share[k] = DrainedTurns(k, bs[k], ep[k])
      BY <2>1 DEF SweepIdle
    <3>2. bs[k] \in SessionBuffer /\ ep[k] \in Nat
      OBVIOUS
    <3>3. bs2[k].pending = {}
      BY <1>2, <3>1, <3>2, DrainOrder
    <3> HIDE DEF share, bs2
    <3> QED BY <1>2, <3>1, <3>2, <3>3, DrainOrder
  <2>2. CASE ~idle(k)
    <3>1. bs2[k] = bs[k] /\ share[k] = {}
      BY <2>2 DEF SweepIdle
    <3>2. bs[k].lastFinal \in Nat \cup {None}
      BY DEF SessionBuffer
    <3>3. SessionsOrdered({})
      BY DEF SessionsOrdered
    <3> HIDE DEF share, bs2
    <3> QED BY <1>2, <3>1, <3>2, <3>3
  <2> QED BY <2>1, <2>2
<1>4. SweepTurns(bs, vnow, ep) = new
  BY DEF SweepTurns
<1>5. new \in SUBSET Turn /\ OrderedStep(bs, bs2, new, ep)
  <2> HIDE DEF share, bs2
  <2> QED BY <1>1, <1>2, <1>3, PointwiseStep
<1> QED BY <1>1, <1>4, <1>5, OrderedStepKeeps

\* gc_buffers forgets a session's cut, and with it the session's epoch ends.
LEMMA GcKeeps ==
    ASSUME NEW bs \in [Keys -> SessionBuffer], NEW ts \in SUBSET Turn,
           NEW ep \in [Keys -> Nat], NEW vnow \in [Sources -> 0..MaxTime], OrderInv(bs, ts, ep)
    PROVE  /\ GcBuffers(bs, vnow) \in [Keys -> SessionBuffer]
           /\ GcEpoch(bs, vnow, ep) \in [Keys -> Nat]
           /\ OrderInv(GcBuffers(bs, vnow), ts, GcEpoch(bs, vnow, ep))
<1> DEFINE bs2 == GcBuffers(bs, vnow)
           ep2 == GcEpoch(bs, vnow, ep)
<1>1. EmptyBuffer \in SessionBuffer
  BY DEF EmptyBuffer, SessionBuffer
<1>2. bs2 \in [Keys -> SessionBuffer] /\ ep2 \in [Keys -> Nat]
  BY <1>1 DEF GcBuffers, GcEpoch
<1>3. ASSUME NEW k \in Keys
      PROVE  \/ bs2[k] = bs[k] /\ ep2[k] = ep[k]
             \/ bs2[k] = EmptyBuffer /\ ep2[k] = ep[k] + 1
  BY DEF GcBuffers, GcEpoch
<1>4. \A k \in Keys : \A c \in bs2[k].pending :
         c.key = k /\ (bs2[k].lastFinal # None => bs2[k].lastFinal =< c.rt)
  BY <1>3 DEF OrderInv, EmptyBuffer
<1>5. ASSUME NEW t \in ts
      PROVE  /\ t.epoch =< ep2[t.key]
             /\ t.epoch = ep2[t.key] =>
                  bs2[t.key].lastFinal # None /\ \A c \in t.calls : c.rt =< bs2[t.key].lastFinal
  <2>1. t.key \in Keys /\ t.epoch \in Nat /\ ep[t.key] \in Nat
    BY DEF Turn
  <2>2. t.epoch =< ep[t.key]
    BY DEF OrderInv
  <2>3. CASE bs2[t.key] = bs[t.key] /\ ep2[t.key] = ep[t.key]
    BY <2>3 DEF OrderInv
  <2>4. CASE ep2[t.key] = ep[t.key] + 1
    BY <2>1, <2>2, <2>4
  <2> QED BY <1>3, <2>1, <2>3, <2>4
<1> QED BY <1>2, <1>4, <1>5 DEF OrderInv

-----------------------------------------------------------------------------
(* The inductive invariant.                                                 *)

IInv == TypeOK /\ OrderInv(buffers, turns, epoch)

\* The common tail of the handlers keeps types and ordering.
LEMMA FlushThenSweepKeeps ==
    ASSUME TypeOK, NEW bs \in [Keys -> SessionBuffer], NEW reg \in SUBSET Snapshot,
           NEW vnow \in [Sources -> 0..MaxTime], OrderInv(bs, turns, epoch),
           FlushThenSweep(bs, reg, vnow)
    PROVE  /\ buffers' \in [Keys -> SessionBuffer]
           /\ turns' \subseteq Turn
           /\ epoch' \in [Keys -> Nat]
           /\ registry' \subseteq Snapshot
           /\ lastSweep' \in Nat
           /\ OrderInv(buffers', turns', epoch')
<1> DEFINE flushed == Flush(bs, wall)
           bs1 == GcBuffers(flushed, vnow)
           ep1 == GcEpoch(flushed, vnow, epoch)
           out1 == FlushTurns(bs, wall, epoch)
           swept == SweepIdle(bs1, vnow)
           out2 == SweepTurns(bs1, vnow, ep1)
<1>0. turns \in SUBSET Turn /\ epoch \in [Keys -> Nat] /\ wall \in Nat /\ lastSweep \in Nat
  BY DEF TypeOK
<1>1. /\ flushed \in [Keys -> SessionBuffer] /\ out1 \in SUBSET Turn
      /\ OrderInv(flushed, turns \cup out1, epoch)
  BY <1>0, FlushKeeps
<1>2. /\ bs1 \in [Keys -> SessionBuffer] /\ ep1 \in [Keys -> Nat]
      /\ OrderInv(bs1, turns \cup out1, ep1)
  <2>1. turns \cup out1 \in SUBSET Turn
    BY <1>0, <1>1
  <2> HIDE DEF flushed, out1
  <2> QED BY <1>0, <1>1, <2>1, GcKeeps
<1>3. /\ swept \in [Keys -> SessionBuffer] /\ out2 \in SUBSET Turn
      /\ OrderInv(swept, turns \cup out1 \cup out2, ep1)
  <2>1. turns \cup out1 \in SUBSET Turn
    BY <1>0, <1>1
  <2> HIDE DEF bs1, ep1, out1
  <2> QED BY <1>2, <2>1, SweepKeeps
<1>4. /\ GcBuffers(swept, vnow) \in [Keys -> SessionBuffer]
      /\ GcEpoch(swept, vnow, ep1) \in [Keys -> Nat]
      /\ OrderInv(GcBuffers(swept, vnow), turns \cup out1 \cup out2, GcEpoch(swept, vnow, ep1))
  <2>1. turns \cup out1 \cup out2 \in SUBSET Turn
    BY <1>0, <1>1, <1>3
  <2> HIDE DEF swept, ep1, out1, out2
  <2> QED BY <1>2, <1>3, <2>1, GcKeeps
<1>5. GlobalNow(vnow) \in Nat
  <2>1. {vnow[s] : s \in Sources} \subseteq 0..MaxTime /\ {vnow[s] : s \in Sources} # {}
    BY ConfigAssumption
  <2> QED BY <2>1, MaxOfBounded, ConfigAssumption DEF GlobalNow
<1>6. lastSweep' \in Nat
  BY <1>0, <1>5 DEF FlushThenSweep
<1>7. registry' \subseteq Snapshot
  BY DEF FlushThenSweep, DropCompleted
<1>8. CASE SweepDue(vnow)
  <2>1. /\ buffers' = GcBuffers(swept, vnow)
        /\ epoch' = GcEpoch(swept, vnow, ep1)
        /\ turns' = turns \cup out1 \cup out2
    BY <1>8 DEF FlushThenSweep
  <2> HIDE DEF swept, ep1, out1, out2
  <2> QED BY <1>0, <1>1, <1>3, <1>4, <1>6, <1>7, <2>1
<1>9. CASE ~SweepDue(vnow)
  <2>1. buffers' = bs1 /\ epoch' = ep1 /\ turns' = turns \cup out1
    BY <1>9 DEF FlushThenSweep
  <2> HIDE DEF bs1, ep1, out1
  <2> QED BY <1>0, <1>1, <1>2, <1>6, <1>7, <2>1
<1> QED BY <1>8, <1>9

\* A call that passed the late guard of ingest_at is pushed at or above the
\* last cut of its session.
LEMMA PushKeeps ==
    ASSUME NEW bs \in [Keys -> SessionBuffer], NEW ts \in SUBSET Turn,
           NEW ep \in [Keys -> Nat], OrderInv(bs, ts, ep),
           NEW k \in Keys, NEW c \in BufferedCall, c.key = k, NEW vn \in Nat,
           ~IsLate(bs[k], c.rt)
    PROVE  LET b == Push(bs[k], c, vn)
               bs2 == [bs EXCEPT ![k] = b]
           IN  /\ b \in SessionBuffer /\ b.turnId \in TurnIds
               /\ bs2 \in [Keys -> SessionBuffer]
               /\ OrderInv(bs2, ts, ep)
<1> DEFINE b == Push(bs[k], c, vn)
           bs2 == [bs EXCEPT ![k] = b]
<1>1. /\ bs[k].pending \in SUBSET BufferedCall /\ bs[k].grace \in Nat \cup {None}
      /\ bs[k].lastFinal \in Nat \cup {None} /\ bs[k].turnId \in TurnIds \cup {None}
  BY DEF SessionBuffer
<1>2. c.id \in Nat /\ c.at \in Nat /\ c.rt \in Nat
  BY CallFields
<1>3. b.turnId \in TurnIds
  BY <1>1, <1>2 DEF Push, TurnIds
<1>4. b \in SessionBuffer
  BY <1>1, <1>2, <1>3 DEF Push, SessionBuffer
<1>5. bs2 \in [Keys -> SessionBuffer]
  BY <1>4
<1>6. \A j \in Keys : bs2[j].lastFinal = bs[j].lastFinal
  BY DEF Push
<1>7. bs[k].lastFinal # None => bs[k].lastFinal =< c.rt
  BY <1>1, <1>2 DEF IsLate
<1>8. \A j \in Keys : \A d \in bs2[j].pending :
         d.key = j /\ (bs2[j].lastFinal # None => bs2[j].lastFinal =< d.rt)
  <2> TAKE j \in Keys
  <2>1. CASE j = k
    <3>1. bs2[j].pending = bs[k].pending \cup {c}
      BY <2>1 DEF Push
    <3> QED BY <1>6, <1>7, <2>1, <3>1 DEF OrderInv
  <2>2. CASE j # k
    BY <2>2 DEF OrderInv
  <2> QED BY <2>1, <2>2
<1>9. \A t \in ts : t.key \in Keys
  BY DEF Turn
<1>10. \A t \in ts : t.epoch = ep[t.key] =>
          bs2[t.key].lastFinal # None /\ \A d \in t.calls : d.rt =< bs2[t.key].lastFinal
  <2> HIDE DEF bs2
  <2> QED BY <1>6, <1>9 DEF OrderInv
<1> HIDE DEF b, bs2
<1>11. OrderInv(bs2, ts, ep)
  BY <1>8, <1>10 DEF OrderInv
<1> QED BY <1>3, <1>4, <1>5, <1>11 DEF b, bs2

\* Event-time watermarks stay within the bound.
LEMMA BumpType ==
    ASSUME TypeOK, NEW s \in Sources, NEW ts \in 0..MaxTime
    PROVE  BumpEventTime(s, ts) \in [Sources -> 0..MaxTime]
BY DEF TypeOK, BumpEventTime

\* One TurnShardInput::Call keeps the inductive invariant.
LEMMA IngestKeeps ==
    ASSUME IInv, NEW k \in Keys, NEW kind \in Kinds, NEW rt \in 0..MaxTime,
           NEW ts \in 0..MaxTime, Ingest(k, kind, rt, ts)
    PROVE  IInv'
<1> DEFINE vnow == BumpEventTime(k[1], ts)
           c == [key |-> k, id |-> ncalls, rt |-> rt, at |-> wall, kind |-> kind]
           b == Push(buffers[k], c, vnow[k[1]])
           bypass == kind.aux \/ IsLate(buffers[k], rt)
           bs == IF bypass THEN buffers ELSE [buffers EXCEPT ![k] = b]
           reg == IF bypass THEN registry ELSE RefreshActiveSnapshot(registry, k, b)
<1>0. TypeOK /\ OrderInv(buffers, turns, epoch)
  BY DEF IInv
<1>1. k[1] \in Sources
  BY DEF Keys
<1>2. vnow \in [Sources -> 0..MaxTime] /\ vnow[k[1]] \in Nat
  BY <1>0, <1>1, BumpType, ConfigAssumption
<1>3. c \in BufferedCall /\ c.key = k /\ c.rt = rt
  BY <1>0 DEF TypeOK, BufferedCall
<1>4. turns \in SUBSET Turn /\ epoch \in [Keys -> Nat] /\ registry \in SUBSET Snapshot
      /\ buffers \in [Keys -> SessionBuffer]
  BY <1>0 DEF TypeOK
<1>5. ~bypass => /\ b \in SessionBuffer /\ b.turnId \in TurnIds
                 /\ [buffers EXCEPT ![k] = b] \in [Keys -> SessionBuffer]
                 /\ OrderInv([buffers EXCEPT ![k] = b], turns, epoch)
  <2> HIDE DEF c, vnow
  <2> QED BY <1>0, <1>2, <1>3, <1>4, PushKeeps
<1>6. bs \in [Keys -> SessionBuffer] /\ OrderInv(bs, turns, epoch)
  <2> HIDE DEF b, bypass
  <2> QED BY <1>0, <1>4, <1>5
<1>7. reg \in SUBSET Snapshot
  <2>1. ASSUME ~bypass PROVE RefreshActiveSnapshot(registry, k, b) \in SUBSET Snapshot
    <3> HIDE DEF b, bypass
    <3>1. b.pending \in SUBSET BufferedCall /\ b.turnId \in TurnIds
      BY <1>5, <2>1 DEF SessionBuffer
    <3>2. SnapshotPartition(b.pending) \in SUBSET BufferedCall
      BY <3>1 DEF SnapshotPartition
    <3> QED BY <1>4, <3>1, <3>2 DEF RefreshActiveSnapshot, Snapshot
  <2> HIDE DEF b, bypass
  <2> QED BY <1>4, <2>1
<1>8. FlushThenSweep(bs, reg, vnow)
  BY DEF Ingest
<1>9. /\ buffers' \in [Keys -> SessionBuffer] /\ turns' \subseteq Turn
      /\ epoch' \in [Keys -> Nat] /\ registry' \subseteq Snapshot
      /\ lastSweep' \in Nat /\ OrderInv(buffers', turns', epoch')
  <2> HIDE DEF bs, reg, vnow
  <2> QED BY <1>0, <1>2, <1>6, <1>7, <1>8, FlushThenSweepKeeps
<1>10. /\ virtualNow' = vnow /\ ncalls' = ncalls + 1 /\ wall' = wall /\ eof' = eof
       /\ admitted' \subseteq admitted \cup {c}
  BY DEF Ingest
<1>11. TypeOK'
  <2> HIDE DEF vnow, c
  <2> QED BY <1>0, <1>2, <1>3, <1>9, <1>10 DEF TypeOK
<1> QED BY <1>9, <1>11 DEF IInv

\* One TurnShardInput::Heartbeat keeps the inductive invariant.
LEMMA AdvanceTimeKeeps ==
    ASSUME IInv, NEW s \in Sources, NEW ts \in 0..MaxTime, AdvanceTime(s, ts)
    PROVE  IInv'
<1> DEFINE vnow == BumpEventTime(s, ts)
<1>0. TypeOK /\ OrderInv(buffers, turns, epoch)
  BY DEF IInv
<1>1. vnow \in [Sources -> 0..MaxTime]
  BY <1>0, BumpType
<1>2. buffers \in [Keys -> SessionBuffer] /\ registry \in SUBSET Snapshot
  BY <1>0 DEF TypeOK
<1>3. FlushThenSweep(buffers, registry, vnow)
  BY DEF AdvanceTime
<1>4. /\ buffers' \in [Keys -> SessionBuffer] /\ turns' \subseteq Turn
      /\ epoch' \in [Keys -> Nat] /\ registry' \subseteq Snapshot
      /\ lastSweep' \in Nat /\ OrderInv(buffers', turns', epoch')
  <2> HIDE DEF vnow
  <2> QED BY <1>0, <1>1, <1>2, <1>3, FlushThenSweepKeeps
<1>5. virtualNow' = vnow /\ UNCHANGED <<wall, ncalls, eof, admitted>>
  BY DEF AdvanceTime
<1>6. TypeOK'
  <2> HIDE DEF vnow
  <2> QED BY <1>0, <1>1, <1>4, <1>5 DEF TypeOK
<1> QED BY <1>4, <1>6 DEF IInv

\* flush_all at end of input keeps the inductive invariant.
LEMMA FlushAllKeeps ==
    ASSUME IInv, FlushAll
    PROVE  IInv'
<1> DEFINE force == wall + Grace + 1
           forced == [k \in Keys |-> FinalizeSession(buffers[k], force)]
           drained == [k \in Keys |-> Drain(forced[k])]
           share1 == [k \in Keys |-> FinalizedTurns(k, buffers[k], force, epoch[k])]
           share2 == [k \in Keys |-> DrainedTurns(k, forced[k], epoch[k])]
           out1 == UNION {share1[k] : k \in Keys}
           out2 == UNION {share2[k] : k \in Keys}
<1>0. TypeOK /\ OrderInv(buffers, turns, epoch)
  BY DEF IInv
<1>1. /\ turns \in SUBSET Turn /\ epoch \in [Keys -> Nat] /\ force \in Nat
      /\ buffers \in [Keys -> SessionBuffer]
  BY <1>0, ConfigAssumption DEF TypeOK
<1>2. forced \in [Keys -> SessionBuffer]
  <2> HIDE DEF force
  <2> QED BY <1>1, FinalizeType
<1>3. drained \in [Keys -> SessionBuffer]
  <2> HIDE DEF forced
  <2> QED BY <1>2, DrainType
<1>4. \A k \in Keys : \A c \in buffers[k].pending :
         c.key = k /\ (buffers[k].lastFinal # None => buffers[k].lastFinal =< c.rt)
  BY <1>0 DEF OrderInv
<1>5. out1 \in SUBSET Turn /\ OrderedStep(buffers, forced, out1, epoch)
  <2>1. ASSUME NEW k \in Keys
        PROVE  /\ share1[k] \subseteq Turn
               /\ forced[k].pending \subseteq buffers[k].pending
               /\ forced[k].lastFinal # None => \A c \in forced[k].pending : forced[k].lastFinal =< c.rt
               /\ buffers[k].lastFinal # None => forced[k].lastFinal # None /\ buffers[k].lastFinal =< forced[k].lastFinal
               /\ \A t \in share1[k] :
                     /\ t.key = k /\ t.epoch = epoch[k] /\ forced[k].lastFinal # None
                     /\ t.calls \subseteq buffers[k].pending
                     /\ \A c \in t.calls : c.rt =< forced[k].lastFinal
               /\ SessionsOrdered(share1[k])
    <3>1. forced[k] = FinalizeSession(buffers[k], force)
          /\ share1[k] = FinalizedTurns(k, buffers[k], force, epoch[k])
      OBVIOUS
    <3>2. buffers[k] \in SessionBuffer /\ epoch[k] \in Nat
      BY <1>1
    <3> HIDE DEF force, forced, share1
    <3> QED BY <1>1, <1>4, <3>1, <3>2, FinalizeOrder
  <2> HIDE DEF force, forced, drained, share1, share2, out2
  <2>2. epoch \in [Keys -> Nat] /\ buffers \in [Keys -> SessionBuffer]
    BY <1>1
  <2> QED BY ONLY <1>2, <1>4, <2>1, <2>2, PointwiseStep, SMTT(30)
<1>6. OrderInv(forced, turns \cup out1, epoch)
  <2> HIDE DEF forced, out1
  <2> QED BY <1>0, <1>1, <1>2, <1>5, OrderedStepKeeps
<1>7. \A k \in Keys : \A c \in forced[k].pending :
         c.key = k /\ (forced[k].lastFinal # None => forced[k].lastFinal =< c.rt)
  <2> HIDE DEF forced, out1
  <2> QED BY <1>6 DEF OrderInv
<1>8. out2 \in SUBSET Turn /\ OrderedStep(forced, drained, out2, epoch)
  <2>1. ASSUME NEW k \in Keys
        PROVE  /\ share2[k] \subseteq Turn
               /\ drained[k].pending \subseteq forced[k].pending
               /\ drained[k].lastFinal # None => \A c \in drained[k].pending : drained[k].lastFinal =< c.rt
               /\ forced[k].lastFinal # None => drained[k].lastFinal # None /\ forced[k].lastFinal =< drained[k].lastFinal
               /\ \A t \in share2[k] :
                     /\ t.key = k /\ t.epoch = epoch[k] /\ drained[k].lastFinal # None
                     /\ t.calls \subseteq forced[k].pending
                     /\ \A c \in t.calls : c.rt =< drained[k].lastFinal
               /\ SessionsOrdered(share2[k])
    <3>1. drained[k] = Drain(forced[k]) /\ share2[k] = DrainedTurns(k, forced[k], epoch[k])
      OBVIOUS
    <3> HIDE DEF forced, drained, share2
    <3>2. forced[k] \in SessionBuffer /\ epoch[k] \in Nat
      BY <1>1, <1>2
    <3>3. drained[k].pending = {}
      BY <1>7, <3>1, <3>2, DrainOrder
    <3> QED BY <1>7, <3>1, <3>2, <3>3, DrainOrder
  <2> HIDE DEF force, forced, drained, share1, out1, share2
  <2>2. epoch \in [Keys -> Nat]
    BY <1>1
  <2> QED BY ONLY <1>2, <1>3, <1>7, <2>1, <2>2, PointwiseStep, SMTT(30)
<1>9. OrderInv(drained, turns \cup out1 \cup out2, epoch)
  <2>1. turns \cup out1 \in SUBSET Turn
    <3> HIDE DEF out1
    <3> QED BY <1>1, <1>5
  <2> HIDE DEF forced, drained, out1, out2
  <2> QED BY <1>1, <1>2, <1>3, <1>6, <1>8, <2>1, OrderedStepKeeps
<1>10. /\ buffers' = drained /\ eof' = TRUE
       /\ turns' = turns \cup out1 \cup out2
       /\ registry' \subseteq registry
       /\ UNCHANGED <<virtualNow, lastSweep, wall, ncalls, admitted, epoch>>
  BY DEF FlushAll, DropCompleted
<1>11. TypeOK'
  <2> HIDE DEF drained, out1, out2
  <2> QED BY <1>0, <1>1, <1>3, <1>5, <1>8, <1>10 DEF TypeOK
<1>12. OrderInv(buffers', turns', epoch')
  <2> HIDE DEF drained, out1, out2
  <2> QED BY <1>9, <1>10
<1> QED BY <1>11, <1>12 DEF IInv

-----------------------------------------------------------------------------
LEMMA TrackerInitially == Init => IInv
<1> SUFFICES ASSUME Init PROVE IInv
  OBVIOUS
<1>1. EmptyBuffer \in SessionBuffer
  BY DEF EmptyBuffer, SessionBuffer
<1>2. TypeOK
  <2>1. 0 \in 0..MaxTime
    BY ConfigAssumption
  <2>2. buffers \in [Keys -> SessionBuffer]
    BY <1>1 DEF Init
  <2>3. virtualNow \in [Sources -> 0..MaxTime] /\ epoch \in [Keys -> Nat]
    BY <2>1 DEF Init
  <2> QED BY <2>2, <2>3 DEF Init, TypeOK
<1>3. OrderInv(buffers, turns, epoch)
  BY DEF Init, OrderInv, EmptyBuffer, SessionsOrdered
<1> QED BY <1>2, <1>3 DEF IInv

LEMMA TrackerStep == IInv /\ [Next]_vars => IInv'
<1> SUFFICES ASSUME IInv, [Next]_vars PROVE IInv'
  OBVIOUS
<1>1. CASE IngestSome
  <2>1. PICK k \in Keys, kind \in Kinds, rt \in 0..MaxTime, d \in Latencies :
           rt + d =< MaxTime /\ Ingest(k, kind, rt, rt + d)
    BY <1>1 DEF IngestSome
  <2>2. rt + d \in 0..MaxTime
    BY <2>1, ConfigAssumption
  <2> QED BY <2>1, <2>2, IngestKeeps
<1>2. CASE \E s \in Sources, ts \in 0..MaxTime : AdvanceTime(s, ts)
  BY <1>2, AdvanceTimeKeeps
<1>3. CASE FlushAll
  BY <1>3, FlushAllKeeps
<1>4. CASE Tick
  BY <1>4 DEF Tick, IInv, TypeOK
<1>5. CASE UNCHANGED vars
  BY <1>5 DEF vars, IInv, TypeOK
<1> QED BY <1>1, <1>2, <1>3, <1>4, <1>5 DEF Next

\* The inductive invariant holds in every reachable state.
THEOREM TrackerInvariant == Spec => []IInv
BY TrackerInitially, TrackerStep, PTL DEF Spec

\* Type correctness of the tracker, for all constants.
THEOREM TypeCorrect == Spec => []TypeOK
<1>1. IInv => TypeOK
  BY DEF IInv
<1> QED BY <1>1, TrackerInvariant, PTL

\* Turns of one session never overlap in request time, for any number of
\* sources, sessions and calls, in any arrival order.
THEOREM TurnsAreOrdered == Spec => []TurnsOrdered
<1>1. IInv => TurnsOrdered
  BY DEF IInv, OrderInv, TurnsOrdered
<1> QED BY <1>1, TrackerInvariant, PTL

-----------------------------------------------------------------------------
(* Where a call is: the accounting argument, on the buffers, the registry,  *)
(* the emitted turns, the admitted calls and their number.                  *)

\* A call is known by its id, and is in one place, of its own session.
Placed(bs, ts, adm, n) ==
    /\ \A c \in adm : c.id < n
    /\ \A c, d \in adm : c.id = d.id => c = d
    /\ \A k \in Keys : bs[k].pending \subseteq adm /\ \A c \in bs[k].pending : c.key = k
    /\ \A t \in ts : t.calls \subseteq adm
    /\ \A t1, t2 \in ts : t1 # t2 => t1.calls \cap t2.calls = {}
    /\ \A t \in ts, k \in Keys : t.calls \cap bs[k].pending = {}

Lossless(bs, ts, adm) ==
    \A c \in adm : KeepsTurn(c) =>
        \/ c \in bs[c.key].pending
        \/ \E t \in ts : t.key = c.key /\ c \in t.calls

\* A turn id was minted at ingest, for one buffer, or by build_turn for a call of
\* the turn.
Minted(id, n) == id.by = "ingest" /\ id.n < n
Built(t) == t.id.by = "build" /\ \E c \in t.calls : c.id = t.id.n

IdsOnce(bs, reg, ts, n) ==
    /\ \A k \in Keys : bs[k].turnId # None => Minted(bs[k].turnId, n)
    /\ \A j, k \in Keys : bs[j].turnId # None /\ bs[j].turnId = bs[k].turnId => j = k
    /\ \A t \in ts : Minted(t.id, n) \/ Built(t)
    /\ \A t \in ts, k \in Keys : t.id # bs[k].turnId
    /\ \A t1, t2 \in ts : t1.id = t2.id => t1 = t2
    /\ \A e \in reg : Minted(e.id, n)
    /\ \A t \in ts, e \in reg : t.id # e.id

Shown(bs, reg) ==
    \A e \in reg : e.id = bs[e.key].turnId => e.calls \subseteq bs[e.key].pending

Removable(b) ==
    /\ b.turnId # None => b.pending # {}
    /\ b = EmptyBuffer \/ b.pending # {} \/ b.lastFinal # None

AccountInv(bs, reg, ts, adm, n) ==
    /\ Placed(bs, ts, adm, n)
    /\ Lossless(bs, ts, adm)
    /\ IdsOnce(bs, reg, ts, n)
    /\ Shown(bs, reg)
    /\ \A k \in Keys : Removable(bs[k])

\* What a pass makes of one buffer, emitting `new' for it: a call stays or goes, with
\* a turn if it keeps one; the buffer's id goes to one turn and is given up.
Shares(k, b, b2, new) ==
    /\ b2.pending \subseteq b.pending
    /\ \A t \in new : t.key = k /\ t.calls \subseteq b.pending /\ t.calls \cap b2.pending = {}
    /\ \A t1, t2 \in new : t1 # t2 => t1.calls \cap t2.calls = {}
    /\ \A c \in b.pending : KeepsTurn(c) => c \in b2.pending \/ \E t \in new : c \in t.calls
    /\ b2.turnId # None => b2.turnId = b.turnId /\ b2.pending = b.pending
    /\ Removable(b) => Removable(b2)
    /\ \A t \in new : Built(t) \/ (t.id = b.turnId /\ b.turnId # None /\ b2.turnId = None)
    /\ \A t1, t2 \in new : b.turnId # None /\ t1.id = b.turnId /\ t2.id = b.turnId => t1 = t2

\* The turn emit_or_discard builds.
LEMMA EmittedTurn ==
    ASSUME NEW k, NEW o \in TurnIds \cup {None}, NEW calls \in SUBSET BufferedCall, NEW ep,
           NEW t \in EmitOrDiscard(k, o, calls, ep)
    PROVE  /\ t.key = k /\ t.calls = calls
           /\ o # None => t.id = o
           /\ o = None => Built(t)
<1>1. t = BuildTurn(k, o, calls, ep) /\ calls # {}
  BY DEF EmitOrDiscard
<1>2. t.key = k /\ t.calls = calls /\ t.id = TurnIdFor(o, calls)
  BY <1>1 DEF BuildTurn
<1>3. o # None => t.id = o
  BY <1>2 DEF TurnIdFor
<1>4. ASSUME o = None PROVE Built(t)
  <2> DEFINE I == {c.id : c \in calls}
  <2>1. I \subseteq Nat /\ I # {}
    BY <1>1, CallFields
  <2>2. MinOf(I) \in I
    BY <2>1, MinOfNat
  <2>3. t.id = [by |-> "build", n |-> MinOf(I)]
    BY <1>2, <1>4 DEF TurnIdFor
  <2>4. t.id.by = "build" /\ t.id.n \in I
    BY <2>2, <2>3
  <2> QED BY <1>2, <2>4 DEF Built
<1> QED BY <1>2, <1>3, <1>4

\* finalize_session takes whole partitions, in disjoint ranges, and gives the buffer's
\* id to the first.
LEMMA FinalizeShares ==
    ASSUME NEW k \in Keys, NEW b \in SessionBuffer, NEW now \in Nat, NEW ep \in Nat,
           b.turnId # None => b.turnId.by = "ingest"
    PROVE  Shares(k, b, FinalizeSession(b, now), FinalizedTurns(k, b, now, ep))
<1> DEFINE cuts == Cuts(b.pending, now)
           b2 == FinalizeSession(b, now)
           new == FinalizedTurns(k, b, now, ep)
           part(r) == Partition(b.pending, cuts, r)
           over(r) == IF r = MinOf(cuts) THEN b.turnId ELSE None
<1>1. b.pending \in SUBSET BufferedCall /\ b.turnId \in TurnIds \cup {None}
      /\ b.lastFinal \in Nat \cup {None}
  BY DEF SessionBuffer
<1>2. \A c \in b.pending : c.rt \in Nat
  BY <1>1, CallFields
<1>3. cuts \subseteq 0..MaxTime /\ cuts \subseteq Nat
  BY <1>1, CutsType
<1>4. b2.pending = Remaining(b.pending, cuts) /\ b2.grace = GraceOf(b2.pending)
      /\ b2.lastFinal = (IF cuts = {} THEN b.lastFinal ELSE MaxOf(cuts))
      /\ b2.lastActivity = b.lastActivity /\ b2.turnId = (IF cuts = {} THEN b.turnId ELSE None)
  BY DEF FinalizeSession
<1>5. \A r \in cuts : part(r) \in SUBSET BufferedCall /\ part(r) \subseteq b.pending
  BY <1>1 DEF Partition
<1>6. \A r \in cuts : over(r) \in TurnIds \cup {None}
  BY <1>1
<1>7. \A t \in new : \E r \in cuts : t \in EmitOrDiscard(k, over(r), part(r), ep)
  BY DEF FinalizedTurns
<1>8. ASSUME NEW t \in new
      PROVE  \E r \in cuts : /\ t \in EmitOrDiscard(k, over(r), part(r), ep)
                             /\ t.key = k /\ t.calls = part(r)
                             /\ over(r) # None => t.id = over(r)
                             /\ over(r) = None => Built(t)
  <2>1. PICK r \in cuts : t \in EmitOrDiscard(k, over(r), part(r), ep)
    BY <1>7
  <2> HIDE DEF part, over, cuts, new
  <2> QED BY <1>5, <1>6, <2>1, EmittedTurn
<1>9. \A r \in cuts : part(r) \cap b2.pending = {}
  BY <1>2, <1>3, <1>4 DEF Partition, Remaining
<1>10. \A q, r \in cuts : q # r => part(q) \cap part(r) = {}
  <2>1. \A q, r \in cuts : q < r => part(q) \cap part(r) = {}
    BY <1>2, <1>3 DEF Partition
  <2>2. \A q, r \in cuts : q # r => q < r \/ r < q
    BY <1>3
  <2> QED BY <2>1, <2>2
<1>11. ASSUME NEW c \in b.pending, KeepsTurn(c), c \notin b2.pending
       PROVE  \E t \in new : c \in t.calls
  <2> DEFINE Q == {q \in cuts : c.rt =< q}
  <2>1. Q \subseteq Nat /\ Q # {}
    BY <1>2, <1>3, <1>4, <1>11 DEF Remaining
  <2>0. MinOf(Q) \in Q /\ \A q \in Q : MinOf(Q) =< q
    <3> HIDE DEF Q
    <3> QED BY <2>1, MinOfNat
  <2>2. PICK r \in Q : \A q \in Q : r =< q
    BY <2>0
  <2>3. c \in part(r)
    BY <1>2, <1>3, <2>2 DEF Partition
  <2>4. EmitOrDiscard(k, over(r), part(r), ep) = {BuildTurn(k, over(r), part(r), ep)}
    BY <1>11, <2>3 DEF EmitOrDiscard, Kept
  <2>5. BuildTurn(k, over(r), part(r), ep) \in new
    BY <2>2, <2>4 DEF FinalizedTurns
  <2>6. BuildTurn(k, over(r), part(r), ep).calls = part(r)
    BY DEF BuildTurn
  <2> QED BY <2>3, <2>5, <2>6
<1>12. cuts = {} => b2.pending = b.pending
  BY <1>4 DEF Remaining
<1>13. Removable(b) => Removable(b2)
  <2>1. CASE cuts # {}
    <3>1. MaxOf(cuts) \in Nat
      BY <1>3, <2>1, MaxOfBounded, ConfigAssumption
    <3> QED BY <1>4, <2>1, <3>1, ConfigAssumption DEF Removable
  <2>2. CASE cuts = {}
    <3>1. ASSUME b = EmptyBuffer PROVE b2 = EmptyBuffer
      <4>1. b2.pending = {}
        BY <1>12, <2>2, <3>1 DEF EmptyBuffer
      <4>2. b2.grace = None
        BY <1>4, <4>1 DEF GraceOf, Terminals
      <4>3. b2 = [pending |-> {}, grace |-> None, lastFinal |-> b.lastFinal,
                  lastActivity |-> b.lastActivity, turnId |-> b.turnId]
        BY <2>2, <4>1, <4>2 DEF FinalizeSession
      <4> QED BY <3>1, <4>3 DEF EmptyBuffer
    <3> HIDE DEF b2
    <3> QED BY <1>4, <1>12, <2>2, <3>1 DEF Removable
  <2> QED BY <2>1, <2>2
<1> HIDE DEF b2, new, part, cuts
<1>14. ASSUME NEW t \in new
       PROVE  Built(t) \/ (t.id = b.turnId /\ b.turnId # None /\ b2.turnId = None)
  BY <1>4, <1>8
<1>15. ASSUME NEW t1 \in new, NEW t2 \in new, b.turnId # None, t1.id = b.turnId, t2.id = b.turnId
       PROVE  t1 = t2
  <2>1. \A t \in new : t.id = b.turnId => t \in EmitOrDiscard(k, b.turnId, part(MinOf(cuts)), ep)
    <3> SUFFICES ASSUME NEW t \in new, t.id = b.turnId
                 PROVE  t \in EmitOrDiscard(k, b.turnId, part(MinOf(cuts)), ep)
      OBVIOUS
    <3>1. PICK r \in cuts : /\ t \in EmitOrDiscard(k, over(r), part(r), ep)
                            /\ over(r) = None => Built(t)
      BY <1>8
    <3>2. CASE over(r) # None
      BY <3>1, <3>2
    <3>3. CASE over(r) = None
      <4>1. t.id.by = "build"
        BY <3>1, <3>3 DEF Built
      <4> QED BY <1>15, <4>1
    <3> QED BY <3>2, <3>3
  <2>2. \A t \in EmitOrDiscard(k, b.turnId, part(MinOf(cuts)), ep) :
            t = BuildTurn(k, b.turnId, part(MinOf(cuts)), ep)
    BY DEF EmitOrDiscard
  <2> QED BY <1>15, <2>1, <2>2
<1>16. \A t \in new : t.key = k /\ t.calls \subseteq b.pending /\ t.calls \cap b2.pending = {}
  BY <1>5, <1>8, <1>9
<1>17. ASSUME NEW t1 \in new, NEW t2 \in new, t1 # t2 PROVE t1.calls \cap t2.calls = {}
  <2>1. PICK q \in cuts : t1 \in EmitOrDiscard(k, over(q), part(q), ep) /\ t1.calls = part(q)
    BY <1>8
  <2>2. PICK r \in cuts : t2 \in EmitOrDiscard(k, over(r), part(r), ep) /\ t2.calls = part(r)
    BY <1>8
  <2>3. q # r
    BY <1>17, <2>1, <2>2 DEF EmitOrDiscard
  <2> QED BY <1>10, <2>1, <2>2, <2>3
<1>18. b2.pending \subseteq b.pending
  BY <1>4 DEF Remaining
<1>19. b2.turnId # None => b2.turnId = b.turnId /\ b2.pending = b.pending
  BY <1>4, <1>12
<1> QED BY <1>11, <1>13, <1>14, <1>15, <1>16, <1>17, <1>18, <1>19 DEF Shares, b2, new

\* sweep and flush_all take the whole buffer and give its id to the one turn.
LEMMA DrainShares ==
    ASSUME NEW k \in Keys, NEW b \in SessionBuffer, NEW ep \in Nat
    PROVE  Shares(k, b, Drain(b), DrainedTurns(k, b, ep))
<1> DEFINE b2 == Drain(b)
           new == DrainedTurns(k, b, ep)
<1>1. b.pending \in SUBSET BufferedCall /\ b.turnId \in TurnIds \cup {None}
  BY DEF SessionBuffer
<1>2. \A t \in new : /\ b.pending # {} /\ t = BuildTurn(k, b.turnId, b.pending, ep)
                     /\ t.key = k /\ t.calls = b.pending
                     /\ b.turnId # None => t.id = b.turnId
                     /\ b.turnId = None => Built(t)
  <2> SUFFICES ASSUME NEW t \in new
               PROVE  /\ b.pending # {} /\ t = BuildTurn(k, b.turnId, b.pending, ep)
                      /\ t.key = k /\ t.calls = b.pending
                      /\ b.turnId # None => t.id = b.turnId
                      /\ b.turnId = None => Built(t)
    OBVIOUS
  <2>1. t \in EmitOrDiscard(k, b.turnId, b.pending, ep)
    BY DEF DrainedTurns
  <2>2. b.pending # {} /\ t = BuildTurn(k, b.turnId, b.pending, ep)
    BY <2>1 DEF EmitOrDiscard
  <2> HIDE DEF new
  <2> QED BY <1>1, <2>1, <2>2, EmittedTurn
<1>3. b.pending # {} => /\ b2.pending = {} /\ b2.turnId = None
                        /\ b2.lastFinal = MaxOf({c.rt : c \in b.pending})
  BY DEF Drain
<1>4. b.pending = {} => b2 = b
  BY DEF Drain
<1>5. b.pending # {} => b2.lastFinal # None
  <2> SUFFICES ASSUME b.pending # {} PROVE b2.lastFinal # None
    OBVIOUS
  <2>1. {c.rt : c \in b.pending} \subseteq 0..MaxTime /\ {c.rt : c \in b.pending} # {}
    BY <1>1, CallFields
  <2>2. MaxOf({c.rt : c \in b.pending}) \in Nat
    BY <2>1, MaxOfBounded, ConfigAssumption
  <2> QED BY <1>3, <2>2, ConfigAssumption
<1>6. ASSUME NEW c \in b.pending, KeepsTurn(c) PROVE \E t \in new : c \in t.calls
  <2>1. BuildTurn(k, b.turnId, b.pending, ep) \in new
    BY <1>6 DEF DrainedTurns, EmitOrDiscard, Kept
  <2>2. BuildTurn(k, b.turnId, b.pending, ep).calls = b.pending
    BY DEF BuildTurn
  <2> QED BY <2>1, <2>2
<1>7. Removable(b) => Removable(b2)
  BY <1>3, <1>4, <1>5 DEF Removable
<1> HIDE DEF b2, new
<1>8. \A t1, t2 \in new : t1 = t2
  BY <1>2
<1>9. b2.pending \subseteq b.pending /\ \A t \in new : t.calls \cap b2.pending = {}
  BY <1>2, <1>3, <1>4
<1>10. b2.turnId # None => b2.turnId = b.turnId /\ b2.pending = b.pending
  BY <1>3, <1>4
<1>11. \A t \in new : Built(t) \/ (t.id = b.turnId /\ b.turnId # None /\ b2.turnId = None)
  BY <1>2, <1>3
<1> QED BY <1>2, <1>6, <1>7, <1>8, <1>9, <1>10, <1>11 DEF Shares, b2, new

\* A buffer a pass passes over, and one gc_buffers forgets.
LEMMA IdleShares ==
    ASSUME NEW k, NEW b
    PROVE  /\ Shares(k, b, b, {})
           /\ b.pending = {} => Shares(k, b, EmptyBuffer, {})
<1>1. Shares(k, b, b, {})
  BY DEF Shares
<1>2. EmptyBuffer.pending = {} /\ EmptyBuffer.turnId = None /\ Removable(EmptyBuffer)
  BY DEF EmptyBuffer, Removable
<1>3. b.pending = {} => Shares(k, b, EmptyBuffer, {})
  BY <1>2 DEF Shares
<1> QED BY <1>1, <1>3

\* A pass over all the buffers.
SharesAll(bs, bs2, new) ==
    \E share \in [Keys -> SUBSET Turn] :
        /\ new = UNION {share[k] : k \in Keys}
        /\ \A k \in Keys : Shares(k, bs[k], bs2[k], share[k])

\* Such a pass keeps every call in one place and loses none that keeps a turn.
LEMMA SharesPlace ==
    ASSUME NEW bs \in [Keys -> SessionBuffer], NEW bs2 \in [Keys -> SessionBuffer],
           NEW ts \in SUBSET Turn, NEW adm, NEW n, NEW share \in [Keys -> SUBSET Turn],
           \A k \in Keys : Shares(k, bs[k], bs2[k], share[k]),
           adm \subseteq BufferedCall,
           Placed(bs, ts, adm, n), Lossless(bs, ts, adm)
    PROVE  LET new == UNION {share[k] : k \in Keys}
           IN  Placed(bs2, ts \cup new, adm, n) /\ Lossless(bs2, ts \cup new, adm)
<1> DEFINE new == UNION {share[k] : k \in Keys}
<1>1. ASSUME NEW t \in new
      PROVE  /\ t.key \in Keys /\ t \in share[t.key] /\ t.calls \subseteq bs[t.key].pending
             /\ t.calls \cap bs2[t.key].pending = {}
  BY DEF Shares
<1>2. \A k \in Keys : bs2[k].pending \subseteq bs[k].pending
  BY DEF Shares
<1>3. \A k \in Keys : bs[k].pending \subseteq adm /\ \A c \in bs[k].pending : c.key = k
  BY DEF Placed
<1>4. \A c \in adm : c.key \in Keys
  BY CallFields
<1> HIDE DEF new
<1>5. \A t \in ts \cup new : t.calls \subseteq adm
  BY <1>1, <1>3 DEF Placed
<1>6. ASSUME NEW t1 \in ts \cup new, NEW t2 \in ts \cup new, t1 # t2
      PROVE  t1.calls \cap t2.calls = {}
  <2>1. CASE t1 \in ts /\ t2 \in ts
    BY <1>6, <2>1 DEF Placed
  <2>2. ASSUME NEW s \in ts, NEW t \in new PROVE s.calls \cap t.calls = {}
    <3>1. s.calls \cap bs[t.key].pending = {}
      BY <1>1 DEF Placed
    <3> QED BY <1>1, <3>1
  <2>3. CASE t1 \in new /\ t2 \in new
    <3>1. CASE t1.key = t2.key
      BY <1>1, <1>6, <2>3, <3>1 DEF Shares
    <3>2. CASE t1.key # t2.key
      BY <1>1, <1>3, <2>3, <3>2
    <3> QED BY <3>1, <3>2
  <2> QED BY <2>1, <2>2, <2>3
<1>7. ASSUME NEW t \in ts \cup new, NEW k \in Keys PROVE t.calls \cap bs2[k].pending = {}
  <2>1. CASE t \in ts
    BY <1>2, <2>1 DEF Placed
  <2>2. CASE t \in new
    <3>1. CASE t.key = k
      BY <1>1, <2>2, <3>1
    <3>2. CASE t.key # k
      BY <1>1, <1>2, <1>3, <2>2, <3>2
    <3> QED BY <3>1, <3>2
  <2> QED BY <2>1, <2>2
<1>8. Placed(bs2, ts \cup new, adm, n)
  BY <1>2, <1>3, <1>5, <1>6, <1>7 DEF Placed
<1>9. ASSUME NEW c \in adm, KeepsTurn(c)
      PROVE  \/ c \in bs2[c.key].pending
             \/ \E t \in ts \cup new : t.key = c.key /\ c \in t.calls
  <2>1. CASE c \in bs[c.key].pending
    <3>1. c \in bs2[c.key].pending \/ \E t \in share[c.key] : c \in t.calls
      BY <1>4, <1>9, <2>1 DEF Shares
    <3>2. \A t \in share[c.key] : t \in new /\ t.key = c.key
      BY <1>4 DEF new, Shares
    <3> QED BY <3>1, <3>2
  <2>2. CASE \E t \in ts : t.key = c.key /\ c \in t.calls
    BY <2>2
  <2> QED BY <1>9, <2>1, <2>2 DEF Lossless
<1>10. Lossless(bs2, ts \cup new, adm)
  BY <1>9 DEF Lossless
<1> QED BY <1>8, <1>10 DEF new

\* Such a pass uses an id once, and takes the finished turns off the registry.
LEMMA SharesIds ==
    ASSUME NEW bs \in [Keys -> SessionBuffer], NEW bs2 \in [Keys -> SessionBuffer],
           NEW ts \in SUBSET Turn, NEW reg \in SUBSET Snapshot, NEW adm, NEW n,
           NEW share \in [Keys -> SUBSET Turn],
           \A k \in Keys : Shares(k, bs[k], bs2[k], share[k]),
           Placed(bs, ts, adm, n), Placed(bs2, ts \cup UNION {share[k] : k \in Keys}, adm, n),
           IdsOnce(bs, reg, ts, n), Shown(bs, reg)
    PROVE  LET new == UNION {share[k] : k \in Keys}
           IN  /\ IdsOnce(bs2, DropCompleted(reg, new), ts \cup new, n)
               /\ Shown(bs2, DropCompleted(reg, new))
<1> DEFINE new == UNION {share[k] : k \in Keys}
           reg2 == DropCompleted(reg, new)
<1>0. Placed(bs2, ts \cup new, adm, n)
  OBVIOUS
<1>1. ASSUME NEW t \in new
      PROVE  /\ t.key \in Keys /\ t \in share[t.key] /\ t.calls \subseteq bs[t.key].pending
             /\ Built(t) \/ (t.id = bs[t.key].turnId /\ bs[t.key].turnId # None
                                /\ bs2[t.key].turnId = None)
  BY DEF Shares
<1>2. \A k \in Keys : bs2[k].turnId # None => bs2[k].turnId = bs[k].turnId /\ bs2[k].pending = bs[k].pending
  BY DEF Shares
<1>3. reg2 \subseteq reg /\ \A t \in new, e \in reg2 : t.id # e.id
  BY DEF DropCompleted
<1>4. \A t \in ts \cup new : t.id \in TurnIds
  BY DEF Turn
<1>5. \A e \in reg : e.id \in TurnIds /\ e.key \in Keys
  BY DEF Snapshot
<1>6. \A k \in Keys : bs[k].turnId # None => Minted(bs[k].turnId, n)
  BY DEF IdsOnce
<1>7. \A t \in ts : Minted(t.id, n) \/ Built(t)
  BY DEF IdsOnce
<1> HIDE DEF new, reg2
<1>8. \A t \in new : Minted(t.id, n) \/ Built(t)
  BY <1>1, <1>6
<1>9. \A t \in new : Minted(t.id, n) => t.id = bs[t.key].turnId /\ bs[t.key].turnId # None
                                         /\ bs2[t.key].turnId = None
  BY <1>1 DEF Minted, Built
<1>10. ASSUME NEW t \in ts \cup new, NEW k \in Keys PROVE t.id # bs2[k].turnId
  <2>1. CASE bs2[k].turnId = None
    BY <1>4, <2>1, ConfigAssumption
  <2>2. CASE bs2[k].turnId # None
    <3>1. bs2[k].turnId = bs[k].turnId /\ Minted(bs2[k].turnId, n)
      BY <1>2, <1>6, <2>2
    <3>2. CASE t \in ts
      BY <3>1, <3>2 DEF IdsOnce
    <3>3. CASE t \in new
      <4> SUFFICES ASSUME t.id = bs2[k].turnId PROVE FALSE
        OBVIOUS
      <4>1. t.id = bs[t.key].turnId /\ bs[t.key].turnId # None /\ bs2[t.key].turnId = None /\ t.key \in Keys
        BY <1>1, <1>9, <3>1, <3>3
      <4>2. t.key = k
        BY <3>1, <4>1 DEF IdsOnce
      <4> QED BY <2>2, <4>1, <4>2
    <3> QED BY <3>2, <3>3
  <2> QED BY <2>1, <2>2
<1>11. ASSUME NEW t1 \in ts \cup new, NEW t2 \in ts \cup new, t1.id = t2.id PROVE t1 = t2
  <2>1. CASE t1 \in ts /\ t2 \in ts
    BY <1>11, <2>1 DEF IdsOnce
  <2>2. \A t \in ts \cup new : t.calls \subseteq adm
    BY <1>1 DEF Placed
  <2>3. CASE Built(t1) /\ Built(t2)
    <3>1. PICK c \in t1.calls : c.id = t1.id.n
      BY <2>3 DEF Built
    <3>2. PICK d \in t2.calls : d.id = t2.id.n
      BY <2>3 DEF Built
    <3>3. c = d
      BY <1>11, <2>2, <3>1, <3>2 DEF Placed
    <3>4. t1.calls \cap t2.calls # {}
      BY <3>1, <3>2, <3>3
    <3> QED BY <1>0, <3>4 DEF Placed
  <2>4. CASE Minted(t1.id, n) /\ Minted(t2.id, n)
    <3>1. ASSUME NEW s \in ts, NEW t \in new, Minted(t.id, n) PROVE s.id # t.id
      BY <1>1, <1>9, <3>1 DEF IdsOnce
    <3>2. CASE t1 \in new /\ t2 \in new
      <4>1. /\ t1.id = bs[t1.key].turnId /\ bs[t1.key].turnId # None /\ t1.key \in Keys
            /\ t2.id = bs[t2.key].turnId /\ t2.key \in Keys
        BY <1>1, <1>9, <2>4, <3>2
      <4>2. t1.key = t2.key
        BY <1>11, <4>1 DEF IdsOnce
      <4>3. Shares(t1.key, bs[t1.key], bs2[t1.key], share[t1.key])
        BY <4>1
      <4>4. t1 \in share[t1.key] /\ t2 \in share[t1.key]
        BY <1>1, <3>2, <4>2
      <4> QED BY <1>11, <4>1, <4>2, <4>3, <4>4 DEF Shares
    <3> QED BY <1>11, <2>1, <2>4, <3>1, <3>2
  <2>5. CASE (Minted(t1.id, n) /\ Built(t2)) \/ (Built(t1) /\ Minted(t2.id, n))
    BY <1>11, <2>5 DEF Minted, Built
  <2>6. (Minted(t1.id, n) \/ Built(t1)) /\ (Minted(t2.id, n) \/ Built(t2))
    BY <1>7, <1>8
  <2> QED BY <2>3, <2>4, <2>5, <2>6
<1>12. \A j, k \in Keys : bs2[j].turnId # None /\ bs2[j].turnId = bs2[k].turnId => j = k
  BY <1>2 DEF IdsOnce
<1>13. \A k \in Keys : bs2[k].turnId # None => Minted(bs2[k].turnId, n)
  BY <1>2, <1>6
<1>14. \A e \in reg2 : Minted(e.id, n)
  BY <1>3 DEF IdsOnce
<1>15. \A t \in ts \cup new, e \in reg2 : t.id # e.id
  BY <1>3 DEF IdsOnce
<1>16. IdsOnce(bs2, reg2, ts \cup new, n)
  BY <1>7, <1>8, <1>10, <1>11, <1>12, <1>13, <1>14, <1>15 DEF IdsOnce
<1>17. ASSUME NEW e \in reg2, e.id = bs2[e.key].turnId PROVE e.calls \subseteq bs2[e.key].pending
  <2>1. e.key \in Keys /\ e.id # None /\ e \in reg
    BY <1>3, <1>5, ConfigAssumption
  <2>2. bs2[e.key].turnId = bs[e.key].turnId /\ bs2[e.key].pending = bs[e.key].pending
    BY <1>2, <1>17, <2>1
  <2> QED BY <1>17, <2>1, <2>2 DEF Shown
<1>18. Shown(bs2, reg2)
  BY <1>17 DEF Shown
<1> QED BY <1>16, <1>18 DEF new, reg2

\* A pass keeps the accounting.
LEMMA SharesKeep ==
    ASSUME NEW bs \in [Keys -> SessionBuffer], NEW bs2 \in [Keys -> SessionBuffer],
           NEW ts \in SUBSET Turn, NEW reg \in SUBSET Snapshot, NEW adm \in SUBSET BufferedCall,
           NEW n, NEW new, SharesAll(bs, bs2, new), AccountInv(bs, reg, ts, adm, n)
    PROVE  AccountInv(bs2, DropCompleted(reg, new), ts \cup new, adm, n)
<1>1. PICK share \in [Keys -> SUBSET Turn] :
          /\ new = UNION {share[k] : k \in Keys}
          /\ \A k \in Keys : Shares(k, bs[k], bs2[k], share[k])
  BY DEF SharesAll
<1>2. Placed(bs, ts, adm, n) /\ Lossless(bs, ts, adm) /\ IdsOnce(bs, reg, ts, n) /\ Shown(bs, reg)
  BY DEF AccountInv
<1>3. Placed(bs2, ts \cup new, adm, n) /\ Lossless(bs2, ts \cup new, adm)
  BY <1>1, <1>2, SharesPlace
<1>4. /\ IdsOnce(bs2, DropCompleted(reg, new), ts \cup new, n)
      /\ Shown(bs2, DropCompleted(reg, new))
  BY <1>1, <1>2, <1>3, SharesIds
<1>5. \A k \in Keys : Removable(bs2[k])
  BY <1>1 DEF AccountInv, Shares
<1> QED BY <1>3, <1>4, <1>5 DEF AccountInv

\* The passes of flush_ready_buffers, of sweep, of gc_buffers and of flush_all.
LEMMA FlushShares ==
    ASSUME NEW bs \in [Keys -> SessionBuffer], NEW now \in Nat, NEW ep \in [Keys -> Nat],
           \A k \in Keys : bs[k].turnId # None => bs[k].turnId.by = "ingest",
           FlushTurns(bs, now, ep) \subseteq Turn
    PROVE  SharesAll(bs, Flush(bs, now), FlushTurns(bs, now, ep))
<1> DEFINE bs2 == Flush(bs, now)
           share == [k \in Keys |-> IF Ready(bs[k], now)
                                    THEN FinalizedTurns(k, bs[k], now, ep[k]) ELSE {}]
<1>1. FlushTurns(bs, now, ep) = UNION {share[k] : k \in Keys}
  BY DEF FlushTurns
<1>2. share \in [Keys -> SUBSET Turn]
  BY <1>1
<1>3. ASSUME NEW k \in Keys PROVE Shares(k, bs[k], bs2[k], share[k])
  <2>1. CASE Ready(bs[k], now)
    <3>1. bs2[k] = FinalizeSession(bs[k], now) /\ share[k] = FinalizedTurns(k, bs[k], now, ep[k])
      BY <2>1 DEF Flush
    <3>2. bs[k] \in SessionBuffer /\ ep[k] \in Nat
      OBVIOUS
    <3> HIDE DEF share, bs2
    <3> QED BY <3>1, <3>2, FinalizeShares
  <2>2. CASE ~Ready(bs[k], now)
    <3>1. bs2[k] = bs[k] /\ share[k] = {}
      BY <2>2 DEF Flush
    <3> HIDE DEF share, bs2
    <3> QED BY <3>1, IdleShares
  <2> QED BY <2>1, <2>2
<1> HIDE DEF share, bs2
<1> QED BY <1>1, <1>2, <1>3 DEF SharesAll, bs2

LEMMA SweepShares ==
    ASSUME NEW bs \in [Keys -> SessionBuffer], NEW vnow \in [Sources -> 0..MaxTime],
           NEW ep \in [Keys -> Nat], SweepTurns(bs, vnow, ep) \subseteq Turn
    PROVE  SharesAll(bs, SweepIdle(bs, vnow), SweepTurns(bs, vnow, ep))
<1> DEFINE bs2 == SweepIdle(bs, vnow)
           idle(k) == IsIdle(bs[k], vnow[k[1]])
           share == [k \in Keys |-> IF idle(k) THEN DrainedTurns(k, bs[k], ep[k]) ELSE {}]
<1>1. SweepTurns(bs, vnow, ep) = UNION {share[k] : k \in Keys}
  BY DEF SweepTurns
<1>2. share \in [Keys -> SUBSET Turn]
  BY <1>1
<1>3. ASSUME NEW k \in Keys PROVE Shares(k, bs[k], bs2[k], share[k])
  <2>1. CASE idle(k)
    <3>1. bs2[k] = Drain(bs[k]) /\ share[k] = DrainedTurns(k, bs[k], ep[k])
      BY <2>1 DEF SweepIdle
    <3>2. bs[k] \in SessionBuffer /\ ep[k] \in Nat
      OBVIOUS
    <3> HIDE DEF share, bs2
    <3> QED BY <3>1, <3>2, DrainShares
  <2>2. CASE ~idle(k)
    <3>1. bs2[k] = bs[k] /\ share[k] = {}
      BY <2>2 DEF SweepIdle
    <3> HIDE DEF share, bs2
    <3> QED BY <3>1, IdleShares
  <2> QED BY <2>1, <2>2
<1> HIDE DEF share, bs2
<1> QED BY <1>1, <1>2, <1>3 DEF SharesAll, bs2

LEMMA GcShares ==
    ASSUME NEW bs \in [Keys -> SessionBuffer], NEW vnow \in [Sources -> 0..MaxTime]
    PROVE  SharesAll(bs, GcBuffers(bs, vnow), {})
<1> DEFINE bs2 == GcBuffers(bs, vnow)
           share == [k \in Keys |-> {}]
<1>1. {} = UNION {share[k] : k \in Keys} /\ share \in [Keys -> SUBSET Turn]
  OBVIOUS
<1>2. ASSUME NEW k \in Keys PROVE Shares(k, bs[k], bs2[k], share[k])
  <2>1. share[k] = {}
    OBVIOUS
  <2>2. bs2[k] = bs[k] \/ (bs[k].pending = {} /\ bs2[k] = EmptyBuffer)
    BY DEF GcBuffers, Collectable
  <2> HIDE DEF share, bs2
  <2> QED BY <2>1, <2>2, IdleShares
<1> HIDE DEF share, bs2
<1> QED BY <1>1, <1>2 DEF SharesAll, bs2

LEMMA ForceShares ==
    ASSUME NEW bs \in [Keys -> SessionBuffer], NEW now \in Nat, NEW ep \in [Keys -> Nat],
           \A k \in Keys : bs[k].turnId # None => bs[k].turnId.by = "ingest",
           NEW new \in SUBSET Turn, new = UNION {FinalizedTurns(k, bs[k], now, ep[k]) : k \in Keys}
    PROVE  SharesAll(bs, [k \in Keys |-> FinalizeSession(bs[k], now)], new)
<1> DEFINE bs2 == [k \in Keys |-> FinalizeSession(bs[k], now)]
           share == [k \in Keys |-> FinalizedTurns(k, bs[k], now, ep[k])]
<1>1. new = UNION {share[k] : k \in Keys}
  OBVIOUS
<1>2. share \in [Keys -> SUBSET Turn]
  BY <1>1
<1>3. ASSUME NEW k \in Keys PROVE Shares(k, bs[k], bs2[k], share[k])
  <2>1. bs2[k] = FinalizeSession(bs[k], now) /\ share[k] = FinalizedTurns(k, bs[k], now, ep[k])
    OBVIOUS
  <2>2. bs[k] \in SessionBuffer /\ ep[k] \in Nat
    OBVIOUS
  <2> HIDE DEF share, bs2
  <2> QED BY <2>1, <2>2, FinalizeShares
<1> HIDE DEF share, bs2
<1> QED BY <1>1, <1>2, <1>3 DEF SharesAll, bs2

LEMMA TailShares ==
    ASSUME NEW bs \in [Keys -> SessionBuffer], NEW ep \in [Keys -> Nat],
           NEW new \in SUBSET Turn, new = UNION {DrainedTurns(k, bs[k], ep[k]) : k \in Keys}
    PROVE  SharesAll(bs, [k \in Keys |-> Drain(bs[k])], new)
<1> DEFINE bs2 == [k \in Keys |-> Drain(bs[k])]
           share == [k \in Keys |-> DrainedTurns(k, bs[k], ep[k])]
<1>1. new = UNION {share[k] : k \in Keys}
  OBVIOUS
<1>2. share \in [Keys -> SUBSET Turn]
  BY <1>1
<1>3. ASSUME NEW k \in Keys PROVE Shares(k, bs[k], bs2[k], share[k])
  <2>1. bs2[k] = Drain(bs[k]) /\ share[k] = DrainedTurns(k, bs[k], ep[k])
    OBVIOUS
  <2>2. bs[k] \in SessionBuffer /\ ep[k] \in Nat
    OBVIOUS
  <2> HIDE DEF share, bs2
  <2> QED BY <2>1, <2>2, DrainShares
<1> HIDE DEF share, bs2
<1> QED BY <1>1, <1>2, <1>3 DEF SharesAll, bs2

\* Dropping the finished turns once is dropping them after each pass.
LEMMA DropTwice ==
    ASSUME NEW reg, NEW a, NEW b
    PROVE  /\ DropCompleted(DropCompleted(reg, a), b) = DropCompleted(reg, a \cup b)
           /\ DropCompleted(reg, {}) = reg
BY DEF DropCompleted

-----------------------------------------------------------------------------
(* The accounting over the steps of the task loop.                          *)

CallInv ==
    /\ IInv
    /\ AccountInv(buffers, registry, turns, admitted, ncalls)
    /\ eof => \A k \in Keys : buffers[k].pending = {}

\* The tail of every handler: flush, gc, and when it is due sweep and gc again.
LEMMA FlushThenSweepAccounts ==
    ASSUME TypeOK, NEW bs \in [Keys -> SessionBuffer], NEW reg \in SUBSET Snapshot,
           NEW vnow \in [Sources -> 0..MaxTime], OrderInv(bs, turns, epoch),
           NEW adm \in SUBSET BufferedCall, NEW n, AccountInv(bs, reg, turns, adm, n),
           FlushThenSweep(bs, reg, vnow)
    PROVE  AccountInv(buffers', registry', turns', adm, n)
<1> DEFINE flushed == Flush(bs, wall)
           bs1 == GcBuffers(flushed, vnow)
           ep1 == GcEpoch(flushed, vnow, epoch)
           out1 == FlushTurns(bs, wall, epoch)
           swept == SweepIdle(bs1, vnow)
           out2 == SweepTurns(bs1, vnow, ep1)
           reg1 == DropCompleted(reg, out1)
           reg2 == DropCompleted(reg1, out2)
<1>0. turns \in SUBSET Turn /\ epoch \in [Keys -> Nat] /\ wall \in Nat
  BY DEF TypeOK
<1>1. /\ flushed \in [Keys -> SessionBuffer] /\ out1 \in SUBSET Turn
      /\ OrderInv(flushed, turns \cup out1, epoch)
  BY <1>0, FlushKeeps
<1>2. turns \cup out1 \in SUBSET Turn
  BY <1>0, <1>1
<1>3. /\ bs1 \in [Keys -> SessionBuffer] /\ ep1 \in [Keys -> Nat]
      /\ OrderInv(bs1, turns \cup out1, ep1)
  <2> HIDE DEF flushed, out1
  <2> QED BY <1>0, <1>1, <1>2, GcKeeps
<1>4. swept \in [Keys -> SessionBuffer] /\ out2 \in SUBSET Turn
  <2> HIDE DEF bs1, ep1, out1
  <2> QED BY <1>2, <1>3, SweepKeeps
<1>5. reg1 \in SUBSET Snapshot /\ reg2 \in SUBSET Snapshot
  BY DEF DropCompleted
<1>6. AccountInv(flushed, reg1, turns \cup out1, adm, n)
  <2>1. \A k \in Keys : bs[k].turnId # None => bs[k].turnId.by = "ingest"
    BY DEF AccountInv, IdsOnce, Minted
  <2>2. SharesAll(bs, flushed, out1)
    BY <1>0, <1>1, <2>1, FlushShares
  <2> HIDE DEF flushed, out1
  <2> QED BY <1>0, <1>1, <2>2, SharesKeep
<1>7. AccountInv(bs1, reg1, turns \cup out1, adm, n)
  <2> HIDE DEF flushed, out1, reg1
  <2>1. SharesAll(flushed, bs1, {})
    BY <1>1, GcShares
  <2> HIDE DEF bs1
  <2>2. AccountInv(bs1, DropCompleted(reg1, {}), (turns \cup out1) \cup {}, adm, n)
    BY <1>1, <1>2, <1>3, <1>5, <1>6, <2>1, SharesKeep
  <2>3. (turns \cup out1) \cup {} = turns \cup out1 /\ DropCompleted(reg1, {}) = reg1
    BY DropTwice
  <2> QED BY <2>2, <2>3
<1>8. AccountInv(swept, reg2, turns \cup out1 \cup out2, adm, n)
  <2> HIDE DEF bs1, ep1, out1, reg1
  <2>1. SharesAll(bs1, swept, out2)
    BY <1>3, <1>4, SweepShares
  <2> HIDE DEF swept, out2
  <2> QED BY <1>2, <1>3, <1>4, <1>5, <1>7, <2>1, SharesKeep
<1>9. AccountInv(GcBuffers(swept, vnow), reg2, turns \cup out1 \cup out2, adm, n)
  <2> HIDE DEF bs1, ep1, out1, reg1
  <2>1. turns \cup out1 \cup out2 \in SUBSET Turn
    BY <1>2, <1>4
  <2> HIDE DEF swept, out2, reg2
  <2>2. SharesAll(swept, GcBuffers(swept, vnow), {})
    BY <1>4, GcShares
  <2>3. GcBuffers(swept, vnow) \in [Keys -> SessionBuffer]
    <3>1. EmptyBuffer \in SessionBuffer
      BY DEF EmptyBuffer, SessionBuffer
    <3> QED BY <1>4, <3>1 DEF GcBuffers
  <2>4. AccountInv(GcBuffers(swept, vnow), DropCompleted(reg2, {}),
                   (turns \cup out1 \cup out2) \cup {}, adm, n)
    BY <1>4, <1>5, <1>8, <2>1, <2>2, <2>3, SharesKeep
  <2>5. (turns \cup out1 \cup out2) \cup {} = turns \cup out1 \cup out2 /\ DropCompleted(reg2, {}) = reg2
    BY DropTwice
  <2> QED BY <2>4, <2>5
<1>10. CASE SweepDue(vnow)
  <2>1. /\ buffers' = GcBuffers(swept, vnow)
        /\ turns' = turns \cup out1 \cup out2
        /\ registry' = DropCompleted(reg, out1 \cup out2)
    BY <1>10 DEF FlushThenSweep
  <2> HIDE DEF swept, out1, out2
  <2>2. registry' = reg2
    BY <2>1, DropTwice
  <2> HIDE DEF reg2
  <2> QED BY <1>9, <2>1, <2>2
<1>11. CASE ~SweepDue(vnow)
  <2>1. buffers' = bs1 /\ turns' = turns \cup out1 \cup {} /\ registry' = DropCompleted(reg, out1 \cup {})
    BY <1>11 DEF FlushThenSweep
  <2> HIDE DEF bs1, out1
  <2>2. turns' = turns \cup out1 /\ registry' = reg1
    <3>1. out1 \cup {} = out1
      OBVIOUS
    <3> QED BY <2>1, <3>1
  <2> HIDE DEF reg1
  <2> QED BY <1>7, <2>1, <2>2
<1> QED BY <1>10, <1>11

\* A call that is pushed has a fresh id; its snapshot shows what is pending under the
\* buffer's id, which no finished turn has.
LEMMA PushAccounts ==
    ASSUME NEW bs \in [Keys -> SessionBuffer], NEW ts \in SUBSET Turn, NEW reg \in SUBSET Snapshot,
           NEW adm \in SUBSET BufferedCall, NEW n \in Nat, AccountInv(bs, reg, ts, adm, n),
           NEW k \in Keys, NEW c \in BufferedCall, c.key = k, c.id = n, NEW vn
    PROVE  LET b == Push(bs[k], c, vn)
           IN  AccountInv([bs EXCEPT ![k] = b], RefreshActiveSnapshot(reg, k, b), ts,
                          adm \cup {c}, n + 1)
<1> DEFINE b == Push(bs[k], c, vn)
           bs2 == [bs EXCEPT ![k] = b]
           reg2 == RefreshActiveSnapshot(reg, k, b)
           adm2 == adm \cup {c}
<1>1. Placed(bs, ts, adm, n) /\ Lossless(bs, ts, adm) /\ IdsOnce(bs, reg, ts, n) /\ Shown(bs, reg)
      /\ \A j \in Keys : Removable(bs[j])
  BY DEF AccountInv
<1>2. /\ b.pending = bs[k].pending \cup {c}
      /\ b.turnId = (IF bs[k].turnId = None THEN [by |-> "ingest", n |-> n] ELSE bs[k].turnId)
  BY DEF Push
<1>3. bs2[k] = b /\ \A j \in Keys : j # k => bs2[j] = bs[j]
  OBVIOUS
<1>4. \A d \in adm : d.id \in Nat /\ d.id < n /\ d # c
  BY <1>1, CallFields DEF Placed
<1>5. \A t \in ts : t.id \in TurnIds
  BY DEF Turn
<1>6. \A e \in reg : e.id \in TurnIds /\ e.key \in Keys
  BY DEF Snapshot
<1>7. \A j \in Keys : bs[j].turnId \in TurnIds \cup {None}
  BY DEF SessionBuffer
<1>8. reg2 \subseteq {e \in reg : e.id # b.turnId}
                       \cup {[id |-> b.turnId, key |-> k, calls |-> SnapshotPartition(b.pending)]}
      \/ reg2 = reg
  BY DEF RefreshActiveSnapshot
<1> HIDE DEF b, bs2, reg2
<1>9. Placed(bs2, ts, adm2, n + 1)
  <2>1. \A d \in adm2 : d.id < n + 1
    BY <1>4
  <2>2. \A d, e \in adm2 : d.id = e.id => d = e
    BY <1>1, <1>4 DEF Placed
  <2>3. \A j \in Keys : bs2[j].pending \subseteq adm2 /\ \A d \in bs2[j].pending : d.key = j
    BY <1>1, <1>2, <1>3 DEF Placed
  <2>4. \A t \in ts : t.calls \subseteq adm /\ c \notin t.calls
    BY <1>1, <1>4 DEF Placed
  <2>5. \A t \in ts, j \in Keys : t.calls \cap bs2[j].pending = {}
    BY <1>1, <1>2, <1>3, <2>4 DEF Placed
  <2> QED BY <1>1, <2>1, <2>2, <2>3, <2>4, <2>5 DEF Placed
<1>10. Lossless(bs2, ts, adm2)
  <2> SUFFICES ASSUME NEW d \in adm2, KeepsTurn(d)
               PROVE  \/ d \in bs2[d.key].pending
                      \/ \E t \in ts : t.key = d.key /\ d \in t.calls
    BY DEF Lossless
  <2>1. CASE d = c
    BY <1>2, <1>3, <2>1
  <2>2. CASE d \in adm
    <3>1. d.key \in Keys
      BY <2>2, CallFields
    <3> QED BY <1>1, <1>2, <1>3, <2>2, <3>1 DEF Lossless
  <2> QED BY <2>1, <2>2
<1>11. b.turnId \in TurnIds /\ b.turnId # None /\ Minted(b.turnId, n + 1)
  <2>1. CASE bs[k].turnId = None
    <3>1. b.turnId = [by |-> "ingest", n |-> n]
      BY <1>2, <2>1
    <3>2. b.turnId \in TurnIds
      BY <3>1 DEF TurnIds
    <3>3. Minted(b.turnId, n + 1)
      BY <3>1 DEF Minted
    <3> QED BY <3>2, <3>3, ConfigAssumption
  <2>2. CASE bs[k].turnId # None
    <3>1. b.turnId = bs[k].turnId /\ Minted(bs[k].turnId, n) /\ bs[k].turnId \in TurnIds
      BY <1>1, <1>2, <1>7, <2>2 DEF IdsOnce
    <3>2. bs[k].turnId.n \in Nat
      BY <3>1 DEF TurnIds
    <3> QED BY <2>2, <3>1, <3>2 DEF Minted
  <2> QED BY <2>1, <2>2
<1>12. \A id \in TurnIds : Minted(id, n) => Minted(id, n + 1) /\ id # [by |-> "ingest", n |-> n]
  BY DEF Minted, TurnIds
<1>13. b.turnId = bs[k].turnId \/ b.turnId = [by |-> "ingest", n |-> n]
  BY <1>2
<1>14. \A t \in ts : t.id # b.turnId
  <2>1. \A t \in ts : Built(t) => t.id # [by |-> "ingest", n |-> n]
    BY DEF Built
  <2>2. \A t \in ts : t.id # [by |-> "ingest", n |-> n]
    BY <1>1, <1>5, <1>12, <2>1 DEF IdsOnce
  <2> QED BY <1>1, <1>13, <2>2 DEF IdsOnce
<1>15. \A j \in Keys : j # k /\ bs[j].turnId # None => bs[j].turnId # b.turnId
  BY <1>1, <1>7, <1>12, <1>13 DEF IdsOnce
<1>16. \A e \in reg2 : e \in reg \/ e = [id |-> b.turnId, key |-> k, calls |-> SnapshotPartition(b.pending)]
  BY <1>8
<1>17. IdsOnce(bs2, reg2, ts, n + 1)
  <2>1. \A j \in Keys : bs2[j].turnId # None => Minted(bs2[j].turnId, n + 1)
    BY <1>1, <1>3, <1>7, <1>11, <1>12 DEF IdsOnce
  <2>2. \A i, j \in Keys : bs2[i].turnId # None /\ bs2[i].turnId = bs2[j].turnId => i = j
    BY <1>1, <1>3, <1>15 DEF IdsOnce
  <2>3. \A t \in ts : Minted(t.id, n + 1) \/ Built(t)
    BY <1>1, <1>5, <1>12 DEF IdsOnce
  <2>4. \A t \in ts, j \in Keys : t.id # bs2[j].turnId
    BY <1>1, <1>3, <1>14 DEF IdsOnce
  <2>5. \A e \in reg2 : Minted(e.id, n + 1)
    BY <1>1, <1>6, <1>11, <1>12, <1>16 DEF IdsOnce
  <2>6. \A t \in ts, e \in reg2 : t.id # e.id
    BY <1>1, <1>14, <1>16 DEF IdsOnce
  <2> QED BY <1>1, <2>1, <2>2, <2>3, <2>4, <2>5, <2>6 DEF IdsOnce
<1>18. Shown(bs2, reg2)
  <2> SUFFICES ASSUME NEW e \in reg2, e.id = bs2[e.key].turnId
               PROVE  e.calls \subseteq bs2[e.key].pending
    BY DEF Shown
  <2>1. CASE e \in reg
    <3>1. CASE e.key = k
      <4>1. e.id = b.turnId
        BY <1>3, <3>1
      <4>2. e.id = bs[k].turnId
        BY <1>1, <1>6, <1>12, <1>13, <2>1, <4>1 DEF IdsOnce
      <4> QED BY <1>1, <1>2, <1>3, <2>1, <3>1, <4>2 DEF Shown
    <3>2. CASE e.key # k
      BY <1>1, <1>3, <1>6, <2>1, <3>2 DEF Shown
    <3> QED BY <3>1, <3>2
  <2>2. CASE e = [id |-> b.turnId, key |-> k, calls |-> SnapshotPartition(b.pending)]
    <3>1. e.key = k /\ e.calls = SnapshotPartition(b.pending)
      BY <2>2
    <3> QED BY <1>3, <3>1 DEF SnapshotPartition
  <2> QED BY <1>16, <2>1, <2>2
<1>19. \A j \in Keys : Removable(bs2[j])
  <2>1. Removable(b)
    BY <1>2 DEF Removable
  <2> QED BY <1>1, <1>3, <2>1
<1>20. AccountInv(bs2, reg2, ts, adm2, n + 1)
  <2> HIDE DEF adm2
  <2> QED BY <1>9, <1>10, <1>17, <1>18, <1>19 DEF AccountInv
<1> QED BY <1>20 DEF b, bs2, reg2

\* A call that is not buffered only uses up an id.
LEMMA BypassAccounts ==
    ASSUME NEW bs, NEW ts \in SUBSET Turn, NEW reg \in SUBSET Snapshot,
           bs \in [Keys -> SessionBuffer],
           NEW adm \in SUBSET BufferedCall, NEW n \in Nat, AccountInv(bs, reg, ts, adm, n)
    PROVE  AccountInv(bs, reg, ts, adm, n + 1)
<1>1. \A c \in adm : c.id < n + 1
  BY CallFields DEF AccountInv, Placed
<1>2. \A id \in TurnIds : Minted(id, n) => Minted(id, n + 1)
  BY DEF Minted, TurnIds
<1>3. /\ \A t \in ts : t.id \in TurnIds
      /\ \A e \in reg : e.id \in TurnIds
      /\ \A k \in Keys : bs[k].turnId \in TurnIds \cup {None}
  BY DEF Turn, Snapshot, SessionBuffer
<1>4. Placed(bs, ts, adm, n + 1)
  BY <1>1 DEF AccountInv, Placed
<1>5. IdsOnce(bs, reg, ts, n + 1)
  BY <1>2, <1>3 DEF AccountInv, IdsOnce
<1> QED BY <1>4, <1>5 DEF AccountInv

LEMMA IngestAccounts ==
    ASSUME CallInv, NEW k \in Keys, NEW kind \in Kinds, NEW rt \in 0..MaxTime,
           NEW ts \in 0..MaxTime, Ingest(k, kind, rt, ts)
    PROVE  CallInv'
<1> DEFINE vnow == BumpEventTime(k[1], ts)
           c == [key |-> k, id |-> ncalls, rt |-> rt, at |-> wall, kind |-> kind]
           b == Push(buffers[k], c, vnow[k[1]])
           bypass == kind.aux \/ IsLate(buffers[k], rt)
           bs == IF bypass THEN buffers ELSE [buffers EXCEPT ![k] = b]
           reg == IF bypass THEN registry ELSE RefreshActiveSnapshot(registry, k, b)
           adm == IF bypass THEN admitted ELSE admitted \cup {c}
<1>0. TypeOK /\ OrderInv(buffers, turns, epoch) /\ AccountInv(buffers, registry, turns, admitted, ncalls)
  BY DEF CallInv, IInv
<1>1. k[1] \in Sources
  BY DEF Keys
<1>2. vnow \in [Sources -> 0..MaxTime] /\ vnow[k[1]] \in Nat
  BY <1>0, <1>1, BumpType, ConfigAssumption
<1>3. c \in BufferedCall /\ c.key = k /\ c.rt = rt /\ c.id = ncalls
  BY <1>0 DEF TypeOK, BufferedCall
<1>4. /\ turns \in SUBSET Turn /\ epoch \in [Keys -> Nat] /\ registry \in SUBSET Snapshot
      /\ buffers \in [Keys -> SessionBuffer] /\ admitted \in SUBSET BufferedCall /\ ncalls \in Nat
  BY <1>0 DEF TypeOK
<1>5. ~bypass => /\ b \in SessionBuffer /\ b.turnId \in TurnIds
                 /\ [buffers EXCEPT ![k] = b] \in [Keys -> SessionBuffer]
                 /\ OrderInv([buffers EXCEPT ![k] = b], turns, epoch)
  <2> HIDE DEF c, vnow
  <2> QED BY <1>0, <1>2, <1>3, <1>4, PushKeeps
<1>6. bs \in [Keys -> SessionBuffer] /\ OrderInv(bs, turns, epoch)
  <2> HIDE DEF b, bypass
  <2> QED BY <1>0, <1>4, <1>5
<1>7. reg \in SUBSET Snapshot
  <2>1. ASSUME ~bypass PROVE RefreshActiveSnapshot(registry, k, b) \in SUBSET Snapshot
    <3> HIDE DEF b, bypass
    <3>1. b.pending \in SUBSET BufferedCall /\ b.turnId \in TurnIds
      BY <1>5, <2>1 DEF SessionBuffer
    <3>2. SnapshotPartition(b.pending) \in SUBSET BufferedCall
      BY <3>1 DEF SnapshotPartition
    <3> QED BY <1>4, <3>1, <3>2 DEF RefreshActiveSnapshot, Snapshot
  <2> HIDE DEF b, bypass
  <2> QED BY <1>4, <2>1
<1>8. adm \in SUBSET BufferedCall
  <2> HIDE DEF c, bypass
  <2> QED BY <1>3, <1>4
<1>9. AccountInv(bs, reg, turns, adm, ncalls + 1)
  <2>1. AccountInv(buffers, registry, turns, admitted, ncalls + 1)
    BY <1>0, <1>4, BypassAccounts
  <2>2. AccountInv([buffers EXCEPT ![k] = b], RefreshActiveSnapshot(registry, k, b), turns,
                   admitted \cup {c}, ncalls + 1)
    <3> HIDE DEF c, vnow
    <3> QED BY <1>0, <1>3, <1>4, PushAccounts
  <2>3. CASE bypass
    <3>1. bs = buffers /\ reg = registry /\ adm = admitted
      BY <2>3
    <3> HIDE DEF bs, reg, adm
    <3> QED BY <2>1, <3>1
  <2>4. CASE ~bypass
    <3>1. /\ bs = [buffers EXCEPT ![k] = b] /\ reg = RefreshActiveSnapshot(registry, k, b)
          /\ adm = admitted \cup {c}
      BY <2>4
    <3> HIDE DEF bs, reg, adm, b, c
    <3> QED BY <2>2, <3>1
  <2> QED BY <2>3, <2>4
<1>10. FlushThenSweep(bs, reg, vnow) /\ admitted' = adm /\ ncalls' = ncalls + 1
  BY DEF Ingest
<1>11. ~eof /\ eof' = eof
  BY DEF Ingest
<1>12. AccountInv(buffers', registry', turns', admitted', ncalls')
  <2> HIDE DEF bs, reg, vnow, adm
  <2>1. AccountInv(buffers', registry', turns', adm, ncalls + 1)
    BY <1>0, <1>2, <1>6, <1>7, <1>8, <1>9, <1>10, FlushThenSweepAccounts
  <2> QED BY <1>10, <2>1
<1>13. IInv'
  BY IngestKeeps DEF CallInv
<1> QED BY <1>11, <1>12, <1>13 DEF CallInv

LEMMA AdvanceTimeAccounts ==
    ASSUME CallInv, NEW s \in Sources, NEW ts \in 0..MaxTime, AdvanceTime(s, ts)
    PROVE  CallInv'
<1> DEFINE vnow == BumpEventTime(s, ts)
<1>0. TypeOK /\ OrderInv(buffers, turns, epoch) /\ AccountInv(buffers, registry, turns, admitted, ncalls)
  BY DEF CallInv, IInv
<1>1. vnow \in [Sources -> 0..MaxTime]
  BY <1>0, BumpType
<1>2. /\ buffers \in [Keys -> SessionBuffer] /\ registry \in SUBSET Snapshot
      /\ admitted \in SUBSET BufferedCall
  BY <1>0 DEF TypeOK
<1>3. FlushThenSweep(buffers, registry, vnow)
  BY DEF AdvanceTime
<1>4. ~eof /\ UNCHANGED <<ncalls, eof, admitted>>
  BY DEF AdvanceTime
<1>5. AccountInv(buffers', registry', turns', admitted, ncalls)
  <2> HIDE DEF vnow
  <2> QED BY <1>0, <1>1, <1>2, <1>3, FlushThenSweepAccounts
<1>6. IInv'
  BY AdvanceTimeKeeps DEF CallInv
<1> QED BY <1>4, <1>5, <1>6 DEF CallInv

LEMMA FlushAllAccounts ==
    ASSUME CallInv, FlushAll
    PROVE  CallInv'
<1> DEFINE force == wall + Grace + 1
           forced == [k \in Keys |-> FinalizeSession(buffers[k], force)]
           drained == [k \in Keys |-> Drain(forced[k])]
           out1 == UNION {FinalizedTurns(k, buffers[k], force, epoch[k]) : k \in Keys}
           out2 == UNION {DrainedTurns(k, forced[k], epoch[k]) : k \in Keys}
           reg1 == DropCompleted(registry, out1)
<1>0. TypeOK /\ OrderInv(buffers, turns, epoch) /\ AccountInv(buffers, registry, turns, admitted, ncalls)
  BY DEF CallInv, IInv
<1>1. /\ turns \in SUBSET Turn /\ epoch \in [Keys -> Nat] /\ force \in Nat
      /\ buffers \in [Keys -> SessionBuffer] /\ registry \in SUBSET Snapshot
      /\ admitted \in SUBSET BufferedCall
  BY <1>0, ConfigAssumption DEF TypeOK
<1>2. forced \in [Keys -> SessionBuffer]
  <2> HIDE DEF force
  <2> QED BY <1>1, FinalizeType
<1>3. drained \in [Keys -> SessionBuffer] /\ \A k \in Keys : drained[k].pending = {}
  <2> HIDE DEF forced
  <2> QED BY <1>2, DrainType DEF Drain
<1>4. IInv'
  BY FlushAllKeeps DEF CallInv
<1>5. /\ buffers' = drained /\ eof' = TRUE
      /\ turns' = turns \cup out1 \cup out2
      /\ registry' = DropCompleted(registry, out1 \cup out2)
      /\ UNCHANGED <<ncalls, admitted>>
  <2>1. UNION {FinalizedTurns(k, buffers[k], force, epoch[k])
                  \cup DrainedTurns(k, forced[k], epoch[k]) : k \in Keys} = out1 \cup out2
    <3> HIDE DEF force, forced
    <3> QED OBVIOUS
  <2>2. /\ buffers' = drained /\ eof' = TRUE
        /\ turns' = turns \cup (UNION {FinalizedTurns(k, buffers[k], force, epoch[k])
                                   \cup DrainedTurns(k, forced[k], epoch[k]) : k \in Keys})
        /\ registry' = DropCompleted(registry,
                          UNION {FinalizedTurns(k, buffers[k], force, epoch[k])
                                   \cup DrainedTurns(k, forced[k], epoch[k]) : k \in Keys})
        /\ UNCHANGED <<ncalls, admitted>>
    BY DEF FlushAll
  <2> HIDE DEF drained, out1, out2, force, forced
  <2> QED BY <2>1, <2>2
<1>6. out1 \in SUBSET Turn /\ out2 \in SUBSET Turn
  <2>1. turns' \subseteq Turn
    BY <1>4 DEF IInv, TypeOK
  <2> HIDE DEF out1, out2
  <2> QED BY <1>5, <2>1
<1>7. AccountInv(forced, reg1, turns \cup out1, admitted, ncalls)
  <2>1. \A k \in Keys : buffers[k].turnId # None => buffers[k].turnId.by = "ingest"
    BY <1>0 DEF AccountInv, IdsOnce, Minted
  <2>2. SharesAll(buffers, forced, out1)
    <3>1. out1 = UNION {FinalizedTurns(k, buffers[k], force, epoch[k]) : k \in Keys}
      OBVIOUS
    <3> HIDE DEF force, out1
    <3> QED BY <1>1, <1>6, <2>1, <3>1, ForceShares
  <2> HIDE DEF forced, out1
  <2> QED BY <1>0, <1>1, <1>2, <1>6, <2>2, SharesKeep
<1>8. AccountInv(drained, DropCompleted(reg1, out2), turns \cup out1 \cup out2, admitted, ncalls)
  <2>1. SharesAll(forced, drained, out2)
    <3>1. out2 = UNION {DrainedTurns(k, forced[k], epoch[k]) : k \in Keys}
      OBVIOUS
    <3> HIDE DEF forced, out2
    <3> QED BY <1>1, <1>2, <1>6, <3>1, TailShares
  <2>2. reg1 \in SUBSET Snapshot
    BY <1>1 DEF DropCompleted
  <2>3. turns \cup out1 \in SUBSET Turn
    <3> HIDE DEF out1
    <3> QED BY <1>1, <1>6
  <2> HIDE DEF forced, drained, out1, out2, reg1
  <2> QED BY <1>1, <1>2, <1>3, <1>6, <1>7, <2>1, <2>2, <2>3, SharesKeep
<1>9. AccountInv(buffers', registry', turns', admitted', ncalls')
  <2> HIDE DEF forced, drained, out1, out2
  <2>1. DropCompleted(reg1, out2) = registry'
    BY <1>5, DropTwice
  <2> HIDE DEF reg1
  <2> QED BY <1>5, <1>8, <2>1
<1> HIDE DEF forced, drained, out1, out2, reg1
<1> QED BY <1>3, <1>4, <1>5, <1>9 DEF CallInv

LEMMA CallInitially == Init => CallInv
<1> SUFFICES ASSUME Init PROVE CallInv
  OBVIOUS
<1>1. IInv
  BY TrackerInitially
<1>2. \A k \in Keys : buffers[k] = EmptyBuffer /\ buffers[k].pending = {} /\ buffers[k].turnId = None
  BY DEF Init, EmptyBuffer
<1>3. turns = {} /\ registry = {} /\ admitted = {}
  BY DEF Init
<1>4. Placed(buffers, turns, admitted, ncalls) /\ Lossless(buffers, turns, admitted)
  BY <1>2, <1>3 DEF Placed, Lossless
<1>5. IdsOnce(buffers, registry, turns, ncalls) /\ Shown(buffers, registry)
  BY <1>2, <1>3 DEF IdsOnce, Shown
<1>6. \A k \in Keys : Removable(buffers[k])
  BY <1>2 DEF Removable
<1> QED BY <1>1, <1>2, <1>4, <1>5, <1>6 DEF CallInv, AccountInv

LEMMA CallStep == CallInv /\ [Next]_vars => CallInv'
<1> SUFFICES ASSUME CallInv, [Next]_vars PROVE CallInv'
  OBVIOUS
<1>1. CASE IngestSome
  <2>1. PICK k \in Keys, kind \in Kinds, rt \in 0..MaxTime, d \in Latencies :
           rt + d =< MaxTime /\ Ingest(k, kind, rt, rt + d)
    BY <1>1 DEF IngestSome
  <2>2. rt + d \in 0..MaxTime
    BY <2>1, ConfigAssumption
  <2> QED BY <2>1, <2>2, IngestAccounts
<1>2. CASE \E s \in Sources, ts \in 0..MaxTime : AdvanceTime(s, ts)
  BY <1>2, AdvanceTimeAccounts
<1>3. CASE FlushAll
  BY <1>3, FlushAllAccounts
<1>4. CASE UNCHANGED <<buffers, registry, turns, admitted, ncalls, eof>>
  <2>1. IInv'
    BY TrackerStep DEF CallInv
  <2> QED BY <1>4, <2>1 DEF CallInv
<1>5. Tick \/ UNCHANGED vars => UNCHANGED <<buffers, registry, turns, admitted, ncalls, eof>>
  BY DEF Tick, vars
<1> QED BY <1>1, <1>2, <1>3, <1>4, <1>5 DEF Next

\* The inductive invariant of the accounting holds in every reachable state.
THEOREM CallInvariant == Spec => []CallInv
BY CallInitially, CallStep, PTL DEF Spec

\* Every call is accounted for, in any arrival order and through every finalize, sweep,
\* gc and flush: it is in one buffer or one turn and none that keeps a turn is lost;
\* turn ids are unique, and a turn is never both persisted and in progress.
THEOREM CallsAreAccounted == Spec => []CallsAccounted
<1>1. CallInv => CallsAccounted
  <2> SUFFICES ASSUME CallInv PROVE CallsAccounted
    OBVIOUS
  <2>1. OneTurnPerCall
    BY DEF CallInv, AccountInv, Placed, OneTurnPerCall
  <2>2. UserStartNeverLost
    BY DEF CallInv, AccountInv, Lossless, UserStartNeverLost
  <2>3. NoStuckBuffer
    BY DEF CallInv, AccountInv, Removable, NoStuckBuffer
  <2>4. NoDoubleRow
    BY DEF CallInv, AccountInv, IdsOnce, NoDoubleRow
  <2>5. SnapshotIsPending
    BY DEF CallInv, AccountInv, Shown, SnapshotIsPending
  <2> QED BY <2>1, <2>2, <2>3, <2>4, <2>5 DEF CallsAccounted
<1> QED BY <1>1, CallInvariant, PTL

-----------------------------------------------------------------------------
(* The timers.                                                              *)

\* The grace clock of one buffer.
ClockRuns(b) ==
    /\ b.grace = None <=> Terminals(b.pending) = {}
    /\ \A c \in b.pending : IsFront(b.pending, c) => b.grace =< c.at

\* An idle session is left only while the throttle holds the sweep back.
Throttled(bs, vnow, last) ==
    \A k \in Keys : IsIdle(bs[k], vnow[k[1]]) => GlobalNow(vnow) - last < SweepInterval

TimerInv ==
    /\ CallInv
    /\ \A k \in Keys : ClockRuns(buffers[k])
    /\ \A c \in admitted : c.at =< wall
    /\ lastSweep =< GlobalNow(virtualNow)
    /\ Throttled(buffers, virtualNow, lastSweep)

\* finalize_session reseats the clock to the arrival of the next terminal.
LEMMA FinalizeClock ==
    ASSUME NEW b \in SessionBuffer, NEW now \in Nat,
           \A c, d \in b.pending : c.id = d.id => c = d
    PROVE  ClockRuns(FinalizeSession(b, now))
<1> DEFINE b2 == FinalizeSession(b, now)
           rest == Remaining(b.pending, Cuts(b.pending, now))
<1>1. b2.pending = rest /\ b2.grace = GraceOf(rest)
  BY DEF FinalizeSession
<1>2. b.pending \in SUBSET BufferedCall
  BY DEF SessionBuffer
<1>3. rest \subseteq b.pending /\ rest \in SUBSET BufferedCall
  BY <1>2 DEF Remaining
<1> HIDE DEF b2, rest
<1>4. CASE Terminals(rest) = {}
  <2>1. b2.grace = None
    BY <1>1, <1>4 DEF GraceOf
  <2>2. \A c \in rest : ~IsFront(rest, c)
    BY <1>4 DEF IsFront
  <2> QED BY <1>1, <1>4, <2>1, <2>2 DEF ClockRuns, b2
<1>5. CASE Terminals(rest) # {}
  <2> DEFINE f == CHOOSE c \in rest : IsFront(rest, c)
  <2>1. f \in rest /\ IsFront(rest, f)
    BY <1>3, <1>5, FrontExists
  <2>2. b2.grace = f.at
    BY <1>1, <1>5 DEF GraceOf
  <2> HIDE DEF f
  <2>3. f.at \in Nat /\ f.at # None
    BY <1>3, <2>1, CallFields, ConfigAssumption
  <2>4. ASSUME NEW c \in rest, IsFront(rest, c) PROVE c = f
    <3>1. ~Before(f, c) /\ ~Before(c, f)
      BY <2>1, <2>4 DEF IsFront
    <3>2. c.rt \in Nat /\ c.id \in Nat /\ f.rt \in Nat /\ f.id \in Nat
      BY <1>3, <2>1, CallFields
    <3>3. c.id = f.id
      BY <3>1, <3>2 DEF Before
    <3> QED BY <1>3, <2>1, <3>3
  <2> QED BY <1>1, <1>5, <2>2, <2>3, <2>4 DEF ClockRuns, b2
<1> QED BY <1>4, <1>5

\* A pushed terminal starts the clock when it is the only one, and never comes before
\* the one that started it.
LEMMA PushClock ==
    ASSUME NEW b \in SessionBuffer, NEW c \in BufferedCall, NEW vn, ClockRuns(b),
           \A d \in b.pending : d.at =< c.at
    PROVE  ClockRuns(Push(b, c, vn))
<1> DEFINE p == b.pending
           q == b.pending \cup {c}
           b2 == Push(b, c, vn)
<1>1. b2.pending = q /\ b2.grace = (IF IsTerminal(c) /\ b.grace = None THEN c.at ELSE b.grace)
  BY DEF Push
<1>2. p \in SUBSET BufferedCall /\ b.grace \in Nat \cup {None}
  BY DEF SessionBuffer
<1>3. c.at \in Nat /\ c.at # None
  BY CallFields, ConfigAssumption
<1>4. (b.grace = None <=> Terminals(p) = {}) /\ \A d \in p : IsFront(p, d) => b.grace =< d.at
  BY DEF ClockRuns
<1>5. \A d \in p : IsFront(q, d) => IsFront(p, d)
  BY DEF IsFront, Terminals
<1>6. \A d \in p : d.at =< c.at /\ d.at \in Nat
  BY <1>2, CallFields
<1>7. Terminals(q) = IF IsTerminal(c) THEN Terminals(p) \cup {c} ELSE Terminals(p)
  BY DEF Terminals
<1> HIDE DEF b2, p
<1>8. b2.grace = None <=> Terminals(b2.pending) = {}
  BY <1>1, <1>3, <1>4, <1>7
<1>9. ASSUME NEW d \in q, IsFront(q, d) PROVE b2.grace =< d.at
  <2>1. CASE IsTerminal(c) /\ b.grace = None
    <3>1. Terminals(q) = {c}
      BY <1>4, <1>7, <2>1
    <3>2. d = c
      BY <1>9, <3>1 DEF IsFront
    <3> QED BY <1>1, <1>3, <2>1, <3>2
  <2>2. CASE ~(IsTerminal(c) /\ b.grace = None) /\ d \in p
    <3>1. b2.grace = b.grace
      BY <1>1, <2>2
    <3> QED BY <1>4, <1>5, <1>9, <2>2, <3>1
  <2>3. CASE IsTerminal(c) /\ b.grace # None /\ d = c
    <3>1. PICK f \in p : IsFront(p, f)
      BY <1>2, <1>4, <2>3, FrontExists
    <3>2. b.grace =< f.at /\ f.at =< c.at /\ f.at \in Nat /\ b.grace \in Nat
      BY <1>2, <1>4, <1>6, <2>3, <3>1
    <3>3. b2.grace = b.grace
      BY <1>1, <2>3
    <3> QED BY <1>3, <2>3, <3>2, <3>3
  <2>4. d = c => IsTerminal(c)
    BY <1>9 DEF IsFront, Terminals
  <2>5. d \in p \/ d = c
    BY DEF p
  <2> QED BY <2>1, <2>2, <2>3, <2>4, <2>5
<1> QED BY <1>1, <1>8, <1>9 DEF ClockRuns, b2

\* A drained or forgotten buffer has no clock.
LEMMA DrainClock ==
    ASSUME NEW b, ClockRuns(b)
    PROVE  ClockRuns(Drain(b)) /\ ClockRuns(EmptyBuffer)
<1>1. ClockRuns(EmptyBuffer)
  BY DEF ClockRuns, EmptyBuffer, Terminals
<1>2. b.pending # {} => Drain(b).pending = {} /\ Drain(b).grace = None
  BY DEF Drain
<1>3. b.pending = {} => Drain(b) = b
  BY DEF Drain
<1> QED BY <1>1, <1>2, <1>3 DEF ClockRuns, Terminals

\* The fastest watermark is one, and no watermark of a source goes back.
LEMMA GlobalNowMax ==
    ASSUME NEW vnow \in [Sources -> 0..MaxTime]
    PROVE  /\ GlobalNow(vnow) \in Nat
           /\ \E s \in Sources : GlobalNow(vnow) = vnow[s]
           /\ \A s \in Sources : vnow[s] =< GlobalNow(vnow)
<1> DEFINE V == {vnow[s] : s \in Sources}
<1>1. V \subseteq 0..MaxTime /\ V # {}
  BY ConfigAssumption
<1>2. MaxOf(V) \in V /\ \A x \in V : x =< MaxOf(V)
  <2> HIDE DEF V
  <2> QED BY <1>1, MaxOfBounded, ConfigAssumption
<1>3. GlobalNow(vnow) = MaxOf(V)
  BY DEF GlobalNow
<1>4. MaxOf(V) \in Nat
  <2>1. MaxTime \in Nat
    BY ConfigAssumption
  <2>2. MaxOf(V) \in 0..MaxTime
    <3> HIDE DEF V
    <3> QED BY <1>1, <1>2
  <2> HIDE DEF V
  <2> QED BY <2>1, <2>2
<1> QED BY <1>2, <1>3, <1>4

LEMMA BumpGrows ==
    ASSUME TypeOK, NEW s \in Sources, NEW ts \in 0..MaxTime
    PROVE  GlobalNow(virtualNow) =< GlobalNow(BumpEventTime(s, ts))
<1> DEFINE vnow == BumpEventTime(s, ts)
<1>1. virtualNow \in [Sources -> 0..MaxTime] /\ vnow \in [Sources -> 0..MaxTime]
  BY BumpType DEF TypeOK
<1>2. \A r \in Sources : virtualNow[r] =< vnow[r]
  <2> TAKE r \in Sources
  <2>1. virtualNow[r] \in Int /\ ts \in Int /\ virtualNow[s] \in Int
    BY <1>1, ConfigAssumption
  <2>2. vnow[r] = IF r = s THEN (IF virtualNow[s] < ts THEN ts ELSE virtualNow[s]) ELSE virtualNow[r]
    BY <1>1 DEF BumpEventTime
  <2> HIDE DEF vnow
  <2> QED BY <2>1, <2>2
<1> HIDE DEF vnow
<1>3. PICK r \in Sources : GlobalNow(virtualNow) = virtualNow[r]
  BY <1>1, GlobalNowMax
<1>4. vnow[r] =< GlobalNow(vnow) /\ GlobalNow(vnow) \in Nat
  BY <1>1, GlobalNowMax
<1>5. virtualNow[r] \in Nat /\ vnow[r] \in Nat
  BY <1>1, ConfigAssumption
<1>6. virtualNow[r] =< vnow[r]
  BY <1>2
<1> QED BY <1>3, <1>4, <1>5, <1>6 DEF vnow

\* What finalize_session emits has waited for its grace: the first terminal at the
\* last request time of the turn has.
LEMMA FinalizeWaits ==
    ASSUME NEW k, NEW b \in SessionBuffer, NEW now \in Nat, NEW ep,
           NEW t \in FinalizedTurns(k, b, now, ep)
    PROVE  \E c \in t.calls : /\ IsTerminal(c)
                              /\ \A d \in t.calls : d.rt =< c.rt
                              /\ now - c.at >= Grace
<1> DEFINE cuts == Cuts(b.pending, now)
           part(r) == Partition(b.pending, cuts, r)
           over(r) == IF r = MinOf(cuts) THEN b.turnId ELSE None
<1>1. PICK r \in cuts : t \in EmitOrDiscard(k, over(r), part(r), ep)
  BY DEF FinalizedTurns
<1>2. t.calls = part(r)
  <2>1. t = BuildTurn(k, over(r), part(r), ep)
    BY <1>1 DEF EmitOrDiscard
  <2> QED BY <2>1 DEF BuildTurn
<1>3. b.pending \in SUBSET BufferedCall
  BY DEF SessionBuffer
<1>4. \A c \in b.pending : c.rt \in Nat
  BY <1>3, CallFields
<1>5. cuts \subseteq Nat
  BY <1>3, CutsType
<1>6. Expired(b.pending, r, now)
  <2>1. r \in TerminalTimes(b.pending)
        /\ \A q \in TerminalTimes(b.pending) : q =< r => Expired(b.pending, q, now)
    BY <1>1 DEF Cuts
  <2>2. r \in Nat
    BY <1>1, <1>5
  <2> QED BY <2>1, <2>2
<1>7. PICK c \in Terminals(b.pending) : c.rt = r /\ now - c.at >= Grace
  BY <1>6 DEF Expired
<1>8. c \in b.pending /\ IsTerminal(c)
  BY DEF Terminals
<1>9. c \in part(r) /\ \A d \in part(r) : d.rt =< c.rt
  BY <1>4, <1>5, <1>7, <1>8 DEF Partition
<1> HIDE DEF part
<1> QED BY <1>2, <1>7, <1>8, <1>9

\* A turn that sweep emits is never complete: an idle buffer holds no terminal.
LEMMA SweepIncomplete ==
    ASSUME NEW bs, NEW vnow, NEW ep, NEW t \in SweepTurns(bs, vnow, ep)
    PROVE  ~t.complete
<1>1. PICK k \in {j \in Keys : IsIdle(bs[j], vnow[j[1]])} : t \in DrainedTurns(k, bs[k], ep[k])
  BY DEF SweepTurns
<1>2. t = BuildTurn(k, bs[k].turnId, bs[k].pending, ep[k])
  BY <1>1 DEF DrainedTurns, EmitOrDiscard
<1>3. Terminals(bs[k].pending) = {}
  BY <1>1 DEF IsIdle
<1> QED BY <1>2, <1>3 DEF BuildTurn

\* The tail of every handler: clocks run on, no turn leaves before its grace, and a
\* sweep that is due leaves no idle session.
LEMMA FlushThenSweepTimers ==
    ASSUME TypeOK, NEW bs \in [Keys -> SessionBuffer], NEW reg, NEW vnow \in [Sources -> 0..MaxTime],
           \A k \in Keys : ClockRuns(bs[k]),
           \A k \in Keys : \A c, d \in bs[k].pending : c.id = d.id => c = d,
           FlushThenSweep(bs, reg, vnow)
    PROVE  /\ \A k \in Keys : ClockRuns(buffers'[k])
           /\ \A t \in turns' \ turns : t.complete =>
                \E c \in t.calls : /\ IsTerminal(c)
                                   /\ \A d \in t.calls : d.rt =< c.rt
                                   /\ wall - c.at >= Grace
           /\ SweepDue(vnow) => \A k \in Keys : ~IsIdle(buffers'[k], vnow[k[1]])
           /\ lastSweep' = IF SweepDue(vnow) THEN GlobalNow(vnow) ELSE lastSweep
<1> DEFINE flushed == Flush(bs, wall)
           bs1 == GcBuffers(flushed, vnow)
           ep1 == GcEpoch(flushed, vnow, epoch)
           out1 == FlushTurns(bs, wall, epoch)
           swept == SweepIdle(bs1, vnow)
           out2 == SweepTurns(bs1, vnow, ep1)
<1>0. wall \in Nat
  BY DEF TypeOK
<1>1. ASSUME NEW k \in Keys PROVE ClockRuns(flushed[k])
  <2>1. flushed[k] = IF Ready(bs[k], wall) THEN FinalizeSession(bs[k], wall) ELSE bs[k]
    BY DEF Flush
  <2>2. ClockRuns(FinalizeSession(bs[k], wall))
    BY <1>0, FinalizeClock
  <2> HIDE DEF flushed
  <2> QED BY <2>1, <2>2
<1>2. ASSUME NEW k \in Keys PROVE ClockRuns(bs1[k])
  <2>1. bs1[k] = IF Collectable(flushed[k], vnow[k[1]]) THEN EmptyBuffer ELSE flushed[k]
    BY DEF GcBuffers
  <2> HIDE DEF bs1, flushed
  <2> QED BY <1>1, <2>1, DrainClock
<1>3. ASSUME NEW k \in Keys
      PROVE  ClockRuns(swept[k]) /\ ~IsIdle(swept[k], vnow[k[1]])
  <2>1. swept[k] = IF IsIdle(bs1[k], vnow[k[1]]) THEN Drain(bs1[k]) ELSE bs1[k]
    BY DEF SweepIdle
  <2> HIDE DEF bs1, swept
  <2>2. ~IsIdle(Drain(bs1[k]), vnow[k[1]]) \/ ~IsIdle(bs1[k], vnow[k[1]])
    <3>1. Drain(bs1[k]).pending = {}
      BY DEF Drain
    <3> QED BY <3>1 DEF IsIdle
  <2> QED BY <1>2, <2>1, <2>2, DrainClock
<1>4. ASSUME NEW k \in Keys
      PROVE  ClockRuns(GcBuffers(swept, vnow)[k]) /\ ~IsIdle(GcBuffers(swept, vnow)[k], vnow[k[1]])
  <2> HIDE DEF swept
  <2>1. GcBuffers(swept, vnow)[k] = IF Collectable(swept[k], vnow[k[1]]) THEN EmptyBuffer ELSE swept[k]
    BY DEF GcBuffers
  <2>2. ~IsIdle(EmptyBuffer, vnow[k[1]])
    BY DEF IsIdle, EmptyBuffer
  <2> QED BY <1>3, <2>1, <2>2, DrainClock
<1>5. ASSUME NEW t \in out1
      PROVE  \E c \in t.calls : /\ IsTerminal(c)
                                /\ \A d \in t.calls : d.rt =< c.rt
                                /\ wall - c.at >= Grace
  <2>1. PICK k \in Keys : t \in FinalizedTurns(k, bs[k], wall, epoch[k])
    BY DEF FlushTurns
  <2>2. bs[k] \in SessionBuffer
    OBVIOUS
  <2> QED BY <1>0, <2>1, <2>2, FinalizeWaits
<1>6. \A t \in out2 : ~t.complete
  <2> HIDE DEF bs1, ep1
  <2> QED BY SweepIncomplete
<1>7. /\ buffers' = IF SweepDue(vnow) THEN GcBuffers(swept, vnow) ELSE bs1
      /\ turns' \subseteq turns \cup out1 \cup out2
      /\ lastSweep' = IF SweepDue(vnow) THEN GlobalNow(vnow) ELSE lastSweep
  BY DEF FlushThenSweep
<1> HIDE DEF flushed, bs1, ep1, out1, swept, out2
<1>8. \A t \in turns' \ turns : t \in out1 \/ t \in out2
  BY <1>7
<1>9. \A k \in Keys : ClockRuns(buffers'[k])
  BY <1>2, <1>4, <1>7
<1>10. SweepDue(vnow) => \A k \in Keys : ~IsIdle(buffers'[k], vnow[k[1]])
  BY <1>4, <1>7
<1> QED BY <1>5, <1>6, <1>7, <1>8, <1>9, <1>10

\* The same over a step that advances the event time: what the timers promise.
LEMMA HandlerTimers ==
    ASSUME TimerInv, NEW bs \in [Keys -> SessionBuffer], NEW reg, NEW s \in Sources,
           NEW ts \in 0..MaxTime,
           \A k \in Keys : ClockRuns(bs[k]),
           \A k \in Keys : \A c, d \in bs[k].pending : c.id = d.id => c = d,
           FlushThenSweep(bs, reg, BumpEventTime(s, ts)), virtualNow' = BumpEventTime(s, ts)
    PROVE  /\ \A k \in Keys : ClockRuns(buffers'[k])
           /\ lastSweep' =< GlobalNow(virtualNow')
           /\ Throttled(buffers', virtualNow', lastSweep')
           /\ NeverBeforeGrace /\ IdleSweptOnProgress
<1> DEFINE vnow == BumpEventTime(s, ts)
<1>0. TypeOK /\ virtualNow \in [Sources -> 0..MaxTime] /\ lastSweep \in Nat /\ SweepInterval \in Nat
  BY ConfigAssumption DEF TimerInv, CallInv, IInv, TypeOK
<1>1. vnow \in [Sources -> 0..MaxTime] /\ GlobalNow(virtualNow) =< GlobalNow(vnow)
  BY <1>0, BumpType, BumpGrows
<1> HIDE DEF vnow
<1>2. GlobalNow(vnow) \in Nat /\ GlobalNow(virtualNow) \in Nat
  BY <1>0, <1>1, GlobalNowMax
<1>3. lastSweep =< GlobalNow(virtualNow)
  BY DEF TimerInv
<1>4. FlushThenSweep(bs, reg, vnow) /\ virtualNow' = vnow
  BY DEF vnow
<1>5. /\ \A k \in Keys : ClockRuns(buffers'[k])
      /\ \A t \in turns' \ turns : t.complete =>
                \E c \in t.calls : /\ IsTerminal(c)
                                   /\ \A d \in t.calls : d.rt =< c.rt
                                   /\ wall - c.at >= Grace
      /\ SweepDue(vnow) => \A k \in Keys : ~IsIdle(buffers'[k], vnow[k[1]])
      /\ lastSweep' = IF SweepDue(vnow) THEN GlobalNow(vnow) ELSE lastSweep
  BY <1>0, <1>1, <1>4, FlushThenSweepTimers
<1>6. lastSweep' =< GlobalNow(virtualNow')
  BY <1>0, <1>1, <1>2, <1>3, <1>4, <1>5
<1>7. Throttled(buffers', virtualNow', lastSweep')
  <2>1. CASE SweepDue(vnow)
    BY <1>4, <1>5, <2>1 DEF Throttled
  <2>2. CASE ~SweepDue(vnow)
    <3>1. GlobalNow(vnow) - lastSweep < SweepInterval /\ lastSweep' = lastSweep
      BY <1>0, <1>2, <1>5, <2>2 DEF SweepDue
    <3> QED BY <1>4, <3>1 DEF Throttled
  <2> QED BY <2>1, <2>2
<1>8. NeverBeforeGrace
  BY <1>5 DEF NeverBeforeGrace
<1>9. IdleSweptOnProgress
  <2> SUFFICES ASSUME GlobalNow(virtualNow') - GlobalNow(virtualNow) >= SweepInterval
               PROVE  \A k \in Keys : ~IsIdle(buffers'[k], virtualNow'[k[1]])
    BY DEF IdleSweptOnProgress
  <2>1. GlobalNow(vnow) - GlobalNow(virtualNow) >= SweepInterval
    BY <1>4
  <2>2. SweepDue(vnow)
    BY <1>0, <1>2, <1>3, <2>1 DEF SweepDue
  <2> QED BY <1>4, <1>5, <2>2
<1> QED BY <1>5, <1>6, <1>7, <1>8, <1>9

LEMMA IngestTimers ==
    ASSUME TimerInv, NEW k \in Keys, NEW kind \in Kinds, NEW rt \in 0..MaxTime,
           NEW ts \in 0..MaxTime, Ingest(k, kind, rt, ts)
    PROVE  TimerInv' /\ NeverBeforeGrace /\ IdleSweptOnProgress
<1> DEFINE vnow == BumpEventTime(k[1], ts)
           c == [key |-> k, id |-> ncalls, rt |-> rt, at |-> wall, kind |-> kind]
           b == Push(buffers[k], c, vnow[k[1]])
           bypass == kind.aux \/ IsLate(buffers[k], rt)
           bs == IF bypass THEN buffers ELSE [buffers EXCEPT ![k] = b]
           reg == IF bypass THEN registry ELSE RefreshActiveSnapshot(registry, k, b)
<1>0. CallInv /\ TypeOK /\ OrderInv(buffers, turns, epoch)
      /\ AccountInv(buffers, registry, turns, admitted, ncalls)
  BY DEF TimerInv, CallInv, IInv
<1>1. k[1] \in Sources
  BY DEF Keys
<1>2. vnow \in [Sources -> 0..MaxTime] /\ vnow[k[1]] \in Nat
  BY <1>0, <1>1, BumpType, ConfigAssumption
<1>3. c \in BufferedCall /\ c.key = k /\ c.rt = rt /\ c.id = ncalls /\ c.at = wall
  BY <1>0 DEF TypeOK, BufferedCall
<1>4. /\ turns \in SUBSET Turn /\ epoch \in [Keys -> Nat] /\ ncalls \in Nat /\ wall \in Nat
      /\ buffers \in [Keys -> SessionBuffer] /\ admitted \in SUBSET BufferedCall
  BY <1>0 DEF TypeOK
<1>5. \A j \in Keys : \A d \in buffers[j].pending : d \in admitted /\ d.id \in Nat /\ d.id < ncalls /\ d.at =< wall
  <2>1. \A j \in Keys : \A d \in buffers[j].pending : d \in admitted
    BY <1>0 DEF AccountInv, Placed
  <2>2. \A d \in admitted : d.id \in Nat /\ d.id < ncalls /\ d.at =< wall
    BY <1>0, <1>4, CallFields DEF AccountInv, Placed, TimerInv
  <2> QED BY <2>1, <2>2
<1>6. \A j \in Keys : \A d, e \in buffers[j].pending : d.id = e.id => d = e
  BY <1>0, <1>5 DEF AccountInv, Placed
<1>7. \A j \in Keys : ClockRuns(buffers[j])
  BY DEF TimerInv
<1>8. ~bypass => [buffers EXCEPT ![k] = b] \in [Keys -> SessionBuffer]
  <2> HIDE DEF c, vnow
  <2> QED BY <1>0, <1>2, <1>3, <1>4, PushKeeps
<1>9. ClockRuns(b)
  <2>1. buffers[k] \in SessionBuffer /\ \A d \in buffers[k].pending : d.at =< c.at
    BY <1>3, <1>4, <1>5
  <2> HIDE DEF c, vnow
  <2> QED BY <1>3, <1>7, <2>1, PushClock
<1>10. b.pending = buffers[k].pending \cup {c}
  BY DEF Push
<1>11. \A d, e \in b.pending : d.id = e.id => d = e
  <2> HIDE DEF b, c
  <2> QED BY <1>3, <1>4, <1>5, <1>6, <1>10
<1> HIDE DEF b, c, vnow, bypass
<1>12. bs \in [Keys -> SessionBuffer] /\ \A j \in Keys : ClockRuns(bs[j])
  BY <1>4, <1>7, <1>8, <1>9
<1>13. \A j \in Keys : \A d, e \in bs[j].pending : d.id = e.id => d = e
  BY <1>4, <1>6, <1>11
<1>14. /\ FlushThenSweep(bs, reg, vnow) /\ virtualNow' = vnow /\ wall' = wall
       /\ admitted' \subseteq admitted \cup {c}
  BY DEF Ingest, b, c, vnow, bypass
<1>15. /\ \A j \in Keys : ClockRuns(buffers'[j])
       /\ lastSweep' =< GlobalNow(virtualNow')
       /\ Throttled(buffers', virtualNow', lastSweep')
       /\ NeverBeforeGrace /\ IdleSweptOnProgress
  <2> HIDE DEF bs, reg
  <2> QED BY <1>1, <1>12, <1>13, <1>14, HandlerTimers DEF vnow
<1>16. \A d \in admitted' : d.at =< wall'
  BY <1>3, <1>4, <1>14 DEF TimerInv
<1>17. CallInv'
  BY <1>0, IngestAccounts
<1> QED BY <1>15, <1>16, <1>17 DEF TimerInv

LEMMA AdvanceTimeTimers ==
    ASSUME TimerInv, NEW s \in Sources, NEW ts \in 0..MaxTime, AdvanceTime(s, ts)
    PROVE  TimerInv' /\ NeverBeforeGrace /\ IdleSweptOnProgress
<1>0. CallInv /\ AccountInv(buffers, registry, turns, admitted, ncalls)
      /\ buffers \in [Keys -> SessionBuffer]
  BY DEF TimerInv, CallInv, IInv, TypeOK
<1>1. \A j \in Keys : \A d, e \in buffers[j].pending : d.id = e.id => d = e
  BY <1>0 DEF AccountInv, Placed
<1>2. \A j \in Keys : ClockRuns(buffers[j])
  BY DEF TimerInv
<1>3. /\ FlushThenSweep(buffers, registry, BumpEventTime(s, ts)) /\ virtualNow' = BumpEventTime(s, ts)
      /\ UNCHANGED <<wall, admitted>>
  BY DEF AdvanceTime
<1>4. /\ \A j \in Keys : ClockRuns(buffers'[j])
      /\ lastSweep' =< GlobalNow(virtualNow')
      /\ Throttled(buffers', virtualNow', lastSweep')
      /\ NeverBeforeGrace /\ IdleSweptOnProgress
  BY <1>0, <1>1, <1>2, <1>3, HandlerTimers
<1>5. CallInv'
  BY <1>0, AdvanceTimeAccounts
<1> QED BY <1>3, <1>4, <1>5 DEF TimerInv

LEMMA FlushAllTimers ==
    ASSUME TimerInv, FlushAll
    PROVE  TimerInv' /\ NeverBeforeGrace /\ IdleSweptOnProgress
<1> DEFINE force == wall + Grace + 1
           forced == [k \in Keys |-> FinalizeSession(buffers[k], force)]
<1>0. CallInv /\ AccountInv(buffers, registry, turns, admitted, ncalls)
      /\ buffers \in [Keys -> SessionBuffer] /\ force \in Nat
  BY ConfigAssumption DEF TimerInv, CallInv, IInv, TypeOK
<1>1. \A j \in Keys : \A d, e \in buffers[j].pending : d.id = e.id => d = e
  BY <1>0 DEF AccountInv, Placed
<1>2. /\ buffers' = [k \in Keys |-> Drain(forced[k])] /\ eof'
      /\ UNCHANGED <<virtualNow, lastSweep, wall, admitted>>
  BY DEF FlushAll
<1>3. ASSUME NEW k \in Keys PROVE ClockRuns(buffers'[k]) /\ ~IsIdle(buffers'[k], virtualNow'[k[1]])
  <2>1. forced[k] = FinalizeSession(buffers[k], force)
    OBVIOUS
  <2> HIDE DEF forced, force
  <2>2. buffers[k] \in SessionBuffer
    BY <1>0
  <2>3. ClockRuns(forced[k])
    BY <1>0, <1>1, <2>1, <2>2, FinalizeClock
  <2>4. buffers'[k] = Drain(forced[k])
    BY <1>2
  <2>5. Drain(forced[k]).pending = {}
    BY DEF Drain
  <2> QED BY <2>3, <2>4, <2>5, DrainClock DEF IsIdle
<1>4. Throttled(buffers', virtualNow', lastSweep') /\ IdleSweptOnProgress
  BY <1>3 DEF Throttled, IdleSweptOnProgress
<1>5. NeverBeforeGrace
  BY <1>2 DEF NeverBeforeGrace
<1>6. CallInv'
  BY <1>0, FlushAllAccounts
<1> QED BY <1>2, <1>3, <1>4, <1>5, <1>6 DEF TimerInv

LEMMA TickTimers ==
    ASSUME TimerInv, Tick
    PROVE  TimerInv' /\ NeverBeforeGrace /\ IdleSweptOnProgress
<1>1. /\ UNCHANGED <<buffers, virtualNow, lastSweep, registry, ncalls, eof, turns, admitted, epoch>>
      /\ wall' = wall + 1
  BY DEF Tick
<1>2. /\ wall \in Nat /\ lastSweep \in Nat /\ virtualNow \in [Sources -> 0..MaxTime]
      /\ SweepInterval \in Nat /\ admitted \subseteq BufferedCall
  BY ConfigAssumption DEF TimerInv, CallInv, IInv, TypeOK
<1>3. GlobalNow(virtualNow) \in Nat /\ lastSweep =< GlobalNow(virtualNow)
  BY <1>2, GlobalNowMax DEF TimerInv
<1>4. CallInv'
  <2>1. IInv'
    BY <1>1, TrackerStep DEF TimerInv, CallInv, Next
  <2> QED BY <1>1, <2>1 DEF TimerInv, CallInv
<1>5. \A c \in admitted' : c.at =< wall'
  <2>1. \A c \in admitted : c.at \in Nat /\ c.at =< wall
    BY <1>2, CallFields DEF TimerInv
  <2> QED BY <1>1, <1>2, <2>1
<1>6. NeverBeforeGrace
  BY <1>1 DEF NeverBeforeGrace
<1>7. IdleSweptOnProgress
  <2> SUFFICES ASSUME GlobalNow(virtualNow') - GlobalNow(virtualNow) >= SweepInterval,
                      NEW k \in Keys
               PROVE  ~IsIdle(buffers'[k], virtualNow'[k[1]])
    BY DEF IdleSweptOnProgress
  <2>1. 0 >= SweepInterval
    BY <1>1, <1>2, <1>3
  <2>2. IsIdle(buffers[k], virtualNow[k[1]]) => GlobalNow(virtualNow) - lastSweep < SweepInterval
    BY DEF TimerInv, Throttled
  <2> QED BY <1>1, <1>2, <1>3, <2>1, <2>2
<1>8. /\ \A k \in Keys : ClockRuns(buffers'[k])
      /\ lastSweep' =< GlobalNow(virtualNow')
      /\ Throttled(buffers', virtualNow', lastSweep')
  BY <1>1 DEF TimerInv
<1> QED BY <1>4, <1>5, <1>6, <1>7, <1>8 DEF TimerInv

\* The timers of the tracker, for any grace, idle timeout and sweep interval: no turn
\* is cut before its grace is over in wall-clock time, none whose grace is over is
\* skipped, and no session of any source stays idle past a sweep interval of progress.
THEOREM TimersAreSound == Spec => TimersSound
<1>1. Init => TimerInv
  <2> SUFFICES ASSUME Init PROVE TimerInv
    OBVIOUS
  <2>1. CallInv
    BY CallInitially
  <2>2. buffers = [k \in Keys |-> EmptyBuffer] /\ admitted = {} /\ lastSweep = 0
    BY DEF Init
  <2>3. \A k \in Keys : ClockRuns(buffers[k]) /\ ~IsIdle(buffers[k], virtualNow[k[1]])
    BY <2>2 DEF ClockRuns, EmptyBuffer, Terminals, IsIdle
  <2>4. virtualNow \in [Sources -> 0..MaxTime]
    BY <2>1 DEF CallInv, IInv, TypeOK
  <2>5. lastSweep =< GlobalNow(virtualNow)
    BY <2>2, <2>4, GlobalNowMax
  <2> QED BY <2>1, <2>2, <2>3, <2>5 DEF TimerInv, Throttled
<1>2. TimerInv /\ [Next]_vars =>
          TimerInv' /\ [GraceClockSound /\ NeverBeforeGrace /\ IdleSweptOnProgress]_vars
  <2> SUFFICES ASSUME TimerInv, [Next]_vars
               PROVE  TimerInv' /\ [GraceClockSound /\ NeverBeforeGrace /\ IdleSweptOnProgress]_vars
    OBVIOUS
  <2>1. GraceClockSound
    BY DEF TimerInv, ClockRuns, GraceClockSound
  <2>2. CASE IngestSome
    <3>1. PICK k \in Keys, kind \in Kinds, rt \in 0..MaxTime, d \in Latencies :
             rt + d =< MaxTime /\ Ingest(k, kind, rt, rt + d)
      BY <2>2 DEF IngestSome
    <3>2. rt + d \in 0..MaxTime
      BY <3>1, ConfigAssumption
    <3> QED BY <2>1, <3>1, <3>2, IngestTimers
  <2>3. CASE \E s \in Sources, ts \in 0..MaxTime : AdvanceTime(s, ts)
    BY <2>1, <2>3, AdvanceTimeTimers
  <2>4. CASE FlushAll
    BY <2>1, <2>4, FlushAllTimers
  <2>5. CASE Tick
    BY <2>1, <2>5, TickTimers
  <2>6. CASE UNCHANGED vars
    <3>1. CallInv'
      BY CallStep DEF TimerInv
    <3>2. UNCHANGED <<buffers, admitted, wall, lastSweep, virtualNow>>
      BY <2>6 DEF vars
    <3> QED BY <2>6, <3>1, <3>2 DEF TimerInv
  <2> QED BY <2>2, <2>3, <2>4, <2>5, <2>6 DEF Next
<1> QED BY <1>1, <1>2, PTL DEF Spec, TimersSound

=============================================================================
