--------------------------- MODULE TurnStoreProofs ---------------------------
(***************************************************************************)
(* Proofs about TurnStore and its grouping, for every set of turns, with   *)
(* any times, views and fingerprints, and every tolerance and bound.       *)
(***************************************************************************)
EXTENDS TurnStore, TLAPS, FiniteSetTheorems

-----------------------------------------------------------------------------
(* group_all: what the groups of one snapshot look like.                    *)

\* The truncated times are integers.
LEMMA TimesAreInts == ASSUME NEW t \in Turns PROVE StartUs(t) \in Int /\ EndUs(t) \in Int
<1>1. StartTime[t] \in Nat /\ EndTime[t] \in Nat /\ Milli \in Nat \ {0}
  BY PairAssumption
<1>2. StartTime[t] \div Milli \in Int /\ EndTime[t] \div Milli \in Int
  BY <1>1
<1> QED  BY <1>1, <1>2 DEF StartUs, EndUs

\* pick_canonical compares by a strict total order.
LEMMA BeforeIsOrder ==
  /\ \A a \in Turns : ~RanksFirst(a, a)
  /\ \A a, b \in Turns : a # b => RanksFirst(a, b) \/ RanksFirst(b, a)
  /\ \A a, b, c \in Turns : RanksFirst(a, b) /\ RanksFirst(b, c) => RanksFirst(a, c)
<1>1. \A a \in Turns : a \in Nat /\ StartUs(a) \in Int /\ EndUs(a) \in Int
  BY TimesAreInts, PairAssumption
<1> QED  BY <1>1 DEF RanksFirst

\* A cluster has a first member, so min_by finds one ("non-empty cluster").
LEMMA CanonicalExists ==
  ASSUME NEW cluster \in SUBSET Turns, cluster # {}
  PROVE  PickCanonical(cluster) \in cluster
<1> DEFINE Ahead(t) == {u \in cluster : RanksFirst(u, t)}
           all == {Ahead(t) : t \in cluster}
<1>1. IsFiniteSet(cluster)
  BY PairAssumption, FS_Subset
<1>2. IsWellFoundedOn(StrictSubsetOrdering(cluster), SUBSET cluster)
  BY <1>1, FS_StrictSubsetOrderingWellFounded, FS_FiniteSubsetsOfFinite
<1>3. all \subseteq SUBSET cluster /\ all # {}
  OBVIOUS
<1>4. PICK m \in cluster : \A t \in cluster : ~(<<Ahead(t), Ahead(m)>> \in StrictSubsetOrdering(cluster))
  <2>1. \E x \in all : \A y \in all : ~(<<y, x>> \in StrictSubsetOrdering(cluster))
    <3> HIDE DEF all
    <3> QED  BY <1>2, <1>3, WFMin
  <2> QED  BY <2>1
<1>5. ASSUME NEW u \in cluster, RanksFirst(u, m) PROVE FALSE
  <2>1. Ahead(u) \subseteq Ahead(m) /\ u \in Ahead(m) /\ u \notin Ahead(u)
    BY <1>5, BeforeIsOrder
  <2>2. <<Ahead(u), Ahead(m)>> \in StrictSubsetOrdering(cluster)
    BY <2>1 DEF StrictSubsetOrdering
  <2> QED  BY <1>4, <2>2
<1>6. \A t \in cluster \ {m} : RanksFirst(m, t)
  BY <1>5, BeforeIsOrder
<1> QED  BY <1>6 DEF PickCanonical

\* Within a bucket, being linked in both directions is an equivalence.
Linked(bucket, a, b) == Chained(bucket, a, b) /\ Chained(bucket, b, a)

LEMMA LinkedIsEquivalence ==
  ASSUME NEW bucket \in SUBSET Turns
  PROVE  /\ \A a \in Turns : Linked(bucket, a, a)
         /\ \A a, b \in Turns : Linked(bucket, a, b) => Linked(bucket, b, a)
         /\ \A a, b, c \in Turns : Linked(bucket, a, b) /\ Linked(bucket, b, c)
                                      => Linked(bucket, a, c)
<1>1. \A a \in Turns : StartUs(a) \in Int
  BY TimesAreInts
<1>2. ASSUME NEW a \in Turns PROVE Chained(bucket, a, a)
  BY <1>1 DEF Chained
<1>3. ASSUME NEW a \in Turns, NEW b \in Turns, NEW c \in Turns,
             Chained(bucket, a, b), Chained(bucket, b, c)
      PROVE  Chained(bucket, a, c)
  BY <1>1, <1>3 DEF Chained
<1> QED  BY <1>2, <1>3 DEF Linked

\* Clusters partition the candidates: no turn is in two of them.
LEMMA ClustersAreDisjoint ==
  ASSUME NEW cands \in SUBSET Turns
  PROVE  /\ \A cl \in Clusters(cands) : cl \in SUBSET cands /\ cl # {}
         /\ \A c1, c2 \in Clusters(cands) : c1 \cap c2 # {} => c1 = c2
<1> DEFINE Bucket(a) == {x \in cands : Fingerprint[x] = Fingerprint[a]}
           Cl(a) == {b \in cands : Fingerprint[b] = Fingerprint[a] /\ Linked(Bucket(a), a, b)}
<1>1. Clusters(cands) = {Cl(a) : a \in cands}
  BY DEF Clusters, Linked
<1>2. ASSUME NEW a \in cands PROVE a \in Cl(a) /\ Cl(a) \in SUBSET cands
  BY LinkedIsEquivalence
<1>3. ASSUME NEW a \in cands, NEW b \in cands, NEW x \in Cl(a), x \in Cl(b)
      PROVE  Cl(a) = Cl(b)
  <2>1. Bucket(a) = Bucket(b) /\ Fingerprint[a] = Fingerprint[b] /\ x \in cands
    BY <1>3
  <2>2. Linked(Bucket(a), a, x) /\ Linked(Bucket(a), b, x)
    BY <1>3, <2>1
  <2>3. \A y \in cands : Linked(Bucket(a), a, y) <=> Linked(Bucket(a), b, y)
    BY <2>1, <2>2, LinkedIsEquivalence
  <2> QED  BY <2>1, <2>3
<1> HIDE DEF Cl
<1> QED  BY <1>1, <1>2, <1>3

\* A group as group_all builds it: the canonical member is visible.
WellFormed(g) ==
    /\ g \in Group /\ g.canon \in g.members /\ g.members \subseteq Turns
    /\ g.role \in [g.members -> Roles] /\ g.role[g.canon] \notin Hidden

LEMMA GroupOfIsWellFormed ==
  ASSUME NEW cluster \in SUBSET Turns, NEW c \in cluster
  PROVE  /\ WellFormed(GroupOf(cluster, c))
         /\ GroupOf(cluster, c).members \subseteq cluster
<1> DEFINE folded == Folded(cluster, c)
           members == folded \cup {c}
           role == [t \in members |->
                      IF t # c THEN RoleUnder(c, t)
                      ELSE IF \E x \in folded : RoleUnder(c, x) = "ProxyOut"
                      THEN "ProxyIn" ELSE "MirrorPrimary"]
<1>1. GroupOf(cluster, c) = [canon |-> c, members |-> members, role |-> role]
  BY DEF GroupOf
<1>2. c \in members /\ members \subseteq cluster /\ members \in SUBSET Turns
  BY DEF Folded
<1>3. role \in [members -> Roles] /\ role[c] \notin Hidden
  BY <1>2 DEF RoleUnder, Roles, Hidden
<1>4. role \in UNION {[m -> Roles] : m \in SUBSET Turns}
  BY <1>2, <1>3
<1> HIDE DEF folded, members, role
<1>5. GroupOf(cluster, c) \in Group
  BY <1>1, <1>2, <1>4 DEF Group
<1> QED  BY <1>1, <1>2, <1>3, <1>5 DEF WellFormed

\* The groups of one snapshot are well formed and share no member.
LEMMA GroupsAreDisjoint ==
  ASSUME NEW cands \in SUBSET Turns
  PROVE  /\ \A g \in GroupAll(cands) : WellFormed(g) /\ g.members \subseteq cands
         /\ \A g, h \in GroupAll(cands) : g.members \cap h.members # {} => g = h
<1>1. ASSUME NEW g \in GroupAll(cands)
      PROVE  \E cl \in Clusters(cands) :
                /\ g = GroupOf(cl, PickCanonical(cl))
                /\ WellFormed(g) /\ g.members \subseteq cl /\ cl \subseteq cands
  <2>1. PICK cl \in Clusters(cands) : g = GroupOf(cl, PickCanonical(cl))
    BY DEF GroupAll
  <2>2. cl \in SUBSET cands /\ cl # {}
    BY ClustersAreDisjoint
  <2>3. PickCanonical(cl) \in cl
    BY <2>2, CanonicalExists
  <2> QED  BY <2>1, <2>2, <2>3, GroupOfIsWellFormed
<1>2. ASSUME NEW g \in GroupAll(cands), NEW h \in GroupAll(cands),
             NEW x \in g.members, x \in h.members
      PROVE  g = h
  <2>1. PICK c \in Clusters(cands) : g = GroupOf(c, PickCanonical(c)) /\ g.members \subseteq c
    BY <1>1
  <2>2. PICK d \in Clusters(cands) : h = GroupOf(d, PickCanonical(d)) /\ h.members \subseteq d
    BY <1>1
  <2>3. c = d
    BY <1>2, <2>1, <2>2, ClustersAreDisjoint
  <2> QED  BY <2>1, <2>2, <2>3
<1> QED  BY <1>1, <1>2

-----------------------------------------------------------------------------
(* The sweeper.                                                             *)

\* The groups still to be written are disjoint and nothing of them is tagged.
SweepIsFresh ==
    /\ \A g \in sweep : WellFormed(g) /\ \A t \in g.members : tag[t] = Nothing /\ rows[t] > 0
    /\ \A g, h \in sweep : g.members \cap h.members # {} => g = h

\* The group being written: what is left of it is untagged and not in another
\* group, and the canonical member comes first.
CurrentIsFresh ==
    current # Nothing =>
        /\ WellFormed(current) /\ left \subseteq current.members
        /\ \A t \in left : tag[t] = Nothing /\ rows[t] > 0
        /\ \A t \in left : \A g \in sweep : t \notin g.members
        /\ current.canon \notin left => tag[current.canon] = MetadataFor(current, current.canon)

IInv == StoreTypeOK /\ SweepIsFresh /\ CurrentIsFresh /\ HiddenHasVisible

\* A member's metadata is a tag of its group.
LEMMA MetadataIsTag ==
  ASSUME NEW g, WellFormed(g), NEW t \in g.members
  PROVE  /\ MetadataFor(g, t) \in Tag /\ MetadataFor(g, t) # Nothing
         /\ MetadataFor(g, t).role = g.role[t] /\ MetadataFor(g, t).group = g.canon
  BY NothingAssumption DEF MetadataFor, WellFormed, Tag

\* The snapshot of a sweep has stored, untagged turns only.
LEMMA StartSweepKeeps == ASSUME IInv, StartSweep PROVE IInv'
<1>1. Candidates \in SUBSET Turns /\ \A t \in Candidates : tag[t] = Nothing /\ rows[t] > 0
  BY DEF Candidates
<1>2. /\ sweep' = GroupAll(Candidates) /\ current = Nothing
      /\ UNCHANGED <<produced, chan, batch, closed, done, lost, rows, current, left, tag,
                     horizon, failures, crashes>>
  BY DEF StartSweep, bufferVars
<1>3. \A g \in sweep' : WellFormed(g) /\ g.members \subseteq Candidates
  <2> HIDE DEF Candidates
  <2> QED  BY <1>1, <1>2, GroupsAreDisjoint
<1>4. \A g, h \in sweep' : g.members \cap h.members # {} => g = h
  <2> HIDE DEF Candidates
  <2> QED  BY <1>1, <1>2, GroupsAreDisjoint
<1>5. SweepIsFresh'
  BY <1>1, <1>2, <1>3, <1>4 DEF SweepIsFresh
<1>6. StoreTypeOK'
  BY <1>2, <1>3 DEF IInv, StoreTypeOK, WellFormed
<1> QED  BY <1>2, <1>5, <1>6 DEF IInv, CurrentIsFresh, HiddenHasVisible

\* A group leaves the sweep as a whole.
LEMMA BeginGroupKeeps == ASSUME IInv, BeginGroup PROVE IInv'
<1>1. PICK g \in sweep : current' = g /\ left' = g.members /\ sweep' = sweep \ {g}
  BY DEF BeginGroup
<1>2. UNCHANGED <<produced, chan, batch, closed, done, lost, rows, tag, horizon, failures, crashes>>
  BY DEF BeginGroup, bufferVars
<1>3. WellFormed(g) /\ \A t \in g.members : tag[t] = Nothing /\ rows[t] > 0
  BY DEF IInv, SweepIsFresh
<1>4. SweepIsFresh'
  BY <1>1, <1>2 DEF IInv, SweepIsFresh
<1>5. CurrentIsFresh'
  <2>1. \A t \in g.members : \A h \in sweep' : t \notin h.members
    BY <1>1 DEF IInv, SweepIsFresh
  <2>2. g.canon \in g.members
    BY <1>3 DEF WellFormed
  <2> QED  BY <1>1, <1>2, <1>3, <2>1, <2>2 DEF CurrentIsFresh
<1>6. StoreTypeOK'
  BY <1>1, <1>2, <1>3 DEF IInv, StoreTypeOK, WellFormed
<1> QED  BY <1>2, <1>4, <1>5, <1>6 DEF IInv, HiddenHasVisible

\* What one update writes: one untagged member of the current group, the
\* canonical one first.
LEMMA UpdateWrites ==
  ASSUME IInv, UpdateMember
  PROVE  \E t \in left :
            /\ t \in Turns /\ t \in current.members /\ tag[t] = Nothing
            /\ current.canon \in left => t = current.canon
            /\ tag' = [tag EXCEPT ![t] = MetadataFor(current, t)]
            /\ left' = left \ {t}
            /\ current' = IF left = {t} THEN Nothing ELSE current
<1>1. current # Nothing /\ WellFormed(current) /\ left \subseteq current.members
  BY DEF UpdateMember, IInv, CurrentIsFresh
<1>2. PICK t \in NextMembers :
         /\ tag' = IF rows[t] > 0 THEN [tag EXCEPT ![t] = MetadataFor(current, t)] ELSE tag
         /\ left' = left \ {t}
         /\ current' = IF left = {t} THEN Nothing ELSE current
  BY DEF UpdateMember
<1>3. t \in left /\ (current.canon \in left => t = current.canon)
  BY DEF NextMembers
<1>4. tag[t] = Nothing /\ rows[t] > 0
  BY <1>1, <1>3 DEF IInv, CurrentIsFresh
<1>5. t \in current.members /\ t \in Turns
  BY <1>1, <1>3 DEF WellFormed
<1> QED  BY <1>2, <1>3, <1>4, <1>5

LEMMA UpdateMemberKeeps == ASSUME IInv, UpdateMember PROVE IInv'
<1>1. PICK t \in left :
         /\ t \in Turns /\ t \in current.members /\ tag[t] = Nothing
         /\ current.canon \in left => t = current.canon
         /\ tag' = [tag EXCEPT ![t] = MetadataFor(current, t)]
         /\ left' = left \ {t}
         /\ current' = IF left = {t} THEN Nothing ELSE current
  BY UpdateWrites
<1>2. /\ current # Nothing
      /\ UNCHANGED <<produced, chan, batch, closed, done, lost, rows, sweep, horizon, failures,
                     crashes>>
  BY DEF UpdateMember, bufferVars
<1>3. /\ WellFormed(current) /\ left \subseteq current.members
      /\ \A u \in left : tag[u] = Nothing /\ rows[u] > 0
      /\ \A u \in left : \A g \in sweep : u \notin g.members
      /\ current.canon \notin left => tag[current.canon] = MetadataFor(current, current.canon)
  BY <1>2 DEF IInv, CurrentIsFresh
<1>4. current.canon \in Turns /\ current.canon \in current.members
  BY <1>3 DEF WellFormed
<1>5. tag \in [Turns -> Tag \cup {Nothing}]
  BY DEF IInv, StoreTypeOK
<1>6. /\ MetadataFor(current, t) \in Tag /\ MetadataFor(current, t) # Nothing
      /\ MetadataFor(current, t).role = current.role[t]
      /\ MetadataFor(current, t).group = current.canon
  BY <1>1, <1>3, MetadataIsTag
<1>7. /\ tag'[t] = MetadataFor(current, t)
      /\ \A u \in Turns : u # t => tag'[u] = tag[u]
      /\ tag' \in [Turns -> Tag \cup {Nothing}]
  BY <1>1, <1>5, <1>6
<1>8. tag'[current.canon] = MetadataFor(current, current.canon)
  BY <1>1, <1>3, <1>4, <1>7
<1>9. StoreTypeOK'
  BY <1>1, <1>2, <1>7 DEF IInv, StoreTypeOK
<1>10. SweepIsFresh'
  <2>1. \A g \in sweep : \A u \in g.members : u # t /\ u \in Turns
    BY <1>3 DEF IInv, SweepIsFresh, WellFormed
  <2> QED  BY <1>2, <1>7, <2>1 DEF IInv, SweepIsFresh
<1>11. CurrentIsFresh'
  <2>1. \A u \in left' : u # t /\ u \in left /\ u \in Turns
    BY <1>1, <1>3 DEF WellFormed
  <2> SUFFICES ASSUME current' # Nothing PROVE CurrentIsFresh'
    BY DEF CurrentIsFresh
  <2>2. current' = current
    BY <1>1
  <2> QED  BY <1>1, <1>2, <1>3, <1>7, <1>8, <2>1, <2>2 DEF CurrentIsFresh
<1>12. HiddenHasVisible'
  <2> SUFFICES ASSUME NEW u \in Turns, tag'[u] # Nothing, tag'[u].role \in Hidden
               PROVE  /\ tag'[tag'[u].group] # Nothing
                      /\ tag'[tag'[u].group].role \notin Hidden
                      /\ tag'[tag'[u].group].group = tag'[u].group
    BY DEF HiddenHasVisible
  <2>1. CASE u = t
    <3>1. tag'[u].group = current.canon
      BY <1>6, <1>7, <2>1
    <3>2. /\ MetadataFor(current, current.canon) # Nothing
          /\ MetadataFor(current, current.canon).role = current.role[current.canon]
          /\ MetadataFor(current, current.canon).group = current.canon
      BY <1>3, <1>4, MetadataIsTag
    <3>3. current.role[current.canon] \notin Hidden
      BY <1>3 DEF WellFormed
    <3> QED  BY <1>8, <3>1, <3>2, <3>3
  <2>2. CASE u # t
    <3>1. tag[u] # Nothing /\ tag[u].role \in Hidden /\ tag'[u] = tag[u]
      BY <1>7, <2>2
    <3>2. /\ tag[tag[u].group] # Nothing /\ tag[tag[u].group].role \notin Hidden
          /\ tag[tag[u].group].group = tag[u].group
      BY <3>1 DEF IInv, HiddenHasVisible
    <3>3. tag[u].group \in Turns /\ tag[u].group # t
      BY <1>1, <1>5, <3>1, <3>2 DEF Tag
    <3> QED  BY <1>7, <3>1, <3>2, <3>3
  <2> QED  BY <2>1, <2>2
<1> QED  BY <1>9, <1>10, <1>11, <1>12 DEF IInv

-----------------------------------------------------------------------------
(* The write buffer runs beside the sweeper: it only adds rows.             *)

\* A flush adds rows to the table, or leaves it alone.
LEMMA FlushAddsRows ==
  ASSUME IInv, NEW b \in Seq(Turns), FlushBatch(b)
  PROVE  /\ rows' \in [Turns -> Nat] /\ \A t \in Turns : rows'[t] >= rows[t]
         /\ failures' \in Nat /\ lost' \subseteq Turns
<1> DEFINE n(t) == Cardinality({i \in 1..Len(b) : b[i] = t})
<1>1. \A t \in Turns : n(t) \in Nat
  <2> SUFFICES ASSUME NEW t \in Turns PROVE n(t) \in Nat
    OBVIOUS
  <2>1. IsFiniteSet(1..Len(b))
    BY FS_Interval
  <2>2. IsFiniteSet({i \in 1..Len(b) : b[i] = t})
    BY <2>1, FS_Subset
  <2> QED  BY <2>2, FS_CardinalityType
<1>2. rows \in [Turns -> Nat] /\ failures \in Nat /\ lost \subseteq Turns
  BY DEF IInv, StoreTypeOK
<1>3. Elements(b) \subseteq Turns
  BY DEF Elements
<1>4. Stored(b) = [t \in Turns |-> rows[t] + n(t)]
  BY DEF Stored
<1> HIDE DEF n
<1>5. Stored(b) \in [Turns -> Nat] /\ \A t \in Turns : Stored(b)[t] >= rows[t]
  BY <1>1, <1>2, <1>4
<1> QED  BY <1>2, <1>3, <1>5 DEF FlushBatch

LEMMA EmptyIsSeq == << >> \in Seq(Turns)
  OBVIOUS

\* Steps of the trackers and of the buffer.
LEMMA BufferStepTypes ==
  ASSUME IInv, (\E t \in Turns : Produce(t)) \/ Close \/ Buffer
  PROVE  /\ rows' \in [Turns -> Nat] /\ \A t \in Turns : rows'[t] >= rows[t]
         /\ failures' \in Nat /\ lost' \subseteq Turns
         /\ produced' \subseteq Turns /\ chan' \in Seq(Turns) /\ batch' \in Seq(Turns)
         /\ closed' \in BOOLEAN /\ done' \in BOOLEAN
         /\ UNCHANGED <<sweep, current, left, tag, horizon, crashes>>
<1> USE DEF sweepVars
<1>1. /\ produced \subseteq Turns /\ chan \in Seq(Turns) /\ batch \in Seq(Turns)
      /\ closed \in BOOLEAN /\ done \in BOOLEAN
      /\ rows \in [Turns -> Nat] /\ failures \in Nat /\ lost \subseteq Turns
  BY DEF IInv, StoreTypeOK
<1>2. CASE \E t \in Turns : Produce(t)
  BY <1>1, <1>2 DEF Produce
<1>3. CASE Close
  BY <1>1, <1>3 DEF Close
<1>4. CASE Receive
  <2>1. chan # << >> /\ Head(chan) \in Turns /\ Tail(chan) \in Seq(Turns)
    BY <1>1, <1>4 DEF Receive
  <2>2. Append(batch, Head(chan)) \in Seq(Turns)
    BY <1>1, <2>1
  <2> DEFINE more == Append(batch, Head(chan))
  <2>3. /\ chan' = Tail(chan)
        /\ UNCHANGED <<produced, closed, done, horizon, crashes, sweep, current, left, tag>>
    BY <1>4 DEF Receive
  <2>4. \/ batch' = more /\ UNCHANGED <<rows, lost, failures>>
        \/ batch' = << >> /\ FlushBatch(more)
    BY <1>4 DEF Receive
  <2> HIDE DEF more
  <2>5. CASE batch' = more /\ UNCHANGED <<rows, lost, failures>>
    <3>1. more \in Seq(Turns)
      BY <2>2 DEF more
    <3> QED  BY <1>1, <2>1, <2>3, <2>5, <3>1
  <2>6. CASE batch' = << >> /\ FlushBatch(more)
    <3>1. more \in Seq(Turns)
      BY <2>2 DEF more
    <3>2. /\ rows' \in [Turns -> Nat] /\ \A t \in Turns : rows'[t] >= rows[t]
          /\ failures' \in Nat /\ lost' \subseteq Turns
      BY <2>6, <3>1, FlushAddsRows
    <3> QED  BY <1>1, <2>1, <2>3, <2>6, <3>2, EmptyIsSeq
  <2> QED  BY <2>4, <2>5, <2>6
<1>5. CASE FlushTick
  BY <1>1, <1>5, FlushAddsRows DEF FlushTick
<1>6. CASE Finish
  <2>1. CASE FlushBatch(batch)
    BY <1>1, <1>6, <2>1, FlushAddsRows DEF Finish
  <2>2. CASE UNCHANGED <<rows, lost, failures>>
    BY <1>1, <1>6, <2>2 DEF Finish
  <2> QED  BY <1>6, <2>1, <2>2 DEF Finish
<1> QED  BY <1>2, <1>3, <1>4, <1>5, <1>6 DEF Buffer

\* A flush between two updates of a sweep takes nothing from it.
LEMMA BufferKeeps ==
  ASSUME IInv, (\E t \in Turns : Produce(t)) \/ Close \/ Buffer
  PROVE  IInv'
<1>1. /\ rows' \in [Turns -> Nat] /\ rows \in [Turns -> Nat]
      /\ \A t \in Turns : rows'[t] >= rows[t]
      /\ UNCHANGED <<sweep, current, left, tag>>
  BY BufferStepTypes DEF IInv, StoreTypeOK
<1>2. \A t \in Turns : rows[t] > 0 => rows'[t] > 0
  BY <1>1
<1>3. StoreTypeOK'
  BY BufferStepTypes DEF IInv, StoreTypeOK
<1>4. SweepIsFresh'
  BY <1>1, <1>2 DEF IInv, SweepIsFresh, WellFormed
<1>5. CurrentIsFresh'
  <2>1. current # Nothing => \A t \in left : t \in Turns
    BY DEF IInv, CurrentIsFresh, WellFormed
  <2> QED  BY <1>1, <1>2, <2>1 DEF IInv, CurrentIsFresh
<1> QED  BY <1>1, <1>3, <1>4, <1>5 DEF IInv, HiddenHasVisible

-----------------------------------------------------------------------------
(* Where a finalized turn is.                                               *)

\* How often t occurs in a channel or a batch.
Count(s, t) == Cardinality({i \in 1..Len(s) : s[i] = t})

LEMMA CountIsNat ==
  ASSUME NEW s \in Seq(Turns), NEW t
  PROVE  /\ IsFiniteSet({i \in 1..Len(s) : s[i] = t}) /\ Count(s, t) \in Nat
         /\ Count(s, t) = 0 <=> t \notin Elements(s)
<1> DEFINE S == {i \in 1..Len(s) : s[i] = t}
<1>1. IsFiniteSet(1..Len(s)) /\ S \in SUBSET (1..Len(s))
  BY FS_Interval
<1>2. IsFiniteSet(S)
  BY <1>1, FS_Subset
<1>3. Count(s, t) \in Nat /\ (Count(s, t) = 0 <=> S = {})
  <2> HIDE DEF S
  <2>1. Count(s, t) = Cardinality(S)
    BY DEF Count, S
  <2> QED  BY <1>2, <2>1, FS_CardinalityType, FS_EmptySet
<1>4. S = {} <=> t \notin Elements(s)
  BY DEF Elements
<1> QED  BY <1>2, <1>3, <1>4

LEMMA CountEmpty == \A t : Count(<< >>, t) = 0
<1> SUFFICES ASSUME NEW t PROVE Count(<< >>, t) = 0
  OBVIOUS
<1>1. {i \in 1..Len(<< >>) : << >>[i] = t} = {}
  OBVIOUS
<1> QED  BY <1>1, FS_EmptySet DEF Count

\* A send, and a push to the batch, add one occurrence.
LEMMA CountAppend ==
  ASSUME NEW s \in Seq(Turns), NEW x \in Turns, NEW t
  PROVE  Count(Append(s, x), t) = Count(s, t) + (IF x = t THEN 1 ELSE 0)
<1> DEFINE S == {i \in 1..Len(s) : s[i] = t}
           T == {i \in 1..Len(Append(s, x)) : Append(s, x)[i] = t}
<1>1. Len(Append(s, x)) = Len(s) + 1 /\ Len(s) \in Nat /\ Append(s, x)[Len(s) + 1] = x
      /\ \A i \in 1..Len(s) : Append(s, x)[i] = s[i]
  OBVIOUS
<1>2. CASE x = t
  <2>1. T = S \cup {Len(s) + 1} /\ Len(s) + 1 \notin S
    BY <1>1, <1>2
  <2>2. IsFiniteSet(S)
    BY CountIsNat
  <2> HIDE DEF S, T
  <2>3. Cardinality(T) = Cardinality(S) + 1
    BY <2>1, <2>2, FS_AddElement
  <2> QED  BY <1>2, <2>3 DEF Count, S, T
<1>3. CASE x # t
  <2>1. T = S
    BY <1>1, <1>3
  <2>2. Count(s, t) = Cardinality(S) /\ Count(Append(s, x), t) = Cardinality(T)
    BY DEF Count
  <2>3. Count(s, t) \in Nat
    BY CountIsNat
  <2> HIDE DEF S, T
  <2> QED  BY <1>3, <2>1, <2>2, <2>3
<1> QED  BY <1>2, <1>3

\* A receive takes one occurrence away, the head's.
LEMMA CountTail ==
  ASSUME NEW s \in Seq(Turns), s # << >>, NEW t
  PROVE  Count(s, t) = Count(Tail(s), t) + (IF Head(s) = t THEN 1 ELSE 0)
<1> DEFINE S == {i \in 1..Len(s) : s[i] = t}
           T == {i \in 1..Len(Tail(s)) : Tail(s)[i] = t}
           U == {i \in 2..Len(s) : s[i] = t}
           f == [i \in T |-> i + 1]
<1>1. /\ Len(s) \in Nat /\ Len(s) >= 1 /\ Len(Tail(s)) = Len(s) - 1 /\ Head(s) = s[1]
      /\ Tail(s) \in Seq(Turns) /\ \A i \in 1..Len(Tail(s)) : Tail(s)[i] = s[i + 1]
  OBVIOUS
<1>2. f \in Bijection(T, U)
  <2>1. f \in [T -> U]
    BY <1>1
  <2>2. \A i, j \in T : f[i] = f[j] => i = j
    BY <1>1
  <2>3. ASSUME NEW u \in U PROVE \E i \in T : f[i] = u
    <3>1. u - 1 \in T /\ u - 1 + 1 = u
      BY <1>1
    <3> QED  BY <3>1
  <2> HIDE DEF T, U, f
  <2>4. f \in Injection(T, U)
    BY <2>1, <2>2 DEF Injection, IsInjective
  <2>5. f \in Surjection(T, U)
    BY <2>1, <2>3 DEF Surjection
  <2> QED  BY <2>4, <2>5 DEF Bijection
<1>3. IsFiniteSet(T)
  BY <1>1, CountIsNat
<1>4. IsFiniteSet(U) /\ Cardinality(U) = Cardinality(T)
  <2> HIDE DEF T, U, f
  <2> QED  BY <1>2, <1>3, FS_Bijection DEF ExistsBijection
<1>5. S = (IF Head(s) = t THEN U \cup {1} ELSE U) /\ 1 \notin U
  BY <1>1
<1>6. Cardinality(S) = Cardinality(U) + (IF Head(s) = t THEN 1 ELSE 0)
  <2>1. Cardinality(U) \in Nat
    <3> HIDE DEF U, T, f, S
    <3> QED  BY <1>4, FS_CardinalityType
  <2> HIDE DEF S, U, T, f
  <2>2. CASE Head(s) = t
    <3>1. S = U \cup {1} /\ 1 \notin U
      BY <1>5, <2>2
    <3> QED  BY <1>4, <2>2, <3>1, FS_AddElement
  <2>3. CASE Head(s) # t
    <3>1. S = U
      BY <1>5, <2>3
    <3> QED  BY <2>1, <2>3, <3>1
  <2> QED  BY <2>2, <2>3
<1> QED  BY <1>4, <1>6 DEF Count

\* What makes Accounted inductive: a turn that was not produced yet is nowhere,
\* and the buffer returns only after the trackers are gone.
Nowhere(t) == rows[t] = 0 /\ InTransit(t) = 0 /\ t \notin lost

AccountInv ==
    /\ Accounted
    /\ \A t \in Turns \ produced : Nowhere(t)
    /\ done => closed

\* The places of one turn, as numbers.
Weight(t, r, c, b, l) == r[t] + Count(c, t) + Count(b, t) + (IF t \in l THEN 1 ELSE 0)

Weighed ==
    /\ \A t \in Turns : Weight(t, rows, chan, batch, lost) = IF t \in produced THEN 1 ELSE 0
    /\ done => closed /\ chan = << >> /\ batch = << >>

LEMMA WeightIsAccount == IInv => (AccountInv <=> Weighed)
<1> SUFFICES ASSUME IInv PROVE AccountInv <=> Weighed
  OBVIOUS
<1>1. /\ chan \in Seq(Turns) /\ batch \in Seq(Turns) /\ produced \subseteq Turns
      /\ \A t \in Turns : rows[t] \in Nat
  BY DEF IInv, StoreTypeOK
<1>2. \A t \in Turns : Count(chan, t) \in Nat /\ Count(batch, t) \in Nat
  BY <1>1, CountIsNat
<1>3. \A t : InTransit(t) = Count(chan, t) + Count(batch, t)
  BY DEF InTransit, Count
<1> HIDE DEF Count, InTransit
<1>4. ASSUME NEW t \in Turns
      PROVE  /\ Weight(t, rows, chan, batch, lost)
                  = rows[t] + InTransit(t) + (IF t \in lost THEN 1 ELSE 0)
             /\ Weight(t, rows, chan, batch, lost) = 0 <=> Nowhere(t)
  BY <1>1, <1>2, <1>3 DEF Weight, Nowhere
<1> HIDE DEF Nowhere
<1> QED  BY <1>1, <1>4 DEF AccountInv, Accounted, Weighed

\* A flushed batch is in the table, or on record as lost.
LEMMA FlushMoves ==
  ASSUME IInv, NEW b \in Seq(Turns), FlushBatch(b), NEW t \in Turns,
         rows[t] + Count(b, t) + (IF t \in lost THEN 1 ELSE 0) =< 1
  PROVE  rows'[t] + (IF t \in lost' THEN 1 ELSE 0)
            = rows[t] + Count(b, t) + (IF t \in lost THEN 1 ELSE 0)
<1>1. rows \in [Turns -> Nat] /\ Count(b, t) \in Nat /\ (Count(b, t) = 0 <=> t \notin Elements(b))
  BY CountIsNat DEF IInv, StoreTypeOK
<1>2. CASE rows' = Stored(b) /\ UNCHANGED <<lost, failures>>
  <2>1. rows'[t] = rows[t] + Count(b, t)
    BY <1>2 DEF Stored, Count
  <2> QED  BY <1>1, <1>2, <2>1
<1>3. CASE lost' = lost \cup Elements(b) /\ UNCHANGED rows
  BY <1>1, <1>3
<1> QED  BY <1>2, <1>3 DEF FlushBatch

LEMMA ProduceAccounts ==
  ASSUME IInv, Weighed, NEW x \in Turns, Produce(x) PROVE Weighed'
<1>1. chan \in Seq(Turns) /\ batch \in Seq(Turns) /\ rows \in [Turns -> Nat]
  BY DEF IInv, StoreTypeOK
<1>2. /\ produced' = produced \cup {x} /\ x \notin produced /\ chan' = Append(chan, x)
      /\ ~closed /\ UNCHANGED <<rows, batch, lost, closed, done>>
  BY DEF Produce
<1>3. ASSUME NEW t \in Turns
      PROVE  Weight(t, rows', chan', batch', lost') = IF t \in produced' THEN 1 ELSE 0
  <2>1. Count(chan', t) = Count(chan, t) + (IF x = t THEN 1 ELSE 0)
    BY <1>1, <1>2, CountAppend
  <2>2. Count(chan, t) \in Nat /\ Count(batch, t) \in Nat /\ rows[t] \in Nat
    BY <1>1, CountIsNat
  <2>3. Weight(t, rows, chan, batch, lost) = IF t \in produced THEN 1 ELSE 0
    BY DEF Weighed
  <2> HIDE DEF Count
  <2> QED  BY <1>2, <2>1, <2>2, <2>3 DEF Weight
<1> QED  BY <1>2, <1>3 DEF Weighed

\* A step that leaves the batch empty and stores or loses exactly the turns b that
\* were on their way and are no longer.
LEMMA FlushAccounts ==
  ASSUME IInv, Weighed, NEW b \in Seq(Turns), FlushBatch(b), batch' = << >>,
         chan' \in Seq(Turns), produced' = produced,
         \A t \in Turns : Count(chan, t) + Count(batch, t) = Count(chan', t) + Count(b, t),
         done' => closed' /\ chan' = << >>
  PROVE  Weighed'
<1>1. chan \in Seq(Turns) /\ batch \in Seq(Turns) /\ rows \in [Turns -> Nat]
  BY DEF IInv, StoreTypeOK
<1>2. ASSUME NEW t \in Turns
      PROVE  Weight(t, rows', chan', batch', lost') = IF t \in produced' THEN 1 ELSE 0
  <2>1. /\ Count(chan, t) \in Nat /\ Count(batch, t) \in Nat /\ rows[t] \in Nat
        /\ Count(chan', t) \in Nat /\ Count(b, t) \in Nat /\ Count(batch', t) = 0
    BY <1>1, CountIsNat, CountEmpty
  <2>2. Weight(t, rows, chan, batch, lost) = IF t \in produced THEN 1 ELSE 0
    BY DEF Weighed
  <2>3. Count(chan, t) + Count(batch, t) = Count(chan', t) + Count(b, t)
    OBVIOUS
  <2> HIDE DEF Count
  <2>4. rows[t] + Count(b, t) + (IF t \in lost THEN 1 ELSE 0) =< 1
    BY <2>1, <2>2, <2>3 DEF Weight
  <2>5. rows'[t] + (IF t \in lost' THEN 1 ELSE 0)
            = rows[t] + Count(b, t) + (IF t \in lost THEN 1 ELSE 0)
    BY <2>4, FlushMoves
  <2>6. rows'[t] \in Nat
    <3>1. rows' = Stored(b) \/ rows' = rows
      BY DEF FlushBatch
    <3>2. Stored(b)[t] = rows[t] + Count(b, t)
      BY DEF Stored, Count
    <3> QED  BY <2>1, <3>1, <3>2
  <2>7. Weight(t, rows', chan', batch', lost')
           = rows'[t] + (IF t \in lost' THEN 1 ELSE 0) + Count(chan', t)
    BY <2>1, <2>6 DEF Weight
  <2>8. Weight(t, rows, chan, batch, lost)
           = rows[t] + (IF t \in lost THEN 1 ELSE 0) + (Count(chan, t) + Count(batch, t))
    BY <2>1 DEF Weight
  <2>9. Weight(t, rows', chan', batch', lost') = Weight(t, rows, chan, batch, lost)
    BY <2>1, <2>3, <2>5, <2>7, <2>8
  <2> QED  BY <2>2, <2>9
<1> QED  BY <1>2 DEF Weighed

LEMMA ReceiveAccounts == ASSUME IInv, Weighed, Receive PROVE Weighed'
<1> DEFINE x == Head(chan)
<1>1. /\ chan \in Seq(Turns) /\ batch \in Seq(Turns) /\ rows \in [Turns -> Nat]
      /\ chan # << >> /\ chan' = Tail(chan) /\ ~done
      /\ UNCHANGED <<produced, closed, done>>
  BY DEF IInv, StoreTypeOK, Receive
<1>2. x \in Turns /\ Tail(chan) \in Seq(Turns) /\ Append(batch, x) \in Seq(Turns)
  BY <1>1
<1>3. ASSUME NEW t \in Turns
      PROVE  /\ Count(chan, t) = Count(chan', t) + (IF x = t THEN 1 ELSE 0)
             /\ Count(Append(batch, x), t) = Count(batch, t) + (IF x = t THEN 1 ELSE 0)
             /\ Count(chan', t) \in Nat /\ Count(batch, t) \in Nat /\ Count(chan, t) \in Nat
  <2>1. Count(chan, t) = Count(chan', t) + (IF x = t THEN 1 ELSE 0)
    BY <1>1, CountTail
  <2>2. Count(Append(batch, x), t) = Count(batch, t) + (IF x = t THEN 1 ELSE 0)
    BY <1>1, <1>2, CountAppend
  <2>3. Count(chan', t) \in Nat /\ Count(batch, t) \in Nat /\ Count(chan, t) \in Nat
    BY <1>1, <1>2, CountIsNat
  <2> QED  BY <2>1, <2>2, <2>3
<1> HIDE DEF x, Count
<1>4. \A t \in Turns :
         Count(chan, t) + Count(batch, t) = Count(chan', t) + Count(Append(batch, x), t)
  BY <1>3
<1>5. CASE batch' = Append(batch, x) /\ UNCHANGED <<rows, lost, failures>>
  <2>1. ASSUME NEW t \in Turns
        PROVE  Weight(t, rows', chan', batch', lost') = Weight(t, rows, chan, batch, lost)
    <3>1. rows[t] \in Nat
      BY <1>1
    <3> QED  BY <1>3, <1>5, <3>1 DEF Weight
  <2> QED  BY <1>1, <2>1 DEF Weighed
<1>6. CASE batch' = << >> /\ FlushBatch(Append(batch, x))
  BY <1>1, <1>2, <1>4, <1>6, FlushAccounts
<1> QED  BY <1>5, <1>6 DEF Receive, x

LEMMA BufferAccounts == ASSUME IInv, Weighed, Buffer PROVE Weighed'
<1>1. chan \in Seq(Turns) /\ batch \in Seq(Turns)
  BY DEF IInv, StoreTypeOK
<1>2. CASE Receive
  BY <1>2, ReceiveAccounts
<1>3. CASE FlushTick
  <2>1. /\ FlushBatch(batch) /\ batch' = << >> /\ chan' = chan /\ produced' = produced
        /\ ~done /\ done' = done
    BY <1>3 DEF FlushTick
  <2> QED  BY <1>1, <2>1, FlushAccounts
<1>4. CASE Finish
  <2>1. /\ closed' /\ chan' = chan /\ chan = << >> /\ batch' = << >> /\ produced' = produced
    BY <1>4 DEF Finish
  <2>2. CASE FlushBatch(batch)
    BY <1>1, <2>1, <2>2, FlushAccounts
  <2>3. CASE batch = << >> /\ UNCHANGED <<rows, lost, failures>>
    BY <2>1, <2>3 DEF Weighed
  <2> QED  BY <1>4, <2>2, <2>3 DEF Finish
<1> QED  BY <1>2, <1>3, <1>4 DEF Buffer

\* A crash loses what the channel and the batch hold, and records it.
LEMMA CrashAccounts == ASSUME IInv, Weighed, Crash PROVE Weighed'
<1>1. chan \in Seq(Turns) /\ batch \in Seq(Turns) /\ rows \in [Turns -> Nat]
  BY DEF IInv, StoreTypeOK
<1>2. /\ lost' = lost \cup Elements(chan) \cup Elements(batch)
      /\ chan' = << >> /\ batch' = << >> /\ done' = FALSE /\ UNCHANGED <<produced, rows>>
  BY DEF Crash
<1>3. ASSUME NEW t \in Turns
      PROVE  Weight(t, rows', chan', batch', lost') = IF t \in produced' THEN 1 ELSE 0
  <2>1. /\ Count(chan, t) \in Nat /\ (Count(chan, t) = 0 <=> t \notin Elements(chan))
        /\ Count(batch, t) \in Nat /\ (Count(batch, t) = 0 <=> t \notin Elements(batch))
        /\ Count(chan', t) = 0 /\ Count(batch', t) = 0 /\ rows[t] \in Nat
    BY <1>1, <1>2, CountIsNat, CountEmpty
  <2>2. Weight(t, rows, chan, batch, lost) = IF t \in produced THEN 1 ELSE 0
    BY DEF Weighed
  <2> HIDE DEF Count, Elements
  <2> QED  BY <1>2, <2>1, <2>2 DEF Weight
<1> QED  BY <1>2, <1>3 DEF Weighed

LEMMA StepAccounts ==
  ASSUME IInv, Weighed, [StoreNext]_storeVars PROVE Weighed'
<1>1. CASE UNCHANGED <<produced, chan, batch, done, rows, lost>> /\ (closed => closed')
  BY <1>1 DEF Weighed
<1>2. ASSUME Close \/ StartSweep \/ BeginGroup \/ UpdateMember \/ FailUpdate \/ MoveWindow
             \/ UNCHANGED storeVars
      PROVE  UNCHANGED <<produced, chan, batch, done, rows, lost>> /\ (closed => closed')
  BY <1>2 DEF Close, StartSweep, BeginGroup, UpdateMember, FailUpdate, MoveWindow, storeVars,
              bufferVars
<1> QED  BY <1>1, <1>2, ProduceAccounts, BufferAccounts, CrashAccounts DEF StoreNext

-----------------------------------------------------------------------------
(* The specification.                                                       *)

LEMMA InitEstablishes == ASSUME StoreInit PROVE IInv
<1>1. \A t \in Turns : tag[t] = Nothing
  BY DEF StoreInit
<1>2. StoreTypeOK
  <2>1. rows \in [Turns -> Nat] /\ tag \in [Turns -> Tag \cup {Nothing}]
    BY DEF StoreInit
  <2> QED  BY <2>1, EmptyIsSeq DEF StoreInit, StoreTypeOK
<1> QED  BY <1>1, <1>2 DEF StoreInit, IInv, SweepIsFresh, CurrentIsFresh, HiddenHasVisible

\* An abandoned sweep, by a failed update or by a crash, leaves what it has
\* written; the canonical member was written first.
LEMMA AbandonKeeps == ASSUME IInv, FailUpdate \/ Crash PROVE IInv'
<1>1. /\ sweep' = {} /\ current' = Nothing /\ left' = {}
      /\ UNCHANGED <<produced, rows, tag, horizon>>
  BY DEF FailUpdate, Crash, bufferVars
<1>2. StoreTypeOK'
  <2>1. CASE FailUpdate
    BY <2>1 DEF FailUpdate, bufferVars, IInv, StoreTypeOK
  <2>2. CASE Crash
    <3>1. Elements(chan) \subseteq Turns /\ Elements(batch) \subseteq Turns
      BY DEF IInv, StoreTypeOK, Elements
    <3>2. tag \in [Turns -> Tag \cup {Nothing}] /\ tag' = tag
      BY <1>1 DEF IInv, StoreTypeOK
    <3>3. chan' \in Seq(Turns) /\ batch' \in Seq(Turns)
      BY <2>2, EmptyIsSeq DEF Crash
    <3>4. lost' \subseteq Turns /\ produced' \subseteq Turns /\ rows' \in [Turns -> Nat]
      BY <2>2, <3>1 DEF Crash, IInv, StoreTypeOK
    <3>5. horizon' \in Nat /\ failures' \in Nat /\ crashes' \in Nat
      BY <2>2 DEF Crash, IInv, StoreTypeOK
    <3>6. closed' \in BOOLEAN /\ done' \in BOOLEAN
      BY <2>2 DEF Crash
    <3> QED  BY <1>1, <3>2, <3>3, <3>4, <3>5, <3>6 DEF StoreTypeOK
  <2> QED  BY <2>1, <2>2
<1> QED  BY <1>1, <1>2 DEF IInv, SweepIsFresh, CurrentIsFresh, HiddenHasVisible

LEMMA MoveWindowKeeps == ASSUME IInv, MoveWindow PROVE IInv'
<1>1. UNCHANGED <<rows, sweep, current, left, tag>>
  BY DEF MoveWindow
<1>2. StoreTypeOK'
  BY PairAssumption DEF MoveWindow, bufferVars, IInv, StoreTypeOK
<1> QED  BY <1>1, <1>2 DEF IInv, SweepIsFresh, CurrentIsFresh, HiddenHasVisible

LEMMA StutterKeeps == ASSUME IInv, UNCHANGED storeVars PROVE IInv'
  BY DEF storeVars, IInv, StoreTypeOK, SweepIsFresh, CurrentIsFresh, HiddenHasVisible

LEMMA StepKeeps == ASSUME IInv, [StoreNext]_storeVars PROVE IInv'
  BY BufferKeeps, StartSweepKeeps, BeginGroupKeeps, UpdateMemberKeeps, AbandonKeeps,
     MoveWindowKeeps, StutterKeeps DEF StoreNext

\* The strengthening is an invariant of the buffer and the sweeper together.
THEOREM StoreInvariant == StoreSpec => []IInv
<1> QED  BY InitEstablishes, StepKeeps, PTL DEF StoreSpec

\* Type correctness: every tag of the table has a role and a group.
THEOREM StoreTypeCorrect == StoreSpec => []StoreTypeOK
<1>1. IInv => StoreTypeOK
  BY DEF IInv
<1> QED  BY <1>1, StoreInvariant, PTL

\* No turn disappears from the list: update_trace_metadata writes the canonical
\* member first and a snapshot's groups are disjoint, so no failed update, crash
\* or concurrent flush leaves a hidden turn without its visible one.
THEOREM NoTurnDisappears == StoreSpec => []HiddenHasVisible
<1>1. IInv => HiddenHasVisible
  BY DEF IInv
<1> QED  BY <1>1, StoreInvariant, PTL

\* sweep_once is idempotent: no step changes a role that is written.
THEOREM RolesAreFinal == StoreSpec => NeverRetagged
<1>1. ASSUME IInv, [StoreNext]_storeVars
      PROVE  [\A t \in Turns : tag[t] # Nothing => tag'[t] = tag[t]]_storeVars
  <2>1. CASE UpdateMember
    <3>1. PICK t \in left : t \in Turns /\ tag[t] = Nothing
                            /\ tag' = [tag EXCEPT ![t] = MetadataFor(current, t)]
      BY <1>1, <2>1, UpdateWrites
    <3> QED  BY <1>1, <3>1 DEF IInv, StoreTypeOK
  <2>2. CASE UNCHANGED tag
    BY <2>2
  <2>3. UpdateMember \/ UNCHANGED tag
    BY <1>1, BufferStepTypes
       DEF StoreNext, storeVars, StartSweep, BeginGroup, FailUpdate, MoveWindow, Crash
  <2> QED  BY <2>1, <2>2, <2>3
<1> QED  BY <1>1, StoreInvariant, PTL DEF StoreSpec, NeverRetagged

\* Every finalized turn is in exactly one place, whatever the order of sends,
\* flushes by size and by time, failed writes and crashes (WriteBuffer::run and
\* flush): no turn is stored twice and none vanishes without a record.
THEOREM TurnsAreAccounted == StoreSpec => []Accounted
<1>1. StoreInit => Weighed
  <2>1. \A t \in Turns : Count(<< >>, t) = 0
    BY CountEmpty
  <2> HIDE DEF Count
  <2> QED  BY <2>1 DEF StoreInit, Weighed, Weight
<1>2. IInv /\ Weighed => Accounted
  BY WeightIsAccount DEF AccountInv
<1>3. IInv /\ Weighed /\ [StoreNext]_storeVars => Weighed'
  BY StepAccounts
<1> QED  BY <1>1, <1>2, <1>3, StoreInvariant, PTL DEF StoreSpec

=============================================================================
