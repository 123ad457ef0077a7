----------------------------- MODULE TurnStore ------------------------------
(***************************************************************************)
(* Finalized turns on their way to the traces table and in it: the turns   *)
(* WriteBuffer of server/h-storage/src/buffer.rs, which batches by size or *)
(* by time and drops a batch whose write fails, and the pair sweeper of    *)
(* server/h-storage/src/pair_sweeper.rs, which groups the turns that are   *)
(* one logical call seen from several vantage points (h-turn's             *)
(* proxy_pair.rs) and tags them one update at a time.  The two run         *)
(* concurrently and the process may crash; only the table survives.        *)
(***************************************************************************)
EXTENDS Integers, FiniteSets, Sequences

CONSTANTS
    Turns,          \* turn ids, numbers in their lexicographic order
    StartTime,      \* [Turns -> Nat], microseconds in some unit
    EndTime,
    NetworkView,    \* client_ip -> server_ip
    Fingerprint,    \* content_fingerprint
    MaxReqTimeGap,  \* MAX_REQ_TIME_GAP_US
    MirrorTolerance,\* MIRROR_TIME_TOLERANCE_US
    Milli           \* a millisecond in that unit

ASSUME PairAssumption ==
    /\ Turns \subseteq Nat /\ IsFiniteSet(Turns)
    /\ StartTime \in [Turns -> Nat] /\ EndTime \in [Turns -> Nat]
    /\ MaxReqTimeGap \in Nat /\ MirrorTolerance \in Nat /\ Milli \in Nat \ {0}

Roles == {"ProxyIn", "ProxyOut", "MirrorPrimary", "MirrorSecondary"}

\* hidden_by_default.
Hidden == {"ProxyOut", "MirrorSecondary"}

\* epoch_ms(..) * 1000: the candidate query reads whole milliseconds.
StartUs(t) == (StartTime[t] \div Milli) * Milli
EndUs(t) == (EndTime[t] \div Milli) * Milli

Gap(a, b) == IF a < b THEN b - a ELSE a - b

\* time_clusters: b follows a without a gap in start times above the maximum.
Chained(bucket, a, b) ==
    \A x \in bucket : StartUs(a) =< StartUs(x) /\ StartUs(x) < StartUs(b) =>
        \E y \in bucket : StartUs(x) < StartUs(y) /\ StartUs(y) - StartUs(x) =< MaxReqTimeGap

Clusters(cands) ==
    {{b \in cands : /\ Fingerprint[b] = Fingerprint[a]
                    /\ LET bucket == {x \in cands : Fingerprint[x] = Fingerprint[a]}
                       IN  Chained(bucket, a, b) /\ Chained(bucket, b, a)} : a \in cands}

\* The order of pick_canonical: start_time, then the later end, then turn_id.
RanksFirst(a, b) ==
    \/ StartUs(a) < StartUs(b)
    \/ StartUs(a) = StartUs(b) /\ EndUs(a) > EndUs(b)
    \/ StartUs(a) = StartUs(b) /\ EndUs(a) = EndUs(b) /\ a < b

\* pick_canonical.
PickCanonical(cluster) == CHOOSE c \in cluster : \A t \in cluster \ {c} : RanksFirst(c, t)

Mirrors(c, t) ==
    Gap(StartUs(c), StartUs(t)) =< MirrorTolerance /\ Gap(EndUs(c), EndUs(t)) =< MirrorTolerance

Nested(c, t) == StartUs(c) =< StartUs(t) /\ EndUs(c) >= EndUs(t)

\* assign_roles: the members that are folded under c, the rest is dropped.
Folded(cluster, c) ==
    {t \in cluster \ {c} : NetworkView[t] # NetworkView[c] /\ (Mirrors(c, t) \/ Nested(c, t))}

RoleUnder(c, t) == IF Mirrors(c, t) THEN "MirrorSecondary" ELSE "ProxyOut"

\* A group: the canonical member and the ones folded under it.
GroupOf(cluster, c) ==
    LET folded == Folded(cluster, c)
    IN  [canon |-> c, members |-> folded \cup {c},
         role |-> [t \in folded \cup {c} |->
                     IF t # c THEN RoleUnder(c, t)
                     ELSE IF \E x \in folded : RoleUnder(c, x) = "ProxyOut"
                     THEN "ProxyIn" ELSE "MirrorPrimary"]]

\* group_all.
GroupAll(cands) ==
    {g \in {GroupOf(cl, PickCanonical(cl)) : cl \in Clusters(cands)} : g.members # {g.canon}}

-----------------------------------------------------------------------------
CONSTANTS
    Cap,          \* capacity of the turns channel
    BatchSize,    \* WriteBuffer.batch_size
    MaxFailures,  \* bound: failing backend calls
    MaxCrashes,   \* bound: crashes of the process
    Nothing       \* Rust's Option::None

ASSUME StoreAssumption ==
    Cap \in Nat /\ BatchSize \in Nat \ {0} /\ MaxFailures \in Nat /\ MaxCrashes \in Nat

Group == [canon: Turns, members: SUBSET Turns, role: UNION {[m -> Roles] : m \in SUBSET Turns}]

\* metadata.proxy; the group's id is named by its canonical member.
Tag == [role: Roles, group: Turns, peers: SUBSET Turns]

ASSUME NothingAssumption == Nothing \notin Tag

VARIABLES
    produced,  \* turns the trackers have sent
    chan,      \* the turns channel
    batch,     \* WriteBuffer's pending batch
    closed,    \* the trackers have dropped their senders
    done,      \* WriteBuffer::run has returned
    rows,      \* how many rows of each turn the table has
    tag,       \* metadata.proxy of each stored turn, else Nothing
    sweep,     \* groups of the running sweep not begun yet
    current,   \* the group being written, else Nothing
    left,      \* its members still to be updated
    horizon,   \* start of the lookback window
    failures,  \* failing backend calls so far
    crashes,
    lost       \* history: turns of dropped batches and of crashes

storeVars == <<produced, chan, batch, closed, done, rows, tag, sweep, current, left, horizon,
          failures, crashes, lost>>
bufferVars == <<produced, chan, batch, closed, done, lost>>
sweepVars == <<sweep, current, left, tag>>

StoreInit ==
    /\ produced = {} /\ chan = << >> /\ batch = << >>
    /\ closed = FALSE /\ done = FALSE
    /\ rows = [t \in Turns |-> 0] /\ tag = [t \in Turns |-> Nothing]
    /\ sweep = {} /\ current = Nothing /\ left = {}
    /\ horizon = 0 /\ failures = 0 /\ crashes = 0 /\ lost = {}

Elements(s) == {s[i] : i \in 1..Len(s)}

-----------------------------------------------------------------------------
(* The turns channel and WriteBuffer::run.                                  *)

\* A tracker sends a finalized turn.
Produce(t) ==
    /\ ~closed /\ t \notin produced /\ Len(chan) < Cap
    /\ produced' = produced \cup {t} /\ chan' = Append(chan, t)
    /\ UNCHANGED <<batch, closed, done, rows, lost, horizon, failures, crashes>>
    /\ UNCHANGED sweepVars

Close ==
    /\ ~closed /\ closed' = TRUE
    /\ UNCHANGED <<produced, chan, batch, done, rows, lost, horizon, failures, crashes>>
    /\ UNCHANGED sweepVars

\* write_traces: one appender flush, a row for every turn of b.
Stored(b) == [t \in Turns |-> rows[t] + Cardinality({i \in 1..Len(b) : b[i] = t})]

\* flush of the turns b: write_traces stores all, or fails and they are dropped.
FlushBatch(b) ==
    \/ /\ rows' = Stored(b)
       /\ UNCHANGED <<lost, failures>>
    \/ /\ failures < MaxFailures /\ failures' = failures + 1
       /\ lost' = lost \cup Elements(b)
       /\ UNCHANGED rows

\* Deviation: the flushed batch is not replaced by an empty one.
Receive_KeepsBatch ==
    /\ ~done /\ chan # << >>
    /\ chan' = Tail(chan)
    /\ batch' = Append(batch, Head(chan))
    /\ IF Len(batch) + 1 >= BatchSize THEN FlushBatch(Append(batch, Head(chan)))
       ELSE UNCHANGED <<rows, lost, failures>>
    /\ UNCHANGED <<produced, closed, done, horizon, crashes>> /\ UNCHANGED sweepVars

\* An item: pushed, and the batch flushed when it has reached its size.
Receive ==
    /\ ~done /\ chan # << >>
    /\ chan' = Tail(chan)
    /\ \/ /\ Len(batch) + 1 < BatchSize
          /\ batch' = Append(batch, Head(chan))
          /\ UNCHANGED <<rows, lost, failures>>
       \/ /\ Len(batch) + 1 >= BatchSize
          /\ batch' = << >>
          /\ FlushBatch(Append(batch, Head(chan)))
    /\ UNCHANGED <<produced, closed, done, horizon, crashes>> /\ UNCHANGED sweepVars

\* The interval ticks while the batch is not empty.
FlushTick ==
    /\ ~done /\ batch # << >>
    /\ batch' = << >> /\ FlushBatch(batch)
    /\ UNCHANGED <<produced, chan, closed, done, horizon, crashes>> /\ UNCHANGED sweepVars

\* Deviation: the task returns only when it had something left to flush.
Finish_OnlyAfterFlush ==
    /\ closed /\ ~done /\ chan = << >> /\ batch # << >>
    /\ done' = TRUE /\ batch' = << >> /\ FlushBatch(batch)
    /\ UNCHANGED <<produced, chan, closed, horizon, crashes>> /\ UNCHANGED sweepVars

\* Upstream EOF: what is left is flushed and the task returns.
Finish ==
    /\ closed /\ ~done /\ chan = << >>
    /\ done' = TRUE /\ batch' = << >>
    /\ \/ batch # << >> /\ FlushBatch(batch)
       \/ batch = << >> /\ UNCHANGED <<rows, lost, failures>>
    /\ UNCHANGED <<produced, chan, closed, horizon, crashes>> /\ UNCHANGED sweepVars

-----------------------------------------------------------------------------
(* The pair sweeper.                                                        *)

\* Deviation: turns that have a role already are candidates again.
Candidates_All == {t \in Turns : rows[t] > 0 /\ StartTime[t] >= horizon}

\* query_pair_candidates: stored turns of the lookback window without a role.
Candidates == {t \in Turns : rows[t] > 0 /\ tag[t] = Nothing /\ StartTime[t] >= horizon}

\* sweep_once up to the first update.
StartSweep ==
    /\ sweep = {} /\ current = Nothing
    /\ sweep' = GroupAll(Candidates)
    /\ UNCHANGED bufferVars /\ UNCHANGED <<rows, current, left, tag, horizon, failures, crashes>>

\* The next group, in the arbitrary order of a HashMap.
BeginGroup ==
    /\ current = Nothing
    /\ \E g \in sweep : /\ current' = g /\ left' = g.members
                        /\ sweep' = sweep \ {g}
    /\ UNCHANGED bufferVars /\ UNCHANGED <<rows, tag, horizon, failures, crashes>>

\* Deviation: members in the order of their start, last one first.
NextMembers_Reversed == {t \in left : \A u \in left : StartTime[u] =< StartTime[t]}

\* The members in the order of the group: the canonical one, then by start time.
NextMembers ==
    IF current.canon \in left THEN {current.canon}
    ELSE {t \in left : \A u \in left : StartTime[t] =< StartTime[u]}

\* metadata_for.
MetadataFor(g, t) == [role |-> g.role[t], group |-> g.canon, peers |-> g.members \ {t}]

\* update_trace_metadata of one member; nothing happens when the row is gone.
UpdateMember ==
    /\ current # Nothing
    /\ \E t \in NextMembers :
           /\ tag' = IF rows[t] > 0 THEN [tag EXCEPT ![t] = MetadataFor(current, t)] ELSE tag
           /\ left' = left \ {t}
           /\ current' = IF left = {t} THEN Nothing ELSE current
    /\ UNCHANGED bufferVars /\ UNCHANGED <<rows, sweep, horizon, failures, crashes>>

\* An update fails: the sweep ends there, the next one starts from the query.
FailUpdate ==
    /\ current # Nothing /\ failures < MaxFailures
    /\ failures' = failures + 1
    /\ sweep' = {} /\ current' = Nothing /\ left' = {}
    /\ UNCHANGED bufferVars /\ UNCHANGED <<rows, tag, horizon, crashes>>

\* The lookback window moves past the oldest turn in it.
MoveWindow ==
    /\ \E t \in Turns : StartTime[t] >= horizon /\ horizon' = StartTime[t] + 1
    /\ UNCHANGED bufferVars /\ UNCHANGED <<rows, sweep, current, left, tag, failures, crashes>>

-----------------------------------------------------------------------------
\* The process dies and is started again: the table stays, the rest is gone.
Crash ==
    /\ crashes < MaxCrashes /\ crashes' = crashes + 1
    /\ lost' = lost \cup Elements(chan) \cup Elements(batch)
    /\ chan' = << >> /\ batch' = << >> /\ closed' = FALSE /\ done' = FALSE
    /\ sweep' = {} /\ current' = Nothing /\ left' = {}
    /\ UNCHANGED <<produced, rows, tag, horizon, failures>>

Buffer == Receive \/ FlushTick \/ Finish

StoreNext ==
    \/ \E t \in Turns : Produce(t)
    \/ Close \/ Buffer
    \/ StartSweep \/ BeginGroup \/ UpdateMember \/ FailUpdate \/ MoveWindow
    \/ Crash

StoreSpec == StoreInit /\ [][StoreNext]_storeVars

Sweeper == StartSweep \/ BeginGroup \/ UpdateMember

\* Tokio polls the buffer's task while it has something to do, and the sweeper's
\* at every interval; nothing makes a backend call fail.
StoreFairness == WF_storeVars(Buffer) /\ WF_storeVars(Sweeper)

-----------------------------------------------------------------------------
\* Type invariant.
StoreTypeOK ==
    /\ produced \subseteq Turns /\ chan \in Seq(Turns) /\ batch \in Seq(Turns)
    /\ closed \in BOOLEAN /\ done \in BOOLEAN
    /\ rows \in [Turns -> Nat] /\ tag \in [Turns -> Tag \cup {Nothing}]
    /\ sweep \subseteq Group /\ current \in Group \cup {Nothing} /\ left \subseteq Turns
    /\ horizon \in Nat /\ failures \in Nat /\ crashes \in Nat /\ lost \subseteq Turns

InTransit(t) == Cardinality({i \in 1..Len(chan) : chan[i] = t})
                    + Cardinality({i \in 1..Len(batch) : batch[i] = t})

\* A finalized turn is in exactly one place: in the channel, in the batch, in the
\* table once, or lost by a failed write or a crash that is on record.  When the
\* buffer has returned it is in the table or on record as lost (WriteBuffer::run,
\* "any remaining batch has been flushed").
Accounted ==
    /\ \A t \in produced :
          rows[t] + InTransit(t) + (IF t \in lost THEN 1 ELSE 0) = 1
    /\ done => chan = << >> /\ batch = << >>

\* No turn disappears from the list: a turn the list view hides belongs to a
\* group whose visible member is stored and already tagged as such, at every
\* moment between two updates, after any failed update and after any crash.
HiddenHasVisible ==
    \A t \in Turns : tag[t] # Nothing /\ tag[t].role \in Hidden =>
        /\ tag[tag[t].group] # Nothing
        /\ tag[tag[t].group].role \notin Hidden
        /\ tag[tag[t].group].group = tag[t].group

\* Sweeps are idempotent: a turn's role never changes once it is written,
\* whatever lands later (the candidate query's role filter).
NeverRetagged == [][\A t \in Turns : tag[t] # Nothing => tag'[t] = tag[t]]_storeVars

\* Once the trackers are gone and the process stays up, the buffer returns.
Drains == closed ~> (done \/ ~closed)

\* "Repeat sweeps converge": from some point on there is nothing left to fold among
\* the stored turns of the window, whatever landed between two sweeps, failed or
\* was interrupted (sweep_once).
Converges == <>[](GroupAll(Candidates) = {} /\ current = Nothing)

\* The buffer drains and the sweeps converge.
Settles == Drains /\ Converges

\* What the module comment says of a group: every member shares its id and points
\* at every other one, so that members written so far agree.
PeersAgree ==
    \A t, u \in Turns : tag[t] # Nothing /\ tag[u] # Nothing /\ u \in tag[t].peers =>
        tag[u].group = tag[t].group /\ t \in tag[u].peers
=============================================================================
