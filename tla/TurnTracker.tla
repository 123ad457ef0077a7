---------------------------- MODULE TurnTracker ----------------------------
(***************************************************************************)
(* One shard of the turn stage: the TurnTracker of                         *)
(* server/h-turn/src/tracker.rs driven by the task loop of                 *)
(* server/h-turn/src/stage.rs.  Agent calls that belong to one             *)
(* (source, session) key are buffered, ordered by request_time, and cut    *)
(* into turns at the main-agent terminal calls once the terminal's own     *)
(* wall-clock grace has run out.  A buffer that never sees a terminal is   *)
(* drained after an idle period of its source's event time.                *)
(*                                                                         *)
(* Two clocks, as in the code: `wall' is Instant (grace only) and          *)
(* `virtualNow' is the per-source event-time watermark (idle, gc).         *)
(***************************************************************************)
EXTENDS Integers, FiniteSets

CONSTANTS
    Sources,        \* capture source ids
    Sessions,       \* agent session ids
    Kinds,          \* classifications h-llm can put on an agent call
    Latencies,      \* arrival_ts - request_time of a call
    MaxTime,        \* bound: largest event time of a call or a heartbeat
    MaxWall,        \* bound: largest wall-clock instant
    MaxCalls,       \* bound: calls ingested
    Grace,          \* TrackerConfig::grace, wall-clock ticks
    Idle,           \* TrackerConfig::idle_timeout_us, event-time ticks
    SweepInterval,  \* TrackerConfig::sweep_interval_us, event-time ticks
    None            \* Rust's Option::None

\* AgentCall.agent / AgentCall.call fields the tracker reads.
KindFields == [aux: BOOLEAN, sub: BOOLEAN, term: BOOLEAN, start: BOOLEAN, pid: BOOLEAN]

\* A turn id is minted at ingest (current_turn_id) or by build_turn when no
\* override is left; `n' is the call that caused the minting.
TurnIds == [by: {"ingest", "build"}, n: Nat]

ASSUME ConfigAssumption ==
    /\ Sources # {}
    /\ Kinds \subseteq KindFields
    /\ Latencies \subseteq Nat
    /\ MaxTime \in Nat /\ MaxWall \in Nat /\ MaxCalls \in Nat
    /\ Grace \in Nat /\ Idle \in Nat /\ SweepInterval \in Nat
    /\ None \notin Nat /\ None \notin TurnIds

Keys == Sources \X Sessions

BufferedCall == [key: Keys, id: Nat, rt: 0..MaxTime, at: Nat, kind: Kinds]

SessionBuffer ==
    [pending: SUBSET BufferedCall, grace: Nat \cup {None},
     lastFinal: Nat \cup {None}, lastActivity: Nat, turnId: TurnIds \cup {None}]

\* SessionBuffer::default(): also what an absent HashMap entry stands for.
EmptyBuffer ==
    [pending |-> {}, grace |-> None, lastFinal |-> None,
     lastActivity |-> 0, turnId |-> None]

VARIABLES
    buffers,     \* TurnTracker.buffers
    virtualNow,  \* TurnTracker.virtual_now_by_source (0 = never seen)
    lastSweep,   \* TurnTracker.last_sweep_us
    registry,    \* ActiveTraceRegistry: in-progress snapshots
    wall,        \* Instant::now()
    ncalls,      \* calls ingested so far; also the next call's id
    eof,         \* the shard's receiver was closed and flush_all has run
    turns,       \* history: the turns sent to turns_tx
    admitted,    \* history: the calls that were put in a buffer
    epoch        \* history: how often gc has forgotten a session's buffer

vars == <<buffers, virtualNow, lastSweep, registry, wall, ncalls, eof,
          turns, admitted, epoch>>

-----------------------------------------------------------------------------
(* Classification of a call and of a partition.                            *)

\* Main-agent terminal: no sub-agent and is_turn_terminal.
IsTerminal(c) == ~c.kind.sub /\ c.kind.term

\* main_agent_user_turn_start or, as the fallback, partition_has_pid_attribution.
KeepsTurn(c) == ~c.kind.sub /\ (c.kind.start \/ c.kind.pid)

\* The discard rule: a partition is kept iff some main-agent call opens it.
Kept(calls) == \E c \in calls : KeepsTurn(c)

Terminals(pending) == {c \in pending : IsTerminal(c)}

\* Order of the flattened BTreeMap: request_time, then insertion.
Before(c, d) == c.rt < d.rt \/ (c.rt = d.rt /\ c.id < d.id)

\* The first pending terminal in that order.
IsFront(pending, c) ==
    /\ c \in Terminals(pending)
    /\ \A d \in Terminals(pending) : ~Before(d, c)

MaxOf(S) == CHOOSE m \in S : \A x \in S : x =< m

MinOf(S) == CHOOSE m \in S : \A x \in S : m =< x

-----------------------------------------------------------------------------
(* finalize_session as one step: the loop cuts at each distinct terminal    *)
(* request_time, in ascending order, and stops at the first one whose       *)
(* earliest terminal is still inside its grace.                             *)

TerminalTimes(pending) == {c.rt : c \in Terminals(pending)}

\* The first inserted terminal at request_time r has waited for `grace'.
Expired(pending, r, now) ==
    \E c \in Terminals(pending) :
        /\ c.rt = r
        /\ \A d \in Terminals(pending) : d.rt = r => c.id =< d.id
        /\ now - c.at >= Grace

Cuts(pending, now) ==
    {r \in TerminalTimes(pending) :
        \A q \in TerminalTimes(pending) : q =< r => Expired(pending, q, now)}

Partition(pending, cuts, r) ==
    {c \in pending : c.rt =< r /\ \A q \in cuts : q < r => q < c.rt}

\* Deviation: the range removed from the map excludes the terminal's own key.
Remaining_KeepsBoundary(pending, cuts) == {c \in pending : \A q \in cuts : q =< c.rt}

Remaining(pending, cuts) == {c \in pending : \A q \in cuts : q < c.rt}

GraceOf(pending) ==
    IF Terminals(pending) = {} THEN None
    ELSE (CHOOSE c \in pending : IsFront(pending, c)).at

\* Deviation: the grace clock is stopped, not reseated to the next terminal.
FinalizeSession_NoReseat(b, now) ==
    LET cuts == Cuts(b.pending, now)
    IN  [pending |-> Remaining(b.pending, cuts), grace |-> None,
         lastFinal |-> IF cuts = {} THEN b.lastFinal ELSE MaxOf(cuts),
         lastActivity |-> b.lastActivity,
         turnId |-> IF cuts = {} THEN b.turnId ELSE None]

FinalizeSession(b, now) ==
    LET cuts == Cuts(b.pending, now)
        rest == Remaining(b.pending, cuts)
    IN  [pending |-> rest,
         grace |-> GraceOf(rest),
         lastFinal |-> IF cuts = {} THEN b.lastFinal ELSE MaxOf(cuts),
         lastActivity |-> b.lastActivity,
         turnId |-> IF cuts = {} THEN b.turnId ELSE None]

\* build_turn's id: the override when there is one, else a fresh one.
TurnIdFor(override, calls) ==
    IF override # None THEN override
    ELSE [by |-> "build", n |-> MinOf({c.id : c \in calls})]

\* build_turn: status is Complete iff a main-agent terminal is inside.
BuildTurn(k, override, calls, ep) ==
    [key |-> k, id |-> TurnIdFor(override, calls), calls |-> calls,
     complete |-> Terminals(calls) # {}, epoch |-> ep]

\* emit_or_discard: the turn of a partition, or nothing.
EmitOrDiscard(k, override, calls, ep) ==
    IF calls # {} /\ Kept(calls) THEN {BuildTurn(k, override, calls, ep)} ELSE {}

\* The turns finalize_session pushes; only the first gets current_turn_id.
FinalizedTurns(k, b, now, ep) ==
    LET cuts == Cuts(b.pending, now)
    IN  UNION {EmitOrDiscard(k, IF r = MinOf(cuts) THEN b.turnId ELSE None,
                             Partition(b.pending, cuts, r), ep) : r \in cuts}

\* std::mem::take of the pending map by sweep and flush_all.
Drain(b) ==
    IF b.pending = {} THEN b
    ELSE [pending |-> {}, grace |-> None,
          lastFinal |-> MaxOf({c.rt : c \in b.pending}),
          lastActivity |-> b.lastActivity, turnId |-> None]

DrainedTurns(k, b, ep) == EmitOrDiscard(k, b.turnId, b.pending, ep)

-----------------------------------------------------------------------------
(* The three passes over all buffers.                                       *)

\* flush_ready_buffers: which buffers are handed to finalize_session.
Ready(b, now) == b.grace # None /\ now - b.grace >= Grace

Flush(bs, now) ==
    [k \in Keys |-> IF Ready(bs[k], now) THEN FinalizeSession(bs[k], now) ELSE bs[k]]

FlushTurns(bs, now, ep) ==
    UNION {FinalizedTurns(k, bs[k], now, ep[k]) : k \in {j \in Keys : Ready(bs[j], now)}}

\* gc_buffers: a drained buffer long past its own source's idle horizon.
Collectable(b, vn) ==
    /\ b.pending = {}
    /\ b.lastFinal # None
    /\ b.lastActivity < vn - 2 * Idle

GcBuffers(bs, vnow) ==
    [k \in Keys |-> IF Collectable(bs[k], vnow[k[1]]) THEN EmptyBuffer ELSE bs[k]]

GcEpoch(bs, vnow, ep) ==
    [k \in Keys |-> IF Collectable(bs[k], vnow[k[1]]) THEN ep[k] + 1 ELSE ep[k]]

\* sweep: the throttle on the largest watermark, and the idle candidates.
GlobalNow(vnow) == MaxOf({vnow[s] : s \in Sources})

SweepDue(vnow) == GlobalNow(vnow) - lastSweep >= SweepInterval

IsIdle(b, vn) ==
    /\ b.pending # {}
    /\ Terminals(b.pending) = {}
    /\ b.lastActivity < vn - Idle

SweepIdle(bs, vnow) ==
    [k \in Keys |-> IF IsIdle(bs[k], vnow[k[1]]) THEN Drain(bs[k]) ELSE bs[k]]

SweepTurns(bs, vnow, ep) ==
    UNION {DrainedTurns(k, bs[k], ep[k]) : k \in {j \in Keys : IsIdle(bs[j], vnow[j[1]])}}

\* drop_completed_from_registry.
DropCompleted(reg, emitted) == {e \in reg : \A t \in emitted : t.id # e.id}

\* flush_ready_buffers followed by sweep: the tail of every handler of the
\* task loop (ingest then sweep; advance_time does both itself).
FlushThenSweep(bs, reg, vnow) ==
    LET flushed == Flush(bs, wall)
        bs1 == GcBuffers(flushed, vnow)
        ep1 == GcEpoch(flushed, vnow, epoch)
        out1 == FlushTurns(bs, wall, epoch)
        due == SweepDue(vnow)
        swept == SweepIdle(bs1, vnow)
        bs2 == IF due THEN GcBuffers(swept, vnow) ELSE bs1
        ep2 == IF due THEN GcEpoch(swept, vnow, ep1) ELSE ep1
        out2 == IF due THEN SweepTurns(bs1, vnow, ep1) ELSE {}
    IN  /\ buffers' = bs2
        /\ epoch' = ep2
        /\ turns' = turns \cup out1 \cup out2
        /\ registry' = DropCompleted(reg, out1 \cup out2)
        /\ lastSweep' = IF due THEN GlobalNow(vnow) ELSE lastSweep

-----------------------------------------------------------------------------
(* ingest_at.                                                               *)

BumpEventTime(s, ts) ==
    [virtualNow EXCEPT ![s] = IF @ < ts THEN ts ELSE @]

\* Deviation: no orphan guard at ingest.
IsLate_Never(b, rt) == FALSE

IsLate(b, rt) == b.lastFinal # None /\ rt < b.lastFinal

\* Deviation: every terminal restarts the grace clock.
Push_RestartsGrace(b, c, vn) ==
    [pending |-> b.pending \cup {c},
     grace |-> IF IsTerminal(c) THEN c.at ELSE b.grace,
     lastFinal |-> b.lastFinal, lastActivity |-> vn,
     turnId |-> IF b.turnId = None THEN [by |-> "ingest", n |-> c.id] ELSE b.turnId]

\* Deviation: no turn id is minted for a new turn.
Push_NoMint(b, c, vn) ==
    [pending |-> b.pending \cup {c},
     grace |-> IF IsTerminal(c) /\ b.grace = None THEN c.at ELSE b.grace,
     lastFinal |-> b.lastFinal, lastActivity |-> vn, turnId |-> b.turnId]

\* The buffer after the call has been pushed, the grace clock started if the
\* call is the only terminal, and a turn id minted if there is none.
Push(b, c, vn) ==
    [pending |-> b.pending \cup {c},
     grace |-> IF IsTerminal(c) /\ b.grace = None THEN c.at ELSE b.grace,
     lastFinal |-> b.lastFinal,
     lastActivity |-> vn,
     turnId |-> IF b.turnId = None THEN [by |-> "ingest", n |-> c.id] ELSE b.turnId]

\* Calls up to and including the first main-agent terminal.
SnapshotPartition(pending) ==
    {c \in pending : \A t \in Terminals(pending) : ~Before(t, c)}

\* refresh_active_snapshot: upsert under the buffer's turn id, unless the
\* discard rule would drop the partition (then nothing is touched).
RefreshActiveSnapshot(reg, k, b) ==
    LET part == SnapshotPartition(b.pending)
    IN  IF ~Kept(part) THEN reg
        ELSE {e \in reg : e.id # b.turnId}
                \cup {[id |-> b.turnId, key |-> k, calls |-> part]}

\* One TurnShardInput::Call: ingest_at, then sweep.
Ingest(k, kind, rt, ts) ==
    LET vnow == BumpEventTime(k[1], ts)
        c == [key |-> k, id |-> ncalls, rt |-> rt, at |-> wall, kind |-> kind]
        b == Push(buffers[k], c, vnow[k[1]])
        bypass == kind.aux \/ IsLate(buffers[k], rt)
    IN  /\ ~eof
        /\ ncalls < MaxCalls
        /\ virtualNow' = vnow
        /\ ncalls' = ncalls + 1
        /\ admitted' = IF bypass THEN admitted ELSE admitted \cup {c}
        /\ FlushThenSweep(IF bypass THEN buffers ELSE [buffers EXCEPT ![k] = b],
                          IF bypass THEN registry ELSE RefreshActiveSnapshot(registry, k, b),
                          vnow)
        /\ UNCHANGED <<wall, eof>>

\* One TurnShardInput::Heartbeat: advance_time_at.
AdvanceTime(s, ts) ==
    LET vnow == BumpEventTime(s, ts)
    IN  /\ ~eof
        /\ virtualNow' = vnow
        /\ FlushThenSweep(buffers, registry, vnow)
        /\ UNCHANGED <<wall, ncalls, eof, admitted>>

\* The shard's channel is closed: flush_all_at with every terminal forced past
\* its grace, then the non-terminal tails; the task ends.
FlushAll ==
    LET force == wall + Grace + 1
        forced == [k \in Keys |-> FinalizeSession(buffers[k], force)]
        out == UNION {FinalizedTurns(k, buffers[k], force, epoch[k])
                        \cup DrainedTurns(k, forced[k], epoch[k]) : k \in Keys}
    IN  /\ ~eof
        /\ eof' = TRUE
        /\ buffers' = [k \in Keys |-> Drain(forced[k])]
        /\ turns' = turns \cup out
        /\ registry' = DropCompleted(registry, out)
        /\ UNCHANGED <<virtualNow, lastSweep, wall, ncalls, admitted, epoch>>

\* Physical time passes.
Tick ==
    /\ wall < MaxWall
    /\ wall' = wall + 1
    /\ UNCHANGED <<buffers, virtualNow, lastSweep, registry, ncalls, eof,
                   turns, admitted, epoch>>

Init ==
    /\ buffers = [k \in Keys |-> EmptyBuffer]
    /\ virtualNow = [s \in Sources |-> 0]
    /\ lastSweep = 0
    /\ registry = {}
    /\ wall = 0
    /\ ncalls = 0
    /\ eof = FALSE
    /\ turns = {}
    /\ admitted = {}
    /\ epoch = [k \in Keys |-> 0]

\* Bound: a call only arrives while its grace can still run out before MaxWall.
IngestSome ==
    /\ wall + Grace =< MaxWall
    /\ \E k \in Keys, kind \in Kinds, rt \in 0..MaxTime, d \in Latencies :
          rt + d =< MaxTime /\ Ingest(k, kind, rt, rt + d)

Next ==
    \/ IngestSome
    \/ \E s \in Sources, ts \in 0..MaxTime : AdvanceTime(s, ts)
    \/ FlushAll
    \/ Tick

Spec == Init /\ [][Next]_vars

-----------------------------------------------------------------------------
(* Properties.                                                              *)

Turn == [key: Keys, id: TurnIds, calls: SUBSET BufferedCall, complete: BOOLEAN, epoch: Nat]

Snapshot == [id: TurnIds, key: Keys, calls: SUBSET BufferedCall]

\* Every variable has its type.
TypeOK ==
    /\ buffers \in [Keys -> SessionBuffer]
    /\ virtualNow \in [Sources -> 0..MaxTime]
    /\ lastSweep \in Nat
    /\ registry \subseteq Snapshot
    /\ wall \in Nat
    /\ ncalls \in Nat
    /\ eof \in BOOLEAN
    /\ turns \subseteq Turn
    /\ admitted \subseteq BufferedCall
    /\ epoch \in [Keys -> Nat]

OneTurnPerCall ==
    /\ \A t1, t2 \in turns : t1 # t2 => t1.calls \cap t2.calls = {}
    /\ \A t \in turns, k \in Keys : t.calls \cap buffers[k].pending = {}

UserStartNeverLost ==
    \A c \in admitted : KeepsTurn(c) =>
        \/ c \in buffers[c.key].pending
        \/ \E t \in turns : t.key = c.key /\ c \in t.calls

NoStuckBuffer ==
    \A k \in Keys :
        /\ buffers[k].turnId # None => buffers[k].pending # {}
        /\ buffers[k] = EmptyBuffer \/ buffers[k].pending # {} \/ buffers[k].lastFinal # None
        /\ eof => buffers[k].pending = {}

NoDoubleRow ==
    /\ \A t1, t2 \in turns : t1.id = t2.id => t1 = t2
    /\ \A t \in turns, e \in registry : t.id # e.id

SnapshotIsPending ==
    \A e \in registry :
        e.id = buffers[e.key].turnId => e.calls \subseteq buffers[e.key].pending

\* Where a call is, it is once.  No two emitted turns share a call and no
\* emitted call is still buffered (finalize_session and sweep remove exactly
\* what they emit).  A main-agent user turn start, or a call with process
\* attribution, that was admitted is still buffered or part of an emitted turn:
\* the discard rule never hits a partition that holds one.  A turn id is only
\* held while calls are pending, every buffer kept is one gc_buffers can remove
\* later, and flush_all leaves nothing behind.  Turn ids are unique and a turn
\* is never both persisted and in progress, so the API's union of registry and
\* database shows it once; the snapshot of the turn a buffer is assembling only
\* shows calls still pending in it.
CallsAccounted ==
    /\ OneTurnPerCall
    /\ UserStartNeverLost
    /\ NoStuckBuffer
    /\ NoDoubleRow
    /\ SnapshotIsPending

\* All of t1 happens no later than all of t2.
Precedes(t1, t2) == \A c \in t1.calls, d \in t2.calls : c.rt =< d.rt

SessionsOrdered(ts) ==
    \A t1, t2 \in ts :
        t1.key = t2.key /\ t1.epoch = t2.epoch /\ t1 # t2 =>
            Precedes(t1, t2) \/ Precedes(t2, t1)

\* Turns of one session cover consecutive, non-overlapping request_time
\* ranges, whatever the arrival order of the calls: the late guard of
\* ingest_at never lets a call into a range already cut.  The guard is lost
\* when gc_buffers forgets the session, so the claim is per epoch.
TurnsOrdered == SessionsOrdered(turns)

\* The grace clock of a buffer runs iff a main-agent terminal is pending, and
\* it never runs later than the front terminal's own arrival: so the
\* readiness test of flush_ready_buffers never skips a turn whose grace is over.
GraceClockSound ==
    \A k \in Keys :
        LET b == buffers[k]
        IN  /\ b.grace = None <=> Terminals(b.pending) = {}
            /\ \A c \in b.pending : IsFront(b.pending, c) => b.grace =< c.at

\* Outside shutdown a turn is cut only after the first terminal at its last
\* request_time has waited for the whole grace in wall-clock time.
NeverBeforeGrace ==
    \A t \in turns' \ turns :
        t.complete /\ ~eof' =>
            \E c \in t.calls :
                /\ IsTerminal(c)
                /\ \A d \in t.calls : d.rt =< c.rt
                /\ wall - c.at >= Grace

\* When the fastest source's event time moves on by a whole sweep interval, no
\* session of any source that has been idle for longer than the timeout of its own
\* source's time, and holds no terminal, stays buffered: the throttle "only controls
\* how often `sweep' iterates buffers, not correctness".
IdleSweptOnProgress ==
    GlobalNow(virtualNow') - GlobalNow(virtualNow) >= SweepInterval =>
        \A k \in Keys : ~IsIdle(buffers'[k], virtualNow'[k[1]])

\* The two timers of the tracker in one: no step cuts a turn before its grace is
\* over, skips one whose grace is over, or leaves an idle session behind.
TimersSound == [][GraceClockSound /\ NeverBeforeGrace /\ IdleSweptOnProgress]_vars

\* The registry only holds turns that are still being assembled: "every
\* finalize / sweep / flush removes the entry".
RegistryIsInProgress ==
    \A e \in registry : e.id = buffers[e.key].turnId

\* A buffered call at or before a pending terminal leaves the buffer: its
\* turn is emitted or discarded while the stage keeps running.
EventuallyFinalized ==
    \A n \in 0..(MaxCalls - 1), k \in Keys :
        (\E c \in buffers[k].pending :
            c.id = n /\ \E t \in Terminals(buffers[k].pending) : c.rt =< t.rt)
        ~> (\A c \in buffers[k].pending : c.id # n)

=============================================================================
