------------------------------ MODULE Shutdown ------------------------------
(***************************************************************************)
(* The life of the process: run_pipeline from start to exit, the capture   *)
(* tasks it spawns, the supervisor of the stage tasks, the signals and the *)
(* shutdown timeouts (server/app/heron/src/main.rs, pipeline.rs).          *)
(*                                                                         *)
(* The stages are their join handles.  That a stage ends once the sources  *)
(* are gone, or after another one panicked, is what Pipeline!EofCascades   *)
(* shows.                                                                  *)
(***************************************************************************)
EXTENDS Integers, FiniteSets

CONSTANTS
    Sources,
    Endless,    \* live sources: they end only when cancelled
    Blocking,   \* sources that read on a blocking thread
    Stuck,      \* those of them whose thread ignores cancellation
    Stages,     \* stage handles; the pair sweeper's is apart
    MaxCrashes,  \* bound: panics and stages that hang
    ExitAfterDrain

ASSUME ShutdownAssumption ==
    /\ Endless \subseteq Sources /\ Blocking \subseteq Sources /\ Stuck \subseteq Blocking
    /\ MaxCrashes \in Nat /\ ExitAfterDrain \in BOOLEAN

VARIABLES
    main,       \* where run_pipeline is
    source,    \* idle, running, done, or detached: aborted, its thread lives on
    stage,      \* of each stage handle: running, hung, ended, panicked
    sweeper,    \* the pair sweeper's: running or panicked
    supervisor, \* waiting, or what supervise returned: none, some
    api,        \* the API server: off, up or down
    cancelled,  \* the cancellation token
    force,      \* force_exit
    drained,    \* the flag of /api/health
    crashes     \* faults so far

tasks == <<source, stage, sweeper, supervisor, api>>
processVars == <<main, source, stage, sweeper, supervisor, api, cancelled, force, drained, crashes>>

Exited == main \in {"stopped", "forced"}
TaskFault == crashes < MaxCrashes /\ crashes' = crashes + 1

-----------------------------------------------------------------------------
(* run_pipeline.                                                            *)

\* Configuration, storage, API port: any of them can fail and exit with 1.  Then the
\* tasks are spawned, or, without a source, only the API server.
Start ==
    /\ main = "start"
    /\ \/ main' = "forced" /\ UNCHANGED tasks
       \/ /\ main' = IF Sources = {} THEN "idle" ELSE "select"
          /\ source' = [s \in Sources |-> "running"] /\ api' = "up"
          /\ UNCHANGED <<stage, sweeper, supervisor>>
    /\ UNCHANGED <<cancelled, force, drained, crashes>>

\* A signal; outside the three waits nobody listens and it is lost.
Signal ==
    /\ main \in {"select", "parked", "idle"}
    /\ main' = IF main = "select" THEN "captures" ELSE "exit"
    /\ cancelled' = TRUE
    /\ UNCHANGED tasks /\ UNCHANGED <<force, drained, crashes>>

SourcesDone == \A s \in Sources : source[s] = "done"

\* The other arms of the select!: the end of the sources, the supervisor.
Select ==
    /\ main = "select" /\ main' = "captures"
    /\ SourcesDone \/ supervisor # "waiting"
    /\ UNCHANGED tasks /\ UNCHANGED <<cancelled, force, drained, crashes>>

\* Deviation: no timeout on the sources.
JoinCaptures_NoTimeout ==
    /\ main = "captures" /\ main' = "drain"
    /\ SourcesDone
    /\ UNCHANGED tasks /\ UNCHANGED <<cancelled, force, drained, crashes>>

\* The sources are waited for, or aborted when CAPTURE_SHUTDOWN_TIMEOUT is over;
\* that does not end a blocking thread, which keeps its sender.
JoinCaptures ==
    /\ main = "captures" /\ main' = "drain"
    /\ \/ SourcesDone /\ UNCHANGED <<source, force>>
       \/ /\ ~SourcesDone
          /\ source' = [s \in Sources |->
                            IF source[s] = "running" /\ s \in Blocking THEN "detached" ELSE "done"]
          /\ force' = TRUE
    /\ UNCHANGED <<stage, sweeper, supervisor, api, cancelled, drained, crashes>>

\* The supervisor is waited for until PIPELINE_DRAIN_TIMEOUT; then the process
\* parks with the API up, unless a signal fired or it was told to exit.
Drain ==
    /\ main = "drain"
    /\ force' = (force \/ supervisor = "waiting")
    /\ drained' = (drained \/ ~cancelled)
    /\ cancelled' = (cancelled \/ ExitAfterDrain)
    /\ main' = IF cancelled' THEN "exit" ELSE "parked"
    /\ UNCHANGED tasks /\ UNCHANGED crashes

\* A forced exit; or the API server and the retention tasks are joined, each with a
\* timeout that forces the exit.
Exit ==
    /\ main = "exit"
    /\ \/ ~force /\ api # "up" /\ main' = "stopped"
       \/ force /\ main' = "forced"
       \/ ~force /\ main' = "forced"
    /\ UNCHANGED tasks /\ UNCHANGED <<cancelled, force, drained, crashes>>

Main == Start \/ Select \/ JoinCaptures \/ Drain \/ Exit

-----------------------------------------------------------------------------
(* The spawned tasks.                                                       *)

\* A source ends: a file by itself, any but a stuck one when cancelled, and a send
\* into a pipeline that is gone fails.
CaptureEnds(s) ==
    /\ ~Exited /\ source[s] \in {"running", "detached"}
    /\ \/ s \notin Endless
       \/ cancelled /\ s \notin Stuck
       \/ \E h \in Stages : stage[h] = "panicked"
    /\ source' = [source EXCEPT ![s] = "done"]
    /\ UNCHANGED <<main, stage, sweeper, supervisor, api, cancelled, force, drained, crashes>>

\* EOF, or the loss of a neighbour, reaches a stage.
StageEnds(h) ==
    /\ ~Exited /\ main # "start" /\ stage[h] = "running"
    /\ SourcesDone \/ \E g \in Stages : stage[g] = "panicked"
    /\ stage' = [stage EXCEPT ![h] = "ended"]
    /\ UNCHANGED <<main, source, sweeper, supervisor, api, cancelled, force, drained, crashes>>

\* A stage panics, or hangs in a backend call.
StageFails(h) ==
    /\ ~Exited /\ main # "start" /\ stage[h] = "running" /\ TaskFault
    /\ \E how \in {"hung", "panicked"} : stage' = [stage EXCEPT ![h] = how]
    /\ UNCHANGED <<main, source, sweeper, supervisor, api, cancelled, force, drained>>

SweeperPanics ==
    /\ ~Exited /\ main # "start" /\ sweeper = "running" /\ TaskFault /\ sweeper' = "panicked"
    /\ UNCHANGED <<main, source, stage, supervisor, api, cancelled, force, drained>>

StageFailed == sweeper = "panicked" \/ \E h \in Stages : stage[h] = "panicked"

AllJoined == sweeper # "running" /\ \A h \in Stages : stage[h] \in {"ended", "panicked"}

\* supervise: the first handle that joins with an error, or none when all have
\* joined, the endless sweeper's too.
Supervise ==
    /\ ~Exited /\ supervisor = "waiting"
    /\ StageFailed \/ AllJoined
    /\ supervisor' = IF StageFailed THEN "some" ELSE "none"
    /\ UNCHANGED <<main, source, stage, sweeper, api, cancelled, force, drained, crashes>>

\* axum's graceful shutdown: the last open request may take its time.
ApiStops ==
    /\ ~Exited /\ api = "up" /\ cancelled /\ api' = "down"
    /\ UNCHANGED <<main, source, stage, sweeper, supervisor, cancelled, force, drained, crashes>>

-----------------------------------------------------------------------------

ProcessInit ==
    /\ main = "start" /\ source = [s \in Sources |-> "idle"]
    /\ stage = [h \in Stages |-> "running"] /\ sweeper = "running"
    /\ supervisor = "waiting" /\ api = "off"
    /\ cancelled = FALSE /\ force = FALSE /\ drained = FALSE /\ crashes = 0

ProcessNext ==
    \/ Main \/ Signal
    \/ \E s \in Sources : CaptureEnds(s)
    \/ \E h \in Stages : StageEnds(h) \/ StageFails(h)
    \/ SweeperPanics \/ Supervise \/ ApiStops

\* Timers fire and runnable tasks are polled.  Nothing makes a source end that is
\* not cancelled, nobody need send a signal, no fault need come.
ProcessFairness ==
    /\ WF_processVars(Main) /\ WF_processVars(Supervise)
    /\ \A s \in Sources : WF_processVars(CaptureEnds(s) /\ cancelled)
    /\ \A h \in Stages : WF_processVars(StageEnds(h))

ProcessSpec == ProcessInit /\ [][ProcessNext]_processVars /\ ProcessFairness

-----------------------------------------------------------------------------
(* Properties.                                                              *)

\* Type invariant.
ProcessTypeOK ==
    /\ main \in {"start", "select", "captures", "drain", "parked", "idle", "exit",
                 "stopped", "forced"}
    /\ source \in [Sources -> {"idle", "running", "done", "detached"}]
    /\ stage \in [Stages -> {"running", "hung", "ended", "panicked"}]
    /\ sweeper \in {"running", "panicked"} /\ supervisor \in {"waiting", "none", "some"}
    /\ api \in {"off", "up", "down"}
    /\ cancelled \in BOOLEAN /\ force \in BOOLEAN /\ drained \in BOOLEAN
    /\ crashes \in 0..MaxCrashes

\* The exit code tells the truth about the sources: a process that gave up on one,
\* and so lost its last packets, never exits with 0, even when the thread ends
\* later, while the process is parked (JoinCaptures, force_exit).
GivenUpNeverClean ==
    []((\E s \in Sources : source[s] = "detached") => [](main # "stopped"))

\* A process told to stop does, also when a capture thread, a backend call, a
\* request or a stage never returns.
ExitsWhenTold == cancelled ~> Exited

\* A signal is only ever lost while the process is on its way through the bounded
\* waits: with signals repeated it exits from every state.
RepeatedSignalExits == WF_processVars(Signal) => <>Exited

\* A stage that panics stops the capture it fed, which nothing reads any more, even
\* when the source is live and nobody sends a signal.
PanicStopsCapture ==
    (\E h \in Stages : stage[h] = "panicked") ~>
        (\A s \in Sources : source[s] # "running") \/ Exited
=============================================================================
