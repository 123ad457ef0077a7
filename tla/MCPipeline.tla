----------------------------- MODULE MCPipeline -----------------------------
(***************************************************************************)
(* An instance of the composition root.  A behaviour exercises one of its  *)
(* parts: the stage network of Pipeline or the process life of Shutdown,   *)
(* which uses of the network what EofCascades shows.                       *)
(***************************************************************************)
EXTENDS Pipeline, Shutdown, TLC

CONSTANTS p1, p2, i1, i2, live, file, stuck, s1, s2

OneSource == [i \in Items |-> p1]

VARIABLE part

mcVars == <<part, vars, processVars>>

\* The part that is not exercised stays as it is.
MCInit == part \in {"network", "process"} /\ Init /\ ProcessInit

MCNext ==
    \/ part = "network" /\ Next /\ UNCHANGED <<part, processVars>>
    \/ part = "process" /\ ProcessNext /\ UNCHANGED <<part, vars>>

\* Fairness and ProcessFairness, each in its part.
MCFairness ==
    /\ WF_mcVars(part = "network" /\ Progress /\ UNCHANGED <<part, processVars>>)
    /\ WF_mcVars(part = "process" /\ Main /\ UNCHANGED <<part, vars>>)
    /\ WF_mcVars(part = "process" /\ Supervise /\ UNCHANGED <<part, vars>>)
    /\ \A s \in Sources :
          WF_mcVars(part = "process" /\ CaptureEnds(s) /\ cancelled /\ UNCHANGED <<part, vars>>)
    /\ \A h \in Stages :
          WF_mcVars(part = "process" /\ StageEnds(h) /\ UNCHANGED <<part, vars>>)

MCSpec == MCInit /\ [][MCNext]_mcVars /\ MCFairness

\* The process comes down when told to, or after a stage panicked, and never claims
\* success after it gave up on a source (run_pipeline, wait_shutdown_signal).
StopsWhenTold ==
    /\ []ProcessTypeOK /\ GivenUpNeverClean /\ ExitsWhenTold /\ PanicStopsCapture
    /\ part = "process" => RepeatedSignalExits
=============================================================================
