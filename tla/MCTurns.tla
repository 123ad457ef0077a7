------------------------------ MODULE MCTurns ------------------------------
(***************************************************************************)
(* The turns, from calls to rows: a behaviour exercises the tracker or the *)
(* store, and the other one is idle.                                       *)
(***************************************************************************)
EXTENDS TurnTracker, TurnStore

-----------------------------------------------------------------------------
(* The tracker.  Half of the behaviours take every call classification and  *)
(* no fairness; in the other half the stage keeps running, with fewer calls. *)

Plain == [aux |-> FALSE, sub |-> FALSE, term |-> FALSE, start |-> FALSE, pid |-> FALSE]

\* A main-agent call that opens a turn, one that ends it, one that does both,
\* a tool round trip, a sub-agent call that looks like both, a terminal call
\* with process attribution, and an auxiliary one-shot.
StartCall == [Plain EXCEPT !.start = TRUE]
EndCall == [Plain EXCEPT !.term = TRUE]
StartEndCall == [Plain EXCEPT !.start = TRUE, !.term = TRUE]
SubCall == [Plain EXCEPT !.sub = TRUE, !.start = TRUE, !.term = TRUE]
AuxCall == [Plain EXCEPT !.aux = TRUE]

\* Without the kinds that differ from another one only in how they are counted.
ReorderKinds == {StartCall, EndCall, StartEndCall, SubCall, AuxCall}

\* A turn's opening call, its terminal call and a sub-agent call.
LiveKinds == {StartCall, EndCall, SubCall}
LiveCalls == 2

VARIABLE live

mcVars == <<live, vars>>

MCInit == Init /\ live \in BOOLEAN

MCNext ==
    /\ Next
    /\ live => ncalls' =< LiveCalls /\ \A c \in admitted' : c.kind \in LiveKinds
    /\ UNCHANGED live

\* The task loop keeps receiving: time passes, and every source's heartbeats
\* keep coming (packets keep flowing), which is what drives grace expiry.
MCFairness ==
    /\ WF_mcVars(live /\ Tick /\ UNCHANGED live)
    /\ \A s \in Sources : WF_mcVars(live /\ AdvanceTime(s, MaxTime) /\ UNCHANGED live)

MCSpec == MCInit /\ [][MCNext]_mcVars /\ MCFairness

\* While the stage keeps running, a buffered call at or before a pending
\* terminal leaves the buffer: its turn is emitted or discarded once its grace
\* is over (flush_ready_buffers, driven by heartbeats).
KeepsFinalizing == live => EventuallyFinalized

-----------------------------------------------------------------------------
(* The store.  One logical call seen three times, from the host, from a     *)
(* container and on the proxy's hop inside it, and a later call of the same  *)
(* session from the host that starts within the chain.  A unit is 250 us.   *)

MCStart == <<4, 5, 12, 20>>
MCEnd == <<60, 61, 40, 70>>
MCView == <<"host", "docker", "upstream", "host">>
MCPrint == <<"a", "a", "a", "a">>

-----------------------------------------------------------------------------
VARIABLE part

TurnsInit ==
    /\ part \in {"tracker", "store"}
    /\ MCInit /\ (part = "store" => ~live) /\ StoreInit

TurnsNext ==
    \/ part = "tracker" /\ MCNext /\ UNCHANGED <<part, storeVars>>
    \/ part = "store" /\ StoreNext /\ UNCHANGED <<part, mcVars>>

TurnsSpec == TurnsInit /\ [][TurnsNext]_<<part, mcVars, storeVars>> /\ MCFairness /\ StoreFairness

=============================================================================
