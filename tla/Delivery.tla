------------------------------ MODULE Delivery ------------------------------
(***************************************************************************)
(* What the pipeline promises of the exchanges a source hands it: each is  *)
(* on its way to every table it is destined for until it is settled there, *)
(* stored or counted as failed, once; only a panicked stage loses it.      *)
(***************************************************************************)
EXTENDS Integers

CONSTANTS Items, Tables, Destined

VARIABLES unread, inFlight, settled, panicked

vars == <<unread, inFlight, settled, panicked>>

Init ==
    /\ unread = Items /\ panicked = FALSE
    /\ inFlight = [t \in Tables |-> {}] /\ settled = [t \in Tables |-> {}]

Capture(i) ==
    /\ i \in unread /\ unread' = unread \ {i}
    /\ inFlight' = [t \in Tables |-> inFlight[t] \cup ({i} \cap Destined[t])]
    /\ UNCHANGED <<settled, panicked>>

Settle(t, batch) ==
    /\ batch \subseteq inFlight[t]
    /\ inFlight' = [inFlight EXCEPT ![t] = @ \ batch]
    /\ settled' = [settled EXCEPT ![t] = @ \cup batch]
    /\ UNCHANGED <<unread, panicked>>

\* A stage panics, or ends because a stage after it did, with what it held.
Lose ==
    /\ panicked' = TRUE
    /\ \A t \in Tables : inFlight'[t] \subseteq inFlight[t]
    /\ UNCHANGED <<unread, settled>>

Next ==
    \/ \E i \in Items : Capture(i)
    \/ \E t \in Tables : \E batch \in SUBSET Items : Settle(t, batch)
    \/ Lose

Spec == Init /\ [][Next]_vars
=============================================================================
