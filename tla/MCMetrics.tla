----------------------------- MODULE MCMetrics -----------------------------
(***************************************************************************)
(* Two shards and two calls.  The first call's response names another      *)
(* model than its request, so its Start and its Complete go to different   *)
(* shards.                                                                 *)
(***************************************************************************)
EXTENDS Metrics, TLC

CONSTANTS c1, c2, m1, m2, k1, k2

MCRequested == c1 :> m1 @@ c2 :> m1
MCAnswered == c1 :> m2 @@ c2 :> m1
MCShardOf == m1 :> k1 @@ m2 :> k2
MCSurface == c1 :> "bash" @@ c2 :> "bash"
MCNoSurface == c1 :> None @@ c2 :> None

=============================================================================
