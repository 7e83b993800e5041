---------------------------- MODULE MCEngineShutdown ----------------------------
EXTENDS EngineShutdown

AtWork == {e \in Engines : records[e] > 0 \/ caller[e] # "away"}

(* A bound: the host ends none of two engines that are both at work; the    *)
(* unload finds them so.  It cuts no step that is assumed to be fair: an    *)
(* engine's life changes only as its host wants.                            *)
TwoAtWorkLive == Cardinality(AtWork) <= 1 \/ \A e \in Engines : host[e] = "live"
=============================================================================
