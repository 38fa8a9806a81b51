--------------------------- MODULE MCRingLeader ---------------------------
(* Model-checking instance of RingLeader: two replicas and three token    *)
(* values, so either replica may own the leader key and a restarted        *)
(* replica could pick a token of the other; one crash or shutdown, so that *)
(* the key owner can die and stay dead while the other replica survives.   *)
(* Three replicas exceed the time budget of a run (about 5 minutes).       *)
EXTENDS RingLeader, TLC

CONSTANTS r1, r2

MCReplicas == {r1, r2}
MCTokens == {1, 2, 3}
MCMaxCrashes == 1

ASSUME MCMaxCrashes < Cardinality(MCReplicas)
=============================================================================
