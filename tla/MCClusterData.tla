----------------------------- MODULE MCClusterData -----------------------------
(* Small instances of the cluster data for TLC. *)
EXTENDS ClusterData

CONSTANTS a, b, c

OneOwner == [p \in Points |-> a]
TwoOwners == [p \in Points |-> IF p = 1 THEN a ELSE b]

\* The properties say nothing of what follows an overflow, and nothing of what follows
\* both a node's sending points of others again and something that came between.
StillOfUse == ~overrun /\ ~(resent /\ mixed)
===============================================================================
