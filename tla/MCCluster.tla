----------------------------- MODULE MCCluster -----------------------------
(***************************************************************************)
(* Instances of Cluster for TLC.                                           *)
(***************************************************************************)
EXTENDS Cluster

\* Every host starts drs_syncd without a lock argument.
AllAuto == [n \in Node |-> "AUTO"]

\* The second host starts it with leader.
SecondLocked == [n \in Node |-> IF n = 2 THEN "AS_LEADER" ELSE "AUTO"]

=============================================================================
