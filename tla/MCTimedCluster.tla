--------------------------- MODULE MCTimedCluster ---------------------------
(***************************************************************************)
(* Instances of TimedCluster for TLC.  One tick is one heartbeat period.   *)
(***************************************************************************)
EXTENDS TimedCluster

\* Every host starts drs_syncd without a lock argument.
AllAuto == [n \in Node |-> "AUTO"]

=============================================================================
