------------------------------ MODULE MCSeqlock ------------------------------
(***************************************************************************)
(* The seqlock with the readers the system has: the pulse thread on the    *)
(* writer's core, the monitor and the agent on other cores.                *)
(***************************************************************************)
EXTENDS Seqlock

CONSTANTS pulse, drs_mon, agent

NoOne == {}
PulseThread == {pulse}
Monitor == {drs_mon}
PulseAndMonitor == {pulse, drs_mon}
HttpAgent == {agent}
=============================================================================
