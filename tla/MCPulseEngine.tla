---------------------------- MODULE MCPulseEngine ----------------------------
(***************************************************************************)
(* Instances of PulseEngine for TLC.  One unit of time is about 3 ms of a  *)
(* second shortened to 22 units.                                           *)
(***************************************************************************)
EXTENDS PulseEngine

\* Back within a second, and forth by more than one.
PhaseSteps == {-7, 31}

\* The instance is one that the theorems about every second are about.
ASSUME InstanceTuned == Tuned

=============================================================================
