------------------------- MODULE MCScheduledReboot -------------------------
(* Instances of ScheduledReboot for TLC.                                   *)
EXTENDS ScheduledReboot, TLC

CONSTANTS r1, r2
=============================================================================
