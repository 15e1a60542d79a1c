-------------------------- MODULE MCSafetySupervisor --------------------------
(* Two joints with envelopes of different width; every threshold at least   *)
(* two, so that counters can be reset half-way; the arming tolerance wider  *)
(* than a ramp step, as 5 degrees is wider than 1 rad/s over one cycle.     *)
EXTENDS SafetySupervisor, TLC

CONSTANTS knee, hip

MCJoints == {knee, hip}
MCLower == (knee :> 0) @@ (hip :> 0)
MCUpper == (knee :> 4) @@ (hip :> 3)
MCArguments == [MCJoints -> {-2, 0, 3, 5}]
=============================================================================
