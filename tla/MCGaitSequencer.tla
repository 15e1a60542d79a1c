---------------------------- MODULE MCGaitSequencer ----------------------------
(* Every combination of styles, with and without a stop phase.  The ramp is  *)
(* longer than one cycle, the maximal wait longer than the ramp but shorter  *)
(* than a gait period, and the recovery odd, so that its half is no cycle.   *)
EXTENDS GaitSequencer

AllConfigs == [ crouch : {"ramp", "blend_stand", "blend_walk"},
                recover : {"blend", "freeze", "via_crouch"},
                duringCrouch : BOOLEAN, stopPhase : {NoPhase, 0} ]

DefaultConfig == { c \in AllConfigs : /\ c.crouch = "ramp" /\ c.recover = "via_crouch"
                                      /\ ~c.duringCrouch /\ c.stopPhase = NoPhase }
=============================================================================
