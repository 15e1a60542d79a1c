----------------------------- MODULE MCWalkProcess -----------------------------
(* As in walk.yaml the whole walk lasts longer than the grace period; with a  *)
(* stop phase the hand-back takes as long as it ever does.                    *)
EXTENDS WalkProcess

PhasedStyle == [ crouch |-> "ramp", recover |-> "via_crouch",
                 duringCrouch |-> FALSE, stopPhase |-> 0 ]
=============================================================================
