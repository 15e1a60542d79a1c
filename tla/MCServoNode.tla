------------------------------ MODULE MCServoNode ------------------------------
(* One joint is enough: the node treats all joints alike and the broadcasts  *)
(* reach all servos at once.  The two poses are outside the envelope but   *)
(* inside the arming tolerance, and at its far end.                     *)
EXTENDS ServoNode, TLC

CONSTANT knee

MCJoints == {knee}
MCLower == (knee :> 0)
MCUpper == (knee :> 3)
MCPoses == [MCJoints -> {-2, 3}]

Still(a) == [attitude |-> a, freefall |-> FALSE]

GoodSamples == {Still("upright"), Still("fallen")}
SamplesAndErrors == GoodSamples \cup {NoSample}
=============================================================================
