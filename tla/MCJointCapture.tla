---------------------------- MODULE MCJointCapture ----------------------------
(* A turn of six counts and a shaft that crosses the seam; one joint with two *)
(* limits to reach, one mounted the other way whose maximum is the zero pose. *)
EXTENDS JointCapture

TwoJoints == { [min |-> -2, max |-> 2, direction |-> 1],
               [min |-> -2, max |-> 0, direction |-> -1] }

OneTurnAndAHalf == 0 .. 8
=============================================================================
