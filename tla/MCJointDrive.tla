------------------------------ MODULE MCJointDrive ------------------------------
EXTENDS JointDrive, TLC

\* hip is called hip_joint by the policy and hip by the calibration.
MCStem == [n \in {"hip_joint", "hip", "knee", "knee_jnt"} |->
             IF n \in {"hip_joint", "hip"} THEN "hip" ELSE "knee"]
NoAliases == [n \in {} |-> n]
MCModel ==
  ("hip_joint" :> [low |-> -4, high |-> 5, nominal |-> 0]) @@
  ("knee" :> [low |-> -6, high |-> 6, nominal |-> 4])

Cal(i, z, d, l, h) == [id |-> i, zero |-> z, direction |-> d, low |-> l, high |-> h]

\* Of these the first three are accepted: centred, each joint as near to one end
\* of the encoder as the seam check admits.  Then: too near, a shared servo, a
\* name that fits twice.
MCFiles ==
  { ("hip" :> Cal(1, 6, 1, -5, 8)) @@ ("knee" :> Cal(2, 6, -1, -3, 5)),
    ("hip" :> Cal(1, 2, 1, -3, 6)) @@ ("knee" :> Cal(2, 9, -1, -5, 3)),
    ("hip" :> Cal(1, 3, -1, -6, 3)) @@ ("knee" :> Cal(2, 8, 1, 1, 7)),
    ("hip" :> Cal(1, 2, 1, -5, 8)) @@ ("knee" :> Cal(2, 9, -1, -5, 3)),
    ("hip" :> Cal(1, 6, 1, -5, 8)) @@ ("knee" :> Cal(1, 6, -1, -3, 5)),
    ("hip" :> Cal(1, 6, 1, -5, 8)) @@ ("knee" :> Cal(2, 6, -1, -3, 5))
      @@ ("hip_joint" :> Cal(3, 6, 1, -5, 8)) }

MCCommands == {-7, 0, 3, 8}
=============================================================================
