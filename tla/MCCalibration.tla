----------------------------- MODULE MCCalibration -----------------------------
(* Two joints; a configuration, the same reordered, and one that gives the   *)
(* first joint another setting.                                              *)
EXTENDS Calibration, TLC

Item(j, s) == [joint |-> j, setting |-> s]

ThreeConfigs == { << Item("hip", "a"), Item("knee", "a") >>,
                  << Item("knee", "a"), Item("hip", "a") >>,
                  << Item("hip", "b"), Item("knee", "a") >> }

Terminals == Permutations(Sessions)
=============================================================================
