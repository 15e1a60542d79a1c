-------------------------------- MODULE JointDrive --------------------------------
(***************************************************************************)
(* One joint from the policy's target to its shaft: servo_node.py reads    *)
(* the encoder and writes goals through JointMap, safety.py (SafetyRules)  *)
(* decides on them, and the servo turns the shaft from the count it reads  *)
(* to the count it is given, along the counts between: it does not know    *)
(* that the encoder wraps.                                                 *)
(*                                                                         *)
(* A shaft is the count its encoder would show if it did not wrap: zero on *)
(* the joint's own turn is the calibrated zero_raw.  The joint that is     *)
(* followed and the calibration file are any; the node treats joints alike.*)
(***************************************************************************)
EXTENDS JointMap

CONSTANTS
  Files,             \* the calibration files that may be found at the start
  Commands,          \* targets the policy sends
  HandRange,         \* how far from its zero a limp joint may be turned, in counts
  ArmTolerance, RampTicks, RampStep, RunStep, FallPersist, FreefallPersist,
  MaxReadFailures, CommandTimeout, StallError, StallPersist,
  NoTarget           \* None, of SafetyRules; also: nothing was read yet

ASSUME DriveAssumption ==
  /\ \A f \in Files : f \in [DOMAIN f -> Calibrations]
  /\ Commands \subseteq Int
  /\ HandRange \in Nat
  /\ 2 * HandRange < Cpr
  /\ {ArmTolerance, RampStep, RunStep, StallError, StallPersist} \subseteq Nat
  /\ RampTicks \in Nat \ {0}
  /\ NoTarget \notin Int
  /\ \A p \in PolicyNames : NoTarget \notin [{p} -> Int]

VARIABLES
  file, joint,       \* the calibration in force and the joint that is followed
  sup,               \* the supervisor, its vectors reduced to that joint
  positions,         \* _positions: the angle of the last whole read
  shaft,             \* where the joint really is
  goal, torque,      \* registers of its servo
  near               \* the joint was armed from within the seam margin

vars == <<file, joint, sup, positions, shaft, goal, torque, near>>

cal == file[NameMap(DOMAIN file)[joint]]
trained == Model[joint]

Only(angle) == [j \in {joint} |-> angle]

R == INSTANCE SafetyRules WITH
       Joints <- {joint},
       Lower <- Only(SafeLow(cal, trained)),
       Upper <- Only(SafeHigh(cal, trained))

-----------------------------------------------------------------------------
\* The node starts only on a file its JointMap accepts and whose joints keep
\* clear of the seam.
Init ==
  /\ file \in {f \in Files : Constructs(f)}
  /\ \A p \in PolicyNames : SeamFree(file[NameMap(DOMAIN file)[p]], Model[p])
  /\ joint \in PolicyNames
  /\ sup = R!InitSupervisor
  /\ positions = NoTarget
  /\ shaft \in {cal.zero + d : d \in -HandRange .. HandRange}
  /\ goal \in {0, Cpr - 1}
  /\ torque = FALSE
  /\ near = FALSE

Reading == shaft % Cpr

RealAngle == cal.direction * (shaft - cal.zero) * Sub

\* A limp joint is moved by hand.
MovedByHand ==
  /\ ~torque
  /\ shaft' \in {cal.zero + d : d \in -HandRange .. HandRange}
  /\ UNCHANGED <<file, joint, sup, positions, goal, torque, near>>

\* A powered servo turns towards its goal.
Turns ==
  /\ torque /\ goal # Reading
  /\ shaft' = shaft + (IF goal > Reading THEN 1 ELSE -1)
  /\ UNCHANGED <<file, joint, sup, positions, goal, torque, near>>

\* _srv_arm: preflight on the last positions, which are then parked as the goal.
ArmService ==
  /\ positions # NoTarget
  /\ ~R!Faulted(sup)
  /\ R!PreflightOk(Only(positions), "upright", TRUE)
  /\ sup' = R!Arm(sup, Only(positions))
  /\ goal' = RadToCounts(cal, positions)
  /\ torque' = TRUE
  /\ near' = \A angle \in {positions, RealAngle} :
               R!Excursion(Only(angle), joint) <= SeamMargin * Sub
  /\ UNCHANGED <<file, joint, positions, shaft>>

DisarmService ==
  /\ sup' = R!Disarm(sup)
  /\ torque' = FALSE
  /\ UNCHANGED <<file, joint, positions, shaft, goal, near>>

\* A cycle in which a monitor trips, the tracking monitor or another one.
CycleFaults(readOk) ==
  /\ ~R!Faulted(sup)
  /\ \/ sup' = R!Trip(sup, "FALL")
     \/ readOk /\ sup' = R!CheckTracking(sup, Only(positions')) /\ R!Faulted(sup')
  /\ torque' = FALSE
  /\ UNCHANGED goal

\* A cycle that writes a shaped command.
CycleDrives(readOk) ==
  LET tracked == IF readOk THEN R!CheckTracking(sup, Only(positions')) ELSE sup
  IN  /\ R!MayShape(tracked)
      /\ \E q \in Commands :
           /\ sup' = R!Shape(tracked, Only(q))
           /\ goal' = RadToCounts(cal, sup'.lastTarget[joint])
      /\ UNCHANGED torque

\* A cycle that writes nothing: the joint is not armed, or no command came yet.
CycleIdles(readOk) ==
  LET tracked == IF readOk THEN R!CheckTracking(sup, Only(positions')) ELSE sup
  IN  /\ R!Faulted(tracked) => R!Faulted(sup)
      /\ sup' = tracked
      /\ UNCHANGED <<goal, torque>>

\* _control_cycle; a read the bus does not complete leaves the positions.
ControlCycle ==
  /\ \E readOk \in BOOLEAN :
       /\ positions' = IF readOk THEN CountsToRad(cal, Reading) ELSE positions
       /\ CycleFaults(readOk) \/ CycleDrives(readOk) \/ CycleIdles(readOk)
  /\ UNCHANGED <<file, joint, shaft, near>>

Next == MovedByHand \/ Turns \/ ArmService \/ DisarmService \/ ControlCycle

Spec == Init /\ [][Next]_vars

-----------------------------------------------------------------------------
(* Properties.                                                             *)

\* The supervisor's record, for one joint; the ranges of its counters are
\* SafetySupervisor's subject.
Supervisors ==
  [ state      : R!States,
    fault      : R!FaultCodes \cup {"none"},
    lastTarget : [{joint} -> Int] \cup {NoTarget},
    rampStart  : [{joint} -> Int] \cup {NoTarget},
    elapsed    : Nat,
    tilt : Nat, freefall : Nat, readFail : Nat,
    stall      : [{joint} -> Nat] ]

TypeOK ==
  /\ file \in Files /\ joint \in PolicyNames
  /\ sup \in Supervisors
  /\ positions \in Int \cup {NoTarget}
  /\ shaft \in Int
  /\ goal \in 0 .. Cpr - 1
  /\ torque \in BOOLEAN /\ near \in BOOLEAN

\* Where a powered servo comes to rest is where it was told to go, on the same
\* turn: it never sets out the long way round.  This needs that the joint was
\* armed from no further outside its envelope than the seam margin
\* (seam_violations), which is less than arming tolerates.
GoesWhereTold ==
  (torque /\ near) =>
    shaft + (goal - Reading) = ToldCount(cal, sup.lastTarget[joint])

\* At full rate no command is within the limit margin of a measured stop, nor
\* beyond a limit of the model, unless the nominal pose itself is, and then it
\* goes no further than that.
KeepsOffTheStops ==
  sup.state = "running" =>
    LET target == sup.lastTarget[joint]
    IN  /\ target >= Least(cal.low + LimitMargin, trained.nominal)
        /\ target >= Least(trained.low, trained.nominal)
        /\ target <= Greatest(cal.high - LimitMargin, trained.nominal)
        /\ target <= Greatest(trained.high, trained.nominal)

\* safety.py: starting a little outside the envelope is safe, as the ramp pulls
\* the joint inward.  Here, for a joint that rests at its goal: the next goal of
\* the ramp is reached by turning straight to where the supervisor wants it.
RampPullsInward ==
  [][ (torque /\ torque' /\ goal = Reading /\ sup.state = "ramping" /\ goal' # goal)
        => shaft' + (goal' - Reading') = ToldCount(cal, sup'.lastTarget[joint]) ]_vars

=============================================================================
