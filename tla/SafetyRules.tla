------------------------------ MODULE SafetyRules ------------------------------
(***************************************************************************)
(* The decisions of humanoid_deploy/safety.py, one operator per method of  *)
(* SafetySupervisor.  Each operator maps the supervisor's state, a record, *)
(* to its next state, so that a caller which makes several calls in one    *)
(* callback (servo_node.py does) composes them into one atomic step.       *)
(*                                                                         *)
(* Units.  Angles are integers, in a unit fine enough for the limits in    *)
(* use; time is counted in control cycles, since every call passes the     *)
(* nominal control period as dt.  Thresholds are constants in those units. *)
(***************************************************************************)
EXTENDS Integers

CONSTANTS
  Joints,             \* the joints of the policy (joint_map.names)
  Lower, Upper,       \* safe envelope of each joint (safe_lower, safe_upper)
  ArmTolerance,       \* arm_pose_tolerance_rad
  RampTicks,          \* ramp_s, in control cycles
  RampStep,           \* ramp_joint_rate * dt
  RunStep,            \* max_joint_rate * dt
  FallPersist,        \* fall_persist_cycles
  FreefallPersist,    \* freefall_persist_cycles
  MaxReadFailures,    \* max_consecutive_read_failures
  CommandTimeout,     \* command_timeout_s, in control cycles
  StallError,         \* stall_error_rad
  StallPersist,       \* stall_persist_s, in control cycles
  NoTarget            \* Python's None, for _last_target and _ramp_start

Angles == [Joints -> Int]

ASSUME EnvelopeAssumption ==
  /\ Lower \in Angles
  /\ Upper \in Angles
  /\ \A j \in Joints : Lower[j] < Upper[j]   \* JointMap refuses an empty range

ASSUME ThresholdAssumption ==
  /\ ArmTolerance \in Nat
  /\ RampTicks \in Nat \ {0}
  /\ RampStep \in Nat
  /\ RunStep \in Nat
  /\ FallPersist \in Nat \ {0}
  /\ FreefallPersist \in Nat \ {0}
  /\ MaxReadFailures \in Nat \ {0}
  /\ CommandTimeout \in Nat
  /\ StallError \in Nat
  /\ StallPersist \in Nat \ {0}

ASSUME NoTargetAssumption == NoTarget \notin Angles

States == {"disarmed", "ramping", "running", "fault"}

HealthFaults ==
  {"FALL", "FREEFALL", "BUS_LOST", "COMMAND_STALE", "OVERTEMP", "UNDERVOLT"}

FaultCodes == HealthFaults \cup {"STALL", "ESTOP", "WRITE_REJECTED"}

\* How far the IMU sees the robot from upright: within arm_tilt_deg, beyond
\* it, or beyond fall_tilt_deg.
Attitudes == {"upright", "leaning", "fallen"}

-----------------------------------------------------------------------------
(* The supervisor's attributes, and their initial values.                  *)

Supervisors ==
  [ state      : States,
    fault      : FaultCodes \cup {"none"},
    lastTarget : Angles \cup {NoTarget},
    rampStart  : Angles \cup {NoTarget},
    elapsed    : 0 .. RampTicks,
    tilt       : 0 .. FallPersist,
    freefall   : 0 .. FreefallPersist,
    readFail   : 0 .. MaxReadFailures,
    stall      : [Joints -> 0 .. StallPersist] ]

NoStall == [j \in Joints |-> 0]

InitSupervisor ==
  [ state |-> "disarmed", fault |-> "none",
    lastTarget |-> NoTarget, rampStart |-> NoTarget, elapsed |-> 0,
    tilt |-> 0, freefall |-> 0, readFail |-> 0, stall |-> NoStall ]

Faulted(s) == s.state = "fault"

\* trip(): latch a fault; the first cause is the one kept.
Trip(s, code) ==
  IF Faulted(s) THEN s ELSE [s EXCEPT !.state = "fault", !.fault = code]

-----------------------------------------------------------------------------
(* Preflight, arm and disarm.                                              *)

Excursion(q, j) ==
  IF q[j] < Lower[j] THEN Lower[j] - q[j]
  ELSE IF q[j] > Upper[j] THEN q[j] - Upper[j] ELSE 0

InEnvelope(q) == \A j \in Joints : Lower[j] <= q[j] /\ q[j] <= Upper[j]

NearEnvelope(q) == \A j \in Joints : Excursion(q, j) <= ArmTolerance

\* preflight(): the seam check, uprightness, the start pose, and whether the
\* observation looks like training data.  The seam and the observation are
\* computed elsewhere; here they are one flag each.
PreflightOk(measured, attitude, inDistribution) ==
  /\ attitude = "upright"
  /\ NearEnvelope(measured)
  /\ inDistribution

\* Faulty variants of Arm: it goes straight to full rate, or it keeps the target
\* the robot had when it is armed again.
ArmAtFullRate(s, measured) ==
  [ state |-> "running", fault |-> s.fault,
    lastTarget |-> measured, rampStart |-> measured, elapsed |-> RampTicks,
    tilt |-> 0, freefall |-> 0, readFail |-> 0, stall |-> NoStall ]

ArmKeepsTarget(s, measured) ==
  [ state |-> "ramping", fault |-> s.fault,
    lastTarget |-> IF s.lastTarget = NoTarget THEN measured ELSE s.lastTarget,
    rampStart |-> measured, elapsed |-> 0,
    tilt |-> 0, freefall |-> 0, readFail |-> 0, stall |-> NoStall ]

\* arm(), once preflight has passed: every attribute but the fault is reset.
Arm(s, measured) ==
  [ state |-> "ramping", fault |-> s.fault,
    lastTarget |-> measured, rampStart |-> measured, elapsed |-> 0,
    tilt |-> 0, freefall |-> 0, readFail |-> 0, stall |-> NoStall ]

Disarm(s) ==
  [ s EXCEPT !.state = IF Faulted(s) THEN "fault" ELSE "disarmed",
             !.lastTarget = NoTarget, !.rampStart = NoTarget ]

-----------------------------------------------------------------------------
(* The per-cycle monitors.  A health sample h is what one call is given:   *)
(* [attitude, freefall, readOk, age, hot, low], age the age of the latest  *)
(* policy command in cycles.                                               *)

Strikes(bad, n) == IF bad THEN n + 1 ELSE 0

\* Faulty variants of CheckHealth: a monitor that needs one strike too many,
\* one that watches for a fall only at full rate, and one that checks the
\* command's age in the wrong state.
TripLate(s, h) ==
  LET s1 == [s EXCEPT !.tilt = Strikes(h.attitude = "fallen", s.tilt)]
  IN  IF Faulted(s) THEN s
      ELSE IF s1.tilt > FallPersist THEN Trip(s1, "FALL") ELSE s1

FallOnlyWhenRunning(s, h) ==
  LET s1 == [s EXCEPT !.tilt = Strikes(h.attitude = "fallen" /\ s.state = "running", s.tilt)]
  IN  IF Faulted(s) THEN s
      ELSE IF s1.tilt >= FallPersist THEN Trip(s1, "FALL") ELSE s1

StaleOnlyWhenRamping(s, h) ==
  IF Faulted(s) THEN s
  ELSE IF s.state = "ramping" /\ h.age > CommandTimeout THEN Trip(s, "COMMAND_STALE")
  ELSE s

\* The monitors run in a fixed order and the first that trips ends the call,
\* leaving the counters of the later ones as they were.
CheckHealth(s, h) ==
  LET s1 == [s EXCEPT !.tilt = Strikes(h.attitude = "fallen", s.tilt)]
      s2 == [s1 EXCEPT !.freefall = Strikes(h.freefall, s.freefall)]
      s3 == [s2 EXCEPT !.readFail = Strikes(~h.readOk, s.readFail)]
  IN  IF Faulted(s) THEN s
      ELSE IF s1.tilt >= FallPersist THEN Trip(s1, "FALL")
      ELSE IF s2.freefall >= FreefallPersist THEN Trip(s2, "FREEFALL")
      ELSE IF s3.readFail >= MaxReadFailures THEN Trip(s3, "BUS_LOST")
      ELSE IF s.state = "running" /\ h.age > CommandTimeout
             THEN Trip(s3, "COMMAND_STALE")
      ELSE IF h.hot THEN Trip(s3, "OVERTEMP")
      ELSE IF h.low THEN Trip(s3, "UNDERVOLT")
      ELSE s3

Apart(a, b) == IF a < b THEN b - a ELSE a - b

Larger(a, b) == IF a < b THEN b ELSE a

CheckTracking(s, measured) ==
  LET stall == [j \in Joints |->
                  Strikes(Apart(measured[j], s.lastTarget[j]) > StallError, s.stall[j])]
      s1    == [s EXCEPT !.stall = stall]
  IN  IF s.state # "running" THEN [s EXCEPT !.stall = NoStall]
      ELSE IF s.lastTarget = NoTarget THEN s
      ELSE IF \E j \in Joints : stall[j] >= StallPersist THEN Trip(s1, "STALL")
      ELSE s1

-----------------------------------------------------------------------------
(* Command shaping.                                                        *)

Clip(x, lo, hi) == IF x < lo THEN lo ELSE IF x > hi THEN hi ELSE x

\* joint_map.clamp()
Clamp(q) == [j \in Joints |-> Clip(q[j], Lower[j], Upper[j])]

\* Where the ramp is after n of its RampTicks cycles: from the measured start
\* pose to the (already clamped) target.
Blend(start, target, n) ==
  [j \in Joints |->
     start[j] + ((target[j] - start[j]) * n) \div RampTicks]

RateLimit(from, target, step) ==
  [j \in Joints |-> from[j] + Clip(target[j] - from[j], -step, step)]

Tick(n) == IF n < RampTicks THEN n + 1 ELSE RampTicks

\* shape() writes nothing while faulted, disarmed or without a last target.
MayShape(s) == s.state \in {"ramping", "running"} /\ s.lastTarget # NoTarget

\* Faulty variants of ShapedCommand: without the second clamp, and without the
\* rate limit.
ClampedOnce(s, policyTarget) ==
  LET ramping == s.state = "ramping"
      clamped == Clamp(policyTarget)
      target  == IF ramping THEN Blend(s.rampStart, clamped, Tick(s.elapsed)) ELSE clamped
  IN  RateLimit(s.lastTarget, target, IF ramping THEN RampStep ELSE RunStep)

Unlimited(s, policyTarget) ==
  LET clamped == Clamp(policyTarget)
  IN  Clamp(IF s.state = "ramping" THEN Blend(s.rampStart, clamped, Tick(s.elapsed))
            ELSE clamped)

\* The command shape() returns, when MayShape(s).
ShapedCommand(s, policyTarget) ==
  LET ramping == s.state = "ramping"
      clamped == Clamp(policyTarget)
      target  == IF ramping THEN Blend(s.rampStart, clamped, Tick(s.elapsed)) ELSE clamped
      step    == IF ramping THEN RampStep ELSE RunStep
  IN  Clamp(RateLimit(s.lastTarget, target, step))

\* Faulty variant of Shape: the ramp ends a cycle early.
ShapeEndsEarly(s, policyTarget) ==
  LET elapsed == IF s.state = "ramping" THEN Tick(s.elapsed) ELSE s.elapsed
  IN  [ s EXCEPT !.elapsed = elapsed,
                 !.state = IF elapsed + 1 >= RampTicks THEN "running" ELSE @,
                 !.lastTarget = ShapedCommand(s, policyTarget) ]

\* The supervisor after that call: the ramp clock advances, and the cycle that
\* completes it switches to running.
Shape(s, policyTarget) ==
  LET elapsed == IF s.state = "ramping" THEN Tick(s.elapsed) ELSE s.elapsed
  IN  [ s EXCEPT !.elapsed = elapsed,
                 !.state = IF elapsed = RampTicks THEN "running" ELSE @,
                 !.lastTarget = ShapedCommand(s, policyTarget) ]

-----------------------------------------------------------------------------
(* What every one of these operators maintains.                            *)

\* Full-rate motion is reached only by a completed ramp, and then the rate
\* limiter starts from a target inside the envelope.
Ramped(s) ==
  s.state = "running" =>
    /\ s.lastTarget # NoTarget
    /\ InEnvelope(s.lastTarget)
    /\ s.elapsed = RampTicks

\* n ramp cycles move no joint's command further than n ramp steps from where
\* the robot was when it was armed (from the nearest bound, if outside).
Gradual(s) ==
  s.state = "ramping" =>
    \A j \in Joints :
      IF s.elapsed = 0
        THEN s.lastTarget[j] = s.rampStart[j]
        ELSE Apart(s.lastTarget[j], Clamp(s.rampStart)[j]) <= s.elapsed * RampStep

\* A monitor that has seen its limit has tripped.
Bites(s) ==
  ~Faulted(s) =>
    /\ s.tilt < FallPersist
    /\ s.freefall < FreefallPersist
    /\ s.readFail < MaxReadFailures
    /\ \A j \in Joints : s.stall[j] < StallPersist

\* The bookkeeping the three of them rest on.
Bookkept(s) ==
  /\ s.state \in {"ramping", "running"} =>
       s.lastTarget \in Angles /\ s.rampStart \in Angles
  /\ s.state = "ramping" => s.elapsed < RampTicks
  /\ (s.state = "fault") <=> (s.fault # "none")

\* The inductive invariant of a supervisor.
Sound(s) == s \in Supervisors /\ Bookkept(s) /\ Ramped(s) /\ Gradual(s) /\ Bites(s)

=============================================================================
