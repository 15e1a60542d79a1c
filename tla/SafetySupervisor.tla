--------------------------- MODULE SafetySupervisor ---------------------------
(***************************************************************************)
(* The supervisor object of humanoid_deploy/safety.py under its most       *)
(* general client: the public methods are called in any order, with any    *)
(* arguments.  What holds here holds for every caller, servo_node.py       *)
(* included, whatever the policy, the operator and the robot do.           *)
(***************************************************************************)
EXTENDS SafetyRules

CONSTANT Arguments   \* the joint vectors that occur as readings and as targets

ASSUME ArgumentsAssumption == Arguments \subseteq Angles

VARIABLES
  supervisor,   \* the SafetySupervisor's attributes
  answer        \* what the latest call returned as a command; NoTarget for None

supVars == <<supervisor, answer>>

HealthSamples ==
  [ attitude : Attitudes, freefall : BOOLEAN, readOk : BOOLEAN,
    age : {0, CommandTimeout, CommandTimeout + 1}, hot : BOOLEAN, low : BOOLEAN ]

-----------------------------------------------------------------------------

SupInit == supervisor = InitSupervisor /\ answer = NoTarget

\* arm(): refused from FAULT and when preflight finds a problem, but not when
\* the robot is armed already.
ArmCall(measured, attitude, inDistribution) ==
  /\ ~Faulted(supervisor)
  /\ PreflightOk(measured, attitude, inDistribution)
  /\ supervisor' = Arm(supervisor, measured)
  /\ answer' = NoTarget

DisarmCall == supervisor' = Disarm(supervisor) /\ answer' = NoTarget

\* trip() as the node calls it, for what it detects itself.
TripCall(code) == supervisor' = Trip(supervisor, code) /\ answer' = NoTarget

CheckHealthCall(h) == supervisor' = CheckHealth(supervisor, h) /\ answer' = NoTarget

CheckTrackingCall(measured) ==
  supervisor' = CheckTracking(supervisor, measured) /\ answer' = NoTarget

ShapeCall(target) ==
  /\ MayShape(supervisor)
  /\ supervisor' = Shape(supervisor, target)
  /\ answer' = ShapedCommand(supervisor, target)

SupNext ==
  \/ \E q \in Arguments, a \in Attitudes, ok \in BOOLEAN : ArmCall(q, a, ok)
  \/ DisarmCall
  \/ \E c \in {"ESTOP", "WRITE_REJECTED"} : TripCall(c)
  \/ \E h \in HealthSamples : CheckHealthCall(h)
  \/ \E q \in Arguments : CheckTrackingCall(q)
  \/ \E q \in Arguments : ShapeCall(q)

SupSpec == SupInit /\ [][SupNext]_supVars

-----------------------------------------------------------------------------
(* Safety properties.                                                      *)

\* The supervisor's attributes keep their types: in particular no strike
\* counter and no ramp clock ever runs past its limit.
SupTypeOK ==
  /\ supervisor \in Supervisors
  /\ answer \in Angles \cup {NoTarget}

\* Nothing leaves shape() outside the safe envelope, whatever the policy asked
\* for and wherever inside the arming tolerance the robot started from.
CommandInEnvelope == answer # NoTarget => InEnvelope(answer)

\* Full-rate motion is reached only by a completed ramp, and from then on the
\* rate limiter starts from a target inside the envelope (the assumption behind
\* the comment on the second clamp in shape()).
RunningIsRamped == Ramped(supervisor)

\* n ramp cycles move no commanded joint further than n ramp steps from where
\* the robot was when it was armed (from the nearest bound, if it was armed
\* outside the envelope): arming never snaps a joint to the policy's target.
RampIsGradual == Gradual(supervisor)

\* A monitor that has seen its limit has tripped: no sequence of calls leaves
\* the supervisor armed with a strike counter at its threshold.
MonitorsBite == Bites(supervisor)

\* FAULT is terminal and keeps its first cause: no call, arm() and trip() with
\* another code included, leaves it or rewrites why.
FaultIsTerminal ==
  [][ Faulted(supervisor) =>
        supervisor'.state = "fault" /\ supervisor'.fault = supervisor.fault ]_supVars

\* One call to shape() moves a joint's command by at most one rate-limit step,
\* except for a joint that was armed outside the envelope, whose first command
\* may jump by as much as it was outside.
SlewBounded ==
  [][ answer' # NoTarget =>
        \A j \in Joints :
          Apart(answer'[j], supervisor.lastTarget[j])
            <= Larger(IF supervisor.state = "ramping" THEN RampStep ELSE RunStep,
                    Excursion(supervisor.lastTarget, j)) ]_supVars

=============================================================================
