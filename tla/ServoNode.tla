------------------------------- MODULE ServoNode -------------------------------
(***************************************************************************)
(* The hardware executor, humanoid_deploy/servo_node.py: the process that  *)
(* owns the servo bus and drives SafetySupervisor, together with what it   *)
(* talks to: the servos' torque and goal registers, the policy process,    *)
(* the IMU topic and the operator's three services.                        *)
(*                                                                         *)
(* rclpy.spin runs the node's callbacks one at a time, so each is one      *)
(* action here, with every supervisor call and every bus write it makes.   *)
(* A bus write gets no reply (servo_bus.py: "broadcast writes get no       *)
(* reply"): it is delivered, lost on the wire, or raises out of the        *)
(* callback, which ends rclpy.spin and runs main()'s shutdown.             *)
(***************************************************************************)
EXTENDS SafetyRules

CONSTANTS
  Poses,             \* joint vectors that occur as readings and as targets
  ImuSamples,        \* what _on_imu may store: samples, or NoSample on ImuError
  NoSample,          \* Python's None, for _imu_sample
  WriteOutcomes,     \* what may become of a bus write, a subset of the below
  HealthResults,     \* what the round-robin telemetry may add in a cycle
  PollTicks,         \* how many control periods a poll of the telemetry may take
  ShutdownOnFault,   \* the parameter shutdown_on_fault
  Rearms,            \* whether the operator also calls arm on an armed robot
  MaxBoots           \* bound of the model: how often the process is started

ASSUME NodeAssumption ==
  /\ Poses \subseteq Angles
  /\ ImuSamples \subseteq [attitude : Attitudes, freefall : BOOLEAN] \cup {NoSample}
  /\ NoSample \notin [attitude : Attitudes, freefall : BOOLEAN]
  /\ WriteOutcomes \subseteq {"ok", "lost", "raise", "reject"}
  /\ HealthResults \subseteq {"fine", "hot", "low"}
  /\ PollTicks \in Nat
  /\ ShutdownOnFault \in BOOLEAN
  /\ Rearms \in BOOLEAN
  /\ MaxBoots \in Nat

VARIABLES
  up,          \* the process is spinning
  boots,       \* how often it was started (for the bound only)
  dryRun,      \* the parameter dry_run of this start
  sup,         \* self.safety
  positions,   \* _positions, NoTarget while not _have_positions
  command,     \* _command
  age,         \* time since _command arrived, in control periods, saturating
  observed,    \* _observation is not None
  imu,         \* _imu_sample
  announced,   \* _fault_announced
  order,       \* the last torque write this process made: "none", "on", "off"
  policy,      \* the policy process is up
  torque,      \* the servos' torque-enable register
  goal         \* the servos' goal-position register

memory == <<sup, positions, command, age, observed, imu, announced, order>>
servos == <<torque, goal>>
vars == <<up, boots, dryRun, memory, policy, servos>>

Armed == sup.state \in {"ramping", "running"}

-----------------------------------------------------------------------------
(* Start and stop.                                                         *)

Init ==
  /\ up = FALSE
  /\ boots = 0
  /\ dryRun = FALSE
  /\ sup = InitSupervisor
  /\ positions = NoTarget
  /\ command = NoTarget
  /\ age = 0
  /\ observed = FALSE
  /\ imu = NoSample
  /\ announced = FALSE
  /\ order = "none"
  /\ policy = FALSE
  /\ torque = FALSE
  /\ goal \in Poses

\* The attributes __init__ sets; also what a process that is down is given, so
\* that what it forgot does not tell states apart.
ForgetAll ==
  /\ sup' = InitSupervisor
  /\ positions' = NoTarget
  /\ command' = NoTarget
  /\ age' = 0
  /\ observed' = FALSE
  /\ imu' = NoSample
  /\ announced' = FALSE
  /\ order' = "none"

\* __init__, once calibration, bundle, joint map and ping have passed.  It
\* writes nothing to the bus.
Boot(dry) ==
  /\ ~up
  /\ boots < MaxBoots
  /\ up' = TRUE
  /\ boots' = boots + 1
  /\ dryRun' = dry
  /\ ForgetAll
  /\ UNCHANGED <<policy, servos>>

\* Faulty variant of TorqueAfter: the write ignores dry_run.
TorqueAfterEvenDry(enabled, w) == IF w = "ok" THEN enabled ELSE torque

\* The registers after a torque write with outcome w.
TorqueAfter(enabled, w) == IF ~dryRun /\ w = "ok" THEN enabled ELSE torque

\* main()'s finally clause: shutdown() tries to cut torque once more and closes
\* the port, whether or not that write got through.
Exit(w) ==
  /\ up' = FALSE
  /\ torque' = TorqueAfter(FALSE, w)
  /\ ForgetAll
  /\ UNCHANGED <<boots, dryRun, policy>>

FinalWrite == WriteOutcomes \cap {"ok", "lost"}

\* Ctrl-C.
Interrupt == up /\ \E w \in FinalWrite : Exit(w) /\ UNCHANGED goal

\* The process is killed, or the computer loses power: no finally clause runs.
Killed == up /\ Exit("lost") /\ UNCHANGED goal

-----------------------------------------------------------------------------
(* Subscriptions.                                                          *)

\* _on_command, with a message of a live policy process (which answers to
\* joint_states, so it is silent until the first full read).
OnCommand(q) ==
  /\ up /\ policy /\ positions # NoTarget
  /\ command' = q
  /\ age' = 0
  /\ UNCHANGED <<up, boots, dryRun, sup, positions, observed, imu, announced, order,
                 policy, servos>>

\* _on_observation.  Command and observation are two best-effort topics: either
\* message may be lost.
OnObservation ==
  /\ up /\ policy /\ positions # NoTarget
  /\ observed' = TRUE
  /\ UNCHANGED <<up, boots, dryRun, sup, positions, command, age, imu, announced,
                 order, policy, servos>>

\* _on_imu, once the accelerometer's unit is resolved.
OnImu(sample) ==
  /\ up
  /\ imu' = sample
  /\ UNCHANGED <<up, boots, dryRun, sup, positions, command, age, observed,
                 announced, order, policy, servos>>

\* The policy process starts, crashes or hangs.
PolicyStartsOrStops ==
  /\ policy' = ~policy
  /\ UNCHANGED <<up, boots, dryRun, memory, servos>>

-----------------------------------------------------------------------------
(* Entering FAULT.                                                         *)

\* Faulty variant of EnterFault: it announces the fault and leaves the torque.
AnnounceOnly(s) ==
  /\ sup' = s
  /\ announced' = TRUE
  /\ UNCHANGED <<up, order, torque>>

\* _enter_fault, with the supervisor s already in FAULT.  Only the first call
\* in the life of the process writes torque-off.
EnterFault(s) ==
  \/ /\ announced
     /\ sup' = s
     /\ UNCHANGED <<up, announced, order, torque>>
  \/ /\ ~announced /\ ~ShutdownOnFault
     /\ sup' = s
     /\ announced' = TRUE
     /\ \E w \in FinalWrite : torque' = TorqueAfter(FALSE, w)
     /\ order' = IF dryRun THEN order ELSE "off"
     /\ UNCHANGED up

\* The other way out of _enter_fault: SystemExit under shutdown_on_fault, or
\* the torque write raising.
FaultExits ==
  /\ ~announced
  /\ ShutdownOnFault \/ (~dryRun /\ "raise" \in WriteOutcomes)
  /\ \E w \in FinalWrite : Exit(w)

-----------------------------------------------------------------------------
(* The control cycle.  A reading r is a joint vector, or NoTarget when not *)
(* every servo answered.                                                   *)

Readings == Poses \cup {NoTarget}

AgeMax == CommandTimeout + PollTicks + 1

Aged(ticks) == IF command = NoTarget THEN 0
               ELSE IF age + ticks <= AgeMax THEN age + ticks ELSE AgeMax

\* The clock once the positions are read, one period after the last cycle's end.
AgeNow == Aged(1)

\* Faulty variant of MonitoredAge: the age as it was when the cycle began.
AgeBeforeRead ==
  IF command = NoTarget /\ sup.state = "running" THEN CommandTimeout + 1 ELSE age

\* The command age _control_cycle passes to the monitors.  It is taken before
\* _sample_health() polls the bus, and not again before the goal is written.
MonitoredAge ==
  IF command = NoTarget /\ sup.state = "running" THEN CommandTimeout + 1 ELSE AgeNow

\* check_health() with that age and what the poll just found, then
\* check_tracking() unless it tripped or the read failed.
Monitored(r, health) ==
  LET h == [ attitude |-> imu.attitude, freefall |-> imu.freefall,
             readOk |-> r # NoTarget, age |-> MonitoredAge,
             hot |-> health = "hot", low |-> health = "low" ]
      s == CheckHealth(sup, h)
  IN  IF Faulted(s) \/ r = NoTarget THEN s ELSE CheckTracking(s, r)

\* The bus time of a cycle: it reads the positions, and its poll blocks for took
\* control periods (0 in the cycles that do not poll, or when the servo answers
\* at once).  age' is the age of the command when the cycle writes its goal.
Took == 0 .. PollTicks

CycleReads(r, took) ==
  /\ positions' = IF r = NoTarget THEN positions ELSE r
  /\ age' = Aged(1 + took)

\* Without a usable IMU sample the cycle ends before any monitor runs.
CycleWithoutImu(r) ==
  /\ up /\ imu = NoSample
  /\ CycleReads(r, 0)
  /\ UNCHANGED <<up, boots, dryRun, sup, command, observed, imu, announced, order,
                 policy, servos>>

CycleFaults(r, health, took) ==
  /\ up /\ imu # NoSample
  /\ Faulted(Monitored(r, health))
  /\ \/ /\ CycleReads(r, took)
        /\ EnterFault(Monitored(r, health))
        /\ UNCHANGED <<boots, dryRun, command, observed, imu, policy>>
     \/ FaultExits
  /\ UNCHANGED goal

\* Disarmed, or armed with no command ever received: nothing is written.
CycleIdles(r, health, took) ==
  /\ up /\ imu # NoSample
  /\ ~Faulted(Monitored(r, health))
  /\ ~Armed \/ command = NoTarget
  /\ CycleReads(r, took)
  /\ sup' = Monitored(r, health)
  /\ UNCHANGED <<up, boots, dryRun, command, observed, imu, announced, order, policy,
                 servos>>

\* Faulty variant of CycleDrives: the policy's command is written as it came.
DrivesUnshaped(r, health, took, w) ==
  /\ up /\ imu # NoSample
  /\ ~Faulted(Monitored(r, health)) /\ Armed /\ command # NoTarget
  /\ w = "ok"
  /\ CycleReads(r, took)
  /\ sup' = Shape(Monitored(r, health), command)
  /\ goal' = IF dryRun THEN goal ELSE command
  /\ UNCHANGED <<up, boots, dryRun, command, observed, imu, announced, order, policy,
                 torque>>

\* Armed: shape the latest command and write it.
CycleDrives(r, health, took, w) ==
  LET s == Monitored(r, health)
      c == ShapedCommand(s, command)
  IN  /\ up /\ imu # NoSample
      /\ ~Faulted(s) /\ Armed /\ command # NoTarget
      /\ \/ /\ w \in {"ok", "lost"}
            /\ CycleReads(r, took)
            /\ sup' = Shape(s, command)
            /\ goal' = IF dryRun \/ w = "lost" THEN goal ELSE c
            /\ UNCHANGED <<up, boots, dryRun, command, observed, imu, announced,
                           order, policy, torque>>
         \/ /\ w = "reject" /\ ~dryRun      \* ServoBusError: a count out of range
            /\ \/ /\ CycleReads(r, took)
                  /\ EnterFault(Trip(Shape(s, command), "WRITE_REJECTED"))
                  /\ UNCHANGED <<boots, dryRun, command, observed, imu, policy>>
               \/ FaultExits
            /\ UNCHANGED goal
         \/ /\ w = "raise" /\ ~dryRun       \* the serial port fails
            /\ \E w2 \in FinalWrite : Exit(w2)
            /\ UNCHANGED goal

ControlCycle ==
  \/ \E r \in Readings : CycleWithoutImu(r)
  \/ \E r \in Readings, h \in HealthResults, t \in Took :
       \/ CycleFaults(r, h, t)
       \/ CycleIdles(r, h, t)
       \/ \E w \in WriteOutcomes : CycleDrives(r, h, t, w)

-----------------------------------------------------------------------------
(* Services.                                                               *)

MayArm ==
  /\ up
  /\ Rearms \/ ~Armed
  /\ positions # NoTarget /\ imu # NoSample /\ observed
  /\ ~Faulted(sup)
  /\ PreflightOk(positions, imu.attitude, TRUE)

\* Faulty variant of ArmService: torque goes on over the goal of a previous run.
ArmsUnparked(park, enable) ==
  /\ MayArm /\ park = "ok"
  /\ sup' = Arm(sup, positions)
  /\ torque' = TorqueAfter(TRUE, enable)
  /\ order' = IF dryRun THEN order ELSE "on"
  /\ UNCHANGED <<up, boots, dryRun, positions, command, age, observed, imu, announced,
                 policy, goal>>

\* _srv_arm: the supervisor first, then the parked goal, then torque on.
ArmService(park, enable) ==
  /\ MayArm
  /\ sup' = Arm(sup, positions)
  /\ goal' = IF dryRun \/ park = "lost" THEN goal ELSE positions
  /\ torque' = TorqueAfter(TRUE, enable)
  /\ order' = IF dryRun THEN order ELSE "on"
  /\ UNCHANGED <<up, boots, dryRun, positions, command, age, observed, imu, announced,
                 policy>>

\* _srv_arm when one of its writes raises, before or after the park.
ArmServiceRaises ==
  /\ MayArm /\ ~dryRun
  /\ "raise" \in WriteOutcomes
  /\ goal' \in {goal, positions}
  /\ \E w \in FinalWrite : Exit(w)

DisarmService ==
  /\ up
  /\ \/ /\ sup' = Disarm(sup)
        /\ \E w \in FinalWrite : torque' = TorqueAfter(FALSE, w)
        /\ order' = IF dryRun THEN order ELSE "off"
        /\ UNCHANGED <<up, boots, dryRun, positions, command, age, observed, imu,
                       announced, policy>>
     \/ /\ ~dryRun /\ "raise" \in WriteOutcomes
        /\ \E w \in FinalWrite : Exit(w)
  /\ UNCHANGED goal

EstopService ==
  /\ up
  /\ \/ /\ EnterFault(Trip(sup, "ESTOP"))
        /\ UNCHANGED <<boots, dryRun, positions, command, age, observed, imu,
                       policy>>
     \/ FaultExits
  /\ UNCHANGED goal

Next ==
  \/ \E dry \in BOOLEAN : Boot(dry)
  \/ Interrupt
  \/ Killed
  \/ \E q \in Poses : OnCommand(q)
  \/ OnObservation
  \/ \E i \in ImuSamples : OnImu(i)
  \/ PolicyStartsOrStops
  \/ ControlCycle
  \/ \E p, w \in FinalWrite : ArmService(p, w)
  \/ ArmServiceRaises
  \/ DisarmService
  \/ EstopService

Spec == Init /\ [][Next]_vars

\* The timer of a spinning node keeps firing (create_timer, servo_node.py).
FairSpec == Spec /\ WF_vars(ControlCycle)

-----------------------------------------------------------------------------
(* Safety properties.                                                      *)

TypeOK ==
  /\ up \in BOOLEAN
  /\ boots \in 0 .. MaxBoots
  /\ dryRun \in BOOLEAN
  /\ sup \in Supervisors
  /\ positions \in Poses \cup {NoTarget}
  /\ command \in Poses \cup {NoTarget}
  /\ age \in 0 .. AgeMax
  /\ observed \in BOOLEAN
  /\ imu \in ImuSamples \cup {NoSample}
  /\ announced \in BOOLEAN
  /\ order \in {"none", "on", "off"}
  /\ policy \in BOOLEAN
  /\ torque \in BOOLEAN
  /\ goal \in Angles

\* Between callbacks, the last torque order on the bus agrees with the
\* supervisor: power was ordered on exactly while RAMPING or RUNNING, and every
\* way into FAULT has announced it and ordered power off.
OrderFollowsState ==
  up => /\ ~dryRun => (order = "on" <=> Armed)
        /\ Faulted(sup) <=> announced
        /\ Faulted(sup) /\ ~dryRun => order = "off"

\* Started with dry_run, the node writes to no servo, whatever it is asked.
DryRunWritesNothing == [][dryRun /\ dryRun' => UNCHANGED servos]_vars

\* No joint is told to go further than one rate-limit step, or than back into the
\* envelope.
OneStep(from, to) ==
  \A j \in Joints :
    Apart(to[j], from[j])
      <= Larger(IF sup.state = "ramping" THEN RampStep ELSE RunStep, Excursion(from, j))

\* A new goal position is either the measured pose, parked by arm before torque goes
\* on, or a shaped command inside the envelope, written while armed and one step from
\* the last one.
GoalsAreSafe ==
  [][ goal' # goal =>
        \/ goal' = positions /\ NearEnvelope(positions) /\ ~Faulted(sup)
        \/ /\ Armed /\ InEnvelope(goal') /\ goal' = sup'.lastTarget
           /\ OneStep(sup.lastTarget, goal') ]_vars

\* On a bus that loses no write, the servos hold the target that the supervisor takes
\* the next step from.  (Nobody notices a lost write, and each leaves them a step behind.)
HeldIsTold == Armed /\ ~dryRun => goal = sup.lastTarget

\* On such a bus no goal jumps, whoever writes it: it is where the joint was measured
\* or one step from the goal that the servo holds.
NoGoalJumps ==
  [][ goal' # goal =>
        \/ goal' = positions /\ NearEnvelope(positions)
        \/ OneStep(goal, goal') ]_vars

\* At full rate a goal is written only from a command that was younger than the
\* timeout when the cycle began, however long earlier polls of the telemetry held
\* the callbacks up; this cycle's own poll, which comes between the check and the
\* write, may age it past the timeout, and by no more than one poll.
RunningOnFreshCommands ==
  [][ (goal' # goal /\ sup.state = "running" /\ sup'.state = "running")
        => /\ age < CommandTimeout
           /\ age' <= CommandTimeout + PollTicks ]_vars

\* The authority over the motors that the node's state amounts to.
AuthorityNow ==
  IF ~up THEN "absent"
  ELSE CASE sup.state = "disarmed" -> "off"
         [] sup.state = "ramping"  -> "ramp"
         [] sup.state = "running"  -> "full"
         [] OTHER                  -> "latched"

Authority == INSTANCE MotorAuthority WITH
  authority <- AuthorityNow, ordered <- order = "on", rehearsal <- dryRun

\* The node implements the operator's view of it: authority over the motors goes
\* from off through the ramp to full, a latched fault is left only by a restart,
\* and no step changes the torque order without the matching change of state.
ImplementsAuthority == Authority!Spec

(* Liveness, under the fairness of the control timer.                      *)

\* A robot the IMU keeps reporting as fallen does not stay powered.
FallIsAnswered ==
  (Armed /\ imu # NoSample /\ imu.attitude = "fallen")
    ~> (~Armed \/ imu = NoSample \/ imu.attitude # "fallen")

\* A policy that stops while the robot is RUNNING ends in a fault, provided the
\* IMU keeps delivering usable samples.
RunningPolicyLossFaults ==
  (sup.state = "running" /\ ~policy) ~> (sup.state # "running" \/ policy \/ imu = NoSample)

=============================================================================
