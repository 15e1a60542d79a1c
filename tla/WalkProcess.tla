------------------------------ MODULE WalkProcess ------------------------------
(***************************************************************************)
(* The walking deployment, humanoid_deploy/walk_node.py: one process, one  *)
(* single-threaded executor, and on it the executor node (whose authority  *)
(* over the motors is the abstract one of MotorAuthority, which ServoNode  *)
(* implements) and the walk node with its GaitSequencer.  main() owns      *)
(* SIGINT, and Python runs its handler between any two bytecodes.          *)
(*                                                                         *)
(* One pass of main()'s loop is one callback (spin_once) and then one look *)
(* at whether to go on.  Time is counted in control periods: a read that   *)
(* takes longer counts as periods in which nothing was read.               *)
(***************************************************************************)
EXTENDS GaitRules

CONSTANTS
  Style,          \* the node's gait parameters, one GaitConfig
  GraceMargin     \* the 3 s main() adds to its estimate of a hand-back

ASSUME ProcessAssumption == Style \in Configs /\ GraceMargin \in Nat

VARIABLES
  pc,          \* where main() is: "spin", "granting", "check", "closing", "exited"
  interrupts,  \* state["interrupts"]
  gait,        \* the sequencer's attributes
  tilt,        \* _tilt_deg: within arm_tilt_deg, above it, above walk_abort_tilt_deg
  seen,        \* _imu_msg is not None
  heard,       \* _servo_state, as an authority; "unknown" is None
  posted,      \* the latched status message not yet delivered to the walk node
  joints,      \* a joint_states message waits for the walk node (depth 1)
  motor,       \* the executor node's authority over the motors
  torque,      \* the servos' torque-enable register
  waited,      \* control periods since the first Ctrl-C, up to past the deadline
  lag,         \* history: those of them the sequencer did not step in
  dropped      \* history: request_walk reset the stop a Ctrl-C had asked for

loop == <<pc, interrupts>>
walker == <<gait, tilt, seen, heard>>
topics == <<posted, joints>>
servo == <<motor, torque>>
clock == <<waited, lag, dropped>>
vars == <<loop, walker, topics, servo, clock>>

Granted == {"ramp", "full"}

Motor == INSTANCE MotorAuthority WITH
  authority <- motor, ordered <- motor \in Granted, rehearsal <- FALSE

Tilts == {"upright", "leaning", "toppling"}

Idle == gait.mode = "stand"

\* crouch_s + recover_s + max_stop_wait_s + 3.0
Grace == CrouchTicks + RecoverTicks + MaxStopWait + GraceMargin

Init ==
  /\ pc = "check"
  /\ interrupts = 0
  /\ gait = InitGait
  /\ tilt = "upright"
  /\ seen = FALSE
  /\ heard = "unknown"
  /\ posted = "off"
  /\ joints = FALSE
  /\ motor = "off"
  /\ torque = FALSE
  /\ waited = 0
  /\ lag = 0
  /\ dropped = FALSE

-----------------------------------------------------------------------------
(* Callbacks of the executor node.                                         *)

Spins == pc = "spin" /\ pc' = "check" /\ UNCHANGED interrupts

Capped(n, bound) == IF n < bound THEN n + 1 ELSE n

\* One control period passes; missed when the sequencer loses its step in it.
Passes(missed) ==
  /\ waited' = IF interrupts = 1 THEN Capped(waited, Grace + 1) ELSE waited
  /\ lag' = IF interrupts = 1 /\ missed THEN Capped(lag, Grace + 1) ELSE lag
  /\ UNCHANGED dropped

\* Faulty variant of Publishes: entering FAULT is not reported.
PublishesUnlessFault ==
  /\ torque' = (motor' \in Granted)
  /\ posted' = IF motor' = "latched" THEN posted ELSE motor'

\* What a change of authority does to the servos and the status topic.
Publishes ==
  /\ torque' = (motor' \in Granted)
  /\ posted' = motor'

\* _control_cycle: it publishes what it read, replacing a message the walk node
\* has not yet taken; then the ramp may end, or a monitor trip.  Every 25th cycle
\* that gets to its end publishes the status.
ControlCycle ==
  /\ Spins
  /\ \E read \in BOOLEAN :
       /\ joints' = (joints \/ read)
       /\ Passes(~read \/ joints)
  /\ \/ Motor!Latch /\ Publishes
     \/ /\ Motor!Promote \/ UNCHANGED motor
        /\ posted' \in {posted, motor'}
        /\ UNCHANGED torque
  /\ UNCHANGED walker

\* ~/arm, ~/disarm and ~/estop of the executor node, when not refused.
ServoServices ==
  /\ Spins
  /\ Motor!Grant \/ Motor!Withdraw \/ Motor!Latch
  /\ Publishes
  /\ UNCHANGED <<walker, joints, clock>>

-----------------------------------------------------------------------------
(* Callbacks of the walk node.                                             *)

OnImu ==
  /\ Spins
  /\ seen' = TRUE
  /\ UNCHANGED <<gait, tilt, heard, topics, servo, clock>>

OnServoStatus ==
  /\ Spins
  /\ posted # "nothing"
  /\ heard' = posted
  /\ posted' = "nothing"
  /\ UNCHANGED <<gait, tilt, seen, joints, servo, clock>>

\* _guard_tilt, with the tilt of this cycle's sample.
GuardTilt(g, t) == IF t = "toppling" THEN RequestStop(g, "tilt") ELSE g

\* _on_joints with a usable IMU sample: guard the tilt, then step the sequencer.
OnJoints ==
  /\ Spins
  /\ joints /\ seen
  /\ joints' = FALSE
  /\ tilt' \in Tilts
  /\ gait' = Step(Style, GuardTilt(gait, tilt'))
  /\ UNCHANGED <<seen, heard, posted, servo, clock>>

\* _on_joints without one: it returns before the sequencer is stepped.
OnJointsWithoutImu ==
  /\ Spins
  /\ joints
  /\ joints' = FALSE
  /\ lag' = IF interrupts = 1 THEN Capped(lag, Grace + 1) ELSE lag
  /\ UNCHANGED <<walker, posted, servo, waited, dropped>>

\* _srv_walk up to the point where request_walk has set the mode.  What it knows
\* of the servos is the last status it heard.
WalkService ==
  /\ pc = "spin"
  /\ seen /\ heard = "full" /\ tilt = "upright"
  /\ MayWalk(gait)
  /\ gait' = [gait EXCEPT !.mode = "to_crouch"]
  /\ pc' = "granting"
  /\ UNCHANGED <<interrupts, tilt, seen, heard, topics, servo, clock>>

\* The rest of request_walk: every other attribute is reset.
WalkGranted ==
  /\ pc = "granting"
  /\ pc' = "check"
  /\ gait' = RequestWalk(gait)
  /\ dropped' = (dropped \/ (interrupts = 1 /\ Pending(gait)))
  /\ UNCHANGED <<interrupts, tilt, seen, heard, topics, servo, waited, lag>>

StopService ==
  /\ Spins
  /\ gait' = RequestStop(gait, "operator")
  /\ UNCHANGED <<tilt, seen, heard, topics, servo, clock>>

\* An exception leaves spin_once: a dead serial port, or shutdown_on_fault.
CallbackRaises ==
  /\ pc = "spin"
  /\ pc' = "closing"
  /\ UNCHANGED <<interrupts, walker, topics, servo, clock>>

-----------------------------------------------------------------------------
(* SIGINT and main()'s loop.                                               *)

\* Faulty variant of OnSigint: the deadline starts, but no stop is requested.
SigintForgets ==
  /\ pc \in {"spin", "granting", "check"}
  /\ interrupts' = IF interrupts = 0 /\ ~Idle THEN 1 ELSE 99
  /\ UNCHANGED <<pc, walker, topics, servo, clock>>

\* on_sigint: the first one during a walk asks for a stop; any other one ends
\* the loop.
OnSigint ==
  /\ pc \in {"spin", "granting", "check"}
  /\ IF interrupts = 0 /\ ~Idle
       THEN interrupts' = 1 /\ gait' = RequestStop(gait, "ctrl-c")
       ELSE interrupts' = 99 /\ UNCHANGED gait
  /\ UNCHANGED <<pc, tilt, seen, heard, topics, servo, clock>>

\* Faulty variant of LoopCheck: it waits for the sequencer however long.
LoopWithoutDeadline ==
  /\ pc = "check"
  /\ pc' = IF interrupts = 99 \/ (interrupts = 1 /\ Idle) THEN "closing" ELSE "spin"
  /\ UNCHANGED <<interrupts, walker, topics, servo, clock>>

\* After spin_once and before the next: interrupted and standing, or out of
\* patience, or told twice, main() leaves its loop.
LoopCheck ==
  /\ pc = "check"
  /\ pc' = IF \/ interrupts = 99
              \/ interrupts = 1 /\ (Idle \/ waited > Grace)
             THEN "closing" ELSE "spin"
  /\ UNCHANGED <<interrupts, walker, topics, servo, clock>>

\* The finally clause: servo.shutdown() cuts torque.
Close ==
  /\ pc = "closing"
  /\ pc' = "exited"
  /\ Motor!Vanish
  /\ torque' = FALSE
  /\ UNCHANGED <<interrupts, walker, topics, clock>>

\* A SIGINT after the finally clause has reinstated SIG_DFL ends the process on
\* the spot.
KilledWhileClosing ==
  /\ pc = "closing"
  /\ pc' = "exited"
  /\ interrupts' = 99
  /\ Motor!Vanish
  /\ UNCHANGED <<torque, walker, topics, clock>>

Next ==
  \/ ControlCycle \/ ServoServices
  \/ OnImu \/ OnServoStatus \/ OnJoints \/ OnJointsWithoutImu
  \/ WalkService \/ WalkGranted \/ StopService \/ CallbackRaises
  \/ OnSigint \/ LoopCheck \/ Close \/ KilledWhileClosing

Spec == Init /\ [][Next]_vars

\* main() keeps going, and the executor serves the control timer, which it looks
\* at first in every round, again and again.
FairSpec ==
  /\ Spec
  /\ WF_vars(WalkGranted) /\ WF_vars(LoopCheck) /\ WF_vars(Close)
  /\ SF_vars(ControlCycle)

-----------------------------------------------------------------------------
(* Properties.                                                             *)

TypeOK ==
  /\ pc \in {"spin", "granting", "check", "closing", "exited"}
  /\ interrupts \in {0, 1, 99}
  /\ gait.mode \in Modes /\ gait.stop \in Reasons \cup {"none"}
  /\ gait.elapsed \in Nat /\ gait.cmd \in 0 .. CmdRampTicks
  /\ tilt \in Tilts
  /\ seen \in BOOLEAN
  /\ heard \in {"unknown", "off", "ramp", "full", "latched"}
  /\ posted \in {"nothing", "off", "ramp", "full", "latched"}
  /\ joints \in BOOLEAN
  /\ motor \in {"absent", "off", "ramp", "full", "latched"}
  /\ torque \in BOOLEAN
  /\ waited \in 0 .. Grace + 1 /\ lag \in 0 .. Grace + 1
  /\ dropped \in BOOLEAN

\* What the walk service takes for RUNNING is RUNNING, or a message that says
\* otherwise is already on its way.
ReportIsCurrentOrComing ==
  pc # "exited" /\ heard = "full" => motor = "full" \/ posted \notin {"nothing", "full"}

\* The grace period is long enough: main() gives up on a hand-back it was asked
\* for only after the sequencer has missed more steps than crouch_s and the
\* margin hold, less what a command ramp takes beyond max_stop_wait_s.
SpareTicks ==
  CrouchTicks + GraceMargin + MaxStopWait - StopTicks

GraceCoversHandBack ==
  (pc = "check" /\ interrupts = 1 /\ ~Idle /\ waited > Grace /\ ~dropped)
    => lag > SpareTicks

\* From the first Ctrl-C on, the sequencer only moves towards STAND.
NoWalkAfterCtrlC ==
  [][ (interrupts = 1 /\ interrupts' = 1 /\ ~dropped')
        => gait'.mode \in {gait.mode, "to_stand", "stand"} ]_vars

\* Ctrl-C always ends the process, also when the bus is dead and the sequencer
\* no longer advances.
CtrlCEnds == interrupts # 0 ~> pc = "exited"

-----------------------------------------------------------------------------
(* What its docstring says and the code does not do.                       *)

\* walk_node.py: the first Ctrl-C asks the sequencer to stop and the node keeps
\* running until the robot is standing again.
EveryCtrlCHandsBack ==
  (pc = "check" /\ interrupts = 1 /\ ~Idle /\ waited > Grace) => lag > SpareTicks

=============================================================================
