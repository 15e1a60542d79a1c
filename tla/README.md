# Verification of the kai_ros2 humanoid deployment

TLA+ models of the code that decides when the robot's motors are powered and
what they are told to do, checked with TLC and, for the central properties,
proved with TLAPS; of the calibration those decisions rest on; and of the two serial
lines, to the servos and to the IMU, they are taken and carried out over. Paths below are
relative to the repository; `safety.py`, `servo_node.py`, `joint_map.py`, `servo_bus.py`,
`gait.py` and `walk_node.py` are in `src/humanoid_deploy/humanoid_deploy/`;
`calibrate_cli.py`, `calibration_store.py`, `guard.py` and `feetech_bus.py` in
`src/humanoid_calibration/humanoid_calibration/`; `wit_ros2_imu.py` in
`src/wit_ros2_imu/wit_ros2_imu/`.

- [The system](#the-system)
- [Modules](#modules)
- [Runs](#runs)
- [Disagreements between text and code](#disagreements-between-text-and-code)
- [Proofs](#proofs)
- [Abstractions and what is left out](#abstractions-and-what-is-left-out)
- [Plan](#plan)

## The system

A biped with Feetech serial servos, an IMU and two trained policies. Two
deployments exist. *Standing*: `servo_node` and `policy_node` are two processes.
*Walking*: `walk_node` runs the executor node and a walking node on one
single-threaded executor in one process.

| Component | State it keeps | Operations | Talks to |
|---|---|---|---|
| **Safety supervisor** `safety.py` | state (disarmed, ramping, running, fault), fault code, ramp start and ramp clock, last target, strike counters of five monitors | `preflight`, `arm`, `disarm`, `trip`, `check_health`, `check_tracking`, `shape` | called by the executor node; `joint_map.clamp` |
| **Executor node** `servo_node.py` | last positions, command and its time, observation, IMU sample, fault announced | control timer, three subscriptions, services arm, disarm and estop, start, shutdown | servo bus (broadcast writes, polled reads), topics `command`, `observation`, `joint_states`, `status`, IMU |
| **Gait sequencer** `gait.py` | mode, elapsed time, gait phase, velocity command, stop reason, stop wait, action history | `request_walk`, `request_stop`, `step` | called by the walking node |
| **Walking process** `walk_node.py` | last IMU message, tilt, servo state heard, SIGINT count and deadline | `_on_joints`, `_on_imu`, `_on_servo_status`, services walk and stop, SIGINT handler, main loop | executor node through topics in the same process |
| **Standing policy** `policy_node.py` | previous action | one network evaluation per `joint_states` | publishes command and observation |
| **Policy bundle** `policy.py` | network and its statistics | load, infer | read at start |
| **IMU conditioning** `imu.py` | unit of the accelerometer, mounting | condition a sample, or `ImuError` | executor and walking nodes |
| **Joint map** `joint_map.py` | per joint zero, sign, window, seam | radians to counts and back, `clamp`, seam report | calibration file, supervisor |
| **Servo bus** `servo_bus.py` | serial port | sync read, sync write, ping, health | servos |
| **Calibration store and guard** `calibration_store.py`, `guard.py`, `launch_guard.py` | YAML file, in-memory copy | record, save, load, validate, refuse to launch | sessions, every node's start |
| **Calibration session** `calibrate_cli.py`, `feetech_bus.py` | joint in progress, unwrapped angle | capture zero, low, high; track | bus, store |
| **Verifier** `verify_cli.py` | none | report | store, bus |
| **IMU driver** `wit_ros2_imu.py` | receive buffer, current request and its time, latest value of each kind | 1 ms timer: ask or time out, read, parse, publish | serial port; executor and walking nodes through `imu/data` |
| **Bench tools** `tools/` | none | one-shot scripts | bus, simulator |

What is hard here, and what each component must get right:

- *Supervisor.* Its methods may be called in any order. Whatever the order,
  commands stay in the joints' envelope, arming never snaps a joint, a monitor at
  its limit trips, and a fault and its cause stay. The hard part is the state one
  method leaves for the next: `_ramp_start`, `_last_target`, counters that an
  earlier return skips, and a robot armed a little outside its envelope.
- *Executor node.* Callbacks are atomic (`rclpy.spin`), but bus writes get no
  reply, may be lost or may raise half way through a callback; a command may be
  old; the policy may die; the process may be killed and restarted while the
  servos keep torque and goal. It must order power on exactly while it is entitled
  to, write only safe goals, and answer a fall.
- *Sequencer.* Three descents, three recoveries, an optional stop phase. It must
  come back to standing in bounded time from anywhere, for the first reason given,
  gradually, and start the walking policy cold.
- *Walking process.* SIGINT is handled between any two bytecodes; the main loop
  gives up after a grace period computed from the gait's durations; the walk
  service knows the servos only from a topic. The grace period must cover a
  hand-back, and nothing may walk after Ctrl-C.
- *Calibration store and guard.* save() writes, synchronises, renames and
  synchronises the directory, and power may go between any two; two sessions may work
  on one file; the configuration may change under a session or a file. What was
  reported as saved must stay, and what the gate accepts must have been measured under
  the settings in force.
- *Calibration session.* The encoder wraps, reads are missed, and the operator moves the
  joint meanwhile. The angle must be tracked across the seam, the zero must be where the
  joint is, and a limit must be recorded if and only if the joint is held there.
- *Joint map.* A servo turns from the count it reads to the count it is given and does
  not know that its encoder wraps. Conversions, margins and the seam check must agree so
  that no goal lies on the other side of the wrap, whatever pose arming tolerates.
- *Servo bus.* One wire, on which a reply does not say what it answers, and on which the
  echo of a request looks like a reply. A position must be a position of this cycle; one
  wrong temperature must not stop the robot, and a servo that overheats must be noticed
  in its turn.
- *IMU driver.* Bytes get lost, replies come after their timeout. The parser must find
  the next frame again, what is published as a rate must be a rate, and the rotation
  through the registers must go on.

## Modules

| Module | Models |
|---|---|
| `SafetyRules` | `safety.py` as operators on the supervisor's attributes, one per method, and the invariant `Sound` of such a record |
| `SafetySupervisor` | that object under its most general client |
| `MotorAuthority` | abstract: what the executor node promises an operator |
| `ServoNode` | `servo_node.py` around `SafetyRules`, with servo registers, policy process and operator |
| `GaitRules` | `gait.py` as operators on the sequencer's attributes |
| `GaitSequencer` | the sequencer under its most general client, with history clocks |
| `WalkProcess` | `walk_node.py`: loop, SIGINT, topics; the sequencer is `GaitRules`, the executor node is `MotorAuthority` |
| `Calibration` | `calibration_store.py`, `guard.py` and the session loop of `calibrate_cli.py`, with the disk, the configuration file and power cuts |
| `JointCapture` | one joint's capture in `calibrate_cli.py`, with `AngleTracker` of `feetech_bus.py`, the bus and the operator |
| `JointMap` | `joint_map.py` as operators: names, envelopes, conversions, the seam |
| `JointDrive` | one joint from the policy's target to its shaft: the executor node's arming and control cycle around `SafetyRules` and `JointMap`, and the servo |
| `ServoBus` | `servo_bus.py` and the executor node's telemetry over it, with the wire |
| `ImuDriver` | `wit_ros2_imu.py` on TTL, CAN and RS485, with the line and the sensor |
| `SafetySupervisorProofs`, `ServoNodeProofs`, `GaitProofs`, `CalibrationProofs`, `JointCaptureProofs`, `JointDriveProofs`, `ServoBusProofs`, `ImuDriverProofs` | lemmas and theorems |
| `MCSafetySupervisor`, `MCServoNode`, `MCGaitSequencer`, `MCWalkProcess`, `MCCalibration`, `MCJointCapture`, `MCJointDrive`, `MCServoBus`, `MCImuDriver` | instances for TLC |

Composition: `ServoNode` is checked *and proved* to implement `MotorAuthority`
(`ImplementsAuthority`). `WalkProcess` uses the actions of `MotorAuthority` in
place of the executor node, so it need not carry counters, poses and registers.
`ServoNode` and `SafetySupervisor` share `SafetyRules`; `GaitSequencer` and
`WalkProcess` share `GaitRules`. A fact about an operator is therefore proved
once and used under both clients: those of `SafetyRules` in `SafetySupervisorProofs`, which
extends `ServoNodeProofs`, those of `GaitRules` at the head of `GaitProofs`, which is about
the sequencer and the walking process. The definitions of the two general clients begin with
`Sup` and `Seq`, so that one module can extend them and the other client. `JointCapture` is
the inside of one action of `Calibration`, `JointCaptured`: what it saves, three
remainders of a turn, is there a single number, a take. `JointDrive` instantiates
`SafetyRules` with the envelope `JointMap` computes from a calibration file, in place of
`ServoNode`'s constants: the supervisor's promises about angles meet the encoder's counts.

Definitions carry the names of the methods they translate. A definition called a
"faulty variant" sits before the one it varies; no specification uses it. It is
the change a plausible bug would make, and the property named for it in
`PROJECT.json` fails with it.

### SafetyRules and SafetySupervisor

`sup` is the record of `SafetySupervisor`'s attributes. An angle is an integer;
an envelope is `Lower[j] .. Upper[j]`; time is counted in control cycles. `Shape`
is the whole of `shape()`: advance the ramp clock, blend from the ramp start,
clamp, limit the rate, clamp again, remember the target, promote to RUNNING.
`CheckHealth` keeps the order of the early returns: a fall returns before free
fall is counted, and so on. `preflight` also consults the seam report and the
observation statistics, whose outcome is a flag (`inDistribution`).
`SafetySupervisor` calls every method with every argument in any order, so what
holds there holds for any caller.

### ServoNode

One action per callback, service or process event. `ControlCycle` has four
alternatives along its early returns: no IMU sample, a monitor trips, nothing to
write, a goal is written. The order in time of a cycle is kept (`CycleReads`): the age of the
command is taken, then the telemetry poll may block for up to `PollTicks` control periods,
then the monitors judge the age that was taken, then the goal is written; `age'` is the age
of the command at the write. `EnterFault` is `_enter_fault`: only the first one
writes torque-off. A write is delivered, lost, raises (serial failure: the
exception leaves the callback, `rclpy.spin` and `main`, whose `finally` cuts
torque) or is rejected (`ServoBusError`, a count out of range, which trips
`WRITE_REJECTED`). `order` is the last torque write; `torque` and `goal` are
registers in the servos, which outlive the process. `AuthorityNow` is the refinement
mapping.

### GaitRules and GaitSequencer

One operator per method, `Step` being the whole of `step()`. The joint targets are
abstracted to what they are made of: `shares` says what part of the latest target is the
walking policy's, the standing policy's and the nominal pose, in units of 1/`Whole`
(`CrouchMix`, `RecoverMix`, `Shares`); it follows each branch of `step()` that computes a
target, the frozen ones (`_blend_from`) included. `walkAction` is the walk node's
`_walk_action`, the action history the walking policy is shown: zero, or its own.
`pendingFor` and `awayFor` are history clocks: cycles since a stop was requested,
and since the robot left STAND. `StopTicks` and `AwayTicks` are the bounds.

### WalkProcess

`pc` walks through `main()`: in `spin` any one callback may run, then `check`
looks at interrupts and deadline, `closing` is the `finally` clause. `OnSigint` is
enabled everywhere before that clause, also at `granting`, which is between
`request_walk`'s first assignment and the rest. In `closing` a SIGINT meets
`SIG_DFL` and kills. `waited` counts control periods since the first Ctrl-C;
`lag` those of them in which the sequencer was not stepped; `dropped` records that
a granted walk overwrote a Ctrl-C's stop. `posted` is the latched status topic,
`heard` what the walk node last took from it.

### Calibration

`file` is what a process that opens `calibration.yaml` finds; `onDisk` is the set of
contents a power cut now may leave there. `Replace` (the rename) changes the first and
only adds to the second; `SyncDir` (the directory's fsync) reduces the second to the
first; a rename over a file that was not synchronised adds `Torn`. A session's `pc`
follows `main()` and `run_joint`: `loading`, `capturing`, `recorded` (in memory),
`written` (temporary file synchronised), `replaced`, and back. `Ends` is every other way
out: q, Ctrl-C, an exception (one raised by save() before the rename included), a kill.
A configuration is the sequence of its joints with their settings, and its fingerprint is
the configuration itself; `setting` stands for the five numbers `validate` compares one by
one. A `take` counts captures, so that a later one can be told from an earlier one.
`lapses` is a history variable: `overlap` when a session replaces a file that another one
has replaced since it knew it, `unsynced` when the directory could not be synchronised.
Deleting the file by hand (`EraseFile`, which the header of the file suggests) happens
while no session works; it also ends the claim of what was saved.

### JointCapture

One step is one look at the bus (`LookForZero`, `LookForLimit`) or one at the keyboard,
as in the loops of `_capture_zero` and `_capture_limit`. The shaft (`at`) moves at most
`MaxMove` counts between two looks; the bus answers with its remainder, or misses the read
after its retries, which takes `MissTicks` of a frame's time instead of one. A `lapse` is
a reading `AngleTracker` cannot be expected to survive: half a turn between two answers,
or a glitch. `origin`, `seen` and `held` are history variables: the turns the tracker
started at, where the shaft was last seen, and how long the joint has been held at its
target.

### JointMap and JointDrive

An angle is an integer in fractions of an encoder count (`Sub` of them make one), so that
`rint` really rounds, ties to even included. `Constructs` is what `JointMap.__init__` lets
pass, `SeamFree` what `seam_violations` does; `JointDrive` starts, as the node does, only on
a file that passes both. `shaft` is the count the encoder would show if it did not wrap. The
servo (`Turns`, external) goes from the count it reads towards its goal through the counts
between; a limp joint is moved by hand, up to less than half a turn from its zero. `sup` is
the record of `SafetyRules`, with vectors of one joint. `near` is a history variable: the
joint was armed no further outside its envelope than the seam margin.

### ServoBus

`pc` is where the control cycle waits: for positions (`reading`), for a health sample
(`polling`), for one of the three repetitions that `_confirm_temperature` makes
(`confirming`), or between. `Send` clears the input, writes a request and puts on the wire
the answers it will get; some get lost, some carry a wrong temperature. `wire` is a bag, so
that a late reply and the equal reply to a retry are two. Replies arrive one
by one, in any order, and count if their id was asked and has not answered (`Parsed`); an
attempt ends when it has all or its window has passed. Over the attempts of a call the most
complete set of answers is kept (`frames`, `Best`). A reply may outlive its window and
meet the next attempt or the next call: the input is cleared when a
request is written, not while it waits. `call.exposed` records that a reply of an earlier
call was still to come when an attempt of this one began. A position read as health shows the position's
high byte as a temperature, at most 15. `own`, `faults` and `glitches` are history.

### ImuDriver

One run covers the values of the parameter `protocol`. A timer callback asks, times out or
neither (`Asks`, `TimesOut`, `OnlyReads`), reads the port, and then iterates `parseBuffer`
until it returns; each iteration is an action, and nothing else of the node runs between.
A frame or reply holds a measurement with all its axes, except that in high precision on
TTL and CAN the angle of each axis comes in a frame of its own (`ByAxis`), with a data byte
that names the axis (`OfAxis`); `Stored` then sets that axis only.
On TTL and CAN `rxBuffer` holds bytes, each with its place in its frame; a checksum passes
for the bytes of one undamaged frame. On RS485 it holds replies; a damaged length byte
(`"length"`) makes the parser wait until `Swallow` more have come, which are then handled in
one go under whatever request is current. `data` says of each measurement, and of each axis of the
angle, whether what is published as it is one. `lost`, `late` and `faults` are history.

## Runs

| Run | States | Shows |
|---|---|---|
| `supervisor` | 112 000 | safety properties of the supervisor under any calls |
| `servo_node` | 627 000 | safety and refinement of the executor node |
| `servo_node_live` | 82 000 | no goal jumps; a fall, and at full rate a dead policy, are answered |
| `gait` | 48 000 | bounded, gradual, cold; first reason kept |
| `walk_process` | 903 000 | grace period, Ctrl-C, status topic |
| `walk_process_race` | violation | finding 1 |
| `calibration` | 1 549 000 | file, saved work, gate, exit code |
| `joint_capture` | 1 343 000 | tracking, zero, limits and what is saved of them |
| `joint_drive` | 700 000 | goals, encoder seam and stops |
| `joint_drive_seam` | violation | finding 2 |
| `servo_bus` | 399 000 | cross-talk, glitches, the telemetry rotation |
| `imu_driver` | 1 405 000 | framing, attribution, polling |

The type invariants of the modules with proofs are proved, each as a theorem or as part of
the inductive invariant.

**supervisor.** `CommandInEnvelope`: no command leaves the envelope, wherever in
the arming tolerance the robot started. `RunningIsRamped`: RUNNING is reached only
through a whole ramp. `RampIsGradual`: n cycles into a ramp, the command is within
n ramp steps of the pose the robot was armed in (or its nearest bound), after any
history of arming and disarming. `MonitorsBite`: no calls leave a counter at its
limit in a supervisor that has not tripped. `SlewBounded`: a
command differs from the last by a rate-limit step at most, or by the excursion of
a robot armed outside its envelope. *Bounds:* two joints with different envelopes,
so that a mix-up of joints shows; poses outside, on and inside the envelope; a ramp
of three cycles; persistence limits of two (one for the stall error), so that a
counter can be reset half-way; arming tolerance larger than a ramp step, as 5
degrees is larger than 1 rad/s over a cycle.

**servo_node.** `OrderFollowsState`: between callbacks the last torque order
agrees with the state, and every way into FAULT has been announced and ordered
off, though `_enter_fault` acts only once and may be left by an exception.
`GoalsAreSafe`: a goal is the measured pose, parked, or a shaped command in the
envelope that the supervisor remembers, one step from the one it remembered before.
`RunningOnFreshCommands`: at full rate a goal is
written only from a command that was younger than the timeout when the cycle took its age,
in the cycle it turns stale too; the telemetry poll between that and the write may carry it
past the timeout, by no more than one poll, however long earlier polls kept the callbacks
waiting. `DryRunWritesNothing`. `ImplementsAuthority`: refinement of `MotorAuthority`.
*Bounds:* one joint (the node treats joints alike and its writes are broadcasts;
the differences between joints are the supervisor's, checked above), two poses (one
outside the envelope by exactly the arming tolerance, one on its upper bound), two
starts of the process (a second start meets whatever the first left in the
registers), command timeout of two cycles, two missed reads, a poll that takes up to one
control period (up to four reads of 30 ms and more in the code, three periods; the theorem
holds for any length). The time between the monitors of two cycles is counted as one period
plus what the polls took: no less than it can be, since the timer does not fire while a poll
blocks. A command's age counts from its arrival in the callback, as in the code.

**servo_node_live.** With `ControlCycle` weakly fair: a robot reported as fallen
does not stay powered while the reports last, and a policy lost while RUNNING ends
in a fault or comes back. *Fairness:* the control timer (`create_timer` in
`__init__`) fires as long as the process spins; nothing is assumed of messages,
the operator, the policy or the bus. `Rearms = FALSE`: an operator who presses arm
again in every cycle restarts the ramp for ever, which would satisfy the property
without showing anything. `NoGoalJumps`: what the joint is told differs from what it was
told before by one step of the rate limit, or is the pose it was measured in. It is the rate
limit end to end, in the registers of the servos rather than in the supervisor's memory, and
over disarming, moving the robot by hand and arming it again. It holds on a bus that loses
no write, which is the bus of this run: a lost write goes unnoticed, the supervisor steps
on, and the servos are a step further behind. In the `servo_node` run, which loses writes,
it is false. *Bounds:* as above with one start, a bus that raises but loses nothing, and a
stall monitor no reading reaches: otherwise fairness, which asks of the timer a cycle that
changes something, would make a motionless robot trip it and answer every dead policy.

**gait.** All 36 combinations of styles, `cmd_during_crouch` and stop phase.
`StopsInTime`: whenever a stop pends, the robot stands within `StopTicks +
RecoverTicks`, where `StopTicks` covers a ramp or the maximal wait: the cap on
waiting for a phase must work even when the phase never comes near. `WalkIsBounded`:
nobody need ask. `FirstReasonKept`. `ColdStart`: when WALK is entered after an
open-loop descent, clock, command, the
walking policy's share and the action history it is shown are zero, in the first walk as
in any later one. `StandstillByDefault`. `HandOversAreGradual`: in all three crouch styles,
`blend_walk` included, and all recover styles, no part of the target moves further in a
cycle than the pace of its mode (1/`CrouchTicks` of the whole on the way down,
1/`RecoverTicks` on the way up, twice that in `via_crouch`, none in between), across the
borders of modes and the middle of `via_crouch` too, and a recovery only takes from the
walking policy and only gives to the standing one. Two cycles are excepted, each by a
definition of its own: the cold start from the nominal pose (`ColdHandOver`), and the first
cycle of a recovery from a descent in which the walking policy did not have the whole target
yet (`AbandonsDescent`, see below). *Bounds:* a maximal wait longer than
the ramp and shorter than a gait period, so that it ends a wait; a walk longer than
a period; an odd recovery, so that its half is not a cycle.

**walk_process.** `GraceCoversHandBack`: main() runs out of patience with a
hand-back it asked for only when the sequencer missed more periods than the spare
time (`SpareTicks`) holds. `NoWalkAfterCtrlC`: from a Ctrl-C that was not
overwritten on, the mode only moves towards STAND. `ReportIsCurrentOrComing`: the
walk service errs about the servos being RUNNING only while the correcting message
is in the queue. `CtrlCEnds`: after Ctrl-C the process exits, also when no joint state
ever arrives again. *Bounds:* as in the shipped parameters the walk outlasts the grace
period (4 ticks of walking, a grace of 3); with a stop phase, so that a hand-back may
take its longest; no margin, so that a grace period a tick too short shows. *Fairness:*
weak on the steps of `main()` itself (`LoopCheck`, `WalkGranted`, `Close`: sequential
code that does not block), strong on `ControlCycle`: the executor takes ready timers
first in each round, so a timer that is ready again and again is served again and again,
whatever else is queued. It is the timer that makes the clock of this model advance.

**calibration.** `FileIsWhole`: a power cut anywhere leaves a readable file.
`WorkSurvives`: a joint reported as saved stays in the file, in that take or a later one,
unless one of exactly two lapses happened. `AcceptedIsCalibrated`: for every
configuration, not only the current one, an accepted file has each joint captured under
the settings the configuration gives it; the fingerprint alone would not ensure it, as
recapturing one joint renews it for all. `ReadyMeansReady`: a session's exit code, from
its memory, agrees with the gate unless its file was replaced meanwhile. *Bounds:* two
sessions (an overlap needs two, and a third adds no kind of step), two joints,
configurations that differ in one joint's setting or in the order only, two captures, one
edit or erasure, one power cut, which may fall into either session's save().

**joint_capture.** `TrackerIsExact`: the unwrapped angle is the shaft's, across the seam
in both directions and over missed reads. `ZeroIsLive`: the zero is where the shaft was in
the frame ENTER was pressed. `HeldIsRecorded`: nobody holds a joint at its target for a
dwell without its being recorded, however many reads are missed. `SavedLimitsDecode`: what
is saved, remainders of a turn, decodes by `raw_to_deg` to the angles captured. *Bounds:* a
turn of six counts with a shaft that ranges over one and a half, so that zero and limits
lie on either side of the seam; moves of up to two counts, so that two frames and a missed
one add up to more than half a turn (which is a lapse); a dwell longer than a missed frame
but shorter than two; one lapse. One joint turns with the encoder, one against it, and has
its zero as a limit, which is confirmed by hand.

**joint_drive.** `GoesWhereTold`: where a powered servo comes to rest is where the
supervisor wants it, on the same turn, for any joint armed from within the seam margin.
`KeepsOffTheStops`: at full rate no command is within the limit margin of a measured stop
or beyond a limit of the model, but for the nominal pose. *Bounds:* a turn of 13 counts,
half-count angles, margins of a count; six files, of which three are accepted: a centred
one and two that lie as near to one end of the encoder as the seam check admits; the others
are refused for the seam, a shared servo and an ambiguous name. Hand movement stays within
5 of 13 counts of the zero, less than half a turn, beyond which no reading can tell the
turn; arming tolerates 3 counts outside the envelope, the seam margin is 1 (57 and 16 of
4096 in the code).

**servo_bus.** `AnswersAreOwn`: unless a reply of an earlier call was still to come when an
attempt of a call began, what it parses, and keeps over its attempts, answers it;
neither the echo nor what lay in the input is taken
for a reply. `GlitchesAreDiscarded`: a servo that is not hot is recorded as hot only after
three wrong temperatures. `HotIsReported`: one that overheats is recorded as hot, and stays
so. *Bounds:* two servos, polled in turn every second cycle (10 and 10 in the code:
`PolledServo` divides the cycle by a constant 10 whatever `health_check_period_cycles` is,
so that other periods may skip servos); one retry, as shipped; three faults (a loss, a late
reply, a wrong value), since three is what it takes to break `GlitchesAreDiscarded` if
nothing but the count protected it, and both answers of a sync read may be late. *Fairness:*
the timer fires and every wait has a deadline (`BusStep`); no reply stays on the wire for
good (`ArrivesLate`). Faults are finite in a behaviour, so the property says that they only
delay.

**imu_driver.** `DamageIsLocal`: while no data byte looks like a header, a lost or damaged
byte costs at most two frames. `WrongNeedsCause`: only CAN, which has no checksum,
publishes a damaged value, and only a reply that outlived its timeout is published under a
wrong name. `HealsItself`: after the last fault what is published becomes right for good,
except for CAN data that looks like headers and RS485 in standard precision.
`EveryRegisterIsPolled`: no fault ends the rotation. *Bounds:* TTL frames of 5 bytes and CAN
frames of 4 (11 and 8 in the code), which keep header, type, axis or data, and checksum
apart; two axes; two
faults, so that a second one may fall into the recovery from the first. Bytes arrive one
at a time, as at 9600 baud and a callback per ms; how they are cut into reads makes no
difference, as `parseBuffer` looks only at the first bytes, a frame's length of them. Two
replies may come between two callbacks. *Fairness:* the timer fires,
the sensor sends, replies arrive.

The `walk_process` and calibration runs are checked without deadlock, because the process
may exit, a session may be over, or a damaged configuration or the bounds leave nothing to
do. All others are checked with it.

## Disagreements between text and code

Each of these is a run TLC ends with a counterexample:

1. `walk_process_race`. "The first Ctrl-C asks the sequencer to stop"
   (`walk_node.py:19-20`). If it falls inside `request_walk`, after `mode` and before
   `_stop_reason` is assigned, the stop is overwritten, the interrupt is counted,
   and the walk outlasts the grace period, after which torque is cut
   while the sequencer is still walking.
2. `joint_drive_seam`. "Starting a little outside is safe in the direction that matters:
   the first command is clamped, so the ramp pulls the joint *inward*"
   (`safety.py:164-165`). Arming tolerates 5 degrees, 57 counts, outside the envelope; the
   seam check keeps 16 counts clear of the wrap (`joint_map.py:351`). A joint armed between
   the two is beyond the wrap: its parked goal is on its own side, the ramp's next goal on
   the other, and the servo turns outward, the long way round.

The models reproduce others, for which the project keeps no run:

- `servo_node.py:20-21`: "A crashed policy node produces a stale command, which is a fault,
  not a frozen limb." Armed on an observation alone, with no command ever received and the
  policy gone, the cycle returns at `_command is None` for good: powered, RAMPING, no
  monitor looking (`CycleIdles`).
- `safety.py:28-30`: lost servos latch FAULT. While `_imu_sample` is None the cycle returns
  before `check_health`, and failed reads are not counted (`CycleWithoutImu`).
- `servo_node.py:531-532`: parking the goal means "enabling torque cannot snap anything to a
  stale target from a previous run". Both are broadcasts without a reply; the first may be
  lost and not the second (`ArmService`).
- `config/joint_limits.yaml:54-55`: "The dwell filters out single-sample noise / encoder
  glitches." A missed read leaves the last angle in place and the dwell running; one reading
  at the target and two missed reads record a limit (`LookForLimit`).
- `wit_ros2_imu.py:98`: the comment on the timeout says 5 ms, the code compares with 50 ms.
  After one reply that outlives it, RS485 in standard precision publishes every measurement
  under the name of the next one until a reply gets lost; in high precision the longer reply
  of the angles does not fit and ends the shift (`HealsItself`).
- `wit_ros2_imu.py:129-133`: a TTL frame whose checksum fails is dropped whole, where RS485
  drops a byte. With data that looks like a header, and stays so, the parser may never find
  its place again (`TakeFrame`; `DamageIsLocal` excepts it).
- `safety.py:8` draws only DISARMED -> RAMPING; `arm()` refuses only FAULT, so it
  also takes RUNNING back to RAMPING (`ArmCall`).
- `safety.py:26-27`: the rate limit "caps per-step change"; the clamp after it
  lets the first command of a robot armed outside its envelope jump to the bound.
  `SlewBounded` states what does hold.
- `config/deploy.yaml:83`: "stale policy command = fault (5 cycles)". The age is taken at
  `servo_node.py:358`, the goal written at `:384`, and in between the telemetry may block on
  up to four reads of the bus, so a goal may be written from a command older than that;
  `RunningOnFreshCommands` states by how much (`CycleReads`).
- `policy_node.py:13-15`: a crashed policy node "cannot drive the robot";
  staleness is checked only while RUNNING, so to the end of the ramp it does.
  `RunningOnFreshCommands` states what does hold.
- `safety.py:17-18`: preflight refuses unless "every servo reads"; `_srv_arm` asks
  only whether they ever did.
- `servo_node.py:277`: the banner "Torque is OFF"; `__init__` writes no torque-off,
  so after a kill the servos are still powered (`Killed`, then `Boot`).
- `test/test_deploy.py:1202-1203`: "Whatever happens on the way in, the robot must
  be commanded to a stop"; with `blend_walk` and `cmd_during_crouch` the hand-back
  starts at a non-zero command. `StandstillByDefault` states what does hold.
- `gait.py:387-389`: after a stop during an open-loop descent "there is no walking policy
  to hand back from"; yet TO_STAND evaluates it and blends it in, and its first target is not
  where the descent was left (`AbandonsDescent`, `Shares`).
- `walk_node.py:342-344`: "Both policies are evaluated every cycle ... The one that is not
  driving is kept warm". The walking policy is evaluated only while `seq.walking` (`:350`);
  a second walk in `blend_walk` starts with the last action of the first one's hand-back as
  its history (`walkAction`; `ColdStart` is about the other styles).
- `docs/run_camp_F2.md:157`: "Ctrl-C twice exits and drops torque"; the handler is reset
  to `SIG_DFL` before `servo.shutdown()`, and a Ctrl-C in between kills a process whose
  servos stay powered (`KilledWhileClosing`).
- `calibration_store.py:162-165`: after joints were reordered or removed the gate says
  "re-run calibration for the affected joints"; no joint is stale then, and `calibrate`
  answers "nothing to calibrate -- every joint is already done" and exits with 0
  (`Accepts`, `Todo`).
- `humanoid_calibration/README.md:100`: "quitting or losing power never costs you
  completed work"; two sessions at once, or a directory whose fsync fails, do
  (`WorkSurvives` states what holds). `record()` also turns a file of an old version into
  a current one with its first joint, the old entries included.
- `calibrate_cli.py:308`: a limit that is confirmed by hand is accepted on a dead read,
  which the zero never is (`EnterLimit`, `EnterZero`).
- `docs/run_camp_F2.md:156`: after one Ctrl-C "the robot stays up"; `main()` leaves
  its loop and cuts torque as soon as the sequencer is idle.

## Proofs

For every set of joints, every envelope, threshold, duration, style, frame length and bound,
from the named assumptions on the constants only (`ThresholdAssumption`,
`EnvelopeAssumption`, `NoTargetAssumption`, `ArgumentsAssumption`, `NodeAssumption`,
`GaitAssumption`, `OfferedAssumption`, `ProcessAssumption`, `ConfigsAssumption`,
`BoundsAssumption`, `CaptureAssumption`, `MapAssumption`, `DriveAssumption`, `BusAssumption`,
`ImuAssumption`: they say what the configuration classes validate, e.g. that a duration is
positive or no joint is named twice, and that a frame has at least three bytes; TLC evaluates
each). All invariants and action properties that the passing runs check are theorems:

- **Supervisor** (`SafetySupervisorProofs`): all five properties of its run, its type
  invariant, and that a fault and its cause are kept (`FaultIsTerminal`).
  Inductive invariant `IInv`: `Sound(sup)` and the range of the latest command.
  None of the properties is inductive alone. `CommandInEnvelope` is about an output;
  `RampIsGradual` needs that the ramp clock is below `RampTicks` and that last
  target and ramp start are angles while armed; `RunningIsRamped` needs that a
  completed ramp ended inside the envelope, which is the reason for the second clamp.
  Every operator of `SafetyRules` is shown to keep `Sound`; the step lemmas
  about clamping and rate limiting (`ClampedStep`, `RampStepFurther`) carry the
  arithmetic.
- **Executor node** (`ServoNodeProofs`): all five properties of the `servo_node` run, the
  refinement `Spec => ImplementsAuthority` included, and its type invariant. Invariant `NodeInv`: types,
  `Sound(sup)` (by the same lemmas), `OrderFollowsState`, and `Silent`: a dry run or
  a process that is down has ordered nothing. `Lawful` says of a step what the
  abstract specification allows; each action is shown to keep `NodeInv` and be lawful
  in one lemma (`...Kept`), and the refinement follows by cases on the action.
  `FreshWhileRunning` holds for polls of any length.
  `GoalsNeverJump` (`NoGoalJumps`) assumes `"lost" \notin WriteOutcomes`, and nothing else of
  the bus: writes may raise or be rejected. It needs that the servos hold, while armed, the
  target the supervisor takes its next step from (`HeldIsTold`, theorem `HeldGoalIsTold`),
  which is inductive with `NodeInv`: the goal is parked in the same callback that resets the
  last target, and an exception on the way leaves a process that is not armed.
- **Sequencer** (`GaitProofs`): all six properties of its run and its type
  invariant. `Good`
  says for each mode how far its clocks have run: in WALK with a stop pending, each
  cycle takes the command a step nearer to zero and the wait a step nearer to its
  cap (`g.cmd = 0 \/ g.cmd + g.waited <= CmdRampTicks`), which bounds the time.
  Requests and steps are shown to keep `Good`. `MInv` adds
  what the latest target was made of (`MixFits`), mode by mode: `HandOversFade`
  (`HandOversAreGradual`) compares it with what the step makes of it. `StartsCold` proves
  `ColdStart`.
- **Walking process** (`GaitProofs`): all three safety properties of its run and its
  type invariant. `WInv`
  reuses `Good` with existentially quantified clocks (the process keeps no history
  clock of its own) and `Covered`: a control period since the first Ctrl-C was
  stepped with the stop pending, waits as a message, or is counted in `lag`. The
  grace period then follows by arithmetic. `RInv` is about the status topic: what is
  in the queue never overstates the authority there is.

- **Calibration** (`CalibrationProofs`): all four properties of its run and its type
  invariant. `FileIsWhole`
  needs that what is about to be renamed was synchronised (`WholeInv`). For `WorkSurvives`
  the reported joints are not enough: between the rename and the report a joint is in the
  file and not yet claimed, and another session may load it. `ClaimsKept` therefore counts
  it as a claim as soon as it is renamed, and says that, as long as nothing lapsed, the
  file and the memory of every session that knows the file keep all claims, and all that a
  power cut may leave keeps the reported ones. `TakesCounted` orders the takes.
  `AcceptedIsCalibrated` follows from types and `WorkSurvives`; `ReadyMeansReady` from
  `KnowsFile`: a session whose file nobody replaced has it in memory between saves.
- **One joint's capture** (`JointCaptureProofs`): all four properties of its run and its type
  invariant, for every encoder turn, range, speed of the hand, tolerance and dwell.
  `TrackerIsExact` is inductive once the tracker is known to start at a multiple of a turn:
  as long as the difference of two answered reads is less than half a turn, the remainder
  of that difference, taken the shortest way, is the difference itself (`NearestRest`). The
  rest needs `Clocked`: the dwell clock runs only while the angle is at the target, and has
  run at least as long as the joint was held there, over missed reads too. `SavedIsRecorded`
  takes the same lemma the other way round: a limit less than half a turn from its zero is
  what the nearest representative of its remainder decodes to.
- **Joint map and drive** (`JointDriveProofs`): both properties of the `joint_drive` run and
  its type invariant, for every encoder turn, resolution, set of names, file and margin.
  About the operators: names that resolve do so one to one (`NameMapBijective`); a count
  read and converted to an angle converts back to itself, for either sign (`RoundTrip`); the
  envelope of an accepted joint exceeds its measured travel and the model's limits by no
  more than the nominal pose may miss (`EnvelopeIsReachable`); in a file the seam
  check passes, an angle in the envelope, or outside it by no more than the seam margin, is
  told as a goal on the turn, so that the remainder taken of it changes nothing
  (`NoGoalIsWrapped`). The last needs that rounding ties to even cannot cross a whole count
  (`RintBounded`, `RintWhole`). `DInv` adds to types: the file is one that passed both checks;
  the shaft of a powered joint that was armed from nearby is on the turn, its target within
  the seam margin of the envelope, and its goal is what that target converts to (`OnTurn`);
  torque is on exactly while armed, and a joint that is RUNNING has its target in the
  envelope (`Bookkept`). Each cycle shapes a target between the last one and the envelope
  (`CycleShape`), which is why a small excursion at arming cannot grow into one beyond the
  wrap. `NeverTheLongWay` and `StopsAreRespected` follow from `DInv`.

- **Servo bus** (`ServoBusProofs`): both safety properties of its run, for any number of
  servos, retries and faults and any polling period. `AnswersAreOwn` rests on `Owned`: while a call
  that always found the wire quiet waits, only answers to it are to come, and an answer of
  its own has its register. `GlitchesAreDiscarded` is a count (`GlitchesCount`): each hot reply of a
  servo that is not hot is on the wire, in time or late (the bag counts them), or parsed and
  not yet looked at, or counted by `_confirm_temperature`; each was paid for
  by a glitch of its own, and none is
  counted twice, because a call parses one reply per servo. Three are counted before the
  servo is recorded as hot.
- **IMU driver** (`ImuDriverProofs`): both safety properties of its run, for frames of every
  length from three bytes and any number of faults. A *scar* is a place among the bytes not yet
  parsed that shows a fault: a damaged byte, or one not followed by the next of its frame (the
  last one, by a header). A fault
  leaves one scar at most: it damages one byte, or takes one out and leaves one place where
  two bytes do not fit. Where no data looks like a header, the parser loses a header only by
  dropping a frame with a scar in it, and two at most per scar, since a frame-sized piece
  with k scars holds at most k + 1 headers (`LostHeaders`). So `lost + 2 * scars <= 2 *
  faults` (`Charged`), from which `DamageIsLocal` follows. `WrongNeedsCause` takes three
  arguments: the checksum for TTL, for CAN that the parser stands at the beginning of a
  frame until the first fault (`InStep`), and for RS485 that one reply is under way at most
  until one is late (`OneAtATime`). The library's induction theorems take an operator as
  parameter, which none of the provers instantiates; where a number has to be the first with
  some property, `EveryNatural` and `LeastElement` prove induction for sets, from the fact
  that no finite set has a one-to-one map into itself that misses a member.

Only model-checked: the liveness properties `FallIsAnswered`, `RunningPolicyLossFaults`,
`CtrlCEnds`, `HotIsReported`, `HealsItself` and `EveryRegisterIsPolled` (fairness and
ENABLED are beyond the proof system), and the two violations, which are counterexamples.

## Abstractions and what is left out

- Angles are integers and time is counted in control cycles. Floating-point rounding
  is not modelled; `SafetyRules.Blend` divides integers and the step lemmas hold for
  that division.
- `SafetyRules` leaves out texts of reports. Velocity estimation and log lines of the
  executor node are left out; in `ServoNode` round-robin telemetry is reduced to what it may
  add to one cycle (`HealthResults`), and `ServoBus` has the telemetry itself.
- `servo_node` runs a fall limit of one cycle and no overheating; both are in the
  `supervisor` run, and the theorems about the node hold for any limits and any
  telemetry.
- Joint targets and the policies' outputs are abstracted to the shares of the two policies
  and the nominal pose in a target. A policy's output is taken to be continuous; that it
  changes from cycle to cycle is not told apart.
- In `WalkProcess` writes are delivered (losses are `ServoNode`'s subject); a status
  message is published on every change of authority and, in the code, every 25th cycle,
  which is a nondeterministic choice; of the points inside callbacks where SIGINT may
  fall only the one inside `request_walk` is distinguished, since a handler running
  elsewhere inside a callback touches nothing the rest of that callback assigns or
  acts as if it ran before or after it. `joints` is a queue of depth one, as in the
  subscription's quality of service.
- In `JointMap` an angle is a whole number of fractions of a count, so conversions round
  but floating point does not; `describe()`, a report, is left out. `JointDrive` follows one
  joint: joints share neither map nor servo. Reads fail only as a whole there.
- In `ServoBus` a packet arrives whole or not at all: a packet with a damaged checksum is
  rejected by the driver, which is a loss. A ping is a read without a value. Voltage, current
  and status bits travel with the temperature and are not told from it. The IMU is taken to
  report, so that every cycle gets to the telemetry.
- In `ImuDriver` scales, the quaternion and printing are left out. On RS485 a reply is one
  item, not bytes. A checksum is taken to catch every damage. The node's shutdown and a port that cannot be
  opened are left out.
- Not modelled: the networks and their bundles and IMU filtering (real arithmetic and
  no control state; their outcomes are inputs of the models), the verifier and the
  bench tools (they change nothing the deployed system keeps), terminal input and output.
- In `Calibration` what a joint measured is a number. The bench override of the guard
  (`HUMANOID_ALLOW_UNCALIBRATED` turns the refusal into a warning) and the topic of the
  status node are left out, and `clear()`, which nothing calls. The fingerprint is taken to
  be injective. A file edited by hand is not considered.
- In `JointCapture` a glitch is any wrong count, once; the bus check before a session,
  the display and the mock reader are left out. Rounding of an unwrapped count is the
  identity, since it is an integer.
- The walk node's `trim` and `crouch_only` parameters, and checks of the bundles at start.

## Plan

Done: supervisor, executor node, sequencer, walking process, calibration store, guard and
sessions, one joint's capture, joint map and drive, the servo bus with its telemetry and the
IMU driver are modelled, checked and proved.

Left, in order of importance:

1. Composition: `WalkProcess` with `ServoNode` itself in place of `MotorAuthority`, on
   a small instance, and the sequencer's targets fed to `Shape`, so that the rate limit
   across a hand-over is checked end to end.
2. The status node's topic, and the check of the bus before a session.
