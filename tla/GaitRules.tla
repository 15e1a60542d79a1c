------------------------------- MODULE GaitRules -------------------------------
(***************************************************************************)
(* The stand -> walk -> stand sequencer of humanoid_deploy/gait.py, one    *)
(* operator per method of GaitSequencer.  c is its GaitConfig, g the       *)
(* record of its attributes.                                               *)
(*                                                                         *)
(* Time is counted in control cycles (control_dt), the velocity command in *)
(* steps of its ramp, the gait clock in phase increments.  Of a target it  *)
(* is kept how much of it is the walking policy's, the standing policy's   *)
(* and the nominal pose, in units of 1/Whole.                              *)
(***************************************************************************)
EXTENDS Integers

CONSTANTS
  CrouchTicks,    \* crouch_s
  SettleTicks,    \* settle_s
  WalkTicks,      \* walk_duration_s
  RecoverTicks,   \* recover_s
  CmdRampTicks,   \* cmd_ramp_s
  MaxStopWait,    \* max_stop_wait_s
  PhasePeriod,    \* 1 / phase_increment
  NoPhase         \* Python's None, for stop_phase

\* What GaitConfig.validate() refuses not to hold.
ASSUME GaitAssumption ==
  /\ CrouchTicks \in Nat \ {0}
  /\ SettleTicks \in Nat
  /\ WalkTicks \in Nat \ {0}
  /\ RecoverTicks \in Nat \ {0}
  /\ CmdRampTicks \in Nat \ {0}
  /\ MaxStopWait \in Nat
  /\ PhasePeriod \in Nat \ {0}
  /\ NoPhase \notin Nat

Modes == {"stand", "to_crouch", "settle", "walk", "to_stand"}

Phases == 0 .. PhasePeriod - 1

Configs ==
  [ crouch    : {"ramp", "blend_stand", "blend_walk"},   \* crouch_style
    recover   : {"blend", "freeze", "via_crouch"},       \* recover_style
    duringCrouch : BOOLEAN,                              \* cmd_during_crouch
    stopPhase : Phases \cup {NoPhase} ]

Reasons == {"operator", "tilt", "ctrl-c", "duration"}

Most(a, b) == IF a < b THEN b ELSE a

-----------------------------------------------------------------------------
(* Attributes and requests.                                                *)

InitGait ==
  [ mode |-> "stand", elapsed |-> 0, phase |-> 0, cmd |-> 0,
    stop |-> "none", waited |-> 0, started |-> FALSE, exit |-> "none" ]

MayWalk(g) == g.mode = "stand"

\* request_walk(), when it is not refused.
RequestWalk(g) ==
  [ mode |-> "to_crouch", elapsed |-> 0, phase |-> 0, cmd |-> 0,
    stop |-> "none", waited |-> 0, started |-> FALSE, exit |-> g.exit ]

Pending(g) == g.stop # "none"

\* Faulty variant of RequestStop: the latest reason wins.
LatestReason(g, reason) ==
  IF g.mode = "stand" THEN g ELSE [g EXCEPT !.stop = reason]

\* request_stop(): nothing to stop while standing; the first reason is kept.
RequestStop(g, reason) ==
  IF g.mode = "stand" \/ Pending(g) THEN g ELSE [g EXCEPT !.stop = reason]

\* walking: does the caller evaluate the walking policy this cycle?
Walking(c, g) ==
  IF g.mode \in {"to_crouch", "settle"} THEN c.crouch = "blend_walk"
  ELSE g.mode \in {"walk", "to_stand"}

-----------------------------------------------------------------------------
(* The velocity command and the gait clock.                                *)

\* Faulty variant of WantedCommand: cmd_during_crouch counts in every style.
WantedInAnyCrouch(c, g) ==
  LET full == \/ g.mode = "walk" /\ WalkTicks - g.elapsed > CmdRampTicks
              \/ c.duringCrouch /\ g.mode \in {"to_crouch", "settle"}
  IN  IF ~Pending(g) /\ full THEN CmdRampTicks ELSE 0

\* Full while walking, until one ramp before the end; zero once a stop pends.
WantedCommand(c, g) ==
  LET full == \/ g.mode = "walk" /\ WalkTicks - g.elapsed > CmdRampTicks
              \/ /\ c.duringCrouch /\ c.crouch = "blend_walk"
                 /\ g.mode \in {"to_crouch", "settle"}
  IN  IF ~Pending(g) /\ full THEN CmdRampTicks ELSE 0

Slewed(cmd, want) ==
  IF want > cmd THEN cmd + 1 ELSE IF want < cmd THEN cmd - 1 ELSE cmd

NextPhase(p) == (p + 1) % PhasePeriod

\* The gait clock runs only while the walking policy has a live share.
ClockRuns(c, g) ==
  CASE g.mode \in {"to_crouch", "settle"} -> c.crouch = "blend_walk"
    [] g.mode = "walk" -> TRUE
    [] g.mode = "to_stand" -> \/ c.recover = "blend"
                              \/ c.recover = "via_crouch" /\ 2 * (g.elapsed + 1) < RecoverTicks
    [] OTHER -> FALSE

NearStopPhase(c, phase) == c.stopPhase = NoPhase \/ phase = c.stopPhase

-----------------------------------------------------------------------------
(* The cycle: step().  Its callers pass the walking policy's target exactly *)
(* when Walking(c, g).                                                      *)

EnterToStand(g) == [g EXCEPT !.mode = "to_stand", !.elapsed = 0]

\* g after the slew, the clock and the elapsed time, which every mode but
\* STAND advances first.
Advanced(c, g) ==
  [ g EXCEPT !.cmd = Slewed(g.cmd, WantedCommand(c, g)),
             !.elapsed = IF g.mode = "stand" THEN @ ELSE @ + 1,
             !.phase = IF ClockRuns(c, g) THEN NextPhase(@) ELSE @ ]

\* a is Advanced(c, g) in each of these.
StepCrouch(a) ==
  IF Pending(a) THEN EnterToStand(a)
  ELSE IF a.elapsed >= CrouchTicks THEN [a EXCEPT !.mode = "settle", !.elapsed = 0]
  ELSE a

\* Faulty variant of StepSettle: a stop that comes while it settles is not seen.
SettlesOn(c, a) ==
  IF a.elapsed < SettleTicks THEN a
  ELSE IF c.crouch = "blend_walk" THEN [a EXCEPT !.mode = "walk", !.elapsed = 0]
  ELSE [a EXCEPT !.mode = "walk", !.elapsed = 0, !.phase = 0, !.started = TRUE]

\* The walking policy is handed the robot: a cold start, unless it has been
\* driving since the descent.
StepSettle(c, a) ==
  IF Pending(a) THEN EnterToStand(a)
  ELSE IF a.elapsed < SettleTicks THEN a
  ELSE IF c.crouch = "blend_walk" THEN [a EXCEPT !.mode = "walk", !.elapsed = 0]
  ELSE [a EXCEPT !.mode = "walk", !.elapsed = 0, !.phase = 0, !.started = TRUE]

\* Faulty variants of StepWalk: it hands back without waiting for standstill; it
\* waits for the stop phase however long that takes; and the walk does not end
\* by itself.
HandsBackAtOnce(c, a) ==
  IF Pending(a) \/ a.elapsed >= WalkTicks
    THEN EnterToStand(RequestStop(a, "duration")) ELSE a

WaitsForPhase(c, a) ==
  LET s == IF a.elapsed >= WalkTicks THEN RequestStop(a, "duration") ELSE a
      w == [s EXCEPT !.waited = IF Pending(s) THEN @ + 1 ELSE @]
  IN  IF Pending(w) /\ w.cmd = 0 /\ NearStopPhase(c, w.phase) THEN EnterToStand(w) ELSE w

WalksOn(c, a) ==
  LET w == [a EXCEPT !.waited = IF Pending(a) THEN @ + 1 ELSE @]
  IN  IF Pending(w) /\ w.cmd = 0 THEN EnterToStand(w) ELSE w

\* The walk ends by itself after WalkTicks; a pending stop first brings the
\* command to zero, then waits for the stop phase, but not for long.
StepWalk(c, a) ==
  LET s == IF a.elapsed >= WalkTicks THEN RequestStop(a, "duration") ELSE a
      w == [s EXCEPT !.waited = IF Pending(s) THEN @ + 1 ELSE @]
  IN  IF /\ Pending(w)
         /\ w.cmd = 0
         /\ NearStopPhase(c, w.phase) \/ w.waited >= MaxStopWait
        THEN EnterToStand(w) ELSE w

StepToStand(a) ==
  IF a.elapsed < RecoverTicks THEN a
  ELSE [ a EXCEPT !.mode = "stand", !.elapsed = 0, !.exit = a.stop, !.stop = "none",
                  !.waited = 0, !.started = FALSE ]

Step(c, g) ==
  LET a == Advanced(c, g)
  IN  CASE g.mode = "to_crouch" -> StepCrouch(a)
        [] g.mode = "settle"    -> StepSettle(c, a)
        [] g.mode = "walk"      -> StepWalk(c, a)
        [] g.mode = "to_stand"  -> StepToStand(a)
        [] OTHER                -> a

Whole == CrouchTicks * RecoverTicks

\* What a target is made of, in units of 1/Whole.  A target frozen when a phase
\* began counts as the policy it came from.
Parts == {"walk", "stand", "nominal"}

Mix(walk, stand, nominal) == [walk |-> walk, stand |-> stand, nominal |-> nominal]

Mixes == { m \in [Parts -> 0 .. Whole] : m.walk + m.stand + m.nominal = Whole }

\* alpha, n cycles into the descent and into the recovery.
Descended(n) == IF n < CrouchTicks THEN n * RecoverTicks ELSE Whole

Recovered(n) == IF n < RecoverTicks THEN n * CrouchTicks ELSE Whole

\* The target n cycles into the descent, from the standing policy's.
CrouchMix(c, n) ==
  LET d == Descended(n)
  IN  IF c.crouch = "blend_walk" THEN Mix(d, Whole - d, 0) ELSE Mix(0, Whole - d, d)

\* Faulty variant of RecoverMix: the second half is not counted from the middle.
SecondHalfFromStart(c, n) ==
  LET r == Recovered(n)
  IN  IF c.recover # "via_crouch" THEN Mix(Whole - r, r, 0)
      ELSE IF 2 * r < Whole THEN Mix(Whole - 2 * r, 0, 2 * r) ELSE Mix(0, r, Whole - r)

\* The target n cycles into the recovery, from the walking policy's: straight to
\* the standing policy's, or by way of the nominal pose.
RecoverMix(c, n) ==
  LET r == Recovered(n)
  IN  IF c.recover # "via_crouch" THEN Mix(Whole - r, r, 0)
      ELSE IF 2 * r < Whole THEN Mix(Whole - 2 * r, 0, 2 * r)
      ELSE Mix(0, 2 * r - Whole, 2 * (Whole - r))

\* The target of Step(c, g); its walking share is walk_authority.
Shares(c, g) ==
  CASE g.mode = "to_crouch" -> CrouchMix(c, g.elapsed + 1)
    [] g.mode = "settle"    -> CrouchMix(c, CrouchTicks)
    [] g.mode = "walk"      -> Mix(Whole, 0, 0)
    [] g.mode = "to_stand"  -> RecoverMix(c, g.elapsed + 1)
    [] OTHER                -> Mix(0, Whole, 0)

-----------------------------------------------------------------------------
\* How long coming to a standstill may take, how long a whole walk.
StopTicks == Most(1, Most(CmdRampTicks, MaxStopWait))
AwayTicks ==
  CrouchTicks + Most(1, SettleTicks) + WalkTicks + StopTicks + RecoverTicks

=============================================================================
