------------------------------ MODULE JointCapture ------------------------------
(***************************************************************************)
(* One joint's capture in humanoid_calibration/calibrate_cli.py: zero,     *)
(* minimum and maximum, read frame by frame over a bus that misses reads,  *)
(* from a joint an operator moves by hand.  Angles are encoder counts;     *)
(* the shaft's true position is unbounded by turns, what the bus answers   *)
(* is its remainder, and AngleTracker (feetech_bus.py) puts the turns back.*)
(***************************************************************************)
EXTENDS Integers

CONSTANTS
  Cpr,          \* counts_per_rev
  Positions,    \* where the operator may bring the shaft
  MaxMove,      \* how far it moves between two frames
  Offered,      \* the joints considered: targets and direction
  Tolerance,    \* reach_tolerance_deg
  DwellTicks,   \* dwell_s, in frames
  MissTicks,    \* length of a frame whose read is retried and given up
  MaxLapses,    \* bound: readings that mislead the tracker
  Unknown       \* a reading not there yet

ASSUME CaptureAssumption ==
  /\ Cpr \in Nat \ {0} /\ Positions \subseteq Int
  /\ {MaxMove, Tolerance, MaxLapses} \subseteq Nat
  /\ {DwellTicks, MissTicks} \subseteq Nat \ {0}
  /\ Offered \subseteq [min : Int, max : Int, direction : {1, -1}]
  /\ \A j \in Offered : j.min < j.max
  /\ Unknown \notin Int

VARIABLES
  joint,     \* the JointConfig
  at,        \* the shaft's position
  stage,     \* where run_joint is
  turn,      \* whether its loop reads the bus or the keyboard next
  live,      \* whether this frame's read was answered
  tracked,   \* AngleTracker._unwrapped
  zero,      \* zero_unwrapped
  limit,     \* limits
  since,     \* ticks since reached_since; Unknown while that is None
  seen,      \* history: the shaft at the latest answered read
  origin,    \* history: the turns the tracker started at
  held,      \* history: ticks the joint has been held at the target
  lapses     \* history: misleading readings so far

shaft == <<joint, at, seen, lapses>>
vars == <<joint, at, stage, turn, live, tracked, zero, limit, since, seen, origin,
          held, lapses>>

\* Faulty variant of Update: the seam is crossed in one direction only.
UpdateOneSided(u, raw) ==
  IF u = Unknown THEN raw
  ELSE LET delta == raw - (u % Cpr)
       IN u + (IF 2 * delta > Cpr THEN delta - Cpr ELSE delta)

\* AngleTracker.update.
Update(u, raw) ==
  IF u = Unknown THEN raw
  ELSE LET delta == raw - (u % Cpr)
       IN u + (IF 2 * delta > Cpr THEN delta - Cpr
               ELSE IF 2 * delta < -Cpr THEN delta + Cpr
               ELSE delta)

\* reached(angle) of _capture_limit.
Reached(which, angle) ==
  IF which = "min" THEN angle <= joint.min + Tolerance ELSE angle >= joint.max - Tolerance

AngleOf(u) == joint.direction * (u - zero)

\* A limit the zero pose already satisfies has to be confirmed by hand.
Manual(which) == Reached(which, 0)

\* Faulty variant of Decoded: counts below the zero come out a turn too high.
DecodedUpwards(u) == joint.direction * (((u % Cpr) - (zero % Cpr)) % Cpr)

\* JointCalibration.raw_to_deg on what the calibration file gets.
Decoded(u) ==
  LET delta == ((u % Cpr) - (zero % Cpr)) % Cpr
  IN joint.direction * (IF 2 * delta > Cpr THEN delta - Cpr ELSE delta)

Limits == {"min", "max"}

\* A new AngleTracker, at the head of run_joint's loop.
Afresh ==
  /\ stage' = "zero" /\ turn' = "look" /\ live' = FALSE
  /\ tracked' = Unknown /\ zero' = Unknown
  /\ limit' = [w \in Limits |-> Unknown]
  /\ since' = Unknown /\ origin' = Unknown
  /\ held' = Unknown

Init ==
  /\ joint \in Offered /\ at \in Positions
  /\ stage = "zero" /\ turn = "look" /\ live = FALSE
  /\ tracked = Unknown /\ zero = Unknown
  /\ limit = [w \in Limits |-> Unknown]
  /\ since = Unknown /\ origin = Unknown /\ seen = at
  /\ held = Unknown /\ lapses = 0

-----------------------------------------------------------------------------
(* A frame: the shaft has moved, the bus is read, the limit perhaps taken.  *)

Moves == at' \in { p \in Positions : p - at \in -MaxMove .. MaxMove }

HalfTurn == 2 * (at' - seen) \notin (1 - Cpr) .. (Cpr - 1)

\* An answer; it misleads the tracker if the shaft went half a turn unseen, or
\* if the encoder glitched.
Answered ==
  /\ live' = TRUE
  /\ \E raw \in 0 .. Cpr - 1 :
       /\ tracked' = Update(tracked, raw)
       /\ lapses' = IF raw # at' % Cpr \/ (tracked # Unknown /\ HalfTurn)
                    THEN lapses + 1 ELSE lapses
  /\ lapses' <= MaxLapses
  /\ seen' = at'
  /\ origin' = IF origin = Unknown THEN at' - (at' % Cpr) ELSE origin

Missed ==
  /\ live' = FALSE
  /\ UNCHANGED <<tracked, lapses, seen, origin>>

FrameTicks == IF live' THEN 1 ELSE MissTicks

LookForZero ==
  /\ stage = "zero" /\ turn = "look"
  /\ Moves
  /\ Answered \/ Missed
  /\ turn' = "key"
  /\ UNCHANGED <<joint, stage, zero, limit, since, held>>

\* Faulty variant of SinceAfter: a missed read ends the dwell.
SinceUnlessMissed(which) ==
  IF ~live' \/ Manual(which) \/ ~Reached(which, AngleOf(tracked')) THEN Unknown
  ELSE IF since = Unknown THEN 0
  ELSE since + FrameTicks

\* reached_since after this frame, in ticks before now.
SinceAfter(which) ==
  IF Manual(which) \/ ~Reached(which, AngleOf(tracked')) THEN Unknown
  ELSE IF since = Unknown THEN 0
  ELSE since + FrameTicks

\* How long the operator has held the joint at the target, from the first read
\* on that could tell; of no interest once the tracker was misled.
HeldAfter(which) ==
  IF Manual(which) \/ lapses' > 0 \/ ~Reached(which, AngleOf(at' - origin)) THEN Unknown
  ELSE IF held # Unknown THEN held + FrameTicks
  ELSE IF live' THEN 0
  ELSE Unknown

Captured(which, u) ==
  /\ limit' = [limit EXCEPT ![which] = u]
  /\ stage' = IF which = "min" THEN "max" ELSE "saved"
  /\ turn' = "look"
  /\ since' = Unknown /\ held' = Unknown

DwellIsOver(ticks) == ticks # Unknown /\ ticks >= DwellTicks

LookForLimit(which) ==
  LET reached == SinceAfter(which)
  IN /\ stage = which /\ turn = "look"
     /\ Moves
     /\ Answered \/ Missed
     /\ IF DwellIsOver(reached)
        THEN Captured(which, tracked')
        ELSE /\ turn' = "key"
             /\ since' = reached
             /\ held' = HeldAfter(which)
             /\ UNCHANGED <<stage, limit>>
     /\ UNCHANGED <<joint, zero>>

-----------------------------------------------------------------------------
(* The keyboard, at the end of a frame.                                    *)

NoKey ==
  /\ turn = "key"
  /\ turn' = "look"
  /\ UNCHANGED <<shaft, stage, live, tracked, zero, limit, since, origin, held>>

\* Faulty variant of EnterZero: also on a dead read.
EnterZeroAnyway ==
  /\ stage = "zero" /\ turn = "key"
  /\ tracked # Unknown
  /\ zero' = tracked
  /\ stage' = "min" /\ turn' = "look"
  /\ UNCHANGED <<shaft, live, tracked, limit, since, origin, held>>

\* ENTER sets the zero, but never on a dead read.
EnterZero ==
  /\ stage = "zero" /\ turn = "key"
  /\ live /\ tracked # Unknown
  /\ zero' = tracked
  /\ stage' = "min" /\ turn' = "look"
  /\ UNCHANGED <<shaft, live, tracked, limit, since, origin, held>>

EnterLimit(which) ==
  /\ stage = which /\ turn = "key"
  /\ Manual(which) /\ tracked # Unknown
  /\ Captured(which, tracked)
  /\ UNCHANGED <<shaft, live, tracked, zero, origin>>

Redo ==
  /\ stage \in Limits /\ turn = "key"
  /\ Afresh
  /\ UNCHANGED shaft

\* s or q: nothing of this joint is recorded.
Leaves ==
  /\ stage \in Limits \cup {"zero"} /\ turn = "key"
  /\ stage' = "left"
  /\ UNCHANGED <<shaft, turn, live, tracked, zero, limit, since, origin, held>>

Next ==
  \/ LookForZero \/ \E which \in Limits : LookForLimit(which)
  \/ NoKey \/ EnterZero \/ \E which \in Limits : EnterLimit(which)
  \/ Redo \/ Leaves

Spec == Init /\ [][Next]_vars

-----------------------------------------------------------------------------
(* Safety properties.                                                      *)

Captures == Int \cup {Unknown}

\* Every component has its type; a dwell that is complete has ended the stage.
TypeOK ==
  /\ joint \in Offered /\ at \in Positions /\ seen \in Positions
  /\ stage \in Limits \cup {"zero", "saved", "left"} /\ turn \in {"look", "key"}
  /\ live \in BOOLEAN /\ tracked \in Captures /\ zero \in Captures
  /\ limit \in [Limits -> Captures] /\ origin \in Captures
  /\ since \in (0 .. DwellTicks - 1) \cup {Unknown}
  /\ held \in Nat \cup {Unknown} /\ lapses \in 0 .. MaxLapses

\* AngleTracker's contract: as long as no two answered reads are half a turn
\* apart, the unwrapped angle follows the shaft across the encoder's seam.
TrackerIsExact == lapses = 0 /\ tracked # Unknown => tracked = seen - origin

\* The zero is where the shaft was in the very frame ENTER was pressed: "refuse
\* to zero on a dead read" (calibrate_cli.py:175).
ZeroIsLive ==
  [][ zero' # zero /\ zero' # Unknown /\ lapses = 0 => zero' + origin = at ]_vars

\* "once you hold it at or past the target it is recorded automatically"
\* (calibrate_cli.py:13-14): also over a bus that misses reads, no joint is held
\* for a whole dwell without being recorded.
HeldIsRecorded == held # Unknown => held < DwellTicks

\* A limit recorded automatically is at or past its target, and what is saved of
\* it, a remainder, is decoded by a motion node to the angle that was recorded,
\* unless the operator swung half a turn away from the zero.
SavedLimitsDecode ==
  stage = "saved" /\ lapses = 0 =>
    \A w \in Limits :
      /\ Manual(w) \/ Reached(w, AngleOf(limit[w]))
      /\ 2 * AngleOf(limit[w]) \in (1 - Cpr) .. (Cpr - 1)
           => Decoded(limit[w]) = AngleOf(limit[w])
=============================================================================
