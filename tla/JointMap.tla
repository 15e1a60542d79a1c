-------------------------------- MODULE JointMap --------------------------------
(***************************************************************************)
(* humanoid_deploy/joint_map.py: which calibrated joint is meant by a name *)
(* of the policy, the envelope of each joint, and the conversions between  *)
(* its angle and the counts of its encoder.                                *)
(*                                                                         *)
(* Units.  An angle is an integer, in fractions of an encoder count (Sub   *)
(* of them make one), so that rounding to a count is visible.              *)
(***************************************************************************)
EXTENDS Integers, FiniteSets

CONSTANTS
  Cpr,               \* counts_per_rev
  Sub,               \* fractions of a count in which angles are given
  PolicyNames,       \* joint_names: the joints of the trained policy
  Stem,              \* _normalize_name, a function on every name in use
  Aliases,           \* aliases, a function on some of the policy's names
  Model,             \* per policy joint: xml_lower, xml_upper and default_pose
  ActionScale,       \* action_scale
  LimitMargin,       \* limit_margin_rad
  NominalTolerance,  \* nominal_tolerance_rad
  SeamMargin         \* margin_counts of seam_violations

\* The entry of one joint in the calibration file, and what the policy was
\* trained with.
Calibrations ==
  [id : Nat, zero : 0 .. Cpr - 1, direction : {-1, 1}, low : Int, high : Int]

Models == [low : Int, high : Int, nominal : Int]

ASSUME MapAssumption ==
  /\ Cpr \in Nat \ {0}
  /\ Sub \in Nat \ {0}
  /\ Model \in [PolicyNames -> Models]
  /\ {ActionScale, LimitMargin, NominalTolerance} \subseteq Nat
  /\ SeamMargin \in Nat \ {0}

Least(a, b) == IF a < b THEN a ELSE b
Greatest(a, b) == IF a < b THEN b ELSE a

-----------------------------------------------------------------------------
(* resolve_joint_names.                                                    *)

\* What a policy joint may mean among the calibrated ones: its alias, its own
\* name, or else whatever shares its stem.
Candidates(p, calibrated) ==
  IF p \in DOMAIN Aliases THEN {Aliases[p]} \cap calibrated
  ELSE IF p \in calibrated THEN {p}
  ELSE {c \in calibrated : Stem[c] = Stem[p]}

Resolves(calibrated) ==
  /\ \A p \in PolicyNames : \E c \in calibrated : Candidates(p, calibrated) = {c}
  /\ \A p, q \in PolicyNames :
       Candidates(p, calibrated) = Candidates(q, calibrated) => p = q
  /\ \A c \in calibrated : \E p \in PolicyNames : Candidates(p, calibrated) = {c}

NameMap(calibrated) ==
  [p \in PolicyNames |-> CHOOSE c \in calibrated : Candidates(p, calibrated) = {c}]

-----------------------------------------------------------------------------
(* The envelope of a joint with calibration c and model m.                 *)

HardLow(c, m) == Greatest(c.low, m.low)
HardHigh(c, m) == Least(c.high, m.high)

\* How far the measured range misses the nominal pose.
Miss(c, m) == Greatest(HardLow(c, m) - m.nominal, m.nominal - HardHigh(c, m))

\* Faulty variant of SafeLow: the limit margin is left off.
SafeLowUnmargined(c, m) == Least(HardLow(c, m), m.nominal)

\* The margin comes off the measured bound only, and never excludes the nominal
\* pose.
SafeLow(c, m) ==
  Least(Greatest(Least(HardLow(c, m), m.nominal), c.low + LimitMargin), m.nominal)

SafeHigh(c, m) ==
  Greatest(Least(Greatest(HardHigh(c, m), m.nominal), c.high - LimitMargin), m.nominal)

\* JointMap.__init__ returns: names and servo ids are unambiguous, the nominal
\* pose is in reach and no envelope is empty.
Constructs(file) ==
  LET calibrated == DOMAIN file
  IN  /\ Resolves(calibrated)
      /\ \A c, d \in calibrated : file[c].id = file[d].id => c = d
      /\ \A p \in PolicyNames :
           LET c == file[NameMap(calibrated)[p]]
           IN  /\ Miss(c, Model[p]) <= NominalTolerance
               /\ SafeLow(c, Model[p]) < SafeHigh(c, Model[p])

-----------------------------------------------------------------------------
(* Conversions.                                                            *)

\* counts_to_rad: the angle of a reading, the shortest way round from the zero.
CountsToRad(c, counts) ==
  LET delta == (counts - c.zero) % Cpr
  IN  c.direction * (IF 2 * delta > Cpr THEN delta - Cpr ELSE delta) * Sub

\* rad_to_counts_unwrapped, in fractions of a count.
Unwrapped(c, angle) == c.zero * Sub + c.direction * angle

\* numpy.rint: to the nearest count, a tie to the even one.
Rint(x) ==
  LET below == x \div Sub
      rest  == 2 * (x % Sub)
  IN  IF rest < Sub \/ (rest = Sub /\ below % 2 = 0) THEN below ELSE below + 1

\* The count an angle comes to when the encoder is not wrapped.
ToldCount(c, angle) == Rint(Unwrapped(c, angle))

\* rad_to_counts: the goal to command.
RadToCounts(c, angle) == ToldCount(c, angle) % Cpr

-----------------------------------------------------------------------------
(* The encoder seam.                                                       *)

\* command_window: what the policy can ask for, after clamping.
WindowLow(c, m) == Greatest(m.nominal - ActionScale, SafeLow(c, m))
WindowHigh(c, m) == Least(m.nominal + ActionScale, SafeHigh(c, m))

\* From lo to hi, and the margin beyond, no count is on the far side of the wrap.
ClearOfSeam(c, lo, hi) ==
  /\ Least(Unwrapped(c, lo), Unwrapped(c, hi)) - SeamMargin * Sub >= 0
  /\ Greatest(Unwrapped(c, lo), Unwrapped(c, hi)) + SeamMargin * Sub <= (Cpr - 1) * Sub

\* Faulty variant of SeamFree: only what the policy asks for is looked at.
SeamFreeCommand(c, m) == ClearOfSeam(c, WindowLow(c, m), WindowHigh(c, m))

\* seam_violations() is empty for this joint: neither the command window nor the
\* whole travel crosses the wrap.
SeamFree(c, m) ==
  /\ ClearOfSeam(c, WindowLow(c, m), WindowHigh(c, m))
  /\ ClearOfSeam(c, SafeLow(c, m), SafeHigh(c, m))

=============================================================================
