--------------------------- MODULE JointCaptureProofs ---------------------------
(***************************************************************************)
(* JointCapture for every encoder, every range of the shaft and every      *)
(* motion, dwell and number of misleading readings.  First the arithmetic  *)
(* of remainders that AngleTracker and raw_to_deg rest on, then the        *)
(* inductive invariant CapInv, which says what the tracker, the dwell      *)
(* clock and the recorded limits have to do with the shaft.                *)
(***************************************************************************)
EXTENDS JointCapture, TLAPS

USE CaptureAssumption

(***************************************************************************)
(* Remainders of a turn.                                                   *)
(***************************************************************************)

\* An integer is so many turns and its remainder.
LEMMA TurnsAndRest ==
  ASSUME NEW x \in Int
  PROVE  x \div Cpr \in Int /\ x % Cpr \in 0 .. Cpr - 1 /\ x = Cpr * (x \div Cpr) + (x % Cpr)
OBVIOUS

\* Two turns, or more, are no less than twice the counts of one.
LEMMA SeveralTurns ==
  ASSUME NEW m \in Int
  PROVE  /\ Cpr * m \in Int
         /\ m >= 2 => Cpr * m >= 2 * Cpr
         /\ m <= -2 => Cpr * m <= -2 * Cpr
OBVIOUS

LEMMA TurnsApart ==
  ASSUME NEW a \in Int, NEW b \in Int
  PROVE  Cpr * b - Cpr * a = Cpr * (b - a)
OBVIOUS

\* The remainder is the only one of its kind.
LEMMA RestIsUnique ==
  ASSUME NEW x \in Int, NEW k \in Int, NEW r \in 0 .. Cpr - 1, x = Cpr * k + r
  PROVE  x % Cpr = r
<1> DEFINE q == x \div Cpr
           s == x % Cpr
<1>1. q \in Int /\ s \in 0 .. Cpr - 1 /\ x = Cpr * q + s
  BY TurnsAndRest
<1> HIDE DEF q, s
<1>2. Cpr * (q - k) = r - s
  BY <1>1, TurnsApart
<1>3. q - k \in Int
  BY <1>1
<1>4. CASE q - k = 0
  BY <1>1, <1>2, <1>4 DEF s
<1>5. CASE q - k >= 1
  <2>1. Cpr * (q - k) >= Cpr
    BY <1>3, <1>5
  <2> QED BY <1>1, <1>2, <2>1
<1>6. CASE q - k <= -1
  <2>1. Cpr * (q - k) <= -Cpr
    BY <1>3, <1>6
  <2> QED BY <1>1, <1>2, <2>1
<1> QED BY <1>3, <1>4, <1>5, <1>6

\* Without its remainder an integer is whole turns.
LEMMA WithoutRest ==
  ASSUME NEW x \in Int
  PROVE  /\ x % Cpr \in 0 .. Cpr - 1
         /\ x - (x % Cpr) \in Int
         /\ (x - (x % Cpr)) % Cpr = 0
<1> DEFINE a == x \div Cpr
           r == x % Cpr
<1>1. a \in Int /\ r \in 0 .. Cpr - 1 /\ x = Cpr * a + r
  BY TurnsAndRest
<1> HIDE DEF a, r
<1>2. x - r \in Int /\ x - r = Cpr * a + 0 /\ 0 \in 0 .. Cpr - 1
  BY <1>1
<1>3. (x - r) % Cpr = 0
  BY <1>1, <1>2, RestIsUnique
<1> QED BY <1>1, <1>2, <1>3 DEF r

\* Whole turns do not show in the remainder.
LEMMA TurnsDoNotShow ==
  ASSUME NEW x \in Int, NEW o \in Int, o % Cpr = 0
  PROVE  (x - o) % Cpr = x % Cpr
<1> DEFINE a == x \div Cpr
           b == o \div Cpr
           r == x % Cpr
<1>1. a \in Int /\ r \in 0 .. Cpr - 1 /\ x = Cpr * a + r
  BY TurnsAndRest
<1>2. b \in Int /\ o = Cpr * b
  BY TurnsAndRest
<1> HIDE DEF a, b, r
<1>3. x - o = Cpr * (a - b) + r
  BY <1>1, <1>2, TurnsApart
<1>4. x - o \in Int /\ a - b \in Int
  BY <1>1, <1>2
<1>5. (x - o) % Cpr = r
  BY <1>1, <1>3, <1>4, RestIsUnique
<1> QED BY <1>5 DEF r

\* Remainders tell how far two positions are apart when it is less than half a
\* turn: the difference is that of the remainders, or a turn more, or less.
LEMMA NearestTurn ==
  ASSUME NEW x \in Int, NEW y \in Int, 2 * (y - x) \in (1 - Cpr) .. (Cpr - 1)
  PROVE  LET delta == (y % Cpr) - (x % Cpr)
         IN  y - x = IF 2 * delta > Cpr THEN delta - Cpr
                     ELSE IF 2 * delta < -Cpr THEN delta + Cpr
                     ELSE delta
<1> DEFINE a == x \div Cpr
           b == y \div Cpr
           r == x % Cpr
           s == y % Cpr
<1>1. a \in Int /\ r \in 0 .. Cpr - 1 /\ x = Cpr * a + r
  BY TurnsAndRest
<1>2. b \in Int /\ s \in 0 .. Cpr - 1 /\ y = Cpr * b + s
  BY TurnsAndRest
<1> SUFFICES y - x = IF 2 * (s - r) > Cpr THEN s - r - Cpr
                     ELSE IF 2 * (s - r) < -Cpr THEN s - r + Cpr
                     ELSE s - r
  OBVIOUS
<1> HIDE DEF a, b, r, s
<1> DEFINE m == b - a
<1>3. m \in Int /\ y - x = Cpr * m + (s - r)
  BY <1>1, <1>2, TurnsApart
<1>4. /\ Cpr * m \in Int
      /\ m >= 2 => Cpr * m >= 2 * Cpr
      /\ m <= -2 => Cpr * m <= -2 * Cpr
  BY <1>3, SeveralTurns
<1>5. m \in {-1, 0, 1}
  <2> HIDE DEF m
  <2>1. s - r \in (1 - Cpr) .. (Cpr - 1)
    BY <1>1, <1>2
  <2>2. ~(m >= 2) /\ ~(m <= -2)
    BY <1>3, <1>4, <2>1
  <2> QED BY <1>3, <2>2
<1>6. CASE m = 0
  BY <1>1, <1>2, <1>3, <1>6
<1>7. CASE m = 1
  BY <1>1, <1>2, <1>3, <1>7
<1>8. CASE m = -1
  BY <1>1, <1>2, <1>3, <1>8
<1> QED BY <1>5, <1>6, <1>7, <1>8

\* The difference of two remainders, taken as a remainder and then on the nearer
\* side of zero, is the difference itself when that is less than half a turn.
LEMMA NearestRest ==
  ASSUME NEW z \in Int, NEW u \in Int, 2 * (u - z) \in (1 - Cpr) .. (Cpr - 1)
  PROVE  LET delta == ((u % Cpr) - (z % Cpr)) % Cpr
         IN  (IF 2 * delta > Cpr THEN delta - Cpr ELSE delta) = u - z
<1> DEFINE a == z \div Cpr
           b == u \div Cpr
           r == z % Cpr
           s == u % Cpr
<1>1. a \in Int /\ r \in 0 .. Cpr - 1 /\ z = Cpr * a + r
  BY TurnsAndRest
<1>2. b \in Int /\ s \in 0 .. Cpr - 1 /\ u = Cpr * b + s
  BY TurnsAndRest
<1> SUFFICES (IF 2 * ((s - r) % Cpr) > Cpr THEN ((s - r) % Cpr) - Cpr ELSE (s - r) % Cpr) = u - z
  OBVIOUS
<1> HIDE DEF a, b, r, s
<1>3. s - r \in Int /\ a - b \in Int /\ a - b - 1 \in Int
  BY <1>1, <1>2
<1>4. s - r = Cpr * (a - b) + (u - z)
  BY <1>1, <1>2, TurnsApart
<1>5. CASE u - z >= 0
  <2>1. u - z \in 0 .. Cpr - 1
    BY <1>5
  <2>2. (s - r) % Cpr = u - z
    BY <1>3, <1>4, <2>1, RestIsUnique
  <2> QED BY <2>1, <2>2
<1>6. CASE u - z < 0
  <2>1. u - z + Cpr \in 0 .. Cpr - 1
    BY <1>6
  <2>2. Cpr * (a - b - 1) = Cpr * (a - b) - Cpr
    BY <1>1, <1>2
  <2>3. s - r = Cpr * (a - b - 1) + (u - z + Cpr)
    BY <1>3, <1>4, <2>2
  <2>4. (s - r) % Cpr = u - z + Cpr
    BY <1>3, <2>1, <2>3, RestIsUnique
  <2> QED BY <1>6, <2>1, <2>4
<1> QED BY <1>5, <1>6

(***************************************************************************)
(* The inductive invariant.                                                *)
(***************************************************************************)

\* The tracker starts at a multiple of a turn and is exact until misled.
Tracking ==
  /\ tracked = Unknown <=> origin = Unknown
  /\ origin # Unknown => origin % Cpr = 0
  /\ TrackerIsExact

\* What each stage has to go on.
Staged ==
  /\ stage = "zero" => since = Unknown /\ held = Unknown
  /\ stage = "zero" /\ turn = "key" /\ live => seen = at
  /\ stage \in Limits \cup {"saved"} => zero # Unknown /\ tracked # Unknown

\* The dwell clock runs only while the tracked angle is at the target, and
\* whoever has held the joint there has been clocked for as long.
Clocked ==
  /\ stage \in Limits /\ since # Unknown =>
       ~Manual(stage) /\ Reached(stage, AngleOf(tracked))
  /\ held # Unknown => since # Unknown /\ held <= since

\* A recorded limit is at or past its target, unless confirmed by hand.
Recorded(w) ==
  /\ limit[w] # Unknown
  /\ Manual(w) \/ Reached(w, AngleOf(limit[w]))

CapInv ==
  /\ TypeOK /\ Tracking /\ Staged /\ Clocked
  /\ stage \in {"max", "saved"} => Recorded("min")
  /\ stage = "saved" => Recorded("max")

\* Angles are integers, in either direction.
LEMMA AngleType ==
  ASSUME TypeOK, zero # Unknown
  PROVE  \A u \in Int : AngleOf(u) \in Int
<1>1. zero \in Int /\ joint.direction \in {1, -1}
  BY DEF TypeOK, Captures
<1> QED BY <1>1 DEF AngleOf

LEMMA CaptureStarts == Init => CapInv
<1> SUFFICES ASSUME Init PROVE CapInv
  OBVIOUS
<1>1. TypeOK
  <2>1. live \in BOOLEAN /\ limit \in [Limits -> Captures] /\ stage \in Limits \cup {"zero"}
    BY DEF Init, Captures
  <2>2. lapses \in 0 .. MaxLapses
    BY DEF Init
  <2> QED BY <2>1, <2>2 DEF Init, TypeOK, Captures
<1>2. Tracking /\ Staged /\ Clocked
  BY DEF Init, Tracking, TrackerIsExact, Staged, Clocked, Limits
<1> QED BY <1>1, <1>2 DEF Init, CapInv

\* An answered read keeps the tracker exact, unless it counts as misleading.
LEMMA AnsweredTracks ==
  ASSUME TypeOK, Tracking, Moves, Answered
  PROVE  /\ live' = TRUE /\ seen' = at' /\ at' \in Positions
         /\ tracked' \in Int /\ lapses' \in 0 .. MaxLapses
         /\ origin' \in Int /\ origin' % Cpr = 0
         /\ origin # Unknown => origin' = origin
         /\ lapses' = 0 => tracked' = seen' - origin'
<1> DEFINE Near == 2 * (at' - seen) \in (1 - Cpr) .. (Cpr - 1)
<1>1. at' \in Int /\ at' \in Positions /\ seen \in Int /\ lapses \in Nat /\ seen' = at'
  BY DEF TypeOK, Moves, Answered
<1>2. PICK raw \in 0 .. Cpr - 1 :
        /\ tracked' = Update(tracked, raw)
        /\ \/ lapses' = lapses + 1
           \/ lapses' = lapses /\ raw = at' % Cpr /\ (tracked = Unknown \/ Near)
  BY DEF Answered, HalfTurn
<1>3. lapses' \in 0 .. MaxLapses
  <2>1. lapses' \in Nat
    <3>1. lapses' = lapses + 1 \/ lapses' = lapses
      BY <1>2, Zenon
    <3> QED BY <1>1, <3>1
  <2> QED BY <2>1 DEF Answered
<1>4. lapses' = 0 => lapses = 0 /\ raw = at' % Cpr /\ (tracked = Unknown \/ Near)
  <2>1. lapses' = 0 => lapses' # lapses + 1
    BY <1>1
  <2> QED BY <1>2, <2>1, Zenon
<1>5. CASE tracked = Unknown
  <2>1. origin' = at' - (at' % Cpr) /\ tracked' = raw
    BY <1>2, <1>5 DEF Tracking, Answered, Update
  <2>2. /\ at' % Cpr \in 0 .. Cpr - 1
        /\ at' - (at' % Cpr) \in Int
        /\ (at' - (at' % Cpr)) % Cpr = 0
    BY <1>1, WithoutRest
  <2>3. tracked' \in Int /\ origin' \in Int /\ origin' % Cpr = 0
    BY <2>1, <2>2
  <2>4. origin = Unknown
    BY <1>5 DEF Tracking
  <2>5. lapses' = 0 => tracked' = seen' - origin'
    <3> SUFFICES ASSUME lapses' = 0 PROVE tracked' = at' - origin'
      BY <1>1
    <3>1. raw = at' % Cpr
      BY <1>4
    <3> QED BY <1>1, <2>1, <2>2, <3>1
  <2> QED BY <1>1, <1>3, <2>3, <2>4, <2>5 DEF Answered
<1>6. CASE tracked # Unknown
  <2>1. tracked \in Int /\ origin \in Int /\ origin' = origin /\ origin % Cpr = 0
    BY <1>6 DEF TypeOK, Captures, Tracking, Answered
  <2>2. tracked % Cpr \in 0 .. Cpr - 1
    BY <2>1, TurnsAndRest
  <2>3. tracked' \in Int
    BY <1>2, <1>6, <2>1, <2>2 DEF Update
  <2>4. ASSUME lapses' = 0 PROVE tracked' = seen' - origin'
    <3>1. tracked = seen - origin /\ raw = at' % Cpr /\ Near
      BY <1>4, <1>6, <2>4 DEF Tracking, TrackerIsExact
    <3>2. tracked % Cpr = seen % Cpr
      BY <1>1, <2>1, <3>1, TurnsDoNotShow
    <3>3. tracked' = tracked + (at' - seen)
      BY <1>1, <1>2, <1>6, <3>1, <3>2, NearestTurn DEF Update
    <3> QED BY <1>1, <2>1, <3>1, <3>3
  <2> QED BY <1>1, <1>3, <2>1, <2>3, <2>4 DEF Answered
<1> QED BY <1>5, <1>6

\* So does a frame, answered or missed.
LEMMA FrameTracks ==
  ASSUME TypeOK, Tracking, Moves, Answered \/ Missed
  PROVE  /\ live' \in BOOLEAN /\ at' \in Positions /\ seen' \in Positions
         /\ tracked' \in Captures /\ origin' \in Captures
         /\ lapses' \in 0 .. MaxLapses
         /\ live' => seen' = at'
         /\ ~live' => tracked' = tracked
         /\ tracked # Unknown => tracked' # Unknown /\ origin' = origin /\ origin # Unknown
         /\ Tracking'
<1>1. CASE Answered
  <2>1. Unknown \notin Int
    OBVIOUS
  <2> QED BY <1>1, <2>1, AnsweredTracks DEF Tracking, TrackerIsExact, Captures
<1>2. CASE Missed
  BY <1>2 DEF Missed, Tracking, TrackerIsExact, TypeOK, Moves
<1> QED BY <1>1, <1>2

\* The dwell clock after a frame: it runs only at the target, and no slower than
\* the joint is held there.
LEMMA DwellClock ==
  ASSUME TypeOK, Tracking, Staged, Clocked, NEW which \in Limits, stage = which,
         Moves, Answered \/ Missed
  PROVE  /\ SinceAfter(which) \in Nat \cup {Unknown}
         /\ HeldAfter(which) \in Nat \cup {Unknown}
         /\ SinceAfter(which) # Unknown =>
              ~Manual(which) /\ Reached(which, AngleOf(tracked'))
         /\ HeldAfter(which) # Unknown =>
              SinceAfter(which) # Unknown /\ HeldAfter(which) <= SinceAfter(which)
<1>1. FrameTicks \in Nat
  BY FrameTracks DEF FrameTicks
<1>2. since \in Nat \cup {Unknown} /\ held \in Nat \cup {Unknown}
  BY DEF TypeOK
<1>3. SinceAfter(which) \in Nat \cup {Unknown} /\ HeldAfter(which) \in Nat \cup {Unknown}
  BY <1>1, <1>2 DEF SinceAfter, HeldAfter
<1>4. SinceAfter(which) # Unknown => ~Manual(which) /\ Reached(which, AngleOf(tracked'))
  BY DEF SinceAfter
<1>5. ASSUME HeldAfter(which) # Unknown
      PROVE  SinceAfter(which) # Unknown /\ HeldAfter(which) <= SinceAfter(which)
  <2>1. ~Manual(which) /\ ~(lapses' > 0) /\ Reached(which, AngleOf(at' - origin))
    BY <1>5 DEF HeldAfter
  <2>2. lapses' = 0 /\ origin' = origin /\ tracked' # Unknown
    BY <2>1, FrameTracks DEF Staged
  <2>3. live' => at' - origin = tracked'
    BY <2>2, FrameTracks DEF Tracking, TrackerIsExact
  <2>4. held # Unknown => since # Unknown /\ held <= since
    BY DEF Clocked
  <2>5. CASE live'
    <3>1. Reached(which, AngleOf(tracked'))
      BY <2>1, <2>3, <2>5
    <3>2. SinceAfter(which) = IF since = Unknown THEN 0 ELSE since + FrameTicks
      BY <2>1, <3>1 DEF SinceAfter
    <3>3. HeldAfter(which) = IF held # Unknown THEN held + FrameTicks ELSE 0
      BY <2>1, <2>5 DEF HeldAfter
    <3> QED BY <1>1, <1>2, <2>4, <3>2, <3>3
  <2>6. CASE ~live'
    <3>1. held # Unknown /\ HeldAfter(which) = held + FrameTicks
      BY <1>5, <2>1, <2>6 DEF HeldAfter
    <3>2. tracked' = tracked
      BY <2>6, FrameTracks
    <3>3. Reached(which, AngleOf(tracked'))
      BY <2>4, <3>1, <3>2 DEF Clocked
    <3>4. SinceAfter(which) = since + FrameTicks
      BY <2>1, <2>4, <3>1, <3>3 DEF SinceAfter
    <3> QED BY <1>1, <1>2, <2>4, <3>1, <3>4
  <2> QED BY <2>5, <2>6
<1> QED BY <1>3, <1>4, <1>5

LEMMA LookForZeroKept == CapInv /\ LookForZero => CapInv'
<1> SUFFICES ASSUME CapInv, LookForZero PROVE CapInv'
  OBVIOUS
<1>1. TypeOK /\ Tracking /\ Staged /\ Moves /\ (Answered \/ Missed)
  BY DEF CapInv, LookForZero
<1>2. TypeOK' /\ Tracking'
  BY <1>1, FrameTracks DEF LookForZero, TypeOK, Captures
<1>3. Staged' /\ Clocked'
  BY <1>1, FrameTracks DEF LookForZero, Staged, Clocked, Limits
<1> QED BY <1>2, <1>3 DEF LookForZero, CapInv

\* A limit is recorded where the frame, or the operator, says it is reached.
LEMMA CapturedKept ==
  ASSUME CapInv, NEW which \in Limits, stage = which, NEW u \in Int, Captured(which, u),
         UNCHANGED <<joint, zero>>, zero # Unknown,
         Manual(which) \/ Reached(which, AngleOf(u))
  PROVE  /\ limit' \in [Limits -> Captures]
         /\ stage' \in {"max", "saved"}
         /\ stage' \in {"max", "saved"} => Recorded("min")'
         /\ stage' = "saved" => Recorded("max")'
<1>1. limit \in [Limits -> Captures]
  BY DEF CapInv, TypeOK
<1>2. limit' \in [Limits -> Captures] /\ limit'[which] = u
      /\ \A w \in Limits \ {which} : limit'[w] = limit[w]
  BY <1>1 DEF Captured, Captures
<1>3. Recorded(which)'
  BY <1>2 DEF Recorded, Manual, Reached, AngleOf
<1>4. CASE which = "min"
  BY <1>2, <1>3, <1>4 DEF Captured
<1>5. CASE which = "max"
  <2>1. Recorded("min") /\ limit'["min"] = limit["min"]
    BY <1>2, <1>5 DEF CapInv, Limits
  <2>2. Recorded("min")'
    BY <2>1 DEF Recorded, Manual, Reached, AngleOf
  <2> QED BY <1>2, <1>3, <1>5, <2>2 DEF Captured
<1> QED BY <1>4, <1>5 DEF Limits

LEMMA LookForLimitKept ==
  ASSUME CapInv, NEW which \in Limits, LookForLimit(which)
  PROVE  CapInv'
<1>1. /\ TypeOK /\ Tracking /\ Staged /\ Clocked
      /\ stage = which /\ Moves /\ (Answered \/ Missed) /\ UNCHANGED <<joint, zero>>
  BY DEF CapInv, LookForLimit
<1>2. /\ live' \in BOOLEAN /\ at' \in Positions /\ seen' \in Positions
      /\ tracked' \in Int /\ origin' \in Captures /\ lapses' \in 0 .. MaxLapses
      /\ Tracking' /\ zero # Unknown
  BY <1>1, FrameTracks DEF Staged, Captures
<1>3. /\ SinceAfter(which) \in Nat \cup {Unknown}
      /\ HeldAfter(which) \in Nat \cup {Unknown}
      /\ SinceAfter(which) # Unknown =>
           ~Manual(which) /\ Reached(which, AngleOf(tracked'))
      /\ HeldAfter(which) # Unknown =>
           SinceAfter(which) # Unknown /\ HeldAfter(which) <= SinceAfter(which)
  BY <1>1, DwellClock
<1>4. CASE DwellIsOver(SinceAfter(which))
  <2>1. Captured(which, tracked')
    BY <1>4 DEF LookForLimit
  <2>2. Reached(which, AngleOf(tracked'))
    BY <1>3, <1>4 DEF DwellIsOver
  <2>3. /\ limit' \in [Limits -> Captures]
        /\ stage' \in {"max", "saved"}
        /\ stage' \in {"max", "saved"} => Recorded("min")'
        /\ stage' = "saved" => Recorded("max")'
    BY <1>1, <1>2, <2>1, <2>2, CapturedKept
  <2>4. TypeOK'
    BY <1>1, <1>2, <2>1, <2>3 DEF TypeOK, Captured, Captures, Limits
  <2>5. Staged' /\ Clocked'
    BY <1>1, <1>2, <2>1, <2>3 DEF Staged, Clocked, Captured
  <2> QED BY <1>2, <2>3, <2>4, <2>5 DEF CapInv
<1>5. CASE ~DwellIsOver(SinceAfter(which))
  <2>1. /\ turn' = "key" /\ UNCHANGED <<stage, limit>>
        /\ since' = SinceAfter(which) /\ held' = HeldAfter(which)
    BY <1>5 DEF LookForLimit
  <2>2. since' \in (0 .. DwellTicks - 1) \cup {Unknown}
    BY <1>3, <1>5, <2>1 DEF DwellIsOver
  <2>3. TypeOK'
    BY <1>1, <1>2, <1>3, <2>1, <2>2 DEF TypeOK, Captures
  <2>4. Staged'
    BY <1>1, <1>2, <2>1 DEF Staged, Limits
  <2>5. Clocked'
    BY <1>1, <1>3, <2>1 DEF Clocked, Manual, Reached, AngleOf
  <2>6. stage' \in {"max", "saved"} => Recorded("min")'
    BY <1>1, <2>1 DEF CapInv, Recorded, Manual, Reached, AngleOf
  <2>7. stage' # "saved"
    BY <1>1, <2>1 DEF Limits
  <2> QED BY <1>2, <2>3, <2>4, <2>5, <2>6, <2>7 DEF CapInv
<1> QED BY <1>4, <1>5

LEMMA EnterLimitKept ==
  ASSUME CapInv, NEW which \in Limits, EnterLimit(which)
  PROVE  CapInv'
<1>1. /\ TypeOK /\ Tracking /\ Staged /\ stage = which /\ Captured(which, tracked)
      /\ Manual(which) /\ tracked \in Int /\ zero # Unknown
      /\ UNCHANGED <<shaft, live, tracked, zero, origin>>
  BY DEF CapInv, EnterLimit, Staged, TypeOK, Captures
<1>2. /\ limit' \in [Limits -> Captures]
      /\ stage' \in {"max", "saved"}
      /\ stage' \in {"max", "saved"} => Recorded("min")'
      /\ stage' = "saved" => Recorded("max")'
  BY <1>1, CapturedKept DEF shaft
<1>3. TypeOK'
  BY <1>1, <1>2 DEF TypeOK, Captured, Captures, Limits, shaft
<1>4. Tracking' /\ Staged' /\ Clocked'
  BY <1>1, <1>2 DEF Tracking, TrackerIsExact, Staged, Clocked, Captured, shaft
<1> QED BY <1>2, <1>3, <1>4 DEF CapInv

LEMMA EnterZeroKept == CapInv /\ EnterZero => CapInv'
<1> SUFFICES ASSUME CapInv, EnterZero PROVE CapInv'
  OBVIOUS
<1>1. TypeOK' /\ Tracking'
  BY DEF CapInv, EnterZero, TypeOK, Tracking, TrackerIsExact, shaft, Limits
<1>2. Staged' /\ Clocked'
  BY DEF CapInv, EnterZero, Staged, Clocked, Captures, TypeOK
<1> QED BY <1>1, <1>2 DEF CapInv, EnterZero

LEMMA RedoKept == CapInv /\ Redo => CapInv'
<1> SUFFICES ASSUME CapInv, Redo PROVE CapInv'
  OBVIOUS
<1>1. live' \in BOOLEAN /\ limit' \in [Limits -> Captures]
  BY DEF Redo, Afresh, Captures
<1>2. TypeOK'
  BY <1>1 DEF CapInv, Redo, Afresh, TypeOK, Captures, shaft
<1>3. Tracking' /\ Staged' /\ Clocked'
  BY DEF Redo, Afresh, Tracking, TrackerIsExact, Staged, Clocked, Limits
<1> QED BY <1>2, <1>3 DEF CapInv, Redo, Afresh

\* Nothing the invariant is about changes when no key is pressed, or the joint is left.
LEMMA OtherKeysKept == CapInv /\ (NoKey \/ Leaves \/ UNCHANGED vars) => CapInv'
<1> SUFFICES ASSUME CapInv, NoKey \/ Leaves \/ UNCHANGED vars PROVE CapInv'
  OBVIOUS
<1>1. /\ UNCHANGED <<joint, at, seen, lapses, live, tracked, zero, limit, since, origin, held>>
      /\ \/ UNCHANGED <<stage, turn>>
         \/ UNCHANGED stage /\ turn' = "look"
         \/ stage' = "left" /\ turn' = turn
  BY DEF NoKey, Leaves, vars, shaft
<1>2. TypeOK' /\ Tracking'
  BY <1>1 DEF CapInv, TypeOK, Tracking, TrackerIsExact
<1>3. Staged' /\ Clocked'
  BY <1>1 DEF CapInv, Staged, Clocked, Manual, Reached, AngleOf, Limits
<1>4. /\ stage' \in {"max", "saved"} => Recorded("min")'
      /\ stage' = "saved" => Recorded("max")'
  BY <1>1 DEF CapInv, Recorded, Manual, Reached, AngleOf
<1> QED BY <1>2, <1>3, <1>4 DEF CapInv

LEMMA CaptureKept == CapInv /\ [Next]_vars => CapInv'
BY LookForZeroKept, LookForLimitKept, EnterLimitKept, EnterZeroKept, RedoKept, OtherKeysKept
   DEF Next

\* Types, the tracker's account of the shaft and what a capture has recorded hold
\* together, for every encoder turn, motion bound and dwell.
THEOREM CaptureInvariant == Spec => []CapInv
BY CaptureStarts, CaptureKept, PTL DEF Spec

(***************************************************************************)
(* Theorems.                                                               *)
(***************************************************************************)

\* Every attribute of a capture keeps its type, and no dwell that is complete goes
\* on: _capture_limit has recorded the limit.
THEOREM CaptureTypeCorrect == Spec => []TypeOK
BY CaptureInvariant, PTL DEF CapInv

\* AngleTracker follows the shaft across the encoder's seam, in both directions and
\* over missed reads, while no two answered reads are half a turn apart.
THEOREM TrackerFollowsShaft == Spec => []TrackerIsExact
<1>1. CapInv => TrackerIsExact
  BY DEF CapInv, Tracking
<1> QED BY <1>1, CaptureInvariant, PTL

\* Whoever holds a joint at its target for a dwell gets its limit recorded.
THEOREM HoldingRecords == Spec => []HeldIsRecorded
<1>1. CapInv => HeldIsRecorded
  <2> SUFFICES ASSUME CapInv, held # Unknown PROVE held < DwellTicks
    BY DEF HeldIsRecorded
  <2>1. held \in Nat /\ since \in 0 .. DwellTicks - 1 /\ held <= since
    BY DEF CapInv, Clocked, TypeOK
  <2> QED BY <2>1
<1> QED BY <1>1, CaptureInvariant, PTL

\* A motion node decodes what is saved of a limit to the angle that was recorded,
\* and that angle is at or past its target unless it was confirmed by hand.
THEOREM SavedIsRecorded == Spec => []SavedLimitsDecode
<1>1. CapInv => SavedLimitsDecode
  <2> SUFFICES ASSUME CapInv, stage = "saved", NEW w \in Limits
               PROVE  /\ Manual(w) \/ Reached(w, AngleOf(limit[w]))
                      /\ 2 * AngleOf(limit[w]) \in (1 - Cpr) .. (Cpr - 1)
                           => Decoded(limit[w]) = AngleOf(limit[w])
    BY DEF SavedLimitsDecode
  <2>1. Recorded(w) /\ zero \in Int /\ joint.direction \in {1, -1}
    BY DEF CapInv, Staged, TypeOK, Captures, Limits
  <2>2. limit[w] \in Int
    BY <2>1 DEF CapInv, TypeOK, Captures, Recorded
  <2>3. ASSUME 2 * AngleOf(limit[w]) \in (1 - Cpr) .. (Cpr - 1)
        PROVE  Decoded(limit[w]) = AngleOf(limit[w])
    <3>1. 2 * (limit[w] - zero) \in (1 - Cpr) .. (Cpr - 1)
      BY <2>1, <2>2, <2>3 DEF AngleOf
    <3> QED BY <2>1, <2>2, <3>1, NearestRest DEF Decoded, AngleOf
  <2> QED BY <2>1, <2>3 DEF Recorded
<1> QED BY <1>1, CaptureInvariant, PTL

\* ENTER sets the zero where the shaft is in that very frame, never on a dead read.
THEOREM ZeroIsWhereTheShaftIs == Spec => ZeroIsLive
<1> DEFINE Live == zero' # zero /\ zero' # Unknown /\ lapses = 0 => zero' + origin = at
<1>1. CapInv /\ [Next]_vars => [Live]_vars
  <2> SUFFICES ASSUME CapInv, Next, zero' # zero, zero' # Unknown, lapses = 0
               PROVE  zero' + origin = at
    OBVIOUS
  <2>1. EnterZero
    BY DEF Next, LookForZero, LookForLimit, NoKey, EnterLimit, Redo, Afresh, Leaves
  <2>2. zero' = tracked /\ tracked = seen - origin /\ seen = at
    BY <2>1 DEF EnterZero, CapInv, Tracking, TrackerIsExact, Staged
  <2>3. origin \in Int /\ at \in Int
    BY <2>1 DEF EnterZero, CapInv, Tracking, TypeOK, Captures
  <2> QED BY <2>2, <2>3
<1> QED BY <1>1, CaptureInvariant, PTL DEF Spec, ZeroIsLive
=============================================================================
