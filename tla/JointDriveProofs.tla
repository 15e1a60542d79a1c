----------------------------- MODULE JointDriveProofs -----------------------------
(* Proofs about JointMap and JointDrive: names, envelope, conversions, and  *)
(* that no joint armed from within the seam margin is sent the long way.    *)
EXTENDS JointDrive, TLAPS

LEMMA DivisionBy ==
  ASSUME NEW x \in Int, NEW s \in Nat \ {0}
  PROVE  x \div s \in Int /\ x % s \in 0 .. s - 1 /\ x = s * (x \div s) + (x % s)
OBVIOUS

USE MapAssumption, DriveAssumption

-----------------------------------------------------------------------------
(* Names.                                                                  *)

\* When resolve_joint_names accepts a calibration, its mapping pairs the policy's
\* joints with the calibrated ones, one to one and leaving none out.
THEOREM NameMapBijective ==
  ASSUME NEW calibrated, Resolves(calibrated)
  PROVE  /\ NameMap(calibrated) \in [PolicyNames -> calibrated]
         /\ \A p, q \in PolicyNames :
              NameMap(calibrated)[p] = NameMap(calibrated)[q] => p = q
         /\ \A c \in calibrated : \E p \in PolicyNames : NameMap(calibrated)[p] = c
<1> DEFINE Means(p) == CHOOSE c \in calibrated : Candidates(p, calibrated) = {c}
<1>1. \A p \in PolicyNames :
        Means(p) \in calibrated /\ Candidates(p, calibrated) = {Means(p)}
  BY DEF Resolves
<1>2. \A p \in PolicyNames : NameMap(calibrated)[p] = Means(p)
  BY DEF NameMap
<1>3. NameMap(calibrated) \in [PolicyNames -> calibrated]
  BY <1>1 DEF NameMap
<1>4. ASSUME NEW p \in PolicyNames, NEW q \in PolicyNames, Means(p) = Means(q)
      PROVE  p = q
  <2>1. Candidates(p, calibrated) = Candidates(q, calibrated)
    BY <1>1, <1>4
  <2> QED BY <2>1 DEF Resolves
<1>5. ASSUME NEW c \in calibrated
      PROVE  \E p \in PolicyNames : Means(p) = c
  <2>1. PICK p \in PolicyNames : Candidates(p, calibrated) = {c}
    BY DEF Resolves
  <2>2. {Means(p)} = {c}
    BY <1>1, <2>1
  <2> HIDE DEF Means
  <2> QED BY <2>2
<1> HIDE DEF Means
<1> QED BY <1>2, <1>3, <1>4, <1>5

-----------------------------------------------------------------------------
(* Rounding and wrapping.                                                  *)

\* A count of the first turn is its own remainder.
LEMMA OwnTurn ==
  ASSUME NEW n \in 0 .. Cpr - 1
  PROVE  n % Cpr = n
OBVIOUS

LEMMA Remainder ==
  ASSUME NEW n \in Int
  PROVE  n % Cpr \in 0 .. Cpr - 1
OBVIOUS

\* Division by the fractions of a count.
LEMMA Division ==
  ASSUME NEW x \in Int
  PROVE  /\ x \div Sub \in Int
         /\ x % Sub \in 0 .. Sub - 1
         /\ x = Sub * (x \div Sub) + (x % Sub)
BY DivisionBy

LEMMA RintType ==
  ASSUME NEW x \in Int
  PROVE  Rint(x) \in Int
BY Division DEF Rint

\* rint stays between counts that bound its argument.
LEMMA RintBounded ==
  ASSUME NEW x \in Int, NEW hi \in Int, 0 <= x, x <= hi * Sub
  PROVE  Rint(x) \in 0 .. hi
<1> DEFINE q == x \div Sub
           r == x % Sub
<1>1. q \in Int /\ r \in 0 .. Sub - 1 /\ x = Sub * q + r
  BY Division
<1>2. Rint(x) = IF 2 * r < Sub \/ (2 * r = Sub /\ q % 2 = 0) THEN q ELSE q + 1
  BY DEF Rint
<1> HIDE DEF q, r
<1>3. q >= 0
  <2> SUFFICES ASSUME q <= -1 PROVE FALSE
    BY <1>1
  <2>1. Sub * q <= -Sub
    BY <1>1
  <2> QED BY <1>1, <2>1
<1>4. q <= hi
  <2> SUFFICES ASSUME q >= hi + 1 PROVE FALSE
    BY <1>1
  <2>1. Sub * q >= Sub * (hi + 1)
    BY <1>1
  <2> QED BY <1>1, <2>1
<1>5. q = hi => r = 0
  BY <1>1
<1>6. r = 0 => Rint(x) = q
  BY <1>2
<1> QED BY <1>1, <1>2, <1>3, <1>4, <1>5, <1>6

\* A whole count rounds to itself.
LEMMA RintWhole ==
  ASSUME NEW n \in Int
  PROVE  Rint(n * Sub) = n
<1> DEFINE x == n * Sub
           q == x \div Sub
           r == x % Sub
<1>1. x \in Int
  OBVIOUS
<1>2. q \in Int /\ r \in 0 .. Sub - 1 /\ x = Sub * q + r
  BY <1>1, Division
<1>3. Rint(x) = IF 2 * r < Sub \/ (2 * r = Sub /\ q % 2 = 0) THEN q ELSE q + 1
  BY DEF Rint
<1> HIDE DEF q, r
<1>4. r = Sub * (n - q)
  <2>1. Sub * (n - q) = Sub * n - Sub * q
    BY <1>2
  <2> QED BY <1>2, <2>1
<1>5. n - q = 0
  <2>1. CASE n - q >= 1
    <3>1. Sub * (n - q) >= Sub
      BY <1>2, <2>1
    <3> QED BY <1>2, <1>4, <3>1
  <2>2. CASE n - q <= -1
    <3>1. Sub * (n - q) <= -Sub
      BY <1>2, <2>2
    <3> QED BY <1>2, <1>4, <3>1
  <2> QED BY <1>2, <2>1, <2>2
<1>6. n = q /\ r = 0
  <2>1. Sub * (n - q) = Sub * 0
    BY <1>5
  <2>2. r = 0
    BY <1>4, <2>1
  <2> QED BY <1>2, <1>5, <2>2
<1> HIDE DEF x
<1> QED BY <1>3, <1>6 DEF x

LEMMA SameRemainder ==
  ASSUME NEW n \in 0 .. Cpr - 1, NEW e \in {-Cpr, 0, Cpr}
  PROVE  (n + e) % Cpr = n
OBVIOUS

LEMMA ReadingAngle ==
  ASSUME NEW c \in Calibrations, NEW n \in 0 .. Cpr - 1
  PROVE  \E e \in {-Cpr, 0, Cpr} :
           CountsToRad(c, n) = c.direction * ((n + e - c.zero) * Sub)
<1>1. c.zero \in 0 .. Cpr - 1 /\ c.direction \in {-1, 1}
  BY DEF Calibrations
<1> DEFINE z == c.zero
           d == (n - z) % Cpr
           short == IF 2 * d > Cpr THEN d - Cpr ELSE d
<1>2. d = n - z \/ d = n - z + Cpr
  <2>1. CASE n >= z
    <3>1. n - z \in 0 .. Cpr - 1
      BY <1>1, <2>1
    <3> QED BY <3>1, OwnTurn
  <2>2. CASE n < z
    <3>1. n - z + Cpr \in 0 .. Cpr - 1 /\ -Cpr \in {-Cpr, 0, Cpr}
      BY <1>1, <2>2
    <3>2. ((n - z + Cpr) + (-Cpr)) % Cpr = n - z + Cpr
      BY <3>1, SameRemainder
    <3>3. (n - z + Cpr) + (-Cpr) = n - z
      BY <1>1
    <3> QED BY <3>2, <3>3
  <2> QED BY <1>1, <2>1, <2>2
<1>3. CountsToRad(c, n) = c.direction * short * Sub
  BY DEF CountsToRad
<1>4. short \in Int
  BY <1>1, <1>2
<1>5. CountsToRad(c, n) = c.direction * (short * Sub)
  BY <1>1, <1>3, <1>4
<1>6. short = n + (-Cpr) - z \/ short = n + 0 - z \/ short = n + Cpr - z
  BY <1>1, <1>2
<1> HIDE DEF short
<1> QED BY <1>5, <1>6

\* A reading converts to an angle and back without loss: a joint that is parked
\* where it was read stands still.
THEOREM RoundTrip ==
  ASSUME NEW c \in Calibrations, NEW n \in 0 .. Cpr - 1
  PROVE  RadToCounts(c, CountsToRad(c, n)) = n
<1>1. c.zero \in 0 .. Cpr - 1 /\ c.direction \in {-1, 1}
  BY DEF Calibrations
<1>2. PICK e \in {-Cpr, 0, Cpr} :
        CountsToRad(c, n) = c.direction * ((n + e - c.zero) * Sub)
  BY ReadingAngle
<1>3. Unwrapped(c, CountsToRad(c, n)) = c.zero * Sub + (n + e - c.zero) * Sub
  <2> DEFINE y == (n + e - c.zero) * Sub
  <2>1. y \in Int
    BY <1>1
  <2> HIDE DEF y
  <2>2. c.direction * (c.direction * y) = y
    BY <1>1, <2>1
  <2> QED BY <1>2, <2>2 DEF Unwrapped, y
<1>4. c.zero * Sub + (n + e - c.zero) * Sub = (n + e) * Sub
  BY <1>1
<1>5. ToldCount(c, CountsToRad(c, n)) = n + e
  BY <1>3, <1>4, RintWhole DEF ToldCount
<1> QED BY <1>5, SameRemainder DEF RadToCounts

-----------------------------------------------------------------------------
(* The envelope.                                                           *)

LEMMA Envelope ==
  ASSUME NEW c \in Calibrations, NEW m \in Models
  PROVE  /\ SafeLow(c, m) \in Int /\ SafeHigh(c, m) \in Int
         /\ SafeLow(c, m) <= m.nominal /\ m.nominal <= SafeHigh(c, m)
         /\ SafeLow(c, m) >= Least(c.low + LimitMargin, m.nominal)
         /\ SafeLow(c, m) >= Least(m.low, m.nominal)
         /\ SafeHigh(c, m) <= Greatest(c.high - LimitMargin, m.nominal)
         /\ SafeHigh(c, m) <= Greatest(m.high, m.nominal)
<1>1. c.low \in Int /\ c.high \in Int
  BY DEF Calibrations
<1>2. m.low \in Int /\ m.high \in Int /\ m.nominal \in Int
  BY DEF Models
<1> QED BY <1>1, <1>2 DEF SafeLow, SafeHigh, HardLow, HardHigh, Least, Greatest

\* A joint that is accepted may be commanded no further beyond its measured
\* travel, or the model's, than the tolerance for the nominal pose.
THEOREM EnvelopeIsReachable ==
  ASSUME NEW c \in Calibrations, NEW m \in Models, Miss(c, m) <= NominalTolerance
  PROVE  /\ SafeLow(c, m) >= Greatest(c.low, m.low) - NominalTolerance
         /\ SafeHigh(c, m) <= Least(c.high, m.high) + NominalTolerance
<1>1. c.low \in Int /\ c.high \in Int
  BY DEF Calibrations
<1>2. m.low \in Int /\ m.high \in Int /\ m.nominal \in Int
  BY DEF Models
<1> QED BY <1>1, <1>2
        DEF Miss, SafeLow, SafeHigh, HardLow, HardHigh, Least, Greatest

\* An angle no further outside the envelope than the seam margin.
Marginal(c, m, angle) ==
  /\ angle \in Int
  /\ SafeLow(c, m) - SeamMargin * Sub <= angle
  /\ angle <= SafeHigh(c, m) + SeamMargin * Sub

LEMMA MarginalOnTurn ==
  ASSUME NEW c \in Calibrations, NEW m \in Models, SeamFree(c, m),
         NEW angle, Marginal(c, m, angle)
  PROVE  /\ Unwrapped(c, angle) \in Int
         /\ 0 <= Unwrapped(c, angle) /\ Unwrapped(c, angle) <= (Cpr - 1) * Sub
<1> DEFINE margin == SeamMargin * Sub
           top == (Cpr - 1) * Sub
           z == c.zero * Sub
<1>1. margin \in Nat /\ top \in Int /\ z \in Int /\ c.direction \in {-1, 1}
  BY DEF Calibrations
<1>2. SafeLow(c, m) \in Int /\ SafeHigh(c, m) \in Int /\ SafeLow(c, m) <= SafeHigh(c, m)
  BY Envelope DEF Models
<1> DEFINE lo == SafeLow(c, m)
           hi == SafeHigh(c, m)
<1>3. /\ Least(Unwrapped(c, lo), Unwrapped(c, hi)) - margin >= 0
      /\ Greatest(Unwrapped(c, lo), Unwrapped(c, hi)) + margin <= top
  BY DEF SeamFree, ClearOfSeam
<1>4. angle \in Int /\ lo - margin <= angle /\ angle <= hi + margin
  BY DEF Marginal
<1>5. lo \in Int /\ hi \in Int /\ lo <= hi
  BY <1>2
<1>6. \A a \in Int : \/ c.direction = 1 /\ Unwrapped(c, a) = z + a
                     \/ c.direction = -1 /\ Unwrapped(c, a) = z - a
  BY <1>1 DEF Unwrapped
<1> HIDE DEF margin, top, z, lo, hi
<1>7. CASE c.direction = 1
  <2>1. /\ Unwrapped(c, lo) = z + lo
        /\ Unwrapped(c, hi) = z + hi
        /\ Unwrapped(c, angle) = z + angle
    BY <1>4, <1>5, <1>6, <1>7
  <2> QED BY <1>1, <1>3, <1>4, <1>5, <2>1 DEF Least, Greatest, top
<1>8. CASE c.direction = -1
  <2>1. /\ Unwrapped(c, lo) = z - lo
        /\ Unwrapped(c, hi) = z - hi
        /\ Unwrapped(c, angle) = z - angle
    BY <1>4, <1>5, <1>6, <1>8
  <2> QED BY <1>1, <1>3, <1>4, <1>5, <2>1 DEF Least, Greatest, top
<1> QED BY <1>1, <1>7, <1>8

\* In a joint that passes the seam check no angle of the envelope, or within the
\* seam margin of it, is commanded by a wrapped count.
THEOREM NoGoalIsWrapped ==
  ASSUME NEW c \in Calibrations, NEW m \in Models, SeamFree(c, m),
         NEW angle, Marginal(c, m, angle)
  PROVE  /\ ToldCount(c, angle) \in 0 .. Cpr - 1
         /\ RadToCounts(c, angle) = ToldCount(c, angle)
<1>1. /\ Unwrapped(c, angle) \in Int
      /\ 0 <= Unwrapped(c, angle) /\ Unwrapped(c, angle) <= (Cpr - 1) * Sub
  BY MarginalOnTurn
<1>2. ToldCount(c, angle) \in 0 .. Cpr - 1
  BY <1>1, RintBounded DEF ToldCount
<1> QED BY <1>2, OwnTurn DEF RadToCounts

-----------------------------------------------------------------------------
(* The invariant.                                                          *)

Armed == sup.state \in {"ramping", "running"}

Target == sup.lastTarget[joint]

\* What the start of the node has established, for good.
Legal ==
  /\ Constructs(file)
  /\ SeamFree(cal, trained)

Bookkept ==
  /\ torque <=> Armed
  /\ Armed => sup.lastTarget # NoTarget /\ sup.rampStart # NoTarget
  /\ sup.state = "running" => SafeLow(cal, trained) <= Target /\ Target <= SafeHigh(cal, trained)

\* Shaft and target of a joint armed from nearby are on the encoder's own turn.
OnTurn ==
  (torque /\ near) =>
    /\ shaft \in 0 .. Cpr - 1
    /\ Marginal(cal, trained, Target)
    /\ goal = ToldCount(cal, Target)

DInv == TypeOK /\ Legal /\ Bookkept /\ OnTurn

LEMMA JointIsCalibrated ==
  ASSUME TypeOK, Constructs(file)
  PROVE  /\ cal \in Calibrations /\ trained \in Models
         /\ SafeLow(cal, trained) \in Int /\ SafeHigh(cal, trained) \in Int
         /\ SafeLow(cal, trained) < SafeHigh(cal, trained)
<1>1. joint \in PolicyNames /\ file \in Files
  BY DEF TypeOK
<1>2. Resolves(DOMAIN file)
  BY DEF Constructs
<1>3. NameMap(DOMAIN file)[joint] \in DOMAIN file
  BY <1>1, <1>2, NameMapBijective
<1>4. cal \in Calibrations
  BY <1>1, <1>3 DEF cal
<1>5. trained \in Models
  BY <1>1 DEF trained
<1>6. SafeLow(cal, trained) < SafeHigh(cal, trained)
  BY <1>1 DEF Constructs, cal, trained
<1> QED BY <1>4, <1>5, <1>6, Envelope

LEMMA CycleShape ==
  ASSUME DInv, NEW s \in Supervisors, NEW q \in Int,
         s.state \in {"ramping", "running"},
         s.lastTarget \in [{joint} -> Int], s.rampStart \in [{joint} -> Int]
  PROVE  LET t == R!Shape(s, Only(q))
         IN  /\ t \in Supervisors
             /\ t.state \in {"ramping", "running"}
             /\ t.lastTarget \in [{joint} -> Int]
             /\ t.rampStart = s.rampStart
             /\ SafeLow(cal, trained) <= t.lastTarget[joint]
             /\ t.lastTarget[joint] <= SafeHigh(cal, trained)
<1> DEFINE lo == SafeLow(cal, trained)
           hi == SafeHigh(cal, trained)
           c == R!ShapedCommand(s, Only(q))
<1>1. lo \in Int /\ hi \in Int /\ lo < hi
  BY JointIsCalibrated DEF DInv, Legal
<1>2. \A x \in Int : /\ R!Clip(x, lo, hi) \in Int
                     /\ lo <= R!Clip(x, lo, hi) /\ R!Clip(x, lo, hi) <= hi
  <2> HIDE DEF lo, hi
  <2> QED BY <1>1 DEF R!Clip
<1>3. \A v \in [{joint} -> Int] :
        /\ R!Clamp(v) \in [{joint} -> Int]
        /\ lo <= R!Clamp(v)[joint] /\ R!Clamp(v)[joint] <= hi
  <2>1. \A v : R!Clamp(v) = [j \in {joint} |-> R!Clip(v[j], lo, hi)]
    BY DEF R!Clamp, Only
  <2> HIDE DEF lo, hi
  <2> QED BY <1>2, <2>1
<1>4. Only(q) \in [{joint} -> Int]
  BY DEF Only
<1>5. \A a, b \in [{joint} -> Int], n \in Nat : R!Blend(a, b, n) \in [{joint} -> Int]
  <2> SUFFICES ASSUME NEW a \in [{joint} -> Int], NEW b \in [{joint} -> Int], NEW n \in Nat
               PROVE  R!Blend(a, b, n) \in [{joint} -> Int]
    OBVIOUS
  <2>1. \A x \in Int : x \div RampTicks \in Int
    BY DivisionBy
  <2>2. ((b[joint] - a[joint]) * n) \div RampTicks \in Int
    BY <2>1
  <2> QED BY <2>2 DEF R!Blend
<1>6. \A a, b \in [{joint} -> Int], k \in Nat : R!RateLimit(a, b, k) \in [{joint} -> Int]
  BY DEF R!RateLimit, R!Clip
<1>7. s.elapsed \in Nat /\ R!Tick(s.elapsed) \in Nat
  BY DEF R!Tick, Supervisors
<1>8. c \in [{joint} -> Int] /\ lo <= c[joint] /\ c[joint] <= hi
  <2> DEFINE goalNow == IF s.state = "ramping"
                          THEN R!Blend(s.rampStart, R!Clamp(Only(q)), R!Tick(s.elapsed))
                          ELSE R!Clamp(Only(q))
             step == IF s.state = "ramping" THEN RampStep ELSE RunStep
  <2>1. goalNow \in [{joint} -> Int]
    BY <1>3, <1>4, <1>5, <1>7
  <2>2. R!RateLimit(s.lastTarget, goalNow, step) \in [{joint} -> Int]
    <3> HIDE DEF goalNow
    <3> QED BY <1>6, <2>1
  <2>3. c = R!Clamp(R!RateLimit(s.lastTarget, goalNow, step))
    BY DEF R!ShapedCommand
  <2> HIDE DEF goalNow, step, c, lo, hi
  <2> QED BY <1>3, <2>2, <2>3
<1> DEFINE e == IF s.state = "ramping" THEN R!Tick(s.elapsed) ELSE s.elapsed
           st == IF e = RampTicks THEN "running" ELSE s.state
<1>9. R!Shape(s, Only(q)) = [s EXCEPT !.elapsed = e, !.state = st, !.lastTarget = c]
  BY DEF R!Shape
<1>10. e \in Nat /\ st \in {"ramping", "running"}
  BY <1>7
<1> HIDE DEF c, e, st, lo, hi
<1>11. [s EXCEPT !.elapsed = e, !.state = st, !.lastTarget = c] \in Supervisors
  BY <1>8, <1>10 DEF Supervisors, R!States
<1> QED BY <1>8, <1>9, <1>10, <1>11 DEF Supervisors, lo, hi

LEMMA CycleTracks ==
  ASSUME DInv, NEW a \in Int
  PROVE  LET t == R!CheckTracking(sup, Only(a))
         IN  /\ t \in Supervisors
             /\ t.lastTarget = sup.lastTarget /\ t.rampStart = sup.rampStart
             /\ t.state = sup.state \/ t.state = "fault"
<1> DEFINE strikes == [j \in {joint} |->
                         R!Strikes(R!Apart(Only(a)[j], sup.lastTarget[j]) > StallError,
                                   sup.stall[j])]
           s1 == [sup EXCEPT !.stall = strikes]
           none == [j \in {joint} |-> 0]
           t == R!CheckTracking(sup, Only(a))
<1>1. sup \in Supervisors
  BY DEF DInv, TypeOK
<1>2. strikes \in [{joint} -> Nat] /\ none \in [{joint} -> Nat]
  BY <1>1 DEF R!Strikes, Supervisors
<1>3. \/ t = [sup EXCEPT !.stall = none]
      \/ t = sup
      \/ t = R!Trip(s1, "STALL")
      \/ t = s1
  BY DEF R!CheckTracking, R!NoStall
<1>4. \/ R!Trip(s1, "STALL") = s1
      \/ R!Trip(s1, "STALL") = [s1 EXCEPT !.state = "fault", !.fault = "STALL"]
  BY DEF R!Trip
<1> HIDE DEF strikes, none, t
<1>5. s1 \in Supervisors
  BY <1>1, <1>2 DEF Supervisors
<1>6. [s1 EXCEPT !.state = "fault", !.fault = "STALL"] \in Supervisors
  BY <1>1, <1>2 DEF Supervisors, R!States, R!FaultCodes
<1>7. [sup EXCEPT !.stall = none] \in Supervisors
  BY <1>1, <1>2 DEF Supervisors
<1>8. /\ t \in Supervisors
      /\ t.lastTarget = sup.lastTarget /\ t.rampStart = sup.rampStart
      /\ t.state = sup.state \/ t.state = "fault"
  <2>1. CASE t = [sup EXCEPT !.stall = none]
    BY <1>1, <1>7, <2>1 DEF Supervisors
  <2>2. CASE t = sup
    BY <1>1, <2>2
  <2>3. CASE t = s1
    BY <1>1, <1>5, <2>3 DEF Supervisors
  <2>4. CASE t = [s1 EXCEPT !.state = "fault", !.fault = "STALL"]
    BY <1>1, <1>6, <2>4 DEF Supervisors
  <2> QED BY <1>3, <1>4, <2>1, <2>2, <2>3, <2>4
<1> QED BY <1>8 DEF t

LEMMA NodeStarts == Init => DInv
<1> SUFFICES ASSUME Init PROVE DInv
  OBVIOUS
<1>1. /\ file \in Files /\ Constructs(file) /\ joint \in PolicyNames
      /\ SeamFree(cal, trained)
  BY DEF Init, cal, trained
<1>2. NameMap(DOMAIN file)[joint] \in DOMAIN file
  BY <1>1, NameMapBijective DEF Constructs
<1>3. cal \in Calibrations
  BY <1>1, <1>2 DEF cal
<1>4. shaft \in Int
  BY <1>3 DEF Init, Calibrations
<1>5. /\ sup \in Supervisors
      /\ sup.state = "disarmed"
  BY DEF Init, R!InitSupervisor, R!NoStall, Supervisors, R!States, R!FaultCodes
<1>6. goal \in 0 .. Cpr - 1
  BY DEF Init
<1> QED BY <1>1, <1>4, <1>5, <1>6 DEF Init, DInv, TypeOK, Legal, Bookkept, OnTurn, Armed

\* The calibration and what follows from it do not change in a step.
LEMMA SameJoint ==
  ASSUME UNCHANGED <<file, joint>>
  PROVE  cal' = cal /\ trained' = trained
BY DEF cal, trained

LEMMA MovedKept == DInv /\ MovedByHand => DInv'
<1> SUFFICES ASSUME DInv, MovedByHand PROVE DInv'
  OBVIOUS
<1>1. cal \in Calibrations
  BY JointIsCalibrated DEF DInv, Legal
<1>2. shaft' \in Int
  BY <1>1 DEF MovedByHand, Calibrations
<1>3. cal' = cal /\ trained' = trained
  BY SameJoint DEF MovedByHand
<1> QED BY <1>2, <1>3
        DEF DInv, TypeOK, Legal, Bookkept, OnTurn, MovedByHand, Armed, Target, Supervisors

LEMMA TurnsKept == DInv /\ Turns => DInv'
<1> SUFFICES ASSUME DInv, Turns PROVE DInv'
  OBVIOUS
<1>1. cal' = cal /\ trained' = trained
  BY SameJoint DEF Turns
<1>2. shaft \in Int /\ shaft' = shaft + (IF goal > Reading THEN 1 ELSE -1)
  BY DEF DInv, TypeOK, Turns
<1>3. ASSUME shaft \in 0 .. Cpr - 1
      PROVE  shaft' \in 0 .. Cpr - 1
  <2>1. Reading = shaft
    BY <1>3, OwnTurn DEF Reading
  <2>2. goal \in 0 .. Cpr - 1 /\ goal # Reading
    BY DEF DInv, TypeOK, Turns
  <2> QED BY <1>2, <1>3, <2>1, <2>2
<1> QED BY <1>1, <1>2, <1>3
        DEF DInv, TypeOK, Legal, Bookkept, OnTurn, Turns, Armed, Target, Supervisors

LEMMA ArmKept == DInv /\ ArmService => DInv'
<1> SUFFICES ASSUME DInv, ArmService PROVE DInv'
  OBVIOUS
<1>1. cal' = cal /\ trained' = trained
  BY SameJoint DEF ArmService
<1>2. /\ cal \in Calibrations /\ trained \in Models
      /\ SafeLow(cal, trained) \in Int /\ SafeHigh(cal, trained) \in Int
  BY JointIsCalibrated DEF DInv, Legal
<1>3. positions \in Int /\ shaft \in Int
  BY DEF DInv, TypeOK, ArmService
<1>4. Only(positions) \in [{joint} -> Int] /\ Only(positions)[joint] = positions
  BY <1>3 DEF Only
<1>5. /\ sup' \in Supervisors
      /\ sup'.state = "ramping"
      /\ sup'.lastTarget = Only(positions) /\ sup'.rampStart = Only(positions)
  BY <1>4 DEF ArmService, R!Arm, R!NoStall, Supervisors, R!States, DInv, TypeOK
<1>6. NoTarget # Only(positions)
  <2>1. NoTarget \notin [{joint} -> Int]
    BY DEF DInv, TypeOK
  <2> QED BY <1>4, <2>1
<1>7. goal' = RadToCounts(cal, positions) /\ goal' \in 0 .. Cpr - 1
  <2>1. Unwrapped(cal, positions) \in Int
    BY <1>2, <1>3 DEF Unwrapped, Calibrations
  <2>2. ToldCount(cal, positions) \in Int
    BY <2>1, RintType DEF ToldCount
  <2> QED BY <2>2, Remainder DEF ArmService, RadToCounts
<1>8. ASSUME near'
      PROVE  /\ Marginal(cal, trained, positions)
             /\ Marginal(cal, trained, RealAngle)
  <2> DEFINE margin == SeamMargin * Sub
             lo == SafeLow(cal, trained)
             hi == SafeHigh(cal, trained)
  <2>1. \A a \in {positions, RealAngle} : R!Excursion(Only(a), joint) <= margin
    BY <1>8 DEF ArmService
  <2>2. \A a : R!Excursion(Only(a), joint) = IF a < lo THEN lo - a ELSE IF a > hi THEN a - hi ELSE 0
    BY DEF R!Excursion, Only
  <2>3. RealAngle \in Int
    BY <1>2, <1>3 DEF RealAngle, Calibrations
  <2>4. margin \in Nat /\ lo \in Int /\ hi \in Int /\ lo <= hi
    BY <1>2, JointIsCalibrated DEF DInv, Legal
  <2> HIDE DEF margin, lo, hi
  <2>5. \A a \in {positions, RealAngle} : lo - margin <= a /\ a <= hi + margin
    BY <1>3, <2>1, <2>2, <2>3, <2>4
  <2> QED BY <1>3, <2>3, <2>5 DEF Marginal, margin, lo, hi
<1>9. ASSUME near'
      PROVE  shaft \in 0 .. Cpr - 1
  <2>1. 0 <= Unwrapped(cal, RealAngle) /\ Unwrapped(cal, RealAngle) <= (Cpr - 1) * Sub
    BY <1>2, <1>8, <1>9, MarginalOnTurn DEF DInv, Legal
  <2>2. Unwrapped(cal, RealAngle) = shaft * Sub
    <3> DEFINE y == (shaft - cal.zero) * Sub
    <3>1. cal.direction \in {-1, 1} /\ cal.zero \in Int
      BY <1>2 DEF Calibrations
    <3>2. y \in Int
      BY <1>3, <3>1
    <3>3. RealAngle = cal.direction * y
      BY <1>3, <3>1 DEF RealAngle
    <3> HIDE DEF y
    <3>4. cal.direction * (cal.direction * y) = y
      BY <3>1, <3>2
    <3>5. Unwrapped(cal, RealAngle) = cal.zero * Sub + y
      BY <3>3, <3>4 DEF Unwrapped
    <3> QED BY <1>3, <3>1, <3>5 DEF y
  <2>3. Rint(shaft * Sub) \in 0 .. Cpr - 1
    <3>1. shaft * Sub \in Int
      BY <1>3
    <3> QED BY <2>1, <2>2, <3>1, RintBounded
  <2> QED BY <1>3, <2>3, RintWhole
<1>10. OnTurn'
  <2>1. ASSUME near'
        PROVE  /\ Marginal(cal, trained, Target)'
               /\ goal' = ToldCount(cal, Target)'
    <3>1. Target' = positions
      BY <1>4, <1>5 DEF Target, ArmService
    <3>2. goal' = ToldCount(cal, positions)
      BY <1>2, <1>7, <1>8, <2>1, NoGoalIsWrapped DEF DInv, Legal
    <3> QED BY <1>1, <1>8, <2>1, <3>1, <3>2 DEF Marginal
  <2>2. shaft' = shaft
    BY DEF ArmService
  <2> QED BY <1>9, <2>1, <2>2 DEF OnTurn
<1>11. Bookkept'
  BY <1>5, <1>6 DEF Bookkept, Armed, ArmService
<1>12. TypeOK'
  BY <1>5, <1>7 DEF TypeOK, DInv, ArmService, Supervisors, R!States, R!FaultCodes
<1>13. Legal'
  BY <1>1 DEF Legal, DInv, ArmService
<1> QED BY <1>10, <1>11, <1>12, <1>13 DEF DInv

LEMMA DisarmKept == DInv /\ DisarmService => DInv'
<1> SUFFICES ASSUME DInv, DisarmService PROVE DInv'
  OBVIOUS
<1>1. cal' = cal /\ trained' = trained
  BY SameJoint DEF DisarmService
<1> DEFINE st == IF R!Faulted(sup) THEN "fault" ELSE "disarmed"
<1>2. sup' = [sup EXCEPT !.state = st, !.lastTarget = NoTarget, !.rampStart = NoTarget]
  BY DEF DisarmService, R!Disarm
<1>3. st \in {"fault", "disarmed"}
  OBVIOUS
<1> HIDE DEF st
<1>4. sup' \in Supervisors /\ sup'.state = st
  BY <1>2, <1>3 DEF DInv, TypeOK, Supervisors, R!States
<1> QED BY <1>1, <1>3, <1>4
        DEF DInv, TypeOK, Legal, Bookkept, OnTurn, DisarmService, Armed, Supervisors

\* A cycle reads an angle, or leaves the one there was.
LEMMA CycleReads ==
  ASSUME DInv, NEW readOk \in BOOLEAN,
         positions' = IF readOk THEN CountsToRad(cal, Reading) ELSE positions
  PROVE  /\ positions' \in Int \cup {NoTarget}
         /\ readOk => positions' \in Int
<1>1. cal \in Calibrations
  BY JointIsCalibrated DEF DInv, Legal
<1>2. Reading \in 0 .. Cpr - 1
  BY Remainder DEF Reading, DInv, TypeOK
<1>3. PICK e \in {-Cpr, 0, Cpr} :
        CountsToRad(cal, Reading) = cal.direction * ((Reading + e - cal.zero) * Sub)
  BY <1>1, <1>2, ReadingAngle
<1>4. cal.direction \in {-1, 1} /\ (Reading + e - cal.zero) * Sub \in Int
  BY <1>1, <1>2 DEF Calibrations
<1>5. CountsToRad(cal, Reading) \in Int
  BY <1>3, <1>4
<1> QED BY <1>5 DEF DInv, TypeOK

\* The supervisor after the tracking monitor, where it was asked.
LEMMA CycleTracked ==
  ASSUME DInv, NEW readOk \in BOOLEAN, readOk => positions' \in Int
  PROVE  LET t == IF readOk THEN R!CheckTracking(sup, Only(positions')) ELSE sup
         IN  /\ t \in Supervisors
             /\ t.lastTarget = sup.lastTarget /\ t.rampStart = sup.rampStart
             /\ t.state = sup.state \/ t.state = "fault"
<1>1. CASE readOk
  BY <1>1, CycleTracks
<1>2. CASE ~readOk
  BY <1>2 DEF DInv, TypeOK
<1> QED BY <1>1, <1>2

LEMMA CycleKept == DInv /\ ControlCycle => DInv'
<1> SUFFICES ASSUME DInv, ControlCycle PROVE DInv'
  OBVIOUS
<1>1. PICK readOk \in BOOLEAN :
        /\ positions' = IF readOk THEN CountsToRad(cal, Reading) ELSE positions
        /\ CycleFaults(readOk) \/ CycleDrives(readOk) \/ CycleIdles(readOk)
  BY DEF ControlCycle
<1>2. /\ UNCHANGED <<file, joint, shaft, near>>
      /\ cal' = cal /\ trained' = trained
  BY SameJoint DEF ControlCycle
<1>3. positions' \in Int \cup {NoTarget} /\ (readOk => positions' \in Int)
  BY <1>1, CycleReads
<1>4. sup \in Supervisors /\ goal \in 0 .. Cpr - 1
  BY DEF DInv, TypeOK
<1> DEFINE t == IF readOk THEN R!CheckTracking(sup, Only(positions')) ELSE sup
<1>5. /\ t \in Supervisors
      /\ t.lastTarget = sup.lastTarget /\ t.rampStart = sup.rampStart
      /\ t.state = sup.state \/ t.state = "fault"
  BY <1>3, CycleTracked
<1>6. ASSUME sup' \in Supervisors, goal' \in 0 .. Cpr - 1, torque' \in BOOLEAN,
             Bookkept', OnTurn'
      PROVE  DInv'
  BY <1>2, <1>3, <1>6 DEF DInv, TypeOK, Legal, Supervisors
<1>7. CASE CycleFaults(readOk)
  <2>1. sup' \in Supervisors /\ sup'.state = "fault"
    <3>1. CASE sup' = R!Trip(sup, "FALL")
      BY <1>4, <1>7, <3>1
         DEF CycleFaults, R!Trip, R!Faulted, Supervisors, R!States, R!FaultCodes, R!HealthFaults
    <3>2. CASE readOk /\ sup' = R!CheckTracking(sup, Only(positions')) /\ R!Faulted(sup')
      BY <1>5, <3>2 DEF R!Faulted
    <3> QED BY <1>7, <3>1, <3>2 DEF CycleFaults
  <2>2. goal' = goal /\ torque' = FALSE
    BY <1>7 DEF CycleFaults
  <2> QED BY <1>2, <1>4, <1>6, <2>1, <2>2 DEF Bookkept, OnTurn, Armed, Supervisors
<1>8. CASE CycleDrives(readOk)
  <2>1. /\ R!MayShape(t) /\ UNCHANGED torque
        /\ \E q \in Commands : /\ sup' = R!Shape(t, Only(q))
                               /\ goal' = RadToCounts(cal, sup'.lastTarget[joint])
    BY <1>8 DEF CycleDrives
  <2> HIDE DEF t
  <2>2. PICK q \in Commands : /\ sup' = R!Shape(t, Only(q))
                              /\ goal' = RadToCounts(cal, sup'.lastTarget[joint])
    BY <2>1
  <2>3. t.state \in {"ramping", "running"} /\ Armed /\ torque
    BY <1>5, <2>1 DEF R!MayShape, Armed, DInv, Bookkept
  <2>4. t.lastTarget \in [{joint} -> Int] /\ t.rampStart \in [{joint} -> Int]
    BY <1>4, <1>5, <2>3 DEF DInv, Bookkept, Supervisors
  <2>5. /\ sup' \in Supervisors
        /\ sup'.state \in {"ramping", "running"}
        /\ sup'.lastTarget \in [{joint} -> Int]
        /\ sup'.rampStart = t.rampStart
        /\ SafeLow(cal, trained) <= sup'.lastTarget[joint]
        /\ sup'.lastTarget[joint] <= SafeHigh(cal, trained)
    BY <1>5, <2>2, <2>3, <2>4, CycleShape
  <2>6. Target' = sup'.lastTarget[joint] /\ Target' \in Int
    BY <1>2, <2>5 DEF Target
  <2>7. Marginal(cal, trained, Target')
    <3>1. SeamMargin * Sub \in Nat
      OBVIOUS
    <3>2. SafeLow(cal, trained) \in Int /\ SafeHigh(cal, trained) \in Int
      BY JointIsCalibrated DEF DInv, Legal
    <3> QED BY <2>5, <2>6, <3>1, <3>2 DEF Marginal
  <2>8. cal \in Calibrations /\ trained \in Models /\ SeamFree(cal, trained)
    BY JointIsCalibrated DEF DInv, Legal
  <2>9. goal' = ToldCount(cal, Target') /\ goal' \in 0 .. Cpr - 1
    BY <2>2, <2>6, <2>7, <2>8, NoGoalIsWrapped
  <2>10. Bookkept'
    <3>1. sup'.lastTarget # NoTarget /\ sup'.rampStart # NoTarget
      BY <2>4, <2>5 DEF DInv, TypeOK
    <3> QED BY <1>2, <2>1, <2>3, <2>5, <2>6, <3>1 DEF Bookkept, Armed
  <2>11. OnTurn'
    <3>1. ToldCount(cal, Target)' = ToldCount(cal, Target')
      BY <1>2 DEF ToldCount, Unwrapped
    <3>2. Marginal(cal, trained, Target)' = Marginal(cal, trained, Target')
      BY <1>2 DEF Marginal
    <3> QED BY <1>2, <2>1, <2>3, <2>7, <2>9, <3>1, <3>2 DEF OnTurn, DInv
  <2> QED BY <1>6, <2>1, <2>5, <2>9, <2>10, <2>11 DEF DInv, TypeOK
<1>9. CASE CycleIdles(readOk)
  <2>1. /\ R!Faulted(t) => R!Faulted(sup)
        /\ sup' = t
        /\ UNCHANGED <<goal, torque>>
    BY <1>9 DEF CycleIdles
  <2>2. sup'.state = sup.state /\ sup' \in Supervisors
    BY <1>5, <2>1 DEF R!Faulted
  <2>3. sup'.lastTarget = sup.lastTarget /\ sup'.rampStart = sup.rampStart
    BY <1>5, <2>1
  <2>4. Bookkept'
    BY <1>2, <2>1, <2>2, <2>3 DEF Bookkept, Armed, Target, DInv
  <2>5. OnTurn'
    BY <1>2, <2>1, <2>3 DEF OnTurn, Target, DInv
  <2> QED BY <1>4, <1>6, <2>1, <2>2, <2>4, <2>5 DEF DInv, TypeOK
<1> QED BY <1>1, <1>7, <1>8, <1>9

LEMMA StutterKept == DInv /\ UNCHANGED vars => DInv'
<1> SUFFICES ASSUME DInv, UNCHANGED vars PROVE DInv'
  OBVIOUS
<1>1. cal' = cal /\ trained' = trained
  BY SameJoint DEF vars
<1> QED BY <1>1
        DEF vars, DInv, TypeOK, Legal, Bookkept, OnTurn, Armed, Target, Supervisors

\* Where the joint, its goal and the supervisor's target are to one another holds in
\* every reachable state, for every joint map the seam check accepts.
THEOREM DriveInvariant == Spec => []DInv
<1>1. DInv /\ [Next]_vars => DInv'
  BY MovedKept, TurnsKept, ArmKept, DisarmKept, CycleKept, StutterKept DEF Next
<1> QED BY NodeStarts, <1>1, PTL DEF Spec

\* Whatever the calibration accepted at the start, the turn and the margin: a
\* joint armed from within the seam margin (seam_violations) of its envelope is
\* never sent the long way round.
THEOREM NeverTheLongWay == Spec => []GoesWhereTold
<1>1. DInv => GoesWhereTold
  <2> SUFFICES ASSUME DInv, torque, near
               PROVE  shaft + (goal - Reading) = ToldCount(cal, Target)
    BY DEF GoesWhereTold, Target
  <2>1. shaft \in 0 .. Cpr - 1 /\ goal = ToldCount(cal, Target)
    BY DEF DInv, OnTurn
  <2>2. Reading = shaft
    BY <2>1, OwnTurn DEF Reading
  <2>3. goal \in Int
    BY DEF DInv, TypeOK
  <2> QED BY <2>1, <2>2, <2>3
<1> QED BY <1>1, DriveInvariant, PTL

\* The limit margin of JointMap is kept at full rate, but for a nominal pose that
\* lies within it.
THEOREM StopsAreRespected == Spec => []KeepsOffTheStops
<1>1. DInv => KeepsOffTheStops
  <2> SUFFICES ASSUME DInv, sup.state = "running"
               PROVE  /\ Target >= Least(cal.low + LimitMargin, trained.nominal)
                      /\ Target >= Least(trained.low, trained.nominal)
                      /\ Target <= Greatest(cal.high - LimitMargin, trained.nominal)
                      /\ Target <= Greatest(trained.high, trained.nominal)
    BY DEF KeepsOffTheStops, Target
  <2>1. cal \in Calibrations /\ trained \in Models
    BY JointIsCalibrated DEF DInv, Legal
  <2>2. SafeLow(cal, trained) <= Target /\ Target <= SafeHigh(cal, trained)
    BY DEF DInv, Bookkept
  <2>3. Target \in Int
    BY DEF DInv, TypeOK, Bookkept, Armed, Target, Supervisors
  <2>4. /\ Least(cal.low + LimitMargin, trained.nominal) \in Int
        /\ Least(trained.low, trained.nominal) \in Int
        /\ Greatest(cal.high - LimitMargin, trained.nominal) \in Int
        /\ Greatest(trained.high, trained.nominal) \in Int
    BY <2>1 DEF Least, Greatest, Calibrations, Models
  <2>5. SafeLow(cal, trained) \in Int /\ SafeHigh(cal, trained) \in Int
    BY <2>1, Envelope
  <2> QED BY <2>1, <2>2, <2>3, <2>4, <2>5, Envelope
<1> QED BY <1>1, DriveInvariant, PTL

\* Type correctness: every goal is a count the servo accepts, and positions are
\* angles.
THEOREM DriveTypeCorrect == Spec => []TypeOK
BY DriveInvariant, PTL DEF DInv

=============================================================================
