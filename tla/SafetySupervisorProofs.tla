------------------------ MODULE SafetySupervisorProofs ------------------------
(***************************************************************************)
(* First the operators of SafetyRules: each keeps a supervisor Sound, and  *)
(* what a shaped command satisfies.  ServoNodeProofs uses these lemmas too.*)
(* Then invariants and action properties of SafetySupervisor, for every    *)
(* set of joints, every envelope and every threshold.  The inductive       *)
(* invariant is Sound(supervisor), and what is known of the latest answer. *)
(***************************************************************************)
EXTENDS SafetySupervisor, TLAPS

(***************************************************************************)
(* Facts about the operators that shape a command.                         *)
(***************************************************************************)

\* np.clip puts an integer inside its bounds.
LEMMA ClipBounds ==
  ASSUME NEW x \in Int, NEW lo \in Int, NEW hi \in Int, lo <= hi
  PROVE  Clip(x, lo, hi) \in Int /\ lo <= Clip(x, lo, hi) /\ Clip(x, lo, hi) <= hi
  BY DEF Clip

\* joint_map.clamp() returns a vector inside the safe envelope.
LEMMA ClampInEnvelope ==
  ASSUME NEW q \in Angles
  PROVE  Clamp(q) \in Angles /\ InEnvelope(Clamp(q))
<1>1. ASSUME NEW j \in Joints
      PROVE  /\ Clip(q[j], Lower[j], Upper[j]) \in Int
             /\ Lower[j] <= Clip(q[j], Lower[j], Upper[j])
             /\ Clip(q[j], Lower[j], Upper[j]) <= Upper[j]
  <2>1. q[j] \in Int /\ Lower[j] \in Int /\ Upper[j] \in Int /\ Lower[j] <= Upper[j]
    BY EnvelopeAssumption DEF Angles
  <2>2. QED  BY <2>1, ClipBounds
<1>2. QED  BY <1>1 DEF Clamp, Angles, InEnvelope

\* The ramp's blend and the rate limiter return joint vectors.
LEMMA BlendType ==
  ASSUME NEW p \in Angles, NEW q \in Angles, NEW n \in Nat
  PROVE  Blend(p, q, n) \in Angles
<1>1. ASSUME NEW j \in Joints
      PROVE  p[j] + ((q[j] - p[j]) * n) \div RampTicks \in Int
  <2>1. p[j] \in Int /\ q[j] \in Int /\ n \in Int  BY DEF Angles
  <2>2. (q[j] - p[j]) * n \in Int  BY <2>1
  <2>3. RampTicks \in Int /\ RampTicks > 0  BY ThresholdAssumption
  <2>4. ((q[j] - p[j]) * n) \div RampTicks \in Int  BY <2>2, <2>3
  <2>5. QED  BY <2>1, <2>4
<1>2. QED  BY <1>1 DEF Blend, Angles

\* The rate limiter moves no joint by more than one step.
LEMMA RateLimitStep ==
  ASSUME NEW p \in Angles, NEW q \in Angles, NEW step \in Nat
  PROVE  /\ RateLimit(p, q, step) \in Angles
         /\ \A j \in Joints : /\ p[j] - step <= RateLimit(p, q, step)[j]
                              /\ RateLimit(p, q, step)[j] <= p[j] + step
<1>1. ASSUME NEW j \in Joints
      PROVE  /\ p[j] + Clip(q[j] - p[j], -step, step) \in Int
             /\ p[j] - step <= p[j] + Clip(q[j] - p[j], -step, step)
             /\ p[j] + Clip(q[j] - p[j], -step, step) <= p[j] + step
  <2>1. p[j] \in Int /\ q[j] \in Int  BY DEF Angles
  <2>2. /\ Clip(q[j] - p[j], -step, step) \in Int
        /\ -step <= Clip(q[j] - p[j], -step, step)
        /\ Clip(q[j] - p[j], -step, step) <= step
    BY <2>1 DEF Clip
  <2>3. QED  BY <2>1, <2>2
<1>2. QED  BY <1>1 DEF RateLimit, Angles

\* Clamping a rate-limited vector moves a joint by a step at most, or by what
\* the joint was outside the envelope.
LEMMA ClampedStep ==
  ASSUME NEW p \in Angles, NEW r \in Angles, NEW step \in Nat, NEW j \in Joints,
         p[j] - step <= r[j], r[j] <= p[j] + step
  PROVE  Apart(Clamp(r)[j], p[j]) <= Larger(step, Excursion(p, j))
<1>1. /\ p[j] \in Int /\ r[j] \in Int
      /\ Lower[j] \in Int /\ Upper[j] \in Int /\ Lower[j] < Upper[j]
  BY EnvelopeAssumption DEF Angles
<1>2. Clamp(r)[j] = Clip(r[j], Lower[j], Upper[j])  BY DEF Clamp
<1>3. QED  BY <1>1, <1>2 DEF Clip, Apart, Larger, Excursion

\* One more ramp step takes a joint at most one step further from where the
\* ramp started, measured from the start pose clamped into the envelope.
LEMMA RampStepFurther ==
  ASSUME NEW s \in Angles, NEW p \in Angles, NEW r \in Angles, NEW j \in Joints,
         NEW d \in Nat, NEW step \in Nat,
         p[j] - step <= r[j], r[j] <= p[j] + step,
         p[j] = s[j] \/ Apart(p[j], Clamp(s)[j]) <= d
  PROVE  Apart(Clamp(r)[j], Clamp(s)[j]) <= d + step
<1>1. /\ p[j] \in Int /\ r[j] \in Int /\ s[j] \in Int
      /\ Lower[j] \in Int /\ Upper[j] \in Int /\ Lower[j] < Upper[j]
  BY EnvelopeAssumption DEF Angles
<1>2. /\ Clamp(r)[j] = Clip(r[j], Lower[j], Upper[j])
      /\ Clamp(s)[j] = Clip(s[j], Lower[j], Upper[j])
  BY DEF Clamp
<1>3. QED  BY <1>1, <1>2 DEF Clip, Apart

(***************************************************************************)
(* Every operator keeps the supervisor Sound.                              *)
(***************************************************************************)

HealthSample(h) ==
  /\ h.attitude \in Attitudes /\ h.freefall \in BOOLEAN /\ h.readOk \in BOOLEAN
  /\ h.age \in Nat /\ h.hot \in BOOLEAN /\ h.low \in BOOLEAN

LEMMA InitSound == Sound(InitSupervisor)
<1>1. NoStall \in [Joints -> 0 .. StallPersist]
  BY ThresholdAssumption DEF NoStall
<1>2. InitSupervisor \in Supervisors
  BY <1>1, ThresholdAssumption
  DEF InitSupervisor, Supervisors, States
<1>3. Bites(InitSupervisor)
  BY ThresholdAssumption DEF Bites, InitSupervisor, NoStall
<1>4. QED
  BY <1>2, <1>3 DEF Sound, Bookkept, Ramped, Gradual, InitSupervisor

\* trip() with any code keeps the supervisor sound.
LEMMA TripSound ==
  ASSUME NEW s, Sound(s), NEW c \in FaultCodes
  PROVE  Sound(Trip(s, c))
<1>1. CASE Faulted(s)  BY <1>1 DEF Trip
<1>2. CASE ~Faulted(s)
  <2>1. Trip(s, c) = [s EXCEPT !.state = "fault", !.fault = c]  BY <1>2 DEF Trip
  <2>2. c # "none"  BY DEF FaultCodes, HealthFaults
  <2>3. Trip(s, c) \in Supervisors  BY <2>1 DEF Sound, Supervisors, States
  <2>4. /\ Trip(s, c).state = "fault"
        /\ Trip(s, c).fault = c
    BY <2>1 DEF Sound, Supervisors
  <2>5. QED  BY <2>2, <2>3, <2>4 DEF Sound, Bookkept, Ramped, Gradual, Bites, Faulted
<1>3. QED  BY <1>1, <1>2

\* arm() starts a ramp at the measured pose, with every counter at zero.
LEMMA ArmSound ==
  ASSUME NEW s, Sound(s), ~Faulted(s), NEW q \in Angles
  PROVE  Sound(Arm(s, q))
<1> DEFINE t == Arm(s, q)
<1>1. NoStall \in [Joints -> 0 .. StallPersist]
  BY ThresholdAssumption DEF NoStall
<1>2. t \in Supervisors
  BY <1>1, ThresholdAssumption DEF Arm, Sound, Supervisors, States
<1>3. /\ t.state = "ramping" /\ t.fault = s.fault
      /\ t.lastTarget = q /\ t.rampStart = q /\ t.elapsed = 0
      /\ t.tilt = 0 /\ t.freefall = 0 /\ t.readFail = 0 /\ t.stall = NoStall
  BY DEF Arm, Sound, Supervisors
<1>4. s.fault = "none"  BY DEF Sound, Bookkept, Faulted
<1>5. Bookkept(t)  BY <1>3, <1>4, ThresholdAssumption DEF Bookkept
<1>6. Gradual(t) /\ Ramped(t)  BY <1>3 DEF Gradual, Ramped
<1>7. Bites(t)  BY <1>3, ThresholdAssumption DEF Bites, NoStall
<1>8. QED  BY <1>2, <1>5, <1>6, <1>7 DEF Sound

LEMMA DisarmSound ==
  ASSUME NEW s, Sound(s)
  PROVE  Sound(Disarm(s))
<1> DEFINE t == Disarm(s)
<1>1. t \in Supervisors  BY DEF Disarm, Faulted, Sound, Supervisors, States
<1>2. /\ t.state = IF Faulted(s) THEN "fault" ELSE "disarmed"
      /\ t.fault = s.fault /\ t.stall = s.stall
      /\ t.tilt = s.tilt /\ t.freefall = s.freefall /\ t.readFail = s.readFail
  BY DEF Disarm, Sound, Supervisors
<1>3. QED  BY <1>1, <1>2 DEF Sound, Bookkept, Ramped, Gradual, Bites, Faulted

\* A strike counter below its limit stays at or below it.
LEMMA StrikesBounded ==
  ASSUME NEW bad \in BOOLEAN, NEW limit \in Nat, NEW n \in 0 .. limit, n < limit
  PROVE  Strikes(bad, n) \in 0 .. limit
  BY DEF Strikes

\* Changing nothing but the counters, to values the monitors accept, keeps a
\* supervisor sound.
LEMMA CountersSound ==
  ASSUME NEW s, Sound(s), ~Faulted(s),
         NEW t \in Supervisors, Bites(t),
         t.state = s.state, t.fault = s.fault, t.lastTarget = s.lastTarget,
         t.rampStart = s.rampStart, t.elapsed = s.elapsed
  PROVE  Sound(t)
  BY DEF Sound, Bookkept, Ramped, Gradual

\* And so does tripping with counters that may have reached their limits.
LEMMA TripCountersSound ==
  ASSUME NEW t \in Supervisors, ~Faulted(t), NEW c \in FaultCodes
  PROVE  Sound(Trip(t, c)) /\ Trip(t, c).state = "fault"
<1>1. Trip(t, c) = [t EXCEPT !.state = "fault", !.fault = c]  BY DEF Trip
<1>2. c # "none"  BY DEF FaultCodes, HealthFaults
<1>3. Trip(t, c) \in Supervisors  BY <1>1 DEF Supervisors, States
<1>4. Trip(t, c).state = "fault" /\ Trip(t, c).fault = c
  BY <1>1 DEF Supervisors
<1>5. QED  BY <1>2, <1>3, <1>4 DEF Sound, Bookkept, Ramped, Gradual, Bites, Faulted

\* check_health() keeps the supervisor sound and touches nothing but the strike
\* counters, unless it trips.
LEMMA CheckHealthSound ==
  ASSUME NEW s, Sound(s), NEW h, HealthSample(h)
  PROVE  /\ Sound(CheckHealth(s, h))
         /\ Faulted(s) => CheckHealth(s, h) = s
         /\ CheckHealth(s, h).state \in {s.state, "fault"}
<1> DEFINE s1 == [s EXCEPT !.tilt = Strikes(h.attitude = "fallen", s.tilt)]
           s2 == [s1 EXCEPT !.freefall = Strikes(h.freefall, s.freefall)]
           s3 == [s2 EXCEPT !.readFail = Strikes(~h.readOk, s.readFail)]
<1>1. CASE Faulted(s)  BY <1>1 DEF CheckHealth
<1>2. CASE ~Faulted(s)
  <2>1. /\ s \in Supervisors
        /\ s.tilt < FallPersist /\ s.freefall < FreefallPersist
        /\ s.readFail < MaxReadFailures
        /\ \A j \in Joints : s.stall[j] < StallPersist
    BY <1>2 DEF Sound, Bites
  <2>2. /\ Strikes(h.attitude = "fallen", s.tilt) \in 0 .. FallPersist
        /\ Strikes(h.freefall, s.freefall) \in 0 .. FreefallPersist
        /\ Strikes(~h.readOk, s.readFail) \in 0 .. MaxReadFailures
    BY <2>1, StrikesBounded, ThresholdAssumption DEF Supervisors, HealthSample
  <2> HIDE DEF s1, s2, s3
  <2>3. /\ s1 \in Supervisors /\ ~Faulted(s1) /\ s1.state = s.state
        /\ s1.tilt = Strikes(h.attitude = "fallen", s.tilt)
        /\ s1.fault = s.fault /\ s1.lastTarget = s.lastTarget
        /\ s1.rampStart = s.rampStart /\ s1.elapsed = s.elapsed
        /\ s1.freefall = s.freefall /\ s1.readFail = s.readFail /\ s1.stall = s.stall
    BY <1>2, <2>1, <2>2 DEF s1, Supervisors, Faulted
  <2>4. /\ s2 \in Supervisors /\ ~Faulted(s2) /\ s2.state = s.state
        /\ s2.freefall = Strikes(h.freefall, s.freefall)
        /\ s2.fault = s.fault /\ s2.lastTarget = s.lastTarget
        /\ s2.rampStart = s.rampStart /\ s2.elapsed = s.elapsed
        /\ s2.tilt = s1.tilt /\ s2.readFail = s.readFail /\ s2.stall = s.stall
    BY <2>2, <2>3 DEF s2, Supervisors, Faulted
  <2>5. /\ s3 \in Supervisors /\ ~Faulted(s3) /\ s3.state = s.state
        /\ s3.readFail = Strikes(~h.readOk, s.readFail)
        /\ s3.fault = s.fault /\ s3.lastTarget = s.lastTarget
        /\ s3.rampStart = s.rampStart /\ s3.elapsed = s.elapsed
        /\ s3.tilt = s1.tilt /\ s3.freefall = s2.freefall /\ s3.stall = s.stall
    BY <2>2, <2>4 DEF s3, Supervisors, Faulted
  <2>6. \A t \in {s1, s2, s3} : \A c \in FaultCodes :
          Sound(Trip(t, c)) /\ Trip(t, c).state = "fault"
    BY <2>3, <2>4, <2>5, TripCountersSound
  <2>7. ASSUME ~(s1.tilt >= FallPersist), ~(s2.freefall >= FreefallPersist),
               ~(s3.readFail >= MaxReadFailures)
        PROVE  Sound(s3)
    <3>1. Bites(s3)
      BY <2>1, <2>3, <2>4, <2>5, <2>7, ThresholdAssumption DEF Bites, Supervisors
    <3>2. QED  BY <1>2, <2>5, <3>1, CountersSound
  <2>8. HealthFaults \subseteq FaultCodes  BY DEF FaultCodes
  <2>9. CheckHealth(s, h) =
          IF s1.tilt >= FallPersist THEN Trip(s1, "FALL")
          ELSE IF s2.freefall >= FreefallPersist THEN Trip(s2, "FREEFALL")
          ELSE IF s3.readFail >= MaxReadFailures THEN Trip(s3, "BUS_LOST")
          ELSE IF s.state = "running" /\ h.age > CommandTimeout
                 THEN Trip(s3, "COMMAND_STALE")
          ELSE IF h.hot THEN Trip(s3, "OVERTEMP")
          ELSE IF h.low THEN Trip(s3, "UNDERVOLT")
          ELSE s3
    BY <1>2, Zenon DEF CheckHealth, s1, s2, s3
  <2>10. QED  BY <1>2, <2>5, <2>6, <2>7, <2>8, <2>9 DEF HealthFaults
<1>3. QED  BY <1>1, <1>2

\* check_tracking() likewise, with the stall timers.
LEMMA CheckTrackingSound ==
  ASSUME NEW s, Sound(s), NEW q \in Angles
  PROVE  /\ Sound(CheckTracking(s, q))
         /\ CheckTracking(s, q).state \in {s.state, "fault"}
         /\ Faulted(s) => CheckTracking(s, q).state = "fault"
                          /\ CheckTracking(s, q).fault = s.fault
<1> DEFINE stall == [j \in Joints |->
              Strikes(Apart(q[j], s.lastTarget[j]) > StallError, s.stall[j])]
           s1 == [s EXCEPT !.stall = stall]
           s0 == [s EXCEPT !.stall = NoStall]
<1>0. s \in Supervisors  BY DEF Sound
<1>1. CASE s.state # "running"
  <2>1. NoStall \in [Joints -> 0 .. StallPersist]
    BY ThresholdAssumption DEF NoStall
  <2>2. CheckTracking(s, q) = s0  BY <1>1 DEF CheckTracking
  <2>3. s0 \in Supervisors  BY <1>0, <2>1 DEF Supervisors
  <2>4. /\ s0.state = s.state /\ s0.fault = s.fault /\ s0.lastTarget = s.lastTarget
        /\ s0.rampStart = s.rampStart /\ s0.elapsed = s.elapsed /\ s0.tilt = s.tilt
        /\ s0.freefall = s.freefall /\ s0.readFail = s.readFail /\ s0.stall = NoStall
    BY <1>0 DEF Supervisors
  <2>5. Bites(s0)
    BY <2>4, ThresholdAssumption DEF Sound, Bites, Faulted, NoStall
  <2>6. Sound(s0)
    BY <2>3, <2>4, <2>5 DEF Sound, Bookkept, Ramped, Gradual
  <2>7. QED  BY <2>2, <2>4, <2>6 DEF Faulted
<1>2. CASE s.state = "running"
  <2>1. s.lastTarget \in Angles  BY <1>2 DEF Sound, Bookkept
  <2>2. s.lastTarget # NoTarget  BY <2>1, NoTargetAssumption
  <2>3. CheckTracking(s, q) =
          IF \E j \in Joints : stall[j] >= StallPersist THEN Trip(s1, "STALL") ELSE s1
    BY <1>2, <2>2 DEF CheckTracking
  <2>4. ~Faulted(s)  BY <1>2 DEF Faulted
  <2>5. stall \in [Joints -> 0 .. StallPersist]
    <3>1. ASSUME NEW j \in Joints
          PROVE  Strikes(Apart(q[j], s.lastTarget[j]) > StallError, s.stall[j])
                   \in 0 .. StallPersist
      <4>1. s.stall[j] \in 0 .. StallPersist  BY <1>0 DEF Supervisors
      <4>2. s.stall[j] < StallPersist  BY <2>4 DEF Sound, Bites
      <4>3. (Apart(q[j], s.lastTarget[j]) > StallError) \in BOOLEAN
        BY <2>1, ThresholdAssumption DEF Angles, Apart
      <4>4. QED  BY <4>1, <4>2, <4>3, StrikesBounded, ThresholdAssumption
    <3>2. QED  BY <3>1
  <2> HIDE DEF stall
  <2>6. s1 \in Supervisors  BY <1>0, <2>5 DEF Supervisors
  <2>7. /\ s1.state = s.state /\ s1.fault = s.fault /\ s1.lastTarget = s.lastTarget
        /\ s1.rampStart = s.rampStart /\ s1.elapsed = s.elapsed /\ s1.tilt = s.tilt
        /\ s1.freefall = s.freefall /\ s1.readFail = s.readFail /\ s1.stall = stall
    BY <1>0 DEF Supervisors
  <2> HIDE DEF s1
  <2>8. ~Faulted(s1)  BY <2>4, <2>7 DEF Faulted
  <2>9. Sound(Trip(s1, "STALL")) /\ Trip(s1, "STALL").state = "fault"
    BY <2>6, <2>8, TripCountersSound DEF FaultCodes
  <2>10. ASSUME \A j \in Joints : ~(stall[j] >= StallPersist)
         PROVE  Sound(s1)
    <3>2. ASSUME NEW j \in Joints  PROVE  s1.stall[j] < StallPersist
      <4>1. stall[j] \in 0 .. StallPersist  BY <2>5
      <4>2. ~(stall[j] >= StallPersist)  BY <2>10
      <4>3. stall[j] < StallPersist  BY <4>1, <4>2, ThresholdAssumption
      <4>4. QED  BY <2>7, <4>3
    <3>3. Bites(s1)  BY <2>4, <2>7, <3>2 DEF Sound, Bites
    <3>4. QED  BY <2>4, <2>6, <2>7, <3>3, CountersSound
  <2>11. QED  BY <2>3, <2>4, <2>7, <2>9, <2>10
<1>3. QED  BY <1>1, <1>2

\* What shape() returns: a vector inside the envelope, one rate-limit step away
\* at most from the previous one, or as far as that one was outside.
LEMMA ShapedCommandBounds ==
  ASSUME NEW s, Sound(s), MayShape(s), NEW q \in Angles
  PROVE  /\ ShapedCommand(s, q) \in Angles
         /\ InEnvelope(ShapedCommand(s, q))
         /\ \A j \in Joints :
              Apart(ShapedCommand(s, q)[j], s.lastTarget[j])
                <= Larger(IF s.state = "ramping" THEN RampStep ELSE RunStep,
                          Excursion(s.lastTarget, j))
         /\ s.state = "ramping" =>
              \A j \in Joints :
                Apart(ShapedCommand(s, q)[j], Clamp(s.rampStart)[j])
                  <= s.elapsed * RampStep + RampStep
<1> DEFINE target == IF s.state = "ramping"
                       THEN Blend(s.rampStart, Clamp(q), Tick(s.elapsed))
                       ELSE Clamp(q)
           step == IF s.state = "ramping" THEN RampStep ELSE RunStep
           r == RateLimit(s.lastTarget, target, step)
<1>1. s.lastTarget \in Angles /\ s.rampStart \in Angles /\ s.elapsed \in 0 .. RampTicks
  BY DEF Sound, Bookkept, MayShape, Supervisors
<1>2. Clamp(q) \in Angles  BY ClampInEnvelope
<1>3. Tick(s.elapsed) \in Nat  BY <1>1, ThresholdAssumption DEF Tick
<1>4. target \in Angles  BY <1>1, <1>2, <1>3, BlendType
<1>5. step \in Nat  BY ThresholdAssumption
<1> HIDE DEF target
<1>6. /\ r \in Angles
      /\ \A j \in Joints : s.lastTarget[j] - step <= r[j] /\ r[j] <= s.lastTarget[j] + step
  BY <1>1, <1>4, <1>5, RateLimitStep
<1>7. ShapedCommand(s, q) = Clamp(r)
  BY DEF ShapedCommand, target
<1> HIDE DEF r
<1>8. Clamp(r) \in Angles /\ InEnvelope(Clamp(r))
  BY <1>6, ClampInEnvelope
<1>9. ASSUME NEW j \in Joints
      PROVE  Apart(Clamp(r)[j], s.lastTarget[j]) <= Larger(step, Excursion(s.lastTarget, j))
  BY <1>1, <1>5, <1>6, ClampedStep
<1>10. ASSUME s.state = "ramping", NEW j \in Joints
       PROVE  Apart(Clamp(r)[j], Clamp(s.rampStart)[j]) <= s.elapsed * RampStep + RampStep
  <2>1. step = RampStep  BY <1>10
  <2>2. s.elapsed * RampStep \in Nat  BY <1>1, ThresholdAssumption
  <2>3. \/ s.lastTarget[j] = s.rampStart[j]
        \/ Apart(s.lastTarget[j], Clamp(s.rampStart)[j]) <= s.elapsed * RampStep
    BY <1>10 DEF Sound, Gradual
  <2>4. RampStep \in Nat  BY ThresholdAssumption
  <2> HIDE DEF step
  <2>5. s.lastTarget[j] - RampStep <= r[j] /\ r[j] <= s.lastTarget[j] + RampStep
    BY <1>6, <2>1
  <2>6. QED  BY <1>1, <1>6, <2>2, <2>3, <2>4, <2>5, RampStepFurther
<1>11. QED  BY <1>7, <1>8, <1>9, <1>10

\* shape() keeps the supervisor sound.
LEMMA ShapeSound ==
  ASSUME NEW s, Sound(s), MayShape(s), NEW q \in Angles
  PROVE  /\ Sound(Shape(s, q))
         /\ ~Faulted(Shape(s, q))
         /\ Shape(s, q).lastTarget = ShapedCommand(s, q)
<1> DEFINE c == ShapedCommand(s, q)
           n == IF s.state = "ramping" THEN Tick(s.elapsed) ELSE s.elapsed
           st == IF n = RampTicks THEN "running" ELSE s.state
           t == Shape(s, q)
<1>0. s \in Supervisors /\ s.state \in {"ramping", "running"}
  BY DEF Sound, MayShape
<1>1. /\ c \in Angles /\ InEnvelope(c)
      /\ s.state = "ramping" =>
           \A j \in Joints : Apart(c[j], Clamp(s.rampStart)[j]) <= s.elapsed * RampStep + RampStep
  BY ShapedCommandBounds
<1>2. s.elapsed \in 0 .. RampTicks /\ RampTicks \in Nat \ {0}
  BY <1>0, ThresholdAssumption DEF Supervisors
<1>3. n \in 0 .. RampTicks  BY <1>2 DEF Tick
<1> HIDE DEF c
<1>4. t = [s EXCEPT !.elapsed = n, !.state = st, !.lastTarget = c]
  BY DEF Shape, c
<1>5. st \in {"ramping", "running"}  BY <1>0
<1> HIDE DEF n, st, t
<1>6. /\ t \in Supervisors
      /\ t.elapsed = n /\ t.state = st /\ t.lastTarget = c
  BY <1>0, <1>1, <1>3, <1>4, <1>5 DEF Supervisors, States
<1>7. /\ t.fault = s.fault /\ t.rampStart = s.rampStart /\ t.tilt = s.tilt
      /\ t.freefall = s.freefall /\ t.readFail = s.readFail /\ t.stall = s.stall
  BY <1>0, <1>4 DEF Supervisors
<1>8. Bookkept(t)
  <2>1. s.fault = "none" /\ s.rampStart \in Angles
    BY <1>0 DEF Sound, Bookkept
  <2>2. st = "ramping" => n < RampTicks  BY <1>3, <1>2 DEF st
  <2>3. QED  BY <1>1, <1>5, <1>6, <1>7, <2>1, <2>2 DEF Bookkept
<1>9. Ramped(t)
  <2>1. st = "running" => n = RampTicks
    BY <1>0 DEF st, n, Sound, Ramped
  <2>2. c # NoTarget  BY <1>1, NoTargetAssumption
  <2>3. QED  BY <1>1, <1>6, <2>1, <2>2 DEF Ramped
<1>10. Gradual(t)
  <2>1. SUFFICES ASSUME st = "ramping", NEW j \in Joints
                 PROVE  n # 0 /\ Apart(c[j], Clamp(s.rampStart)[j]) <= n * RampStep
    BY <1>6, <1>7 DEF Gradual
  <2>2. s.state = "ramping" /\ n # RampTicks
    BY <2>1, <1>0 DEF st
  <2>3. n = s.elapsed + 1  BY <2>2, <1>2 DEF n, Tick
  <2>4. (s.elapsed + 1) * RampStep = s.elapsed * RampStep + RampStep
    BY <1>2, ThresholdAssumption
  <2>5. QED  BY <1>1, <1>2, <2>2, <2>3, <2>4
<1>11. Bites(t)
  BY <1>0, <1>7, <1>5, <1>6 DEF Sound, Bites, Faulted
<1>12. QED
  BY <1>5, <1>6, <1>8, <1>9, <1>10, <1>11 DEF Sound, Faulted, c, t

(***************************************************************************)
(* The object under its most general client.                               *)
(***************************************************************************)

CommandInv == answer # NoTarget => answer \in Angles /\ InEnvelope(answer)

IInv == Sound(supervisor) /\ CommandInv

LEMMA InitIInv == SupInit => IInv
  BY InitSound DEF SupInit, IInv, CommandInv

\* Any health sample the client may pass is one the lemmas speak about.
LEMMA SamplesTyped == \A h \in HealthSamples : HealthSample(h)
  BY ThresholdAssumption DEF HealthSamples, HealthSample

LEMMA NextIInv == IInv /\ [SupNext]_supVars => IInv'
<1> SUFFICES ASSUME IInv, [SupNext]_supVars PROVE IInv'
  OBVIOUS
<1>0. Sound(supervisor)  BY DEF IInv
<1>1. ASSUME NEW q \in Arguments, NEW a \in Attitudes, NEW ok \in BOOLEAN, ArmCall(q, a, ok)
      PROVE  IInv'
  BY <1>0, <1>1, ArmSound, ArgumentsAssumption DEF ArmCall, IInv, CommandInv
<1>2. CASE DisarmCall
  BY <1>0, <1>2, DisarmSound DEF DisarmCall, IInv, CommandInv
<1>3. ASSUME NEW c \in {"ESTOP", "WRITE_REJECTED"}, TripCall(c)
      PROVE  IInv'
  <2>1. c \in FaultCodes  BY DEF FaultCodes
  <2>2. QED  BY <1>0, <1>3, <2>1, TripSound DEF TripCall, IInv, CommandInv
<1>4. ASSUME NEW h \in HealthSamples, CheckHealthCall(h)
      PROVE  IInv'
  BY <1>0, <1>4, SamplesTyped, CheckHealthSound DEF CheckHealthCall, IInv, CommandInv
<1>5. ASSUME NEW q \in Arguments, CheckTrackingCall(q)
      PROVE  IInv'
  BY <1>0, <1>5, ArgumentsAssumption, CheckTrackingSound
  DEF CheckTrackingCall, IInv, CommandInv
<1>6. ASSUME NEW q \in Arguments, ShapeCall(q)
      PROVE  IInv'
  <2>1. q \in Angles  BY ArgumentsAssumption
  <2>2. Sound(supervisor')  BY <1>0, <1>6, <2>1, ShapeSound DEF ShapeCall
  <2>3. answer' \in Angles /\ InEnvelope(answer')
    BY <1>0, <1>6, <2>1, ShapedCommandBounds DEF ShapeCall
  <2>4. QED  BY <2>2, <2>3 DEF IInv, CommandInv
<1>7. CASE UNCHANGED supVars
  BY <1>7 DEF supVars, IInv, CommandInv
<1>8. QED
  BY <1>1, <1>2, <1>3, <1>4, <1>5, <1>6, <1>7 DEF SupNext

LEMMA SupInvariance == SupSpec => []IInv
  BY InitIInv, NextIInv, PTL DEF SupSpec

(***************************************************************************)
(* Theorems about the supervisor object.                                   *)
(***************************************************************************)

\* The supervisor's attributes keep their types: no strike counter and no ramp
\* clock runs past its limit.
THEOREM TypeCorrect == SupSpec => []SupTypeOK
<1>1. IInv => SupTypeOK  BY DEF IInv, CommandInv, Sound, SupTypeOK
<1>2. QED  BY <1>1, SupInvariance, PTL

\* Every command shape() returns lies inside the safe envelope.
THEOREM EnvelopeRespected == SupSpec => []CommandInEnvelope
<1>1. IInv => CommandInEnvelope  BY DEF IInv, CommandInv, CommandInEnvelope
<1>2. QED  BY <1>1, SupInvariance, PTL

\* RUNNING is reached through a whole ramp, and starts inside the envelope.
THEOREM RunningAfterRamp == SupSpec => []RunningIsRamped
<1>1. IInv => RunningIsRamped  BY DEF IInv, Sound, RunningIsRamped
<1>2. QED  BY <1>1, SupInvariance, PTL

\* The ramp displaces no joint by more than a step per cycle.
THEOREM RampGradual == SupSpec => []RampIsGradual
<1>1. IInv => RampIsGradual  BY DEF IInv, Sound, RampIsGradual
<1>2. QED  BY <1>1, SupInvariance, PTL

\* Outside FAULT no monitor has reached its limit.
THEOREM MonitorsTrip == SupSpec => []MonitorsBite
<1>1. IInv => MonitorsBite  BY DEF IInv, Sound, MonitorsBite
<1>2. QED  BY <1>1, SupInvariance, PTL

\* FAULT is terminal, and keeps its first cause.
THEOREM FaultTerminal == SupSpec => FaultIsTerminal
<1>1. IInv /\ [SupNext]_supVars
        => [Faulted(supervisor) => /\ supervisor'.state = "fault"
                                   /\ supervisor'.fault = supervisor.fault]_supVars
  <2> SUFFICES ASSUME IInv, [SupNext]_supVars, Faulted(supervisor)
               PROVE  supervisor'.state = "fault" /\ supervisor'.fault = supervisor.fault
    BY DEF supVars
  <2>0. supervisor \in Supervisors /\ supervisor.state = "fault" /\ Sound(supervisor)
    BY DEF IInv, Sound, Faulted
  <2>1. ASSUME NEW q \in Arguments, NEW a \in Attitudes, NEW ok \in BOOLEAN, ArmCall(q, a, ok)
        PROVE  FALSE
    BY <2>1 DEF ArmCall
  <2>2. CASE DisarmCall
    BY <2>0, <2>2 DEF DisarmCall, Disarm, Faulted, Supervisors
  <2>3. ASSUME NEW c \in {"ESTOP", "WRITE_REJECTED"}, TripCall(c)
        PROVE  supervisor' = supervisor
    BY <2>3 DEF TripCall, Trip
  <2>4. ASSUME NEW h \in HealthSamples, CheckHealthCall(h)
        PROVE  supervisor' = supervisor
    BY <2>4 DEF CheckHealthCall, CheckHealth
  <2>5. ASSUME NEW q \in Arguments, CheckTrackingCall(q)
        PROVE  supervisor'.state = "fault" /\ supervisor'.fault = supervisor.fault
    BY <2>0, <2>5, CheckTrackingSound, ArgumentsAssumption DEF CheckTrackingCall, Faulted
  <2>6. ASSUME NEW q \in Arguments, ShapeCall(q)
        PROVE  FALSE
    BY <2>0, <2>6 DEF ShapeCall, MayShape
  <2>7. CASE UNCHANGED supVars  BY <2>0, <2>7 DEF supVars
  <2>8. QED
    BY <2>0, <2>1, <2>2, <2>3, <2>4, <2>5, <2>6, <2>7 DEF SupNext
<1>2. QED  BY <1>1, SupInvariance, PTL DEF SupSpec, FaultIsTerminal

\* Each shaped command is a rate-limit step from the one before it, or the one
\* jump from a start pose outside the envelope to its bound.
THEOREM SlewIsBounded == SupSpec => SlewBounded
<1> DEFINE Slew == answer' # NoTarget =>
              \A j \in Joints :
                Apart(answer'[j], supervisor.lastTarget[j])
                  <= Larger(IF supervisor.state = "ramping" THEN RampStep ELSE RunStep,
                          Excursion(supervisor.lastTarget, j))
<1>1. IInv /\ [SupNext]_supVars => [Slew]_supVars
  <2> SUFFICES ASSUME IInv, SupNext PROVE Slew
    OBVIOUS
  <2>1. ASSUME NEW q \in Arguments, ShapeCall(q)
        PROVE  Slew
    <3>1. q \in Angles /\ Sound(supervisor)  BY ArgumentsAssumption DEF IInv
    <3>2. QED  BY <2>1, <3>1, ShapedCommandBounds DEF ShapeCall
  <2>2. ASSUME ~\E q \in Arguments : ShapeCall(q)
        PROVE  answer' = NoTarget
    BY <2>2 DEF SupNext, ArmCall, DisarmCall, TripCall, CheckHealthCall, CheckTrackingCall
  <2>3. QED  BY <2>1, <2>2
<1>2. QED  BY <1>1, SupInvariance, PTL DEF SupSpec, SlewBounded
=============================================================================
