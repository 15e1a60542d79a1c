---------------------------- MODULE ServoNodeProofs ----------------------------
(***************************************************************************)
(* ServoNode, for every set of joints, every envelope and threshold, every *)
(* set of poses and IMU samples, and every mixture of lost, rejected and   *)
(* raising bus writes.  The inductive invariant joins the supervisor's     *)
(* (Sound), the agreement of the last torque order with its state          *)
(* (OrderFollowsState), and the silence of a process that is down or was   *)
(* started as a dry run.                                                   *)
(***************************************************************************)
EXTENDS ServoNode, SafetySupervisorProofs

Silent == (dryRun \/ ~up) => order = "none"

NodeInv == TypeOK /\ Sound(sup) /\ OrderFollowsState /\ Silent

\* How one step may change the supervisor's state and the process.
Lawful ==
  /\ up /\ up' => /\ Faulted(sup) => Faulted(sup')
                  /\ sup.state = "disarmed" => sup'.state # "running"
  /\ ~up /\ up' => sup'.state = "disarmed"
  /\ (up \/ ~up') => dryRun' = dryRun

Kept == NodeInv' /\ Lawful

(***************************************************************************)
(* Lemmas about the pieces that the callbacks share.                       *)
(***************************************************************************)

\* The age of the command, however long the bus keeps a cycle.
LEMMA AgedTyped ==
  ASSUME NodeInv, NEW ticks \in Nat
  PROVE  Aged(ticks) \in 0 .. AgeMax
BY ThresholdAssumption, NodeAssumption DEF Aged, AgeMax, NodeInv, TypeOK

LEMMA AgeNowTyped ==
  ASSUME NodeInv
  PROVE  AgeNow \in 0 .. AgeMax /\ AgeNow \in Nat
<1>1. AgeNow \in 0 .. AgeMax  BY AgedTyped DEF AgeNow
<1>2. QED  BY <1>1

\* The supervisor after the monitors of a control cycle.
LEMMA MonitoredSound ==
  ASSUME NodeInv, up, imu # NoSample, NEW r \in Readings, NEW health \in HealthResults
  PROVE  /\ Sound(Monitored(r, health))
         /\ Monitored(r, health).state \in {sup.state, "fault"}
         /\ Faulted(sup) => Monitored(r, health) = sup
<1> DEFINE h == [ attitude |-> imu.attitude, freefall |-> imu.freefall,
                  readOk |-> r # NoTarget, age |-> MonitoredAge,
                  hot |-> health = "hot", low |-> health = "low" ]
           s == CheckHealth(sup, h)
<1>1. MonitoredAge \in Nat
  BY ThresholdAssumption, AgeNowTyped DEF MonitoredAge
<1>2. imu.attitude \in Attitudes /\ imu.freefall \in BOOLEAN
  BY NodeAssumption DEF NodeInv, TypeOK
<1>3. HealthSample(h)  BY <1>1, <1>2 DEF HealthSample
<1>4. Sound(sup)  BY DEF NodeInv
<1>5. /\ Sound(s) /\ s.state \in {sup.state, "fault"}
      /\ Faulted(sup) => s = sup
  BY <1>3, <1>4, CheckHealthSound
<1>6. Monitored(r, health)
        = IF Faulted(s) \/ r = NoTarget THEN s ELSE CheckTracking(s, r)
  BY DEF Monitored
<1> HIDE DEF s
<1>7. CASE Faulted(s) \/ r = NoTarget
  BY <1>5, <1>6, <1>7
<1>8. CASE ~Faulted(s) /\ r # NoTarget
  <2>1. r \in Angles  BY <1>8, NodeAssumption DEF Readings
  <2>2. /\ Sound(CheckTracking(s, r))
        /\ CheckTracking(s, r).state \in {s.state, "fault"}
    BY <1>5, <2>1, CheckTrackingSound
  <2>3. QED  BY <1>5, <1>6, <1>8, <2>2
<1>9. QED  BY <1>7, <1>8

\* The monitors leave the target alone that the next command starts from.
LEMMA MonitoredTarget ==
  ASSUME NodeInv, up, imu # NoSample, NEW r \in Readings, NEW health \in HealthResults
  PROVE  Monitored(r, health).lastTarget = sup.lastTarget
<1> DEFINE h == [ attitude |-> imu.attitude, freefall |-> imu.freefall,
                  readOk |-> r # NoTarget, age |-> MonitoredAge,
                  hot |-> health = "hot", low |-> health = "low" ]
           s == CheckHealth(sup, h)
<1>1. sup \in Supervisors
  BY DEF NodeInv, TypeOK
<1>2. s.lastTarget = sup.lastTarget /\ s \in Supervisors
  <2> DEFINE s1 == [sup EXCEPT !.tilt = Strikes(h.attitude = "fallen", sup.tilt)]
             s2 == [s1 EXCEPT !.freefall = Strikes(h.freefall, sup.freefall)]
             s3 == [s2 EXCEPT !.readFail = Strikes(~h.readOk, sup.readFail)]
  <2>1. s \in Supervisors
    <3>1. MonitoredAge \in Nat
      BY ThresholdAssumption, AgeNowTyped DEF MonitoredAge
    <3>2. imu.attitude \in Attitudes /\ imu.freefall \in BOOLEAN
      BY NodeAssumption DEF NodeInv, TypeOK
    <3>3. HealthSample(h)  BY <3>1, <3>2 DEF HealthSample
    <3>4. Sound(s)  BY <3>3, CheckHealthSound DEF NodeInv
    <3>5. QED  BY <3>4 DEF Sound
  <2>2. /\ s1.lastTarget = sup.lastTarget /\ s2.lastTarget = sup.lastTarget
        /\ s3.lastTarget = sup.lastTarget
        /\ \A c : /\ Trip(s1, c).lastTarget = sup.lastTarget
                  /\ Trip(s2, c).lastTarget = sup.lastTarget
                  /\ Trip(s3, c).lastTarget = sup.lastTarget
    BY <1>1 DEF Trip, Supervisors
  <2> HIDE DEF h
  <2>3. \/ s = sup \/ s = s3
        \/ \E c : s = Trip(s1, c) \/ s = Trip(s2, c) \/ s = Trip(s3, c)
    BY DEF CheckHealth
  <2> HIDE DEF s, s1, s2, s3
  <2>4. QED  BY <2>1, <2>2, <2>3
<1>3. Monitored(r, health)
        = IF Faulted(s) \/ r = NoTarget THEN s ELSE CheckTracking(s, r)
  BY DEF Monitored
<1> HIDE DEF s
<1>4. CheckTracking(s, r).lastTarget = s.lastTarget
  BY <1>2 DEF CheckTracking, Trip, Supervisors
<1>5. QED  BY <1>2, <1>3, <1>4

\* The end of the process, from whatever callback.
LEMMA ExitKept ==
  ASSUME NodeInv, up, NEW w, Exit(w), goal' \in Angles
  PROVE  Kept
<1>1. Sound(sup')  BY InitSound DEF Exit, ForgetAll
<1>2. torque' \in BOOLEAN  BY DEF Exit, TorqueAfter, NodeInv, TypeOK
<1>3. TypeOK'
  <2>1. sup' \in Supervisors  BY <1>1 DEF Sound
  <2>2. 0 \in 0 .. AgeMax /\ 0 \in 0 .. MaxReadFailures
    BY ThresholdAssumption, NodeAssumption DEF AgeMax
  <2>3. QED
    BY <1>2, <2>1, <2>2, Zenon DEF Exit, ForgetAll, TypeOK, NodeInv
<1>4. OrderFollowsState' /\ Silent' /\ Lawful
  BY DEF Exit, ForgetAll, OrderFollowsState, Silent, Lawful
<1>5. QED  BY <1>1, <1>3, <1>4 DEF Kept, NodeInv

\* Entering FAULT, for every way of reaching it.
LEMMA EnterFaultOrders ==
  ASSUME NodeInv, up, NEW s, Sound(s), Faulted(s), EnterFault(s), dryRun' = dryRun
  PROVE  /\ up' /\ sup' = s /\ announced' = TRUE
         /\ torque' \in BOOLEAN /\ order' \in {"none", "on", "off"}
         /\ OrderFollowsState' /\ Silent' /\ Lawful
<1>1. /\ Faulted(sup) <=> announced
      /\ announced /\ ~dryRun => order = "off"
      /\ dryRun => order = "none"
      /\ ~dryRun => (order = "on" <=> Armed)
  BY DEF NodeInv, OrderFollowsState, Silent
<1>2. announced \in BOOLEAN /\ torque \in BOOLEAN /\ order \in {"none", "on", "off"}
      /\ up \in BOOLEAN
  BY DEF NodeInv, TypeOK
<1>3. /\ up' = up /\ sup' = s /\ announced' = TRUE
      /\ torque' \in BOOLEAN
      /\ order' = IF dryRun THEN "none" ELSE "off"
  BY <1>1, <1>2 DEF EnterFault, TorqueAfter
<1>4. sup'.state = "fault" /\ up'  BY <1>3 DEF Faulted
<1>5. OrderFollowsState' /\ Silent'
  BY <1>3, <1>4 DEF OrderFollowsState, Silent, Armed, Faulted
<1>6. Lawful  BY <1>4 DEF Lawful, Faulted
<1>7. QED  BY <1>3, <1>4, <1>5, <1>6

\* What a cycle reads is typed.
LEMMA CycleReadsTyped ==
  ASSUME NodeInv, NEW r \in Readings, NEW took \in Took, CycleReads(r, took)
  PROVE  /\ positions' \in Poses \cup {NoTarget}
         /\ age' \in 0 .. AgeMax
<1>1. 1 + took \in Nat  BY NodeAssumption DEF Took
<1>2. QED  BY <1>1, AgedTyped DEF CycleReads, Readings, NodeInv, TypeOK

(***************************************************************************)
(* Every action keeps the invariant and is lawful.                         *)
(***************************************************************************)

LEMMA BootKept ==
  ASSUME NodeInv, NEW dry \in BOOLEAN, Boot(dry)
  PROVE  Kept
<1>1. Sound(sup') /\ sup'.state = "disarmed"
  BY InitSound DEF Boot, ForgetAll, InitSupervisor
<1>2. TypeOK'
  <2>1. sup' \in Supervisors  BY <1>1 DEF Sound
  <2>2. 0 \in 0 .. AgeMax /\ 0 \in 0 .. MaxReadFailures
    BY ThresholdAssumption, NodeAssumption DEF AgeMax
  <2>3. boots' \in 0 .. MaxBoots
    BY NodeAssumption DEF Boot, NodeInv, TypeOK
  <2>4. QED
    BY <2>1, <2>2, <2>3, Zenon DEF Boot, ForgetAll, TypeOK, NodeInv, servos
<1>3. OrderFollowsState' /\ Silent' /\ Lawful
  BY <1>1 DEF Boot, ForgetAll, OrderFollowsState, Silent, Lawful, Armed, Faulted
<1>4. QED  BY <1>1, <1>2, <1>3 DEF Kept, NodeInv

\* The subscriptions and the policy process leave the supervisor alone.
LEMMA InputsKept ==
  ASSUME NodeInv,
         \/ \E q \in Poses : OnCommand(q)
         \/ OnObservation
         \/ \E i \in ImuSamples : OnImu(i)
         \/ PolicyStartsOrStops
  PROVE  Kept
<1>1. UNCHANGED <<up, boots, dryRun, sup, positions, announced, order, servos>>
  BY DEF OnCommand, OnObservation, OnImu, PolicyStartsOrStops, memory
<1>2. /\ command' \in Poses \cup {NoTarget} /\ age' \in 0 .. AgeMax
      /\ observed' \in BOOLEAN /\ imu' \in ImuSamples \cup {NoSample}
      /\ policy' \in BOOLEAN
  <2>1. ASSUME NEW q \in Poses, OnCommand(q) 
        PROVE  /\ command' \in Poses \cup {NoTarget}
               /\ age' \in 0 .. AgeMax
               /\ observed' \in BOOLEAN /\ imu' \in ImuSamples \cup {NoSample}
               /\ policy' \in BOOLEAN
    <3>1. 0 \in 0 .. AgeMax  BY ThresholdAssumption, NodeAssumption DEF AgeMax
    <3>2. QED  BY <2>1, <3>1, Zenon DEF OnCommand, NodeInv, TypeOK
  <2>2. CASE OnObservation
    BY <2>2, Zenon DEF OnObservation, NodeInv, TypeOK
  <2>3. ASSUME NEW i \in ImuSamples, OnImu(i) 
        PROVE  /\ command' \in Poses \cup {NoTarget}
               /\ age' \in 0 .. AgeMax
               /\ observed' \in BOOLEAN /\ imu' \in ImuSamples \cup {NoSample}
               /\ policy' \in BOOLEAN
    BY <2>3, Zenon DEF OnImu, NodeInv, TypeOK
  <2>4. CASE PolicyStartsOrStops
    BY <2>4, Zenon DEF PolicyStartsOrStops, memory, NodeInv, TypeOK
  <2>5. QED  BY <2>1, <2>2, <2>3, <2>4
<1>3. TypeOK'  BY <1>1, <1>2, Zenon DEF NodeInv, TypeOK, servos
<1>4. Sound(sup') /\ OrderFollowsState' /\ Silent' /\ Lawful
  BY <1>1 DEF NodeInv, OrderFollowsState, Silent, Lawful, Armed, Faulted
<1>5. QED  BY <1>3, <1>4 DEF Kept, NodeInv

LEMMA CycleWithoutImuKept ==
  ASSUME NodeInv, NEW r \in Readings, CycleWithoutImu(r)
  PROVE  Kept
<1>1. CycleReads(r, 0) /\ UNCHANGED <<up, boots, dryRun, sup, command, observed, imu,
                                  announced, order, policy, servos>>
  BY DEF CycleWithoutImu
<1>2. TypeOK'
  <2>1. 0 \in Took  BY NodeAssumption DEF Took
  <2>2. QED  BY <1>1, <2>1, CycleReadsTyped, Zenon DEF NodeInv, TypeOK, servos
<1>3. Sound(sup') /\ OrderFollowsState' /\ Silent' /\ Lawful
  BY <1>1 DEF NodeInv, OrderFollowsState, Silent, Lawful, Armed, Faulted
<1>4. QED  BY <1>2, <1>3 DEF Kept, NodeInv

\* A cycle that reads, faults, and stays alive.
LEMMA CycleIntoFaultKept ==
  ASSUME NodeInv, up, NEW r \in Readings, NEW took \in Took, CycleReads(r, took),
         NEW s, Sound(s), Faulted(s), EnterFault(s),
         UNCHANGED <<boots, dryRun, command, observed, imu, policy, goal>>
  PROVE  Kept
<1>1. /\ up' /\ sup' = s /\ announced' = TRUE
      /\ torque' \in BOOLEAN /\ order' \in {"none", "on", "off"}
      /\ OrderFollowsState' /\ Silent' /\ Lawful
  BY EnterFaultOrders
<1>2. sup' \in Supervisors /\ up' = TRUE
  BY <1>1 DEF Sound, EnterFault, NodeInv, TypeOK
<1>3. TypeOK'
  BY <1>1, <1>2, CycleReadsTyped, Zenon DEF NodeInv, TypeOK
<1>4. QED  BY <1>1, <1>3 DEF Kept, NodeInv

LEMMA FaultExitsKept ==
  ASSUME NodeInv, up, FaultExits, goal' = goal
  PROVE  Kept
<1>1. PICK w \in FinalWrite : Exit(w)  BY DEF FaultExits
<1>2. goal' \in Angles  BY DEF NodeInv, TypeOK
<1>3. QED  BY <1>1, <1>2, ExitKept

LEMMA CycleFaultsKept ==
  ASSUME NodeInv, NEW r \in Readings, NEW health \in HealthResults,
         NEW took \in Took, CycleFaults(r, health, took)
  PROVE  Kept
<1>1. up /\ imu # NoSample /\ Faulted(Monitored(r, health)) /\ goal' = goal
  BY DEF CycleFaults
<1>2. Sound(Monitored(r, health))  BY <1>1, MonitoredSound
<1>3. CASE /\ CycleReads(r, took)
           /\ EnterFault(Monitored(r, health))
           /\ UNCHANGED <<boots, dryRun, command, observed, imu, policy>>
  BY <1>1, <1>2, <1>3, CycleIntoFaultKept
<1>4. CASE FaultExits
  BY <1>1, <1>4, FaultExitsKept
<1>5. QED  BY <1>3, <1>4 DEF CycleFaults

LEMMA CycleIdlesKept ==
  ASSUME NodeInv, NEW r \in Readings, NEW health \in HealthResults,
         NEW took \in Took, CycleIdles(r, health, took)
  PROVE  Kept
<1> DEFINE s == Monitored(r, health)
<1>1. /\ up /\ imu # NoSample /\ ~Faulted(s) /\ CycleReads(r, took) /\ sup' = s
      /\ UNCHANGED <<up, boots, dryRun, command, observed, imu, announced, order,
                     policy, servos>>
  BY DEF CycleIdles
<1>2. Sound(s) /\ s.state \in {sup.state, "fault"}
  BY <1>1, MonitoredSound
<1> HIDE DEF s
<1>3. sup'.state = sup.state  BY <1>1, <1>2 DEF Faulted
<1>4. sup' \in Supervisors  BY <1>1, <1>2 DEF Sound
<1>5. TypeOK'
  BY <1>1, <1>4, CycleReadsTyped, Zenon DEF NodeInv, TypeOK, servos
<1>6. OrderFollowsState' /\ Silent' /\ Lawful
  BY <1>1, <1>3 DEF NodeInv, OrderFollowsState, Silent, Lawful, Armed, Faulted
<1>7. QED  BY <1>1, <1>2, <1>5, <1>6 DEF Kept, NodeInv

LEMMA CycleDrivesKept ==
  ASSUME NodeInv, NEW r \in Readings, NEW health \in HealthResults,
         NEW took \in Took, NEW w \in WriteOutcomes,
         CycleDrives(r, health, took, w)
  PROVE  Kept
<1> DEFINE s == Monitored(r, health)
           t == Shape(s, command)
<1>1. /\ up /\ imu # NoSample /\ ~Faulted(s) /\ Armed /\ command # NoTarget
  BY DEF CycleDrives
<1>2. Sound(s) /\ s.state = sup.state
  BY <1>1, MonitoredSound DEF Faulted
<1>3. command \in Angles  BY <1>1, NodeAssumption DEF NodeInv, TypeOK
<1>4. MayShape(s)
  <2>1. s.state \in {"ramping", "running"}  BY <1>1, <1>2 DEF Armed
  <2>2. s.lastTarget \in Angles  BY <1>2, <2>1 DEF Sound, Bookkept
  <2>3. QED  BY <2>1, <2>2, NoTargetAssumption DEF MayShape
<1>5. /\ Sound(t) /\ ~Faulted(t)
      /\ ShapedCommand(s, command) \in Angles
  BY <1>2, <1>3, <1>4, ShapeSound, ShapedCommandBounds
<1>6. t.state \in {"ramping", "running"}
  BY <1>1, <1>2, <1>3, <1>4 DEF Shape, Armed, Sound, Supervisors
<1> HIDE DEF t
<1>7. CASE /\ w \in {"ok", "lost"}
           /\ CycleReads(r, took)
           /\ sup' = t
           /\ goal' = IF dryRun \/ w = "lost" THEN goal ELSE ShapedCommand(s, command)
           /\ UNCHANGED <<up, boots, dryRun, command, observed, imu, announced, order,
                          policy, torque>>
  <2>1. sup' \in Supervisors  BY <1>5, <1>7 DEF Sound
  <2>2. goal' \in Angles  BY <1>5, <1>7 DEF NodeInv, TypeOK
  <2>3. TypeOK'
    BY <1>7, <2>1, <2>2, CycleReadsTyped, Zenon DEF NodeInv, TypeOK
  <2>4. OrderFollowsState' /\ Silent' /\ Lawful
    BY <1>1, <1>6, <1>7 DEF NodeInv, OrderFollowsState, Silent, Lawful, Armed, Faulted
  <2>5. QED  BY <1>5, <1>7, <2>3, <2>4 DEF Kept, NodeInv
<1>8. ASSUME CycleReads(r, took), EnterFault(Trip(t, "WRITE_REJECTED")), goal' = goal,
             UNCHANGED <<boots, dryRun, command, observed, imu, policy>>
      PROVE  Kept
  <2>1. Sound(Trip(t, "WRITE_REJECTED"))  BY <1>5, TripSound DEF FaultCodes
  <2>2. Faulted(Trip(t, "WRITE_REJECTED"))
    BY <1>5, <1>6 DEF Trip, Faulted, Sound, Supervisors
  <2>3. QED  BY <1>1, <1>8, <2>1, <2>2, CycleIntoFaultKept
<1>9. ASSUME FaultExits, goal' = goal PROVE Kept
  BY <1>1, <1>9, FaultExitsKept
<1>10. ASSUME NEW w2 \in FinalWrite, Exit(w2), goal' = goal PROVE Kept
  <2>1. goal' \in Angles  BY <1>10 DEF NodeInv, TypeOK
  <2>2. QED  BY <1>1, <1>10, <2>1, ExitKept
<1>11. QED
  BY <1>7, <1>8, <1>9, <1>10 DEF CycleDrives, t

LEMMA ArmServiceKept ==
  ASSUME NodeInv, NEW park \in FinalWrite, NEW enable \in FinalWrite,
         ArmService(park, enable)
  PROVE  Kept
<1>1. /\ up /\ ~Faulted(sup) /\ positions # NoTarget
      /\ sup' = Arm(sup, positions)
      /\ UNCHANGED <<up, boots, dryRun, positions, command, age, observed, imu,
                     announced, policy>>
  BY DEF ArmService, MayArm
<1>2. positions \in Angles  BY <1>1, NodeAssumption DEF NodeInv, TypeOK
<1>3. Sound(sup') /\ sup'.state = "ramping"
  BY <1>1, <1>2, ArmSound DEF NodeInv, Arm
<1>4. TypeOK'
  <2>1. sup' \in Supervisors  BY <1>3 DEF Sound
  <2>2. goal' \in Angles  BY <1>2 DEF ArmService, NodeInv, TypeOK
  <2>3. torque' \in BOOLEAN  BY DEF ArmService, TorqueAfter, NodeInv, TypeOK
  <2>4. order' \in {"none", "on", "off"}  BY DEF ArmService, NodeInv, TypeOK
  <2>5. QED  BY <1>1, <2>1, <2>2, <2>3, <2>4, Zenon DEF NodeInv, TypeOK
<1>5. order' = IF dryRun THEN order ELSE "on"  BY DEF ArmService
<1>6. OrderFollowsState' /\ Silent' /\ Lawful
  BY <1>1, <1>3, <1>5
  DEF NodeInv, OrderFollowsState, Silent, Lawful, Armed, Faulted
<1>7. QED  BY <1>3, <1>4, <1>6 DEF Kept, NodeInv

LEMMA ArmServiceRaisesKept ==
  ASSUME NodeInv, ArmServiceRaises
  PROVE  Kept
<1>1. PICK w \in FinalWrite : Exit(w)  BY DEF ArmServiceRaises
<1>2. up /\ positions \in Angles
  BY NodeAssumption DEF ArmServiceRaises, MayArm, NodeInv, TypeOK
<1>3. goal' \in Angles  BY <1>2 DEF ArmServiceRaises, NodeInv, TypeOK
<1>4. QED  BY <1>1, <1>2, <1>3, ExitKept

LEMMA DisarmServiceKept ==
  ASSUME NodeInv, DisarmService
  PROVE  Kept
<1>1. up /\ goal' = goal  BY DEF DisarmService
<1>2. CASE /\ sup' = Disarm(sup)
           /\ \E w \in FinalWrite : torque' = TorqueAfter(FALSE, w)
           /\ order' = IF dryRun THEN order ELSE "off"
           /\ UNCHANGED <<up, boots, dryRun, positions, command, age, observed, imu,
                          announced, policy>>
  <2>1. Sound(sup')  BY <1>2, DisarmSound DEF NodeInv
  <2>2. sup'.state = IF Faulted(sup) THEN "fault" ELSE "disarmed"
    BY <1>2 DEF Disarm, NodeInv, TypeOK, Supervisors
  <2>3. sup' \in Supervisors  BY <2>1 DEF Sound
  <2>4. torque' \in BOOLEAN /\ order' \in {"none", "on", "off"}
    BY <1>2 DEF TorqueAfter, NodeInv, TypeOK
  <2>5. TypeOK'  BY <1>1, <1>2, <2>3, <2>4, Zenon DEF NodeInv, TypeOK
  <2>6. OrderFollowsState' /\ Silent' /\ Lawful
    BY <1>1, <1>2, <2>2
    DEF NodeInv, OrderFollowsState, Silent, Lawful, Armed, Faulted
  <2>7. QED  BY <2>1, <2>5, <2>6 DEF Kept, NodeInv
<1>3. ASSUME NEW w \in FinalWrite, Exit(w) PROVE Kept
  <2>1. goal' \in Angles  BY <1>1 DEF NodeInv, TypeOK
  <2>2. QED  BY <1>1, <1>3, <2>1, ExitKept
<1>4. QED  BY <1>2, <1>3 DEF DisarmService

LEMMA EstopServiceKept ==
  ASSUME NodeInv, EstopService
  PROVE  Kept
<1> DEFINE s == Trip(sup, "ESTOP")
<1>1. up /\ goal' = goal  BY DEF EstopService
<1>2. Sound(s)  BY TripSound DEF NodeInv, FaultCodes
<1>3. Faulted(s)  BY DEF Trip, Faulted, NodeInv, TypeOK, Supervisors
<1> HIDE DEF s
<1>4. ASSUME EnterFault(s),
             UNCHANGED <<boots, dryRun, positions, command, age, observed, imu,
                         policy>>
      PROVE  Kept
  <2>1. /\ up' /\ sup' = s /\ announced' = TRUE
        /\ torque' \in BOOLEAN /\ order' \in {"none", "on", "off"}
        /\ OrderFollowsState' /\ Silent' /\ Lawful
    BY <1>1, <1>2, <1>3, <1>4, EnterFaultOrders
  <2>2. sup' \in Supervisors /\ up' = TRUE
    BY <1>2, <1>4, <2>1 DEF Sound, EnterFault, NodeInv, TypeOK
  <2>3. TypeOK'  BY <1>1, <1>4, <2>1, <2>2, Zenon DEF NodeInv, TypeOK
  <2>4. QED  BY <1>2, <2>1, <2>3 DEF Kept, NodeInv
<1>5. CASE FaultExits
  BY <1>1, <1>5, FaultExitsKept
<1>6. QED  BY <1>4, <1>5 DEF EstopService, s

(***************************************************************************)
(* The inductive invariant.                                                *)
(***************************************************************************)

LEMMA InitNodeInv == Init => NodeInv
<1> SUFFICES ASSUME Init PROVE NodeInv
  OBVIOUS
<1>1. Sound(sup) /\ sup.state = "disarmed"  BY InitSound DEF Init, InitSupervisor
<1>2. sup \in Supervisors  BY <1>1 DEF Sound
<1>3. /\ boots \in 0 .. MaxBoots /\ age \in 0 .. AgeMax
      /\ goal \in Angles
  BY ThresholdAssumption, NodeAssumption DEF Init, AgeMax
<1>4. TypeOK  BY <1>2, <1>3, Zenon DEF Init, TypeOK
<1>5. OrderFollowsState /\ Silent
  BY DEF Init, OrderFollowsState, Silent
<1>6. QED  BY <1>1, <1>4, <1>5 DEF NodeInv

LEMMA StepKept == NodeInv /\ [Next]_vars => NodeInv' /\ (Lawful \/ UNCHANGED vars)
<1> SUFFICES ASSUME NodeInv, [Next]_vars
             PROVE  Kept \/ (NodeInv' /\ UNCHANGED vars)
  BY DEF Kept
<1>1. CASE \E dry \in BOOLEAN : Boot(dry)
  BY <1>1, BootKept
<1>2. CASE Interrupt \/ Killed
  <2>1. PICK w : up /\ Exit(w) /\ goal' = goal  BY <1>2 DEF Interrupt, Killed
  <2>2. goal' \in Angles  BY <2>1 DEF NodeInv, TypeOK
  <2>3. QED  BY <2>1, <2>2, ExitKept
<1>3. CASE \/ \E q \in Poses : OnCommand(q)
           \/ OnObservation
           \/ \E i \in ImuSamples : OnImu(i)
           \/ PolicyStartsOrStops
  BY <1>3, InputsKept
<1>4. CASE ControlCycle
  BY <1>4, CycleWithoutImuKept, CycleFaultsKept, CycleIdlesKept, CycleDrivesKept
  DEF ControlCycle
<1>5. CASE \E p, w \in FinalWrite : ArmService(p, w)
  BY <1>5, ArmServiceKept
<1>6. CASE ArmServiceRaises
  BY <1>6, ArmServiceRaisesKept
<1>7. CASE DisarmService
  BY <1>7, DisarmServiceKept
<1>8. CASE EstopService
  BY <1>8, EstopServiceKept
<1>9. CASE UNCHANGED vars
  <2>1. NodeInv'
    BY <1>9
    DEF vars, memory, servos, NodeInv, TypeOK, OrderFollowsState, Silent, Armed
  <2>2. QED  BY <1>9, <2>1
<1>10. QED
  BY <1>1, <1>2, <1>3, <1>4, <1>5, <1>6, <1>7, <1>8, <1>9 DEF Next

LEMMA Invariance == Spec => []NodeInv
<1>1. NodeInv /\ [Next]_vars => NodeInv'  BY StepKept
<1>2. QED  BY InitNodeInv, <1>1, PTL DEF Spec

(***************************************************************************)
(* Theorems.                                                               *)
(***************************************************************************)

\* Every attribute of the node and every register keeps its type.
THEOREM NodeTypeCorrect == Spec => []TypeOK
<1>1. NodeInv => TypeOK  BY DEF NodeInv
<1>2. QED  BY <1>1, Invariance, PTL

\* Between callbacks the last torque order agrees with the supervisor: on exactly
\* while armed, off and announced once faulted.
THEOREM TorqueOrderAgrees == Spec => []OrderFollowsState
<1>1. NodeInv => OrderFollowsState  BY DEF NodeInv
<1>2. QED  BY <1>1, Invariance, PTL

\* The node implements the operator's view of it: authority moves from off
\* through the ramp to full, and a latched fault is left only by a restart.
THEOREM NodeImplementsAuthority == Spec => ImplementsAuthority
<1>1. Init => Authority!Init
  BY DEF Init, Authority!Init, AuthorityNow
<1>2. NodeInv /\ NodeInv' /\ (Lawful \/ UNCHANGED vars)
        => [Authority!Next]_Authority!vars
  <2> SUFFICES ASSUME NodeInv, NodeInv', Lawful \/ UNCHANGED vars
               PROVE  Authority!Next \/ UNCHANGED Authority!vars
    OBVIOUS
  <2>0. /\ up \in BOOLEAN /\ up' \in BOOLEAN
        /\ dryRun \in BOOLEAN /\ dryRun' \in BOOLEAN
        /\ sup.state \in States /\ sup'.state \in States
    BY DEF NodeInv, TypeOK, Supervisors
  <2>1. (order = "on") = (up /\ ~dryRun /\ Armed)
    BY <2>0 DEF NodeInv, OrderFollowsState, Silent, Armed
  <2>2. (order = "on")' = (up /\ ~dryRun /\ Armed)'
    BY <2>0 DEF NodeInv, OrderFollowsState, Silent, Armed
  <2>3. CASE UNCHANGED vars
    BY <2>3 DEF vars, memory, Authority!vars, AuthorityNow
  <2>4. CASE Lawful /\ ~up /\ up'
    BY <2>0, <2>1, <2>2, <2>4
    DEF Lawful, Authority!Next, Authority!Start, AuthorityNow, Armed
  <2>5. CASE Lawful /\ up /\ ~up'
    BY <2>0, <2>1, <2>2, <2>5
    DEF Lawful, Authority!Next, Authority!Vanish, AuthorityNow, States
  <2>6. CASE Lawful /\ ~up /\ ~up'
    BY <2>0, <2>1, <2>2, <2>6 DEF Lawful, Authority!vars, AuthorityNow
  <2>7. CASE Lawful /\ up /\ up'
    <3>1. /\ dryRun' = dryRun
          /\ (order = "on") = (~dryRun /\ Armed)
          /\ (order = "on")' = (~dryRun /\ Armed')
      BY <2>1, <2>2, <2>7 DEF Lawful
    <3>2. CASE sup'.state = sup.state
      BY <2>7, <3>1, <3>2 DEF Authority!vars, AuthorityNow, Armed
    <3>3. CASE sup.state # "fault" /\ sup'.state = "ramping"
      BY <2>0, <2>7, <3>1, <3>3
      DEF States, Authority!Next, Authority!Grant, Authority!Granted, AuthorityNow, Armed
    <3>4. CASE sup.state = "ramping" /\ sup'.state = "running"
      BY <2>7, <3>1, <3>4
      DEF Authority!Next, Authority!Promote, AuthorityNow, Armed
    <3>5. CASE sup.state \in {"ramping", "running"} /\ sup'.state = "disarmed"
      BY <2>7, <3>1, <3>5
      DEF Authority!Next, Authority!Withdraw, Authority!Granted, AuthorityNow, Armed
    <3>6. CASE sup.state # "fault" /\ sup'.state = "fault"
      BY <2>0, <2>7, <3>1, <3>6
      DEF States, Authority!Next, Authority!Latch, Authority!Granted, AuthorityNow, Armed
    <3>7. QED
      BY <2>0, <2>7, <3>2, <3>3, <3>4, <3>5, <3>6 DEF Lawful, Faulted, States
  <2>8. QED  BY <2>0, <2>3, <2>4, <2>5, <2>6, <2>7
<1>3. QED
  BY <1>1, <1>2, StepKept, Invariance, PTL DEF Spec, ImplementsAuthority, Authority!Spec

\* Started with dry_run, the node writes to no servo.
THEOREM DryRunIsReadOnly == Spec => DryRunWritesNothing
<1>1. ASSUME dryRun, Next PROVE UNCHANGED servos
  <2>0. ASSUME NEW w, Exit(w) PROVE torque' = torque
    BY <1>1, <2>0 DEF Exit, TorqueAfter
  <2>1. ASSUME NEW s, EnterFault(s) PROVE torque' = torque
    BY <1>1, <2>1 DEF EnterFault, TorqueAfter
  <2>2. ASSUME NEW dry \in BOOLEAN, Boot(dry) PROVE UNCHANGED servos
    BY <2>2 DEF Boot
  <2>3. CASE Interrupt \/ Killed
    BY <2>0, <2>3 DEF Interrupt, Killed, servos
  <2>4. CASE \/ \E q \in Poses : OnCommand(q)
             \/ OnObservation
             \/ \E i \in ImuSamples : OnImu(i)
             \/ PolicyStartsOrStops
    BY <2>4 DEF OnCommand, OnObservation, OnImu, PolicyStartsOrStops
  <2>5. ASSUME NEW r \in Readings, CycleWithoutImu(r) PROVE UNCHANGED servos
    BY <2>5 DEF CycleWithoutImu
  <2>6. ASSUME NEW r \in Readings, NEW h \in HealthResults, NEW t \in Took,
               CycleFaults(r, h, t)
        PROVE  UNCHANGED servos
    BY <2>0, <2>1, <2>6 DEF CycleFaults, FaultExits, servos
  <2>7. ASSUME NEW r \in Readings, NEW h \in HealthResults, NEW t \in Took,
               CycleIdles(r, h, t)
        PROVE  UNCHANGED servos
    BY <2>7 DEF CycleIdles
  <2>8. ASSUME NEW r \in Readings, NEW h \in HealthResults, NEW t \in Took,
               NEW w \in WriteOutcomes, CycleDrives(r, h, t, w)
        PROVE  UNCHANGED servos
    BY <1>1, <2>8 DEF CycleDrives, servos
  <2>9. ASSUME NEW p \in FinalWrite, NEW w \in FinalWrite, ArmService(p, w)
        PROVE  UNCHANGED servos
    BY <1>1, <2>9 DEF ArmService, TorqueAfter, servos
  <2>10. ~ArmServiceRaises
    BY <1>1 DEF ArmServiceRaises
  <2>11. CASE DisarmService
    BY <1>1, <2>0, <2>11 DEF DisarmService, TorqueAfter, servos
  <2>12. CASE EstopService
    BY <2>0, <2>1, <2>12 DEF EstopService, FaultExits, servos
  <2>13. QED
    BY <1>1, <2>2, <2>3, <2>4, <2>5, <2>6, <2>7, <2>8, <2>9, <2>10, <2>11, <2>12
    DEF Next, ControlCycle
<1>2. [Next]_vars => (dryRun /\ dryRun' => UNCHANGED servos)
  BY <1>1 DEF vars
<1>3. QED  BY <1>2, PTL DEF Spec, DryRunWritesNothing

(***************************************************************************)
(* What a cycle that writes a goal was given.                              *)
(***************************************************************************)

\* A running supervisor that passes its monitors was given a fresh command.
LEMMA HealthyIsFresh ==
  ASSUME NEW s \in Supervisors, NEW h, s.state = "running",
         ~Faulted(CheckHealth(s, h)), h.age \in Int
  PROVE  h.age <= CommandTimeout
<1> SUFFICES ASSUME h.age > CommandTimeout PROVE Faulted(CheckHealth(s, h))
  BY ThresholdAssumption
<1>1. ~Faulted(s)  BY DEF Faulted
<1>2. QED  BY <1>1 DEF CheckHealth, Trip, Faulted, Supervisors

\* What RunningOnFreshCommands says of a step that writes a goal.
InTime == age < CommandTimeout /\ age' <= CommandTimeout + PollTicks

LEMMA DriveFacts ==
  ASSUME NodeInv, NEW r \in Readings, NEW health \in HealthResults,
         NEW took \in Took, NEW w \in WriteOutcomes,
         CycleDrives(r, health, took, w), goal' # goal
  PROVE  /\ Armed
         /\ goal' \in Angles /\ InEnvelope(goal') /\ goal' = sup'.lastTarget
         /\ OneStep(sup.lastTarget, goal')
         /\ sup.state = "running" => InTime
<1> DEFINE s == Monitored(r, health)
<1>1. /\ up /\ imu # NoSample /\ ~Faulted(s) /\ Armed /\ command # NoTarget
      /\ CycleReads(r, took)
      /\ sup' = Shape(s, command) /\ goal' = ShapedCommand(s, command)
  BY DEF CycleDrives
<1>2. Sound(s) /\ s.state = sup.state
  BY <1>1, MonitoredSound DEF Faulted
<1>3. command \in Angles  BY <1>1, NodeAssumption DEF NodeInv, TypeOK
<1>4. MayShape(s)
  <2>1. s.state \in {"ramping", "running"}  BY <1>1, <1>2 DEF Armed
  <2>2. s.lastTarget \in Angles  BY <1>2, <2>1 DEF Sound, Bookkept
  <2>3. QED  BY <2>1, <2>2, NoTargetAssumption DEF MayShape
<1>5. /\ goal' \in Angles /\ InEnvelope(goal') /\ goal' = sup'.lastTarget
  BY <1>1, <1>2, <1>3, <1>4, ShapeSound, ShapedCommandBounds
<1>6. OneStep(sup.lastTarget, goal')
  <2>1. s.lastTarget = sup.lastTarget
    BY <1>1, MonitoredTarget
  <2>2. \A j \in Joints :
          Apart(ShapedCommand(s, command)[j], s.lastTarget[j])
            <= Larger(IF s.state = "ramping" THEN RampStep ELSE RunStep,
                      Excursion(s.lastTarget, j))
    BY <1>2, <1>3, <1>4, ShapedCommandBounds
  <2> HIDE DEF s
  <2>3. QED  BY <1>1, <1>2, <2>1, <2>2 DEF OneStep
<1>7. ASSUME sup.state = "running" PROVE InTime
  <2> DEFINE h == [ attitude |-> imu.attitude, freefall |-> imu.freefall,
                    readOk |-> r # NoTarget, age |-> MonitoredAge,
                    hot |-> health = "hot", low |-> health = "low" ]
  <2>1. MonitoredAge = AgeNow /\ AgeNow \in Int
    BY <1>1, AgeNowTyped DEF MonitoredAge
  <2>2. CASE Faulted(CheckHealth(sup, h))
    <3>1. s = CheckHealth(sup, h)  BY <2>2 DEF Monitored
    <3>2. QED  BY <1>1, <2>2, <3>1
  <2>3. CASE ~Faulted(CheckHealth(sup, h))
    <3>1. sup \in Supervisors /\ h.age = AgeNow  BY <2>1 DEF NodeInv, TypeOK
    <3>2. h.age <= CommandTimeout
      BY <1>7, <2>1, <2>3, <3>1, HealthyIsFresh
    <3>3. /\ age \in Nat /\ took \in 0 .. PollTicks /\ PollTicks \in Nat
          /\ age' = Aged(1 + took)
      BY <1>1, ThresholdAssumption, NodeAssumption DEF CycleReads, Took, NodeInv, TypeOK, AgeMax
    <3>4. QED
      BY <1>1, <3>1, <3>2, <3>3, ThresholdAssumption DEF InTime, AgeNow, Aged, AgeMax
  <2>4. QED  BY <2>2, <2>3
<1>8. QED  BY <1>1, <1>5, <1>6, <1>7

\* Only three kinds of step change a servo's goal.
LEMMA GoalWriters ==
  ASSUME NodeInv, Next, goal' # goal
  PROVE  \/ \E p, w \in FinalWrite : ArmService(p, w)
         \/ ArmServiceRaises
         \/ \E r \in Readings, h \in HealthResults, t \in Took, w \in WriteOutcomes :
              CycleDrives(r, h, t, w)
BY DEF Next, Boot, Interrupt, Killed, OnCommand, OnObservation, OnImu,
       PolicyStartsOrStops, ControlCycle, CycleWithoutImu, CycleFaults, CycleIdles,
       DisarmService, EstopService, servos

\* A goal is written either by arm, which parks it at the measured pose, or by an
\* armed control cycle, as a shaped command inside the envelope one step from the last.
THEOREM GoalsStaySafe == Spec => GoalsAreSafe
<1>1. ASSUME NodeInv, Next, goal' # goal
      PROVE  \/ goal' = positions /\ NearEnvelope(positions) /\ ~Faulted(sup)
             \/ /\ Armed /\ InEnvelope(goal') /\ goal' = sup'.lastTarget
                /\ OneStep(sup.lastTarget, goal')
  <2>1. CASE (\E p, w \in FinalWrite : ArmService(p, w)) \/ ArmServiceRaises
    BY <1>1, <2>1 DEF ArmService, ArmServiceRaises, MayArm, PreflightOk
  <2>2. CASE \E r \in Readings, h \in HealthResults, t \in Took, w \in WriteOutcomes :
               CycleDrives(r, h, t, w)
    BY <1>1, <2>2, DriveFacts
  <2>3. QED  BY <1>1, <2>1, <2>2, GoalWriters
<1>2. NodeInv /\ [Next]_vars
        => [goal' # goal =>
              \/ goal' = positions /\ NearEnvelope(positions) /\ ~Faulted(sup)
              \/ /\ Armed /\ InEnvelope(goal') /\ goal' = sup'.lastTarget
                 /\ OneStep(sup.lastTarget, goal')]_vars
  BY <1>1 DEF vars, servos
<1>3. QED  BY <1>2, Invariance, PTL DEF Spec, GoalsAreSafe

\* At full rate a goal is written only from a command that was younger than the
\* timeout when the cycle began, and that this cycle's poll alone may have aged past it.
THEOREM FreshWhileRunning == Spec => RunningOnFreshCommands
<1>1. ASSUME NodeInv, Next, goal' # goal, sup.state = "running", sup'.state = "running"
      PROVE  InTime
  <2>1. ~\E p, w \in FinalWrite : ArmService(p, w)
    <3>1. Arm(sup, positions).state = "ramping"  BY DEF Arm
    <3>2. QED  BY <1>1, <3>1 DEF ArmService
  <2>2. ~ArmServiceRaises
    <3>1. InitSupervisor.state = "disarmed"  BY DEF InitSupervisor
    <3>2. QED  BY <1>1, <3>1 DEF ArmServiceRaises, Exit, ForgetAll
  <2>3. PICK r \in Readings, h \in HealthResults, t \in Took, w \in WriteOutcomes :
               CycleDrives(r, h, t, w)
    BY <1>1, <2>1, <2>2, GoalWriters
  <2>4. QED  BY <1>1, <2>3, DriveFacts
<1>2. NodeInv /\ [Next]_vars
        => [(goal' # goal /\ sup.state = "running" /\ sup'.state = "running")
              => InTime]_vars
  BY <1>1 DEF vars, servos
<1>3. QED  BY <1>2, Invariance, PTL DEF Spec, RunningOnFreshCommands, InTime

(***************************************************************************)
(* The goals that the servos hold.                                         *)
(***************************************************************************)

\* The supervisor is not armed when the process ends or a fault is entered.
LEMMA NotArmedAfter ==
  ASSUME NEW w, NEW s, Exit(w) \/ (EnterFault(s) /\ Faulted(s))
  PROVE  ~Armed'
<1>1. CASE Exit(w)
  BY <1>1 DEF Exit, ForgetAll, InitSupervisor, Armed
<1>2. CASE EnterFault(s) /\ Faulted(s)
  BY <1>2 DEF EnterFault, Faulted, Armed
<1>3. QED  BY <1>1, <1>2

\* Where no write is lost, the supervisor's target and the servos' goal change together.
LEMMA HeldKept ==
  ASSUME "lost" \notin WriteOutcomes, NodeInv, HeldIsTold, Next
  PROVE  HeldIsTold'
<1> SUFFICES ASSUME Armed', ~dryRun'
             PROVE  goal' = sup'.lastTarget
  BY DEF HeldIsTold
<1>1. \A w : ~Exit(w)
  BY NotArmedAfter
<1>2. \A s : Faulted(s) => ~EnterFault(s)
  BY NotArmedAfter
<1>3. ASSUME sup' = sup, goal' = goal, dryRun' = dryRun
      PROVE  goal' = sup'.lastTarget
  BY <1>3 DEF HeldIsTold, Armed
<1>4. CASE \E dry \in BOOLEAN : Boot(dry)
  BY <1>4 DEF Boot, ForgetAll, InitSupervisor, Armed
<1>5. CASE Interrupt \/ Killed \/ ArmServiceRaises
  BY <1>1, <1>5 DEF Interrupt, Killed, ArmServiceRaises
<1>6. CASE \/ \E q \in Poses : OnCommand(q)
           \/ OnObservation
           \/ \E i \in ImuSamples : OnImu(i)
           \/ PolicyStartsOrStops
  BY <1>3, <1>6 DEF OnCommand, OnObservation, OnImu, PolicyStartsOrStops, memory, servos
<1>7. ASSUME NEW r \in Readings, CycleWithoutImu(r)
      PROVE  goal' = sup'.lastTarget
  BY <1>3, <1>7 DEF CycleWithoutImu, servos
<1>8. ASSUME NEW r \in Readings, NEW h \in HealthResults, NEW t \in Took,
               CycleFaults(r, h, t)
      PROVE  goal' = sup'.lastTarget
  BY <1>1, <1>2, <1>8 DEF CycleFaults, FaultExits
<1>9. ASSUME NEW r \in Readings, NEW h \in HealthResults, NEW t \in Took,
               CycleIdles(r, h, t)
      PROVE  goal' = sup'.lastTarget
  <2> DEFINE s == Monitored(r, h)
  <2>1. up /\ imu # NoSample /\ ~Faulted(s) /\ sup' = s /\ goal' = goal /\ dryRun' = dryRun
    BY <1>9 DEF CycleIdles, servos
  <2>2. s.lastTarget = sup.lastTarget /\ s.state = sup.state
    BY <2>1, MonitoredTarget, MonitoredSound DEF Faulted
  <2> HIDE DEF s
  <2>3. QED  BY <2>1, <2>2 DEF HeldIsTold, Armed
<1>10. ASSUME NEW r \in Readings, NEW h \in HealthResults, NEW t \in Took,
              NEW w \in WriteOutcomes, CycleDrives(r, h, t, w)
       PROVE  goal' = sup'.lastTarget
  <2> DEFINE s == Monitored(r, h)
             c == ShapedCommand(s, command)
  <2>1. up /\ imu # NoSample /\ ~Faulted(s) /\ Armed
    BY <1>10 DEF CycleDrives
  <2>2. s \in Supervisors /\ s.state # "fault"
    BY <2>1, MonitoredSound DEF Sound, Faulted
  <2>3. Faulted(Trip(Shape(s, command), "WRITE_REJECTED"))
    BY <2>2 DEF Trip, Faulted, Shape, Supervisors
  <2>4. Shape(s, command).lastTarget = c
    BY <2>2 DEF Shape, Supervisors
  <2>5. /\ sup' = Shape(s, command) /\ UNCHANGED dryRun
        /\ goal' = IF dryRun \/ w = "lost" THEN goal ELSE c
    BY <1>1, <1>2, <1>10, <2>3 DEF CycleDrives, FaultExits
  <2>6. w # "lost"
    OBVIOUS
  <2> HIDE DEF s, c
  <2>7. QED  BY <2>4, <2>5, <2>6
<1>11. ASSUME NEW park \in FinalWrite, NEW enable \in FinalWrite, ArmService(park, enable)
       PROVE  goal' = sup'.lastTarget
  <2>1. park # "lost"
    BY DEF FinalWrite
  <2>2. QED  BY <1>11, <2>1 DEF ArmService, Arm
<1>12. CASE DisarmService
  <2>1. sup' = Disarm(sup)
    BY <1>1, <1>12 DEF DisarmService
  <2>2. sup'.state \notin {"ramping", "running"}
    BY <2>1 DEF Disarm, NodeInv, TypeOK, Supervisors
  <2>3. QED  BY <2>2 DEF Armed
<1>13. CASE EstopService
  <2>1. Faulted(Trip(sup, "ESTOP"))
    BY DEF Trip, Faulted, NodeInv, TypeOK, Supervisors
  <2>2. QED  BY <1>1, <1>2, <1>13, <2>1 DEF EstopService, FaultExits
<1>14. QED
  BY <1>4, <1>5, <1>6, <1>7, <1>8, <1>9, <1>10, <1>11, <1>12, <1>13 DEF Next, ControlCycle

\* On a bus that loses no write, what the servos hold while armed is what the supervisor
\* takes its next step from, however the services and the cycles interleave.
THEOREM HeldGoalIsTold ==
  ASSUME "lost" \notin WriteOutcomes
  PROVE  Spec => []HeldIsTold
<1>1. Init => HeldIsTold
  BY DEF Init, InitSupervisor, HeldIsTold, Armed
<1>2. NodeInv /\ HeldIsTold /\ [Next]_vars => HeldIsTold'
  <2>1. CASE UNCHANGED vars
    BY <2>1 DEF vars, memory, servos, HeldIsTold, Armed
  <2>2. QED  BY <2>1, HeldKept
<1>3. QED  BY <1>1, <1>2, Invariance, PTL DEF Spec

\* The rate limit of safety.py holds for the registers of the servos, end to end: on such
\* a bus no goal is further than a step from the one it replaces, but for one that parks
\* the joint where it was measured.
THEOREM GoalsNeverJump ==
  ASSUME "lost" \notin WriteOutcomes
  PROVE  Spec => NoGoalJumps
<1>1. ASSUME NodeInv, HeldIsTold, Next, goal' # goal
      PROVE  (goal' = positions /\ NearEnvelope(positions)) \/ OneStep(goal, goal')
  <2>1. CASE (\E p, w \in FinalWrite : ArmService(p, w)) \/ ArmServiceRaises
    BY <1>1, <2>1 DEF ArmService, ArmServiceRaises, MayArm, PreflightOk
  <2>2. CASE \E r \in Readings, h \in HealthResults, t \in Took, w \in WriteOutcomes :
               CycleDrives(r, h, t, w)
    <3>1. ~dryRun
      BY <1>1, <2>2 DEF CycleDrives
    <3>2. Armed /\ OneStep(sup.lastTarget, goal')
      BY <1>1, <2>2, DriveFacts
    <3>3. QED  BY <1>1, <3>1, <3>2 DEF HeldIsTold
  <2>3. QED  BY <1>1, <2>1, <2>2, GoalWriters
<1>2. NodeInv /\ HeldIsTold /\ [Next]_vars
        => [goal' # goal => \/ goal' = positions /\ NearEnvelope(positions)
                            \/ OneStep(goal, goal')]_vars
  BY <1>1 DEF vars, servos
<1>3. QED  BY <1>2, Invariance, HeldGoalIsTold, PTL DEF Spec, NoGoalJumps

=============================================================================
