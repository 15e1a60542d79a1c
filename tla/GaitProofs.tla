------------------------------ MODULE GaitProofs -------------------------------
(***************************************************************************)
(* The gait sequencer, and the walking process that steps it.              *)
(*                                                                         *)
(* First what one step of the sequencer does to its clocks, for every      *)
(* duration, every style and every stop phase.  Good says of each mode how *)
(* far its clocks have run: a cycle with a stop pending brings the command *)
(* one step nearer to zero and the wait one step nearer to its maximum.    *)
(*                                                                         *)
(* Then GaitSequencer.  The inductive invariant SInv is Good for the       *)
(* counts of cycles that the history variables keep.                       *)
(*                                                                         *)
(* Then WalkProcess, for every grace margin too.  The invariant WInv ties  *)
(* the wall clock of main()'s deadline to the clocks of the sequencer: a   *)
(* control period since the first Ctrl-C was stepped with the stop pending, *)
(* is still waiting as a joint_states message, or is counted as missed.    *)
(* RInv is about the status topic.                                         *)
(***************************************************************************)
EXTENDS GaitSequencer, WalkProcess, TLAPS

GaitType ==
  [ mode : Modes, elapsed : Nat, phase : Phases, cmd : 0 .. CmdRampTicks,
    stop : Reasons \cup {"none"}, waited : Nat, started : BOOLEAN,
    exit : Reasons \cup {"none"} ]

\* What the clocks of the sequencer g are in its mode, p cycles after a stop was
\* requested and n cycles after the robot left STAND.
Clocks(g, p, n) ==
  /\ g.mode = "stand" => /\ g.stop = "none" /\ p = 0 /\ n = 0
                         /\ g.elapsed = 0 /\ g.waited = 0 /\ ~g.started
  /\ g.mode = "to_crouch" => /\ g.elapsed < CrouchTicks /\ g.waited = 0
                             /\ p = 0 /\ n = g.elapsed /\ ~g.started
  /\ g.mode = "settle" => /\ g.elapsed < Most(1, SettleTicks) /\ g.waited = 0
                          /\ p = 0 /\ n = CrouchTicks + g.elapsed /\ ~g.started
  /\ g.mode = "walk" => /\ p = g.waited
                        /\ n = CrouchTicks + Most(1, SettleTicks) + g.elapsed
                        /\ g.elapsed < WalkTicks + g.waited
                        /\ g.waited < StopTicks
                        /\ g.stop = "none" => g.waited = 0
                        /\ g.cmd = 0 \/ g.cmd + g.waited <= CmdRampTicks
  /\ g.mode = "to_stand" => /\ g.stop # "none" /\ g.elapsed < RecoverTicks
                            /\ g.waited <= StopTicks
                            /\ p <= StopTicks + g.elapsed
                            /\ n < AwayTicks - RecoverTicks + g.elapsed

\* No velocity is commanded outside WALK unless the configuration asks for it.
Still(c, g) ==
  ~c.duringCrouch \/ c.crouch # "blend_walk" => g.mode = "walk" \/ g.cmd = 0

(***************************************************************************)
(* Lemmas about the operators.                                             *)
(***************************************************************************)

LEMMA TicksTyped ==
  /\ StopTicks \in Nat /\ AwayTicks \in Nat
  /\ StopTicks >= 1 /\ StopTicks >= CmdRampTicks /\ StopTicks >= MaxStopWait
  /\ Most(1, SettleTicks) \in Nat
  /\ Most(1, SettleTicks) >= 1 /\ Most(1, SettleTicks) >= SettleTicks
BY GaitAssumption DEF StopTicks, AwayTicks, Most

\* What every cycle does before it looks at the mode.
LEMMA AdvancedFields ==
  ASSUME NEW c \in Configs, NEW g \in GaitType
  PROVE  /\ Advanced(c, g) \in GaitType
         /\ Advanced(c, g).mode = g.mode /\ Advanced(c, g).stop = g.stop
         /\ Advanced(c, g).waited = g.waited /\ Advanced(c, g).started = g.started
         /\ Advanced(c, g).exit = g.exit
         /\ Advanced(c, g).elapsed = IF g.mode = "stand" THEN g.elapsed ELSE g.elapsed + 1
         /\ Advanced(c, g).cmd = Slewed(g.cmd, WantedCommand(c, g))
<1>1. /\ g.phase \in Phases /\ g.cmd \in 0 .. CmdRampTicks /\ g.elapsed \in Nat
      /\ g.mode \in Modes /\ g.stop \in Reasons \cup {"none"}
  BY DEF GaitType
<1>2. NextPhase(g.phase) \in Phases
  BY <1>1, GaitAssumption DEF NextPhase, Phases
<1>3. WantedCommand(c, g) \in 0 .. CmdRampTicks
  BY GaitAssumption DEF WantedCommand
<1>4. Slewed(g.cmd, WantedCommand(c, g)) \in 0 .. CmdRampTicks
  BY <1>1, <1>3, GaitAssumption DEF Slewed
<1> DEFINE e == IF g.mode = "stand" THEN g.elapsed ELSE g.elapsed + 1
           ph == IF ClockRuns(c, g) THEN NextPhase(g.phase) ELSE g.phase
           v == Slewed(g.cmd, WantedCommand(c, g))
<1>5. Advanced(c, g) = [g EXCEPT !.cmd = v, !.elapsed = e, !.phase = ph]
  BY DEF Advanced, GaitType
<1>6. e \in Nat /\ ph \in Phases /\ v \in 0 .. CmdRampTicks
  BY <1>1, <1>2, <1>4
<1> HIDE DEF e, ph, v
<1>7. /\ Advanced(c, g) \in GaitType
      /\ Advanced(c, g).mode = g.mode /\ Advanced(c, g).stop = g.stop
      /\ Advanced(c, g).waited = g.waited /\ Advanced(c, g).started = g.started
      /\ Advanced(c, g).exit = g.exit
      /\ Advanced(c, g).elapsed = e /\ Advanced(c, g).cmd = v
  BY <1>5, <1>6 DEF GaitType
<1>8. QED  BY <1>7 DEF e, v

\* A command that is wanted at zero falls by one step; one that is zero and not
\* wanted stays zero.
LEMMA SlewDown ==
  ASSUME NEW v \in 0 .. CmdRampTicks
  PROVE  Slewed(v, 0) = IF v = 0 THEN 0 ELSE v - 1
BY GaitAssumption DEF Slewed

LEMMA EnterToStandFields ==
  ASSUME NEW a \in GaitType
  PROVE  /\ EnterToStand(a) \in GaitType
         /\ EnterToStand(a).mode = "to_stand" /\ EnterToStand(a).elapsed = 0
         /\ EnterToStand(a).stop = a.stop /\ EnterToStand(a).waited = a.waited
         /\ EnterToStand(a).cmd = a.cmd /\ EnterToStand(a).started = a.started
         /\ EnterToStand(a).exit = a.exit /\ EnterToStand(a).phase = a.phase
BY DEF EnterToStand, GaitType, Modes

(***************************************************************************)
(* One cycle, mode by mode.  PendedFor and GoneFor count it in, for what a *)
(* stop has been pending and the robot away from STAND.                    *)
(***************************************************************************)

PendedFor(g, p) == IF Pending(g) THEN p + 1 ELSE 0
GoneFor(g, n) == IF g.mode # "stand" THEN n + 1 ELSE 0

Good(c, g, p, n) == g \in GaitType /\ Clocks(g, p, n) /\ Still(c, g)

LEMMA InitGood == ASSUME NEW c PROVE Good(c, InitGait, 0, 0)
<1>1. InitGait \in GaitType
  BY GaitAssumption DEF InitGait, GaitType, Modes, Phases
<1>2. Clocks(InitGait, 0, 0)  BY DEF Clocks, InitGait
<1>3. Still(c, InitGait)  BY DEF Still, InitGait
<1>4. QED  BY <1>1, <1>2, <1>3 DEF Good

LEMMA RequestWalkGood ==
  ASSUME NEW c, NEW g \in GaitType
  PROVE  Good(c, RequestWalk(g), 0, 0)
<1> DEFINE w == RequestWalk(g)
<1>1. /\ w \in GaitType /\ w.mode = "to_crouch" /\ w.elapsed = 0 /\ w.cmd = 0
      /\ w.waited = 0 /\ w.started = FALSE
  <2>1. g.exit \in Reasons \cup {"none"}  BY DEF GaitType
  <2>2. QED  BY <2>1, GaitAssumption DEF RequestWalk, GaitType, Modes, Phases
<1> HIDE DEF w
<1>2. Clocks(w, 0, 0)  BY <1>1, GaitAssumption DEF Clocks
<1>3. Still(c, w)  BY <1>1 DEF Still
<1>4. QED  BY <1>1, <1>2, <1>3 DEF Good, w

\* A request to stop moves no clock; unless the robot stands, it leaves one pending.
LEMMA RequestStopGood ==
  ASSUME NEW c, NEW g, NEW p \in Nat, NEW n \in Nat, NEW r \in Reasons, Good(c, g, p, n)
  PROVE  /\ Good(c, RequestStop(g, r), p, n)
         /\ RequestStop(g, r).mode = g.mode
         /\ g.mode # "stand" => Pending(RequestStop(g, r))
         /\ Pending(g) => RequestStop(g, r) = g
<1>1. CASE g.mode = "stand" \/ Pending(g)
  BY <1>1 DEF RequestStop
<1>2. CASE g.mode # "stand" /\ ~Pending(g)
  <2> DEFINE s == RequestStop(g, r)
  <2>1. /\ s \in GaitType /\ s.mode = g.mode /\ s.elapsed = g.elapsed
        /\ s.cmd = g.cmd /\ s.waited = g.waited /\ s.started = g.started
        /\ s.stop = r
    BY <1>2 DEF RequestStop, GaitType, Good
  <2>2. r # "none" /\ g.stop = "none"  BY <1>2 DEF Pending, Reasons
  <2> HIDE DEF s
  <2>3. Clocks(s, p, n)  BY <1>2, <2>1, <2>2 DEF Good, Clocks
  <2>4. Still(c, s)  BY <2>1 DEF Good, Still
  <2>5. Pending(s)  BY <2>1, <2>2 DEF Pending
  <2>6. QED  BY <1>2, <2>1, <2>3, <2>4, <2>5 DEF Good, s
<1>3. QED  BY <1>1, <1>2

LEMMA StandStep ==
  ASSUME NEW c \in Configs, NEW g, NEW p \in Nat, NEW n \in Nat,
         Good(c, g, p, n), g.mode = "stand"
  PROVE  Good(c, Step(c, g), PendedFor(Step(c, g), p), GoneFor(Step(c, g), n))
<1> DEFINE a == Advanced(c, g)
<1>1. g \in GaitType /\ g.cmd \in 0 .. CmdRampTicks  BY DEF Good, GaitType
<1>2. /\ a \in GaitType /\ a.mode = "stand" /\ a.stop = "none" /\ a.waited = 0
      /\ ~a.started /\ a.elapsed = 0 /\ a.cmd = Slewed(g.cmd, WantedCommand(c, g))
  BY <1>1, AdvancedFields DEF Good, Clocks
<1>3. WantedCommand(c, g) = 0  BY DEF WantedCommand
<1>4. g.cmd = 0 => a.cmd = 0  BY <1>1, <1>2, <1>3, SlewDown
<1>5. Step(c, g) = a  BY DEF Step
<1> HIDE DEF a
<1>6. Clocks(a, PendedFor(a, p), GoneFor(a, n)) /\ Still(c, a)
  BY <1>2, <1>4 DEF Clocks, PendedFor, GoneFor, Pending, Still, Good
<1>7. QED  BY <1>2, <1>5, <1>6 DEF Good

\* A stop during the descent or in the crouch starts the recovery at once.
LEMMA AbandonedStep ==
  ASSUME NEW c \in Configs, NEW a \in GaitType, NEW n \in Nat, NEW p \in Nat,
         a.stop # "none", a.waited = 0, p = 1,
         n <= CrouchTicks + Most(1, SettleTicks), Still(c, a), a.mode # "walk"
  PROVE  Good(c, EnterToStand(a), p, n)
<1>1. /\ EnterToStand(a) \in GaitType
      /\ EnterToStand(a).mode = "to_stand" /\ EnterToStand(a).elapsed = 0
      /\ EnterToStand(a).stop = a.stop /\ EnterToStand(a).waited = a.waited
      /\ EnterToStand(a).cmd = a.cmd
  BY EnterToStandFields
<1>2. Clocks(EnterToStand(a), p, n)
  BY <1>1, TicksTyped, GaitAssumption DEF Clocks, AwayTicks
<1>3. Still(c, EnterToStand(a))  BY <1>1 DEF Still
<1>4. QED  BY <1>1, <1>2, <1>3 DEF Good

LEMMA CrouchStep ==
  ASSUME NEW c \in Configs, NEW g, NEW p \in Nat, NEW n \in Nat,
         Good(c, g, p, n), g.mode = "to_crouch"
  PROVE  Good(c, Step(c, g), PendedFor(Step(c, g), p), GoneFor(Step(c, g), n))
<1> DEFINE a == Advanced(c, g)
           b == [a EXCEPT !.mode = "settle", !.elapsed = 0]
<1>1. /\ g \in GaitType /\ g.cmd \in 0 .. CmdRampTicks /\ g.elapsed \in Nat
      /\ g.elapsed < CrouchTicks /\ g.waited = 0 /\ ~g.started
      /\ p = 0 /\ n = g.elapsed
  BY DEF Good, GaitType, Clocks
<1>2. /\ a \in GaitType /\ a.mode = "to_crouch" /\ a.stop = g.stop /\ a.waited = 0
      /\ ~a.started /\ a.elapsed = g.elapsed + 1
      /\ a.cmd = Slewed(g.cmd, WantedCommand(c, g))
  BY <1>1, AdvancedFields
<1>3. Still(c, a)
  <2>1. SUFFICES ASSUME ~c.duringCrouch \/ c.crouch # "blend_walk" PROVE a.cmd = 0
    BY DEF Still
  <2>2. g.cmd = 0  BY <2>1 DEF Good, Still
  <2>3. WantedCommand(c, g) = 0  BY <2>1 DEF WantedCommand, Configs
  <2>4. QED  BY <1>1, <1>2, <2>2, <2>3, SlewDown
<1>4. Step(c, g) = IF Pending(a) THEN EnterToStand(a)
                   ELSE IF a.elapsed >= CrouchTicks THEN b ELSE a
  BY DEF Step, StepCrouch
<1> HIDE DEF a
<1>5. CASE Pending(a)
  <2>1. /\ Step(c, g) = EnterToStand(a)
        /\ PendedFor(Step(c, g), p) = 1 /\ GoneFor(Step(c, g), n) = n + 1
    BY <1>1, <1>2, <1>4, <1>5, EnterToStandFields DEF PendedFor, GoneFor, Pending
  <2>2. n + 1 <= CrouchTicks + Most(1, SettleTicks)
    BY <1>1, TicksTyped, GaitAssumption
  <2>3. QED  BY <1>2, <1>3, <1>5, <2>1, <2>2, AbandonedStep DEF Pending
<1>6. CASE ~Pending(a) /\ a.elapsed >= CrouchTicks
  <2>1. /\ b \in GaitType /\ b.mode = "settle" /\ b.elapsed = 0 /\ b.stop = a.stop
        /\ b.waited = 0 /\ ~b.started /\ b.cmd = a.cmd
    BY <1>2 DEF GaitType, Modes
  <2>2. Step(c, g) = b  BY <1>4, <1>6
  <2> HIDE DEF b
  <2>3. PendedFor(b, p) = 0 /\ GoneFor(b, n) = CrouchTicks
    BY <1>1, <1>2, <1>6, <2>1, GaitAssumption DEF PendedFor, GoneFor, Pending
  <2>4. Clocks(b, PendedFor(b, p), GoneFor(b, n))
    BY <2>1, <2>3, TicksTyped, GaitAssumption DEF Clocks
  <2>5. Still(c, b)  BY <1>2, <1>3, <2>1 DEF Still
  <2>6. QED  BY <2>1, <2>2, <2>4, <2>5 DEF Good
<1>7. CASE ~Pending(a) /\ a.elapsed < CrouchTicks
  <2>1. Step(c, g) = a  BY <1>1, <1>2, <1>4, <1>7, GaitAssumption
  <2>2. PendedFor(a, p) = 0 /\ GoneFor(a, n) = a.elapsed
    BY <1>1, <1>2, <1>7 DEF PendedFor, GoneFor, Pending
  <2>3. Clocks(a, PendedFor(a, p), GoneFor(a, n))  BY <1>2, <1>7, <2>2 DEF Clocks
  <2>4. QED  BY <1>2, <1>3, <2>1, <2>3 DEF Good
<1>8. QED  BY <1>1, <1>2, <1>5, <1>6, <1>7, GaitAssumption

LEMMA SettleStep ==
  ASSUME NEW c \in Configs, NEW g, NEW p \in Nat, NEW n \in Nat,
         Good(c, g, p, n), g.mode = "settle"
  PROVE  Good(c, Step(c, g), PendedFor(Step(c, g), p), GoneFor(Step(c, g), n))
<1> DEFINE a == Advanced(c, g)
           b == IF c.crouch = "blend_walk" THEN [a EXCEPT !.mode = "walk", !.elapsed = 0]
                ELSE [a EXCEPT !.mode = "walk", !.elapsed = 0, !.phase = 0, !.started = TRUE]
<1>1. /\ g \in GaitType /\ g.cmd \in 0 .. CmdRampTicks /\ g.elapsed \in Nat
      /\ g.elapsed < Most(1, SettleTicks) /\ g.waited = 0 /\ ~g.started
      /\ p = 0 /\ n = CrouchTicks + g.elapsed
  BY DEF Good, GaitType, Clocks
<1>2. /\ a \in GaitType /\ a.mode = "settle" /\ a.stop = g.stop /\ a.waited = 0
      /\ ~a.started /\ a.elapsed = g.elapsed + 1
      /\ a.cmd = Slewed(g.cmd, WantedCommand(c, g))
  BY <1>1, AdvancedFields
<1>3. Still(c, a)
  <2>1. SUFFICES ASSUME ~c.duringCrouch \/ c.crouch # "blend_walk" PROVE a.cmd = 0
    BY DEF Still
  <2>2. g.cmd = 0  BY <2>1 DEF Good, Still
  <2>3. WantedCommand(c, g) = 0  BY <2>1 DEF WantedCommand, Configs
  <2>4. QED  BY <1>1, <1>2, <2>2, <2>3, SlewDown
<1>4. Step(c, g) = IF Pending(a) THEN EnterToStand(a)
                   ELSE IF a.elapsed < SettleTicks THEN a ELSE b
  BY DEF Step, StepSettle
<1> HIDE DEF a
<1>5. CASE Pending(a)
  <2>1. /\ Step(c, g) = EnterToStand(a)
        /\ PendedFor(Step(c, g), p) = 1 /\ GoneFor(Step(c, g), n) = n + 1
    BY <1>1, <1>2, <1>4, <1>5, EnterToStandFields DEF PendedFor, GoneFor, Pending
  <2>2. n + 1 <= CrouchTicks + Most(1, SettleTicks)
    BY <1>1, TicksTyped, GaitAssumption
  <2>3. QED  BY <1>2, <1>3, <1>5, <2>1, <2>2, AbandonedStep DEF Pending
<1>6. CASE ~Pending(a) /\ ~(a.elapsed < SettleTicks)
  <2>1. /\ b \in GaitType /\ b.mode = "walk" /\ b.elapsed = 0 /\ b.stop = a.stop
        /\ b.waited = 0 /\ b.cmd = a.cmd
    <3>1. 0 \in Phases /\ "walk" \in Modes  BY GaitAssumption DEF Phases, Modes
    <3>2. CASE c.crouch = "blend_walk"
      BY <1>2, <3>1, <3>2 DEF GaitType
    <3>3. CASE c.crouch # "blend_walk"
      <4>1. b = [a EXCEPT !.mode = "walk", !.elapsed = 0, !.phase = 0, !.started = TRUE]
        BY <3>3
      <4>2. QED  BY <1>2, <3>1, <4>1 DEF GaitType
    <3>4. QED  BY <3>2, <3>3
  <2>2. Step(c, g) = b  BY <1>4, <1>6
  <2> HIDE DEF b
  <2>3. a.elapsed = Most(1, SettleTicks)
    BY <1>1, <1>2, <1>6, GaitAssumption DEF Most
  <2>4. PendedFor(b, p) = 0 /\ GoneFor(b, n) = CrouchTicks + Most(1, SettleTicks)
    BY <1>1, <1>2, <1>6, <2>1, <2>3, GaitAssumption, TicksTyped DEF PendedFor, GoneFor, Pending
  <2>5. a.cmd \in 0 .. CmdRampTicks  BY <1>2 DEF GaitType
  <2>6. Clocks(b, PendedFor(b, p), GoneFor(b, n))
    BY <2>1, <2>4, <2>5, TicksTyped, GaitAssumption DEF Clocks
  <2>7. Still(c, b)  BY <2>1 DEF Still
  <2>8. QED  BY <2>1, <2>2, <2>6, <2>7 DEF Good
<1>7. CASE ~Pending(a) /\ a.elapsed < SettleTicks
  <2>1. Step(c, g) = a  BY <1>4, <1>7
  <2>2. PendedFor(a, p) = 0 /\ GoneFor(a, n) = CrouchTicks + a.elapsed
    BY <1>1, <1>2, <1>7, GaitAssumption DEF PendedFor, GoneFor, Pending
  <2>3. a.elapsed < Most(1, SettleTicks)
    BY <1>1, <1>2, <1>7, TicksTyped, GaitAssumption
  <2>4. Clocks(a, PendedFor(a, p), GoneFor(a, n))  BY <1>2, <2>2, <2>3 DEF Clocks
  <2>5. QED  BY <1>2, <1>3, <2>1, <2>4 DEF Good
<1>8. QED  BY <1>5, <1>6, <1>7

LEMMA WalkStep ==
  ASSUME NEW c \in Configs, NEW g, NEW p \in Nat, NEW n \in Nat,
         Good(c, g, p, n), g.mode = "walk"
  PROVE  Good(c, Step(c, g), PendedFor(Step(c, g), p), GoneFor(Step(c, g), n))
<1> DEFINE a == Advanced(c, g)
           s == IF a.elapsed >= WalkTicks THEN RequestStop(a, "duration") ELSE a
           w == [s EXCEPT !.waited = IF Pending(s) THEN @ + 1 ELSE @]
           leaves == /\ Pending(w) /\ w.cmd = 0
                     /\ NearStopPhase(c, w.phase) \/ w.waited >= MaxStopWait
<1>1. /\ g \in GaitType /\ g.cmd \in 0 .. CmdRampTicks /\ g.elapsed \in Nat
      /\ g.waited \in Nat /\ g.stop \in Reasons \cup {"none"}
      /\ p = g.waited /\ n = CrouchTicks + Most(1, SettleTicks) + g.elapsed
      /\ g.elapsed < WalkTicks + g.waited /\ g.waited < StopTicks
      /\ g.stop = "none" => g.waited = 0
      /\ g.cmd = 0 \/ g.cmd + g.waited <= CmdRampTicks
  BY DEF Good, GaitType, Clocks
<1>2. /\ a \in GaitType /\ a.mode = "walk" /\ a.stop = g.stop /\ a.waited = g.waited
      /\ a.elapsed = g.elapsed + 1
      /\ a.cmd = Slewed(g.cmd, WantedCommand(c, g)) /\ a.cmd \in 0 .. CmdRampTicks
  BY <1>1, AdvancedFields DEF GaitType
<1>3. Step(c, g) = IF leaves THEN EnterToStand(w) ELSE w
  BY DEF Step, StepWalk
<1> HIDE DEF a
<1>4. /\ s \in GaitType /\ s.mode = "walk" /\ s.waited = g.waited
      /\ s.elapsed = a.elapsed /\ s.cmd = a.cmd
      /\ g.stop # "none" => s.stop # "none"
      /\ s.elapsed >= WalkTicks => s.stop # "none"
      /\ s.stop # g.stop => s.elapsed >= WalkTicks
  BY <1>2 DEF RequestStop, Pending, GaitType, Modes, Reasons
<1> HIDE DEF s
<1>5. /\ w \in GaitType /\ w.mode = "walk" /\ w.elapsed = s.elapsed /\ w.cmd = a.cmd
      /\ w.stop = s.stop
      /\ w.waited = IF s.stop # "none" THEN g.waited + 1 ELSE g.waited
  BY <1>1, <1>4 DEF Pending, GaitType
<1> HIDE DEF w
\* A cycle that ends with a stop pending has slewed toward zero.
<1>6. w.stop # "none" => w.cmd = 0 \/ w.cmd + w.waited <= CmdRampTicks
  <2>1. SUFFICES ASSUME w.stop # "none"
                 PROVE  w.cmd = 0 \/ w.cmd + w.waited <= CmdRampTicks
    OBVIOUS
  <2>2. WantedCommand(c, g) = 0
    <3>1. CASE g.stop # "none"
      BY <3>1 DEF WantedCommand, Pending
    <3>2. CASE g.stop = "none"
      <4>1. WalkTicks - g.elapsed <= CmdRampTicks
        BY <1>1, <1>2, <1>4, <1>5, <2>1, <3>2, GaitAssumption
      <4>2. ~(WalkTicks - g.elapsed > CmdRampTicks)
        BY <1>1, <4>1, GaitAssumption
      <4>3. QED  BY <4>2 DEF WantedCommand
    <3>3. QED  BY <3>1, <3>2
  <2>3. w.cmd = IF g.cmd = 0 THEN 0 ELSE g.cmd - 1
    BY <1>1, <1>2, <1>5, <2>2, SlewDown
  <2>4. QED  BY <1>1, <1>5, <2>1, <2>3, GaitAssumption
<1>7. w.elapsed < WalkTicks + w.waited
  BY <1>1, <1>2, <1>4, <1>5, GaitAssumption
<1>8. w.waited \in Nat /\ w.cmd \in 0 .. CmdRampTicks /\ w.elapsed \in Nat
  BY <1>5 DEF GaitType
<1>9. /\ w.waited <= StopTicks
      /\ GoneFor(w, n) = CrouchTicks + Most(1, SettleTicks) + w.elapsed
      /\ PendedFor(w, p) = w.waited
  BY <1>1, <1>2, <1>4, <1>5, TicksTyped, GaitAssumption DEF PendedFor, GoneFor, Pending
<1>10. CASE leaves
  <2> DEFINE b == EnterToStand(w)
  <2>1. /\ b \in GaitType /\ b.mode = "to_stand" /\ b.elapsed = 0
        /\ b.stop = w.stop /\ b.waited = w.waited /\ b.cmd = w.cmd
    BY <1>5, EnterToStandFields
  <2>2. Step(c, g) = b  BY <1>3, <1>10
  <2>3. w.stop # "none" /\ w.cmd = 0  BY <1>10 DEF Pending
  <2> HIDE DEF b
  <2>4. PendedFor(b, p) = PendedFor(w, p) /\ GoneFor(b, n) = GoneFor(w, n)
    BY <1>5, <2>1 DEF PendedFor, GoneFor, Pending
  <2>5. Clocks(b, PendedFor(b, p), GoneFor(b, n))
    BY <1>7, <1>8, <1>9, <2>1, <2>3, <2>4, TicksTyped, GaitAssumption
    DEF Clocks, AwayTicks
  <2>6. Still(c, b)  BY <2>1, <2>3 DEF Still
  <2>7. QED  BY <2>1, <2>2, <2>5, <2>6 DEF Good
<1>11. CASE ~leaves
  <2>1. Step(c, g) = w  BY <1>3, <1>11
  <2>2. w.waited < StopTicks
    <3>1. CASE w.stop = "none"
      BY <1>1, <1>4, <1>5, <3>1
    <3>2. CASE w.stop # "none"
      <4>1. w.cmd # 0 \/ w.waited < MaxStopWait
        BY <1>8, <1>11, <3>2, GaitAssumption DEF Pending
      <4>2. QED
        BY <1>6, <1>8, <1>9, <3>2, <4>1, TicksTyped, GaitAssumption
    <3>3. QED  BY <3>1, <3>2
  <2>3. w.stop = "none" => w.waited = 0
    BY <1>1, <1>4, <1>5
  <2>4. w.cmd = 0 \/ w.cmd + w.waited <= CmdRampTicks
    BY <1>6, <1>8, <2>3, GaitAssumption
  <2>5. Clocks(w, PendedFor(w, p), GoneFor(w, n))
    BY <1>5, <1>7, <1>9, <2>2, <2>3, <2>4 DEF Clocks
  <2>6. Still(c, w)  BY <1>5 DEF Still
  <2>7. QED  BY <1>5, <2>1, <2>5, <2>6 DEF Good
<1>12. QED  BY <1>10, <1>11

LEMMA ToStandStep ==
  ASSUME NEW c \in Configs, NEW g, NEW p \in Nat, NEW n \in Nat,
         Good(c, g, p, n), g.mode = "to_stand"
  PROVE  Good(c, Step(c, g), PendedFor(Step(c, g), p), GoneFor(Step(c, g), n))
<1> DEFINE a == Advanced(c, g)
           b == [ a EXCEPT !.mode = "stand", !.elapsed = 0, !.exit = a.stop,
                           !.stop = "none", !.waited = 0, !.started = FALSE ]
<1>1. /\ g \in GaitType /\ g.cmd \in 0 .. CmdRampTicks /\ g.elapsed \in Nat
      /\ g.stop # "none" /\ g.elapsed < RecoverTicks /\ g.waited <= StopTicks
      /\ p <= StopTicks + g.elapsed
      /\ n < AwayTicks - RecoverTicks + g.elapsed
  BY DEF Good, GaitType, Clocks
<1>2. /\ a \in GaitType /\ a.mode = "to_stand" /\ a.stop = g.stop
      /\ a.waited = g.waited /\ a.elapsed = g.elapsed + 1
      /\ a.cmd = Slewed(g.cmd, WantedCommand(c, g))
  BY <1>1, AdvancedFields
<1>3. Still(c, a)
  <2>1. SUFFICES ASSUME ~c.duringCrouch \/ c.crouch # "blend_walk" PROVE a.cmd = 0
    BY DEF Still
  <2>2. g.cmd = 0  BY <2>1 DEF Good, Still
  <2>3. WantedCommand(c, g) = 0  BY DEF WantedCommand
  <2>4. QED  BY <1>1, <1>2, <2>2, <2>3, SlewDown
<1>4. Step(c, g) = IF a.elapsed < RecoverTicks THEN a ELSE b
  BY DEF Step, StepToStand
<1> HIDE DEF a
<1>5. CASE a.elapsed < RecoverTicks
  <2>1. Step(c, g) = a  BY <1>4, <1>5
  <2>2. PendedFor(a, p) = p + 1 /\ GoneFor(a, n) = n + 1
    BY <1>1, <1>2 DEF PendedFor, GoneFor, Pending
  <2>3. Clocks(a, PendedFor(a, p), GoneFor(a, n))
    BY <1>1, <1>2, <1>5, <2>2, TicksTyped, GaitAssumption DEF Clocks
  <2>4. QED  BY <1>2, <1>3, <2>1, <2>3 DEF Good
<1>6. CASE ~(a.elapsed < RecoverTicks)
  <2>1. /\ b \in GaitType /\ b.mode = "stand" /\ b.elapsed = 0 /\ b.stop = "none"
        /\ b.waited = 0 /\ ~b.started /\ b.cmd = a.cmd
    <3>1. "stand" \in Modes /\ a.stop \in Reasons \cup {"none"}
      BY <1>2 DEF Modes, GaitType
    <3>2. /\ b.mode = "stand" /\ b.elapsed = 0 /\ b.stop = "none"
          /\ b.waited = 0 /\ b.started = FALSE /\ b.cmd = a.cmd
      BY <1>2 DEF GaitType
    <3>3. b \in GaitType
      BY <1>2, <3>1 DEF GaitType
    <3>4. QED  BY <3>2, <3>3
  <2>2. Step(c, g) = b  BY <1>4, <1>6
  <2> HIDE DEF b
  <2>3. Clocks(b, PendedFor(b, p), GoneFor(b, n))
    BY <2>1 DEF Clocks, PendedFor, GoneFor, Pending
  <2>4. Still(c, b)  BY <1>2, <1>3, <2>1 DEF Still
  <2>5. QED  BY <2>1, <2>2, <2>3, <2>4 DEF Good
<1>7. QED  BY <1>5, <1>6

LEMMA StepGood ==
  ASSUME NEW c \in Configs, NEW g, NEW p \in Nat, NEW n \in Nat, Good(c, g, p, n)
  PROVE  Good(c, Step(c, g), PendedFor(Step(c, g), p), GoneFor(Step(c, g), n))
<1>1. g.mode \in Modes  BY DEF Good, GaitType
<1>2. QED
  BY <1>1, StandStep, CrouchStep, SettleStep, WalkStep, ToStandStep DEF Modes

LEMMA StepKeepsReason ==
  ASSUME NEW c \in Configs, NEW g \in GaitType, Pending(g), g.mode # "stand"
  PROVE  \/ Step(c, g).stop = g.stop
         \/ /\ Step(c, g).mode = "stand" /\ Step(c, g).exit = g.stop
            /\ ~Pending(Step(c, g))
<1> DEFINE a == Advanced(c, g)
<1>1. a \in GaitType /\ a.stop = g.stop /\ a.mode = g.mode  BY AdvancedFields
<1>2. Pending(a)  BY <1>1 DEF Pending
<1>3. Step(c, g) = CASE g.mode = "to_crouch" -> StepCrouch(a)
                     [] g.mode = "settle"    -> StepSettle(c, a)
                     [] g.mode = "walk"      -> StepWalk(c, a)
                     [] g.mode = "to_stand"  -> StepToStand(a)
                     [] OTHER                -> a
  BY DEF Step
<1> HIDE DEF a
<1>4. EnterToStand(a).stop = a.stop  BY <1>1, EnterToStandFields
<1>5. CASE g.mode \in {"to_crouch", "settle"}
  BY <1>1, <1>2, <1>3, <1>4, <1>5 DEF StepCrouch, StepSettle
<1>6. CASE g.mode = "walk"
  <2> DEFINE w == [a EXCEPT !.waited = @ + 1]
  <2>1. RequestStop(a, "duration") = a  BY <1>2 DEF RequestStop
  <2>2. w \in GaitType /\ w.stop = a.stop  BY <1>1 DEF GaitType
  <2>3. StepWalk(c, a) \in {w, EnterToStand(w)}
    BY <1>2, <2>1 DEF StepWalk
  <2> HIDE DEF w
  <2>4. EnterToStand(w).stop = w.stop  BY <2>2, EnterToStandFields
  <2>5. Step(c, g) = StepWalk(c, a)  BY <1>3, <1>6
  <2>6. QED  BY <1>1, <2>2, <2>3, <2>4, <2>5
<1>7. CASE g.mode = "to_stand"
  <2> DEFINE b == [ a EXCEPT !.mode = "stand", !.elapsed = 0, !.exit = a.stop,
                             !.stop = "none", !.waited = 0, !.started = FALSE ]
  <2>1. Step(c, g) \in {a, b}  BY <1>3, <1>7 DEF StepToStand
  <2>2. b.mode = "stand" /\ b.exit = a.stop /\ b.stop = "none"
    BY <1>1 DEF GaitType
  <2>3. QED  BY <1>1, <2>1, <2>2 DEF Pending
<1>8. QED  BY <1>5, <1>6, <1>7 DEF GaitType, Modes

\* With a stop pending, a step stays in its mode or moves towards STAND.
LEMMA StepTowardsStand ==
  ASSUME NEW c \in Configs, NEW g \in GaitType, Pending(g)
  PROVE  Step(c, g).mode \in {g.mode, "to_stand", "stand"}
<1> DEFINE a == Advanced(c, g)
<1>1. a \in GaitType /\ a.stop = g.stop /\ a.mode = g.mode  BY AdvancedFields
<1>2. Pending(a)  BY <1>1 DEF Pending
<1>3. Step(c, g) = CASE g.mode = "to_crouch" -> StepCrouch(a)
                     [] g.mode = "settle"    -> StepSettle(c, a)
                     [] g.mode = "walk"      -> StepWalk(c, a)
                     [] g.mode = "to_stand"  -> StepToStand(a)
                     [] OTHER                -> a
  BY DEF Step
<1> HIDE DEF a
<1>4. EnterToStand(a).mode = "to_stand"  BY <1>1, EnterToStandFields
<1>5. CASE g.mode \in {"to_crouch", "settle"}
  BY <1>1, <1>2, <1>3, <1>4, <1>5 DEF StepCrouch, StepSettle
<1>6. CASE g.mode = "walk"
  <2> DEFINE w == [a EXCEPT !.waited = @ + 1]
  <2>1. RequestStop(a, "duration") = a  BY <1>2 DEF RequestStop
  <2>2. w \in GaitType /\ w.mode = a.mode  BY <1>1 DEF GaitType
  <2>3. StepWalk(c, a) \in {w, EnterToStand(w)}
    BY <1>2, <2>1 DEF StepWalk
  <2> HIDE DEF w
  <2>4. EnterToStand(w).mode = "to_stand"  BY <2>2, EnterToStandFields
  <2>5. Step(c, g) = StepWalk(c, a)  BY <1>3, <1>6
  <2>6. QED  BY <1>1, <2>2, <2>3, <2>4, <2>5
<1>7. CASE g.mode = "to_stand"
  <2> DEFINE b == [ a EXCEPT !.mode = "stand", !.elapsed = 0, !.exit = a.stop,
                             !.stop = "none", !.waited = 0, !.started = FALSE ]
  <2>1. Step(c, g) \in {a, b}  BY <1>3, <1>7 DEF StepToStand
  <2>2. b.mode = "stand"  BY <1>1 DEF GaitType
  <2>3. QED  BY <1>1, <2>1, <2>2
<1>8. CASE g.mode = "stand"  BY <1>1, <1>3, <1>8
<1>9. QED  BY <1>5, <1>6, <1>7, <1>8 DEF GaitType, Modes

(***************************************************************************)
(* The inductive invariant.                                                *)
(***************************************************************************)

SInv ==
  /\ cfg \in Offered
  /\ seq \in GaitType
  /\ pendingFor \in Nat /\ awayFor \in Nat
  /\ Clocks(seq, pendingFor, awayFor)
  /\ Still(cfg, seq)

LEMMA InitSInv == SeqInit => SInv
  BY InitGood DEF SeqInit, SInv, Good

LEMMA NextSInv == SInv /\ [SeqNext]_seqVars => SInv'
<1> SUFFICES ASSUME SInv, [SeqNext]_seqVars PROVE SInv'
  OBVIOUS
<1>0. /\ cfg \in Configs /\ cfg \in Offered /\ seq \in GaitType
      /\ pendingFor \in Nat /\ awayFor \in Nat
      /\ Good(cfg, seq, pendingFor, awayFor)
  BY OfferedAssumption DEF SInv, Good
<1>1. CASE WalkRequested
  <2>1. pendingFor = 0 /\ awayFor = 0
    BY <1>1 DEF SInv, Clocks, WalkRequested, MayWalk
  <2>2. QED  BY <1>0, <1>1, <2>1, RequestWalkGood DEF WalkRequested, SInv, Good
<1>2. ASSUME NEW r \in Reasons \ {"duration"}, StopRequested(r) PROVE SInv'
  BY <1>0, <1>2, RequestStopGood DEF StopRequested, SInv, Good
<1>3. CASE Cycle
  <2>1. Good(cfg, seq', pendingFor', awayFor')
    BY <1>0, <1>3, StepGood DEF Cycle, PendedFor, GoneFor
  <2>2. pendingFor' \in Nat /\ awayFor' \in Nat /\ cfg' = cfg
    BY <1>0, <1>3 DEF Cycle
  <2>3. QED  BY <1>0, <2>1, <2>2 DEF SInv, Good
<1>4. CASE UNCHANGED seqVars
  BY <1>4 DEF seqVars, SInv
<1>5. QED
  BY <1>1, <1>2, <1>3, <1>4 DEF SeqNext

LEMMA SeqInvariance == SeqSpec => []SInv
  BY InitSInv, NextSInv, PTL DEF SeqSpec

(***************************************************************************)
(* Theorems.                                                               *)
(***************************************************************************)

\* A stop that is asked for has the robot back under the standing policy within a
\* ramp or the maximal wait, and one recovery.
THEOREM StopIsBounded == SeqSpec => []StopsInTime
<1>1. SInv => StopsInTime
  <2> SUFFICES ASSUME SInv PROVE StopsInTime
    OBVIOUS
  <2>1. seq.mode \in Modes /\ seq.waited \in Nat /\ seq.elapsed \in Nat
    BY DEF SInv, GaitType
  <2>2. seq.mode = "stand" => ~Pending(seq) /\ pendingFor = 0
    BY DEF SInv, Clocks, Pending
  <2>3. pendingFor < StopTicks + RecoverTicks
    BY <2>1, TicksTyped, GaitAssumption DEF SInv, Clocks, Modes
  <2>4. QED  BY <2>2, <2>3 DEF StopsInTime
<1>2. QED  BY <1>1, SeqInvariance, PTL

\* With nobody asking, the robot stands again after a bounded number of cycles.
THEOREM WalkEnds == SeqSpec => []WalkIsBounded
<1>1. SInv => WalkIsBounded
  <2> SUFFICES ASSUME SInv PROVE WalkIsBounded
    OBVIOUS
  <2>1. seq.mode \in Modes /\ seq.waited \in Nat /\ seq.elapsed \in Nat
    BY DEF SInv, GaitType
  <2>2. awayFor < AwayTicks
    BY <2>1, TicksTyped, GaitAssumption DEF SInv, Clocks, Modes, AwayTicks
  <2>3. QED  BY <2>2 DEF WalkIsBounded
<1>2. QED  BY <1>1, SeqInvariance, PTL

\* Unless a velocity is asked for during the descent, the robot is at zero command
\* whenever it is handed back or standing.
THEOREM HandBackStandsStill == SeqSpec => []StandstillByDefault
<1>1. SInv => StandstillByDefault
  BY DEF SInv, Still, StandstillByDefault
<1>2. QED  BY <1>1, SeqInvariance, PTL

\* The first reason given for a stop is the one that ends up as last_exit.
THEOREM ReasonKept == SeqSpec => FirstReasonKept
<1>1. ASSUME SInv, SeqNext, Pending(seq)
      PROVE  \/ seq'.stop = seq.stop
             \/ seq'.mode = "stand" /\ seq'.exit = seq.stop /\ ~Pending(seq')
  <2>1. seq.mode # "stand"  BY <1>1 DEF SInv, Clocks, Pending
  <2>2. ~WalkRequested  BY <2>1 DEF WalkRequested, MayWalk
  <2>3. ASSUME NEW r \in Reasons \ {"duration"}, StopRequested(r)
        PROVE  seq'.stop = seq.stop
    BY <1>1, <2>3 DEF StopRequested, RequestStop
  <2>4. CASE Cycle
    BY <1>1, <2>1, <2>4, StepKeepsReason, OfferedAssumption DEF Cycle, SInv
  <2>5. QED  BY <1>1, <2>2, <2>3, <2>4 DEF SeqNext
<1>2. SInv /\ [SeqNext]_seqVars
        => [Pending(seq) =>
              \/ seq'.stop = seq.stop
              \/ seq'.mode = "stand" /\ seq'.exit = seq.stop /\ ~Pending(seq')]_seqVars
  BY <1>1
<1>3. QED  BY <1>2, SeqInvariance, PTL DEF SeqSpec, FirstReasonKept

\* After an open-loop descent the walking policy starts cold.
THEOREM StartsCold == SeqSpec => ColdStart
<1>1. ASSUME SInv, SeqNext, seq'.mode = "walk", seq.mode # "walk",
             cfg.crouch # "blend_walk"
      PROVE  /\ seq'.phase = 0 /\ seq'.cmd = 0 /\ walkAction' = "zero"
             /\ shares'.walk = 0
  <2> DEFINE a == Advanced(cfg, seq)
  <2>0. seq \in GaitType /\ cfg \in Configs
    BY <1>1, OfferedAssumption DEF SInv
  <2>1. ~WalkRequested
    <3>1. RequestWalk(seq).mode = "to_crouch"  BY DEF RequestWalk
    <3>2. QED  BY <1>1, <3>1 DEF WalkRequested
  <2>2. ASSUME NEW r \in Reasons \ {"duration"}, StopRequested(r) PROVE FALSE
    <3>1. RequestStop(seq, r).mode = seq.mode
      BY <2>0 DEF RequestStop, GaitType
    <3>2. QED  BY <1>1, <2>2, <3>1 DEF StopRequested
  <2>3. Cycle  BY <1>1, <2>1, <2>2 DEF SeqNext
  <2>4. /\ a \in GaitType /\ a.mode = seq.mode
        /\ a.cmd = Slewed(seq.cmd, WantedCommand(cfg, seq))
    BY <2>0, AdvancedFields
  <2>5. seq' = Step(cfg, seq) /\ shares' = Shares(cfg, seq)
    BY <2>3 DEF Cycle
  <2>6. seq.mode = "settle"
    <3>1. EnterToStand(a).mode = "to_stand"  BY <2>4, EnterToStandFields
    <3>2. CASE seq.mode = "to_crouch"
      <4>1. Step(cfg, seq) \in {EnterToStand(a), [a EXCEPT !.mode = "settle", !.elapsed = 0], a}
        BY <3>2 DEF Step, StepCrouch
      <4>2. [a EXCEPT !.mode = "settle", !.elapsed = 0].mode = "settle"
        BY <2>4 DEF GaitType
      <4>3. QED  BY <1>1, <2>4, <2>5, <3>1, <3>2, <4>1, <4>2
    <3>3. CASE seq.mode = "to_stand"
      <4> DEFINE b == [ a EXCEPT !.mode = "stand", !.elapsed = 0, !.exit = a.stop,
                                 !.stop = "none", !.waited = 0, !.started = FALSE ]
      <4>1. Step(cfg, seq) \in {a, b}  BY <3>3 DEF Step, StepToStand
      <4>2. b.mode = "stand"  BY <2>4 DEF GaitType
      <4>3. QED  BY <1>1, <2>4, <2>5, <3>3, <4>1, <4>2
    <3>4. CASE seq.mode = "stand"
      BY <1>1, <2>4, <2>5, <3>4 DEF Step
    <3>5. QED  BY <1>1, <2>0, <3>2, <3>3, <3>4 DEF GaitType, Modes
  <2>7. a.cmd = 0
    <3>1. seq.cmd = 0  BY <1>1, <2>6 DEF SInv, Still
    <3>2. WantedCommand(cfg, seq) = 0  BY <1>1, <2>6 DEF WantedCommand
    <3>3. seq.cmd \in 0 .. CmdRampTicks  BY <2>0 DEF GaitType
    <3>4. QED  BY <2>4, <3>1, <3>2, <3>3, SlewDown
  <2>8. walkAction' = "zero" /\ shares'.walk = 0
    <3>1. shares' = Mix(0, Whole - Descended(CrouchTicks), Descended(CrouchTicks))
      BY <1>1, <2>5, <2>6 DEF Shares, CrouchMix
    <3>2. WalkStarted(cfg, seq)  BY <1>1, <2>5, <2>6 DEF WalkStarted
    <3>3. QED  BY <2>3, <3>1, <3>2 DEF Cycle, Mix
  <2>9. Step(cfg, seq) = StepSettle(cfg, a)  BY <2>6 DEF Step
  <2> DEFINE b == [a EXCEPT !.mode = "walk", !.elapsed = 0, !.phase = 0, !.started = TRUE]
  <2>10. b.phase = 0 /\ b.cmd = a.cmd  BY <2>4 DEF GaitType
  <2> HIDE DEF a
  <2>11. StepSettle(cfg, a) \in {EnterToStand(a), a, b}  BY <1>1 DEF StepSettle
  <2>12. EnterToStand(a).mode = "to_stand"  BY <2>4, EnterToStandFields
  <2>13. QED  BY <1>1, <2>4, <2>5, <2>6, <2>7, <2>8, <2>9, <2>10, <2>11, <2>12
<1>2. SInv /\ [SeqNext]_seqVars
        => [(seq'.mode = "walk" /\ seq.mode # "walk" /\ cfg.crouch # "blend_walk")
              => /\ seq'.phase = 0 /\ seq'.cmd = 0 /\ walkAction' = "zero"
                 /\ shares'.walk = 0]_seqVars
  BY <1>1
<1>3. QED  BY <1>2, SeqInvariance, PTL DEF SeqSpec, ColdStart

(***************************************************************************)
(* What the target is made of.                                             *)
(***************************************************************************)

LEMMA ProductMonotone ==
  ASSUME NEW x \in Nat, NEW y \in Nat, NEW z \in Nat, x <= y
  PROVE  x * z \in Nat /\ y * z \in Nat /\ x * z <= y * z
OBVIOUS

LEMMA WholeNat ==
  /\ Whole \in Nat /\ Whole = CrouchTicks * RecoverTicks
  /\ Whole = RecoverTicks * CrouchTicks
BY GaitAssumption DEF Whole

\* A ramp to n * z in n even steps, e of them taken.
Ramped(n, z, e) == IF e < n THEN e * z ELSE n * z

LEMMA RampedPaces ==
  ASSUME NEW n \in Nat \ {0}, NEW z \in Nat, NEW e \in Nat
  PROVE  /\ Ramped(n, z, e) \in 0 .. n * z /\ Ramped(n, z, e + 1) \in 0 .. n * z
         /\ Ramped(n, z, e) <= Ramped(n, z, e + 1)
         /\ Ramped(n, z, e + 1) - Ramped(n, z, e) <= z
<1> DEFINE x == e * z
           w == n * z
<1>1. x \in Nat /\ w \in Nat /\ (e + 1) * z = x + z
  OBVIOUS
<1>2. e < n => x <= w
  BY ProductMonotone
<1>3. e + 1 < n => x + z <= w
  <2>1. e + 1 < n => (e + 1) * z <= n * z  BY ProductMonotone
  <2>2. QED  BY <1>1, <2>1
<1>4. ~(e + 1 < n) => w <= x + z
  <2>1. ~(e + 1 < n) => n * z <= (e + 1) * z  BY ProductMonotone
  <2>2. QED  BY <1>1, <2>1
<1>5. /\ Ramped(n, z, e) = IF e < n THEN x ELSE w
      /\ Ramped(n, z, e + 1) = IF e + 1 < n THEN x + z ELSE w
  BY <1>1 DEF Ramped
<1> HIDE DEF x, w
<1>6. QED  BY <1>1, <1>2, <1>3, <1>4, <1>5 DEF w

LEMMA DescentPaces ==
  ASSUME NEW e \in Nat
  PROVE  /\ Descended(e) \in 0 .. Whole /\ Descended(e + 1) \in 0 .. Whole
         /\ Descended(e) <= Descended(e + 1)
         /\ Descended(e + 1) - Descended(e) <= RecoverTicks
         /\ Descended(0) = 0 /\ Descended(CrouchTicks) = Whole
<1>1. \A n \in Nat : Descended(n) = Ramped(CrouchTicks, RecoverTicks, n)
  BY WholeNat DEF Descended, Ramped
<1>2. Descended(0) = 0 /\ Descended(CrouchTicks) = Whole
  BY GaitAssumption DEF Descended
<1>3. e + 1 \in Nat  OBVIOUS
<1>4. /\ Ramped(CrouchTicks, RecoverTicks, e) \in 0 .. Whole
      /\ Ramped(CrouchTicks, RecoverTicks, e + 1) \in 0 .. Whole
      /\ Ramped(CrouchTicks, RecoverTicks, e) <= Ramped(CrouchTicks, RecoverTicks, e + 1)
      /\ Ramped(CrouchTicks, RecoverTicks, e + 1) - Ramped(CrouchTicks, RecoverTicks, e)
           <= RecoverTicks
  <2>1. CrouchTicks \in Nat \ {0} /\ RecoverTicks \in Nat  BY GaitAssumption
  <2>2. Whole = CrouchTicks * RecoverTicks  BY WholeNat
  <2>3. QED  BY ONLY <2>1, <2>2, RampedPaces, e \in Nat
<1>5. QED  BY <1>1, <1>2, <1>3, <1>4

LEMMA RecoveryPaces ==
  ASSUME NEW e \in Nat
  PROVE  /\ Recovered(e) \in 0 .. Whole /\ Recovered(e + 1) \in 0 .. Whole
         /\ Recovered(e) <= Recovered(e + 1)
         /\ Recovered(e + 1) - Recovered(e) <= CrouchTicks
         /\ Recovered(0) = 0 /\ Recovered(RecoverTicks) = Whole
<1>1. \A n \in Nat : Recovered(n) = Ramped(RecoverTicks, CrouchTicks, n)
  BY WholeNat DEF Recovered, Ramped
<1>2. Recovered(0) = 0 /\ Recovered(RecoverTicks) = Whole
  BY GaitAssumption DEF Recovered
<1>3. e + 1 \in Nat  OBVIOUS
<1>4. /\ Ramped(RecoverTicks, CrouchTicks, e) \in 0 .. Whole
      /\ Ramped(RecoverTicks, CrouchTicks, e + 1) \in 0 .. Whole
      /\ Ramped(RecoverTicks, CrouchTicks, e) <= Ramped(RecoverTicks, CrouchTicks, e + 1)
      /\ Ramped(RecoverTicks, CrouchTicks, e + 1) - Ramped(RecoverTicks, CrouchTicks, e)
           <= CrouchTicks
  <2>1. RecoverTicks \in Nat \ {0} /\ CrouchTicks \in Nat  BY GaitAssumption
  <2>2. Whole = RecoverTicks * CrouchTicks  BY WholeNat
  <2>3. QED  BY ONLY <2>1, <2>2, RampedPaces, e \in Nat
<1>5. QED  BY <1>1, <1>2, <1>3, <1>4

LEMMA MixFields ==
  ASSUME NEW w, NEW s, NEW n
  PROVE  Mix(w, s, n).walk = w /\ Mix(w, s, n).stand = s /\ Mix(w, s, n).nominal = n
BY DEF Mix

LEMMA MixTyped ==
  ASSUME NEW w \in 0 .. Whole, NEW s \in 0 .. Whole, NEW n \in 0 .. Whole,
         w + s + n = Whole
  PROVE  Mix(w, s, n) \in Mixes
<1>1. Mix(w, s, n) = [p \in Parts |-> IF p = "walk" THEN w ELSE IF p = "stand" THEN s ELSE n]
  BY DEF Mix, Parts
<1>2. Mix(w, s, n) \in [Parts -> 0 .. Whole]  BY <1>1
<1>3. QED  BY <1>2, MixFields DEF Mixes

\* A mixture that has all of one part has nothing of the others.
LEMMA AllWalking ==
  ASSUME NEW m \in Mixes, m.walk >= Whole
  PROVE  m.walk = Whole /\ m.stand = 0 /\ m.nominal = 0
<1>1. m.walk \in 0 .. Whole /\ m.stand \in 0 .. Whole /\ m.nominal \in 0 .. Whole
  BY DEF Mixes, Parts
<1>2. QED  BY <1>1, WholeNat DEF Mixes

\* The mixtures lie pace apart, part by part, and the recovery only takes from the
\* walking policy and gives to the standing one.
Near(m, k, pace) == \A p \in Parts : Apart(m[p], k[p]) <= pace

LEMMA NearMix ==
  ASSUME NEW w, NEW s, NEW n, NEW x, NEW t, NEW o, NEW pace,
         Apart(w, x) <= pace, Apart(s, t) <= pace, Apart(n, o) <= pace
  PROVE  Near(Mix(w, s, n), Mix(x, t, o), pace)
<1> DEFINE m == Mix(w, s, n)
           k == Mix(x, t, o)
<1>1. /\ m["walk"] = w /\ m["stand"] = s /\ m["nominal"] = n
      /\ k["walk"] = x /\ k["stand"] = t /\ k["nominal"] = o
  BY DEF Mix
<1> HIDE DEF m, k
<1>2. \A p \in Parts : Apart(m[p], k[p]) <= pace
  BY <1>1, Zenon DEF Parts
<1>3. QED  BY <1>2 DEF Near, m, k

LEMMA CrouchMixes ==
  ASSUME NEW c, NEW e \in Nat
  PROVE  /\ CrouchMix(c, e) \in Mixes
         /\ Near(CrouchMix(c, e + 1), CrouchMix(c, e), RecoverTicks)
         /\ CrouchMix(c, 0) = Mix(0, Whole, 0)
         /\ c.crouch = "blend_walk" => CrouchMix(c, CrouchTicks) = Mix(Whole, 0, 0)
<1> DEFINE d == Descended(e)
           f == Descended(e + 1)
<1>1. /\ d \in 0 .. Whole /\ f \in 0 .. Whole /\ d <= f /\ f - d <= RecoverTicks
      /\ Descended(0) = 0 /\ Descended(CrouchTicks) = Whole
      /\ Whole \in Nat /\ RecoverTicks \in Nat
  BY DescentPaces, WholeNat, GaitAssumption
<1>2. /\ CrouchMix(c, e) = IF c.crouch = "blend_walk" THEN Mix(d, Whole - d, 0)
                           ELSE Mix(0, Whole - d, d)
      /\ CrouchMix(c, e + 1) = IF c.crouch = "blend_walk" THEN Mix(f, Whole - f, 0)
                               ELSE Mix(0, Whole - f, f)
  BY DEF CrouchMix
<1>3. /\ CrouchMix(c, 0) = Mix(0, Whole, 0)
      /\ c.crouch = "blend_walk" => CrouchMix(c, CrouchTicks) = Mix(Whole, 0, 0)
  BY <1>1 DEF CrouchMix
<1> HIDE DEF d, f
<1>4. CrouchMix(c, e) \in Mixes
  <2>1. Mix(d, Whole - d, 0) \in Mixes /\ Mix(0, Whole - d, d) \in Mixes
    BY <1>1, MixTyped
  <2>2. QED  BY <1>2, <2>1
<1>5. Near(CrouchMix(c, e + 1), CrouchMix(c, e), RecoverTicks)
  <2>1. /\ Apart(f, d) <= RecoverTicks /\ Apart(Whole - f, Whole - d) <= RecoverTicks
        /\ Apart(0, 0) <= RecoverTicks
    BY <1>1 DEF Apart
  <2>2. Near(Mix(f, Whole - f, 0), Mix(d, Whole - d, 0), RecoverTicks)
    BY <2>1, NearMix, Zenon
  <2>3. Near(Mix(0, Whole - f, f), Mix(0, Whole - d, d), RecoverTicks)
    BY <2>1, NearMix, Zenon
  <2>4. QED  BY <1>2, <2>2, <2>3
<1>6. QED  BY <1>3, <1>4, <1>5

\* The pace of a recovery in the style of c.
RecoverPace(c) == IF c.recover = "via_crouch" THEN 2 * CrouchTicks ELSE CrouchTicks

LEMMA RecoverMixes ==
  ASSUME NEW c, NEW e \in Nat
  PROVE  /\ RecoverMix(c, e) \in Mixes
         /\ Near(RecoverMix(c, e + 1), RecoverMix(c, e), RecoverPace(c))
         /\ RecoverMix(c, e + 1).walk <= RecoverMix(c, e).walk
         /\ RecoverMix(c, e + 1).stand >= RecoverMix(c, e).stand
         /\ RecoverMix(c, 0) = Mix(Whole, 0, 0)
         /\ RecoverMix(c, RecoverTicks) = Mix(0, Whole, 0)
<1> DEFINE r == Recovered(e)
           t == Recovered(e + 1)
           W == Whole
           C == CrouchTicks
           Half(x) == IF 2 * x < W THEN Mix(W - 2 * x, 0, 2 * x)
                      ELSE Mix(0, 2 * x - W, 2 * (W - x))
<1>1. /\ r \in 0 .. W /\ t \in 0 .. W /\ r <= t /\ t - r <= C
      /\ Recovered(0) = 0 /\ Recovered(RecoverTicks) = W
      /\ W \in Nat /\ C \in Nat
  BY RecoveryPaces, WholeNat, GaitAssumption
<1>2. /\ RecoverMix(c, e) = IF c.recover # "via_crouch" THEN Mix(W - r, r, 0) ELSE Half(r)
      /\ RecoverMix(c, e + 1) = IF c.recover # "via_crouch" THEN Mix(W - t, t, 0) ELSE Half(t)
  BY DEF RecoverMix
<1>3. /\ RecoverMix(c, 0) = Mix(W, 0, 0)
      /\ RecoverMix(c, RecoverTicks) = Mix(0, W, 0)
  <2>1. W > 0
    <3>1. CrouchTicks * RecoverTicks > 0  BY GaitAssumption
    <3>2. QED  BY <3>1, WholeNat
  <2>2. /\ RecoverMix(c, 0) = IF c.recover # "via_crouch" THEN Mix(W - 0, 0, 0)
                              ELSE IF 2 * 0 < W THEN Mix(W - 2 * 0, 0, 2 * 0)
                              ELSE Mix(0, 2 * 0 - W, 2 * (W - 0))
        /\ RecoverMix(c, RecoverTicks)
             = IF c.recover # "via_crouch" THEN Mix(W - W, W, 0)
               ELSE IF 2 * W < W THEN Mix(W - 2 * W, 0, 2 * W)
               ELSE Mix(0, 2 * W - W, 2 * (W - W))
    BY <1>1 DEF RecoverMix
  <2>3. /\ W - 0 = W /\ 2 * 0 = 0 /\ W - 2 * 0 = W /\ 2 * 0 < W
        /\ W - W = 0 /\ ~(2 * W < W) /\ 2 * W - W = W /\ 2 * (W - W) = 0
    BY <1>1, <2>1
  <2>4. QED  BY <2>2, <2>3
<1> HIDE DEF r, t, W, C
<1>4. RecoverMix(c, e) \in Mixes
  <2>1. W = Whole  BY DEF W
  <2>2. Mix(W - r, r, 0) \in Mixes
    <3>1. /\ W - r \in 0 .. W /\ 0 \in 0 .. W /\ W - r + r + 0 = W  BY <1>1
    <3>2. QED  BY <1>1, <2>1, <3>1, MixTyped
  <2>3. ASSUME 2 * r < W PROVE Mix(W - 2 * r, 0, 2 * r) \in Mixes
    <3>1. /\ W - 2 * r \in 0 .. W /\ 0 \in 0 .. W /\ 2 * r \in 0 .. W
          /\ (W - 2 * r) + 0 + 2 * r = W
      BY <1>1, <2>3
    <3>2. QED  BY <2>1, <3>1, MixTyped
  <2>4. ASSUME ~(2 * r < W) PROVE Mix(0, 2 * r - W, 2 * (W - r)) \in Mixes
    <3>1. /\ 2 * r - W \in 0 .. W /\ 0 \in 0 .. W /\ 2 * (W - r) \in 0 .. W
          /\ 0 + (2 * r - W) + 2 * (W - r) = W
      BY <1>1, <2>4
    <3>2. QED  BY <2>1, <3>1, MixTyped
  <2>5. QED  BY <1>2, <2>2, <2>3, <2>4
<1>5. CASE c.recover # "via_crouch"
  <2>1. RecoverPace(c) = C  BY <1>5 DEF RecoverPace, C
  <2>2. Apart(W - t, W - r) <= C /\ Apart(t, r) <= C /\ Apart(0, 0) <= C
    BY <1>1 DEF Apart
  <2>3. Near(Mix(W - t, t, 0), Mix(W - r, r, 0), C)
    BY <2>2, NearMix, Zenon
  <2>4. W - t <= W - r /\ t >= r  BY <1>1
  <2>5. RecoverMix(c, e) = Mix(W - r, r, 0) /\ RecoverMix(c, e + 1) = Mix(W - t, t, 0)
    BY <1>2, <1>5
  <2>6. /\ RecoverMix(c, e).walk = W - r /\ RecoverMix(c, e + 1).walk = W - t
        /\ RecoverMix(c, e).stand = r /\ RecoverMix(c, e + 1).stand = t
    BY <2>5, MixFields
  <2>7. QED  BY <1>3, <1>4, <2>1, <2>3, <2>4, <2>5, <2>6 DEF W
<1>6. CASE c.recover = "via_crouch"
  <2>1. RecoverPace(c) = 2 * C  BY <1>6 DEF RecoverPace, C
  <2>2. CASE 2 * t < W
    <3>1. 2 * r < W  BY <1>1, <2>2
    <3>2. /\ Apart(W - 2 * t, W - 2 * r) <= 2 * C /\ Apart(2 * t, 2 * r) <= 2 * C
          /\ Apart(0, 0) <= 2 * C /\ W - 2 * t <= W - 2 * r
      BY <1>1 DEF Apart
    <3>3. Near(Mix(W - 2 * t, 0, 2 * t), Mix(W - 2 * r, 0, 2 * r), 2 * C)
      BY <3>2, NearMix, Zenon
    <3>4. /\ RecoverMix(c, e) = Mix(W - 2 * r, 0, 2 * r)
          /\ RecoverMix(c, e + 1) = Mix(W - 2 * t, 0, 2 * t)
      BY <1>2, <1>6, <2>2, <3>1
    <3>5. /\ RecoverMix(c, e).walk = W - 2 * r /\ RecoverMix(c, e + 1).walk = W - 2 * t
          /\ RecoverMix(c, e).stand = 0 /\ RecoverMix(c, e + 1).stand = 0
      BY <3>4, MixFields
    <3>6. QED  BY <1>3, <1>4, <2>1, <3>2, <3>3, <3>4, <3>5 DEF W
  <2>3. CASE ~(2 * t < W) /\ 2 * r < W
    <3>1. /\ Apart(0, W - 2 * r) <= 2 * C /\ Apart(2 * t - W, 0) <= 2 * C
          /\ Apart(2 * (W - t), 2 * r) <= 2 * C
          /\ 0 <= W - 2 * r /\ 2 * t - W >= 0
      BY <1>1, <2>3 DEF Apart
    <3>2. Near(Mix(0, 2 * t - W, 2 * (W - t)), Mix(W - 2 * r, 0, 2 * r), 2 * C)
      BY <3>1, NearMix, Zenon
    <3>3. /\ RecoverMix(c, e) = Mix(W - 2 * r, 0, 2 * r)
          /\ RecoverMix(c, e + 1) = Mix(0, 2 * t - W, 2 * (W - t))
      BY <1>2, <1>6, <2>3
    <3>4. /\ RecoverMix(c, e).walk = W - 2 * r /\ RecoverMix(c, e + 1).walk = 0
          /\ RecoverMix(c, e).stand = 0 /\ RecoverMix(c, e + 1).stand = 2 * t - W
      BY <3>3, MixFields
    <3>5. QED  BY <1>3, <1>4, <2>1, <3>1, <3>2, <3>3, <3>4 DEF W
  <2>4. CASE ~(2 * r < W)
    <3>1. ~(2 * t < W)  BY <1>1, <2>4
    <3>2. /\ Apart(2 * t - W, 2 * r - W) <= 2 * C /\ Apart(2 * (W - t), 2 * (W - r)) <= 2 * C
          /\ Apart(0, 0) <= 2 * C /\ 2 * t - W >= 2 * r - W
      BY <1>1 DEF Apart
    <3>3. Near(Mix(0, 2 * t - W, 2 * (W - t)), Mix(0, 2 * r - W, 2 * (W - r)), 2 * C)
      BY <3>2, NearMix, Zenon
    <3>4. /\ RecoverMix(c, e) = Mix(0, 2 * r - W, 2 * (W - r))
          /\ RecoverMix(c, e + 1) = Mix(0, 2 * t - W, 2 * (W - t))
      BY <1>2, <1>6, <2>4, <3>1
    <3>5. /\ RecoverMix(c, e).walk = 0 /\ RecoverMix(c, e + 1).walk = 0
          /\ RecoverMix(c, e).stand = 2 * r - W /\ RecoverMix(c, e + 1).stand = 2 * t - W
      BY <3>4, MixFields
    <3>6. QED  BY <1>3, <1>4, <2>1, <3>2, <3>3, <3>4, <3>5 DEF W
  <2>5. QED  BY <2>2, <2>3, <2>4
<1>7. QED  BY <1>5, <1>6

\* How a cycle moves on.
LEMMA StepMoves ==
  ASSUME NEW c \in Configs, NEW g \in GaitType
  PROVE  LET s == Step(c, g)
         IN  /\ g.mode = "stand" => s.mode = "stand"
             /\ g.mode = "to_crouch" =>
                  \/ s.mode = "to_crouch" /\ s.elapsed = g.elapsed + 1
                  \/ s.mode = "settle" /\ g.elapsed + 1 >= CrouchTicks
                  \/ s.mode = "to_stand" /\ s.elapsed = 0
             /\ g.mode = "settle" =>
                  \/ s.mode = "settle"
                  \/ s.mode = "walk" /\ s.elapsed = 0
                  \/ s.mode = "to_stand" /\ s.elapsed = 0
             /\ g.mode = "walk" =>
                  \/ s.mode = "walk" /\ s.elapsed > 0
                  \/ s.mode = "to_stand" /\ s.elapsed = 0
             /\ g.mode = "to_stand" =>
                  \/ s.mode = "to_stand" /\ s.elapsed = g.elapsed + 1
                  \/ s.mode = "stand" /\ g.elapsed + 1 >= RecoverTicks
<1> DEFINE a == Advanced(c, g)
<1>1. /\ a \in GaitType /\ a.mode = g.mode /\ g.elapsed \in Nat
      /\ a.elapsed = IF g.mode = "stand" THEN g.elapsed ELSE g.elapsed + 1
  BY AdvancedFields DEF GaitType
<1>2. EnterToStand(a).mode = "to_stand" /\ EnterToStand(a).elapsed = 0
  BY <1>1, EnterToStandFields
<1>3. Step(c, g) = CASE g.mode = "to_crouch" -> StepCrouch(a)
                     [] g.mode = "settle"    -> StepSettle(c, a)
                     [] g.mode = "walk"      -> StepWalk(c, a)
                     [] g.mode = "to_stand"  -> StepToStand(a)
                     [] OTHER                -> a
  BY DEF Step
<1> HIDE DEF a
<1>4. CASE g.mode = "stand"
  BY <1>1, <1>3, <1>4
<1>5. CASE g.mode = "to_crouch"
  <2> DEFINE b == [a EXCEPT !.mode = "settle", !.elapsed = 0]
  <2>1. b.mode = "settle"  BY <1>1 DEF GaitType
  <2>2. \/ Step(c, g) = EnterToStand(a)
        \/ Step(c, g) = b /\ a.elapsed >= CrouchTicks
        \/ Step(c, g) = a
    BY <1>3, <1>5 DEF StepCrouch
  <2> HIDE DEF b
  <2>3. QED  BY <1>1, <1>2, <1>5, <2>1, <2>2
<1>6. CASE g.mode = "settle"
  <2> DEFINE b1 == [a EXCEPT !.mode = "walk", !.elapsed = 0]
             b2 == [a EXCEPT !.mode = "walk", !.elapsed = 0, !.phase = 0, !.started = TRUE]
  <2>1. /\ b1.mode = "walk" /\ b1.elapsed = 0
        /\ b2.mode = "walk" /\ b2.elapsed = 0
    BY <1>1 DEF GaitType
  <2>2. Step(c, g) \in {EnterToStand(a), a, b1, b2}  BY <1>3, <1>6 DEF StepSettle
  <2> HIDE DEF b1, b2
  <2>3. QED  BY <1>1, <1>2, <1>6, <2>1, <2>2
<1>7. CASE g.mode = "walk"
  <2> DEFINE s == IF a.elapsed >= WalkTicks THEN RequestStop(a, "duration") ELSE a
             w == [s EXCEPT !.waited = IF Pending(s) THEN @ + 1 ELSE @]
  <2>1. s \in GaitType /\ s.mode = "walk" /\ s.elapsed = a.elapsed
    BY <1>1, <1>7 DEF RequestStop, GaitType, Reasons
  <2>2. w \in GaitType /\ w.mode = "walk" /\ w.elapsed = a.elapsed
    <3> HIDE DEF s
    <3>1. QED  BY <2>1 DEF GaitType
  <2>3. Step(c, g) \in {EnterToStand(w), w}  BY <1>3, <1>7 DEF StepWalk
  <2> HIDE DEF w
  <2>4. EnterToStand(w).mode = "to_stand" /\ EnterToStand(w).elapsed = 0
    BY <2>2, EnterToStandFields
  <2>5. QED  BY <1>1, <1>7, <2>2, <2>3, <2>4
<1>8. CASE g.mode = "to_stand"
  <2> DEFINE b == [ a EXCEPT !.mode = "stand", !.elapsed = 0, !.exit = a.stop,
                             !.stop = "none", !.waited = 0, !.started = FALSE ]
  <2>1. b.mode = "stand"  BY <1>1 DEF GaitType
  <2>2. Step(c, g) = a \/ (Step(c, g) = b /\ a.elapsed >= RecoverTicks)
    BY <1>1, <1>3, <1>8, GaitAssumption DEF StepToStand
  <2> HIDE DEF b
  <2>3. QED  BY <1>1, <1>8, <2>1, <2>2
<1>9. QED  BY <1>4, <1>5, <1>6, <1>7, <1>8

\* What the latest target of the sequencer g was made of, where that matters.
MixFits(c, g, m) ==
  /\ g.mode = "stand" => m = Mix(0, Whole, 0)
  /\ g.mode = "to_crouch" => m = CrouchMix(c, g.elapsed)
  /\ g.mode = "settle" => m = CrouchMix(c, CrouchTicks)
  /\ g.mode = "walk" => m = IF g.elapsed = 0 THEN CrouchMix(c, CrouchTicks)
                            ELSE Mix(Whole, 0, 0)
  /\ g.mode = "to_stand" /\ g.elapsed > 0 => m = RecoverMix(c, g.elapsed)

MInv ==
  /\ SInv
  /\ shares \in Mixes
  /\ walkAction \in {"zero", "own"}
  /\ MixFits(cfg, seq, shares)

LEMMA StandMix == Mix(0, Whole, 0) \in Mixes /\ Mix(Whole, 0, 0) \in Mixes
  BY WholeNat, MixTyped

LEMMA SharesTyped ==
  ASSUME NEW c, NEW g \in GaitType
  PROVE  Shares(c, g) \in Mixes
<1>1. g.elapsed + 1 \in Nat /\ CrouchTicks \in Nat
  BY GaitAssumption DEF GaitType
<1>2. /\ CrouchMix(c, g.elapsed + 1) \in Mixes /\ CrouchMix(c, CrouchTicks) \in Mixes
      /\ RecoverMix(c, g.elapsed + 1) \in Mixes
  BY <1>1, CrouchMixes, RecoverMixes
<1>3. QED  BY <1>2, StandMix DEF Shares

LEMMA SharesFit ==
  ASSUME NEW c \in Configs, NEW g \in GaitType
  PROVE  MixFits(c, Step(c, g), Shares(c, g))
<1> DEFINE s == Step(c, g)
<1>0. g.elapsed \in Nat /\ g.mode \in Modes  BY DEF GaitType
<1>1. /\ g.mode = "stand" => s.mode = "stand"
      /\ g.mode = "to_crouch" =>
           \/ s.mode = "to_crouch" /\ s.elapsed = g.elapsed + 1
           \/ s.mode = "settle" /\ g.elapsed + 1 >= CrouchTicks
           \/ s.mode = "to_stand" /\ s.elapsed = 0
      /\ g.mode = "settle" =>
           \/ s.mode = "settle"
           \/ s.mode = "walk" /\ s.elapsed = 0
           \/ s.mode = "to_stand" /\ s.elapsed = 0
      /\ g.mode = "walk" =>
           \/ s.mode = "walk" /\ s.elapsed > 0
           \/ s.mode = "to_stand" /\ s.elapsed = 0
      /\ g.mode = "to_stand" =>
           \/ s.mode = "to_stand" /\ s.elapsed = g.elapsed + 1
           \/ s.mode = "stand" /\ g.elapsed + 1 >= RecoverTicks
  BY StepMoves, Zenon
<1> SUFFICES MixFits(c, s, Shares(c, g))
  OBVIOUS
<1> HIDE DEF s
<1>2. CASE g.mode = "stand"
  BY <1>1, <1>2 DEF MixFits, Shares
<1>3. CASE g.mode = "to_crouch"
  <2>1. Shares(c, g) = CrouchMix(c, g.elapsed + 1)  BY <1>3 DEF Shares
  <2>2. g.elapsed + 1 >= CrouchTicks => CrouchMix(c, g.elapsed + 1) = CrouchMix(c, CrouchTicks)
    BY <1>0, GaitAssumption DEF CrouchMix, Descended
  <2>3. QED  BY <1>1, <1>3, <2>1, <2>2 DEF MixFits
<1>4. CASE g.mode = "settle"
  BY <1>1, <1>4 DEF MixFits, Shares
<1>5. CASE g.mode = "walk"
  BY <1>1, <1>5 DEF MixFits, Shares
<1>6. CASE g.mode = "to_stand"
  <2>1. Shares(c, g) = RecoverMix(c, g.elapsed + 1)  BY <1>6 DEF Shares
  <2>2. g.elapsed + 1 >= RecoverTicks => RecoverMix(c, g.elapsed + 1) = RecoverMix(c, RecoverTicks)
    BY <1>0, GaitAssumption DEF RecoverMix, Recovered
  <2>3. RecoverMix(c, RecoverTicks) = Mix(0, Whole, 0)  BY RecoverMixes
  <2>4. QED  BY <1>1, <1>6, <2>1, <2>2, <2>3 DEF MixFits
<1>7. QED  BY <1>0, <1>2, <1>3, <1>4, <1>5, <1>6 DEF Modes

LEMMA MixInvariance == SeqSpec => []MInv
<1>1. SeqInit => MInv
  <2> SUFFICES ASSUME SeqInit PROVE MInv
    OBVIOUS
  <2>1. shares = Mix(0, Whole, 0) /\ seq.mode = "stand" /\ walkAction = "zero"
    BY DEF SeqInit, InitGait
  <2>2. QED  BY <2>1, InitSInv, StandMix DEF MInv, MixFits
<1>2. MInv /\ [SeqNext]_seqVars => MInv'
  <2> SUFFICES ASSUME MInv, [SeqNext]_seqVars PROVE MInv'
    OBVIOUS
  <2>0. SInv' /\ seq \in GaitType /\ cfg \in Configs
    BY NextSInv, OfferedAssumption DEF MInv, SInv
  <2>1. CASE WalkRequested
    <3>1. RequestWalk(seq).mode = "to_crouch" /\ RequestWalk(seq).elapsed = 0
      BY DEF RequestWalk
    <3>2. shares = CrouchMix(cfg, 0)
      BY <2>1, CrouchMixes DEF WalkRequested, MayWalk, MInv, MixFits
    <3>3. QED  BY <2>0, <2>1, <3>1, <3>2 DEF WalkRequested, MInv, MixFits
  <2>2. ASSUME NEW r \in Reasons \ {"duration"}, StopRequested(r) PROVE MInv'
    <3>1. /\ RequestStop(seq, r).mode = seq.mode
          /\ RequestStop(seq, r).elapsed = seq.elapsed
      BY <2>0 DEF RequestStop, GaitType
    <3>2. QED  BY <2>0, <2>2, <3>1 DEF StopRequested, MInv, MixFits
  <2>3. CASE Cycle
    <3>1. seq' = Step(cfg, seq) /\ shares' = Shares(cfg, seq) /\ cfg' = cfg
      BY <2>3 DEF Cycle
    <3>2. walkAction' \in {"zero", "own"}  BY <2>3 DEF Cycle, MInv
    <3>3. MixFits(cfg', seq', shares')  BY <2>0, <3>1, SharesFit
    <3>4. shares' \in Mixes  BY <2>0, <3>1, SharesTyped
    <3>5. QED  BY <2>0, <3>2, <3>3, <3>4 DEF MInv
  <2>4. CASE UNCHANGED seqVars
    BY <2>0, <2>4 DEF seqVars, MInv, MixFits
  <2>5. QED  BY <2>1, <2>2, <2>3, <2>4 DEF SeqNext
<1>3. QED  BY <1>1, <1>2, PTL DEF SeqSpec

\* The sequencer's attributes keep their types, and its clocks their bounds.
THEOREM SequencerTypeCorrect == SeqSpec => []SeqTypeOK
<1>1. MInv => SeqTypeOK
  <2> SUFFICES ASSUME MInv PROVE SeqTypeOK
    OBVIOUS
  <2>0. seq \in GaitType /\ Clocks(seq, pendingFor, awayFor)
    BY DEF MInv, SInv
  <2>1. /\ seq.mode \in Modes /\ seq.elapsed \in Nat /\ seq.waited \in Nat
    BY <2>0 DEF GaitType
  <2>2. seq.waited \in 0 .. StopTicks
    BY <2>0, <2>1, TicksTyped DEF Clocks, Modes
  <2>3. seq.elapsed \in 0 .. AwayTicks
    BY <2>0, <2>1, TicksTyped, GaitAssumption DEF Clocks, Modes, AwayTicks
  <2>4. seq \in [ mode : Modes, elapsed : 0 .. AwayTicks, phase : Phases,
                   cmd : 0 .. CmdRampTicks, stop : Reasons \cup {"none"},
                   waited : 0 .. StopTicks, started : BOOLEAN,
                   exit : Reasons \cup {"none"} ]
    BY <2>0, <2>2, <2>3 DEF GaitType
  <2>5. QED  BY <2>4 DEF MInv, SInv, SeqTypeOK
<1>2. QED  BY <1>1, MixInvariance, PTL

\* In every style the target passes from one controller to the next without a jump,
\* but for the cold start and a recovery that begins in the descent.
THEOREM HandOversFade == SeqSpec => HandOversAreGradual
<1>1. ASSUME MInv, Cycle, ~ColdHandOver, ~AbandonsDescent
      PROVE  /\ Near(shares', shares, Pace)
             /\ seq.mode = "to_stand" =>
                  shares'.walk <= shares.walk /\ shares'.stand >= shares.stand
  <2>0. /\ seq \in GaitType /\ cfg \in Configs /\ seq.elapsed \in Nat
        /\ seq.mode \in Modes /\ shares' = Shares(cfg, seq)
        /\ shares \in Mixes /\ shares.walk \in Nat /\ Whole \in Nat
    BY <1>1, OfferedAssumption, WholeNat DEF MInv, SInv, GaitType, Cycle, Mixes, Parts
  <2>1. Near(shares, shares, 0)
    <3>1. \A p \in Parts : shares[p] \in Nat  BY <2>0 DEF Mixes
    <3>2. QED  BY <3>1 DEF Near, Apart
  <2>2. CASE seq.mode = "stand" \/ seq.mode = "settle"
    <3>1. shares' = shares  BY <1>1, <2>0, <2>2 DEF MInv, MixFits, Shares
    <3>2. Pace = 0  BY <2>2 DEF Pace
    <3>3. QED  BY <2>1, <2>2, <3>1, <3>2
  <2>3. CASE seq.mode = "walk"
    <3>1. seq.elapsed = 0 => CrouchMix(cfg, CrouchTicks) = Mix(Whole, 0, 0)
      BY <1>1, <2>3, CrouchMixes DEF ColdHandOver
    <3>2. shares' = shares  BY <1>1, <2>0, <2>3, <3>1 DEF MInv, MixFits, Shares
    <3>3. Pace = 0  BY <2>3 DEF Pace
    <3>4. QED  BY <2>1, <2>3, <3>2, <3>3
  <2>4. CASE seq.mode = "to_crouch"
    <3>1. shares = CrouchMix(cfg, seq.elapsed) /\ shares' = CrouchMix(cfg, seq.elapsed + 1)
      BY <1>1, <2>0, <2>4 DEF MInv, MixFits, Shares
    <3>2. Pace = RecoverTicks  BY <2>4 DEF Pace
    <3>3. QED  BY <2>0, <2>4, <3>1, <3>2, CrouchMixes
  <2>5. CASE seq.mode = "to_stand"
    <3>1. shares = RecoverMix(cfg, seq.elapsed)
      <4>1. CASE seq.elapsed > 0
        BY <1>1, <2>5, <4>1 DEF MInv, MixFits
      <4>2. CASE seq.elapsed = 0
        <5>1. shares.walk >= Whole  BY <1>1, <2>0, <2>5, <4>2 DEF AbandonsDescent
        <5>2. shares.walk = Whole /\ shares.stand = 0 /\ shares.nominal = 0
          BY <2>0, <5>1, AllWalking
        <5>3. shares = [p \in Parts |-> shares[p]]  BY <2>0 DEF Mixes
        <5>4. shares = Mix(Whole, 0, 0)  BY <5>2, <5>3 DEF Mix, Parts
        <5>5. QED  BY <4>2, <5>4, RecoverMixes
      <4>3. QED  BY <2>0, <4>1, <4>2
    <3>2. shares' = RecoverMix(cfg, seq.elapsed + 1)  BY <2>0, <2>5 DEF Shares
    <3>3. Pace = RecoverPace(cfg)  BY <2>5 DEF Pace, RecoverPace
    <3>4. QED  BY <2>0, <3>1, <3>2, <3>3, RecoverMixes
  <2>6. QED  BY <2>0, <2>2, <2>3, <2>4, <2>5 DEF Modes
<1>2. ASSUME MInv, UNCHANGED shares
      PROVE  /\ Near(shares', shares, Pace)
             /\ shares'.walk <= shares.walk /\ shares'.stand >= shares.stand
  <2>1. /\ \A p \in Parts : shares[p] \in Nat
        /\ shares.walk \in Nat /\ shares.stand \in Nat
    BY <1>2 DEF MInv, Mixes, Parts
  <2>2. Pace \in Nat  BY GaitAssumption DEF Pace
  <2>3. QED  BY <1>2, <2>1, <2>2 DEF Near, Apart
<1>3. MInv /\ [SeqNext]_seqVars
        => [ColdHandOver \/ AbandonsDescent \/
              /\ \A p \in Parts : Apart(shares'[p], shares[p]) <= Pace
              /\ seq.mode = "to_stand" => /\ shares'.walk <= shares.walk
                                          /\ shares'.stand >= shares.stand]_seqVars
  BY <1>1, <1>2 DEF SeqNext, WalkRequested, StopRequested, Near
<1>4. QED  BY <1>3, MixInvariance, PTL DEF SeqSpec, HandOversAreGradual

(***************************************************************************)
(* The walking process.                                                    *)
(***************************************************************************)

Waiting == IF joints THEN 1 ELSE 0

\* The sequencer's clocks read p and n, and p accounts for the time waited.
Covered(p, n) ==
  /\ Good(Style, gait, p, n)
  /\ interrupts = 1 /\ ~dropped /\ gait.mode # "stand" =>
       /\ Pending(gait)
       /\ lag = Grace + 1 \/ waited <= lag + p + Waiting

Local ==
  /\ pc \in {"spin", "granting", "check", "closing", "exited"}
  /\ interrupts \in {0, 1, 99}
  /\ waited \in 0 .. Grace + 1 /\ lag \in 0 .. Grace + 1
  /\ joints \in BOOLEAN /\ dropped \in BOOLEAN

WInv ==
  /\ Local
  /\ interrupts = 0 => waited = 0 /\ lag = 0
  /\ interrupts = 1 /\ gait.mode = "stand" => pc \in {"check", "closing", "exited"}
  /\ \E p, n \in Nat : Covered(p, n)

LEMMA GraceNat == Grace \in Nat
  BY GaitAssumption, ProcessAssumption DEF Grace

LEMMA CappedRange ==
  ASSUME NEW k \in Nat, NEW x \in 0 .. k
  PROVE  /\ Capped(x, k) \in 0 .. k
         /\ Capped(x, k) >= x /\ Capped(x, k) <= x + 1
         /\ Capped(x, k) = k \/ Capped(x, k) = x + 1
BY DEF Capped

LEMMA InitWInv == Init => WInv
<1> SUFFICES ASSUME Init PROVE WInv
  OBVIOUS
<1>1. Local
  <2>1. 0 \in 0 .. Grace + 1  BY GraceNat
  <2>2. QED  BY <2>1 DEF Init, Local
<1>2. Covered(0, 0)  BY InitGood DEF Init, Covered
<1>3. QED  BY <1>1, <1>2 DEF Init, WInv

\* A step that moves neither the sequencer nor what Covered compares.
LEMMA Quiet ==
  ASSUME WInv, UNCHANGED <<gait, joints, waited, lag, dropped>>,
         interrupts' = interrupts \/ interrupts' = 99,
         pc' \in {"spin", "granting", "check", "closing", "exited"},
         interrupts' = 1 /\ gait.mode = "stand" => pc' \in {"check", "closing", "exited"}
  PROVE  WInv'
<1>1. PICK p \in Nat, n \in Nat : Covered(p, n)  BY DEF WInv
<1>2. Covered(p, n)'  BY <1>1 DEF Covered, Waiting, WInv, Local, Grace
<1>3. Local'  BY DEF WInv, Local, Grace
<1>4. (interrupts = 0 => waited = 0 /\ lag = 0)'  BY DEF WInv
<1>5. QED  BY <1>2, <1>3, <1>4 DEF WInv

LEMMA ControlCycleWInv == WInv /\ ControlCycle => WInv'
<1> SUFFICES ASSUME WInv, ControlCycle PROVE WInv'
  OBVIOUS
<1>1. PICK p \in Nat, n \in Nat : Covered(p, n)  BY DEF WInv
<1>2. PICK read \in BOOLEAN : joints' = (joints \/ read) /\ Passes(~read \/ joints)
  BY DEF ControlCycle
<1>3. /\ pc = "spin" /\ pc' = "check" /\ interrupts' = interrupts /\ gait' = gait
      /\ dropped' = dropped
  BY <1>2 DEF ControlCycle, Spins, walker, Passes
<1>4. /\ waited \in 0 .. Grace + 1 /\ lag \in 0 .. Grace + 1 /\ joints \in BOOLEAN
      /\ Grace + 1 \in Nat /\ Grace \in Nat
  BY GraceNat DEF WInv, Local
<1>5. /\ Capped(waited, Grace + 1) \in 0 .. Grace + 1
      /\ Capped(waited, Grace + 1) <= waited + 1
      /\ Capped(lag, Grace + 1) \in 0 .. Grace + 1
      /\ Capped(lag, Grace + 1) = Grace + 1 \/ Capped(lag, Grace + 1) = lag + 1
  BY <1>4, CappedRange
<1>6. /\ interrupts # 1 => waited' = waited /\ lag' = lag
      /\ interrupts = 1 => waited' = Capped(waited, Grace + 1)
      /\ interrupts = 1 /\ (~read \/ joints) => lag' = Capped(lag, Grace + 1)
      /\ ~(~read \/ joints) => lag' = lag
  BY <1>2 DEF Passes
<1>7. joints' \in BOOLEAN  BY <1>2, <1>4
<1>8. waited' \in 0 .. Grace + 1 /\ lag' \in 0 .. Grace + 1
  BY <1>4, <1>5, <1>6
<1>9. Local'  BY <1>3, <1>7, <1>8 DEF WInv, Local, Grace
<1>10. Covered(p, n)'
  <2>1. (Good(Style, gait, p, n))'  BY <1>1, <1>3 DEF Covered
  <2>2. ASSUME interrupts = 1, ~dropped, gait.mode # "stand"
        PROVE  Pending(gait) /\ (lag' = Grace + 1 \/ waited' <= lag' + p + Waiting')
    <3>1. Pending(gait) /\ (lag = Grace + 1 \/ waited <= lag + p + Waiting)
      BY <1>1, <2>2 DEF Covered
    <3>2. CASE ~read \/ joints
      <4>1. joints => joints'  BY <1>2
      <4>2. lag' = Grace + 1 \/ lag' = lag + 1  BY <1>5, <1>6, <2>2, <3>2
      <4>3. waited' <= waited + 1  BY <1>5, <1>6, <2>2
      <4>4. lag = Grace + 1 => lag' = Grace + 1  BY <1>4, <1>8, <4>2
      <4>5. lag' = Grace + 1 \/ waited' <= lag' + p + Waiting'
        <5>1. CASE lag' = Grace + 1  BY <5>1
        <5>2. CASE lag' # Grace + 1
          <6>1. lag' = lag + 1 /\ waited <= lag + p + Waiting
            BY <3>1, <4>2, <4>4, <5>2
          <6>2. lag \in Nat /\ waited \in Nat /\ waited' \in Nat  BY <1>4, <1>8
          <6>3. QED  BY <4>1, <4>3, <6>1, <6>2 DEF Waiting
        <5>3. QED  BY <5>1, <5>2
      <4>6. QED  BY <3>1, <4>5
    <3>3. CASE ~(~read \/ joints)
      <4>1. Waiting = 0 /\ Waiting' = 1  BY <1>2, <3>3 DEF Waiting
      <4>2. lag' = lag /\ waited' <= waited + 1  BY <1>5, <1>6, <2>2, <3>3
      <4>3. QED  BY <1>4, <1>8, <3>1, <4>1, <4>2
    <3>4. QED  BY <3>2, <3>3
  <2>3. QED  BY <1>3, <2>1, <2>2 DEF Covered, Grace
<1>11. (interrupts = 0 => waited = 0 /\ lag = 0)'
  BY <1>3, <1>6 DEF WInv
<1>12. QED  BY <1>3, <1>9, <1>10, <1>11 DEF WInv

\* The sequencer's step, with a stop pending or not.
LEMMA OnJointsWInv == WInv /\ OnJoints => WInv'
<1> SUFFICES ASSUME WInv, OnJoints PROVE WInv'
  OBVIOUS
<1> DEFINE g == GuardTilt(gait, tilt')
<1>1. PICK p \in Nat, n \in Nat : Covered(p, n)  BY DEF WInv
<1>2. /\ pc = "spin" /\ pc' = "check" /\ interrupts' = interrupts
      /\ joints = TRUE /\ joints' = FALSE /\ gait' = Step(Style, g)
      /\ waited' = waited /\ lag' = lag /\ dropped' = dropped
  BY DEF OnJoints, Spins, clock, WInv, Local
<1>3. /\ Good(Style, g, p, n) /\ g.mode = gait.mode
      /\ Pending(gait) => Pending(g)
  BY <1>1, RequestStopGood DEF Covered, GuardTilt, Reasons
<1> HIDE DEF g
<1>4. Style \in Configs  BY ProcessAssumption
<1>5. PICK q \in Nat, m \in Nat :
        q = PendedFor(gait', p) /\ m = GoneFor(gait', n) /\ Good(Style, gait', q, m)
  <2>1. PendedFor(gait', p) \in Nat /\ GoneFor(gait', n) \in Nat
    BY DEF PendedFor, GoneFor
  <2>2. Good(Style, gait', PendedFor(gait', p), GoneFor(gait', n))
    BY <1>2, <1>3, <1>4, StepGood
  <2>3. QED  BY <2>1, <2>2
<1>6. ASSUME interrupts = 1, ~dropped, gait'.mode # "stand"
      PROVE  Pending(gait') /\ (lag = Grace + 1 \/ waited <= lag + q)
  <2>1. gait.mode # "stand"  BY <1>2, <1>6 DEF WInv
  <2>2. Pending(gait) /\ (lag = Grace + 1 \/ waited <= lag + p + 1)
    BY <1>1, <1>2, <1>6, <2>1 DEF Covered, Waiting
  <2>3. g \in GaitType  BY <1>3 DEF Good
  <2>4. Pending(gait')
    <3>1. gait'.stop = g.stop
      BY <1>2, <1>3, <1>4, <1>6, <2>1, <2>2, <2>3, StepKeepsReason
    <3>2. QED  BY <1>3, <2>2, <3>1 DEF Pending
  <2>5. q = p + 1  BY <1>5, <2>4 DEF PendedFor
  <2>6. waited \in Nat /\ lag \in Nat  BY GraceNat DEF WInv, Local
  <2>7. QED  BY <2>2, <2>4, <2>5, <2>6
<1>7. Covered(q, m)'
  <2>1. Waiting' = 0  BY <1>2 DEF Waiting
  <2>2. lag \in Nat  BY GraceNat DEF WInv, Local
  <2>3. waited <= lag + q => waited' <= lag' + q + Waiting'
    BY <1>2, <2>1, <2>2
  <2>4. QED  BY <1>2, <1>5, <1>6, <2>3 DEF Covered, Grace
<1>8. Local'  BY <1>2 DEF WInv, Local, Grace
<1>9. (interrupts = 0 => waited = 0 /\ lag = 0)'  BY <1>2 DEF WInv
<1>10. QED  BY <1>2, <1>7, <1>8, <1>9 DEF WInv

LEMMA OnJointsWithoutImuWInv == WInv /\ OnJointsWithoutImu => WInv'
<1> SUFFICES ASSUME WInv, OnJointsWithoutImu PROVE WInv'
  OBVIOUS
<1>1. PICK p \in Nat, n \in Nat : Covered(p, n)  BY DEF WInv
<1>2. /\ pc = "spin" /\ pc' = "check" /\ interrupts' = interrupts /\ gait' = gait
      /\ joints = TRUE /\ joints' = FALSE /\ waited' = waited /\ dropped' = dropped
      /\ lag' = IF interrupts = 1 THEN Capped(lag, Grace + 1) ELSE lag
  BY DEF OnJointsWithoutImu, Spins, walker, WInv, Local
<1>3. /\ waited \in Nat /\ lag \in Nat /\ lag \in 0 .. Grace + 1
      /\ Grace \in Nat /\ Grace + 1 \in Nat
  BY GraceNat DEF WInv, Local
<1>4. /\ lag' \in 0 .. Grace + 1 /\ lag' \in Nat
      /\ interrupts = 1 => lag' = Grace + 1 \/ lag' = lag + 1
      /\ interrupts # 1 => lag' = lag
  <2>1. /\ Capped(lag, Grace + 1) \in 0 .. Grace + 1
        /\ Capped(lag, Grace + 1) = Grace + 1 \/ Capped(lag, Grace + 1) = lag + 1
    BY <1>3, CappedRange
  <2>2. Capped(lag, Grace + 1) \in Nat  BY <1>3, <2>1
  <2>3. QED  BY <1>2, <1>3, <2>1, <2>2
<1>5. Waiting = 1 /\ Waiting' = 0  BY <1>2 DEF Waiting
<1>6. ASSUME interrupts = 1, ~dropped, gait.mode # "stand"
      PROVE  Pending(gait) /\ (lag' = Grace + 1 \/ waited <= lag' + p + Waiting')
  <2>1. Pending(gait) /\ (lag = Grace + 1 \/ waited <= lag + p + Waiting)
    BY <1>1, <1>6 DEF Covered
  <2>2. CASE lag' = Grace + 1  BY <2>1, <2>2
  <2>3. CASE lag' # Grace + 1
    <3>1. lag' = lag + 1 /\ lag # Grace + 1  BY <1>3, <1>4, <1>6, <2>3
    <3>2. waited <= lag' + p + Waiting'  BY <1>3, <1>5, <2>1, <3>1
    <3>3. QED  BY <2>1, <3>2
  <2>4. QED  BY <2>2, <2>3
<1>7. Covered(p, n)'  BY <1>1, <1>2, <1>6 DEF Covered, Grace
<1>8. Local'  BY <1>2, <1>4 DEF WInv, Local, Grace
<1>9. (interrupts = 0 => waited = 0 /\ lag = 0)'  BY <1>2, <1>4 DEF WInv
<1>10. QED  BY <1>2, <1>7, <1>8, <1>9 DEF WInv

\* The walk service: the sequencer leaves STAND, and then its attributes are reset.
LEMMA WalkServiceWInv == WInv /\ (WalkService \/ WalkGranted) => WInv'
<1> SUFFICES ASSUME WInv, WalkService \/ WalkGranted PROVE WInv'
  OBVIOUS
<1>1. PICK p \in Nat, n \in Nat : Covered(p, n)  BY DEF WInv
<1>2. gait \in GaitType  BY <1>1 DEF Covered, Good
<1>3. CASE WalkService
  <2> DEFINE g == [gait EXCEPT !.mode = "to_crouch"]
  <2>1. /\ pc = "spin" /\ pc' = "granting" /\ gait.mode = "stand" /\ gait' = g
        /\ UNCHANGED <<interrupts, joints, waited, lag, dropped>>
    BY <1>3 DEF WalkService, MayWalk, topics, clock
  <2>2. interrupts # 1  BY <2>1 DEF WInv
  <2>3. /\ g \in GaitType /\ g.mode = "to_crouch" /\ g.stop = gait.stop
        /\ g.elapsed = gait.elapsed /\ g.waited = gait.waited /\ g.cmd = gait.cmd
        /\ g.started = gait.started
    BY <1>2 DEF GaitType, Modes
  <2> HIDE DEF g
  <2>4. Clocks(g, p, n)
    BY <1>1, <2>1, <2>3, GaitAssumption DEF Covered, Good, Clocks
  <2>5. Still(Style, g)  BY <1>1, <2>1, <2>3 DEF Covered, Good, Still
  <2>6. Covered(p, n)'  BY <2>1, <2>2, <2>3, <2>4, <2>5 DEF Covered, Good
  <2>7. Local'  BY <2>1 DEF WInv, Local, Grace
  <2>8. (interrupts = 0 => waited = 0 /\ lag = 0)'  BY <2>1 DEF WInv
  <2>9. QED  BY <2>1, <2>2, <2>6, <2>7, <2>8 DEF WInv
<1>4. CASE WalkGranted
  <2>1. /\ pc = "granting" /\ pc' = "check" /\ gait' = RequestWalk(gait)
        /\ dropped' = (dropped \/ (interrupts = 1 /\ Pending(gait)))
        /\ UNCHANGED <<interrupts, joints, waited, lag>>
    BY <1>4 DEF WalkGranted, topics
  <2>2. Good(Style, gait', 0, 0)  BY <1>2, <2>1, RequestWalkGood
  <2>3. interrupts = 1 => dropped'
    BY <1>1, <2>1 DEF WInv, Covered
  <2>4. Covered(0, 0)'  BY <2>1, <2>2, <2>3 DEF Covered
  <2>5. Local'  BY <2>1 DEF WInv, Local, Grace
  <2>6. (interrupts = 0 => waited = 0 /\ lag = 0)'  BY <2>1 DEF WInv
  <2>7. 0 \in Nat  OBVIOUS
  <2>8. QED  BY <2>1, <2>4, <2>5, <2>6, <2>7 DEF WInv
<1>5. QED  BY <1>3, <1>4

LEMMA StopServiceWInv == WInv /\ StopService => WInv'
<1> SUFFICES ASSUME WInv, StopService PROVE WInv'
  OBVIOUS
<1>1. PICK p \in Nat, n \in Nat : Covered(p, n)  BY DEF WInv
<1>2. /\ pc' = "check" /\ gait' = RequestStop(gait, "operator")
      /\ UNCHANGED <<interrupts, joints, waited, lag, dropped>>
  BY DEF StopService, Spins, topics, clock
<1>3. /\ Good(Style, gait', p, n) /\ gait'.mode = gait.mode
      /\ Pending(gait) => Pending(gait')
  BY <1>1, <1>2, RequestStopGood DEF Covered, Reasons
<1>4. Covered(p, n)'  BY <1>1, <1>2, <1>3 DEF Covered, Waiting, Grace
<1>5. Local'  BY <1>2 DEF WInv, Local, Grace
<1>6. (interrupts = 0 => waited = 0 /\ lag = 0)'  BY <1>2 DEF WInv
<1>7. QED  BY <1>2, <1>4, <1>5, <1>6 DEF WInv

\* The first Ctrl-C of a walk starts the clock with the stop pending.
LEMMA OnSigintWInv == WInv /\ OnSigint => WInv'
<1> SUFFICES ASSUME WInv, OnSigint PROVE WInv'
  OBVIOUS
<1>1. CASE interrupts = 0 /\ ~Idle
  <2>1. PICK p \in Nat, n \in Nat : Covered(p, n)  BY DEF WInv
  <2>2. /\ interrupts' = 1 /\ gait' = RequestStop(gait, "ctrl-c")
        /\ UNCHANGED <<pc, joints, waited, lag, dropped>>
    BY <1>1 DEF OnSigint, topics, clock
  <2>3. gait.mode # "stand"  BY <1>1 DEF Idle
  <2>4. /\ Good(Style, gait', p, n) /\ gait'.mode = gait.mode /\ Pending(gait')
    BY <2>1, <2>2, <2>3, RequestStopGood DEF Covered, Reasons
  <2>5. waited' = 0 /\ lag' = 0  BY <1>1, <2>2 DEF WInv
  <2>6. waited' <= lag' + p + Waiting'
    BY <2>5 DEF Waiting
  <2>7. Covered(p, n)'  BY <2>2, <2>4, <2>6 DEF Covered, Grace
  <2>8. Local'  BY <2>2 DEF WInv, Local, Grace
  <2>9. QED  BY <2>2, <2>3, <2>4, <2>7, <2>8 DEF WInv
<1>2. CASE ~(interrupts = 0 /\ ~Idle)
  <2>1. /\ interrupts' = 99 /\ pc \in {"spin", "granting", "check"}
        /\ UNCHANGED <<gait, pc, joints, waited, lag, dropped>>
    BY <1>2 DEF OnSigint, topics, clock
  <2>2. QED  BY <2>1, Quiet
<1>3. QED  BY <1>1, <1>2

LEMMA NextWInv == WInv /\ [Next]_vars => WInv'
<1> SUFFICES ASSUME WInv, [Next]_vars PROVE WInv'
  OBVIOUS
<1>1. CASE ServoServices \/ OnImu \/ OnServoStatus
  <2>1. /\ pc' = "check" /\ interrupts' = interrupts
        /\ UNCHANGED <<gait, joints, waited, lag, dropped>>
    BY <1>1 DEF ServoServices, OnImu, OnServoStatus, Spins, walker, clock, topics
  <2>2. QED  BY <2>1, Quiet
<1>2. CASE CallbackRaises \/ Close \/ KilledWhileClosing
  <2>1. /\ pc' \in {"closing", "exited"} /\ interrupts' \in {interrupts, 99}
        /\ UNCHANGED <<gait, joints, waited, lag, dropped>>
    BY <1>2 DEF CallbackRaises, Close, KilledWhileClosing, walker, clock, topics
  <2>2. QED  BY <2>1, Quiet
<1>3. CASE LoopCheck
  <2>1. /\ pc' \in {"closing", "spin"} /\ interrupts' = interrupts
        /\ interrupts = 1 /\ gait.mode = "stand" => pc' = "closing"
        /\ UNCHANGED <<gait, joints, waited, lag, dropped>>
    BY <1>3 DEF LoopCheck, Idle, walker, clock, topics
  <2>2. QED  BY <2>1, Quiet
<1>4. CASE UNCHANGED vars
  <2>1. UNCHANGED <<pc, interrupts, gait, joints, waited, lag, dropped>>
    BY <1>4 DEF vars, loop, walker, clock, topics
  <2>2. QED  BY <2>1, Quiet DEF WInv, Local
<1>5. QED
  BY <1>1, <1>2, <1>3, <1>4, ControlCycleWInv, OnJointsWInv, OnJointsWithoutImuWInv,
     WalkServiceWInv, StopServiceWInv, OnSigintWInv DEF Next

LEMMA WInvariance == Spec => []WInv
  BY InitWInv, NextWInv, PTL DEF Spec

(***************************************************************************)
(* Theorems.                                                               *)
(***************************************************************************)

\* main() gives up on a hand-back it was asked for only after the sequencer has
\* missed more steps than the grace period has to spare.
THEOREM GraceSuffices == Spec => []GraceCoversHandBack
<1>1. WInv => GraceCoversHandBack
  <2> SUFFICES ASSUME WInv, pc = "check", interrupts = 1, ~Idle, waited > Grace, ~dropped
               PROVE  lag > SpareTicks
    BY DEF GraceCoversHandBack
  <2>1. PICK p \in Nat, n \in Nat : Covered(p, n)  BY DEF WInv
  <2>2. Pending(gait) /\ (lag = Grace + 1 \/ waited <= lag + p + Waiting)
    BY <2>1 DEF Covered, Idle
  <2>3. /\ gait.mode \in {"to_crouch", "settle", "walk", "to_stand"}
        /\ gait.waited \in Nat /\ gait.elapsed \in Nat
    BY <2>1 DEF Covered, Good, GaitType, Modes, Idle
  <2>4. p <= StopTicks + RecoverTicks - 1
    BY <2>1, <2>3, TicksTyped, GaitAssumption DEF Covered, Good, Clocks
  <2>5. waited \in Nat /\ lag \in Nat  BY GraceNat DEF WInv, Local
  <2>6. lag = Grace + 1 \/ waited <= lag + p + 1
    BY <2>2, <2>5 DEF Waiting
  <2>7. QED
    BY <2>4, <2>5, <2>6, TicksTyped, GaitAssumption, ProcessAssumption
    DEF Grace, SpareTicks
<1>2. QED  BY <1>1, WInvariance, PTL

\* From the first Ctrl-C on, the sequencer only moves towards STAND.
THEOREM CtrlCNeverWalks == Spec => NoWalkAfterCtrlC
<1>1. ASSUME WInv, Next, interrupts = 1, interrupts' = 1, ~dropped'
      PROVE  gait'.mode \in {gait.mode, "to_stand", "stand"}
  <2>1. PICK p \in Nat, n \in Nat : Covered(p, n)  BY <1>1 DEF WInv
  <2>2. ~dropped
    BY <1>1 DEF Next, ControlCycle, Passes, ServoServices, OnImu, OnServoStatus, OnJoints,
       OnJointsWithoutImu, WalkService, WalkGranted, StopService, CallbackRaises,
       OnSigint, LoopCheck, Close, KilledWhileClosing, clock
  <2>3. pc \in {"spin", "granting"} => gait.mode # "stand"  BY <1>1 DEF WInv
  <2>4. gait.mode # "stand" => Pending(gait)  BY <1>1, <2>1, <2>2 DEF Covered
  <2>5. CASE OnJoints
    <3> DEFINE g == GuardTilt(gait, tilt')
    <3>1. gait' = Step(Style, g) /\ gait.mode # "stand"
      BY <2>3, <2>5 DEF OnJoints, Spins
    <3>2. Good(Style, g, p, n) /\ g.mode = gait.mode /\ Pending(g)
      BY <2>1, <2>4, <3>1, RequestStopGood DEF Covered, GuardTilt, Reasons
    <3> HIDE DEF g
    <3>3. QED
      BY <3>1, <3>2, StepTowardsStand, ProcessAssumption DEF Good
  <2>6. ~WalkService /\ ~OnSigint
    BY <1>1, <2>3 DEF WalkService, MayWalk, OnSigint
  <2>7. ~WalkGranted
    BY <1>1, <2>3, <2>4 DEF WalkGranted
  <2>8. CASE StopService
    BY <2>1, <2>8, RequestStopGood DEF StopService, Covered, Reasons
  <2>9. CASE ~OnJoints /\ ~StopService
    BY <1>1, <2>6, <2>7, <2>9 DEF Next, ControlCycle, ServoServices, OnImu, OnServoStatus,
       OnJointsWithoutImu, CallbackRaises, LoopCheck, Close, KilledWhileClosing, walker
  <2>10. QED  BY <2>5, <2>8, <2>9
<1>2. WInv /\ [Next]_vars
        => [ (interrupts = 1 /\ interrupts' = 1 /\ ~dropped')
               => gait'.mode \in {gait.mode, "to_stand", "stand"} ]_vars
  BY <1>1
<1>3. QED  BY <1>2, WInvariance, PTL DEF Spec, NoWalkAfterCtrlC

(***************************************************************************)
(* The status topic.                                                       *)
(***************************************************************************)

Authorities == {"off", "ramp", "full", "latched"}

\* What is on its way to the walk node never overstates the authority there is.
RInv ==
  /\ motor \in Authorities \cup {"absent"}
  /\ posted \in Authorities \cup {"nothing"}
  /\ heard \in Authorities \cup {"unknown"}
  /\ torque \in BOOLEAN
  /\ tilt \in Tilts
  /\ seen \in BOOLEAN
  /\ pc # "exited" =>
       /\ motor # "absent"
       /\ posted = "full" => motor = "full"
       /\ heard = "full" => motor = "full" \/ posted \notin {"nothing", "full"}

LEMMA InitRInv == Init => RInv
  BY DEF Init, RInv, Authorities, Tilts

LEMMA NextRInv == RInv /\ [Next]_vars => RInv'
<1> SUFFICES ASSUME RInv, [Next]_vars PROVE RInv'
  OBVIOUS
<1>1. ASSUME motor' \in Authorities, Publishes, pc # "exited",
             UNCHANGED <<heard, tilt, seen>>
      PROVE  RInv'
  BY <1>1 DEF RInv, Publishes, Granted, Authorities
<1>2. CASE ControlCycle
  <2>1. pc = "spin" /\ pc' = "check" /\ UNCHANGED <<heard, tilt, seen>>
    BY <1>2 DEF ControlCycle, Spins, walker
  <2>2. CASE Motor!Latch /\ Publishes
    BY <1>1, <2>1, <2>2 DEF Motor!Latch, Authorities
  <2>3. CASE /\ Motor!Promote \/ UNCHANGED motor
             /\ posted' \in {posted, motor'}
             /\ UNCHANGED torque
    <3>1. motor' = motor \/ (motor = "ramp" /\ motor' = "full")
      BY <2>3 DEF Motor!Promote
    <3>2. QED  BY <2>1, <2>3, <3>1 DEF RInv, Authorities
  <2>4. QED  BY <1>2, <2>2, <2>3 DEF ControlCycle
<1>3. CASE ServoServices
  <2>1. /\ pc = "spin" /\ Publishes /\ UNCHANGED <<heard, tilt, seen>>
        /\ Motor!Grant \/ Motor!Withdraw \/ Motor!Latch
    BY <1>3 DEF ServoServices, Spins, walker
  <2>2. motor' \in Authorities
    BY <2>1 DEF Motor!Grant, Motor!Withdraw, Motor!Latch, Authorities
  <2>3. QED  BY <1>1, <2>1, <2>2
<1>4. CASE OnServoStatus
  <2>1. /\ pc = "spin" /\ posted # "nothing" /\ heard' = posted /\ posted' = "nothing"
        /\ UNCHANGED <<motor, torque, tilt, seen>>
    BY <1>4 DEF OnServoStatus, Spins, servo
  <2>2. QED  BY <2>1 DEF RInv, Authorities
<1>5. CASE \/ OnImu \/ OnJoints \/ OnJointsWithoutImu \/ WalkService \/ WalkGranted
           \/ StopService \/ CallbackRaises \/ OnSigint \/ LoopCheck
  <2>1. /\ pc # "exited" /\ UNCHANGED <<heard, posted, motor, torque>>
        /\ tilt' \in {tilt} \cup Tilts /\ seen' \in {seen, TRUE}
    BY <1>5 DEF OnImu, OnJoints, OnJointsWithoutImu, WalkService, WalkGranted,
       StopService, CallbackRaises, OnSigint, LoopCheck, Spins, walker, topics, servo
  <2>2. QED  BY <2>1 DEF RInv
<1>6. CASE Close \/ KilledWhileClosing
  <2>1. /\ pc' = "exited" /\ motor' = "absent" /\ torque' \in {torque, FALSE}
        /\ UNCHANGED <<heard, posted, tilt, seen>>
    BY <1>6 DEF Close, KilledWhileClosing, Motor!Vanish, walker, topics
  <2>2. QED  BY <2>1 DEF RInv
<1>7. CASE UNCHANGED vars
  BY <1>7 DEF RInv, vars, loop, walker, topics, servo
<1>8. QED  BY <1>2, <1>3, <1>4, <1>5, <1>6, <1>7 DEF Next

\* What the walk service takes for RUNNING is RUNNING, or a message that says
\* otherwise is on its way.
THEOREM StatusIsCurrent == Spec => []ReportIsCurrentOrComing
<1>1. RInv => ReportIsCurrentOrComing  BY DEF RInv, ReportIsCurrentOrComing
<1>2. QED  BY <1>1, InitRInv, NextRInv, PTL DEF Spec

\* Type correctness of the walking process.
THEOREM ProcessTypeCorrect == Spec => []TypeOK
<1>1. WInv /\ RInv => TypeOK
  <2> SUFFICES ASSUME WInv, RInv PROVE TypeOK
    OBVIOUS
  <2>1. gait \in GaitType  BY DEF WInv, Covered, Good
  <2>2. /\ gait.mode \in Modes /\ gait.stop \in Reasons \cup {"none"}
        /\ gait.elapsed \in Nat /\ gait.cmd \in 0 .. CmdRampTicks
    BY <2>1 DEF GaitType
  <2>3. QED  BY <2>2 DEF TypeOK, WInv, Local, RInv, Authorities
<1>2. QED  BY <1>1, WInvariance, InitRInv, NextRInv, PTL DEF Spec

=============================================================================
