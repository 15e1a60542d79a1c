----------------------------- MODULE GaitSequencer -----------------------------
(***************************************************************************)
(* The sequencer object of humanoid_deploy/gait.py under its most general  *)
(* client: walk and stop are requested at any moment, for any reason, and  *)
(* step() is called once per control cycle.                                *)
(***************************************************************************)
EXTENDS GaitRules

CONSTANT Offered   \* the configurations a run considers

ASSUME OfferedAssumption == Offered \subseteq Configs

VARIABLES
  cfg,         \* the GaitConfig of this object
  seq,         \* its attributes
  shares,      \* what the target of the latest step was made of
  walkAction,  \* walk_node's _walk_action: "zero", or one of the policy's "own"
  pendingFor,  \* history: cycles since a stop was requested
  awayFor      \* history: cycles since the robot left STAND

seqVars == <<cfg, seq, shares, walkAction, pendingFor, awayFor>>

SeqInit ==
  /\ cfg \in Offered
  /\ seq = InitGait
  /\ shares = Mix(0, Whole, 0)
  /\ walkAction = "zero"
  /\ pendingFor = 0
  /\ awayFor = 0

WalkRequested ==
  /\ MayWalk(seq)
  /\ seq' = RequestWalk(seq)
  /\ UNCHANGED <<cfg, shares, walkAction, pendingFor, awayFor>>

StopRequested(reason) ==
  /\ seq' = RequestStop(seq, reason)
  /\ UNCHANGED <<cfg, shares, walkAction, pendingFor, awayFor>>

\* status.walk_started of Step(c, g), the sign of a cold start to walk_node.
WalkStarted(c, g) ==
  g.mode = "settle" /\ Step(c, g).mode = "walk" /\ c.crouch # "blend_walk"

\* walk_node's cycle: the walking policy acts if it has to, then step().
Cycle ==
  /\ seq' = Step(cfg, seq)
  /\ shares' = Shares(cfg, seq)
  /\ walkAction' = IF WalkStarted(cfg, seq) THEN "zero"
                   ELSE IF Walking(cfg, seq) THEN "own" ELSE walkAction
  /\ pendingFor' = IF Pending(seq') THEN pendingFor + 1 ELSE 0
  /\ awayFor' = IF seq'.mode # "stand" THEN awayFor + 1 ELSE 0
  /\ UNCHANGED cfg

SeqNext ==
  \/ WalkRequested
  \/ \E r \in Reasons \ {"duration"} : StopRequested(r)
  \/ Cycle

SeqSpec == SeqInit /\ [][SeqNext]_seqVars

-----------------------------------------------------------------------------
(* Safety properties.                                                      *)

\* The sequencer's attributes keep their types; elapsed and waited stay bounded.
SeqTypeOK ==
  /\ cfg \in Offered
  /\ seq \in [ mode : Modes, elapsed : 0 .. AwayTicks, phase : Phases,
                cmd : 0 .. CmdRampTicks, stop : Reasons \cup {"none"},
                waited : 0 .. StopTicks, started : BOOLEAN,
                exit : Reasons \cup {"none"} ]
  /\ shares \in Mixes
  /\ walkAction \in {"zero", "own"}
  /\ pendingFor \in Nat
  /\ awayFor \in Nat

\* Once a stop is asked for, in whatever mode and whatever the stop phase, the
\* robot is back under the standing policy within a ramp or the maximal wait,
\* and one recovery: the time walk_node's Ctrl-C grace period has to cover.
StopsInTime ==
  /\ pendingFor < StopTicks + RecoverTicks
  /\ seq.mode = "stand" => ~Pending(seq) /\ pendingFor = 0

\* The walking policy is a guest: with nobody asking, the robot is standing
\* again after a bounded number of cycles ("given a fixed number of seconds,
\* and taken off again").
WalkIsBounded == awayFor < AwayTicks

\* In every configuration that does not ask for a velocity during the descent,
\* the robot is at zero command whenever it is handed back or standing.
StandstillByDefault ==
  ~cfg.duringCrouch /\ seq.mode \in {"to_stand", "stand"} => seq.cmd = 0

\* The reason of the first request is the one kept, until it becomes last_exit.
FirstReasonKept ==
  [][ Pending(seq) =>
        \/ seq'.stop = seq.stop
        \/ seq'.mode = "stand" /\ seq'.exit = seq.stop /\ ~Pending(seq') ]_seqVars

\* After an open-loop descent the walking policy starts cold, in the first walk as
\* in any later one: up to the step that sets WALK it had no share, and the clock,
\* the command and the action history it is shown are zero.
ColdStart ==
  [][ (seq'.mode = "walk" /\ seq.mode # "walk" /\ cfg.crouch # "blend_walk")
        => /\ seq'.phase = 0 /\ seq'.cmd = 0 /\ walkAction' = "zero"
           /\ shares'.walk = 0 ]_seqVars

\* The pace of each mode: how far a part of the target may move in a cycle.
Pace == CASE seq.mode = "to_crouch" -> RecoverTicks
          [] seq.mode = "to_stand"  -> IF cfg.recover = "via_crouch" THEN 2 * CrouchTicks
                                       ELSE CrouchTicks
          [] OTHER                  -> 0

Apart(a, b) == IF a < b THEN b - a ELSE a - b

\* The two cycles whose target may jump: the cold start itself, from the nominal
\* pose to the walking policy; and the first cycle of a recovery that begins in the
\* descent, before the walking policy had the whole of the target.
ColdHandOver == seq.mode = "walk" /\ seq.elapsed = 0 /\ cfg.crouch # "blend_walk"

AbandonsDescent == seq.mode = "to_stand" /\ seq.elapsed = 0 /\ shares.walk < Whole

\* In every style the target passes from one controller to the next without a jump:
\* but for those two cycles no part of it moves further than the pace of its mode,
\* across the borders of modes and the middle of via_crouch too, and a recovery
\* only takes from the walking policy and only gives to the standing one.
HandOversAreGradual ==
  [][ ColdHandOver \/ AbandonsDescent \/
        /\ \A p \in Parts : Apart(shares'[p], shares[p]) <= Pace
        /\ seq.mode = "to_stand" => /\ shares'.walk <= shares.walk
                                    /\ shares'.stand >= shares.stand ]_seqVars

=============================================================================
