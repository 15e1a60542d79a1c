---------------------------- MODULE MotorAuthority ----------------------------
(***************************************************************************)
(* What humanoid_servo promises an operator about the power it gives to    *)
(* the robot's motors, without the bus, the topics or the monitors:        *)
(*                                                                         *)
(*   power is ordered on exactly while authority is granted;               *)
(*   full authority follows only a ramp;                                   *)
(*   a latched fault is left only by restarting the process;               *)
(*   a rehearsal (dry run) goes through the same motions unpowered.        *)
(*                                                                         *)
(* ServoNode implements this specification.                                *)
(***************************************************************************)

VARIABLES
  authority,   \* what the motors may be asked to do
  ordered,     \* the last order this process gave was to power them
  rehearsal    \* this process was started as a dry run

vars == <<authority, ordered, rehearsal>>

Granted == {"ramp", "full"}

Init == authority = "absent" /\ ordered = FALSE /\ rehearsal = FALSE

\* The process starts: it holds no authority and has ordered nothing.
Start ==
  /\ authority = "absent"
  /\ authority' = "off"
  /\ ordered' = FALSE
  /\ rehearsal' \in BOOLEAN

\* It ends, or is killed.
Vanish ==
  /\ authority # "absent"
  /\ authority' = "absent"
  /\ ordered' = FALSE
  /\ rehearsal' = rehearsal

\* An operator arms the robot; an armed robot starts its ramp again.
Grant ==
  /\ authority \in {"off"} \cup Granted
  /\ authority' = "ramp"
  /\ ordered' = ~rehearsal
  /\ rehearsal' = rehearsal

Promote ==
  /\ authority = "ramp"
  /\ authority' = "full"
  /\ ordered' = ordered /\ rehearsal' = rehearsal

Withdraw ==
  /\ authority \in Granted
  /\ authority' = "off"
  /\ ordered' = FALSE
  /\ rehearsal' = rehearsal

\* A monitor trips, or an operator stops the robot.
Latch ==
  /\ authority \in {"off"} \cup Granted
  /\ authority' = "latched"
  /\ ordered' = FALSE
  /\ rehearsal' = rehearsal

Next == Start \/ Vanish \/ Grant \/ Promote \/ Withdraw \/ Latch

Spec == Init /\ [][Next]_vars

=============================================================================
