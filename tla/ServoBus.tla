-------------------------------- MODULE ServoBus --------------------------------
(***************************************************************************)
(* humanoid_deploy/servo_bus.py under the executor node's control cycle:   *)
(* the sync read of all positions with its retry, and the telemetry of     *)
(* servo_node.py, which asks one servo in turn and asks again before it    *)
(* believes that it is hot.                                                *)
(*                                                                         *)
(* One wire, and a reply does not say what it answers: a position and a    *)
(* health reply of one servo have the same id and length.  Replies may be  *)
(* lost (damaged ones are: their checksum fails), may come after the       *)
(* window their caller waits, or, rarely, pass the checksum with a wrong   *)
(* temperature.  The IMU reports throughout: a cycle without a sample      *)
(* returns before the telemetry, which ServoNode models.                   *)
(***************************************************************************)
EXTENDS Integers, FiniteSets, Functions

CONSTANTS
  NumServos,         \* len(servo_ids)
  Retries,           \* retries of ServoBus
  Period,            \* health_check_period_cycles
  Divisor,           \* the 10 of _sample_health
  MaxFaults,         \* bound: losses, late replies and glitches in a behaviour
  MaxHeat            \* bound: servos that overheat

ASSUME BusAssumption ==
  /\ {NumServos, Period, Divisor} \subseteq Nat \ {0}
  /\ {Retries, MaxFaults, MaxHeat} \subseteq Nat

Servos == 1 .. NumServos

\* A reply on the wire: whose it is, what it answers, whether it answers the call
\* in progress, and what its last byte says when read as a temperature.  The high
\* byte of a position is far below every temperature limit.
Replies == [id : Servos, reg : {"position", "health"}, own : BOOLEAN, hot : BOOLEAN]

VARIABLES
  cycle,             \* _cycle, as far as the telemetry depends on it
  pc,                \* where the control cycle is
  call,              \* the transaction, under way or last: register, servos, attempt
  found,             \* the replies its last attempt has parsed
  frames,            \* the best that its earlier attempts have parsed
  wire,              \* how many of each reply are still to arrive
  buffer,            \* replies that arrived while nobody was reading
  rereads, hots,     \* _confirm_temperature: answers so far, hot ones among them
  temperatures,      \* _temperatures
  heat,              \* the servos that are too hot
  faults, glitches   \* what has gone wrong on the wire

node == <<cycle, rereads, hots, temperatures>>
vars == <<node, pc, call, found, frames, wire, buffer, heat, faults, glitches>>

\* exposed: replies of earlier calls were still to come when an attempt of it began.
Calls == [reg : {"position", "health"}, ids : SUBSET Servos, attempt : 0 .. Retries,
          exposed : BOOLEAN]

Init ==
  /\ cycle = 0 /\ pc = "between"
  /\ call = [reg |-> "position", ids |-> {}, attempt |-> 0, exposed |-> FALSE]
  /\ found = {} /\ frames = {} /\ buffer = {}
  /\ wire = [r \in Replies |-> 0]
  /\ rereads = 0 /\ hots = 0
  /\ temperatures = [i \in Servos |-> "unknown"]
  /\ heat = {} /\ faults = 0 /\ glitches = 0

-----------------------------------------------------------------------------
(* A transaction.                                                          *)

\* Faulty variant of InputAfterReset: what arrived meanwhile is kept.
InputKept(arrived, ids) == {r \in arrived : r.id \in ids}

\* reset_input_buffer() before a request is written.
InputAfterReset(arrived, ids) == {}

\* Faulty variant of EchoParsed: the echo of a single read is not cut off.  It has
\* the form of a reply, with the register's address and width as its values.
EchoTaken(reg, ids) ==
  {[id |-> i, reg |-> "position", own |-> FALSE, hot |-> FALSE]
     : i \in IF reg = "health" THEN ids ELSE {}}

\* The request comes back on the same wire; parsing cuts it off.
EchoParsed(reg, ids) == {}

Coming == {r \in Replies : wire[r] > 0}

\* How many answers to the call under way, or to the last one, miss its window.
Late == SumFunctionOnSet(wire, {r \in Replies : r.own})

\* What is on the wire when its call is over: it answers no call any more.
Outlived ==
  [r \in Replies |-> IF r.own THEN 0 ELSE wire[r] + wire[[r EXCEPT !.own = TRUE]]]

\* What a sync read has to return: of its attempts the one that found most.
Best == IF Cardinality(found) > Cardinality(frames) THEN found ELSE frames

\* Write a request for a register of some servos, and the answers it will get: none
\* from the servos in lost, a wrong temperature from those in wrong.  An answer that is
\* still to come is a late one; that to a first attempt also answers the second.
Send(reg, ids, attempt) ==
  \E lost \in SUBSET ids, wrong \in SUBSET (IF reg = "health" THEN ids ELSE {}) :
    LET pending == IF attempt > 0 THEN wire ELSE Outlived
        answers == {[id |-> i, reg |-> reg, own |-> TRUE,
                     hot |-> reg = "health" /\ (i \in heat <=> i \notin wrong)]
                      : i \in ids \ lost}
    IN  /\ lost \cap wrong = {}
        /\ faults' = faults + Late + Cardinality(lost) + Cardinality(wrong)
        /\ faults' <= MaxFaults
        /\ glitches' = glitches + Cardinality(wrong)
        /\ call' = [reg |-> reg, ids |-> ids, attempt |-> attempt,
                    exposed |-> \/ attempt > 0 /\ call.exposed
                                \/ \E r \in Replies : pending[r] > 0 /\ ~r.own]
        /\ frames' = IF attempt > 0 THEN Best ELSE {}
        /\ found' = EchoParsed(reg, ids) \cup InputAfterReset(buffer, ids)
        /\ buffer' = {}
        /\ wire' = [r \in Replies |-> IF r \in answers THEN pending[r] + 1 ELSE pending[r]]

Complete(replies, ids) == {r.id : r \in replies} = ids

-----------------------------------------------------------------------------
(* The control cycle.                                                      *)

Polled == cycle % Period = 0

\* Faulty variant of PolledServo: the turn goes by cycles.
PolledByCycle(c) == (c % NumServos) + 1

\* The servo whose turn it is.
PolledServo(c) == ((c \div Divisor) % NumServos) + 1

StartCycle ==
  /\ pc = "between"
  /\ cycle' = (cycle + 1) % (Period * Divisor * NumServos)
  /\ pc' = "reading"
  /\ Send("position", Servos, 0)
  /\ UNCHANGED <<rereads, hots, temperatures, heat>>

\* read_positions returns, complete or not, and it may be a cycle of telemetry.
ReadReturns ==
  /\ pc = "reading"
  /\ pc' = IF Polled THEN "poll" ELSE "between"
  /\ UNCHANGED node

\* _sample_health, and each repetition in _confirm_temperature, asks one servo.
AskHealth ==
  /\ pc \in {"poll", "confirm"}
  /\ pc' = IF pc = "poll" THEN "polling" ELSE "confirming"
  /\ Send("health", {PolledServo(cycle)}, 0)
  /\ UNCHANGED <<node, heat>>

\* The first answer: a hot one is not believed yet.
HealthReturns(replies) ==
  /\ pc = "polling"
  /\ rereads' = 0 /\ hots' = 0
  /\ IF \E r \in replies : r.hot
       THEN pc' = "confirm" /\ UNCHANGED temperatures
       ELSE /\ pc' = "between"
            /\ temperatures' = [i \in Servos |->
                 IF i = PolledServo(cycle) /\ replies # {} THEN "cool" ELSE temperatures[i]]
  /\ UNCHANGED cycle

\* Faulty variant of Believed: one hot answer among the repetitions will do.
BelievedAtOnce(n) == n >= 1

Believed(n) == n >= 2

\* The repetitions: after the third, two hot ones are believed; otherwise the
\* sample is discarded.
ConfirmReturns(replies) ==
  LET n == hots + Cardinality({r \in replies : r.hot})
  IN  /\ pc = "confirming"
      /\ rereads' = rereads + 1 /\ hots' = n
      /\ pc' = IF rereads' < 3 THEN "confirm" ELSE "between"
      /\ temperatures' = [i \in Servos |->
           IF i = PolledServo(cycle) /\ rereads' = 3 /\ Believed(n) THEN "hot" ELSE temperatures[i]]
      /\ UNCHANGED cycle

Returns(replies) == ReadReturns \/ HealthReturns(replies) \/ ConfirmReturns(replies)

Waiting == pc \in {"reading", "polling", "confirming"}

\* parse_sync_read and parse_status_frame: of each servo that was asked the first
\* reply counts.
Parsed(r) == IF r.id \in call.ids \ {f.id : f \in found} THEN found \cup {r} ELSE found

\* A reply arrives while a call waits, which returns as soon as it has all.
Arrives ==
  \E r \in Coming :
    /\ Waiting
    /\ wire' = [wire EXCEPT ![r] = @ - 1]
    /\ found' = Parsed(r)
    /\ IF Complete(found', call.ids) THEN Returns(found') ELSE UNCHANGED <<node, pc>>
    /\ UNCHANGED <<call, frames, buffer, heat, faults, glitches>>

\* The window of a sync read passes, and it is tried once more.
TriesAgain ==
  /\ pc = "reading" /\ call.attempt < Retries
  /\ Send("position", Servos, call.attempt + 1)
  /\ UNCHANGED <<node, pc, heat>>

\* The window passes, and the call returns what it has: a health read nothing, and
\* a sync read after its retries the best set of its attempts, which is short.
GivesUp ==
  /\ Waiting
  /\ pc = "reading" => call.attempt = Retries
  /\ faults' = faults + Late
  /\ faults' <= MaxFaults
  /\ wire' = Outlived
  /\ found' = Best
  /\ Returns(found')
  /\ UNCHANGED <<call, frames, buffer, heat, glitches>>

\* A reply that outlived its window comes while nobody reads.
ArrivesLate ==
  \E r \in Coming :
    /\ ~Waiting
    /\ wire' = [wire EXCEPT ![r] = @ - 1]
    /\ buffer' = buffer \cup {r}
    /\ UNCHANGED <<node, pc, call, found, frames, heat, faults, glitches>>

\* write_goal_positions, set_torque, set_speed_and_acc: no reply, and the input is
\* cleared all the same.
WriteBroadcast ==
  /\ pc = "between" /\ buffer # {}
  /\ buffer' = {}
  /\ UNCHANGED <<node, pc, call, found, frames, wire, heat, faults, glitches>>

HeatsUp ==
  /\ Cardinality(heat) < MaxHeat
  /\ \E i \in Servos \ heat : heat' = heat \cup {i}
  /\ UNCHANGED <<node, pc, call, found, frames, wire, buffer, faults, glitches>>

BusStep == StartCycle \/ AskHealth \/ Arrives \/ TriesAgain \/ GivesUp

Next == BusStep \/ ArrivesLate \/ WriteBroadcast \/ HeatsUp

Spec == Init /\ [][Next]_vars

\* The control timer keeps firing, every wait has a deadline, and no reply stays on the
\* wire for good.
FairSpec == Spec /\ WF_vars(BusStep) /\ WF_vars(ArrivesLate)

-----------------------------------------------------------------------------
(* Properties.                                                             *)

\* Unless a reply of an earlier call was still to come when an attempt of a call began,
\* what the call parses, and of its attempts returns, answers that call: never an
\* echo, never an old reply, never the other register of the same servo.
AnswersAreOwn ==
  call.exposed \/ \A r \in found \cup frames : r.own /\ r.reg = call.reg

\* A servo that is not hot is never recorded as hot on fewer than three wrong
\* temperatures: the executor does not cut torque for a bus glitch, nor for two.
GlitchesAreDiscarded ==
  \A i \in Servos : temperatures[i] = "hot" => i \in heat \/ glitches >= 3

\* A servo that overheats is recorded as hot, in its turn, and stays recorded: lost
\* answers, late ones and wrong temperatures only delay it.
HotIsReported ==
  \A i \in Servos : (i \in heat) ~> [](temperatures[i] = "hot")
=============================================================================
