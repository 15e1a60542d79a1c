------------------------------- MODULE ImuDriver -------------------------------
(***************************************************************************)
(* wit_ros2_imu.py: the node that reads the IMU.  On TTL and CAN the       *)
(* sensor sends frames of acceleration, rate, field and angle one after    *)
(* the other, in high precision an angle frame for each axis, and the      *)
(* parser has to find their beginnings in a stream of bytes.  On RS485 the *)
(* node asks for one register block after the other; a reply carries no    *)
(* address and is taken for the answer to the request that is current.     *)
(*                                                                         *)
(* A byte is whose it is, where it stands in its frame and whether it      *)
(* looks like a header (0x55); a checksum passes for the bytes of one      *)
(* undamaged frame only.  An RS485 reply is one item: its bytes are        *)
(* dropped one by one when its CRC fails.                                  *)
(***************************************************************************)
EXTENDS Integers, Sequences, FiniteSets

CONSTANTS
  Protocols,          \* the parameter's values: TTL, CAN and RS485, each _STD and _HIGH
  Axes,               \* axes of the angle
  TTLBytes, CANBytes, \* length of a frame
  Swallow,            \* replies that a damaged length byte makes the parser wait for
  MaxBytes,           \* bound: bytes that arrive between two timer callbacks
  MaxPort,            \* bound: replies that do
  MaxFaults           \* bound: items lost, damaged or late in a behaviour

ASSUME ImuAssumption ==
  /\ Protocols \subseteq {"TTL_STD", "TTL_HIGH", "CAN_STD", "CAN_HIGH", "RS485_STD", "RS485_HIGH"}
  /\ Axes \in Nat \ {0}
  /\ {TTLBytes, CANBytes} \subseteq Nat \ 0 .. 2
  /\ {Swallow, MaxBytes, MaxPort, MaxFaults} \subseteq Nat

\* Acceleration, rate, field, and the angle of each axis.
Kinds == 1 .. 3 + Axes

\* modbusAddrList: 0x34, 0x37, 0x3A, 0x3D, the fourth for the whole angle.
Registers == 1 .. 4

VARIABLES
  protocol, alias,    \* whether data bytes may look like a header
  turn,               \* sensor, TTL and CAN: the kind and byte it sends next
  wire,               \* RS485: replies that are on their way
  port,               \* in_waiting
  rxBuffer, parsing,  \* parsing: timerCallback is in parseBuffer
  modbusIndex, waitingResponse, currentRequestAddr,
  data,               \* accData, gyroData, magData, angleData: what they hold
  faults, late,       \* late: a reply outlived the timeout of its request
  lost                \* frames whose header was consumed without the frame

request == <<modbusIndex, waitingResponse, currentRequestAddr>>
vars == <<protocol, alias, turn, wire, port, rxBuffer, parsing, request, data, faults, late, lost>>

TTL == protocol \in {"TTL_STD", "TTL_HIGH"}
CAN == protocol \in {"CAN_STD", "CAN_HIGH"}
Streams == TTL \/ CAN
FrameBytes == IF TTL THEN TTLBytes ELSE CANBytes

\* The angle of each axis has a frame of its own.
ByAxis == protocol \in {"TTL_HIGH", "CAN_HIGH"}

\* The frame or register that comes after this one.
Following(i) == (i % IF ByAxis THEN 3 + Axes ELSE 4) + 1

\* What a frame or register holds.
Holds(i) == IF i < 4 \/ ByAxis THEN {i} ELSE 4 .. 3 + Axes

Init ==
  /\ protocol \in Protocols
  /\ alias \in {FALSE, Streams}
  /\ turn = [kind |-> 1, at |-> 1]
  /\ wire = <<>> /\ port = <<>> /\ rxBuffer = <<>> /\ parsing = FALSE
  /\ modbusIndex = 1 /\ waitingResponse = FALSE /\ currentRequestAddr = 0
  /\ data = [k \in Kinds |-> "none"]
  /\ faults = 0 /\ late = FALSE /\ lost = 0

-----------------------------------------------------------------------------
(* The line.                                                               *)

\* The byte of the sensor's turn, as it is received.
Received(head, ok) == [kind |-> turn.kind, at |-> turn.at, head |-> head, ok |-> ok]

\* Data, which may look like a header, comes after the type or, there, the axis.
FirstData == IF ByAxis /\ turn.kind > 3 THEN 4 ELSE 3

\* The sensor sends its next byte, which may be damaged or get lost.
SendsByte ==
  /\ Streams /\ Len(port) < MaxBytes
  /\ turn' = [kind |-> IF turn.at = FrameBytes THEN Following(turn.kind) ELSE turn.kind,
              at |-> (turn.at % FrameBytes) + 1]
  /\ \/ \E head \in IF turn.at = 1 THEN {TRUE} ELSE {FALSE, alias /\ turn.at >= FirstData} :
          port' = Append(port, Received(head, TRUE)) /\ UNCHANGED faults
     \/ /\ faults < MaxFaults /\ faults' = faults + 1
        /\ \/ \E head \in {FALSE, turn.at # 1} : port' = Append(port, Received(head, FALSE))
           \/ UNCHANGED port
  /\ UNCHANGED <<protocol, alias, wire, rxBuffer, parsing, request, data, late, lost>>

\* A reply reaches the serial port.
ReplyArrives ==
  /\ wire # <<>> /\ Len(port) < MaxPort
  /\ port' = Append(port, Head(wire)) /\ wire' = Tail(wire)
  /\ UNCHANGED <<protocol, alias, turn, rxBuffer, parsing, request, data, faults, late, lost>>

-----------------------------------------------------------------------------
(* timerCallback.                                                          *)

\* readSerial, and parseBuffer begins.
Reads ==
  /\ ~parsing /\ parsing' = TRUE
  /\ rxBuffer' = rxBuffer \o port
  /\ port' = <<>>
  /\ UNCHANGED <<protocol, alias, turn, data, lost>>

\* A callback with nothing to ask; one that finds nothing to read changes nothing.
OnlyReads ==
  /\ Streams \/ waitingResponse
  /\ port # <<>>
  /\ Reads
  /\ UNCHANGED <<wire, request, faults, late>>

\* Ask for the next block of registers.  The reply may get lost, or be damaged, in its
\* length byte or elsewhere.
Asks ==
  /\ ~Streams /\ ~waitingResponse
  /\ waitingResponse' = TRUE
  /\ currentRequestAddr' = modbusIndex
  /\ \/ wire' = Append(wire, [kind |-> modbusIndex, damage |-> "none"]) /\ UNCHANGED faults
     \/ /\ faults < MaxFaults /\ faults' = faults + 1
        /\ \/ \E d \in {"length", "other"} :
                wire' = Append(wire, [kind |-> modbusIndex, damage |-> d])
           \/ UNCHANGED wire
  /\ Reads
  /\ UNCHANGED <<modbusIndex, late>>

\* Faulty variant of Abandons: the wait is not ended.
AbandonsAddress ==
  currentRequestAddr' = 0 /\ modbusIndex' = Following(modbusIndex) /\ UNCHANGED waitingResponse

Abandons ==
  currentRequestAddr' = 0 /\ modbusIndex' = Following(modbusIndex) /\ waitingResponse' = FALSE

\* The current request is 50 ms old.  Replies that are on their way are late.
TimesOut ==
  /\ ~Streams /\ waitingResponse
  /\ Abandons
  /\ faults' = faults + Len(wire) + Len(port)
  /\ faults' <= MaxFaults
  /\ late' = (late \/ wire \o port \o rxBuffer # <<>>)
  /\ Reads
  /\ UNCHANGED wire

-----------------------------------------------------------------------------
(* parseBuffer on TTL and CAN.                                             *)

Whole(frame) ==
  \A i \in DOMAIN frame : frame[i].ok /\ frame[i].at = i /\ frame[i].kind = frame[1].kind

\* Headers among bytes that are consumed without a whole frame.  With data that looks
\* like headers there is no bound to count against.
Lost(bytes) ==
  IF alias THEN 0 ELSE Cardinality({i \in DOMAIN bytes : bytes[i].at = 1})

\* Faulty variant of AtHeader: the frame is taken where the last one ended.
AtAnyByte(byte) == TRUE

AtHeader(byte) == byte.head

\* Faulty variant of Passes: no checksum on TTL either.
PassesUnchecked(frame) == TRUE

\* ttlChecksum; CAN frames have none.
Passes(frame) == TTL => Whole(frame)

Remaining == <<protocol, alias, turn, wire, port, faults, late>>

PopByte ==
  /\ parsing /\ Streams /\ Len(rxBuffer) >= FrameBytes
  /\ ~AtHeader(Head(rxBuffer))
  /\ rxBuffer' = Tail(rxBuffer)
  /\ lost' = lost + Lost(<<Head(rxBuffer)>>)
  /\ UNCHANGED <<Remaining, parsing, request, data>>

\* handleTTLFrame and handleCanFrame: the second byte says what the frame holds and, of
\* an angle in high precision, the third whose axis it is.  A damaged one, or the byte of
\* another place, may say anything or nothing.
OfType(frame) ==
  IF frame[2].ok /\ frame[2].at = 2 THEN {frame[2].kind} ELSE {0} \cup Kinds

OfAxis(frame) ==
  IF frame[3].ok /\ frame[3].at = 3 /\ frame[3].kind > 3 THEN {frame[3].kind}
  ELSE {0} \cup 4 .. 3 + Axes

Stored(frame) ==
  UNION {IF ByAxis /\ k > 3 THEN OfAxis(frame) ELSE {k} : k \in OfType(frame)}

TakeFrame ==
  /\ parsing /\ Streams /\ Len(rxBuffer) >= FrameBytes
  /\ AtHeader(Head(rxBuffer))
  /\ LET frame == SubSeq(rxBuffer, 1, FrameBytes)
     IN  /\ rxBuffer' = SubSeq(rxBuffer, FrameBytes + 1, Len(rxBuffer))
         /\ lost' = lost + IF Whole(frame) THEN 0 ELSE Lost(frame)
         /\ IF Passes(frame)
              THEN \E k \in Stored(frame) :
                     data' = [i \in Kinds |->
                       IF i \notin Holds(k) THEN data[i]
                       ELSE IF Whole(frame) THEN "right" ELSE "wrong"]
              ELSE UNCHANGED data
  /\ UNCHANGED <<Remaining, parsing, request>>

-----------------------------------------------------------------------------
(* parseBuffer on RS485.                                                   *)

\* The frame the length byte announces is there.
Judged == rxBuffer # <<>> /\ (Head(rxBuffer).damage = "length" => Len(rxBuffer) > Swallow)

\* The CRC fails: bytes are dropped up to the next frame.
DropReply ==
  /\ parsing /\ ~Streams /\ Judged
  /\ Head(rxBuffer).damage # "none"
  /\ rxBuffer' = Tail(rxBuffer)
  /\ UNCHANGED <<Remaining, parsing, request, data, lost>>

\* In high precision, the angles are twice as long as the others.
Long(kind) == protocol = "RS485_HIGH" /\ kind = 4

\* Faulty variant of Fits: the length of the reply is not looked at.
FitsAlways(kind, addr) == TRUE

\* The reply has the length that the current request asks for.
Fits(kind, addr) == Long(kind) = Long(addr)

\* handleModbusFrame.  Without a current request nothing is stored, and the turn moves
\* on all the same; a reply of the wrong length leaves the request waiting.
HandleReply ==
  /\ parsing /\ ~Streams /\ Judged
  /\ LET reply == Head(rxBuffer)
     IN  /\ reply.damage = "none"
         /\ rxBuffer' = Tail(rxBuffer)
         /\ IF Fits(reply.kind, currentRequestAddr)
              THEN /\ data' = [i \in Kinds |->
                       IF i \notin Holds(currentRequestAddr) THEN data[i]
                       ELSE IF currentRequestAddr = reply.kind THEN "right" ELSE "wrong"]
                   /\ waitingResponse' = FALSE
                   /\ modbusIndex' = Following(modbusIndex)
              ELSE UNCHANGED <<data, waitingResponse, modbusIndex>>
  /\ UNCHANGED <<Remaining, parsing, currentRequestAddr, lost>>

ParseReturns ==
  /\ parsing
  /\ IF Streams THEN Len(rxBuffer) < FrameBytes ELSE ~Judged
  /\ parsing' = FALSE
  /\ UNCHANGED <<Remaining, rxBuffer, request, data, lost>>

-----------------------------------------------------------------------------
Driver ==
  \/ OnlyReads \/ Asks \/ TimesOut
  \/ PopByte \/ TakeFrame \/ DropReply \/ HandleReply \/ ParseReturns

Next == SendsByte \/ ReplyArrives \/ Driver

Spec == Init /\ [][Next]_vars

\* The timer keeps firing, the sensor keeps sending and no reply stays on the wire.
FairSpec ==
  Spec /\ WF_vars(Driver) /\ WF_vars(SendsByte) /\ WF_vars(ReplyArrives)

-----------------------------------------------------------------------------
(* Properties.                                                             *)

\* While no data byte looks like a header, a lost or damaged byte costs two frames at
\* most, its own and the next: the parser finds its place again.
DamageIsLocal == lost <= 2 * faults

\* What is published was measured, and under its own name.  Only CAN, which has no
\* checksum, publishes a damaged frame, and only a reply that outlived the timeout of
\* its request is taken for an answer to another.
WrongNeedsCause ==
  \A i \in Kinds : data[i] = "wrong" => (CAN /\ faults > 0) \/ late

\* Once the line works, what is published becomes right and stays right.  Two cases
\* are excepted: CAN data that looks like headers, and RS485 in standard precision,
\* where one late reply shifts all that follow and their lengths do not tell.
HealsItself ==
  \/ CAN /\ alias
  \/ protocol = "RS485_STD"
  \/ <>[](\A i \in Kinds : data[i] # "wrong")

\* No lost, damaged or late reply ends the rotation through the registers.
EveryRegisterIsPolled ==
  Streams \/ \A i \in Registers : []<>(waitingResponse /\ currentRequestAddr = i)
=============================================================================
