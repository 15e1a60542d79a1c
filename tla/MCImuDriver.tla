------------------------------ MODULE MCImuDriver ------------------------------
(***************************************************************************)
(* All six ways of talking to the IMU, with two axes, frames of header,    *)
(* type, one or two data bytes (the axis is one) and, on TTL, a checksum,  *)
(* and two faults in each behaviour.  Bytes arrive one at a time: what     *)
(* parseBuffer does depends on the first bytes of a frame's length only,   *)
(* so how they are cut into reads makes no difference.                     *)
(***************************************************************************)
EXTENDS ImuDriver

AllProtocols == {"TTL_STD", "TTL_HIGH", "CAN_STD", "CAN_HIGH", "RS485_STD", "RS485_HIGH"}
=============================================================================
