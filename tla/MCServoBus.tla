------------------------------- MODULE MCServoBus -------------------------------
(***************************************************************************)
(* Two servos on the bus, polled in turn every second cycle; one of them   *)
(* may overheat.  Three faults are enough for a servo to be wrongly        *)
(* believed hot, and for both answers of a sync read to come late.         *)
(***************************************************************************)
EXTENDS ServoBus
=============================================================================
