--------------------------- MODULE MCDeliveryGate ---------------------------
(* Two input threads and two delivery threads over a session that gets a   *)
(* child, and loses it or has it replaced: enough for a thread of the first*)
(* child to meet a full delivery of the second, and for a ticket to be     *)
(* cancelled behind another.                                               *)
EXTENDS DeliveryGate
=============================================================================
