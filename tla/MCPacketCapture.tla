--------------------------- MODULE MCPacketCapture ---------------------------
(* Instances of PacketCapture for TLC: two captures, dispatched in the order *)
(* of their start times.                                                     *)
EXTENDS PacketCapture

CONSTANTS coordinator, u
InOrder == [c \in Captures |-> c]
=============================================================================
