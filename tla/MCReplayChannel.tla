---------------------------- MODULE MCReplayChannel ----------------------------
(* The anti-replay channel with a window of three and a counter that refuses *)
(* its sixth number: the counter outruns the window, jumps of less, exactly  *)
(* and more than the window happen, and the keys change once.               *)
EXTENDS ReplayChannel

CONSTANT MaxWire     \* bound: datagrams in the network at once

WireBound == Cardinality(wire) <= MaxWire
=============================================================================
