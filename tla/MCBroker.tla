-------------------------------- MODULE MCBroker --------------------------------
(* TLC instances of Broker. *)
EXTENDS Broker

CONSTANTS d1, r1, r2
==============================================================================
