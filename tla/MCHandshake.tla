------------------------------ MODULE MCHandshake ------------------------------
(* One client that reconnects from the same port, with one retransmission of *)
(* each stage.                                                               *)
EXTENDS Handshake, FiniteSets

CONSTANT MaxWire     \* bound: datagrams in the network at once, until it is calm

(* Once the server has given a second nonce one less, unless an identity_ok  *)
(* is among them.  What happens on a calm network is not bounded, so that    *)
(* liveness is not affected.                                                 *)
WireBound ==
    \/ calm
    \/ Cardinality(wire) < MaxWire
    \/ Cardinality(wire) = MaxWire
         /\ (lastNonce <= 1 \/ \E m \in wire : m.type = "ok")
=============================================================================
