----------------------------- MODULE MCClientNet -----------------------------
(* TLC instances of ClientNet. *)
EXTENDS ClientNet

CONSTANTS eth, isp, own
==============================================================================
