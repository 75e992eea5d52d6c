------------------------------ MODULE MCAccounting ------------------------------
(* Two sessions of a client with a quota of two packets, and three packets to carry.                   *)
EXTENDS Accounting, TLC

CONSTANTS s1, s2

MCSess == {s1, s2}
=============================================================================
