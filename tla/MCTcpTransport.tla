---------------------------- MODULE MCTcpTransport ----------------------------
(* Frames of two units over sockets that hold three, read three at a time,   *)
(* two frames a round: frames are split and left over in every way.          *)
EXTENDS TcpTransport
=============================================================================
