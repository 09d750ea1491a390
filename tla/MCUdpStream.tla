------------------------------ MODULE MCUdpStream ------------------------------
(***************************************************************************)
(* An instance of UdpStream for TLC: two ports, so that a socket may get   *)
(* the port of the one before it or another.                               *)
(***************************************************************************)
EXTENDS UdpStream

MCPort == {1, 2}
=============================================================================
