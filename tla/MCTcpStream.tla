---------------------------- MODULE MCTcpStream ----------------------------
(***************************************************************************)
(* TLC instances of TcpStream.                                             *)
(***************************************************************************)
EXTENDS TcpStream

CONSTANTS r1, r2

=============================================================================
