-------------------------- MODULE MCTcpSocketQueue --------------------------
(* Small instances of TcpSocketQueue for TLC. *)
EXTENDS TcpSocketQueue
=============================================================================
