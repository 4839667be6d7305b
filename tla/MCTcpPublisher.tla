--------------------------- MODULE MCTcpPublisher ---------------------------
(* Small instances of TcpPublisher for TLC. *)
EXTENDS TcpPublisher

CONSTANTS c1, c2, a, b, x

MCConns == {c1, c2}
MCSymbols == {a, b, x}
MCSpun == <<a, b>>
=============================================================================
