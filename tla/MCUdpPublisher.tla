--------------------------- MODULE MCUdpPublisher ---------------------------
(* Small instances of UdpPublisher for TLC. *)
EXTENDS UdpPublisher

CONSTANTS a1, a2

MCAddrs == {a1, a2}
=============================================================================
