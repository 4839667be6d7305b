---------------------------- MODULE MCDdsMdDelta ----------------------------
(* Small instances of DdsMdDelta for TLC. *)
EXTENDS DdsMdDelta
=============================================================================
