----------------------------- MODULE LossyStream -----------------------------
(***************************************************************************)
(* What one direction of a TCP connection promises its users: records are  *)
(* received in the order they were sent, each at most once, and a record   *)
(* is discarded only behind a backlog of at least Backlog records, or      *)
(* because the connection is down.  A corrupted connection promises        *)
(* nothing any more.                                                       *)
(***************************************************************************)
EXTENDS Integers, Sequences, FiniteSets

CONSTANT Backlog

VARIABLES
  sent,       \* number of records sent so far: record i is the i-th
  pending,    \* records accepted and not received yet
  received,   \* records received, oldest first
  down,       \* the sender's connection is closed
  corrupt

vars == <<sent, pending, received, down, corrupt>>

Init ==
  /\ sent = 0
  /\ pending = {}
  /\ received = <<>>
  /\ down = FALSE
  /\ corrupt = FALSE

\* The record is accepted.
Send ==
  /\ ~down
  /\ sent' = sent + 1
  /\ pending' = pending \cup {sent + 1}
  /\ UNCHANGED <<received, down, corrupt>>

\* The record is discarded: the receiver is too far behind.
Discard ==
  /\ ~down
  /\ Cardinality(pending) >= Backlog
  /\ sent' = sent + 1
  /\ UNCHANGED <<pending, received, down, corrupt>>

\* The record is lost with the connection.
Fail ==
  /\ sent' = sent + 1
  /\ down' = TRUE
  /\ UNCHANGED <<pending, received, corrupt>>

\* The oldest of the pending records is received.
Receive ==
  /\ \E i \in pending :
       /\ \A j \in pending : i <= j
       /\ received' = Append(received, i)
       /\ pending' = pending \ {i}
  /\ UNCHANGED <<sent, down, corrupt>>

Close ==
  /\ down' = TRUE
  /\ UNCHANGED <<sent, pending, received, corrupt>>

Corrupt ==
  /\ corrupt' = TRUE
  /\ sent' = 0
  /\ pending' = {}
  /\ received' = <<>>
  /\ down' = TRUE

Next ==
  ~corrupt /\ (Send \/ Discard \/ Fail \/ Receive \/ Close \/ Corrupt)

Spec == Init /\ [][Next]_vars
=============================================================================
