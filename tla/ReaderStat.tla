----------------------------- MODULE ReaderStat -----------------------------
(***************************************************************************)
(* WireReaderStat of spinner_core_util: what a reader measures of the      *)
(* messages it reads, as operators on a record of the members.  The clocks *)
(* of the two machines differ, so latencies are taken relative to the one  *)
(* of the login reply, or to the least one since.                          *)
(*                                                                         *)
(* Seconds are abstracted: whether a line of statistics is due is given,   *)
(* and of stat_start_ only whether it has been set.                        *)
(***************************************************************************)
EXTENDS Integers

CONSTANT LatencyMod     \* latencies are uint16_t: 2^16 microseconds

ASSUME StatAssumption == LatencyMod \in Nat \ {0}

StatType ==
  [base_latency_ : 0..(LatencyMod - 1),
   last_msg_wire_latency_ : 0..(LatencyMod - 1),
   max_msg_wire_latency_ : 0..(LatencyMod - 1),
   avg_msg_wire_latency_ : 0..(LatencyMod - 1),
   total_msg_wire_latency_ : Nat,
   total_packets_progress_ : Nat,
   started : BOOLEAN,         \* stat_start_ is not what the memory held
   unstarted_lines : Nat]     \* history: lines computed while it was

NewStat ==
  [base_latency_ |-> 0, last_msg_wire_latency_ |-> 0, max_msg_wire_latency_ |-> 0,
   avg_msg_wire_latency_ |-> 0, total_msg_wire_latency_ |-> 0,
   total_packets_progress_ |-> 0, started |-> FALSE, unstarted_lines |-> 0]

\* wire_in_tstamp - wire_tstamp, in uint64_t, passed as a uint16_t.
WireLatency(delay, skew) == (delay + skew) % LatencyMod

StartReaderStat(s) == [s EXCEPT !.started = TRUE]

\* "t - stat_log_time_": a line may be due at any message, and is at the first,
\* because stat_log_time_ is 0 then.
LineDue(s) == IF s.total_packets_progress_ = 0 THEN {TRUE} ELSE BOOLEAN

\* The latency becomes the base itself, and is then not taken relative to it.
Rebases(s, is_login_reply, wire_latency) ==
  is_login_reply \/ wire_latency < s.base_latency_

Relative(s, is_login_reply, wire_latency) ==
  IF Rebases(s, is_login_reply, wire_latency) THEN wire_latency
  ELSE wire_latency - s.base_latency_

\* Mutant: no clock synchronisation at the login reply.
MutOnReaderProgress(s, is_login_reply, wire_latency, due) ==
  LET rebases == wire_latency < s.base_latency_
      latency == IF rebases THEN wire_latency ELSE wire_latency - s.base_latency_
  IN  [s EXCEPT
        !.base_latency_ = IF rebases THEN wire_latency ELSE @,
        !.last_msg_wire_latency_ = latency,
        !.max_msg_wire_latency_ = IF latency > @ THEN latency ELSE @,
        !.total_msg_wire_latency_ = @ + latency,
        !.total_packets_progress_ = @ + 1]

\* on_reader_progress
OnReaderProgress(s, is_login_reply, wire_latency, due) ==
  LET latency == Relative(s, is_login_reply, wire_latency)
      total == s.total_msg_wire_latency_ + latency
      packets == s.total_packets_progress_ + 1
  IN  [s EXCEPT
        !.base_latency_ = IF Rebases(s, is_login_reply, wire_latency) THEN wire_latency ELSE @,
        !.last_msg_wire_latency_ = latency,
        !.max_msg_wire_latency_ = IF latency > @ THEN latency ELSE @,
        !.avg_msg_wire_latency_ = IF due THEN (total \div packets) % LatencyMod ELSE @,
        !.total_msg_wire_latency_ = total,
        !.total_packets_progress_ = packets,
        !.unstarted_lines = IF due /\ ~s.started THEN @ + 1 ELSE @]
=============================================================================
