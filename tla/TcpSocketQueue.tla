--------------------------- MODULE TcpSocketQueue ---------------------------
(***************************************************************************)
(* The outbound side of one TCP connection: TcpConnection::send_message    *)
(* and the TcpSocketQueue it writes through (socket_buffer.{h,cpp}).       *)
(*                                                                         *)
(* A record is one serialized message.  send_message takes mtx_sender_,    *)
(* numbers the record and calls send_buffer, which first flushes buffers_  *)
(* (records the kernel did not take before) and then writes the record     *)
(* itself; what the kernel refuses is queued, and past the high-water mark *)
(* it is dropped until the queue has drained below the low-water mark.     *)
(*                                                                         *)
(* One step is one call of send(2) together with the code that handles its *)
(* result, so that other threads interleave exactly where the kernel is    *)
(* called: close_connection() takes no lock and may come in between.       *)
(***************************************************************************)
EXTENDS Integers, Sequences

CONSTANTS
  Lens,        \* byte lengths of the records the program archives
  LowWater,    \* low_water_mark_   (10240 records in the code)
  HighWater,   \* high_water_mark_ (716800 records)
  QMax,        \* SOCKET_OUT_Q_MAX_SIZE (1024000 records)
  MaxMsgs,     \* bound: messages sent over the connection
  MaxWire      \* bound: bytes on the wire after which no record is re-cut

ASSUME LensAssumption == Lens \subseteq Nat \ {0}

ASSUME MarksAssumption ==
  /\ LowWater \in Nat \ {0}
  /\ HighWater \in Nat
  /\ QMax \in Nat
  /\ LowWater <= HighWater + 1
  /\ HighWater + 1 < QMax

ASSUME BoundsAssumption == MaxMsgs \in Nat /\ MaxWire \in Nat

VARIABLES
  buffers_,        \* deque of records the kernel has not fully taken
  throttle_on_,
  session_index_,  \* index of the last record numbered
  open,            \* bev_ # nullptr: close_connection has not run
  pc,              \* where the holder of mtx_sender_ is; "idle": lock free
  cur,             \* the record send_buffer was called with
  wire,            \* bytes the kernel has accepted, in order
  dropped,         \* history: indices of records thrown away by the throttle
  recut            \* history: some record was cut short twice

vars == <<buffers_, throttle_on_, session_index_, open, pc, cur, wire,
          dropped, recut>>

\* SingleRecordBuffer: len bytes, of which the first start are not to be sent.
Record == [idx : Nat \ {0}, len : Lens, start : Nat]

\* One byte of a record on the wire.
Byte == [idx : Nat \ {0}, len : Lens, off : Nat]

\* set_start: the next send of b begins at byte n, counted from its first byte.
SetStart(b, n) == [idx |-> b.idx, len |-> b.len, start |-> n]

NoRecord == [idx |-> 0, len |-> 0, start |-> 0]

Init ==
  /\ buffers_ = <<>>
  /\ throttle_on_ = FALSE
  /\ session_index_ = 0
  /\ open = TRUE
  /\ pc = "idle"
  /\ cur = NoRecord
  /\ wire = <<>>
  /\ dropped = {}
  /\ recut = FALSE

-----------------------------------------------------------------------------
(* The kernel. *)

\* b.len(): the bytes of record b that are still to be sent.
Remaining(b) == b.len - b.start

\* send() takes the next n bytes of b (from b.buff() on).
Written(b, n) ==
  wire \o [i \in 1..n |-> [idx |-> b.idx, len |-> b.len, off |-> b.start + i - 1]]

-----------------------------------------------------------------------------
(* send_message: number the record, choose send_buffer's branch. *)

\* Mutant: the queue is not looked at, every record is written directly.
MutSendMessageDirect(l) ==
  /\ pc = "idle"
  /\ session_index_ < MaxMsgs
  /\ session_index_' = session_index_ + 1
  /\ cur' = [idx |-> session_index_ + 1, len |-> l, start |-> 0]
  /\ pc' = "direct"
  /\ UNCHANGED <<buffers_, throttle_on_, open, wire, dropped, recut>>

\* The caller need not have checked is_valid(): a closed connection also sends.
SendMessage(l) ==
  /\ pc = "idle"
  /\ session_index_ < MaxMsgs
  /\ session_index_' = session_index_ + 1
  /\ cur' = [idx |-> session_index_ + 1, len |-> l, start |-> 0]
  /\ pc' = IF buffers_ = <<>> THEN "direct" ELSE "cache"
  /\ UNCHANGED <<buffers_, throttle_on_, open, wire, dropped, recut>>

-----------------------------------------------------------------------------
(* add_to_cache: queue record b, or drop it when throttling. *)

\* Mutant: throttling never starts.
MutThrottledNever == FALSE

\* The throttle's decision; it also is the throttle's new value.
Throttled ==
  IF throttle_on_ THEN Len(buffers_) >= LowWater ELSE Len(buffers_) > HighWater

AddToCache(b) ==
  /\ throttle_on_' = Throttled
  /\ IF Throttled
       THEN /\ dropped' = dropped \cup {b.idx}
            /\ UNCHANGED <<buffers_, open>>
       ELSE /\ buffers_' = Append(buffers_, b)
            /\ open' = (open /\ Len(buffers_) < QMax)
            /\ UNCHANGED dropped

-----------------------------------------------------------------------------
(* send_cache: one step per call of send() in its loop. *)

\* The kernel took all that was left of the front record.
CacheFull ==
  /\ pc = "cache"
  /\ open
  /\ wire' = Written(Head(buffers_), Remaining(Head(buffers_)))
  /\ buffers_' = Tail(buffers_)
  /\ throttle_on_' = (throttle_on_ /\ Len(buffers_') >= LowWater)
  /\ pc' = IF buffers_' = <<>> THEN "direct" ELSE "cache"
  /\ UNCHANGED <<session_index_, open, cur, dropped, recut>>

\* The kernel took n bytes of the front record: b.set_start(res), whatever
\* start_pos_ was before.
CachePartial ==
  /\ pc = "cache"
  /\ open
  /\ LET b == Head(buffers_) IN
       /\ b.start > 0 => Len(wire) < MaxWire
       /\ \E n \in 1..(Remaining(b) - 1) :
            /\ wire' = Written(b, n)
            /\ buffers_' = [buffers_ EXCEPT ![1] = SetStart(b, n)]
       /\ recut' = (recut \/ b.start > 0)
  /\ UNCHANGED <<throttle_on_, session_index_, open, pc, cur, dropped>>

\* Mutant: the record being sent is forgotten when the queue cannot drain.
MutCacheWouldBlockForgets ==
  /\ pc = "cache"
  /\ open
  /\ pc' = "idle"
  /\ UNCHANGED <<buffers_, throttle_on_, open, session_index_, cur, wire,
                 dropped, recut>>

\* The kernel is full: the queue stays and the new record joins it.
CacheWouldBlock ==
  /\ pc = "cache"
  /\ open
  /\ AddToCache(cur)
  /\ pc' = "idle"
  /\ UNCHANGED <<session_index_, cur, wire, recut>>

-----------------------------------------------------------------------------
(* send_buffer with an empty queue: the record goes to the kernel directly. *)

DirectFull ==
  /\ pc = "direct"
  /\ open
  /\ wire' = Written(cur, cur.len)
  /\ pc' = "idle"
  /\ UNCHANGED <<buffers_, throttle_on_, session_index_, open, cur, dropped, recut>>

\* Mutant: the bytes already taken are forgotten: add_to_cache(ob, 0).
MutDirectPartialRestart ==
  /\ pc = "direct"
  /\ open
  /\ \E n \in 1..(cur.len - 1) : wire' = Written(cur, n)
  /\ AddToCache(cur)
  /\ pc' = "idle"
  /\ UNCHANGED <<session_index_, cur, recut>>

\* The kernel took n bytes: the rest is queued, add_to_cache(ob, res).
DirectPartial ==
  /\ pc = "direct"
  /\ open
  /\ \E n \in 1..(cur.len - 1) :
       /\ wire' = Written(cur, n)
       /\ AddToCache(SetStart(cur, n))
  /\ pc' = "idle"
  /\ UNCHANGED <<session_index_, cur, recut>>

DirectWouldBlock ==
  /\ pc = "direct"
  /\ open
  /\ AddToCache(cur)
  /\ pc' = "idle"
  /\ UNCHANGED <<session_index_, cur, wire, recut>>

-----------------------------------------------------------------------------
(* Failure and closing. *)

\* send() returns 0 or an error, always so on a closed descriptor:
\* send_buffer returns false and send_message closes the connection.
SendError ==
  /\ pc # "idle"
  /\ open' = FALSE
  /\ pc' = "idle"
  /\ UNCHANGED <<buffers_, throttle_on_, session_index_, cur, wire, dropped, recut>>

\* close_connection called without mtx_sender_ by another thread: a failed
\* read, an event callback, the heartbeat check of the publisher.
CloseConnection ==
  /\ open
  /\ open' = FALSE
  /\ UNCHANGED <<buffers_, throttle_on_, session_index_, pc, cur, wire, dropped, recut>>

\* Nobody has anything left to send (the bound MaxMsgs is used up).
Exhausted ==
  /\ pc = "idle"
  /\ session_index_ = MaxMsgs
  /\ UNCHANGED vars

Next ==
  \/ \E l \in Lens : SendMessage(l)
  \/ CacheFull
  \/ CachePartial
  \/ CacheWouldBlock
  \/ DirectFull
  \/ DirectPartial
  \/ DirectWouldBlock
  \/ SendError
  \/ CloseConnection
  \/ Exhausted

Spec == Init /\ [][Next]_vars

-----------------------------------------------------------------------------
(* Properties. *)

\* Every variable keeps its type; a queued record has at least one byte left
\* to send (send() is never called with length 0, whose result 0 the code
\* takes for a closed peer).
TypeOK ==
  /\ buffers_ \in Seq(Record)
  /\ throttle_on_ \in BOOLEAN
  /\ session_index_ \in Nat
  /\ open \in BOOLEAN
  /\ pc \in {"idle", "cache", "direct"}
  /\ cur \in Record \cup {NoRecord}
  /\ wire \in Seq(Byte)
  /\ dropped \subseteq 1..session_index_
  /\ recut \in BOOLEAN
  /\ \A i \in 1..Len(buffers_) : buffers_[i].start < buffers_[i].len
  /\ \A k \in 1..Len(wire) : wire[k].off < wire[k].len

\* A throttled connection has a backlog of at least low_water_mark_ records:
\* send_cache ends the throttle no later than the queue drains, so a
\* connection can not stay throttled with nothing to send.
ThrottleHysteresis == throttle_on_ => Len(buffers_) >= LowWater

\* The throttle keeps the queue one above the high-water mark at most: the
\* "Socket queue overflow, client is too slow" branch is never reached, a
\* slow client loses data but is never disconnected for being slow.
QueueBounded == Len(buffers_) <= HighWater + 1

Queued == {buffers_[i].idx : i \in 1..Len(buffers_)}

\* The throttle drops whole records only: once a byte of a record is on the
\* wire, add_to_cache never decides to drop it (the reader would otherwise
\* take the next record for the rest of this one).
NoBegunRecordDropped == \A k \in 1..Len(wire) : wire[k].idx \notin dropped

\* Byte y is what a reader that has just read x expects: the next byte of the
\* same record, or the first of a later one once x ended its record.
Follows(x, y) ==
  \/ y.idx = x.idx /\ y.off = x.off + 1
  \/ y.idx > x.idx /\ y.off = 0 /\ x.off = x.len - 1

\* Byte stream w is a concatenation of whole records, the last one perhaps
\* not finished yet.
Intact(w) ==
  /\ w # <<>> => w[1].off = 0
  /\ \A k \in 1..(Len(w) - 1) : Follows(w[k], w[k + 1])

\* README: "TCP shows reliable data transmission": what the kernel is given
\* is always a concatenation of whole records.
StreamIntact == Intact(wire)

\* As long as no record is cut short twice, partial writes, queueing, dropping
\* and errors keep the stream a concatenation of whole records.
StreamIntactUnlessRecut == ~recut => Intact(wire)

\* Byte stream w never goes back to an earlier record.
InOrder(w) == \A j, k \in 1..Len(w) : j < k => w[j].idx <= w[k].idx

\* Records never overtake one another, whether they go through the queue or
\* to the kernel directly, and even when bytes of one are sent twice.
WireInOrder == InOrder(wire)

\* The last byte of record i is on the wire.
Complete(i) == \E k \in 1..Len(wire) : wire[k].idx = i /\ wire[k].off = wire[k].len - 1

\* send_message returns true for records it queued or dropped: as long as the
\* connection is open each numbered record is sent to its last byte, waits in
\* the queue, was dropped by the throttle, or is the one being sent.
EveryRecordAccounted ==
  open => \A i \in 1..session_index_ :
            \/ Complete(i)
            \/ i \in Queued
            \/ i \in dropped
            \/ pc # "idle" /\ i = cur.idx

\* While the throttle is on the queue only drains: no record is accepted
\* between start_throttle and end_throttle.
ThrottledQueueOnlyDrains ==
  [][throttle_on_ => Len(buffers_') <= Len(buffers_)]_vars
=============================================================================
