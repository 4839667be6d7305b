---------------------------- MODULE TcpConnection ----------------------------
(***************************************************************************)
(* One direction of a TCP connection end to end: the sender of             *)
(* TcpSocketQueue, the kernel's byte stream and the receiver's             *)
(* TcpConnection::read_connection_buffer (tcp_connection.cpp).             *)
(*                                                                         *)
(* send_message writes a header that declares the record's length and then *)
(* archives the message into a buffer of ARCHIVE_BUFF_CAPACITY bytes; the  *)
(* result of the archiving is not looked at, so a message that does not    *)
(* fit is sent short of what its header declares.  The receiver parses the *)
(* stream header by header, watching the session index.                    *)
(***************************************************************************)
EXTENDS TcpSocketQueue

CONSTANTS
  Declared,    \* lengths headers declare: hdr_len + calc_len()
  HdrLen,      \* sizeof(UMsgHeader)
  Capacity,    \* ARCHIVE_BUFF_CAPACITY
  IndexMod     \* session indices are uint32_t on the wire: 2^32

ASSUME FrameAssumption ==
  /\ HdrLen \in Nat \ {0} /\ Capacity \in Nat /\ HdrLen <= Capacity
  /\ Declared \subseteq {d \in Nat : d > HdrLen}
  /\ \A d \in Declared : IF d <= Capacity THEN d \in Lens ELSE HdrLen..Capacity \subseteq Lens
  /\ IndexMod \in Nat \ {0, 1}

VARIABLES
  declared,              \* declared[i]: length in the header of record i
  delivered,             \* bytes of wire that reached the receiver's evbuffer
  consumed,              \* bytes of wire drained from it
  reader_open,           \* the receiver's connection is not closed
  reader_session_index_,
  log,                   \* history: records read, and whether a gap was logged
  garbled                \* history: bytes were read that are not one record

rvars == <<delivered, consumed, reader_open, reader_session_index_, log, garbled>>
cvars == <<vars, declared, rvars>>

CInit ==
  /\ Init
  /\ declared = <<>>
  /\ delivered = 0
  /\ consumed = 0
  /\ reader_open = TRUE
  /\ reader_session_index_ = 0
  /\ log = <<>>
  /\ garbled = FALSE

-----------------------------------------------------------------------------
(* The sender. *)

\* Bytes in the archive after "ar << m": the fields that do not fit are left
\* out (Records, CutShort).
Archived(d) == IF d <= Capacity THEN {d} ELSE HdrLen..Capacity

CSendMessage(d) ==
  /\ \E l \in Archived(d) : SendMessage(l)
  /\ declared' = Append(declared, d)
  /\ UNCHANGED rvars

SenderStep ==
  /\ \/ CacheFull \/ CachePartial \/ CacheWouldBlock
     \/ DirectFull \/ DirectPartial \/ DirectWouldBlock
     \/ SendError \/ CloseConnection
  /\ UNCHANGED <<declared, rvars>>

-----------------------------------------------------------------------------
(* The kernel. *)

Deliver ==
  /\ reader_open
  /\ delivered' \in (delivered + 1)..Len(wire)
  /\ UNCHANGED <<vars, declared, consumed, reader_open, reader_session_index_, log, garbled>>

-----------------------------------------------------------------------------
(* The receiver: one step per iteration of read_connection_buffer's loop. *)

Available == delivered - consumed

\* The n bytes that come next are the first n of a record.
RecordAt(n) ==
  \A k \in 1..n : /\ wire[consumed + k].idx = wire[consumed + 1].idx
                  /\ wire[consumed + k].off = k - 1

\* Mutant: one missing record is let pass.
MutGapLogged(x) ==
  reader_session_index_ # 0 /\ (x - reader_session_index_) % IndexMod \notin {1, 2}

\* "delta != 1" in uint32_t arithmetic, skipped while nothing has been read.
GapLogged(x) ==
  reader_session_index_ # 0 /\ (x - reader_session_index_) % IndexMod # 1

\* Mutant: a record is read although part of it has not arrived.
MutReadRecordIncomplete ==
  /\ reader_open
  /\ Available > HdrLen
  /\ RecordAt(HdrLen)
  /\ LET i == wire[consumed + 1].idx IN
       /\ reader_session_index_' = i % IndexMod
       /\ consumed' = consumed + declared[i]
       /\ log' = Append(log, [idx |-> i, gap |-> GapLogged(i % IndexMod)])
  /\ UNCHANGED <<vars, declared, delivered, reader_open, garbled>>

\* Mutant: the payload is taken to be one byte longer than it is.
MutReadRecordLong ==
  /\ reader_open
  /\ Available > HdrLen
  /\ RecordAt(HdrLen)
  /\ LET i == wire[consumed + 1].idx
         d == declared[i] + 1
     IN  /\ Available >= d
         /\ reader_session_index_' = i % IndexMod
         /\ consumed' = consumed + d
         /\ log' = Append(log, [idx |-> i, gap |-> GapLogged(i % IndexMod)])
         /\ garbled' = (garbled \/ ~RecordAt(d))
  /\ UNCHANGED <<vars, declared, delivered, reader_open>>

\* stream_in_archive: what was archived whole is read back; anything else may
\* by chance be read, or fails.
StreamedIn(d) == {TRUE, RecordAt(d)}

ReadRecord ==
  /\ reader_open
  /\ Available > HdrLen
  /\ RecordAt(HdrLen)
  /\ LET i == wire[consumed + 1].idx
         d == declared[i]
         x == i % IndexMod
     IN  /\ Available >= d
         /\ reader_session_index_' = x
         /\ IF d - HdrLen > Capacity
              THEN /\ reader_open' = FALSE
                   /\ consumed' = consumed + HdrLen
                   /\ UNCHANGED <<log, garbled>>
              ELSE /\ consumed' = consumed + d
                   /\ log' = Append(log, [idx |-> i, gap |-> GapLogged(x)])
                   /\ garbled' = (garbled \/ ~RecordAt(d))
                   /\ reader_open' \in StreamedIn(d)
  /\ UNCHANGED <<vars, declared, delivered>>

\* The header is made of bytes that are no header: as a rule its prefix is not
\* SOH and the connection is closed; by chance it may pass for one.
ReadGarbage ==
  /\ reader_open
  /\ Available > HdrLen
  /\ ~RecordAt(HdrLen)
  /\ garbled' = TRUE
  /\ \/ /\ reader_open' = FALSE
        /\ UNCHANGED <<consumed, reader_session_index_>>
     \/ /\ consumed' \in (consumed + HdrLen + 1)..delivered
        /\ reader_session_index_' \in 0..(IndexMod - 1)
        /\ UNCHANGED reader_open
  /\ UNCHANGED <<vars, declared, delivered, log>>

\* End of file or an error on the socket, or the receiver closes it itself.
ReaderDown ==
  /\ reader_open
  /\ reader_open' = FALSE
  /\ UNCHANGED <<vars, declared, delivered, consumed, reader_session_index_, log, garbled>>

\* Nothing left to send or to read (the bound MaxMsgs is used up).
CExhausted == Exhausted /\ UNCHANGED <<declared, rvars>>

CNext ==
  \/ \E d \in Declared : CSendMessage(d)
  \/ SenderStep
  \/ Deliver
  \/ ReadRecord
  \/ ReadGarbage
  \/ ReaderDown
  \/ CExhausted

CSpec == CInit /\ [][CNext]_cvars

-----------------------------------------------------------------------------
(* Properties. *)

\* Types, and the receiver reads only bytes that were delivered and the kernel
\* delivers only bytes that were written.
CTypeOK ==
  /\ TypeOK
  /\ declared \in Seq(Declared)
  /\ Len(declared) = session_index_
  /\ reader_open \in BOOLEAN
  /\ reader_session_index_ \in 0..(IndexMod - 1)
  /\ log \in Seq([idx : 1..MaxMsgs, gap : BOOLEAN])
  /\ garbled \in BOOLEAN
  /\ consumed \in Nat /\ delivered \in Nat
  /\ consumed <= delivered /\ delivered <= Len(wire)

\* A message was sent that does not fit the archive's buffer.
Oversized == \E k \in 1..Len(declared) : declared[k] > Capacity

\* The two things that can damage the stream: a record cut short twice by
\* send_cache and a message longer than its buffer.
Damaged == recut \/ Oversized

\* The receiver never takes anything but a whole record for a record, however
\* the stream is cut into deliveries, unless the sender cut a record twice or
\* the receiver has come to a message that did not fit the sender's buffer.
GarbledOnlyPastDamage ==
  garbled => recut \/ \E k \in 1..Len(log) : declared[log[k].idx] > Capacity

\* The receiver logs a session index gap at a record exactly when the throttle
\* dropped the records just before it; the first record read is never preceded
\* by a gap (the check is off for it).  Once the 32 bit index has wrapped the
\* check can miss gaps.
GapsExact ==
  ~Damaged => \A k \in 1..Len(log) :
    LET p == IF k = 1 THEN 0 ELSE log[k - 1].idx IN
    log[k].idx < IndexMod =>
      (log[k].gap <=> \E i \in dropped : p < i /\ i < log[k].idx)

-----------------------------------------------------------------------------
(* The connection implements LossyStream. *)

Ids(s) == [k \in 1..Len(s) |-> s[k].idx]

\* Records begun on the wire of which the receiver has not drained the header.
Unread ==
  {wire[k].idx : k \in {j \in 1..Len(wire) : j > consumed /\ wire[j].off = 0}}

\* Records in the queue of which no byte was written yet.
Unwritten ==
  {buffers_[i].idx : i \in {j \in 1..Len(buffers_) : buffers_[j].start = 0}}

\* A record counts as sent when send_buffer is done with it.
Sent == IF Damaged THEN 0 ELSE IF pc = "idle" THEN session_index_ ELSE session_index_ - 1

Pending == IF Damaged THEN {} ELSE Unread \cup Unwritten

Received == IF Damaged THEN <<>> ELSE Ids(log)

Down == Damaged \/ ~open

Abstract == INSTANCE LossyStream WITH
  Backlog <- LowWater, sent <- Sent, pending <- Pending, received <- Received,
  down <- Down, corrupt <- Damaged

\* The connection delivers in order, at most once, and drops a record only
\* when at least low_water_mark_ accepted ones have not been read.
ImplementsLossyStream == Abstract!Spec
=============================================================================
