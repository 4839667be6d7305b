------------------------ MODULE TcpConnectionProofs ------------------------
(***************************************************************************)
(* Theorems about TcpSocketQueue and TcpConnection, for every set of       *)
(* record lengths, all marks, every number of messages, every capacity of  *)
(* the archive and every width of the session index.                       *)
(*                                                                         *)
(* The first part is about the queue alone, and uses no assumption but its *)
(* own.  QueueSafe and ThrottledOnlyDrains need only the shape of the      *)
(* queue (QInv); StreamSafe also relates the queue to the bytes on the     *)
(* wire (SInv), NothingUnaccounted to all records ever numbered (AInv).    *)
(*                                                                         *)
(* The rest is about the connection: the receiver takes whole records for  *)
(* records, and the gaps it logs are exactly what the throttle of the      *)
(* sender dropped.  The second part adds to the invariants of the queue    *)
(* what the receiver relies on (WInv); the third follows the receiver      *)
(* along the wire (CInv); the last shows that every step is one of         *)
(* LossyStream (RInv).                                                     *)
(***************************************************************************)
EXTENDS TcpConnection, SequenceTheorems, FiniteSetTheorems, TLAPS

-----------------------------------------------------------------------------
(* The queue. *)

\* The types of a SingleRecordBuffer's fields.
LEMMA RecordFields ==
  ASSUME NEW b \in Record
  PROVE  /\ b.idx \in Nat \ {0}
         /\ b.len \in Nat \ {0}
         /\ b.start \in Nat
  BY LensAssumption DEF Record

\* What send() appends to the wire: the next n bytes of b, after all that was
\* there.
LEMMA WrittenProperties ==
  ASSUME wire \in Seq(Byte), NEW b \in Record, NEW n \in Nat, b.start + n <= b.len
  PROVE  /\ Written(b, n) \in Seq(Byte)
         /\ Len(Written(b, n)) = Len(wire) + n
         /\ \A k \in 1..Len(wire) : Written(b, n)[k] = wire[k]
         /\ \A k \in (Len(wire) + 1)..(Len(wire) + n) :
              /\ Written(b, n)[k].idx = b.idx
              /\ Written(b, n)[k].len = b.len
              /\ Written(b, n)[k].off = b.start + (k - Len(wire)) - 1
<1> DEFINE c == [i \in 1..n |-> [idx |-> b.idx, len |-> b.len, off |-> b.start + i - 1]]
<1>0. b.len \in Nat /\ b.start \in Nat
  BY LensAssumption DEF Record
<1>1. c \in [1..n -> Byte]
  BY <1>0 DEF Record, Byte
<1>2. c \in Seq(Byte) /\ Len(c) = n
  BY <1>1
<1>3. Len(wire) \in Nat
  BY LenProperties
<1>4. Written(b, n) = wire \o c
  BY DEF Written
<1> HIDE DEF c
<1>5. /\ wire \o c \in Seq(Byte)
      /\ Len(wire \o c) = Len(wire) + n
      /\ \A k \in 1..(Len(wire) + n) :
           (wire \o c)[k] = IF k <= Len(wire) THEN wire[k] ELSE c[k - Len(wire)]
  BY <1>2, ConcatProperties
<1>6. \A j \in 1..n : c[j].idx = b.idx /\ c[j].len = b.len /\ c[j].off = b.start + j - 1
  BY DEF c
<1>7. \A k \in (Len(wire) + 1)..(Len(wire) + n) :
         /\ k \in 1..(Len(wire) + n)
         /\ ~ (k <= Len(wire))
         /\ k - Len(wire) \in 1..n
  BY <1>3
<1> QED
  BY <1>3, <1>4, <1>5, <1>6, <1>7

\* Writing bytes of a record that are its own keeps the wire well typed.
LEMMA WrittenType ==
  ASSUME wire \in Seq(Byte), \A k \in 1..Len(wire) : wire[k].off < wire[k].len,
         NEW b \in Record, NEW n \in Nat, b.start + n <= b.len
  PROVE  /\ Written(b, n) \in Seq(Byte)
         /\ \A k \in 1..Len(Written(b, n)) : Written(b, n)[k].off < Written(b, n)[k].len
<1> DEFINE w == Written(b, n)
<1>1. /\ w \in Seq(Byte)
      /\ Len(w) = Len(wire) + n
      /\ \A k \in 1..Len(wire) : w[k] = wire[k]
      /\ \A k \in (Len(wire) + 1)..(Len(wire) + n) :
           w[k].idx = b.idx /\ w[k].len = b.len /\ w[k].off = b.start + (k - Len(wire)) - 1
  BY WrittenProperties
<1> HIDE DEF w
<1>2. Len(wire) \in Nat /\ b.len \in Nat /\ b.start \in Nat
  BY LenProperties, RecordFields
<1>3. \A k \in (Len(wire) + 1)..(Len(wire) + n) : w[k].off < w[k].len
  BY <1>1, <1>2
<1>4. \A k \in 1..Len(wire) : w[k].off < w[k].len
  BY <1>1
<1>5. \A k \in 1..Len(w) : k \in 1..Len(wire) \/ k \in (Len(wire) + 1)..(Len(wire) + n)
  BY <1>1, <1>2
<1>6. w \in Seq(Byte) /\ \A k \in 1..Len(w) : w[k].off < w[k].len
  BY <1>1, <1>3, <1>4, <1>5
<1> QED
  BY <1>6 DEF w

-----------------------------------------------------------------------------
\* What the holder of mtx_sender_ relies on: send_cache runs on a non-empty
\* queue, a record is written directly only if the queue is empty.
PcInv ==
  /\ pc = "cache" => buffers_ # <<>>
  /\ pc = "direct" => buffers_ = <<>>
  /\ pc # "idle" => cur \in Record /\ cur.start = 0 /\ cur.idx = session_index_

\* The part of the invariant that does not look at the wire.
QInv == TypeOK /\ PcInv /\ ThrottleHysteresis /\ QueueBounded

\* add_to_cache keeps the queue typed, the throttle's hysteresis and the bound.
LEMMA AddToCacheProperties ==
  ASSUME QInv, NEW b \in Record, b.start < b.len, b.idx \in 1..session_index_,
         AddToCache(b)
  PROVE  /\ buffers_' \in Seq(Record)
         /\ throttle_on_' \in BOOLEAN
         /\ open' \in BOOLEAN
         /\ dropped' \subseteq 1..session_index_
         /\ \A i \in 1..Len(buffers_') : buffers_'[i].start < buffers_'[i].len
         /\ throttle_on_' => Len(buffers_') >= LowWater
         /\ Len(buffers_') <= HighWater + 1
<1> USE MarksAssumption
<1>0. /\ buffers_ \in Seq(Record)
      /\ Len(buffers_) \in Nat
      /\ throttle_on_ \in BOOLEAN
      /\ open \in BOOLEAN
      /\ dropped \subseteq 1..session_index_
      /\ Len(buffers_) <= HighWater + 1
      /\ throttle_on_ => Len(buffers_) >= LowWater
      /\ \A i \in 1..Len(buffers_) : buffers_[i].start < buffers_[i].len
  BY LenProperties DEF QInv, TypeOK, QueueBounded, ThrottleHysteresis
<1>1. CASE Throttled
  <2>1. Len(buffers_) >= LowWater
    BY <1>0, <1>1 DEF Throttled
  <2> QED
    BY <1>0, <1>1, <2>1 DEF AddToCache
<1>2. CASE ~Throttled
  <2>1. Len(buffers_) <= HighWater
    BY <1>0, <1>2 DEF Throttled
  <2>2. /\ buffers_' = Append(buffers_, b)
        /\ throttle_on_' = FALSE
        /\ dropped' = dropped
        /\ open' \in BOOLEAN
    BY <1>2 DEF AddToCache
  <2>3. /\ buffers_' \in Seq(Record)
        /\ Len(buffers_') = Len(buffers_) + 1
    BY <1>0, <2>2, AppendProperties
  <2>4. \A i \in 1..Len(buffers_') : buffers_'[i].start < buffers_'[i].len
    BY <1>0, <2>2, AppendProperties
  <2>5. Len(buffers_') <= HighWater + 1
    BY <1>0, <2>1, <2>3
  <2> QED
    BY <1>0, <2>2, <2>3, <2>4, <2>5
<1> QED
  BY <1>1, <1>2

\* Every step of send_message and close_connection keeps QInv.
LEMMA QInvStep ==
  ASSUME QInv, [Next]_vars
  PROVE  QInv'
<1> USE MarksAssumption, LensAssumption
<1>0. /\ buffers_ \in Seq(Record)
      /\ Len(buffers_) \in Nat
      /\ wire \in Seq(Byte)
      /\ session_index_ \in Nat
      /\ \A k \in 1..Len(wire) : wire[k].off < wire[k].len
  BY LenProperties DEF QInv, TypeOK
<1>a. ASSUME pc # "idle"
      PROVE  /\ cur \in Record
             /\ cur.start = 0
             /\ cur.idx = session_index_
             /\ cur.idx \in 1..session_index_
             /\ cur.start < cur.len
  <2>1. cur \in Record /\ cur.start = 0 /\ cur.idx = session_index_
    BY <1>a DEF QInv, PcInv
  <2>2. cur.idx \in 1..session_index_ /\ cur.start < cur.len
    BY <2>1, RecordFields
  <2> QED
    BY <2>1, <2>2
<1>b. ASSUME pc = "cache"
      PROVE  /\ buffers_ # <<>>
             /\ Head(buffers_) = buffers_[1]
             /\ Head(buffers_) \in Record
             /\ Head(buffers_).start < Head(buffers_).len
             /\ Len(buffers_) > 0
  BY <1>0, <1>b, EmptySeq, HeadTailProperties DEF QInv, PcInv, TypeOK
<1>1. ASSUME NEW l \in Lens, SendMessage(l)
      PROVE  QInv'
  BY <1>0, <1>1 DEF QInv, TypeOK, PcInv, ThrottleHysteresis, QueueBounded, SendMessage,
       Record
<1>2. ASSUME CacheFull
      PROVE  QInv'
  <2> DEFINE b == Head(buffers_)
  <2>1. pc = "cache" BY <1>2 DEF CacheFull
  <2>2. /\ b \in Record /\ Remaining(b) \in Nat /\ b.start + Remaining(b) <= b.len
        /\ b.start \in Nat /\ b.len \in Nat
    BY <1>b, <2>1, RecordFields DEF Remaining
  <2>3. /\ wire' \in Seq(Byte)
        /\ \A k \in 1..Len(wire') : wire'[k].off < wire'[k].len
    <3>1. wire' = Written(b, Remaining(b))
      BY <1>2 DEF CacheFull
    <3> HIDE DEF b
    <3> QED
      BY <1>0, <2>2, <3>1, WrittenType
  <2>4. /\ buffers_' = Tail(buffers_)
        /\ buffers_' \in Seq(Record)
        /\ Len(buffers_') = Len(buffers_) - 1
        /\ \A i \in 1..Len(buffers_') : buffers_'[i] = buffers_[i + 1]
    BY <1>0, <1>2, <1>b, <2>1, HeadTailProperties DEF CacheFull
  <2>5. \A i \in 1..Len(buffers_') : buffers_'[i].start < buffers_'[i].len
    BY <1>0, <2>4 DEF QInv, TypeOK
  <2>6. throttle_on_' \in BOOLEAN /\ (throttle_on_' => Len(buffers_') >= LowWater)
    BY <1>2 DEF CacheFull
  <2>7. UNCHANGED <<session_index_, open, cur, dropped, recut>>
    BY <1>2 DEF CacheFull
  <2>8. pc' = IF buffers_' = <<>> THEN "direct" ELSE "cache"
    BY <1>2 DEF CacheFull
  <2>9. TypeOK'
    BY <2>3, <2>4, <2>5, <2>6, <2>7, <2>8 DEF QInv, TypeOK
  <2>10. PcInv'
    BY <1>a, <2>1, <2>7, <2>8 DEF PcInv
  <2>11. ThrottleHysteresis' /\ QueueBounded'
    BY <1>0, <2>4, <2>6 DEF QInv, ThrottleHysteresis, QueueBounded
  <2> QED
    BY <2>9, <2>10, <2>11 DEF QInv
<1>3. ASSUME CachePartial
      PROVE  QInv'
  <2> DEFINE b == Head(buffers_)
  <2>1. pc = "cache" BY <1>3 DEF CachePartial
  <2>2. PICK n \in 1..(Remaining(b) - 1) :
          /\ wire' = Written(b, n)
          /\ buffers_' = [buffers_ EXCEPT ![1] = SetStart(b, n)]
    BY <1>3 DEF CachePartial
  <2>3. /\ b \in Record /\ b = buffers_[1] /\ Len(buffers_) > 0 /\ buffers_ # <<>>
        /\ b.start \in Nat /\ b.len \in Nat /\ n \in Nat /\ b.start + n <= b.len /\ n < b.len
    BY <1>b, <2>1, <2>2, RecordFields DEF Remaining
  <2>4. /\ wire' \in Seq(Byte)
        /\ \A k \in 1..Len(wire') : wire'[k].off < wire'[k].len
    <3> HIDE DEF b
    <3> QED
      BY <1>0, <2>2, <2>3, WrittenType
  <2>5. SetStart(b, n) \in Record
    BY <2>2, <2>3 DEF Record, SetStart
  <2>6. /\ buffers_' \in Seq(Record)
        /\ Len(buffers_') = Len(buffers_)
        /\ \A j \in 1..Len(buffers_) :
             buffers_'[j] = IF j = 1 THEN SetStart(b, n) ELSE buffers_[j]
    <3> HIDE DEF b
    <3> DEFINE e == SetStart(b, n)
    <3>1. e \in Record /\ 1 \in 1..Len(buffers_) BY <1>0, <2>3, <2>5
    <3>2. buffers_' = [buffers_ EXCEPT ![1] = e] BY <2>2
    <3> HIDE DEF e
    <3>3. QED BY <1>0, <3>1, <3>2, ExceptSeq DEF e
  <2>7. \A i \in 1..Len(buffers_') : buffers_'[i].start < buffers_'[i].len
    <3> DEFINE e == SetStart(b, n)
    <3>1. e.start = n /\ e.len = b.len
      BY DEF SetStart
    <3>2. \A j \in 1..Len(buffers_) : buffers_'[j] = IF j = 1 THEN e ELSE buffers_[j]
      BY <2>6
    <3>3. n < b.len
      BY <2>3
    <3>4. \A i \in 1..Len(buffers_) : buffers_[i].start < buffers_[i].len
      BY DEF QInv, TypeOK
    <3> HIDE DEF b, e
    <3>5. \A j \in 1..Len(buffers_) : buffers_'[j].start < buffers_'[j].len
      BY <3>1, <3>2, <3>3, <3>4
    <3> QED
      BY <2>6, <3>5
  <2>8. /\ UNCHANGED <<throttle_on_, session_index_, open, pc, cur, dropped>>
        /\ recut' \in BOOLEAN
    BY <1>3 DEF CachePartial
  <2>9. TypeOK'
    BY <2>4, <2>6, <2>7, <2>8 DEF QInv, TypeOK
  <2>10. PcInv'
    BY <1>0, <1>a, <2>1, <2>3, <2>6, <2>8, EmptySeq DEF PcInv
  <2>11. ThrottleHysteresis' /\ QueueBounded'
    BY <2>6, <2>8 DEF QInv, ThrottleHysteresis, QueueBounded
  <2> QED
    BY <2>9, <2>10, <2>11 DEF QInv
<1>4. ASSUME CacheWouldBlock \/ DirectWouldBlock
      PROVE  QInv'
  <2>1. /\ pc # "idle"
        /\ AddToCache(cur)
        /\ pc' = "idle"
        /\ UNCHANGED <<session_index_, cur, wire, recut>>
    BY <1>4 DEF CacheWouldBlock, DirectWouldBlock
  <2>2. TypeOK'
    BY <1>0, <1>a, <2>1, AddToCacheProperties DEF QInv, TypeOK
  <2>3. PcInv'
    BY <2>1 DEF PcInv
  <2>4. ThrottleHysteresis' /\ QueueBounded'
    BY <1>0, <1>a, <2>1, AddToCacheProperties DEF ThrottleHysteresis, QueueBounded
  <2> QED
    BY <2>2, <2>3, <2>4 DEF QInv
<1>5. ASSUME DirectFull
      PROVE  QInv'
  <2>1. /\ pc = "direct"
        /\ pc' = "idle"
        /\ wire' = Written(cur, cur.len)
        /\ UNCHANGED <<buffers_, throttle_on_, session_index_, open, cur, dropped, recut>>
    BY <1>5 DEF DirectFull
  <2>2. cur \in Record /\ cur.len \in Nat /\ cur.start + cur.len <= cur.len /\ cur.start = 0
    BY <1>a, <2>1, RecordFields
  <2>3. /\ wire' \in Seq(Byte)
        /\ \A k \in 1..Len(wire') : wire'[k].off < wire'[k].len
    <3> QED
      BY <1>0, <2>1, <2>2, WrittenType
  <2> QED
    BY <2>1, <2>3 DEF QInv, TypeOK, PcInv, ThrottleHysteresis, QueueBounded
<1>6. ASSUME DirectPartial
      PROVE  QInv'
  <2>1. PICK n \in 1..(cur.len - 1) :
          /\ wire' = Written(cur, n)
          /\ AddToCache(SetStart(cur, n))
    BY <1>6 DEF DirectPartial
  <2>2. /\ pc = "direct"
        /\ pc' = "idle"
        /\ UNCHANGED <<session_index_, cur, recut>>
    BY <1>6 DEF DirectPartial
  <2>3. /\ cur \in Record /\ cur.len \in Nat /\ n \in Nat /\ cur.start = 0
        /\ cur.start + n <= cur.len
        /\ n < cur.len
    BY <1>a, <2>1, <2>2, RecordFields
  <2> DEFINE e == SetStart(cur, n)
  <2>4. /\ e \in Record
        /\ e.start < e.len
        /\ e.idx \in 1..session_index_
        /\ AddToCache(e)
    BY <1>a, <2>1, <2>2, <2>3 DEF Record, SetStart
  <2>5. /\ wire' \in Seq(Byte)
        /\ \A k \in 1..Len(wire') : wire'[k].off < wire'[k].len
    <3> QED
      BY <1>0, <2>1, <2>3, WrittenType
  <2> HIDE DEF e
  <2>6. TypeOK'
    BY <1>0, <2>2, <2>4, <2>5, AddToCacheProperties DEF QInv, TypeOK
  <2>7. PcInv'
    BY <2>2 DEF PcInv
  <2>8. ThrottleHysteresis' /\ QueueBounded'
    BY <1>0, <2>4, AddToCacheProperties DEF ThrottleHysteresis, QueueBounded
  <2> QED
    BY <2>6, <2>7, <2>8 DEF QInv
<1>7. ASSUME SendError \/ CloseConnection
      PROVE  QInv'
  <2>1. /\ UNCHANGED <<buffers_, throttle_on_, session_index_, cur, wire, dropped, recut>>
        /\ open' = FALSE
        /\ pc' \in {"idle", pc}
    BY <1>7 DEF SendError, CloseConnection
  <2>2. TypeOK'
    BY <2>1 DEF QInv, TypeOK
  <2>3. PcInv'
    BY <2>1 DEF QInv, PcInv
  <2>4. ThrottleHysteresis' /\ QueueBounded'
    BY <2>1 DEF QInv, ThrottleHysteresis, QueueBounded
  <2> QED
    BY <2>2, <2>3, <2>4 DEF QInv
<1>8. ASSUME UNCHANGED vars
      PROVE  QInv'
  BY <1>8 DEF QInv, TypeOK, PcInv, ThrottleHysteresis, QueueBounded, vars
<1> QED
  BY <1>1, <1>2, <1>3, <1>4, <1>5, <1>6, <1>7, <1>8 DEF Next, Exhausted

\* A new connection satisfies QInv.
LEMMA QInvInit ==
  ASSUME Init
  PROVE  QInv
<1>2. /\ buffers_ = <<>> /\ buffers_ \in Seq(Record) /\ Len(buffers_) = 0
      /\ wire \in Seq(Byte) /\ Len(wire) = 0
  BY EmptySeq DEF Init
<1>3. /\ \A i \in 1..Len(buffers_) : buffers_[i].start < buffers_[i].len
      /\ \A k \in 1..Len(wire) : wire[k].off < wire[k].len
  BY <1>2
<1>a. /\ dropped \subseteq 1..session_index_
      /\ session_index_ \in Nat
  BY DEF Init
<1>b. TypeOK
  BY <1>2, <1>3, <1>a DEF Init, TypeOK
<1>4. PcInv /\ ThrottleHysteresis
  BY DEF Init, PcInv, ThrottleHysteresis
<1>5. QueueBounded
  BY <1>2, MarksAssumption DEF QueueBounded
<1> QED
  BY <1>b, <1>4, <1>5 DEF QInv

LEMMA QueueInvariant == Spec => []QInv
<1>1. Init => QInv
  BY QInvInit
<1>2. QInv /\ [Next]_vars => QInv'
  BY QInvStep
<1> QED
  BY <1>1, <1>2, PTL DEF Spec

\* For any marks, lengths and number of messages every variable keeps its type.
THEOREM QueueTyped == Spec => []TypeOK
<1>1. QInv => TypeOK
  BY DEF QInv
<1> QED
  BY <1>1, QueueInvariant, PTL

\* For any marks with 0 < low <= high + 1 < max: add_to_cache and send_cache
\* keep a throttled connection at a backlog, and the overflow branch of
\* add_to_cache is unreachable.
THEOREM QueueSafe == Spec => [](ThrottleHysteresis /\ QueueBounded)
<1>1. QInv => ThrottleHysteresis /\ QueueBounded
  BY DEF QInv
<1> QED
  BY <1>1, QueueInvariant, PTL

\* For any marks: between start_throttle and end_throttle no record enters the
\* queue, although add_to_cache has a branch that would let one in.
THEOREM ThrottledOnlyDrains == Spec => ThrottledQueueOnlyDrains
<1>1. QInv /\ [Next]_vars => [throttle_on_ => Len(buffers_') <= Len(buffers_)]_vars
  <2>1. SUFFICES ASSUME QInv, Next, throttle_on_
                 PROVE  Len(buffers_') <= Len(buffers_)
    OBVIOUS
  <2>2. /\ buffers_ \in Seq(Record)
        /\ Len(buffers_) \in Nat
        /\ Len(buffers_) >= LowWater
        /\ buffers_ # <<>>
    BY <2>1, LenProperties, EmptySeq, MarksAssumption
    DEF QInv, TypeOK, ThrottleHysteresis
  <2>3. Throttled
    BY <2>1, <2>2 DEF Throttled
  <2>4. ASSUME NEW r, AddToCache(r)
        PROVE  buffers_' = buffers_
    BY <2>3, <2>4 DEF AddToCache
  <2>5. CASE CacheFull
    BY <2>2, <2>5, HeadTailProperties DEF CacheFull
  <2>6. CASE CachePartial
    BY <2>2, <2>6 DEF CachePartial
  <2>7. CASE CacheWouldBlock \/ DirectPartial \/ DirectWouldBlock
    BY <2>2, <2>4, <2>7 DEF CacheWouldBlock, DirectPartial, DirectWouldBlock
  <2>8. ASSUME \/ \E l \in Lens : SendMessage(l)
               \/ DirectFull \/ SendError \/ CloseConnection \/ Exhausted
        PROVE  buffers_' = buffers_
    BY <2>8 DEF SendMessage, DirectFull, SendError, CloseConnection, Exhausted, vars
  <2> QED
    BY <2>1, <2>2, <2>5, <2>6, <2>7, <2>8 DEF Next
<1>2. Init => QInv
  BY QInvInit
<1>3. QInv /\ [Next]_vars => QInv'
  BY QInvStep
<1> QED
  BY <1>1, <1>2, <1>3, PTL DEF Spec, ThrottledQueueOnlyDrains

-----------------------------------------------------------------------------
\* Queued records are numbered in queue order, before the record being sent,
\* and only the front one can have bytes on the wire.
QueueOrder ==
  /\ \A i, j \in 1..Len(buffers_) : i < j => buffers_[i].idx < buffers_[j].idx
  /\ \A i \in 1..Len(buffers_) :
       /\ buffers_[i].idx <= session_index_
       /\ pc # "idle" => buffers_[i].idx < session_index_
       /\ i > 1 => buffers_[i].start = 0

\* What is on the wire comes before what is queued and what is being sent,
\* the begun part of the front record excepted.
WireOrder ==
  /\ InOrder(wire)
  /\ \A k \in 1..Len(wire) :
       /\ wire[k].idx <= session_index_
       /\ pc # "idle" => wire[k].idx < session_index_
       /\ \A i \in 1..Len(buffers_) :
            \/ wire[k].idx < buffers_[i].idx
            \/ i = 1 /\ buffers_[1].start > 0 /\ wire[k].idx = buffers_[1].idx

\* A dropped record is neither on the wire nor queued nor being sent.
DropInv ==
  /\ NoBegunRecordDropped
  /\ \A i \in 1..Len(buffers_) : buffers_[i].idx \notin dropped
  /\ pc # "idle" => session_index_ \notin dropped

\* Where the wire ends: inside the front record, just before its start, or at
\* the end of a record.
Edge ==
  /\ (buffers_ # <<>> /\ buffers_[1].start > 0) =>
       /\ wire # <<>>
       /\ wire[Len(wire)].idx = buffers_[1].idx
       /\ wire[Len(wire)].off = buffers_[1].start - 1
  /\ (buffers_ = <<>> \/ buffers_[1].start = 0) =>
       (wire # <<>> => wire[Len(wire)].off = wire[Len(wire)].len - 1)

\* The inductive invariant of the sender.
SInv ==
  /\ QInv
  /\ QueueOrder
  /\ WireOrder
  /\ DropInv
  /\ ~recut => Intact(wire) /\ Edge

\* The types of a byte's fields.
LEMMA ByteFields ==
  ASSUME NEW w \in Seq(Byte), NEW k \in 1..Len(w)
  PROVE  w[k].idx \in Nat \ {0} /\ w[k].len \in Nat \ {0} /\ w[k].off \in Nat
<1>1. w[k] \in Byte
  BY ElementOfSeq
<1> QED
  BY <1>1, LensAssumption DEF Byte

\* Writing n bytes of b, a record nothing on the wire is later than.
LEMMA WriteInOrder ==
  ASSUME wire \in Seq(Byte), NEW b \in Record, NEW n \in Nat \ {0},
         b.start + n <= b.len, InOrder(wire),
         \A k \in 1..Len(wire) : wire[k].idx <= b.idx
  PROVE  LET w == Written(b, n) IN
         /\ w \in Seq(Byte)
         /\ InOrder(w)
         /\ \A k \in 1..Len(w) : (k \in 1..Len(wire) /\ w[k] = wire[k]) \/ w[k].idx = b.idx
         /\ w # <<>> /\ Len(w) \in 1..Len(w)
         /\ w[Len(w)].idx = b.idx
         /\ w[Len(w)].len = b.len
         /\ w[Len(w)].off = b.start + n - 1
<1> DEFINE w == Written(b, n)
<1>1. /\ w \in Seq(Byte)
      /\ Len(w) = Len(wire) + n
      /\ \A k \in 1..Len(wire) : w[k] = wire[k]
      /\ \A k \in (Len(wire) + 1)..(Len(wire) + n) :
           w[k].idx = b.idx /\ w[k].len = b.len /\ w[k].off = b.start + (k - Len(wire)) - 1
  BY WrittenProperties
<1> HIDE DEF w
<1>2. Len(wire) \in Nat /\ b.idx \in Nat /\ b.len \in Nat /\ b.start \in Nat
  BY LenProperties, RecordFields
<1>3. Len(w) \in (Len(wire) + 1)..(Len(wire) + n) /\ Len(w) \in 1..Len(w)
  BY <1>1, <1>2
<1>4. /\ w[Len(w)].idx = b.idx
      /\ w[Len(w)].len = b.len
      /\ w[Len(w)].off = b.start + n - 1
  <2>1. w[Len(w)].idx = b.idx /\ w[Len(w)].len = b.len
    BY <1>1, <1>3
  <2>2. w[Len(w)].off = b.start + (Len(w) - Len(wire)) - 1
    BY <1>1, <1>3
  <2> QED
    BY <1>1, <1>2, <2>1, <2>2
<1>5. w # <<>>
  BY <1>1, <1>3, EmptySeq
<1>6. \A k \in 1..Len(w) : k \in 1..Len(wire) \/ k \in (Len(wire) + 1)..(Len(wire) + n)
  BY <1>1, <1>2
<1>7. \A k \in 1..Len(w) : (k \in 1..Len(wire) /\ w[k] = wire[k]) \/ w[k].idx = b.idx
  BY <1>1, <1>6
<1>8. ASSUME NEW j \in 1..Len(w), NEW k \in 1..Len(w), j < k
      PROVE  w[j].idx <= w[k].idx
  <2>1. CASE k \in 1..Len(wire)
    <3>1. j \in 1..Len(wire)
      BY <1>1, <1>2, <1>8, <2>1
    <3> QED
      BY <1>1, <1>8, <2>1, <3>1 DEF InOrder
  <2>2. CASE k \in (Len(wire) + 1)..(Len(wire) + n)
    <3>1. w[k].idx = b.idx
      BY <1>1, <2>2
    <3>2. w[j].idx <= b.idx
      <4>1. CASE j \in 1..Len(wire) /\ w[j] = wire[j]
        BY <4>1
      <4>2. CASE w[j].idx = b.idx
        BY <1>2, <4>2
      <4> QED
        BY <1>7, <4>1, <4>2
    <3> QED
      BY <3>1, <3>2
  <2> QED
    BY <1>6, <2>1, <2>2
<1>9. InOrder(w)
  BY <1>8 DEF InOrder
<1> QED
  BY <1>1, <1>3, <1>4, <1>5, <1>7, <1>9 DEF w

\* Writing on from exactly where the stream ends keeps it intact.
LEMMA WriteIntact ==
  ASSUME wire \in Seq(Byte), NEW b \in Record, NEW n \in Nat \ {0},
         b.start + n <= b.len, Intact(wire),
         b.start > 0 => /\ wire # <<>>
                        /\ wire[Len(wire)].idx = b.idx
                        /\ wire[Len(wire)].off = b.start - 1,
         b.start = 0 /\ wire # <<>> => /\ wire[Len(wire)].idx < b.idx
                                      /\ wire[Len(wire)].off = wire[Len(wire)].len - 1
  PROVE  Intact(Written(b, n))
<1> DEFINE w == Written(b, n)
<1>1. /\ w \in Seq(Byte)
      /\ Len(w) = Len(wire) + n
      /\ \A k \in 1..Len(wire) : w[k] = wire[k]
      /\ \A k \in (Len(wire) + 1)..(Len(wire) + n) :
           w[k].idx = b.idx /\ w[k].len = b.len /\ w[k].off = b.start + (k - Len(wire)) - 1
  BY WrittenProperties
<1> HIDE DEF w
<1>2. Len(wire) \in Nat /\ b.idx \in Nat /\ b.len \in Nat /\ b.start \in Nat
  BY LenProperties, RecordFields
<1>3. wire = <<>> <=> Len(wire) = 0
  BY EmptySeq
<1>4. w[1].off = 0
  <2>1. CASE wire = <<>>
    <3>1. b.start = 0
      BY <1>2, <2>1
    <3>2. 1 \in (Len(wire) + 1)..(Len(wire) + n) /\ Len(wire) = 0
      BY <1>2, <1>3, <2>1
    <3> QED
      BY <1>1, <1>2, <3>1, <3>2
  <2>2. CASE wire # <<>>
    <3>1. 1 \in 1..Len(wire)
      BY <1>2, <1>3, <2>2
    <3> QED
      BY <1>1, <2>2, <3>1 DEF Intact
  <2> QED
    BY <2>1, <2>2
<1>5. ASSUME NEW k \in 1..(Len(w) - 1)
      PROVE  Follows(w[k], w[k + 1])
  <2>1. CASE k \in 1..(Len(wire) - 1)
    <3>1. k \in 1..Len(wire) /\ k + 1 \in 1..Len(wire)
      BY <1>2, <2>1
    <3> QED
      BY <1>1, <2>1, <3>1 DEF Intact
  <2>2. CASE k = Len(wire)
    <3>1. /\ k \in 1..Len(wire)
          /\ k + 1 \in (Len(wire) + 1)..(Len(wire) + n)
          /\ wire # <<>>
      BY <1>2, <1>3, <1>5, <2>2
    <3>2. /\ w[k] = wire[Len(wire)]
          /\ w[k + 1].idx = b.idx
          /\ w[k + 1].off = b.start + ((k + 1) - Len(wire)) - 1
      BY <1>1, <2>2, <3>1
    <3>3. w[k + 1].off = b.start
      BY <1>2, <2>2, <3>2
    <3>4. /\ wire[Len(wire)].off \in Nat /\ wire[Len(wire)].len \in Nat
          /\ wire[Len(wire)].idx \in Nat
      BY <2>2, <3>1, ByteFields
    <3>5. CASE b.start > 0
      BY <1>2, <3>1, <3>2, <3>3, <3>4, <3>5 DEF Follows
    <3>6. CASE b.start = 0
      BY <1>2, <3>1, <3>2, <3>3, <3>4, <3>6 DEF Follows
    <3> QED
      BY <1>2, <3>5, <3>6
  <2>3. CASE k \in (Len(wire) + 1)..(Len(wire) + n - 1)
    <3>1. /\ k \in (Len(wire) + 1)..(Len(wire) + n)
          /\ k + 1 \in (Len(wire) + 1)..(Len(wire) + n)
      BY <1>2, <2>3
    <3>2. /\ w[k].idx = b.idx /\ w[k + 1].idx = b.idx
          /\ w[k].off = b.start + (k - Len(wire)) - 1
          /\ w[k + 1].off = b.start + ((k + 1) - Len(wire)) - 1
      BY <1>1, <3>1
    <3>3. w[k + 1].off = w[k].off + 1
      BY <1>2, <3>2
    <3> QED
      BY <3>2, <3>3 DEF Follows
  <2> QED
    BY <1>1, <1>2, <2>1, <2>2, <2>3
<1>6. Intact(w)
  BY <1>4, <1>5 DEF Intact
<1> QED
  BY <1>6 DEF w

\* A record offered to an empty queue is never dropped.
LEMMA AddToCacheCases ==
  ASSUME QInv, NEW b \in Record, AddToCache(b)
  PROVE  \/ /\ buffers_ # <<>>
            /\ buffers_' = buffers_
            /\ dropped' = dropped \cup {b.idx}
         \/ /\ buffers_' = Append(buffers_, b)
            /\ dropped' = dropped
<1>1. /\ Len(buffers_) \in Nat
      /\ buffers_ = <<>> => Len(buffers_) = 0
      /\ throttle_on_ => Len(buffers_) >= LowWater
  BY LenProperties, EmptySeq DEF QInv, TypeOK, ThrottleHysteresis
<1>2. Throttled => buffers_ # <<>>
  BY <1>1, MarksAssumption DEF Throttled
<1> QED
  BY <1>2 DEF AddToCache

\* Queueing the record being sent, whole or with its first bytes written: it
\* comes after all other records and can only be cut if it is alone.
LEMMA AddToCacheOrder ==
  ASSUME QInv, QueueOrder, DropInv, pc # "idle", pc' = "idle",
         session_index_' = session_index_,
         NEW b \in Record, AddToCache(b), b.idx = session_index_,
         b.start = 0 \/ buffers_ = <<>>
  PROVE  /\ QueueOrder'
         /\ \A i \in 1..Len(buffers_') :
              \/ i \in 1..Len(buffers_) /\ buffers_'[i] = buffers_[i]
              \/ i = Len(buffers_) + 1 /\ buffers_'[i] = b /\ dropped' = dropped
         /\ \A i \in 1..Len(buffers_') : buffers_'[i].idx \notin dropped'
<1>1. /\ buffers_ \in Seq(Record) /\ Len(buffers_) \in Nat
      /\ session_index_ \in Nat
      /\ buffers_ = <<>> => Len(buffers_) = 0
      /\ \A i \in 1..Len(buffers_) : buffers_[i].idx \in Nat
  BY LenProperties, EmptySeq, ElementOfSeq, RecordFields DEF QInv, TypeOK
<1>2. \A i \in 1..Len(buffers_) : buffers_[i].idx < session_index_
  BY DEF QueueOrder
<1>3. CASE buffers_ # <<>> /\ buffers_' = buffers_ /\ dropped' = dropped \cup {b.idx}
  <2>1. QueueOrder'
    BY <1>3 DEF QueueOrder
  <2>2. \A i \in 1..Len(buffers_) : buffers_[i].idx # b.idx
    BY <1>1, <1>2
  <2> QED
    BY <1>3, <2>1, <2>2 DEF DropInv
<1>4. CASE buffers_' = Append(buffers_, b) /\ dropped' = dropped
  <2>1. /\ Len(buffers_') = Len(buffers_) + 1
        /\ \A i \in 1..Len(buffers_) : buffers_'[i] = buffers_[i]
        /\ buffers_'[Len(buffers_) + 1] = b
    BY <1>1, <1>4, AppendProperties
  <2>2. \A i \in 1..Len(buffers_') : i \in 1..Len(buffers_) \/ i = Len(buffers_) + 1
    BY <1>1, <2>1
  <2>3. ASSUME NEW i \in 1..Len(buffers_'), NEW j \in 1..Len(buffers_'), i < j
        PROVE  buffers_'[i].idx < buffers_'[j].idx
    <3>1. i \in 1..Len(buffers_)
      BY <1>1, <2>1, <2>3
    <3>2. CASE j \in 1..Len(buffers_)
      BY <2>1, <2>3, <3>1, <3>2 DEF QueueOrder
    <3>3. CASE j = Len(buffers_) + 1
      BY <1>2, <2>1, <3>1, <3>3
    <3> QED
      BY <2>2, <3>2, <3>3
  <2>4. ASSUME NEW i \in 1..Len(buffers_')
        PROVE  buffers_'[i].idx <= session_index_ /\ (i > 1 => buffers_'[i].start = 0)
    <3>1. CASE i \in 1..Len(buffers_)
      BY <2>1, <3>1 DEF QueueOrder
    <3>2. CASE i = Len(buffers_) + 1
      BY <1>1, <2>1, <3>2
    <3> QED
      BY <2>2, <3>1, <3>2
  <2>5. QueueOrder'
    BY <2>3, <2>4 DEF QueueOrder
  <2>6. \A i \in 1..Len(buffers_') : buffers_'[i].idx \notin dropped'
    BY <1>4, <2>1, <2>2 DEF DropInv
  <2> QED
    BY <1>4, <2>1, <2>2, <2>5, <2>6
<1> QED
  BY <1>3, <1>4, AddToCacheCases

\* send() takes nothing: the record goes to add_to_cache from either branch of
\* send_buffer.
LEMMA SInvWouldBlock ==
  ASSUME SInv, QInv', CacheWouldBlock \/ DirectWouldBlock
  PROVE  SInv'
<1>1. /\ pc # "idle"
      /\ pc = "direct" => buffers_ = <<>>
      /\ AddToCache(cur)
      /\ pc' = "idle"
      /\ UNCHANGED <<session_index_, cur, wire, recut>>
  BY DEF CacheWouldBlock, DirectWouldBlock, SInv, QInv, PcInv
<1>2. cur \in Record /\ cur.start = 0 /\ cur.idx = session_index_
  BY <1>1 DEF SInv, QInv, PcInv
<1>3. /\ QueueOrder'
      /\ \A i \in 1..Len(buffers_') :
           \/ i \in 1..Len(buffers_) /\ buffers_'[i] = buffers_[i]
           \/ i = Len(buffers_) + 1 /\ buffers_'[i] = cur /\ dropped' = dropped
      /\ \A i \in 1..Len(buffers_') : buffers_'[i].idx \notin dropped'
  BY <1>1, <1>2, AddToCacheOrder DEF SInv
<1>4. /\ \A k \in 1..Len(wire) : wire[k].idx \in Nat /\ wire[k].idx < session_index_
      /\ Len(buffers_) \in Nat
      /\ session_index_ \in Nat
      /\ buffers_ = <<>> <=> Len(buffers_) = 0
      /\ buffers_ \in Seq(Record)
  BY <1>1, ByteFields, LenProperties, EmptySeq DEF SInv, WireOrder, QInv, TypeOK
<1>5. ASSUME NEW k \in 1..Len(wire), NEW i \in 1..Len(buffers_')
      PROVE  \/ wire[k].idx < buffers_'[i].idx
             \/ i = 1 /\ buffers_'[1].start > 0 /\ wire[k].idx = buffers_'[1].idx
  <2>1. CASE i \in 1..Len(buffers_) /\ buffers_'[i] = buffers_[i]
    BY <1>5, <2>1 DEF SInv, WireOrder
  <2>2. CASE i = Len(buffers_) + 1 /\ buffers_'[i] = cur
    BY <1>2, <1>4, <2>2
  <2> QED
    BY <1>3, <2>1, <2>2
<1>6. WireOrder'
  BY <1>1, <1>4, <1>5 DEF SInv, WireOrder
<1>7. DropInv'
  <2>1. dropped' \subseteq dropped \cup {session_index_}
    BY <1>1, <1>2, AddToCacheCases DEF SInv
  <2>2. \A k \in 1..Len(wire) : wire[k].idx \notin dropped'
    BY <1>4, <2>1 DEF SInv, DropInv, NoBegunRecordDropped
  <2> QED
    BY <1>1, <1>3, <2>2 DEF DropInv, NoBegunRecordDropped
<1>8. ASSUME ~recut
      PROVE  Intact(wire)' /\ Edge'
  <2>1. Intact(wire) /\ Edge
    BY <1>8 DEF SInv
  <2>2. CASE buffers_ = <<>>
    <3>1. buffers_' = Append(buffers_, cur)
      BY <1>1, <1>2, <2>2, AddToCacheCases DEF SInv
    <3>2. buffers_'[1] = cur
      BY <1>2, <1>4, <2>2, <3>1, AppendProperties
    <3> QED
      BY <1>1, <1>2, <2>1, <2>2, <3>2 DEF Edge
  <2>3. CASE buffers_ # <<>>
    <3>1. 1 \in 1..Len(buffers_)
      BY <1>4, <2>3
    <3>2. buffers_' = buffers_ \/ buffers_' = Append(buffers_, cur)
      BY <1>1, <1>2, AddToCacheCases DEF SInv
    <3>3. buffers_'[1] = buffers_[1] /\ buffers_' # <<>>
      BY <1>2, <1>4, <2>3, <3>1, <3>2, AppendProperties
    <3> QED
      BY <1>1, <2>1, <2>3, <3>3 DEF Edge
  <2> QED
    BY <2>2, <2>3
<1> QED
  BY <1>1, <1>3, <1>6, <1>7, <1>8 DEF SInv

\* The record is written directly, whole or cut short for the first time.
LEMMA SInvDirect ==
  ASSUME SInv, QInv', DirectFull \/ DirectPartial
  PROVE  SInv'
<1>1. /\ pc = "direct"
      /\ pc' = "idle"
      /\ UNCHANGED <<session_index_, cur, recut>>
  BY DEF DirectFull, DirectPartial
<1>2. /\ buffers_ = <<>> /\ buffers_ \in Seq(Record) /\ Len(buffers_) = 0
      /\ cur \in Record /\ cur.start = 0 /\ cur.idx = session_index_
      /\ cur.len \in Nat \ {0}
      /\ wire \in Seq(Byte)
      /\ InOrder(wire)
      /\ session_index_ \in Nat
      /\ dropped' \in SUBSET Nat
  <2>1. buffers_ = <<>> /\ cur \in Record /\ cur.start = 0 /\ cur.idx = session_index_
    BY <1>1 DEF SInv, QInv, PcInv
  <2> QED
    BY <2>1, RecordFields, EmptySeq DEF SInv, QInv, TypeOK, WireOrder
<1>3. \A k \in 1..Len(wire) : wire[k].idx < cur.idx /\ wire[k].idx <= cur.idx
  BY <1>1, <1>2, ByteFields DEF SInv, WireOrder
<1>4. PICK n \in 1..cur.len :
        /\ wire' = Written(cur, n)
        /\ \/ n = cur.len /\ UNCHANGED <<buffers_, dropped>>
           \/ n < cur.len /\ AddToCache(SetStart(cur, n))
  <2>1. CASE DirectFull
    BY <1>2, <2>1 DEF DirectFull
  <2>2. CASE DirectPartial
    BY <1>2, <2>2 DEF DirectPartial
  <2> QED
    BY <2>1, <2>2
<1> DEFINE e == SetStart(cur, n)
<1>5. e \in Record /\ e.idx = session_index_ /\ e.start = n /\ e.len = cur.len
  BY <1>2, <1>4 DEF SetStart, Record
<1> HIDE DEF e
<1>6. /\ n < cur.len => buffers_' = Append(buffers_, e)
      /\ dropped' = dropped
  BY <1>2, <1>4, <1>5, AddToCacheCases DEF e, SInv
<1>7. /\ n < cur.len => buffers_' # <<>> /\ Len(buffers_') = 1 /\ buffers_'[1] = e
      /\ n = cur.len => buffers_' = <<>> /\ Len(buffers_') = 0
  <2>1. ASSUME n < cur.len PROVE buffers_' # <<>> /\ Len(buffers_') = 1 /\ buffers_'[1] = e
    BY <1>2, <1>5, <1>6, <2>1, AppendProperties
  <2>2. ASSUME n = cur.len PROVE buffers_' = <<>> /\ Len(buffers_') = 0
    BY <1>2, <1>4, <2>2
  <2> QED
    BY <2>1, <2>2
<1>8. n \in Nat \ {0} /\ cur.start + n <= cur.len
  BY <1>2, <1>4
<1>9. /\ wire' \in Seq(Byte)
      /\ InOrder(wire')
      /\ \A k \in 1..Len(wire') :
           (k \in 1..Len(wire) /\ wire'[k] = wire[k]) \/ wire'[k].idx = cur.idx
      /\ wire' # <<>> /\ Len(wire') \in 1..Len(wire')
      /\ wire'[Len(wire')].idx = cur.idx
      /\ wire'[Len(wire')].len = cur.len
      /\ wire'[Len(wire')].off = cur.start + n - 1
  BY <1>2, <1>3, <1>4, <1>8, WriteInOrder
<1>10. QueueOrder'
  <2>1. CASE n < cur.len
    BY <1>1, <1>2, <1>5, <1>7, <2>1 DEF QueueOrder
  <2>2. CASE n = cur.len
    BY <1>7, <2>2 DEF QueueOrder
  <2> QED
    BY <1>2, <1>4, <2>1, <2>2
<1>11. \A k \in 1..Len(wire') : wire'[k].idx <= session_index_
  BY <1>2, <1>3, <1>9
<1>12. ASSUME NEW k \in 1..Len(wire'), NEW i \in 1..Len(buffers_')
       PROVE  \/ wire'[k].idx < buffers_'[i].idx
              \/ i = 1 /\ buffers_'[1].start > 0 /\ wire'[k].idx = buffers_'[1].idx
  <2>1. CASE n < cur.len
    <3>a. Len(buffers_') = 1 /\ buffers_'[1] = e
      BY <1>7, <2>1
    <3>b. i = 1
      BY <3>a
    <3>1. i = 1 /\ buffers_'[1].start > 0 /\ buffers_'[1].idx = cur.idx
      BY <1>2, <1>5, <1>8, <3>a, <3>b
    <3> QED
      BY <1>3, <1>9, <3>1
  <2>2. CASE n = cur.len
    BY <1>7, <1>12, <2>2
  <2> QED
    BY <1>2, <1>4, <2>1, <2>2
<1>13. WireOrder'
  BY <1>1, <1>9, <1>11, <1>12 DEF WireOrder
<1>14. DropInv'
  <2>1. session_index_ \notin dropped
    BY <1>1 DEF SInv, DropInv
  <2>2. \A k \in 1..Len(wire') : wire'[k].idx \notin dropped'
    BY <1>2, <1>6, <1>9, <2>1 DEF SInv, DropInv, NoBegunRecordDropped
  <2>3. \A i \in 1..Len(buffers_') : buffers_'[i].idx \notin dropped'
    BY <1>2, <1>4, <1>5, <1>6, <1>7, <2>1
  <2> QED
    BY <1>1, <2>2, <2>3 DEF DropInv, NoBegunRecordDropped
<1>15. ASSUME ~recut
       PROVE  Intact(wire)' /\ Edge'
  <2>1. Intact(wire) /\ Edge
    BY <1>15 DEF SInv
  <2>2. wire # <<>> => Len(wire) \in 1..Len(wire)
    BY <1>2, EmptySeq
  <2>3. Intact(wire')
    BY <1>2, <1>3, <1>4, <1>8, <2>1, <2>2, WriteIntact DEF Edge
  <2>4. CASE n < cur.len
    <3>1. buffers_'[1].idx = cur.idx /\ buffers_'[1].start = n
      BY <1>2, <1>5, <1>7, <2>4
    <3>2. wire'[Len(wire')].off = n - 1 /\ n > 0
      BY <1>2, <1>8, <1>9
    <3> QED
      BY <1>7, <1>9, <2>3, <2>4, <3>1, <3>2 DEF Edge
  <2>5. CASE n = cur.len
    <3>1. wire'[Len(wire')].off = wire'[Len(wire')].len - 1
      BY <1>2, <1>9, <2>5
    <3> QED
      BY <1>7, <2>3, <2>5, <3>1 DEF Edge
  <2> QED
    BY <1>2, <1>4, <2>4, <2>5
<1> QED
  BY <1>1, <1>10, <1>13, <1>14, <1>15 DEF SInv

\* send_cache writes the front record, whole or in part.
LEMMA SInvCache ==
  ASSUME SInv, QInv', CacheFull \/ CachePartial
  PROVE  SInv'
<1> DEFINE b == buffers_[1]
<1>1. /\ pc = "cache"
      /\ pc' # "idle"
      /\ UNCHANGED <<session_index_, cur, dropped>>
  BY DEF CacheFull, CachePartial
<1>2. /\ buffers_ # <<>> /\ buffers_ \in Seq(Record)
      /\ Len(buffers_) \in Nat \ {0}
      /\ Head(buffers_) = b
      /\ b \in Record /\ b.idx \in Nat /\ b.start \in Nat /\ b.len \in Nat
      /\ b.start < b.len
      /\ wire \in Seq(Byte)
      /\ InOrder(wire)
      /\ session_index_ \in Nat
  <2>1. buffers_ # <<>> /\ buffers_ \in Seq(Record) /\ Len(buffers_) \in Nat \ {0}
    BY <1>1, EmptySeq DEF SInv, QInv, PcInv, TypeOK
  <2>2. 1 \in 1..Len(buffers_) /\ b \in Record /\ Head(buffers_) = b
    BY <2>1, ElementOfSeq
  <2> QED
    BY <2>1, <2>2, RecordFields DEF SInv, QInv, TypeOK, WireOrder
<1>3. PICK n \in Nat \ {0} :
        /\ wire' = Written(b, n)
        /\ \/ /\ b.start + n = b.len
              /\ buffers_' = Tail(buffers_)
              /\ recut' = recut
           \/ /\ b.start + n < b.len
              /\ buffers_' = [buffers_ EXCEPT ![1] = SetStart(b, n)]
              /\ recut' = (recut \/ b.start > 0)
  <2>1. CASE CacheFull
    <3>1. /\ wire' = Written(b, Remaining(b))
          /\ buffers_' = Tail(buffers_)
          /\ recut' = recut
      BY <1>2, <2>1 DEF CacheFull
    <3>2. Remaining(b) \in Nat \ {0} /\ b.start + Remaining(b) = b.len
      BY <1>2 DEF Remaining
    <3> HIDE DEF b
    <3> QED
      BY <3>1, <3>2
  <2>2. CASE CachePartial
    <3>1. PICK n \in 1..(Remaining(b) - 1) :
            /\ wire' = Written(b, n)
            /\ buffers_' = [buffers_ EXCEPT ![1] = SetStart(b, n)]
      BY <1>2, <2>2 DEF CachePartial
    <3>2. recut' = (recut \/ b.start > 0)
      BY <1>2, <2>2 DEF CachePartial
    <3>3. n \in Nat \ {0} /\ b.start + n < b.len
      BY <1>2, <3>1 DEF Remaining
    <3> HIDE DEF b
    <3> QED
      BY <3>1, <3>2, <3>3
  <2> QED
    BY <2>1, <2>2
<1> HIDE DEF b
<1>4. n \in Nat \ {0} /\ b.start + n <= b.len /\ wire' = Written(b, n)
  BY <1>2, <1>3
<1>5. /\ 1 \in 1..Len(buffers_)
      /\ \A k \in 1..Len(wire) :
           /\ wire[k].idx \in Nat
           /\ wire[k].idx <= b.idx
           /\ wire[k].idx < session_index_
           /\ b.start = 0 => wire[k].idx < b.idx
      /\ b.idx < session_index_
      /\ b.idx \notin dropped
  BY <1>1, <1>2, ByteFields DEF b, SInv, WireOrder, QueueOrder, DropInv
<1>6. /\ wire' \in Seq(Byte)
      /\ InOrder(wire')
      /\ \A k \in 1..Len(wire') :
           (k \in 1..Len(wire) /\ wire'[k] = wire[k]) \/ wire'[k].idx = b.idx
      /\ wire' # <<>> /\ Len(wire') \in 1..Len(wire')
      /\ wire'[Len(wire')].idx = b.idx
      /\ wire'[Len(wire')].len = b.len
      /\ wire'[Len(wire')].off = b.start + n - 1
  <2>1. /\ wire \in Seq(Byte) /\ b \in Record /\ InOrder(wire)
        /\ \A k \in 1..Len(wire) : wire[k].idx <= b.idx
    BY <1>2, <1>5
  <2> QED
    BY <1>4, <2>1, WriteInOrder
<1>7. \A k \in 1..Len(wire') :
        /\ wire'[k].idx \in Nat
        /\ wire'[k].idx <= b.idx
        /\ wire'[k].idx < session_index_
        /\ wire'[k].idx <= session_index_
        /\ wire'[k].idx \notin dropped
  BY <1>2, <1>5, <1>6 DEF SInv, DropInv, NoBegunRecordDropped
<1>8. \A i \in 1..Len(buffers_) :
        /\ buffers_[i].idx \in Nat
        /\ i > 1 => b.idx < buffers_[i].idx /\ buffers_[i].start = 0
        /\ buffers_[i].idx < session_index_ /\ buffers_[i].idx <= session_index_
        /\ buffers_[i].idx \notin dropped
  BY <1>1, <1>2, <1>5, ElementOfSeq, RecordFields DEF b, SInv, QueueOrder, DropInv
<1>9. ASSUME ~recut, b.start + n <= b.len
      PROVE  Intact(wire')
  <2>1. Intact(wire) /\ Edge
    BY <1>9 DEF SInv
  <2>2. wire # <<>> => Len(wire) \in 1..Len(wire)
    BY <1>2, EmptySeq
  <2> QED
    BY <1>2, <1>3, <1>4, <1>5, <2>1, <2>2, WriteIntact DEF Edge, b
<1>10. CASE b.start + n = b.len /\ buffers_' = Tail(buffers_) /\ recut' = recut
  <2>1. /\ buffers_' \in Seq(Record)
        /\ Len(buffers_') = Len(buffers_) - 1
        /\ Len(buffers_') \in Nat
        /\ \A i \in 1..Len(buffers_') : buffers_'[i] = buffers_[i + 1]
    BY <1>2, <1>10, HeadTailProperties
  <2>2. \A i \in 1..Len(buffers_') : i + 1 \in 1..Len(buffers_) /\ i + 1 > 1
    BY <1>2, <2>1
  <2>3. \A i \in 1..Len(buffers_') :
          /\ buffers_'[i].idx < session_index_ /\ buffers_'[i].idx <= session_index_
          /\ buffers_'[i].start = 0
          /\ buffers_'[i].idx \notin dropped
          /\ b.idx < buffers_'[i].idx /\ buffers_'[i].idx \in Nat
    BY <1>8, <2>1, <2>2
  <2>4. \A i, j \in 1..Len(buffers_') : i < j => buffers_'[i].idx < buffers_'[j].idx
    BY <2>1, <2>2 DEF SInv, QueueOrder
  <2>5. QueueOrder'
    BY <1>1, <2>3, <2>4 DEF QueueOrder
  <2>6. \A k \in 1..Len(wire'), i \in 1..Len(buffers_') : wire'[k].idx < buffers_'[i].idx
    BY <1>2, <1>7, <2>3
  <2>7. WireOrder'
    BY <1>1, <1>6, <1>7, <2>6 DEF WireOrder
  <2>8. DropInv'
    BY <1>1, <1>7, <2>3 DEF SInv, DropInv, NoBegunRecordDropped
  <2>9. Edge'
    <3>1. wire'[Len(wire')].off = wire'[Len(wire')].len - 1
      BY <1>2, <1>6, <1>10
    <3>2. buffers_' # <<>> => buffers_'[1].start = 0
      BY <2>1, <2>3, EmptySeq
    <3> QED
      BY <3>1, <3>2 DEF Edge
  <2> QED
    BY <1>4, <1>9, <1>10, <2>5, <2>7, <2>8, <2>9 DEF SInv
<1>11. CASE /\ b.start + n < b.len
            /\ buffers_' = [buffers_ EXCEPT ![1] = SetStart(b, n)]
            /\ recut' = (recut \/ b.start > 0)
  <2> DEFINE e == SetStart(b, n)
  <2>1. e \in Record /\ e.idx = b.idx /\ e.start = n
    BY <1>2, <1>3 DEF SetStart, Record
  <2>2. buffers_' = [buffers_ EXCEPT ![1] = e]
    BY <1>11
  <2> HIDE DEF e
  <2>3. /\ buffers_' \in Seq(Record)
        /\ Len(buffers_') = Len(buffers_)
        /\ \A j \in 1..Len(buffers_) : buffers_'[j] = IF j = 1 THEN e ELSE buffers_[j]
    BY <1>2, <1>5, <2>1, <2>2, ExceptSeq
  <2>4. /\ buffers_' # <<>>
        /\ buffers_'[1] = e
        /\ \A j \in 1..Len(buffers_) : buffers_'[j].idx = buffers_[j].idx
    BY <1>2, <1>5, <2>1, <2>3, EmptySeq DEF b
  <2>5. \A j \in 1..Len(buffers_) : j > 1 => buffers_'[j].start = 0
    BY <1>8, <2>3
  <2>6. QueueOrder'
    BY <1>1, <1>8, <2>3, <2>4, <2>5 DEF SInv, QueueOrder
  <2>7. ASSUME NEW k \in 1..Len(wire'), NEW i \in 1..Len(buffers_')
        PROVE  \/ wire'[k].idx < buffers_'[i].idx
               \/ i = 1 /\ buffers_'[1].start > 0 /\ wire'[k].idx = buffers_'[1].idx
    <3>1. CASE i = 1
      BY <1>2, <1>3, <1>7, <2>1, <2>4, <3>1
    <3>2. CASE i # 1
      <4>1. i \in 1..Len(buffers_) /\ i > 1
        BY <1>2, <2>3, <2>7, <3>2
      <4>2. b.idx < buffers_'[i].idx /\ buffers_'[i].idx \in Nat
        BY <1>8, <2>4, <4>1
      <4> QED
        BY <1>2, <1>7, <2>7, <4>2
    <3> QED
      BY <3>1, <3>2
  <2>8. WireOrder'
    BY <1>1, <1>6, <1>7, <2>7 DEF WireOrder
  <2>9. DropInv'
    BY <1>1, <1>7, <1>8, <2>3, <2>4 DEF SInv, DropInv, NoBegunRecordDropped
  <2>10. ASSUME ~recut'
         PROVE  Intact(wire)' /\ Edge'
    <3>a. ~recut /\ ~(b.start > 0)
      BY <1>11, <2>10
    <3>1. ~recut /\ b.start = 0
      BY <1>2, <3>a
    <3>2. Intact(wire')
      BY <1>4, <1>9, <3>1
    <3>3. wire'[Len(wire')].off = n - 1
      BY <1>3, <1>6, <3>1
    <3> QED
      BY <1>3, <1>6, <2>1, <2>4, <3>2, <3>3 DEF Edge
  <2> QED
    BY <2>6, <2>8, <2>9, <2>10 DEF SInv
<1> QED
  BY <1>3, <1>10, <1>11

\* Every step keeps SInv.
LEMMA SInvStep ==
  ASSUME SInv, [Next]_vars
  PROVE  SInv'
<1>1. QInv'
  BY QInvStep DEF SInv
<1>2. /\ session_index_ \in Nat
      /\ dropped \subseteq 1..session_index_
      /\ \A i \in 1..Len(buffers_) : buffers_[i].idx \in Nat
      /\ \A k \in 1..Len(wire) : wire[k].idx \in Nat
  BY ElementOfSeq, RecordFields, ByteFields DEF SInv, QInv, TypeOK
<1>3. ASSUME NEW l \in Lens, SendMessage(l)
      PROVE  SInv'
  <2>1. /\ pc = "idle" /\ session_index_' = session_index_ + 1
        /\ UNCHANGED <<buffers_, throttle_on_, open, wire, dropped, recut>>
    BY <1>3 DEF SendMessage
  <2>2. QueueOrder'
    BY <1>2, <2>1 DEF SInv, QueueOrder
  <2>3. WireOrder'
    BY <1>2, <2>1 DEF SInv, WireOrder
  <2>4. DropInv'
    BY <1>2, <2>1 DEF SInv, DropInv, NoBegunRecordDropped
  <2>5. ~recut' => Intact(wire)' /\ Edge'
    BY <2>1 DEF SInv, Edge
  <2> QED
    BY <1>1, <2>2, <2>3, <2>4, <2>5 DEF SInv
<1>4. ASSUME SendError \/ CloseConnection \/ UNCHANGED vars
      PROVE  SInv'
  <2>1. /\ pc' \in {"idle", pc}
        /\ UNCHANGED <<buffers_, session_index_, wire, dropped, recut>>
    BY <1>4 DEF SendError, CloseConnection, vars
  <2>2. QueueOrder' /\ WireOrder' /\ DropInv'
    BY <2>1 DEF SInv, QueueOrder, WireOrder, DropInv, NoBegunRecordDropped
  <2>3. ~recut' => Intact(wire)' /\ Edge'
    BY <2>1 DEF SInv, Edge
  <2> QED
    BY <1>1, <2>2, <2>3 DEF SInv
<1> QED
  BY <1>1, <1>3, <1>4, SInvWouldBlock, SInvDirect, SInvCache DEF Next, Exhausted

\* A new connection satisfies SInv.
LEMMA SInvInit ==
  ASSUME Init
  PROVE  SInv
<1>1. QInv
  BY QInvInit
<1>2. buffers_ = <<>> /\ Len(buffers_) = 0 /\ wire = <<>> /\ Len(wire) = 0
  BY EmptySeq DEF Init
<1>3. QueueOrder
  BY <1>2 DEF QueueOrder
<1>4. WireOrder
  BY <1>2 DEF WireOrder, InOrder
<1>5. DropInv
  BY DEF Init, DropInv, NoBegunRecordDropped
<1>6. Intact(wire) /\ Edge
  BY <1>2 DEF Intact, Edge
<1> QED
  BY <1>1, <1>3, <1>4, <1>5, <1>6 DEF SInv

\* For any lengths, marks and number of messages: partial writes, queueing,
\* throttling, errors and concurrent closing neither cut nor reorder records,
\* and a record the throttle drops has no byte on the wire.  Only a record cut
\* short twice (recut) can break the stream.
THEOREM StreamSafe ==
  Spec => [](StreamIntactUnlessRecut /\ WireInOrder /\ NoBegunRecordDropped)
<1>1. Init => SInv
  BY SInvInit
<1>2. SInv /\ [Next]_vars => SInv'
  BY SInvStep
<1>3. SInv => StreamIntactUnlessRecut /\ WireInOrder /\ NoBegunRecordDropped
  BY DEF SInv, WireOrder, DropInv, StreamIntactUnlessRecut, WireInOrder
<1> QED
  BY <1>1, <1>2, <1>3, PTL DEF Spec

-----------------------------------------------------------------------------
(* Accounting: no record disappears while the connection is open. *)

Accounted(i) == Complete(i) \/ i \in Queued \/ i \in dropped

AInv == QInv /\ EveryRecordAccounted

\* Writing takes nothing off the wire, and completes a record whose last byte is
\* written.
LEMMA WriteCompletes ==
  ASSUME QInv, NEW b \in Record, NEW n \in Nat \ {0}, b.start + n <= b.len,
         wire' = Written(b, n)
  PROVE  /\ \A i : Complete(i) => Complete(i)'
         /\ b.start + n = b.len => \A i : i = b.idx => Complete(i)'
<1> DEFINE w == Written(b, n)
<1>0. wire \in Seq(Byte) /\ Len(wire) \in Nat
  BY LenProperties DEF QInv, TypeOK
<1>1. /\ Len(w) = Len(wire) + n
      /\ \A k \in 1..Len(wire) : w[k] = wire[k]
      /\ \A k \in (Len(wire) + 1)..(Len(wire) + n) :
           w[k].idx = b.idx /\ w[k].len = b.len /\ w[k].off = b.start + (k - Len(wire)) - 1
  BY <1>0, WrittenProperties
<1>2. wire' = w
  OBVIOUS
<1> HIDE DEF w
<1>3. ASSUME NEW i, Complete(i) PROVE Complete(i)'
  <2>1. PICK k \in 1..Len(wire) : wire[k].idx = i /\ wire[k].off = wire[k].len - 1
    BY <1>3 DEF Complete
  <2>2. k \in 1..Len(w) /\ w[k] = wire[k]
    BY <1>0, <1>1
  <2> QED
    BY <1>2, <2>1, <2>2 DEF Complete
<1>4. ASSUME b.start + n = b.len, NEW i, i = b.idx PROVE Complete(i)'
  <2>1. /\ Len(w) \in 1..Len(w) /\ Len(w) \in (Len(wire) + 1)..(Len(wire) + n)
        /\ b.start \in Nat /\ b.len \in Nat
    BY <1>0, <1>1, RecordFields
  <2>2. w[Len(w)].idx = b.idx /\ w[Len(w)].len = b.len
    BY <1>1, <2>1
  <2>3. w[Len(w)].off = b.start + (Len(w) - Len(wire)) - 1
    BY <1>1, <2>1
  <2>4. Len(w) - Len(wire) = n
    BY <1>0, <1>1
  <2>5. w[Len(w)].off = w[Len(w)].len - 1
    BY <1>4, <2>1, <2>2, <2>3, <2>4
  <2> QED
    BY <1>2, <1>4, <2>1, <2>2, <2>5 DEF Complete
<1> QED
  BY <1>3, <1>4

\* add_to_cache queues the record it is given or drops it, and no other.
LEMMA AddToCacheAccounts ==
  ASSUME QInv, NEW b \in Record, AddToCache(b)
  PROVE  /\ Queued \subseteq Queued' /\ dropped \subseteq dropped'
         /\ b.idx \in Queued' \cup dropped'
         /\ open' => open
<1>0. buffers_ \in Seq(Record) /\ Len(buffers_) \in Nat
  BY LenProperties DEF QInv, TypeOK
<1>1. CASE Throttled
  BY <1>1 DEF AddToCache, Queued
<1>2. CASE ~Throttled
  <2>1. buffers_' = Append(buffers_, b) /\ dropped' = dropped /\ (open' => open)
    BY <1>2 DEF AddToCache
  <2>2. /\ Len(buffers_') = Len(buffers_) + 1
        /\ \A i \in 1..Len(buffers_) : buffers_'[i] = buffers_[i]
        /\ buffers_'[Len(buffers_) + 1] = b
    BY <1>0, <2>1, AppendProperties
  <2>3. Len(buffers_') \in 1..Len(buffers_') /\ \A i \in 1..Len(buffers_) : i \in 1..Len(buffers_')
    BY <1>0, <2>2
  <2> QED
    BY <2>1, <2>2, <2>3 DEF Queued
<1> QED
  BY <1>1, <1>2

\* Every step keeps the account.
LEMMA AInvStep ==
  ASSUME AInv, [Next]_vars
  PROVE  AInv'
<1>0. QInv /\ QInv' /\ EveryRecordAccounted
  BY QInvStep DEF AInv
<1>a. /\ buffers_ \in Seq(Record) /\ Len(buffers_) \in Nat /\ session_index_ \in Nat
      /\ pc # "idle" => cur \in Record /\ cur.start = 0 /\ cur.idx = session_index_
      /\ pc = "cache" => buffers_ # <<>>
  BY <1>0, LenProperties DEF QInv, TypeOK, PcInv
<1>b. \A i \in 1..session_index_ : open => Accounted(i) \/ (pc # "idle" /\ i = cur.idx)
  BY <1>0, Zenon DEF EveryRecordAccounted, Accounted
<1>1. ASSUME NEW l \in Lens, SendMessage(l)
      PROVE  EveryRecordAccounted'
  <2>1. /\ pc = "idle" /\ pc' # "idle" /\ session_index_' = session_index_ + 1
        /\ cur'.idx = session_index_ + 1
        /\ UNCHANGED <<buffers_, open, wire, dropped>>
    BY <1>1 DEF SendMessage
  <2>2. \A i \in 1..session_index_' : i \in 1..session_index_ \/ i = cur'.idx
    BY <1>a, <2>1
  <2> QED
    BY <1>b, <2>1, <2>2 DEF EveryRecordAccounted, Accounted, Complete, Queued
<1>2. ASSUME CacheFull
      PROVE  EveryRecordAccounted'
  <2> DEFINE b == Head(buffers_)
  <2>1. /\ pc = "cache" /\ pc' # "idle"
        /\ wire' = Written(b, Remaining(b)) /\ buffers_' = Tail(buffers_)
        /\ UNCHANGED <<session_index_, open, cur, dropped>>
    BY <1>2 DEF CacheFull
  <2>2. /\ b \in Record /\ b = buffers_[1] /\ Len(buffers_) > 0
        /\ Len(buffers_') = Len(buffers_) - 1
        /\ \A i \in 1..Len(buffers_') : buffers_'[i] = buffers_[i + 1]
    BY <1>a, <2>1, EmptySeq, HeadTailProperties
  <2>3. b.start < b.len
    BY <1>0, <1>a, <2>2 DEF QInv, TypeOK
  <2>4. /\ Remaining(b) \in Nat \ {0} /\ b.start + Remaining(b) = b.len
        /\ b.start + Remaining(b) <= b.len
    BY <2>2, <2>3, RecordFields DEF Remaining
  <2> HIDE DEF b
  <2>5. \A i : Complete(i) \/ i = b.idx => Complete(i)'
    BY <1>0, <2>1, <2>2, <2>4, WriteCompletes
  <2>6. ASSUME NEW i \in Queued PROVE i = b.idx \/ i \in Queued'
    <3>1. PICK k \in 1..Len(buffers_) : i = buffers_[k].idx
      BY <2>6 DEF Queued
    <3>2. k = 1 \/ (k - 1 \in 1..Len(buffers_') /\ (k - 1) + 1 = k)
      BY <1>a, <2>2
    <3>3. ASSUME k # 1 PROVE i \in Queued'
      <4>1. k - 1 \in 1..Len(buffers_') /\ buffers_'[k - 1] = buffers_[k]
        BY <2>2, <3>2, <3>3
      <4> QED
        BY <3>1, <4>1 DEF Queued
    <3> QED
      BY <2>2, <3>1, <3>3
  <2>7. ASSUME NEW i, Accounted(i) PROVE Accounted(i)'
    <3>1. CASE Complete(i)
      BY <2>5, <3>1 DEF Accounted
    <3>2. CASE i \in Queued
      BY <2>5, <2>6, <3>2 DEF Accounted
    <3>3. CASE i \in dropped
      BY <2>1, <3>3 DEF Accounted
    <3> QED
      BY <2>7, <3>1, <3>2, <3>3 DEF Accounted
  <2> QED
    BY <1>b, <2>1, <2>7 DEF EveryRecordAccounted, Accounted
<1>3. ASSUME CachePartial
      PROVE  EveryRecordAccounted'
  <2> DEFINE b == Head(buffers_)
  <2>1. PICK n \in 1..(Remaining(b) - 1) :
          /\ wire' = Written(b, n)
          /\ buffers_' = [buffers_ EXCEPT ![1] = SetStart(b, n)]
    BY <1>3 DEF CachePartial
  <2>2. pc = "cache" /\ UNCHANGED <<session_index_, open, pc, cur, dropped>>
    BY <1>3 DEF CachePartial
  <2>3. b \in Record /\ b = buffers_[1]
    BY <1>a, <2>2, EmptySeq, HeadTailProperties
  <2>4. n \in Nat \ {0} /\ b.start + n <= b.len
    BY <2>1, <2>3, RecordFields DEF Remaining
  <2>5. SetStart(b, n).idx = b.idx
    BY DEF SetStart
  <2> HIDE DEF b
  <2>6. \A i : Complete(i) => Complete(i)'
    BY <1>0, <2>1, <2>3, <2>4, WriteCompletes
  <2>7. Len(buffers_') = Len(buffers_) /\ \A k \in 1..Len(buffers_) : buffers_'[k].idx = buffers_[k].idx
    <3> DEFINE e == SetStart(b, n)
    <3>1. buffers_' = [buffers_ EXCEPT ![1] = e] /\ e.idx = b.idx
      BY <2>1, <2>5
    <3> HIDE DEF e
    <3> QED
      BY <1>a, <2>3, <3>1
  <2>8. \A i \in Queued : i \in Queued'
    BY <2>7 DEF Queued
  <2> QED
    BY <1>b, <2>2, <2>6, <2>8 DEF EveryRecordAccounted, Accounted
<1>4. ASSUME CacheWouldBlock \/ DirectWouldBlock
      PROVE  EveryRecordAccounted'
  <2>1. /\ pc # "idle" /\ pc' = "idle" /\ AddToCache(cur)
        /\ UNCHANGED <<session_index_, cur, wire>>
    BY <1>4 DEF CacheWouldBlock, DirectWouldBlock
  <2>2. /\ Queued \subseteq Queued' /\ dropped \subseteq dropped'
        /\ cur.idx \in Queued' \cup dropped' /\ (open' => open)
    BY <1>0, <1>a, <2>1, AddToCacheAccounts
  <2>3. \A i : Complete(i) => Complete(i)'
    BY <2>1 DEF Complete
  <2> QED
    BY <1>b, <2>1, <2>2, <2>3 DEF EveryRecordAccounted, Accounted
<1>5. ASSUME DirectFull
      PROVE  EveryRecordAccounted'
  <2>1. /\ pc # "idle" /\ pc' = "idle" /\ wire' = Written(cur, cur.len)
        /\ UNCHANGED <<buffers_, session_index_, open, cur, dropped>>
    BY <1>5 DEF DirectFull
  <2>2. cur \in Record /\ cur.len \in Nat \ {0} /\ cur.start + cur.len = cur.len
    BY <1>a, <2>1, RecordFields
  <2>3. \A i : Complete(i) \/ i = cur.idx => Complete(i)'
    BY <1>0, <2>1, <2>2, WriteCompletes
  <2> QED
    BY <1>b, <2>1, <2>3 DEF EveryRecordAccounted, Accounted, Queued
<1>6. ASSUME DirectPartial
      PROVE  EveryRecordAccounted'
  <2>1. PICK n \in 1..(cur.len - 1) :
          wire' = Written(cur, n) /\ AddToCache(SetStart(cur, n))
    BY <1>6 DEF DirectPartial
  <2>2. pc = "direct" /\ pc' = "idle" /\ UNCHANGED <<session_index_, cur>>
    BY <1>6 DEF DirectPartial
  <2>3. cur \in Record /\ n \in Nat \ {0} /\ cur.start + n <= cur.len
    BY <1>a, <2>1, <2>2, RecordFields
  <2>4. SetStart(cur, n) \in Record /\ SetStart(cur, n).idx = cur.idx
    BY <2>1, <2>3 DEF Record, SetStart
  <2>5. /\ Queued \subseteq Queued' /\ dropped \subseteq dropped'
        /\ cur.idx \in Queued' \cup dropped' /\ (open' => open)
    <3> DEFINE e == SetStart(cur, n)
    <3>1. e \in Record /\ e.idx = cur.idx /\ AddToCache(e)
      BY <2>1, <2>4
    <3> HIDE DEF e
    <3> QED
      BY <1>0, <3>1, AddToCacheAccounts
  <2>6. \A i : Complete(i) => Complete(i)'
    BY <1>0, <2>1, <2>3, WriteCompletes
  <2> QED
    BY <1>b, <2>2, <2>5, <2>6 DEF EveryRecordAccounted, Accounted
<1>7. ASSUME SendError \/ CloseConnection
      PROVE  EveryRecordAccounted'
  BY <1>7 DEF SendError, CloseConnection, EveryRecordAccounted
<1>8. ASSUME UNCHANGED vars
      PROVE  EveryRecordAccounted'
  BY <1>0, <1>8 DEF EveryRecordAccounted, Complete, Queued, vars
<1>9. EveryRecordAccounted'
  BY <1>1, <1>2, <1>3, <1>4, <1>5, <1>6, <1>7, <1>8 DEF Next, Exhausted
<1> QED
  BY <1>0, <1>9 DEF AInv

\* A new connection satisfies AInv.
LEMMA AInvInit ==
  ASSUME Init
  PROVE  AInv
<1>1. 1..session_index_ = {}
  BY DEF Init
<1> QED
  BY <1>1, QInvInit DEF AInv, EveryRecordAccounted

\* For any lengths, marks and number of messages, and even when records are cut
\* short twice: as long as the connection is open a record that send_message has
\* numbered is sent to its last byte, queued, dropped by the throttle, or in hand.
THEOREM NothingUnaccounted == Spec => []EveryRecordAccounted
<1>1. Init => AInv
  BY AInvInit
<1>2. AInv /\ [Next]_vars => AInv'
  BY AInvStep
<1> QED
  BY <1>1, <1>2, PTL DEF AInv, Spec

-----------------------------------------------------------------------------
(* The wire, as a receiver has to know it. *)

\* From any byte on, the bytes of its record follow without interruption.
Runs(w) ==
  \A k, j \in 1..Len(w) :
    k <= j /\ j - k < w[k].len - w[k].off =>
      /\ w[j].idx = w[k].idx
      /\ w[j].len = w[k].len
      /\ w[j].off = w[k].off + (j - k)

OnWire(i) == \E k \in 1..Len(wire) : wire[k].idx = i

\* A record cut short keeps its length.
SameLength ==
  \A k \in 1..Len(wire), i \in 1..Len(buffers_) :
    wire[k].idx = buffers_[i].idx => wire[k].len = buffers_[i].len

\* What is missing between records on the wire was dropped.
Bridged ==
  \A k \in 1..Len(wire), i \in 1..session_index_ :
    i < wire[k].idx => OnWire(i) \/ i \in dropped

\* The first record finds an empty queue.
FirstKept == 1 \notin dropped

\* The sender's invariant.
WInv ==
  /\ SInv
  /\ EveryRecordAccounted
  /\ session_index_ <= MaxMsgs
  /\ SameLength
  /\ Bridged
  /\ FirstKept
  /\ ~recut => Runs(wire)

\* Where the records in the queue come from.
QueueFrom ==
  \A i \in 1..Len(buffers_') :
    \/ \E j \in 1..Len(buffers_) :
         buffers_'[i].idx = buffers_[j].idx /\ buffers_'[i].len = buffers_[j].len
    \/ pc # "idle" /\ buffers_'[i].idx = cur.idx /\ buffers_'[i].len = cur.len

\* A step that writes n bytes of b: the front record, or the one in hand.
Writes(b, n) ==
  /\ open
  /\ wire' = Written(b, n)
  /\ dropped' = dropped
  /\ \/ pc = "cache" /\ buffers_ # <<>> /\ b = buffers_[1]
     \/ pc = "direct" /\ buffers_ = <<>> /\ b = cur

\* A step that writes nothing.
WritesNothing ==
  /\ wire' = wire
  /\ \/ dropped' = dropped
     \/ /\ pc # "idle" /\ buffers_ # <<>>
        /\ dropped' = dropped \cup {session_index_}

\* What add_to_cache does to the queue.
LEMMA AddToCacheFrom ==
  ASSUME QInv, NEW b \in Record, AddToCache(b),
         pc # "idle", b.idx = cur.idx, b.len = cur.len
  PROVE  QueueFrom
<1>1. buffers_ \in Seq(Record) /\ Len(buffers_) \in Nat
  BY LenProperties DEF QInv, TypeOK
<1>2. CASE buffers_' = buffers_
  BY <1>2 DEF QueueFrom
<1>3. CASE buffers_' = Append(buffers_, b)
  <2>1. /\ Len(buffers_') = Len(buffers_) + 1
        /\ \A i \in 1..Len(buffers_) : buffers_'[i] = buffers_[i]
        /\ buffers_'[Len(buffers_) + 1] = b
    BY <1>1, <1>3, AppendProperties
  <2>2. \A i \in 1..Len(buffers_') : i \in 1..Len(buffers_) \/ i = Len(buffers_) + 1
    BY <1>1, <2>1
  <2> QED
    BY <2>1, <2>2 DEF QueueFrom
<1> QED
  BY <1>2, <1>3, AddToCacheCases

\* Every step of the sender but the first of a message writes some bytes of one
\* record, or nothing.
LEMMA StepForm ==
  ASSUME QInv, Next, ~(\E l \in Lens : SendMessage(l))
  PROVE  /\ session_index_' = session_index_
         /\ recut => recut'
         /\ pc' # "idle" => pc # "idle" /\ cur' = cur
         /\ QueueFrom
         /\ \/ WritesNothing
            \/ \E b \in Record, n \in Nat \ {0} : b.start + n <= b.len /\ Writes(b, n)
<1>1. /\ buffers_ \in Seq(Record) /\ Len(buffers_) \in Nat
      /\ pc # "idle" => cur \in Record /\ cur.start = 0 /\ cur.idx = session_index_
      /\ pc = "cache" => buffers_ # <<>>
      /\ pc = "direct" => buffers_ = <<>>
  BY LenProperties DEF QInv, TypeOK, PcInv
<1>2. pc = "cache" => /\ Head(buffers_) = buffers_[1] /\ buffers_[1] \in Record
                      /\ 1 \in 1..Len(buffers_)
                      /\ buffers_[1].start < buffers_[1].len
  <2>1. pc = "cache" => Len(buffers_) > 0 /\ 1 \in 1..Len(buffers_)
    BY <1>1, EmptySeq
  <2> QED
    BY <1>1, <2>1, ElementOfSeq DEF QInv, TypeOK
<1>3. CASE CacheFull
  <2> DEFINE b == buffers_[1]
  <2>1. /\ pc = "cache" /\ pc' # "idle" /\ open
        /\ wire' = Written(b, Remaining(b)) /\ buffers_' = Tail(buffers_)
        /\ UNCHANGED <<session_index_, cur, dropped, recut>>
    BY <1>2, <1>3 DEF CacheFull
  <2>2. Remaining(b) \in Nat \ {0} /\ b.start + Remaining(b) <= b.len /\ b \in Record
    BY <1>2, <2>1, RecordFields DEF Remaining
  <2>3. QueueFrom
    <3>1. /\ Len(buffers_') = Len(buffers_) - 1
          /\ \A i \in 1..Len(buffers_') : buffers_'[i] = buffers_[i + 1]
      BY <1>1, <2>1, HeadTailProperties
    <3>2. \A i \in 1..Len(buffers_') : i + 1 \in 1..Len(buffers_)
      BY <1>1, <3>1
    <3> QED
      BY <3>1, <3>2 DEF QueueFrom
  <2>4. Writes(b, Remaining(b))
    BY <1>1, <2>1 DEF Writes
  <2> HIDE DEF b
  <2> QED
    BY <2>1, <2>2, <2>3, <2>4
<1>4. CASE CachePartial
  <2> DEFINE b == buffers_[1]
  <2>1. PICK n \in 1..(Remaining(b) - 1) :
          wire' = Written(b, n) /\ buffers_' = [buffers_ EXCEPT ![1] = SetStart(b, n)]
    BY <1>2, <1>4 DEF CachePartial
  <2>2. /\ pc = "cache" /\ open
        /\ UNCHANGED <<session_index_, pc, cur, dropped>>
        /\ recut => recut'
    BY <1>4 DEF CachePartial
  <2>3. n \in Nat \ {0} /\ b.start + n <= b.len /\ b \in Record
    BY <1>2, <2>1, <2>2, RecordFields DEF Remaining
  <2>4. QueueFrom
    <3> DEFINE e == SetStart(b, n)
    <3>1. buffers_' = [buffers_ EXCEPT ![1] = e] /\ e.idx = b.idx /\ e.len = b.len
      BY <2>1 DEF SetStart
    <3> HIDE DEF e
    <3>2. /\ Len(buffers_') = Len(buffers_)
          /\ \A i \in 1..Len(buffers_) :
               buffers_'[i].idx = buffers_[i].idx /\ buffers_'[i].len = buffers_[i].len
      BY <1>1, <3>1
    <3> QED
      BY <3>2 DEF QueueFrom
  <2>5. Writes(b, n)
    BY <1>1, <2>1, <2>2 DEF Writes
  <2> HIDE DEF b
  <2> QED
    BY <2>2, <2>3, <2>4, <2>5
<1>5. CASE CacheWouldBlock \/ DirectWouldBlock
  <2>1. /\ pc # "idle" /\ pc' = "idle" /\ AddToCache(cur)
        /\ UNCHANGED <<session_index_, wire, recut>>
    BY <1>5 DEF CacheWouldBlock, DirectWouldBlock
  <2>2. QueueFrom
    BY <1>1, <2>1, AddToCacheFrom
  <2>3. WritesNothing
    BY <1>1, <2>1, AddToCacheCases DEF WritesNothing
  <2> QED
    BY <2>1, <2>2, <2>3
<1>6. CASE DirectFull
  <2>1. /\ pc = "direct" /\ pc' = "idle" /\ open /\ wire' = Written(cur, cur.len)
        /\ UNCHANGED <<buffers_, session_index_, dropped, recut>>
    BY <1>6 DEF DirectFull
  <2>2. cur \in Record /\ cur.len \in Nat \ {0} /\ cur.start + cur.len <= cur.len
    BY <1>1, <2>1, RecordFields
  <2>3. QueueFrom
    BY <2>1 DEF QueueFrom
  <2>4. Writes(cur, cur.len)
    BY <1>1, <2>1 DEF Writes
  <2> QED
    BY <2>1, <2>2, <2>3, <2>4
<1>7. CASE DirectPartial
  <2>1. PICK n \in 1..(cur.len - 1) :
          wire' = Written(cur, n) /\ AddToCache(SetStart(cur, n))
    BY <1>7 DEF DirectPartial
  <2>2. pc = "direct" /\ open /\ pc' = "idle" /\ UNCHANGED <<session_index_, recut>>
    BY <1>7 DEF DirectPartial
  <2>3. cur \in Record /\ n \in Nat \ {0} /\ cur.start + n <= cur.len
    BY <1>1, <2>1, <2>2, RecordFields
  <2>4. SetStart(cur, n) \in Record /\ SetStart(cur, n).idx = cur.idx
        /\ SetStart(cur, n).len = cur.len
    BY <2>1, <2>3 DEF Record, SetStart
  <2>5. QueueFrom /\ dropped' = dropped
    <3> DEFINE e == SetStart(cur, n)
    <3>1. e \in Record /\ e.idx = cur.idx /\ e.len = cur.len /\ AddToCache(e)
      BY <2>1, <2>4
    <3> HIDE DEF e
    <3> QED
      BY <1>1, <2>2, <3>1, AddToCacheFrom, AddToCacheCases
  <2>6. Writes(cur, n)
    BY <1>1, <2>1, <2>2, <2>5 DEF Writes
  <2> QED
    BY <2>2, <2>3, <2>5, <2>6
<1>8. CASE SendError \/ CloseConnection \/ Exhausted
  BY <1>8 DEF SendError, CloseConnection, Exhausted, vars, QueueFrom, WritesNothing
<1> QED
  BY <1>3, <1>4, <1>5, <1>6, <1>7, <1>8 DEF Next

\* The record of a byte at k, offset o, that reaches to byte j is not finished at l.
LEMMA Unfinished ==
  ASSUME NEW len \in Nat, NEW o \in Nat, NEW k \in Nat, NEW j \in Nat, NEW l \in Nat,
         l - k < j - k, j - k < len - o
  PROVE  l - k < len - o /\ o + (l - k) # len - 1
  OBVIOUS

\* Writing on from exactly where the wire ends keeps the records in one piece.
LEMMA RunsWritten ==
  ASSUME wire \in Seq(Byte), NEW b \in Record, NEW n \in Nat \ {0}, b.start + n <= b.len,
         Runs(wire),
         b.start > 0 => /\ wire # <<>>
                        /\ wire[Len(wire)].idx = b.idx
                        /\ wire[Len(wire)].len = b.len
                        /\ wire[Len(wire)].off = b.start - 1,
         b.start = 0 /\ wire # <<>> => wire[Len(wire)].off = wire[Len(wire)].len - 1
  PROVE  Runs(Written(b, n))
<1> DEFINE w == Written(b, n)
<1>1. /\ Len(w) = Len(wire) + n
      /\ \A k \in 1..Len(wire) : w[k] = wire[k]
      /\ \A k \in (Len(wire) + 1)..(Len(wire) + n) :
           w[k].idx = b.idx /\ w[k].len = b.len /\ w[k].off = b.start + (k - Len(wire)) - 1
  BY WrittenProperties
<1>2. Len(wire) \in Nat /\ b.len \in Nat /\ b.start \in Nat
  BY LenProperties, RecordFields
<1>3. \A k \in 1..Len(wire) : wire[k].len \in Nat /\ wire[k].off \in Nat
  BY ByteFields
<1> HIDE DEF w
<1>4. SUFFICES ASSUME NEW k \in 1..Len(w), NEW j \in 1..Len(w),
                      k <= j, j - k < w[k].len - w[k].off
               PROVE  w[j].idx = w[k].idx /\ w[j].len = w[k].len /\ w[j].off = w[k].off + (j - k)
  BY DEF Runs, w
<1>5. CASE j \in 1..Len(wire)
  <2>1. k \in 1..Len(wire)
    BY <1>2, <1>4, <1>5
  <2>2. w[j] = wire[j] /\ w[k] = wire[k]
    BY <1>1, <1>5, <2>1
  <2>3. j - k < wire[k].len - wire[k].off
    BY <1>4, <2>2
  <2>4. wire[j].idx = wire[k].idx /\ wire[j].len = wire[k].len /\ wire[j].off = wire[k].off + (j - k)
    BY <1>4, <1>5, <2>1, <2>3 DEF Runs
  <2> QED
    BY <2>2, <2>4
<1>6. CASE k \in (Len(wire) + 1)..(Len(wire) + n)
  <2>1. j \in (Len(wire) + 1)..(Len(wire) + n)
    BY <1>1, <1>2, <1>4, <1>6
  <2>2. w[j].off = b.start + (j - Len(wire)) - 1 /\ w[k].off = b.start + (k - Len(wire)) - 1
    BY <1>1, <1>6, <2>1
  <2>3. w[j].off = w[k].off + (j - k)
    <3> DEFINE s == b.start
               l == Len(wire)
    <3>1. s \in Nat /\ l \in Nat /\ j \in Nat /\ k \in Nat
      BY <1>2, <1>6, <2>1
    <3> HIDE DEF s, l
    <3>2. s + (j - l) - 1 = (s + (k - l) - 1) + (j - k)
      BY <3>1
    <3> QED
      BY <2>2, <3>2 DEF s, l
  <2> QED
    BY <1>1, <1>6, <2>1, <2>3
<1>7. CASE k \in 1..Len(wire) /\ j \in (Len(wire) + 1)..(Len(wire) + n)
  <2>1. w[k] = wire[k] /\ Len(wire) \in 1..Len(wire) /\ k <= Len(wire) /\ Len(wire) - k < j - k
    <3>1. Len(wire) \in 1..Len(wire) /\ k <= Len(wire) /\ Len(wire) - k < j - k
      BY <1>2, <1>7
    <3> QED
      BY <1>1, <1>7, <3>1
  <2>2. /\ wire[k].len \in Nat /\ wire[k].off \in Nat
        /\ k \in Nat /\ j \in Nat /\ Len(wire) \in Nat
    BY <1>2, <1>3, <1>7
  <2>3. j - k < wire[k].len - wire[k].off
    BY <1>4, <2>1
  <2>4. /\ Len(wire) - k < wire[k].len - wire[k].off
        /\ wire[k].off + (Len(wire) - k) # wire[k].len - 1
    BY <2>1, <2>2, <2>3, Unfinished
  <2>a. /\ wire[Len(wire)].idx = wire[k].idx /\ wire[Len(wire)].len = wire[k].len
        /\ wire[Len(wire)].off = wire[k].off + (Len(wire) - k)
    BY <1>7, <2>1, <2>4 DEF Runs
  <2>5. b.start > 0
    <3>1. wire # <<>> /\ b.start \in Nat
      BY <1>2, <2>1, EmptySeq
    <3>2. wire[Len(wire)].off # wire[Len(wire)].len - 1
      BY <2>4, <2>a
    <3> QED
      BY <3>1, <3>2
  <2>6. /\ w[j].idx = b.idx /\ w[j].len = b.len /\ w[j].off = b.start + (j - Len(wire)) - 1
        /\ wire[Len(wire)].idx = b.idx /\ wire[Len(wire)].len = b.len /\ wire[Len(wire)].off = b.start - 1
    BY <1>1, <1>7, <2>5
  <2>7. w[j].off = w[k].off + (j - k)
    <3>1. b.start - 1 = wire[k].off + (Len(wire) - k)
      BY <2>6, <2>a
    <3>2. b.start + (j - Len(wire)) - 1 = wire[k].off + (j - k)
      <4> DEFINE s == b.start
                 o == wire[k].off
                 l == Len(wire)
      <4>1. /\ s \in Nat /\ o \in Nat /\ l \in Nat /\ j \in Nat /\ k \in Nat
            /\ s - 1 = o + (l - k)
        BY <1>2, <2>2, <3>1
      <4> HIDE DEF s, o, l
      <4>2. s + (j - l) - 1 = o + (j - k)
        BY <4>1
      <4> QED
        BY <4>2 DEF s, o, l
    <3> QED
      BY <2>1, <2>6, <3>2
  <2> QED
    BY <2>1, <2>6, <2>7, <2>a
<1> QED
  BY <1>1, <1>2, <1>4, <1>5, <1>6, <1>7

\* Every step of the sender keeps WInv.
LEMMA WInvStep ==
  ASSUME WInv, [Next]_vars
  PROVE  WInv'
<1>1. /\ SInv /\ QInv /\ AInv
      /\ QueueOrder /\ WireOrder /\ DropInv
      /\ EveryRecordAccounted /\ SameLength /\ Bridged /\ FirstKept
      /\ SInv' /\ EveryRecordAccounted'
  <2>1. SInv /\ QInv /\ AInv
    BY DEF WInv, SInv, AInv
  <2>2. SInv' /\ AInv'
    BY <2>1, SInvStep, AInvStep
  <2> QED
    BY <2>1, <2>2 DEF WInv, SInv, AInv
<1>2. /\ wire \in Seq(Byte) /\ Len(wire) \in Nat
      /\ buffers_ \in Seq(Record) /\ Len(buffers_) \in Nat
      /\ session_index_ \in Nat
      /\ pc # "idle" => cur \in Record /\ cur.start = 0 /\ cur.idx = session_index_
      /\ \A k \in 1..Len(wire) : wire[k].idx \in Nat \ {0}
      /\ \A i \in 1..Len(buffers_) : buffers_[i].idx \in Nat \ {0}
  BY <1>1, LenProperties, ByteFields, ElementOfSeq, RecordFields DEF QInv, TypeOK, PcInv
<1>3. ASSUME NEW l \in Lens, SendMessage(l)
      PROVE  WInv'
  <2>1. /\ session_index_ < MaxMsgs /\ session_index_' = session_index_ + 1
        /\ UNCHANGED <<buffers_, wire, dropped, recut>>
    BY <1>3 DEF SendMessage
  <2>2. session_index_' <= MaxMsgs
    BY <1>2, <2>1, BoundsAssumption
  <2>3. SameLength' /\ FirstKept' /\ (~recut' => Runs(wire)')
    BY <1>1, <2>1 DEF SameLength, FirstKept, Runs, WInv
  <2>4. Bridged'
    <3>1. SUFFICES ASSUME NEW k \in 1..Len(wire), NEW i \in 1..session_index_', i < wire[k].idx
                   PROVE  OnWire(i) \/ i \in dropped
      BY <2>1 DEF Bridged, OnWire
    <3>2. wire[k].idx <= session_index_
      BY <1>1 DEF WireOrder
    <3>3. i \in 1..session_index_
      BY <1>2, <2>1, <3>1, <3>2
    <3> QED
      BY <1>1, <3>1, <3>3 DEF Bridged
  <2> QED
    BY <1>1, <2>2, <2>3, <2>4 DEF WInv
<1>4. ASSUME Next, ~(\E l \in Lens : SendMessage(l))
      PROVE  WInv'
  <2>1. /\ session_index_' = session_index_
        /\ recut => recut'
        /\ QueueFrom
        /\ \/ WritesNothing
           \/ \E b \in Record, n \in Nat \ {0} : b.start + n <= b.len /\ Writes(b, n)
    BY <1>1, <1>4, StepForm
  <2>2. session_index_' <= MaxMsgs
    BY <2>1 DEF WInv
  <2>3. ASSUME WritesNothing
        PROVE  WInv'
    <3>1. wire' = wire /\ dropped \subseteq dropped'
      BY <2>3 DEF WritesNothing
    <3>2. SameLength'
      <4>1. SUFFICES ASSUME NEW k \in 1..Len(wire), NEW i \in 1..Len(buffers_'),
                            wire[k].idx = buffers_'[i].idx
                     PROVE  wire[k].len = buffers_'[i].len
        BY <3>1 DEF SameLength
      <4>2. CASE pc # "idle" /\ buffers_'[i].idx = cur.idx
        <5>1. wire[k].idx < session_index_
          BY <1>1, <4>2 DEF WireOrder
        <5> QED
          BY <1>2, <4>1, <4>2, <5>1
      <4> QED
        BY <1>1, <2>1, <4>1, <4>2 DEF QueueFrom, SameLength
    <3>3. Bridged'
      BY <1>1, <2>1, <3>1 DEF Bridged, OnWire
    <3>4. FirstKept'
      <4>1. CASE dropped' = dropped
        BY <1>1, <4>1 DEF FirstKept
      <4>2. CASE pc # "idle" /\ buffers_ # <<>> /\ dropped' = dropped \cup {session_index_}
        <5>1. 1 \in 1..Len(buffers_)
          BY <1>2, <4>2, EmptySeq
        <5>2. buffers_[1].idx < session_index_
          BY <1>1, <4>2, <5>1 DEF QueueOrder
        <5>3. session_index_ # 1
          BY <1>2, <5>1, <5>2
        <5> QED
          BY <1>1, <4>2, <5>3 DEF FirstKept
      <4> QED
        BY <2>3, <4>1, <4>2 DEF WritesNothing
    <3>5. ~recut' => Runs(wire)'
      BY <2>1, <3>1 DEF WInv, Runs
    <3> QED
      BY <1>1, <2>2, <3>2, <3>3, <3>4, <3>5 DEF WInv
  <2>4. ASSUME NEW b \in Record, NEW n \in Nat \ {0}, b.start + n <= b.len, Writes(b, n)
        PROVE  WInv'
    <3>1. /\ open /\ pc # "idle" /\ wire' = Written(b, n) /\ dropped' = dropped
          /\ \/ pc = "cache" /\ buffers_ # <<>> /\ b = buffers_[1]
             \/ pc = "direct" /\ buffers_ = <<>> /\ b = cur
      BY <2>4 DEF Writes
    <3>2. /\ b.idx \in Nat \ {0} /\ b.start \in Nat
          /\ buffers_ # <<>> => 1 \in 1..Len(buffers_)
          /\ buffers_ = <<>> => Len(buffers_) = 0
      BY <1>2, RecordFields, EmptySeq
    <3>3. b.idx <= session_index_
      <4>1. CASE buffers_ # <<>> /\ b = buffers_[1]
        BY <1>1, <3>2, <4>1 DEF QueueOrder
      <4>2. CASE b = cur
        BY <1>2, <3>1, <4>2
      <4> QED
        BY <3>1, <4>1, <4>2
    <3>4. /\ Len(wire') = Len(wire) + n
          /\ \A k \in 1..Len(wire) : wire'[k] = wire[k]
          /\ \A k \in (Len(wire) + 1)..(Len(wire) + n) :
               wire'[k].idx = b.idx /\ wire'[k].len = b.len
      <4> DEFINE w == Written(b, n)
      <4>1. wire' = w
        BY <3>1
      <4>2. /\ Len(w) = Len(wire) + n
            /\ \A k \in 1..Len(wire) : w[k] = wire[k]
            /\ \A k \in (Len(wire) + 1)..(Len(wire) + n) :
                 /\ w[k].idx = b.idx
                 /\ w[k].len = b.len
                 /\ w[k].off = b.start + (k - Len(wire)) - 1
        <5>1. n \in Nat /\ b.start + n <= b.len
          BY <2>4
        <5> QED
          BY <1>2, <5>1, WrittenProperties
      <4> HIDE DEF w
      <4> QED
        BY <4>1, <4>2
    <3>5. \A k \in 1..Len(wire') : k \in 1..Len(wire) \/ k \in (Len(wire) + 1)..(Len(wire) + n)
      BY <1>2, <3>4
    <3>6. \A i : OnWire(i) => OnWire(i)'
      <4>1. \A k \in 1..Len(wire) : k \in 1..Len(wire')
        BY <1>2, <3>4
      <4> QED
        BY <3>4, <4>1 DEF OnWire
    <3>7. SameLength'
      <4>1. SUFFICES ASSUME NEW k \in 1..Len(wire'), NEW i \in 1..Len(buffers_'),
                            wire'[k].idx = buffers_'[i].idx
                     PROVE  wire'[k].len = buffers_'[i].len
        BY DEF SameLength
      <4>2. CASE /\ wire'[k].idx = b.idx /\ wire'[k].len = b.len
                 /\ pc # "idle" /\ buffers_'[i].idx = cur.idx /\ buffers_'[i].len = cur.len
        <5>1. CASE b = cur
          BY <4>2, <5>1
        <5>2. CASE buffers_ # <<>> /\ b = buffers_[1]
          <6>1. b.idx < session_index_
            BY <1>1, <3>1, <3>2, <5>2 DEF QueueOrder
          <6>2. b.idx = session_index_
            BY <1>2, <4>1, <4>2
          <6> QED
            BY <1>2, <3>2, <6>1, <6>2
        <5> QED
          BY <3>1, <5>1, <5>2
      <4>3. CASE k \in 1..Len(wire) /\ pc # "idle" /\ buffers_'[i].idx = cur.idx
        <5>1. wire[k].idx < session_index_ /\ wire'[k] = wire[k]
          BY <1>1, <3>4, <4>3 DEF WireOrder
        <5> QED
          BY <1>2, <4>1, <4>3, <5>1
      <4>4. ASSUME NEW j \in 1..Len(buffers_),
                   buffers_'[i].idx = buffers_[j].idx, buffers_'[i].len = buffers_[j].len
            PROVE  wire'[k].len = buffers_'[i].len
        <5>1. CASE k \in 1..Len(wire)
          BY <1>1, <3>4, <4>1, <4>4, <5>1 DEF SameLength
        <5>2. CASE wire'[k].idx = b.idx /\ wire'[k].len = b.len
          <6>1. buffers_ # <<>> /\ b = buffers_[1]
            BY <1>2, <3>1, <3>2, <4>4
          <6>2. j = 1
            <7>1. buffers_[j].idx = buffers_[1].idx
              BY <4>1, <4>4, <5>2, <6>1
            <7>2. j > 1 => buffers_[1].idx < buffers_[j].idx
              BY <1>1, <3>2, <6>1 DEF QueueOrder
            <7> QED
              BY <1>2, <3>2, <6>1, <7>1, <7>2
          <6> QED
            BY <4>4, <5>2, <6>1, <6>2
        <5> QED
          BY <3>4, <3>5, <5>1, <5>2
      <4> QED
        BY <2>1, <3>4, <3>5, <4>2, <4>3, <4>4 DEF QueueFrom
    <3>8. ASSUME NEW i \in 1..session_index_, i < b.idx
          PROVE  OnWire(i) \/ i \in dropped
      <4>1. \/ Complete(i) \/ i \in Queued \/ i \in dropped
            \/ pc # "idle" /\ i = cur.idx
        BY <1>1, <3>1 DEF EveryRecordAccounted
      <4>2. i \notin Queued
        <5>1. SUFFICES ASSUME NEW j \in 1..Len(buffers_), i = buffers_[j].idx PROVE FALSE
          BY DEF Queued
        <5>2. buffers_ # <<>> /\ b = buffers_[1]
          BY <1>2, <3>1, <3>2, <5>1
        <5>3. j > 1 => buffers_[1].idx < buffers_[j].idx
          BY <1>1, <3>2, <5>2 DEF QueueOrder
        <5> QED
          BY <1>2, <3>2, <3>8, <5>1, <5>2, <5>3
      <4>3. ~(pc # "idle" /\ i = cur.idx)
        BY <1>2, <3>2, <3>3, <3>8
      <4> QED
        BY <4>1, <4>2, <4>3 DEF Complete, OnWire
    <3>9. Bridged'
      <4>1. SUFFICES ASSUME NEW k \in 1..Len(wire'), NEW i \in 1..session_index_, i < wire'[k].idx
                     PROVE  OnWire(i)' \/ i \in dropped
        BY <2>1, <3>1 DEF Bridged
      <4>2. CASE k \in 1..Len(wire)
        BY <1>1, <3>4, <3>6, <4>1, <4>2 DEF Bridged
      <4>3. CASE wire'[k].idx = b.idx
        BY <3>6, <3>8, <4>1, <4>3
      <4> QED
        BY <3>4, <3>5, <4>2, <4>3
    <3>10. FirstKept'
      BY <1>1, <3>1 DEF FirstKept
    <3>11. ASSUME ~recut'
           PROVE  Runs(wire)'
      <4>1. ~recut /\ Edge /\ Runs(wire)
        BY <1>1, <2>1, <3>11 DEF WInv, SInv
      <4>2. wire # <<>> => Len(wire) \in 1..Len(wire)
        BY <1>2, EmptySeq
      <4>3. CASE buffers_ # <<>> /\ b = buffers_[1]
        <5>1. b.start > 0 => /\ wire # <<>>
                             /\ wire[Len(wire)].idx = b.idx
                             /\ wire[Len(wire)].off = b.start - 1
          BY <4>1, <4>3 DEF Edge
        <5>2. b.start > 0 => wire[Len(wire)].len = b.len
          BY <1>1, <3>2, <4>2, <4>3, <5>1 DEF SameLength
        <5>3. b.start = 0 /\ wire # <<>> => wire[Len(wire)].off = wire[Len(wire)].len - 1
          BY <4>1, <4>3 DEF Edge
        <5> QED
          BY <1>2, <2>4, <3>1, <4>1, <5>1, <5>2, <5>3, RunsWritten
      <4>4. CASE buffers_ = <<>> /\ b = cur
        <5>1. b.start = 0
          BY <1>2, <3>1, <4>4
        <5>2. wire # <<>> => wire[Len(wire)].off = wire[Len(wire)].len - 1
          BY <4>1, <4>4 DEF Edge
        <5> QED
          BY <1>2, <2>4, <3>1, <4>1, <5>1, <5>2, RunsWritten
      <4> QED
        BY <3>1, <4>3, <4>4
    <3> QED
      BY <1>1, <2>2, <3>7, <3>9, <3>10, <3>11 DEF WInv
  <2> QED
    BY <2>1, <2>3, <2>4
<1>5. ASSUME UNCHANGED vars
      PROVE  WInv'
  <2>1. UNCHANGED <<buffers_, session_index_, wire, dropped, recut>>
    BY <1>5 DEF vars
  <2> QED
    BY <1>1, <2>1 DEF WInv, SameLength, Bridged, OnWire, FirstKept, Runs
<1> QED
  BY <1>3, <1>4, <1>5

-----------------------------------------------------------------------------
(* The receiver. *)

\* Every record is as long as the archive made it.
Fit ==
  /\ \A i \in 1..Len(buffers_) : buffers_[i].len \in Archived(declared[buffers_[i].idx])
  /\ \A k \in 1..Len(wire) : wire[k].len \in Archived(declared[wire[k].idx])
  /\ pc # "idle" => cur.len \in Archived(declared[session_index_])

\* The stream was not damaged as far as the receiver has read it.
Sound == ~recut /\ \A k \in 1..Len(log) : declared[log[k].idx] <= Capacity

\* Between two records the receiver stands at the end of the last one it read,
\* and remembers that one's index.
AtRecord ==
  Sound /\ reader_open =>
    IF log = <<>>
      THEN consumed = 0 /\ reader_session_index_ = 0
      ELSE /\ consumed > 0
           /\ wire[consumed].idx = log[Len(log)].idx
           /\ wire[consumed].off = wire[consumed].len - 1
           /\ reader_session_index_ = log[Len(log)].idx % IndexMod

\* The gap flag of the k-th record read is right.
GapRight(k) ==
  LET p == IF k = 1 THEN 0 ELSE log[k - 1].idx IN
  log[k].idx < IndexMod =>
    (log[k].gap <=> \E i \in dropped : p < i /\ i < log[k].idx)

\* What the receiver has read so far is right, and came over the wire.
ReadRight ==
  /\ \A k \in 1..Len(log) : OnWire(log[k].idx)
  /\ Sound => ~garbled /\ \A k \in 1..Len(log) : GapRight(k)

\* The inductive invariant of the connection.
CInv == WInv /\ CTypeOK /\ Fit /\ AtRecord /\ ReadRight

LEMMA ModSmall ==
  ASSUME NEW m \in Nat \ {0}, NEW x \in Nat, x < m
  PROVE  x % m = x
  OBVIOUS

LEMMA ModRange ==
  ASSUME NEW m \in Nat \ {0}, NEW x \in Nat
  PROVE  x % m \in 0..(m - 1)
  OBVIOUS

\* As long as the index has not wrapped, a gap is logged exactly when an index
\* was passed over.
LEMMA GapLoggedExact ==
  ASSUME NEW p \in Nat \ {0}, NEW i \in Nat, p < i, i < IndexMod,
         reader_session_index_ = p % IndexMod
  PROVE  GapLogged(i % IndexMod) <=> p + 1 < i
<1>1. IndexMod \in Nat \ {0}
  BY FrameAssumption
<1>2. i % IndexMod = i /\ p % IndexMod = p
  BY <1>1, ModSmall
<1>3. (i - p) % IndexMod = i - p
  <2>1. i - p \in Nat /\ i - p < IndexMod
    BY <1>1
  <2> QED
    BY <1>1, <2>1, ModSmall
<1>4. GapLogged(i) <=> i - p # 1
  BY <1>2, <1>3 DEF GapLogged
<1> QED
  BY <1>2, <1>4

\* Types of what the receiver reads.
LEMMA ConnectionTypes ==
  ASSUME CInv
  PROVE  /\ wire \in Seq(Byte) /\ Len(wire) \in Nat
         /\ buffers_ \in Seq(Record) /\ Len(buffers_) \in Nat
         /\ session_index_ \in Nat /\ session_index_ <= MaxMsgs /\ MaxMsgs \in Nat
         /\ log \in Seq([idx : 1..MaxMsgs, gap : BOOLEAN]) /\ Len(log) \in Nat
         /\ declared \in Seq(Declared) /\ Len(declared) = session_index_
         /\ consumed \in Nat /\ delivered \in Nat
         /\ consumed <= delivered /\ delivered <= Len(wire)
         /\ HdrLen \in Nat \ {0} /\ Capacity \in Nat
         /\ \A k \in 1..Len(wire) : /\ wire[k].idx \in 1..session_index_
                                    /\ wire[k].len \in Nat /\ wire[k].off \in Nat
                                    /\ wire[k].off < wire[k].len
                                    /\ declared[wire[k].idx] \in Declared
                                    /\ declared[wire[k].idx] \in Nat
                                    /\ declared[wire[k].idx] > HdrLen
         /\ \A k \in 1..Len(log) : log[k].idx \in 1..session_index_
<1>1. /\ WInv /\ CTypeOK /\ TypeOK /\ WireOrder
  BY DEF CInv, WInv, SInv, QInv
<1>2. /\ wire \in Seq(Byte) /\ Len(wire) \in Nat
      /\ buffers_ \in Seq(Record) /\ Len(buffers_) \in Nat
      /\ session_index_ \in Nat /\ session_index_ <= MaxMsgs /\ MaxMsgs \in Nat
      /\ log \in Seq([idx : 1..MaxMsgs, gap : BOOLEAN]) /\ Len(log) \in Nat
      /\ declared \in Seq(Declared) /\ Len(declared) = session_index_
      /\ HdrLen \in Nat \ {0} /\ Capacity \in Nat
  BY <1>1, BoundsAssumption, FrameAssumption, LenProperties DEF CTypeOK, TypeOK, WInv
<1>3. consumed \in Nat /\ delivered \in Nat /\ consumed <= delivered
      /\ delivered <= Len(wire)
  BY <1>1 DEF CTypeOK
<1>4. ASSUME NEW k \in 1..Len(wire)
      PROVE  /\ wire[k].idx \in 1..session_index_
             /\ wire[k].len \in Nat /\ wire[k].off \in Nat /\ wire[k].off < wire[k].len
             /\ declared[wire[k].idx] \in Declared
             /\ declared[wire[k].idx] \in Nat
             /\ declared[wire[k].idx] > HdrLen
  <2>1. wire[k].idx \in Nat \ {0} /\ wire[k].len \in Nat /\ wire[k].off \in Nat
    BY <1>2, ByteFields
  <2>2. wire[k].idx <= session_index_ /\ wire[k].off < wire[k].len
    BY <1>1 DEF WireOrder, TypeOK
  <2>3. wire[k].idx \in 1..session_index_
    BY <1>2, <2>1, <2>2
  <2>4. declared[wire[k].idx] \in Declared
    BY <1>2, <2>3, ElementOfSeq
  <2> QED
    BY <2>1, <2>2, <2>3, <2>4, FrameAssumption
<1>5. \A k \in 1..Len(log) : log[k].idx \in 1..session_index_
  BY <1>1, <1>4 DEF CInv, ReadRight, OnWire
<1> QED
  BY <1>2, <1>3, <1>4, <1>5

\* What the sender does next does not change what the receiver has read.
LEMMA ReaderKept ==
  ASSUME CInv, UNCHANGED rvars,
         Len(wire) <= Len(wire)', Len(wire)' \in Nat,
         \A k \in 1..Len(wire) : wire'[k] = wire[k],
         recut => recut',
         \A i \in 1..session_index_ : declared'[i] = declared[i],
         \/ dropped' = dropped
         \/ /\ dropped' = dropped \cup {session_index_}
            /\ \A k \in 1..Len(wire) : wire[k].idx < session_index_
  PROVE  AtRecord' /\ ReadRight'
<1>1. /\ UNCHANGED <<delivered, consumed, reader_open, reader_session_index_, log, garbled>>
      /\ Len(wire) \in Nat /\ consumed \in Nat /\ consumed <= Len(wire)
      /\ Len(log) \in Nat
      /\ AtRecord /\ ReadRight
      /\ \A k \in 1..Len(log) : log[k].idx \in 1..session_index_
      /\ session_index_ \in Nat
  BY ConnectionTypes DEF rvars, CInv
<1>2. Sound' => Sound
  BY <1>1 DEF Sound
<1>3. consumed > 0 => wire'[consumed] = wire[consumed]
  BY <1>1
<1>4. AtRecord'
  BY <1>1, <1>2, <1>3 DEF AtRecord
<1>5. \A i : OnWire(i) => OnWire(i)'
  <2>1. \A k \in 1..Len(wire) : k \in 1..Len(wire)'
    BY <1>1
  <2> QED
    BY <2>1 DEF OnWire
<1>6. ASSUME NEW k \in 1..Len(log), GapRight(k)
      PROVE  GapRight(k)'
  <2>1. CASE dropped' = dropped
    BY <1>1, <1>6, <2>1 DEF GapRight
  <2>2. CASE /\ dropped' = dropped \cup {session_index_}
             /\ \A j \in 1..Len(wire) : wire[j].idx < session_index_
    <3>1. log[k].idx < session_index_
      BY <1>1, <1>6, <2>2 DEF ReadRight, OnWire
    <3>2. ~(session_index_ < log[k].idx)
      BY <1>1, <1>6, <3>1
    <3> QED
      BY <1>1, <1>6, <2>2, <3>2 DEF GapRight
  <2> QED
    BY <2>1, <2>2
<1> QED
  BY <1>1, <1>2, <1>4, <1>5, <1>6 DEF ReadRight

\* send_message numbers a record, gives it a header and archives it.
LEMMA SendKeeps ==
  ASSUME CInv, NEW d \in Declared, CSendMessage(d)
  PROVE  CInv'
<1>1. PICK l \in Archived(d) : SendMessage(l)
  BY DEF CSendMessage
<1>2. /\ declared' = Append(declared, d)
      /\ UNCHANGED rvars
  BY DEF CSendMessage
<1>3. l \in Lens
  BY FrameAssumption DEF Archived
<1>4. WInv'
  BY <1>1, <1>3, WInvStep DEF CInv, Next
<1>5. /\ session_index_' = session_index_ + 1
      /\ cur'.len = l
      /\ UNCHANGED <<buffers_, wire, dropped, recut>>
  BY <1>1 DEF SendMessage
<1>6. /\ declared \in Seq(Declared) /\ Len(declared) = session_index_
      /\ session_index_ \in Nat
      /\ Len(wire) \in Nat
      /\ \A k \in 1..Len(wire) : wire[k].idx \in 1..session_index_
      /\ buffers_ \in Seq(Record)
  BY ConnectionTypes
<1>7. /\ declared' \in Seq(Declared) /\ Len(declared') = session_index_'
      /\ \A i \in 1..session_index_ : declared'[i] = declared[i]
      /\ declared'[session_index_'] = d
  BY <1>2, <1>5, <1>6, AppendProperties
<1>8. CTypeOK'
  BY <1>2, <1>4, <1>5, <1>7 DEF CInv, WInv, SInv, QInv, CTypeOK, rvars
<1>9. Fit'
  <2>1. \A i \in 1..Len(buffers_) : buffers_[i].idx \in 1..session_index_
    <3>1. \A i \in 1..Len(buffers_) : buffers_[i].idx \in Nat \ {0}
      BY <1>6, ElementOfSeq, RecordFields
    <3>2. \A i \in 1..Len(buffers_) : buffers_[i].idx <= session_index_
      BY DEF CInv, WInv, SInv, QueueOrder
    <3> QED
      BY <1>6, <3>1, <3>2
  <2> QED
    BY <1>5, <1>6, <1>7, <2>1 DEF CInv, Fit
<1>10. AtRecord' /\ ReadRight'
  BY <1>2, <1>5, <1>6, <1>7, ReaderKept
<1> QED
  BY <1>4, <1>8, <1>9, <1>10 DEF CInv

\* The sender writes, queues, drops, fails or closes.
LEMMA SenderKeeps ==
  ASSUME CInv, SenderStep
  PROVE  CInv'
<1>1. /\ Next /\ ~(\E l \in Lens : SendMessage(l))
      /\ UNCHANGED <<declared, rvars>>
  BY DEF SenderStep, Next, SendMessage, CacheFull, CachePartial, CacheWouldBlock, DirectFull,
         DirectPartial, DirectWouldBlock, SendError, CloseConnection
<1>2. WInv'
  BY <1>1, WInvStep DEF CInv
<1>3. /\ session_index_' = session_index_
      /\ recut => recut'
      /\ pc' # "idle" => pc # "idle" /\ cur' = cur
      /\ QueueFrom
      /\ \/ WritesNothing
         \/ \E b \in Record, n \in Nat \ {0} : b.start + n <= b.len /\ Writes(b, n)
  BY <1>1, StepForm DEF CInv, WInv, SInv
<1>4. /\ wire \in Seq(Byte) /\ Len(wire) \in Nat
      /\ delivered \in Nat /\ delivered <= Len(wire)
      /\ session_index_ \in Nat
      /\ buffers_ \in Seq(Record) /\ Len(buffers_) \in Nat
      /\ pc # "idle" => cur.idx = session_index_
  BY ConnectionTypes DEF CInv, WInv, SInv, QInv, PcInv
<1>5. /\ Len(wire) <= Len(wire)' /\ Len(wire)' \in Nat
      /\ \A k \in 1..Len(wire) : wire'[k] = wire[k]
      /\ \A k \in 1..Len(wire') :
           \/ k \in 1..Len(wire) /\ wire'[k] = wire[k]
           \/ /\ pc = "cache" /\ buffers_ # <<>>
              /\ wire'[k].idx = buffers_[1].idx /\ wire'[k].len = buffers_[1].len
           \/ /\ pc = "direct"
              /\ wire'[k].idx = cur.idx /\ wire'[k].len = cur.len
  <2>1. CASE WritesNothing
    BY <1>4, <2>1 DEF WritesNothing
  <2>2. ASSUME NEW b \in Record, NEW n \in Nat \ {0}, b.start + n <= b.len, Writes(b, n)
        PROVE  <1>5!:
    <3> DEFINE w == Written(b, n)
    <3>1. wire' = w
      BY <2>2 DEF Writes
    <3>2. n \in Nat /\ b.start + n <= b.len
      BY <2>2
    <3>3. /\ Len(w) = Len(wire) + n
          /\ \A k \in 1..Len(wire) : w[k] = wire[k]
          /\ \A k \in (Len(wire) + 1)..(Len(wire) + n) :
               /\ w[k].idx = b.idx
               /\ w[k].len = b.len
               /\ w[k].off = b.start + (k - Len(wire)) - 1
      BY <1>4, <3>2, WrittenProperties
    <3> HIDE DEF w
    <3>4. \A k \in 1..Len(w) : k \in 1..Len(wire) \/ k \in (Len(wire) + 1)..(Len(wire) + n)
      BY <1>4, <3>3
    <3>5. \A k \in 1..Len(w) : \/ k \in 1..Len(wire) /\ w[k] = wire[k]
                               \/ w[k].idx = b.idx /\ w[k].len = b.len
      BY <3>3, <3>4
    <3>6. Len(wire) <= Len(w) /\ Len(w) \in Nat
      BY <1>4, <3>2, <3>3
    <3>7. \/ pc = "cache" /\ buffers_ # <<>> /\ b = buffers_[1]
          \/ pc = "direct" /\ buffers_ = <<>> /\ b = cur
      BY <2>2 DEF Writes
    <3> QED
      BY <3>1, <3>3, <3>5, <3>6, <3>7
  <2> QED
    BY <1>3, <2>1, <2>2
<1>6. /\ dropped' = dropped
      \/ /\ dropped' = dropped \cup {session_index_}
         /\ pc # "idle"
  BY <1>3 DEF WritesNothing, Writes
<1>7. CTypeOK'
  <2>1. delivered' <= Len(wire')
    BY <1>1, <1>4, <1>5 DEF rvars
  <2> QED
    BY <1>1, <1>2, <1>3, <2>1 DEF CInv, WInv, SInv, QInv, CTypeOK, rvars
<1>8. Fit'
  <2>1. declared' = declared /\ Fit
    BY <1>1 DEF CInv
  <2>2. pc # "idle" => cur.len \in Archived(declared[cur.idx])
    BY <1>4, <2>1 DEF Fit
  <2>3. \A i \in 1..Len(buffers_') :
          buffers_'[i].len \in Archived(declared[buffers_'[i].idx])
    BY <1>3, <2>1, <2>2 DEF QueueFrom, Fit
  <2>4. \A k \in 1..Len(wire') : wire'[k].len \in Archived(declared[wire'[k].idx])
    <3>1. buffers_ # <<>> => 1 \in 1..Len(buffers_)
      BY <1>4, EmptySeq
    <3> QED
      BY <1>5, <2>1, <2>2, <3>1 DEF Fit
  <2>5. pc' # "idle" => cur'.len \in Archived(declared[session_index_'])
    BY <1>3, <2>1 DEF Fit
  <2> QED
    BY <2>1, <2>3, <2>4, <2>5 DEF Fit, Archived
<1>9. AtRecord' /\ ReadRight'
  <2>1. pc # "idle" => \A k \in 1..Len(wire) : wire[k].idx < session_index_
    BY DEF CInv, WInv, SInv, WireOrder
  <2>2. UNCHANGED rvars /\ declared' = declared
    BY <1>1
  <2> QED
    BY <1>3, <1>5, <1>6, <2>1, <2>2, ReaderKept
<1> QED
  BY <1>2, <1>7, <1>8, <1>9 DEF CInv

\* Where the receiver stands in an undamaged stream a record begins, its header
\* is in one piece, and so is the record if it fits its buffer.
LEMMA RecordBegins ==
  ASSUME CInv, Sound, reader_open, Available > HdrLen
  PROVE  /\ consumed + 1 \in 1..Len(wire)
         /\ wire[consumed + 1].off = 0
         /\ RecordAt(HdrLen)
         /\ log # <<>> => log[Len(log)].idx < wire[consumed + 1].idx
         /\ LET d == declared[wire[consumed + 1].idx] IN
              d <= Capacity /\ Available >= d =>
                /\ RecordAt(d)
                /\ wire[consumed + d].idx = wire[consumed + 1].idx
                /\ wire[consumed + d].off = wire[consumed + d].len - 1
<1> DEFINE y == wire[consumed + 1]
           d == declared[y.idx]
<1>1. /\ wire \in Seq(Byte) /\ Len(wire) \in Nat
      /\ consumed \in Nat /\ delivered \in Nat
      /\ consumed <= delivered /\ delivered <= Len(wire)
      /\ HdrLen \in Nat \ {0} /\ Capacity \in Nat
      /\ Len(log) \in Nat /\ (log # <<>> => Len(log) \in 1..Len(log))
      /\ \A k \in 1..Len(wire) : /\ wire[k].idx \in Nat
                                 /\ wire[k].len \in Nat /\ wire[k].off \in Nat
                                 /\ wire[k].off < wire[k].len
                                 /\ declared[wire[k].idx] \in Nat
                                 /\ declared[wire[k].idx] > HdrLen
      /\ \A k \in 1..Len(wire) : wire[k].len \in Archived(declared[wire[k].idx])
  <2>1. \A k \in 1..Len(wire) : wire[k].len \in Archived(declared[wire[k].idx])
    BY DEF CInv, Fit
  <2>2. log \in Seq([idx : 1..MaxMsgs, gap : BOOLEAN]) /\ Len(log) \in Nat
    BY ConnectionTypes
  <2>3. log # <<>> => Len(log) \in 1..Len(log)
    BY <2>2, EmptySeq
  <2>4. /\ wire \in Seq(Byte) /\ Len(wire) \in Nat
        /\ consumed \in Nat /\ delivered \in Nat
        /\ consumed <= delivered /\ delivered <= Len(wire)
        /\ HdrLen \in Nat \ {0} /\ Capacity \in Nat
    BY ConnectionTypes
  <2>5. \A k \in 1..Len(wire) : /\ wire[k].idx \in 1..session_index_
                               /\ wire[k].len \in Nat /\ wire[k].off \in Nat
                               /\ wire[k].off < wire[k].len
                               /\ declared[wire[k].idx] \in Nat
                               /\ declared[wire[k].idx] > HdrLen
    BY ConnectionTypes
  <2>6. \A k \in 1..Len(wire) : wire[k].idx \in Nat
    BY <2>4, ByteFields
  <2> QED
    BY <2>1, <2>2, <2>3, <2>4, <2>5, <2>6
<1>2. Intact(wire) /\ Runs(wire)
  BY DEF CInv, WInv, SInv, Sound
<1>3. consumed + 1 \in 1..Len(wire) /\ consumed + HdrLen < delivered
  BY <1>1 DEF Available
<1>4. /\ y.idx \in Nat /\ y.len \in Nat /\ y.off \in Nat /\ y.off < y.len
      /\ d \in Nat /\ d > HdrLen
      /\ y.len \in Archived(d)
  BY <1>1, <1>3
<1>5. y.len \in Nat /\ HdrLen <= y.len /\ (d <= Capacity => y.len = d)
  BY <1>1, <1>4 DEF Archived
<1>6. y.off = 0 /\ (log # <<>> => log[Len(log)].idx < y.idx)
  <2>1. CASE log = <<>>
    <3>1. consumed = 0
      BY <2>1 DEF CInv, AtRecord
    <3>2. wire # <<>> /\ y = wire[1]
      BY <1>1, <1>3, <3>1, EmptySeq
    <3> QED
      BY <1>2, <2>1, <3>2 DEF Intact
  <2>2. CASE log # <<>>
    <3> DEFINE x == wire[consumed]
    <3>1. /\ consumed > 0 /\ consumed \in 1..(Len(wire) - 1) /\ consumed \in 1..Len(wire)
          /\ x.idx = log[Len(log)].idx
          /\ x.off = x.len - 1
      BY <1>1, <1>3, <2>2 DEF CInv, AtRecord
    <3>2. Follows(x, y)
      BY <1>2, <3>1 DEF Intact
    <3>3. declared[x.idx] <= Capacity
      BY <1>1, <2>2, <3>1 DEF Sound
    <3>4. /\ x.idx \in Nat /\ x.len \in Nat /\ x.len \in Archived(declared[x.idx])
          /\ declared[x.idx] \in Nat
      BY <1>1, <3>1
    <3>5. x.len = declared[x.idx]
      BY <1>1, <3>3, <3>4 DEF Archived
    <3> HIDE DEF x, y
    <3>6. y.idx # x.idx
      <4>1. SUFFICES ASSUME y.idx = x.idx PROVE FALSE
        OBVIOUS
      <4>2. y.len = x.len
        BY <1>5, <3>3, <3>5, <4>1
      <4>3. y.off = x.off + 1
        BY <1>4, <3>2, <3>4, <4>1 DEF Follows
      <4> QED
        BY <1>4, <3>1, <3>4, <4>2, <4>3
    <3> QED
      BY <2>2, <3>1, <3>2, <3>6 DEF Follows
  <2> QED
    BY <2>1, <2>2
<1>7. ASSUME NEW n \in Nat, n <= y.len, consumed + n <= delivered, NEW k \in 1..n
      PROVE  /\ consumed + k \in 1..Len(wire)
             /\ wire[consumed + k].idx = y.idx
             /\ wire[consumed + k].len = y.len
             /\ wire[consumed + k].off = k - 1
  <2>1. /\ consumed + k \in 1..Len(wire)
        /\ consumed + 1 <= consumed + k
        /\ (consumed + k) - (consumed + 1) = k - 1
        /\ k - 1 < y.len - y.off
    BY <1>1, <1>4, <1>6, <1>7
  <2>2. /\ wire[consumed + k].idx = y.idx
        /\ wire[consumed + k].len = y.len
        /\ wire[consumed + k].off = y.off + (k - 1)
    <3>1. (consumed + k) - (consumed + 1) < y.len - y.off
      BY <2>1
    <3>2. /\ wire[consumed + k].idx = y.idx
          /\ wire[consumed + k].len = y.len
          /\ wire[consumed + k].off = y.off + ((consumed + k) - (consumed + 1))
      BY <1>2, <1>3, <2>1, <3>1 DEF Runs
    <3> QED
      BY <2>1, <3>2
  <2> QED
    BY <1>6, <1>7, <2>1, <2>2
<1>8. RecordAt(HdrLen)
  BY <1>1, <1>3, <1>5, <1>7 DEF RecordAt
<1>9. ASSUME d <= Capacity, Available >= d
      PROVE  /\ RecordAt(d)
             /\ wire[consumed + d].idx = y.idx
             /\ wire[consumed + d].off = wire[consumed + d].len - 1
  <2>1. y.len = d /\ d \in 1..d /\ consumed + d <= delivered /\ d <= y.len
    BY <1>1, <1>4, <1>5, <1>9 DEF Available
  <2>2. \A k \in 1..d : /\ wire[consumed + k].idx = y.idx
                        /\ wire[consumed + k].len = y.len
                        /\ wire[consumed + k].off = k - 1
    BY <1>4, <1>7, <2>1
  <2> QED
    BY <2>1, <2>2 DEF RecordAt
<1> QED
  BY <1>3, <1>6, <1>8, <1>9

\* The gap flag of a record read next, in an undamaged stream.
LEMMA GapRightNext ==
  ASSUME CInv, Sound, reader_open, Available > HdrLen,
         NEW i, i = wire[consumed + 1].idx, i < IndexMod
  PROVE  LET p == IF log = <<>> THEN 0 ELSE log[Len(log)].idx IN
         GapLogged(i % IndexMod) <=> \E j \in dropped : p < j /\ j < i
<1>1. /\ consumed + 1 \in 1..Len(wire)
      /\ log # <<>> => log[Len(log)].idx < i
  BY RecordBegins
<1>2. /\ Len(wire) \in Nat /\ consumed \in Nat /\ session_index_ \in Nat
      /\ \A k \in 1..Len(wire) : wire[k].idx \in 1..session_index_
      /\ i \in 1..session_index_
      /\ log # <<>> => Len(log) \in 1..Len(log) /\ log[Len(log)].idx \in 1..session_index_
  BY <1>1, ConnectionTypes, EmptySeq
<1>3. Bridged /\ FirstKept /\ InOrder(wire)
  BY DEF CInv, WInv, SInv, WireOrder
<1>4. dropped \subseteq 1..session_index_
  BY DEF CInv, CTypeOK, TypeOK
<1>5. CASE log = <<>>
  <2>1. consumed = 0 /\ reader_session_index_ = 0
    BY <1>5 DEF CInv, AtRecord
  <2>2. i = wire[1].idx
    BY <2>1
  <2>3. i = 1
    <3>1. SUFFICES ASSUME 1 < i PROVE FALSE
      BY <1>2
    <3>2. 1 \in 1..session_index_ /\ 1 \in 1..Len(wire)
      BY <1>1, <1>2, <3>1
    <3>3. OnWire(1)
      BY <1>3, <2>2, <3>1, <3>2 DEF Bridged, FirstKept
    <3>4. PICK k \in 1..Len(wire) : wire[k].idx = 1
      BY <3>3 DEF OnWire
    <3>5. k = 1 \/ 1 < k
      BY <1>2
    <3> QED
      BY <1>2, <1>3, <2>2, <3>1, <3>2, <3>4, <3>5 DEF InOrder
  <2>4. ~GapLogged(i % IndexMod)
    BY <2>1 DEF GapLogged
  <2>5. ~(\E j \in dropped : 0 < j /\ j < i)
    BY <1>2, <1>4, <2>3
  <2> QED
    BY <1>5, <2>4, <2>5
<1>6. CASE log # <<>>
  <2> DEFINE p == log[Len(log)].idx
  <2>1. /\ p \in 1..session_index_ /\ p < i
        /\ consumed > 0 /\ wire[consumed].idx = p
        /\ reader_session_index_ = p % IndexMod
    BY <1>1, <1>2, <1>6 DEF CInv, AtRecord
  <2> HIDE DEF p
  <2>2. GapLogged(i % IndexMod) <=> p + 1 < i
    <3>1. p \in Nat \ {0} /\ i \in Nat
      BY <1>2, <2>1
    <3> QED
      BY <2>1, <3>1, GapLoggedExact
  <2>3. ASSUME p + 1 < i
        PROVE  p + 1 \in dropped
    <3>1. p + 1 \in 1..session_index_
      BY <1>2, <2>1, <2>3
    <3>2. ~OnWire(p + 1)
      <4>1. SUFFICES ASSUME NEW k \in 1..Len(wire), wire[k].idx = p + 1 PROVE FALSE
        BY DEF OnWire
      <4>2. consumed \in 1..Len(wire)
        BY <1>1, <1>2, <2>1
      <4>3. k < consumed \/ k = consumed \/ k = consumed + 1 \/ consumed + 1 < k
        BY <1>2, <4>2
      <4>4. k < consumed => p + 1 <= p
        BY <1>3, <2>1, <4>1, <4>2 DEF InOrder
      <4>5. consumed + 1 < k => i <= p + 1
        BY <1>1, <1>3, <4>1 DEF InOrder
      <4> QED
        BY <1>2, <2>1, <2>3, <4>1, <4>3, <4>4, <4>5
    <3> QED
      BY <1>1, <1>3, <2>3, <3>1, <3>2 DEF Bridged
  <2>4. (\E j \in dropped : p < j /\ j < i) => p + 1 < i
    BY <1>2, <1>4, <2>1
  <2>5. p + 1 < i => \E j \in dropped : p < j /\ j < i
    BY <1>2, <2>1, <2>3
  <2>6. GapLogged(i % IndexMod) <=> \E j \in dropped : p < j /\ j < i
    BY <2>2, <2>4, <2>5
  <2> QED
    BY <1>6, <2>6 DEF p
<1> QED
  BY <1>5, <1>6

\* One turn of the loop of read_connection_buffer on a record.
LEMMA ReadKeeps ==
  ASSUME CInv, ReadRecord
  PROVE  CInv'
<1> DEFINE i == wire[consumed + 1].idx
           d == declared[i]
           x == i % IndexMod
           e == [idx |-> i, gap |-> GapLogged(x)]
<1>1. /\ reader_open /\ Available > HdrLen /\ Available >= d
      /\ reader_session_index_' = x
      /\ UNCHANGED <<vars, declared, delivered>>
  BY DEF ReadRecord
<1>2. /\ UNCHANGED <<buffers_, throttle_on_, session_index_, open, pc, cur, wire, dropped, recut>>
      /\ [Next]_vars
  BY <1>1 DEF vars
<1>3. WInv' /\ TypeOK'
  <2>1. WInv'
    BY <1>2, WInvStep DEF CInv
  <2> QED
    BY <2>1 DEF WInv, SInv, QInv
<1>4. /\ Len(wire) \in Nat /\ consumed \in Nat /\ delivered \in Nat
      /\ consumed <= delivered /\ delivered <= Len(wire)
      /\ session_index_ \in Nat /\ session_index_ <= MaxMsgs /\ MaxMsgs \in Nat
      /\ HdrLen \in Nat \ {0} /\ Capacity \in Nat
      /\ log \in Seq([idx : 1..MaxMsgs, gap : BOOLEAN]) /\ Len(log) \in Nat
      /\ IndexMod \in Nat \ {0}
  BY ConnectionTypes, FrameAssumption
<1>5. consumed + 1 \in 1..Len(wire)
  BY <1>1, <1>4 DEF Available
<1>6. i \in 1..session_index_ /\ d \in Nat /\ d > HdrLen
  BY <1>5, ConnectionTypes
<1>7. x \in 0..(IndexMod - 1)
  <2>1. i \in Nat
    BY <1>4, <1>6
  <2> HIDE DEF i
  <2> QED
    BY <1>4, <2>1, ModRange
<1>8. Fit'
  BY <1>1, <1>2 DEF CInv, Fit, Archived
<1>9. CASE d - HdrLen > Capacity
  <2>1. /\ reader_open' = FALSE /\ consumed' = consumed + HdrLen
        /\ UNCHANGED <<log, garbled>>
    BY <1>9 DEF ReadRecord
  <2>2. consumed' \in Nat /\ consumed' <= delivered
    BY <1>1, <1>4, <2>1 DEF Available
  <2>3. CTypeOK'
    BY <1>1, <1>2, <1>3, <1>7, <2>1, <2>2 DEF CInv, CTypeOK
  <2>4. AtRecord'
    BY <2>1 DEF AtRecord
  <2>5. ReadRight'
    BY <1>1, <1>2, <2>1 DEF CInv, ReadRight, Sound, GapRight, OnWire
  <2> QED
    BY <1>3, <1>8, <2>3, <2>4, <2>5 DEF CInv
<1>10. CASE ~(d - HdrLen > Capacity)
  <2>1. /\ consumed' = consumed + d
        /\ log' = Append(log, e)
        /\ garbled' = (garbled \/ ~RecordAt(d))
        /\ reader_open' \in BOOLEAN
    BY <1>10 DEF ReadRecord, StreamedIn, RecordAt
  <2>2. e \in [idx : 1..MaxMsgs, gap : BOOLEAN] /\ e.idx = i /\ e.gap = GapLogged(x)
    BY <1>4, <1>6 DEF GapLogged
  <2> HIDE DEF e
  <2>3. /\ log' \in Seq([idx : 1..MaxMsgs, gap : BOOLEAN])
        /\ Len(log') = Len(log) + 1
        /\ \A k \in 1..Len(log) : log'[k] = log[k]
        /\ log'[Len(log) + 1] = e
        /\ log' # <<>>
    <3>1. /\ log' \in Seq([idx : 1..MaxMsgs, gap : BOOLEAN])
          /\ Len(log') = Len(log) + 1
          /\ \A k \in 1..Len(log) : log'[k] = log[k]
          /\ log'[Len(log) + 1] = e
      BY <1>4, <2>1, <2>2, AppendProperties
    <3>2. log' # <<>>
      BY <1>4, <3>1, EmptySeq
    <3> QED
      BY <3>1, <3>2
  <2>4. consumed' \in Nat /\ consumed' <= delivered /\ consumed' > 0
    <3>1. d \in Nat /\ d > 0 /\ delivered - consumed >= d /\ consumed' = consumed + d
      BY <1>1, <1>4, <1>6, <2>1 DEF Available
    <3> HIDE DEF d
    <3> QED
      BY <1>4, <3>1
  <2>5. CTypeOK'
    <3>1. garbled' \in BOOLEAN
      BY <2>1 DEF RecordAt
    <3> QED
      BY <1>1, <1>2, <1>3, <1>7, <2>1, <2>3, <2>4, <3>1 DEF CInv, CTypeOK
  <2>6. \A k \in 1..Len(log') : k \in 1..Len(log) \/ k = Len(log) + 1
    BY <1>4, <2>3
  <2>7. Sound' => Sound /\ d <= Capacity
    <3>1. SUFFICES ASSUME Sound' PROVE Sound /\ d <= Capacity
      OBVIOUS
    <3>2. \A k \in 1..Len(log) : k \in 1..Len(log')
      BY <1>4, <2>3
    <3>3. Sound
      BY <1>1, <1>2, <2>3, <3>1, <3>2 DEF Sound
    <3>4. Len(log) + 1 \in 1..Len(log')
      BY <1>4, <2>3
    <3>5. declared[log'[Len(log) + 1].idx] <= Capacity
      BY <1>1, <3>1, <3>4 DEF Sound
    <3> QED
      BY <2>2, <2>3, <3>3, <3>5
  <2>8. Sound' => /\ RecordAt(d)
                  /\ wire[consumed + d].idx = i
                  /\ wire[consumed + d].off = wire[consumed + d].len - 1
    BY <1>1, <2>7, RecordBegins
  <2>9. AtRecord'
    <3>1. log'[Len(log')].idx = i
      BY <2>2, <2>3
    <3> QED
      BY <1>1, <1>2, <2>1, <2>3, <2>4, <2>8, <3>1 DEF AtRecord
  <2>10. (\A k \in 1..Len(log) : OnWire(log[k].idx))'
    <3>1. OnWire(i)
      BY <1>5 DEF OnWire
    <3>2. \A k \in 1..Len(log) : OnWire(log[k].idx)
      BY DEF CInv, ReadRight
    <3>3. \A k \in 1..Len(log') : OnWire(log'[k].idx)
      BY <2>2, <2>3, <2>6, <3>1, <3>2
    <3> QED
      BY <1>2, <3>3 DEF OnWire
  <2>11. Sound' => ~garbled'
    BY <2>1, <2>7, <2>8 DEF CInv, ReadRight
  <2>12. ASSUME Sound', NEW k \in 1..Len(log')
         PROVE  GapRight(k)'
    <3>1. CASE k \in 1..Len(log)
      <4>1. GapRight(k)
        BY <2>7, <2>12, <3>1 DEF CInv, ReadRight
      <4>2. log'[k] = log[k] /\ (k # 1 => log'[k - 1] = log[k - 1])
        <5>1. k # 1 => k - 1 \in 1..Len(log)
          BY <1>4, <3>1
        <5> QED
          BY <2>3, <3>1, <5>1
      <4> QED
        BY <1>2, <4>1, <4>2 DEF GapRight
    <3>2. CASE k = Len(log) + 1
      <4> DEFINE p == IF log = <<>> THEN 0 ELSE log[Len(log)].idx
      <4>1. i < IndexMod => (GapLogged(x) <=> \E j \in dropped : p < j /\ j < i)
        BY <1>1, <2>7, <2>12, GapRightNext
      <4>2. p = IF k = 1 THEN 0 ELSE log'[k - 1].idx
        <5>1. log = <<>> <=> k = 1
          BY <1>4, <3>2, EmptySeq
        <5>2. k # 1 => k - 1 = Len(log) /\ Len(log) \in 1..Len(log)
          BY <1>4, <3>2
        <5> QED
          BY <2>3, <5>1, <5>2
      <4>3. log'[k].idx = i /\ log'[k].gap = GapLogged(x)
        BY <2>2, <2>3, <3>2
      <4> HIDE DEF p, i, x
      <4> QED
        BY <1>2, <4>1, <4>2, <4>3 DEF GapRight
    <3> QED
      BY <2>6, <3>1, <3>2
  <2>13. ReadRight'
    BY <2>10, <2>11, <2>12 DEF ReadRight
  <2> QED
    BY <1>3, <1>8, <2>5, <2>9, <2>13 DEF CInv
<1> QED
  BY <1>9, <1>10

\* Bytes that are no header are read only past damage.
LEMMA GarbageKeeps ==
  ASSUME CInv, ReadGarbage
  PROVE  CInv'
<1>1. /\ reader_open /\ Available > HdrLen /\ ~RecordAt(HdrLen)
      /\ garbled' = TRUE
      /\ UNCHANGED <<vars, declared, delivered, log>>
  BY DEF ReadGarbage
<1>2. /\ UNCHANGED <<buffers_, throttle_on_, session_index_, open, pc, cur, wire, dropped, recut>>
      /\ [Next]_vars
  BY <1>1 DEF vars
<1>3. WInv' /\ TypeOK'
  <2>1. WInv'
    BY <1>2, WInvStep DEF CInv
  <2> QED
    BY <2>1 DEF WInv, SInv, QInv
<1>4. ~Sound'
  <2>1. ~Sound
    BY <1>1, RecordBegins
  <2> QED
    BY <1>1, <1>2, <2>1 DEF Sound
<1>5. /\ reader_open' \in BOOLEAN
      /\ reader_session_index_' \in 0..(IndexMod - 1)
      /\ consumed' \in Nat /\ consumed' <= delivered
  <2>1. /\ consumed \in Nat /\ delivered \in Nat /\ consumed <= delivered /\ HdrLen \in Nat
        /\ reader_session_index_ \in 0..(IndexMod - 1)
    BY ConnectionTypes DEF CInv, CTypeOK
  <2>2. CASE reader_open' = FALSE /\ UNCHANGED <<consumed, reader_session_index_>>
    BY <2>1, <2>2
  <2>3. CASE /\ consumed' \in (consumed + HdrLen + 1)..delivered
             /\ reader_session_index_' \in 0..(IndexMod - 1)
             /\ UNCHANGED reader_open
    BY <1>1, <2>1, <2>3
  <2> QED
    BY <2>2, <2>3 DEF ReadGarbage
<1>6. CTypeOK'
  BY <1>1, <1>2, <1>3, <1>5 DEF CInv, CTypeOK
<1>7. Fit'
  BY <1>1, <1>2 DEF CInv, Fit, Archived
<1>8. AtRecord' /\ ReadRight'
  BY <1>1, <1>2, <1>4 DEF CInv, AtRecord, ReadRight, OnWire
<1> QED
  BY <1>3, <1>6, <1>7, <1>8 DEF CInv

\* The kernel delivers, the receiver closes, nothing happens.
LEMMA OtherKeeps ==
  ASSUME CInv, Deliver \/ ReaderDown \/ UNCHANGED cvars
  PROVE  CInv'
<1>1. /\ UNCHANGED <<vars, declared, consumed, reader_session_index_, log, garbled>>
      /\ reader_open' \in {FALSE, reader_open}
  BY DEF Deliver, ReaderDown, cvars, rvars
<1>2. /\ UNCHANGED <<buffers_, throttle_on_, session_index_, open, pc, cur, wire, dropped, recut>>
      /\ [Next]_vars
  BY <1>1 DEF vars
<1>3. WInv' /\ TypeOK'
  <2>1. WInv'
    BY <1>2, WInvStep DEF CInv
  <2> QED
    BY <2>1 DEF WInv, SInv, QInv
<1>4. /\ delivered' \in Nat /\ consumed <= delivered' /\ delivered' <= Len(wire)
  <2>1. /\ consumed \in Nat /\ delivered \in Nat /\ Len(wire) \in Nat
        /\ consumed <= delivered /\ delivered <= Len(wire)
    BY ConnectionTypes
  <2>2. delivered' = delivered \/ delivered' \in (delivered + 1)..Len(wire)
    BY DEF Deliver, ReaderDown, cvars, rvars
  <2> QED
    BY <2>1, <2>2
<1>5. reader_open' \in BOOLEAN
  BY <1>1 DEF CInv, CTypeOK
<1>6. CTypeOK'
  BY <1>1, <1>2, <1>3, <1>4, <1>5 DEF CInv, CTypeOK
<1>7. Fit'
  BY <1>1, <1>2 DEF CInv, Fit, Archived
<1>8. AtRecord'
  BY <1>1, <1>2, <1>5 DEF CInv, CTypeOK, AtRecord, Sound
<1>9. ReadRight'
  BY <1>1, <1>2 DEF CInv, ReadRight, Sound, GapRight, OnWire
<1> QED
  BY <1>3, <1>6, <1>7, <1>8, <1>9 DEF CInv

\* A new connection satisfies CInv.
LEMMA CInvInit ==
  ASSUME CInit
  PROVE  CInv
<1>1. /\ Init /\ declared = <<>> /\ delivered = 0 /\ consumed = 0 /\ reader_open = TRUE
      /\ reader_session_index_ = 0 /\ log = <<>> /\ garbled = FALSE
  BY DEF CInit
<1>2. /\ buffers_ = <<>> /\ Len(buffers_) = 0 /\ wire = <<>> /\ Len(wire) = 0
      /\ session_index_ = 0 /\ pc = "idle" /\ dropped = {} /\ Len(log) = 0
      /\ Len(declared) = 0
  BY <1>1, EmptySeq DEF Init
<1>3. SInv /\ EveryRecordAccounted
  BY <1>1, SInvInit, AInvInit DEF AInv
<1>4. WInv
  BY <1>2, <1>3, BoundsAssumption
  DEF WInv, SameLength, Bridged, OnWire, FirstKept, Runs
<1>5. CTypeOK
  <2>1. TypeOK
    BY <1>3 DEF SInv, QInv
  <2>2. declared \in Seq(Declared) /\ log \in Seq([idx : 1..MaxMsgs, gap : BOOLEAN])
    BY <1>1
  <2>3. 0 \in 0..(IndexMod - 1)
    BY FrameAssumption
  <2>4. Len(declared) = session_index_
    BY <1>2
  <2>5. /\ consumed \in Nat /\ delivered \in Nat
        /\ consumed <= delivered /\ delivered <= Len(wire)
    BY <1>1, <1>2
  <2>6. reader_session_index_ \in 0..(IndexMod - 1) /\ reader_open \in BOOLEAN
        /\ garbled \in BOOLEAN
    BY <1>1, <2>3
  <2> QED
    BY <2>1, <2>2, <2>4, <2>5, <2>6 DEF CTypeOK
<1>6. Fit
  BY <1>2 DEF Fit
<1>7. AtRecord /\ ReadRight
  BY <1>1, <1>2 DEF AtRecord, ReadRight
<1> QED
  BY <1>4, <1>5, <1>6, <1>7 DEF CInv

\* CInv is inductive.
LEMMA CInvStep ==
  ASSUME CInv, [CNext]_cvars
  PROVE  CInv'
<1>1. CExhausted => UNCHANGED cvars
  BY DEF CExhausted, Exhausted, cvars
<1> QED
  BY <1>1, SendKeeps, SenderKeeps, ReadKeeps, GarbageKeeps, OtherKeeps DEF CNext

LEMMA ReaderInvariant == CSpec => [](CTypeOK /\ GarbledOnlyPastDamage /\ GapsExact)
<1>1. CInit => CInv
  BY CInvInit
<1>2. CInv /\ [CNext]_cvars => CInv'
  BY CInvStep
<1>3. CInv => CTypeOK /\ GarbledOnlyPastDamage /\ GapsExact
  <2>1. SUFFICES ASSUME CInv PROVE CTypeOK /\ GarbledOnlyPastDamage /\ GapsExact
    OBVIOUS
  <2>2. /\ ReadRight /\ CTypeOK
        /\ declared \in Seq(Declared) /\ Len(declared) = session_index_
        /\ \A k \in 1..Len(log) : log[k].idx \in 1..session_index_
        /\ \A k \in 1..Len(log) : declared[log[k].idx] \in Nat
        /\ Capacity \in Nat
    <3>1. /\ declared \in Seq(Declared) /\ Len(declared) = session_index_
          /\ \A k \in 1..Len(log) : log[k].idx \in 1..session_index_
          /\ Capacity \in Nat
      BY <2>1, ConnectionTypes
    <3>2. \A k \in 1..Len(log) : declared[log[k].idx] \in Declared
      BY <3>1, ElementOfSeq
    <3> QED
      BY <2>1, <3>1, <3>2, FrameAssumption DEF CInv
  <2>3. GarbledOnlyPastDamage
    BY <2>2 DEF GarbledOnlyPastDamage, ReadRight, Sound
  <2>4. ~Damaged => Sound
    BY <2>2 DEF Damaged, Oversized, Sound
  <2>5. GapsExact
    BY <2>2, <2>4 DEF GapsExact, ReadRight, GapRight
  <2> QED
    BY <2>2, <2>3, <2>5
<1> QED
  BY <1>1, <1>2, <1>3, PTL DEF CSpec

\* For any lengths, marks, capacity and width of the index every variable keeps
\* its type.
THEOREM ConnectionTyped == CSpec => []CTypeOK
  BY ReaderInvariant, PTL

\* Whatever way the stream is cut into deliveries, the receiver takes only whole
\* records for records unless the sender damaged the stream.
THEOREM GarbledExplained == CSpec => []GarbledOnlyPastDamage
  BY ReaderInvariant, PTL

\* In a stream that was not damaged the receiver logs a gap at a record exactly
\* when the throttle dropped the records just before it, as long as the index has
\* not wrapped.
THEOREM ReaderExact == CSpec => []GapsExact
  BY ReaderInvariant, PTL

-----------------------------------------------------------------------------
(* The refinement of LossyStream. *)

\* The bytes of a record on the wire start with its first.
Begun(w) ==
  \A k \in 1..Len(w) :
    /\ w[k].off < k
    /\ w[k - w[k].off].idx = w[k].idx
    /\ w[k - w[k].off].off = 0

\* The receiver stands at the end of the last record it read.
AtEnd ==
  IF log = <<>>
    THEN consumed = 0
    ELSE /\ consumed > 0
         /\ wire[consumed].idx = log[Len(log)].idx
         /\ wire[consumed].off = wire[consumed].len - 1

\* The invariant of the refinement.
RInv ==
  /\ CInv
  /\ ~recut => Begun(wire)
  /\ ~Damaged => AtEnd

\* Writing on from where the wire ends leaves no record without its first byte.
LEMMA BegunWritten ==
  ASSUME wire \in Seq(Byte), NEW b \in Record, NEW n \in Nat \ {0}, b.start + n <= b.len,
         Begun(wire),
         b.start > 0 => /\ wire # <<>>
                        /\ wire[Len(wire)].idx = b.idx
                        /\ wire[Len(wire)].off = b.start - 1
  PROVE  Begun(Written(b, n))
<1> DEFINE w == Written(b, n)
           l == Len(wire)
           s == b.start
<1>1. /\ Len(w) = l + n
      /\ \A k \in 1..l : w[k] = wire[k]
      /\ \A k \in (l + 1)..(l + n) : w[k].idx = b.idx /\ w[k].off = s + (k - l) - 1
  BY WrittenProperties
<1>2. l \in Nat /\ s \in Nat /\ n \in Nat /\ n > 0
  BY LenProperties, RecordFields
<1>3. \A k \in 1..l : wire[k].off \in Nat
  BY ByteFields
<1>4. s > 0 => l \in 1..l /\ wire[l].idx = b.idx /\ wire[l].off = s - 1
  BY <1>2, EmptySeq
<1>5. /\ \A k \in 1..l : /\ wire[k].off < k
                         /\ wire[k - wire[k].off].idx = wire[k].idx
                         /\ wire[k - wire[k].off].off = 0
      /\ wire \in Seq(Byte)
  BY DEF Begun
<1> HIDE DEF w, l, s
<1>6. ASSUME NEW k \in 1..l
      PROVE  w[k].off < k /\ w[k - w[k].off].idx = w[k].idx /\ w[k - w[k].off].off = 0
  <2>1. k - wire[k].off \in 1..l
    BY <1>2, <1>3, <1>5
  <2> QED
    BY <1>1, <1>5, <2>1
<1>7. ASSUME NEW k \in (l + 1)..(l + n)
      PROVE  w[k].off < k /\ w[k - w[k].off].idx = w[k].idx /\ w[k - w[k].off].off = 0
  <2>1. w[k].idx = b.idx /\ w[k].off = s + (k - l) - 1
    BY <1>1
  <2>2. CASE s = 0
    <3>1. w[k].off < k /\ k - w[k].off = l + 1 /\ l + 1 \in (l + 1)..(l + n)
      BY <1>2, <2>1, <2>2
    <3>2. w[l + 1].idx = b.idx /\ w[l + 1].off = s + ((l + 1) - l) - 1
      BY <1>1, <3>1
    <3> QED
      BY <1>2, <2>1, <2>2, <3>1, <3>2
  <2>3. CASE s > 0
    <3>1. s - 1 < l /\ wire[l - (s - 1)].idx = b.idx /\ wire[l - (s - 1)].off = 0
      BY <1>4, <1>5, <2>3
    <3>2. w[k].off < k /\ k - w[k].off = l - (s - 1) /\ l - (s - 1) \in 1..l
      BY <1>2, <2>1, <2>3, <3>1
    <3> QED
      BY <1>1, <2>1, <3>1, <3>2
  <2> QED
    BY <1>2, <2>2, <2>3
<1>8. \A k \in 1..Len(w) : k \in 1..l \/ k \in (l + 1)..(l + n)
  BY <1>1, <1>2
<1> QED
  BY <1>6, <1>7, <1>8 DEF Begun, w

\* No step of the sender takes the first byte of a record off the wire, or writes
\* another one without it.
LEMMA BegunStep ==
  ASSUME WInv, [Next]_vars, ~recut => Begun(wire)
  PROVE  ~recut' => Begun(wire)'
<1>1. QInv /\ SInv /\ wire \in Seq(Byte)
  BY DEF WInv, SInv, QInv, TypeOK
<1>2. CASE (\E l \in Lens : SendMessage(l)) \/ UNCHANGED vars
  <2>1. wire' = wire /\ recut' = recut
    BY <1>2 DEF SendMessage, vars
  <2> QED
    BY <2>1 DEF Begun
<1>3. CASE Next /\ ~(\E l \in Lens : SendMessage(l))
  <2>1. /\ recut => recut'
        /\ \/ WritesNothing
           \/ \E b \in Record, n \in Nat \ {0} : b.start + n <= b.len /\ Writes(b, n)
    BY <1>1, <1>3, StepForm
  <2>2. CASE WritesNothing
    BY <2>1, <2>2 DEF WritesNothing, Begun
  <2>3. ASSUME NEW b \in Record, NEW n \in Nat \ {0}, b.start + n <= b.len, Writes(b, n),
               ~recut'
        PROVE  Begun(wire)'
    <3>1. /\ wire' = Written(b, n)
          /\ \/ pc = "cache" /\ buffers_ # <<>> /\ b = buffers_[1]
             \/ pc = "direct" /\ buffers_ = <<>> /\ b = cur
      BY <2>3 DEF Writes
    <3>2. /\ Edge
          /\ pc # "idle" => cur.start = 0
      BY <1>1, <2>1, <2>3 DEF SInv, QInv, PcInv
    <3>3. b.start > 0 => /\ wire # <<>>
                         /\ wire[Len(wire)].idx = b.idx
                         /\ wire[Len(wire)].off = b.start - 1
      BY <3>1, <3>2 DEF Edge
    <3>4. Begun(wire)
      BY <2>1, <2>3
    <3>5. Begun(Written(b, n))
      BY <1>1, <2>3, <3>3, <3>4, BegunWritten
    <3> QED
      BY <3>1, <3>5 DEF Begun
  <2> QED
    BY <2>1, <2>2, <2>3
<1> QED
  BY <1>2, <1>3

\* The queue does what TcpSocketQueue allows in every step of the connection.
LEMMA QueueStep ==
  ASSUME [CNext]_cvars
  PROVE  [Next]_vars
<1>1. ASSUME NEW d \in Declared, CSendMessage(d)
      PROVE  Next
  BY <1>1, FrameAssumption DEF CSendMessage, Archived, Next
<1>2. SenderStep => Next
  BY DEF SenderStep, Next
<1>3. Deliver \/ ReadRecord \/ ReadGarbage \/ ReaderDown \/ CExhausted \/ UNCHANGED cvars => UNCHANGED vars
  BY DEF Deliver, ReadRecord, ReadGarbage, ReaderDown, CExhausted, Exhausted, cvars, vars
<1> QED
  BY <1>1, <1>2, <1>3 DEF CNext

\* What was damaged stays damaged.
LEMMA DamageStays ==
  ASSUME CInv, [CNext]_cvars, Damaged
  PROVE  Damaged'
<1>1. declared \in Seq(Declared) /\ Len(declared) \in Nat
  BY LenProperties DEF CInv, CTypeOK
<1>2. ASSUME NEW d \in Declared, CSendMessage(d)
      PROVE  Damaged'
  <2>1. recut' = recut /\ declared' = Append(declared, d)
    BY <1>2 DEF CSendMessage, SendMessage
  <2>2. /\ Len(declared') = Len(declared) + 1
        /\ \A k \in 1..Len(declared) : declared'[k] = declared[k]
    BY <1>1, <1>2, <2>1, AppendProperties
  <2>3. \A k \in 1..Len(declared) : k \in 1..Len(declared')
    BY <1>1, <2>2
  <2> QED
    BY <2>1, <2>2, <2>3 DEF Damaged, Oversized
<1>3. CASE SenderStep
  <2>1. declared' = declared
    BY <1>3 DEF SenderStep
  <2>2. CASE CachePartial
    BY <2>1, <2>2 DEF CachePartial, Damaged, Oversized
  <2>3. CASE ~CachePartial
    BY <1>3, <2>1, <2>3 DEF SenderStep, CacheFull, CacheWouldBlock, DirectFull, DirectPartial,
       DirectWouldBlock, SendError, CloseConnection, Damaged, Oversized
  <2> QED
    BY <2>2, <2>3
<1>4. CASE Deliver \/ ReadRecord \/ ReadGarbage \/ ReaderDown \/ CExhausted \/ UNCHANGED cvars
  <2>1. declared' = declared /\ recut' = recut
    BY <1>4 DEF Deliver, ReadRecord, ReadGarbage, ReaderDown, CExhausted, Exhausted, cvars, vars
  <2> QED
    BY <2>1 DEF Damaged, Oversized
<1> QED
  BY <1>2, <1>3, <1>4 DEF CNext

\* In an undamaged stream the receiver finds nothing wrong.
LEMMA UndamagedSound ==
  ASSUME CInv, ~Damaged
  PROVE  /\ Sound /\ Intact(wire) /\ Runs(wire) /\ Edge
         /\ \A k \in 1..Len(wire) : declared[wire[k].idx] <= Capacity
<1>1. /\ \A k \in 1..Len(log) : log[k].idx \in 1..session_index_
      /\ \A k \in 1..Len(wire) : wire[k].idx \in 1..session_index_
      /\ declared \in Seq(Declared) /\ Len(declared) = session_index_
      /\ Capacity \in Nat
  BY ConnectionTypes
<1>2. \A k \in 1..Len(declared) : declared[k] \in Nat
  BY <1>1, ElementOfSeq, FrameAssumption
<1>3. ~recut /\ \A k \in 1..Len(declared) : declared[k] <= Capacity
  BY <1>1, <1>2 DEF Damaged, Oversized
<1> QED
  BY <1>1, <1>3 DEF Sound, CInv, WInv, SInv

\* The kernel takes back nothing it has accepted.
LEMMA WireGrows ==
  ASSUME QInv, [Next]_vars
  PROVE  \A k \in 1..Len(wire) : wire'[k] = wire[k]
<1>1. CASE (\E l \in Lens : SendMessage(l)) \/ UNCHANGED vars
  BY <1>1 DEF SendMessage, vars
<1>2. CASE Next /\ ~(\E l \in Lens : SendMessage(l))
  <2>1. \/ WritesNothing
        \/ \E b \in Record, n \in Nat \ {0} : b.start + n <= b.len /\ Writes(b, n)
    BY <1>2, StepForm
  <2>2. ASSUME NEW b \in Record, NEW n \in Nat \ {0}, b.start + n <= b.len, Writes(b, n)
        PROVE  \A k \in 1..Len(wire) : wire'[k] = wire[k]
    <3>1. wire \in Seq(Byte) /\ n \in Nat /\ wire' = Written(b, n)
      BY <2>2 DEF QInv, TypeOK, Writes
    <3> QED
      BY <2>2, <3>1, WrittenProperties
  <2> QED
    BY <2>1, <2>2 DEF WritesNothing
<1> QED
  BY <1>1, <1>2

\* Every step of the connection keeps the invariant of the refinement.
LEMMA RInvStep ==
  ASSUME RInv, [CNext]_cvars
  PROVE  RInv'
<1>1. CInv /\ CInv' /\ [Next]_vars /\ (Damaged => Damaged')
  BY QueueStep, CInvStep, DamageStays DEF RInv
<1>2. ~recut' => Begun(wire)'
  BY <1>1, BegunStep DEF RInv, CInv
<1>3. ASSUME ~Damaged'
      PROVE  AtEnd'
  <2>1. AtEnd /\ Sound /\ ~Damaged
    BY <1>1, <1>3, UndamagedSound DEF RInv
  <2>2. /\ log \in Seq([idx : 1..MaxMsgs, gap : BOOLEAN]) /\ Len(log) \in Nat
        /\ consumed \in Nat /\ consumed <= Len(wire) /\ Len(wire) \in Nat
        /\ wire \in Seq(Byte)
    BY <1>1, ConnectionTypes
  <2>3. \A k \in 1..Len(wire) : wire'[k] = wire[k]
    BY <1>1, WireGrows DEF RInv, CInv, WInv, SInv
  <2>4. CASE UNCHANGED <<consumed, log>>
    BY <2>1, <2>2, <2>3, <2>4 DEF AtEnd
  <2>5. CASE ReadRecord
    <3> DEFINE i == wire[consumed + 1].idx
               d == declared[i]
               e == [idx |-> i, gap |-> GapLogged(i % IndexMod)]
    <3>1. /\ reader_open /\ Available > HdrLen /\ Available >= d
          /\ UNCHANGED <<vars, declared, delivered>>
      BY <2>5 DEF ReadRecord
    <3>2. consumed + 1 \in 1..Len(wire)
      BY <1>1, <2>1, <3>1, RecordBegins
    <3>3. d <= Capacity /\ d \in Nat /\ d > HdrLen /\ HdrLen \in Nat /\ Capacity \in Nat
      BY <1>1, <2>1, <3>2, ConnectionTypes, UndamagedSound
    <3>4. /\ consumed' = consumed + d
          /\ log' = Append(log, e)
      <4>1. ~(d - HdrLen > Capacity)
        <5> HIDE DEF d
        <5> QED
          BY <3>3
      <4> QED
        BY <2>5, <4>1 DEF ReadRecord
    <3>5. /\ wire[consumed + d].idx = i
          /\ wire[consumed + d].off = wire[consumed + d].len - 1
      BY <1>1, <2>1, <3>1, <3>3, RecordBegins
    <3>6. wire' = wire
      BY <3>1 DEF vars
    <3>7. log' # <<>> /\ log'[Len(log')].idx = i
      <4>1. i \in 1..MaxMsgs /\ e \in [idx : 1..MaxMsgs, gap : BOOLEAN] /\ e.idx = i
        <5>1. i \in 1..MaxMsgs
          BY <1>1, <3>2, ConnectionTypes
        <5> QED
          BY <5>1 DEF GapLogged
      <4> HIDE DEF e
      <4>2. Len(log') = Len(log) + 1 /\ log'[Len(log) + 1] = e
        BY <2>2, <3>4, <4>1, AppendProperties
      <4> QED
        BY <2>2, <4>1, <4>2, EmptySeq
    <3>8. consumed' > 0
      <4> HIDE DEF d
      <4> QED
        BY <2>2, <3>3, <3>4
    <3> QED
      BY <3>4, <3>5, <3>6, <3>7, <3>8 DEF AtEnd
  <2>6. CASE ReadGarbage
    BY <1>1, <2>1, <2>6, RecordBegins DEF ReadGarbage
  <2> QED
    BY <2>4, <2>5, <2>6 DEF CNext, cvars, rvars, CSendMessage, SenderStep, Deliver, ReaderDown,
       CExhausted
<1> QED
  BY <1>1, <1>2, <1>3 DEF RInv

\* A new connection satisfies it.
LEMMA RInvInit ==
  ASSUME CInit
  PROVE  RInv
<1>1. CInv
  BY CInvInit
<1>2. wire = <<>> /\ Len(wire) = 0 /\ log = <<>> /\ consumed = 0
  BY EmptySeq DEF CInit, Init
<1> QED
  BY <1>1, <1>2 DEF RInv, Begun, AtEnd

\* Writing the first byte of a record makes it one the receiver has to read.
LEMMA UnreadWritten ==
  ASSUME wire \in Seq(Byte), consumed \in Nat, consumed <= Len(wire), consumed' = consumed,
         NEW b \in Record, NEW n \in Nat \ {0}, b.start + n <= b.len, wire' = Written(b, n)
  PROVE  Unread' = IF b.start = 0 THEN Unread \cup {b.idx} ELSE Unread
<1> DEFINE w == Written(b, n)
           l == Len(wire)
           s == b.start
<1>1. /\ Len(w) = l + n
      /\ \A k \in 1..l : w[k] = wire[k]
      /\ \A k \in (l + 1)..(l + n) : w[k].idx = b.idx /\ w[k].off = s + (k - l) - 1
  BY WrittenProperties
<1>2. l \in Nat /\ s \in Nat /\ n \in Nat /\ n > 0
  BY LenProperties, RecordFields
<1>3. consumed' = consumed /\ wire' = w /\ consumed \in Nat /\ consumed <= l
  OBVIOUS
<1> HIDE DEF w, l, s
<1>4. \A k \in 1..Len(w) : k \in 1..l \/ k \in (l + 1)..(l + n)
  BY <1>1, <1>2
<1>5. \A k \in (l + 1)..(l + n) : w[k].off = 0 => s = 0 /\ w[k].idx = b.idx
  BY <1>1, <1>2
<1>6. s = 0 => /\ l + 1 \in 1..Len(w) /\ l + 1 > consumed
               /\ w[l + 1].off = 0 /\ w[l + 1].idx = b.idx
  <2>1. l + 1 \in (l + 1)..(l + n) /\ l + 1 \in 1..Len(w) /\ l + 1 > consumed
    BY <1>1, <1>2, <1>3
  <2>2. w[l + 1].off = s + ((l + 1) - l) - 1 /\ w[l + 1].idx = b.idx
    BY <1>1, <2>1
  <2> QED
    BY <1>2, <2>1, <2>2
<1>7. \A k \in 1..l : k \in 1..Len(w)
  BY <1>1, <1>2
<1>8. ASSUME NEW x
      PROVE  x \in Unread' <=> x \in Unread \/ (s = 0 /\ x = b.idx)
  <2>1. x \in Unread <=> \E k \in 1..l : k > consumed /\ wire[k].off = 0 /\ wire[k].idx = x
    BY DEF Unread, l
  <2>2. x \in Unread' <=> \E k \in 1..Len(w) : k > consumed /\ w[k].off = 0 /\ w[k].idx = x
    BY <1>3 DEF Unread
  <2>3. ASSUME x \in Unread'
        PROVE  x \in Unread \/ (s = 0 /\ x = b.idx)
    <3>1. PICK k \in 1..Len(w) : k > consumed /\ w[k].off = 0 /\ w[k].idx = x
      BY <2>2, <2>3
    <3>2. CASE k \in 1..l
      BY <1>1, <2>1, <3>1, <3>2
    <3>3. CASE k \in (l + 1)..(l + n)
      BY <1>5, <3>1, <3>3
    <3> QED
      BY <1>4, <3>2, <3>3
  <2>4. x \in Unread => x \in Unread'
    BY <1>1, <1>7, <2>1, <2>2
  <2>5. s = 0 /\ x = b.idx => x \in Unread'
    BY <1>6, <2>2
  <2> QED
    BY <2>3, <2>4, <2>5
<1>9. CASE s = 0
  BY <1>8, <1>9 DEF s
<1>10. CASE s # 0
  BY <1>8, <1>10 DEF s
<1> QED
  BY <1>9, <1>10

\* A record that joins the queue waits to be written, unless a part of it was.
LEMMA UnwrittenAppend ==
  ASSUME buffers_ \in Seq(Record), NEW b \in Record, buffers_' = Append(buffers_, b)
  PROVE  Unwritten' = IF b.start = 0 THEN Unwritten \cup {b.idx} ELSE Unwritten
<1> DEFINE q == Append(buffers_, b)
           l == Len(buffers_)
<1>1. /\ Len(q) = l + 1 /\ l \in Nat
      /\ \A k \in 1..l : q[k] = buffers_[k]
      /\ q[l + 1] = b
  BY AppendProperties, LenProperties
<1>2. buffers_' = q
  OBVIOUS
<1> HIDE DEF q, l
<1>3. /\ \A k \in 1..Len(q) : k \in 1..l \/ k = l + 1
      /\ \A k \in 1..l : k \in 1..Len(q)
      /\ l + 1 \in 1..Len(q)
  BY <1>1
<1>4. ASSUME NEW x
      PROVE  x \in Unwritten' <=> x \in Unwritten \/ (b.start = 0 /\ x = b.idx)
  <2>1. x \in Unwritten <=> \E k \in 1..l : buffers_[k].start = 0 /\ buffers_[k].idx = x
    BY DEF Unwritten, l
  <2>2. x \in Unwritten' <=> \E k \in 1..Len(q) : q[k].start = 0 /\ q[k].idx = x
    BY <1>2 DEF Unwritten
  <2>3. ASSUME x \in Unwritten'
        PROVE  x \in Unwritten \/ (b.start = 0 /\ x = b.idx)
    <3>1. PICK k \in 1..Len(q) : q[k].start = 0 /\ q[k].idx = x
      BY <2>2, <2>3
    <3>2. CASE k \in 1..l
      BY <1>1, <2>1, <3>1, <3>2
    <3>3. CASE k = l + 1
      BY <1>1, <3>1, <3>3
    <3> QED
      BY <1>3, <3>2, <3>3
  <2>4. x \in Unwritten => x \in Unwritten'
    BY <1>1, <1>3, <2>1, <2>2
  <2>5. b.start = 0 /\ x = b.idx => x \in Unwritten'
    BY <1>1, <1>3, <2>2
  <2> QED
    BY <2>3, <2>4, <2>5
<1>5. CASE b.start = 0
  BY <1>4, <1>5
<1>6. CASE b.start # 0
  BY <1>4, <1>6
<1> QED
  BY <1>5, <1>6

\* The front record is written, whole or its first bytes: it does not wait to
\* be written any more.
LEMMA UnwrittenFront ==
  ASSUME buffers_ \in Seq(Record), buffers_ # <<>>,
         \/ buffers_' = Tail(buffers_)
         \/ \E n \in Nat \ {0} : buffers_' = [buffers_ EXCEPT ![1] = SetStart(buffers_[1], n)]
  PROVE  Unwritten = IF buffers_[1].start = 0 THEN Unwritten' \cup {buffers_[1].idx}
                                              ELSE Unwritten'
<1> DEFINE l == Len(buffers_)
           q == buffers_'
<1>1. l \in Nat /\ l > 0
  BY EmptySeq, LenProperties
<1>2. \A x : x \in Unwritten <=> \E k \in 1..l : buffers_[k].start = 0 /\ buffers_[k].idx = x
  BY DEF Unwritten
<1>3. \A x : x \in Unwritten' <=> \E k \in 1..Len(q) : q[k].start = 0 /\ q[k].idx = x
  BY DEF Unwritten
<1>4. \A x : x \in Unwritten' <=>
               \E k \in 1..l : k # 1 /\ buffers_[k].start = 0 /\ buffers_[k].idx = x
  <2>1. CASE q = Tail(buffers_)
    <3>1. Len(q) = l - 1 /\ \A k \in 1..Len(q) : q[k] = buffers_[k + 1]
      BY <1>1, <2>1, HeadTailProperties
    <3> HIDE DEF q, l
    <3>2. /\ \A k \in 1..Len(q) : k + 1 \in 1..l /\ k + 1 # 1
          /\ \A k \in 1..l : k # 1 => k - 1 \in 1..Len(q) /\ (k - 1) + 1 = k
      BY <1>1, <3>1
    <3> QED
      BY <1>3, <3>1, <3>2
  <2>2. ASSUME NEW n \in Nat \ {0}, q = [buffers_ EXCEPT ![1] = SetStart(buffers_[1], n)]
        PROVE  <1>4!:
    <3> DEFINE e == SetStart(buffers_[1], n)
    <3>1. e.start = n /\ q = [buffers_ EXCEPT ![1] = e]
      BY <2>2 DEF SetStart
    <3> HIDE DEF e
    <3>2. /\ Len(q) = l
          /\ \A k \in 1..l : k # 1 => q[k] = buffers_[k]
          /\ q[1] = e
      BY <1>1, <3>1
    <3> HIDE DEF q, l
    <3> QED
      BY <1>3, <2>2, <3>1, <3>2
  <2> QED
    BY <2>1, <2>2
<1>5. 1 \in 1..l
  BY <1>1
<1> HIDE DEF q, l
<1>6. CASE buffers_[1].start = 0
  <2>1. \A x : x \in Unwritten <=> x \in Unwritten' \/ x = buffers_[1].idx
    BY <1>2, <1>4, <1>5, <1>6
  <2> QED
    BY <1>6, <2>1
<1>7. CASE buffers_[1].start # 0
  <2>1. \A x : x \in Unwritten <=> x \in Unwritten'
    BY <1>2, <1>4, <1>5, <1>7
  <2> QED
    BY <1>7, <2>1
<1> QED
  BY <1>6, <1>7

\* Every record in the queue is pending: if a part of it was written the
\* receiver has not come to its first byte.
LEMMA QueuedPending ==
  ASSUME RInv, ~Damaged
  PROVE  Queued \subseteq Unread \cup Unwritten
<1>1. /\ wire \in Seq(Byte) /\ Len(wire) \in Nat
      /\ consumed \in Nat /\ consumed <= Len(wire)
      /\ buffers_ \in Seq(Record) /\ Len(buffers_) \in Nat
      /\ \A k \in 1..Len(wire) : wire[k].len \in Nat /\ wire[k].off \in Nat
  BY ConnectionTypes DEF RInv
<1>2. Runs(wire) /\ Edge /\ Begun(wire) /\ AtEnd /\ QueueOrder /\ SameLength /\ TypeOK
  BY UndamagedSound DEF RInv, CInv, WInv, SInv, QInv, Damaged
<1>3. SUFFICES ASSUME NEW i \in 1..Len(buffers_), buffers_[i].start # 0
               PROVE  buffers_[i].idx \in Unread
  BY DEF Queued, Unwritten
<1> DEFINE b == buffers_[1]
           l == Len(wire)
           k == l - wire[l].off
<1>4. /\ i = 1 /\ 1 \in 1..Len(buffers_)
      /\ b.start \in Nat /\ b.start > 0 /\ b.start < b.len /\ b.len \in Nat
      /\ wire # <<>> /\ wire[l].idx = b.idx /\ wire[l].off = b.start - 1
  <2>1. i = 1 /\ buffers_ # <<>>
    BY <1>1, <1>2, <1>3, EmptySeq DEF QueueOrder
  <2>2. b \in Record /\ b.start < b.len
    BY <1>1, <1>2, <1>3, <2>1, ElementOfSeq DEF TypeOK
  <2>3. b.start \in Nat /\ b.start > 0 /\ b.len \in Nat
    BY <1>3, <2>1, <2>2, RecordFields
  <2> QED
    BY <1>1, <1>2, <1>3, <2>1, <2>2, <2>3 DEF Edge
<1>5. l \in 1..l /\ wire[l].len = b.len
  BY <1>1, <1>2, <1>4, EmptySeq DEF SameLength
<1>6. k \in 1..l /\ wire[k].idx = b.idx /\ wire[k].off = 0
  <2>1. wire[l].off < l /\ wire[l].off \in Nat
    BY <1>1, <1>2, <1>5 DEF Begun
  <2>2. wire[k].idx = b.idx /\ wire[k].off = 0
    BY <1>2, <1>4, <1>5 DEF Begun
  <2> QED
    BY <1>1, <2>1, <2>2
<1>7. wire[k].len = b.len
  BY <1>2, <1>4, <1>6 DEF SameLength
<1>8. k > consumed
  <2>1. SUFFICES ASSUME k <= consumed PROVE FALSE
    BY <1>1, <1>6
  <2>2. consumed \in 1..l /\ wire[consumed].off = wire[consumed].len - 1
    BY <1>1, <1>2, <1>6, <2>1 DEF AtEnd
  <2>3. consumed - k <= b.start - 1
    <3>1. wire[l].off = b.start - 1 /\ b.start - 1 \in Nat
      BY <1>4
    <3> QED
      BY <1>1, <3>1
  <2>4. consumed - k < wire[k].len - wire[k].off
    <3> HIDE DEF k, b, l
    <3>1. k \in Nat
      BY <1>6
    <3> QED
      BY <1>1, <1>4, <1>6, <1>7, <2>3, <3>1
  <2>5. wire[consumed].len = b.len /\ wire[consumed].off = 0 + (consumed - k)
    <3> HIDE DEF k
    <3> QED
      BY <1>2, <1>6, <1>7, <2>1, <2>2, <2>4 DEF Runs
  <2> HIDE DEF k, b, l
  <2>6. k \in Nat
    BY <1>6
  <2> QED
    BY <1>1, <1>4, <2>2, <2>3, <2>5, <2>6
<1> QED
  BY <1>4, <1>6, <1>8 DEF Unread

\* There are at least as many pending records as there are in the queue.
LEMMA BacklogPending ==
  ASSUME RInv, ~Damaged
  PROVE  Cardinality(Unread \cup Unwritten) \in Nat
         /\ Cardinality(Unread \cup Unwritten) >= Len(buffers_)
<1> DEFINE p == Unread \cup Unwritten
           l == Len(buffers_)
<1>1. /\ buffers_ \in Seq(Record) /\ l \in Nat
      /\ session_index_ \in Nat
      /\ \A k \in 1..Len(wire) : wire[k].idx \in 1..session_index_
  BY ConnectionTypes DEF RInv
<1>2. QueueOrder
  BY DEF RInv, CInv, WInv, SInv
<1>3. \A i \in 1..l : buffers_[i].idx \in 1..session_index_
  <2>1. \A i \in 1..l : buffers_[i].idx \in Nat \ {0}
    BY <1>1, ElementOfSeq, RecordFields
  <2> QED
    BY <1>1, <1>2, <2>1 DEF QueueOrder
<1>4. p \subseteq 1..session_index_
  BY <1>1, <1>3 DEF Unread, Unwritten
<1>5. IsFiniteSet(p) /\ Cardinality(p) \in Nat
  <2>1. IsFiniteSet(1..session_index_)
    BY <1>1, FS_Interval
  <2> HIDE DEF p
  <2>2. IsFiniteSet(p)
    BY <1>4, <2>1, FS_Subset
  <2> QED
    BY <2>2, FS_CardinalityType
<1> DEFINE f == [i \in 1..l |-> buffers_[i].idx]
<1>6. \A i \in 1..l : buffers_[i].idx \in p
  BY QueuedPending DEF Queued
<1>7. \A i, j \in 1..l : buffers_[i].idx = buffers_[j].idx => i = j
  <2>1. ASSUME NEW i \in 1..l, NEW j \in 1..l, i < j
        PROVE  buffers_[i].idx # buffers_[j].idx
    <3>1. buffers_[i].idx < buffers_[j].idx
      BY <1>2, <2>1 DEF QueueOrder
    <3> QED
      BY <1>3, <3>1
  <2>2. \A i, j \in 1..l : i < j \/ j < i \/ i = j
    BY <1>1
  <2> QED
    BY <2>1, <2>2
<1>8. f \in Injection(1..l, p)
  <2>1. f \in [1..l -> p]
    BY <1>6
  <2>2. \A i, j \in 1..l : f[i] = f[j] => i = j
    BY <1>7
  <2> HIDE DEF f, p, l
  <2> QED
    BY <2>1, <2>2 DEF Injection, IsInjective
<1> HIDE DEF f, p, l
<1>9. IsFiniteSet(1..l) /\ Cardinality(1..l) = l
  BY <1>1, FS_Interval
<1>10. Cardinality(1..l) <= Cardinality(p)
  BY <1>5, <1>8, FS_Injection
<1> QED
  BY <1>1, <1>5, <1>9, <1>10 DEF p, l

\* Types and shape of what the sender's half of the refinement looks at.
LEMMA SenderFacts ==
  ASSUME RInv
  PROVE  /\ wire \in Seq(Byte) /\ Len(wire) \in Nat
         /\ consumed \in Nat /\ consumed <= Len(wire)
         /\ buffers_ \in Seq(Record) /\ Len(buffers_) \in Nat
         /\ session_index_ \in Nat
         /\ pc = "cache" => /\ buffers_ # <<>>
                            /\ Head(buffers_) = buffers_[1]
                            /\ buffers_[1] \in Record
                            /\ buffers_[1].start < buffers_[1].len
         /\ pc = "direct" => buffers_ = <<>>
         /\ pc # "idle" => cur \in Record /\ cur.start = 0 /\ cur.idx = session_index_
         /\ pc \in {"idle", "cache", "direct"}
<1>1. QInv /\ TypeOK /\ PcInv
  BY DEF RInv, CInv, WInv, SInv, QInv
<1>2. /\ wire \in Seq(Byte) /\ Len(wire) \in Nat
      /\ consumed \in Nat /\ consumed <= Len(wire)
      /\ buffers_ \in Seq(Record) /\ Len(buffers_) \in Nat
      /\ session_index_ \in Nat
  BY ConnectionTypes DEF RInv
<1>3. buffers_ # <<>> => Head(buffers_) = buffers_[1] /\ 1 \in 1..Len(buffers_)
  BY <1>2, EmptySeq
<1> QED
  BY <1>1, <1>2, <1>3, ElementOfSeq DEF TypeOK, PcInv

\* LossyStream counts with the operator its own FiniteSets defines.
LEMMA SameCardinality ==
  ASSUME NEW S
  PROVE  Abstract!Cardinality(S) = Cardinality(S)
BY DEF Abstract!Cardinality, Cardinality, Abstract!IsFiniteSet, IsFiniteSet

\* Damage is there or not.
LEMMA SameDamage ==
  ASSUME ~Damaged, ~Damaged'
  PROVE  Damaged' = Damaged
BY DEF Damaged

\* The records counted as sent, while one is being sent and after it.
LEMMA SentCount ==
  ASSUME session_index_ \in Nat, pc # "idle", pc' = "idle",
         session_index_' = session_index_, ~Damaged, ~Damaged'
  PROVE  Sent' = Sent + 1 /\ Sent + 1 = session_index_
BY DEF Sent

\* Queueing the record being sent, or dropping it behind a backlog.
LEMMA AddToCacheRefines ==
  ASSUME RInv, ~Damaged, ~Damaged', pc # "idle", pc' = "idle", open,
         NEW b \in Record, AddToCache(b), b.idx = session_index_,
         session_index_' = session_index_, UNCHANGED rvars,
         \/ b.start = 0 /\ wire' = wire
         \/ /\ b.start > 0 /\ buffers_ = <<>>
            /\ Unread' = Unread \cup {session_index_}
  PROVE  Abstract!Next
<1>1. QInv /\ session_index_ \in Nat /\ buffers_ \in Seq(Record) /\ Len(buffers_) \in Nat
  BY SenderFacts DEF RInv, CInv, WInv, SInv
<1>2. Sent' = Sent + 1 /\ Sent + 1 = session_index_
  BY <1>1, SentCount
<1>3. Received' = Received /\ Damaged' = Damaged /\ ~Down
  BY SameDamage DEF Received, Ids, rvars, Down
<1>4. Pending = Unread \cup Unwritten /\ Pending' = Unread' \cup Unwritten'
  BY DEF Pending
<1>5. CASE buffers_ # <<>> /\ buffers_' = buffers_ /\ dropped' = dropped \cup {b.idx}
  <2>1. Pending' = Pending
    BY <1>4, <1>5 DEF Unread, Unwritten, rvars
  <2>2. open' = open /\ Len(buffers_) >= LowWater
    <3>1. Throttled
      <4>1. Append(buffers_, b) # buffers_
        BY <1>1, AppendProperties
      <4> QED
        BY <1>5, <4>1 DEF AddToCache
    <3> QED
      <4>1. open' = open
        BY <3>1 DEF AddToCache
      <4>2. HighWater \in Nat /\ LowWater \in Nat /\ LowWater <= HighWater + 1
        BY MarksAssumption
      <4>3. Len(buffers_) >= LowWater \/ Len(buffers_) > HighWater
        BY <3>1 DEF Throttled
      <4> QED
        BY <1>1, <4>1, <4>2, <4>3
  <2>3. Abstract!Cardinality(Pending) >= LowWater
    <3>1. Cardinality(Pending) \in Nat /\ Cardinality(Pending) >= Len(buffers_)
      BY <1>4, BacklogPending
    <3>2. Cardinality(Pending) >= LowWater
      BY <1>1, <2>2, <3>1, MarksAssumption
    <3> QED
      BY <3>2, SameCardinality
  <2>4. Down' = Down
    BY <2>2 DEF Down
  <2> QED
    BY <1>2, <1>3, <2>1, <2>3, <2>4 DEF Abstract!Next, Abstract!Discard
<1>6. CASE buffers_' = Append(buffers_, b) /\ dropped' = dropped
  <2>1. Unwritten' = IF b.start = 0 THEN Unwritten \cup {b.idx} ELSE Unwritten
    BY <1>1, <1>6, UnwrittenAppend
  <2>2. Pending' = Pending \cup {Sent + 1}
    <3>1. CASE b.start = 0 /\ wire' = wire
      <4>1. Unread' = Unread
        BY <3>1 DEF Unread, rvars
      <4> QED
        BY <1>2, <1>4, <2>1, <3>1, <4>1
    <3>2. CASE b.start > 0 /\ Unread' = Unread \cup {session_index_}
      <4>1. b.start # 0
        BY <3>2, RecordFields
      <4> QED
        BY <1>2, <1>4, <2>1, <3>2, <4>1
    <3> QED
      BY <3>1, <3>2
  <2>3. open' = open
    <3>1. Append(buffers_, b) # buffers_
      BY <1>1, AppendProperties
    <3>2. ~Throttled
      BY <1>6, <3>1 DEF AddToCache
    <3>3. Len(buffers_) < QMax
      BY <1>1, MarksAssumption DEF QInv, QueueBounded
    <3> QED
      BY <3>2, <3>3 DEF AddToCache
  <2>4. Down' = Down
    BY <2>3 DEF Down
  <2> QED
    BY <1>2, <1>3, <2>2, <2>4 DEF Abstract!Next, Abstract!Send
<1> QED
  BY <1>1, <1>5, <1>6, AddToCacheCases

\* Every step of the sender that does not damage the stream is one the abstract
\* sender may do.
LEMMA SenderRefines ==
  ASSUME RInv, ~Damaged, ~Damaged', SenderStep
  PROVE  [Abstract!Next]_Abstract!vars
<1>1. /\ wire \in Seq(Byte) /\ Len(wire) \in Nat
      /\ consumed \in Nat /\ consumed <= Len(wire)
      /\ buffers_ \in Seq(Record) /\ Len(buffers_) \in Nat
      /\ session_index_ \in Nat
      /\ pc = "cache" => /\ buffers_ # <<>>
                         /\ Head(buffers_) = buffers_[1]
                         /\ buffers_[1] \in Record
                         /\ buffers_[1].start < buffers_[1].len
      /\ pc = "direct" => buffers_ = <<>>
      /\ pc # "idle" => cur \in Record /\ cur.start = 0 /\ cur.idx = session_index_
  BY SenderFacts
<1>2. UNCHANGED rvars /\ consumed' = consumed /\ declared' = declared
  BY DEF SenderStep, rvars
<1>3. /\ Received' = Received /\ Damaged' = Damaged
      /\ Pending = Unread \cup Unwritten /\ Pending' = Unread' \cup Unwritten'
  BY <1>2, SameDamage DEF Received, Ids, Pending, rvars
<1>4. ~recut /\ ~recut'
  BY DEF Damaged
<1> DEFINE b == buffers_[1]
<1>5. ASSUME pc = "cache", pc' # "idle", UNCHANGED <<session_index_, open>>,
             Pending' = Pending
      PROVE  UNCHANGED Abstract!vars
  BY <1>3, <1>5 DEF Abstract!vars, Sent, Down
<1>6. CASE CacheFull
  <2>1. /\ pc = "cache" /\ pc' # "idle" /\ UNCHANGED <<session_index_, open>>
        /\ wire' = Written(b, Remaining(b)) /\ buffers_' = Tail(buffers_)
    BY <1>1, <1>6 DEF CacheFull
  <2>2. b \in Record /\ Remaining(b) \in Nat \ {0} /\ b.start + Remaining(b) <= b.len
    BY <1>1, <2>1, RecordFields DEF Remaining
  <2>3. Unread' = IF b.start = 0 THEN Unread \cup {b.idx} ELSE Unread
    BY <1>1, <1>2, <2>1, <2>2, UnreadWritten
  <2>4. Unwritten = IF b.start = 0 THEN Unwritten' \cup {b.idx} ELSE Unwritten'
    BY <1>1, <2>1, UnwrittenFront
  <2>5. Pending' = Pending
    BY <1>3, <2>3, <2>4
  <2> QED
    BY <1>5, <2>1, <2>5
<1>7. CASE CachePartial
  <2>1. PICK n \in 1..(Remaining(b) - 1) :
          wire' = Written(b, n) /\ buffers_' = [buffers_ EXCEPT ![1] = SetStart(b, n)]
    BY <1>1, <1>7 DEF CachePartial
  <2>2. pc = "cache" /\ pc' # "idle" /\ UNCHANGED <<session_index_, open>>
    BY <1>7 DEF CachePartial
  <2>3. n \in Nat \ {0} /\ b.start + n <= b.len /\ b \in Record
    BY <1>1, <2>1, <2>2, RecordFields DEF Remaining
  <2>4. Unread' = IF b.start = 0 THEN Unread \cup {b.idx} ELSE Unread
    BY <1>1, <1>2, <2>1, <2>3, UnreadWritten
  <2>5. Unwritten = IF b.start = 0 THEN Unwritten' \cup {b.idx} ELSE Unwritten'
    BY <1>1, <2>1, <2>2, <2>3, UnwrittenFront
  <2>6. Pending' = Pending
    BY <1>3, <2>4, <2>5
  <2> QED
    BY <1>5, <2>2, <2>6
<1>8. CASE CacheWouldBlock \/ DirectWouldBlock
  <2>1. /\ pc # "idle" /\ pc' = "idle" /\ open /\ AddToCache(cur)
        /\ UNCHANGED <<session_index_, wire>>
    BY <1>8 DEF CacheWouldBlock, DirectWouldBlock
  <2> QED
    BY <1>1, <1>2, <2>1, AddToCacheRefines
<1>9. CASE DirectFull
  <2>1. /\ pc = "direct" /\ pc' = "idle" /\ open /\ wire' = Written(cur, cur.len)
        /\ UNCHANGED <<buffers_, session_index_, open>>
    BY <1>9 DEF DirectFull
  <2>2. cur \in Record /\ cur.len \in Nat \ {0} /\ cur.start + cur.len <= cur.len /\ cur.start = 0
    BY <1>1, <2>1, RecordFields
  <2>3. Unread' = Unread \cup {session_index_}
    BY <1>1, <1>2, <2>1, <2>2, UnreadWritten
  <2>4. Unwritten' = Unwritten
    BY <2>1 DEF Unwritten
  <2>5. Sent' = Sent + 1 /\ Sent + 1 = session_index_
    BY <1>1, <2>1, SentCount
  <2>6. Pending' = Pending \cup {Sent + 1} /\ ~Down /\ Down' = Down
    BY <1>3, <2>1, <2>3, <2>4, <2>5 DEF Down
  <2> QED
    BY <1>3, <2>5, <2>6 DEF Abstract!Next, Abstract!Send
<1>10. CASE DirectPartial
  <2>1. PICK n \in 1..(cur.len - 1) :
          wire' = Written(cur, n) /\ AddToCache(SetStart(cur, n))
    BY <1>10 DEF DirectPartial
  <2>2. /\ pc = "direct" /\ open /\ pc' = "idle" /\ UNCHANGED session_index_
        /\ buffers_ = <<>>
    BY <1>1, <1>10 DEF DirectPartial
  <2>3. cur \in Record /\ n \in Nat \ {0} /\ cur.start + n <= cur.len /\ cur.start = 0
    BY <1>1, <2>1, <2>2, RecordFields
  <2>4. Unread' = Unread \cup {session_index_}
    BY <1>1, <1>2, <2>1, <2>2, <2>3, UnreadWritten
  <2> DEFINE e == SetStart(cur, n)
  <2>5. e \in Record /\ e.idx = session_index_ /\ e.start > 0 /\ AddToCache(e)
    BY <1>1, <2>1, <2>2, <2>3 DEF Record, SetStart
  <2> HIDE DEF e
  <2> QED
    BY <1>2, <2>2, <2>4, <2>5, AddToCacheRefines
<1>11. CASE SendError
  <2>1. /\ pc # "idle" /\ pc' = "idle" /\ open' = FALSE
        /\ UNCHANGED <<buffers_, session_index_, wire>>
    BY <1>11 DEF SendError
  <2>2. Sent' = Sent + 1 /\ Down' = TRUE
    BY <1>1, <2>1, SentCount DEF Down
  <2>3. Pending' = Pending
    BY <1>2, <1>3, <2>1 DEF Unread, Unwritten
  <2> QED
    BY <1>3, <2>2, <2>3 DEF Abstract!Next, Abstract!Fail
<1>12. CASE CloseConnection
  <2>1. open' = FALSE /\ UNCHANGED <<buffers_, session_index_, pc, wire>>
    BY <1>12 DEF CloseConnection
  <2>2. Sent' = Sent /\ Down' = TRUE /\ Pending' = Pending
    BY <1>2, <1>3, <2>1 DEF Sent, Down, Unread, Unwritten
  <2> QED
    BY <1>3, <2>2 DEF Abstract!Next, Abstract!Close
<1> QED
  BY <1>6, <1>7, <1>8, <1>9, <1>10, <1>11, <1>12 DEF SenderStep

\* The record the receiver stands at is the oldest one pending.
LEMMA ReadOldest ==
  ASSUME RInv, ~Damaged, reader_open, Available > HdrLen,
         NEW i, i = wire[consumed + 1].idx
  PROVE  i \in Unread \cup Unwritten /\ \A j \in Unread \cup Unwritten : i <= j
<1>1. /\ consumed \in Nat /\ Len(wire) \in Nat
      /\ consumed + 1 \in 1..Len(wire)
      /\ wire[consumed + 1].off = 0
      /\ \A k \in 1..Len(wire) : wire[k].idx \in Nat
      /\ \A k \in 1..Len(buffers_) : buffers_[k].idx \in Nat
  <2>1. consumed + 1 \in 1..Len(wire) /\ wire[consumed + 1].off = 0
    BY RecordBegins, UndamagedSound DEF RInv
  <2>2. consumed \in Nat /\ Len(wire) \in Nat /\ wire \in Seq(Byte) /\ buffers_ \in Seq(Record)
    BY SenderFacts
  <2> QED
    BY <2>1, <2>2, ByteFields, ElementOfSeq, RecordFields
<1>2. InOrder(wire) /\ WireOrder
  BY DEF RInv, CInv, WInv, SInv, WireOrder
<1>3. i \in Unread
  BY <1>1 DEF Unread
<1>4. ASSUME NEW k \in 1..Len(wire), k > consumed
      PROVE  i <= wire[k].idx
  <2>1. k = consumed + 1 \/ consumed + 1 < k
    BY <1>1, <1>4
  <2> QED
    BY <1>1, <1>2, <1>4, <2>1 DEF InOrder
<1>5. ASSUME NEW k \in 1..Len(buffers_), buffers_[k].start = 0
      PROVE  i <= buffers_[k].idx
  <2>1. \/ i < buffers_[k].idx
        \/ k = 1 /\ buffers_[1].start > 0
    BY <1>1, <1>2 DEF WireOrder
  <2> QED
    BY <1>1, <1>5, <2>1
<1> QED
  BY <1>3, <1>4, <1>5 DEF Unread, Unwritten

\* Reading a record takes it, and no other, off what is pending.
LEMMA ReadTakes ==
  ASSUME RInv, ~Damaged, reader_open, Available > HdrLen,
         NEW i, i = wire[consumed + 1].idx, NEW d, d = declared[i], Available >= d,
         consumed' = consumed + d, wire' = wire, buffers_' = buffers_
  PROVE  Unread' \cup Unwritten' = (Unread \cup Unwritten) \ {i}
<1>1. /\ consumed \in Nat /\ Len(wire) \in Nat /\ delivered \in Nat
      /\ consumed <= delivered /\ delivered <= Len(wire)
      /\ \A k \in 1..Len(wire) : /\ wire[k].idx \in Nat /\ wire[k].len \in Nat
                                 /\ wire[k].off \in Nat /\ wire[k].off < wire[k].len
      /\ \A k \in 1..Len(wire) : declared[wire[k].idx] \in Nat /\ declared[wire[k].idx] > HdrLen
      /\ HdrLen \in Nat
  <2>1. wire \in Seq(Byte)
    BY SenderFacts
  <2>2. \A k \in 1..Len(wire) : wire[k].idx \in Nat
    BY <2>1, ByteFields
  <2> QED
    BY <2>2, ConnectionTypes DEF RInv
<1>2. /\ consumed + 1 \in 1..Len(wire)
      /\ wire[consumed + 1].off = 0
      /\ RecordAt(d)
      /\ wire[consumed + d].idx = i
      /\ wire[consumed + d].off = wire[consumed + d].len - 1
  <2>1. consumed + 1 \in 1..Len(wire) /\ wire[consumed + 1].off = 0
    BY RecordBegins, UndamagedSound DEF RInv
  <2>2. d <= Capacity
    BY <2>1, UndamagedSound DEF RInv
  <2> QED
    BY <2>1, <2>2, RecordBegins, UndamagedSound DEF RInv
<1>3. d \in Nat /\ d > 0 /\ consumed + d \in 1..Len(wire)
  BY <1>1, <1>2 DEF Available
<1>4. InOrder(wire) /\ WireOrder /\ Intact(wire)
  BY UndamagedSound DEF RInv, CInv, WInv, SInv, WireOrder
<1>5. \A k \in 1..Len(wire) :
        k > consumed /\ wire[k].off = 0 => k = consumed + 1 \/ k > consumed + d
  <2>1. SUFFICES ASSUME NEW k \in 1..Len(wire), k > consumed, wire[k].off = 0,
                        ~(k > consumed + d)
                 PROVE  k = consumed + 1
    OBVIOUS
  <2>2. k - consumed \in 1..d /\ consumed + (k - consumed) = k
    BY <1>1, <1>3, <2>1
  <2>3. wire[k].off = (k - consumed) - 1
    BY <1>2, <2>2 DEF RecordAt
  <2> QED
    BY <1>1, <2>1, <2>3
<1>6. \A k \in 1..Len(wire) : k > consumed + d => i < wire[k].idx
  <2>1. SUFFICES ASSUME NEW k \in 1..Len(wire), k > consumed + d
                 PROVE  i < wire[k].idx
    OBVIOUS
  <2> DEFINE m == consumed + d
             x == wire[m]
             y == wire[m + 1]
  <2>0. m \in Nat /\ m > 0 /\ m < k /\ k <= Len(wire) /\ k \in Nat
    BY <1>1, <1>3, <2>1
  <2> HIDE DEF m
  <2>2. m \in 1..(Len(wire) - 1) /\ m \in 1..Len(wire) /\ m + 1 \in 1..Len(wire)
        /\ (k = m + 1 \/ m + 1 < k)
    BY <1>1, <2>0
  <2>3. Follows(x, y)
    BY <1>4, <2>2 DEF Intact
  <2>4. /\ x.idx = i /\ x.off = x.len - 1
        /\ y.idx \in Nat /\ y.len \in Nat /\ y.off \in Nat /\ y.off < y.len
        /\ x.len \in Nat /\ x.off \in Nat /\ i \in Nat
    BY <1>1, <1>2, <2>2 DEF m
  <2>5. y.idx = x.idx => y.len = x.len
    <3>1. \A j \in 1..Len(wire) : wire[j].len = declared[wire[j].idx]
      BY UndamagedSound DEF RInv, CInv, Fit, Archived
    <3> QED
      BY <2>2, <3>1
  <2>6. i < y.idx
    <3> HIDE DEF x, y
    <3> QED
      BY <2>3, <2>4, <2>5 DEF Follows
  <2>7. y.idx <= wire[k].idx
    <3>1. k = m + 1 => y.idx = wire[k].idx
      OBVIOUS
    <3>2. m + 1 < k => y.idx <= wire[k].idx
      BY <1>4, <2>2 DEF InOrder
    <3> QED
      BY <2>2, <2>4, <3>1, <3>2
  <2>8. wire[k].idx \in Nat
    BY <1>1
  <2> HIDE DEF x, y
  <2> QED
    BY <2>4, <2>6, <2>7, <2>8
<1>7. \A j \in 1..Len(buffers_) : buffers_[j].start = 0 => buffers_[j].idx # i
  <2>1. \A j \in 1..Len(buffers_) :
          i < buffers_[j].idx \/ (j = 1 /\ buffers_[1].start > 0)
    BY <1>2, <1>4 DEF WireOrder
  <2>2. \A j \in 1..Len(buffers_) : buffers_[j].idx \in Nat
    BY SenderFacts, ElementOfSeq, RecordFields
  <2>3. i \in Nat
    BY <1>1, <1>2
  <2> QED
    BY <2>1, <2>2, <2>3
<1>8. Unwritten' = Unwritten /\ i \notin Unwritten
  BY <1>7 DEF Unwritten
<1>9. ASSUME NEW z
      PROVE  z \in Unread' <=> z \in Unread /\ z # i
  <2>1. z \in Unread' <=> \E k \in 1..Len(wire) : k > consumed + d /\ wire[k].off = 0 /\ wire[k].idx = z
    BY DEF Unread
  <2>2. z \in Unread <=> \E k \in 1..Len(wire) : k > consumed /\ wire[k].off = 0 /\ wire[k].idx = z
    BY DEF Unread
  <2>3. z \in Unread' => z \in Unread /\ z # i
    <3>1. SUFFICES ASSUME NEW k \in 1..Len(wire), k > consumed + d, wire[k].off = 0, wire[k].idx = z
                   PROVE  z \in Unread /\ z # i
      BY <2>1
    <3>2. k > consumed
      BY <1>1, <1>3, <3>1
    <3>3. i < z /\ i \in Nat /\ z \in Nat
      BY <1>1, <1>2, <1>6, <3>1
    <3> QED
      BY <2>2, <3>1, <3>2, <3>3
  <2>4. z \in Unread /\ z # i => z \in Unread'
    BY <1>5, <2>1, <2>2
  <2> QED
    BY <2>3, <2>4
<1> QED
  BY <1>8, <1>9

\* Sending a message up to the call of send_buffer changes nothing the abstract
\* stream shows, unless the message does not fit.
LEMMA SendStutters ==
  ASSUME RInv, ~Damaged, ~Damaged', NEW d \in Declared, CSendMessage(d)
  PROVE  UNCHANGED Abstract!vars
<1>1. /\ session_index_ \in Nat /\ pc = "idle" /\ pc' # "idle"
      /\ session_index_' = session_index_ + 1
      /\ UNCHANGED <<buffers_, open, wire>>
      /\ UNCHANGED rvars
  BY SenderFacts DEF CSendMessage, SendMessage
<1>2. Sent' = Sent
  BY <1>1 DEF Sent
<1>3. Pending' = Pending /\ Received' = Received
  BY <1>1 DEF Pending, Unread, Unwritten, Received, Ids, rvars
<1>4. Down' = Down /\ Damaged' = Damaged
  BY <1>1, SameDamage DEF Down
<1> QED
  BY <1>2, <1>3, <1>4 DEF Abstract!vars

\* The indices of the records of a log.
LEMMA IdsProperties ==
  ASSUME NEW s \in Seq([idx : 1..MaxMsgs, gap : BOOLEAN])
  PROVE  /\ Ids(s) \in Seq(1..MaxMsgs)
         /\ Len(Ids(s)) = Len(s)
         /\ \A k \in 1..Len(s) : Ids(s)[k] = s[k].idx
<1> DEFINE t == [k \in 1..Len(s) |-> s[k].idx]
<1>1. Len(s) \in Nat /\ \A k \in 1..Len(s) : s[k].idx \in 1..MaxMsgs
  <2>1. \A k \in 1..Len(s) : s[k] \in [idx : 1..MaxMsgs, gap : BOOLEAN]
    BY ElementOfSeq
  <2>2. Len(s) \in Nat
    BY LenProperties
  <2> QED
    BY <2>1, <2>2
<1>2. t \in [1..Len(s) -> 1..MaxMsgs]
  BY <1>1
<1> HIDE DEF t
<1>3. t \in Seq(1..MaxMsgs)
  <2>1. t \in UNION {[1..n -> 1..MaxMsgs] : n \in Nat}
    BY <1>1, <1>2
  <2>2. Seq(1..MaxMsgs) = UNION {[1..n -> 1..MaxMsgs] : n \in Nat}
    BY SeqDef
  <2> QED
    BY <2>1, <2>2
<1>4. Len(t) = Len(s)
  <2>1. DOMAIN t = 1..Len(s) /\ DOMAIN t = 1..Len(t) /\ Len(t) \in Nat
    BY <1>2, <1>3, LenProperties
  <2> QED
    BY <1>1, <2>1
<1> QED
  BY <1>3, <1>4 DEF t, Ids

\* Reading a record is receiving the oldest one pending.
LEMMA ReadRefines ==
  ASSUME RInv, ~Damaged, ~Damaged', ReadRecord
  PROVE  Abstract!Next
<1> DEFINE i == wire[consumed + 1].idx
           d == declared[i]
           e == [idx |-> i, gap |-> GapLogged(i % IndexMod)]
<1>1. /\ reader_open /\ Available > HdrLen /\ Available >= d
      /\ UNCHANGED <<vars, declared, delivered>>
  BY DEF ReadRecord
<1>2. consumed + 1 \in 1..Len(wire)
  BY <1>1, UndamagedSound, RecordBegins DEF RInv
<1>3. d <= Capacity /\ d \in Nat /\ d > HdrLen /\ HdrLen \in Nat /\ Capacity \in Nat
  BY <1>2, UndamagedSound, ConnectionTypes DEF RInv
<1>4. consumed' = consumed + d /\ log' = Append(log, e)
  <2>1. ~(d - HdrLen > Capacity)
    <3> HIDE DEF d
    <3> QED
      BY <1>3
  <2> QED
    BY <2>1 DEF ReadRecord
<1>5. Pending = Unread \cup Unwritten /\ Pending' = Unread' \cup Unwritten'
  BY DEF Pending
<1>6. i \in Pending /\ \A j \in Pending : i <= j
  BY <1>1, <1>5, ReadOldest
<1>7. Pending' = Pending \ {i}
  <2>1. wire' = wire /\ buffers_' = buffers_
    BY <1>1 DEF vars
  <2> HIDE DEF d
  <2>2. d = declared[i]
    BY DEF d
  <2> HIDE DEF i
  <2>3. i = wire[consumed + 1].idx
    BY DEF i
  <2> QED
    BY <1>1, <1>4, <1>5, <2>1, <2>2, <2>3, ReadTakes
<1>8. Received' = Append(Received, i)
  <2>1. log \in Seq([idx : 1..MaxMsgs, gap : BOOLEAN]) /\ Len(log) \in Nat
    BY ConnectionTypes DEF RInv
  <2>2. i \in 1..MaxMsgs
    BY <1>2, ConnectionTypes DEF RInv
  <2> HIDE DEF i
  <2>3. e \in [idx : 1..MaxMsgs, gap : BOOLEAN] /\ e.idx = i
    BY <2>2 DEF GapLogged
  <2> HIDE DEF e
  <2>4. /\ Len(log') = Len(log) + 1
        /\ \A k \in 1..Len(log) : log'[k] = log[k]
        /\ log'[Len(log) + 1] = e
    BY <1>4, <2>1, <2>3, AppendProperties
  <2>5. Received = Ids(log) /\ Received' = Ids(log')
    BY DEF Received, Ids
  <2>6. /\ Received \in Seq(1..MaxMsgs) /\ Len(Received) = Len(log)
        /\ \A k \in 1..Len(log) : Received[k] = log[k].idx
    BY <2>1, <2>5, IdsProperties
  <2>7. log' \in Seq([idx : 1..MaxMsgs, gap : BOOLEAN])
    BY <1>4, <2>1, <2>3, AppendProperties
  <2>8. /\ Received' \in Seq(1..MaxMsgs) /\ Len(Received') = Len(log) + 1
        /\ \A k \in 1..(Len(log) + 1) : Received'[k] = log'[k].idx
    BY <2>4, <2>5, <2>7, IdsProperties
  <2> DEFINE a == Append(Received, i)
  <2>9. /\ a \in Seq(1..MaxMsgs)
        /\ Len(a) = Len(log) + 1
        /\ \A k \in 1..Len(log) : a[k] = Received[k]
        /\ a[Len(log) + 1] = i
    BY <2>2, <2>6, AppendProperties
  <2> HIDE DEF a
  <2>10. \A k \in 1..(Len(log) + 1) : k \in 1..Len(log) \/ k = Len(log) + 1
    BY <2>1
  <2>11. \A k \in 1..(Len(log) + 1) : Received'[k] = a[k]
    BY <2>3, <2>4, <2>6, <2>8, <2>9, <2>10
  <2>12. Received' = a
    BY <2>8, <2>9, <2>11, SeqEqual
  <2> QED
    BY <2>12 DEF a
<1>9. Sent' = Sent /\ Down' = Down /\ Damaged' = Damaged
  BY <1>1, SameDamage DEF Sent, Down, vars
<1> QED
  BY <1>6, <1>7, <1>8, <1>9 DEF Abstract!Next, Abstract!Receive

\* Every step of the connection is a step of LossyStream or changes nothing it
\* shows.
LEMMA StepRefines ==
  ASSUME RInv, [CNext]_cvars
  PROVE  [Abstract!Next]_Abstract!vars
<1>1. CASE Damaged
  <2>1. Damaged'
    BY <1>1, DamageStays DEF RInv
  <2>2. Damaged' = Damaged
    BY <1>1, <2>1 DEF Damaged
  <2> QED
    BY <1>1, <2>1, <2>2 DEF Abstract!vars, Sent, Pending, Received, Down
<1>2. CASE ~Damaged /\ Damaged'
  <2>1. Damaged' = TRUE
    BY <1>2 DEF Damaged
  <2> QED
    BY <1>2, <2>1 DEF Abstract!Next, Abstract!Corrupt, Sent, Pending, Received, Down
<1>3. CASE ~Damaged /\ ~Damaged'
  <2>1. CASE Deliver \/ ReaderDown \/ CExhausted \/ UNCHANGED cvars
    <3>1. UNCHANGED <<session_index_, open, pc, buffers_, wire, consumed, log>>
      BY <2>1 DEF Deliver, ReaderDown, CExhausted, Exhausted, cvars, rvars, vars
    <3>2. Pending' = Pending /\ Received' = Received /\ Sent' = Sent
      BY <1>3, <3>1 DEF Pending, Unread, Unwritten, Received, Ids, Sent
    <3>3. Down' = Down /\ Damaged' = Damaged
      BY <1>3, <3>1, SameDamage DEF Down
    <3> QED
      BY <3>2, <3>3 DEF Abstract!vars
  <2>2. CASE ReadGarbage
    <3>1. reader_open /\ Available > HdrLen /\ ~RecordAt(HdrLen)
      BY <2>2 DEF ReadGarbage
    <3> QED
      BY <1>3, <3>1, UndamagedSound, RecordBegins DEF RInv
  <2> QED
    BY <1>3, <2>1, <2>2, SendStutters, SenderRefines, ReadRefines DEF CNext
<1> QED
  BY <1>1, <1>2, <1>3

\* A new connection is a new stream.
LEMMA InitRefines ==
  ASSUME CInit
  PROVE  Abstract!Init
<1>1. /\ buffers_ = <<>> /\ session_index_ = 0 /\ open = TRUE /\ pc = "idle" /\ wire = <<>>
      /\ recut = FALSE /\ declared = <<>> /\ log = <<>>
  BY DEF CInit, Init
<1>2. Len(buffers_) = 0 /\ Len(wire) = 0 /\ Len(declared) = 0 /\ Len(log) = 0
  BY <1>1, EmptySeq
<1>3. Damaged = FALSE
  BY <1>1, <1>2 DEF Damaged, Oversized
<1>4. Unread = {} /\ Unwritten = {}
  BY <1>2 DEF Unread, Unwritten
<1>5. Ids(log) = <<>>
  BY <1>2 DEF Ids
<1> QED
  BY <1>1, <1>3, <1>4, <1>5 DEF Abstract!Init, Sent, Pending, Received, Down

\* For any lengths, marks, capacity and width of the index, sender, kernel and
\* receiver together implement LossyStream: records are read in the order they
\* were sent, each at most once, and one is dropped only behind a backlog of
\* low_water_mark_ unread ones, until a record is damaged.
THEOREM ConnectionImplements == CSpec => ImplementsLossyStream
<1>1. CInit => RInv
  BY RInvInit
<1>2. RInv /\ [CNext]_cvars => RInv'
  BY RInvStep
<1>3. CInit => Abstract!Init
  BY InitRefines
<1>4. RInv /\ [CNext]_cvars => [Abstract!Next]_Abstract!vars
  BY StepRefines
<1> QED
  BY <1>1, <1>2, <1>3, <1>4, PTL DEF CSpec, ImplementsLossyStream, Abstract!Spec
=============================================================================
