------------------------- MODULE TcpPublisherProofs -------------------------
(***************************************************************************)
(* Theorems about TcpPublisher, for any set of connections and symbols and *)
(* any configuration of what is spun: the safety of the two threads around *)
(* mtx_conn_ and cv_conn_.                                                 *)
(***************************************************************************)
EXTENDS TcpPublisher, FiniteSetTheorems, TLAPS

\* What the lock protects: there is a list of connections, and one of them is being
\* checked, only inside publish(), and the publisher prepares to block only while
\* there is no connection.
Locked ==
  /\ IsFiniteSet(accepted)
  /\ conn_list # {} => pc \in {"send", "check heartbeat", "killed"}
  /\ checking # NoConn => pc \in {"check heartbeat", "killed"}
  /\ pc = "blocking" => connections_ = {}

\* What a check finds of a punctual subscriber, whenever its heartbeats come.
Timely ==
  /\ \A c \in punctual : ~stale[c]
  /\ checking \in punctual => hb_delta = "small"

PInv == TypeOK /\ NoDanglingConnection /\ NoLostWakeup /\ Locked /\ Timely

\* The count, which is tested without the lock, is positive exactly if there is
\* a connection.
LEMMA CountPositive ==
  ASSUME TypeOK, Locked
  PROVE  /\ connections_count_ \in Nat
         /\ connections_count_ = 0 <=> connections_ = {}
<1>1. IsFiniteSet(connections_)
  BY FS_Subset DEF TypeOK, Locked
<1> QED
  BY <1>1, FS_CardinalityType, FS_EmptySet DEF TypeOK

\* Who holds the lock is read off the publisher's program counter.
LEMMA LockFree ==
  ASSUME TypeOK, ~mtx_conn_, pc # "killed"
  PROVE  pc \in {"check", "check again", "lock", "blocked", "publish"}
  BY DEF TypeOK

LEMMA SpunLength == Len(Spun) \in Nat \ {0}
  BY PublisherAssumption

\* The tick count goes round below CheckEvery.
LEMMA TickBound ==
  ASSUME TypeOK, NEW c \in Conns
  PROVE  (tick[c] + 1) % CheckEvery \in 0..(CheckEvery - 1)
<1>1. CheckEvery \in Nat /\ CheckEvery > 0
  BY PublisherAssumption
<1>2. tick[c] \in 0..(CheckEvery - 1)
  BY DEF TypeOK
<1>3. \A n \in Nat, m \in Nat : m > 0 => n % m \in 0..(m - 1)
  OBVIOUS
<1>4. tick[c] + 1 \in Nat
  BY <1>1, <1>2
<1> QED
  BY <1>1, <1>3, <1>4

LEMMA InitPInv == Init => PInv
<1> SUFFICES ASSUME Init PROVE PInv
  OBVIOUS
<1>1. CheckEvery \in Nat \ {0} /\ 1 \in 1..Len(Spun)
  BY PublisherAssumption, SpunLength
<1>2. IsFiniteSet({}) /\ Cardinality({}) = 0
  BY FS_EmptySet
<1>3. /\ valid \in [Conns -> BOOLEAN] /\ stale \in [Conns -> BOOLEAN]
      /\ subscribed_ \in [Conns -> SUBSET Symbols]
      /\ tick \in [Conns -> 0..(CheckEvery - 1)]
  BY <1>1 DEF Init
<1>4. (mtx_conn_ <=> pc \in {"predicate", "blocking", "send", "check heartbeat"}) /\ mtx_conn_ \in BOOLEAN
  BY DEF Init
<1>5. TypeOK
  BY <1>1, <1>2, <1>3, <1>4 DEF Init, TypeOK
<1> QED
  BY <1>2, <1>5 DEF Init, PInv, NoDanglingConnection, NoLostWakeup, Locked, Timely

\* Steps of the event thread that leave the map alone.
LEMMA EventQuiet ==
  ASSUME PInv, NEW c \in Conns,
         \/ OnLogin(c) \/ OnHeartbeat(c) \/ OnReadError(c) \/ HeartbeatLapses(c)
         \/ OnEvent(c) \/ \E s \in Symbols : OnSubscribe(c, {s})
  PROVE  PInv'
<1> USE DEF PInv, TypeOK, NoDanglingConnection, NoLostWakeup, Locked, Timely, evars, hvars, pvars, EventIdle
<1>1. CASE OnLogin(c)
  BY <1>1 DEF OnLogin, CrossCheck, Overtaken
<1>2. CASE OnHeartbeat(c)
  BY <1>2 DEF OnHeartbeat, CrossCheck, Overtaken
<1>3. CASE OnReadError(c)
  BY <1>3 DEF OnReadError
<1>4. CASE HeartbeatLapses(c)
  BY <1>4 DEF HeartbeatLapses
<1>5. CASE OnEvent(c)
  BY <1>5 DEF OnEvent
<1>6. CASE \E s \in Symbols : OnSubscribe(c, {s})
  <2>1. PICK s \in Symbols : OnSubscribe(c, {s})
    BY <1>6
  <2>2. subscribed_' \in [Conns -> SUBSET Symbols]
    BY <2>1 DEF OnSubscribe
  <2> QED
    BY <2>1, <2>2 DEF OnSubscribe
<1> QED
  BY <1>1, <1>2, <1>3, <1>4, <1>5, <1>6

\* The process is killed inside a send.
LEMMA KilledQuiet ==
  ASSUME PInv, NEW c \in Conns, LoginReplyKills(c) \/ SendKills(c)
  PROVE  PInv'
  BY DEF PInv, TypeOK, NoDanglingConnection, NoLostWakeup, Locked, Timely, evars, hvars, EventIdle,
         LoginReplyKills, SendKills

\* A connection comes: it takes the lock to enter the map, and notifies.
LEMMA CreateSafe ==
  ASSUME PInv, NEW c \in Conns, CreateConnection(c)
  PROVE  PInv'
<1> USE DEF PInv, CreateConnection
<1>1. IsFiniteSet(accepted')
  BY FS_AddElement DEF Locked
<1>2. pc \in {"check", "check again", "lock", "blocked", "publish"} /\ pc' = pc
  BY LockFree DEF EventIdle, pvars
<1>3. TypeOK'
  BY <1>2 DEF TypeOK, pvars, hvars
<1>4. NoDanglingConnection'
  BY DEF NoDanglingConnection, pvars, hvars
<1>5. NoLostWakeup'
  BY <1>2 DEF NoLostWakeup, TypeOK
<1>6. Locked'
  BY <1>1, <1>2 DEF Locked, pvars, hvars
<1>7. Timely'
  BY DEF Timely, hvars
<1> QED
  BY <1>3, <1>4, <1>5, <1>6, <1>7

\* A connection goes: with the lock, so that no list is in use.
LEMMA DisposeSafe ==
  ASSUME PInv, DisposeConnection
  PROVE  PInv'
<1> USE DEF PInv, DisposeConnection
<1>1. pc \in {"check", "check again", "lock", "blocked", "publish"} /\ pc' = pc
  BY LockFree DEF Disposing, pvars
<1>2. conn_list = {} /\ conn_list' = {} /\ checking' = NoConn
  BY <1>1 DEF Locked, pvars, hvars
<1>3. TypeOK'
  BY DEF TypeOK, pvars, hvars
<1>4. NoDanglingConnection'
  BY <1>2 DEF NoDanglingConnection
<1>5. NoLostWakeup'
  BY <1>1 DEF NoLostWakeup
<1>6. Locked'
  BY <1>1, <1>2 DEF Locked
<1>7. Timely'
  BY DEF Timely, hvars
<1> QED
  BY <1>3, <1>4, <1>5, <1>6, <1>7

\* Waiting: the publisher blocks only after it has seen, with the lock, that
\* there is no connection.
LEMMA WaitSafe ==
  ASSUME PInv, Check \/ LockToWait \/ SpuriousWakeup \/ Predicate \/ Block
  PROVE  PInv'
<1> USE DEF PInv, TypeOK, NoDanglingConnection, NoLostWakeup, Locked, Timely, evars, hvars
<1>0. connections_count_ \in Nat /\ (connections_count_ = 0 <=> connections_ = {})
  BY CountPositive
<1>1. CASE Check
  BY <1>0, <1>1 DEF Check
<1>2. CASE LockToWait
  BY <1>2 DEF LockToWait
<1>3. CASE SpuriousWakeup
  BY <1>3 DEF SpuriousWakeup
<1>4. CASE Predicate
  <2>0. mtx_conn_' \in BOOLEAN /\ (mtx_conn_' <=> connections_count_ = 0)
    BY <1>4, Zenon DEF Predicate
  <2>1. /\ pc = "predicate"
        /\ pc' = IF connections_count_ > 0 THEN "publish" ELSE "blocking"
        /\ UNCHANGED <<evars, next_symbol, conn_list, missed, valid, hvars, tick, notified>>
    BY <1>4 DEF Predicate
  <2>2. CASE connections_count_ = 0
    BY <1>0, <2>0, <2>1, <2>2
  <2>3. CASE connections_count_ # 0
    BY <1>0, <2>0, <2>1, <2>3
  <2> QED
    BY <2>2, <2>3
<1>5. CASE Block
  BY <1>5 DEF Block
<1> QED
  BY <1>1, <1>2, <1>3, <1>4, <1>5

\* Leaving publish(), for the next symbol or the next turn.
LEMMA EndPublishShape ==
  ASSUME TypeOK, EndPublish
  PROVE  /\ next_symbol' \in 1..Len(Spun)
         /\ pc' \in {"check", "publish"}
         /\ mtx_conn_' = FALSE /\ conn_list' = {}
<1>0. next_symbol \in 1..Len(Spun)
  BY DEF TypeOK
<1>1. next_symbol \in Nat /\ Len(Spun) \in Nat \ {0}
  BY <1>0, SpunLength
<1>2. (next_symbol % Len(Spun)) \in 0..(Len(Spun) - 1)
  BY <1>1
<1> QED
  BY <1>1, <1>2 DEF EndPublish

\* Publishing.
LEMMA PublishSafe ==
  ASSUME PInv,
         \/ BeginPublish \/ CheckHeartbeat \/ ListDone
         \/ \E c \in Conns : SendFails(c) \/ SendSucceeds(c)
  PROVE  PInv'
<1> USE DEF PInv, TypeOK, NoDanglingConnection, NoLostWakeup, Locked, Timely, evars, hvars
<1>1. CASE BeginPublish
  BY <1>1 DEF BeginPublish, SubscribedConnections
<1>2. CASE ListDone
  BY <1>2, EndPublishShape DEF ListDone
<1>3. ASSUME NEW c \in Conns, SendFails(c) PROVE PInv'
  BY <1>3, EndPublishShape DEF SendFails
<1>4. ASSUME NEW c \in Conns, SendSucceeds(c) PROVE PInv'
  <2>1. (tick[c] + 1) % CheckEvery \in 0..(CheckEvery - 1)
    BY TickBound
  <2>2. CASE CheckDue(c)
    <3>1. /\ c \in connections_ /\ connections_' = connections_
          /\ pc = "send" /\ pc' = "check heartbeat"
          /\ checking' = c /\ hb_delta' = IF stale[c] THEN "large" ELSE "small"
      BY <1>4, <2>2 DEF SendSucceeds
    <3>2. TypeOK'
      BY <1>4, <2>1, <3>1 DEF SendSucceeds
    <3>3. NoDanglingConnection' /\ NoLostWakeup' /\ Locked' /\ Timely'
      BY <1>4, <3>1 DEF SendSucceeds
    <3> QED
      BY <3>2, <3>3
  <2>3. CASE ~CheckDue(c)
    BY <1>4, <2>1, <2>3 DEF SendSucceeds
  <2> QED
    BY <2>2, <2>3
<1>5. CASE CheckHeartbeat
  BY <1>5, PublisherAssumption DEF CheckHeartbeat
<1> QED
  BY <1>1, <1>2, <1>3, <1>4, <1>5

LEMMA PInvStep == PInv /\ [Next]_vars => PInv'
<1> SUFFICES ASSUME PInv, [Next]_vars PROVE PInv'
  OBVIOUS
<1>1. CASE PublisherStep
  BY <1>1, WaitSafe, PublishSafe DEF PublisherStep
<1>2. CASE EventStep
  BY <1>2, EventQuiet, KilledQuiet, CreateSafe, DisposeSafe DEF EventStep
<1>3. CASE SpuriousWakeup
  BY <1>3, WaitSafe
<1>4. CASE \E c \in Conns : HeartbeatLapses(c) \/ SendKills(c)
  BY <1>4, EventQuiet, KilledQuiet
<1>5. CASE UNCHANGED vars
  BY <1>5 DEF PInv, TypeOK, NoDanglingConnection, NoLostWakeup, Locked, Timely, vars, evars, pvars, hvars
<1> QED
  BY <1>1, <1>2, <1>3, <1>4, <1>5 DEF Next, Over

LEMMA DispatcherInvariant == Spec => []PInv
  BY InitPInv, PInvStep, PTL DEF Spec

\* For any connections and symbols every variable keeps its type, and the count that
\* is read without the lock is the size of the map whenever the lock is free.
THEOREM DispatcherTyped == Spec => []TypeOK
<1>1. PInv => TypeOK
  BY DEF PInv
<1> QED
  BY <1>1, DispatcherInvariant, PTL

\* The two threads of tcp_publisher keep what DeltaDispatcher's lock is for:
\* publish() never works on a connection that the event thread has destroyed, and
\* the publisher does not sleep with a connection there.
THEOREM DispatcherSafe == Spec => [](NoDanglingConnection /\ NoLostWakeup)
<1>1. PInv => NoDanglingConnection /\ NoLostWakeup
  BY DEF PInv
<1> QED
  BY <1>1, DispatcherInvariant, PTL

\* For any connections: whoever logged in and is in time with its heartbeats is
\* timed out only if one of them crosses the check.
THEOREM PunctualNotTimedOut == Spec => []PunctualStays
<1>1. PInv => PunctualStays
  BY DEF PInv, Timely, PunctualStays
<1> QED
  BY <1>1, DispatcherInvariant, PTL
=============================================================================
