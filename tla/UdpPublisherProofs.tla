------------------------- MODULE UdpPublisherProofs -------------------------
(***************************************************************************)
(* Theorems about UdpPublisher, for any set of addresses, any number of    *)
(* symbols and any period of the heartbeat check: what mtx_conn_ protects, *)
(* and the session indices whatever the network does.                      *)
(***************************************************************************)
EXTENDS UdpPublisher, FiniteSetTheorems, TLAPS

\* What the lock protects: an iteration over the map is under way only inside
\* publish_to_subscribed, and the publisher prepares to block only while there
\* is no subscriber.
Locked ==
  /\ IsFiniteSet(subscribers_)
  /\ todo # {} \/ list2unreg # {} => pc = "send"
  /\ pc = "blocking" => subscribers_ = {}

PInv == TypeOK /\ StableWhilePublishing /\ NoLostWakeup /\ Locked

\* The count, which is tested without the lock, is positive exactly if somebody
\* is registered.
LEMMA CountPositive ==
  ASSUME TypeOK, Locked
  PROVE  /\ subscribers_count_ \in Nat
         /\ subscribers_count_ = 0 <=> subscribers_ = {}
  BY FS_CardinalityType, FS_EmptySet DEF TypeOK, Locked

\* Who holds the lock is read off the publisher's program counter.
LEMMA LockFree ==
  ASSUME TypeOK, Locked, ~mtx_conn_
  PROVE  /\ pc \in {"bind", "check", "check again", "lock", "blocked", "publish"}
         /\ todo = {} /\ list2unreg = {}
  BY DEF TypeOK, Locked

LEMMA Remainder ==
  ASSUME NEW n \in Nat, NEW m \in Nat \ {0}
  PROVE  n % m \in 0..(m - 1)
  OBVIOUS

LEMMA InitPInv == Init => PInv
<1> SUFFICES ASSUME Init PROVE PInv
  OBVIOUS
<1>1. IsFiniteSet({}) /\ Cardinality({}) = 0
  BY FS_EmptySet
<1>2. /\ writer_session_index_ \in [Addrs -> 0..(IndexMod - 1)]
      /\ tick \in [Addrs -> 0..(CheckEvery - 1)]
      /\ stale \in [Addrs -> BOOLEAN]
      /\ spin \in 1..Spins
  BY UdpAssumption DEF Init
<1>3. (mtx_conn_ <=> pc \in {"predicate", "blocking", "send"}) /\ mtx_conn_ \in BOOLEAN
  BY DEF Init
<1> QED
  BY <1>1, <1>2, <1>3 DEF Init, PInv, TypeOK, StableWhilePublishing, NoLostWakeup, Locked

\* Logins, and steps that change no more than the age of a heartbeat.  A
\* heartbeat is noted only while nobody iterates.
LEMMA QuietSafe ==
  ASSUME PInv,
         Bind \/ \E a \in Addrs : Login(a) \/ OnLogin(a) \/ OnHb(a) \/ HeartbeatLapses(a)
  PROVE  PInv'
<1> USE DEF PInv, TypeOK, StableWhilePublishing, NoLostWakeup, Locked, registry, peers, thread
<1>1. CASE Bind
  BY <1>1 DEF Bind
<1>2. ASSUME NEW a \in Addrs, Login(a) PROVE PInv'
  BY <1>2 DEF Login
<1>3. ASSUME NEW a \in Addrs, OnLogin(a) PROVE PInv'
  BY <1>3 DEF OnLogin
<1>4. ASSUME NEW a \in Addrs, OnHb(a) PROVE PInv'
  BY <1>4, LockFree DEF OnHb
<1>5. ASSUME NEW a \in Addrs, HeartbeatLapses(a) PROVE PInv'
  BY <1>5 DEF HeartbeatLapses
<1> QED
  BY <1>1, <1>2, <1>3, <1>4, <1>5

\* The map changes: with the lock free, so that nobody iterates over it.
LEMMA RegisterSafe ==
  ASSUME PInv, Register
  PROVE  PInv'
<1> USE DEF PInv
<1>1. /\ pc \in {"bind", "check", "check again", "lock", "blocked", "publish"}
      /\ todo = {} /\ list2unreg = {} /\ registering \in Addrs
      /\ UNCHANGED <<pc, mtx_conn_, spin, todo, list2unreg, bound, logins>>
      /\ registering' = NoAddr
  BY LockFree DEF Register, thread, TypeOK
<1>2. CASE registering \in subscribers_
  BY <1>1, <1>2 DEF Register, registry, TypeOK, StableWhilePublishing, NoLostWakeup, Locked
<1>3. CASE registering \notin subscribers_
  <2>1. /\ subscribers_' = subscribers_ \cup {registering}
        /\ subscribers_count_' = Cardinality(subscribers_')
        /\ writer_session_index_' = [writer_session_index_ EXCEPT ![registering] = 0]
        /\ tick' = [tick EXCEPT ![registering] = 0]
        /\ stale' = [stale EXCEPT ![registering] = FALSE]
        /\ notified' = (notified \/ pc = "blocked")
    BY <1>3 DEF Register
  <2>2. IsFiniteSet(subscribers_')
    BY <2>1, FS_AddElement DEF Locked
  <2>3. notified' \in BOOLEAN /\ (notified' <=> notified \/ pc = "blocked")
    BY <2>1, Zenon
  <2>4. /\ writer_session_index_' \in [Addrs -> 0..(IndexMod - 1)]
        /\ tick' \in [Addrs -> 0..(CheckEvery - 1)]
        /\ stale' \in [Addrs -> BOOLEAN]
    <3>1. 0 \in 0..(IndexMod - 1) /\ 0 \in 0..(CheckEvery - 1)
      BY UdpAssumption
    <3>2. /\ writer_session_index_ \in [Addrs -> 0..(IndexMod - 1)]
          /\ tick \in [Addrs -> 0..(CheckEvery - 1)]
          /\ stale \in [Addrs -> BOOLEAN]
      BY DEF TypeOK
    <3> QED
      BY <1>1, <2>1, <3>1, <3>2
  <2>5. TypeOK'
    BY <1>1, <2>1, <2>3, <2>4 DEF TypeOK
  <2>6. StableWhilePublishing' /\ Locked'
    BY <1>1, <2>2 DEF StableWhilePublishing, Locked
  <2>7. NoLostWakeup'
    BY <1>1, <2>3 DEF NoLostWakeup
  <2> QED
    BY <2>5, <2>6, <2>7
<1> QED
  BY <1>2, <1>3

LEMMA RecvFailsSafe ==
  ASSUME PInv, NEW a \in Addrs, RecvFails(a)
  PROVE  PInv'
<1> USE DEF PInv
<1>1. /\ pc \in {"bind", "check", "check again", "lock", "blocked", "publish"}
      /\ todo = {} /\ list2unreg = {}
      /\ UNCHANGED <<pc, mtx_conn_, spin, todo, list2unreg, bound, logins, registering,
                     writer_session_index_, tick, stale, notified>>
  BY LockFree DEF RecvFails, thread, peers
<1>2. subscribers_' \subseteq subscribers_ /\ subscribers_count_' = Cardinality(subscribers_')
  BY DEF RecvFails, Unregister
<1>3. IsFiniteSet(subscribers_')
  BY <1>2, FS_Subset DEF Locked
<1> QED
  BY <1>1, <1>2, <1>3 DEF TypeOK, StableWhilePublishing, NoLostWakeup, Locked

\* Waiting: the publisher blocks only after it has seen, with the lock, that
\* nobody is registered.
LEMMA WaitSafe ==
  ASSUME PInv, Check \/ LockToWait \/ SpuriousWakeup \/ Predicate \/ Block
  PROVE  PInv'
<1> USE DEF PInv, TypeOK, StableWhilePublishing, NoLostWakeup, Locked, registry, peers
<1>0. subscribers_count_ \in Nat /\ (subscribers_count_ = 0 <=> subscribers_ = {})
  BY CountPositive
<1>1. CASE Check
  BY <1>0, <1>1 DEF Check
<1>2. CASE LockToWait
  BY <1>2 DEF LockToWait
<1>3. CASE SpuriousWakeup
  BY <1>3 DEF SpuriousWakeup
<1>4. CASE Predicate
  <2>0. mtx_conn_' \in BOOLEAN /\ (mtx_conn_' <=> subscribers_count_ = 0)
    BY <1>4, Zenon DEF Predicate
  <2>1. /\ pc = "predicate"
        /\ pc' = IF subscribers_count_ > 0 THEN "publish" ELSE "blocking"
        /\ UNCHANGED <<bound, registry, peers, stale, registering, spin, todo, list2unreg,
                       notified, logins>>
    BY <1>4 DEF Predicate
  <2>2. CASE subscribers_count_ = 0
    BY <1>0, <2>0, <2>1, <2>2
  <2>3. CASE subscribers_count_ # 0
    BY <1>0, <2>0, <2>1, <2>3
  <2> QED
    BY <2>2, <2>3
<1>5. CASE Block
  BY <1>5 DEF Block
<1> QED
  BY <1>1, <1>2, <1>3, <1>4, <1>5

\* Leaving publish_to_subscribed, for the next symbol or the next turn.
LEMMA EndPublishShape ==
  ASSUME TypeOK, EndPublish
  PROVE  /\ spin' \in 1..Spins
         /\ pc' \in {"bind", "publish"}
         /\ mtx_conn_' = FALSE /\ todo' = {} /\ list2unreg' = {}
<1>0. spin \in 1..Spins
  BY DEF TypeOK
<1>1. spin \in Nat /\ Spins \in Nat \ {0}
  BY <1>0, UdpAssumption
<1>2. (spin % Spins) \in 0..(Spins - 1)
  BY <1>1, Remainder
<1> QED
  BY <1>0, <1>1, <1>2 DEF EndPublish

\* The arithmetic of a send: indices and ticks go round.
LEMMA SendShape ==
  ASSUME TypeOK, NEW a \in Addrs
  PROVE  /\ [writer_session_index_ EXCEPT ![a] = NextIndex(@)] \in [Addrs -> 0..(IndexMod - 1)]
         /\ [tick EXCEPT ![a] = (@ + 1) % CheckEvery] \in [Addrs -> 0..(CheckEvery - 1)]
<1>0. writer_session_index_[a] \in 0..(IndexMod - 1) /\ tick[a] \in 0..(CheckEvery - 1)
  BY DEF TypeOK
<1>1. writer_session_index_[a] + 1 \in Nat /\ tick[a] + 1 \in Nat
  BY <1>0, UdpAssumption
<1>2. /\ (writer_session_index_[a] + 1) % IndexMod \in 0..(IndexMod - 1)
      /\ (tick[a] + 1) % CheckEvery \in 0..(CheckEvery - 1)
  BY <1>1, Remainder, UdpAssumption
<1> QED
  BY <1>2 DEF TypeOK, NextIndex

LEMMA PublishSafe ==
  ASSUME PInv, BeginPublish \/ SentToAll \/ \E a \in Addrs : SendTo(a) \/ SendFails(a)
  PROVE  PInv'
<1> USE DEF PInv, registry, peers
<1>1. CASE BeginPublish
  BY <1>1 DEF BeginPublish, TypeOK, StableWhilePublishing, NoLostWakeup, Locked
<1>2. CASE SentToAll
  <2>1. subscribers_' \subseteq subscribers_ /\ subscribers_count_' = Cardinality(subscribers_')
    BY <1>2 DEF SentToAll, Unregister
  <2>2. IsFiniteSet(subscribers_')
    BY <2>1, FS_Subset DEF Locked
  <2> QED
    BY <1>2, <2>1, <2>2, EndPublishShape
    DEF SentToAll, TypeOK, StableWhilePublishing, NoLostWakeup, Locked
<1>3. ASSUME NEW a \in Addrs, SendTo(a) PROVE PInv'
  <2>1. /\ pc = "send" /\ a \in todo /\ todo' = todo \ {a}
        /\ list2unreg' = IF TimedOut(a) THEN list2unreg \cup {a} ELSE list2unreg
        /\ UNCHANGED <<bound, subscribers_, subscribers_count_, stale, registering, pc, mtx_conn_,
                       spin, notified, logins>>
    BY <1>3 DEF SendTo
  <2>2. /\ writer_session_index_' \in [Addrs -> 0..(IndexMod - 1)]
        /\ tick' \in [Addrs -> 0..(CheckEvery - 1)]
    BY <1>3, SendShape DEF SendTo
  <2>3. list2unreg' \subseteq list2unreg \cup {a} /\ (a \in list2unreg' => a \in list2unreg \/ stale[a])
    BY <2>1 DEF TimedOut
  <2>4. TypeOK'
    BY <2>1, <2>2, <2>3 DEF TypeOK
  <2>5. StableWhilePublishing'
    BY <2>1, <2>3 DEF StableWhilePublishing
  <2> QED
    BY <2>1, <2>4, <2>5 DEF NoLostWakeup, Locked
<1>4. ASSUME NEW a \in Addrs, SendFails(a) PROVE PInv'
  <2>1. writer_session_index_' \in [Addrs -> 0..(IndexMod - 1)]
    BY <1>4, SendShape DEF SendFails
  <2> QED
    BY <1>4, <2>1, EndPublishShape
    DEF SendFails, TypeOK, StableWhilePublishing, NoLostWakeup, Locked
<1> QED
  BY <1>1, <1>2, <1>3, <1>4

LEMMA PInvStep == PInv /\ [Next]_vars => PInv'
<1> SUFFICES ASSUME PInv, [Next]_vars PROVE PInv'
  OBVIOUS
<1>1. CASE PublisherStep \/ SpuriousWakeup
  BY <1>1, WaitSafe, PublishSafe DEF PublisherStep
<1>2. CASE Bind \/ Register
  BY <1>2, QuietSafe, RegisterSafe
<1>3. CASE \E a \in Addrs :
             Login(a) \/ OnLogin(a) \/ OnHb(a) \/ RecvFails(a) \/ HeartbeatLapses(a)
  BY <1>3, QuietSafe, RecvFailsSafe
<1>4. CASE UNCHANGED vars
  BY <1>4 DEF PInv, TypeOK, StableWhilePublishing, NoLostWakeup, Locked, vars, registry, peers, thread
<1> QED
  BY <1>1, <1>2, <1>3, <1>4 DEF Next

LEMMA RegistryInvariant == Spec => []PInv
  BY InitPInv, PInvStep, PTL DEF Spec

\* For any addresses and symbols every variable keeps its type, and the count that is
\* read without the lock is the size of the map.
THEOREM RegistryTyped == Spec => []TypeOK
<1>1. PInv => TypeOK
  BY DEF PInv
<1> QED
  BY <1>1, RegistryInvariant, PTL

\* The two threads of udp_publisher keep what mtx_conn_ is for: the map does not
\* change under the publisher's iteration, nobody is unregistered whose heartbeat
\* has come in meanwhile, and the publisher does not sleep while somebody is
\* registered.
THEOREM RegistrySafe == Spec => [](StableWhilePublishing /\ NoLostWakeup)
<1>1. PInv => StableWhilePublishing /\ NoLostWakeup
  BY DEF PInv
<1> QED
  BY <1>1, RegistryInvariant, PTL

\* Only a send and a registration touch the indices, the latter that of an
\* address that was not registered.
LEMMA IndexStep ==
  ASSUME TypeOK, Next, NEW a \in subscribers_ \cap subscribers_'
  PROVE  writer_session_index_'[a] \in
           {writer_session_index_[a], (writer_session_index_[a] + 1) % IndexMod}
<1>1. ASSUME NEW b \in Addrs, SendTo(b) \/ SendFails(b)
      PROVE  writer_session_index_'[a] \in {writer_session_index_[a], NextIndex(writer_session_index_[a])}
  <2>1. writer_session_index_' = [writer_session_index_ EXCEPT ![b] = NextIndex(@)]
    BY <1>1 DEF SendTo, SendFails
  <2> QED
    BY <2>1 DEF TypeOK
<1>2. CASE Register
  <2>1. CASE registering \in subscribers_
    BY <1>2, <2>1 DEF Register
  <2>2. CASE registering \notin subscribers_
    BY <1>2, <2>2 DEF Register, TypeOK
  <2> QED
    BY <2>1, <2>2
<1>3. \/ UNCHANGED writer_session_index_ \/ Register
      \/ \E b \in Addrs : SendTo(b) \/ SendFails(b)
  BY Zenon DEF Next, PublisherStep, Check, LockToWait, Predicate, Block, BeginPublish, SentToAll,
       SpuriousWakeup, Bind, Login, OnLogin, OnHb, RecvFails, HeartbeatLapses, peers
<1> QED
  BY <1>1, <1>2, <1>3 DEF NextIndex

\* Whatever the network does to logins, heartbeats and deltas, and whichever sends
\* fail, the indices of an address go up one by one while it is registered.
THEOREM IndicesContinuous == Spec => IndexContinuous
<1>1. TypeOK /\ [Next]_vars =>
        [\A a \in subscribers_ \cap subscribers_' :
           writer_session_index_'[a] \in
             {writer_session_index_[a], (writer_session_index_[a] + 1) % IndexMod}]_vars
  BY IndexStep
<1>2. Spec => []TypeOK
  BY RegistryTyped, PTL
<1> QED
  BY <1>1, <1>2, PTL DEF Spec, IndexContinuous
=============================================================================
