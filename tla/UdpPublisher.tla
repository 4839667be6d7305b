---------------------------- MODULE UdpPublisher ----------------------------
(***************************************************************************)
(* udp_publisher: the libevent thread registers the addresses that log in  *)
(* and notes their heartbeats, the publisher thread sends every delta to   *)
(* every registered address, unregistering those whose heartbeats have     *)
(* stopped.  They share subscribers_ under mtx_conn_ and cv_conn_.         *)
(*                                                                         *)
(* The network may lose, delay, duplicate and reorder datagrams: a login   *)
(* or heartbeat once sent may arrive at any time, any number of times, or  *)
(* never, even after the subscriber that sent it has ended.                *)
(***************************************************************************)
EXTENDS Integers, FiniteSets

CONSTANTS
  Addrs,        \* addresses of subscribers
  Spins,        \* number of svr_spin_symbols: deltas per turn of the loop
  CheckEvery,   \* stat_check_every_n_tick_: ticks between heartbeat checks
  IndexMod,     \* session indices are uint32_t: 2^32
  NoAddr        \* no address

ASSUME UdpAssumption ==
  /\ Spins \in Nat \ {0} /\ CheckEvery \in Nat \ {0} /\ IndexMod \in Nat \ {0}
  /\ NoAddr \notin Addrs

VARIABLES
  bound,                  \* the dispatcher's connection exists
  subscribers_,           \* keys of the map
  subscribers_count_,
  writer_session_index_,  \* per subscriber
  tick,                   \* per subscriber: curr_count_ modulo CheckEvery
  stale,                  \* the last heartbeat is older than hb_timeout_sec_
  registering,            \* address whose login is answered but not registered
  pc,                     \* where the publisher thread is
  mtx_conn_,              \* TRUE while the publisher thread holds it between steps
  notified,               \* a notify_one has reached the blocked publisher
  spin,                   \* position in svr_spin_symbols
  todo,                   \* subscribers publish_to_subscribed has still to visit
  list2unreg,
  logins                  \* the network: addresses whose login has been sent

registry == <<subscribers_, subscribers_count_>>
peers == <<writer_session_index_, tick>>
thread == <<pc, mtx_conn_, spin, todo, list2unreg>>
vars == <<bound, registry, peers, stale, registering, thread, notified, logins>>

Init ==
  /\ bound = FALSE
  /\ subscribers_ = {} /\ subscribers_count_ = 0
  /\ writer_session_index_ = [a \in Addrs |-> 0]
  /\ tick = [a \in Addrs |-> 0]
  /\ stale = [a \in Addrs |-> FALSE]
  /\ registering = NoAddr
  /\ pc = "bind" /\ mtx_conn_ = FALSE /\ notified = FALSE
  /\ spin = 1 /\ todo = {} /\ list2unreg = {}
  /\ logins = {}

-----------------------------------------------------------------------------
(* The subscriber processes. *)

\* run_udp_subscriber: the login is sent once.  If sending fails the process
\* ends.  After it the process may send heartbeats, or not, and may end at any
\* time: the server is not told.
Login(a) ==
  /\ a \notin logins
  /\ logins' = logins \cup {a}
  /\ UNCHANGED <<bound, registry, peers, stale, registering, thread, notified>>

-----------------------------------------------------------------------------
(* The event thread: udp_publisher_readcb. *)

\* run_udp_publisher
Bind ==
  /\ ~bound
  /\ bound' = TRUE
  /\ UNCHANGED <<registry, peers, stale, registering, thread, notified, logins>>

EventIdle == bound /\ registering = NoAddr

\* A login, the first, a late or a duplicated one, is answered with index 0.
\* If that fails it is forgotten.
OnLogin(a) ==
  /\ EventIdle
  /\ a \in logins
  /\ registering' = a
  /\ UNCHANGED <<bound, registry, peers, stale, thread, notified, logins>>

\* Mutant: a repeated login replaces the subscriber's entry.
MutRegister ==
  /\ registering # NoAddr
  /\ ~mtx_conn_
  /\ subscribers_' = subscribers_ \cup {registering}
  /\ subscribers_count_' = Cardinality(subscribers_')
  /\ writer_session_index_' = [writer_session_index_ EXCEPT ![registering] = 0]
  /\ tick' = [tick EXCEPT ![registering] = 0]
  /\ stale' = [stale EXCEPT ![registering] = FALSE]
  /\ notified' = (notified \/ pc = "blocked")
  /\ registering' = NoAddr
  /\ UNCHANGED <<bound, thread, logins>>

\* Mutant: register_udp_subscriber does not notify.
MutRegisterSilent ==
  /\ registering # NoAddr
  /\ ~mtx_conn_
  /\ subscribers_' = subscribers_ \cup {registering}
  /\ subscribers_count_' = Cardinality(subscribers_')
  /\ stale' = [stale EXCEPT ![registering] = FALSE]
  /\ registering' = NoAddr
  /\ UNCHANGED <<bound, peers, notified, thread, logins>>

\* register_udp_subscriber: an address that is registered already is left alone.
Register ==
  /\ registering # NoAddr
  /\ ~mtx_conn_
  /\ IF registering \in subscribers_
       THEN UNCHANGED <<registry, writer_session_index_, tick, stale, notified>>
       ELSE /\ subscribers_' = subscribers_ \cup {registering}
            /\ subscribers_count_' = Cardinality(subscribers_')
            /\ writer_session_index_' = [writer_session_index_ EXCEPT ![registering] = 0]
            /\ tick' = [tick EXCEPT ![registering] = 0]
            /\ stale' = [stale EXCEPT ![registering] = FALSE]
            /\ notified' = (notified \/ pc = "blocked")
  /\ registering' = NoAddr
  /\ UNCHANGED <<bound, thread, logins>>

\* Mutant: the time of the heartbeat is stored without the lock.
MutOnHb(a) ==
  /\ EventIdle
  /\ a \in subscribers_
  /\ stale' = [stale EXCEPT ![a] = FALSE]
  /\ UNCHANGED <<bound, registry, peers, registering, thread, notified, logins>>

\* on_hb_msg: heartbeats of unregistered addresses change nothing.
OnHb(a) ==
  /\ EventIdle
  /\ ~mtx_conn_
  /\ a \in subscribers_
  /\ stale' = [stale EXCEPT ![a] = FALSE]
  /\ UNCHANGED <<bound, registry, peers, registering, thread, notified, logins>>

\* hb_timeout_sec_ passes without a heartbeat.
HeartbeatLapses(a) ==
  /\ a \in subscribers_
  /\ stale' = [stale EXCEPT ![a] = TRUE]
  /\ UNCHANGED <<bound, registry, peers, registering, thread, notified, logins>>

\* Mutant: unregistering does not update the count.
MutUnregister(as) ==
  /\ subscribers_' = subscribers_ \ as
  /\ UNCHANGED subscribers_count_

\* do_unregister_udp_subscriber
Unregister(as) ==
  /\ subscribers_' = subscribers_ \ as
  /\ subscribers_count_' = Cardinality(subscribers_')

\* recvfrom fails: unregister_udp_subscriber for client_addr, which recvfrom has
\* not set and nobody has initialized, so that it may be any address.
RecvFails(a) ==
  /\ EventIdle
  /\ ~mtx_conn_
  /\ a \in subscribers_
  /\ Unregister({a})
  /\ UNCHANGED <<bound, peers, stale, registering, thread, notified, logins>>

-----------------------------------------------------------------------------
(* The publisher thread. *)

\* task_publisher: sleep until there is a connection, then test the count,
\* twice, before taking the lock.
Check ==
  /\ \/ /\ pc = "bind"
        /\ bound
        /\ pc' = "check"
     \/ /\ pc \in {"check", "check again"}
        /\ pc' = IF subscribers_count_ > 0 THEN "publish"
                 ELSE IF pc = "check" THEN "check again" ELSE "lock"
  /\ UNCHANGED <<bound, registry, peers, stale, registering, mtx_conn_, spin, todo, list2unreg,
                 notified, logins>>

\* wait_for_subscribers
LockToWait ==
  /\ pc \in {"lock", "blocked"}
  /\ pc = "blocked" => notified
  /\ pc' = "predicate"
  /\ mtx_conn_' = TRUE
  /\ notified' = FALSE
  /\ UNCHANGED <<bound, registry, peers, stale, registering, spin, todo, list2unreg, logins>>

SpuriousWakeup ==
  /\ pc = "blocked"
  /\ pc' = "predicate"
  /\ mtx_conn_' = TRUE
  /\ UNCHANGED <<bound, registry, peers, stale, registering, spin, todo, list2unreg,
                 notified, logins>>

Predicate ==
  /\ pc = "predicate"
  /\ pc' = IF subscribers_count_ > 0 THEN "publish" ELSE "blocking"
  /\ mtx_conn_' = (subscribers_count_ = 0)
  /\ UNCHANGED <<bound, registry, peers, stale, registering, spin, todo, list2unreg,
                 notified, logins>>

Block ==
  /\ pc = "blocking"
  /\ pc' = "blocked"
  /\ mtx_conn_' = FALSE
  /\ UNCHANGED <<bound, registry, peers, stale, registering, spin, todo, list2unreg,
                 notified, logins>>

\* publish_to_subscribed takes the lock ...
BeginPublish ==
  /\ pc = "publish"
  /\ pc' = "send"
  /\ mtx_conn_' = TRUE
  /\ todo' = subscribers_
  /\ list2unreg' = {}
  /\ UNCHANGED <<bound, registry, peers, stale, registering, spin, notified, logins>>

\* ... and on its return releases it.
EndPublish ==
  /\ pc' = IF spin = Spins THEN "bind" ELSE "publish"
  /\ spin' = (spin % Spins) + 1
  /\ mtx_conn_' = FALSE
  /\ todo' = {}
  /\ list2unreg' = {}

\* next_writer_session_index, in uint32_t arithmetic
NextIndex(i) == (i + 1) % IndexMod

\* Mutant: the check is due at a tick that never comes.
MutTimedOut(a) == tick'[a] = CheckEvery /\ stale[a]

\* next_hb_check: due at every CheckEvery-th tick of the subscriber.
TimedOut(a) == tick'[a] = 0 /\ stale[a]

\* Mutant: the publisher returns after the first subscriber.
MutSendTo(a) ==
  /\ pc = "send"
  /\ a \in todo
  /\ writer_session_index_' = [writer_session_index_ EXCEPT ![a] = NextIndex(@)]
  /\ tick' = [tick EXCEPT ![a] = (@ + 1) % CheckEvery]
  /\ Unregister(IF TimedOut(a) THEN {a} ELSE {})
  /\ EndPublish
  /\ UNCHANGED <<bound, stale, registering, notified, logins>>

SendTo(a) ==
  /\ pc = "send"
  /\ a \in todo
  /\ writer_session_index_' = [writer_session_index_ EXCEPT ![a] = NextIndex(@)]
  /\ tick' = [tick EXCEPT ![a] = (@ + 1) % CheckEvery]
  /\ list2unreg' = IF TimedOut(a) THEN list2unreg \cup {a} ELSE list2unreg
  /\ todo' = todo \ {a}
  /\ UNCHANGED <<bound, registry, stale, registering, pc, mtx_conn_, spin, notified, logins>>

\* sendto fails: publish_to_subscribed returns, leaving out the subscribers not
\* visited yet and forgetting those it meant to unregister.
SendFails(a) ==
  /\ pc = "send"
  /\ a \in todo
  /\ writer_session_index_' = [writer_session_index_ EXCEPT ![a] = NextIndex(@)]
  /\ EndPublish
  /\ UNCHANGED <<bound, registry, tick, stale, registering, notified, logins>>

SentToAll ==
  /\ pc = "send"
  /\ todo = {}
  /\ Unregister(list2unreg)
  /\ EndPublish
  /\ UNCHANGED <<bound, peers, stale, registering, notified, logins>>

-----------------------------------------------------------------------------
PublisherStep ==
  \/ Check \/ LockToWait \/ Predicate \/ Block \/ BeginPublish \/ SentToAll
  \/ \E a \in Addrs : SendTo(a) \/ SendFails(a)

Next ==
  \/ PublisherStep \/ SpuriousWakeup
  \/ Bind \/ Register
  \/ \E a \in Addrs :
       \/ Login(a) \/ OnLogin(a) \/ OnHb(a) \/ RecvFails(a) \/ HeartbeatLapses(a)

\* The publisher thread runs on; nothing is assumed of the network, of the
\* clients or of the event thread, which competes for the lock.
Fairness == WF_vars(PublisherStep)

Spec == Init /\ [][Next]_vars /\ Fairness

-----------------------------------------------------------------------------
(* Properties. *)

\* Types; the lock goes with the publisher's program counter; the atomic count
\* read without the lock is the size of the map.
TypeOK ==
  /\ bound \in BOOLEAN
  /\ subscribers_ \subseteq Addrs
  /\ subscribers_count_ = Cardinality(subscribers_)
  /\ writer_session_index_ \in [Addrs -> 0..(IndexMod - 1)]
  /\ tick \in [Addrs -> 0..(CheckEvery - 1)]
  /\ stale \in [Addrs -> BOOLEAN]
  /\ registering \in Addrs \cup {NoAddr}
  /\ pc \in {"bind", "check", "check again", "lock", "predicate", "blocking", "blocked",
            "publish", "send"}
  /\ mtx_conn_ <=> pc \in {"predicate", "blocking", "send"}
  /\ mtx_conn_ \in BOOLEAN /\ notified \in BOOLEAN
  /\ spin \in 1..Spins
  /\ todo \subseteq Addrs /\ list2unreg \subseteq Addrs
  /\ logins \subseteq Addrs

\* publish_to_subscribed iterates over the map itself and keeps addresses in
\* list2unreg: no entry is inserted or erased under the iteration, and nobody
\* is unregistered whose heartbeat has come in meanwhile.
StableWhilePublishing ==
  /\ pc = "send" => todo \subseteq subscribers_
  /\ \A a \in list2unreg : a \in subscribers_ /\ stale[a]

\* The publisher is not blocked with a subscriber there and no wake-up on its
\* way, although it tests the count before taking the lock.
NoLostWakeup == pc = "blocked" /\ subscribers_ # {} => notified

\* While an address stays registered its indices go up one by one, whatever
\* duplicated logins arrive and whichever sends fail.
IndexContinuous ==
  [][\A a \in subscribers_ \cap subscribers_' :
       writer_session_index_'[a] \in
         {writer_session_index_[a], (writer_session_index_[a] + 1) % IndexMod}]_vars

\* As long as there is a subscriber, publishing goes on, failing sends or not.
KeepsPublishing == <>[](subscribers_ # {}) => []<>(pc = "send")

\* From some time on no sendto fails.
SendsSettle == <>[][\A a \in Addrs : ~SendFails(a)]_vars

\* If from some time on no sendto fails, every subscriber is sent deltas for as
\* long as it is registered.
EverySubscriberServed ==
  SendsSettle =>
    \A a \in Addrs : []<>(a \notin subscribers_ \/ (pc = "send" /\ a \notin todo))

\* If from some time on no sendto fails, a subscriber that has left without
\* notice, or that a late login has registered after it left, does not stay
\* registered: a check of its heartbeats comes.
NoDeadSubscriber ==
  SendsSettle =>
    \A a \in Addrs : ~ <>[](a \in subscribers_ /\ stale[a])
=============================================================================
