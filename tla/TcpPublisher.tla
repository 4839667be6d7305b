---------------------------- MODULE TcpPublisher ----------------------------
(***************************************************************************)
(* tcp_publisher: the libevent thread, which accepts, reads and disposes   *)
(* connections, and the publisher thread, which spins deltas out to the    *)
(* subscribed ones, sharing DeltaDispatcher under mtx_conn_ and cv_conn_.  *)
(*                                                                         *)
(* The publisher holds mtx_conn_ for the whole of publish(), one step per  *)
(* send_message.  The event thread's critical sections contain no blocking *)
(* call and are one step each, enabled while the lock is free; what it     *)
(* does without the lock (close_connection, heartbeats) interleaves freely *)
(* with the publisher.                                                     *)
(*                                                                         *)
(* A send on a connection that the client has reset, or that the other     *)
(* thread has just shut down, may raise SIGPIPE, which nobody handles: the *)
(* process is killed.                                                      *)
(***************************************************************************)
EXTENDS Integers, FiniteSets, Sequences

CONSTANTS
  Conns,        \* connections clients may open; bound: each is opened once
  Symbols,      \* symbols clients subscribe to
  Spun,         \* svr_spin_symbols, in configuration order
  CheckEvery,   \* stat_check_every_n_tick_: ticks between heartbeat checks
  NoConn        \* no connection

ASSUME PublisherAssumption ==
  /\ Spun \in Seq(Symbols) /\ Spun # <<>>
  /\ CheckEvery \in Nat \ {0}
  /\ NoConn \notin Conns

VARIABLES
  connections_,        \* keys of the dispatcher's map
  connections_count_,
  accepted,            \* history: connections opened so far
  valid,               \* bev_ # nullptr: not closed by this process
  subscribed_,         \* symbols per connection
  stale,               \* the last heartbeat is older than hb_timeout_sec_
  tick,                \* curr_count_ modulo CheckEvery
  disposing,           \* connection whose eventcb has closed but not disposed it
  pc,                  \* where the publisher thread is; "killed": the process
  mtx_conn_,           \* TRUE while the publisher thread holds the lock
  notified,            \* a notify_one has reached the blocked publisher
  next_symbol,         \* position in Spun
  conn_list,           \* connections publish() has still to send to
  checking,            \* connection whose heartbeat is being checked
  hb_delta,            \* what that check will find: see CrossCheck
  missed,              \* history: valid subscribers an early return skipped
  punctual             \* history: logged in and in time with heartbeats since

evars == <<connections_, connections_count_, accepted, subscribed_, disposing>>
hvars == <<stale, checking, hb_delta, punctual>>
pvars == <<pc, mtx_conn_, next_symbol, conn_list, missed>>
vars == <<evars, pvars, hvars, valid, tick, notified>>

Init ==
  /\ connections_ = {}
  /\ connections_count_ = 0
  /\ accepted = {}
  /\ valid = [c \in Conns |-> FALSE]
  /\ subscribed_ = [c \in Conns |-> {}]
  /\ stale = [c \in Conns |-> TRUE]
  /\ tick = [c \in Conns |-> 0]
  /\ disposing = NoConn
  /\ pc = "check"
  /\ mtx_conn_ = FALSE
  /\ notified = FALSE
  /\ next_symbol = 1
  /\ conn_list = {}
  /\ checking = NoConn /\ hb_delta = "small"
  /\ missed = {} /\ punctual = {}

-----------------------------------------------------------------------------
(* The event thread.  It is busy while an eventcb is between close_connection *)
(* and dispose_connection.                                                    *)

EventIdle == pc # "killed" /\ disposing = NoConn

\* Mutant: create_connection does not notify.
MutCreateConnectionSilent(c) ==
  /\ EventIdle
  /\ ~mtx_conn_
  /\ c \notin accepted
  /\ accepted' = accepted \cup {c}
  /\ connections_' = connections_ \cup {c}
  /\ connections_count_' = Cardinality(connections_')
  /\ valid' = [valid EXCEPT ![c] = TRUE]
  /\ UNCHANGED <<subscribed_, disposing, pvars, hvars, tick, notified>>

\* listener_cb: a new connection has had no heartbeat (last_hb_time_ = 0).
CreateConnection(c) ==
  /\ EventIdle
  /\ ~mtx_conn_
  /\ c \notin accepted
  /\ accepted' = accepted \cup {c}
  /\ connections_' = connections_ \cup {c}
  /\ connections_count_' = Cardinality(connections_')
  /\ valid' = [valid EXCEPT ![c] = TRUE]
  /\ notified' = (notified \/ pc = "blocked")
  /\ UNCHANGED <<subscribed_, disposing, pvars, hvars, tick>>

\* A heartbeat is stored without the lock, and may cross a check, which reads the
\* clock first and last_hb_time_ then: if the clock has moved on in between, the
\* difference is negative, and a huge number as size_t.
CrossCheck(c) ==
  IF checking = c
    THEN hb_delta' \in (IF hb_delta = "negative" THEN {"negative"} ELSE {"small", "negative"})
    ELSE UNCHANGED hb_delta

Overtaken(c) == checking = c /\ hb_delta' = "negative"

\* Mutant: on_login_accepted does not reset the time.
MutOnLogin(c) ==
  /\ EventIdle
  /\ c \in connections_
  /\ punctual' = punctual \cup {c}
  /\ \E sent \in BOOLEAN : valid' = [valid EXCEPT ![c] = valid[c] /\ sent]
  /\ UNCHANGED <<evars, pvars, stale, checking, hb_delta, tick, notified>>

\* on_login_msg: the reply is sent, and may fail and close the connection; then
\* on_login_accepted.
OnLogin(c) ==
  /\ EventIdle
  /\ c \in connections_
  /\ stale' = [stale EXCEPT ![c] = FALSE]
  /\ CrossCheck(c)
  /\ punctual' = IF Overtaken(c) THEN punctual \ {c} ELSE punctual \cup {c}
  /\ \E sent \in BOOLEAN : valid' = [valid EXCEPT ![c] = valid[c] /\ sent]
  /\ UNCHANGED <<evars, pvars, checking, tick, notified>>

LoginReplyKills(c) ==
  /\ EventIdle
  /\ c \in connections_
  /\ pc' = "killed"
  /\ UNCHANGED <<evars, mtx_conn_, next_symbol, conn_list, missed, hvars, valid, tick, notified>>

\* on_subscribe_msg, accepted with or without a login.
OnSubscribe(c, symbols) ==
  /\ EventIdle
  /\ ~mtx_conn_
  /\ c \in connections_
  /\ subscribed_' = [subscribed_ EXCEPT ![c] = @ \cup symbols]
  /\ UNCHANGED <<connections_, connections_count_, accepted, disposing, pvars,
                 hvars, valid, tick, notified>>

OnHeartbeat(c) ==
  /\ EventIdle
  /\ c \in connections_
  /\ stale' = [stale EXCEPT ![c] = FALSE]
  /\ CrossCheck(c)
  /\ punctual' = IF Overtaken(c) THEN punctual \ {c} ELSE punctual
  /\ UNCHANGED <<evars, pvars, checking, valid, tick, notified>>

\* hb_timeout_sec_ passes without a heartbeat.
HeartbeatLapses(c) ==
  /\ pc # "killed"
  /\ c \in connections_
  /\ stale' = [stale EXCEPT ![c] = TRUE]
  /\ punctual' = punctual \ {c}
  /\ UNCHANGED <<evars, pvars, checking, hb_delta, valid, tick, notified>>

\* readcb: unreadable data, the connection is closed but stays in the map.
OnReadError(c) ==
  /\ EventIdle
  /\ c \in connections_
  /\ valid' = [valid EXCEPT ![c] = FALSE]
  /\ UNCHANGED <<evars, pvars, hvars, tick, notified>>

\* eventcb on end of file or error: close_connection, without the lock, ...
OnEvent(c) ==
  /\ EventIdle
  /\ c \in connections_
  /\ valid' = [valid EXCEPT ![c] = FALSE]
  /\ disposing' = c
  /\ UNCHANGED <<connections_, connections_count_, accepted, subscribed_, pvars,
                 hvars, tick, notified>>

Disposing == pc # "killed" /\ disposing # NoConn

\* Mutant: dispose_connection without the lock.
MutDisposeConnectionUnlocked ==
  /\ Disposing
  /\ connections_' = connections_ \ {disposing}
  /\ connections_count_' = Cardinality(connections_')
  /\ disposing' = NoConn
  /\ UNCHANGED <<accepted, subscribed_, pvars, hvars, valid, tick, notified>>

\* Mutant: dispose_connection leaves the count alone.
MutDisposeConnectionKeepsCount ==
  /\ Disposing
  /\ ~mtx_conn_
  /\ connections_' = connections_ \ {disposing}
  /\ disposing' = NoConn
  /\ UNCHANGED <<connections_count_, accepted, subscribed_, pvars, hvars, valid,
                 tick, notified>>

\* ... then dispose_connection, with it.
DisposeConnection ==
  /\ Disposing
  /\ ~mtx_conn_
  /\ connections_' = connections_ \ {disposing}
  /\ connections_count_' = Cardinality(connections_')
  /\ disposing' = NoConn
  /\ UNCHANGED <<accepted, subscribed_, pvars, hvars, valid, tick, notified>>

-----------------------------------------------------------------------------
(* The publisher thread. *)

\* Both tests of connections_count() before the lock: task_publisher's and
\* wait_for_connections'.
Check ==
  /\ pc \in {"check", "check again"}
  /\ pc' = IF connections_count_ > 0 THEN "publish"
           ELSE IF pc = "check" THEN "check again" ELSE "lock"
  /\ UNCHANGED <<evars, mtx_conn_, next_symbol, conn_list, missed, hvars, valid, tick, notified>>

\* Taking mtx_conn_ to test the predicate, at first or after a wake-up.  A
\* wake-up may be spurious: then nobody has notified.
LockToWait ==
  /\ pc \in {"lock", "blocked"}
  /\ pc = "blocked" => notified
  /\ ~mtx_conn_
  /\ mtx_conn_' = TRUE
  /\ pc' = "predicate"
  /\ notified' = FALSE
  /\ UNCHANGED <<evars, next_symbol, conn_list, missed, hvars, valid, tick>>

SpuriousWakeup ==
  /\ pc = "blocked"
  /\ ~notified
  /\ ~mtx_conn_
  /\ mtx_conn_' = TRUE
  /\ pc' = "predicate"
  /\ UNCHANGED <<evars, next_symbol, conn_list, missed, hvars, valid, tick, notified>>

\* The predicate is tested with the lock held; when it is false the lock is
\* released only as the thread blocks.
Predicate ==
  /\ pc = "predicate"
  /\ pc' = IF connections_count_ > 0 THEN "publish" ELSE "blocking"
  /\ mtx_conn_' = (connections_count_ = 0)
  /\ UNCHANGED <<evars, next_symbol, conn_list, missed, hvars, valid, tick, notified>>

Block ==
  /\ pc = "blocking"
  /\ mtx_conn_' = FALSE
  /\ pc' = "blocked"
  /\ UNCHANGED <<evars, next_symbol, conn_list, missed, hvars, valid, tick, notified>>

\* get_subscribed_connections
SubscribedConnections(symbol) ==
  {c \in connections_ : valid[c] /\ symbol \in subscribed_[c]}

\* publish(): the lock is taken and the list made.
BeginPublish ==
  /\ pc = "publish"
  /\ ~mtx_conn_
  /\ mtx_conn_' = TRUE
  /\ conn_list' = SubscribedConnections(Spun[next_symbol])
  /\ pc' = "send"
  /\ UNCHANGED <<evars, next_symbol, missed, hvars, valid, tick, notified>>

\* Leaving publish(), to the next symbol or back to task_publisher's loop.
EndPublish ==
  /\ mtx_conn_' = FALSE
  /\ next_symbol' = (next_symbol % Len(Spun)) + 1
  /\ pc' = IF next_symbol = Len(Spun) THEN "check" ELSE "publish"
  /\ conn_list' = {}

\* send_message fails, always so on a closed connection: the connection is
\* closed and publish() returns, leaving the rest of the list out.
SendFails(c) ==
  /\ pc = "send"
  /\ c \in conn_list
  /\ valid' = [valid EXCEPT ![c] = FALSE]
  /\ missed' = missed \cup {d \in conn_list \ {c} : valid[d]}
  /\ EndPublish
  /\ UNCHANGED <<evars, hvars, tick, notified>>

SendKills(c) ==
  /\ pc = "send"
  /\ c \in conn_list
  /\ pc' = "killed"
  /\ UNCHANGED <<evars, mtx_conn_, next_symbol, conn_list, missed, hvars, valid, tick, notified>>

\* Mutant: the number of the tick is compared, not its remainder.
MutCheckDue(c) == tick'[c] = CheckEvery

\* next_hb_check: due at every CheckEvery-th tick of the connection.
CheckDue(c) == tick'[c] = 0

\* send_message succeeds; if the check is due it reads the clock.
SendSucceeds(c) ==
  /\ pc = "send"
  /\ c \in conn_list
  /\ valid[c]
  /\ tick' = [tick EXCEPT ![c] = (@ + 1) % CheckEvery]
  /\ conn_list' = conn_list \ {c}
  /\ IF CheckDue(c)
       THEN /\ pc' = "check heartbeat"
            /\ checking' = c
            /\ hb_delta' = IF stale[c] THEN "large" ELSE "small"
       ELSE UNCHANGED <<pc, checking, hb_delta>>
  /\ UNCHANGED <<evars, mtx_conn_, next_symbol, missed, stale, punctual, valid, notified>>

\* ... and last_hb_time_ then.  A timed out connection is closed.
CheckHeartbeat ==
  /\ pc = "check heartbeat"
  /\ valid' = [valid EXCEPT ![checking] = @ /\ hb_delta = "small"]
  /\ pc' = "send"
  /\ checking' = NoConn /\ hb_delta' = "small"
  /\ UNCHANGED <<evars, mtx_conn_, next_symbol, conn_list, missed, stale, punctual, tick, notified>>

ListDone ==
  /\ pc = "send"
  /\ conn_list = {}
  /\ EndPublish
  /\ UNCHANGED <<evars, missed, hvars, valid, tick, notified>>

-----------------------------------------------------------------------------
PublisherStep ==
  \/ Check \/ LockToWait \/ Predicate \/ Block \/ BeginPublish \/ CheckHeartbeat \/ ListDone
  \/ \E c \in Conns : SendFails(c) \/ SendSucceeds(c)

EventStep ==
  \/ \E c \in Conns :
       \/ CreateConnection(c) \/ OnLogin(c) \/ LoginReplyKills(c) \/ OnHeartbeat(c)
       \/ OnReadError(c) \/ OnEvent(c)
       \/ \E s \in Symbols : OnSubscribe(c, {s})
  \/ DisposeConnection

\* The process is over.
Over == pc = "killed" /\ UNCHANGED vars

Next ==
  \/ PublisherStep
  \/ EventStep
  \/ SpuriousWakeup
  \/ \E c \in Conns : HeartbeatLapses(c) \/ SendKills(c)
  \/ Over

\* The publisher thread runs on, unless the process is killed.  Nothing obliges
\* clients to connect, to send or to leave, and nothing is assumed of the event
\* thread, which competes for a mutex that the publisher takes again as soon as it
\* has released it.
Fairness == WF_vars(PublisherStep)

Spec == Init /\ [][Next]_vars /\ Fairness

-----------------------------------------------------------------------------
(* Properties. *)

\* Types; the publisher's lock goes with its program counter; the atomic
\* count read without the lock is the size of the map.
TypeOK ==
  /\ connections_ \subseteq accepted
  /\ connections_count_ = Cardinality(connections_)
  /\ accepted \subseteq Conns
  /\ valid \in [Conns -> BOOLEAN]
  /\ subscribed_ \in [Conns -> SUBSET Symbols]
  /\ stale \in [Conns -> BOOLEAN]
  /\ tick \in [Conns -> 0..(CheckEvery - 1)]
  /\ disposing \in Conns \cup {NoConn}
  /\ checking \in Conns \cup {NoConn} /\ hb_delta \in {"small", "large", "negative"}
  /\ punctual \subseteq Conns
  /\ pc \in {"check", "check again", "lock", "blocked", "predicate", "blocking",
            "publish", "send", "check heartbeat", "killed"}
  /\ pc # "killed" =>
       (mtx_conn_ <=> pc \in {"predicate", "blocking", "send", "check heartbeat"})
  /\ mtx_conn_ \in BOOLEAN
  /\ notified \in BOOLEAN
  /\ next_symbol \in 1..Len(Spun)
  /\ conn_list \subseteq Conns
  /\ missed \subseteq Conns

\* publish() works on raw pointers: none of them, nor that of the connection whose
\* heartbeat is being checked, is of a connection that the event thread has destroyed
\* meanwhile.
NoDanglingConnection ==
  /\ conn_list \subseteq connections_
  /\ checking # NoConn => checking \in connections_

\* The publisher is not blocked on cv_conn_ with a connection there and no
\* wake-up on its way, although it tests the count before taking the lock.
NoLostWakeup == pc = "blocked" /\ connections_ # {} => notified

\* Who has logged in and sent its heartbeats in time is not timed out, unless one
\* of them has crossed the check.
PunctualStays ==
  pc = "check heartbeat" /\ checking \in punctual => hb_delta = "small"

\* As long as there is a connection, and the process has not been killed,
\* publish() is called again and again.
KeepsPublishing == <>[](connections_ # {} /\ pc # "killed") => []<>(pc = "send")

\* A connection that has stopped sending heartbeats and is subscribed to a spun
\* symbol does not stay open: its own ticks run the heartbeat check.
NoZombieSubscriber ==
  \A c \in Conns :
    ~ <>[](/\ pc # "killed" /\ c \in connections_ /\ valid[c] /\ stale[c]
           /\ \E i \in 1..Len(Spun) : Spun[i] \in subscribed_[c])

\* README: "TCP shows reliable data transmission": no valid subscriber is left
\* out of a delta because sending it to another one failed.
NoDeltaMissed == missed = {}
=============================================================================
