----------------------------- MODULE Subscriber -----------------------------
(***************************************************************************)
(* tcp_subscriber and udp_subscriber: two programs with the same skeleton. *)
(* main() starts the heartbeat thread (task_subscriber) before there is a  *)
(* connection, connects, and runs the libevent loop; when that returns it  *)
(* stops the heartbeat thread and joins it.                                *)
(*                                                                         *)
(* The two threads share, without a lock, the factory's connection, its    *)
(* bev_ and the descriptor, and the flag subscriber_stopped_.  Descriptor  *)
(* and network are external: once a descriptor is closed the kernel has    *)
(* forgotten it and libevent is told nothing about it any more.            *)
(***************************************************************************)
EXTENDS ReaderStat, Sequences

CONSTANTS
  Delays,      \* microseconds a message is under way
  Skews,       \* differences between the clocks of subscriber and publisher
  MaxMsgs      \* bound: messages read

ASSUME SubscriberAssumption ==
  /\ Delays \subseteq Nat /\ Skews \subseteq Int /\ MaxMsgs \in Nat

VARIABLES
  transport,             \* which of the two programs this is
  pc,                    \* where its threads are
  back,                  \* where main goes on after close_connection
  connection,            \* the factory's c_: "none", "live", or "freed"
  bev_,                  \* bev_ # nullptr
  sin_,                  \* set_sin has been called
  fd,                    \* the descriptor: see Descriptor
  session,               \* "none", login "sent", or "accepted"
  subscriber_stopped_,
  notified,              \* a notify_one has reached the blocked heartbeat thread
  mtx_sender_,           \* the thread that holds it between two of its steps
  fate,                  \* "running", "killed" by a signal, or "undefined"
  stat_,                 \* the reader's statistics
  skew,                  \* of this run
  delays,                \* history: of the messages since the last login reply
  closes,                \* history: calls of close() on the connection's descriptor
  own_close,             \* history: closed for a failed send or unreadable data
  overlapped,            \* history: both threads were inside close_connection
  held                   \* history: disposed of while the heartbeat thread used it

object == <<connection, bev_, sin_, mtx_sender_>>
network == <<fd, session>>
stop == <<subscriber_stopped_, notified>>
reader == <<stat_, skew, delays>>
history == <<closes, own_close, overlapped, held>>
vars == <<transport, pc, back, object, network, stop, fate, reader, history>>

Threads == {"main", "heartbeat"}

Main == {"connect", "create", "set sin", "login", "dispatch", "close", "shut down", "close fd",
         "dispose", "store", "notify", "free", "store again", "notify again", "join", "done"}

Heartbeat == {"test", "get", "send", "close", "shut down", "close fd", "test again", "predicate",
              "blocking", "blocked", "done"}

\* "none" before and "connecting" until the server accepts ("up") or refuses;
\* "down" once the server has ended or reset the connection; "shut" and then
\* "closed" by this process.
Descriptor == {"none", "connecting", "refused", "up", "down", "shut", "closed"}

Init ==
  /\ transport \in {"tcp", "udp"}
  /\ pc = [main |-> "connect", heartbeat |-> "test"]
  /\ back = "dispatch"
  /\ connection = "none" /\ bev_ = FALSE /\ sin_ = FALSE
  /\ mtx_sender_ = "free"
  /\ fd = "none" /\ session = "none"
  /\ subscriber_stopped_ = FALSE /\ notified = FALSE
  /\ fate = "running"
  /\ stat_ = NewStat /\ skew \in Skews /\ delays = <<>>
  /\ closes = 0 /\ own_close = FALSE /\ overlapped = FALSE /\ held = FALSE

At(t, place) == fate = "running" /\ pc[t] = place
Goto(t, place) == pc' = [pc EXCEPT ![t] = place]

-----------------------------------------------------------------------------
(* The network and the server. *)

\* A connection attempt succeeds or fails; a server ends its side.
NetworkStep ==
  /\ fate = "running"
  /\ \/ fd = "connecting" /\ fd' \in {"up", "refused"}
     \/ transport = "tcp" /\ fd = "up" /\ fd' = "down"
  /\ UNCHANGED <<transport, pc, back, object, session, stop, fate, reader, history>>

\* What send(2) may come to: while connecting the record is queued; on a
\* connection that the other side has ended, or that was shut down, the process
\* gets SIGPIPE, which nobody handles, unless the error is an older one.
SendResults ==
  CASE fd \in {"connecting", "up"} -> {"sent"}
    [] fd = "refused" -> {"failed", "killed"}
    [] fd = "down" -> {"sent", "failed", "killed"}
    [] fd = "shut" -> {"failed", "killed"}
    [] OTHER -> {"failed"}

-----------------------------------------------------------------------------
(* main(): connecting. *)

\* run_tcp_connector and run_udp_subscriber up to create_connection.  They may
\* fail at once and return.
Connect ==
  /\ At("main", "connect")
  /\ \/ /\ Goto("main", "create")
        /\ fd' = IF transport = "tcp" THEN "connecting" ELSE "up"
     \/ /\ Goto("main", "store again")
        /\ UNCHANGED fd
  /\ UNCHANGED <<transport, back, object, session, stop, fate, reader, history>>

CreateConnection ==
  /\ At("main", "create")
  /\ connection' = "live"
  /\ bev_' = (transport = "tcp")
  /\ Goto("main", IF transport = "tcp" THEN "dispatch" ELSE "set sin")
  /\ UNCHANGED <<transport, back, sin_, mtx_sender_, network, stop, fate, reader, history>>

\* Mutant: the address of the server is not kept.
MutSetSin ==
  /\ At("main", "set sin")
  /\ Goto("main", "login")
  /\ UNCHANGED <<transport, back, object, network, stop, fate, reader, history>>

\* run_udp_subscriber: set_sin comes after the connection can be seen.
SetSin ==
  /\ At("main", "set sin")
  /\ sin_' = TRUE
  /\ Goto("main", "login")
  /\ UNCHANGED <<transport, back, connection, bev_, mtx_sender_, network, stop, fate, reader, history>>

\* The login is sent once; if that fails run_udp_subscriber returns.
UdpLogin ==
  /\ At("main", "login")
  /\ \/ session' = "sent" /\ Goto("main", "dispatch")
     \/ Goto("main", "store again") /\ UNCHANGED session
  /\ UNCHANGED <<transport, back, object, fd, stop, fate, reader, history>>

-----------------------------------------------------------------------------
(* close_connection, by either thread: test of bev_, shutdown, close.  A thread *)
(* whose send failed is still inside send_message and holds mtx_sender_; the    *)
(* callbacks of libevent do not.                                               *)

\* close_connection returns, and with it the send_message it is called from.
Return(t) ==
  /\ Goto(t, IF t = "main" THEN back ELSE "test again")
  /\ mtx_sender_' = IF mtx_sender_ = t THEN "free" ELSE mtx_sender_

\* Mutant: bev_ is not reset.
MutCloseFd(t) ==
  /\ At(t, "close fd")
  /\ fd' = "closed"
  /\ closes' = closes + 1
  /\ Return(t)
  /\ UNCHANGED <<transport, back, connection, bev_, sin_, session, stop, fate, reader,
                 own_close, overlapped, held>>

CloseFd(t) ==
  /\ At(t, "close fd")
  /\ fd' = "closed"
  /\ bev_' = FALSE
  /\ closes' = closes + 1
  /\ Return(t)
  /\ UNCHANGED <<transport, back, connection, sin_, session, stop, fate, reader,
                 own_close, overlapped, held>>

CloseConnection(t) ==
  \/ /\ At(t, "close")
     /\ IF bev_ THEN Goto(t, "shut down") /\ UNCHANGED mtx_sender_ ELSE Return(t)
     /\ overlapped' =
          (overlapped \/ (bev_ /\ \E u \in Threads \ {t} : pc[u] \in {"shut down", "close fd"}))
     /\ own_close' = (own_close \/ (bev_ /\ ~(t = "main" /\ back = "dispose")))
     /\ UNCHANGED <<transport, back, connection, bev_, sin_, network, stop, fate, reader,
                    closes, held>>
  \/ /\ At(t, "shut down")
     /\ fd' = IF fd = "closed" THEN fd ELSE "shut"
     /\ Goto(t, "close fd")
     /\ UNCHANGED <<transport, back, object, session, stop, fate, reader, history>>
  \/ CloseFd(t)

-----------------------------------------------------------------------------
(* main(): the libevent loop. *)

\* send_message from a handler: if it fails it closes the connection, and the
\* loop goes on.
HandlerSends(result) ==
  /\ mtx_sender_ = "free"
  /\ UNCHANGED <<connection, bev_, sin_>>
  /\ CASE result = "sent" -> UNCHANGED <<pc, back, mtx_sender_, fate>>
       [] result = "failed" -> /\ Goto("main", "close") /\ back' = "dispatch"
                               /\ mtx_sender_' = "main"
                               /\ UNCHANGED fate
       [] OTHER -> fate' = "killed" /\ UNCHANGED <<pc, back, mtx_sender_>>

\* eventcb, BEV_EVENT_CONNECTED: the login is sent.
OnConnected ==
  /\ At("main", "dispatch")
  /\ transport = "tcp" /\ session = "none"
  /\ fd \in {"up", "down", "shut"}
  /\ \E result \in SendResults :
       /\ HandlerSends(result)
       /\ session' = IF result = "sent" THEN "sent" ELSE session
  /\ UNCHANGED <<transport, fd, stop, reader, history>>

\* What arrived before the connection was ended or shut down is still there.
Readable == {"up", "down", "shut"}

\* A message is read.  Over TCP the login reply comes first and once; over UDP
\* it may be lost, late or duplicated.
Reads(is_login_reply) ==
  /\ At("main", "dispatch")
  /\ stat_.total_packets_progress_ < MaxMsgs
  /\ IF transport = "tcp"
       THEN fd \in Readable /\ session = (IF is_login_reply THEN "sent" ELSE "accepted")
       ELSE session # "none"

Measured(is_login_reply, delay, due) ==
  OnReaderProgress(stat_, is_login_reply, WireLatency(delay, skew), due)

\* on_login_reply_msg, after on_reader_progress.  The TCP subscriber subscribes.
OnLoginReply(delay) ==
  /\ Reads(TRUE)
  /\ \E due \in LineDue(stat_) : stat_' = StartReaderStat(Measured(TRUE, delay, due))
  /\ delays' = <<delay>>
  /\ session' = "accepted"
  /\ \E result \in (IF transport = "tcp" THEN SendResults ELSE {"sent"}) : HandlerSends(result)
  /\ UNCHANGED <<transport, fd, stop, skew, history>>

OnDelta(delay) ==
  /\ Reads(FALSE)
  /\ \E due \in LineDue(stat_) : stat_' = Measured(FALSE, delay, due)
  /\ delays' = IF delays = <<>> THEN <<>> ELSE Append(delays, delay)
  /\ UNCHANGED <<transport, pc, back, object, network, stop, fate, skew, history>>

\* readcb: what was read is no record; the connection is closed, and not disposed of.
ReadFails ==
  /\ At("main", "dispatch")
  /\ transport = "tcp" /\ session # "none"
  /\ fd \in Readable
  /\ Goto("main", "close") /\ back' = "dispatch"
  /\ UNCHANGED <<transport, object, network, stop, fate, reader, history>>

\* eventcb, BEV_EVENT_EOF or BEV_EVENT_ERROR, as long as the descriptor is there
\* for libevent to see it: close_connection, ...
OnEvent ==
  /\ At("main", "dispatch")
  /\ transport = "tcp" /\ fd \in {"refused", "down", "shut"}
  /\ Goto("main", "close") /\ back' = "dispose"
  /\ UNCHANGED <<transport, object, network, stop, fate, reader, history>>

InObject == pc["heartbeat"] \in {"send", "close", "shut down", "close fd"}

\* Mutant: the base class's dispose_connection, and the bufferevent is not freed.
MutDispose ==
  /\ At("main", "dispose")
  /\ connection' = "freed"
  /\ held' = InObject
  /\ Goto("main", "dispatch")
  /\ UNCHANGED <<transport, back, bev_, sin_, mtx_sender_, network, stop, fate, reader,
                 closes, own_close, overlapped>>

\* ... dispose_connection, which frees the connection and then stops, ...
Dispose ==
  /\ At("main", "dispose")
  /\ connection' = "freed"
  /\ held' = InObject
  /\ Goto("main", "store")
  /\ UNCHANGED <<transport, back, bev_, sin_, mtx_sender_, network, stop, fate, reader,
                 closes, own_close, overlapped>>

\* stop_subscriber, without the lock of the wait: from dispose_connection, and
\* again from main() when the loop has returned.
StopSubscriber ==
  \/ /\ At("main", "store") /\ Goto("main", "notify")
     /\ subscriber_stopped_' = TRUE
     /\ UNCHANGED <<transport, back, object, network, notified, fate, reader, history>>
  \/ /\ At("main", "store again") /\ Goto("main", "notify again")
     /\ subscriber_stopped_' = TRUE
     /\ UNCHANGED <<transport, back, object, network, notified, fate, reader, history>>
  \/ /\ \/ At("main", "notify") /\ Goto("main", "free")
        \/ At("main", "notify again") /\ Goto("main", "join")
     /\ notified' = (notified \/ pc["heartbeat"] = "blocked")
     /\ UNCHANGED <<transport, back, object, network, subscriber_stopped_, fate, reader, history>>

\* Mutant: the bufferevent is not freed, and the loop goes on.
MutFreeBufferevent ==
  /\ At("main", "free")
  /\ Goto("main", "dispatch")
  /\ UNCHANGED <<transport, back, object, network, stop, fate, reader, history>>

\* ... and bufferevent_free, after which libevent's loop has nothing to wait for.  The
\* bufferevent was made with BEV_OPT_CLOSE_ON_FREE and still has the descriptor's number.
FreeBufferevent ==
  /\ At("main", "free")
  /\ fd' = "closed"
  /\ closes' = closes + 1
  /\ Goto("main", "store again")
  /\ UNCHANGED <<transport, back, object, session, stop, fate, reader,
                 own_close, overlapped, held>>

Join ==
  /\ At("main", "join")
  /\ pc["heartbeat"] = "done"
  /\ Goto("main", "done")
  /\ UNCHANGED <<transport, back, object, network, stop, fate, reader, history>>

-----------------------------------------------------------------------------
(* The heartbeat thread. *)

\* task_subscriber: the flag is tested before the heartbeat and before the wait.
TestStopped ==
  /\ \/ At("heartbeat", "test") /\ Goto("heartbeat", IF subscriber_stopped_ THEN "done" ELSE "get")
     \/ /\ At("heartbeat", "test again")
        /\ Goto("heartbeat", IF subscriber_stopped_ THEN "test" ELSE "predicate")
  /\ UNCHANGED <<transport, back, object, network, stop, fate, reader, history>>

\* Mutant: the pointer, once there, is kept.
MutGetConnectionOnce ==
  /\ At("heartbeat", "get")
  /\ Goto("heartbeat", IF connection = "none" THEN "test again" ELSE "send")
  /\ UNCHANGED <<transport, back, object, network, stop, fate, reader, history>>

\* get_connection: the raw pointer, null before and after.
GetConnection ==
  /\ At("heartbeat", "get")
  /\ Goto("heartbeat", IF connection = "live" THEN "send" ELSE "test again")
  /\ UNCHANGED <<transport, back, object, network, stop, fate, reader, history>>

\* send_hb; what it returns is not looked at.
SendHb ==
  /\ At("heartbeat", "send")
  /\ connection = "live"
  /\ mtx_sender_ = "free"
  /\ \E result \in (IF transport = "tcp" THEN SendResults ELSE {"sent"}) :
       CASE result = "sent" -> Goto("heartbeat", "test again") /\ UNCHANGED <<mtx_sender_, fate>>
         [] result = "failed" -> /\ Goto("heartbeat", "close")
                                 /\ mtx_sender_' = "heartbeat"
                                 /\ UNCHANGED fate
         [] OTHER -> fate' = "killed" /\ UNCHANGED <<pc, mtx_sender_>>
  /\ UNCHANGED <<transport, back, connection, bev_, sin_, network, stop, reader, history>>

\* The connection was destroyed while the thread was using it.
UseFreed ==
  /\ fate = "running"
  /\ InObject /\ connection = "freed"
  /\ fate' = "undefined"
  /\ UNCHANGED <<transport, pc, back, object, network, stop, reader, history>>

\* wait_subscriber_for_hb_time: a notification may find the thread about to
\* block, and is then lost.
Wait ==
  /\ \/ /\ At("heartbeat", "predicate")
        /\ Goto("heartbeat", IF subscriber_stopped_ THEN "test" ELSE "blocking")
        /\ UNCHANGED notified
     \/ At("heartbeat", "blocking") /\ Goto("heartbeat", "blocked") /\ UNCHANGED notified
     \/ /\ At("heartbeat", "blocked") /\ notified
        /\ Goto("heartbeat", "predicate")
        /\ notified' = FALSE
  /\ UNCHANGED <<transport, back, object, network, subscriber_stopped_, fate, reader, history>>

SpuriousWakeup ==
  /\ At("heartbeat", "blocked")
  /\ Goto("heartbeat", "predicate")
  /\ UNCHANGED <<transport, back, object, network, stop, fate, reader, history>>

\* Mutant: wait() in place of wait_for().
MutPeriodEnds == FALSE /\ UNCHANGED vars

\* wait_for: the period hb_period_sec_ ends.
PeriodEnds ==
  /\ At("heartbeat", "blocked")
  /\ Goto("heartbeat", "test")
  /\ notified' = FALSE
  /\ UNCHANGED <<transport, back, object, network, subscriber_stopped_, fate, reader, history>>

-----------------------------------------------------------------------------
MainStep ==
  \/ Connect \/ CreateConnection \/ SetSin \/ UdpLogin
  \/ OnConnected \/ ReadFails \/ OnEvent
  \/ \E delay \in Delays : OnLoginReply(delay) \/ OnDelta(delay)
  \/ CloseConnection("main")
  \/ Dispose \/ StopSubscriber \/ FreeBufferevent \/ Join

HeartbeatStep ==
  \/ TestStopped \/ GetConnection \/ SendHb \/ UseFreed \/ Wait
  \/ connection # "freed" /\ CloseConnection("heartbeat")

Ended == fate # "running" \/ (pc["main"] = "done" /\ pc["heartbeat"] = "done")

\* The process is over.
Over == Ended /\ UNCHANGED vars

Next == MainStep \/ HeartbeatStep \/ PeriodEnds \/ SpuriousWakeup \/ NetworkStep \/ Over

\* Both threads run on, libevent reports what happens to a descriptor that is
\* open, and a period of waiting ends, however often the thread wakes up before:
\* wait_for has one deadline for all its blockings.  Nothing is assumed of the
\* network.
Fairness == WF_vars(MainStep) /\ WF_vars(HeartbeatStep) /\ SF_vars(PeriodEnds)

Spec == Init /\ [][Next]_vars /\ Fairness

-----------------------------------------------------------------------------
(* Properties. *)

Leaving == {"store", "notify", "free", "store again", "notify again", "join", "done"}

\* Types; the connection is freed only on the way out of the loop; mtx_sender_
\* is held only by a thread that closes after a failed send.
TypeOK ==
  /\ transport \in {"tcp", "udp"}
  /\ pc \in [Threads -> Main \cup Heartbeat]
  /\ pc["main"] \in Main /\ pc["heartbeat"] \in Heartbeat
  /\ back \in {"dispatch", "dispose"}
  /\ connection \in {"none", "live", "freed"}
  /\ connection = "freed" => pc["main"] \in Leaving
  /\ {bev_, sin_, subscriber_stopped_, notified, own_close, overlapped, held} \subseteq BOOLEAN
  /\ mtx_sender_ \in Threads \cup {"free"}
  /\ mtx_sender_ \in Threads => pc[mtx_sender_] \in {"close", "shut down", "close fd"}
  /\ fd \in Descriptor
  /\ session \in {"none", "sent", "accepted"}
  /\ fate \in {"running", "killed", "undefined"}
  /\ stat_ \in StatType
  /\ skew \in Skews /\ delays \in Seq(Delays)
  /\ closes \in Nat

\* The heartbeat thread, which takes no lock, uses a destroyed connection only
\* if dispose_connection came between its get_connection and the end of send_hb.
FreedUsedOnlyIfHeld == fate = "undefined" => held

\* eventcb has freed the connection and the bufferevent.
Disposed ==
  connection = "freed" /\ pc["main"] \in {"store again", "notify again", "join", "done"}

\* How often the descriptor, whose number may be another file's after the first time, is
\* closed.  close_connection, of which every failed send and every event is one call, closes
\* it once, and a second time only if both threads were inside it at once.  Each disposal by
\* eventcb closes it once more: bufferevent_free does what close_connection has done before.
ClosesAccountedFor ==
  /\ closes <= (IF overlapped THEN 2 ELSE 1) + (IF Disposed THEN 1 ELSE 0)
  /\ Disposed => closes >= 2

Least(s) == CHOOSE d \in {s[i] : i \in 1..Len(s)} : \A i \in 1..Len(s) : d <= s[i]

\* All raw latencies since the login reply are of one turn of the 16 bits.
SameTurn ==
  \A i, j \in 1..Len(delays) :
    (delays[i] + skew) \div LatencyMod = (delays[j] + skew) \div LatencyMod

\* "clock sync": after the login reply the latency reported is what the message
\* was under way longer than the fastest one before it, however far apart the
\* clocks are; only a message that is faster than all before it is reported with
\* the clocks' difference in it.  Over TCP no line of statistics but that of the
\* login reply itself is computed from an unset start time.
StatisticsMeasured ==
  /\ delays # <<>> /\ SameTurn =>
       LET n == Len(delays)
           before == SubSeq(delays, 1, n - 1)
       IN  stat_.last_msg_wire_latency_ =
             IF n = 1 \/ delays[n] < Least(before)
               THEN WireLatency(delays[n], skew)
               ELSE delays[n] - Least(before)
  /\ transport = "tcp" => stat_.unstarted_lines <= 1

\* Once the flag is set both threads end, although the notification may be lost.
EndsWhenStopped == subscriber_stopped_ ~> Ended

\* As long as the server is there, and the loop has not ended, heartbeats go to it,
\* over UDP to its address.
KeepsBeating ==
  <>[](fd = "up" /\ fate = "running" /\ ~subscriber_stopped_)
    => []<>(pc["heartbeat"] = "send" /\ connection = "live" /\ (transport = "udp" => sin_))

\* The loop runs and waits for a descriptor that libevent cannot hear of again,
\* because the program closed it itself.
Deaf == pc["main"] = "dispatch" /\ fd = "closed" /\ own_close

\* If the server refuses or ends the connection the process ends, unless it had
\* closed the descriptor for a failed send or unreadable data before libevent saw
\* the end: then it stays, without a connection, for ever.
EndsWithoutServer == fd \in {"refused", "down"} ~> Ended \/ Deaf
=============================================================================
