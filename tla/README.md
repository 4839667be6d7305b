# DataSpinner in TLA+

DataSpinner spins market data: a publisher process generates *deltas* (arrays of
integers and doubles for a symbol) and sends them to subscriber processes over TCP,
UDP or Fast DDS; an admin process can ask a publisher for generated deltas or for its
reference data. This directory holds TLA+ modules of the parts that keep state and
interact, the TLC runs that check them, and proofs about all of them.
`PROJECT.json` lists components, runs, mutants, theorems, findings and hazards, and for
each definition the source lines it models.

To check: `tlc -config MCTcpSocketQueue.cfg MCTcpSocketQueue` (likewise for the other
`MC*` modules), `tlapm TcpConnectionProofs.tla` (likewise for the other `*Proofs`
modules). Paths below are relative to `src/src/`.

## 1. The system

| Component | State | Operations | Interacts with |
|---|---|---|---|
| TCP outbound queue (`socket_buffer.*`, `TcpConnection::send_message`) | deque of unsent records, throttle flag, session index, the `bufferevent` | send, flush, queue, drop, throttle, close | called by every thread that sends; closed by any thread |
| TCP connection (`tcp_connection.*`) | the reader's session index and evbuffer; the factory's single connection | frame, archive, read, check for gaps, listen, connect, close, dispose | libevent callbacks; the users' `MessageHandler` |
| TCP publisher (`tcp_publisher.cpp`) | `DeltaDispatcher`: map of connections, their symbols, last heartbeat, tick count | accept, login, subscribe, heartbeat, dispose; wait, publish, heartbeat check | event thread and publisher thread under `mtx_conn_`/`cv_conn_` |
| UDP publisher (`udp_publisher.cpp`, `udp_connection.*`) | map from address to session index, heartbeat time and tick count | bind, register, heartbeat, unregister; wait, publish, heartbeat check | the same two threads; an unreliable network |
| TCP/UDP subscribers (`*_subscriber.cpp`, `HB_SubscriberRunner`) | connection pointer and its `bev_`, stop flag | connect once, log in, subscribe, send heartbeats, read, stop | event thread, heartbeat thread, the publisher |
| DDS applications (`dds/mddelta*App.cxx`) | matched readers, stop flag, session index | wait for a match, write, take, stop | `run()` thread, DDS listener threads, signal handler |
| Delta builder and generators (`spinner_core/delta_builder.h`, `simulator.h`) | the delta being filled, two fill levels | begin, add, end; flush when full | driven by a generator, calls a publisher |
| Reference data (`simulator.cpp`, `ref_table.cpp`, `md_ref.cpp`) | table of `MdRef` | regenerate, look up, send a snapshot | admin server |
| Serialization (`archive.*`, `records.*`) | read and write position | calc_len, archive, read back | TCP and UDP |
| Admin server and client (`admin_*.cpp`) | one connection slot, the menu | subscribe, command | libevent |
| Metrics (`spinner_core_util.*`) | tick counts, throughput and latency statistics | next_tick_metric, next_hb_check, on_reader_progress | publishers, readers |
| Configuration, logging | values read once | load | everything |

### What is hard, and what makes each part correct

* **Outbound queue.** The kernel takes any part of a record, or refuses it; three marks
  (low water, high water, limit) interact over long sequences; `close_connection` takes no
  lock. Correct means: the bytes on the wire are whole records in order, what is lost was
  dropped whole and by the throttle, and the queue is bounded.
* **Connection.** Bytes arrive in pieces that have nothing to do with records; the archive's
  state is not looked at before sending; gaps are found from 32 bit indices alone. Correct
  means: what is read is what was sent, in order, and a gap is logged exactly where
  something was dropped.
* **Publishers.** Two threads share a map and a condition variable whose predicate is also
  tested outside the lock; a connection closes, times out or is disposed of while it is being
  published to; a failing send ends the loop. Correct means: no dangling pointer, no lost
  wake-up, publishing goes on, silent subscribers go, live ones are served and stay.
* **UDP.** Logins and heartbeats are lost, late, duplicated, or arrive after their sender has ended.
* **DDS.** Three kinds of threads, a `stop()` that notifies without the mutex, failing writes that use up an index.
* **Builder.** Two arrays with fill levels of their own, a flush that may fail, generators that
  do not look at results. Correct means: nothing stale, duplicated or misattributed is published.
* **Serialization.** The length a header announces is computed in 16 bits by code apart from that which
  writes the bytes, and nobody looks at the archive's state before sending. Correct means: a message
  that fits is read back as it was, one that does not never passes for a complete record.
* **Admin, reference data.** One connection slot for all clients; a conversation that goes on only if each path
  through each handler ends with the menu; reference data that grows with use; typed text that is logged through a
  buffer of 256 characters. Correct means: requests and answers alternate, a request that was read is answered up to
  the menu, the client has the data the server has.
* **Subscribers.** The heartbeat thread uses a raw connection pointer, the connection's `bev_` and its descriptor,
  while the event thread closes and frees them; a stop is notified without the mutex of the wait. Correct means:
  freed memory is used in no other window than the one the code leaves open, and a descriptor is closed by no one but
  those that can be named; heartbeats go on; when the server goes the program ends.
* **Statistics.** Differences of two machines' clocks cut to 16 bits, relative to a base that moves. Correct means:
  what is reported is how much longer a message took than the fastest one before it.

`PROJECT.json` lists these hazards one by one, each at its line, with the properties that cover it.

## 2. Modules

| Module | Models | Used by |
|---|---|---|
| `TcpSocketQueue` | `send_message`, `send_buffer`, `send_cache`, `add_to_cache`, `close_connection` | `MCTcpSocketQueue`, `TcpConnection` |
| `LossyStream` | abstract: what one direction of a connection promises | `TcpConnection` |
| `TcpConnection` | the queue composed with the kernel's byte stream and `read_connection_buffer` | `MCTcpConnection` |
| `TcpConnectionProofs` | theorems about the queue and the connection | |
| `TcpPublisher` | `tcp_publisher.cpp`, both threads | `MCTcpPublisher` |
| `TcpPublisherProofs` | theorems about the above | |
| `UdpPublisher` | `udp_publisher.cpp` and the UDP callbacks it runs in, both threads, the network | `MCUdpPublisher` |
| `UdpPublisherProofs` | theorems about the above | |
| `ReaderStat` | `WireReaderStat`: operators, no state | `Subscriber` |
| `Subscriber` | `tcp_subscriber.cpp` and `udp_subscriber.cpp`, both threads of either; `run_tcp_connector`, `close_connection` in its steps, `HB_SubscriberRunner` | `MCSubscriber` |
| `SubscriberProofs` | theorems about the above | |
| `DdsMdDelta` | the two DDS applications | `MCDdsMdDelta` |
| `DdsMdDeltaProofs` | theorems about the above | |
| `MdDeltaBuilder` | `MdDeltaBuilder` and the generators of `simulator.h` | `MCMdDeltaBuilder` |
| `MdDeltaBuilderProofs` | theorems about the above | |
| `Records` | `archive.*`, `records.*`, `calc_len`: operators, no state | `AdminServer` |
| `AdminServer` | `admin_connection.cpp`, `admin_client.cpp`, `SingleTcpConnectionFactory`, the reference table | `MCAdminServer` |
| `FoldTheorems` | what a loop over a sequence computes, for any operator; proofs only | `AdminServerProofs` |
| `AdminServerProofs` | theorems about `AdminServer`, and about what `Records` makes of each message | |

Variables carry the names of the members they model. Definitions named `Mut...` are not part of
any specification: each is a plausible bug in the operation it is named after, kept to show that
a property would notice it.

**TcpSocketQueue.** A record is its index, its length and its start position; the wire is a
sequence of bytes, each of which knows the record and the offset it came from, so that the
properties can tell an intact stream from a damaged one. One step is one `send(2)` and the
code that handles its result (`CacheFull`, `CachePartial`, `CacheWouldBlock`, `Direct...`,
`SendError`): `pc` says where the holder of `mtx_sender_` is, and `CloseConnection`, which
takes no lock, interleaves at each of these points. `Throttled` is both the decision of
`add_to_cache` and the new value of `throttle_on_`, as in the code.

**TcpConnection** EXTENDS it with `declared`, the lengths the headers announce, and with the
receiver, whose loop is one step per iteration. A message longer than `ARCHIVE_BUFF_CAPACITY` is
archived short of its declared length (`Archived`); the receiver then takes the start of the
next record for the rest of this one. Bytes that are no header may pass for one by chance
(`ReadGarbage`), because only the two bytes of the prefix are compared. `LossyStream` is what this is shown to
implement: `sent` counts the records the sender is done with, `pending` is the set of those begun on the wire and not
read (`Unread`) or queued with no byte written (`Unwritten`), `received` is the receiver's log; a discard needs a backlog.

**TcpPublisher.** The publisher holds `mtx_conn_` during `publish()`, one step per
`send_message`; critical sections of the event thread are single steps. `eventcb` closes the
connection in one step and disposes of it in another. `missed` is history: subscribers left out
when `publish()` returns early. Time is the pair of `HeartbeatLapses` and the tick count modulo
`stat_check_every_n_tick_`. The heartbeat check is two steps, as it reads two things: the clock (`SendSucceeds`) and the
time of the last heartbeat (`CheckHeartbeat`), which the event thread stores without the lock. `hb_delta` is what
their difference will be; a heartbeat stored in between may make it "negative" (`CrossCheck`), and as `size_t` huge.
`punctual` is history: who has logged in, has let no timeout pass and has had no heartbeat cross a check. Any send on an ended connection may raise
SIGPIPE; the process is then "killed".

**UdpPublisher.** The network is the set of logins ever sent: a login in it may arrive at any
time, any number of times or never. Heartbeats may come from anybody at any time. A login is
answered in one step and registered in another. `recvfrom` that fails leaves the address it
should have set uninitialized, so `RecvFails` unregisters *any* subscriber.

**Subscriber.** `transport` chooses the program. `pc` holds both threads; what they do to the connection is
split where the other thread can come between: `close_connection` is the test of `bev_`, the shutdown, and close
with the reset of `bev_`; `eventcb` is closing, disposing, stopping (store, notify) and freeing the bufferevent; `task_subscriber`
is the two tests of the flag, `get_connection`, and `send_hb`. `fd` is the descriptor as kernel and libevent see
it. `send(2)` has the outcomes `SendResults` lists, SIGPIPE among them. A use of the freed
connection makes `fate` "undefined". `closes` counts the calls of `close()` on the descriptor: those of `close_connection`, and the
one of `bufferevent_free`, because the bufferevent is made with `BEV_OPT_CLOSE_ON_FREE`. `held`, `overlapped`, `own_close` and `closes` are history and name the windows
the properties speak of. Messages are only what the statistics need: login reply or delta, and its delay.

**ReaderStat.** The latencies wrap at `LatencyMod` for 2^16. Of `stat_start_`, which has no initializer, the model keeps whether
it has been set; that a line is due is given, and certain at the first message.

**DdsMdDelta.** `run()` of both applications, the listener (which sets `matched_` under the lock
and notifies after releasing it) and `stop()` (two steps, no lock). Fast DDS is external: reliable
and in order, but a write may fail.

**MdDeltaBuilder.** A generator is the sequence of calls it makes; a value is the number of the
call that adds it, so that a stale or duplicated value can be told. Any flush may fail.

**Records.** A message is its type and its members; a string is a tag, its length and the number
`atoi` finds in it. `Stored` and `Loaded` list, message by message, what `operator<<` writes and `operator>>`
reads, each from its own function in the source. An archive is a sequence of *runs*, values of one kind and width written by
one `buffer_write` each; `Written` is how many of them still fit. `Archive` is `send_message` up to the
socket, `Complete` and `Load` are `read_connection_buffer`. Bytes that are not the values expected end the
reading; what garbage could be made of them is in `TcpConnection` (`ReadGarbage`).

**AdminServer.** The server's event loop runs one callback at a time, so a handler with all it sends is one step
(`ServerReads`), which may fail after any prefix of its messages (`Answer`). `slot` is `reg.c_`; accepting
replaces what is in it, and a callback of a connection whose object was replaced is a use of freed memory:
`undefined` is set and the server does nothing defined any more. Nor does it once `overrun` is set: `log()` formats a line
into 256 characters whatever its length (`Logs`), so a command whose parameters have more than 228 characters overwrites the
handler's stack (`RequestLogged`, `ServerOverruns`). The client logs what it is sent in the same way (`AnswerLogged`); how much
fits depends there on the digits of the latency, and a line that is too long ends its conversation (`Derailed`: it is "lost", or
"gone"). Symbols are logged too, at the info level, and are supposed to have less than 256 characters (`SymbolsAssumption`). The
client context is a configured string of 7 characters. The deltas of `Deltas` are those `MdDeltaBuilder` publishes. What is
sent is taken by the kernel or fails; that it may be queued is in `TcpSocketQueue`. `mirror` is history:
the reference data a client was sent, which the client only prints. The reuse of descriptor numbers is not modelled.

## 3. Runs, and what they show

| Run | Properties | Instance | What it shows |
|---|---|---|---|
| `tcp_queue` | `QueueBounded`, `StreamIntactUnlessRecut`, `EveryRecordAccounted` | 6 messages of 3 or 4 bytes, marks 2/2/5, 9 bytes on the wire before re-cuts stop | the queue is bounded and complete: every record is on the wire, queued, or was dropped whole; the stream is intact unless a record is cut short twice |
| `tcp_queue_recut` | `StreamIntact` (violated) | 3 messages of 3 bytes | finding 1 |
| `tcp_connection` | `CTypeOK`, `GarbledOnlyPastDamage`, `GapsExact`, `ImplementsLossyStream` | 4 messages of declared length 3, 4 or 6, buffer 3, header 2, index modulo 4 | sender, stream and receiver together implement a lossy FIFO stream; gaps are logged exactly where the throttle dropped; everything before the first oversized or damaged record is framed correctly |
| `tcp_publisher` | `TypeOK`, `NoDanglingConnection`, `PunctualStays`, `KeepsPublishing`, `NoZombieSubscriber` | 2 connections, symbols a, b spun and x not, check every 2nd tick | the two threads do not harm each other; publishing goes on; silent subscribers are closed; punctual ones are timed out only if a heartbeat crosses the check |
| `tcp_publisher_missed` | `NoDeltaMissed` (violated) | the same | finding 2 |
| `udp_publisher` | `TypeOK`, `StableWhilePublishing`, `IndexContinuous`, `KeepsPublishing`, `EverySubscriberServed`, `NoDeadSubscriber` | 2 addresses, 2 symbols, check every 2nd tick, index modulo 3 | the registry is not disturbed while it is published to, over a network that loses, delays, duplicates and reorders; live subscribers are served, dead ones go |
| `subscriber` | `TypeOK`, `FreedUsedOnlyIfHeld`, `ClosesAccountedFor`, `StatisticsMeasured`, `EndsWhenStopped`, `KeepsBeating`, `EndsWithoutServer` | both programs, 3 messages with delays 0, 1, 3, clocks 2, 6 or -2 apart, latencies modulo 8 | the two threads harm each other only in the windows named; who closes the descriptor, and how often; heartbeats go on, the program ends when the server does, latencies are measured right |
| `dds` | `TypeOK`, `NoLostMatch`, `GapsExact`, `KeepsWriting` | 2 readers, 3 recorded samples | a match is not missed; a gap is logged where a write failed and nowhere else (there are gaps: finding 5) |
| `dds_stop` | `StopsWhenAsked` (violated) | 1 reader | finding 3 |
| `delta_builder` | `TypeOK`, `PublishedFaithfully`, `NothingElseLost`, `AsManyAsNeeded` | arrays of 2 and 3, up to 5 values, all generators, one and two symbols | whatever publish fails, nothing stale, duplicated or misattributed is published, nothing but what was in the failed one is lost, and as few deltas as the values need |
| `admin_server` | `TypeOK`, `WholeOrCutShort`, `OneRequestAtATime`, `SnapshotMirrored`, `DanglingOnlyAfterTakeOver`, `ReadRequestAnswered`, `WaitingEnds` | 2 clients, the program's own sizes (2048, 200, 6, 18, 2), 29 command lines | every message of the conversation is read back or recognisably cut short; requests and answers alternate; a request that is read is answered up to the menu, or the connection closed, or the server's log buffer overrun; a client that waits is asked for the next command or its conversation ends, unless its request was cut short or the server is undefined; freed connections are called back only after a take-over |
| `admin_snapshot_packet` | `FitsOnePacket` (violated) | 1 client, one symbol | finding 4 |

**Why the bounds are enough.** The queue's behaviour depends on its length only relative to the
three marks, and on a record's length only through first, inner and last byte: with marks 2/2/5
and lengths 3 and 4 each branch of each comparison is taken, the throttle goes on, off and on
again, and partial writes of more than one byte in more than one place happen. `MaxWire` limits
how often a damaged record is re-cut, and that only: records are still written past it. In the
connection run 4 messages, of which those longer than the buffer are cut short, allow two that are read, one that is dropped between them and the index
to wrap modulo 4. In the publishers, two subscribers are what is needed for one to fail before the other;
two symbols for a publish to start with the other still subscribed; a check every 2nd tick
distinguishes a tick that checks from one that does not. UDP's index wraps modulo 3. In the subscriber, three messages are a login reply and two deltas, enough for the base of
the latencies to be set, kept and lowered; with the clocks 6 or -2 apart the raw latencies wrap between two messages, with 2 they do not. DDS writes for
ever, only the first three samples are recorded (a gap of one or two between two taken samples fits).
The builder's array sizes are different so that one is full while the other is not, and 5 values
fill each array to below, at and above its capacity. The admin runs use the program's own
sizes, except that `MdRef` has 32 instead of 1024 fields, of which 0 to 29 are used in either case; the command lines are those
at the limits: texts that just fit the log line of the server and just do not (228 and 229 characters), one that fits the client's only with a short latency (221), texts that just fit the packet, just do not and wrap in 16 bits, vectors of none, 200 and more, deltas below
and above a full array, symbols once and twice. A string of exactly 65536 characters, which is announced, written and read as an
empty one, is not among them. The second client only connects, subscribes to nothing and leaves: it is there to take
over the slot. No state constraint is used: every bound is a guard, or, for the admin conversation, the cut of
the reference strings at 80 characters.

**Fairness.** Liveness is checked under weak fairness of the publisher thread (`PublisherStep`),
which is a loop that the operating system schedules. Nothing is assumed of clients, of the network or of the event
thread: it competes for a mutex that the publisher gives up only to take it again, so the code does
not guarantee that it gets it. `TcpPublisher`'s promises hold as long as no signal kills the process.
In `Subscriber` both threads run on, libevent reports what happens to a descriptor as long as it is
open, and `PeriodEnds` is strongly fair: `wait_for` has one deadline for all its blockings, so spurious wake-ups do not put it off.
Nothing is assumed of the server: `KeepsBeating` is conditional on its being there.
In DDS, `run()` goes on and who has set a variable goes on to notify. `EverySubscriberServed` and
`NoDeadSubscriber` are conditional on `SendsSettle`, that from some time on no `sendto` fails:
without it they are false, because `publish_to_subscribed` returns at the first failure and forgets
whom it meant to unregister, so that one address that always fails starves those behind it.

In `AdminServer` the event loops of server and clients call back for what has come: a connection in the backlog is accepted, a
whole request is taken off the wire (`TakesRequest`; if its connection has lost the slot, with the freed object, `Dangling`), an answer too (`TakesAnswer`), a client that waits hears that the
connection is closed. Nothing is assumed of who types.

**Deadlock** is checked in every run but `delta_builder`, whose generator ends, and `admin_server`, where a
server whose behaviour is undefined may stop. Whether the conversation goes on is asked of `ReadRequestAnswered` and `WaitingEnds`,
and the answer has exceptions. A request that is cut short by the archive buffer (2019 characters and more) is never read: its
client waits for ever, for a server that waits for the rest. A client "lost" to a snapshot that was cut short reads on without
finding a header, until it is ended or the connection is; it does not count as waiting. After a take-over or an overrun of
the server's log buffer nothing is promised to anybody.

### Findings

1. `TcpSocketQueue::send_cache` (`socket_buffer.cpp:186`) sets the start of a partly sent record
   to the number of bytes the *last* `send()` took. If the record already had a start it must be added;
   bytes are repeated on the wire and the reader loses its framing. (`tcp_queue_recut`)
2. `DeltaDispatcher::publish` (`tcp_publisher.cpp:89`) returns at the first connection whose send
   fails; the others get no delta, and their session indices show no gap. (`tcp_publisher_missed`)
3. The DDS applications' `stop()` stores and notifies without the mutex of the wait; falling between
   the test and the block it is lost. (`dds_stop`)
4. `regenerate_ref_data` (`simulator.cpp:41`) lengthens 30 strings of a symbol at each subscription and cuts them only past 80
   characters: the 16th snapshot of a 4 character symbol does not fit the 2048 bytes that are the "max size of one
   packet", is sent short of its announced length, and the client loses its framing. (`admin_snapshot_packet`)
5. The DDS publisher's `publish` (`dds/mddeltaPublisherApp.cxx:187`) uses up a session index before a `write()` that may fail, and
   does not write the sample again (the retry is commented out): the subscriber logs a gap. `README.md:110` says
   "DDS also keeps packets in line without any gaps". In line they are; `GapsExact` says where the gaps are, and that there
   are no others. (`dds`)
6. `on_command_msg` (`admin_connection.cpp:66`) logs what was typed before it does anything with it, through the 256
   characters of `log()` (`spinner_core/spinner_core_util.cpp:102`): "Echo back text" is undefined for texts of more than 228 characters. The
   client overruns its own buffer with what is echoed from 224 characters on at the latest. The run has a text that just fits and one that just does not, which leads to
   `overrun`. (`admin_server`)

Seen while modelling, but not contradicting anything the program says of itself:

* Sending: the throttle drops records while `send_message` returns true; what is queued is flushed only by the next
  send on the connection, `writecb` being empty. (The drops show as gaps at the reader, `GapsExact`.)
* Signals: `send(2)` is called without `MSG_NOSIGNAL` and SIGPIPE is not ignored, so that a send on a connection the
  peer has reset may kill the process. `TcpPublisher` and `Subscriber` have it; elsewhere such a send just fails.
* The TCP publisher's heartbeat check subtracts an atomic that the event thread stores from a clock read earlier: a
  heartbeat that crosses it in a later second gives a negative age, huge as `size_t`, and the live subscriber is
  disconnected (`punctual` excludes it). UDP stores heartbeats under the lock. A clock that is set back does the same to both.
* The subscriber's heartbeat thread takes the connection's pointer, and the event thread may free it before the heartbeat is sent
  (`held`). Both may be inside `close_connection` and close the descriptor twice (`overlapped`). At every disposal by `eventcb`,
  with no overlap at all, `bufferevent_free` closes it once more after `close_connection` (`ClosesAccountedFor`). A descriptor closed by the program itself is not unregistered from libevent, which never reports anything
  about it again: the subscriber then stays, without a connection (`Deaf`).
* UDP: a heartbeat before `set_sin` goes to an unset address; a login that is lost is never repeated;
  `udp_connection.cpp:380` passes a `std::string` through an ellipsis.
* Statistics: a new least latency is reported with the clocks' difference in it, which goes into maximum and average;
  the line of statistics of the login reply itself uses `stat_start_` before it is set.
* Admin: a second client frees the connection object of the first (`DanglingOnlyAfterTakeOver` shows that nothing else
  leads there). `regenerate_ref_data` takes a double from the integer data (`simulator.cpp:30`).
* `send_generated_subtype_delta` calls `end()` once, after its loop over the symbols: with more than one symbol (it is
  called with one) only the last would be complete.

## 4. Proofs

Each proof starts from the named assumptions on the constants that the modules make, and nothing else; `DeltasAsNeeded` and
the last three of the admin server have hypotheses of their own. All the theorems' properties were model-checked before they were proved.
Every safety property has a theorem; those below `[](...)` of the same line follow from one inductive invariant, a lemma.

**Outbound queue.** The first part of `TcpConnectionProofs` proves, from `LensAssumption` (records have at least one byte),
`MarksAssumption` (`1 <= LowWater <= HighWater + 1 < QMax`, which the constants 10240, 716800 and
1024000 satisfy) and `BoundsAssumption`, for every set of lengths, all such marks and any
number of messages:

* `QueueTyped`: `Spec => []TypeOK` (a part of `CTypeOK`, which `tcp_connection` checks), and `QueueSafe`: `Spec => [](ThrottleHysteresis /\ QueueBounded)`.
* `ThrottledOnlyDrains`: `Spec => ThrottledQueueOnlyDrains`.
* `StreamSafe`: `Spec => [](WireInOrder /\ NoBegunRecordDropped /\ StreamIntactUnlessRecut)`.
* `NothingUnaccounted`: `Spec => []EveryRecordAccounted`.

`TypeOK` alone is not inductive: `Head(buffers_)` in `CacheFull` has a
type only if the queue is not empty. `PcInv` says so, and that a record is written directly only to an
empty queue. `QInv` adds the hysteresis and the bound; the bound makes the overflow branch of `add_to_cache`
dead, and is what `MarksAssumption` is for. For the stream, `SInv` adds how queue and wire relate:
indices increase along the queue and only the front record may have a start (`QueueOrder`); what is on the
wire precedes what is queued or being sent, the begun part of the front record excepted (`WireOrder`); a dropped
record is neither on the wire nor queued nor being sent (`DropInv`); and, unless a record was cut twice, the wire
ends exactly where the front record is to go on (`Edge`). `Intact` without `Edge` is not inductive: that
the next byte follows has to be known before it is written. `recut` in the antecedent is
needed because of finding 1: `CachePartial` of a record with a start breaks `Edge`. `AInv` is `QInv` and the account itself;
it needs neither order nor `Edge`, so it holds after re-cuts too: a write takes nothing off the wire, and
`add_to_cache` queues or drops the record it was given and no other.

**Connection.** `TcpConnectionProofs`, from the queue's assumptions and `FrameAssumption` (a header fits the archive,
a message is longer than its header, the index is at least two wide): `ConnectionTyped`, `GarbledExplained`
and `ReaderExact` are `CSpec => []CTypeOK`, `[]GarbledOnlyPastDamage` and `[]GapsExact`.
The sender's half is `WInv`, over the theorems of the queue: what is missing between records on the wire
was dropped (`Bridged`, which needs `EveryRecordAccounted` for the moment a new record follows the last), record 1 is never
dropped (`FirstKept`: it finds the queue empty, and the reader does not check the first index it reads), and from any byte on the bytes of its
record follow without interruption (`Runs`). The receiver's half is `CInv`: as long as nothing
oversized or damaged was read (`Sound`) the receiver stands at the end of the last record it read and remembers its index (`AtRecord`); records are as long as
the archive made them (`Fit`); and each record read came over the wire with the gap flag it should have (`ReadRight`). `GapsExact` is about
records whose index has not wrapped: one that has may be taken for the first, which is not checked.

`ConnectionImplements`: `CSpec => ImplementsLossyStream`. Initial states map to initial states, and each of the sender's
and the receiver's steps is mapped to one of `LossyStream` or to a stutter: a write of a record's first bytes moves it from `Unwritten` to `Unread`, which
does not change `Pending`; a record is `Received` when the reader has its header and all of its bytes; an oversized message, and a second cut, is `Corrupt`.
`RInv` adds to `CInv` what that takes: a record on the wire starts there with its first byte (`Begun`), and the receiver stands at a record's
end (`AtEnd`), so that the least of `Unread` is the next it reads. A drop has the backlog `Discard` asks for because the throttle drops
only behind `low_water_mark_` queued records, and every queued record is pending (`QueuedPending`): of one that was begun the end is not on the wire, so
the receiver has not come to its first byte.

**TCP publisher.** `TcpPublisherProofs`, for any connections, symbols and spun symbols (`PublisherAssumption`):
`DispatcherTyped`: `Spec => []TypeOK`; `DispatcherSafe`: `Spec => [](NoDanglingConnection /\ NoLostWakeup)`; `PunctualNotTimedOut`:
`Spec => []PunctualStays`. `TypeOK` relates `mtx_conn_` to the program
counter; `Locked` adds what that is worth: a list of connections, and a connection being checked, exist only inside
`publish()`, so that `DisposeConnection`, which needs the lock, finds none; and the publisher prepares to block only when the map
is empty, so that a connection entering it finds the publisher before its test or already blocked, where the notification
counts. That the *count* read there is the size of the map takes that the map is finite. `Timely` adds to `PunctualStays`
that a punctual subscriber's heartbeat is not stale before the check.

**UDP publisher.** `UdpPublisherProofs!RegistryTyped` and `RegistrySafe`: `Spec => []TypeOK` and `[](StableWhilePublishing /\ NoLostWakeup)` along the
same lines (`Locked`), whatever datagrams come and whichever reads fail; `IndicesContinuous`: `Spec => IndexContinuous`, the index of a
registration goes from one value to the next, from `TypeOK` and a look at every step.

**DDS.** `DdsMdDeltaProofs`: `DdsTyped`, `MatchNotSleptThrough` and `DdsGapsExact` are `Spec => []TypeOK`, `[]NoLostMatch` and `[]GapsExact`. The invariant has four parts:
`Publisher` (lock, matched readers and program counter), `Waiter` (the subscriber's thread), `Written` (the history of written
indices increases) and `Followed` (the reader's log is a stretch of that history, and the gap flags are differences of
neighbours). `DdsGapsExact` does not say that there are no gaps, and there are (finding 5). `GapsExact` speaks of all indices ever used; that between two neighbours of an increasing
sequence there is no third is what links the two.

**Subscribers.** `SubscriberProofs`: `SubscriberTyped`, `FreedUseExplained`, `ClosesExplained` and `LatenciesMeasured` are
`Spec => []TypeOK`, `[]FreedUsedOnlyIfHeld`, `[]ClosesAccountedFor` and `[]StatisticsMeasured`.
`Guarded`: a heartbeat thread inside a connection that is freed was there when it was freed, because
`GetConnection` gives no other. `Lifetime`: a connection is freed only on the way out of the loop, so that the event thread is never inside it.
How often the descriptor was closed is a function of `bev_`, of who is inside `close_connection`, and of whether they met (`InUse`),
until `bufferevent_free` adds one (`Closed`); that comes after a `close_connection` has ended (`Disposing`). `Sender`: who closes
after a failed send holds `mtx_sender_`. `ReaderType` is the type of the statistics, whose 16 bits never go out of range.
For what they measure, `Based` says which message `base_latency_` comes from, the fastest so far, and `Reported` what the last line said; as long as all raw
latencies are of one turn of the 16 bits (`OneTurn`) they compare as the delays do, whatever the clocks' difference. `LoginFirst`: over TCP no
message is read before the login reply, whose line of statistics is the only one that uses an unset start time.

**Builder.** `MdDeltaBuilderProofs`, from `BuilderAssumption` (arrays are not empty) and `ProgramsAssumption` (a
generator brackets its values: begin, values, end; all four do, but the one of `simulator.h:79` only if it is given one symbol):
`BuilderTyped`, `BuilderFaithful` and `LossesExplained` are `Spec => []TypeOK`, `[]PublishedFaithfully` and `[]NothingElseLost`. A call does one of four things to the parts of the arrays in use (`Begun`, `Taken`,
`Refused`, `Ended`), and the invariant is about these parts, not the arrays, which keep what earlier deltas left in them: values in use
are later than all published ones of their kind (`Ordered`), belong to the delta's symbol (`OwnersKnown`, which needs that the symbol is the one last begun
as long as only values followed, `Opened`), and with the published ones are all that was accepted (`KeptSinceBegin`, `NoneMissing`).

`DeltasAsNeeded`: `Spec => []AsManyAsNeeded`, under the hypothesis `Orderly` for every generator: integers are added before doubles, and each symbol once
(interleaved, a full array of either kind would flush the other half empty; `MCMdDeltaBuilder` has TLC check `Orderly` of the generators as they are called). `Progress` says,
in a block of i integers and d doubles, how many deltas were published and how full the arrays are: the values so far are that many arrays and
what is in use (`Packed`), first of the integers, then of the doubles.

**Admin server.** `AdminServerProofs`, from `AdminAssumption` (lines are made of command letters and strings with a length; `SymbolsAssumption`, that symbols can be logged, no proof uses), for any
clients and command lines. `DanglingExplained`: `Spec => []DanglingOnlyAfterTakeOver`. `OpenInSlot`: as
long as nothing was taken over, the open connection is the one in the slot, so that closing it empties the slot. `WireType` is needed because
the server's handler is a case over the types of requests.

`RequestsAndAnswersAlternate` and `ReadRequestsAnswered`: `Spec => []OneRequestAtATime` and `[]ReadRequestAnswered`. Both follow from `Turns`: what may be on a client's two
wires for each of its states, a menu only at the end of the answers. An overrun leaves a client waiting with nothing under way, and `overrun` is never reset (`OverrunStays`). That the server answers at all depends on what it *reads*: a
request may be cut short, or be read as something else. So the proof follows a request through `operator<<`, the bounded buffer and `operator>>`: what is
stored are runs of the kinds a request is made of (`SubscribePayload`, `CommandPayload`); writing as much as fits keeps that (`FoldWriteIn`); and what is read, if
the reading ends well, is again a command letter and strings (`SubscribeRead`, `CommandRead`), which every handler answers with messages that end with the menu
(`CommandAnswer`, `SubscribeAnswer`). `Fold` recurs over sequences of any length; the induction is had from `WFMin` and
`NatLessThanWellFounded`, as the least counterexample (`Induction`), and the chain of its results from a function built the same way (`Recursion`).

`WholeOrCutShortAlways`: `SizesAnnounced => (Spec => []WholeOrCutShort)`. Here the shape of what is read is not enough: it has to be the message itself. For each
of the messages the proof follows the members through the archive and back (`FieldRestored`: a field that was stored is read again, whatever is behind it and
was read before it; shown for numbers, strings, options, and vectors and arrays of them), adds up what they take (`Parts`), and compares that with `calc_len`,
whose 16 bits must hold it. A message of which all this holds is `Sound`. `WriteBuffered` says that after each run the buffer holds all runs so far or is marked invalid; so
a sound message that fits is read back (`ReadsBack`) and one that does not announces more than was sent (`CutShort`). `RequestFaithful` then shows it of what clients
send, and one lemma for each handler (`LoginHeard`, `SubscribeHeard`, `CommandHeard`, ...) of what the server answers. The inductive invariant is `WireType`, `Turns`, `Told` (what is on its
way to a client is sound) and `RowsIn` (each row of the reference table is short enough to be announced); the last is needed because a snapshot is as long as the strings of its rows, which every
subscription makes longer, and it follows from the symbol having been read out of a request that fit.

`SnapshotMirroredAlways`: `SizesAnnounced => (Spec => []SnapshotMirrored)`. `Copies` says that, for the client in the slot, whatever row of the table its copy lacks or has in
an older version is among the answers on their way, and that nothing else that carries reference data is: a second subscription, or a symbol named twice, regenerates rows, and both versions must
not be on their way at once. By `Turns` nothing is on its way when the client is asked for a command, so its copy is the table.

`TypeCorrect`: `SizesAnnounced /\ ShortSymbols => (Spec => []TypeOK)`. The 10 to 80 characters hold of new rows only for symbols of up to 66, and of
regenerated ones because `Regrown` cuts what grew past 80.

`SizesAssumption` bounds the sizes of buffer, vectors and deltas so that 16 bits can announce what the server builds; the program's
(2048, 200, 6 and 18) are within. `SizesAnnounced` cannot be dropped: nothing in the client limits a typed line, and one whose record has 65536 bytes behind its header announces 0,
so that after the cut at 2 KB the header alone passes for a complete record; `WholeOrCutShort` is false of it. `MCAdminServer` has TLC evaluate both hypotheses for
the lines it types, one of which (66000 characters) wraps around and announces less than it sends, but still more than the buffer passes on.

The loops are instances of `FoldTheorems` (one for each operator that is folded, since a theorem with an operator parameter cannot be used): `FoldChain` turns the fold into the
values of a function and `Induction` does the rest.

**Only model-checked:** liveness.
**Out of the prover's reach:** liveness under fairness (`KeepsPublishing`, `NoZombieSubscriber`, `EndsWhenStopped`, `WaitingEnds`, ...) and `ENABLED`.

## 5. Plan

The order is that of importance: what every message goes through first, then who sends and who receives,
then what is sent.

1. *(done)* Outbound queue, connection, `LossyStream`; TCP publisher; UDP publisher; DDS; builder; theorems of the queue.
2. *(done)* `AdminServer` and `Records`; `Subscriber` and `ReaderStat`.
3. *(done)* Theorems of both publishers, the subscribers, DDS, the connection, the builder and the admin server.
4. *(done)* The refinement of `LossyStream`; the admin conversation; the statistics; the number of deltas.
5. *(done)* `WholeOrCutShort`, by following the members of each message through the archive and back; from it `SnapshotMirrored`; `TypeOK` of `AdminServer`.
6. What remains: the admin conversation over `TcpSocketQueue`, so that answers are queued instead of taken by the kernel or failed.

## 6. Not modelled

* Code generated by fastddsgen (`dds/mddelta.hpp`, `mddelta*PubSubTypes.cxx`, ...): no logic of this program.
* Configuration, logging, command lines: read once or pure output, but for the length of what the admin programs log; the values configured are constants of the models.
* The throughput figures of `TickMetric`, `MetricsObserver` and `calc_reader_throughput`, which only feed the log; names,
  `debug_read_stream`, the printing publisher.
* Setting up listeners (`run_tcp_listener`): its callbacks are actions of `TcpPublisher` and `AdminServer`.
* The reuse of a descriptor's number after it was closed, so what a second close or a late send does to another file:
  `Subscriber` shows when it may happen, not what it hits.
* The reader's session index of the UDP subscriber, which only goes back in heartbeats, where nobody reads it.
* Byte order, and the archive's operators for maps and indexed data, which no message uses.
* Tests and benchmarks.
