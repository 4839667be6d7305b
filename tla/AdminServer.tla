---------------------------- MODULE AdminServer ----------------------------
(***************************************************************************)
(* The admin conversation: admin clients that connect to the admin server, *)
(* log in, and type one command after the other, each answered by messages *)
(* of every kind and then by the menu that lets the client type the next.  *)
(*                                                                         *)
(* The server has one slot for the connection object.  Its event loop runs *)
(* one callback at a time: a handler, with the messages it sends, is one   *)
(* step.  The wires carry whole messages; what of them can be read is what *)
(* module Records says.  The kernel takes what is sent or fails; that it   *)
(* may refuse it for now is in TcpSocketQueue.                             *)
(***************************************************************************)
EXTENDS Records

CONSTANTS
  Clients,
  NoClient,
  Lines        \* per client, what is typed: a command's letter and its parameters

\* What a line is made of: the letter of a command, and strings.
Letters == {"s", "t", "u", "n", "b", "l"}
Strings == [txt : STRING, len : Nat, num : Int]

ASSUME AdminAssumption ==
  /\ NoClient \notin Clients
  /\ \A c \in Clients : \A line \in Lines[c] : line.cmd \in Letters /\ line.params \in Seq(Strings)

\* At the info level the server logs each symbol, through the buffer of Logs.
ASSUME SymbolsAssumption ==
  \A c \in Clients : \A line \in Lines[c] :
    line.cmd = "s" => \A k \in 1..Len(line.params) : line.params[k].len < 256

VARIABLES
  client,      \* per client: "off", "waiting", "prompted", "gone", "lost" (framing is lost, or its
               \* stack is overwritten: it does not go on with the conversation)
  mirror,      \* per client: symbol -> lengths of the reference strings it was sent
  toServer,
  toClient,
  bev,         \* per client, at the server: "none", "backlog", "open", "closed"
  slot,        \* whose object reg.c_ is, and admin_publisher.c_ with it
  snapshot_,   \* its reference table: symbol -> field -> length of the string
  takenOver,   \* history: a connection was accepted while another was open
  undefined,   \* a callback of a destroyed object has run
  overrun      \* the server has written past the end of the buffer a line is logged through

vars == <<client, mirror, toServer, toClient, bev, slot, snapshot_, takenOver, undefined, overrun>>
wires == <<toServer, toClient>>
server == <<bev, slot, snapshot_, takenOver, undefined, overrun>>

-----------------------------------------------------------------------------
(* Messages of the conversation. *)

LoginMsg ==
  [type |-> "login", data |-> <<1, Str("user", 4), Str("user-token_1", 12), <<>>>>]

LoginReplyMsg ==
  [type |-> "login_reply", data |-> <<0, 1, Str("accepted", 8), <<>>>>]

\* The lengths are those of the seven texts of the menu.
MenuMsg ==
  LET lens == <<14, 54, 54, 20, 21, 23, 16>>
  IN [type |-> "interactive_menu",
      data |-> <<[k \in 1..7 |-> [idx |-> k, val |-> Str("option", lens[k])]]>>]

TextMsg(s) == [type |-> "text", data |-> <<s>>]

VecMsg(type, ctx, num) == [type |-> type, data |-> <<ctx, AddNums(num)>>]

Request(line) ==
  IF line.cmd = "s" THEN [type |-> "subscribe", data |-> <<line.params>>]
  ELSE [type |-> "command", data |-> <<line.cmd, Str("context", 7), line.params>>]

\* Values are tagged with the field they belong to.
MdDeltaMsg(s, ints, dbls) ==
  [type |-> "md_delta",
   data |-> <<s, [ints |-> Len(ints), dbls |-> Len(dbls), stamps |-> 1],
              ints, ints, dbls, dbls, <<0>>>>]

\* The deltas the builder publishes for num ints and then dnum doubles of s: a full
\* array is flushed when the next value comes, the rest at the end (see MdDeltaBuilder).
Deltas(s, num, dnum) ==
  LET Flushes(n, size) == IF n = 0 THEN 0 ELSE (n - 1) \div size
      Part(n, size, k) ==
        LET first == size * (k - 1)
            last == IF k < 1 THEN first ELSE IF size * k < n THEN size * k ELSE n
        IN [i \in 1..(IF last > first THEN last - first ELSE 0) |-> first + i]
      a == Flushes(num, INT_DELTA_SIZE)
      b == Flushes(dnum, DBL_DELTA_SIZE)
  IN [k \in 1..(a + b + 1) |->
        MdDeltaMsg(s, Part(num, INT_DELTA_SIZE, k), Part(dnum, DBL_DELTA_SIZE, k - a))]

-----------------------------------------------------------------------------
(* Reference data. *)

Fields == 0..29

\* Mutant: the limits are half of what they should be.
MutRegrown(len) == IF len + 2 > 40 THEN 5 ELSE len + 2

\* "+1" is appended, and a string of more than 80 characters is cut to 10.
Regrown(len) == IF len + 2 > 80 THEN 10 ELSE len + 2

\* A table with row v for symbol s.
Put(t, s, v) == [x \in DOMAIN t \cup {s} |-> IF x = s THEN v ELSE t[x]]

\* A new symbol has "<symbol>ref string #<i>" in field i.
RegenerateOne(t, s) ==
  IF s \in DOMAIN t THEN Put(t, s, [i \in Fields |-> Regrown(t[s][i])])
  ELSE Put(t, s, [i \in Fields |-> s.len + 12 + (IF i < 10 THEN 1 ELSE 2)])

\* regenerate_ref_data: a symbol given twice is regenerated twice.
Regenerated(t, symbols) == Fold(RegenerateOne, t, symbols)

MdRefMsg(t, s) ==
  [type |-> "md_refference",
   data |-> <<s, Fields, Fields, Fields, [i \in Fields |-> i], [i \in Fields |-> i],
              [i \in Fields |-> Str("ref string", t[s][i])]>>]

\* Mutant: only the first symbol's data is sent.
MutSnapshot(t, symbols) == <<MdRefMsg(t, symbols[1])>>

\* send_snapshot
Snapshot(t, symbols) == [k \in 1..Len(symbols) |-> MdRefMsg(t, symbols[k])]

-----------------------------------------------------------------------------
(* What the server's handlers send, in order.  t is the table after the request. *)

OnLoginMsg == <<LoginReplyMsg, MenuMsg>>

\* Mutant: the menu is sent after the snapshot, and again at the end.
MutOnSubscribeMsg(symbols, t) ==
  IF symbols = <<>> THEN <<MenuMsg>>
  ELSE Snapshot(t, symbols) \o <<TextMsg(Str("Snapshot sent", 13)), MenuMsg>>
         \o Concat([k \in 1..Len(symbols) |-> Deltas(symbols[k], 20, 20)])
         \o <<TextMsg(Str("Delta sent", 10)), MenuMsg>>

OnSubscribeMsg(symbols, t) ==
  IF symbols = <<>> THEN <<MenuMsg>>
  ELSE Snapshot(t, symbols) \o <<TextMsg(Str("Snapshot sent", 13))>>
         \o Concat([k \in 1..Len(symbols) |-> Deltas(symbols[k], 20, 20)])
         \o <<TextMsg(Str("Delta sent", 10)), MenuMsg>>

\* join: the parameters with a space between them.
Join(params) ==
  IF params = <<>> THEN Str("", 0)
  ELSE Str("joined", Total([k \in 1..Len(params) |-> params[k].len]) + Len(params) - 1)

\* The deltas of cmd_req_updates: so many of TEST, at least one, ints unless the type says otherwise.
Updates(params) ==
  LET num == IF params[1].num = 0 THEN 1 ELSE U16(params[1].num)
      dtype == IF Len(params) > 1 /\ params[2].len > 0 THEN params[2].txt ELSE "i"
      TEST == Str("TEST", 4)
  IN CASE dtype = "i" -> Deltas(TEST, num, 0)
       [] dtype = "l" -> Deltas(TEST, 0, num)
       [] dtype = "s" -> Deltas(TEST, 0, 0)
       [] OTHER -> <<>>

\* Mutant: a command without its parameters is not answered.
MutOnCommandMsg(cmd, ctx, params) ==
  IF cmd = "t" THEN <<TextMsg(Join(params)), MenuMsg>>
  ELSE IF params = <<>> THEN <<>>
  ELSE CASE cmd = "u" -> Updates(params) \o <<MenuMsg>>
         [] cmd = "n" -> <<VecMsg("intvec", ctx, params[1].num), MenuMsg>>
         [] cmd = "b" -> <<VecMsg("bytevec", ctx, params[1].num), MenuMsg>>
         [] cmd = "l" -> <<VecMsg("doublevec", ctx, params[1].num), MenuMsg>>

OnCommandMsg(cmd, ctx, params) ==
  (IF cmd = "t" THEN <<TextMsg(Join(params))>>
   ELSE IF params = <<>> THEN <<>>
   ELSE CASE cmd = "u" -> Updates(params)
          [] cmd = "n" -> <<VecMsg("intvec", ctx, params[1].num)>>
          [] cmd = "b" -> <<VecMsg("bytevec", ctx, params[1].num)>>
          [] cmd = "l" -> <<VecMsg("doublevec", ctx, params[1].num)>>)
    \o <<MenuMsg>>

-----------------------------------------------------------------------------
(* The log.  A line is formatted into a buffer of 256 characters, whatever its length. *)

Logs(len) == len < 256

\* "on-command [%c] [%s] [%s]"
RequestLogged(m) ==
  m.type = "command" => Logs(20 + m.data[2].len + Join(m.data[3]).len)

NumDigits(n) == IF n < 10 THEN 1 ELSE IF n < 100 THEN 2 ELSE IF n < 1000 THEN 3 ELSE IF n < 10000 THEN 4 ELSE 5

\* "on-text [%s] wire-latency: %d [%d]", and the same of a symbol after "md" and "mdd": what is
\* echoed, the latency, of so many digits, and the announced length.  The other messages
\* are logged in short lines.
AnswerLogged(m, len, digits) ==
  m.type \in {"text", "md_refference", "md_delta"} =>
    LET prefix == [text |-> 9, md_refference |-> 3, md_delta |-> 4]
    IN Logs(prefix[m.type] + m.data[1].len + 19 + digits + NumDigits(len))

-----------------------------------------------------------------------------
Init ==
  /\ client = [c \in Clients |-> "off"]
  /\ mirror = [c \in Clients |-> <<>>]
  /\ toServer = [c \in Clients |-> <<>>]
  /\ toClient = [c \in Clients |-> <<>>]
  /\ bev = [c \in Clients |-> "none"]
  /\ slot = NoClient
  /\ snapshot_ = <<>>
  /\ takenOver = FALSE
  /\ undefined = FALSE
  /\ overrun = FALSE

(* The client. *)

\* run_tcp_connector and on_connected.
Connect(c) ==
  /\ client[c] = "off"
  /\ client' = [client EXCEPT ![c] = "waiting"]
  /\ toServer' = [toServer EXCEPT ![c] = <<LoginMsg>>]
  /\ bev' = [bev EXCEPT ![c] = "backlog"]
  /\ UNCHANGED <<mirror, toClient, slot, snapshot_, takenOver, undefined, overrun>>

\* on_menu_msg goes on when a line was typed; sending it may fail.
Type(c, line) ==
  /\ client[c] = "prompted"
  /\ \/ /\ toServer' = [toServer EXCEPT ![c] = Append(@, Request(line))]
        /\ client' = [client EXCEPT ![c] = "waiting"]
        /\ UNCHANGED toClient
     \/ /\ client' = [client EXCEPT ![c] = "gone"]
        /\ toClient' = [toClient EXCEPT ![c] = <<>>]
        /\ UNCHANGED toServer
  /\ UNCHANGED <<mirror, server>>

Hear(c, m) ==
  /\ toClient' = [toClient EXCEPT ![c] = Tail(@)]
  /\ client' = [client EXCEPT ![c] = IF m.type = "interactive_menu" THEN "prompted" ELSE @]
  /\ mirror' = IF m.type = "md_refference"
       THEN [mirror EXCEPT ![c] = Put(@, m.data[1], [i \in m.data[4] |-> m.data[7][i].len])]
       ELSE mirror

\* The conversation is over for this client, whether its process goes on or not.
Derailed(c) ==
  /\ \E outcome \in {"lost", "gone"} : client' = [client EXCEPT ![c] = outcome]
  /\ toClient' = [toClient EXCEPT ![c] = <<>>]
  /\ UNCHANGED mirror

\* A record cut short is completed with the bytes that follow, and no header is found after it.
Misread(c) == Len(toClient[c]) > 1 /\ Derailed(c)

\* A handler logs what it is called for; if the line is too long it overwrites its stack.
Handled(c, m, len) ==
  \/ AnswerLogged(m, len, 1) /\ Hear(c, m)
  \/ ~ AnswerLogged(m, len, 5) /\ Derailed(c)

ClientReads(c) ==
  /\ client[c] = "waiting" /\ toClient[c] # <<>>
  /\ LET m == Head(toClient[c])
         ar == Archive(m)
         r == Load(ar)
     IN IF ~ Complete(ar) THEN Misread(c)
        ELSE IF r.valid THEN Handled(c, [m EXCEPT !.data = r.data], ar.header.len)
        ELSE /\ client' = [client EXCEPT ![c] = "gone"]
             /\ toClient' = [toClient EXCEPT ![c] = <<>>]
             /\ UNCHANGED mirror
  /\ UNCHANGED <<toServer, server>>

\* The server closed.  A client that is prompted waits in getline and sees no event.
ClientEvent(c) ==
  /\ client[c] \in {"waiting", "lost"} /\ bev[c] = "closed"
  /\ client' = [client EXCEPT ![c] = "gone"]
  /\ toClient' = [toClient EXCEPT ![c] = <<>>]
  /\ UNCHANGED <<mirror, toServer, server>>

\* cmd_quit, or the process is ended.
Leave(c) ==
  /\ client[c] \in {"waiting", "prompted", "lost"}
  /\ client' = [client EXCEPT ![c] = "gone"]
  /\ toClient' = [toClient EXCEPT ![c] = <<>>]
  /\ UNCHANGED <<mirror, toServer, server>>

\* It is started again when nothing is left of its last connection.
Relaunch(c) ==
  /\ client[c] = "gone" /\ bev[c] \in {"none", "closed"}
  /\ client' = [client EXCEPT ![c] = "off"]
  /\ bev' = [bev EXCEPT ![c] = "none"]
  /\ mirror' = [mirror EXCEPT ![c] = <<>>]
  /\ toServer' = [toServer EXCEPT ![c] = <<>>]
  /\ UNCHANGED <<toClient, slot, snapshot_, takenOver, undefined, overrun>>

(* The server. *)

\* What the server does after undefined behaviour is not modelled.
Defined == ~ undefined /\ ~ overrun

\* listener_cb: the new object replaces the one in the slot, even one whose events still come.
Accept(c) ==
  /\ bev[c] = "backlog" /\ Defined
  /\ bev' = [bev EXCEPT ![c] = "open"]
  /\ takenOver' = (takenOver \/ \E d \in Clients : slot = d /\ bev[d] = "open")
  /\ slot' = c
  /\ snapshot_' = <<>>
  /\ UNCHANGED <<client, mirror, wires, undefined, overrun>>

\* libevent calls back with the object c's connection was accepted with.
CallbackOf(c) == bev[c] = "open" /\ Defined

Dangling(c) ==
  /\ CallbackOf(c) /\ slot # c
  /\ toServer[c] # <<>> \/ client[c] = "gone"
  /\ undefined' = TRUE
  /\ UNCHANGED <<client, mirror, wires, bev, slot, snapshot_, takenOver, overrun>>

\* Mutant: the connection stays open when a message cannot be sent.
MutAnswer(c, msgs) ==
  /\ \E n \in 0..Len(msgs) :
       toClient' = [toClient EXCEPT ![c] =
                      IF client[c] = "gone" THEN <<>> ELSE @ \o SubSeq(msgs, 1, n)]
  /\ UNCHANGED bev

\* The handler sends all of msgs, or fails after the first n and closes the connection.
Answer(c, msgs) ==
  \E n \in 0..Len(msgs) :
    /\ toClient' = [toClient EXCEPT ![c] =
                      IF client[c] = "gone" THEN <<>> ELSE @ \o SubSeq(msgs, 1, n)]
    /\ bev' = [bev EXCEPT ![c] = IF n = Len(msgs) THEN "open" ELSE "closed"]

\* readcb: the connection is closed; the object stays.
ReadFails(c) ==
  /\ bev' = [bev EXCEPT ![c] = "closed"]
  /\ UNCHANGED <<slot, toClient, snapshot_>>

Handle(c, m) ==
  LET d == m.data IN
  CASE m.type = "login" -> Answer(c, OnLoginMsg) /\ UNCHANGED <<slot, snapshot_>>
    [] m.type = "subscribe" ->
         /\ snapshot_' = Regenerated(snapshot_, d[1])
         /\ Answer(c, OnSubscribeMsg(d[1], snapshot_'))
         /\ UNCHANGED slot
    [] m.type = "command" ->
         Answer(c, OnCommandMsg(d[1], d[2], d[3])) /\ UNCHANGED <<slot, snapshot_>>

ServerReads(c) ==
  /\ CallbackOf(c) /\ slot = c
  /\ toServer[c] # <<>>
  /\ LET m == Head(toServer[c])
         ar == Archive(m)
         r == Load(ar)
     IN /\ Complete(ar)
        /\ IF r.valid
           THEN RequestLogged([m EXCEPT !.data = r.data]) /\ Handle(c, [m EXCEPT !.data = r.data])
           ELSE ReadFails(c)
  /\ toServer' = [toServer EXCEPT ![c] = Tail(@)]
  /\ UNCHANGED <<client, mirror, takenOver, undefined, overrun>>

\* The line that logs the command is too long: the handler overwrites its stack.
ServerOverruns(c) ==
  /\ CallbackOf(c) /\ slot = c
  /\ toServer[c] # <<>>
  /\ LET m == Head(toServer[c])
         ar == Archive(m)
         r == Load(ar)
     IN Complete(ar) /\ r.valid /\ ~ RequestLogged([m EXCEPT !.data = r.data])
  /\ overrun' = TRUE
  /\ toServer' = [toServer EXCEPT ![c] = Tail(@)]
  /\ UNCHANGED <<client, mirror, toClient, bev, slot, snapshot_, takenOver, undefined>>

\* Mutant: the bufferevent is not freed with the object.
MutServerEvent(c) ==
  /\ CallbackOf(c) /\ slot = c
  /\ client[c] = "gone"
  /\ slot' = NoClient
  /\ snapshot_' = <<>>
  /\ UNCHANGED <<client, mirror, wires, bev, takenOver, undefined, overrun>>

\* eventcb at the end of the connection: closed, disposed of, freed.
ServerEvent(c) ==
  /\ CallbackOf(c) /\ slot = c
  /\ client[c] = "gone"
  /\ bev' = [bev EXCEPT ![c] = "none"]
  /\ slot' = NoClient
  /\ snapshot_' = <<>>
  /\ toServer' = [toServer EXCEPT ![c] = <<>>]
  /\ UNCHANGED <<client, mirror, toClient, takenOver, undefined, overrun>>

Next ==
  \E c \in Clients :
    \/ Connect(c)
    \/ \E line \in Lines[c] : Type(c, line)
    \/ ClientReads(c)
    \/ ClientEvent(c)
    \/ Leave(c)
    \/ Relaunch(c)
    \/ Accept(c)
    \/ Dangling(c)
    \/ ServerReads(c)
    \/ ServerOverruns(c)
    \/ ServerEvent(c)

Spec == Init /\ [][Next]_vars

\* The requests that never arrive whole.
NeverWhole == {m \in {Request(line) : line \in UNION {Lines[c] : c \in Clients}} : ~ Fits(m)}

\* A step that takes a whole request off the wire: ServerReads or ServerOverruns.  Written by its
\* effect, because TLC is slow to tell whether reading a record is enabled.
TakesRequest(c) ==
  /\ CallbackOf(c) /\ slot = c
  /\ toServer[c] # <<>> /\ Head(toServer[c]) \notin NeverWhole
  /\ toServer' = [toServer EXCEPT ![c] = Tail(@)]

\* A step that takes an answer: ClientReads.  Only reference data may be cut short, and with
\* something behind it that is read too.
TakesAnswer(c) ==
  /\ client[c] = "waiting" /\ toClient[c] # <<>>
  /\ Head(toClient[c]).type # "md_refference" \/ Len(toClient[c]) > 1
  /\ \E rest \in {Tail(toClient[c]), <<>>} : toClient' = [toClient EXCEPT ![c] = rest]

\* The event loops of the server and of the clients call back for what has come.
Fairness ==
  \A c \in Clients :
    /\ WF_vars(Accept(c))
    /\ WF_vars(Dangling(c))
    /\ WF_toServer(TakesRequest(c))
    /\ WF_toClient(TakesAnswer(c))
    /\ WF_vars(ClientEvent(c))

LiveSpec == Spec /\ Fairness

-----------------------------------------------------------------------------
\* What the theorems suppose of what is typed, since getline takes lines of any length.  The
\* length of a request is announced in 16 bits: either it does not wrap around, or what is left
\* of it announces more than the buffer passes on.
SizesAnnounced ==
  \A c \in Clients : \A line \in Lines[c] :
    WireSize(Request(line)) < HDR_LEN + 65536 \/ CutShort(Request(line))

\* The first string of a symbol has up to 14 characters more than the symbol.
ShortSymbols ==
  \A c \in Clients : \A line \in Lines[c] :
    line.cmd = "s" => \A k \in 1..Len(line.params) : line.params[k].len <= 66

\* Types; the strings of the reference table have 10 to 80 characters (ShortSymbols).
TypeOK ==
  /\ client \in [Clients -> {"off", "waiting", "prompted", "lost", "gone"}]
  /\ bev \in [Clients -> {"none", "backlog", "open", "closed"}]
  /\ slot \in Clients \cup {NoClient}
  /\ \A s \in DOMAIN snapshot_ : snapshot_[s] \in [Fields -> 10..80]
  /\ takenOver \in BOOLEAN /\ undefined \in BOOLEAN /\ overrun \in BOOLEAN

\* calc_len, operator<< and operator>> agree for every message of the conversation: it is read
\* back as it was sent if it fits the buffer, and otherwise never passes for a complete record.
WholeOrCutShort ==
  \A c \in Clients : \A wire \in {toServer[c], toClient[c]} :
    wire # <<>> => IF Fits(Head(wire)) THEN ReadsBack(Head(wire)) ELSE CutShort(Head(wire))

\* Requests and answers alternate: a client is asked for a command only when everything it
\* asked for has arrived, and a request is never behind another or behind answers.
OneRequestAtATime ==
  \A c \in Clients :
    /\ client[c] = "prompted" => toServer[c] = <<>> /\ toClient[c] = <<>>
    /\ client[c] = "waiting" /\ toServer[c] # <<>> => Len(toServer[c]) = 1 /\ toClient[c] = <<>>

\* When a client is asked for a command, its copy of the reference data is the server's.
SnapshotMirrored ==
  \A c \in Clients :
    client[c] = "prompted" /\ slot = c /\ bev[c] = "open" => mirror[c] = snapshot_

\* Callbacks reach destroyed objects only if a connection was accepted while one was open.
DanglingOnlyAfterTakeOver == undefined => takenOver

\* A request the server has read is answered to the end: while its client waits, answers that
\* end with the menu are on their way to it, or the connection is closed, or logging the request
\* has overrun the buffer.  (A request cut short is never read, and stays in toServer.)
ReadRequestAnswered ==
  \A c \in Clients :
    client[c] = "waiting" /\ toServer[c] = <<>> =>
      \/ toClient[c] # <<>> /\ Last(toClient[c]) = MenuMsg
      \/ bev[c] = "closed"
      \/ overrun

\* Its request is cut short: the server waits for the rest of it, the client for the menu.
WaitsForRest(c) == toServer[c] # <<>> /\ Head(toServer[c]) \in NeverWhole

\* A client does not wait for ever: it is asked for its next command, or hears that the
\* connection is closed, or loses the conversation to an answer it cannot read or log, unless
\* its request was cut short or the server's behaviour is undefined.
WaitingEnds ==
  \A c \in Clients :
    client[c] = "waiting" ~> client[c] # "waiting" \/ WaitsForRest(c) \/ ~ Defined

\* "ARCHIVE_BUFF_CAPACITY - max size of one packet": what the server answers fits one.
FitsOnePacket == \A c \in Clients : \A m \in ToSet(toClient[c]) : Fits(m)
=============================================================================
