-------------------------- MODULE SubscriberProofs --------------------------
(***************************************************************************)
(* Theorems about Subscriber, for all delays, all differences of the two   *)
(* clocks and any number of messages: what the two threads may do to the   *)
(* connection they share without a lock, and what they measure.            *)
(***************************************************************************)
EXTENDS Subscriber, SequenceTheorems, TLAPS

Locking == {"close", "shut down", "close fd"}
Closing(t) == pc[t] \in {"shut down", "close fd"}

\* A destroyed connection is inside a step of the heartbeat thread only if it
\* was when it was destroyed.
Guarded ==
  /\ connection = "freed" /\ InObject => held
  /\ fate = "undefined" => held

\* Before there is a connection nobody closes one; once it is destroyed the
\* event thread is on its way out.
Lifetime ==
  /\ connection = "none" =>
       /\ closes = 0 /\ ~InObject
       /\ pc["main"] \in {"connect", "create", "store again", "notify again", "join", "done"}
  /\ pc["main"] \in {"connect", "create"} => connection = "none"
  /\ connection = "freed" => pc["main"] \in Leaving

\* A thread is between the test of bev_ and its reset with bev_ still set, or the
\* other one was there too and has closed.
InUse ==
  /\ closes \in {0, 1} \/ (closes = 2 /\ overlapped)
  /\ bev_ => closes = 0
  /\ Closing("main") /\ Closing("heartbeat") => overlapped /\ bev_
  /\ Closing("main") \/ Closing("heartbeat") => bev_ \/ (closes = 1 /\ overlapped)

\* When the bufferevent is freed there is one more.
Closed ==
  /\ ~Disposed => InUse
  /\ Disposed => closes \in {2, 3} /\ (closes = 3 => overlapped)

\* eventcb disposes of a connection only when its descriptor has been closed.
Disposing ==
  /\ back = "dispose" => transport = "tcp"
  /\ transport = "tcp" /\ connection # "none" /\ ~bev_ => closes # 0
  /\ pc["main"] \in {"dispose", "store", "notify", "free"} => closes # 0
  /\ pc["main"] \in {"store", "notify", "free"} => connection = "freed"

\* Only a thread that closes after a failed send holds mtx_sender_.
Sender ==
  /\ mtx_sender_ \in {"main", "heartbeat", "free"}
  /\ mtx_sender_ = "main" => pc["main"] \in Locking
  /\ mtx_sender_ = "heartbeat" => pc["heartbeat"] \in Locking

PcType ==
  /\ pc \in [Threads -> Main \cup Heartbeat]
  /\ pc["main"] \in Main /\ pc["heartbeat"] \in Heartbeat
  /\ back \in {"dispatch", "dispose"}

Flags ==
  /\ bev_ \in BOOLEAN /\ sin_ \in BOOLEAN
  /\ subscriber_stopped_ \in BOOLEAN /\ notified \in BOOLEAN
  /\ own_close \in BOOLEAN /\ overlapped \in BOOLEAN /\ held \in BOOLEAN

Enumerations ==
  /\ transport \in {"tcp", "udp"}
  /\ connection \in {"none", "live", "freed"}
  /\ fd \in Descriptor
  /\ session \in {"none", "sent", "accepted"}
  /\ fate \in {"running", "killed", "undefined"}

ReaderType == stat_ \in StatType /\ skew \in Skews /\ delays \in Seq(Delays)

CInv == PcType /\ Flags /\ Enumerations /\ Guarded /\ Lifetime /\ Closed /\ Disposing /\ Sender

LEMMA CInvTypeOK == CInv /\ ReaderType => TypeOK
<1> SUFFICES ASSUME CInv, ReaderType PROVE TypeOK
  OBVIOUS
<1>1. closes \in Nat
  BY DEF CInv, Closed, InUse
<1>2. {bev_, sin_, subscriber_stopped_, notified, own_close, overlapped, held} \subseteq BOOLEAN
  BY DEF CInv, Flags
<1>3. /\ mtx_sender_ \in Threads \cup {"free"}
      /\ mtx_sender_ \in Threads => pc[mtx_sender_] \in {"close", "shut down", "close fd"}
  BY DEF CInv, Sender, Threads, Locking
<1>4. connection = "freed" => pc["main"] \in Leaving
  BY DEF CInv, Lifetime
<1> QED
  BY <1>1, <1>2, <1>3, <1>4 DEF CInv, ReaderType, TypeOK, PcType, Enumerations

LEMMA CInvClosed == CInv => FreedUsedOnlyIfHeld /\ ClosesAccountedFor
<1> SUFFICES ASSUME CInv PROVE FreedUsedOnlyIfHeld /\ ClosesAccountedFor
  OBVIOUS
<1>1. /\ ~Disposed => closes \in {0, 1, 2} /\ (closes = 2 => overlapped)
      /\ Disposed => closes \in {2, 3} /\ (closes = 3 => overlapped)
  BY DEF CInv, Closed, InUse
<1>2. fate = "undefined" => held
  BY DEF CInv, Guarded
<1> QED
  BY <1>1, <1>2 DEF FreedUsedOnlyIfHeld, ClosesAccountedFor

\* Moving one thread leaves the other where it is.
LEMMA MainGoes ==
  ASSUME PcType, NEW place \in Main, Goto("main", place), back' \in {"dispatch", "dispose"}
  PROVE  PcType' /\ pc'["main"] = place /\ pc'["heartbeat"] = pc["heartbeat"]
  BY DEF Goto, PcType, Threads

LEMMA HeartbeatGoes ==
  ASSUME PcType, NEW place \in Heartbeat, Goto("heartbeat", place),
         back' \in {"dispatch", "dispose"}
  PROVE  PcType' /\ pc'["heartbeat"] = place /\ pc'["main"] = pc["main"]
  BY DEF Goto, PcType, Threads

LEMMA InitCInv == Init => CInv
<1> SUFFICES ASSUME Init PROVE CInv
  OBVIOUS
<1>1. pc["main"] = "connect" /\ pc["heartbeat"] = "test"
  BY DEF Init
<1>2. pc \in [Threads -> Main \cup Heartbeat]
  <2>1. \A t \in Threads : (IF t = "main" THEN "connect" ELSE "test") \in Main \cup Heartbeat
    BY DEF Main, Heartbeat
  <2>2. pc = [t \in Threads |-> IF t = "main" THEN "connect" ELSE "test"]
    BY DEF Init, Threads
  <2> QED
    BY <2>1, <2>2
<1>3. PcType
  BY <1>1, <1>2 DEF Init, PcType, Main, Heartbeat
<1>4. Flags /\ Enumerations
  BY DEF Init, Flags, Enumerations, Descriptor
<1> QED
  BY <1>1, <1>3, <1>4 DEF Init, CInv, Guarded, Lifetime, Closed, InUse, Disposed, Disposing, Closing, Sender,
       InObject

\* A step of the event thread between places outside close_connection, or into it,
\* that touches neither connection, bev_, bufferevent nor lock.
LEMMA MainMoves ==
  ASSUME CInv, NEW place \in Main, Goto("main", place), back' \in {"dispatch", "dispose"},
         back' = "dispose" => transport = "tcp",
         Flags', Enumerations',
         UNCHANGED <<transport, connection, bev_, mtx_sender_, fate, closes, overlapped, held>>,
         pc["main"] \notin Locking, place \notin {"shut down", "close fd"},
         connection = "none" =>
           place \in {"connect", "create", "store again", "notify again", "join", "done"},
         place \in {"connect", "create"} => connection = "none",
         connection = "freed" =>
           /\ place \in Leaving
           /\ place \in {"store again", "notify again", "join", "done"} => Disposed,
         place # "dispose",
         place \in {"store", "notify", "free"} => pc["main"] \in {"store", "notify"}
  PROVE  CInv'
<1>1. PcType' /\ pc'["main"] = place /\ pc'["heartbeat"] = pc["heartbeat"]
  BY MainGoes DEF CInv
<1>2. Guarded' /\ Lifetime' /\ Sender'
  BY <1>1 DEF CInv, Guarded, Lifetime, Sender, InObject, Locking
<1>3. Closed' /\ Disposing'
  BY <1>1 DEF CInv, Lifetime, Leaving, Closed, InUse, Disposed, Disposing, Closing, Locking
<1> QED
  BY <1>1, <1>2, <1>3 DEF CInv

\* The same for the heartbeat thread, which enters the connection only while it
\* lives.
LEMMA HeartbeatMoves ==
  ASSUME CInv, NEW place \in Heartbeat, Goto("heartbeat", place), UNCHANGED back,
         Flags', Enumerations',
         UNCHANGED <<transport, connection, bev_, mtx_sender_, fate, closes, overlapped, held>>,
         pc["heartbeat"] \notin Locking, place \notin Locking,
         place = "send" => connection = "live"
  PROVE  CInv'
<1>1. PcType' /\ pc'["heartbeat"] = place /\ pc'["main"] = pc["main"]
  BY HeartbeatGoes DEF CInv, PcType
<1>2. Guarded' /\ Lifetime' /\ Sender'
  BY <1>1 DEF CInv, Guarded, Lifetime, Sender, InObject, Locking
<1>3. Closed' /\ Disposing'
  BY <1>1 DEF CInv, Lifetime, Leaving, Closed, InUse, Disposed, Disposing, Closing, Locking
<1> QED
  BY <1>1, <1>2, <1>3 DEF CInv

\* A step in which no thread moves; it may be the last.
LEMMA NobodyMoves ==
  ASSUME CInv, Flags', Enumerations', fate' \in {fate, "killed"},
         UNCHANGED <<transport, pc, back, connection, bev_, mtx_sender_, closes, overlapped, held>>
  PROVE  CInv'
<1>1. PcType' /\ Guarded' /\ Lifetime' /\ Sender'
  BY DEF CInv, PcType, Guarded, Lifetime, Sender, InObject
<1>2. Closed' /\ Disposing'
  BY DEF CInv, Closed, InUse, Disposed, Disposing, Closing
<1> QED
  BY <1>1, <1>2 DEF CInv

LEMMA Unchanged ==
  ASSUME CInv, UNCHANGED vars
  PROVE  CInv'
<1>1. UNCHANGED <<transport, pc, back, connection, bev_, sin_, mtx_sender_, fd, session,
                  subscriber_stopped_, notified, fate, closes, own_close, overlapped, held>>
  BY DEF vars, object, network, stop, history
<1>2. Flags'
  BY <1>1 DEF CInv, Flags
<1>3. Enumerations'
  BY <1>1 DEF CInv, Enumerations
<1> QED
  BY <1>1, <1>2, <1>3, NobodyMoves

LEMMA ConnectSafe ==
  ASSUME CInv, Connect \/ SetSin \/ UdpLogin
  PROVE  CInv'
<1> USE DEF CInv, At, object, network, stop, history
<1>1. CASE Connect
  <2>1. PICK place \in {"create", "store again"} : Goto("main", place)
    BY <1>1 DEF Connect
  <2>2. fd' \in {fd, "connecting", "up"}
    BY <1>1 DEF Connect
  <2>3. Flags' /\ Enumerations' /\ pc["main"] = "connect" /\ back' \in {"dispatch", "dispose"}
    <3>1. UNCHANGED <<transport, back, connection, bev_, sin_, session, subscriber_stopped_,
                      notified, fate, own_close, overlapped, held>>
      BY <1>1 DEF Connect
    <3>2. pc["main"] = "connect"
      BY <1>1 DEF Connect
    <3>3. Flags'
      BY <3>1 DEF Flags
    <3>4. Enumerations'
      BY <2>2, <3>1 DEF Enumerations, Descriptor
    <3> QED
      BY <3>1, <3>2, <3>3, <3>4 DEF PcType
  <2>4. connection = "none" /\ UNCHANGED <<connection, bev_, mtx_sender_, fate, closes,
                                            overlapped, held>>
    BY <1>1, <2>3 DEF Connect, Lifetime
  <2>5. transport' = transport /\ (back' = "dispose" => transport = "tcp")
    BY <1>1 DEF Connect, Disposing
  <2> QED
    BY <2>1, <2>3, <2>4, <2>5, MainMoves DEF Main, Locking
<1>2. CASE SetSin
  <2>1. Flags' /\ Enumerations' /\ pc["main"] = "set sin" /\ back' \in {"dispatch", "dispose"}
    BY <1>2 DEF SetSin, Flags, Enumerations, PcType
  <2>2. transport' = transport /\ (back' = "dispose" => transport = "tcp")
    BY <1>2 DEF SetSin, Disposing
  <2> QED
    BY <1>2, <2>1, <2>2, MainMoves DEF SetSin, Main, Locking, Lifetime, Leaving
<1>3. CASE UdpLogin
  <2>1. PICK place \in {"dispatch", "store again"} : Goto("main", place)
    BY <1>3 DEF UdpLogin
  <2>2. session' \in {session, "sent"}
    BY <1>3 DEF UdpLogin
  <2>3. Flags' /\ Enumerations' /\ pc["main"] = "login" /\ back' \in {"dispatch", "dispose"}
    <3>1. UNCHANGED <<transport, back, connection, bev_, sin_, fd, subscriber_stopped_,
                      notified, fate, own_close, overlapped, held>>
      BY <1>3 DEF UdpLogin
    <3>2. pc["main"] = "login"
      BY <1>3 DEF UdpLogin
    <3>3. Flags'
      BY <3>1 DEF Flags
    <3>4. Enumerations'
      BY <2>2, <3>1 DEF Enumerations
    <3> QED
      BY <3>1, <3>2, <3>3, <3>4 DEF PcType
  <2>4. connection = "live" /\ UNCHANGED <<connection, bev_, mtx_sender_, fate, closes,
                                            overlapped, held>>
    BY <1>3, <2>3 DEF UdpLogin, Lifetime, Leaving, Enumerations
  <2>5. transport' = transport /\ (back' = "dispose" => transport = "tcp")
    BY <1>3 DEF UdpLogin, Disposing
  <2> QED
    BY <2>1, <2>3, <2>4, <2>5, MainMoves DEF Main, Locking
<1> QED
  BY <1>1, <1>2, <1>3

LEMMA CreateSafe ==
  ASSUME CInv, CreateConnection
  PROVE  CInv'
<1> USE DEF CInv
<1>1. PICK place \in {"dispatch", "set sin"} : Goto("main", place)
  BY DEF CreateConnection
<1>2. PcType' /\ pc'["main"] = place /\ pc'["heartbeat"] = pc["heartbeat"]
  BY <1>1, MainGoes DEF CreateConnection, PcType, Main
<1>3. bev_' \in BOOLEAN
  BY Zenon DEF CreateConnection
<1>4. Flags' /\ Enumerations' /\ pc["main"] = "create"
  BY <1>3 DEF CreateConnection, At, Flags, Enumerations, network, stop, history
<1>5. connection = "none" /\ closes = 0 /\ ~InObject /\ closes' = closes /\ connection' = "live"
  BY <1>4 DEF CreateConnection, Lifetime, history
<1>6. Guarded' /\ Lifetime' /\ Sender'
  BY <1>1, <1>2, <1>4, <1>5 DEF CreateConnection, Guarded, Lifetime, Sender, InObject, Locking, history
<1>7. Closed'
  <2>1. InUse'
    <3>1. ~Closing("main")' /\ ~Closing("heartbeat")'
      BY <1>2, <1>5 DEF Closing, InObject
    <3>2. closes' = 0
      BY <1>5
    <3> QED
      BY <3>1, <3>2, Zenon DEF InUse
  <2>2. ~Disposed'
    BY <1>5 DEF Disposed
  <2> QED
    BY <2>1, <2>2 DEF Closed
<1>8. Disposing'
  <2>1. transport' = "tcp" => bev_'
    BY DEF CreateConnection
  <2>2. transport' = transport /\ back' = back
    BY DEF CreateConnection
  <2> QED
    BY <1>1, <1>2, <2>1, <2>2 DEF Disposing
<1> QED
  BY <1>2, <1>4, <1>6, <1>7, <1>8

\* close_connection by a thread, up to its return.  The other thread is the one
\* that Closed speaks of.
LEMMA ReturnMain ==
  ASSUME CInv, Return("main")
  PROVE  /\ \E place \in {"dispatch", "dispose"} : place = back /\ Goto("main", place)
         /\ mtx_sender_' = IF mtx_sender_ = "main" THEN "free" ELSE mtx_sender_
  BY DEF Return, CInv, PcType

LEMMA ReturnHeartbeat ==
  ASSUME Return("heartbeat")
  PROVE  /\ Goto("heartbeat", "test again")
         /\ mtx_sender_' = IF mtx_sender_ = "heartbeat" THEN "free" ELSE mtx_sender_
  BY DEF Return

LEMMA CloseFdMain ==
  ASSUME CInv, CloseFd("main")
  PROVE  CInv'
<1> USE DEF CInv
<1>1. PICK place \in {"dispatch", "dispose"} : place = back /\ Goto("main", place)
  BY ReturnMain DEF CloseFd
<1>2. mtx_sender_' = IF mtx_sender_ = "main" THEN "free" ELSE mtx_sender_
  BY ReturnMain DEF CloseFd
<1>3. PcType' /\ pc'["main"] = place /\ pc'["heartbeat"] = pc["heartbeat"]
  BY <1>1, MainGoes DEF CloseFd, PcType, Main
<1>4. /\ pc["main"] = "close fd" /\ bev_' = FALSE /\ closes' = closes + 1
      /\ fd' = "closed"
      /\ UNCHANGED <<transport, connection, sin_, session, subscriber_stopped_, notified, fate,
                     own_close, overlapped, held>>
  BY DEF CloseFd, At, stop
<1>5. Flags' /\ Enumerations'
  BY <1>4 DEF Flags, Enumerations, stop, Descriptor
<1>6. InUse /\ (closes = 0 \/ (closes = 1 /\ overlapped))
  BY <1>4 DEF Closed, InUse, Disposed, Closing
<1>7. closes' = closes + 1 /\ (overlapped' <=> overlapped)
  BY <1>4
<1>8. Closed'
  <2>1. closes' \in {1, 2} /\ (closes' = 2 => overlapped')
    BY <1>6, <1>7
  <2>2. Closing("main")' \/ Closing("heartbeat")' => closes' = 1 /\ overlapped'
    <3>1. Closing("main")' \/ Closing("heartbeat")' => Closing("main") /\ Closing("heartbeat")
      BY <1>3, <1>4 DEF Closing
    <3>2. Closing("main") /\ Closing("heartbeat") => overlapped /\ closes = 0
      BY <1>6 DEF InUse
    <3> QED
      BY <1>7, <3>1, <3>2
  <2>3. ~(Closing("main")' /\ Closing("heartbeat")')
    BY <1>3 DEF Closing
  <2> QED
    BY <1>3, <1>4, <2>1, <2>2, <2>3 DEF Closed, InUse, Disposed
<1>9. Disposing'
  <2>1. closes' # 0
    BY <1>6, <1>7
  <2>2. transport' = transport /\ back' = back
    BY DEF CloseFd
  <2> QED
    BY <1>1, <1>3, <2>1, <2>2 DEF Disposing
<1> QED
  BY <1>2, <1>3, <1>4, <1>5, <1>8, <1>9 DEF Guarded, Lifetime, Sender, InObject, Locking, Leaving

LEMMA CloseFdHeartbeat ==
  ASSUME CInv, CloseFd("heartbeat"), connection # "freed"
  PROVE  CInv'
<1> USE DEF CInv
<1>2. mtx_sender_' = IF mtx_sender_ = "heartbeat" THEN "free" ELSE mtx_sender_
  BY ReturnHeartbeat DEF CloseFd
<1>3. PcType' /\ pc'["heartbeat"] = "test again" /\ pc'["main"] = pc["main"]
  BY ReturnHeartbeat, HeartbeatGoes DEF CloseFd, PcType, Heartbeat
<1>4. /\ pc["heartbeat"] = "close fd" /\ bev_' = FALSE /\ closes' = closes + 1
      /\ fd' = "closed"
      /\ UNCHANGED <<transport, connection, sin_, session, subscriber_stopped_, notified, fate,
                     own_close, overlapped, held>>
  BY DEF CloseFd, At, stop
<1>5. Flags' /\ Enumerations'
  BY <1>4 DEF Flags, Enumerations, stop, Descriptor
<1>6. InUse /\ (closes = 0 \/ (closes = 1 /\ overlapped))
  BY <1>4 DEF Closed, InUse, Disposed, Closing
<1>7. closes' = closes + 1 /\ (overlapped' <=> overlapped)
  BY <1>4
<1>8. Closed'
  <2>1. closes' \in {1, 2} /\ (closes' = 2 => overlapped')
    BY <1>6, <1>7
  <2>2. Closing("main")' \/ Closing("heartbeat")' => closes' = 1 /\ overlapped'
    <3>1. Closing("main")' \/ Closing("heartbeat")' => Closing("main") /\ Closing("heartbeat")
      BY <1>3, <1>4 DEF Closing
    <3>2. Closing("main") /\ Closing("heartbeat") => overlapped /\ closes = 0
      BY <1>6 DEF InUse
    <3> QED
      BY <1>7, <3>1, <3>2
  <2>3. ~(Closing("main")' /\ Closing("heartbeat")')
    BY <1>3 DEF Closing
  <2> QED
    BY <1>4, <2>1, <2>2, <2>3 DEF Closed, InUse, Disposed
<1>9. connection # "none"
  BY <1>4 DEF Lifetime, InObject
<1>10. Disposing'
  <2>1. closes' # 0
    BY <1>6, <1>7
  <2>2. transport' = transport /\ back' = back
    BY DEF CloseFd
  <2> QED
    BY <1>3, <1>4, <2>1, <2>2 DEF Disposing
<1> QED
  BY <1>2, <1>3, <1>4, <1>5, <1>8, <1>9, <1>10 DEF Guarded, Lifetime, Sender, InObject, Locking

LEMMA TestMain ==
  ASSUME CInv, CloseConnection("main"), pc["main"] = "close"
  PROVE  CInv'
<1> USE DEF CInv
<1>1. /\ IF bev_ THEN Goto("main", "shut down") /\ UNCHANGED mtx_sender_ ELSE Return("main")
      /\ overlapped' =
           (overlapped \/ (bev_ /\ \E u \in Threads \ {"main"} : pc[u] \in {"shut down", "close fd"}))
      /\ own_close' = (own_close \/ (bev_ /\ ~("main" = "main" /\ back = "dispose")))
      /\ UNCHANGED <<transport, back, connection, bev_, sin_, fd, session, subscriber_stopped_,
                     notified, fate, closes, held>>
  BY DEF CloseConnection, CloseFd, At, network, stop
<1>2. own_close' \in BOOLEAN /\ overlapped' \in BOOLEAN
  BY <1>1, Zenon
<1>3. Flags' /\ Enumerations'
  <2>1. Flags'
    BY <1>1, <1>2 DEF Flags
  <2>2. Enumerations'
    BY <1>1 DEF Enumerations
  <2> QED
    BY <2>1, <2>2
<1>4. /\ overlapped => overlapped'
      /\ bev_ /\ Closing("heartbeat") => overlapped'
  BY <1>1, Zenon DEF Threads, Closing
<1>5. /\ (closes' = closes) /\ (bev_' <=> bev_) /\ connection' = connection
      /\ transport' = transport /\ back' = back
  BY <1>1
<1>6. CASE bev_
  <2>1. Goto("main", "shut down") /\ mtx_sender_' = mtx_sender_
    BY <1>1, <1>6
  <2>2. PcType' /\ pc'["main"] = "shut down" /\ pc'["heartbeat"] = pc["heartbeat"]
    BY <1>1, <2>1, MainGoes DEF PcType, Main
  <2>3. Closed'
    BY <1>4, <1>5, <1>6, <2>2 DEF Closed, InUse, Disposed, Closing
  <2>4. Disposing'
    BY <1>5, <2>2 DEF Disposing
  <2> QED
    BY <1>1, <1>3, <2>1, <2>2, <2>3, <2>4 DEF Guarded, Lifetime, Sender, InObject, Locking, Leaving
<1>7. CASE ~bev_
  <2>1. Return("main")
    BY <1>1, <1>7
  <2>2. PICK place \in {"dispatch", "dispose"} : place = back /\ Goto("main", place)
    BY <2>1, ReturnMain
  <2>3. mtx_sender_' = IF mtx_sender_ = "main" THEN "free" ELSE mtx_sender_
    BY <2>1, ReturnMain
  <2>4. PcType' /\ pc'["main"] = place /\ pc'["heartbeat"] = pc["heartbeat"]
    BY <1>1, <2>2, MainGoes DEF PcType, Main
  <2>5. Closed'
    BY <1>4, <1>5, <1>7, <2>4 DEF Closed, InUse, Disposed, Closing
  <2>6. Disposing'
    BY <1>5, <1>7, <2>2, <2>4 DEF Disposing, Lifetime
  <2> QED
    BY <1>1, <1>3, <2>3, <2>4, <2>5, <2>6 DEF Guarded, Lifetime, Sender, InObject, Locking, Leaving
<1> QED
  BY <1>6, <1>7

LEMMA ShutDownMain ==
  ASSUME CInv, CloseConnection("main"), pc["main"] = "shut down"
  PROVE  CInv'
<1> USE DEF CInv
<1>1. /\ fd' = IF fd = "closed" THEN fd ELSE "shut"
      /\ Goto("main", "close fd")
      /\ UNCHANGED <<transport, back, connection, bev_, sin_, mtx_sender_, session,
                     subscriber_stopped_, notified, fate, closes, own_close, overlapped, held>>
  BY DEF CloseConnection, CloseFd, At, object, stop, history
<1>2. PcType' /\ pc'["main"] = "close fd" /\ pc'["heartbeat"] = pc["heartbeat"]
  BY <1>1, MainGoes DEF PcType, Main
<1>3. Flags'
  BY <1>1 DEF Flags
<1>4. Enumerations'
  BY <1>1 DEF Enumerations, Descriptor
<1>5. Closed' /\ Disposing'
  BY <1>1, <1>2 DEF Closed, InUse, Disposed, Disposing, Closing
<1> QED
  BY <1>1, <1>2, <1>3, <1>4, <1>5 DEF Guarded, Lifetime, Sender, InObject, Locking, Leaving

LEMMA TestHeartbeat ==
  ASSUME CInv, CloseConnection("heartbeat"), pc["heartbeat"] = "close"
  PROVE  CInv'
<1> USE DEF CInv
<1>1. /\ IF bev_ THEN Goto("heartbeat", "shut down") /\ UNCHANGED mtx_sender_ ELSE Return("heartbeat")
      /\ overlapped' =
           (overlapped \/ (bev_ /\ \E u \in Threads \ {"heartbeat"} : pc[u] \in {"shut down", "close fd"}))
      /\ own_close' = (own_close \/ (bev_ /\ ~("heartbeat" = "main" /\ back = "dispose")))
      /\ UNCHANGED <<transport, back, connection, bev_, sin_, fd, session, subscriber_stopped_,
                     notified, fate, closes, held>>
  BY DEF CloseConnection, CloseFd, At, network, stop
<1>2. own_close' \in BOOLEAN /\ overlapped' \in BOOLEAN
  BY <1>1, Zenon
<1>3. Flags' /\ Enumerations'
  <2>1. Flags'
    BY <1>1, <1>2 DEF Flags
  <2>2. Enumerations'
    BY <1>1 DEF Enumerations
  <2> QED
    BY <2>1, <2>2
<1>4. /\ overlapped => overlapped'
      /\ bev_ /\ Closing("main") => overlapped'
  BY <1>1, Zenon DEF Threads, Closing
<1>5. /\ (closes' = closes) /\ (bev_' <=> bev_) /\ connection' = connection
      /\ transport' = transport /\ back' = back
  BY <1>1
<1>6. CASE bev_
  <2>1. Goto("heartbeat", "shut down") /\ mtx_sender_' = mtx_sender_
    BY <1>1, <1>6
  <2>2. PcType' /\ pc'["heartbeat"] = "shut down" /\ pc'["main"] = pc["main"]
    BY <1>1, <2>1, HeartbeatGoes DEF PcType, Heartbeat
  <2>3. Closed'
    BY <1>4, <1>5, <1>6, <2>2 DEF Closed, InUse, Disposed, Closing
  <2>4. Disposing'
    BY <1>5, <2>2 DEF Disposing
  <2> QED
    BY <1>1, <1>3, <2>1, <2>2, <2>3, <2>4 DEF Guarded, Lifetime, Sender, InObject, Locking
<1>7. CASE ~bev_
  <2>1. Return("heartbeat")
    BY <1>1, <1>7
  <2>2. Goto("heartbeat", "test again")
    BY <2>1, ReturnHeartbeat
  <2>3. mtx_sender_' = IF mtx_sender_ = "heartbeat" THEN "free" ELSE mtx_sender_
    BY <2>1, ReturnHeartbeat
  <2>4. PcType' /\ pc'["heartbeat"] = "test again" /\ pc'["main"] = pc["main"]
    BY <1>1, <2>2, HeartbeatGoes DEF PcType, Heartbeat
  <2>5. Closed'
    BY <1>4, <1>5, <1>7, <2>4 DEF Closed, InUse, Disposed, Closing
  <2>6. Disposing'
    BY <1>5, <1>7, <2>2, <2>4 DEF Disposing, Lifetime
  <2> QED
    BY <1>1, <1>3, <2>3, <2>4, <2>5, <2>6 DEF Guarded, Lifetime, Sender, InObject, Locking
<1> QED
  BY <1>6, <1>7

LEMMA ShutDownHeartbeat ==
  ASSUME CInv, CloseConnection("heartbeat"), pc["heartbeat"] = "shut down"
  PROVE  CInv'
<1> USE DEF CInv
<1>1. /\ fd' = IF fd = "closed" THEN fd ELSE "shut"
      /\ Goto("heartbeat", "close fd")
      /\ UNCHANGED <<transport, back, connection, bev_, sin_, mtx_sender_, session,
                     subscriber_stopped_, notified, fate, closes, own_close, overlapped, held>>
  BY DEF CloseConnection, CloseFd, At, object, stop, history
<1>2. PcType' /\ pc'["heartbeat"] = "close fd" /\ pc'["main"] = pc["main"]
  BY <1>1, HeartbeatGoes DEF PcType, Heartbeat
<1>3. Flags'
  BY <1>1 DEF Flags
<1>4. Enumerations'
  BY <1>1 DEF Enumerations, Descriptor
<1>5. Closed' /\ Disposing'
  BY <1>1, <1>2 DEF Closed, InUse, Disposed, Disposing, Closing
<1> QED
  BY <1>1, <1>2, <1>3, <1>4, <1>5 DEF Guarded, Lifetime, Sender, InObject, Locking

LEMMA CloseConnectionSafe ==
  ASSUME CInv, NEW t \in Threads, CloseConnection(t), t = "heartbeat" => connection # "freed"
  PROVE  CInv'
<1>1. pc[t] = "close" \/ pc[t] = "shut down" \/ CloseFd(t)
  BY DEF CloseConnection, At
<1>2. CASE t = "main"
  BY <1>1, <1>2, TestMain, ShutDownMain, CloseFdMain
<1>3. CASE t = "heartbeat"
  BY <1>1, <1>3, TestHeartbeat, ShutDownHeartbeat, CloseFdHeartbeat
<1> QED
  BY <1>2, <1>3 DEF Threads

\* What a handler sends leaves the thread in the loop, sends it to close the
\* connection with the lock held, or is the end of the process.
LEMMA HandlerSendsSafe ==
  ASSUME CInv, NEW result \in {"sent", "failed", "killed"}, HandlerSends(result),
         pc["main"] = "dispatch", connection = "live",
         Flags', Enumerations', UNCHANGED <<transport, closes, overlapped, held>>
  PROVE  CInv'
<1>1. CASE result = "failed"
  <2>1. /\ Goto("main", "close") /\ back' = "dispatch" /\ mtx_sender_' = "main"
        /\ mtx_sender_ = "free"
        /\ UNCHANGED <<connection, bev_, fate>>
    BY <1>1 DEF HandlerSends
  <2>2. PcType' /\ pc'["main"] = "close" /\ pc'["heartbeat"] = pc["heartbeat"]
    BY <2>1, MainGoes DEF CInv, Main
  <2>3. Closed' /\ Disposing'
    BY <2>1, <2>2 DEF CInv, Closed, InUse, Disposed, Disposing, Closing
  <2> QED
    BY <2>1, <2>2, <2>3 DEF CInv, Guarded, Lifetime, Sender, InObject, Locking, Leaving
<1>2. CASE result # "failed"
  <2>1. fate' \in {fate, "killed"} /\ UNCHANGED <<pc, back, connection, bev_, mtx_sender_>>
    BY <1>2 DEF HandlerSends
  <2> QED
    BY <2>1, NobodyMoves
<1> QED
  BY <1>1, <1>2

LEMMA SendResultsType == SendResults \subseteq {"sent", "failed", "killed"}
  BY DEF SendResults

\* In the loop there is a connection, and it has not been destroyed.
LEMMA LoopHasConnection ==
  ASSUME CInv, pc["main"] = "dispatch"
  PROVE  connection = "live"
  BY DEF CInv, Lifetime, Leaving, Enumerations

LEMMA OnConnectedSafe ==
  ASSUME CInv, OnConnected
  PROVE  CInv'
<1>1. pc["main"] = "dispatch" /\ connection = "live"
  BY LoopHasConnection DEF OnConnected, At
<1>2. PICK result \in SendResults :
        /\ HandlerSends(result)
        /\ session' = IF result = "sent" THEN "sent" ELSE session
  BY DEF OnConnected
<1>3. UNCHANGED <<transport, fd, subscriber_stopped_, notified, closes, own_close, overlapped, held>>
  BY DEF OnConnected, stop, history
<1>4. fate' \in {fate, "killed"} /\ UNCHANGED <<connection, bev_, sin_>>
  BY <1>2, SendResultsType DEF HandlerSends
<1>5. Flags'
  BY <1>3, <1>4 DEF CInv, Flags
<1>6. Enumerations'
  BY <1>2, <1>3, <1>4 DEF CInv, Enumerations
<1> QED
  BY <1>1, <1>2, <1>3, <1>5, <1>6, SendResultsType, HandlerSendsSafe

LEMMA OnLoginReplySafe ==
  ASSUME CInv, NEW delay \in Delays, OnLoginReply(delay)
  PROVE  CInv'
<1>1. pc["main"] = "dispatch" /\ connection = "live"
  BY LoopHasConnection DEF OnLoginReply, Reads, At
<1>2. PICK result \in SendResults \cup {"sent"} : HandlerSends(result)
  BY DEF OnLoginReply
<1>3. UNCHANGED <<transport, fd, subscriber_stopped_, notified, closes, own_close, overlapped, held>>
      /\ session' = "accepted"
  BY DEF OnLoginReply, stop, history
<1>4. fate' \in {fate, "killed"} /\ UNCHANGED <<connection, bev_, sin_>>
  BY <1>2, SendResultsType DEF HandlerSends
<1>5. Flags'
  BY <1>3, <1>4 DEF CInv, Flags
<1>6. Enumerations'
  BY <1>3, <1>4 DEF CInv, Enumerations
<1> QED
  BY <1>1, <1>2, <1>3, <1>5, <1>6, SendResultsType, HandlerSendsSafe

LEMMA QuietSafe ==
  ASSUME CInv, NetworkStep \/ Over \/ \E delay \in Delays : OnDelta(delay)
  PROVE  CInv'
<1>1. /\ UNCHANGED <<transport, pc, back, connection, bev_, sin_, mtx_sender_, session,
                     subscriber_stopped_, notified, fate, closes, own_close, overlapped, held>>
      /\ fd' \in {fd, "up", "refused", "down"}
  BY DEF NetworkStep, Over, OnDelta, vars, object, network, stop, history
<1>2. Flags'
  BY <1>1 DEF CInv, Flags
<1>3. Enumerations'
  BY <1>1 DEF CInv, Enumerations, Descriptor
<1> QED
  BY <1>1, <1>2, <1>3, NobodyMoves

LEMMA EntersCloseSafe ==
  ASSUME CInv, ReadFails \/ OnEvent
  PROVE  CInv'
<1>1. /\ Goto("main", "close") /\ back' \in {"dispatch", "dispose"}
      /\ UNCHANGED <<transport, connection, bev_, sin_, mtx_sender_, fd, session,
                     subscriber_stopped_, notified, fate, closes, own_close, overlapped, held>>
      /\ pc["main"] = "dispatch" /\ connection = "live" /\ transport = "tcp"
  BY LoopHasConnection DEF ReadFails, OnEvent, At, object, network, stop, history
<1>2. Flags' /\ Enumerations'
  BY <1>1 DEF CInv, Flags, Enumerations
<1> QED
  BY <1>1, <1>2, MainMoves DEF Main, Locking

\* The connection is destroyed, whatever the heartbeat thread is doing with it.
LEMMA DisposeSafe ==
  ASSUME CInv, Dispose
  PROVE  CInv'
<1> USE DEF CInv
<1>1. /\ pc["main"] = "dispose" /\ Goto("main", "store") /\ connection' = "freed"
      /\ held' = InObject
      /\ UNCHANGED <<transport, back, bev_, sin_, mtx_sender_, fd, session, subscriber_stopped_,
                     notified, fate, closes, own_close, overlapped>>
      /\ fate = "running"
  BY DEF Dispose, At, network, stop
<1>2. PcType' /\ pc'["main"] = "store" /\ pc'["heartbeat"] = pc["heartbeat"]
  BY <1>1, MainGoes DEF PcType, Main
<1>3. held' \in BOOLEAN /\ (held' <=> InObject)
  <2>1. InObject \in BOOLEAN
    BY DEF InObject
  <2> QED
    BY <1>1, <2>1, Zenon
<1>4. Flags'
  BY <1>1, <1>3 DEF Flags
<1>5. Enumerations'
  BY <1>1 DEF Enumerations
<1>6. Guarded'
  BY <1>1, <1>2, <1>3 DEF Guarded, InObject
<1>7. Closed' /\ Disposing'
  BY <1>1, <1>2 DEF Closed, InUse, Disposed, Disposing, Closing
<1> QED
  BY <1>1, <1>2, <1>4, <1>5, <1>6, <1>7 DEF Lifetime, Sender, Locking, Leaving

LEMMA LeavingSafe ==
  ASSUME CInv, StopSubscriber \/ Join
  PROVE  CInv'
<1>1. PICK place \in {"notify", "notify again", "free", "join", "done"} :
        /\ Goto("main", place)
        /\ pc["main"] \in {"store", "store again", "notify", "notify again", "join"}
        /\ place \in {"notify", "free"} => pc["main"] \in {"store", "notify"}
        /\ place \notin {"notify", "free"} => pc["main"] \in {"store again", "notify again", "join"}
  BY DEF StopSubscriber, Join, At
<1>2. /\ UNCHANGED <<transport, back, connection, bev_, sin_, mtx_sender_, session, fate,
                     closes, own_close, overlapped, held>>
      /\ fd' = fd
  BY DEF StopSubscriber, Join, object, network, stop, history
<1>3. subscriber_stopped_' \in BOOLEAN
  BY Zenon DEF StopSubscriber, Join, stop, CInv, Flags
<1>4. notified' \in BOOLEAN
  BY Zenon DEF StopSubscriber, Join, stop, CInv, Flags
<1>5. Flags'
  BY <1>2, <1>3, <1>4 DEF CInv, Flags
<1>6. Enumerations'
  BY <1>2 DEF CInv, Enumerations, Descriptor
<1>7. connection = "none" => pc["main"] \in {"store again", "notify again", "join"}
  BY <1>1 DEF CInv, Lifetime
<1>8. back' \in {"dispatch", "dispose"} /\ (back' = "dispose" => transport = "tcp")
  BY <1>2 DEF CInv, PcType, Disposing
<1>9. connection = "freed" =>
        (place \in {"store again", "notify again", "join", "done"} => Disposed)
  BY <1>1 DEF Disposed
<1> QED
  BY <1>1, <1>2, <1>5, <1>6, <1>7, <1>8, <1>9, MainMoves DEF Main, Locking, Leaving

\* bufferevent_free closes what close_connection has closed.
LEMMA FreeSafe ==
  ASSUME CInv, FreeBufferevent
  PROVE  CInv'
<1> USE DEF CInv
<1>1. /\ pc["main"] = "free" /\ Goto("main", "store again")
      /\ fd' = "closed" /\ closes' = closes + 1
      /\ UNCHANGED <<transport, back, connection, bev_, sin_, mtx_sender_, session,
                     subscriber_stopped_, notified, fate, own_close, overlapped, held>>
  BY DEF FreeBufferevent, At, object, stop
<1>2. PcType' /\ pc'["main"] = "store again" /\ pc'["heartbeat"] = pc["heartbeat"]
  BY <1>1, MainGoes DEF PcType, Main
<1>3. Flags' /\ Enumerations'
  BY <1>1 DEF Flags, Enumerations, Descriptor
<1>4. closes \in {1, 2} /\ (closes = 2 => overlapped)
  <2>1. closes # 0
    BY <1>1 DEF Disposing
  <2>2. InUse
    BY <1>1 DEF Closed, Disposed
  <2> QED
    BY <2>1, <2>2 DEF InUse
<1>5. connection = "freed"
  BY <1>1 DEF Disposing
<1>6. closes' \in {2, 3} /\ (closes' = 3 => overlapped') /\ Disposed'
  <2>1. closes' = closes + 1 /\ (overlapped' <=> overlapped)
    BY <1>1
  <2>2. closes' \in {2, 3} /\ (closes' = 3 => overlapped')
    BY <1>4, <2>1
  <2> QED
    BY <1>1, <1>2, <1>5, <2>2 DEF Disposed
<1>7. Closed' /\ Disposing'
  <2>1. Closed'
    BY <1>6 DEF Closed
  <2> QED
    <3>1. transport' = transport /\ back' = back /\ connection' = "freed"
      BY <1>1, <1>5
    <3>2. closes' # 0
      BY <1>6
    <3> QED
      BY <1>2, <2>1, <3>1, <3>2 DEF Disposing
<1> QED
  BY <1>1, <1>2, <1>3, <1>5, <1>7 DEF Guarded, Lifetime, Sender, InObject, Locking, Leaving

LEMMA WaitingSafe ==
  ASSUME CInv, TestStopped \/ GetConnection \/ Wait \/ SpuriousWakeup \/ PeriodEnds
  PROVE  CInv'
<1>1. PICK place \in {"done", "get", "test", "predicate", "send", "test again", "blocking", "blocked"} :
        /\ Goto("heartbeat", place)
        /\ pc["heartbeat"] \notin Locking
        /\ place = "send" => connection = "live"
  BY DEF TestStopped, GetConnection, Wait, SpuriousWakeup, PeriodEnds, At, Locking
<1>2. UNCHANGED <<transport, back, connection, bev_, sin_, mtx_sender_, fd, session,
                  subscriber_stopped_, fate, closes, own_close, overlapped, held>>
  BY DEF TestStopped, GetConnection, Wait, SpuriousWakeup, PeriodEnds, object, network, stop, history
<1>3. notified' \in BOOLEAN
  BY Zenon DEF TestStopped, GetConnection, Wait, SpuriousWakeup, PeriodEnds, stop, CInv, Flags
<1>4. Flags'
  BY <1>2, <1>3 DEF CInv, Flags
<1>5. Enumerations'
  BY <1>2 DEF CInv, Enumerations
<1> QED
  BY <1>1, <1>2, <1>4, <1>5, HeartbeatMoves DEF Heartbeat, Locking

LEMMA SendHbSafe ==
  ASSUME CInv, SendHb
  PROVE  CInv'
<1> USE DEF CInv
<1>1. PICK result \in {"sent", "failed", "killed"} :
        CASE result = "sent" -> Goto("heartbeat", "test again") /\ UNCHANGED <<mtx_sender_, fate>>
          [] result = "failed" -> /\ Goto("heartbeat", "close")
                                  /\ mtx_sender_' = "heartbeat"
                                  /\ UNCHANGED fate
          [] OTHER -> fate' = "killed" /\ UNCHANGED <<pc, mtx_sender_>>
  BY SendResultsType DEF SendHb
<1>2. /\ pc["heartbeat"] = "send" /\ connection = "live" /\ mtx_sender_ = "free"
      /\ UNCHANGED <<transport, back, connection, bev_, sin_, fd, session, subscriber_stopped_,
                     notified, closes, own_close, overlapped, held>>
  BY DEF SendHb, At, network, stop, history
<1>3. Flags'
  BY <1>2 DEF Flags
<1>4. fate' \in {fate, "killed"}
  BY <1>1
<1>5. Enumerations'
  BY <1>2, <1>4 DEF Enumerations
<1>6. CASE result = "sent"
  <2>1. Goto("heartbeat", "test again") /\ UNCHANGED <<mtx_sender_, fate>>
    BY <1>1, <1>6
  <2> QED
    BY <1>2, <1>3, <1>5, <2>1, HeartbeatMoves DEF Heartbeat, Locking
<1>7. CASE result = "failed"
  <2>1. Goto("heartbeat", "close") /\ mtx_sender_' = "heartbeat" /\ fate' = fate
    BY <1>1, <1>7
  <2>2. PcType' /\ pc'["heartbeat"] = "close" /\ pc'["main"] = pc["main"]
    BY <1>2, <2>1, HeartbeatGoes DEF PcType, Heartbeat
  <2>3. Closed' /\ Disposing'
    BY <1>2, <2>2 DEF Closed, InUse, Disposed, Disposing, Closing
  <2> QED
    BY <1>2, <1>3, <1>5, <2>1, <2>2, <2>3 DEF Guarded, Lifetime, Sender, InObject, Locking
<1>8. CASE result = "killed"
  <2>1. UNCHANGED <<pc, mtx_sender_>>
    BY <1>1, <1>8
  <2> QED
    BY <1>2, <1>3, <1>4, <1>5, <2>1, NobodyMoves
<1> QED
  BY <1>6, <1>7, <1>8

LEMMA UseFreedSafe ==
  ASSUME CInv, UseFreed
  PROVE  CInv'
<1>1. /\ InObject /\ connection = "freed" /\ fate' = "undefined"
      /\ UNCHANGED <<transport, pc, back, connection, bev_, sin_, mtx_sender_, fd, session,
                     subscriber_stopped_, notified, closes, own_close, overlapped, held>>
  BY DEF UseFreed, object, network, stop, history
<1>2. held
  BY <1>1 DEF CInv, Guarded
<1>3. Flags' /\ Enumerations'
  BY <1>1 DEF CInv, Flags, Enumerations
<1>4. PcType' /\ Lifetime' /\ Sender' /\ Closed' /\ Disposing'
  BY <1>1 DEF CInv, PcType, Lifetime, Sender, Closed, InUse, Disposed, Disposing, Closing, InObject
<1> QED
  BY <1>1, <1>2, <1>3, <1>4 DEF CInv, Guarded

LEMMA CInvStep == CInv /\ [Next]_vars => CInv'
<1> SUFFICES ASSUME CInv, [Next]_vars PROVE CInv'
  OBVIOUS
<1>1. CASE MainStep
  BY <1>1, ConnectSafe, CreateSafe, OnConnectedSafe, OnLoginReplySafe, QuietSafe, EntersCloseSafe,
     CloseConnectionSafe, DisposeSafe, LeavingSafe, FreeSafe DEF MainStep, Threads
<1>2. CASE HeartbeatStep
  BY <1>2, WaitingSafe, SendHbSafe, UseFreedSafe, CloseConnectionSafe DEF HeartbeatStep, Threads
<1>3. CASE PeriodEnds \/ SpuriousWakeup \/ NetworkStep \/ Over
  BY <1>3, WaitingSafe, QuietSafe
<1>4. CASE UNCHANGED vars
  BY <1>4, Unchanged
<1> QED
  BY <1>1, <1>2, <1>3, <1>4 DEF Next

-----------------------------------------------------------------------------
(* The statistics. *)

LEMMA ModInRange ==
  ASSUME NEW n \in Nat
  PROVE  n % LatencyMod \in 0..(LatencyMod - 1)
<1>1. LatencyMod \in Nat /\ LatencyMod > 0
  BY StatAssumption
<1>2. \A m, k \in Nat : k > 0 => m % k \in 0..(k - 1)
  OBVIOUS
<1> QED
  BY <1>1, <1>2

\* A message leaves the statistics within the width of their members.
LEMMA ProgressType ==
  ASSUME NEW s \in StatType, NEW is_login_reply \in BOOLEAN,
         NEW wire_latency \in 0..(LatencyMod - 1), NEW due \in BOOLEAN
  PROVE  OnReaderProgress(s, is_login_reply, wire_latency, due) \in StatType
<1> DEFINE latency == Relative(s, is_login_reply, wire_latency)
           total == s.total_msg_wire_latency_ + latency
           packets == s.total_packets_progress_ + 1
<1>1. latency \in 0..(LatencyMod - 1)
  BY StatAssumption DEF Relative, Rebases, StatType
<1>2. total \in Nat /\ packets \in Nat /\ packets > 0
  BY <1>1, StatAssumption DEF StatType
<1>3. total \div packets \in Nat
  <2>1. \A m, k \in Nat : k > 0 => m \div k \in Nat
    OBVIOUS
  <2> HIDE DEF total, packets
  <2> QED
    BY <1>2, <2>1
<1>4. (total \div packets) % LatencyMod \in 0..(LatencyMod - 1)
  <2> HIDE DEF total, packets
  <2> QED
    BY <1>3, ModInRange
<1> HIDE DEF latency, total, packets
<1> DEFINE base == IF Rebases(s, is_login_reply, wire_latency) THEN wire_latency ELSE s.base_latency_
           max == IF latency > s.max_msg_wire_latency_ THEN latency ELSE s.max_msg_wire_latency_
           avg == IF due THEN (total \div packets) % LatencyMod ELSE s.avg_msg_wire_latency_
           lines == IF due /\ ~s.started THEN s.unstarted_lines + 1 ELSE s.unstarted_lines
<1>5. base \in 0..(LatencyMod - 1) /\ max \in 0..(LatencyMod - 1) /\ lines \in Nat
  BY <1>1 DEF StatType
<1>6. avg \in 0..(LatencyMod - 1)
  BY <1>4 DEF StatType
<1>7. OnReaderProgress(s, is_login_reply, wire_latency, due) =
        [s EXCEPT !.base_latency_ = base, !.last_msg_wire_latency_ = latency,
                  !.max_msg_wire_latency_ = max, !.avg_msg_wire_latency_ = avg,
                  !.total_msg_wire_latency_ = total, !.total_packets_progress_ = packets,
                  !.unstarted_lines = lines]
  BY DEF OnReaderProgress, latency, total, packets
<1> HIDE DEF base, max, avg, lines
<1> QED
  BY <1>1, <1>2, <1>5, <1>6, <1>7 DEF StatType

LEMMA WireLatencyType ==
  ASSUME NEW delay \in Delays, skew \in Skews
  PROVE  WireLatency(delay, skew) \in 0..(LatencyMod - 1)
<1>1. delay + skew \in Int
  BY SubscriberAssumption
<1>2. \A m \in Int : \A k \in Nat : k > 0 => m % k \in 0..(k - 1)
  OBVIOUS
<1> QED
  BY <1>1, <1>2, StatAssumption DEF WireLatency

LEMMA MeasuredType ==
  ASSUME ReaderType, NEW is_login_reply \in BOOLEAN, NEW delay \in Delays, NEW due \in LineDue(stat_)
  PROVE  Measured(is_login_reply, delay, due) \in StatType
  BY ProgressType, WireLatencyType DEF Measured, ReaderType, LineDue

LEMMA ReaderStep == ReaderType /\ [Next]_vars => ReaderType'
<1> SUFFICES ASSUME ReaderType, [Next]_vars PROVE ReaderType'
  OBVIOUS
<1>1. CASE \E delay \in Delays : OnLoginReply(delay)
  <2>1. PICK delay \in Delays : OnLoginReply(delay)
    BY <1>1
  <2>2. PICK due \in LineDue(stat_) : stat_' = StartReaderStat(Measured(TRUE, delay, due))
    BY <2>1 DEF OnLoginReply
  <2>3. Measured(TRUE, delay, due) \in StatType
    BY MeasuredType
  <2>4. stat_' \in StatType
    BY <2>2, <2>3 DEF StartReaderStat, StatType
  <2>5. delays' = <<delay>> /\ skew' = skew
    BY <2>1 DEF OnLoginReply
  <2>6. <<delay>> \in Seq(Delays)
    OBVIOUS
  <2> QED
    BY <2>4, <2>5, <2>6 DEF ReaderType
<1>2. CASE \E delay \in Delays : OnDelta(delay)
  <2>1. PICK delay \in Delays : OnDelta(delay)
    BY <1>2
  <2>2. PICK due \in LineDue(stat_) : stat_' = Measured(FALSE, delay, due)
    BY <2>1 DEF OnDelta
  <2>3. stat_' \in StatType
    BY <2>2, MeasuredType
  <2>4. delays' \in Seq(Delays)
    BY <2>1 DEF OnDelta, ReaderType
  <2> QED
    BY <2>1, <2>3, <2>4 DEF OnDelta, ReaderType
<1>3. CASE UNCHANGED reader
  BY <1>3 DEF reader, ReaderType
<1>4. MainStep => UNCHANGED reader \/ \E delay \in Delays : OnLoginReply(delay) \/ OnDelta(delay)
  BY Zenon DEF MainStep, Connect, CreateConnection, SetSin, UdpLogin, OnConnected, ReadFails, OnEvent,
         CloseConnection, CloseFd, Dispose, StopSubscriber, FreeBufferevent, Join
<1>5. HeartbeatStep \/ PeriodEnds \/ SpuriousWakeup \/ NetworkStep => UNCHANGED reader
  BY Zenon DEF HeartbeatStep, TestStopped, GetConnection, SendHb, UseFreed, Wait, CloseConnection, CloseFd,
         PeriodEnds, SpuriousWakeup, NetworkStep
<1>6. Over \/ UNCHANGED vars => UNCHANGED reader
  BY DEF Over, vars
<1> QED
  BY <1>1, <1>2, <1>3, <1>4, <1>5, <1>6 DEF Next

LEMMA InitReader == Init => ReaderType
  BY StatAssumption DEF Init, ReaderType, StatType, NewStat

\* As long as the raw latencies are of one turn, the base is the one of the fastest
\* message since the login reply.
Based ==
  delays # <<>> /\ SameTurn =>
    \E j \in 1..Len(delays) :
      /\ \A i \in 1..Len(delays) : delays[j] <= delays[i]
      /\ stat_.base_latency_ = WireLatency(delays[j], skew)

\* What is reported of the last message.
Reported ==
  delays # <<>> /\ SameTurn =>
    LET n == Len(delays)
        before == SubSeq(delays, 1, n - 1)
    IN  stat_.last_msg_wire_latency_ =
          IF n = 1 \/ delays[n] < Least(before)
            THEN WireLatency(delays[n], skew)
            ELSE delays[n] - Least(before)

\* Over TCP the login reply is the first message and comes once.
LoginFirst ==
  /\ pc["main"] \in {"set sin", "login"} => transport # "tcp"
  /\ transport = "tcp" =>
       /\ session # "accepted" => stat_.unstarted_lines = 0
       /\ session = "accepted" => stat_.started /\ stat_.unstarted_lines \in {0, 1}

\* A least element is the least one.
LEMMA LeastIs ==
  ASSUME NEW s, NEW j \in 1..Len(s), \A i \in 1..Len(s) : s[i] \in Nat /\ s[j] <= s[i]
  PROVE  Least(s) = s[j]
<1> DEFINE S == {s[i] : i \in 1..Len(s)}
           P(d) == d \in S /\ \A i \in 1..Len(s) : d <= s[i]
<1>1. P(s[j])
  OBVIOUS
<1>2. Least(s) \in S /\ \A i \in 1..Len(s) : Least(s) <= s[i]
  <2>1. \E d \in S : \A i \in 1..Len(s) : d <= s[i]
    BY <1>1
  <2> QED
    BY <2>1, Zenon DEF Least
<1>3. PICK k \in 1..Len(s) : Least(s) = s[k]
  BY <1>2
<1>4. s[k] <= s[j] /\ s[j] <= s[k] /\ s[k] \in Nat /\ s[j] \in Nat
  BY <1>2, <1>3
<1> QED
  BY <1>3, <1>4

\* In one turn, raw latencies differ as the delays do.
LEMMA OneTurn ==
  ASSUME NEW a \in Delays, NEW b \in Delays, skew \in Skews,
         (a + skew) \div LatencyMod = (b + skew) \div LatencyMod
  PROVE  /\ WireLatency(a, skew) - WireLatency(b, skew) = a - b
         /\ WireLatency(a, skew) < WireLatency(b, skew) <=> a < b
         /\ WireLatency(a, skew) \in Nat /\ WireLatency(b, skew) \in Nat
<1> DEFINE x == a + skew
           y == b + skew
           m == LatencyMod
<1>1. a \in Int /\ b \in Int /\ skew \in Int /\ m \in Nat /\ m > 0
  BY SubscriberAssumption, StatAssumption
<1>2. x \in Int /\ y \in Int /\ x \div m = y \div m /\ x - y = a - b
  BY <1>1
<1>3. x % m = WireLatency(a, skew) /\ y % m = WireLatency(b, skew)
  BY DEF WireLatency
<1> HIDE DEF x, y, m
<1>4. (x % m) - (y % m) = x - y
  BY <1>1, <1>2, SMT
<1>5. x % m \in Nat /\ y % m \in Nat
  BY <1>1, <1>2
<1> DEFINE u == x % m
           v == y % m
<1>6. u - v = a - b /\ u \in Nat /\ v \in Nat /\ a \in Int /\ b \in Int
  BY <1>1, <1>2, <1>4, <1>5
<1>7. u = WireLatency(a, skew) /\ v = WireLatency(b, skew)
  BY <1>3
<1> HIDE DEF u, v
<1>8. u < v <=> a < b
  BY <1>6
<1> QED
  BY <1>6, <1>7, <1>8

\* The members that on_reader_progress sets and that the properties speak of.
LEMMA ProgressIs ==
  ASSUME NEW s \in StatType, NEW is_login_reply \in BOOLEAN,
         NEW wire_latency \in Nat, NEW due \in BOOLEAN
  PROVE  LET r == OnReaderProgress(s, is_login_reply, wire_latency, due)
             rebases == is_login_reply \/ wire_latency < s.base_latency_
         IN  /\ r.base_latency_ = IF rebases THEN wire_latency ELSE s.base_latency_
             /\ r.last_msg_wire_latency_ =
                  IF rebases THEN wire_latency ELSE wire_latency - s.base_latency_
             /\ r.started = s.started
             /\ r.unstarted_lines =
                  IF due /\ ~s.started THEN s.unstarted_lines + 1 ELSE s.unstarted_lines
  BY DEF OnReaderProgress, Relative, Rebases, StatType

\* Only a message changes the statistics, only the login starts a session, and
\* over TCP only when there is none.
LEMMA StepsThatMeasure ==
  ASSUME PcType, [Next]_vars
  PROVE  \/ \E delay \in Delays : OnLoginReply(delay) \/ OnDelta(delay)
         \/ /\ UNCHANGED <<transport, reader>>
            /\ session' # session =>
                 session' = "sent" /\ (session = "none" \/ pc["main"] = "login")
            /\ pc'["main"] \in {"set sin", "login"} =>
                 pc["main"] \in {"set sin", "login"} \/ transport # "tcp"
<1>1. DOMAIN pc = Threads /\ "main" \in Threads /\ "heartbeat" \in Threads /\ "main" # "heartbeat"
  BY DEF PcType, Threads
<1>2. \A place : /\ Goto("main", place) => pc'["main"] = place
                 /\ Goto("heartbeat", place) => pc'["main"] = pc["main"]
  BY <1>1 DEF Goto, PcType
<1> DEFINE Quiet ==
            /\ UNCHANGED <<transport, reader>>
            /\ session' # session =>
                 session' = "sent" /\ (session = "none" \/ pc["main"] = "login")
            /\ pc'["main"] \in {"set sin", "login"} =>
                 pc["main"] \in {"set sin", "login"} \/ transport # "tcp"
<1>3. ASSUME UNCHANGED <<transport, reader, session>>, pc'["main"] = pc["main"]
      PROVE  Quiet
  BY <1>3
<1>4. ASSUME UNCHANGED <<transport, reader, session>>, NEW place, Goto("main", place),
             place \notin {"set sin", "login"}
      PROVE  Quiet
  BY <1>2, <1>4
<1>5. ASSUME NEW t \in Threads, CloseConnection(t)
      PROVE  Quiet
  <2>1. UNCHANGED <<transport, reader, session>>
    BY <1>5 DEF CloseConnection, CloseFd, network
  <2>2. CASE t = "heartbeat"
    <3>1. pc'["main"] = pc["main"]
      BY <1>2, <1>5, <2>2 DEF CloseConnection, CloseFd, Return
    <3> QED
      BY <1>3, <2>1, <3>1
  <2>3. CASE t = "main"
    <3>1. \E place \in {"shut down", "close fd", "dispatch", "dispose"} : Goto("main", place)
      BY <1>5, <2>3 DEF CloseConnection, CloseFd, Return, PcType
    <3> QED
      BY <1>4, <2>1, <3>1
  <2> QED
    BY <2>2, <2>3 DEF Threads
<1>6. ASSUME Connect
      PROVE  Quiet
  <2>1. UNCHANGED <<transport, reader, session>> /\ \E place \in {"create", "store again"} : Goto("main", place)
    BY <1>6 DEF Connect
  <2> QED
    BY <1>4, <2>1
<1>7. ASSUME CreateConnection
      PROVE  Quiet
  <2>1. /\ UNCHANGED <<transport, reader, session>>
        /\ pc'["main"] = IF transport = "tcp" THEN "dispatch" ELSE "set sin"
    BY <1>2, <1>7 DEF CreateConnection, network
  <2> QED
    BY <2>1
<1>8. ASSUME SetSin
      PROVE  Quiet
  <2>1. UNCHANGED <<transport, reader, session>> /\ pc["main"] = "set sin"
    BY <1>8 DEF SetSin, network, At
  <2> QED
    BY <2>1
<1>9. ASSUME UdpLogin
      PROVE  Quiet
  <2>1. /\ UNCHANGED <<transport, reader>> /\ pc["main"] = "login"
        /\ session' \in {session, "sent"}
    BY <1>9 DEF UdpLogin, At
  <2> QED
    BY <2>1
<1>10. ASSUME OnConnected
      PROVE  Quiet
  <2>1. UNCHANGED <<transport, reader>> /\ session = "none" /\ session' \in {session, "sent"}
    BY <1>10 DEF OnConnected
  <2>2. pc'["main"] \in {pc["main"], "close"}
    BY <1>2, <1>10 DEF OnConnected, HandlerSends
  <2> QED
    BY <2>1, <2>2
<1>11. ASSUME ReadFails \/ OnEvent
      PROVE  Quiet
  <2>1. UNCHANGED <<transport, reader, session>> /\ Goto("main", "close")
    BY <1>11 DEF ReadFails, OnEvent, network
  <2> QED
    BY <1>4, <2>1
<1>12. ASSUME Dispose \/ StopSubscriber \/ FreeBufferevent \/ Join
      PROVE  Quiet
  <2>1. /\ UNCHANGED <<transport, reader, session>>
        /\ \E place \in {"store", "notify", "notify again", "free", "store again", "join", "done"} :
             Goto("main", place)
    BY <1>12 DEF Dispose, StopSubscriber, FreeBufferevent, Join, network
  <2> QED
    BY <1>4, <2>1
<1>13. ASSUME TestStopped \/ GetConnection \/ SendHb \/ UseFreed \/ Wait \/ PeriodEnds \/ SpuriousWakeup
      PROVE  Quiet
  <2>1. UNCHANGED <<transport, reader, session>>
    BY <1>13, Zenon DEF TestStopped, GetConnection, SendHb, UseFreed, Wait, PeriodEnds, SpuriousWakeup, network
  <2>2. pc' = pc \/ \E place : Goto("heartbeat", place)
    BY <1>13, Zenon DEF TestStopped, GetConnection, SendHb, UseFreed, Wait, PeriodEnds, SpuriousWakeup
  <2> QED
    BY <1>2, <1>3, <2>1, <2>2
<1>14. ASSUME NetworkStep \/ Over \/ UNCHANGED vars
      PROVE  Quiet
  <2>1. UNCHANGED <<transport, reader, session, pc>>
    BY <1>14 DEF NetworkStep, Over, vars, network
  <2> QED
    BY <1>3, <2>1
<1> HIDE DEF Quiet
<1>15. MainStep => Quiet \/ \E delay \in Delays : OnLoginReply(delay) \/ OnDelta(delay)
  BY <1>5, <1>6, <1>7, <1>8, <1>9, <1>10, <1>11, <1>12 DEF MainStep, Threads
<1>16. HeartbeatStep => Quiet
  BY <1>5, <1>13 DEF HeartbeatStep, Threads
<1>17. Quiet \/ \E delay \in Delays : OnLoginReply(delay) \/ OnDelta(delay)
  BY <1>13, <1>14, <1>15, <1>16 DEF Next
<1> QED
  BY <1>17 DEF Quiet

\* A step that does not measure.
LEMMA MeasuresKept ==
  ASSUME Based, Reported, UNCHANGED reader
  PROVE  Based' /\ Reported'
<1>1. stat_' = stat_ /\ skew' = skew /\ delays' = delays
  BY DEF reader
<1> QED
  BY <1>1 DEF Based, Reported, SameTurn

\* A login reply: its latency becomes the base.
LEMMA LoginReplyMeasures ==
  ASSUME ReaderType, LoginFirst, PcType, NEW delay \in Delays, OnLoginReply(delay)
  PROVE  Based' /\ Reported' /\ LoginFirst'
<1> DEFINE w == WireLatency(delay, skew)
<1>1. PICK due \in LineDue(stat_) : stat_' = StartReaderStat(OnReaderProgress(stat_, TRUE, w, due))
  BY DEF OnLoginReply, Measured
<1>2. due \in BOOLEAN /\ stat_ \in StatType /\ w \in 0..(LatencyMod - 1) /\ w \in Nat
  <2>1. w \in 0..(LatencyMod - 1) /\ stat_ \in StatType
    BY WireLatencyType DEF ReaderType
  <2>2. due \in BOOLEAN
    BY DEF LineDue
  <2> HIDE DEF w
  <2> QED
    BY <2>1, <2>2, StatAssumption
<1>3. /\ skew' = skew /\ delays' = <<delay>> /\ session' = "accepted" /\ transport' = transport
      /\ transport = "tcp" => session = "sent"
      /\ pc["main"] = "dispatch" /\ pc'["main"] \in {"dispatch", "close"}
  BY DEF OnLoginReply, Reads, At, HandlerSends, Goto, PcType, Threads
<1> HIDE DEF w
<1> DEFINE r == OnReaderProgress(stat_, TRUE, w, due)
<1>4. /\ r \in StatType /\ r.base_latency_ = w /\ r.last_msg_wire_latency_ = w
      /\ r.unstarted_lines \in {stat_.unstarted_lines, stat_.unstarted_lines + 1}
  <2>1. r \in StatType
    BY <1>2, ProgressType
  <2>2. /\ r.base_latency_ = IF TRUE \/ w < stat_.base_latency_ THEN w ELSE stat_.base_latency_
        /\ r.last_msg_wire_latency_ =
             IF TRUE \/ w < stat_.base_latency_ THEN w ELSE w - stat_.base_latency_
        /\ r.unstarted_lines =
             IF due /\ ~stat_.started THEN stat_.unstarted_lines + 1 ELSE stat_.unstarted_lines
    BY <1>2, ProgressIs
  <2> HIDE DEF r
  <2> QED
    BY <2>1, <2>2
<1> HIDE DEF r
<1>5. /\ stat_'.base_latency_ = w /\ stat_'.last_msg_wire_latency_ = w /\ stat_'.started
      /\ stat_'.unstarted_lines = r.unstarted_lines
  BY <1>1, <1>4 DEF StartReaderStat, StatType, r
<1> DEFINE s == delays'
<1>6. Len(s) = 1 /\ s[1] = delay /\ delay <= delay
  BY <1>3, SubscriberAssumption
<1> HIDE DEF s
<1>7. Based'
  <2>1. stat_'.base_latency_ = WireLatency(s[1], skew') /\ \A i \in 1..Len(s) : s[1] <= s[i]
    BY <1>3, <1>5, <1>6 DEF w
  <2> QED
    BY <1>6, <2>1 DEF Based, s
<1>8. Reported'
  BY <1>3, <1>5, <1>6 DEF Reported, s, w
<1>9. LoginFirst'
  <2>1. transport = "tcp" => stat_.unstarted_lines = 0
    BY <1>3 DEF LoginFirst
  <2> DEFINE n == stat_'.unstarted_lines
  <2>2. transport = "tcp" => n \in {0, 1}
    BY <1>4, <1>5, <2>1
  <2>3. n = stat_'.unstarted_lines
    OBVIOUS
  <2> HIDE DEF n
  <2>4. /\ pc'["main"] \notin {"set sin", "login"} /\ session' = "accepted"
        /\ transport' = transport /\ stat_'.started
    BY <1>3, <1>5
  <2> QED
    BY <2>2, <2>3, <2>4 DEF LoginFirst
<1> QED
  BY <1>7, <1>8, <1>9

\* A delta: in one turn the base moves to the fastest, and what is reported is relative to it.
LEMMA DeltaMeasures ==
  ASSUME ReaderType, LoginFirst, Based, NEW delay \in Delays, OnDelta(delay)
  PROVE  Based' /\ Reported' /\ LoginFirst'
<1> DEFINE w == WireLatency(delay, skew)
           s == delays
           t == delays'
           b == stat_.base_latency_
<1>1. PICK due \in LineDue(stat_) : stat_' = OnReaderProgress(stat_, FALSE, w, due)
  BY DEF OnDelta, Measured
<1>2. /\ due \in BOOLEAN /\ stat_ \in StatType /\ w \in Nat
      /\ s \in Seq(Delays) /\ skew \in Skews
  <2>1. w \in 0..(LatencyMod - 1) /\ stat_ \in StatType /\ skew \in Skews /\ s \in Seq(Delays)
    BY WireLatencyType DEF ReaderType
  <2>2. due \in BOOLEAN
    BY DEF LineDue
  <2> HIDE DEF w
  <2> QED
    BY <2>1, <2>2, StatAssumption
<1>3. /\ skew' = skew /\ t = (IF s = <<>> THEN <<>> ELSE Append(s, delay))
      /\ session' = session /\ transport' = transport /\ pc' = pc
      /\ transport = "tcp" => session = "accepted"
  BY DEF OnDelta, Reads, network
<1> HIDE DEF w
<1>4. /\ stat_'.base_latency_ = IF w < b THEN w ELSE b
      /\ stat_'.last_msg_wire_latency_ = IF w < b THEN w ELSE w - b
      /\ stat_'.started = stat_.started
      /\ stat_.started => stat_'.unstarted_lines = stat_.unstarted_lines
  <2> DEFINE r == OnReaderProgress(stat_, FALSE, w, due)
  <2>1. /\ r.base_latency_ = IF FALSE \/ w < b THEN w ELSE b
        /\ r.last_msg_wire_latency_ = IF FALSE \/ w < b THEN w ELSE w - b
        /\ r.started = stat_.started
        /\ r.unstarted_lines =
             IF due /\ ~stat_.started THEN stat_.unstarted_lines + 1 ELSE stat_.unstarted_lines
    BY <1>2, ProgressIs
  <2> HIDE DEF r
  <2> QED
    BY <1>1, <2>1 DEF r
<1>5. LoginFirst'
  BY <1>3, <1>4 DEF LoginFirst
<1>6. ASSUME t # <<>>, SameTurn'
      PROVE  /\ \E j \in 1..Len(t) :
                  /\ \A i \in 1..Len(t) : t[j] <= t[i]
                  /\ stat_'.base_latency_ = WireLatency(t[j], skew)
             /\ LET n == Len(t)
                    before == SubSeq(t, 1, n - 1)
                IN  stat_'.last_msg_wire_latency_ =
                      IF n = 1 \/ t[n] < Least(before)
                        THEN WireLatency(t[n], skew)
                        ELSE t[n] - Least(before)
  <2> DEFINE m == Len(s)
  <2>1. /\ s # <<>> /\ t = Append(s, delay) /\ t \in Seq(Delays) /\ m \in Nat \ {0} /\ Len(t) = m + 1
        /\ t[m + 1] = delay /\ \A i \in 1..m : t[i] = s[i] /\ s[i] \in Delays
        /\ SubSeq(t, 1, m) = s
    BY <1>2, <1>3, <1>6
  <2>2. \A i, j \in 1..(m + 1) : (t[i] + skew) \div LatencyMod = (t[j] + skew) \div LatencyMod
    BY <1>3, <1>6, <2>1 DEF SameTurn
  <2> HIDE DEF m, t
  <2>3. \A i, j \in 1..m : (s[i] + skew) \div LatencyMod = (s[j] + skew) \div LatencyMod
    <3>1. \A i \in 1..m : i \in 1..(m + 1) /\ t[i] = s[i]
      BY <2>1
    <3> QED
      BY <2>2, <3>1
  <2>4. PICK j \in 1..m : /\ \A i \in 1..m : s[j] <= s[i]
                          /\ b = WireLatency(s[j], skew)
    <3>1. SameTurn
      BY <2>3 DEF SameTurn, m
    <3> QED
      BY <2>1, <3>1 DEF Based, m
  <2> DEFINE a == s[j]
  <2>5. Least(s) = a
    <3>1. \A i \in 1..Len(s) : s[i] \in Nat
      <4>1. \A d \in Delays : d \in Nat
        BY SubscriberAssumption
      <4> QED
        BY <2>1, <4>1 DEF m
    <3>2. j \in 1..Len(s) /\ \A i \in 1..Len(s) : s[j] <= s[i]
      BY <2>4 DEF m
    <3> HIDE DEF s
    <3> QED
      BY <3>1, <3>2, LeastIs
  <2>6. /\ a \in Delays /\ a = t[j] /\ j \in 1..(m + 1) /\ m + 1 \in 1..(m + 1)
        /\ a \in Nat /\ delay \in Nat
    <3>1. m \in Nat /\ s[j] \in Delays /\ t[j] = s[j]
      BY <2>1
    <3>2. \A d \in Delays : d \in Nat
      BY SubscriberAssumption
    <3>3. j \in 1..(m + 1) /\ m + 1 \in 1..(m + 1)
      BY <3>1
    <3> HIDE DEF s
    <3> QED
      BY <3>1, <3>2, <3>3
  <2>7. (delay + skew) \div LatencyMod = (a + skew) \div LatencyMod
    BY <2>1, <2>2, <2>6
  <2> HIDE DEF a
  <2>8. w - b = delay - a /\ (w < b <=> delay < a) /\ b \in Nat
    BY <1>2, <2>4, <2>6, <2>7, OneTurn DEF w, a
  <2>9. stat_'.last_msg_wire_latency_ = IF delay < a THEN w ELSE delay - a
    BY <1>4, <2>8
  <2>10. \A i \in 1..m : a <= t[i]
    BY <2>1, <2>4 DEF a
  <2>11. \E k \in 1..Len(t) :
           /\ \A i \in 1..Len(t) : t[k] <= t[i]
           /\ stat_'.base_latency_ = WireLatency(t[k], skew)
    <3>1. \A i \in 1..Len(t) : i \in 1..m \/ i = m + 1
      BY <2>1
    <3>2. CASE delay < a
      <4>1. \A i \in 1..Len(t) : t[m + 1] <= t[i]
        <5>1. \A i \in 1..m : t[i] \in Nat
          BY <2>1, SubscriberAssumption
        <5> QED
          BY <2>1, <2>6, <2>10, <3>1, <3>2, <5>1
      <4>2. stat_'.base_latency_ = WireLatency(t[m + 1], skew)
        BY <1>4, <2>1, <2>8, <3>2 DEF w
      <4> QED
        BY <2>1, <2>6, <4>1, <4>2
    <3>3. CASE ~ (delay < a)
      <4>1. \A i \in 1..Len(t) : t[j] <= t[i]
        BY <2>1, <2>6, <2>10, <3>1, <3>3
      <4>2. stat_'.base_latency_ = WireLatency(t[j], skew)
        BY <1>4, <2>4, <2>6, <2>8, <3>3 DEF a
      <4> QED
        BY <2>1, <2>6, <4>1, <4>2
    <3> QED
      BY <3>2, <3>3
  <2>12. LET n == Len(t)
             before == SubSeq(t, 1, n - 1)
         IN  stat_'.last_msg_wire_latency_ =
               IF n = 1 \/ t[n] < Least(before)
                 THEN WireLatency(t[n], skew)
                 ELSE t[n] - Least(before)
    <3>1. Len(t) # 1 /\ Len(t) - 1 = m
      BY <2>1
    <3>2. Least(SubSeq(t, 1, Len(t) - 1)) = a /\ t[Len(t)] = delay
      BY <2>1, <2>5, <3>1
    <3> QED
      BY <2>9, <3>1, <3>2 DEF w
  <2> QED
    BY <2>11, <2>12
<1> HIDE DEF s, b
<1>7. Based'
  BY <1>3, <1>6 DEF Based
<1>8. Reported'
  BY <1>3, <1>6 DEF Reported
<1> QED
  BY <1>5, <1>7, <1>8

LEMMA MeasureStep ==
  PcType /\ ReaderType /\ Based /\ Reported /\ LoginFirst /\ [Next]_vars =>
    Based' /\ Reported' /\ LoginFirst'
<1> SUFFICES ASSUME PcType, ReaderType, Based, Reported, LoginFirst, [Next]_vars
             PROVE  Based' /\ Reported' /\ LoginFirst'
  OBVIOUS
<1>1. CASE \E delay \in Delays : OnLoginReply(delay)
  BY <1>1, LoginReplyMeasures
<1>2. CASE \E delay \in Delays : OnDelta(delay)
  BY <1>2, DeltaMeasures
<1>3. CASE /\ UNCHANGED <<transport, reader>>
           /\ session' # session =>
                session' = "sent" /\ (session = "none" \/ pc["main"] = "login")
           /\ pc'["main"] \in {"set sin", "login"} =>
                pc["main"] \in {"set sin", "login"} \/ transport # "tcp"
  <2>1. UNCHANGED reader /\ stat_' = stat_
    BY <1>3 DEF reader
  <2>2. LoginFirst'
    BY <1>3, <2>1 DEF LoginFirst
  <2> QED
    BY <2>1, <2>2, MeasuresKept
<1> QED
  BY <1>1, <1>2, <1>3, StepsThatMeasure

LEMMA InitMeasures == Init => Based /\ Reported /\ LoginFirst
<1> SUFFICES ASSUME Init PROVE Based /\ Reported /\ LoginFirst
  OBVIOUS
<1>1. delays = <<>> /\ pc["main"] = "connect" /\ session = "none" /\ stat_.unstarted_lines = 0
  BY DEF Init, NewStat
<1> QED
  BY <1>1 DEF Based, Reported, LoginFirst

LEMMA SubscriberInvariant == Spec => [](CInv /\ ReaderType /\ Based /\ Reported /\ LoginFirst)
<1>1. Init => CInv /\ ReaderType /\ Based /\ Reported /\ LoginFirst
  BY InitCInv, InitReader, InitMeasures
<1>2. CInv /\ ReaderType /\ [Next]_vars => CInv' /\ ReaderType'
  BY CInvStep, ReaderStep
<1>3. CInv => PcType
  BY DEF CInv
<1> QED
  BY <1>1, <1>2, <1>3, MeasureStep, PTL DEF Spec

\* For all delays and clocks every variable keeps its type.
THEOREM SubscriberTyped == Spec => []TypeOK
  BY SubscriberInvariant, CInvTypeOK, PTL

\* Of the two threads that share the connection without a lock, the heartbeat thread
\* uses it after it was destroyed only if it was destroyed while that thread was
\* inside send_hb.
THEOREM FreedUseExplained == Spec => []FreedUsedOnlyIfHeld
  BY SubscriberInvariant, CInvClosed, PTL

\* The descriptor is closed once by close_connection, twice only if both threads were
\* inside it at once, and once more by bufferevent_free wherever eventcb disposes of the
\* connection.
THEOREM ClosesExplained == Spec => []ClosesAccountedFor
  BY SubscriberInvariant, CInvClosed, PTL

\* For any delays and any difference of the two clocks: after the login reply the
\* latency that is reported of a message is its delay beyond the fastest one before
\* it, unless it is faster than all of these or the 16 bits turn over in between; and
\* over TCP at most one line of statistics is computed from an unset start time.
THEOREM LatenciesMeasured == Spec => []StatisticsMeasured
<1>1. Reported /\ LoginFirst => StatisticsMeasured
  <2> SUFFICES ASSUME Reported, LoginFirst PROVE StatisticsMeasured
    OBVIOUS
  <2>1. transport = "tcp" => stat_.unstarted_lines \in {0, 1}
    BY DEF LoginFirst
  <2> QED
    BY <2>1 DEF StatisticsMeasured, Reported
<1> QED
  BY <1>1, SubscriberInvariant, PTL
=============================================================================
