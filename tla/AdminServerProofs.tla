------------------------- MODULE AdminServerProofs -------------------------
(***************************************************************************)
(* Theorems about AdminServer, for any number of clients, whatever they    *)
(* type: the server calls back into a destroyed connection object only if  *)
(* it accepted a connection while it had another; requests and answers     *)
(* alternate; a request that was read is answered up to the menu, unless   *)
(* the connection is closed or logging the request overruns its buffer;    *)
(* every record is read back as it was sent or is cut short; a client that *)
(* is asked for a command has all the reference data the server has; and   *)
(* the variables have their types.                                         *)
(*                                                                         *)
(* All but the first are about what the handlers send, and that depends on *)
(* what they read: the proof follows a record through operator<<, the      *)
(* buffer and operator>>.  These are folds over sequences of any length,   *)
(* so the proof is by induction: from the least counterexample in the      *)
(* first half, through FoldTheorems, instantiated for every loop, in the   *)
(* second, which takes the messages up one by one: their members, their    *)
(* sizes, that each is read back, and what each handler answers with.      *)
(***************************************************************************)
EXTENDS AdminServer, SequenceTheorems, FiniteSetTheorems, WellFoundedInduction, TLAPS

-----------------------------------------------------------------------------
(* The slot. *)

\* What client c may send.
Requests(c) == {LoginMsg} \cup {Request(line) : line \in Lines[c]}

RequestsTyped ==
  /\ toServer \in [Clients -> UNION {Seq(Requests(c)) : c \in Clients}]
  /\ \A c \in Clients : toServer[c] \in Seq(Requests(c))

WireType ==
  /\ RequestsTyped
  /\ bev \in [Clients -> {"none", "backlog", "open", "closed"}]

\* As long as no connection was taken over, the open one is the slot's.
OpenInSlot == ~takenOver => \A c \in Clients : bev[c] = "open" => slot = c

SlotInv == WireType /\ OpenInSlot /\ DanglingOnlyAfterTakeOver

\* A request, read back, is of one of the three types the server handles.
LEMMA RequestTypes ==
  ASSUME NEW c \in Clients, NEW m \in Requests(c), NEW d
  PROVE  [m EXCEPT !.data = d].type \in {"login", "subscribe", "command"}
<1>1. CASE m = LoginMsg
  <2>1. PICK e : m = [type |-> "login", data |-> e]
    BY <1>1 DEF LoginMsg
  <2>2. [m EXCEPT !.data = d] = [type |-> "login", data |-> d]
    BY <2>1
  <2> QED
    BY <2>2
<1>2. ASSUME NEW line \in Lines[c], m = Request(line)
      PROVE  [m EXCEPT !.data = d].type \in {"login", "subscribe", "command"}
  <2>1. \A t, e : m = [type |-> t, data |-> e] => [m EXCEPT !.data = d].type = t
    OBVIOUS
  <2>2. \/ m = [type |-> "subscribe", data |-> <<line.params>>]
        \/ m = [type |-> "command", data |-> <<line.cmd, Str("context", 7), line.params>>]
    BY <1>2 DEF Request
  <2> QED
    BY <2>1, <2>2
<1> QED
  BY <1>1, <1>2 DEF Requests

\* A handler opens nothing: what it sends goes well, or closes the connection it is for.
LEMMA HandlersOpenNothing ==
  ASSUME WireType, NEW c \in Clients, ServerReads(c)
  PROVE  /\ UNCHANGED <<slot, takenOver, undefined>>
         /\ bev[c] = "open" /\ slot = c
         /\ bev' = [bev EXCEPT ![c] = "open"] \/ bev' = [bev EXCEPT ![c] = "closed"]
<1>1. /\ bev[c] = "open" /\ slot = c /\ UNCHANGED <<takenOver, undefined>>
      /\ toServer[c] # <<>>
  BY DEF ServerReads, CallbackOf, Defined
<1>2. ASSUME NEW msgs, Answer(c, msgs)
      PROVE  bev' = [bev EXCEPT ![c] = "open"] \/ bev' = [bev EXCEPT ![c] = "closed"]
  BY <1>2 DEF Answer
<1>3. Head(toServer[c]) \in Requests(c)
  BY <1>1, HeadTailProperties DEF WireType, RequestsTyped
<1>4. PICK m : /\ m.type \in {"login", "subscribe", "command"}
               /\ Handle(c, m) \/ ReadFails(c)
  <2> DEFINE h == Head(toServer[c])
             d == Load(Archive(h)).data
             q == [h EXCEPT !.data = d]
  <2>1. Handle(c, q) \/ ReadFails(c)
    BY Zenon DEF ServerReads
  <2> HIDE DEF h
  <2>2. h \in Requests(c)
    BY <1>3 DEF h
  <2> HIDE DEF d
  <2>3. q.type \in {"login", "subscribe", "command"}
    BY <2>2, RequestTypes, Zenon
  <2> HIDE DEF q
  <2> QED
    BY <2>1, <2>3
<1>5. CASE ReadFails(c)
  BY <1>1, <1>5 DEF ReadFails
<1>6. CASE Handle(c, m)
  BY <1>1, <1>2, <1>4, <1>6 DEF Handle
<1> QED
  BY <1>1, <1>4, <1>5, <1>6

\* What the steps do to the requests on the wire.
LEMMA WireTypeStep ==
  ASSUME WireType, Next
  PROVE  RequestsTyped'
<1>1. ASSUME NEW c \in Clients, NEW s \in Seq(Requests(c)),
             toServer' = [toServer EXCEPT ![c] = s]
      PROVE  RequestsTyped'
  BY <1>1 DEF WireType, RequestsTyped
<1>2. ASSUME toServer' = toServer
      PROVE  RequestsTyped'
  BY <1>2 DEF WireType, RequestsTyped
<1>3. PICK c \in Clients :
        \/ Connect(c) \/ \E line \in Lines[c] : Type(c, line)
        \/ ClientReads(c) \/ ClientEvent(c) \/ Leave(c) \/ Relaunch(c)
        \/ Accept(c) \/ Dangling(c) \/ ServerReads(c) \/ ServerOverruns(c) \/ ServerEvent(c)
  BY DEF Next
<1>4. /\ toServer[c] \in Seq(Requests(c)) /\ <<>> \in Seq(Requests(c))
      /\ <<LoginMsg>> \in Seq(Requests(c))
  <2>1. toServer[c] \in Seq(Requests(c)) /\ <<>> \in Seq(Requests(c))
    BY DEF WireType, RequestsTyped
  <2>2. LoginMsg \in Requests(c)
    BY DEF Requests
  <2> QED
    BY <2>1, <2>2
<1>5. CASE Connect(c)
  BY <1>1, <1>4, <1>5 DEF Connect
<1>6. ASSUME NEW line \in Lines[c], Type(c, line)
      PROVE  RequestsTyped'
  <2>1. Request(line) \in Requests(c)
    BY DEF Requests
  <2>2. Append(toServer[c], Request(line)) \in Seq(Requests(c))
    BY <1>4, <2>1, AppendProperties
  <2>3. \/ toServer' = [toServer EXCEPT ![c] = Append(toServer[c], Request(line))]
        \/ toServer' = toServer
    BY <1>6 DEF Type
  <2> QED
    BY <1>1, <1>2, <2>2, <2>3
<1>7. CASE ClientReads(c) \/ ClientEvent(c) \/ Leave(c) \/ Accept(c) \/ Dangling(c)
  <2>1. toServer' = toServer
    BY <1>7 DEF ClientReads, ClientEvent, Leave, Accept, Dangling, wires
  <2> QED
    BY <1>2, <2>1
<1>8. CASE Relaunch(c) \/ ServerEvent(c)
  BY <1>1, <1>4, <1>8 DEF Relaunch, ServerEvent
<1>9. CASE ServerReads(c) \/ ServerOverruns(c)
  <2>1. toServer' = [toServer EXCEPT ![c] = Tail(toServer[c])] /\ toServer[c] # <<>>
    BY <1>9 DEF ServerReads, ServerOverruns
  <2>2. Tail(toServer[c]) \in Seq(Requests(c))
    BY <1>4, <2>1, HeadTailProperties
  <2> QED
    BY <1>1, <2>1, <2>2
<1> QED
  BY <1>3, <1>5, <1>6, <1>7, <1>8, <1>9

\* Every step keeps the open connection in the slot, or is a take-over.
LEMMA SlotInvStep ==
  ASSUME SlotInv, [Next]_vars
  PROVE  SlotInv'
<1>1. WireType /\ OpenInSlot /\ (undefined => takenOver)
  BY DEF SlotInv, DanglingOnlyAfterTakeOver
<1>2. bev \in [Clients -> {"none", "backlog", "open", "closed"}]
  BY <1>1 DEF WireType, RequestsTyped
<1>3. ASSUME NEW c \in Clients, NEW b \in {"none", "backlog", "closed"},
             bev' = [bev EXCEPT ![c] = b], UNCHANGED <<slot, takenOver, undefined>>
      PROVE  bev' \in [Clients -> {"none", "backlog", "open", "closed"}]
             /\ OpenInSlot' /\ DanglingOnlyAfterTakeOver'
  BY <1>1, <1>2, <1>3 DEF OpenInSlot, DanglingOnlyAfterTakeOver
<1>4. ASSUME UNCHANGED <<bev, slot, takenOver, undefined>>
      PROVE  bev' \in [Clients -> {"none", "backlog", "open", "closed"}]
             /\ OpenInSlot' /\ DanglingOnlyAfterTakeOver'
  BY <1>1, <1>2, <1>4 DEF OpenInSlot, DanglingOnlyAfterTakeOver
<1>5. ASSUME Next
      PROVE  bev' \in [Clients -> {"none", "backlog", "open", "closed"}]
             /\ OpenInSlot' /\ DanglingOnlyAfterTakeOver'
  <2>1. PICK c \in Clients :
          \/ Connect(c) \/ \E line \in Lines[c] : Type(c, line)
          \/ ClientReads(c) \/ ClientEvent(c) \/ Leave(c) \/ Relaunch(c)
          \/ Accept(c) \/ Dangling(c) \/ ServerReads(c) \/ ServerOverruns(c) \/ ServerEvent(c)
    BY <1>5 DEF Next
  <2>2. CASE Connect(c) \/ Relaunch(c)
    BY <1>3, <2>2 DEF Connect, Relaunch
  <2>3. CASE \/ \E line \in Lines[c] : Type(c, line)
             \/ ClientReads(c) \/ ClientEvent(c) \/ Leave(c) \/ ServerOverruns(c)
    <3>1. UNCHANGED <<bev, slot, takenOver, undefined>>
      BY <2>3 DEF Type, ClientReads, ClientEvent, Leave, ServerOverruns, server
    <3> QED
      BY <1>4, <3>1
  <2>4. CASE Accept(c)
    <3>1. /\ bev' = [bev EXCEPT ![c] = "open"] /\ slot' = c /\ undefined' = undefined
          /\ takenOver' = (takenOver \/ \E d \in Clients : slot = d /\ bev[d] = "open")
      BY <2>4 DEF Accept
    <3>2. ASSUME ~takenOver', NEW d \in Clients, bev'[d] = "open"
          PROVE  slot' = d
      BY <1>1, <1>2, <3>1, <3>2 DEF OpenInSlot
    <3> QED
      BY <1>1, <1>2, <3>1, <3>2 DEF OpenInSlot, DanglingOnlyAfterTakeOver
  <2>5. CASE Dangling(c)
    <3>1. /\ bev[c] = "open" /\ slot # c /\ UNCHANGED <<bev, slot, takenOver>>
      BY <2>5 DEF Dangling, CallbackOf
    <3>2. takenOver
      BY <1>1, <3>1 DEF OpenInSlot
    <3> QED
      BY <1>1, <1>2, <3>1, <3>2 DEF OpenInSlot, DanglingOnlyAfterTakeOver
  <2>6. CASE ServerReads(c)
    <3>1. /\ UNCHANGED <<slot, takenOver, undefined>>
          /\ bev[c] = "open" /\ slot = c
          /\ bev' = [bev EXCEPT ![c] = "open"] \/ bev' = [bev EXCEPT ![c] = "closed"]
      BY <1>1, <2>6, HandlersOpenNothing
    <3>2. bev' = [bev EXCEPT ![c] = "open"] => bev' = bev
      BY <1>2, <3>1
    <3> QED
      BY <1>3, <1>4, <3>1, <3>2
  <2>7. CASE ServerEvent(c)
    <3>1. /\ bev[c] = "open" /\ slot = c /\ bev' = [bev EXCEPT ![c] = "none"]
          /\ UNCHANGED <<takenOver, undefined>>
      BY <2>7 DEF ServerEvent, CallbackOf
    <3> QED
      BY <1>1, <1>2, <3>1 DEF OpenInSlot, DanglingOnlyAfterTakeOver
  <2> QED
    BY <2>1, <2>2, <2>3, <2>4, <2>5, <2>6, <2>7
<1>6. CASE Next
  BY <1>1, <1>5, <1>6, WireTypeStep DEF SlotInv, WireType
<1>7. CASE UNCHANGED vars
  <2>1. UNCHANGED <<bev, toServer, slot, takenOver, undefined>>
    BY <1>7 DEF vars
  <2> QED
    BY <1>1, <2>1 DEF SlotInv, WireType, RequestsTyped, OpenInSlot, DanglingOnlyAfterTakeOver
<1> QED
  BY <1>6, <1>7

\* For any number of clients and whatever they type: a callback of the server runs
\* on a destroyed connection object only if listener_cb has replaced the object of
\* a connection that was still open.
THEOREM DanglingExplained == Spec => []DanglingOnlyAfterTakeOver
<1>1. Init => SlotInv
  BY DEF Init, SlotInv, WireType, RequestsTyped, OpenInSlot, DanglingOnlyAfterTakeOver
<1>2. SlotInv /\ [Next]_vars => SlotInv'
  BY SlotInvStep
<1> QED
  BY <1>1, <1>2, PTL DEF Spec, SlotInv

-----------------------------------------------------------------------------
(* Induction over the naturals: a set of them has a least element. *)

\* A set of naturals that is not empty has a least element.
LEMMA LeastNat ==
  ASSUME NEW T \in SUBSET Nat, T # {}
  PROVE  \E x \in T : \A y \in T : x <= y
<1>1. IsWellFoundedOn(OpToRel(<, Nat), Nat)
  BY NatLessThanWellFounded
<1>2. PICK x \in T : \A y \in T : ~ (<<y, x>> \in OpToRel(<, Nat))
  BY <1>1, WFMin
<1>3. \A y \in T : ~ (y < x)
  BY <1>2 DEF OpToRel
<1> QED
  BY <1>3

\* What holds of 0, and of n + 1 when it holds of n: T is what it holds of.
LEMMA Induction ==
  ASSUME NEW N \in Nat, NEW T, 0 \in T,
         \A n \in 1..N : n - 1 \in T => n \in T
  PROVE  \A n \in 0..N : n \in T
<1>1. SUFFICES ASSUME {n \in 0..N : n \notin T} # {} PROVE FALSE
  OBVIOUS
<1>2. PICK n \in {n \in 0..N : n \notin T} : \A k \in {k \in 0..N : k \notin T} : n <= k
  <2>1. {k \in 0..N : k \notin T} \in SUBSET Nat
    OBVIOUS
  <2> QED
    BY <1>1, <2>1, LeastNat
<1>3. n # 0 /\ n - 1 \in 0..N /\ ~ (n <= n - 1)
  BY <1>2
<1> QED
  BY <1>2, <1>3

\* g[N] is made from base by N applications of F.
Chained(g, F, base, N) ==
  g[0] = base /\ \A k \in 1..N : g[k] = F[<<g[k - 1], k>>]

(* Recursion: a chain of values of S, each made from the one before, exists. *)
LEMMA Recursion ==
  ASSUME NEW N \in Nat, NEW S, NEW base \in S, NEW F \in [S \X (1..N) -> S]
  PROVE  \E g \in [0..N -> S] : Chained(g, F, base, N)
<1> DEFINE Chain(g, n) == /\ g \in [0..n -> S]
                          /\ g = [k \in 0..n |-> IF k = 0 THEN base ELSE F[<<g[k - 1], k>>]]
           T == {n \in 0..N : \E g : Chain(g, n)}
<1>1. 0 \in T
  <2> DEFINE g == [k \in 0..0 |-> base]
  <2>1. Chain(g, 0)
    OBVIOUS
  <2> HIDE DEF g, Chain
  <2> QED
    BY <2>1
<1>2. ASSUME NEW n \in 1..N, n - 1 \in T
      PROVE  n \in T
  <2>1. PICK g : Chain(g, n - 1)
    BY <1>2
  <2>2. g \in [0..(n - 1) -> S] /\ n - 1 \in 0..(n - 1)
    BY <2>1
  <2>3. F[<<g[n - 1], n>>] \in S
    BY <2>2
  <2> DEFINE h == [k \in 0..n |-> IF k = n THEN F[<<g[n - 1], n>>] ELSE g[k]]
  <2>4. ASSUME NEW k \in 0..n
        PROVE  h[k] \in S /\ h[k] = IF k = 0 THEN base ELSE F[<<h[k - 1], k>>]
    <3>1. CASE k = n
      <4>1. k # 0 /\ k - 1 \in 0..n /\ k - 1 # n
        BY <3>1
      <4> QED
        BY <2>3, <3>1, <4>1
    <3>2. CASE k # n
      <4>1. k \in 0..(n - 1) /\ (k # 0 => k - 1 \in 0..n /\ k - 1 # n)
        BY <3>2
      <4>2. g[k] = IF k = 0 THEN base ELSE F[<<g[k - 1], k>>]
        BY <2>1, <4>1
      <4> QED
        BY <2>2, <3>2, <4>1, <4>2
    <3> QED
      BY <3>1, <3>2
  <2>5. h = [k \in 0..n |-> h[k]]
    OBVIOUS
  <2> HIDE DEF h
  <2>6. Chain(h, n)
    BY <2>4, <2>5
  <2> HIDE DEF Chain
  <2> QED
    BY <2>6
<1>3. N \in T
  <2> HIDE DEF T
  <2>1. \A n \in 1..N : n - 1 \in T => n \in T
    BY <1>2
  <2> QED
    BY <1>1, <2>1, Induction
<1>4. PICK g : Chain(g, N)
  BY <1>3
<1>5. 0 \in 0..N /\ \A k \in 1..N : k \in 0..N /\ k # 0
  OBVIOUS
<1>6. g \in [0..N -> S] /\ g[0] = base /\ \A k \in 1..N : g[k] = F[<<g[k - 1], k>>]
  BY <1>4, <1>5
<1> HIDE DEF Chain
<1> QED
  BY <1>6 DEF Chained

\* Sequences of values of V, one after the other.
LEMMA ConcatOf ==
  ASSUME NEW V, NEW ss, Len(ss) \in Nat,
         \A k \in 1..Len(ss) : ss[k] \in Seq(V)
  PROVE  Concat(ss) \in Seq(V)
<1> DEFINE N == Len(ss)
           Chain(g) == g = [k \in 0..N |-> IF k = 0 THEN <<>> ELSE g[k - 1] \o ss[k]]
           F == [p \in Seq(V) \X (1..N) |-> p[1] \o ss[p[2]]]
           f == CHOOSE g : Chain(g)
           T == {k \in 0..N : f[k] \in Seq(V)}
<1>1. Concat(ss) = f[N]
  BY DEF Concat, Fold
<1>2. N \in Nat /\ \A k \in 1..N : ss[k] \in Seq(V)
  OBVIOUS
<1> HIDE DEF N
<1>3. \E g : Chain(g)
  <2>1. F \in [Seq(V) \X (1..N) -> Seq(V)]
    BY <1>2
  <2>2. PICK g \in [0..N -> Seq(V)] : Chained(g, F, <<>>, N)
    <3> HIDE DEF F
    <3>1. <<>> \in Seq(V)
      OBVIOUS
    <3> QED
      BY <1>2, <2>1, <3>1, Recursion
  <2>3. ASSUME NEW k \in 1..N
        PROVE  F[<<g[k - 1], k>>] = g[k - 1] \o ss[k]
    <3>1. k - 1 \in 0..N
      BY <1>2
    <3> QED
      BY <1>2, <2>2, <3>1 DEF Chained
  <2> HIDE DEF F
  <2>4. \A k \in 0..N : g[k] = IF k = 0 THEN <<>> ELSE g[k - 1] \o ss[k]
    <3> HIDE DEF Chain
    <3>1. \A k \in 0..N : k = 0 \/ k \in 1..N
      BY <1>2
    <3> QED
      BY <2>2, <2>3, <3>1 DEF Chained
  <2>5. g = [k \in 0..N |-> g[k]]
    BY <2>2
  <2>6. Chain(g)
    BY <2>4, <2>5
  <2> HIDE DEF Chain
  <2> QED
    BY <2>6
<1>4. Chain(f)
  <2> HIDE DEF Chain
  <2> QED
    BY <1>3
<1> HIDE DEF f, F
<1>5. 0 \in T /\ \A k \in 1..N : k - 1 \in T => k \in T
  <2>1. f[0] = <<>> /\ \A k \in 1..N : f[k] = f[k - 1] \o ss[k]
    BY <1>2, <1>4
  <2>2. \A k \in 1..N : k - 1 \in 0..N /\ k \in 0..N
    BY <1>2
  <2>3. ASSUME NEW k \in 1..N, f[k - 1] \in Seq(V)
        PROVE  f[k] \in Seq(V)
    <3>1. \A a, b \in Seq(V) : a \o b \in Seq(V)
      OBVIOUS
    <3> HIDE DEF Chain
    <3> QED
      BY <1>2, <2>1, <2>3, <3>1
  <2>4. 0 \in 0..N
    BY <1>2
  <2>5. <<>> \in Seq(V)
    OBVIOUS
  <2> HIDE DEF Chain
  <2>6. 0 \in T
    BY <2>1, <2>4, <2>5
  <2> QED
    BY <2>2, <2>3, <2>6
<1>6. N \in T
  <2> HIDE DEF T
  <2>1. \A k \in 0..N : k \in T
    BY <1>2, <1>5, Induction
  <2> QED
    BY <1>2, <2>1
<1> QED
  BY <1>1, <1>6 DEF T

-----------------------------------------------------------------------------
(* What is in the archive of a request: letters, strings and lengths, and *)
(* the header h before them.                                              *)

Context == Str("context", 7)
Texts == Strings \cup {Context}

\* The kinds of values there, and the values of each.
Kinds == {"str", "u8", "u16", "u64"}
ValuesOf(h) == [str |-> Texts, u8 |-> Letters \ {"s"}, u16 |-> Nat, u64 |-> {h, "stamp"}]

\* Runs of one kind, and archives of such runs that are being written.
Runs(h) ==
  {r \in [elem : Kinds, w : Nat, vs : UNION {Seq(ValuesOf(h)[e]) : e \in Kinds}] :
     r.vs \in Seq(ValuesOf(h)[r.elem])}

Archives(h) ==
  [header : {h}, runs : Seq(Runs(h)), len : 0..ARCHIVE_BUFF_CAPACITY, valid : BOOLEAN]

\* A run of values that their kind allows is a run of such an archive,
LEMMA RunIn ==
  ASSUME NEW h, NEW e \in Kinds, NEW w \in Nat, NEW vs \in Seq(ValuesOf(h)[e])
  PROVE  Run(e, w, vs) \in Seq(Runs(h))
<1>1. CASE vs = <<>>
  BY <1>1 DEF Run
<1>2. CASE vs # <<>>
  <2> DEFINE r == [elem |-> e, w |-> w, vs |-> vs]
  <2>1. r \in Runs(h)
    BY DEF Runs
  <2>2. Run(e, w, vs) = <<r>>
    BY <1>2 DEF Run
  <2> HIDE DEF r
  <2> QED
    BY <2>1, <2>2
<1> QED
  BY <1>1, <1>2

\* and in such a run the values are those of its kind.
LEMMA RunHas ==
  ASSUME NEW h, NEW r \in Runs(h)
  PROVE  /\ r.elem \in Kinds /\ r.w \in Nat
         /\ r.vs \in Seq(ValuesOf(h)[r.elem])
  BY DEF Runs

\* Two sequences of values, one after the other.
LEMMA ConcatTwo ==
  ASSUME NEW V, NEW a \in Seq(V), NEW b \in Seq(V)
  PROVE  a \o b \in Seq(V)
  OBVIOUS

\* A string, and a vector of strings, as they are stored.
LEMMA StoreStrIn ==
  ASSUME NEW h, NEW s \in Texts
  PROVE  StoreStr(s) \in Seq(Runs(h))
<1>1. U16(s.len) \in Nat /\ s.len \in Nat
  BY DEF U16, Texts, Strings, Context, Str
<1>2. <<U16(s.len)>> \in Seq(ValuesOf(h)["u16"]) /\ <<s>> \in Seq(ValuesOf(h)["str"])
  BY <1>1 DEF ValuesOf
<1>3. Width["u16"] \in Nat
  BY DEF Width
<1>4. /\ Run("u16", Width["u16"], <<U16(s.len)>>) \in Seq(Runs(h))
      /\ Run("str", s.len, <<s>>) \in Seq(Runs(h))
  BY <1>1, <1>2, <1>3, RunIn DEF Kinds
<1> QED
  BY <1>4, ConcatTwo DEF StoreStr, Num

\* A vector of them.
LEMMA StoreStrsIn ==
  ASSUME NEW h, NEW p \in Seq(Texts)
  PROVE  StoreVec("str", p) \in Seq(Runs(h))
<1> DEFINE ss == [k \in 1..Len(p) |-> StoreStr(p[k])]
<1>1. Len(p) \in Nat /\ U16(Len(p)) \in Nat /\ Width["u16"] \in Nat
  BY DEF U16, Width
<1>2. Num("u16", U16(Len(p))) \in Seq(Runs(h))
  <2>1. <<U16(Len(p))>> \in Seq(ValuesOf(h)["u16"])
    BY <1>1 DEF ValuesOf
  <2> QED
    BY <1>1, <2>1, RunIn DEF Num, Kinds
<1>3. Len(ss) = Len(p)
  BY <1>1
<1>4. \A k \in 1..Len(p) : ss[k] \in Seq(Runs(h))
  BY StoreStrIn
<1>5. Concat(ss) \in Seq(Runs(h))
  <2> HIDE DEF ss
  <2> QED
    BY <1>1, <1>3, <1>4, ConcatOf
<1>6. StoreElems("str", p) = Concat(ss)
  BY Zenon DEF StoreElems
<1> HIDE DEF ss
<1> QED
  BY <1>2, <1>5, <1>6, ConcatTwo DEF StoreVec

\* What is sent for what is typed: params, and before them the letter and the context.
SubscribeMsg(params) == [type |-> "subscribe", data |-> <<params>>]
CommandMsg(cmd, params) == [type |-> "command", data |-> <<cmd, Context, params>>]

\* What operator<< stores of a subscription,
LEMMA SubscribePayload ==
  ASSUME NEW h, NEW p \in Seq(Texts)
  PROVE  Payload(SubscribeMsg(p)) \in Seq(Runs(h))
<1> DEFINE m == SubscribeMsg(p)
           ss == [k \in 1..Len(m.data) |-> StoreField(Stored[m.type][k], m.data[k])]
<1>1. m.type = "subscribe" /\ m.data = <<p>>
  BY DEF SubscribeMsg
<1>2. Len(m.data) = 1 /\ Stored[m.type] = <<Vec("str")>>
  BY <1>1 DEF Stored
<1>3. ss[1] = StoreField(Vec("str"), p)
  BY <1>1, <1>2
<1>4. StoreField(Vec("str"), p) = StoreVec("str", p)
  BY Zenon DEF StoreField, Vec
<1>5. Len(ss) = 1 /\ \A k \in 1..Len(ss) : k = 1
  BY <1>2
<1>6. Payload(m) = Concat(ss)
  BY DEF Payload
<1> HIDE DEF ss, m
<1>7. Payload(m) \in Seq(Runs(h))
  BY <1>3, <1>4, <1>5, <1>6, StoreStrsIn, ConcatOf
<1> QED
  BY <1>7 DEF m

\* and of a command.
LEMMA CommandPayload ==
  ASSUME NEW h, NEW cmd \in Letters \ {"s"}, NEW p \in Seq(Texts)
  PROVE  Payload(CommandMsg(cmd, p)) \in Seq(Runs(h))
<1> DEFINE m == CommandMsg(cmd, p)
           ctx == Context
           ss == [k \in 1..Len(m.data) |-> StoreField(Stored[m.type][k], m.data[k])]
<1>1. m.type = "command" /\ m.data = <<cmd, ctx, p>>
  BY DEF CommandMsg
<1>2. Len(m.data) = 3 /\ Stored[m.type] = <<One("u8"), One("str"), Vec("str")>>
  BY <1>1 DEF Stored
<1>3. /\ ss[1] = StoreField(One("u8"), cmd)
      /\ ss[2] = StoreField(One("str"), ctx)
      /\ ss[3] = StoreField(Vec("str"), p)
  BY <1>1, <1>2
<1>4. ss[1] \in Seq(Runs(h))
  <2>1. StoreField(One("u8"), cmd) = Run("u8", Width["u8"], <<cmd>>)
    BY Zenon DEF StoreField, One, StoreElems
  <2>2. Width["u8"] \in Nat /\ <<cmd>> \in Seq(ValuesOf(h)["u8"])
    BY DEF Width, ValuesOf
  <2> QED
    BY <1>3, <2>1, <2>2, RunIn DEF Kinds
<1>5. ss[2] \in Seq(Runs(h))
  <2> DEFINE tt == [k \in 1..Len(<<ctx>>) |-> StoreStr(<<ctx>>[k])]
  <2>1. StoreField(One("str"), ctx) = Concat(tt)
    BY Zenon DEF StoreField, One, StoreElems
  <2>2. ctx \in Texts
    BY DEF Texts, Context
  <2>3. Len(tt) = 1 /\ tt[1] = StoreStr(ctx) /\ \A k \in 1..Len(tt) : k = 1
    OBVIOUS
  <2> HIDE DEF tt, ctx
  <2>4. Concat(tt) \in Seq(Runs(h))
    BY <2>2, <2>3, StoreStrIn, ConcatOf
  <2> QED
    BY <1>3, <2>1, <2>4
<1>6. ss[3] \in Seq(Runs(h))
  <2>1. StoreField(Vec("str"), p) = StoreVec("str", p)
    BY Zenon DEF StoreField, Vec
  <2> QED
    BY <1>3, <2>1, StoreStrsIn
<1>7. Len(ss) = 3 /\ \A k \in 1..Len(ss) : k = 1 \/ k = 2 \/ k = 3
  BY <1>2
<1>8. Payload(m) = Concat(ss)
  BY DEF Payload
<1> HIDE DEF ss, m
<1>9. Payload(m) \in Seq(Runs(h))
  BY <1>4, <1>5, <1>6, <1>7, <1>8, ConcatOf
<1> QED
  BY <1>9 DEF m

-----------------------------------------------------------------------------
(* What is written is of these runs, and fits. *)

\* One more run is written, or as much of it as fits the buffer.
LEMMA WriteIn ==
  ASSUME NEW h, NEW a \in Archives(h), NEW r \in Runs(h)
  PROVE  Write(a, r) \in Archives(h)
<1> DEFINE n == Written(a, r)
           N == Len(r.vs)
           C == ARCHIVE_BUFF_CAPACITY
<1>1. /\ r.elem \in Kinds /\ r.w \in Nat /\ r.vs \in Seq(ValuesOf(h)[r.elem])
      /\ N \in Nat
  BY RunHas
<1>2. C \in Nat /\ a.len \in 0..C /\ a.header = h /\ a.runs \in Seq(Runs(h)) /\ a.valid \in BOOLEAN
  BY RecordsAssumption DEF Archives
<1>3. n \in 0..N /\ a.len + n * r.w \in 0..C
  <2> DEFINE w == r.w
             l == a.len
             room == C - l
             q == room \div w
  <2>1. n = IF l + w * N <= C THEN N ELSE q
    BY DEF Written
  <2>2. w \in Nat /\ l \in 0..C /\ N \in Nat /\ C \in Nat
    BY <1>1, <1>2
  <2> HIDE DEF w, l, N, C, n
  <2>3. w * N = N * w
    BY <2>2
  <2>4. CASE l + w * N <= C
    <3>1. n = N /\ N * w \in Nat
      BY <2>1, <2>2, <2>4
    <3> DEFINE x == N * w
    <3> HIDE DEF x
    <3>2. l + x <= C /\ x \in Nat
      BY <2>3, <2>4, <3>1 DEF x
    <3>3. l + x \in 0..C
      BY <2>2, <3>2
    <3> QED
      BY <2>2, <3>1, <3>3 DEF x, w, l
  <2>5. CASE ~ (l + w * N <= C)
    <3>1. w # 0
      BY <2>2, <2>5
    <3>2. room \in Nat
      BY <2>2
    <3> HIDE DEF room
    <3>3. q \in Nat /\ q * w <= room
      BY <2>2, <3>1, <3>2
    <3> HIDE DEF q
    <3>4. q < N
      <4>1. SUFFICES ASSUME N <= q PROVE FALSE
        BY <2>2, <3>3
      <4>2. w * N <= w * q
        BY <2>2, <3>3, <4>1
      <4>3. w * q = q * w
        BY <2>2, <3>3
      <4> DEFINE x == w * N
                 y == q * w
      <4>4. x \in Nat /\ y \in Nat /\ x <= y /\ y <= room /\ ~ (l + x <= C)
        BY <2>2, <2>5, <3>3, <4>2, <4>3
      <4> HIDE DEF x, y
      <4> QED
        BY <2>2, <3>2, <4>4 DEF room
    <3>5. q * w \in Nat
      BY <2>2, <3>3
    <3> DEFINE y == q * w
    <3>6. y \in Nat /\ y <= room
      BY <3>3, <3>5
    <3> HIDE DEF y
    <3>7. l + y \in 0..C
      BY <2>2, <3>6 DEF room
    <3> QED
      BY <2>1, <2>2, <2>5, <3>3, <3>4, <3>7 DEF y, w, l
  <2> QED
    BY <2>4, <2>5
<1> HIDE DEF n, N, C
<1>4. SubSeq(r.vs, 1, n) \in Seq(ValuesOf(h)[r.elem])
  <2>1. \A V : \A s \in Seq(V) : \A i \in 0..Len(s) : SubSeq(s, 1, i) \in Seq(V)
    OBVIOUS
  <2> QED
    BY <1>1, <1>3, <2>1 DEF N
<1>5. Run(r.elem, r.w, SubSeq(r.vs, 1, n)) \in Seq(Runs(h))
  BY <1>1, <1>4, RunIn
<1>6. a.runs \o Run(r.elem, r.w, SubSeq(r.vs, 1, n)) \in Seq(Runs(h))
  BY <1>2, <1>5, ConcatTwo
<1> DEFINE runs == a.runs \o Run(r.elem, r.w, SubSeq(r.vs, 1, n))
           valid == a.valid /\ n = N
<1>7. Write(a, r) = [header |-> h, runs |-> runs, len |-> a.len + n * r.w, valid |-> valid]
  BY <1>2 DEF Write, n, N
<1>8. runs \in Seq(Runs(h)) /\ valid \in BOOLEAN
  BY <1>6
<1> HIDE DEF runs, valid
<1> QED
  BY <1>3, <1>7, <1>8 DEF Archives, C

\* All of them.
LEMMA FoldWriteIn ==
  ASSUME NEW h, NEW base \in Archives(h), NEW runs \in Seq(Runs(h))
  PROVE  Fold(Write, base, runs) \in Archives(h)
<1> DEFINE N == Len(runs)
           S == Archives(h)
           Chain(g) == g = [k \in 0..N |-> IF k = 0 THEN base ELSE Write(g[k - 1], runs[k])]
           F == [p \in S \X (1..N) |-> Write(p[1], runs[p[2]])]
           f == CHOOSE g : Chain(g)
           T == {k \in 0..N : f[k] \in S}
<1>1. Fold(Write, base, runs) = f[N]
  BY DEF Fold
<1>2. N \in Nat /\ base \in S /\ \A a \in S : \A k \in 1..N : Write(a, runs[k]) \in S
  <2>1. \A k \in 1..N : runs[k] \in Runs(h)
    OBVIOUS
  <2> QED
    BY <2>1, WriteIn
<1> HIDE DEF N, S
<1>3. \E g : Chain(g)
  <2>1. F \in [S \X (1..N) -> S]
    BY <1>2
  <2>2. PICK g \in [0..N -> S] : Chained(g, F, base, N)
    <3> HIDE DEF F
    <3> QED
      BY <1>2, <2>1, Recursion
  <2>3. ASSUME NEW k \in 1..N
        PROVE  F[<<g[k - 1], k>>] = Write(g[k - 1], runs[k])
    <3>1. k - 1 \in 0..N
      BY <1>2
    <3> QED
      BY <1>2, <2>2, <3>1
  <2> HIDE DEF F
  <2>4. \A k \in 0..N : g[k] = IF k = 0 THEN base ELSE Write(g[k - 1], runs[k])
    <3> HIDE DEF Chain
    <3>1. \A k \in 0..N : k = 0 \/ k \in 1..N
      BY <1>2
    <3> QED
      BY <2>2, <2>3, <3>1 DEF Chained
  <2>5. g = [k \in 0..N |-> g[k]]
    BY <2>2
  <2>6. Chain(g)
    BY <2>4, <2>5
  <2> HIDE DEF Chain
  <2> QED
    BY <2>6
<1>4. Chain(f)
  <2> HIDE DEF Chain
  <2> QED
    BY <1>3
<1> HIDE DEF f, F
<1>5. f[0] = base /\ \A k \in 1..N : f[k] = Write(f[k - 1], runs[k])
  BY <1>2, <1>4
<1> HIDE DEF Chain
<1>6. 0 \in T /\ \A k \in 1..N : k - 1 \in T => k \in T
  <2>1. \A k \in 1..N : k - 1 \in 0..N /\ k \in 0..N
    BY <1>2
  <2>2. 0 \in 0..N
    BY <1>2
  <2> QED
    BY <1>2, <1>5, <2>1, <2>2
<1>7. N \in T
  <2> HIDE DEF T
  <2>1. \A k \in 0..N : k \in T
    BY <1>2, <1>6, Induction
  <2> QED
    BY <1>2, <2>1
<1> QED
  BY <1>1, <1>7 DEF T, S

\* The archive of a message whose payload is of these runs.
LEMMA ArchiveIn ==
  ASSUME NEW m, \A h : Payload(m) \in Seq(Runs(h))
  PROVE  \E h : h.type = m.type /\ Archive(m) \in Archives(h)
<1> DEFINE h == [type |-> m.type, len |-> U16(WIRE_TSTAMP_LEN + CalcLen(m))]
           base == [header |-> h, runs |-> <<>>, len |-> 0, valid |-> TRUE]
           runs == Num("u64", h) \o Num("u64", "stamp") \o Payload(m)
<1>1. Archive(m) = Fold(Write, base, runs)
  BY Zenon DEF Archive
<1>2. h.type = m.type
  OBVIOUS
<1>3. base \in Archives(h)
  <2> HIDE DEF h
  <2> QED
    BY RecordsAssumption DEF Archives
<1> HIDE DEF h, base
<1>4. runs \in Seq(Runs(h))
  <2>1. Width["u64"] \in Nat /\ <<h>> \in Seq(ValuesOf(h)["u64"]) /\ <<"stamp">> \in Seq(ValuesOf(h)["u64"])
    BY DEF Width, ValuesOf
  <2>2. Num("u64", h) \in Seq(Runs(h)) /\ Num("u64", "stamp") \in Seq(Runs(h))
    BY <2>1, RunIn DEF Num, Kinds
  <2>3. Payload(m) \in Seq(Runs(h))
    OBVIOUS
  <2> QED
    BY <2>2, <2>3, ConcatTwo
<1> HIDE DEF runs
<1>5. Archive(m) \in Archives(h)
  BY <1>1, <1>3, <1>4, FoldWriteIn
<1> QED
  BY <1>2, <1>5

-----------------------------------------------------------------------------
(* What is read out of such an archive again. *)

\* A reader in such an archive that has read values of E for the field it is at.
IsReader(h, r, E) ==
  /\ r = [runs |-> r.runs, left |-> r.left, valid |-> r.valid, elems |-> r.elems, data |-> r.data]
  /\ r.runs \in Seq(Runs(h)) /\ r.elems \in Seq(E)

\* A reader with one of its fields changed.
LEMMA FieldsOf ==
  ASSUME NEW r, NEW v,
         r = [runs |-> r.runs, left |-> r.left, valid |-> r.valid, elems |-> r.elems, data |-> r.data]
  PROVE  /\ [r EXCEPT !.valid = v] =
              [runs |-> r.runs, left |-> r.left, valid |-> v, elems |-> r.elems, data |-> r.data]
         /\ [r EXCEPT !.elems = v] =
              [runs |-> r.runs, left |-> r.left, valid |-> r.valid, elems |-> v, data |-> r.data]
         /\ [r EXCEPT !.data = v] =
              [runs |-> r.runs, left |-> r.left, valid |-> r.valid, elems |-> r.elems, data |-> v]
<1> DEFINE L == {"runs", "left", "valid", "elems", "data"}
           With(n) == [x \in L |-> IF x = n THEN v ELSE r[x]]
<1>1. DOMAIN r = L
  OBVIOUS
<1>2. /\ With("valid") =
           [runs |-> r.runs, left |-> r.left, valid |-> v, elems |-> r.elems, data |-> r.data]
      /\ With("elems") =
           [runs |-> r.runs, left |-> r.left, valid |-> r.valid, elems |-> v, data |-> r.data]
      /\ With("data") =
           [runs |-> r.runs, left |-> r.left, valid |-> r.valid, elems |-> r.elems, data |-> v]
  BY SMT
<1>3. "valid" \in L /\ "elems" \in L /\ "data" \in L
  OBVIOUS
<1> HIDE DEF L
<1>4. [r EXCEPT !.valid = v] = With("valid")
  BY <1>1, Zenon
<1>5. [r EXCEPT !.elems = v] = With("elems")
  BY <1>1, Zenon
<1>6. [r EXCEPT !.data = v] = With("data")
  BY <1>1, Zenon
<1> HIDE DEF With
<1> QED
  BY <1>2, <1>4, <1>5, <1>6, Zenon

\* From reader r, t has read n values of kind e, or the reading has ended.
Taken(h, r, e, n, t) ==
  \/ \E vs \in Seq(ValuesOf(h)[e]), runs \in Seq(Runs(h)) : \E left :
       /\ Len(vs) = n
       /\ t = [runs |-> runs, left |-> left, valid |-> r.valid,
               elems |-> r.elems \o vs, data |-> r.data]
  \/ t = [runs |-> r.runs, left |-> r.left, valid |-> FALSE, elems |-> r.elems, data |-> r.data]

\* What Take does, for a kind and a number of values.
LEMMA TakeOf ==
  ASSUME NEW h, NEW r, NEW E, IsReader(h, r, E), NEW e \in Kinds, NEW w, NEW n, n # 0
  PROVE  Taken(h, r, e, n, Take(r, e, w, n))
<1>1. CASE /\ n * w <= r.left /\ r.runs # <<>>
           /\ Head(r.runs).elem = e /\ Head(r.runs).w = w /\ Len(Head(r.runs).vs) = n
  <2> DEFINE vs == Head(r.runs).vs
             runs == Tail(r.runs)
             left == r.left - n * w
  <2>1. Take(r, e, w, n) = [runs |-> runs, left |-> left, valid |-> r.valid,
                            elems |-> r.elems \o vs, data |-> r.data]
    BY <1>1 DEF Take
  <2>2. Head(r.runs) \in Runs(h) /\ runs \in Seq(Runs(h))
    BY <1>1 DEF IsReader
  <2>3. vs \in Seq(ValuesOf(h)[e]) /\ Len(vs) = n
    BY <1>1, <2>2, RunHas
  <2> HIDE DEF vs, runs, left
  <2> QED
    BY <2>1, <2>2, <2>3 DEF Taken
<1>2. CASE ~ (/\ n * w <= r.left /\ r.runs # <<>>
              /\ Head(r.runs).elem = e /\ Head(r.runs).w = w /\ Len(Head(r.runs).vs) = n)
  <2>1. Take(r, e, w, n) = [r EXCEPT !.valid = FALSE]
    BY <1>2, Zenon DEF Take
  <2>2. [r EXCEPT !.valid = FALSE] =
          [runs |-> r.runs, left |-> r.left, valid |-> FALSE, elems |-> r.elems, data |-> r.data]
    BY FieldsOf, Zenon DEF IsReader
  <2> QED
    BY <2>1, <2>2, Zenon DEF Taken
<1> QED
  BY <1>1, <1>2

\* One value.
LEMMA OneOf ==
  ASSUME NEW V, NEW vs \in Seq(V), Len(vs) = 1
  PROVE  vs[1] \in V /\ vs = <<vs[1]>>
  OBVIOUS

\* A length is read and used up: the values read before it are there again.
LEMMA LengthOf ==
  ASSUME NEW h, NEW r, NEW E, IsReader(h, r, E), r.valid, NEW w
  PROVE  LET n == Take(r, "u16", w, 1)
         IN \/ ~ n.valid /\ IsReader(h, n, E) /\ n.data = r.data
            \/ /\ n.valid /\ IsReader(h, Used(n), E) /\ Used(n).data = r.data
               /\ Used(n).valid /\ Used(n).elems = r.elems /\ Length(n) \in Nat
<1> DEFINE n == Take(r, "u16", w, 1)
           Fails == ~ n.valid /\ IsReader(h, n, E) /\ n.data = r.data
           Reads == /\ n.valid /\ IsReader(h, Used(n), E) /\ Used(n).data = r.data
                    /\ Used(n).valid /\ Used(n).elems = r.elems /\ Length(n) \in Nat
<1>1. \/ \E vs \in Seq(ValuesOf(h)["u16"]), runs \in Seq(Runs(h)) : \E left :
           /\ Len(vs) = 1
           /\ n = [runs |-> runs, left |-> left, valid |-> r.valid,
                   elems |-> r.elems \o vs, data |-> r.data]
      \/ n = [runs |-> r.runs, left |-> r.left, valid |-> FALSE, elems |-> r.elems, data |-> r.data]
  <2>1. "u16" \in Kinds /\ 1 # 0
    BY DEF Kinds
  <2>2. Taken(h, r, "u16", 1, n)
    BY <2>1, TakeOf
  <2> HIDE DEF n
  <2> QED
    BY <2>2 DEF Taken
<1> HIDE DEF n
<1>2. ASSUME n = [runs |-> r.runs, left |-> r.left, valid |-> FALSE, elems |-> r.elems, data |-> r.data]
      PROVE  Fails
  BY <1>2 DEF IsReader
<1>3. ASSUME NEW vs \in Seq(ValuesOf(h)["u16"]), NEW left, NEW runs \in Seq(Runs(h)), Len(vs) = 1,
             n = [runs |-> runs, left |-> left, valid |-> r.valid,
                  elems |-> r.elems \o vs, data |-> r.data]
      PROVE  Reads
  <2>1. PICK x \in Nat : vs = <<x>>
    <3>1. vs \in Seq(Nat)
      BY DEF ValuesOf
    <3> QED
      BY <1>3, <3>1, OneOf
  <2>2. r.elems \in Seq(E)
    BY DEF IsReader
  <2>3. r.elems \o vs = Append(r.elems, x)
    BY <2>1, <2>2
  <2>4. Front(Append(r.elems, x)) = r.elems /\ Last(Append(r.elems, x)) = x
    BY <2>2 DEF Front, Last
  <2>5. n = [runs |-> runs, left |-> left, valid |-> r.valid, elems |-> Append(r.elems, x), data |-> r.data]
    BY <1>3, <2>3
  <2>6. Length(n) = x
    BY <2>4, <2>5 DEF Length
  <2>7. Used(n) = [runs |-> runs, left |-> left, valid |-> r.valid, elems |-> r.elems, data |-> r.data]
    <3>1. Used(n) = [n EXCEPT !.elems = r.elems]
      BY <2>4, <2>5 DEF Used
    <3>2. /\ n = [runs |-> n.runs, left |-> n.left, valid |-> n.valid, elems |-> n.elems, data |-> n.data]
          /\ n.runs = runs /\ n.left = left /\ n.valid = r.valid /\ n.data = r.data
      BY <2>5
    <3>3. [n EXCEPT !.elems = r.elems] =
            [runs |-> n.runs, left |-> n.left, valid |-> n.valid, elems |-> r.elems, data |-> n.data]
      BY <3>2, FieldsOf, Zenon
    <3> QED
      BY <3>1, <3>2, <3>3, Zenon
  <2> DEFINE u == Used(n)
  <2> HIDE DEF u
  <2>8. IsReader(h, u, E) /\ u.data = r.data /\ u.valid = r.valid /\ u.elems = r.elems
    BY <2>2, <2>7 DEF IsReader, u
  <2>9. n.valid = r.valid
    BY <2>5
  <2> QED
    BY <2>6, <2>8, <2>9 DEF u
<1> HIDE DEF Fails, Reads
<1>4. Fails \/ Reads
  BY <1>1, <1>2, <1>3
<1> QED
  BY <1>4 DEF n, Fails, Reads

\* A string is read: one value more, or none and the reading has ended.
LEMMA LoadStrOf ==
  ASSUME NEW h, NEW r, IsReader(h, r, Texts), r.valid
  PROVE  IsReader(h, LoadStr(r), Texts) /\ LoadStr(r).data = r.data
<1> DEFINE n == Take(r, "u16", 2, 1)
           t == Take(Used(n), "str", Length(n), 1)
<1>1. LoadStr(r) = IF n.valid THEN t ELSE n
  BY DEF LoadStr
<1>2. \/ ~ n.valid /\ IsReader(h, n, Texts) /\ n.data = r.data
      \/ n.valid /\ IsReader(h, Used(n), Texts) /\ Used(n).data = r.data
  BY LengthOf
<1>3. ASSUME n.valid
      PROVE  Taken(h, Used(n), "str", 1, t)
  <2>1. IsReader(h, Used(n), Texts)
    BY <1>2, <1>3
  <2>2. "str" \in Kinds /\ 1 # 0
    BY DEF Kinds
  <2> HIDE DEF n
  <2> QED
    BY <2>1, <2>2, TakeOf
<1> HIDE DEF n, t
<1>4. ASSUME n.valid
      PROVE  IsReader(h, t, Texts) /\ t.data = Used(n).data
  <2> DEFINE u == Used(n)
  <2>1. u.elems \in Seq(Texts) /\ u.runs \in Seq(Runs(h)) /\ Taken(h, u, "str", 1, t)
    BY <1>2, <1>3, <1>4 DEF IsReader
  <2> HIDE DEF u
  <2>2. ASSUME t = [runs |-> u.runs, left |-> u.left, valid |-> FALSE, elems |-> u.elems, data |-> u.data]
        PROVE  IsReader(h, t, Texts) /\ t.data = u.data
    BY <2>1, <2>2 DEF IsReader
  <2>3. ASSUME NEW vs \in Seq(ValuesOf(h)["str"]), NEW runs \in Seq(Runs(h)), NEW left,
               t = [runs |-> runs, left |-> left, valid |-> u.valid,
                    elems |-> u.elems \o vs, data |-> u.data]
        PROVE  IsReader(h, t, Texts) /\ t.data = u.data
    <3>1. vs \in Seq(Texts)
      BY DEF ValuesOf
    <3>2. u.elems \o vs \in Seq(Texts)
      BY <2>1, <3>1, ConcatTwo
    <3> QED
      BY <2>3, <3>2 DEF IsReader
  <2>4. IsReader(h, t, Texts) /\ t.data = u.data
    BY <2>1, <2>2, <2>3 DEF Taken
  <2> QED
    BY <2>4 DEF u
<1> QED
  BY <1>1, <1>2, <1>4

\* Reading so many strings: a chain of readers.
LEMMA StrsChain ==
  ASSUME NEW r, NEW n \in Nat
  PROVE  \E g : /\ g[0] = r
                /\ \A k \in 1..n : g[k] = IF g[k - 1].valid THEN LoadStr(g[k - 1]) ELSE g[k - 1]
                /\ LoadElems(r, "str", n) = g[n]
<1> DEFINE Step(q) == IF q.valid THEN LoadStr(q) ELSE q
           Chain(g, N) == g = [k \in 0..N |-> IF k = 0 THEN r ELSE Step(g[k - 1])]
           T == {N \in 0..n : \E g : Chain(g, N)}
<1>1. 0 \in T
  <2> DEFINE g == [k \in 0..0 |-> r]
  <2>1. Chain(g, 0)
    OBVIOUS
  <2> HIDE DEF g, Chain
  <2> QED
    BY <2>1
<1>2. ASSUME NEW N \in 1..n, N - 1 \in T
      PROVE  N \in T
  <2> HIDE DEF Step
  <2>1. PICK g : Chain(g, N - 1)
    BY <1>2
  <2> DEFINE h == [k \in 0..N |-> IF k = N THEN Step(g[N - 1]) ELSE g[k]]
  <2>2. ASSUME NEW k \in 0..N
        PROVE  h[k] = IF k = 0 THEN r ELSE Step(h[k - 1])
    <3>1. CASE k = N
      <4>1. k # 0 /\ k - 1 \in 0..N /\ k - 1 # N
        BY <3>1
      <4> QED
        BY <3>1, <4>1
    <3>2. CASE k # N
      <4>1. k \in 0..(N - 1) /\ (k # 0 => k - 1 \in 0..N /\ k - 1 # N)
        BY <3>2
      <4>2. g[k] = IF k = 0 THEN r ELSE Step(g[k - 1])
        BY <2>1, <4>1
      <4> QED
        BY <3>2, <4>1, <4>2
    <3> QED
      BY <3>1, <3>2
  <2>3. h = [k \in 0..N |-> h[k]]
    OBVIOUS
  <2> HIDE DEF h
  <2>4. Chain(h, N)
    BY <2>2, <2>3
  <2> HIDE DEF Chain
  <2> QED
    BY <2>4
<1>3. \E g : Chain(g, n)
  <2> HIDE DEF T
  <2>1. n \in T
    <3> HIDE DEF Chain
    <3>1. \A N \in 0..n : N \in T
      BY <1>1, <1>2, Induction
    <3> QED
      BY <3>1
  <2> HIDE DEF Chain
  <2> QED
    BY <2>1 DEF T
<1> DEFINE ns == [k \in 1..n |-> k]
           f == CHOOSE g : g = [k \in 0..Len(ns) |-> IF k = 0 THEN r ELSE Step(g[k - 1])]
<1>4. Len(ns) = n
  OBVIOUS
<1>5. LoadElems(r, "str", n) = f[Len(ns)]
  BY Zenon DEF LoadElems, Fold
<1>6. f = CHOOSE g : Chain(g, n)
  <2> HIDE DEF ns, Step
  <2> QED
    BY <1>4
<1> HIDE DEF f, ns
<1>7. Chain(f, n)
  <2> HIDE DEF Chain
  <2> QED
    BY <1>3, <1>6
<1> HIDE DEF Step
<1>8. f[0] = r /\ \A k \in 1..n : f[k] = Step(f[k - 1])
  BY <1>7
<1>9. LoadElems(r, "str", n) = f[n]
  BY <1>4, <1>5
<1> HIDE DEF Chain
<1> QED
  BY <1>8, <1>9 DEF Step

\* A vector of strings: strings are read and nothing else.
LEMMA StrsOf ==
  ASSUME NEW h, NEW r, IsReader(h, r, Texts), NEW n \in Nat
  PROVE  /\ IsReader(h, LoadElems(r, "str", n), Texts)
         /\ LoadElems(r, "str", n).data = r.data
<1>1. PICK g : /\ g[0] = r
               /\ \A k \in 1..n : g[k] = IF g[k - 1].valid THEN LoadStr(g[k - 1]) ELSE g[k - 1]
               /\ LoadElems(r, "str", n) = g[n]
  BY StrsChain
<1> DEFINE Good(q) == IsReader(h, q, Texts) /\ q.data = r.data
           T == {k \in 0..n : Good(g[k])}
<1>2. ASSUME NEW k \in 1..n, Good(g[k - 1])
      PROVE  Good(g[k])
  BY <1>1, <1>2, LoadStrOf
<1>3. Good(g[0])
  BY <1>1
<1> HIDE DEF Good
<1>4. 0 \in T /\ \A k \in 1..n : k - 1 \in T => k \in T
  <2>1. 0 \in 0..n /\ \A k \in 1..n : k \in 0..n
    OBVIOUS
  <2> QED
    BY <1>2, <1>3, <2>1
<1>5. n \in T
  <2> HIDE DEF T
  <2>1. \A k \in 0..n : k \in T
    BY <1>4, Induction
  <2> QED
    BY <2>1
<1> QED
  BY <1>1, <1>5 DEF Good

\* A reader about to read the next field.
Begin(r) == [r EXCEPT !.elems = <<>>]

\* What a field adds to the message.
LEMMA MemberAdded ==
  ASSUME NEW h, NEW r, NEW E, IsReader(h, r, E), r.valid, NEW f, NEW G,
         NEW q, q = LoadField(Begin(r), f), IsReader(h, q, G)
  PROVE  /\ IsReader(h, LoadNext(r, f), G)
         /\ q.valid => LoadNext(r, f).data = Append(q.data, Member(q, f))
         /\ LoadNext(r, f).valid = q.valid
<1> DEFINE m == Append(q.data, Member(q, f))
           p == [q EXCEPT !.data = m]
<1>1. LoadNext(r, f) = IF q.valid THEN p ELSE q
  BY DEF LoadNext, Begin
<1>2. q = [runs |-> q.runs, left |-> q.left, valid |-> q.valid, elems |-> q.elems, data |-> q.data]
  BY DEF IsReader
<1>3. p = [runs |-> q.runs, left |-> q.left, valid |-> q.valid, elems |-> q.elems, data |-> m]
  <2> HIDE DEF m
  <2> QED
    BY <1>2, FieldsOf, Zenon
<1> HIDE DEF p, m
<1>4. IsReader(h, p, G) /\ p.data = m /\ p.valid = q.valid
  BY <1>3 DEF IsReader
<1> QED
  BY <1>1, <1>4 DEF m

\* A reader at the beginning of a field.
LEMMA Begins ==
  ASSUME NEW h, NEW r, NEW E, IsReader(h, r, E), r.valid, NEW G
  PROVE  LET b == Begin(r) IN IsReader(h, b, G) /\ b.valid /\ b.data = r.data /\ b.elems = <<>>
<1> DEFINE b == Begin(r)
<1>1. b = [runs |-> r.runs, left |-> r.left, valid |-> r.valid, elems |-> <<>>, data |-> r.data]
  BY FieldsOf, Zenon DEF IsReader, Begin
<1> HIDE DEF b
<1>2. IsReader(h, b, G) /\ b.valid /\ b.data = r.data /\ b.elems = <<>>
  BY <1>1 DEF IsReader
<1> QED
  BY <1>2 DEF b

\* The field that is a vector of strings,
LEMMA NextStrs ==
  ASSUME NEW h, NEW r, NEW E, IsReader(h, r, E), r.valid
  PROVE  LET q == LoadNext(r, Vec("str"))
         IN /\ IsReader(h, q, Texts)
            /\ q.valid => \E p \in Seq(Texts) : q.data = Append(r.data, p)
<1> DEFINE b == Begin(r)
           n == Take(b, "u16", 2, 1)
           q == LoadField(b, Vec("str"))
<1>1. IsReader(h, b, Texts) /\ b.valid /\ b.data = r.data
  BY Begins
<1>2. q = IF n.valid THEN LoadElems(Used(n), "str", Length(n)) ELSE n
  <2>1. q = LoadVec(b, "str")
    <3> HIDE DEF b
    <3> QED
      BY Zenon DEF LoadField, Vec
  <2> HIDE DEF b, q
  <2> QED
    BY <2>1 DEF LoadVec
<1>3. IsReader(h, q, Texts) /\ q.data = b.data
  <2> HIDE DEF b, q
  <2>1. \/ ~ n.valid /\ IsReader(h, n, Texts) /\ n.data = b.data
        \/ n.valid /\ IsReader(h, Used(n), Texts) /\ Used(n).data = b.data /\ Length(n) \in Nat
    BY <1>1, LengthOf
  <2> HIDE DEF n
  <2> QED
    BY <1>2, <2>1, StrsOf
<1>4. Member(q, Vec("str")) = q.elems
  <2>1. Vec("str").kind = "vec"
    BY DEF Vec
  <2> HIDE DEF q
  <2> QED
    BY <2>1, Zenon DEF Member
<1>5. /\ IsReader(h, LoadNext(r, Vec("str")), Texts)
      /\ q.valid => LoadNext(r, Vec("str")).data = Append(q.data, q.elems)
      /\ LoadNext(r, Vec("str")).valid = q.valid
  <2>1. q = LoadField(Begin(r), Vec("str"))
    OBVIOUS
  <2> HIDE DEF q
  <2> QED
    BY <1>3, <1>4, <2>1, MemberAdded
<1> HIDE DEF q, b
<1>6. q.elems \in Seq(Texts)
  BY <1>3 DEF IsReader
<1> QED
  BY <1>1, <1>3, <1>5, <1>6

\* the one that is a string,
LEMMA NextStr ==
  ASSUME NEW h, NEW r, NEW E, IsReader(h, r, E), r.valid
  PROVE  LET q == LoadNext(r, One("str"))
         IN /\ IsReader(h, q, Texts)
            /\ q.valid => \E x : q.data = Append(r.data, x)
<1> DEFINE b == Begin(r)
           q == LoadField(b, One("str"))
<1>1. IsReader(h, b, Texts) /\ b.data = r.data
  BY Begins
<1>2. IsReader(h, q, Texts) /\ q.data = b.data
  <2>1. q = LoadElems(b, "str", 1)
    <3> HIDE DEF b
    <3> QED
      BY Zenon DEF LoadField, One
  <2> HIDE DEF b, q
  <2> QED
    BY <1>1, <2>1, StrsOf
<1>3. /\ IsReader(h, LoadNext(r, One("str")), Texts)
      /\ q.valid => LoadNext(r, One("str")).data = Append(q.data, Member(q, One("str")))
      /\ LoadNext(r, One("str")).valid = q.valid
  <2>1. q = LoadField(Begin(r), One("str"))
    OBVIOUS
  <2> HIDE DEF q
  <2> QED
    BY <1>2, <2>1, MemberAdded
<1> HIDE DEF q, b
<1> QED
  BY <1>1, <1>2, <1>3

\* and the one that is a letter.
LEMMA NextLetter ==
  ASSUME NEW h, NEW r, NEW E, IsReader(h, r, E), r.valid
  PROVE  LET q == LoadNext(r, One("u8"))
         IN /\ IsReader(h, q, Letters)
            /\ q.valid => \E x \in Letters \ {"s"} : q.data = Append(r.data, x)
<1> DEFINE b == Begin(r)
           q == LoadField(b, One("u8"))
<1>1. IsReader(h, b, Letters) /\ b.data = r.data /\ b.elems = <<>> /\ b.valid
  BY Begins
<1>2. Taken(h, b, "u8", 1, q)
  <2>1. q = Take(b, "u8", Width["u8"], 1)
    <3> HIDE DEF b
    <3> QED
      BY Zenon DEF LoadField, One, LoadElems
  <2> HIDE DEF b, q
  <2>2. "u8" \in Kinds /\ 1 # 0
    BY DEF Kinds
  <2> QED
    BY <1>1, <2>1, <2>2, TakeOf
<1>3. /\ IsReader(h, q, Letters) /\ q.data = b.data
      /\ q.valid => q.elems[1] \in Letters \ {"s"}
  <2> HIDE DEF b, q
  <2>1. ASSUME q = [runs |-> b.runs, left |-> b.left, valid |-> FALSE, elems |-> b.elems, data |-> b.data]
        PROVE  IsReader(h, q, Letters) /\ q.data = b.data /\ ~ q.valid
    BY <1>1, <2>1 DEF IsReader
  <2>2. ASSUME NEW vs \in Seq(ValuesOf(h)["u8"]), NEW runs \in Seq(Runs(h)), NEW left, Len(vs) = 1,
               q = [runs |-> runs, left |-> left, valid |-> b.valid,
                    elems |-> b.elems \o vs, data |-> b.data]
        PROVE  IsReader(h, q, Letters) /\ q.data = b.data /\ q.elems[1] \in Letters \ {"s"}
    <3>1. vs \in Seq(Letters \ {"s"})
      BY DEF ValuesOf
    <3>2. b.elems \o vs = vs
      BY <1>1, <3>1
    <3>3. PICK x \in Letters \ {"s"} : vs = <<x>>
      BY <2>2, <3>1, OneOf
    <3>4. vs \in Seq(Letters) /\ vs[1] \in Letters \ {"s"}
      BY <3>3
    <3> QED
      BY <2>2, <3>2, <3>3, <3>4 DEF IsReader
  <2> QED
    BY <1>2, <2>1, <2>2 DEF Taken
<1>4. Member(q, One("u8")) = q.elems[1]
  <2> HIDE DEF q
  <2> QED
    BY Zenon DEF Member, One
<1>5. /\ IsReader(h, LoadNext(r, One("u8")), Letters)
      /\ q.valid => LoadNext(r, One("u8")).data = Append(q.data, q.elems[1])
      /\ LoadNext(r, One("u8")).valid = q.valid
  <2>1. q = LoadField(Begin(r), One("u8"))
    OBVIOUS
  <2> HIDE DEF q
  <2> QED
    BY <1>3, <1>4, <2>1, MemberAdded
<1> HIDE DEF q, b
<1> QED
  BY <1>1, <1>3, <1>5

\* Messages have one field or three.
LEMMA FoldOne ==
  ASSUME NEW r, NEW f
  PROVE  Fold(LoadNext, r, <<f>>) = LoadNext(r, f)
<1> DEFINE s == <<f>>
           Chain(g) == g = [k \in 0..Len(s) |-> IF k = 0 THEN r ELSE LoadNext(g[k - 1], s[k])]
           a == LoadNext(r, f)
           c == CHOOSE g : Chain(g)
<1>1. Fold(LoadNext, r, s) = c[Len(s)]
  BY DEF Fold
<1>2. Len(s) = 1 /\ s[1] = f
  OBVIOUS
<1> HIDE DEF s
<1>3. \E g : Chain(g)
  <2> DEFINE g == [k \in 0..1 |-> IF k = 0 THEN r ELSE a]
  <2> HIDE DEF a
  <2>1. g[0] = r /\ g[1] = a /\ \A k \in 0..1 : k = 0 \/ k = 1
    OBVIOUS
  <2>2. \A k \in 0..1 : g[k] = IF k = 0 THEN r ELSE LoadNext(g[k - 1], s[k])
    <3> HIDE DEF g
    <3> QED
      BY <1>2, <2>1 DEF a
  <2>3. g = [k \in 0..1 |-> g[k]]
    OBVIOUS
  <2> HIDE DEF g
  <2>4. Chain(g)
    BY <1>2, <2>2, <2>3
  <2> HIDE DEF Chain
  <2> QED
    BY <2>4
<1>4. Chain(c)
  <2> HIDE DEF Chain
  <2> QED
    BY <1>3
<1> HIDE DEF c
<1>5. c[0] = r /\ c[1] = LoadNext(c[0], f)
  BY <1>2, <1>4
<1> QED
  BY <1>1, <1>2, <1>5 DEF s

\* Reading three members is reading one after the other.
LEMMA FoldThree ==
  ASSUME NEW r, NEW s, Len(s) = 3
  PROVE  Fold(LoadNext, r, s) = LoadNext(LoadNext(LoadNext(r, s[1]), s[2]), s[3])
<1> DEFINE Chain(g) == g = [k \in 0..Len(s) |-> IF k = 0 THEN r ELSE LoadNext(g[k - 1], s[k])]
           a1 == LoadNext(r, s[1])
           a2 == LoadNext(a1, s[2])
           a3 == LoadNext(a2, s[3])
           c == CHOOSE g : Chain(g)
<1>1. Fold(LoadNext, r, s) = c[Len(s)]
  BY DEF Fold
<1>2. Len(s) = 3
  OBVIOUS
<1>3. \E g : Chain(g)
  <2> DEFINE g == [k \in 0..3 |-> IF k = 0 THEN r ELSE IF k = 1 THEN a1 ELSE IF k = 2 THEN a2 ELSE a3]
  <2> HIDE DEF a1, a2, a3
  <2>1. /\ g[0] = r /\ g[1] = a1 /\ g[2] = a2 /\ g[3] = a3
        /\ \A k \in 0..3 : k = 0 \/ k = 1 \/ k = 2 \/ k = 3
    OBVIOUS
  <2>2. \A k \in 0..3 : g[k] = IF k = 0 THEN r ELSE LoadNext(g[k - 1], s[k])
    <3> HIDE DEF g
    <3>1. a1 = LoadNext(r, s[1]) /\ a2 = LoadNext(a1, s[2]) /\ a3 = LoadNext(a2, s[3])
      BY DEF a1, a2, a3
    <3> QED
      BY <1>2, <2>1, <3>1
  <2>3. g = [k \in 0..3 |-> g[k]]
    OBVIOUS
  <2> HIDE DEF g
  <2>4. Chain(g)
    BY <1>2, <2>2, <2>3
  <2> HIDE DEF Chain
  <2> QED
    BY <2>4
<1>4. Chain(c)
  <2> HIDE DEF Chain
  <2> QED
    BY <1>3
<1> HIDE DEF c
<1>5. /\ c[0] = r /\ c[1] = LoadNext(c[0], s[1]) /\ c[2] = LoadNext(c[1], s[2])
      /\ c[3] = LoadNext(c[2], s[3])
  BY <1>2, <1>4
<1> QED
  BY <1>1, <1>2, <1>5

\* A reader behind the stamp.
LEMMA Starts ==
  ASSUME NEW h, NEW ar \in Archives(h)
  PROVE  \E r, E : /\ IsReader(h, r, E) /\ r.data = <<>>
                   /\ Load(ar) = Fold(LoadNext, r, Loaded[h.type])
<1> DEFINE b == [runs |-> Tail(ar.runs), left |-> ar.header.len,
                 valid |-> ar.header.len <= ARCHIVE_BUFF_CAPACITY,
                 elems |-> <<>>, data |-> <<>>]
           r == Take(b, "u64", WIRE_TSTAMP_LEN, 1)
<1>1. Load(ar) = Fold(LoadNext, r, Loaded[h.type])
  <2>1. ar.header = h
    BY DEF Archives
  <2> QED
    BY <2>1, Zenon DEF Load
<1>2. IsReader(h, b, {h, "stamp"}) /\ b.elems = <<>> /\ b.data = <<>>
  <2>1. ar.runs \in Seq(Runs(h))
    BY DEF Archives
  <2>2. Tail(ar.runs) \in Seq(Runs(h))
    <3>1. Tail(<<>>) = <<>>
      OBVIOUS
    <3>2. ar.runs # <<>> => Tail(ar.runs) \in Seq(Runs(h))
      BY <2>1
    <3> QED
      BY <2>1, <3>1, <3>2
  <2> QED
    BY <2>2 DEF IsReader
<1>3. Taken(h, b, "u64", 1, r)
  <2> HIDE DEF b
  <2>1. "u64" \in Kinds /\ 1 # 0
    BY DEF Kinds
  <2> QED
    BY <1>2, <2>1, TakeOf
<1> HIDE DEF r, b
<1>4. IsReader(h, r, {h, "stamp"}) /\ r.data = <<>>
  <2>1. b.elems = <<>> /\ b.runs \in Seq(Runs(h)) /\ b.data = <<>> /\ b.elems \in Seq({h, "stamp"})
    BY <1>2 DEF IsReader
  <2>2. ASSUME r = [runs |-> b.runs, left |-> b.left, valid |-> FALSE, elems |-> b.elems, data |-> b.data]
        PROVE  IsReader(h, r, {h, "stamp"}) /\ r.data = <<>>
    BY <2>1, <2>2 DEF IsReader
  <2>3. ASSUME NEW vs \in Seq(ValuesOf(h)["u64"]), NEW runs \in Seq(Runs(h)), NEW left,
               r = [runs |-> runs, left |-> left, valid |-> b.valid,
                    elems |-> b.elems \o vs, data |-> b.data]
        PROVE  IsReader(h, r, {h, "stamp"}) /\ r.data = <<>>
    <3>1. vs \in Seq({h, "stamp"})
      BY DEF ValuesOf
    <3>2. b.elems \o vs \in Seq({h, "stamp"})
      BY <2>1, <3>1, ConcatTwo
    <3> QED
      BY <2>1, <2>3, <3>2 DEF IsReader
  <2> QED
    BY <1>3, <2>2, <2>3 DEF Taken
<1> QED
  BY <1>1, <1>4

\* What is read of a subscription, if the reading ends well, are strings.
LEMMA SubscribeRead ==
  ASSUME NEW p \in Seq(Texts)
  PROVE  LET r == Load(Archive(SubscribeMsg(p)))
         IN r.valid => \E q \in Seq(Texts) : r.data = <<q>>
<1> DEFINE m == SubscribeMsg(p)
<1>1. m.type = "subscribe" /\ \A h : Payload(m) \in Seq(Runs(h))
  BY SubscribePayload DEF SubscribeMsg
<1> HIDE DEF m
<1>2. PICK h : h.type = "subscribe" /\ Archive(m) \in Archives(h)
  BY <1>1, ArchiveIn
<1>3. PICK b, E : /\ IsReader(h, b, E) /\ b.data = <<>>
                  /\ Load(Archive(m)) = Fold(LoadNext, b, Loaded[h.type])
  BY <1>2, Starts
<1>4. Loaded[h.type] = <<Vec("str")>>
  BY <1>2 DEF Loaded
<1>5. Load(Archive(m)) = LoadNext(b, Vec("str"))
  BY <1>3, <1>4, FoldOne
<1> DEFINE r == LoadNext(b, Vec("str"))
<1>6. ~ b.valid => r = b
  BY DEF LoadNext
<1>7. b.valid /\ r.valid => \E q \in Seq(Texts) : r.data = Append(b.data, q)
  BY <1>3, NextStrs
<1> HIDE DEF r
<1>8. r.valid => \E q \in Seq(Texts) : r.data = <<q>>
  BY <1>3, <1>6, <1>7
<1> QED
  BY <1>5, <1>8 DEF m, r

\* What is read of a command are its letter, a context and strings.
LEMMA CommandRead ==
  ASSUME NEW cmd \in Letters \ {"s"}, NEW p \in Seq(Texts)
  PROVE  LET r == Load(Archive(CommandMsg(cmd, p)))
         IN r.valid => \E x \in Letters \ {"s"}, q \in Seq(Texts) : \E y : r.data = <<x, y, q>>
<1> DEFINE m == CommandMsg(cmd, p)
<1>1. m.type = "command" /\ \A h : Payload(m) \in Seq(Runs(h))
  BY CommandPayload DEF CommandMsg
<1> HIDE DEF m
<1>2. PICK h : h.type = "command" /\ Archive(m) \in Archives(h)
  BY <1>1, ArchiveIn
<1>3. PICK b, E : /\ IsReader(h, b, E) /\ b.data = <<>>
                  /\ Load(Archive(m)) = Fold(LoadNext, b, Loaded[h.type])
  BY <1>2, Starts
<1>4. Loaded[h.type] = <<One("u8"), One("str"), Vec("str")>>
  BY <1>2 DEF Loaded
<1> DEFINE r1 == LoadNext(b, One("u8"))
           r2 == LoadNext(r1, One("str"))
           r3 == LoadNext(r2, Vec("str"))
<1>5. Load(Archive(m)) = r3
  <2> DEFINE s == Loaded[h.type]
  <2>1. Len(s) = 3 /\ s[1] = One("u8") /\ s[2] = One("str") /\ s[3] = Vec("str")
    BY <1>4
  <2>2. Load(Archive(m)) = Fold(LoadNext, b, s)
    BY <1>3
  <2> HIDE DEF s
  <2> QED
    BY <2>1, <2>2, FoldThree
<1>6. (~ b.valid => r1 = b) /\ (~ r1.valid => r2 = r1) /\ (~ r2.valid => r3 = r2)
  BY DEF LoadNext
<1>7. b.valid /\ r1.valid => /\ IsReader(h, r1, Letters)
                             /\ \E x \in Letters \ {"s"} : r1.data = Append(b.data, x)
  BY <1>3, NextLetter
<1> HIDE DEF r1
<1>8. b.valid /\ r1.valid /\ r2.valid => /\ IsReader(h, r2, Texts)
                                         /\ \E y : r2.data = Append(r1.data, y)
  BY <1>7, NextStr
<1> HIDE DEF r2
<1>9. b.valid /\ r1.valid /\ r2.valid /\ r3.valid => \E q \in Seq(Texts) : r3.data = Append(r2.data, q)
  BY <1>7, <1>8, NextStrs
<1> HIDE DEF r3
<1>10. ASSUME r3.valid
       PROVE  \E x \in Letters \ {"s"}, q \in Seq(Texts) : \E y : r3.data = <<x, y, q>>
  <2>1. b.valid /\ r1.valid /\ r2.valid
    BY <1>6, <1>10
  <2>2. PICK x \in Letters \ {"s"} : r1.data = <<x>>
    BY <1>3, <1>7, <2>1
  <2>3. PICK y : r2.data = <<x, y>>
    BY <1>8, <2>1, <2>2
  <2>4. PICK q \in Seq(Texts) : r3.data = <<x, y, q>>
    BY <1>9, <1>10, <2>1, <2>3
  <2> QED
    BY <2>4
<1> QED
  BY <1>5, <1>10 DEF m

-----------------------------------------------------------------------------
(* What the handlers answer: messages that are no menu, and then the menu. *)

\* Messages; those that are not a menu; sequences of these.
IsMsg(m) == m = [type |-> m.type, data |-> m.data]
Plain(V) == \A v \in V : IsMsg(v) /\ v.type # "interactive_menu"
Prelude(s) == \E V : Plain(V) /\ s \in Seq(V)

\* Such sequences can be put one after the other.
LEMMA PreludeTwo ==
  ASSUME NEW a, NEW b, Prelude(a), Prelude(b)
  PROVE  Prelude(a \o b)
<1>1. PICK V, W : Plain(V) /\ a \in Seq(V) /\ Plain(W) /\ b \in Seq(W)
  BY DEF Prelude
<1> DEFINE U == V \cup W
<1>2. a \in Seq(U) /\ b \in Seq(U)
  BY <1>1
<1>3. Plain(U)
  BY <1>1 DEF Plain
<1> HIDE DEF U
<1>4. a \o b \in Seq(U)
  BY <1>2, ConcatTwo
<1> QED
  BY <1>3, <1>4 DEF Prelude

\* A single message that is not the menu comes before it; so does none.
LEMMA PreludeOne ==
  ASSUME NEW m, IsMsg(m), m.type # "interactive_menu"
  PROVE  Prelude(<<m>>) /\ Prelude(<<>>)
<1>1. Plain({m}) /\ <<m>> \in Seq({m}) /\ <<>> \in Seq({m})
  BY DEF Plain
<1> QED
  BY <1>1 DEF Prelude

\* So do any number of them, given by a function,
LEMMA PreludeOf ==
  ASSUME NEW n \in Nat, NEW s, s = [k \in 1..n |-> s[k]],
         \A k \in 1..n : IsMsg(s[k]) /\ s[k].type # "interactive_menu"
  PROVE  Prelude(s)
<1> DEFINE V == {s[k] : k \in 1..n}
<1>1. s \in [1..n -> V]
  OBVIOUS
<1>2. Plain(V)
  BY DEF Plain
<1> HIDE DEF V
<1>3. s \in Seq(V)
  BY <1>1
<1> QED
  BY <1>2, <1>3 DEF Prelude

\* and several stretches of them, one after the other.
LEMMA PreludeConcat ==
  ASSUME NEW ss, Len(ss) \in Nat, \A k \in 1..Len(ss) : Prelude(ss[k])
  PROVE  Prelude(Concat(ss))
<1> DEFINE V == {ss[p[1]][p[2]] : p \in {q \in (1..Len(ss)) \X Nat : q[2] \in 1..Len(ss[q[1]])}}
<1>1. ASSUME NEW k \in 1..Len(ss)
      PROVE  ss[k] \in Seq(V) /\ \A i \in 1..Len(ss[k]) : IsMsg(ss[k][i]) /\ ss[k][i].type # "interactive_menu"
  <2>1. PICK W : Plain(W) /\ ss[k] \in Seq(W)
    BY DEF Prelude
  <2> DEFINE s == ss[k]
             n == Len(s)
  <2>2. n \in Nat /\ s = [i \in 1..n |-> s[i]] /\ \A i \in 1..n : s[i] \in W
    BY <2>1
  <2>3. \A i \in 1..n : s[i] \in V
    <3>1. SUFFICES ASSUME NEW i \in 1..n PROVE s[i] \in V
      OBVIOUS
    <3> DEFINE p == <<k, i>>
    <3>2. i \in Nat
      BY <2>2
    <3>3. p \in (1..Len(ss)) \X Nat /\ p[1] = k /\ p[2] = i
      BY <3>2
    <3> HIDE DEF p
    <3> QED
      BY <3>3
  <2> HIDE DEF V
  <2>4. s \in Seq(V)
    <3> HIDE DEF s
    <3>1. s \in [1..n -> V]
      BY <2>2, <2>3
    <3> QED
      BY <2>2, <3>1
  <2> QED
    BY <2>1, <2>2, <2>4 DEF Plain
<1>2. Plain(V)
  BY <1>1 DEF Plain
<1> HIDE DEF V
<1>3. Concat(ss) \in Seq(V)
  BY <1>1, ConcatOf
<1> QED
  BY <1>2, <1>3 DEF Prelude

\* The deltas are so many messages.
LEMMA DeltasPrelude ==
  ASSUME NEW s, NEW num \in Nat, NEW dnum \in Nat
  PROVE  Prelude(Deltas(s, num, dnum))
<1> DEFINE Flushes(n, size) == IF n = 0 THEN 0 ELSE (n - 1) \div size
           a == Flushes(num, INT_DELTA_SIZE)
           b == Flushes(dnum, DBL_DELTA_SIZE)
           N == a + b + 1
           d == Deltas(s, num, dnum)
<1>1. \A n \in Nat, size \in Nat \ {0} : Flushes(n, size) \in Nat
  OBVIOUS
<1>2. a \in Nat /\ b \in Nat
  <2> HIDE DEF Flushes
  <2> QED
    BY <1>1, RecordsAssumption
<1>3. \E f, g : d = [k \in 1..N |-> MdDeltaMsg(s, f[k], g[k])]
  <2> DEFINE Part(n, size, k) ==
        LET first == size * (k - 1)
            last == IF k < 1 THEN first ELSE IF size * k < n THEN size * k ELSE n
        IN [i \in 1..(IF last > first THEN last - first ELSE 0) |-> first + i]
             f == [k \in 1..N |-> Part(num, INT_DELTA_SIZE, k)]
             g == [k \in 1..N |-> Part(dnum, DBL_DELTA_SIZE, k - a)]
  <2>1. d = [k \in 1..N |-> MdDeltaMsg(s, Part(num, INT_DELTA_SIZE, k), Part(dnum, DBL_DELTA_SIZE, k - a))]
    BY Zenon DEF Deltas
  <2> HIDE DEF d, N, Part
  <2>2. d = [k \in 1..N |-> MdDeltaMsg(s, f[k], g[k])]
    BY <2>1
  <2> HIDE DEF f, g
  <2> QED
    BY <2>2
<1>4. N \in Nat
  <2> HIDE DEF a, b
  <2> QED
    BY <1>2
<1> HIDE DEF N
<1>5. PICK f, g : d = [k \in 1..N |-> MdDeltaMsg(s, f[k], g[k])]
  BY <1>3
<1> HIDE DEF d
<1>6. d = [k \in 1..N |-> d[k]] /\ \A k \in 1..N : d[k] = MdDeltaMsg(s, f[k], g[k])
  BY <1>5
<1>7. \A x, y : IsMsg(MdDeltaMsg(s, x, y)) /\ MdDeltaMsg(s, x, y).type # "interactive_menu"
  BY DEF IsMsg, MdDeltaMsg
<1>8. \A k \in 1..N : IsMsg(d[k]) /\ d[k].type # "interactive_menu"
  BY <1>6, <1>7
<1> QED
  BY <1>4, <1>6, <1>8, PreludeOf DEF d

\* A handler's messages: they end with the menu, and there is no other menu among them.
Answering(s) ==
  /\ \E V : s \in Seq(V) /\ \A v \in V : IsMsg(v)
  /\ s # <<>> /\ s[Len(s)] = MenuMsg
  /\ \A i \in 1..Len(s) : i < Len(s) => s[i].type # "interactive_menu"

\* They may come after messages that are no menu.
LEMMA AnswerAfter ==
  ASSUME NEW p, Prelude(p), NEW s, Answering(s)
  PROVE  Answering(p \o s)
<1>1. PICK V, W : Plain(V) /\ p \in Seq(V) /\ s \in Seq(W) /\ \A v \in W : IsMsg(v)
  BY DEF Prelude, Answering
<1> DEFINE U == V \cup W
           t == p \o s
<1>2. p \in Seq(U) /\ s \in Seq(U) /\ \A v \in U : IsMsg(v)
  BY <1>1 DEF Plain
<1> HIDE DEF U
<1>3. t \in Seq(U) /\ Len(t) = Len(p) + Len(s)
  BY <1>2
<1>4. Len(p) \in Nat /\ Len(s) \in Nat /\ Len(s) # 0
  BY <1>2 DEF Answering
<1>5. t # <<>> /\ t[Len(t)] = MenuMsg
  <2>1. t[Len(t)] = s[Len(s)] /\ Len(t) # 0
    BY <1>2, <1>3, <1>4
  <2>2. s[Len(s)] = MenuMsg
    BY DEF Answering
  <2> HIDE DEF t
  <2>3. t # <<>>
    BY <1>3, <2>1
  <2> QED
    BY <2>1, <2>2, <2>3
<1>6. ASSUME NEW i \in 1..Len(t), i < Len(t)
      PROVE  t[i].type # "interactive_menu"
  <2>1. CASE i <= Len(p)
    <3>1. i \in 1..Len(p)
      BY <1>3, <1>4, <2>1
    <3>2. t[i] = p[i] /\ p[i] \in V
      BY <1>1, <1>2, <3>1
    <3> HIDE DEF t
    <3> QED
      BY <1>1, <3>2 DEF Plain
  <2>2. CASE ~ (i <= Len(p))
    <3> DEFINE j == i - Len(p)
    <3>1. j \in 1..Len(s) /\ j < Len(s)
      BY <1>3, <1>4, <1>6, <2>2
    <3>2. t[i] = s[j]
      BY <1>2, <1>3, <1>4, <2>2
    <3>3. s[j].type # "interactive_menu"
      <4> HIDE DEF j
      <4> QED
        BY <3>1 DEF Answering
    <3> QED
      BY <3>2, <3>3
  <2> QED
    BY <2>1, <2>2
<1> HIDE DEF t
<1>7. Answering(t)
  BY <1>2, <1>3, <1>5, <1>6 DEF Answering
<1> QED
  BY <1>7 DEF t

\* The menu alone is an answer, and so is a message with the menu after it.
LEMMA MenuAnswers ==
  /\ Answering(<<MenuMsg>>)
  /\ \A m : IsMsg(m) /\ m.type # "interactive_menu" => Answering(<<m, MenuMsg>>)
<1>1. IsMsg(MenuMsg)
  BY DEF MenuMsg, IsMsg
<1>2. Answering(<<MenuMsg>>)
  <2> DEFINE s == <<MenuMsg>>
  <2>1. s \in Seq({MenuMsg}) /\ Len(s) = 1 /\ s[1] = MenuMsg /\ s # <<>>
    OBVIOUS
  <2> HIDE DEF s
  <2>2. Answering(s)
    BY <1>1, <2>1 DEF Answering
  <2> QED
    BY <2>2 DEF s
<1>3. ASSUME NEW m, IsMsg(m), m.type # "interactive_menu"
      PROVE  Answering(<<m, MenuMsg>>)
  <2> DEFINE s == <<m, MenuMsg>>
             V == {m, MenuMsg}
  <2>1. s \in Seq(V) /\ Len(s) = 2 /\ s[1] = m /\ s[2] = MenuMsg /\ s # <<>>
    OBVIOUS
  <2>2. \A v \in V : IsMsg(v)
    BY <1>1, <1>3
  <2> HIDE DEF s, V
  <2>3. \A i \in 1..Len(s) : i < Len(s) => i = 1
    BY <2>1
  <2>4. Answering(s)
    BY <1>3, <2>1, <2>2, <2>3 DEF Answering
  <2> QED
    BY <2>4 DEF s
<1> QED
  BY <1>2, <1>3

\* What on_login_msg sends.
LEMMA LoginAnswer == Answering(OnLoginMsg)
<1>1. IsMsg(LoginReplyMsg) /\ LoginReplyMsg.type # "interactive_menu"
  BY DEF LoginReplyMsg, IsMsg
<1> QED
  BY <1>1, MenuAnswers DEF OnLoginMsg

\* A text is not a menu.
LEMMA TextPrelude ==
  ASSUME NEW s
  PROVE  Prelude(<<TextMsg(s)>>) /\ Prelude(<<>>)
<1>1. IsMsg(TextMsg(s)) /\ TextMsg(s).type # "interactive_menu"
  BY DEF TextMsg, IsMsg
<1> QED
  BY <1>1, PreludeOne

\* What on_subscribe_msg sends, for any symbols.
LEMMA SubscribeAnswer ==
  ASSUME NEW symbols \in Seq(Texts), NEW t
  PROVE  Answering(OnSubscribeMsg(symbols, t))
<1> DEFINE N == Len(symbols)
           snap == Snapshot(t, symbols)
           ss == [k \in 1..N |-> Deltas(symbols[k], 20, 20)]
           sent == <<TextMsg(Str("Snapshot sent", 13))>>
           ends == <<TextMsg(Str("Delta sent", 10)), MenuMsg>>
           deltas == Concat(ss)
<1>1. N \in Nat
  OBVIOUS
<1>2. Prelude(snap)
  <2>1. snap = [k \in 1..N |-> MdRefMsg(t, symbols[k])]
    BY DEF Snapshot
  <2> HIDE DEF snap, N
  <2>2. snap = [k \in 1..N |-> snap[k]] /\ \A k \in 1..N : snap[k] = MdRefMsg(t, symbols[k])
    BY <2>1
  <2>3. \A s : IsMsg(MdRefMsg(t, s)) /\ MdRefMsg(t, s).type # "interactive_menu"
    BY DEF MdRefMsg, IsMsg
  <2>4. \A k \in 1..N : IsMsg(snap[k]) /\ snap[k].type # "interactive_menu"
    BY <2>2, <2>3
  <2> QED
    BY <1>1, <2>2, <2>4, PreludeOf
<1>3. Prelude(deltas)
  <2> HIDE DEF N
  <2>1. Len(ss) = N
    BY <1>1
  <2>2. \A k \in 1..N : ss[k] = Deltas(symbols[k], 20, 20)
    OBVIOUS
  <2>3. \A k \in 1..N : Prelude(ss[k])
    BY <2>2, DeltasPrelude
  <2> HIDE DEF ss
  <2> QED
    BY <1>1, <2>1, <2>3, PreludeConcat
<1>4. Prelude(sent) /\ Answering(ends)
  <2>1. IsMsg(TextMsg(Str("Delta sent", 10))) /\ TextMsg(Str("Delta sent", 10)).type # "interactive_menu"
    BY DEF TextMsg, IsMsg
  <2> QED
    BY <2>1, TextPrelude, MenuAnswers
<1>5. CASE symbols = <<>>
  BY <1>5, MenuAnswers DEF OnSubscribeMsg
<1>6. CASE symbols # <<>>
  <2>1. OnSubscribeMsg(symbols, t) = snap \o sent \o deltas \o ends
    BY <1>6, Zenon DEF OnSubscribeMsg
  <2> HIDE DEF snap, sent, deltas, ends
  <2>2. Prelude(snap \o sent)
    BY <1>2, <1>4, PreludeTwo
  <2>3. Prelude(snap \o sent \o deltas)
    BY <1>3, <2>2, PreludeTwo
  <2> QED
    BY <1>4, <2>1, <2>3, AnswerAfter
<1> QED
  BY <1>5, <1>6

\* The updates of cmd_req_updates are no menus.
LEMMA UpdatesPrelude ==
  ASSUME NEW params \in Seq(Texts), params # <<>>
  PROVE  Prelude(Updates(params))
<1> DEFINE num == IF params[1].num = 0 THEN 1 ELSE U16(params[1].num)
           dtype == IF Len(params) > 1 /\ params[2].len > 0 THEN params[2].txt ELSE "i"
           TEST == Str("TEST", 4)
<1>1. num \in Nat
  <2>1. params[1] \in Texts
    OBVIOUS
  <2>2. params[1].num \in Int
    BY <2>1 DEF Texts, Strings, Context, Str
  <2> QED
    BY <2>2 DEF U16
<1>2. \/ Updates(params) = Deltas(TEST, num, 0)
      \/ Updates(params) = Deltas(TEST, 0, num)
      \/ Updates(params) = Deltas(TEST, 0, 0)
      \/ Updates(params) = <<>>
  <2>1. Updates(params) = CASE dtype = "i" -> Deltas(TEST, num, 0)
                            [] dtype = "l" -> Deltas(TEST, 0, num)
                            [] dtype = "s" -> Deltas(TEST, 0, 0)
                            [] OTHER -> <<>>
    BY DEF Updates
  <2> HIDE DEF dtype, num, TEST
  <2> QED
    BY <2>1, Zenon
<1> HIDE DEF num, TEST
<1>3. Prelude(<<>>)
  BY TextPrelude
<1> QED
  BY <1>1, <1>2, <1>3, DeltasPrelude

\* What on_command_msg sends, for any letter that is typed and any parameters.
LEMMA CommandAnswer ==
  ASSUME NEW cmd \in Letters \ {"s"}, NEW ctx, NEW params \in Seq(Texts)
  PROVE  Answering(OnCommandMsg(cmd, ctx, params))
<1>1. \A type, num : type # "interactive_menu" => Prelude(<<VecMsg(type, ctx, num)>>)
  <2>1. \A type, num : VecMsg(type, ctx, num).type = type /\ IsMsg(VecMsg(type, ctx, num))
    BY DEF VecMsg, IsMsg
  <2> QED
    BY <2>1, PreludeOne
<1>2. \E p : Prelude(p) /\ OnCommandMsg(cmd, ctx, params) = p \o <<MenuMsg>>
  <2>1. CASE cmd = "t"
    <3>1. OnCommandMsg(cmd, ctx, params) = <<TextMsg(Join(params))>> \o <<MenuMsg>>
      BY <2>1, Zenon DEF OnCommandMsg
    <3> QED
      BY <3>1, TextPrelude, Zenon
  <2>2. CASE cmd # "t" /\ params = <<>>
    <3>1. OnCommandMsg(cmd, ctx, params) = <<>> \o <<MenuMsg>>
      BY <2>2, Zenon DEF OnCommandMsg
    <3> QED
      BY <3>1, TextPrelude, Zenon
  <2>3. CASE cmd = "u" /\ params # <<>>
    <3>1. OnCommandMsg(cmd, ctx, params) = Updates(params) \o <<MenuMsg>>
      BY <2>3, Zenon DEF OnCommandMsg
    <3> QED
      BY <2>3, <3>1, UpdatesPrelude, Zenon
  <2>4. CASE cmd = "n" /\ params # <<>>
    <3>1. OnCommandMsg(cmd, ctx, params) = <<VecMsg("intvec", ctx, params[1].num)>> \o <<MenuMsg>>
      BY <2>4, Zenon DEF OnCommandMsg
    <3> QED
      BY <1>1, <3>1, Zenon
  <2>5. CASE cmd = "b" /\ params # <<>>
    <3>1. OnCommandMsg(cmd, ctx, params) = <<VecMsg("bytevec", ctx, params[1].num)>> \o <<MenuMsg>>
      BY <2>5, Zenon DEF OnCommandMsg
    <3> QED
      BY <1>1, <3>1, Zenon
  <2>6. CASE cmd = "l" /\ params # <<>>
    <3>1. OnCommandMsg(cmd, ctx, params) = <<VecMsg("doublevec", ctx, params[1].num)>> \o <<MenuMsg>>
      BY <2>6, Zenon DEF OnCommandMsg
    <3> QED
      BY <1>1, <3>1, Zenon
  <2>7. cmd \in {"t", "u", "n", "b", "l"}
    BY DEF Letters
  <2> QED
    BY <2>1, <2>2, <2>3, <2>4, <2>5, <2>6, <2>7
<1> QED
  BY <1>2, MenuAnswers, AnswerAfter

\* A message that is read is the one sent, with what was read in it.
LEMMA Reread ==
  ASSUME NEW m, IsMsg(m), NEW d
  PROVE  [m EXCEPT !.data = d].type = m.type /\ [m EXCEPT !.data = d].data = d
<1>1. PICK t, e : m = [type |-> t, data |-> e]
  BY DEF IsMsg
<1>2. m.type = t
  BY <1>1
<1>3. [m EXCEPT !.data = d].type = t /\ [m EXCEPT !.data = d].data = d
  BY <1>1, Zenon
<1> QED
  BY <1>2, <1>3, Zenon

\* Whatever was typed, the handler of the request answers it.
LEMMA HandlerAnswers ==
  ASSUME NEW c \in Clients, NEW m \in Requests(c), NEW q,
         q = [m EXCEPT !.data = Load(Archive(m)).data],
         Load(Archive(m)).valid, Handle(c, q)
  PROVE  \E msgs : Answering(msgs) /\ Answer(c, msgs)
<1> DEFINE r == Load(Archive(m))
<1>1. r.valid /\ q = [m EXCEPT !.data = r.data]
  OBVIOUS
<1> HIDE DEF r
<1>2. IsMsg(m) => q.type = m.type /\ q.data = r.data
  <2>1. ASSUME IsMsg(m), NEW d, q = [m EXCEPT !.data = d]
        PROVE  q.type = m.type /\ q.data = d
    <3>1. [m EXCEPT !.data = d].type = m.type /\ [m EXCEPT !.data = d].data = d
      BY <2>1, Reread
    <3> QED
      BY <2>1, <3>1, Zenon
  <2> QED
    BY <1>1, <2>1, Zenon
<1>3. CASE m = LoginMsg
  <2>1. IsMsg(m) /\ m.type = "login"
    BY <1>3 DEF LoginMsg, IsMsg
  <2>2. Answer(c, OnLoginMsg)
    BY <1>2, <2>1, Zenon DEF Handle
  <2> QED
    BY <2>2, LoginAnswer
<1>4. ASSUME NEW line \in Lines[c], m = Request(line)
      PROVE  \E msgs : Answering(msgs) /\ Answer(c, msgs)
  <2>1. line.cmd \in Letters /\ line.params \in Seq(Texts)
    <3>1. line.cmd \in Letters /\ line.params \in Seq(Strings)
      BY AdminAssumption
    <3> QED
      BY <3>1 DEF Texts
  <2>2. CASE line.cmd = "s"
    <3>1. m = SubscribeMsg(line.params)
      BY <1>4, <2>2 DEF Request, SubscribeMsg
    <3>2. IsMsg(m) /\ m.type = "subscribe"
      BY <3>1 DEF SubscribeMsg, IsMsg
    <3>3. PICK p \in Seq(Texts) : r.data = <<p>>
      BY <1>1, <2>1, <3>1, SubscribeRead DEF r
    <3>4. q.type = "subscribe" /\ q.data[1] = p
      BY <1>2, <3>2, <3>3
    <3>5. Answer(c, OnSubscribeMsg(p, snapshot_'))
      BY <3>4, Zenon DEF Handle
    <3> QED
      BY <3>5, SubscribeAnswer
  <2>3. CASE line.cmd # "s"
    <3>1. m = CommandMsg(line.cmd, line.params)
      BY <1>4, <2>3 DEF Request, CommandMsg, Context
    <3>2. IsMsg(m) /\ m.type = "command"
      BY <3>1 DEF CommandMsg, IsMsg
    <3>3. PICK x \in Letters \ {"s"}, p \in Seq(Texts) : \E y : r.data = <<x, y, p>>
      BY <1>1, <2>1, <2>3, <3>1, CommandRead DEF r
    <3>4. PICK y : r.data = <<x, y, p>>
      BY <3>3
    <3>5. q.type = "command" /\ q.data[1] = x /\ q.data[2] = y /\ q.data[3] = p
      BY <1>2, <3>2, <3>4
    <3>6. Answer(c, OnCommandMsg(x, y, p))
      BY <3>5, Zenon DEF Handle
    <3> QED
      BY <3>6, CommandAnswer
  <2> QED
    BY <2>2, <2>3
<1> QED
  BY <1>3, <1>4 DEF Requests

-----------------------------------------------------------------------------
(* Whose turn it is. *)

\* Messages on their way to a client: nothing is behind a menu.
Wire(s) ==
  /\ \E V : s \in Seq(V) /\ \A v \in V : IsMsg(v)
  /\ \A i \in 1..Len(s) : i < Len(s) => s[i].type # "interactive_menu"

\* A client's status, what is on its wires, and its connection at the server.
Turn(status, requests, answers, conn) ==
  /\ Wire(answers)
  /\ status \in {"off", "gone", "prompted"} => answers = <<>>
  /\ status \in {"prompted", "lost"} => requests = <<>>
  /\ status = "off" => conn = "none"
  /\ status = "waiting" /\ requests # <<>> => Len(requests) = 1 /\ answers = <<>>
  /\ status = "waiting" /\ requests = <<>> =>
       \/ answers # <<>> /\ answers[Len(answers)] = MenuMsg
       \/ conn = "closed"
       \/ overrun

\* The variables of the conversation are functions of the client.
Shape ==
  /\ client \in [Clients -> {"off", "waiting", "prompted", "lost", "gone"}]
  /\ bev \in [Clients -> {"none", "backlog", "open", "closed"}]
  /\ toClient = [c \in Clients |-> toClient[c]]
  /\ toServer = [c \in Clients |-> toServer[c]]

\* The invariant of the conversation.
Turns ==
  /\ Shape
  /\ \A c \in Clients : Turn(client[c], toServer[c], toClient[c], bev[c])

\* A step that is about client c only.
Moves(c, status, requests, answers, conn) ==
  /\ status \in {"off", "waiting", "prompted", "lost", "gone"}
  /\ conn \in {"none", "backlog", "open", "closed"}
  /\ client' = [client EXCEPT ![c] = status] /\ bev' = [bev EXCEPT ![c] = conn]
  /\ toServer' = [toServer EXCEPT ![c] = requests] /\ toClient' = [toClient EXCEPT ![c] = answers]

\* A step about client c needs to be looked at for c only.
LEMMA TurnOf ==
  ASSUME Turns, NEW c \in Clients, NEW cl, NEW ts, NEW tc, NEW b,
         Moves(c, cl, ts, tc, b), Turn(cl, ts, tc, b), overrun => overrun'
  PROVE  Turns'
<1>1. Shape'
  BY DEF Turns, Shape, Moves
<1>2. ASSUME NEW d \in Clients
      PROVE  Turn(client[d], toServer[d], toClient[d], bev[d])'
  <2>1. Shape /\ Turn(client[d], toServer[d], toClient[d], bev[d])
    BY DEF Turns
  <2>2. CASE d = c
    <3>1. client'[d] = cl /\ toServer'[d] = ts /\ toClient'[d] = tc /\ bev'[d] = b
      BY <2>1, <2>2 DEF Shape, Moves
    <3> QED
      BY <3>1 DEF Turn
  <2>3. CASE d # c
    <3>1. client'[d] = client[d] /\ toServer'[d] = toServer[d] /\ toClient'[d] = toClient[d] /\ bev'[d] = bev[d]
      BY <2>1, <2>3 DEF Shape, Moves
    <3> QED
      BY <2>1, <3>1 DEF Turn
  <2> QED
    BY <2>2, <2>3
<1> QED
  BY <1>1, <1>2 DEF Turns

\* What is overwritten stays so.
LEMMA OverrunStays == Next => (overrun => overrun')
<1>1. ASSUME NEW c \in Clients,
             \/ Connect(c) \/ \E line \in Lines[c] : Type(c, line)
             \/ ClientReads(c) \/ ClientEvent(c) \/ Leave(c) \/ Relaunch(c)
             \/ Accept(c) \/ Dangling(c) \/ ServerReads(c) \/ ServerEvent(c)
      PROVE  overrun' = overrun
  BY <1>1 DEF Connect, Type, ClientReads, ClientEvent, Leave, Relaunch, Accept, Dangling,
              ServerReads, ServerEvent, server
<1>2. ASSUME NEW c \in Clients, ServerOverruns(c)
      PROVE  overrun'
  BY <1>2 DEF ServerOverruns
<1> QED
  BY <1>1, <1>2 DEF Next

\* A variable that a step leaves alone.
LEMMA Alone ==
  ASSUME Turns, NEW c \in Clients
  PROVE  /\ client = [client EXCEPT ![c] = client[c]]
         /\ bev = [bev EXCEPT ![c] = bev[c]]
         /\ toServer = [toServer EXCEPT ![c] = toServer[c]]
         /\ toClient = [toClient EXCEPT ![c] = toClient[c]]
         /\ client[c] \in {"off", "waiting", "prompted", "lost", "gone"}
         /\ bev[c] \in {"none", "backlog", "open", "closed"}
         /\ Turn(client[c], toServer[c], toClient[c], bev[c])
<1>1. client = [client EXCEPT ![c] = client[c]] /\ client[c] \in {"off", "waiting", "prompted", "lost", "gone"}
  BY DEF Turns, Shape
<1>2. bev = [bev EXCEPT ![c] = bev[c]] /\ bev[c] \in {"none", "backlog", "open", "closed"}
  BY DEF Turns, Shape
<1>3. toServer = [toServer EXCEPT ![c] = toServer[c]]
  BY DEF Turns, Shape
<1>4. toClient = [toClient EXCEPT ![c] = toClient[c]]
  BY DEF Turns, Shape
<1> QED
  BY <1>1, <1>2, <1>3, <1>4 DEF Turns

\* A wire with nothing on it.
LEMMA WireNone == Wire(<<>>)
<1> DEFINE s == <<>>
<1>1. s \in Seq({}) /\ Len(s) = 0
  OBVIOUS
<1> HIDE DEF s
<1>2. Wire(s)
  BY <1>1 DEF Wire
<1> QED
  BY <1>2 DEF s

\* What is left when the first message is taken off a wire.
LEMMA WireTail ==
  ASSUME NEW s, Wire(s), s # <<>>
  PROVE  /\ Wire(Tail(s)) /\ IsMsg(Head(s))
         /\ Len(s) \in Nat
         /\ Head(s).type = "interactive_menu" => Tail(s) = <<>>
         /\ Tail(s) # <<>> => Tail(s)[Len(Tail(s))] = s[Len(s)]
         /\ Len(s) > 1 => Tail(s) # <<>>
         /\ ~ (Len(s) > 1) => Head(s) = s[Len(s)]
<1>1. PICK V : s \in Seq(V) /\ \A v \in V : IsMsg(v)
  BY DEF Wire
<1> DEFINE t == Tail(s)
           n == Len(s)
<1>2. /\ t \in Seq(V) /\ n \in Nat \ {0} /\ Len(t) = n - 1
      /\ \A i \in 1..(n - 1) : t[i] = s[i + 1]
      /\ Head(s) = s[1] /\ s[1] \in V
  BY <1>1
<1>3. \A i \in 1..n : i < n => s[i].type # "interactive_menu"
  BY DEF Wire
<1>4. t = <<>> <=> Len(t) = 0
  BY <1>2
<1> HIDE DEF t, n
<1>5. ASSUME NEW i \in 1..Len(t), i < Len(t)
      PROVE  t[i].type # "interactive_menu"
  <2>1. i \in 1..(n - 1) /\ i + 1 \in 1..n /\ i + 1 < n
    BY <1>2, <1>5
  <2> QED
    BY <1>2, <1>3, <2>1
<1>6. Wire(t)
  BY <1>1, <1>2, <1>5 DEF Wire
<1>7. t # <<>> => t[Len(t)] = s[n]
  BY <1>2, <1>4
<1>8. Head(s).type = "interactive_menu" => t = <<>>
  BY <1>2, <1>3, <1>4
<1>9. /\ IsMsg(Head(s)) /\ (n > 1 => t # <<>>) /\ (~ (n > 1) => Head(s) = s[n])
  BY <1>1, <1>2, <1>4
<1> QED
  BY <1>2, <1>6, <1>7, <1>8, <1>9 DEF t, n

\* Of the messages of a handler, those sent before it fails can be on a wire.
LEMMA WirePart ==
  ASSUME NEW s, Answering(s), NEW n \in 0..Len(s)
  PROVE  /\ Wire(<<>> \o SubSeq(s, 1, n))
         /\ n = Len(s) => <<>> \o SubSeq(s, 1, n) = s
         /\ Wire(s) /\ s # <<>> /\ s[Len(s)] = MenuMsg
<1>1. PICK V : s \in Seq(V) /\ \A v \in V : IsMsg(v)
  BY DEF Answering
<1> DEFINE t == SubSeq(s, 1, n)
<1>2. /\ t \in Seq(V) /\ Len(t) = n /\ \A i \in 1..n : t[i] = s[i]
      /\ Len(s) \in Nat
  BY <1>1
<1>3. <<>> \o t = t
  <2> HIDE DEF t
  <2> QED
    BY <1>2
<1>4. n = Len(s) => t = s
  BY <1>1, <1>2
<1> HIDE DEF t
<1>5. Wire(t)
  BY <1>1, <1>2 DEF Wire, Answering
<1>6. Wire(s) /\ s # <<>> /\ s[Len(s)] = MenuMsg
  BY DEF Wire, Answering
<1> QED
  BY <1>3, <1>4, <1>5, <1>6 DEF t

\* The client logs in.
LEMMA ConnectTurns ==
  ASSUME Turns, NEW c \in Clients, Connect(c), overrun => overrun'
  PROVE  Turns'
<1>1. Turn(client[c], toServer[c], toClient[c], bev[c]) /\ toClient = [toClient EXCEPT ![c] = toClient[c]]
  BY Alone
<1>2. /\ client[c] = "off" /\ client' = [client EXCEPT ![c] = "waiting"]
      /\ toServer' = [toServer EXCEPT ![c] = <<LoginMsg>>]
      /\ bev' = [bev EXCEPT ![c] = "backlog"] /\ toClient' = toClient
  BY DEF Connect
<1>3. Turn("waiting", <<LoginMsg>>, toClient[c], "backlog")
  <2>1. Len(<<LoginMsg>>) = 1 /\ <<LoginMsg>> # <<>>
    OBVIOUS
  <2>2. Wire(toClient[c]) /\ toClient[c] = <<>>
    BY <1>1, <1>2 DEF Turn
  <2> QED
    BY <2>1, <2>2 DEF Turn
<1>4. toClient' = [toClient EXCEPT ![c] = toClient[c]]
  BY <1>1, <1>2
<1>5. Moves(c, "waiting", <<LoginMsg>>, toClient[c], "backlog")
  BY <1>2, <1>4 DEF Moves
<1> QED
  BY <1>5, <1>3, TurnOf

\* A line is typed.
LEMMA TypeTurns ==
  ASSUME Turns, NEW c \in Clients, NEW line \in Lines[c], Type(c, line), overrun => overrun'
  PROVE  Turns'
<1>1. /\ Turn(client[c], toServer[c], toClient[c], bev[c])
      /\ toClient = [toClient EXCEPT ![c] = toClient[c]]
      /\ toServer = [toServer EXCEPT ![c] = toServer[c]]
      /\ bev = [bev EXCEPT ![c] = bev[c]] /\ bev[c] \in {"none", "backlog", "open", "closed"}
  BY Alone
<1>2. client[c] = "prompted" /\ bev' = bev
  BY DEF Type, server
<1>3. Wire(toClient[c]) /\ toServer[c] = <<>> /\ toClient[c] = <<>>
  BY <1>1, <1>2 DEF Turn
<1>4. bev' = [bev EXCEPT ![c] = bev[c]]
  BY <1>1, <1>2
<1>5. CASE /\ toServer' = [toServer EXCEPT ![c] = Append(@, Request(line))]
           /\ client' = [client EXCEPT ![c] = "waiting"] /\ toClient' = toClient
  <2> DEFINE s == Append(toServer[c], Request(line))
  <2>1. Len(s) = 1 /\ s # <<>>
    BY <1>3
  <2>2. toServer' = [toServer EXCEPT ![c] = s] /\ toClient' = [toClient EXCEPT ![c] = toClient[c]]
    BY <1>1, <1>5
  <2> HIDE DEF s
  <2>3. Turn("waiting", s, toClient[c], bev[c])
    BY <1>3, <2>1 DEF Turn
  <2>4. Moves(c, "waiting", s, toClient[c], bev[c])
    BY <1>1, <1>4, <1>5, <2>2 DEF Moves
  <2> QED
    BY <2>4, <2>3, TurnOf
<1>6. CASE /\ client' = [client EXCEPT ![c] = "gone"] /\ toClient' = [toClient EXCEPT ![c] = <<>>]
           /\ toServer' = toServer
  <2>1. toServer' = [toServer EXCEPT ![c] = toServer[c]]
    BY <1>1, <1>6
  <2>2. Turn("gone", toServer[c], <<>>, bev[c])
    BY WireNone DEF Turn
  <2>3. Moves(c, "gone", toServer[c], <<>>, bev[c])
    BY <1>1, <1>4, <1>6, <2>1 DEF Moves
  <2> QED
    BY <2>3, <2>2, TurnOf
<1> QED
  BY <1>5, <1>6 DEF Type

\* The client goes.
LEMMA LeaveTurns ==
  ASSUME Turns, NEW c \in Clients, overrun => overrun',
         client' = [client EXCEPT ![c] = "gone"], toClient' = [toClient EXCEPT ![c] = <<>>],
         toServer' = toServer, bev' = bev
  PROVE  Turns'
<1>1. /\ toServer = [toServer EXCEPT ![c] = toServer[c]]
      /\ bev = [bev EXCEPT ![c] = bev[c]] /\ bev[c] \in {"none", "backlog", "open", "closed"}
  BY Alone
<1>2. Turn("gone", toServer[c], <<>>, bev[c])
  BY WireNone DEF Turn
<1>3. toServer' = [toServer EXCEPT ![c] = toServer[c]] /\ bev' = [bev EXCEPT ![c] = bev[c]]
  BY <1>1
<1>4. Moves(c, "gone", toServer[c], <<>>, bev[c])
  BY <1>1, <1>3 DEF Moves
<1> QED
  BY <1>4, <1>2, TurnOf

\* The client reads the next message: only the menu, the last one, prompts it.
LEMMA ReadsTurns ==
  ASSUME Turns, NEW c \in Clients, ClientReads(c), overrun => overrun'
  PROVE  Turns'
<1> DEFINE s == toClient[c]
           q == toServer[c]
           b == bev[c]
           m == Head(s)
           d == Load(Archive(m)).data
           w == [m EXCEPT !.data = d]
<1>1. /\ Turn(client[c], q, s, b)
      /\ toServer = [toServer EXCEPT ![c] = q]
      /\ bev = [bev EXCEPT ![c] = b] /\ b \in {"none", "backlog", "open", "closed"}
      /\ client = [client EXCEPT ![c] = client[c]]
  BY Alone
<1>2. /\ client[c] = "waiting" /\ s # <<>> /\ toServer' = toServer /\ bev' = bev
      /\ \/ Derailed(c)
         \/ Hear(c, w)
         \/ /\ client' = [client EXCEPT ![c] = "gone"]
            /\ toClient' = [toClient EXCEPT ![c] = <<>>]
  BY Zenon DEF ClientReads, Misread, Handled, server
<1> HIDE DEF s, q, b, m, d, w
<1>3. Wire(s) /\ q = <<>> /\ (s[Len(s)] = MenuMsg \/ b = "closed" \/ overrun)
  BY <1>1, <1>2 DEF Turn
<1>4. toServer' = [toServer EXCEPT ![c] = q] /\ bev' = [bev EXCEPT ![c] = b]
  BY <1>1, <1>2
<1>5. CASE Derailed(c)
  <2>1. PICK o \in {"lost", "gone"} : client' = [client EXCEPT ![c] = o] /\ toClient' = [toClient EXCEPT ![c] = <<>>]
    BY <1>5 DEF Derailed
  <2>2. Turn(o, q, <<>>, b)
    BY <1>3, WireNone DEF Turn
  <2>3. Moves(c, o, q, <<>>, b)
    BY <1>1, <1>4, <2>1 DEF Moves
  <2> QED
    BY <2>3, <2>2, TurnOf
<1>6. CASE Hear(c, w)
  <2>1. /\ Wire(Tail(s)) /\ IsMsg(m)
        /\ m.type = "interactive_menu" => Tail(s) = <<>>
        /\ Tail(s) # <<>> => Tail(s)[Len(Tail(s))] = s[Len(s)]
        /\ Len(s) \in Nat
        /\ Len(s) > 1 => Tail(s) # <<>>
        /\ ~ (Len(s) > 1) => m = s[Len(s)]
    BY <1>2, <1>3, WireTail DEF m
  <2>2. w.type = m.type
    BY <2>1, Reread DEF w
  <2>3. toClient' = [toClient EXCEPT ![c] = Tail(s)]
    BY <1>6 DEF Hear, s
  <2>4. client' = [client EXCEPT ![c] = IF w.type = "interactive_menu" THEN "prompted" ELSE client[c]]
    BY <1>6 DEF Hear
  <2>5. CASE m.type = "interactive_menu"
    <3>1. client' = [client EXCEPT ![c] = "prompted"] /\ Tail(s) = <<>>
      BY <2>1, <2>2, <2>4, <2>5
    <3>2. Turn("prompted", q, Tail(s), b)
      BY <1>3, <2>1, <3>1 DEF Turn
    <3>3. Moves(c, "prompted", q, Tail(s), b)
      BY <1>1, <1>4, <2>3, <3>1 DEF Moves
    <3> QED
      BY <3>3, <3>2, TurnOf
  <2>6. CASE m.type # "interactive_menu"
    <3>1. client' = [client EXCEPT ![c] = "waiting"]
      BY <1>2, <2>2, <2>4, <2>6
    <3>2. b = "closed" \/ overrun \/ (Tail(s) # <<>> /\ Tail(s)[Len(Tail(s))] = MenuMsg)
      <4>1. MenuMsg.type = "interactive_menu"
        BY DEF MenuMsg
      <4> QED
        BY <1>3, <2>1, <2>6, <4>1
    <3>3. Turn("waiting", q, Tail(s), b)
      BY <1>3, <2>1, <3>2 DEF Turn
    <3>4. Moves(c, "waiting", q, Tail(s), b)
      BY <1>1, <1>4, <2>3, <3>1 DEF Moves
    <3> QED
      BY <3>4, <3>3, TurnOf
  <2> QED
    BY <2>5, <2>6
<1>7. CASE client' = [client EXCEPT ![c] = "gone"] /\ toClient' = [toClient EXCEPT ![c] = <<>>]
  BY <1>2, <1>7, LeaveTurns
<1> QED
  BY <1>2, <1>5, <1>6, <1>7

\* The only request is taken off the wire.
LEMMA LastTaken ==
  ASSUME NEW R, NEW s \in Seq(R), Len(s) = 1
  PROVE  Tail(s) = <<>>
<1> DEFINE t == Tail(s)
<1>1. s # <<>>
  OBVIOUS
<1>2. t \in Seq(R) /\ Len(t) = 0
  BY <1>1, HeadTailProperties
<1> HIDE DEF t
<1>3. t = <<>>
  BY <1>2
<1> QED
  BY <1>3 DEF t

\* Answers put on the wire of client c, which has nothing on it.
LEMMA AnswerTurns ==
  ASSUME Turns, RequestsTyped, overrun => overrun', NEW c \in Clients, NEW s, Answering(s), Answer(c, s),
         toServer[c] # <<>>, bev[c] = "open",
         toServer' = [toServer EXCEPT ![c] = Tail(@)], client' = client
  PROVE  Turns'
<1> DEFINE q == Tail(toServer[c])
           t == toClient[c]
<1>1. /\ Turn(client[c], toServer[c], t, bev[c])
      /\ client = [client EXCEPT ![c] = client[c]]
      /\ client[c] \in {"off", "waiting", "prompted", "lost", "gone"}
  BY Alone
<1>2. client[c] \in {"gone", "waiting"}
  BY <1>1 DEF Turn
<1>3. PICK n \in 0..Len(s) :
        /\ toClient' = [toClient EXCEPT ![c] =
                          IF client[c] = "gone" THEN <<>> ELSE t \o SubSeq(s, 1, n)]
        /\ bev' = [bev EXCEPT ![c] = IF n = Len(s) THEN "open" ELSE "closed"]
  BY DEF Answer
<1> DEFINE b == IF n = Len(s) THEN "open" ELSE "closed"
           a == <<>> \o SubSeq(s, 1, n)
<1>4. /\ Wire(a)
      /\ n = Len(s) => a = s
      /\ s # <<>> /\ s[Len(s)] = MenuMsg
  BY WirePart
<1>5. toServer' = [toServer EXCEPT ![c] = q] /\ client' = [client EXCEPT ![c] = client[c]]
  BY <1>1
<1>6. CASE client[c] = "gone"
  <2>1. toClient' = [toClient EXCEPT ![c] = <<>>]
    BY <1>3, <1>6
  <2> HIDE DEF q
  <2>2. Turn("gone", q, <<>>, b)
    BY WireNone DEF Turn
  <2>3. Moves(c, "gone", q, <<>>, b)
    BY <1>3, <1>5, <1>6, <2>1 DEF Moves
  <2> QED
    BY <2>2, <2>3, TurnOf
<1>7. CASE client[c] = "waiting"
  <2>1. t = <<>> /\ Len(toServer[c]) = 1
    BY <1>1, <1>7 DEF Turn
  <2>2. q = <<>>
    <3>1. toServer[c] \in Seq(Requests(c))
      BY DEF RequestsTyped
    <3> QED
      BY <2>1, <3>1, LastTaken
  <2>3. toClient' = [toClient EXCEPT ![c] = a]
    BY <1>3, <1>7, <2>1
  <2> HIDE DEF q, a
  <2>4. Turn("waiting", q, a, b)
    BY <1>4, <2>2 DEF Turn
  <2>5. Moves(c, "waiting", q, a, b)
    BY <1>3, <1>5, <1>7, <2>3 DEF Moves
  <2> QED
    BY <2>4, <2>5, TurnOf
<1> QED
  BY <1>2, <1>6, <1>7

\* A request that cannot be read closes the connection.
LEMMA FailureTurns ==
  ASSUME Turns, RequestsTyped, overrun => overrun', NEW c \in Clients, ReadFails(c),
         toServer[c] # <<>>, bev[c] = "open",
         toServer' = [toServer EXCEPT ![c] = Tail(@)], client' = client
  PROVE  Turns'
<1> DEFINE q == Tail(toServer[c])
           t == toClient[c]
<1>1. /\ Turn(client[c], toServer[c], t, bev[c])
      /\ client = [client EXCEPT ![c] = client[c]]
      /\ toClient = [toClient EXCEPT ![c] = t]
      /\ client[c] \in {"off", "waiting", "prompted", "lost", "gone"}
  BY Alone
<1>2. client[c] \in {"gone", "waiting"}
  BY <1>1 DEF Turn
<1>3. /\ bev' = [bev EXCEPT ![c] = "closed"]
      /\ toServer' = [toServer EXCEPT ![c] = q]
      /\ client' = [client EXCEPT ![c] = client[c]]
      /\ toClient' = [toClient EXCEPT ![c] = t]
  BY <1>1 DEF ReadFails
<1>4. client[c] = "waiting" => q = <<>>
  <2>1. ASSUME client[c] = "waiting"
        PROVE  q = <<>>
    <3>1. toServer[c] \in Seq(Requests(c)) /\ Len(toServer[c]) = 1
      BY <1>1, <2>1 DEF RequestsTyped, Turn
    <3> QED
      BY <3>1, LastTaken
  <2> QED
    BY <2>1
<1> HIDE DEF q, t
<1>5. Turn(client[c], q, t, "closed")
  BY <1>1, <1>2, <1>4 DEF Turn
<1>6. Moves(c, client[c], q, t, "closed")
  BY <1>1, <1>3 DEF Moves
<1> QED
  BY <1>5, <1>6, TurnOf

\* The server reads a request.
LEMMA ServerReadsTurns ==
  ASSUME Turns, RequestsTyped, overrun => overrun', NEW c \in Clients, ServerReads(c)
  PROVE  Turns'
<1> DEFINE m == Head(toServer[c])
           r == Load(Archive(m))
           w == [m EXCEPT !.data = r.data]
<1>1. /\ toServer[c] # <<>> /\ bev[c] = "open" /\ client' = client
      /\ toServer' = [toServer EXCEPT ![c] = Tail(@)]
      /\ IF r.valid THEN Handle(c, w) ELSE ReadFails(c)
  BY Zenon DEF ServerReads, CallbackOf
<1>2. m \in Requests(c)
  BY <1>1, HeadTailProperties DEF RequestsTyped
<1>3. CASE r.valid
  <2> HIDE DEF m
  <2>1. Handle(c, w)
    BY <1>1, <1>3, Zenon
  <2>2. PICK msgs : Answering(msgs) /\ Answer(c, msgs)
    BY <1>2, <1>3, <2>1, HandlerAnswers, Zenon
  <2> QED
    BY <1>1, <2>2, AnswerTurns
<1>4. CASE ~ r.valid
  <2>1. ReadFails(c)
    BY <1>1, <1>4, Zenon
  <2> QED
    BY <1>1, <2>1, FailureTurns
<1> QED
  BY <1>3, <1>4, Zenon

\* The server overruns its buffer: the client whose request it was may wait.
LEMMA OverrunTurns ==
  ASSUME Turns, RequestsTyped, NEW c \in Clients, ServerOverruns(c)
  PROVE  Turns'
<1>1. /\ toServer[c] # <<>> /\ toServer' = [toServer EXCEPT ![c] = Tail(@)]
      /\ UNCHANGED <<client, toClient, bev>> /\ overrun'
  BY DEF ServerOverruns
<1>2. Shape'
  BY <1>1 DEF Turns, Shape
<1>3. ASSUME NEW d \in Clients
      PROVE  Turn(client[d], toServer[d], toClient[d], bev[d])'
  <2>1. Shape /\ Turn(client[d], toServer[d], toClient[d], bev[d])
    BY DEF Turns
  <2>2. CASE d = c
    <3>1. client[d] \notin {"prompted", "lost"}
      BY <1>1, <2>1, <2>2 DEF Turn
    <3>2. ASSUME client[d] = "waiting"
          PROVE  Tail(toServer[d]) = <<>>
      <4>1. toServer[d] \in Seq(Requests(d)) /\ Len(toServer[d]) = 1
        BY <1>1, <2>1, <2>2, <3>2 DEF RequestsTyped, Turn
      <4> QED
        BY <4>1, LastTaken
    <3>3. toServer'[d] = Tail(toServer[d])
      BY <1>1, <2>1, <2>2 DEF Shape
    <3> QED
      BY <1>1, <2>1, <3>1, <3>2, <3>3 DEF Turn
  <2>3. CASE d # c
    <3>1. toServer'[d] = toServer[d]
      BY <1>1, <2>1, <2>3 DEF Shape
    <3> QED
      BY <1>1, <2>1, <3>1 DEF Turn
  <2> QED
    BY <2>2, <2>3
<1> QED
  BY <1>2, <1>3 DEF Turns

\* Every step keeps to the turns.
LEMMA TurnsStep ==
  ASSUME Turns, WireType, Next
  PROVE  Turns'
<1> USE OverrunStays
<1>1. PICK c \in Clients :
        \/ Connect(c) \/ \E line \in Lines[c] : Type(c, line)
        \/ ClientReads(c) \/ ClientEvent(c) \/ Leave(c) \/ Relaunch(c)
        \/ Accept(c) \/ Dangling(c) \/ ServerReads(c) \/ ServerOverruns(c) \/ ServerEvent(c)
  BY DEF Next
<1>2. /\ Turn(client[c], toServer[c], toClient[c], bev[c])
      /\ client = [client EXCEPT ![c] = client[c]]
      /\ bev = [bev EXCEPT ![c] = bev[c]]
      /\ toServer = [toServer EXCEPT ![c] = toServer[c]]
      /\ toClient = [toClient EXCEPT ![c] = toClient[c]]
      /\ client[c] \in {"off", "waiting", "prompted", "lost", "gone"}
  BY Alone
<1>3. CASE Connect(c)
  BY <1>3, ConnectTurns
<1>4. CASE \E line \in Lines[c] : Type(c, line)
  BY <1>4, TypeTurns
<1>5. CASE ClientReads(c)
  BY <1>5, ReadsTurns
<1>6. CASE ClientEvent(c) \/ Leave(c)
  <2>1. /\ client' = [client EXCEPT ![c] = "gone"] /\ toClient' = [toClient EXCEPT ![c] = <<>>]
        /\ toServer' = toServer /\ bev' = bev
    BY <1>6 DEF ClientEvent, Leave, server
  <2> QED
    BY <2>1, LeaveTurns
<1>7. CASE Relaunch(c)
  <2>1. /\ client[c] = "gone" /\ client' = [client EXCEPT ![c] = "off"]
        /\ bev' = [bev EXCEPT ![c] = "none"] /\ toServer' = [toServer EXCEPT ![c] = <<>>]
        /\ toClient' = [toClient EXCEPT ![c] = toClient[c]]
    BY <1>2, <1>7 DEF Relaunch
  <2>2. Turn("off", <<>>, toClient[c], "none")
    BY <1>2, <2>1 DEF Turn
  <2>3. Moves(c, "off", <<>>, toClient[c], "none")
    BY <2>1 DEF Moves
  <2> QED
    BY <2>2, <2>3, TurnOf
<1>8. CASE Accept(c)
  <2>1. /\ bev[c] = "backlog" /\ bev' = [bev EXCEPT ![c] = "open"]
        /\ client' = [client EXCEPT ![c] = client[c]]
        /\ toServer' = [toServer EXCEPT ![c] = toServer[c]]
        /\ toClient' = [toClient EXCEPT ![c] = toClient[c]]
    BY <1>2, <1>8 DEF Accept, wires
  <2>2. Turn(client[c], toServer[c], toClient[c], "open")
    BY <1>2, <2>1 DEF Turn
  <2>3. Moves(c, client[c], toServer[c], toClient[c], "open")
    BY <1>2, <2>1 DEF Moves
  <2> QED
    BY <2>2, <2>3, TurnOf
<1>9. CASE Dangling(c)
  <2>1. UNCHANGED <<client, bev, toServer, toClient, overrun>>
    BY <1>9 DEF Dangling, wires
  <2> QED
    BY <2>1 DEF Turns, Shape, Turn
<1>10. CASE ServerReads(c)
  BY <1>10, ServerReadsTurns DEF WireType
<1>12. CASE ServerOverruns(c)
  BY <1>12, OverrunTurns DEF WireType
<1>11. CASE ServerEvent(c)
  <2>1. /\ client[c] = "gone" /\ client' = [client EXCEPT ![c] = client[c]]
        /\ bev' = [bev EXCEPT ![c] = "none"] /\ toServer' = [toServer EXCEPT ![c] = <<>>]
        /\ toClient' = [toClient EXCEPT ![c] = toClient[c]]
    BY <1>2, <1>11 DEF ServerEvent
  <2>2. Turn("gone", <<>>, toClient[c], "none")
    BY <1>2, <2>1 DEF Turn
  <2>3. Moves(c, "gone", <<>>, toClient[c], "none")
    BY <2>1 DEF Moves
  <2> QED
    BY <2>2, <2>3, TurnOf
<1> QED
  BY <1>1, <1>3, <1>4, <1>5, <1>6, <1>7, <1>8, <1>9, <1>10, <1>11, <1>12

\* Nobody is connected at first.
LEMMA TurnsInit ==
  ASSUME Init
  PROVE  Turns
<1>1. Shape
  BY DEF Init, Shape
<1>2. ASSUME NEW c \in Clients
      PROVE  Turn(client[c], toServer[c], toClient[c], bev[c])
  <2>1. client[c] = "off" /\ toServer[c] = <<>> /\ toClient[c] = <<>> /\ bev[c] = "none"
    BY DEF Init
  <2>2. Turn("off", <<>>, <<>>, "none")
    BY WireNone DEF Turn
  <2> QED
    BY <2>1, <2>2
<1> QED
  BY <1>1, <1>2 DEF Turns

\* The requests on the wire and the turns are inductive together.
LEMMA ConversationStep == WireType /\ Turns /\ [Next]_vars => (WireType /\ Turns)'
<1>1. ASSUME WireType, Turns, Next
      PROVE  (WireType /\ Turns)'
  <2>1. RequestsTyped' /\ Turns'
    BY <1>1, WireTypeStep, TurnsStep
  <2> QED
    BY <2>1 DEF WireType, Turns, Shape
<1>2. ASSUME WireType, Turns, UNCHANGED vars
      PROVE  (WireType /\ Turns)'
  <2>1. UNCHANGED <<client, bev, toServer, toClient, overrun>>
    BY <1>2 DEF vars
  <2> QED
    BY <1>2, <2>1 DEF WireType, RequestsTyped, Turns, Shape, Turn
<1> QED
  BY <1>1, <1>2

\* They are kept in every behaviour.
LEMMA Conversation == Spec => [](WireType /\ Turns)
<1>1. Init => WireType
  BY DEF Init, WireType, RequestsTyped
<1>2. Init => Turns
  BY TurnsInit
<1> QED
  BY <1>1, <1>2, ConversationStep, PTL DEF Spec

\* For any number of clients and whatever they type: a client is asked for a command only
\* when everything it asked for has arrived, and a request that waits at the server is alone
\* on its wires.  The client hears what it was sent as far as it can be read, and the server
\* handles what it could read.
THEOREM RequestsAndAnswersAlternate == Spec => []OneRequestAtATime
<1>1. Turns => OneRequestAtATime
  BY DEF Turns, Turn, OneRequestAtATime
<1> QED
  BY <1>1, Conversation, PTL

\* For any number of clients and whatever they type: when a request has been read, the client
\* that waits has answers that end with the menu under way, or its connection is closed, or the
\* line that logs the request has overrun the buffer.  So every handler that ends well sends the
\* menu last, for each command letter and parameter.  A request that is cut short is not read.
THEOREM ReadRequestsAnswered == Spec => []ReadRequestAnswered
<1>1. Turns => ReadRequestAnswered
  BY DEF Turns, Turn, ReadRequestAnswered, Last
<1> QED
  BY <1>1, Conversation, PTL

-----------------------------------------------------------------------------
(* Sequences, one after the other, and sums. *)

Appending == INSTANCE FoldTheorems WITH op <- LAMBDA a, b : a \o b
Prepending == INSTANCE FoldTheorems WITH op <- LAMBDA a, b : b \o a
Adding == INSTANCE FoldTheorems WITH op <- LAMBDA a, b : a + b

\* Concatenation is associative, and the empty sequence adds nothing to it.
LEMMA Regrouped ==
  ASSUME NEW V, NEW a \in Seq(V), NEW b \in Seq(V), NEW c \in Seq(V)
  PROVE  (a \o b) \o c = a \o (b \o c)
  OBVIOUS

\* The empty sequence adds nothing on either side.
LEMMA Neutral ==
  ASSUME NEW V, NEW a \in Seq(V)
  PROVE  <<>> \o a = a /\ a \o <<>> = a /\ <<>> \in Seq(V)
  OBVIOUS

\* What is left of ss, put one after the other, behind each of them.
Rests(V, ss, X) ==
  /\ X[0] = Concat(ss) /\ X[Len(ss)] = <<>>
  /\ \A k \in 0..Len(ss) : X[k] \in Seq(V)
  /\ \A k \in 1..Len(ss) : X[k - 1] = ss[k] \o X[k]

\* A concatenation can be taken apart, one sequence after the other.
LEMMA RestsExist ==
  ASSUME NEW V, NEW ss, Len(ss) \in Nat, \A k \in 1..Len(ss) : ss[k] \in Seq(V)
  PROVE  \E X : Rests(V, ss, X)
<1> DEFINE n == Len(ss)
           rr == [k \in 1..n |-> ss[n + 1 - k]]
<1>1. PICK g : /\ g[0] = <<>> /\ Concat(ss) = g[n]
               /\ \A k \in 1..n : g[k] = g[k - 1] \o ss[k]
  <2>1. PICK g : Appending!Folds(g, <<>>, ss) /\ Appending!FoldOf(<<>>, ss) = g[n]
    BY Appending!FoldChain
  <2>2. Concat(ss) = Appending!FoldOf(<<>>, ss)
    BY DEF Concat, Fold, Appending!FoldOf
  <2> QED
    BY <2>1, <2>2 DEF Appending!Folds
<1>2. PICK y : /\ y[0] = <<>>
               /\ \A k \in 1..n : y[k] = rr[k] \o y[k - 1]
  <2>1. Len(rr) = n
    OBVIOUS
  <2> HIDE DEF rr
  <2>2. PICK h : Prepending!Folds(h, <<>>, rr)
    BY <2>1, Prepending!FoldChain
  <2> QED
    BY <2>1, <2>2 DEF Prepending!Folds
<1>3. n \in Nat /\ \A k \in 1..n : ss[k] \in Seq(V)
  OBVIOUS
<1>4. \A k \in 1..n : rr[k] = ss[n + 1 - k]
  OBVIOUS
<1> HIDE DEF n, rr
<1> DEFINE X == [k \in 0..n |-> y[n - k]]
<1>5. \A k \in 0..n : y[k] \in Seq(V)
  <2> DEFINE T == {k \in 0..n : y[k] \in Seq(V)}
  <2>1. 0 \in T
    <3>1. 0 \in 0..n /\ y[0] \in Seq(V)
      BY <1>2, <1>3
    <3> QED
      BY <3>1
  <2>2. ASSUME NEW k \in 1..n, k - 1 \in T
        PROVE  k \in T
    <3>1. rr[k] \in Seq(V) /\ y[k] = rr[k] \o y[k - 1]
      <4>1. n + 1 - k \in 1..n
        BY <1>3
      <4> QED
        BY <1>2, <1>3, <1>4, <4>1
    <3>2. y[k] \in Seq(V)
      BY <2>2, <3>1, ConcatTwo
    <3> QED
      BY <3>2
  <2> HIDE DEF T
  <2>3. \A k \in 0..n : k \in T
    BY <1>3, <2>1, <2>2, Induction
  <2> QED
    BY <2>3 DEF T
<1>6. X[n] = <<>> /\ \A k \in 0..n : X[k] \in Seq(V)
  BY <1>2, <1>3, <1>5
<1>7. \A k \in 1..n : X[k - 1] = ss[k] \o X[k]
  <2> TAKE k \in 1..n
  <2>1. n + 1 - k \in 1..n /\ (n + 1 - k) - 1 = n - k /\ n - (k - 1) = n + 1 - k
        /\ n + 1 - (n + 1 - k) = k
    BY <1>3
  <2>2. y[n + 1 - k] = ss[k] \o y[n - k]
    BY <1>2, <1>4, <2>1
  <2>3. X[k - 1] = y[n + 1 - k] /\ X[k] = y[n - k]
    BY <1>3, <2>1
  <2> QED
    BY <2>2, <2>3
<1> HIDE DEF X
<1>8. \A k \in 0..n : g[k] \in Seq(V) /\ g[k] \o X[k] = X[0]
  <2> DEFINE T == {k \in 0..n : g[k] \in Seq(V) /\ g[k] \o X[k] = X[0]}
  <2>1. 0 \in T
    <3>1. 0 \in 0..n
      BY <1>3
    <3> QED
      BY <1>1, <1>6, <3>1, Neutral
  <2>2. ASSUME NEW k \in 1..n, k - 1 \in T
        PROVE  k \in T
    <3>1. k \in 0..n /\ k - 1 \in 0..n
      BY <1>3
    <3>2. /\ g[k] = g[k - 1] \o ss[k] /\ X[k - 1] = ss[k] \o X[k]
          /\ g[k - 1] \in Seq(V) /\ ss[k] \in Seq(V) /\ X[k] \in Seq(V)
          /\ g[k - 1] \o X[k - 1] = X[0]
      BY <1>1, <1>3, <1>6, <1>7, <2>2, <3>1
    <3>3. g[k] \in Seq(V)
      BY <3>2, ConcatTwo
    <3>4. \A a, b, c \in Seq(V) : (a \o b) \o c = a \o (b \o c)
      BY Regrouped
    <3>5. (g[k - 1] \o ss[k]) \o X[k] = g[k - 1] \o (ss[k] \o X[k])
      BY <3>2, <3>4, Zenon
    <3> QED
      BY <3>1, <3>2, <3>3, <3>5
  <2> HIDE DEF T
  <2>3. \A k \in 0..n : k \in T
    BY <1>3, <2>1, <2>2, Induction
  <2> QED
    BY <2>3 DEF T
<1>9. X[0] = Concat(ss)
  <2>1. n \in 0..n
    BY <1>3
  <2>2. g[n] \in Seq(V) /\ g[n] \o <<>> = X[0]
    BY <1>6, <1>8, <2>1
  <2> QED
    BY <1>1, <2>2, Neutral
<1> QED
  BY <1>6, <1>7, <1>9 DEF Rests, n

\* The sums a total goes through.
Sums(ns, g) ==
  /\ g[0] = 0 /\ g[Len(ns)] = Total(ns)
  /\ \A k \in 0..Len(ns) : g[k] \in Nat
  /\ \A k \in 1..Len(ns) : g[k] = g[k - 1] + ns[k]

\* A total goes through the sums of what was added so far.
LEMMA SumsExist ==
  ASSUME NEW ns \in Seq(Nat)
  PROVE  \E g : Sums(ns, g)
<1> DEFINE n == Len(ns)
<1>1. PICK g : /\ g[0] = 0 /\ Total(ns) = g[n]
               /\ \A k \in 1..n : g[k] = g[k - 1] + ns[k]
  <2>1. PICK g : Adding!Folds(g, 0, ns) /\ Adding!FoldOf(0, ns) = g[n]
    BY Adding!FoldChain
  <2>2. Total(ns) = Adding!FoldOf(0, ns)
    BY DEF Total, Fold, Adding!FoldOf
  <2> QED
    BY <2>1, <2>2 DEF Adding!Folds
<1>2. n \in Nat /\ \A k \in 1..n : ns[k] \in Nat
  OBVIOUS
<1> HIDE DEF n
<1> DEFINE T == {k \in 0..n : g[k] \in Nat}
<1>3. n \in Nat /\ 0 \in 0..n /\ \A k \in 1..n : k \in 0..n /\ k - 1 \in 0..n
  BY <1>2
<1>4. 0 \in T
  BY <1>1, <1>3
<1>5. ASSUME NEW k \in 1..n, k - 1 \in T PROVE k \in T
  <2>1. g[k] = g[k - 1] + ns[k] /\ ns[k] \in Nat /\ k \in 0..n
    BY <1>1, <1>2, <1>3
  <2>2. g[k - 1] \in Nat
    BY <1>5
  <2>3. g[k] \in Nat
    BY <2>1, <2>2
  <2> QED
    BY <2>1, <2>3
<1> HIDE DEF T
<1>6. \A k \in 0..n : k \in T
  BY <1>3, <1>4, <1>5, Induction
<1> QED
  BY <1>1, <1>6 DEF Sums, n, T

\* There is one such function, up to what it is outside 0..Len(ns): two of them agree.
LEMMA TotalTwo ==
  ASSUME NEW ns \in Seq(Nat), NEW ms \in Seq(Nat)
  PROVE  Total(ns \o ms) = Total(ns) + Total(ms) /\ Total(ns) \in Nat
<1> DEFINE n == Len(ns)
           m == Len(ms)
           both == ns \o ms
<1>1. /\ n \in Nat /\ m \in Nat /\ Len(both) = n + m /\ both \in Seq(Nat)
      /\ \A k \in 1..n : both[k] = ns[k]
      /\ \A k \in 1..m : both[n + k] = ms[k]
  OBVIOUS
<1> HIDE DEF both
<1>2. PICK p : Sums(ns, p)
  BY SumsExist
<1>3. PICK q : Sums(ms, q)
  BY SumsExist
<1>4. PICK g : Sums(both, g)
  BY <1>1, SumsExist
<1> HIDE DEF n, m
<1>5. \A k \in 0..n : g[k] = p[k]
  <2> DEFINE T == {k \in 0..n : g[k] = p[k]}
  <2>1. 0 \in T
    BY <1>1, <1>2, <1>4 DEF Sums
  <2>2. ASSUME NEW k \in 1..n, k - 1 \in T
        PROVE  k \in T
    <3>1. k \in 1..(n + m)
      BY <1>1
    <3> QED
      BY <1>1, <1>2, <1>4, <2>2, <3>1 DEF Sums, n
  <2> HIDE DEF T
  <2>3. \A k \in 0..n : k \in T
    BY <1>1, <2>1, <2>2, Induction
  <2> QED
    BY <2>3 DEF T
<1>6. \A k \in 0..m : g[n + k] = p[n] + q[k]
  <2> DEFINE T == {k \in 0..m : g[n + k] = p[n] + q[k]}
  <2>0. p[n] \in Nat /\ \A k \in 0..m : q[k] \in Nat
    BY <1>1, <1>2, <1>3 DEF Sums, n, m
  <2>1. 0 \in T
    BY <1>1, <1>3, <1>5, <2>0 DEF Sums
  <2>2. ASSUME NEW k \in 1..m, k - 1 \in T
        PROVE  k \in T
    <3>1. n + k \in 1..(n + m) /\ (n + k) - 1 = n + (k - 1) /\ k - 1 \in 0..m /\ k \in 0..m
      BY <1>1
    <3>2. g[n + k] = g[n + (k - 1)] + both[n + k] /\ q[k] = q[k - 1] + ms[k] /\ both[n + k] = ms[k]
      BY <1>1, <1>3, <1>4, <3>1 DEF Sums, m
    <3>3. ms[k] \in Nat
      BY DEF m
    <3> QED
      BY <2>0, <2>2, <3>1, <3>2, <3>3
  <2> HIDE DEF T
  <2>3. \A k \in 0..m : k \in T
    BY <1>1, <2>1, <2>2, Induction
  <2> QED
    BY <2>3 DEF T
<1>7. Total(ns) = p[n] /\ Total(ms) = q[m] /\ Total(both) = g[n + m] /\ p[n] \in Nat
  <2>1. n \in 0..n
    BY <1>1
  <2> QED
    BY <1>1, <1>2, <1>3, <1>4, <2>1 DEF Sums, n, m
<1>8. g[n + m] = p[n] + q[m]
  <2>1. m \in 0..m
    BY <1>1
  <2> QED
    BY <1>6, <2>1
<1> QED
  BY <1>7, <1>8 DEF both

-----------------------------------------------------------------------------
(* Runs, and how many bytes they are. *)

\* Strings, those the code writes itself among them.
Tags == {"", "user", "user-token_1", "accepted", "option", "context", "Snapshot sent", "Delta sent",
         "joined", "TEST", "ref string"}
Strs == [txt : STRING \cup Tags, len : Nat, num : Int]

\* The lines of a menu.
OptionsOf == [idx : Nat, val : Strs]

\* The values that are stored: numbers, letters, strings, options, sizes and headers.
MsgTypes == {"text", "heartbeat", "subscribe", "login", "login_reply", "interactive_menu", "command",
             "intvec", "bytevec", "doublevec", "md_refference", "md_delta"}
Stuff ==
  Int \cup Letters \cup {"stamp"} \cup Strs \cup OptionsOf
    \cup [ints : Nat, dbls : Nat, stamps : Nat] \cup [type : MsgTypes, len : Nat]

\* Runs of such values; nothing is written of an empty one.
Elems == {"u8", "u16", "u32", "u64", "sizes", "str"}
ARun == {r \in [elem : Elems, w : Nat, vs : Seq(Stuff)] : r.vs # <<>>}
Archived == Seq(ARun)

Bytes(r) == r.w * Len(r.vs)
Size(runs) == Total([k \in 1..Len(runs) |-> Bytes(runs[k])])

\* Sequences with the same elements are the same.
LEMMA SameElements ==
  ASSUME NEW V, NEW s \in Seq(V), NEW t \in Seq(V), Len(s) = Len(t),
         \A k \in 1..Len(s) : s[k] = t[k]
  PROVE  s = t
  OBVIOUS

\* A run has a length in bytes.
LEMMA BytesNat ==
  ASSUME NEW r \in ARun
  PROVE  Bytes(r) \in Nat
<1>1. r.w \in Nat /\ Len(r.vs) \in Nat
  BY DEF ARun
<1>2. \A x, y \in Nat : x * y \in Nat
  OBVIOUS
<1> QED
  BY <1>1, <1>2 DEF Bytes

\* The size of two pieces of an archive is the sum of theirs.
LEMMA SizeTwo ==
  ASSUME NEW a \in Archived, NEW b \in Archived
  PROVE  Size(a \o b) = Size(a) + Size(b) /\ Size(a) \in Nat /\ Size(b) \in Nat
<1> DEFINE sizes(s) == [k \in 1..Len(s) |-> Bytes(s[k])]
<1>1. ASSUME NEW s \in Archived
      PROVE  sizes(s) \in Seq(Nat) /\ Len(sizes(s)) = Len(s) /\ \A k \in 1..Len(s) : sizes(s)[k] = Bytes(s[k])
  <2>1. \A k \in 1..Len(s) : Bytes(s[k]) \in Nat
    <3>1. \A k \in 1..Len(s) : s[k] \in ARun
      BY DEF Archived
    <3> QED
      BY <3>1, BytesNat
  <2> QED
    BY <2>1
<1>2. a \o b \in Archived /\ Len(a) \in Nat /\ Len(b) \in Nat /\ Len(a \o b) = Len(a) + Len(b)
  BY DEF Archived
<1>3. /\ \A k \in 1..Len(a) : (a \o b)[k] = a[k]
      /\ \A k \in 1..Len(b) : (a \o b)[Len(a) + k] = b[k]
  OBVIOUS
<1> DEFINE sa == sizes(a)
           sb == sizes(b)
           sab == sizes(a \o b)
           c == a \o b
<1>4. /\ sa \in Seq(Nat) /\ Len(sa) = Len(a) /\ \A k \in 1..Len(a) : sa[k] = Bytes(a[k])
      /\ sb \in Seq(Nat) /\ Len(sb) = Len(b) /\ \A k \in 1..Len(b) : sb[k] = Bytes(b[k])
      /\ sab \in Seq(Nat) /\ Len(sab) = Len(c) /\ \A k \in 1..Len(c) : sab[k] = Bytes(c[k])
  BY <1>1, <1>2
<1>5. Size(a) = Total(sa) /\ Size(b) = Total(sb) /\ Size(c) = Total(sab)
  BY DEF Size
<1> HIDE DEF sa, sb, sab, c
<1>6. sab = sa \o sb
  <2>1. Len(sab) = Len(sa) + Len(sb) /\ sa \o sb \in Seq(Nat) /\ Len(sa \o sb) = Len(sa) + Len(sb)
    <3>1. \A x, y \in Seq(Nat) : x \o y \in Seq(Nat) /\ Len(x \o y) = Len(x) + Len(y)
      OBVIOUS
    <3>2. Len(sab) = Len(sa) + Len(sb)
      BY <1>2, <1>4 DEF c
    <3> QED
      BY <1>4, <3>1, <3>2
  <2>2. ASSUME NEW k \in 1..Len(sab)
        PROVE  sab[k] = (sa \o sb)[k]
    <3>1. CASE k <= Len(a)
      <4>1. k \in 1..Len(a) /\ k \in 1..Len(c)
        BY <1>2, <1>4, <3>1 DEF c
      <4>2. (sa \o sb)[k] = sa[k]
        BY <1>4, <4>1
      <4> QED
        BY <1>3, <1>4, <4>1, <4>2 DEF c
    <3>2. CASE ~ (k <= Len(a))
      <4> DEFINE i == k - Len(a)
      <4>1. i \in 1..Len(b) /\ k \in 1..Len(c) /\ k = Len(a) + i
        BY <1>2, <1>4, <2>1, <3>2 DEF c
      <4> HIDE DEF i
      <4>2. (sa \o sb)[Len(a) + i] = sb[i]
        BY <1>4, <4>1
      <4> QED
        BY <1>3, <1>4, <4>1, <4>2 DEF c
    <3> QED
      BY <3>1, <3>2
  <2> DEFINE t == sa \o sb
  <2>3. t \in Seq(Nat) /\ Len(t) = Len(sab) /\ \A k \in 1..Len(sab) : sab[k] = t[k]
    BY <2>1, <2>2
  <2> HIDE DEF t
  <2>4. sab = t
    BY <1>4, <2>3, SameElements
  <2> QED
    BY <2>4 DEF t
<1>7. Total(sa \o sb) = Total(sa) + Total(sb) /\ Total(sa) \in Nat /\ Total(sb) \in Nat
  BY <1>4, TotalTwo
<1> QED
  BY <1>5, <1>6, <1>7 DEF c

\* The sum of no numbers and of one.
LEMMA SizeNone == Size(<<>>) = 0
<1> DEFINE ns == [k \in 1..Len(<<>>) |-> Bytes(<<>>[k])]
<1>1. ns \in Seq(Nat) /\ Len(ns) = 0
  OBVIOUS
<1>2. Size(<<>>) = Total(ns)
  BY DEF Size
<1> HIDE DEF ns
<1>3. PICK g : Sums(ns, g)
  BY <1>1, SumsExist
<1> QED
  BY <1>1, <1>2, <1>3 DEF Sums

\* The size of one run: the width of its elements, as often as there are any.
LEMMA SizeRun ==
  ASSUME NEW e \in Elems, NEW w \in Nat, NEW vs \in Seq(Stuff)
  PROVE  /\ Run(e, w, vs) \in Archived
         /\ Size(Run(e, w, vs)) = w * Len(vs)
<1>1. CASE vs = <<>>
  <2>1. Run(e, w, vs) = <<>> /\ Len(vs) = 0
    BY <1>1 DEF Run
  <2>2. w * 0 = 0
    OBVIOUS
  <2>3. <<>> \in Archived
    BY DEF Archived
  <2> QED
    BY <2>1, <2>2, <2>3, SizeNone
<1>2. CASE vs # <<>>
  <2> DEFINE r == [elem |-> e, w |-> w, vs |-> vs]
             ns == [k \in 1..Len(<<r>>) |-> Bytes(<<r>>[k])]
  <2>1. r \in ARun /\ Bytes(r) = w * Len(vs)
    <3>1. r \in ARun
      BY <1>2 DEF ARun
    <3>2. Bytes(r) = w * Len(vs)
      BY DEF Bytes
    <3> QED
      BY <3>1, <3>2
  <2>2. Run(e, w, vs) = <<r>>
    BY <1>2 DEF Run
  <2>3. Size(<<r>>) = Total(ns)
    BY DEF Size
  <2> HIDE DEF r
  <2>4. Bytes(r) \in Nat
    BY <2>1, BytesNat
  <2>9. <<r>> \in Archived
    BY <2>1 DEF Archived
  <2>5. ns \in Seq(Nat) /\ Len(ns) = 1 /\ ns[1] = Bytes(r)
    BY <2>4
  <2> HIDE DEF ns
  <2>6. PICK g : Sums(ns, g)
    BY <2>5, SumsExist
  <2>7. Total(ns) = Bytes(r)
    <3>1. 1 \in 1..1 /\ 1 - 1 = 0
      OBVIOUS
    <3>2. g[1] = g[0] + ns[1] /\ g[0] = 0 /\ Total(ns) = g[1]
      BY <2>5, <2>6, <3>1 DEF Sums
    <3> QED
      BY <2>4, <2>5, <3>2
  <2> QED
    BY <2>1, <2>2, <2>3, <2>7, <2>9
<1> QED
  BY <1>1, <1>2

-----------------------------------------------------------------------------
(* Reading what was written: a reader in front of runs, all of which it may *)
(* read, that has found elems and data.                                     *)

At(runs, elems, data) ==
  [runs |-> runs, left |-> Size(runs), valid |-> TRUE, elems |-> elems, data |-> data]

\* Reading as many elements as were written in one run takes exactly that run away.
LEMMA TakeAt ==
  ASSUME NEW e \in Elems, NEW w \in Nat, NEW vs \in Seq(Stuff),
         NEW rest \in Archived, NEW E \in Seq(Stuff), NEW d
  PROVE  Take(At(Run(e, w, vs) \o rest, E, d), e, w, Len(vs)) = At(rest, E \o vs, d)
<1> DEFINE runs == Run(e, w, vs) \o rest
           n == Len(vs)
<1>1. Size(runs) = w * n + Size(rest) /\ Size(rest) \in Nat /\ n \in Nat
  <2>1. Run(e, w, vs) \in Archived /\ Size(Run(e, w, vs)) = w * n
    BY SizeRun
  <2>2. Size(runs) = Size(Run(e, w, vs)) + Size(rest) /\ Size(rest) \in Nat
    BY <2>1, SizeTwo
  <2> QED
    BY <2>1, <2>2
<1>2. CASE vs = <<>>
  <2>1. n = 0 /\ runs = rest /\ E \o vs = E
    BY <1>2 DEF Run
  <2> HIDE DEF n, runs
  <2> QED
    BY <2>1 DEF Take, n, runs
<1>3. CASE vs # <<>>
  <2> DEFINE r == [elem |-> e, w |-> w, vs |-> vs]
  <2>1. n # 0 /\ Run(e, w, vs) = <<r>> /\ r \in ARun
    BY <1>3 DEF Run, ARun
  <2>2. r.elem = e /\ r.w = w /\ r.vs = vs
    OBVIOUS
  <2> HIDE DEF r
  <2>3. runs # <<>> /\ Head(runs) = r /\ Tail(runs) = rest
    BY <2>1 DEF Archived
  <2>4. w * n = n * w /\ w * n \in Nat
    BY <1>1
  <2> HIDE DEF runs, n
  <2>5. n * w <= Size(runs) /\ Size(runs) - n * w = Size(rest)
    <3> DEFINE x == w * n
    <3> HIDE DEF x
    <3>1. x \in Nat /\ n * w = x /\ Size(runs) = x + Size(rest)
      BY <1>1, <2>4 DEF x
    <3> QED
      BY <1>1, <3>1
  <2> DEFINE q == At(runs, E, d)
  <2>6. q.runs = runs /\ q.left = Size(runs) /\ q.valid = TRUE /\ q.elems = E /\ q.data = d
    BY DEF At
  <2> HIDE DEF q
  <2>7. Take(q, e, w, n) = [runs |-> rest, left |-> Size(rest), valid |-> TRUE, elems |-> E \o vs, data |-> d]
    <3>1. Head(q.runs) = r /\ Tail(q.runs) = rest /\ Len(r.vs) = n /\ q.runs # <<>> /\ n * w <= q.left
      BY <2>2, <2>3, <2>5, <2>6 DEF n
    <3>2. q.left - n * w = Size(rest)
      BY <2>5, <2>6
    <3> QED
      BY <2>1, <2>2, <2>6, <3>1, <3>2 DEF Take
  <2> QED
    BY <2>7 DEF At, q, n, runs
<1> QED
  BY <1>2, <1>3

\* A length that was read is used up.
LEMMA UsedAt ==
  ASSUME NEW V, NEW rest, NEW E \in Seq(V), NEW x, NEW d
  PROVE  LET q == At(rest, E \o <<x>>, d)
         IN q.valid /\ Length(q) = x /\ Used(q) = At(rest, E, d)
<1> DEFINE q == At(rest, E \o <<x>>, d)
           U == V \cup {x}
<1>1. E \in Seq(U) /\ x \in U
  OBVIOUS
<1> HIDE DEF U
<1>2. Front(E \o <<x>>) = E /\ Last(E \o <<x>>) = x
  BY <1>1 DEF Front, Last
<1>3. q = [runs |-> q.runs, left |-> q.left, valid |-> q.valid, elems |-> q.elems, data |-> q.data]
      /\ q.runs = rest /\ q.left = Size(rest) /\ q.valid = TRUE /\ q.elems = E \o <<x>> /\ q.data = d
  BY DEF At
<1> HIDE DEF q
<1>4. Used(q) = [q EXCEPT !.elems = E]
  BY <1>2, <1>3 DEF Used
<1>5. [q EXCEPT !.elems = E] = [runs |-> q.runs, left |-> q.left, valid |-> q.valid, elems |-> E, data |-> q.data]
  BY <1>3, FieldsOf, Zenon
<1>6. Used(q) = At(rest, E, d)
  BY <1>3, <1>4, <1>5 DEF At
<1> QED
  BY <1>2, <1>3, <1>6 DEF q, Length

\* Archives, and the elements read from them, can be put together in any order of bracketing.
LEMMA Joined ==
  /\ \A a, b, c \in Archived : (a \o b) \o c = a \o (b \o c)
  /\ \A a, b \in Archived : a \o b \in Archived
  /\ \A a, b, c \in Seq(Stuff) : (a \o b) \o c = a \o (b \o c)
  /\ \A a, b \in Seq(Stuff) : a \o b \in Seq(Stuff)
<1>1. \A a, b, c \in Archived : (a \o b) \o c = a \o (b \o c)
  BY Regrouped DEF Archived
<1>2. \A a, b \in Archived : a \o b \in Archived
  BY ConcatTwo DEF Archived
<1>3. \A a, b, c \in Seq(Stuff) : (a \o b) \o c = a \o (b \o c)
  BY Regrouped
<1>4. \A a, b \in Seq(Stuff) : a \o b \in Seq(Stuff)
  BY ConcatTwo
<1> QED
  BY <1>1, <1>2, <1>3, <1>4, Zenon

\* The same, for three given pieces of an archive.
LEMMA ArchivedJoined ==
  ASSUME NEW a \in Archived, NEW b \in Archived, NEW c \in Archived
  PROVE  (a \o b) \o c = a \o (b \o c) /\ a \o b \in Archived /\ b \o c \in Archived
  BY Joined, Zenon

\* What 16 bits can say; and strings of such a length.
Small(n) == n < 65536
Short(s) == s \in Strs /\ Small(s.len)

\* A short string: its length is stored as it is.
LEMMA ShortHas ==
  ASSUME NEW s, Short(s)
  PROVE  s \in Stuff /\ s.len \in Nat /\ U16(s.len) = s.len /\ s.len \in Stuff /\ <<s>> \in Seq(Stuff)
<1>1. s \in Stuff /\ s.len \in Nat /\ s.len < 65536
  BY DEF Short, Small, Strs, Stuff
<1>2. \A n \in Nat : n < 65536 => n % 65536 = n
  OBVIOUS
<1> QED
  BY <1>1, <1>2 DEF U16, Stuff

\* The kinds of elements with a fixed width.
LEMMA WidthHas ==
  ASSUME NEW e \in {"u8", "u16", "u32", "u64", "sizes"}
  PROVE  Width[e] \in Nat /\ e \in Elems /\ Width["u16"] = 2 /\ "str" \in Elems /\ "u16" \in Elems
  BY DEF Width, Elems

\* One number.
LEMMA NumIn ==
  ASSUME NEW e \in {"u8", "u16", "u32", "u64", "sizes"}, NEW v \in Stuff
  PROVE  Num(e, v) \in Archived /\ Size(Num(e, v)) = Width[e]
<1>1. <<v>> \in Seq(Stuff) /\ Len(<<v>>) = 1
  OBVIOUS
<1>2. Width[e] \in Nat /\ e \in Elems
  BY WidthHas
<1>3. Width[e] * 1 = Width[e]
  BY <1>2
<1> QED
  BY <1>1, <1>2, <1>3, SizeRun DEF Num, Archived

\* A string and its length before it.
LEMMA StoreStrSize ==
  ASSUME NEW s \in Strs
  PROVE  StoreStr(s) \in Archived /\ Size(StoreStr(s)) = 2 + s.len
<1> DEFINE n == U16(s.len)
<1>1. s.len \in Nat /\ <<s>> \in Seq(Stuff)
  BY DEF Strs, Stuff
<1>2. n \in Stuff
  <2>1. n \in Int
    BY <1>1 DEF U16
  <2> HIDE DEF n
  <2> QED
    BY <2>1, Zenon DEF Stuff
<1> DEFINE num == Num("u16", n)
           run == Run("str", s.len, <<s>>)
<1>3. num \in Archived /\ Size(num) = 2
  <2> HIDE DEF n
  <2> QED
    BY <1>2, NumIn, WidthHas
<1>4. run \in Archived /\ Size(run) = s.len
  <2>1. Len(<<s>>) = 1 /\ s.len * 1 = s.len /\ "str" \in Elems
    BY <1>1, WidthHas
  <2> QED
    BY <1>1, <2>1, SizeRun
<1>5. StoreStr(s) = num \o run
  BY DEF StoreStr
<1> HIDE DEF num, run, n
<1>6. num \o run \in Archived /\ Size(num \o run) = Size(num) + Size(run)
  BY <1>3, <1>4, SizeTwo, Joined
<1> QED
  BY <1>1, <1>3, <1>4, <1>5, <1>6

\* A number of 16 bits before the rest.
LEMMA U16At ==
  ASSUME NEW x \in Stuff, NEW rest \in Archived, NEW E \in Seq(Stuff), NEW d
  PROVE  Take(At(Num("u16", x) \o rest, E, d), "u16", 2, 1) = At(rest, E \o <<x>>, d)
<1>1. "u16" \in Elems /\ 2 \in Nat /\ <<x>> \in Seq(Stuff) /\ Len(<<x>>) = 1
  BY WidthHas
<1>2. Num("u16", x) = Run("u16", 2, <<x>>)
  BY WidthHas DEF Num
<1> DEFINE vs == <<x>>
           e == "u16"
           w == 2
<1>3. w \in Nat /\ e \in Elems /\ vs \in Seq(Stuff)
  BY <1>1
<1>5. Len(vs) = 1 /\ Num("u16", x) = Run(e, w, vs)
  BY <1>1, <1>2
<1> HIDE DEF vs, e, w
<1>4. Take(At(Run(e, w, vs) \o rest, E, d), e, w, Len(vs)) = At(rest, E \o vs, d)
  BY <1>3, TakeAt
<1> QED
  BY <1>4, <1>5 DEF vs, e, w

\* A string that was stored is read again, whatever is behind it.
LEMMA LoadStrAt ==
  ASSUME NEW s, Short(s), NEW rest \in Archived, NEW E \in Seq(Stuff), NEW d
  PROVE  LoadStr(At(StoreStr(s) \o rest, E, d)) = At(rest, E \o <<s>>, d)
<1> DEFINE tail == Run("str", s.len, <<s>>) \o rest
           r == At(StoreStr(s) \o rest, E, d)
           n == Take(r, "u16", 2, 1)
<1>1. s.len \in Nat /\ U16(s.len) = s.len /\ s.len \in Stuff /\ <<s>> \in Seq(Stuff)
  BY ShortHas
<1>2. Run("str", s.len, <<s>>) \in Archived
  BY <1>1, SizeRun, WidthHas DEF Archived
<1>3. Num("u16", s.len) \in Archived
  BY <1>1, NumIn
<1>4. StoreStr(s) \o rest = Num("u16", s.len) \o tail
  BY <1>1, <1>2, <1>3, Regrouped DEF StoreStr, Archived
<1>5. tail \in Archived
  BY <1>2, ConcatTwo DEF Archived
<1> HIDE DEF tail
<1>6. n = At(tail, E \o <<s.len>>, d)
  BY <1>1, <1>4, <1>5, U16At
<1> HIDE DEF n
<1>7. n.valid /\ Length(n) = s.len /\ Used(n) = At(tail, E, d)
  BY <1>6, UsedAt
<1>8. LoadStr(r) = Take(Used(n), "str", Length(n), 1)
  BY <1>7 DEF LoadStr, n
<1>9. Take(At(tail, E, d), "str", s.len, 1) = At(rest, E \o <<s>>, d)
  <2>1. Len(<<s>>) = 1 /\ "str" \in Elems
    BY WidthHas
  <2> DEFINE vs == <<s>>
             e == "str"
  <2>2. e \in Elems /\ vs \in Seq(Stuff) /\ s.len \in Nat
    BY <1>1, <2>1
  <2>4. Len(vs) = 1 /\ tail = Run(e, s.len, vs) \o rest
    BY <1>1, <2>1 DEF tail
  <2> HIDE DEF vs, e
  <2>3. Take(At(Run(e, s.len, vs) \o rest, E, d), e, s.len, Len(vs)) = At(rest, E \o vs, d)
    BY <2>2, TakeAt
  <2> QED
    BY <2>3, <2>4 DEF vs, e
<1> QED
  BY <1>7, <1>8, <1>9

\* Stored elements that are read again, whatever is behind them and was read before them.
Restored(e, vs) ==
  /\ vs \in Seq(Stuff) /\ StoreElems(e, vs) \in Archived
  /\ \A rest \in Archived, E \in Seq(Stuff) : \A d :
       LoadElems(At(StoreElems(e, vs) \o rest, E, d), e, Len(vs)) = At(rest, E \o vs, d)

\* Numbers of any width are read again, and take up their width each.
LEMMA NumsRestored ==
  ASSUME NEW e \in {"u8", "u16", "u32", "u64", "sizes"}, NEW vs \in Seq(Stuff)
  PROVE  Restored(e, vs) /\ Size(StoreElems(e, vs)) = Width[e] * Len(vs)
<1>1. StoreElems(e, vs) = Run(e, Width[e], vs)
  BY DEF StoreElems
<1>2. Width[e] \in Nat /\ e \in Elems
  BY WidthHas
<1>3. Run(e, Width[e], vs) \in Archived /\ Size(Run(e, Width[e], vs)) = Width[e] * Len(vs)
  BY <1>2, SizeRun
<1>4. ASSUME NEW rest \in Archived, NEW E \in Seq(Stuff), NEW d
      PROVE  LoadElems(At(StoreElems(e, vs) \o rest, E, d), e, Len(vs)) = At(rest, E \o vs, d)
  <2> DEFINE r == At(StoreElems(e, vs) \o rest, E, d)
  <2>1. LoadElems(r, e, Len(vs)) = Take(r, e, Width[e], Len(vs))
    BY DEF LoadElems
  <2>2. Take(r, e, Width[e], Len(vs)) = At(rest, E \o vs, d)
    BY <1>1, <1>2, TakeAt
  <2> QED
    BY <2>1, <2>2
<1> QED
  BY <1>1, <1>3, <1>4 DEF Restored

\* One element more of a sequence.
LEMMA ReadOn ==
  ASSUME NEW vs \in Seq(Stuff), NEW k \in 1..Len(vs), NEW E \in Seq(Stuff)
  PROVE  /\ (E \o SubSeq(vs, 1, k - 1)) \o <<vs[k]>> = E \o SubSeq(vs, 1, k)
         /\ E \o SubSeq(vs, 1, k - 1) \in Seq(Stuff)
<1> DEFINE a == SubSeq(vs, 1, k - 1)
       b == <<vs[k]>>
<1>1. a \in Seq(Stuff) /\ b \in Seq(Stuff)
  OBVIOUS
<1>3. a \o b = SubSeq(vs, 1, k)
  OBVIOUS
<1> HIDE DEF a, b
<1>2. (E \o a) \o b = E \o (a \o b) /\ E \o a \in Seq(Stuff)
  <2>1. \A x, y \in Seq(Stuff) : (E \o x) \o y = E \o (x \o y) /\ E \o x \in Seq(Stuff)
    BY Joined
  <2> QED
    BY <1>1, <2>1, Zenon
<1> QED
  BY <1>2, <1>3 DEF a, b

\* Elements stored one after the other, and read one after the other.
LEMMA ChainRestored ==
  ASSUME NEW vs \in Seq(Stuff), NEW ss, Len(ss) = Len(vs),
         \A k \in 1..Len(vs) : ss[k] \in Archived,
         NEW rest \in Archived, NEW E \in Seq(Stuff), NEW d, NEW g,
         g[0] = At(Concat(ss) \o rest, E, d),
         \A k \in 1..Len(vs) : \A t \in Archived, F \in Seq(Stuff) :
           g[k - 1] = At(ss[k] \o t, F, d) => g[k] = At(t, F \o <<vs[k]>>, d)
  PROVE  g[Len(vs)] = At(rest, E \o vs, d)
<1> DEFINE n == Len(vs)
<1>1. n \in Nat /\ Len(ss) = n
  OBVIOUS
<1>2. PICK X : Rests(ARun, ss, X)
  BY <1>1, RestsExist DEF Archived
<1>3. /\ X[0] = Concat(ss) /\ X[n] = <<>> /\ \A k \in 0..n : X[k] \in Archived
      /\ \A k \in 1..n : X[k - 1] = ss[k] \o X[k]
  BY <1>1, <1>2 DEF Rests, Archived
<1> DEFINE Read(k) == E \o SubSeq(vs, 1, k)
           T == {k \in 0..n : g[k] = At(X[k] \o rest, Read(k), d)}
<1>4. Read(0) = E /\ Read(n) = E \o vs
  <2>1. SubSeq(vs, 1, 0) = <<>> /\ SubSeq(vs, 1, n) = vs
    OBVIOUS
  <2> QED
    BY <2>1, Neutral
<1>5. ASSUME NEW k \in 1..n
      PROVE  Read(k - 1) \o <<vs[k]>> = Read(k) /\ Read(k - 1) \in Seq(Stuff)
  BY ReadOn
<1> HIDE DEF Read, n
<1>6. 0 \in T
  BY <1>1, <1>3, <1>4
<1>7. ASSUME NEW k \in 1..n, k - 1 \in T
      PROVE  k \in T
  <2>1. k - 1 \in 0..n /\ k \in 0..n /\ X[k] \in Archived /\ ss[k] \in Archived
    BY <1>1, <1>3 DEF n
  <2>2. g[k - 1] = At(X[k - 1] \o rest, Read(k - 1), d)
    BY <1>7
  <2>3. X[k - 1] \o rest = ss[k] \o (X[k] \o rest) /\ X[k] \o rest \in Archived
    <3>1. (ss[k] \o X[k]) \o rest = ss[k] \o (X[k] \o rest)
      BY <2>1, Joined, Zenon
    <3>2. X[k] \o rest \in Archived
      BY <2>1, ConcatTwo DEF Archived
    <3> QED
      BY <1>3, <3>1, <3>2
  <2>4. g[k] = At(X[k] \o rest, Read(k - 1) \o <<vs[k]>>, d)
    BY <1>5, <2>2, <2>3 DEF n
  <2> QED
    BY <1>5, <2>1, <2>4
<1> HIDE DEF T
<1>8. \A k \in 0..n : k \in T
  BY <1>1, <1>6, <1>7, Induction
<1>9. g[n] = At(X[n] \o rest, Read(n), d)
  <2>1. n \in 0..n
    BY <1>1
  <2> QED
    BY <1>8, <2>1 DEF T
<1> QED
  BY <1>3, <1>4, <1>9, Neutral DEF Archived, n

\* A sequence of short strings is read again.
LEMMA StrsRestored ==
  ASSUME NEW p \in Seq(Strs), \A k \in 1..Len(p) : Small(p[k].len)
  PROVE  Restored("str", p)
<1> DEFINE ss == [k \in 1..Len(p) |-> StoreStr(p[k])]
<1>1. p \in Seq(Stuff) /\ Len(p) \in Nat /\ Len(ss) = Len(p)
  <2>1. Strs \subseteq Stuff
    BY DEF Stuff
  <2> QED
    BY <2>1
<1>2. \A k \in 1..Len(p) : Short(p[k])
  <2>1. \A k \in 1..Len(p) : p[k] \in Strs
    OBVIOUS
  <2> QED
    BY <2>1 DEF Short
<1>3. \A k \in 1..Len(p) : ss[k] = StoreStr(p[k])
  OBVIOUS
<1>4. StoreElems("str", p) = Concat(ss)
  BY DEF StoreElems
<1> HIDE DEF ss
<1>5. \A k \in 1..Len(p) : ss[k] \in Archived
  BY <1>2, <1>3, StoreStrSize DEF Short
<1>6. Concat(ss) \in Archived
  BY <1>1, <1>5, ConcatOf DEF Archived
<1>7. ASSUME NEW rest \in Archived, NEW E \in Seq(Stuff), NEW d
      PROVE  LoadElems(At(Concat(ss) \o rest, E, d), "str", Len(p)) = At(rest, E \o p, d)
  <2> DEFINE r == At(Concat(ss) \o rest, E, d)
  <2>1. PICK g : /\ g[0] = r
                 /\ \A k \in 1..Len(p) : g[k] = IF g[k - 1].valid THEN LoadStr(g[k - 1]) ELSE g[k - 1]
                 /\ LoadElems(r, "str", Len(p)) = g[Len(p)]
    <3> DEFINE n == Len(p)
    <3>1. n \in Nat
      BY <1>1
    <3> HIDE DEF r, n
    <3>2. \E g : /\ g[0] = r
                 /\ \A k \in 1..n : g[k] = IF g[k - 1].valid THEN LoadStr(g[k - 1]) ELSE g[k - 1]
                 /\ LoadElems(r, "str", n) = g[n]
      BY <3>1, StrsChain
    <3> QED
      BY <3>2 DEF n
  <2>2. ASSUME NEW k \in 1..Len(p), NEW t \in Archived, NEW F \in Seq(Stuff), g[k - 1] = At(ss[k] \o t, F, d)
        PROVE  g[k] = At(t, F \o <<p[k]>>, d)
    <3>1. g[k - 1].valid
      BY <2>2 DEF At
    <3>2. LoadStr(g[k - 1]) = At(t, F \o <<p[k]>>, d)
      BY <1>2, <1>3, <2>2, LoadStrAt
    <3> QED
      BY <2>1, <3>1, <3>2
  <2>3. g[Len(p)] = At(rest, E \o p, d)
    BY <1>1, <1>5, <2>1, <2>2, ChainRestored
  <2> QED
    BY <2>1, <2>3
<1> QED
  BY <1>1, <1>4, <1>6, <1>7 DEF Restored

Choosing == INSTANCE FoldTheorems WITH op <- LAMBDA q, k : IF q.valid THEN LoadOption(q) ELSE q

\* A reader with other elements or data.
LEMMA AtOther ==
  ASSUME NEW runs, NEW E, NEW d, NEW v
  PROVE  /\ [At(runs, E, d) EXCEPT !.elems = v] = At(runs, v, d)
         /\ [At(runs, E, d) EXCEPT !.data = v] = At(runs, E, v)
         /\ At(runs, E, d).valid /\ At(runs, E, d).elems = E /\ At(runs, E, d).data = d
         /\ At(runs, E, d).runs = runs /\ At(runs, E, d).left = Size(runs)
<1> DEFINE r == At(runs, E, d)
<1>1. /\ r = [runs |-> r.runs, left |-> r.left, valid |-> r.valid, elems |-> r.elems, data |-> r.data]
      /\ r.valid /\ r.runs = runs /\ r.left = Size(runs) /\ r.valid = TRUE /\ r.elems = E /\ r.data = d
  BY DEF At
<1> HIDE DEF r
<1>2. /\ [r EXCEPT !.elems = v] = [runs |-> r.runs, left |-> r.left, valid |-> r.valid, elems |-> v, data |-> r.data]
      /\ [r EXCEPT !.data = v] = [runs |-> r.runs, left |-> r.left, valid |-> r.valid, elems |-> r.elems, data |-> v]
  BY <1>1, FieldsOf, Zenon
<1>3. [r EXCEPT !.elems = v] = At(runs, v, d) /\ [r EXCEPT !.data = v] = At(runs, E, v)
  BY <1>1, <1>2 DEF At
<1> QED
  BY <1>1, <1>3 DEF r

\* The members of a menu option.
LEMMA OptionHas ==
  ASSUME NEW o \in OptionsOf
  PROVE  /\ o.idx \in Stuff /\ o.val \in Stuff /\ o = [idx |-> o.idx, val |-> o.val]
         /\ o.val.len \in Nat /\ o \in Stuff
<1>1. o.idx \in Nat /\ o.val \in Strs
  BY DEF OptionsOf
<1>2. o = [idx |-> o.idx, val |-> o.val]
  BY DEF OptionsOf
<1>3. o.idx \in Stuff /\ o.val \in Stuff /\ o \in Stuff
  <2>1. o.idx \in Int
    BY <1>1
  <2> QED
    BY <1>1, <2>1, Zenon DEF Stuff
<1>4. o.val.len \in Nat
  BY <1>1 DEF Strs
<1> QED
  BY <1>2, <1>3, <1>4, Zenon

\* A menu option that was stored is read again, and takes up four bytes and its text.
LEMMA LoadOptionAt ==
  ASSUME NEW o \in OptionsOf, Short(o.val), NEW rest \in Archived, NEW E \in Seq(Stuff), NEW d
  PROVE  /\ LoadOption(At(StoreOption(o) \o rest, E, d)) = At(rest, E \o <<o>>, d)
         /\ StoreOption(o) \in Archived /\ Size(StoreOption(o)) = 4 + o.val.len
<1> DEFINE i == o.idx
           s == o.val
           r == At(StoreOption(o) \o rest, E, d)
           tail == StoreStr(s) \o rest
           E1 == E \o <<i>>
           E2 == E1 \o <<s>>
           q == LoadStr(Take(r, "u16", 2, 1))
<1>1. i \in Stuff /\ s \in Stuff /\ o = [idx |-> i, val |-> s] /\ s.len \in Nat /\ o \in Stuff
  BY OptionHas
<1>2. Num("u16", i) \in Archived /\ StoreStr(s) \in Archived
      /\ Size(Num("u16", i)) = 2 /\ Size(StoreStr(s)) = 2 + s.len
  BY <1>1, NumIn, StoreStrSize, WidthHas DEF Short
<1>3. StoreOption(o) = Num("u16", i) \o StoreStr(s)
  BY DEF StoreOption
<1>4. StoreOption(o) \in Archived /\ StoreOption(o) \o rest = Num("u16", i) \o tail /\ tail \in Archived
  <2>1. /\ (Num("u16", i) \o StoreStr(s)) \o rest = Num("u16", i) \o (StoreStr(s) \o rest)
        /\ Num("u16", i) \o StoreStr(s) \in Archived /\ StoreStr(s) \o rest \in Archived
    BY <1>2, Joined, Zenon
  <2> QED
    BY <1>3, <2>1
<1>5. Size(StoreOption(o)) = 4 + o.val.len
  <2>1. Size(Num("u16", i) \o StoreStr(s)) = Size(Num("u16", i)) + Size(StoreStr(s))
    BY <1>2, SizeTwo
  <2> QED
    BY <1>1, <1>2, <1>3, <2>1
<1> HIDE DEF tail
<1>6. Take(At(Num("u16", i) \o tail, E, d), "u16", 2, 1) = At(tail, E1, d)
  BY <1>1, <1>4, U16At
<1>7. E1 \in Seq(Stuff) /\ E2 \in Seq(Stuff) /\ E \o <<o>> = Append(E, o)
      /\ Len(E2) = Len(E) + 2 /\ E2[Len(E) + 1] = i /\ E2[Len(E) + 2] = s /\ Len(E) \in Nat
      /\ SubSeq(E2, 1, Len(E)) = E
  <2> HIDE DEF i, s
  <2> QED
    BY <1>1
<1> HIDE DEF E1
<1>8. LoadStr(At(tail, E1, d)) = At(rest, E2, d)
  BY <1>7, LoadStrAt DEF tail
<1> HIDE DEF E2
<1>9. q = At(rest, E2, d)
  BY <1>4, <1>6, <1>8
<1> HIDE DEF q
<1>10. LoadOption(r) = [q EXCEPT !.elems = Append(SubSeq(E2, 1, Len(E)), [idx |-> i, val |-> s])]
  <2> DEFINE n == Len(q.elems)
  <2>1. q.valid /\ q.elems = E2 /\ n = Len(E) + 2 /\ n - 1 = Len(E) + 1 /\ n - 2 = Len(E)
    BY <1>7, <1>9, AtOther
  <2>2. q.elems[n - 1] = i /\ q.elems[n] = s
    BY <1>7, <2>1
  <2>3. LoadOption(r) = [q EXCEPT !.elems = Append(SubSeq(@, 1, n - 2), [idx |-> q.elems[n - 1], val |-> q.elems[n]])]
    BY <2>1, Zenon DEF LoadOption, q
  <2> QED
    BY <2>1, <2>2, <2>3
<1>11. LoadOption(r) = At(rest, Append(E, o), d)
  <2> DEFINE new == Append(E, o)
  <2>1. [At(rest, E2, d) EXCEPT !.elems = new] = At(rest, new, d)
    <3> HIDE DEF new
    <3> QED
      BY AtOther
  <2>2. Append(SubSeq(E2, 1, Len(E)), [idx |-> i, val |-> s]) = new
    BY <1>1, <1>7
  <2> QED
    BY <1>9, <1>10, <2>1, <2>2, Zenon
<1> QED
  BY <1>4, <1>5, <1>7, <1>11

\* A sequence of menu options is read again.
LEMMA OptionsRestored ==
  ASSUME NEW p \in Seq(OptionsOf), \A k \in 1..Len(p) : Short(p[k].val)
  PROVE  Restored("option", p)
<1> DEFINE ss == [k \in 1..Len(p) |-> StoreOption(p[k])]
<1>1. p \in Seq(Stuff) /\ Len(p) \in Nat /\ Len(ss) = Len(p)
  <2>1. \A o \in OptionsOf : o \in Stuff
    BY Zenon DEF Stuff
  <2> QED
    BY <2>1
<1>2. \A k \in 1..Len(p) : p[k] \in OptionsOf /\ ss[k] = StoreOption(p[k])
  OBVIOUS
<1>4. StoreElems("option", p) = Concat(ss)
  BY DEF StoreElems
<1> HIDE DEF ss
<1>5. \A k \in 1..Len(p) : ss[k] \in Archived
  <2>1. <<>> \in Archived /\ <<>> \in Seq(Stuff)
    BY DEF Archived
  <2> QED
    BY <1>2, <2>1, LoadOptionAt
<1>6. Concat(ss) \in Archived
  BY <1>1, <1>5, ConcatOf DEF Archived
<1>7. ASSUME NEW rest \in Archived, NEW E \in Seq(Stuff), NEW d
      PROVE  LoadElems(At(Concat(ss) \o rest, E, d), "option", Len(p)) = At(rest, E \o p, d)
  <2> DEFINE r == At(Concat(ss) \o rest, E, d)
             ns == [k \in 1..Len(p) |-> k]
  <2>1. PICK g : /\ g[0] = r
                 /\ \A k \in 1..Len(p) : g[k] = IF g[k - 1].valid THEN LoadOption(g[k - 1]) ELSE g[k - 1]
                 /\ LoadElems(r, "option", Len(p)) = g[Len(p)]
    <3>1. Len(ns) = Len(p) /\ Len(p) \in Nat
      BY <1>1
    <3>2. LoadElems(r, "option", Len(p)) = Choosing!FoldOf(r, ns)
      BY DEF LoadElems, Fold, Choosing!FoldOf
    <3> HIDE DEF r, ns
    <3>3. PICK g : Choosing!Folds(g, r, ns) /\ Choosing!FoldOf(r, ns) = g[Len(ns)]
      BY <3>1, Choosing!FoldChain
    <3> QED
      BY <3>1, <3>2, <3>3 DEF Choosing!Folds
  <2>2. ASSUME NEW k \in 1..Len(p), NEW t \in Archived, NEW F \in Seq(Stuff), g[k - 1] = At(ss[k] \o t, F, d)
        PROVE  g[k] = At(t, F \o <<p[k]>>, d)
    <3>1. g[k - 1].valid
      BY <2>2 DEF At
    <3>2. LoadOption(g[k - 1]) = At(t, F \o <<p[k]>>, d)
      BY <1>2, <2>2, LoadOptionAt
    <3> QED
      BY <2>1, <3>1, <3>2
  <2>3. g[Len(p)] = At(rest, E \o p, d)
    BY <1>1, <1>5, <2>1, <2>2, ChainRestored
  <2> QED
    BY <2>1, <2>3
<1> QED
  BY <1>1, <1>4, <1>6, <1>7 DEF Restored

\* Elements with their number before them.
LEMMA LoadVecAt ==
  ASSUME NEW e, NEW vs, Restored(e, vs), Small(Len(vs)),
         NEW rest \in Archived, NEW E \in Seq(Stuff), NEW d
  PROVE  /\ LoadVec(At(StoreVec(e, vs) \o rest, E, d), e) = At(rest, E \o vs, d)
         /\ StoreVec(e, vs) \in Archived
         /\ Size(StoreVec(e, vs)) = 2 + Size(StoreElems(e, vs))
<1> DEFINE n == Len(vs)
           tail == StoreElems(e, vs) \o rest
           q == Take(At(StoreVec(e, vs) \o rest, E, d), "u16", 2, 1)
<1>1. vs \in Seq(Stuff) /\ StoreElems(e, vs) \in Archived
  BY DEF Restored
<1>2. n \in Nat /\ n \in Stuff /\ U16(n) = n
  <2>1. n \in Nat
    BY <1>1
  <2>2. \A i \in Nat : i < 65536 => i % 65536 = i
    OBVIOUS
  <2> QED
    BY <2>1, <2>2 DEF U16, Stuff, Small
<1>3. StoreVec(e, vs) = Num("u16", n) \o StoreElems(e, vs)
  BY <1>2 DEF StoreVec
<1>4. Num("u16", n) \in Archived /\ Size(Num("u16", n)) = 2
  BY <1>2, NumIn, WidthHas
<1>5. /\ StoreVec(e, vs) \o rest = Num("u16", n) \o tail /\ tail \in Archived
      /\ StoreVec(e, vs) \in Archived
  <2> DEFINE aa == Num("u16", n)
             bb == StoreElems(e, vs)
  <2>0. aa \in Archived /\ bb \in Archived
    BY <1>1, <1>4
  <2>2. StoreVec(e, vs) = aa \o bb /\ tail = bb \o rest
    BY <1>3
  <2> HIDE DEF aa, bb, n, tail, q
  <2>1. (aa \o bb) \o rest = aa \o (bb \o rest) /\ aa \o bb \in Archived /\ bb \o rest \in Archived
    BY <2>0, ArchivedJoined, Zenon
  <2> QED
    BY <2>2, <2>1 DEF aa
<1>6. Size(StoreVec(e, vs)) = 2 + Size(StoreElems(e, vs))
  BY <1>1, <1>3, <1>4, SizeTwo
<1> HIDE DEF tail, n
<1>7. q = At(tail, E \o <<n>>, d)
  BY <1>2, <1>5, U16At
<1> HIDE DEF q
<1>8. q.valid /\ Length(q) = n /\ Used(q) = At(tail, E, d)
  BY <1>7, UsedAt
<1>9. LoadVec(At(StoreVec(e, vs) \o rest, E, d), e) = LoadElems(Used(q), e, Length(q))
  BY <1>8 DEF LoadVec, q
<1>10. LoadElems(At(tail, E, d), e, n) = At(rest, E \o vs, d)
  BY DEF Restored, tail, n
<1> QED
  BY <1>5, <1>6, <1>8, <1>9, <1>10

-----------------------------------------------------------------------------
(* Fields. *)

\* A reader in front of runs that has made data of what it read.
Reading(r, runs, data) == \E E : r = At(runs, E, data)

\* A stored field is read again, whatever is behind it.
FieldRestored(f, v, d) ==
  /\ StoreField(f, v) \in Archived
  /\ \A rest \in Archived : \A r :
       Reading(r, StoreField(f, v) \o rest, d) => Reading(LoadNext(r, f), rest, Append(d, v))

\* What has to be shown of a field that is read by LoadField and converted by Member.
LEMMA FieldOf ==
  ASSUME NEW f, NEW v, NEW d, NEW vs, StoreField(f, v) \in Archived,
         \A rest \in Archived : LoadField(At(StoreField(f, v) \o rest, <<>>, d), f) = At(rest, vs, d),
         \A rest \in Archived : Member(At(rest, vs, d), f) = v
  PROVE  FieldRestored(f, v, d)
<1>1. SUFFICES ASSUME NEW rest \in Archived, NEW r, Reading(r, StoreField(f, v) \o rest, d)
               PROVE  Reading(LoadNext(r, f), rest, Append(d, v))
  BY DEF FieldRestored
<1> DEFINE runs == StoreField(f, v) \o rest
<1>2. PICK E : r = At(runs, E, d)
  BY <1>1 DEF Reading
<1>6. LoadField(At(runs, <<>>, d), f) = At(rest, vs, d) /\ Member(At(rest, vs, d), f) = v
  OBVIOUS
<1> HIDE DEF runs
<1>3. r.valid /\ [r EXCEPT !.elems = <<>>] = At(runs, <<>>, d)
  <2>1. At(runs, E, d).valid /\ [At(runs, E, d) EXCEPT !.elems = <<>>] = At(runs, <<>>, d)
    <3>1. \A x : [At(runs, E, d) EXCEPT !.elems = x] = At(runs, x, d)
      BY AtOther
    <3> QED
      BY <3>1, AtOther
  <2> QED
    BY <1>2, <2>1
<1> DEFINE q == At(rest, vs, d)
           new == Append(d, v)
<1>4. q.valid /\ q.data = d
  BY AtOther
<1>5. [q EXCEPT !.data = new] = At(rest, vs, new)
  <2> HIDE DEF new
  <2> QED
    BY AtOther
<1> HIDE DEF q
<1>7. LoadNext(r, f) = [q EXCEPT !.data = new]
  <2>1. LoadField([r EXCEPT !.elems = <<>>], f) = q
    BY <1>3, <1>6 DEF q
  <2>2. LoadNext(r, f) = [q EXCEPT !.data = Append(@, Member(q, f))]
    BY <1>3, <1>4, <2>1 DEF LoadNext
  <2>3. Member(q, f) = v
    BY <1>6 DEF q
  <2> QED
    BY <1>4, <2>2, <2>3
<1> QED
  BY <1>5, <1>7 DEF Reading

\* Elements are read from the start.
LEMMA ReadAll ==
  ASSUME NEW e, NEW vs, Restored(e, vs), NEW rest \in Archived, NEW d
  PROVE  /\ LoadElems(At(StoreElems(e, vs) \o rest, <<>>, d), e, Len(vs)) = At(rest, vs, d)
         /\ StoreElems(e, vs) \in Archived /\ vs \in Seq(Stuff) /\ <<>> \in Seq(Stuff)
<1>1. vs \in Seq(Stuff) /\ <<>> \in Seq(Stuff) /\ <<>> \o vs = vs
  BY Neutral DEF Restored
<1>2. LoadElems(At(StoreElems(e, vs) \o rest, <<>>, d), e, Len(vs)) = At(rest, <<>> \o vs, d)
  BY <1>1 DEF Restored
<1> QED
  BY <1>1, <1>2 DEF Restored

\* A member that is a single value is read again if that value is.
LEMMA OneRestored ==
  ASSUME NEW e, NEW v, NEW d, Restored(e, <<v>>)
  PROVE  FieldRestored(One(e), v, d) /\ StoreField(One(e), v) = StoreElems(e, <<v>>)
<1> DEFINE f == One(e)
           vs == <<v>>
<1>1. f.kind = "one" /\ f.elem = e
  BY DEF One
<1>2. StoreField(f, v) = StoreElems(e, vs)
  BY <1>1 DEF StoreField
<1>3. Len(vs) = 1 /\ vs[1] = v
  OBVIOUS
<1>8. Restored(e, vs)
  OBVIOUS
<1> HIDE DEF f, vs
<1>4. StoreField(f, v) \in Archived
  BY <1>2 DEF Restored, vs
<1>5. ASSUME NEW rest \in Archived
      PROVE  LoadField(At(StoreField(f, v) \o rest, <<>>, d), f) = At(rest, vs, d)
  <2> DEFINE r == At(StoreField(f, v) \o rest, <<>>, d)
  <2>1. LoadField(r, f) = LoadElems(r, e, 1)
    BY <1>1 DEF LoadField
  <2>2. LoadElems(At(StoreElems(e, vs) \o rest, <<>>, d), e, Len(vs)) = At(rest, vs, d)
    BY <1>8, ReadAll
  <2> QED
    BY <1>2, <1>3, <2>1, <2>2
<1>6. ASSUME NEW rest \in Archived
      PROVE  Member(At(rest, vs, d), f) = v
  BY <1>1, <1>3, AtOther DEF Member
<1>7. FieldRestored(f, v, d)
  BY <1>4, <1>5, <1>6, FieldOf
<1> QED
  BY <1>2, <1>7 DEF f, vs

\* A vector is read again with its size in front of it, if the size can be said in 16 bits.
LEMMA VecRestored ==
  ASSUME NEW e, NEW vs, NEW d, Restored(e, vs), Small(Len(vs))
  PROVE  /\ FieldRestored(Vec(e), vs, d)
         /\ Size(StoreField(Vec(e), vs)) = 2 + Size(StoreElems(e, vs))
<1> DEFINE f == Vec(e)
<1>1. f.kind = "vec" /\ f.elem = e
  BY DEF Vec
<1>2. StoreField(f, vs) = StoreVec(e, vs)
  BY <1>1 DEF StoreField
<1>3. vs \in Seq(Stuff) /\ <<>> \in Seq(Stuff) /\ <<>> \o vs = vs /\ <<>> \in Archived
  BY Neutral DEF Restored, Archived
<1> HIDE DEF f
<1>5. ASSUME NEW rest \in Archived
      PROVE  /\ LoadField(At(StoreField(f, vs) \o rest, <<>>, d), f) = At(rest, vs, d)
             /\ StoreField(f, vs) \in Archived
             /\ Size(StoreField(f, vs)) = 2 + Size(StoreElems(e, vs))
  <2> DEFINE r == At(StoreField(f, vs) \o rest, <<>>, d)
  <2>1. LoadField(r, f) = LoadVec(r, e)
    BY <1>1 DEF LoadField
  <2>2. LoadVec(At(StoreVec(e, vs) \o rest, <<>>, d), e) = At(rest, <<>> \o vs, d)
        /\ StoreVec(e, vs) \in Archived /\ Size(StoreVec(e, vs)) = 2 + Size(StoreElems(e, vs))
    <3>1. \A E \in Seq(Stuff) : /\ LoadVec(At(StoreVec(e, vs) \o rest, E, d), e) = At(rest, E \o vs, d)
                                /\ StoreVec(e, vs) \in Archived
                                /\ Size(StoreVec(e, vs)) = 2 + Size(StoreElems(e, vs))
      BY LoadVecAt
    <3> QED
      BY <1>3, <3>1
  <2> QED
    BY <1>2, <1>3, <2>1, <2>2
<1>6. ASSUME NEW rest \in Archived
      PROVE  Member(At(rest, vs, d), f) = vs
  BY <1>1, AtOther DEF Member
<1>7. FieldRestored(f, vs, d)
  BY <1>3, <1>5, <1>6, FieldOf
<1> QED
  BY <1>3, <1>5, <1>7 DEF f

\* An array is read again when the sizes read before it announce its length.
LEMMA ArrRestored ==
  ASSUME NEW e, NEW vs, NEW n, NEW d, Restored(e, vs), SizesFit(d[2]), d[2][n] = Len(vs)
  PROVE  FieldRestored(Arr(e, n), vs, d) /\ StoreField(Arr(e, n), vs) = StoreElems(e, vs)
<1> DEFINE f == Arr(e, n)
<1>1. f.kind = "arr" /\ f.elem = e /\ f.count = n
  BY DEF Arr
<1>2. StoreField(f, vs) = StoreElems(e, vs)
  BY <1>1 DEF StoreField
<1> HIDE DEF f
<1>5. ASSUME NEW rest \in Archived
      PROVE  LoadField(At(StoreField(f, vs) \o rest, <<>>, d), f) = At(rest, vs, d)
  <2> DEFINE r == At(StoreField(f, vs) \o rest, <<>>, d)
  <2>1. r.data = d
    BY AtOther
  <2> HIDE DEF r
  <2>2. LoadField(r, f) = LoadElems(r, e, Len(vs))
    BY <1>1, <2>1 DEF LoadField
  <2>3. LoadElems(At(StoreElems(e, vs) \o rest, <<>>, d), e, Len(vs)) = At(rest, vs, d)
    BY ReadAll
  <2> QED
    BY <1>2, <2>2, <2>3 DEF r
<1>6. ASSUME NEW rest \in Archived
      PROVE  Member(At(rest, vs, d), f) = vs
  BY <1>1, AtOther DEF Member
<1>7. StoreField(f, vs) \in Archived
  BY <1>2 DEF Restored
<1>8. FieldRestored(f, vs, d)
  BY <1>5, <1>6, <1>7, FieldOf
<1> QED
  BY <1>2, <1>8 DEF f

Listing == INSTANCE FoldTheorems WITH op <- LAMBDA a, i : IF i \in Fields THEN Append(a, i) ELSE a

\* The fields in order, and a value for each of them in that order.
FieldList == [k \in 1..30 |-> k - 1]

\* The fields, listed in their order.
LEMMA FieldListHas ==
  /\ FieldList \in Seq(Stuff) /\ Len(FieldList) = 30 /\ ToSet(FieldList) = Fields
  /\ \A k \in 1..30 : FieldList[k] = k - 1
  /\ Cardinality(Fields) = 30
<1>1. Len(FieldList) = 30 /\ \A k \in 1..30 : FieldList[k] = k - 1 /\ k - 1 \in Int /\ k - 1 \in Fields
  BY DEF FieldList, Fields
<1>2. \A i \in Int : i \in Stuff
  BY Zenon DEF Stuff
<1>3. FieldList \in Seq(Stuff)
  <2>1. \A k \in 1..30 : k - 1 \in Stuff
    BY <1>2
  <2> QED
    BY <2>1 DEF FieldList
<1>4. \A i \in Fields : i + 1 \in 1..30 /\ FieldList[i + 1] = i
  BY <1>1 DEF Fields
<1>5. ToSet(FieldList) = Fields
  BY <1>1, <1>4 DEF ToSet
<1>6. Cardinality(Fields) = 30
  <2> DEFINE a == 0
             b == 29
  <2>1. a \in Int /\ b \in Int /\ ~ (a > b) /\ b - a + 1 = 30
    OBVIOUS
  <2>2. Fields = a..b
    BY DEF Fields
  <2> HIDE DEF a, b
  <2>3. Cardinality(a..b) = IF a > b THEN 0 ELSE b - a + 1
    BY <2>1, FS_Interval
  <2> QED
    BY <2>1, <2>2, <2>3
<1> QED
  BY <1>1, <1>3, <1>5, <1>6

\* The loop over the fields of a row visits them in their order.
LEMMA AscendingFields == Ascending(Fields) = FieldList
<1> DEFINE N == SNAPSHOT_FIELDS_NUM
           ns == [k \in 1..N |-> k - 1]
           Part(k) == [j \in 1..(IF k <= 30 THEN k ELSE 30) |-> j - 1]
<1>1. N \in Nat /\ N >= 30 /\ Len(ns) = N /\ \A k \in 1..N : ns[k] = k - 1
  BY RecordsAssumption, SizesAssumption
<1>2. Ascending(Fields) = Listing!FoldOf(<<>>, ns)
  BY DEF Ascending, Fold, Listing!FoldOf
<1> HIDE DEF N, ns
<1>3. PICK g : Listing!Folds(g, <<>>, ns) /\ Listing!FoldOf(<<>>, ns) = g[N]
  BY <1>1, Listing!FoldChain
<1>4. g[0] = <<>> /\ \A k \in 1..N : g[k] = IF k - 1 \in Fields THEN Append(g[k - 1], k - 1) ELSE g[k - 1]
  BY <1>1, <1>3 DEF Listing!Folds
<1> DEFINE T == {k \in 0..N : g[k] = Part(k)}
<1>5. 0 \in T
  <2>1. 0 \in 0..N /\ Part(0) = <<>>
    BY <1>1
  <2> QED
    BY <1>4, <2>1
<1>6. ASSUME NEW k \in 1..N, k - 1 \in T
      PROVE  k \in T
  <2>1. k \in 0..N /\ k \in Nat /\ k - 1 \in Nat
    BY <1>1
  <2>2. g[k - 1] = Part(k - 1)
    BY <1>6
  <2>3. CASE k <= 30
    <3>1. k - 1 \in Fields
      BY <2>1, <2>3 DEF Fields
    <3>2. Append(Part(k - 1), k - 1) = Part(k)
      <4>1. Part(k - 1) = [j \in 1..(k - 1) |-> j - 1] /\ Part(k) = [j \in 1..k |-> j - 1]
        BY <2>1, <2>3
      <4>2. Append([j \in 1..(k - 1) |-> j - 1], k - 1) = [j \in 1..k |-> j - 1]
        BY <2>1
      <4> QED
        BY <4>1, <4>2
    <3> QED
      BY <1>4, <2>1, <2>2, <3>1, <3>2
  <2>4. CASE ~ (k <= 30)
    <3>1. k - 1 \notin Fields
      BY <2>1, <2>4 DEF Fields
    <3>2. Part(k - 1) = Part(k)
      BY <2>1, <2>4
    <3> QED
      BY <1>4, <2>1, <2>2, <3>1, <3>2
  <2> QED
    BY <2>3, <2>4
<1> HIDE DEF T
<1>7. \A k \in 0..N : k \in T
  BY <1>1, <1>5, <1>6, Induction
<1>8. g[N] = Part(N) /\ Part(N) = FieldList
  <2>1. N \in 0..N
    BY <1>1
  <2>2. Part(N) = FieldList
    <3>1. (IF N <= 30 THEN N ELSE 30) = 30
      BY <1>1
    <3> QED
      BY <3>1 DEF FieldList
  <2> QED
    BY <1>7, <2>1, <2>2 DEF T
<1> QED
  BY <1>2, <1>3, <1>8

\* The bitset of all fields.
LEMMA BitsRestored ==
  ASSUME NEW d
  PROVE  FieldRestored(Bits, Fields, d) /\ Size(StoreField(Bits, Fields)) = 62
<1> DEFINE vs == FieldList
           f == Bits
<1>1. f.kind = "bits" /\ f.elem = "u16"
  BY DEF Bits
<1>2. Restored("u16", vs) /\ Size(StoreElems("u16", vs)) = 60
  <2>1. "u16" \in {"u8", "u16", "u32", "u64", "sizes"} /\ Width["u16"] = 2
    BY WidthHas
  <2>2. Restored("u16", vs) /\ Size(StoreElems("u16", vs)) = Width["u16"] * Len(vs)
    BY <2>1, FieldListHas, NumsRestored
  <2> QED
    BY <2>1, <2>2, FieldListHas
<1>3. StoreField(f, Fields) = StoreVec("u16", vs)
  <2>1. StoreField(f, Fields) = StoreBits(Fields)
    BY <1>1 DEF StoreField
  <2>2. StoreVec("u16", vs) = Num("u16", U16(30)) \o StoreElems("u16", vs)
    BY FieldListHas DEF StoreVec
  <2>3. StoreBits(Fields) = Num("u16", 30) \o StoreElems("u16", vs)
    BY FieldListHas, AscendingFields DEF StoreBits
  <2>4. U16(30) = 30
    BY DEF U16
  <2> QED
    BY <2>1, <2>2, <2>3, <2>4
<1>4. vs \in Seq(Stuff) /\ <<>> \in Seq(Stuff) /\ <<>> \o vs = vs /\ <<>> \in Archived /\ Small(Len(vs))
  BY FieldListHas, Neutral DEF Archived, Small
<1> HIDE DEF f, vs
<1>5. ASSUME NEW rest \in Archived
      PROVE  /\ LoadField(At(StoreField(f, Fields) \o rest, <<>>, d), f) = At(rest, vs, d)
             /\ StoreField(f, Fields) \in Archived
             /\ Size(StoreField(f, Fields)) = 2 + Size(StoreElems("u16", vs))
  <2> DEFINE r == At(StoreField(f, Fields) \o rest, <<>>, d)
  <2>1. LoadField(r, f) = LoadVec(r, "u16")
    BY <1>1 DEF LoadField
  <2>2. /\ LoadVec(At(StoreVec("u16", vs) \o rest, <<>>, d), "u16") = At(rest, <<>> \o vs, d)
        /\ StoreVec("u16", vs) \in Archived
        /\ Size(StoreVec("u16", vs)) = 2 + Size(StoreElems("u16", vs))
    <3>1. \A E \in Seq(Stuff) : \A e :
            e = "u16" => /\ LoadVec(At(StoreVec(e, vs) \o rest, E, d), e) = At(rest, E \o vs, d)
                         /\ StoreVec(e, vs) \in Archived
                         /\ Size(StoreVec(e, vs)) = 2 + Size(StoreElems(e, vs))
      <4> TAKE E \in Seq(Stuff)
      <4> TAKE e
      <4> HAVE e = "u16"
      <4>1. Restored(e, vs)
        BY <1>2
      <4> QED
        BY <1>4, <4>1, LoadVecAt
    <3> QED
      BY <1>4, <3>1
  <2> QED
    BY <1>3, <1>4, <2>1, <2>2
<1>6. ASSUME NEW rest \in Archived
      PROVE  Member(At(rest, vs, d), f) = Fields
  <2>1. ToSet(vs) = Fields
    BY FieldListHas DEF vs
  <2> QED
    BY <1>1, <2>1, AtOther DEF Member
<1>7. FieldRestored(f, Fields, d)
  BY <1>4, <1>5, <1>6, FieldOf
<1> QED
  BY <1>2, <1>4, <1>5, <1>7 DEF f

\* The values of all fields.
LEMMA ValuesRestored ==
  ASSUME NEW e, NEW V, NEW x \in [Fields -> V], NEW key, NEW d, d[key] = Fields,
         Restored(e, [k \in 1..30 |-> x[k - 1]])
  PROVE  /\ FieldRestored(Values(e, key), x, d)
         /\ StoreField(Values(e, key), x) = StoreElems(e, [k \in 1..30 |-> x[k - 1]])
<1> DEFINE vs == [k \in 1..30 |-> x[k - 1]]
           f == Values(e, key)
<1>1. f.kind = "values" /\ f.elem = e /\ f.keys = key
  BY DEF Values
<1>2. StoreField(f, x) = StoreElems(e, vs)
  <2>1. StoreField(f, x) = StoreValues(e, x)
    BY <1>1 DEF StoreField
  <2>2. DOMAIN x = Fields
    OBVIOUS
  <2>3. StoreValues(e, x) = StoreElems(e, [k \in 1..30 |-> x[FieldList[k]]])
    BY <2>2, AscendingFields, FieldListHas DEF StoreValues
  <2>4. [k \in 1..30 |-> x[FieldList[k]]] = vs
    BY FieldListHas
  <2> QED
    BY <2>1, <2>3, <2>4
<1>3. Len(vs) = 30 /\ \A k \in 1..30 : vs[k] = x[k - 1]
  OBVIOUS
<1>4. Restored(e, vs)
  OBVIOUS
<1> HIDE DEF f, vs
<1>5. ASSUME NEW rest \in Archived
      PROVE  LoadField(At(StoreField(f, x) \o rest, <<>>, d), f) = At(rest, vs, d)
  <2> DEFINE r == At(StoreField(f, x) \o rest, <<>>, d)
  <2>1. r.data = d
    BY AtOther
  <2> HIDE DEF r
  <2>2. LoadField(r, f) = LoadElems(r, e, Len(vs))
    BY <1>1, <1>3, <2>1, FieldListHas DEF LoadField
  <2>3. LoadElems(At(StoreElems(e, vs) \o rest, <<>>, d), e, Len(vs)) = At(rest, vs, d)
    BY <1>4, ReadAll
  <2> QED
    BY <1>2, <2>2, <2>3 DEF r
<1>6. ASSUME NEW rest \in Archived
      PROVE  Member(At(rest, vs, d), f) = x
  <2> DEFINE q == At(rest, vs, d)
  <2>1. q.data = d /\ q.elems = vs
    BY AtOther
  <2> HIDE DEF q
  <2>2. Member(q, f) = [i \in Fields |-> vs[CHOOSE k \in 1..30 : FieldList[k] = i]]
    <3> DEFINE keys == Ascending(q.data[f.keys])
    <3>1. q.data[f.keys] = Fields /\ keys = FieldList /\ Len(keys) = 30
      BY <1>1, <2>1, AscendingFields, FieldListHas
    <3>2. Member(q, f) = [i \in q.data[f.keys] |-> q.elems[CHOOSE k \in 1..Len(keys) : keys[k] = i]]
      BY <1>1 DEF Member
    <3> HIDE DEF keys
    <3> QED
      BY <2>1, <3>1, <3>2
  <2>3. ASSUME NEW i \in Fields
        PROVE  vs[CHOOSE k \in 1..30 : FieldList[k] = i] = x[i]
    <3>1. i + 1 \in 1..30 /\ FieldList[i + 1] = i
      <4>1. i + 1 \in 1..30 /\ (i + 1) - 1 = i
        BY DEF Fields
      <4> QED
        BY <4>1, FieldListHas
    <3>2. PICK k \in 1..30 : k = (CHOOSE j \in 1..30 : FieldList[j] = i) /\ FieldList[k] = i
      BY <3>1
    <3>3. k - 1 = i
      BY <3>2, FieldListHas
    <3> QED
      BY <1>3, <3>2, <3>3
  <2>4. x = [i \in Fields |-> x[i]]
    OBVIOUS
  <2> QED
    BY <2>2, <2>3, <2>4 DEF q
<1>7. StoreField(f, x) \in Archived
  BY <1>2, <1>4 DEF Restored
<1>8. FieldRestored(f, x, d)
  BY <1>5, <1>6, <1>7, FieldOf
<1> QED
  BY <1>2, <1>8 DEF f, vs

Loading == INSTANCE FoldTheorems WITH op <- LAMBDA r, f : LoadNext(r, f)

-----------------------------------------------------------------------------
(* Messages. *)

\* The members of a message and how they are stored.
MembersOf(m) == [k \in 1..Len(m.data) |-> StoreField(Stored[m.type][k], m.data[k])]

\* Every member can be read back behind those before it.
MembersRestored(m) ==
  /\ Len(m.data) \in Nat /\ SubSeq(m.data, 1, 0) = <<>> /\ SubSeq(m.data, 1, Len(m.data)) = m.data
  /\ Stored[m.type] = Loaded[m.type] /\ Len(Stored[m.type]) = Len(m.data)
  /\ \A k \in 1..Len(m.data) :
       /\ FieldRestored(Stored[m.type][k], m.data[k], SubSeq(m.data, 1, k - 1))
       /\ Append(SubSeq(m.data, 1, k - 1), m.data[k]) = SubSeq(m.data, 1, k)

\* A message that was written is read back.
LEMMA MessageRestored ==
  ASSUME NEW m, MembersRestored(m), NEW r, Reading(r, Payload(m), <<>>)
  PROVE  Reading(Fold(LoadNext, r, Loaded[m.type]), <<>>, m.data)
<1> DEFINE n == Len(m.data)
           ss == MembersOf(m)
           fs == Loaded[m.type]
           Part(k) == SubSeq(m.data, 1, k)
<1>1. /\ n \in Nat /\ Len(ss) = n /\ Len(fs) = n /\ Part(0) = <<>> /\ Part(n) = m.data
      /\ \A k \in 1..n : ss[k] = StoreField(fs[k], m.data[k])
      /\ \A k \in 1..n : FieldRestored(fs[k], m.data[k], Part(k - 1))
      /\ \A k \in 1..n : Append(Part(k - 1), m.data[k]) = Part(k)
  BY DEF MembersRestored, MembersOf
<1>2. Payload(m) = Concat(ss)
  BY DEF Payload, MembersOf
<1>3. Fold(LoadNext, r, fs) = Loading!FoldOf(r, fs)
  BY DEF Fold, Loading!FoldOf
<1> HIDE DEF n, ss, fs, Part
<1>4. PICK g : Loading!Folds(g, r, fs) /\ Loading!FoldOf(r, fs) = g[n]
  BY <1>1, Loading!FoldChain
<1>5. g[0] = r /\ \A k \in 1..n : g[k] = LoadNext(g[k - 1], fs[k])
  BY <1>1, <1>4 DEF Loading!Folds
<1>6. \A k \in 1..n : ss[k] \in Archived
  BY <1>1 DEF FieldRestored
<1>7. PICK X : Rests(ARun, ss, X)
  BY <1>1, <1>6, RestsExist DEF Archived
<1>8. /\ X[0] = Concat(ss) /\ X[n] = <<>> /\ \A k \in 0..n : X[k] \in Archived
      /\ \A k \in 1..n : X[k - 1] = ss[k] \o X[k]
  BY <1>1, <1>7 DEF Rests, Archived
<1> DEFINE T == {k \in 0..n : Reading(g[k], X[k], Part(k))}
<1>9. 0 \in T
  <2>1. 0 \in 0..n /\ Reading(g[0], X[0], Part(0))
    BY <1>1, <1>2, <1>5, <1>8
  <2> QED
    BY <2>1
<1>10. ASSUME NEW k \in 1..n, k - 1 \in T
       PROVE  k \in T
  <2>1. k \in 0..n /\ X[k] \in Archived
    BY <1>1, <1>8
  <2>2. Reading(g[k - 1], StoreField(fs[k], m.data[k]) \o X[k], Part(k - 1))
    BY <1>1, <1>8, <1>10
  <2>3. Reading(LoadNext(g[k - 1], fs[k]), X[k], Append(Part(k - 1), m.data[k]))
    BY <1>1, <2>1, <2>2 DEF FieldRestored
  <2> QED
    BY <1>1, <1>5, <2>1, <2>3
<1> HIDE DEF T
<1>11. \A k \in 0..n : k \in T
  BY <1>1, <1>9, <1>10, Induction
<1>12. Reading(g[n], <<>>, m.data)
  <2>1. n \in 0..n
    BY <1>1
  <2> QED
    BY <1>1, <1>8, <1>11, <2>1 DEF T
<1> QED
  BY <1>3, <1>4, <1>12 DEF fs

\* The bytes of sequences of runs, one after the other.
LEMMA SizeConcat ==
  ASSUME NEW ss, Len(ss) \in Nat, \A k \in 1..Len(ss) : ss[k] \in Archived
  PROVE  /\ Concat(ss) \in Archived
         /\ Size(Concat(ss)) = Total([k \in 1..Len(ss) |-> Size(ss[k])])
<1> DEFINE n == Len(ss)
           ns == [k \in 1..n |-> Size(ss[k])]
<1>1. \A k \in 1..n : Size(ss[k]) \in Nat
  <2>1. \A s \in Archived : Size(s) \in Nat
    BY SizeTwo
  <2> QED
    BY <2>1
<1>2. ns \in Seq(Nat) /\ Len(ns) = n /\ \A k \in 1..n : ns[k] = Size(ss[k])
  BY <1>1
<1>3. Concat(ss) \in Archived
  BY ConcatOf DEF Archived
<1>4. n \in Nat /\ \A k \in 1..n : ss[k] \in Archived
  OBVIOUS
<1> HIDE DEF n, ns
<1>5. PICK X : Rests(ARun, ss, X)
  BY RestsExist DEF Archived
<1>6. /\ X[0] = Concat(ss) /\ X[n] = <<>> /\ \A k \in 0..n : X[k] \in Archived
      /\ \A k \in 1..n : X[k - 1] = ss[k] \o X[k]
  BY <1>5 DEF Rests, Archived, n
<1>7. PICK g : Sums(ns, g)
  BY <1>2, SumsExist
<1>8. /\ g[0] = 0 /\ g[n] = Total(ns) /\ \A k \in 0..n : g[k] \in Nat
      /\ \A k \in 1..n : g[k] = g[k - 1] + Size(ss[k])
  BY <1>2, <1>7 DEF Sums
<1> DEFINE S == Size(X[0])
           T == {k \in 0..n : g[k] + Size(X[k]) = S}
<1>9. \A k \in 0..n : Size(X[k]) \in Nat
  BY <1>6, SizeTwo
<1>10. 0 \in T
  <2>1. 0 \in 0..n
    BY <1>4
  <2> QED
    BY <1>8, <1>9, <2>1
<1>11. ASSUME NEW k \in 1..n, k - 1 \in T
       PROVE  k \in T
  <2>1. k \in 0..n /\ k - 1 \in 0..n
    BY <1>4
  <2>2. Size(X[k - 1]) = Size(ss[k]) + Size(X[k])
    <3>1. Size(ss[k] \o X[k]) = Size(ss[k]) + Size(X[k])
      BY <1>4, <1>6, <2>1, SizeTwo
    <3> QED
      BY <1>6, <3>1
  <2>3. g[k - 1] + Size(X[k - 1]) = S /\ g[k] = g[k - 1] + Size(ss[k])
    BY <1>8, <1>11
  <2>4. g[k - 1] \in Nat /\ Size(ss[k]) \in Nat /\ Size(X[k]) \in Nat
    BY <1>1, <1>8, <1>9, <2>1 DEF n
  <2> QED
    BY <2>1, <2>2, <2>3, <2>4
<1> HIDE DEF T
<1>12. \A k \in 0..n : k \in T
  BY <1>4, <1>10, <1>11, Induction
<1>13. g[n] + Size(X[n]) = S
  <2>1. n \in 0..n
    BY <1>4
  <2> QED
    BY <1>12, <2>1 DEF T
<1> QED
  BY <1>3, <1>4, <1>6, <1>8, <1>13, SizeNone DEF n, ns

\* Sums of a few numbers.
LEMMA TotalFew ==
  ASSUME NEW ns \in Seq(Nat)
  PROVE  /\ Len(ns) = 0 => Total(ns) = 0
         /\ Len(ns) = 1 => Total(ns) = ns[1]
         /\ Len(ns) = 2 => Total(ns) = ns[1] + ns[2]
         /\ Len(ns) = 3 => Total(ns) = ns[1] + ns[2] + ns[3]
         /\ Len(ns) = 4 => Total(ns) = ns[1] + ns[2] + ns[3] + ns[4]
         /\ Len(ns) = 7 => Total(ns) = ns[1] + ns[2] + ns[3] + ns[4] + ns[5] + ns[6] + ns[7]
<1>1. PICK g : Sums(ns, g)
  BY SumsExist
<1>2. g[0] = 0 /\ g[Len(ns)] = Total(ns) /\ \A k \in 1..Len(ns) : g[k] = g[k - 1] + ns[k] /\ ns[k] \in Nat
  BY <1>1 DEF Sums
<1>3. Len(ns) >= 1 => g[1] = ns[1]
  BY <1>2
<1>4. Len(ns) >= 2 => g[2] = ns[1] + ns[2]
  BY <1>2, <1>3
<1>5. Len(ns) >= 3 => g[3] = ns[1] + ns[2] + ns[3]
  BY <1>2, <1>4
<1>6. Len(ns) >= 4 => g[4] = ns[1] + ns[2] + ns[3] + ns[4]
  BY <1>2, <1>5
<1>7. Len(ns) >= 5 => g[5] = ns[1] + ns[2] + ns[3] + ns[4] + ns[5]
  BY <1>2, <1>6
<1>8. Len(ns) >= 6 => g[6] = ns[1] + ns[2] + ns[3] + ns[4] + ns[5] + ns[6]
  BY <1>2, <1>7
<1>9. Len(ns) >= 7 => g[7] = ns[1] + ns[2] + ns[3] + ns[4] + ns[5] + ns[6] + ns[7]
  BY <1>2, <1>8
<1>10. \A k \in Nat : Len(ns) = k => Total(ns) = g[k]
  BY <1>2
<1>11. g[0] = 0
  BY <1>2
<1> DEFINE n == Len(ns)
           total == Total(ns)
<1> HIDE DEF n, total
<1>12. n \in Nat /\ \A k \in Nat : n = k => total = g[k]
  BY <1>10 DEF n, total
<1>13. /\ n >= 1 => g[1] = ns[1]
       /\ n >= 2 => g[2] = ns[1] + ns[2]
       /\ n >= 3 => g[3] = ns[1] + ns[2] + ns[3]
       /\ n >= 4 => g[4] = ns[1] + ns[2] + ns[3] + ns[4]
       /\ n >= 7 => g[7] = ns[1] + ns[2] + ns[3] + ns[4] + ns[5] + ns[6] + ns[7]
  BY <1>3, <1>4, <1>5, <1>6, <1>9 DEF n
<1>14. n = 0 => total = 0
  BY <1>11, <1>12
<1>15. n = 1 => total = ns[1]
  BY <1>12, <1>13
<1>16. n = 2 => total = ns[1] + ns[2]
  BY <1>12, <1>13
<1>17. n = 3 => total = ns[1] + ns[2] + ns[3]
  BY <1>12, <1>13
<1>18. n = 4 => total = ns[1] + ns[2] + ns[3] + ns[4]
  BY <1>12, <1>13
<1>19. n = 7 => total = ns[1] + ns[2] + ns[3] + ns[4] + ns[5] + ns[6] + ns[7]
  <2> DEFINE all == ns[1] + ns[2] + ns[3] + ns[4] + ns[5] + ns[6] + ns[7]
  <2>1. n >= 7 => g[7] = all
    BY <1>13
  <2> HIDE DEF all
  <2>2. n = 7 => total = g[7] /\ g[7] = all
    BY <1>12, <2>1
  <2> QED
    BY <2>2 DEF all
<1> QED
  BY <1>14, <1>15, <1>16, <1>17, <1>18, <1>19 DEF n, total

\* The members of a message, as many as there are.
LEMMA PayloadSize ==
  ASSUME NEW m, Len(m.data) \in Nat,
         \A k \in 1..Len(m.data) : StoreField(Stored[m.type][k], m.data[k]) \in Archived
  PROVE  /\ Payload(m) \in Archived
         /\ Size(Payload(m)) = Total([k \in 1..Len(m.data) |-> Size(StoreField(Stored[m.type][k], m.data[k]))])
         /\ [k \in 1..Len(m.data) |-> Size(StoreField(Stored[m.type][k], m.data[k]))] \in Seq(Nat)
<1> DEFINE ss == MembersOf(m)
           n == Len(m.data)
<1>1. n \in Nat /\ Len(ss) = n /\ \A k \in 1..n : ss[k] = StoreField(Stored[m.type][k], m.data[k])
  BY DEF MembersOf
<1>2. Payload(m) = Concat(ss)
  BY DEF Payload, MembersOf
<1>3. \A k \in 1..n : ss[k] \in Archived
  BY <1>1
<1>4. [k \in 1..n |-> Size(StoreField(Stored[m.type][k], m.data[k]))] = [k \in 1..n |-> Size(ss[k])]
  BY <1>1
<1> HIDE DEF ss, n
<1>5. Concat(ss) \in Archived /\ Size(Concat(ss)) = Total([k \in 1..n |-> Size(ss[k])])
  BY <1>1, <1>3, SizeConcat
<1>6. [k \in 1..n |-> Size(ss[k])] \in Seq(Nat)
  <2>1. \A k \in 1..n : Size(ss[k]) \in Nat
    BY <1>3, SizeTwo
  <2> QED
    BY <1>1, <2>1
<1> QED
  BY <1>2, <1>4, <1>5, <1>6 DEF n

Writing == INSTANCE FoldTheorems WITH op <- LAMBDA a, r : Write(a, r)

-----------------------------------------------------------------------------
(* Archives. *)

\* How much of a run is written into room for it.
LEMMA WrittenOf ==
  ASSUME NEW l \in 0..ARCHIVE_BUFF_CAPACITY, NEW a, a.len = l, NEW r \in ARun
  PROVE  LET n == Written(a, r)
         IN /\ n \in 0..Len(r.vs) /\ n * r.w \in Nat
            /\ l + n * r.w <= ARCHIVE_BUFF_CAPACITY /\ n * r.w <= Bytes(r)
            /\ n = Len(r.vs) => n * r.w = Bytes(r)
            /\ l + Bytes(r) <= ARCHIVE_BUFF_CAPACITY => n = Len(r.vs)
<1> DEFINE n == Written(a, r)
           N == Len(r.vs)
           C == ARCHIVE_BUFF_CAPACITY
           w == r.w
           room == C - l
           q == room \div w
<1>1. C \in Nat /\ N \in Nat /\ w \in Nat /\ l \in 0..C /\ Bytes(r) = w * N
  BY RecordsAssumption DEF ARun, Bytes
<1>2. n = IF l + w * N <= C THEN N ELSE q
  BY DEF Written
<1> HIDE DEF n, N, C, w
<1>3. w * N = N * w /\ w * N \in Nat
  BY <1>1
<1>4. CASE l + w * N <= C
  <2>1. n = N
    BY <1>2, <1>4
  <2> DEFINE x == N * w
  <2>2. x \in Nat /\ l + x <= C /\ x = Bytes(r) /\ n * w = x
    BY <1>1, <1>3, <1>4, <2>1
  <2> HIDE DEF x
  <2> QED
    BY <1>1, <2>1, <2>2 DEF n, N, C, w
<1>5. CASE ~ (l + w * N <= C)
  <2>1. w # 0
    BY <1>1, <1>5
  <2>2. room \in Nat
    BY <1>1
  <2> HIDE DEF room
  <2>3. q \in Nat /\ q * w <= room /\ q * w \in Nat
    BY <1>1, <2>1, <2>2
  <2> HIDE DEF q
  <2>4. n = q
    BY <1>2, <1>5
  <2> DEFINE x == w * N
             y == q * w
  <2>5. x \in Nat /\ y \in Nat /\ y <= room /\ ~ (l + x <= C) /\ x = Bytes(r) /\ n * w = y
    BY <1>1, <1>3, <1>5, <2>3, <2>4
  <2>6. q < N
    <3>1. SUFFICES ASSUME N <= q PROVE FALSE
      BY <1>1, <2>3
    <3>2. w * N <= w * q /\ w * q = q * w
      BY <1>1, <2>3, <3>1
    <3>3. x <= y
      BY <3>2
    <3> HIDE DEF x, y
    <3> QED
      BY <1>1, <2>2, <2>5, <3>3 DEF room
  <2> HIDE DEF x, y
  <2>7. l + y <= C /\ y <= x
    BY <1>1, <2>5 DEF room
  <2>8. n \in 0..N /\ n # N
    BY <1>1, <2>3, <2>4, <2>6
  <2>9. ~ (l + Bytes(r) <= C)
    BY <2>5
  <2>10. n * w \in Nat /\ l + n * w <= C /\ n * w <= Bytes(r)
    BY <2>5, <2>7
  <2> QED
    BY <2>8, <2>9, <2>10 DEF n, N, C, w
<1> QED
  BY <1>4, <1>5

\* What is in the buffer after k of the runs.
Buffered(h, runs, sums, k, a) ==
  /\ a.header = h /\ a.len \in 0..ARCHIVE_BUFF_CAPACITY /\ a.len <= sums[k] /\ a.valid \in BOOLEAN
  /\ a.valid => a.len = sums[k] /\ a.runs = SubSeq(runs, 1, k)
  /\ sums[k] <= ARCHIVE_BUFF_CAPACITY => a.valid

\* Writing one more run: all of the runs are in the buffer, or it has been marked invalid.
LEMMA WriteBuffered ==
  ASSUME NEW h, NEW runs \in Archived, NEW sums, NEW k \in 1..Len(runs), NEW a,
         sums[k - 1] \in Nat, sums[k] = sums[k - 1] + Bytes(runs[k]),
         Buffered(h, runs, sums, k - 1, a)
  PROVE  Buffered(h, runs, sums, k, Write(a, runs[k]))
<1> DEFINE r == runs[k]
           n == Written(a, r)
           C == ARCHIVE_BUFF_CAPACITY
           x == n * r.w
           b == Bytes(r)
           l == a.len
           new == Write(a, r)
           s == sums[k - 1]
<1>1. r \in ARun /\ C \in Nat /\ k \in Nat
  BY RecordsAssumption DEF Archived
<1>2. l \in 0..C /\ l <= s /\ s \in Nat /\ a.header = h /\ a.valid \in BOOLEAN
      /\ (a.valid => l = s /\ a.runs = SubSeq(runs, 1, k - 1)) /\ (s <= C => a.valid)
  BY DEF Buffered
<1>3. b \in Nat /\ sums[k] = s + b
  BY <1>1, BytesNat
<1>4. new.header = h /\ new.len = l + x /\ new.valid = (a.valid /\ n = Len(r.vs))
      /\ new.runs = a.runs \o Run(r.elem, r.w, SubSeq(r.vs, 1, n))
  BY <1>2 DEF Write
<1>5. n \in 0..Len(r.vs) /\ x \in Nat /\ l + x <= C /\ x <= b /\ (n = Len(r.vs) => x = b)
      /\ (l + b <= C => n = Len(r.vs))
  BY <1>1, <1>2, WrittenOf
<1>6. ASSUME new.valid
      PROVE  new.runs = SubSeq(runs, 1, k)
  <2>1. n = Len(r.vs) /\ a.runs = SubSeq(runs, 1, k - 1)
    BY <1>2, <1>4, <1>6
  <2>2. r.vs \in Seq(Stuff) /\ r.vs # <<>> /\ r = [elem |-> r.elem, w |-> r.w, vs |-> r.vs]
    BY <1>1 DEF ARun
  <2>3. SubSeq(r.vs, 1, Len(r.vs)) = r.vs
    BY <2>2
  <2>4. Run(r.elem, r.w, r.vs) = <<r>>
    BY <2>2 DEF Run
  <2>5. SubSeq(runs, 1, k - 1) \o <<runs[k]>> = SubSeq(runs, 1, k)
    BY DEF Archived
  <2> HIDE DEF r, n
  <2> QED
    BY <1>4, <2>1, <2>3, <2>4, <2>5 DEF r
<1> HIDE DEF r, n, C, x, b, l, new, s
<1>7. new.len \in 0..C /\ new.len <= sums[k] /\ new.valid \in BOOLEAN
  BY <1>1, <1>2, <1>3, <1>4, <1>5
<1>8. new.valid => new.len = sums[k]
  BY <1>2, <1>3, <1>4, <1>5
<1>9. sums[k] <= C => new.valid
  <2>1. ASSUME sums[k] <= C
        PROVE  a.valid /\ n = Len(r.vs)
    <3>1. s <= C /\ l + b <= C
      BY <1>1, <1>2, <1>3, <2>1
    <3> QED
      BY <1>2, <1>5, <3>1
  <2> QED
    BY <1>4, <2>1
<1> QED
  BY <1>4, <1>6, <1>7, <1>8, <1>9 DEF Buffered, new, r, C

\* All of it is written if it fits, and otherwise the archive is not valid.
LEMMA ArchiveOf ==
  ASSUME NEW h, NEW runs \in Archived, NEW base,
         base = [header |-> h, runs |-> <<>>, len |-> 0, valid |-> TRUE]
  PROVE  LET a == Fold(Write, base, runs)
         IN /\ a.header = h /\ a.len \in 0..ARCHIVE_BUFF_CAPACITY
            /\ Size(runs) <= ARCHIVE_BUFF_CAPACITY => a.valid /\ a.len = Size(runs) /\ a.runs = runs
            /\ ~ (Size(runs) <= ARCHIVE_BUFF_CAPACITY) => ~ a.valid
<1> DEFINE N == Len(runs)
           ns == [k \in 1..N |-> Bytes(runs[k])]
           C == ARCHIVE_BUFF_CAPACITY
<1>1. N \in Nat /\ C \in Nat /\ \A k \in 1..N : runs[k] \in ARun
  BY RecordsAssumption DEF Archived
<1>2. Size(runs) = Total(ns)
  BY DEF Size
<1>3. ns \in Seq(Nat) /\ Len(ns) = N /\ \A k \in 1..N : ns[k] = Bytes(runs[k])
  <2>1. \A k \in 1..N : Bytes(runs[k]) \in Nat
    BY <1>1, BytesNat
  <2> QED
    BY <1>1, <2>1
<1>4. Fold(Write, base, runs) = Writing!FoldOf(base, runs)
  BY DEF Fold, Writing!FoldOf
<1>5. SubSeq(runs, 1, 0) = <<>> /\ SubSeq(runs, 1, N) = runs
  BY DEF Archived
<1> HIDE DEF ns, N, C
<1>6. PICK sums : Sums(ns, sums)
  BY <1>3, SumsExist
<1>7. PICK g : Writing!Folds(g, base, runs) /\ Writing!FoldOf(base, runs) = g[N]
  BY <1>1, Writing!FoldChain DEF N
<1>8. g[0] = base /\ \A k \in 1..N : g[k] = Write(g[k - 1], runs[k])
  BY <1>7 DEF Writing!Folds, N
<1>9. /\ sums[0] = 0 /\ sums[N] = Size(runs) /\ \A k \in 0..N : sums[k] \in Nat
      /\ \A k \in 1..N : sums[k] = sums[k - 1] + Bytes(runs[k])
  BY <1>2, <1>3, <1>6 DEF Sums
<1> DEFINE T == {k \in 0..N : Buffered(h, runs, sums, k, g[k])}
<1>10. 0 \in T
  <2>1. 0 \in 0..N /\ 0 \in 0..C
    BY <1>1
  <2>2. Buffered(h, runs, sums, 0, base)
    BY <1>5, <1>9, <2>1 DEF Buffered, C
  <2> QED
    BY <1>8, <2>1, <2>2
<1>11. ASSUME NEW k \in 1..N, k - 1 \in T
       PROVE  k \in T
  <2>1. k \in 0..N /\ k - 1 \in 0..N /\ k \in 1..Len(runs)
    BY <1>1 DEF N
  <2>2. Buffered(h, runs, sums, k - 1, g[k - 1]) /\ sums[k - 1] \in Nat /\ sums[k] = sums[k - 1] + Bytes(runs[k])
    BY <1>9, <1>11, <2>1
  <2>3. Buffered(h, runs, sums, k, Write(g[k - 1], runs[k]))
    BY <2>1, <2>2, WriteBuffered
  <2> QED
    BY <1>8, <2>1, <2>3
<1> HIDE DEF T
<1>12. \A k \in 0..N : k \in T
  BY <1>1, <1>10, <1>11, Induction
<1>13. Buffered(h, runs, sums, N, g[N]) /\ sums[N] \in Nat
  <2>1. N \in 0..N
    BY <1>1
  <2> QED
    BY <1>9, <1>12, <2>1 DEF T
<1> DEFINE a == g[N]
<1> HIDE DEF a
<1>14. /\ a.header = h /\ a.len \in 0..C /\ a.len <= Size(runs) /\ Size(runs) \in Nat
       /\ (a.valid => a.len = Size(runs) /\ a.runs = runs) /\ (Size(runs) <= C => a.valid)
  BY <1>5, <1>9, <1>13 DEF Buffered, C, a
<1>15. ~ (Size(runs) <= C) => ~ a.valid
  BY <1>1, <1>14
<1> QED
  BY <1>4, <1>7, <1>14, <1>15 DEF a, C

\* What is announced of a message, and how it is read.
HeaderOf(m) == [type |-> m.type, len |-> U16(WIRE_TSTAMP_LEN + CalcLen(m))]
RecordOf(m) == Num("u64", "stamp") \o Payload(m)

\* A message whose members can be read back and whose length is announced as it is.
Sound(m) ==
  /\ MembersRestored(m) /\ m.type \in MsgTypes
  /\ CalcLen(m) = Size(Payload(m)) /\ Small(WIRE_TSTAMP_LEN + Size(Payload(m)))

Faithful(m) == IF Fits(m) THEN ReadsBack(m) ELSE CutShort(m)

\* The payload of such a message is made of runs.
LEMMA PayloadIn ==
  ASSUME NEW m, MembersRestored(m)
  PROVE  Payload(m) \in Archived
<1>1. Len(m.data) \in Nat /\ \A k \in 1..Len(m.data) : StoreField(Stored[m.type][k], m.data[k]) \in Archived
  BY DEF MembersRestored, FieldRestored
<1> QED
  BY <1>1, PayloadSize

\* A record is its header, a time stamp and the payload.
LEMMA WireSizeIs ==
  ASSUME NEW m
  PROVE  WireSize(m) = 16 + Size(Payload(m))
<1> DEFINE runs == Payload(m)
           ns == [k \in 1..Len(runs) |-> runs[k].w * Len(runs[k].vs)]
<1>1. WireSize(m) = 8 + 8 + Total(ns)
  BY DEF WireSize, HDR_LEN, WIRE_TSTAMP_LEN
<1>2. Size(Payload(m)) = Total(ns)
  BY DEF Size, Bytes
<1> HIDE DEF ns
<1> QED
  BY <1>1, <1>2

\* The archive of a sound message.
LEMMA SoundArchive ==
  ASSUME NEW m, Sound(m)
  PROVE  LET a == Archive(m)
             h == HeaderOf(m)
             runs == Num("u64", h) \o RecordOf(m)
         IN /\ h.len = 8 + Size(Payload(m)) /\ Size(Payload(m)) \in Nat /\ h.type = m.type
            /\ RecordOf(m) \in Archived /\ Size(RecordOf(m)) = 8 + Size(Payload(m))
            /\ runs # <<>> /\ Tail(runs) = RecordOf(m)
            /\ a.header = h /\ a.len \in 0..ARCHIVE_BUFF_CAPACITY
            /\ Fits(m) => a.valid /\ a.len = 16 + Size(Payload(m)) /\ a.runs = runs
            /\ ~ Fits(m) => ~ a.valid
<1> DEFINE a == Archive(m)
           h == HeaderOf(m)
           head == Num("u64", h)
           stamp == Num("u64", "stamp")
           p == Payload(m)
           runs == head \o RecordOf(m)
           base == [header |-> h, runs |-> <<>>, len |-> 0, valid |-> TRUE]
<1>1. p \in Archived /\ Size(p) \in Nat
  BY PayloadIn, SizeTwo DEF Sound
<1>2. h.len = 8 + Size(p) /\ h.len \in Nat /\ h.type = m.type /\ h \in Stuff
  <2>1. CalcLen(m) = Size(p) /\ 8 + Size(p) < 65536 /\ m.type \in MsgTypes
    BY DEF Sound, Small, WIRE_TSTAMP_LEN
  <2>2. U16(8 + Size(p)) = 8 + Size(p)
    <3>1. \A n \in Nat : n < 65536 => n % 65536 = n
      OBVIOUS
    <3> HIDE DEF p
    <3> QED
      BY <1>1, <2>1, <3>1 DEF U16
  <2>3. h = [type |-> m.type, len |-> 8 + Size(p)]
    BY <2>1, <2>2 DEF HeaderOf, WIRE_TSTAMP_LEN
  <2>4. h \in [type : MsgTypes, len : Nat]
    BY <1>1, <2>1, <2>3
  <2>5. h \in Stuff
    BY <2>4, Zenon DEF Stuff
  <2> HIDE DEF h, p
  <2> QED
    BY <1>1, <2>3, <2>5
<1>3. "u64" \in {"u8", "u16", "u32", "u64", "sizes"} /\ Width["u64"] = 8 /\ "u64" \in Elems
  BY DEF Width, Elems
<1>4. head \in Archived /\ Size(head) = 8
  <2> HIDE DEF h
  <2> QED
    BY <1>2, <1>3, NumIn
<1>5. stamp \in Archived /\ Size(stamp) = 8
  <2>1. "stamp" \in Stuff
    BY DEF Stuff
  <2> QED
    BY <1>3, <2>1, NumIn
<1>6. RecordOf(m) = stamp \o p /\ Archive(m) = Fold(Write, base, head \o (stamp \o p))
  <2>1. Archive(m) = Fold(Write, base, (head \o stamp) \o p)
    BY DEF Archive, HeaderOf
  <2> HIDE DEF head, stamp, p
  <2>2. (head \o stamp) \o p = head \o (stamp \o p)
    BY <1>1, <1>4, <1>5, ArchivedJoined
  <2> QED
    BY <2>1, <2>2 DEF RecordOf, stamp, p
<1>7. Num("u64", h) = <<[elem |-> "u64", w |-> 8, vs |-> <<h>>]>>
  BY <1>3 DEF Num, Run
<1> DEFINE first == [elem |-> "u64", w |-> 8, vs |-> <<h>>]
<1> HIDE DEF stamp, p
<1>8. RecordOf(m) \in Archived /\ Size(RecordOf(m)) = 8 + Size(p)
  <2>1. stamp \o p \in Archived /\ Size(stamp \o p) = Size(stamp) + Size(p)
    BY <1>1, <1>5, ArchivedJoined, SizeTwo
  <2> QED
    BY <1>5, <1>6, <2>1
<1> DEFINE record == RecordOf(m)
<1> HIDE DEF record, head
<1>9. head \o record \in Archived /\ Size(head \o record) = 16 + Size(p)
  <2>1. record \in Archived /\ Size(record) = 8 + Size(p)
    BY <1>8 DEF record
  <2>2. head \o record \in Archived /\ Size(head \o record) = Size(head) + Size(record)
    BY <1>4, <2>1, ArchivedJoined, SizeTwo
  <2> QED
    BY <1>1, <1>4, <2>1, <2>2
<1>10. head \o record # <<>> /\ Tail(head \o record) = record
  <2> HIDE DEF first
  <2>1. head = <<first>> /\ record \in Seq(ARun)
    BY <1>7, <1>8 DEF head, first, record, Archived
  <2> QED
    BY <2>1
<1>11. Archive(m) = Fold(Write, base, head \o record)
  BY <1>6 DEF record
<1>12. Fits(m) <=> Size(head \o record) <= ARCHIVE_BUFF_CAPACITY
  BY <1>9, WireSizeIs DEF Fits, p
<1> DEFINE all == head \o record
<1>13. all \in Archived
  BY <1>9
<1> HIDE DEF all, h
<1>14. /\ a.header = h /\ a.len \in 0..ARCHIVE_BUFF_CAPACITY
       /\ Size(all) <= ARCHIVE_BUFF_CAPACITY => a.valid /\ a.len = Size(all) /\ a.runs = all
       /\ ~ (Size(all) <= ARCHIVE_BUFF_CAPACITY) => ~ a.valid
  <2> DEFINE b == base
  <2>1. b = [header |-> h, runs |-> <<>>, len |-> 0, valid |-> TRUE]
    OBVIOUS
  <2>2. a = Fold(Write, b, all)
    BY <1>11 DEF all
  <2> HIDE DEF a, b
  <2> QED
    BY <1>13, <2>1, <2>2, ArchiveOf
<1> HIDE DEF a
<1>15. Fits(m) => a.valid /\ a.len = 16 + Size(p) /\ a.runs = all
  BY <1>9, <1>12, <1>14 DEF all
<1>16. ~ Fits(m) => ~ a.valid
  BY <1>12, <1>14 DEF all
<1> QED
  BY <1>1, <1>2, <1>8, <1>10, <1>14, <1>15, <1>16 DEF all, head, record, p, h, a

\* Such a message is read back as it was sent if it fits, and otherwise never complete.
LEMMA SoundFaithful ==
  ASSUME NEW m, Sound(m)
  PROVE  Faithful(m)
<1> DEFINE a == Archive(m)
           h == HeaderOf(m)
           record == RecordOf(m)
           runs == Num("u64", h) \o record
           p == Payload(m)
           C == ARCHIVE_BUFF_CAPACITY
           size == Size(p)
<1>1. /\ h.len = 8 + size /\ size \in Nat /\ h.type = m.type
      /\ record \in Archived /\ Size(record) = 8 + size
      /\ runs # <<>> /\ Tail(runs) = record
      /\ a.header = h /\ a.len \in 0..C
      /\ Fits(m) => a.valid /\ a.len = 16 + size /\ a.runs = runs
      /\ ~ Fits(m) => ~ a.valid
  BY SoundArchive
<1>2. C \in Nat /\ (Fits(m) <=> 16 + size <= C)
  BY RecordsAssumption, WireSizeIs DEF Fits
<1>3. Complete(a) <=> a.len >= 16 + size
  <2>1. Complete(a) <=> a.len >= 8 + (8 + size)
    BY <1>1 DEF Complete, HDR_LEN
  <2> HIDE DEF a, size, h, record, C
  <2> QED
    BY <1>1, <2>1
<1>4. CASE ~ Fits(m)
  <2>1. ~ a.valid /\ ~ Complete(a)
    <3> HIDE DEF a, size, h, record, C
    <3> QED
      BY <1>1, <1>2, <1>3, <1>4
  <2> QED
    BY <1>4, <2>1 DEF Faithful, CutShort
<1>5. CASE Fits(m)
  <2>1. a.valid /\ a.len = 16 + size /\ a.runs = runs /\ Complete(a)
    <3> HIDE DEF a, size, h, record, C
    <3> QED
      BY <1>1, <1>3, <1>5
  <2> DEFINE r0 == [runs |-> Tail(a.runs), left |-> a.header.len,
                    valid |-> a.header.len <= ARCHIVE_BUFF_CAPACITY,
                    elems |-> <<>>, data |-> <<>>]
             r1 == Take(r0, "u64", WIRE_TSTAMP_LEN, 1)
             r == Load(a)
  <2>2. r0 = At(record, <<>>, <<>>)
    <3>1. Tail(a.runs) = record /\ a.header.len = Size(record) /\ (a.header.len <= C) = TRUE
      <4> HIDE DEF a, size, h, record, C, runs
      <4> QED
        BY <1>1, <1>2, <1>5, <2>1
    <3> HIDE DEF a, record
    <3> QED
      BY <3>1 DEF At
  <2>3. r1 = At(p, <<"stamp">>, <<>>)
    <3> DEFINE e == "u64"
               w == 8
               vs == <<"stamp">>
    <3>1. e \in Elems /\ w \in Nat /\ vs \in Seq(Stuff) /\ Len(vs) = 1 /\ <<>> \in Seq(Stuff) /\ <<>> \o vs = vs
      BY DEF Elems, Stuff
    <3>2. record = Run(e, w, vs) \o p
      BY DEF RecordOf, Num, Width
    <3>3. p \in Archived
      BY PayloadIn DEF Sound
    <3>4. r1 = Take(r0, e, w, 1)
      BY DEF WIRE_TSTAMP_LEN
    <3> HIDE DEF e, w, vs, r0, r1, p, record
    <3>5. \A E \in Seq(Stuff) : \A d : Take(At(Run(e, w, vs) \o p, E, d), e, w, Len(vs)) = At(p, E \o vs, d)
      BY <3>1, <3>3, TakeAt
    <3>6. Take(At(Run(e, w, vs) \o p, <<>>, <<>>), e, w, Len(vs)) = At(p, <<>> \o vs, <<>>)
      BY <3>1, <3>5
    <3>7. r1 = At(p, vs, <<>>)
      BY <2>2, <3>1, <3>2, <3>4, <3>6
    <3> QED
      BY <3>7 DEF vs
  <2>4. Reading(r1, Payload(m), <<>>)
    BY <2>3 DEF Reading
  <2>5. r = Fold(LoadNext, r1, Loaded[m.type])
    <3>1. a.header.type = m.type
      <4> HIDE DEF a, h
      <4> QED
        BY <1>1
    <3>2. r = Fold(LoadNext, r1, Loaded[a.header.type])
      BY DEF Load
    <3> HIDE DEF r, r1, a
    <3> QED
      BY <3>1, <3>2
  <2> HIDE DEF r1, r
  <2>6. Reading(r, <<>>, m.data)
    BY <2>4, <2>5, MessageRestored DEF Sound
  <2>7. r.valid /\ r.left = 0 /\ r.data = m.data
    <3>1. PICK E : r = At(<<>>, E, m.data)
      BY <2>6 DEF Reading
    <3> QED
      BY <3>1, AtOther, SizeNone
  <2>8. ReadsBack(m)
    BY <2>1, <2>7 DEF ReadsBack, r
  <2> QED
    BY <1>5, <2>8 DEF Faithful
<1> QED
  BY <1>4, <1>5

Measuring == INSTANCE FoldTheorems WITH op <- LAMBDA r, s : U16(r + s.len + 2)

-----------------------------------------------------------------------------
(* Lengths. *)

\* 16 bits are enough for a small number, and for what is less.
LEMMA SmallIs ==
  ASSUME NEW n \in Nat, Small(n)
  PROVE  U16(n) = n /\ \A k \in Nat : k <= n => Small(k) /\ U16(k) = k
<1>1. \A k \in Nat : k < 65536 => k % 65536 = k
  OBVIOUS
<1> QED
  BY <1>1 DEF Small, U16

\* A sum is at least what it was before, and at least each of its terms.
LEMMA SumsGrow ==
  ASSUME NEW ns \in Seq(Nat), NEW g, Sums(ns, g)
  PROVE  /\ \A k \in 0..Len(ns) : g[k] <= Total(ns)
         /\ \A k \in 1..Len(ns) : ns[k] <= Total(ns)
<1> DEFINE n == Len(ns)
<1>1. /\ g[n] = Total(ns) /\ n \in Nat
      /\ \A k \in 0..n : g[k] \in Nat
      /\ \A k \in 1..n : g[k] = g[k - 1] + ns[k] /\ ns[k] \in Nat
  BY DEF Sums
<1> HIDE DEF n
<1> DEFINE T == {k \in 0..n : \A j \in 0..k : g[j] <= g[k]}
<1>2. 0 \in T
  BY <1>1
<1>3. ASSUME NEW k \in 1..n, k - 1 \in T
      PROVE  k \in T
  <2>1. k \in 0..n /\ k - 1 \in 0..n /\ g[k - 1] <= g[k]
    BY <1>1
  <2>2. ASSUME NEW j \in 0..k
        PROVE  g[j] <= g[k]
    <3>1. CASE j = k
      BY <1>1, <2>1, <3>1
    <3>2. CASE j # k
      <4>1. j \in 0..(k - 1) /\ j \in 0..n
        BY <1>1, <3>2
      <4>2. g[j] <= g[k - 1]
        BY <1>3, <4>1
      <4> QED
        BY <1>1, <2>1, <4>1, <4>2
    <3> QED
      BY <3>1, <3>2
  <2> QED
    BY <2>1, <2>2
<1> HIDE DEF T
<1>4. \A k \in 0..n : k \in T
  BY <1>1, <1>2, <1>3, Induction
<1>5. \A k \in 0..n : g[k] <= g[n]
  <2>1. n \in 0..n
    BY <1>1
  <2> QED
    BY <1>4, <2>1 DEF T
<1>6. \A k \in 1..n : ns[k] <= g[n]
  <2> TAKE k \in 1..n
  <2>1. k \in 0..n /\ k - 1 \in 0..n
    BY <1>1
  <2>2. g[k] = g[k - 1] + ns[k] /\ ns[k] \in Nat /\ g[k - 1] \in Nat /\ g[k] \in Nat
    BY <1>1, <2>1
  <2>3. g[k] <= g[n] /\ g[n] \in Nat
    BY <1>1, <1>5, <2>1
  <2>4. ns[k] <= g[k]
    BY <2>2
  <2> HIDE DEF n
  <2> QED
    BY <2>2, <2>3, <2>4
<1> QED
  BY <1>1, <1>5, <1>6 DEF n

\* The lengths of the strings of p, with and without the two bytes before each.
Stretches(p) == [k \in 1..Len(p) |-> 2 + p[k].len]

\* There is one stretch for each string, two bytes longer than it.
LEMMA StretchesHave ==
  ASSUME NEW p \in Seq(Strs)
  PROVE  /\ Stretches(p) \in Seq(Nat) /\ Len(Stretches(p)) = Len(p) /\ Len(p) \in Nat
         /\ \A k \in 1..Len(p) : Stretches(p)[k] = 2 + p[k].len /\ p[k].len \in Nat /\ p[k] \in Strs
<1>1. \A k \in 1..Len(p) : p[k] \in Strs /\ p[k].len \in Nat /\ 2 + p[k].len \in Nat
  <2>1. \A s \in Strs : s.len \in Nat /\ 2 + s.len \in Nat
    BY DEF Strs
  <2> QED
    BY <2>1
<1> QED
  BY <1>1 DEF Stretches

\* The bytes of strings.
LEMMA StrsSize ==
  ASSUME NEW p \in Seq(Strs)
  PROVE  /\ StoreElems("str", p) \in Archived
         /\ Size(StoreElems("str", p)) = Total(Stretches(p)) /\ Total(Stretches(p)) \in Nat
<1> DEFINE ss == [k \in 1..Len(p) |-> StoreStr(p[k])]
           n == Len(p)
<1>1. n \in Nat /\ Len(ss) = n /\ \A k \in 1..n : ss[k] = StoreStr(p[k]) /\ p[k] \in Strs
  OBVIOUS
<1>2. StoreElems("str", p) = Concat(ss)
  BY DEF StoreElems
<1> HIDE DEF ss, n
<1>3. \A k \in 1..n : ss[k] \in Archived /\ Size(ss[k]) = 2 + p[k].len
  BY <1>1, StoreStrSize
<1>4. Concat(ss) \in Archived /\ Size(Concat(ss)) = Total([k \in 1..n |-> Size(ss[k])])
  BY <1>1, <1>3, SizeConcat
<1>5. [k \in 1..n |-> Size(ss[k])] = Stretches(p)
  BY <1>3 DEF Stretches, n
<1>6. Total(Stretches(p)) \in Nat
  <2>1. PICK g : Sums(Stretches(p), g)
    BY StretchesHave, SumsExist
  <2> QED
    BY <2>1, StretchesHave DEF Sums
<1> QED
  BY <1>2, <1>4, <1>5, <1>6

\* calc_len of a vector of strings is exact if it is small.
LEMMA StrsLen ==
  ASSUME NEW p \in Seq(Strs), Small(2 + Total(Stretches(p)))
  PROVE  /\ StrArrArchiveLen(p) = 2 + Total(Stretches(p))
         /\ \A k \in 1..Len(p) : Small(p[k].len)
<1> DEFINE n == Len(p)
           total == Total(Stretches(p))
<1>1. /\ n \in Nat /\ total \in Nat /\ Stretches(p) \in Seq(Nat) /\ Len(Stretches(p)) = n
      /\ \A k \in 1..n : Stretches(p)[k] = 2 + p[k].len /\ p[k].len \in Nat
  BY StretchesHave, StrsSize
<1>2. PICK g : Sums(Stretches(p), g)
  BY <1>1, SumsExist
<1>3. /\ g[0] = 0 /\ g[n] = total
      /\ \A k \in 0..n : g[k] \in Nat /\ g[k] <= total
      /\ \A k \in 1..n : g[k] = g[k - 1] + (2 + p[k].len) /\ 2 + p[k].len <= total
  BY <1>1, <1>2, SumsGrow DEF Sums
<1>4. StrArrArchiveLen(p) = Measuring!FoldOf(2, p)
  BY DEF StrArrArchiveLen, Fold, Measuring!FoldOf
<1> HIDE DEF n, total
<1>5. PICK h : Measuring!Folds(h, 2, p) /\ Measuring!FoldOf(2, p) = h[n]
  BY <1>1, Measuring!FoldChain DEF n
<1>6. h[0] = 2 /\ \A k \in 1..n : h[k] = U16(h[k - 1] + p[k].len + 2)
  BY <1>5 DEF Measuring!Folds, n
<1>7. 2 + total \in Nat /\ Small(2 + total)
  BY <1>1 DEF total
<1> DEFINE T == {k \in 0..n : h[k] = 2 + g[k]}
<1>8. 0 \in T
  BY <1>1, <1>3, <1>6
<1>9. ASSUME NEW k \in 1..n, k - 1 \in T
      PROVE  k \in T
  <2>1. k \in 0..n /\ k - 1 \in 0..n /\ h[k - 1] = 2 + g[k - 1]
    BY <1>1, <1>9
  <2>2. g[k - 1] \in Nat /\ g[k] \in Nat /\ p[k].len \in Nat /\ g[k] = g[k - 1] + (2 + p[k].len)
        /\ g[k] <= total
    BY <1>1, <1>3, <2>1
  <2>3. h[k - 1] + p[k].len + 2 = 2 + g[k] /\ 2 + g[k] \in Nat /\ 2 + g[k] <= 2 + total
    <3> DEFINE hk == h[k - 1]
               gk == g[k]
               gp == g[k - 1]
               l == p[k].len
    <3>1. hk = 2 + gp /\ gp \in Nat /\ gk \in Nat /\ l \in Nat /\ gk = gp + (2 + l) /\ gk <= total /\ total \in Nat
      BY <1>1, <2>1, <2>2
    <3> HIDE DEF hk, gk, gp, l
    <3>2. hk + l + 2 = 2 + gk /\ 2 + gk \in Nat /\ 2 + gk <= 2 + total
      BY <3>1
    <3> QED
      BY <3>2 DEF hk, gk, l
  <2>4. U16(2 + g[k]) = 2 + g[k]
    BY <1>7, <2>3, SmallIs
  <2> QED
    BY <1>6, <2>1, <2>3, <2>4
<1> HIDE DEF T
<1>10. \A k \in 0..n : k \in T
  BY <1>1, <1>8, <1>9, Induction
<1>11. h[n] = 2 + g[n]
  <2>1. n \in 0..n
    BY <1>1
  <2> QED
    BY <1>10, <2>1 DEF T
<1>12. ASSUME NEW k \in 1..n
       PROVE  Small(p[k].len)
  <2>1. p[k].len \in Nat /\ p[k].len <= 2 + total
    BY <1>1, <1>3
  <2> QED
    BY <1>7, <2>1, SmallIs
<1> QED
  BY <1>3, <1>4, <1>5, <1>11, <1>12 DEF n, total

\* The strings of p without what is before each of them.
LEMMA JoinedLen ==
  ASSUME NEW p \in Seq(Strs)
  PROVE  /\ Total([k \in 1..Len(p) |-> p[k].len]) + 2 * Len(p) = Total(Stretches(p))
         /\ Total([k \in 1..Len(p) |-> p[k].len]) \in Nat
<1> DEFINE n == Len(p)
           ls == [k \in 1..n |-> p[k].len]
<1>1. /\ n \in Nat /\ Stretches(p) \in Seq(Nat) /\ Len(Stretches(p)) = n
      /\ \A k \in 1..n : Stretches(p)[k] = 2 + p[k].len /\ p[k].len \in Nat
  BY StretchesHave
<1>2. ls \in Seq(Nat) /\ Len(ls) = n /\ \A k \in 1..n : ls[k] = p[k].len
  BY <1>1
<1> HIDE DEF n, ls
<1>3. PICK g : Sums(Stretches(p), g)
  BY <1>1, SumsExist
<1>4. PICK h : Sums(ls, h)
  BY <1>2, SumsExist
<1>5. /\ g[0] = 0 /\ g[n] = Total(Stretches(p)) /\ \A k \in 1..n : g[k] = g[k - 1] + (2 + p[k].len)
      /\ h[0] = 0 /\ h[n] = Total(ls) /\ \A k \in 1..n : h[k] = h[k - 1] + p[k].len
      /\ \A k \in 0..n : h[k] \in Nat
  BY <1>1, <1>2, <1>3, <1>4 DEF Sums
<1> DEFINE T == {k \in 0..n : h[k] + 2 * k = g[k]}
<1>6. 0 \in T
  <2>1. 0 \in 0..n /\ h[0] + 2 * 0 = g[0]
    BY <1>1, <1>5
  <2> QED
    BY <2>1
<1>7. ASSUME NEW k \in 1..n, k - 1 \in T
      PROVE  k \in T
  <2>1. k \in 0..n /\ k - 1 \in 0..n /\ k \in Nat
    BY <1>1
  <2>2. h[k - 1] \in Nat /\ p[k].len \in Nat /\ h[k] = h[k - 1] + p[k].len /\ g[k] = g[k - 1] + (2 + p[k].len)
        /\ h[k - 1] + 2 * (k - 1) = g[k - 1]
    BY <1>1, <1>5, <1>7, <2>1
  <2>3. h[k] + 2 * k = g[k]
    <3> DEFINE a == h[k - 1]
               b == g[k - 1]
               l == p[k].len
               x == h[k]
               y == g[k]
    <3>1. /\ a \in Nat /\ l \in Nat /\ x = a + l /\ y = b + (2 + l) /\ a + 2 * (k - 1) = b
      BY <2>2
    <3> HIDE DEF a, b, l, x, y
    <3>2. k \in Int /\ 2 * (k - 1) = 2 * k - 2
      BY <2>1
    <3>3. x + 2 * k = y
      BY <3>1, <3>2
    <3> QED
      BY <3>3 DEF x, y
  <2> QED
    BY <2>1, <2>3
<1> HIDE DEF T
<1>8. \A k \in 0..n : k \in T
  BY <1>1, <1>6, <1>7, Induction
<1>9. h[n] + 2 * n = g[n] /\ h[n] \in Nat
  <2>1. n \in 0..n
    BY <1>1
  <2> QED
    BY <1>5, <1>8, <2>1 DEF T
<1> QED
  BY <1>5, <1>9 DEF n, ls

-----------------------------------------------------------------------------
(* The messages of the conversation are sound. *)

\* operator<< and operator>> name the members of every message in the same order.
LEMMA StoredAsLoaded == Stored = Loaded
  BY DEF Stored, Loaded, MdRefStored, MdRefLoaded, MdDeltaStored, MdDeltaLoaded

\* A message is read back as it was sent if its members are and calc_len is right.
LEMMA SoundFrom ==
  ASSUME NEW m, m.type \in MsgTypes, NEW V, m.data \in Seq(V),
         NEW fs, Stored[m.type] = fs, Len(fs) = Len(m.data),
         \A k \in 1..Len(m.data) : FieldRestored(fs[k], m.data[k], SubSeq(m.data, 1, k - 1)),
         CalcLen(m) = Size(Payload(m)), Small(8 + Size(Payload(m)))
  PROVE  Sound(m)
<1> DEFINE s == m.data
<1>1. Stored[m.type] = Loaded[m.type]
  BY StoredAsLoaded
<1>2. s \in Seq(V)
  OBVIOUS
<1>3. \A k \in 1..Len(m.data) : FieldRestored(Stored[m.type][k], m.data[k], SubSeq(m.data, 1, k - 1))
  OBVIOUS
<1> HIDE DEF s
<1>4. Len(s) \in Nat /\ SubSeq(s, 1, 0) = <<>> /\ SubSeq(s, 1, Len(s)) = s
  BY <1>2
<1>5. \A k \in 1..Len(s) : Append(SubSeq(s, 1, k - 1), s[k]) = SubSeq(s, 1, k)
  BY <1>2
<1>6. MembersRestored(m)
  BY <1>1, <1>3, <1>4, <1>5 DEF MembersRestored, s
<1> QED
  BY <1>6 DEF Sound, WIRE_TSTAMP_LEN

\* One number, string, or vector of either.
LEMMA OneNum ==
  ASSUME NEW e \in {"u8", "u16", "u32", "u64", "sizes"}, NEW v \in Stuff
  PROVE  /\ \A d : FieldRestored(One(e), v, d)
         /\ StoreField(One(e), v) \in Archived /\ Size(StoreField(One(e), v)) = Width[e]
<1> DEFINE vs == <<v>>
<1>1. vs \in Seq(Stuff) /\ Len(vs) = 1
  OBVIOUS
<1>2. Width[e] * 1 = Width[e]
  BY WidthHas
<1> HIDE DEF vs
<1>3. Restored(e, vs) /\ Size(StoreElems(e, vs)) = Width[e]
  BY <1>1, <1>2, NumsRestored
<1>4. \A d : FieldRestored(One(e), v, d) /\ StoreField(One(e), v) = StoreElems(e, vs)
  BY <1>3, OneRestored DEF vs
<1> QED
  BY <1>3, <1>4 DEF FieldRestored

\* A string member: its size, and that it is read again when it is short.
LEMMA OneStr ==
  ASSUME NEW s \in Strs
  PROVE  /\ StoreField(One("str"), s) \in Archived /\ Size(StoreField(One("str"), s)) = 2 + s.len
         /\ Small(s.len) => \A d : FieldRestored(One("str"), s, d)
<1> DEFINE p == <<s>>
           e == "str"
<1>1. p \in Seq(Strs) /\ Len(p) = 1 /\ p[1] = s
  OBVIOUS
<1>2. StoreField(One(e), s) = StoreElems(e, p)
  BY DEF StoreField, One
<1> HIDE DEF p
<1>3. StoreElems(e, p) \in Archived /\ Size(StoreElems(e, p)) = Total(Stretches(p))
  BY <1>1, StrsSize
<1>4. Total(Stretches(p)) = 2 + s.len
  <2>1. Stretches(p) \in Seq(Nat) /\ Len(Stretches(p)) = 1 /\ Stretches(p)[1] = 2 + s.len
    BY <1>1, StretchesHave
  <2> QED
    BY <2>1, TotalFew
<1>5. ASSUME Small(s.len)
      PROVE  \A d : FieldRestored(One(e), s, d)
  <2>1. Restored(e, p)
    BY <1>1, <1>5, StrsRestored
  <2> QED
    BY <2>1, OneRestored DEF p
<1> QED
  BY <1>2, <1>3, <1>4, <1>5

\* The size of a vector member: two bytes, and its elements.
LEMMA VecSize ==
  ASSUME NEW e, NEW vs, Len(vs) \in Nat, StoreElems(e, vs) \in Archived
  PROVE  /\ StoreField(Vec(e), vs) \in Archived
         /\ Size(StoreField(Vec(e), vs)) = 2 + Size(StoreElems(e, vs))
<1> DEFINE n == U16(Len(vs))
           num == Num("u16", n)
           els == StoreElems(e, vs)
<1>1. n \in Stuff
  <2>1. n \in Int
    BY DEF U16
  <2> HIDE DEF n
  <2> QED
    BY <2>1, Zenon DEF Stuff
<1>2. StoreField(Vec(e), vs) = num \o els
  BY DEF StoreField, Vec, StoreVec
<1>3. num \in Archived /\ Size(num) = 2 /\ els \in Archived
  <2> HIDE DEF n
  <2> QED
    BY <1>1, NumIn, WidthHas
<1> HIDE DEF num, els
<1>4. num \o els \in Archived /\ Size(num \o els) = Size(num) + Size(els)
  BY <1>3, SizeTwo, Joined
<1> QED
  BY <1>2, <1>3, <1>4 DEF els

\* A vector of strings: its size, and that it is read again when it is small.
LEMMA VecStrs ==
  ASSUME NEW p \in Seq(Strs)
  PROVE  /\ StoreField(Vec("str"), p) \in Archived
         /\ Size(StoreField(Vec("str"), p)) = 2 + Total(Stretches(p))
         /\ Small(2 + Total(Stretches(p))) => \A d : FieldRestored(Vec("str"), p, d)
<1>1. /\ Len(p) \in Nat /\ StoreElems("str", p) \in Archived
      /\ Size(StoreElems("str", p)) = Total(Stretches(p)) /\ Total(Stretches(p)) \in Nat
  BY StrsSize
<1>2. StoreField(Vec("str"), p) \in Archived /\ Size(StoreField(Vec("str"), p)) = 2 + Total(Stretches(p))
  BY <1>1, VecSize
<1>3. ASSUME Small(2 + Total(Stretches(p)))
      PROVE  \A d : FieldRestored(Vec("str"), p, d)
  <2>1. Restored("str", p)
    BY <1>3, StrsLen, StrsRestored
  <2>2. Small(Len(p))
    <3>1. Total([k \in 1..Len(p) |-> p[k].len]) + 2 * Len(p) = Total(Stretches(p))
          /\ Total([k \in 1..Len(p) |-> p[k].len]) \in Nat
      BY JoinedLen
    <3> DEFINE t == Total(Stretches(p))
               l == Total([k \in 1..Len(p) |-> p[k].len])
               n == Len(p)
    <3>2. l + 2 * n = t /\ l \in Nat /\ n \in Nat /\ t \in Nat /\ Small(2 + t)
      BY <1>1, <1>3, <3>1
    <3> HIDE DEF t, l, n
    <3>3. n <= 2 + t /\ 2 + t \in Nat
      BY <3>2
    <3>4. Small(n)
      BY <3>2, <3>3, SmallIs
    <3> QED
      BY <3>4 DEF n
  <2> QED
    BY <2>1, <2>2, VecRestored
<1> QED
  BY <1>2, <1>3

\* calc_len of a string.
LEMMA StrLen ==
  ASSUME NEW s \in Strs, Small(2 + s.len)
  PROVE  StrArchiveLen(s) = 2 + s.len /\ Small(s.len) /\ s.len \in Nat
<1>1. s.len \in Nat /\ 2 + s.len \in Nat
  BY DEF Strs
<1>2. U16(2 + s.len) = 2 + s.len /\ Small(s.len)
  BY <1>1, SmallIs
<1> QED
  BY <1>1, <1>2 DEF StrArchiveLen

\* The bytes of a message, from those of its members.
LEMMA SizeFrom ==
  ASSUME NEW m, NEW fs, Stored[m.type] = fs, Len(m.data) \in Nat,
         NEW ns \in Seq(Nat), Len(ns) = Len(m.data),
         \A k \in 1..Len(m.data) : /\ StoreField(fs[k], m.data[k]) \in Archived
                                   /\ Size(StoreField(fs[k], m.data[k])) = ns[k]
  PROVE  Payload(m) \in Archived /\ Size(Payload(m)) = Total(ns) /\ Total(ns) \in Nat
<1> DEFINE ms == [k \in 1..Len(m.data) |-> Size(StoreField(Stored[m.type][k], m.data[k]))]
<1>1. \A k \in 1..Len(m.data) : StoreField(Stored[m.type][k], m.data[k]) \in Archived
  OBVIOUS
<1>2. Payload(m) \in Archived /\ Size(Payload(m)) = Total(ms)
  BY <1>1, PayloadSize
<1>3. ms = ns
  OBVIOUS
<1>4. Total(ns) \in Nat
  BY <1>2, <1>3, SizeTwo
<1> QED
  BY <1>2, <1>3, <1>4

\* The same, from the sizes of the members, given one by one.
LEMMA SoundWith ==
  ASSUME NEW m, m.type \in MsgTypes, NEW V, m.data \in Seq(V),
         NEW fs, Stored[m.type] = fs, Len(fs) = Len(m.data),
         NEW ns \in Seq(Nat), Len(ns) = Len(m.data),
         \A k \in 1..Len(m.data) : /\ FieldRestored(fs[k], m.data[k], SubSeq(m.data, 1, k - 1))
                                   /\ Size(StoreField(fs[k], m.data[k])) = ns[k],
         CalcLen(m) = Total(ns), Small(8 + Total(ns))
  PROVE  Sound(m) /\ Size(Payload(m)) = Total(ns)
<1>1. Len(m.data) \in Nat
  OBVIOUS
<1>2. \A k \in 1..Len(m.data) : /\ StoreField(fs[k], m.data[k]) \in Archived
                                /\ Size(StoreField(fs[k], m.data[k])) = ns[k]
  BY DEF FieldRestored
<1>3. Size(Payload(m)) = Total(ns)
  BY <1>1, <1>2, SizeFrom
<1> QED
  BY <1>3, SoundFrom

\* What is small with eight bytes more.
LEMMA SmallHas ==
  ASSUME NEW n \in Nat, Small(8 + n)
  PROVE  Small(n) /\ U16(n) = n /\ \A k \in Nat : k <= n => Small(k) /\ U16(k) = k
<1>1. 8 + n \in Nat /\ n <= 8 + n
  OBVIOUS
<1>2. Small(n)
  BY <1>1, SmallIs
<1> QED
  BY <1>2, SmallIs

\* A string the code writes.
LEMMA StrIn ==
  ASSUME NEW tag \in Tags, NEW n \in Nat
  PROVE  Str(tag, n) \in Strs /\ Str(tag, n).len = n
<1>1. tag \in STRING \cup Tags
  BY Zenon
<1> DEFINE Txts == STRING \cup Tags
<1> HIDE DEF Txts
<1>2. [txt |-> tag, len |-> n, num |-> 0] \in [txt : Txts, len : Nat, num : Int]
  BY <1>1 DEF Txts
<1> QED
  BY <1>2 DEF Str, Strs, Txts

\* A text is read back as it was sent.
LEMMA TextSound ==
  ASSUME NEW s \in Strs, Small(10 + s.len)
  PROVE  Sound(TextMsg(s))
<1> DEFINE m == TextMsg(s)
           data == <<s>>
           fs == <<One("str")>>
           ns == <<2 + s.len>>
<1>1. m.type = "text" /\ m.data = data /\ Stored[m.type] = fs /\ m.type \in MsgTypes
  BY DEF TextMsg, Stored, MsgTypes
<1>2. Len(data) = 1 /\ data[1] = s /\ data \in Seq(Strs) /\ Len(fs) = 1 /\ fs[1] = One("str")
  OBVIOUS
<1>3. s.len \in Nat /\ 2 + s.len \in Nat /\ 8 + (2 + s.len) = 10 + s.len
  BY DEF Strs
<1>4. ns \in Seq(Nat) /\ Len(ns) = 1 /\ ns[1] = 2 + s.len
  BY <1>3
<1>5. CalcLen(m) = U16(StrArchiveLen(data[1]))
  BY <1>1 DEF CalcLen
<1> HIDE DEF m, data, fs, ns
<1>6. Small(2 + s.len) /\ Small(s.len) /\ U16(2 + s.len) = 2 + s.len /\ StrArchiveLen(s) = 2 + s.len
  BY <1>3, SmallHas, StrLen
<1>7. Total(ns) = 2 + s.len
  BY <1>4, TotalFew
<1>8. ASSUME NEW k \in 1..Len(m.data)
      PROVE  FieldRestored(fs[k], m.data[k], SubSeq(m.data, 1, k - 1)) /\ Size(StoreField(fs[k], m.data[k])) = ns[k]
  <2>1. k = 1
    BY <1>1, <1>2
  <2> QED
    BY <1>1, <1>2, <1>4, <1>6, <2>1, OneStr
<1>9. CalcLen(m) = Total(ns) /\ Small(8 + Total(ns))
  BY <1>2, <1>3, <1>5, <1>6, <1>7
<1>10. Sound(m)
  BY <1>1, <1>2, <1>4, <1>8, <1>9, SoundWith
<1> QED
  BY <1>10 DEF m

\* A subscription is read back as it was sent.
LEMMA SubscribeSound ==
  ASSUME NEW p \in Seq(Strs), Small(10 + Total(Stretches(p)))
  PROVE  Sound(SubscribeMsg(p))
<1> DEFINE m == SubscribeMsg(p)
           data == <<p>>
           fs == <<Vec("str")>>
           n == 2 + Total(Stretches(p))
           ns == <<n>>
<1>1. m.type = "subscribe" /\ m.data = data /\ Stored[m.type] = fs /\ m.type \in MsgTypes
  BY DEF SubscribeMsg, Stored, MsgTypes
<1>2. Len(data) = 1 /\ data[1] = p /\ data \in Seq(Seq(Strs)) /\ Len(fs) = 1 /\ fs[1] = Vec("str")
  OBVIOUS
<1>3. n \in Nat /\ 8 + n = 10 + Total(Stretches(p))
  BY StrsSize
<1>4. ns \in Seq(Nat) /\ Len(ns) = 1 /\ ns[1] = n
  BY <1>3
<1>5. CalcLen(m) = U16(StrArrArchiveLen(data[1]))
  BY <1>1 DEF CalcLen
<1>6. Small(n) /\ U16(n) = n
  <2> HIDE DEF n
  <2> QED
    BY <1>3, SmallHas
<1>7. StrArrArchiveLen(p) = n /\ Size(StoreField(Vec("str"), p)) = n /\ \A d : FieldRestored(Vec("str"), p, d)
  BY <1>6, StrsLen, VecStrs
<1> HIDE DEF m, data, fs, ns, n
<1>8. Total(ns) = n
  BY <1>4, TotalFew
<1>9. ASSUME NEW k \in 1..Len(m.data)
      PROVE  FieldRestored(fs[k], m.data[k], SubSeq(m.data, 1, k - 1)) /\ Size(StoreField(fs[k], m.data[k])) = ns[k]
  <2>1. k = 1
    BY <1>1, <1>2
  <2> QED
    BY <1>1, <1>2, <1>4, <1>7, <2>1
<1>10. CalcLen(m) = Total(ns) /\ Small(8 + Total(ns))
  BY <1>2, <1>3, <1>5, <1>6, <1>7, <1>8
<1>11. Sound(m)
  BY <1>1, <1>2, <1>4, <1>9, <1>10, SoundWith
<1> QED
  BY <1>11 DEF m

\* A command is read back as it was sent.
LEMMA CommandSound ==
  ASSUME NEW cmd \in Letters, NEW p \in Seq(Strs), Small(20 + Total(Stretches(p)))
  PROVE  Sound(CommandMsg(cmd, p))
<1> DEFINE m == CommandMsg(cmd, p)
           data == <<cmd, Context, p>>
           fs == <<One("u8"), One("str"), Vec("str")>>
           n == 2 + Total(Stretches(p))
           ns == <<1, 9, n>>
<1>1. m.type = "command" /\ m.data = data /\ Stored[m.type] = fs /\ m.type \in MsgTypes
  BY DEF CommandMsg, Stored, MsgTypes
<1>2. Len(data) = 3 /\ data[1] = cmd /\ data[2] = Context /\ data[3] = p
      /\ data \in Seq({cmd, Context, p})
  OBVIOUS
<1>12. Len(fs) = 3 /\ fs[1] = One("u8") /\ fs[2] = One("str") /\ fs[3] = Vec("str")
  OBVIOUS
<1>3. n \in Nat /\ 10 + n \in Nat /\ 8 + (10 + n) = 20 + Total(Stretches(p))
  BY StrsSize
<1>4. ns \in Seq(Nat) /\ Len(ns) = 3 /\ ns[1] = 1 /\ ns[2] = 9 /\ ns[3] = n
  BY <1>3
<1>5. CalcLen(m) = U16(1 + StrArchiveLen(data[2]) + StrArrArchiveLen(data[3]))
  BY <1>1 DEF CalcLen
<1>6. Small(n) /\ U16(10 + n) = 10 + n /\ Small(10 + n)
  <2>1. n <= 10 + n
    BY <1>3
  <2> HIDE DEF n
  <2> QED
    BY <1>3, <2>1, SmallHas
<1>7. StrArrArchiveLen(p) = n /\ Size(StoreField(Vec("str"), p)) = n /\ \A d : FieldRestored(Vec("str"), p, d)
  BY <1>6, StrsLen, VecStrs
<1>8. /\ Context \in Strs /\ Context.len = 7 /\ StrArchiveLen(Context) = 9
      /\ Size(StoreField(One("str"), Context)) = 9 /\ \A d : FieldRestored(One("str"), Context, d)
  <2>1. Context \in Strs /\ Context.len = 7
    <3>1. "context" \in Tags
      BY DEF Tags
    <3> QED
      BY <3>1, StrIn DEF Context
  <2>2. Small(2 + 7) /\ Small(7)
    BY DEF Small
  <2> QED
    BY <2>1, <2>2, StrLen, OneStr
<1>9. Size(StoreField(One("u8"), cmd)) = 1 /\ \A d : FieldRestored(One("u8"), cmd, d)
  <2>1. cmd \in Stuff /\ "u8" \in {"u8", "u16", "u32", "u64", "sizes"} /\ Width["u8"] = 1
    BY DEF Stuff, Width
  <2> QED
    BY <2>1, OneNum
<1> HIDE DEF m, data, fs, ns, n
<1>10. Total(ns) = 10 + n
  BY <1>3, <1>4, TotalFew
<1>11. ASSUME NEW k \in 1..Len(m.data)
       PROVE  FieldRestored(fs[k], m.data[k], SubSeq(m.data, 1, k - 1)) /\ Size(StoreField(fs[k], m.data[k])) = ns[k]
  <2>1. k = 1 \/ k = 2 \/ k = 3
    BY <1>1, <1>2
  <2>2. CASE k = 1
    BY <1>1, <1>2, <1>4, <1>9, <1>12, <2>2
  <2>3. CASE k = 2
    BY <1>1, <1>2, <1>4, <1>8, <1>12, <2>3
  <2>4. CASE k = 3
    BY <1>1, <1>2, <1>4, <1>7, <1>12, <2>4
  <2> QED
    BY <2>1, <2>2, <2>3, <2>4
<1>13. CalcLen(m) = Total(ns) /\ Small(8 + Total(ns))
  <2>1. 1 + 9 + n = 10 + n
    BY <1>3
  <2> QED
    BY <1>2, <1>3, <1>5, <1>6, <1>7, <1>8, <1>10, <2>1
<1>14. Sound(m)
  BY <1>1, <1>2, <1>4, <1>11, <1>12, <1>13, SoundWith
<1> QED
  BY <1>14 DEF m

MenuAdding == INSTANCE FoldTheorems WITH op <- LAMBDA r, o : U16(r + StrArchiveLen(o.val) + 2)

\* The widths of the numbers that are written.
LEMMA NumWidths ==
  /\ "u8" \in {"u8", "u16", "u32", "u64", "sizes"} /\ Width["u8"] = 1
  /\ "u16" \in {"u8", "u16", "u32", "u64", "sizes"} /\ Width["u16"] = 2
  /\ "u32" \in {"u8", "u16", "u32", "u64", "sizes"} /\ Width["u32"] = 4
  /\ "u64" \in {"u8", "u16", "u32", "u64", "sizes"} /\ Width["u64"] = 8
  /\ "sizes" \in {"u8", "u16", "u32", "u64", "sizes"} /\ Width["sizes"] = 4
  BY DEF Width

\* Short strings and numbers the code writes.
LEMMA WrittenStr ==
  ASSUME NEW tag \in Tags, NEW n \in Nat, n <= 100
  PROVE  LET s == Str(tag, n)
         IN /\ s \in Strs /\ s.len = n /\ Short(s) /\ StrArchiveLen(s) = 2 + n
            /\ Size(StoreField(One("str"), s)) = 2 + n /\ \A d : FieldRestored(One("str"), s, d)
<1> DEFINE s == Str(tag, n)
<1>1. s \in Strs /\ s.len = n
  BY StrIn
<1>2. Small(n) /\ Small(2 + n)
  BY DEF Small
<1> HIDE DEF s
<1>3. Short(s)
  BY <1>1, <1>2 DEF Short
<1>4. StrArchiveLen(s) = 2 + n
  BY <1>1, <1>2, StrLen
<1>5. Size(StoreField(One("str"), s)) = 2 + n /\ \A d : FieldRestored(One("str"), s, d)
  BY <1>1, <1>2, OneStr
<1> QED
  BY <1>1, <1>3, <1>4, <1>5 DEF s

\* A 16 bit member: its size, and that it is read again.
LEMMA WrittenNum ==
  ASSUME NEW n \in Int
  PROVE  Size(StoreField(One("u16"), n)) = 2 /\ \A d : FieldRestored(One("u16"), n, d)
<1>1. n \in Stuff
  BY Zenon DEF Stuff
<1> QED
  BY <1>1, NumWidths, OneNum

\* No strings.
LEMMA NoStrs ==
  /\ StrArrArchiveLen(<<>>) = 2
  /\ Size(StoreField(Vec("str"), <<>>)) = 2 /\ \A d : FieldRestored(Vec("str"), <<>>, d)
<1> DEFINE p == <<>>
<1>1. p \in Seq(Strs) /\ Len(p) = 0
  OBVIOUS
<1> HIDE DEF p
<1>2. Total(Stretches(p)) = 0
  <2>1. Stretches(p) \in Seq(Nat) /\ Len(Stretches(p)) = 0
    BY <1>1, StretchesHave
  <2> QED
    BY <2>1, TotalFew
<1>3. Small(2 + Total(Stretches(p)))
  BY <1>2 DEF Small
<1>4. StrArrArchiveLen(p) = 2 + Total(Stretches(p))
  BY <1>1, <1>3, StrsLen
<1>5. /\ Size(StoreField(Vec("str"), p)) = 2 + Total(Stretches(p))
      /\ \A d : FieldRestored(Vec("str"), p, d)
  BY <1>1, <1>3, VecStrs
<1> QED
  BY <1>2, <1>4, <1>5 DEF p

\* The login is read back as it was sent.
LEMMA LoginSound == Sound(LoginMsg)
<1> DEFINE m == LoginMsg
           s == Str("user", 4)
           t == Str("user-token_1", 12)
           p == <<>>
           data == <<1, s, t, p>>
           fs == <<One("u16"), One("str"), One("str"), Vec("str")>>
           ns == <<2, 6, 14, 2>>
<1>1. m.type = "login" /\ m.data = data /\ Stored[m.type] = fs /\ m.type \in MsgTypes
  BY DEF LoginMsg, Stored, MsgTypes
<1>2. Len(data) = 4 /\ data[1] = 1 /\ data[2] = s /\ data[3] = t /\ data[4] = p
      /\ data \in Seq({1, s, t, p})
  OBVIOUS
<1>3. Len(fs) = 4 /\ fs[1] = One("u16") /\ fs[2] = One("str") /\ fs[3] = One("str") /\ fs[4] = Vec("str")
  OBVIOUS
<1>4. ns \in Seq(Nat) /\ Len(ns) = 4 /\ ns[1] = 2 /\ ns[2] = 6 /\ ns[3] = 14 /\ ns[4] = 2
  OBVIOUS
<1>5. CalcLen(m) = U16(2 + StrArchiveLen(data[2]) + StrArchiveLen(data[3]) + StrArrArchiveLen(data[4]))
  BY <1>1 DEF CalcLen
<1>6. /\ StrArchiveLen(s) = 6 /\ Size(StoreField(One("str"), s)) = 6 /\ \A d : FieldRestored(One("str"), s, d)
      /\ StrArchiveLen(t) = 14 /\ Size(StoreField(One("str"), t)) = 14 /\ \A d : FieldRestored(One("str"), t, d)
  <2>1. "user" \in Tags /\ "user-token_1" \in Tags
    BY DEF Tags
  <2> QED
    BY <2>1, WrittenStr
<1>7. Size(StoreField(One("u16"), 1)) = 2 /\ \A d : FieldRestored(One("u16"), 1, d)
  BY WrittenNum
<1>8. StrArrArchiveLen(p) = 2 /\ Size(StoreField(Vec("str"), p)) = 2 /\ \A d : FieldRestored(Vec("str"), p, d)
  BY NoStrs
<1> HIDE DEF m, s, t, p, data, fs, ns
<1>9. Total(ns) = 24
  BY <1>4, TotalFew
<1>10. ASSUME NEW k \in 1..Len(m.data)
       PROVE  FieldRestored(fs[k], m.data[k], SubSeq(m.data, 1, k - 1)) /\ Size(StoreField(fs[k], m.data[k])) = ns[k]
  <2>1. k = 1 \/ k = 2 \/ k = 3 \/ k = 4
    BY <1>1, <1>2
  <2>2. CASE k = 1
    BY <1>1, <1>2, <1>3, <1>4, <1>7, <2>2
  <2>3. CASE k = 2
    BY <1>1, <1>2, <1>3, <1>4, <1>6, <2>3
  <2>4. CASE k = 3
    BY <1>1, <1>2, <1>3, <1>4, <1>6, <2>4
  <2>5. CASE k = 4
    BY <1>1, <1>2, <1>3, <1>4, <1>8, <2>5
  <2> QED
    BY <2>1, <2>2, <2>3, <2>4, <2>5
<1>11. CalcLen(m) = Total(ns) /\ Small(8 + Total(ns))
  <2>1. U16(24) = 24 /\ Small(8 + 24) /\ 2 + 6 + 14 + 2 = 24
    BY DEF U16, Small
  <2> QED
    BY <1>2, <1>5, <1>6, <1>8, <1>9, <2>1
<1>12. Sound(m)
  <2>1. PICK V : m.data \in Seq(V)
    BY <1>1, <1>2
  <2>2. Len(fs) = Len(m.data) /\ Len(ns) = Len(m.data) /\ ns \in Seq(Nat) /\ m.type \in MsgTypes
        /\ Stored[m.type] = fs
    BY <1>1, <1>2, <1>3, <1>4
  <2> QED
    BY <1>10, <1>11, <2>1, <2>2, SoundWith
<1> QED
  BY <1>12 DEF m

\* The answer to the login is read back as it was sent.
LEMMA LoginReplySound == Sound(LoginReplyMsg)
<1> DEFINE m == LoginReplyMsg
           s == Str("accepted", 8)
           p == <<>>
           data == <<0, 1, s, p>>
           fs == <<One("u16"), One("u16"), One("str"), Vec("str")>>
           ns == <<2, 2, 10, 2>>
<1>1. m.type = "login_reply" /\ m.data = data /\ Stored[m.type] = fs /\ m.type \in MsgTypes
  BY DEF LoginReplyMsg, Stored, MsgTypes
<1>2. Len(data) = 4 /\ data[1] = 0 /\ data[2] = 1 /\ data[3] = s /\ data[4] = p
      /\ data \in Seq({0, 1, s, p})
  OBVIOUS
<1>3. Len(fs) = 4 /\ fs[1] = One("u16") /\ fs[2] = One("u16") /\ fs[3] = One("str") /\ fs[4] = Vec("str")
  OBVIOUS
<1>4. ns \in Seq(Nat) /\ Len(ns) = 4 /\ ns[1] = 2 /\ ns[2] = 2 /\ ns[3] = 10 /\ ns[4] = 2
  OBVIOUS
<1>5. CalcLen(m) = U16(2 + 2 + StrArchiveLen(data[3]) + StrArrArchiveLen(data[4]))
  BY <1>1 DEF CalcLen
<1>6. StrArchiveLen(s) = 10 /\ Size(StoreField(One("str"), s)) = 10 /\ \A d : FieldRestored(One("str"), s, d)
  <2>1. "accepted" \in Tags
    BY DEF Tags
  <2> QED
    BY <2>1, WrittenStr
<1>7. /\ Size(StoreField(One("u16"), 0)) = 2 /\ \A d : FieldRestored(One("u16"), 0, d)
      /\ Size(StoreField(One("u16"), 1)) = 2 /\ \A d : FieldRestored(One("u16"), 1, d)
  BY WrittenNum
<1>8. StrArrArchiveLen(p) = 2 /\ Size(StoreField(Vec("str"), p)) = 2 /\ \A d : FieldRestored(Vec("str"), p, d)
  BY NoStrs
<1> HIDE DEF m, s, p, data, fs, ns
<1>9. Total(ns) = 16
  BY <1>4, TotalFew
<1>10. ASSUME NEW k \in 1..Len(m.data)
       PROVE  FieldRestored(fs[k], m.data[k], SubSeq(m.data, 1, k - 1)) /\ Size(StoreField(fs[k], m.data[k])) = ns[k]
  <2>1. k = 1 \/ k = 2 \/ k = 3 \/ k = 4
    BY <1>1, <1>2
  <2>2. CASE k = 1
    BY <1>1, <1>2, <1>3, <1>4, <1>7, <2>2
  <2>3. CASE k = 2
    BY <1>1, <1>2, <1>3, <1>4, <1>7, <2>3
  <2>4. CASE k = 3
    BY <1>1, <1>2, <1>3, <1>4, <1>6, <2>4
  <2>5. CASE k = 4
    BY <1>1, <1>2, <1>3, <1>4, <1>8, <2>5
  <2> QED
    BY <2>1, <2>2, <2>3, <2>4, <2>5
<1>11. CalcLen(m) = Total(ns) /\ Small(8 + Total(ns))
  <2>1. U16(16) = 16 /\ Small(8 + 16) /\ 2 + 2 + 10 + 2 = 16
    BY DEF U16, Small
  <2> QED
    BY <1>2, <1>5, <1>6, <1>8, <1>9, <2>1
<1>12. Sound(m)
  <2>1. PICK V : m.data \in Seq(V)
    BY <1>1, <1>2
  <2>2. Len(fs) = Len(m.data) /\ Len(ns) = Len(m.data) /\ ns \in Seq(Nat) /\ m.type \in MsgTypes
        /\ Stored[m.type] = fs
    BY <1>1, <1>2, <1>3, <1>4
  <2> QED
    BY <1>10, <1>11, <2>1, <2>2, SoundWith
<1> QED
  BY <1>12 DEF m

\* The lines of the menu, and how long they are.
MenuLens == <<14, 54, 54, 20, 21, 23, 16>>
MenuLines == [k \in 1..7 |-> [idx |-> k, val |-> Str("option", MenuLens[k])]]

\* The menu has seven lines, and each is a short option.
LEMMA MenuLinesHave ==
  /\ MenuLines \in Seq(OptionsOf) /\ Len(MenuLines) = 7
  /\ \A k \in 1..7 : MenuLens[k] \in Nat /\ MenuLens[k] <= 100
  /\ \A k \in 1..7 : /\ MenuLines[k] \in OptionsOf /\ Short(MenuLines[k].val)
                     /\ MenuLines[k].val.len = MenuLens[k]
                     /\ StrArchiveLen(MenuLines[k].val) = 2 + MenuLens[k]
<1>1. "option" \in Tags
  BY DEF Tags
<1>2. \A k \in 1..7 : MenuLens[k] \in Nat /\ MenuLens[k] <= 100
  BY DEF MenuLens
<1>3. ASSUME NEW k \in 1..7
      PROVE  /\ MenuLines[k] \in OptionsOf /\ Short(MenuLines[k].val)
             /\ MenuLines[k].val.len = MenuLens[k]
             /\ StrArchiveLen(MenuLines[k].val) = 2 + MenuLens[k]
  <2> DEFINE s == Str("option", MenuLens[k])
  <2>1. MenuLens[k] \in Nat /\ MenuLens[k] <= 100
    BY <1>2
  <2>2. s \in Strs /\ s.len = MenuLens[k] /\ Short(s) /\ StrArchiveLen(s) = 2 + MenuLens[k]
    BY <1>1, <2>1, WrittenStr
  <2>3. MenuLines[k] = [idx |-> k, val |-> s]
    BY DEF MenuLines
  <2> HIDE DEF s
  <2>4. MenuLines[k].val = s
    BY <2>3
  <2>5. MenuLines[k] \in OptionsOf
    BY <2>2, <2>3 DEF OptionsOf
  <2> QED
    BY <2>2, <2>4, <2>5
<1>4. Len(MenuLines) = 7 /\ MenuLines \in Seq(OptionsOf)
  BY <1>3 DEF MenuLines
<1> QED
  BY <1>2, <1>3, <1>4

\* The menu is read back as it was sent.
LEMMA MenuSound == Sound(MenuMsg)
<1> DEFINE m == MenuMsg
           p == MenuLines
           data == <<p>>
           fs == <<Vec("option")>>
           ns == <<232>>
           e == "option"
           ss == [k \in 1..Len(p) |-> StoreOption(p[k])]
           ts == [k \in 1..7 |-> Size(ss[k])]
<1>1. m.type = "interactive_menu" /\ m.data = data /\ Stored[m.type] = fs /\ m.type \in MsgTypes
  BY DEF MenuMsg, MenuLines, MenuLens, Stored, MsgTypes
<1>2. Len(data) = 1 /\ data[1] = p /\ data \in Seq({p})
  OBVIOUS
<1>3. Len(fs) = 1 /\ fs[1] = Vec(e)
  OBVIOUS
<1>4. ns \in Seq(Nat) /\ Len(ns) = 1 /\ ns[1] = 232
  OBVIOUS
<1>5. CalcLen(m) = U16(MenuLen(m)) /\ MenuLen(m) = MenuAdding!FoldOf(2, p)
  <2>1. CalcLen(m) = U16(MenuLen(m))
    BY <1>1 DEF CalcLen
  <2>2. MenuLen(m) = MenuAdding!FoldOf(2, m.data[1])
    BY DEF MenuLen, Fold, MenuAdding!FoldOf
  <2> QED
    BY <1>1, <1>2, <2>1, <2>2
<1>6. /\ p \in Seq(OptionsOf) /\ Len(p) = 7
      /\ \A k \in 1..7 : p[k] \in OptionsOf /\ Short(p[k].val) /\ p[k].val.len = MenuLens[k]
                         /\ StrArchiveLen(p[k].val) = 2 + MenuLens[k]
  BY MenuLinesHave
<1>7. StoreElems(e, p) = Concat(ss) /\ Len(ss) = 7 /\ \A k \in 1..7 : ss[k] = StoreOption(p[k])
  BY <1>6 DEF StoreElems
<1> HIDE DEF m, p, data, fs, ns, e, ss
<1>8. Restored(e, p)
  BY <1>6, OptionsRestored DEF e
<1>9. \A k \in 1..7 : ss[k] \in Archived /\ Size(ss[k]) = 4 + MenuLens[k]
  <2> TAKE k \in 1..7
  <2>1. <<>> \in Archived /\ <<>> \in Seq(Stuff)
    BY DEF Archived
  <2>2. p[k] \in OptionsOf /\ Short(p[k].val)
    BY <1>6
  <2>3. StoreOption(p[k]) \in Archived /\ Size(StoreOption(p[k])) = 4 + p[k].val.len
    BY <2>1, <2>2, LoadOptionAt
  <2> QED
    BY <1>6, <1>7, <2>3
<1>10. Size(StoreElems(e, p)) = 230
  <2>1. Size(Concat(ss)) = Total(ts)
    <3> DEFINE n == Len(ss)
    <3>1. n \in Nat /\ \A k \in 1..n : ss[k] \in Archived
      BY <1>7, <1>9
    <3> HIDE DEF n
    <3>2. Size(Concat(ss)) = Total([k \in 1..n |-> Size(ss[k])])
      BY <3>1, SizeConcat DEF n
    <3> QED
      BY <1>7, <3>2 DEF n
  <2>2. \A k \in 1..7 : MenuLens[k] \in Nat
    BY MenuLinesHave
  <2>3. ts \in Seq(Nat) /\ Len(ts) = 7 /\ \A k \in 1..7 : ts[k] = 4 + MenuLens[k]
    BY <1>9, <2>2
  <2> HIDE DEF ts
  <2>4. Total(ts) = ts[1] + ts[2] + ts[3] + ts[4] + ts[5] + ts[6] + ts[7]
    BY <2>3, TotalFew
  <2>5. /\ ts[1] = 18 /\ ts[2] = 58 /\ ts[3] = 58 /\ ts[4] = 24 /\ ts[5] = 25 /\ ts[6] = 27 /\ ts[7] = 20
    BY <2>3 DEF MenuLens
  <2> QED
    BY <1>7, <2>1, <2>4, <2>5
<1>11. Size(StoreField(Vec(e), p)) = 232 /\ \A d : FieldRestored(Vec(e), p, d)
  <2>1. Small(Len(p))
    BY <1>6 DEF Small
  <2>2. \A d : FieldRestored(Vec(e), p, d) /\ Size(StoreField(Vec(e), p)) = 2 + Size(StoreElems(e, p))
    BY <1>8, <2>1, VecRestored
  <2> QED
    BY <1>10, <2>2
<1>12. MenuLen(m) = 232
  <2>1. PICK g : MenuAdding!Folds(g, 2, p) /\ MenuAdding!FoldOf(2, p) = g[7]
    <3>1. Len(p) \in Nat
      BY <1>6
    <3>2. \E g : MenuAdding!Folds(g, 2, p) /\ MenuAdding!FoldOf(2, p) = g[Len(p)]
      BY <3>1, MenuAdding!FoldChain
    <3> QED
      BY <1>6, <3>2
  <2>2. g[0] = 2 /\ \A k \in 1..7 : g[k] = U16(g[k - 1] + StrArchiveLen(p[k].val) + 2)
    BY <1>6, <2>1 DEF MenuAdding!Folds
  <2>3. \A k \in 1..7 : g[k] = U16(g[k - 1] + (2 + MenuLens[k]) + 2)
    BY <1>6, <2>2
  <2>4. g[1] = 20
    BY <2>2, <2>3 DEF MenuLens, U16
  <2>5. g[2] = 78
    BY <2>3, <2>4 DEF MenuLens, U16
  <2>6. g[3] = 136
    BY <2>3, <2>5 DEF MenuLens, U16
  <2>7. g[4] = 160
    BY <2>3, <2>6 DEF MenuLens, U16
  <2>8. g[5] = 185
    BY <2>3, <2>7 DEF MenuLens, U16
  <2>9. g[6] = 212
    BY <2>3, <2>8 DEF MenuLens, U16
  <2>10. g[7] = 232
    BY <2>3, <2>9 DEF MenuLens, U16
  <2> QED
    BY <1>5, <2>1, <2>10
<1>13. Total(ns) = 232
  BY <1>4, TotalFew
<1>14. ASSUME NEW k \in 1..Len(m.data)
       PROVE  FieldRestored(fs[k], m.data[k], SubSeq(m.data, 1, k - 1)) /\ Size(StoreField(fs[k], m.data[k])) = ns[k]
  <2>1. k = 1
    BY <1>1, <1>2
  <2> QED
    BY <1>1, <1>2, <1>3, <1>4, <1>11, <2>1
<1>15. CalcLen(m) = Total(ns) /\ Small(8 + Total(ns))
  <2>1. U16(232) = 232 /\ Small(8 + 232)
    BY DEF U16, Small
  <2> QED
    BY <1>5, <1>12, <1>13, <2>1
<1>16. Sound(m)
  <2>1. PICK V : m.data \in Seq(V)
    BY <1>1, <1>2
  <2>2. Len(fs) = Len(m.data) /\ Len(ns) = Len(m.data) /\ ns \in Seq(Nat) /\ m.type \in MsgTypes
        /\ Stored[m.type] = fs
    BY <1>1, <1>2, <1>3, <1>4
  <2> QED
    BY <1>14, <1>15, <2>1, <2>2, SoundWith
<1> QED
  BY <1>16 DEF m

\* A vector of numbers of one width.
LEMMA VecNums ==
  ASSUME NEW e \in {"u8", "u16", "u32", "u64", "sizes"}, NEW v \in Seq(Stuff), Small(Len(v))
  PROVE  /\ \A d : FieldRestored(Vec(e), v, d)
         /\ Size(StoreField(Vec(e), v)) = 2 + Width[e] * Len(v)
<1>1. Restored(e, v) /\ Size(StoreElems(e, v)) = Width[e] * Len(v)
  BY NumsRestored
<1>2. \A d : FieldRestored(Vec(e), v, d) /\ Size(StoreField(Vec(e), v)) = 2 + Size(StoreElems(e, v))
  BY <1>1, VecRestored
<1> QED
  BY <1>1, <1>2

\* A vector that is answered has at most one element more than its limit.
LEMMA AddNumsHave ==
  ASSUME NEW num \in Int
  PROVE  AddNums(num) \in Seq(Stuff) /\ Len(AddNums(num)) \in Nat /\ Len(AddNums(num)) <= 8001
<1> DEFINE n == IF num \in 0..MAX_NUM_VEC_SIZE THEN num ELSE MAX_NUM_VEC_SIZE + 1
<1>1. n \in Nat /\ n <= 8001
  BY RecordsAssumption, SizesAssumption
<1> HIDE DEF n
<1>2. AddNums(num) = [k \in 1..n |-> k]
  BY DEF AddNums, n
<1>3. \A i \in Int : i \in Stuff
  BY Zenon DEF Stuff
<1>4. [k \in 1..n |-> k] \in Seq(Stuff) /\ Len([k \in 1..n |-> k]) = n
  <2>1. \A k \in 1..n : k \in Stuff
    BY <1>1, <1>3
  <2> QED
    BY <1>1, <2>1
<1> QED
  BY <1>1, <1>2, <1>4

\* A vector message of any type is read back as it was sent, whatever number was asked for.
LEMMA VecSound ==
  ASSUME NEW num \in Int, NEW t \in {"intvec", "bytevec", "doublevec"}
  PROVE  Sound(VecMsg(t, Context, num))
<1> DEFINE m == VecMsg(t, Context, num)
           v == AddNums(num)
           data == <<Context, v>>
           e == IF t = "intvec" THEN "u32" ELSE IF t = "bytevec" THEN "u8" ELSE "u64"
           w == Width[e]
           fs == <<One("str"), Vec(e)>>
           l == Len(v)
           n == 2 + w * l
           ns == <<9, n>>
<1>1. m.type = t /\ m.data = data /\ Stored[m.type] = fs /\ m.type \in MsgTypes
  BY DEF VecMsg, Stored, MsgTypes
<1>2. Len(data) = 2 /\ data[1] = Context /\ data[2] = v /\ data \in Seq({Context, v})
  OBVIOUS
<1>3. Len(fs) = 2 /\ fs[1] = One("str") /\ fs[2] = Vec(e)
  OBVIOUS
<1>4. e \in {"u8", "u16", "u32", "u64", "sizes"} /\ w \in {1, 4, 8}
  BY NumWidths
<1>5. v \in Seq(Stuff) /\ l \in Nat /\ l <= 8001
  BY AddNumsHave
<1>6. CalcLen(m) = U16(StrArchiveLen(data[1]) + NumArrArchiveLen(w, data[2]))
  <2>1. CASE t = "intvec"
    BY <1>1, <2>1, NumWidths DEF CalcLen
  <2>2. CASE t = "bytevec"
    BY <1>1, <2>2, NumWidths DEF CalcLen
  <2>3. CASE t = "doublevec"
    BY <1>1, <2>3, NumWidths DEF CalcLen
  <2> QED
    BY <2>1, <2>2, <2>3
<1>7. NumArrArchiveLen(w, data[2]) = U16(n)
  BY <1>2 DEF NumArrArchiveLen
<1> HIDE DEF m, v, data, fs, ns, e, w, l
<1>8. n \in Nat /\ n <= 64010
  <2>1. CASE w = 1
    BY <1>5, <2>1
  <2>2. CASE w = 4
    BY <1>5, <2>2
  <2>3. CASE w = 8
    BY <1>5, <2>3
  <2> QED
    BY <1>4, <2>1, <2>2, <2>3
<1>9. ns \in Seq(Nat) /\ Len(ns) = 2 /\ ns[1] = 9 /\ ns[2] = n
  BY <1>8 DEF ns
<1>10. U16(n) = n /\ U16(9 + n) = 9 + n /\ Small(8 + (9 + n)) /\ Small(l)
  <2> HIDE DEF n
  <2>1. \A i \in Nat : i < 65536 => i % 65536 = i
    OBVIOUS
  <2>2. n \in Nat /\ n < 65536 /\ 9 + n \in Nat /\ 9 + n < 65536
    BY <1>8
  <2>3. U16(n) = n /\ U16(9 + n) = 9 + n
    BY <2>1, <2>2 DEF U16
  <2>4. 8 + (9 + n) < 65536 /\ l < 65536
    BY <1>5, <1>8
  <2> QED
    BY <2>3, <2>4 DEF Small
<1>11. Size(StoreField(Vec(e), v)) = n /\ \A d : FieldRestored(Vec(e), v, d)
  BY <1>4, <1>5, <1>10, VecNums DEF w, l
<1>12. StrArchiveLen(Context) = 9 /\ Size(StoreField(One("str"), Context)) = 9
       /\ \A d : FieldRestored(One("str"), Context, d)
  <2>1. "context" \in Tags
    BY DEF Tags
  <2> QED
    BY <2>1, WrittenStr DEF Context
<1> HIDE DEF n
<1>13. Total(ns) = 9 + n
  BY <1>9, TotalFew
<1>14. ASSUME NEW k \in 1..Len(m.data)
       PROVE  FieldRestored(fs[k], m.data[k], SubSeq(m.data, 1, k - 1)) /\ Size(StoreField(fs[k], m.data[k])) = ns[k]
  <2>1. k = 1 \/ k = 2
    BY <1>1, <1>2
  <2>2. CASE k = 1
    BY <1>1, <1>2, <1>3, <1>9, <1>12, <2>2
  <2>3. CASE k = 2
    BY <1>1, <1>2, <1>3, <1>9, <1>11, <2>3
  <2> QED
    BY <2>1, <2>2, <2>3
<1>15. CalcLen(m) = Total(ns) /\ Small(8 + Total(ns))
  BY <1>2, <1>6, <1>7, <1>10, <1>12, <1>13
<1>16. Sound(m)
  <2>1. PICK V : m.data \in Seq(V)
    BY <1>1, <1>2
  <2>2. Len(fs) = Len(m.data) /\ Len(ns) = Len(m.data) /\ ns \in Seq(Nat) /\ m.type \in MsgTypes
        /\ Stored[m.type] = fs
    BY <1>1, <1>2, <1>3, <1>9
  <2> QED
    BY <1>14, <1>15, <2>1, <2>2, SoundWith
<1> QED
  BY <1>16 DEF m

\* Numbers, letters, strings and sizes can be members.
LEMMA StuffHas ==
  /\ \A x \in Int : x \in Stuff
  /\ \A x \in [ints : Nat, dbls : Nat, stamps : Nat] : x \in Stuff
  /\ \A x \in Letters : x \in Stuff
  /\ \A x \in Strs : x \in Stuff
  BY Zenon DEF Stuff

\* The members of a message: how each is stored, in how many bytes, and that it is read back.
Parts(m, V, fs, ns) ==
  /\ m.type \in MsgTypes /\ m.data \in Seq(V)
  /\ Stored[m.type] = fs /\ Len(fs) = Len(m.data)
  /\ ns \in Seq(Nat) /\ Len(ns) = Len(m.data)
  /\ \A k \in 1..Len(m.data) : /\ FieldRestored(fs[k], m.data[k], SubSeq(m.data, 1, k - 1))
                               /\ Size(StoreField(fs[k], m.data[k])) = ns[k]
  /\ CalcLen(m) = Total(ns) /\ Small(8 + Total(ns))

\* A message made of such parts is read back as it was sent, and its size is their sum.
LEMMA SoundParts ==
  ASSUME NEW m, NEW V, NEW fs, NEW ns, Parts(m, V, fs, ns)
  PROVE  Sound(m) /\ Size(Payload(m)) = Total(ns)
  BY SoundWith DEF Parts

\* An array of numbers as long as its size says.
LEMMA ArrNums ==
  ASSUME NEW e \in {"u8", "u16", "u32", "u64", "sizes"}, NEW v \in Seq(Stuff), NEW n, NEW d,
         SizesFit(d[2]), d[2][n] = Len(v)
  PROVE  FieldRestored(Arr(e, n), v, d) /\ Size(StoreField(Arr(e, n), v)) = Width[e] * Len(v)
<1>1. Restored(e, v) /\ Size(StoreElems(e, v)) = Width[e] * Len(v)
  BY NumsRestored
<1> QED
  BY <1>1, ArrRestored

\* A delta with as many values as fit one message is read back as it was sent.
LEMMA MdDeltaSound ==
  ASSUME NEW s \in Strs, s.len <= 2100, NEW ints \in Seq(Stuff), NEW dbls \in Seq(Stuff),
         Len(ints) <= INT_DELTA_SIZE, Len(dbls) <= DBL_DELTA_SIZE
  PROVE  Sound(MdDeltaMsg(s, ints, dbls))
<1> DEFINE m == MdDeltaMsg(s, ints, dbls)
           i == Len(ints)
           b == Len(dbls)
           len == s.len
           z == [ints |-> i, dbls |-> b, stamps |-> 1]
           st == <<0>>
           data == <<s, z, ints, ints, dbls, dbls, st>>
           fs == <<One("str"), One("sizes"), Arr("u16", "ints"), Arr("u32", "ints"),
                   Arr("u16", "dbls"), Arr("u64", "dbls"), Arr("u64", "stamps")>>
           ns == <<2 + len, 4, 2 * i, 4 * i, 2 * b, 8 * b, 8>>
           total == 14 + len + 6 * i + 10 * b
<1>1. m.type = "md_delta" /\ m.data = data /\ Stored[m.type] = fs /\ m.type \in MsgTypes
  BY DEF MdDeltaMsg, Stored, MdDeltaStored, MsgTypes
<1>2. /\ Len(data) = 7 /\ data[1] = s /\ data[2] = z /\ data[3] = ints /\ data[4] = ints
      /\ data[5] = dbls /\ data[6] = dbls /\ data[7] = st
      /\ data \in Seq({s, z, ints, dbls, st})
  OBVIOUS
<1>3. /\ Len(fs) = 7 /\ fs[1] = One("str") /\ fs[2] = One("sizes")
      /\ fs[3] = Arr("u16", "ints") /\ fs[4] = Arr("u32", "ints")
      /\ fs[5] = Arr("u16", "dbls") /\ fs[6] = Arr("u64", "dbls") /\ fs[7] = Arr("u64", "stamps")
  OBVIOUS
<1>4. i \in Nat /\ i <= 3000 /\ b \in Nat /\ b <= 3000 /\ len \in Nat /\ len <= 2100
  <2>1. len \in Nat
    BY DEF Strs
  <2> QED
    BY <2>1, RecordsAssumption, SizesAssumption
<1>5. SizesFit(z) /\ z.ints = i /\ z.dbls = b /\ z.stamps = 1 /\ z \in Stuff
  <2>1. z.ints = i /\ z.dbls = b /\ z.stamps = 1 /\ z \in [ints : Nat, dbls : Nat, stamps : Nat]
    BY <1>4
  <2>2. z \in Stuff
    <3> HIDE DEF z
    <3> QED
      BY <2>1, StuffHas
  <2>3. 1 <= STAMP_DELTA_SIZE
    BY RecordsAssumption
  <2>4. SizesFit(z)
    BY <2>1, <2>3 DEF SizesFit
  <2> QED
    BY <2>1, <2>2, <2>4
<1>6. CalcLen(m) = U16(4 + StrArchiveLen(s) + 6 * i + 10 * b + 8 * 1)
  <2>1. CalcLen(m) = U16(MdDeltaLen(m))
    BY <1>1 DEF CalcLen
  <2>2. MdDeltaLen(m) = 4 + StrArchiveLen(m.data[1]) + (2 + 4) * m.data[2].ints + (2 + 8) * m.data[2].dbls + 8 * m.data[2].stamps
    BY DEF MdDeltaLen
  <2>3. m.data[1] = s /\ m.data[2].ints = i /\ m.data[2].dbls = b /\ m.data[2].stamps = 1
    BY <1>1, <1>2, <1>5
  <2>4. 2 + 4 = 6 /\ 2 + 8 = 10
    OBVIOUS
  <2> QED
    BY <2>1, <2>2, <2>3, <2>4
<1>7. st \in Seq(Stuff) /\ Len(st) = 1
  <2>1. 0 \in Stuff
    BY StuffHas
  <2> QED
    BY <2>1
<1>8. /\ ns \in Seq(Nat) /\ Len(ns) = 7 /\ ns[1] = 2 + len /\ ns[2] = 4 /\ ns[3] = 2 * i /\ ns[4] = 4 * i
      /\ ns[5] = 2 * b /\ ns[6] = 8 * b /\ ns[7] = 8
  <2>1. 2 + len \in Nat /\ 2 * i \in Nat /\ 4 * i \in Nat /\ 2 * b \in Nat /\ 8 * b \in Nat
    BY <1>4
  <2> QED
    BY <2>1
<1>9. s \in Strs /\ Len(ints) = i /\ Len(dbls) = b /\ s.len = len
  OBVIOUS
<1> HIDE DEF m, i, b, len, z, st, data, fs, ns
<1>10. total \in Nat /\ total <= 50114
  BY <1>4
<1>11. total \in Nat /\ Small(8 + total) /\ U16(total) = total /\ Small(2 + len)
  <2>1. 8 + total < 65536 /\ 2 + len <= total /\ 2 + len \in Nat
    BY <1>4, <1>10
  <2> HIDE DEF total
  <2> QED
    BY <1>10, <2>1, SmallHas DEF Small
<1>12. StrArchiveLen(s) = 2 + len /\ Size(StoreField(One("str"), s)) = 2 + len
       /\ \A d : FieldRestored(One("str"), s, d)
  BY <1>9, <1>11, StrLen, OneStr
<1>13. Size(StoreField(One("sizes"), z)) = 4 /\ \A d : FieldRestored(One("sizes"), z, d)
  BY <1>5, NumWidths, OneNum
<1>14. Total(ns) = total
  <2>1. Total(ns) = (2 + len) + 4 + 2 * i + 4 * i + 2 * b + 8 * b + 8
    BY <1>8, TotalFew
  <2> QED
    BY <1>4, <2>1
<1>15. ASSUME NEW k \in 3..7
       PROVE  SizesFit(SubSeq(data, 1, k - 1)[2]) /\ SubSeq(data, 1, k - 1)[2] = z
  <2>1. PICK V : data \in Seq(V)
    BY <1>2
  <2>2. SubSeq(data, 1, k - 1)[2] = data[2]
    BY <1>2, <2>1
  <2> QED
    BY <1>2, <1>5, <2>2
<1>16. ASSUME NEW k \in 1..Len(m.data)
       PROVE  FieldRestored(fs[k], m.data[k], SubSeq(m.data, 1, k - 1)) /\ Size(StoreField(fs[k], m.data[k])) = ns[k]
  <2> DEFINE d == SubSeq(data, 1, k - 1)
  <2>1. k = 1 \/ k = 2 \/ k = 3 \/ k = 4 \/ k = 5 \/ k = 6 \/ k = 7
    BY <1>1, <1>2
  <2>2. CASE k = 1
    BY <1>1, <1>2, <1>3, <1>8, <1>12, <2>2
  <2>3. CASE k = 2
    BY <1>1, <1>2, <1>3, <1>8, <1>13, <2>3
  <2>4. k >= 3 => SizesFit(d[2]) /\ d[2].ints = Len(ints) /\ d[2].dbls = Len(dbls) /\ d[2].stamps = Len(st)
    BY <1>1, <1>2, <1>5, <1>7, <1>9, <1>15
  <2> HIDE DEF d
  <2>5. CASE k = 3
    <3>1. FieldRestored(Arr("u16", "ints"), ints, d) /\ Size(StoreField(Arr("u16", "ints"), ints)) = 2 * Len(ints)
      BY <2>4, <2>5, NumWidths, ArrNums
    <3> QED
      BY <1>1, <1>2, <1>3, <1>8, <1>9, <2>5, <3>1 DEF d
  <2>6. CASE k = 4
    <3>1. FieldRestored(Arr("u32", "ints"), ints, d) /\ Size(StoreField(Arr("u32", "ints"), ints)) = 4 * Len(ints)
      BY <2>4, <2>6, NumWidths, ArrNums
    <3> QED
      BY <1>1, <1>2, <1>3, <1>8, <1>9, <2>6, <3>1 DEF d
  <2>7. CASE k = 5
    <3>1. FieldRestored(Arr("u16", "dbls"), dbls, d) /\ Size(StoreField(Arr("u16", "dbls"), dbls)) = 2 * Len(dbls)
      BY <2>4, <2>7, NumWidths, ArrNums
    <3> QED
      BY <1>1, <1>2, <1>3, <1>8, <1>9, <2>7, <3>1 DEF d
  <2>8. CASE k = 6
    <3>1. FieldRestored(Arr("u64", "dbls"), dbls, d) /\ Size(StoreField(Arr("u64", "dbls"), dbls)) = 8 * Len(dbls)
      BY <2>4, <2>8, NumWidths, ArrNums
    <3> QED
      BY <1>1, <1>2, <1>3, <1>8, <1>9, <2>8, <3>1 DEF d
  <2>9. CASE k = 7
    <3>1. FieldRestored(Arr("u64", "stamps"), st, d) /\ Size(StoreField(Arr("u64", "stamps"), st)) = 8 * Len(st)
      <4>1. SizesFit(d[2]) /\ d[2].stamps = Len(st)
        BY <2>4, <2>9
      <4>2. st \in Seq(Stuff)
        BY <1>7
      <4>3. FieldRestored(Arr("u64", "stamps"), st, d) /\ Size(StoreField(Arr("u64", "stamps"), st)) = Width["u64"] * Len(st)
        BY <4>1, <4>2, ArrNums
      <4> QED
        BY <4>3, NumWidths
    <3>2. 8 * Len(st) = 8
      BY <1>7
    <3> QED
      BY <1>1, <1>2, <1>3, <1>8, <2>9, <3>1, <3>2 DEF d
  <2> QED
    BY <2>1, <2>2, <2>3, <2>5, <2>6, <2>7, <2>8, <2>9
<1>17. CalcLen(m) = Total(ns) /\ Small(8 + Total(ns))
  <2>1. 4 + (2 + len) + 6 * i + 10 * b + 8 * 1 = total
    BY <1>4
  <2>2. CalcLen(m) = U16(total)
    BY <1>6, <1>12, <2>1
  <2> HIDE DEF total
  <2> QED
    BY <1>11, <1>14, <2>2
<1> HIDE DEF total
<1>18. Sound(m)
  <2>1. PICK V : m.data \in Seq(V)
    BY <1>1, <1>2
  <2>2. Len(fs) = Len(m.data) /\ Len(ns) = Len(m.data) /\ ns \in Seq(Nat) /\ m.type \in MsgTypes
        /\ Stored[m.type] = fs
    BY <1>1, <1>2, <1>3, <1>8
  <2>3. \A k \in 1..Len(m.data) : /\ FieldRestored(fs[k], m.data[k], SubSeq(m.data, 1, k - 1))
                                  /\ Size(StoreField(fs[k], m.data[k])) = ns[k]
    BY <1>16
  <2>4. CalcLen(m) = Total(ns) /\ Small(8 + Total(ns))
    BY <1>17
  <2>5. Parts(m, V, fs, ns)
    BY <2>1, <2>2, <2>3, <2>4 DEF Parts
  <2> QED
    BY <2>5, SoundParts
<1> QED
  BY <1>18 DEF m

\* A row of the reference table: the lengths of the strings of its fields.
LongestRow == 2062
RowOf == {r \in [Fields -> Nat] : \A i \in Fields : 10 <= r[i] /\ r[i] <= LongestRow}

\* The sum of numbers that are not too large.
LEMMA TotalBelow ==
  ASSUME NEW ns \in Seq(Nat), \A k \in 1..Len(ns) : ns[k] <= LongestRow + 2
  PROVE  Total(ns) \in Nat /\ Total(ns) <= 2064 * Len(ns)
<1> DEFINE size == Len(ns)
<1>1. PICK g : Sums(ns, g)
  BY SumsExist
<1>2. /\ g[0] = 0 /\ g[size] = Total(ns)
      /\ \A k \in 0..size : g[k] \in Nat
      /\ \A k \in 1..size : g[k] = g[k - 1] + ns[k]
  BY <1>1 DEF Sums
<1>3. size \in Nat /\ \A k \in 1..size : ns[k] \in Nat /\ ns[k] <= 2064
  BY DEF LongestRow
<1> HIDE DEF size
<1> DEFINE T == {k \in 0..size : g[k] <= 2064 * k}
<1>4. 0 \in T
  <2>1. 0 \in 0..size /\ g[0] <= 2064 * 0
    BY <1>2, <1>3
  <2> QED
    BY <2>1
<1>5. ASSUME NEW k \in 1..size, k - 1 \in T
      PROVE  k \in T
  <2>1. k \in 0..size /\ k - 1 \in 0..size /\ k \in Int
    BY <1>3
  <2>2. g[k] = g[k - 1] + ns[k] /\ ns[k] \in Nat /\ ns[k] <= 2064 /\ g[k - 1] \in Nat
    BY <1>2, <1>3, <2>1
  <2>3. g[k - 1] <= 2064 * (k - 1)
    BY <1>5
  <2>4. ASSUME NEW a \in Nat, NEW b \in Nat, NEW j \in Int, b <= 2064, a <= 2064 * (j - 1)
        PROVE  a + b <= 2064 * j
    BY <2>4
  <2>5. g[k] <= 2064 * k
    BY <2>1, <2>2, <2>3, <2>4
  <2> QED
    BY <2>1, <2>5
<1> HIDE DEF T
<1>6. \A k \in 0..size : k \in T
  <2>1. size \in Nat
    BY <1>3
  <2> QED
    BY <1>4, <1>5, <2>1, Induction
<1>7. size \in T /\ size \in 0..size
  BY <1>3, <1>6
<1>8. g[size] <= 2064 * size /\ g[size] \in Nat
  BY <1>2, <1>7 DEF T
<1> QED
  BY <1>2, <1>8 DEF size

\* The strings of a row, and a value for each field in the order of the fields.
TextsOf(r) == [i \in Fields |-> Str("ref string", r[i])]
Listed(x) == [k \in 1..30 |-> x[k - 1]]

\* The strings of a row have the row's lengths.
LEMMA RowStrs ==
  ASSUME NEW r \in RowOf
  PROVE  /\ TextsOf(r) \in [Fields -> Strs]
         /\ \A i \in Fields : TextsOf(r)[i].len = r[i] /\ r[i] \in Nat
<1>1. \A i \in Fields : r[i] \in Nat
  BY DEF RowOf
<1>2. "ref string" \in Tags
  BY DEF Tags
<1>3. \A n \in Nat : Str("ref string", n) \in Strs /\ Str("ref string", n).len = n
  BY <1>2, StrIn
<1> QED
  BY <1>1, <1>3 DEF TextsOf

\* The values of the fields, listed: thirty, each where its field is.
LEMMA ListedHas ==
  ASSUME NEW V, NEW x \in [Fields -> V]
  PROVE  /\ Listed(x) \in Seq(V) /\ Len(Listed(x)) = 30
         /\ \A k \in 1..30 : Listed(x)[k] = x[k - 1] /\ k - 1 \in Fields /\ FieldList[k] = k - 1
<1>1. \A k \in 1..30 : k - 1 \in Fields
  BY DEF Fields
<1>2. \A k \in 1..30 : x[k - 1] \in V
  BY <1>1
<1>3. Listed(x) \in Seq(V) /\ Len(Listed(x)) = 30 /\ \A k \in 1..30 : Listed(x)[k] = x[k - 1]
  BY <1>2 DEF Listed
<1> QED
  BY <1>1, <1>3, FieldListHas

\* The same, by the list of the fields.
LEMMA ListedBy ==
  ASSUME NEW x
  PROVE  \A k \in 1..30 : Listed(x)[k] = x[FieldList[k]]
<1> TAKE k \in 1..30
<1>1. Listed(x)[k] = x[k - 1]
  BY DEF Listed
<1>2. FieldList[k] = k - 1
  BY FieldListHas
<1> QED
  BY <1>1, <1>2

\* The strings of a row are short, and all of them together can be announced in 16 bits.
LEMMA RowHas ==
  ASSUME NEW r \in RowOf
  PROVE  LET p == Listed(TextsOf(r))
             n == Total(Stretches(p))
         IN /\ p \in Seq(Strs) /\ Len(p) = 30 /\ \A k \in 1..Len(p) : Small(p[k].len)
            /\ n \in Nat /\ n <= 61920
<1> DEFINE p == Listed(TextsOf(r))
           q == Stretches(p)
<1>1. /\ p \in Seq(Strs) /\ Len(p) = 30
      /\ \A k \in 1..30 : p[k] = TextsOf(r)[k - 1] /\ k - 1 \in Fields
  BY RowStrs, ListedHas
<1>3. \A k \in 1..30 : r[k - 1] <= LongestRow
  BY <1>1 DEF RowOf
<1> HIDE DEF p
<1>2. \A k \in 1..30 : p[k].len = r[k - 1] /\ r[k - 1] \in Nat
  <2> TAKE k \in 1..30
  <2>1. p[k] = TextsOf(r)[k - 1] /\ k - 1 \in Fields
    BY <1>1
  <2>2. TextsOf(r)[k - 1].len = r[k - 1] /\ r[k - 1] \in Nat
    BY <2>1, RowStrs
  <2> QED
    BY <2>1, <2>2
<1>4. \A k \in 1..Len(p) : p[k].len \in Nat /\ p[k].len <= LongestRow
  BY <1>1, <1>2, <1>3
<1>5. \A k \in 1..Len(p) : Small(p[k].len)
  <2>1. \A n \in Nat : n <= LongestRow => Small(n)
    BY DEF LongestRow, Small
  <2> QED
    BY <1>4, <2>1
<1>6. q \in Seq(Nat) /\ Len(q) = Len(p) /\ \A k \in 1..Len(p) : q[k] = 2 + p[k].len
  BY <1>1, StretchesHave
<1> HIDE DEF q
<1>7. \A k \in 1..Len(q) : q[k] <= LongestRow + 2
  <2>1. \A n \in Nat : n <= LongestRow => 2 + n <= LongestRow + 2
    BY DEF LongestRow
  <2> QED
    BY <1>4, <1>6, <2>1
<1>8. Total(q) \in Nat /\ Total(q) <= 2064 * Len(q)
  BY <1>6, <1>7, TotalBelow
<1>9. Total(q) \in Nat /\ Total(q) <= 61920
  <2>1. Len(q) = 30
    BY <1>1, <1>6
  <2> QED
    BY <1>8, <2>1
<1> QED
  BY <1>1, <1>5, <1>9 DEF p, q

\* The numbers of the fields.
LEMMA FieldNums ==
  LET ident == [i \in Fields |-> i]
  IN ident \in [Fields -> Stuff] /\ Listed(ident) \in Seq(Stuff) /\ Len(Listed(ident)) = 30
<1> DEFINE ident == [i \in Fields |-> i]
<1>1. \A i \in Fields : i \in Int
  BY DEF Fields
<1>2. \A i \in Fields : i \in Stuff
  BY <1>1, StuffHas
<1>3. ident \in [Fields -> Stuff]
  BY <1>2
<1> HIDE DEF ident
<1>4. Listed(ident) \in Seq(Stuff) /\ Len(Listed(ident)) = 30
  BY <1>3, ListedHas
<1> QED
  BY <1>3, <1>4 DEF ident

\* The values of the fields, read again.
LEMMA NumsOfFields ==
  ASSUME NEW e \in {"u32", "u64"}, NEW key, NEW d, d[key] = Fields
  PROVE  LET ident == [i \in Fields |-> i]
         IN /\ FieldRestored(Values(e, key), ident, d)
            /\ Size(StoreField(Values(e, key), ident)) = Width[e] * 30
<1> DEFINE ident == [i \in Fields |-> i]
           nums == Listed(ident)
<1>1. ident \in [Fields -> Stuff] /\ nums \in Seq(Stuff) /\ Len(nums) = 30
  BY FieldNums
<1>2. nums = [k \in 1..30 |-> ident[k - 1]]
  BY DEF Listed
<1> HIDE DEF ident, nums
<1>3. Restored(e, nums) /\ Size(StoreElems(e, nums)) = Width[e] * Len(nums)
  <2>1. nums \in Seq(Stuff)
    BY <1>1
  <2> QED
    BY <2>1, NumsRestored
<1>4. FieldRestored(Values(e, key), ident, d) /\ StoreField(Values(e, key), ident) = StoreElems(e, nums)
  <2>1. ident \in [Fields -> Stuff]
    BY <1>1
  <2>2. Restored(e, [k \in 1..30 |-> ident[k - 1]])
    BY <1>2, <1>3
  <2>3. /\ FieldRestored(Values(e, key), ident, d)
        /\ StoreField(Values(e, key), ident) = StoreElems(e, [k \in 1..30 |-> ident[k - 1]])
    BY <2>1, <2>2, ValuesRestored
  <2> QED
    BY <1>2, <2>3
<1>5. Size(StoreField(Values(e, key), ident)) = Width[e] * 30
  BY <1>1, <1>3, <1>4
<1> QED
  BY <1>4, <1>5 DEF ident

\* The strings of a row are read again after the fields they belong to.
LEMMA StrsOfFields ==
  ASSUME NEW r \in RowOf, NEW key, NEW d, d[key] = Fields
  PROVE  LET p == Listed(TextsOf(r))
         IN /\ FieldRestored(Values("str", key), TextsOf(r), d)
            /\ Size(StoreField(Values("str", key), TextsOf(r))) = Total(Stretches(p))
<1> DEFINE x == TextsOf(r)
           p == Listed(x)
           e == "str"
<1>1. p \in Seq(Strs) /\ \A k \in 1..Len(p) : Small(p[k].len)
  BY RowHas
<1>2. x \in [Fields -> Strs]
  BY RowStrs
<1>3. p = [k \in 1..30 |-> x[k - 1]]
  BY DEF Listed
<1> HIDE DEF x, p, e
<1>4. Restored("str", p) /\ Size(StoreElems("str", p)) = Total(Stretches(p))
  BY <1>1, StrsRestored, StrsSize
<1>5. FieldRestored(Values(e, key), x, d) /\ StoreField(Values(e, key), x) = StoreElems(e, p)
  <2>1. Restored(e, [k \in 1..30 |-> x[k - 1]])
    BY <1>3, <1>4 DEF e
  <2>2. /\ FieldRestored(Values(e, key), x, d)
        /\ StoreField(Values(e, key), x) = StoreElems(e, [k \in 1..30 |-> x[k - 1]])
    BY <1>2, <2>1, ValuesRestored
  <2> QED
    BY <1>3, <2>2
<1> QED
  BY <1>4, <1>5 DEF x, p, e

\* All the reference data of a symbol.
LEMMA MdRefSound ==
  ASSUME NEW s \in Strs, s.len <= 2100, NEW t, t[s] \in RowOf
  PROVE  Sound(MdRefMsg(t, s))
<1> DEFINE m == MdRefMsg(t, s)
           r == t[s]
           len == s.len
           ident == [i \in Fields |-> i]
           strs == TextsOf(r)
           p == Listed(strs)
           n == Total(Stretches(p))
           data == <<s, Fields, Fields, Fields, ident, ident, strs>>
           fs == <<One("str"), Bits, Bits, Bits, Values("u32", 2), Values("u64", 3), Values("str", 4)>>
           ns == <<2 + len, 62, 62, 62, 120, 240, n>>
           total == 548 + len + n
<1>1. m.type = "md_refference" /\ m.data = data /\ Stored[m.type] = fs /\ m.type \in MsgTypes
  <2>1. m = [type |-> "md_refference", data |-> data]
    BY DEF MdRefMsg, TextsOf
  <2>2. Stored["md_refference"] = fs
    BY DEF Stored, MdRefStored
  <2>3. "md_refference" \in MsgTypes
    BY DEF MsgTypes
  <2> HIDE DEF m, data, fs
  <2>4. m.type = "md_refference" /\ m.data = data
    BY <2>1
  <2> QED
    BY <2>2, <2>3, <2>4
<1>2. /\ Len(data) = 7 /\ data[1] = s /\ data[2] = Fields /\ data[3] = Fields /\ data[4] = Fields
      /\ data[5] = ident /\ data[6] = ident /\ data[7] = strs
      /\ data \in Seq({s, Fields, ident, strs})
  OBVIOUS
<1>3. /\ Len(fs) = 7 /\ fs[1] = One("str") /\ fs[2] = Bits /\ fs[3] = Bits /\ fs[4] = Bits
      /\ fs[5] = Values("u32", 2) /\ fs[6] = Values("u64", 3) /\ fs[7] = Values("str", 4)
  OBVIOUS
<1>4. n \in Nat /\ n <= 61920
  BY RowHas
<1>5. p \in Seq(Strs) /\ Len(p) = 30
  BY RowHas
<1>11. \A k \in 1..30 : p[k] = strs[FieldList[k]]
  BY ListedBy
<1>6. \A d : d[2] = Fields => /\ FieldRestored(Values("u32", 2), ident, d)
                              /\ Size(StoreField(Values("u32", 2), ident)) = 120
  <2>1. Width["u32"] * 30 = 120
    BY NumWidths
  <2> QED
    BY <2>1, NumsOfFields
<1>7. \A d : d[3] = Fields => /\ FieldRestored(Values("u64", 3), ident, d)
                              /\ Size(StoreField(Values("u64", 3), ident)) = 240
  <2>1. Width["u64"] * 30 = 240
    BY NumWidths
  <2> QED
    BY <2>1, NumsOfFields
<1>8. \A d : d[4] = Fields => /\ FieldRestored(Values("str", 4), strs, d)
                              /\ Size(StoreField(Values("str", 4), strs)) = n
  BY StrsOfFields
<1>9. len \in Nat /\ len <= 2100
  BY DEF Strs
<1>10. s \in Strs /\ s.len = len
  OBVIOUS
<1> HIDE DEF m, r, len, ident, strs, p, data, fs, n
<1>12. total \in Nat /\ Small(8 + total) /\ U16(total) = total /\ Small(2 + len)
  <2>1. total \in Nat /\ 8 + total < 65536 /\ 2 + len <= total /\ 2 + len \in Nat
    BY <1>4, <1>9
  <2> HIDE DEF total
  <2> QED
    BY <2>1, SmallHas DEF Small
<1>13. CalcLen(m) = U16(StrArchiveLen(s) + 186 + 120 + 240 + n)
  <2>1. CalcLen(m) = U16(MdRefLen(m))
    BY <1>1 DEF CalcLen
  <2> DEFINE nn == [k \in 2..4 |-> Cardinality(m.data[k])]
             keys == Ascending(m.data[4])
             ss == m.data[7]
             stretches == [k \in 1..nn[4] |-> 2 + ss[keys[k]].len]
  <2>2. MdRefLen(m) = StrArchiveLen(m.data[1]) + (2 + 2 * nn[2]) + (2 + 2 * nn[3]) + (2 + 2 * nn[4])
                        + 4 * nn[2] + 8 * nn[3] + Total(stretches)
    BY DEF MdRefLen
  <2>3. nn[2] = 30 /\ nn[3] = 30 /\ nn[4] = 30
    BY <1>1, <1>2, FieldListHas
  <2>4. keys = FieldList /\ ss = strs
    BY <1>1, <1>2, AscendingFields
  <2> HIDE DEF nn, keys, ss
  <2>5. stretches = Stretches(p)
    <3>1. stretches = [k \in 1..30 |-> 2 + strs[FieldList[k]].len]
      BY <2>3, <2>4
    <3>3. Stretches(p) = [k \in 1..30 |-> 2 + p[k].len]
      BY <1>5 DEF Stretches
    <3> QED
      BY <1>11, <3>1, <3>3
  <2> HIDE DEF stretches
  <2>6. Total(stretches) = n
    BY <2>5 DEF n
  <2>7. m.data[1] = s
    BY <1>1, <1>2
  <2>8. MdRefLen(m) = StrArchiveLen(s) + (2 + 2 * 30) + (2 + 2 * 30) + (2 + 2 * 30) + 4 * 30 + 8 * 30 + n
    BY <2>2, <2>3, <2>6, <2>7
  <2>9. \A x \in Int : x + (2 + 2 * 30) + (2 + 2 * 30) + (2 + 2 * 30) + 4 * 30 + 8 * 30 + n = x + 186 + 120 + 240 + n
    BY <1>4
  <2>10. StrArchiveLen(s) \in Int
    BY <1>10, <1>12, StrLen, <1>9
  <2> QED
    BY <2>1, <2>8, <2>9, <2>10
<1>14. StrArchiveLen(s) = 2 + len /\ Size(StoreField(One("str"), s)) = 2 + len
       /\ \A d : FieldRestored(One("str"), s, d)
  BY <1>10, <1>12, StrLen, OneStr
<1>15. /\ ns \in Seq(Nat) /\ Len(ns) = 7 /\ ns[1] = 2 + len /\ ns[2] = 62 /\ ns[3] = 62 /\ ns[4] = 62
       /\ ns[5] = 120 /\ ns[6] = 240 /\ ns[7] = n
  <2>1. 2 + len \in Nat /\ n \in Nat
    BY <1>4, <1>9
  <2> QED
    BY <2>1
<1> HIDE DEF ns
<1>16. Total(ns) = total
  <2>1. Total(ns) = (2 + len) + 62 + 62 + 62 + 120 + 240 + n
    BY <1>15, TotalFew
  <2> QED
    BY <1>4, <1>9, <2>1
<1>17. ASSUME NEW k \in 5..7
       PROVE  LET d == SubSeq(data, 1, k - 1) IN d[2] = Fields /\ d[3] = Fields /\ d[4] = Fields
  <2>1. PICK V : data \in Seq(V)
    BY <1>2
  <2>2. \A i \in 2..4 : SubSeq(data, 1, k - 1)[i] = data[i]
    BY <1>2, <2>1
  <2> QED
    BY <1>2, <2>2
<1>21. ASSUME NEW k \in 1..Len(m.data)
       PROVE  FieldRestored(fs[k], m.data[k], SubSeq(m.data, 1, k - 1)) /\ Size(StoreField(fs[k], m.data[k])) = ns[k]
  <2>1. k = 1 \/ k = 2 \/ k = 3 \/ k = 4 \/ k = 5 \/ k = 6 \/ k = 7
    BY <1>1, <1>2
  <2> DEFINE d == SubSeq(m.data, 1, k - 1)
  <2>2. k \in 5..7 => d[2] = Fields /\ d[3] = Fields /\ d[4] = Fields
    BY <1>1, <1>17
  <2> HIDE DEF d
  <2>3. CASE k = 1
    <3>1. fs[k] = One("str") /\ m.data[k] = s /\ ns[k] = 2 + len
      BY <1>1, <1>2, <1>3, <1>15, <2>3
    <3> QED
      BY <1>14, <3>1
  <2>4. CASE k = 2 \/ k = 3 \/ k = 4
    <3>1. fs[k] = Bits /\ m.data[k] = Fields /\ ns[k] = 62
      BY <1>1, <1>2, <1>3, <1>15, <2>4
    <3>2. FieldRestored(Bits, Fields, d) /\ Size(StoreField(Bits, Fields)) = 62
      BY BitsRestored
    <3> QED
      BY <3>1, <3>2 DEF d
  <2>5. CASE k = 5
    <3>1. fs[k] = Values("u32", 2) /\ m.data[k] = ident /\ ns[k] = 120 /\ d[2] = Fields
      BY <1>1, <1>2, <1>3, <1>15, <2>2, <2>5
    <3>2. FieldRestored(Values("u32", 2), ident, d) /\ Size(StoreField(Values("u32", 2), ident)) = 120
      BY <1>6, <3>1
    <3> QED
      BY <3>1, <3>2 DEF d
  <2>6. CASE k = 6
    <3>1. fs[k] = Values("u64", 3) /\ m.data[k] = ident /\ ns[k] = 240 /\ d[3] = Fields
      BY <1>1, <1>2, <1>3, <1>15, <2>2, <2>6
    <3>2. FieldRestored(Values("u64", 3), ident, d) /\ Size(StoreField(Values("u64", 3), ident)) = 240
      BY <1>7, <3>1
    <3> QED
      BY <3>1, <3>2 DEF d
  <2>7. CASE k = 7
    <3>1. fs[k] = Values("str", 4) /\ m.data[k] = strs /\ ns[k] = n /\ d[4] = Fields
      BY <1>1, <1>2, <1>3, <1>15, <2>2, <2>7
    <3>2. FieldRestored(Values("str", 4), strs, d) /\ Size(StoreField(Values("str", 4), strs)) = n
      BY <1>8, <3>1
    <3> QED
      BY <3>1, <3>2 DEF d
  <2> QED
    BY <2>1, <2>3, <2>4, <2>5, <2>6, <2>7
<1>22. CalcLen(m) = Total(ns) /\ Small(8 + Total(ns))
  <2>1. (2 + len) + 186 + 120 + 240 + n = total
    BY <1>4, <1>9
  <2>2. CalcLen(m) = U16(total)
    BY <1>13, <1>14, <2>1
  <2> HIDE DEF total
  <2> QED
    BY <1>12, <1>16, <2>2
<1> HIDE DEF total
<1>23. Sound(m)
  <2>1. PICK V : m.data \in Seq(V)
    BY <1>1, <1>2
  <2>2. Len(fs) = Len(m.data) /\ Len(ns) = Len(m.data) /\ ns \in Seq(Nat) /\ m.type \in MsgTypes
        /\ Stored[m.type] = fs
    BY <1>1, <1>2, <1>3, <1>15
  <2>3. Parts(m, V, fs, ns)
    BY <1>21, <1>22, <2>1, <2>2 DEF Parts
  <2> QED
    BY <2>3, SoundParts
<1> QED
  BY <1>23 DEF m

-----------------------------------------------------------------------------
(* The deltas of a symbol. *)

\* The values of the k-th delta.
PartOf(n, size, k) ==
  LET first == size * (k - 1)
      last == IF k < 1 THEN first ELSE IF size * k < n THEN size * k ELSE n
  IN [i \in 1..(IF last > first THEN last - first ELSE 0) |-> first + i]

\* A part of the values of a delta has at most as many as fit one message.
LEMMA PartHas ==
  ASSUME NEW n \in Nat, NEW size \in Nat, NEW k \in Int
  PROVE  PartOf(n, size, k) \in Seq(Stuff) /\ Len(PartOf(n, size, k)) <= size
<1> DEFINE first == size * (k - 1)
           last == IF k < 1 THEN first ELSE IF size * k < n THEN size * k ELSE n
           len == IF last > first THEN last - first ELSE 0
<1>1. size * k = first + size /\ first \in Int /\ size * k \in Int
  <2>1. \A x, y \in Int : x * y = x * (y - 1) + x /\ x * y \in Int
    OBVIOUS
  <2>2. k - 1 \in Int
    OBVIOUS
  <2> QED
    BY <2>1, <2>2
<1> DEFINE next == size * k
<1>2. next = first + size /\ next \in Int /\ first \in Int
      /\ last = (IF k < 1 THEN first ELSE IF next < n THEN next ELSE n)
  BY <1>1
<1>3. PartOf(n, size, k) = [i \in 1..len |-> first + i]
  BY DEF PartOf
<1> HIDE DEF first, last, next
<1>4. len \in Nat /\ len <= size
  <2>1. last \in Int /\ last <= first + size
    BY <1>2
  <2> QED
    BY <1>2, <2>1
<1> HIDE DEF len
<1>5. \A i \in 1..len : first + i \in Stuff
  <2>1. \A i \in 1..len : first + i \in Int
    BY <1>2, <1>4
  <2> QED
    BY <2>1, StuffHas
<1>6. [i \in 1..len |-> first + i] \in Seq(Stuff) /\ Len([i \in 1..len |-> first + i]) = len
  BY <1>4, <1>5
<1> QED
  BY <1>3, <1>4, <1>6

\* A message that is read as it was sent; if it carries reference data, it is one of M.
Clear(m, M) == IsMsg(m) /\ Sound(m) /\ (m.type = "md_refference" => m \in M)
Heard(s, M) == \E V : s \in Seq(V) /\ \A v \in V : Clear(v, M)

\* Messages that are given by a function can be heard if each of them can.
LEMMA HeardOf ==
  ASSUME NEW M, NEW n \in Nat, NEW s, s = [k \in 1..n |-> s[k]],
         \A k \in 1..n : Clear(s[k], M)
  PROVE  Heard(s, M)
<1> DEFINE V == {s[k] : k \in 1..n}
<1>1. s \in [1..n -> V]
  OBVIOUS
<1>2. \A v \in V : Clear(v, M)
  OBVIOUS
<1> HIDE DEF V
<1>3. s \in Seq(V)
  BY <1>1
<1> QED
  BY <1>2, <1>3 DEF Heard

\* So can two stretches of messages that can be heard, one after the other,
LEMMA HeardTwo ==
  ASSUME NEW M, NEW a, NEW b, Heard(a, M), Heard(b, M)
  PROVE  Heard(a \o b, M)
<1>1. PICK V, W : /\ a \in Seq(V) /\ \A v \in V : Clear(v, M)
                  /\ b \in Seq(W) /\ \A v \in W : Clear(v, M)
  BY DEF Heard
<1> DEFINE U == V \cup W
<1>2. a \in Seq(U) /\ b \in Seq(U)
  BY <1>1
<1>3. \A v \in U : Clear(v, M)
  BY <1>1
<1> HIDE DEF U
<1>4. a \o b \in Seq(U)
  BY <1>2, ConcatTwo
<1> QED
  BY <1>3, <1>4 DEF Heard

\* a single message,
LEMMA HeardOne ==
  ASSUME NEW M, NEW m, Clear(m, M)
  PROVE  Heard(<<m>>, M)
<1> DEFINE s == <<m>>
           V == {m}
<1>1. s \in Seq(V) /\ \A v \in V : Clear(v, M)
  OBVIOUS
<1> HIDE DEF s, V
<1>2. Heard(s, M)
  BY <1>1 DEF Heard
<1> QED
  BY <1>2 DEF s

\* no message at all,
LEMMA HeardNone ==
  ASSUME NEW M
  PROVE  Heard(<<>>, M)
<1> DEFINE s == <<>>
           V == {}
<1>1. s \in Seq(V) /\ \A v \in V : Clear(v, M)
  OBVIOUS
<1> HIDE DEF s, V
<1>2. Heard(s, M)
  BY <1>1 DEF Heard
<1> QED
  BY <1>2 DEF s

\* and any number of stretches.
LEMMA HeardConcat ==
  ASSUME NEW M, NEW ss, Len(ss) \in Nat, \A k \in 1..Len(ss) : Heard(ss[k], M)
  PROVE  Heard(Concat(ss), M)
<1> DEFINE V == {ss[p[1]][p[2]] : p \in {q \in (1..Len(ss)) \X Nat : q[2] \in 1..Len(ss[q[1]])}}
<1>1. ASSUME NEW k \in 1..Len(ss)
      PROVE  ss[k] \in Seq(V) /\ \A i \in 1..Len(ss[k]) : Clear(ss[k][i], M)
  <2>1. PICK W : ss[k] \in Seq(W) /\ \A v \in W : Clear(v, M)
    BY DEF Heard
  <2> DEFINE s == ss[k]
             n == Len(s)
  <2>2. n \in Nat /\ s = [i \in 1..n |-> s[i]] /\ \A i \in 1..n : s[i] \in W
    BY <2>1
  <2>3. \A i \in 1..n : s[i] \in V
    <3>1. SUFFICES ASSUME NEW i \in 1..n PROVE s[i] \in V
      OBVIOUS
    <3> DEFINE p == <<k, i>>
    <3>2. i \in Nat
      BY <2>2
    <3>3. p \in (1..Len(ss)) \X Nat /\ p[1] = k /\ p[2] = i
      BY <3>2
    <3> HIDE DEF p
    <3> QED
      BY <3>3
  <2> HIDE DEF V
  <2>4. s \in Seq(V)
    <3> HIDE DEF s
    <3>1. s \in [1..n -> V]
      BY <2>2, <2>3
    <3> QED
      BY <2>2, <3>1
  <2> QED
    BY <2>1, <2>2, <2>4
<1>2. \A v \in V : Clear(v, M)
  BY <1>1
<1> HIDE DEF V
<1>3. Concat(ss) \in Seq(V)
  BY <1>1, ConcatOf
<1> QED
  BY <1>2, <1>3 DEF Heard

\* A symbol that was read out of a request.
SymbolFits(s) == s \in Strs /\ s.len <= 2100

\* The deltas generated for a symbol are read back as they were sent.
LEMMA DeltasSound ==
  ASSUME NEW M, NEW s, SymbolFits(s), NEW num \in Nat, NEW dnum \in Nat
  PROVE  Heard(Deltas(s, num, dnum), M)
<1> DEFINE Flushes(n, size) == IF n = 0 THEN 0 ELSE (n - 1) \div size
           a == Flushes(num, INT_DELTA_SIZE)
           b == Flushes(dnum, DBL_DELTA_SIZE)
           N == a + b + 1
           d == Deltas(s, num, dnum)
<1>1. \A n \in Nat, size \in Nat \ {0} : Flushes(n, size) \in Nat
  OBVIOUS
<1>2. a \in Nat /\ b \in Nat
  <2> HIDE DEF Flushes
  <2> QED
    BY <1>1, RecordsAssumption
<1>3. d = [k \in 1..N |-> MdDeltaMsg(s, PartOf(num, INT_DELTA_SIZE, k), PartOf(dnum, DBL_DELTA_SIZE, k - a))]
  <2> DEFINE Part(n, size, k) ==
        LET first == size * (k - 1)
            last == IF k < 1 THEN first ELSE IF size * k < n THEN size * k ELSE n
        IN [i \in 1..(IF last > first THEN last - first ELSE 0) |-> first + i]
  <2>1. d = [k \in 1..N |-> MdDeltaMsg(s, Part(num, INT_DELTA_SIZE, k), Part(dnum, DBL_DELTA_SIZE, k - a))]
    BY Zenon DEF Deltas
  <2>2. \A n, size, k : Part(n, size, k) = PartOf(n, size, k)
    BY DEF PartOf
  <2> HIDE DEF d, N, Part, a
  <2> QED
    BY <2>1, <2>2
<1> HIDE DEF a, b, d
<1>4. N \in Nat /\ a \in Int
  BY <1>2
<1> HIDE DEF N
<1>5. d = [k \in 1..N |-> d[k]]
      /\ \A k \in 1..N : d[k] = MdDeltaMsg(s, PartOf(num, INT_DELTA_SIZE, k), PartOf(dnum, DBL_DELTA_SIZE, k - a))
  BY <1>3
<1>6. ASSUME NEW k \in 1..N
      PROVE  Clear(d[k], M)
  <2> DEFINE x == PartOf(num, INT_DELTA_SIZE, k)
             y == PartOf(dnum, DBL_DELTA_SIZE, k - a)
  <2>1. k \in Int /\ k - a \in Int /\ INT_DELTA_SIZE \in Nat /\ DBL_DELTA_SIZE \in Nat
    BY <1>4, RecordsAssumption
  <2>2. /\ x \in Seq(Stuff) /\ Len(x) <= INT_DELTA_SIZE
        /\ y \in Seq(Stuff) /\ Len(y) <= DBL_DELTA_SIZE
    <3>1. x \in Seq(Stuff) /\ Len(x) <= INT_DELTA_SIZE
      BY <2>1, PartHas
    <3> DEFINE j == k - a
    <3>2. j \in Int
      BY <2>1
    <3> HIDE DEF j
    <3>3. PartOf(dnum, DBL_DELTA_SIZE, j) \in Seq(Stuff) /\ Len(PartOf(dnum, DBL_DELTA_SIZE, j)) <= DBL_DELTA_SIZE
      BY <2>1, <3>2, PartHas
    <3> QED
      BY <3>1, <3>3 DEF j
  <2>3. d[k] = MdDeltaMsg(s, x, y)
    BY <1>5
  <2> HIDE DEF x, y
  <2>4. Sound(MdDeltaMsg(s, x, y))
    BY <2>2, MdDeltaSound DEF SymbolFits
  <2>5. IsMsg(MdDeltaMsg(s, x, y)) /\ MdDeltaMsg(s, x, y).type # "md_refference"
    BY DEF IsMsg, MdDeltaMsg
  <2> QED
    BY <2>3, <2>4, <2>5 DEF Clear
<1> QED
  BY <1>4, <1>5, <1>6, HeardOf DEF d

-----------------------------------------------------------------------------
(* What clients send. *)

\* What is typed is made of strings.
LEMMA StringsIn == \A p : p \in Seq(Strings) => p \in Seq(Strs)
<1>1. Strings \subseteq Strs
  <2> DEFINE Txts == STRING \cup Tags
  <2>1. STRING \subseteq Txts
    BY Zenon
  <2> HIDE DEF Txts
  <2>2. [txt : STRING, len : Nat, num : Int] \subseteq [txt : Txts, len : Nat, num : Int]
    BY <2>1
  <2> QED
    BY <2>2 DEF Strings, Strs, Txts
<1> QED
  BY <1>1

\* How long a request is.
LEMMA SubscribeSize ==
  ASSUME NEW p \in Seq(Strs)
  PROVE  /\ WireSize(SubscribeMsg(p)) = 18 + Total(Stretches(p)) /\ IsMsg(SubscribeMsg(p))
         /\ Total(Stretches(p)) \in Nat
<1> DEFINE m == SubscribeMsg(p)
           data == <<p>>
           fs == <<Vec("str")>>
           n == 2 + Total(Stretches(p))
           ns == <<n>>
<1>1. m.type = "subscribe" /\ m.data = data /\ Stored[m.type] = fs /\ IsMsg(m)
  BY DEF SubscribeMsg, Stored, IsMsg
<1>2. Len(data) = 1 /\ data[1] = p
  OBVIOUS
<1>3. fs[1] = Vec("str")
  OBVIOUS
<1>4. Total(Stretches(p)) \in Nat
  BY StrsSize
<1>5. ns \in Seq(Nat) /\ Len(ns) = 1 /\ ns[1] = n
  BY <1>4
<1>6. StoreField(Vec("str"), p) \in Archived /\ Size(StoreField(Vec("str"), p)) = n
  BY VecStrs
<1> HIDE DEF m, data, fs, n, ns
<1>7. Size(Payload(m)) = Total(ns)
  <2>1. Len(m.data) \in Nat /\ Len(ns) = Len(m.data) /\ ns \in Seq(Nat) /\ Stored[m.type] = fs
    BY <1>1, <1>2, <1>5
  <2>2. \A k \in 1..Len(m.data) : /\ StoreField(fs[k], m.data[k]) \in Archived
                                  /\ Size(StoreField(fs[k], m.data[k])) = ns[k]
    <3> TAKE k \in 1..Len(m.data)
    <3>1. k = 1
      BY <1>1, <1>2
    <3>2. fs[k] = Vec("str") /\ m.data[k] = p /\ ns[k] = n
      BY <1>1, <1>2, <1>3, <1>5, <3>1
    <3> QED
      BY <1>6, <3>2
  <2> QED
    BY <2>1, <2>2, SizeFrom
<1>8. Total(ns) = n
  BY <1>5, TotalFew
<1>9. WireSize(m) = 16 + n
  BY <1>7, <1>8, WireSizeIs
<1>10. WireSize(m) = 18 + Total(Stretches(p))
  BY <1>4, <1>9 DEF n
<1> QED
  BY <1>1, <1>4, <1>10 DEF m

\* The size of a command: its letter, the context and the parameters.
LEMMA CommandSize ==
  ASSUME NEW cmd \in Letters, NEW p \in Seq(Strs)
  PROVE  /\ WireSize(CommandMsg(cmd, p)) = 28 + Total(Stretches(p)) /\ IsMsg(CommandMsg(cmd, p))
         /\ Total(Stretches(p)) \in Nat
<1> DEFINE m == CommandMsg(cmd, p)
           data == <<cmd, Context, p>>
           fs == <<One("u8"), One("str"), Vec("str")>>
           n == 2 + Total(Stretches(p))
           ns == <<1, 9, n>>
<1>1. m.type = "command" /\ m.data = data /\ Stored[m.type] = fs /\ IsMsg(m)
  BY DEF CommandMsg, Stored, IsMsg
<1>2. Len(data) = 3 /\ data[1] = cmd /\ data[2] = Context /\ data[3] = p
  OBVIOUS
<1>3. fs[1] = One("u8") /\ fs[2] = One("str") /\ fs[3] = Vec("str")
  OBVIOUS
<1>4. Total(Stretches(p)) \in Nat
  BY StrsSize
<1>5. ns \in Seq(Nat) /\ Len(ns) = 3 /\ ns[1] = 1 /\ ns[2] = 9 /\ ns[3] = n
  BY <1>4
<1>6. StoreField(Vec("str"), p) \in Archived /\ Size(StoreField(Vec("str"), p)) = n
  BY VecStrs
<1>7. StoreField(One("u8"), cmd) \in Archived /\ Size(StoreField(One("u8"), cmd)) = 1
  <2>1. cmd \in Stuff
    BY StuffHas
  <2> QED
    BY <2>1, OneNum, NumWidths
<1>8. StoreField(One("str"), Context) \in Archived /\ Size(StoreField(One("str"), Context)) = 9
  <2>1. "context" \in Tags
    BY DEF Tags
  <2>2. Context \in Strs /\ Context.len = 7
    BY <2>1, StrIn DEF Context
  <2> QED
    BY <2>2, OneStr
<1> HIDE DEF m, data, fs, n, ns
<1>9. Size(Payload(m)) = Total(ns)
  <2>1. Len(m.data) \in Nat /\ Len(ns) = Len(m.data) /\ ns \in Seq(Nat) /\ Stored[m.type] = fs
    BY <1>1, <1>2, <1>5
  <2>2. \A k \in 1..Len(m.data) : /\ StoreField(fs[k], m.data[k]) \in Archived
                                  /\ Size(StoreField(fs[k], m.data[k])) = ns[k]
    <3> TAKE k \in 1..Len(m.data)
    <3>1. k = 1 \/ k = 2 \/ k = 3
      BY <1>1, <1>2
    <3>2. CASE k = 1
      <4>1. fs[k] = One("u8") /\ m.data[k] = cmd /\ ns[k] = 1
        BY <1>1, <1>2, <1>3, <1>5, <3>2
      <4> QED
        BY <1>7, <4>1
    <3>3. CASE k = 2
      <4>1. fs[k] = One("str") /\ m.data[k] = Context /\ ns[k] = 9
        BY <1>1, <1>2, <1>3, <1>5, <3>3
      <4> QED
        BY <1>8, <4>1
    <3>4. CASE k = 3
      <4>1. fs[k] = Vec("str") /\ m.data[k] = p /\ ns[k] = n
        BY <1>1, <1>2, <1>3, <1>5, <3>4
      <4> QED
        BY <1>6, <4>1
    <3> QED
      BY <3>1, <3>2, <3>3, <3>4
  <2> QED
    BY <2>1, <2>2, SizeFrom
<1>10. Total(ns) = 1 + 9 + n
  BY <1>5, TotalFew
<1>11. WireSize(m) = 16 + (1 + 9 + n)
  BY <1>9, <1>10, WireSizeIs
<1>12. WireSize(m) = 28 + Total(Stretches(p))
  BY <1>4, <1>11 DEF n
<1> QED
  BY <1>1, <1>4, <1>12 DEF m

\* Parameters of a request that fits the buffer.
ParamsFit(p) == p \in Seq(Strs) /\ Total(Stretches(p)) <= 2030

\* The parameters of a request that fits the buffer are short enough to be sent back.
LEMMA ParamsHave ==
  ASSUME NEW p, ParamsFit(p)
  PROVE  /\ p \in Seq(Strs) /\ Total(Stretches(p)) \in Nat /\ Total(Stretches(p)) <= 2030
         /\ \A k \in 1..Len(p) : p[k] \in Strs /\ p[k].len \in Nat /\ p[k].len <= 2028
         /\ \A k \in 1..Len(p) : SymbolFits(p[k])
<1>1. p \in Seq(Strs) /\ Total(Stretches(p)) \in Nat /\ Total(Stretches(p)) <= 2030
  BY StrsSize DEF ParamsFit
<1> DEFINE ns == Stretches(p)
<1>2. ns \in Seq(Nat) /\ Len(ns) = Len(p)
      /\ \A k \in 1..Len(p) : ns[k] = 2 + p[k].len /\ p[k].len \in Nat /\ p[k] \in Strs
  BY <1>1, StretchesHave
<1>3. \A k \in 1..Len(ns) : ns[k] <= Total(ns)
  <2> HIDE DEF ns
  <2>1. PICK g : Sums(ns, g)
    BY <1>2, SumsExist
  <2> QED
    BY <1>2, <2>1, SumsGrow
<1>4. Total(ns) \in Nat /\ Total(ns) <= 2030
  BY <1>1
<1> HIDE DEF ns
<1>5. ASSUME NEW k \in 1..Len(p)
      PROVE  p[k] \in Strs /\ p[k].len \in Nat /\ p[k].len <= 2028
  <2>1. ns[k] = 2 + p[k].len /\ p[k].len \in Nat /\ p[k] \in Strs /\ ns[k] <= Total(ns)
    BY <1>2, <1>3
  <2> QED
    BY <1>4, <2>1
<1>6. ASSUME NEW k \in 1..Len(p)
      PROVE  SymbolFits(p[k])
  <2>1. p[k] \in Strs /\ p[k].len \in Nat /\ p[k].len <= 2028
    BY <1>5
  <2> QED
    BY <2>1 DEF SymbolFits
<1> QED
  BY <1>1, <1>5, <1>6

\* A request is read as it was sent, or not at all.
LEMMA TypedFaithful ==
  ASSUME SizesAnnounced, NEW c \in Clients, NEW line \in Lines[c]
  PROVE  /\ Faithful(Request(line)) /\ IsMsg(Request(line))
         /\ Fits(Request(line)) => ParamsFit(line.params)
         /\ \/ line.cmd = "s" /\ Request(line) = SubscribeMsg(line.params)
            \/ line.cmd \in Letters \ {"s"} /\ Request(line) = CommandMsg(line.cmd, line.params)
<1> DEFINE m == Request(line)
           p == line.params
           t == Total(Stretches(p))
<1>1. line.cmd \in Letters /\ p \in Seq(Strs)
  <2>1. line.cmd \in Letters /\ line.params \in Seq(Strings)
    BY AdminAssumption
  <2> QED
    BY <2>1, StringsIn
<1>2. \/ line.cmd = "s" /\ m = SubscribeMsg(p)
      \/ line.cmd \in Letters \ {"s"} /\ m = CommandMsg(line.cmd, p)
  BY <1>1 DEF Request, SubscribeMsg, CommandMsg, Context
<1>3. IsMsg(m) /\ t \in Nat /\ (WireSize(m) = 18 + t \/ WireSize(m) = 28 + t)
  BY <1>1, <1>2, SubscribeSize, CommandSize
<1>4. WireSize(m) < 8 + 65536 \/ CutShort(m)
  BY DEF SizesAnnounced, HDR_LEN
<1> HIDE DEF t
<1>5. ASSUME WireSize(m) < 8 + 65536
      PROVE  Faithful(m)
  <2>1. line.cmd = "s" => Small(10 + t)
    <3>1. line.cmd = "s" => WireSize(m) = 18 + t
      BY <1>1, <1>2, SubscribeSize DEF t
    <3> QED
      BY <1>3, <1>5, <3>1 DEF Small
  <2>2. line.cmd # "s" => Small(20 + t)
    <3>1. line.cmd # "s" => WireSize(m) = 28 + t
      BY <1>1, <1>2, CommandSize DEF t
    <3> QED
      BY <1>3, <1>5, <3>1 DEF Small
  <2>3. Sound(m)
    BY <1>1, <1>2, <2>1, <2>2, SubscribeSound, CommandSound DEF t
  <2> QED
    BY <2>3, SoundFaithful
<1>6. ASSUME ~ (WireSize(m) < 8 + 65536)
      PROVE  Faithful(m)
  <2>1. ARCHIVE_BUFF_CAPACITY \in Nat /\ ARCHIVE_BUFF_CAPACITY <= 2048
    BY RecordsAssumption, SizesAssumption
  <2>2. WireSize(m) \in Nat
    BY <1>3
  <2>3. ~ Fits(m)
    BY <1>6, <2>1, <2>2 DEF Fits
  <2> QED
    BY <1>4, <1>6, <2>3 DEF Faithful
<1>7. ASSUME Fits(m)
      PROVE  ParamsFit(p)
  <2>1. WireSize(m) <= ARCHIVE_BUFF_CAPACITY /\ ARCHIVE_BUFF_CAPACITY \in Nat /\ ARCHIVE_BUFF_CAPACITY <= 2048
    BY <1>7, RecordsAssumption, SizesAssumption DEF Fits
  <2>2. t <= 2030
    BY <1>3, <2>1
  <2> QED
    BY <1>1, <2>2 DEF ParamsFit, t
<1>8. Faithful(m)
  BY <1>5, <1>6
<1> HIDE DEF m
<1> QED
  BY <1>2, <1>3, <1>7, <1>8 DEF m

\* A request is read as it was typed, or never passes for a record at all.
LEMMA RequestFaithful ==
  ASSUME SizesAnnounced, NEW c \in Clients, NEW m \in Requests(c)
  PROVE  Faithful(m) /\ IsMsg(m)
<1>1. Sound(LoginMsg) => Faithful(LoginMsg)
  BY SoundFaithful
<1>2. Faithful(LoginMsg) /\ IsMsg(LoginMsg)
  <2>1. IsMsg(LoginMsg)
    BY DEF LoginMsg, IsMsg
  <2> QED
    BY <1>1, <2>1, LoginSound
<1>3. ASSUME NEW line \in Lines[c]
      PROVE  Faithful(Request(line)) /\ IsMsg(Request(line))
  BY TypedFaithful
<1> QED
  BY <1>2, <1>3 DEF Requests

\* What is complete has been read as it was sent.
LEMMA CompleteRead ==
  ASSUME NEW m, Faithful(m), Complete(Archive(m))
  PROVE  Fits(m) /\ Load(Archive(m)).valid /\ Load(Archive(m)).data = m.data
<1>1. Fits(m)
  BY DEF Faithful, CutShort
<1>2. ReadsBack(m)
  BY <1>1 DEF Faithful
<1> QED
  BY <1>1, <1>2 DEF ReadsBack

\* A message with the data that was sent is that message.
LEMMA AsSent ==
  ASSUME NEW m, IsMsg(m)
  PROVE  [m EXCEPT !.data = m.data] = m
<1>1. PICK t, e : m = [type |-> t, data |-> e]
  BY DEF IsMsg
<1> QED
  BY <1>1

-----------------------------------------------------------------------------
(* The reference table. *)

Regenerating == INSTANCE FoldTheorems WITH op <- RegenerateOne

\* Tables, functions from symbols to rows.
IsTable(t) == t = [x \in DOMAIN t |-> t[x]]
NewRow(s) == [i \in Fields |-> s.len + 12 + (IF i < 10 THEN 1 ELSE 2)]
NextRow(r) == [i \in Fields |-> Regrown(r[i])]
Named(symbols) == {symbols[k] : k \in 1..Len(symbols)}

\* u is the table t with row v for s.
WithRow(u, t, s, v) ==
  /\ IsTable(u) /\ DOMAIN u = DOMAIN t \cup {s} /\ u[s] = v
  /\ \A x \in DOMAIN t : x # s => u[x] = t[x]

\* Putting a row into the table changes nothing else in it.
LEMMA PutHas ==
  ASSUME NEW t, NEW s, NEW v
  PROVE  WithRow(Put(t, s, v), t, s, v)
<1> DEFINE u == Put(t, s, v)
<1>1. u = [x \in DOMAIN t \cup {s} |-> IF x = s THEN v ELSE t[x]]
  BY DEF Put
<1> HIDE DEF u
<1>2. DOMAIN u = DOMAIN t \cup {s} /\ u = [x \in DOMAIN u |-> u[x]]
  BY <1>1
<1>3. u[s] = v /\ \A x \in DOMAIN t : x # s => u[x] = t[x]
  BY <1>1
<1>4. WithRow(u, t, s, v)
  BY <1>2, <1>3 DEF IsTable, WithRow
<1> QED
  BY <1>4 DEF u

\* One symbol.
LEMMA OneRegenerated ==
  ASSUME NEW t, NEW s
  PROVE  WithRow(RegenerateOne(t, s), t, s, IF s \in DOMAIN t THEN NextRow(t[s]) ELSE NewRow(s))
<1> DEFINE v == IF s \in DOMAIN t THEN NextRow(t[s]) ELSE NewRow(s)
<1>1. RegenerateOne(t, s) = Put(t, s, v)
  BY DEF RegenerateOne, NextRow, NewRow
<1> HIDE DEF v
<1>2. WithRow(RegenerateOne(t, s), t, s, v)
  BY <1>1, PutHas
<1> QED
  BY <1>2 DEF v

\* All symbols of a request.
LEMMA AllRegenerated ==
  ASSUME NEW t, IsTable(t), NEW symbols, Len(symbols) \in Nat,
         NEW R, \A r \in R : NextRow(r) \in R, \A x \in DOMAIN t : t[x] \in R,
         \A s \in Named(symbols) : NewRow(s) \in R
  PROVE  LET u == Regenerated(t, symbols)
         IN /\ IsTable(u) /\ DOMAIN u = DOMAIN t \cup Named(symbols)
            /\ \A x \in DOMAIN u : u[x] \in R
            /\ \A x \in DOMAIN t : x \notin Named(symbols) => u[x] = t[x]
<1> DEFINE n == Len(symbols)
           u == Regenerated(t, symbols)
<1>1. u = Regenerating!FoldOf(t, symbols)
  BY DEF Regenerated, Fold, Regenerating!FoldOf
<1>2. PICK g : Regenerating!Folds(g, t, symbols) /\ Regenerating!FoldOf(t, symbols) = g[n]
  BY Regenerating!FoldChain
<1>3. n \in Nat /\ g[0] = t /\ u = g[n] /\ \A k \in 1..n : g[k] = RegenerateOne(g[k - 1], symbols[k])
  BY <1>1, <1>2 DEF Regenerating!Folds
<1>4. \A k \in 1..n : symbols[k] \in Named(symbols)
  BY DEF Named
<1>5. \A s \in Named(symbols) : \E k \in 1..n : s = symbols[k]
  BY DEF Named
<1> HIDE DEF n, u
<1> DEFINE Kept(v) == /\ IsTable(v) /\ DOMAIN v \subseteq DOMAIN t \cup Named(symbols)
                      /\ DOMAIN t \subseteq DOMAIN v
                      /\ \A x \in DOMAIN v : v[x] \in R
                      /\ \A x \in DOMAIN t : x \notin Named(symbols) => v[x] = t[x]
           T == {k \in 0..n : Kept(g[k]) /\ \A j \in 1..k : symbols[j] \in DOMAIN g[k]}
<1>6. 0 \in T
  <2>1. 0 \in 0..n /\ Kept(g[0])
    BY <1>3
  <2>2. \A j \in 1..0 : symbols[j] \in DOMAIN g[0]
    OBVIOUS
  <2> HIDE DEF Kept
  <2> QED
    BY <2>1, <2>2
<1>7. ASSUME NEW k \in 1..n, k - 1 \in T
      PROVE  k \in T
  <2> DEFINE v == g[k - 1]
             s == symbols[k]
             w == g[k]
  <2>1. k \in 0..n /\ Kept(v) /\ (\A j \in 1..(k - 1) : symbols[j] \in DOMAIN v) /\ s \in Named(symbols)
        /\ w = RegenerateOne(v, s)
    BY <1>3, <1>4, <1>7
  <2> HIDE DEF v, w, s, Kept
  <2>2. /\ IsTable(w) /\ DOMAIN w = DOMAIN v \cup {s}
        /\ w[s] = (IF s \in DOMAIN v THEN NextRow(v[s]) ELSE NewRow(s))
        /\ \A x \in DOMAIN v : x # s => w[x] = v[x]
    <3>1. WithRow(w, v, s, IF s \in DOMAIN v THEN NextRow(v[s]) ELSE NewRow(s))
      BY <2>1, OneRegenerated
    <3> QED
      BY <3>1 DEF WithRow
  <2>3. w[s] \in R
    BY <2>1, <2>2 DEF Kept
  <2>4. Kept(w)
    BY <2>1, <2>2, <2>3 DEF Kept
  <2>5. \A j \in 1..k : symbols[j] \in DOMAIN w
    <3> TAKE j \in 1..k
    <3>1. CASE j = k
      BY <2>2, <3>1 DEF s
    <3>2. CASE j # k
      <4>1. j \in 1..(k - 1)
        BY <1>3, <3>2
      <4> QED
        BY <2>1, <2>2, <4>1
    <3> QED
      BY <3>1, <3>2
  <2> HIDE DEF Kept
  <2> QED
    BY <2>1, <2>4, <2>5 DEF w
<1> HIDE DEF T
<1>8. \A k \in 0..n : k \in T
  BY <1>3, <1>6, <1>7, Induction
<1>9. n \in T
  <2>1. n \in 0..n
    BY <1>3
  <2> QED
    BY <1>8, <2>1
<1>10. Kept(u) /\ \A j \in 1..n : symbols[j] \in DOMAIN u
  BY <1>3, <1>9 DEF T
<1>11. Named(symbols) \subseteq DOMAIN u
  BY <1>5, <1>10
<1>12. DOMAIN u = DOMAIN t \cup Named(symbols)
  BY <1>10, <1>11
<1> QED
  BY <1>10, <1>12 DEF u

\* The rows that are sent.
LEMMA RowsFit ==
  /\ \A r \in RowOf : NextRow(r) \in RowOf
  /\ \A s : SymbolFits(s) /\ s.len <= 2048 => NewRow(s) \in RowOf
<1>1. ASSUME NEW r \in RowOf
      PROVE  NextRow(r) \in RowOf
  <2>1. \A i \in Fields : r[i] \in Nat /\ 10 <= r[i]
    BY DEF RowOf
  <2>2. \A i \in Fields : Regrown(r[i]) \in Nat /\ 10 <= Regrown(r[i]) /\ Regrown(r[i]) <= 80
    BY <2>1 DEF Regrown
  <2>3. \A i \in Fields : Regrown(r[i]) <= LongestRow
    BY <2>2 DEF LongestRow
  <2> QED
    BY <2>2, <2>3 DEF RowOf, NextRow
<1>2. ASSUME NEW s, SymbolFits(s), s.len <= 2048
      PROVE  NewRow(s) \in RowOf
  <2> DEFINE new(i) == s.len + 12 + (IF i < 10 THEN 1 ELSE 2)
  <2>1. s.len \in Nat
    BY <1>2 DEF SymbolFits, Strs
  <2>2. \A i \in Fields : new(i) \in Nat /\ 10 <= new(i)
    BY <2>1
  <2>3. \A i \in Fields : new(i) <= LongestRow
    BY <1>2, <2>1 DEF LongestRow
  <2>4. NewRow(s) = [i \in Fields |-> new(i)]
    BY DEF NewRow
  <2> HIDE DEF new
  <2> QED
    BY <2>2, <2>3, <2>4 DEF RowOf
<1> QED
  BY <1>1, <1>2

-----------------------------------------------------------------------------
(* What the handlers send can be read. *)

\* Two messages, one after the other.
LEMMA TwoInARow == \A x, y : <<x>> \o <<y>> = <<x, y>>
<1> SUFFICES ASSUME NEW x, NEW y
             PROVE  <<x>> \o <<y>> = <<x, y>>
  OBVIOUS
<1> DEFINE V == {x, y}
<1>1. <<x>> \in Seq(V) /\ <<y>> \in Seq(V) /\ <<x, y>> \in Seq(V)
  OBVIOUS
<1> HIDE DEF V
<1> DEFINE a == <<x>>
           b == <<y>>
           z == <<x, y>>
<1>2. Len(a) = 1 /\ Len(b) = 1 /\ Len(z) = 2 /\ a[1] = x /\ b[1] = y /\ z[1] = x /\ z[2] = y
  OBVIOUS
<1> HIDE DEF a, b, z
<1>3. a \in Seq(V) /\ b \in Seq(V) /\ z \in Seq(V)
  BY <1>1 DEF a, b, z
<1> DEFINE j == a \o b
<1>4. j \in Seq(V) /\ Len(j) = Len(a) + Len(b)
  BY <1>3
<1>5. \A k \in 1..Len(j) : j[k] = IF k <= Len(a) THEN a[k] ELSE b[k - Len(a)]
  BY <1>3
<1> HIDE DEF j
<1>6. Len(j) = 2
  BY <1>2, <1>4
<1>7. j[1] = x /\ j[2] = y
  BY <1>2, <1>5, <1>6
<1>8. j = z
  BY <1>2, <1>3, <1>4, <1>6, <1>7
<1> QED
  BY <1>8 DEF a, b, z, j

\* The menu can be heard,
LEMMA MenuHeard ==
  ASSUME NEW M
  PROVE  Heard(<<MenuMsg>>, M) /\ IsMsg(MenuMsg)
<1>1. IsMsg(MenuMsg) /\ MenuMsg.type # "md_refference"
  BY DEF MenuMsg, IsMsg
<1> QED
  BY <1>1, MenuSound, HeardOne DEF Clear

\* so can the answer to the login,
LEMMA LoginHeard ==
  ASSUME NEW M
  PROVE  Heard(OnLoginMsg, M)
<1>1. IsMsg(LoginReplyMsg) /\ LoginReplyMsg.type # "md_refference"
  BY DEF LoginReplyMsg, IsMsg
<1>2. Heard(<<LoginReplyMsg>>, M)
  BY <1>1, LoginReplySound, HeardOne DEF Clear
<1>3. Heard(<<LoginReplyMsg>> \o <<MenuMsg>>, M)
  BY <1>2, MenuHeard, HeardTwo
<1>4. <<LoginReplyMsg>> \o <<MenuMsg>> = OnLoginMsg
  <2> DEFINE x == LoginReplyMsg
             y == MenuMsg
  <2> HIDE DEF x, y
  <2>1. <<x>> \o <<y>> = <<x, y>>
    BY TwoInARow
  <2> QED
    BY <2>1 DEF x, y, OnLoginMsg
<1> QED
  BY <1>3, <1>4

\* a text,
LEMMA TextHeard ==
  ASSUME NEW M, NEW s \in Strs, Small(10 + s.len)
  PROVE  Heard(<<TextMsg(s)>>, M)
<1>1. IsMsg(TextMsg(s)) /\ TextMsg(s).type # "md_refference"
  BY DEF TextMsg, IsMsg
<1> QED
  BY <1>1, TextSound, HeardOne DEF Clear

\* The two texts of a subscription.
LEMMA NoteHeard ==
  ASSUME NEW M, NEW tag \in Tags, NEW n \in Nat, Small(10 + n)
  PROVE  Heard(<<TextMsg(Str(tag, n))>>, M)
<1> DEFINE s == Str(tag, n)
<1>1. s \in Strs /\ s.len = n
  BY StrIn
<1> HIDE DEF s
<1>2. Small(10 + s.len)
  BY <1>1
<1>3. Heard(<<TextMsg(s)>>, M)
  BY <1>1, <1>2, TextHeard
<1> QED
  BY <1>3 DEF s

\* The messages of a snapshot.
Rows(t, p) == {MdRefMsg(t, s) : s \in Named(p)}

\* the snapshot of the subscribed symbols,
LEMMA SnapshotHeard ==
  ASSUME NEW p, ParamsFit(p), NEW t, \A s \in Named(p) : t[s] \in RowOf
  PROVE  Heard(Snapshot(t, p), Rows(t, p))
<1> DEFINE n == Len(p)
           snap == Snapshot(t, p)
<1>1. n \in Nat /\ \A k \in 1..n : SymbolFits(p[k]) /\ p[k] \in Named(p)
  BY ParamsHave DEF Named
<1>2. snap = [k \in 1..n |-> MdRefMsg(t, p[k])]
  BY DEF Snapshot
<1> HIDE DEF snap, n
<1>3. snap = [k \in 1..n |-> snap[k]] /\ \A k \in 1..n : snap[k] = MdRefMsg(t, p[k])
  BY <1>2
<1>4. ASSUME NEW k \in 1..n
      PROVE  Clear(snap[k], Rows(t, p))
  <2>1. snap[k] = MdRefMsg(t, p[k]) /\ SymbolFits(p[k]) /\ t[p[k]] \in RowOf
    BY <1>1, <1>3
  <2>2. \A s : SymbolFits(s) /\ t[s] \in RowOf => Sound(MdRefMsg(t, s))
    BY MdRefSound DEF SymbolFits
  <2>3. \A s : IsMsg(MdRefMsg(t, s))
    BY DEF IsMsg, MdRefMsg
  <2>4. snap[k] \in Rows(t, p)
    BY <1>1, <2>1 DEF Rows
  <2> QED
    BY <2>1, <2>2, <2>3, <2>4 DEF Clear
<1> QED
  BY <1>1, <1>3, <1>4, HeardOf DEF snap

\* the deltas of the subscribed symbols,
LEMMA DeltasHeard ==
  ASSUME NEW M, NEW p, ParamsFit(p)
  PROVE  Heard(Concat([k \in 1..Len(p) |-> Deltas(p[k], 20, 20)]), M)
<1> DEFINE n == Len(p)
           ss == [k \in 1..n |-> Deltas(p[k], 20, 20)]
<1>1. n \in Nat /\ \A k \in 1..n : SymbolFits(p[k])
  BY ParamsHave
<1> HIDE DEF n
<1>2. Len(ss) = n /\ \A k \in 1..n : ss[k] = Deltas(p[k], 20, 20)
  BY <1>1
<1>3. \A k \in 1..n : Heard(ss[k], M)
  BY <1>1, <1>2, DeltasSound
<1> HIDE DEF ss
<1>4. Heard(Concat(ss), M)
  BY <1>1, <1>2, <1>3, HeardConcat
<1> QED
  BY <1>4 DEF ss, n

\* What is sent first stays first.
LEMMA HeardFirst ==
  ASSUME NEW M, NEW a, NEW b, Heard(a, M), Heard(b, M), NEW k \in 1..Len(a)
  PROVE  k \in 1..Len(a \o b) /\ (a \o b)[k] = a[k]
<1>1. PICK V, W : a \in Seq(V) /\ b \in Seq(W)
  BY DEF Heard
<1> DEFINE U == V \cup W
<1>2. a \in Seq(U) /\ b \in Seq(U)
  BY <1>1
<1> HIDE DEF U
<1> QED
  BY <1>2

\* all that a subscription is answered with, every subscribed row of the table among it,
LEMMA SubscribeHeard ==
  ASSUME NEW p, ParamsFit(p), NEW t, \A s \in Named(p) : t[s] \in RowOf
  PROVE  LET sent == OnSubscribeMsg(p, t)
         IN /\ Heard(sent, Rows(t, p))
            /\ \A k \in 1..Len(p) : k \in 1..Len(sent) /\ sent[k] = MdRefMsg(t, p[k])
<1> DEFINE M == Rows(t, p)
           snap == Snapshot(t, p)
           sent == <<TextMsg(Str("Snapshot sent", 13))>>
           deltas == Concat([k \in 1..Len(p) |-> Deltas(p[k], 20, 20)])
           note == <<TextMsg(Str("Delta sent", 10))>>
           ends == <<TextMsg(Str("Delta sent", 10)), MenuMsg>>
<1>0. \A Q : Heard(deltas, Q)
  BY DeltasHeard
<1>1. Heard(snap, M) /\ Heard(deltas, M)
  BY <1>0, SnapshotHeard
<1> DEFINE all == OnSubscribeMsg(p, t)
           First(s) == \A k \in 1..Len(p) : k \in 1..Len(s) /\ s[k] = MdRefMsg(t, p[k])
<1> SUFFICES Heard(all, M) /\ First(all)
  OBVIOUS
<1>2a. First(snap)
  BY ParamsHave DEF Snapshot
<1> HIDE DEF M
<1>2. "Snapshot sent" \in Tags /\ "Delta sent" \in Tags
  BY DEF Tags
<1>3. Heard(sent, M) /\ Heard(note, M)
  <2>1. Small(10 + 13) /\ Small(10 + 10) /\ 13 \in Nat /\ 10 \in Nat
    BY DEF Small
  <2>2. Heard(sent, M)
    BY <1>2, <2>1, NoteHeard, Zenon
  <2>3. Heard(note, M)
    BY <1>2, <2>1, NoteHeard, Zenon
  <2> QED
    BY <2>2, <2>3
<1>4. Heard(ends, M)
  <2>1. ends = note \o <<MenuMsg>>
    <3> DEFINE x == TextMsg(Str("Delta sent", 10))
               y == MenuMsg
    <3> HIDE DEF x, y
    <3>1. <<x, y>> = <<x>> \o <<y>>
      BY TwoInARow
    <3> QED
      BY <3>1 DEF x, y
  <2>2. Heard(<<MenuMsg>>, M)
    BY MenuHeard
  <2> HIDE DEF note, sent, ends
  <2>3. Heard(note \o <<MenuMsg>>, M)
    BY <1>3, <2>2, HeardTwo
  <2> QED
    BY <2>1, <2>3
<1>5. CASE p = <<>>
  <2>1. all = <<MenuMsg>>
    BY <1>5 DEF OnSubscribeMsg
  <2>2. ~ \E k \in 1..Len(p) : TRUE
    BY <1>5
  <2> HIDE DEF all
  <2> QED
    BY <2>1, <2>2, MenuHeard
<1>6. CASE p # <<>>
  <2>1. all = snap \o sent \o deltas \o ends
    BY <1>6, Zenon DEF OnSubscribeMsg
  <2> HIDE DEF snap, sent, deltas, ends, all
  <2>2. Heard(snap \o sent, M)
    BY <1>1, <1>3, HeardTwo
  <2>3. Heard(snap \o sent \o deltas, M)
    BY <1>1, <2>2, HeardTwo
  <2>4. Heard(all, M)
    BY <1>4, <2>1, <2>3, HeardTwo
  <2>5. ASSUME NEW a, NEW b, Heard(a, M), Heard(b, M), First(a)
        PROVE  First(a \o b)
    BY <2>5, HeardFirst
  <2> HIDE DEF First
  <2>6. First(snap \o sent)
    BY <1>1, <1>2a, <1>3, <2>5
  <2>7. First(snap \o sent \o deltas)
    BY <1>1, <2>2, <2>5, <2>6
  <2>8. First(all)
    BY <1>4, <2>1, <2>3, <2>5, <2>7
  <2> QED
    BY <2>4, <2>8
<1> QED
  BY <1>5, <1>6

\* the updates that were asked for,
LEMMA UpdatesHeard ==
  ASSUME NEW M, NEW p, ParamsFit(p), p # <<>>
  PROVE  Heard(Updates(p), M)
<1> DEFINE num == IF p[1].num = 0 THEN 1 ELSE U16(p[1].num)
           dtype == IF Len(p) > 1 /\ p[2].len > 0 THEN p[2].txt ELSE "i"
           TEST == Str("TEST", 4)
<1>1. num \in Nat
  <2>1. p[1] \in Strs
    BY ParamsHave
  <2>2. p[1].num \in Int
    BY <2>1 DEF Strs
  <2> QED
    BY <2>2 DEF U16
<1>2. SymbolFits(TEST)
  <2>1. "TEST" \in Tags
    BY DEF Tags
  <2>2. TEST \in Strs /\ TEST.len = 4
    BY <2>1, StrIn
  <2> QED
    BY <2>2 DEF SymbolFits
<1>3. \/ Updates(p) = Deltas(TEST, num, 0)
      \/ Updates(p) = Deltas(TEST, 0, num)
      \/ Updates(p) = Deltas(TEST, 0, 0)
      \/ Updates(p) = <<>>
  <2>1. Updates(p) = CASE dtype = "i" -> Deltas(TEST, num, 0)
                       [] dtype = "l" -> Deltas(TEST, 0, num)
                       [] dtype = "s" -> Deltas(TEST, 0, 0)
                       [] OTHER -> <<>>
    BY DEF Updates
  <2> HIDE DEF dtype, num, TEST
  <2> QED
    BY <2>1, Zenon
<1> HIDE DEF num, TEST
<1> QED
  BY <1>1, <1>2, <1>3, HeardNone, DeltasSound

\* the parameters sent back as a text,
LEMMA JoinHeard ==
  ASSUME NEW M, NEW p, ParamsFit(p)
  PROVE  Heard(<<TextMsg(Join(p))>>, M)
<1>1. CASE p = <<>>
  <2>1. "" \in Tags
    BY DEF Tags
  <2>2. Join(p) = Str("", 0)
    BY <1>1 DEF Join
  <2>3. Small(10 + 0) /\ 0 \in Nat
    BY DEF Small
  <2>4. Heard(<<TextMsg(Str("", 0))>>, M)
    BY <2>1, <2>3, NoteHeard, Zenon
  <2> QED
    BY <2>2, <2>4, Zenon
<1>2. CASE p # <<>>
  <2> DEFINE l == Total([k \in 1..Len(p) |-> p[k].len])
             n == Len(p)
             len == l + n - 1
             s == Str("joined", len)
  <2>1. p \in Seq(Strs) /\ Total(Stretches(p)) \in Nat /\ Total(Stretches(p)) <= 2030
    BY ParamsHave
  <2>2. l + 2 * n = Total(Stretches(p)) /\ l \in Nat
    BY <2>1, JoinedLen
  <2>3. n \in Nat /\ n # 0
    BY <1>2, <2>1
  <2> HIDE DEF l, n
  <2>4. len \in Nat /\ len <= 2030
    BY <2>1, <2>2, <2>3
  <2>5. Join(p) = s
    BY <1>2 DEF Join, l, n
  <2> HIDE DEF len
  <2>6. "joined" \in Tags
    BY DEF Tags
  <2>7. s \in Strs /\ s.len = len
    BY <2>4, <2>6, StrIn
  <2>8. Small(10 + len)
    BY <2>4 DEF Small
  <2> HIDE DEF s
  <2> QED
    BY <2>5, <2>7, <2>8, TextHeard
<1> QED
  BY <1>1, <1>2

\* a vector,
LEMMA VecHeard ==
  ASSUME NEW M, NEW p, ParamsFit(p), p # <<>>, NEW t \in {"intvec", "bytevec", "doublevec"}
  PROVE  Heard(<<VecMsg(t, Context, p[1].num)>>, M)
<1>1. p[1] \in Strs
  BY ParamsHave
<1> DEFINE num == p[1].num
<1>2. num \in Int
  BY <1>1 DEF Strs
<1> HIDE DEF num
<1>3. Sound(VecMsg(t, Context, num))
  BY <1>2, VecSound
<1>4. IsMsg(VecMsg(t, Context, num)) /\ VecMsg(t, Context, num).type # "md_refference"
  BY DEF VecMsg, IsMsg
<1>5. Heard(<<VecMsg(t, Context, num)>>, M)
  BY <1>3, <1>4, HeardOne DEF Clear
<1> QED
  BY <1>5 DEF num

\* and so all that any command is answered with.
LEMMA CommandHeard ==
  ASSUME NEW M, NEW cmd \in Letters \ {"s"}, NEW p, ParamsFit(p)
  PROVE  Heard(OnCommandMsg(cmd, Context, p), M)
<1>1. \E q : Heard(q, M) /\ OnCommandMsg(cmd, Context, p) = q \o <<MenuMsg>>
  <2>1. CASE cmd = "t"
    <3>1. OnCommandMsg(cmd, Context, p) = <<TextMsg(Join(p))>> \o <<MenuMsg>>
      BY <2>1, Zenon DEF OnCommandMsg
    <3> QED
      BY <3>1, JoinHeard, Zenon
  <2>2. CASE cmd # "t" /\ p = <<>>
    <3>1. OnCommandMsg(cmd, Context, p) = <<>> \o <<MenuMsg>>
      BY <2>2, Zenon DEF OnCommandMsg
    <3> QED
      BY <3>1, HeardNone, Zenon
  <2>3. CASE cmd = "u" /\ p # <<>>
    <3>1. OnCommandMsg(cmd, Context, p) = Updates(p) \o <<MenuMsg>>
      BY <2>3, Zenon DEF OnCommandMsg
    <3> QED
      BY <2>3, <3>1, UpdatesHeard, Zenon
  <2>4. CASE cmd = "n" /\ p # <<>>
    <3>1. OnCommandMsg(cmd, Context, p) = <<VecMsg("intvec", Context, p[1].num)>> \o <<MenuMsg>>
      BY <2>4, Zenon DEF OnCommandMsg
    <3> QED
      BY <2>4, <3>1, VecHeard, Zenon
  <2>5. CASE cmd = "b" /\ p # <<>>
    <3>1. OnCommandMsg(cmd, Context, p) = <<VecMsg("bytevec", Context, p[1].num)>> \o <<MenuMsg>>
      BY <2>5, Zenon DEF OnCommandMsg
    <3> QED
      BY <2>5, <3>1, VecHeard, Zenon
  <2>6. CASE cmd = "l" /\ p # <<>>
    <3>1. OnCommandMsg(cmd, Context, p) = <<VecMsg("doublevec", Context, p[1].num)>> \o <<MenuMsg>>
      BY <2>6, Zenon DEF OnCommandMsg
    <3> QED
      BY <2>6, <3>1, VecHeard, Zenon
  <2>7. cmd \in {"t", "u", "n", "b", "l"}
    BY DEF Letters
  <2> QED
    BY <2>1, <2>2, <2>3, <2>4, <2>5, <2>6, <2>7
<1> QED
  BY <1>1, MenuHeard, HeardTwo

-----------------------------------------------------------------------------
(* The server's half of the conversation. *)

\* What the server makes of a request it reads: an answer with no reference data in it, or
\* the table regenerated and sent.
LEMMA RequestHandled ==
  ASSUME SizesAnnounced, RequestsTyped, NEW c \in Clients, ServerReads(c)
  PROVE  /\ slot' = slot
         /\ \/ /\ snapshot_' = snapshot_
               /\ \E msgs : (\A M : Heard(msgs, M)) /\ Answer(c, msgs)
            \/ \E line \in Lines[c] :
                 /\ line.cmd = "s" /\ ParamsFit(line.params)
                 /\ snapshot_' = Regenerated(snapshot_, line.params)
                 /\ Answer(c, OnSubscribeMsg(line.params, snapshot_'))
<1> DEFINE m == Head(toServer[c])
           a == Archive(m)
           r == Load(a)
           w == [m EXCEPT !.data = r.data]
           Goal == /\ slot' = slot
                   /\ \/ /\ snapshot_' = snapshot_
                         /\ \E msgs : (\A M : Heard(msgs, M)) /\ Answer(c, msgs)
                      \/ \E line \in Lines[c] :
                           /\ line.cmd = "s" /\ ParamsFit(line.params)
                           /\ snapshot_' = Regenerated(snapshot_, line.params)
                           /\ Answer(c, OnSubscribeMsg(line.params, snapshot_'))
<1>1. toServer[c] # <<>> /\ Complete(a) /\ (IF r.valid THEN Handle(c, w) ELSE ReadFails(c))
  BY Zenon DEF ServerReads, CallbackOf
<1>2. m \in Requests(c)
  BY <1>1, HeadTailProperties DEF RequestsTyped
<1> SUFFICES Goal
  OBVIOUS
<1> HIDE DEF m
<1>3. Faithful(m) /\ IsMsg(m)
  BY <1>2, RequestFaithful
<1>4. Fits(m) /\ r.valid /\ r.data = m.data
  BY <1>1, <1>3, CompleteRead
<1>5. w = m
  <2>1. [m EXCEPT !.data = m.data] = m
    BY <1>3, AsSent
  <2> HIDE DEF r
  <2> QED
    BY <1>4, <2>1
<1>6. Handle(c, m)
  <2> HIDE DEF w
  <2>1. Handle(c, w)
    BY <1>1, <1>4, Zenon
  <2> QED
    BY <1>5, <2>1, Zenon
<1> HIDE DEF a, r, w
<1>7. CASE m = LoginMsg
  <2>1. m.type = "login"
    BY <1>7 DEF LoginMsg
  <2>2. Answer(c, OnLoginMsg) /\ UNCHANGED <<slot, snapshot_>>
    BY <1>6, <2>1, Zenon DEF Handle
  <2>3. \A M : Heard(OnLoginMsg, M)
    BY LoginHeard
  <2> QED
    BY <2>2, <2>3, Zenon
<1>8. ASSUME NEW line \in Lines[c], m = Request(line)
      PROVE  Goal
  <2> DEFINE p == line.params
             x == line.cmd
  <2>1. /\ ParamsFit(p)
        /\ \/ x = "s" /\ m = SubscribeMsg(p)
           \/ x \in Letters \ {"s"} /\ m = CommandMsg(x, p)
    BY <1>4, <1>8, TypedFaithful
  <2>2. CASE x = "s" /\ m = SubscribeMsg(p)
    <3>1. m.type = "subscribe" /\ m.data[1] = p
      <4> HIDE DEF p
      <4> QED
        BY <2>2 DEF SubscribeMsg
    <3>2. /\ snapshot_' = Regenerated(snapshot_, m.data[1])
          /\ Answer(c, OnSubscribeMsg(m.data[1], snapshot_')) /\ UNCHANGED slot
      BY <1>6, <3>1, Zenon DEF Handle
    <3>3. /\ snapshot_' = Regenerated(snapshot_, p)
          /\ Answer(c, OnSubscribeMsg(p, snapshot_')) /\ slot' = slot
      BY <3>1, <3>2, Zenon
    <3> QED
      BY <2>1, <2>2, <3>3
  <2>3. CASE x \in Letters \ {"s"} /\ m = CommandMsg(x, p)
    <3>1. m.type = "command" /\ m.data[1] = x /\ m.data[2] = Context /\ m.data[3] = p
      <4> HIDE DEF p, x
      <4> QED
        BY <2>3 DEF CommandMsg
    <3>2. Answer(c, OnCommandMsg(m.data[1], m.data[2], m.data[3])) /\ UNCHANGED <<slot, snapshot_>>
      BY <1>6, <3>1, Zenon DEF Handle
    <3> HIDE DEF p, x
    <3>3. Answer(c, OnCommandMsg(x, Context, p)) /\ slot' = slot /\ snapshot_' = snapshot_
      BY <3>1, <3>2, Zenon
    <3>4. \A M : Heard(OnCommandMsg(x, Context, p), M)
      BY <2>1, <2>3, CommandHeard
    <3> QED
      BY <3>3, <3>4, Zenon
  <2> QED
    BY <2>1, <2>2, <2>3
<1> QED
  BY <1>2, <1>7, <1>8 DEF Requests

\* The rows of the reference table are of R.
RowsIn(R) == IsTable(snapshot_) /\ \A s \in DOMAIN snapshot_ : snapshot_[s] \in R

\* R has what is put into the table.
Rowful(R) ==
  /\ \A r \in R : NextRow(r) \in R
  /\ \A c \in Clients : \A line \in Lines[c] :
       line.cmd = "s" /\ ParamsFit(line.params) => \A s \in Named(line.params) : NewRow(s) \in R

\* The empty table has no rows that could be wrong.
LEMMA NoTable ==
  ASSUME snapshot_ = <<>>
  PROVE  \A R : RowsIn(R)
<1>1. IsTable(<<>>) /\ DOMAIN <<>> = {}
  BY DEF IsTable
<1> QED
  BY <1>1 DEF RowsIn

\* A subscription regenerates the rows it names, and leaves the others alone.
LEMMA TableSubscribed ==
  ASSUME NEW R, Rowful(R), RowsIn(R), NEW c \in Clients, NEW line \in Lines[c],
         line.cmd = "s", ParamsFit(line.params),
         snapshot_' = Regenerated(snapshot_, line.params)
  PROVE  /\ RowsIn(R)' /\ DOMAIN snapshot_' = DOMAIN snapshot_ \cup Named(line.params)
         /\ \A x \in DOMAIN snapshot_ : x \notin Named(line.params) => snapshot_'[x] = snapshot_[x]
<1> DEFINE p == line.params
           u == Regenerated(snapshot_, p)
<1>1. \A r \in R : NextRow(r) \in R
  BY DEF Rowful
<1>2. \A s \in Named(p) : NewRow(s) \in R
  BY DEF Rowful
<1>3. IsTable(snapshot_) /\ \A x \in DOMAIN snapshot_ : snapshot_[x] \in R
  BY DEF RowsIn
<1>4. Len(p) \in Nat
  BY ParamsHave
<1> HIDE DEF p
<1>5. /\ IsTable(u) /\ DOMAIN u = DOMAIN snapshot_ \cup Named(p)
      /\ \A x \in DOMAIN u : u[x] \in R
      /\ \A x \in DOMAIN snapshot_ : x \notin Named(p) => u[x] = snapshot_[x]
  BY <1>1, <1>2, <1>3, <1>4, AllRegenerated
<1>6. snapshot_' = u
  BY DEF p
<1> HIDE DEF u
<1>7. RowsIn(R)'
  BY <1>5, <1>6 DEF RowsIn
<1> QED
  BY <1>5, <1>6, <1>7 DEF p

\* A step that touches the table is of the server.
LEMMA TableStep ==
  ASSUME SizesAnnounced, RequestsTyped, NEW R, Rowful(R), RowsIn(R), [Next]_vars
  PROVE  RowsIn(R)'
<1>1. ASSUME snapshot_' = snapshot_
      PROVE  RowsIn(R)'
  BY <1>1 DEF RowsIn
<1>2. ASSUME NEW c \in Clients, ServerReads(c)
      PROVE  RowsIn(R)'
  <2>1. CASE snapshot_' = snapshot_
    BY <1>1, <2>1
  <2>2. ASSUME NEW line \in Lines[c], line.cmd = "s", ParamsFit(line.params),
               snapshot_' = Regenerated(snapshot_, line.params)
        PROVE  RowsIn(R)'
    BY <2>2, TableSubscribed
  <2> QED
    BY <1>2, <2>1, <2>2, RequestHandled
<1>3. ASSUME snapshot_' = <<>>
      PROVE  RowsIn(R)'
  <2>1. IsTable(<<>>) /\ DOMAIN <<>> = {}
    BY DEF IsTable
  <2> QED
    BY <1>3, <2>1 DEF RowsIn
<1>4. CASE UNCHANGED vars
  BY <1>1, <1>4 DEF vars
<1>5. ASSUME NEW c \in Clients,
             \/ Connect(c) \/ \E line \in Lines[c] : Type(c, line)
             \/ ClientReads(c) \/ ClientEvent(c) \/ Leave(c) \/ Relaunch(c)
             \/ Dangling(c) \/ ServerOverruns(c)
      PROVE  snapshot_' = snapshot_
  BY <1>5 DEF Connect, Type, ClientReads, ClientEvent, Leave, Relaunch, Dangling, ServerOverruns, server
<1>6. ASSUME NEW c \in Clients, Accept(c) \/ ServerEvent(c)
      PROVE  snapshot_' = <<>>
  BY <1>6 DEF Accept, ServerEvent
<1> QED
  BY <1>1, <1>2, <1>3, <1>4, <1>5, <1>6 DEF Next

-----------------------------------------------------------------------------
(* Whole or cut short. *)

\* What is left of a wire when its first message is read.
LEMMA HeardTail ==
  ASSUME NEW M, NEW s, Heard(s, M), s # <<>>
  PROVE  /\ Heard(Tail(s), M) /\ Clear(Head(s), M) /\ Len(s) \in Nat \ {0} /\ Head(s) = s[1]
         /\ Len(Tail(s)) = Len(s) - 1 /\ \A k \in 1..Len(Tail(s)) : Tail(s)[k] = s[k + 1]
<1>1. PICK V : s \in Seq(V) /\ \A v \in V : Clear(v, M)
  BY DEF Heard
<1> DEFINE t == Tail(s)
           n == Len(s)
<1>2. /\ t \in Seq(V) /\ n \in Nat \ {0} /\ Len(t) = n - 1
      /\ \A k \in 1..(n - 1) : t[k] = s[k + 1]
      /\ Head(s) = s[1] /\ s[1] \in V
  BY <1>1
<1> HIDE DEF t, n
<1>3. Heard(t, M) /\ Clear(Head(s), M)
  BY <1>1, <1>2 DEF Heard
<1>4. \A k \in 1..Len(t) : t[k] = s[k + 1]
  BY <1>2
<1> QED
  BY <1>2, <1>3, <1>4 DEF t, n

\* The first messages of a handler.
LEMMA HeardPart ==
  ASSUME NEW M, NEW s, Heard(s, M), NEW n \in 0..Len(s)
  PROVE  /\ Heard(SubSeq(s, 1, n), M) /\ Len(s) \in Nat
         /\ n = Len(s) => SubSeq(s, 1, n) = s
<1>1. PICK V : s \in Seq(V) /\ \A v \in V : Clear(v, M)
  BY DEF Heard
<1> DEFINE t == SubSeq(s, 1, n)
<1>2. t \in Seq(V) /\ Len(t) = n /\ (\A i \in 1..n : t[i] = s[i]) /\ Len(s) \in Nat
  BY <1>1
<1>3. n = Len(s) => t = s
  BY <1>1, <1>2
<1> HIDE DEF t
<1>4. Heard(t, M)
  BY <1>1, <1>2 DEF Heard
<1> QED
  BY <1>2, <1>3, <1>4 DEF t

\* What can be heard with few rows allowed can be heard with more.
LEMMA HeardMore ==
  ASSUME NEW M, NEW N, NEW s, Heard(s, M), M \subseteq N
  PROVE  Heard(s, N)
<1>1. PICK V : s \in Seq(V) /\ \A v \in V : Clear(v, M)
  BY DEF Heard
<1>2. \A v \in V : Clear(v, N)
  BY <1>1 DEF Clear
<1> QED
  BY <1>1, <1>2 DEF Heard

\* What is on its way to the clients can be read.
Told == \A c \in Clients : \E M : Heard(toClient[c], M)

\* A row is short enough for the message it is sent in.
LEMMA RowfulRowOf == Rowful(RowOf)
<1>1. ASSUME NEW c \in Clients, NEW line \in Lines[c], ParamsFit(line.params),
             NEW s \in Named(line.params)
      PROVE  NewRow(s) \in RowOf
  <2> DEFINE p == line.params
  <2>1. PICK k \in 1..Len(p) : s = p[k]
    BY DEF Named
  <2>2. SymbolFits(p[k]) /\ p[k].len \in Nat /\ p[k].len <= 2028
    BY <1>1, ParamsHave
  <2> HIDE DEF p
  <2>3. SymbolFits(s) /\ s.len <= 2048
    BY <2>1, <2>2
  <2> QED
    BY <2>3, RowsFit
<1> QED
  BY <1>1, RowsFit DEF Rowful

\* An answer that can be heard leaves all that is on its way so.
LEMMA AnswerTold ==
  ASSUME Told, Shape, NEW c \in Clients, NEW msgs, NEW M, Heard(msgs, M), Answer(c, msgs)
  PROVE  Told'
<1> DEFINE s == toClient[c]
<1>1. PICK n \in 0..Len(msgs) :
        toClient' = [toClient EXCEPT ![c] = IF client[c] = "gone" THEN <<>> ELSE s \o SubSeq(msgs, 1, n)]
  BY DEF Answer
<1> DEFINE t == SubSeq(msgs, 1, n)
           u == IF client[c] = "gone" THEN <<>> ELSE s \o t
<1>2. Heard(t, M)
  BY HeardPart
<1>3. PICK N : Heard(s, N)
  BY DEF Told
<1> HIDE DEF s, t
<1>4. Heard(u, M \cup N)
  <2>1. Heard(s, M \cup N) /\ Heard(t, M \cup N) /\ Heard(<<>>, M \cup N)
    BY <1>2, <1>3, HeardMore, HeardNone
  <2>2. Heard(s \o t, M \cup N)
    BY <2>1, HeardTwo
  <2> QED
    BY <2>1, <2>2
<1>5. toClient' = [toClient EXCEPT ![c] = u]
  BY <1>1 DEF s, t
<1> HIDE DEF u
<1>6. ASSUME NEW d \in Clients
      PROVE  \E Q : Heard(toClient'[d], Q)
  <2>1. d = c => toClient'[d] = u
    BY <1>5 DEF Shape
  <2>2. d # c => toClient'[d] = toClient[d]
    BY <1>5 DEF Shape
  <2> QED
    BY <1>4, <2>1, <2>2 DEF Told
<1> QED
  BY <1>6 DEF Told

\* No step puts a message on its way that cannot be heard.
LEMMA ToldStep ==
  ASSUME SizesAnnounced, WireType, Turns, Told, RowsIn(RowOf), [Next]_vars
  PROVE  Told'
<1>1. ASSUME toClient' = toClient
      PROVE  Told'
  BY <1>1 DEF Told
<1>2. ASSUME NEW c \in Clients, NEW s, NEW M, Heard(s, M), toClient' = [toClient EXCEPT ![c] = s]
      PROVE  Told'
  <2>1. ASSUME NEW d \in Clients
        PROVE  \E Q : Heard(toClient'[d], Q)
    <3>1. d = c => toClient'[d] = s
      BY <1>2 DEF Turns, Shape
    <3>2. d # c => toClient'[d] = toClient[d]
      BY <1>2 DEF Turns, Shape
    <3> QED
      BY <1>2, <3>1, <3>2 DEF Told
  <2> QED
    BY <2>1 DEF Told
<1>3. ASSUME NEW c \in Clients, toClient' = [toClient EXCEPT ![c] = <<>>]
      PROVE  Told'
  <2>1. \A M : Heard(<<>>, M)
    BY HeardNone
  <2> QED
    BY <1>2, <1>3, <2>1
<1>4. ASSUME NEW c \in Clients, toClient[c] # <<>>, toClient' = [toClient EXCEPT ![c] = Tail(@)]
      PROVE  Told'
  <2> DEFINE s == Tail(toClient[c])
  <2>1. PICK M : Heard(toClient[c], M)
    BY DEF Told
  <2>2. Heard(s, M)
    BY <1>4, <2>1, HeardTail
  <2>3. toClient' = [toClient EXCEPT ![c] = s]
    BY <1>4
  <2> HIDE DEF s
  <2> QED
    BY <1>2, <2>2, <2>3
<1>5. ASSUME NEW c \in Clients, ServerReads(c)
      PROVE  Told'
  <2>1. RequestsTyped /\ Shape
    BY DEF WireType, Turns
  <2>2. ASSUME NEW msgs, \A M : Heard(msgs, M), Answer(c, msgs)
        PROVE  Told'
    BY <2>1, <2>2, AnswerTold
  <2>3. ASSUME NEW line \in Lines[c], line.cmd = "s", ParamsFit(line.params),
               snapshot_' = Regenerated(snapshot_, line.params),
               Answer(c, OnSubscribeMsg(line.params, snapshot_'))
        PROVE  Told'
    <3> DEFINE p == line.params
               t == snapshot_'
               msgs == OnSubscribeMsg(p, t)
    <3>1. RowsIn(RowOf)' /\ DOMAIN t = DOMAIN snapshot_ \cup Named(p)
      BY <2>3, RowfulRowOf, TableSubscribed
    <3>2. \A s \in Named(p) : t[s] \in RowOf
      BY <3>1 DEF RowsIn
    <3>3. ParamsFit(p) /\ Answer(c, msgs)
      BY <2>3
    <3> HIDE DEF p, t
    <3>4. Heard(msgs, Rows(t, p))
      BY <3>2, <3>3, SubscribeHeard
    <3> HIDE DEF msgs
    <3> QED
      BY <2>1, <3>3, <3>4, AnswerTold
  <2> QED
    BY <1>5, <2>1, <2>2, <2>3, RequestHandled
<1>6. CASE UNCHANGED vars
  BY <1>1, <1>6 DEF vars
<1>7. CASE Next
  <2>1. PICK c \in Clients :
          \/ Connect(c) \/ \E line \in Lines[c] : Type(c, line)
          \/ ClientReads(c) \/ ClientEvent(c) \/ Leave(c) \/ Relaunch(c)
          \/ Accept(c) \/ Dangling(c) \/ ServerReads(c) \/ ServerOverruns(c) \/ ServerEvent(c)
    BY <1>7 DEF Next
  <2>2. CASE \/ Connect(c) \/ Relaunch(c) \/ Accept(c) \/ Dangling(c)
             \/ ServerOverruns(c) \/ ServerEvent(c)
    <3>1. toClient' = toClient
      BY <2>2 DEF Connect, Relaunch, Accept, Dangling, ServerOverruns, ServerEvent, wires
    <3> QED
      BY <1>1, <3>1
  <2>3. CASE \E line \in Lines[c] : Type(c, line)
    <3>1. toClient' = toClient \/ toClient' = [toClient EXCEPT ![c] = <<>>]
      BY <2>3 DEF Type
    <3> QED
      BY <1>1, <1>3, <3>1
  <2>4. CASE ClientEvent(c) \/ Leave(c)
    <3>1. toClient' = [toClient EXCEPT ![c] = <<>>]
      BY <2>4 DEF ClientEvent, Leave
    <3> QED
      BY <1>3, <3>1
  <2>5. CASE ClientReads(c)
    <3>1. /\ toClient[c] # <<>>
          /\ \/ toClient' = [toClient EXCEPT ![c] = <<>>]
             \/ toClient' = [toClient EXCEPT ![c] = Tail(@)]
      BY <2>5, Zenon DEF ClientReads, Misread, Derailed, Handled, Hear
    <3> QED
      BY <1>3, <1>4, <3>1
  <2>6. CASE ServerReads(c)
    BY <1>5, <2>6
  <2> QED
    BY <2>1, <2>2, <2>3, <2>4, <2>5, <2>6
<1> QED
  BY <1>6, <1>7

\* What is on its way is read as it was sent, or never passes for a record.
LEMMA ToldWhole ==
  ASSUME SizesAnnounced, WireType, Told
  PROVE  WholeOrCutShort
<1>1. ASSUME NEW c \in Clients, toServer[c] # <<>>
      PROVE  Faithful(Head(toServer[c]))
  <2>1. Head(toServer[c]) \in Requests(c)
    BY <1>1, HeadTailProperties DEF WireType, RequestsTyped
  <2> QED
    BY <2>1, RequestFaithful
<1>2. ASSUME NEW c \in Clients, toClient[c] # <<>>
      PROVE  Faithful(Head(toClient[c]))
  <2>1. PICK M : Heard(toClient[c], M)
    BY DEF Told
  <2>2. Clear(Head(toClient[c]), M)
    BY <1>2, <2>1, HeardTail
  <2> QED
    BY <2>2, SoundFaithful DEF Clear
<1> QED
  BY <1>1, <1>2, Zenon DEF WholeOrCutShort, Faithful

\* At first nothing is on its way, and the table is empty.
LEMMA ToldInit ==
  ASSUME Init
  PROVE  Told /\ \A R : RowsIn(R)
<1>1. \A c \in Clients : toClient[c] = <<>>
  BY DEF Init
<1>2. Told
  BY <1>1, HeardNone DEF Told
<1>3. \A R : RowsIn(R)
  BY NoTable DEF Init
<1> QED
  BY <1>2, <1>3

\* Theorem: calc_len, operator<< and operator>> agree.  Whatever number of clients talk to the
\* server, every record either side is about to read is read back member by member as it was
\* sent, or was cut short by the 2 KB archive buffer and never passes for a complete record: as
\* long as the announced length of what is typed does not wrap around 16 bits.
THEOREM WholeOrCutShortAlways ==
  ASSUME SizesAnnounced
  PROVE  Spec => []WholeOrCutShort
<1>1. Init => Told /\ RowsIn(RowOf)
  BY ToldInit
<1>2. WireType /\ Turns /\ Told /\ RowsIn(RowOf) /\ [Next]_vars => Told' /\ RowsIn(RowOf)'
  <2>1. WireType => RequestsTyped
    BY DEF WireType
  <2> QED
    BY <2>1, ToldStep, TableStep, RowfulRowOf
<1>3. WireType /\ Told => WholeOrCutShort
  BY ToldWhole
<1> QED
  BY <1>1, <1>2, <1>3, Conversation, PTL DEF Spec

-----------------------------------------------------------------------------
(* The client's copy of the reference table. *)

\* The copy and what is on its way make up the table.
Mirroring(copy, answers, table) ==
  /\ IsTable(copy) /\ DOMAIN copy \subseteq DOMAIN table
  /\ Heard(answers, {MdRefMsg(table, s) : s \in DOMAIN table})
  /\ \A s \in DOMAIN table :
       \/ s \in DOMAIN copy /\ copy[s] = table[s]
       \/ \E k \in 1..Len(answers) : answers[k] = MdRefMsg(table, s)

\* What a client that is served has of the table; it starts with nothing.
Copied(status, answers, conn, copy, mine, table) ==
  /\ status = "off" => copy = <<>>
  /\ status \in {"waiting", "prompted"} /\ conn = "backlog" => copy = <<>> /\ answers = <<>>
  /\ status \in {"waiting", "prompted"} /\ conn = "open" /\ mine => Mirroring(copy, answers, table)

Copies ==
  /\ mirror = [c \in Clients |-> mirror[c]]
  /\ \A c \in Clients : Copied(client[c], toClient[c], bev[c], mirror[c], slot = c, snapshot_)

\* The copy is complete when nothing is on its way.
LEMMA MirrorComplete ==
  ASSUME NEW copy, NEW table, IsTable(table), Mirroring(copy, <<>>, table)
  PROVE  copy = table
<1>1. \A s \in DOMAIN table : s \in DOMAIN copy /\ copy[s] = table[s]
  <2> DEFINE answers == <<>>
  <2>1. \A s \in DOMAIN table :
          \/ s \in DOMAIN copy /\ copy[s] = table[s]
          \/ \E k \in 1..Len(answers) : answers[k] = MdRefMsg(table, s)
    BY DEF Mirroring
  <2>2. ~ \E k \in 1..Len(answers) : TRUE
    OBVIOUS
  <2> HIDE DEF answers
  <2> QED
    BY <2>1, <2>2
<1>2. IsTable(copy) /\ DOMAIN copy \subseteq DOMAIN table
  BY DEF Mirroring
<1> QED
  BY <1>1, <1>2 DEF IsTable

\* At first there is nothing to copy.
LEMMA MirrorEmpty == Mirroring(<<>>, <<>>, <<>>)
<1> DEFINE t == <<>>
<1>1. IsTable(t) /\ DOMAIN t = {}
  BY DEF IsTable
<1>2. \A M : Heard(t, M)
  BY HeardNone
<1> HIDE DEF t
<1>3. Mirroring(t, t, t)
  BY <1>1, <1>2 DEF Mirroring
<1> QED
  BY <1>3 DEF t

\* The message of a row says whose it is.
LEMMA RowSays ==
  ASSUME NEW t, NEW s, t[s] \in RowOf
  PROVE  LET m == MdRefMsg(t, s)
         IN /\ m.type = "md_refference" /\ m.data[1] = s
            /\ [i \in m.data[4] |-> m.data[7][i].len] = t[s]
<1> DEFINE m == MdRefMsg(t, s)
           r == t[s]
           strs == [i \in Fields |-> Str("ref string", r[i])]
           nums == [i \in Fields |-> i]
           d == <<s, Fields, Fields, Fields, nums, nums, strs>>
<1>1. m.type = "md_refference" /\ m.data = d
  BY DEF MdRefMsg
<1>2. r = [i \in Fields |-> r[i]]
  BY DEF RowOf
<1>3. \A i \in Fields : strs[i].len = r[i]
  BY DEF Str
<1> HIDE DEF strs, nums, m, r
<1>4. d[1] = s /\ d[4] = Fields /\ d[7] = strs
  OBVIOUS
<1> HIDE DEF d
<1>5. [i \in m.data[4] |-> m.data[7][i].len] = [i \in Fields |-> strs[i].len]
  BY <1>1, <1>4
<1>6. [i \in Fields |-> strs[i].len] = r
  BY <1>2, <1>3
<1>7. m.data[1] = s
  BY <1>1, <1>4
<1> QED
  BY <1>1, <1>5, <1>6, <1>7 DEF m, r

\* The client hears one message.
LEMMA MirrorHears ==
  ASSUME NEW copy, NEW answers, NEW table, Mirroring(copy, answers, table), answers # <<>>,
         \A s \in DOMAIN table : table[s] \in RowOf,
         NEW m, m = Head(answers)
  PROVE  /\ m.type = "md_refference" =>
              Mirroring(Put(copy, m.data[1], [i \in m.data[4] |-> m.data[7][i].len]), Tail(answers), table)
         /\ m.type # "md_refference" => Mirroring(copy, Tail(answers), table)
<1> DEFINE M == {MdRefMsg(table, s) : s \in DOMAIN table}
           rest == Tail(answers)
           Has(a, s) == \E k \in 1..Len(a) : a[k] = MdRefMsg(table, s)
<1>1. /\ Heard(answers, M) /\ IsTable(copy) /\ DOMAIN copy \subseteq DOMAIN table
      /\ \A s \in DOMAIN table : (s \in DOMAIN copy /\ copy[s] = table[s]) \/ Has(answers, s)
  BY DEF Mirroring
<1> HIDE DEF M
<1>2. /\ Heard(rest, M) /\ Clear(m, M) /\ Len(answers) \in Nat \ {0} /\ m = answers[1]
      /\ Len(rest) = Len(answers) - 1 /\ \A k \in 1..Len(rest) : rest[k] = answers[k + 1]
  BY <1>1, HeardTail
<1>3. \A s \in DOMAIN table : Has(answers, s) => m = MdRefMsg(table, s) \/ Has(rest, s)
  <2> SUFFICES ASSUME NEW s \in DOMAIN table, NEW k \in 1..Len(answers), answers[k] = MdRefMsg(table, s),
                      m # MdRefMsg(table, s)
               PROVE  Has(rest, s)
    OBVIOUS
  <2> HIDE DEF rest
  <2>1. k # 1 /\ k \in Int
    BY <1>2
  <2>2. k - 1 \in 1..Len(rest) /\ rest[k - 1] = answers[k]
    BY <1>2, <2>1
  <2> QED
    BY <2>2
<1> HIDE DEF rest, Has
<1>4. ASSUME NEW c, IsTable(c), DOMAIN c \subseteq DOMAIN table,
             \A s \in DOMAIN table : (s \in DOMAIN c /\ c[s] = table[s]) \/ Has(rest, s)
      PROVE  Mirroring(c, rest, table)
  BY <1>2, <1>4 DEF Mirroring, M, Has
<1>5. ASSUME m.type # "md_refference"
      PROVE  Mirroring(copy, rest, table)
  <2>1. \A s : MdRefMsg(table, s).type = "md_refference"
    BY DEF MdRefMsg
  <2> QED
    BY <1>1, <1>3, <1>4, <1>5, <2>1
<1>6. ASSUME m.type = "md_refference"
      PROVE  Mirroring(Put(copy, m.data[1], [i \in m.data[4] |-> m.data[7][i].len]), rest, table)
  <2>1. PICK s \in DOMAIN table : m = MdRefMsg(table, s)
    BY <1>2, <1>6 DEF Clear, M
  <2>2. table[s] \in RowOf
    OBVIOUS
  <2> DEFINE v == [i \in m.data[4] |-> m.data[7][i].len]
             x == m.data[1]
             c == Put(copy, x, v)
  <2>3. x = s /\ v = table[s]
    <3> DEFINE z == MdRefMsg(table, s)
    <3>1. z.data[1] = s /\ [i \in z.data[4] |-> z.data[7][i].len] = table[s]
      BY <2>2, RowSays
    <3>2. m = z
      BY <2>1
    <3> HIDE DEF z
    <3>3. [i \in m.data[4] |-> m.data[7][i].len] = [i \in z.data[4] |-> z.data[7][i].len]
      BY <3>2
    <3> QED
      BY <3>1, <3>2, <3>3
  <2> HIDE DEF v, x
  <2>4. WithRow(c, copy, x, v)
    BY PutHas
  <2> HIDE DEF c
  <2>5. /\ IsTable(c) /\ DOMAIN c = DOMAIN copy \cup {s} /\ c[s] = table[s]
        /\ \A y \in DOMAIN copy : y # s => c[y] = copy[y]
    BY <2>3, <2>4 DEF WithRow
  <2>6. ASSUME NEW y \in DOMAIN table
        PROVE  (y \in DOMAIN c /\ c[y] = table[y]) \/ Has(rest, y)
    <3>1. CASE y = s
      BY <2>5, <3>1
    <3>2. CASE y # s
      <4>1. CASE y \in DOMAIN copy /\ copy[y] = table[y]
        BY <2>5, <3>2, <4>1
      <4>2. CASE Has(answers, y)
        <5>1. m # MdRefMsg(table, y)
          <6>1. table[y] \in RowOf
            OBVIOUS
          <6>2. MdRefMsg(table, y).data[1] = y
            BY <6>1, RowSays
          <6> QED
            BY <2>3, <3>2, <6>2 DEF x
        <5> QED
          BY <1>3, <4>2, <5>1
      <4> QED
        BY <1>1, <4>1, <4>2
    <3> QED
      BY <3>1, <3>2
  <2>7. DOMAIN c \subseteq DOMAIN table
    BY <1>1, <2>5
  <2>8. Mirroring(c, rest, table)
    BY <1>4, <2>5, <2>6, <2>7
  <2> QED
    BY <2>8 DEF c, x, v
<1> QED
  BY <1>5, <1>6 DEF rest

\* The table is regenerated and sent to a client that had all of it.
LEMMA MirrorServed ==
  ASSUME NEW table, IsTable(table), NEW p, ParamsFit(p), NEW u, IsTable(u),
         DOMAIN u = DOMAIN table \cup Named(p),
         \A x \in DOMAIN table : x \notin Named(p) => u[x] = table[x],
         \A x \in DOMAIN u : u[x] \in RowOf
  PROVE  Mirroring(table, OnSubscribeMsg(p, u), u)
<1> DEFINE sent == OnSubscribeMsg(p, u)
           M == {MdRefMsg(u, s) : s \in DOMAIN u}
<1>1. \A s \in Named(p) : u[s] \in RowOf
  OBVIOUS
<1>2. /\ Heard(sent, Rows(u, p))
      /\ \A k \in 1..Len(p) : k \in 1..Len(sent) /\ sent[k] = MdRefMsg(u, p[k])
  BY <1>1, SubscribeHeard
<1> HIDE DEF sent
<1>3. Rows(u, p) \subseteq M
  BY DEF Rows
<1>4. Heard(sent, M)
  <2> HIDE DEF M
  <2> QED
    BY <1>2, <1>3, HeardMore
<1>5. ASSUME NEW s \in DOMAIN u
      PROVE  \/ s \in DOMAIN table /\ table[s] = u[s]
             \/ \E k \in 1..Len(sent) : sent[k] = MdRefMsg(u, s)
  <2>1. CASE s \in Named(p)
    <3>1. PICK k \in 1..Len(p) : s = p[k]
      BY <2>1 DEF Named
    <3> QED
      BY <1>2, <3>1
  <2>2. CASE s \notin Named(p)
    BY <2>2
  <2> QED
    BY <2>1, <2>2
<1>6. Mirroring(table, sent, u)
  BY <1>4, <1>5 DEF Mirroring
<1> QED
  BY <1>6 DEF sent

\* An answer to a client whose wire is empty.
LEMMA AnswerAlone ==
  ASSUME NEW M, NEW s, Heard(s, M)
  PROVE  <<>> \o s = s
<1>1. PICK V : s \in Seq(V)
  BY DEF Heard
<1> QED
  BY <1>1

\* A step about client c needs to be looked at for c only, if nobody else gets the slot.
LEMMA CopiesOf ==
  ASSUME Copies, Shape, NEW c \in Clients, NEW status, NEW answers, NEW conn, NEW copy,
         client' = [client EXCEPT ![c] = status], toClient' = [toClient EXCEPT ![c] = answers],
         bev' = [bev EXCEPT ![c] = conn], mirror' = [mirror EXCEPT ![c] = copy],
         \A d \in Clients : d # c /\ slot' = d => slot = d /\ snapshot_' = snapshot_,
         Copied(status, answers, conn, copy, slot' = c, snapshot_')
  PROVE  Copies'
<1>1. mirror' = [d \in Clients |-> mirror'[d]]
  BY DEF Copies
<1>2. ASSUME NEW d \in Clients
      PROVE  Copied(client'[d], toClient'[d], bev'[d], mirror'[d], slot' = d, snapshot_')
  <2>1. CASE d = c
    <3>1. client'[d] = status /\ toClient'[d] = answers /\ bev'[d] = conn /\ mirror'[d] = copy
      BY <2>1 DEF Shape, Copies
    <3> QED
      BY <2>1, <3>1
  <2>2. CASE d # c
    <3>1. /\ client'[d] = client[d] /\ toClient'[d] = toClient[d] /\ bev'[d] = bev[d]
          /\ mirror'[d] = mirror[d]
      BY <2>2 DEF Shape, Copies
    <3>2. Copied(client[d], toClient[d], bev[d], mirror[d], slot = d, snapshot_)
      BY DEF Copies
    <3>3. slot' = d => slot = d /\ snapshot_' = snapshot_
      BY <2>2
    <3> QED
      BY <3>1, <3>2, <3>3 DEF Copied
  <2> QED
    BY <2>1, <2>2
<1> QED
  BY <1>1, <1>2 DEF Copies

\* The client reads.
LEMMA ReadsCopies ==
  ASSUME Copies, Turns, Told, RowsIn(RowOf), NEW c \in Clients, ClientReads(c)
  PROVE  Copies'
<1> DEFINE s == toClient[c]
           b == bev[c]
           copy == mirror[c]
           m == Head(s)
           a == Archive(m)
           d == Load(a).data
           w == [m EXCEPT !.data = d]
<1>1. /\ Shape /\ bev = [bev EXCEPT ![c] = b] /\ mirror = [mirror EXCEPT ![c] = copy]
      /\ Copied(client[c], s, b, copy, slot = c, snapshot_)
  BY Alone DEF Turns, Copies
<1>2. /\ client[c] = "waiting" /\ s # <<>> /\ bev' = bev /\ slot' = slot /\ snapshot_' = snapshot_
      /\ \/ Derailed(c)
         \/ Complete(a) /\ Hear(c, w)
         \/ /\ client' = [client EXCEPT ![c] = "gone"]
            /\ toClient' = [toClient EXCEPT ![c] = <<>>]
            /\ UNCHANGED mirror
  BY Zenon DEF ClientReads, Misread, Handled, server
<1>3. \A e \in Clients : e # c /\ slot' = e => slot = e /\ snapshot_' = snapshot_
  BY <1>2
<1>4. ASSUME NEW o \in {"lost", "gone"}, client' = [client EXCEPT ![c] = o],
             toClient' = [toClient EXCEPT ![c] = <<>>], mirror' = mirror
      PROVE  Copies'
  <2>1. Copied(o, <<>>, b, copy, slot' = c, snapshot_')
    BY DEF Copied
  <2>2. mirror' = [mirror EXCEPT ![c] = copy] /\ bev' = [bev EXCEPT ![c] = b]
    BY <1>1, <1>2, <1>4
  <2> HIDE DEF b, copy
  <2> QED
    BY <1>1, <1>3, <1>4, <2>1, <2>2, CopiesOf
<1>5. CASE Complete(a) /\ Hear(c, w)
  <2>1. PICK M : Heard(s, M)
    BY DEF Told
  <2>2. Clear(m, M)
    BY <1>2, <2>1, HeardTail
  <2>3. w = m
    <3>1. Faithful(m) /\ IsMsg(m)
      BY <2>2, SoundFaithful DEF Clear
    <3> HIDE DEF m
    <3>2. d = m.data
      BY <1>5, <3>1, CompleteRead
    <3>3. [m EXCEPT !.data = m.data] = m
      BY <3>1, AsSent
    <3> HIDE DEF d
    <3> QED
      BY <3>2, <3>3
  <2> DEFINE next == IF m.type = "md_refference"
                       THEN Put(copy, m.data[1], [i \in m.data[4] |-> m.data[7][i].len]) ELSE copy
             status == IF m.type = "interactive_menu" THEN "prompted" ELSE "waiting"
             rest == Tail(s)
  <2>4. Hear(c, m)
    <3> HIDE DEF w, m
    <3> QED
      BY <1>5, <2>3, Zenon
  <2>5. /\ client' = [client EXCEPT ![c] = status]
        /\ toClient' = [toClient EXCEPT ![c] = rest]
        /\ mirror' = [mirror EXCEPT ![c] = next]
    <3> HIDE DEF m
    <3>1. client' = [client EXCEPT ![c] = status]
      BY <1>2, <2>4 DEF Hear
    <3>2. toClient' = [toClient EXCEPT ![c] = rest]
      BY <2>4 DEF Hear
    <3>3. mirror' = [mirror EXCEPT ![c] = next]
      BY <1>1, <2>4 DEF Hear
    <3> QED
      BY <3>1, <3>2, <3>3
  <2>6. ASSUME b = "open", slot = c
        PROVE  Mirroring(next, rest, snapshot_)
    <3>1. Mirroring(copy, s, snapshot_)
      BY <1>1, <1>2, <2>6 DEF Copied
    <3>2. \A x \in DOMAIN snapshot_ : snapshot_[x] \in RowOf
      BY DEF RowsIn
    <3> DEFINE heard == Put(copy, m.data[1], [i \in m.data[4] |-> m.data[7][i].len])
    <3>3. /\ m.type = "md_refference" => Mirroring(heard, rest, snapshot_)
          /\ m.type # "md_refference" => Mirroring(copy, rest, snapshot_)
      <4> HIDE DEF s, copy
      <4> QED
        BY <1>2, <3>1, <3>2, MirrorHears
    <3> HIDE DEF heard, m, rest
    <3> QED
      BY <3>3 DEF heard
  <2>7. b # "backlog"
    BY <1>1, <1>2 DEF Copied
  <2> HIDE DEF next, rest
  <2>8. Copied(status, rest, b, next, slot' = c, snapshot_')
    BY <1>2, <2>6, <2>7 DEF Copied
  <2>9. bev' = [bev EXCEPT ![c] = b]
    BY <1>1, <1>2
  <2> HIDE DEF b, status
  <2> QED
    BY <1>1, <1>3, <2>5, <2>8, <2>9, CopiesOf
<1> QED
  BY <1>2, <1>4, <1>5 DEF Derailed

\* The server answers a client that waits: it has all of the table, and nothing is on its way.
LEMMA AnswerCopies ==
  ASSUME Copies, Turns, RowsIn(RowOf), NEW c \in Clients, NEW msgs, NEW M, Heard(msgs, M),
         Answer(c, msgs), bev[c] = "open", slot = c, slot' = slot, toServer[c] # <<>>,
         client' = client, mirror' = mirror,
         Mirroring(snapshot_, msgs, snapshot_')
  PROVE  Copies'
<1> DEFINE s == toClient[c]
           copy == mirror[c]
           status == client[c]
<1>1. /\ Shape /\ client = [client EXCEPT ![c] = status] /\ mirror = [mirror EXCEPT ![c] = copy]
      /\ Turn(status, toServer[c], s, bev[c])
      /\ status \in {"off", "waiting", "prompted", "lost", "gone"}
      /\ Copied(status, s, bev[c], copy, slot = c, snapshot_)
  BY Alone DEF Turns, Copies
<1>2. PICK n \in 0..Len(msgs) :
        /\ toClient' = [toClient EXCEPT ![c] = IF status = "gone" THEN <<>> ELSE s \o SubSeq(msgs, 1, n)]
        /\ bev' = [bev EXCEPT ![c] = IF n = Len(msgs) THEN "open" ELSE "closed"]
  BY DEF Answer
<1> DEFINE b == IF n = Len(msgs) THEN "open" ELSE "closed"
           t == SubSeq(msgs, 1, n)
           u == IF status = "gone" THEN <<>> ELSE s \o t
<1>3. status \in {"waiting", "gone"}
  BY <1>1 DEF Turn
<1>4. ASSUME status = "waiting", b = "open"
      PROVE  Mirroring(copy, u, snapshot_')
  <2>1. s = <<>>
    BY <1>1, <1>4 DEF Turn
  <2>2. copy = snapshot_
    <3>1. IsTable(snapshot_)
      BY DEF RowsIn
    <3>2. Mirroring(copy, s, snapshot_)
      BY <1>1, <1>4 DEF Copied
    <3> HIDE DEF s, copy
    <3>3. Mirroring(copy, <<>>, snapshot_)
      BY <2>1, <3>2
    <3> QED
      BY <3>1, <3>3, MirrorComplete
  <2>3. u = msgs
    <3>1. n = Len(msgs)
      BY <1>4
    <3>2. t = msgs
      BY <3>1, HeardPart
    <3>3. <<>> \o msgs = msgs
      BY AnswerAlone
    <3>4. u = s \o t
      BY <1>4
    <3> HIDE DEF u, s, t
    <3> QED
      BY <2>1, <3>2, <3>3, <3>4
  <2> HIDE DEF u, copy
  <2> QED
    BY <2>2, <2>3
<1>5. Copied(status, u, b, copy, slot' = c, snapshot_')
  <2>1. b # "backlog"
    OBVIOUS
  <2> HIDE DEF u, b, copy, status
  <2> QED
    BY <1>3, <1>4, <2>1 DEF Copied
<1>6. /\ client' = [client EXCEPT ![c] = status] /\ mirror' = [mirror EXCEPT ![c] = copy]
      /\ toClient' = [toClient EXCEPT ![c] = u] /\ bev' = [bev EXCEPT ![c] = b]
  BY <1>1, <1>2
<1>7. \A d \in Clients : d # c /\ slot' = d => slot = d /\ snapshot_' = snapshot_
  OBVIOUS
<1> HIDE DEF u, b, copy, status
<1> QED
  BY <1>1, <1>5, <1>6, <1>7, CopiesOf

\* A request that is served keeps the copies up to date: what the copy lacks is on its way.
LEMMA ServedCopies ==
  ASSUME SizesAnnounced, Copies, Turns, WireType, RowsIn(RowOf), NEW c \in Clients, ServerReads(c)
  PROVE  Copies'
<1>1. /\ bev[c] = "open" /\ slot = c /\ toServer[c] # <<>> /\ client' = client /\ mirror' = mirror
      /\ RequestsTyped /\ IsTable(snapshot_)
  BY DEF ServerReads, CallbackOf, WireType, RowsIn
<1>2. slot' = slot
  BY <1>1, RequestHandled
<1>3. ASSUME snapshot_' = snapshot_, NEW msgs, \A M : Heard(msgs, M), Answer(c, msgs)
      PROVE  Copies'
  <2>1. Mirroring(snapshot_, msgs, snapshot_')
    BY <1>1, <1>3 DEF Mirroring
  <2>2. Heard(msgs, {})
    BY <1>3
  <2> QED
    BY <1>1, <1>2, <1>3, <2>1, <2>2, AnswerCopies
<1>4. ASSUME NEW line \in Lines[c], line.cmd = "s", ParamsFit(line.params),
             snapshot_' = Regenerated(snapshot_, line.params),
             Answer(c, OnSubscribeMsg(line.params, snapshot_'))
      PROVE  Copies'
  <2> DEFINE p == line.params
             t == snapshot_'
             msgs == OnSubscribeMsg(p, t)
  <2>1. /\ RowsIn(RowOf)' /\ DOMAIN t = DOMAIN snapshot_ \cup Named(p)
        /\ \A x \in DOMAIN snapshot_ : x \notin Named(p) => t[x] = snapshot_[x]
    BY <1>4, RowfulRowOf, TableSubscribed
  <2>2. IsTable(t) /\ \A s \in DOMAIN t : t[s] \in RowOf
    BY <2>1 DEF RowsIn
  <2>3. ParamsFit(p) /\ Answer(c, msgs)
    BY <1>4
  <2> HIDE DEF p
  <2>4. \A s \in Named(p) : t[s] \in RowOf
    BY <2>1, <2>2
  <2>5. Heard(msgs, Rows(t, p))
    BY <2>3, <2>4, SubscribeHeard
  <2>6. Mirroring(snapshot_, msgs, t)
    BY <1>1, <2>1, <2>2, <2>3, MirrorServed
  <2> HIDE DEF msgs
  <2> QED
    BY <1>1, <1>2, <2>3, <2>5, <2>6, AnswerCopies
<1> QED
  BY <1>1, <1>3, <1>4, RequestHandled

\* So does every other step.
LEMMA CopiesStep ==
  ASSUME SizesAnnounced, Copies, Turns, WireType, Told, RowsIn(RowOf), [Next]_vars
  PROVE  Copies'
<1>1. CASE UNCHANGED vars
  BY <1>1 DEF vars, Copies
<1>2. ASSUME NEW c \in Clients,
             \/ Connect(c) \/ \E line \in Lines[c] : Type(c, line)
             \/ ClientReads(c) \/ ClientEvent(c) \/ Leave(c) \/ Relaunch(c)
             \/ Accept(c) \/ Dangling(c) \/ ServerReads(c) \/ ServerOverruns(c) \/ ServerEvent(c)
      PROVE  Copies'
  <2> DEFINE s == toClient[c]
             b == bev[c]
             copy == mirror[c]
             status == client[c]
             Others == \A d \in Clients : d # c /\ slot' = d => slot = d /\ snapshot_' = snapshot_
  <2>1. /\ Shape /\ client = [client EXCEPT ![c] = status] /\ mirror = [mirror EXCEPT ![c] = copy]
        /\ toClient = [toClient EXCEPT ![c] = s] /\ bev = [bev EXCEPT ![c] = b]
        /\ Turn(status, toServer[c], s, b)
        /\ status \in {"off", "waiting", "prompted", "lost", "gone"}
        /\ Copied(status, s, b, copy, slot = c, snapshot_)
    BY Alone DEF Turns, Copies
  <2>2. slot' = slot /\ snapshot_' = snapshot_ => Others
    OBVIOUS
  <2>3. ASSUME NEW st, NEW a, NEW n, NEW v, Others,
               client' = [client EXCEPT ![c] = st], toClient' = [toClient EXCEPT ![c] = a],
               bev' = [bev EXCEPT ![c] = n], mirror' = [mirror EXCEPT ![c] = v],
               Copied(st, a, n, v, slot' = c, snapshot_')
        PROVE  Copies'
    BY <2>1, <2>3, CopiesOf
  <2> HIDE DEF s, b, copy, status, Others
  <2>4. CASE Connect(c)
    <3>1. /\ status = "off" /\ client' = [client EXCEPT ![c] = "waiting"]
          /\ bev' = [bev EXCEPT ![c] = "backlog"] /\ toClient' = toClient /\ mirror' = mirror
          /\ slot' = slot /\ snapshot_' = snapshot_
      BY <2>4 DEF Connect, status
    <3>2. s = <<>> /\ copy = <<>>
      BY <2>1, <3>1 DEF Turn, Copied
    <3>3. Copied("waiting", s, "backlog", copy, slot' = c, snapshot_')
      BY <3>2 DEF Copied
    <3>4. toClient' = [toClient EXCEPT ![c] = s] /\ mirror' = [mirror EXCEPT ![c] = copy]
      BY <2>1, <3>1
    <3> QED
      BY <2>2, <2>3, <3>1, <3>3, <3>4
  <2>5. ASSUME client' = [client EXCEPT ![c] = "gone"], toClient' = [toClient EXCEPT ![c] = <<>>],
               mirror' = mirror, bev' = bev, slot' = slot, snapshot_' = snapshot_
        PROVE  Copies'
    <3>1. Copied("gone", <<>>, b, copy, slot' = c, snapshot_')
      BY DEF Copied
    <3>2. bev' = [bev EXCEPT ![c] = b] /\ mirror' = [mirror EXCEPT ![c] = copy]
      BY <2>1, <2>5
    <3> QED
      BY <2>2, <2>3, <2>5, <3>1, <3>2
  <2>6. CASE \E line \in Lines[c] : Type(c, line)
    <3>1. /\ status = "prompted" /\ mirror' = mirror /\ bev' = bev /\ slot' = slot /\ snapshot_' = snapshot_
          /\ \/ client' = [client EXCEPT ![c] = "waiting"] /\ toClient' = toClient
             \/ client' = [client EXCEPT ![c] = "gone"] /\ toClient' = [toClient EXCEPT ![c] = <<>>]
      BY <2>6 DEF Type, server, status
    <3>2. ASSUME client' = [client EXCEPT ![c] = "waiting"], toClient' = toClient
          PROVE  Copies'
      <4>1. Copied("waiting", s, b, copy, slot' = c, snapshot_')
        BY <2>1, <3>1 DEF Copied
      <4>2. /\ bev' = [bev EXCEPT ![c] = b] /\ mirror' = [mirror EXCEPT ![c] = copy]
            /\ toClient' = [toClient EXCEPT ![c] = s]
        BY <2>1, <3>1, <3>2
      <4> QED
        BY <2>2, <2>3, <3>1, <3>2, <4>1, <4>2
    <3> QED
      BY <2>5, <3>1, <3>2
  <2>7. CASE ClientReads(c)
    BY <2>7, ReadsCopies
  <2>8. CASE ClientEvent(c) \/ Leave(c)
    <3>1. /\ client' = [client EXCEPT ![c] = "gone"] /\ toClient' = [toClient EXCEPT ![c] = <<>>]
          /\ mirror' = mirror /\ bev' = bev /\ slot' = slot /\ snapshot_' = snapshot_
      BY <2>8 DEF ClientEvent, Leave, server
    <3> QED
      BY <2>5, <3>1
  <2>9. CASE Relaunch(c)
    <3>1. /\ client' = [client EXCEPT ![c] = "off"] /\ bev' = [bev EXCEPT ![c] = "none"]
          /\ mirror' = [mirror EXCEPT ![c] = <<>>] /\ toClient' = [toClient EXCEPT ![c] = s]
          /\ slot' = slot /\ snapshot_' = snapshot_
      BY <2>1, <2>9 DEF Relaunch
    <3>2. Copied("off", s, "none", <<>>, slot' = c, snapshot_')
      BY DEF Copied
    <3> QED
      BY <2>2, <2>3, <3>1, <3>2
  <2>10. CASE Accept(c)
    <3>1. /\ b = "backlog" /\ bev' = [bev EXCEPT ![c] = "open"] /\ slot' = c /\ snapshot_' = <<>>
          /\ client' = [client EXCEPT ![c] = status] /\ mirror' = [mirror EXCEPT ![c] = copy]
          /\ toClient' = [toClient EXCEPT ![c] = s]
      BY <2>1, <2>10 DEF Accept, wires, b
    <3>2. Others
      BY <3>1 DEF Others
    <3>3. Copied(status, s, "open", copy, slot' = c, snapshot_')
      <4>1. status # "off"
        BY <2>1, <3>1 DEF Turn
      <4>2. ASSUME status \in {"waiting", "prompted"}
            PROVE  Mirroring(copy, s, snapshot_')
        <5>1. copy = <<>> /\ s = <<>>
          BY <2>1, <3>1, <4>2 DEF Copied
        <5> QED
          BY <3>1, <5>1, MirrorEmpty
      <4> QED
        BY <4>1, <4>2 DEF Copied
    <3> QED
      BY <2>3, <3>1, <3>2, <3>3
  <2>11. CASE Dangling(c) \/ ServerOverruns(c)
    <3>1. UNCHANGED <<client, toClient, bev, mirror, slot, snapshot_>>
      BY <2>11 DEF Dangling, ServerOverruns, wires
    <3> QED
      BY <3>1 DEF Copies
  <2>12. CASE ServerReads(c)
    BY <2>12, ServedCopies
  <2>13. CASE ServerEvent(c)
    <3>1. /\ status = "gone" /\ bev' = [bev EXCEPT ![c] = "none"] /\ slot' = NoClient
          /\ client' = [client EXCEPT ![c] = "gone"] /\ mirror' = [mirror EXCEPT ![c] = copy]
          /\ toClient' = [toClient EXCEPT ![c] = s]
      BY <2>1, <2>13 DEF ServerEvent, status
    <3>2. Others
      BY <3>1, AdminAssumption DEF Others
    <3>3. Copied("gone", s, "none", copy, slot' = c, snapshot_')
      BY DEF Copied
    <3> QED
      BY <2>3, <3>1, <3>2, <3>3
  <2> QED
    BY <1>2, <2>4, <2>6, <2>7, <2>8, <2>9, <2>10, <2>11, <2>12, <2>13
<1> QED
  BY <1>1, <1>2 DEF Next

\* At the start nobody has a copy.
LEMMA CopiesInit ==
  ASSUME Init
  PROVE  Copies
<1>1. mirror = [c \in Clients |-> mirror[c]]
  BY DEF Init
<1>2. \A c \in Clients : client[c] = "off" /\ mirror[c] = <<>>
  BY DEF Init
<1> QED
  BY <1>1, <1>2 DEF Copies, Copied

\* A client that is asked for a command has nothing on its way, so its copy is the table.
LEMMA CopiesMirrored ==
  ASSUME Copies, Turns, RowsIn(RowOf)
  PROVE  SnapshotMirrored
<1> SUFFICES ASSUME NEW c \in Clients, client[c] = "prompted", slot = c, bev[c] = "open"
             PROVE  mirror[c] = snapshot_
  BY DEF SnapshotMirrored
<1>1. toClient[c] = <<>>
  BY DEF Turns, Turn
<1>2. Mirroring(mirror[c], toClient[c], snapshot_)
  BY DEF Copies, Copied
<1>3. IsTable(snapshot_)
  BY DEF RowsIn
<1> QED
  BY <1>1, <1>2, <1>3, MirrorComplete

\* Theorem: whenever a client that has the server's slot is asked for a command, every row of
\* reference data the server generated has reached it, in its latest version: none is lost
\* between regenerate_ref_data, the snapshot and the client's copy.
THEOREM SnapshotMirroredAlways ==
  ASSUME SizesAnnounced
  PROVE  Spec => []SnapshotMirrored
<1> DEFINE Inv == Told /\ RowsIn(RowOf) /\ Copies
<1>1. Init => Inv
  BY ToldInit, CopiesInit
<1>2. WireType /\ Turns /\ Inv /\ [Next]_vars => Inv'
  <2>1. WireType => RequestsTyped
    BY DEF WireType
  <2> QED
    BY <2>1, ToldStep, TableStep, RowfulRowOf, CopiesStep
<1>3. Turns /\ Inv => SnapshotMirrored
  BY CopiesMirrored
<1> HIDE DEF Inv
<1> QED
  BY <1>1, <1>2, <1>3, Conversation, PTL DEF Spec

\* Rows whose strings have 10 to 80 characters.
RowsOf80 == [Fields -> 10..80]

\* The length of the first string for a symbol.
LEMMA ShortEnough == \A n, k : n \in Nat /\ n <= 66 /\ (k = 1 \/ k = 2) => n + 12 + k \in 10..80
<1> SUFFICES ASSUME NEW n \in Nat, n <= 66, NEW k, k = 1 \/ k = 2
             PROVE  n + 12 + k \in 10..80
  OBVIOUS
<1>1. CASE k = 1
  BY <1>1
<1>2. CASE k = 2
  BY <1>2
<1> QED
  BY <1>1, <1>2

\* Strings for short symbols have 10 to 80 characters, and still do when they are regenerated.
LEMMA RowfulShort ==
  ASSUME ShortSymbols
  PROVE  Rowful(RowsOf80)
<1>1. ASSUME NEW r \in RowsOf80
      PROVE  NextRow(r) \in RowsOf80
  <2>1. \A i \in Fields : Regrown(r[i]) \in 10..80
    BY <1>1 DEF Regrown, RowsOf80
  <2> QED
    BY <2>1 DEF NextRow, RowsOf80
<1>2. ASSUME NEW c \in Clients, NEW line \in Lines[c], line.cmd = "s", ParamsFit(line.params),
             NEW s \in Named(line.params)
      PROVE  NewRow(s) \in RowsOf80
  <2> DEFINE p == line.params
  <2>1. PICK k \in 1..Len(p) : s = p[k]
    BY DEF Named
  <2>2. p[k].len \in Nat
    BY <1>2, ParamsHave
  <2>3. p[k].len <= 66
    BY <1>2 DEF ShortSymbols
  <2> HIDE DEF p
  <2>4. s.len \in Nat /\ s.len <= 66
    BY <2>1, <2>2, <2>3
  <2> DEFINE digits(i) == IF i < 10 THEN 1 ELSE 2
             len == s.len
  <2>5. \A i \in Fields : digits(i) = 1 \/ digits(i) = 2
    OBVIOUS
  <2>6. NewRow(s) = [i \in Fields |-> len + 12 + digits(i)]
    BY DEF NewRow
  <2>7. len \in Nat /\ len <= 66
    BY <2>4
  <2> HIDE DEF digits, len
  <2>8. \A i \in Fields : len + 12 + digits(i) \in 10..80
    BY <2>5, <2>7, ShortEnough
  <2> QED
    BY <2>6, <2>8 DEF RowsOf80
<1> QED
  BY <1>1, <1>2 DEF Rowful

\* Theorem: the variables have their types; in particular every string of the reference table
\* has 10 to 80 characters, however often it is regenerated, for symbols of up to 66 characters.
THEOREM TypeCorrect ==
  ASSUME SizesAnnounced, ShortSymbols
  PROVE  Spec => []TypeOK
<1> DEFINE Flags == /\ slot \in Clients \cup {NoClient} /\ takenOver \in BOOLEAN
                    /\ undefined \in BOOLEAN /\ overrun \in BOOLEAN
           Inv == Flags /\ RowsIn(RowsOf80)
<1>1. Init => Inv
  BY NoTable DEF Init
<1>2. ASSUME WireType, Turns, Inv, [Next]_vars
      PROVE  Inv'
  <2>1. RequestsTyped
    BY <1>2 DEF WireType
  <2>2. RowsIn(RowsOf80)'
    BY <1>2, <2>1, TableStep, RowfulShort
  <2>3. Flags'
    <3>1. CASE UNCHANGED vars
      BY <1>2, <3>1 DEF vars
    <3>2. ASSUME NEW c \in Clients,
                 \/ Connect(c) \/ \E line \in Lines[c] : Type(c, line)
                 \/ ClientReads(c) \/ ClientEvent(c) \/ Leave(c) \/ Relaunch(c)
          PROVE  UNCHANGED <<slot, takenOver, undefined, overrun>>
      BY <3>2 DEF Connect, Type, ClientReads, ClientEvent, Leave, Relaunch, server
    <3>3. ASSUME NEW c \in Clients, Accept(c) \/ Dangling(c) \/ ServerOverruns(c) \/ ServerEvent(c)
          PROVE  Flags'
      BY <1>2, <3>3 DEF Accept, Dangling, ServerOverruns, ServerEvent
    <3>4. ASSUME NEW c \in Clients, ServerReads(c)
          PROVE  UNCHANGED <<slot, takenOver, undefined, overrun>>
      BY <1>2, <3>4, HandlersOpenNothing DEF ServerReads
    <3> QED
      BY <1>2, <3>1, <3>2, <3>3, <3>4 DEF Next
  <2> QED
    BY <2>2, <2>3
<1>3. Turns /\ Inv => TypeOK
  BY DEF Turns, Shape, RowsIn, RowsOf80, TypeOK
<1> HIDE DEF Inv
<1>4. WireType /\ Turns /\ Inv /\ [Next]_vars => Inv'
  BY <1>2
<1> QED
  BY <1>1, <1>3, <1>4, Conversation, PTL DEF Spec
=============================================================================
