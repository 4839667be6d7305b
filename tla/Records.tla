------------------------------ MODULE Records ------------------------------
(***************************************************************************)
(* The messages and how they go through an archive: the length calc_len    *)
(* announces, what operator<< writes into the bounded buffer, and what     *)
(* operator>> makes of it.                                                 *)
(*                                                                         *)
(* A message is its type and its data members in the order operator<<      *)
(* writes them.  A string is a tag, its length and the number atoi finds   *)
(* in it.  An archive is a sequence of runs: values of one kind and width, *)
(* written by one buffer_write each.                                       *)
(***************************************************************************)
EXTENDS Integers, Sequences, FiniteSets, SequencesExt

CONSTANTS
  ARCHIVE_BUFF_CAPACITY,
  MAX_NUM_VEC_SIZE,
  INT_DELTA_SIZE, DBL_DELTA_SIZE, STAMP_DELTA_SIZE,
  SNAPSHOT_FIELDS_NUM

ASSUME RecordsAssumption ==
  /\ ARCHIVE_BUFF_CAPACITY \in Nat /\ MAX_NUM_VEC_SIZE \in Nat
  /\ INT_DELTA_SIZE \in Nat \ {0} /\ DBL_DELTA_SIZE \in Nat \ {0}
  /\ SNAPSHOT_FIELDS_NUM \in Nat
  /\ STAMP_DELTA_SIZE \in Nat \ {0}

\* Lengths are announced in 16 bits.  With these sizes there is room in them for every message
\* the server builds.
ASSUME SizesAssumption ==
  /\ ARCHIVE_BUFF_CAPACITY <= 2048 /\ MAX_NUM_VEC_SIZE <= 8000
  /\ INT_DELTA_SIZE <= 3000 /\ DBL_DELTA_SIZE <= 3000
  /\ SNAPSHOT_FIELDS_NUM >= 30

U16(n) == n % 65536
HDR_LEN == 8
WIRE_TSTAMP_LEN == 8

Str(txt, len) == [txt |-> txt, len |-> len, num |-> 0]

\* FoldLeft and FlattenSeq of SequencesExt, by recursion on the length: archives are long.
Fold(op(_, _), base, s) ==
  LET f[k \in 0..Len(s)] == IF k = 0 THEN base ELSE op(f[k - 1], s[k]) IN f[Len(s)]
Concat(ss) == Fold(LAMBDA a, b : a \o b, <<>>, ss)

Total(ns) == Fold(LAMBDA a, b : a + b, 0, ns)

\* The fields of a bitset, in the order every loop over it visits them.
Ascending(S) ==
  Fold(LAMBDA a, i : IF i \in S THEN Append(a, i) ELSE a, <<>>, [k \in 1..SNAPSHOT_FIELDS_NUM |-> k - 1])

-----------------------------------------------------------------------------
(* calc_len, in 16 bits. *)

StrArchiveLen(s) == U16(2 + s.len)
StrArrArchiveLen(v) == Fold(LAMBDA r, s : U16(r + s.len + 2), 2, v)
NumArrArchiveLen(size, v) == U16(2 + size * Len(v))

MenuLen(m) == Fold(LAMBDA r, o : U16(r + StrArchiveLen(o.val) + 2), 2, m.data[1])

MdRefLen(m) ==
  LET n == [k \in 2..4 |-> Cardinality(m.data[k])]
      strs == m.data[7]
      keys == Ascending(m.data[4])
  IN StrArchiveLen(m.data[1]) + (2 + 2 * n[2]) + (2 + 2 * n[3]) + (2 + 2 * n[4])
       + 4 * n[2] + 8 * n[3]
       + Total([k \in 1..n[4] |-> 2 + strs[keys[k]].len])

MdDeltaLen(m) ==
  LET size_ == m.data[2]
  IN 4 + StrArchiveLen(m.data[1]) + (2 + 4) * size_.ints + (2 + 8) * size_.dbls + 8 * size_.stamps

CalcLen(m) ==
  LET d == m.data
  IN U16(CASE m.type = "text" -> StrArchiveLen(d[1])
           [] m.type = "heartbeat" -> 4
           [] m.type = "subscribe" -> StrArrArchiveLen(d[1])
           [] m.type = "login" ->
                2 + StrArchiveLen(d[2]) + StrArchiveLen(d[3]) + StrArrArchiveLen(d[4])
           [] m.type = "login_reply" -> 2 + 2 + StrArchiveLen(d[3]) + StrArrArchiveLen(d[4])
           [] m.type = "interactive_menu" -> MenuLen(m)
           [] m.type = "command" -> 1 + StrArchiveLen(d[2]) + StrArrArchiveLen(d[3])
           [] m.type = "intvec" -> StrArchiveLen(d[1]) + NumArrArchiveLen(4, d[2])
           [] m.type = "bytevec" -> StrArchiveLen(d[1]) + NumArrArchiveLen(1, d[2])
           [] m.type = "doublevec" -> StrArchiveLen(d[1]) + NumArrArchiveLen(8, d[2])
           [] m.type = "md_refference" -> MdRefLen(m)
           [] m.type = "md_delta" -> MdDeltaLen(m))

-----------------------------------------------------------------------------
(* operator<<.  A field is one element, a vector with its length before    *)
(* it, a bitset, an array whose length is in size_, or the values of the   *)
(* fields a bitset names.                                                  *)

One(e) == [kind |-> "one", elem |-> e]
Vec(e) == [kind |-> "vec", elem |-> e]
Bits == [kind |-> "bits", elem |-> "u16"]
Arr(e, n) == [kind |-> "arr", elem |-> e, count |-> n]
Values(e, bits) == [kind |-> "values", elem |-> e, keys |-> bits]

Width == [u8 |-> 1, u16 |-> 2, u32 |-> 4, u64 |-> 8, sizes |-> 4]

MdDeltaStored ==
  <<One("str"), One("sizes"), Arr("u16", "ints"), Arr("u32", "ints"),
    Arr("u16", "dbls"), Arr("u64", "dbls"), Arr("u64", "stamps")>>

MdRefStored ==
  <<One("str"), Bits, Bits, Bits, Values("u32", 2), Values("u64", 3), Values("str", 4)>>

Stored ==
  [text |-> <<One("str")>>,
   heartbeat |-> <<One("u32")>>,
   subscribe |-> <<Vec("str")>>,
   login |-> <<One("u16"), One("str"), One("str"), Vec("str")>>,
   login_reply |-> <<One("u16"), One("u16"), One("str"), Vec("str")>>,
   interactive_menu |-> <<Vec("option")>>,
   command |-> <<One("u8"), One("str"), Vec("str")>>,
   intvec |-> <<One("str"), Vec("u32")>>,
   bytevec |-> <<One("str"), Vec("u8")>>,
   doublevec |-> <<One("str"), Vec("u64")>>,
   md_refference |-> MdRefStored,
   md_delta |-> MdDeltaStored]

Run(e, w, vs) == IF vs = <<>> THEN <<>> ELSE <<[elem |-> e, w |-> w, vs |-> vs]>>
Num(e, v) == Run(e, Width[e], <<v>>)

StoreStr(s) == Num("u16", U16(s.len)) \o Run("str", s.len, <<s>>)

StoreOption(o) == Num("u16", o.idx) \o StoreStr(o.val)

StoreElems(e, vs) ==
  CASE e = "str" -> Concat([k \in 1..Len(vs) |-> StoreStr(vs[k])])
    [] e = "option" -> Concat([k \in 1..Len(vs) |-> StoreOption(vs[k])])
    [] OTHER -> Run(e, Width[e], vs)

StoreVec(e, vs) == Num("u16", U16(Len(vs))) \o StoreElems(e, vs)

StoreBits(S) == Num("u16", Cardinality(S)) \o StoreElems("u16", Ascending(S))

StoreValues(e, f) ==
  LET keys == Ascending(DOMAIN f)
  IN StoreElems(e, [k \in 1..Len(keys) |-> f[keys[k]]])

StoreField(f, v) ==
  CASE f.kind = "one" -> StoreElems(f.elem, <<v>>)
    [] f.kind = "vec" -> StoreVec(f.elem, v)
    [] f.kind = "bits" -> StoreBits(v)
    [] f.kind = "arr" -> StoreElems(f.elem, v)
    [] f.kind = "values" -> StoreValues(f.elem, v)

Payload(m) ==
  Concat([k \in 1..Len(m.data) |-> StoreField(Stored[m.type][k], m.data[k])])

\* Mutant: the last byte of the buffer is never used.
MutWritten(ar, run) ==
  IF ar.len + run.w * Len(run.vs) < ARCHIVE_BUFF_CAPACITY THEN Len(run.vs)
  ELSE (ARCHIVE_BUFF_CAPACITY - 1 - ar.len) \div run.w

\* How many values of the run buffer_write finds room for.
Written(ar, run) ==
  IF ar.len + run.w * Len(run.vs) <= ARCHIVE_BUFF_CAPACITY THEN Len(run.vs)
  ELSE (ARCHIVE_BUFF_CAPACITY - ar.len) \div run.w

\* What does not fit is left out; what comes after it may still fit.
Write(ar, run) ==
  LET n == Written(ar, run)
  IN [header |-> ar.header,
      runs |-> ar.runs \o Run(run.elem, run.w, SubSeq(run.vs, 1, n)),
      len |-> ar.len + n * run.w,
      valid |-> ar.valid /\ n = Len(run.vs)]

\* start_header and store_header, then the message, as send_message does.
Archive(m) ==
  LET h == [type |-> m.type, len |-> U16(WIRE_TSTAMP_LEN + CalcLen(m))]
  IN Fold(Write, [header |-> h, runs |-> <<>>, len |-> 0, valid |-> TRUE],
              Num("u64", h) \o Num("u64", "stamp") \o Payload(m))

-----------------------------------------------------------------------------
(* operator>>.  A reader is what is left of the record and what has been   *)
(* made of it.                                                             *)

MdDeltaLoaded ==
  <<One("str"), One("sizes"), Arr("u16", "ints"), Arr("u32", "ints"),
    Arr("u16", "dbls"), Arr("u64", "dbls"), Arr("u64", "stamps")>>

MdRefLoaded ==
  <<One("str"), Bits, Bits, Bits, Values("u32", 2), Values("u64", 3), Values("str", 4)>>

Loaded ==
  [text |-> <<One("str")>>,
   heartbeat |-> <<One("u32")>>,
   subscribe |-> <<Vec("str")>>,
   login |-> <<One("u16"), One("str"), One("str"), Vec("str")>>,
   login_reply |-> <<One("u16"), One("u16"), One("str"), Vec("str")>>,
   interactive_menu |-> <<Vec("option")>>,
   command |-> <<One("u8"), One("str"), Vec("str")>>,
   intvec |-> <<One("str"), Vec("u32")>>,
   bytevec |-> <<One("str"), Vec("u8")>>,
   doublevec |-> <<One("str"), Vec("u64")>>,
   md_refference |-> MdRefLoaded,
   md_delta |-> MdDeltaLoaded]

\* n reads of w bytes.  Bytes that are not those of n such values are not represented: they end the
\* reading.
Take(r, e, w, n) ==
  IF n = 0 THEN r
  ELSE IF /\ n * w <= r.left /\ r.runs # <<>>
          /\ Head(r.runs).elem = e /\ Head(r.runs).w = w /\ Len(Head(r.runs).vs) = n
    THEN [runs |-> Tail(r.runs), left |-> r.left - n * w, valid |-> r.valid,
          elems |-> r.elems \o Head(r.runs).vs, data |-> r.data]
    ELSE [r EXCEPT !.valid = FALSE]

\* A length that was read: the last element is taken for it.
Length(r) == Last(r.elems)
Used(r) == [r EXCEPT !.elems = Front(@)]

LoadStr(r) == LET n == Take(r, "u16", 2, 1) IN IF n.valid THEN Take(Used(n), "str", Length(n), 1) ELSE n

LoadOption(r) ==
  LET o == LoadStr(Take(r, "u16", 2, 1))
      n == Len(o.elems)
  IN IF ~ o.valid THEN o
     ELSE [o EXCEPT !.elems = Append(SubSeq(@, 1, n - 2),
                                     [idx |-> o.elems[n - 1], val |-> o.elems[n]])]

LoadElems(r, e, n) ==
  CASE e = "str" -> Fold(LAMBDA q, k : IF q.valid THEN LoadStr(q) ELSE q, r, [k \in 1..n |-> k])
    [] e = "option" -> Fold(LAMBDA q, k : IF q.valid THEN LoadOption(q) ELSE q, r, [k \in 1..n |-> k])
    [] OTHER -> Take(r, e, Width[e], n)

LoadVec(r, e) == LET n == Take(r, "u16", 2, 1) IN IF n.valid THEN LoadElems(Used(n), e, Length(n)) ELSE n

\* The arrays of MdDelta hold no more than so many values.
SizesFit(s) ==
  s.ints <= INT_DELTA_SIZE /\ s.dbls <= DBL_DELTA_SIZE /\ s.stamps <= STAMP_DELTA_SIZE

LoadField(r, f) ==
  CASE f.kind = "one" -> LoadElems(r, f.elem, 1)
    [] f.kind \in {"vec", "bits"} -> LoadVec(r, f.elem)
    [] f.kind = "arr" -> IF SizesFit(r.data[2]) THEN LoadElems(r, f.elem, r.data[2][f.count])
                         ELSE [r EXCEPT !.valid = FALSE]
    [] f.kind = "values" -> LoadElems(r, f.elem, Cardinality(r.data[f.keys]))

\* The member the elements read are assigned to.
Member(r, f) ==
  CASE f.kind = "one" -> r.elems[1]
    [] f.kind = "bits" -> ToSet(r.elems)
    [] f.kind = "values" ->
         LET keys == Ascending(r.data[f.keys])
         IN [i \in r.data[f.keys] |-> r.elems[CHOOSE k \in 1..Len(keys) : keys[k] = i]]
    [] f.kind \in {"vec", "arr"} -> r.elems

LoadNext(r, f) ==
  IF ~ r.valid THEN r
  ELSE LET q == LoadField([r EXCEPT !.elems = <<>>], f)
       IN IF q.valid THEN [q EXCEPT !.data = Append(@, Member(q, f))] ELSE q

\* read_connection_buffer takes the header off, and a record only when it is all there.
Complete(ar) == ar.len >= HDR_LEN + ar.header.len

\* Then the stamp and the message are read from the announced number of bytes.
Load(ar) ==
  LET r == Take([runs |-> Tail(ar.runs), left |-> ar.header.len,
                 valid |-> ar.header.len <= ARCHIVE_BUFF_CAPACITY,
                 elems |-> <<>>, data |-> <<>>], "u64", WIRE_TSTAMP_LEN, 1)
  IN Fold(LoadNext, r, Loaded[ar.header.type])

-----------------------------------------------------------------------------
(* What is expected of them. *)

\* The bytes of a message on the wire, whatever is announced and whatever fits.
WireSize(m) ==
  LET runs == Payload(m)
  IN HDR_LEN + WIRE_TSTAMP_LEN + Total([k \in 1..Len(runs) |-> runs[k].w * Len(runs[k].vs)])

Fits(m) == WireSize(m) <= ARCHIVE_BUFF_CAPACITY

\* m can be read, and what is read is m.
ReadsBack(m) ==
  LET ar == Archive(m)
      r == Load(ar)
  IN /\ ar.valid /\ Complete(ar)
     /\ r.valid /\ r.left = 0
     /\ r.data = m.data

\* m is cut short: never a complete record, so that nobody reads a part for the whole.
CutShort(m) == LET ar == Archive(m) IN ~ ar.valid /\ ~ Complete(ar)

-----------------------------------------------------------------------------
(* Building messages. *)

\* add_num until it fails: it compares before it adds, so one more than the maximum is let in.
\* num is unsigned: a negative one is larger than any other.
AddNums(num) ==
  [k \in 1..(IF num \in 0..MAX_NUM_VEC_SIZE THEN num ELSE MAX_NUM_VEC_SIZE + 1) |-> k]
=============================================================================
