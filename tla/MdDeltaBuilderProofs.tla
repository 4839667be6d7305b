------------------------ MODULE MdDeltaBuilderProofs ------------------------
(***************************************************************************)
(* Theorems about MdDeltaBuilder, for any sizes of the arrays and any      *)
(* generators that bracket their values: what is published is what was     *)
(* added, what is not is what the builder refused, and there are no more   *)
(* deltas than the values need.                                            *)
(***************************************************************************)
EXTENDS MdDeltaBuilder, SequenceTheorems, FiniteSetTheorems, TLAPS

\* The parts of the arrays in use, and the delta they would be published as.
UsedInts == SubSeq(delta_.int, 1, int_idx_)
UsedDbls == SubSeq(delta_.dbl, 1, dbl_idx_)
Now == [symbol |-> delta_.symbol, int |-> UsedInts, dbl |-> UsedDbls]

SymbolsUsed == {NoSymbol} \cup {calls[b].symbol : b \in 1..Len(calls)}
Deltas == [symbol : SymbolsUsed, int : Seq(Nat), dbl : Seq(Nat)]

Typed ==
  /\ TypeOK
  /\ calls \in Programs
  /\ delta_ = [symbol |-> delta_.symbol, int |-> delta_.int, dbl |-> delta_.dbl]
  /\ delta_.symbol \in SymbolsUsed /\ symbol_ \in SymbolsUsed
  /\ published \in Seq(Deltas)

\* What the calls do to the parts in use.
Begun ==
  /\ calls[at + 1].op = "begin"
  /\ symbol_' = calls[at + 1].symbol /\ delta_.symbol' = symbol_'
  /\ UsedInts' = <<>> /\ UsedDbls' = <<>>
  /\ UNCHANGED <<published, failed, accepted>>

Added(used, other) ==
  /\ used' = Append(used, at + 1) /\ other' = other
  /\ UNCHANGED <<symbol_, delta_.symbol, published, failed>>

Spilled(used, other) ==
  /\ used' = <<at + 1>> /\ other' = <<>>
  /\ published' = Append(published, Now)
  /\ delta_.symbol' = symbol_
  /\ UNCHANGED <<symbol_, failed>>

Taken ==
  /\ IsValue(calls[at + 1])
  /\ accepted' = accepted \cup {at + 1}
  /\ \/ Added(UsedInts, UsedDbls) \/ Spilled(UsedInts, UsedDbls)
     \/ Added(UsedDbls, UsedInts) \/ Spilled(UsedDbls, UsedInts)

Refused ==
  /\ calls[at + 1].op # "begin"
  /\ failed'
  /\ UNCHANGED <<symbol_, delta_, int_idx_, dbl_idx_, published, accepted>>

Ended ==
  /\ calls[at + 1].op = "end"
  /\ symbol_' = NoSymbol
  /\ UsedInts' = <<>> /\ UsedDbls' = <<>>
  /\ published' = Append(published, Now)
  /\ UNCHANGED <<delta_.symbol, failed, accepted>>

LEMMA SetPart ==
  ASSUME NEW d, NEW s, NEW f, NEW g, NEW i, NEW v,
         d = [symbol |-> s, int |-> f, dbl |-> g]
  PROVE  /\ [d EXCEPT !.int[i] = v] = [symbol |-> s, int |-> [f EXCEPT ![i] = v], dbl |-> g]
         /\ [d EXCEPT !.dbl[i] = v] = [symbol |-> s, int |-> f, dbl |-> [g EXCEPT ![i] = v]]
<1>1. [[symbol |-> s, int |-> f, dbl |-> g] EXCEPT !.int[i] = v]
        = [symbol |-> s, int |-> [f EXCEPT ![i] = v], dbl |-> g]
  OBVIOUS
<1>2. [[symbol |-> s, int |-> f, dbl |-> g] EXCEPT !.dbl[i] = v]
        = [symbol |-> s, int |-> f, dbl |-> [g EXCEPT ![i] = v]]
  OBVIOUS
<1> QED
  BY <1>1, <1>2, Zenon

\* The part of an array in use, and what writing its next place makes of it.
LEMMA UsedPart ==
  ASSUME NEW size \in Nat, NEW top \in Nat, NEW a \in [1..size -> 0..top], NEW n \in 0..size
  PROVE  /\ SubSeq(a, 1, n) \in Seq(Nat)
         /\ Len(SubSeq(a, 1, n)) = n
         /\ \A i \in 1..n : SubSeq(a, 1, n)[i] = a[i]
<1>1. \A i \in 1..n : a[i] \in Nat
  OBVIOUS
<1>2. 1 \in Int /\ n \in Int
  OBVIOUS
<1> QED
  BY <1>1, <1>2, SubSeqProperties, SMTT(30)

LEMMA NextPlace ==
  ASSUME NEW size \in Nat, NEW top \in Nat, NEW a \in [1..size -> 0..top],
         NEW n \in 0..size, n < size
  PROVE  /\ [a EXCEPT ![n + 1] = top + 1] \in [1..size -> 0..(top + 1)]
         /\ SubSeq([a EXCEPT ![n + 1] = top + 1], 1, n + 1) = Append(SubSeq(a, 1, n), top + 1)
<1> DEFINE b == [a EXCEPT ![n + 1] = top + 1]
           s == SubSeq(a, 1, n)
           t == SubSeq(b, 1, n + 1)
<1>1. b \in [1..size -> 0..(top + 1)]
  OBVIOUS
<1>2. /\ s \in Seq(Nat) /\ Len(s) = n
      /\ \A i \in 1..n : s[i] = a[i]
  BY UsedPart
<1>3. n + 1 \in 0..size /\ top + 1 \in Nat
  OBVIOUS
<1>4. /\ t \in Seq(Nat) /\ Len(t) = n + 1
      /\ \A i \in 1..(n + 1) : t[i] = b[i]
  BY <1>1, <1>3, UsedPart
<1>5. \A i \in 1..(n + 1) : b[i] = IF i = n + 1 THEN top + 1 ELSE a[i]
  OBVIOUS
<1> HIDE DEF s, t, b
<1>6. /\ Append(s, top + 1) \in Seq(Nat)
      /\ Len(Append(s, top + 1)) = n + 1
      /\ \A i \in 1..(n + 1) : Append(s, top + 1)[i] = IF i = n + 1 THEN top + 1 ELSE s[i]
  <2>1. top + 1 \in Nat /\ n \in Nat
    OBVIOUS
  <2> DEFINE v == top + 1
  <2> HIDE DEF v
  <2>2. /\ Append(s, v) \in Seq(Nat)
        /\ Len(Append(s, v)) = n + 1
        /\ \A i \in 1..(n + 1) : Append(s, v)[i] = IF i = n + 1 THEN v ELSE s[i]
    BY <1>2, <2>1, AppendProperties DEF v
  <2> QED
    BY <2>2 DEF v
<1>7. ASSUME NEW i \in 1..(n + 1)
      PROVE  t[i] = Append(s, top + 1)[i]
  <2>1. i = n + 1 \/ i \in 1..n
    OBVIOUS
  <2>2. t[i] = b[i]
    BY <1>4
  <2>3. i \in 1..n => i # n + 1 /\ s[i] = a[i]
    BY <1>2
  <2> QED
    BY <1>5, <1>6, <2>1, <2>2, <2>3
<1>8. t = Append(s, top + 1)
  BY <1>4, <1>6, <1>7, SeqEqual
<1> QED
  BY <1>1, <1>8 DEF b, s, t

LEMMA FirstPlace ==
  ASSUME NEW size \in Nat \ {0}, NEW top \in Nat, NEW a \in [1..size -> 0..top]
  PROVE  LET b == [a EXCEPT ![1] = top + 1]
         IN  /\ b \in [1..size -> 0..(top + 1)]
             /\ SubSeq(b, 1, 1) = <<top + 1>>
<1>1. 0 \in 0..size /\ 0 < size
  OBVIOUS
<1>2. SubSeq(a, 1, 0) = <<>>
  BY SubSeqEmpty
<1>3. Append(<<>>, top + 1) = <<top + 1>>
  OBVIOUS
<1>4. 0 + 1 = 1
  OBVIOUS
<1> DEFINE b == [a EXCEPT ![0 + 1] = top + 1]
<1>5. b \in [1..size -> 0..(top + 1)] /\ SubSeq(b, 1, 0 + 1) = Append(SubSeq(a, 1, 0), top + 1)
  BY <1>1, NextPlace
<1> QED
  BY <1>2, <1>3, <1>4, <1>5

\* The steps' common part.
LEMMA CallMade ==
  ASSUME Typed, NEW op, Call(op)
  PROVE  /\ Len(calls) \in Nat /\ at \in Nat
         /\ at + 1 \in 1..Len(calls)
         /\ calls[at + 1].op = op
         /\ at' = at + 1 /\ calls' = calls
         /\ calls[at + 1].symbol \in SymbolsUsed
         /\ SymbolsUsed' = SymbolsUsed /\ Deltas' = Deltas
<1>1. Len(calls) \in Nat
  BY ProgramsAssumption DEF Typed
<1>2. at \in Nat /\ at + 1 \in 1..Len(calls)
  BY <1>1 DEF Typed, TypeOK, Call
<1>3. at' = at + 1 /\ calls' = calls /\ calls[at + 1].op = op
  BY DEF Call
<1>4. calls[at + 1].symbol \in SymbolsUsed
  BY <1>2 DEF SymbolsUsed
<1> QED
  BY <1>1, <1>2, <1>3, <1>4 DEF SymbolsUsed, Deltas

\* What is typed does not depend on when.
LEMMA ArraysLater ==
  ASSUME Typed
  PROVE  /\ at + 1 \in Nat
         /\ delta_.int \in [1..INT_DELTA_SIZE -> 0..(at + 1)]
         /\ delta_.dbl \in [1..DBL_DELTA_SIZE -> 0..(at + 1)]
         /\ accepted \subseteq 1..(at + 1)
         /\ accepted \cup {at + 1} \subseteq 1..(at + 1)
<1>1. at \in Nat
  BY ProgramsAssumption DEF Typed, TypeOK
<1>2. 0..at \subseteq 0..(at + 1) /\ 1..at \subseteq 1..(at + 1) /\ at + 1 \in 1..(at + 1)
  BY <1>1
<1> QED
  BY <1>1, <1>2 DEF Typed, TypeOK

LEMMA NowIsDelta ==
  ASSUME Typed
  PROVE  /\ UsedInts \in Seq(Nat) /\ UsedDbls \in Seq(Nat)
         /\ Len(UsedInts) = int_idx_ /\ Len(UsedDbls) = dbl_idx_
         /\ \A i \in 1..int_idx_ : UsedInts[i] = delta_.int[i]
         /\ \A i \in 1..dbl_idx_ : UsedDbls[i] = delta_.dbl[i]
         /\ Now \in Deltas
         /\ Append(published, Now) \in Seq(Deltas)
         /\ Len(published) \in Nat
<1>1. at \in Nat /\ INT_DELTA_SIZE \in Nat /\ DBL_DELTA_SIZE \in Nat
  BY ProgramsAssumption, BuilderAssumption DEF Typed, TypeOK
<1>2. /\ UsedInts \in Seq(Nat)
      /\ Len(UsedInts) = int_idx_
      /\ \A i \in 1..int_idx_ : UsedInts[i] = delta_.int[i]
  BY <1>1, UsedPart DEF Typed, TypeOK, UsedInts
<1>3. /\ UsedDbls \in Seq(Nat)
      /\ Len(UsedDbls) = dbl_idx_
      /\ \A i \in 1..dbl_idx_ : UsedDbls[i] = delta_.dbl[i]
  BY <1>1, UsedPart DEF Typed, TypeOK, UsedDbls
<1>4. Now \in Deltas
  BY <1>2, <1>3 DEF Typed, Now, Deltas
<1>5. Append(published, Now) \in Seq(Deltas) /\ Len(published) \in Nat
  BY <1>4, AppendProperties, LenProperties DEF Typed
<1> QED
  BY <1>2, <1>3, <1>4, <1>5

LEMMA BeginShape ==
  ASSUME Typed, Begin
  PROVE  Typed' /\ Begun
<1>1. Call("begin")
  BY DEF Begin
<1> DEFINE s == calls[at + 1].symbol
           f == delta_.int
           g == delta_.dbl
<1>2. delta_ = [symbol |-> delta_.symbol, int |-> f, dbl |-> g]
  BY DEF Typed
<1>3. delta_' = [delta_ EXCEPT !.symbol = s]
  BY DEF Begin, InitDelta
<1>4. delta_' = [symbol |-> s, int |-> f, dbl |-> g]
  <2> HIDE DEF s, f, g
  <2> QED
    BY <1>2, <1>3
<1>5. delta_'.symbol = s /\ delta_'.int = f /\ delta_'.dbl = g
  BY <1>4
<1>6. UsedInts' = <<>> /\ UsedDbls' = <<>>
  <2>1. int_idx_' = 0 /\ dbl_idx_' = 0
    BY DEF Begin
  <2> QED
    BY <2>1, SubSeqEmpty DEF UsedInts, UsedDbls
<1>7. Begun
  BY <1>1, <1>5, <1>6, CallMade DEF Begin, Begun
<1>8. Typed'
  <2>1. /\ at' \in 0..Len(calls) /\ calls' = calls /\ at' = at + 1
        /\ s \in SymbolsUsed /\ SymbolsUsed' = SymbolsUsed /\ Deltas' = Deltas
    BY <1>1, CallMade
  <2>2. int_idx_' \in 0..INT_DELTA_SIZE /\ dbl_idx_' \in 0..DBL_DELTA_SIZE
    BY BuilderAssumption DEF Begin
  <2>3. published' = published /\ failed' = failed /\ accepted' = accepted /\ symbol_' = s
    BY DEF Begin
  <2> QED
    BY <1>4, <1>5, <2>1, <2>2, <2>3, ArraysLater DEF Typed, TypeOK
<1> QED
  BY <1>7, <1>8

LEMMA EndShape ==
  ASSUME Typed, End
  PROVE  Typed' /\ (Ended \/ Refused)
<1>1. Call("end")
  BY DEF End
<1>2. /\ at' \in 0..Len(calls) /\ calls' = calls /\ at' = at + 1
      /\ SymbolsUsed' = SymbolsUsed /\ Deltas' = Deltas
  BY <1>1, CallMade
<1>3. delta_' = delta_ /\ accepted' = accepted
  BY DEF End
<1>4. CASE /\ FlushDelta(TRUE)
           /\ symbol_' = NoSymbol /\ int_idx_' = 0 /\ dbl_idx_' = 0
  <2>1. UsedInts' = <<>> /\ UsedDbls' = <<>>
    BY <1>4, SubSeqEmpty DEF UsedInts, UsedDbls
  <2>2. published' = Append(published, Now) /\ failed' = failed
    BY <1>4 DEF FlushDelta, Now, UsedInts, UsedDbls, Typed, TypeOK
  <2>3. Ended
    BY <1>1, <1>3, <1>4, <2>1, <2>2, CallMade DEF Ended
  <2>4. int_idx_' \in 0..INT_DELTA_SIZE /\ dbl_idx_' \in 0..DBL_DELTA_SIZE
    BY <1>4, BuilderAssumption
  <2>5. symbol_' \in SymbolsUsed
    BY <1>4 DEF SymbolsUsed
  <2>6. Typed'
    BY <1>2, <1>3, <2>2, <2>4, <2>5, ArraysLater, NowIsDelta DEF Typed, TypeOK
  <2> QED
    BY <2>3, <2>6
<1>5. CASE /\ FlushDelta(FALSE)
           /\ UNCHANGED <<symbol_, int_idx_, dbl_idx_>>
  <2>1. published' = published /\ failed' = TRUE
    BY <1>5 DEF FlushDelta
  <2>2. Refused
    BY <1>1, <1>3, <1>5, <2>1, CallMade DEF Refused
  <2>3. Typed'
    BY <1>2, <1>3, <1>5, <2>1, ArraysLater DEF Typed, TypeOK
  <2> QED
    BY <2>2, <2>3
<1> QED
  BY <1>4, <1>5 DEF End

LEMMA AddIntShape ==
  ASSUME Typed, AddInt
  PROVE  Typed' /\ (Taken \/ Refused)
<1>1. Call("int")
  BY DEF AddInt
<1>2. /\ at' \in 0..Len(calls) /\ calls' = calls /\ at' = at + 1 /\ at \in Nat
      /\ SymbolsUsed' = SymbolsUsed /\ Deltas' = Deltas
      /\ IsValue(calls[at + 1]) /\ calls[at + 1].op # "begin"
  BY <1>1, CallMade DEF IsValue
<1> DEFINE s == delta_.symbol
           f == delta_.int
           g == delta_.dbl
           n == int_idx_
           size == INT_DELTA_SIZE
<1>3. delta_ = [symbol |-> s, int |-> f, dbl |-> g]
  BY DEF Typed
<1>4. size \in Nat \ {0} /\ f \in [1..size -> 0..at] /\ n \in 0..size
  BY BuilderAssumption DEF Typed, TypeOK
<1>5. CASE /\ n < size
           /\ delta_' = [delta_ EXCEPT !.int[n + 1] = at + 1]
           /\ int_idx_' = n + 1
           /\ accepted' = accepted \cup {at + 1}
           /\ UNCHANGED <<symbol_, dbl_idx_, published, failed>>
  <2> DEFINE h == [f EXCEPT ![n + 1] = at + 1]
  <2>1. delta_' = [symbol |-> s, int |-> h, dbl |-> g]
    <3> HIDE DEF s, f, g, n
    <3> QED
      BY <1>3, <1>5, SetPart
  <2>2. h \in [1..size -> 0..(at + 1)] /\ SubSeq(h, 1, n + 1) = Append(SubSeq(f, 1, n), at + 1)
    <3>1. size \in Nat /\ at \in Nat /\ f \in [1..size -> 0..at] /\ n \in 0..size /\ n < size
      BY <1>2, <1>4, <1>5
    <3> HIDE DEF s, f, g, n, size
    <3> QED
      BY <3>1, NextPlace
  <2>3. delta_'.symbol = s /\ delta_'.int = h /\ delta_'.dbl = g
    BY <2>1
  <2>4. UsedInts' = Append(UsedInts, at + 1) /\ UsedDbls' = UsedDbls
    BY <1>5, <2>2, <2>3 DEF UsedInts, UsedDbls
  <2>5. Taken
    BY <1>2, <1>5, <2>3, <2>4 DEF Taken, Added
  <2>6. int_idx_' \in 0..size
    BY <1>4, <1>5
  <2>7. Typed'
    BY <1>2, <1>5, <2>1, <2>2, <2>3, <2>6, ArraysLater DEF Typed, TypeOK
  <2> QED
    BY <2>5, <2>7
<1>6. CASE /\ n = size
           /\ FlushDelta(TRUE)
           /\ delta_' = [InitDelta(symbol_) EXCEPT !.int[1] = at + 1]
           /\ int_idx_' = 1 /\ dbl_idx_' = 0
           /\ accepted' = accepted \cup {at + 1}
           /\ UNCHANGED symbol_
  <2> DEFINE h == [f EXCEPT ![1] = at + 1]
  <2>1. delta_' = [symbol |-> symbol_, int |-> h, dbl |-> g]
    <3>1. InitDelta(symbol_) = [symbol |-> symbol_, int |-> f, dbl |-> g]
      <4> HIDE DEF s, f, g
      <4> QED
        BY <1>3 DEF InitDelta
    <3> HIDE DEF s, f, g
    <3> QED
      BY <1>6, <3>1, SetPart
  <2>2. h \in [1..size -> 0..(at + 1)] /\ SubSeq(h, 1, 1) = <<at + 1>>
    BY <1>2, <1>4, FirstPlace
  <2>3. delta_'.symbol = symbol_ /\ delta_'.int = h /\ delta_'.dbl = g
    BY <2>1
  <2>4. UsedInts' = <<at + 1>> /\ UsedDbls' = <<>>
    BY <1>6, <2>2, <2>3, SubSeqEmpty DEF UsedInts, UsedDbls
  <2>5. published' = Append(published, Now) /\ failed' = failed
    BY <1>6 DEF FlushDelta, Now, UsedInts, UsedDbls, Typed, TypeOK
  <2>6. Taken
    BY <1>2, <1>6, <2>3, <2>4, <2>5 DEF Taken, Spilled
  <2>7. int_idx_' \in 0..size /\ dbl_idx_' \in 0..DBL_DELTA_SIZE
    BY <1>4, <1>6, BuilderAssumption
  <2>8. Typed'
    BY <1>2, <1>6, <2>1, <2>2, <2>3, <2>5, <2>7, ArraysLater, NowIsDelta DEF Typed, TypeOK
  <2> QED
    BY <2>6, <2>8
<1>7. CASE /\ n = size
           /\ FlushDelta(FALSE)
           /\ UNCHANGED <<symbol_, delta_, int_idx_, dbl_idx_, accepted>>
  <2>1. published' = published /\ failed' = TRUE
    BY <1>7 DEF FlushDelta
  <2>2. Refused
    BY <1>2, <1>7, <2>1 DEF Refused
  <2>3. Typed'
    BY <1>2, <1>7, <2>1, ArraysLater DEF Typed, TypeOK
  <2> QED
    BY <2>2, <2>3
<1> QED
  BY <1>5, <1>6, <1>7 DEF AddInt

LEMMA AddDblShape ==
  ASSUME Typed, AddDbl
  PROVE  Typed' /\ (Taken \/ Refused)
<1>1. Call("dbl")
  BY DEF AddDbl
<1>2. /\ at' \in 0..Len(calls) /\ calls' = calls /\ at' = at + 1 /\ at \in Nat
      /\ SymbolsUsed' = SymbolsUsed /\ Deltas' = Deltas
      /\ IsValue(calls[at + 1]) /\ calls[at + 1].op # "begin"
  BY <1>1, CallMade DEF IsValue
<1> DEFINE s == delta_.symbol
           f == delta_.int
           g == delta_.dbl
           n == dbl_idx_
           size == DBL_DELTA_SIZE
<1>3. delta_ = [symbol |-> s, int |-> f, dbl |-> g]
  BY DEF Typed
<1>4. size \in Nat \ {0} /\ g \in [1..size -> 0..at] /\ n \in 0..size
  BY BuilderAssumption DEF Typed, TypeOK
<1>5. CASE /\ n < size
           /\ delta_' = [delta_ EXCEPT !.dbl[n + 1] = at + 1]
           /\ dbl_idx_' = n + 1
           /\ accepted' = accepted \cup {at + 1}
           /\ UNCHANGED <<symbol_, int_idx_, published, failed>>
  <2> DEFINE h == [g EXCEPT ![n + 1] = at + 1]
  <2>1. delta_' = [symbol |-> s, int |-> f, dbl |-> h]
    <3> HIDE DEF s, f, g, n
    <3> QED
      BY <1>3, <1>5, SetPart
  <2>2. h \in [1..size -> 0..(at + 1)] /\ SubSeq(h, 1, n + 1) = Append(SubSeq(g, 1, n), at + 1)
    <3>1. size \in Nat /\ at \in Nat /\ g \in [1..size -> 0..at] /\ n \in 0..size /\ n < size
      BY <1>2, <1>4, <1>5
    <3> HIDE DEF s, f, g, n, size
    <3> QED
      BY <3>1, NextPlace
  <2>3. delta_'.symbol = s /\ delta_'.dbl = h /\ delta_'.int = f
    BY <2>1
  <2>4. UsedDbls' = Append(UsedDbls, at + 1) /\ UsedInts' = UsedInts
    BY <1>5, <2>2, <2>3 DEF UsedInts, UsedDbls
  <2>5. Taken
    BY <1>2, <1>5, <2>3, <2>4 DEF Taken, Added
  <2>6. dbl_idx_' \in 0..size
    BY <1>4, <1>5
  <2>7. Typed'
    BY <1>2, <1>5, <2>1, <2>2, <2>3, <2>6, ArraysLater DEF Typed, TypeOK
  <2> QED
    BY <2>5, <2>7
<1>6. CASE /\ n = size
           /\ FlushDelta(TRUE)
           /\ delta_' = [InitDelta(symbol_) EXCEPT !.dbl[1] = at + 1]
           /\ dbl_idx_' = 1 /\ int_idx_' = 0
           /\ accepted' = accepted \cup {at + 1}
           /\ UNCHANGED symbol_
  <2> DEFINE h == [g EXCEPT ![1] = at + 1]
  <2>1. delta_' = [symbol |-> symbol_, int |-> f, dbl |-> h]
    <3>1. InitDelta(symbol_) = [symbol |-> symbol_, int |-> f, dbl |-> g]
      <4> HIDE DEF s, f, g
      <4> QED
        BY <1>3 DEF InitDelta
    <3> HIDE DEF s, f, g
    <3> QED
      BY <1>6, <3>1, SetPart
  <2>2. h \in [1..size -> 0..(at + 1)] /\ SubSeq(h, 1, 1) = <<at + 1>>
    BY <1>2, <1>4, FirstPlace
  <2>3. delta_'.symbol = symbol_ /\ delta_'.dbl = h /\ delta_'.int = f
    BY <2>1
  <2>4. UsedDbls' = <<at + 1>> /\ UsedInts' = <<>>
    BY <1>6, <2>2, <2>3, SubSeqEmpty DEF UsedInts, UsedDbls
  <2>5. published' = Append(published, Now) /\ failed' = failed
    BY <1>6 DEF FlushDelta, Now, UsedInts, UsedDbls, Typed, TypeOK
  <2>6. Taken
    BY <1>2, <1>6, <2>3, <2>4, <2>5 DEF Taken, Spilled
  <2>7. dbl_idx_' \in 0..size /\ int_idx_' \in 0..INT_DELTA_SIZE
    BY <1>4, <1>6, BuilderAssumption
  <2>8. Typed'
    BY <1>2, <1>6, <2>1, <2>2, <2>3, <2>5, <2>7, ArraysLater, NowIsDelta DEF Typed, TypeOK
  <2> QED
    BY <2>6, <2>8
<1>7. CASE /\ n = size
           /\ FlushDelta(FALSE)
           /\ UNCHANGED <<symbol_, delta_, int_idx_, dbl_idx_, accepted>>
  <2>1. published' = published /\ failed' = TRUE
    BY <1>7 DEF FlushDelta
  <2>2. Refused
    BY <1>2, <1>7, <2>1 DEF Refused
  <2>3. Typed'
    BY <1>2, <1>7, <2>1, ArraysLater DEF Typed, TypeOK
  <2> QED
    BY <2>2, <2>3
<1> QED
  BY <1>5, <1>6, <1>7 DEF AddDbl

LEMMA NextShape ==
  ASSUME Typed, Next
  PROVE  /\ Typed' /\ calls' = calls /\ at' = at + 1 /\ at \in Nat
         /\ at + 1 \in 1..Len(calls) /\ Len(calls) \in Nat
         /\ Begun \/ Taken \/ Refused \/ Ended
<1>1. \E op : Call(op)
  BY DEF Next, Begin, AddInt, AddDbl, End
<1>2. /\ calls' = calls /\ at' = at + 1 /\ at \in Nat
      /\ at + 1 \in 1..Len(calls) /\ Len(calls) \in Nat
  BY <1>1, CallMade
<1> QED
  BY <1>2, BeginShape, AddIntShape, AddDblShape, EndShape DEF Next

-----------------------------------------------------------------------------
(* The order of the values of one kind: those published in the arrays pub, *)
(* those in use, cur, and nothing beyond call n.                           *)

Order(pub, cur, n) ==
  /\ Increasing(pub)
  /\ \A k \in DOMAIN pub : \A i \in 1..Len(pub[k]) :
       pub[k][i] <= n /\ \A j \in 1..Len(cur) : pub[k][i] < cur[j]
  /\ \A j \in 1..Len(cur) : cur[j] <= n /\ \A i \in 1..(j - 1) : cur[i] < cur[j]

LEMMA OrderLater ==
  ASSUME NEW m \in Nat, NEW pub \in [1..m -> Seq(Nat)], NEW cur \in Seq(Nat),
         NEW n \in Nat, Order(pub, cur, n)
  PROVE  Order(pub, cur, n + 1) /\ Order(pub, <<>>, n + 1)
<1>1. \A k \in 1..m : \A i \in 1..Len(pub[k]) : pub[k][i] \in Nat
  BY ElementOfSeq
<1>2. \A j \in 1..Len(cur) : cur[j] \in Nat
  BY ElementOfSeq
<1>3. \A a \in Nat : a <= n => a <= n + 1
  OBVIOUS
<1>4. DOMAIN pub = 1..m
  OBVIOUS
<1>5. 1..Len(<<>>) = {}
  BY EmptySeq
<1>6. Increasing(pub)
  BY DEF Order
<1>7. Order(pub, <<>>, n + 1)
  BY <1>1, <1>3, <1>4, <1>5, <1>6 DEF Order
<1>8. Order(pub, cur, n + 1)
  BY <1>1, <1>2, <1>3, <1>4, <1>6 DEF Order
<1> QED
  BY <1>7, <1>8

LEMMA OrderAdded ==
  ASSUME NEW m \in Nat, NEW pub \in [1..m -> Seq(Nat)], NEW cur \in Seq(Nat),
         NEW n \in Nat, Order(pub, cur, n)
  PROVE  Order(pub, Append(cur, n + 1), n + 1)
<1> DEFINE v == n + 1
           c == Append(cur, v)
           l == Len(cur)
<1>1. v \in Nat /\ \A a \in Nat : a <= n => a <= v /\ a < v
  OBVIOUS
<1>2. l \in Nat /\ DOMAIN pub = 1..m
  BY LenProperties
<1>3. \A k \in 1..m : \A i \in 1..Len(pub[k]) : pub[k][i] \in Nat
  BY ElementOfSeq
<1>4. \A j \in 1..l : cur[j] \in Nat
  BY ElementOfSeq
<1> HIDE DEF v
<1>5. Len(c) = l + 1 /\ c[l + 1] = v /\ \A j \in 1..l : c[j] = cur[j]
  BY <1>1, AppendProperties
<1> HIDE DEF c, l
<1>6. \A j \in 1..Len(c) : j = l + 1 \/ j \in 1..l
  BY <1>2, <1>5
<1>7. \A j \in 1..l : \A i \in 1..(j - 1) : i \in 1..l
  BY <1>2
<1>8. \A i \in 1..((l + 1) - 1) : i \in 1..l
  BY <1>2
<1>9. \A j \in 1..l : cur[j] <= n /\ \A i \in 1..(j - 1) : cur[i] < cur[j]
  BY DEF Order, l
<1>10. ASSUME NEW k \in DOMAIN pub, NEW i \in 1..Len(pub[k])
       PROVE  pub[k][i] <= v /\ \A j \in 1..Len(c) : pub[k][i] < c[j]
  <2>1. pub[k][i] \in Nat /\ pub[k][i] <= n /\ \A j \in 1..l : pub[k][i] < cur[j]
    BY <1>2, <1>3 DEF Order, l
  <2> QED
    BY <1>1, <1>5, <1>6, <2>1
<1>11. ASSUME NEW j \in 1..Len(c)
       PROVE  c[j] <= v /\ \A i \in 1..(j - 1) : c[i] < c[j]
  <2>1. CASE j = l + 1
    <3>1. c[j] = v /\ v <= v
      BY <1>1, <1>5, <2>1
    <3>2. \A i \in 1..(j - 1) : i \in 1..l
      BY <1>8, <2>1
    <3> QED
      BY <1>1, <1>4, <1>5, <1>9, <3>1, <3>2
  <2>2. CASE j \in 1..l
    BY <1>1, <1>4, <1>5, <1>7, <1>9, <2>2
  <2> QED
    BY <1>6, <2>1, <2>2
<1>12. Order(pub, c, v)
  BY <1>10, <1>11 DEF Order
<1> QED
  BY <1>12 DEF c, v

LEMMA OrderCut ==
  ASSUME NEW m \in Nat, NEW pub \in [1..m -> Seq(Nat)], NEW cur \in Seq(Nat),
         NEW n \in Nat, Order(pub, cur, n),
         NEW pub2 \in [1..(m + 1) -> Seq(Nat)],
         \A k \in 1..m : pub2[k] = pub[k], pub2[m + 1] = cur
  PROVE  Order(pub2, <<>>, n)
<1>1. DOMAIN pub = 1..m /\ DOMAIN pub2 = 1..(m + 1)
  OBVIOUS
<1>2. \A k \in 1..(m + 1) : k \in 1..m \/ k = m + 1
  OBVIOUS
<1>3. 1..Len(<<>>) = {}
  BY EmptySeq
<1>4. \A k \in 1..(m + 1) : \A i \in 1..Len(pub2[k]) : pub2[k][i] <= n
  BY <1>1, <1>2 DEF Order
<1>5. ASSUME NEW k \in 1..(m + 1), NEW l \in 1..(m + 1),
             NEW i \in 1..Len(pub2[k]), NEW j \in 1..Len(pub2[l]),
             k < l \/ (k = l /\ i < j)
      PROVE  pub2[k][i] < pub2[l][j]
  <2>1. CASE l = m + 1 /\ k = m + 1
    <3>1. i < j /\ j \in 1..Len(cur) /\ i \in 1..(j - 1)
      <4>1. Len(cur) \in Nat
        BY LenProperties
      <4>2. i < j
        BY <1>5, <2>1
      <4> QED
        BY <2>1, <4>1, <4>2
    <3> QED
      BY <2>1, <3>1 DEF Order
  <2>2. CASE l = m + 1 /\ k \in 1..m
    BY <1>1, <2>2 DEF Order
  <2>3. CASE l \in 1..m
    <3>1. k \in 1..m
      BY <1>2, <1>5, <2>3
    <3> QED
      BY <1>1, <1>5, <2>3, <3>1 DEF Order, Increasing
  <2> QED
    BY <1>2, <2>1, <2>2, <2>3
<1> QED
  BY <1>1, <1>3, <1>4, <1>5 DEF Order, Increasing

-----------------------------------------------------------------------------
(* What is published and what is pending, as sets. *)

LEMMA SetOfSeq ==
  ASSUME NEW S, NEW s \in Seq(S), NEW v \in S
  PROVE  /\ ToSet(s) = {s[i] : i \in 1..Len(s)}
         /\ ToSet(<<>>) = {}
         /\ ToSet(Append(s, v)) = ToSet(s) \cup {v}
         /\ ToSet(<<v>>) = {v}
<1>1. DOMAIN s = 1..Len(s) /\ Len(s) \in Nat
  BY LenProperties
<1> DEFINE t == Append(s, v)
           l == Len(s)
<1>2. /\ t \in Seq(S) /\ Len(t) = l + 1 /\ t[l + 1] = v
      /\ \A i \in 1..l : t[i] = s[i]
  BY AppendProperties
<1>3. DOMAIN t = 1..(l + 1)
  BY <1>2, LenProperties
<1>4. \A i \in 1..(l + 1) : i \in 1..l \/ i = l + 1
  BY <1>1
<1>5. \A i \in 1..l : i \in 1..(l + 1)
  BY <1>1
<1>6. l + 1 \in 1..(l + 1)
  BY <1>1
<1>7. ToSet(t) = ToSet(s) \cup {v}
  <2> HIDE DEF t, l
  <2>1. DOMAIN s = 1..l
    BY <1>1 DEF l
  <2> QED
    BY <1>2, <1>3, <1>4, <1>5, <1>6, <2>1 DEF ToSet
<1>8. ToSet(<<>>) = {} /\ ToSet(<<v>>) = {v}
  BY DEF ToSet
<1> QED
  BY <1>1, <1>7, <1>8 DEF ToSet

LEMMA PendingIs ==
  ASSUME Typed
  PROVE  Pending = ToSet(UsedInts) \cup ToSet(UsedDbls)
<1>1. UsedInts \in Seq(Nat) /\ UsedDbls \in Seq(Nat)
  BY NowIsDelta
<1>2. /\ ToSet(UsedInts) = {UsedInts[i] : i \in 1..Len(UsedInts)}
      /\ ToSet(UsedDbls) = {UsedDbls[i] : i \in 1..Len(UsedDbls)}
  <2>1. 0 \in Nat
    OBVIOUS
  <2> QED
    BY <1>1, <2>1, SetOfSeq, Zenon
<1> QED
  BY <1>2, NowIsDelta DEF Pending

PendingUsed == Pending = ToSet(UsedInts) \cup ToSet(UsedDbls)

LEMMA PendingAlways == Typed => PendingUsed
  BY PendingIs DEF PendingUsed

LEMMA PendingAfter == Typed' => Pending' = ToSet(UsedInts') \cup ToSet(UsedDbls')
<1>1. Typed' => PendingUsed'
  BY PendingAlways, PTL
<1> QED
  BY <1>1 DEF PendingUsed

LEMMA PublishedArrays ==
  ASSUME Typed
  PROVE  /\ PublishedInts \in [1..Len(published) -> Seq(Nat)]
         /\ PublishedDbls \in [1..Len(published) -> Seq(Nat)]
<1>1. \A k \in 1..Len(published) : published[k] \in Deltas
  BY ElementOfSeq DEF Typed
<1>2. \A k \in 1..Len(published) : published[k].int \in Seq(Nat) /\ published[k].dbl \in Seq(Nat)
  BY <1>1 DEF Deltas
<1> QED
  BY <1>2 DEF PublishedInts, PublishedDbls

ArraysTyped ==
  /\ Len(published) \in Nat
  /\ PublishedInts \in [1..Len(published) -> Seq(Nat)]
  /\ PublishedDbls \in [1..Len(published) -> Seq(Nat)]

LEMMA ArraysAlways == Typed => ArraysTyped
  BY PublishedArrays, NowIsDelta DEF ArraysTyped

LEMMA ArraysAfter == Typed' => ArraysTyped'
  BY ArraysAlways, PTL

LEMMA OneMore ==
  ASSUME Typed, published' = Append(published, Now)
  PROVE  /\ Len(published') = Len(published) + 1
         /\ \A k \in 1..Len(published) : published'[k] = published[k]
         /\ published'[Len(published) + 1] = Now
         /\ \A k \in 1..(Len(published) + 1) : k \in 1..Len(published) \/ k = Len(published) + 1
         /\ \A k \in 1..Len(published) : k \in 1..(Len(published) + 1)
         /\ Len(published) + 1 \in 1..(Len(published) + 1)
<1>1. Now \in Deltas /\ published \in Seq(Deltas)
  BY NowIsDelta DEF Typed
<1>2. Len(published) \in Nat
  BY <1>1, LenProperties
<1>3. /\ Len(published') = Len(published) + 1
      /\ \A k \in 1..Len(published) : published'[k] = published[k]
      /\ published'[Len(published) + 1] = Now
  BY <1>1, AppendProperties
<1> QED
  BY <1>2, <1>3

LEMMA PublishedGrows ==
  ASSUME Typed, published' = Append(published, Now)
  PROVE  Published' = Published \cup Pending
<1> DEFINE m == Len(published)
           At(p, k) == ToSet(p[k].int) \cup ToSet(p[k].dbl)
<1>1. At(published', m + 1) = Pending
  BY OneMore, PendingIs DEF Now
<1>2. \A k \in 1..m : At(published', k) = At(published, k)
  BY OneMore
<1>3. Published = UNION {At(published, k) : k \in 1..m}
  BY DEF Published
<1>4. Published' = UNION {At(published', k) : k \in 1..(m + 1)}
  BY OneMore DEF Published
<1>5. /\ \A k \in 1..(m + 1) : k \in 1..m \/ k = m + 1
      /\ \A k \in 1..m : k \in 1..(m + 1)
      /\ m + 1 \in 1..(m + 1)
  BY OneMore
<1> HIDE DEF m, At
<1> QED
  BY <1>1, <1>2, <1>3, <1>4, <1>5

Ordered == Order(PublishedInts, UsedInts, at) /\ Order(PublishedDbls, UsedDbls, at)

LEMMA OrderPublished ==
  ASSUME Typed, Typed', Ordered, published' = Append(published, Now)
  PROVE  Order(PublishedInts', <<>>, at) /\ Order(PublishedDbls', <<>>, at)
<1>1. at \in Nat
  BY ProgramsAssumption DEF Typed, TypeOK
<1>2. Len(published) \in Nat /\ UsedInts \in Seq(Nat) /\ UsedDbls \in Seq(Nat)
  BY NowIsDelta
<1> DEFINE m == Len(published)
<1>3. /\ PublishedInts' \in [1..(m + 1) -> Seq(Nat)]
      /\ PublishedDbls' \in [1..(m + 1) -> Seq(Nat)]
  BY OneMore, ArraysAfter DEF ArraysTyped
<1>4. /\ \A k \in 1..m : PublishedInts'[k] = PublishedInts[k]
      /\ \A k \in 1..m : PublishedDbls'[k] = PublishedDbls[k]
      /\ PublishedInts'[m + 1] = UsedInts
      /\ PublishedDbls'[m + 1] = UsedDbls
  BY OneMore DEF PublishedInts, PublishedDbls, Now
<1>5. PublishedInts \in [1..m -> Seq(Nat)] /\ PublishedDbls \in [1..m -> Seq(Nat)]
  BY PublishedArrays
<1>6. Order(PublishedInts, UsedInts, at) /\ Order(PublishedDbls, UsedDbls, at)
  BY DEF Ordered
<1> DEFINE pi == PublishedInts
           pd == PublishedDbls
           pi2 == PublishedInts'
           pd2 == PublishedDbls'
<1> HIDE DEF m, pi, pd, pi2, pd2
<1>7. Order(pi2, <<>>, at)
  BY <1>1, <1>2, <1>3, <1>4, <1>5, <1>6, OrderCut DEF m, pi, pi2
<1>8. Order(pd2, <<>>, at)
  BY <1>1, <1>2, <1>3, <1>4, <1>5, <1>6, OrderCut DEF m, pd, pd2
<1> QED
  BY <1>7, <1>8 DEF pi2, pd2

LEMMA OrderStep ==
  ASSUME Typed, Next, Ordered
  PROVE  Ordered'
<1>1. /\ Typed' /\ at \in Nat /\ at' = at + 1
      /\ Begun \/ Taken \/ Refused \/ Ended
  BY NextShape
<1>2. /\ Len(published) \in Nat /\ UsedInts \in Seq(Nat) /\ UsedDbls \in Seq(Nat)
      /\ PublishedInts \in [1..Len(published) -> Seq(Nat)]
      /\ PublishedDbls \in [1..Len(published) -> Seq(Nat)]
  BY NowIsDelta, PublishedArrays
<1>3. Order(PublishedInts, UsedInts, at) /\ Order(PublishedDbls, UsedDbls, at)
  BY DEF Ordered
<1>4. /\ Order(PublishedInts, UsedInts, at + 1) /\ Order(PublishedInts, <<>>, at + 1)
      /\ Order(PublishedDbls, UsedDbls, at + 1) /\ Order(PublishedDbls, <<>>, at + 1)
  BY <1>1, <1>2, <1>3, OrderLater
<1>5. /\ Order(PublishedInts, Append(UsedInts, at + 1), at + 1)
      /\ Order(PublishedDbls, Append(UsedDbls, at + 1), at + 1)
  BY <1>1, <1>2, <1>3, OrderAdded
<1>6. published' = published => PublishedInts' = PublishedInts /\ PublishedDbls' = PublishedDbls
  BY DEF PublishedInts, PublishedDbls
<1>7. ASSUME published' = Append(published, Now)
      PROVE  /\ Order(PublishedInts', <<>>, at + 1) /\ Order(PublishedDbls', <<>>, at + 1)
             /\ Order(PublishedInts', <<at + 1>>, at + 1)
             /\ Order(PublishedDbls', <<at + 1>>, at + 1)
  <2>1. Order(PublishedInts', <<>>, at) /\ Order(PublishedDbls', <<>>, at)
    BY <1>1, <1>7, OrderPublished
  <2> DEFINE m == Len(published')
             pi == PublishedInts'
             pd == PublishedDbls'
             e == <<>>
  <2>2. /\ m \in Nat
        /\ pi \in [1..m -> Seq(Nat)] /\ pd \in [1..m -> Seq(Nat)]
    BY <1>1, ArraysAfter DEF ArraysTyped
  <2>3. e \in Seq(Nat) /\ Append(e, at + 1) = <<at + 1>>
    BY EmptySeq
  <2>4. Order(pi, e, at) /\ Order(pd, e, at)
    BY <2>1
  <2> HIDE DEF m, pi, pd, e
  <2>5. /\ Order(pi, <<>>, at + 1) /\ Order(pd, <<>>, at + 1)
        /\ Order(pi, Append(e, at + 1), at + 1) /\ Order(pd, Append(e, at + 1), at + 1)
    BY <1>1, <2>2, <2>3, <2>4, OrderLater, OrderAdded
  <2> QED
    BY <2>3, <2>5 DEF pi, pd
<1> USE <1>1 DEF Ordered
<1>8. CASE Begun
  BY <1>4, <1>6, <1>8 DEF Begun
<1>9. CASE Taken
  BY <1>4, <1>5, <1>6, <1>7, <1>9 DEF Taken, Added, Spilled
<1>10. CASE Refused
  BY <1>4, <1>6, <1>10 DEF Refused, UsedInts, UsedDbls
<1>11. CASE Ended
  BY <1>7, <1>11 DEF Ended
<1> QED
  BY <1>8, <1>9, <1>10, <1>11

LEMMA SetsStep ==
  ASSUME Typed, Next
  PROVE  /\ Begun => Published' = Published /\ Pending' = {}
         /\ Taken => \/ Published' = Published /\ Pending' = Pending \cup {at + 1}
                        /\ UNCHANGED delta_.symbol /\ UNCHANGED published
                     \/ Published' = Published \cup Pending /\ Pending' = {at + 1}
                        /\ delta_.symbol' = symbol_ /\ published' = Append(published, Now)
         /\ Refused => Published' = Published /\ Pending' = Pending
         /\ Ended => Published' = Published \cup Pending /\ Pending' = {}
<1>1. Typed' /\ at \in Nat
  BY NextShape
<1>2. Pending = ToSet(UsedInts) \cup ToSet(UsedDbls)
  BY PendingIs
<1>3. Pending' = ToSet(UsedInts') \cup ToSet(UsedDbls')
  BY <1>1, PendingAfter
<1>4. UsedInts \in Seq(Nat) /\ UsedDbls \in Seq(Nat) /\ at + 1 \in Nat
  BY <1>1, NowIsDelta
<1>5. /\ ToSet(<<>>) = {} /\ ToSet(<<at + 1>>) = {at + 1}
      /\ ToSet(Append(UsedInts, at + 1)) = ToSet(UsedInts) \cup {at + 1}
      /\ ToSet(Append(UsedDbls, at + 1)) = ToSet(UsedDbls) \cup {at + 1}
  BY <1>4, SetOfSeq
<1>6. published' = published => Published' = Published
  BY DEF Published
<1>7. Begun => Published' = Published /\ Pending' = {}
  BY <1>3, <1>5, <1>6 DEF Begun
<1>8. Refused => Published' = Published /\ Pending' = Pending
  BY <1>6 DEF Refused, Pending
<1>9. Ended => Published' = Published \cup Pending /\ Pending' = {}
  BY <1>3, <1>5, PublishedGrows DEF Ended
<1>10. ASSUME Added(UsedInts, UsedDbls) \/ Added(UsedDbls, UsedInts)
       PROVE  /\ Published' = Published /\ Pending' = Pending \cup {at + 1}
              /\ UNCHANGED delta_.symbol /\ UNCHANGED published
  BY <1>2, <1>3, <1>5, <1>6, <1>10 DEF Added
<1>11. ASSUME Spilled(UsedInts, UsedDbls) \/ Spilled(UsedDbls, UsedInts)
       PROVE  /\ Published' = Published \cup Pending /\ Pending' = {at + 1}
              /\ delta_.symbol' = symbol_ /\ published' = Append(published, Now)
  BY <1>3, <1>5, <1>11, PublishedGrows DEF Spilled
<1>12. Taken => \/ Added(UsedInts, UsedDbls) \/ Added(UsedDbls, UsedInts)
                \/ Spilled(UsedInts, UsedDbls) \/ Spilled(UsedDbls, UsedInts)
  BY DEF Taken
<1> QED
  BY <1>7, <1>8, <1>9, <1>10, <1>11, <1>12

-----------------------------------------------------------------------------
(* Whose a value is. *)

\* Call b begins a symbol and no call from there to call n begins another.
LastBegin(b, n) ==
  /\ b \in 1..(n - 1) /\ calls[b].op = "begin"
  /\ \A m \in (b + 1)..(n - 1) : calls[m].op # "begin"

LEMMA BeginOfIs ==
  ASSUME NEW n \in Nat, Len(calls) \in Nat, n <= Len(calls) + 1, NEW b, LastBegin(b, n)
  PROVE  BeginOf(n) = b
<1> DEFINE P(c) == c < n /\ \A d \in Values("begin") : d < n => d <= c
<1>1. b \in Values("begin") /\ P(b)
  BY DEF LastBegin, Values
<1>2. \A c \in Values("begin") : P(c) => c = b
  BY <1>1 DEF Values
<1>3. BeginOf(n) = CHOOSE c \in Values("begin") : P(c)
  BY DEF BeginOf
<1> HIDE DEF P
<1> QED
  BY <1>1, <1>2, <1>3

\* A value belongs to the symbol begun by the only begin its bracket has.
LEMMA Bracket ==
  ASSUME Typed, NEW n \in 1..Len(calls), IsValue(calls[n])
  PROVE  \E b \in 1..(n - 1), e \in (n + 1)..Len(calls) :
           /\ LastBegin(b, n) /\ BeginOf(n) = b
           /\ calls[b].op = "begin" /\ calls[e].op = "end"
           /\ \A m \in (b + 1)..(e - 1) : IsValue(calls[m])
<1>1. Len(calls) \in Nat
  BY ProgramsAssumption DEF Typed
<1>2. PICK b \in 1..(n - 1), e \in (n + 1)..Len(calls) :
        /\ calls[b].op = "begin" /\ calls[e].op = "end"
        /\ \A m \in (b + 1)..(e - 1) : IsValue(calls[m])
  BY ProgramsAssumption DEF Typed
<1>3. \A m \in (b + 1)..(n - 1) : m \in (b + 1)..(e - 1)
  BY <1>1, <1>2
<1>4. LastBegin(b, n)
  BY <1>2, <1>3 DEF LastBegin, IsValue
<1>5. BeginOf(n) = b
  BY <1>1, <1>4, BeginOfIs
<1> QED
  BY <1>2, <1>4, <1>5

\* While only values have been added since a begin, its symbol is the builder's
\* and the delta's.
Opened ==
  \A b \in 1..at :
    calls[b].op = "begin" /\ (\A m \in (b + 1)..at : IsValue(calls[m])) =>
      symbol_ = calls[b].symbol /\ delta_.symbol = calls[b].symbol

LEMMA OpenedStep ==
  ASSUME Typed, Next, Opened
  PROVE  Opened'
<1>1. /\ calls' = calls /\ at' = at + 1 /\ at \in Nat /\ at + 1 \in 1..Len(calls)
      /\ Begun \/ Taken \/ Refused \/ Ended
  BY NextShape
<1>2. SUFFICES ASSUME NEW b \in 1..(at + 1), calls[b].op = "begin",
                      \A m \in (b + 1)..(at + 1) : IsValue(calls[m])
               PROVE  symbol_' = calls[b].symbol /\ delta_.symbol' = calls[b].symbol
  BY <1>1 DEF Opened
<1>3. CASE b = at + 1
  BY <1>1, <1>2, <1>3 DEF Begun, Taken, IsValue, Refused, Ended
<1>4. CASE b \in 1..at
  <2>1. IsValue(calls[at + 1]) /\ \A m \in (b + 1)..at : IsValue(calls[m])
    BY <1>1, <1>2, <1>4
  <2>2. symbol_ = calls[b].symbol /\ delta_.symbol = calls[b].symbol
    BY <1>2, <1>4, <2>1 DEF Opened
  <2>3. CASE Taken
    BY <2>2, <2>3 DEF Taken, Added, Spilled
  <2>4. CASE Refused
    BY <2>2, <2>4 DEF Refused
  <2> QED
    BY <1>1, <2>1, <2>3, <2>4 DEF Begun, Ended, IsValue
<1> QED
  BY <1>1, <1>3, <1>4

\* The values accepted, and that each is of the symbol of the delta that has it.
Owned(n, s) == n \in accepted /\ calls[BeginOf(n)].symbol = s

OwnersKnown ==
  /\ \A n \in accepted : IsValue(calls[n])
  /\ \A k \in 1..Len(published) :
       \A n \in ToSet(published[k].int) \cup ToSet(published[k].dbl) :
         Owned(n, published[k].symbol)
  /\ \A n \in Pending : Owned(n, delta_.symbol)

LEMMA OwnersStep ==
  ASSUME Typed, Next, Opened, OwnersKnown
  PROVE  OwnersKnown'
<1>1. /\ calls' = calls /\ at' = at + 1 /\ at \in Nat
      /\ at + 1 \in 1..Len(calls) /\ Len(calls) \in Nat
      /\ Begun \/ Taken \/ Refused \/ Ended
  BY NextShape
<1>2. \A n : BeginOf(n)' = BeginOf(n)
  BY <1>1 DEF BeginOf, Values
<1>3. \A n, s : Owned(n, s) /\ accepted \subseteq accepted' => Owned(n, s)'
  BY <1>1, <1>2 DEF Owned
<1>4. accepted \subseteq accepted'
  BY <1>1 DEF Begun, Taken, Refused, Ended
<1>5. \A n \in accepted' : IsValue(calls[n])
  BY <1>1 DEF OwnersKnown, Begun, Taken, Refused, Ended
<1>6. ASSUME published' = Append(published, Now)
      PROVE  \A k \in 1..Len(published') :
               \A n \in ToSet(published'[k].int) \cup ToSet(published'[k].dbl) :
                 Owned(n, published'[k].symbol)
  <2>1. ASSUME NEW k \in 1..Len(published'), k \in 1..Len(published),
               NEW n \in ToSet(published'[k].int) \cup ToSet(published'[k].dbl)
        PROVE  Owned(n, published'[k].symbol)
    BY <1>6, <2>1, OneMore DEF OwnersKnown
  <2>2. ASSUME NEW k \in 1..Len(published'), k = Len(published) + 1,
               NEW n \in ToSet(published'[k].int) \cup ToSet(published'[k].dbl)
        PROVE  Owned(n, published'[k].symbol)
    <3>1. published'[k] = Now
      BY <1>6, <2>2, OneMore
    <3>2. n \in Pending /\ published'[k].symbol = delta_.symbol
      BY <3>1, PendingIs DEF Now
    <3> QED
      BY <3>2 DEF OwnersKnown
  <2> QED
    BY <1>6, <2>1, <2>2, OneMore
<1>7. ASSUME Taken
      PROVE  calls[BeginOf(at + 1)].symbol = symbol_ /\ symbol_ = delta_.symbol
  <2>1. PICK b \in 1..((at + 1) - 1), e \in ((at + 1) + 1)..Len(calls) :
          /\ BeginOf(at + 1) = b /\ calls[b].op = "begin"
          /\ \A m \in (b + 1)..(e - 1) : IsValue(calls[m])
    BY <1>1, <1>7, Bracket DEF Taken
  <2>2. b \in 1..at /\ \A m \in (b + 1)..at : m \in (b + 1)..(e - 1)
    BY <1>1, <2>1
  <2> QED
    BY <2>1, <2>2 DEF Opened
<1>8. \A n \in Pending : Owned(n, delta_.symbol)
  BY DEF OwnersKnown
<1>9. published' = published =>
        \A k \in 1..Len(published') :
          \A n \in ToSet(published'[k].int) \cup ToSet(published'[k].dbl) :
            Owned(n, published'[k].symbol)
  BY DEF OwnersKnown
<1>10. CASE Begun
  <2>1. Pending' = {} /\ published' = published
    BY <1>10, SetsStep DEF Begun
  <2> QED
    BY <1>1, <1>3, <1>4, <1>5, <1>9, <2>1 DEF OwnersKnown
<1>11. CASE Taken
  <2>1. \A n, s : n = at + 1 /\ s = symbol_ => Owned(n, s)'
    BY <1>1, <1>2, <1>7, <1>11 DEF Owned, Taken, Added, Spilled
  <2>2. symbol_' = symbol_
    BY <1>11 DEF Taken, Added, Spilled
  <2>3. CASE /\ Pending' = Pending \cup {at + 1}
             /\ UNCHANGED delta_.symbol /\ UNCHANGED published
    <3>1. \A n \in Pending' : Owned(n, delta_.symbol)'
      BY <1>3, <1>4, <1>7, <1>8, <1>11, <2>1, <2>2, <2>3
    <3> QED
      BY <1>1, <1>3, <1>4, <1>5, <1>9, <2>3, <3>1 DEF OwnersKnown
  <2>4. CASE /\ Pending' = {at + 1}
             /\ delta_.symbol' = symbol_ /\ published' = Append(published, Now)
    <3>1. \A n \in Pending' : Owned(n, delta_.symbol)'
      BY <2>1, <2>2, <2>4
    <3> QED
      BY <1>1, <1>3, <1>4, <1>5, <1>6, <2>4, <3>1 DEF OwnersKnown
  <2> QED
    BY <1>11, <2>3, <2>4, SetsStep
<1>12. CASE Refused
  <2>1. Pending' = Pending /\ published' = published /\ delta_.symbol' = delta_.symbol
    BY <1>12, SetsStep DEF Refused
  <2> QED
    BY <1>1, <1>3, <1>4, <1>5, <1>8, <1>9, <2>1 DEF OwnersKnown
<1>13. CASE Ended
  <2>1. Pending' = {} /\ published' = Append(published, Now)
    BY <1>13, SetsStep DEF Ended
  <2> QED
    BY <1>1, <1>3, <1>4, <1>5, <1>6, <2>1 DEF OwnersKnown
<1> QED
  BY <1>1, <1>10, <1>11, <1>12, <1>13

-----------------------------------------------------------------------------
(* What is not published yet. *)

\* While a symbol is open nothing accepted since its begin is lost.
KeptSinceBegin ==
  symbol_ # NoSymbol =>
    \E b \in 1..at : /\ LastBegin(b, at + 1)
                     /\ \A n \in accepted : n > b => n \in Published \cup Pending

\* Unless a publish failed, a value that is not published is pending and only
\* values were added after it.
NoneMissing ==
  ~failed =>
    \A n \in 1..at : IsValue(calls[n]) =>
      \/ n \in Published
      \/ n \in Pending /\ \A m \in (n + 1)..at : IsValue(calls[m])

LEMMA KeptStep ==
  ASSUME Typed, Next, KeptSinceBegin
  PROVE  KeptSinceBegin'
<1>1. /\ calls' = calls /\ at' = at + 1 /\ at \in Nat /\ accepted \subseteq 1..at
      /\ Begun \/ Taken \/ Refused \/ Ended
  BY NextShape DEF Typed, TypeOK
<1>2. SUFFICES ASSUME symbol_' # NoSymbol
               PROVE  \E b \in 1..(at + 1) :
                        /\ LastBegin(b, (at + 1) + 1)
                        /\ \A n \in accepted' : n > b => n \in Published' \cup Pending'
  BY <1>1 DEF KeptSinceBegin, LastBegin
<1>3. CASE Begun
  <2>1. LastBegin(at + 1, (at + 1) + 1)
    BY <1>1, <1>3 DEF LastBegin, Begun
  <2>2. \A n \in accepted' : ~(n > at + 1)
    BY <1>1, <1>3 DEF Begun
  <2> QED
    BY <1>1, <2>1, <2>2
<1>4. ASSUME symbol_' = symbol_, calls[at + 1].op # "begin"
      PROVE  \E b \in 1..(at + 1) :
               /\ LastBegin(b, (at + 1) + 1)
               /\ \A n \in accepted : n > b => n \in Published \cup Pending
  <2>1. PICK b \in 1..at : /\ LastBegin(b, at + 1)
                           /\ \A n \in accepted : n > b => n \in Published \cup Pending
    BY <1>2, <1>4 DEF KeptSinceBegin
  <2>2. LastBegin(b, (at + 1) + 1)
    <3>1. \A m \in (b + 1)..(((at + 1) + 1) - 1) : m = at + 1 \/ m \in (b + 1)..((at + 1) - 1)
      BY <1>1
    <3>2. b \in 1..(((at + 1) + 1) - 1)
      BY <1>1
    <3> QED
      BY <1>4, <2>1, <3>1, <3>2 DEF LastBegin
  <2>3. b \in 1..(at + 1)
    BY <1>1
  <2> QED
    BY <2>1, <2>2, <2>3
<1>5. CASE Taken
  <2>1. symbol_' = symbol_ /\ calls[at + 1].op # "begin" /\ accepted' = accepted \cup {at + 1}
    BY <1>5 DEF Taken, Added, Spilled, IsValue
  <2>2. Published \cup Pending \cup {at + 1} = Published' \cup Pending'
    BY <1>5, SetsStep
  <2> QED
    BY <1>4, <2>1, <2>2
<1>6. CASE Refused
  <2>1. symbol_' = symbol_ /\ calls[at + 1].op # "begin" /\ accepted' = accepted
    BY <1>6 DEF Refused
  <2>2. Published \cup Pending = Published' \cup Pending'
    BY <1>6, SetsStep
  <2> QED
    BY <1>4, <2>1, <2>2
<1>7. CASE Ended
  BY <1>2, <1>7 DEF Ended
<1> QED
  BY <1>1, <1>3, <1>5, <1>6, <1>7

LEMMA MissingStep ==
  ASSUME Typed, Next, NoneMissing
  PROVE  NoneMissing'
<1>1. /\ calls' = calls /\ at' = at + 1 /\ at \in Nat
      /\ at + 1 \in 1..Len(calls) /\ Len(calls) \in Nat
      /\ Begun \/ Taken \/ Refused \/ Ended
  BY NextShape
<1>2. SUFFICES ASSUME ~failed', NEW n \in 1..(at + 1), IsValue(calls[n])
               PROVE  \/ n \in Published'
                      \/ n \in Pending' /\ \A m \in (n + 1)..(at + 1) : IsValue(calls[m])
  BY <1>1 DEF NoneMissing
<1>3. failed' = failed
  BY <1>1, <1>2 DEF Begun, Taken, Added, Spilled, Refused, Ended
<1>4. n \in 1..at =>
        \/ n \in Published
        \/ n \in Pending /\ \A m \in (n + 1)..at : IsValue(calls[m])
  BY <1>2, <1>3 DEF NoneMissing
<1>5. n \in 1..at \/ n = at + 1
  BY <1>1
<1>6. CASE Begun
  <2>1. n \in 1..at
    BY <1>2, <1>5, <1>6 DEF Begun, IsValue
  <2>2. ~ \A m \in (n + 1)..at : IsValue(calls[m])
    <3>1. n \in 1..Len(calls)
      BY <1>1, <2>1
    <3>2. PICK b \in 1..(n - 1), e \in (n + 1)..Len(calls) :
            /\ calls[e].op = "end"
            /\ \A m \in (b + 1)..(e - 1) : IsValue(calls[m])
      BY <1>2, <3>1, Bracket
    <3>3. ~ IsValue(calls[e]) /\ ~ IsValue(calls[at + 1])
      BY <1>6, <3>2 DEF Begun, IsValue
    <3>4. ~ (at + 1 \in (b + 1)..(e - 1))
      BY <3>2, <3>3
    <3>5. e # at + 1
      BY <1>6, <3>2 DEF Begun
    <3>6. e \in (n + 1)..at
      BY <1>1, <2>1, <3>4, <3>5
    <3> QED
      BY <3>3, <3>6
  <2> QED
    BY <1>4, <1>6, <2>1, <2>2, SetsStep
<1>7. CASE Taken
  <2>1. Published \cup Pending \cup {at + 1} = Published' \cup Pending'
    BY <1>7, SetsStep
  <2>2. n \in 1..at /\ n \in Pending => \A m \in (n + 1)..(at + 1) :
          IsValue(calls[m]) \/ n \in Published
    <3>1. \A m \in (n + 1)..(at + 1) : m = at + 1 \/ m \in (n + 1)..at
      BY <1>1
    <3> QED
      BY <1>4, <1>7, <3>1 DEF Taken
  <2>3. n = at + 1 => \A m \in (n + 1)..(at + 1) : IsValue(calls[m])
    BY <1>1
  <2>4. Published \subseteq Published'
    BY <1>7, SetsStep
  <2> QED
    BY <1>4, <1>5, <2>1, <2>2, <2>3, <2>4
<1>8. CASE Refused
  BY <1>2, <1>8 DEF Refused
<1>9. CASE Ended
  <2>1. n \in 1..at
    BY <1>2, <1>5, <1>9 DEF Ended, IsValue
  <2> QED
    BY <1>4, <1>9, <2>1, SetsStep
<1> QED
  BY <1>1, <1>6, <1>7, <1>8, <1>9

-----------------------------------------------------------------------------
BInv ==
  /\ Typed
  /\ Ordered
  /\ Opened
  /\ OwnersKnown
  /\ KeptSinceBegin
  /\ NoneMissing

LEMMA InitBInv == Init => BInv
<1> SUFFICES ASSUME Init PROVE BInv
  OBVIOUS
<1>1. /\ at = 0 /\ int_idx_ = 0 /\ dbl_idx_ = 0 /\ published = <<>> /\ accepted = {}
      /\ symbol_ = NoSymbol /\ failed = FALSE /\ calls \in Programs
  BY DEF Init
<1>2. Len(calls) \in Nat
  BY <1>1, ProgramsAssumption
<1>3. Typed
  <2> DEFINE f == [i \in 1..INT_DELTA_SIZE |-> 0]
             g == [i \in 1..DBL_DELTA_SIZE |-> 0]
  <2>1. f \in [1..INT_DELTA_SIZE -> 0..0] /\ g \in [1..DBL_DELTA_SIZE -> 0..0]
    OBVIOUS
  <2>2. delta_ = [symbol |-> NoSymbol, int |-> f, dbl |-> g]
    BY DEF Init
  <2> HIDE DEF f, g
  <2>3. delta_.symbol = NoSymbol /\ delta_.int = f /\ delta_.dbl = g
    BY <2>2
  <2>4. NoSymbol \in SymbolsUsed
    BY DEF SymbolsUsed
  <2>5. published \in Seq(Deltas)
    BY <1>1, EmptySeq
  <2>6. TypeOK
    <3>1. f \in [1..INT_DELTA_SIZE -> 0..at] /\ g \in [1..DBL_DELTA_SIZE -> 0..at]
      BY <1>1, <2>1
    <3>2. at \in 0..Len(calls)
      BY <1>1, <1>2
    <3>3. int_idx_ \in 0..INT_DELTA_SIZE /\ dbl_idx_ \in 0..DBL_DELTA_SIZE
      BY <1>1, BuilderAssumption
    <3> QED
      BY <1>1, <2>3, <3>1, <3>2, <3>3 DEF TypeOK
  <2>7. delta_ = [symbol |-> delta_.symbol, int |-> delta_.int, dbl |-> delta_.dbl]
    BY <2>2, <2>3
  <2> QED
    BY <1>1, <2>3, <2>4, <2>5, <2>6, <2>7 DEF Typed
<1>4. UsedInts = <<>> /\ UsedDbls = <<>>
  BY <1>1, SubSeqEmpty DEF UsedInts, UsedDbls
<1>5. 1..Len(published) = {} /\ 1..Len(<<>>) = {}
  BY <1>1, EmptySeq
<1>6. DOMAIN PublishedInts = {} /\ DOMAIN PublishedDbls = {}
  BY <1>5 DEF PublishedInts, PublishedDbls
<1>7. Ordered
  BY <1>4, <1>5, <1>6 DEF Ordered, Order, Increasing
<1>8. Pending = {}
  BY <1>1 DEF Pending
<1>9. Opened /\ OwnersKnown /\ KeptSinceBegin /\ NoneMissing
  BY <1>1, <1>5, <1>8 DEF Opened, OwnersKnown, KeptSinceBegin, NoneMissing
<1> QED
  BY <1>3, <1>7, <1>9 DEF BInv

LEMMA StepBInv == BInv /\ [Next]_vars => BInv'
<1> SUFFICES ASSUME BInv, [Next]_vars PROVE BInv'
  OBVIOUS
<1>1. CASE Next
  BY <1>1, NextShape, OrderStep, OpenedStep, OwnersStep, KeptStep, MissingStep DEF BInv
<1>2. CASE UNCHANGED vars
  <2> USE <1>2 DEF vars
  <2>1. Typed'
    BY DEF BInv, Typed, TypeOK, SymbolsUsed, Deltas
  <2>2. Ordered'
    <3>1. PublishedInts' = PublishedInts /\ PublishedDbls' = PublishedDbls
      BY DEF PublishedInts, PublishedDbls
    <3>2. UsedInts' = UsedInts /\ UsedDbls' = UsedDbls /\ at' = at
      BY DEF UsedInts, UsedDbls
    <3> QED
      BY <3>1, <3>2 DEF BInv, Ordered
  <2>3. Opened'
    BY DEF BInv, Opened
  <2>4. Published' = Published /\ Pending' = Pending
    BY DEF Published, Pending
  <2>5. \A n : BeginOf(n)' = BeginOf(n)
    BY DEF BeginOf, Values
  <2>6. OwnersKnown'
    BY <2>4, <2>5 DEF BInv, OwnersKnown, Owned
  <2>7. KeptSinceBegin' /\ NoneMissing'
    BY <2>4 DEF BInv, KeptSinceBegin, LastBegin, NoneMissing
  <2> QED
    BY <2>1, <2>2, <2>3, <2>6, <2>7 DEF BInv
<1> QED
  BY <1>1, <1>2

LEMMA BInvFaithful == BInv => TypeOK /\ PublishedFaithfully
<1> SUFFICES ASSUME BInv PROVE PublishedFaithfully
  BY DEF BInv, Typed
<1>1. Increasing(PublishedInts) /\ Increasing(PublishedDbls)
  BY DEF BInv, Ordered, Order
<1> QED
  BY <1>1 DEF BInv, OwnersKnown, Owned, PublishedFaithfully

LEMMA BInvNothingLost == BInv => NothingElseLost
<1> SUFFICES ASSUME BInv PROVE NothingElseLost
  OBVIOUS
<1>1. /\ Typed /\ Len(calls) \in Nat /\ at \in Nat /\ at <= Len(calls)
      /\ accepted \subseteq 1..at
  BY ProgramsAssumption DEF BInv, Typed, TypeOK
<1>2. ASSUME symbol_ # NoSymbol, NEW n \in accepted, BeginOf(n) = BeginOf(at + 1)
      PROVE  n \in Published \cup Pending
  <2>1. PICK b \in 1..at : /\ LastBegin(b, at + 1)
                           /\ \A m \in accepted : m > b => m \in Published \cup Pending
    BY <1>2 DEF BInv, KeptSinceBegin
  <2>2. BeginOf(at + 1) = b
    BY <1>1, <2>1, BeginOfIs
  <2>3. n \in 1..Len(calls) /\ IsValue(calls[n])
    BY <1>1 DEF BInv, OwnersKnown
  <2>4. BeginOf(n) \in 1..(n - 1)
    BY <1>1, <2>3, Bracket
  <2>5. n > b
    BY <1>1, <1>2, <2>2, <2>3, <2>4
  <2> QED
    BY <2>1, <2>5
<1>3. ASSUME at = Len(calls), ~failed, NEW n \in Values("int") \cup Values("dbl")
      PROVE  n \in Published
  <2>1. n \in 1..Len(calls) /\ IsValue(calls[n])
    BY DEF Values, IsValue
  <2>2. PICK e \in (n + 1)..Len(calls) : calls[e].op = "end"
    BY <1>1, <2>1, Bracket
  <2>3. ~ IsValue(calls[e])
    BY <2>2 DEF IsValue
  <2> QED
    BY <1>3, <2>1, <2>3 DEF BInv, NoneMissing
<1> QED
  BY <1>2, <1>3 DEF NothingElseLost

LEMMA BuilderInvariant == Spec => []BInv
  BY InitBInv, StepBInv, PTL DEF Spec

\* Whatever the sizes of the arrays and the generator every variable keeps its type.
THEOREM BuilderTyped == Spec => []TypeOK
<1>1. BInv => TypeOK
  BY BInvFaithful
<1> QED
  BY <1>1, BuilderInvariant, PTL

\* Whatever the sizes of the arrays, whatever the generator and whichever publish
\* fails: a delta carries accepted values of its own symbol, in order and each once.
THEOREM BuilderFaithful == Spec => []PublishedFaithfully
<1>1. BInv => PublishedFaithfully
  BY BInvFaithful
<1> QED
  BY <1>1, BuilderInvariant, PTL

\* For the same sizes and generators: while a symbol is open, whatever was accepted
\* for it is in a published delta or still in the arrays, whichever publish failed;
\* and if none failed the generator's calls have published every value.
THEOREM LossesExplained == Spec => []NothingElseLost
<1>1. BInv => NothingElseLost
  BY BInvNothingLost
<1> QED
  BY <1>1, BuilderInvariant, PTL

-----------------------------------------------------------------------------
(* As few deltas as the values need. *)

Count(p, s) == Cardinality({k \in 1..Len(p) : p[k].symbol = s})

\* n values fill so many arrays of a size and a part of the next, which is empty
\* only if there are none.
Packed(n, size, full, used) ==
  /\ full \in Nat /\ used \in 0..size
  /\ n = size * full + used
  /\ used = 0 => full = 0

\* How far the generator is in a block.
Progress(b, i, d) ==
  LET s == calls[b].symbol IN
  /\ at < b => Count(published, s) = 0
  /\ b <= at /\ at <= b + i + d => symbol_ = s /\ delta_.symbol = s
  /\ b <= at /\ at <= b + i =>
       dbl_idx_ = 0 /\ Packed(at - b, INT_DELTA_SIZE, Count(published, s), int_idx_)
  /\ b + i < at /\ at <= b + i + d =>
       \E m \in Nat, x \in Nat :
         /\ Packed(i, INT_DELTA_SIZE, m, x)
         /\ Packed(at - (b + i), DBL_DELTA_SIZE, Count(published, s) - m, dbl_idx_)
  /\ b + i + d < at => Count(published, s) = DeltasNeeded(i, d)

InProgress ==
  ~failed =>
    \A b \in 1..Len(calls), i, d \in 0..Len(calls) : Block(calls, b, i, d) => Progress(b, i, d)

\* What the calls do to the counts, as long as no publish fails.
Counted(used, used2, size, other, other2) ==
  \/ /\ used < size /\ used2 = used + 1 /\ other2 = other
     /\ published' = published /\ delta_.symbol' = delta_.symbol
  \/ /\ used = size /\ used2 = 1 /\ other2 = 0
     /\ published' = Append(published, Now) /\ delta_.symbol' = symbol_

LEMMA CountingStep ==
  ASSUME Typed, Next, ~failed'
  PROVE  /\ ~failed /\ calls' = calls /\ at' = at + 1
         /\ \/ /\ calls[at + 1].op = "begin"
               /\ symbol_' = calls[at + 1].symbol /\ delta_.symbol' = calls[at + 1].symbol
               /\ int_idx_' = 0 /\ dbl_idx_' = 0 /\ published' = published
            \/ /\ calls[at + 1].op = "int" /\ symbol_' = symbol_
               /\ Counted(int_idx_, int_idx_', INT_DELTA_SIZE, dbl_idx_, dbl_idx_')
            \/ /\ calls[at + 1].op = "dbl" /\ symbol_' = symbol_
               /\ Counted(dbl_idx_, dbl_idx_', DBL_DELTA_SIZE, int_idx_, int_idx_')
            \/ /\ calls[at + 1].op = "end" /\ published' = Append(published, Now)
<1> DEFINE f == delta_.int
           g == delta_.dbl
<1>1. delta_ = [symbol |-> delta_.symbol, int |-> f, dbl |-> g]
  BY DEF Typed
<1>2. \A s : InitDelta(s) = [symbol |-> s, int |-> f, dbl |-> g]
  <2> HIDE DEF f, g
  <2> QED
    BY <1>1 DEF InitDelta
<1>3. \A s, k, v : [InitDelta(s) EXCEPT !.int[k] = v].symbol = s
  <2> TAKE s, k, v
  <2>1. [InitDelta(s) EXCEPT !.int[k] = v] = [symbol |-> s, int |-> [f EXCEPT ![k] = v], dbl |-> g]
    BY <1>2, SetPart
  <2> QED
    BY <2>1
<1>4. \A s, k, v : [InitDelta(s) EXCEPT !.dbl[k] = v].symbol = s
  <2> TAKE s, k, v
  <2>1. [InitDelta(s) EXCEPT !.dbl[k] = v] = [symbol |-> s, int |-> f, dbl |-> [g EXCEPT ![k] = v]]
    BY <1>2, SetPart
  <2> QED
    BY <2>1
<1>5. \A k, v : /\ [delta_ EXCEPT !.int[k] = v].symbol = delta_.symbol
                /\ [delta_ EXCEPT !.dbl[k] = v].symbol = delta_.symbol
  <2> TAKE k, v
  <2> DEFINE s == delta_.symbol
  <2>1. delta_ = [symbol |-> s, int |-> f, dbl |-> g]
    BY <1>1
  <2> HIDE DEF s, f, g
  <2>2. /\ [delta_ EXCEPT !.int[k] = v] = [symbol |-> s, int |-> [f EXCEPT ![k] = v], dbl |-> g]
        /\ [delta_ EXCEPT !.dbl[k] = v] = [symbol |-> s, int |-> f, dbl |-> [g EXCEPT ![k] = v]]
    BY <2>1, SetPart
  <2>3. /\ [delta_ EXCEPT !.int[k] = v].symbol = s
        /\ [delta_ EXCEPT !.dbl[k] = v].symbol = s
    BY <2>2
  <2> QED
    BY <2>3 DEF s
<1>6. FlushDelta(TRUE) => published' = Append(published, Now) /\ failed' = failed
  BY DEF FlushDelta, Now, UsedInts, UsedDbls, Typed, TypeOK
<1>7. ~FlushDelta(FALSE)
  BY DEF FlushDelta
<1>8. CASE Begin
  <2>1. delta_'.symbol = calls[at + 1].symbol
    BY <1>2, <1>8 DEF Begin
  <2> QED
    BY <1>8, <2>1 DEF Begin, Call
<1>9. CASE AddInt
  <2>1. Call("int")
    BY <1>9 DEF AddInt
  <2>2. CASE /\ int_idx_ < INT_DELTA_SIZE
             /\ delta_' = [delta_ EXCEPT !.int[int_idx_ + 1] = at + 1]
             /\ int_idx_' = int_idx_ + 1
             /\ UNCHANGED <<symbol_, dbl_idx_, published, failed>>
    <3>1. delta_'.symbol = delta_.symbol
      BY <1>5, <2>2
    <3> QED
      BY <2>1, <2>2, <3>1 DEF Call, Counted
  <2>3. CASE /\ int_idx_ = INT_DELTA_SIZE
             /\ FlushDelta(TRUE)
             /\ delta_' = [InitDelta(symbol_) EXCEPT !.int[1] = at + 1]
             /\ int_idx_' = 1 /\ dbl_idx_' = 0
             /\ UNCHANGED symbol_
    <3>1. delta_'.symbol = symbol_
      BY <1>3, <2>3
    <3> QED
      BY <1>6, <2>1, <2>3, <3>1 DEF Call, Counted
  <2> QED
    BY <1>7, <1>9, <2>2, <2>3 DEF AddInt
<1>10. CASE AddDbl
  <2>1. Call("dbl")
    BY <1>10 DEF AddDbl
  <2>2. CASE /\ dbl_idx_ < DBL_DELTA_SIZE
             /\ delta_' = [delta_ EXCEPT !.dbl[dbl_idx_ + 1] = at + 1]
             /\ dbl_idx_' = dbl_idx_ + 1
             /\ UNCHANGED <<symbol_, int_idx_, published, failed>>
    <3>1. delta_'.symbol = delta_.symbol
      BY <1>5, <2>2
    <3> QED
      BY <2>1, <2>2, <3>1 DEF Call, Counted
  <2>3. CASE /\ dbl_idx_ = DBL_DELTA_SIZE
             /\ FlushDelta(TRUE)
             /\ delta_' = [InitDelta(symbol_) EXCEPT !.dbl[1] = at + 1]
             /\ int_idx_' = 0 /\ dbl_idx_' = 1
             /\ UNCHANGED symbol_
    <3>1. delta_'.symbol = symbol_
      BY <1>4, <2>3
    <3> QED
      BY <1>6, <2>1, <2>3, <3>1 DEF Call, Counted
  <2> QED
    BY <1>7, <1>10, <2>2, <2>3 DEF AddDbl
<1>11. CASE End
  <2>1. Call("end") /\ FlushDelta(TRUE)
    BY <1>7, <1>11 DEF End
  <2> QED
    BY <1>6, <2>1 DEF Call
<1> QED
  BY <1>8, <1>9, <1>10, <1>11 DEF Next

LEMMA CountTyped ==
  ASSUME Typed, NEW s
  PROVE  /\ Count(published, s) \in Nat
         /\ IsFiniteSet({k \in 1..Len(published) : published[k].symbol = s})
<1>1. IsFiniteSet(1..Len(published))
  BY NowIsDelta, FS_Interval
<1>2. IsFiniteSet({k \in 1..Len(published) : published[k].symbol = s})
  BY <1>1, FS_Subset
<1> QED
  BY <1>2, FS_CardinalityType DEF Count

\* Publishing adds one to the count of the delta's symbol.
LEMMA CountGrows ==
  ASSUME Typed, published' = Append(published, Now), NEW s
  PROVE  Count(published', s) =
           IF delta_.symbol = s THEN Count(published, s) + 1 ELSE Count(published, s)
<1> DEFINE l == Len(published)
           S == {k \in 1..l : published[k].symbol = s}
           T == {k \in 1..Len(published') : published'[k].symbol = s}
<1>1. l \in Nat /\ Len(published') = l + 1
  BY NowIsDelta, OneMore
<1>2. \A k \in 1..l : published'[k] = published[k]
  BY OneMore
<1>3. published'[l + 1].symbol = delta_.symbol
  BY OneMore DEF Now
<1>4. /\ IsFiniteSet(S)
      /\ Count(published, s) = Cardinality(S) /\ Count(published', s) = Cardinality(T)
  BY CountTyped DEF Count
<1>5. \A k : k \in 1..(l + 1) <=> k \in 1..l \/ k = l + 1
  BY <1>1
<1>6. l + 1 \notin 1..l
  BY <1>1
<1> HIDE DEF l
<1>7. T = IF delta_.symbol = s THEN S \cup {l + 1} ELSE S
  BY <1>1, <1>2, <1>3, <1>5
<1>8. l + 1 \notin S
  BY <1>6
<1> HIDE DEF S, T
<1> QED
  BY <1>4, <1>7, <1>8, FS_AddElement

LEMMA CountSame ==
  ASSUME published' = published, NEW s
  PROVE  Count(published', s) = Count(published, s)
  BY DEF Count

\* A value more.
LEMMA PackedOne ==
  ASSUME NEW size \in Nat \ {0}, NEW n \in Nat, NEW full, NEW used, Packed(n, size, full, used)
  PROVE  /\ used < size => Packed(n + 1, size, full, used + 1)
         /\ used = size => Packed(n + 1, size, full + 1, 1)
<1>1. full \in Nat /\ used \in Nat /\ used <= size /\ size * full \in Nat
  BY DEF Packed
<1>2. size * (full + 1) = size * full + size
  BY <1>1
<1> DEFINE p == size * full
           q == size * (full + 1)
<1>3. p \in Nat /\ q = p + size /\ n = p + used
  BY <1>1, <1>2 DEF Packed
<1> HIDE DEF p, q
<1>4. used < size => n + 1 = p + (used + 1)
  BY <1>1, <1>3
<1>5. used = size => n + 1 = q + 1
  BY <1>1, <1>3
<1> QED
  BY <1>1, <1>4, <1>5 DEF Packed, p, q

LEMMA PackedNone ==
  ASSUME NEW size \in Nat \ {0}
  PROVE  Packed(0, size, 0, 0)
  BY DEF Packed

LEMMA DivIs ==
  ASSUME NEW size \in Nat, size > 0, NEW full \in Nat, NEW r \in Nat, r < size
  PROVE  (size * full + r) \div size = full
<1> DEFINE n == size * full + r
           q == n \div size
<1>1. n \in Int
  OBVIOUS
<1>2. q \in Int /\ n % size \in 0..(size - 1) /\ n = size * q + (n % size)
  BY <1>1
<1> DEFINE r2 == n % size
<1> HIDE DEF q, r2
<1>3. size * full + r = size * q + r2 /\ r2 \in 0..(size - 1)
  BY <1>2 DEF r2
<1>4. size * (full - q) = r2 - r
  BY <1>2, <1>3
<1>5. full - q >= 1 => size * (full - q) >= size
  BY <1>2
<1>6. full - q <= -1 => size * (full - q) <= -size
  BY <1>2
<1>7. full = q
  BY <1>2, <1>3, <1>4, <1>5, <1>6
<1> QED
  BY <1>7 DEF q

LEMMA PackedParts ==
  ASSUME NEW size \in Nat \ {0}, NEW n \in Nat, NEW full, NEW used, Packed(n, size, full, used)
  PROVE  (IF n = 0 THEN 1 ELSE ((n - 1) \div size) + 1) = full + 1
<1>1. /\ full \in Nat /\ used \in Nat /\ used <= size /\ n = size * full + used
      /\ used = 0 => full = 0
  BY DEF Packed
<1>2. CASE used = 0
  BY <1>1, <1>2
<1>3. CASE used > 0
  <2>1. used - 1 \in Nat /\ used - 1 < size
    BY <1>1, <1>3
  <2>2. n - 1 = size * full + (used - 1) /\ n # 0
    <3>1. size * full \in Nat
      BY <1>1
    <3> QED
      BY <1>1, <1>3, <3>1
  <2>3. (size * full + (used - 1)) \div size = full
    BY <1>1, <2>1, DivIs
  <2> QED
    BY <2>2, <2>3
<1> QED
  BY <1>1, <1>2, <1>3

LEMMA NeededIs ==
  ASSUME NEW i \in Nat, NEW d \in Nat, NEW m, NEW x, NEW n, NEW y,
         Packed(i, INT_DELTA_SIZE, m, x), Packed(d, DBL_DELTA_SIZE, n, y)
  PROVE  DeltasNeeded(i, d) = m + n + 1
<1>1. (IF i = 0 THEN 1 ELSE ((i - 1) \div INT_DELTA_SIZE) + 1) = m + 1
  BY PackedParts, BuilderAssumption
<1>2. (IF d = 0 THEN 1 ELSE ((d - 1) \div DBL_DELTA_SIZE) + 1) = n + 1
  BY PackedParts, BuilderAssumption
<1>3. m \in Nat /\ n \in Nat
  BY DEF Packed
<1>4. DeltasNeeded(i, d) = (m + 1) + (n + 1) - 1
  BY <1>1, <1>2 DEF DeltasNeeded
<1> QED
  BY <1>3, <1>4

\* The calls of a block.
Laid(p, b, i, d) ==
  \A n \in Nat :
    /\ p[b].op = "begin"
    /\ b < n /\ n <= b + i => p[n].op = "int"
    /\ b + i < n /\ n <= b + i + d => p[n].op = "dbl"
    /\ n = b + i + d + 1 => p[n].op = "end"

LEMMA BlockLaid ==
  ASSUME NEW p, NEW b \in Nat, NEW i \in Nat, NEW d \in Nat, Block(p, b, i, d)
  PROVE  Laid(p, b, i, d)
<1> SUFFICES ASSUME NEW n \in Nat
             PROVE  /\ p[b].op = "begin"
                    /\ b < n /\ n <= b + i => p[n].op = "int"
                    /\ b + i < n /\ n <= b + i + d => p[n].op = "dbl"
                    /\ n = b + i + d + 1 => p[n].op = "end"
  BY DEF Laid
<1>1. b < n /\ n <= b + i => p[n].op = "int"
  <2>1. b < n /\ n <= b + i => n - b \in 1..i /\ b + (n - b) = n
    OBVIOUS
  <2> QED
    BY <2>1 DEF Block
<1>2. b + i < n /\ n <= b + i + d => p[n].op = "dbl"
  <2>1. b + i < n /\ n <= b + i + d => n - (b + i) \in 1..d /\ b + i + (n - (b + i)) = n
    OBVIOUS
  <2> QED
    BY <2>1 DEF Block
<1> QED
  BY <1>1, <1>2 DEF Block

LEMMA BlocksApart ==
  ASSUME NEW p, NEW b \in Nat, NEW i \in Nat, NEW d \in Nat, Block(p, b, i, d),
         NEW c \in Nat, NEW j \in Nat, NEW e \in Nat, Block(p, c, j, e),
         NEW n \in Nat, c < n, n <= c + j + e + 1,
         n < b \/ b + i + d + 1 < n
  PROVE  c # b
<1> SUFFICES ASSUME c = b PROVE FALSE
  OBVIOUS
<1>1. b + i + d + 1 < n /\ b + i + d + 1 \in Nat
  OBVIOUS
<1> DEFINE k == b + i + d + 1
<1>2. p[k].op = "end"
  BY <1>1, BlockLaid DEF Laid
<1>3. c < k /\ k <= c + j + e /\ k \in Nat
  BY <1>1
<1> HIDE DEF k
<1>4. (c < k /\ k <= c + j) \/ (c + j < k /\ k <= c + j + e)
  BY <1>3
<1>5. p[k].op = "int" \/ p[k].op = "dbl"
  <2>1. Laid(p, c, j, e)
    BY BlockLaid
  <2> QED
    BY <1>3, <1>4, <2>1 DEF Laid
<1> QED
  BY <1>2, <1>5

\* A delta published outside of a block is not of the block's symbol.
LEMMA Elsewhere ==
  ASSUME Typed, InProgress, ~failed, Orderly(calls),
         at + 1 \in 1..Len(calls), calls[at + 1].op # "begin",
         published' = published \/ published' = Append(published, Now),
         NEW b \in 1..Len(calls), NEW i \in 0..Len(calls), NEW d \in 0..Len(calls),
         Block(calls, b, i, d), at + 1 < b \/ b + i + d + 1 < at + 1
  PROVE  Count(published', calls[b].symbol) = Count(published, calls[b].symbol)
<1> DEFINE n == at + 1
<1>1. Len(calls) \in Nat /\ at \in Nat /\ n \in Nat
  BY ProgramsAssumption DEF Typed, TypeOK
<1>2. PICK c \in 1..n, j \in 0..Len(calls), e \in 0..Len(calls) :
        Block(calls, c, j, e) /\ n <= c + j + e + 1
  BY DEF Orderly
<1>3. c \in Nat /\ j \in Nat /\ e \in Nat /\ b \in Nat /\ i \in Nat /\ d \in Nat
  BY <1>1
<1>4. calls[c].op = "begin" /\ calls[b].op = "begin"
  BY <1>2 DEF Block
<1>5. c # n
  BY <1>4
<1>6. c < n /\ c \in 1..Len(calls) /\ c <= at /\ at <= c + j + e
  BY <1>1, <1>2, <1>5
<1>7. delta_.symbol = calls[c].symbol
  BY <1>2, <1>6 DEF InProgress, Progress
<1>8. c # b
  BY <1>1, <1>2, <1>3, <1>6, BlocksApart
<1>9. calls[c].symbol # calls[b].symbol
  BY <1>4, <1>6, <1>8 DEF Orderly
<1> QED
  BY <1>7, <1>9, CountGrows, CountSame

LEMMA ProgressStep ==
  ASSUME Typed, Typed', Next, ~failed', Orderly(calls), InProgress,
         NEW b \in 1..Len(calls), NEW i \in 0..Len(calls), NEW d \in 0..Len(calls),
         Block(calls, b, i, d)
  PROVE  Progress(b, i, d)'
<1> DEFINE s == calls[b].symbol
           n == at + 1
<1>1. /\ ~failed /\ calls' = calls /\ at' = n
  BY CountingStep
<1>2. /\ Len(calls) \in Nat /\ at \in Nat /\ n \in 1..Len(calls)
      /\ b \in Nat /\ i \in Nat /\ d \in Nat
  BY <1>1, ProgramsAssumption DEF Typed, TypeOK
<1>3. Progress(b, i, d)
  BY <1>1 DEF InProgress
<1>4. /\ calls[b].op = "begin"
      /\ b < n /\ n <= b + i => calls[n].op = "int"
      /\ b + i < n /\ n <= b + i + d => calls[n].op = "dbl"
      /\ n = b + i + d + 1 => calls[n].op = "end"
  <2>1. n \in Nat
    BY <1>2
  <2>2. Laid(calls, b, i, d)
    BY <1>2, BlockLaid
  <2> QED
    BY <2>1, <2>2 DEF Laid
<1>5. Count(published, s) \in Nat
  BY CountTyped
<1>6. INT_DELTA_SIZE \in Nat \ {0} /\ DBL_DELTA_SIZE \in Nat \ {0}
  BY BuilderAssumption
<1>7. int_idx_ \in 0..INT_DELTA_SIZE /\ dbl_idx_ \in 0..DBL_DELTA_SIZE
  BY DEF Typed, TypeOK
<1>8. CASE n < b \/ b + i + d + 1 < n
  <2>1. Count(published', s) = Count(published, s)
    <3>1. CASE calls[n].op = "begin"
      <4>1. published' = published
        BY <3>1, CountingStep
      <4>2. Count(published', s) = Count(published, s)
        BY <4>1, CountSame
      <4> QED
        BY <4>2
    <3>2. CASE calls[n].op # "begin"
      <4>1. published' = published \/ published' = Append(published, Now)
        BY <3>2, CountingStep DEF Counted
      <4> QED
        BY <1>1, <1>2, <1>8, <3>2, <4>1, Elsewhere
    <3> QED
      BY <3>1, <3>2
  <2>2. CASE n < b
    BY <1>1, <1>2, <1>3, <2>1, <2>2 DEF Progress
  <2>3. CASE b + i + d + 1 < n
    BY <1>1, <1>2, <1>3, <2>1, <2>3 DEF Progress
  <2> QED
    BY <1>8, <2>2, <2>3
<1>9. CASE n = b
  <2>1. /\ symbol_' = s /\ delta_.symbol' = s
        /\ int_idx_' = 0 /\ dbl_idx_' = 0 /\ published' = published
    BY <1>4, <1>9, CountingStep
  <2>2. Count(published', s) = 0
    <3>1. Count(published', s) = Count(published, s)
      BY <2>1, CountSame
    <3>2. Count(published, s) = 0
      BY <1>2, <1>3, <1>9 DEF Progress
    <3> QED
      BY <3>1, <3>2
  <2>3. Packed(0, INT_DELTA_SIZE, 0, 0)
    BY <1>6, PackedNone
  <2> QED
    BY <1>1, <1>2, <1>9, <2>1, <2>2, <2>3 DEF Progress
<1>10. CASE b < n /\ n <= b + i
  <2>1. /\ calls[n].op = "int" /\ symbol_' = symbol_
        /\ Counted(int_idx_, int_idx_', INT_DELTA_SIZE, dbl_idx_, dbl_idx_')
    BY <1>4, <1>10, CountingStep
  <2>2. /\ symbol_ = s /\ delta_.symbol = s /\ dbl_idx_ = 0
        /\ Packed(at - b, INT_DELTA_SIZE, Count(published, s), int_idx_)
    BY <1>2, <1>3, <1>10 DEF Progress
  <2>3. at - b \in Nat /\ (at - b) + 1 = n - b
    BY <1>2, <1>10
  <2>4. /\ symbol_' = s /\ delta_.symbol' = s /\ dbl_idx_' = 0
        /\ Packed(n - b, INT_DELTA_SIZE, Count(published', s), int_idx_')
    <3>1. /\ int_idx_ < INT_DELTA_SIZE =>
               Packed(n - b, INT_DELTA_SIZE, Count(published, s), int_idx_ + 1)
          /\ int_idx_ = INT_DELTA_SIZE => Packed(n - b, INT_DELTA_SIZE, Count(published, s) + 1, 1)
      BY <1>6, <2>2, <2>3, PackedOne
    <3>2. CASE published' = published /\ int_idx_' = int_idx_ + 1 /\ int_idx_ < INT_DELTA_SIZE
      <4>1. Count(published', s) = Count(published, s)
        BY <3>2, CountSame
      <4> QED
        BY <2>1, <2>2, <3>1, <3>2, <4>1 DEF Counted
    <3>3. CASE /\ published' = Append(published, Now)
               /\ int_idx_' = 1 /\ int_idx_ = INT_DELTA_SIZE
      <4>1. Count(published', s) = Count(published, s) + 1
        BY <2>2, <3>3, CountGrows
      <4> QED
        BY <2>1, <2>2, <3>1, <3>3, <4>1 DEF Counted
    <3> QED
      BY <2>1, <3>2, <3>3 DEF Counted
  <2>5. n \in Nat /\ b <= n /\ ~(n < b) /\ ~(b + i < n) /\ ~(b + i + d < n)
    BY <1>2, <1>10
  <2> HIDE DEF n
  <2> QED
    BY <1>1, <2>4, <2>5 DEF Progress
<1>11. CASE b + i < n /\ n <= b + i + d
  <2>1. /\ calls[n].op = "dbl" /\ symbol_' = symbol_
        /\ Counted(dbl_idx_, dbl_idx_', DBL_DELTA_SIZE, int_idx_, int_idx_')
    BY <1>4, <1>11, CountingStep
  <2>2. symbol_ = s /\ delta_.symbol = s
    BY <1>2, <1>3, <1>11 DEF Progress
  <2>3. PICK m \in Nat, x \in Nat :
          /\ Packed(i, INT_DELTA_SIZE, m, x)
          /\ Packed(at - (b + i), DBL_DELTA_SIZE, Count(published, s) - m, dbl_idx_)
    <3>1. CASE at = b + i
      <4>1. dbl_idx_ = 0 /\ Packed(at - b, INT_DELTA_SIZE, Count(published, s), int_idx_)
        BY <1>2, <1>3, <3>1 DEF Progress
      <4>2. /\ at - b = i /\ at - (b + i) = 0 /\ int_idx_ \in Nat
            /\ Count(published, s) - Count(published, s) = 0
        BY <1>2, <1>5, <1>6, <1>7, <3>1
      <4>3. Packed(0, DBL_DELTA_SIZE, 0, 0)
        BY <1>6, PackedNone
      <4> QED
        BY <1>5, <4>1, <4>2, <4>3
    <3>2. CASE b + i < at
      BY <1>2, <1>3, <1>11, <3>2 DEF Progress
    <3> QED
      BY <1>2, <1>11, <3>1, <3>2
  <2>4. at - (b + i) \in Nat /\ (at - (b + i)) + 1 = n - (b + i)
    BY <1>2, <1>11
  <2>5. /\ symbol_' = s /\ delta_.symbol' = s
        /\ Packed(n - (b + i), DBL_DELTA_SIZE, Count(published', s) - m, dbl_idx_')
    <3>1. /\ dbl_idx_ < DBL_DELTA_SIZE =>
               Packed(n - (b + i), DBL_DELTA_SIZE, Count(published, s) - m, dbl_idx_ + 1)
          /\ dbl_idx_ = DBL_DELTA_SIZE =>
               Packed(n - (b + i), DBL_DELTA_SIZE, (Count(published, s) - m) + 1, 1)
      BY <1>6, <2>3, <2>4, PackedOne
    <3>2. CASE published' = published /\ dbl_idx_' = dbl_idx_ + 1 /\ dbl_idx_ < DBL_DELTA_SIZE
      <4>1. Count(published', s) = Count(published, s)
        BY <3>2, CountSame
      <4> QED
        BY <2>1, <2>2, <3>1, <3>2, <4>1 DEF Counted
    <3>3. CASE /\ published' = Append(published, Now)
               /\ dbl_idx_' = 1 /\ dbl_idx_ = DBL_DELTA_SIZE
      <4>1. Count(published', s) = Count(published, s) + 1
        BY <2>2, <3>3, CountGrows
      <4>2. Count(published', s) - m = (Count(published, s) - m) + 1
        BY <1>5, <2>3, <4>1
      <4> QED
        BY <2>1, <2>2, <3>1, <3>3, <4>2 DEF Counted
    <3> QED
      BY <2>1, <3>2, <3>3 DEF Counted
  <2>6. n \in Nat /\ b <= n /\ ~(n < b) /\ ~(n <= b + i) /\ ~(b + i + d < n)
    BY <1>2, <1>11
  <2> HIDE DEF n
  <2> QED
    BY <1>1, <2>3, <2>5, <2>6 DEF Progress
<1>12. CASE n = b + i + d + 1
  <2>1. published' = Append(published, Now)
    BY <1>4, <1>12, CountingStep
  <2>2. delta_.symbol = s
    BY <1>2, <1>3, <1>12 DEF Progress
  <2>3. Count(published', s) = Count(published, s) + 1
    BY <2>1, <2>2, CountGrows
  <2>4. Count(published, s) + 1 = DeltasNeeded(i, d)
    <3>1. CASE d = 0
      <4>1. Packed(at - b, INT_DELTA_SIZE, Count(published, s), int_idx_) /\ at - b = i
        BY <1>2, <1>3, <1>12, <3>1 DEF Progress
      <4>2. Packed(0, DBL_DELTA_SIZE, 0, 0)
        BY <1>6, PackedNone
      <4>3. DeltasNeeded(i, d) = Count(published, s) + 0 + 1
        BY <1>2, <3>1, <4>1, <4>2, NeededIs
      <4> QED
        BY <1>5, <4>3
    <3>2. CASE d > 0
      <4>1. PICK m \in Nat, x \in Nat :
              /\ Packed(i, INT_DELTA_SIZE, m, x)
              /\ Packed(at - (b + i), DBL_DELTA_SIZE, Count(published, s) - m, dbl_idx_)
        BY <1>2, <1>3, <1>12, <3>2 DEF Progress
      <4>2. at - (b + i) = d
        BY <1>2, <1>12
      <4>3. DeltasNeeded(i, d) = m + (Count(published, s) - m) + 1
        BY <1>2, <4>1, <4>2, NeededIs
      <4> QED
        BY <1>5, <4>1, <4>3
    <3> QED
      BY <1>2, <3>1, <3>2
  <2>5. n \in Nat /\ ~(n < b) /\ ~(n <= b + i) /\ ~(n <= b + i + d) /\ b + i + d < n
    BY <1>2, <1>12
  <2> HIDE DEF n
  <2> QED
    BY <1>1, <2>3, <2>4, <2>5 DEF Progress
<1> QED
  BY <1>2, <1>8, <1>9, <1>10, <1>11, <1>12

LEMMA InProgressStep ==
  ASSUME Typed, Typed', Next, Orderly(calls), InProgress
  PROVE  InProgress'
<1> SUFFICES ASSUME ~failed'
             PROVE  InProgress'
  BY DEF InProgress
<1>1. calls' = calls
  BY CountingStep
<1>2. \A b \in 1..Len(calls), i, d \in 0..Len(calls) : Block(calls, b, i, d) => Progress(b, i, d)'
  BY ProgressStep
<1> QED
  BY <1>1, <1>2 DEF InProgress

LEMMA InitInProgress == Init => InProgress
<1> SUFFICES ASSUME Init, NEW b \in 1..Len(calls), NEW i \in 0..Len(calls), NEW d \in 0..Len(calls)
             PROVE  Progress(b, i, d)
  BY DEF InProgress
<1>1. at = 0 /\ published = <<>> /\ Len(calls) \in Nat
  BY ProgramsAssumption DEF Init
<1>2. Count(published, calls[b].symbol) = 0
  <2>1. {k \in 1..Len(published) : published[k].symbol = calls[b].symbol} = {}
    BY <1>1
  <2> QED
    BY <2>1, FS_EmptySet DEF Count
<1>3. b \in Nat /\ b > 0 /\ i \in Nat /\ d \in Nat
  BY <1>1
<1> QED
  BY <1>1, <1>2, <1>3 DEF Progress

\* A block's end and its values, as AsManyAsNeeded finds them.
LEMMA BlockIs ==
  ASSUME Len(calls) \in Nat, NEW b \in 1..Len(calls),
         NEW i \in 0..Len(calls), NEW d \in 0..Len(calls), Block(calls, b, i, d)
  PROVE  LET e == CHOOSE n \in Values("end") : n > b /\ \A m \in Values("end") : m > b => n <= m
             Of(op) == {n \in Values(op) : b < n /\ n < e}
         IN  /\ e = b + i + d + 1
             /\ Cardinality(Of("int")) = i /\ Cardinality(Of("dbl")) = d
<1> DEFINE e == CHOOSE n \in Values("end") : n > b /\ \A m \in Values("end") : m > b => n <= m
           Of(op) == {n \in Values(op) : b < n /\ n < e}
           z == b + i + d + 1
<1>1. /\ b \in Nat /\ i \in Nat /\ d \in Nat /\ z \in Nat /\ z \in 1..Len(calls) /\ b < z
  BY DEF Block
<1>2. \A n \in Nat : /\ b < n /\ n <= b + i => calls[n].op = "int"
                     /\ b + i < n /\ n <= b + i + d => calls[n].op = "dbl"
                     /\ n = z => calls[n].op = "end"
  <2>1. Laid(calls, b, i, d)
    BY <1>1, BlockLaid
  <2> QED
    BY <2>1 DEF Laid
<1>3. z \in Values("end")
  BY <1>1, <1>2 DEF Values
<1>4. ASSUME NEW m \in Values("end"), m > b
      PROVE  z <= m
  <2>1. m \in Nat /\ calls[m].op = "end"
    BY DEF Values
  <2>2. ~(b < m /\ m <= b + i) /\ ~(b + i < m /\ m <= b + i + d)
    BY <1>2, <2>1
  <2> QED
    BY <1>1, <1>4, <2>1, <2>2
<1>5. e = z
  <2>1. /\ e \in Values("end") /\ e > b
        /\ \A m \in Values("end") : m > b => e <= m
    BY <1>1, <1>3, <1>4
  <2>2. e \in Nat /\ e <= z /\ z <= e
    BY <1>1, <1>3, <1>4, <2>1 DEF Values
  <2> HIDE DEF e, z
  <2> QED
    BY <1>1, <2>2
<1> HIDE DEF e
<1>6. Of("int") = (b + 1)..(b + i)
  <2>1. ASSUME NEW n \in Of("int")
        PROVE  n \in (b + 1)..(b + i)
    <3>1. n \in Nat /\ calls[n].op = "int" /\ b < n /\ n < z
      BY <1>5 DEF Values
    <3>2. ~(b + i < n /\ n <= b + i + d)
      BY <1>2, <3>1
    <3> QED
      BY <1>1, <3>1, <3>2
  <2>2. ASSUME NEW n \in (b + 1)..(b + i)
        PROVE  n \in Of("int")
    <3>1. n \in Nat /\ b < n /\ n <= b + i /\ n < z /\ n \in 1..Len(calls)
      BY <1>1
    <3>2. calls[n].op = "int"
      BY <1>2, <3>1
    <3> QED
      BY <1>5, <3>1, <3>2 DEF Values
  <2> QED
    BY <2>1, <2>2
<1>7. Of("dbl") = (b + i + 1)..(b + i + d)
  <2>1. ASSUME NEW n \in Of("dbl")
        PROVE  n \in (b + i + 1)..(b + i + d)
    <3>1. n \in Nat /\ calls[n].op = "dbl" /\ b < n /\ n < z
      BY <1>5 DEF Values
    <3>2. ~(n <= b + i)
      BY <1>2, <3>1
    <3> QED
      BY <1>1, <3>1, <3>2
  <2>2. ASSUME NEW n \in (b + i + 1)..(b + i + d)
        PROVE  n \in Of("dbl")
    <3>1. n \in Nat /\ b + i < n /\ n <= b + i + d /\ b < n /\ n < z /\ n \in 1..Len(calls)
      BY <1>1
    <3>2. calls[n].op = "dbl"
      BY <1>2, <3>1
    <3> QED
      BY <1>5, <3>1, <3>2 DEF Values
  <2> QED
    BY <2>1, <2>2
<1>8. Cardinality((b + 1)..(b + i)) = i
  <2>1. b + 1 \in Int /\ b + i \in Int
    BY <1>1
  <2>2. Cardinality((b + 1)..(b + i)) = IF b + 1 > b + i THEN 0 ELSE (b + i) - (b + 1) + 1
    BY <2>1, FS_Interval
  <2> QED
    BY <1>1, <2>2
<1>9. Cardinality((b + i + 1)..(b + i + d)) = d
  <2>1. b + i + 1 \in Int /\ b + i + d \in Int
    BY <1>1
  <2>2. Cardinality((b + i + 1)..(b + i + d))
          = IF b + i + 1 > b + i + d THEN 0 ELSE (b + i + d) - (b + i + 1) + 1
    BY <2>1, FS_Interval
  <2> QED
    BY <1>1, <2>2
<1> HIDE DEF Of
<1>10. e = z /\ Cardinality(Of("int")) = i /\ Cardinality(Of("dbl")) = d
  BY <1>5, <1>6, <1>7, <1>8, <1>9
<1> QED
  BY <1>10 DEF e, z, Of

LEMMA ProgressNeeded ==
  ASSUME Typed, InProgress, Orderly(calls)
  PROVE  AsManyAsNeeded
<1>1. Len(calls) \in Nat /\ at \in Nat
  BY ProgramsAssumption DEF Typed, TypeOK
<1> SUFFICES ASSUME NEW b \in Values("begin")
             PROVE  LET e == CHOOSE n \in Values("end") :
                               n > b /\ \A m \in Values("end") : m > b => n <= m
                        Of(op) == {n \in Values(op) : b < n /\ n < e}
                    IN  e <= at /\ ~failed =>
                          Cardinality({k \in 1..Len(published) :
                                         published[k].symbol = calls[b].symbol})
                            = DeltasNeeded(Cardinality(Of("int")), Cardinality(Of("dbl")))
  BY DEF AsManyAsNeeded
<1> DEFINE e == CHOOSE n \in Values("end") : n > b /\ \A m \in Values("end") : m > b => n <= m
           Of(op) == {n \in Values(op) : b < n /\ n < e}
<1>2. b \in 1..Len(calls) /\ calls[b].op = "begin"
  BY DEF Values
<1>3. PICK i \in 0..Len(calls), d \in 0..Len(calls) : Block(calls, b, i, d)
  <2>1. PICK c \in 1..b, i \in 0..Len(calls), d \in 0..Len(calls) :
          Block(calls, c, i, d) /\ b <= c + i + d + 1
    BY <1>2 DEF Orderly
  <2>2. b = c
    <3>1. /\ b \in Nat /\ c \in Nat /\ i \in Nat /\ d \in Nat
      BY <1>1, <1>2
    <3>2. Laid(calls, c, i, d)
      BY <2>1, <3>1, BlockLaid
    <3>3. ~(c < b /\ b <= c + i) /\ ~(c + i < b /\ b <= c + i + d) /\ b # c + i + d + 1
      BY <1>2, <3>1, <3>2 DEF Laid
    <3> QED
      BY <2>1, <3>1, <3>3
  <2> QED
    BY <2>1, <2>2
<1>4. e = b + i + d + 1 /\ Cardinality(Of("int")) = i /\ Cardinality(Of("dbl")) = d
  BY <1>1, <1>2, <1>3, BlockIs
<1> HIDE DEF e, Of
<1>5. ASSUME e <= at, ~failed
      PROVE  Count(published, calls[b].symbol) = DeltasNeeded(i, d)
  <2>1. Progress(b, i, d)
    BY <1>2, <1>3, <1>5 DEF InProgress
  <2>2. b + i + d < at
    BY <1>1, <1>2, <1>4, <1>5
  <2> QED
    BY <2>1, <2>2 DEF Progress
<1>6. e <= at /\ ~failed =>
        Count(published, calls[b].symbol)
          = DeltasNeeded(Cardinality(Of("int")), Cardinality(Of("dbl")))
  BY <1>4, <1>5
<1> QED
  BY <1>6 DEF Count, e, Of

\* Generators that add the integers of a symbol before its doubles, each symbol once,
\* have each symbol published in as few deltas as its values need, unless one fails.
THEOREM DeltasAsNeeded ==
  ASSUME \A p \in Programs : Orderly(p)
  PROVE  Spec => []AsManyAsNeeded
<1> DEFINE I == BInv /\ InProgress
<1>1. Init => I
  BY InitBInv, InitInProgress
<1>2. I /\ [Next]_vars => I'
  <2> SUFFICES ASSUME I, [Next]_vars
               PROVE  I'
    OBVIOUS
  <2>1. BInv'
    BY StepBInv
  <2>2. Typed /\ Typed' /\ Orderly(calls)
    BY <2>1 DEF BInv, Typed
  <2>3. CASE Next
    BY <2>1, <2>2, <2>3, InProgressStep
  <2>4. CASE UNCHANGED vars
    <3>1. /\ calls' = calls /\ at' = at /\ symbol_' = symbol_ /\ delta_' = delta_
          /\ int_idx_' = int_idx_ /\ dbl_idx_' = dbl_idx_
          /\ published' = published /\ failed' = failed
      BY <2>4 DEF vars
    <3>2. \A b, i, d : Progress(b, i, d) => Progress(b, i, d)'
      BY <3>1 DEF Progress
    <3>3. InProgress'
      BY <3>1, <3>2 DEF InProgress
    <3> QED
      BY <2>1, <3>3
  <2> QED
    BY <2>3, <2>4
<1>3. I => AsManyAsNeeded
  BY ProgressNeeded DEF BInv, Typed
<1> QED
  BY <1>1, <1>2, <1>3, PTL DEF Spec
=============================================================================
