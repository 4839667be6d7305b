--------------------------- MODULE MdDeltaBuilder ---------------------------
(***************************************************************************)
(* MdDeltaBuilder packs values into deltas of fixed capacity, publishing a *)
(* delta when it is full and what is left at end(), driven by the          *)
(* generators of deltas, none of which looks at what the builder returns.  *)
(*                                                                         *)
(* A generator is the sequence of calls it makes.  A value is identified   *)
(* by the number of the call that adds it.                                 *)
(***************************************************************************)
EXTENDS Integers, Sequences, SequencesExt

CONSTANTS
  INT_DELTA_SIZE,
  DBL_DELTA_SIZE,
  Programs          \* generators run: sequences of calls

ASSUME BuilderAssumption ==
  INT_DELTA_SIZE \in Nat \ {0} /\ DBL_DELTA_SIZE \in Nat \ {0}

IsValue(call) == call.op \in {"int", "dbl"}

\* Each value is added between a begin and an end with nothing but values between.
ASSUME ProgramsAssumption ==
  \A p \in Programs :
    /\ Len(p) \in Nat
    /\ \A n \in 1..Len(p) :
         /\ p[n].op \in {"begin", "int", "dbl", "end"}
         /\ IsValue(p[n]) =>
              \E b \in 1..(n - 1), e \in (n + 1)..Len(p) :
                /\ p[b].op = "begin" /\ p[e].op = "end"
                /\ \A m \in (b + 1)..(e - 1) : IsValue(p[m])

-----------------------------------------------------------------------------
(* The generators. *)

BeginCall(s) == <<[op |-> "begin", symbol |-> s]>>
Ints(n) == [i \in 1..n |-> [op |-> "int"]]
Dbls(n) == [i \in 1..n |-> [op |-> "dbl"]]
EndCall == <<[op |-> "end"]>>

MakeOneDelta(s) == BeginCall(s) \o Ints(INT_DELTA_SIZE) \o Dbls(DBL_DELTA_SIZE) \o EndCall

MakeNIntDelta(s, n) == BeginCall(s) \o Ints(INT_DELTA_SIZE * n) \o EndCall

SendGeneratedDelta(symbols, num) ==
  FlattenSeq([k \in 1..Len(symbols) |->
                BeginCall(symbols[k]) \o Ints(num) \o Dbls(num) \o EndCall])

\* end() is called once, after the loop over the symbols; 's' adds nothing.
SendGeneratedSubtypeDelta(symbols, num, dtype) ==
  FlattenSeq([k \in 1..Len(symbols) |->
                BeginCall(symbols[k]) \o
                  (CASE dtype = "i" -> Ints(num) [] dtype = "l" -> Dbls(num) [] OTHER -> <<>>)])
    \o EndCall

-----------------------------------------------------------------------------
VARIABLES
  calls,       \* the generator's calls
  at,          \* how many have been made
  symbol_,
  delta_,      \* the delta being built: its symbol and its two arrays
  int_idx_,
  dbl_idx_,
  published,   \* deltas published
  failed,      \* history: a publish failed
  accepted     \* history: values whose add returned true

vars == <<calls, at, symbol_, delta_, int_idx_, dbl_idx_, published, failed, accepted>>

NoSymbol == "none"

Init ==
  /\ calls \in Programs
  /\ at = 0
  /\ symbol_ = NoSymbol
  /\ delta_ = [symbol |-> NoSymbol,
               int |-> [i \in 1..INT_DELTA_SIZE |-> 0],
               dbl |-> [i \in 1..DBL_DELTA_SIZE |-> 0]]
  /\ int_idx_ = 0 /\ dbl_idx_ = 0
  /\ published = <<>>
  /\ failed = FALSE
  /\ accepted = {}

\* The next call is op; its number is at + 1.
Call(op) ==
  /\ at < Len(calls)
  /\ calls[at + 1].op = op
  /\ at' = at + 1
  /\ UNCHANGED calls

\* flush_delta: the used parts of the arrays are published; publish may fail.
FlushDelta(ok) ==
  /\ published' = IF ok
       THEN Append(published, [symbol |-> delta_.symbol,
                               int |-> SubSeq(delta_.int, 1, int_idx_),
                               dbl |-> SubSeq(delta_.dbl, 1, dbl_idx_)])
       ELSE published
  /\ failed' = (failed \/ ~ok)

\* init_delta: a delta of symbol s in the same arrays, which are not cleared.
InitDelta(s) == [delta_ EXCEPT !.symbol = s]

\* begin: what was not flushed is forgotten.
Begin ==
  /\ Call("begin")
  /\ symbol_' = calls[at + 1].symbol
  /\ delta_' = InitDelta(calls[at + 1].symbol)
  /\ int_idx_' = 0 /\ dbl_idx_' = 0
  /\ UNCHANGED <<published, failed, accepted>>

\* Mutant: the delta is flushed one value early.
MutAddInt ==
  /\ Call("int")
  /\ \/ /\ int_idx_ < INT_DELTA_SIZE - 1
        /\ delta_' = [delta_ EXCEPT !.int[int_idx_ + 1] = at + 1]
        /\ int_idx_' = int_idx_ + 1
        /\ accepted' = accepted \cup {at + 1}
        /\ UNCHANGED <<symbol_, dbl_idx_, published, failed>>
     \/ /\ int_idx_ = INT_DELTA_SIZE - 1
        /\ FlushDelta(TRUE)
        /\ delta_' = [InitDelta(symbol_) EXCEPT !.int[1] = at + 1]
        /\ int_idx_' = 1 /\ dbl_idx_' = 0
        /\ accepted' = accepted \cup {at + 1}
        /\ UNCHANGED symbol_

\* Mutant: the array is taken to be one longer than it is.
MutAddIntLate ==
  /\ Call("int")
  /\ int_idx_ <= INT_DELTA_SIZE
  /\ int_idx_' = int_idx_ + 1
  /\ accepted' = accepted \cup {at + 1}
  /\ UNCHANGED <<symbol_, delta_, dbl_idx_, published, failed>>

\* Mutant: after a failed flush the delta is begun anew all the same.
MutAddIntInitAnyway ==
  /\ Call("int")
  /\ \/ /\ int_idx_ < INT_DELTA_SIZE
        /\ delta_' = [delta_ EXCEPT !.int[int_idx_ + 1] = at + 1]
        /\ int_idx_' = int_idx_ + 1
        /\ accepted' = accepted \cup {at + 1}
        /\ UNCHANGED <<symbol_, dbl_idx_, published, failed>>
     \/ /\ int_idx_ = INT_DELTA_SIZE
        /\ \E ok \in BOOLEAN : FlushDelta(ok)
        /\ delta_' = [InitDelta(symbol_) EXCEPT !.int[1] = at + 1]
        /\ int_idx_' = 1 /\ dbl_idx_' = 0
        /\ accepted' = accepted \cup {at + 1}
        /\ UNCHANGED symbol_

\* add_intdata: room in the array, a full array flushed, or one that cannot be.
AddInt ==
  /\ Call("int")
  /\ \/ /\ int_idx_ < INT_DELTA_SIZE
        /\ delta_' = [delta_ EXCEPT !.int[int_idx_ + 1] = at + 1]
        /\ int_idx_' = int_idx_ + 1
        /\ accepted' = accepted \cup {at + 1}
        /\ UNCHANGED <<symbol_, dbl_idx_, published, failed>>
     \/ /\ int_idx_ = INT_DELTA_SIZE
        /\ FlushDelta(TRUE)
        /\ delta_' = [InitDelta(symbol_) EXCEPT !.int[1] = at + 1]
        /\ int_idx_' = 1 /\ dbl_idx_' = 0
        /\ accepted' = accepted \cup {at + 1}
        /\ UNCHANGED symbol_
     \/ /\ int_idx_ = INT_DELTA_SIZE
        /\ FlushDelta(FALSE)
        /\ UNCHANGED <<symbol_, delta_, int_idx_, dbl_idx_, accepted>>

\* Mutant: flush_and_begin resets only the index of the array that was full.
MutAddDbl ==
  /\ Call("dbl")
  /\ \/ /\ dbl_idx_ < DBL_DELTA_SIZE
        /\ delta_' = [delta_ EXCEPT !.dbl[dbl_idx_ + 1] = at + 1]
        /\ dbl_idx_' = dbl_idx_ + 1
        /\ accepted' = accepted \cup {at + 1}
        /\ UNCHANGED <<symbol_, int_idx_, published, failed>>
     \/ /\ dbl_idx_ = DBL_DELTA_SIZE
        /\ FlushDelta(TRUE)
        /\ delta_' = [InitDelta(symbol_) EXCEPT !.dbl[1] = at + 1]
        /\ dbl_idx_' = 1
        /\ accepted' = accepted \cup {at + 1}
        /\ UNCHANGED <<symbol_, int_idx_>>

\* add_dbldata: the same for the other array.
AddDbl ==
  /\ Call("dbl")
  /\ \/ /\ dbl_idx_ < DBL_DELTA_SIZE
        /\ delta_' = [delta_ EXCEPT !.dbl[dbl_idx_ + 1] = at + 1]
        /\ dbl_idx_' = dbl_idx_ + 1
        /\ accepted' = accepted \cup {at + 1}
        /\ UNCHANGED <<symbol_, int_idx_, published, failed>>
     \/ /\ dbl_idx_ = DBL_DELTA_SIZE
        /\ FlushDelta(TRUE)
        /\ delta_' = [InitDelta(symbol_) EXCEPT !.dbl[1] = at + 1]
        /\ int_idx_' = 0 /\ dbl_idx_' = 1
        /\ accepted' = accepted \cup {at + 1}
        /\ UNCHANGED symbol_
     \/ /\ dbl_idx_ = DBL_DELTA_SIZE
        /\ FlushDelta(FALSE)
        /\ UNCHANGED <<symbol_, delta_, int_idx_, dbl_idx_, accepted>>

\* end
End ==
  /\ Call("end")
  /\ \/ /\ FlushDelta(TRUE)
        /\ symbol_' = NoSymbol /\ int_idx_' = 0 /\ dbl_idx_' = 0
     \/ /\ FlushDelta(FALSE)
        /\ UNCHANGED <<symbol_, int_idx_, dbl_idx_>>
  /\ UNCHANGED <<delta_, accepted>>

Next == Begin \/ AddInt \/ AddDbl \/ End

Spec == Init /\ [][Next]_vars

-----------------------------------------------------------------------------
(* Properties. *)

\* Types: the indices stay within the arrays.
TypeOK ==
  /\ at \in 0..Len(calls)
  /\ int_idx_ \in 0..INT_DELTA_SIZE
  /\ dbl_idx_ \in 0..DBL_DELTA_SIZE
  /\ delta_.int \in [1..INT_DELTA_SIZE -> 0..at]
  /\ delta_.dbl \in [1..DBL_DELTA_SIZE -> 0..at]
  /\ failed \in BOOLEAN
  /\ accepted \subseteq 1..at

Values(op) == {n \in 1..Len(calls) : calls[n].op = op}

\* The begin call that a value was added after.
BeginOf(n) == CHOOSE b \in Values("begin") :
                b < n /\ \A c \in Values("begin") : c < n => c <= b

PublishedInts == [k \in 1..Len(published) |-> published[k].int]
PublishedDbls == [k \in 1..Len(published) |-> published[k].dbl]

\* The values of the arrays, one array after the other, increase.
Increasing(arrays) ==
  \A k, l \in DOMAIN arrays :
    \A i \in 1..Len(arrays[k]), j \in 1..Len(arrays[l]) :
      k < l \/ (k = l /\ i < j) => arrays[k][i] < arrays[l][j]

\* However values fall on deltas and whichever publish fails: a delta carries
\* only values that were accepted, of its own symbol, in the order they were
\* added and each in one delta only; in particular none that an earlier delta
\* left behind in the arrays.
PublishedFaithfully ==
  /\ Increasing(PublishedInts) /\ Increasing(PublishedDbls)
  /\ \A k \in 1..Len(published) :
       \A n \in ToSet(published[k].int) \cup ToSet(published[k].dbl) :
         /\ n \in accepted
         /\ calls[BeginOf(n)].symbol = published[k].symbol

Published ==
  UNION {ToSet(published[k].int) \cup ToSet(published[k].dbl) : k \in 1..Len(published)}

Pending == {delta_.int[i] : i \in 1..int_idx_} \cup {delta_.dbl[i] : i \in 1..dbl_idx_}

\* README: "builder internally will decide when to send delta, we just add data
\* to it - as much as needed": while a symbol is open, a value that was accepted
\* is either published or still in the delta, so that a failed publish loses the
\* value offered and no other; and a generator that has made its calls without a
\* publish failing has published every value.
NothingElseLost ==
  /\ symbol_ # NoSymbol =>
       \A n \in accepted : BeginOf(n) = BeginOf(at + 1) => n \in Published \cup Pending
  /\ at = Len(calls) /\ ~failed => Values("int") \cup Values("dbl") \subseteq Published

\* Deltas needed for i ints followed by d doubles: the ints' last delta is also
\* the first one of the doubles.
DeltasNeeded(i, d) ==
  LET Parts(n, size) == IF n = 0 THEN 1 ELSE ((n - 1) \div size) + 1
  IN  Parts(i, INT_DELTA_SIZE) + Parts(d, DBL_DELTA_SIZE) - 1

\* begin at call b, i ints and then d doubles, and end.
Block(p, b, i, d) ==
  /\ b + i + d + 1 <= Len(p)
  /\ p[b].op = "begin" /\ p[b + i + d + 1].op = "end"
  /\ \A k \in 1..i : p[b + k].op = "int"
  /\ \A k \in 1..d : p[b + i + k].op = "dbl"

\* The generator makes no call outside of such a block, and one block for a symbol.
Orderly(p) ==
  /\ \A n \in 1..Len(p) :
       \E b \in 1..n, i, d \in 0..Len(p) : Block(p, b, i, d) /\ n <= b + i + d + 1
  /\ \A b, c \in 1..Len(p) :
       p[b].op = "begin" /\ p[c].op = "begin" /\ p[b].symbol = p[c].symbol => b = c

\* A symbol is published in as many deltas as its values need; make_one_delta,
\* and with it a turn of task_publisher, calls publish once for each symbol.
AsManyAsNeeded ==
  \A b \in Values("begin") :
    LET e == CHOOSE n \in Values("end") : n > b /\ \A m \in Values("end") : m > b => n <= m
        Of(op) == {n \in Values(op) : b < n /\ n < e}
    IN  e <= at /\ ~failed =>
          Cardinality({k \in 1..Len(published) :
                         published[k].symbol = calls[b].symbol})
            = DeltasNeeded(Cardinality(Of("int")), Cardinality(Of("dbl")))
=============================================================================
