-------------------------- MODULE MCMdDeltaBuilder --------------------------
(* Small instances of MdDeltaBuilder for TLC. *)
EXTENDS MdDeltaBuilder

CONSTANT MaxNum   \* bound: values of one kind added for a symbol

Symbols == <<"a", "b">>

\* The generators as they are called: the one that ends only once is given one
\* symbol.
MCPrograms ==
  {MakeOneDelta("a")}
    \cup {MakeNIntDelta("a", n) : n \in 0..MaxNum}
    \cup {SendGeneratedDelta(Symbols, n) : n \in 0..MaxNum}
    \cup {SendGeneratedSubtypeDelta(<<"a">>, n, t) : n \in 1..MaxNum, t \in {"i", "l", "s"}}

\* The program's generators add ints before doubles, and each symbol once.
ASSUME ProgramsOrderly == \A p \in Programs : Orderly(p)
=============================================================================
