---------------------------- MODULE FoldTheorems ----------------------------
(***************************************************************************)
(* What a fold computes, step by step.  Records writes its loops as folds, *)
(* by recursion on the length of a sequence: for every operator that is    *)
(* folded this module is instantiated, and the loop's results after each   *)
(* element are then the values of a function, to which induction over the  *)
(* naturals applies.                                                       *)
(***************************************************************************)
EXTENDS Integers, Sequences, WellFoundedInduction, TLAPS

CONSTANT op(_, _)

\* The fold of module Records, over op.
FoldOf(base, s) ==
  LET f[k \in 0..Len(s)] == IF k = 0 THEN base ELSE op(f[k - 1], s[k]) IN f[Len(s)]

\* A set of naturals has a least element.
LEMMA LeastNat ==
  ASSUME NEW T \in SUBSET Nat, T # {}
  PROVE  \E x \in T : \A y \in T : x <= y
<1>1. IsWellFoundedOn(OpToRel(<, Nat), Nat)
  BY NatLessThanWellFounded
<1>2. PICK x \in T : \A y \in T : ~ (<<y, x>> \in OpToRel(<, Nat))
  BY <1>1, WFMin
<1>3. \A y \in T : ~ (y < x)
  BY <1>2 DEF OpToRel
<1> QED
  BY <1>3

\* What holds of 0, and of n when it holds of n - 1: T is what it holds of.
LEMMA Induction ==
  ASSUME NEW N \in Nat, NEW T, 0 \in T,
         \A n \in 1..N : n - 1 \in T => n \in T
  PROVE  \A n \in 0..N : n \in T
<1>1. SUFFICES ASSUME {n \in 0..N : n \notin T} # {} PROVE FALSE
  OBVIOUS
<1>2. PICK n \in {n \in 0..N : n \notin T} : \A k \in {k \in 0..N : k \notin T} : n <= k
  <2>1. {k \in 0..N : k \notin T} \in SUBSET Nat
    OBVIOUS
  <2> QED
    BY <1>1, <2>1, LeastNat
<1>3. n # 0 /\ n - 1 \in 0..N /\ ~ (n <= n - 1)
  BY <1>2
<1> QED
  BY <1>2, <1>3

\* The values a fold goes through.
Folds(g, base, s) == g[0] = base /\ \A k \in 1..Len(s) : g[k] = op(g[k - 1], s[k])

\* They exist, and the fold is the last one.
LEMMA FoldChain ==
  ASSUME NEW base, NEW s, Len(s) \in Nat
  PROVE  \E g : Folds(g, base, s) /\ FoldOf(base, s) = g[Len(s)]
<1> DEFINE n == Len(s)
           Step(q, k) == op(q, s[k])
           Chain(g, N) == g = [k \in 0..N |-> IF k = 0 THEN base ELSE Step(g[k - 1], k)]
           T == {N \in 0..n : \E g : Chain(g, N)}
<1>1. 0 \in T
  <2> DEFINE g == [k \in 0..0 |-> base]
  <2>1. Chain(g, 0)
    OBVIOUS
  <2> HIDE DEF g, Chain
  <2> QED
    BY <2>1
<1>2. ASSUME NEW N \in 1..n, N - 1 \in T
      PROVE  N \in T
  <2> HIDE DEF Step
  <2>1. PICK g : Chain(g, N - 1)
    BY <1>2
  <2> DEFINE h == [k \in 0..N |-> IF k = N THEN Step(g[N - 1], N) ELSE g[k]]
  <2>2. ASSUME NEW k \in 0..N
        PROVE  h[k] = IF k = 0 THEN base ELSE Step(h[k - 1], k)
    <3>1. CASE k = N
      <4>1. k # 0 /\ k - 1 \in 0..N /\ k - 1 # N
        BY <3>1
      <4> QED
        BY <3>1, <4>1
    <3>2. CASE k # N
      <4>1. k \in 0..(N - 1) /\ (k # 0 => k - 1 \in 0..N /\ k - 1 # N)
        BY <3>2
      <4>2. g[k] = IF k = 0 THEN base ELSE Step(g[k - 1], k)
        BY <2>1, <4>1
      <4> QED
        BY <3>2, <4>1, <4>2
    <3> QED
      BY <3>1, <3>2
  <2>3. h = [k \in 0..N |-> h[k]]
    OBVIOUS
  <2> HIDE DEF h
  <2>4. Chain(h, N)
    BY <2>2, <2>3
  <2> HIDE DEF Chain
  <2> QED
    BY <2>4
<1>3. \E g : Chain(g, n)
  <2> HIDE DEF T
  <2>1. n \in T
    <3> HIDE DEF Chain
    <3>1. \A N \in 0..n : N \in T
      BY <1>1, <1>2, Induction
    <3> QED
      BY <3>1
  <2> HIDE DEF Chain
  <2> QED
    BY <2>1 DEF T
<1> DEFINE f == CHOOSE g : Chain(g, n)
<1>4. FoldOf(base, s) = f[n]
  BY Zenon DEF FoldOf
<1> HIDE DEF f
<1>5. Chain(f, n)
  <2> HIDE DEF Chain
  <2> QED
    BY <1>3 DEF f
<1> HIDE DEF Step
<1>6. f[0] = base /\ \A k \in 1..n : f[k] = Step(f[k - 1], k)
  BY <1>5
<1> HIDE DEF Chain
<1>7. Folds(f, base, s)
  BY <1>6 DEF Folds, Step
<1> QED
  BY <1>4, <1>7
=============================================================================
