----------------------------- MODULE Induction -----------------------------
(* Induction over the natural numbers, stated of sets instead of operators so *)
(* that the provers can use it: from the well-foundedness of <, and what it    *)
(* yields for functions that are defined by recursion.                        *)
EXTENDS Integers, WellFoundedInduction, TLAPS

\* A set of natural numbers that is not empty has a least element.
LEMMA LeastNat ==
    ASSUME NEW S, S \subseteq Nat, S # {}
    PROVE  \E x \in S : \A y \in S : x <= y
  <1> DEFINE R == OpToRel(<, Nat)
  <1>1. IsWellFoundedOn(R, Nat)
    BY NatLessThanWellFounded
  <1>2. \A x, y \in Nat : x < y => <<x, y>> \in R
    BY DEF OpToRel
  <1> HIDE DEF R
  <1>3. PICK x \in S : \A y \in S : ~(<<y, x>> \in R)
    BY <1>1, WFMin
  <1>4. ASSUME NEW y \in S PROVE x <= y
    <2>1. x \in Nat /\ y \in Nat
      OBVIOUS
    <2>2. ~(y < x)
      BY <1>2, <1>3, <2>1
    <2> QED
      BY <2>1, <2>2
  <1> QED
    BY <1>4

\* Induction: a set with 0 and with the successors of its numbers has them all.
LEMMA SetInduction ==
    ASSUME NEW S, 0 \in S, \A n \in Nat : n \in S => n + 1 \in S
    PROVE  Nat \subseteq S
  <1> SUFFICES ASSUME ~(Nat \subseteq S) PROVE FALSE
    OBVIOUS
  <1> DEFINE T == Nat \ S
  <1>1. PICK x \in T : \A y \in T : x <= y
    <2>1. T # {} /\ T \subseteq Nat
      OBVIOUS
    <2> HIDE DEF T
    <2> QED  BY <2>1, LeastNat
  <1>2. x # 0 /\ x - 1 \in Nat /\ x \in Nat /\ (x - 1) + 1 = x
    BY <1>1
  <1>3. x - 1 \notin T
    BY <1>1, <1>2
  <1> QED
    BY <1>1, <1>2, <1>3

\* The same up to a bound.
LEMMA BoundedInduction ==
    ASSUME NEW N \in Nat, NEW S, 0 \in S, \A i \in 1..N : i - 1 \in S => i \in S
    PROVE  0..N \subseteq S
  <1> DEFINE T == {n \in Nat : n <= N => n \in S}
  <1>1. 0 \in T
    OBVIOUS
  <1>2. ASSUME NEW n \in Nat, n \in T PROVE n + 1 \in T
    <2>1. CASE n + 1 <= N
      <3>1. n \in S /\ n + 1 \in 1..N /\ (n + 1) - 1 = n
        BY <1>2, <2>1
      <3>2. n + 1 \in S
        BY <3>1
      <3> QED
        BY <3>2
    <2> QED
      BY <2>1
  <1>3. Nat \subseteq T
    <2> HIDE DEF T
    <2> QED  BY <1>1, <1>2, SetInduction
  <1> QED
    BY <1>3

\* Recursion: a function is given by its first value and by what each value
\* makes of the one before.
Unrolls(f, N, X, first, g) ==
    /\ f \in [0..N -> X] /\ f[0] = first
    /\ \A i \in 1..N : f[i] = g[<<i, f[i - 1]>>]

LEMMA BoundedRecursion ==
    ASSUME NEW N \in Nat, NEW X, NEW first \in X, NEW g \in [(1..N) \X X -> X]
    PROVE  \E f : Unrolls(f, N, X, first, g)
  <1> DEFINE Upto(n, f) == f[0] = first /\ \A i \in 1..n : f[i] = g[<<i, f[i - 1]>>]
             T == {n \in 0..N : \E f \in [0..N -> X] : Upto(n, f)}
  <1>1. 0 \in T
    <2> DEFINE h == [k \in 0..N |-> first]
    <2>1. h \in [0..N -> X] /\ Upto(0, h)
      OBVIOUS
    <2>2. 0 \in 0..N
      OBVIOUS
    <2> HIDE DEF h, Upto
    <2> QED
      BY <2>1, <2>2
  <1>2. ASSUME NEW n \in 1..N, n - 1 \in T PROVE n \in T
    <2>1. PICK f \in [0..N -> X] : Upto(n - 1, f)
      BY <1>2
    <2> DEFINE y == g[<<n, f[n - 1]>>]
               h == [f EXCEPT ![n] = y]
    <2>2. f[n - 1] \in X
      BY <2>1
    <2>3. y \in X
      BY <2>2
    <2>4. h \in [0..N -> X] /\ h[n] = y /\ \A k \in 0..N : k # n => h[k] = f[k]
      BY <2>1, <2>3
    <2>5. n - 1 \in 0..N /\ 0 \in 0..N /\ n # 0 /\ n - 1 # n
      OBVIOUS
    <2>6. h[n - 1] = f[n - 1] /\ h[0] = f[0]
      BY <2>4, <2>5
    <2> HIDE DEF h
    <2>7. ASSUME NEW i \in 1..n PROVE h[i] = g[<<i, h[i - 1]>>]
      <3>1. CASE i = n
        BY <2>4, <2>6, <3>1
      <3>2. CASE i # n
        <4>1. i \in 1..(n - 1) /\ i \in 0..N /\ i - 1 \in 0..N /\ i - 1 # n
          BY <3>2
        <4>2. h[i] = f[i] /\ h[i - 1] = f[i - 1]
          BY <2>4, <3>2, <4>1
        <4>3. f[i] = g[<<i, f[i - 1]>>]
          BY <2>1, <4>1
        <4> QED
          BY <4>2, <4>3
      <3> QED
        BY <3>1, <3>2
    <2>8. Upto(n, h)
      BY <2>1, <2>6, <2>7
    <2> HIDE DEF Upto
    <2> QED
      BY <2>4, <2>8
  <1>3. N \in T
    <2> HIDE DEF T
    <2>1. 0..N \subseteq T
      BY <1>1, <1>2, BoundedInduction
    <2> QED
      BY <2>1
  <1> QED
    BY <1>3 DEF Unrolls
=============================================================================
