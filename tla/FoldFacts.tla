----------------------------- MODULE FoldFacts -----------------------------
(***************************************************************************)
(* What a fold over a sequence returns, for any operator: the accumulators  *)
(* it goes through.  A module that reasons about a fold of its own          *)
(* instantiates this one with the operator of the fold.                     *)
(***************************************************************************)
EXTENDS WellFoundedInduction

CONSTANT Op(_, _, _)   \* of what the fold is about, the accumulator and an element

Top(S) == CHOOSE x \in S : \A y \in S : x >= y

\* FoldLeft of the sequence module, spelt out
Fold(par, base, s) ==
    LET iter[S \in SUBSET DOMAIN s] ==
            IF S = {} THEN base ELSE Op(par, iter[S \ {Top(S)}], s[Top(S)])
    IN iter[DOMAIN s]

\* The accumulators of a fold over the first n elements, by the prefixes folded
Iterates(f, par, base, s, n) ==
    f = [S \in SUBSET (1..n) |->
            IF S = {} THEN base ELSE Op(par, f[S \ {Top(S)}], s[Top(S)])]

\* One accumulator for each number of elements that were read
Trajectory(acc, par, base, s, n) ==
    /\ acc[0] = base
    /\ \A k \in 1..n : acc[k] = Op(par, acc[k - 1], s[k])

-----------------------------------------------------------------------------

\* Every set of numbers that is not empty has a least one.
LEMMA Least ==
    ASSUME NEW T, T \subseteq Nat, T # {}
    PROVE  \E x \in T : \A y \in T : x <= y
<1> DEFINE R == OpToRel(<, Nat)
<1>1. IsWellFoundedOn(R, Nat) BY NatLessThanWellFounded
<1>2. \A x, y \in Nat : x < y => <<x, y>> \in R BY DEF OpToRel
<1> HIDE DEF R
<1>3. PICK x \in T : \A y \in T : ~(<<y, x>> \in R) BY <1>1, WFMin
<1>4. \A y \in T : ~(y < x) BY <1>2, <1>3
<1> QED BY <1>3, <1>4

\* Induction over the numbers, as a statement about sets.
LEMMA Induction ==
    ASSUME NEW T, 0 \in T, \A n \in Nat : n \in T => n + 1 \in T
    PROVE  Nat \subseteq T
<1> SUFFICES ASSUME ~(Nat \subseteq T) PROVE FALSE OBVIOUS
<1>1. PICK x \in Nat \ T : \A y \in Nat \ T : x <= y BY Least
<1>2. x # 0 /\ x - 1 \in Nat OBVIOUS
<1>3. x - 1 \in T BY <1>1, <1>2
<1> QED BY <1>2, <1>3

LEMMA TopOf ==
    ASSUME NEW n \in Nat, NEW S, S \subseteq 1..n, S # {}
    PROVE  Top(S) \in S /\ \A y \in S : Top(S) >= y
<1> DEFINE T == {k \in 0..n : \E x \in S : x = n - k}
<1>1. T \subseteq Nat /\ T # {}
  <2>1. PICK x \in S : x \in 1..n OBVIOUS
  <2>2. n - x \in 0..n /\ x = n - (n - x) BY <2>1
  <2>3. n - x \in T BY <2>2
  <2>4. T \subseteq 0..n OBVIOUS
  <2> HIDE DEF T
  <2> QED BY <2>3, <2>4
<1> HIDE DEF T
<1>2. PICK k \in T : \A y \in T : k <= y
  BY <1>1, Least
<1>3. PICK x \in S : x = n - k /\ k \in 0..n
  BY <1>2 DEF T
<1>4. ASSUME NEW y \in S PROVE x >= y
  <2>1. y \in 1..n /\ x \in 1..n OBVIOUS
  <2>2. n - y \in 0..n /\ y = n - (n - y) BY <2>1
  <2>3. n - y \in T BY <2>2 DEF T
  <2> QED BY <1>2, <1>3, <2>1, <2>3
<1>5. \E z \in S : \A y \in S : z >= y
  BY <1>4
<1> QED BY <1>5 DEF Top

\* There is such a function, whatever the accumulators are.
LEMMA Iterable ==
    ASSUME NEW par, NEW base, NEW s, NEW n \in Nat
    PROVE  \E f : Iterates(f, par, base, s, n)
<1> DEFINE T == {m \in Nat : \E f : Iterates(f, par, base, s, m)}
<1>1. 0 \in T
  <2>1. SUBSET (1..0) = {{}}
    OBVIOUS
  <2>2. Iterates([S \in {{}} |-> base], par, base, s, 0)
    BY <2>1 DEF Iterates
  <2> QED BY <2>2
<1>2. ASSUME NEW m \in Nat, m \in T
      PROVE  m + 1 \in T
  <2>1. PICK f : Iterates(f, par, base, s, m)
    BY <1>2
  <2> DEFINE g == [S \in SUBSET (1..m + 1) |->
                      IF m + 1 \in S THEN Op(par, f[S \ {m + 1}], s[m + 1]) ELSE f[S]]
  <2>2. ASSUME NEW S \in SUBSET (1..m + 1)
        PROVE  g[S] = IF S = {} THEN base ELSE Op(par, g[S \ {Top(S)}], s[Top(S)])
    <3>1. CASE m + 1 \in S
      <4>1. Top(S) = m + 1
        <5> HIDE DEF g
        <5>1. m + 1 \in Nat /\ S \subseteq 1..m + 1 /\ S # {}
          BY <3>1
        <5>2. Top(S) \in S /\ Top(S) >= m + 1
          BY <3>1, <5>1, TopOf
        <5>3. Top(S) \in 1..m + 1
          BY <5>1, <5>2
        <5> QED BY <5>2, <5>3
      <4>2. S \ {m + 1} \in SUBSET (1..m + 1) /\ m + 1 \notin S \ {m + 1}
        OBVIOUS
      <4>3. g[S \ {m + 1}] = f[S \ {m + 1}]
        BY <4>2
      <4> QED BY <3>1, <4>1, <4>3
    <3>2. CASE m + 1 \notin S
      <4>1. S \in SUBSET (1..m) /\ g[S] = f[S]
        <5>1. \A x \in S : x \in 1..m
          BY <3>2
        <5> QED BY <3>2, <5>1
      <4>2. f[S] = IF S = {} THEN base ELSE Op(par, f[S \ {Top(S)}], s[Top(S)])
        BY <2>1, <4>1 DEF Iterates
      <4>3. CASE S # {}
        <5>1. S \ {Top(S)} \in SUBSET (1..m + 1) /\ m + 1 \notin S \ {Top(S)}
          BY <3>2
        <5>2. g[S \ {Top(S)}] = f[S \ {Top(S)}]
          BY <5>1
        <5> QED BY <4>1, <4>2, <4>3, <5>2
      <4> QED BY <4>1, <4>2, <4>3
    <3> QED BY <3>1, <3>2
  <2>3. Iterates(g, par, base, s, m + 1)
    <3> HIDE DEF g
    <3>1. g = [S \in SUBSET (1..m + 1) |-> g[S]]
      BY DEF g
    <3> QED BY <2>2, <3>1 DEF Iterates
  <2> QED BY <2>3
<1> HIDE DEF T
<1>3. Nat \subseteq T
  BY <1>1, <1>2, Induction
<1> QED BY <1>3 DEF T

\* A fold ends with the last of its accumulators.
LEMMA FoldGoes ==
    ASSUME NEW par, NEW base, NEW s, NEW n \in Nat, DOMAIN s = 1..n
    PROVE  \E acc : Trajectory(acc, par, base, s, n) /\ Fold(par, base, s) = acc[n]
<1> DEFINE f == CHOOSE g : Iterates(g, par, base, s, n)
<1>1. Fold(par, base, s) = f[1..n]
  BY DEF Fold, Iterates
<1>2. Iterates(f, par, base, s, n)
  BY Iterable
<1> HIDE DEF f
<1> DEFINE acc == [k \in 0..n |-> f[1..k]]
<1>3. acc[0] = base
  <2>1. 1..0 = {} /\ {} \in SUBSET (1..n)
    OBVIOUS
  <2> QED BY <1>2, <2>1 DEF Iterates
<1>4. ASSUME NEW k \in 1..n
      PROVE  acc[k] = Op(par, acc[k - 1], s[k])
  <2>1. k \in 1..k /\ k \in 0..n /\ k - 1 \in 0..n /\ 1..k \in SUBSET (1..n)
    <3>1. \A x \in 1..k : x \in 1..n
      OBVIOUS
    <3> QED BY <3>1
  <2>2. Top(1..k) = k
    <3>1. Top(1..k) \in 1..k /\ Top(1..k) >= k
      <4>1. 1..k \subseteq 1..n /\ 1..k # {}
        BY <2>1
      <4> QED BY <2>1, <4>1, TopOf
    <3> QED BY <3>1
  <2>3. (1..k) \ {k} = 1..(k - 1)
    OBVIOUS
  <2>4. f[1..k] = Op(par, f[1..(k - 1)], s[k])
    BY <1>2, <2>1, <2>2, <2>3 DEF Iterates
  <2> QED BY <2>1, <2>4
<1>5. Trajectory(acc, par, base, s, n)
  BY <1>3, <1>4 DEF Trajectory
<1>6. acc[n] = f[1..n]
  OBVIOUS
<1> QED BY <1>1, <1>5, <1>6
=============================================================================
