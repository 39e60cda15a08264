----------------------------- MODULE DataInduction -----------------------------
(***************************************************************************)
(* Induction over the natural numbers in a form the provers can apply: for *)
(* a set instead of a predicate.                                           *)
(***************************************************************************)
EXTENDS Integers, WellFoundedInduction, TLAPS

LEMMA LessIsWellFounded == IsWellFoundedOn({p \in Nat \X Nat : p[1] < p[2]}, Nat)
BY NatLessThanWellFounded DEF OpToRel

\* A set of natural numbers that is not empty has a smallest member.
LEMMA SmallestMember ==
  ASSUME NEW S, S \subseteq Nat, S # {}
  PROVE  \E x \in S : \A y \in S : x <= y
<1> DEFINE R == {p \in Nat \X Nat : p[1] < p[2]}
<1>1. IsWellFoundedOn(R, Nat)
  BY LessIsWellFounded
<1> HIDE DEF R
<1>2. PICK x \in S : \A y \in S : ~ (<<y, x>> \in R)
  BY <1>1, WFMin
<1>3. \A y \in S : ~ (y < x)
  BY <1>2 DEF R
<1>4. QED
  BY <1>2, <1>3

LEMMA SetInduction ==
  ASSUME NEW S, 0 \in S, \A n \in Nat : n \in S => n + 1 \in S
  PROVE  Nat \subseteq S
<1> DEFINE T == Nat \ S
<1>1. SUFFICES ASSUME T # {} PROVE FALSE
  OBVIOUS
<1>2. PICK x \in T : \A y \in T : x <= y
  BY <1>1, SmallestMember
<1>3. x \in Nat /\ x # 0 /\ x \notin S
  BY <1>2
<1>4. x - 1 \in Nat /\ x - 1 \notin S
  BY <1>3
<1>5. QED
  BY <1>2, <1>3, <1>4

\* The same up to a bound.
LEMMA BoundedInduction ==
  ASSUME NEW n \in Nat, NEW S, 0 \in S, \A k \in 0 .. n - 1 : k \in S => k + 1 \in S
  PROVE  \A k \in 0 .. n : k \in S
<1> DEFINE T == {k \in Nat : k <= n => k \in S}
<1>1. 0 \in T
  OBVIOUS
<1>2. ASSUME NEW k \in Nat, k \in T PROVE k + 1 \in T
  <2>1. CASE k + 1 <= n
    <3>1. k \in 0 .. n - 1 /\ k \in S
      BY <1>2, <2>1
    <3>2. QED
      BY <3>1
  <2>2. CASE ~ (k + 1 <= n)
    BY <2>2
  <2>3. QED
    BY <2>1, <2>2
<1> HIDE DEF T
<1>3. Nat \subseteq T
  BY <1>1, <1>2, SetInduction
<1>4. ASSUME NEW k \in 0 .. n PROVE k \in S
  <2>1. k \in T /\ k <= n
    BY <1>3
  <2>2. QED
    BY <2>1 DEF T
<1>5. QED
  BY <1>4

\* g has the values of a loop from x on, after 0, 1 ... n rounds; F[k] is what round k does.
Rounds(F, S) == F \in [Nat -> [S -> S]]
Iterates(g, S, x, F, n) ==
  g \in [0 .. n -> S] /\ g[0] = x /\ \A k \in 1 .. n : g[k] = F[k][g[k - 1]]

LEMMA Iteration ==
  ASSUME NEW S, NEW x, x \in S, NEW F, Rounds(F, S), NEW n, n \in Nat
  PROVE  \E g : Iterates(g, S, x, F, n)
<1>0. F \in [Nat -> [S -> S]]
  BY DEF Rounds
<1> DEFINE T == {i \in Nat : \E g \in [0 .. i -> S] :
                    g[0] = x /\ \A k \in 1 .. i : g[k] = F[k][g[k - 1]]}
<1>1. 0 \in T
  <2> DEFINE g == [i \in 0 .. 0 |-> x]
  <2>1. g \in [0 .. 0 -> S] /\ g[0] = x
    OBVIOUS
  <2> HIDE DEF g
  <2>2. \A k \in 1 .. 0 : g[k] = F[k][g[k - 1]]
    OBVIOUS
  <2>3. QED
    BY <2>1, <2>2
<1>2. ASSUME NEW i \in Nat, i \in T PROVE i + 1 \in T
  <2>1. PICK g \in [0 .. i -> S] : g[0] = x /\ \A k \in 1 .. i : g[k] = F[k][g[k - 1]]
    BY <1>2
  <2> DEFINE next == F[i + 1][g[i]]
             h == [j \in 0 .. i + 1 |-> IF j <= i THEN g[j] ELSE next]
  <2>2. next \in S
    <3>1. i \in 0 .. i /\ i + 1 \in Nat
      OBVIOUS
    <3>2. g[i] \in S /\ F[i + 1] \in [S -> S]
      BY <3>1, <1>0
    <3>3. QED
      BY <3>2
  <2>3. h \in [0 .. i + 1 -> S]
    <3>1. ASSUME NEW j \in 0 .. i + 1 PROVE h[j] \in S
      <4>1. CASE j <= i
        <5>1. j \in 0 .. i
          BY <4>1
        <5>2. QED
          BY <4>1, <5>1
      <4>2. CASE ~ (j <= i)
        BY <4>2, <2>2
      <4>3. QED
        BY <4>1, <4>2
    <3>2. QED
      BY <3>1
  <2>4. h[0] = x
    BY <2>1
  <2>5. ASSUME NEW k \in 1 .. i + 1 PROVE h[k] = F[k][h[k - 1]]
    <3>1. k \in 0 .. i + 1 /\ k - 1 \in 0 .. i + 1 /\ k - 1 <= i
      OBVIOUS
    <3>2. h[k - 1] = g[k - 1]
      BY <3>1
    <3>3. CASE k <= i
      <4>1. k \in 1 .. i /\ h[k] = g[k]
        BY <3>1, <3>3
      <4>2. QED
        BY <4>1, <3>2, <2>1
    <3>4. CASE ~ (k <= i)
      <4>1. k = i + 1 /\ k - 1 = i /\ h[k] = next
        BY <3>1, <3>4
      <4>2. QED
        BY <4>1, <3>2
    <3>5. QED
      BY <3>3, <3>4
  <2> HIDE DEF h
  <2>6. QED
    BY <2>3, <2>4, <2>5
<1> HIDE DEF T
<1>3. Nat \subseteq T
  BY <1>1, <1>2, SetInduction
<1>4. n \in T
  BY <1>3
<1>5. QED
  BY <1>4 DEF T, Iterates
================================================================================
