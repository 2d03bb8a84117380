------------------------------ MODULE Induction ------------------------------
(***************************************************************************)
(* What the proofs need about numbers and loops.  The library's theorems   *)
(* on induction and on recursive functions have an operator as parameter,  *)
(* which the provers cannot instantiate; that < is well founded has none,  *)
(* and a set, or a function, can take the place of the operator.           *)
(***************************************************************************)
EXTENDS Integers, WellFoundedInduction, TLAPS

\* A set of natural numbers has a least element.
LEMMA LeastNumber ==
    ASSUME NEW S, S \subseteq Nat, S # {}
    PROVE  \E n \in S : \A m \in S : n <= m
<1> DEFINE R == OpToRel(<, Nat)
<1>1. IsWellFoundedOn(R, Nat)
  BY NatLessThanWellFounded
<1>2. \A x, y \in Nat : <<x, y>> \in R <=> x < y
  BY DEF OpToRel
<1> HIDE DEF R
<1>3. PICK n \in S : \A m \in S : ~(<<m, n>> \in R)
  BY <1>1, WFMin
<1>4. ASSUME NEW m \in S PROVE n <= m
  <2>1. m \in Nat /\ n \in Nat
    OBVIOUS
  <2>2. ~(m < n)
    BY <1>2, <1>3, <2>1
  <2> QED BY <2>1, <2>2
<1> QED BY <1>4

\* A set of natural numbers below a bound has a greatest element.
LEMMA GreatestNumber ==
    ASSUME NEW k \in Nat, NEW S, S \subseteq 0..k, S # {}
    PROVE  \E n \in S : \A m \in S : m <= n
<1> DEFINE T == {j \in 0..k : k - j \in S}
<1>1. \A m \in S : k - m \in T
  OBVIOUS
<1>2. T \subseteq Nat /\ T # {}
  <2>1. PICK m \in S : TRUE
    OBVIOUS
  <2>2. k - m \in T
    BY <1>1
  <2>3. T \subseteq Nat
    OBVIOUS
  <2> QED BY <2>2, <2>3
<1>3. PICK j \in T : \A i \in T : j <= i
  BY <1>2, LeastNumber
<1>4. ASSUME NEW m \in S PROVE m <= k - j
  <2>1. j <= k - m
    BY <1>1, <1>3
  <2>2. m \in Int /\ j \in Int
    BY <1>3
  <2> QED BY <2>1, <2>2
<1>5. k - j \in S
  BY <1>3
<1> QED BY <1>4, <1>5

\* Induction: what holds of 0, and of n + 1 if of n, holds of all numbers.
LEMMA AllNumbers ==
    ASSUME NEW S, 0 \in S, \A n \in Nat : n \in S => n + 1 \in S
    PROVE  Nat \subseteq S
<1> SUFFICES ASSUME NEW k \in Nat, k \notin S PROVE FALSE
  OBVIOUS
<1> DEFINE T == {n \in Nat : n \notin S}
<1>1. PICK n \in T : \A m \in T : n <= m
  BY LeastNumber
<1>2. n - 1 \in Nat /\ n - 1 \in S
  BY <1>1
<1>3. (n - 1) + 1 \in S
  BY <1>2
<1> QED BY <1>3

\* A loop that adds up has a run: the sum after each round.
LEMMA LoopRuns ==
    ASSUME NEW term \in [Nat -> Int]
    PROVE  \A n \in Nat : \E f \in [0..n -> Int] :
               f[0] = 0 /\ \A i \in 1..n : f[i] = f[i - 1] + term[i]
<1> DEFINE S == {n \in Nat : \E f \in [0..n -> Int] :
                    f[0] = 0 /\ \A i \in 1..n : f[i] = f[i - 1] + term[i]}
<1>1. 0 \in S
  <2> DEFINE f == [i \in 0..0 |-> 0]
  <2>1. f \in [0..0 -> Int] /\ f[0] = 0 /\ \A i \in 1..0 : f[i] = f[i - 1] + term[i]
    OBVIOUS
  <2> HIDE DEF f
  <2> QED BY <2>1
<1>2. ASSUME NEW n \in Nat, n \in S PROVE n + 1 \in S
  <2>1. PICK f \in [0..n -> Int] :
            f[0] = 0 /\ \A i \in 1..n : f[i] = f[i - 1] + term[i]
    BY <1>2
  <2> DEFINE last == f[n] + term[n + 1]
             g == [i \in 0..n + 1 |-> IF i = n + 1 THEN last ELSE f[i]]
  <2>2. last \in Int
    <3>1. n + 1 \in Nat /\ f[n] \in Int
      BY <2>1
    <3> QED BY <3>1
  <2>3. g \in [0..n + 1 -> Int] /\ g[0] = 0
    BY <2>1, <2>2
  <2>4. ASSUME NEW i \in 1..n + 1 PROVE g[i] = g[i - 1] + term[i]
    <3>1. CASE i = n + 1
      <4>1. g[i] = last /\ g[i - 1] = f[n]
        BY <3>1
      <4> QED BY <3>1, <4>1
    <3>2. CASE i # n + 1
      <4>1. i \in 1..n /\ g[i] = f[i] /\ g[i - 1] = f[i - 1]
        BY <3>2
      <4> QED BY <2>1, <4>1
    <3> QED BY <3>1, <3>2
  <2> HIDE DEF g
  <2>5. n + 1 \in Nat
    OBVIOUS
  <2> QED BY <2>3, <2>4, <2>5
<1> HIDE DEF S
<1>3. Nat \subseteq S
  BY <1>1, <1>2, AllNumbers
<1> QED BY <1>3 DEF S

\* The same from any number to any other: the sum of the terms before each.
LEMMA SumRuns ==
    ASSUME NEW a \in Nat, NEW b \in Nat, a <= b, NEW term \in [a..b - 1 -> Int]
    PROVE  \E f \in [a..b -> Int] :
               f[a] = 0 /\ \A i \in a..b - 1 : f[i + 1] = f[i] + term[i]
<1> DEFINE n == b - a
           t == [i \in Nat |-> IF i \in 1..n THEN term[a + i - 1] ELSE 0]
<1>1. t \in [Nat -> Int]
  OBVIOUS
<1>2. \A i \in a..b - 1 : t[i - a + 1] = term[i]
  OBVIOUS
<1> HIDE DEF t
<1>3. PICK g \in [0..n -> Int] : g[0] = 0 /\ \A i \in 1..n : g[i] = g[i - 1] + t[i]
  <2>1. n \in Nat
    OBVIOUS
  <2> HIDE DEF n
  <2> QED BY <1>1, <2>1, LoopRuns
<1> DEFINE f == [i \in a..b |-> g[i - a]]
<1>4. f \in [a..b -> Int]
  OBVIOUS
<1>5. f[a] = 0
  BY <1>3
<1>6. ASSUME NEW i \in a..b - 1 PROVE f[i + 1] = f[i] + term[i]
  <2>1. i - a + 1 \in 1..n /\ i + 1 \in a..b /\ (i - a + 1) - 1 = i - a /\ i + 1 - a = i - a + 1
    OBVIOUS
  <2>2. f[i] = g[i - a] /\ f[i + 1] = g[i - a + 1]
    BY <2>1
  <2>3. g[i - a + 1] = g[i - a] + t[i - a + 1]
    BY <1>3, <2>1
  <2> HIDE DEF f
  <2> QED BY <1>2, <2>2, <2>3
<1> HIDE DEF f
<1> QED BY <1>4, <1>5, <1>6

\* Such a sum is a number.
LEMMA SumIs ==
    ASSUME NEW a \in Nat, NEW b \in Nat, a <= b, NEW term \in [a..b - 1 -> Int], NEW f,
           f[a] = 0, \A i \in a..b - 1 : f[i + 1] = f[i] + term[i]
    PROVE  \A i \in a..b : f[i] \in Int
<1> DEFINE S == {n \in Nat : n <= b - a => f[a + n] \in Int}
<1>1. 0 \in S
  OBVIOUS
<1>2. ASSUME NEW n \in Nat, n \in S PROVE n + 1 \in S
  <2> SUFFICES ASSUME n + 1 <= b - a PROVE f[a + (n + 1)] \in Int
    OBVIOUS
  <2>1. a + n \in a..b - 1 /\ a + (n + 1) = (a + n) + 1 /\ f[a + n] \in Int
    BY <1>2
  <2> QED BY <2>1
<1> HIDE DEF S
<1>3. Nat \subseteq S
  BY <1>1, <1>2, AllNumbers
<1> QED
  <2> SUFFICES ASSUME NEW i \in a..b PROVE f[i] \in Int
    OBVIOUS
  <2>1. i - a \in Nat /\ i - a <= b - a /\ a + (i - a) = i
    OBVIOUS
  <2> QED BY <1>3, <2>1 DEF S

=============================================================================
