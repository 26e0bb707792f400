----------------------------- MODULE Recursion -----------------------------
(***************************************************************************)
(* Induction and recursion over the numbers up to N, stated over sets and    *)
(* functions: the induction theorems of the library take operators, which    *)
(* the provers cannot instantiate.  The source is that a set of naturals has *)
(* a least element.                                                          *)
(***************************************************************************)
EXTENDS Naturals, WellFoundedInduction, TLAPS

LEMMA LeastElement ==
    ASSUME NEW T, T \subseteq Nat, T # {}
    PROVE  \E x \in T : \A y \in T : x <= y
<1> DEFINE R == OpToRel(<, Nat)
<1>1. IsWellFoundedOn(R, Nat)
  BY NatLessThanWellFounded
<1>2. \A x, y \in Nat : x < y => <<x, y>> \in R
  BY DEF OpToRel
<1> HIDE DEF R
<1>3. PICK x \in T : \A y \in T : ~ (<<y, x>> \in R)
  BY <1>1, WFMin
<1>4. ASSUME NEW y \in T PROVE x <= y
  <2>1. x \in Nat /\ y \in Nat /\ ~ (<<y, x>> \in R)
    BY <1>3
  <2>2. ~ (y < x)
    BY <1>2, <2>1
  <2> QED BY <2>1, <2>2
<1> QED BY <1>3, <1>4

(* Course-of-values induction up to N, from a: T holds of every number whose
   predecessors it holds of. *)
LEMMA IntervalInduction ==
    ASSUME NEW a \in Nat, NEW N \in Nat, NEW T,
           \A n \in a..N : (\A m \in a..(n - 1) : m \in T) => n \in T
    PROVE  a..N \subseteq T
<1> DEFINE U == {n \in a..N : n \notin T}
<1> SUFFICES ASSUME U # {} PROVE FALSE
  OBVIOUS
<1>1. U \subseteq Nat
  OBVIOUS
<1> HIDE DEF U
<1>2. PICK x \in U : \A y \in U : x <= y
  BY <1>1, LeastElement
<1>3. x \in a..N /\ x \notin T
  BY <1>2 DEF U
<1>4. \A m \in a..(x - 1) : m \in T
  <2> SUFFICES ASSUME NEW m \in a..(x - 1), m \notin T PROVE FALSE
    OBVIOUS
  <2>1. m \in a..N /\ ~ (x <= m)
    BY <1>3
  <2>2. m \in U
    BY <2>1 DEF U
  <2> QED BY <1>2, <2>1, <2>2
<1> QED BY <1>3, <1>4

(* A function given by its first value and a step exists. *)
LEMMA StepFunction ==
    ASSUME NEW S, NEW c \in S, NEW N \in Nat, NEW d \in [1..N -> [S -> S]]
    PROVE  \E f \in [0..N -> S] : f[0] = c /\ \A k \in 1..N : f[k] = d[k][f[k - 1]]
<1> DEFINE Good(m, f) == f[0] = c /\ \A k \in 1..m : f[k] = d[k][f[k - 1]]
           T == {m \in 0..N : \E f \in [0..m -> S] : Good(m, f)}
<1>1. ASSUME NEW n \in 0..N, \A m \in 0..(n - 1) : m \in T PROVE n \in T
  <2>1. CASE n = 0
    <3> DEFINE f == [k \in 0..0 |-> c]
    <3>1. f \in [0..n -> S] /\ Good(n, f)
      BY <2>1
    <3> QED BY <3>1
  <2>2. CASE n # 0
    <3>1. n - 1 \in T /\ n \in Nat
      <4>1. n - 1 \in 0..(n - 1) /\ n \in Nat
        BY <2>2
      <4> HIDE DEF T
      <4> QED BY <1>1, <4>1
    <3>2. PICK g \in [0..(n - 1) -> S] : Good(n - 1, g)
      BY <3>1
    <3> DEFINE f == [k \in 0..n |-> IF k = n THEN d[n][g[n - 1]] ELSE g[k]]
    <3>3. n \in 1..N /\ n - 1 \in 0..(n - 1)
      BY <2>2
    <3>4. d[n] \in [S -> S] /\ g[n - 1] \in S
      BY <3>3
    <3>5. d[n][g[n - 1]] \in S
      BY <3>4
    <3>6. f \in [0..n -> S]
      BY <3>3, <3>5
    <3>7. Good(n, f)
      <4>1. f[0] = c
        BY <3>2, <3>3
      <4>2. ASSUME NEW k \in 1..n PROVE f[k] = d[k][f[k - 1]]
        <5>1. f[k - 1] = g[k - 1] /\ k \in 0..n
          BY <3>3
        <5>2. k # n => k \in 1..(n - 1) /\ f[k] = g[k]
          BY <3>3
        <5>3. k = n => f[k] = d[k][g[k - 1]]
          BY <3>3
        <5> QED BY <3>2, <5>1, <5>2, <5>3
      <4> QED BY <4>1, <4>2
    <3> QED BY <3>6, <3>7
  <2> QED BY <2>1, <2>2
<1> HIDE DEF T
<1>2. 0..N \subseteq T
  BY <1>1, IntervalInduction
<1>3. N \in T
  BY <1>2
<1> QED BY <1>3 DEF T

(* d[n] maps a table of values, of which it reads those below n, to a value. *)
ReadsBelow(d, a, N, S) ==
    /\ d \in [a..N -> [[a..N -> S] -> S]]
    /\ \A n \in a..N : \A f, g \in [a..N -> S] :
          (\A i \in a..(n - 1) : f[i] = g[i]) => d[n][f] = d[n][g]

(* A function over a..N whose value at n depends on smaller arguments alone
   exists. *)
LEMMA TableFunction ==
    ASSUME NEW S, NEW c \in S, NEW a \in Nat, NEW N \in Nat,
           NEW d, ReadsBelow(d, a, N, S)
    PROVE  \E f \in [a..N -> S] : \A n \in a..N : f[n] = d[n][f]
<1> DEFINE Good(m, f) == \A k \in a..(m - 1) : f[k] = d[k][f]
           T == {m \in a..(N + 1) : \E f \in [a..N -> S] : Good(m, f)}
<1>1. ASSUME NEW n \in a..(N + 1), \A m \in a..(n - 1) : m \in T PROVE n \in T
  <2>1. CASE n = a
    <3> DEFINE f == [k \in a..N |-> c]
    <3>1. f \in [a..N -> S] /\ \A k \in a..(n - 1) : FALSE
      BY <2>1
    <3> HIDE DEF f
    <3>2. Good(n, f)
      BY <3>1
    <3> QED BY <3>1, <3>2
  <2>2. CASE n # a
    <3> DEFINE p == n - 1
    <3>1. p \in T /\ p \in a..N
      <4>1. p \in a..(n - 1) /\ p \in a..N
        BY <2>2
      <4> HIDE DEF T, p
      <4> QED BY <1>1, <4>1
    <3>2. PICK g \in [a..N -> S] : Good(p, g)
      BY <3>1
    <3> HIDE DEF p
    <3> DEFINE f == [g EXCEPT ![p] = d[p][g]]
    <3>3. d[p] \in [[a..N -> S] -> S]
      BY <3>1 DEF ReadsBelow
    <3>4. d[p][g] \in S
      BY <3>3
    <3>5. f \in [a..N -> S]
      BY <3>4
    <3>6. f[p] = d[p][g] /\ \A i \in a..N : i # p => f[i] = g[i]
      BY <3>1
    <3> HIDE DEF f
    <3>7. ASSUME NEW k \in a..p PROVE f[k] = d[k][f]
      <4>1. k \in a..N /\ \A i \in a..(k - 1) : i \in a..N /\ i # p
        BY <3>1
      <4>2. d[k][f] = d[k][g]
        BY <3>5, <3>6, <4>1 DEF ReadsBelow
      <4>3. k # p => k \in a..(p - 1)
        BY <3>1
      <4> QED BY <3>2, <3>6, <4>1, <4>2, <4>3
    <3>8. Good(n, f)
      BY <3>7 DEF p
    <3> QED BY <3>5, <3>8
  <2> QED BY <2>1, <2>2
<1>2. CASE a <= N
  <2>1. N + 1 \in Nat /\ N + 1 \in a..(N + 1) /\ N + 1 - 1 = N
    BY <1>2
  <2> DEFINE M == N + 1
  <2> HIDE DEF T, M
  <2>2. M \in Nat /\ \A n \in a..M : (\A m \in a..(n - 1) : m \in T) => n \in T
    BY <1>1, <2>1 DEF M
  <2>3. a..M \subseteq T
    BY <2>2, IntervalInduction
  <2>4. N + 1 \in T
    BY <2>1, <2>3 DEF M
  <2> QED BY <2>1, <2>4 DEF T
<1>3. CASE ~(a <= N)
  <2> DEFINE f == [k \in a..N |-> c]
  <2>1. f \in [a..N -> S] /\ \A n \in a..N : FALSE
    BY <1>3
  <2> HIDE DEF f
  <2> QED BY <2>1
<1> QED BY <1>2, <1>3

(* StepFunction, for a step d of whose parts the prover sees the name alone. *)
IsStep(d, N, S) == d \in [1..N -> [S -> S]]

LEMMA StepTable ==
    ASSUME NEW S, NEW c \in S, NEW N \in Nat, NEW d, IsStep(d, N, S)
    PROVE  \E f \in [0..N -> S] : f[0] = c /\ \A k \in 1..N : f[k] = d[k][f[k - 1]]
BY SMTT(30), StepFunction DEF IsStep

=============================================================================
