--------------------------- MODULE ErrorTree_proof ---------------------------
(***************************************************************************)
(* Theorems about ErrorTree.  As comes to the errors of a tree in an order    *)
(* that starts with the error itself and goes on with the orders of its      *)
(* children, one after the other (OrderOK): what As finds first is therefore  *)
(* what the recursive definitions of GetCode, GetDetails and OutsideFields    *)
(* meet on the way down.                                                     *)
(***************************************************************************)
EXTENDS ErrorTree, Recursion, SequenceTheorems

-----------------------------------------------------------------------------
(* Sequences. *)

(* The function that removeNilFromErrors is defined by exists. *)
LEMMA RemoveNilSteps ==
    ASSUME NEW S, Nil \notin S, NEW errs \in Seq(S \cup {Nil})
    PROVE  \E filtered :
              /\ removeNilFromErrors(errs) = filtered[Len(errs)]
              /\ filtered[0] = <<>>
              /\ \A n \in 1..Len(errs) : filtered[n] =
                    IF errs[n] = Nil THEN filtered[n - 1] ELSE Append(filtered[n - 1], errs[n])
<1> DEFINE N == Len(errs)
           Fn(g) == [n \in 0..N |->
                        IF n = 0 THEN <<>>
                        ELSE IF errs[n] = Nil THEN g[n - 1] ELSE Append(g[n - 1], errs[n])]
           filtered == CHOOSE g : g = Fn(g)
           d == [n \in 1..N |-> [s \in Seq(S) |->
                    IF errs[n] = Nil THEN s ELSE Append(s, errs[n])]]
<1>1. N \in Nat /\ \A n \in 1..N : errs[n] \in S \cup {Nil}
  BY LenProperties, ElementOfSeq
<1>2. \E g : g = Fn(g)
  <2>1. \A n \in 1..N : errs[n] # Nil => errs[n] \in S
    BY <1>1
  <2>2. d \in [1..N -> [Seq(S) -> Seq(S)]] /\ <<>> \in Seq(S)
    BY <2>1, AppendProperties, EmptySeq
  <2>3. \A n \in 1..N : \A s \in Seq(S) :
            d[n][s] = IF errs[n] = Nil THEN s ELSE Append(s, errs[n])
    OBVIOUS
  <2> HIDE DEF d
  <2>4. PICK g \in [0..N -> Seq(S)] : g[0] = <<>> /\ \A n \in 1..N : g[n] = d[n][g[n - 1]]
    <3> DEFINE T == Seq(S) c == <<>>
    <3>1. N \in Nat /\ c \in T /\ d \in [1..N -> [T -> T]]
      BY <1>1, <2>2
    <3> HIDE DEF T, c, N
    <3>2. \E g \in [0..N -> T] : g[0] = c /\ \A n \in 1..N : g[n] = d[n][g[n - 1]]
      BY ONLY SMTT(30), <3>1, StepFunction
    <3> QED BY <3>2 DEF T, c
  <2>5. ASSUME NEW n \in 0..N, n # 0
        PROVE  g[n] = IF errs[n] = Nil THEN g[n - 1] ELSE Append(g[n - 1], errs[n])
    <3>1. n \in 1..N /\ n - 1 \in 0..N
      BY <1>1, <2>5
    <3> HIDE DEF N
    <3> QED BY <2>3, <2>4, <3>1
  <2>6. g = Fn(g)
    BY <2>4, <2>5
  <2> QED BY <2>6
<1>3. filtered = Fn(filtered)
  <2> HIDE DEF Fn
  <2> QED BY <1>2, Zenon
<1>4. removeNilFromErrors(errs) = filtered[N]
  BY Zenon DEF removeNilFromErrors
<1>5. /\ filtered[0] = <<>>
      /\ \A n \in 1..N : filtered[n] =
            IF errs[n] = Nil THEN filtered[n - 1] ELSE Append(filtered[n - 1], errs[n])
  <2> HIDE DEF filtered
  <2>1. 0 \in 0..N /\ \A n \in 1..N : n \in 0..N /\ n # 0
    BY <1>1
  <2> QED BY <1>3, <2>1
<1> QED BY <1>4, <1>5

(* removeNilFromErrors keeps the errors of the list, and nothing else. *)
LEMMA RemoveNil ==
    ASSUME NEW S, Nil \notin S, NEW errs \in Seq(S \cup {Nil})
    PROVE  /\ removeNilFromErrors(errs) \in Seq(S)
           /\ \A n \in 1..Len(errs) : errs[n] # Nil =>
                 \E i \in 1..Len(removeNilFromErrors(errs)) : removeNilFromErrors(errs)[i] = errs[n]
<1> DEFINE N == Len(errs)
<1>1. N \in Nat /\ \A n \in 1..N : errs[n] \in S \cup {Nil}
  BY LenProperties, ElementOfSeq
<1>2. PICK filtered :
         /\ removeNilFromErrors(errs) = filtered[N] /\ filtered[0] = <<>>
         /\ \A n \in 1..N : filtered[n] =
               IF errs[n] = Nil THEN filtered[n - 1] ELSE Append(filtered[n - 1], errs[n])
  BY RemoveNilSteps
<1> DEFINE Good(n) == /\ filtered[n] \in Seq(S)
                      /\ \A m \in 1..n : errs[m] # Nil =>
                            \E i \in 1..Len(filtered[n]) : filtered[n][i] = errs[m]
           T == {n \in 0..N : Good(n)}
<1>3. ASSUME NEW n \in 0..N, \A m \in 0..(n - 1) : m \in T PROVE n \in T
  <2>1. CASE n = 0
    <3>1. filtered[n] \in Seq(S)
      BY <1>2, <2>1, EmptySeq
    <3>2. \A m \in 1..n : FALSE
      BY <2>1
    <3> QED BY <3>1, <3>2
  <2>2. CASE n # 0
    <3>1. n \in 1..N /\ n - 1 \in 0..(n - 1) /\ n \in Nat
      BY <1>1, <2>2
    <3> DEFINE s == filtered[n - 1]
               t == filtered[n]
    <3>2. /\ s \in Seq(S)
          /\ \A m \in 1..(n - 1) : errs[m] # Nil => \E i \in 1..Len(s) : s[i] = errs[m]
      BY <1>3, <3>1
    <3>3. errs[n] \in S \cup {Nil}
      BY <1>1, <3>1
    <3>4. t = IF errs[n] = Nil THEN s ELSE Append(s, errs[n])
      BY <1>2, <3>1
    <3> HIDE DEF s, t
    <3>5. /\ t \in Seq(S) /\ \A i \in 1..Len(s) : i \in 1..Len(t) /\ t[i] = s[i]
          /\ errs[n] # Nil => Len(t) \in 1..Len(t) /\ t[Len(t)] = errs[n]
      <4> HIDE DEF N
      <4>1. CASE errs[n] = Nil
        BY <3>2, <3>4, <4>1
      <4>2. CASE errs[n] # Nil
        BY <3>2, <3>3, <3>4, <4>2, AppendProperties, LenProperties
      <4> QED BY <4>1, <4>2
    <3>6. ASSUME NEW m \in 1..n, errs[m] # Nil PROVE \E i \in 1..Len(t) : t[i] = errs[m]
      <4>1. CASE m = n
        BY <3>5, <3>6, <4>1
      <4>2. CASE m # n
        <5>1. m \in 1..(n - 1)
          BY <3>1, <4>2
        <5> QED BY <3>2, <3>5, <3>6, <5>1
      <4> QED BY <4>1, <4>2
    <3> QED BY <3>5, <3>6 DEF t
  <2> QED BY <2>1, <2>2
<1>4. N \in T
  <2> HIDE DEF T, N
  <2>1. 0..N \subseteq T
    BY <1>1, <1>3, IntervalInduction
  <2> QED BY <1>1, <2>1
<1> QED BY <1>2, <1>4

LEMMA RemoveNilOne ==
    ASSUME NEW err
    PROVE  removeNilFromErrors(<<err>>) = IF err = Nil THEN <<>> ELSE <<err>>
<1>1. Nil \notin {err} \ {Nil} /\ <<err>> \in Seq(({err} \ {Nil}) \cup {Nil}) /\ Len(<<err>>) = 1
  OBVIOUS
<1>2. PICK filtered :
         /\ removeNilFromErrors(<<err>>) = filtered[1] /\ filtered[0] = <<>>
         /\ \A n \in 1..1 : filtered[n] =
               IF <<err>>[n] = Nil THEN filtered[n - 1] ELSE Append(filtered[n - 1], <<err>>[n])
  BY <1>1, RemoveNilSteps
<1>3. filtered[1] = IF err = Nil THEN <<>> ELSE Append(<<>>, err)
  <2>1. 1 \in 1..1 /\ 1 - 1 = 0 /\ <<err>>[1] = err
    OBVIOUS
  <2>2. filtered[1] =
          IF <<err>>[1] = Nil THEN filtered[1 - 1] ELSE Append(filtered[1 - 1], <<err>>[1])
    BY <1>2, <2>1
  <2> QED BY <1>2, <2>1, <2>2
<1> QED BY <1>2, <1>3

(* The function that FlattenSeq is defined by exists. *)
LEMMA FlattenSteps ==
    ASSUME NEW S, NEW ss \in Seq(Seq(S)), Len(ss) # 0
    PROVE  \E flat : /\ flat[1] = ss[1]
                     /\ \A k \in 2..Len(ss) : flat[k] = flat[k - 1] \o ss[k]
                     /\ FlattenSeq(ss) = flat[Len(ss)]
<1> DEFINE N == Len(ss)
           Fn(g) == [i \in 1..N |-> IF i = 1 THEN ss[i] ELSE g[i - 1] \o ss[i]]
           flat == CHOOSE g : g = Fn(g)
<1>1. N \in Nat /\ N # 0 /\ \A k \in 1..N : ss[k] \in Seq(S)
  BY LenProperties, ElementOfSeq
<1>2. \E g : g = Fn(g)
  <2> DEFINE T == Seq(S)
             c == <<>>
             d == [k \in 1..N |-> [s \in T |-> IF k = 1 THEN ss[k] ELSE s \o ss[k]]]
  <2>1. d \in [1..N -> [T -> T]] /\ c \in T
    BY <1>1, ConcatProperties, EmptySeq
  <2>2. \A k \in 1..N : \A s \in T : d[k][s] = IF k = 1 THEN ss[k] ELSE s \o ss[k]
    OBVIOUS
  <2> HIDE DEF T, c, d, N
  <2>3. PICK f \in [0..N -> T] : f[0] = c /\ \A k \in 1..N : f[k] = d[k][f[k - 1]]
    <3>1. N \in Nat /\ c \in T /\ d \in [1..N -> [T -> T]]
      BY <1>1, <2>1
    <3> QED BY ONLY SMTT(30), <3>1, StepFunction
  <2> DEFINE g == [k \in 1..N |-> f[k]]
  <2>4. ASSUME NEW k \in 1..N
        PROVE  g[k] = IF k = 1 THEN ss[k] ELSE g[k - 1] \o ss[k]
    <3>1. k - 1 \in 0..N /\ (k # 1 => k - 1 \in 1..N)
      BY <1>1
    <3>2. f[k - 1] \in T /\ f[k] = d[k][f[k - 1]]
      BY <2>3, <3>1
    <3>3. f[k] = IF k = 1 THEN ss[k] ELSE f[k - 1] \o ss[k]
      BY <2>2, <3>2
    <3> QED BY <3>1, <3>3
  <2>5. g = Fn(g)
    BY <2>4
  <2> QED BY <2>5
<1>3. flat = Fn(flat)
  <2> HIDE DEF Fn
  <2> QED BY <1>2, Zenon
<1>4. FlattenSeq(ss) = flat[N]
  BY <1>1, Zenon DEF FlattenSeq
<1> HIDE DEF flat
<1>5. \A k \in 1..N : flat[k] = IF k = 1 THEN ss[k] ELSE flat[k - 1] \o ss[k]
  BY <1>3
<1>6. flat[1] = ss[1]
  BY <1>1, <1>5
<1>7. ASSUME NEW k \in 2..N PROVE flat[k] = flat[k - 1] \o ss[k]
  <2>1. k \in 1..N /\ k # 1
    BY <1>1
  <2> HIDE DEF N
  <2> QED BY <1>5, <2>1
<1> QED BY <1>4, <1>6, <1>7

(* What FlattenSeq puts at place i it took from place p of one of the sequences,
   and what that one has before p stands before i. *)
Taken(s, i, ss, m, p) ==
    s[i] = ss[m][p] /\ \A q \in 1..(p - 1) : \E j \in 1..(i - 1) : s[j] = ss[m][q]
TakenFrom(s, ss, k) ==
    \A i \in 1..Len(s) : \E m \in 1..k : \E p \in 1..Len(ss[m]) : Taken(s, i, ss, m, p)
Keeps(s, ss, k) ==
    \A m \in 1..k : \A p \in 1..Len(ss[m]) : \E i \in 1..Len(s) : s[i] = ss[m][p]

LEMMA FlattenStep ==
    ASSUME NEW S, NEW ss \in Seq(Seq(S)), NEW k \in 2..Len(ss), NEW s \in Seq(S),
           TakenFrom(s, ss, k - 1), Keeps(s, ss, k - 1)
    PROVE  /\ s \o ss[k] \in Seq(S)
           /\ TakenFrom(s \o ss[k], ss, k) /\ Keeps(s \o ss[k], ss, k)
<1> DEFINE t == ss[k]
           u == s \o t
           a == Len(s)
           b == Len(t)
<1>1. k \in Nat /\ k \in 1..Len(ss) /\ Len(ss) \in Nat
  BY LenProperties
<1>2. t \in Seq(S)
  BY <1>1, ElementOfSeq
<1>3. a \in Nat /\ b \in Nat
  BY <1>2, LenProperties
<1>4. /\ u \in Seq(S) /\ Len(u) = a + b
      /\ \A i \in 1..(a + b) : u[i] = IF i <= a THEN s[i] ELSE t[i - a]
  BY <1>2, ConcatProperties
<1> HIDE DEF u, a, b
<1>5. ASSUME NEW i \in 1..(a + b)
      PROVE  \E m \in 1..k : \E p \in 1..Len(ss[m]) : Taken(u, i, ss, m, p)
  <2>1. CASE i <= a
    <3>1. i \in 1..Len(s)
      BY <1>3, <2>1 DEF a
    <3>2. PICK m \in 1..(k - 1) : \E p \in 1..Len(ss[m]) : Taken(s, i, ss, m, p)
      BY <3>1 DEF TakenFrom
    <3>3. PICK p \in 1..Len(ss[m]) : Taken(s, i, ss, m, p)
      BY <3>2
    <3>4. m \in 1..k
      BY <1>1
    <3>5. \A j \in 1..i : u[j] = s[j]
      BY SMTT(30), <1>3, <1>4, <2>1
    <3>6. Taken(u, i, ss, m, p)
      <4>1. u[i] = ss[m][p]
        BY <1>3, <3>3, <3>5 DEF Taken
      <4>2. ASSUME NEW q \in 1..(p - 1) PROVE \E j \in 1..(i - 1) : u[j] = ss[m][q]
        <5>1. PICK j \in 1..(i - 1) : s[j] = ss[m][q]
          BY <3>3 DEF Taken
        <5>2. j \in 1..i
          BY <1>3
        <5> QED BY <3>5, <5>1, <5>2
      <4> QED BY <4>1, <4>2 DEF Taken
    <3> QED BY <3>4, <3>6
  <2>2. CASE ~(i <= a)
    <3> DEFINE p == i - a
    <3>1. p \in 1..b /\ k \in 1..k /\ p \in 1..Len(ss[k])
      BY <1>1, <1>3, <2>2 DEF b
    <3>2. u[i] = t[p]
      BY <1>4, <2>2
    <3>3. ASSUME NEW q \in 1..(p - 1) PROVE \E j \in 1..(i - 1) : u[j] = t[q]
      <4>1. a + q \in 1..(i - 1) /\ a + q \in 1..(a + b) /\ ~(a + q <= a) /\ a + q - a = q
        BY <1>3, <3>1
      <4> DEFINE j == a + q
      <4>2. j \in 1..(i - 1) /\ j \in 1..(a + b) /\ ~(j <= a) /\ j - a = q
        BY <1>3, <3>1, <4>1
      <4> HIDE DEF j
      <4>3. u[j] = t[q]
        BY <1>4, <4>2
      <4> QED BY <4>2, <4>3
    <3>4. Taken(u, i, ss, k, p)
      BY <3>2, <3>3 DEF Taken
    <3> QED BY <3>1, <3>4
  <2> QED BY <2>1, <2>2
<1>6. ASSUME NEW m \in 1..k, NEW p \in 1..Len(ss[m])
      PROVE  \E i \in 1..(a + b) : u[i] = ss[m][p]
  <2>1. CASE m = k
    <3>1. a + p \in 1..(a + b) /\ ~(a + p <= a) /\ a + p - a = p
      BY <1>3, <2>1 DEF b
    <3> DEFINE j == a + p
    <3>2. j \in 1..(a + b) /\ ~(j <= a) /\ j - a = p
      BY <1>3, <2>1, <3>1 DEF b
    <3> HIDE DEF j
    <3>3. u[j] = ss[m][p]
      BY <1>4, <2>1, <3>2
    <3> QED BY <3>2, <3>3
  <2>2. CASE m # k
    <3>1. m \in 1..(k - 1)
      BY <1>1, <2>2
    <3>2. PICK i \in 1..Len(s) : s[i] = ss[m][p]
      BY <3>1 DEF Keeps
    <3>3. i \in 1..(a + b) /\ i <= a
      BY <1>3 DEF a
    <3> QED BY <1>4, <3>2, <3>3
  <2> QED BY <2>1, <2>2
<1>7. TakenFrom(u, ss, k) /\ Keeps(u, ss, k)
  BY <1>4, <1>5, <1>6 DEF TakenFrom, Keeps
<1> QED BY <1>4, <1>7 DEF u

LEMMA Flatten ==
    ASSUME NEW S, NEW ss \in Seq(Seq(S))
    PROVE  /\ FlattenSeq(ss) \in Seq(S)
           /\ TakenFrom(FlattenSeq(ss), ss, Len(ss)) /\ Keeps(FlattenSeq(ss), ss, Len(ss))
           /\ Len(ss) = 1 => FlattenSeq(ss) = ss[1]
<1> DEFINE N == Len(ss)
<1>1. N \in Nat /\ \A k \in 1..N : ss[k] \in Seq(S)
  BY LenProperties, ElementOfSeq
<1>2. CASE N = 0
  <2>1. ss = <<>> /\ FlattenSeq(ss) = <<>>
    BY <1>2, EmptySeq DEF FlattenSeq
  <2>2. FlattenSeq(ss) \in Seq(S) /\ Len(FlattenSeq(ss)) = 0
    BY <2>1, EmptySeq
  <2> QED BY <1>2, <2>2 DEF TakenFrom, Keeps
<1>3. CASE N # 0
  <2>1. PICK flat : /\ flat[1] = ss[1]
                    /\ \A k \in 2..N : flat[k] = flat[k - 1] \o ss[k]
                    /\ FlattenSeq(ss) = flat[N]
    BY <1>3, FlattenSteps
  <2> DEFINE Good(k) == flat[k] \in Seq(S) /\ TakenFrom(flat[k], ss, k) /\ Keeps(flat[k], ss, k)
             T == {k \in 1..N : Good(k)}
  <2>2. ASSUME NEW k \in 1..N, \A m \in 1..(k - 1) : m \in T PROVE k \in T
    <3>1. CASE k = 1
      <4>1. flat[1] \in Seq(S)
        BY <1>1, <1>3, <2>1
      <4>2. \A i \in 1..Len(flat[1]) : Taken(flat[1], i, ss, 1, i)
        BY <2>1 DEF Taken
      <4>3. TakenFrom(flat[1], ss, 1)
        BY <2>1, <4>2 DEF TakenFrom
      <4>4. Keeps(flat[1], ss, 1)
        <5>1. \A m \in 1..1 : ss[m] = flat[1]
          BY <2>1
        <5> QED BY <5>1 DEF Keeps
      <4> QED BY <3>1, <4>1, <4>3, <4>4
    <3>2. CASE k # 1
      <4>1. k \in 2..N /\ k - 1 \in 1..(k - 1)
        BY <1>1, <3>2
      <4> DEFINE s == flat[k - 1]
      <4>2. s \in Seq(S) /\ TakenFrom(s, ss, k - 1) /\ Keeps(s, ss, k - 1)
        BY <2>2, <4>1
      <4>3. flat[k] = s \o ss[k]
        BY <2>1, <4>1
      <4> HIDE DEF s
      <4>4. Good(k)
        BY <4>1, <4>2, <4>3, FlattenStep
      <4> QED BY <4>4
    <3> QED BY <3>1, <3>2
  <2>3. Good(N)
    <3> HIDE DEF Good
    <3>1. N \in Nat /\ 1 \in Nat /\ N \in 1..N
      BY <1>1, <1>3
    <3> HIDE DEF T, N
    <3>2. 1..N \subseteq T
      BY <2>2, <3>1, IntervalInduction
    <3> QED BY <3>1, <3>2 DEF T
  <2> QED BY <2>1, <2>3
<1> QED BY <1>2, <1>3

(* The results of flattening the first k sequences of ss, each from the one before. *)
LEMMA FlattenTable ==
    ASSUME NEW S, NEW ss \in Seq(Seq(S))
    PROVE  \E flat : /\ flat[0] = <<>> /\ FlattenSeq(ss) = flat[Len(ss)]
                     /\ \A k \in 1..Len(ss) : flat[k] = flat[k - 1] \o ss[k]
                     /\ \A k \in 0..Len(ss) : flat[k] \in Seq(S)
<1> DEFINE N == Len(ss)
<1>1. N \in Nat /\ \A k \in 1..N : ss[k] \in Seq(S)
  BY LenProperties, ElementOfSeq
<1>2. CASE N = 0
  <2> DEFINE flat == [k \in 0..0 |-> <<>>]
  <2>1. ss = <<>> /\ FlattenSeq(ss) = <<>>
    BY <1>2, EmptySeq DEF FlattenSeq
  <2>2. flat[0] = <<>> /\ <<>> \in Seq(S)
    BY EmptySeq
  <2> HIDE DEF flat
  <2>3. /\ flat[0] = <<>> /\ FlattenSeq(ss) = flat[Len(ss)]
        /\ \A k \in 1..Len(ss) : flat[k] = flat[k - 1] \o ss[k]
        /\ \A k \in 0..Len(ss) : flat[k] \in Seq(S)
    <3>1. (\A k \in 1..Len(ss) : FALSE) /\ (\A k \in 0..Len(ss) : k = 0)
      BY <1>2
    <3> QED BY <1>2, <2>1, <2>2, <3>1
  <2> QED BY <2>3
<1>3. CASE N # 0
  <2>1. PICK f : /\ f[1] = ss[1] /\ \A k \in 2..N : f[k] = f[k - 1] \o ss[k]
                 /\ FlattenSeq(ss) = f[N]
    BY <1>3, FlattenSteps
  <2> DEFINE flat == [k \in 0..N |-> IF k = 0 THEN <<>> ELSE f[k]]
  <2>2. flat[0] = <<>> /\ \A k \in 1..N : flat[k] = f[k]
    BY <1>1
  <2> HIDE DEF flat
  <2>3. ASSUME NEW k \in 1..N PROVE flat[k] = flat[k - 1] \o ss[k]
    <3>1. CASE k = 1
      <4>1. <<>> \o ss[1] = ss[1] /\ k - 1 = 0
        BY <1>1, <3>1, ConcatEmptySeq
      <4> QED BY <2>1, <2>2, <3>1, <4>1
    <3>2. CASE k # 1
      <4>1. k \in 2..N /\ k - 1 \in 1..N
        BY <1>1, <3>2
      <4> QED BY <2>1, <2>2, <4>1
    <3> QED BY <3>1, <3>2
  <2> DEFINE T == {k \in 0..N : flat[k] \in Seq(S)}
  <2>4. ASSUME NEW k \in 0..N, \A j \in 0..(k - 1) : j \in T PROVE k \in T
    <3>1. CASE k = 0
      BY <2>2, <3>1, EmptySeq
    <3>2. CASE k # 0
      <4>1. k \in 1..N /\ k - 1 \in 0..(k - 1)
        BY <1>1, <3>2
      <4>2. flat[k - 1] \in Seq(S) /\ ss[k] \in Seq(S) /\ flat[k] = flat[k - 1] \o ss[k]
        BY <1>1, <2>3, <2>4, <4>1
      <4>3. flat[k] \in Seq(S)
        BY <4>2, ConcatProperties
      <4> QED BY <4>3
    <3> QED BY <3>1, <3>2
  <2> HIDE DEF T
  <2>5. 0..N \subseteq T
    <3> HIDE DEF N
    <3> QED BY <1>1, <2>4, IntervalInduction
  <2>6. \A k \in 0..N : flat[k] \in Seq(S)
    BY <2>5 DEF T
  <2>7. FlattenSeq(ss) = flat[N]
    BY <1>1, <1>3, <2>1, <2>2
  <2> QED BY <2>2, <2>3, <2>6, <2>7
<1> QED BY <1>2, <1>3

(* What op makes of the values of two sequences, g makes of the two in a row. *)
Joins(g, op, S) == \A s, t \in Seq(S) : g[s \o t] = op[<<g[s], g[t]>>]
Agree(g, h, ss, tt) == Len(ss) = Len(tt) /\ \A k \in 1..Len(ss) : g[ss[k]] = h[tt[k]]

(* Two readings that join alike agree on two lists of parts when they agree on each. *)
LEMMA FlattenAgree ==
    ASSUME NEW S, NEW T, NEW ss \in Seq(Seq(S)), NEW tt \in Seq(Seq(T)),
           NEW g, NEW h, NEW op, Joins(g, op, S), Joins(h, op, T), g[<<>>] = h[<<>>],
           Agree(g, h, ss, tt)
    PROVE  g[FlattenSeq(ss)] = h[FlattenSeq(tt)]
<1> DEFINE N == Len(ss)
<1>1. N \in Nat /\ \A k \in 1..N : ss[k] \in Seq(S) /\ tt[k] \in Seq(T)
  <2>1. Len(ss) = Len(tt)
    BY DEF Agree
  <2> QED BY <2>1, LenProperties, ElementOfSeq
<1>2. PICK a : /\ a[0] = <<>> /\ FlattenSeq(ss) = a[N]
               /\ \A k \in 1..N : a[k] = a[k - 1] \o ss[k]
               /\ \A k \in 0..N : a[k] \in Seq(S)
  BY FlattenTable
<1>3. PICK b : /\ b[0] = <<>> /\ FlattenSeq(tt) = b[N]
               /\ \A k \in 1..N : b[k] = b[k - 1] \o tt[k]
               /\ \A k \in 0..N : b[k] \in Seq(T)
  <2>1. N = Len(tt)
    BY DEF Agree
  <2> HIDE DEF N
  <2> QED BY <2>1, FlattenTable
<1> DEFINE U == {k \in 0..N : g[a[k]] = h[b[k]]}
<1> HIDE DEF N
<1>4. ASSUME NEW k \in 0..N, \A j \in 0..(k - 1) : j \in U PROVE k \in U
  <2>1. CASE k = 0
    BY <1>2, <1>3, <2>1
  <2>2. CASE k # 0
    <3>1. k \in 1..N /\ k - 1 \in 0..N /\ k - 1 \in 0..(k - 1)
      BY <1>1, <2>2
    <3>2. a[k] = a[k - 1] \o ss[k] /\ b[k] = b[k - 1] \o tt[k]
      BY <1>2, <1>3, <3>1
    <3>3. a[k - 1] \in Seq(S) /\ b[k - 1] \in Seq(T) /\ ss[k] \in Seq(S) /\ tt[k] \in Seq(T)
      BY <1>1, <1>2, <1>3, <3>1
    <3>4. g[a[k - 1]] = h[b[k - 1]] /\ g[ss[k]] = h[tt[k]]
      BY <1>4, <3>1 DEF N, Agree
    <3>5. g[a[k]] = op[<<g[a[k - 1]], g[ss[k]]>>] /\ h[b[k]] = op[<<h[b[k - 1]], h[tt[k]]>>]
      BY <3>2, <3>3, SMTT(30) DEF Joins
    <3> QED BY <3>4, <3>5
  <2> QED BY <2>1, <2>2
<1> HIDE DEF U
<1>5. 0..N \subseteq U
  BY <1>1, <1>4, IntervalInduction
<1>6. g[a[N]] = h[b[N]]
  BY <1>1, <1>5 DEF U
<1> QED BY <1>2, <1>3, <1>6

(* A reading of sequences that reads two in a row one after the other reads a list
   of parts part by part. *)
Spreads(g, S, T) ==
    /\ g[<<>>] = <<>> /\ \A s \in Seq(S) : g[s] \in Seq(T)
    /\ \A s, t \in Seq(S) : g[s \o t] = g[s] \o g[t]

LEMMA FlattenSpread ==
    ASSUME NEW S, NEW T, NEW g, Spreads(g, S, T), NEW ss \in Seq(Seq(S))
    PROVE  g[FlattenSeq(ss)] = FlattenSeq([k \in 1..Len(ss) |-> g[ss[k]]])
<1> DEFINE N == Len(ss)
           tt == [k \in 1..N |-> g[ss[k]]]
           h == [s \in Seq(T) |-> s]
           op == [p \in Seq(T) \X Seq(T) |-> p[1] \o p[2]]
<1>1. N \in Nat /\ \A k \in 1..N : ss[k] \in Seq(S)
  BY LenProperties, ElementOfSeq
<1>2. \A s \in Seq(S) : g[s] \in Seq(T)
  BY DEF Spreads
<1>3. tt \in Seq(Seq(T)) /\ Len(tt) = N /\ \A k \in 1..N : tt[k] = g[ss[k]]
  <2>1. tt \in [1..N -> Seq(T)] /\ \A k \in 1..N : tt[k] = g[ss[k]]
    BY <1>1, <1>2
  <2> HIDE DEF tt, N
  <2>2. tt \in Seq(Seq(T))
    BY <1>1, <2>1, SeqDef
  <2>3. Len(tt) = N
    BY <1>1, <2>1, <2>2, LenProperties
  <2> QED BY <2>1, <2>2, <2>3
<1>4. (\A s \in Seq(T) : h[s] = s) /\ \A s, t \in Seq(T) : op[<<s, t>>] = s \o t
  <2>1. \A s, t \in Seq(T) : <<s, t>> \in Seq(T) \X Seq(T) /\ <<s, t>>[1] = s /\ <<s, t>>[2] = t
    OBVIOUS
  <2>2. \A s, t \in Seq(T) : op[<<s, t>>] = s \o t
    BY <2>1, Zenon
  <2> QED BY <2>2
<1> HIDE DEF h, op, tt
<1>5. Joins(g, op, S)
  <2> SUFFICES ASSUME NEW s \in Seq(S), NEW t \in Seq(S) PROVE g[s \o t] = op[<<g[s], g[t]>>]
    BY DEF Joins
  <2>1. g[s] \in Seq(T) /\ g[t] \in Seq(T) /\ g[s \o t] = g[s] \o g[t]
    BY DEF Spreads
  <2> QED BY <1>4, <2>1
<1>6. Joins(h, op, T)
  <2> SUFFICES ASSUME NEW s \in Seq(T), NEW t \in Seq(T) PROVE h[s \o t] = op[<<h[s], h[t]>>]
    BY DEF Joins
  <2>1. s \o t \in Seq(T)
    BY ConcatProperties
  <2> QED BY <1>4, <2>1
<1>7. g[<<>>] = h[<<>>]
  BY <1>4, EmptySeq DEF Spreads
<1>8. Agree(g, h, ss, tt)
  BY <1>1, <1>2, <1>3, <1>4 DEF Agree
<1>9. g[FlattenSeq(ss)] = h[FlattenSeq(tt)]
  BY <1>3, <1>5, <1>6, <1>7, <1>8, FlattenAgree
<1>10. FlattenSeq(tt) \in Seq(T)
  BY <1>3, Flatten
<1> QED BY <1>4, <1>9, <1>10 DEF tt, N

(* A mapping of the elements, one by one. *)
Map(f, s) == [i \in 1..Len(s) |-> f[s[i]]]
Maps(f, S, T) == \A x \in S : f[x] \in T

LEMMA MapSeq ==
    ASSUME NEW S, NEW T, NEW f, Maps(f, S, T), NEW s \in Seq(S)
    PROVE  Map(f, s) \in Seq(T) /\ Len(Map(f, s)) = Len(s) /\ \A i \in 1..Len(s) : Map(f, s)[i] = f[s[i]]
<1> DEFINE N == Len(s)
           m == Map(f, s)
<1>1. N \in Nat /\ \A i \in 1..N : s[i] \in S
  BY LenProperties, ElementOfSeq
<1>2. m \in [1..N -> T] /\ \A i \in 1..N : m[i] = f[s[i]]
  BY <1>1 DEF Map, Maps
<1> HIDE DEF m, N
<1>3. m \in Seq(T)
  BY <1>1, <1>2, SeqDef
<1>4. Len(m) = N
  BY <1>1, <1>2, <1>3, LenProperties
<1> QED BY <1>2, <1>3, <1>4 DEF m, N

LEMMA MapConcat ==
    ASSUME NEW S, NEW T, NEW f, Maps(f, S, T), NEW s \in Seq(S), NEW t \in Seq(S)
    PROVE  Map(f, s \o t) = Map(f, s) \o Map(f, t)
<1> DEFINE u == s \o t
           a == Map(f, s)
           b == Map(f, t)
           c == Map(f, u)
<1>1. Len(s) \in Nat /\ Len(t) \in Nat
  BY LenProperties
<1>2. /\ u \in Seq(S) /\ Len(u) = Len(s) + Len(t)
      /\ \A i \in 1..(Len(s) + Len(t)) : u[i] = IF i <= Len(s) THEN s[i] ELSE t[i - Len(s)]
  BY ConcatProperties
<1> HIDE DEF u
<1>3. /\ a \in Seq(T) /\ Len(a) = Len(s) /\ \A i \in 1..Len(s) : a[i] = f[s[i]]
      /\ b \in Seq(T) /\ Len(b) = Len(t) /\ \A i \in 1..Len(t) : b[i] = f[t[i]]
      /\ c \in Seq(T) /\ Len(c) = Len(u) /\ \A i \in 1..Len(u) : c[i] = f[u[i]]
  <2>1. a \in Seq(T) /\ Len(a) = Len(s) /\ \A i \in 1..Len(s) : a[i] = f[s[i]]
    BY MapSeq
  <2>2. b \in Seq(T) /\ Len(b) = Len(t) /\ \A i \in 1..Len(t) : b[i] = f[t[i]]
    BY MapSeq
  <2>3. c \in Seq(T) /\ Len(c) = Len(u) /\ \A i \in 1..Len(u) : c[i] = f[u[i]]
    BY <1>2, MapSeq
  <2> QED BY <2>1, <2>2, <2>3
<1> HIDE DEF a, b, c
<1> DEFINE d == a \o b
<1>4. /\ d \in Seq(T) /\ Len(d) = Len(s) + Len(t)
      /\ \A i \in 1..(Len(s) + Len(t)) : d[i] = IF i <= Len(s) THEN a[i] ELSE b[i - Len(s)]
  <2>1. a \in Seq(T) /\ b \in Seq(T) /\ Len(a) = Len(s) /\ Len(b) = Len(t)
    BY <1>3
  <2>2. /\ d \in Seq(T) /\ Len(d) = Len(a) + Len(b)
        /\ \A i \in 1..(Len(a) + Len(b)) : d[i] = IF i <= Len(a) THEN a[i] ELSE b[i - Len(a)]
    BY ONLY <2>1, ConcatProperties
  <2> HIDE DEF d
  <2> QED BY <2>1, <2>2
<1> HIDE DEF d
<1>5. ASSUME NEW i \in 1..Len(c) PROVE c[i] = d[i]
  <2>1. i \in 1..(Len(s) + Len(t)) /\ i \in 1..Len(u)
    BY <1>2, <1>3
  <2>2. CASE i <= Len(s)
    <3>1. i \in 1..Len(s) /\ u[i] = s[i] /\ d[i] = a[i]
      BY <1>1, <1>2, <1>4, <2>1, <2>2
    <3> QED BY <1>3, <2>1, <3>1
  <2>3. CASE ~(i <= Len(s))
    <3> DEFINE j == i - Len(s)
    <3>1. j \in 1..Len(t)
      BY <1>1, <2>1, <2>3
    <3> HIDE DEF j
    <3>2. u[i] = t[j] /\ d[i] = b[j]
      BY <1>2, <1>4, <2>1, <2>3 DEF j
    <3> QED BY <1>3, <2>1, <3>1, <3>2
  <2> QED BY <2>2, <2>3
<1>6. c = d
  BY <1>2, <1>3, <1>4, <1>5, SeqEqual
<1> QED BY <1>6 DEF c, d, a, b, u

(* No value but Nil stands twice in s; none but Nil stands in both sets. *)
Distinct(s) == \A i, j \in 1..Len(s) : s[i] = s[j] /\ s[i] # Nil => i = j
Apart(A, B) == A \cap B \subseteq {Nil}

LEMMA Values ==
    ASSUME NEW S, NEW s \in Seq(S)
    PROVE  ToSet(s) \subseteq S /\ \A x : x \in ToSet(s) <=> \E i \in 1..Len(s) : s[i] = x
<1>1. DOMAIN s = 1..Len(s) /\ \A i \in 1..Len(s) : s[i] \in S
  BY LenProperties, ElementOfSeq
<1> QED BY <1>1 DEF ToSet

LEMMA Concat ==
    ASSUME NEW S, NEW s \in Seq(S), NEW t \in Seq(S)
    PROVE  /\ s \o t \in Seq(S) /\ Len(s \o t) = Len(s) + Len(t)
           /\ \A i \in 1..Len(s) : i \in 1..Len(s \o t) /\ (s \o t)[i] = s[i]
           /\ \A i \in 1..Len(t) : Len(s) + i \in 1..Len(s \o t) /\ (s \o t)[Len(s) + i] = t[i]
           /\ \A i \in 1..Len(s \o t) :
                 i \notin 1..Len(s) => \E k \in 1..Len(t) : i = Len(s) + k
<1> DEFINE u == s \o t
           a == Len(s)
           b == Len(t)
<1>1. a \in Nat /\ b \in Nat
  BY LenProperties
<1>2. /\ u \in Seq(S) /\ Len(u) = a + b
      /\ \A i \in 1..(a + b) : u[i] = IF i <= a THEN s[i] ELSE t[i - a]
  BY ConcatProperties
<1> HIDE DEF u, a, b
<1>3. ASSUME NEW i \in 1..a PROVE i \in 1..Len(u) /\ u[i] = s[i]
  <2>1. i \in 1..(a + b) /\ i <= a
    BY <1>1
  <2> QED BY <1>2, <2>1
<1>4. ASSUME NEW i \in 1..b PROVE a + i \in 1..Len(u) /\ u[a + i] = t[i]
  <2> DEFINE j == a + i
  <2>1. j \in 1..(a + b) /\ ~(j <= a) /\ j - a = i
    BY <1>1
  <2> HIDE DEF j
  <2>2. j \in 1..Len(u) /\ u[j] = t[i]
    BY <1>2, <2>1
  <2> QED BY <2>2 DEF j
<1>5. ASSUME NEW i \in 1..Len(u), i \notin 1..a PROVE \E k \in 1..b : i = a + k
  <2> DEFINE k == i - a
  <2>1. k \in 1..b /\ i = a + k
    BY <1>1, <1>2, <1>5
  <2> QED BY <2>1
<1> QED BY <1>2, <1>3, <1>4, <1>5 DEF u, a, b

LEMMA ConcatValues ==
    ASSUME NEW S, NEW s \in Seq(S), NEW t \in Seq(S)
    PROVE  ToSet(s \o t) = ToSet(s) \cup ToSet(t)
<1> DEFINE u == s \o t
<1>1. /\ u \in Seq(S)
      /\ \A i \in 1..Len(s) : i \in 1..Len(u) /\ u[i] = s[i]
      /\ \A i \in 1..Len(t) : Len(s) + i \in 1..Len(u) /\ u[Len(s) + i] = t[i]
      /\ \A i \in 1..Len(u) : i \notin 1..Len(s) => \E k \in 1..Len(t) : i = Len(s) + k
  BY Concat
<1> HIDE DEF u
<1>2. \A x : /\ x \in ToSet(u) <=> \E i \in 1..Len(u) : u[i] = x
             /\ x \in ToSet(s) <=> \E i \in 1..Len(s) : s[i] = x
             /\ x \in ToSet(t) <=> \E i \in 1..Len(t) : t[i] = x
  <2>1. u \in Seq(S) /\ s \in Seq(S) /\ t \in Seq(S)
    BY <1>1
  <2> QED BY ONLY <2>1, Values
<1>3. ASSUME NEW x \in ToSet(u) PROVE x \in ToSet(s) \cup ToSet(t)
  <2>1. PICK i \in 1..Len(u) : u[i] = x
    BY <1>2, <1>3
  <2>2. CASE i \in 1..Len(s)
    BY <1>1, <1>2, <2>1, <2>2
  <2>3. CASE i \notin 1..Len(s)
    <3>1. PICK k \in 1..Len(t) : i = Len(s) + k
      BY <1>1, <2>3
    <3> QED BY <1>1, <1>2, <2>1, <3>1
  <2> QED BY <2>2, <2>3
<1>4. ASSUME NEW x \in ToSet(s) \cup ToSet(t) PROVE x \in ToSet(u)
  <2>1. CASE x \in ToSet(s)
    BY <1>1, <1>2, <2>1
  <2>2. CASE x \in ToSet(t)
    <3>1. PICK k \in 1..Len(t) : t[k] = x
      BY <1>2, <2>2
    <3>2. Len(s) + k \in 1..Len(u) /\ u[Len(s) + k] = x
      BY <1>1, <3>1
    <3> QED BY <1>2, <3>2
  <2> QED BY <1>4, <2>1, <2>2
<1>5. ToSet(u) = ToSet(s) \cup ToSet(t)
  BY <1>3, <1>4
<1> QED BY <1>5 DEF u

LEMMA ConcatDistinct ==
    ASSUME NEW S, NEW s \in Seq(S), NEW t \in Seq(S)
    PROVE  Distinct(s \o t) <=> Distinct(s) /\ Distinct(t) /\ Apart(ToSet(s), ToSet(t))
<1> DEFINE u == s \o t
           a == Len(s)
<1>1. /\ u \in Seq(S) /\ a \in Nat
      /\ \A i \in 1..a : i \in 1..Len(u) /\ u[i] = s[i]
      /\ \A i \in 1..Len(t) : a + i \in 1..Len(u) /\ u[a + i] = t[i]
      /\ \A i \in 1..Len(u) : i \notin 1..a => \E k \in 1..Len(t) : i = a + k
  BY Concat, LenProperties
<1> HIDE DEF u, a
<1>2. \A x : /\ x \in ToSet(s) <=> \E i \in 1..a : s[i] = x
             /\ x \in ToSet(t) <=> \E i \in 1..Len(t) : t[i] = x
  BY Values DEF a
<1>3. ASSUME Distinct(u) PROVE Distinct(s) /\ Distinct(t) /\ Apart(ToSet(s), ToSet(t))
  <2>1. ASSUME NEW i \in 1..a, NEW j \in 1..a, s[i] = s[j], s[i] # Nil PROVE i = j
    BY <1>1, <1>3, <2>1 DEF Distinct
  <2>2. ASSUME NEW i \in 1..Len(t), NEW j \in 1..Len(t), t[i] = t[j], t[i] # Nil PROVE i = j
    <3>1. a + i = a + j
      BY <1>1, <1>3, <2>2 DEF Distinct
    <3> QED BY <1>1, <3>1
  <2>3. ASSUME NEW x \in ToSet(s), x \in ToSet(t), x # Nil PROVE FALSE
    <3>1. PICK i \in 1..a : s[i] = x
      BY <1>2
    <3>2. PICK k \in 1..Len(t) : t[k] = x
      BY <1>2, <2>3
    <3>3. i = a + k
      BY <1>1, <1>3, <2>3, <3>1, <3>2 DEF Distinct
    <3> QED BY <1>1, <3>3
  <2> QED BY <2>1, <2>2, <2>3 DEF Distinct, Apart, a
<1>4. ASSUME Distinct(s), Distinct(t), Apart(ToSet(s), ToSet(t)),
             NEW i \in 1..Len(u), NEW j \in 1..Len(u), u[i] = u[j], u[i] # Nil
      PROVE  i = j
  <2>1. ASSUME NEW p \in 1..a, NEW k \in 1..Len(t), u[p] = u[a + k], u[p] # Nil PROVE FALSE
    <3>1. s[p] \in ToSet(s) /\ t[k] \in ToSet(t) /\ s[p] = t[k] /\ s[p] # Nil
      BY <1>1, <1>2, <2>1
    <3> QED BY <1>4, <3>1 DEF Apart
  <2>2. CASE i \in 1..a /\ j \in 1..a
    BY <1>1, <1>4, <2>2 DEF Distinct, a
  <2>3. CASE i \in 1..a /\ j \notin 1..a
    BY <1>1, <1>4, <2>1, <2>3
  <2>4. CASE i \notin 1..a /\ j \in 1..a
    BY <1>1, <1>4, <2>1, <2>4
  <2>5. CASE i \notin 1..a /\ j \notin 1..a
    <3>1. PICK k \in 1..Len(t) : i = a + k
      BY <1>1, <2>5
    <3>2. PICK h \in 1..Len(t) : j = a + h
      BY <1>1, <2>5
    <3>3. t[k] = t[h] /\ t[k] # Nil
      BY <1>1, <1>4, <3>1, <3>2
    <3> QED BY <1>4, <3>1, <3>2, <3>3 DEF Distinct
  <2> QED BY <2>2, <2>3, <2>4, <2>5
<1>5. Distinct(s) /\ Distinct(t) /\ Apart(ToSet(s), ToSet(t)) => Distinct(u)
  BY <1>4 DEF Distinct
<1> QED BY <1>3, <1>5 DEF u

(* The parts of a list, the values they hold, and when none holds a value twice. *)
PartValues(ss, k) == UNION {ToSet(ss[m]) : m \in 1..k}
PartsApart(ss, k) ==
    /\ \A m \in 1..k : Distinct(ss[m])
    /\ \A m, p \in 1..k : m < p => Apart(ToSet(ss[m]), ToSet(ss[p]))

LEMMA FlattenDistinct ==
    ASSUME NEW S, NEW ss \in Seq(Seq(S))
    PROVE  /\ ToSet(FlattenSeq(ss)) = PartValues(ss, Len(ss))
           /\ Distinct(FlattenSeq(ss)) <=> PartsApart(ss, Len(ss))
<1> DEFINE N == Len(ss)
<1>1. N \in Nat /\ \A k \in 1..N : ss[k] \in Seq(S)
  BY LenProperties, ElementOfSeq
<1>2. PICK a : /\ a[0] = <<>> /\ FlattenSeq(ss) = a[N]
               /\ \A k \in 1..N : a[k] = a[k - 1] \o ss[k]
               /\ \A k \in 0..N : a[k] \in Seq(S)
  BY FlattenTable
<1> DEFINE Good(k) == /\ ToSet(a[k]) = PartValues(ss, k)
                      /\ Distinct(a[k]) <=> PartsApart(ss, k)
           U == {k \in 0..N : Good(k)}
<1> HIDE DEF N
<1>3. ASSUME NEW k \in 0..N, \A j \in 0..(k - 1) : j \in U PROVE k \in U
  <2>1. CASE k = 0
    <3>1. a[0] = <<>> /\ Len(a[0]) = 0 /\ \A m \in 1..0 : FALSE
      BY <1>2
    <3>2. ToSet(a[0]) = {} /\ PartValues(ss, 0) = {}
      BY <3>1 DEF ToSet, PartValues
    <3>3. Distinct(a[0]) /\ PartsApart(ss, 0)
      BY <3>1 DEF Distinct, PartsApart
    <3> QED BY <2>1, <3>2, <3>3
  <2>2. CASE k # 0
    <3> DEFINE h == k - 1
    <3>1. /\ k \in Nat /\ k \in 1..N /\ h \in Nat /\ h \in 0..N /\ h \in 0..(k - 1) /\ h < k
          /\ \A m \in 1..k : m = k \/ m \in 1..h
          /\ \A m \in 1..h : m \in 1..k /\ m < k
      BY <1>1, <2>2
    <3>2. Good(h)
      BY <1>3, <3>1
    <3>3. a[k] = a[h] \o ss[k] /\ a[h] \in Seq(S) /\ ss[k] \in Seq(S)
      BY <1>1, <1>2, <3>1
    <3> HIDE DEF h
    <3>4. ToSet(a[k]) = ToSet(a[h]) \cup ToSet(ss[k])
      BY <3>3, ConcatValues
    <3>5. Distinct(a[k]) <=> Distinct(a[h]) /\ Distinct(ss[k]) /\ Apart(ToSet(a[h]), ToSet(ss[k]))
      BY <3>3, ConcatDistinct
    <3>6. PartValues(ss, k) = PartValues(ss, h) \cup ToSet(ss[k])
      <4>1. k \in 1..k
        BY <3>1
      <4> QED BY <3>1, <4>1 DEF PartValues
    <3>7. Apart(PartValues(ss, h), ToSet(ss[k]))
             <=> \A m \in 1..h : Apart(ToSet(ss[m]), ToSet(ss[k]))
      BY DEF PartValues, Apart
    <3>8. PartsApart(ss, k) <=> /\ PartsApart(ss, h) /\ Distinct(ss[k])
                                /\ \A m \in 1..h : Apart(ToSet(ss[m]), ToSet(ss[k]))
      <4>1. k \in 1..k
        BY <3>1
      <4>2. \A m, p \in 1..k : m < p => m \in 1..h /\ (p = k \/ p \in 1..h)
        BY <3>1 DEF h
      <4> QED BY <3>1, <4>1, <4>2 DEF PartsApart
    <3>9. Good(k)
      BY <3>2, <3>4, <3>5, <3>6, <3>7, <3>8
    <3> QED BY <3>9
  <2> QED BY <2>1, <2>2
<1> HIDE DEF U
<1>4. 0..N \subseteq U
  BY <1>1, <1>3, IntervalInduction
<1>5. Good(N)
  BY <1>1, <1>4 DEF U
<1> QED BY <1>2, <1>5 DEF N

LEMMA FlattenConcat ==
    ASSUME NEW S, NEW ss \in Seq(Seq(S)), NEW tt \in Seq(Seq(S))
    PROVE  FlattenSeq(ss \o tt) = FlattenSeq(ss) \o FlattenSeq(tt)
<1> DEFINE uu == ss \o tt
           M == Len(ss)
           N == Len(tt)
<1>1. M \in Nat /\ N \in Nat /\ \A k \in 1..N : tt[k] \in Seq(S)
  BY LenProperties, ElementOfSeq
<1>2. /\ uu \in Seq(Seq(S)) /\ Len(uu) = M + N
      /\ \A k \in 1..M : uu[k] = ss[k]
      /\ \A k \in 1..N : uu[M + k] = tt[k]
  BY Concat
<1>3. PICK a : /\ a[0] = <<>> /\ FlattenSeq(ss) = a[M]
               /\ \A k \in 1..M : a[k] = a[k - 1] \o ss[k]
               /\ \A k \in 0..M : a[k] \in Seq(S)
  BY FlattenTable
<1>4. PICK b : /\ b[0] = <<>> /\ FlattenSeq(tt) = b[N]
               /\ \A k \in 1..N : b[k] = b[k - 1] \o tt[k]
               /\ \A k \in 0..N : b[k] \in Seq(S)
  BY FlattenTable
<1> HIDE DEF uu
<1>5. PICK c : /\ c[0] = <<>> /\ FlattenSeq(uu) = c[Len(uu)]
               /\ \A k \in 1..Len(uu) : c[k] = c[k - 1] \o uu[k]
               /\ \A k \in 0..Len(uu) : c[k] \in Seq(S)
  BY <1>2, FlattenTable
<1> HIDE DEF M, N
<1> DEFINE T == {k \in 0..M : c[k] = a[k]}
           U == {k \in 0..N : c[M + k] = a[M] \o b[k]}
<1>6. ASSUME NEW k \in 0..M, \A j \in 0..(k - 1) : j \in T PROVE k \in T
  <2>1. CASE k = 0
    BY <1>3, <1>5, <2>1
  <2>2. CASE k # 0
    <3>1. k \in 1..M /\ k \in 1..Len(uu) /\ k - 1 \in 0..(k - 1)
      BY <1>1, <1>2, <2>2
    <3>2. c[k] = c[k - 1] \o uu[k] /\ a[k] = a[k - 1] \o ss[k] /\ uu[k] = ss[k]
      BY <1>2, <1>3, <1>5, <3>1
    <3>3. c[k - 1] = a[k - 1]
      BY <1>6, <3>1
    <3> QED BY <3>2, <3>3
  <2> QED BY <2>1, <2>2
<1> HIDE DEF T
<1>7. c[M] = a[M]
  <2>1. 0..M \subseteq T
    BY <1>1, <1>6, IntervalInduction
  <2> QED BY <1>1, <2>1 DEF T
<1>8. ASSUME NEW k \in 0..N, \A j \in 0..(k - 1) : j \in U PROVE k \in U
  <2>1. a[M] \in Seq(S)
    BY <1>1, <1>3
  <2>2. CASE k = 0
    <3>1. a[M] \o <<>> = a[M]
      BY <2>1, ConcatEmptySeq
    <3>2. M + k = M
      BY <1>1, <2>2
    <3> QED BY <1>4, <1>7, <2>2, <3>1, <3>2
  <2>3. CASE k # 0
    <3> DEFINE h == k - 1
               p == M + k
    <3>1. k \in 1..N /\ p \in 1..Len(uu) /\ h \in 0..(k - 1) /\ h \in 0..N /\ p - 1 = M + h
      BY <1>1, <1>2, <2>3
    <3> HIDE DEF p
    <3>2. c[p] = c[M + h] \o uu[p] /\ b[k] = b[h] \o tt[k] /\ uu[p] = tt[k]
      BY <1>2, <1>4, <1>5, <3>1 DEF p
    <3>3. c[M + h] = a[M] \o b[h]
      BY <1>8, <3>1
    <3>4. b[h] \in Seq(S) /\ tt[k] \in Seq(S)
      BY <1>1, <1>4, <3>1
    <3> HIDE DEF h
    <3> DEFINE x == a[M] y == b[h] z == tt[k]
    <3>5. (x \o y) \o z = x \o (y \o z)
      <4>1. x \in Seq(S) /\ y \in Seq(S) /\ z \in Seq(S)
        BY <2>1, <3>4
      <4> HIDE DEF x, y, z
      <4> QED BY <4>1, ConcatAssociative, SMTT(30)
    <3>6. c[M + k] = a[M] \o b[k]
      BY <3>2, <3>3, <3>5 DEF p
    <3> QED BY <3>6
  <2> QED BY <2>2, <2>3
<1> HIDE DEF U
<1>9. c[M + N] = a[M] \o b[N]
  <2>1. 0..N \subseteq U
    BY <1>1, <1>8, IntervalInduction
  <2>2. N \in U
    BY <1>1, <2>1
  <2> QED BY <2>2 DEF U
<1> QED BY <1>2, <1>3, <1>4, <1>5, <1>9 DEF uu

LEMMA FlattenOne ==
    ASSUME NEW S, NEW s \in Seq(S)
    PROVE  FlattenSeq(<<s>>) = s
<1>1. <<s>> \in Seq(Seq(S)) /\ Len(<<s>>) = 1 /\ <<s>>[1] = s
  OBVIOUS
<1> QED BY <1>1, Flatten

(* What each element of s stands for, one after the other. *)
FlatMap(f, s) == FlattenSeq(Map(f, s))

LEMMA FlatMapSeq ==
    ASSUME NEW S, NEW T, NEW f, Maps(f, S, Seq(T)), NEW s \in Seq(S)
    PROVE  FlatMap(f, s) \in Seq(T)
<1>1. Map(f, s) \in Seq(Seq(T))
  BY MapSeq
<1> QED BY <1>1, Flatten DEF FlatMap

LEMMA FlatMapConcat ==
    ASSUME NEW S, NEW T, NEW f, Maps(f, S, Seq(T)), NEW s \in Seq(S), NEW t \in Seq(S)
    PROVE  FlatMap(f, s \o t) = FlatMap(f, s) \o FlatMap(f, t)
<1>1. Map(f, s) \in Seq(Seq(T)) /\ Map(f, t) \in Seq(Seq(T))
  BY MapSeq
<1>2. Map(f, s \o t) = Map(f, s) \o Map(f, t)
  BY MapConcat
<1> QED BY <1>1, <1>2, FlattenConcat DEF FlatMap

LEMMA FlatMapOne ==
    ASSUME NEW S, NEW T, NEW f, Maps(f, S, Seq(T)), NEW x \in S
    PROVE  FlatMap(f, <<x>>) = f[x]
<1>1. f[x] \in Seq(T)
  BY DEF Maps
<1>2. Map(f, <<x>>) = <<f[x]>>
  BY DEF Map
<1> QED BY <1>1, <1>2, FlattenOne DEF FlatMap

LEMMA FlatMapFlatten ==
    ASSUME NEW S, NEW T, NEW f, Maps(f, S, Seq(T)), NEW ss \in Seq(Seq(S))
    PROVE  FlatMap(f, FlattenSeq(ss)) = FlattenSeq([k \in 1..Len(ss) |-> FlatMap(f, ss[k])])
<1> DEFINE g == [s \in Seq(S) |-> FlatMap(f, s)]
<1>1. \A s \in Seq(S) : g[s] = FlatMap(f, s)
  OBVIOUS
<1> HIDE DEF g
<1>2. Spreads(g, S, T)
  <2>1. <<>> \in Seq(S) /\ FlatMap(f, <<>>) = <<>>
    BY EmptySeq DEF FlatMap, Map, FlattenSeq
  <2>2. ASSUME NEW s \in Seq(S) PROVE g[s] \in Seq(T)
    BY <1>1, FlatMapSeq
  <2>3. ASSUME NEW s \in Seq(S), NEW t \in Seq(S) PROVE g[s \o t] = g[s] \o g[t]
    <3>1. s \o t \in Seq(S)
      BY ConcatProperties
    <3>2. FlatMap(f, s \o t) = FlatMap(f, s) \o FlatMap(f, t)
      BY FlatMapConcat
    <3> QED BY <1>1, <3>1, <3>2
  <2> QED BY <1>1, <2>1, <2>2, <2>3 DEF Spreads
<1>3. g[FlattenSeq(ss)] = FlattenSeq([k \in 1..Len(ss) |-> g[ss[k]]])
  BY <1>2, FlattenSpread
<1>4. FlattenSeq(ss) \in Seq(S) /\ \A k \in 1..Len(ss) : ss[k] \in Seq(S)
  BY Flatten, ElementOfSeq
<1>5. [k \in 1..Len(ss) |-> g[ss[k]]] = [k \in 1..Len(ss) |-> FlatMap(f, ss[k])]
  BY <1>1, <1>4
<1> QED BY <1>1, <1>3, <1>4, <1>5

LEMMA MapFlatten ==
    ASSUME NEW S, NEW T, NEW f, Maps(f, S, T), NEW ss \in Seq(Seq(S))
    PROVE  Map(f, FlattenSeq(ss)) = FlattenSeq([k \in 1..Len(ss) |-> Map(f, ss[k])])
<1> DEFINE g == [s \in Seq(S) |-> Map(f, s)]
<1>1. \A s \in Seq(S) : g[s] = Map(f, s)
  OBVIOUS
<1> HIDE DEF g
<1>2. Spreads(g, S, T)
  <2>1. <<>> \in Seq(S) /\ Map(f, <<>>) = <<>>
    BY EmptySeq DEF Map
  <2>2. ASSUME NEW s \in Seq(S) PROVE g[s] \in Seq(T)
    BY <1>1, MapSeq
  <2>3. ASSUME NEW s \in Seq(S), NEW t \in Seq(S) PROVE g[s \o t] = g[s] \o g[t]
    <3>1. s \o t \in Seq(S)
      BY ConcatProperties
    <3>2. Map(f, s \o t) = Map(f, s) \o Map(f, t)
      BY MapConcat
    <3> QED BY <1>1, <3>1, <3>2
  <2> QED BY <1>1, <2>1, <2>2, <2>3 DEF Spreads
<1>3. g[FlattenSeq(ss)] = FlattenSeq([k \in 1..Len(ss) |-> g[ss[k]]])
  BY <1>2, FlattenSpread
<1>4. FlattenSeq(ss) \in Seq(S) /\ \A k \in 1..Len(ss) : ss[k] \in Seq(S)
  BY Flatten, ElementOfSeq
<1>5. [k \in 1..Len(ss) |-> g[ss[k]]] = [k \in 1..Len(ss) |-> Map(f, ss[k])]
  BY <1>1, <1>4
<1> QED BY <1>1, <1>3, <1>4, <1>5

-----------------------------------------------------------------------------
(* The shape of trees. *)

AllKinds == Kinds \cup {"canceled", "deadline"} \cup Sentinels
Errors == [kind : AllKinds, kids : Seq(Nat), code : Int, public : BOOLEAN, order : Seq(Nat)]

(* The orders of the children, as As comes to them. *)
KidOrders(e) == [i \in 1..Len(AsKids(e)) |-> node[AsKids(e)[i]].order]
OrderOK(n) ==
    node[n].order \in Seq(1..n) /\ node[n].order = <<n>> \o FlattenSeq(KidOrders(node[n]))

(* The inductive invariant. *)
TreeIInv == node \in Seq(Errors) /\ TypeOK /\ \A n \in Ids : OrderOK(n)

LEMMA AsKidsSeq ==
    ASSUME NEW S, NEW e, e.kids \in Seq(S), KindOK(e)
    PROVE  /\ AsKids(e) \in Seq(S) /\ Len(AsKids(e)) = Len(e.kids)
           /\ e.kind # "linkMulti" => AsKids(e) = e.kids
<1> DEFINE kids == e.kids
<1>1. CASE e.kind = "linkMulti"
  <2>1. Len(kids) >= 2
    <3>1. e.kind \notin Decorators
      BY <1>1 DEF Decorators
    <3>2. e.kind \notin Leaves
      BY <1>1, SentinelsAssumption DEF Leaves, Kinds
    <3> QED BY <1>1, <3>1, <3>2 DEF KindOK
  <2>2. kids # <<>> /\ Len(kids) \in Nat
    BY <2>1, LenProperties, EmptySeq
  <2>3. kids[1] \in S /\ Tail(kids) \in Seq(S) /\ Len(Tail(kids)) = Len(kids) - 1
    BY <2>1, <2>2, ElementOfSeq, HeadTailProperties
  <2>4. AsKids(e) = Append(Tail(kids), kids[1])
    BY <1>1 DEF AsKids
  <2> HIDE DEF kids
  <2> QED BY <1>1, <2>2, <2>3, <2>4, AppendProperties DEF kids
<1>2. CASE e.kind # "linkMulti"
  BY <1>2 DEF AsKids
<1> QED BY <1>1, <1>2

LEMMA Typing ==
    ASSUME TreeIInv
    PROVE  /\ Len(node) \in Nat /\ Ids = 1..Len(node) /\ Ids \subseteq Nat
           /\ \A n \in Ids : /\ node[n] \in Errors
                             /\ node[n].kids \in Seq(1..(n - 1))
                             /\ node[n].order \in Seq(1..n)
<1>1. Len(node) \in Nat /\ Ids = 1..Len(node) /\ Ids \subseteq Nat
  BY LenProperties DEF TreeIInv, Ids
<1>2. ASSUME NEW n \in Ids PROVE node[n] \in Errors /\ node[n].kids \in Seq(1..(n - 1))
  <2>1. node[n] \in Errors
    BY <1>1, ElementOfSeq DEF TreeIInv
  <2> DEFINE kids == node[n].kids
  <2>2. kids \in Seq(Nat) /\ ToSet(kids) \subseteq 1..(n - 1)
    BY <2>1 DEF TreeIInv, TypeOK, Errors
  <2> HIDE DEF kids
  <2>3. kids \in Seq(1..(n - 1))
    <3>1. Len(kids) \in Nat /\ kids \in [1..Len(kids) -> Nat]
      BY <2>2, LenProperties
    <3>2. kids \in [1..Len(kids) -> 1..(n - 1)]
      BY <2>2, <3>1 DEF ToSet
    <3> QED BY <3>1, <3>2, SeqDef
  <2> QED BY <2>1, <2>3 DEF kids
<1>3. \A n \in Ids : node[n].order \in Seq(1..n)
  BY DEF TreeIInv, OrderOK
<1> QED BY <1>1, <1>2, <1>3

(* What AsOrder reads of an error whose children exist. *)
LEMMA KidOrdersSeq ==
    ASSUME TreeIInv, NEW m \in Nat, m <= Len(node), NEW e, e.kids \in Seq(1..m), KindOK(e)
    PROVE  /\ AsKids(e) \in Seq(1..m) /\ Len(KidOrders(e)) = Len(AsKids(e))
           /\ KidOrders(e) \in Seq(Seq(1..m))
           /\ \A i \in 1..Len(AsKids(e)) : KidOrders(e)[i] = node[AsKids(e)[i]].order
<1> DEFINE kids == AsKids(e)
           N == Len(kids)
<1>1. kids \in Seq(1..m)
  BY AsKidsSeq
<1>2. N \in Nat /\ \A i \in 1..N : kids[i] \in 1..m
  BY <1>1, LenProperties, ElementOfSeq
<1>3. ASSUME NEW i \in 1..N PROVE node[kids[i]].order \in Seq(1..m)
  <2>1. kids[i] \in 1..m /\ kids[i] \in Ids
    BY <1>2, Typing
  <2>2. 1..kids[i] \subseteq 1..m
    BY <2>1
  <2>3. node[kids[i]].order \in Seq(1..kids[i])
    BY <2>1, Typing
  <2> HIDE DEF kids
  <2> QED BY <2>2, <2>3, SeqMonotonic
<1>4. KidOrders(e) = [i \in 1..N |-> node[kids[i]].order]
  BY DEF KidOrders
<1> HIDE DEF kids, N
<1>5. KidOrders(e) \in [1..N -> Seq(1..m)]
  BY <1>3, <1>4
<1>6. KidOrders(e) \in Seq(Seq(1..m))
  BY <1>2, <1>5, SeqDef
<1>7. Len(KidOrders(e)) = N
  BY <1>2, <1>5, <1>6, LenProperties
<1> QED BY <1>1, <1>4, <1>6, <1>7 DEF kids, N

(* An error that can be made of those that exist. *)
Makeable(e) == e \in Errors /\ e.kids \in Seq(Ids) /\ KindOK(e) /\ CodeOK(e)

LEMMA PlaceFacts ==
    ASSUME TreeIInv, NEW e, Makeable(e), Place(e), NEW m, m = Len(node) + 1
    PROVE  /\ m \in Nat /\ Len(node') = m /\ Ids' = 1..m /\ node' \in Seq(Errors)
           /\ \A n \in Ids : node'[n] = node[n] /\ n # m
           /\ node'[m] = [e EXCEPT !.order = AsOrder(e)]
           /\ AsOrder(e) \in Seq(1..m)
<1>1. m \in Nat /\ m \notin Ids /\ m - 1 = Len(node) /\ 1..(m - 1) = Ids
  BY Typing
<1>2. KidOrders(e) \in Seq(Seq(Ids))
  <2>1. Len(node) \in Nat /\ Len(node) <= Len(node) /\ e.kids \in Seq(1..Len(node))
    BY Typing DEF Makeable
  <2>2. KidOrders(e) \in Seq(Seq(1..Len(node)))
    BY <2>1, KidOrdersSeq DEF Makeable
  <2> QED BY <2>2, Typing
<1>3. AsOrder(e) \in Seq(1..m)
  <2> DEFINE rest == FlattenSeq(KidOrders(e))
  <2>1. rest \in Seq(Ids)
    BY <1>2, Flatten
  <2> HIDE DEF rest
  <2>2. rest \in Seq(1..m) /\ <<m>> \in Seq(1..m)
    <3>1. Ids \subseteq 1..m /\ m \in 1..m
      BY <1>1
    <3>2. rest \in Seq(1..m)
      BY <2>1, <3>1, SeqMonotonic
    <3> QED BY <3>1, <3>2
  <2>3. AsOrder(e) = <<m>> \o rest
    BY DEF AsOrder, KidOrders, rest
  <2> QED BY <2>2, <2>3, ConcatProperties
<1> DEFINE new == [e EXCEPT !.order = AsOrder(e)]
<1>4. new \in Errors
  <2>1. AsOrder(e) \in Seq(Nat)
    <3>1. 1..m \subseteq Nat
      BY <1>1
    <3> QED BY <1>3, <3>1, SeqMonotonic
  <2> QED BY <2>1 DEF Makeable, Errors
<1>5. node' = Append(node, new)
  BY DEF Place
<1> HIDE DEF new
<1>6. /\ node' \in Seq(Errors) /\ Len(node') = m /\ node'[m] = new
      /\ \A n \in 1..Len(node) : node'[n] = node[n]
  BY <1>4, <1>5, AppendProperties DEF TreeIInv
<1>7. Ids' = 1..m
  BY <1>6 DEF Ids
<1> QED BY <1>1, <1>3, <1>6, <1>7 DEF new, Ids

LEMMA PlaceKeeps ==
    ASSUME TreeIInv, NEW e, Makeable(e), Place(e)
    PROVE  TreeIInv'
<1> DEFINE m == Len(node) + 1
           new == [e EXCEPT !.order = AsOrder(e)]
<1>1. /\ m \in Nat /\ Len(node') = m /\ Ids' = 1..m /\ node' \in Seq(Errors)
      /\ \A n \in Ids : node'[n] = node[n]
      /\ node'[m] = new /\ AsOrder(e) \in Seq(1..m)
      /\ Ids = 1..(m - 1)
  BY PlaceFacts, Typing
<1>2. /\ new.kids = e.kids /\ new.kind = e.kind /\ new.code = e.code
      /\ new.public = e.public /\ new.order = AsOrder(e)
  BY DEF Makeable, Errors
<1>3. e.kids \in Seq(1..(m - 1))
  BY <1>1 DEF Makeable
<1> HIDE DEF m, new
<1>4. TypeOK'
  <2>1. ASSUME NEW n \in Ids'
        PROVE  /\ KindOK(node'[n]) /\ CodeOK(node'[n]) /\ node'[n].public \in BOOLEAN
               /\ ToSet(node'[n].kids) \subseteq 1..(n - 1)
    <3>1. CASE n = m
      <4>1. ToSet(e.kids) \subseteq 1..(m - 1)
        <5>1. e.kids \in [1..Len(e.kids) -> 1..(m - 1)]
          BY <1>3, LenProperties
        <5> QED BY <5>1 DEF ToSet
      <4>2. KindOK(new) /\ CodeOK(new) /\ new.public \in BOOLEAN
        BY <1>2 DEF Makeable, KindOK, CodeOK, Errors
      <4> QED BY <1>1, <1>2, <3>1, <4>1, <4>2
    <3>2. CASE n # m
      <4>1. n \in Ids /\ node'[n] = node[n]
        BY <1>1, <3>2
      <4> QED BY <4>1 DEF TreeIInv, TypeOK
    <3> QED BY <3>1, <3>2
  <2> QED BY <2>1 DEF TypeOK
<1>5. ASSUME NEW n \in Ids' PROVE OrderOK(n)'
  <2> DEFINE d == node'[n]
             ks == AsKids(d)
  <2>1. /\ d.order \in Seq(1..n) /\ ks \in Seq(Ids)
        /\ d.order = <<n>> \o FlattenSeq([i \in 1..Len(ks) |-> node[ks[i]].order])
    <3>1. CASE n = m
      <4>1. d = new
        BY <1>1, <3>1
      <4>2. ks = AsKids(e)
        BY <1>2, <4>1 DEF AsKids
      <4>3. AsKids(e) \in Seq(Ids)
        BY AsKidsSeq DEF Makeable
      <4> HIDE DEF d, ks
      <4> QED BY <1>1, <1>2, <3>1, <4>1, <4>2, <4>3 DEF AsOrder, m
    <3>2. CASE n # m
      <4>1. n \in Ids /\ d = node[n]
        BY <1>1, <3>2
      <4>2. ks = AsKids(node[n])
        BY <4>1
      <4>3. AsKids(node[n]) \in Seq(Ids)
        <5>1. node[n].kids \in Seq(1..(n - 1)) /\ KindOK(node[n])
          BY <4>1, Typing DEF TreeIInv, TypeOK
        <5>3. 1..(n - 1) \subseteq Ids
          BY <1>1, <4>1
        <5>2. AsKids(node[n]) \in Seq(1..(n - 1))
          BY <5>1, AsKidsSeq
        <5> QED BY <5>2, <5>3, SeqMonotonic
      <4> HIDE DEF d, ks
      <4>4. OrderOK(n)
        BY <4>1 DEF TreeIInv
      <4> QED BY <4>1, <4>2, <4>3, <4>4 DEF OrderOK, KidOrders
    <3> QED BY <3>1, <3>2
  <2>2. \A i \in 1..Len(ks) : node'[ks[i]] = node[ks[i]]
    <3> HIDE DEF ks
    <3>1. \A i \in 1..Len(ks) : ks[i] \in Ids
      BY <2>1, ElementOfSeq
    <3> QED BY <1>1, <3>1
  <2>3. KidOrders(node[n])' = [i \in 1..Len(ks) |-> node[ks[i]].order]
    BY <2>2 DEF KidOrders
  <2> QED BY <2>1, <2>3 DEF OrderOK
<1> QED BY <1>1, <1>4, <1>5 DEF TreeIInv

(* Which numbers of children go with which types. *)
LEMMA ErrorMakeable ==
    ASSUME TreeIInv, NEW kind, NEW kids \in Seq(Ids), NEW k, k = Len(kids),
           NEW code \in Int \ {Code.OK}, NEW public \in BOOLEAN,
           kind \in {"detailed", "coded"} \/ code = Code.NoCode,
           \/ kind \in Decorators /\ k = 1
           \/ kind \in Leaves \ {"grpc"} /\ k = 0
           \/ kind = "detailed" /\ k <= 1
           \/ kind = "link" /\ k = 2
           \/ kind = "linkMulti" /\ k >= 2
           \/ kind \in {"wrapMulti", "multi"} /\ k >= 1
    PROVE  Makeable(Error(kind, kids, code, public))
<1> DEFINE e == Error(kind, kids, code, public)
<1>1. /\ e.kind = kind /\ e.kids = kids /\ e.code = code /\ e.public = public
      /\ e.order = <<>>
  BY DEF Error
<1>2. kids \in Seq(Nat) /\ k \in Nat
  BY Typing, SeqMonotonic, LenProperties
<1>3. kind \in AllKinds
  BY DEF AllKinds, Kinds, Decorators, Leaves
<1>4. e \in Errors
  BY <1>2, <1>3 DEF Error, Errors
<1>5. kind # "grpc"
  BY SentinelsAssumption DEF Kinds, Decorators, Leaves
<1> HIDE DEF e
<1>6. CodeOK(e)
  BY <1>1, <1>5 DEF CodeOK
<1>7. KindOK(e)
  BY <1>1, <1>2, SentinelsAssumption DEF KindOK, Leaves, Kinds, Decorators
<1> QED BY <1>1, <1>4, <1>6, <1>7 DEF Makeable, e

LEMMA OneKid ==
    ASSUME NEW S, NEW err \in S
    PROVE  <<err>> \in Seq(S) /\ Len(<<err>>) = 1 /\ <<err>> # <<>> /\ <<err>>[1] = err
OBVIOUS

(* What the actions make. *)
CodeGiven(e) == e.kind # "grpc" => e.code \in Codes \cup {Code.NoCode}

LEMMA OriginateMakes ==
    ASSUME TreeIInv, Originate
    PROVE  \E e : Makeable(e) /\ Place(e) /\ e.kids = <<>> /\ CodeGiven(e)
<1>0. <<>> \in Seq(Ids) /\ Len(<<>>) = 0 /\ Code.NoCode \in Int \ {Code.OK}
  BY EmptySeq DEF Code
<1>1. ASSUME NEW s \in Sentinels \cup {"canceled", "deadline", "panic"}, Place(Plain(s, <<>>))
      PROVE  \E e : Makeable(e) /\ Place(e) /\ e.kids = <<>> /\ CodeGiven(e)
  <2>1. s \in Leaves \ {"grpc"}
    BY SentinelsAssumption DEF Leaves, Kinds
  <2>2. Makeable(Plain(s, <<>>))
    BY <1>0, <2>1, ErrorMakeable DEF Plain
  <2>3. Plain(s, <<>>).kids = <<>> /\ CodeGiven(Plain(s, <<>>))
    BY DEF Plain, Error, CodeGiven
  <2> QED BY <1>1, <2>2, <2>3
<1>2. ASSUME NEW c \in Codes, FromGRPC(GRPC(c))
      PROVE  \E e : Makeable(e) /\ Place(e) /\ e.kids = <<>> /\ CodeGiven(e)
  <2> DEFINE e == Error("grpc", <<>>, GRPC(c), FALSE)
  <2>1. GRPC(c) \in GRPCCodes \ {GRPC(Code.OK)} /\ GRPC(c) \in Int
    BY CodesAssumption DEF GRPC, GRPCCodes, GRPCUnknown, Code
  <2>2. e \in Errors /\ e.kids = <<>> /\ e.kind = "grpc" /\ e.code = GRPC(c)
    BY <2>1, EmptySeq DEF Error, Errors, AllKinds, Kinds
  <2>3. Place(e)
    BY <1>2 DEF FromGRPC, Made
  <2> HIDE DEF e
  <2>4. KindOK(e) /\ CodeOK(e)
    BY <1>0, <2>1, <2>2, SentinelsAssumption DEF KindOK, CodeOK, Leaves, Kinds, Decorators
  <2> QED BY <1>0, <2>2, <2>3, <2>4 DEF Makeable, CodeGiven
<1>3. ASSUME NEW c \in Codes \cup {Code.NoCode}, NEW public \in BOOLEAN, NEW op,
             newDetailed(op, c, Nil, public)
      PROVE  \E e : Makeable(e) /\ Place(e) /\ e.kids = <<>> /\ CodeGiven(e)
  <2> DEFINE e == Error("detailed", <<>>, c, public)
  <2>1. c \in Int \ {Code.OK}
    BY <1>0, CodesAssumption
  <2>2. Makeable(e)
    <3> DEFINE kids == <<>>
    <3>1. kids \in Seq(Ids) /\ Len(kids) <= 1
      BY <1>0
    <3>2. e = Error("detailed", kids, c, public)
      OBVIOUS
    <3> HIDE DEF kids, e
    <3> QED BY <2>1, <3>1, <3>2, ErrorMakeable
  <2>3. Place(e)
    BY <1>3, RemoveNilOne DEF newDetailed, Made
  <2>4. e.kids = <<>> /\ CodeGiven(e)
    BY DEF Error, CodeGiven
  <2> QED BY <2>2, <2>3, <2>4
<1>4. CASE \E s \in Sentinels : Foreign(s)
  BY <1>1, <1>4 DEF Foreign, Made
<1>5. CASE FromContext \/ FromPanic
  BY <1>1, <1>5 DEF FromContext, FromPanic, Made
<1>6. CASE \E c \in Codes : NewWithCode(c)
  BY <1>3, <1>6 DEF NewWithCode
<1>7. CASE \E c \in Codes \cup {Code.NoCode}, public \in BOOLEAN : Detailed(c, Nil, public)
  BY <1>3, <1>7 DEF Detailed
<1> QED BY <1>2, <1>4, <1>5, <1>6, <1>7 DEF Originate

Makes(kind, kids, code, public) ==
    \E e : /\ Makeable(e) /\ Place(e)
           /\ e.kind = kind /\ e.kids = kids /\ e.code = code /\ e.public = public

LEMMA DetailedMakes ==
    ASSUME TreeIInv, NEW err \in Ids, NEW c \in Int \ {Code.OK}, NEW public \in BOOLEAN, NEW op,
           newDetailed(op, c, err, public)
    PROVE  Makes("detailed", <<err>>, c, public)
<1> DEFINE kids == <<err>>
           e == Error("detailed", kids, c, public)
<1>1. err # Nil /\ kids \in Seq(Ids) /\ Len(kids) = 1
  BY Typing, OneKid DEF Nil
<1>2. Place(e)
  BY <1>1, RemoveNilOne DEF newDetailed, Made
<1>3. e.kids = kids /\ e.kind = "detailed" /\ e.code = c /\ e.public = public
  BY DEF Error
<1>4. Makeable(e)
  <2>1. Len(kids) <= 1
    BY <1>1
  <2> HIDE DEF kids
  <2> QED BY <1>1, <2>1, ErrorMakeable
<1> HIDE DEF e
<1> QED BY <1>2, <1>3, <1>4 DEF Makes

LEMMA DecorateMakes ==
    ASSUME TreeIInv, NEW err \in Ids, NEW kind \in Decorators, NEW c \in Int \ {Code.OK},
           kind = "coded" \/ c = Code.NoCode,
           Place(Error(kind, <<err>>, c, FALSE))
    PROVE  Makes(kind, <<err>>, c, FALSE)
<1> DEFINE kids == <<err>>
           e == Error(kind, kids, c, FALSE)
<1>1. kids \in Seq(Ids) /\ Len(kids) = 1
  BY OneKid
<1>2. e.kids = kids /\ e.kind = kind /\ e.code = c /\ e.public = FALSE
  BY DEF Error
<1>3. Makeable(e)
  <2> HIDE DEF kids
  <2> QED BY <1>1, ErrorMakeable
<1>4. Place(e)
  OBVIOUS
<1> HIDE DEF e
<1> QED BY <1>2, <1>3, <1>4 DEF Makes

LEMMA AnnotateMakes ==
    ASSUME TreeIInv, NEW err \in Ids, Annotate(err)
    PROVE  \E kind \in {"wrap", "detailed", "transient", "stack"} : \E public \in BOOLEAN :
              Makes(kind, <<err>>, Code.NoCode, public)
<1>1. Code.NoCode \in Int \ {Code.OK}
  BY DEF Code
<1>2. ASSUME NEW kind \in {"wrap", "transient", "stack"}, Place(Plain(kind, <<err>>))
      PROVE  Makes(kind, <<err>>, Code.NoCode, FALSE)
  <2>1. kind \in Decorators
    BY DEF Decorators
  <2>2. Place(Error(kind, <<err>>, Code.NoCode, FALSE))
    BY <1>2 DEF Plain
  <2> QED BY <1>1, <2>1, <2>2, DecorateMakes
<1>3. CASE WithErr(err)
  BY <1>2, <1>3 DEF WithErr, Made
<1>4. CASE Propagate(err)
  <2>1. newDetailed("Propagate", Code.NoCode, err, FALSE)
    BY <1>4 DEF Propagate
  <2>2. Makes("detailed", <<err>>, Code.NoCode, FALSE)
    BY <1>1, <2>1, DetailedMakes
  <2> QED BY <2>2
<1>5. CASE ToTransient(err)
  BY <1>2, <1>5 DEF ToTransient, Made
<1>6. CASE WithStack(err)
  BY <1>2, <1>6 DEF WithStack, Made
<1>7. CASE \E public \in BOOLEAN : Detailed(Code.NoCode, err, public)
  <2>1. PICK public \in BOOLEAN : newDetailed("Detailed", Code.NoCode, err, public)
    BY <1>7 DEF Detailed
  <2>2. Makes("detailed", <<err>>, Code.NoCode, public)
    BY <1>1, <2>1, DetailedMakes
  <2> QED BY <2>2
<1> QED BY <1>3, <1>4, <1>5, <1>6, <1>7 DEF Annotate

(* The Mapper never answers OK. *)
LEMMA MapperCodes ==
    ASSUME NEW err
    PROVE  MapperCode(err) \subseteq Int \ {Code.OK}
<1>1. ASSUME NEW s \in DOMAIN Registry PROVE Registry[s] \in Int \ {Code.OK}
  BY RegisteredAssumption DEF Registry, Code
<1>2. Code.Internal \in Int \ {Code.OK}
  BY DEF Code
<1> QED BY <1>1, <1>2 DEF MapperCode

LEMMA StampMakes ==
    ASSUME TreeIInv, NEW err \in Ids, Stamp(err)
    PROVE  \E kind \in {"coded", "detailed"} : \E public \in BOOLEAN :
              \E c \in Codes \cup MapperCode(err) :
                 Makes(kind, <<err>>, c, public) /\ (kind = "detailed" => c \in Codes)
<1>1. \A c \in Codes : c \in Int \ {Code.OK}
  BY CodesAssumption
<1>2. CASE AttachCodeTo(err)
  <2>1. PICK c \in MapperCode(err) : Place(Error("coded", <<err>>, c, FALSE))
    BY <1>2 DEF AttachCodeTo, Made
  <2>2. c \in Int \ {Code.OK} /\ "coded" \in Decorators
    BY MapperCodes DEF Decorators
  <2>3. Makes("coded", <<err>>, c, FALSE)
    BY <2>1, <2>2, DecorateMakes
  <2> QED BY <2>3
<1>3. CASE \E c \in Codes : PropagateWithCode(err, c)
  <2>1. PICK c \in Codes : newDetailed("PropagateWithCode", c, err, FALSE)
    BY <1>3 DEF PropagateWithCode
  <2>2. Makes("detailed", <<err>>, c, FALSE)
    BY <1>1, <2>1, DetailedMakes
  <2> QED BY <2>2
<1>4. CASE \E c \in Codes, public \in BOOLEAN : Detailed(c, err, public)
  <2>1. PICK c \in Codes, public \in BOOLEAN : newDetailed("Detailed", c, err, public)
    BY <1>4 DEF Detailed
  <2>2. Makes("detailed", <<err>>, c, public)
    BY <1>1, <2>1, DetailedMakes
  <2> QED BY <2>2
<1> QED BY <1>2, <1>3, <1>4 DEF Stamp

LEMMA FieldErrorMakes ==
    ASSUME TreeIInv, NEW err \in Ids, FieldError(err)
    PROVE  Makes("field", <<err>>, Code.NoCode, FALSE)
<1>1. "field" \in Decorators /\ Code.NoCode \in Int \ {Code.OK}
  BY DEF Decorators, Code
<1>2. Place(Error("field", <<err>>, Code.NoCode, FALSE))
  BY DEF FieldError, Made, Plain
<1> QED BY <1>1, <1>2, DecorateMakes

(* The errors of the list are among the children. *)
Holds(kids, errs) ==
    \A i \in 1..Len(errs) : errs[i] # Nil => \E j \in 1..Len(kids) : kids[j] = errs[i]

LEMMA PlainMakes ==
    ASSUME TreeIInv, NEW kind, NEW kids \in Seq(Ids), NEW k, k = Len(kids),
           \/ kind = "wrap" /\ k = 1
           \/ kind = "link" /\ k = 2
           \/ kind = "linkMulti" /\ k >= 2
           \/ kind \in {"wrapMulti", "multi"} /\ k >= 1,
           Place(Plain(kind, kids))
    PROVE  Makes(kind, kids, Code.NoCode, FALSE)
<1> DEFINE e == Error(kind, kids, Code.NoCode, FALSE)
<1>1. e.kids = kids /\ e.kind = kind /\ e.code = Code.NoCode /\ e.public = FALSE
  BY DEF Error
<1>2. Code.NoCode \in Int \ {Code.OK}
  BY DEF Code
<1>3. Makeable(e)
  BY <1>2, ErrorMakeable DEF Decorators
<1>4. Place(e)
  BY DEF Plain
<1> HIDE DEF e
<1> QED BY <1>1, <1>3, <1>4 DEF Makes

LEMMA ArgListSeq ==
    ASSUME NEW errs \in ArgLists
    PROVE  errs \in Seq(Ids \cup {Nil})
<1>1. PICK k \in 0..MaxArgs : errs \in [1..k -> Ids \cup {Nil}]
  BY DEF ArgLists
<1>2. k \in Nat
  OBVIOUS
<1> QED BY <1>1, <1>2, SeqDef

CollectKinds == {"wrap", "wrapMulti", "multi", "link", "linkMulti"}

LEMMA LinkMakes ==
    ASSUME TreeIInv, NEW errs \in Seq(Ids \cup {Nil}), errs # <<>>, Link(errs[1], Tail(errs))
    PROVE  \E kind \in CollectKinds : \E kids \in Seq(Ids) :
              Makes(kind, kids, Code.NoCode, FALSE) /\ Holds(kids, errs)
<1> DEFINE err == errs[1]
           causes == Tail(errs)
           kept == removeNilFromErrors(causes)
<1>1. Nil \notin Ids
  BY Typing DEF Nil
<1>2. /\ Len(errs) \in Nat /\ Len(errs) # 0 /\ err \in Ids \cup {Nil}
      /\ causes \in Seq(Ids \cup {Nil}) /\ Len(causes) = Len(errs) - 1
      /\ \A i \in 1..Len(causes) : causes[i] = errs[i + 1]
  BY HeadTailProperties, LenProperties, EmptySeq, ElementOfSeq
<1> HIDE DEF causes
<1>3. /\ kept \in Seq(Ids)
      /\ \A i \in 1..Len(causes) : causes[i] # Nil =>
            \E j \in 1..Len(kept) : kept[j] = causes[i]
  BY <1>1, <1>2, RemoveNil
<1> HIDE DEF kept
<1>4. ASSUME NEW i \in 1..Len(errs), errs[i] # Nil, i # 1
      PROVE  \E j \in 1..Len(kept) : kept[j] = errs[i]
  <2>1. i - 1 \in 1..Len(causes) /\ causes[i - 1] = errs[i]
    <3> DEFINE h == i - 1
    <3>1. h \in 1..Len(causes) /\ h + 1 = i
      BY <1>2, <1>4
    <3> HIDE DEF h
    <3>2. causes[h] = errs[h + 1]
      BY <1>2, <3>1
    <3> QED BY <3>1, <3>2 DEF h
  <2> QED BY <1>3, <1>4, <2>1
<1>5. CASE err = Nil
  <2>1. kept # <<>> /\ Place(Plain("multi", kept))
    BY <1>5 DEF Link, Made, kept, causes
  <2>2. Len(kept) \in Nat /\ Len(kept) >= 1
    BY <1>3, <2>1, LenProperties, EmptySeq
  <2>3. Makes("multi", kept, Code.NoCode, FALSE)
    BY <1>3, <2>1, <2>2, PlainMakes
  <2>4. Holds(kept, errs)
    BY <1>4, <1>5 DEF Holds
  <2> QED BY <1>3, <2>3, <2>4 DEF CollectKinds
<1>6. CASE err # Nil
  <2> DEFINE kids == <<err>> \o kept
  <2>1. kept # <<>> /\ \E kind \in {"link", "linkMulti"} :
            Place(Plain(kind, kids)) /\ (kind = "link" => Len(causes) = 1)
    BY <1>6 DEF Link, Made, kept, causes
  <2>2. Len(kept) \in Nat /\ Len(kept) >= 1
    BY <1>3, <2>1, LenProperties, EmptySeq
  <2>3. /\ kids \in Seq(Ids) /\ Len(kids) = 1 + Len(kept) /\ kids[1] = err
        /\ \A j \in 1..Len(kept) : j + 1 \in 1..Len(kids) /\ kids[j + 1] = kept[j]
    <3>1. err \in Ids /\ <<err>> \in Seq(Ids) /\ Len(<<err>>) = 1
      BY <1>2, <1>6
    <3> DEFINE s == <<err>>
    <3>2. s \in Seq(Ids) /\ Len(s) = 1 /\ s[1] = err
      BY <3>1
    <3> HIDE DEF s
    <3>3. /\ s \o kept \in Seq(Ids) /\ Len(s \o kept) = 1 + Len(kept)
          /\ \A i \in 1..(1 + Len(kept)) :
                (s \o kept)[i] = IF i <= 1 THEN s[i] ELSE kept[i - 1]
      <4>1. s \in Seq(Ids) /\ kept \in Seq(Ids)
        BY <1>3, <3>2
      <4>2. /\ s \o kept \in Seq(Ids) /\ Len(s \o kept) = Len(s) + Len(kept)
            /\ \A i \in 1..(Len(s) + Len(kept)) :
                  (s \o kept)[i] = IF i <= Len(s) THEN s[i] ELSE kept[i - Len(s)]
        BY <4>1, ConcatProperties
      <4> QED BY <3>2, <4>2
    <3> DEFINE t == s \o kept
    <3>4. t[1] = err
      BY <2>2, <3>2, <3>3
    <3> HIDE DEF t
    <3>5. ASSUME NEW j \in 1..Len(kept) PROVE t[j + 1] = kept[j]
      <4> DEFINE i == j + 1
      <4>1. i \in 1..(1 + Len(kept)) /\ ~(i <= 1) /\ i - 1 = j
        BY <2>2
      <4> HIDE DEF i
      <4>2. t[i] = kept[i - 1]
        BY <3>3, <4>1 DEF t
      <4> QED BY <4>1, <4>2 DEF i
    <3>6. kids = t
      BY DEF s, t
    <3>7. \A j \in 1..Len(kept) : j + 1 \in 1..(1 + Len(kept))
      BY <2>2
    <3> HIDE DEF kids
    <3> QED BY <3>3, <3>4, <3>5, <3>6, <3>7 DEF t
  <2> HIDE DEF kids
  <2>4. PICK kind \in {"link", "linkMulti"} :
            Place(Plain(kind, kids)) /\ (kind = "link" => Len(causes) = 1)
    BY <2>1
  <2>5. kind = "link" => Len(kept) = 1
    <3>1. ASSUME Len(causes) = 1 PROVE Len(kept) = 1
      <4>1. causes = <<causes[1]>>
        BY <1>2, <3>1
      <4>2. removeNilFromErrors(<<causes[1]>>) = <<causes[1]>> \/ kept = <<>>
        BY <4>1, RemoveNilOne DEF kept
      <4> QED BY <2>1, <4>1, <4>2 DEF kept
    <3> QED BY <2>4, <3>1
  <2>6. Makes(kind, kids, Code.NoCode, FALSE)
    <3> DEFINE k == Len(kids)
    <3>1. kids \in Seq(Ids) /\ k = 1 + Len(kept)
      BY <2>3
    <3>2. (kind = "link" /\ k = 2) \/ (kind = "linkMulti" /\ k >= 2)
      <4> DEFINE c == Len(kept)
      <4>1. c \in Nat /\ c >= 1 /\ k = 1 + c
        BY <2>2, <3>1
      <4>2. kind = "link" => c = 1
        BY <2>5
      <4> HIDE DEF c, k
      <4> QED BY <4>1, <4>2
    <3> HIDE DEF k
    <3>3. k = Len(kids)
      BY DEF k
    <3> QED BY <2>4, <3>1, <3>2, <3>3, PlainMakes
  <2>7. Holds(kids, errs)
    <3> SUFFICES ASSUME NEW i \in 1..Len(errs), errs[i] # Nil
                 PROVE  \E j \in 1..Len(kids) : kids[j] = errs[i]
      BY DEF Holds
    <3>1. CASE i = 1
      <4>1. 1 \in 1..Len(kids)
        BY <2>2, <2>3
      <4> QED BY <2>3, <3>1, <4>1
    <3>2. CASE i # 1
      <4>1. PICK j \in 1..Len(kept) : kept[j] = errs[i]
        BY <1>4, <3>2
      <4> QED BY <2>3, <4>1
    <3> QED BY <3>1, <3>2
  <2> QED BY <2>3, <2>6, <2>7 DEF CollectKinds
<1> QED BY <1>5, <1>6

LEMMA CollectMakes ==
    ASSUME TreeIInv, NEW errs \in ArgLists, Collect(errs)
    PROVE  \E kind \in CollectKinds : \E kids \in Seq(Ids) :
              Makes(kind, kids, Code.NoCode, FALSE) /\ Holds(kids, errs)
<1> DEFINE kept == removeNilFromErrors(errs)
<1>1. errs \in Seq(Ids \cup {Nil}) /\ Nil \notin Ids
  BY ArgListSeq, Typing DEF Nil
<1>2. kept \in Seq(Ids) /\ Holds(kept, errs)
  BY <1>1, RemoveNil DEF Holds
<1> HIDE DEF kept
<1>3. ASSUME NEW kind \in {"wrapMulti", "multi"}, kept # <<>>, Place(Plain(kind, kept))
      PROVE  Makes(kind, kept, Code.NoCode, FALSE)
  <2>1. Len(kept) \in Nat /\ Len(kept) >= 1
    BY <1>2, <1>3, LenProperties, EmptySeq
  <2> QED BY <1>2, <1>3, <2>1, PlainMakes
<1>4. CASE Wrap(errs)
  <2>1. CASE Len(errs) = 1 /\ errs[1] # Nil /\ Made("Wrap", Plain("wrap", errs))
    <3>1. errs[1] \in Ids /\ errs = <<errs[1]>>
      BY <1>1, <2>1, ElementOfSeq
    <3>2. errs \in Seq(Ids)
      BY <3>1, OneKid
    <3>3. Makes("wrap", errs, Code.NoCode, FALSE)
      BY <2>1, <3>2, PlainMakes DEF Made
    <3> QED BY <3>2, <3>3 DEF Holds, CollectKinds
  <2>2. CASE kept # <<>> /\ Made("Wrap", Plain("wrapMulti", kept))
    BY <1>2, <1>3, <2>2 DEF Made, CollectKinds
  <2> QED BY <1>4, <2>1, <2>2 DEF Wrap, kept
<1>5. CASE Join(errs)
  <2>1. kept # <<>> /\ Place(Plain("multi", kept))
    BY <1>5 DEF Join, Made, kept
  <2> QED BY <1>2, <1>3, <2>1 DEF CollectKinds
<1>6. CASE errs # <<>> /\ Link(errs[1], Tail(errs))
  BY <1>1, <1>6, LinkMakes
<1> QED BY <1>4, <1>5, <1>6 DEF Collect

LEMMA NextMakes ==
    ASSUME TreeIInv, Next
    PROVE  \E e : Makeable(e) /\ Place(e)
<1>1. ASSUME NEW kind, NEW kids, NEW c, NEW public, Makes(kind, kids, c, public)
      PROVE  \E e : Makeable(e) /\ Place(e)
  BY <1>1 DEF Makes
<1>2. CASE Originate
  BY <1>2, OriginateMakes
<1>3. ASSUME NEW err \in Ids, Annotate(err) PROVE \E e : Makeable(e) /\ Place(e)
  BY <1>1, <1>3, AnnotateMakes
<1>4. ASSUME NEW err \in Ids, Stamp(err) PROVE \E e : Makeable(e) /\ Place(e)
  BY <1>1, <1>4, StampMakes
<1>5. ASSUME NEW err \in Ids, FieldError(err) PROVE \E e : Makeable(e) /\ Place(e)
  BY <1>1, <1>5, FieldErrorMakes
<1>6. ASSUME NEW errs \in ArgLists, Collect(errs) PROVE \E e : Makeable(e) /\ Place(e)
  BY <1>1, <1>6, CollectMakes
<1> QED BY <1>2, <1>3, <1>4, <1>5, <1>6 DEF Next

(* The inductive invariant holds of every tree that can be built. *)
LEMMA TreeIInvHolds == Spec => []TreeIInv
<1>1. Init => TreeIInv
  <2> SUFFICES ASSUME Init PROVE TreeIInv
    OBVIOUS
  <2>1. node \in Seq(Errors) /\ Ids = {}
    BY EmptySeq DEF Init, Ids
  <2> QED BY <2>1 DEF TreeIInv, TypeOK
<1>2. TreeIInv /\ [Next]_node => TreeIInv'
  <2> SUFFICES ASSUME TreeIInv, [Next]_node PROVE TreeIInv'
    OBVIOUS
  <2>1. CASE Next
    BY <2>1, NextMakes, PlaceKeeps
  <2>2. CASE UNCHANGED node
    BY ZenonT(30), <2>2 DEF TreeIInv, TypeOK, OrderOK, KindOK, CodeOK, KidOrders, AsKids, Ids
  <2> QED BY <2>1, <2>2
<1> QED BY <1>1, <1>2, PTL DEF Spec

(* Each error has the children that its type holds, all made before it, and none
   carries the code OK. *)
THEOREM TypeCorrect == Spec => []TypeOK
<1>1. TreeIInv => TypeOK
  BY DEF TreeIInv
<1> QED BY <1>1, TreeIInvHolds, PTL

-----------------------------------------------------------------------------
(* What As finds. *)

LEMMA OrderTop ==
    ASSUME TreeIInv, NEW n \in Ids
    PROVE  /\ Len(node[n].order) \in Nat /\ 1 \in 1..Len(node[n].order)
           /\ node[n].order[1] = n
           /\ \A i \in 1..Len(node[n].order) : node[n].order[i] \in 1..n
<1> DEFINE rest == FlattenSeq(KidOrders(node[n]))
           order == node[n].order
<1>1. n \in Nat /\ n \in 1..n /\ node[n] \in Errors /\ KindOK(node[n])
      /\ node[n].kids \in Seq(1..(n - 1))
  BY Typing DEF TreeIInv, TypeOK
<1>2. KidOrders(node[n]) \in Seq(Seq(1..(n - 1)))
  <2> DEFINE m == n - 1
  <2>1. m \in Nat /\ m <= Len(node)
    BY Typing
  <2>2. node[n].kids \in Seq(1..m)
    BY <1>1
  <2> HIDE DEF m
  <2>3. KidOrders(node[n]) \in Seq(Seq(1..m))
    BY <1>1, <2>1, <2>2, KidOrdersSeq
  <2> QED BY <2>3 DEF m
<1>3. rest \in Seq(1..(n - 1))
  BY <1>2, Flatten
<1> HIDE DEF rest
<1>4. order = <<n>> \o rest /\ order \in Seq(1..n)
  BY DEF TreeIInv, OrderOK, rest
<1> DEFINE s == <<n>>
<1>5. s \in Seq(1..n) /\ Len(s) = 1 /\ s[1] = n
  BY <1>1
<1>6. rest \in Seq(1..n) /\ Len(rest) \in Nat
  <2>1. 1..(n - 1) \subseteq 1..n
    BY <1>1
  <2> QED BY <1>3, <2>1, SeqMonotonic, LenProperties
<1>7. order = s \o rest
  BY <1>4
<1> HIDE DEF s, order
<1>8. /\ Len(order) = Len(s) + Len(rest)
      /\ \A i \in 1..(Len(s) + Len(rest)) :
            order[i] = IF i <= Len(s) THEN s[i] ELSE rest[i - Len(s)]
  BY <1>5, <1>6, <1>7, ConcatProperties
<1>9. order[1] = n /\ Len(order) \in Nat /\ 1 \in 1..Len(order)
  BY <1>5, <1>6, <1>8
<1>10. \A i \in 1..Len(order) : order[i] \in 1..n
  BY <1>4, ElementOfSeq
<1> QED BY <1>9, <1>10 DEF order

(* The first error of these kinds, in the order of As. *)
FirstAt(n, i, kinds) ==
    /\ i \in 1..Len(node[n].order) /\ node[node[n].order[i]].kind \in kinds
    /\ \A j \in 1..(i - 1) : node[node[n].order[j]].kind \notin kinds
NoneOf(n, kinds) ==
    \A i \in 1..Len(node[n].order) : node[node[n].order[i]].kind \notin kinds

LEMMA AsFirst ==
    ASSUME TreeIInv, NEW n \in Ids, NEW kinds
    PROVE  \/ \E i : FirstAt(n, i, kinds) /\ As(n, kinds) = node[n].order[i]
           \/ NoneOf(n, kinds) /\ As(n, kinds) = Nil
<1> DEFINE order == node[n].order
           I == {i \in 1..Len(order) : node[order[i]].kind \in kinds}
           first == IF I # {} THEN Min(I) ELSE 0
<1>1. As(n, kinds) = IF first = 0 THEN Nil ELSE order[first]
  <2>1. n # Nil
    BY Typing DEF Nil
  <2>2. SelectInSeq(order, LAMBDA m : node[m].kind \in kinds) = first
    BY Zenon DEF SelectInSeq
  <2> HIDE DEF first
  <2> QED BY <2>1, <2>2, Zenon DEF As
<1>2. CASE I = {}
  BY <1>1, <1>2 DEF NoneOf
<1>3. CASE I # {}
  <2>1. I \subseteq Nat
    OBVIOUS
  <2>2. PICK x \in I : \A y \in I : x <= y
    <3> HIDE DEF I
    <3> QED BY <1>3, <2>1, LeastElement
  <2>3. Min(I) \in I /\ \A y \in I : Min(I) <= y
    <3> HIDE DEF I
    <3> QED BY <2>2 DEF Min
  <2>4. first = Min(I)
    BY <1>3
  <2> HIDE DEF first
  <2>5. /\ first \in 1..Len(order) /\ node[order[first]].kind \in kinds /\ first # 0
        /\ \A j \in I : first <= j
    <3>1. first \in I /\ \A j \in I : first <= j
      BY <2>3, <2>4
    <3>2. first \in 1..Len(order) /\ node[order[first]].kind \in kinds
      BY <3>1
    <3> HIDE DEF I
    <3> QED BY <3>1, <3>2
  <2>6. ASSUME NEW j \in 1..(first - 1) PROVE node[order[j]].kind \notin kinds
    <3>1. j \in 1..Len(order) /\ ~(first <= j)
      BY <2>5, OrderTop
    <3> QED BY <2>5, <3>1
  <2>7. FirstAt(n, first, kinds)
    BY <2>5, <2>6 DEF FirstAt
  <2> QED BY <1>1, <2>5, <2>7
<1> QED BY <1>2, <1>3

LEMMA FirstUnique ==
    ASSUME TreeIInv, NEW n \in Ids, NEW kinds
    PROVE  /\ \A i : FirstAt(n, i, kinds) => As(n, kinds) = node[n].order[i]
           /\ NoneOf(n, kinds) => As(n, kinds) = Nil
<1>1. ASSUME NEW i, NEW j, FirstAt(n, i, kinds), FirstAt(n, j, kinds) PROVE i = j
  <2>1. /\ i \in Nat /\ j \in Nat /\ i >= 1 /\ j >= 1
        /\ node[node[n].order[i]].kind \in kinds /\ node[node[n].order[j]].kind \in kinds
    BY <1>1, OrderTop DEF FirstAt
  <2>2. ~(i < j)
    <3>1. i < j => i \in 1..(j - 1)
      BY <2>1
    <3> QED BY <1>1, <2>1, <3>1 DEF FirstAt
  <2>3. ~(j < i)
    <3>1. j < i => j \in 1..(i - 1)
      BY <2>1
    <3> QED BY <1>1, <2>1, <3>1 DEF FirstAt
  <2> QED BY <2>1, <2>2, <2>3
<1>2. \A i : FirstAt(n, i, kinds) => ~NoneOf(n, kinds)
  BY DEF FirstAt, NoneOf
<1> QED BY <1>1, <1>2, AsFirst

LEMMA AsFound ==
    ASSUME TreeIInv, NEW n \in Ids, NEW kinds, As(n, kinds) # Nil
    PROVE  As(n, kinds) \in 1..n /\ node[As(n, kinds)].kind \in kinds
<1>1. PICK i : FirstAt(n, i, kinds) /\ As(n, kinds) = node[n].order[i]
  BY AsFirst
<1> QED BY <1>1, OrderTop DEF FirstAt

LEMMA AsTop ==
    ASSUME TreeIInv, NEW n \in Ids, NEW kinds, node[n].kind \in kinds
    PROVE  As(n, kinds) = n
<1>1. FirstAt(n, 1, kinds)
  BY OrderTop DEF FirstAt
<1> QED BY <1>1, FirstUnique, OrderTop

(* An error with one child passes on the question. *)
LEMMA AsBelow ==
    ASSUME TreeIInv, NEW n \in Ids, NEW kinds, NEW kid,
           node[n].kids = <<kid>>, node[n].kind \notin kinds
    PROVE  kid \in Ids /\ kid \in 1..(n - 1) /\ As(n, kinds) = As(kid, kinds)
<1> DEFINE order == node[n].order
           below == node[kid].order
<1>1. n \in Nat /\ node[n].kids \in Seq(1..(n - 1)) /\ KindOK(node[n])
  BY Typing DEF TreeIInv, TypeOK
<1>2. kid \in 1..(n - 1) /\ kid \in Ids
  <2>1. Len(node[n].kids) = 1 /\ node[n].kids[1] = kid
    OBVIOUS
  <2>2. kid \in 1..(n - 1)
    BY <1>1, <2>1, ElementOfSeq
  <2> QED BY <1>1, <2>2, Typing
<1>3. AsKids(node[n]) = <<kid>>
  <2>1. node[n].kind # "linkMulti"
    <3> SUFFICES ASSUME node[n].kind = "linkMulti" PROVE FALSE
      OBVIOUS
    <3>1. Len(node[n].kids) >= 2
      BY <1>1, SentinelsAssumption DEF KindOK, Decorators, Leaves, Kinds
    <3> QED BY <3>1
  <2> QED BY <1>1, <2>1, AsKidsSeq
<1>4. order = <<n>> \o below /\ below \in Seq(1..n)
  <2>1. KidOrders(node[n]) = <<below>>
    BY <1>3 DEF KidOrders
  <2>2. below \in Seq(1..kid) /\ 1..kid \subseteq 1..n
    BY <1>1, <1>2, Typing
  <2>3. below \in Seq(1..n)
    BY <2>2, SeqMonotonic
  <2> HIDE DEF below
  <2>4. <<below>> \in Seq(Seq(1..n)) /\ Len(<<below>>) = 1 /\ <<below>>[1] = below
    BY <2>3
  <2>5. FlattenSeq(<<below>>) = below
    BY <2>4, Flatten
  <2>6. order = <<n>> \o FlattenSeq(KidOrders(node[n]))
    BY DEF TreeIInv, OrderOK
  <2> QED BY <2>1, <2>3, <2>5, <2>6
<1> DEFINE s == <<n>>
<1>5. s \in Seq(1..n) /\ Len(s) = 1 /\ s[1] = n /\ order = s \o below
  BY <1>1, <1>4
<1> HIDE DEF s, order, below
<1>6. /\ Len(order) = 1 + Len(below) /\ Len(below) \in Nat /\ order[1] = n
      /\ \A i \in 1..Len(below) : i + 1 \in 1..Len(order) /\ order[i + 1] = below[i]
  <2>1. /\ Len(order) = Len(s) + Len(below) /\ Len(below) \in Nat
        /\ \A i \in 1..(Len(s) + Len(below)) :
              order[i] = IF i <= Len(s) THEN s[i] ELSE below[i - Len(s)]
    BY <1>4, <1>5, ConcatProperties, LenProperties
  <2>2. order[1] = n
    BY <1>5, <2>1
  <2>3. ASSUME NEW i \in 1..Len(below)
        PROVE  i + 1 \in 1..Len(order) /\ order[i + 1] = below[i]
    <3> DEFINE j == i + 1
    <3>1. j \in 1..(Len(s) + Len(below)) /\ ~(j <= 1) /\ j - 1 = i
      BY <1>5, <2>1
    <3> HIDE DEF j
    <3>2. order[j] = below[i]
      BY <1>5, <2>1, <3>1
    <3> QED BY <2>1, <3>1, <3>2 DEF j
  <2> QED BY <1>5, <2>1, <2>2, <2>3
<1>7. ASSUME NEW i \in 1..Len(order), i # 1
      PROVE  i - 1 \in 1..Len(below) /\ order[i] = below[i - 1]
  <2> DEFINE j == i - 1
  <2>1. j \in 1..Len(below) /\ j + 1 = i
    BY <1>6, <1>7
  <2> HIDE DEF j
  <2>2. order[j + 1] = below[j]
    BY <1>6, <2>1
  <2> QED BY <2>1, <2>2 DEF j
<1>8. CASE NoneOf(kid, kinds)
  <2>1. \A i \in 1..Len(order) : node[order[i]].kind \notin kinds
    BY <1>6, <1>7, <1>8 DEF NoneOf, below
  <2>2. NoneOf(n, kinds)
    BY <2>1 DEF NoneOf, order
  <2> QED BY <1>2, <1>8, <2>2, FirstUnique
<1>9. CASE \E i : FirstAt(kid, i, kinds)
  <2>1. PICK i : FirstAt(kid, i, kinds)
    BY <1>9
  <2>2. /\ i \in 1..Len(below) /\ node[below[i]].kind \in kinds
        /\ \A j \in 1..(i - 1) : node[below[j]].kind \notin kinds
    BY <2>1 DEF FirstAt, below
  <2>3. ASSUME NEW j \in 1..i PROVE node[order[j]].kind \notin kinds
    <3>1. CASE j = 1
      BY <1>6, <3>1
    <3>2. CASE j # 1
      <4>1. j \in 1..Len(order) /\ j - 1 \in 1..(i - 1)
        BY <1>6, <2>2, <3>2
      <4> QED BY <1>7, <2>2, <3>2, <4>1
    <3> QED BY <3>1, <3>2
  <2> DEFINE k == i + 1
  <2>4. k \in 1..Len(order) /\ order[k] = below[i] /\ 1..(k - 1) = 1..i
    BY <1>6, <2>2
  <2> HIDE DEF k
  <2>5. FirstAt(n, k, kinds)
    BY <2>2, <2>3, <2>4 DEF FirstAt, order
  <2> QED BY <1>2, <2>1, <2>4, <2>5, FirstUnique DEF order, below
<1> QED BY <1>2, <1>8, <1>9, AsFirst

-----------------------------------------------------------------------------
(* GetCode and GetDetails. *)

LEMMA FirstKid ==
    ASSUME TreeIInv, NEW n \in Ids, node[n].kids # <<>>
    PROVE  node[n].kids[1] \in 1..(n - 1) /\ node[n].kids[1] \in Ids
<1>1. node[n].kids \in Seq(1..(n - 1)) /\ 1..(n - 1) \subseteq Ids
  BY Typing
<1>2. 1 \in 1..Len(node[n].kids)
  BY <1>1, EmptySeq
<1>3. node[n].kids[1] \in 1..(n - 1)
  BY <1>1, <1>2, ElementOfSeq
<1> QED BY <1>1, <1>3

(* One call of GetCode, the calls below it answered by g. *)
CodeAt(g, e) ==
    LET coded == As(e, CodeMethod)
        grpc == As(e, {"grpc"})
    IN  CASE coded # Nil -> IF Inherits(node[coded]) THEN g[node[coded].kids[1]]
                                                     ELSE node[coded].code
          [] coded = Nil /\ grpc # Nil -> CodeFromGRPC(node[grpc].code)
          [] coded = Nil /\ grpc = Nil -> IF Is(e, "deadline") THEN Code.DeadlineExceeded
                                          ELSE IF Is(e, "canceled") THEN Code.Canceled
                                          ELSE Code.NoCode

AnyCode == Int \ {Code.OK}

LEMMA OwnCodes ==
    ASSUME TreeIInv, NEW n \in Ids
    PROVE  IF node[n].kind = "grpc"
           THEN node[n].code \in GRPCCodes /\ CodeFromGRPC(node[n].code) \in AnyCode
           ELSE node[n].code \in AnyCode
                /\ (node[n].kind \notin {"detailed", "coded"} => node[n].code = Code.NoCode)
<1>1. CodeOK(node[n])
  BY DEF TreeIInv, TypeOK
<1>2. CASE node[n].kind = "grpc"
  BY <1>1, <1>2 DEF CodeOK, CodeFromGRPC, GRPCCodes, GRPC, Code, AnyCode
<1>3. CASE node[n].kind # "grpc"
  BY <1>1, <1>3 DEF CodeOK, AnyCode, Code
<1> QED BY <1>2, <1>3

(* What As finds, where it is asked for the code: at or below e. *)
LEMMA CodeCalls ==
    ASSUME TreeIInv, NEW e \in 0..Len(node), NEW coded, coded = As(e, CodeMethod), coded # Nil
    PROVE  /\ coded \in 1..e /\ coded \in Ids /\ node[coded].kind \in CodeMethod
           /\ Inherits(node[coded]) =>
                 node[coded].kids[1] \in 1..(coded - 1) /\ node[coded].kids[1] \in 0..(e - 1)
<1>1. e # 0 /\ e \in Ids
  <2>1. e # 0
    BY DEF As, Nil
  <2> QED BY <2>1, Typing
<1>2. coded \in 1..e /\ node[coded].kind \in CodeMethod
  BY <1>1, AsFound
<1>3. coded \in Ids /\ e \in Nat
  BY <1>1, <1>2, Typing
<1>4. ASSUME Inherits(node[coded])
      PROVE  node[coded].kids[1] \in 1..(coded - 1) /\ node[coded].kids[1] \in 0..(e - 1)
  <2>1. node[coded].kids[1] \in 1..(coded - 1)
    BY <1>3, <1>4, FirstKid DEF Inherits
  <2> QED BY <1>2, <1>3, <2>1
<1> QED BY <1>2, <1>3, <1>4

LEMMA CodeSteps ==
    ASSUME TreeIInv
    PROVE  \A e \in 0..Len(node) : GetCode[e] = CodeAt(GetCode, e)
<1> DEFINE N == Len(node)
           Tables == [0..N -> AnyCode]
           Fn(g) == [e \in 0..N |-> CodeAt(g, e)]
           code == CHOOSE g : g = Fn(g)
           d == [e \in 0..N |-> [f \in Tables |-> CodeAt(f, e)]]
<1>1. N \in Nat /\ 0 \in Nat
  BY Typing
<1>2. ASSUME NEW e \in 0..N, NEW f \in Tables PROVE CodeAt(f, e) \in AnyCode
  <2> DEFINE coded == As(e, CodeMethod)
             grpc == As(e, {"grpc"})
  <2>1. CASE coded # Nil
    <3>1. coded \in Ids /\ node[coded].kind \in CodeMethod
          /\ (Inherits(node[coded]) => node[coded].kids[1] \in 0..N)
      BY <2>1, CodeCalls
    <3>2. node[coded].code \in AnyCode
      BY <3>1, OwnCodes DEF CodeMethod
    <3> HIDE DEF coded
    <3>3. f[node[coded].kids[1]] \in AnyCode \/ ~Inherits(node[coded])
      BY <3>1
    <3> QED BY <2>1, <3>2, <3>3 DEF CodeAt, coded
  <2>2. CASE coded = Nil /\ grpc # Nil
    <3>1. e # 0 /\ e \in Ids
      <4>1. e # 0
        BY <2>2 DEF As, Nil
      <4> QED BY <4>1, Typing
    <3>2. grpc \in Ids /\ node[grpc].kind = "grpc"
      <4>1. grpc \in 1..e /\ node[grpc].kind \in {"grpc"}
        BY <2>2, <3>1, AsFound
      <4> QED BY <3>1, <4>1, Typing
    <3>3. CodeFromGRPC(node[grpc].code) \in AnyCode
      BY <3>2, OwnCodes
    <3> HIDE DEF coded, grpc
    <3> QED BY <2>2, <3>3 DEF CodeAt, coded, grpc
  <2>3. CASE coded = Nil /\ grpc = Nil
    <3> HIDE DEF coded, grpc
    <3>1. {Code.DeadlineExceeded, Code.Canceled, Code.NoCode} \subseteq AnyCode
      BY DEF Code, AnyCode
    <3> QED BY <2>3, <3>1 DEF CodeAt, coded, grpc
  <2> HIDE DEF coded, grpc
  <2> QED BY <2>1, <2>2, <2>3
<1>3. ASSUME NEW e \in 0..N, NEW f, NEW g, \A i \in 0..(e - 1) : f[i] = g[i]
      PROVE  CodeAt(f, e) = CodeAt(g, e)
  <2> DEFINE coded == As(e, CodeMethod)
  <2>1. coded # Nil => (Inherits(node[coded]) => node[coded].kids[1] \in 0..(e - 1))
    BY CodeCalls
  <2>2. CASE coded # Nil /\ Inherits(node[coded])
    <3>1. f[node[coded].kids[1]] = g[node[coded].kids[1]]
      BY <1>3, <2>1, <2>2
    <3> HIDE DEF coded
    <3> QED BY <2>2, <3>1 DEF CodeAt, coded
  <2>3. CASE ~(coded # Nil /\ Inherits(node[coded]))
    <3> HIDE DEF coded
    <3> QED BY <2>3 DEF CodeAt, coded
  <2> QED BY <2>2, <2>3
<1>4. \E g : g = Fn(g)
  <2>1. d \in [0..N -> [Tables -> AnyCode]]
    BY <1>2
  <2>2. \A e \in 0..N : \A f \in Tables : d[e][f] = CodeAt(f, e)
    OBVIOUS
  <2>3. \A e \in 0..N : \A f, g \in Tables :
            (\A i \in 0..(e - 1) : f[i] = g[i]) => d[e][f] = d[e][g]
    <3> SUFFICES ASSUME NEW e \in 0..N, NEW f \in Tables, NEW g \in Tables,
                        \A i \in 0..(e - 1) : f[i] = g[i]
                 PROVE  d[e][f] = d[e][g]
      OBVIOUS
    <3>1. CodeAt(f, e) = CodeAt(g, e)
      BY <1>3
    <3> HIDE DEF d, N, Tables
    <3> QED BY <2>2, <3>1
  <2>4. Code.NoCode \in AnyCode
    BY DEF Code, AnyCode
  <2> DEFINE S == AnyCode
             c == Code.NoCode
             a == 0
  <2> HIDE DEF d, N, S, c, a
  <2>5. N \in Nat /\ a \in Nat /\ c \in S /\ ReadsBelow(d, a, N, S)
    BY <1>1, <2>1, <2>3, <2>4 DEF S, c, a, ReadsBelow
  <2>6. \E g \in [a..N -> S] : \A e \in a..N : g[e] = d[e][g]
    BY ONLY <2>5, TableFunction
  <2>7. PICK g \in Tables : \A e \in 0..N : g[e] = d[e][g]
    BY <2>6 DEF S, a
  <2>8. \A e \in 0..N : g[e] = CodeAt(g, e)
    BY <2>2, <2>7
  <2>9. g = Fn(g)
    BY <2>7, <2>8
  <2> QED BY <2>9
<1>5. code = Fn(code)
  <2> HIDE DEF Fn
  <2> QED BY <1>4, Zenon
<1>6. GetCode = code
  BY Zenon DEF GetCode, CodeAt
<1> HIDE DEF code
<1>7. \A e \in 0..N : code[e] = CodeAt(code, e)
  BY <1>5
<1> QED BY <1>6, <1>7

(* One call of GetDetails, the calls below it answered by g. *)
DetailsAt(g, e) ==
    LET detailed == As(e, DetailsMethod)
    IN  IF detailed = Nil \/ node[detailed].kind = "field" THEN Nil
        ELSE IF node[detailed].public THEN detailed
        ELSE IF node[detailed].kids # <<>> THEN g[node[detailed].kids[1]] ELSE Nil

LEMMA DetailsCalls ==
    ASSUME TreeIInv, NEW e \in 0..Len(node), NEW detailed,
           detailed = As(e, DetailsMethod), detailed # Nil
    PROVE  /\ detailed \in 1..e /\ detailed \in Ids /\ node[detailed].kind \in DetailsMethod
           /\ node[detailed].kids # <<>> =>
                 node[detailed].kids[1] \in 1..(detailed - 1) /\ node[detailed].kids[1] \in 0..(e - 1)
<1>1. e # 0 /\ e \in Ids
  <2>1. e # 0
    BY DEF As, Nil
  <2> QED BY <2>1, Typing
<1>2. detailed \in 1..e /\ node[detailed].kind \in DetailsMethod
  BY <1>1, AsFound
<1>3. detailed \in Ids /\ e \in Nat
  BY <1>1, <1>2, Typing
<1>4. ASSUME node[detailed].kids # <<>>
      PROVE  node[detailed].kids[1] \in 1..(detailed - 1) /\ node[detailed].kids[1] \in 0..(e - 1)
  <2>1. node[detailed].kids[1] \in 1..(detailed - 1)
    BY <1>3, <1>4, FirstKid
  <2> QED BY <1>2, <1>3, <2>1
<1> QED BY <1>2, <1>3, <1>4

LEMMA DetailsSteps ==
    ASSUME TreeIInv
    PROVE  \A e \in 0..Len(node) : GetDetails[e] = DetailsAt(GetDetails, e)
<1> DEFINE N == Len(node)
           Tables == [0..N -> 0..N]
           Fn(g) == [e \in 0..N |-> DetailsAt(g, e)]
           details == CHOOSE g : g = Fn(g)
           d == [e \in 0..N |-> [f \in Tables |-> DetailsAt(f, e)]]
<1>1. N \in Nat /\ 0 \in Nat /\ 0 \in 0..N
  BY Typing
<1>2. ASSUME NEW e \in 0..N, NEW f \in Tables PROVE DetailsAt(f, e) \in 0..N
  <2> DEFINE detailed == As(e, DetailsMethod)
  <2>1. CASE detailed # Nil
    <3>1. detailed \in 0..N
          /\ (node[detailed].kids # <<>> => node[detailed].kids[1] \in 0..N)
      BY <1>1, <2>1, DetailsCalls
    <3> HIDE DEF detailed, N
    <3>2. node[detailed].kids # <<>> => f[node[detailed].kids[1]] \in 0..N
      BY <3>1
    <3> QED BY <1>1, <3>1, <3>2 DEF DetailsAt, detailed, Nil
  <2>2. CASE detailed = Nil
    <3> HIDE DEF detailed
    <3> QED BY <1>1, <2>2 DEF DetailsAt, detailed, Nil
  <2> HIDE DEF detailed
  <2> QED BY <2>1, <2>2
<1>3. ASSUME NEW e \in 0..N, NEW f, NEW g, \A i \in 0..(e - 1) : f[i] = g[i]
      PROVE  DetailsAt(f, e) = DetailsAt(g, e)
  <2> DEFINE detailed == As(e, DetailsMethod)
  <2>1. detailed # Nil /\ node[detailed].kids # <<>> => node[detailed].kids[1] \in 0..(e - 1)
    BY DetailsCalls
  <2>2. CASE detailed # Nil /\ node[detailed].kids # <<>>
    <3>1. f[node[detailed].kids[1]] = g[node[detailed].kids[1]]
      BY <1>3, <2>1, <2>2
    <3> HIDE DEF detailed
    <3> QED BY <2>2, <3>1 DEF DetailsAt, detailed
  <2>3. CASE ~(detailed # Nil /\ node[detailed].kids # <<>>)
    <3> HIDE DEF detailed
    <3> QED BY <2>3 DEF DetailsAt, detailed
  <2> QED BY <2>2, <2>3
<1>4. \E g : g = Fn(g)
  <2>1. d \in [0..N -> [Tables -> 0..N]]
    BY <1>2
  <2>2. \A e \in 0..N : \A f \in Tables : d[e][f] = DetailsAt(f, e)
    OBVIOUS
  <2>3. \A e \in 0..N : \A f, g \in Tables :
            (\A i \in 0..(e - 1) : f[i] = g[i]) => d[e][f] = d[e][g]
    <3> SUFFICES ASSUME NEW e \in 0..N, NEW f \in Tables, NEW g \in Tables,
                        \A i \in 0..(e - 1) : f[i] = g[i]
                 PROVE  d[e][f] = d[e][g]
      OBVIOUS
    <3>1. DetailsAt(f, e) = DetailsAt(g, e)
      BY <1>3
    <3> HIDE DEF d, N, Tables
    <3> QED BY <2>2, <3>1
  <2> DEFINE S == 0..N
             c == 0
             a == 0
  <2> HIDE DEF d, S, c, a
  <2>4. N \in Nat /\ a \in Nat /\ c \in S /\ ReadsBelow(d, a, N, S)
    BY <1>1, <2>1, <2>3 DEF S, c, a, ReadsBelow
  <2> HIDE DEF N
  <2>5. \E g \in [a..N -> S] : \A e \in a..N : g[e] = d[e][g]
    BY ONLY <2>4, TableFunction
  <2>6. PICK g \in Tables : \A e \in 0..N : g[e] = d[e][g]
    BY <2>5 DEF S, a
  <2>7. \A e \in 0..N : g[e] = DetailsAt(g, e)
    BY <2>2, <2>6
  <2>8. g = Fn(g)
    BY <2>6, <2>7
  <2> QED BY <2>8
<1>5. details = Fn(details)
  <2> HIDE DEF Fn
  <2> QED BY <1>4, Zenon
<1>6. GetDetails = details
  BY Zenon DEF GetDetails, DetailsAt
<1> HIDE DEF details
<1>7. \A e \in 0..N : details[e] = DetailsAt(details, e)
  BY <1>5
<1> QED BY <1>6, <1>7

LEMMA OneKidOnly ==
    ASSUME TreeIInv, NEW n \in Ids, node[n].kids # <<>>,
           node[n].kind \in {"wrap", "transient", "stack", "coded", "field", "detailed"}
    PROVE  node[n].kids = <<node[n].kids[1]>>
<1> DEFINE kids == node[n].kids
<1>1. KindOK(node[n]) /\ kids \in Seq(1..(n - 1))
  BY Typing DEF TreeIInv, TypeOK
<1>2. Len(kids) \in Nat /\ Len(kids) # 0
  BY <1>1, LenProperties, EmptySeq
<1>3. Len(kids) = 1
  <2>1. CASE node[n].kind \in Decorators
    BY <1>1, <2>1, SentinelsAssumption DEF KindOK, Leaves, Kinds, Decorators
  <2>2. CASE node[n].kind = "detailed"
    <3>1. node[n].kind \notin Decorators /\ node[n].kind \notin Leaves
      BY <2>2, SentinelsAssumption DEF Leaves, Kinds, Decorators
    <3>2. Len(kids) <= 1
      BY <1>1, <2>2, <3>1 DEF KindOK
    <3>3. \A k \in Nat : k # 0 /\ k <= 1 => k = 1
      OBVIOUS
    <3> QED BY <1>2, <3>2, <3>3
  <2> QED BY <2>1, <2>2 DEF Decorators
<1> QED BY <1>1, <1>3

(* A layer that says nothing of its own about a fact passes it on. *)
LEMMA LayersPass ==
    ASSUME TreeIInv
    PROVE  LayersKeepFacts
<1> SUFFICES ASSUME NEW n \in Ids, PassesOn(n), NEW cause, cause = node[n].kids[1]
             PROVE  /\ node[n].code = Code.NoCode => GetCode[n] = GetCode[cause]
                    /\ ~node[n].public => GetDetails[n] = GetDetails[cause]
                    /\ Marked(cause) => Marked(n)
  BY DEF LayersKeepFacts
<1>1. /\ node[n].kids # <<>> /\ node[n].kids = <<cause>>
      /\ node[n].kind \in {"wrap", "transient", "stack", "detailed"}
  BY OneKidOnly DEF PassesOn
<1>2. cause \in Ids /\ n \in 0..Len(node) /\ cause \in 0..Len(node)
  <2>1. cause \in Ids
    BY <1>1, FirstKid
  <2> QED BY <2>1, Typing
<1>3. \A kinds : node[n].kind \notin kinds => As(n, kinds) = As(cause, kinds)
  BY <1>1, AsBelow
<1>4. GetCode[n] = CodeAt(GetCode, n) /\ GetCode[cause] = CodeAt(GetCode, cause)
  BY <1>2, CodeSteps
<1>5. GetDetails[n] = DetailsAt(GetDetails, n) /\ GetDetails[cause] = DetailsAt(GetDetails, cause)
  BY <1>2, DetailsSteps
<1>6. n # Nil
  BY Typing DEF Nil
<1>7. CASE node[n].kind = "detailed"
  <2>1. As(n, CodeMethod) = n /\ As(n, DetailsMethod) = n
    BY <1>7, AsTop DEF CodeMethod, DetailsMethod
  <2>2. As(n, {"transient"}) = As(cause, {"transient"})
    BY <1>3, <1>7
  <2>3. ASSUME node[n].code = Code.NoCode PROVE GetCode[n] = GetCode[cause]
    <3>1. Inherits(node[n])
      BY <1>1, <1>7, <2>3 DEF Inherits
    <3> QED BY <1>4, <1>6, <2>1, <3>1 DEF CodeAt
  <2>4. ~node[n].public => GetDetails[n] = GetDetails[cause]
    BY <1>1, <1>5, <1>6, <1>7, <2>1 DEF DetailsAt
  <2> QED BY <2>2, <2>3, <2>4 DEF Marked, Is
<1>8. CASE node[n].kind \in {"wrap", "transient", "stack"}
  <2>1. /\ As(n, CodeMethod) = As(cause, CodeMethod)
        /\ As(n, DetailsMethod) = As(cause, DetailsMethod)
        /\ As(n, {"grpc"}) = As(cause, {"grpc"})
        /\ As(n, {"deadline"}) = As(cause, {"deadline"})
        /\ As(n, {"canceled"}) = As(cause, {"canceled"})
    BY <1>3, <1>8 DEF CodeMethod, DetailsMethod
  <2>2. CodeAt(GetCode, n) = CodeAt(GetCode, cause)
    BY <2>1 DEF CodeAt, Is
  <2>3. DetailsAt(GetDetails, n) = DetailsAt(GetDetails, cause)
    BY <2>1 DEF DetailsAt
  <2>4. Marked(cause) => Marked(n)
    <3>1. CASE node[n].kind = "transient"
      BY <1>6, <3>1, AsTop DEF Marked, Is
    <3>2. CASE node[n].kind # "transient"
      BY <1>3, <3>2 DEF Marked, Is
    <3> QED BY <3>1, <3>2
  <2> QED BY <1>4, <1>5, <2>2, <2>3, <2>4
<1> QED BY <1>1, <1>7, <1>8

(* "ctx.Err() returned as is (or propagated) never degrades", and a public error or
   a marker attached below survives on the way up, through any number of layers. *)
THEOREM FactsPassedOn == Spec => []LayersKeepFacts
BY TreeIInvHolds, LayersPass, PTL

-----------------------------------------------------------------------------
(* What field errors hide. *)

(* One call of OutsideFields, the calls below it answered by g. *)
OutsideAt(g, e) ==
    {e} \cup IF node[e].kind = "field" THEN {}
             ELSE UNION {g[k] : k \in ToSet(node[e].kids)}

LEMMA KidsBelow ==
    ASSUME TreeIInv, NEW n \in Ids, NEW k \in ToSet(node[n].kids)
    PROVE  k \in 1..(n - 1) /\ k \in Ids
<1>1. node[n].kids \in Seq(1..(n - 1)) /\ 1..(n - 1) \subseteq Ids
  BY Typing
<1>2. PICK i \in 1..Len(node[n].kids) : k = node[n].kids[i]
  BY <1>1, LenProperties DEF ToSet
<1> QED BY <1>1, <1>2, ElementOfSeq

LEMMA OutsideSteps ==
    ASSUME TreeIInv
    PROVE  \A e \in Ids : OutsideFields[e] = OutsideAt(OutsideFields, e)
<1> DEFINE N == Len(node)
           Tables == [1..N -> SUBSET Ids]
           Fn(g) == [e \in Ids |-> OutsideAt(g, e)]
           outside == CHOOSE g : g = Fn(g)
           d == [e \in 1..N |-> [f \in Tables |-> OutsideAt(f, e)]]
<1>1. N \in Nat /\ 1 \in Nat /\ Ids = 1..N
  BY Typing
<1>2. ASSUME NEW e \in 1..N, NEW f \in Tables PROVE OutsideAt(f, e) \in SUBSET Ids
  <2>1. e \in Ids
    BY <1>1
  <2>2. \A k \in ToSet(node[e].kids) : k \in 1..N
    BY <1>1, <2>1, KidsBelow
  <2> HIDE DEF N
  <2>3. \A k \in ToSet(node[e].kids) : f[k] \in SUBSET Ids
    BY <2>2
  <2> QED BY <2>1, <2>3 DEF OutsideAt
<1>3. ASSUME NEW e \in 1..N, NEW f, NEW g, \A i \in 1..(e - 1) : f[i] = g[i]
      PROVE  OutsideAt(f, e) = OutsideAt(g, e)
  <2>1. \A k \in ToSet(node[e].kids) : f[k] = g[k]
    BY <1>1, <1>3, KidsBelow
  <2> QED BY <2>1 DEF OutsideAt
<1>4. \E g : g = Fn(g)
  <2>1. d \in [1..N -> [Tables -> SUBSET Ids]]
    BY <1>2
  <2>2. \A e \in 1..N : \A f \in Tables : d[e][f] = OutsideAt(f, e)
    OBVIOUS
  <2>3. \A e \in 1..N : \A f, g \in Tables :
            (\A i \in 1..(e - 1) : f[i] = g[i]) => d[e][f] = d[e][g]
    <3> SUFFICES ASSUME NEW e \in 1..N, NEW f \in Tables, NEW g \in Tables,
                        \A i \in 1..(e - 1) : f[i] = g[i]
                 PROVE  d[e][f] = d[e][g]
      OBVIOUS
    <3>1. OutsideAt(f, e) = OutsideAt(g, e)
      BY <1>3
    <3> HIDE DEF d, N, Tables
    <3> QED BY <2>2, <3>1
  <2> DEFINE S == SUBSET Ids
             c == {}
             a == 1
  <2> HIDE DEF d, S, c, a
  <2>4. c \in S
    BY DEF c, S
  <2>5. N \in Nat /\ a \in Nat /\ c \in S /\ ReadsBelow(d, a, N, S)
    BY <1>1, <2>1, <2>3, <2>4 DEF S, a, ReadsBelow
  <2> HIDE DEF N
  <2>6. \E g \in [a..N -> S] : \A e \in a..N : g[e] = d[e][g]
    BY ONLY <2>5, TableFunction
  <2>7. PICK g \in Tables : \A e \in 1..N : g[e] = d[e][g]
    BY <2>6 DEF S, a
  <2>8. \A e \in 1..N : g[e] = OutsideAt(g, e)
    BY <2>2, <2>7
  <2>9. g = Fn(g)
    BY <1>1, <2>7, <2>8
  <2> QED BY <2>9
<1>5. outside = Fn(outside)
  <2> HIDE DEF Fn
  <2> QED BY <1>4, Zenon
<1>6. OutsideFields = outside
  BY Zenon DEF OutsideFields, OutsideAt
<1> HIDE DEF outside
<1>7. \A e \in Ids : outside[e] = OutsideAt(outside, e)
  BY <1>5
<1> QED BY <1>6, <1>7

(* No field error hides what none hides below it. *)
LEMMA OutsideDown ==
    ASSUME TreeIInv, NEW n \in Ids, NEW m \in OutsideFields[n]
    PROVE  m \in Ids /\ OutsideFields[m] \subseteq OutsideFields[n]
<1> DEFINE N == Len(node)
           Closed(e) == \A x \in OutsideFields[e] :
                            x \in Ids /\ OutsideFields[x] \subseteq OutsideFields[e]
           T == {e \in 1..N : Closed(e)}
<1>1. N \in Nat /\ 1 \in Nat /\ Ids = 1..N
  BY Typing
<1>2. ASSUME NEW e \in 1..N, \A i \in 1..(e - 1) : i \in T PROVE e \in T
  <2>1. e \in Ids
    BY <1>1
  <2>2. OutsideFields[e] = OutsideAt(OutsideFields, e)
    BY <2>1, OutsideSteps
  <2>3. ASSUME NEW x \in OutsideFields[e], x # e
        PROVE  x \in Ids /\ OutsideFields[x] \subseteq OutsideFields[e]
    <3>1. PICK k \in ToSet(node[e].kids) : x \in OutsideFields[k]
      BY <2>2, <2>3 DEF OutsideAt
    <3>2. k \in 1..(e - 1)
      BY <2>1, KidsBelow
    <3>3. Closed(k)
      BY <1>2, <3>2
    <3>4. OutsideFields[k] \subseteq OutsideFields[e]
      BY <2>2, <2>3, <3>1 DEF OutsideAt
    <3> QED BY <3>1, <3>3, <3>4
  <2>4. Closed(e)
    BY <2>1, <2>3
  <2> QED BY <2>4
<1> HIDE DEF T
<1>3. 1..N \subseteq T
  <2> HIDE DEF N
  <2> QED BY <1>1, <1>2, IntervalInduction
<1>4. n \in T
  BY <1>1, <1>3
<1> QED BY <1>4 DEF T

(* What stands in the order after e stands in that of a child, and what that one
   has before it stands before it. *)
LEMMA OrderBelow ==
    ASSUME TreeIInv, NEW n \in Ids, NEW i \in 1..Len(node[n].order), i # 1
    PROVE  \E k \in ToSet(node[n].kids) : \E p \in 1..Len(node[k].order) :
              /\ node[n].order[i] = node[k].order[p]
              /\ \A q \in 1..(p - 1) : \E j \in 1..(i - 1) :
                    node[n].order[j] = node[k].order[q]
<1> DEFINE order == node[n].order
           kids == AsKids(node[n])
           ss == KidOrders(node[n])
           rest == FlattenSeq(ss)
           s == <<n>>
<1>1. n \in Nat /\ n - 1 \in Nat /\ n - 1 <= Len(node) /\ KindOK(node[n])
      /\ node[n].kids \in Seq(1..(n - 1))
  <2>1. KindOK(node[n]) /\ n \in 1..Len(node) /\ node[n].kids \in Seq(1..(n - 1))
    BY Typing DEF TreeIInv, TypeOK
  <2> QED BY <2>1, Typing
<1>2. /\ Len(ss) = Len(kids) /\ ss \in Seq(Seq(1..(n - 1)))
      /\ \A m \in 1..Len(kids) : ss[m] = node[kids[m]].order
  <2> DEFINE b == n - 1
  <2> HIDE DEF b
  <2>1. b \in Nat /\ b <= Len(node) /\ node[n].kids \in Seq(1..b)
    BY <1>1 DEF b
  <2>2. /\ Len(ss) = Len(kids) /\ ss \in Seq(Seq(1..b))
        /\ \A m \in 1..Len(kids) : ss[m] = node[kids[m]].order
    BY <1>1, <2>1, KidOrdersSeq
  <2> QED BY <2>2 DEF b
<1>3. \A m \in 1..Len(kids) : kids[m] \in ToSet(node[n].kids)
  <2> DEFINE S == ToSet(node[n].kids)
  <2>1. node[n].kids \in Seq(S)
    <3> DEFINE own == node[n].kids
               N == Len(own)
    <3>1. own \in [1..N -> 1..(n - 1)] /\ N \in Nat
      BY <1>1, LenProperties
    <3>2. \A j \in 1..N : own[j] \in S
      BY <3>1 DEF ToSet
    <3> HIDE DEF S, own, N
    <3>3. own \in [1..N -> S]
      BY <3>1, <3>2
    <3>4. own \in Seq(S)
      BY <3>1, <3>3, SeqDef
    <3> QED BY <3>4 DEF own
  <2> HIDE DEF S
  <2>2. kids \in Seq(S)
    BY <1>1, <2>1, AsKidsSeq
  <2>3. \A m \in 1..Len(kids) : kids[m] \in S
    BY <2>2, ElementOfSeq
  <2> QED BY <2>3 DEF S
<1>4. rest \in Seq(1..(n - 1)) /\ TakenFrom(rest, ss, Len(ss))
  <2> HIDE DEF ss
  <2> DEFINE S == 1..(n - 1)
  <2> HIDE DEF S
  <2>1. ss \in Seq(Seq(S))
    BY <1>2 DEF S
  <2>2. FlattenSeq(ss) \in Seq(S) /\ TakenFrom(FlattenSeq(ss), ss, Len(ss))
    BY <2>1, Flatten
  <2> QED BY <2>2 DEF S
<1>5. order = s \o rest /\ s \in Seq(Nat) /\ Len(s) = 1 /\ rest \in Seq(Nat)
  <2>1. rest \in Seq(Nat)
    <3>1. 1..(n - 1) \subseteq Nat
      OBVIOUS
    <3> HIDE DEF rest
    <3> QED BY <1>4, <3>1, SeqMonotonic
  <2>2. order = s \o rest
    BY DEF TreeIInv, OrderOK
  <2> HIDE DEF rest, order
  <2> QED BY <1>1, <2>1, <2>2
<1> HIDE DEF rest, order, s, ss
<1>6. /\ Len(order) = 1 + Len(rest) /\ Len(rest) \in Nat
      /\ \A j \in 1..Len(rest) : j + 1 \in 1..Len(order) /\ order[j + 1] = rest[j]
  <2>1. /\ Len(order) = Len(s) + Len(rest) /\ Len(rest) \in Nat
        /\ \A j \in 1..(Len(s) + Len(rest)) :
              order[j] = IF j <= Len(s) THEN s[j] ELSE rest[j - Len(s)]
    BY <1>5, ConcatProperties, LenProperties
  <2>2. ASSUME NEW j \in 1..Len(rest) PROVE j + 1 \in 1..Len(order) /\ order[j + 1] = rest[j]
    <3> DEFINE h == j + 1
    <3>1. h \in 1..(Len(s) + Len(rest)) /\ ~(h <= 1) /\ h - 1 = j
      BY <1>5, <2>1
    <3> HIDE DEF h
    <3>2. order[h] = rest[j]
      BY <1>5, <2>1, <3>1
    <3> QED BY <2>1, <3>1, <3>2 DEF h
  <2> QED BY <1>5, <2>1, <2>2
<1> DEFINE h == i - 1
<1>7. h \in 1..Len(rest) /\ h + 1 = i /\ h \in Nat
  BY <1>6 DEF order
<1>8. order[i] = rest[h]
  <2> HIDE DEF h
  <2> QED BY <1>6, <1>7
<1> HIDE DEF h
<1>9. PICK m \in 1..Len(ss) : \E p \in 1..Len(ss[m]) : Taken(rest, h, ss, m, p)
  BY <1>4, <1>7 DEF TakenFrom
<1>10. PICK p \in 1..Len(ss[m]) : Taken(rest, h, ss, m, p)
  BY <1>9
<1> DEFINE k == kids[m]
<1>11. k \in ToSet(node[n].kids) /\ ss[m] = node[k].order
  BY <1>2, <1>3, <1>9
<1> HIDE DEF k
<1>12. order[i] = node[k].order[p] /\ p \in 1..Len(node[k].order)
  BY <1>8, <1>10, <1>11 DEF Taken
<1>13. ASSUME NEW q \in 1..(p - 1)
       PROVE  \E j \in 1..(i - 1) : order[j] = node[k].order[q]
  <2>1. PICK g \in 1..(h - 1) : rest[g] = ss[m][q]
    BY <1>10 DEF Taken
  <2>2. g \in 1..Len(rest)
    BY <1>6, <1>7, <2>1
  <2> DEFINE j == g + 1
  <2>3. j \in 1..(i - 1)
    BY <1>7, <2>1
  <2>4. order[j] = rest[g]
    BY <1>6, <2>2
  <2> HIDE DEF j
  <2> QED BY <1>11, <2>1, <2>3, <2>4
<1> QED BY <1>11, <1>12, <1>13 DEF order

(* The errors that As comes to before any field error are outside all of them, and
   so is the first of those. *)
LEMMA BeforeFields ==
    ASSUME TreeIInv, NEW n \in Ids, NEW i \in 1..Len(node[n].order),
           \A j \in 1..(i - 1) : node[node[n].order[j]].kind # "field"
    PROVE  node[n].order[i] \in OutsideFields[n]
<1> DEFINE N == Len(node)
           Clear(e, p) == \A j \in 1..(p - 1) : node[node[e].order[j]].kind # "field"
           Shown(e) == \A p \in 1..Len(node[e].order) :
                          Clear(e, p) => node[e].order[p] \in OutsideFields[e]
           T == {e \in 1..N : Shown(e)}
<1>1. N \in Nat /\ 1 \in Nat /\ Ids = 1..N
  BY Typing
<1>2. ASSUME NEW e \in 1..N, \A k \in 1..(e - 1) : k \in T PROVE e \in T
  <2>1. e \in Ids
    BY <1>1
  <2>2. OutsideFields[e] = OutsideAt(OutsideFields, e)
    BY <2>1, OutsideSteps
  <2>3. ASSUME NEW p \in 1..Len(node[e].order), Clear(e, p)
        PROVE  node[e].order[p] \in OutsideFields[e]
    <3>1. CASE p = 1
      BY <2>1, <2>2, <3>1, OrderTop DEF OutsideAt
    <3>2. CASE p # 1
      <4>1. node[e].kind # "field"
        <5>1. 1 \in 1..(p - 1) /\ node[e].order[1] = e
          BY <2>1, <3>2, OrderTop
        <5> QED BY <2>3, <5>1
      <4>2. PICK k \in ToSet(node[e].kids) : \E q \in 1..Len(node[k].order) :
              /\ node[e].order[p] = node[k].order[q]
              /\ \A r \in 1..(q - 1) : \E j \in 1..(p - 1) :
                    node[e].order[j] = node[k].order[r]
        BY <2>1, <3>2, OrderBelow
      <4>3. PICK q \in 1..Len(node[k].order) :
              /\ node[e].order[p] = node[k].order[q]
              /\ \A r \in 1..(q - 1) : \E j \in 1..(p - 1) :
                    node[e].order[j] = node[k].order[r]
        BY <4>2
      <4>4. Clear(k, q)
        BY <2>3, <4>3
      <4>5. Shown(k)
        <5>1. k \in 1..(e - 1)
          BY <2>1, KidsBelow
        <5> QED BY <1>2, <5>1
      <4>6. node[k].order[q] \in OutsideFields[k]
        BY <4>4, <4>5
      <4> QED BY <2>2, <4>1, <4>3, <4>6 DEF OutsideAt
    <3> QED BY <3>1, <3>2
  <2>4. Shown(e)
    BY <2>3
  <2> QED BY <2>4
<1> HIDE DEF T
<1>3. 1..N \subseteq T
  <2> HIDE DEF N
  <2> QED BY <1>1, <1>2, IntervalInduction
<1>4. Shown(n)
  BY <1>1, <1>3 DEF T
<1> QED BY <1>4

(* What As finds is not below a field error, when it stops at field errors or when
   there are none. *)
LEMMA FoundOutside ==
    ASSUME TreeIInv, NEW n \in Ids, NEW kinds, As(n, kinds) # Nil,
           "field" \in kinds \/ NoneOf(n, {"field"})
    PROVE  As(n, kinds) \in OutsideFields[n]
<1>1. PICK i : FirstAt(n, i, kinds) /\ As(n, kinds) = node[n].order[i]
  BY AsFirst
<1>2. i \in 1..Len(node[n].order)
  BY <1>1 DEF FirstAt
<1>3. \A j \in 1..(i - 1) : node[node[n].order[j]].kind # "field"
  <2>1. \A j \in 1..(i - 1) : j \in 1..Len(node[n].order)
    BY <1>2, OrderTop
  <2> QED BY <1>1, <2>1 DEF FirstAt, NoneOf
<1> QED BY <1>1, <1>2, <1>3, BeforeFields

(* The code of e is one that an error outside all fields carries. *)
CodeShown(e) == GetCode[e] = Code.NoCode \/ \E m \in OutsideFields[e] : OwnCode(m) = GetCode[e]
DetailsShown(e) == GetDetails[e] = Nil \/ GetDetails[e] \in OutsideFields[e]

LEMMA CodeOfOutside ==
    ASSUME TreeIInv, NEW n \in Ids, \A k \in 1..(n - 1) : CodeShown(k)
    PROVE  CodeShown(n)
<1> DEFINE coded == As(n, CodeMethod)
           grpc == As(n, {"grpc"})
<1>1. n \in 0..Len(node) /\ GetCode[n] = CodeAt(GetCode, n)
  BY Typing, CodeSteps
<1>2. CASE coded # Nil
  <2>1. /\ coded \in 1..n /\ coded \in Ids /\ node[coded].kind \in CodeMethod
        /\ Inherits(node[coded]) => node[coded].kids[1] \in 1..(coded - 1)
    BY <1>1, <1>2, CodeCalls
  <2>2. coded \in OutsideFields[n]
    BY <1>2, FoundOutside DEF CodeMethod
  <2> HIDE DEF coded
  <2>3. CASE Inherits(node[coded])
    <3> DEFINE kid == node[coded].kids[1]
    <3>1. kid \in 1..(n - 1) /\ kid \in ToSet(node[coded].kids)
      <4>1. kid \in 1..(coded - 1) /\ coded \in 1..n /\ n \in Nat
        BY <2>1, <2>3, Typing
      <4>2. kid \in ToSet(node[coded].kids)
        <5>1. node[coded].kids # <<>> /\ node[coded].kids \in Seq(1..(coded - 1))
          BY <2>1, <2>3, Typing DEF Inherits
        <5>2. 1 \in 1..Len(node[coded].kids)
          BY <5>1, EmptySeq
        <5> QED BY <5>2 DEF ToSet
      <4> HIDE DEF kid
      <4> QED BY <4>1, <4>2
    <3> HIDE DEF kid
    <3>2. GetCode[n] = GetCode[kid]
      BY <1>1, <1>2, <2>3 DEF CodeAt, coded, kid
    <3>3. CodeShown(kid)
      BY <3>1
    <3>4. OutsideFields[kid] \subseteq OutsideFields[n]
      <4>1. OutsideFields[coded] = OutsideAt(OutsideFields, coded)
        BY <2>1, OutsideSteps
      <4>2. OutsideFields[kid] \subseteq OutsideFields[coded]
        BY <2>3, <3>1, <4>1 DEF OutsideAt, Inherits
      <4>3. OutsideFields[coded] \subseteq OutsideFields[n]
        BY <2>2, OutsideDown
      <4> QED BY <4>2, <4>3
    <3> QED BY <3>2, <3>3, <3>4 DEF CodeShown
  <2>4. CASE ~Inherits(node[coded])
    <3>1. GetCode[n] = node[coded].code
      BY <1>1, <1>2, <2>4 DEF CodeAt, coded
    <3>2. CASE node[coded].kind = "field"
      <4>1. node[coded].code = Code.NoCode
        BY <2>1, <3>2, OwnCodes
      <4> QED BY <3>1, <4>1 DEF CodeShown
    <3>3. CASE node[coded].kind \in {"detailed", "coded"}
      <4>1. OwnCode(coded) = node[coded].code
        BY <3>3 DEF OwnCode
      <4> QED BY <2>2, <3>1, <4>1 DEF CodeShown
    <3> QED BY <2>1, <3>2, <3>3 DEF CodeMethod
  <2> QED BY <2>3, <2>4
<1>3. CASE coded = Nil
  <2>1. NoneOf(n, {"field"})
    <3>1. NoneOf(n, CodeMethod)
      <4>1. \A i : FirstAt(n, i, CodeMethod) => node[n].order[i] # Nil
        BY OrderTop DEF FirstAt, Nil
      <4> QED BY <1>3, <4>1, AsFirst
    <3> QED BY <3>1 DEF NoneOf, CodeMethod
  <2>2. ASSUME NEW kind, As(n, {kind}) # Nil
        PROVE  As(n, {kind}) \in OutsideFields[n] /\ node[As(n, {kind})].kind = kind
    <3>1. As(n, {kind}) \in OutsideFields[n]
      BY <2>1, <2>2, FoundOutside
    <3>2. node[As(n, {kind})].kind \in {kind}
      BY <2>2, AsFound
    <3> QED BY <3>1, <3>2
  <2>3. CASE grpc # Nil
    <3>1. GetCode[n] = CodeFromGRPC(node[grpc].code)
      BY <1>1, <1>3, <2>3 DEF CodeAt
    <3>2. grpc \in OutsideFields[n] /\ node[grpc].kind = "grpc"
      BY <2>2, <2>3
    <3> HIDE DEF grpc, coded
    <3>3. OwnCode(grpc) = CodeFromGRPC(node[grpc].code)
      BY <3>2 DEF OwnCode
    <3> QED BY <3>1, <3>2, <3>3 DEF CodeShown
  <2>4. CASE grpc = Nil
    <3>1. GetCode[n] = IF Is(n, "deadline") THEN Code.DeadlineExceeded
                       ELSE IF Is(n, "canceled") THEN Code.Canceled ELSE Code.NoCode
      BY <1>1, <1>3, <2>4 DEF CodeAt
    <3>2. ASSUME NEW kind \in {"deadline", "canceled"}, Is(n, kind)
          PROVE  \E m \in OutsideFields[n] : node[m].kind = kind
      BY <2>2, <3>2 DEF Is
    <3>3. \A m : /\ node[m].kind = "deadline" => OwnCode(m) = Code.DeadlineExceeded
                 /\ node[m].kind = "canceled" => OwnCode(m) = Code.Canceled
      BY DEF OwnCode
    <3>4. CASE Is(n, "deadline")
      <4>1. PICK m \in OutsideFields[n] : node[m].kind = "deadline"
        BY <3>2, <3>4
      <4> QED BY <3>1, <3>3, <3>4, <4>1 DEF CodeShown
    <3>5. CASE ~Is(n, "deadline") /\ Is(n, "canceled")
      <4>1. PICK m \in OutsideFields[n] : node[m].kind = "canceled"
        BY <3>2, <3>5
      <4> QED BY <3>1, <3>3, <3>5, <4>1 DEF CodeShown
    <3>6. CASE ~Is(n, "deadline") /\ ~Is(n, "canceled")
      BY <3>1, <3>6 DEF CodeShown
    <3> QED BY <3>4, <3>5, <3>6
  <2> QED BY <2>3, <2>4
<1> QED BY <1>2, <1>3

LEMMA DetailsOfOutside ==
    ASSUME TreeIInv, NEW n \in Ids, \A k \in 1..(n - 1) : DetailsShown(k)
    PROVE  DetailsShown(n)
<1> DEFINE detailed == As(n, DetailsMethod)
           kid == node[detailed].kids[1]
<1>1. n \in 0..Len(node) /\ GetDetails[n] = DetailsAt(GetDetails, n)
  BY Typing, DetailsSteps
<1>2. CASE detailed = Nil \/ node[detailed].kind = "field"
  BY <1>1, <1>2 DEF DetailsAt, DetailsShown
<1>3. CASE detailed # Nil /\ node[detailed].kind # "field"
  <2>1. /\ detailed \in 1..n /\ detailed \in Ids
        /\ node[detailed].kids # <<>> => kid \in 1..(detailed - 1)
    BY <1>1, <1>3, DetailsCalls
  <2>2. detailed \in OutsideFields[n]
    BY <1>3, FoundOutside DEF DetailsMethod
  <2> HIDE DEF detailed
  <2>3. CASE node[detailed].public
    BY <1>1, <1>3, <2>2, <2>3 DEF DetailsAt, DetailsShown, detailed
  <2>4. CASE ~node[detailed].public /\ node[detailed].kids = <<>>
    BY <1>1, <1>3, <2>4 DEF DetailsAt, DetailsShown, detailed
  <2>5. CASE ~node[detailed].public /\ node[detailed].kids # <<>>
    <3>1. GetDetails[n] = GetDetails[kid]
      BY <1>1, <1>3, <2>5 DEF DetailsAt, detailed
    <3>2. kid \in 1..(n - 1) /\ kid \in ToSet(node[detailed].kids)
      <4>1. kid \in 1..(detailed - 1) /\ detailed \in 1..n /\ n \in Nat
        BY <2>1, <2>5, Typing
      <4>2. node[detailed].kids \in Seq(1..(detailed - 1))
        BY <2>1, Typing
      <4>3. 1 \in 1..Len(node[detailed].kids)
        BY <2>5, <4>2, EmptySeq
      <4>4. kid \in ToSet(node[detailed].kids)
        BY <4>3 DEF ToSet
      <4> HIDE DEF kid
      <4> QED BY <4>1, <4>4
    <3>3. OutsideFields[kid] \subseteq OutsideFields[detailed]
      <4>1. OutsideFields[detailed] = OutsideAt(OutsideFields, detailed)
        BY <2>1, OutsideSteps
      <4> QED BY <1>3, <3>2, <4>1 DEF OutsideAt
    <3>4. OutsideFields[detailed] \subseteq OutsideFields[n]
      BY <2>2, OutsideDown
    <3> HIDE DEF kid
    <3>5. DetailsShown(kid)
      BY <3>2
    <3> QED BY <3>1, <3>3, <3>4, <3>5 DEF DetailsShown
  <2> QED BY <2>3, <2>4, <2>5
<1> QED BY <1>2, <1>3

LEMMA FieldsHide ==
    ASSUME TreeIInv
    PROVE  FieldsKeepToThemselves
<1> DEFINE N == Len(node)
           T == {e \in 1..N : CodeShown(e) /\ DetailsShown(e)}
<1>1. N \in Nat /\ 1 \in Nat /\ Ids = 1..N
  BY Typing
<1>2. ASSUME NEW e \in 1..N, \A k \in 1..(e - 1) : k \in T PROVE e \in T
  <2>1. e \in Ids
    BY <1>1
  <2>2. \A k \in 1..(e - 1) : CodeShown(k) /\ DetailsShown(k)
    BY <1>2
  <2>3. CodeShown(e) /\ DetailsShown(e)
    BY <2>1, <2>2, CodeOfOutside, DetailsOfOutside
  <2> QED BY <2>3
<1> HIDE DEF T
<1>3. 1..N \subseteq T
  <2> HIDE DEF N
  <2> QED BY <1>1, <1>2, IntervalInduction
<1>4. \A n \in Ids : CodeShown(n) /\ DetailsShown(n)
  BY <1>1, <1>3 DEF T
<1> QED BY <1>4 DEF FieldsKeepToThemselves, CodeShown, DetailsShown

(* The code and the public error that a response takes from a tree are never those
   of one of its fields, however the tree was built. *)
THEOREM FieldsStayInside == Spec => []FieldsKeepToThemselves
BY TreeIInvHolds, FieldsHide, PTL

-----------------------------------------------------------------------------
(* What a tree keeps of the trees below it, and what a new error leaves as it was. *)

(* The order of e has all that is in the orders of its children. *)
LEMMA OrderAbove ==
    ASSUME TreeIInv, NEW n \in Ids, NEW k \in ToSet(node[n].kids), NEW p \in 1..Len(node[k].order)
    PROVE  \E i \in 1..Len(node[n].order) : node[n].order[i] = node[k].order[p]
<1> DEFINE order == node[n].order
           kids == AsKids(node[n])
           ss == KidOrders(node[n])
           rest == FlattenSeq(ss)
           s == <<n>>
           b == n - 1
<1>1. n \in Nat /\ b \in Nat /\ b <= Len(node) /\ KindOK(node[n]) /\ node[n].kids \in Seq(1..b)
  <2>1. KindOK(node[n]) /\ n \in 1..Len(node) /\ node[n].kids \in Seq(1..(n - 1))
    BY Typing DEF TreeIInv, TypeOK
  <2> QED BY <2>1, Typing
<1> HIDE DEF b
<1>2. /\ kids \in Seq(1..b) /\ Len(ss) = Len(kids) /\ ss \in Seq(Seq(1..b))
      /\ \A m \in 1..Len(kids) : ss[m] = node[kids[m]].order
  BY <1>1, KidOrdersSeq
<1>3. rest \in Seq(1..b) /\ Keeps(rest, ss, Len(ss))
  <2> HIDE DEF ss
  <2> DEFINE S == 1..b
  <2> HIDE DEF S
  <2>1. ss \in Seq(Seq(S))
    BY <1>2 DEF S
  <2>2. FlattenSeq(ss) \in Seq(S) /\ Keeps(FlattenSeq(ss), ss, Len(ss))
    BY <2>1, Flatten
  <2> QED BY <2>2 DEF S
<1>4. PICK m \in 1..Len(kids) : kids[m] = k
  <2> DEFINE own == node[n].kids
  <2>1. PICK j \in 1..Len(own) : own[j] = k
    BY DEF ToSet
  <2>2. CASE node[n].kind # "linkMulti"
    BY <2>1, <2>2 DEF AsKids
  <2>3. CASE node[n].kind = "linkMulti"
    <3>1. kids = Append(Tail(own), own[1])
      BY <2>3 DEF AsKids
    <3>2. own \in Seq(1..b)
      BY <1>1
    <3> HIDE DEF own
    <3>3. own # <<>> /\ Len(own) \in Nat /\ own[1] \in 1..b
      <4>1. own # <<>> /\ Len(own) \in Nat
        BY <2>1, <3>2, EmptySeq, LenProperties
      <4>2. 1 \in 1..Len(own)
        BY <2>1, <4>1
      <4> QED BY <3>2, <4>1, <4>2, ElementOfSeq
    <3>4. /\ Tail(own) \in Seq(1..b) /\ Len(Tail(own)) = Len(own) - 1
          /\ \A i \in 1..Len(Tail(own)) : Tail(own)[i] = own[i + 1]
      BY <3>2, <3>3, HeadTailProperties
    <3>5. /\ Len(kids) = Len(own) /\ kids[Len(own)] = own[1]
          /\ \A i \in 1..(Len(own) - 1) : kids[i] = own[i + 1]
      <4> DEFINE t == Tail(own) x == own[1]
      <4> HIDE DEF t, x, kids
      <4>1. t \in Seq(1..b) /\ x \in 1..b /\ kids = Append(t, x) /\ Len(t) = Len(own) - 1
        BY <3>1, <3>3, <3>4 DEF t, x
      <4>2. /\ Len(kids) = Len(t) + 1 /\ kids[Len(t) + 1] = x
            /\ \A i \in 1..Len(t) : kids[i] = t[i]
        BY <4>1, AppendProperties
      <4>3. Len(t) + 1 = Len(own)
        BY <3>3, <4>1
      <4> QED BY <3>4, <4>1, <4>2, <4>3 DEF t, x
    <3> HIDE DEF kids
    <3>6. CASE j = 1
      BY <2>1, <3>3, <3>5, <3>6
    <3>7. CASE j # 1
      <4> DEFINE i == j - 1
      <4>1. i \in 1..(Len(own) - 1) /\ i \in 1..Len(own) /\ i + 1 = j
        BY <2>1, <3>3, <3>7
      <4> HIDE DEF i
      <4> QED BY <2>1, <3>5, <4>1
    <3> QED BY <3>6, <3>7
  <2> QED BY <2>2, <2>3
<1>5. ss[m] = node[k].order /\ m \in 1..Len(ss)
  BY <1>2, <1>4
<1>6. PICK j \in 1..Len(rest) : rest[j] = node[k].order[p]
  BY SMTT(30), <1>3, <1>5 DEF Keeps
<1>7. order = s \o rest /\ s \in Seq(Nat) /\ Len(s) = 1 /\ rest \in Seq(Nat)
  <2>1. rest \in Seq(Nat)
    <3>1. 1..b \subseteq Nat
      OBVIOUS
    <3> QED BY <1>3, <3>1, SeqMonotonic
  <2>2. order = s \o rest
    BY DEF TreeIInv, OrderOK
  <2> HIDE DEF rest, order
  <2> QED BY <1>1, <2>1, <2>2
<1> HIDE DEF rest, order, s, ss
<1>8. /\ Len(order) = Len(s) + Len(rest) /\ Len(rest) \in Nat
      /\ \A i \in 1..(Len(s) + Len(rest)) :
            order[i] = IF i <= Len(s) THEN s[i] ELSE rest[i - Len(s)]
  BY <1>7, ConcatProperties, LenProperties
<1> DEFINE h == j + 1
<1>9. h \in 1..(Len(s) + Len(rest)) /\ ~(h <= 1) /\ h - 1 = j
  BY <1>6, <1>7, <1>8
<1> HIDE DEF h
<1>10. order[h] = rest[j] /\ h \in 1..Len(order)
  BY <1>7, <1>8, <1>9
<1> QED BY <1>6, <1>10 DEF order

(* A marker is found from every tree that holds the marked one. *)
MarkersKept == \A n \in Ids : \A k \in ToSet(node[n].kids) : Marked(k) => Marked(n)

LEMMA MarkersFound == ASSUME TreeIInv PROVE MarkersKept
<1> SUFFICES ASSUME NEW n \in Ids, NEW k \in ToSet(node[n].kids), Marked(k), ~Marked(n)
             PROVE  FALSE
  BY DEF MarkersKept
<1> DEFINE kinds == {"transient"}
<1>1. k \in Ids
  BY KidsBelow
<1>2. PICK p : FirstAt(k, p, kinds)
  BY <1>1, AsFirst DEF Marked, Is
<1>3. PICK i \in 1..Len(node[n].order) : node[n].order[i] = node[k].order[p]
  BY <1>2, OrderAbove DEF FirstAt
<1>4. ~NoneOf(n, kinds)
  BY <1>2, <1>3 DEF FirstAt, NoneOf
<1>5. PICK j : FirstAt(n, j, kinds) /\ As(n, kinds) = node[n].order[j]
  BY <1>4, AsFirst
<1> QED BY <1>5, OrderTop DEF FirstAt, Marked, Is, Nil

(* In an error without children As finds that one alone. *)
LEMMA AsLeaf ==
    ASSUME TreeIInv, NEW n \in Ids, node[n].kids = <<>>, NEW kinds, node[n].kind \notin kinds
    PROVE  As(n, kinds) = Nil
<1> SUFFICES ASSUME NEW i, FirstAt(n, i, kinds) PROVE FALSE
  BY AsFirst
<1>1. i \in 1..Len(node[n].order) /\ node[node[n].order[i]].kind \in kinds
  BY DEF FirstAt
<1>2. i # 1
  BY <1>1, OrderTop
<1>3. PICK k \in ToSet(node[n].kids) : TRUE
  BY <1>1, <1>2, OrderBelow
<1> QED BY <1>3 DEF ToSet

LeavesRead ==
    \A n \in Ids : node[n].kids = <<>> =>
        /\ ~Marked(n)
        /\ node[n].kind = "grpc" => GetCode[n] = CodeFromGRPC(node[n].code)
        /\ node[n].kind = "detailed" => GetCode[n] = node[n].code

LEMMA LeafReads == ASSUME TreeIInv PROVE LeavesRead
<1> SUFFICES ASSUME NEW n \in Ids, node[n].kids = <<>>
             PROVE  /\ ~Marked(n)
                    /\ node[n].kind = "grpc" => GetCode[n] = CodeFromGRPC(node[n].code)
                    /\ node[n].kind = "detailed" => GetCode[n] = node[n].code
  BY DEF LeavesRead
<1>1. n # Nil /\ n \in 0..Len(node) /\ KindOK(node[n])
  BY SMTT(30), Typing DEF Nil, TreeIInv, TypeOK
<1>2. GetCode[n] = CodeAt(GetCode, n)
  BY <1>1, CodeSteps
<1>3. ~Marked(n)
  <2>1. node[n].kind # "transient"
    <3>1. Len(node[n].kids) = 0
      BY EmptySeq
    <3> QED BY <1>1, <3>1, SentinelsAssumption DEF KindOK, Decorators, Leaves, Kinds
  <2>2. As(n, {"transient"}) = Nil
    BY <2>1, AsLeaf
  <2> QED BY <2>2 DEF Marked, Is
<1>4. ASSUME node[n].kind = "grpc" PROVE GetCode[n] = CodeFromGRPC(node[n].code)
  <2>1. As(n, CodeMethod) = Nil
    BY <1>4, AsLeaf DEF CodeMethod
  <2>2. As(n, {"grpc"}) = n
    BY <1>4, AsTop
  <2> QED BY <1>1, <1>2, <2>1, <2>2 DEF CodeAt
<1>5. ASSUME node[n].kind = "detailed" PROVE GetCode[n] = node[n].code
  <2>1. As(n, CodeMethod) = n
    BY <1>5, AsTop DEF CodeMethod
  <2> QED BY <1>1, <1>2, <2>1 DEF CodeAt, Inherits
<1> QED BY <1>3, <1>4, <1>5

(* An error with a method Code() that asks no other for it. *)
Answers(n) == node[n].kind \in CodeMethod /\ ~Inherits(node[n])
OwnAnswered == \A n \in Ids : Answers(n) => GetCode[n] = node[n].code

LEMMA OwnAnswers == ASSUME TreeIInv PROVE OwnAnswered
<1> SUFFICES ASSUME NEW n \in Ids, Answers(n) PROVE GetCode[n] = node[n].code
  BY DEF OwnAnswered
<1>1. n # Nil /\ n \in 0..Len(node)
  BY Typing DEF Nil
<1>2. GetCode[n] = CodeAt(GetCode, n)
  BY <1>1, CodeSteps
<1>3. As(n, CodeMethod) = n
  BY AsTop DEF Answers
<1> QED BY <1>1, <1>2, <1>3 DEF CodeAt, Answers

(* What As finds below an error it finds from one of the children, and what it
   finds from none it does not find. *)
LEMMA AsOfKids ==
    ASSUME TreeIInv, NEW n \in Ids, NEW kinds, node[n].kind \notin kinds
    PROVE  IF As(n, kinds) = Nil
           THEN \A k \in ToSet(node[n].kids) : As(k, kinds) = Nil
           ELSE \E k \in ToSet(node[n].kids) : As(k, kinds) = As(n, kinds)
<1>1. \A k \in ToSet(node[n].kids) : k \in Ids
  BY KidsBelow
<1>2. ASSUME NEW i, FirstAt(n, i, kinds), As(n, kinds) = node[n].order[i]
      PROVE  /\ As(n, kinds) # Nil
             /\ \E k \in ToSet(node[n].kids) : As(k, kinds) = As(n, kinds)
  <2>1. i \in 1..Len(node[n].order) /\ i # 1
    BY <1>2, OrderTop DEF FirstAt
  <2>2. PICK k \in ToSet(node[n].kids) : \E p \in 1..Len(node[k].order) :
              /\ node[n].order[i] = node[k].order[p]
              /\ \A q \in 1..(p - 1) : \E j \in 1..(i - 1) :
                    node[n].order[j] = node[k].order[q]
    BY <2>1, OrderBelow
  <2>3. PICK p \in 1..Len(node[k].order) :
              /\ node[n].order[i] = node[k].order[p]
              /\ \A q \in 1..(p - 1) : \E j \in 1..(i - 1) :
                    node[n].order[j] = node[k].order[q]
    BY <2>2
  <2>4. FirstAt(k, p, kinds)
    BY <1>2, <2>3 DEF FirstAt
  <2>5. As(k, kinds) = node[k].order[p]
    BY <1>1, <2>4, FirstUnique
  <2>6. node[n].order[i] # Nil
    BY <2>1, OrderTop DEF Nil
  <2> QED BY <1>2, <2>3, <2>5, <2>6
<1>3. ASSUME NoneOf(n, kinds), NEW k \in ToSet(node[n].kids) PROVE As(k, kinds) = Nil
  <2>1. NoneOf(k, kinds)
    BY <1>3, OrderAbove DEF NoneOf
  <2> QED BY <1>1, <2>1, FirstUnique
<1>4. CASE NoneOf(n, kinds) /\ As(n, kinds) = Nil
  BY <1>3, <1>4
<1>5. CASE \E i : FirstAt(n, i, kinds) /\ As(n, kinds) = node[n].order[i]
  BY <1>2, <1>5
<1> QED BY <1>4, <1>5, AsFirst

(* GetCode says of a collection what it says of one of the errors collected. *)
CollectionsAnswer ==
    \A n \in Ids : node[n].kind \in CollectKinds =>
        \E k \in ToSet(node[n].kids) : GetCode[n] = GetCode[k]

LEMMA CollectionAnswers == ASSUME TreeIInv PROVE CollectionsAnswer
<1> SUFFICES ASSUME NEW n \in Ids, node[n].kind \in CollectKinds
             PROVE  \E k \in ToSet(node[n].kids) : GetCode[n] = GetCode[k]
  BY DEF CollectionsAnswer
<1>1. /\ n \in 0..Len(node) /\ KindOK(node[n])
      /\ \A k \in ToSet(node[n].kids) : k \in Ids /\ k \in 0..Len(node)
  <2>1. \A k \in ToSet(node[n].kids) : k \in Ids
    BY KidsBelow
  <2> QED BY <2>1, Typing DEF TreeIInv, TypeOK
<1>2. /\ GetCode[n] = CodeAt(GetCode, n)
      /\ \A k \in ToSet(node[n].kids) : GetCode[k] = CodeAt(GetCode, k)
  BY <1>1, CodeSteps
<1>3. \A kinds \in {CodeMethod, {"grpc"}, {"deadline"}, {"canceled"}} :
        IF As(n, kinds) = Nil
        THEN \A k \in ToSet(node[n].kids) : As(k, kinds) = Nil
        ELSE \E k \in ToSet(node[n].kids) : As(k, kinds) = As(n, kinds)
  <2> SUFFICES ASSUME NEW kinds \in {CodeMethod, {"grpc"}, {"deadline"}, {"canceled"}}
               PROVE  IF As(n, kinds) = Nil
                      THEN \A k \in ToSet(node[n].kids) : As(k, kinds) = Nil
                      ELSE \E k \in ToSet(node[n].kids) : As(k, kinds) = As(n, kinds)
    OBVIOUS
  <2>1. node[n].kind \notin kinds
    BY DEF CollectKinds, CodeMethod
  <2> QED BY <2>1, AsOfKids
<1>4. PICK any \in ToSet(node[n].kids) : TRUE
  <2>1. Len(node[n].kids) >= 1
    <3> PICK kind : kind = node[n].kind
      OBVIOUS
    <3>1. kind \notin Leaves
      <4>1. kind \in Kinds /\ kind \notin {"canceled", "deadline", "grpc", "panic"}
        BY DEF CollectKinds, Kinds, Decorators
      <4>2. kind \notin Sentinels
        BY <4>1, SentinelsAssumption, Zenon
      <4> QED BY <4>1, <4>2 DEF Leaves
    <3> PICK k : k = Len(node[n].kids)
      OBVIOUS
    <3>2. kind = "wrap" \/ (kind \notin Decorators /\ kind # "detailed")
      BY DEF CollectKinds, Decorators
    <3>3. k \in Nat
      <4>1. node[n].kids \in Seq(1..(n - 1))
        BY Typing
      <4> QED BY <4>1, LenProperties
    <3>4. CASE kind = "wrap"
      <4>1. node[n].kind \in Decorators /\ node[n].kind \notin Leaves
        BY <3>1, <3>4 DEF Decorators
      <4>2. node[n].kind \notin {"detailed", "link", "linkMulti", "wrapMulti", "multi"}
        BY <3>4
      <4>3. KindOK(node[n])
        BY <1>1
      <4>4. Len(node[n].kids) = 1
        BY ONLY <4>1, <4>2, <4>3 DEF KindOK
      <4> QED BY <4>4
    <3>5. CASE kind # "wrap"
      BY <1>1, <3>1, <3>2, <3>3, <3>5 DEF KindOK, CollectKinds
    <3> QED BY <3>4, <3>5
  <2>2. node[n].kids \in Seq(1..(n - 1))
    BY Typing
  <2> PICK kids : kids = node[n].kids
    OBVIOUS
  <2>3. 1 \in DOMAIN kids
    BY <2>1, <2>2, LenProperties
  <2>4. kids[1] \in ToSet(kids)
    BY <2>3, Zenon DEF ToSet
  <2> QED BY <2>4
<1>5. CASE As(n, CodeMethod) # Nil
  <2>1. PICK k \in ToSet(node[n].kids) : As(k, CodeMethod) = As(n, CodeMethod)
    BY <1>3, <1>5
  <2>2. CodeAt(GetCode, k) = CodeAt(GetCode, n)
    BY <1>5, <2>1 DEF CodeAt
  <2> QED BY <1>2, <2>2
<1>6. CASE As(n, CodeMethod) = Nil /\ As(n, {"grpc"}) # Nil
  <2>1. PICK k \in ToSet(node[n].kids) : As(k, {"grpc"}) = As(n, {"grpc"})
    BY <1>3, <1>6
  <2>2. As(k, CodeMethod) = Nil
    BY <1>3, <1>6
  <2>3. CodeAt(GetCode, k) = CodeAt(GetCode, n)
    BY <1>6, <2>1, <2>2 DEF CodeAt
  <2> QED BY <1>2, <2>3
<1>7. CASE As(n, CodeMethod) = Nil /\ As(n, {"grpc"}) = Nil
  <2>1. \A k \in ToSet(node[n].kids) : As(k, CodeMethod) = Nil /\ As(k, {"grpc"}) = Nil
    BY <1>3, <1>7
  <2>2. PICK k \in ToSet(node[n].kids) :
            /\ Is(k, "deadline") = Is(n, "deadline")
            /\ ~Is(n, "deadline") => Is(k, "canceled") = Is(n, "canceled")
    <3>1. CASE As(n, {"deadline"}) # Nil
      BY <1>3, <3>1 DEF Is
    <3>2. CASE As(n, {"deadline"}) = Nil /\ As(n, {"canceled"}) # Nil
      <4>1. PICK k \in ToSet(node[n].kids) : As(k, {"canceled"}) = As(n, {"canceled"})
        BY <1>3, <3>2
      <4>2. As(k, {"deadline"}) = Nil
        BY <1>3, <3>2
      <4> QED BY <3>2, <4>1, <4>2 DEF Is
    <3>3. CASE As(n, {"deadline"}) = Nil /\ As(n, {"canceled"}) = Nil
      <4>1. As(any, {"deadline"}) = Nil /\ As(any, {"canceled"}) = Nil
        BY <1>3, <1>4, <3>3
      <4> QED BY <1>4, <3>3, <4>1 DEF Is
    <3> QED BY <3>1, <3>2, <3>3
  <2>3. CodeAt(GetCode, k) = CodeAt(GetCode, n)
    BY <1>7, <2>1, <2>2 DEF CodeAt
  <2> QED BY <1>2, <2>3
<1> QED BY <1>5, <1>6, <1>7

AsReads ==
    \A n \in Ids : \A kinds :
        \/ \E i : FirstAt(n, i, kinds) /\ As(n, kinds) = node[n].order[i]
        \/ NoneOf(n, kinds) /\ As(n, kinds) = Nil

LEMMA AsReadsNext == TreeIInv' => AsReads'
<1>1. TreeIInv => AsReads
  BY AsFirst DEF AsReads
<1> QED BY <1>1, PTL

(* The errors that exist stay as they are. *)
Grows == Len(node) <= Len(node') /\ \A n \in Ids : node'[n] = node[n]

LEMMA AsKept ==
    ASSUME TreeIInv, TreeIInv', Grows, NEW n \in Ids, NEW kinds
    PROVE  As(n, kinds)' = As(n, kinds)
<1> DEFINE order == node[n].order
<1>1. node'[n] = node[n] /\ \A i \in 1..Len(order) : node'[order[i]] = node[order[i]]
  <2>1. \A i \in 1..Len(order) : order[i] \in Ids
    BY OrderTop, Typing
  <2> QED BY <2>1 DEF Grows
<1>2. n \in Ids'
  <2>1. Len(node) \in Nat /\ Len(node') \in Nat /\ n \in 1..Len(node)
    BY Typing, LenProperties DEF TreeIInv
  <2> QED BY <2>1 DEF Ids, Grows
<1>3. CASE \E i : FirstAt(n, i, kinds)' /\ As(n, kinds)' = node'[n].order[i]
  <2>1. PICK i : FirstAt(n, i, kinds)' /\ As(n, kinds)' = node'[n].order[i]
    BY <1>3
  <2>2. FirstAt(n, i, kinds)
    <3>1. /\ i \in 1..Len(order) /\ node'[order[i]].kind \in kinds
          /\ \A j \in 1..(i - 1) : node'[order[j]].kind \notin kinds
      BY <1>1, <2>1 DEF FirstAt
    <3>2. \A j \in 1..(i - 1) : j \in 1..Len(order)
      BY <3>1, OrderTop
    <3> QED BY <1>1, <3>1, <3>2 DEF FirstAt
  <2> QED BY <1>1, <2>1, <2>2, FirstUnique
<1>4. CASE NoneOf(n, kinds)' /\ As(n, kinds)' = Nil
  <2>1. NoneOf(n, kinds)
    BY <1>1, <1>4 DEF NoneOf
  <2> QED BY <1>4, <2>1, FirstUnique
<1>5. AsReads'
  BY AsReadsNext
<1> QED BY <1>2, <1>3, <1>4, <1>5 DEF AsReads

CodesRead == \A e \in 0..Len(node) : GetCode[e] = CodeAt(GetCode, e)
LEMMA CodesReadNext == TreeIInv' => CodesRead'
<1>1. TreeIInv => CodesRead
  BY CodeSteps DEF CodesRead
<1> QED BY <1>1, PTL

(* Nothing changes of what is read from the errors that exist. *)
LEMMA ReadKept ==
    ASSUME TreeIInv, TreeIInv', Grows, NEW n \in Ids
    PROVE  GetCode'[n] = GetCode[n] /\ (Marked(n)' <=> Marked(n))
<1> DEFINE N == Len(node)
           T == {k \in 1..N : GetCode'[k] = GetCode[k]}
<1>1. N \in Nat /\ 1 \in Nat /\ Ids = 1..N /\ \A k \in Ids : k \in 0..Len(node) /\ k \in 0..Len(node')
  <2>1. Len(node) <= Len(node') /\ Len(node') \in Nat /\ Len(node) \in Nat /\ Ids = 1..Len(node)
    BY Typing, LenProperties DEF Grows, TreeIInv
  <2> QED BY <2>1
<1>2. CodesRead'
  BY CodesReadNext
<1>3. \A k \in Ids : node'[k] = node[k]
  BY DEF Grows
<1>4. ASSUME NEW k \in 1..N, \A i \in 1..(k - 1) : i \in T PROVE k \in T
  <2> DEFINE coded == As(k, CodeMethod)
             grpc == As(k, {"grpc"})
  <2>1. k \in Ids /\ k \in 0..Len(node) /\ k \in 0..Len(node')
    BY <1>1
  <2>2. /\ As(k, CodeMethod)' = coded /\ As(k, {"grpc"})' = grpc
        /\ As(k, {"deadline"})' = As(k, {"deadline"})
        /\ As(k, {"canceled"})' = As(k, {"canceled"})
    BY <2>1, AsKept
  <2>3. GetCode[k] = CodeAt(GetCode, k)
    BY <2>1, CodeSteps
  <2>4. GetCode'[k] = CodeAt(GetCode, k)'
    BY <1>2, <2>1 DEF CodesRead
  <2>5. CASE coded # Nil
    <3>1. coded \in Ids
          /\ (Inherits(node[coded]) =>
                node[coded].kids[1] \in 1..(coded - 1) /\ coded \in 1..k)
      BY <2>1, <2>5, CodeCalls
    <3>2. node'[coded] = node[coded]
      BY <1>3, <3>1
    <3>3. Inherits(node[coded]) => GetCode'[node[coded].kids[1]] = GetCode[node[coded].kids[1]]
      <4> SUFFICES ASSUME Inherits(node[coded])
                   PROVE  GetCode'[node[coded].kids[1]] = GetCode[node[coded].kids[1]]
        OBVIOUS
      <4>1. node[coded].kids[1] \in 1..(k - 1)
        BY <3>1
      <4>2. node[coded].kids[1] \in T
        BY <1>4, <4>1
      <4> QED BY <4>2
    <3> HIDE DEF coded, grpc
    <3>4. GetCode[k] = IF Inherits(node[coded]) THEN GetCode[node[coded].kids[1]]
                       ELSE node[coded].code
      BY <2>3, <2>5 DEF CodeAt, coded
    <3>5. GetCode'[k] = IF Inherits(node'[coded]) THEN GetCode'[node'[coded].kids[1]]
                        ELSE node'[coded].code
      BY <2>2, <2>4, <2>5 DEF CodeAt
    <3>6. GetCode'[k] = GetCode[k]
      BY <3>2, <3>3, <3>4, <3>5
    <3> QED BY <3>6
  <2>6. CASE coded = Nil /\ grpc # Nil
    <3>1. grpc \in Ids
      <4>1. grpc \in 1..k
        BY <2>1, <2>6, AsFound
      <4> QED BY <1>1, <4>1
    <3>2. node'[grpc] = node[grpc]
      BY <1>3, <3>1
    <3> HIDE DEF coded, grpc
    <3>3. GetCode[k] = CodeFromGRPC(node[grpc].code)
      BY <2>3, <2>6 DEF CodeAt, coded, grpc
    <3>4. GetCode'[k] = CodeFromGRPC(node'[grpc].code)
      BY <2>2, <2>4, <2>6 DEF CodeAt
    <3> QED BY <3>2, <3>3, <3>4
  <2>7. CASE coded = Nil /\ grpc = Nil
    <3> HIDE DEF coded, grpc
    <3>1. GetCode[k] = IF Is(k, "deadline") THEN Code.DeadlineExceeded
                       ELSE IF Is(k, "canceled") THEN Code.Canceled ELSE Code.NoCode
      BY <2>3, <2>7 DEF CodeAt, coded, grpc
    <3>2. GetCode'[k] = IF Is(k, "deadline")' THEN Code.DeadlineExceeded
                        ELSE IF Is(k, "canceled")' THEN Code.Canceled ELSE Code.NoCode
      BY <2>2, <2>4, <2>7 DEF CodeAt
    <3>3. (Is(k, "deadline")' <=> Is(k, "deadline")) /\ (Is(k, "canceled")' <=> Is(k, "canceled"))
      BY <2>2 DEF Is
    <3> QED BY <3>1, <3>2, <3>3
  <2> QED BY <2>5, <2>6, <2>7
<1> HIDE DEF T
<1>5. 1..N \subseteq T
  <2> HIDE DEF N
  <2> QED BY <1>1, <1>4, IntervalInduction
<1>6. GetCode'[n] = GetCode[n]
  BY <1>1, <1>5 DEF T
<1>7. As(n, {"transient"})' = As(n, {"transient"})
  BY AsKept
<1> QED BY <1>6, <1>7 DEF Marked, Is

LEMMA PlaceGrows ==
    ASSUME TreeIInv, NEW e, Makeable(e), Place(e)
    PROVE  TreeIInv' /\ Grows
<1>1. Len(node') = Len(node) + 1 /\ Len(node) \in Nat /\ \A n \in Ids : node'[n] = node[n]
  BY PlaceFacts, Typing
<1> QED BY <1>1, PlaceKeeps DEF Grows

LEMMA SameGrows ==
    ASSUME TreeIInv, UNCHANGED node
    PROVE  TreeIInv' /\ Ids' = Ids /\ Grows
<1>1. TreeIInv'
  BY ZenonT(30) DEF TreeIInv, TypeOK, OrderOK, KindOK, CodeOK, KidOrders, AsKids, Ids
<1>2. Len(node) \in Nat
  BY Typing
<1> QED BY <1>1, <1>2 DEF Grows, Ids

-----------------------------------------------------------------------------
(* Walks. *)

Visit == [err : Ids, from : Ids \cup {Nil}]
Block(g, k, e) == <<[err |-> k, from |-> e]>> \o g[k]
Blocks(g, e) == [i \in 1..Len(node[e].kids) |-> Block(g, node[e].kids[i], e)]

LEMMA KidsFacts ==
    ASSUME TreeIInv, NEW e \in Ids
    PROVE  /\ Len(node[e].kids) \in Nat
           /\ \A i \in 1..Len(node[e].kids) :
                 node[e].kids[i] \in 1..(e - 1) /\ node[e].kids[i] \in Ids
<1> DEFINE kids == node[e].kids
<1>1. kids \in Seq(1..(e - 1)) /\ 1..(e - 1) \subseteq Ids
  BY Typing
<1> HIDE DEF kids
<1>2. Len(kids) \in Nat /\ \A i \in 1..Len(kids) : kids[i] \in 1..(e - 1)
  BY <1>1, LenProperties, ElementOfSeq
<1> QED BY <1>1, <1>2 DEF kids

LEMMA FieldKid ==
    ASSUME TreeIInv, NEW e \in Ids, node[e].kind = "field"
    PROVE  /\ Len(node[e].kids) = 1
           /\ node[e].kids[1] \in 1..(e - 1) /\ node[e].kids[1] \in Ids
<1>1. Len(node[e].kids) = 1
  <2>1. KindOK(node[e]) /\ node[e].kind \in Decorators /\ node[e].kind \notin Leaves
    BY SentinelsAssumption DEF TreeIInv, TypeOK, Decorators, Leaves, Kinds
  <2>2. node[e].kind \notin {"detailed", "link", "linkMulti", "wrapMulti", "multi"}
    OBVIOUS
  <2> QED BY <2>1, <2>2 DEF KindOK
<1> QED BY <1>1, KidsFacts

LEMMA TopVisit ==
    ASSUME NEW k \in Ids, NEW x \in Ids \cup {Nil}
    PROVE  LET s == <<[err |-> k, from |-> x]>> IN
           s \in Seq(Visit) /\ Len(s) = 1 /\ s[1] = [err |-> k, from |-> x]
<1> DEFINE m == [err |-> k, from |-> x]
<1>1. m \in Visit
  BY DEF Visit
<1> HIDE DEF m
<1>2. <<m>> \in Seq(Visit) /\ Len(<<m>>) = 1 /\ <<m>>[1] = m
  BY <1>1
<1> QED BY <1>2 DEF m

LEMMA BlocksSeq ==
    ASSUME TreeIInv, NEW e \in Ids, NEW g, \A k \in 1..(e - 1) : g[k] \in Seq(Visit)
    PROVE  /\ Blocks(g, e) \in Seq(Seq(Visit)) /\ Len(Blocks(g, e)) = Len(node[e].kids)
           /\ \A i \in 1..Len(node[e].kids) : Blocks(g, e)[i] = Block(g, node[e].kids[i], e)
           /\ FlattenSeq(Blocks(g, e)) \in Seq(Visit)
<1> DEFINE kids == node[e].kids
           N == Len(kids)
<1>1. N \in Nat /\ \A i \in 1..N : kids[i] \in 1..(e - 1) /\ kids[i] \in Ids
  BY KidsFacts
<1>2. ASSUME NEW i \in 1..N PROVE Block(g, kids[i], e) \in Seq(Visit)
  <2> DEFINE top == <<[err |-> kids[i], from |-> e]>>
             rest == g[kids[i]]
  <2>1. top \in Seq(Visit)
    BY <1>1, TopVisit
  <2>2. rest \in Seq(Visit)
    BY <1>1
  <2> HIDE DEF top, rest
  <2>3. top \o rest \in Seq(Visit)
    BY <2>1, <2>2, ConcatProperties
  <2> QED BY <2>3 DEF Block, top, rest
<1>3. Blocks(g, e) = [i \in 1..N |-> Block(g, kids[i], e)]
  BY DEF Blocks
<1> HIDE DEF kids, N
<1>4. Blocks(g, e) \in [1..N -> Seq(Visit)]
  BY <1>2, <1>3
<1>5. Blocks(g, e) \in Seq(Seq(Visit))
  BY <1>1, <1>4, SeqDef
<1>6. Len(Blocks(g, e)) = N
  BY <1>1, <1>4, <1>5, LenProperties
<1>7. FlattenSeq(Blocks(g, e)) \in Seq(Visit)
  BY <1>5, Flatten
<1> QED BY <1>3, <1>5, <1>6, <1>7 DEF kids, N

(* What walk reads of an error is what it reads of its children, in order. *)
LEMMA WalkSteps ==
    ASSUME TreeIInv
    PROVE  \A e \in Ids : walk[e] = FlattenSeq(Blocks(walk, e))
<1> DEFINE N == Len(node)
           Tables == [1..N -> Seq(Visit)]
           At(g, e) == FlattenSeq(Blocks(g, e))
           Fn(g) == [e \in Ids |-> At(g, e)]
           walked == CHOOSE g : g = Fn(g)
           d == [e \in 1..N |-> [f \in Tables |-> At(f, e)]]
<1>1. N \in Nat /\ 1 \in Nat /\ Ids = 1..N
  BY Typing
<1>2. ASSUME NEW e \in 1..N, NEW f \in Tables PROVE At(f, e) \in Seq(Visit)
  <2>1. \A k \in 1..(e - 1) : f[k] \in Seq(Visit)
    <3>1. 1..(e - 1) \subseteq 1..N
      BY <1>1
    <3> HIDE DEF N
    <3> QED BY <3>1
  <2> QED BY <1>1, <2>1, BlocksSeq
<1>3. ASSUME NEW e \in 1..N, NEW f, NEW g, \A i \in 1..(e - 1) : f[i] = g[i]
      PROVE  At(f, e) = At(g, e)
  <2>1. \A i \in 1..Len(node[e].kids) : Block(f, node[e].kids[i], e) = Block(g, node[e].kids[i], e)
    BY <1>1, <1>3, KidsFacts DEF Block
  <2>2. Blocks(f, e) = Blocks(g, e)
    BY <2>1 DEF Blocks
  <2> QED BY <2>2
<1>4. \E g : g = Fn(g)
  <2> HIDE DEF At
  <2>1. d \in [1..N -> [Tables -> Seq(Visit)]]
    BY <1>2
  <2>2. \A e \in 1..N : \A f \in Tables : d[e][f] = At(f, e)
    OBVIOUS
  <2>3. \A e \in 1..N : \A f, g \in Tables :
            (\A i \in 1..(e - 1) : f[i] = g[i]) => d[e][f] = d[e][g]
    <3> SUFFICES ASSUME NEW e \in 1..N, NEW f \in Tables, NEW g \in Tables,
                        \A i \in 1..(e - 1) : f[i] = g[i]
                 PROVE  d[e][f] = d[e][g]
      OBVIOUS
    <3>1. At(f, e) = At(g, e)
      BY <1>3
    <3> HIDE DEF d, N, Tables
    <3> QED BY <2>2, <3>1
  <2> DEFINE S == Seq(Visit)
             c == <<>>
             a == 1
  <2> HIDE DEF d, S, c, a
  <2>4. c \in S
    BY EmptySeq DEF c, S
  <2>5. N \in Nat /\ a \in Nat /\ c \in S /\ ReadsBelow(d, a, N, S)
    BY <1>1, <2>1, <2>3, <2>4 DEF S, a, ReadsBelow
  <2> HIDE DEF N
  <2>6. \E g \in [a..N -> S] : \A e \in a..N : g[e] = d[e][g]
    BY ONLY <2>5, TableFunction
  <2>7. PICK g \in Tables : \A e \in 1..N : g[e] = d[e][g]
    BY <2>6 DEF S, a
  <2>8. \A e \in 1..N : g[e] = At(g, e)
    BY <2>2, <2>7
  <2>9. g = Fn(g)
    BY <1>1, <2>7, <2>8
  <2> QED BY <2>9
<1>5. walked = Fn(walked)
  <2> HIDE DEF Fn
  <2> QED BY <1>4, Zenon
<1>6. walk = walked
  BY Zenon DEF walk, Blocks, Block
<1> HIDE DEF walked
<1>7. \A e \in Ids : walked[e] = At(walked, e)
  BY <1>5
<1> QED BY <1>6, <1>7

(* What stands next to each other in a walk: a field error stands right before the
   error it holds, and an error that a field error holds right after that. *)
Next2(m, n) ==
    /\ node[m.err].kind = "field" => n = [err |-> node[m.err].kids[1], from |-> m.err]
    /\ n.from # Nil /\ node[n.from].kind = "field" => m.err = n.from
Chain(w) == \A i \in 1..(Len(w) - 1) : Next2(w[i], w[i + 1])
LastErr(w) == w[Len(w)].err

LEMMA ChainJoin ==
    ASSUME NEW u \in Seq(Visit), NEW b \in Seq(Visit), Len(u) >= 1, Len(b) >= 1,
           Chain(u), Chain(b), Next2(u[Len(u)], b[1])
    PROVE  /\ u \o b \in Seq(Visit) /\ Len(u \o b) = Len(u) + Len(b) /\ Len(u \o b) >= 1
           /\ (u \o b)[1] = u[1] /\ LastErr(u \o b) = LastErr(b) /\ Chain(u \o b)
<1> DEFINE w == u \o b
           p == Len(u)
           q == Len(b)
<1>1. p \in Nat /\ q \in Nat /\ p >= 1 /\ q >= 1
  BY LenProperties
<1>2. w \in Seq(Visit) /\ Len(w) = p + q
  BY ConcatProperties
<1>10. \A i \in 1..(p + q) : w[i] = IF i <= p THEN u[i] ELSE b[i - p]
  BY ConcatProperties
<1>3. \A i \in 1..(p - 1) : Next2(u[i], u[i + 1])
  BY DEF Chain
<1>4. \A i \in 1..(q - 1) : Next2(b[i], b[i + 1])
  BY DEF Chain
<1>5. Next2(u[p], b[1])
  OBVIOUS
<1> HIDE DEF w, p, q
<1>6. ASSUME NEW i \in 1..(p + q - 1) PROVE Next2(w[i], w[i + 1])
  <2>1. i \in 1..(p + q) /\ i + 1 \in 1..(p + q)
    BY <1>1
  <2>2. CASE i < p
    <3>1. i <= p /\ i + 1 <= p /\ i \in 1..(p - 1)
      BY <1>1, <2>2
    <3>2. w[i] = u[i] /\ w[i + 1] = u[i + 1]
      BY <1>10, <2>1, <3>1
    <3> QED BY <1>3, <3>1, <3>2
  <2>3. CASE i = p
    <3>1. i <= p /\ ~(i + 1 <= p) /\ i + 1 - p = 1
      BY <1>1, <2>3
    <3>2. w[i] = u[p] /\ w[i + 1] = b[1]
      BY <1>10, <2>1, <2>3, <3>1
    <3> QED BY <1>5, <3>2
  <2>4. CASE i > p
    <3> DEFINE j == i - p
    <3>1. ~(i <= p) /\ ~(i + 1 <= p) /\ i + 1 - p = j + 1 /\ j \in 1..(q - 1)
      BY <1>1, <2>4
    <3>2. w[i] = b[i - p]
      BY <1>10, <2>1, <3>1
    <3>3. w[i + 1] = b[i + 1 - p]
      <4> DEFINE k == i + 1
      <4>1. k \in 1..(p + q) /\ ~(k <= p) /\ k - p = i + 1 - p
        BY <1>1, <2>1, <3>1
      <4> HIDE DEF k
      <4>2. w[k] = b[k - p]
        BY <1>10, <4>1
      <4> QED BY <4>1, <4>2 DEF k
    <3>4. Next2(b[j], b[j + 1])
      BY <1>4, <3>1
    <3> QED BY <3>1, <3>2, <3>3, <3>4
  <2> QED BY <1>1, <2>2, <2>3, <2>4
<1>7. Chain(w)
  <2>1. Len(w) - 1 = p + q - 1
    BY <1>1, <1>2
  <2> QED BY <1>6, <2>1 DEF Chain
<1>8. w[1] = u[1] /\ w[p + q] = b[q]
  <2>1. 1 \in 1..(p + q) /\ 1 <= p /\ p + q \in 1..(p + q) /\ ~(p + q <= p) /\ p + q - p = q
    BY <1>1
  <2>2. w[1] = u[1]
    BY <1>10, <2>1
  <2>3. w[p + q] = b[p + q - p]
    <3> DEFINE k == p + q
    <3>1. k \in 1..(p + q) /\ ~(k <= p) /\ k - p = p + q - p
      BY <1>1, <2>1
    <3> HIDE DEF k
    <3>2. w[k] = b[k - p]
      BY <1>10, <3>1
    <3> QED BY <3>1, <3>2 DEF k
  <2> QED BY <2>1, <2>2, <2>3
<1>9. LastErr(w) = LastErr(b)
  BY <1>2, <1>8 DEF LastErr, q
<1> QED BY <1>1, <1>2, <1>7, <1>8, <1>9 DEF w, p, q

(* A walk ends with an error that is no field error, as a field error holds one. *)
Walked(w) ==
    w \in Seq(Visit) /\ Len(w) >= 1 /\ Chain(w) /\ node[LastErr(w)].kind # "field"

(* The walk of e, wherever it was come from. *)
WalkOK(e) == \A x \in Ids \cup {Nil} : Walked(Block(walk, e, x))
BlockTop(e) == \A x \in Ids \cup {Nil} : Block(walk, e, x)[1] = [err |-> e, from |-> x]

LEMMA BlockTops ==
    ASSUME NEW e \in Ids, walk[e] \in Seq(Visit)
    PROVE  BlockTop(e)
<1> SUFFICES ASSUME NEW x \in Ids \cup {Nil}
             PROVE  Block(walk, e, x)[1] = [err |-> e, from |-> x]
  BY DEF BlockTop
<1> DEFINE m == [err |-> e, from |-> x]
           top == <<m>>
           rest == walk[e]
<1>1. top \in Seq(Visit) /\ Len(top) = 1 /\ top[1] = m
  BY TopVisit
<1>2. rest \in Seq(Visit) /\ Len(rest) \in Nat
  BY LenProperties
<1> HIDE DEF m, top, rest
<1>3. (top \o rest)[1] = top[1]
  <2>1. \A i \in 1..(Len(top) + Len(rest)) :
            (top \o rest)[i] = IF i <= Len(top) THEN top[i] ELSE rest[i - Len(top)]
    BY <1>1, <1>2, ConcatProperties
  <2>2. 1 \in 1..(Len(top) + Len(rest)) /\ 1 <= Len(top)
    BY <1>1, <1>2
  <2> QED BY <2>1, <2>2
<1> QED BY <1>1, <1>3 DEF Block, m, top, rest

LEMMA FieldWalk ==
    ASSUME TreeIInv, NEW e \in Ids, node[e].kind = "field", walk[e] \in Seq(Visit),
           \A k \in 1..(e - 1) : walk[k] \in Seq(Visit) /\ WalkOK(k)
    PROVE  WalkOK(e)
<1> DEFINE kid == node[e].kids[1]
           b == Block(walk, kid, e)
<1>1. Len(node[e].kids) = 1
  BY FieldKid
<1>2. kid \in 1..(e - 1) /\ kid \in Ids
  BY FieldKid
<1>3. Walked(b) /\ b[1] = [err |-> kid, from |-> e]
  BY <1>2, BlockTops DEF WalkOK, BlockTop
<1>4. walk[e] = b
  <2>1. /\ Blocks(walk, e) \in Seq(Seq(Visit)) /\ Len(Blocks(walk, e)) = 1
        /\ Blocks(walk, e)[1] = b
    BY <1>1, BlocksSeq
  <2>2. FlattenSeq(Blocks(walk, e)) = Blocks(walk, e)[1]
    BY <2>1, Flatten
  <2> QED BY <2>1, <2>2, WalkSteps
<1> HIDE DEF b
<1>5. ASSUME NEW x \in Ids \cup {Nil} PROVE Walked(Block(walk, e, x))
  <2> DEFINE m == [err |-> e, from |-> x]
             top == <<m>>
  <2>1. top \in Seq(Visit) /\ Len(top) = 1 /\ top[1] = m
    BY TopVisit
  <2>2. m.err = e
    OBVIOUS
  <2>3. Next2(m, [err |-> kid, from |-> e])
    BY <2>2 DEF Next2
  <2>4. Block(walk, e, x) = top \o b
    BY <1>4 DEF Block
  <2> HIDE DEF m, top
  <2>5. Chain(top)
    BY <2>1 DEF Chain
  <2>6. Next2(top[Len(top)], b[1])
    BY <1>3, <2>1, <2>3
  <2>7. /\ top \o b \in Seq(Visit) /\ Len(top \o b) >= 1
        /\ LastErr(top \o b) = LastErr(b) /\ Chain(top \o b)
    BY <1>3, <2>1, <2>5, <2>6, ChainJoin DEF Walked
  <2> QED BY <1>3, <2>4, <2>7 DEF Walked
<1> QED BY <1>5 DEF WalkOK

LEMMA OtherWalk ==
    ASSUME TreeIInv, NEW e \in Ids, node[e].kind # "field",
           \A k \in 1..(e - 1) : walk[k] \in Seq(Visit) /\ WalkOK(k)
    PROVE  WalkOK(e)
<1> DEFINE ss == Blocks(walk, e)
           N == Len(ss)
<1>1. /\ ss \in Seq(Seq(Visit)) /\ N \in Nat /\ N = Len(node[e].kids)
      /\ \A i \in 1..N : ss[i] = Block(walk, node[e].kids[i], e)
      /\ walk[e] = FlattenSeq(ss)
  BY BlocksSeq, KidsFacts, WalkSteps
<1>2. ASSUME NEW i \in 1..N PROVE Walked(ss[i]) /\ ss[i][1].from = e
  <2> DEFINE k == node[e].kids[i]
  <2>1. k \in 1..(e - 1) /\ k \in Ids
    BY <1>1, KidsFacts
  <2>2. Block(walk, k, e)[1] = [err |-> k, from |-> e]
    BY <2>1, BlockTops DEF BlockTop
  <2> HIDE DEF k, ss
  <2> QED BY <1>1, <2>1, <2>2 DEF WalkOK, k
<1> HIDE DEF ss
<1>3. ASSUME NEW x \in Ids \cup {Nil} PROVE Walked(Block(walk, e, x))
  <2> DEFINE m == [err |-> e, from |-> x]
             top == <<m>>
  <2>1. top \in Seq(Visit) /\ Len(top) = 1 /\ top[1] = m
    BY TopVisit
  <2>2. m.err = e
    OBVIOUS
  <2>3. Block(walk, e, x) = top \o FlattenSeq(ss)
    BY <1>1 DEF Block
  <2> HIDE DEF m, top
  <2>4. Walked(top)
    <3>1. Chain(top)
      BY <2>1 DEF Chain
    <3>2. LastErr(top) = e
      BY <2>1, <2>2 DEF LastErr
    <3> QED BY <2>1, <3>1, <3>2 DEF Walked
  <2>5. CASE N = 0
    <3>1. ss = <<>> /\ FlattenSeq(ss) = <<>>
      BY <1>1, <2>5, EmptySeq DEF FlattenSeq
    <3>2. top \o <<>> = top
      BY <2>1, ConcatEmptySeq
    <3> QED BY <2>3, <2>4, <3>1, <3>2
  <2>6. CASE N # 0
    <3>1. PICK flat : /\ flat[1] = ss[1]
                      /\ \A k \in 2..N : flat[k] = flat[k - 1] \o ss[k]
                      /\ FlattenSeq(ss) = flat[N]
      BY <1>1, <2>6, FlattenSteps
    <3> DEFINE Good(k) == flat[k] \in Seq(Visit) /\ Walked(top \o flat[k])
               T == {k \in 1..N : Good(k)}
    <3>2. ASSUME NEW u, NEW i \in 1..N, Walked(u)
          PROVE  Walked(u \o ss[i])
      <4> DEFINE b == ss[i]
      <4>1. Walked(b) /\ b[1].from = e
        BY <1>2
      <4> HIDE DEF b
      <4>2. Next2(u[Len(u)], b[1])
        BY <3>2, <4>1 DEF Next2, Walked, LastErr
      <4>3. /\ u \o b \in Seq(Visit) /\ Len(u \o b) >= 1
            /\ LastErr(u \o b) = LastErr(b) /\ Chain(u \o b)
        BY <3>2, <4>1, <4>2, ChainJoin DEF Walked
      <4>4. Walked(u \o b)
        BY <4>1, <4>3 DEF Walked
      <4> QED BY <4>4 DEF b
    <3>3. ASSUME NEW k \in 1..N, \A j \in 1..(k - 1) : j \in T PROVE k \in T
      <4>1. ss[k] \in Seq(Visit)
        BY <1>2 DEF Walked
      <4>2. CASE k = 1
        BY <2>4, <3>1, <3>2, <4>1, <4>2
      <4>3. CASE k # 1
        <5> DEFINE f == flat[k - 1]
        <5>1. k \in 2..N /\ k - 1 \in 1..(k - 1)
          BY <1>1, <4>3
        <5>2. f \in Seq(Visit) /\ Walked(top \o f) /\ flat[k] = f \o ss[k]
          BY <3>1, <3>3, <5>1
        <5> HIDE DEF f
        <5>3. Walked((top \o f) \o ss[k])
          BY <3>2, <5>2
        <5>4. (top \o f) \o ss[k] = top \o (f \o ss[k])
          <6> DEFINE t == ss[k]
          <6>1. top \in Seq(Visit) /\ f \in Seq(Visit) /\ t \in Seq(Visit)
            BY <2>1, <4>1, <5>2
          <6> HIDE DEF t
          <6>2. (top \o f) \o t = top \o (f \o t)
            BY <6>1, ConcatAssociative, SMTT(30)
          <6> QED BY <6>2 DEF t
        <5>5. f \o ss[k] \in Seq(Visit)
          BY <4>1, <5>2, ConcatProperties
        <5> QED BY <5>2, <5>3, <5>4, <5>5
      <4> QED BY <4>2, <4>3
    <3>4. Good(N)
      <4> HIDE DEF Good
      <4>1. N \in Nat /\ 1 \in Nat /\ N \in 1..N
        BY <1>1, <2>6
      <4> HIDE DEF T, N
      <4>2. 1..N \subseteq T
        BY <3>3, <4>1, IntervalInduction
      <4> QED BY <4>1, <4>2 DEF T
    <3> QED BY <2>3, <3>1, <3>4
  <2> QED BY <2>5, <2>6
<1> QED BY <1>3 DEF WalkOK

LEMMA AllWalked ==
    ASSUME TreeIInv
    PROVE  \A e \in Ids : walk[e] \in Seq(Visit) /\ WalkOK(e)
<1> DEFINE N == Len(node)
           T == {e \in 1..N : walk[e] \in Seq(Visit) /\ WalkOK(e)}
<1>1. N \in Nat /\ 1 \in Nat /\ Ids = 1..N
  BY Typing
<1>2. ASSUME NEW e \in 1..N, \A k \in 1..(e - 1) : k \in T PROVE e \in T
  <2>1. e \in Ids
    BY <1>1
  <2>2. \A k \in 1..(e - 1) : walk[k] \in Seq(Visit) /\ WalkOK(k)
    BY <1>2
  <2>3. walk[e] \in Seq(Visit)
    BY <2>1, <2>2, BlocksSeq, WalkSteps
  <2>4. WalkOK(e)
    BY <2>1, <2>2, <2>3, FieldWalk, OtherWalk
  <2> QED BY <2>3, <2>4
<1> HIDE DEF T
<1>3. 1..N \subseteq T
  <2> HIDE DEF N
  <2> QED BY <1>1, <1>2, IntervalInduction
<1> QED BY <1>1, <1>3 DEF T

(* The walk of a tree: it starts with the error itself, and field errors stand
   right before the errors that they hold. *)
LEMMA WalkFacts ==
    ASSUME TreeIInv, NEW n \in Ids
    PROVE  Walked(Walk(n)) /\ Walk(n)[1] = [err |-> n, from |-> Nil]
<1>1. Walk(n) = Block(walk, n, Nil)
  BY DEF Walk, Block
<1> QED BY <1>1, AllWalked, BlockTops DEF WalkOK, BlockTop

-----------------------------------------------------------------------------
(* Runs of nested field errors. *)

NestedAt(g, e) == IF node[e].kind # "field" THEN <<>> ELSE <<e>> \o g[node[e].kids[1]]

LEMMA NestedSteps ==
    ASSUME TreeIInv
    PROVE  \A e \in Ids : Nested[e] = NestedAt(Nested, e)
<1> DEFINE N == Len(node)
           Tables == [1..N -> Seq(Nat)]
           Fn(g) == [e \in Ids |-> NestedAt(g, e)]
           nested == CHOOSE g : g = Fn(g)
           d == [e \in 1..N |-> [f \in Tables |-> NestedAt(f, e)]]
<1>1. N \in Nat /\ 1 \in Nat /\ Ids = 1..N
  BY Typing
<1>2. ASSUME NEW e \in 1..N, NEW f \in Tables PROVE NestedAt(f, e) \in Seq(Nat)
  <2>1. CASE node[e].kind # "field"
    BY <2>1, EmptySeq DEF NestedAt
  <2>2. CASE node[e].kind = "field"
    <3>1. node[e].kids[1] \in 1..N
      BY <1>1, <2>2, FieldKid
    <3> DEFINE s == <<e>>
               t == f[node[e].kids[1]]
    <3>2. s \in Seq(Nat) /\ t \in Seq(Nat)
      BY <1>1, <3>1
    <3>3. NestedAt(f, e) = s \o t
      BY <2>2 DEF NestedAt
    <3> HIDE DEF s, t
    <3> QED BY <3>2, <3>3, ConcatProperties
  <2> QED BY <2>1, <2>2
<1>3. ASSUME NEW e \in 1..N, NEW f, NEW g, \A i \in 1..(e - 1) : f[i] = g[i]
      PROVE  NestedAt(f, e) = NestedAt(g, e)
  <2>1. node[e].kind = "field" => f[node[e].kids[1]] = g[node[e].kids[1]]
    BY <1>1, <1>3, FieldKid
  <2> QED BY <2>1 DEF NestedAt
<1>4. \E g : g = Fn(g)
  <2>1. d \in [1..N -> [Tables -> Seq(Nat)]]
    BY <1>2
  <2>2. \A e \in 1..N : \A f \in Tables : d[e][f] = NestedAt(f, e)
    OBVIOUS
  <2>3. \A e \in 1..N : \A f, g \in Tables :
            (\A i \in 1..(e - 1) : f[i] = g[i]) => d[e][f] = d[e][g]
    <3> SUFFICES ASSUME NEW e \in 1..N, NEW f \in Tables, NEW g \in Tables,
                        \A i \in 1..(e - 1) : f[i] = g[i]
                 PROVE  d[e][f] = d[e][g]
      OBVIOUS
    <3>1. NestedAt(f, e) = NestedAt(g, e)
      BY <1>3
    <3> HIDE DEF d, N, Tables
    <3> QED BY <2>2, <3>1
  <2> DEFINE S == Seq(Nat)
             c == <<>>
             a == 1
  <2> HIDE DEF d, S, c, a
  <2>4. c \in S
    BY EmptySeq DEF c, S
  <2>5. N \in Nat /\ a \in Nat /\ c \in S /\ ReadsBelow(d, a, N, S)
    BY <1>1, <2>1, <2>3, <2>4 DEF S, a, ReadsBelow
  <2> HIDE DEF N
  <2>6. \E g \in [a..N -> S] : \A e \in a..N : g[e] = d[e][g]
    BY ONLY <2>5, TableFunction
  <2>7. PICK g \in Tables : \A e \in 1..N : g[e] = d[e][g]
    BY <2>6 DEF S, a
  <2>8. \A e \in 1..N : g[e] = NestedAt(g, e)
    BY <2>2, <2>7
  <2>9. g = Fn(g)
    BY <1>1, <2>7, <2>8
  <2> QED BY <2>9
<1>5. nested = Fn(nested)
  <2> HIDE DEF Fn
  <2> QED BY <1>4, Zenon
<1>6. Nested = nested
  BY Zenon DEF Nested, NestedAt
<1> HIDE DEF nested
<1>7. \A e \in Ids : nested[e] = NestedAt(nested, e)
  BY <1>5
<1> QED BY <1>6, <1>7

(* How long the run is that e starts. *)
RunLength(e) == Len(Nested[e])
RunOK(e) ==
    /\ Nested[e] \in Seq(Nat) /\ RunLength(e) \in Nat
    /\ RunLength(e) = IF node[e].kind # "field" THEN 0 ELSE 1 + RunLength(node[e].kids[1])

LEMMA Runs ==
    ASSUME TreeIInv
    PROVE  \A e \in Ids : RunOK(e)
<1> DEFINE N == Len(node)
           T == {e \in 1..N : RunOK(e)}
<1>1. N \in Nat /\ 1 \in Nat /\ Ids = 1..N
  BY Typing
<1>2. ASSUME NEW e \in 1..N, \A k \in 1..(e - 1) : k \in T PROVE e \in T
  <2>1. e \in Ids /\ Nested[e] = NestedAt(Nested, e)
    BY <1>1, NestedSteps
  <2>2. CASE node[e].kind # "field"
    <3>1. Nested[e] = <<>>
      BY <2>1, <2>2 DEF NestedAt
    <3>2. Nested[e] \in Seq(Nat) /\ RunLength(e) = 0
      BY <3>1, EmptySeq DEF RunLength
    <3>3. RunOK(e)
      BY <2>2, <3>2 DEF RunOK
    <3> QED BY <3>3
  <2>3. CASE node[e].kind = "field"
    <3> DEFINE kid == node[e].kids[1]
               s == <<e>>
               t == Nested[kid]
    <3>1. RunOK(kid)
      BY <1>2, <2>1, <2>3, FieldKid
    <3>2. s \in Seq(Nat) /\ Len(s) = 1 /\ t \in Seq(Nat) /\ Len(t) \in Nat
      <4>1. t \in Seq(Nat) /\ RunLength(kid) \in Nat
        BY <3>1 DEF RunOK
      <4>2. e \in Nat
        BY <1>1
      <4>3. s \in Seq(Nat) /\ Len(s) = 1
        BY <4>2
      <4> QED BY <4>1, <4>3 DEF RunLength
    <3>3. Nested[e] = s \o t
      BY <2>1, <2>3 DEF NestedAt
    <3>4. RunLength(kid) = Len(t)
      BY DEF RunLength
    <3> HIDE DEF s, t, kid
    <3>5. Nested[e] \in Seq(Nat) /\ RunLength(e) = 1 + Len(t)
      <4>1. s \o t \in Seq(Nat) /\ Len(s \o t) = Len(s) + Len(t)
        BY <3>2, ConcatProperties
      <4>2. RunLength(e) = Len(s \o t)
        BY <3>3 DEF RunLength
      <4> QED BY <3>2, <3>3, <4>1, <4>2
    <3>6. RunOK(e)
      BY <2>3, <3>2, <3>4, <3>5 DEF RunOK, kid
    <3> QED BY <3>6
  <2> QED BY <2>2, <2>3
<1> HIDE DEF T
<1>3. 1..N \subseteq T
  <2> HIDE DEF N
  <2> QED BY <1>1, <1>2, IntervalInduction
<1> QED BY <1>1, <1>3 DEF T

-----------------------------------------------------------------------------
(* The loop of GetFieldErrors. *)

Rounds == [skip : Nat, found : Seq(Seq(Nat))]

(* A round keeps the shape of what the loop has. *)
LEMMA RoundShape ==
    ASSUME TreeIInv, NEW acc \in Rounds, NEW m \in Visit
    PROVE  FieldErrorStep(acc, m) \in Rounds
<1> DEFINE run == Nested[m.err]
<1>1. m.err \in Ids /\ acc.skip \in Nat /\ acc.found \in Seq(Seq(Nat))
  BY DEF Visit, Rounds
<1>2. RunOK(m.err) /\ RunLength(m.err) = Len(run)
  BY <1>1, Runs DEF RunLength
<1>3. CASE node[m.err].kind # "field"
  BY <1>3 DEF FieldErrorStep
<1>4. CASE node[m.err].kind = "field" /\ acc.skip > 0
  <2>1. acc.skip - 1 \in Nat
    BY <1>1, <1>4
  <2>2. [acc EXCEPT !.skip = @ - 1] \in Rounds
    BY <2>1 DEF Rounds
  <2> QED BY <1>4, <2>2 DEF FieldErrorStep
<1>5. CASE node[m.err].kind = "field" /\ ~(acc.skip > 0)
  <2>1. run \in Seq(Nat) /\ Len(run) \in Nat /\ Len(run) >= 1
    <3>1. RunOK(node[m.err].kids[1])
      BY <1>1, <1>5, FieldKid, Runs
    <3>2. RunLength(m.err) = 1 + RunLength(node[m.err].kids[1])
      BY <1>2, <1>5 DEF RunOK
    <3>3. RunLength(node[m.err].kids[1]) \in Nat
      BY <3>1 DEF RunOK
    <3>4. run \in Seq(Nat)
      BY <1>2 DEF RunOK
    <3> HIDE DEF run
    <3> QED BY <1>2, <3>2, <3>3, <3>4
  <2> HIDE DEF run
  <2>2. acc.skip + Len(run) - 1 \in Nat
    BY <1>1, <2>1
  <2>3. Append(acc.found, run) \in Seq(Seq(Nat))
    BY <1>1, <2>1, AppendProperties
  <2>4. [skip |-> acc.skip + Len(run) - 1, found |-> Append(acc.found, run)] \in Rounds
    BY <2>2, <2>3 DEF Rounds
  <2> QED BY <1>5, <2>4 DEF FieldErrorStep, run
<1> QED BY <1>3, <1>4, <1>5

(* The loop over the walk w, round by round. *)
LEMMA LoopSteps ==
    ASSUME TreeIInv, NEW n \in Ids, NEW w \in Seq(Visit), w = Walk(n)
    PROVE  \E round : /\ GetFieldErrors(n) = round[Len(w)].found
                      /\ round[0] = [skip |-> 0, found |-> <<>>]
                      /\ \A i \in 1..Len(w) : round[i] = FieldErrorStep(round[i - 1], w[i])
<1> DEFINE N == Len(w)
           start == [skip |-> 0, found |-> <<>>]
           Fn(g) == [i \in 0..N |-> IF i = 0 THEN start ELSE FieldErrorStep(g[i - 1], w[i])]
           round == CHOOSE g : g = Fn(g)
           d == [i \in 1..N |-> [acc \in Rounds |-> FieldErrorStep(acc, w[i])]]
<1>1. N \in Nat /\ \A i \in 1..N : w[i] \in Visit
  BY LenProperties, ElementOfSeq
<1>2. \E g : g = Fn(g)
  <2>1. start \in Rounds
    <3>1. <<>> \in Seq(Seq(Nat))
      BY EmptySeq
    <3> QED BY <3>1 DEF Rounds
  <2>2. d \in [1..N -> [Rounds -> Rounds]]
    BY <1>1, RoundShape
  <2>3. \A i \in 1..N : \A acc \in Rounds : d[i][acc] = FieldErrorStep(acc, w[i])
    OBVIOUS
  <2> HIDE DEF d, start, N
  <2>4. PICK g \in [0..N -> Rounds] : g[0] = start /\ \A i \in 1..N : g[i] = d[i][g[i - 1]]
    <3> DEFINE S == Rounds c == start
    <3>1. N \in Nat /\ c \in S
      BY <1>1, <2>1
    <3>3. d \in [1..N -> [S -> S]]
      BY <2>2
    <3>4. IsStep(d, N, S)
      BY <3>3 DEF IsStep
    <3> HIDE DEF S, c, N
    <3>2. \E f \in [0..N -> S] : f[0] = c /\ \A k \in 1..N : f[k] = d[k][f[k - 1]]
      BY ONLY <3>1, <3>4, StepTable
    <3> QED BY <3>2 DEF S, c
  <2>5. ASSUME NEW i \in 0..N, i # 0 PROVE g[i] = FieldErrorStep(g[i - 1], w[i])
    <3>1. i \in 1..N /\ i - 1 \in 0..N
      BY <1>1, <2>5
    <3> QED BY <2>3, <2>4, <3>1
  <2>6. g = Fn(g)
    BY <2>4, <2>5
  <2> QED BY <2>6
<1>3. round = Fn(round)
  <2> HIDE DEF Fn
  <2> QED BY <1>2, Zenon
<1>4. GetFieldErrors(n) = round[N].found
  BY Zenon DEF GetFieldErrors
<1>5. /\ round[0] = start
      /\ \A i \in 1..N : round[i] = FieldErrorStep(round[i - 1], w[i])
  <2> HIDE DEF round
  <2>1. 0 \in 0..N /\ \A i \in 1..N : i \in 0..N /\ i # 0
    BY <1>1
  <2> QED BY <1>3, <2>1
<1> QED BY <1>4, <1>5

(* What is left of the run that e starts after e itself, and what a round adds. *)
Rest(e) == IF node[e].kind = "field" THEN RunLength(e) - 1 ELSE 0
Found(m) == IF StartsRun(m) THEN <<Nested[m.err]>> ELSE <<>>
FromField(m) == m.from # Nil /\ node[m.from].kind = "field"

(* A round that comes to an error right after the field error that holds it, or
   with no run open, adds the run the error starts and leaves the rest of it open. *)
LEMMA RoundStep ==
    ASSUME TreeIInv, NEW acc \in Rounds, NEW m \in Visit,
           FromField(m) => acc.skip = Rest(m.from) /\ m.err = node[m.from].kids[1],
           ~FromField(m) => acc.skip = 0
    PROVE  /\ FieldErrorStep(acc, m).skip = Rest(m.err)
           /\ FieldErrorStep(acc, m).found = acc.found \o Found(m)
<1> DEFINE run == Nested[m.err]
<1>1. m.err \in Ids /\ m.from \in Ids \cup {Nil} /\ acc.skip \in Nat
      /\ acc.found \in Seq(Seq(Nat)) /\ acc = [skip |-> acc.skip, found |-> acc.found]
  BY DEF Visit, Rounds
<1>2. RunOK(m.err) /\ (FromField(m) => RunOK(m.from))
  BY <1>1, Runs DEF FromField
<1>3. RunLength(m.err) \in Nat
  BY <1>2 DEF RunOK
<1>4. FromField(m) => acc.skip = RunLength(m.err)
  <2> SUFFICES ASSUME FromField(m) PROVE acc.skip = RunLength(m.err)
    OBVIOUS
  <2>1. RunLength(m.from) = 1 + RunLength(m.err)
    BY <1>2 DEF RunOK, FromField
  <2>2. acc.skip = RunLength(m.from) - 1
    BY DEF Rest, FromField
  <2> QED BY <1>3, <2>1, <2>2
<1>5. CASE node[m.err].kind # "field"
  <2>1. RunLength(m.err) = 0 /\ Rest(m.err) = 0
    BY <1>2, <1>5 DEF RunOK, Rest
  <2>2. acc.skip = 0
    BY <1>4, <2>1
  <2>3. Found(m) = <<>>
    BY <1>5 DEF Found, StartsRun
  <2>4. acc.found \o <<>> = acc.found
    BY <1>1, ConcatEmptySeq
  <2>5. FieldErrorStep(acc, m) = acc
    BY <1>5 DEF FieldErrorStep
  <2> QED BY <2>1, <2>2, <2>3, <2>4, <2>5
<1>6. CASE node[m.err].kind = "field" /\ FromField(m)
  <2>1. RunOK(node[m.err].kids[1]) /\ RunLength(m.err) = 1 + RunLength(node[m.err].kids[1])
    BY <1>1, <1>2, <1>6, FieldKid, Runs DEF RunOK
  <2>2. RunLength(node[m.err].kids[1]) \in Nat
    BY <2>1 DEF RunOK
  <2>3. acc.skip > 0 /\ acc.skip - 1 = Rest(m.err)
    BY <1>4, <1>6, <2>1, <2>2 DEF Rest
  <2>4. FieldErrorStep(acc, m) = [acc EXCEPT !.skip = @ - 1]
    BY <1>6, <2>3 DEF FieldErrorStep
  <2>5. FieldErrorStep(acc, m).skip = acc.skip - 1 /\ FieldErrorStep(acc, m).found = acc.found
    BY <1>1, <2>4
  <2>6. Found(m) = <<>>
    BY <1>6 DEF Found, StartsRun, FromField
  <2>7. acc.found \o <<>> = acc.found
    BY <1>1, ConcatEmptySeq
  <2> QED BY <2>3, <2>5, <2>6, <2>7
<1>7. CASE node[m.err].kind = "field" /\ ~FromField(m)
  <2>1. ~(acc.skip > 0) /\ acc.skip = 0
    BY <1>7
  <2>2. FieldErrorStep(acc, m) =
            [skip |-> acc.skip + Len(Nested[m.err]) - 1, found |-> Append(acc.found, Nested[m.err])]
    BY <1>7, <2>1 DEF FieldErrorStep
  <2>3. Rest(m.err) = Len(Nested[m.err]) - 1
    BY <1>7 DEF Rest, RunLength
  <2>4. Found(m) = <<run>>
    BY <1>7 DEF Found, StartsRun, FromField
  <2>5. run \in Seq(Nat) /\ Len(run) \in Nat
    BY <1>2 DEF RunOK, RunLength
  <2>6. acc.skip + Len(run) - 1 = Len(run) - 1
    <3> HIDE DEF run
    <3> QED BY <2>1, <2>5
  <2>7. Append(acc.found, run) = acc.found \o <<run>>
    <3> DEFINE s == acc.found
    <3> HIDE DEF run, s
    <3>1. s \in Seq(Seq(Nat))
      BY <1>1 DEF s
    <3> QED BY <2>5, <3>1, AppendIsConcat DEF s
  <2>8. /\ FieldErrorStep(acc, m).skip = acc.skip + Len(run) - 1
        /\ FieldErrorStep(acc, m).found = Append(acc.found, run)
    BY <2>2
  <2> QED BY <2>3, <2>4, <2>6, <2>7, <2>8
<1> QED BY <1>5, <1>6, <1>7

(* The loop reports the runs that the tree's walk starts. *)
LEMMA LoopFound ==
    ASSUME TreeIInv, NEW n \in Ids, NEW w \in Seq(Visit), w = Walk(n)
    PROVE  GetFieldErrors(n) = FlattenSeq([i \in 1..Len(w) |-> Found(w[i])])
<1> DEFINE N == Len(w)
           ss == [i \in 1..N |-> Found(w[i])]
<1>1. /\ N \in Nat /\ N >= 1 /\ w[1] = [err |-> n, from |-> Nil]
      /\ \A i \in 1..(N - 1) : Next2(w[i], w[i + 1])
      /\ \A i \in 1..N : w[i] \in Visit
  BY WalkFacts, LenProperties, ElementOfSeq DEF Walked, Chain
<1>2. ASSUME NEW i \in 1..N PROVE Found(w[i]) \in Seq(Seq(Nat))
  <2> DEFINE run == Nested[w[i].err]
  <2>1. run \in Seq(Nat)
    BY <1>1, Runs DEF Visit, RunOK
  <2> HIDE DEF run
  <2>2. <<run>> \in Seq(Seq(Nat)) /\ <<>> \in Seq(Seq(Nat))
    BY <2>1, EmptySeq
  <2> QED BY <2>2 DEF Found, run
<1>3. /\ ss \in Seq(Seq(Seq(Nat))) /\ Len(ss) = N
      /\ \A i \in 1..N : ss[i] = Found(w[i])
  <2>1. ss \in [1..N -> Seq(Seq(Nat))]
    BY <1>2
  <2>2. \A i \in 1..N : ss[i] = Found(w[i])
    OBVIOUS
  <2> HIDE DEF ss, N
  <2>3. ss \in Seq(Seq(Seq(Nat)))
    BY <1>1, <2>1, SeqDef
  <2>4. Len(ss) = N
    BY <1>1, <2>1, <2>3, LenProperties
  <2> QED BY <2>2, <2>3, <2>4
<1> HIDE DEF ss
<1>4. PICK flat : /\ flat[1] = ss[1]
                  /\ \A k \in 2..N : flat[k] = flat[k - 1] \o ss[k]
                  /\ FlattenSeq(ss) = flat[N]
  <2>1. Len(ss) # 0
    BY <1>1, <1>3
  <2> DEFINE S == Seq(Nat)
  <2> HIDE DEF S
  <2>2. ss \in Seq(Seq(S))
    BY <1>3 DEF S
  <2>3. \E flat : /\ flat[1] = ss[1]
                  /\ \A k \in 2..Len(ss) : flat[k] = flat[k - 1] \o ss[k]
                  /\ FlattenSeq(ss) = flat[Len(ss)]
    BY <2>1, <2>2, FlattenSteps
  <2> QED BY <1>3, <2>3
<1>5. PICK round : /\ GetFieldErrors(n) = round[N].found
                   /\ round[0] = [skip |-> 0, found |-> <<>>]
                   /\ \A i \in 1..N : round[i] = FieldErrorStep(round[i - 1], w[i])
  BY LoopSteps
<1> DEFINE Good(i) ==
               /\ round[i] \in Rounds
               /\ round[i].skip = Rest(w[i].err) /\ round[i].found = flat[i]
           T == {i \in 1..N : Good(i)}
<1>6. ASSUME NEW i \in 1..N, \A j \in 1..(i - 1) : j \in T PROVE i \in T
  <2> DEFINE acc == round[i - 1]
             m == w[i]
  <2>1. m \in Visit /\ round[i] = FieldErrorStep(acc, m) /\ ss[i] = Found(m)
    BY <1>1, <1>3, <1>5
  <2>2. CASE i = 1
    <3>1. acc = [skip |-> 0, found |-> <<>>] /\ m.from = Nil
      BY <1>1, <1>5, <2>2
    <3>2. <<>> \in Seq(Seq(Nat))
      BY EmptySeq
    <3>3. acc \in Rounds
      BY <3>1, <3>2 DEF Rounds
    <3>4. acc.skip = 0 /\ acc.found = <<>> /\ ~FromField(m)
      BY <3>1 DEF FromField
    <3>5. <<>> \o Found(m) = Found(m)
      BY <1>2, ConcatEmptySeq
    <3> HIDE DEF acc, m
    <3>6. /\ FieldErrorStep(acc, m) \in Rounds
          /\ FieldErrorStep(acc, m).skip = Rest(m.err)
          /\ FieldErrorStep(acc, m).found = acc.found \o Found(m)
      BY <2>1, <3>3, <3>4, RoundShape, RoundStep
    <3>7. flat[i] = Found(m)
      BY <1>4, <2>1, <2>2
    <3>8. Good(i)
      BY <2>1, <3>4, <3>5, <3>6, <3>7 DEF m
    <3> QED BY <3>8
  <2>3. CASE i # 1
    <3> DEFINE p == w[i - 1]
    <3>1. i \in 2..N /\ i - 1 \in 1..(i - 1) /\ i - 1 \in 1..(N - 1) /\ i - 1 \in 1..N
          /\ (i - 1) + 1 = i
      BY <1>1, <2>3
    <3>2. acc \in Rounds /\ acc.skip = Rest(p.err) /\ acc.found = flat[i - 1]
      BY <1>6, <3>1
    <3>3. p \in Visit /\ Next2(p, m)
      BY <1>1, <3>1
    <3>4. flat[i] = acc.found \o Found(m)
      BY <1>4, <2>1, <3>1, <3>2
    <3> HIDE DEF acc, m, p
    <3>5. p.err \in Ids /\ p.err # Nil
      BY <3>3, Typing DEF Visit, Nil
    <3>6. FromField(m) => acc.skip = Rest(m.from) /\ m.err = node[m.from].kids[1]
      <4> SUFFICES ASSUME FromField(m)
                   PROVE  acc.skip = Rest(m.from) /\ m.err = node[m.from].kids[1]
        OBVIOUS
      <4>1. p.err = m.from /\ node[p.err].kind = "field"
        BY <3>3 DEF Next2, FromField
      <4>2. m.err = node[p.err].kids[1]
        BY <3>3, <4>1 DEF Next2
      <4> QED BY <3>2, <4>1, <4>2
    <3>7. ~FromField(m) => acc.skip = 0
      <4> SUFFICES ASSUME ~FromField(m) PROVE acc.skip = 0
        OBVIOUS
      <4>1. node[p.err].kind # "field"
        <5> SUFFICES ASSUME node[p.err].kind = "field" PROVE FALSE
          OBVIOUS
        <5>1. m.from = p.err
          BY <3>3 DEF Next2
        <5> QED BY <3>5, <5>1 DEF FromField
      <4> QED BY <3>2, <4>1 DEF Rest
    <3>8. /\ FieldErrorStep(acc, m) \in Rounds
          /\ FieldErrorStep(acc, m).skip = Rest(m.err)
          /\ FieldErrorStep(acc, m).found = acc.found \o Found(m)
      BY <2>1, <3>2, <3>6, <3>7, RoundShape, RoundStep
    <3>9. Good(i)
      BY <2>1, <3>4, <3>8 DEF m
    <3> QED BY <3>9
  <2> QED BY <2>2, <2>3
<1>7. Good(N)
  <2> HIDE DEF Good
  <2>1. N \in Nat /\ 1 \in Nat /\ N \in 1..N
    BY <1>1
  <2> HIDE DEF T, N
  <2>2. 1..N \subseteq T
    BY <1>6, <2>1, IntervalInduction
  <2> QED BY <2>1, <2>2 DEF T
<1> QED BY <1>4, <1>5, <1>7 DEF ss

(* GetFieldErrors reports each run of nested field errors of a tree once, however
   the tree is built: the counter of the loop always holds what is left of the
   run that the error before opened. *)
THEOREM FieldErrorsOnce == Spec => []FieldErrorsReportedOnce
<1>1. ASSUME TreeIInv PROVE FieldErrorsReportedOnce
  <2> SUFFICES ASSUME NEW n \in Ids
               PROVE  GetFieldErrors(n) = FlattenSeq([i \in 1..Len(Walk(n)) |-> Found(Walk(n)[i])])
    BY DEF FieldErrorsReportedOnce, Found
  <2>1. Walk(n) \in Seq(Visit)
    BY <1>1, WalkFacts DEF Walked
  <2> QED BY <1>1, <2>1, LoopFound
<1>2. Spec => []TreeIInv
  BY TreeIInvHolds
<1> QED BY <1>1, <1>2, PTL

-----------------------------------------------------------------------------
(* Reading a walk. *)

(* What a reader r of visits makes of the walk of e, which it comes to from x. *)
Reading(r, e, x) == FlatMap(r, Block(walk, e, x))

LEMMA ReadSteps ==
    ASSUME TreeIInv, NEW T, NEW r, Maps(r, Visit, Seq(T)), NEW e \in Ids, NEW x \in Ids \cup {Nil}
    PROVE  /\ Reading(r, e, x) \in Seq(T)
           /\ Reading(r, e, x) = r[[err |-> e, from |-> x]] \o
                 FlattenSeq([i \in 1..Len(node[e].kids) |-> Reading(r, node[e].kids[i], e)])
<1> DEFINE m == [err |-> e, from |-> x]
           top == <<m>>
           ss == Blocks(walk, e)
           N == Len(node[e].kids)
<1>1. m \in Visit /\ top \in Seq(Visit)
  BY TopVisit DEF Visit
<1>2. \A k \in 1..(e - 1) : walk[k] \in Seq(Visit)
  <2>1. 1..(e - 1) \subseteq Ids
    BY Typing
  <2> QED BY <2>1, AllWalked
<1>3. /\ ss \in Seq(Seq(Visit)) /\ Len(ss) = N /\ FlattenSeq(ss) \in Seq(Visit)
      /\ \A i \in 1..N : ss[i] = Block(walk, node[e].kids[i], e)
  BY <1>2, BlocksSeq
<1>4. Block(walk, e, x) = top \o FlattenSeq(ss)
  BY WalkSteps DEF Block
<1> HIDE DEF m, ss, N, top
<1>5. FlatMap(r, top \o FlattenSeq(ss)) = FlatMap(r, top) \o FlatMap(r, FlattenSeq(ss))
  BY <1>1, <1>3, FlatMapConcat
<1>6. FlatMap(r, top) = r[m]
  BY <1>1, FlatMapOne DEF top
<1>7. FlatMap(r, FlattenSeq(ss)) = FlattenSeq([i \in 1..Len(ss) |-> FlatMap(r, ss[i])])
  BY <1>3, FlatMapFlatten
<1>8. [i \in 1..Len(ss) |-> FlatMap(r, ss[i])] = [i \in 1..N |-> Reading(r, node[e].kids[i], e)]
  BY <1>3 DEF Reading
<1>9. Reading(r, e, x) = r[m] \o FlattenSeq([i \in 1..N |-> Reading(r, node[e].kids[i], e)])
  BY <1>4, <1>5, <1>6, <1>7, <1>8 DEF Reading
<1>10. Reading(r, e, x) \in Seq(T)
  <2>1. top \o FlattenSeq(ss) \in Seq(Visit)
    BY <1>1, <1>3, ConcatProperties
  <2> QED BY <1>4, <2>1, FlatMapSeq DEF Reading
<1> QED BY <1>9, <1>10 DEF m, N

-----------------------------------------------------------------------------
(* Each error of a tree, and what a response shows of the fields. *)

TreeOf(e) == ToSet(node[e].order)

(* AsKids has the children of an error in another order. *)
LEMMA KidPlaces ==
    ASSUME NEW S, NEW e, e.kids \in Seq(S), KindOK(e)
    PROVE  \E place : /\ \A i \in 1..Len(e.kids) :
                            place[i] \in 1..Len(AsKids(e)) /\ e.kids[i] = AsKids(e)[place[i]]
                      /\ \A i, j \in 1..Len(e.kids) : i # j => place[i] # place[j]
<1> DEFINE kids == e.kids
           N == Len(kids)
<1>1. N \in Nat /\ AsKids(e) \in Seq(S) /\ Len(AsKids(e)) = N
      /\ (e.kind # "linkMulti" => AsKids(e) = kids)
  BY AsKidsSeq, LenProperties
<1>2. CASE e.kind # "linkMulti" \/ N = 0
  <2> DEFINE place == [i \in 1..N |-> i]
  <2>1. \A i \in 1..N : place[i] = i
    OBVIOUS
  <2> HIDE DEF place
  <2>2. \A i \in 1..N : place[i] \in 1..Len(AsKids(e)) /\ kids[i] = AsKids(e)[place[i]]
    BY <1>1, <1>2, <2>1
  <2>3. \A i, j \in 1..N : i # j => place[i] # place[j]
    BY <2>1
  <2> QED BY <2>2, <2>3
<1>3. CASE e.kind = "linkMulti" /\ N # 0
  <2> DEFINE t == Tail(kids)
             u == AsKids(e)
             x == kids[1]
             place == [i \in 1..N |-> IF i = 1 THEN N ELSE i - 1]
  <2>1. u = Append(t, x)
    BY <1>3 DEF AsKids
  <2>2. kids \in Seq(S) /\ kids # <<>> /\ 1 \in 1..N
    BY <1>1, <1>3, EmptySeq
  <2>3. t \in Seq(S) /\ Len(t) = N - 1 /\ x \in S /\ \A i \in 1..Len(t) : t[i] = kids[i + 1]
    <3>1. x \in S
      BY <2>2, ElementOfSeq
    <3> QED BY <2>2, <3>1, HeadTailProperties
  <2> HIDE DEF t, u, x
  <2>4. u[Len(t) + 1] = x /\ \A i \in 1..Len(t) : u[i] = t[i]
    BY <2>1, <2>3, AppendProperties
  <2>5. \A i \in 1..N : place[i] = IF i = 1 THEN N ELSE i - 1
    OBVIOUS
  <2> HIDE DEF place
  <2>6. ASSUME NEW i \in 1..N
        PROVE  place[i] \in 1..Len(AsKids(e)) /\ kids[i] = AsKids(e)[place[i]]
    <3>1. CASE i = 1
      <4>1. Len(t) + 1 = N /\ N \in 1..N
        BY <1>1, <1>3, <2>3
      <4> QED BY <1>1, <2>4, <2>5, <3>1, <4>1 DEF u, x
    <3>2. CASE i # 1
      <4> DEFINE j == i - 1
      <4>1. j \in 1..Len(t) /\ j + 1 = i /\ j \in 1..N
        BY <1>1, <2>3, <3>2
      <4> HIDE DEF j
      <4>2. u[j] = kids[i]
        BY <2>3, <2>4, <4>1
      <4> QED BY <1>1, <2>5, <3>2, <4>1, <4>2 DEF u, j
    <3> QED BY <3>1, <3>2
  <2>7. \A i, j \in 1..N : i # j => place[i] # place[j]
    <3> SUFFICES ASSUME NEW i \in 1..N, NEW j \in 1..N, i # j PROVE place[i] # place[j]
      OBVIOUS
    <3> QED BY <1>1, <2>5
  <2> QED BY <2>6, <2>7
<1> QED BY <1>2, <1>3

(* In a tree where no error stands twice, the trees of the children have nothing
   in common, with each other or with the error above. *)
LEMMA TreeParts ==
    ASSUME TreeIInv, NEW n \in Ids
    PROVE  /\ TreeOf(n) \subseteq 1..n /\ n \in TreeOf(n)
           /\ \A i \in 1..Len(node[n].kids) :
                 /\ TreeOf(node[n].kids[i]) \subseteq TreeOf(n) \ {n}
                 /\ Distinct(node[n].order) => Distinct(node[node[n].kids[i]].order)
           /\ Distinct(node[n].order) => \A i, j \in 1..Len(node[n].kids) :
                 i # j => Apart(TreeOf(node[n].kids[i]), TreeOf(node[n].kids[j]))
<1> DEFINE kids == node[n].kids
           own == AsKids(node[n])
           ss == KidOrders(node[n])
           rest == FlattenSeq(ss)
           s == <<n>>
           b == n - 1
<1>1. n \in Nat /\ n \in 1..n /\ b \in Nat /\ b <= Len(node) /\ KindOK(node[n]) /\ kids \in Seq(1..b)
      /\ node[n].order \in Seq(1..n)
  <2>1. KindOK(node[n]) /\ n \in 1..Len(node) /\ kids \in Seq(1..(n - 1)) /\ node[n].order \in Seq(1..n)
    BY Typing DEF TreeIInv, TypeOK
  <2> QED BY <2>1, Typing
<1>2. 1..b \subseteq 1..n /\ n \notin 1..b /\ n # Nil
  BY <1>1 DEF Nil
<1> HIDE DEF b
<1>3. /\ own \in Seq(1..b) /\ Len(ss) = Len(own) /\ ss \in Seq(Seq(1..b))
      /\ \A m \in 1..Len(own) : ss[m] = node[own[m]].order
  BY <1>1, KidOrdersSeq, SMTT(30)
<1>4. PICK place : /\ \A i \in 1..Len(kids) : place[i] \in 1..Len(own) /\ kids[i] = own[place[i]]
                   /\ \A i, j \in 1..Len(kids) : i # j => place[i] # place[j]
  <2> DEFINE e == node[n]
  <2>1. e.kids \in Seq(1..b) /\ KindOK(e)
    BY <1>1
  <2> HIDE DEF e
  <2>2. \E place : /\ \A i \in 1..Len(e.kids) :
                          place[i] \in 1..Len(AsKids(e)) /\ e.kids[i] = AsKids(e)[place[i]]
                   /\ \A i, j \in 1..Len(e.kids) : i # j => place[i] # place[j]
    BY <2>1, KidPlaces
  <2> QED BY <2>2 DEF e
<1> HIDE DEF kids, own, ss
<1>5. /\ rest \in Seq(1..b) /\ ToSet(rest) = PartValues(ss, Len(ss))
      /\ Distinct(rest) <=> PartsApart(ss, Len(ss))
  <2> DEFINE S == 1..b
  <2> HIDE DEF S
  <2>1. ss \in Seq(Seq(S))
    BY <1>3 DEF S
  <2>2. rest \in Seq(S) /\ ToSet(rest) = PartValues(ss, Len(ss))
        /\ (Distinct(rest) <=> PartsApart(ss, Len(ss)))
    BY <2>1, Flatten, FlattenDistinct
  <2> QED BY <2>2 DEF S
<1>6. node[n].order = s \o rest
  BY DEF TreeIInv, OrderOK, ss
<1>7. s \in Seq(1..n) /\ ToSet(s) = {n} /\ rest \in Seq(1..n)
  <2>1. s \in Seq(1..n) /\ Len(s) = 1 /\ s[1] = n
    BY <1>1
  <2>2. rest \in Seq(1..n)
    BY <1>2, <1>5, SeqMonotonic
  <2> HIDE DEF s
  <2>3. \A x : x \in ToSet(s) <=> \E i \in 1..1 : s[i] = x
    BY <2>1, Values
  <2> QED BY <2>1, <2>2, <2>3
<1> HIDE DEF rest, s
<1>8. /\ TreeOf(n) = {n} \cup PartValues(ss, Len(ss))
      /\ Distinct(node[n].order) => Distinct(rest)
  BY <1>5, <1>6, <1>7, ConcatValues, ConcatDistinct DEF TreeOf
<1>9. TreeOf(n) \subseteq 1..n /\ PartValues(ss, Len(ss)) \subseteq 1..b
  BY <1>1, <1>5, Values DEF TreeOf
<1>10. ASSUME NEW i \in 1..Len(kids)
       PROVE  place[i] \in 1..Len(ss) /\ ss[place[i]] = node[kids[i]].order
  BY <1>3, <1>4
<1>11. ASSUME NEW i \in 1..Len(kids)
       PROVE  /\ TreeOf(kids[i]) \subseteq TreeOf(n) \ {n}
              /\ Distinct(node[n].order) => Distinct(node[kids[i]].order)
  <2>1. TreeOf(kids[i]) \subseteq PartValues(ss, Len(ss))
    BY <1>10 DEF TreeOf, PartValues
  <2>2. Distinct(rest) => Distinct(node[kids[i]].order)
    BY <1>5, <1>10 DEF PartsApart
  <2> QED BY <1>2, <1>8, <1>9, <2>1, <2>2
<1>12. ASSUME Distinct(node[n].order), NEW i \in 1..Len(kids), NEW j \in 1..Len(kids), i # j
       PROVE  Apart(TreeOf(kids[i]), TreeOf(kids[j]))
  <2> DEFINE p == place[i]
             q == place[j]
  <2>1. p \in 1..Len(ss) /\ q \in 1..Len(ss) /\ p # q
        /\ ss[p] = node[kids[i]].order /\ ss[q] = node[kids[j]].order
    BY <1>4, <1>10, <1>12
  <2> HIDE DEF p, q
  <2>2. PartsApart(ss, Len(ss))
    BY <1>5, <1>8, <1>12
  <2>3. p < q \/ q < p
    BY <2>1
  <2>4. Apart(ToSet(ss[p]), ToSet(ss[q])) \/ Apart(ToSet(ss[q]), ToSet(ss[p]))
    BY <2>1, <2>2, <2>3 DEF PartsApart
  <2> QED BY <2>1, <2>4 DEF TreeOf, Apart
<1> QED BY <1>8, <1>9, <1>11, <1>12 DEF kids

LEMMA OutsideInTree ==
    ASSUME TreeIInv, NEW n \in Ids
    PROVE  OutsideFields[n] \subseteq TreeOf(n)
<1> DEFINE N == Len(node)
           T == {e \in 1..N : OutsideFields[e] \subseteq TreeOf(e)}
<1>1. N \in Nat /\ 1 \in Nat /\ Ids = 1..N
  BY Typing
<1>2. ASSUME NEW e \in 1..N, \A k \in 1..(e - 1) : k \in T PROVE e \in T
  <2>1. e \in Ids /\ OutsideFields[e] = OutsideAt(OutsideFields, e)
    BY <1>1, OutsideSteps
  <2>2. e \in TreeOf(e)
    BY <2>1, TreeParts
  <2>3. ASSUME NEW k \in ToSet(node[e].kids) PROVE OutsideFields[k] \subseteq TreeOf(e)
    <3>1. PICK i \in 1..Len(node[e].kids) : k = node[e].kids[i]
      <4>1. node[e].kids \in Seq(1..(e - 1))
        BY <2>1, Typing
      <4> QED BY <4>1, LenProperties DEF ToSet
    <3>2. TreeOf(k) \subseteq TreeOf(e)
      BY <2>1, <3>1, TreeParts
    <3>3. k \in 1..(e - 1)
      BY <2>1, KidsBelow
    <3> QED BY <1>2, <3>2, <3>3
  <2>4. OutsideFields[e] \subseteq TreeOf(e)
    BY <2>1, <2>2, <2>3 DEF OutsideAt
  <2> QED BY <2>4
<1> HIDE DEF T
<1>3. 1..N \subseteq T
  <2> HIDE DEF N
  <2> QED BY <1>1, <1>2, IntervalInduction
<1> QED BY <1>1, <1>3 DEF T

(* The public error shown for the field of a run is that of the error which the
   innermost field error holds. *)
Shows(e) == fieldResponse(Nested[e])

LEMMA RunShows ==
    ASSUME TreeIInv
    PROVE  \A e \in Ids : node[e].kind = "field" =>
              LET kid == node[e].kids[1]
              IN  /\ Shows(e) = IF node[kid].kind = "field" THEN Shows(kid) ELSE GetDetails[kid]
                  /\ Shows(e) \in Ids \cup {Nil}
<1> DEFINE N == Len(node)
           kid(e) == node[e].kids[1]
           Good(e) == node[e].kind = "field" =>
                        /\ Shows(e) = IF node[kid(e)].kind = "field" THEN Shows(kid(e))
                                      ELSE GetDetails[kid(e)]
                        /\ Shows(e) \in Ids \cup {Nil}
           T == {e \in 1..N : Good(e)}
<1>1. N \in Nat /\ 1 \in Nat /\ Ids = 1..N
  BY Typing
<1>2. ASSUME NEW e \in 1..N, \A k \in 1..(e - 1) : k \in T PROVE e \in T
  <2>1. e \in Ids /\ e \in Nat /\ Nested[e] = NestedAt(Nested, e)
    BY <1>1, NestedSteps
  <2>2. CASE node[e].kind # "field"
    BY <2>2
  <2>3. CASE node[e].kind = "field"
    <3> DEFINE k == kid(e)
               s == <<e>>
               t == Nested[k]
               u == Nested[e]
    <3>1. k \in 1..(e - 1) /\ k \in Ids
      BY <2>1, <2>3, FieldKid
    <3>2. t \in Seq(Nat) /\ Len(t) \in Nat /\ u = s \o t /\ s \in Seq(Nat) /\ Len(s) = 1 /\ s[1] = e
      <4>1. RunOK(k)
        BY <3>1, Runs
      <4>2. u = s \o t
        BY <2>1, <2>3 DEF NestedAt
      <4>3. s \in Seq(Nat) /\ Len(s) = 1 /\ s[1] = e
        BY <2>1
      <4>4. t \in Seq(Nat) /\ Len(t) \in Nat
        BY <4>1 DEF RunOK, RunLength
      <4> QED BY <4>2, <4>3, <4>4
    <3>3. node[k].kind = "field" <=> Len(t) # 0
      <4>1. RunOK(k) /\ RunLength(k) = Len(t)
        BY <3>1, Runs DEF RunLength
      <4>2. node[k].kind = "field" => RunLength(node[k].kids[1]) \in Nat
        BY <3>1, FieldKid, Runs DEF RunOK
      <4>3. RunLength(k) = IF node[k].kind # "field" THEN 0 ELSE 1 + RunLength(node[k].kids[1])
        BY <4>1 DEF RunOK
      <4> HIDE DEF k, t
      <4> QED BY <4>1, <4>2, <4>3
    <3>4. Shows(e) = GetDetails[node[u[Len(u)]].kids[1]] /\ Shows(k) = GetDetails[node[t[Len(t)]].kids[1]]
      BY DEF Shows, fieldResponse, Last
    <3> HIDE DEF s, t, u, k
    <3>5. /\ Len(u) = 1 + Len(t)
          /\ \A i \in 1..(1 + Len(t)) : u[i] = IF i <= 1 THEN s[i] ELSE t[i - 1]
      <4>1. /\ Len(s \o t) = Len(s) + Len(t)
            /\ \A i \in 1..(Len(s) + Len(t)) : (s \o t)[i] = IF i <= Len(s) THEN s[i] ELSE t[i - Len(s)]
        BY <3>2, ConcatProperties
      <4> QED BY <3>2, <4>1
    <3>6. CASE node[k].kind = "field"
      <4> DEFINE n == Len(t) + 1
      <4>1. n \in 1..(1 + Len(t)) /\ ~(n <= 1) /\ n - 1 = Len(t) /\ n = Len(u)
        BY <3>2, <3>3, <3>5, <3>6
      <4> HIDE DEF n
      <4>2. u[n] = t[Len(t)]
        BY <3>5, <4>1
      <4>3. Shows(e) = Shows(k)
        BY <3>4, <4>1, <4>2
      <4>4. Shows(k) \in Ids \cup {Nil}
        BY <1>2, <3>1, <3>6
      <4> QED BY <3>6, <4>3, <4>4 DEF k
    <3>7. CASE node[k].kind # "field"
      <4>1. Len(u) = 1 /\ u[1] = e
        BY <3>2, <3>3, <3>5, <3>7
      <4>2. Shows(e) = GetDetails[k]
        BY <3>4, <4>1 DEF k
      <4>3. GetDetails[k] \in Ids \cup {Nil}
        <5>1. DetailsShown(k)
          BY <3>1, FieldsHide DEF FieldsKeepToThemselves, DetailsShown
        <5> QED BY <3>1, <5>1, OutsideDown DEF DetailsShown
      <4> QED BY <3>7, <4>2, <4>3 DEF k
    <3> QED BY <3>6, <3>7
  <2> QED BY <2>2, <2>3
<1> HIDE DEF T
<1>3. 1..N \subseteq T
  <2> HIDE DEF N
  <2> QED BY <1>1, <1>2, IntervalInduction
<1> QED BY <1>1, <1>3 DEF T

(* What a response shows of the fields of e, and of those below it alone. *)
Response(m) == IF StartsRun(m) THEN <<Shows(m.err)>> ELSE <<>>
Responses == [m \in Visit |-> Response(m)]
Top(e) == IF node[e].kind = "field" THEN <<Shows(e)>> ELSE <<>>
Below(e) == FlattenSeq([i \in 1..Len(node[e].kids) |-> Reading(Responses, node[e].kids[i], e)])
Publics == Ids \cup {Nil}

LEMMA ResponsesSeq ==
    ASSUME TreeIInv
    PROVE  /\ Maps(Responses, Visit, Seq(Publics))
           /\ \A e \in Ids : Below(e) \in Seq(Publics) /\ Top(e) \in Seq(Publics)
<1>1. ASSUME NEW e \in Ids PROVE Top(e) \in Seq(Publics)
  <2>1. CASE node[e].kind = "field"
    <3>1. Shows(e) \in Publics
      BY <2>1, RunShows DEF Publics
    <3> QED BY <2>1, <3>1 DEF Top
  <2>2. CASE node[e].kind # "field"
    BY <2>2, EmptySeq DEF Top
  <2> QED BY <2>1, <2>2
<1>2. ASSUME NEW m \in Visit PROVE Responses[m] \in Seq(Publics)
  <2>1. m.err \in Ids /\ Responses[m] = Response(m)
    BY DEF Visit, Responses
  <2>2. Response(m) = Top(m.err) \/ Response(m) = <<>>
    BY DEF Response, StartsRun, Top
  <2> QED BY <1>1, <2>1, <2>2, EmptySeq
<1>3. Maps(Responses, Visit, Seq(Publics))
  BY <1>2 DEF Maps
<1>4. ASSUME NEW e \in Ids PROVE Below(e) \in Seq(Publics)
  <2> DEFINE N == Len(node[e].kids)
             ss == [i \in 1..N |-> Reading(Responses, node[e].kids[i], e)]
  <2>1. N \in Nat /\ \A i \in 1..N : node[e].kids[i] \in Ids
    BY KidsFacts
  <2>2. \A i \in 1..N : Reading(Responses, node[e].kids[i], e) \in Seq(Publics)
    BY <1>3, <2>1, ReadSteps
  <2>3. ss \in [1..N -> Seq(Publics)]
    BY <2>2
  <2> HIDE DEF ss, N
  <2>4. ss \in Seq(Seq(Publics))
    BY <2>1, <2>3, SeqDef
  <2>5. FlattenSeq(ss) \in Seq(Publics)
    BY <2>4, Flatten
  <2> QED BY <2>5 DEF Below, ss, N
<1> QED BY <1>1, <1>3, <1>4

(* What is shown of the fields of a tree, in order. *)
Part(e) == Top(e) \o Below(e)
Parts(e) == [i \in 1..Len(node[e].kids) |-> Part(node[e].kids[i])]

LEMMA PartSteps ==
    ASSUME TreeIInv, NEW e \in Ids
    PROVE  /\ Part(e) \in Seq(Publics) /\ Reading(Responses, e, Nil) = Part(e)
           /\ node[e].kind # "field" => Part(e) = FlattenSeq(Parts(e)) /\ Parts(e) \in Seq(Seq(Publics))
                                        /\ Len(Parts(e)) = Len(node[e].kids)
           /\ node[e].kind = "field" =>
                 LET kid == node[e].kids[1]
                 IN  Part(e) = IF node[kid].kind = "field" THEN Part(kid)
                               ELSE <<GetDetails[kid]>> \o Part(kid)
<1> DEFINE kids == node[e].kids
           N == Len(kids)
           reads == [i \in 1..N |-> Reading(Responses, kids[i], e)]
<1>1. /\ N \in Nat /\ e # Nil /\ \A i \in 1..N : kids[i] \in Ids
  BY KidsFacts, Typing DEF Nil
<1>2. /\ \A k \in Ids : Below(k) \in Seq(Publics) /\ Top(k) \in Seq(Publics) /\ Part(k) \in Seq(Publics)
      /\ \A k \in Ids : node[k].kind # "field" => Top(k) = <<>> /\ Part(k) = Below(k)
  <2>1. ASSUME NEW k \in Ids PROVE Below(k) \in Seq(Publics) /\ Top(k) \in Seq(Publics)
    BY ResponsesSeq
  <2>2. ASSUME NEW k \in Ids PROVE Part(k) \in Seq(Publics)
    BY <2>1, ConcatProperties DEF Part
  <2>3. ASSUME NEW k \in Ids, node[k].kind # "field" PROVE Top(k) = <<>> /\ Part(k) = Below(k)
    <3>1. Top(k) = <<>>
      BY <2>3 DEF Top
    <3> QED BY <2>1, <3>1, ConcatEmptySeq DEF Part
  <2> QED BY <2>1, <2>2, <2>3
<1>3. ASSUME NEW k \in Ids, NEW x \in Ids \cup {Nil}
      PROVE  Reading(Responses, k, x) = IF x # Nil /\ node[x].kind = "field" THEN Below(k) ELSE Part(k)
  <2> DEFINE m == [err |-> k, from |-> x]
  <2>1. Reading(Responses, k, x) = Responses[m] \o Below(k)
    BY ResponsesSeq, ReadSteps DEF Below
  <2>2. m \in Visit /\ m.err = k /\ m.from = x
    BY DEF Visit
  <2> HIDE DEF m
  <2>3. Responses[m] = Response(m)
    BY <2>2 DEF Responses
  <2>4. CASE x # Nil /\ node[x].kind = "field"
    <3>1. Response(m) = <<>>
      BY <2>2, <2>4 DEF Response, StartsRun
    <3>2. <<>> \o Below(k) = Below(k)
      BY <1>2, ConcatEmptySeq
    <3> QED BY <2>1, <2>3, <2>4, <3>1, <3>2
  <2>5. CASE ~(x # Nil /\ node[x].kind = "field")
    <3>1. Response(m) = Top(k)
      BY <2>2, <2>5 DEF Response, StartsRun, Top
    <3> QED BY <2>1, <2>3, <2>5, <3>1 DEF Part
  <2> QED BY <2>4, <2>5
<1>4. CASE node[e].kind # "field"
  <2>1. reads = Parts(e)
    BY <1>1, <1>3, <1>4 DEF Parts
  <2>2. Parts(e) \in [1..N -> Seq(Publics)]
    BY <1>1, <1>2 DEF Parts
  <2> HIDE DEF N
  <2>3. Parts(e) \in Seq(Seq(Publics))
    BY <1>1, <2>2, SeqDef
  <2>4. Len(Parts(e)) = N
    BY <1>1, <2>2, <2>3, LenProperties
  <2> QED BY <1>2, <1>3, <1>4, <2>1, <2>3, <2>4 DEF Below, N
<1>5. CASE node[e].kind = "field"
  <2> DEFINE kid == kids[1]
  <2>1. N = 1 /\ kid \in Ids
    BY <1>5, FieldKid
  <2>2. reads = <<Below(kid)>>
    BY <1>1, <1>3, <1>5, <2>1
  <2>3. Below(e) = Below(kid)
    <3>1. FlattenSeq(<<Below(kid)>>) = Below(kid)
      BY <1>2, <2>1, FlattenOne
    <3> QED BY <2>2, <3>1 DEF Below
  <2>4. Part(e) = <<Shows(e)>> \o Below(kid)
    BY <1>5, <2>3 DEF Part, Top
  <2>5. Shows(e) = IF node[kid].kind = "field" THEN Shows(kid) ELSE GetDetails[kid]
    BY <1>5, RunShows
  <2> HIDE DEF kid
  <2>6. Part(e) = IF node[kid].kind = "field" THEN Part(kid) ELSE <<GetDetails[kid]>> \o Part(kid)
    <3>1. CASE node[kid].kind = "field"
      BY <2>4, <2>5, <3>1 DEF Part, Top
    <3>2. CASE node[kid].kind # "field"
      BY <1>2, <2>1, <2>4, <2>5, <3>2
    <3> QED BY <3>1, <3>2
  <2> QED BY <1>2, <1>3, <1>5, <2>6 DEF kid
<1> QED BY <1>4, <1>5

(* Where no error stands twice, what is shown of the fields of a tree is all of
   different errors, of errors of that tree, and of none that the response as a
   whole could show. *)
PartOK(e) ==
    /\ Distinct(Part(e)) /\ ToSet(Part(e)) \subseteq TreeOf(e) \cup {Nil}
    /\ Apart(ToSet(Part(e)), OutsideFields[e])

LEMMA DetailsFirst ==
    ASSUME TreeIInv, NEW e \in Ids, PartOK(e)
    PROVE  /\ <<GetDetails[e]>> \o Part(e) \in Seq(Publics)
           /\ Distinct(<<GetDetails[e]>> \o Part(e))
           /\ ToSet(<<GetDetails[e]>> \o Part(e)) \subseteq TreeOf(e) \cup {Nil}
<1> DEFINE x == GetDetails[e]
           s == <<x>>
           t == Part(e)
<1>1. x = Nil \/ x \in OutsideFields[e]
  BY FieldsHide DEF FieldsKeepToThemselves
<1>2. x \in Publics /\ x \in TreeOf(e) \cup {Nil}
  <2>1. OutsideFields[e] \subseteq TreeOf(e) /\ \A y \in OutsideFields[e] : y \in Ids
    BY OutsideInTree, OutsideDown
  <2> QED BY <1>1, <2>1 DEF Publics
<1> HIDE DEF x
<1>3. s \in Seq(Publics) /\ Len(s) = 1 /\ s[1] = x
  BY <1>2
<1>4. ToSet(s) = {x} /\ Distinct(s)
  <2> HIDE DEF s
  <2>1. \A y : y \in ToSet(s) <=> \E i \in 1..1 : s[i] = y
    BY <1>3, Values
  <2>2. Distinct(s)
    BY <1>3 DEF Distinct
  <2> QED BY <1>3, <2>1, <2>2
<1>5. t \in Seq(Publics)
  BY PartSteps
<1> HIDE DEF s, t
<1>6. /\ s \o t \in Seq(Publics) /\ ToSet(s \o t) = ToSet(s) \cup ToSet(t)
      /\ Distinct(s \o t) <=> Distinct(s) /\ Distinct(t) /\ Apart(ToSet(s), ToSet(t))
  BY <1>3, <1>5, ConcatProperties, ConcatValues, ConcatDistinct
<1>7. Apart(ToSet(s), ToSet(t))
  BY <1>1, <1>4 DEF PartOK, Apart, t
<1> QED BY <1>2, <1>4, <1>6, <1>7 DEF PartOK, x, s, t

LEMMA FieldPart ==
    ASSUME TreeIInv, NEW e \in Ids, node[e].kind = "field", Distinct(node[e].order),
           \A k \in 1..(e - 1) : Distinct(node[k].order) => PartOK(k)
    PROVE  PartOK(e)
<1> DEFINE k == node[e].kids[1]
           t == <<GetDetails[k]>> \o Part(k)
<1>1. k \in 1..(e - 1) /\ k \in Ids /\ Len(node[e].kids) = 1
  BY FieldKid
<1>2. TreeOf(k) \subseteq TreeOf(e) \ {e} /\ Distinct(node[k].order)
  <2>1. 1 \in 1..Len(node[e].kids)
    BY <1>1
  <2> QED BY <2>1, TreeParts
<1>3. PartOK(k)
  BY <1>1, <1>2
<1>4. Part(e) = IF node[k].kind = "field" THEN Part(k) ELSE t
  BY PartSteps
<1>5. Distinct(t) /\ ToSet(t) \subseteq TreeOf(k) \cup {Nil}
  BY <1>1, <1>3, DetailsFirst
<1>6. OutsideFields[e] = {e} /\ e # Nil
  BY OutsideSteps, Typing DEF OutsideAt, Nil
<1> HIDE DEF t, k
<1>7. Distinct(Part(e)) /\ ToSet(Part(e)) \subseteq TreeOf(k) \cup {Nil}
  BY <1>3, <1>4, <1>5 DEF PartOK
<1> QED BY <1>2, <1>6, <1>7 DEF PartOK, Apart

LEMMA OtherPart ==
    ASSUME TreeIInv, NEW e \in Ids, node[e].kind # "field", Distinct(node[e].order),
           \A k \in 1..(e - 1) : Distinct(node[k].order) => PartOK(k)
    PROVE  PartOK(e)
<1> DEFINE kids == node[e].kids
           ss == Parts(e)
           N == Len(kids)
           Tree(i) == TreeOf(kids[i])
<1>1. Part(e) = FlattenSeq(ss) /\ ss \in Seq(Seq(Publics)) /\ Len(ss) = N
  BY PartSteps
<1>2. /\ ToSet(Part(e)) = PartValues(ss, N)
      /\ Distinct(Part(e)) <=> PartsApart(ss, N)
  BY <1>1, FlattenDistinct
<1>3. ASSUME NEW i \in 1..N
      PROVE  /\ kids[i] \in Ids /\ Tree(i) \subseteq TreeOf(e) \ {e}
             /\ ss[i] = Part(kids[i]) /\ PartOK(kids[i]) /\ OutsideFields[kids[i]] \subseteq Tree(i)
             /\ ToSet(ss[i]) \subseteq Tree(i) \cup {Nil}
  <2>1. kids[i] \in 1..(e - 1) /\ kids[i] \in Ids
    BY KidsFacts
  <2>2. Tree(i) \subseteq TreeOf(e) \ {e} /\ Distinct(node[kids[i]].order)
    BY TreeParts
  <2>3. PartOK(kids[i])
    BY <2>1, <2>2
  <2>4. ss[i] = Part(kids[i])
    BY DEF Parts
  <2>5. OutsideFields[kids[i]] \subseteq Tree(i)
    BY <2>1, OutsideInTree
  <2> QED BY <2>1, <2>2, <2>3, <2>4, <2>5 DEF PartOK
<1>4. \A i, j \in 1..N : i # j => Apart(Tree(i), Tree(j))
  BY TreeParts
<1> HIDE DEF ss, kids
<1>5. PartsApart(ss, N)
  <2>1. \A i \in 1..N : Distinct(ss[i])
    BY <1>3 DEF PartOK
  <2>2. ASSUME NEW i \in 1..N, NEW j \in 1..N, i < j PROVE Apart(ToSet(ss[i]), ToSet(ss[j]))
    <3>1. i # j
      <4>1. N \in Nat
        BY <1>1, LenProperties
      <4> QED BY <2>2, <4>1
    <3>2. ToSet(ss[i]) \subseteq Tree(i) \cup {Nil} /\ ToSet(ss[j]) \subseteq Tree(j) \cup {Nil}
      BY <1>3
    <3>3. Apart(Tree(i), Tree(j))
      BY <1>4, <3>1
    <3> QED BY <3>2, <3>3 DEF Apart
  <2> QED BY <2>1, <2>2 DEF PartsApart
<1>6. ToSet(Part(e)) \subseteq (TreeOf(e) \ {e}) \cup {Nil}
  BY <1>2, <1>3 DEF PartValues
<1>7. ASSUME NEW x \in ToSet(Part(e)), x \in OutsideFields[e], x # Nil PROVE FALSE
  <2>1. PICK i \in 1..N : x \in ToSet(ss[i])
    BY <1>2, <1>7 DEF PartValues
  <2>2. x # e
    BY <1>6, <1>7
  <2>3. PICK j \in 1..N : x \in OutsideFields[kids[j]]
    <3>1. PICK k \in ToSet(kids) : x \in OutsideFields[k]
      BY <1>7, <2>2, OutsideSteps DEF OutsideAt, kids
    <3>2. kids \in Seq(1..(e - 1))
      BY Typing DEF kids
    <3> QED BY <3>1, <3>2, Values
  <2>4. CASE i = j
    BY <1>3, <1>7, <2>1, <2>3, <2>4 DEF PartOK, Apart
  <2>5. CASE i # j
    <3>1. x \in Tree(i) /\ x \in Tree(j)
      BY <1>3, <1>7, <2>1, <2>3
    <3>2. Apart(Tree(i), Tree(j))
      BY <1>4, <2>5
    <3> HIDE DEF Tree
    <3>3. x \in Tree(i) \cap Tree(j)
      BY <3>1
    <3> QED BY <1>7, <3>2, <3>3 DEF Apart
  <2> QED BY <2>4, <2>5
<1>8. Apart(ToSet(Part(e)), OutsideFields[e])
  BY <1>7 DEF Apart
<1> QED BY <1>2, <1>5, <1>6, <1>8 DEF PartOK

LEMMA AllParts ==
    ASSUME TreeIInv
    PROVE  \A e \in Ids : Distinct(node[e].order) => PartOK(e)
<1> DEFINE N == Len(node)
           T == {e \in 1..N : Distinct(node[e].order) => PartOK(e)}
<1>1. N \in Nat /\ 1 \in Nat /\ Ids = 1..N
  BY Typing
<1>2. ASSUME NEW e \in 1..N, \A k \in 1..(e - 1) : k \in T PROVE e \in T
  <2>1. e \in Ids
    BY <1>1
  <2>2. \A k \in 1..(e - 1) : Distinct(node[k].order) => PartOK(k)
    BY <1>2
  <2>3. Distinct(node[e].order) => PartOK(e)
    BY <2>1, <2>2, FieldPart, OtherPart
  <2> QED BY <2>3
<1> HIDE DEF T
<1>3. 1..N \subseteq T
  <2> HIDE DEF N
  <2> QED BY <1>1, <1>2, IntervalInduction
<1> QED BY <1>1, <1>3 DEF T

(* A response shows the public error of the request and what each field shows. *)
LEMMA ResponseParts ==
    ASSUME TreeIInv, NEW n \in Ids
    PROVE  ErrorResponse(n) = <<GetDetails[n]>> \o Part(n)
<1> DEFINE w == Walk(n)
           N == Len(w)
           found == GetFieldErrors(n)
           S == Seq(Nat)
           T == {fieldResponse(v) : v \in S}
           f == [v \in S |-> fieldResponse(v)]
           ss == [i \in 1..N |-> Found(w[i])]
<1>1. w \in Seq(Visit) /\ w = Block(walk, n, Nil) /\ found = FlattenSeq(ss)
  <2>1. w \in Seq(Visit) /\ w = Block(walk, n, Nil)
    BY WalkFacts DEF Walked, Walk, Block
  <2> QED BY <2>1, LoopFound
<1>2. N \in Nat /\ \A i \in 1..N : w[i] \in Visit
  BY <1>1, LenProperties, ElementOfSeq
<1>3. ASSUME NEW i \in 1..N PROVE Found(w[i]) \in Seq(S) /\ Map(f, Found(w[i])) = Responses[w[i]]
  <2> DEFINE m == w[i]
             v == Nested[m.err]
  <2>1. m \in Visit /\ m.err \in Ids
    BY <1>2 DEF Visit
  <2>2. v \in S /\ f[v] = fieldResponse(v)
    BY <2>1, Runs DEF RunOK
  <2>3. Responses[m] = Response(m)
    BY <2>1 DEF Responses
  <2> HIDE DEF m, f
  <2>4. CASE StartsRun(m)
    <3>1. Found(m) = <<v>> /\ Response(m) = <<fieldResponse(v)>>
      BY <2>4 DEF Found, Response, Shows
    <3>2. Map(f, <<v>>) = <<f[v]>>
      BY DEF Map
    <3>3. <<v>> \in Seq(S)
      BY <2>2
    <3> QED BY <2>2, <2>3, <3>1, <3>2, <3>3 DEF m
  <2>5. CASE ~StartsRun(m)
    <3>1. Found(m) = <<>> /\ Response(m) = <<>>
      BY <2>5 DEF Found, Response
    <3>2. Map(f, <<>>) = <<>>
      BY DEF Map
    <3> QED BY <2>3, <3>1, <3>2, EmptySeq DEF m
  <2> QED BY <2>4, <2>5
<1>4. ss \in Seq(Seq(S)) /\ Len(ss) = N /\ \A i \in 1..N : ss[i] = Found(w[i])
  <2>1. ss \in [1..N -> Seq(S)] /\ \A i \in 1..N : ss[i] = Found(w[i])
    BY <1>3
  <2> HIDE DEF ss, N, S
  <2>2. ss \in Seq(Seq(S))
    BY <1>2, <2>1, SeqDef
  <2>3. Len(ss) = N
    BY <1>2, <2>1, <2>2, LenProperties
  <2> QED BY <2>1, <2>2, <2>3
<1>5. Maps(f, S, T)
  BY DEF Maps
<1>6. \A v \in S : f[v] = fieldResponse(v)
  OBVIOUS
<1>7. found \in Seq(S)
  <2> HIDE DEF ss, S
  <2> QED BY <1>1, <1>4, Flatten
<1> HIDE DEF found, f, T, ss
<1>8. Map(f, found) = FlattenSeq([i \in 1..Len(ss) |-> Map(f, ss[i])])
  <2> HIDE DEF S
  <2> QED BY <1>1, <1>4, <1>5, MapFlatten
<1>9. [i \in 1..Len(ss) |-> Map(f, ss[i])] = Map(Responses, w)
  BY <1>3, <1>4 DEF Map
<1>10. Map(f, found) = Reading(Responses, n, Nil)
  BY <1>1, <1>8, <1>9 DEF Reading, FlatMap
<1>11. Map(f, found) = [i \in 1..Len(found) |-> fieldResponse(found[i])]
  <2>1. \A i \in 1..Len(found) : found[i] \in S
    BY <1>7, ElementOfSeq
  <2> QED BY <1>6, <2>1 DEF Map
<1>12. ErrorResponse(n) = <<GetDetails[n]>> \o Map(f, found)
  BY <1>11 DEF ErrorResponse, found
<1> QED BY <1>10, <1>12, PartSteps

(* No public error is shown twice in a response, however deep the fields nest and
   whatever their errors: what As finds from outside a field is never in it. *)
THEOREM PublicsShownOnce == Spec => []PublicShownOnce
<1>1. ASSUME TreeIInv PROVE PublicShownOnce
  <2> SUFFICES ASSUME NEW n \in Ids, IsInjective(node[n].order) PROVE Distinct(ErrorResponse(n))
    BY DEF PublicShownOnce, Distinct
  <2>1. Distinct(node[n].order)
    <3>1. node[n].order \in Seq(1..n)
      BY <1>1, Typing
    <3>2. DOMAIN node[n].order = 1..Len(node[n].order)
      BY <3>1, LenProperties
    <3> QED BY <3>2 DEF IsInjective, Distinct
  <2>2. PartOK(n)
    BY <1>1, <2>1, AllParts
  <2> QED BY <1>1, <2>2, ResponseParts, DetailsFirst
<1>2. Spec => []TreeIInv
  BY TreeIInvHolds
<1> QED BY <1>1, <1>2, PTL

=============================================================================
