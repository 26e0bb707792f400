---------------------------- MODULE LogView_proof ----------------------------
(***************************************************************************)
(* Theorems about LogView.  An error that repeats the message of its cause   *)
(* has the entries of that cause, but for the first, in which it stands      *)
(* before the run of the cause (LoggedSteps): what is read from the entries   *)
(* of a tree is what is read from its walk.                                  *)
(***************************************************************************)
EXTENDS LogView, ErrorTree_proof

-----------------------------------------------------------------------------
(* The first answer. *)

FirstOf(s, none, i) ==
    i \in 1..Len(s) /\ s[i] # none /\ \A j \in 1..(i - 1) : s[j] = none
NoAnswer(s, none) == \A i \in 1..Len(s) : s[i] = none

LEMMA FirstAnswer ==
    ASSUME NEW S, NEW s \in Seq(S), NEW none
    PROVE  \/ \E i : FirstOf(s, none, i) /\ First(s, none) = s[i]
           \/ NoAnswer(s, none) /\ First(s, none) = none
<1> DEFINE I == {i \in 1..Len(s) : s[i] # none}
           first == IF I # {} THEN Min(I) ELSE 0
<1>1. First(s, none) = IF first = 0 THEN none ELSE s[first]
  <2>1. SelectInSeq(s, LAMBDA a : a # none) = first
    BY Zenon DEF SelectInSeq
  <2> HIDE DEF first
  <2> QED BY <2>1, Zenon DEF First
<1>2. CASE I = {}
  BY <1>1, <1>2 DEF NoAnswer
<1>3. CASE I # {}
  <2>1. I \subseteq Nat
    OBVIOUS
  <2>2. PICK x \in I : \A y \in I : x <= y
    <3> HIDE DEF I
    <3> QED BY <1>3, <2>1, LeastElement
  <2>3. Min(I) \in I /\ \A y \in I : Min(I) <= y
    <3> HIDE DEF I
    <3> QED BY <2>2 DEF Min
  <2>4. first = Min(I)
    BY <1>3
  <2> HIDE DEF first
  <2>5. first \in I /\ \A j \in I : first <= j
    BY <2>3, <2>4
  <2>6. first \in 1..Len(s) /\ s[first] # none /\ first # 0
    BY <2>5
  <2>7. ASSUME NEW j \in 1..(first - 1) PROVE s[j] = none
    <3>1. j \in 1..Len(s) /\ ~(first <= j)
      BY <2>6
    <3> QED BY <2>5, <3>1
  <2>8. FirstOf(s, none, first)
    BY <2>6, <2>7 DEF FirstOf
  <2> QED BY <1>1, <2>6, <2>8
<1> QED BY <1>2, <1>3

LEMMA FirstIs ==
    ASSUME NEW S, NEW s \in Seq(S), NEW none
    PROVE  /\ \A i : FirstOf(s, none, i) => First(s, none) = s[i]
           /\ NoAnswer(s, none) => First(s, none) = none
<1>1. ASSUME NEW i, FirstOf(s, none, i), NEW k, FirstOf(s, none, k) PROVE i = k
  <2>1. i \in 1..Len(s) /\ k \in 1..Len(s) /\ ~(i \in 1..(k - 1)) /\ ~(k \in 1..(i - 1))
    BY <1>1 DEF FirstOf
  <2> QED BY <2>1
<1>2. ASSUME NEW i, FirstOf(s, none, i) PROVE ~NoAnswer(s, none)
  BY <1>2 DEF FirstOf, NoAnswer
<1> QED BY <1>1, <1>2, FirstAnswer

(* The first answer of two lists in a row: that of the second is heard when there is
   none in the first. *)
Either(a, b, none) == IF a # none THEN a ELSE b

LEMMA FirstConcat ==
    ASSUME NEW S, NEW s \in Seq(S), NEW t \in Seq(S), NEW none
    PROVE  First(s \o t, none) = Either(First(s, none), First(t, none), none)
<1> DEFINE u == s \o t
<1>1. /\ u \in Seq(S) /\ Len(u) = Len(s) + Len(t) /\ Len(s) \in Nat /\ Len(t) \in Nat
      /\ \A i \in 1..Len(s) : i \in 1..Len(u) /\ u[i] = s[i]
      /\ \A i \in 1..Len(t) : Len(s) + i \in 1..Len(u) /\ u[Len(s) + i] = t[i]
      /\ \A i \in 1..Len(u) : i \notin 1..Len(s) => \E k \in 1..Len(t) : i = Len(s) + k
  BY Concat
<1> HIDE DEF u
<1>2. ASSUME NEW i, FirstOf(s, none, i) PROVE FirstOf(u, none, i) /\ u[i] = s[i]
  <2>1. i \in 1..Len(s) /\ \A j \in 1..(i - 1) : j \in 1..Len(s)
    BY <1>1, <1>2 DEF FirstOf
  <2> QED BY <1>1, <1>2, <2>1 DEF FirstOf
<1>3. ASSUME NoAnswer(s, none), NEW k, FirstOf(t, none, k)
      PROVE  FirstOf(u, none, Len(s) + k) /\ u[Len(s) + k] = t[k]
  <2>1. k \in 1..Len(t) /\ t[k] # none
    BY <1>3 DEF FirstOf
  <2>2. ASSUME NEW j \in 1..((Len(s) + k) - 1) PROVE u[j] = none
    <3>1. CASE j \in 1..Len(s)
      BY <1>1, <1>3, <3>1 DEF NoAnswer
    <3>2. CASE j \notin 1..Len(s)
      <4>1. j \in 1..Len(u)
        BY <1>1, <2>1
      <4>2. PICK p \in 1..Len(t) : j = Len(s) + p
        BY <1>1, <3>2, <4>1
      <4>3. p \in 1..(k - 1)
        BY <1>1, <2>1, <4>2
      <4> QED BY <1>1, <1>3, <4>2, <4>3 DEF FirstOf
    <3> QED BY <3>1, <3>2
  <2> QED BY <1>1, <2>1, <2>2 DEF FirstOf
<1>4. ASSUME NoAnswer(s, none), NoAnswer(t, none) PROVE NoAnswer(u, none)
  <2> SUFFICES ASSUME NEW i \in 1..Len(u) PROVE u[i] = none
    BY DEF NoAnswer
  <2>1. CASE i \in 1..Len(s)
    BY <1>1, <1>4, <2>1 DEF NoAnswer
  <2>2. CASE i \notin 1..Len(s)
    BY <1>1, <1>4, <2>2 DEF NoAnswer
  <2> QED BY <2>1, <2>2
<1>5. CASE \E i : FirstOf(s, none, i) /\ First(s, none) = s[i]
  <2>1. PICK i : FirstOf(s, none, i) /\ First(s, none) = s[i]
    BY <1>5
  <2>2. First(u, none) = s[i] /\ s[i] # none
    <3>1. FirstOf(u, none, i) /\ u[i] = s[i]
      BY <1>2, <2>1
    <3>2. First(u, none) = u[i]
      BY <1>1, <3>1, FirstIs
    <3>3. s[i] # none
      BY <2>1 DEF FirstOf
    <3> QED BY <3>1, <3>2, <3>3
  <2> QED BY <2>1, <2>2 DEF Either, u
<1>6. CASE NoAnswer(s, none) /\ First(s, none) = none
  <2>1. CASE \E k : FirstOf(t, none, k) /\ First(t, none) = t[k]
    <3>1. PICK k : FirstOf(t, none, k) /\ First(t, none) = t[k]
      BY <2>1
    <3>2. FirstOf(u, none, Len(s) + k) /\ u[Len(s) + k] = t[k]
      BY <1>3, <1>6, <3>1
    <3>3. First(u, none) = t[k]
      BY <1>1, <3>2, FirstIs
    <3> QED BY <1>6, <3>1, <3>3 DEF Either, u
  <2>2. CASE NoAnswer(t, none) /\ First(t, none) = none
    BY <1>1, <1>4, <1>6, <2>2, FirstIs DEF Either, u
  <2> QED BY <2>1, <2>2, FirstAnswer
<1> QED BY <1>5, <1>6, FirstAnswer

LEMMA FirstOne ==
    ASSUME NEW S, NEW a \in S, NEW none
    PROVE  First(<<a>>, none) = a /\ First(<<>>, none) = none
<1>1. <<a>> \in Seq(S) /\ Len(<<a>>) = 1 /\ <<a>>[1] = a /\ <<>> \in Seq(S) /\ Len(<<>>) = 0
  BY OneKid, EmptySeq
<1>2. First(<<>>, none) = none
  <2>1. NoAnswer(<<>>, none)
    BY <1>1 DEF NoAnswer
  <2> QED BY <1>1, <2>1, FirstIs
<1>3. CASE a = none
  <2>1. NoAnswer(<<a>>, none)
    BY <1>1, <1>3 DEF NoAnswer
  <2> QED BY <1>1, <1>2, <1>3, <2>1, FirstIs
<1>4. CASE a # none
  <2>1. FirstOf(<<a>>, none, 1)
    BY <1>1, <1>4 DEF FirstOf
  <2> QED BY <1>1, <1>2, <2>1, FirstIs
<1> QED BY <1>2, <1>3, <1>4

(* A list of parts is answered by the first part that answers. *)
Firsts(ss, none) == [k \in 1..Len(ss) |-> First(ss[k], none)]

LEMMA FirstIn ==
    ASSUME NEW S, NEW none \in S, NEW s \in Seq(S)
    PROVE  First(s, none) \in S
<1>1. CASE \E i : FirstOf(s, none, i) /\ First(s, none) = s[i]
  BY <1>1 DEF FirstOf
<1> QED BY <1>1, FirstAnswer

LEMMA FirstFlatten ==
    ASSUME NEW S, NEW none \in S, NEW ss \in Seq(Seq(S))
    PROVE  First(FlattenSeq(ss), none) = First(Firsts(ss, none), none)
<1> DEFINE N == Len(ss)
           f == [t \in Seq(S) |-> First(t, none)]
           tt == [k \in 1..N |-> <<First(ss[k], none)>>]
           op == [p \in S \X S |-> Either(p[1], p[2], none)]
<1>1. N \in Nat /\ \A k \in 1..N : ss[k] \in Seq(S)
  OBVIOUS
<1>2. /\ Firsts(ss, none) \in Seq(S) /\ Len(Firsts(ss, none)) = N
      /\ \A k \in 1..N : Firsts(ss, none)[k] = First(ss[k], none)
  <2>1. \A k \in 1..N : First(ss[k], none) \in S
    BY <1>1, FirstIn
  <2> HIDE DEF N
  <2> QED BY <1>1, <2>1 DEF Firsts, N
<1>3. tt \in Seq(Seq(S)) /\ Len(tt) = N /\ \A k \in 1..N : tt[k] = <<Firsts(ss, none)[k]>>
  <2>1. \A k \in 1..N : <<First(ss[k], none)>> \in Seq(S)
    BY <1>1, FirstIn, OneKid
  <2> HIDE DEF N
  <2> QED BY <1>1, <1>2, <2>1
<1>4. FlattenSeq(tt) = Firsts(ss, none)
  <2> DEFINE s == Firsts(ss, none)
  <2>2. PICK flat : /\ flat[0] = <<>> /\ FlattenSeq(tt) = flat[Len(tt)]
                    /\ \A k \in 1..Len(tt) : flat[k] = flat[k - 1] \o tt[k]
                    /\ \A k \in 0..Len(tt) : flat[k] \in Seq(S)
    BY <1>3, FlattenTable
  <2> DEFINE Good(k) == Len(flat[k]) = k /\ \A i \in 1..k : flat[k][i] = s[i]
             T == {k \in 0..N : Good(k)}
  <2> HIDE DEF tt, N, s
  <2>3. ASSUME NEW k \in 0..N, \A m \in 0..(k - 1) : m \in T PROVE k \in T
    <3>1. CASE k = 0
      BY <2>2, <3>1
    <3>2. CASE k # 0
      <4>1. k \in 1..N /\ k - 1 \in 0..(k - 1) /\ k - 1 \in 0..N
        BY <1>1, <3>2
      <4>2. Good(k - 1) /\ flat[k - 1] \in Seq(S) /\ flat[k] = flat[k - 1] \o <<s[k]>> /\ s[k] \in S
        <5>1. Good(k - 1)
          BY <2>3, <4>1
        <5>2. flat[k] = flat[k - 1] \o tt[k] /\ flat[k - 1] \in Seq(S)
          BY <1>3, <2>2, <4>1
        <5>3. tt[k] = <<s[k]>> /\ s[k] \in S
          BY <1>2, <1>3, <4>1 DEF s
        <5> QED BY <5>1, <5>2, <5>3
      <4>3. Good(k)
        <5> PICK a : a = flat[k - 1]
          OBVIOUS
        <5> PICK x : x = s[k]
          OBVIOUS
        <5>1. /\ Len(a \o <<x>>) = Len(a) + 1 /\ (a \o <<x>>)[Len(a) + 1] = x
              /\ \A i \in 1..Len(a) : (a \o <<x>>)[i] = a[i]
          BY <4>2
        <5>2. k \in Nat /\ Len(a) = k - 1 /\ flat[k] = a \o <<x>> /\ \A i \in 1..(k - 1) : a[i] = s[i]
          BY <4>1, <4>2
        <5>3. Len(flat[k]) = k /\ flat[k][k] = s[k]
          BY <5>1, <5>2
        <5>4. ASSUME NEW i \in 1..k, i # k PROVE flat[k][i] = s[i]
          <6>1. i \in 1..(k - 1)
            BY <5>2, <5>4
          <6> QED BY <5>1, <5>2, <6>1
        <5> QED BY <5>3, <5>4
      <4> QED BY <4>3
    <3> QED BY <3>1, <3>2
  <2>4. 0..N \subseteq T
    <3> HIDE DEF T
    <3>1. 0 \in Nat
      OBVIOUS
    <3> QED BY ONLY <1>1, <2>3, <3>1, IntervalInduction
  <2>5. Good(N) /\ flat[N] \in Seq(S)
    BY <1>1, <1>3, <2>2, <2>4
  <2> QED BY <1>2, <1>3, <2>2, <2>5 DEF s
<1>5. /\ Joins(f, op, S) /\ f[<<>>] = none
  <2>1. ASSUME NEW s \in Seq(S), NEW t \in Seq(S) PROVE f[s \o t] = op[<<f[s], f[t]>>]
    <3>1. s \o t \in Seq(S) /\ f[s] \in S /\ f[t] \in S /\ f[s \o t] = First(s \o t, none)
      BY FirstIn, ConcatProperties
    <3>2. First(s \o t, none) = Either(f[s], f[t], none)
      BY FirstConcat
    <3> QED BY <3>1, <3>2
  <2>2. f[<<>>] = none
    BY FirstOne, EmptySeq
  <2> HIDE DEF f, op
  <2> QED BY <2>1, <2>2 DEF Joins
<1>6. Agree(f, f, ss, tt)
  <2>1. ASSUME NEW k \in 1..N PROVE f[ss[k]] = f[tt[k]]
    <3>1. First(ss[k], none) \in S /\ <<First(ss[k], none)>> \in Seq(S)
      BY <1>1, FirstIn, OneKid
    <3>2. f[ss[k]] = First(ss[k], none) /\ f[tt[k]] = First(<<First(ss[k], none)>>, none)
      BY <1>1, <3>1
    <3> QED BY <3>1, <3>2, FirstOne
  <2> HIDE DEF f, tt
  <2> QED BY <1>3, <2>1 DEF Agree
<1>7. f[FlattenSeq(ss)] = f[FlattenSeq(tt)]
  <2> HIDE DEF f, tt, op
  <2> QED BY <1>3, <1>5, <1>6, FlattenAgree
<1>8. FlattenSeq(ss) \in Seq(S) /\ FlattenSeq(tt) \in Seq(S)
  <2> HIDE DEF tt
  <2> QED BY <1>3, Flatten
<1> QED BY <1>2, <1>4, <1>7, <1>8
-----------------------------------------------------------------------------
(* The errors whose message repeats that of their cause. *)

RepeatOK(e, r) ==
    /\ r \in BOOLEAN /\ (e.kind \in Markers => r)
    /\ r => e.kind \in Markers \cup {"wrap", "detailed"} /\ Len(e.kids) = 1
RepeatsOK ==
    /\ repeats \in Seq(BOOLEAN) /\ Len(repeats) = Len(node)
    /\ \A n \in Ids : RepeatOK(node[n], repeats[n])

(* AttachCodeTo gives a code to errors that have none. *)
Stamped(e) == e.kind = "coded" => e.kids[1] \in Ids /\ GetCode[e.kids[1]] = Code.NoCode
StampedOnce == \A n \in Ids : Stamped(node[n])

UnnamedOK == \A n \in unnamed : n \in Ids /\ node[n].kind = "field"

LIInv == TreeIInv /\ RepeatsOK /\ StampedOnce /\ UnnamedOK

LEMMA KidCounts ==
    ASSUME NEW e, KindOK(e)
    PROVE  /\ e.kind \in Decorators => Len(e.kids) = 1
           /\ e.kind = "detailed" => Len(e.kids) <= 1
<1>1. ASSUME e.kind \in Decorators PROVE Len(e.kids) = 1
  <2>1. e.kind \notin Leaves /\ e.kind # "detailed"
    BY <1>1, SentinelsAssumption DEF Leaves, Kinds, Decorators
  <2>2. e.kind \notin {"link", "linkMulti", "wrapMulti", "multi"}
    BY <1>1 DEF Decorators
  <2> QED BY <1>1, <2>1, <2>2 DEF KindOK
<1>2. ASSUME e.kind = "detailed" PROVE Len(e.kids) <= 1
  <2>1. e.kind \notin Decorators /\ e.kind \notin Leaves
    BY <1>2, SentinelsAssumption DEF Leaves, Kinds, Decorators
  <2> QED BY <1>2, <2>1 DEF KindOK
<1> QED BY <1>1, <1>2

LEMMA RepeatingOK ==
    ASSUME NEW e, e.kids \in Seq(Nat), KindOK(e), NEW r \in Repeating(e)
    PROVE  RepeatOK(e, r)
<1>1. Len(e.kids) \in Nat
  BY LenProperties
<1>2. CASE e.kind \in Markers
  <2>1. Len(e.kids) = 1
    BY <1>2, KidCounts DEF Markers, Decorators
  <2> QED BY <1>2, <2>1 DEF Repeating, RepeatOK
<1>3. CASE e.kind \notin Markers /\ e.kind \in {"wrap", "detailed"} /\ e.kids # <<>>
  <2>1. Len(e.kids) <= 1
    <3>1. "wrap" \in Decorators
      BY DEF Decorators
    <3>2. e.kind = "wrap" => Len(e.kids) = 1
      BY <3>1, KidCounts
    <3>3. e.kind = "detailed" => Len(e.kids) <= 1
      BY KidCounts
    <3>4. \A k \in Nat : k = 1 => k <= 1
      OBVIOUS
    <3> QED BY <1>1, <1>3, <3>2, <3>3, <3>4
  <2>2. Len(e.kids) # 0
    BY <1>1, <1>3, EmptySeq
  <2>3. \A k \in Nat : k # 0 /\ k <= 1 => k = 1
    OBVIOUS
  <2>4. Len(e.kids) = 1
    BY ONLY <1>1, <2>1, <2>2, <2>3
  <2> QED BY <1>3, <2>4 DEF Repeating, RepeatOK
<1>4. CASE e.kind \notin Markers /\ ~(e.kind \in {"wrap", "detailed"} /\ e.kids # <<>>)
  BY <1>4 DEF Repeating, RepeatOK
<1> QED BY <1>2, <1>3, <1>4

(* Of the constructors only AttachCodeTo makes an error with a code attached. *)
LEMMA NextStamps ==
    ASSUME TreeIInv, Next
    PROVE  \E e : Makeable(e) /\ Place(e) /\ Stamped(e)
<1>1. ASSUME NEW kind, kind # "coded", NEW kids, NEW c, NEW public, Makes(kind, kids, c, public)
      PROVE  \E e : Makeable(e) /\ Place(e) /\ Stamped(e)
  BY <1>1 DEF Makes, Stamped
<1>2. CASE Originate
  <2>1. PICK e : Makeable(e) /\ Place(e) /\ e.kids = <<>>
    BY <1>2, OriginateMakes
  <2>2. e.kind # "coded"
    <3>1. "coded" \in Decorators /\ Len(<<>>) # 1 /\ KindOK(e)
      BY <2>1 DEF Decorators, Makeable
    <3> QED BY <2>1, <3>1, KidCounts
  <2> QED BY <2>1, <2>2 DEF Stamped
<1>3. ASSUME NEW err \in Ids, Annotate(err)
      PROVE  \E e : Makeable(e) /\ Place(e) /\ Stamped(e)
  <2>1. PICK kind \in {"wrap", "detailed", "transient", "stack"}, public \in BOOLEAN :
            Makes(kind, <<err>>, Code.NoCode, public)
    BY <1>3, AnnotateMakes
  <2> QED BY <1>1, <2>1
<1>4. ASSUME NEW err \in Ids, Stamp(err)
      PROVE  \E e : Makeable(e) /\ Place(e) /\ Stamped(e)
  <2>1. CASE AttachCodeTo(err)
    <3>1. PICK c \in MapperCode(err) : Place(Error("coded", <<err>>, c, FALSE))
      BY <2>1 DEF AttachCodeTo, Made
    <3>2. GetCode[err] = Code.NoCode
      BY <2>1 DEF AttachCodeTo
    <3>3. c \in Int \ {Code.OK} /\ "coded" \in Decorators
      BY MapperCodes DEF Decorators
    <3>4. PICK e : Makeable(e) /\ Place(e) /\ e.kids = <<err>>
      <4>1. Makes("coded", <<err>>, c, FALSE)
        BY <3>1, <3>3, DecorateMakes
      <4> QED BY <4>1 DEF Makes
    <3> QED BY <3>2, <3>4 DEF Stamped
  <2>2. ASSUME NEW c \in Codes, NEW op, NEW public \in BOOLEAN, newDetailed(op, c, err, public)
        PROVE  \E e : Makeable(e) /\ Place(e) /\ Stamped(e)
    <3>1. Makes("detailed", <<err>>, c, public)
      BY <2>2, CodesAssumption, DetailedMakes
    <3> QED BY <1>1, <3>1
  <2>3. CASE \E c \in Codes : PropagateWithCode(err, c)
    BY <2>2, <2>3 DEF PropagateWithCode
  <2>4. CASE \E c \in Codes, public \in BOOLEAN : Detailed(c, err, public)
    BY <2>2, <2>4 DEF Detailed
  <2> QED BY <1>4, <2>1, <2>3, <2>4 DEF Stamp
<1>5. ASSUME NEW err \in Ids, FieldError(err)
      PROVE  \E e : Makeable(e) /\ Place(e) /\ Stamped(e)
  BY <1>1, <1>5, FieldErrorMakes
<1>6. ASSUME NEW errs \in ArgLists, Collect(errs)
      PROVE  \E e : Makeable(e) /\ Place(e) /\ Stamped(e)
  <2>1. PICK kind \in CollectKinds : \E kids \in Seq(Ids) : Makes(kind, kids, Code.NoCode, FALSE)
    BY <1>6, CollectMakes
  <2>2. kind # "coded"
    BY DEF CollectKinds
  <2> QED BY <1>1, <2>1, <2>2
<1> QED BY <1>2, <1>3, <1>4, <1>5, <1>6 DEF Next

LEMMA LNextKeeps ==
    ASSUME LIInv, LNext
    PROVE  LIInv'
<1>1. TreeIInv /\ RepeatsOK /\ StampedOnce /\ UnnamedOK /\ Next
  BY DEF LIInv, LNext
<1>2. PICK e : Makeable(e) /\ Place(e) /\ Stamped(e)
  BY <1>1, NextStamps
<1> PICK m : m = Len(node) + 1
  OBVIOUS
<1>3. /\ m \in Nat /\ Len(node') = m /\ Ids' = 1..m /\ Ids = 1..Len(node) /\ Len(node) \in Nat
      /\ \A n \in Ids : node'[n] = node[n] /\ n # m
      /\ node'[m] = [e EXCEPT !.order = AsOrder(e)]
  BY <1>1, <1>2, PlaceFacts, Typing
<1>4. TreeIInv' /\ Grows
  BY <1>1, <1>2, PlaceGrows
<1>5. /\ node'[m].kind = e.kind /\ node'[m].kids = e.kids
      /\ e.kids \in Seq(Nat) /\ KindOK(e)
  <2>1. e \in Errors /\ KindOK(e)
    BY <1>2 DEF Makeable
  <2> QED BY <1>3, <2>1 DEF Errors
<1> PICK new : new = Last(node')
  OBVIOUS
<1>13. new = node'[m]
  BY <1>3 DEF Last
<1>6. PICK r \in Repeating(e) : repeats' = Append(repeats, r)
  <2>1. Last(node') = node'[m]
    BY <1>13
  <2>2. Repeating(node'[m]) = Repeating(e)
    BY <1>5 DEF Repeating
  <2> QED BY <2>1, <2>2 DEF LNext
<1>7. RepeatOK(node'[m], r)
  <2>1. RepeatOK(e, r)
    BY <1>5, <1>6, RepeatingOK
  <2> QED BY <1>5, <2>1 DEF RepeatOK
<1>8. RepeatsOK'
  <2>1. repeats \in Seq(BOOLEAN) /\ Len(repeats) = Len(node) /\ r \in BOOLEAN
    BY <1>1, <1>7 DEF RepeatsOK, RepeatOK
  <2>2. /\ repeats' \in Seq(BOOLEAN) /\ Len(repeats') = Len(node')
        /\ repeats'[m] = r /\ \A n \in Ids : repeats'[n] = repeats[n]
    BY <1>3, <1>6, <2>1
  <2>3. ASSUME NEW n \in Ids' PROVE RepeatOK(node'[n], repeats'[n])
    <3>1. CASE n = m
      BY <1>7, <2>2, <3>1
    <3>2. CASE n # m
      <4>1. n \in Ids
        BY <1>3, <3>2
      <4> QED BY <1>1, <1>3, <2>2, <4>1 DEF RepeatsOK
    <3> QED BY <3>1, <3>2
  <2>4. \A n \in Ids' : RepeatOK(node[n], repeats[n])'
    BY <2>3 DEF RepeatOK
  <2> QED BY <2>2, <2>4 DEF RepeatsOK
<1>9. \A k \in Ids : k \in Ids' /\ GetCode'[k] = GetCode[k]
  BY <1>1, <1>3, <1>4, ReadKept
<1>10. ASSUME NEW n \in Ids', node'[n].kind = "coded"
       PROVE  node'[n].kids[1] \in Ids' /\ GetCode'[node'[n].kids[1]] = Code.NoCode
  <2>1. CASE n = m
    BY <1>2, <1>5, <1>9, <1>10, <2>1 DEF Stamped
  <2>2. CASE n # m
    <3>1. n \in Ids
      BY <1>3, <2>2
    <3> QED BY <1>1, <1>3, <1>9, <1>10, <3>1 DEF StampedOnce, Stamped
  <2> QED BY <2>1, <2>2
<1>11. StampedOnce'
  BY <1>10 DEF StampedOnce, Stamped
<1>12. UnnamedOK'
  <2>1. unnamed' \in Naming(new)
    BY DEF LNext
  <2>2. unnamed' = unnamed \/ (new.kind = "field" /\ unnamed' = unnamed \cup {m})
    BY <2>1 DEF Naming
  <2>3. ASSUME NEW n \in unnamed' PROVE n \in Ids' /\ node'[n].kind = "field"
    <3>1. CASE n \in unnamed
      <4>1. n \in Ids /\ node[n].kind = "field"
        BY <1>1, <3>1 DEF UnnamedOK
      <4>2. node'[n] = node[n] /\ n \in Ids'
        BY <1>3, <4>1
      <4> QED BY <4>1, <4>2
    <3>2. CASE n = m /\ new.kind = "field"
      <4>1. node'[n].kind = "field"
        BY <1>13, <3>2
      <4>2. m \in 1..m
        <5>1. m = Len(node) + 1 /\ Len(node) \in Nat
          BY <1>3
        <5> QED BY ONLY <5>1
      <4> QED BY <1>3, <3>2, <4>1, <4>2
    <3> QED BY <2>2, <2>3, <3>1, <3>2
  <2> QED BY <2>3 DEF UnnamedOK
<1> QED BY <1>4, <1>8, <1>11, <1>12 DEF LIInv

LEMMA SameLKeeps ==
    ASSUME LIInv, UNCHANGED lvars
    PROVE  LIInv'
<1>1. TreeIInv' /\ Ids' = Ids /\ node' = node /\ repeats' = repeats /\ unnamed' = unnamed
  BY SameGrows DEF LIInv, lvars
<1>2. \A k \in Ids : GetCode'[k] = GetCode[k]
  BY SameGrows, ReadKept DEF LIInv, lvars
<1>3. RepeatsOK'
  BY <1>1 DEF LIInv, RepeatsOK, RepeatOK
<1>4. StampedOnce'
  BY <1>1, <1>2 DEF LIInv, StampedOnce, Stamped
<1>5. UnnamedOK'
  BY <1>1 DEF LIInv, UnnamedOK
<1> QED BY <1>1, <1>3, <1>4, <1>5 DEF LIInv

LEMMA LIInvHolds == LSpec => []LIInv
<1>1. LInit => LIInv
  <2> SUFFICES ASSUME LInit PROVE LIInv
    OBVIOUS
  <2>1. node = <<>> /\ repeats = <<>> /\ Ids = {} /\ unnamed = {}
    BY DEF LInit, Init, Ids
  <2>2. node \in Seq(Errors)
    BY <2>1, EmptySeq
  <2>3. RepeatsOK
    BY <2>1, EmptySeq DEF RepeatsOK
  <2> QED BY <2>1, <2>2, <2>3 DEF LIInv, TreeIInv, TypeOK, StampedOnce, UnnamedOK
<1>2. LIInv /\ [LNext]_lvars => LIInv'
  BY LNextKeeps, SameLKeeps
<1> QED BY <1>1, <1>2, PTL DEF LSpec

(* For every error it is known whether it repeats the message of a cause, and only
   errors with one cause do; only field errors have an empty name. *)
THEOREM ViewsTypeCorrect == LSpec => []LTypeOK
<1>1. LIInv => LTypeOK
  BY DEF LIInv, RepeatsOK, RepeatOK, UnnamedOK, LTypeOK
<1> QED BY <1>1, LIInvHolds, PTL

-----------------------------------------------------------------------------
(* Runs. *)

LEMMA CauseKid ==
    ASSUME LIInv, NEW e \in Ids
    PROVE  /\ repeats[e] \in BOOLEAN /\ (~repeats[e] => node[e].kind \notin Markers)
           /\ ~repeats[e] => transparentCause(e) = Nil
           /\ repeats[e] => LET k == transparentCause(e)
                            IN  k \in 1..(e - 1) /\ k \in Ids /\ k # Nil /\ node[e].kids = <<k>>
<1>1. TreeIInv /\ RepeatOK(node[e], repeats[e])
  BY DEF LIInv, RepeatsOK
<1>2. repeats[e] \in BOOLEAN /\ (~repeats[e] => node[e].kind \notin Markers)
  BY <1>1 DEF RepeatOK
<1>3. ~repeats[e] => transparentCause(e) = Nil
  BY DEF transparentCause
<1>4. ASSUME repeats[e], NEW k, k = transparentCause(e)
      PROVE  k \in 1..(e - 1) /\ k \in Ids /\ k # Nil /\ node[e].kids = <<k>>
  <2>1. Len(node[e].kids) = 1 /\ k = node[e].kids[1]
    BY <1>1, <1>4 DEF RepeatOK, transparentCause
  <2>2. k \in 1..(e - 1) /\ k \in Ids /\ node[e].kids \in Seq(1..(e - 1))
    BY <1>1, <2>1, KidsFacts, Typing
  <2>3. k # Nil
    BY <2>2 DEF Nil
  <2> QED BY <2>1, <2>2, <2>3
<1> QED BY <1>2, <1>3, <1>4

(* One call of Run, the call below it answered by g. *)
RunAt(g, e) ==
    IF transparentCause(e) = Nil THEN <<e>> ELSE <<e>> \o g[transparentCause(e)]

LEMMA RunSteps ==
    ASSUME LIInv
    PROVE  \A e \in Ids : Run[e] = RunAt(Run, e)
<1> DEFINE N == Len(node)
           Tables == [1..N -> Seq(Ids)]
           Fn(g) == [e \in Ids |-> RunAt(g, e)]
           run == CHOOSE g : g = Fn(g)
           d == [e \in 1..N |-> [f \in Tables |-> RunAt(f, e)]]
<1>1. TreeIInv /\ N \in Nat /\ 1 \in Nat /\ Ids = 1..N
  BY Typing DEF LIInv
<1>2. \A e \in Ids : transparentCause(e) # Nil => transparentCause(e) \in 1..(e - 1)
                                                  /\ transparentCause(e) \in Ids
  BY CauseKid
<1>3. ASSUME NEW e \in 1..N, NEW f \in Tables PROVE RunAt(f, e) \in Seq(Ids)
  <2>1. <<e>> \in Seq(Ids)
    BY <1>1, OneKid
  <2>2. transparentCause(e) # Nil => f[transparentCause(e)] \in Seq(Ids)
    BY <1>1, <1>2
  <2> QED BY <2>1, <2>2, ConcatProperties DEF RunAt
<1>4. ASSUME NEW e \in 1..N, NEW f, NEW g, \A i \in 1..(e - 1) : f[i] = g[i]
      PROVE  RunAt(f, e) = RunAt(g, e)
  BY <1>1, <1>2, <1>4 DEF RunAt
<1>5. \E g : g = Fn(g)
  <2>1. d \in [1..N -> [Tables -> Seq(Ids)]]
    BY <1>3
  <2>2. \A e \in 1..N : \A f \in Tables : d[e][f] = RunAt(f, e)
    OBVIOUS
  <2>3. \A e \in 1..N : \A f, g \in Tables :
            (\A i \in 1..(e - 1) : f[i] = g[i]) => d[e][f] = d[e][g]
    <3> SUFFICES ASSUME NEW e \in 1..N, NEW f \in Tables, NEW g \in Tables,
                        \A i \in 1..(e - 1) : f[i] = g[i]
                 PROVE  d[e][f] = d[e][g]
      OBVIOUS
    <3>1. RunAt(f, e) = RunAt(g, e)
      BY <1>4
    <3> HIDE DEF d, N, Tables
    <3> QED BY <2>2, <3>1
  <2> DEFINE S == Seq(Ids)
             c == <<>>
             a == 1
  <2> HIDE DEF d, S, c, a
  <2>4. c \in S
    BY EmptySeq DEF c, S
  <2>5. N \in Nat /\ a \in Nat /\ c \in S /\ ReadsBelow(d, a, N, S)
    BY <1>1, <2>1, <2>3, <2>4 DEF S, a, ReadsBelow
  <2> HIDE DEF N
  <2>6. \E g \in [a..N -> S] : \A e \in a..N : g[e] = d[e][g]
    BY ONLY <2>5, TableFunction
  <2>7. PICK g \in Tables : \A e \in 1..N : g[e] = d[e][g]
    BY <2>6 DEF S, a
  <2>8. \A e \in 1..N : g[e] = RunAt(g, e)
    BY <2>2, <2>7
  <2>9. g = Fn(g)
    BY <1>1, <2>7, <2>8
  <2> QED BY <2>9
<1>6. run = Fn(run)
  <2> HIDE DEF Fn
  <2> QED BY <1>5, Zenon
<1>7. Run = run
  BY Zenon DEF Run, RunAt
<1> HIDE DEF run
<1>8. \A e \in Ids : run[e] = RunAt(run, e)
  BY <1>6
<1> QED BY <1>7, <1>8

(* An entry goes on below the last error of its run. *)
Bottom(e) == Last(Run[e])

RunGood(e) == Run[e] \in Seq(1..e) /\ Run[e] # <<>> /\ Run[e][1] = e /\ Bottom(e) \in 1..e

LEMMA RunFacts ==
    ASSUME LIInv, NEW e \in Ids
    PROVE  /\ RunGood(e)
           /\ ~repeats[e] => Run[e] = <<e>> /\ Bottom(e) = e
           /\ repeats[e] => LET k == transparentCause(e)
                            IN  Run[e] = <<e>> \o Run[k] /\ Bottom(e) = Bottom(k)
<1> DEFINE N == Len(node)
           T == {n \in 1..N : RunGood(n)}
<1>1. TreeIInv /\ N \in Nat /\ 1 \in Nat /\ Ids = 1..N /\ \A n \in Ids : n \in 1..n
  BY Typing DEF LIInv
<1>2. ASSUME NEW n \in Ids
      PROVE  /\ ~repeats[n] => Run[n] = <<n>> /\ Bottom(n) = n /\ RunGood(n)
             /\ repeats[n] /\ RunGood(transparentCause(n)) =>
                   LET k == transparentCause(n)
                   IN  Run[n] = <<n>> \o Run[k] /\ Bottom(n) = Bottom(k) /\ RunGood(n)
  <2>1. ASSUME ~repeats[n] PROVE Run[n] = <<n>> /\ Bottom(n) = n /\ RunGood(n)
    <3>1. Run[n] = <<n>>
      BY <2>1, CauseKid, RunSteps DEF RunAt
    <3>2. /\ <<n>> \in Seq(1..n) /\ Len(<<n>>) = 1 /\ <<n>> # <<>> /\ <<n>>[1] = n
      BY <1>1, OneKid
    <3> QED BY <1>1, <3>1, <3>2 DEF RunGood, Bottom, Last
  <2>2. ASSUME repeats[n], NEW k, k = transparentCause(n), RunGood(k)
        PROVE  Run[n] = <<n>> \o Run[k] /\ Bottom(n) = Bottom(k) /\ RunGood(n)
    <3>1. k # Nil /\ k \in Ids /\ k \in 1..(n - 1)
      BY <2>2, CauseKid
    <3>2. Run[n] = <<n>> \o Run[k]
      BY <2>2, <3>1, RunSteps DEF RunAt
    <3>3. n \in Nat /\ k \in Nat /\ k <= n /\ 1..k \subseteq 1..n
      BY <1>1, <3>1
    <3>4. <<n>> \in Seq(1..n) /\ Len(<<n>>) = 1 /\ Run[k] \in Seq(1..n) /\ Run[k] # <<>>
      <4>1. Run[k] \in Seq(1..n) /\ Run[k] # <<>>
        BY <2>2, <3>3, SeqMonotonic DEF RunGood
      <4> QED BY <1>1, <4>1, OneKid
    <3>5. Len(Run[k]) \in Nat /\ Len(Run[k]) # 0
      BY <3>4, LenProperties, EmptySeq
    <3> DEFINE r == Run[k]
    <3> HIDE DEF r
    <3>6. /\ <<n>> \o r \in Seq(1..n) /\ Len(<<n>> \o r) = 1 + Len(r) /\ (<<n>> \o r)[1] = n
          /\ (<<n>> \o r)[1 + Len(r)] = r[Len(r)]
      BY <1>1, <3>4, <3>5 DEF r
    <3>7. <<n>> \o r # <<>>
      BY <3>5, <3>6, EmptySeq DEF r
    <3>8. Bottom(n) = Bottom(k)
      BY <3>2, <3>6 DEF Bottom, Last, r
    <3>9. Bottom(n) \in 1..n
      BY <2>2, <3>3, <3>8 DEF RunGood
    <3> QED BY <3>2, <3>6, <3>7, <3>8, <3>9 DEF RunGood, r
  <2> QED BY <2>1, <2>2
<1>3. ASSUME NEW n \in 1..N, \A m \in 1..(n - 1) : m \in T PROVE n \in T
  <2>1. repeats[n] => RunGood(transparentCause(n))
    BY <1>1, <1>3, CauseKid
  <2>2. repeats[n] \in BOOLEAN
    BY <1>1, CauseKid
  <2> QED BY <1>1, <1>2, <2>1, <2>2
<1>4. 1..N \subseteq T
  <2> HIDE DEF T, N
  <2> QED BY ONLY <1>1, <1>3, IntervalInduction
<1>5. repeats[e] => RunGood(transparentCause(e))
  BY <1>1, <1>4, CauseKid
<1>6. RunGood(e)
  BY <1>1, <1>4
<1> QED BY <1>2, <1>5, <1>6

(* What g says of the errors below b, in order. *)
Under(g, b) == [i \in 1..Len(node[b].kids) |-> g[node[b].kids[i]]]

LEMMA UnderSeq ==
    ASSUME TreeIInv, NEW b \in Ids, NEW S, NEW g, \A k \in 1..(b - 1) : g[k] \in Seq(S)
    PROVE  /\ Under(g, b) \in Seq(Seq(S)) /\ Len(Under(g, b)) = Len(node[b].kids)
           /\ \A i \in 1..Len(node[b].kids) : Under(g, b)[i] = g[node[b].kids[i]]
           /\ FlattenSeq(Under(g, b)) \in Seq(S)
<1> DEFINE N == Len(node[b].kids)
           u == Under(g, b)
<1>1. N \in Nat /\ \A i \in 1..N : node[b].kids[i] \in 1..(b - 1)
  BY KidsFacts
<1>2. u = [i \in 1..N |-> g[node[b].kids[i]]] /\ \A i \in 1..N : g[node[b].kids[i]] \in Seq(S)
  BY <1>1 DEF Under
<1> HIDE DEF u, N
<1>3. u \in Seq(Seq(S)) /\ Len(u) = N /\ \A i \in 1..N : u[i] = g[node[b].kids[i]]
  BY <1>1, <1>2
<1>4. FlattenSeq(u) \in Seq(S)
  BY <1>3, Flatten
<1> QED BY <1>3, <1>4 DEF u, N

-----------------------------------------------------------------------------
(* The entries of a tree. *)

Views == {newLogView(e) : e \in Ids}

(* One call of newLogView, the calls below it answered by g. *)
LoggedAt(g, e) == <<newLogView(e)>> \o FlattenSeq(Under(g, Bottom(e)))

LEMMA LoggedSteps ==
    ASSUME LIInv
    PROVE  \A e \in Ids : Logged[e] = LoggedAt(Logged, e)
<1> DEFINE N == Len(node)
           Tables == [1..N -> Seq(Views)]
           Fn(g) == [e \in Ids |-> LoggedAt(g, e)]
           logged == CHOOSE g : g = Fn(g)
           d == [e \in 1..N |-> [f \in Tables |-> LoggedAt(f, e)]]
<1>1. TreeIInv /\ N \in Nat /\ 1 \in Nat /\ Ids = 1..N
  BY Typing DEF LIInv
<1>2. \A e \in Ids : Bottom(e) \in Ids /\ Bottom(e) \in 1..e /\ 1..(Bottom(e) - 1) \subseteq 1..(e - 1)
                     /\ 1..(e - 1) \subseteq 1..N
  <2> SUFFICES ASSUME NEW e \in Ids
               PROVE  Bottom(e) \in Ids /\ Bottom(e) \in 1..e
                      /\ 1..(Bottom(e) - 1) \subseteq 1..(e - 1) /\ 1..(e - 1) \subseteq 1..N
    OBVIOUS
  <2>1. Bottom(e) \in 1..e
    BY RunFacts DEF RunGood
  <2> HIDE DEF N
  <2> QED BY <1>1, <2>1
<1>3. ASSUME NEW e \in 1..N, NEW f \in Tables PROVE LoggedAt(f, e) \in Seq(Views)
  <2>1. \A k \in 1..(Bottom(e) - 1) : f[k] \in Seq(Views)
    <3>1. \A k \in 1..(Bottom(e) - 1) : k \in 1..N
      BY <1>1, <1>2
    <3> HIDE DEF N
    <3> QED BY <3>1
  <2>2. FlattenSeq(Under(f, Bottom(e))) \in Seq(Views)
    BY <1>1, <1>2, <2>1, UnderSeq
  <2>3. <<newLogView(e)>> \in Seq(Views)
    BY <1>1, OneKid DEF Views
  <2> QED BY <2>2, <2>3, ConcatProperties DEF LoggedAt
<1>4. ASSUME NEW e \in 1..N, NEW f, NEW g, \A i \in 1..(e - 1) : f[i] = g[i]
      PROVE  LoggedAt(f, e) = LoggedAt(g, e)
  <2>1. \A i \in 1..Len(node[Bottom(e)].kids) :
            f[node[Bottom(e)].kids[i]] = g[node[Bottom(e)].kids[i]]
    BY <1>1, <1>2, <1>4, KidsFacts
  <2>2. Under(f, Bottom(e)) = Under(g, Bottom(e))
    BY <2>1 DEF Under
  <2> QED BY <2>2 DEF LoggedAt
<1>5. \E g : g = Fn(g)
  <2> HIDE DEF LoggedAt
  <2>1. d \in [1..N -> [Tables -> Seq(Views)]]
    BY <1>3
  <2>2. \A e \in 1..N : \A f \in Tables : d[e][f] = LoggedAt(f, e)
    OBVIOUS
  <2>3. \A e \in 1..N : \A f, g \in Tables :
            (\A i \in 1..(e - 1) : f[i] = g[i]) => d[e][f] = d[e][g]
    <3> SUFFICES ASSUME NEW e \in 1..N, NEW f \in Tables, NEW g \in Tables,
                        \A i \in 1..(e - 1) : f[i] = g[i]
                 PROVE  d[e][f] = d[e][g]
      OBVIOUS
    <3>1. LoggedAt(f, e) = LoggedAt(g, e)
      BY <1>4
    <3> HIDE DEF d, N, Tables
    <3> QED BY <2>2, <3>1
  <2> DEFINE S == Seq(Views)
             c == <<>>
             a == 1
  <2> HIDE DEF d, S, c, a
  <2>4. c \in S
    BY EmptySeq DEF c, S
  <2>5. N \in Nat /\ a \in Nat /\ c \in S /\ ReadsBelow(d, a, N, S)
    BY <1>1, <2>1, <2>3, <2>4 DEF S, a, ReadsBelow
  <2> HIDE DEF N
  <2>6. \E g \in [a..N -> S] : \A e \in a..N : g[e] = d[e][g]
    BY ONLY <2>5, TableFunction
  <2>7. PICK g \in Tables : \A e \in 1..N : g[e] = d[e][g]
    BY <2>6 DEF S, a
  <2>8. \A e \in 1..N : g[e] = LoggedAt(g, e)
    BY <2>2, <2>7
  <2>9. g = Fn(g)
    BY <1>1, <2>7, <2>8
  <2> QED BY <2>9
<1>6. logged = Fn(logged)
  <2> HIDE DEF Fn
  <2> QED BY <1>5, Zenon
<1>7. Logged = logged
  BY Zenon DEF Logged, LoggedAt, Under, children, Bottom
<1> HIDE DEF logged
<1>8. \A e \in Ids : logged[e] = LoggedAt(logged, e)
  BY <1>6
<1> QED BY <1>7, <1>8

(* The entries after the first. *)
After(e) == FlattenSeq(Under(Logged, Bottom(e)))

LEMMA LoggedFacts ==
    ASSUME LIInv, NEW e \in Ids
    PROVE  /\ newLogView(e) \in Views /\ Logged[e] = <<newLogView(e)>> \o After(e)
           /\ After(e) \in Seq(Views) /\ Logged[e] \in Seq(Views)
           /\ repeats[e] => After(e) = After(transparentCause(e))
           /\ ~repeats[e] => After(e) = FlattenSeq(Under(Logged, e))
<1> DEFINE N == Len(node)
           T == {n \in 1..N : Logged[n] \in Seq(Views)}
<1>1. TreeIInv /\ N \in Nat /\ 1 \in Nat /\ Ids = 1..N
  BY Typing DEF LIInv
<1>2. ASSUME NEW n \in Ids, \A m \in 1..(n - 1) : Logged[m] \in Seq(Views)
      PROVE  /\ newLogView(n) \in Views /\ Logged[n] = <<newLogView(n)>> \o After(n)
             /\ After(n) \in Seq(Views) /\ Logged[n] \in Seq(Views)
  <2>1. Bottom(n) \in 1..n /\ Bottom(n) \in Ids /\ \A k \in 1..(Bottom(n) - 1) : k \in 1..(n - 1)
    <3>1. Bottom(n) \in 1..n
      BY RunFacts DEF RunGood
    <3> HIDE DEF N
    <3> QED BY <1>1, <3>1
  <2>2. After(n) \in Seq(Views)
    BY <1>1, <1>2, <2>1, UnderSeq DEF After
  <2>3. Logged[n] = <<newLogView(n)>> \o After(n)
    BY LoggedSteps DEF LoggedAt, After
  <2>4. newLogView(n) \in Views /\ <<newLogView(n)>> \in Seq(Views)
    BY OneKid DEF Views
  <2> QED BY <2>2, <2>3, <2>4, ConcatProperties
<1>3. ASSUME NEW n \in 1..N, \A m \in 1..(n - 1) : m \in T PROVE n \in T
  <2> HIDE DEF N
  <2>1. n \in Ids /\ \A m \in 1..(n - 1) : Logged[m] \in Seq(Views)
    BY <1>1, <1>3
  <2> QED BY <1>2, <1>3, <2>1
<1>4. 1..N \subseteq T
  <2> HIDE DEF T, N
  <2> QED BY ONLY <1>1, <1>3, IntervalInduction
<1>5. \A m \in 1..(e - 1) : Logged[m] \in Seq(Views)
  BY <1>1, <1>4
<1>6. repeats[e] => After(e) = After(transparentCause(e))
  BY RunFacts DEF After
<1>7. ~repeats[e] => After(e) = FlattenSeq(Under(Logged, e))
  BY RunFacts DEF After
<1> QED BY <1>2, <1>5, <1>6, <1>7

(* What is read of the entries of a tree, an entry at a time. *)
LEMMA ReadLogged ==
    ASSUME LIInv, NEW e \in Ids, NEW T, NEW r, Maps(r, Views, Seq(T))
    PROVE  /\ FlatMap(r, Logged[e]) = r[newLogView(e)] \o FlatMap(r, After(e))
           /\ FlatMap(r, Logged[e]) \in Seq(T) /\ FlatMap(r, After(e)) \in Seq(T)
           /\ ~repeats[e] => FlatMap(r, After(e)) =
                 FlattenSeq([i \in 1..Len(node[e].kids) |-> FlatMap(r, Logged[node[e].kids[i]])])
<1>1. /\ newLogView(e) \in Views /\ Logged[e] = <<newLogView(e)>> \o After(e)
      /\ After(e) \in Seq(Views) /\ Logged[e] \in Seq(Views) /\ <<newLogView(e)>> \in Seq(Views)
  BY LoggedFacts, OneKid
<1>2. FlatMap(r, Logged[e]) = FlatMap(r, <<newLogView(e)>>) \o FlatMap(r, After(e))
  <2> DEFINE top == <<newLogView(e)>>
             rest == After(e)
  <2>1. top \in Seq(Views) /\ rest \in Seq(Views) /\ Logged[e] = top \o rest
    BY <1>1
  <2> HIDE DEF top, rest
  <2>2. FlatMap(r, top \o rest) = FlatMap(r, top) \o FlatMap(r, rest)
    BY <2>1, FlatMapConcat
  <2> QED BY <2>1, <2>2 DEF top, rest
<1>3. FlatMap(r, <<newLogView(e)>>) = r[newLogView(e)]
  BY <1>1, FlatMapOne
<1>4. FlatMap(r, Logged[e]) \in Seq(T) /\ FlatMap(r, After(e)) \in Seq(T)
  BY <1>1, FlatMapSeq
<1>5. ASSUME ~repeats[e]
      PROVE  FlatMap(r, After(e)) =
                 FlattenSeq([i \in 1..Len(node[e].kids) |-> FlatMap(r, Logged[node[e].kids[i]])])
  <2> DEFINE u == Under(Logged, e)
             N == Len(node[e].kids)
  <2>1. \A k \in 1..(e - 1) : k \in Ids
    BY Typing DEF LIInv
  <2>2. u \in Seq(Seq(Views)) /\ Len(u) = N /\ \A i \in 1..N : u[i] = Logged[node[e].kids[i]]
    <3>1. \A k \in 1..(e - 1) : Logged[k] \in Seq(Views)
      BY <2>1, LoggedFacts
    <3> QED BY <3>1, UnderSeq DEF LIInv
  <2>3. After(e) = FlattenSeq(u)
    BY <1>5, LoggedFacts
  <2> HIDE DEF u, N
  <2>4. FlatMap(r, FlattenSeq(u)) = FlattenSeq([k \in 1..Len(u) |-> FlatMap(r, u[k])])
    <3>1. u \in Seq(Seq(Views))
      BY <2>2
    <3> QED BY <3>1, FlatMapFlatten
  <2>5. [k \in 1..Len(u) |-> FlatMap(r, u[k])] = [i \in 1..N |-> FlatMap(r, Logged[node[e].kids[i]])]
    BY <2>2
  <2> QED BY <2>3, <2>4, <2>5 DEF N
<1> QED BY <1>2, <1>3, <1>4, <1>5

-----------------------------------------------------------------------------
(* The entries have the errors of the walk, in order. *)

LEMMA UnderOne ==
    ASSUME NEW e, NEW k, node[e].kids = <<k>>, NEW S, NEW g, g[k] \in Seq(S)
    PROVE  FlattenSeq(Under(g, e)) = g[k]
<1>1. Under(g, e) = <<g[k]>>
  BY DEF Under
<1> DEFINE s == g[k]
<1>2. s \in Seq(S)
  OBVIOUS
<1> HIDE DEF s
<1>3. FlattenSeq(<<s>>) = s
  BY <1>2, FlattenOne
<1> QED BY <1>1, <1>3 DEF s

Visits == [e \in Ids |-> Visited(e)]

LEMMA VisitedSteps ==
    ASSUME TreeIInv, NEW e \in Ids
    PROVE  /\ Visits[e] = Visited(e) /\ Visits[e] \in Seq(Ids)
           /\ Visits[e] = <<e>> \o FlattenSeq(Under(Visits, e))
<1> DEFINE f == [m \in Visit |-> m.err]
           Read(k, x) == Map(f, Block(walk, k, x))
<1>1. Maps(f, Visit, Ids)
  BY DEF Maps, Visit
<1>2. ASSUME NEW k \in Ids
      PROVE  walk[k] \in Seq(Visit) /\ walk[k] = FlattenSeq(Blocks(walk, k))
  BY AllWalked, WalkSteps
<1>3. ASSUME NEW k \in Ids, NEW x \in Ids \cup {Nil}
      PROVE  /\ Block(walk, k, x) \in Seq(Visit) /\ Read(k, x) \in Seq(Ids)
             /\ Read(k, x) = <<k>> \o Map(f, walk[k])
  <2> DEFINE top == <<[err |-> k, from |-> x]>>
             w == walk[k]
  <2>1. top \in Seq(Visit) /\ Len(top) = 1 /\ top[1] = [err |-> k, from |-> x] /\ top[1] \in Visit
    BY TopVisit DEF Visit
  <2>2. w \in Seq(Visit) /\ Block(walk, k, x) = top \o w
    BY <1>2 DEF Block
  <2>3. Map(f, top) = <<k>>
    BY <2>1 DEF Map
  <2> HIDE DEF f, top, w
  <2>4. Map(f, top \o w) = Map(f, top) \o Map(f, w)
    BY <1>1, <2>1, <2>2, MapConcat
  <2>5. top \o w \in Seq(Visit)
    BY <2>1, <2>2, ConcatProperties
  <2>6. Map(f, top \o w) \in Seq(Ids)
    BY <1>1, <2>5, MapSeq
  <2> QED BY <2>2, <2>3, <2>4, <2>5, <2>6 DEF w
<1>4. ASSUME NEW k \in Ids PROVE Visits[k] = Visited(k) /\ Visited(k) = Read(k, Nil)
  <2>1. Walk(k) = Block(walk, k, Nil) /\ Walk(k) \in Seq(Visit)
    BY <1>3 DEF Walk, Block
  <2> DEFINE w == Walk(k)
  <2>2. Visited(k) = [i \in 1..Len(w) |-> w[i].err]
    BY DEF Visited
  <2>3. \A i \in 1..Len(w) : f[w[i]] = w[i].err
    <3>1. \A i \in 1..Len(w) : w[i] \in Visit
      BY <2>1
    <3> QED BY <3>1
  <2> HIDE DEF w, f
  <2>4. Visited(k) = Map(f, w)
    BY <2>2, <2>3 DEF Map
  <2> QED BY <2>1, <2>4 DEF Visits, w
<1>5. Map(f, walk[e]) = FlattenSeq(Under(Visits, e))
  <2> DEFINE ss == Blocks(walk, e)
             N == Len(node[e].kids)
  <2>1. \A k \in 1..(e - 1) : walk[k] \in Seq(Visit)
    <3>1. 1..(e - 1) \subseteq Ids
      BY Typing
    <3> QED BY <1>2, <3>1
  <2>2. ss \in Seq(Seq(Visit)) /\ Len(ss) = N /\ \A i \in 1..N : ss[i] = Block(walk, node[e].kids[i], e)
    BY <2>1, BlocksSeq
  <2>3. \A i \in 1..N : Map(f, ss[i]) = Visits[node[e].kids[i]]
    <3> SUFFICES ASSUME NEW i \in 1..N PROVE Map(f, ss[i]) = Visits[node[e].kids[i]]
      OBVIOUS
    <3>1. node[e].kids[i] \in Ids
      BY KidsFacts
    <3> HIDE DEF f, ss, N
    <3>2. Map(f, ss[i]) = Read(node[e].kids[i], e) /\ Visits[node[e].kids[i]] = Read(node[e].kids[i], Nil)
      BY <1>4, <2>2, <3>1
    <3>3. /\ Read(node[e].kids[i], e) = <<node[e].kids[i]>> \o Map(f, walk[node[e].kids[i]])
          /\ Read(node[e].kids[i], Nil) = <<node[e].kids[i]>> \o Map(f, walk[node[e].kids[i]])
      BY <1>3, <3>1
    <3> QED BY <3>2, <3>3
  <2> HIDE DEF f, ss
  <2>4. Map(f, FlattenSeq(ss)) = FlattenSeq([k \in 1..Len(ss) |-> Map(f, ss[k])])
    <3>1. ss \in Seq(Seq(Visit))
      BY <2>2
    <3> QED BY <1>1, <3>1, MapFlatten
  <2>5. [k \in 1..Len(ss) |-> Map(f, ss[k])] = Under(Visits, e)
    BY <2>2, <2>3 DEF Under
  <2> QED BY <1>2, <2>4, <2>5 DEF ss
<1> HIDE DEF Read
<1> QED BY <1>3, <1>4, <1>5

LEMMA VisitedOne ==
    ASSUME TreeIInv, NEW e \in Ids, NEW k \in Ids, node[e].kids = <<k>>
    PROVE  Visits[e] = <<e>> \o Visits[k]
<1>1. Visits[k] \in Seq(Ids) /\ Visits[e] = <<e>> \o FlattenSeq(Under(Visits, e))
  BY VisitedSteps
<1>2. FlattenSeq(Under(Visits, e)) = Visits[k]
  BY <1>1, UnderOne
<1> QED BY <1>1, <1>2

(* The errors of the entries, one run after the other. *)
EntryRuns == [v \in Views |-> v.run]

LEMMA EntryRunsSeq ==
    ASSUME LIInv
    PROVE  /\ Maps(EntryRuns, Views, Seq(Ids))
           /\ \A e \in Ids : EntryRuns[newLogView(e)] = Run[e] /\ Run[e] \in Seq(Ids)
<1>1. \A e \in Ids : Run[e] \in Seq(Ids)
  <2> SUFFICES ASSUME NEW e \in Ids PROVE Run[e] \in Seq(Ids)
    OBVIOUS
  <2>1. Run[e] \in Seq(1..e) /\ 1..e \subseteq Ids
    <3>1. TreeIInv /\ RunGood(e)
      BY RunFacts DEF LIInv
    <3>2. 1..e \subseteq Ids
      BY <3>1, Typing
    <3> QED BY <3>1, <3>2 DEF RunGood
  <2> QED BY <2>1, SeqMonotonic
<1>2. \A e \in Ids : newLogView(e).run = Run[e] /\ newLogView(e) \in Views
  BY DEF newLogView, Views
<1>3. \A v \in Views : \E e \in Ids : v = newLogView(e)
  BY DEF Views
<1> QED BY <1>1, <1>2, <1>3 DEF EntryRuns, Maps

LEMMA LoggedVisits ==
    ASSUME LIInv
    PROVE  \A e \in Ids : FlatMap(EntryRuns, Logged[e]) = Visits[e]
<1> DEFINE N == Len(node)
           r == EntryRuns
           Good(e) == FlatMap(r, Logged[e]) = Visits[e]
           T == {e \in 1..N : Good(e)}
<1>1. TreeIInv /\ N \in Nat /\ 1 \in Nat /\ Ids = 1..N
  BY Typing DEF LIInv
<1>2. ASSUME NEW e \in Ids
      PROVE  /\ FlatMap(r, Logged[e]) = Run[e] \o FlatMap(r, After(e))
             /\ FlatMap(r, After(e)) \in Seq(Ids) /\ Run[e] \in Seq(Ids)
  BY EntryRunsSeq, ReadLogged
<1>3. ASSUME NEW e \in 1..N, \A m \in 1..(e - 1) : m \in T PROVE e \in T
  <2>1. e \in Ids /\ repeats[e] \in BOOLEAN
    BY <1>1, CauseKid
  <2>2. CASE repeats[e]
    <3> PICK k : k = transparentCause(e)
      OBVIOUS
    <3>1. k \in 1..(e - 1) /\ k \in Ids /\ node[e].kids = <<k>>
      BY <2>1, <2>2, CauseKid
    <3>2. Run[e] = <<e>> \o Run[k] /\ After(e) = After(k)
      BY <2>1, <2>2, RunFacts, LoggedFacts
    <3> DEFINE s == Run[k]
               t == FlatMap(r, After(k))
    <3>3. <<e>> \in Seq(Ids) /\ s \in Seq(Ids) /\ t \in Seq(Ids)
      BY <1>2, <2>1, <3>1, OneKid
    <3>4. FlatMap(r, Logged[e]) = (<<e>> \o s) \o t /\ FlatMap(r, Logged[k]) = s \o t
      BY <1>2, <2>1, <3>1, <3>2
    <3> HIDE DEF s, t
    <3>5. (<<e>> \o s) \o t = <<e>> \o (s \o t)
      BY <3>3, ConcatAssociative
    <3>6. Visits[e] = <<e>> \o Visits[k]
      BY <1>1, <2>1, <3>1, VisitedOne
    <3> QED BY <1>3, <3>1, <3>4, <3>5, <3>6
  <2>3. CASE ~repeats[e]
    <3>1. Run[e] = <<e>>
      BY <2>1, <2>3, RunFacts
    <3>2. FlatMap(r, After(e)) =
              FlattenSeq([i \in 1..Len(node[e].kids) |-> FlatMap(r, Logged[node[e].kids[i]])])
      BY <2>1, <2>3, EntryRunsSeq, ReadLogged
    <3>3. \A i \in 1..Len(node[e].kids) :
              FlatMap(r, Logged[node[e].kids[i]]) = Visits[node[e].kids[i]]
      BY <1>1, <1>3, <2>1, KidsFacts
    <3>4. FlatMap(r, After(e)) = FlattenSeq(Under(Visits, e))
      BY <3>2, <3>3 DEF Under
    <3> QED BY <1>1, <1>2, <2>1, <3>1, <3>4, VisitedSteps
  <2> QED BY <2>1, <2>2, <2>3
<1>4. 1..N \subseteq T
  <2> HIDE DEF T, N
  <2> QED BY ONLY <1>1, <1>3, IntervalInduction
<1> QED BY <1>1, <1>4

(* A refactor that adds or takes a layer never changes which errors are logged, or
   their order: they are those of the walk, each in one entry. *)
THEOREM ErrorsLoggedOnce == LSpec => []LoggedOnce
<1>1. ASSUME LIInv PROVE LoggedOnce
  <2> SUFFICES ASSUME NEW n \in Ids
               PROVE  FlattenSeq([i \in 1..Len(Logged[n]) |-> Logged[n][i].run]) = Visited(n)
    BY DEF LoggedOnce, Shown
  <2>1. Logged[n] \in Seq(Views) /\ FlatMap(EntryRuns, Logged[n]) = Visited(n)
    BY <1>1, LoggedFacts, LoggedVisits, VisitedSteps DEF LIInv
  <2>2. \A i \in 1..Len(Logged[n]) : EntryRuns[Logged[n][i]] = Logged[n][i].run
    BY <2>1 DEF EntryRuns
  <2>3. Map(EntryRuns, Logged[n]) = [i \in 1..Len(Logged[n]) |-> Logged[n][i].run]
    BY <2>2 DEF Map
  <2> QED BY <2>1, <2>3 DEF FlatMap
<1> QED BY <1>1, LIInvHolds, PTL

-----------------------------------------------------------------------------
(* The first trace and the first location. *)

Carry(kinds) == [m \in Ids |-> IF node[m].kind \in kinds THEN m ELSE Nil]

LEMMA CarriedMap ==
    ASSUME NEW s \in Seq(Ids), NEW kinds
    PROVE  /\ Maps(Carry(kinds), Ids, Publics) /\ Carried(s, kinds) = Map(Carry(kinds), s)
           /\ Carried(s, kinds) \in Seq(Publics) /\ Len(Carried(s, kinds)) = Len(s)
           /\ \A i \in 1..Len(s) : Carried(s, kinds)[i] = IF node[s[i]].kind \in kinds THEN s[i] ELSE Nil
<1> DEFINE f == Carry(kinds)
<1>1. Maps(f, Ids, Publics)
  BY DEF Maps, Publics, Carry
<1>2. \A i \in 1..Len(s) : s[i] \in Ids /\ f[s[i]] = IF node[s[i]].kind \in kinds THEN s[i] ELSE Nil
  BY ElementOfSeq DEF Carry
<1> HIDE DEF f
<1>3. Carried(s, kinds) = Map(f, s)
  BY <1>2 DEF Carried, Map
<1>4. /\ Map(f, s) \in Seq(Publics) /\ Len(Map(f, s)) = Len(s)
      /\ \A i \in 1..Len(s) : Map(f, s)[i] = f[s[i]]
  BY <1>1, MapSeq
<1> QED BY <1>1, <1>2, <1>3, <1>4 DEF f

(* The first error of each entry to carry something. *)
Carriers(entries, kinds) ==
    [i \in 1..Len(entries) |-> First(Carried(entries[i].run, kinds), Nil)]

(* The first error of a walk to carry something is that of the first entry with one
   that carries it. *)
LEMMA CarriedFirst ==
    ASSUME LIInv, NEW e \in Ids, NEW kinds
    PROVE  First(Carried(Visits[e], kinds), Nil) = First(Carriers(Logged[e], kinds), Nil)
<1> PICK entries : entries = Logged[e]
  OBVIOUS
<1> DEFINE ss == Map(EntryRuns, entries)
           f == Carry(kinds)
           tt == [k \in 1..Len(ss) |-> Map(f, ss[k])]
<1>1. entries \in Seq(Views) /\ Maps(EntryRuns, Views, Seq(Ids)) /\ FlattenSeq(ss) = Visits[e]
  BY LoggedFacts, EntryRunsSeq, LoggedVisits DEF FlatMap
<1>2. \A i \in 1..Len(entries) : entries[i] \in Views /\ EntryRuns[entries[i]] = entries[i].run
  BY <1>1, ElementOfSeq DEF EntryRuns
<1>3. /\ ss \in Seq(Seq(Ids)) /\ Len(ss) = Len(entries)
      /\ \A i \in 1..Len(entries) : ss[i] = entries[i].run
  <2> PICK g : g = EntryRuns
    OBVIOUS
  <2>1. entries \in Seq(Views) /\ Maps(g, Views, Seq(Ids))
    BY <1>1
  <2>2. /\ Map(g, entries) \in Seq(Seq(Ids)) /\ Len(Map(g, entries)) = Len(entries)
        /\ \A i \in 1..Len(entries) : Map(g, entries)[i] = g[entries[i]]
    BY ONLY <2>1, MapSeq
  <2> QED BY <1>2, <2>2
<1> HIDE DEF ss
<1>4. Maps(f, Ids, Publics)
  <2>1. <<>> \in Seq(Ids)
    BY EmptySeq
  <2> QED BY <2>1, CarriedMap
<1>5. \A k \in 1..Len(ss) : ss[k] \in Seq(Ids) /\ Map(f, ss[k]) = Carried(ss[k], kinds)
                            /\ Carried(ss[k], kinds) \in Seq(Publics)
  BY <1>3, CarriedMap
<1>6. Carried(Visits[e], kinds) = FlattenSeq(tt)
  <2>1. Map(f, FlattenSeq(ss)) = FlattenSeq(tt)
    <3> HIDE DEF f
    <3>1. ss \in Seq(Seq(Ids))
      BY <1>3
    <3> QED BY <1>4, <3>1, MapFlatten
  <2>2. Visits[e] \in Seq(Ids)
    BY VisitedSteps DEF LIInv
  <2> QED BY <1>1, <2>1, <2>2, CarriedMap
<1>7. tt \in Seq(Seq(Publics)) /\ Len(tt) = Len(ss) /\ \A k \in 1..Len(ss) : tt[k] = Carried(ss[k], kinds)
  <2>1. Len(ss) \in Nat
    BY <1>3, LenProperties
  <2> HIDE DEF f
  <2> QED BY <1>5, <2>1
<1> HIDE DEF tt
<1>8. First(FlattenSeq(tt), Nil) = First(Firsts(tt, Nil), Nil)
  <2>1. Nil \in Publics /\ tt \in Seq(Seq(Publics))
    BY <1>7 DEF Publics
  <2> QED BY <2>1, FirstFlatten
<1>9. Firsts(tt, Nil) = Carriers(entries, kinds)
  BY <1>3, <1>7 DEF Firsts, Carriers
<1> QED BY <1>6, <1>8, <1>9

(* As tries the causes of a Link of several first; without one it goes as walk does. *)
Multi(e) == \E m \in ToSet(node[e].order) : node[m].kind = "linkMulti"

LEMMA OrderIsWalk ==
    ASSUME TreeIInv, NEW e \in Ids, ~Multi(e)
    PROVE  node[e].order = Visits[e]
<1> DEFINE N == Len(node)
           T == {n \in 1..N : ~Multi(n) => node[n].order = Visits[n]}
<1>1. N \in Nat /\ 1 \in Nat /\ Ids = 1..N
  BY Typing
<1>2. ASSUME NEW n \in 1..N, \A m \in 1..(n - 1) : m \in T, ~Multi(n)
      PROVE  node[n].order = Visits[n]
  <2> DEFINE kids == node[n].kids
  <2>1. n \in Ids /\ KindOK(node[n]) /\ kids \in Seq(1..(n - 1))
    BY <1>1, Typing DEF TreeIInv, TypeOK
  <2>2. n \in TreeOf(n) /\ \A i \in 1..Len(kids) : TreeOf(kids[i]) \subseteq TreeOf(n)
    BY <2>1, TreeParts
  <2>3. node[n].kind # "linkMulti"
    BY <1>2, <2>2 DEF Multi, TreeOf
  <2>4. AsKids(node[n]) = kids
    BY <2>1, <2>3, AsKidsSeq
  <2>5. ASSUME NEW i \in 1..Len(kids) PROVE node[kids[i]].order = Visits[kids[i]]
    <3>1. kids[i] \in 1..(n - 1)
      BY <2>1, KidsFacts
    <3>2. ~Multi(kids[i])
      BY <1>2, <2>2 DEF Multi, TreeOf
    <3> QED BY <1>2, <3>1, <3>2
  <2>6. KidOrders(node[n]) = Under(Visits, n)
    BY <2>4, <2>5 DEF KidOrders, Under
  <2>7. node[n].order = <<n>> \o FlattenSeq(KidOrders(node[n]))
    BY <2>1 DEF TreeIInv, OrderOK
  <2> QED BY <2>1, <2>6, <2>7, VisitedSteps
<1>3. \A n \in 1..N : (\A m \in 1..(n - 1) : m \in T) => n \in T
  BY <1>2
<1>4. 1..N \subseteq T
  <2> HIDE DEF T, N
  <2> QED BY ONLY <1>1, <1>3, IntervalInduction
<1> QED BY <1>1, <1>4

LEMMA AsCarried ==
    ASSUME TreeIInv, NEW n \in Ids, NEW kinds
    PROVE  As(n, kinds) = First(Carried(node[n].order, kinds), Nil)
<1> DEFINE order == node[n].order
           c == Carried(order, kinds)
<1>1. order \in Seq(Ids) /\ \A i \in 1..Len(order) : order[i] # Nil
  <2>1. order \in Seq(1..n) /\ 1..n \subseteq Ids
    BY Typing
  <2>2. \A i \in 1..Len(order) : order[i] \in 1..n
    BY OrderTop
  <2>3. \A i \in 1..n : i # Nil
    BY DEF Nil
  <2> QED BY <2>1, <2>2, <2>3, SeqMonotonic
<1>2. /\ c \in Seq(Publics) /\ Len(c) = Len(order)
      /\ \A i \in 1..Len(order) : c[i] = IF node[order[i]].kind \in kinds THEN order[i] ELSE Nil
  BY <1>1, CarriedMap
<1> HIDE DEF c
<1>3. CASE \E i : FirstAt(n, i, kinds) /\ As(n, kinds) = node[n].order[i]
  <2>1. PICK i : FirstAt(n, i, kinds) /\ As(n, kinds) = order[i]
    BY <1>3
  <2>2. i \in 1..Len(order) /\ \A j \in 1..(i - 1) : j \in 1..Len(order)
    BY <1>1, <2>1 DEF FirstAt
  <2>3. FirstOf(c, Nil, i) /\ c[i] = order[i]
    BY <1>1, <1>2, <2>1, <2>2 DEF FirstAt, FirstOf
  <2>4. First(c, Nil) = c[i]
    BY <1>2, <2>3, FirstIs
  <2> QED BY <2>1, <2>3, <2>4 DEF c
<1>4. CASE NoneOf(n, kinds) /\ As(n, kinds) = Nil
  <2>1. NoAnswer(c, Nil)
    BY <1>2, <1>4 DEF NoneOf, NoAnswer
  <2>2. First(c, Nil) = Nil
    BY <1>2, <2>1, FirstIs
  <2> QED BY <1>4, <2>2 DEF c
<1> QED BY <1>3, <1>4, AsFirst

(* What the log shows first is what the getters answer: the outermost trace, and
   where As goes as walk does, the outermost location. *)
THEOREM FirstsLogged == LSpec => []GettersAsLogged
<1>1. ASSUME LIInv PROVE GettersAsLogged
  <2> SUFFICES ASSUME NEW n \in Ids, NEW entries, entries = Logged[n]
               PROVE  /\ GetStackTrace(n) = First([i \in 1..Len(entries) |-> entries[i].stack], Nil)
                      /\ ~Multi(n) => GetLocation(n) =
                             First([i \in 1..Len(entries) |-> entries[i].location], Nil)
    BY DEF GettersAsLogged, Shown, Multi
  <2>1. entries \in Seq(Views) /\ Visits[n] = Visited(n)
    BY <1>1, LoggedFacts, VisitedSteps DEF LIInv
  <2>2. \A v \in Views : /\ v.stack = First(Carried(v.run, StackTracer), Nil)
                         /\ v.location = First(Carried(v.run, Located), Nil)
    <3>1. ASSUME NEW e \in Ids, NEW v, v = newLogView(e)
          PROVE  /\ v.stack = First(Carried(v.run, StackTracer), Nil)
                 /\ v.location = First(Carried(v.run, Located), Nil)
      <4>1. /\ v.run = Run[e] /\ v.stack = First(Carried(Run[e], StackTracer), Nil)
            /\ v.location = First(Carried(Run[e], Located), Nil)
        BY <3>1 DEF newLogView
      <4> QED BY <4>1
    <3> QED BY <3>1 DEF Views
  <2>3. \A i \in 1..Len(entries) :
            /\ entries[i].stack = First(Carried(entries[i].run, StackTracer), Nil)
            /\ entries[i].location = First(Carried(entries[i].run, Located), Nil)
    BY <2>1, <2>2, ElementOfSeq
  <2>4. GetStackTrace(n) = First([i \in 1..Len(entries) |-> entries[i].stack], Nil)
    <3>1. GetStackTrace(n) = First(Carried(Visits[n], StackTracer), Nil)
      BY <2>1 DEF GetStackTrace
    <3>2. [i \in 1..Len(entries) |-> entries[i].stack] = Carriers(entries, StackTracer)
      BY <2>3 DEF Carriers
    <3>3. First(Carried(Visits[n], StackTracer), Nil) = First(Carriers(Logged[n], StackTracer), Nil)
      BY <1>1, CarriedFirst
    <3> QED BY <3>1, <3>2, <3>3
  <2>5. ASSUME ~Multi(n)
        PROVE  GetLocation(n) = First([i \in 1..Len(entries) |-> entries[i].location], Nil)
    <3>1. GetLocation(n) = First(Carried(Visits[n], Located), Nil)
      BY <1>1, <2>5, OrderIsWalk, AsCarried DEF GetLocation, LIInv
    <3>2. [i \in 1..Len(entries) |-> entries[i].location] = Carriers(entries, Located)
      BY <2>3 DEF Carriers
    <3>3. First(Carried(Visits[n], Located), Nil) = First(Carriers(Logged[n], Located), Nil)
      BY <1>1, CarriedFirst
    <3> QED BY <3>1, <3>2, <3>3
  <2> QED BY <2>4, <2>5
<1> QED BY <1>1, LIInvHolds, PTL

-----------------------------------------------------------------------------
(* The code and the public error of an entry. *)

(* An error that says nothing of a fact has a cause that says nothing of it either,
   if it is no field error. *)
LEMMA QuietBelow ==
    ASSUME LIInv, NEW n \in Ids, repeats[n], node[n].kind # "field",
           NEW k, k = transparentCause(n)
    PROVE  /\ GetCode[n] = Code.NoCode => GetCode[k] = Code.NoCode
           /\ GetDetails[n] = Nil => GetDetails[k] = Nil
<1>1. /\ TreeIInv /\ k \in Ids /\ node[n].kids = <<k>> /\ node[n].kids[1] = k
      /\ node[n].kids # <<>> /\ RepeatOK(node[n], repeats[n])
  BY CauseKid, OneKid DEF LIInv, RepeatsOK
<1>2. node[n].kind \in {"wrap", "transient", "stack", "coded", "detailed"}
  BY <1>1 DEF RepeatOK, Markers
<1>3. n \in 0..Len(node) /\ k \in 0..Len(node) /\ n # Nil
  BY <1>1, Typing DEF Nil
<1>4. GetCode[n] = CodeAt(GetCode, n) /\ GetDetails[n] = DetailsAt(GetDetails, n)
      /\ GetDetails[k] = DetailsAt(GetDetails, k)
  BY <1>1, <1>3, CodeSteps, DetailsSteps
<1>5. LayersKeepFacts
  BY <1>1, LayersPass
<1>6. CASE node[n].kind = "detailed"
  <2>1. As(n, CodeMethod) = n /\ As(n, DetailsMethod) = n
    BY <1>1, <1>6, AsTop DEF CodeMethod, DetailsMethod
  <2>2. PassesOn(n)
    BY <1>1, <1>6 DEF PassesOn
  <2>3. /\ node[n].code = Code.NoCode => GetCode[n] = GetCode[k]
        /\ ~node[n].public => GetDetails[n] = GetDetails[k]
    BY <1>1, <1>5, <2>2 DEF LayersKeepFacts
  <2>4. node[n].code # Code.NoCode => GetCode[n] = node[n].code
    BY <1>3, <1>4, <2>1 DEF CodeAt, Inherits
  <2>5. node[n].public => GetDetails[n] = n
    BY <1>3, <1>4, <1>6, <2>1 DEF DetailsAt
  <2> QED BY <1>3, <2>3, <2>4, <2>5
<1>7. CASE node[n].kind # "detailed"
  <2>1. As(n, DetailsMethod) = As(k, DetailsMethod)
    BY <1>1, <1>2, <1>7, AsBelow DEF DetailsMethod
  <2>2. GetDetails[n] = GetDetails[k]
    BY <1>4, <2>1 DEF DetailsAt
  <2>3. CASE node[n].kind = "coded"
    <3>1. GetCode[k] = Code.NoCode
      BY <1>1, <2>3 DEF LIInv, StampedOnce, Stamped
    <3> QED BY <2>2, <3>1
  <2>4. CASE node[n].kind # "coded"
    <3>1. PassesOn(n)
      BY <1>1, <1>2, <2>4 DEF PassesOn
    <3>2. node[n].code = Code.NoCode
      BY <1>1, <1>2, <1>7, <2>4, OwnCodes
    <3> QED BY <1>1, <1>5, <2>2, <3>1, <3>2 DEF LayersKeepFacts
  <2> QED BY <2>3, <2>4
<1> QED BY <1>6, <1>7

NoField(s) == \A i \in 1..Len(s) : node[s[i]].kind # "field"

(* What the first error of a run to say something says is what its first error says,
   where the others say nothing that one has not. *)
LEMMA FirstOfRun ==
    ASSUME LIInv, NEW f, NEW none,
           \A e \in Ids : repeats[e] /\ node[e].kind # "field" =>
               (f[e] = none => f[transparentCause(e)] = none)
    PROVE  \A e \in Ids : NoField(Run[e]) => First(Map(f, Run[e]), none) = f[e]
<1> DEFINE N == Len(node)
           S == {f[m] : m \in Ids} \cup {none}
           T == {e \in 1..N : NoField(Run[e]) => First(Map(f, Run[e]), none) = f[e]}
<1>1. TreeIInv /\ N \in Nat /\ 1 \in Nat /\ Ids = 1..N /\ Maps(f, Ids, S)
  BY Typing DEF LIInv, Maps
<1>2. \A e \in Ids : Run[e] \in Seq(Ids) /\ f[e] \in S
  BY EntryRunsSeq
<1> HIDE DEF S
<1>3. ASSUME NEW e \in Ids PROVE First(Map(f, <<e>>), none) = f[e] /\ Map(f, <<e>>) = <<f[e]>>
  <2>1. Map(f, <<e>>) = <<f[e]>>
    BY DEF Map
  <2> QED BY <1>2, <2>1, FirstOne
<1>4. ASSUME NEW e \in 1..N, \A m \in 1..(e - 1) : m \in T, NoField(Run[e])
      PROVE  First(Map(f, Run[e]), none) = f[e]
  <2>1. e \in Ids /\ repeats[e] \in BOOLEAN
    BY <1>1, CauseKid
  <2>2. CASE ~repeats[e]
    BY <1>3, <2>1, <2>2, RunFacts
  <2>3. CASE repeats[e]
    <3> PICK k : k = transparentCause(e)
      OBVIOUS
    <3>1. k \in 1..(e - 1) /\ k \in Ids /\ Run[e] = <<e>> \o Run[k]
      BY <2>1, <2>3, CauseKid, RunFacts
    <3> DEFINE s == Run[k]
    <3>2. s \in Seq(Ids) /\ <<e>> \in Seq(Ids) /\ Len(<<e>>) = 1 /\ <<e>>[1] = e
      BY <1>2, <2>1, <3>1, OneKid
    <3> HIDE DEF s
    <3>3. /\ Len(<<e>> \o s) = 1 + Len(s) /\ (<<e>> \o s)[1] = e /\ Len(s) \in Nat
          /\ \A i \in 1..Len(s) : 1 + i \in 1..(1 + Len(s)) /\ (<<e>> \o s)[1 + i] = s[i]
      BY <3>2
    <3>4. NoField(s) /\ node[e].kind # "field"
      <4> DEFINE t == <<e>> \o s
      <4>1. \A i \in 1..Len(t) : node[t[i]].kind # "field"
        BY <1>4, <3>1 DEF NoField, s
      <4>2. 1 \in 1..Len(t) /\ t[1] = e /\ \A i \in 1..Len(s) : 1 + i \in 1..Len(t) /\ t[1 + i] = s[i]
        BY <3>3
      <4> HIDE DEF t
      <4>3. \A i \in 1..Len(s) : node[s[i]].kind # "field"
        BY <4>1, <4>2
      <4>4. node[e].kind # "field"
        BY <4>1, <4>2
      <4> QED BY <4>3, <4>4 DEF NoField
    <3>5. First(Map(f, s), none) = f[k]
      BY <1>4, <3>1, <3>4 DEF s
    <3>6. Map(f, <<e>> \o s) = <<f[e]>> \o Map(f, s) /\ Map(f, s) \in Seq(S) /\ <<f[e]>> \in Seq(S)
      <4>1. Map(f, <<e>> \o s) = Map(f, <<e>>) \o Map(f, s)
        <5> DEFINE t == <<e>>
        <5>1. t \in Seq(Ids)
          BY <3>2
        <5> HIDE DEF t
        <5>2. Map(f, t \o s) = Map(f, t) \o Map(f, s)
          BY <1>1, <3>2, <5>1, MapConcat
        <5> QED BY <5>2 DEF t
      <4>2. Map(f, s) \in Seq(S)
        BY <1>1, <3>2, MapSeq
      <4>3. <<f[e]>> \in Seq(S)
        BY <1>2, <2>1, OneKid
      <4> QED BY <1>3, <2>1, <4>1, <4>2, <4>3
    <3>7. First(<<f[e]>>, none) = f[e]
      BY <1>3, <2>1
    <3>8. First(Map(f, <<e>> \o s), none) = Either(f[e], f[k], none)
      <4> PICK a : a = <<f[e]>>
        OBVIOUS
      <4> PICK b : b = Map(f, s)
        OBVIOUS
      <4>1. a \in Seq(S) /\ b \in Seq(S)
        BY <3>6
      <4>2. First(a \o b, none) = Either(First(a, none), First(b, none), none)
        BY ONLY <4>1, FirstConcat
      <4> QED BY <3>5, <3>6, <3>7, <4>2
    <3>9. f[e] = none => f[k] = none
      BY <2>1, <2>3, <3>4
    <3> QED BY <3>1, <3>8, <3>9 DEF Either, s
  <2> QED BY <2>1, <2>2, <2>3
<1>5. \A e \in 1..N : (\A m \in 1..(e - 1) : m \in T) => e \in T
  BY <1>4
<1>6. 1..N \subseteq T
  <2> HIDE DEF T, N
  <2> QED BY ONLY <1>1, <1>5, IntervalInduction
<1> QED BY <1>1, <1>6

(* An entry shows the code and the public error that the getters answer for its
   outermost error, however many layers it collapses. *)
THEOREM FactsLogged == LSpec => []FactsAsRead
<1>1. ASSUME LIInv PROVE FactsAsRead
  <2> SUFFICES ASSUME NEW n \in Ids, NEW entry, entry = newLogView(n), NoField(entry.run)
               PROVE  entry.code = GetCode[n] /\ entry.public = GetDetails[n]
    BY DEF FactsAsRead, Shown, NoField
  <2>1. /\ entry.run = Run[n] /\ entry.code = First(Map(GetCode, Run[n]), Code.NoCode)
        /\ entry.public = First(Map(GetDetails, Run[n]), Nil)
    BY DEF newLogView, Map
  <2>2. \A e \in Ids : repeats[e] /\ node[e].kind # "field" =>
            /\ GetCode[e] = Code.NoCode => GetCode[transparentCause(e)] = Code.NoCode
            /\ GetDetails[e] = Nil => GetDetails[transparentCause(e)] = Nil
    BY <1>1, QuietBelow
  <2>3. First(Map(GetCode, Run[n]), Code.NoCode) = GetCode[n]
    BY <1>1, <2>1, <2>2, FirstOfRun
  <2>4. First(Map(GetDetails, Run[n]), Nil) = GetDetails[n]
    BY <1>1, <2>1, <2>2, FirstOfRun
  <2> QED BY <2>1, <2>3, <2>4
<1> QED BY <1>1, LIInvHolds, PTL

-----------------------------------------------------------------------------
(* Print. *)

Printed == [message : Ids, trace : Publics]
Line(e) == [message |-> e, trace |-> First(Carried(Run[e], StackTracer), Nil)]
(* What g says of the errors that b unwraps to, in order. *)
Behind(g, b) == [i \in 1..Len(Unwrapped(b)) |-> g[Unwrapped(b)[i]]]

LEMMA LinePrinted ==
    ASSUME LIInv, NEW e \in Ids
    PROVE  Line(e) \in Printed /\ <<Line(e)>> \in Seq(Printed)
<1>1. Carried(Run[e], StackTracer) \in Seq(Publics)
  BY EntryRunsSeq, CarriedMap
<1>2. First(Carried(Run[e], StackTracer), Nil) \in Publics
  <2>1. Nil \in Publics
    BY DEF Publics
  <2> QED BY <1>1, <2>1, FirstIn
<1>3. Line(e) \in Printed
  BY <1>2 DEF Line, Printed
<1> QED BY <1>3, OneKid

LEMMA BehindSeq ==
    ASSUME TreeIInv, NEW b \in Ids, NEW S, NEW g, \A k \in 1..(b - 1) : g[k] \in Seq(S)
    PROVE  /\ Unwrapped(b) \in Seq(1..(b - 1)) /\ FlattenSeq(Behind(g, b)) \in Seq(S)
           /\ \A i \in 1..Len(Unwrapped(b)) : Unwrapped(b)[i] \in 1..(b - 1)
<1> DEFINE u == Unwrapped(b)
           kids == node[b].kids
<1>1. b \in Nat /\ kids \in Seq(1..(b - 1)) /\ KindOK(node[b])
  BY Typing DEF TreeIInv, TypeOK
<1>2. u \in Seq(1..(b - 1))
  <2>1. CASE node[b].kind \in {"link", "linkMulti"}
    <3>1. node[b].kind \notin Decorators /\ node[b].kind \notin Leaves
      BY <2>1, SentinelsAssumption DEF Leaves, Kinds, Decorators
    <3>2. Len(kids) >= 2
      <4>1. CASE node[b].kind = "link"
        <5>1. Len(kids) = 2
          BY <1>1, <3>1, <4>1 DEF KindOK
        <5> QED BY <5>1
      <4>2. CASE node[b].kind = "linkMulti"
        BY <1>1, <3>1, <4>2 DEF KindOK
      <4> QED BY <2>1, <4>1, <4>2
    <3>3. kids # <<>>
      BY <3>2, EmptySeq
    <3>4. Tail(kids) \in Seq(1..(b - 1))
      BY <1>1, <3>3, HeadTailProperties
    <3> QED BY <2>1, <3>4 DEF Unwrapped
  <2>2. CASE node[b].kind \notin {"link", "linkMulti"}
    BY <1>1, <2>2 DEF Unwrapped
  <2> QED BY <2>1, <2>2
<1>3. \A i \in 1..Len(u) : u[i] \in 1..(b - 1)
  BY <1>2, ElementOfSeq
<1> DEFINE w == Behind(g, b)
<1>4. w = [i \in 1..Len(u) |-> g[u[i]]] /\ \A i \in 1..Len(u) : g[u[i]] \in Seq(S)
  BY <1>3 DEF Behind
<1> HIDE DEF u, w
<1>5. w \in Seq(Seq(S))
  BY <1>2, <1>4, LenProperties
<1> QED BY <1>2, <1>3, <1>5, Flatten DEF u, w

(* One call of fprint, the calls below it answered by g. *)
PrintAt(g, e) == <<Line(e)>> \o FlattenSeq(Behind(g, Bottom(e)))

LEMMA PrintSteps ==
    ASSUME LIInv
    PROVE  \A e \in Ids : fprint[e] = PrintAt(fprint, e)
<1> DEFINE N == Len(node)
           Tables == [1..N -> Seq(Printed)]
           Fn(g) == [e \in Ids |-> PrintAt(g, e)]
           print == CHOOSE g : g = Fn(g)
           d == [e \in 1..N |-> [f \in Tables |-> PrintAt(f, e)]]
<1>1. TreeIInv /\ N \in Nat /\ 1 \in Nat /\ Ids = 1..N
  BY Typing DEF LIInv
<1>2. ASSUME NEW e \in Ids
      PROVE  Bottom(e) \in Ids /\ \A k \in 1..(Bottom(e) - 1) : k \in 1..(e - 1) /\ k \in 1..N
  <2>1. Bottom(e) \in 1..e
    BY RunFacts DEF RunGood
  <2> HIDE DEF N
  <2> QED BY <1>1, <2>1
<1>3. ASSUME NEW e \in 1..N, NEW f \in Tables PROVE PrintAt(f, e) \in Seq(Printed)
  <2>1. \A k \in 1..(Bottom(e) - 1) : f[k] \in Seq(Printed)
    <3>1. \A k \in 1..(Bottom(e) - 1) : k \in 1..N
      BY <1>1, <1>2
    <3> HIDE DEF N
    <3> QED BY <3>1
  <2>2. FlattenSeq(Behind(f, Bottom(e))) \in Seq(Printed)
    BY <1>1, <1>2, <2>1, BehindSeq
  <2>3. <<Line(e)>> \in Seq(Printed)
    BY <1>1, LinePrinted
  <2> QED BY <2>2, <2>3, ConcatProperties DEF PrintAt
<1>4. ASSUME NEW e \in 1..N, NEW f, NEW g, \A i \in 1..(e - 1) : f[i] = g[i]
      PROVE  PrintAt(f, e) = PrintAt(g, e)
  <2> DEFINE b == Bottom(e)
  <2>1. \A i \in 1..Len(Unwrapped(b)) : Unwrapped(b)[i] \in 1..(b - 1)
    <3>1. b \in Ids /\ \A k \in 1..(b - 1) : [m \in 1..(b - 1) |-> <<>>][k] \in Seq(Ids)
      BY <1>1, <1>2, EmptySeq
    <3> HIDE DEF b
    <3> QED BY <1>1, <3>1, BehindSeq
  <2>2. \A i \in 1..Len(Unwrapped(b)) : f[Unwrapped(b)[i]] = g[Unwrapped(b)[i]]
    BY <1>1, <1>2, <1>4, <2>1
  <2>3. Behind(f, b) = Behind(g, b)
    BY <2>2 DEF Behind
  <2> QED BY <2>3 DEF PrintAt
<1>5. \E g : g = Fn(g)
  <2> HIDE DEF PrintAt
  <2>1. d \in [1..N -> [Tables -> Seq(Printed)]]
    BY <1>3
  <2>2. \A e \in 1..N : \A f \in Tables : d[e][f] = PrintAt(f, e)
    OBVIOUS
  <2>3. \A e \in 1..N : \A f, g \in Tables :
            (\A i \in 1..(e - 1) : f[i] = g[i]) => d[e][f] = d[e][g]
    <3> SUFFICES ASSUME NEW e \in 1..N, NEW f \in Tables, NEW g \in Tables,
                        \A i \in 1..(e - 1) : f[i] = g[i]
                 PROVE  d[e][f] = d[e][g]
      OBVIOUS
    <3>1. PrintAt(f, e) = PrintAt(g, e)
      BY <1>4
    <3> HIDE DEF d, N, Tables
    <3> QED BY <2>2, <3>1
  <2> DEFINE S == Seq(Printed)
             c == <<>>
             a == 1
  <2> HIDE DEF d, S, c, a
  <2>4. c \in S
    BY EmptySeq DEF c, S
  <2>5. N \in Nat /\ a \in Nat /\ c \in S /\ ReadsBelow(d, a, N, S)
    BY <1>1, <2>1, <2>3, <2>4 DEF S, a, ReadsBelow
  <2> HIDE DEF N
  <2>6. \E g \in [a..N -> S] : \A e \in a..N : g[e] = d[e][g]
    BY ONLY <2>5, TableFunction
  <2>7. PICK g \in Tables : \A e \in 1..N : g[e] = d[e][g]
    BY <2>6 DEF S, a
  <2>8. \A e \in 1..N : g[e] = PrintAt(g, e)
    BY <2>2, <2>7
  <2>9. g = Fn(g)
    BY <1>1, <2>7, <2>8
  <2> QED BY <2>9
<1>6. print = Fn(print)
  <2> HIDE DEF Fn
  <2> QED BY <1>5, Zenon
<1>7. fprint = print
  BY Zenon DEF fprint, PrintAt, Behind, Bottom, Line, collapse
<1> HIDE DEF print
<1>8. \A e \in Ids : print[e] = PrintAt(print, e)
  BY <1>6
<1> QED BY <1>7, <1>8

(* The tree of the last error of a run is part of the tree. *)
LEMMA BottomInTree ==
    ASSUME LIInv, NEW e \in Ids
    PROVE  Bottom(e) \in TreeOf(e) /\ TreeOf(Bottom(e)) \subseteq TreeOf(e)
<1> DEFINE N == Len(node)
           T == {n \in 1..N : Bottom(n) \in TreeOf(n) /\ TreeOf(Bottom(n)) \subseteq TreeOf(n)}
<1>1. TreeIInv /\ N \in Nat /\ 1 \in Nat /\ Ids = 1..N
  BY Typing DEF LIInv
<1>2. ASSUME NEW n \in 1..N, \A m \in 1..(n - 1) : m \in T PROVE n \in T
  <2>1. n \in Ids /\ repeats[n] \in BOOLEAN /\ n \in TreeOf(n)
    BY <1>1, CauseKid, TreeParts
  <2>2. CASE ~repeats[n]
    BY <2>1, <2>2, RunFacts
  <2>3. CASE repeats[n]
    <3> PICK k : k = transparentCause(n)
      OBVIOUS
    <3>1. k \in 1..(n - 1) /\ node[n].kids = <<k>> /\ Bottom(n) = Bottom(k)
      BY <2>1, <2>3, CauseKid, RunFacts
    <3>2. 1 \in 1..Len(node[n].kids) /\ node[n].kids[1] = k
      BY <3>1
    <3>3. TreeOf(k) \subseteq TreeOf(n)
      BY <1>1, <2>1, <3>2, TreeParts
    <3>4. Bottom(k) \in TreeOf(k) /\ TreeOf(Bottom(k)) \subseteq TreeOf(k)
      BY <1>2, <3>1
    <3> QED BY <2>1, <3>1, <3>3, <3>4
  <2> QED BY <2>1, <2>2, <2>3
<1>3. 1..N \subseteq T
  <2> HIDE DEF T, N
  <2> QED BY ONLY <1>1, <1>2, IntervalInduction
<1> QED BY <1>1, <1>3

Linked(e) == \E m \in TreeOf(e) : node[m].kind \in {"link", "linkMulti"}
(* What Print writes of an entry. *)
EntryLines == [v \in Views |-> [message |-> v.run[1], trace |-> v.stack]]

LEMMA EntryLine ==
    ASSUME LIInv
    PROVE  /\ Maps(EntryLines, Views, Printed)
           /\ \A e \in Ids : EntryLines[newLogView(e)] = Line(e)
<1>1. ASSUME NEW e \in Ids PROVE newLogView(e) \in Views /\ EntryLines[newLogView(e)] = Line(e)
  <2> DEFINE v == newLogView(e)
  <2>1. v \in Views
    BY DEF Views
  <2>2. v.run = Run[e] /\ v.stack = First(Carried(Run[e], StackTracer), Nil)
    BY DEF newLogView
  <2>3. Run[e][1] = e
    BY RunFacts DEF RunGood
  <2>4. EntryLines[v] = [message |-> v.run[1], trace |-> v.stack]
    BY <2>1 DEF EntryLines
  <2> HIDE DEF v
  <2> QED BY <2>1, <2>2, <2>3, <2>4 DEF Line, v
<1>2. \A e \in Ids : EntryLines[newLogView(e)] \in Printed
  BY <1>1, LinePrinted
<1> QED BY <1>1, <1>2 DEF Maps, Views

LEMMA PrintedEntries ==
    ASSUME LIInv
    PROVE  \A e \in Ids : ~Linked(e) => fprint[e] = Map(EntryLines, Logged[e])
<1> DEFINE N == Len(node)
           f == EntryLines
           T == {e \in 1..N : ~Linked(e) => fprint[e] = Map(f, Logged[e])}
<1>1. TreeIInv /\ N \in Nat /\ 1 \in Nat /\ Ids = 1..N
  BY Typing DEF LIInv
<1>2. ASSUME NEW e \in 1..N, \A m \in 1..(e - 1) : m \in T, ~Linked(e)
      PROVE  fprint[e] = Map(f, Logged[e])
  <2> PICK b : b = Bottom(e)
    OBVIOUS
  <2> DEFINE u == Under(Logged, b)
             K == Len(node[b].kids)
  <2>1. e \in Ids /\ b \in 1..e /\ b \in Ids /\ \A k \in 1..(b - 1) : k \in Ids /\ k \in 1..(e - 1)
    <3>1. b \in 1..e
      BY <1>1, RunFacts DEF RunGood
    <3> HIDE DEF N
    <3> QED BY <1>1, <3>1
  <2>2. b \in TreeOf(e) /\ TreeOf(b) \subseteq TreeOf(e)
    BY <2>1, BottomInTree
  <2>3. Unwrapped(b) = node[b].kids
    BY <1>2, <2>2 DEF Linked, Unwrapped
  <2>4. ASSUME NEW i \in 1..K
        PROVE  /\ node[b].kids[i] \in Ids
               /\ fprint[node[b].kids[i]] = Map(f, Logged[node[b].kids[i]])
    <3>1. node[b].kids[i] \in 1..(b - 1) /\ TreeOf(node[b].kids[i]) \subseteq TreeOf(b)
      BY <1>1, <2>1, KidsFacts, TreeParts
    <3>2. ~Linked(node[b].kids[i])
      BY <1>2, <2>2, <3>1 DEF Linked
    <3> QED BY <1>2, <2>1, <3>1, <3>2
  <2>5. u \in Seq(Seq(Views)) /\ Len(u) = K /\ \A i \in 1..K : u[i] = Logged[node[b].kids[i]]
    <3> PICK g : g = Logged
      OBVIOUS
    <3> PICK S : S = Views
      OBVIOUS
    <3>1. TreeIInv /\ b \in Ids /\ \A k \in 1..(b - 1) : g[k] \in Seq(S)
      BY <1>1, <2>1, LoggedFacts
    <3>2. /\ Under(g, b) \in Seq(Seq(S)) /\ Len(Under(g, b)) = Len(node[b].kids)
          /\ \A i \in 1..Len(node[b].kids) : Under(g, b)[i] = g[node[b].kids[i]]
          /\ FlattenSeq(Under(g, b)) \in Seq(S)
      BY ONLY <3>1, UnderSeq, Zenon
    <3> QED BY <3>2
  <2>6. Maps(f, Views, Printed) /\ f[newLogView(e)] = Line(e)
    BY <2>1, EntryLine
  <2> DEFINE top == <<newLogView(e)>>
             rest == After(e)
  <2>7. Logged[e] = top \o rest /\ top \in Seq(Views) /\ rest \in Seq(Views) /\ rest = FlattenSeq(u)
    <3>1. newLogView(e) \in Views /\ Logged[e] = top \o rest /\ rest \in Seq(Views)
      BY <2>1, LoggedFacts
    <3> QED BY <3>1, OneKid DEF After
  <2>8. Map(f, top) = <<Line(e)>>
    BY <2>6 DEF Map
  <2> HIDE DEF f, u, K, top, rest
  <2>9. Map(f, Logged[e]) = <<Line(e)>> \o Map(f, FlattenSeq(u))
    <3>1. Map(f, top \o rest) = Map(f, top) \o Map(f, rest)
      <4>1. Maps(f, Views, Printed) /\ top \in Seq(Views) /\ rest \in Seq(Views)
        BY <2>6, <2>7
      <4> QED BY ONLY <4>1, MapConcat
    <3> QED BY <2>7, <2>8, <3>1
  <2>10. Map(f, FlattenSeq(u)) = FlattenSeq([k \in 1..Len(u) |-> Map(f, u[k])])
    <3>1. u \in Seq(Seq(Views))
      BY <2>5
    <3> QED BY <2>6, <3>1, MapFlatten
  <2>11. [k \in 1..Len(u) |-> Map(f, u[k])] = Behind(fprint, b)
    BY <2>3, <2>4, <2>5 DEF Behind, K
  <2>12. fprint[e] = <<Line(e)>> \o FlattenSeq(Behind(fprint, b))
    BY <2>1, PrintSteps DEF PrintAt
  <2> QED BY <2>9, <2>10, <2>11, <2>12
<1>3. \A e \in 1..N : (\A m \in 1..(e - 1) : m \in T) => e \in T
  BY <1>2
<1>4. 1..N \subseteq T
  <2> HIDE DEF T, N
  <2> QED BY ONLY <1>1, <1>3, IntervalInduction
<1> QED BY <1>1, <1>4

(* Print and the log view show the same entries with the same traces, of any tree in
   which nothing is linked. *)
THEOREM PrintedOnce == LSpec => []PrintedAsLogged
<1>1. ASSUME LIInv PROVE PrintedAsLogged
  <2> SUFFICES ASSUME NEW n \in Ids, NEW entries, entries = Logged[n], ~Linked(n)
               PROVE  fprint[n] = [i \in 1..Len(entries) |->
                          [message |-> entries[i].run[1], trace |-> entries[i].stack]]
    BY DEF PrintedAsLogged, Shown, Linked, TreeOf
  <2>1. entries \in Seq(Views) /\ fprint[n] = Map(EntryLines, entries)
    BY <1>1, LoggedFacts, PrintedEntries
  <2>2. \A i \in 1..Len(entries) :
            EntryLines[entries[i]] = [message |-> entries[i].run[1], trace |-> entries[i].stack]
    BY <2>1, ElementOfSeq DEF EntryLines
  <2> QED BY <2>1, <2>2 DEF Map
<1> QED BY <1>1, LIInvHolds, PTL

-----------------------------------------------------------------------------
(* Entries that cannot be written. *)

CutAt(s, bad, i) ==
    i \in 1..Len(s) /\ Fails(s[i], bad) /\ \A j \in 1..(i - 1) : ~Fails(s[j], bad)
AllWritten(s, bad) == \A i \in 1..Len(s) : ~Fails(s[i], bad)

(* The object o is what zap writes of the entries s. *)
Cuts(o, s, bad) ==
    \/ ~o.failed /\ AllWritten(s, bad) /\ o.written = s
    \/ o.failed /\ \E i : CutAt(s, bad, i) /\ o.written = SubSeq(s, 1, i)
Objects == [written : Seq(Views), failed : BOOLEAN]

(* Of two lists in a row, the second is cut when the first is not. *)
LEMMA CutJoin ==
    ASSUME NEW bad, NEW s \in Seq(Views), NEW t \in Seq(Views),
           NEW a \in Objects, NEW o \in Objects, Cuts(a, s, bad), Cuts(o, t, bad)
    PROVE  Cuts(AppendObject(a, o), s \o t, bad)
<1> DEFINE u == s \o t
           both == AppendObject(a, o)
<1>1. /\ u \in Seq(Views) /\ Len(u) = Len(s) + Len(t) /\ Len(s) \in Nat /\ Len(t) \in Nat
      /\ \A i \in 1..Len(s) : i \in 1..Len(u) /\ u[i] = s[i]
      /\ \A i \in 1..Len(t) : Len(s) + i \in 1..Len(u) /\ u[Len(s) + i] = t[i]
      /\ \A i \in 1..Len(u) : i \notin 1..Len(s) => \E k \in 1..Len(t) : i = Len(s) + k
  BY Concat
<1>2. a.failed \in BOOLEAN /\ o.failed \in BOOLEAN
  BY DEF Objects
<1>3. CASE a.failed
  <2>1. PICK i : CutAt(s, bad, i) /\ a.written = SubSeq(s, 1, i)
    BY <1>3 DEF Cuts
  <2>2. both = a
    BY <1>3 DEF AppendObject
  <2>3. i \in 1..Len(s) /\ 1 \in 1..Len(s) /\ \A j \in 1..(i - 1) : j \in 1..Len(s)
    BY <1>1, <2>1 DEF CutAt
  <2>4. SubSeq(u, 1, i) = SubSeq(s, 1, i)
    BY <2>3, SubSeqOfConcat1
  <2> HIDE DEF u, both
  <2>5. CutAt(u, bad, i)
    BY <1>1, <2>1, <2>3 DEF CutAt
  <2> QED BY <1>3, <2>1, <2>2, <2>4, <2>5 DEF Cuts, u, both
<1>4. CASE ~a.failed /\ ~o.failed
  <2>1. AllWritten(s, bad) /\ AllWritten(t, bad) /\ a.written = s /\ o.written = t
    BY <1>4 DEF Cuts
  <2>2. ~both.failed /\ both.written = u
    BY <1>4, <2>1 DEF AppendObject
  <2> HIDE DEF u, both
  <2>3. ASSUME NEW i \in 1..Len(u) PROVE ~Fails(u[i], bad)
    <3>1. CASE i \in 1..Len(s)
      BY <1>1, <2>1, <3>1 DEF AllWritten
    <3>2. CASE i \notin 1..Len(s)
      BY <1>1, <2>1, <3>2 DEF AllWritten
    <3> QED BY <3>1, <3>2
  <2>4. AllWritten(u, bad)
    BY <2>3 DEF AllWritten
  <2> QED BY <2>2, <2>4 DEF Cuts, u, both
<1>5. CASE ~a.failed /\ o.failed
  <2>1. PICK i : CutAt(t, bad, i) /\ o.written = SubSeq(t, 1, i)
    BY <1>5 DEF Cuts
  <2>2. AllWritten(s, bad) /\ a.written = s
    BY <1>5 DEF Cuts
  <2> DEFINE p == Len(s) + i
  <2>3. i \in 1..Len(t) /\ p \in 1..Len(u)
    BY <1>1, <2>1 DEF CutAt
  <2>4. both.failed /\ both.written = s \o SubSeq(t, 1, i)
    BY <1>5, <2>1, <2>2 DEF AppendObject
  <2>5. SubSeq(u, 1, p) = s \o SubSeq(t, 1, i)
    <3> DEFINE n == Len(s)
    <3>1. /\ n + 1 \in n + 1..n + Len(t) /\ p \in n + 1..n + Len(t) /\ (n + 1) - n = 1 /\ p - n = i
          /\ 1 \in 1..(Len(u) + 1) /\ n \in 0..Len(u) /\ p \in n..Len(u) /\ n \in 1 - 1..Len(u)
      BY <1>1, <2>3
    <3>2. SubSeq(u, n + 1, p) = SubSeq(t, (n + 1) - n, p - n)
      <4> HIDE DEF p
      <4> QED BY <3>1, SubSeqOfConcat2
    <3>3. SubSeq(u, 1, n) = s
      <4>1. CASE n = 0
        <5>1. SubSeq(u, 1, n) = <<>> /\ s = <<>>
          BY <4>1, SubSeqEmpty, EmptySeq
        <5> QED BY <5>1
      <4>2. CASE n # 0
        <5>1. 1 \in 1..Len(s) /\ n \in 1..Len(s)
          BY <1>1, <4>2
        <5> QED BY <5>1, SubSeqOfConcat1, SubSeqFull
      <4> QED BY <4>1, <4>2
    <3>4. SubSeq(u, 1, n) \o SubSeq(u, n + 1, p) = SubSeq(u, 1, p)
      <4> HIDE DEF p, u, n
      <4> QED BY <1>1, <3>1, ConcatAdjacentSubSeq
    <3> QED BY <3>1, <3>2, <3>3, <3>4
  <2>6. ASSUME NEW j \in 1..(p - 1) PROVE ~Fails(u[j], bad)
    <3>1. CASE j \in 1..Len(s)
      BY <1>1, <2>2, <3>1 DEF AllWritten
    <3>2. CASE j \notin 1..Len(s)
      <4>1. j \in 1..Len(u)
        BY <1>1, <2>3
      <4>2. PICK k \in 1..Len(t) : j = Len(s) + k
        BY <1>1, <3>2, <4>1
      <4>3. k \in 1..(i - 1)
        BY <1>1, <2>3, <4>2
      <4> QED BY <1>1, <2>1, <4>2, <4>3 DEF CutAt
    <3> QED BY <3>1, <3>2
  <2>7. u[p] = t[i] /\ Fails(t[i], bad)
    BY <1>1, <2>1, <2>3 DEF CutAt
  <2> HIDE DEF u, p, both
  <2>8. CutAt(u, bad, p)
    BY <2>3, <2>6, <2>7 DEF CutAt
  <2> QED BY <2>4, <2>5, <2>8 DEF Cuts, u, p, both
<1> QED BY <1>2, <1>3, <1>4, <1>5

LEMMA AppendTyped ==
    ASSUME NEW a \in Objects, NEW o \in Objects
    PROVE  AppendObject(a, o) \in Objects
<1>1. a.written \o o.written \in Seq(Views) /\ o.failed \in BOOLEAN
  <2>1. a.written \in Seq(Views) /\ o.written \in Seq(Views) /\ o.failed \in BOOLEAN
    BY DEF Objects
  <2> QED BY <2>1, ConcatProperties
<1>2. [written |-> a.written \o o.written, failed |-> o.failed] \in Objects
  BY <1>1 DEF Objects
<1> QED BY <1>2 DEF AppendObject

Nothing == [written |-> <<>>, failed |-> FALSE]

(* The loop of MarshalLogArray, object by object. *)
LEMMA ArraySteps ==
    ASSUME NEW objects \in Seq(Objects)
    PROVE  \E array : /\ MarshalLogArray(objects) = array[Len(objects)] /\ array[0] = Nothing
                      /\ \A i \in 1..Len(objects) : array[i] = AppendObject(array[i - 1], objects[i])
                      /\ \A i \in 0..Len(objects) : array[i] \in Objects
<1> DEFINE N == Len(objects)
           Fn(g) == [i \in 0..N |->
                        IF i = 0 THEN Nothing ELSE AppendObject(g[i - 1], objects[i])]
           array == CHOOSE g : g = Fn(g)
           d == [i \in 1..N |-> [a \in Objects |-> AppendObject(a, objects[i])]]
<1>1. N \in Nat /\ \A i \in 1..N : objects[i] \in Objects
  BY LenProperties, ElementOfSeq
<1>2. Nothing \in Objects
  <2>1. <<>> \in Seq(Views)
    BY EmptySeq
  <2> QED BY <2>1 DEF Objects, Nothing
<1>3. \E g \in [0..N -> Objects] : g = Fn(g)
  <2>1. d \in [1..N -> [Objects -> Objects]]
    BY <1>1, AppendTyped
  <2>2. \A i \in 1..N : \A a \in Objects : d[i][a] = AppendObject(a, objects[i])
    OBVIOUS
  <2> HIDE DEF d, N
  <2>3. PICK g \in [0..N -> Objects] : g[0] = Nothing /\ \A i \in 1..N : g[i] = d[i][g[i - 1]]
    <3> DEFINE S == Objects c == Nothing
    <3>1. N \in Nat /\ c \in S
      BY <1>1, <1>2
    <3>2. IsStep(d, N, S)
      BY <2>1 DEF IsStep
    <3> HIDE DEF S, c, N
    <3>3. \E f \in [0..N -> S] : f[0] = c /\ \A k \in 1..N : f[k] = d[k][f[k - 1]]
      BY ONLY <3>1, <3>2, StepTable
    <3> QED BY <3>3 DEF S, c
  <2>4. ASSUME NEW i \in 0..N, i # 0 PROVE g[i] = AppendObject(g[i - 1], objects[i])
    <3>1. i \in 1..N /\ i - 1 \in 0..N
      BY <1>1, <2>4
    <3> QED BY <2>2, <2>3, <3>1
  <2>5. g = Fn(g)
    BY <2>3, <2>4
  <2> QED BY <2>5
<1>4. array = Fn(array)
  <2> HIDE DEF Fn
  <2> QED BY <1>3, Zenon
<1>5. MarshalLogArray(objects) = array[N]
  BY Zenon DEF MarshalLogArray, Nothing
<1>6. /\ array[0] = Nothing
      /\ \A i \in 1..N : array[i] = AppendObject(array[i - 1], objects[i])
  <2> HIDE DEF array
  <2>1. 0 \in 0..N /\ \A i \in 1..N : i \in 0..N /\ i # 0
    BY <1>1
  <2> QED BY <1>4, <2>1
<1>7. \A i \in 0..N : array[i] \in Objects
  <2> DEFINE T == {i \in 0..N : array[i] \in Objects}
  <2> HIDE DEF array
  <2>1. ASSUME NEW i \in 0..N, \A j \in 0..(i - 1) : j \in T PROVE i \in T
    <3>1. CASE i = 0
      BY <1>2, <1>6, <3>1
    <3>2. CASE i # 0
      <4>1. i \in 1..N /\ i - 1 \in 0..(i - 1)
        BY <1>1, <3>2
      <4>2. array[i - 1] \in Objects
        BY <2>1, <4>1
      <4> QED BY <1>1, <1>6, <4>1, <4>2, AppendTyped
    <3> QED BY <3>1, <3>2
  <2>2. 0..N \subseteq T
    <3>1. 0 \in Nat
      OBVIOUS
    <3> HIDE DEF T, N
    <3> QED BY ONLY <1>1, <2>1, <3>1, IntervalInduction
  <2> QED BY <2>2
<1> QED BY <1>5, <1>6, <1>7

(* Objects that are cut where their entries are make an array that is. *)
LEMMA ArrayCuts ==
    ASSUME NEW bad, NEW ss \in Seq(Seq(Views)), NEW objects \in Seq(Objects),
           Len(objects) = Len(ss), \A i \in 1..Len(ss) : Cuts(objects[i], ss[i], bad)
    PROVE  MarshalLogArray(objects) \in Objects /\ Cuts(MarshalLogArray(objects), FlattenSeq(ss), bad)
<1> DEFINE N == Len(ss)
<1>1. N \in Nat /\ 0 \in Nat /\ \A i \in 1..N : ss[i] \in Seq(Views) /\ objects[i] \in Objects
  BY LenProperties, ElementOfSeq
<1>2. PICK array : /\ MarshalLogArray(objects) = array[N] /\ array[0] = Nothing
                   /\ \A i \in 1..N : array[i] = AppendObject(array[i - 1], objects[i])
                   /\ \A i \in 0..N : array[i] \in Objects
  BY ArraySteps
<1>3. PICK flat : /\ flat[0] = <<>> /\ FlattenSeq(ss) = flat[N]
                  /\ \A k \in 1..N : flat[k] = flat[k - 1] \o ss[k]
                  /\ \A k \in 0..N : flat[k] \in Seq(Views)
  BY FlattenTable
<1> HIDE DEF N
<1> DEFINE T == {k \in 0..N : Cuts(array[k], flat[k], bad)}
<1>4. ASSUME NEW k \in 0..N, \A m \in 0..(k - 1) : m \in T PROVE k \in T
  <2>1. CASE k = 0
    <3>1. AllWritten(<<>>, bad)
      BY EmptySeq DEF AllWritten
    <3> QED BY <1>2, <1>3, <2>1, <3>1 DEF Cuts, Nothing
  <2>2. CASE k # 0
    <3>1. k \in 1..N /\ k - 1 \in 0..(k - 1) /\ k - 1 \in 0..N
      BY <1>1, <2>2
    <3>2. /\ Cuts(array[k - 1], flat[k - 1], bad) /\ Cuts(objects[k], ss[k], bad)
          /\ array[k - 1] \in Objects /\ flat[k - 1] \in Seq(Views)
          /\ objects[k] \in Objects /\ ss[k] \in Seq(Views)
      BY <1>1, <1>2, <1>3, <1>4, <3>1 DEF N
    <3>3. Cuts(AppendObject(array[k - 1], objects[k]), flat[k - 1] \o ss[k], bad)
      BY <3>2, CutJoin
    <3> QED BY <1>2, <1>3, <3>1, <3>3
  <2> QED BY <2>1, <2>2
<1>5. 0..N \subseteq T
  <2> HIDE DEF T
  <2> QED BY ONLY <1>1, <1>4, IntervalInduction
<1>6. N \in 0..N
  BY <1>1
<1> QED BY <1>2, <1>3, <1>5, <1>6

LEMMA UnderObjects ==
    ASSUME TreeIInv, NEW b \in Ids, NEW g, \A k \in 1..(b - 1) : g[k] \in Objects
    PROVE  /\ Under(g, b) \in Seq(Objects) /\ Len(Under(g, b)) = Len(node[b].kids)
           /\ \A i \in 1..Len(node[b].kids) :
                  node[b].kids[i] \in 1..(b - 1) /\ Under(g, b)[i] = g[node[b].kids[i]]
<1> DEFINE N == Len(node[b].kids)
           u == Under(g, b)
<1>1. N \in Nat /\ \A i \in 1..N : node[b].kids[i] \in 1..(b - 1)
  BY KidsFacts
<1>2. u = [i \in 1..N |-> g[node[b].kids[i]]] /\ \A i \in 1..N : g[node[b].kids[i]] \in Objects
  BY <1>1 DEF Under
<1> HIDE DEF u, N
<1>3. u \in Seq(Objects) /\ Len(u) = N /\ \A i \in 1..N : u[i] = g[node[b].kids[i]]
  BY <1>1, <1>2
<1> QED BY <1>1, <1>3 DEF u, N

LEMMA ArrayTyped ==
    ASSUME NEW objects \in Seq(Objects)
    PROVE  MarshalLogArray(objects) \in Objects
<1>1. Len(objects) \in 0..Len(objects)
  BY LenProperties
<1> QED BY <1>1, ArraySteps

(* One call of MarshalLogObject, the calls below it answered by g. *)
ObjectAt(g, e, bad) ==
    LET entry == newLogView(e)
        causes == MarshalLogArray(Under(g, Last(entry.run)))
    IN  IF Fails(entry, bad) THEN [written |-> <<entry>>, failed |-> TRUE]
        ELSE [written |-> <<entry>> \o causes.written, failed |-> causes.failed]

(* The entry is an object that fails or not, and the causes follow it. *)
Alone(e, bad) == [written |-> <<newLogView(e)>>, failed |-> Fails(newLogView(e), bad)]

LEMMA ObjectSplit ==
    ASSUME LIInv, NEW e \in Ids, NEW g, NEW bad,
           \A k \in 1..(e - 1) : g[k] \in Objects
    PROVE  /\ ObjectAt(g, e, bad) = AppendObject(Alone(e, bad), MarshalLogArray(Under(g, Bottom(e))))
           /\ Alone(e, bad) \in Objects /\ Under(g, Bottom(e)) \in Seq(Objects)
           /\ ObjectAt(g, e, bad) \in Objects
<1> DEFINE causes == MarshalLogArray(Under(g, Bottom(e)))
<1>1. Last(newLogView(e).run) = Bottom(e)
  BY DEF newLogView, Bottom
<1>2. Fails(newLogView(e), bad) \in BOOLEAN
  BY DEF Fails
<1>3. Alone(e, bad) \in Objects
  <2>1. <<newLogView(e)>> \in Seq(Views)
    BY LoggedFacts, OneKid
  <2> QED BY <1>2, <2>1 DEF Alone, Objects
<1>4. Under(g, Bottom(e)) \in Seq(Objects)
  <2>1. TreeIInv /\ Bottom(e) \in 1..e
    BY RunFacts DEF LIInv, RunGood
  <2>2. Bottom(e) \in Ids /\ \A k \in 1..(Bottom(e) - 1) : k \in 1..(e - 1)
    BY <2>1, Typing
  <2> QED BY <2>1, <2>2, UnderObjects
<1>5. causes \in Objects
  BY <1>4, ArrayTyped
<1>6. ObjectAt(g, e, bad) = AppendObject(Alone(e, bad), causes)
  <2> HIDE DEF causes
  <2>1. ObjectAt(g, e, bad) =
            IF Fails(newLogView(e), bad) THEN [written |-> <<newLogView(e)>>, failed |-> TRUE]
            ELSE [written |-> <<newLogView(e)>> \o causes.written, failed |-> causes.failed]
    BY <1>1 DEF ObjectAt, causes
  <2> QED BY <1>2, <2>1 DEF Alone, AppendObject
<1> QED BY <1>3, <1>4, <1>5, <1>6, AppendTyped

LEMMA ObjectSteps ==
    ASSUME LIInv, NEW bad
    PROVE  \E object : \A e \in Ids : /\ MarshalLogObject(e, bad) = object[e].written
                                      /\ object[e] = ObjectAt(object, e, bad)
                                      /\ object[e] \in Objects
<1> DEFINE N == Len(node)
           Tables == [1..N -> Objects]
           Fn(g) == [e \in Ids |-> ObjectAt(g, e, bad)]
           object == CHOOSE g : g = Fn(g)
           d == [e \in 1..N |-> [f \in Tables |-> ObjectAt(f, e, bad)]]
<1>1. TreeIInv /\ N \in Nat /\ 1 \in Nat /\ Ids = 1..N
  BY Typing DEF LIInv
<1>2. ASSUME NEW e \in 1..N, NEW f \in Tables PROVE ObjectAt(f, e, bad) \in Objects
  <2>1. \A k \in 1..(e - 1) : f[k] \in Objects
    <3>1. \A k \in 1..(e - 1) : k \in 1..N
      BY <1>1
    <3> HIDE DEF N
    <3> QED BY <3>1
  <2> QED BY <1>1, <2>1, ObjectSplit
<1>3. ASSUME NEW e \in 1..N, NEW f \in Tables, NEW g \in Tables, \A i \in 1..(e - 1) : f[i] = g[i]
      PROVE  ObjectAt(f, e, bad) = ObjectAt(g, e, bad)
  <2>1. e \in Ids /\ Bottom(e) \in 1..e /\ Bottom(e) \in Ids
    <3>1. e \in Ids /\ Bottom(e) \in 1..e
      BY <1>1, RunFacts DEF RunGood
    <3> QED BY <1>1, <3>1
  <2>2. \A i \in 1..Len(node[Bottom(e)].kids) :
            f[node[Bottom(e)].kids[i]] = g[node[Bottom(e)].kids[i]]
    <3>1. \A i \in 1..Len(node[Bottom(e)].kids) : node[Bottom(e)].kids[i] \in 1..(Bottom(e) - 1)
      BY <1>1, <2>1, KidsFacts
    <3>2. \A k \in 1..(Bottom(e) - 1) : k \in 1..(e - 1)
      <4> HIDE DEF N
      <4> QED BY <1>1, <2>1
    <3> QED BY <1>3, <3>1, <3>2
  <2>3. Under(f, Bottom(e)) = Under(g, Bottom(e))
    BY <2>2 DEF Under
  <2>4. Last(newLogView(e).run) = Bottom(e)
    BY DEF newLogView, Bottom
  <2> QED BY <2>3, <2>4 DEF ObjectAt
<1>4. \E g \in Tables : g = Fn(g)
  <2> HIDE DEF ObjectAt
  <2>1. d \in [1..N -> [Tables -> Objects]]
    BY <1>2
  <2>2. \A e \in 1..N : \A f \in Tables : d[e][f] = ObjectAt(f, e, bad)
    OBVIOUS
  <2>3. \A e \in 1..N : \A f, g \in Tables :
            (\A i \in 1..(e - 1) : f[i] = g[i]) => d[e][f] = d[e][g]
    <3> SUFFICES ASSUME NEW e \in 1..N, NEW f \in Tables, NEW g \in Tables,
                        \A i \in 1..(e - 1) : f[i] = g[i]
                 PROVE  d[e][f] = d[e][g]
      OBVIOUS
    <3>1. ObjectAt(f, e, bad) = ObjectAt(g, e, bad)
      BY <1>3
    <3> HIDE DEF d, N, Tables
    <3> QED BY <2>2, <3>1
  <2> DEFINE S == Objects
             c == Nothing
             a == 1
  <2> HIDE DEF d, S, c, a
  <2>4. c \in S
    <3>1. <<>> \in Seq(Views)
      BY EmptySeq
    <3> QED BY <3>1 DEF c, S, Objects, Nothing
  <2>5. N \in Nat /\ a \in Nat /\ c \in S /\ ReadsBelow(d, a, N, S)
    BY <1>1, <2>1, <2>3, <2>4 DEF S, a, ReadsBelow
  <2> HIDE DEF N
  <2>6. \E g \in [a..N -> S] : \A e \in a..N : g[e] = d[e][g]
    BY ONLY <2>5, TableFunction
  <2>7. PICK g \in Tables : \A e \in 1..N : g[e] = d[e][g]
    BY <2>6 DEF S, a
  <2>8. \A e \in 1..N : g[e] = ObjectAt(g, e, bad)
    BY <2>2, <2>7
  <2>9. g = Fn(g)
    BY <1>1, <2>7, <2>8
  <2> QED BY <2>7, <2>9
<1>5. object = Fn(object)
  <2> HIDE DEF Fn
  <2> QED BY <1>4, Zenon
<1>6. \A e \in Ids : MarshalLogObject(e, bad) = object[e].written
  <2>1. \A e \in Ids : newLogView(e).run = Run[e]
    BY DEF newLogView
  <2> QED BY <2>1, Zenon DEF MarshalLogObject, Object, ObjectAt, Under, children
<1> HIDE DEF object
<1>7. \A e \in Ids : object[e] = ObjectAt(object, e, bad)
  BY <1>5
<1>8. \A e \in Ids : object[e] \in Objects
  <2> DEFINE T == {e \in 1..N : object[e] \in Objects}
  <2>1. ASSUME NEW e \in 1..N, \A m \in 1..(e - 1) : m \in T PROVE e \in T
    <3>1. \A k \in 1..(e - 1) : object[k] \in Objects
      BY <2>1
    <3>2. ObjectAt(object, e, bad) \in Objects
      BY <1>1, <3>1, ObjectSplit
    <3> QED BY <1>1, <1>7, <3>2
  <2>2. 1..N \subseteq T
    <3> HIDE DEF T, N
    <3> QED BY ONLY <1>1, <2>1, IntervalInduction
  <2> QED BY <1>1, <2>2
<1> QED BY <1>6, <1>7, <1>8

(* The object of a tree is cut where its entries are. *)
LEMMA ObjectCuts ==
    ASSUME LIInv, NEW bad, NEW e \in Ids
    PROVE  \E o \in Objects : MarshalLogObject(e, bad) = o.written /\ Cuts(o, Logged[e], bad)
<1> DEFINE N == Len(node)
<1>1. TreeIInv /\ N \in Nat /\ 1 \in Nat /\ Ids = 1..N
  BY Typing DEF LIInv
<1>2. PICK object : \A n \in Ids : /\ MarshalLogObject(n, bad) = object[n].written
                                   /\ object[n] = ObjectAt(object, n, bad)
                                   /\ object[n] \in Objects
  BY ObjectSteps
<1> DEFINE T == {n \in 1..N : Cuts(object[n], Logged[n], bad)}
<1>3. ASSUME NEW n \in Ids, \A m \in 1..(n - 1) : Cuts(object[m], Logged[m], bad)
      PROVE  Cuts(object[n], Logged[n], bad)
  <2> PICK b : b = Bottom(n)
    OBVIOUS
  <2> DEFINE ss == Under(Logged, b)
             objects == Under(object, b)
             K == Len(node[b].kids)
             one == <<newLogView(n)>>
  <2>1. b \in Ids /\ \A k \in 1..(b - 1) : k \in Ids /\ k \in 1..(n - 1)
    <3>1. b \in 1..n
      BY RunFacts DEF RunGood
    <3> HIDE DEF N
    <3> QED BY <1>1, <3>1
  <2>2. ss \in Seq(Seq(Views)) /\ Len(ss) = K /\ \A i \in 1..K : ss[i] = Logged[node[b].kids[i]]
    <3>1. TreeIInv /\ b \in Ids /\ \A k \in 1..(b - 1) : Logged[k] \in Seq(Views)
      BY <1>1, <2>1, LoggedFacts
    <3>2. /\ Under(Logged, b) \in Seq(Seq(Views)) /\ Len(Under(Logged, b)) = Len(node[b].kids)
          /\ \A i \in 1..Len(node[b].kids) : Under(Logged, b)[i] = Logged[node[b].kids[i]]
      <4> DEFINE S == Views
                 g == Logged
      <4>1. TreeIInv /\ b \in Ids /\ \A k \in 1..(b - 1) : g[k] \in Seq(S)
        BY <3>1
      <4> HIDE DEF S, g
      <4>2. /\ Under(g, b) \in Seq(Seq(S)) /\ Len(Under(g, b)) = Len(node[b].kids)
            /\ \A i \in 1..Len(node[b].kids) : Under(g, b)[i] = g[node[b].kids[i]]
            /\ FlattenSeq(Under(g, b)) \in Seq(S)
        BY ONLY <4>1, UnderSeq, Zenon
      <4> QED BY <4>2 DEF S, g
    <3> QED BY <3>2
  <2>3. /\ objects \in Seq(Objects) /\ Len(objects) = K
        /\ \A i \in 1..K : node[b].kids[i] \in 1..(b - 1) /\ objects[i] = object[node[b].kids[i]]
    <3>1. \A k \in 1..(b - 1) : object[k] \in Objects
      BY <1>2, <2>1
    <3> PICK g : g = object
      OBVIOUS
    <3>2. TreeIInv /\ b \in Ids /\ \A k \in 1..(b - 1) : g[k] \in Objects
      BY <1>1, <2>1, <3>1
    <3>3. /\ Under(g, b) \in Seq(Objects) /\ Len(Under(g, b)) = Len(node[b].kids)
          /\ \A i \in 1..Len(node[b].kids) :
                 node[b].kids[i] \in 1..(b - 1) /\ Under(g, b)[i] = g[node[b].kids[i]]
      BY ONLY <3>2, UnderObjects, Zenon
    <3> QED BY <3>3
  <2> HIDE DEF ss, objects, K
  <2>4. MarshalLogArray(objects) \in Objects /\ Cuts(MarshalLogArray(objects), FlattenSeq(ss), bad)
    <3>1. \A i \in 1..Len(ss) : Cuts(objects[i], ss[i], bad)
      BY <1>3, <2>1, <2>2, <2>3
    <3> QED BY <2>2, <2>3, <3>1, ArrayCuts
  <2>5. /\ object[n] = AppendObject(Alone(n, bad), MarshalLogArray(objects))
        /\ Alone(n, bad) \in Objects
    <3>1. \A k \in 1..(n - 1) : object[k] \in Objects
      <4>1. \A k \in 1..(n - 1) : k \in Ids
        <5> HIDE DEF N
        <5> QED BY <1>1
      <4> QED BY <1>2, <4>1
    <3> QED BY <1>2, <3>1, ObjectSplit DEF objects
  <2>6. /\ one \in Seq(Views) /\ Len(one) = 1 /\ one[1] = newLogView(n)
        /\ FlattenSeq(ss) \in Seq(Views) /\ Logged[n] = one \o FlattenSeq(ss)
    BY LoggedFacts, OneKid DEF After, ss
  <2>7. Cuts(Alone(n, bad), one, bad)
    <3>1. Alone(n, bad).written = one /\ Alone(n, bad).failed = Fails(newLogView(n), bad)
      BY DEF Alone
    <3> HIDE DEF one
    <3>2. CASE Fails(newLogView(n), bad)
      <4>1. CutAt(one, bad, 1)
        BY <2>6, <3>2 DEF CutAt
      <4>2. SubSeq(one, 1, 1) = one
        BY <2>6, SubSeqFull
      <4> QED BY <3>1, <3>2, <4>1, <4>2 DEF Cuts
    <3>3. CASE ~Fails(newLogView(n), bad)
      <4>1. AllWritten(one, bad)
        BY <2>6, <3>3 DEF AllWritten
      <4> QED BY <3>1, <3>3, <4>1 DEF Cuts
    <3> QED BY <3>2, <3>3
  <2> HIDE DEF one
  <2> QED BY <2>4, <2>5, <2>6, <2>7, CutJoin
<1>4. \A n \in 1..N : (\A m \in 1..(n - 1) : m \in T) => n \in T
  BY <1>1, <1>3
<1>5. 1..N \subseteq T
  <2> HIDE DEF T, N
  <2> QED BY ONLY <1>1, <1>4, IntervalInduction
<1>6. object[e] \in Objects /\ MarshalLogObject(e, bad) = object[e].written
      /\ Cuts(object[e], Logged[e], bad)
  BY <1>1, <1>2, <1>5
<1> QED BY <1>6

LEMMA FirstCut ==
    ASSUME NEW S, NEW s \in Seq(S), NEW bad
    PROVE  \/ CutAt(s, bad, FirstFailing(s, bad)) /\ FirstFailing(s, bad) # 0
           \/ AllWritten(s, bad) /\ FirstFailing(s, bad) = 0
<1> DEFINE I == {i \in 1..Len(s) : Fails(s[i], bad)}
           first == IF I # {} THEN Min(I) ELSE 0
<1>1. FirstFailing(s, bad) = first
  BY Zenon DEF SelectInSeq, FirstFailing
<1>2. CASE I = {}
  BY <1>1, <1>2 DEF AllWritten
<1>3. CASE I # {}
  <2>1. I \subseteq Nat
    OBVIOUS
  <2>2. PICK x \in I : \A y \in I : x <= y
    <3> HIDE DEF I
    <3> QED BY <1>3, <2>1, LeastElement
  <2>3. Min(I) \in I /\ \A y \in I : Min(I) <= y
    <3> HIDE DEF I
    <3> QED BY <2>2 DEF Min
  <2>4. first = Min(I)
    BY <1>3
  <2> HIDE DEF first
  <2>5. first \in I /\ \A j \in I : first <= j
    BY <2>3, <2>4
  <2>6. first \in 1..Len(s) /\ Fails(s[first], bad) /\ first # 0
    BY <2>5
  <2>7. ASSUME NEW j \in 1..(first - 1) PROVE ~Fails(s[j], bad)
    <3>1. j \in 1..Len(s) /\ ~(first <= j)
      BY <2>6
    <3> QED BY <2>5, <3>1
  <2>8. CutAt(s, bad, first)
    BY <2>6, <2>7 DEF CutAt
  <2> QED BY <1>1, <2>6, <2>8
<1> QED BY <1>2, <1>3

LEMMA OneCut ==
    ASSUME NEW s, NEW bad, NEW i, NEW k, CutAt(s, bad, i)
    PROVE  ~AllWritten(s, bad) /\ (CutAt(s, bad, k) => i = k)
<1>1. ~AllWritten(s, bad)
  BY DEF CutAt, AllWritten
<1>2. ASSUME CutAt(s, bad, k) PROVE i = k
  <2>1. i \in 1..Len(s) /\ k \in 1..Len(s) /\ ~(i \in 1..(k - 1)) /\ ~(k \in 1..(i - 1))
    BY <1>2 DEF CutAt
  <2> QED BY <2>1
<1> QED BY <1>1, <1>2

(* A list of parts can be written when each part can. *)
LEMMA PartsWritten ==
    ASSUME NEW S, NEW ss \in Seq(Seq(S)), NEW bad
    PROVE  AllWritten(FlattenSeq(ss), bad) <=> \A k \in 1..Len(ss) : AllWritten(ss[k], bad)
<1> PICK s : s = FlattenSeq(ss)
  OBVIOUS
<1>1. TakenFrom(s, ss, Len(ss)) /\ Keeps(s, ss, Len(ss))
  BY Flatten
<1>2. ASSUME AllWritten(s, bad), NEW k \in 1..Len(ss), NEW p \in 1..Len(ss[k])
      PROVE  ~Fails(ss[k][p], bad)
  <2>1. PICK i \in 1..Len(s) : s[i] = ss[k][p]
    BY <1>1 DEF Keeps
  <2> QED BY <1>2, <2>1 DEF AllWritten
<1>3. ASSUME \A k \in 1..Len(ss) : AllWritten(ss[k], bad), NEW i \in 1..Len(s)
      PROVE  ~Fails(s[i], bad)
  <2>1. PICK k \in 1..Len(ss) : \E p \in 1..Len(ss[k]) : Taken(s, i, ss, k, p)
    BY <1>1 DEF TakenFrom
  <2>2. PICK p \in 1..Len(ss[k]) : s[i] = ss[k][p]
    BY <2>1 DEF Taken
  <2> QED BY <1>3, <2>2 DEF AllWritten
<1> QED BY <1>2, <1>3 DEF AllWritten

(* One call of JSON, the calls below it answered by g. *)
Failing(causes) == \E i \in 1..Len(causes) : causes[i].failed
Written(causes) == [i \in 1..Len(causes) |-> causes[i].written]
JSONAt(g, e, bad) ==
    LET causes == Under(g, Bottom(e))
    IN  IF Fails(newLogView(e), bad) \/ Failing(causes) THEN [written |-> <<>>, failed |-> TRUE]
        ELSE [written |-> <<newLogView(e)>> \o FlattenSeq(Written(causes)), failed |-> FALSE]

LEMMA JSONTyped ==
    ASSUME LIInv, NEW e \in Ids, NEW g, NEW bad, \A k \in 1..(e - 1) : g[k] \in Objects
    PROVE  /\ JSONAt(g, e, bad) \in Objects
           /\ LET causes == Under(g, Bottom(e))
              IN  /\ Len(causes) = Len(node[Bottom(e)].kids)
                  /\ \A i \in 1..Len(causes) : causes[i] = g[node[Bottom(e)].kids[i]]
<1> PICK b : b = Bottom(e)
  OBVIOUS
<1> DEFINE causes == Under(g, b)
<1>1. causes \in Seq(Objects) /\ Len(causes) = Len(node[b].kids)
      /\ \A i \in 1..Len(causes) : causes[i] = g[node[b].kids[i]]
  <2>1. TreeIInv /\ b \in 1..e
    BY RunFacts DEF LIInv, RunGood
  <2>2. b \in Ids /\ \A k \in 1..(b - 1) : k \in 1..(e - 1)
    BY <2>1, Typing
  <2> QED BY <2>1, <2>2, UnderObjects
<1> HIDE DEF causes
<1>2. <<newLogView(e)>> \in Seq(Views) /\ <<>> \in Seq(Views)
  BY LoggedFacts, OneKid, EmptySeq
<1>3. FlattenSeq(Written(causes)) \in Seq(Views)
  <2>1. \A i \in 1..Len(causes) : causes[i].written \in Seq(Views)
    <3>1. ASSUME NEW i \in 1..Len(causes) PROVE causes[i] \in Objects
      BY <1>1, ElementOfSeq
    <3> QED BY <3>1 DEF Objects
  <2>2. Written(causes) \in Seq(Seq(Views))
    <3> PICK N : N = Len(causes)
      OBVIOUS
    <3>1. N \in Nat
      BY <1>1, LenProperties
    <3>2. Written(causes) \in [1..N -> Seq(Views)]
      BY <2>1 DEF Written
    <3> QED BY <3>1, <3>2, SeqDef
  <2> QED BY <2>2, Flatten
<1>4. <<newLogView(e)>> \o FlattenSeq(Written(causes)) \in Seq(Views)
  BY <1>2, <1>3, ConcatProperties
<1>5. JSONAt(g, e, bad) =
          IF Fails(newLogView(e), bad) \/ Failing(causes) THEN [written |-> <<>>, failed |-> TRUE]
          ELSE [written |-> <<newLogView(e)>> \o FlattenSeq(Written(causes)), failed |-> FALSE]
  BY DEF JSONAt, causes
<1>6. JSONAt(g, e, bad) \in Objects
  BY <1>2, <1>4, <1>5 DEF Objects
<1> QED BY <1>1, <1>6 DEF causes

LEMMA JSONSteps ==
    ASSUME LIInv, NEW bad
    PROVE  \E object : \A e \in Ids : /\ JSON(e, bad) = object[e]
                                      /\ object[e] = JSONAt(object, e, bad)
                                      /\ object[e] \in Objects
<1> DEFINE N == Len(node)
           Tables == [1..N -> Objects]
           Fn(g) == [e \in Ids |-> JSONAt(g, e, bad)]
           object == CHOOSE g : g = Fn(g)
           d == [e \in 1..N |-> [f \in Tables |-> JSONAt(f, e, bad)]]
<1>1. TreeIInv /\ N \in Nat /\ 1 \in Nat /\ Ids = 1..N
  BY Typing DEF LIInv
<1>2. ASSUME NEW e \in 1..N, NEW f \in Tables PROVE JSONAt(f, e, bad) \in Objects
  <2>1. \A k \in 1..(e - 1) : f[k] \in Objects
    <3>1. \A k \in 1..(e - 1) : k \in 1..N
      BY <1>1
    <3> HIDE DEF N
    <3> QED BY <3>1
  <2> QED BY <1>1, <2>1, JSONTyped
<1>3. ASSUME NEW e \in 1..N, NEW f \in Tables, NEW g \in Tables, \A i \in 1..(e - 1) : f[i] = g[i]
      PROVE  JSONAt(f, e, bad) = JSONAt(g, e, bad)
  <2>1. e \in Ids /\ Bottom(e) \in 1..e /\ Bottom(e) \in Ids
    <3>1. e \in Ids /\ Bottom(e) \in 1..e
      BY <1>1, RunFacts DEF RunGood
    <3> QED BY <1>1, <3>1
  <2>2. \A i \in 1..Len(node[Bottom(e)].kids) :
            f[node[Bottom(e)].kids[i]] = g[node[Bottom(e)].kids[i]]
    <3>1. \A i \in 1..Len(node[Bottom(e)].kids) : node[Bottom(e)].kids[i] \in 1..(Bottom(e) - 1)
      BY <1>1, <2>1, KidsFacts
    <3>2. \A k \in 1..(Bottom(e) - 1) : k \in 1..(e - 1)
      <4> HIDE DEF N
      <4> QED BY <1>1, <2>1
    <3> QED BY <1>3, <3>1, <3>2
  <2>3. Under(f, Bottom(e)) = Under(g, Bottom(e))
    BY <2>2 DEF Under
  <2> QED BY <2>3 DEF JSONAt
<1>4. \E g \in Tables : g = Fn(g)
  <2> HIDE DEF JSONAt
  <2>1. d \in [1..N -> [Tables -> Objects]]
    BY <1>2
  <2>2. \A e \in 1..N : \A f \in Tables : d[e][f] = JSONAt(f, e, bad)
    OBVIOUS
  <2>3. \A e \in 1..N : \A f, g \in Tables :
            (\A i \in 1..(e - 1) : f[i] = g[i]) => d[e][f] = d[e][g]
    <3> SUFFICES ASSUME NEW e \in 1..N, NEW f \in Tables, NEW g \in Tables,
                        \A i \in 1..(e - 1) : f[i] = g[i]
                 PROVE  d[e][f] = d[e][g]
      OBVIOUS
    <3>1. JSONAt(f, e, bad) = JSONAt(g, e, bad)
      BY <1>3
    <3> HIDE DEF d, N, Tables
    <3> QED BY <2>2, <3>1
  <2> DEFINE S == Objects
             c == Nothing
             a == 1
  <2> HIDE DEF d, S, c, a
  <2>4. c \in S
    <3>1. <<>> \in Seq(Views)
      BY EmptySeq
    <3> QED BY <3>1 DEF c, S, Objects, Nothing
  <2>5. N \in Nat /\ a \in Nat /\ c \in S /\ ReadsBelow(d, a, N, S)
    BY <1>1, <2>1, <2>3, <2>4 DEF S, a, ReadsBelow
  <2> HIDE DEF N
  <2>6. \E g \in [a..N -> S] : \A e \in a..N : g[e] = d[e][g]
    BY ONLY <2>5, TableFunction
  <2>7. PICK g \in Tables : \A e \in 1..N : g[e] = d[e][g]
    BY <2>6 DEF S, a
  <2>8. \A e \in 1..N : g[e] = JSONAt(g, e, bad)
    BY <2>2, <2>7
  <2>9. g = Fn(g)
    BY <1>1, <2>7, <2>8
  <2> QED BY <2>7, <2>9
<1>5. object = Fn(object)
  <2> HIDE DEF Fn
  <2> QED BY <1>4, Zenon
<1>6. \A e \in Ids : JSON(e, bad) = object[e]
  BY Zenon DEF JSON, JSONAt, Marshalled, Fail, Under, children, Failing, Written, Bottom
<1> HIDE DEF object
<1>7. \A e \in Ids : object[e] = JSONAt(object, e, bad)
  BY <1>5
<1>8. \A e \in Ids : object[e] \in Objects
  <2> DEFINE T == {e \in 1..N : object[e] \in Objects}
  <2>1. ASSUME NEW e \in 1..N, \A m \in 1..(e - 1) : m \in T PROVE e \in T
    <3>1. \A k \in 1..(e - 1) : object[k] \in Objects
      BY <2>1
    <3>2. JSONAt(object, e, bad) \in Objects
      BY <1>1, <3>1, JSONTyped
    <3> QED BY <1>1, <1>7, <3>2
  <2>2. 1..N \subseteq T
    <3> HIDE DEF T, N
    <3> QED BY ONLY <1>1, <2>1, IntervalInduction
  <2> QED BY <1>1, <2>2
<1> QED BY <1>6, <1>7, <1>8

(* The value o is what JSON makes of the entries s: all of them or nothing. *)
Whole(o, s, bad) ==
    \/ o.failed /\ ~AllWritten(s, bad)
    \/ ~o.failed /\ AllWritten(s, bad) /\ o.written = s

(* The entries below an error, and the values that JSON makes of them. *)
LEMMA WholeCauses ==
    ASSUME LIInv, NEW bad, NEW e \in Ids, NEW causes,
           Len(causes) = Len(node[Bottom(e)].kids),
           \A i \in 1..Len(causes) : Whole(causes[i], Logged[node[Bottom(e)].kids[i]], bad)
    PROVE  /\ Failing(causes) <=> ~AllWritten(After(e), bad)
           /\ ~Failing(causes) => FlattenSeq(Written(causes)) = After(e)
<1> PICK b : b = Bottom(e)
  OBVIOUS
<1> DEFINE ss == Under(Logged, b)
           K == Len(node[b].kids)
<1>1. b \in Ids /\ \A k \in 1..(b - 1) : k \in Ids
  <2>1. b \in 1..e /\ Ids = 1..Len(node) /\ Len(node) \in Nat
    BY RunFacts, Typing DEF LIInv, RunGood
  <2> QED BY <2>1
<1>2. ss \in Seq(Seq(Views)) /\ Len(ss) = K /\ \A i \in 1..K : ss[i] = Logged[node[b].kids[i]]
  <2>1. TreeIInv /\ b \in Ids /\ \A k \in 1..(b - 1) : Logged[k] \in Seq(Views)
    BY <1>1, LoggedFacts DEF LIInv
  <2> PICK g : g = Logged
    OBVIOUS
  <2> PICK S : S = Views
    OBVIOUS
  <2>2. TreeIInv /\ b \in Ids /\ \A k \in 1..(b - 1) : g[k] \in Seq(S)
    BY <2>1
  <2>3. /\ Under(g, b) \in Seq(Seq(S)) /\ Len(Under(g, b)) = Len(node[b].kids)
        /\ \A i \in 1..Len(node[b].kids) : Under(g, b)[i] = g[node[b].kids[i]]
        /\ FlattenSeq(Under(g, b)) \in Seq(S)
    BY ONLY <2>2, UnderSeq, Zenon
  <2> QED BY <2>3
<1>3. After(e) = FlattenSeq(ss)
  BY DEF After
<1>4. Len(causes) = K /\ \A i \in 1..K : Whole(causes[i], ss[i], bad)
  BY <1>2
<1> HIDE DEF ss, K
<1>5. Failing(causes) <=> \E i \in 1..K : ~AllWritten(ss[i], bad)
  <2>1. \A i \in 1..K : causes[i].failed <=> ~AllWritten(ss[i], bad)
    BY <1>4 DEF Whole
  <2> QED BY <1>4, <2>1 DEF Failing
<1>6. Failing(causes) <=> ~AllWritten(After(e), bad)
  BY <1>2, <1>3, <1>5, PartsWritten
<1>7. ASSUME ~Failing(causes) PROVE FlattenSeq(Written(causes)) = After(e)
  <2>1. \A i \in 1..K : causes[i].written = ss[i]
    BY <1>4, <1>5, <1>7 DEF Whole
  <2>2. ss = [i \in 1..K |-> ss[i]]
    BY <1>2
  <2>3. Written(causes) = ss
    BY <1>4, <2>1, <2>2 DEF Written
  <2> QED BY <1>3, <2>3
<1> QED BY <1>6, <1>7

(* The entry of an error, then what is below it. *)
LEMMA TopWritten ==
    ASSUME LIInv, NEW bad, NEW e \in Ids
    PROVE  /\ Len(Logged[e]) \in Nat /\ 1 <= Len(Logged[e]) /\ Logged[e][1] = newLogView(e)
           /\ AllWritten(After(e), bad) <=> \A i \in 2..Len(Logged[e]) : ~Fails(Logged[e][i], bad)
           /\ AllWritten(Logged[e], bad) <=> ~Fails(newLogView(e), bad) /\ AllWritten(After(e), bad)
<1> PICK one : one = <<newLogView(e)>>
  OBVIOUS
<1> PICK rest : rest = After(e)
  OBVIOUS
<1> PICK s : s = Logged[e]
  OBVIOUS
<1>1. /\ one \in Seq(Views) /\ Len(one) = 1 /\ one[1] = newLogView(e)
      /\ rest \in Seq(Views) /\ s = one \o rest
  BY LoggedFacts, OneKid
<1>2. /\ Len(rest) \in Nat /\ Len(s) = Len(one) + Len(rest)
      /\ \A i \in 1..Len(one) : s[i] = one[i]
      /\ \A i \in 1..Len(rest) : s[Len(one) + i] = rest[i]
  <2>1. one \in Seq(Views) /\ rest \in Seq(Views) /\ Len(rest) \in Nat
    BY <1>1, LenProperties
  <2>2. /\ Len(rest) \in Nat /\ Len(one \o rest) = Len(one) + Len(rest)
        /\ \A i \in 1..Len(one) : (one \o rest)[i] = one[i]
        /\ \A i \in 1..Len(rest) : (one \o rest)[Len(one) + i] = rest[i]
    BY ONLY <2>1, Concat
  <2> QED BY <1>1, <2>2
<1>3. Len(s) = 1 + Len(rest) /\ Len(s) \in Nat /\ 1 <= Len(s) /\ s[1] = newLogView(e)
      /\ \A i \in 1..Len(rest) : s[1 + i] = rest[i]
  BY <1>1, <1>2
<1>4. AllWritten(rest, bad) <=> \A i \in 2..Len(s) : ~Fails(s[i], bad)
  <2>1. ASSUME AllWritten(rest, bad), NEW i \in 2..Len(s) PROVE ~Fails(s[i], bad)
    <3> PICK p : p = i - 1
      OBVIOUS
    <3>1. p \in 1..Len(rest) /\ i = 1 + p
      BY <1>2, <1>3
    <3>2. s[i] = rest[p]
      BY <1>3, <3>1
    <3> QED BY <2>1, <3>1, <3>2 DEF AllWritten
  <2>2. ASSUME \A i \in 2..Len(s) : ~Fails(s[i], bad), NEW p \in 1..Len(rest)
        PROVE  ~Fails(rest[p], bad)
    <3>1. 1 + p \in 2..Len(s) /\ s[1 + p] = rest[p]
      BY <1>2, <1>3
    <3> QED BY <2>2, <3>1
  <2> QED BY <2>1, <2>2 DEF AllWritten
<1>5. AllWritten(s, bad) <=> ~Fails(s[1], bad) /\ \A i \in 2..Len(s) : ~Fails(s[i], bad)
  <2>1. 1..Len(s) = {1} \cup 2..Len(s)
    BY <1>3
  <2> QED BY <2>1 DEF AllWritten
<1> QED BY <1>3, <1>4, <1>5

LEMMA JSONWhole ==
    ASSUME LIInv, NEW bad
    PROVE  \A e \in Ids : Whole(JSON(e, bad), Logged[e], bad)
<1> DEFINE N == Len(node)
<1>1. TreeIInv /\ N \in Nat /\ 1 \in Nat /\ Ids = 1..N
  BY Typing DEF LIInv
<1>2. PICK object : \A e \in Ids : /\ JSON(e, bad) = object[e]
                                   /\ object[e] = JSONAt(object, e, bad)
                                   /\ object[e] \in Objects
  BY JSONSteps
<1> DEFINE T == {e \in 1..N : Whole(object[e], Logged[e], bad)}
<1>3. ASSUME NEW e \in 1..N, \A m \in 1..(e - 1) : m \in T PROVE e \in T
  <2> PICK b : b = Bottom(e)
    OBVIOUS
  <2> PICK causes : causes = Under(object, b)
    OBVIOUS
  <2>1. e \in Ids /\ b \in Ids /\ \A k \in 1..(b - 1) : k \in 1..(e - 1)
    <3>1. e \in Ids /\ b \in 1..e
      BY <1>1, RunFacts DEF RunGood
    <3> HIDE DEF N
    <3> QED BY <1>1, <3>1
  <2>2. \A k \in 1..(e - 1) : object[k] \in Objects
    BY <1>1, <1>2, <1>3
  <2>3. Len(causes) = Len(node[b].kids) /\ \A i \in 1..Len(causes) : causes[i] = object[node[b].kids[i]]
    BY <2>1, <2>2, JSONTyped
  <2>4. \A i \in 1..Len(causes) : Whole(causes[i], Logged[node[b].kids[i]], bad)
    BY <1>1, <1>3, <2>1, <2>3, KidsFacts
  <2>5. /\ Failing(causes) <=> ~AllWritten(After(e), bad)
        /\ ~Failing(causes) => FlattenSeq(Written(causes)) = After(e)
    BY <2>1, <2>3, <2>4, WholeCauses
  <2>6. object[e] =
            IF Fails(newLogView(e), bad) \/ Failing(causes) THEN [written |-> <<>>, failed |-> TRUE]
            ELSE [written |-> <<newLogView(e)>> \o FlattenSeq(Written(causes)), failed |-> FALSE]
    BY <1>2, <2>1 DEF JSONAt
  <2>7. Logged[e] = <<newLogView(e)>> \o After(e)
    BY <2>1, LoggedFacts
  <2>8. AllWritten(Logged[e], bad) <=> ~Fails(newLogView(e), bad) /\ AllWritten(After(e), bad)
    BY <2>1, TopWritten
  <2>9. Whole(object[e], Logged[e], bad)
    <3>1. CASE Fails(newLogView(e), bad) \/ Failing(causes)
      <4>1. object[e].failed
        BY <2>6, <3>1
      <4> QED BY <2>5, <2>8, <3>1, <4>1 DEF Whole
    <3>2. CASE ~(Fails(newLogView(e), bad) \/ Failing(causes))
      <4>1. ~object[e].failed /\ object[e].written = Logged[e]
        BY <2>5, <2>6, <2>7, <3>2
      <4> QED BY <2>5, <2>8, <3>2, <4>1 DEF Whole
    <3> QED BY <3>1, <3>2
  <2> QED BY <2>9
<1>4. 1..N \subseteq T
  <2> HIDE DEF T, N
  <2> QED BY ONLY <1>1, <1>3, IntervalInduction
<1> QED BY <1>1, <1>2, <1>4

(* zap writes the entries up to the first that cannot be written.  slog writes all of
   them, or the outermost alone: json.Marshal of its causes is all or nothing. *)
THEOREM LoggedUpToTheFailure == LSpec => []LoggedUpToFailure
<1>1. ASSUME LIInv, NEW n \in Ids, NEW entries, entries = Logged[n], NEW bad,
             NEW first, first = FirstFailing(entries, bad)
      PROVE  MarshalLogObject(n, bad) = SubSeq(entries, 1, IF first = 0 THEN Len(entries) ELSE first)
  <2>1. entries \in Seq(Views)
    BY <1>1, LoggedFacts
  <2>2. \/ CutAt(entries, bad, first) /\ first # 0
        \/ AllWritten(entries, bad) /\ first = 0
    BY <1>1, <2>1, FirstCut
  <2>3. PICK o \in Objects : MarshalLogObject(n, bad) = o.written /\ Cuts(o, entries, bad)
    BY <1>1, ObjectCuts
  <2>4. CASE ~o.failed /\ AllWritten(entries, bad) /\ o.written = entries
    <3>1. first = 0
      BY <2>2, <2>4, OneCut
    <3>2. SubSeq(entries, 1, Len(entries)) = entries
      BY <2>1, SubSeqFull
    <3> QED BY <2>3, <2>4, <3>1, <3>2
  <2>5. CASE o.failed /\ \E i : CutAt(entries, bad, i) /\ o.written = SubSeq(entries, 1, i)
    <3>1. PICK i : CutAt(entries, bad, i) /\ o.written = SubSeq(entries, 1, i)
      BY <2>5
    <3>2. first # 0 /\ i = first
      BY <2>2, <3>1, OneCut
    <3> QED BY <2>3, <3>1, <3>2
  <2> QED BY <2>3, <2>4, <2>5 DEF Cuts
<1>2. ASSUME LIInv, NEW n \in Ids, NEW entries, entries = Logged[n], NEW bad
      PROVE  slogValue(n, bad) = IF {i \in 2..Len(entries) : Fails(entries[i], bad)} = {} THEN entries
                                 ELSE <<entries[1]>>
  <2> PICK b : b = Bottom(n)
    OBVIOUS
  <2> PICK one : one = newLogView(n)
    OBVIOUS
  <2> PICK below : below = node[b].kids
    OBVIOUS
  <2> DEFINE causes == [i \in 1..Len(below) |-> JSON(below[i], bad)]
  <2>1. slogValue(n, bad) = IF Failing(causes) THEN <<one>> ELSE <<one>> \o FlattenSeq(Written(causes))
    <3>1. children(Last(Run[n])) = below
      BY DEF Bottom, children
    <3> PICK shown : shown = children(Last(Run[n]))
      OBVIOUS
    <3>2. slogValue(n, bad) = Group(newLogView(n), [i \in 1..Len(shown) |-> JSON(shown[i], bad)])
      BY Zenon DEF slogValue
    <3>3. slogValue(n, bad) = Group(one, causes)
      BY <3>1, <3>2
    <3>4. Group(one, causes) = IF Failing(causes) THEN <<one>>
                               ELSE <<one>> \o FlattenSeq(Written(causes))
      BY Zenon DEF Group, Fail, Failing, Written
    <3> QED BY <3>3, <3>4
  <2>2. Len(below) \in Nat /\ \A i \in 1..Len(below) : below[i] \in Ids
    <3>1. TreeIInv /\ b \in 1..n /\ Ids = 1..Len(node) /\ Len(node) \in Nat
      BY <1>2, RunFacts, Typing DEF LIInv, RunGood
    <3>2. b \in Ids
      BY <1>2, <3>1
    <3> QED BY <3>1, <3>2, KidsFacts
  <2>3. /\ Len(causes) = Len(below)
        /\ \A i \in 1..Len(causes) : causes[i] = JSON(below[i], bad)
    BY <2>2
  <2> HIDE DEF causes
  <2>4. \A i \in 1..Len(causes) : Whole(causes[i], Logged[below[i]], bad)
    BY <1>2, <2>2, <2>3, JSONWhole
  <2>5. /\ Failing(causes) <=> ~AllWritten(After(n), bad)
        /\ ~Failing(causes) => FlattenSeq(Written(causes)) = After(n)
    BY <1>2, <2>3, <2>4, WholeCauses
  <2>6. entries = <<one>> \o After(n)
    BY <1>2, LoggedFacts
  <2>7. /\ entries[1] = one
        /\ AllWritten(After(n), bad) <=> \A i \in 2..Len(entries) : ~Fails(entries[i], bad)
    BY <1>2, TopWritten
  <2> QED BY <2>1, <2>5, <2>6, <2>7
<1>3. LIInv => LoggedUpToFailure
  <2> SUFFICES ASSUME LIInv, NEW n \in Ids, NEW bad PROVE Cut(n, Logged[n], bad)
    BY Zenon DEF LoggedUpToFailure, Shown
  <2> DEFINE entries == Logged[n]
  <2>1. MarshalLogObject(n, bad) = UpTo(entries, FirstFailing(entries, bad))
    BY <1>1, Zenon DEF UpTo
  <2>2. slogValue(n, bad) = IF FailingBelow(entries, bad) = {} THEN entries ELSE <<entries[1]>>
    BY <1>2, Zenon DEF FailingBelow
  <2> QED BY <2>1, <2>2, Zenon DEF Cut
<1> QED BY <1>3, LIInvHolds, PTL

-----------------------------------------------------------------------------
(* The name of an entry. *)

NameStep(name, m) == IF node[m].kind = "field" THEN joinField(name, m) ELSE name

(* The loop over the errors of a run, error by error. *)
LEMMA NamedSteps ==
    ASSUME NEW run \in Seq(Ids)
    PROVE  \E name : /\ Named(run) = name[Len(run)] /\ name[0] = <<>>
                     /\ \A i \in 1..Len(run) : name[i] = NameStep(name[i - 1], run[i])
                     /\ \A i \in 0..Len(run) : name[i] \in Seq(Ids)
<1> DEFINE N == Len(run)
           Fn(g) == [i \in 0..N |-> IF i = 0 THEN <<>> ELSE NameStep(g[i - 1], run[i])]
           name == CHOOSE g : g = Fn(g)
           d == [i \in 1..N |-> [s \in Seq(Ids) |-> NameStep(s, run[i])]]
<1>1. N \in Nat /\ <<>> \in Seq(Ids) /\ \A i \in 1..N : run[i] \in Ids
  BY LenProperties, ElementOfSeq, EmptySeq
<1>2. ASSUME NEW s \in Seq(Ids), NEW m \in Ids PROVE NameStep(s, m) \in Seq(Ids)
  BY AppendProperties DEF NameStep, joinField
<1>3. \E g \in [0..N -> Seq(Ids)] : g = Fn(g)
  <2>1. d \in [1..N -> [Seq(Ids) -> Seq(Ids)]]
    BY <1>1, <1>2
  <2>2. \A i \in 1..N : \A s \in Seq(Ids) : d[i][s] = NameStep(s, run[i])
    OBVIOUS
  <2> HIDE DEF d, N
  <2>3. PICK g \in [0..N -> Seq(Ids)] : g[0] = <<>> /\ \A i \in 1..N : g[i] = d[i][g[i - 1]]
    <3> DEFINE S == Seq(Ids) c == <<>>
    <3>1. N \in Nat /\ c \in S
      BY <1>1
    <3>2. IsStep(d, N, S)
      BY <2>1 DEF IsStep
    <3> HIDE DEF S, c, N
    <3>3. \E f \in [0..N -> S] : f[0] = c /\ \A k \in 1..N : f[k] = d[k][f[k - 1]]
      BY ONLY <3>1, <3>2, StepTable
    <3> QED BY <3>3 DEF S, c
  <2>4. ASSUME NEW i \in 0..N, i # 0 PROVE g[i] = NameStep(g[i - 1], run[i])
    <3>1. i \in 1..N /\ i - 1 \in 0..N
      BY <1>1, <2>4
    <3> QED BY <2>2, <2>3, <3>1
  <2>5. g = Fn(g)
    BY <2>3, <2>4
  <2> QED BY <2>5
<1>4. name = Fn(name)
  <2> HIDE DEF Fn
  <2> QED BY <1>3, Zenon
<1>5. Named(run) = name[N]
  BY Zenon DEF Named, NameStep
<1>6. name[0] = <<>> /\ \A i \in 1..N : name[i] = NameStep(name[i - 1], run[i])
  <2> HIDE DEF name
  <2>1. 0 \in 0..N /\ \A i \in 1..N : i \in 0..N /\ i # 0
    BY <1>1
  <2> QED BY <1>4, <2>1
<1>7. \A i \in 0..N : name[i] \in Seq(Ids)
  <2> DEFINE T == {i \in 0..N : name[i] \in Seq(Ids)}
  <2> HIDE DEF name
  <2>1. ASSUME NEW i \in 0..N, \A j \in 0..(i - 1) : j \in T PROVE i \in T
    <3>1. CASE i = 0
      BY <1>1, <1>6, <3>1
    <3>2. CASE i # 0
      <4>1. i \in 1..N /\ i - 1 \in 0..(i - 1)
        BY <1>1, <3>2
      <4>2. name[i - 1] \in Seq(Ids)
        BY <2>1, <4>1
      <4> QED BY <1>1, <1>2, <1>6, <4>1, <4>2
    <3> QED BY <3>1, <3>2
  <2>2. 0..N \subseteq T
    <3>1. 0 \in Nat
      OBVIOUS
    <3> HIDE DEF T, N
    <3> QED BY ONLY <1>1, <2>1, <3>1, IntervalInduction
  <2> QED BY <2>2
<1> QED BY <1>5, <1>6, <1>7

(* All the fields of a run, in order, those with an empty name too. *)
Fields == [m \in Ids |-> IF node[m].kind = "field" THEN <<m>> ELSE <<>>]
AllNamed(run) == FlatMap(Fields, run)
AllStep(name, m) == IF node[m].kind = "field" THEN Append(name, m) ELSE name

LEMMA FieldsMaps == Maps(Fields, Ids, Seq(Ids))
<1>1. \A m \in Ids : Fields[m] \in Seq(Ids)
  BY OneKid, EmptySeq DEF Fields
<1> QED BY <1>1 DEF Maps

LEMMA AllNamedSteps ==
    ASSUME NEW run \in Seq(Ids)
    PROVE  \E all : /\ AllNamed(run) = all[Len(run)] /\ all[0] = <<>>
                    /\ \A i \in 1..Len(run) : all[i] = AllStep(all[i - 1], run[i])
                    /\ \A i \in 0..Len(run) : all[i] \in Seq(Ids)
<1> DEFINE N == Len(run)
           ss == Map(Fields, run)
<1>1. N \in Nat /\ \A i \in 1..N : run[i] \in Ids /\ i - 1 \in 0..N
  <2>1. N \in Nat /\ \A i \in 1..N : run[i] \in Ids
    BY LenProperties, ElementOfSeq
  <2> QED BY <2>1
<1>2. ss \in Seq(Seq(Ids)) /\ Len(ss) = N /\ \A i \in 1..N : ss[i] = Fields[run[i]]
  BY FieldsMaps, MapSeq
<1>3. PICK all : /\ all[0] = <<>> /\ FlattenSeq(ss) = all[Len(ss)]
                 /\ \A k \in 1..Len(ss) : all[k] = all[k - 1] \o ss[k]
                 /\ \A k \in 0..Len(ss) : all[k] \in Seq(Ids)
  <2> HIDE DEF ss
  <2> QED BY <1>2, FlattenTable
<1> HIDE DEF N, ss
<1>4. ASSUME NEW i \in 1..N PROVE all[i] = AllStep(all[i - 1], run[i])
  <2> PICK s : s = all[i - 1]
    OBVIOUS
  <2> PICK m : m = run[i]
    OBVIOUS
  <2>1. s \in Seq(Ids) /\ m \in Ids /\ all[i] = s \o Fields[m]
    BY <1>1, <1>2, <1>3
  <2>2. CASE node[m].kind = "field"
    <3>1. AllStep(s, m) = Append(s, m) /\ Fields[m] = <<m>>
      BY <2>1, <2>2 DEF AllStep, Fields
    <3>2. Append(s, m) = s \o <<m>>
      BY <2>1, AppendIsConcat
    <3> QED BY <2>1, <3>1, <3>2
  <2>3. CASE node[m].kind # "field"
    <3>1. AllStep(s, m) = s /\ Fields[m] = <<>>
      BY <2>1, <2>3 DEF AllStep, Fields
    <3>2. s \o <<>> = s
      BY <2>1, ConcatEmptySeq
    <3> QED BY <2>1, <3>1, <3>2
  <2> QED BY <2>2, <2>3
<1> QED BY <1>2, <1>3, <1>4 DEF AllNamed, FlatMap, ss, N

LEMMA NamedFields ==
    ASSUME NEW run \in Seq(Ids)
    PROVE  /\ Maps(Fields, Ids, Seq(Ids)) /\ AllNamed(run) = FlatMap(Fields, run)
           /\ AllNamed(run) \in Seq(Ids) /\ (NoField(run) => AllNamed(run) = <<>>)
<1> DEFINE N == Len(run)
<1>1. N \in Nat /\ 0 \in Nat /\ N \in 0..N
  BY LenProperties
<1>2. PICK all : /\ AllNamed(run) = all[N] /\ all[0] = <<>>
                 /\ \A i \in 1..N : all[i] = AllStep(all[i - 1], run[i])
                 /\ \A i \in 0..N : all[i] \in Seq(Ids)
  BY AllNamedSteps
<1> DEFINE T == {k \in 0..N : NoField(run) => all[k] = <<>>}
<1>3. ASSUME NEW k \in 0..N, \A j \in 0..(k - 1) : j \in T PROVE k \in T
  <2>1. CASE k = 0
    BY <1>2, <2>1
  <2>2. CASE k # 0
    <3>1. k \in 1..N /\ k - 1 \in 0..(k - 1)
      BY <1>1, <2>2
    <3>2. NoField(run) => all[k - 1] = <<>>
      BY <1>3, <3>1
    <3>3. NoField(run) => all[k] = all[k - 1]
      BY <1>2, <3>1 DEF NoField, AllStep
    <3> QED BY <3>2, <3>3
  <2> QED BY <2>1, <2>2
<1>4. 0..N \subseteq T
  <2> HIDE DEF T, N
  <2> QED BY ONLY <1>1, <1>3, IntervalInduction
<1> QED BY <1>1, <1>2, <1>4, FieldsMaps DEF AllNamed

(* A name is spoken from its first part that is not empty. *)
SpokenFrom(name, i) ==
    i \in 1..Len(name) /\ name[i] \notin unnamed /\ \A j \in 1..(i - 1) : name[j] \in unnamed
Unspoken(name) == \A i \in 1..Len(name) : name[i] \in unnamed

LEMMA SpokenEither ==
    ASSUME NEW S, NEW name \in Seq(S)
    PROVE  \/ \E i : SpokenFrom(name, i) /\ Spoken(name) = SubSeq(name, i, Len(name))
           \/ Unspoken(name) /\ Spoken(name) = <<>>
<1> DEFINE I == {i \in 1..Len(name) : name[i] \notin unnamed}
           first == IF I # {} THEN Min(I) ELSE 0
<1>1. Spoken(name) = IF first = 0 THEN <<>> ELSE SubSeq(name, first, Len(name))
  <2>1. SelectInSeq(name, LAMBDA field : field \notin unnamed) = first
    BY Zenon DEF SelectInSeq
  <2> HIDE DEF first
  <2> QED BY <2>1, Zenon DEF Spoken
<1>2. CASE I = {}
  BY <1>1, <1>2 DEF Unspoken
<1>3. CASE I # {}
  <2>1. I \subseteq Nat
    OBVIOUS
  <2>2. PICK x \in I : \A y \in I : x <= y
    <3> HIDE DEF I
    <3> QED BY <1>3, <2>1, LeastElement
  <2>3. Min(I) \in I /\ \A y \in I : Min(I) <= y
    <3> HIDE DEF I
    <3> QED BY <2>2 DEF Min
  <2>4. first = Min(I)
    BY <1>3
  <2> HIDE DEF first
  <2>5. first \in I /\ \A j \in I : first <= j
    BY <2>3, <2>4
  <2>6. first \in 1..Len(name) /\ name[first] \notin unnamed /\ first # 0
    BY <2>5
  <2>7. ASSUME NEW j \in 1..(first - 1) PROVE name[j] \in unnamed
    <3>1. j \in 1..Len(name) /\ ~(first <= j)
      BY <2>6
    <3> QED BY <2>5, <3>1
  <2>8. SpokenFrom(name, first)
    BY <2>6, <2>7 DEF SpokenFrom
  <2> QED BY <1>1, <2>6, <2>8
<1> QED BY <1>2, <1>3

LEMMA SpokenIs ==
    ASSUME NEW S, NEW name \in Seq(S)
    PROVE  /\ \A i : SpokenFrom(name, i) => Spoken(name) = SubSeq(name, i, Len(name))
           /\ Unspoken(name) => Spoken(name) = <<>>
<1>1. ASSUME NEW i, SpokenFrom(name, i), NEW k, SpokenFrom(name, k) PROVE i = k
  <2>1. i \in 1..Len(name) /\ k \in 1..Len(name) /\ ~(i \in 1..(k - 1)) /\ ~(k \in 1..(i - 1))
    BY <1>1 DEF SpokenFrom
  <2> QED BY <2>1
<1>2. ASSUME NEW i, SpokenFrom(name, i) PROVE ~Unspoken(name)
  BY <1>2 DEF SpokenFrom, Unspoken
<1> QED BY <1>1, <1>2, SpokenEither

(* Joining a part to the name spoken so far, and speaking the name with the part. *)
LEMMA SpokenJoin ==
    ASSUME NEW S, NEW s \in Seq(S), NEW m \in S
    PROVE  joinField(Spoken(s), m) = Spoken(Append(s, m))
<1> DEFINE t == Append(s, m)
<1>1. /\ Len(s) \in Nat /\ t \in Seq(S) /\ Len(t) = Len(s) + 1 /\ t[Len(s) + 1] = m
      /\ \A i \in 1..Len(s) : t[i] = s[i]
  BY LenProperties, AppendProperties
<1>2. t = s \o <<m>> /\ <<m>> \in Seq(S)
  BY AppendIsConcat
<1> HIDE DEF t
<1> PICK n : n = Len(s)
  OBVIOUS
<1>3. CASE Unspoken(s) /\ Spoken(s) = <<>>
  <2>1. CASE m \in unnamed
    <3>1. Unspoken(t)
      <4>1. ASSUME NEW i \in 1..Len(t) PROVE t[i] \in unnamed
        <5>1. i \in 1..n \/ i = n + 1
          BY <1>1
        <5> QED BY <1>1, <1>3, <2>1, <5>1 DEF Unspoken
      <4> QED BY <4>1 DEF Unspoken
    <3>2. Spoken(t) = <<>>
      BY <1>1, <3>1, SpokenIs
    <3> QED BY <1>3, <2>1, <3>2 DEF joinField, t
  <2>2. CASE m \notin unnamed
    <3>1. SpokenFrom(t, n + 1)
      <4>1. n + 1 \in 1..Len(t) /\ \A j \in 1..((n + 1) - 1) : j \in 1..n
        BY <1>1
      <4> QED BY <1>1, <1>3, <2>2, <4>1 DEF SpokenFrom, Unspoken
    <3>2. Spoken(t) = SubSeq(t, n + 1, n + 1)
      BY <1>1, <3>1, SpokenIs
    <3>3. SubSeq(t, n + 1, n + 1) = <<m>>
      <4> PICK u : u = SubSeq(t, n + 1, n + 1)
        OBVIOUS
      <4>1. u \in Seq(S) /\ Len(u) = 1 /\ u[1] = m
        BY <1>1
      <4>2. Len(<<m>>) = 1 /\ <<m>>[1] = m
        OBVIOUS
      <4>3. \A i \in 1..Len(u) : u[i] = <<m>>[i]
        BY <4>1, <4>2
      <4> QED BY <1>2, <4>1, <4>2, <4>3, SeqEqual
    <3>4. joinField(<<>>, m) = <<m>>
      <4>1. joinField(<<>>, m) = Append(<<>>, m)
        BY <2>2 DEF joinField
      <4> QED BY <4>1
    <3> QED BY <1>3, <3>2, <3>3, <3>4 DEF t
  <2> QED BY <2>1, <2>2
<1>4. CASE \E i : SpokenFrom(s, i) /\ Spoken(s) = SubSeq(s, i, Len(s))
  <2>1. PICK i : SpokenFrom(s, i) /\ Spoken(s) = SubSeq(s, i, n)
    BY <1>4
  <2>2. i \in 1..n /\ i \in 1..(n + 1) /\ \A j \in 1..(i - 1) : j \in 1..n
    BY <1>1, <2>1 DEF SpokenFrom
  <2>3. SpokenFrom(t, i)
    BY <1>1, <2>1, <2>2 DEF SpokenFrom
  <2>4. Spoken(t) = SubSeq(t, i, n + 1)
    BY <1>1, <2>3, SpokenIs
  <2> PICK q : q = SubSeq(s, i, n)
    OBVIOUS
  <2> PICK u : u = SubSeq(t, i, n + 1)
    OBVIOUS
  <2> PICK k : k = (n - i) + 1
    OBVIOUS
  <2>5. k \in Nat /\ k # 0 /\ q \in Seq(S) /\ Len(q) = k /\ \A j \in 1..k : q[j] = s[(i + j) - 1]
    BY <1>1, <2>2
  <2>6. u \in Seq(S) /\ Len(u) = k + 1 /\ \A j \in 1..(k + 1) : u[j] = t[(i + j) - 1]
    BY <1>1, <2>2
  <2>7. q # <<>>
    BY <2>5, EmptySeq
  <2>8. Append(q, m) = u
    <3> PICK v : v = Append(q, m)
      OBVIOUS
    <3>1. v \in Seq(S) /\ Len(v) = k + 1 /\ v[k + 1] = m /\ \A j \in 1..k : v[j] = q[j]
      BY <2>5, AppendProperties
    <3>2. ASSUME NEW j \in 1..Len(v) PROVE v[j] = u[j]
      <4>1. CASE j = k + 1
        <5>1. (i + j) - 1 = n + 1 /\ j \in 1..(k + 1)
          BY <1>1, <2>2, <2>5, <4>1
        <5> QED BY <1>1, <2>6, <3>1, <4>1, <5>1
      <4>2. CASE j # k + 1
        <5>1. j \in 1..k /\ j \in 1..(k + 1) /\ (i + j) - 1 \in 1..n
          <6>1. n \in Nat /\ i \in 1..n /\ k = (n - i) + 1 /\ j \in 1..(k + 1) /\ j # k + 1
            BY <1>1, <2>2, <3>1, <4>2
          <6> QED BY ONLY <6>1
        <5> QED BY <1>1, <2>5, <2>6, <3>1, <5>1
      <4> QED BY <4>1, <4>2
    <3> QED BY <2>6, <3>1, <3>2, SeqEqual
  <2>9. joinField(q, m) = Append(q, m)
    BY <2>7 DEF joinField
  <2> QED BY <2>1, <2>4, <2>8, <2>9 DEF t
<1> QED BY <1>3, <1>4, SpokenEither

(* The loop of a view says of all the fields of a run what can be spoken. *)
LEMMA NamedSpoken ==
    ASSUME NEW run \in Seq(Ids)
    PROVE  Named(run) = Spoken(AllNamed(run))
<1> DEFINE N == Len(run)
<1>1. N \in Nat /\ 0 \in Nat /\ N \in 0..N /\ \A i \in 1..N : run[i] \in Ids /\ i - 1 \in 0..N
  <2>1. N \in Nat /\ \A i \in 1..N : run[i] \in Ids
    BY LenProperties, ElementOfSeq
  <2> QED BY <2>1
<1>2. PICK all : /\ AllNamed(run) = all[N] /\ all[0] = <<>>
                 /\ \A i \in 1..N : all[i] = AllStep(all[i - 1], run[i])
                 /\ \A i \in 0..N : all[i] \in Seq(Ids)
  BY AllNamedSteps
<1>3. PICK name : /\ Named(run) = name[N] /\ name[0] = <<>>
                  /\ \A i \in 1..N : name[i] = NameStep(name[i - 1], run[i])
                  /\ \A i \in 0..N : name[i] \in Seq(Ids)
  BY NamedSteps
<1> HIDE DEF N
<1> DEFINE T == {k \in 0..N : name[k] = Spoken(all[k])}
<1>4. ASSUME NEW k \in 0..N, \A j \in 0..(k - 1) : j \in T PROVE k \in T
  <2>1. CASE k = 0
    <3>1. Spoken(<<>>) = <<>>
      <4>1. Unspoken(<<>>) /\ <<>> \in Seq(Ids)
        BY EmptySeq DEF Unspoken
      <4> QED BY <4>1, SpokenIs
    <3> QED BY <1>2, <1>3, <2>1, <3>1
  <2>2. CASE k # 0
    <3> PICK s : s = all[k - 1]
      OBVIOUS
    <3> PICK m : m = run[k]
      OBVIOUS
    <3>1. k \in 1..N /\ k - 1 \in 0..(k - 1)
      BY <1>1, <2>2
    <3>2. name[k - 1] = Spoken(s) /\ s \in Seq(Ids) /\ m \in Ids
      BY <1>1, <1>2, <1>4, <3>1
    <3>3. name[k] = NameStep(Spoken(s), m) /\ all[k] = AllStep(s, m)
      BY <1>2, <1>3, <3>1, <3>2
    <3>4. joinField(Spoken(s), m) = Spoken(Append(s, m))
      BY <3>2, SpokenJoin
    <3> QED BY <3>3, <3>4 DEF NameStep, AllStep
  <2> QED BY <2>1, <2>2
<1>5. 0..N \subseteq T
  <2> HIDE DEF T
  <2> QED BY ONLY <1>1, <1>4, IntervalInduction
<1> QED BY <1>1, <1>2, <1>3, <1>5

LEMMA NamedTop ==
    ASSUME NEW e \in Ids, NEW run \in Seq(Ids)
    PROVE  /\ node[e].kind = "field" => AllNamed(<<e>> \o run) = <<e>> \o AllNamed(run)
           /\ node[e].kind # "field" => AllNamed(<<e>> \o run) = AllNamed(run) /\ AllNamed(<<e>>) = <<>>
<1> DEFINE one == <<e>>
<1>1. one \in Seq(Ids) /\ Len(one) = 1 /\ one[1] = e
  BY OneKid
<1>2. Maps(Fields, Ids, Seq(Ids)) /\ FlatMap(Fields, one) = Fields[e] /\ Fields[e] \in Seq(Ids)
  <2>1. Maps(Fields, Ids, Seq(Ids))
    BY NamedFields
  <2> QED BY <2>1, FlatMapOne DEF Maps
<1> HIDE DEF one
<1>3. one \o run \in Seq(Ids)
  BY <1>1, ConcatProperties
<1>4. AllNamed(one \o run) = Fields[e] \o AllNamed(run) /\ AllNamed(run) \in Seq(Ids) /\ AllNamed(one) = Fields[e]
  <2>1. FlatMap(Fields, one \o run) = FlatMap(Fields, one) \o FlatMap(Fields, run)
    <3> PICK f : f = Fields
      OBVIOUS
    <3> PICK S : S = Ids
      OBVIOUS
    <3>1. Maps(f, S, Seq(S)) /\ one \in Seq(S) /\ run \in Seq(S)
      BY <1>1, <1>2
    <3>2. FlatMap(f, one \o run) = FlatMap(f, one) \o FlatMap(f, run)
      BY ONLY <3>1, FlatMapConcat
    <3> QED BY <3>2
  <2> QED BY <1>1, <1>2, <1>3, <2>1, NamedFields
<1>5. CASE node[e].kind = "field"
  BY <1>4, <1>5 DEF Fields, one
<1>6. CASE node[e].kind # "field"
  <2>1. Fields[e] = <<>>
    BY <1>6 DEF Fields
  <2>2. <<>> \o AllNamed(run) = AllNamed(run)
    BY <1>4, ConcatEmptySeq
  <2> QED BY <1>4, <1>6, <2>1, <2>2 DEF one
<1> QED BY <1>5, <1>6

(* A run that the fields of do not stand together in. *)
LEMMA InterruptedBelow ==
    ASSUME NEW e \in Ids, NEW run \in Seq(Ids), ~Interrupted(<<e>> \o run)
    PROVE  /\ ~Interrupted(run)
           /\ (run # <<>> /\ node[e].kind = "field" /\ node[run[1]].kind # "field") => NoField(run)
<1> DEFINE u == <<e>> \o run
<1>1. /\ Len(u) = 1 + Len(run) /\ u[1] = e /\ Len(run) \in Nat
      /\ \A i \in 1..Len(run) : 1 + i \in 1..Len(u) /\ u[1 + i] = run[i]
  <2>1. <<e>> \in Seq(Ids) /\ Len(<<e>>) = 1 /\ <<e>>[1] = e
    BY OneKid
  <2> QED BY <2>1
<1>2. ~Interrupted(u)
  OBVIOUS
<1> HIDE DEF u
<1>3. ASSUME Interrupted(run) PROVE FALSE
  <2>1. PICK i, j, k \in 1..Len(run) : i < j /\ j < k /\ node[run[i]].kind = "field"
                                       /\ node[run[j]].kind # "field" /\ node[run[k]].kind = "field"
    BY <1>3 DEF Interrupted
  <2> PICK a : a = 1 + i
    OBVIOUS
  <2> PICK b : b = 1 + j
    OBVIOUS
  <2> PICK c : c = 1 + k
    OBVIOUS
  <2>2. a \in 1..Len(u) /\ u[a] = run[i]
    BY <1>1
  <2>3. b \in 1..Len(u) /\ u[b] = run[j]
    BY <1>1
  <2>4. c \in 1..Len(u) /\ u[c] = run[k]
    BY <1>1
  <2>5. a < b /\ b < c
    BY <1>1, <2>1
  <2>6. node[u[a]].kind = "field" /\ node[u[b]].kind # "field" /\ node[u[c]].kind = "field"
    BY <2>1, <2>2, <2>3, <2>4
  <2> QED BY <1>2, <2>2, <2>3, <2>4, <2>5, <2>6 DEF Interrupted
<1>4. ASSUME run # <<>>, node[e].kind = "field", node[run[1]].kind # "field",
             NEW k \in 1..Len(run), node[run[k]].kind = "field"
      PROVE  FALSE
  <2>1. k # 1
    BY <1>4
  <2> PICK c : c = 1 + k
    OBVIOUS
  <2>2. /\ 1 \in 1..Len(u) /\ 2 \in 1..Len(u) /\ c \in 1..Len(u) /\ 1 < 2 /\ 2 < c
        /\ u[1] = e /\ u[2] = run[1] /\ u[c] = run[k]
    BY <1>1, <1>4, <2>1
  <2>3. node[u[1]].kind = "field" /\ node[u[2]].kind # "field" /\ node[u[c]].kind = "field"
    BY <1>4, <2>2
  <2> QED BY <1>2, <2>2, <2>3 DEF Interrupted
<1> QED BY <1>3, <1>4 DEF NoField

(* Where the fields of a run stand together, a field error at its head names it as
   the violation that it starts. *)
LEMMA RunNamed ==
    ASSUME LIInv
    PROVE  \A e \in Ids : ~Interrupted(Run[e]) /\ node[e].kind = "field" => AllNamed(Run[e]) = Nested[e]
<1> DEFINE N == Len(node)
           T == {e \in 1..N : ~Interrupted(Run[e]) /\ node[e].kind = "field" => AllNamed(Run[e]) = Nested[e]}
<1>1. TreeIInv /\ N \in Nat /\ 1 \in Nat /\ Ids = 1..N
  BY Typing DEF LIInv
<1>2. ASSUME NEW e \in 1..N, \A m \in 1..(e - 1) : m \in T,
             ~Interrupted(Run[e]), node[e].kind = "field"
      PROVE  AllNamed(Run[e]) = Nested[e]
  <2> PICK k : k = transparentCause(e)
    OBVIOUS
  <2>1. e \in Ids /\ repeats[e]
    BY <1>1, <1>2, CauseKid DEF Markers
  <2>2. k \in 1..(e - 1) /\ k \in Ids /\ node[e].kids = <<k>> /\ node[e].kids[1] = k
    BY <2>1, CauseKid
  <2> PICK run : run = Run[k]
    OBVIOUS
  <2>3. Run[e] = <<e>> \o run /\ run \in Seq(Ids) /\ run # <<>> /\ run[1] = k
    <3>1. RunGood(k)
      BY <2>2, RunFacts
    <3> QED BY <2>1, <2>2, <3>1, RunFacts, EntryRunsSeq DEF RunGood
  <2>4. AllNamed(Run[e]) = <<e>> \o AllNamed(run)
    <3>1. e \in Ids /\ run \in Seq(Ids) /\ node[e].kind = "field"
      BY <1>2, <2>1, <2>3
    <3>2. AllNamed(<<e>> \o run) = <<e>> \o AllNamed(run)
      BY ONLY <3>1, NamedTop
    <3> QED BY <2>3, <3>2
  <2>5. Nested[e] = <<e>> \o Nested[k]
    BY <1>1, <1>2, <2>1, <2>2, NestedSteps DEF NestedAt
  <2>6. ~Interrupted(run) /\ (node[k].kind # "field" => NoField(run))
    BY <1>2, <2>1, <2>3, InterruptedBelow
  <2>7. AllNamed(run) = Nested[k]
    <3>1. CASE node[k].kind = "field"
      BY <1>2, <2>2, <2>6, <3>1
    <3>2. CASE node[k].kind # "field"
      <4>1. Nested[k] = <<>>
        BY <1>1, <2>2, <3>2, NestedSteps DEF NestedAt
      <4> QED BY <2>3, <2>6, <3>2, <4>1, NamedFields
    <3> QED BY <3>1, <3>2
  <2> QED BY <2>4, <2>5, <2>7
<1>3. \A e \in 1..N : (\A m \in 1..(e - 1) : m \in T) => e \in T
  BY <1>2
<1>4. 1..N \subseteq T
  <2> HIDE DEF T, N
  <2> QED BY ONLY <1>1, <1>3, IntervalInduction
<1> QED BY <1>1, <1>4

-----------------------------------------------------------------------------
(* The violations of a tree, and the names of its entries. *)

Starts == [m \in Visit |-> Found(m)]
Violation(e) == IF node[e].kind = "field" THEN <<Nested[e]>> ELSE <<>>
(* The violations below e but for the one that e is part of. *)
Reported(e) == FlattenSeq([i \in 1..Len(node[e].kids) |-> Reading(Starts, node[e].kids[i], e)])
AllReported == [e \in Ids |-> Violation(e) \o Reported(e)]

LEMMA ReportedSeq ==
    ASSUME TreeIInv
    PROVE  /\ Maps(Starts, Visit, Seq(Seq(Nat)))
           /\ \A e \in Ids : Reported(e) \in Seq(Seq(Nat)) /\ Violation(e) \in Seq(Seq(Nat))
<1>1. \A e \in Ids : Nested[e] \in Seq(Nat)
  BY Runs DEF RunOK
<1>2. ASSUME NEW e \in Ids PROVE Violation(e) \in Seq(Seq(Nat))
  <2> PICK v : v = Nested[e]
    OBVIOUS
  <2>1. v \in Seq(Nat)
    BY <1>1
  <2>2. <<v>> \in Seq(Seq(Nat)) /\ <<>> \in Seq(Seq(Nat))
    BY <2>1, EmptySeq
  <2> QED BY <2>2 DEF Violation
<1>3. ASSUME NEW m \in Visit PROVE Starts[m] \in Seq(Seq(Nat))
  <2>1. m.err \in Ids /\ Starts[m] = Found(m)
    BY DEF Visit, Starts
  <2>2. Found(m) = Violation(m.err) \/ Found(m) = <<>>
    BY DEF Found, StartsRun, Violation
  <2> QED BY <1>2, <2>1, <2>2, EmptySeq
<1>4. Maps(Starts, Visit, Seq(Seq(Nat)))
  BY <1>3 DEF Maps
<1>5. ASSUME NEW e \in Ids PROVE Reported(e) \in Seq(Seq(Nat))
  <2> DEFINE N == Len(node[e].kids)
             S == Seq(Nat)
             ss == [i \in 1..N |-> Reading(Starts, node[e].kids[i], e)]
  <2>1. N \in Nat /\ \A i \in 1..N : node[e].kids[i] \in Ids
    BY KidsFacts
  <2>2. \A i \in 1..N : Reading(Starts, node[e].kids[i], e) \in Seq(S)
    <3> HIDE DEF S
    <3>1. Maps(Starts, Visit, Seq(S))
      BY <1>4 DEF S
    <3> QED BY <2>1, <3>1, ReadSteps
  <2>3. ss \in [1..N -> Seq(S)]
    BY <2>2
  <2> HIDE DEF ss, N, S
  <2>4. ss \in Seq(Seq(S))
    BY <2>1, <2>3, SeqDef
  <2>5. FlattenSeq(ss) \in Seq(S)
    BY <2>4, Flatten
  <2> QED BY <2>5 DEF Reported, ss, N, S
<1> QED BY <1>2, <1>4, <1>5

LEMMA ReportedSteps ==
    ASSUME TreeIInv, NEW e \in Ids
    PROVE  /\ AllReported[e] = Violation(e) \o Reported(e) /\ AllReported[e] \in Seq(Seq(Nat))
           /\ Reading(Starts, e, Nil) = AllReported[e]
           /\ node[e].kind # "field" => Reported(e) = FlattenSeq(Under(AllReported, e))
           /\ node[e].kind = "field" => Reported(e) = Reported(node[e].kids[1])
<1> DEFINE S == Seq(Nat)
<1>1. ASSUME NEW k \in Ids
      PROVE  /\ Reported(k) \in Seq(S) /\ Violation(k) \in Seq(S)
             /\ AllReported[k] = Violation(k) \o Reported(k) /\ AllReported[k] \in Seq(S)
  <2>1. Reported(k) \in Seq(S) /\ Violation(k) \in Seq(S)
    BY ReportedSeq
  <2> HIDE DEF S
  <2> QED BY <2>1, ConcatProperties DEF AllReported
<1>2. ASSUME NEW k \in Ids, NEW x \in Ids \cup {Nil}
      PROVE  Reading(Starts, k, x) = IF x # Nil /\ node[x].kind = "field" THEN Reported(k)
                                     ELSE AllReported[k]
  <2> DEFINE m == [err |-> k, from |-> x]
  <2>1. Reading(Starts, k, x) = Starts[m] \o Reported(k)
    <3> HIDE DEF S
    <3> PICK r : r = Starts
      OBVIOUS
    <3>1. TreeIInv /\ Maps(r, Visit, Seq(S)) /\ k \in Ids /\ x \in Ids \cup {Nil}
      BY ReportedSeq DEF S
    <3>2. Reading(r, k, x) = r[[err |-> k, from |-> x]] \o
              FlattenSeq([i \in 1..Len(node[k].kids) |-> Reading(r, node[k].kids[i], k)])
      BY ONLY <3>1, ReadSteps
    <3> QED BY <3>2 DEF Reported
  <2>2. m \in Visit /\ m.err = k /\ m.from = x
    BY DEF Visit
  <2> HIDE DEF m, S
  <2>3. Starts[m] = Found(m)
    BY <2>2 DEF Starts
  <2>4. CASE x # Nil /\ node[x].kind = "field"
    <3>1. Found(m) = <<>>
      BY <2>2, <2>4 DEF Found, StartsRun
    <3>2. <<>> \o Reported(k) = Reported(k)
      BY <1>1, ConcatEmptySeq
    <3> QED BY <2>1, <2>3, <2>4, <3>1, <3>2
  <2>5. CASE ~(x # Nil /\ node[x].kind = "field")
    <3>1. Found(m) = Violation(k)
      BY <2>2, <2>5 DEF Found, StartsRun, Violation
    <3> QED BY <1>1, <2>1, <2>3, <2>5, <3>1
  <2> QED BY <2>4, <2>5
<1>3. e # Nil
  BY Typing DEF Nil
<1>4. ASSUME node[e].kind # "field" PROVE Reported(e) = FlattenSeq(Under(AllReported, e))
  <2>1. \A i \in 1..Len(node[e].kids) :
            Reading(Starts, node[e].kids[i], e) = AllReported[node[e].kids[i]]
    BY <1>2, <1>4, KidsFacts
  <2> QED BY <2>1 DEF Reported, Under
<1>5. ASSUME node[e].kind = "field" PROVE Reported(e) = Reported(node[e].kids[1])
  <2> PICK k : k = node[e].kids[1]
    OBVIOUS
  <2>1. Len(node[e].kids) = 1 /\ k \in Ids
    BY <1>5, FieldKid
  <2>2. Reading(Starts, k, e) = Reported(k)
    BY <1>2, <1>3, <1>5, <2>1
  <2>3. [i \in 1..Len(node[e].kids) |-> Reading(Starts, node[e].kids[i], e)] = <<Reported(k)>>
    BY <2>1, <2>2
  <2> HIDE DEF S
  <2>4. FlattenSeq(<<Reported(k)>>) = Reported(k)
    BY <1>1, <2>1, FlattenOne
  <2>5. Reported(e) = FlattenSeq(<<Reported(k)>>)
    BY <2>3 DEF Reported
  <2> QED BY <2>4, <2>5
<1> QED BY <1>1, <1>2, <1>4, <1>5

(* GetFieldErrors reads the walk. *)
LEMMA ReportsWalk ==
    ASSUME TreeIInv, NEW n \in Ids
    PROVE  GetFieldErrors(n) = AllReported[n]
<1> DEFINE w == Walk(n)
<1>1. w \in Seq(Visit) /\ w = Block(walk, n, Nil) /\ \A i \in 1..Len(w) : w[i] \in Visit
  <2>1. w \in Seq(Visit) /\ w = Block(walk, n, Nil)
    BY WalkFacts DEF Walked, Walk, Block
  <2> HIDE DEF w
  <2> QED BY <2>1, ElementOfSeq
<1>2. GetFieldErrors(n) = FlattenSeq([i \in 1..Len(w) |-> Found(w[i])])
  BY <1>1, LoopFound
<1> HIDE DEF w
<1>3. [i \in 1..Len(w) |-> Found(w[i])] = Map(Starts, w)
  BY <1>1 DEF Starts, Map
<1>4. GetFieldErrors(n) = Reading(Starts, n, Nil)
  BY <1>1, <1>2, <1>3 DEF Reading, FlatMap
<1> QED BY <1>4, ReportedSteps

(* The fields of the run of an entry, those that it does not speak too. *)
Names == [v \in Views |-> IF AllNamed(v.run) = <<>> THEN <<>> ELSE <<AllNamed(v.run)>>]
Name(run) == IF AllNamed(run) = <<>> THEN <<>> ELSE <<AllNamed(run)>>

LEMMA NamesSeq ==
    ASSUME LIInv
    PROVE  /\ Maps(Names, Views, Seq(Seq(Nat)))
           /\ \A e \in Ids : Names[newLogView(e)] = Name(Run[e]) /\ Name(Run[e]) \in Seq(Seq(Nat))
<1>1. ASSUME NEW e \in Ids
      PROVE  Names[newLogView(e)] = Name(Run[e]) /\ Name(Run[e]) \in Seq(Seq(Nat))
  <2> PICK v : v = newLogView(e)
    OBVIOUS
  <2> PICK s : s = AllNamed(Run[e])
    OBVIOUS
  <2>1. v \in Views /\ AllNamed(v.run) = s
    BY DEF Views, newLogView
  <2>2. s \in Seq(Nat)
    <3>1. s \in Seq(Ids) /\ Ids \subseteq Nat
      BY EntryRunsSeq, NamedFields, Typing DEF LIInv
    <3> QED BY <3>1, SeqMonotonic
  <2>3. <<s>> \in Seq(Seq(Nat)) /\ <<>> \in Seq(Seq(Nat))
    BY <2>2, EmptySeq
  <2>4. Names[v] = IF s = <<>> THEN <<>> ELSE <<s>>
    BY <2>1 DEF Names
  <2> QED BY <2>3, <2>4 DEF Name
<1>2. \A v \in Views : Names[v] \in Seq(Seq(Nat))
  BY <1>1 DEF Views
<1> QED BY <1>1, <1>2 DEF Maps

(* In no entry do the fields stand apart. *)
Contiguous(e) == \A i \in 1..Len(Logged[e]) : ~Interrupted(Logged[e][i].run)

LEMMA ContiguousBelow ==
    ASSUME LIInv, NEW e \in Ids, Contiguous(e)
    PROVE  /\ ~Interrupted(Run[e])
           /\ repeats[e] => Contiguous(transparentCause(e))
           /\ ~repeats[e] => \A i \in 1..Len(node[e].kids) : Contiguous(node[e].kids[i])
<1>1. ASSUME NEW k \in Ids
      PROVE  /\ Len(After(k)) \in Nat /\ Len(Logged[k]) = 1 + Len(After(k))
             /\ Logged[k][1].run = Run[k]
             /\ \A i \in 1..Len(After(k)) : 1 + i \in 1..Len(Logged[k]) /\ Logged[k][1 + i] = After(k)[i]
  <2> PICK one : one = <<newLogView(k)>>
    OBVIOUS
  <2> PICK rest : rest = After(k)
    OBVIOUS
  <2>1. /\ one \in Seq(Views) /\ Len(one) = 1 /\ one[1] = newLogView(k)
        /\ rest \in Seq(Views) /\ Logged[k] = one \o rest
    BY LoggedFacts, OneKid
  <2>2. newLogView(k).run = Run[k]
    BY DEF newLogView
  <2>3. /\ Len(rest) \in Nat /\ Len(one \o rest) = Len(one) + Len(rest)
        /\ \A i \in 1..Len(one) : (one \o rest)[i] = one[i]
        /\ \A i \in 1..Len(rest) : Len(one) + i \in 1..Len(one \o rest)
                                   /\ (one \o rest)[Len(one) + i] = rest[i]
    <3>1. one \in Seq(Views) /\ rest \in Seq(Views) /\ Len(rest) \in Nat
      BY <2>1, LenProperties
    <3> QED BY ONLY <3>1, Concat
  <2>4. 1 \in 1..Len(one)
    BY <2>1
  <2> QED BY <2>1, <2>2, <2>3, <2>4
<1>2. ~Interrupted(Run[e]) /\ \A i \in 1..Len(After(e)) : ~Interrupted(After(e)[i].run)
  <2>1. 1 \in 1..Len(Logged[e])
    BY <1>1
  <2> QED BY <1>1, <2>1 DEF Contiguous
<1>3. ASSUME repeats[e], NEW k, k = transparentCause(e) PROVE Contiguous(k)
  <2>1. k \in Ids /\ Run[e] = <<e>> \o Run[k] /\ After(e) = After(k)
    BY <1>3, CauseKid, RunFacts, LoggedFacts
  <2>2. ~Interrupted(Run[k])
    BY <1>2, <2>1, EntryRunsSeq, InterruptedBelow
  <2>3. ASSUME NEW i \in 1..Len(Logged[k]), i # 1 PROVE ~Interrupted(Logged[k][i].run)
    <3> PICK p : p = i - 1
      OBVIOUS
    <3>1. p \in 1..Len(After(k)) /\ i = 1 + p
      BY <1>1, <2>1, <2>3
    <3>2. Logged[k][1 + p] = After(k)[p]
      BY <1>1, <2>1, <3>1
    <3>3. ~Interrupted(After(e)[p].run)
      BY <1>2, <2>1, <3>1
    <3> QED BY <2>1, <3>1, <3>2, <3>3
  <2> QED BY <1>1, <2>1, <2>2, <2>3 DEF Contiguous
<1>4. ASSUME ~repeats[e], NEW i \in 1..Len(node[e].kids) PROVE Contiguous(node[e].kids[i])
  <2> PICK k : k = node[e].kids[i]
    OBVIOUS
  <2> PICK u : u = Under(Logged, e)
    OBVIOUS
  <2>1. k \in Ids /\ \A m \in 1..(e - 1) : m \in Ids
    BY KidsFacts, Typing DEF LIInv
  <2>2. u \in Seq(Seq(Views)) /\ i \in 1..Len(u) /\ u[i] = Logged[k]
    <3>1. \A m \in 1..(e - 1) : Logged[m] \in Seq(Views)
      BY <2>1, LoggedFacts
    <3> QED BY <3>1, UnderSeq DEF LIInv
  <2>3. After(e) = FlattenSeq(u) /\ After(e) \in Seq(Views)
    BY <1>4, LoggedFacts
  <2>4. Keeps(FlattenSeq(u), u, Len(u))
    BY <2>2, Flatten
  <2>5. ASSUME NEW p \in 1..Len(Logged[k]) PROVE ~Interrupted(Logged[k][p].run)
    <3>1. PICK j \in 1..Len(FlattenSeq(u)) : FlattenSeq(u)[j] = u[i][p]
      <4>1. i \in 1..Len(u) /\ p \in 1..Len(u[i])
        BY <2>2, <2>5
      <4> QED BY <2>4, <4>1 DEF Keeps
    <3>2. j \in 1..Len(After(e)) /\ After(e)[j] = Logged[k][p]
      BY <2>2, <2>3, <3>1
    <3> QED BY <1>2, <3>2
  <2> QED BY <2>5 DEF Contiguous
<1> QED BY <1>2, <1>3, <1>4

LEMMA Cancel ==
    ASSUME NEW S, NEW a \in Seq(S), NEW s \in Seq(S), NEW t \in Seq(S), a \o s = a \o t
    PROVE  s = t
<1>1. /\ Len(a) \in Nat /\ Len(s) \in Nat /\ Len(t) \in Nat
      /\ Len(a \o s) = Len(a) + Len(s) /\ Len(a \o t) = Len(a) + Len(t)
      /\ \A i \in 1..Len(s) : (a \o s)[Len(a) + i] = s[i]
      /\ \A i \in 1..Len(t) : (a \o t)[Len(a) + i] = t[i]
  BY Concat
<1>2. Len(s) = Len(t)
  <2>1. Len(a) + Len(s) = Len(a) + Len(t)
    BY <1>1
  <2> QED BY <1>1, <2>1
<1>3. \A i \in 1..Len(s) : s[i] = t[i]
  BY <1>1, <1>2
<1> QED BY <1>2, <1>3, SeqEqual

(* The names of the entries of a tree are its violations, in order. An error that
   names a field stands at the head of the name of its cause. *)
LEMMA NamesReported ==
    ASSUME LIInv
    PROVE  \A e \in Ids : Contiguous(e) => FlatMap(Names, Logged[e]) = AllReported[e]
<1> DEFINE N == Len(node)
           Q == Seq(Nat)
           Good(e) == FlatMap(Names, Logged[e]) = AllReported[e]
           T == {e \in 1..N : Contiguous(e) => Good(e)}
<1>1. TreeIInv /\ N \in Nat /\ 1 \in Nat /\ Ids = 1..N
  BY Typing DEF LIInv
<1>2. ASSUME NEW e \in Ids
      PROVE  /\ FlatMap(Names, Logged[e]) = Name(Run[e]) \o FlatMap(Names, After(e))
             /\ FlatMap(Names, After(e)) \in Seq(Q) /\ Name(Run[e]) \in Seq(Q)
             /\ ~repeats[e] => FlatMap(Names, After(e)) =
                   FlattenSeq([i \in 1..Len(node[e].kids) |-> FlatMap(Names, Logged[node[e].kids[i]])])
  <2> HIDE DEF Q
  <2>1. /\ Maps(Names, Views, Seq(Q)) /\ Names[newLogView(e)] = Name(Run[e]) /\ Name(Run[e]) \in Seq(Q)
    BY NamesSeq DEF Q
  <2> QED BY <2>1, ReadLogged
<1>3. ASSUME NEW e \in Ids
      PROVE  /\ AllReported[e] = Violation(e) \o Reported(e) /\ AllReported[e] \in Seq(Q)
             /\ Reported(e) \in Seq(Q) /\ Violation(e) \in Seq(Q)
             /\ node[e].kind # "field" => Violation(e) = <<>> /\ AllReported[e] = Reported(e)
  <2>1. /\ AllReported[e] = Violation(e) \o Reported(e) /\ AllReported[e] \in Seq(Q)
        /\ Reported(e) \in Seq(Q) /\ Violation(e) \in Seq(Q)
    BY <1>1, ReportedSteps, ReportedSeq
  <2> HIDE DEF Q
  <2>2. <<>> \o Reported(e) = Reported(e)
    BY <2>1, ConcatEmptySeq
  <2> QED BY <2>1, <2>2 DEF Violation
<1> HIDE DEF Q
<1>4. ASSUME NEW e \in 1..N, \A m \in 1..(e - 1) : m \in T, Contiguous(e) PROVE Good(e)
  <2>1. e \in Ids /\ repeats[e] \in BOOLEAN
    BY <1>1, CauseKid
  <2>2. CASE ~repeats[e]
    <3>1. node[e].kind # "field" /\ Run[e] = <<e>>
      BY <2>1, <2>2, CauseKid, RunFacts DEF Markers
    <3>2. Name(Run[e]) = <<>>
      <4>1. <<>> \in Seq(Ids)
        BY EmptySeq
      <4>2. AllNamed(<<e>>) = <<>>
        BY <2>1, <3>1, <4>1, NamedTop
      <4> QED BY <3>1, <4>2 DEF Name
    <3>3. FlatMap(Names, Logged[e]) = FlatMap(Names, After(e))
      <4>1. <<>> \o FlatMap(Names, After(e)) = FlatMap(Names, After(e))
        BY <1>2, <2>1, ConcatEmptySeq
      <4> QED BY <1>2, <2>1, <3>2, <4>1
    <3>4. ASSUME NEW i \in 1..Len(node[e].kids)
          PROVE  FlatMap(Names, Logged[node[e].kids[i]]) = AllReported[node[e].kids[i]]
      <4>1. node[e].kids[i] \in 1..(e - 1) /\ Contiguous(node[e].kids[i])
        BY <1>1, <1>4, <2>1, <2>2, KidsFacts, ContiguousBelow
      <4> QED BY <1>4, <4>1
    <3>5. FlatMap(Names, After(e)) = FlattenSeq(Under(AllReported, e))
      BY <1>2, <2>1, <2>2, <3>4 DEF Under
    <3>6. Reported(e) = FlattenSeq(Under(AllReported, e))
      BY <1>1, <2>1, <3>1, ReportedSteps
    <3> QED BY <1>3, <2>1, <3>1, <3>3, <3>5, <3>6
  <2>3. CASE repeats[e]
    <3> PICK k : k = transparentCause(e)
      OBVIOUS
    <3> PICK run : run = Run[k]
      OBVIOUS
    <3>1. /\ k \in 1..(e - 1) /\ k \in Ids /\ node[e].kids = <<k>> /\ node[e].kids[1] = k
          /\ Run[e] = <<e>> \o run /\ After(e) = After(k) /\ run \in Seq(Ids)
      <4>1. k \in 1..(e - 1) /\ k \in Ids /\ node[e].kids = <<k>>
        BY <2>1, <2>3, CauseKid
      <4>2. Run[e] = <<e>> \o run
        BY <2>1, <2>3, RunFacts
      <4>3. After(e) = After(k)
        BY <2>1, <2>3, LoggedFacts
      <4>4. run \in Seq(Ids)
        BY <4>1, EntryRunsSeq
      <4> QED BY <4>1, <4>2, <4>3, <4>4
    <3>2. Contiguous(k) /\ ~Interrupted(Run[k]) /\ ~Interrupted(Run[e])
      BY <1>4, <2>1, <2>3, <3>1, ContiguousBelow
    <3>3. FlatMap(Names, Logged[k]) = AllReported[k]
      BY <1>4, <3>1, <3>2
    <3>4. CASE node[e].kind # "field"
      <4>1. AllNamed(Run[e]) = AllNamed(run)
        <5>1. e \in Ids /\ run \in Seq(Ids) /\ node[e].kind # "field"
          BY <2>1, <3>1, <3>4
        <5>2. AllNamed(<<e>> \o run) = AllNamed(run)
          BY ONLY <5>1, NamedTop
        <5> QED BY <3>1, <5>2
      <4>2. FlatMap(Names, Logged[e]) = FlatMap(Names, Logged[k])
        BY <1>2, <2>1, <3>1, <4>1 DEF Name
      <4>3. Reported(e) = AllReported[k]
        <5>1. Reported(e) = FlattenSeq(Under(AllReported, e))
          BY <1>1, <2>1, <3>4, ReportedSteps
        <5>2. AllReported[k] \in Seq(Q) /\ node[e].kids = <<k>>
          BY <1>3, <3>1
        <5>3. FlattenSeq(Under(AllReported, e)) = AllReported[k]
          BY <5>2, UnderOne
        <5> QED BY <5>1, <5>3
      <4> QED BY <1>3, <2>1, <3>3, <3>4, <4>2, <4>3
    <3>5. CASE node[e].kind = "field"
      <4>1. Name(Run[e]) = Violation(e)
        <5>1. AllNamed(Run[e]) = Nested[e]
          BY <2>1, <3>2, <3>5, RunNamed
        <5>2. AllNamed(Run[e]) # <<>>
          <6>1. e \in Ids /\ run \in Seq(Ids) /\ node[e].kind = "field"
            BY <2>1, <3>1, <3>5
          <6>2. AllNamed(<<e>> \o run) = <<e>> \o AllNamed(run)
            BY ONLY <6>1, NamedTop
          <6>3. AllNamed(run) \in Seq(Ids) /\ <<e>> \in Seq(Ids) /\ Len(<<e>>) = 1
            BY <2>1, <3>1, NamedFields, OneKid
          <6>4. Len(<<e>> \o AllNamed(run)) # 0
            <7> PICK a : a = AllNamed(run)
              OBVIOUS
            <7>1. Len(<<e>> \o a) = Len(<<e>>) + Len(a) /\ Len(a) \in Nat
              BY <6>3, ConcatProperties, LenProperties
            <7> QED BY <6>3, <7>1
          <6> QED BY <3>1, <6>2, <6>4, EmptySeq
        <5> QED BY <3>5, <5>1, <5>2 DEF Name, Violation
      <4>2. Name(run) = Violation(k)
        <5>1. CASE node[k].kind = "field"
          <6>1. AllNamed(run) = Nested[k]
            BY <3>1, <3>2, <5>1, RunNamed
          <6>2. RunOK(k) /\ RunOK(node[k].kids[1])
            BY <1>1, <3>1, <5>1, Runs, FieldKid
          <6>3. Nested[k] # <<>>
            <7>1. RunLength(k) # 0
              BY <5>1, <6>2 DEF RunOK
            <7> QED BY <7>1, EmptySeq DEF RunLength
          <6> QED BY <5>1, <6>1, <6>3 DEF Name, Violation
        <5>2. CASE node[k].kind # "field"
          <6>1. RunGood(k)
            BY <3>1, RunFacts
          <6>2. run # <<>> /\ run[1] = k
            BY <6>1 DEF RunGood
          <6>3. NoField(run)
            BY <2>1, <3>1, <3>2, <3>5, <5>2, <6>2, InterruptedBelow
          <6>4. AllNamed(run) = <<>>
            BY <3>1, <6>3, NamedFields
          <6> QED BY <5>2, <6>4 DEF Name, Violation
        <5> QED BY <5>1, <5>2
      <4>3. FlatMap(Names, After(k)) = Reported(k)
        <5> PICK a : a = Violation(k)
          OBVIOUS
        <5> PICK s : s = FlatMap(Names, After(k))
          OBVIOUS
        <5> PICK t : t = Reported(k)
          OBVIOUS
        <5>1. a \in Seq(Q) /\ s \in Seq(Q) /\ t \in Seq(Q) /\ a \o s = a \o t
          BY <1>2, <1>3, <3>1, <3>3, <4>2
        <5>2. s = t
          BY ONLY <5>1, Cancel
        <5> QED BY <5>2
      <4>4. Reported(e) = Reported(k)
        BY <1>1, <2>1, <3>1, <3>5, ReportedSteps
      <4> QED BY <1>2, <1>3, <2>1, <3>1, <4>1, <4>3, <4>4
    <3> QED BY <3>4, <3>5
  <2> QED BY <2>1, <2>2, <2>3
<1>5. \A e \in 1..N : (\A m \in 1..(e - 1) : m \in T) => e \in T
  BY <1>4
<1>6. 1..N \subseteq T
  <2> HIDE DEF T, N
  <2> QED BY ONLY <1>1, <1>5, IntervalInduction
<1> QED BY <1>1, <1>6

(* A name that can be spoken, as the log shows it. *)
Heard == [q \in Seq(Nat) |-> IF Spoken(q) = <<>> THEN <<>> ELSE <<Spoken(q)>>]

LEMMA HeardNames ==
    ASSUME LIInv
    PROVE  /\ Maps(Heard, Seq(Nat), Seq(Seq(Nat)))
           /\ \A e \in Ids : LET v == newLogView(e)
                             IN  FlatMap(Heard, Names[v]) = IF v.field = <<>> THEN <<>> ELSE <<v.field>>
<1> DEFINE Q == Seq(Nat)
<1>1. ASSUME NEW q \in Q PROVE Heard[q] \in Seq(Q)
  <2> PICK t : t = Spoken(q)
    OBVIOUS
  <2>1. t \in Q
    <3>1. CASE \E i : SpokenFrom(q, i) /\ t = SubSeq(q, i, Len(q))
      <4>1. PICK i : SpokenFrom(q, i) /\ t = SubSeq(q, i, Len(q))
        BY <3>1
      <4>2. i \in 1..Len(q) /\ Len(q) \in Nat
        BY <4>1, LenProperties DEF SpokenFrom
      <4> QED BY <4>1, <4>2
    <3>2. CASE t = <<>>
      BY <3>2, EmptySeq
    <3> QED BY <3>1, <3>2, SpokenEither
  <2>2. Heard[q] = IF t = <<>> THEN <<>> ELSE <<t>>
    BY DEF Heard
  <2> HIDE DEF Q
  <2> QED BY <2>1, <2>2, OneKid, EmptySeq
<1>2. Maps(Heard, Q, Seq(Q))
  BY <1>1 DEF Maps
<1>3. ASSUME NEW e \in Ids, NEW v, v = newLogView(e)
      PROVE  FlatMap(Heard, Names[v]) = IF v.field = <<>> THEN <<>> ELSE <<v.field>>
  <2> PICK s : s = AllNamed(Run[e])
    OBVIOUS
  <2>1. s \in Q
    <3>1. s \in Seq(Ids) /\ Ids \subseteq Nat
      BY EntryRunsSeq, NamedFields, Typing DEF LIInv
    <3> QED BY <3>1, SeqMonotonic
  <2>2. v.field = Spoken(s)
    <3>1. v.field = Named(Run[e])
      BY <1>3 DEF newLogView
    <3> QED BY <3>1, EntryRunsSeq, NamedSpoken
  <2>3. Names[v] = IF s = <<>> THEN <<>> ELSE <<s>>
    <3>1. v \in Views /\ AllNamed(v.run) = s
      BY <1>3 DEF Views, newLogView
    <3> QED BY <3>1 DEF Names
  <2>4. CASE s = <<>>
    <3>1. Unspoken(s)
      BY <2>4, EmptySeq DEF Unspoken
    <3>2. Spoken(s) = <<>>
      BY <2>1, <3>1, SpokenIs
    <3>3. FlatMap(Heard, <<>>) = <<>>
      BY EmptySeq DEF FlatMap, Map, FlattenSeq
    <3> QED BY <2>2, <2>3, <2>4, <3>2, <3>3
  <2>5. CASE s # <<>>
    <3>1. FlatMap(Heard, <<s>>) = Heard[s]
      <4> HIDE DEF Q
      <4> QED BY <1>2, <2>1, FlatMapOne
    <3>2. Heard[s] = IF Spoken(s) = <<>> THEN <<>> ELSE <<Spoken(s)>>
      BY <2>1 DEF Heard
    <3> QED BY <2>2, <2>3, <2>5, <3>1, <3>2
  <2> QED BY <2>4, <2>5
<1> QED BY <1>2, <1>3

(* A field has one name, in the log and in the response: where the names of a tree
   nest directly, its entries show the fields that GetFieldErrors reports, but for
   the empty parts at the head of a name, which the response puts before a dot. *)
THEOREM FieldsLogged == LSpec => []FieldsLoggedAsReported
<1>1. ASSUME LIInv PROVE FieldsLoggedAsReported
  <2> SUFFICES ASSUME NEW n \in Ids, NEW entries, entries = Logged[n],
                      NEW reported, reported = GetFieldErrors(n),
                      \A i \in 1..Len(entries) : ~Interrupted(entries[i].run)
               PROVE  Nonempty([i \in 1..Len(entries) |-> entries[i].field])
                          = Nonempty([i \in 1..Len(reported) |-> Spoken(reported[i])])
    BY Zenon DEF FieldsLoggedAsReported, Shown
  <2> DEFINE Q == Seq(Nat)
             K == Len(entries)
             parts == Map(Names, entries)
             shown == [i \in 1..K |-> IF entries[i].field = <<>> THEN <<>> ELSE <<entries[i].field>>]
  <2>1. Contiguous(n)
    BY DEF Contiguous
  <2>2. entries \in Seq(Views) /\ K \in Nat /\ \A i \in 1..K : entries[i] \in Views
    BY <1>1, LoggedFacts, ElementOfSeq, LenProperties
  <2>3. Maps(Names, Views, Seq(Q)) /\ Maps(Heard, Q, Seq(Q))
    BY <1>1, NamesSeq, HeardNames
  <2>4. reported = FlattenSeq(parts)
    BY <1>1, <2>1, NamesReported, ReportsWalk DEF LIInv, FlatMap
  <2>5. parts \in Seq(Seq(Q)) /\ Len(parts) = K /\ \A i \in 1..K : parts[i] = Names[entries[i]]
    <3> HIDE DEF Q
    <3> QED BY <2>2, <2>3, MapSeq
  <2>6. \A i \in 1..K : FlatMap(Heard, parts[i]) = shown[i]
    <3>1. ASSUME NEW v \in Views
          PROVE  FlatMap(Heard, Names[v]) = IF v.field = <<>> THEN <<>> ELSE <<v.field>>
      <4>1. PICK e \in Ids : v = newLogView(e)
        BY DEF Views
      <4> QED BY <1>1, <4>1, HeardNames
    <3> HIDE DEF parts
    <3> QED BY <2>2, <2>5, <3>1
  <2> HIDE DEF parts
  <2>7. FlatMap(Heard, FlattenSeq(parts)) = FlattenSeq(shown)
    <3>1. FlatMap(Heard, FlattenSeq(parts)) = FlattenSeq([i \in 1..Len(parts) |-> FlatMap(Heard, parts[i])])
      <4> HIDE DEF Q
      <4> QED BY <2>3, <2>5, FlatMapFlatten
    <3>2. [i \in 1..Len(parts) |-> FlatMap(Heard, parts[i])] = [i \in 1..K |-> shown[i]]
      BY <2>5, <2>6
    <3>3. [i \in 1..K |-> shown[i]] = shown
      OBVIOUS
    <3> QED BY <3>1, <3>2, <3>3
  <2>8. Nonempty([i \in 1..K |-> entries[i].field]) = FlattenSeq(shown)
    <3> DEFINE names == [i \in 1..K |-> entries[i].field]
    <3>1. Len(names) = K /\ \A i \in 1..K : names[i] = entries[i].field
      BY <2>2
    <3> HIDE DEF names, K
    <3>2. [i \in 1..Len(names) |-> IF names[i] = <<>> THEN <<>> ELSE <<names[i]>>] = shown
      BY <3>1
    <3> QED BY <3>2 DEF Nonempty, names
  <2>9. Nonempty([i \in 1..Len(reported) |-> Spoken(reported[i])]) = FlatMap(Heard, reported)
    <3>1. reported \in Seq(Q) /\ Len(reported) \in Nat
      <4>1. reported \in Seq(Q)
        <5> HIDE DEF Q
        <5> QED BY <2>4, <2>5, Flatten
      <4> HIDE DEF Q
      <4> QED BY <4>1, LenProperties
    <3> DEFINE names == [i \in 1..Len(reported) |-> Spoken(reported[i])]
    <3>2. Len(names) = Len(reported) /\ \A i \in 1..Len(reported) : names[i] = Spoken(reported[i])
      BY <3>1
    <3>3. \A i \in 1..Len(reported) :
              Heard[reported[i]] = IF Spoken(reported[i]) = <<>> THEN <<>> ELSE <<Spoken(reported[i])>>
      BY <3>1, ElementOfSeq DEF Heard
    <3> HIDE DEF names
    <3>4. [i \in 1..Len(names) |-> IF names[i] = <<>> THEN <<>> ELSE <<names[i]>>] = Map(Heard, reported)
      BY <3>2, <3>3 DEF Map
    <3> QED BY <3>4 DEF Nonempty, FlatMap, names
  <2> QED BY <2>4, <2>7, <2>8, <2>9
<1> QED BY <1>1, LIInvHolds, PTL
=============================================================================
