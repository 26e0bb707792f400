------------------------- MODULE AppendSlices_proof -------------------------
(***************************************************************************)
(* Proofs about AppendSlices, for any number of goroutines, errors and       *)
(* arguments: as long as a multiError is appended to at most once, no append *)
(* in place ever touches an error that exists, and the slices implement the  *)
(* values of ErrorValues.                                                    *)
(***************************************************************************)
EXTENDS AppendSlices, SequenceTheorems, Recursion

(* Who may write an array in place: of the multis that share it, the longest is
   the only one not yet appended to; once a running call has taken it over, every
   multi that shares the array is covered by the call's header; and no two calls
   hold the same array. *)
Owned ==
    /\ \A n \in Ids, m \in Ids :
          node[n].arr # 0 /\ node[m].arr = node[n].arr /\ n \notin extended
             => node[m].len <= node[n].len /\ (m \notin extended => m = n)
    /\ \A g \in Goroutine, n \in Ids :
          call[g].arr # 0 /\ node[n].arr = call[g].arr
             => n \in extended /\ node[n].len <= call[g].len
    /\ \A g \in Goroutine, h \in Goroutine :
          call[g].arr # 0 /\ g # h => call[g].arr # call[h].arr

LEMMA AppendSeq ==
    ASSUME NEW S, NEW s \in Seq(S), NEW x \in S
    PROVE  /\ Append(s, x) \in Seq(S)
           /\ Len(Append(s, x)) = Len(s) + 1
           /\ \A i \in 1..Len(s) : Append(s, x)[i] = s[i]
           /\ Append(s, x)[Len(s) + 1] = x
BY AppendProperties

LEMMA GrownSlots ==
    ASSUME NEW s \in Seq(Nat), NEW len \in Nat, len = Len(s), NEW x \in Nat
    PROVE  /\ Grown(s, len, x) \in Seq(Nat)
           /\ Len(Grown(s, len, x)) >= len + 1
           /\ \A i \in 1..len : Grown(s, len, x)[i] = s[i]
           /\ Grown(s, len, x)[len + 1] = x
<1>1. GrowCap(Len(s)) \in Nat /\ GrowCap(Len(s)) >= len + 1
  BY LenProperties DEF GrowCap
<1>2. \A i \in 1..len : s[i] \in Nat
  BY ElementOfSeq
<1>3. Grown(s, len, x) \in [1..GrowCap(Len(s)) -> Nat]
  BY <1>1, <1>2 DEF Grown, Nil
<1> QED BY <1>1, <1>3, SMT DEF Grown

LEMMA WrittenSlots ==
    ASSUME NEW s \in Seq(Nat), NEW len \in Nat, len < Len(s), NEW x \in Nat
    PROVE  /\ Written(s, len, x) \in Seq(Nat)
           /\ Len(Written(s, len, x)) = Len(s)
           /\ \A i \in 1..len : Written(s, len, x)[i] = s[i]
           /\ Written(s, len, x)[len + 1] = x
BY ExceptSeq, len + 1 \in 1..Len(s) DEF Written

LEMMA InitType == Init => TypeOK /\ Owned
<1> SUFFICES ASSUME Init PROVE TypeOK /\ Owned
  OBVIOUS
<1> USE LeavesAssumption DEF Init, Plain, Idle, Nil, NodeRecord, CallRecord
<1>1. node \in Seq(NodeRecord) /\ Len(node) = Leaves
  BY EmptySeq
<1>2. array \in Seq(Seq(Nat)) /\ Len(array) = 0
  OBVIOUS
<1>3. call \in [Goroutine -> CallRecord]
  BY EmptySeq
<1> QED BY <1>1, <1>2, <1>3 DEF TypeOK, NodeOK, CallOK, KidsOK, Owned, Ids, Slots
-----------------------------------------------------------------------------
(* Lengths and lookups. *)
LEMMA Typing ==
    ASSUME TypeOK
    PROVE  /\ Len(node) \in Nat /\ Len(array) \in Nat
           /\ \A n \in Ids : node[n] \in NodeRecord /\ n \in Nat
           /\ \A g \in Goroutine : call[g] \in CallRecord
           /\ \A a \in 0..Len(array) : Slots(array, a) \in Seq(Nat) /\ Len(Slots(array, a)) \in Nat
<1>1. Len(node) \in Nat /\ Len(array) \in Nat
  BY LenProperties DEF TypeOK
<1>2. \A a \in 1..Len(array) : array[a] \in Seq(Nat)
  BY ElementOfSeq DEF TypeOK
<1>3. ASSUME NEW a \in 0..Len(array) PROVE Slots(array, a) \in Seq(Nat) /\ Len(Slots(array, a)) \in Nat
  <2>1. Slots(array, a) \in Seq(Nat)
    BY <1>1, <1>2 DEF Slots
  <2> QED BY <2>1, LenProperties
<1>4. \A n \in Ids : node[n] \in NodeRecord /\ n \in Nat
  BY <1>1, ElementOfSeq DEF TypeOK, Ids
<1> QED BY <1>1, <1>3, <1>4 DEF TypeOK

(* A step that keeps every error and shrinks no array... *)
Keeps ==
    /\ \A i \in Ids : node'[i] = node[i]
    /\ Len(array') \in Nat /\ Len(array') >= Len(array)
    /\ \A a \in 0..Len(array) :
          Len(Slots(array', a)) \in Nat /\ Len(Slots(array', a)) >= Len(Slots(array, a))

(* ... leaves the headers of errors and calls in range. *)
LEMMA OldNode ==
    ASSUME TypeOK, Keeps, NEW n \in Ids
    PROVE  NodeOK(n)'
<1>1. NodeOK(n) /\ node'[n] = node[n] /\ n \in Nat /\ n <= Len(node)
  BY Typing DEF TypeOK, Ids, Keeps
<1>2. node[n].first # Nil => node'[node[n].first] = node[node[n].first]
  <2>1. node[n].first # Nil => node[n].first \in Ids
    BY <1>1, Typing DEF NodeOK, Ids, Nil
  <2> QED BY <2>1 DEF Keeps
<1>3. /\ node[n].len \in Nat /\ Len(Slots(array, node[n].arr)) \in Nat
      /\ Len(Slots(array', node'[n].arr)) \in Nat
      /\ Len(Slots(array', node'[n].arr)) >= Len(Slots(array, node[n].arr))
  BY <1>1, Typing DEF NodeOK, NodeRecord, Keeps
<1>4. /\ node[n].arr \in 0..Len(array')
      /\ node[n].len <= Len(Slots(array', node[n].arr))
  BY SMTT(30), <1>1, <1>3, Typing DEF NodeOK, Keeps
<1>5. node[n].first # Nil => node'[node[n].first].kind = "multi"
  BY <1>1, <1>2 DEF NodeOK
<1> QED BY <1>1, <1>4, <1>5 DEF NodeOK

LEMMA OldCall ==
    ASSUME TypeOK, Keeps, NEW g \in Goroutine, call'[g] = call[g]
    PROVE  CallOK(g)'
<1>1. CallOK(g)
  BY DEF TypeOK
<1>2. call[g].len \in Nat /\ Len(Slots(array, call[g].arr)) \in Nat
  BY <1>1, Typing DEF CallOK, CallRecord
<1> QED BY <1>1, <1>2, Typing DEF CallOK, Keeps

(* Adding an error v whose own header is in range. *)
LEMMA AddNode ==
    ASSUME TypeOK, NEW v \in NodeRecord, node' = Append(node, v),
           (\A i \in Ids : node'[i] = node[i]) => Keeps,
           v.arr \in 0..Len(array'),
           v.len <= Len(Slots(array', v.arr)),
           v.kind = "multi" <=> v.arr # 0,
           KidsOK(v, Len(node) + 1),
           \/ v.first = Nil
           \/ v.first = Len(node) + 1 /\ v.kind = "multi"
           \/ v.first \in Ids /\ node[v.first].kind = "multi"
    PROVE  /\ node' \in Seq(NodeRecord)
           /\ Ids' = Ids \cup {Len(node) + 1} /\ Len(node) + 1 \notin Ids
           /\ node'[Len(node) + 1] = v
           /\ Keeps
           /\ \A n \in Ids' : NodeOK(n)'
<1> DEFINE m == Len(node) + 1
<1>1. /\ node' \in Seq(NodeRecord)
      /\ Len(node') = m
      /\ \A i \in Ids : node'[i] = node[i]
      /\ node'[m] = v
  BY AppendSeq DEF TypeOK, Ids
<1>2. Ids' = Ids \cup {m} /\ m \notin Ids /\ m \in Nat
  BY <1>1, Typing DEF Ids
<1>3. Keeps
  BY <1>1
<1>4. ASSUME NEW n \in Ids PROVE NodeOK(n)'
  BY <1>3, <1>4, OldNode
<1>5. ASSUME NEW n, n = m PROVE NodeOK(n)'
  <2>1. node'[n] = v
    BY <1>1, <1>5
  <2>2. v.first \in 0..n /\ (v.first # Nil => node'[v.first].kind = "multi")
    BY <1>1, <1>2, <1>5, Typing DEF Ids, Nil
  <2> QED BY <1>5, <2>1, <2>2 DEF NodeOK
<1> QED BY <1>1, <1>2, <1>3, <1>4, <1>5

(* What As finds below an existing error exists. *)
LEMMA Found ==
    ASSUME TypeOK, NEW e \in Ids, node[e].first # Nil
    PROVE  node[e].first \in Ids /\ node[node[e].first].kind = "multi"
BY Typing DEF TypeOK, NodeOK, Ids, Nil

(* An error v that is not a multi and may be added as the next one. *)
PlainFits(v) ==
    /\ v \in NodeRecord /\ v.kind # "multi" /\ v.arr = 0 /\ v.len = 0
    /\ KidsOK(v, Len(node) + 1)
    /\ v.first = Nil \/ (v.first \in Ids /\ node[v.first].kind = "multi")

LEMMA PlainRecord ==
    ASSUME NEW kind \in {"wrap", "link", "error"}, NEW kids \in Seq(Nat), NEW f \in Nat
    PROVE  /\ Plain(kind, kids, f) \in NodeRecord
           /\ Plain(kind, kids, f).kind # "multi"
           /\ Plain(kind, kids, f).arr = 0 /\ Plain(kind, kids, f).len = 0
           /\ Plain(kind, kids, f).first = f
BY DEF Plain, NodeRecord

(* Such an error disturbs no array. *)
LEMMA NewPlain ==
    ASSUME TypeOK, Owned, NEW v, PlainFits(v), node' = Append(node, v),
           array' = array, call' = call, extended' = extended
    PROVE  TypeOK' /\ Owned'
<1> USE DEF PlainFits
<1>1. \A a \in 0..Len(array) : Slots(array', a) = Slots(array, a)
  BY DEF Slots
<1>2. (\A i \in Ids : node'[i] = node[i]) => Keeps
  <2>1. Len(array') = Len(array) /\ Len(array) >= Len(array)
    BY Typing
  <2>2. \A a \in 0..Len(array) : Len(Slots(array, a)) >= Len(Slots(array, a))
    BY Typing
  <2> QED BY <1>1, <2>1, <2>2, Typing DEF Keeps
<1>3. v.len <= Len(Slots(array', v.arr))
  BY EmptySeq DEF Slots
<1>4. /\ node' \in Seq(NodeRecord)
      /\ Ids' = Ids \cup {Len(node) + 1} /\ Len(node) + 1 \notin Ids
      /\ node'[Len(node) + 1] = v
      /\ Keeps
      /\ \A n \in Ids' : NodeOK(n)'
  <2>1. v.arr \in 0..Len(array') /\ (v.kind = "multi" <=> v.arr # 0)
    BY Typing
  <2> QED BY <1>2, <1>3, <2>1, AddNode
<1>5. ASSUME NEW g \in Goroutine PROVE CallOK(g)'
  BY <1>4, OldCall
<1>6. TypeOK'
  BY <1>4, <1>5 DEF TypeOK
<1>7. Owned'
  <2>1. \A n \in Ids' : node'[n].arr # 0 => n \in Ids /\ node'[n] = node[n]
    BY <1>4 DEF Keeps
  <2> QED BY ZenonT(40), <2>1 DEF Owned
<1> QED BY <1>6, <1>7

LEMMA WrapStep ==
    ASSUME TypeOK, Owned, NEW e \in Ids, Wrap(e) \/ WithFirstErr(e)
    PROVE  TypeOK' /\ Owned'
<1> DEFINE f == node[e].first
           v(kind) == Plain(kind, <<e>>, f)
<1>1. <<e>> \in Seq(Nat) /\ f \in Nat
  BY Typing DEF NodeRecord
<1>2. f = Nil \/ (f \in Ids /\ node[f].kind = "multi")
  BY Found
<1>3. /\ node' = Append(node, v("wrap")) \/ node' = Append(node, v("error"))
      /\ array' = array /\ call' = call /\ extended' = extended
  BY DEF Wrap, WithFirstErr
<1>4. KidsOK(v("wrap"), Len(node) + 1) /\ KidsOK(v("error"), Len(node) + 1)
  BY Typing DEF KidsOK, Plain, Ids
<1>5. PlainFits(v("wrap")) /\ PlainFits(v("error"))
  <2> HIDE DEF f
  <2>1. PlainFits(v("wrap"))
    BY ZenonT(40), <1>1, <1>2, <1>4, PlainRecord DEF PlainFits
  <2>2. PlainFits(v("error"))
    BY ZenonT(40), <1>1, <1>2, <1>4, PlainRecord DEF PlainFits
  <2> QED BY <2>1, <2>2
<1> HIDE DEF v
<1> QED BY <1>3, <1>5, NewPlain

LEMMA LinkStep ==
    ASSUME TypeOK, Owned, NEW e \in Ids, NEW c \in Ids, Link(e, c)
    PROVE  TypeOK' /\ Owned'
<1> DEFINE f == IF node[e].first # Nil THEN node[e].first ELSE node[c].first
           v == Plain("link", <<e, c>>, f)
<1>1. <<e, c>> \in Seq(Nat) /\ f \in Nat
  BY Typing DEF NodeRecord
<1>2. f = Nil \/ (f \in Ids /\ node[f].kind = "multi")
  BY Found
<1>3. /\ node' = Append(node, v)
      /\ array' = array /\ call' = call /\ extended' = extended
  BY DEF Link
<1>4. KidsOK(v, Len(node) + 1)
  BY Typing DEF KidsOK, Plain, Ids
<1>5. PlainFits(v)
  <2> HIDE DEF f
  <2> QED BY ZenonT(40), <1>1, <1>2, <1>4, PlainRecord DEF PlainFits
<1> HIDE DEF v
<1> QED BY <1>3, <1>5, NewPlain

(* Join makes an array that nobody else holds. *)
LEMMA JoinStep ==
    ASSUME TypeOK, Owned, NEW errs \in ArgLists, Join(errs)
    PROVE  TypeOK' /\ Owned'
<1> DEFINE v == Multi(Len(node) + 1, Len(array) + 1, Len(errs))
<1>1. errs \in Seq(Nat) /\ Len(errs) \in Nat
  <2>1. errs \in Seq(Nat)
    BY BoundsAssumption DEF ArgLists, Ids
  <2> QED BY <2>1, LenProperties
<1>2. /\ v \in NodeRecord /\ v.kind = "multi"
      /\ v.arr = Len(array) + 1 /\ v.len = Len(errs) /\ v.first = Len(node) + 1
      /\ KidsOK(v, Len(node) + 1)
  BY <1>1, Typing DEF Multi, NodeRecord, KidsOK
<1>3. /\ array' \in Seq(Seq(Nat)) /\ Len(array') = Len(array) + 1
      /\ \A a \in 1..Len(array) : array'[a] = array[a]
      /\ array'[Len(array) + 1] = errs
  BY <1>1, AppendSeq DEF TypeOK, Join
<1>4. /\ node' = Append(node, v)
      /\ call' = call /\ extended' = extended
  BY DEF Join
<1> HIDE DEF v
<1>5. /\ \A a \in 0..Len(array) : Slots(array', a) = Slots(array, a)
      /\ Slots(array', v.arr) = errs
  BY <1>2, <1>3, Typing DEF Slots
<1>6. (\A i \in Ids : node'[i] = node[i]) => Keeps
  BY <1>3, <1>5, Typing DEF Keeps
<1>7. /\ v.arr \in 0..Len(array') /\ v.arr # 0
      /\ v.len <= Len(Slots(array', v.arr))
  BY <1>1, <1>2, <1>3, <1>5, Typing
<1>8. /\ node' \in Seq(NodeRecord)
      /\ Ids' = Ids \cup {Len(node) + 1} /\ Len(node) + 1 \notin Ids
      /\ node'[Len(node) + 1] = v
      /\ Keeps
      /\ \A n \in Ids' : NodeOK(n)'
  BY <1>2, <1>4, <1>6, <1>7, AddNode
<1>9. ASSUME NEW g \in Goroutine PROVE CallOK(g)'
  BY <1>4, <1>8, OldCall
<1>10. TypeOK'
  BY <1>3, <1>4, <1>8, <1>9 DEF TypeOK
<1>11. Owned'
  <2>1. /\ \A n \in Ids : node[n].arr # v.arr
        /\ \A g \in Goroutine : call[g].arr # v.arr
    BY <1>2, Typing DEF TypeOK, NodeOK, CallOK
  <2>2. v.len <= v.len
    BY <1>1, <1>2
  <2>3. \A n \in Ids' : \/ n \in Ids /\ node'[n] = node[n]
                        \/ n = Len(node) + 1 /\ node'[n] = v
    BY <1>8 DEF Keeps
  <2> QED BY ZenonT(40), <1>4, <2>1, <2>2, <2>3 DEF Owned
<1> QED BY <1>10, <1>11

-----------------------------------------------------------------------------
(* A step that gives goroutine g a call whose header is in range. *)
LEMMA NewCall ==
    ASSUME TypeOK, node' = node, Keeps, array' \in Seq(Seq(Nat)), extended' \subseteq Ids,
           NEW g \in Goroutine, NEW c \in CallRecord, call' = [call EXCEPT ![g] = c],
           c.arr \in 0..Len(array'), c.len <= Len(Slots(array', c.arr)),
           c.next <= Len(c.args), c.op # "none" /\ c.arr = 0 => c.next < Len(c.args)
    PROVE  TypeOK'
<1>1. ASSUME NEW n \in Ids PROVE NodeOK(n)'
  BY OldNode
<1>2. call' \in [Goroutine -> CallRecord] /\ call'[g] = c
  BY DEF TypeOK
<1>3. ASSUME NEW h \in Goroutine PROVE CallOK(h)'
  <2>1. CASE h = g
    BY <1>2, <2>1 DEF CallOK
  <2>2. CASE h # g
    <3>1. call'[h] = call[h]
      BY <2>2 DEF TypeOK
    <3> QED BY <3>1, OldCall
  <2> QED BY <2>1, <2>2
<1> QED BY <1>1, <1>2, <1>3 DEF TypeOK, Ids

(* A call that takes over a multi takes the only right to write its array. *)
LEMMA StartStep ==
    ASSUME TypeOK, Owned, Exclusive, NEW g \in Goroutine, NEW op \in {"Append", "WithErr"},
           NEW e \in Ids \cup {Nil}, NEW errs \in Seq(Nat), StartAppend(g, op, e, errs)
    PROVE  TypeOK' /\ Owned'
<1> DEFINE first == FirstOf(e)
           c(arr, len) == [op |-> op, base |-> e, first |-> first, arr |-> arr,
                           len |-> len, args |-> errs, next |-> 0]
<1>1. e \in Nat /\ first \in Nat /\ Len(errs) \in Nat /\ node' = node
  BY Typing, LenProperties DEF FirstOf, NodeRecord, Nil, StartAppend
<1>2. ASSUME NEW arr \in Nat, NEW len \in Nat
      PROVE  /\ c(arr, len) \in CallRecord
             /\ c(arr, len).arr = arr /\ c(arr, len).len = len
             /\ c(arr, len).next <= Len(c(arr, len).args)
  BY <1>1 DEF CallRecord
<1>3. CASE first # Nil
  <2>1. first \in Ids /\ node[first].kind = "multi" /\ first \notin extended
    BY <1>3, Found DEF FirstOf, StartAppend
  <2> DEFINE arr == node[first].arr
             len == node[first].len
  <2>2. /\ arr \in Nat \ {0} /\ len \in Nat /\ arr \in 0..Len(array)
        /\ len <= Len(Slots(array, arr))
    BY <2>1, Typing DEF TypeOK, NodeOK, NodeRecord
  <2>3. /\ call' = [call EXCEPT ![g] = c(arr, len)]
        /\ extended' = extended \cup {first} /\ array' = array
    BY <1>3 DEF StartAppend, FoundLen, FirstOf, Nil
  <2>4. /\ c(arr, len) \in CallRecord
        /\ c(arr, len).arr = arr /\ c(arr, len).len = len
        /\ c(arr, len).next <= Len(c(arr, len).args)
    BY <1>2, <2>2
  <2>5. \A n \in Ids : node[n].arr = arr => node[n].len <= len /\ (n \notin extended => n = first)
    BY <2>1, <2>2 DEF Owned
  <2>6. \A h \in Goroutine : call[h].arr # arr
    BY <2>1, <2>2 DEF Owned
  <2> HIDE DEF c, arr, len, first
  <2>7. Keeps
    BY <1>1, <2>3, Typing DEF Keeps
  <2>8. TypeOK'
    BY <1>1, <2>1, <2>2, <2>3, <2>4, <2>7, NewCall DEF TypeOK
  <2>9. /\ call'[g].arr = arr /\ call'[g].len = len
        /\ \A h \in Goroutine \ {g} : call'[h] = call[h]
    BY <2>3, <2>4 DEF TypeOK
  <2>10. Ids' = Ids
    BY <1>1 DEF Ids
  <2>11. Owned'
    BY <1>1, <2>3, <2>5, <2>6, <2>9, <2>10 DEF Owned
  <2> QED BY <2>8, <2>11
<1>4. CASE first = Nil /\ e # Nil
  <2> DEFINE arr == Len(array) + 1
  <2>1. /\ call' = [call EXCEPT ![g] = c(arr, 1)]
        /\ extended' = extended /\ array' = Append(array, <<e>>)
    BY <1>4 DEF StartAppend, Nil
  <2>2. /\ array' \in Seq(Seq(Nat)) /\ Len(array') = arr
        /\ \A a \in 1..Len(array) : array'[a] = array[a]
        /\ array'[arr] = <<e>>
    BY <1>1, <2>1, AppendSeq DEF TypeOK
  <2>3. /\ arr \in Nat \ {0} /\ c(arr, 1) \in CallRecord
        /\ c(arr, 1).arr = arr /\ c(arr, 1).len = 1
        /\ c(arr, 1).next <= Len(c(arr, 1).args)
    BY <1>2, Typing
  <2>4. /\ \A n \in Ids : node[n].arr # arr
        /\ \A h \in Goroutine : call[h].arr # arr
    BY SMTT(30), Typing DEF TypeOK, NodeOK, CallOK
  <2> HIDE DEF c, first
  <2>5. /\ \A a \in 0..Len(array) : Slots(array', a) = Slots(array, a)
        /\ Slots(array', arr) = <<e>>
    BY <2>2, <2>3, Typing DEF Slots
  <2>6. Keeps
    BY <1>1, <2>2, <2>5, Typing DEF Keeps
  <2>7. 1 <= Len(Slots(array', arr)) /\ arr \in 0..Len(array')
    <3>1. Len(<<e>>) = 1
      OBVIOUS
    <3>2. arr \in 0..arr
      BY <2>3
    <3> HIDE DEF arr
    <3> QED BY <2>2, <2>5, <3>1, <3>2
  <2>8. TypeOK'
    <3> HIDE DEF arr
    <3> QED BY <1>1, <2>1, <2>2, <2>3, <2>6, <2>7, NewCall DEF TypeOK
  <2>9. /\ call'[g].arr = arr
        /\ \A h \in Goroutine \ {g} : call'[h] = call[h]
    BY <2>1, <2>3 DEF TypeOK
  <2>10. Ids' = Ids
    BY <1>1 DEF Ids
  <2>11. Owned'
    <3> HIDE DEF arr
    <3> QED BY <1>1, <2>1, <2>3, <2>4, <2>9, <2>10 DEF Owned
  <2> QED BY <2>8, <2>11
<1>5. CASE e = Nil
  <2>1. /\ call' = [call EXCEPT ![g] = c(0, 0)]
        /\ extended' = extended /\ array' = array
    BY <1>5 DEF StartAppend, FirstOf
  <2>2. /\ c(0, 0) \in CallRecord /\ c(0, 0).arr = 0 /\ c(0, 0).len = 0
        /\ c(0, 0).next <= Len(c(0, 0).args)
    BY <1>2
  <2> HIDE DEF c
  <2>3. Keeps
    BY <1>1, <2>1, Typing DEF Keeps
  <2>4. 0 \in 0..Len(array) /\ 0 <= Len(Slots(array, 0))
    BY Typing DEF Slots
  <2>5. TypeOK'
    <3>1. Len(errs) > 1
      BY <1>1, <1>5 DEF StartAppend, ReturnsMulti, FirstOf, Nil
    <3>2. c(0, 0).next = 0 /\ c(0, 0).args = errs
      BY DEF c
    <3>3. c(0, 0).next < Len(c(0, 0).args)
      BY <1>1, <3>1, <3>2
    <3> QED BY <1>1, <2>1, <2>2, <2>3, <2>4, <3>3, NewCall DEF TypeOK
  <2>6. /\ call'[g].arr = 0 /\ Ids' = Ids
        /\ \A h \in Goroutine \ {g} : call'[h] = call[h]
    BY <1>1, <2>1, <2>2 DEF TypeOK, Ids
  <2>7. Owned'
    BY ZenonT(40), <1>1, <2>1, <2>6 DEF Owned
  <2> QED BY <2>5, <2>7
<1> QED BY <1>3, <1>4, <1>5

LEMMA PushedCall ==
    ASSUME NEW c \in CallRecord, NEW arr \in Nat, c.next + 1 <= Len(c.args)
    PROVE  /\ Pushed(c, arr) \in CallRecord
           /\ Pushed(c, arr).arr = arr /\ Pushed(c, arr).len = c.len + 1
           /\ Pushed(c, arr).next = c.next + 1 /\ Pushed(c, arr).args = c.args
           /\ Pushed(c, arr).next <= Len(Pushed(c, arr).args)
<1> DEFINE d == Pushed(c, arr)
<1>1. /\ d.arr = arr /\ d.len = c.len + 1 /\ d.next = c.next + 1
      /\ d.op = c.op /\ d.base = c.base /\ d.first = c.first /\ d.args = c.args
  BY DEF Pushed, CallRecord
<1>2. d.len \in Nat /\ d.next \in Nat
  BY <1>1 DEF CallRecord
<1>3. d \in CallRecord
  BY <1>1, <1>2 DEF Pushed, CallRecord
<1> QED BY <1>1, <1>3

(* The append in place writes beyond every header that shares the array; the
   append that grows leaves the shared array behind. *)
LEMMA PushStep ==
    ASSUME TypeOK, Owned, NEW g \in Goroutine, Push(g)
    PROVE  TypeOK' /\ Owned'
<1> DEFINE c == call[g]
           slots == Slots(array, c.arr)
           x == c.args[c.next + 1]
           d(arr) == Pushed(c, arr)
<1>1. /\ c \in CallRecord /\ c.arr \in 0..Len(array) /\ c.len \in Nat
      /\ c.next \in Nat /\ c.args \in Seq(Nat) /\ c.len <= Len(slots)
  BY Typing DEF TypeOK, CallOK, CallRecord
<1>2. slots \in Seq(Nat) /\ Len(slots) \in Nat
  BY <1>1, Typing
<1>3. /\ node' = node /\ extended' = extended /\ Ids' = Ids
      /\ c.next < Len(c.args)
  BY DEF Push, Ids
<1>4. x \in Nat /\ c.next + 1 <= Len(c.args)
  <2>1. Len(c.args) \in Nat
    BY <1>1, LenProperties
  <2>2. c.next + 1 \in 1..Len(c.args)
    BY SMTT(30), <2>1, <1>1, <1>3
  <2>3. c.args \in [1..Len(c.args) -> Nat]
    BY <1>1, LenProperties
  <2>4. x \in Nat
    BY <2>2, <2>3
  <2> QED BY <2>1, <2>4, <1>1, <1>3
<1>5. ASSUME NEW arr \in Nat
      PROVE  /\ d(arr) \in CallRecord /\ d(arr).arr = arr /\ d(arr).len = c.len + 1
             /\ d(arr).next <= Len(d(arr).args)
  BY <1>1, <1>4, PushedCall
<1>6. CASE c.len < Len(slots)
  <2>1. /\ array' = [array EXCEPT ![c.arr] = Written(slots, c.len, x)]
        /\ call' = [call EXCEPT ![g] = d(c.arr)]
        /\ c.arr \in 1..Len(array)
    <3>1. c.arr # 0
      BY <1>1, <1>6, EmptySeq DEF Slots
    <3>2. c.arr \in 1..Len(array)
      BY <3>1, <1>1, Typing
    <3>3. ~(c.len >= Len(slots))
      BY <1>1, <1>2, <1>6
    <3> QED BY <3>2, <3>3 DEF Push
  <2>2. /\ Written(slots, c.len, x) \in Seq(Nat)
        /\ Len(Written(slots, c.len, x)) = Len(slots)
    BY ZenonT(40), <1>1, <1>2, <1>4, <1>6, WrittenSlots
  <2>3. /\ array' \in Seq(Seq(Nat)) /\ Len(array') = Len(array)
        /\ \A a \in 1..Len(array) :
              array'[a] = IF a = c.arr THEN Written(slots, c.len, x) ELSE array[a]
    BY <2>1, <2>2, ExceptSeq DEF TypeOK
  <2>4. \A a \in 0..Len(array) : Len(Slots(array', a)) = Len(Slots(array, a))
    BY SMTT(30), <2>1, <2>2, <2>3, Typing DEF Slots
  <2> HIDE DEF d, c, slots, x
  <2>5. Keeps
    BY <1>3, <2>3, <2>4, Typing DEF Keeps
  <2>6. /\ c.arr \in Nat \ {0} /\ c.arr \in 0..Len(array')
        /\ c.len + 1 <= Len(Slots(array', c.arr))
    <3>1. c.arr \in Nat \ {0} /\ c.arr \in 0..Len(array')
      BY <1>1, <2>1, <2>3
    <3>2. Len(Slots(array', c.arr)) = Len(slots)
      BY <1>1, <2>4 DEF slots
    <3> QED BY <1>1, <1>2, <1>6, <3>1, <3>2
  <2>7. TypeOK'
    BY <1>3, <1>5, <2>1, <2>3, <2>5, <2>6, NewCall DEF TypeOK
  <2>8. /\ call'[g].arr = c.arr /\ call'[g].len = c.len + 1
        /\ \A h \in Goroutine \ {g} : call'[h] = call[h]
    BY <1>5, <2>1, <2>6 DEF TypeOK
  <2>9. Owned'
    <3>1. \A n \in Ids : node[n].len \in Nat
      BY Typing DEF NodeRecord
    <3>2. \A n \in Ids : node[n].arr = c.arr /\ c.arr # 0 => n \in extended /\ node[n].len <= c.len + 1
      BY <1>1, <3>1 DEF Owned, c
    <3>3. \A h \in Goroutine \ {g} : c.arr # 0 => call[h].arr # c.arr
      BY DEF Owned, c
    <3> QED BY <1>3, <2>8, <3>2, <3>3 DEF Owned
  <2> QED BY <2>7, <2>9
<1>7. CASE c.len >= Len(slots)
  <2> DEFINE arr == Len(array) + 1
             grown == Grown(slots, c.len, x)
  <2>1. array' = Append(array, grown) /\ call' = [call EXCEPT ![g] = d(arr)]
    <3>1. ~(c.len < Len(slots))
      BY <1>1, <1>2, <1>7
    <3> QED BY <3>1 DEF Push
  <2>2. c.len = Len(slots)
    BY <1>1, <1>2, <1>7
  <2>3. grown \in Seq(Nat) /\ Len(grown) >= c.len + 1 /\ Len(grown) \in Nat
    <3>1. grown \in Seq(Nat) /\ Len(grown) >= c.len + 1
      BY <1>1, <1>2, <1>4, <2>2, GrownSlots
    <3> QED BY <3>1, LenProperties
  <2>4. /\ array' \in Seq(Seq(Nat)) /\ Len(array') = arr
        /\ \A a \in 1..Len(array) : array'[a] = array[a]
        /\ array'[arr] = grown
    BY <2>1, <2>3, AppendSeq DEF TypeOK
  <2>5. arr \in Nat \ {0} /\ arr \in 0..arr
    BY Typing
  <2>6. /\ \A a \in 0..Len(array) : Slots(array', a) = Slots(array, a)
        /\ Slots(array', arr) = grown
    BY <2>4, <2>5, Typing DEF Slots
  <2>7. /\ \A n \in Ids : node[n].arr # arr
        /\ \A h \in Goroutine : call[h].arr # arr
    BY Typing DEF TypeOK, NodeOK, CallOK
  <2> HIDE DEF d, c, slots, x, grown
  <2>8. Keeps
    BY <1>3, <2>4, <2>6, Typing DEF Keeps
  <2> HIDE DEF arr
  <2>9. TypeOK'
    BY <1>3, <1>5, <2>1, <2>3, <2>4, <2>5, <2>6, <2>8, NewCall DEF TypeOK
  <2>10. /\ call'[g].arr = arr
         /\ \A h \in Goroutine \ {g} : call'[h] = call[h]
    BY <1>5, <2>1, <2>5 DEF TypeOK
  <2>11. Owned'
    BY <1>3, <2>7, <2>10 DEF Owned
  <2> QED BY <2>9, <2>11
<1> QED BY <1>1, <1>2, <1>6, <1>7

(* A finished call hands its right to write the array to the multi it returns. *)
LEMMA ReturnStep ==
    ASSUME TypeOK, Owned, NEW g \in Goroutine, Return(g)
    PROVE  TypeOK' /\ Owned'
<1> DEFINE c == call[g]
           m == Len(node) + 1
           v == Multi(m, c.arr, c.len)
           w == Plain("error", <<m>>, m)
           joined == Append(node, v)
<1>1. /\ c \in CallRecord /\ c.arr \in Nat /\ c.arr \in 0..Len(array) /\ c.len \in Nat
      /\ c.len <= Len(Slots(array, c.arr)) /\ c.arr # 0 /\ m \in Nat
  <2>1. CallOK(g) /\ c \in CallRecord /\ m \in Nat
    BY Typing DEF TypeOK
  <2>2. Len(c.args) \in Nat
    BY <2>1, LenProperties DEF CallRecord
  <2> QED BY <2>1, <2>2 DEF CallOK, CallRecord, Return
<1>2. /\ array' = array /\ extended' = extended
      /\ call' = [call EXCEPT ![g] = Idle]
      /\ node' = joined \/ node' = Append(joined, w)
  BY DEF Return
<1>3. /\ v \in NodeRecord /\ v.kind = "multi" /\ v.first = m
      /\ v.arr = c.arr /\ v.len = c.len /\ KidsOK(v, m)
  BY <1>1 DEF Multi, NodeRecord, KidsOK
<1>4. /\ w \in NodeRecord /\ w.kind # "multi" /\ w.first = m
      /\ w.arr = 0 /\ w.len = 0 /\ KidsOK(w, m + 1)
  <2>1. <<m>> \in Seq(Nat)
    BY <1>1
  <2>2. KidsOK(w, m + 1)
    BY <1>1 DEF KidsOK, Plain
  <2>3. w = Plain("error", <<m>>, m) /\ "error" \in {"wrap", "link", "error"}
    OBVIOUS
  <2> HIDE DEF m, w
  <2> QED BY ZenonT(40), <1>1, <2>1, <2>2, <2>3, PlainRecord
<1> HIDE DEF v, w
<1>5. /\ joined \in Seq(NodeRecord) /\ Len(joined) = m
      /\ \A i \in 1..Len(node) : joined[i] = node[i]
      /\ joined[m] = v
  BY <1>3, AppendSeq DEF TypeOK
<1> HIDE DEF joined
<1>6. /\ Append(joined, w) \in Seq(NodeRecord) /\ Len(Append(joined, w)) = m + 1
      /\ \A i \in 1..m : Append(joined, w)[i] = joined[i]
      /\ Append(joined, w)[m + 1] = w
  BY <1>4, <1>5, AppendSeq
<1>7. /\ node' \in Seq(NodeRecord)
      /\ \A i \in Ids : i \in Ids' /\ node'[i] = node[i]
      /\ m \in Ids' \ Ids /\ node'[m] = v
      /\ \A n \in Ids' : n \in Ids \/ n = m \/ (n = m + 1 /\ node'[n] = w)
  <2>1. CASE node' = joined
    BY <1>1, <1>5, <2>1, Typing DEF Ids
  <2>2. CASE node' = Append(joined, w)
    <3>1. /\ Len(node') = m + 1 /\ node'[m] = v /\ node'[m + 1] = w
          /\ \A i \in 1..Len(node) : node'[i] = node[i]
      BY <1>1, <1>5, <1>6, <2>2, Typing
    <3>2. Ids = 1..(m - 1) /\ Ids' = 1..(m + 1) /\ m \in Nat
      BY <1>1, <3>1, Typing DEF Ids
    <3>3. \A i \in Ids : i \in Ids' /\ node'[i] = node[i]
      BY <3>1, <3>2 DEF Ids
    <3>4. m \in Ids' \ Ids
      BY <3>2
    <3>5. \A n \in Ids' : n \in Ids \/ n = m \/ n = m + 1
      BY <3>2
    <3>6. node' \in Seq(NodeRecord)
      BY <1>6, <2>2
    <3> HIDE DEF m
    <3> QED BY <3>1, <3>3, <3>4, <3>5, <3>6
  <2> QED BY <1>2, <2>1, <2>2
<1> HIDE DEF m, c
<1>8. Keeps
  BY <1>2, <1>7, Typing DEF Keeps
<1>9. ASSUME NEW n \in Ids' PROVE NodeOK(n)'
  <2>1. CASE n \in Ids
    BY <1>8, <2>1, OldNode
  <2>2. CASE n = m
    <3>1. m \in 0..m
      BY <1>1
    <3> QED BY <1>1, <1>2, <1>3, <1>7, <2>2, <3>1 DEF NodeOK
  <2>3. CASE n = m + 1 /\ node'[n] = w
    <3>1. m \in 0..n /\ 0 \in 0..Len(array) /\ 0 <= Len(Slots(array, 0))
      BY <1>1, <2>3, Typing
    <3> QED BY <1>2, <1>3, <1>4, <1>7, <2>3, <3>1 DEF NodeOK
  <2> QED BY <1>7, <2>1, <2>2, <2>3
<1>10. Idle \in CallRecord /\ Idle.arr = 0 /\ Idle.len = 0 /\ Idle.op = "none"
       /\ Idle.next <= Len(Idle.args)
  BY EmptySeq DEF Idle, CallRecord, Nil
<1>11. /\ call' \in [Goroutine -> CallRecord] /\ call'[g] = Idle
       /\ \A h \in Goroutine \ {g} : call'[h] = call[h]
  BY <1>2, <1>10 DEF TypeOK
<1>12. ASSUME NEW h \in Goroutine PROVE CallOK(h)'
  <2>1. CASE h = g
    <3>1. 0 \in 0..Len(array) /\ 0 <= Len(Slots(array, 0))
      BY Typing
    <3> QED BY <1>2, <1>10, <1>11, <2>1, <3>1 DEF CallOK
  <2>2. CASE h # g
    BY <1>8, <1>11, <2>2, OldCall
  <2> QED BY <2>1, <2>2
<1>13. TypeOK'
  BY <1>2, <1>7, <1>9, <1>11, <1>12 DEF TypeOK
<1>14. Owned'
  <2>1. \A n \in Ids : node[n].arr = c.arr => n \in extended /\ node[n].len <= c.len
    BY <1>1 DEF Owned, c
  <2>2. \A h \in Goroutine \ {g} : call[h].arr # c.arr
    BY <1>1 DEF Owned, c
  <2>3. c.len <= c.len /\ call'[g].arr = 0
    BY <1>1, <1>10, <1>11
  <2>4. \A n \in Ids' : /\ node'[n].arr # 0
                        => \/ n \in Ids /\ node'[n] = node[n]
                           \/ n = m /\ node'[n].arr = c.arr /\ node'[n].len = c.len
    BY <1>3, <1>4, <1>7
  <2>5. m \notin extended
    BY <1>7 DEF TypeOK
  <2> QED BY <1>2, <1>11, <2>1, <2>2, <2>3, <2>4, <2>5 DEF Owned
<1> QED BY <1>13, <1>14

-----------------------------------------------------------------------------
LEMMA TypeStep ==
    ASSUME TypeOK, Owned, Exclusive, [Next]_vars
    PROVE  TypeOK' /\ Owned'
<1>1. CASE \E e \in Ids : Wrap(e) \/ WithFirstErr(e)
  BY <1>1, WrapStep
<1>2. CASE \E e, c \in Ids : Link(e, c)
  BY <1>2, LinkStep
<1>3. CASE \E errs \in ArgLists : Join(errs)
  BY <1>3, JoinStep
<1>4. ASSUME NEW g \in Goroutine, NEW e \in Ids \cup {Nil}, NEW errs \in ArgLists,
             CallAppend(g, e, errs)
      PROVE  TypeOK' /\ Owned'
  <2>1. errs \in Seq(Nat)
    BY BoundsAssumption DEF ArgLists, Ids
  <2> QED BY <1>4, <2>1, StartStep DEF CallAppend
<1>5. ASSUME NEW g \in Goroutine, NEW e \in Ids, NEW c \in Ids, CallWithErr(g, e, c)
      PROVE  TypeOK' /\ Owned'
  <2>1. node[e].kids[1] \in Ids
    <3>1. node[e].kind = "error" /\ KidsOK(node[e], e)
      BY <1>5 DEF TypeOK, NodeOK, CallWithErr
    <3>2. node[e].kids[1] \in 1..(e - 1)
      BY <3>1 DEF KidsOK
    <3> QED BY <3>2, Typing DEF Ids
  <2>2. <<c>> \in Seq(Nat)
    BY Typing
  <2> QED BY <1>5, <2>1, <2>2, StartStep DEF CallWithErr
<1>6. ASSUME NEW g \in Goroutine, Push(g) \/ Return(g)
      PROVE  TypeOK' /\ Owned'
  BY <1>6, PushStep, ReturnStep
<1>7. CASE UNCHANGED vars
  BY <1>7 DEF vars, TypeOK, NodeOK, CallOK, Owned, Ids
<1> QED BY <1>1, <1>2, <1>3, <1>4, <1>5, <1>6, <1>7 DEF Next

IInv == TypeOK /\ Owned

LEMMA Inductive == Exclusive => (Spec => []IInv)
<1> SUFFICES ASSUME Exclusive PROVE Spec => []IInv
  OBVIOUS
<1>1. Init => IInv
  BY InitType DEF IInv
<1>2. IInv /\ [Next]_vars => IInv'
  BY TypeStep DEF IInv
<1> QED BY <1>1, <1>2, PTL DEF Spec

(* Slice headers never leave their backing arrays and every reference names an
   error made before, whatever calls run at once. *)
THEOREM TypeCorrect == Exclusive => (Spec => []TypeOK)
BY Inductive, PTL DEF IInv

(* No goroutine writes a slot that another goroutine reads or writes: Append is
   safe for concurrent use when each multiError is appended to at most once. *)
THEOREM AppendRaceFree == Exclusive => (Spec => []RaceFree)
<1>1. IInv => RaceFree
  <2> SUFFICES ASSUME TypeOK, Owned, NEW g \in Busy,
                      call[g].len < Len(Slots(array, call[g].arr))
               PROVE  /\ \A n \in Ids : node[n].arr = call[g].arr => node[n].len <= call[g].len
                      /\ \A h \in Busy \ {g} : call[h].arr # call[g].arr
    BY DEF IInv, RaceFree
  <2>1. g \in Goroutine /\ Busy \subseteq Goroutine /\ call[g].len \in Nat
    BY Typing DEF Busy, CallRecord
  <2>2. call[g].arr # 0
    BY <2>1, EmptySeq DEF Slots
  <2> QED BY <2>1, <2>2 DEF Owned
<1> QED BY <1>1, Inductive, PTL

-----------------------------------------------------------------------------
LEMMA AppendKeeps ==
    ASSUME NEW S, NEW s \in Seq(S), NEW x
    PROVE  /\ Append(s, x) \in Seq(S \cup {x})
           /\ Len(Append(s, x)) = Len(s) + 1
           /\ \A i \in 1..Len(s) : Append(s, x)[i] = s[i]
<1>1. s \in Seq(S \cup {x})
  OBVIOUS
<1> QED BY <1>1, AppendSeq

LEMMA SubSeqAgree ==
    ASSUME NEW s, NEW t, NEW len \in Nat,
           \A i \in 1..len : s[i] \in Nat /\ t[i] = s[i]
    PROVE  SubSeq(t, 1, len) = SubSeq(s, 1, len)
<1>1. /\ SubSeq(s, 1, len) \in Seq(Nat)
      /\ Len(SubSeq(s, 1, len)) = IF 1 <= len THEN len - 1 + 1 ELSE 0
      /\ \A i \in 1..(len - 1 + 1) : SubSeq(s, 1, len)[i] = s[1 + i - 1]
  BY SubSeqProperties
<1>2. /\ SubSeq(t, 1, len) \in Seq(Nat)
      /\ Len(SubSeq(t, 1, len)) = IF 1 <= len THEN len - 1 + 1 ELSE 0
      /\ \A i \in 1..(len - 1 + 1) : SubSeq(t, 1, len)[i] = t[1 + i - 1]
  BY SubSeqProperties
<1>3. /\ Len(SubSeq(t, 1, len)) = len /\ Len(SubSeq(s, 1, len)) = len
      /\ \A i \in 1..len : SubSeq(t, 1, len)[i] = SubSeq(s, 1, len)[i]
  BY <1>1, <1>2
<1> QED BY <1>1, <1>2, <1>3, SeqEqual

(* A step keeps every error, and every slot but those beyond the header of the
   call that writes in place. *)
LEMMA StepKeeps ==
    ASSUME TypeOK, Owned, [Next]_vars
    PROVE  /\ \A n \in Ids : n \in Ids' /\ node'[n] = node[n]
           /\ \A a \in 1..Len(array) :
                 \/ array'[a] = array[a]
                 \/ \E g \in Goroutine :
                       /\ call[g].arr = a
                       /\ \A i \in 1..call[g].len : array'[a][i] = array[a][i]
<1>1. \A x : LET s == Append(node, x) IN
        Len(s) = Len(node) + 1 /\ (\A i \in Ids : s[i] = node[i])
  BY AppendKeeps DEF TypeOK, Ids
<1>2. \A x, y : LET s == Append(Append(node, x), y) IN
        Len(s) = Len(node) + 2 /\ (\A i \in Ids : s[i] = node[i])
  <2> TAKE x, y
  <2> DEFINE s == Append(node, x)
  <2>1. s \in Seq(NodeRecord \cup {x}) /\ Len(s) = Len(node) + 1
    BY AppendKeeps DEF TypeOK
  <2>2. \A i \in Ids : i \in 1..Len(s) /\ s[i] = node[i]
    BY <1>1, <2>1, Typing DEF Ids
  <2> HIDE DEF s
  <2>3. /\ Len(Append(s, y)) = Len(s) + 1
        /\ \A i \in 1..Len(s) : Append(s, y)[i] = s[i]
    BY <2>1, AppendKeeps
  <2> QED BY <2>1, <2>2, <2>3, Typing DEF s
<1>3. \A x : \A a \in 1..Len(array) : Append(array, x)[a] = array[a]
  BY AppendKeeps DEF TypeOK
<1>4. \A n \in Ids : n \in Ids' /\ node'[n] = node[n]
  <2>1. \/ node' = node
        \/ \E x : node' = Append(node, x)
        \/ \E x, y : node' = Append(Append(node, x), y)
    BY ZenonT(40) DEF Next, vars, Wrap, WithFirstErr, Link, Join, CallAppend, CallWithErr,
           StartAppend, Push, Return
  <2>2. Len(node') >= Len(node) /\ Len(node') \in Nat /\ \A i \in Ids : node'[i] = node[i]
    <3>1. CASE node' = node
      BY <3>1, Typing
    <3>2. CASE \E x : node' = Append(node, x)
      <4>1. PICK x : node' = Append(node, x)
        BY <3>2
      <4> DEFINE s == Append(node, x)
      <4>2. Len(s) = Len(node) + 1 /\ (\A i \in Ids : s[i] = node[i]) /\ node' = s
        BY <4>1, <1>1
      <4> HIDE DEF s
      <4> QED BY <4>2, Typing
    <3>3. CASE \E x, y : node' = Append(Append(node, x), y)
      <4>1. PICK x, y : node' = Append(Append(node, x), y)
        BY <3>3
      <4> DEFINE s == Append(Append(node, x), y)
      <4>2. Len(s) = Len(node) + 2 /\ (\A i \in Ids : s[i] = node[i]) /\ node' = s
        BY <4>1, <1>2
      <4> HIDE DEF s
      <4> QED BY <4>2, Typing
    <3> QED BY <2>1, <3>1, <3>2, <3>3
  <2> QED BY <2>2, Typing DEF Ids
<1>5. ASSUME NEW a \in 1..Len(array)
      PROVE  \/ array'[a] = array[a]
             \/ \E g \in Goroutine :
                   /\ call[g].arr = a
                   /\ \A i \in 1..call[g].len : array'[a][i] = array[a][i]
  <2>1. CASE array' = array \/ \E x : array' = Append(array, x)
    BY <1>3, <2>1
  <2>2. ASSUME NEW g \in Goroutine, Push(g), ~ \E x : array' = Append(array, x)
        PROVE  /\ call[g].arr # a => array'[a] = array[a]
               /\ \A i \in 1..call[g].len : call[g].arr = a => array'[a][i] = array[a][i]
    <3> DEFINE c == call[g]
               x == c.args[c.next + 1]
               slots == Slots(array, c.arr)
    <3>1. /\ c.len < Len(slots)
          /\ array' = [array EXCEPT ![c.arr] = Written(slots, c.len, x)]
      BY <2>2 DEF Push
    <3>2. c.len \in Nat /\ array \in Seq(Seq(Nat))
      BY Typing DEF TypeOK, CallRecord
    <3>3. c.arr # a => array'[a] = array[a]
      BY <3>1, <3>2
    <3>4. c.arr = a => array'[a] = Written(array[a], c.len, x) /\ slots = array[a]
      <4>1. a # 0 /\ a \in DOMAIN array
        BY <3>2, LenProperties, Typing
      <4>2. c.arr = a => slots = array[a]
        BY <4>1 DEF Slots
      <4> QED BY <3>1, <4>1, <4>2
    <3>5. c.arr = a => \A i \in 1..c.len : array'[a][i] = array[a][i]
      <4> SUFFICES ASSUME c.arr = a, NEW i \in 1..c.len PROVE array'[a][i] = array[a][i]
        OBVIOUS
      <4>1. Len(array[a]) \in Nat /\ c.len < Len(array[a]) /\ array[a] \in Seq(Nat)
        BY <3>1, <3>2, <3>4, ElementOfSeq, LenProperties
      <4>2. c.args \in Seq(Nat) /\ c.next + 1 \in 1..Len(c.args)
        <5>1. c \in CallRecord /\ c.next < Len(c.args)
          BY <2>2, Typing DEF Push
        <5> QED BY SMTT(30), <5>1, LenProperties DEF CallRecord
      <4>3. x \in Nat
        BY <4>2, ElementOfSeq
      <4> DEFINE s == array[a]
                 len == c.len
      <4>4. s \in Seq(Nat) /\ len \in Nat /\ len < Len(s) /\ i \in 1..len
        BY <3>2, <4>1
      <4> HIDE DEF s, len, x
      <4>5. \A j \in 1..len : Written(s, len, x)[j] = s[j]
        BY <4>3, <4>4, WrittenSlots
      <4>6. Written(s, len, x)[i] = s[i]
        BY <4>4, <4>5
      <4> QED BY <3>4, <4>6 DEF s, len
    <3> QED BY <3>3, <3>5
  <2>3. \/ array' = array
        \/ \E x : array' = Append(array, x)
        \/ \E g \in Goroutine : Push(g)
    BY ZenonT(40) DEF Next, vars, Wrap, WithFirstErr, Link, Join, CallAppend, CallWithErr,
           StartAppend, Push, Return
  <2> QED BY <2>1, <2>2, <2>3
<1> QED BY <1>4, <1>5

(* What an error holds lies below every slot that a step writes. *)
LEMMA MembersKept ==
    ASSUME TypeOK, Owned, [Next]_vars, NEW n \in Ids
    PROVE  Members(n)' = Members(n)
<1> DEFINE arr == node[n].arr
           len == node[n].len
           s == Slots(array, arr)
           t == Slots(array', arr)
<1>1. node'[n] = node[n]
  BY StepKeeps
<1>2. CASE node[n].kind # "multi"
  BY <1>1, <1>2 DEF Members
<1>3. CASE node[n].kind = "multi"
  <2>1. arr \in 1..Len(array) /\ len \in Nat
    BY SMTT(30), <1>3, Typing DEF TypeOK, NodeOK, NodeRecord
  <2>2. s = array[arr] /\ t = array'[arr]
    BY <2>1, Typing DEF Slots
  <2>3. CASE t = s
    BY <1>1, <1>3, <2>3 DEF Members
  <2>4. ASSUME NEW g \in Goroutine, call[g].arr = arr,
               \A i \in 1..call[g].len : t[i] = s[i]
        PROVE  Members(n)' = Members(n)
    <3>1. len <= call[g].len /\ call[g].len \in Nat
      BY SMTT(30), <2>1, <2>4, Typing DEF Owned, CallRecord
    <3>2. \A i \in 1..len : t[i] = s[i]
      BY <2>1, <2>4, <3>1
    <3>3. \A i \in 1..len : s[i] \in Nat
      <4>1. len <= Len(s) /\ s \in Seq(Nat) /\ Len(s) \in Nat
        BY <2>1, Typing DEF TypeOK, NodeOK
      <4> QED BY <2>1, <4>1, ElementOfSeq
    <3>4. SubSeq(t, 1, len) = SubSeq(s, 1, len)
      BY <2>1, <3>2, <3>3, SubSeqAgree
    <3> QED BY <1>1, <1>3, <3>4 DEF Members
  <2>5. t = s \/ \E g \in Goroutine : /\ call[g].arr = arr
                                     /\ \A i \in 1..call[g].len : t[i] = s[i]
    BY <2>1, <2>2, StepKeeps
  <2> QED BY <2>3, <2>4, <2>5
<1> QED BY <1>2, <1>3

(* No Append, Join or WithErr changes the members of an error that some caller
   already holds: the builders leave their receiver as it was. *)
THEOREM ErrorsImmutable == Exclusive => (Spec => Immutable)
<1> SUFFICES ASSUME Exclusive PROVE Spec => Immutable
  OBVIOUS
<1>1. IInv /\ [Next]_vars => [\A n \in Ids : Members(n)' = Members(n)]_vars
  BY MembersKept DEF IInv
<1> QED BY <1>1, Inductive, PTL DEF Spec, Immutable

-----------------------------------------------------------------------------
(* The refinement: slices that share arrays behave as the immutable values of
   ErrorValues, so that no error contains one made after it, and every error
   handed to Append or WithErr stays reachable from the result. *)

(* The members that the Append of base e starts from. *)
Begun(e) ==
    IF FirstOf(e) # Nil THEN Members(FirstOf(e)) ELSE IF e # Nil THEN <<e>> ELSE <<>>

(* Below the length of its header, the array of a running call holds the members
   it started from and then the arguments appended so far; it will return a multi,
   and all that it was given exists. *)
CallBuilds(g) ==
    LET c == call[g] IN
    c.op # "none" =>
        /\ c.base \in Ids \cup {Nil} /\ c.first = FirstOf(c.base)
        /\ c.args \in Seq(Ids)
        /\ c.op = "Append" => c.args \in ArgLists
        /\ c.op = "WithErr" => Len(c.args) = 1 /\ c.base # Nil
        /\ ReturnsMulti(c.base, c.args)
        /\ c.len = Len(Begun(c.base)) + c.next
        /\ \A i \in 1..c.len : Slots(array, c.arr)[i] = (Begun(c.base) \o c.args)[i]
CallsBuild == \A g \in Goroutine : CallBuilds(g)

-----------------------------------------------------------------------------
LEMMA SubSeqPrefix ==
    ASSUME NEW s \in Seq(Nat), NEW len \in Nat, len <= Len(s)
    PROVE  /\ SubSeq(s, 1, len) \in Seq(Nat)
           /\ Len(SubSeq(s, 1, len)) = len
           /\ \A i \in 1..len : SubSeq(s, 1, len)[i] = s[i]
<1>1. \A i \in 1..len : s[i] \in Nat
  BY LenProperties, ElementOfSeq
<1>2. /\ SubSeq(s, 1, len) \in Seq(Nat)
      /\ Len(SubSeq(s, 1, len)) = IF 1 <= len THEN len - 1 + 1 ELSE 0
      /\ \A i \in 1..(len - 1 + 1) : SubSeq(s, 1, len)[i] = s[1 + i - 1]
  BY <1>1, SubSeqProperties
<1> QED BY <1>2

(* The members of an error are read within its array. *)
LEMMA MembersSeq ==
    ASSUME TypeOK, NEW n \in Ids
    PROVE  /\ Members(n) \in Seq(Nat) /\ Len(Members(n)) \in Nat
           /\ node[n].kind = "multi" =>
                 /\ Len(Members(n)) = node[n].len
                 /\ \A i \in 1..node[n].len : Members(n)[i] = Slots(array, node[n].arr)[i]
<1> DEFINE s == Slots(array, node[n].arr)
           len == node[n].len
<1>1. /\ node[n] \in NodeRecord /\ len \in Nat /\ node[n].kids \in Seq(Nat)
      /\ s \in Seq(Nat) /\ len <= Len(s)
  BY Typing DEF TypeOK, NodeOK, NodeRecord
<1>2. /\ SubSeq(s, 1, len) \in Seq(Nat)
      /\ Len(SubSeq(s, 1, len)) = len
      /\ \A i \in 1..len : SubSeq(s, 1, len)[i] = s[i]
  <2> HIDE DEF s, len
  <2> QED BY <1>1, SubSeqPrefix
<1>3. Members(n) \in Seq(Nat)
  BY <1>1, <1>2 DEF Members
<1> QED BY <1>2, <1>3, LenProperties DEF Members

LEMMA BegunSeq ==
    ASSUME TypeOK, NEW e \in Ids \cup {Nil}
    PROVE  /\ FirstOf(e) \in Ids \cup {Nil}
           /\ Begun(e) \in Seq(Nat) /\ Len(Begun(e)) \in Nat
<1>1. FirstOf(e) \in Ids \cup {Nil}
  BY Found DEF FirstOf
<1>2. Begun(e) \in Seq(Nat)
  <2>1. FirstOf(e) # Nil => Members(FirstOf(e)) \in Seq(Nat)
    BY <1>1, MembersSeq
  <2>2. e \in Nat
    BY Typing DEF Nil
  <2>3. <<e>> \in Seq(Nat) /\ <<>> \in Seq(Nat)
    BY <2>2
  <2> QED BY <2>1, <2>3 DEF Begun
<1> QED BY <1>1, <1>2, LenProperties

(* The slots that a running call covers are written by nobody. *)
LEMMA CoveredKept ==
    ASSUME TypeOK, Owned, [Next]_vars, NEW g \in Goroutine, NEW i \in 1..call[g].len
    PROVE  Slots(array', call[g].arr)[i] = Slots(array, call[g].arr)[i]
<1> DEFINE a == call[g].arr
<1>1. CASE a = 0
  BY <1>1 DEF Slots
<1>2. CASE a # 0
  <2>1. a \in 1..Len(array)
    BY <1>2, Typing DEF TypeOK, CallOK, CallRecord
  <2>2. Slots(array', a) = array'[a] /\ Slots(array, a) = array[a]
    BY <1>2 DEF Slots
  <2>3. CASE array'[a] = array[a]
    BY <2>2, <2>3
  <2>4. ASSUME NEW h \in Goroutine, call[h].arr = a,
               \A j \in 1..call[h].len : array'[a][j] = array[a][j]
        PROVE  array'[a][i] = array[a][i]
    <3>1. h = g
      BY <1>2, <2>4 DEF Owned
    <3> QED BY <2>4, <3>1
  <2>5. array'[a][i] = array[a][i]
    <3>1. \/ array'[a] = array[a]
          \/ \E h \in Goroutine : /\ call[h].arr = a
                                  /\ \A j \in 1..call[h].len : array'[a][j] = array[a][j]
      BY <2>1, StepKeeps
    <3> QED BY <3>1, <2>4
  <2> QED BY <2>2, <2>5
<1> QED BY <1>1, <1>2

LEMMA BegunKept ==
    ASSUME TypeOK, Owned, [Next]_vars, NEW e \in Ids \cup {Nil}
    PROVE  FirstOf(e)' = FirstOf(e) /\ Begun(e)' = Begun(e)
<1>1. FirstOf(e)' = FirstOf(e)
  BY StepKeeps DEF FirstOf
<1>2. FirstOf(e) # Nil => Members(FirstOf(e))' = Members(FirstOf(e))
  <2> DEFINE f == FirstOf(e)
  <2>1. f # Nil => f \in Ids
    BY BegunSeq
  <2> HIDE DEF f
  <2>2. f # Nil => \A n \in {f} : Members(n)' = Members(n)
    BY <2>1, MembersKept
  <2> QED BY <2>2, <1>1 DEF f, Members
<1> QED BY <1>1, <1>2 DEF Begun

LEMMA ArgsSeq ==
    ASSUME TypeOK, NEW errs \in ArgLists
    PROVE  errs \in Seq(Ids) /\ errs \in Seq(Nat) /\ Len(errs) \in 0..MaxArgs
<1>1. PICK k \in 0..MaxArgs : errs \in [1..k -> Ids]
  BY DEF ArgLists
<1>2. k \in Nat /\ Ids \subseteq Nat
  BY <1>1, BoundsAssumption, Typing
<1>3. errs \in Seq(Ids) /\ errs \in Seq(Nat)
  <2>1. errs \in Seq(Ids)
    BY <1>1, <1>2, SeqDef
  <2> QED BY <1>2, <2>1, SeqMonotonic
<1>4. Len(errs) = k
  BY <1>1, <1>2, <1>3, LenProperties
<1> QED BY <1>1, <1>3, <1>4

LEMMA IdsGrow ==
    ASSUME TypeOK, Owned, [Next]_vars
    PROVE  Ids \subseteq Ids' /\ Seq(Ids) \subseteq Seq(Ids') /\ ArgLists \subseteq ArgLists'
<1>1. Ids \subseteq Ids'
  BY StepKeeps
<1>2. \A k \in 0..MaxArgs : [1..k -> Ids] \subseteq [1..k -> Ids']
  BY <1>1
<1>3. ArgLists \subseteq ArgLists'
  BY <1>2 DEF ArgLists
<1>4. Seq(Ids) \subseteq Seq(Ids')
  BY <1>1, SeqMonotonic
<1> QED BY <1>1, <1>3, <1>4

LEMMA ConcatNth ==
    ASSUME NEW S, NEW s \in Seq(S), NEW t \in Seq(S), NEW k \in 1..Len(t)
    PROVE  (s \o t)[Len(s) + k] = t[k]
<1>1. Len(s) \in Nat /\ Len(t) \in Nat
  BY LenProperties
<1>2. Len(s) + k \in 1..(Len(s) + Len(t)) /\ ~ (Len(s) + k <= Len(s)) /\ Len(s) + k - Len(s) = k
  BY <1>1
<1>3. \A i \in 1..(Len(s) + Len(t)) : (s \o t)[i] = IF i <= Len(s) THEN s[i] ELSE t[i - Len(s)]
  BY ConcatProperties
<1> QED BY <1>2, <1>3

LEMMA ConcatPrefix ==
    ASSUME NEW S, NEW s \in Seq(S), NEW t \in Seq(S), NEW k \in 1..Len(s)
    PROVE  (s \o t)[k] = s[k]
<1>1. Len(s) \in Nat /\ Len(t) \in Nat
  BY LenProperties
<1>2. k \in 1..(Len(s) + Len(t)) /\ k <= Len(s)
  BY <1>1
<1>3. \A i \in 1..(Len(s) + Len(t)) : (s \o t)[i] = IF i <= Len(s) THEN s[i] ELSE t[i - Len(s)]
  BY ConcatProperties
<1> QED BY <1>2, <1>3

(* A call that does not move goes on building what it was building. *)
LEMMA OldBuild ==
    ASSUME TypeOK, Owned, CallsBuild, [Next]_vars, NEW g \in Goroutine, call'[g] = call[g]
    PROVE  CallBuilds(g)'
<1> DEFINE c == call[g]
<1> SUFFICES ASSUME c.op # "none" PROVE CallBuilds(g)'
  BY DEF CallBuilds
<1>1. /\ c.base \in Ids \cup {Nil} /\ c.first = FirstOf(c.base)
      /\ c.args \in Seq(Ids)
      /\ c.op = "Append" => c.args \in ArgLists
      /\ c.op = "WithErr" => Len(c.args) = 1 /\ c.base # Nil
      /\ ReturnsMulti(c.base, c.args)
      /\ c.len = Len(Begun(c.base)) + c.next
      /\ \A i \in 1..c.len : Slots(array, c.arr)[i] = (Begun(c.base) \o c.args)[i]
  BY DEF CallsBuild, CallBuilds
<1>2. \A e \in Ids \cup {Nil} : FirstOf(e)' = FirstOf(e) /\ Begun(e)' = Begun(e)
  BY BegunKept
<1>3. \A i \in 1..c.len : Slots(array', c.arr)[i] = Slots(array, c.arr)[i]
  BY CoveredKept
<1>4. \A e \in Ids \cup {Nil} : \A errs : ReturnsMulti(e, errs)' = ReturnsMulti(e, errs)
  BY <1>2 DEF ReturnsMulti
<1> QED BY <1>1, <1>2, <1>3, <1>4, IdsGrow DEF CallBuilds

(* What one round of the loop writes. *)
LEMMA PushWrites ==
    ASSUME TypeOK, NEW g \in Goroutine, Push(g)
    PROVE  LET c == call[g]
               d == call'[g]
           IN  /\ d.op = c.op /\ d.base = c.base /\ d.first = c.first /\ d.args = c.args
               /\ d.len = c.len + 1 /\ d.next = c.next + 1
               /\ c.next + 1 \in 1..Len(c.args)
               /\ \A i \in 1..c.len : Slots(array', d.arr)[i] = Slots(array, c.arr)[i]
               /\ Slots(array', d.arr)[c.len + 1] = c.args[c.next + 1]
<1> DEFINE c == call[g]
           d == call'[g]
           s == Slots(array, c.arr)
           x == c.args[c.next + 1]
<1>1. /\ c \in CallRecord /\ c.arr \in 0..Len(array) /\ c.len \in Nat
      /\ c.next \in Nat /\ c.args \in Seq(Nat) /\ c.len <= Len(s)
      /\ s \in Seq(Nat) /\ Len(s) \in Nat
  BY Typing DEF TypeOK, CallOK, CallRecord
<1>2. c.next + 1 \in 1..Len(c.args) /\ x \in Nat
  <2>1. Len(c.args) \in Nat /\ c.next < Len(c.args)
    BY <1>1, LenProperties DEF Push
  <2>2. \A i, n \in Nat : i < n => i + 1 \in 1..n
    OBVIOUS
  <2> HIDE DEF c
  <2>3. c.next + 1 \in 1..Len(c.args)
    BY <1>1, <2>1, <2>2
  <2> QED BY <1>1, <2>3, ElementOfSeq
<1>3. ASSUME NEW arr, call' = [call EXCEPT ![g] = Pushed(c, arr)]
      PROVE  /\ d.op = c.op /\ d.base = c.base /\ d.first = c.first /\ d.args = c.args
             /\ d.len = c.len + 1 /\ d.next = c.next + 1 /\ d.arr = arr
  <2>1. d = Pushed(c, arr)
    BY <1>3 DEF TypeOK
  <2> QED BY <1>1, <2>1 DEF Pushed, CallRecord
<1>4. CASE c.len < Len(s)
  <2> DEFINE t == Written(s, c.len, x)
  <2>1. c.arr # 0
    BY <1>1, <1>4, EmptySeq DEF Slots
  <2>2. /\ array' = [array EXCEPT ![c.arr] = t]
        /\ call' = [call EXCEPT ![g] = Pushed(c, c.arr)]
    BY <1>1, <1>4 DEF Push
  <2>3. /\ t \in Seq(Nat) /\ \A i \in 1..c.len : t[i] = s[i]
        /\ t[c.len + 1] = x
    <3> DEFINE len == c.len
    <3>1. s \in Seq(Nat) /\ len \in Nat /\ len < Len(s) /\ x \in Nat
      BY <1>1, <1>2, <1>4
    <3> HIDE DEF len, s, x
    <3>2. /\ Written(s, len, x) \in Seq(Nat) /\ \A i \in 1..len : Written(s, len, x)[i] = s[i]
          /\ Written(s, len, x)[len + 1] = x
      BY <3>1, WrittenSlots
    <3> QED BY <3>2 DEF len, t
  <2>4. Slots(array', c.arr) = t
    <3>1. c.arr \in 1..Len(array)
      BY <1>1, <2>1, Typing
    <3> HIDE DEF c, t
    <3> QED BY <2>1, <2>2, <2>3, <3>1, ExceptSeq DEF Slots, TypeOK
  <2>5. d.arr = c.arr
    BY <1>3, <2>2
  <2> HIDE DEF t
  <2> QED BY ZenonT(40), <1>2, <1>3, <2>2, <2>3, <2>4, <2>5
<1>5. CASE c.len >= Len(s)
  <2> DEFINE t == Grown(s, c.len, x)
             arr == Len(array) + 1
  <2>1. /\ array' = Append(array, t)
        /\ call' = [call EXCEPT ![g] = Pushed(c, arr)]
    BY SMTT(30), <1>1, <1>5 DEF Push
  <2>2. c.len = Len(s)
    BY <1>1, <1>5
  <2>3. /\ t \in Seq(Nat) /\ \A i \in 1..c.len : t[i] = s[i]
        /\ t[c.len + 1] = x
    <3> HIDE DEF c, s, x
    <3> QED BY <1>1, <1>2, <2>2, GrownSlots DEF t
  <2>4. Slots(array', arr) = t
    <3>1. arr # 0
      BY Typing
    <3> HIDE DEF t
    <3> QED BY <2>1, <2>3, <3>1, AppendSeq DEF Slots, TypeOK
  <2>5. d.arr = arr
    BY <1>3, <2>1
  <2> HIDE DEF t, arr
  <2> QED BY ZenonT(40), <1>2, <1>3, <2>1, <2>3, <2>4, <2>5
<1> QED BY <1>1, <1>4, <1>5

LEMMA PushBuilds ==
    ASSUME TypeOK, Owned, CallsBuild, [Next]_vars, NEW g \in Goroutine, Push(g)
    PROVE  CallBuilds(g)'
<1> DEFINE c == call[g]
           d == call'[g]
           b == Begun(c.base)
<1>1. /\ c.base \in Ids \cup {Nil} /\ c.first = FirstOf(c.base)
      /\ c.args \in Seq(Ids)
      /\ c.op = "Append" => c.args \in ArgLists
      /\ c.op = "WithErr" => Len(c.args) = 1 /\ c.base # Nil
      /\ ReturnsMulti(c.base, c.args)
      /\ c.len = Len(b) + c.next
      /\ \A i \in 1..c.len : Slots(array, c.arr)[i] = (b \o c.args)[i]
  BY DEF CallsBuild, CallBuilds, Push
<1>2. /\ d.op = c.op /\ d.base = c.base /\ d.first = c.first /\ d.args = c.args
      /\ d.len = c.len + 1 /\ d.next = c.next + 1
      /\ c.next + 1 \in 1..Len(c.args)
      /\ \A i \in 1..c.len : Slots(array', d.arr)[i] = Slots(array, c.arr)[i]
      /\ Slots(array', d.arr)[c.len + 1] = c.args[c.next + 1]
  BY PushWrites
<1>3. FirstOf(c.base)' = FirstOf(c.base) /\ Begun(c.base)' = b
  <2>1. \A e \in Ids \cup {Nil} : FirstOf(e)' = FirstOf(e) /\ Begun(e)' = Begun(e)
    BY BegunKept
  <2> QED BY <1>1, <1>2, <2>1
<1>4. \A i \in 1..(c.len + 1) : Slots(array', d.arr)[i] = (b \o c.args)[i]
  <2>1. /\ b \in Seq(Nat) /\ Len(b) \in Nat /\ c.args \in Seq(Nat)
        /\ Len(c.args) \in Nat /\ c.next \in Nat
    BY <1>1, BegunSeq, Typing, LenProperties DEF CallRecord
  <2> HIDE DEF b, c, d
  <2>2. c.len \in Nat
    BY <1>1, <2>1
  <2>3. (b \o c.args)[c.len + 1] = c.args[c.next + 1]
    <3>1. c.len + 1 = Len(b) + (c.next + 1)
      BY <1>1, <2>1
    <3>2. (b \o c.args)[Len(b) + (c.next + 1)] = c.args[c.next + 1]
      <4> DEFINE args == c.args
                 k == c.next + 1
      <4>1. b \in Seq(Nat) /\ args \in Seq(Nat) /\ k \in 1..Len(args)
        BY <1>2, <2>1
      <4> HIDE DEF args, k
      <4>2. (b \o args)[Len(b) + k] = args[k]
        BY <4>1, ConcatNth
      <4> QED BY <4>2 DEF args, k
    <3> QED BY <3>1, <3>2
  <2> SUFFICES ASSUME NEW i \in 1..(c.len + 1)
               PROVE  Slots(array', d.arr)[i] = (b \o c.args)[i]
    OBVIOUS
  <2>4. i \in 1..c.len \/ i = c.len + 1
    BY <2>2
  <2> QED BY <1>1, <1>2, <2>3, <2>4
<1>5. d.len = Len(b) + d.next
  <2>1. Len(b) \in Nat /\ c.next \in Nat
    BY <1>1, BegunSeq, Typing DEF CallRecord
  <2> QED BY <1>1, <1>2, <2>1
<1>6. ReturnsMulti(c.base, c.args)' = ReturnsMulti(c.base, c.args)
  BY <1>2, <1>3 DEF ReturnsMulti
<1> QED
  <2> HIDE DEF b
  <2> QED BY <1>1, <1>2, <1>3, <1>4, <1>5, <1>6, IdsGrow DEF CallBuilds

LEMMA StartBuilds ==
    ASSUME TypeOK, Owned, [Next]_vars, NEW g \in Goroutine, NEW op \in {"Append", "WithErr"},
           NEW e \in Ids \cup {Nil}, NEW errs \in Seq(Ids), StartAppend(g, op, e, errs),
           op = "Append" => errs \in ArgLists,
           op = "WithErr" => Len(errs) = 1 /\ e # Nil
    PROVE  CallBuilds(g)'
<1> DEFINE first == FirstOf(e)
           b == Begun(e)
           d == call'[g]
<1>1. /\ first \in Ids \cup {Nil} /\ b \in Seq(Nat) /\ Len(b) \in Nat
      /\ errs \in Seq(Nat)
  <2>1. Ids \subseteq Nat
    BY Typing
  <2> QED BY <2>1, BegunSeq, SeqMonotonic
<1>2. FirstOf(e)' = first /\ Begun(e)' = b
  BY BegunKept
<1>3. ASSUME NEW arr, NEW len,
             call' = [call EXCEPT ![g] = [op |-> op, base |-> e, first |-> first, arr |-> arr,
                                          len |-> len, args |-> errs, next |-> 0]],
             len = Len(b), \A i \in 1..len : Slots(array', arr)[i] = b[i]
      PROVE  CallBuilds(g)'
  <2>1. d = [op |-> op, base |-> e, first |-> first, arr |-> arr,
             len |-> len, args |-> errs, next |-> 0]
    BY <1>3 DEF TypeOK
  <2> HIDE DEF first, b
  <2>2. /\ d.op = op /\ d.base = e /\ d.first = first /\ d.arr = arr /\ d.len = len
        /\ d.args = errs /\ d.next = 0
    BY <2>1
  <2>3. d.len = Len(b) + d.next
    BY <1>1, <1>3, <2>2
  <2>4. \A i \in 1..len : Slots(array', arr)[i] = (b \o errs)[i]
    BY <1>1, <1>3, ConcatPrefix
  <2>5. ReturnsMulti(e, errs)'
    BY <1>2 DEF ReturnsMulti, StartAppend, first
  <2>6. e \in Ids' \cup {Nil} /\ errs \in Seq(Ids') /\ (op = "Append" => errs \in ArgLists')
    BY IdsGrow
  <2> QED BY <1>2, <2>2, <2>3, <2>4, <2>5, <2>6 DEF CallBuilds
<1>4. CASE first # Nil
  <2>1. first \in Ids /\ node[first].kind = "multi"
    BY <1>4, Found DEF FirstOf
  <2>2. /\ array' = array
        /\ call' = [call EXCEPT ![g] = [op |-> op, base |-> e, first |-> first,
                        arr |-> node[first].arr, len |-> node[first].len,
                        args |-> errs, next |-> 0]]
    BY <1>4 DEF StartAppend, FoundLen, FirstOf, Nil
  <2>3. b = Members(first)
    BY <1>4 DEF Begun
  <2> HIDE DEF first, b
  <2>4. /\ Len(b) = node[first].len
        /\ \A i \in 1..node[first].len : Slots(array', node[first].arr)[i] = b[i]
    BY <2>1, <2>2, <2>3, MembersSeq
  <2> QED BY <1>3, <2>2, <2>4
<1>5. CASE first = Nil /\ e # Nil
  <2> DEFINE a == Len(array) + 1
  <2>1. /\ array' = Append(array, <<e>>)
        /\ call' = [call EXCEPT ![g] = [op |-> op, base |-> e, first |-> first,
                        arr |-> a, len |-> 1, args |-> errs, next |-> 0]]
    BY <1>5 DEF StartAppend, Nil
  <2>2. b = <<e>>
    BY <1>5 DEF Begun
  <2>3. Slots(array', a) = <<e>>
    <3>1. <<e>> \in Seq(Nat) /\ a # 0
      BY Typing DEF Nil
    <3> QED BY <2>1, <3>1, AppendSeq DEF Slots, TypeOK
  <2>4. Len(b) = 1 /\ \A i \in 1..1 : Slots(array', a)[i] = b[i]
    BY <2>2, <2>3
  <2> HIDE DEF a, b, first
  <2> QED BY <1>3, <2>1, <2>4
<1>6. CASE e = Nil
  <2>1. call' = [call EXCEPT ![g] = [op |-> op, base |-> e, first |-> first,
                     arr |-> 0, len |-> 0, args |-> errs, next |-> 0]]
    BY <1>6 DEF StartAppend, FirstOf
  <2>2. b = <<>>
    BY <1>6 DEF Begun, FirstOf
  <2>3. Len(b) = 0 /\ \A i \in 1..0 : Slots(array', 0)[i] = b[i]
    BY <2>2
  <2> HIDE DEF b, first
  <2> QED BY <1>3, <2>1, <2>3
<1> QED BY <1>4, <1>5, <1>6

-----------------------------------------------------------------------------
(* What each operation makes: m is the first error of the step. *)
LEMMA PlainMakes ==
    ASSUME TypeOK, NEW m, m = Len(node) + 1, NEW kind, kind # "multi", NEW kids, NEW first,
           node' = Append(node, Plain(kind, kids, first))
    PROVE  /\ Len(node') = m
           /\ node'[m].kind = kind /\ node'[m].first = first /\ Members(m)' = kids
<1>1. Len(node') = m /\ node'[m] = Plain(kind, kids, first)
  <2> DEFINE v == Plain(kind, kids, first)
  <2>1. node \in Seq(NodeRecord \cup {v}) /\ v \in NodeRecord \cup {v}
    BY DEF TypeOK
  <2> HIDE DEF v
  <2>2. /\ Len(Append(node, v)) = Len(node) + 1
        /\ Append(node, v)[Len(node) + 1] = v
    BY <2>1, AppendSeq
  <2> QED BY <2>2 DEF v
<1> QED BY <1>1 DEF Plain, Members

LEMMA JoinMakes ==
    ASSUME TypeOK, NEW m, m = Len(node) + 1, NEW errs \in ArgLists, Join(errs)
    PROVE  /\ Len(node') = m
           /\ node'[m].kind = "multi" /\ node'[m].first = m /\ Members(m)' = errs
<1> DEFINE v == Multi(m, Len(array) + 1, Len(errs))
<1>1. errs \in Seq(Nat) /\ Len(errs) \in Nat /\ m \in Nat /\ Len(array) + 1 # 0
  BY ArgsSeq, LenProperties, Typing
<1>2. Len(node') = m /\ node'[m] = v
  <2>1. v \in NodeRecord
    BY <1>1, Typing, EmptySeq DEF Multi, NodeRecord
  <2>2. node' = Append(node, v)
    BY DEF Join
  <2> HIDE DEF v
  <2> QED BY <2>1, <2>2, AppendSeq DEF TypeOK
<1>3. Slots(array', Len(array) + 1) = errs
  <2>1. array' = Append(array, errs)
    BY DEF Join
  <2> QED BY <1>1, <2>1, AppendSeq DEF Slots, TypeOK
<1>4. SubSeq(errs, 1, Len(errs)) = errs
  BY <1>1, SubSeqFull
<1> QED BY <1>2, <1>3, <1>4 DEF Multi, Members

LEMMA ReturnMakes ==
    ASSUME TypeOK, CallsBuild, NEW m, m = Len(node) + 1, NEW g \in Goroutine, Return(g)
    PROVE  LET c == call[g] IN
           /\ node'[m].kind = "multi" /\ node'[m].first = m
           /\ Members(m)' = Begun(c.base) \o c.args
           /\ c.op = "Append" => Len(node') = m
           /\ c.op # "Append" =>
                 /\ Len(node') = m + 1
                 /\ node'[m + 1].kind = "error" /\ node'[m + 1].first = m
                 /\ Members(m + 1)' = <<m>>
<1> DEFINE c == call[g]
           b == Begun(c.base)
           s == Slots(array, c.arr)
           v == Multi(m, c.arr, c.len)
           w == Plain("error", <<m>>, m)
           joined == Append(node, v)
<1>1. /\ c \in CallRecord /\ c.arr \in Nat /\ c.len \in Nat /\ c.len <= Len(s)
      /\ s \in Seq(Nat) /\ m \in Nat
  BY Typing DEF TypeOK, CallOK, CallRecord
<1>2. /\ c.op # "none" /\ c.next = Len(c.args) /\ array' = array
      /\ node' = IF c.op = "Append" THEN joined ELSE Append(joined, w)
  BY DEF Return
<1>3. /\ v \in NodeRecord /\ v.kind = "multi" /\ v.first = m /\ v.arr = c.arr /\ v.len = c.len
      /\ w \in NodeRecord /\ w.kind = "error" /\ w.first = m /\ w.kids = <<m>>
  <2>1. v \in NodeRecord /\ v.kind = "multi" /\ v.first = m /\ v.arr = c.arr /\ v.len = c.len
    BY <1>1, EmptySeq DEF Multi, NodeRecord
  <2>2. w \in NodeRecord /\ w.kind = "error" /\ w.first = m /\ w.kids = <<m>>
    BY <1>1 DEF Plain, NodeRecord
  <2> QED BY <2>1, <2>2
<1> HIDE DEF v, w
<1>4. joined \in Seq(NodeRecord) /\ Len(joined) = m /\ joined[m] = v
  BY <1>3, AppendSeq DEF TypeOK
<1> HIDE DEF joined
<1>5. /\ Len(Append(joined, w)) = m + 1
      /\ Append(joined, w)[m] = v /\ Append(joined, w)[m + 1] = w
  <2>1. m \in 1..Len(joined)
    BY <1>1, <1>4, Typing
  <2> QED BY <1>3, <1>4, <2>1, AppendSeq
<1>6. /\ node'[m] = v
      /\ c.op = "Append" => Len(node') = m
      /\ c.op # "Append" => Len(node') = m + 1 /\ node'[m + 1] = w
  BY <1>2, <1>4, <1>5
<1>7. SubSeq(s, 1, c.len) = b \o c.args
  <2>1. /\ c.base \in Ids \cup {Nil} /\ c.args \in Seq(Nat)
        /\ c.len = Len(b) + c.next
        /\ \A i \in 1..c.len : s[i] = (b \o c.args)[i]
    BY <1>1, <1>2 DEF CallsBuild, CallBuilds, CallRecord
  <2>2. b \in Seq(Nat)
    BY <2>1, BegunSeq
  <2>3. b \o c.args \in Seq(Nat) /\ Len(b \o c.args) = c.len
    <3> HIDE DEF b, c
    <3> QED BY <1>2, <2>1, <2>2, ConcatProperties
  <2> DEFINE t == b \o c.args
             len == c.len
  <2>4. /\ s \in Seq(Nat) /\ len \in Nat /\ len <= Len(s)
        /\ t \in Seq(Nat) /\ Len(t) = len /\ \A i \in 1..len : s[i] = t[i]
    BY <1>1, <2>1, <2>3
  <2> HIDE DEF s, t, len
  <2>5. /\ SubSeq(s, 1, len) \in Seq(Nat) /\ Len(SubSeq(s, 1, len)) = len
        /\ \A i \in 1..len : SubSeq(s, 1, len)[i] = s[i]
    BY <2>4, SubSeqPrefix
  <2>6. SubSeq(s, 1, len) = t
    BY <2>4, <2>5, SeqEqual
  <2> QED BY <2>6 DEF t, len
<1>8. Members(m)' = b \o c.args
  BY <1>2, <1>3, <1>6, <1>7 DEF Members
<1>9. c.op # "Append" => Members(m + 1)' = <<m>>
  BY <1>3, <1>6 DEF Members
<1> QED BY <1>3, <1>6, <1>8, <1>9

-----------------------------------------------------------------------------
LEMMA ExistingCause ==
    ASSUME TypeOK, NEW e \in Ids, node[e].kind = "error"
    PROVE  node[e].kids[1] \in Ids
<1>1. KidsOK(node[e], e)
  BY DEF TypeOK, NodeOK
<1>2. node[e].kids[1] \in 1..(e - 1)
  BY <1>1 DEF KidsOK
<1> QED BY <1>2, Typing DEF Ids

LEMMA BuildStep ==
    ASSUME TypeOK, Owned, CallsBuild, [Next]_vars
    PROVE  CallsBuild'
<1> SUFFICES ASSUME NEW g \in Goroutine PROVE CallBuilds(g)'
  BY DEF CallsBuild
<1>1. CASE call'[g] = call[g]
  BY <1>1, OldBuild
<1>2. ASSUME NEW h \in Goroutine, NEW e \in Ids \cup {Nil}, NEW errs \in ArgLists,
             CallAppend(h, e, errs), call'[g] # call[g]
      PROVE  CallBuilds(g)'
  <2>1. h = g
    BY <1>2 DEF CallAppend, StartAppend, TypeOK
  <2>2. errs \in Seq(Ids)
    BY ArgsSeq
  <2> QED BY <1>2, <2>1, <2>2, StartBuilds DEF CallAppend
<1>3. ASSUME NEW h \in Goroutine, NEW e \in Ids, NEW c \in Ids,
             CallWithErr(h, e, c), call'[g] # call[g]
      PROVE  CallBuilds(g)'
  <2>1. h = g
    BY <1>3 DEF CallWithErr, StartAppend, TypeOK
  <2>2. node[e].kids[1] \in Ids
    BY <1>3, ExistingCause DEF CallWithErr
  <2>3. node[e].kids[1] \in Ids \cup {Nil} /\ node[e].kids[1] # Nil
    BY <2>2, Typing DEF Ids, Nil
  <2>4. <<c>> \in Seq(Ids) /\ Len(<<c>>) = 1
    OBVIOUS
  <2> QED BY <1>3, <2>1, <2>3, <2>4, StartBuilds DEF CallWithErr
<1>4. ASSUME NEW h \in Goroutine, Push(h), call'[g] # call[g]
      PROVE  CallBuilds(g)'
  <2>1. h = g
    BY <1>4 DEF Push, TypeOK
  <2> QED BY <1>4, <2>1, PushBuilds
<1>5. ASSUME NEW h \in Goroutine, Return(h), call'[g] # call[g]
      PROVE  CallBuilds(g)'
  <2>1. call'[g] = Idle
    BY <1>5 DEF Return, TypeOK
  <2> QED BY <2>1 DEF CallBuilds, Idle
<1>6. CASE UNCHANGED call
  BY <1>1, <1>6
<1> QED
  BY <1>1, <1>2, <1>3, <1>4, <1>5, <1>6
  DEF Next, vars, Wrap, WithFirstErr, Link, Join

(* The errors that an Append joins exist. *)
LEMMA BuiltOfIds ==
    ASSUME TypeOK, Acyclic, NEW e \in Ids \cup {Nil}, NEW errs \in Seq(Ids)
    PROVE  Begun(e) \in Seq(Ids) /\ Begun(e) \o errs \in Seq(Ids)
<1>1. Begun(e) \in Seq(Ids)
  <2> DEFINE f == FirstOf(e)
  <2>1. f \in Ids \cup {Nil} /\ Begun(e) \in Seq(Nat)
    BY BegunSeq
  <2>2. CASE f # Nil
    <3>1. f \in Ids /\ Begun(e) = Members(f)
      BY <2>1, <2>2 DEF Begun
    <3> HIDE DEF f
    <3> DEFINE s == Members(f)
    <3>2. \A i \in 1..Len(s) : s[i] \in 1..(f - 1)
      BY <3>1 DEF Acyclic
    <3>3. 1..(f - 1) \subseteq Ids
      BY <3>1, Typing DEF Ids
    <3>4. s \in Seq(Nat)
      BY <2>1, <3>1
    <3> HIDE DEF s
    <3>5. s \in [1..Len(s) -> Ids] /\ Len(s) \in Nat
      BY <3>2, <3>3, <3>4, LenProperties
    <3>6. s \in Seq(Ids)
      BY <3>5, SeqDef
    <3> QED BY <3>1, <3>6 DEF s
  <2>3. CASE f = Nil
    <3>1. Begun(e) = IF e # Nil THEN <<e>> ELSE <<>>
      BY <2>3 DEF Begun
    <3> QED BY <3>1
  <2> QED BY <2>2, <2>3
<1> QED BY <1>1, ConcatProperties

LEMMA AcyclicStep ==
    ASSUME TypeOK, Owned, CallsBuild, Acyclic, [Next]_vars, TypeOK'
    PROVE  Acyclic'
<1> SUFFICES ASSUME NEW n \in Ids', NEW i \in 1..Len(Members(n)')
             PROVE  Members(n)'[i] \in 1..(n - 1)
  BY DEF Acyclic
<1>1. CASE n \in Ids
  BY <1>1, MembersKept DEF Acyclic
<1>2. CASE node'[n].kind # "multi"
  <2>1. Members(n)' = node'[n].kids
    BY <1>2 DEF Members
  <2>2. KidsOK(node[n], n)'
    BY DEF TypeOK, NodeOK
  <2> QED BY <2>1, <2>2 DEF KidsOK
<1>3. CASE n \notin Ids /\ node'[n].kind = "multi"
  <2> DEFINE m == Len(node) + 1
  <2>1. m \in Nat /\ Ids = 1..(m - 1)
    BY Typing DEF Ids
  <2> SUFFICES n = m /\ Members(n)' \in Seq(Ids)
    <3>1. Members(n)'[i] \in Ids
      BY ElementOfSeq
    <3> QED BY <2>1, <3>1
  <2>2. ASSUME NEW errs \in ArgLists, Join(errs)
        PROVE  n = m /\ Members(n)' \in Seq(Ids)
    <3>1. Len(node') = m /\ \A k : k = m => Members(k)' = errs
      BY <2>2, JoinMakes
    <3>2. n = m
      BY <1>3, <2>1, <3>1 DEF Ids
    <3> QED BY <3>1, <3>2, ArgsSeq
  <2>3. ASSUME NEW g \in Goroutine, Return(g)
        PROVE  n = m /\ Members(n)' \in Seq(Ids)
    <3> DEFINE c == call[g]
    <3>1. /\ \A k : k = m => Members(k)' = Begun(c.base) \o c.args
          /\ c.op = "Append" => Len(node') = m
          /\ c.op # "Append" => Len(node') = m + 1 /\ node'[m + 1].kind = "error"
      BY <2>3, ReturnMakes
    <3>2. n = m
      <4>1. n \in 1..Len(node')
        BY DEF Ids
      <4> QED BY <1>3, <2>1, <3>1, <4>1
    <3>3. c.base \in Ids \cup {Nil} /\ c.args \in Seq(Ids)
      BY <2>3 DEF Return, CallsBuild, CallBuilds
    <3> QED BY <3>1, <3>2, <3>3, BuiltOfIds
  <2>4. ASSUME NEW kind, kind # "multi", NEW kids, NEW first,
               node' = Append(node, Plain(kind, kids, first))
        PROVE  FALSE
    <3>1. Len(node') = m /\ node'[m].kind # "multi"
      BY <2>4, PlainMakes
    <3> QED BY <1>3, <2>1, <3>1 DEF Ids
  <2>5. CASE node' = node
    BY <1>3, <2>5 DEF Ids
  <2> QED
    BY ZenonT(40), <2>2, <2>3, <2>4, <2>5
    DEF Next, vars, Wrap, WithFirstErr, Link, CallAppend, CallWithErr, StartAppend, Push
<1> QED BY <1>1, <1>2, <1>3

ValueIInv == IInv /\ CallsBuild /\ Acyclic

LEMMA ValueInductive == Exclusive => (Spec => []ValueIInv)
<1> SUFFICES ASSUME Exclusive PROVE Spec => []ValueIInv
  OBVIOUS
<1>1. Init => ValueIInv
  <2> SUFFICES ASSUME Init PROVE ValueIInv
    OBVIOUS
  <2>1. IInv
    BY InitType DEF IInv
  <2>2. CallsBuild
    BY DEF Init, CallsBuild, CallBuilds, Idle
  <2>3. Acyclic
    <3>1. \A n \in Ids : node[n].kind = "leaf" /\ node[n].kids = <<>>
      BY LeavesAssumption DEF Init, Ids, Plain
    <3>2. \A n \in Ids : Members(n) = <<>>
      BY <3>1 DEF Members
    <3> QED BY <3>2 DEF Acyclic
  <2> QED BY <2>1, <2>2, <2>3 DEF ValueIInv
<1>2. ValueIInv /\ [Next]_vars => ValueIInv'
  BY TypeStep, BuildStep, AcyclicStep DEF ValueIInv, IInv
<1> QED BY <1>1, <1>2, PTL DEF Spec

(* An error is made of errors that are older: there is no cycle to walk into, on
   any interleaving of Append, Join, Link, Wrap and WithErr. *)
THEOREM NoCycles == Exclusive => (Spec => []Acyclic)
BY ValueInductive, PTL DEF ValueIInv

-----------------------------------------------------------------------------
(* What the slices stand for: the substitution of Values. *)
val == [n \in Ids |-> [kind |-> node[n].kind, kids |-> Members(n), first |-> node[n].first]]
ValueRecord == [kind : {"leaf", "wrap", "link", "error", "multi"}, kids : Seq(Nat), first : Nat]

ValMeans ==
    /\ val \in Seq(ValueRecord) /\ Len(val) = Len(node)
    /\ \A n \in Ids : /\ val[n].kind = node[n].kind
                      /\ val[n].kids = Members(n)
                      /\ val[n].first = node[n].first

LEMMA ValSeq == TypeOK => ValMeans
<1> SUFFICES ASSUME TypeOK PROVE ValMeans
  OBVIOUS
<1>1. \A n \in Ids : val[n] = [kind |-> node[n].kind, kids |-> Members(n), first |-> node[n].first]
  BY DEF val
<1>2. ASSUME NEW n \in Ids PROVE val[n] \in ValueRecord
  <2>1. /\ node[n].kind \in {"leaf", "wrap", "link", "error", "multi"}
        /\ node[n].first \in Nat
    BY Typing DEF NodeRecord
  <2>2. Members(n) \in Seq(Nat)
    BY MembersSeq
  <2> DEFINE kids == Members(n)
  <2>3. val[n] = [kind |-> node[n].kind, kids |-> kids, first |-> node[n].first]
    BY <1>1
  <2> HIDE DEF kids
  <2> QED BY <2>1, <2>2, <2>3 DEF ValueRecord, kids
<1>3. val \in [1..Len(node) -> ValueRecord] /\ Len(node) \in Nat
  BY <1>2, Typing DEF val, Ids
<1>4. val \in Seq(ValueRecord)
  BY <1>3, SeqDef
<1>5. Len(val) = Len(node)
  BY <1>3, <1>4, LenProperties
<1>6. ASSUME NEW n \in Ids
      PROVE  /\ val[n].kind = node[n].kind
             /\ val[n].kids = Members(n)
             /\ val[n].first = node[n].first
  <2> DEFINE kids == Members(n)
  <2>1. val[n] = [kind |-> node[n].kind, kids |-> kids, first |-> node[n].first]
    BY <1>1
  <2> HIDE DEF kids
  <2>2. val[n].kind = node[n].kind /\ val[n].kids = kids /\ val[n].first = node[n].first
    BY <2>1
  <2> QED BY <2>2 DEF kids
<1> QED BY <1>4, <1>5, <1>6 DEF ValMeans

LEMMA ValSeqNext == TypeOK' => ValMeans'
BY ValSeq, PTL

(* A step keeps the values there are and adds those of the errors it makes. *)
LEMMA OldValues ==
    ASSUME TypeOK, Owned, [Next]_vars
    PROVE  \A n \in Ids : n \in Ids' /\ val'[n] = val[n]
<1> SUFFICES ASSUME NEW n \in Ids PROVE n \in Ids' /\ val'[n] = val[n]
  OBVIOUS
<1>1. n \in Ids' /\ node'[n] = node[n] /\ Members(n)' = Members(n)
  BY StepKeeps, MembersKept
<1>2. val[n] = [kind |-> node[n].kind, kids |-> Members(n), first |-> node[n].first]
  BY DEF val
<1>3. val'[n] = [kind |-> node'[n].kind, kids |-> Members(n)', first |-> node'[n].first]
  BY <1>1 DEF val
<1> QED BY <1>1, <1>2, <1>3

LEMMA SameValues ==
    ASSUME TypeOK, Owned, [Next]_vars, TypeOK', node' = node
    PROVE  val' = val
<1>1. val \in Seq(ValueRecord) /\ val' \in Seq(ValueRecord) /\ Len(val) = Len(val')
  BY ValSeq, ValSeqNext DEF ValMeans
<1>2. \A i \in 1..Len(val) : val[i] = val'[i]
  BY ValSeq, OldValues DEF ValMeans, Ids
<1> QED BY <1>1, <1>2, SeqEqual

LEMMA OneMore ==
    ASSUME TypeOK, Owned, [Next]_vars, TypeOK', NEW m, m = Len(node) + 1, Len(node') = m,
           NEW kind, NEW kids, NEW first,
           node'[m].kind = kind, node'[m].first = first, Members(m)' = kids
    PROVE  val' = Append(val, [kind |-> kind, kids |-> kids, first |-> first])
<1> DEFINE v == [kind |-> kind, kids |-> kids, first |-> first]
<1>1. /\ val \in Seq(ValueRecord) /\ Len(val) = Len(node)
      /\ val' \in Seq(ValueRecord) /\ Len(val') = m
  BY ValSeq, ValSeqNext DEF ValMeans
<1>2. m \in Nat /\ m \in 1..m /\ Ids = 1..(m - 1) /\ Ids' = 1..m
  BY Typing DEF Ids
<1>3. val'[m] = v
  BY <1>2 DEF val
<1>4. v \in ValueRecord
  BY <1>1, <1>2, <1>3, ElementOfSeq
<1> HIDE DEF v
<1>5. /\ Append(val, v) \in Seq(ValueRecord) /\ Len(Append(val, v)) = m
      /\ \A i \in 1..Len(val) : Append(val, v)[i] = val[i]
      /\ Append(val, v)[m] = v
  BY <1>1, <1>4, AppendSeq
<1>6. \A i \in 1..m : val'[i] = Append(val, v)[i]
  <2> SUFFICES ASSUME NEW i \in 1..m PROVE val'[i] = Append(val, v)[i]
    OBVIOUS
  <2>1. i = m \/ i \in 1..(m - 1)
    BY <1>2
  <2> QED BY <1>1, <1>2, <1>3, <1>5, <2>1, OldValues DEF Ids
<1>7. val' = Append(val, v)
  BY <1>1, <1>5, <1>6, SeqEqual
<1> QED BY <1>7 DEF v

LEMMA TwoMore ==
    ASSUME TypeOK, Owned, [Next]_vars, TypeOK', NEW m, m = Len(node) + 1, Len(node') = m + 1
    PROVE  val' = val \o <<[kind |-> node'[m].kind, kids |-> Members(m)',
                            first |-> node'[m].first],
                           [kind |-> node'[m + 1].kind, kids |-> Members(m + 1)',
                            first |-> node'[m + 1].first]>>
<1> DEFINE v == [kind |-> node'[m].kind, kids |-> Members(m)', first |-> node'[m].first]
           w == [kind |-> node'[m + 1].kind, kids |-> Members(m + 1)',
                 first |-> node'[m + 1].first]
<1>1. /\ val \in Seq(ValueRecord) /\ Len(val) = Len(node)
      /\ val' \in Seq(ValueRecord) /\ Len(val') = m + 1
  BY ValSeq, ValSeqNext DEF ValMeans
<1>2. /\ m \in Nat /\ m \in 1..(m + 1) /\ m + 1 \in 1..(m + 1)
      /\ Ids = 1..(m - 1) /\ Ids' = 1..(m + 1)
  BY Typing DEF Ids
<1>3. val'[m] = v /\ val'[m + 1] = w
  BY <1>2 DEF val
<1>4. v \in ValueRecord /\ w \in ValueRecord
  BY <1>1, <1>2, <1>3, ElementOfSeq
<1> HIDE DEF v, w
<1> DEFINE t == val \o <<v, w>>
<1>5. <<v, w>> \in Seq(ValueRecord) /\ Len(<<v, w>>) = 2 /\ <<v, w>>[1] = v /\ <<v, w>>[2] = w
  BY <1>4
<1>6. t \in Seq(ValueRecord) /\ Len(t) = m + 1
  BY <1>1, <1>2, <1>5, Typing, ConcatProperties
<1>7. \A i \in 1..(m + 1) : val'[i] = t[i]
  <2> SUFFICES ASSUME NEW i \in 1..(m + 1) PROVE val'[i] = t[i]
    OBVIOUS
  <2>1. CASE i \in 1..(m - 1)
    <3>1. i \in 1..Len(val) /\ i \in Ids
      BY <1>1, <1>2, <2>1, Typing
    <3>2. t[i] = val[i]
      BY <1>1, <1>5, <3>1, ConcatPrefix
    <3> QED BY <3>1, <3>2, OldValues
  <2>2. CASE i = m
    <3>1. i = Len(val) + 1 /\ 1 \in 1..Len(<<v, w>>)
      BY <1>1, <1>5, <2>2
    <3>2. t[i] = v
      BY <1>1, <1>5, <3>1, ConcatNth
    <3> QED BY <1>3, <2>2, <3>2
  <2>3. CASE i = m + 1
    <3>1. i = Len(val) + 2 /\ 2 \in 1..Len(<<v, w>>)
      BY <1>1, <1>2, <1>5, <2>3, Typing
    <3>2. t[i] = w
      BY <1>1, <1>5, <3>1, ConcatNth
    <3> QED BY <1>3, <2>3, <3>2
  <2>4. i \in 1..(m - 1) \/ i = m \/ i = m + 1
    BY <1>2
  <2> QED BY <2>1, <2>2, <2>3, <2>4
<1> HIDE DEF t
<1>8. val' = t
  BY <1>1, <1>6, <1>7, SeqEqual
<1> QED BY <1>8 DEF t, v, w

-----------------------------------------------------------------------------
(* The state of ErrorValues, read over val. *)
LEMMA ValuesIds ==
    ASSUME TypeOK
    PROVE  Values!Ids = Ids /\ Values!ArgLists = ArgLists
<1>1. Values!Ids = 1..Len(val)
  BY DEF Values!Ids, val
<1>2. Values!Ids = Ids
  BY <1>1, ValSeq DEF ValMeans, Ids
<1> QED BY <1>2 DEF Values!ArgLists, ArgLists

LEMMA ValuesAppended ==
    ASSUME TypeOK, NEW e \in Ids \cup {Nil}, NEW errs \in Seq(Nat)
    PROVE  /\ Values!FirstOf(e) = FirstOf(e)
           /\ Values!Appended(e, errs) = Begun(e) \o errs
<1>1. Values!FirstOf(e) = IF e = Nil THEN Nil ELSE val[e].first
  BY DEF Values!FirstOf, Values!Nil, Nil, val
<1>2. Values!FirstOf(e) = FirstOf(e)
  BY <1>1, ValSeq DEF ValMeans, FirstOf
<1> DEFINE f == FirstOf(e)
<1>3. Values!Appended(e, errs) =
         IF f # Nil THEN val[f].kids \o errs ELSE IF e # Nil THEN <<e>> \o errs ELSE errs
  BY <1>2 DEF Values!Appended, Values!Nil, Nil, val
<1>4. f \in Ids \cup {Nil}
  BY BegunSeq
<1>5. f # Nil => val[f].kids = Members(f)
  <2> HIDE DEF f
  <2> QED BY <1>4, ValSeq DEF ValMeans
<1>6. <<>> \o errs = errs
  BY ConcatEmptySeq
<1> QED BY <1>2, <1>3, <1>5, <1>6 DEF Begun

(* The actions of ErrorValues, read over val. *)
LEMMA ValuesPlain ==
    ASSUME NEW e, NEW c
    PROVE  /\ val' = Append(val, [kind |-> "wrap", kids |-> <<e>>, first |-> val[e].first])
                 => Values!Wrap(e)
           /\ val' = Append(val, [kind |-> "error", kids |-> <<e>>, first |-> val[e].first])
                 => Values!WithFirstErr(e)
           /\ val' = Append(val, [kind |-> "link", kids |-> <<e, c>>,
                                  first |-> IF val[e].first # Nil THEN val[e].first
                                            ELSE val[c].first])
                 => Values!Link(e, c)
<1>1. val' = Append(val, [kind |-> "wrap", kids |-> <<e>>, first |-> val[e].first])
         => Values!Wrap(e)
  BY DEF Values!Wrap, Values!Val, val
<1>2. val' = Append(val, [kind |-> "error", kids |-> <<e>>, first |-> val[e].first])
         => Values!WithFirstErr(e)
  BY DEF Values!WithFirstErr, Values!Val, val
<1>3. val' = Append(val, [kind |-> "link", kids |-> <<e, c>>,
                          first |-> IF val[e].first # Nil THEN val[e].first
                                    ELSE val[c].first])
         => Values!Link(e, c)
  BY DEF Values!Link, Values!Val, Values!Nil, Nil, val
<1> QED BY <1>1, <1>2, <1>3

LEMMA ValuesMulti ==
    ASSUME NEW m, m = Len(val) + 1, NEW errs
    PROVE  Values!Multi(errs) = [kind |-> "multi", kids |-> errs, first |-> m]
BY DEF Values!Multi, Values!Val, val

LEMMA ValuesJoin ==
    ASSUME NEW errs, errs # <<>>, val' = Append(val, Values!Multi(errs))
    PROVE  Values!Join(errs)
BY DEF Values!Join, val

LEMMA ValuesAppendTo ==
    ASSUME NEW e, NEW errs, NEW kids, kids = Values!Appended(e, errs),
           Values!FirstOf(e) # Values!Nil \/ Len(kids) > 1,
           val' = Append(val, Values!Multi(kids))
    PROVE  Values!AppendTo(e, errs)
BY DEF Values!AppendTo, val

LEMMA ValuesWithErr ==
    ASSUME NEW e, NEW c, NEW m, m = Len(val) + 1,
           val' = val \o <<Values!Multi(Values!Appended(e, <<c>>)),
                           [kind |-> "error", kids |-> <<m>>, first |-> m]>>
    PROVE  Values!WithErr(e, c)
BY DEF Values!WithErr, Values!Val, val

LEMMA PlainValue ==
    ASSUME TypeOK, Owned, [Next]_vars, TypeOK', NEW e \in Ids,
           Wrap(e) \/ WithFirstErr(e)
    PROVE  Values!Next
<1> DEFINE m == Len(node) + 1
<1>1. val[e].first = node[e].first
  BY ValSeq DEF ValMeans
<1>2. ASSUME NEW kind \in {"wrap", "error"},
             node' = Append(node, Plain(kind, <<e>>, node[e].first))
      PROVE  val' = Append(val, [kind |-> kind, kids |-> <<e>>, first |-> val[e].first])
  <2>1. \A k : k = m => /\ Len(node') = k
                        /\ node'[k].kind = kind /\ node'[k].first = node[e].first
                        /\ Members(k)' = <<e>>
    BY <1>2, PlainMakes
  <2> QED BY <1>1, <2>1, OneMore
<1>3. Values!Wrap(e) \/ Values!WithFirstErr(e)
  BY <1>2, ValuesPlain DEF Wrap, WithFirstErr
<1> QED BY <1>3, ValuesIds DEF Values!Next

LEMMA LinkValue ==
    ASSUME TypeOK, Owned, [Next]_vars, TypeOK', NEW e \in Ids, NEW c \in Ids, Link(e, c)
    PROVE  Values!Next
<1> DEFINE m == Len(node) + 1
           first == IF node[e].first # Nil THEN node[e].first ELSE node[c].first
<1>1. val[e].first = node[e].first /\ val[c].first = node[c].first
  BY ValSeq DEF ValMeans
<1>2. node' = Append(node, Plain("link", <<e, c>>, first))
  BY DEF Link
<1> HIDE DEF first
<1>3. \A k : k = m => /\ Len(node') = k
                      /\ node'[k].kind = "link" /\ node'[k].first = first
                      /\ Members(k)' = <<e, c>>
  BY <1>2, PlainMakes
<1>4. val' = Append(val, [kind |-> "link", kids |-> <<e, c>>, first |-> first])
  BY <1>3, OneMore
<1>5. first = IF val[e].first # Nil THEN val[e].first ELSE val[c].first
  BY <1>1 DEF first
<1>6. Values!Link(e, c)
  BY <1>4, <1>5, ValuesPlain
<1> QED BY <1>6, ValuesIds DEF Values!Next

LEMMA JoinValue ==
    ASSUME TypeOK, Owned, [Next]_vars, TypeOK', NEW errs \in ArgLists, Join(errs)
    PROVE  Values!Next
<1> DEFINE m == Len(node) + 1
<1>1. \A k : k = m => /\ Len(node') = k
                      /\ node'[k].kind = "multi" /\ node'[k].first = k
                      /\ Members(k)' = errs
  BY JoinMakes
<1>2. val' = Append(val, [kind |-> "multi", kids |-> errs, first |-> m])
  BY <1>1, OneMore
<1>3. Len(val) + 1 = m /\ errs # <<>>
  BY ValSeq DEF ValMeans, Join
<1> HIDE DEF m
<1>4. Values!Join(errs)
  BY <1>2, <1>3, ValuesMulti, ValuesJoin
<1> QED BY <1>4, ValuesIds DEF Values!Next

LEMMA ReturnValue ==
    ASSUME TypeOK, Owned, CallsBuild, [Next]_vars, TypeOK', NEW g \in Goroutine, Return(g),
           NEW m, m = Len(node) + 1, NEW e, e = call[g].base, NEW errs, errs = call[g].args,
           NEW kids, kids = Begun(e) \o errs
    PROVE  Values!Next
<1> DEFINE c == call[g]
<1>1. /\ e \in Ids \cup {Nil} /\ errs \in Seq(Ids)
      /\ c.op = "Append" => errs \in ArgLists
      /\ c.op = "WithErr" => Len(errs) = 1 /\ e # Nil
      /\ ReturnsMulti(e, errs)
      /\ c.op \in {"Append", "WithErr"}
  <2>1. c.op # "none" /\ c \in CallRecord
    BY Typing DEF Return
  <2> QED BY <2>1 DEF CallsBuild, CallBuilds, CallRecord
<1>2. /\ node'[m].kind = "multi" /\ node'[m].first = m /\ Members(m)' = kids
      /\ c.op = "Append" => Len(node') = m
      /\ c.op # "Append" =>
            /\ Len(node') = m + 1
            /\ node'[m + 1].kind = "error" /\ node'[m + 1].first = m
            /\ Members(m + 1)' = <<m>>
  BY ReturnMakes
<1>3. errs \in Seq(Nat) /\ Begun(e) \in Seq(Nat)
  BY <1>1, BegunSeq, Typing, SeqMonotonic
<1>4. Values!FirstOf(e) = FirstOf(e) /\ Values!Appended(e, errs) = kids
  BY <1>1, <1>3, ValuesAppended
<1>5. Len(val) + 1 = m
  BY ValSeq DEF ValMeans
<1>6. CASE c.op = "Append"
  <2>1. val' = Append(val, Values!Multi(kids))
    <3>1. val' = Append(val, [kind |-> "multi", kids |-> kids, first |-> m])
      BY ZenonT(40), <1>2, <1>6, OneMore
    <3> QED BY <1>5, <3>1, ValuesMulti
  <2>2. FirstOf(e) # Nil \/ Len(kids) > 1
    <3> SUFFICES ASSUME FirstOf(e) = Nil PROVE Len(kids) > 1
      OBVIOUS
    <3>1. Len(errs) + (IF e = Nil THEN 0 ELSE 1) > 1
      BY <1>1 DEF ReturnsMulti
    <3>2. Len(kids) = Len(Begun(e)) + Len(errs) /\ Len(errs) \in Nat
      BY <1>3, ConcatProperties, LenProperties
    <3>3. Begun(e) = IF e = Nil THEN <<>> ELSE <<e>>
      BY DEF Begun
    <3>4. Len(Begun(e)) = IF e = Nil THEN 0 ELSE 1
      BY <3>3
    <3>5. CASE e = Nil
      BY <3>1, <3>2, <3>4, <3>5
    <3>6. CASE e # Nil
      BY <3>1, <3>2, <3>4, <3>6
    <3> QED BY <3>5, <3>6
  <2>3. Values!AppendTo(e, errs)
    <3> QED BY <1>4, <2>1, <2>2, ValuesAppendTo DEF Values!Nil, Nil
  <2>4. e \in Values!Ids \cup {Values!Nil} /\ errs \in Values!ArgLists
    BY <1>1, <1>6, ValuesIds DEF Values!Nil, Nil
  <2> QED BY <2>3, <2>4 DEF Values!Next
<1>7. CASE c.op = "WithErr"
  <2>1. val' = val \o <<Values!Multi(kids), [kind |-> "error", kids |-> <<m>>, first |-> m]>>
    <3>2. val' = val \o <<[kind |-> "multi", kids |-> kids, first |-> m],
                          [kind |-> "error", kids |-> <<m>>, first |-> m]>>
      BY <1>2, <1>7, TwoMore
    <3>3. Values!Multi(kids) = [kind |-> "multi", kids |-> kids, first |-> m]
      BY <1>5, ValuesMulti
    <3> QED BY <3>2, <3>3
  <2>2. errs = <<errs[1]>> /\ errs[1] \in Ids /\ e \in Ids
    <3>1. errs \in Seq(Ids) /\ Len(errs) = 1 /\ e \in Ids
      BY <1>1, <1>7
    <3>2. errs[1] \in Ids
      BY <3>1, ElementOfSeq
    <3>3. <<errs[1]>> \in Seq(Ids) /\ Len(<<errs[1]>>) = 1
      BY <3>2
    <3>4. errs = <<errs[1]>>
      BY <3>1, <3>3, SeqEqual
    <3> QED BY <3>1, <3>2, <3>4
  <2>3. Values!WithErr(e, errs[1])
    <3> QED BY <1>4, <1>5, <2>1, <2>2, ValuesWithErr
  <2> QED BY <2>2, <2>3, ValuesIds DEF Values!Next
<1> QED BY <1>1, <1>6, <1>7

LEMMA ValueStep ==
    ASSUME TypeOK, Owned, CallsBuild, [Next]_vars, TypeOK'
    PROVE  Values!Next \/ val' = val
<1>1. ASSUME NEW e \in Ids, Wrap(e) \/ WithFirstErr(e) PROVE Values!Next
  BY <1>1, PlainValue
<1>2. ASSUME NEW e \in Ids, NEW c \in Ids, Link(e, c) PROVE Values!Next
  BY <1>2, LinkValue
<1>3. ASSUME NEW errs \in ArgLists, Join(errs) PROVE Values!Next
  BY <1>3, JoinValue
<1>4. ASSUME NEW g \in Goroutine, Return(g) PROVE Values!Next
  BY <1>4, ReturnValue
<1>5. CASE node' = node
  BY <1>5, SameValues
<1> QED
  BY ZenonT(40), <1>1, <1>2, <1>3, <1>4, <1>5
  DEF Next, vars, CallAppend, CallWithErr, StartAppend, Push

(* Joined errors behave as immutable values: each call that returns makes the
   value that Wrap, Link, Join, Append or WithErr promises, and the steps in
   between, on arrays that other errors share, change none. *)
THEOREM SlicesImplementValues == Exclusive => (Spec => ImplementsValues)
<1> SUFFICES ASSUME Exclusive PROVE Spec => ImplementsValues
  OBVIOUS
<1>1. Init => Values!Init
  <2> SUFFICES ASSUME Init PROVE Values!Init
    OBVIOUS
  <2>1. Len(node) = Leaves /\ Ids = 1..Leaves
    BY LeavesAssumption DEF Init, Ids
  <2>2. \A n \in Ids : node[n] = Plain("leaf", <<>>, Nil)
    BY <2>1 DEF Init
  <2>3. \A n \in Ids : /\ node[n].kind = "leaf" /\ Members(n) = <<>>
                       /\ node[n].first = Nil
    BY <2>2 DEF Plain, Members
  <2> QED BY <2>1, <2>3 DEF Values!Init, Values!Val, Values!Nil, Nil
<1>2. ValueIInv /\ ValueIInv' /\ [Next]_vars => [Values!Next]_val
  BY ValueStep DEF ValueIInv, IInv
<1> QED BY <1>1, <1>2, ValueInductive, PTL DEF Spec, ImplementsValues, Values!Spec, val

-----------------------------------------------------------------------------
(* What stays reachable: Reach is the least set of errors closed under membership. *)

Below(n) == ToSet(Members(n))

LEMMA BelowOlder ==
    ASSUME TypeOK, Acyclic, NEW n \in Ids
    PROVE  Below(n) \subseteq 1..(n - 1) /\ Below(n) \subseteq Ids
<1> DEFINE s == Members(n)
<1>1. \A i \in 1..Len(s) : s[i] \in 1..(n - 1)
  BY DEF Acyclic
<1>2. DOMAIN s = 1..Len(s)
  BY MembersSeq, LenProperties
<1>3. 1..(n - 1) \subseteq Ids
  BY Typing DEF Ids
<1> QED BY <1>1, <1>2, <1>3 DEF Below, ToSet

(* The function that Reach is defined by exists. *)
LEMMA ReachSteps ==
    ASSUME TypeOK, Acyclic, NEW n \in Ids
    PROVE  \E step : /\ step[0] = {n}
                     /\ \A k \in 1..Len(node) :
                           step[k] = step[k - 1] \cup UNION {Below(m) : m \in step[k - 1]}
                     /\ Reach(n) = step[Len(node)]
<1> DEFINE N == Len(node)
           S == SUBSET Ids
           Next1(X) == X \cup UNION {Below(m) : m \in X}
           Fn(g) == [k \in 0..N |-> IF k = 0 THEN {n}
                        ELSE g[k - 1] \cup UNION {ToSet(Members(m)) : m \in g[k - 1]}]
           step == CHOOSE g : g = Fn(g)
<1>1. N \in Nat /\ {n} \in S
  BY Typing
<1>2. ASSUME NEW X \in S PROVE Next1(X) \in S
  BY BelowOlder
<1>3. \E f : f = Fn(f)
  <2> DEFINE d == [k \in 1..N |-> [X \in S |-> Next1(X)]]
  <2>1. d \in [1..N -> [S -> S]]
    BY <1>2
  <2>2. \A k \in 1..N : \A X \in S : d[k][X] = Next1(X)
    OBVIOUS
  <2> HIDE DEF d
  <2>3. PICK f \in [0..N -> S] : f[0] = {n} /\ \A k \in 1..N : f[k] = d[k][f[k - 1]]
    <3> DEFINE c == {n}
    <3>1. N \in Nat /\ c \in S
      BY <1>1
    <3> HIDE DEF c, S, N
    <3>2. \E f \in [0..N -> S] : f[0] = c /\ \A k \in 1..N : f[k] = d[k][f[k - 1]]
      BY <2>1, <3>1, StepFunction
    <3> QED BY <3>2 DEF c
  <2>4. ASSUME NEW k \in 0..N, k # 0
        PROVE  f[k] = f[k - 1] \cup UNION {ToSet(Members(m)) : m \in f[k - 1]}
    <3>1. k \in 1..N /\ k - 1 \in 0..N
      BY <1>1, <2>4
    <3>2. f[k] = d[k][f[k - 1]] /\ f[k - 1] \in S
      BY <2>3, <3>1
    <3> QED BY <2>2, <3>1, <3>2 DEF Below
  <2>5. f = Fn(f)
    BY <2>3, <2>4
  <2> QED BY <2>5
<1>4. step = Fn(step)
  <2> HIDE DEF Fn
  <2> QED BY <1>3, Zenon
<1>5. Reach(n) = step[N]
  BY Zenon DEF Reach
<1> HIDE DEF step
<1>6. step[0] = {n}
  BY <1>1, <1>4
<1>7. ASSUME NEW k \in 1..N
      PROVE  step[k] = step[k - 1] \cup UNION {Below(m) : m \in step[k - 1]}
  <2>1. k \in 0..N /\ k # 0
    BY <1>1
  <2> QED BY <1>4, <2>1 DEF Below
<1> QED BY <1>5, <1>6, <1>7

(* Reach(n) is the least set that holds n and the members of what it holds. The
   walk ends within as many rounds as there are errors: what round k adds is at
   least k older than n. *)
LEMMA ReachClosure ==
    ASSUME TypeOK, Acyclic, NEW n \in Ids
    PROVE  /\ n \in Reach(n) /\ Reach(n) \subseteq 1..n
           /\ \A m \in Reach(n) : Below(m) \subseteq Reach(n)
           /\ \A X : n \in X /\ (\A m \in X : Below(m) \subseteq X) => Reach(n) \subseteq X
<1> DEFINE N == Len(node)
<1>1. N \in Nat /\ n \in 1..N /\ Ids = 1..N
  BY Typing DEF Ids
<1>2. PICK step : /\ step[0] = {n}
                  /\ \A k \in 1..N :
                        step[k] = step[k - 1] \cup UNION {Below(m) : m \in step[k - 1]}
                  /\ Reach(n) = step[N]
  BY ReachSteps
<1>3. ASSUME NEW k \in 1..N
      PROVE  /\ step[k] = step[k - 1] \cup UNION {Below(m) : m \in step[k - 1]}
             /\ step[k - 1] \subseteq step[k]
  BY <1>2
<1> DEFINE Held(k) == n \in step[k] /\ step[k] \subseteq 1..n
<1>4. \A k \in 0..N : Held(k)
  <2> DEFINE T == {k \in 0..N : Held(k)}
  <2>1. ASSUME NEW k \in 0..N, \A j \in 0..(k - 1) : j \in T PROVE k \in T
    <3>1. CASE k = 0
      BY <1>1, <1>2, <3>1
    <3>2. CASE k # 0
      <4>1. k \in 1..N /\ k - 1 \in 0..(k - 1)
        BY <1>1, <3>2
      <4>2. Held(k - 1)
        BY <2>1, <4>1
      <4>3. \A m \in step[k - 1] : Below(m) \subseteq 1..n
        <5> SUFFICES ASSUME NEW m \in step[k - 1] PROVE Below(m) \subseteq 1..n
          OBVIOUS
        <5>1. m \in 1..n /\ m \in Ids
          BY <1>1, <4>2
        <5>2. 1..(m - 1) \subseteq 1..n
          BY <1>1, <5>1
        <5> QED BY <5>1, <5>2, BelowOlder
      <4> QED BY <1>3, <4>1, <4>2, <4>3
    <3> QED BY <3>1, <3>2
  <2> HIDE DEF T
  <2>2. 0..N \subseteq T
    BY <1>1, <2>1, IntervalInduction
  <2> QED BY <2>2 DEF T
<1> DEFINE New(k) == \A m \in step[k] : m \in step[k - 1] \/ m <= n - k
<1>5. \A k \in 1..N : New(k)
  <2> DEFINE T == {k \in 1..N : New(k)}
  <2>1. ASSUME NEW k \in 1..N, \A j \in 1..(k - 1) : j \in T PROVE k \in T
    <3> SUFFICES ASSUME NEW m \in step[k], m \notin step[k - 1] PROVE m <= n - k
      OBVIOUS
    <3>1. PICK p \in step[k - 1] : m \in Below(p)
      BY <1>3
    <3>2. p \in 1..n /\ p \in Ids
      BY <1>1, <1>4
    <3>3. m \in 1..(p - 1)
      BY <3>1, <3>2, BelowOlder
    <3>4. CASE k = 1
      BY <1>1, <1>2, <3>1, <3>2, <3>3, <3>4
    <3>5. CASE k # 1
      <4>1. k - 1 \in 1..N /\ k - 1 \in 1..(k - 1)
        BY <1>1, <3>5
      <4>2. New(k - 1)
        BY <2>1, <4>1
      <4>3. p \notin step[k - 2]
        <5>1. p \in step[k - 1 - 1] => Below(p) \subseteq step[k - 1]
          BY <1>3, <4>1
        <5>2. k - 1 - 1 = k - 2
          BY <1>1
        <5> QED BY <3>1, <5>1, <5>2
      <4>4. p <= n - (k - 1)
        BY <1>1, <4>2, <4>3
      <4> QED BY <1>1, <3>2, <3>3, <4>4
    <3> QED BY <3>4, <3>5
  <2> HIDE DEF T
  <2>2. 1..N \subseteq T
    BY <1>1, <2>1, IntervalInduction
  <2> QED BY <2>2 DEF T
<1>6. \A m \in Reach(n) : Below(m) \subseteq Reach(n)
  <2> SUFFICES ASSUME NEW m \in step[N] PROVE Below(m) \subseteq step[N]
    BY <1>2
  <2>1. N \in 1..N /\ N - 1 \in 0..N
    BY <1>1
  <2>2. CASE m \in step[N - 1]
    BY <1>3, <2>1, <2>2
  <2>3. CASE m \notin step[N - 1]
    <3>1. m <= n - N
      BY <1>5, <2>1, <2>3
    <3>2. m \in 1..n
      BY <1>1, <1>4, <2>1
    <3>3. m = 0 \/ FALSE
      BY <1>1, <3>1, <3>2
    <3> QED BY <3>2, <3>3
  <2> QED BY <2>2, <2>3
<1>7. ASSUME NEW X, n \in X, \A m \in X : Below(m) \subseteq X
      PROVE  Reach(n) \subseteq X
  <2> DEFINE T == {k \in 0..N : step[k] \subseteq X}
  <2>1. ASSUME NEW k \in 0..N, \A j \in 0..(k - 1) : j \in T PROVE k \in T
    <3>1. CASE k = 0
      BY <1>1, <1>2, <1>7, <3>1
    <3>2. CASE k # 0
      <4>1. k \in 1..N /\ k - 1 \in 0..(k - 1)
        BY <1>1, <3>2
      <4>2. step[k - 1] \subseteq X
        BY <2>1, <4>1
      <4> QED BY <1>3, <1>7, <4>1, <4>2
    <3> QED BY <3>1, <3>2
  <2> HIDE DEF T
  <2>2. 0..N \subseteq T
    BY <1>1, <2>1, IntervalInduction
  <2>3. N \in T
    BY <1>1, <2>2
  <2> QED BY <1>2, <2>3 DEF T
<1> QED
  <2>1. n \in Reach(n) /\ Reach(n) \subseteq 1..n
    BY <1>1, <1>2, <1>4
  <2> QED BY <1>6, <1>7, <2>1

(* What is found below an error that n reaches is found below n. *)
LEMMA ReachNested ==
    ASSUME TypeOK, Acyclic, NEW n \in Ids, NEW m \in Reach(n)
    PROVE  Reach(m) \subseteq Reach(n)
<1>1. Reach(n) \subseteq 1..n /\ \A p \in Reach(n) : Below(p) \subseteq Reach(n)
  BY ReachClosure
<1>2. m \in Ids
  BY <1>1, Typing DEF Ids
<1>3. \A X : m \in X /\ (\A p \in X : Below(p) \subseteq X) => Reach(m) \subseteq X
  BY <1>2, ReachClosure
<1> QED BY <1>1, <1>3

-----------------------------------------------------------------------------
(* The result of a finished call holds each argument, Append's as a member and
   WithErr's as a member of its cause. *)
Holds(n, e) == e \in Below(n) \/ \E m \in Below(n) : e \in Below(m)
ResultHolds(d) ==
    /\ d.res \in Ids
    /\ \A i \in 1..Len(d.args) : d.args[i] \in Ids /\ Holds(d.res, d.args[i])
ResultsHold == \A d \in done : ResultHolds(d)

LEMMA HoldsReached ==
    ASSUME TypeOK, Acyclic, NEW n \in Ids, NEW e, Holds(n, e)
    PROVE  e \in Reach(n)
BY ReachClosure DEF Holds

(* The record of a finished call stays true: no member of its result changes. *)
LEMMA OldResult ==
    ASSUME TypeOK, Owned, Acyclic, [Next]_vars, NEW d, ResultHolds(d)
    PROVE  ResultHolds(d)'
<1>1. Ids \subseteq Ids' /\ \A n \in Ids : Below(n)' = Below(n)
  BY IdsGrow, MembersKept DEF Below
<1>2. \A m \in Below(d.res) : m \in Ids
  BY BelowOlder DEF ResultHolds
<1> SUFFICES ASSUME NEW e \in Ids, Holds(d.res, e) PROVE Holds(d.res, e)'
  BY <1>1 DEF ResultHolds
<1>3. Below(d.res)' = Below(d.res)
  BY <1>1 DEF ResultHolds
<1> QED BY <1>1, <1>2, <1>3 DEF Holds

LEMMA NewResult ==
    ASSUME TypeOK, CallsBuild, TypeOK', NEW g \in Goroutine, Return(g),
           NEW m, m = Len(node) + 1, NEW r, r = Len(node'),
           NEW args, args = call[g].args
    PROVE  /\ r \in Ids'
           /\ \A i \in 1..Len(args) : args[i] \in Ids /\ Holds(r, args[i])'
<1> DEFINE c == call[g]
           b == Begun(c.base)
<1>1. c.base \in Ids \cup {Nil} /\ args \in Seq(Ids)
  BY DEF Return, CallsBuild, CallBuilds
<1>2. /\ Members(m)' = b \o args
      /\ c.op = "Append" => Len(node') = m
      /\ c.op # "Append" => Len(node') = m + 1 /\ Members(m + 1)' = <<m>>
  BY ReturnMakes
<1>3. m \in Nat /\ m # 0
  BY Typing
<1>4. r \in Ids'
  BY <1>2, <1>3 DEF Ids
<1>5. ASSUME NEW i \in 1..Len(args) PROVE args[i] \in Ids /\ args[i] \in Below(m)'
  <2>1. b \in Seq(Nat) /\ args \in Seq(Nat) /\ Len(b) \in Nat /\ Len(args) \in Nat
    <3>1. Ids \subseteq Nat
      BY Typing
    <3> QED BY <1>1, <3>1, BegunSeq, SeqMonotonic, LenProperties
  <2> HIDE DEF b
  <2>2. (b \o args)[Len(b) + i] = args[i]
    BY <2>1, ConcatNth
  <2>3. Len(b) + i \in DOMAIN (b \o args)
    <3>1. Len(b \o args) = Len(b) + Len(args) /\ b \o args \in Seq(Nat)
      BY <2>1, ConcatProperties
    <3>2. DOMAIN (b \o args) = 1..(Len(b) + Len(args))
      BY <3>1, LenProperties
    <3> QED BY <2>1, <3>2
  <2>4. args[i] \in ToSet(b \o args)
    BY <2>2, <2>3 DEF ToSet
  <2> QED BY <1>1, <1>2, <2>4, ElementOfSeq DEF Below
<1>6. CASE c.op = "Append"
  <2>1. r = m
    BY <1>2, <1>6
  <2> QED BY <1>4, <1>5, <2>1 DEF Holds
<1>7. CASE c.op # "Append"
  <2>1. r = m + 1 /\ m \in Below(m + 1)'
    BY <1>2, <1>7 DEF Below, ToSet
  <2> QED BY <1>4, <1>5, <2>1 DEF Holds
<1> QED BY <1>6, <1>7

LEMMA ResultStep ==
    ASSUME TypeOK, Owned, CallsBuild, Acyclic, ResultsHold, [Next]_vars, TypeOK'
    PROVE  ResultsHold'
<1> SUFFICES ASSUME NEW d \in done' PROVE ResultHolds(d)'
  BY DEF ResultsHold
<1>1. CASE d \in done
  BY <1>1, OldResult DEF ResultsHold
<1>2. ASSUME NEW g \in Goroutine, Return(g), d \notin done PROVE ResultHolds(d)'
  <2> DEFINE args == call[g].args
  <2>1. d.res = Len(node') /\ d.args = args
    BY <1>2 DEF Return
  <2>2. \A r, s : r = Len(node') /\ s = args
           => /\ r \in Ids'
              /\ \A i \in 1..Len(s) : s[i] \in Ids /\ Holds(r, s[i])'
    BY <1>2, NewResult
  <2>3. Ids \subseteq Ids'
    BY IdsGrow
  <2> HIDE DEF args
  <2> QED BY <2>1, <2>2, <2>3 DEF ResultHolds
<1>3. CASE done' = done
  BY <1>1, <1>3
<1> QED
  BY ZenonT(40), <1>1, <1>2, <1>3
  DEF Next, vars, Wrap, WithFirstErr, Link, Join, CallAppend, CallWithErr, StartAppend, Push

ReachIInv == ValueIInv /\ ResultsHold

LEMMA ReachInductive == Exclusive => (Spec => []ReachIInv)
<1> SUFFICES ASSUME Exclusive PROVE Spec => []ReachIInv
  OBVIOUS
<1>1. Init => ResultsHold
  BY DEF Init, ResultsHold
<1>2. ValueIInv /\ ValueIInv' /\ ResultsHold /\ [Next]_vars => ResultsHold'
  BY ResultStep DEF ValueIInv, IInv
<1> QED BY <1>1, <1>2, ValueInductive, PTL DEF Spec, ReachIInv

(* Every error handed to Append or WithErr is found in what the call returned, at
   any time after: whatever runs then, on the same error or beside it, no error
   that Is could be asked about is lost. *)
THEOREM AddedErrorsReachable == Exclusive => (Spec => []AddedStaysReachable)
<1> SUFFICES ASSUME Exclusive PROVE Spec => []AddedStaysReachable
  OBVIOUS
<1>1. ReachIInv => AddedStaysReachable
  <2> SUFFICES ASSUME ReachIInv, NEW d \in done, NEW i \in 1..Len(d.args)
               PROVE  Targets(d.args[i]) \subseteq Reach(d.res)
    BY DEF AddedStaysReachable
  <2>1. TypeOK /\ Acyclic
    BY DEF ReachIInv, ValueIInv, IInv
  <2>2. d.res \in Ids /\ d.args[i] \in Reach(d.res)
    BY <2>1, HoldsReached DEF ReachIInv, ResultsHold, ResultHolds
  <2>3. Reach(d.args[i]) \subseteq Reach(d.res)
    BY <2>1, <2>2, ReachNested
  <2> QED BY <2>3 DEF Targets
<1> QED BY <1>1, ReachInductive, PTL

=============================================================================
