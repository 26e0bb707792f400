---------------------------- MODULE AppendSlices ----------------------------
(***************************************************************************)
(* Append, Join and WithErr as the code runs them: a multiError is a slice   *)
(* header over a backing array, and `errTyp = append(errTyp, e)` writes the  *)
(* array the header it found points to whenever that array has room.         *)
(* Goroutines run their calls concurrently, one append at a time.            *)
(*                                                                           *)
(* With Exclusive, a caller uses each MultiError value as the base of one    *)
(* Append (or of one WithErr whose cause holds it): the `err = Append(err,   *)
(* e)` idiom, alone.  Without it, a base may be appended to again and again. *)
(***************************************************************************)
EXTENDS Naturals, Sequences, FiniteSets, SequencesExt

CONSTANTS
    Goroutine,  \* the goroutines that make calls
    Leaves,     \* number of plain errors that exist at the start
    MaxNodes,   \* bound on the errors of a behaviour
    MaxArgs,    \* bound on the variadic arguments of one call
    Ops,        \* the functions the callers use
    Exclusive   \* whether a MultiError is appended to at most once

ASSUME LeavesAssumption == Leaves \in Nat \ {0}
ASSUME BoundsAssumption == MaxNodes \in Nat /\ MaxArgs \in Nat
ASSUME ExclusiveAssumption == Exclusive \in BOOLEAN
ASSUME OpsAssumption == Ops \subseteq {"Wrap", "Link", "Join", "Append", "WithErr"}

VARIABLES
    node,       \* the errors made so far
    array,      \* the backing arrays: a sequence of slots, Nil where unused
    call,       \* per goroutine, the Append it is running
    extended,   \* history: the multis that were the base of an Append
    done        \* history: what each finished call was given and returned

vars == <<node, array, call, extended, done>>

Nil == 0
Ids == 1..Len(node)

Plain(kind, kids, first) ==
    [kind |-> kind, kids |-> kids, arr |-> 0, len |-> 0, first |-> first]

(* Mutant: the header returned is taken before the last append. *)
MultiShort(id, arr, len) ==
    [kind |-> "multi", kids |-> <<>>, arr |-> arr, len |-> len - 1, first |-> id]
Multi(id, arr, len) ==
    [kind |-> "multi", kids |-> <<>>, arr |-> arr, len |-> len, first |-> id]

(* What errors.As(err, *multiError) finds. A multi matches itself, so what As
   finds below an error never depends on the contents of an array. *)
FirstOf(e) == IF e = Nil THEN Nil ELSE node[e].first

Slots(heap, a) == IF a = 0 THEN <<>> ELSE heap[a]
Members(n) == IF node[n].kind = "multi"
              THEN SubSeq(Slots(array, node[n].arr), 1, node[n].len)
              ELSE node[n].kids

(* The capacity append gives a slice of interfaces that is full. *)
GrowCap(c) == IF c = 0 THEN 1 ELSE 2 * c

(* append(s[:len], x) when the array is full: a copy with room to spare. *)
Grown(slots, len, x) ==
    [i \in 1..GrowCap(Len(slots)) |->
        IF i <= len THEN slots[i] ELSE IF i = len + 1 THEN x ELSE Nil]

(* append(s[:len], x) when it is not: the next slot is written. *)
Written(slots, len, x) == [slots EXCEPT ![len + 1] = x]

Idle == [op |-> "none", base |-> Nil, first |-> Nil, arr |-> 0, len |-> 0,
         args |-> <<>>, next |-> 0]
Busy == {g \in Goroutine : call[g].op # "none"}
ArgLists == UNION {[1..k -> Ids] : k \in 0..MaxArgs}

(* Room for the errors the running calls will make, and for those of op. *)
Room(op) ==
    /\ op \in Ops
    /\ LET withErr == {g \in Busy : call[g].op = "WithErr"}
           own == IF op = "WithErr" THEN 2 ELSE 1
       IN  Len(node) + Cardinality(Busy) + Cardinality(withErr) + own <= MaxNodes

-----------------------------------------------------------------------------
Init ==
    /\ node = [i \in 1..Leaves |-> Plain("leaf", <<>>, Nil)]
    /\ array = <<>>
    /\ call = [g \in Goroutine |-> Idle]
    /\ extended = {}
    /\ done = {}

(* Wrap(msg, e) with one non-nil error. *)
Wrap(e) ==
    /\ Room("Wrap")
    /\ node' = Append(node, Plain("wrap", <<e>>, node[e].first))
    /\ UNCHANGED <<array, call, extended, done>>

(* Mutant: As looks below the cause first. *)
LinkCauseFirst(e, c) ==
    /\ Room("Link")
    /\ node' = Append(node, Plain("link", <<e, c>>,
                   IF node[c].first # Nil THEN node[c].first ELSE node[e].first))
    /\ UNCHANGED <<array, call, extended, done>>

(* Link(e, c): As looks below e before it looks below c. *)
Link(e, c) ==
    /\ Room("Link")
    /\ node' = Append(node, Plain("link", <<e, c>>,
                   IF node[e].first # Nil THEN node[e].first ELSE node[c].first))
    /\ UNCHANGED <<array, call, extended, done>>

(* Join(errs...): a fresh array with no room to spare. *)
Join(errs) ==
    /\ Room("Join") /\ errs # <<>>
    /\ array' = Append(array, errs)
    /\ node' = Append(node, Multi(Len(node) + 1, Len(array) + 1, Len(errs)))
    /\ UNCHANGED <<call, extended, done>>

(* Mutant: the slice is returned whatever its length, nil included. *)
ReturnsMultiAlways(e, errs) == TRUE

(* A slice that As found is returned whatever its length; a slice made by the
   call only when it has two members or more. Otherwise Append returns its one
   error, or nil: nothing is made and nothing changes. *)
ReturnsMulti(e, errs) ==
    FirstOf(e) # Nil \/ Len(errs) + (IF e = Nil THEN 0 ELSE 1) > 1

(* Mutant: the members found are filtered in place, from errTyp[:0]. *)
FoundLenZero(first) == 0
FoundLen(first) == node[first].len

(* The header the loop of Append starts from: that of the multi As found, a
   literal multiError{err}, or a nil slice. *)
StartAppend(g, op, e, errs) ==
    LET first == FirstOf(e)
        header(arr, len) == [op |-> op, base |-> e, first |-> first, arr |-> arr,
                             len |-> len, args |-> errs, next |-> 0]
    IN  /\ call[g].op = "none" /\ Room(op)
        /\ ReturnsMulti(e, errs)
        /\ Exclusive => first \notin extended
        /\ \/ /\ first # Nil
              /\ call' = [call EXCEPT ![g] = header(node[first].arr, FoundLen(first))]
              /\ extended' = extended \cup {first}
              /\ UNCHANGED array
           \/ /\ first = Nil /\ e # Nil
              /\ call' = [call EXCEPT ![g] = header(Len(array) + 1, 1)]
              /\ array' = Append(array, <<e>>)
              /\ UNCHANGED extended
           \/ /\ e = Nil
              /\ call' = [call EXCEPT ![g] = header(0, 0)]
              /\ UNCHANGED <<array, extended>>
        /\ UNCHANGED <<node, done>>

CallAppend(g, e, errs) == StartAppend(g, "Append", e, errs)

(* e.WithErr(c) on an Error that carries a cause runs Append(e.cause, c). *)
CallWithErr(g, e, c) ==
    /\ node[e].kind = "error"
    /\ StartAppend(g, "WithErr", node[e].kids[1], <<c>>)

(* e.WithErr(c) on a sentinel: c is the cause. *)
WithFirstErr(c) ==
    /\ Room("WithErr")
    /\ node' = Append(node, Plain("error", <<c>>, node[c].first))
    /\ UNCHANGED <<array, call, extended, done>>

(* One round of the loop: errTyp = append(errTyp, e). *)
Pushed(c, arr) == [c EXCEPT !.arr = arr, !.len = @ + 1, !.next = @ + 1]

Push(g) ==
    LET c == call[g]
        x == c.args[c.next + 1]
        slots == Slots(array, c.arr)
    IN  /\ c.op # "none" /\ c.next < Len(c.args)
        /\ \/ /\ c.len < Len(slots)
              /\ array' = [array EXCEPT ![c.arr] = Written(slots, c.len, x)]
              /\ call' = [call EXCEPT ![g] = Pushed(c, c.arr)]
           \/ /\ c.len >= Len(slots)
              /\ array' = Append(array, Grown(slots, c.len, x))
              /\ call' = [call EXCEPT ![g] = Pushed(c, Len(array) + 1)]
        /\ UNCHANGED <<node, extended, done>>

Return(g) ==
    LET c == call[g]
        m == Len(node) + 1
        joined == Append(node, Multi(m, c.arr, c.len))
    IN  /\ c.op # "none" /\ c.next = Len(c.args)
        /\ node' = IF c.op = "Append" THEN joined
                   ELSE Append(joined, Plain("error", <<m>>, m))
        /\ done' = done \cup {[op |-> c.op, base |-> c.base, args |-> c.args,
                               res |-> Len(node')]}
        /\ call' = [call EXCEPT ![g] = Idle]
        /\ UNCHANGED <<array, extended>>

Next ==
    \/ \E e \in Ids : Wrap(e) \/ WithFirstErr(e)
    \/ \E e, c \in Ids : Link(e, c)
    \/ \E errs \in ArgLists : Join(errs)
    \/ \E g \in Goroutine :
        \/ \E e \in Ids \cup {Nil}, errs \in ArgLists : CallAppend(g, e, errs)
        \/ \E e, c \in Ids : CallWithErr(g, e, c)
        \/ Push(g)
        \/ Return(g)

Spec == Init /\ [][Next]_vars

-----------------------------------------------------------------------------
(* Every record holds what the Go types allow: slice headers stay within their
   arrays, and what As found below an error is a multiError made no later. *)
NodeRecord == [kind : {"leaf", "wrap", "link", "error", "multi"}, kids : Seq(Nat),
               arr : Nat, len : Nat, first : Nat]
CallRecord == [op : {"none", "Append", "WithErr"}, base : Nat, first : Nat, arr : Nat,
               len : Nat, args : Seq(Nat), next : Nat]
KidsOK(v, n) ==
    /\ \A i \in 1..Len(v.kids) : v.kids[i] \in 1..(n - 1)
    /\ v.kind = "error" => Len(v.kids) = 1
NodeOK(n) ==
    /\ node[n].arr \in 0..Len(array)
    /\ node[n].len <= Len(Slots(array, node[n].arr))
    /\ node[n].kind = "multi" <=> node[n].arr # 0
    /\ node[n].first \in 0..n
    /\ node[n].first # Nil => node[node[n].first].kind = "multi"
    /\ KidsOK(node[n], n)
CallOK(g) ==
    /\ call[g].arr \in 0..Len(array)
    /\ call[g].len <= Len(Slots(array, call[g].arr))
    /\ call[g].next <= Len(call[g].args)
    /\ call[g].op # "none" /\ call[g].arr = 0 => call[g].next < Len(call[g].args)
TypeOK ==
    /\ node \in Seq(NodeRecord) /\ \A n \in Ids : NodeOK(n)
    /\ array \in Seq(Seq(Nat))
    /\ call \in [Goroutine -> CallRecord] /\ \A g \in Goroutine : CallOK(g)
    /\ extended \subseteq Ids

(* Every error reached from an error was made before it, so the tree has no
   cycle and Error, Is, As and every walk over it terminate. *)
Acyclic == \A n \in Ids : \A i \in 1..Len(Members(n)) : Members(n)[i] \in 1..(n - 1)

(* The slot the next append writes is covered by no error that a reader may be
   walking, and no other running Append reads or writes it: the write in place
   races with nothing. *)
RaceFree ==
    \A g \in Busy : LET c == call[g] IN
        c.len < Len(Slots(array, c.arr)) =>
            /\ \A n \in Ids : node[n].arr = c.arr => node[n].len <= c.len
            /\ \A h \in Busy \ {g} : call[h].arr # c.arr

(* What Is and As can find from error n, whatever the shape of the graph. *)
Reach(n) ==
    LET step[k \in 0..Len(node)] ==
            IF k = 0 THEN {n}
            ELSE step[k - 1] \cup UNION {ToSet(Members(m)) : m \in step[k - 1]}
    IN  step[Len(node)]

(* The errors below n that Is can be asked about: a multiError is not
   comparable, so it is never a target. *)
Targets(n) == {m \in Reach(n) : node[m].kind # "multi"}

(* Every error handed to Append or WithErr stays reachable from the result, for
   as long as the result exists: a later call on another value takes none away. *)
AddedStaysReachable ==
    \A d \in done : \A i \in 1..Len(d.args) : Targets(d.args[i]) \subseteq Reach(d.res)

(* So does everything the receiver of WithErr already carried ("keeps both
   causes reachable"). *)
ExistingCauseReachable ==
    \A d \in done : d.op = "WithErr" => Targets(d.base) \subseteq Reach(d.res)

(* No call changes the members of an error that exists already. *)
Immutable == [][\A n \in Ids : Members(n)' = Members(n)]_vars

(* The slices implement immutable values. *)
Values == INSTANCE ErrorValues WITH
    value <- [n \in Ids |-> [kind |-> node[n].kind, kids |-> Members(n),
                             first |-> node[n].first]]
ImplementsValues == Values!Spec
=============================================================================
