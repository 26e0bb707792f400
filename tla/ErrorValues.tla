----------------------------- MODULE ErrorValues -----------------------------
(***************************************************************************)
(* What the joining functions of errforge promise, free of how slices work: *)
(* an error is a value that never changes once a caller has seen it, and     *)
(* Append yields a new value whose members are those of the MultiError it    *)
(* found followed by the appended errors.  AppendSlices implements this      *)
(* specification with Go slices that share backing arrays.                   *)
(***************************************************************************)
EXTENDS Naturals, Sequences, SequencesExt

CONSTANTS
    Leaves,     \* number of plain errors that exist at the start
    MaxArgs     \* bound on the variadic arguments of one call

VARIABLE value  \* the errors made so far; a value is its kind and its children

Ids == 1..Len(value)
Nil == 0        \* the nil error

(* The argument lists a caller may pass, already rid of nil errors. *)
ArgLists == UNION {[1..k -> Ids] : k \in 0..MaxArgs}

(* first names what errors.As(err, *multiError) finds: the first multi at or
   below the error in As order, Nil when there is none. *)
FirstOf(e) == IF e = Nil THEN Nil ELSE value[e].first
Val(kind, kids, first) == [kind |-> kind, kids |-> kids, first |-> first]
Multi(kids) == Val("multi", kids, Len(value) + 1)

Appended(e, errs) ==
    IF FirstOf(e) # Nil THEN value[FirstOf(e)].kids \o errs
    ELSE IF e # Nil THEN <<e>> \o errs ELSE errs

-----------------------------------------------------------------------------
Init == value = [i \in 1..Leaves |-> Val("leaf", <<>>, Nil)]

Wrap(e) == value' = Append(value, Val("wrap", <<e>>, value[e].first))

Link(e, c) ==
    value' = Append(value, Val("link", <<e, c>>,
                 IF value[e].first # Nil THEN value[e].first ELSE value[c].first))

Join(errs) == errs # <<>> /\ value' = Append(value, Multi(errs))

AppendTo(e, errs) ==
    /\ FirstOf(e) # Nil \/ Len(Appended(e, errs)) > 1
    /\ value' = Append(value, Multi(Appended(e, errs)))

(* WithErr on an Error without a cause, and on one that carries one. *)
WithFirstErr(c) == value' = Append(value, Val("error", <<c>>, value[c].first))

WithErr(existing, c) ==
    LET m == Len(value) + 1 IN
    value' = value \o <<Multi(Appended(existing, <<c>>)), Val("error", <<m>>, m)>>

Next ==
    \/ \E e \in Ids : Wrap(e) \/ WithFirstErr(e)
    \/ \E e, c \in Ids : Link(e, c) \/ WithErr(e, c)
    \/ \E errs \in ArgLists : Join(errs)
    \/ \E e \in Ids \cup {Nil}, errs \in ArgLists : AppendTo(e, errs)

Spec == Init /\ [][Next]_value
=============================================================================
