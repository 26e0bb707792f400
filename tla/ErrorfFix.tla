------------------------------ MODULE ErrorfFix ------------------------------
(***************************************************************************)
(* The fix of nofmterrorf on one call: an author writes fmt.Errorf(format,   *)
(* args...) piece by piece, giving each verb its operand as go vet demands,  *)
(* and the linter replaces the call by the one of errforge that names the    *)
(* same relationship.  Of what a call returns, the model keeps whether it is *)
(* nil, the errors that Is finds and the operands its message formats.       *)
(***************************************************************************)
EXTENDS Formats

CONSTANTS
    Pieces,     \* the pieces a format is made of: sequences of characters
    MaxPieces   \* bound on the pieces of a format

ASSUME MaxPiecesAssumption == MaxPieces \in Nat

VARIABLES
    call,       \* the call as the file has it
    written,    \* history: the call as its author wrote it
    pieces      \* the number of pieces written so far

vars == <<call, written, pieces>>

(* A function, the error it is applied to if any, its format and its operands. *)
Call(fn, head, format, args) == [fn |-> fn, head |-> head, format |-> format, args |-> args]

(* An operand is numbered, and is a value, an error, an errforge sentinel of
   type *Error, or an error variable that holds nil. *)
Kinds(letter) ==
    CASE letter = "w" -> {"error", "sentinel", "nil"}
      [] letter = "*" -> {"value"}
      [] OTHER        -> {"value", "error"}
Errors(args) == SelectSeq(args, LAMBDA a : a.kind \in {"error", "sentinel"})

-----------------------------------------------------------------------------
(* What calls return. *)
Returns(nil, errs, values) == [nil |-> nil, causes |-> ToSet(errs), values |-> values]
Panic == Returns(FALSE, <<>>, <<"panic">>)

(* fmt.Sprintf formats as many operands as the format has verbs. *)
Formatted(f, args) ==
    SubSeq(args, 1, IF Len(args) < Len(Operands(f)) THEN Len(args) ELSE Len(Operands(f)))

(* fmt.Errorf wraps the operands of %w, and formats the others; Newf is it. *)
Errorf(f, args) ==
    LET letter(a) == Operands(f)[a.id]
    IN  Returns(FALSE, Errors(SelectSeq(args, LAMBDA a : letter(a) = "w")),
                       SelectSeq(args, LAMBDA a : letter(a) # "w"))

Wrap(values, errs) == Returns(errs = <<>>, errs, IF errs = <<>> THEN <<>> ELSE values)

(* Mutant: one operand more is taken for a value. *)
WrapfOneMore(f, args) ==
    LET n == countVerbs(f) + 1 IN
    IF n > Len(args) THEN Panic
    ELSE Wrap(Formatted(f, SubSeq(args, 1, n)), Errors(SubSeq(args, n + 1, Len(args))))
(* The operands that the count leaves are the errors; slicing panics when there
   are fewer than the count. *)
Wrapf(f, args) ==
    LET n == countVerbs(f) IN
    IF n > Len(args) THEN Panic
    ELSE Wrap(Formatted(f, SubSeq(args, 1, n)), Errors(SubSeq(args, n + 1, Len(args))))

(* Head is linked to the operands, to a message, or carries either itself. *)
Joined(head, args) == Returns(Errors(head \o args) = <<>>, Errors(head \o args), <<>>)

Result(c) ==
    CASE c.fn = "New"                   -> Returns(FALSE, <<>>, <<>>)
      [] c.fn \in {"Errorf", "Newf"}    -> Errorf(c.format, c.args)
      [] c.fn = "Wrap"                  -> Wrap(<<>>, Errors(c.args))
      [] c.fn = "Wrapf"                 -> Wrapf(c.format, c.args)
      [] c.fn \in {"Identity", "Link", "WithErr"} -> Joined(c.head, c.args)
      [] c.fn \in {"LinkNew", "LinkNewf", "WithDetail", "WithDetailf"} ->
             Returns(FALSE, Errors(c.head), Formatted(c.format, c.args))

-----------------------------------------------------------------------------
(* Mutant: the operands after the first are kept only for a sentinel. *)
rewriteLeadingBare(rest, args) ==
    LET sentinel == args[1].kind = "sentinel"
        builder(own, link) == IF sentinel THEN own ELSE link
    IN  IF rest = wVerb THEN Call(builder("WithErr", "Link"), <<args[1]>>, <<>>, Tail(args))
        ELSE Call(builder("WithDetail", "LinkNew"), <<args[1]>>, rest, <<>>)
(* The builders of a sentinel, a Link of anything else. *)
rewriteLeading(rest, args) ==
    LET sentinel == args[1].kind = "sentinel"
        builder(own, link) == IF sentinel THEN own ELSE link
    IN  IF rest = wVerb THEN Call(builder("WithErr", "Link"), <<args[1]>>, <<>>, Tail(args))
        ELSE IF ~HasPercent(rest)
        THEN Call(builder("WithDetail", "LinkNew"), <<args[1]>>, rest, <<>>)
        ELSE Call(builder("WithDetailf", "LinkNewf"), <<args[1]>>, rest, Tail(args))

(* A call without a fix stays. *)
rewriteFmtErrorf(f, args) ==
    LET p == Classify(f, Len(args))
    IN  CASE p.kind = "Unsupported"                    -> Call("Errorf", <<>>, f, args)
          [] p.kind = "Identity"                       -> Call("Identity", args, <<>>, <<>>)
          [] p.kind \in {"New", "Newf", "Wrap", "Wrapf"} -> Call(p.kind, <<>>, p.text, args)
          [] p.kind = "Lead"                           -> rewriteLeading(p.text, args)

-----------------------------------------------------------------------------
Init == call = Call("Errorf", <<>>, <<>>, <<>>) /\ written = call /\ pieces = 0

(* The operands of a format so far, and those of the verbs that were added. *)
OperandLists(f, args) ==
    LET letters == Operands(f)
        added == (Len(args) + 1)..Len(letters)
    IN  {args \o [i \in 1..Cardinality(added) |->
                     [id |-> Len(args) + i, kind |-> kinds[Len(args) + i]]] :
            kinds \in {k \in [added -> {"value", "error", "sentinel", "nil"}] :
                          \A i \in added : k[i] \in Kinds(letters[i])}}

Write(piece) ==
    /\ call = written /\ pieces < MaxPieces /\ pieces' = pieces + 1
    /\ \E args \in OperandLists(call.format \o piece, call.args) :
           call' = Call("Errorf", <<>>, call.format \o piece, args)
    /\ written' = call'

Fix ==
    /\ call = written /\ call' = rewriteFmtErrorf(call.format, call.args) /\ call' # call
    /\ UNCHANGED <<written, pieces>>

Next == (\E piece \in Pieces : Write(piece)) \/ Fix
Spec == Init /\ [][Next]_vars

-----------------------------------------------------------------------------
(* Whether the count that Wrapf makes is the number of operands fmt takes. *)
Counted == call.fn = "Wrapf" => countVerbs(call.format) = Len(Operands(call.format))

(* The fix names a relationship and never changes it: what Is found in the error
   of the call written, it finds in the error of the call that replaces it. *)
FixKeepsCauses == Counted => Result(call).causes = Result(written).causes

(* No operand is left out of the message by the fix, and none is formatted by
   another's verb. *)
FixKeepsValues ==
    Counted /\ ~Result(call).nil => Result(call).values = Result(written).values

(* A fixed call answers nil, no error at all, only where every error that it was
   to wrap was nil. *)
NilOnlyForNil ==
    LET wrapped == SelectSeq(written.args, LAMBDA a : Operands(written.format)[a.id] = "w")
    IN  Counted /\ Result(call).nil => wrapped # <<>> /\ Errors(wrapped) = <<>>

(* Conversions with one flag at the most and a precision that starts with a digit
   but 0, no star and no literal percent: of these "the number of leading values is
   inferred by counting the verbs". "%.0f" is not among them: Wrapf misses it. *)
Simple(f) ==
    \A i \in 1..Len(f) : f[i] = Percent =>
        LET width == Skip(f, i + 1, Flags)
            point == Skip(f, width, Digits)
            precise == At(f, point) = "."
            letter == IF precise THEN Skip(f, point + 1, Digits) ELSE point
        IN  At(f, letter) \in Word /\ width <= i + 2 /\ (precise => At(f, point + 1) = "5")
WrapfCountsVerbs ==
    Simple(call.format) => countVerbs(call.format) = Len(Operands(call.format))

(* "The message stays, and the relationship the %w verb used to hide inside it
   becomes the name of the function": without a condition on the count. *)
WrapfWrapsErrors == call.fn = "Wrapf" => Result(call).causes = Result(written).causes
=============================================================================
