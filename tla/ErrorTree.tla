------------------------------ MODULE ErrorTree ------------------------------
(***************************************************************************)
(* Error trees as errforge builds them, and the functions that read a fact   *)
(* from a tree: errors.As, walk, GetCode, GetDetails, IsTransient,           *)
(* GetFieldErrors, Mapper.  Errors are immutable and identified by the order *)
(* in which they are made, so the children of an error come before it.       *)
(* Messages, locations and frames are left out.                              *)
(***************************************************************************)
EXTENDS Codes, Sequences, SequencesExt

CONSTANTS
    Ops,        \* the constructors the callers use
    Codes,      \* the codes they attach
    Sentinels,  \* foreign errors, the ones a Mapper may know
    Registered, \* the options of the Mapper: a function from sentinels to codes
    MaxNodes,   \* bound on the errors of a behaviour
    MaxArgs     \* bound on the variadic arguments of one call

(* "OK ... is never attached to an error." *)
ASSUME CodesAssumption == Codes \subseteq Int \ {Code.OK}
(* The types of errforge, and of the status of a gRPC client. *)
Decorators == {"wrap", "field", "transient", "stack", "coded"}
Kinds == Decorators \cup {"detailed", "link", "linkMulti", "wrapMulti", "multi", "grpc", "panic"}
ASSUME SentinelsAssumption == Sentinels \cap Kinds = {}
ASSUME RegisteredAssumption ==
    /\ DOMAIN Registered \subseteq Sentinels \cup {"canceled", "deadline"}
    /\ \A s \in DOMAIN Registered : Registered[s] \in Int \ {Code.OK}

VARIABLE node   \* the errors made so far

Nil == 0        \* the nil error, and the PublicError that is not there
Ids == 1..Len(node)

(* An error: its Go type, the errors it holds in the order of its fields, the
   code that it holds itself, whether it holds a PublicError, and the errors of
   its tree, which it has once it is made. *)
Error(kind, kids, code, public) ==
    [kind |-> kind, kids |-> kids, code |-> code, public |-> public, order |-> <<>>]
Plain(kind, kids) == Error(kind, kids, Code.NoCode, FALSE)

(* What As looks below, in order: linkedMultiError.As tries its causes first. *)
AsKids(e) == IF e.kind = "linkMulti" THEN Append(Tail(e.kids), e.kids[1]) ELSE e.kids

(* Each error of the tree of e, the next to be made, in the order As comes to
   it. Trees never change, so the order is kept with the error. *)
AsOrder(e) ==
    <<Len(node) + 1>> \o
        FlattenSeq([i \in 1..Len(AsKids(e)) |-> node[AsKids(e)[i]].order])

Place(e) == node' = Append(node, [e EXCEPT !.order = AsOrder(e)])
(* Room for the error that a step makes: every step makes one. *)
Room == Len(node) < MaxNodes
Made(op, e) == op \in Ops /\ Place(e)

ArgLists == UNION {[1..k -> Ids \cup {Nil}] : k \in 0..MaxArgs}
removeNilFromErrors(errs) ==
    LET filtered[n \in 0..Len(errs)] ==
            IF n = 0 THEN <<>>
            ELSE IF errs[n] = Nil THEN filtered[n - 1]
            ELSE Append(filtered[n - 1], errs[n])
    IN  filtered[Len(errs)]

-----------------------------------------------------------------------------
(* What As finds for a target type: the first error of these kinds. *)
As(err, kinds) ==
    IF err = Nil THEN Nil
    ELSE LET first == SelectInSeq(node[err].order, LAMBDA m : node[m].kind \in kinds)
         IN  IF first = 0 THEN Nil ELSE node[err].order[first]
Is(err, kind) == As(err, {kind}) # Nil

(* Mutant: a field error does not answer for what is below it. *)
CodeMethodNoField == {"detailed", "coded"}
(* The types with a method Code(). *)
CodeMethod == {"detailed", "coded", "field"}

(* Mutant: a detailed error answers with its own code alone. *)
InheritsNever(e) == FALSE
(* A detailed error without a code asks its cause. *)
Inherits(e) == e.kind = "detailed" /\ e.code = Code.NoCode /\ e.kids # <<>>

(* The types with a method Code() are asked first, then gRPC statuses, then
   the context errors; a field error answers NoCode. *)
GetCode[e \in 0..Len(node)] ==
    LET coded == As(e, CodeMethod)
        grpc == As(e, {"grpc"})
    IN  CASE coded # Nil -> IF Inherits(node[coded]) THEN GetCode[node[coded].kids[1]]
                                                     ELSE node[coded].code
          [] coded = Nil /\ grpc # Nil -> CodeFromGRPC(node[grpc].code)
          [] coded = Nil /\ grpc = Nil -> IF Is(e, "deadline") THEN Code.DeadlineExceeded
                                          ELSE IF Is(e, "canceled") THEN Code.Canceled
                                          ELSE Code.NoCode

(* Mutant: a field error does not answer for what is below it. *)
DetailsMethodNoField == {"detailed"}
(* The types with a method Details(). *)
DetailsMethod == {"detailed", "field"}

(* The error that holds the PublicError of err, Nil when there is none. *)
GetDetails[e \in 0..Len(node)] ==
    LET detailed == As(e, DetailsMethod)
    IN  IF detailed = Nil \/ node[detailed].kind = "field" THEN Nil
        ELSE IF node[detailed].public THEN detailed
        ELSE IF node[detailed].kids # <<>> THEN GetDetails[node[detailed].kids[1]] ELSE Nil

(* The marker of ToTransient is found in any part of the tree. *)
Marked(err) == Is(err, "transient")
IsTransient(err) == Marked(err) \/ Transient(GetCode[err])

-----------------------------------------------------------------------------
(* The errors as walk sees them. *)

(* Each error of a tree in the order of walk, with the error it came from:
   the error a Link joins, then its causes. *)
walk[e \in Ids] ==
    FlattenSeq([i \in 1..Len(node[e].kids) |->
        <<[err |-> node[e].kids[i], from |-> e]>> \o walk[node[e].kids[i]]])
Walk(err) == <<[err |-> err, from |-> Nil]>> \o walk[err]

(* The run of directly nested field errors that e starts, outermost first. *)
Nested[e \in Ids] ==
    IF node[e].kind # "field" THEN <<>> ELSE <<e>> \o Nested[node[e].kids[1]]

(* Mutant: one inner error is skipped, however long the run. *)
FieldErrorStepSkipOne(acc, m) ==
    IF node[m.err].kind # "field" THEN acc
    ELSE IF acc.skip > 0 THEN [acc EXCEPT !.skip = @ - 1]
    ELSE [skip  |-> IF Len(Nested[m.err]) > 1 THEN 1 ELSE 0,
          found |-> Append(acc.found, Nested[m.err])]

(* One round of GetFieldErrors' loop: the error is skipped, or the run that it
   starts is a violation and skip grows by the rest of it. *)
FieldErrorStep(acc, m) ==
    IF node[m.err].kind # "field" THEN acc
    ELSE IF acc.skip > 0 THEN [acc EXCEPT !.skip = @ - 1]
    ELSE [skip  |-> acc.skip + Len(Nested[m.err]) - 1,
          found |-> Append(acc.found, Nested[m.err])]

(* A violation is the run of field errors that names it. *)
GetFieldErrors(err) ==
    LET visited == Walk(err)
        round[i \in 0..Len(visited)] ==
            IF i = 0 THEN [skip |-> 0, found |-> <<>>]
            ELSE FieldErrorStep(round[i - 1], visited[i])
    IN  round[Len(visited)].found

(* The public errors that the body of WriteErrorJSON shows: that of the request,
   and for each field that of the error with the marker removed. Where there is
   none, the error's own message is shown. *)
fieldResponse(violation) == GetDetails[node[Last(violation)].kids[1]]
ErrorResponse(err) ==
    LET violations == GetFieldErrors(err)
    IN  <<GetDetails[err]>> \o [i \in 1..Len(violations) |-> fieldResponse(violations[i])]

-----------------------------------------------------------------------------
(* The codes a Mapper may answer: the registered errors that match, in the
   order of a map iteration, which is any order. *)
Registry ==
    [s \in DOMAIN Registered \cup {"canceled", "deadline"} |->
        IF s \in DOMAIN Registered THEN Registered[s]
        ELSE IF s = "canceled" THEN Code.Canceled ELSE Code.DeadlineExceeded]
(* Mutant: what the Mapper does not know is no failure. *)
MapperCodeOK(err) ==
    LET matches == {s \in DOMAIN Registry : Is(err, s)}
    IN  IF matches = {} THEN {Code.OK} ELSE {Registry[s] : s \in matches}
MapperCode(err) ==
    LET matches == {s \in DOMAIN Registry : Is(err, s)}
    IN  IF matches = {} THEN {Code.Internal} ELSE {Registry[s] : s \in matches}

-----------------------------------------------------------------------------
Init == node = <<>>

(* An error made elsewhere; ctx.Err(); an error that a gRPC client returned. *)
Foreign(s) == Made("Foreign", Plain(s, <<>>))
FromContext == \E s \in {"canceled", "deadline"} : Made("FromContext", Plain(s, <<>>))
FromGRPC(g) == Made("FromGRPC", Error("grpc", <<>>, g, FALSE))

(* The PanicError of a panic that was recovered: it has no Unwrap, so that a panic
   with an error is no cause of it. *)
FromPanic == Made("FromPanic", Plain("panic", <<>>))

(* New(msg).WithErr(cause) and Wrap(msg, err) hold one error each. *)
WithErr(cause) == Made("WithErr", Plain("wrap", <<cause>>))

Wrap(errs) ==
    \/ Len(errs) = 1 /\ errs[1] # Nil /\ Made("Wrap", Plain("wrap", errs))
    \/ /\ Len(errs) # 1 /\ removeNilFromErrors(errs) # <<>>
       /\ Made("Wrap", Plain("wrapMulti", removeNilFromErrors(errs)))

(* With a nil error or no cause, Link makes nothing but what Join makes. *)
Link(err, causes) ==
    LET kept == removeNilFromErrors(causes) IN
    \/ /\ err # Nil /\ Len(causes) = 1 /\ kept # <<>>
       /\ Made("Link", Plain("link", <<err>> \o kept))
    \/ /\ err # Nil /\ Len(causes) # 1 /\ kept # <<>>
       /\ Made("Link", Plain("linkMulti", <<err>> \o kept))
    \/ /\ err = Nil /\ Len(causes) # 1 /\ kept # <<>>
       /\ Made("Link", Plain("multi", kept))

Join(errs) ==
    /\ removeNilFromErrors(errs) # <<>>
    /\ Made("Join", Plain("multi", removeNilFromErrors(errs)))

(* Detailed with the options WithCode, WithCause and WithPublic. *)
newDetailed(op, code, cause, public) ==
    Made(op, Error("detailed", removeNilFromErrors(<<cause>>), code, public))
Detailed(code, cause, public) == newDetailed("Detailed", code, cause, public)
NewWithCode(code) == newDetailed("NewWithCode", code, Nil, FALSE)
Propagate(cause) == cause # Nil /\ newDetailed("Propagate", Code.NoCode, cause, FALSE)
PropagateWithCode(cause, code) ==
    cause # Nil /\ newDetailed("PropagateWithCode", code, cause, FALSE)

FieldError(err) == err # Nil /\ Made("FieldError", Plain("field", <<err>>))
ToTransient(err) == err # Nil /\ Made("ToTransient", Plain("transient", <<err>>))
WithStack(err) == err # Nil /\ Made("WithStack", Plain("stack", <<err>>))

(* An error that carries a code is returned as it is. *)
AttachCodeTo(err) ==
    /\ err # Nil /\ GetCode[err] = Code.NoCode
    /\ \E c \in MapperCode(err) : Made("AttachCodeTo", Error("coded", <<err>>, c, FALSE))

(* The layers a caller puts on an error, by what they do to its code. *)
Annotate(err) ==
    \/ WithErr(err) \/ Propagate(err) \/ ToTransient(err) \/ WithStack(err)
    \/ \E public \in BOOLEAN : Detailed(Code.NoCode, err, public)
Stamp(err) ==
    \/ AttachCodeTo(err)
    \/ \E c \in Codes : PropagateWithCode(err, c)
    \/ \E c \in Codes, public \in BOOLEAN : Detailed(c, err, public)
Collect(errs) ==
    Wrap(errs) \/ Join(errs) \/ (errs # <<>> /\ Link(errs[1], Tail(errs)))
Originate ==
    \/ \E s \in Sentinels : Foreign(s)
    \/ FromContext \/ FromPanic
    \/ \E c \in Codes : FromGRPC(GRPC(c))
    \/ \E c \in Codes : NewWithCode(c)
    \/ \E c \in Codes \cup {Code.NoCode}, public \in BOOLEAN : Detailed(c, Nil, public)

Next ==
    /\ Room
    /\ \/ Originate
       \/ \E err \in Ids : Annotate(err) \/ Stamp(err) \/ FieldError(err)
       \/ \E errs \in ArgLists : Collect(errs)

Spec == Init /\ [][Next]_node

-----------------------------------------------------------------------------
(* Each error has the children that its type holds, all made before it, and a code
   when its type holds one: never OK. *)
Leaves == Sentinels \cup {"canceled", "deadline", "grpc", "panic"}
KindOK(e) ==
    LET k == Len(e.kids) IN
    CASE e.kind \in Decorators -> k = 1
      [] e.kind \in Leaves     -> k = 0
      [] e.kind = "detailed"   -> k <= 1
      [] e.kind = "link"       -> k = 2
      [] e.kind = "linkMulti"  -> k >= 2
      [] OTHER -> e.kind \in {"wrapMulti", "multi"} /\ k >= 1
CodeOK(e) ==
    e.code \in IF e.kind = "grpc" THEN GRPCCodes \ {GRPC(Code.OK)}
               ELSE IF e.kind \in {"detailed", "coded"} THEN Int \ {Code.OK}
               ELSE {Code.NoCode}
TypeOK ==
    \A n \in Ids :
        /\ KindOK(node[n]) /\ CodeOK(node[n]) /\ node[n].public \in BOOLEAN
        /\ ToSet(node[n].kids) \subseteq 1..(n - 1)

(* A decorator with nothing of its own to say about a fact passes on what its
   cause says: "ctx.Err() returned as is (or propagated) never degrades", and a
   public error or a marker attached below survives on the way up. *)
PassesOn(n) == node[n].kind \in {"wrap", "transient", "stack", "detailed"} /\ node[n].kids # <<>>
LayersKeepFacts ==
    \A n \in Ids : PassesOn(n) =>
        LET cause == node[n].kids[1] IN
        /\ node[n].code = Code.NoCode => GetCode[n] = GetCode[cause]
        /\ ~node[n].public => GetDetails[n] = GetDetails[cause]
        /\ Marked(cause) => Marked(n)

(* The errors of a tree that no field error hides: "GetCode and GetDetails do
   not look inside a field error". *)
OutsideFields[e \in Ids] ==
    {e} \cup IF node[e].kind = "field" THEN {}
             ELSE UNION {OutsideFields[k] : k \in ToSet(node[e].kids)}

(* The code an error carries by itself. *)
OwnCode(m) ==
    CASE node[m].kind \in {"detailed", "coded"} -> node[m].code
      [] node[m].kind = "grpc"                  -> CodeFromGRPC(node[m].code)
      [] node[m].kind = "deadline"              -> Code.DeadlineExceeded
      [] node[m].kind = "canceled"              -> Code.Canceled
      [] OTHER                                  -> Code.NoCode

(* The code and the public error of a request are never those of one of its
   fields. *)
FieldsKeepToThemselves ==
    \A n \in Ids :
        /\ GetCode[n] = Code.NoCode \/ \E m \in OutsideFields[n] : OwnCode(m) = GetCode[n]
        /\ GetDetails[n] = Nil \/ GetDetails[n] \in OutsideFields[n]

(* A field error that no field error holds starts a run. *)
StartsRun(m) ==
    node[m.err].kind = "field" /\ (m.from = Nil \/ node[m.from].kind # "field")

(* The loop of GetFieldErrors reports each run of nested field errors of the
   tree once, from its outermost error, in the order of walk: an inner error is
   reported with its run and no error after the run is skipped. *)
FieldErrorsReportedOnce ==
    \A n \in Ids :
        LET visited == Walk(n)
        IN  GetFieldErrors(n) = FlattenSeq([i \in 1..Len(visited) |->
                IF StartsRun(visited[i]) THEN <<Nested[visited[i].err]>> ELSE <<>>])

(* "A translatable message attached to one field never becomes the message of the
   whole response", nor of the field around it: the body shows each public error
   of a tree once at the most. *)
PublicShownOnce ==
    \A n \in Ids : IsInjective(node[n].order) =>
        LET shown == ErrorResponse(n)
        IN  \A i, j \in 1..Len(shown) : shown[i] = shown[j] /\ shown[i] # Nil => i = j

(* "GetCode reports the code of the first error in the tree that carries one":
   of the codes that callers attached, in a tree without field errors. *)
FirstCodeReported ==
    \A n \in Ids :
        LET order == node[n].order
            carrying == SelectSeq(order, LAMBDA m :
                node[m].kind \in {"detailed", "coded"} /\ node[m].code # Code.NoCode)
        IN  (\A m \in ToSet(order) : node[m].kind # "field") /\ carrying # <<>>
            => GetCode[n] = node[carrying[1]].code
=============================================================================
