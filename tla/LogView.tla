------------------------------- MODULE LogView -------------------------------
(***************************************************************************)
(* The two renderings of an error tree: newLogView, which slog, zap and      *)
(* zerolog share, and fprint, behind Print.  Both collapse a run of errors   *)
(* that repeat one message into one entry.  Of a message only that matters:  *)
(* whether an error repeats the message of its cause.                        *)
(***************************************************************************)
EXTENDS ErrorTree

VARIABLES
    repeats,    \* per error, whether it repeats its cause's message
    unnamed     \* the field errors made with an empty name

lvars == <<node, repeats, unnamed>>

Markers == {"field", "transient", "stack", "coded"}

(* Mutant: whether there is a cause at all is not asked. *)
RepeatingNil(e) ==
    IF e.kind \in Markers THEN {TRUE}
    ELSE IF e.kind \in {"wrap", "detailed"} THEN BOOLEAN ELSE {FALSE}
(* Markers always repeat it; the wording of a Wrap or a Propagate is free. The
   messages of Link and of a multi add to those they join. *)
Repeating(e) ==
    IF e.kind \in Markers THEN {TRUE}
    ELSE IF e.kind \in {"wrap", "detailed"} /\ e.kids # <<>> THEN BOOLEAN ELSE {FALSE}

(* FieldError takes any string for a name. *)
Naming(e) == {unnamed} \cup IF e.kind = "field" THEN {unnamed \cup {Len(node) + 1}} ELSE {}

LInit == Init /\ repeats = <<>> /\ unnamed = {}
LNext ==
    /\ Next
    /\ \E r \in Repeating(Last(node')) : repeats' = Append(repeats, r)
    /\ unnamed' \in Naming(Last(node'))
LSpec == LInit /\ [][LNext]_lvars

-----------------------------------------------------------------------------
transparentCause(err) == IF repeats[err] THEN node[err].kids[1] ELSE Nil

(* The errors of one entry, outermost first. *)
Run[e \in Ids] ==
    IF transparentCause(e) = Nil THEN <<e>> ELSE <<e>> \o Run[transparentCause(e)]

(* Mutant: the last error of the run that answers is heard. *)
FirstLast(answers, none) ==
    LET heard == SelectLastInSeq(answers, LAMBDA a : a # none)
    IN  IF heard = 0 THEN none ELSE answers[heard]
(* The first answer of the errors of a run: none stands for no answer. *)
First(answers, none) ==
    LET heard == SelectInSeq(answers, LAMBDA a : a # none)
    IN  IF heard = 0 THEN none ELSE answers[heard]

(* The types with a method Location(), and the StackTracers. *)
Located == {"detailed"}
StackTracer == {"stack", "panic"}
(* An error answers with the location or the stack that it carries itself. *)
Carried(errs, kinds) ==
    [i \in 1..Len(errs) |-> IF node[errs[i]].kind \in kinds THEN errs[i] ELSE Nil]

(* Mutant: an empty parent is followed by a dot. *)
joinFieldDotted(parent, field) == Append(parent, field)
(* A dotted name is the sequence of its parts, the empty string that of none: an
   empty name is lost when nothing comes before it. *)
joinField(parent, field) ==
    IF parent = <<>> /\ field \in unnamed THEN <<>> ELSE Append(parent, field)

(* The fields of a run, joined as the loop comes to them. *)
Named(run) ==
    LET name[i \in 0..Len(run)] ==
            IF i = 0 THEN <<>>
            ELSE IF node[run[i]].kind = "field" THEN joinField(name[i - 1], run[i])
            ELSE name[i - 1]
    IN  name[Len(run)]

newLogView(err) ==
    LET run == Run[err]
    IN  [run       |-> run,
         field     |-> Named(run),
         code      |-> First([i \in 1..Len(run) |-> GetCode[run[i]]], Code.NoCode),
         transient |-> \E i \in 1..Len(run) : IsTransient(run[i]),
         public    |-> First([i \in 1..Len(run) |-> GetDetails[run[i]]], Nil),
         location  |-> First(Carried(run, Located), Nil),
         stack     |-> First(Carried(run, StackTracer), Nil)]

(* Unwrap and UnwrapErrors: a Link hides the error it joins. *)
Unwrapped(e) ==
    IF node[e].kind \in {"link", "linkMulti"} THEN Tail(node[e].kids) ELSE node[e].kids

(* Mutant: the tree is followed as Print follows it. *)
childrenUnwrapped(e) == Unwrapped(e)
(* A Link shows the error it joins, then its causes. *)
children(e) == node[e].kids

(* The objects that a logger nests, in the order it writes them. *)
Logged[e \in Ids] ==
    LET last == Last(Run[e])
    IN  <<newLogView(e)>> \o
            FlattenSeq([i \in 1..Len(children(last)) |-> Logged[children(last)[i]]])

(* Mutant: the walk continues from the first error of the run. *)
collapseFirst(err) == [trace |-> First(Carried(Run[err], StackTracer), Nil), last |-> err]
collapse(err) == [trace |-> First(Carried(Run[err], StackTracer), Nil), last |-> Last(Run[err])]

(* What Print writes: the message of an error, the first trace of its run, then
   what the last error of the run unwraps to. *)
fprint[e \in Ids] ==
    LET run == collapse(e)
        below == Unwrapped(run.last)
    IN  <<[message |-> e, trace |-> run.trace]>> \o
            FlattenSeq([i \in 1..Len(below) |-> fprint[below[i]]])

-----------------------------------------------------------------------------
(* The loggers write the entries of a view as they come to them. Params that JSON
   cannot represent fail to be written: unwritable holds the public errors with
   such Params. zerolog writes the failure in their place and goes on. *)
Fails(entry, unwritable) == entry.public \in unwritable

(* Mutant: what fails does not keep the next from being written. *)
MarshalLogArrayAll(objects) ==
    [written |-> FlattenSeq([i \in 1..Len(objects) |-> objects[i].written]), failed |-> FALSE]
(* zap leaves an array at the first object that fails. *)
AppendObject(array, object) ==
    IF array.failed THEN array
    ELSE [written |-> array.written \o object.written, failed |-> object.failed]
MarshalLogArray(objects) ==
    LET array[i \in 0..Len(objects)] ==
            IF i = 0 THEN [written |-> <<>>, failed |-> FALSE]
            ELSE AppendObject(array[i - 1], objects[i])
    IN  array[Len(objects)]

(* zap: the public error comes before the causes. *)
Object(entry, causes, unwritable) ==
    IF Fails(entry, unwritable) THEN [written |-> <<entry>>, failed |-> TRUE]
    ELSE [written |-> <<entry>> \o causes.written, failed |-> causes.failed]
MarshalLogObject(err, unwritable) ==
    LET object[e \in Ids] ==
            LET below == children(Last(Run[e]))
            IN  Object(newLogView(e),
                       MarshalLogArray([i \in 1..Len(below) |-> object[below[i]]]), unwritable)
    IN  object[err].written

(* json.Marshal of a view: an error anywhere in it leaves nothing. *)
Fail(causes) == \E i \in 1..Len(causes) : causes[i].failed
Marshalled(entry, causes, unwritable) ==
    IF Fails(entry, unwritable) \/ Fail(causes) THEN [written |-> <<>>, failed |-> TRUE]
    ELSE [written |-> <<entry>> \o FlattenSeq([i \in 1..Len(causes) |-> causes[i].written]),
          failed  |-> FALSE]
JSON(err, unwritable) ==
    LET object[e \in Ids] ==
            LET below == children(Last(Run[e]))
            IN  Marshalled(newLogView(e), [i \in 1..Len(below) |-> object[below[i]]], unwritable)
    IN  object[err]

(* slog: each public error and the causes as a whole are a JSON value of their own. *)
Group(entry, causes) ==
    IF Fail(causes) THEN <<entry>>
    ELSE <<entry>> \o FlattenSeq([i \in 1..Len(causes) |-> causes[i].written])
slogValue(err, unwritable) ==
    LET below == children(Last(Run[err]))
    IN  Group(newLogView(err), [i \in 1..Len(below) |-> JSON(below[i], unwritable)])

(* The errors of a tree as walk visits them. *)
Visited(err) == LET walked == Walk(err) IN [i \in 1..Len(walked) |-> walked[i].err]

(* Mutant: the innermost trace wins. *)
GetStackTraceLast(err) == FirstLast(Carried(Visited(err), StackTracer), Nil)
(* The trace that walk comes to first, and the location that As finds. *)
GetStackTrace(err) == First(Carried(Visited(err), StackTracer), Nil)
GetLocation(err) == As(err, Located)

-----------------------------------------------------------------------------
LTypeOK ==
    /\ Len(repeats) = Len(node)
    /\ \A n \in Ids : repeats[n] \in BOOLEAN /\ (repeats[n] => Len(node[n].kids) = 1)
    /\ \A n \in unnamed : n \in Ids /\ node[n].kind = "field"

(* What is shown of an error never changes: it is checked when the error is made. *)
Shown == {n \in Ids : n = Len(node)}

(* The log view "look[s] at the tree instead, so a refactor that adds a marker
   never changes what you log": each error of the tree is part of one entry and
   one only, in the order of walk. *)
LoggedOnce ==
    \A n \in Shown :
        LET entries == Logged[n]
        IN  FlattenSeq([i \in 1..Len(entries) |-> entries[i].run]) = Visited(n)

(* "The getters look down from their node": an entry reports the code and the
   public error that the getters answer for its outermost error, unless that
   answer is withheld by a field error of the run, whose own facts it shows. *)
FactsAsRead ==
    \A n \in Shown :
        LET entry == newLogView(n) IN
        (\A i \in 1..Len(entry.run) : node[entry.run[i]].kind # "field") =>
            entry.code = GetCode[n] /\ entry.public = GetDetails[n]

(* The loop of newLogView and that of GetFieldErrors report the same fields in the
   same order, when the names nest directly: but for the empty parts a name starts
   with, which GetFieldErrors puts before a dot and the log leaves out. *)
Interrupted(run) ==
    \E i, j, k \in 1..Len(run) : i < j /\ j < k /\ node[run[i]].kind = "field"
                                 /\ node[run[j]].kind # "field" /\ node[run[k]].kind = "field"
Spoken(name) ==
    LET first == SelectInSeq(name, LAMBDA field : field \notin unnamed)
    IN  IF first = 0 THEN <<>> ELSE SubSeq(name, first, Len(name))
Nonempty(names) ==
    FlattenSeq([i \in 1..Len(names) |-> IF names[i] = <<>> THEN <<>> ELSE <<names[i]>>])
FieldsLoggedAsReported ==
    \A n \in Shown :
        LET entries == Logged[n]
            reported == GetFieldErrors(n)
        IN  (\A i \in 1..Len(entries) : ~Interrupted(entries[i].run))
                => Nonempty([i \in 1..Len(entries) |-> entries[i].field])
                       = Nonempty([i \in 1..Len(reported) |-> Spoken(reported[i])])

(* Without a Link, Print and the log view show the same entries with the same
   traces, "exactly as Print collapses it into one entry". *)
PrintedAsLogged ==
    \A n \in Shown :
        LET entries == Logged[n] IN
        (\A m \in ToSet(node[n].order) : node[m].kind \notin {"link", "linkMulti"})
            => fprint[n] = [i \in 1..Len(entries) |->
                   [message |-> entries[i].run[1], trace |-> entries[i].stack]]

(* The getters and the log agree on which trace and which location come first,
   "the outermost": but for a Link of several causes, where As asks these first. *)
GettersAsLogged ==
    \A n \in Shown :
        LET entries == Logged[n] IN
        /\ GetStackTrace(n) = First([i \in 1..Len(entries) |-> entries[i].stack], Nil)
        /\ (\A m \in ToSet(node[n].order) : node[m].kind # "linkMulti")
               => GetLocation(n) = First([i \in 1..Len(entries) |-> entries[i].location], Nil)

(* The first of a sequence of entries that fails, 0 if none does, and the later ones. *)
FirstFailing(entries, unwritable) == SelectInSeq(entries, LAMBDA v : Fails(v, unwritable))
FailingBelow(entries, unwritable) == {i \in 2..Len(entries) : Fails(entries[i], unwritable)}
UpTo(entries, first) == SubSeq(entries, 1, IF first = 0 THEN Len(entries) ELSE first)
PublicsOf(entries) == {v.public : v \in ToSet(entries)} \ {Nil}

(* What unwritable params leave of these entries, with zap and with slog. *)
Cut(err, entries, unwritable) ==
    /\ MarshalLogObject(err, unwritable) = UpTo(entries, FirstFailing(entries, unwritable))
    /\ slogValue(err, unwritable)
           = IF FailingBelow(entries, unwritable) = {} THEN entries ELSE <<entries[1]>>

(* Public errors that cannot be written cost zap no entry before the first of them,
   and every entry after it. They cost slog all entries but the outermost, those
   before the failure too, unless the outermost alone fails: that costs nothing. *)
LoggedUpToFailure ==
    \A n \in Shown :
        LET entries == Logged[n]
        IN  \A unwritable \in SUBSET PublicsOf(entries) : Cut(n, entries, unwritable)
=============================================================================
