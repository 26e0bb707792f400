# Verification of go-errforge

TLA+ models of the error-handling library `errforge`, model-checked with TLC and,
for the parts that matter for every size of instance, proved with TLAPS. Paths
are relative to the repository (`src/`); line numbers name the code that a
definition stands for, and `PROJECT.json` maps every definition to its lines.

## The system

`errforge` keeps no process of its own. It is a library of immutable error
values that callers build (often in several goroutines), pass up a call chain,
and at last answer over HTTP or gRPC or write to a log. What makes it hard to
test is the number of shapes a tree of errors can take and the order in which
calls, goroutines and services touch it.

| Part | Code | State | Operations | Hard behaviour |
|---|---|---|---|---|
| Joining | `errforge.go`, `error_wrappers.go`, `message_error.go` | a MultiError is a slice header over a shared backing array | `Wrap`, `Link`, `Join`, `Append`, `WithErr` | append in place to shared arrays, from several goroutines; `Append` restarts from the first MultiError below its base |
| Trees and readers | `detailed_error.go`, `field_error.go`, `transient.go`, `stack_trace.go`, `propagate.go`, `walk.go`, `utils.go`, `context.go` | the tree; a node has a type, children, a code, a public error | constructors; `As`, `Is`, `walk`, `GetCode`, `GetDetails`, `IsTransient`, `GetFieldErrors` | two traversal orders, inheritance of facts through layers, facts that belong to a field, a skip counter over a walk |
| Mapper | `mapper.go` | a registry of errors and codes, fixed at construction | `Code`, `AttachCodeTo` | map iteration in any order, codes that are there but hidden |
| Codes | `code.go` | none | HTTP and gRPC conversions and classes | non-injective tables, an offset between two numberings, codes outside the list |
| Boundaries | `grpc.go`, `http.go` | the response | `GRPCStatus`, `WriteError`, `WriteErrorJSON` | several services in a row: what does the last client learn? |
| Renderings | `log_view.go`, `pretty_print.go` | the view of a tree | `newLogView`, the encoders for slog, zap and zerolog, `Print` | collapsing of runs of equal messages, facts merged over a run, an encoder that fails half-way |
| Stack traces, frames | `stack_trace.go`, `stack_frame.go` | captured frames | `WithStack`, `captureStack`, `GetStackTrace`, formatting | frames are skipped by count; traces hold 64 |
| Panics | `panic.go` | captured frames | `FromRecover`, `Recover`, `FromPanic` | panics raised while others are under way, trimming of the frames above the panic |
| Public errors | `public_error.go` | sentences for users | formatting | - |
| Wrapf's count | `error_wrappers.go` | none | `countVerbs` | a regular expression against the verbs that fmt reads |
| Linter | `internal/rules`, `cmd/linter` | source text and edits | `noerrors`, `nofmterrorf` and their fixes | classification of formats, fixes that conflict, imports a fix leaves unused |

How they interact: the joining functions and the constructors build trees;
`AttachCodeTo` reads a tree with `GetCode` before it adds a layer; the boundary
functions and the log view read trees with the getters; a client makes a new tree
from an answer and the next service builds on it. The linter proposes calls of
the joining functions, `Wrapf` with its count among them, in place of `fmt.Errorf`.

What makes each part correct:

- joining: a value that a caller has seen never changes; what was added to an
  error stays reachable from it; no write races with a reader; no cycles;
- readers: a layer that has nothing to say about a fact passes it on; the facts
  of a field stay with the field; each violation is reported once;
- codes and boundaries: a chain of services keeps the status, the side at fault
  and the failure itself, and makes nothing retryable;
- renderings: each error is shown once and with the facts the getters answer, and
  a part that cannot be encoded costs no more than the encoder must give up;
- panics: a trace is the stack its panic was raised on, and `FromPanic` returns;
- the linter: a fix keeps what the call wraps and formats, a fixed file compiles,
  and running it again comes to an end.

## Modules

| Module | What it is |
|---|---|
| `ErrorValues` | what the joining functions promise: a growing sequence of immutable values |
| `AppendSlices` | the same functions on slice headers and backing arrays, one `append` per step, several goroutines; implements `ErrorValues` |
| `AppendSlices_proof` | theorems about `AppendSlices`: types, ownership of arrays, immutability, no cycles, what stays reachable, and that it implements `ErrorValues` |
| `Codes` | the list of codes and the conversion tables, as operators |
| `Relay` | an error's code on its way through a chain of services |
| `Relay_proof` | theorems about `Relay` |
| `ErrorTree` | the constructors of errors and the functions that read trees |
| `ErrorTree_proof` | theorems about `ErrorTree`, and what the readers do to any tree |
| `Boundary` | extends `ErrorTree`: a tree carried from service to service; implements `Relay` |
| `Boundary_proof` | extends `ErrorTree_proof`: `Boundary` implements `Relay` |
| `LogView` | extends `ErrorTree`: the log view of every tree, its encoders, and `Print` |
| `LogView_proof` | extends `ErrorTree_proof`: theorems about `LogView` |
| `Formats` | format strings as fmt, `countVerbs` and the linter read them, as operators |
| `ErrorfFix` | extends `Formats`: a `fmt.Errorf` call, what it returns, and the call that replaces it |
| `LinterFiles` | the fixes of both rules on one file, and the driver that applies them |
| `LinterFiles_proof` | a fixed file compiles |
| `PanicTrace` | the stack of a goroutine that defers, panics, recovers and takes traces |
| `PanicTrace_proof` | traces are those of the panic or of the caller |
| `Recursion` | induction and recursive functions over a range of numbers, for the proofs |
| `MC*` | constants of the runs, and the symmetry of `AppendSlices` |

### AppendSlices and ErrorValues

`node` is the sequence of errors made, `array` the backing arrays, `call[g]` the
`Append` goroutine `g` runs: the header it found (`arr`, `len`), its arguments
and the next one. `StartAppend` is the `errors.As` at `errforge.go:81`, `Push`
one round of the loops at lines 82 and 93 - in place when the array has room, on
a copy with `GrowCap` slots when not - and `Return` makes the resulting error.
`WithErr` on an error that has a cause runs the same steps (`combineCauses`).
Plain wrappers and links are made in one step: they share nothing.

`Exclusive` is the discipline under which the code is safe: each MultiError is
the base of at most one `Append`, as in `err = Append(err, e)`. The history
variable `extended` records the bases used. Without it the first finding
below appears. `done` records what each call was given and returned.

`first`, kept with each error, is what `As` finds below it. A MultiError matches
itself, so this never depends on what arrays hold.

### ErrorTree, Boundary and LogView

A node records its Go type, its children in field order, its own code, whether
it has a public error, and (`order`) the nodes of its tree in the order `As`
visits them. The order is stored when the error is made since trees never change;
it puts the causes of a `linkedMultiError` first (`AsKids`), as its `As` does,
while `walk` follows the children. `GetCode`, `GetDetails` and the others are
recursive functions over the tree that follow the code line by line; the Mapper's
`Code` is the set of codes that a map iteration may answer. One action per
constructor; `Ops` selects those that a run uses. `errors.Wrap` and `WithErr`
make the same kind of node; `Wrap` and `Link` with nil or single arguments return
what other actions make. A `PanicError` is a leaf (`FromPanic`): it has no `Unwrap`,
so a panic with an error is no cause of it.

`Boundary` adds the error in hand, `cur`, and what readers say of it. A service
layers it (`Layer`), collects it with others (`Collected`), makes another error
(`Another`) or answers it (`GRPCStatus`, `WriteError`, `WriteErrorJSON`); the
caller's new error replaces it. `FromResponse` is an answer of a server that does
not use errforge. The history variable `origin` is the code that is meant: what the
layer just made carries (`Attaches`; a field error carries none), read from the layer
and not from `GetCode`, so that the refinement of `Relay` holds only if `GetCode`
answers it. A collection whose answer is another makes that the origin: `Join` of an
uncoded `Detailed` and the error in hand makes it NoCode (finding 3), and no property
says that the code survives it. `ErrorResponse` is the sequence of public errors that the body
of a JSON answer shows: the request's, then each field's.

`LogView` adds `repeats`: whether an error's message is that of its cause, the
only thing `transparentCause` asks of messages. Markers always repeat it, `Wrap`
and `Detailed` may. `unnamed` holds the field errors whose name is the empty string:
`joinField` (`log_view.go:144-149`) drops such a part where nothing comes before it, and
an entry without a name shows no field, while `GetFieldErrors` puts a dot between any two. `Logged` is the sequence of objects `newLogView` makes, in
depth-first order; `fprint` the entries that `Print` writes. `MarshalLogObject`
(zap) and `slogValue` are what reaches the log when the Params of some public
errors cannot be encoded: zap returns at the first that fails; slog encodes each public error
and the causes as JSON values of their own (`JSON`), so that a failure anywhere below
costs all causes and one in the outermost entry costs nothing else.

### Relay

`code` is what `GetCode` says, `origin` the code last attached on purpose. A
service may attach a code (`Recode`), mark the error (`Mark`), read another
server's status (`FromResponse`) or answer (`HopGRPC`, `HopHTTP`, `HopJSON`); the
caller reads the answer back with `CodeFromGRPC` or `CodeFromHTTP`, or looks up
the name in the JSON body. errforge has no function for the last: `CodeNamed` is
the inverse of `String` on the list, and a client that meets another name, such as
`CODE(42)`, knows a failure of no known code.

### Formats and ErrorfFix

A format is a sequence of classes of characters; `Operands`, `countVerbs` and
`parseVerbs` scan it as fmt, `Wrapf` and the linter do. `Operands` models fmt,
which is not part of the repository. An author writes a call piece by piece
(`Write`), giving each verb an operand that `go vet` accepts; `Fix` replaces it by
the call that `Classify` and `rewriteFmtErrorf` choose. `Result` is what a call
returns: nil or not, the errors `Is` finds, the operands its message formats. An
operand may be a value, an error, a sentinel of type `*errforge.Error` (which has
builders of its own) or an error variable that holds nil.

`Counted` separates the two subjects: where `Wrapf` counts the verbs as fmt reads
them, the fix keeps causes and values; where it does not, see finding 4. `Simple`
says of which conversions it does: at most one flag, a precision that does not start
with 0, no star, no literal percent. `%.0f` is not one of them.

### LinterFiles

A file is what it uses of `errors`, `fmt` and `errforge`, how it imports each
(named, dot, blank, not at all), and which use stands among the arguments of which
call. `Analyze` is one pass of both rules over the file as it is; the fixes are
then applied one at a time in any order, those that overlap one already applied
are left out, and `Finish` removes named imports that nothing uses. The driver is
the one of go/analysis, modelled from the comments in `imports.go`. Every file of
up to three uses is an initial state. `Built` is a fix that uses no errforge
(`sentinel.WithErr(...)`), `Value` is `fmt.Errorf` not called, which no rule
reports.

### PanicTrace

`stack` holds frames, innermost first. The program calls, defers, panics, runs
functions under `FromPanic` and takes traces as it likes; the Go runtime
(`Dispatch`, `Unwind`, external) runs deferred functions on top of the frame of
`gopanic`, so panics nest. `Recover` is the function of that name and also
`FromPanic`'s use of it; `CallRecover` and `FromRecover` are a handler that calls
`recover()` itself, as the comment of `FromRecover` allows. A trace is cut out of
the stack with the frames of errforge on top, so the skip counts are real.
`taken` records the last trace and the stack it should start with.

## Runs

All runs leave `CHECK_DEADLOCK` off: the errors, calls and hops of a behaviour
are bounded (`MaxNodes`, `MaxArgs`, `MaxHops`), so every behaviour ends, as a
program that makes no more errors does.

| Run | Shows | Bounds and why they are enough |
|---|---|---|
| `append_owned` | `TypeOK`, `Acyclic`, `RaceFree`, `AddedStaysReachable`, `Immutable`, and `ErrorValues` is implemented: every function, two goroutines, under `Exclusive` | 5 errors, 1 argument: an array of one slot grows to two and of two to four, so the next append is in place; two calls overlap at every step. Goroutines are interchangeable (symmetry) |
| `append_aliased` | violation of `AddedStaysReachable` without `Exclusive` | one goroutine suffices |
| `append_dropped` | violation of `ExistingCauseReachable` | one leaf, 6 errors |
| `relay` | `StatusKept`, `FaultKept`, `NeverMadeTransient`, `NoErrorLost`, `CodeKept`, `JSONMirrorsGRPC`, `Settled` | every code of the list, one on each side of it, every status of 400..599, 4 hops; a code settles after one HTTP hop |
| `tree_facts` | `LayersKeepFacts`, `FieldsKeepToThemselves`, `FieldErrorsReportedOnce`, `PublicShownOnce` | 4 errors, 3 arguments: two leaves under a pair under a layer, three layers, runs of three nested fields, repeated members, links with two causes. The constructors left out make nodes like those of `WithErr`, `Link` and `Detailed`; they are in `boundary` and `log_view` |
| `tree_first_code` | violation of `FirstCodeReported` | 3 errors |
| `boundary` | `Relay` is implemented by error trees: `GetCode` answers what a layer attached, whatever is below | 5 errors, 3 hops: layers, an answer, more layers, another answer |
| `log_view` | `LTypeOK`, `LoggedOnce`, `FactsAsRead`, `FieldsLoggedAsReported`, `PrintedAsLogged`, `GettersAsLogged`, `LoggedUpToFailure` | 4 errors, 2 arguments: a run of three, a field interrupted by a layer, a pair below a run, fields with and without a name, every set of failing entries before, among and after others; `Wrap` makes nodes like those of `Detailed` here and is in `boundary` |
| `fix_calls` | `FixKeepsCauses`, `FixKeepsValues`, `NilOnlyForNil`, `WrapfCountsVerbs` | 4 pieces out of eleven: each layout with a verb, a cause or a literal percent before and after, and the verbs the scanners read differently |
| `wrapf_count` | violation of `WrapfWrapsErrors` | 3 pieces: a literal percent, a word, a cause; the trace is `%% s: %w` with an error that is there |
| `fix_files` | `FixedFileCompiles`, `FixesConverge` | 3 uses: a call in a call in a call, or one use of each package; every way to import them |
| `panics` | `TraceOfPanic`, `TakenAtCaller`, `FromPanicReturns` | 2 panics, 3 calls or deferrals, 8 frames, and traces of 6, so that a trace is full; the stack is deeper than a trace while the dispatcher is in it |

Each passing property has a mutant in `PROJECT.json`: a change of one mapped
definition, of the sort a bug would make, that the run detects.

## Findings

1. `append_aliased` - `Append` writes in place to an array that other headers
   cover (`errforge.go:84`). With room in the array of `m`, `a := Append(m, x)`
   and `b := Append(m, y)` share the slot, and `x` is gone from `a`. For the same reason
   `Append(m, a)` makes `a` its own member, after which `Error` and `Is` do not return:
   `Acyclic` holds under `Exclusive` only.
2. `append_dropped` - a second `WithErr` on an error whose cause is a `Wrap` of a
   `Join` keeps the members and drops the `Wrap` (`message_error.go:122`).
3. `tree_first_code` - an uncoded `Detailed` (or a field error) before a coded
   sibling makes `GetCode` answer `NoCode` (`detailed_error.go:169`), where the
   README says it reports the first error that carries a code.
4. `wrapf_count` - `verbRegex` (`error_wrappers.go:63`) sees a verb in `%% s`. In the
   trace `fmt.Errorf("%% s: %w", err)` becomes `Wrapf("%% s", err)`, which takes `err`
   for a value and returns nil. `"100%% sure: %w"`, which the linter's own test
   (`internal/rules/format_test.go:26`) turns into a `Wrapf`, is of that shape. Two
   flags (`%-+d`), `%.f`, `%.0f` and `*` are miscounted the other way, a value being
   taken for an error (dropped if it is none); and where the count exceeds the
   arguments `argsAndErr[:numVerbs]` panics.

More differences between comments and code, seen while modelling and not given
runs:

- `log_view.go:66` says that an entry is transient when `IsTransient` says so; the
  code asks every error of a run (line 120), so a `PropagateWithCode` that keeps the
  wording and hides a transient code is logged transient all the same.
- `FieldError("", FieldError("city", err))` is logged as `city` and reported by
  `GetFieldErrors` as `.city` (`log_view.go:145` against `field_error.go:62`).
- slog loses every cause of an error when one public error below it cannot be encoded,
  those before it too; zap loses those after it, zerolog none.
- `pretty_print.go:11-12` promises the message of every error of the tree; `fprint`
  follows `Unwrap` and does not visit the error that `Link` joins.
- `walk.go:7-8` says that `As` takes the error a `Link` joins before its causes,
  which `linkedMultiError.As` (`error_wrappers.go:197`) does not.
- `code.go:240-241` says that the listed statuses report the code that `HTTP` maps
  back to them, which is not so for 405, 408, 413, 416, 428, 502 and 507.
- `imports.go:73-75` says that a dot import is removed when the fixes leave it
  unused; it is also removed when `Errorf` is used without a call, which no rule
  reports, and when the fix of a use is left out for a conflicting one (`Orphans`).
- `panic.go:74-76` and `README.md:1077-1079` say that a trace starts at the function
  that panicked; after a fault (a nil dereference, say) it starts at the helpers of
  the runtime that raise the panic. `TraceOfPanic` counts them in.
- `noerrors.go:27-28` says "with the same signature", but `errforge.New` returns
  `*Error`, so a rewritten file may not compile for its types.
- `public_error.go:138` raises the first byte of a sentence, not its first letter.

## Fairness and liveness

Most operations are calls that run in their caller and wait for nothing; that they
return is `Acyclic`, since recursion over a tree ends because the members of an
error are older than it. `AppendSlices` states no fairness: a goroutine may be
preempted for ever and no property of the others depends on it. Two modules do:

- `PanicTrace`: `WF_vars(Return)` and `WF_vars(Dispatch \/ Unwind \/ Recover)`. A
  function of the program may call and panic but returns in the end, and the Go
  runtime goes on with what it has started: a goroutine that waits for nothing is
  scheduled. Under it every `FromPanic` returns (`FromPanicReturns`). The bounds on
  calls and panics stand for a program whose functions do not call each other for
  ever.
- `LinterFiles`: `WF_vars(Next)`. The driver waits for nothing, and its user runs it
  again for as long as it has something to fix. Under it the runs end with nothing
  left to fix (`FixesConverge`).

## Proofs

Every proof is for any value of the constants: any number of errors, arguments,
goroutines, hops, panics and uses, any codes, sentinels and registry. The bounds
of the runs (`MaxNodes`, `MaxHops`, ...) are constants too, so no theorem depends
on them. 31 theorems are listed; `PROJECT.json` names the property each states.

**Induction over data.** The induction theorems of the library take operators,
which the provers cannot instantiate. `Recursion` proves the two facts that the
other proofs need over sets and functions instead: a set of numbers that contains
each `n` whose predecessors it contains is the whole range (`IntervalInduction`),
and a function whose value at `n` reads only values before `n` exists
(`StepFunction`, `TableFunction`). Both rest on `LeastElement`. The children of an
error are older than it, so this covers recursion over trees. A recursive function
must have a domain that the recursion stays in (`Ids`, `0..Len(node)`) for its
existence to be provable.

**Relay.** `Relay_proof` proves type correctness, `StatusKept`, `FaultKept`,
`NeverMadeTransient`, `NoErrorLost`, `CodeKept`, `JSONMirrorsGRPC` and `Settled`.
The inductive invariant `IInv` adds to type correctness and `CodeKept` that the
error is still failing, that the code in hand keeps the promises of the origin
(`Kept`: the same status, the fault, no new transience), and that after an HTTP hop
it is a fixed point of the transports (`Fixed`). It is needed because `StatusKept`
alone says nothing of the next hop's class or success. The work is in lemmas about
the tables: `HTTPHop`, `GRPCHop` and `JSONHop` say what reading an answer back does
to any integer that is not OK. `JSONHop` reduces the third transport to the second,
so `ExactHopIInv` serves both. Assumptions: no service attaches OK
(`CodesAssumption`, from the comment of the code list in `code.go`), and foreign
failure statuses are 4xx and 5xx (`StatusesAssumption`).

**Joining.** `AppendSlices_proof` proves `TypeOK`, `RaceFree` and `Immutable` under
`Exclusive`. The invariant `TypeOK /\ Owned` says who may write an array in place:
of the errors that share an array, the longest is the only one not yet appended to;
a running call covers every error that shares its array; no two calls hold the same
one. `RaceFree` follows at once; `Immutable` because a write goes beyond the length
of every header on its array. Of `GrowCap`, the growth of a full slice, the proofs
use only that the copy has room for one more.

The refinement strengthens it with `CallsBuild`: below the length of its
header, the array of a running call holds the members it started from and then the
arguments appended so far. Without it nothing relates what `Return` publishes to
what the call was given. From it follow `Acyclic` and the refinement: `Return` makes
the very value that `ErrorValues` makes of base and arguments in one step, `Push`
writes beyond every published header and so is a stutter. For `AddedStaysReachable`
the invariant `ResultsHold` says of each finished call that its arguments are
members of the result, or of the result's cause; `ReachClosure` gives what is known
of the recursive `Reach`: it is the least set that contains the error and the
members of each of its errors.

**Trees.** `ErrorTree_proof` proves `TypeOK`, `LayersKeepFacts`,
`FieldsKeepToThemselves`, `FieldErrorsReportedOnce` and `PublicShownOnce`. The invariant `TreeIInv` adds to `TypeOK` that the order
kept with an error is itself and then the orders of its children, in the order of
`AsKids` (`OrderOK`); from it, what `As` finds is the error itself when its kind
matches, and else what it finds in the first child where it finds anything.
`SentinelsAssumption` (an error made elsewhere is not of a type of errforge) keeps
the cases of `KindOK` apart, and `CodeOK` says which types hold a code at all: without
it a code could come from an error that no reader asks. For fields: whatever comes
in the order of an error before the first field is in `OutsideFields`
(`BeforeFields`). As field errors have the methods `Code` and `Details` themselves,
`As` stops at the first field at the latest, and a field answers nothing. `GetCode`
asks for gRPC and context errors only where As found no error with a code, hence in
trees without any field.

The skip counter of `GetFieldErrors` is about what stands next to each other in a
walk. `Chain` says it for every tree: right after a field error comes the error it
holds, and an error that a field error holds comes right after it (`Next2`); a walk
never ends with a field error, so this survives where the walks of two children meet
(`ChainJoin`). The invariant of the loop (`LoopFound`) is then that the counter holds
what is left of the run that the error before belongs to (`Rest`) and that the runs
found are those the walk has started so far: where the counter is not zero, the next
error is inside the run; where a run starts, it is zero.

`PublicShownOnce` adds up what each part of a tree shows (`ResponseParts`): the fields
below an error show what the fields below its children show (`Parts`), a field that
starts a run shows in addition what `GetDetails` answers for the error its run holds
(`Shows`, `RunShows`). Of the parts of a tree that holds no error twice, what they show
lies in different subtrees (`KidPlaces`, `TreeParts`), and what a request shows for
itself lies outside its fields (`FieldsKeepToThemselves`). `ReadSteps` reduces any
reading of a walk to readings of the walks below; it rests on lemmas about sequences
of sequences (`FlattenTable`, `FlattenAgree`, `FlattenDistinct`, `FlatMapFlatten`).

**Boundaries.** `Boundary_proof` proves that the steps on trees are steps of `Relay`.
`BoundaryIInv` adds to `TreeIInv` that the error in hand exists, that `code` and
`marked` are what the readers say of it, and that codes come from callers, the
registry or an answer (`CodesKnown`): these are the codes `Relay` is instantiated
with. A new error changes nothing of what is read from the others (`ReadKept`,
induction over the tree); a layer passes on code and marker (`LayersPass`) or
attaches one, and an error that carries a code and asks no other answers with it
(`OwnAnswers`; `AttachedAssumption` keeps NoCode out of `Codes`, since a layer with
NoCode attaches none); an answer makes an error without children, whose code is its own.
The theorems of `Relay_proof` thus hold of error trees: `TreesKeepPromises` says so of
what `GetCode` answers for the tree in hand, relative to `origin`, and how `origin` may
change (`OriginGiven`): to what the error just made carries, or, in a collection, to
what `GetCode` says of another error collected (`CollectionAnswers`, from `AsOfKids`).

**Renderings.** `LogView_proof` proves all that `log_view` checks. `LIInv` adds to
`TreeIInv` that an error repeats a message only if it has one cause and that a marker
always does (`RepeatsOK`), and that `AttachCodeTo` gave codes only to errors that had
none (`StampedOnce`). The last is what `FactsAsRead` needs: As stops at the outermost
error with a code, a run at the first answer other than `NoCode`, and the two would
differ if a code could be stamped on one that is there (`QuietBelow`, `FirstOfRun`).

An error that repeats its cause has the entries of that cause, except that it stands
before the first of their runs (`RunFacts`, `LoggedFacts`); any other error is an entry
of its own before those of its children. All seven theorems are inductions along these
two cases, which follow `transparentCause`, not the shape of a tree:

- `LoggedOnce`: the runs of the entries, joined, are the walk (`LoggedVisits`).
- `GettersAsLogged`: what is carried first in the entries is what is carried first in
  the walk (`CarriedFirst`, by `FirstFlatten`), and where no Link has several causes the
  order of As is the walk (`OrderIsWalk`).
- `PrintedAsLogged`: where nothing is linked, what the last error of a run unwraps to
  are its children, so the lines are the entries (`PrintedEntries`).
- `LoggedUpToFailure`: an object of zap's is its entries up to the first that fails
  (`ObjectCuts`). This survives in arrays, as what is cut of two sequences together is
  what is cut of the first, or all of it and what is cut of the second (`CutJoin`,
  `ArrayCuts`). A JSON value is all of its entries or none (`JSONWhole`), which makes
  slog's causes all or nothing (`WholeCauses`). Any set of public errors may fail.
- `FieldsLoggedAsReported`: where the fields of a run stand together, its name is that of
  the violation that its first field starts (`RunNamed`). A field error's name comes before
  that of its cause, so the names of a tree are those of its children with the first
  of them extended or, where none nests, as they are (`NamesReported`), without the
  empty parts it starts with (`NamedSpoken`, `SpokenJoin`, `HeardNames`); the reports of
  `GetFieldErrors` follow the same two cases (`ReportedSteps`), from the loop
  invariant of `FieldErrorsReportedOnce` (`ReportsWalk`).

**Files.** `LinterFiles_proof` proves `FixedFileCompiles`. `FixIInv` says what holds
while fixes are applied (`Fixing`): a use has changed only if its fix was applied
(`UsesFixed`); an import that every fix of a rule deletes is there until the first of
them is applied, and only uses that are fixed, or `Errorf` itself, depend on it; one
that no fix deletes has a use that none touches (`ImportFixed`); errforge is imported
with the first fix that needs it (`ErrforgeImported`). `Orphans` are the uses, `Errorf` not called or a call whose fix was left out, that lost
their dot import: such a file does not compile for them. The theorem speaks of every
file all the same: each import left has a use, and only orphans may want one.

**Panics.** `PanicTrace_proof` proves `TraceOfPanic` and `TakenAtCaller`. `StackOK` says
of each frame of `gopanic` on the stack that the stack its panic was raised on still
stands under it, and that the frame whose deferred function it runs is there
(`FrameOK`). With it the frames that are cut off a trace are those above the panic.
`DepthAssumption` (a trace is deeper than the four frames that may stand above a
panic) and `FuncsAssumption` (`gopanic` is not a function of the program) hold of the
code: traces hold 64 frames, and `gopanic` is the runtime's.

**Model-checked only.**

- Liveness (`FromPanicReturns`, `FixesConverge`): fairness and ENABLED are out of
  the prover's reach.
- `Formats` and `ErrorfFix` (four invariants): they compare scanners of format strings
  (`Operands` for fmt, `countVerbs`, `parseVerbs`) and hold of the conversions that
  `go vet` accepts, of which the pieces of `fix_calls` are made. They do not hold of any
  `Pieces` whatever: in `%5+w`, `parseVerbs` reads a `w` where fmt reads a `+`. A theorem
  would have to assume a grammar of formats that no code of the repository states.
- The runs that expect a violation.

## Not modelled

- Messages and their formatting, `WithDetail`, the texts of codes, headers, keys of
  log entries, names and lines of frames: text without control.
- The sentences of a `PublicError`: pure conversions.
- Go's types in the linter: an edit of a well-typed file is taken for well-typed.
  Explicit argument indexes in formats (`%[1]s`), which the linter leaves alone.
- A file that imports one package twice, under two names or by a name and a dot.
- `RootCause`, `IsAny`, `Handle`, `Filter`, `ExitCode`: one loop or one branch over
  parts that are modelled. (`ExitCode` answers 1 for an error without a code and for
  the code OK alike.)
- `cmd/linter`, which registers the two rules, and the linter's fixtures.
- No crash, timeout or retry: the library keeps nothing and waits for nothing.

## Plan

The modelling is done: joining and its refinement, codes and relay over three
transports, trees and readers, boundaries, renderings and encoders, formats and
fixes, files, panics. So are the proofs of every safety property of these, but for
those of `ErrorfFix`, which need a grammar of the formats that `go vet` accepts: with
it, the positions that `Operands` and `parseVerbs` come to are the same, by induction
over the format. Liveness stays with TLC.
