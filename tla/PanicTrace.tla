------------------------------ MODULE PanicTrace ------------------------------
(***************************************************************************)
(* The stack of a goroutine that panics, recovers and takes stack traces.    *)
(* Functions call each other, defer Recover, a handler of their own or any   *)
(* other function, and run what they call under FromPanic; the Go runtime    *)
(* runs the deferred functions on top of the dispatcher of the panic,        *)
(* gopanic, so that a panic may be raised while another is under way.  What  *)
(* captureStack sees is the stack as it stands.                              *)
(***************************************************************************)
EXTENDS Naturals, Sequences, SequencesExt

CONSTANTS
    Funcs,          \* the functions of the program
    maxStackDepth,  \* the frames that a trace holds
    MaxDepth,       \* bound on the stack
    MaxCalls,       \* bound on the calls of a behaviour
    MaxPanics       \* bound on its panics

ASSUME BoundsAssumption ==
    {maxStackDepth, MaxDepth, MaxCalls, MaxPanics} \subseteq Nat
(* Four frames may stand above a panic, and a trace has a frame to start with. *)
ASSUME DepthAssumption == maxStackDepth > 4
(* gopanic is a function of the runtime. *)
ASSUME FuncsAssumption == "gopanic" \notin Funcs

VARIABLES
    stack,      \* the frames, innermost first
    calls,      \* number of calls and deferrals so far
    panics,     \* number of panics so far
    crashed,    \* whether a panic ended the program
    taken       \* history: the last trace taken, and where it should start

vars == <<stack, calls, panics, crashed, taken>>

(* A frame: its function, what it deferred, and whether it only returns by now.
   Of a dispatcher, also the stack that it was called on, the height of the frame
   whose deferred function it runs, and whether that function recovered. *)
Frame(fn, defers) == [fn |-> fn, defers |-> defers, returning |-> FALSE,
                      site |-> <<>>, height |-> 0, recovered |-> FALSE]
Returning(fn, defers) == [Frame(fn, defers) EXCEPT !.returning = TRUE]
Names(frames) == [i \in 1..Len(frames) |-> frames[i].fn]
Top == stack[1]
Push(frames) == stack' = frames \o stack
Running == stack # <<>> /\ ~crashed

(* The functions whose code the program chooses. *)
User(fn) == fn \in Funcs \cup {"handler", "callback"}
Acts == Running /\ User(Top.fn) /\ ~Top.returning

(* Whether frame i is a dispatcher, of a panic that is over or not. *)
Dispatcher(i, recovered) ==
    i <= Len(stack) /\ stack[i].fn = "gopanic" /\ stack[i].recovered = recovered

-----------------------------------------------------------------------------
(* Traces. *)

(* runtime.Callers fills an array of maxStackDepth frames. *)
Callers(frames, skip) ==
    LET last == skip + maxStackDepth
    IN  SubSeq(frames, skip + 1, IF last < Len(frames) THEN last ELSE Len(frames))
(* Mutant: captureStack does not count itself. *)
captureStackShort(frames, skip) == Callers(frames, skip + 1)
(* The innermost frames are those of Callers and captureStack. *)
captureStack(frames, skip) == Callers(frames, skip + 2)
Capturing(callers) == <<"Callers", "captureStack">> \o callers \o Names(stack)

IsDispatcher(fn) == fn = "gopanic"
(* Mutant: the trace starts after the outermost dispatcher. *)
capturePanicStackLast(callers) ==
    LET full == captureStack(Capturing(<<"capturePanicStack">> \o callers), 1)
    IN  SubSeq(full, SelectLastInSeq(full, IsDispatcher) + 1, Len(full))
(* Everything up to the first dispatcher is left out; nothing without one. *)
capturePanicStack(callers) ==
    LET full == captureStack(Capturing(<<"capturePanicStack">> \o callers), 1)
    IN  SubSeq(full, SelectInSeq(full, IsDispatcher) + 1, Len(full))

Taken(by, trace, site) == taken' = [by |-> by, trace |-> trace, site |-> site]

(* WithStack, Detailed or another constructor, and CreateStackFrame. *)
WithStack == Taken("WithStack", captureStack(Capturing(<<"WithStack">>), 1), Names(stack))
newDetailed ==
    Taken("location",
          SubSeq(captureStack(Capturing(<<"newDetailed", "Detailed">>), 2), 1, 1), Names(stack))
CreateStackFrame ==
    Taken("location", <<(<<"Caller", "CreateStackFrame">> \o Names(stack))[3]>>, Names(stack))
Annotate ==
    /\ Acts /\ (WithStack \/ newDetailed \/ CreateStackFrame)
    /\ UNCHANGED <<stack, calls, panics, crashed>>

-----------------------------------------------------------------------------
(* The program. *)

Room(n) == Len(stack) + n <= MaxDepth /\ calls < MaxCalls /\ calls' = calls + 1

CallFunc(fn) ==
    /\ Acts /\ Room(1) /\ Push(<<Frame(fn, <<>>)>>)
    /\ UNCHANGED <<panics, crashed, taken>>

Defer(fn) ==
    /\ Acts /\ Room(0)
    /\ stack' = [stack EXCEPT ![1].defers = <<fn>> \o @]
    /\ UNCHANGED <<panics, crashed, taken>>

(* Mutant: nothing is deferred in the closure. *)
closureDefersNone == <<>>
(* FromPanic runs fn in a closure, which defers Recover and sets the error. *)
closureDefers == <<"RecoverErr">>
FromPanic(fn) ==
    /\ Acts /\ Room(3)
    /\ Push(<<Frame(fn, <<>>), Returning("closure", closureDefers), Returning("FromPanic", <<>>)>>)
    /\ UNCHANGED <<panics, crashed, taken>>

(* panic(v); and a fault, which a function of the runtime turns into a panic. *)
Raise(helpers) ==
    /\ Acts /\ panics < MaxPanics /\ panics' = panics + 1
    /\ Push(<<[Frame("gopanic", <<>>) EXCEPT !.site = helpers \o Names(stack)]>>
            \o [i \in 1..Len(helpers) |-> Frame(helpers[i], <<>>)])
    /\ UNCHANGED <<calls, crashed, taken>>

(* A function returns: its deferred functions run first. *)
Return ==
    /\ Running /\ (Top.returning \/ User(Top.fn))
    /\ stack' = IF Top.defers = <<>> THEN Tail(stack)
                ELSE <<Frame(Top.defers[1], <<>>)>>
                     \o [stack EXCEPT ![1].defers = Tail(@), ![1].returning = TRUE]
    /\ UNCHANGED <<calls, panics, crashed, taken>>

-----------------------------------------------------------------------------
(* The runtime. *)

(* The dispatcher runs the innermost deferred function, on top of itself, or ends
   the program. *)
Dispatch ==
    LET deferring == SelectInSeq(stack, LAMBDA f : f.defers # <<>>) IN
    /\ Running /\ Dispatcher(1, FALSE)
    /\ IF deferring = 0 THEN crashed' = TRUE /\ UNCHANGED stack
       ELSE /\ stack' = <<Frame(stack[deferring].defers[1], <<>>)>>
                        \o [stack EXCEPT ![deferring].defers = Tail(@),
                                         ![1].height = Len(stack) - deferring + 1]
            /\ UNCHANGED crashed
    /\ UNCHANGED <<calls, panics, taken>>

(* A panic is over when the deferred function that recovered it returns: so does
   the function that deferred it. *)
Unwind ==
    /\ Running /\ Dispatcher(1, TRUE)
    /\ LET kept == SubSeq(stack, Len(stack) - Top.height + 1, Len(stack))
       IN  stack' = [kept EXCEPT ![1].returning = TRUE]
    /\ UNCHANGED <<calls, panics, crashed, taken>>

-----------------------------------------------------------------------------
(* Recovering. *)

(* recover() answers only the function that a dispatcher runs. Recover hands the
   panic to the callback of the program, or to the one that sets FromPanic's
   error; with no panic it does nothing. *)
Recover ==
    /\ Running /\ Top.fn \in {"Recover", "RecoverErr"} /\ ~Top.returning
    /\ IF Dispatcher(2, FALSE)
       THEN /\ stack' = <<IF Top.fn = "Recover" THEN Frame("callback", <<>>)
                                               ELSE Returning("setErr", <<>>)>>
                        \o [stack EXCEPT ![1].returning = TRUE, ![2].recovered = TRUE]
            /\ Taken("panic", capturePanicStack(<<"FromRecover">>), stack[2].site)
       ELSE stack' = [stack EXCEPT ![1].returning = TRUE] /\ UNCHANGED taken
    /\ UNCHANGED <<calls, panics, crashed>>

(* A handler calls recover() itself, *)
CallRecover ==
    /\ Acts /\ Top.fn = "handler" /\ Dispatcher(2, FALSE)
    /\ stack' = [stack EXCEPT ![2].recovered = TRUE]
    /\ UNCHANGED <<calls, panics, crashed, taken>>

(* and FromRecover, or has it called by a function that it calls directly. *)
FromRecover(handler) ==
    /\ Acts /\ handler <= Len(stack) /\ stack[handler].fn = "handler"
    /\ Dispatcher(handler + 1, TRUE)
    /\ Taken("panic", capturePanicStack(<<"FromRecover">>), stack[handler + 1].site)
    /\ UNCHANGED <<stack, calls, panics, crashed>>

-----------------------------------------------------------------------------
Init ==
    /\ \E fn \in Funcs : stack = <<Frame(fn, <<>>)>>
    /\ calls = 0 /\ panics = 0 /\ crashed = FALSE
    /\ taken = [by |-> "nothing", trace |-> <<>>, site |-> <<>>]

Program ==
    \/ \E fn \in Funcs : CallFunc(fn) \/ FromPanic(fn)
    \/ \E fn \in Funcs \cup {"Recover", "handler"} : Defer(fn)
    \/ \E helpers \in {<<>>, <<"panicmem", "sigpanic">>} : Raise(helpers)
    \/ Annotate \/ Return

Next == Program \/ Dispatch \/ Unwind \/ Recover \/ CallRecover
        \/ \E handler \in {1, 2} : FromRecover(handler)

(* The functions of the program return in the end, and what the runtime and the
   library have to do is done: the goroutine is scheduled and none of it waits. *)
Fairness == WF_vars(Return) /\ WF_vars(Dispatch \/ Unwind \/ Recover)
Spec == Init /\ [][Next]_vars /\ Fairness

-----------------------------------------------------------------------------
(* "Trimmed so it starts at the function that actually panicked": whatever panics
   are under way, the trace is the stack that this one was raised on, with the
   helpers of the runtime that raised it, as far as a trace goes. Four frames at
   the most stand above it. *)
TraceOfPanic ==
    taken.by = "panic" =>
        /\ taken.trace # <<>> /\ IsPrefix(taken.trace, taken.site)
        /\ taken.trace # taken.site => Len(taken.trace) >= maxStackDepth - 4

(* A trace or a location starts at the function that asked for it, however many
   functions of errforge lie between. *)
TakenAtCaller ==
    /\ taken.by = "location" => taken.trace = <<taken.site[1]>>
    /\ taken.by = "WithStack" =>
           taken.trace = SubSeq(taken.site, 1,
               IF Len(taken.site) < maxStackDepth THEN Len(taken.site) ELSE maxStackDepth)

(* A panic never ends the program below a FromPanic: the call returns. *)
InFromPanic == \E i \in 1..Len(stack) : stack[i].fn = "FromPanic"
FromPanicReturns == InFromPanic ~> ~InFromPanic
=============================================================================
