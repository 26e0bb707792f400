------------------------------ MODULE Boundary ------------------------------
(***************************************************************************)
(* An error tree on its way through a chain of services.  A service adds     *)
(* layers to the error in hand, or collects it with others, and answers it:  *)
(* GRPCStatus, WriteError and WriteErrorJSON read its code with GetCode, and *)
(* the caller makes a new error of the answer, to be layered in its turn.    *)
(* It implements Relay, which keeps the code of the error and nothing else.  *)
(***************************************************************************)
EXTENDS ErrorTree

CONSTANTS
    Statuses,   \* the failure statuses of servers that do not use errforge
    MaxHops     \* bound on the answers of a behaviour

ASSUME StatusesAssumption == Statuses \subseteq 400..599
ASSUME MaxHopsAssumption == MaxHops \in Nat
(* A layer with NoCode attaches no code: Annotate has it. *)
ASSUME AttachedAssumption == Code.NoCode \notin Codes

VARIABLES
    cur,        \* the error in hand
    code,       \* what GetCode reports of it
    marked,     \* whether As finds a ToTransient marker in it
    failing,    \* FALSE once a caller has read success instead of the error
    hops,       \* number of answers
    origin,     \* history: the code last attached, NoCode behind a field error,
                \* or the code that a collection replaced it with
    viaHTTP     \* history: a plain text answer was read since the code was attached

bvars == <<node, cur, code, marked, failing, hops, origin, viaHTTP>>

Reread == code' = GetCode[cur]' /\ marked' = Marked(cur)'

(* The error just made carries the code that is meant from now on, NoCode for a
   field error: what it carries, not what GetCode says of it. *)
Attaches == origin' = Last(node').code /\ viaHTTP' = FALSE

Origins ==
    {Plain(s, <<>>) : s \in Sentinels \cup {"canceled", "deadline"}}
    \cup {Error("detailed", <<>>, c, FALSE) : c \in Codes \cup {Code.NoCode}}

BInit ==
    /\ node \in {<<[e EXCEPT !.order = <<1>>]>> : e \in Origins}
    /\ cur = 1 /\ failing = TRUE /\ hops = 0
    /\ code = GetCode[cur] /\ marked = Marked(cur)
    /\ origin = code /\ viaHTTP = FALSE

(* The service adds a layer to the error in hand. *)
Layer ==
    /\ failing
    /\ \/ Annotate(cur) /\ cur' = Len(node') /\ Reread
          /\ UNCHANGED <<origin, viaHTTP>>
       \/ (Stamp(cur) \/ FieldError(cur)) /\ cur' = Len(node') /\ Reread /\ Attaches
    /\ UNCHANGED <<failing, hops>>

(* It makes another error and collects the two: what GetCode reports may then be
   the code of either, and a code of another error replaces the one attached. *)
Collected ==
    /\ failing
    /\ \E errs \in ArgLists : cur \in ToSet(errs) /\ Collect(errs)
    /\ cur' = Len(node') /\ Reread
    /\ IF code' = code THEN UNCHANGED <<origin, viaHTTP>>
                       ELSE origin' = code' /\ viaHTTP' = FALSE
    /\ UNCHANGED <<failing, hops>>

Another ==
    /\ failing /\ Originate
    /\ UNCHANGED <<cur, code, marked, failing, hops, origin, viaHTTP>>

(* Only the answer crosses: the caller reads success, or makes a new error. *)
Read(ok, error) ==
    /\ failing /\ hops < MaxHops
    /\ hops' = hops + 1 /\ failing' = ~ok
    /\ IF ok THEN UNCHANGED <<node, cur, code, marked>>
             ELSE Place(error) /\ cur' = Len(node') /\ Reread

(* status.Error answers nil for codes.OK. *)
GRPCStatus ==
    LET g == GRPC(code) IN
    /\ Read(g = GRPC(Code.OK), Error("grpc", <<>>, g, FALSE))
    /\ UNCHANGED <<origin, viaHTTP>>

WriteError ==
    LET status == HTTP(code) IN
    /\ Read(status < 400, Error("detailed", <<>>, CodeFromHTTP(status), FALSE))
    /\ UNCHANGED origin /\ viaHTTP' = TRUE

WriteErrorJSON ==
    /\ Read(HTTP(code) < 400, Error("detailed", <<>>, CodeNamed(responseCode(code)), FALSE))
    /\ UNCHANGED <<origin, viaHTTP>>

FromResponse(status) ==
    /\ Read(status < 400, Error("detailed", <<>>, CodeFromHTTP(status), FALSE))
    /\ Attaches

BNext ==
    /\ Room
    /\ \/ Layer \/ Collected \/ Another
       \/ GRPCStatus \/ WriteError \/ WriteErrorJSON
       \/ \E s \in Statuses : FromResponse(s)

BSpec == BInit /\ [][BNext]_bvars

-----------------------------------------------------------------------------
(* Every step is one that Relay allows: a layer keeps the code, or attaches one
   that GetCode then answers, whatever is below; no layer takes a marker off; an
   answer carries over the code that GetCode reports and that alone. *)
Relays == INSTANCE Relay WITH
    Codes <- (Codes \cup Range(Registered) \cup (Code.NoCode..Code.Unauthenticated)) \ {Code.OK}
ImplementsRelay == Relays!Spec
=============================================================================
