-------------------------------- MODULE Relay --------------------------------
(***************************************************************************)
(* What the boundary functions promise about an error that travels up a      *)
(* chain of services: each service may mark it or attach a code to it, then  *)
(* answers it to its own caller, over gRPC (GRPCStatus), over HTTP in plain  *)
(* text (WriteError) or in JSON (WriteErrorJSON), and the caller reads it    *)
(* back: by GetCode on the gRPC error, by CodeFromHTTP on the status, by the *)
(* name of the code in the body.  Only the code of the error is kept here;   *)
(* Boundary carries whole error trees through the same steps.                *)
(***************************************************************************)
EXTENDS Codes

CONSTANTS
    Codes,      \* the codes services attach
    Statuses,   \* the failure statuses of servers that do not use errforge
    MaxHops     \* bound on the answers of a behaviour

(* "OK ... is never attached to an error." *)
ASSUME CodesAssumption == Codes \subseteq Int \ {Code.OK}
ASSUME StatusesAssumption == Statuses \subseteq 400..599
ASSUME MaxHopsAssumption == MaxHops \in Nat

VARIABLES
    code,       \* what GetCode reports of the error
    marked,     \* whether ToTransient marked the error
    failing,    \* FALSE once a caller has read success instead of the error
    hops,       \* number of answers
    origin,     \* history: the code last attached on purpose
    viaHTTP     \* history: a plain text answer of errforge was read since
                \* the code was attached

vars == <<code, marked, failing, hops, origin, viaHTTP>>
Hops == 0..MaxHops

Attached(c) == code' = c /\ origin' = c /\ viaHTTP' = FALSE

Init ==
    /\ code \in Codes \cup {Code.NoCode} /\ origin = code
    /\ marked \in BOOLEAN /\ failing = TRUE
    /\ hops = 0 /\ viaHTTP = FALSE

(* PropagateWithCode, AttachCodeTo, a field error (NoCode), or joining the error
   with another one: the code is replaced, and a marker is never taken off. *)
Recode(c) ==
    /\ failing /\ Attached(c)
    /\ marked' \in BOOLEAN /\ (marked => marked')
    /\ UNCHANGED <<failing, hops>>

(* ToTransient, or joining the error with a marked one. *)
Mark ==
    /\ failing /\ ~marked /\ marked' = TRUE
    /\ UNCHANGED <<code, failing, hops, origin, viaHTTP>>

(* The caller of a server without errforge makes the error of its status. *)
FromResponse(status) ==
    /\ hops < MaxHops /\ failing
    /\ Attached(CodeFromHTTP(status))
    /\ marked' = FALSE /\ hops' = hops + 1
    /\ UNCHANGED failing

(* The service answers, and the caller reads success from OK, the error else:
   only its code crosses. *)
Answer(ok, c) ==
    /\ hops < MaxHops /\ failing /\ hops' = hops + 1
    /\ IF ok THEN failing' = FALSE /\ UNCHANGED <<code, marked>>
             ELSE code' = c /\ marked' = FALSE /\ UNCHANGED failing
    /\ UNCHANGED origin

HopGRPC ==
    /\ Answer(GRPC(code) = GRPC(Code.OK), CodeFromGRPC(GRPC(code)))
    /\ UNCHANGED viaHTTP

HopHTTP ==
    /\ Answer(HTTP(code) < 400, CodeFromHTTP(HTTP(code)))
    /\ viaHTTP' = TRUE

(* A client of the JSON answer reads the name of the code. *)
HopJSON ==
    /\ Answer(HTTP(code) < 400, CodeNamed(responseCode(code)))
    /\ UNCHANGED viaHTTP

Next ==
    \/ \E c \in Codes \cup {Code.NoCode} : Recode(c)
    \/ Mark
    \/ \E status \in Statuses : FromResponse(status)
    \/ HopGRPC \/ HopHTTP \/ HopJSON

Spec == Init /\ [][Next]_vars

-----------------------------------------------------------------------------
(* A code is one that a service attached or one of the list. *)
Known == Codes \cup (Code.NoCode..Code.Unauthenticated)
TypeOK ==
    /\ code \in Known /\ origin \in Known
    /\ marked \in BOOLEAN /\ failing \in BOOLEAN /\ viaHTTP \in BOOLEAN
    /\ hops \in Hops

(* The status the last client would see is the status of the code that was
   attached last, however many services the error has crossed since. *)
StatusKept == HTTP(code) = HTTP(origin)

(* A failure on our side never becomes the caller's fault on the way, and only
   what answers 500 may come to be read as one. *)
FaultKept ==
    /\ Internal(origin) => Internal(code)
    /\ Internal(code) => HTTP(origin) = 500

(* No hop turns a permanent failure into one that clients retry. *)
NeverMadeTransient == Transient(code) => Transient(origin)

(* No client reads success where a service failed. *)
NoErrorLost == failing

(* Over gRPC and JSON a code of the list arrives as it was attached: only the
   status of a plain text answer is shared by several. *)
Listed(c) == c \in Code.Canceled..Code.Unauthenticated
CodeKept == ~viaHTTP /\ Listed(origin) => code = origin

(* "An error without a code reports UNKNOWN, as GRPCStatus does": the body names
   the code that the caller would read over gRPC. *)
JSONMirrorsGRPC ==
    failing => CodeNamed(responseCode(code)) = CodeFromGRPC(GRPC(code))

(* Once a plain text answer has been read, the code is settled: hops change it no
   more until a service attaches another. *)
Settled == [][viaHTTP /\ viaHTTP' => code' = code]_vars
=============================================================================
