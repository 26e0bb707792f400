-------------------------------- MODULE Codes --------------------------------
(***************************************************************************)
(* The error codes of errforge and their conversions to and from the HTTP    *)
(* statuses and the gRPC codes.  A code is an int: any integer may be one.   *)
(***************************************************************************)
EXTENDS Integers

(* The list of codes, numbered by iota. *)
Code == [NoCode |-> 0, OK |-> 1, Canceled |-> 2, Unknown |-> 3,
         InvalidArgument |-> 4, DeadlineExceeded |-> 5, NotFound |-> 6,
         AlreadyExists |-> 7, PermissionDenied |-> 8, ResourceExhausted |-> 9,
         FailedPrecondition |-> 10, Aborted |-> 11, OutOfRange |-> 12,
         Unimplemented |-> 13, Internal |-> 14, Unavailable |-> 15,
         DataLoss |-> 16, Unauthenticated |-> 17]

(* The codes of google.golang.org/grpc/codes start at OK. *)
GRPCUnknown == 2
GRPCCodes == 0..16

(* Mutant: a failure nobody classified is worth a retry. *)
TransientUnknown(c) ==
    c \in {Code.Unavailable, Code.Aborted, Code.DeadlineExceeded, Code.Unknown}
Transient(c) == c \in {Code.Unavailable, Code.Aborted, Code.DeadlineExceeded}

(* Mutant: the code named Internal is left out of its own class. *)
InternalDataOnly(c) == c \in {Code.DataLoss, Code.Unknown}
Internal(c) == c \in {Code.Internal, Code.DataLoss, Code.Unknown}

StatusClientClosedRequest == 499

HTTP(c) ==
    CASE c = Code.OK                                       -> 200
      [] c \in {Code.InvalidArgument, Code.OutOfRange}     -> 400
      [] c = Code.Unauthenticated                          -> 401
      [] c = Code.PermissionDenied                         -> 403
      [] c = Code.NotFound                                 -> 404
      [] c \in {Code.AlreadyExists, Code.Aborted}          -> 409
      [] c = Code.FailedPrecondition                       -> 412
      [] c = Code.ResourceExhausted                        -> 429
      [] c = Code.Canceled                                 -> StatusClientClosedRequest
      [] c = Code.Unimplemented                            -> 501
      [] c = Code.Unavailable                              -> 503
      [] c = Code.DeadlineExceeded                         -> 504
      [] OTHER                                             -> 500

(* The statuses without a code of their own, by class. *)
httpStatusEnd == 600
codeFromHTTPClass(status) ==
    CASE status \in 100..399                 -> Code.OK
      [] status \in 400..499                 -> Code.InvalidArgument
      [] status \in 500..(httpStatusEnd - 1) -> Code.Internal
      [] OTHER                               -> Code.Unknown

(* Mutant: the statuses are read by their class only. *)
CodeFromHTTPByClass(status) == codeFromHTTPClass(status)

CodeFromHTTP(status) ==
    CASE status = StatusClientClosedRequest -> Code.Canceled
      [] status = 400                       -> Code.InvalidArgument
      [] status = 401                       -> Code.Unauthenticated
      [] status = 403                       -> Code.PermissionDenied
      [] status = 404                       -> Code.NotFound
      [] status \in {405, 501}              -> Code.Unimplemented
      [] status \in {408, 504}              -> Code.DeadlineExceeded
      [] status = 409                       -> Code.AlreadyExists
      [] status \in {412, 428}              -> Code.FailedPrecondition
      [] status = 416                       -> Code.OutOfRange
      [] status \in {413, 429, 507}         -> Code.ResourceExhausted
      [] status \in {502, 503}              -> Code.Unavailable
      [] status = 500                       -> Code.Internal
      [] OTHER                              -> codeFromHTTPClass(status)

(* Mutant: an error without a code is named like that. *)
responseCodeAsIs(c) == c
(* The code that WriteErrorJSON names in the body of its answer. *)
responseCode(c) == IF c = Code.NoCode THEN Code.Unknown ELSE c

(* Mutant: two codes share a name. *)
CodeNamedTwice(c) ==
    CASE c = Code.OutOfRange                       -> Code.InvalidArgument
      [] c \in Code.NoCode..Code.Unauthenticated -> c
      [] OTHER                                     -> Code.Unknown
(* The code that String gives its name to: the codes of the list have a name each,
   and "CODE(n)" is none of these, so that a client knows no more than a failure. *)
CodeNamed(c) == IF c \in Code.NoCode..Code.Unauthenticated THEN c ELSE Code.Unknown

(* The two lists mirror each other, one place apart. *)
GRPC(c) == IF c \in Code.OK..Code.Unauthenticated THEN c - 1 ELSE GRPCUnknown

(* Mutant: the lists are taken for the same numbering. *)
CodeFromGRPCDirect(g) == IF g \in GRPCCodes THEN g ELSE Code.Unknown
(* Mutant: one place too far. *)
CodeFromGRPCShifted(g) == IF g \in GRPCCodes THEN g + 2 ELSE Code.Unknown
CodeFromGRPC(g) == IF g \in GRPCCodes THEN g + 1 ELSE Code.Unknown
=============================================================================
