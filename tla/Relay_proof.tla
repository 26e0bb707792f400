----------------------------- MODULE Relay_proof -----------------------------
(***************************************************************************)
(* Proofs about Relay, for every set of codes that services attach.         *)
(***************************************************************************)
EXTENDS Relay, TLAPS

(* The statuses that Code.HTTP gives a failure. *)
AnswerStatuses == {400, 401, 403, 404, 409, 412, 429, 499, 500, 501, 503, 504}

(* What an answer promises of the code d that is read from the answer of c. *)
ReadBack(c, d) ==
    /\ d \in Code.Canceled..Code.Unauthenticated
    /\ HTTP(d) = HTTP(c)
    /\ Internal(c) => Internal(d)
    /\ Internal(d) => HTTP(c) = 500
    /\ Transient(d) => Transient(c)
Fixed(c) == CodeFromHTTP(HTTP(c)) = c /\ CodeFromGRPC(GRPC(c)) = c

(* What an HTTP answer does to a code that is not OK: the status is a failure,
   it is the same after another answer, and the fault and the permanence of the
   failure stay with it. *)
LEMMA HTTPHop ==
    ASSUME NEW c \in Int, c # Code.OK
    PROVE  LET d == CodeFromHTTP(HTTP(c)) IN
           HTTP(c) \in AnswerStatuses /\ ReadBack(c, d) /\ Fixed(d)
<1>1. HTTP(c) \in AnswerStatuses
  BY DEF HTTP, AnswerStatuses, Code, StatusClientClosedRequest
<1>2. HTTP(c) \in {503, 504} => Transient(c)
  BY DEF HTTP, Transient, Code, StatusClientClosedRequest
<1>. DEFINE s == HTTP(c)
            d == CodeFromHTTP(s)
<1>3. s \in AnswerStatuses /\ s >= 400
  BY <1>1 DEF AnswerStatuses
<1>. HIDE DEF s
<1>4. <<s, d>> \in {<<400, 4>>, <<401, 17>>, <<403, 8>>, <<404, 6>>, <<409, 7>>, <<412, 10>>,
                     <<429, 9>>, <<499, 2>>, <<500, 14>>, <<501, 13>>, <<503, 15>>, <<504, 5>>}
  BY <1>3 DEF CodeFromHTTP, AnswerStatuses, Code, StatusClientClosedRequest
<1>. HIDE DEF d
<1>5. /\ d \in Code.Canceled..Code.Unauthenticated
      /\ Internal(d) <=> s = 500
      /\ Transient(d) => s \in {503, 504}
  BY <1>4 DEF Internal, Transient, Code
<1>6. HTTP(d) = s
  BY <1>4 DEF HTTP, Code, StatusClientClosedRequest
<1>7. CodeFromGRPC(GRPC(d)) = d
  BY <1>5 DEF CodeFromGRPC, GRPC, GRPCCodes, Code
<1>8. Internal(c) => s = 500
  BY DEF Internal, HTTP, Code, s
<1>9. ReadBack(c, d)
  BY <1>2, <1>5, <1>6, <1>8 DEF ReadBack, s
<1>10. Fixed(d)
  BY <1>6, <1>7 DEF Fixed, d
<1>. QED BY <1>1, <1>9, <1>10 DEF s, d

LEMMA GRPCHop ==
    ASSUME NEW c \in Int, c # Code.OK
    PROVE  GRPC(c) # GRPC(Code.OK) /\ ReadBack(c, CodeFromGRPC(GRPC(c)))
<1>. DEFINE d == CodeFromGRPC(GRPC(c))
<1>1. d = IF c \in Code.Canceled..Code.Unauthenticated THEN c ELSE Code.Unknown
  BY DEF CodeFromGRPC, GRPC, GRPCCodes, GRPCUnknown, Code
<1>2. GRPC(c) # GRPC(Code.OK)
  BY DEF GRPC, GRPCUnknown, Code
<1>. HIDE DEF d
<1>3. CASE c \in Code.Canceled..Code.Unauthenticated
  <2>1. d = c
    BY <1>1, <1>3
  <2>2. Internal(c) => HTTP(c) = 500
    BY DEF Internal, HTTP, Code
  <2>. QED BY <1>2, <1>3, <2>1, <2>2 DEF d, ReadBack
<1>4. CASE c \notin Code.Canceled..Code.Unauthenticated
  <2>1. d = Code.Unknown
    BY <1>1, <1>4
  <2>2. HTTP(c) = 500
    BY <1>4 DEF HTTP, Code
  <2>3. d \in Code.Canceled..Code.Unauthenticated /\ HTTP(d) = 500 /\ Internal(d) /\ ~Transient(d)
    BY <2>1 DEF HTTP, Internal, Transient, Code
  <2>. QED BY <1>2, <2>2, <2>3 DEF d, ReadBack
<1>. QED BY <1>3, <1>4

(* The body of a JSON answer names the code that the gRPC answer stands for. *)
LEMMA JSONHop ==
    ASSUME NEW c \in Int, c # Code.OK
    PROVE  LET d == CodeNamed(responseCode(c)) IN
           d = CodeFromGRPC(GRPC(c)) /\ ReadBack(c, d) /\ ~(HTTP(c) < 400)
<1>1. CodeNamed(responseCode(c)) = CodeFromGRPC(GRPC(c))
  BY DEF CodeNamed, responseCode, CodeFromGRPC, GRPC, GRPCCodes, GRPCUnknown, Code
<1>2. HTTP(c) \in AnswerStatuses
  BY HTTPHop
<1>3. ~(HTTP(c) < 400)
  BY <1>2 DEF AnswerStatuses
<1>. QED BY <1>1, <1>3, GRPCHop

LEMMA ListedCodeKept ==
    ASSUME NEW c, Listed(c)
    PROVE  CodeFromGRPC(GRPC(c)) = c
BY DEF Listed, CodeFromGRPC, GRPC, GRPCCodes, Code

LEMMA ResponseCode ==
    ASSUME NEW status \in 400..599
    PROVE  CodeFromHTTP(status) \in Code.Canceled..Code.Unauthenticated
BY DEF CodeFromHTTP, codeFromHTTPClass, httpStatusEnd, StatusClientClosedRequest, Code

-----------------------------------------------------------------------------
(* The inductive invariant: OK never turns up, a code that was read from a plain
   text answer is a fixed point of every hop, and until then a code of the list
   is the one that was attached. *)
Kept(c, o) ==
    /\ c # Code.OK
    /\ HTTP(c) = HTTP(o)
    /\ Internal(o) => Internal(c)
    /\ Internal(c) => HTTP(o) = 500
    /\ Transient(c) => Transient(o)
IInv ==
    /\ TypeOK /\ failing
    /\ Kept(code, origin)
    /\ viaHTTP => Fixed(code)
    /\ CodeKept

LEMMA KeptSelf ==
    ASSUME NEW c \in Int, c # Code.OK
    PROVE  Kept(c, c)
<1>1. Internal(c) => HTTP(c) = 500
  BY DEF Internal, HTTP, Code
<1>. QED BY <1>1 DEF Kept

LEMMA CodeIsInt == ASSUME IInv PROVE code \in Int /\ code # Code.OK
BY CodesAssumption DEF IInv, TypeOK, Known, Kept, Code

LEMMA InitIInv == Init => IInv
<1>. SUFFICES ASSUME Init PROVE IInv
  OBVIOUS
<1>1. code \in Int /\ code # Code.OK
  BY CodesAssumption DEF Init, Code
<1>2. Kept(code, origin)
  BY <1>1, KeptSelf DEF Init
<1>3. code \in Known /\ hops \in Hops
  BY MaxHopsAssumption DEF Init, Known, Hops, Code
<1>4. TypeOK
  BY <1>3, Zenon DEF Init, TypeOK
<1>. QED BY <1>2, <1>4 DEF IInv, Init, CodeKept

LEMMA RecodeIInv ==
    ASSUME IInv, NEW c \in Codes \cup {Code.NoCode}, Recode(c)
    PROVE  IInv' /\ ~viaHTTP'
<1>1. c \in Int /\ c # Code.OK /\ c \in Known
  BY CodesAssumption DEF Known, Code
<1>2. code' = c /\ origin' = c
  BY DEF Recode, Attached
<1>3. Kept(c, c)
  BY <1>1, KeptSelf
<1>4. Kept(code', origin')
  BY <1>2, <1>3
<1>5. TypeOK'
  BY <1>1 DEF IInv, TypeOK, Known, Recode, Attached
<1>. QED BY <1>4, <1>5 DEF IInv, Recode, Attached, CodeKept

LEMMA ResponseIInv ==
    ASSUME IInv, NEW status \in Statuses, FromResponse(status)
    PROVE  IInv' /\ ~viaHTTP'
<1>. DEFINE c == CodeFromHTTP(status)
<1>1. c \in Code.Canceled..Code.Unauthenticated
  BY SMTT(30), ResponseCode, StatusesAssumption
<1>2. code' = c /\ origin' = c
  BY DEF FromResponse, Attached
<1>. HIDE DEF c
<1>3. c \in Int /\ c # Code.OK /\ c \in Known
  BY <1>1 DEF Known, Code
<1>4. Kept(c, c)
  BY <1>3, KeptSelf
<1>5. Kept(code', origin')
  BY <1>2, <1>4
<1>6. code' \in Known /\ origin' \in Known
  BY <1>2, <1>3 DEF Known
<1>7. hops' \in Hops
  BY MaxHopsAssumption DEF IInv, TypeOK, Hops, FromResponse
<1>8. TypeOK'
  BY <1>6, <1>7, Zenon DEF IInv, TypeOK, FromResponse, Attached
<1>. QED BY <1>5, <1>8 DEF IInv, FromResponse, Attached, CodeKept

(* Every hop replaces a code by one of the list that keeps its promises. *)
LEMMA AnswerIInv ==
    ASSUME IInv, NEW d, ReadBack(code, d), Answer(FALSE, d),
           viaHTTP' \in BOOLEAN, viaHTTP' => Fixed(d),
           ~viaHTTP' => ~viaHTTP /\ (Listed(code) => d = code)
    PROVE  IInv'
<1>1. code' = d /\ origin' = origin /\ failing'
  BY DEF Answer, IInv
<1>2. d # Code.OK /\ d \in Known
  BY DEF ReadBack, Code, Known
<1>3. Kept(d, origin)
  BY <1>2 DEF IInv, Kept, ReadBack
<1>4. Kept(code', origin')
  BY <1>1, <1>3
<1>5. hops' \in Hops
  BY MaxHopsAssumption DEF IInv, TypeOK, Hops, Answer
<1>6. code' \in Known /\ origin' \in Known
  BY <1>1, <1>2 DEF IInv, TypeOK, Known
<1>7. marked' \in BOOLEAN /\ failing' \in BOOLEAN
  BY <1>1, Zenon DEF IInv, TypeOK, Answer
<1>8. TypeOK'
  BY <1>5, <1>6, <1>7 DEF TypeOK
<1>9. viaHTTP' => Fixed(code')
  BY <1>1
<1>10. CodeKept'
  BY <1>1 DEF IInv, CodeKept
<1>. QED BY <1>1, <1>4, <1>8, <1>9, <1>10 DEF IInv

(* A hop over gRPC or JSON: both read the code that the gRPC code stands for. *)
LEMMA ExactHopIInv ==
    ASSUME IInv, NEW d, d = CodeFromGRPC(GRPC(code)), ReadBack(code, d),
           Answer(FALSE, d), UNCHANGED viaHTTP
    PROVE  IInv' /\ (viaHTTP => code' = code)
<1>1. viaHTTP => d = code /\ Fixed(d)
  BY DEF IInv, Fixed
<1>2. viaHTTP \in BOOLEAN /\ code' = d
  BY DEF IInv, TypeOK, Answer
<1>3. viaHTTP' \in BOOLEAN /\ (viaHTTP' => Fixed(d))
  BY <1>1, <1>2, Zenon
<1>4. Listed(code) => d = code
  BY ListedCodeKept
<1>5. ~viaHTTP' => ~viaHTTP /\ (Listed(code) => d = code)
  BY <1>4, Zenon
<1>6. IInv'
  BY <1>3, <1>5, AnswerIInv
<1>. QED BY <1>1, <1>2, <1>6

LEMMA HopGRPCIInv ==
    ASSUME IInv, HopGRPC
    PROVE  IInv' /\ (viaHTTP => code' = code)
<1>. DEFINE d == CodeFromGRPC(GRPC(code))
<1>1. GRPC(code) # GRPC(Code.OK) /\ ReadBack(code, d)
  BY CodeIsInt, GRPCHop
<1>2. Answer(FALSE, d) /\ UNCHANGED viaHTTP
  BY <1>1 DEF HopGRPC, Answer
<1>. QED BY <1>1, <1>2, ExactHopIInv

LEMMA HopJSONIInv ==
    ASSUME IInv, HopJSON
    PROVE  IInv' /\ (viaHTTP => code' = code)
<1>. DEFINE d == CodeNamed(responseCode(code))
<1>1. d = CodeFromGRPC(GRPC(code)) /\ ReadBack(code, d) /\ ~(HTTP(code) < 400)
  BY CodeIsInt, JSONHop
<1>2. Answer(FALSE, d) /\ UNCHANGED viaHTTP
  BY <1>1 DEF HopJSON, Answer
<1>. QED BY <1>1, <1>2, ExactHopIInv

LEMMA HopHTTPIInv ==
    ASSUME IInv, HopHTTP
    PROVE  IInv' /\ (viaHTTP => code' = code)
<1>. DEFINE d == CodeFromHTTP(HTTP(code))
<1>1. HTTP(code) \in AnswerStatuses /\ ReadBack(code, d) /\ Fixed(d)
  BY CodeIsInt, HTTPHop
<1>2. ~(HTTP(code) < 400)
  BY <1>1 DEF AnswerStatuses
<1>3. Answer(FALSE, d) /\ viaHTTP' = TRUE
  BY <1>2 DEF HopHTTP, Answer
<1>4. viaHTTP => d = code
  BY DEF IInv, Fixed
<1>5. code' = d
  BY <1>3 DEF Answer
<1>. HIDE DEF d
<1>6. IInv'
  BY <1>1, <1>3, AnswerIInv
<1>. QED BY <1>4, <1>5, <1>6

LEMMA NextIInv ==
    ASSUME IInv, [Next]_vars
    PROVE  IInv' /\ (viaHTTP /\ viaHTTP' => code' = code)
<1>1. ASSUME NEW c \in Codes \cup {Code.NoCode}, Recode(c)
      PROVE  IInv' /\ (viaHTTP /\ viaHTTP' => code' = code)
  BY <1>1, RecodeIInv
<1>2. CASE Mark
  BY <1>2 DEF Mark, IInv, TypeOK, Known, Kept, Fixed, CodeKept
<1>3. ASSUME NEW status \in Statuses, FromResponse(status)
      PROVE  IInv' /\ (viaHTTP /\ viaHTTP' => code' = code)
  BY <1>3, ResponseIInv
<1>4. CASE HopGRPC
  BY <1>4, HopGRPCIInv
<1>5. CASE HopHTTP
  BY <1>5, HopHTTPIInv
<1>6. CASE HopJSON
  BY <1>6, HopJSONIInv
<1>7. CASE UNCHANGED vars
  BY <1>7 DEF vars, IInv, TypeOK, Known, Kept, Fixed, CodeKept
<1>. QED BY <1>1, <1>2, <1>3, <1>4, <1>5, <1>6, <1>7 DEF Next

-----------------------------------------------------------------------------
(* The status of the last answer is that of the code attached last, whatever
   codes services attach and however many services the error has crossed since. *)
THEOREM StatusIsKept == Spec => []StatusKept
<1>1. IInv => StatusKept
  BY DEF IInv, Kept, StatusKept
<1>. QED BY <1>1, InitIInv, NextIInv, PTL DEF Spec

(* A failure on our side is answered as one by every service that it crosses. *)
THEOREM FaultIsKept == Spec => []FaultKept
<1>1. IInv => FaultKept
  BY DEF IInv, Kept, FaultKept
<1>. QED BY <1>1, InitIInv, NextIInv, PTL DEF Spec

(* A permanent failure is not retried because of the services that it crossed. *)
THEOREM PermanentIsKept == Spec => []NeverMadeTransient
<1>1. IInv => NeverMadeTransient
  BY DEF IInv, Kept, NeverMadeTransient
<1>. QED BY <1>1, InitIInv, NextIInv, PTL DEF Spec

(* No caller reads success where a service failed: OK is not among the codes
   that any answer is read back as. *)
THEOREM ErrorNeverLost == Spec => []NoErrorLost
<1>1. IInv => NoErrorLost
  BY DEF IInv, NoErrorLost
<1>. QED BY <1>1, InitIInv, NextIInv, PTL DEF Spec

(* A code of the list crosses any number of gRPC and JSON answers unchanged. *)
THEOREM ListedCodeIsKept == Spec => []CodeKept
<1>1. IInv => CodeKept
  BY DEF IInv
<1>. QED BY <1>1, InitIInv, NextIInv, PTL DEF Spec

(* The JSON answer of any error names the code that its gRPC answer stands for. *)
THEOREM TransportsAgree == Spec => []JSONMirrorsGRPC
<1>1. IInv => JSONMirrorsGRPC
  <2>. SUFFICES ASSUME IInv PROVE JSONMirrorsGRPC
    OBVIOUS
  <2>. QED BY CodeIsInt, JSONHop DEF JSONMirrorsGRPC
<1>. QED BY <1>1, InitIInv, NextIInv, PTL DEF Spec

(* One plain text answer brings a code to a fixed point of every conversion. *)
THEOREM CodeSettles == Spec => Settled
<1>1. IInv /\ [Next]_vars => [viaHTTP /\ viaHTTP' => code' = code]_vars
  BY NextIInv
<1>. QED BY <1>1, InitIInv, NextIInv, PTL DEF Spec, Settled

(* Every code is one that a service attached or one of the list. *)
THEOREM TypeCorrect == Spec => []TypeOK
<1>1. IInv => TypeOK
  BY DEF IInv
<1>. QED BY <1>1, InitIInv, NextIInv, PTL DEF Spec
=============================================================================
