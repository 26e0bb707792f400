--------------------------- MODULE Boundary_proof ---------------------------
(***************************************************************************)
(* Boundary implements Relay: whatever layers the services put on an error,   *)
(* however they collect it with others and however they answer it, its code   *)
(* and its marker move as Relay says, for any codes, sentinels and registry.  *)
(* The argument: a new error changes nothing of what is read from the others  *)
(* (ReadKept), a layer passes on the facts of the error in hand                *)
(* (LayersKeepFacts) or attaches a code that GetCode then answers             *)
(* (OwnAnswered), a collection answers as one of the errors it holds          *)
(* (CollectionsAnswer), and an answer makes an error without children.        *)
(***************************************************************************)
EXTENDS Boundary, ErrorTree_proof

Known == (Codes \cup Range(Registered) \cup (Code.NoCode..Code.Unauthenticated)) \ {Code.OK}

(* The codes that errors carry come from callers, the registry or an answer. *)
CodesKnown == \A n \in Ids : node[n].kind # "grpc" => node[n].code \in Known

BoundaryIInv ==
    /\ TreeIInv /\ CodesKnown
    /\ cur \in Ids /\ code = GetCode[cur] /\ marked = Marked(cur)
    /\ failing \in BOOLEAN

-----------------------------------------------------------------------------
(* Codes. *)

LEMMA KnownCodes ==
    /\ Codes \subseteq Known /\ Code.NoCode \in Known
    /\ Code.Canceled..Code.Unauthenticated \subseteq Known /\ Known \subseteq Int \ {Code.OK}
<1>1. Codes \subseteq Int \ {Code.OK}
  BY CodesAssumption
<1>2. Range(Registered) \subseteq Int
  BY RegisteredAssumption DEF Range
<1>3. Code.NoCode \in Known /\ Code.Canceled..Code.Unauthenticated \subseteq Known
  BY DEF Known, Code
<1>4. Code.NoCode..Code.Unauthenticated \subseteq Int
  BY DEF Code
<1> QED BY <1>1, <1>2, <1>3, <1>4 DEF Known

LEMMA MapperKnown ==
    ASSUME NEW err
    PROVE  MapperCode(err) \subseteq Known
<1>1. {Code.Internal, Code.Canceled, Code.DeadlineExceeded} \subseteq Known
  BY KnownCodes DEF Code
<1>2. ASSUME NEW s \in DOMAIN Registry PROVE Registry[s] \in Known
  <2>1. CASE s \in DOMAIN Registered
    <3>1. Registry[s] = Registered[s] /\ Registered[s] \in Range(Registered)
      BY <2>1 DEF Registry, Range
    <3>2. Registered[s] # Code.OK
      BY <2>1, RegisteredAssumption
    <3> QED BY <3>1, <3>2 DEF Known
  <2>2. CASE s \notin DOMAIN Registered
    BY <1>1, <2>2 DEF Registry
  <2> QED BY <2>1, <2>2
<1> QED BY <1>1, <1>2 DEF MapperCode

LEMMA GRPCKnown ==
    ASSUME NEW g \in GRPCCodes \ {GRPC(Code.OK)}
    PROVE  CodeFromGRPC(g) \in Known
<1>1. CodeFromGRPC(g) \in Code.Canceled..Code.Unauthenticated
  BY DEF GRPCCodes, GRPC, CodeFromGRPC, Code
<1> QED BY <1>1, KnownCodes

LEMMA HTTPKnown ==
    ASSUME NEW status \in Int, ~(status < 400)
    PROVE  CodeFromHTTP(status) \in Known
<1>1. CodeFromHTTP(status) \in Code.Canceled..Code.Unauthenticated
  BY DEF CodeFromHTTP, codeFromHTTPClass, httpStatusEnd, StatusClientClosedRequest, Code
<1> QED BY <1>1, KnownCodes

(* What GetCode reports is a code that some error of the tree carries. *)
LEMMA CodeReported ==
    ASSUME TreeIInv, CodesKnown, NEW n \in Ids
    PROVE  GetCode[n] \in Known
<1>1. CASE GetCode[n] = Code.NoCode
  BY <1>1, KnownCodes
<1>2. ASSUME NEW m \in OutsideFields[n], OwnCode(m) = GetCode[n]
      PROVE  GetCode[n] \in Known
  <2>1. m \in Ids
    BY OutsideDown
  <2>2. CASE node[m].kind = "grpc"
    <3>1. node[m].code \in GRPCCodes \ {GRPC(Code.OK)}
      BY <2>1, <2>2 DEF TreeIInv, TypeOK, CodeOK
    <3>2. OwnCode(m) = CodeFromGRPC(node[m].code)
      BY <2>2 DEF OwnCode
    <3> QED BY <1>2, <3>1, <3>2, GRPCKnown
  <2>3. CASE node[m].kind # "grpc"
    <3>1. node[m].code \in Known
      BY <2>1, <2>3 DEF CodesKnown
    <3>2. {Code.NoCode, Code.DeadlineExceeded, Code.Canceled} \subseteq Known
      BY KnownCodes DEF Code
    <3>3. OwnCode(m) \in {node[m].code, Code.NoCode, Code.DeadlineExceeded, Code.Canceled}
      BY <2>3 DEF OwnCode
    <3> QED BY <1>2, <3>1, <3>2, <3>3
  <2> QED BY <2>2, <2>3
<1> QED BY <1>1, <1>2, FieldsHide DEF FieldsKeepToThemselves

-----------------------------------------------------------------------------
(* Steps. *)

ReadsOK ==
    /\ LayersKeepFacts /\ MarkersKept /\ LeavesRead /\ OwnAnswered /\ CollectionsAnswer
    /\ CodesKnown => \A n \in Ids : GetCode[n] \in Known

LEMMA ReadsNext == TreeIInv' => ReadsOK'
<1>1. TreeIInv => ReadsOK
  BY LayersPass, MarkersFound, LeafReads, OwnAnswers, CollectionAnswers, CodeReported DEF ReadsOK
<1> QED BY <1>1, PTL

(* A new error leaves the others as they are. *)
LEMMA MadeKeeps ==
    ASSUME TreeIInv, CodesKnown, NEW e, Makeable(e), Place(e),
           e.kind # "grpc" => e.code \in Known
    PROVE  /\ TreeIInv' /\ CodesKnown' /\ ReadsOK'
           /\ Ids \subseteq Ids' /\ Len(node') \in Ids'
           /\ \A n \in Ids : GetCode'[n] = GetCode[n] /\ (Marked(n)' <=> Marked(n))
           /\ LET new == node'[Len(node')]
              IN  /\ new.kind = e.kind /\ new.kids = e.kids
                  /\ new.code = e.code /\ new.public = e.public
<1> DEFINE m == Len(node) + 1
<1>1. /\ m \in Nat \ {0} /\ Len(node') = m /\ Ids' = 1..m /\ Ids = 1..(m - 1)
      /\ \A n \in Ids : node'[n] = node[n]
      /\ node'[m] = [e EXCEPT !.order = AsOrder(e)]
  BY PlaceFacts, Typing
<1>2. TreeIInv' /\ ReadsOK'
  BY PlaceKeeps, ReadsNext
<1>3. /\ node'[m].kind = e.kind /\ node'[m].kids = e.kids
      /\ node'[m].code = e.code /\ node'[m].public = e.public
  BY <1>1 DEF Makeable, Errors
<1> HIDE DEF m
<1>4. ASSUME NEW n \in Ids', node'[n].kind # "grpc" PROVE node'[n].code \in Known
  <2>1. CASE n = m
    BY <1>3, <1>4, <2>1
  <2>2. CASE n # m
    <3>1. n \in Ids /\ node'[n] = node[n]
      BY <1>1, <2>2
    <3> QED BY <1>4, <3>1 DEF CodesKnown
  <2> QED BY <2>1, <2>2
<1>5. Ids \subseteq Ids' /\ Len(node') \in Ids'
  BY <1>1
<1> QED BY <1>1, <1>2, <1>3, <1>4, <1>5, PlaceGrows, ReadKept DEF CodesKnown

(* The new error is in hand, and read anew. *)
Moved == cur' = Len(node') /\ Reread

LEMMA MovedKeeps ==
    ASSUME BoundaryIInv, NEW e, Makeable(e), Place(e), Moved,
           e.kind # "grpc" => e.code \in Known, failing' \in BOOLEAN
    PROVE  /\ BoundaryIInv' /\ code' \in Known /\ marked' \in BOOLEAN
           /\ cur \in ToSet(e.kids) => (marked => marked')
           /\ GetCode'[cur] = code
<1>1. /\ TreeIInv' /\ CodesKnown' /\ ReadsOK'
      /\ Ids \subseteq Ids' /\ Len(node') \in Ids'
      /\ \A n \in Ids : GetCode'[n] = GetCode[n] /\ (Marked(n)' <=> Marked(n))
      /\ node'[Len(node')].kids = e.kids
  BY MadeKeeps DEF BoundaryIInv
<1>2. cur' \in Ids' /\ code' = GetCode[cur]' /\ marked' = Marked(cur)'
  BY <1>1 DEF Moved, Reread
<1>3. code' \in Known
  BY <1>1, <1>2 DEF ReadsOK
<1>4. marked' \in BOOLEAN
  BY <1>2 DEF Marked, Is
<1>5. ASSUME cur \in ToSet(e.kids), marked PROVE marked'
  <2>1. Marked(cur)
    BY <1>5 DEF BoundaryIInv
  <2> QED BY <1>1, <1>2, <1>5, <2>1 DEF ReadsOK, MarkersKept, BoundaryIInv, Moved
<1> QED BY <1>1, <1>2, <1>3, <1>4, <1>5 DEF BoundaryIInv

(* The codes of the abstract module are the same. *)
LEMMA SameCodes ==
    /\ Relays!Code = Code
    /\ \A c : /\ Relays!HTTP(c) = HTTP(c) /\ Relays!GRPC(c) = GRPC(c)
              /\ Relays!CodeFromHTTP(c) = CodeFromHTTP(c)
              /\ Relays!CodeFromGRPC(c) = CodeFromGRPC(c)
              /\ Relays!CodeNamed(c) = CodeNamed(c)
              /\ Relays!responseCode(c) = responseCode(c)
<1>1. Relays!Code = Code
  BY DEF Relays!Code, Code
<1>2. \A c : Relays!HTTP(c) = HTTP(c) /\ Relays!GRPC(c) = GRPC(c)
  BY <1>1, ZenonT(60) DEF Relays!HTTP, HTTP, Relays!GRPC, GRPC, Relays!GRPCUnknown, GRPCUnknown,
     Relays!StatusClientClosedRequest, StatusClientClosedRequest
<1>3. \A c : Relays!CodeFromHTTP(c) = CodeFromHTTP(c)
  BY <1>1, ZenonT(90) DEF Relays!CodeFromHTTP, CodeFromHTTP, Relays!codeFromHTTPClass, codeFromHTTPClass,
     Relays!httpStatusEnd, httpStatusEnd,
     Relays!StatusClientClosedRequest, StatusClientClosedRequest
<1>4. \A c : /\ Relays!CodeFromGRPC(c) = CodeFromGRPC(c)
             /\ Relays!CodeNamed(c) = CodeNamed(c)
             /\ Relays!responseCode(c) = responseCode(c)
  BY <1>1, Zenon DEF Relays!CodeFromGRPC, CodeFromGRPC, Relays!GRPCCodes, GRPCCodes,
     Relays!CodeNamed, CodeNamed, Relays!responseCode, responseCode
<1> QED BY <1>1, <1>2, <1>3, <1>4

RelayStep == [Relays!Next]_(Relays!vars)

LEMMA RecodeStep ==
    ASSUME code' \in Known, failing, origin' = code', viaHTTP' = FALSE,
           marked' \in BOOLEAN, marked => marked', UNCHANGED <<failing, hops>>
    PROVE  RelayStep
<1>1. Relays!Recode(code')
  BY DEF Relays!Recode, Relays!Attached
<1> QED BY <1>1 DEF RelayStep, Relays!Next, Known

LEMMA MarkStep ==
    ASSUME code' = code, failing, marked' \in BOOLEAN, marked \in BOOLEAN, marked => marked',
           UNCHANGED <<failing, hops, origin, viaHTTP>>
    PROVE  RelayStep
<1>1. CASE marked' = marked
  BY <1>1 DEF RelayStep, Relays!vars
<1>2. CASE marked' # marked
  <2>1. Relays!Mark
    BY <1>2 DEF Relays!Mark
  <2> QED BY <2>1 DEF RelayStep, Relays!Next
<1> QED BY <1>1, <1>2

(* Where the code that is meant changes: it is the one that the error just made
   carries, or what GetCode says of another of the errors collected. *)
OriginGiven ==
    origin' # origin =>
        LET new == Last(node') IN
        \/ new.kind \in CodeMethod /\ ~Inherits(new) /\ origin' = new.code
        \/ \E other \in ToSet(new.kids) \ {cur} : origin' = GetCode[other]

(* What a layer or a collection makes of the error in hand. *)
LEMMA LayerStep ==
    ASSUME BoundaryIInv, Layer
    PROVE  BoundaryIInv' /\ RelayStep /\ OriginGiven
<1>1. TreeIInv /\ CodesKnown /\ cur \in Ids /\ code = GetCode[cur] /\ marked \in BOOLEAN
      /\ failing /\ failing' \in BOOLEAN /\ UNCHANGED <<failing, hops>>
  BY DEF BoundaryIInv, Layer, Marked, Is
<1>2. ASSUME NEW kind, NEW c \in Known, NEW public, Makes(kind, <<cur>>, c, public), kind # "grpc"
      PROVE  \E e : /\ Makeable(e) /\ Place(e) /\ e.kind = kind /\ e.kids = <<cur>> /\ e.code = c
                    /\ cur \in ToSet(e.kids) /\ (e.kind # "grpc" => e.code \in Known)
  <2>1. PICK e : /\ Makeable(e) /\ Place(e)
                 /\ e.kind = kind /\ e.kids = <<cur>> /\ e.code = c
    BY <1>2 DEF Makes
  <2>2. cur \in ToSet(<<cur>>)
    BY DEF ToSet
  <2> QED BY <1>2, <2>1, <2>2
<1>3. CASE Annotate(cur) /\ Moved /\ UNCHANGED <<origin, viaHTTP>>
  <2>1. PICK kind \in {"wrap", "detailed", "transient", "stack"}, public \in BOOLEAN :
          Makes(kind, <<cur>>, Code.NoCode, public)
    BY <1>1, <1>3, AnnotateMakes
  <2>2. PICK e : /\ Makeable(e) /\ Place(e) /\ e.kind = kind /\ e.kids = <<cur>>
                 /\ e.code = Code.NoCode
                 /\ cur \in ToSet(e.kids) /\ (e.kind # "grpc" => e.code \in Known)
    BY <1>2, <2>1, KnownCodes
  <2>3. /\ BoundaryIInv' /\ marked' \in BOOLEAN /\ (marked => marked')
        /\ GetCode'[cur] = code
    BY <1>1, <1>3, <2>2, MovedKeeps
  <2>4. code' = code
    <3>1. /\ ReadsOK' /\ Len(node') \in Ids'
          /\ node'[Len(node')].kind = kind /\ node'[Len(node')].kids = <<cur>>
          /\ node'[Len(node')].code = Code.NoCode
      BY <1>1, <2>2, MadeKeeps
    <3>2. <<cur>> # <<>> /\ <<cur>>[1] = cur
      OBVIOUS
    <3>3. GetCode'[Len(node')] = GetCode'[cur]
      BY <2>1, <3>1, <3>2 DEF ReadsOK, LayersKeepFacts, PassesOn
    <3>4. code' = GetCode'[cur'] /\ cur' = Len(node')
      BY <1>3 DEF Moved, Reread
    <3> QED BY <2>3, <3>3, <3>4
  <2> QED BY <1>1, <1>3, <2>3, <2>4, MarkStep DEF OriginGiven
<1>4. ASSUME NEW kind, NEW c \in Known, NEW public, Makes(kind, <<cur>>, c, public),
             kind \in CodeMethod, kind = "detailed" => c # Code.NoCode, Moved, Attaches
      PROVE  BoundaryIInv' /\ RelayStep /\ OriginGiven
  <2>1. PICK e : /\ Makeable(e) /\ Place(e) /\ e.kind = kind /\ e.kids = <<cur>> /\ e.code = c
    BY <1>4 DEF Makes
  <2>2. cur \in ToSet(e.kids) /\ (e.kind # "grpc" => e.code \in Known)
    <3>1. cur \in ToSet(<<cur>>)
      BY DEF ToSet
    <3> QED BY <2>1, <3>1
  <2>3. BoundaryIInv' /\ code' \in Known /\ marked' \in BOOLEAN /\ (marked => marked')
    BY <1>1, <1>4, <2>2, <2>1, MovedKeeps
  <2>4. /\ ReadsOK' /\ Len(node') \in Ids'
        /\ node'[Len(node')].kind = kind /\ node'[Len(node')].code = c
    BY <1>1, <2>2, <2>1, MadeKeeps
  <2>5. node'[Len(node')].kind \in CodeMethod /\ ~Inherits(node'[Len(node')])
    BY <1>4, <2>4 DEF Inherits
  <2>6. GetCode'[Len(node')] = c
    BY <2>4, <2>5 DEF ReadsOK, OwnAnswered, Answers
  <2>7. code' = c /\ origin' = c /\ viaHTTP' = FALSE
    BY <1>4, <2>4, <2>6 DEF Moved, Reread, Attaches, Last
  <2>8. RelayStep
    BY <1>1, <2>3, <2>7, RecodeStep
  <2> QED BY <1>4, <2>3, <2>5, <2>8 DEF OriginGiven, Attaches, Last
<1>5. CASE Stamp(cur) /\ Moved /\ Attaches
  <2>1. PICK kind \in {"coded", "detailed"}, public \in BOOLEAN, c \in Codes \cup MapperCode(cur) :
          Makes(kind, <<cur>>, c, public) /\ (kind = "detailed" => c \in Codes)
    BY <1>1, <1>5, StampMakes
  <2>2. c \in Known /\ kind \in CodeMethod /\ (kind = "detailed" => c # Code.NoCode)
    BY <2>1, MapperKnown, KnownCodes, AttachedAssumption DEF CodeMethod
  <2> QED BY <1>4, <1>5, <2>1, <2>2
<1>6. CASE FieldError(cur) /\ Moved /\ Attaches
  <2>1. Makes("field", <<cur>>, Code.NoCode, FALSE)
    BY <1>1, <1>6, FieldErrorMakes
  <2>2. Code.NoCode \in Known /\ "field" \in CodeMethod /\ "field" # "detailed"
    BY KnownCodes DEF CodeMethod
  <2> QED BY <1>4, <1>6, <2>1, <2>2
<1> QED BY <1>3, <1>5, <1>6 DEF Layer, Moved

LEMMA CollectedStep ==
    ASSUME BoundaryIInv, Collected
    PROVE  BoundaryIInv' /\ RelayStep /\ OriginGiven
<1>1. TreeIInv /\ CodesKnown /\ cur \in Ids /\ marked \in BOOLEAN
      /\ failing /\ failing' \in BOOLEAN /\ UNCHANGED <<failing, hops>> /\ Moved
  BY DEF BoundaryIInv, Collected, Marked, Is, Moved
<1>2. PICK errs \in ArgLists : cur \in ToSet(errs) /\ Collect(errs)
  BY DEF Collected
<1>3. PICK kind \in CollectKinds, kids \in Seq(Ids) :
        Makes(kind, kids, Code.NoCode, FALSE) /\ Holds(kids, errs)
  BY <1>1, <1>2, CollectMakes
<1>4. PICK e : Makeable(e) /\ Place(e) /\ e.kind = kind /\ e.kids = kids /\ e.code = Code.NoCode
  BY <1>3 DEF Makes
<1>5. cur \in ToSet(e.kids)
  <2>1. PICK i \in 1..Len(errs) : errs[i] = cur
    <3>1. errs \in Seq(Ids \cup {Nil})
      BY ArgListSeq
    <3> QED BY <1>2, <3>1, LenProperties DEF ToSet
  <2>2. cur # Nil
    BY <1>1, Typing DEF Nil
  <2>3. PICK j \in 1..Len(kids) : kids[j] = cur
    BY <1>3, <2>1, <2>2 DEF Holds
  <2> QED BY <1>4, <2>3 DEF ToSet
<1>6. BoundaryIInv' /\ code' \in Known /\ marked' \in BOOLEAN /\ (marked => marked')
  BY <1>1, <1>4, <1>5, KnownCodes, MovedKeeps
<1>7. CASE code' = code
  BY <1>1, <1>6, <1>7, MarkStep DEF Collected, OriginGiven
<1>8. CASE code' # code
  <2>1. origin' = code' /\ viaHTTP' = FALSE
    BY <1>8 DEF Collected
  <2>2. RelayStep
    BY <1>1, <1>6, <2>1, RecodeStep
  <2>3. /\ ReadsOK' /\ Len(node') \in Ids'
        /\ node'[Len(node')].kind = kind /\ node'[Len(node')].kids = kids
        /\ \A n \in Ids : GetCode'[n] = GetCode[n]
    BY <1>1, <1>4, KnownCodes, MadeKeeps
  <2>4. PICK k \in ToSet(kids) : GetCode'[Len(node')] = GetCode'[k]
    BY <1>3, <2>3 DEF ReadsOK, CollectionsAnswer
  <2>5. k \in Ids
    BY <1>3, LenProperties, ElementOfSeq DEF ToSet
  <2>6. origin' = GetCode[k]
    BY <1>1, <2>1, <2>3, <2>4, <2>5 DEF Moved, Reread
  <2>7. k # cur
    BY <1>8, <2>1, <2>6 DEF BoundaryIInv
  <2>8. OriginGiven
    BY <2>3, <2>4, <2>6, <2>7 DEF OriginGiven, Last
  <2> QED BY <1>6, <2>2, <2>8
<1> QED BY <1>6, <1>7, <1>8

(* Another error is made: nothing changes for the one in hand. *)
LEMMA AnotherStep ==
    ASSUME BoundaryIInv, Another
    PROVE  BoundaryIInv' /\ RelayStep /\ OriginGiven
<1>1. PICK e : Makeable(e) /\ Place(e) /\ (e.kind # "grpc" => e.code \in Known)
  <2>1. TreeIInv /\ Originate
    BY DEF BoundaryIInv, Another
  <2>2. PICK e : Makeable(e) /\ Place(e) /\ CodeGiven(e)
    BY <2>1, OriginateMakes
  <2> QED BY <2>2, KnownCodes DEF CodeGiven
<1>2. /\ TreeIInv' /\ CodesKnown' /\ Ids \subseteq Ids'
      /\ \A n \in Ids : GetCode'[n] = GetCode[n] /\ (Marked(n)' <=> Marked(n))
  BY <1>1, MadeKeeps DEF BoundaryIInv
<1>3. UNCHANGED <<cur, code, marked, failing, hops, origin, viaHTTP>>
  BY DEF Another
<1>4. BoundaryIInv'
  <2> SUFFICES ASSUME NEW n, n = cur PROVE BoundaryIInv'
    OBVIOUS
  <2>1. n \in Ids /\ cur' = n
    BY <1>3 DEF BoundaryIInv
  <2>2. Marked(n)' = Marked(n)
    BY <1>2, <2>1 DEF Marked, Is
  <2>3. Marked(cur)' = Marked(n)' /\ Marked(cur) = Marked(n)
    BY <2>1 DEF Marked, Is, As
  <2>4. marked' = Marked(cur)' /\ code' = GetCode'[cur']
    BY <1>2, <1>3, <2>1, <2>2, <2>3 DEF BoundaryIInv
  <2> QED BY <1>2, <1>3, <2>1, <2>4 DEF BoundaryIInv
<1> QED BY <1>3, <1>4 DEF RelayStep, Relays!vars, OriginGiven

(* An answer is the only error of its tree. *)
LEMMA AnswerMoves ==
    ASSUME BoundaryIInv, NEW e, Makeable(e), e.kids = <<>>, Place(e), Moved,
           failing' \in BOOLEAN, e.kind # "grpc" => e.code \in Known
    PROVE  /\ BoundaryIInv' /\ marked' = FALSE
           /\ e.kind = "grpc" => code' = CodeFromGRPC(e.code)
           /\ e.kind = "detailed" => code' = e.code
<1>1. TreeIInv /\ CodesKnown
  BY DEF BoundaryIInv
<1>2. BoundaryIInv' /\ marked' \in BOOLEAN
  BY MovedKeeps
<1>3. /\ LeavesRead' /\ Len(node') \in Ids'
      /\ node'[Len(node')].kind = e.kind /\ node'[Len(node')].kids = <<>>
      /\ node'[Len(node')].code = e.code
  BY <1>1, MadeKeeps DEF ReadsOK
<1>4. cur' = Len(node') /\ code' = GetCode'[cur'] /\ marked' = Marked(cur)'
  BY DEF Moved, Reread
<1> QED BY <1>2, <1>3, <1>4 DEF LeavesRead

LEMMA AnswerMakeable ==
    ASSUME TreeIInv
    PROVE  /\ \A c \in Known : LET e == Error("detailed", <<>>, c, FALSE)
                               IN  /\ Makeable(e) /\ e.kind = "detailed" /\ e.kids = <<>>
                                   /\ e.code = c
           /\ \A g \in GRPCCodes \ {GRPC(Code.OK)} :
                               LET e == Error("grpc", <<>>, g, FALSE)
                               IN  /\ Makeable(e) /\ e.kind = "grpc" /\ e.kids = <<>>
                                   /\ e.code = g
<1>1. <<>> \in Seq(Ids) /\ Len(<<>>) = 0
  BY EmptySeq
<1>2. ASSUME NEW c \in Known
      PROVE  LET e == Error("detailed", <<>>, c, FALSE)
             IN  Makeable(e) /\ e.kind = "detailed" /\ e.kids = <<>> /\ e.code = c
  <2> DEFINE kids == <<>>
             e == Error("detailed", kids, c, FALSE)
  <2>1. kids \in Seq(Ids) /\ Len(kids) <= 1 /\ c \in Int \ {Code.OK}
    BY <1>1, KnownCodes
  <2>2. e.kind = "detailed" /\ e.kids = <<>> /\ e.code = c
    BY DEF Error
  <2> HIDE DEF kids
  <2>3. Makeable(e)
    BY <2>1, ErrorMakeable
  <2> QED BY <2>2, <2>3 DEF kids
<1>3. ASSUME NEW g \in GRPCCodes \ {GRPC(Code.OK)}
      PROVE  LET e == Error("grpc", <<>>, g, FALSE)
             IN  Makeable(e) /\ e.kind = "grpc" /\ e.kids = <<>> /\ e.code = g
  <2> DEFINE e == Error("grpc", <<>>, g, FALSE)
  <2>1. g \in Int
    BY DEF GRPCCodes
  <2>2. e \in Errors /\ e.kids = <<>> /\ e.kind = "grpc" /\ e.code = g
    BY <2>1, EmptySeq DEF Error, Errors, AllKinds, Kinds
  <2> HIDE DEF e
  <2>3. KindOK(e) /\ CodeOK(e)
    BY <1>1, <2>2, SentinelsAssumption DEF KindOK, CodeOK, Leaves, Kinds, Decorators
  <2> QED BY <1>1, <2>2, <2>3 DEF Makeable, e
<1> QED BY <1>2, <1>3

LEMMA SameKeeps ==
    ASSUME BoundaryIInv, UNCHANGED <<node, cur, code, marked>>, failing' \in BOOLEAN
    PROVE  BoundaryIInv'
<1> SUFFICES ASSUME NEW n, n = cur PROVE BoundaryIInv'
  OBVIOUS
<1>1. TreeIInv /\ TreeIInv' /\ Ids' = Ids /\ Grows /\ n \in Ids /\ cur' = n
  BY SameGrows DEF BoundaryIInv
<1>2. GetCode'[n] = GetCode[n] /\ (Marked(n)' <=> Marked(n))
  BY <1>1, ReadKept
<1>3. Marked(n)' = Marked(n)
  BY <1>2 DEF Marked, Is
<1>4. Marked(cur)' = Marked(n)' /\ Marked(cur) = Marked(n)
  BY <1>1 DEF Marked, Is, As
<1>5. CodesKnown'
  BY <1>1 DEF BoundaryIInv, CodesKnown, Grows
<1> QED BY <1>1, <1>2, <1>3, <1>4, <1>5 DEF BoundaryIInv

(* A step of Read is the Answer of Relay, for the code that is read back. *)
LEMMA ReadStep ==
    ASSUME BoundaryIInv, NEW ok \in BOOLEAN, NEW e, NEW c, Read(ok, e), UNCHANGED origin,
           ~ok => /\ Makeable(e) /\ e.kids = <<>> /\ (e.kind # "grpc" => e.code \in Known)
                  /\ \/ e.kind = "grpc" /\ CodeFromGRPC(e.code) = c
                     \/ e.kind = "detailed" /\ e.code = c
    PROVE  BoundaryIInv' /\ Relays!Answer(ok, c)
<1>1. failing /\ hops < MaxHops /\ hops' = hops + 1 /\ failing' = ~ok
  BY DEF Read
<1>2. failing = TRUE
  BY <1>1 DEF BoundaryIInv
<1>3. CASE ok
  <2>1. UNCHANGED <<node, cur, code, marked>> /\ failing' = FALSE
    BY <1>1, <1>3 DEF Read
  <2>2. BoundaryIInv'
    BY <1>1, <2>1, SameKeeps
  <2> QED BY <1>1, <1>2, <1>3, <2>1, <2>2 DEF Relays!Answer
<1>4. CASE ~ok
  <2>1. Place(e) /\ Moved /\ failing' = TRUE
    BY <1>1, <1>4 DEF Read, Moved
  <2>2. BoundaryIInv' /\ marked' = FALSE /\ code' = c
    BY <1>4, <2>1, AnswerMoves
  <2> QED BY <1>1, <1>2, <1>4, <2>1, <2>2 DEF Relays!Answer
<1> QED BY <1>3, <1>4

(* What the answers read of a code that is not OK. *)
LEMMA AnswerCodes ==
    ASSUME NEW c \in Known
    PROVE  /\ GRPC(c) \in GRPCCodes \ {GRPC(Code.OK)} /\ HTTP(c) \in Int
           /\ CodeNamed(responseCode(c)) \in Known
<1>1. c \in Int /\ c # Code.OK
  BY KnownCodes
<1>2. GRPC(c) \in GRPCCodes \ {GRPC(Code.OK)} /\ HTTP(c) \in Int
  BY <1>1 DEF GRPC, GRPCCodes, GRPCUnknown, HTTP, StatusClientClosedRequest, Code
<1>3. CodeNamed(responseCode(c)) \in Code.Canceled..Code.Unauthenticated
  BY <1>1 DEF CodeNamed, responseCode, Code
<1> QED BY <1>2, <1>3, KnownCodes

LEMMA AnswerSteps ==
    ASSUME BoundaryIInv, GRPCStatus \/ WriteError \/ WriteErrorJSON
    PROVE  BoundaryIInv' /\ RelayStep /\ OriginGiven
<1>1. TreeIInv /\ code \in Known
  BY CodeReported DEF BoundaryIInv
<1>2. ASSUME NEW c \in Known
      PROVE  LET e == Error("detailed", <<>>, c, FALSE)
             IN  /\ Makeable(e) /\ e.kids = <<>> /\ (e.kind # "grpc" => e.code \in Known)
                 /\ e.kind = "detailed" /\ e.code = c
  BY <1>1, AnswerMakeable
<1>0. OriginGiven
  BY DEF GRPCStatus, WriteError, WriteErrorJSON, OriginGiven
<1>3. CASE GRPCStatus
  <2> DEFINE g == GRPC(code)
             ok == g = GRPC(Code.OK)
             e == Error("grpc", <<>>, g, FALSE)
             c == CodeFromGRPC(g)
  <2>1. g \in GRPCCodes \ {GRPC(Code.OK)}
    BY <1>1, AnswerCodes
  <2>2. /\ Makeable(e) /\ e.kids = <<>> /\ e.kind = "grpc" /\ e.code = g
    BY <1>1, <2>1, AnswerMakeable
  <2>3. Read(ok, e) /\ UNCHANGED <<origin, viaHTTP>> /\ ok \in BOOLEAN
    BY <1>3 DEF GRPCStatus
  <2>4. CodeFromGRPC(e.code) = c
    BY <2>2
  <2> HIDE DEF ok, e, c
  <2>5. BoundaryIInv' /\ Relays!Answer(ok, c)
    BY <2>2, <2>3, <2>4, ReadStep
  <2>6. Relays!HopGRPC
    BY <2>3, <2>5, SameCodes DEF Relays!HopGRPC, ok, c
  <2> QED BY <1>0, <2>5, <2>6 DEF RelayStep, Relays!Next
<1>4. CASE WriteError
  <2> DEFINE status == HTTP(code)
             ok == status < 400
             c == CodeFromHTTP(status)
             e == Error("detailed", <<>>, c, FALSE)
  <2>0. ok \in BOOLEAN
    <3>1. status \in Int
      BY <1>1, AnswerCodes
    <3> QED BY <3>1
  <2>1. Read(ok, e) /\ UNCHANGED origin /\ viaHTTP' = TRUE /\ ok \in BOOLEAN
    <3> HIDE DEF ok
    <3> QED BY <1>4, <2>0 DEF WriteError, ok
  <2>2. ~ok => c \in Known
    BY <1>1, AnswerCodes, HTTPKnown
  <2> HIDE DEF c, ok
  <2>3. ~ok => /\ Makeable(e) /\ e.kids = <<>> /\ (e.kind # "grpc" => e.code \in Known)
               /\ e.kind = "detailed" /\ e.code = c
    BY <1>2, <2>2
  <2> HIDE DEF e
  <2>4. BoundaryIInv' /\ Relays!Answer(ok, c)
    BY <2>1, <2>3, ReadStep
  <2>5. Relays!HopHTTP
    BY <2>1, <2>4, SameCodes DEF Relays!HopHTTP, ok, c
  <2> QED BY <1>0, <2>4, <2>5 DEF RelayStep, Relays!Next
<1>5. CASE WriteErrorJSON
  <2> DEFINE ok == HTTP(code) < 400
             c == CodeNamed(responseCode(code))
             e == Error("detailed", <<>>, c, FALSE)
  <2>0. ok \in BOOLEAN
    <3>1. HTTP(code) \in Int
      BY <1>1, AnswerCodes
    <3> QED BY <3>1
  <2>1. Read(ok, e) /\ UNCHANGED <<origin, viaHTTP>> /\ ok \in BOOLEAN
    BY <1>5, <2>0 DEF WriteErrorJSON
  <2>2. c \in Known
    BY <1>1, AnswerCodes
  <2> HIDE DEF c, ok
  <2>3. /\ Makeable(e) /\ e.kids = <<>> /\ (e.kind # "grpc" => e.code \in Known)
        /\ e.kind = "detailed" /\ e.code = c
    BY <1>2, <2>2
  <2> HIDE DEF e
  <2>4. BoundaryIInv' /\ Relays!Answer(ok, c)
    BY <2>1, <2>3, ReadStep
  <2>5. Relays!HopJSON
    BY <2>1, <2>4, SameCodes DEF Relays!HopJSON, ok, c
  <2> QED BY <1>0, <2>4, <2>5 DEF RelayStep, Relays!Next
<1> QED BY <1>3, <1>4, <1>5

LEMMA FromResponseStep ==
    ASSUME BoundaryIInv, NEW status \in Statuses, FromResponse(status)
    PROVE  BoundaryIInv' /\ RelayStep /\ OriginGiven
<1> DEFINE ok == status < 400
           c == CodeFromHTTP(status)
           e == Error("detailed", <<>>, c, FALSE)
<1>1. TreeIInv /\ failing = TRUE
  BY DEF BoundaryIInv, FromResponse, Read
<1>2. status \in Int /\ ~ok
  BY StatusesAssumption
<1>3. c \in Known
  BY <1>2, HTTPKnown
<1>4. Read(ok, e) /\ Attaches
  BY DEF FromResponse
<1> HIDE DEF c, ok
<1>5. /\ Makeable(e) /\ e.kids = <<>> /\ (e.kind # "grpc" => e.code \in Known)
      /\ e.kind = "detailed" /\ e.code = c
  BY <1>1, <1>3, AnswerMakeable
<1> HIDE DEF e
<1>6. /\ hops < MaxHops /\ hops' = hops + 1 /\ failing' = TRUE /\ Place(e) /\ Moved
  BY <1>2, <1>4 DEF Read, Moved
<1>7. BoundaryIInv' /\ marked' = FALSE /\ code' = c
  BY <1>5, <1>6, AnswerMoves
<1>8. /\ node'[Len(node')].kind = "detailed" /\ node'[Len(node')].code = c
      /\ node'[Len(node')].kids = <<>>
  BY <1>5, <1>6, MadeKeeps DEF BoundaryIInv
<1>9. origin' = c /\ viaHTTP' = FALSE
  BY <1>4, <1>8 DEF Attaches, Last
<1>10. OriginGiven
  BY <1>8, <1>9 DEF OriginGiven, CodeMethod, Inherits, Last
<1>11. Relays!FromResponse(status)
  BY <1>1, <1>6, <1>7, <1>9, SameCodes DEF Relays!FromResponse, Relays!Attached, c
<1> QED BY <1>7, <1>10, <1>11 DEF RelayStep, Relays!Next

-----------------------------------------------------------------------------
(* The refinement. *)

LEMMA BoundaryStart ==
    ASSUME BInit
    PROVE  BoundaryIInv /\ Relays!Init
<1>1. PICK e \in Origins : node = <<[e EXCEPT !.order = <<1>>]>>
  BY DEF BInit
<1> DEFINE Fresh == [kind : AllKinds, kids : {<<>>}, code : Int, public : BOOLEAN, order : {<<>>}]
<1>2. /\ e.kids = <<>> /\ e.public = FALSE /\ e \in Fresh
      /\ \/ e.kind \in Leaves \ {"grpc"} /\ e.code = Code.NoCode
         \/ e.kind = "detailed" /\ e.code \in Codes \cup {Code.NoCode}
  <2>1. ASSUME NEW s \in Sentinels \cup {"canceled", "deadline"}, e = Plain(s, <<>>)
        PROVE  /\ e.kids = <<>> /\ e.public = FALSE /\ e.kind \in Leaves \ {"grpc"} /\ e.code = Code.NoCode
               /\ e \in Fresh
    BY <2>1, SentinelsAssumption DEF Plain, Error, Leaves, Kinds, AllKinds, Code
  <2>2. ASSUME NEW c \in Codes \cup {Code.NoCode}, e = Error("detailed", <<>>, c, FALSE)
        PROVE  /\ e.kids = <<>> /\ e.public = FALSE /\ e.kind = "detailed" /\ e.code = c
               /\ e \in Fresh
    <3>1. c \in Int
      BY CodesAssumption DEF Code
    <3> QED BY <2>2, <3>1 DEF Error, AllKinds, Kinds
  <2> QED BY <2>1, <2>2 DEF Origins
<1> DEFINE x == [e EXCEPT !.order = <<1>>]
<1>3. /\ x.kind = e.kind /\ x.kids = <<>> /\ x.code = e.code /\ x.public = FALSE /\ x.order = <<1>>
      /\ x \in Errors
  <2>1. <<1>> \in Seq(Nat) /\ <<>> \in Seq(Nat)
    BY EmptySeq
  <2> DEFINE o == <<1>>
  <2> HIDE DEF o
  <2>2. o \in Seq(Nat) /\ e.kids \in Seq(Nat)
    BY <1>2, <2>1 DEF o
  <2>3. [e EXCEPT !.order = o] \in Errors
    BY <1>2, <2>2 DEF Errors
  <2>4. LET y == [e EXCEPT !.order = o]
        IN  /\ y.kind = e.kind /\ y.kids = e.kids /\ y.code = e.code
            /\ y.public = e.public /\ y.order = o
    BY <1>2
  <2> QED BY <1>2, <2>3, <2>4 DEF o
<1> HIDE DEF x
<1>4. node \in Seq(Errors) /\ Len(node) = 1 /\ Ids = {1} /\ node[1] = x
  BY <1>1, <1>3 DEF Ids, x
<1>5. Len(<<>>) = 0 /\ <<>> \in Seq({})
  BY EmptySeq
<1>6. TreeIInv
  <2>1. KindOK(x)
    BY <1>2, <1>3, <1>5, SentinelsAssumption DEF KindOK, Decorators, Leaves, Kinds
  <2>2. CodeOK(x)
    <3>1. e.kind # "grpc" /\ (e.kind \in {"detailed", "coded"} \/ e.code = Code.NoCode)
      BY <1>2, SentinelsAssumption DEF Leaves, Kinds
    <3>2. e.code \in Int \ {Code.OK}
      BY <1>2, CodesAssumption DEF Code
    <3> QED BY <1>3, <3>1, <3>2 DEF CodeOK
  <2>3. ToSet(x.kids) = {}
    BY <1>3, <1>5 DEF ToSet
  <2>4. TypeOK
    BY <1>3, <1>4, <2>1, <2>2, <2>3 DEF TypeOK
  <2>5. OrderOK(1)
    <3>1. AsKids(x) = <<>>
      <4>1. x.kind # "linkMulti"
        BY <1>2, <1>3, SentinelsAssumption DEF Leaves, Kinds
      <4> QED BY <1>3, <4>1 DEF AsKids
    <3> DEFINE ss == KidOrders(x)
    <3>2. ss \in [1..0 -> Seq({})]
      BY <1>5, <3>1 DEF KidOrders
    <3> HIDE DEF ss
    <3>3. ss \in Seq(Seq({})) /\ Len(ss) = 0
      BY <3>2, SeqDef, LenProperties
    <3>4. FlattenSeq(ss) \in Seq({})
      BY <3>3, Flatten
    <3> DEFINE rest == FlattenSeq(ss)
    <3> HIDE DEF rest
    <3>5. rest = <<>>
      <4>1. rest \in Seq({})
        BY <3>4 DEF rest
      <4>2. rest \in [1..Len(rest) -> {}] /\ Len(rest) \in Nat
        BY <4>1, LenProperties
      <4>3. Len(rest) = 0
        <5>1. Len(rest) # 0 => 1 \in 1..Len(rest)
          BY <4>2
        <5> QED BY <4>2, <5>1
      <4> QED BY <4>1, <4>3, EmptySeq
    <3>6. <<1>> = <<1>> \o rest /\ <<1>> \in Seq(1..1)
      BY <3>5
    <3> QED BY <1>3, <1>4, <3>6 DEF OrderOK, rest, ss
  <2> QED BY <1>4, <2>4, <2>5 DEF TreeIInv
<1>7. CodesKnown
  BY <1>2, <1>3, <1>4, KnownCodes DEF CodesKnown
<1>8. cur = 1 /\ failing = TRUE /\ hops = 0 /\ code = GetCode[cur] /\ marked = Marked(cur)
      /\ origin = code /\ viaHTTP = FALSE
  BY DEF BInit
<1>9. BoundaryIInv
  BY <1>4, <1>6, <1>7, <1>8 DEF BoundaryIInv
<1>10. code \in Known /\ marked \in BOOLEAN
  BY <1>9, CodeReported DEF BoundaryIInv, Marked, Is
<1>11. Relays!Init
  BY <1>8, <1>10 DEF Relays!Init, Known
<1> QED BY <1>9, <1>11

LEMMA BoundaryStep ==
    ASSUME BoundaryIInv, [BNext]_bvars
    PROVE  BoundaryIInv' /\ RelayStep /\ OriginGiven
<1>1. CASE Layer
  BY <1>1, LayerStep
<1>2. CASE Collected
  BY <1>2, CollectedStep
<1>3. CASE Another
  BY <1>3, AnotherStep
<1>4. CASE GRPCStatus \/ WriteError \/ WriteErrorJSON
  BY <1>4, AnswerSteps
<1>5. CASE \E s \in Statuses : FromResponse(s)
  BY <1>5, FromResponseStep
<1>6. CASE UNCHANGED bvars
  <2>1. UNCHANGED <<node, cur, code, marked>> /\ failing' \in BOOLEAN
    BY <1>6 DEF bvars, BoundaryIInv
  <2>2. BoundaryIInv'
    BY <2>1, SameKeeps
  <2> QED BY <1>6, <2>2 DEF bvars, RelayStep, Relays!vars, OriginGiven
<1> QED BY <1>1, <1>2, <1>3, <1>4, <1>5, <1>6 DEF BNext

(* Whatever trees the services build, the code and the marker of the error in hand
   move as Relay says: a layer keeps the code, or attaches one, no layer takes a
   marker off, and an answer carries over the code that GetCode reports and no more. *)
THEOREM TreesImplementRelay == BSpec => ImplementsRelay
<1>1. BInit => BoundaryIInv /\ Relays!Init
  BY BoundaryStart
<1>2. BoundaryIInv /\ [BNext]_bvars => BoundaryIInv' /\ [Relays!Next]_(Relays!vars)
  BY BoundaryStep DEF RelayStep
<1> QED BY <1>1, <1>2, PTL DEF BSpec, ImplementsRelay, Relays!Spec

-----------------------------------------------------------------------------
(* What is proved of Relay. *)
Relayed == INSTANCE Relay_proof WITH Codes <- Known

LEMMA SameCodesProved ==
    /\ Relayed!Code = Code
    /\ \A c : /\ Relayed!HTTP(c) = HTTP(c) /\ Relayed!GRPC(c) = GRPC(c)
              /\ Relayed!CodeFromHTTP(c) = CodeFromHTTP(c)
              /\ Relayed!CodeFromGRPC(c) = CodeFromGRPC(c)
              /\ Relayed!CodeNamed(c) = CodeNamed(c)
              /\ Relayed!responseCode(c) = responseCode(c)
              /\ Relayed!Internal(c) = Internal(c) /\ Relayed!Transient(c) = Transient(c)
<1>1. Relayed!Code = Code
  BY DEF Relayed!Code, Code
<1>2. \A c : Relayed!HTTP(c) = HTTP(c) /\ Relayed!GRPC(c) = GRPC(c)
  BY <1>1, ZenonT(40) DEF Relayed!HTTP, HTTP, Relayed!GRPC, GRPC, Relayed!GRPCUnknown,
     GRPCUnknown, Relayed!StatusClientClosedRequest, StatusClientClosedRequest
<1>3. \A c : Relayed!CodeFromHTTP(c) = CodeFromHTTP(c)
  BY <1>1, ZenonT(90) DEF Relayed!CodeFromHTTP, CodeFromHTTP, Relayed!codeFromHTTPClass,
     codeFromHTTPClass, Relayed!httpStatusEnd, httpStatusEnd,
     Relayed!StatusClientClosedRequest, StatusClientClosedRequest
<1>4. \A c : /\ Relayed!CodeFromGRPC(c) = CodeFromGRPC(c)
             /\ Relayed!CodeNamed(c) = CodeNamed(c)
             /\ Relayed!responseCode(c) = responseCode(c)
  BY <1>1, ZenonT(40) DEF Relayed!CodeFromGRPC, CodeFromGRPC, Relayed!GRPCCodes, GRPCCodes,
     Relayed!CodeNamed, CodeNamed, Relayed!responseCode, responseCode
<1>5. \A c : Relayed!Internal(c) = Internal(c) /\ Relayed!Transient(c) = Transient(c)
  BY <1>1 DEF Relayed!Internal, Internal, Relayed!Transient, Transient
<1> QED BY <1>1, <1>2, <1>3, <1>4, <1>5

(* Relay's steps are those that its theorems are about. *)
LEMMA SameRelay ==
    /\ Relays!Init => Relayed!Init
    /\ [Relays!Next]_(Relays!vars) => [Relayed!Next]_(Relayed!vars)
<1>1. Relays!Init => Relayed!Init
  BY SameCodes, SameCodesProved DEF Relays!Init, Relayed!Init, Known
<1>2. ASSUME NEW c, Relays!Recode(c) PROVE Relayed!Recode(c)
  BY <1>2 DEF Relays!Recode, Relayed!Recode, Relays!Attached, Relayed!Attached
<1>3. Relays!Mark => Relayed!Mark
  BY DEF Relays!Mark, Relayed!Mark
<1>4. ASSUME NEW s, Relays!FromResponse(s) PROVE Relayed!FromResponse(s)
  BY <1>4, SameCodes, SameCodesProved
     DEF Relays!FromResponse, Relayed!FromResponse, Relays!Attached, Relayed!Attached
<1>5. Relays!HopGRPC => Relayed!HopGRPC
  BY SameCodes, SameCodesProved
     DEF Relays!HopGRPC, Relayed!HopGRPC, Relays!Answer, Relayed!Answer
<1>6. Relays!HopHTTP => Relayed!HopHTTP
  BY SameCodes, SameCodesProved
     DEF Relays!HopHTTP, Relayed!HopHTTP, Relays!Answer, Relayed!Answer
<1>7. Relays!HopJSON => Relayed!HopJSON
  BY SameCodes, SameCodesProved
     DEF Relays!HopJSON, Relayed!HopJSON, Relays!Answer, Relayed!Answer
<1>8. Relays!Next => Relayed!Next
  <2>1. (\E c \in Known \cup {Relays!Code.NoCode} : Relays!Recode(c))
        => \E c \in Known \cup {Relayed!Code.NoCode} : Relayed!Recode(c)
    BY <1>2, SameCodes, SameCodesProved
  <2>2. (\E s \in Statuses : Relays!FromResponse(s)) => \E s \in Statuses : Relayed!FromResponse(s)
    BY <1>4
  <2> QED BY <2>1, <2>2, <1>3, <1>5, <1>6, <1>7 DEF Relays!Next, Relayed!Next, Known
<1>9. UNCHANGED Relays!vars => UNCHANGED Relayed!vars
  BY DEF Relays!vars, Relayed!vars
<1> QED BY <1>1, <1>8, <1>9

(* Whatever layers, collections and answers an error goes through, no caller reads
   success, and what GetCode says of the error in hand answers the status of the
   code that is meant, stays on its side at fault and is transient only if it is:
   the code last attached, NoCode behind a field error.  Only a collection takes
   another code, and then that of another error collected: NoCode too, when that
   one is a detailed error without a code. *)
THEOREM TreesKeepPromises ==
    BSpec => [](/\ failing /\ HTTP(GetCode[cur]) = HTTP(origin)
                /\ Internal(origin) => Internal(GetCode[cur])
                /\ Internal(GetCode[cur]) => HTTP(origin) = 500
                /\ Transient(GetCode[cur]) => Transient(origin))
             /\ [][OriginGiven]_bvars
<1>1. Relayed!CodesAssumption /\ Relayed!StatusesAssumption /\ Relayed!MaxHopsAssumption
  BY KnownCodes, StatusesAssumption, MaxHopsAssumption, SameCodesProved
     DEF Relayed!CodesAssumption, Relayed!StatusesAssumption, Relayed!MaxHopsAssumption
<1>2. /\ Relayed!Spec => []Relayed!StatusKept /\ []Relayed!FaultKept
      /\ Relayed!Spec => []Relayed!NeverMadeTransient /\ []Relayed!NoErrorLost
  BY <1>1, Relayed!StatusIsKept, Relayed!FaultIsKept, Relayed!PermanentIsKept,
     Relayed!ErrorNeverLost, PTL
<1>3. ImplementsRelay => Relayed!Spec
  BY SameRelay, PTL DEF ImplementsRelay, Relays!Spec, Relayed!Spec
<1>4. BSpec => []BoundaryIInv
  <2>1. BInit => BoundaryIInv
    BY BoundaryStart
  <2>2. BoundaryIInv /\ [BNext]_bvars => BoundaryIInv'
    BY BoundaryStep
  <2> QED BY <2>1, <2>2, PTL DEF BSpec
<1>5. /\ BoundaryIInv /\ Relayed!StatusKept /\ Relayed!FaultKept
      /\ Relayed!NeverMadeTransient /\ Relayed!NoErrorLost
      => /\ failing /\ HTTP(GetCode[cur]) = HTTP(origin)
         /\ Internal(origin) => Internal(GetCode[cur])
         /\ Internal(GetCode[cur]) => HTTP(origin) = 500
         /\ Transient(GetCode[cur]) => Transient(origin)
  BY SameCodesProved DEF BoundaryIInv, Relayed!StatusKept, Relayed!FaultKept,
     Relayed!NeverMadeTransient, Relayed!NoErrorLost
<1>6. BoundaryIInv /\ [BNext]_bvars => [OriginGiven]_bvars
  BY BoundaryStep
<1>7. BSpec => [][OriginGiven]_bvars
  BY <1>4, <1>6, PTL DEF BSpec
<1> QED BY <1>2, <1>3, <1>4, <1>5, <1>7, TreesImplementRelay, PTL
=============================================================================
