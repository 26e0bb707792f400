-------------------------- MODULE PanicTrace_proof --------------------------
(***************************************************************************)
(* Why a trace starts where it should, for stacks of any depth and any       *)
(* nesting of panics: a dispatcher stands on the stack that its panic was    *)
(* raised on for as long as it stands at all.                                *)
(***************************************************************************)
EXTENDS PanicTrace, Recursion, SequenceTheorems

Deferred == Funcs \cup {"Recover", "RecoverErr", "handler"}
Fn == Deferred \cup {"gopanic", "panicmem", "sigpanic", "callback", "setErr", "closure", "FromPanic",
                     "Callers", "captureStack", "WithStack", "newDetailed", "Detailed",
                     "Caller", "CreateStackFrame", "capturePanicStack", "FromRecover"}
FrameRecord == [fn : Fn, defers : Seq(Deferred), returning : BOOLEAN,
                site : Seq(Fn), height : Nat, recovered : BOOLEAN]

(* The names of the frames that frame i of s stands on. *)
Under(s, i) == [j \in 1..(Len(s) - i) |-> s[i + j].fn]

(* The stack that a panic was raised on is there, under its dispatcher, until the
   dispatcher is gone; so is the frame whose deferred function it has run. *)
FrameOK(s, i) ==
    s[i].fn = "gopanic" =>
        /\ s[i].defers = <<>>
        /\ i < Len(s) /\ s[i].site = Under(s, i)
        /\ i > 1 \/ s[i].recovered => s[i].height \in 1..(Len(s) - i)
StackOK(s) == s \in Seq(FrameRecord) /\ \A i \in 1..Len(s) : FrameOK(s, i)

TraceIInv == StackOK(stack) /\ TraceOfPanic /\ TakenAtCaller

-----------------------------------------------------------------------------
(* The stack. *)

LEMMA StackFacts ==
    ASSUME NEW s, StackOK(s)
    PROVE  /\ Len(s) \in Nat /\ DOMAIN s = 1..Len(s)
           /\ \A i \in 1..Len(s) : s[i] \in FrameRecord /\ FrameOK(s, i)
BY LenProperties, ElementOfSeq DEF StackOK

(* Frames popped, and what is left changed in nothing that a dispatcher tells. *)
LEMMA Left ==
    ASSUME NEW s, StackOK(s), NEW t \in Seq(FrameRecord), NEW k \in Nat, Len(s) = Len(t) + k,
           \A i \in 1..Len(t) : t[i].fn = s[i + k].fn /\ t[i].site = s[i + k].site,
           \A i \in 1..Len(t) : t[i].fn = "gopanic" =>
               /\ t[i].defers = <<>>
               /\ i > 1 \/ t[i].recovered => t[i].height \in 1..(Len(t) - i)
    PROVE  StackOK(t)
<1> SUFFICES ASSUME NEW i \in 1..Len(t), t[i].fn = "gopanic"
             PROVE  i < Len(t) /\ t[i].site = Under(t, i)
  BY DEF StackOK, FrameOK
<1>1. Len(s) \in Nat /\ Len(t) \in Nat
  BY StackFacts, LenProperties
<1>2. i + k \in 1..Len(s) /\ s[i + k].fn = "gopanic"
  BY <1>1
<1>3. i + k < Len(s) /\ s[i + k].site = Under(s, i + k)
  BY <1>2, StackFacts DEF FrameOK
<1>4. Under(t, i) = Under(s, i + k)
  <2>1. Len(t) - i = Len(s) - (i + k)
    BY <1>1
  <2>2. ASSUME NEW j \in 1..(Len(t) - i) PROVE t[i + j].fn = s[i + k + j].fn
    <3>1. i + j \in 1..Len(t) /\ i + j + k = i + k + j
      BY SMTT(30), <1>1
    <3> QED BY <3>1
  <2> QED BY <2>1, <2>2 DEF Under
<1> QED BY <1>1, <1>3, <1>4

LEMMA Pushed ==
    ASSUME NEW s, StackOK(s), NEW fs \in Seq(FrameRecord),
           \A i \in 1..Len(fs) : fs[i].fn # "gopanic",
           Len(s) > 0 /\ s[1].fn = "gopanic" => s[1].height \in 1..(Len(s) - 1)
    PROVE  StackOK(fs \o s)
<1> DEFINE t == fs \o s
           k == Len(fs)
<1>1. /\ Len(s) \in Nat /\ k \in Nat /\ t \in Seq(FrameRecord) /\ Len(t) = k + Len(s)
      /\ \A i \in 1..(k + Len(s)) : t[i] = IF i <= k THEN fs[i] ELSE s[i - k]
  BY StackFacts, LenProperties, ConcatProperties DEF StackOK
<1> HIDE DEF t, k
<1> SUFFICES ASSUME NEW i \in 1..Len(t), t[i].fn = "gopanic" PROVE FrameOK(t, i)
  BY <1>1 DEF StackOK, FrameOK, t
<1>2. ~(i <= k) /\ t[i] = s[i - k] /\ i - k \in 1..Len(s)
  BY <1>1 DEF k
<1> DEFINE n == i - k
<1>3. n \in 1..Len(s) /\ t[i] = s[n] /\ i = n + k /\ n \in Nat
  BY <1>1, <1>2
<1> HIDE DEF n
<1>4. FrameOK(s, n) /\ s[n].fn = "gopanic"
  BY <1>3, StackFacts
<1>5. Under(t, i) = Under(s, n)
  <2>1. Len(t) - i = Len(s) - n
    BY <1>1, <1>3
  <2>2. ASSUME NEW j \in 1..(Len(s) - n) PROVE t[i + j].fn = s[n + j].fn
    <3>1. i + j \in 1..(k + Len(s)) /\ ~(i + j <= k) /\ i + j - k = n + j
      BY <1>1, <1>3
    <3> QED BY <1>1, <3>1
  <2> QED BY <2>1, <2>2 DEF Under
<1>6. s[n].height \in 1..(Len(s) - n)
  <2>1. CASE n = 1
    BY <1>1, <1>3, <1>4, <2>1
  <2>2. CASE n > 1
    BY <1>4, <2>2 DEF FrameOK
  <2> QED BY <1>3, <2>1, <2>2
<1>7. Len(t) - i = Len(s) - n /\ i < Len(t)
  BY <1>1, <1>3, <1>4 DEF FrameOK
<1> QED BY <1>3, <1>4, <1>5, <1>6, <1>7 DEF FrameOK

(* A dispatcher, on the stack of its panic. *)
LEMMA PushedPanic ==
    ASSUME NEW s, StackOK(s), Len(s) > 0, s[1].fn # "gopanic", NEW f \in FrameRecord,
           f.fn = "gopanic", f.defers = <<>>, f.recovered = FALSE, f.site = Names(s)
    PROVE  StackOK(<<f>> \o s)
<1> DEFINE t == <<f>> \o s
<1>1. /\ Len(s) \in Nat /\ t \in Seq(FrameRecord) /\ Len(t) = 1 + Len(s)
      /\ \A i \in 1..(1 + Len(s)) : t[i] = IF i <= 1 THEN f ELSE s[i - 1]
  <2> DEFINE fs == <<f>>
  <2>1. fs \in Seq(FrameRecord) /\ Len(fs) = 1 /\ fs[1] = f
    OBVIOUS
  <2> HIDE DEF fs
  <2>2. /\ fs \o s \in Seq(FrameRecord) /\ Len(fs \o s) = 1 + Len(s)
        /\ \A i \in 1..(1 + Len(s)) : (fs \o s)[i] = IF i <= 1 THEN fs[i] ELSE s[i - 1]
    <3>1. s \in Seq(FrameRecord)
      BY DEF StackOK
    <3>2. /\ fs \o s \in Seq(FrameRecord) /\ Len(fs \o s) = Len(fs) + Len(s)
          /\ \A i \in 1..(Len(fs) + Len(s)) :
                (fs \o s)[i] = IF i <= Len(fs) THEN fs[i] ELSE s[i - Len(fs)]
      BY <2>1, <3>1, ConcatProperties
    <3> QED BY <2>1, <3>2
  <2>3. \A i \in 1..(1 + Len(s)) : i <= 1 => i = 1
    BY StackFacts
  <2> QED BY <2>1, <2>2, <2>3, StackFacts DEF fs
<1> HIDE DEF t
<1> SUFFICES ASSUME NEW i \in 1..Len(t), t[i].fn = "gopanic" PROVE FrameOK(t, i)
  BY <1>1 DEF StackOK, FrameOK, t
<1>2. CASE i = 1
  <2>1. t[i] = f
    BY <1>1, <1>2
  <2>2. Under(t, 1) = Names(s)
    <3>1. ASSUME NEW j \in 1..Len(s) PROVE t[1 + j].fn = s[j].fn
      <4>1. 1 + j \in 1..(1 + Len(s)) /\ ~(1 + j <= 1) /\ 1 + j - 1 = j
        BY <1>1
      <4> QED BY <1>1, <4>1
    <3>2. Len(t) - 1 = Len(s)
      BY <1>1
    <3> QED BY <3>1, <3>2 DEF Under, Names
  <2> QED BY <1>1, <1>2, <2>1, <2>2 DEF FrameOK
<1>3. CASE i # 1
  <2>1. t[i] = s[i - 1] /\ i - 1 \in 1..Len(s) /\ i > 1 /\ i - 1 # 1
    <3>1. t[i] = s[i - 1] /\ i - 1 \in 1..Len(s) /\ i > 1
      BY <1>1, <1>3
    <3> QED BY <3>1
  <2>2. FrameOK(s, i - 1)
    BY <2>1, StackFacts
  <2>3. Under(t, i) = Under(s, i - 1)
    <3>1. Len(t) - i = Len(s) - (i - 1)
      BY <1>1
    <3>2. ASSUME NEW j \in 1..(Len(t) - i) PROVE t[i + j].fn = s[i - 1 + j].fn
      <4>1. i + j \in 1..(1 + Len(s)) /\ ~(i + j <= 1) /\ i + j - 1 = i - 1 + j
        BY <1>1, <1>3
      <4> QED BY <1>1, <4>1
    <3> QED BY <3>1, <3>2 DEF Under
  <2>4. Len(t) - i = Len(s) - (i - 1) /\ i - 1 > 1
    BY <1>1, <2>1
  <2> QED BY <1>1, <2>1, <2>2, <2>3, <2>4 DEF FrameOK
<1> QED BY <1>2, <1>3

(* One frame changed in what FrameOK allows. *)
LEMMA Changed ==
    ASSUME NEW s, StackOK(s), NEW n \in 1..Len(s), NEW f \in FrameRecord,
           f.fn = s[n].fn, f.site = s[n].site,
           f.fn = "gopanic" =>
               /\ f.defers = <<>>
               /\ n > 1 \/ f.recovered => f.height \in 1..(Len(s) - n)
    PROVE  /\ StackOK([s EXCEPT ![n] = f]) /\ Len([s EXCEPT ![n] = f]) = Len(s)
           /\ \A i \in 1..Len(s) : [s EXCEPT ![n] = f][i] = IF i = n THEN f ELSE s[i]
<1> DEFINE t == [s EXCEPT ![n] = f]
<1>1. /\ t \in Seq(FrameRecord) /\ Len(t) = Len(s)
      /\ \A i \in 1..Len(s) : t[i] = IF i = n THEN f ELSE s[i]
  BY ExceptSeq DEF StackOK
<1> HIDE DEF t
<1>2. /\ 0 \in Nat /\ Len(s) = Len(t) + 0
      /\ \A i \in 1..Len(t) : i + 0 = i
  BY <1>1, StackFacts
<1>3. \A i \in 1..Len(t) : t[i].fn = s[i + 0].fn /\ t[i].site = s[i + 0].site
  BY <1>1, <1>2
<1>4. \A i \in 1..Len(t) : t[i].fn = "gopanic" =>
          /\ t[i].defers = <<>>
          /\ i > 1 \/ t[i].recovered => t[i].height \in 1..(Len(t) - i)
  BY <1>1, StackFacts DEF FrameOK
<1>5. StackOK(t)
  BY <1>1, <1>2, <1>3, <1>4, Left
<1> QED BY <1>1, <1>5 DEF t

(* The frames under the first n. *)
LEMMA Popped ==
    ASSUME NEW s, StackOK(s), NEW n \in 1..Len(s)
    PROVE  LET t == SubSeq(s, n + 1, Len(s)) IN
           /\ StackOK(t) /\ Len(t) = Len(s) - n
           /\ \A i \in 1..Len(t) : t[i] = s[i + n]
<1> DEFINE t == SubSeq(s, n + 1, Len(s))
<1>1. Len(s) \in Nat /\ n \in Nat /\ \A i \in (n + 1)..Len(s) : s[i] \in FrameRecord
  BY StackFacts
<1>2. /\ t \in Seq(FrameRecord)
      /\ Len(t) = IF n + 1 <= Len(s) THEN Len(s) - (n + 1) + 1 ELSE 0
      /\ \A i \in 1..(Len(s) - (n + 1) + 1) : t[i] = s[n + 1 + i - 1]
  BY <1>1, SubSeqProperties
<1> HIDE DEF t
<1>3. Len(t) = Len(s) - n /\ Len(s) - (n + 1) + 1 = Len(s) - n
  BY <1>1, <1>2
<1>4. ASSUME NEW i \in 1..Len(t) PROVE t[i] = s[i + n] /\ i + n \in 1..Len(s) /\ i + n > 1
  <2>1. n + 1 + i - 1 = i + n /\ i + n \in 1..Len(s) /\ i + n > 1
    BY <1>1, <1>3
  <2> QED BY <1>2, <1>3, <2>1
<1>5. ASSUME NEW i \in 1..Len(t), t[i].fn = "gopanic"
      PROVE  t[i].defers = <<>> /\ t[i].height \in 1..(Len(t) - i)
  <2>1. FrameOK(s, i + n) /\ Len(t) - i = Len(s) - (i + n)
    BY <1>1, <1>3, <1>4, StackFacts
  <2> QED BY <1>4, <1>5, <2>1 DEF FrameOK
<1>6. StackOK(t)
  <2>1. Len(s) = Len(t) + n
    BY <1>1, <1>3
  <2> QED BY <1>1, <1>2, <1>4, <1>5, <2>1, Left
<1> QED BY <1>3, <1>4, <1>6 DEF t

LEMMA NewFrame ==
    ASSUME NEW fn \in Fn, NEW defers \in Seq(Deferred)
    PROVE  /\ Frame(fn, defers) \in FrameRecord /\ Frame(fn, defers).fn = fn
           /\ Returning(fn, defers) \in FrameRecord /\ Returning(fn, defers).fn = fn
           /\ Frame(fn, defers).defers = defers /\ Frame(fn, defers).recovered = FALSE
<1>1. <<>> \in Seq(Fn)
  BY EmptySeq
<1>2. /\ Frame(fn, defers) \in FrameRecord /\ Frame(fn, defers).fn = fn
      /\ Frame(fn, defers).defers = defers /\ Frame(fn, defers).recovered = FALSE
  BY <1>1 DEF Frame, FrameRecord
<1>3. Returning(fn, defers) \in FrameRecord /\ Returning(fn, defers).fn = fn
  BY <1>1 DEF Frame, Returning, FrameRecord
<1> QED BY <1>2, <1>3

LEMMA NamesSeq ==
    ASSUME NEW s, StackOK(s)
    PROVE  Names(s) \in Seq(Fn) /\ Len(Names(s)) = Len(s)
<1>1. Len(s) \in Nat /\ \A i \in 1..Len(s) : s[i].fn \in Fn
  BY StackFacts DEF FrameRecord
<1>2. Names(s) \in [1..Len(s) -> Fn]
  BY <1>1 DEF Names
<1>3. Names(s) \in Seq(Fn)
  BY <1>1, <1>2, SeqDef
<1> QED BY <1>1, <1>2, <1>3, LenProperties

(* A deferred function called, on the frame that deferred it or on a dispatcher. *)
LEMMA PushedOne ==
    ASSUME NEW s, StackOK(s), NEW fn \in Deferred,
           Len(s) > 0 /\ s[1].fn = "gopanic" => s[1].height \in 1..(Len(s) - 1)
    PROVE  StackOK(<<Frame(fn, <<>>)>> \o s)
<1> DEFINE f == Frame(fn, <<>>)
           fs == <<f>>
<1>1. fn \in Fn /\ fn # "gopanic"
  BY FuncsAssumption DEF Fn, Deferred
<1>2. f \in FrameRecord /\ f.fn # "gopanic"
  BY <1>1, NewFrame, EmptySeq
<1> HIDE DEF f
<1>3. fs \in Seq(FrameRecord) /\ \A i \in 1..Len(fs) : fs[i].fn # "gopanic"
  BY <1>2
<1> HIDE DEF fs
<1>4. StackOK(fs \o s)
  BY <1>3, Pushed
<1> QED BY <1>4 DEF fs, f

LEMMA Nonempty ==
    ASSUME StackOK(stack), Running
    PROVE  1 \in 1..Len(stack)
<1>1. Len(stack) \in Nat \ {0}
  BY EmptySeq DEF StackOK, Running
<1> QED BY <1>1

(* A function of the program is no dispatcher. *)
LEMMA Acting ==
    ASSUME StackOK(stack), Running, User(Top.fn)
    PROVE  Len(stack) > 0 /\ 1 \in 1..Len(stack) /\ stack[1].fn # "gopanic"
<1>1. Len(stack) \in Nat \ {0}
  BY EmptySeq DEF StackOK, Running
<1> QED BY <1>1, FuncsAssumption DEF User, Top

-----------------------------------------------------------------------------
(* Every step keeps the stack so. *)

LEMMA CallStep ==
    ASSUME StackOK(stack), NEW fn \in Funcs, CallFunc(fn) \/ FromPanic(fn)
    PROVE  StackOK(stack')
<1>1. stack[1].fn # "gopanic"
  BY Acting DEF CallFunc, FromPanic, Acts
<1>2. fn \in Fn /\ fn # "gopanic" /\ <<>> \in Seq(Deferred) /\ closureDefers \in Seq(Deferred)
  BY FuncsAssumption DEF Fn, Deferred, closureDefers
<1>3. CASE CallFunc(fn)
  <2> DEFINE f == Frame(fn, <<>>)
  <2>1. f \in FrameRecord /\ f.fn # "gopanic" /\ stack' = <<f>> \o stack
    BY <1>2, <1>3, NewFrame DEF CallFunc, Push
  <2> HIDE DEF f
  <2> DEFINE fs == <<f>>
  <2>2. fs \in Seq(FrameRecord) /\ \A i \in 1..Len(fs) : fs[i].fn # "gopanic"
    BY <2>1
  <2> HIDE DEF fs
  <2>3. StackOK(fs \o stack)
    BY <1>1, <2>2, Pushed
  <2> QED BY <2>1, <2>3 DEF fs
<1>4. CASE FromPanic(fn)
  <2> DEFINE f == Frame(fn, <<>>)
             g == Returning("closure", closureDefers)
             h == Returning("FromPanic", <<>>)
  <2>1. /\ f \in FrameRecord /\ f.fn # "gopanic"
        /\ stack' = <<f, g, h>> \o stack
    BY <1>2, <1>4, NewFrame DEF FromPanic, Push
  <2>2. g \in FrameRecord /\ g.fn # "gopanic" /\ h \in FrameRecord /\ h.fn # "gopanic"
    <3>1. "closure" \in Fn /\ "FromPanic" \in Fn
      BY DEF Fn
    <3>2. g \in FrameRecord /\ g.fn = "closure" /\ h \in FrameRecord /\ h.fn = "FromPanic"
      BY <1>2, <3>1, NewFrame
    <3> QED BY <3>2
  <2> HIDE DEF f, g, h
  <2> DEFINE fs == <<f, g, h>>
  <2>3. fs \in Seq(FrameRecord) /\ \A i \in 1..Len(fs) : fs[i].fn # "gopanic"
    BY <2>1, <2>2
  <2> HIDE DEF fs
  <2>4. StackOK(fs \o stack)
    BY <1>1, <2>3, Pushed
  <2> QED BY <2>1, <2>4 DEF fs
<1> QED BY <1>3, <1>4

LEMMA DeferStep ==
    ASSUME StackOK(stack), NEW fn \in Funcs \cup {"Recover", "handler"}, Defer(fn)
    PROVE  StackOK(stack')
<1> DEFINE f == [stack[1] EXCEPT !.defers = <<fn>> \o @]
<1>1. 1 \in 1..Len(stack) /\ stack[1].fn # "gopanic" /\ stack[1] \in FrameRecord
  BY Acting, StackFacts DEF Defer, Acts
<1>2. f \in FrameRecord /\ f.fn = stack[1].fn /\ f.site = stack[1].site
  <2>1. <<fn>> \in Seq(Deferred) /\ stack[1].defers \in Seq(Deferred)
    BY <1>1 DEF Deferred, FrameRecord
  <2> DEFINE d == <<fn>> \o stack[1].defers
  <2>2. d \in Seq(Deferred)
    BY <2>1, ConcatProperties
  <2> HIDE DEF d
  <2>3. f = [stack[1] EXCEPT !.defers = d]
    BY DEF d
  <2> QED BY <1>1, <2>2, <2>3 DEF FrameRecord
<1>3. stack' = [stack EXCEPT ![1] = f]
  BY DEF Defer
<1> HIDE DEF f
<1> QED BY <1>1, <1>2, <1>3, Changed

LEMMA RaiseStep ==
    ASSUME StackOK(stack), NEW helpers \in {<<>>, <<"panicmem", "sigpanic">>}, Raise(helpers)
    PROVE  StackOK(stack')
<1> DEFINE hs == [i \in 1..Len(helpers) |-> Frame(helpers[i], <<>>)]
           g == [Frame("gopanic", <<>>) EXCEPT !.site = helpers \o Names(stack)]
           s == hs \o stack
<1>1. Len(stack) > 0 /\ stack[1].fn # "gopanic" /\ Len(stack) \in Nat
  BY Acting, StackFacts DEF Raise, Acts
<1>2. /\ helpers \in Seq(Fn) /\ Len(helpers) \in Nat
      /\ \A i \in 1..Len(helpers) : helpers[i] \in Fn /\ helpers[i] # "gopanic"
  <2>1. CASE helpers = <<>>
    BY <2>1, EmptySeq
  <2>2. CASE helpers = <<"panicmem", "sigpanic">>
    BY <2>2 DEF Fn
  <2> QED BY <2>1, <2>2
<1>3. /\ hs \in Seq(FrameRecord) /\ Len(hs) = Len(helpers)
      /\ \A i \in 1..Len(hs) : hs[i].fn = helpers[i]
  <2>1. \A i \in 1..Len(helpers) : /\ Frame(helpers[i], <<>>) \in FrameRecord
                                    /\ Frame(helpers[i], <<>>).fn = helpers[i]
    <3>1. <<>> \in Seq(Deferred) /\ \A i \in 1..Len(helpers) : helpers[i] \in Fn
      BY <1>2, EmptySeq
    <3> QED BY <3>1, NewFrame
  <2>2. hs \in [1..Len(helpers) -> FrameRecord]
    BY <2>1
  <2>3. hs \in Seq(FrameRecord) /\ Len(hs) = Len(helpers)
    BY <1>2, <2>2, SeqDef, LenProperties
  <2> QED BY <2>1, <2>3
<1> HIDE DEF hs
<1>4. StackOK(s)
  BY <1>1, <1>2, <1>3, Pushed
<1>5. /\ Len(s) = Len(helpers) + Len(stack)
      /\ \A i \in 1..Len(s) : s[i] = IF i <= Len(helpers) THEN hs[i] ELSE stack[i - Len(helpers)]
  BY <1>3, ConcatProperties DEF StackOK
<1>6. Len(s) > 0 /\ s[1].fn # "gopanic"
  <2>1. CASE Len(helpers) = 0
    <3>1. 1 \in 1..Len(s) /\ ~(1 <= Len(helpers)) /\ 1 - Len(helpers) = 1
      BY <1>1, <1>5, <2>1
    <3> QED BY <1>1, <1>5, <3>1
  <2>2. CASE Len(helpers) # 0
    <3>1. 1 \in 1..Len(s) /\ 1 <= Len(helpers) /\ 1 \in 1..Len(helpers)
      BY <1>1, <1>2, <1>5, <2>2
    <3> QED BY <1>2, <1>3, <1>5, <3>1
  <2> QED BY <2>1, <2>2
<1>7. Names(stack) \in Seq(Fn) /\ Len(Names(stack)) = Len(stack)
  BY <1>1, NamesSeq
<1>8. helpers \o Names(stack) = Names(s)
  <2> DEFINE t == helpers \o Names(stack)
  <2>1. /\ t \in Seq(Fn) /\ Len(t) = Len(s)
        /\ \A i \in 1..Len(s) : t[i] = IF i <= Len(helpers) THEN helpers[i]
                                        ELSE Names(stack)[i - Len(helpers)]
    BY <1>2, <1>5, <1>7, ConcatProperties
  <2>2. Names(s) \in Seq(Fn) /\ Len(Names(s)) = Len(s)
    BY <1>4, NamesSeq
  <2> HIDE DEF s, t
  <2>3. ASSUME NEW i \in 1..Len(s) PROVE t[i] = Names(s)[i]
    <3>1. CASE i <= Len(helpers)
      <4>1. i \in 1..Len(helpers)
        BY <1>2, <3>1
      <4> QED BY <1>3, <1>5, <2>1, <3>1, <4>1 DEF Names
    <3>2. CASE ~(i <= Len(helpers))
      <4>1. i - Len(helpers) \in 1..Len(stack)
        BY <1>1, <1>2, <1>5, <3>2
      <4> QED BY <1>5, <2>1, <3>2, <4>1 DEF Names
    <3> QED BY <3>1, <3>2
  <2>4. t = Names(s)
    BY <2>1, <2>2, <2>3, SeqEqual
  <2> QED BY <2>4 DEF t
<1>9. /\ g \in FrameRecord /\ g.fn = "gopanic" /\ g.defers = <<>> /\ g.recovered = FALSE
      /\ g.site = Names(s)
  <2>1. Frame("gopanic", <<>>) \in FrameRecord /\ Names(s) \in Seq(Fn)
    BY <1>4, NamesSeq, NewFrame, EmptySeq DEF Fn
  <2> QED BY <1>8, <2>1 DEF Frame, FrameRecord
<1>10. stack' = <<g>> \o hs \o stack
  BY DEF Raise, Push, hs
<1> HIDE DEF g
<1>11. stack' = <<g>> \o s
  <2> DEFINE fs == <<g>>
  <2>1. fs \in Seq(FrameRecord)
    BY <1>9
  <2> HIDE DEF fs
  <2>2. (fs \o hs) \o stack = fs \o (hs \o stack)
    BY SMTT(30), <1>3, <2>1, ConcatAssociative DEF StackOK
  <2> QED BY <1>10, <2>2 DEF fs
<1> HIDE DEF s
<1> QED BY <1>4, <1>6, <1>9, <1>11, PushedPanic

LEMMA ReturnStep ==
    ASSUME StackOK(stack), Return
    PROVE  StackOK(stack')
<1>1. 1 \in 1..Len(stack) /\ stack[1] \in FrameRecord /\ FrameOK(stack, 1)
  BY Nonempty, StackFacts DEF Return
<1>2. CASE Top.defers = <<>>
  <2>1. stack' = Tail(stack)
    BY <1>2 DEF Return
  <2>2. Tail(stack) = SubSeq(stack, 2, Len(stack))
    BY <1>1, TailIsSubSeq, EmptySeq DEF StackOK, Return, Running
  <2>3. 1 + 1 = 2
    OBVIOUS
  <2> QED BY <1>1, <2>1, <2>2, <2>3, Popped
<1>3. CASE Top.defers # <<>>
  <2> DEFINE d == Top.defers
             f == [stack[1] EXCEPT !.defers = Tail(@), !.returning = TRUE]
             s == [stack EXCEPT ![1] = f]
  <2>1. /\ d \in Seq(Deferred) /\ d # <<>> /\ stack[1].fn # "gopanic"
    BY <1>1, <1>3 DEF Top, FrameRecord, FrameOK
  <2>2. d[1] \in Deferred /\ Tail(d) \in Seq(Deferred)
    <3>1. Len(d) \in Nat \ {0}
      BY <2>1, EmptySeq
    <3>2. 1 \in 1..Len(d)
      BY <3>1
    <3> QED BY <2>1, <3>2, ElementOfSeq, HeadTailProperties
  <2>3. f \in FrameRecord /\ f.fn = stack[1].fn /\ f.site = stack[1].site
    <3> DEFINE rest == Tail(d)
    <3>1. rest \in Seq(Deferred)
      BY <2>2
    <3>2. f = [stack[1] EXCEPT !.defers = rest, !.returning = TRUE]
      BY DEF Top
    <3> HIDE DEF rest, f
    <3> QED BY <1>1, <3>1, <3>2 DEF FrameRecord
  <2>4. stack' = <<Frame(d[1], <<>>)>> \o s
    BY <1>3 DEF Return, Top
  <2> HIDE DEF f, d
  <2>5. StackOK(s) /\ s[1].fn # "gopanic"
    BY <1>1, <2>1, <2>3, Changed
  <2> HIDE DEF s
  <2> QED BY <2>2, <2>4, <2>5, PushedOne
<1> QED BY <1>2, <1>3

LEMMA MinOfNat ==
    ASSUME NEW I, I \subseteq Nat, I # {}
    PROVE  Min(I) \in I /\ \A i \in I : Min(I) <= i
<1>1. \E x \in I : \A y \in I : x <= y
  BY LeastElement
<1> QED BY <1>1 DEF Min

LEMMA DispatchStep ==
    ASSUME StackOK(stack), Dispatch
    PROVE  StackOK(stack')
<1> DEFINE I == {i \in 1..Len(stack) : stack[i].defers # <<>>}
           n == SelectInSeq(stack, LAMBDA f : f.defers # <<>>)
<1>1. /\ 1 \in 1..Len(stack) /\ Len(stack) \in Nat /\ stack[1] \in FrameRecord
      /\ stack[1].fn = "gopanic" /\ stack[1].recovered = FALSE /\ FrameOK(stack, 1)
  BY Nonempty, StackFacts DEF Dispatch, Dispatcher
<1>2. n = IF I # {} THEN Min(I) ELSE 0
  BY DEF SelectInSeq
<1>3. CASE I = {}
  BY <1>2, <1>3 DEF Dispatch
<1>4. CASE I # {}
  <2>1. n \in I /\ n # 0
    <3>1. I \subseteq Nat
      BY <1>1
    <3> HIDE DEF I, n
    <3>2. Min(I) \in I
      BY <1>4, <3>1, MinOfNat
    <3>3. 0 \notin I
      BY <1>1 DEF I
    <3> QED BY <1>2, <1>4, <3>2, <3>3
  <2> HIDE DEF n
  <2>2. /\ n \in 2..Len(stack) /\ stack[n] \in FrameRecord /\ stack[n].defers # <<>>
        /\ stack[n].fn # "gopanic"
    <3>1. n \in 1..Len(stack) /\ stack[n].defers # <<>> /\ stack[n] \in FrameRecord /\ FrameOK(stack, n)
      BY <2>1, StackFacts
    <3>2. n # 1
      BY <1>1, <3>1 DEF FrameOK
    <3> QED BY <1>1, <3>1, <3>2 DEF FrameOK
  <2> DEFINE d == stack[n].defers
             f == [stack[n] EXCEPT !.defers = Tail(@)]
             h == Len(stack) - n + 1
             g == [stack[1] EXCEPT !.height = h]
             s == [stack EXCEPT ![n] = f]
             t == [s EXCEPT ![1] = g]
  <2>3. d[1] \in Deferred /\ Tail(d) \in Seq(Deferred)
    <3>1. d \in Seq(Deferred) /\ d # <<>>
      BY <2>2 DEF FrameRecord
    <3>2. Len(d) \in Nat \ {0}
      BY <3>1, EmptySeq
    <3>3. 1 \in 1..Len(d)
      BY <3>2
    <3> QED BY <3>1, <3>3, ElementOfSeq, HeadTailProperties
  <2>4. f \in FrameRecord /\ f.fn = stack[n].fn /\ f.site = stack[n].site
    <3> DEFINE rest == Tail(d)
    <3>1. rest \in Seq(Deferred) /\ f = [stack[n] EXCEPT !.defers = rest]
      BY <2>3
    <3> HIDE DEF rest, f
    <3> QED BY <2>2, <3>1 DEF FrameRecord
  <2>5. h \in 1..(Len(stack) - 1) /\ h \in Nat
    BY <1>1, <2>2
  <2>6. /\ g \in FrameRecord /\ g.fn = "gopanic" /\ g.site = stack[1].site
        /\ g.defers = <<>> /\ g.height = h
    <3> HIDE DEF h
    <3> QED BY <1>1, <2>5 DEF FrameRecord, FrameOK
  <2>7. stack' = <<Frame(d[1], <<>>)>> \o t
    <3>1. stack' = <<Frame(stack[n].defers[1], <<>>)>>
                  \o [stack EXCEPT ![n].defers = Tail(@), ![1].height = Len(stack) - n + 1]
      BY <2>1 DEF Dispatch, n
    <3>2. s[1] = stack[1]
      BY <1>1, <2>2, <2>4, Changed
    <3>3. [stack EXCEPT ![n].defers = Tail(@), ![1].height = Len(stack) - n + 1] = t
      BY <3>2
    <3> QED BY <3>1, <3>3
  <2> HIDE DEF d, f, g, h
  <2>8. StackOK(s) /\ Len(s) = Len(stack) /\ s[1] = stack[1]
    BY <1>1, <2>2, <2>4, Changed
  <2> HIDE DEF s
  <2>9. StackOK(t) /\ Len(t) = Len(stack) /\ t[1] = g
    BY <1>1, <2>5, <2>6, <2>8, Changed
  <2> HIDE DEF t
  <2> QED BY <2>3, <2>5, <2>6, <2>7, <2>9, PushedOne
<1> QED BY <1>3, <1>4

LEMMA UnwindStep ==
    ASSUME StackOK(stack), Unwind
    PROVE  StackOK(stack')
<1> DEFINE n == Len(stack) - Top.height
           t == SubSeq(stack, n + 1, Len(stack))
           f == [t[1] EXCEPT !.returning = TRUE]
<1>1. /\ 1 \in 1..Len(stack) /\ Len(stack) \in Nat
      /\ stack[1].fn = "gopanic" /\ stack[1].recovered = TRUE /\ FrameOK(stack, 1)
  BY Nonempty, StackFacts DEF Unwind, Dispatcher
<1>2. Top.height \in 1..(Len(stack) - 1)
  BY <1>1 DEF FrameOK, Top
<1>3. n \in 1..Len(stack) /\ Len(stack) - Top.height + 1 = n + 1 /\ Len(stack) - n = Top.height
  BY <1>1, <1>2
<1>4. stack' = [t EXCEPT ![1] = f]
  BY <1>3 DEF Unwind
<1> HIDE DEF n
<1>5. StackOK(t) /\ Len(t) = Top.height
  BY <1>3, Popped
<1> HIDE DEF t
<1>6. 1 \in 1..Len(t) /\ t[1] \in FrameRecord /\ FrameOK(t, 1)
  BY <1>1, <1>2, <1>5, StackFacts
<1>7. /\ f \in FrameRecord /\ f.fn = t[1].fn /\ f.site = t[1].site
      /\ f.defers = t[1].defers /\ f.height = t[1].height /\ f.recovered = t[1].recovered
  BY <1>6 DEF FrameRecord
<1> HIDE DEF f
<1> QED BY <1>4, <1>5, <1>6, <1>7, Changed DEF FrameOK

(* A panic recovered: its dispatcher stands where it stood. *)
LEMMA RecoveredFrame ==
    ASSUME NEW s, StackOK(s), 2 \in 1..Len(s)
    PROVE  LET f == [s[2] EXCEPT !.recovered = TRUE]
           IN  /\ f \in FrameRecord /\ f.fn = s[2].fn /\ f.site = s[2].site
               /\ f.defers = s[2].defers /\ f.height = s[2].height
<1>1. s[2] \in FrameRecord
  BY StackFacts
<1> QED BY <1>1 DEF FrameRecord

LEMMA RecoveredStack ==
    ASSUME NEW s, StackOK(s), NEW f \in FrameRecord, 2 \in 1..Len(s), s[2].fn = "gopanic",
           f.fn = s[2].fn, f.site = s[2].site, f.defers = s[2].defers, f.height = s[2].height
    PROVE  /\ StackOK([s EXCEPT ![2] = f]) /\ Len([s EXCEPT ![2] = f]) = Len(s)
           /\ [s EXCEPT ![2] = f][1] = s[1]
<1>1. FrameOK(s, 2) /\ 1 \in 1..Len(s)
  BY StackFacts
<1>2. f.defers = <<>> /\ f.height \in 1..(Len(s) - 2)
  BY <1>1 DEF FrameOK
<1>3. /\ StackOK([s EXCEPT ![2] = f]) /\ Len([s EXCEPT ![2] = f]) = Len(s)
      /\ \A i \in 1..Len(s) : [s EXCEPT ![2] = f][i] = IF i = 2 THEN f ELSE s[i]
  BY <1>2, Changed
<1> QED BY <1>1, <1>3

LEMMA CallRecoverStep ==
    ASSUME StackOK(stack), CallRecover
    PROVE  StackOK(stack')
<1>1. 2 \in 1..Len(stack) /\ stack[2].fn = "gopanic"
  BY StackFacts DEF CallRecover, Dispatcher
<1> DEFINE f == [stack[2] EXCEPT !.recovered = TRUE]
<1>2. stack' = [stack EXCEPT ![2] = f]
  BY DEF CallRecover
<1>3. /\ f \in FrameRecord /\ f.fn = stack[2].fn /\ f.site = stack[2].site
      /\ f.defers = stack[2].defers /\ f.height = stack[2].height
  BY <1>1, RecoveredFrame
<1> HIDE DEF f
<1> QED BY <1>1, <1>2, <1>3, RecoveredStack

LEMMA RecoverStep ==
    ASSUME StackOK(stack), Recover
    PROVE  StackOK(stack')
<1> DEFINE f == [stack[1] EXCEPT !.returning = TRUE]
           s == [stack EXCEPT ![1] = f]
<1>1. 1 \in 1..Len(stack) /\ stack[1] \in FrameRecord /\ stack[1].fn # "gopanic"
  BY Nonempty, StackFacts DEF Recover, Top
<1>2. f \in FrameRecord /\ f.fn = stack[1].fn /\ f.site = stack[1].site
  BY <1>1 DEF FrameRecord
<1>3. /\ StackOK(s) /\ Len(s) = Len(stack) /\ s[1].fn # "gopanic"
      /\ 2 \in 1..Len(stack) => s[2] = stack[2]
  <2> HIDE DEF f
  <2> QED BY <1>1, <1>2, Changed
<1>4. CASE ~Dispatcher(2, FALSE)
  <2>1. stack' = s
    BY <1>4 DEF Recover
  <2> QED BY <1>3, <2>1
<1>5. CASE Dispatcher(2, FALSE)
  <2> DEFINE g == [stack[2] EXCEPT !.recovered = TRUE]
             t == [s EXCEPT ![2] = g]
             h == IF Top.fn = "Recover" THEN Frame("callback", <<>>) ELSE Returning("setErr", <<>>)
             hs == <<h>>
  <2>1. 2 \in 1..Len(stack) /\ stack[2].fn = "gopanic"
    BY <1>5, StackFacts DEF Dispatcher
  <2>2. stack' = <<h>> \o t
    <3>1. [stack EXCEPT ![1].returning = TRUE, ![2].recovered = TRUE] = t
      BY <1>3, <2>1
    <3> QED BY <1>5, <3>1 DEF Recover
  <2>3. h \in FrameRecord /\ h.fn # "gopanic"
    <3>1. "callback" \in Fn /\ "setErr" \in Fn /\ <<>> \in Seq(Deferred)
      BY EmptySeq DEF Fn
    <3>2. /\ Frame("callback", <<>>) \in FrameRecord /\ Frame("callback", <<>>).fn = "callback"
          /\ Returning("setErr", <<>>) \in FrameRecord /\ Returning("setErr", <<>>).fn = "setErr"
      BY <3>1, NewFrame
    <3> QED BY <3>2
  <2>4. StackOK(t) /\ Len(t) = Len(stack) /\ t[1] = s[1]
    <3>1. 2 \in 1..Len(s) /\ s[2] = stack[2]
      BY <1>3, <2>1
    <3>2. /\ g \in FrameRecord /\ g.fn = stack[2].fn /\ g.site = stack[2].site
          /\ g.defers = stack[2].defers /\ g.height = stack[2].height
      BY <2>1, RecoveredFrame
    <3> HIDE DEF s, g
    <3> QED BY <1>3, <2>1, <3>1, <3>2, RecoveredStack
  <2> HIDE DEF s, t, h
  <2>5. hs \in Seq(FrameRecord) /\ \A i \in 1..Len(hs) : hs[i].fn # "gopanic"
    BY <2>3
  <2> HIDE DEF hs
  <2>6. StackOK(hs \o t)
    BY <1>3, <2>4, <2>5, Pushed
  <2> QED BY <2>2, <2>6 DEF hs
<1> QED BY <1>4, <1>5

-----------------------------------------------------------------------------
(* Traces. *)

Least(m, n) == IF m < n THEN m ELSE n

(* What captureStack returns, once it has left out its own frames and those of
   errforge that it was asked to: those that it was not, then the stack. *)
LEMMA Captured ==
    ASSUME StackOK(stack), NEW callers \in Seq(Fn), NEW skip \in 0..Len(callers),
           NEW k, k = Len(callers) - skip
    PROVE  LET trace == captureStack(Capturing(callers), skip) IN
           /\ trace \in Seq(Fn) /\ Len(trace) = Least(maxStackDepth, k + Len(stack))
           /\ \A i \in 1..Len(trace) :
                 trace[i] = IF i <= k THEN callers[skip + i] ELSE stack[i - k].fn
<1> DEFINE own == <<"Callers", "captureStack">>
           above == own \o callers
           names == Names(stack)
           fs == above \o names
           last == skip + 2 + maxStackDepth
           n == IF last < Len(fs) THEN last ELSE Len(fs)
           trace == SubSeq(fs, skip + 2 + 1, n)
<1>1. own \in Seq(Fn) /\ Len(own) = 2
  BY DEF Fn
<1>2. /\ names \in Seq(Fn) /\ Len(names) = Len(stack) /\ Len(stack) \in Nat
      /\ \A i \in 1..Len(stack) : names[i] = stack[i].fn
  BY NamesSeq, StackFacts DEF Names
<1>3. Len(callers) \in Nat /\ skip \in Nat /\ k \in Nat /\ maxStackDepth \in Nat
  BY LenProperties, BoundsAssumption
<1> HIDE DEF own, names
<1>4. /\ above \in Seq(Fn) /\ Len(above) = 2 + Len(callers)
      /\ \A i \in 1..Len(above) : ~(i <= 2) => above[i] = callers[i - 2]
  <2>1. /\ above \in Seq(Fn) /\ Len(above) = Len(own) + Len(callers)
        /\ \A i \in 1..(Len(own) + Len(callers)) :
              above[i] = IF i <= Len(own) THEN own[i] ELSE callers[i - Len(own)]
    BY <1>1, ConcatProperties
  <2> HIDE DEF above
  <2> QED BY <1>1, <2>1
<1> HIDE DEF above
<1>5. /\ fs \in Seq(Fn) /\ Len(fs) = Len(above) + Len(stack)
      /\ \A i \in 1..Len(fs) : fs[i] = IF i <= Len(above) THEN above[i] ELSE names[i - Len(above)]
  <2>1. /\ fs \in Seq(Fn) /\ Len(fs) = Len(above) + Len(names)
        /\ \A i \in 1..(Len(above) + Len(names)) :
              fs[i] = IF i <= Len(above) THEN above[i] ELSE names[i - Len(above)]
    <3>1. above \in Seq(Fn) /\ names \in Seq(Fn)
      BY <1>2, <1>4
    <3> QED BY <3>1, ConcatProperties
  <2> HIDE DEF fs
  <2> QED BY <1>2, <2>1
<1> HIDE DEF fs
<1>6. captureStack(Capturing(callers), skip) = trace
  BY DEF captureStack, Callers, Capturing, fs, above, own, names
<1>7. n \in Nat /\ n <= Len(fs) /\ n = skip + 2 + Least(maxStackDepth, k + Len(stack))
  <2>1. Len(fs) = 2 + Len(callers) + Len(stack) /\ Len(stack) \in Nat
    BY <1>2, <1>4, <1>5
  <2> DEFINE f == Len(fs) h == Len(stack) c == Len(callers)
  <2>2. f = 2 + c + h /\ h \in Nat /\ c \in Nat /\ k = c - skip /\ skip \in 0..c
    BY <1>3, <2>1
  <2>3. n = IF skip + 2 + maxStackDepth < f THEN skip + 2 + maxStackDepth ELSE f
    OBVIOUS
  <2> HIDE DEF f, h, c, n
  <2>4. k + h = f - (skip + 2) /\ f \in Nat
    BY <1>3, <2>2
  <2>5. Least(maxStackDepth, k + h) = IF maxStackDepth < k + h THEN maxStackDepth ELSE k + h
    BY DEF Least
  <2>6. n \in Nat /\ n <= f /\ n = skip + 2 + Least(maxStackDepth, k + h)
    <3> DEFINE d == maxStackDepth  r == k + h
    <3>1. d \in Nat /\ r = f - (skip + 2) /\ skip \in Nat
      BY <1>3, <2>4
    <3>2. n = IF skip + 2 + d < f THEN skip + 2 + d ELSE f
      BY <2>3
    <3>3. Least(d, r) = IF d < r THEN d ELSE r
      BY <2>5
    <3> HIDE DEF d, r
    <3>4. n \in Nat /\ n <= f /\ n = skip + 2 + Least(d, r)
      BY <2>4, <3>1, <3>2, <3>3
    <3> QED BY <3>4 DEF d, r
  <2> QED BY <2>6 DEF f, h
<1> HIDE DEF n
<1> DEFINE len == Least(maxStackDepth, k + Len(stack))
<1>8. len \in Nat /\ len <= k + Len(stack)
  BY <1>2, <1>3 DEF Least
<1> HIDE DEF len
<1>9. /\ trace \in Seq(Fn) /\ Len(trace) = len
      /\ \A i \in 1..len : trace[i] = fs[skip + 2 + i]
  <2>1. skip + 2 + 1 \in Int /\ n \in Int /\ n = skip + 2 + len
    BY <1>3, <1>7 DEF len
  <2>2. \A i \in (skip + 2 + 1)..n : fs[i] \in Fn
    BY <1>3, <1>5, <1>7, ElementOfSeq
  <2>3. /\ trace \in Seq(Fn)
        /\ Len(trace) = IF skip + 2 + 1 <= n THEN n - (skip + 2 + 1) + 1 ELSE 0
        /\ \A i \in 1..(n - (skip + 2 + 1) + 1) : trace[i] = fs[skip + 2 + 1 + i - 1]
    BY <2>1, <2>2, SubSeqProperties
  <2> HIDE DEF trace
  <2>4. Len(trace) = len /\ n - (skip + 2 + 1) + 1 = len
    BY <1>3, <1>8, <2>1, <2>3
  <2>5. \A i \in 1..len : skip + 2 + 1 + i - 1 = skip + 2 + i
    BY <1>3, <1>8
  <2> QED BY <2>3, <2>4, <2>5
<1>10. ASSUME NEW i \in 1..len
       PROVE  fs[skip + 2 + i] = IF i <= k THEN callers[skip + i] ELSE stack[i - k].fn
  <2> DEFINE j == skip + 2 + i
  <2>1. j \in 1..Len(fs) /\ ~(j <= 2) /\ (j <= Len(above) <=> i <= k)
    BY <1>2, <1>3, <1>4, <1>5, <1>8
  <2>2. CASE i <= k
    <3>1. j \in 1..Len(above) /\ j - 2 = skip + i
      BY <1>3, <1>4, <2>1, <2>2
    <3> HIDE DEF j
    <3> QED BY <1>4, <1>5, <2>1, <2>2, <3>1 DEF j
  <2>3. CASE ~(i <= k)
    <3>1. j - Len(above) = i - k /\ i - k \in 1..Len(stack)
      BY <1>2, <1>3, <1>4, <1>8, <2>3
    <3> HIDE DEF j
    <3> QED BY <1>2, <1>5, <2>1, <2>3, <3>1 DEF j
  <2> QED BY <2>2, <2>3
<1> HIDE DEF trace
<1> QED BY <1>6, <1>9, <1>10 DEF len

(* Where a dispatcher stands under handler, the trace is what it stands on. *)
LEMMA PanicTraced ==
    ASSUME StackOK(stack), NEW handler \in {1, 2}, NEW d, d = handler + 1,
           d \in 1..Len(stack), stack[d].fn = "gopanic",
           \A i \in 1..handler : stack[i].fn # "gopanic",
           NEW trace, trace = capturePanicStack(<<"FromRecover">>),
           NEW site, site = stack[d].site
    PROVE  /\ trace # <<>> /\ IsPrefix(trace, site)
           /\ trace # site => Len(trace) >= maxStackDepth - 4
<1> DEFINE own == <<"capturePanicStack">> \o <<"FromRecover">>
           full == captureStack(Capturing(own), 1)
           I == {i \in 1..Len(full) : full[i] = "gopanic"}
<1>1. own \in Seq(Fn) /\ Len(own) = 2 /\ own[2] = "FromRecover"
  <2> DEFINE a == <<"capturePanicStack">>
             b == <<"FromRecover">>
  <2>1. a \in Seq(Fn) /\ Len(a) = 1 /\ b \in Seq(Fn) /\ Len(b) = 1 /\ b[1] = "FromRecover"
    BY DEF Fn
  <2> HIDE DEF a, b
  <2>2. /\ a \o b \in Seq(Fn) /\ Len(a \o b) = Len(a) + Len(b)
        /\ \A i \in 1..(Len(a) + Len(b)) : (a \o b)[i] = IF i <= Len(a) THEN a[i] ELSE b[i - Len(a)]
    BY <2>1, ConcatProperties
  <2>3. (a \o b)[2] = b[2 - 1]
    BY <2>1, <2>2
  <2> QED BY <2>1, <2>2, <2>3 DEF a, b
<1>2. Len(stack) \in Nat /\ handler \in Nat /\ FrameOK(stack, d) /\ maxStackDepth \in Nat
  BY StackFacts, BoundsAssumption
<1>3. /\ full \in Seq(Fn) /\ Len(full) = Least(maxStackDepth, 1 + Len(stack))
      /\ \A i \in 1..Len(full) : full[i] = IF i <= 1 THEN own[1 + i] ELSE stack[i - 1].fn
  <2>1. own \in Seq(Fn) /\ 1 \in 0..Len(own) /\ 1 = Len(own) - 1
    BY <1>1
  <2> HIDE DEF own
  <2> QED BY <2>1, Captured
<1>4. own[1 + 1] = "FromRecover"
  <2> HIDE DEF own
  <2> QED BY <1>1
<1>5. trace = SubSeq(full, SelectInSeq(full, IsDispatcher) + 1, Len(full))
  BY DEF capturePanicStack
<1>6. SelectInSeq(full, IsDispatcher) = IF I # {} THEN Min(I) ELSE 0
  BY DEF SelectInSeq, IsDispatcher
<1> HIDE DEF own, full
<1>7. /\ site \in Seq(Fn) /\ Len(site) = Len(stack) - d /\ Len(site) > 0
      /\ \A i \in 1..Len(site) : site[i] = stack[d + i].fn
  <2>1. d < Len(stack) /\ site = Under(stack, d)
    BY <1>2 DEF FrameOK
  <2>2. stack[d] \in FrameRecord
    BY StackFacts
  <2>3. site \in Seq(Fn)
    BY <2>2 DEF FrameRecord
  <2>4. Len(stack) - d \in Nat /\ DOMAIN site = 1..(Len(stack) - d)
    BY <1>2, <2>1 DEF Under
  <2>5. Len(site) = Len(stack) - d
    BY <2>3, <2>4, LenProperties
  <2> QED BY <1>2, <2>1, <2>3, <2>5 DEF Under
<1> DEFINE n == d + 1
<1>8. n \in 1..Len(full) /\ n < Len(full) /\ n <= 4
  BY <1>2, <1>3, <1>7, DepthAssumption DEF Least
<1>9. SelectInSeq(full, IsDispatcher) = n
  <2>1. n \in I
    <3>1. ~(n <= 1) /\ n - 1 = d
      BY <1>2
    <3>2. full[n] = stack[d].fn
      BY <1>3, <1>8, <3>1
    <3> QED BY <1>8, <3>2
  <2>2. ASSUME NEW i \in I PROVE n <= i
    <3> SUFFICES ASSUME i < n PROVE FALSE
      BY <1>2, <1>8
    <3>1. CASE i = 1
      BY <1>3, <1>4, <3>1
    <3>2. CASE i # 1
      <4>1. ~(i <= 1) /\ i - 1 \in 1..handler /\ i \in 1..Len(full)
        BY <1>2, <3>2
      <4>2. full[i] = stack[i - 1].fn
        BY <1>3, <4>1
      <4> QED BY <4>1, <4>2
    <3> QED BY <3>1, <3>2
  <2>3. I \subseteq Nat /\ n \in Nat
    BY <1>2
  <2> HIDE DEF I, n
  <2>4. Min(I) \in I /\ Min(I) <= n
    BY <2>1, <2>3, MinOfNat
  <2>5. n <= Min(I)
    BY <2>2, <2>4
  <2>6. Min(I) = n
    <3>1. ASSUME NEW m \in I, m <= n, n <= m PROVE m = n
      BY <2>3, <3>1
    <3> QED BY <2>4, <2>5, <3>1
  <2> QED BY <1>6, <2>1, <2>6
<1> HIDE DEF I
<1>10. /\ trace \in Seq(Fn) /\ Len(trace) = Len(full) - n
       /\ \A i \in 1..Len(trace) : trace[i] = full[n + i]
  <2> HIDE DEF n
  <2>1. n \in Nat /\ Len(full) \in Nat
    BY <1>3, <1>8, LenProperties
  <2>2. \A i \in (n + 1)..Len(full) : full[i] \in Fn
    BY <1>3, <2>1, ElementOfSeq
  <2>3. /\ trace \in Seq(Fn)
        /\ Len(trace) = IF n + 1 <= Len(full) THEN Len(full) - (n + 1) + 1 ELSE 0
        /\ \A i \in 1..(Len(full) - (n + 1) + 1) : trace[i] = full[n + 1 + i - 1]
    <3>1. trace = SubSeq(full, n + 1, Len(full))
      BY <1>5, <1>9
    <3>2. n + 1 \in Int /\ Len(full) \in Int
      BY <2>1
    <3> DEFINE m == n + 1
               l == Len(full)
    <3> HIDE DEF m, l
    <3>3. /\ SubSeq(full, m, l) \in Seq(Fn)
          /\ Len(SubSeq(full, m, l)) = IF m <= l THEN l - m + 1 ELSE 0
          /\ \A i \in 1..(l - m + 1) : SubSeq(full, m, l)[i] = full[m + i - 1]
      <4>1. m \in Int /\ l \in Int /\ \A i \in m..l : full[i] \in Fn
        BY <2>2, <3>2 DEF m, l
      <4> QED BY <4>1, SubSeqProperties
    <3> QED BY <3>1, <3>3 DEF m, l
  <2>4. Len(trace) = Len(full) - n /\ Len(full) - (n + 1) + 1 = Len(full) - n
    BY <1>8, <2>1, <2>3
  <2>5. \A i \in 1..Len(trace) : n + 1 + i - 1 = n + i
    BY <2>1, <2>4
  <2> QED BY <2>3, <2>4, <2>5
<1>11. Len(trace) \in Nat /\ Len(trace) > 0 /\ Len(trace) <= Len(site)
       /\ (Len(trace) < Len(site) => Len(trace) >= maxStackDepth - 4)
  <2>1. /\ d \in Nat /\ Len(stack) \in Nat /\ maxStackDepth \in Nat /\ n = d + 1 /\ d <= 3
        /\ Len(full) = Least(maxStackDepth, 1 + Len(stack))
        /\ Len(trace) = Len(full) - n /\ n < Len(full)
        /\ Len(site) = Len(stack) - d
    BY <1>2, <1>3, <1>7, <1>8, <1>10
  <2> DEFINE m == Len(full)
             l == Len(trace)
             o == Len(site)
  <2> HIDE DEF n, m, l, o
  <2>2. CASE maxStackDepth < 1 + Len(stack)
    <3>1. m = maxStackDepth /\ l = m - n /\ n < m /\ o = Len(stack) - d
      BY <2>1, <2>2 DEF Least, m, l, o
    <3>2. l \in Nat /\ l > 0 /\ l <= o /\ l >= maxStackDepth - 4
      BY <2>1, <2>2, <3>1
    <3> QED BY <3>2 DEF l, o
  <2>3. CASE ~(maxStackDepth < 1 + Len(stack))
    <3>1. m = 1 + Len(stack) /\ l = m - n /\ n < m /\ o = Len(stack) - d
      BY <2>1, <2>3 DEF Least, m, l, o
    <3>2. l \in Nat /\ l > 0 /\ l = o
      BY <2>1, <3>1
    <3> QED BY <3>2 DEF l, o
  <2> QED BY <2>2, <2>3
<1>12. ASSUME NEW i \in 1..Len(trace) PROVE trace[i] = site[i]
  <2>1. n + i \in 1..Len(full) /\ ~(n + i <= 1) /\ n + i - 1 = d + i /\ i \in 1..Len(site)
    <3>1. /\ n = d + 1 /\ d \in Nat /\ d > 0 /\ Len(full) \in Nat /\ Len(site) \in Nat
          /\ Len(trace) \in Nat /\ Len(trace) = Len(full) - n /\ Len(trace) <= Len(site)
      BY <1>2, <1>3, <1>7, <1>10, <1>11, LenProperties
    <3> HIDE DEF n
    <3> QED BY <3>1
  <2> DEFINE k == n + i
  <2>2. k \in 1..Len(full) /\ ~(k <= 1) /\ k - 1 = d + i /\ trace[i] = full[k]
    BY <1>10, <2>1
  <2> HIDE DEF k
  <2>3. full[k] = stack[k - 1].fn
    BY <1>3, <2>2
  <2> QED BY <1>7, <2>1, <2>2, <2>3
<1>13. trace # <<>>
  BY <1>11
<1>14. IsPrefix(trace, site)
  <2> DEFINE len == Len(trace)
  <2>1. SubSeq(trace, 1, len) = trace
    BY <1>10, SubSeqFull
  <2>2. /\ len \in Int /\ 1 \in Int /\ \A i \in 1..len : site[i] \in Fn
    BY <1>7, <1>11, ElementOfSeq
  <2> DEFINE t == SubSeq(site, 1, len)
  <2>3. /\ t \in Seq(Fn) /\ Len(t) = IF 1 <= len THEN len - 1 + 1 ELSE 0
        /\ \A i \in 1..(len - 1 + 1) : t[i] = site[1 + i - 1]
    <3> HIDE DEF len
    <3> QED BY <2>2, SubSeqProperties
  <2>4. Len(t) = len /\ \A i \in 1..len : t[i] = trace[i]
    <3> HIDE DEF t
    <3> QED BY <1>11, <1>12, <2>3
  <2>5. t = trace
    <3> HIDE DEF t
    <3> QED BY <1>10, <2>3, <2>4, SeqEqual
  <2> QED BY <1>11, <2>1, <2>5 DEF IsPrefix
<1>15. Len(trace) = Len(site) => trace = site
  BY <1>7, <1>10, <1>12, SeqEqual
<1> QED
  <2>1. Len(site) \in Nat
    BY <1>7, LenProperties
  <2> QED BY <1>11, <1>13, <1>14, <1>15, <2>1

LEMMA FirstOnly ==
    ASSUME NEW s \in Seq(Fn), 1 \in 1..Len(s)
    PROVE  SubSeq(s, 1, 1) = <<s[1]>>
<1>1. /\ SubSeq(s, 1, 1) \in Seq(Fn) /\ Len(SubSeq(s, 1, 1)) = 1
      /\ SubSeq(s, 1, 1)[1] = s[1]
  <2>1. \A i \in 1..1 : s[i] \in Fn
    BY ElementOfSeq
  <2>2. /\ SubSeq(s, 1, 1) \in Seq(Fn)
        /\ Len(SubSeq(s, 1, 1)) = IF 1 <= 1 THEN 1 - 1 + 1 ELSE 0
        /\ \A i \in 1..(1 - 1 + 1) : SubSeq(s, 1, 1)[i] = s[1 + i - 1]
    BY <2>1, SubSeqProperties
  <2> QED BY <2>2
<1>2. <<s[1]>> \in Seq(Fn) /\ Len(<<s[1]>>) = 1 /\ <<s[1]>>[1] = s[1]
  BY ElementOfSeq
<1>3. \A i \in 1..1 : SubSeq(s, 1, 1)[i] = <<s[1]>>[i]
  BY <1>1, <1>2
<1> QED BY <1>1, <1>2, <1>3, SeqEqual

LEMMA PanicTaken ==
    ASSUME StackOK(stack), NEW handler \in {1, 2}, NEW d, d = handler + 1,
           d \in 1..Len(stack), stack[d].fn = "gopanic",
           \A i \in 1..handler : stack[i].fn # "gopanic",
           Taken("panic", capturePanicStack(<<"FromRecover">>), stack[d].site)
    PROVE  TraceOfPanic' /\ TakenAtCaller'
<1> DEFINE trace == capturePanicStack(<<"FromRecover">>)
           site == stack[d].site
<1>1. /\ trace # <<>> /\ IsPrefix(trace, site)
      /\ trace # site => Len(trace) >= maxStackDepth - 4
  BY PanicTraced
<1>2. taken' = [by |-> "panic", trace |-> trace, site |-> site]
  BY DEF Taken
<1> HIDE DEF trace, site
<1>3. taken'.by = "panic" /\ taken'.trace = trace /\ taken'.site = site
  BY <1>2
<1> QED BY <1>1, <1>3 DEF TraceOfPanic, TakenAtCaller

LEMMA AnnotateTaken ==
    ASSUME StackOK(stack), Annotate
    PROVE  TraceOfPanic' /\ TakenAtCaller'
<1> DEFINE names == Names(stack)
<1>1. /\ 1 \in 1..Len(stack) /\ Len(stack) \in Nat /\ maxStackDepth \in Nat /\ maxStackDepth > 4
      /\ names \in Seq(Fn) /\ Len(names) = Len(stack)
      /\ \A i \in 1..Len(stack) : names[i] = stack[i].fn
  BY Nonempty, StackFacts, NamesSeq, BoundsAssumption, DepthAssumption
  DEF Annotate, Acts, Names
<1>2. CASE WithStack
  <2> DEFINE own == <<"WithStack">>
             trace == captureStack(Capturing(own), 1)
             len == Least(maxStackDepth, Len(stack))
             kept == SubSeq(names, 1, len)
  <2>1. own \in Seq(Fn) /\ Len(own) = 1
    BY DEF Fn
  <2>2. /\ trace \in Seq(Fn) /\ Len(trace) = Least(maxStackDepth, 0 + Len(stack))
        /\ \A i \in 1..Len(trace) : trace[i] = IF i <= 0 THEN own[1 + i] ELSE stack[i - 0].fn
    <3>1. 1 \in 0..Len(own) /\ 0 = Len(own) - 1
      BY <2>1
    <3> HIDE DEF own
    <3> QED BY <2>1, <3>1, Captured
  <2>3. taken' = [by |-> "WithStack", trace |-> trace, site |-> names]
    BY <1>2 DEF WithStack, Taken
  <2> HIDE DEF own, trace, names
  <2>4. len \in Nat /\ len <= Len(stack) /\ len = IF Len(names) < maxStackDepth THEN Len(names)
                                                   ELSE maxStackDepth
    BY <1>1 DEF Least
  <2> HIDE DEF len
  <2>5. Len(trace) = len /\ \A i \in 1..len : trace[i] = names[i]
    <3>1. 0 + Len(stack) = Len(stack)
      BY <1>1
    <3>2. Len(trace) = len
      BY <2>2, <3>1 DEF len
    <3>3. \A i \in 1..len : ~(i <= 0) /\ i - 0 = i /\ i \in 1..Len(stack)
      BY <1>1, <2>4
    <3> QED BY <1>1, <2>2, <3>2, <3>3
  <2>6. kept \in Seq(Fn) /\ Len(kept) = len /\ \A i \in 1..len : kept[i] = names[i]
    <3>1. 1 \in Int /\ len \in Int /\ \A i \in 1..len : names[i] \in Fn
      BY <1>1, <2>4, ElementOfSeq
    <3>2. /\ kept \in Seq(Fn) /\ Len(kept) = IF 1 <= len THEN len - 1 + 1 ELSE 0
          /\ \A i \in 1..(len - 1 + 1) : kept[i] = names[1 + i - 1]
      BY <3>1, SubSeqProperties
    <3> HIDE DEF kept
    <3> QED BY <2>4, <3>2
  <2>7. trace = kept
    <3> HIDE DEF kept
    <3> QED BY <2>2, <2>5, <2>6, SeqEqual
  <2>8. taken'.by = "WithStack" /\ taken'.trace = trace /\ taken'.site = names
    BY <2>3
  <2> QED BY <2>4, <2>7, <2>8 DEF TraceOfPanic, TakenAtCaller
<1>3. ASSUME NEW trace, trace = <<names[1]>>, Taken("location", trace, names)
      PROVE  TraceOfPanic' /\ TakenAtCaller'
  <2> HIDE DEF names
  <2>1. taken'.by = "location" /\ taken'.trace = <<names[1]>> /\ taken'.site = names
    BY <1>3 DEF Taken
  <2> QED BY <2>1 DEF TraceOfPanic, TakenAtCaller
<1>4. CASE newDetailed
  <2> DEFINE own == <<"newDetailed", "Detailed">>
             full == captureStack(Capturing(own), 2)
  <2>1. own \in Seq(Fn) /\ Len(own) = 2
    BY DEF Fn
  <2>2. /\ full \in Seq(Fn) /\ Len(full) = Least(maxStackDepth, 0 + Len(stack))
        /\ \A i \in 1..Len(full) : full[i] = IF i <= 0 THEN own[2 + i] ELSE stack[i - 0].fn
    <3>1. 2 \in 0..Len(own) /\ 0 = Len(own) - 2
      BY <2>1
    <3> HIDE DEF own
    <3> QED BY <2>1, <3>1, Captured
  <2>3. Taken("location", SubSeq(full, 1, 1), names)
    BY <1>4 DEF newDetailed
  <2> HIDE DEF own, full, names
  <2>4. 1 \in 1..Len(full) /\ ~(1 <= 0) /\ 1 - 0 = 1
    BY <1>1, <2>2 DEF Least
  <2>5. full[1] = names[1]
    BY <1>1, <2>2, <2>4
  <2>6. SubSeq(full, 1, 1) = <<names[1]>>
    BY <2>2, <2>4, <2>5, FirstOnly
  <2> QED BY <1>3, <2>3, <2>6 DEF names
<1>5. CASE CreateStackFrame
  <2> DEFINE own == <<"Caller", "CreateStackFrame">>
             trace == <<(own \o names)[3]>>
  <2>1. own \in Seq(Fn) /\ Len(own) = 2
    BY DEF Fn
  <2>2. Taken("location", trace, names)
    BY <1>5 DEF CreateStackFrame
  <2> HIDE DEF own, names
  <2>3. (own \o names)[3] = names[1]
    <3>1. \A i \in 1..(Len(own) + Len(names)) :
             (own \o names)[i] = IF i <= Len(own) THEN own[i] ELSE names[i - Len(own)]
      <4>1. own \in Seq(Fn) /\ names \in Seq(Fn)
        BY <1>1, <2>1
      <4> QED BY <4>1, ConcatProperties
    <3>2. 3 \in 1..(Len(own) + Len(names)) /\ ~(3 <= Len(own)) /\ 3 - Len(own) = 1
      BY <1>1, <2>1
    <3> QED BY <3>1, <3>2
  <2> QED BY <1>3, <2>2, <2>3 DEF names
<1> QED BY <1>2, <1>4, <1>5 DEF Annotate

LEMMA RecoverTaken ==
    ASSUME StackOK(stack), TraceOfPanic, TakenAtCaller,
           Recover \/ \E handler \in {1, 2} : FromRecover(handler)
    PROVE  TraceOfPanic' /\ TakenAtCaller'
<1>1. \A i : i <= Len(stack) /\ i \in Nat \ {0} => i \in 1..Len(stack)
  BY StackFacts
<1>2. CASE taken' = taken
  BY <1>2 DEF TraceOfPanic, TakenAtCaller
<1>3. CASE Recover /\ Dispatcher(2, FALSE)
  <2>1. /\ 2 \in 1..Len(stack) /\ stack[2].fn = "gopanic" /\ stack[1].fn # "gopanic"
        /\ Taken("panic", capturePanicStack(<<"FromRecover">>), stack[2].site)
    BY <1>1, <1>3 DEF Dispatcher, Recover, Top
  <2>2. \A i \in 1..1 : stack[i].fn # "gopanic"
    BY <2>1
  <2>3. 1 + 1 = 2
    OBVIOUS
  <2> QED BY <2>1, <2>2, <2>3, PanicTaken
<1>4. ASSUME NEW handler \in {1, 2}, FromRecover(handler)
      PROVE  TraceOfPanic' /\ TakenAtCaller'
  <2> DEFINE d == handler + 1
  <2>1. /\ d \in 1..Len(stack) /\ stack[d].fn = "gopanic"
        /\ Taken("panic", capturePanicStack(<<"FromRecover">>), stack[d].site)
    BY <1>1, <1>4 DEF Dispatcher, FromRecover
  <2>2. \A i \in 1..handler : stack[i].fn # "gopanic"
    <3>1. stack[1].fn # "gopanic"
      BY <1>4, Acting DEF FromRecover, Acts
    <3>2. stack[handler].fn = "handler"
      BY <1>4 DEF FromRecover
    <3>3. \A i \in 1..handler : i = 1 \/ i = handler
      OBVIOUS
    <3> QED BY <3>1, <3>2, <3>3
  <2> HIDE DEF d
  <2> QED BY <2>1, <2>2, PanicTaken DEF d
<1> QED BY <1>2, <1>3, <1>4 DEF Recover

LEMMA TraceInductive == Spec => []TraceIInv
<1>1. Init => TraceIInv
  <2> SUFFICES ASSUME Init PROVE TraceIInv
    OBVIOUS
  <2>1. PICK fn \in Funcs : stack = <<Frame(fn, <<>>)>>
    BY DEF Init
  <2> DEFINE f == Frame(fn, <<>>)
  <2>2. f \in FrameRecord /\ f.fn # "gopanic"
    <3>1. fn \in Fn /\ fn # "gopanic" /\ <<>> \in Seq(Deferred)
      BY FuncsAssumption, EmptySeq DEF Fn, Deferred
    <3> QED BY <3>1, NewFrame
  <2> HIDE DEF f
  <2>3. stack \in Seq(FrameRecord) /\ \A i \in 1..Len(stack) : stack[i].fn # "gopanic"
    BY <2>1, <2>2 DEF f
  <2>4. taken.by = "nothing"
    BY DEF Init
  <2> QED BY <2>3, <2>4 DEF TraceIInv, StackOK, FrameOK, TraceOfPanic, TakenAtCaller
<1>2. TraceIInv /\ [Next]_vars => TraceIInv'
  <2> SUFFICES ASSUME TraceIInv, [Next]_vars PROVE TraceIInv'
    OBVIOUS
  <2>1. StackOK(stack) /\ TraceOfPanic /\ TakenAtCaller
    BY DEF TraceIInv
  <2>2. StackOK(stack')
    <3>1. CASE stack' = stack
      BY <2>1, <3>1
    <3> QED
      BY <2>1, <3>1, CallStep, DeferStep, RaiseStep, ReturnStep, DispatchStep, UnwindStep,
         RecoverStep, CallRecoverStep
      DEF Next, Program, vars, Annotate, FromRecover
  <2>3. TraceOfPanic' /\ TakenAtCaller'
    <3>1. CASE taken' = taken
      BY <2>1, <3>1 DEF TraceOfPanic, TakenAtCaller
    <3>2. CASE Annotate \/ Recover \/ \E handler \in {1, 2} : FromRecover(handler)
      BY <2>1, <3>2, AnnotateTaken, RecoverTaken
    <3> QED
      BY <3>1, <3>2
      DEF Next, Program, vars, CallFunc, FromPanic, Defer, Raise, Return, Dispatch, Unwind,
          CallRecover
  <2> QED BY <2>2, <2>3 DEF TraceIInv
<1> QED BY <1>1, <1>2, PTL DEF Spec

(* The trace of a panic is the stack that it was raised on, down to the depth of a
   trace: Recover and FromRecover see past every frame above its dispatcher, and
   take the dispatcher of no other panic for it. *)
THEOREM PanicsTraced == Spec => []TraceOfPanic
BY TraceInductive, PTL DEF TraceIInv

(* A trace of WithStack and the location of an error start at the caller. *)
THEOREM CallersTraced == Spec => []TakenAtCaller
BY TraceInductive, PTL DEF TraceIInv
=============================================================================
