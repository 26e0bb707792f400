-------------------------- MODULE LinterFiles_proof --------------------------
(***************************************************************************)
(* Why a fixed file compiles, whatever uses a file has, whatever fixes       *)
(* conflict, in whatever order they are applied, and however often the       *)
(* linter runs.                                                              *)
(***************************************************************************)
EXTENDS LinterFiles, SequenceTheorems, TLAPS

Paths == {"errors", "fmt", "errforge"}
Use == [what : Whats \cup {"Errforge", "none"}, in : Nat]

(* The uses that a file had of a package when the rules looked at it, and those
   that were given a fix. *)
OfBefore(path) == {i \in 1..Len(run.before) : run.before[i].what \in Members[path]}
FixableBefore == {i \in 1..Len(run.before) : run.before[i].what \in Fixable}

(* What use i has become. *)
Fixed(i) ==
    IF i \notin run.applied THEN run.before[i].what
    ELSE IF NeedsErrforge(run.before[i].what) THEN "Errforge" ELSE "none"

Run == [phase : {"idle", "fixing"}, before : Seq(Use), left : SUBSET Nat,
        applied : SUBSET Nat, skipped : SUBSET Nat, adds : BOOLEAN,
        drops : [Rules -> BOOLEAN]]

FileOK ==
    /\ uses \in Seq(Use)
    /\ imports \in [Paths -> {"none", "named", "dot", "blank"}]
    /\ run \in Run
    /\ run.phase = "idle" => run.left = {}

(* While fixes are applied: each is of a use that was given one, and only the uses
   whose fix was applied have changed. *)
UsesFixed ==
    /\ run.before \in Seq(Use) /\ Len(uses) = Len(run.before)
    /\ run.applied \subseteq FixableBefore
    /\ run.left \cup run.applied \cup run.skipped = FixableBefore
    /\ \A i \in 1..Len(uses) : uses[i].what = Fixed(i)

(* The import of a package that a rule fixes. One that each fix of the rule deletes
   is there until the first of them is applied, and only uses that are fixed or are
   Errorf itself depend on it; a dot import that no fix deletes has a use that none
   touches. *)
ImportFixed(path) ==
    /\ run.drops[path] =>
          /\ OfBefore(path) # {}
          /\ \A i \in OfBefore(path) : i \in FixableBefore \/ run.before[i].what = "Value"
          /\ imports[path] = IF OfBefore(path) \cap run.applied = {} THEN "dot" ELSE "none"
    /\ ~run.drops[path] =>
          /\ Imported(path) <=> OfBefore(path) # {}
          /\ imports[path] = "dot" => ~(OfBefore(path) \subseteq FixableBefore)

(* The import of errforge: added with the first fix that needs it, or there from
   the start, for uses that no fix touches. *)
ErrforgeImported ==
    /\ run.adds => /\ OfBefore("errforge") = {}
                   /\ Imported("errforge") <=>
                         \E i \in run.applied : NeedsErrforge(run.before[i].what)
    /\ ~run.adds => Imported("errforge") /\ OfBefore("errforge") # {}

Fixing == UsesFixed /\ (\A path \in Rules : ImportFixed(path)) /\ ErrforgeImported

FixIInv ==
    /\ FileOK
    /\ run.phase = "fixing" => Fixing
    /\ FixedFileCompiles

-----------------------------------------------------------------------------
(* The packages, and which of their members are what. *)
LEMMA PathFacts ==
    /\ DOMAIN Members = Paths /\ Rules = {"errors", "fmt"} /\ Rules \subseteq Paths
    /\ Members["errforge"] = {"Errforge"}
    /\ Members["errors"] = {"New", "ErrUnsupported"}
    /\ Members["fmt"] = {"Renamed", "Linked", "Built", "ByHand", "Value", "Println"}
    /\ Accepted["errors"] = {"New"}
    /\ Accepted["fmt"] = {"Renamed", "Linked", "Built", "ByHand", "Value"}
BY DEF Members, Paths, Rules, Accepted

(* What a fix makes of a use is of no package that a rule fixes, and errforge's own
   uses are given no fix. *)
LEMMA FixMakes ==
    /\ \A path \in Rules : "Errforge" \notin Members[path] /\ "none" \notin Members[path]
    /\ "Errforge" \in Members["errforge"] /\ "none" \notin Members["errforge"]
    /\ \A what \in Fixable : /\ what \notin Members["errforge"]
                             /\ RuleOf(what) \in Rules /\ what \in Members[RuleOf(what)]
                             /\ \A path \in Rules : what \in Members[path] => path = RuleOf(what)
<1>1. /\ Members.errors = Members["errors"]
      /\ Members.errforge = Members["errforge"]
  OBVIOUS
<1> QED BY <1>1, PathFacts DEF Fixable, RuleOf

LEMMA InitOK == Init => FixIInv
<1> SUFFICES ASSUME Init PROVE FixIInv
  OBVIOUS
<1>1. uses \in Seq(Use)
  <2>1. PICK k \in 1..MaxUses : uses \in [1..k -> [what : Whats, in : 0..(k - 1)]]
    BY DEF Init, Files
  <2>2. k \in Nat /\ [what : Whats, in : 0..(k - 1)] \subseteq Use
    BY <2>1, MaxUsesAssumption DEF Use
  <2>3. uses \in [1..k -> Use]
    BY <2>1, <2>2
  <2> QED BY <2>2, <2>3, SeqDef
<1>2. FileOK
  <2>1. run \in Run /\ run.phase = "idle" /\ run.left = {}
    BY DEF Init, Idle, Run
  <2> QED BY <1>1, <2>1, PathFacts DEF Init, FileOK
<1>3. FixedFileCompiles
  BY DEF Init, FixedFileCompiles, Compiles
<1> QED BY <1>2, <1>3 DEF FixIInv, Init, Idle

(* When the rules have looked at a file that compiles, no fix has been applied. *)
LEMMA AnalyzeOK == FileOK /\ Analyze => FixIInv'
<1> SUFFICES ASSUME FileOK, Analyze PROVE FixIInv'
  OBVIOUS
<1>1. /\ run'.phase = "fixing" /\ run'.before = uses /\ run'.left = ToFix
      /\ run'.applied = {} /\ run'.skipped = {} /\ run'.adds = addImport
      /\ run'.drops = [path \in Rules |-> dropDotImport(path)]
      /\ uses' = uses /\ imports' = imports /\ Compiles
  BY DEF Analyze
<1>2. Len(uses) \in Nat /\ \A i \in 1..Len(uses) : uses[i] \in Use
  BY LenProperties, ElementOfSeq DEF FileOK
<1>3. /\ FixableBefore' = ToFix
      /\ \A path \in Paths : OfBefore(path)' = Of(path)
  BY <1>1 DEF FixableBefore, ToFix, OfBefore, Of
<1>4. \A path \in Paths : Imported(path)' = Imported(path) /\ (Imported(path) <=> Of(path) # {})
  BY <1>1, PathFacts DEF Compiles, Imported
<1>5. UsesFixed'
  BY <1>1, <1>3 DEF UsesFixed, Fixed, FileOK
<1>6. ASSUME NEW path \in Rules PROVE ImportFixed(path)'
  <2>1. path \in Paths /\ run'.drops[path] = dropDotImport(path)
    BY <1>1, PathFacts
  <2>2. ASSUME dropDotImport(path)
        PROVE  /\ Of(path) # {} /\ imports[path] = "dot"
               /\ \A i \in Of(path) : i \in ToFix \/ uses[i].what = "Value"
    <3>1. imports[path] = "dot" /\ Of(path) # {}
      BY <1>4, <2>1, <2>2 DEF dropDotImport, Imported
    <3>2. ASSUME NEW i \in Of(path) PROVE i \in ToFix \/ uses[i].what = "Value"
      <4>1. /\ i \in 1..Len(uses) /\ uses[i].what \in Accepted[path]
            /\ uses[i].what \in Reported => uses[i].what \in Fixable
        BY <2>2, <3>2 DEF dropDotImport, Of
      <4>2. uses[i].what \in Reported \/ uses[i].what = "Value"
        BY <4>1, PathFacts DEF Reported
      <4> QED BY <4>1, <4>2 DEF ToFix
    <3> QED BY <3>1, <3>2
  <2>3. ASSUME ~dropDotImport(path), imports[path] = "dot"
        PROVE  ~(Of(path) \subseteq ToFix)
    <3>1. PICK i \in Of(path) : \/ uses[i].what \notin Accepted[path]
                                \/ uses[i].what \in Reported /\ uses[i].what \notin Fixable
      BY <2>3 DEF dropDotImport
    <3>2. uses[i].what \in Members[path]
      BY <3>1 DEF Of
    <3>3. uses[i].what \notin Fixable
      BY <3>1, <3>2, PathFacts DEF Fixable
    <3> QED BY <3>1, <3>3 DEF ToFix
  <2> QED BY <1>1, <1>3, <1>4, <2>1, <2>2, <2>3 DEF ImportFixed
<1>7. ErrforgeImported'
  BY <1>1, <1>3, <1>4, PathFacts DEF ErrforgeImported, addImport, Paths
<1>8. FileOK'
  <2>1. run' \in Run
    BY <1>1 DEF Analyze, FileOK, Run, ToFix, addImport, dropDotImport, Imported
  <2> QED BY <1>1, <2>1 DEF FileOK
<1> QED BY <1>1, <1>5, <1>6, <1>7, <1>8 DEF FixIInv, Fixing, FixedFileCompiles

LEMMA ApplyOK == FixIInv /\ (\E i \in 1..MaxUses : ApplyFix(i)) => FixIInv'
<1> SUFFICES ASSUME FixIInv, NEW i, ApplyFix(i) PROVE FixIInv'
  OBVIOUS
<1> DEFINE what == run.before[i].what
           path == RuleOf(what)
<1>1. /\ i \in run.left /\ run' = [run EXCEPT !.left = @ \ {i}, !.applied = @ \cup {i}]
      /\ uses' = [uses EXCEPT ![i].what = IF NeedsErrforge(what) THEN "Errforge" ELSE "none"]
      /\ imports' = IF NeedsErrforge(what) /\ run.adds
                    THEN [(IF run.drops[path] THEN [imports EXCEPT ![path] = "none"] ELSE imports)
                             EXCEPT !.errforge = "named"]
                    ELSE IF run.drops[path] THEN [imports EXCEPT ![path] = "none"] ELSE imports
  BY DEF ApplyFix
<1>2. FileOK /\ run.phase = "fixing" /\ Fixing
  BY <1>1 DEF FixIInv, FileOK, Run
<1>3. /\ i \in FixableBefore /\ i \in 1..Len(uses) /\ what \in Fixable
      /\ path \in Rules /\ i \in OfBefore(path)
      /\ \A p \in Rules : i \in OfBefore(p) => p = path
  <2>1. i \in FixableBefore /\ Len(uses) = Len(run.before)
    BY <1>1, <1>2 DEF Fixing, UsesFixed
  <2>2. i \in 1..Len(run.before) /\ what \in Fixable
    BY <2>1 DEF FixableBefore
  <2> QED BY <2>1, <2>2, FixMakes DEF OfBefore
<1>4. /\ run'.phase = "fixing" /\ run'.before = run.before /\ run'.left = run.left \ {i}
      /\ run'.applied = run.applied \cup {i} /\ run'.skipped = run.skipped
      /\ run'.adds = run.adds /\ run'.drops = run.drops
  BY <1>1, <1>2 DEF FileOK, Run
<1>5. FixableBefore' = FixableBefore /\ \A p : OfBefore(p)' = OfBefore(p)
  BY <1>4 DEF FixableBefore, OfBefore
<1> DEFINE now == IF NeedsErrforge(what) THEN "Errforge" ELSE "none"
<1>6. /\ uses' \in Seq(Use) /\ Len(uses') = Len(uses) /\ uses'[i].what = now
      /\ \A j \in 1..Len(uses) : j # i => uses'[j] = uses[j]
  <2>1. uses \in Seq(Use) /\ uses[i] \in Use
    BY <1>2, <1>3, ElementOfSeq DEF FileOK
  <2>2. now \in {"Errforge", "none"}
    OBVIOUS
  <2> DEFINE v == [uses[i] EXCEPT !.what = now]
  <2>3. v \in Use /\ v.what = now
    BY <2>1, <2>2 DEF Use
  <2>4. uses' = [uses EXCEPT ![i] = v]
    BY <1>1
  <2> HIDE DEF v, now
  <2>5. /\ uses' \in Seq(Use) /\ Len(uses') = Len(uses) /\ uses'[i] = v
        /\ \A j \in 1..Len(uses) : j # i => uses'[j] = uses[j]
    BY <1>3, <2>1, <2>3, <2>4, ExceptSeq
  <2> QED BY <2>3, <2>5
<1>7. UsesFixed'
  <2>1. \A j \in 1..Len(uses) : uses'[j].what = Fixed(j)'
    BY <1>2, <1>4, <1>6 DEF Fixing, UsesFixed, Fixed
  <2> QED BY <1>1, <1>2, <1>3, <1>4, <1>5, <1>6, <2>1 DEF Fixing, UsesFixed
<1>8. /\ imports' \in [Paths -> {"none", "named", "dot", "blank"}]
      /\ \A p \in Rules : imports'[p] = IF run.drops[path] /\ p = path THEN "none" ELSE imports[p]
      /\ imports'["errforge"] = IF NeedsErrforge(what) /\ run.adds THEN "named"
                               ELSE imports["errforge"]
  <2>1. imports \in [Paths -> {"none", "named", "dot", "blank"}]
    BY <1>2 DEF FileOK
  <2>2. path \in Paths /\ path # "errforge" /\ "errforge" \notin Rules /\ "errforge" \in Paths
    BY <1>3, PathFacts DEF Paths
  <2> HIDE DEF path, what
  <2> QED BY <1>1, <2>1, <2>2, PathFacts
<1>9. ASSUME NEW p \in Rules PROVE ImportFixed(p)'
  <2>1. ImportFixed(p)
    BY <1>2, <1>9 DEF Fixing
  <2>2. CASE p = path
    BY <1>3, <1>4, <1>5, <1>8, <2>1, <2>2 DEF ImportFixed, Imported
  <2>3. CASE p # path
    BY <1>3, <1>4, <1>5, <1>8, <2>1, <2>3 DEF ImportFixed, Imported
  <2> QED BY <2>2, <2>3
<1>10. ErrforgeImported'
  BY <1>2, <1>4, <1>5, <1>8 DEF Fixing, ErrforgeImported, Imported
<1>11. FileOK'
  <2>1. run' \in Run
    BY <1>1, <1>2 DEF FileOK, Run
  <2> QED BY <1>4, <1>6, <1>8, <2>1 DEF FileOK
<1> QED BY <1>4, <1>7, <1>9, <1>10, <1>11 DEF FixIInv, Fixing, FixedFileCompiles

LEMMA LeaveOutOK == FixIInv /\ (\E i \in 1..MaxUses : LeaveOut(i)) => FixIInv'
<1> SUFFICES ASSUME FixIInv, NEW i, LeaveOut(i) PROVE FixIInv'
  OBVIOUS
<1>1. FileOK /\ run.phase = "fixing" /\ Fixing
  BY DEF FixIInv, FileOK, Run, LeaveOut
<1>2. /\ run'.phase = "fixing" /\ run'.before = run.before /\ run'.left = run.left \ {i}
      /\ run'.applied = run.applied /\ run'.skipped = run.skipped \cup {i}
      /\ run'.adds = run.adds /\ run'.drops = run.drops
      /\ uses' = uses /\ imports' = imports /\ i \in run.left
  BY <1>1 DEF LeaveOut, FileOK, Run
<1>3. UsesFixed'
  BY <1>1, <1>2 DEF Fixing, UsesFixed, Fixed, FixableBefore
<1>4. ASSUME NEW p \in Rules PROVE ImportFixed(p)'
  BY <1>1, <1>2 DEF Fixing, ImportFixed, Imported, OfBefore, FixableBefore
<1>5. ErrforgeImported'
  BY <1>1, <1>2 DEF Fixing, ErrforgeImported, Imported, OfBefore
<1>6. FileOK'
  <2>1. run' \in Run
    BY <1>1 DEF LeaveOut, FileOK, Run
  <2> QED BY <1>1, <1>2, <2>1 DEF FileOK
<1> QED BY <1>2, <1>3, <1>4, <1>5, <1>6 DEF FixIInv, Fixing, FixedFileCompiles

(* The uses that are left of a package: those that it had, less those fixed, and of
   errforge those that a fix made. *)
LEMMA UsesLeft ==
    ASSUME Fixing
    PROVE  /\ \A path \in Rules : Of(path) = OfBefore(path) \ run.applied
           /\ Of("errforge") = OfBefore("errforge")
                               \cup {i \in run.applied : NeedsErrforge(run.before[i].what)}
<1>1. /\ Len(uses) = Len(run.before) /\ run.applied \subseteq FixableBefore
      /\ \A i \in 1..Len(uses) : uses[i].what = Fixed(i)
  BY DEF Fixing, UsesFixed
<1>2. ASSUME NEW path \in Rules PROVE Of(path) = OfBefore(path) \ run.applied
  BY <1>1, FixMakes DEF Of, OfBefore, Fixed
<1>3. \A i \in run.applied : i \in 1..Len(uses) /\ i \notin OfBefore("errforge")
  BY <1>1, FixMakes DEF OfBefore, FixableBefore
<1> QED BY <1>1, <1>2, <1>3, FixMakes DEF Of, OfBefore, Fixed

LEMMA FinishOK == FixIInv /\ Finish => FixIInv'
<1> SUFFICES ASSUME FixIInv, Finish PROVE FixIInv'
  OBVIOUS
<1>1. FileOK /\ Fixing /\ run.left = {}
  BY DEF Finish, FixIInv
<1>2. /\ run'.phase = "idle" /\ run'.left = {} /\ run'.skipped = run.skipped
      /\ run'.drops = run.drops /\ uses' = uses
  BY <1>1 DEF Finish, FileOK, Run
<1>3. /\ imports' \in [Paths -> {"none", "named", "dot", "blank"}]
      /\ \A path \in Paths :
            imports'[path] = IF imports[path] = "named" /\ Of(path) = {} THEN "none"
                             ELSE imports[path]
  BY <1>1 DEF Finish, FileOK
<1>4. \A path : Of(path)' = Of(path)
  BY <1>2 DEF Of
<1>5. FixedFileCompiles'
  <2> SUFFICES ASSUME NEW path \in Paths
               PROVE  /\ Imported(path)' => Of(path) # {}
                      /\ ~Imported(path)' => Of(path) \subseteq Orphans'
    BY <1>4, PathFacts DEF FixedFileCompiles
  <2>1. CASE imports[path] = "named"
    BY <1>3, <2>1 DEF Imported
  <2>2. CASE path = "errforge"
    BY <1>1, <1>3, <2>2, UsesLeft DEF Fixing, ErrforgeImported, Imported
  <2>3. CASE path \in Rules /\ imports[path] # "named"
    <3>1. ImportFixed(path) /\ Of(path) = OfBefore(path) \ run.applied
      BY <1>1, <2>3, UsesLeft DEF Fixing
    <3>2. Imported(path)' <=> imports[path] = "dot"
      BY <1>3, <2>3 DEF Imported
    <3>3. CASE run.drops[path]
      <4>1. ASSUME imports[path] # "dot", NEW i \in Of(path) PROVE i \in Orphans'
        <5>1. i \in run.skipped \/ uses[i].what = "Value"
          <6>1. i \in FixableBefore \/ run.before[i].what = "Value"
            BY <3>1, <3>3, <4>1 DEF ImportFixed
          <6>2. i \in 1..Len(uses) /\ i \notin run.applied
            BY <3>1, <4>1 DEF Of
          <6> QED BY <1>1, <6>1, <6>2 DEF Fixing, UsesFixed, Fixed
        <5>2. i \in 1..Len(uses') /\ i \in Of(path)' /\ run'.drops[path] /\ ~Imported(path)'
          BY <1>2, <1>4, <3>2, <3>3, <4>1 DEF Of
        <5> QED BY <1>2, <2>3, <5>1, <5>2 DEF Orphans
      <4>2. imports[path] = "dot" => Of(path) # {}
        BY <3>1, <3>3 DEF ImportFixed
      <4> QED BY <3>2, <4>1, <4>2
    <3>4. CASE ~run.drops[path]
      BY <1>1, <2>3, <3>1, <3>2, <3>4 DEF ImportFixed, Imported, Fixing, UsesFixed
    <3> QED BY <3>3, <3>4
  <2> QED BY <2>1, <2>2, <2>3, PathFacts DEF Paths
<1>6. FileOK'
  <2>1. run' \in Run
    BY <1>1 DEF Finish, FileOK, Run
  <2> QED BY <1>1, <1>2, <1>3, <2>1 DEF FileOK
<1> QED BY <1>2, <1>5, <1>6 DEF FixIInv, FixedFileCompiles, Finish

LEMMA FixInductive == Spec => []FixIInv
<1>1. FixIInv /\ [Next]_vars => FixIInv'
  <2>1. FixIInv /\ UNCHANGED vars => FixIInv'
    BY SMTT(30) DEF vars, FixIInv, FileOK, Fixing, UsesFixed, Fixed, ImportFixed, ErrforgeImported,
           Imported, OfBefore, FixableBefore, FixedFileCompiles, Orphans, Compiles, Of
  <2> QED BY <2>1, AnalyzeOK, ApplyOK, LeaveOutOK, FinishOK DEF Next, FixIInv
<1> QED BY <1>1, InitOK, PTL DEF Spec

(* After a run of the linter, whatever fixes conflicted: the import of errforge is
   there when a fix needs it, the imports that only fixed uses needed are gone, and
   only the uses that the run left while deleting their dot import, those of calls
   whose fix was left out and of an Errorf that is not called, are without theirs. *)
THEOREM FilesCompile == Spec => []FixedFileCompiles
BY FixInductive, PTL DEF FixIInv
=============================================================================
