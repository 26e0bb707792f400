----------------------------- MODULE LinterFiles -----------------------------
(***************************************************************************)
(* Runs of the linter with -fix over one file.  Each rule reports the uses   *)
(* of its package, and gives most of them a fix, which may add the errforge  *)
(* import and delete a dot import; the driver of go/analysis then applies    *)
(* the fixes, leaves out those that conflict with one it applied, and        *)
(* removes the named imports that nothing uses any more.  Of a file, the     *)
(* model keeps how it imports the packages, what it uses of them, and which  *)
(* use stands among the arguments of which call.                             *)
(***************************************************************************)
EXTENDS Naturals, Sequences, FiniteSets

CONSTANTS
    Whats,      \* the sorts of uses that a file may have
    MaxUses     \* bound on the uses of a file

ASSUME MaxUsesAssumption == MaxUses \in Nat

VARIABLES
    imports,    \* how the file imports each package
    uses,       \* its uses of them: what, and the call it is an argument of
    run         \* the run of the linter: the fixes left and applied

vars == <<imports, uses, run>>

(* The uses of a package. Of the calls of fmt.Errorf, the fix of a Renamed one
   touches its name and its format; that of a Linked or a Built one replaces the
   text of the call, its arguments included, with a Link or with a call that
   needs no import; a ByHand one has no fix. A Value is Errorf, not called. *)
Members == [errors   |-> {"New", "ErrUnsupported"},
            fmt      |-> {"Renamed", "Linked", "Built", "ByHand", "Value", "Println"},
            errforge |-> {"Errforge"}]
Of(path) == {i \in 1..Len(uses) : uses[i].what \in Members[path]}

Rules == {"errors", "fmt"}
Reported == {"New", "ErrUnsupported", "Renamed", "Linked", "Built", "ByHand"}
Fixable == {"New", "Renamed", "Linked", "Built"}
Whole == {"Linked", "Built"}
ToFix == {i \in 1..Len(uses) : uses[i].what \in Fixable}
RuleOf(what) == IF what \in Members.errors THEN "errors" ELSE "fmt"

(* The members that do not keep a dot import: errorsEquivalent, and Errorf. *)
Accepted == [errors |-> {"New"}, fmt |-> Members.fmt \ {"Println"}]

(* The calls that hold use i, innermost or not. *)
Holders[i \in Nat] == IF uses[i].in = 0 THEN {} ELSE {uses[i].in} \cup Holders[uses[i].in]

(* Every use has its import and every import a use: else the file does not
   compile. A blank import is there for its own sake. *)
Imported(path) == imports[path] \in {"named", "dot"}
Compiles == \A path \in DOMAIN Members : Imported(path) <=> Of(path) # {}

-----------------------------------------------------------------------------
(* A fix that replaces a call conflicts with one of what the call holds. *)
Conflict(file, i, j) ==
    LET replaces(c, k) == c \in Holders[k] /\ file[c].what \in Whole
    IN  replaces(i, j) \/ replaces(j, i)

(* Two packages that declare one name are not both dot imports: errforge has a
   New like errors, and a Print like fmt. *)
NoClash ==
    imports.errforge = "dot" => imports.errors # "dot" /\ imports.fmt # "dot"

Idle == [phase |-> "idle", before |-> <<>>, left |-> {}, applied |-> {}, skipped |-> {},
         adds |-> FALSE, drops |-> [path \in Rules |-> FALSE]]
Calls == {"Renamed", "Linked", "Built", "ByHand", "Println"}
Files(k) == [1..k -> [what : Whats, in : 0..(k - 1)]]

Init ==
    /\ uses \in UNION {Files(k) : k \in 1..MaxUses}
    /\ \A i \in 1..Len(uses) :
           uses[i].in # 0 => uses[i].in < i /\ uses[uses[i].in].what \in Calls
    /\ imports \in [DOMAIN Members -> {"none", "named", "dot", "blank"}]
    /\ \A path \in Rules : imports[path] # "blank"
    /\ Compiles /\ NoClash
    /\ run = Idle

(* Mutant: a blank import of errforge is taken for one. *)
addImportBlank == imports.errforge = "none"
(* A file in which errforge has no name gets the import with the first fix that
   needs it. *)
addImport == ~Imported("errforge")

(* Mutant: uses that have no fix do not keep the import. *)
dropDotImportReported(path) ==
    imports[path] = "dot" /\ \A i \in Of(path) : uses[i].what \in Accepted[path]
(* Whether each fix of the rule deletes the dot import. *)
dropDotImport(path) ==
    /\ imports[path] = "dot"
    /\ \A i \in Of(path) : /\ uses[i].what \in Accepted[path]
                           /\ uses[i].what \in Reported => uses[i].what \in Fixable

(* Both rules look at the file as it is; a file that does not compile is not
   looked at. *)
Analyze ==
    /\ run.phase = "idle" /\ Compiles /\ ToFix # {}
    /\ run' = [phase |-> "fixing", before |-> uses, left |-> ToFix, applied |-> {},
               skipped |-> {}, adds |-> addImport, drops |-> [path \in Rules |-> dropDotImport(path)]]
    /\ UNCHANGED <<imports, uses>>

(* The call built on a sentinel is a method of the sentinel. *)
NeedsErrforge(what) == what # "Built"

ApplyFix(i) ==
    LET what == run.before[i].what
        path == RuleOf(what)
        dropped == IF run.drops[path] THEN [imports EXCEPT ![path] = "none"] ELSE imports
    IN  /\ i \in run.left
        /\ \A j \in run.applied : ~Conflict(run.before, i, j)
        /\ uses' = [uses EXCEPT ![i].what = IF NeedsErrforge(what) THEN "Errforge" ELSE "none"]
        /\ imports' = IF NeedsErrforge(what) /\ run.adds
                      THEN [dropped EXCEPT !.errforge = "named"] ELSE dropped
        /\ run' = [run EXCEPT !.left = @ \ {i}, !.applied = @ \cup {i}]

LeaveOut(i) ==
    /\ i \in run.left /\ \E j \in run.applied : Conflict(run.before, i, j)
    /\ run' = [run EXCEPT !.left = @ \ {i}, !.skipped = @ \cup {i}]
    /\ UNCHANGED <<imports, uses>>

(* The driver writes the file, without the named imports that it no longer uses. *)
Finish ==
    /\ run.phase = "fixing" /\ run.left = {}
    /\ imports' = [path \in DOMAIN imports |->
                      IF imports[path] = "named" /\ Of(path) = {} THEN "none" ELSE imports[path]]
    /\ run' = [run EXCEPT !.phase = "idle"] /\ UNCHANGED uses

Next == Analyze \/ (\E i \in 1..MaxUses : ApplyFix(i) \/ LeaveOut(i)) \/ Finish

(* The linter is run again for as long as it has something to fix, and its driver
   waits for nothing. *)
Spec == Init /\ [][Next]_vars /\ WF_vars(Next)

-----------------------------------------------------------------------------
(* A use whose dot import the last run deleted, though it left the use: Errorf
   that is not called, or a call whose fix was left out for another's. *)
Orphans ==
    {i \in 1..Len(uses) : \E path \in Rules :
        /\ i \in Of(path) /\ run.drops[path] /\ ~Imported(path)
        /\ uses[i].what = "Value" \/ i \in run.skipped}

(* What a run writes compiles but for its orphans, whether it has any or not: each
   other use, fixed or not, has its import, and "a dot import the rewrite leaves
   unused is deleted", like any other. *)
FixedFileCompiles ==
    run.phase = "idle" => \A path \in DOMAIN Members :
        /\ Imported(path) => Of(path) # {}
        /\ ~(Of(path) \subseteq Orphans) => Imported(path)

(* Whatever the fixes that conflict, runs of the linter come to an end, with
   nothing left to fix. *)
FixesConverge == <>[](run.phase = "idle" /\ (Orphans = {} => ToFix = {}))
=============================================================================
