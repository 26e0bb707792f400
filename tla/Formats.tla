------------------------------- MODULE Formats -------------------------------
(***************************************************************************)
(* Format strings, read by three scanners that have to agree: fmt itself,    *)
(* the regular expression by which Wrapf counts its values, and the linter,  *)
(* which tells from the place of the %w verbs what a fmt.Errorf call does.   *)
(* A format is a sequence of characters, each standing for its class: "s" is *)
(* a letter of a word, "w" the verb of that name, "5" a digit but 0, "+" a   *)
(* sign or "#".                                                              *)
(***************************************************************************)
EXTENDS Integers, Sequences, SequencesExt, FiniteSets

Percent == "%"
Flags == {"+", " ", "0"}
Digits == {"0", "5"}
Word == {"s", "w", "0", "5"}
wVerb == <<Percent, "w">>
HasPercent(f) == Percent \in ToSet(f)

At(f, i) == IF i \in 1..Len(f) THEN f[i] ELSE ""
(* The first place from i on that holds none of chars. *)
Skip(f, i, chars) ==
    CHOOSE j \in i..(Len(f) + 1) :
        At(f, j) \notin chars /\ \A k \in i..(j - 1) : At(f, k) \in chars

-----------------------------------------------------------------------------
(* fmt: flags, a width, a precision and the verb. "%%", with flags or without,
   takes no operand, and "*" takes one of its own. *)
Operands(f) ==
    LET width(i) == IF At(f, i) = "*" THEN i + 1 ELSE Skip(f, i, Digits)
        precision(i) == IF At(f, i) = "." THEN width(i + 1) ELSE i
        from[i \in 1..(Len(f) + 2)] ==
            IF i > Len(f) THEN <<>>
            ELSE IF f[i] # Percent THEN from[i + 1]
            ELSE LET letter == precision(width(Skip(f, i + 1, Flags)))
                     stars == SelectSeq(SubSeq(f, i, letter), LAMBDA c : c = "*")
                 IN  stars \o (IF At(f, letter) \in {Percent, ""} THEN <<>> ELSE <<f[letter]>>)
                           \o from[letter + 1]
    IN  from[1]

(* verbRegex: a percent, perhaps one flag, perhaps a width and a precision of a
   digit each, and a word. No match holds a second percent, so the matches that
   FindAllString lists are the places where one starts. *)
WidthForms == {<<>>, <<"5">>, <<"5", ".">>, <<".", "5">>, <<"5", ".", "5">>}
(* Mutant: flags are not looked for. *)
MatchesWithoutFlag(f, i) ==
    \E w \in WidthForms : /\ IsPrefix(<<Percent>> \o w, SubSeq(f, i, Len(f)))
                          /\ At(f, i + Len(w) + 1) \in Word
Matches(f, i) ==
    \E flag \in {<<>>} \cup {<<c>> : c \in Flags}, w \in WidthForms :
        LET head == <<Percent>> \o flag \o w
        IN  IsPrefix(head, SubSeq(f, i, Len(f))) /\ At(f, i + Len(head)) \in Word
countVerbs(f) == Cardinality({i \in 1..Len(f) : Matches(f, i)})

(* The linter: each conversion with its letter and its place. *)
Modifiers == Flags \cup Digits \cup {"."}
parseVerbs(f) ==
    LET from[i \in 1..(Len(f) + 2)] ==
            IF i > Len(f) THEN <<>>
            ELSE IF f[i] # Percent THEN from[i + 1]
            ELSE IF At(f, i + 1) = Percent THEN from[i + 2]
            ELSE LET last == Skip(f, i + 1, Modifiers)
                 IN  <<[letter |-> At(f, last), start |-> i, end |-> last]>> \o from[last + 1]
    IN  from[1]
Readable(verbs) == \A i \in 1..Len(verbs) : verbs[i].letter \notin {"", "*", "["}
IsWrap(v) == v.letter = "w"

-----------------------------------------------------------------------------
causeSep == <<":", " ">>
siblingSeps == {<<",", " ">>, <<";", " ">>, <<" ">>}

(* "prefix: %w, %w": from the first %w on there is nothing but the causes. *)
trailing(f, verbs) ==
    LET first == SelectInSeq(verbs, IsWrap)
        cut == verbs[first].start - 1 - Len(causeSep)
    IN  /\ \A i \in first..Len(verbs) :
             /\ IsWrap(verbs[i])
             /\ i > first => SubSeq(f, verbs[i - 1].end + 1, verbs[i].start - 1) \in siblingSeps
        /\ Last(verbs).end = Len(f)
        /\ cut > 0 /\ SubSeq(f, cut + 1, cut + Len(causeSep)) = causeSep

(* Mutant: a %w in the rest is formatted like any verb. *)
leadingAnyRest(f, verbs) ==
    LET head == wVerb \o causeSep IN IsPrefix(head, f) /\ f # head
(* "%w: rest", with a %w in the rest only when it is the rest. *)
leading(f, verbs) ==
    LET head == wVerb \o causeSep
        rest == SubSeq(f, Len(head) + 1, Len(f))
    IN  /\ IsPrefix(head, f) /\ f # head
        /\ rest = wVerb \/ \A i \in 2..Len(verbs) : ~IsWrap(verbs[i])

(* The layout of a fmt.Errorf call, and the format of the call that replaces it. *)
Classify(f, nargs) ==
    LET verbs == parseVerbs(f)
        first == SelectInSeq(verbs, IsWrap)
        plan(kind, text) == [kind |-> kind, text |-> text]
        prefix == SubSeq(f, 1, verbs[first].start - 1 - Len(causeSep))
    IN  IF ~Readable(verbs) \/ Len(verbs) # nargs THEN plan("Unsupported", <<>>)
        ELSE IF first = 0 /\ ~HasPercent(f) THEN plan("New", f)
        ELSE IF first = 0 THEN plan("Newf", f)
        ELSE IF f = wVerb THEN plan("Identity", <<>>)
        ELSE IF trailing(f, verbs) /\ first = 1 /\ ~HasPercent(prefix) THEN plan("Wrap", prefix)
        ELSE IF trailing(f, verbs) THEN plan("Wrapf", prefix)
        ELSE IF leading(f, verbs)
             THEN plan("Lead", SubSeq(f, Len(wVerb \o causeSep) + 1, Len(f)))
        ELSE plan("Unsupported", <<>>)
=============================================================================
