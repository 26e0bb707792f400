----------------------------- MODULE MCErrorfFix -----------------------------
(* A cause in each of the places a layout knows, verbs that the three scanners
   read alike and verbs that they do not, a literal percent, and words. *)
EXTENDS ErrorfFix

MCPieces ==
    {wVerb, causeSep \o wVerb, <<",", " ">> \o wVerb, causeSep, <<" ", "s">>,
     <<"%", "s">>, <<"%", "+", "5", ".", "5", "s">>, <<"%", "+", "+", "s">>,
     <<"%", ".", "0", "s">>, <<"%", "*", "s">>, <<"%", "%">>}

(* A message with a literal percent before a word, and its cause. *)
MCPiecesLiteral == {<<"%", "%">>, <<" ", "s">>, causeSep \o wVerb}
=============================================================================
