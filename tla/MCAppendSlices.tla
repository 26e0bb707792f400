--------------------------- MODULE MCAppendSlices ---------------------------
(* AppendSlices on small instances: the goroutines are interchangeable. *)
EXTENDS AppendSlices, TLC

Symmetry == Permutations(Goroutine)
=============================================================================
