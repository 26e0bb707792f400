------------------------------ MODULE MCLogView ------------------------------
(* A code of ours, and a Mapper that knows the one sentinel. *)
EXTENDS LogView

MCOneCode == {Code.Internal}
MCRegistered == [io |-> Code.DataLoss]
=============================================================================
