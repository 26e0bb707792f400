----------------------------- MODULE MCErrorTree -----------------------------
(* A code of the caller's; a Mapper that knows the one foreign sentinel, and an
   option of it that overrides a default. *)
EXTENDS ErrorTree

MCOneCode == {Code.NotFound}
MCRegistered == [io |-> Code.DataLoss, canceled |-> Code.Aborted]
=============================================================================
