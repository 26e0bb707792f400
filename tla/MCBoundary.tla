----------------------------- MODULE MCBoundary -----------------------------
(* One code that the two transports treat differently: Aborted crosses gRPC as
   it is, and shares its HTTP status with another code. *)
EXTENDS Boundary

MCOneCode == {Code.Aborted}
MCRegistered == [io |-> Code.DataLoss]
=============================================================================
