------------------------------- MODULE MCRelay -------------------------------
(* Every code of the list but OK, values on both sides of the list, and every
   failure status of the HTTP range. *)
EXTENDS Relay

MCCodes == {-1, 42} \cup (0..17 \ {Code.OK})
MCStatuses == 400..599
=============================================================================
