-------------------------- MODULE MCEmailDelivery --------------------------
(***************************************************************************)
(* Small instances of EmailDelivery for TLC.                               *)
(***************************************************************************)
EXTENDS EmailDelivery

AllFaults      == FaultKinds
ProviderFaults == {"ambiguous", "noid"}
=============================================================================
