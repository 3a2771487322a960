---------------------- MODULE MCRateLimitReservation ----------------------
(* A small instance of RateLimitReservation for TLC. *)
EXTENDS RateLimitReservation

DbFault == {"db"}
=============================================================================
