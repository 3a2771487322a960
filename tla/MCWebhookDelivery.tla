------------------------- MODULE MCWebhookDelivery -------------------------
(* Small instances of WebhookDelivery for TLC. *)
EXTENDS WebhookDelivery

AllFaults == {"crash", "db", "ambiguous", "update", "delete"}
=============================================================================
