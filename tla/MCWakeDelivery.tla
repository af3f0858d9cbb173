--------------------------- MODULE MCWakeDelivery ---------------------------
(* WakeDelivery, its constants given values by the configurations.          *)
EXTENDS WakeDelivery
=============================================================================
