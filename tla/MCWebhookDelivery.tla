------------------------- MODULE MCWebhookDelivery -------------------------
(* WebhookDelivery with two notifications and two worker slots; no symmetry, *)
(* since liveness is checked on it.                                          *)
EXTENDS WebhookDelivery
=============================================================================
