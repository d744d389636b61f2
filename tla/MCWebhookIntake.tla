--------------------------- MODULE MCWebhookIntake --------------------------
(* Model-checking instance of WebhookIntake, and so of CircuitBreaker.     *)
EXTENDS WebhookIntake, TLC

CONSTANTS b1, b2, b3

Batches == {b1, b2, b3}
=============================================================================
