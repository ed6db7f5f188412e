----------------------------- MODULE MCWebhook -----------------------------
(* Instances of WebhookDelivery for TLC: workers are interchangeable in the  *)
(* runs that check safety only.                                              *)
EXTENDS WebhookDelivery, TLC

WorkerSymmetry == Permutations(Workers)
=============================================================================
