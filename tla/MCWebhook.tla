----------------------------- MODULE MCWebhook ------------------------------
(* A short audit log and its webhooks for TLC.                             *)
EXTENDS WebhookDelivery

CONSTANTS t1, t2, c1
=============================================================================
