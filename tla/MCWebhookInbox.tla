--------------------------- MODULE MCWebhookInbox ---------------------------
(* Small instances of WebhookInbox for TLC.                                *)
EXTENDS WebhookInbox
=============================================================================
