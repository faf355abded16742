--------------------------- MODULE MCWebhookInbox ---------------------------
(* WebhookInbox on three deliveries of one event.                          *)
EXTENDS WebhookInbox

=============================================================================
