--------------------------- MODULE MCWebhookIngest ---------------------------
(* The model values and bounds are those of the .cfg files.                *)
EXTENDS WebhookIngest
=============================================================================
