-------------------------- MODULE MCWebhookReceipt --------------------------
(***************************************************************************)
(* WebhookReceipt for TLC: two events.  The receiver's clock is ahead of   *)
(* the server's by exactly the tolerance, so that a POST that comes at     *)
(* once is just in time and a POST that is late is too late.               *)
(***************************************************************************)
EXTENDS WebhookReceipt

MCSkews == {1}
=============================================================================
