------------------------- MODULE MCPaymentWebhooks -------------------------
(***************************************************************************)
(* One order and its payment's events, two handlers at once.  *)
(***************************************************************************)
EXTENDS PaymentWebhooks, TLC

CONSTANTS h1, h2

=============================================================================
