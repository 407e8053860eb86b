------------------------- MODULE MCPaymentGateway --------------------------
(* An order that costs next to nothing and one at the caps of both scores;  *)
(* the most the digest can add; a sidecar without a score and with a high   *)
(* one.                                                                     *)
EXTENDS PaymentGateway

MCAmounts    == {0, 90}
MCDomains    == {"test", "other"}
MCEntropies  == {29}
MCJudgeRisks == {0, 90}
=============================================================================
