---------------------------- MODULE PaymentVeto ----------------------------
(***************************************************************************)
(* What an authorization promises, however its judges are asked and their  *)
(* answers merged: every judge is heard or found silent first, and a single *)
(* no is final.  PaymentGateway.tla refines this module.                   *)
(***************************************************************************)
CONSTANT Judge

VARIABLES
  vote,     \* what each judge said: "none" yet, "yes", "no" or "silent"
  verdict   \* "open", "authorized", "refused" or "skipped"

vetoVars == <<vote, verdict>>

Unheard == [j \in Judge |-> "none"]

Init == vote = Unheard /\ verdict = "open"

\* Some judges speak; nobody speaks twice.
Hear ==
  /\ verdict = "open"
  /\ vote' \in [Judge -> {"none", "yes", "no", "silent"}]
  /\ \A j \in Judge : vote[j] \in {"none", vote'[j]}
  /\ UNCHANGED verdict

\* The verdict, which may come with the last vote.
Decide ==
  /\ verdict = "open"
  /\ vote' \in [Judge -> {"yes", "no", "silent"}]
  /\ \A j \in Judge : vote[j] \in {"none", vote'[j]}
  /\ verdict' = IF \E j \in Judge : vote'[j] = "no" THEN "refused" ELSE "authorized"

\* Nobody is asked.
Skip ==
  /\ verdict = "open" /\ vote = Unheard
  /\ verdict' = "skipped"
  /\ UNCHANGED vote

\* A checkout that failed is tried again from the start.
Restart == vote' = Unheard /\ verdict' = "open"

Next == Hear \/ Decide \/ Skip \/ Restart

Spec == Init /\ [][Next]_vetoVars
=============================================================================
