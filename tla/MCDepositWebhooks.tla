-------------------------- MODULE MCDepositWebhooks --------------------------
(* Instances of DepositWebhooks for TLC. *)
EXTENDS DepositWebhooks

CONSTANTS e1, w1, r1, r2, c1, c2

OneEmployer == {e1}
OneWorker == {w1}
TwoRequests == {r1, r2}
TwoHooks == {c1, c2}
=============================================================================
