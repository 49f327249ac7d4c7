----------------------------- MODULE MCDecision -----------------------------
(***************************************************************************)
(* Decision with the labels the committed classifiers were fitted on, and   *)
(* hours on both sides of every limit of derive_priority.                   *)
(***************************************************************************)
EXTENDS Decision

AllIntents == {"refund_request", "delivery_issue", "tracking_request", "complaint",
               "general_question"}
AllSentiments == {"negative", "neutral", "positive"}
Limits == {-1, 2, 3, 8, 9}
=============================================================================
