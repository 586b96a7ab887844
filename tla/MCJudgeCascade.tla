--------------------------- MODULE MCJudgeCascade ---------------------------
(* Two runs interleave every pair of commands on the breaker's keys.  No   *)
(* property tells a block from a review, so Tier 1 answers one of the two. *)
EXTENDS JudgeCascade

AllowedOrReview == {a \in Tier1Results : a.verdict # "BLOCKED"}
=============================================================================
