--------------------------- MODULE MCAgentReview ---------------------------
(* The instances of AgentReview that TLC checks: two cases, two reviewers, and *)
(* two edits or none.                                                          *)
EXTENDS AgentReview

CONSTANTS c1, c2, r1, r2, e1, e2   \* model values

=============================================================================
