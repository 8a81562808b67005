----------------------------- MODULE MCPauseReview -----------------------------
(* Instances of PauseReview for TLC: reviewers are interchangeable. *)
EXTENDS PauseReview, TLC

Symmetry == Permutations(Reviewers)
===============================================================================
