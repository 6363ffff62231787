-------------------------- MODULE MCReviewPipeline --------------------------
(* Instances of ReviewPipeline for TLC. *)
EXTENDS ReviewPipeline, TLC

CONSTANTS c1, c2, r1, r2

MCSymmetry == Permutations(Runner)
MCCommits == Permutations(Commit)
=============================================================================
