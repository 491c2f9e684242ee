-------------------------- MODULE MCSubmissionPipeline --------------------------
(* Small instances of the submission pipeline: every decision proposes two    *)
(* dollars of a three-dollar month, so that each fits and the two together    *)
(* do not, and a two-dollar order can fill in part.                           *)
EXTENDS SubmissionSafety, TLC

MCAmount == [d \in Decisions |-> 2]
DecisionSymmetry == Permutations(Decisions)
DecisionAndShellSymmetry == Permutations(Decisions) \union Permutations(Shells)
================================================================================
