------------------------------- MODULE MCGoal -------------------------------
(***************************************************************************)
(* GoalFeature for TLC: objectives are interchangeable.                    *)
(***************************************************************************)
EXTENDS GoalFeature, TLC

Symmetry == Permutations(Objective)

=============================================================================
