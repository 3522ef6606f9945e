--------------------------- MODULE MCThreadTurns ---------------------------
(* Model-checking instances of ThreadTurns: symmetry of the safety runs. *)
EXTENDS InputOwnership, TLC

Symmetry == Permutations(Turn) \cup Permutations(Input)

=============================================================================
