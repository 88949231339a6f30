--------------------------- MODULE MCGraphReclaim ---------------------------
(* Instances of GraphReclaim for the model checker. *)
EXTENDS GraphReclaim, TLC

GraphSymmetry == Permutations(Graphs)
=============================================================================
