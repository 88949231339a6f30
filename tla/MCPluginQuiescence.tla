------------------------- MODULE MCPluginQuiescence -------------------------
(* Instances of PluginQuiescence for the model checker. *)
EXTENDS PluginQuiescence

Interchangeable == Permutations(Plugins) \cup Permutations(Shadows)
=============================================================================
