------------------------ MODULE MCForwardExperiment ------------------------
(* Small instances of ForwardExperiment for TLC. *)
EXTENDS ForwardExperiment, TLC

Symmetry == Permutations(Assets) \cup Permutations(Configs)
=============================================================================
