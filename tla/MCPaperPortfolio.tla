-------------------------- MODULE MCPaperPortfolio --------------------------
(* Small instances of PaperPortfolio for TLC. *)
EXTENDS PaperPortfolio, TLC

Symmetry == Permutations(Assets)
=============================================================================
