--------------------------- MODULE MCPaperReport ---------------------------
(* Small instances of PaperPortfolio and the reports on it. *)
EXTENDS PaperReport

Symmetry == Permutations(Assets)
=============================================================================
