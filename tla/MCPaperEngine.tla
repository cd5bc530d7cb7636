--------------------------- MODULE MCPaperEngine ---------------------------
(* Small instances of PaperEngine.  Assets are interchangeable: nothing in  *)
(* the specification tells one from another.                                *)
EXTENDS PaperEngine, TLC

Symmetry == Permutations(Assets)
=============================================================================
