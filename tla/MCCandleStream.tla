--------------------------- MODULE MCCandleStream ---------------------------
(* Small instances of CandleStream for TLC; the assets are interchangeable. *)
EXTENDS CandleStream, TLC

Symmetry == Permutations(Assets)
=============================================================================
