--------------------------- MODULE MCShadowBook ---------------------------
EXTENDS ShadowBook

CONSTANTS a1, a2, b1, b2, b3

\* One book per asset of each kind, and one that trades every asset.
MCAssetOf == [n \in Books |-> CASE n = b1 -> a1 [] n = b2 -> None [] OTHER -> a2]
MCKindOf  == [n \in Books |-> CASE n = b1 -> "hold" [] n = b2 -> "model" [] OTHER -> "baseline"]
=============================================================================
