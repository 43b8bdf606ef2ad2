--------------------------- MODULE MC_XamlIsland ---------------------------
(* Finite instances of XamlIsland.                                         *)
EXTENDS XamlIsland, TLC

Interchangeable ==
    Permutations(Roots) \cup Permutations(Renderers) \cup Permutations(Sizes)
=============================================================================
