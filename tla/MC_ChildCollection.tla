------------------------- MODULE MC_ChildCollection -------------------------
(* Finite instances of ChildCollection.                                    *)
EXTENDS ChildCollection, TLC

Interchangeable == Permutations(Panels \ Hosted) \cup Permutations(Elements \ Panels)
=============================================================================
