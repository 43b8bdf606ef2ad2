-------------------------- MODULE MC_IslandInput --------------------------
(* Finite instances of IslandInput.                                        *)
EXTENDS IslandInput, TLC

Interchangeable == Permutations(Sinks) \cup Permutations(Nodes)
=============================================================================
