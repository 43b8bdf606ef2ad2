------------------------ MODULE MC_CoreDispatcher ------------------------
(* Finite instances of CoreDispatcher.                                     *)
EXTENDS CoreDispatcher, TLC

Interchangeable == Permutations(Clients)
=============================================================================
