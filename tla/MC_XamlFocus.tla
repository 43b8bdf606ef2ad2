---------------------------- MODULE MC_XamlFocus ----------------------------
(* Finite instances of XamlFocusScope: its logical focus, or its pointer.  *)
(* A behaviour is about one of the two; the other takes no step.           *)
EXTENDS XamlPointer, TLC

CONSTANT Parts
VARIABLE part

MCInit == Init /\ PointerInit /\ part \in Parts
MCNext ==
    /\ UNCHANGED part
    /\ \/ part = "focus" /\ Next /\ UNCHANGED pointerVars
       \/ part = "pointer" /\ PointerNext
MCSpec == MCInit /\ [][MCNext]_<<pvars, part>>

Interchangeable == Permutations(Targets) \cup Permutations(Roots)
=============================================================================
