-------------------------- MODULE MC_LayoutEvents --------------------------
(* Finite instances of LayoutEvents: a parent with one child.              *)
EXTENDS LayoutEvents

Family == <<"child", "top">>
FamilyParent == [child |-> "top", top |-> None]
FamilyHandlers ==
    [child |-> [SizeChanged |-> {"a"}, LayoutUpdated |-> {"a"}],
     top   |-> [SizeChanged |-> {"a", "b"}, LayoutUpdated |-> {"a"}]]
=============================================================================
