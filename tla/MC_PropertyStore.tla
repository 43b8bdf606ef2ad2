-------------------------- MODULE MC_PropertyStore --------------------------
(* Finite instances of PropertyStore: a root, an element below it and one  *)
(* below that.  "font" is inherited; "width" is not.                       *)
EXTENDS PropertyStore

ThreeSlots == <<"animated", "local", "style">>
TreeCells == {<<1, "font", "local">>, <<2, "font", "animated">>, <<2, "font", "style">>,
              <<2, "width", "style">>}
Observers == {[at |-> 2, of |-> "width", id |-> 1], [at |-> 2, of |-> "width", id |-> 2]}
=============================================================================
