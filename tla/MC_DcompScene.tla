---------------------------- MODULE MC_DcompScene ----------------------------
(* Finite instances of DcompScene: a root with a panel and a drawing.      *)
EXTENDS DcompScene

Tree2 == {"root", "panel", "drawing"}
Form(shape, children, visible) == [shape |-> shape, children |-> children, visible |-> visible]
NodeForms == [root |-> {Form(<<"draw">>, <<"panel">>, TRUE), Form(<<>>, <<"panel", "drawing">>, TRUE),
                        Form(<<>>, <<"drawing", "panel">>, TRUE)},
              panel |-> {Form(<<"source">>, <<>>, TRUE), Form(<<"source">>, <<>>, FALSE),
                         Form(<<"draw", "source", "draw", "draw">>, <<>>, TRUE)},
              drawing |-> {Form(<<"draw">>, <<>>, TRUE)}]
Symmetry == Permutations(Resources) \cup Permutations(Addresses) \cup Permutations(Threads)
=============================================================================
