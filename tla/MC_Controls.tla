---------------------------- MODULE MC_Controls -----------------------------
(* Six small machines of the UI thread on finite instances: a binding of   *)
(* the text of object 1, the visual states of object 2, a dispatcher       *)
(* timer, the native menus, the range of a scroll bar and the journal of a *)
(* frame.  A behaviour is about one of them; the others take no step.      *)
EXTENDS Binding, VisualState, DispatcherQueueTimer, PopupMenus, RangeBase, FrameJournal

VARIABLE machine

ThreeSlots == <<"animated", "local", "style">>
Text == <<1, "text", "local">>
Fill == <<2, "fill", "animated">>
Edge == <<2, "edge", "animated">>
Glow == <<2, "glow", "animated">>
ClientCells == {Text, <<1, "text", "animated">>, Fill, Edge, <<2, "edge", "local">>, Glow}

OnText == [at |-> 1, of |-> "whole", id |-> 1]
Observers == {OnText}
Expressions == {OnText}

Line(c, v) == [cell |-> c, to |-> v]
Over    == [group |-> "common", setters |-> <<Line(Fill, 1)>>, timelines |-> <<Line(Edge, 1)>>]
Pressed == [group |-> "common", setters |-> <<Line(Fill, 0)>>, timelines |-> <<>>]
Focused == [group |-> "focus", setters |-> <<Line(Glow, 1)>>, timelines |-> <<>>]
Plain   == [group |-> "focus", setters |-> <<>>, timelines |-> <<>>]
TemplateStates == {Over, Pressed, Focused, Plain}

TwoLists == {<<"a", "b">>, <<"b">>}

Machines == {"binding", "visual", "timer", "menus", "range", "frame"}
MCVars == <<bvars, visualVars, timerVars, popupVars, rangeVars, frameVars, machine>>
MCInit ==
    /\ machine \in Machines
    /\ Init /\ BInit /\ VInit /\ TimerInit /\ PopupInit /\ RangeInit /\ FrameInit
    /\ machine # "binding" => source = Default
MCNext ==
    /\ UNCHANGED machine
    /\ machine \in {"binding", "visual"} \/ UNCHANGED <<vars, bindingVars, visualVars>>
    /\ machine = "timer" \/ UNCHANGED timerVars
    /\ machine = "menus" \/ UNCHANGED popupVars
    /\ machine = "range" \/ UNCHANGED rangeVars
    /\ machine = "frame" \/ UNCHANGED frameVars
    /\ \/ machine = "binding" /\ BNext /\ UNCHANGED visualVars
       \/ machine = "visual" /\ VNext /\ UNCHANGED bindingVars
       \/ machine = "timer" /\ TimerNext
       \/ machine = "menus" /\ PopupNext
       \/ machine = "range" /\ RangeNext
       \/ machine = "frame" /\ FrameNext
MCSpec == MCInit /\ [][MCNext]_MCVars
=============================================================================
