----------------------------- MODULE MC_Layout -----------------------------
(* Finite instances of the panels and of the grid, of a text block and of  *)
(* an items control.  A behaviour is about one of them; the others take no *)
(* step.                                                                   *)
EXTENDS GridLayout, TextBlock, ItemsControl

VARIABLE machine

Pair(x, y) == [u |-> x, v |-> y]
Th(n, f) == [near |-> n, far |-> f]
NoThickness == [a \in Axes |-> Th(0, 0)]

Plain == [rounds |-> TRUE, size |-> Pair(NaN, NaN), min |-> Zero, max |-> Unbounded,
          margin |-> NoThickness, align |-> Pair("stretch", "stretch"), collapsed |-> FALSE]
Kid == Plain @@ [natural |-> Pair(8 * Px, 4 * Px), asks |-> "natural", at |-> Pair(2, -3), cell |-> Pair([at |-> 0, span |-> 1], [at |-> 0, span |-> 1])]
Text == [Kid EXCEPT !.asks = "u", !.align = Pair("near", "center"), !.margin = Pair(Th(2, 2), Th(1, 3))]
Hidden == [Kid EXCEPT !.collapsed = TRUE]
Fixed == [Kid EXCEPT !.size = Pair(5 * Px + 2, NaN), !.max = Pair(Inf, 3 * Px),
                     !.align = Pair("far", "center"), !.margin = Pair(Th(4, 1), Th(0, 3))]
Loose == [Kid EXCEPT !.rounds = FALSE, !.natural = Pair(3 * Px + 2, 2 * Px), !.min = Pair(0, 3 * Px),
                     !.align = Pair("center", "far"), !.margin = Pair(Th(1, 2), Th(2, 1))]

KidSet == {Kid, Text, Hidden, Fixed, Loose}
Single == {<<>>} \cup {<<k>> : k \in KidSet}
Several == UNION {[1 .. n -> KidSet] : n \in 0 .. 2} \cup {<<Kid, Hidden, Fixed>>}

In(k, column, columns, row, rows) ==
    [k EXCEPT !.cell = Pair([at |-> column, span |-> columns], [at |-> row, span |-> rows])]
Tall == [Kid EXCEPT !.asks = "square", !.natural = Pair(8 * Px, 6 * Px)]
Wide == [Kid EXCEPT !.natural = Pair(25 * Px, 5 * Px)]
InGrid ==
    {<<>>, <<In(Fixed, 1, 1, 9, 9), In(Loose, 0, 1, 0, 1)>>,
     <<In(Kid, 0, 1, 0, 1), In(Text, 1, 1, 0, 1), In(Wide, 0, 3, 1, 1)>>,
     <<In(Text, 2, 1, 0, 2), In(Wide, 0, 2, 1, 1), In(Loose, 1, 2, 0, 1)>>,
     <<In(Hidden, 0, 2, 0, 1), In(Text, 0, 1, 1, 1), In(Kid, 1, 1, 0, 1)>>,
     <<In(Kid, 0, 1, 1, 1), In(Text, 1, 1, 0, 1), In(Text, 2, 1, 1, 1)>>,
     <<In(Tall, 0, 1, 1, 1), In([Text EXCEPT !.natural = Pair(14 * Px, 8 * Px)], 1, 1, 0, 1)>>}
Lists == [k \in {"border", "presenter", "scroll"} |-> Single] @@ [k \in {"stack", "canvas"} |-> Several]
         @@ [grid |-> InGrid]

Panel(k) == Plain @@ [kind |-> k, border |-> Pair(Th(2, 3), Th(1, 0)), padding |-> Pair(Th(3, 1), Th(0, 4)),
                      along |-> "v", gap |-> 8, content |-> Pair("center", "far"), bars |-> Pair("auto", "visible")]
Others ==
    {Panel(k) : k \in {"border", "presenter", "stack", "canvas"}}
    \cup {[Panel("stack") EXCEPT !.along = "u", !.rounds = FALSE, !.margin = Pair(Th(2, 2), Th(3, 3))]}
    \cup {[Panel("scroll") EXCEPT !.border = NoThickness, !.bars = b] :
             b \in {Pair("disabled", "visible"), Pair("auto", "auto")}}
Given == {Unbounded, Pair(20 * Px, 20 * Px), Pair(6 * Px, 12 * Px)}
Places == {[pos |-> Pair(Px, 0), size |-> s] : s \in {Pair(20 * Px, 20 * Px), Pair(6 * Px, 12 * Px), Pair(3 * Px, 2 * Px)}}
ScrolledBy == {Pair(0, 0), Pair(3 * Px, 2 * Px), Pair(40 * Px, 40 * Px)}

Auto1 == [type |-> "auto", value |-> 0, low |-> 0, high |-> Inf]
Narrow == [Auto1 EXCEPT !.low = 2 * Px, !.high = 7 * Px]
Pixels(n) == [type |-> "pixel", value |-> n * Px + 2, low |-> 0, high |-> 6 * Px]
Star(n, high) == [type |-> "star", value |-> n, low |-> 0, high |-> high]
Columns == {<<>>, <<Auto1, Star(1, Inf), Star(2, 9 * Px)>>, <<Pixels(5), Narrow, Star(1, Inf)>>,
            <<Star(0, Inf), Star(1, Inf), Auto1>>, <<Pixels(4), Pixels(8), Narrow>>}
Rows == {<<>>, <<Auto1, Star(1, Inf)>>, <<Pixels(3), Narrow>>}
GridPanels ==
    {[defs |-> Pair(c, r)] @@ [Panel("grid") EXCEPT !.rounds = rounds, !.padding = inset] :
        c \in Columns, r \in Rows, rounds \in BOOLEAN, inset \in {NoThickness, Pair(Th(3, 1), Th(0, 4))}}
Kinds == Others \cup GridPanels

Letters == {[advance |-> 4, space |-> FALSE], [advance |-> 13, space |-> FALSE]}
Glyphs == Letters \cup {[advance |-> 3, space |-> TRUE]}
Texts == UNION {[1 .. n -> Glyphs] : n \in 0 .. 5}
Paragraph(t) == [glyphs |-> t, wraps |-> TRUE] @@ Plain
Indented(t) == [Paragraph(t) EXCEPT !.rounds = FALSE, !.max = Pair(15, Inf), !.align = Pair("center", "far"),
                                    !.margin = [a \in Axes |-> Th(2, 1)]]
Sized(t) == [Paragraph(t) EXCEPT !.wraps = FALSE, !.size = Pair(20, NaN)]
Paragraphs == UNION {{Paragraph(t), Indented(t), Sized(t)} : t \in Texts}
TextGiven == Given \cup {Pair(20, 20), Pair(6, 60)}
TextPlaces == {[pos |-> Zero, size |-> s] : s \in {Pair(60, 60), Pair(20, 20), Pair(6, 6)}}

Machines == {"panel", "text", "items"}
MCVars == <<gvars, textVars, itemVars, machine>>
MCInit ==
    /\ machine \in Machines
    /\ machine # "panel" => panel = Panel("border") /\ kids = <<>>
    /\ machine # "text" => block = Paragraph(<<>>)
    /\ machine # "items" => itemExtent = 2
    /\ GInit /\ TextInit /\ ItemsInit
MCNext ==
    /\ UNCHANGED machine
    /\ \/ machine = "panel" /\ GNext /\ UNCHANGED <<textVars, itemVars>>
       \/ machine = "text" /\ TextNext /\ UNCHANGED <<gvars, itemVars>>
       \/ machine = "items" /\ ItemsNext /\ UNCHANGED <<gvars, textVars>>
MCSpec == MCInit /\ [][MCNext]_MCVars
=============================================================================
