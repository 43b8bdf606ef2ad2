------------------------------- MODULE Layout -------------------------------
(* The layout of one element (layout/src/element.cpp, layout.h): what      *)
(* Element::Measure and Element::Arrange make of the constraint they are   *)
(* given and of what MeasureOverride asks for.  Lengths are integers, Px   *)
(* of them to a pixel, so that halves and thirds of a pixel exist; the two *)
(* axes are treated alike, as functions over Axes.                         *)
EXTENDS Integers, FiniteSetsExt

CONSTANTS
    Px,             \* units per pixel; even
    Inf,            \* kInfinity, a whole number of pixels above every sum
    NaN             \* the NaN that Width and Height have when they are not set

ASSUME LayoutAssumption == Px \in Nat \ {0} /\ Px % 2 = 0 /\ Inf \in Nat /\ Inf % Px = 0 /\ NaN \notin Int

Axes == {"u", "v"}                      \* horizontal and vertical
Zero == [a \in Axes |-> 0]
Unbounded == [a \in Axes |-> Inf]

AtMost(x, y) == Min({x, y})
AtLeast(x, y) == Max({x, y})
Less(x, y) == IF x = Inf THEN Inf ELSE AtLeast(0, x - y)

(* Rounding to whole pixels, halves up, where UseLayoutRounding says so.   *)
RoundLayoutValue_Down(rounds, x) == IF rounds THEN (x \div Px) * Px ELSE x     \* mutant
RoundLayoutValue(rounds, x) == IF rounds THEN ((x + Px \div 2) \div Px) * Px ELSE x

Both(thickness, a) == thickness[a].near + thickness[a].far
MarginOf(e, a) == RoundLayoutValue(e.rounds, Both(e.margin, a))

(* MinMax: an explicit size holds between the minimum and the maximum, and *)
(* the minimum wins over the maximum.                                      *)
MaxSize(e, a) == AtLeast(AtMost(IF e.size[a] = NaN THEN Inf ELSE e.size[a], e.max[a]), e.min[a])
MinSize(e, a) == AtLeast(AtMost(MaxSize(e, a), IF e.size[a] = NaN THEN 0 ELSE e.size[a]), e.min[a])
Largest(e, a) == RoundLayoutValue(e.rounds, MaxSize(e, a))
Smallest(e, a) == RoundLayoutValue(e.rounds, MinSize(e, a))

(* Measure: what is passed to MeasureOverride, and what becomes of its     *)
(* answer, asked.                                                          *)
FrameworkAvailable(e, available) ==
    [a \in Axes |-> RoundLayoutValue(e.rounds,
        AtLeast(Smallest(e, a), AtMost(Less(available[a], MarginOf(e, a)), Largest(e, a))))]

Unclipped(e, asked) ==
    IF e.collapsed THEN Zero ELSE [a \in Axes |-> AtLeast(asked[a], Smallest(e, a))]

Desired_Unclipped(e, available, asked) ==       \* mutant: the margin is not clipped
    IF e.collapsed THEN Zero
    ELSE [a \in Axes |-> AtLeast(0, RoundLayoutValue(e.rounds,
             AtMost(AtMost(Unclipped(e, asked)[a], Largest(e, a)), available[a]) + MarginOf(e, a)))]
Desired(e, available, asked) ==
    IF e.collapsed THEN Zero
    ELSE [a \in Axes |-> AtLeast(0, RoundLayoutValue(e.rounds,
             AtMost(AtMost(Unclipped(e, asked)[a], Largest(e, a)) + MarginOf(e, a), available[a])))]

(* Arrange in a slot, a record of its position and size.                   *)
AlignmentOffset(align, client, ink) ==
    CASE align = "near" \/ (align = "stretch" /\ ink > client) -> 0
      [] align = "far" -> client - ink
      [] OTHER -> (client - ink) \div 2

ArrangeSize_Offered(e, slot, unclipped) ==      \* mutant: as large as the slot only
    [a \in Axes |-> LET offered == AtLeast(0, slot.size[a] - MarginOf(e, a))
                    IN RoundLayoutValue(e.rounds, AtMost(offered, Largest(e, a)))]
ArrangeSize(e, slot, unclipped) ==
    [a \in Axes |->
       LET offered == AtLeast(AtLeast(0, slot.size[a] - MarginOf(e, a)), unclipped[a])
           wanted == IF e.align[a] = "stretch" THEN offered ELSE unclipped[a]
       IN RoundLayoutValue(e.rounds, AtMost(wanted, AtLeast(unclipped[a], Largest(e, a))))]

RenderSize(e, slot, unclipped) ==
    IF e.collapsed THEN Zero ELSE ArrangeSize(e, slot, unclipped)

RenderOrigin(e, slot, rendered) ==
    IF e.collapsed THEN slot.pos
    ELSE [a \in Axes |->
            LET client == RoundLayoutValue(e.rounds, AtLeast(0, slot.size[a] - MarginOf(e, a)))
            IN RoundLayoutValue(e.rounds,
                 slot.pos[a] + e.margin[a].near + AlignmentOffset(e.align[a], client, rendered[a]))]

(* What a child's own MeasureOverride answers: its natural size; or, when  *)
(* it wraps along an axis and is not offered its natural size there, twice *)
(* as much across it; or a square as high as the height it is offered.     *)
Other(a) == IF a = "u" THEN "v" ELSE "u"
LeafAsked(k, available) ==
    [a \in Axes |->
       CASE k.asks \in Axes /\ available[k.asks] < k.natural[k.asks]
              -> IF a = k.asks THEN available[a] ELSE 2 * k.natural[a]
         [] k.asks = "square" /\ available["v"] # Inf -> available["v"]
         [] OTHER -> k.natural[a]]
MeasuredChild(k, available) ==
    LET answer == LeafAsked(k, FrameworkAvailable(k, available))
    IN [unclipped |-> Unclipped(k, answer), desired |-> Desired(k, available, answer)]

(* Border thickness and padding.  The chrome of a panel has its border     *)
(* rounded, that of Border and ContentPresenter has not.                   *)
Side(p, a, s) ==
    RoundLayoutValue(p.kind \in {"stack", "grid"} /\ p.rounds, p.border[a][s]) + p.padding[a][s]
Chrome(p, a) == Side(p, a, "near") + Side(p, a, "far")
Inner(p, final) ==
    [pos |-> [a \in Axes |-> Side(p, a, "near")],
     size |-> [a \in Axes |-> AtLeast(0,
                 RoundLayoutValue(p.kind \in {"stack", "grid"} /\ p.rounds, final[a]) - Chrome(p, a))]]
=============================================================================
