------------------------------- MODULE Panels -------------------------------
(* One panel and the leaves in it: Border, ContentPresenter, StackPanel,   *)
(* Canvas and ScrollViewer (layout/src).  A pass measures the panel, whose *)
(* MeasureOverride measures each child, and then arranges it; between      *)
(* passes children change and the view is scrolled.                        *)
EXTENDS Layout, Sequences, SequencesExt

CONSTANTS
    PanelKinds,     \* the panels a behaviour may be about
    ChildLists,     \* for each kind of panel, the sequences of children it may have
    Constraints,    \* what the panel is offered
    Finals,         \* the slots it is arranged in
    Offsets         \* what ScrollTo is called with

(* Sizes, margins and the rest are numbers, those of an element not less   *)
(* than 0; Width and Height may be unset.                                  *)
Thickness(t) == t.near \in Int /\ t.far \in Int
IsElement(e) ==
    /\ e.rounds \in BOOLEAN /\ e.collapsed \in BOOLEAN
    /\ \A a \in Axes : /\ e.size[a] \in Nat \cup {NaN} /\ e.min[a] \in Nat /\ e.max[a] \in Nat
                       /\ Thickness(e.margin[a])
ASSUME PanelAssumption ==
    /\ \A p \in PanelKinds :
          /\ IsElement(p)
          /\ \A a \in Axes : Thickness(p.border[a]) /\ Thickness(p.padding[a])
          /\ \A list \in ChildLists[p.kind] :
                /\ list \in Seq(ToSet(list))
                /\ \A i \in DOMAIN list : IsElement(list[i]) /\ list[i].natural \in [Axes -> Nat]
    /\ Constraints \subseteq [Axes -> Nat] /\ Offsets \subseteq [Axes -> Int]
    /\ \A f \in Finals : f.size \in [Axes -> Nat]

VARIABLES
    panel, kids,
    phase,          \* "dirty", "measured" or "arranged"
    offer,          \* what the last Measure was called with
    constraint,     \* the framework-available size of the last Measure
    asked,          \* what MeasureOverride asked for
    unclipped, desired,     \* of the children
    ownUnclipped, ownDesired,
    slots, ownSlot, \* what each was arranged in
    extent, viewport, offset    \* ScrollViewer

scroll == <<extent, viewport, offset>>
pvars == <<panel, kids, phase, offer, constraint, asked, unclipped, desired, ownUnclipped, ownDesired,
           slots, ownSlot, scroll>>

Visible(k) == ~k.collapsed
NoSlot == [pos |-> Zero, size |-> Zero]

PTypeOK ==
    /\ panel \in PanelKinds
    /\ phase \in {"dirty", "measuring", "measured", "arranged"}
    /\ \A a \in Axes : /\ asked[a] \in Nat /\ ownDesired[a] \in Nat /\ ownUnclipped[a] \in Nat
                       /\ offset[a] \in Nat /\ extent[a] \in Nat /\ viewport[a] \in Nat
    /\ Len(slots) = Len(kids) /\ Len(desired) = Len(kids) /\ Len(unclipped) = Len(kids)

PInit ==
    /\ panel \in PanelKinds
    /\ kids \in ChildLists[panel.kind]
    /\ phase = "dirty"
    /\ offer = Zero /\ constraint = Zero /\ asked = Zero /\ ownUnclipped = Zero /\ ownDesired = Zero
    /\ unclipped = [i \in DOMAIN kids |-> Zero] /\ desired = [i \in DOMAIN kids |-> Zero]
    /\ slots = [i \in DOMAIN kids |-> NoSlot] /\ ownSlot = NoSlot
    /\ extent = Zero /\ viewport = Zero /\ offset = Zero

-----------------------------------------------------------------------------
(* What MeasureOverride offers to every child.                             *)
Offered(p, available) ==
    [a \in Axes |->
       CASE p.kind = "canvas" -> Inf
         [] p.kind = "stack" -> IF a = p.along \/ available[a] = Inf THEN Inf ELSE available[a] - Chrome(p, a)
         [] p.kind = "scroll" /\ p.bars[a] # "disabled" -> Inf
         [] OTHER -> Less(available[a], Chrome(p, a))]

(* Which scroll bars take room: the forced ones, and an automatic one when *)
(* the content is larger than the client area.                             *)
BarVisible(p, ext, available, a) ==
    LET client == Less(available[a], Chrome(p, a))
    IN p.bars[a] = "visible" \/ (p.bars[a] = "auto" /\ client # Inf /\ ext[a] > client)

SizeOf(list, a) == SumFunction([i \in DOMAIN list |-> list[i][a]])
WidestOf(list, a) == Max({0} \cup {list[i][a] : i \in DOMAIN list})

Gaps_Three(p) ==                            \* mutant: two children have no gap between them
    LET shown == Len(SelectSeq(kids, Visible))
    IN IF shown > 2 THEN p.gap * (shown - 1) ELSE 0
Gaps(p) ==
    LET shown == Len(SelectSeq(kids, Visible))
    IN IF shown > 1 THEN p.gap * (shown - 1) ELSE 0

(* MeasureOverride, once every child has been measured to d.               *)
AskedScroll(p, d, available) ==
    LET ext == IF d = <<>> THEN Zero ELSE d[1]
        shown(a) == BarVisible(p, ext, available, a)
    IN [a \in Axes |-> AtMost(available[a],
          AtLeast(ext[a] + Chrome(p, a),
                  (IF shown(Other(a)) THEN 16 * Px ELSE 0) + (IF shown(a) THEN 32 * Px ELSE 0)))]
AskedStack(p, d) ==
    [a \in Axes |-> Chrome(p, a) + (IF a = p.along THEN SizeOf(d, a) + Gaps(p) ELSE WidestOf(d, a))]
Asked(p, d, available) ==
    CASE p.kind = "scroll" -> AskedScroll(p, d, available)
      [] p.kind = "stack"  -> AskedStack(p, d)
      [] p.kind = "canvas" -> Zero
      [] OTHER -> [a \in Axes |-> Chrome(p, a) + WidestOf(d, a)]

(* Element::Measure of the panel.                                          *)
Measured(available, d, answer) ==
    /\ phase' = "measured"
    /\ offer' = available
    /\ constraint' = FrameworkAvailable(panel, available)
    /\ asked' = answer
    /\ ownUnclipped' = Unclipped(panel, answer)
    /\ ownDesired' = Desired(panel, available, answer)
    /\ unclipped' = [i \in DOMAIN kids |-> d[i].unclipped]
    /\ desired' = [i \in DOMAIN kids |-> d[i].desired]

Measure(available) ==
    /\ phase # "measured"
    /\ LET given == FrameworkAvailable(panel, available)
           d == [i \in DOMAIN kids |-> MeasuredChild(kids[i], Offered(panel, given))]
           sizes == [i \in DOMAIN kids |-> d[i].desired]
       IN /\ Measured(available, d, Asked(panel, sizes, given))
          /\ extent' = IF kids = <<>> THEN Zero ELSE sizes[1]
    /\ UNCHANGED <<panel, kids, slots, ownSlot, viewport, offset>>

-----------------------------------------------------------------------------
(* ArrangeOverride: the slot of each child.                                *)
StackedAt_Spaced(p, d, i) ==                \* mutant: a collapsed child keeps its spacing
    SumFunction([j \in 1 .. (i - 1) |-> d[j][p.along] + p.gap])
StackedAt(p, d, i) ==
    SumFunction([j \in 1 .. (i - 1) |-> IF Visible(kids[j]) THEN d[j][p.along] + p.gap ELSE 0])

SlotInStack(p, d, i, inner) ==
    [pos  |-> [a \in Axes |-> inner.pos[a] + (IF a = p.along THEN StackedAt(p, d, i) ELSE 0)],
     size |-> [a \in Axes |-> IF a = p.along THEN d[i][a] ELSE AtLeast(inner.size[a], d[i][a])]]

SlotInPresenter(p, d, i, inner) ==
    LET size == [a \in Axes |-> IF p.content[a] = "stretch" THEN inner.size[a] ELSE d[i][a]]
    IN [pos |-> [a \in Axes |-> inner.pos[a] + AlignmentOffset(p.content[a], inner.size[a], size[a])],
        size |-> size]

(* ScrollTo keeps an offset the viewport can show.                         *)
ScrolledTo_Extent(to, view) ==              \* mutant: the viewport is forgotten
    [a \in Axes |-> AtLeast(0, AtMost(to[a], extent[a]))]
ScrolledTo(to, view) ==
    [a \in Axes |-> AtLeast(0, AtMost(to[a], AtLeast(0, extent[a] - view[a])))]

SlotOf(i, p, d, final) ==
    LET inner == Inner(p, final)
    IN CASE p.kind = "stack"     -> SlotInStack(p, d, i, inner)
         [] p.kind = "presenter" -> SlotInPresenter(p, d, i, inner)
         [] p.kind = "canvas"    -> [pos |-> kids[i].at, size |-> d[i]]
         [] p.kind = "scroll"    -> [pos  |-> [a \in Axes |-> -ScrolledTo(offset, inner.size)[a]],
                                     size |-> [a \in Axes |-> AtLeast(extent[a], inner.size[a])]]
         [] OTHER -> inner

ArrangePanel(slot) ==
    /\ phase = "measured"
    /\ phase' = "arranged"
    /\ ownSlot' = slot
    /\ LET final == RenderSize(panel, slot, ownUnclipped)
       IN /\ slots' = [i \in DOMAIN kids |-> SlotOf(i, panel, desired, final)]
          /\ viewport' = IF panel.kind = "scroll" THEN Inner(panel, final).size ELSE viewport
          /\ offset' = IF panel.kind = "scroll" THEN ScrolledTo(offset, Inner(panel, final).size) ELSE offset
    /\ UNCHANGED <<panel, kids, offer, constraint, asked, unclipped, desired, ownUnclipped, ownDesired, extent>>

ScrollTo(to) ==
    /\ panel.kind = "scroll"
    /\ offset' = ScrolledTo(to, viewport)
    /\ UNCHANGED <<panel, kids, phase, offer, constraint, asked, unclipped, desired, ownUnclipped, ownDesired,
                   slots, ownSlot, extent, viewport>>

(* The children are replaced by as many others.                            *)
Change(list) ==
    /\ phase = "arranged" /\ Len(list) = Len(kids) /\ list # kids
    /\ kids' = list
    /\ phase' = "dirty"
    /\ UNCHANGED <<panel, offer, constraint, asked, unclipped, desired, ownUnclipped, ownDesired,
                   slots, ownSlot, scroll>>

PNext ==
    \/ \E c \in Constraints : Measure(c)
    \/ \E f \in Finals : ArrangePanel(f)
    \/ \E o \in Offsets : ScrollTo(o)
    \/ \E l \in ChildLists[panel.kind] : Change(l)
PSpec == PInit /\ [][PNext]_pvars

-----------------------------------------------------------------------------
(* Properties.  Arranged in its own slot, each element was rendered so:    *)
Arranged == phase = "arranged"
Final == RenderSize(panel, ownSlot, ownUnclipped)

(* A panel that was offered and was then given what it asked for cuts none *)
(* of its visible children: each has a slot of its desired size, inside    *)
(* the panel.                                                              *)
Satisfied(a) == asked[a] <= constraint[a] /\ asked[a] <= Final[a]
ChildrenFit ==
    Arranged /\ panel.kind \in {"border", "presenter", "stack"} =>
        \A i \in DOMAIN kids, a \in Axes : Visible(kids[i]) /\ Satisfied(a) =>
            /\ slots[i].size[a] >= desired[i][a]
            /\ slots[i].pos[a] >= 0
            /\ slots[i].pos[a] + slots[i].size[a] <= Final[a]

(* An element asks for no more than it was offered, is not rendered        *)
(* smaller than what its MeasureOverride asked for, and, where its slot    *)
(* has the size it desired and neither its constraint nor its maximum cut  *)
(* it, is rendered inside the slot with its margins around it: to within   *)
(* the pixel that rounding may move it by.                                 *)
Uncut(e, un, d, a) == un[a] + MarginOf(e, a) = d[a]
Slack(e) == IF e.rounds THEN Px ELSE 0
Inside(e, un, d, slot) ==
    LET rendered == RenderSize(e, slot, un)
        at == RenderOrigin(e, slot, rendered)
    IN \A a \in Axes : Visible(e) =>
        /\ rendered[a] >= un[a] - Slack(e)
        /\ Uncut(e, un, d, a) /\ d[a] <= slot.size[a] =>
             /\ at[a] - e.margin[a].near >= slot.pos[a] - Slack(e)
             /\ at[a] + rendered[a] + e.margin[a].far <= slot.pos[a] + slot.size[a] + Slack(e)
RenderedInside ==
    Arranged => /\ \A a \in Axes : ownDesired[a] <= offer[a] + Slack(panel)
                /\ Inside(panel, ownUnclipped, ownDesired, ownSlot)
                /\ \A i \in DOMAIN kids : Inside(kids[i], unclipped[i], desired[i], slots[i])

(* The types and both of these.                                            *)
ContentsKept == PTypeOK /\ ChildrenFit /\ RenderedInside

(* The offset is one the viewport can show, however the extent and the     *)
(* viewport changed since it was set, and the content covers the viewport. *)
OffsetInRange ==
    Arranged /\ panel.kind = "scroll" => \A a \in Axes :
        /\ offset[a] <= AtLeast(0, extent[a] - viewport[a])
        /\ kids # <<>> => slots[1].pos[a] + slots[1].size[a] >= viewport[a]
=============================================================================
