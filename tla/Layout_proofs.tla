--------------------------- MODULE Layout_proofs ----------------------------
(***************************************************************************)
(* Three parts of layout.  The offset of a ScrollViewer stays in range,    *)
(* for panels and children of any sizes; an ItemsControl has containers    *)
(* for what is in view, for any counts, extents and factories that scroll; *)
(* and the events of a pass, for any tree and handlers: sizes are told,    *)
(* parents first, and every subscriber hears of the pass.                  *)
(***************************************************************************)
EXTENDS GridLayout, ItemsControl, LayoutEvents, SequenceTheorems, WellFoundedInduction, TLAPS

-----------------------------------------------------------------------------
(* Of numbers there is a least.                                            *)
LEMMA First ==
  ASSUME NEW S, S \subseteq Nat, S # {}
  PROVE  \E x \in S : \A y \in S : x <= y
<1>1. PICK x \in S : \A y \in S : ~(<<y, x>> \in OpToRel(<, Nat))
  BY NatLessThanWellFounded, WFMin
<1>2. \A y \in S : ~(y < x)
  BY <1>1 DEF OpToRel
<1> QED
  BY <1>2

-----------------------------------------------------------------------------
(* Lengths.                                                                *)
LEMMA Bounds ==
  ASSUME NEW x \in Int, NEW y \in Int
  PROVE  /\ AtMost(x, y) = (IF x <= y THEN x ELSE y)
         /\ AtLeast(x, y) = (IF x >= y THEN x ELSE y)
<1>1. Min({x, y}) \in {x, y} /\ \A z \in {x, y} : Min({x, y}) =< z
  <2>1. \E m \in {x, y} : \A z \in {x, y} : m =< z
    OBVIOUS
  <2> QED
    BY <2>1 DEF Min
<1>2. Max({x, y}) \in {x, y} /\ \A z \in {x, y} : Max({x, y}) >= z
  <2>1. \E m \in {x, y} : \A z \in {x, y} : m >= z
    OBVIOUS
  <2> QED
    BY <2>1 DEF Max
<1> QED
  BY <1>1, <1>2 DEF AtMost, AtLeast

LEMMA RoundedIsInt ==
  ASSUME NEW rounds \in BOOLEAN, NEW x \in Int
  PROVE  RoundLayoutValue(rounds, x) \in Int
BY LayoutAssumption DEF RoundLayoutValue

LEMMA LessIsInt ==
  ASSUME NEW x \in Int, NEW y \in Int
  PROVE  Less(x, y) \in Int
BY LayoutAssumption, Bounds DEF Less

LEMMA ElementIsInt ==
  ASSUME NEW e, IsElement(e), NEW a \in Axes
  PROVE  MarginOf(e, a) \in Int /\ Largest(e, a) \in Int /\ Smallest(e, a) \in Int
<1>1. /\ e.rounds \in BOOLEAN /\ e.min[a] \in Int /\ e.max[a] \in Int
      /\ e.size[a] # NaN => e.size[a] \in Int
      /\ e.margin[a].near \in Int /\ e.margin[a].far \in Int
  BY DEF IsElement, Thickness
<1>2. MaxSize(e, a) \in Int
  <2>1. (IF e.size[a] = NaN THEN Inf ELSE e.size[a]) \in Int
    BY <1>1, LayoutAssumption
  <2> QED
    BY <1>1, <2>1, Bounds DEF MaxSize
<1>3. MinSize(e, a) \in Int
  <2>1. (IF e.size[a] = NaN THEN 0 ELSE e.size[a]) \in Int
    BY <1>1
  <2> QED
    BY <1>1, <1>2, <2>1, Bounds DEF MinSize
<1> QED
  BY <1>1, <1>2, <1>3, RoundedIsInt DEF MarginOf, Both, Largest, Smallest

LEMMA AvailableIsInt ==
  ASSUME NEW e, IsElement(e), NEW available \in [Axes -> Int]
  PROVE  FrameworkAvailable(e, available) \in [Axes -> Int]
<1> SUFFICES ASSUME NEW a \in Axes
             PROVE  RoundLayoutValue(e.rounds,
                      AtLeast(Smallest(e, a), AtMost(Less(available[a], MarginOf(e, a)), Largest(e, a)))) \in Int
  BY DEF FrameworkAvailable
<1>1. Less(available[a], MarginOf(e, a)) \in Int
  BY ElementIsInt, LessIsInt
<1>2. AtMost(Less(available[a], MarginOf(e, a)), Largest(e, a)) \in Int
  BY <1>1, ElementIsInt, Bounds
<1>3. AtLeast(Smallest(e, a), AtMost(Less(available[a], MarginOf(e, a)), Largest(e, a))) \in Int
  BY <1>2, ElementIsInt, Bounds
<1> QED
  BY <1>3, RoundedIsInt DEF IsElement

LEMMA AskedForIsInt ==
  ASSUME NEW e, IsElement(e), NEW available \in [Axes -> Int], NEW answer \in [Axes -> Int]
  PROVE  Unclipped(e, answer) \in [Axes -> Int] /\ Desired(e, available, answer) \in [Axes -> Nat]
<1>1. Unclipped(e, answer) \in [Axes -> Int]
  BY ElementIsInt, Bounds DEF Unclipped, Zero
<1>2. CASE e.collapsed
  BY <1>1, <1>2 DEF Desired, Zero
<1>3. CASE ~e.collapsed
  <2> SUFFICES ASSUME NEW a \in Axes
               PROVE  AtLeast(0, RoundLayoutValue(e.rounds,
                        AtMost(AtMost(Unclipped(e, answer)[a], Largest(e, a)) + MarginOf(e, a), available[a]))) \in Nat
    BY <1>1, <1>3 DEF Desired
  <2>1. AtMost(Unclipped(e, answer)[a], Largest(e, a)) \in Int
    BY <1>1, ElementIsInt, Bounds
  <2>2. AtMost(AtMost(Unclipped(e, answer)[a], Largest(e, a)) + MarginOf(e, a), available[a]) \in Int
    BY <2>1, ElementIsInt, Bounds
  <2> QED
    BY <2>2, RoundedIsInt, Bounds DEF IsElement
<1> QED
  BY <1>2, <1>3

LEMMA RenderIsInt ==
  ASSUME NEW e, IsElement(e), NEW slot, slot.size \in [Axes -> Int], NEW un \in [Axes -> Int]
  PROVE  RenderSize(e, slot, un) \in [Axes -> Int]
<1>1. CASE e.collapsed
  BY <1>1 DEF RenderSize, Zero
<1>2. CASE ~e.collapsed
  <2> SUFFICES ASSUME NEW a \in Axes
               PROVE  ArrangeSize(e, slot, un)[a] \in Int
    BY <1>2 DEF RenderSize, ArrangeSize
  <2> DEFINE offered == AtLeast(AtLeast(0, slot.size[a] - MarginOf(e, a)), un[a])
             wanted == IF e.align[a] = "stretch" THEN offered ELSE un[a]
  <2>1. offered \in Int
    <3>1. AtLeast(0, slot.size[a] - MarginOf(e, a)) \in Int
      BY ElementIsInt, Bounds
    <3> QED
      BY <3>1, Bounds
  <2>2. wanted \in Int
    BY <2>1
  <2>3. AtMost(wanted, AtLeast(un[a], Largest(e, a))) \in Int
    <3> HIDE DEF wanted
    <3> QED
      BY <2>2, ElementIsInt, Bounds
  <2> QED
    BY <2>3, RoundedIsInt DEF ArrangeSize, IsElement
<1> QED
  BY <1>1, <1>2

LEMMA ChromeIsInt ==
  ASSUME NEW p \in PanelKinds, NEW a \in Axes
  PROVE  Chrome(p, a) \in Int
<1>1. /\ p.rounds \in BOOLEAN
      /\ p.border[a].near \in Int /\ p.border[a].far \in Int
      /\ p.padding[a].near \in Int /\ p.padding[a].far \in Int
  BY PanelAssumption DEF IsElement, Thickness
<1>2. (p.kind \in {"stack", "grid"} /\ p.rounds) \in BOOLEAN
  OBVIOUS
<1>3. /\ RoundLayoutValue(p.kind \in {"stack", "grid"} /\ p.rounds, p.border[a].near) \in Int
      /\ RoundLayoutValue(p.kind \in {"stack", "grid"} /\ p.rounds, p.border[a].far) \in Int
  BY <1>1, <1>2, RoundedIsInt
<1> QED
  BY <1>1, <1>3 DEF Chrome, Side

LEMMA ChildIsNat ==
  ASSUME NEW k, IsElement(k), k.natural \in [Axes -> Nat], NEW available \in [Axes -> Int]
  PROVE  MeasuredChild(k, available).desired \in [Axes -> Nat]
<1>1. FrameworkAvailable(k, available) \in [Axes -> Int]
  BY AvailableIsInt
<1>2. LeafAsked(k, FrameworkAvailable(k, available)) \in [Axes -> Int]
  <2> DEFINE w == FrameworkAvailable(k, available)
  <2> HIDE DEF w
  <2> QED
    BY <1>1 DEF LeafAsked, Axes, w
<1> QED
  BY <1>2, AskedForIsInt DEF MeasuredChild

LEMMA ChildList ==
  ASSUME NEW p \in PanelKinds, NEW list \in ChildLists[p.kind], list # <<>>
  PROVE  1 \in DOMAIN list /\ IsElement(list[1]) /\ list[1].natural \in [Axes -> Nat]
<1>1. /\ list \in Seq(ToSet(list))
      /\ \A i \in DOMAIN list : IsElement(list[i]) /\ list[i].natural \in [Axes -> Nat]
  BY PanelAssumption
<1>2. 1 \in DOMAIN list
  BY <1>1
<1> QED
  BY <1>1, <1>2

-----------------------------------------------------------------------------
(* What a ScrollViewer keeps between its passes.                           *)
ScrollTypes ==
    /\ extent \in [Axes -> Nat] /\ viewport \in [Axes -> Nat] /\ offset \in [Axes -> Nat]
    /\ ownUnclipped \in [Axes -> Int]
ScrollInv ==
    /\ panel \in PanelKinds /\ kids \in ChildLists[panel.kind]
    /\ phase = "measuring" => IsGrid
    /\ panel.kind = "scroll" => ScrollTypes /\ OffsetInRange

LEMMA Offered_Int ==
  ASSUME NEW p \in PanelKinds, NEW available \in [Axes -> Int]
  PROVE  Offered(p, available) \in [Axes -> Int]
<1> SUFFICES ASSUME NEW a \in Axes
             PROVE  Offered(p, available)[a] \in Int
  BY DEF Offered
<1>1. Chrome(p, a) \in Int /\ Inf \in Int /\ Less(available[a], Chrome(p, a)) \in Int
  BY ChromeIsInt, LessIsInt, LayoutAssumption
<1> QED
  BY <1>1 DEF Offered

LEMMA AskedScroll_Int ==
  ASSUME NEW p \in PanelKinds, NEW d, d = <<>> \/ d[1] \in [Axes -> Nat], NEW available \in [Axes -> Int]
  PROVE  AskedScroll(p, d, available) \in [Axes -> Int]
<1> DEFINE ext == IF d = <<>> THEN Zero ELSE d[1]
           shown(a) == BarVisible(p, ext, available, a)
           bars(a) == (IF shown(Other(a)) THEN 16 * Px ELSE 0) + (IF shown(a) THEN 32 * Px ELSE 0)
<1>1. ext \in [Axes -> Nat]
  BY DEF Zero
<1>2. \A a \in Axes : bars(a) \in Int
  <2> HIDE DEF shown
  <2> QED
    BY LayoutAssumption
<1>3. \A a \in Axes : AtMost(available[a], AtLeast(ext[a] + Chrome(p, a), bars(a))) \in Int
  <2> HIDE DEF ext, bars
  <2> QED
    BY <1>1, <1>2, ChromeIsInt, Bounds
<1> QED
  BY <1>3 DEF AskedScroll

LEMMA Scrolled ==
  ASSUME NEW to \in [Axes -> Int], NEW view \in [Axes -> Nat], extent \in [Axes -> Nat], NEW a \in Axes
  PROVE  /\ ScrolledTo(to, view) \in [Axes -> Nat]
         /\ ScrolledTo(to, view)[a] <= AtLeast(0, extent[a] - view[a])
<1>1. \A b \in Axes : /\ ScrolledTo(to, view)[b] \in Nat
                      /\ ScrolledTo(to, view)[b] <= AtLeast(0, extent[b] - view[b])
  <2> SUFFICES ASSUME NEW b \in Axes
               PROVE  /\ ScrolledTo(to, view)[b] \in Nat
                      /\ ScrolledTo(to, view)[b] <= AtLeast(0, extent[b] - view[b])
    OBVIOUS
  <2>1. /\ AtLeast(0, extent[b] - view[b]) = (IF 0 >= extent[b] - view[b] THEN 0 ELSE extent[b] - view[b])
        /\ AtLeast(0, extent[b] - view[b]) \in Nat
    BY Bounds
  <2>2. AtMost(to[b], AtLeast(0, extent[b] - view[b])) \in Int
    BY <2>1, Bounds
  <2> QED
    BY <2>1, <2>2, Bounds DEF ScrolledTo
<1> QED
  BY <1>1 DEF ScrolledTo

LEMMA InnerIsNat ==
  ASSUME NEW p \in PanelKinds, NEW final \in [Axes -> Int]
  PROVE  Inner(p, final).size \in [Axes -> Nat]
<1> SUFFICES ASSUME NEW a \in Axes
             PROVE  Inner(p, final).size[a] \in Nat
  BY DEF Inner
<1>1. p.rounds \in BOOLEAN
  BY PanelAssumption DEF IsElement
<1>2. RoundLayoutValue(p.kind \in {"stack", "grid"} /\ p.rounds, final[a]) \in Int
  BY <1>1, RoundedIsInt
<1> QED
  BY <1>2, ChromeIsInt, Bounds DEF Inner

-----------------------------------------------------------------------------
LEMMA MeasureStep ==
  ASSUME ScrollInv, NEW available \in Constraints, Measure(available), ~IsGrid
  PROVE  ScrollInv'
<1>1. phase' = "measured" /\ panel' = panel /\ kids' = kids
  BY DEF Measure, Measured
<1>2. ASSUME panel.kind = "scroll"
      PROVE  ScrollTypes'
  <2> DEFINE given == FrameworkAvailable(panel, available)
             d == [i \in DOMAIN kids |-> MeasuredChild(kids[i], Offered(panel, given))]
             sz == [i \in DOMAIN kids |-> d[i].desired]
  <2>0. panel \in PanelKinds /\ IsElement(panel) /\ available \in [Axes -> Int]
    BY PanelAssumption DEF ScrollInv
  <2>1. given \in [Axes -> Int] /\ Offered(panel, given) \in [Axes -> Int]
    BY <2>0, AvailableIsInt, Offered_Int
  <2>2. ASSUME kids # <<>>
        PROVE  sz[1] \in [Axes -> Nat]
    <3>1. 1 \in DOMAIN kids /\ IsElement(kids[1]) /\ kids[1].natural \in [Axes -> Nat]
      BY <2>2, ChildList DEF ScrollInv
    <3>2. MeasuredChild(kids[1], Offered(panel, given)).desired \in [Axes -> Nat]
      BY <2>1, <3>1, ChildIsNat
    <3> QED
      BY <3>1, <3>2
  <2>3. extent' \in [Axes -> Nat]
    <3>1. extent' = IF kids = <<>> THEN Zero ELSE sz[1]
      BY DEF Measure
    <3> QED
      BY <2>2, <3>1 DEF Zero
  <2>4. sz = <<>> \/ sz[1] \in [Axes -> Nat]
    <3>1. CASE kids = <<>>
      BY <3>1
    <3> QED
      BY <2>2, <3>1
  <2>5. ownUnclipped' = Unclipped(panel, AskedScroll(panel, sz, given))
    BY <1>2 DEF Measure, Measured, Asked
  <2>6. ownUnclipped' \in [Axes -> Int]
    <3> HIDE DEF sz, given
    <3>1. AskedScroll(panel, sz, given) \in [Axes -> Int]
      BY <2>0, <2>1, <2>4, AskedScroll_Int
    <3> QED
      BY <2>0, <2>1, <2>5, <3>1, AskedForIsInt
  <2> QED
    BY <1>2, <2>3, <2>6 DEF Measure, ScrollInv, ScrollTypes
<1> QED
  BY <1>1, <1>2 DEF ScrollInv, OffsetInRange, Arranged, IsGrid

LEMMA ArrangeStep ==
  ASSUME ScrollInv, NEW slot \in Finals, ArrangePanel(slot), ~IsGrid
  PROVE  ScrollInv'
<1>1. phase' = "arranged" /\ panel' = panel /\ kids' = kids /\ extent' = extent /\ ownUnclipped' = ownUnclipped
  BY DEF ArrangePanel
<1>2. ASSUME panel.kind = "scroll"
      PROVE  ScrollTypes' /\ OffsetInRange'
  <2> DEFINE view == Inner(panel, RenderSize(panel, slot, ownUnclipped)).size
  <2>1. view \in [Axes -> Nat]
    <3>1. IsElement(panel) /\ slot.size \in [Axes -> Int] /\ ownUnclipped \in [Axes -> Int]
      BY <1>2, PanelAssumption DEF ScrollInv, ScrollTypes
    <3>2. RenderSize(panel, slot, ownUnclipped) \in [Axes -> Int]
      BY <3>1, RenderIsInt
    <3> QED
      BY <3>2, InnerIsNat DEF ScrollInv
  <2>2. viewport' = view /\ offset' = ScrolledTo(offset, view)
    BY <1>2 DEF ArrangePanel
  <2>3. ASSUME kids # <<>>, NEW a \in Axes
        PROVE  slots'[1].pos[a] = -offset'[a] /\ slots'[1].size[a] = AtLeast(extent[a], view[a])
    <3>1. 1 \in DOMAIN kids
      BY <2>3, ChildList DEF ScrollInv
    <3>2. slots'[1] = SlotOf(1, panel, desired, RenderSize(panel, slot, ownUnclipped))
      BY <3>1 DEF ArrangePanel
    <3> QED
      BY <1>2, <2>2, <3>2 DEF SlotOf
  <2> HIDE DEF view
  <2>4. ScrollTypes'
    <3>1. ScrolledTo(offset, view) \in [Axes -> Nat]
      BY <1>2, <2>1, Scrolled DEF ScrollInv, ScrollTypes, Axes
    <3> QED
      BY <1>1, <1>2, <2>1, <2>2, <3>1 DEF ScrollInv, ScrollTypes
  <2>5. ASSUME NEW a \in Axes
        PROVE  /\ offset'[a] <= AtLeast(0, extent'[a] - viewport'[a])
               /\ kids' # <<>> => slots'[1].pos[a] + slots'[1].size[a] >= viewport'[a]
    <3>1. offset'[a] <= AtLeast(0, extent[a] - view[a])
      BY <1>2, <2>1, <2>2, Scrolled DEF ScrollInv, ScrollTypes
    <3>2. extent[a] \in Int /\ view[a] \in Int /\ offset'[a] \in Nat
      BY <1>2, <2>1, <2>4 DEF ScrollInv, ScrollTypes
    <3> QED
      BY <1>1, <2>2, <2>3, <3>1, <3>2, Bounds
  <2> QED
    BY <2>4, <2>5 DEF OffsetInRange
<1> QED
  BY <1>1, <1>2 DEF ScrollInv, OffsetInRange, IsGrid

LEMMA ScrollStep ==
  ASSUME ScrollInv, NEW to \in Offsets, ScrollTo(to)
  PROVE  ScrollInv'
<1>1. panel' = panel /\ kids' = kids /\ extent' = extent /\ viewport' = viewport /\ slots' = slots
      /\ phase' = phase /\ ownUnclipped' = ownUnclipped /\ offset' = ScrolledTo(to, viewport) /\ panel.kind = "scroll"
  BY DEF ScrollTo
<1>2. ScrollTypes'
  <2>1. ScrolledTo(to, viewport) \in [Axes -> Nat]
    BY <1>1, PanelAssumption, Scrolled DEF ScrollInv, ScrollTypes, Axes
  <2> QED
    BY <1>1, <2>1 DEF ScrollInv, ScrollTypes
<1>3. \A a \in Axes : offset'[a] <= AtLeast(0, extent[a] - viewport[a])
  BY <1>1, PanelAssumption, Scrolled DEF ScrollInv, ScrollTypes
<1>4. OffsetInRange'
  BY <1>1, <1>3 DEF ScrollInv, OffsetInRange, Arranged
<1> QED
  BY <1>1, <1>2, <1>4 DEF ScrollInv, IsGrid

LEMMA GridStep ==
  ASSUME ScrollInv, GNext, ~(~IsGrid /\ PNext)
  PROVE  ScrollInv'
<1>1. IsGrid
  BY DEF GNext, ScrollInv, MeasureGrid, MeasureOverlay, Step, EndMeasure, ArrangeGrid
<1>2. panel' = panel /\ kids' \in ChildLists[panel.kind]
  BY DEF GNext, ScrollInv, Change, MeasureGrid, MeasureOverlay, Step, EndMeasure, ArrangeGrid
<1> QED
  BY <1>1, <1>2 DEF ScrollInv, IsGrid

(* The offset of a ScrollViewer stays in its range, whatever is measured,  *)
(* arranged, changed and scrolled in whatever order: OffsetInRange.        *)
THEOREM OffsetCorrect == GSpec => []OffsetInRange
<1>1. GInit => ScrollInv
  BY DEF GInit, PInit, ScrollInv, ScrollTypes, OffsetInRange, Arranged, Zero
<1>2. ScrollInv /\ [GNext]_gvars => ScrollInv'
  <2> SUFFICES ASSUME ScrollInv, [GNext]_gvars
               PROVE  ScrollInv'
    OBVIOUS
  <2>1. CASE ~IsGrid /\ PNext
    <3>1. ASSUME NEW l \in ChildLists[panel.kind], Change(l)
          PROVE  ScrollInv'
      BY <2>1, <3>1 DEF Change, ScrollInv, ScrollTypes, OffsetInRange, Arranged, IsGrid, scroll
    <3> QED
      BY <2>1, <3>1, MeasureStep, ArrangeStep, ScrollStep DEF PNext
  <2>2. CASE GNext /\ ~(~IsGrid /\ PNext)
    BY <2>2, GridStep
  <2>3. CASE UNCHANGED gvars
    BY <2>3 DEF gvars, pvars, scroll, ScrollInv, ScrollTypes, OffsetInRange, Arranged, IsGrid
  <2> QED
    BY <2>1, <2>2, <2>3
<1>3. ScrollInv => OffsetInRange
  BY DEF ScrollInv, OffsetInRange
<1> QED
  BY <1>1, <1>2, <1>3, PTL DEF GSpec

-----------------------------------------------------------------------------
(* Division.                                                               *)
LEMMA Division ==
  ASSUME NEW x \in Nat, NEW y \in Nat \ {0}
  PROVE  /\ x \div y \in Nat
         /\ y * (x \div y) <= x
         /\ x < y * ((x \div y) + 1)
OBVIOUS

LEMMA Times ==
  ASSUME NEW i \in Int, NEW j \in Int, i <= j, NEW y \in Nat
  PROVE  i * y \in Int /\ i * y <= j * y
OBVIOUS

(* An item begins in the view iff it comes before the quotient rounded up, *)
(* and ends in it iff it does not come before the quotient.                *)
LEMMA ItemsCovered ==
  ASSUME NEW i \in Nat, NEW x \in Nat, NEW y \in Nat \ {0}
  PROVE  /\ CeilDiv(x, y) \in Nat
         /\ i * y < x <=> i < CeilDiv(x, y)
         /\ (i + 1) * y > x <=> i >= x \div y
<1> DEFINE q == x \div y
           c == CeilDiv(x, y)
<1>1. q \in Nat /\ y * q <= x /\ x < y * (q + 1)
  BY Division
<1>2. c \in Nat /\ y * c <= x + y - 1 /\ x + y - 1 < y * (c + 1)
  <2>1. x + y - 1 \in Nat
    OBVIOUS
  <2> QED
    BY <2>1, Division DEF CeilDiv
<1> HIDE DEF q, c
<1>3. i < c => i * y < x
  <2> SUFFICES ASSUME i < c
               PROVE  i * y < x
    OBVIOUS
  <2>1. (i + 1) * y <= c * y
    BY <1>2, Times
  <2>2. i * y + y <= y * c
    BY <1>2, <2>1
  <2> QED
    BY <1>2, <2>2
<1>4. i >= c => i * y >= x
  <2> SUFFICES ASSUME i >= c
               PROVE  i * y >= x
    OBVIOUS
  <2>1. c * y <= i * y
    BY <1>2, Times
  <2>2. x - 1 < y * c
    BY <1>2
  <2> QED
    BY <1>2, <2>1, <2>2
<1>5. i >= q => (i + 1) * y > x
  <2> SUFFICES ASSUME i >= q
               PROVE  (i + 1) * y > x
    OBVIOUS
  <2>1. (q + 1) * y <= (i + 1) * y
    BY <1>1, Times
  <2> QED
    BY <1>1, <2>1
<1>6. i < q => (i + 1) * y <= x
  <2> SUFFICES ASSUME i < q
               PROVE  (i + 1) * y <= x
    OBVIOUS
  <2>1. (i + 1) * y <= q * y
    BY <1>1, Times
  <2> QED
    BY <1>1, <2>1
<1>7. i * y \in Int /\ (i + 1) * y \in Int
  OBVIOUS
<1>8. i < c <=> ~(i >= c)
  BY <1>2
<1>9. i >= q <=> ~(i < q)
  BY <1>1
<1>10. i * y < x <=> ~(i * y >= x)
  BY <1>7
<1>11. (i + 1) * y > x <=> ~((i + 1) * y <= x)
  BY <1>7
<1> QED
  BY <1>2, <1>3, <1>4, <1>5, <1>6, <1>8, <1>9, <1>10, <1>11 DEF q, c

-----------------------------------------------------------------------------
ItemTypes ==
    /\ itemCount \in Nat /\ itemExtent \in Nat \ {0} /\ viewOffset \in Nat /\ viewExtent \in Nat
    /\ cacheLength \in Nat

LEMMA RangeTypes == ItemTypes => FirstItem \in Nat /\ EndItem \in Nat
<1> SUFFICES ASSUME ItemTypes
             PROVE  FirstItem \in Nat /\ EndItem \in Nat
  OBVIOUS
<1>1. viewOffset \div itemExtent \in Nat
  BY Division DEF ItemTypes
<1>2. CeilDiv(viewOffset + VisibleExtent, itemExtent) \in Nat
  <2>1. viewOffset + VisibleExtent \in Nat
    BY DEF ItemTypes, VisibleExtent
  <2> QED
    BY <2>1, ItemsCovered DEF ItemTypes
<1> QED
  BY <1>1, <1>2 DEF ItemTypes, FirstItem, EndItem, Least

(* The range of UpdateRealization holds the items in view, and others near.*)
LEMMA RangeFits ==
  ASSUME ItemTypes, NEW i \in Int
  PROVE  /\ i \in FirstItem .. (EndItem - 1) => i \in Items /\ Near(i)
         /\ i \in Items /\ InView(i) => i \in FirstItem .. (EndItem - 1)
<1> DEFINE q == viewOffset \div itemExtent
           c == CeilDiv(viewOffset + VisibleExtent, itemExtent)
           n == itemCount
<1>1. CASE n = 0
  BY <1>1 DEF Items, FirstItem, EndItem
<1>2. CASE n # 0
  <2>1. q \in Nat
    BY Division DEF ItemTypes
  <2>2. viewOffset + VisibleExtent \in Nat /\ VisibleExtent \in Nat \ {0}
    BY DEF ItemTypes, VisibleExtent
  <2>3. c \in Nat
    BY <2>2, ItemsCovered DEF ItemTypes
  <2>4. ASSUME NEW j \in Nat
        PROVE  InView(j) <=> q <= j /\ j < c
    BY <2>2, ItemsCovered DEF InView, ItemTypes
  <2>5. q < c
    <3>1. itemExtent * q <= viewOffset
      BY Division DEF ItemTypes
    <3>2. q * itemExtent < viewOffset + VisibleExtent
      BY <2>1, <2>2, <3>1 DEF ItemTypes
    <3> QED
      BY <2>1, <2>2, <3>2, ItemsCovered DEF ItemTypes
  <2>6. /\ FirstItem = IF Least(n - 1, q) > cacheLength THEN Least(n - 1, q) - cacheLength ELSE 0
        /\ EndItem = Least(n, Least(n, c) + cacheLength)
    BY <1>2 DEF FirstItem, EndItem
  <2>7. n \in Nat \ {0} /\ cacheLength \in Nat /\ Items = 0 .. (n - 1)
    BY <1>2 DEF ItemTypes, Items
  <2> HIDE DEF q, c, n
  <2>8. i \in Items /\ InView(i) => i \in FirstItem .. (EndItem - 1)
    BY <2>1, <2>3, <2>4, <2>6, <2>7 DEF Least
  <2>9. ASSUME i \in FirstItem .. (EndItem - 1)
        PROVE  i \in Items /\ Near(i)
    <3>1. i \in Items
      BY <2>1, <2>3, <2>6, <2>7, <2>9 DEF Least
    <3> DEFINE low == Least(n - 1, q)
               high == Least(n, c) - 1
               j == IF i < low THEN low ELSE IF i > high THEN high ELSE i
    <3>2. low \in Nat /\ high \in Nat /\ low <= high /\ high <= n - 1
      BY <2>1, <2>3, <2>5, <2>7 DEF Least
    <3>3. low - cacheLength <= i /\ i <= high + cacheLength
      BY <2>1, <2>3, <2>6, <2>7, <2>9, <3>2 DEF Least
    <3>4. j \in Items /\ low <= j /\ j <= high /\ j - i <= cacheLength /\ i - j <= cacheLength
      BY <2>7, <3>1, <3>2, <3>3
    <3>5. InView(j) \/ (j = itemCount - 1 /\ ~\E k \in Items : InView(k))
      <4>1. CASE q <= n - 1
        <5>1. q <= j /\ j < c /\ j \in Nat
          BY <2>1, <2>3, <2>7, <3>2, <3>4, <4>1 DEF Least
        <5> QED
          BY <2>4, <5>1
      <4>2. CASE q > n - 1
        <5>1. low = n - 1 /\ j = n - 1
          BY <2>1, <2>7, <3>2, <3>4, <4>2 DEF Least
        <5>2. \A k \in Items : ~InView(k)
          BY <2>1, <2>4, <2>7, <4>2
        <5> QED
          BY <5>1, <5>2 DEF n
      <4> QED
        BY <2>1, <2>7, <4>1, <4>2
    <3> HIDE DEF j
    <3> QED
      BY <3>1, <3>4, <3>5 DEF Near
  <2> QED
    BY <2>8, <2>9
<1> QED
  BY <1>1, <1>2

-----------------------------------------------------------------------------
(* Unless outdated, at most one update is in progress, of the present      *)
(* settings, and of its range the items before the one it asks for have    *)
(* containers.                                                             *)
ItemRange == FirstItem .. (EndItem - 1)
Ordered(list) == list \in Seq([item : Nat, end : Nat])
UpToDate ==
    /\ realized \subseteq ItemRange
    /\ Len(making) <= 1
    /\ making = <<>> /\ ~incomplete => ItemRange \subseteq realized
    /\ making # <<>> => LET call == making[1]
                        IN /\ call.end = EndItem /\ call.item \in ItemRange
                           /\ \A i \in ItemRange : i < call.item => i \in realized
ItemsInv == ItemTypes /\ Ordered(making) /\ (~outdated => UpToDate)

LEMMA FirstMissing ==
  ASSUME NEW from \in Nat, NEW end \in Nat, NEW have, Missing(from, end, have) # {}
  PROVE  LET first == Min(Missing(from, end, have))
         IN /\ first \in from .. (end - 1) /\ first \notin have
            /\ \A i \in from .. (end - 1) : i < first => i \in have
<1> DEFINE S == Missing(from, end, have)
<1>1. S \subseteq Nat
  BY DEF Missing
<1>2. PICK m \in S : \A k \in S : m <= k
  <2> HIDE DEF S
  <2> QED
    BY <1>1, First DEF S
<1>3. Min(S) \in S /\ \A k \in S : Min(S) <= k
  BY <1>2 DEF Min
<1> QED
  BY <1>1, <1>3 DEF Missing

LEMMA InnerCalls ==
  ASSUME NEW calls, Ordered(calls), calls # <<>>
  PROVE  /\ Len(calls) \in Nat \ {0} /\ Last(calls) = calls[Len(calls)]
         /\ Last(calls).item \in Nat /\ Last(calls).end \in Nat
         /\ Ordered(Front(calls)) /\ (Len(calls) <= 1 => Len(calls) = 1 /\ Front(calls) = <<>> /\ Last(calls) = calls[1])
<1> DEFINE S == [item : Nat, end : Nat]
<1>0. calls \in Seq(S)
  BY DEF Ordered
<1>5. \A e \in S : e.item \in Nat /\ e.end \in Nat
  OBVIOUS
<1> HIDE DEF S
<1>1. Len(calls) \in Nat \ {0} /\ calls \in Seq(S) /\ \A k \in 1 .. Len(calls) : calls[k] \in S
  BY <1>0, EmptySeq
<1>2. Last(calls) = calls[Len(calls)] /\ Last(calls) \in S
  BY <1>1 DEF Last
<1>3. Front(calls) \in Seq(S)
  BY <1>1 DEF Front
<1>4. Len(calls) <= 1 => Front(calls) = <<>> /\ Len(calls) = 1
  <2>1. \A n \in Nat \ {0} : n <= 1 => n = 1
    OBVIOUS
  <2>2. Len(calls) <= 1 => Len(calls) = 1
    BY <1>1, <2>1, Zenon
  <2> QED
    BY <1>1, <2>2 DEF Front
<1> QED
  BY <1>1, <1>2, <1>3, <1>4, <1>5 DEF Ordered, S

LEMMA AskStep ==
  ASSUME NEW calls, Ordered(calls), NEW from \in Nat, NEW end \in Nat, NEW have
  PROVE  /\ Ordered(Ask(calls, from, end, have))
         /\ \/ /\ Ask(calls, from, end, have) = calls
               /\ from .. (end - 1) \subseteq have
            \/ \E first \in from .. (end - 1) :
                  /\ Ask(calls, from, end, have) = Append(calls, [item |-> first, end |-> end])
                  /\ \A i \in from .. (end - 1) : i < first => i \in have
<1>1. CASE Missing(from, end, have) = {}
  BY <1>1 DEF Ask, Missing
<1>2. CASE Missing(from, end, have) # {}
  <2> DEFINE first == Min(Missing(from, end, have))
  <2>1. first \in from .. (end - 1) /\ \A i \in from .. (end - 1) : i < first => i \in have
    BY <1>2, FirstMissing
  <2>2. Ask(calls, from, end, have) = Append(calls, [item |-> first, end |-> end])
    BY <1>2 DEF Ask
  <2> HIDE DEF first
  <2>3. [item |-> first, end |-> end] \in [item : Nat, end : Nat]
    BY <2>1
  <2>4. Ordered(Append(calls, [item |-> first, end |-> end]))
    BY <2>3 DEF Ordered
  <2> QED
    BY <2>1, <2>2, <2>4
<1> QED
  BY <1>1, <1>2

LEMMA AskAlone ==
  ASSUME NEW from \in Nat, NEW end \in Nat, NEW have
  PROVE  \/ /\ Ask(<<>>, from, end, have) = <<>>
            /\ from .. (end - 1) \subseteq have
         \/ \E first \in from .. (end - 1) :
               /\ Ask(<<>>, from, end, have) = <<[item |-> first, end |-> end]>>
               /\ \A i \in from .. (end - 1) : i < first => i \in have
<1>1. Ordered(<<>>)
  BY DEF Ordered
<1>2. \A x : Append(<<>>, x) = <<x>>
  OBVIOUS
<1> QED
  BY <1>1, <1>2, AskStep

(* An update, of settings that are sizes and counts.                       *)
LEMMA UpdateStep ==
  ASSUME ItemsInv, ItemTypes', NEW had, had \subseteq ItemRange', UpdateRealization(had)
  PROVE  ItemsInv'
<1>1. FirstItem' \in Nat /\ EndItem' \in Nat
  <2>1. (ItemTypes => FirstItem \in Nat /\ EndItem \in Nat)'
    BY RangeTypes, PTL
  <2> QED
    BY <2>1
<1>2. Ordered(making')
  BY <1>1, AskStep DEF ItemsInv, UpdateRealization
<1>3. ASSUME ~outdated'
      PROVE  UpToDate'
  <2>1. making = <<>> /\ realized' = had /\ making' = Ask(<<>>, FirstItem', EndItem', had)
    BY <1>3 DEF UpdateRealization
  <2>2. CASE making' = <<>> /\ ItemRange' \subseteq had
    BY <2>1, <2>2 DEF UpToDate
  <2>3. ASSUME NEW first \in ItemRange', making' = <<[item |-> first, end |-> EndItem']>>,
               \A i \in ItemRange' : i < first => i \in had
        PROVE  UpToDate'
    <3>1. Len(making') = 1 /\ making' # <<>> /\ making'[1] = [item |-> first, end |-> EndItem']
      BY <2>3
    <3>2. Len(making') <= 1
      BY <3>1
    <3>3. making'[1].end = EndItem' /\ making'[1].item = first
      BY <3>1
    <3>4. \A i \in ItemRange' : i < making'[1].item => i \in realized'
      BY <2>1, <2>3, <3>3
    <3> QED
      BY <2>1, <2>3, <3>1, <3>2, <3>3, <3>4, Zenon DEF UpToDate
  <2> QED
    BY <1>1, <2>1, <2>2, <2>3, AskAlone DEF ItemRange
<1> QED
  BY <1>2, <1>3 DEF ItemsInv

LEMMA MadeStep ==
  ASSUME ItemsInv, Made
  PROVE  ItemsInv'
<1> DEFINE call == Last(making)
<1>1. /\ making # <<>> /\ Len(making) \in Nat \ {0} /\ call.item \in Nat /\ call.end \in Nat
      /\ Ordered(Front(making)) /\ (Len(making) <= 1 => Len(making) = 1 /\ Front(making) = <<>> /\ call = making[1])
  BY InnerCalls DEF ItemsInv, Made
<1>2. /\ ItemTypes' /\ FirstItem' = FirstItem /\ EndItem' = EndItem /\ outdated' = outdated /\ incomplete' = incomplete
      /\ realized' = realized \cup {call.item}
      /\ making' = Ask(Front(making), call.item + 1, call.end, realized')
  BY DEF ItemsInv, ItemTypes, Made, itemSettings, FirstItem, EndItem, VisibleExtent
<1> HIDE DEF call
<1>4. Ordered(making')
  <2>1. call.item + 1 \in Nat
    BY <1>1
  <2> QED
    BY <1>1, <1>2, <2>1, AskStep
<1>5. ASSUME ~outdated'
      PROVE  UpToDate'
  <2>1. UpToDate
    BY <1>2, <1>5 DEF ItemsInv
  <2>2. Len(making) = 1 /\ call = making[1] /\ making' = Ask(<<>>, call.item + 1, EndItem, realized')
    <3>0. Len(making) <= 1
      BY <2>1 DEF UpToDate
    <3>1. Len(making) = 1 /\ Front(making) = <<>> /\ call = making[1]
      BY <1>1, <3>0, Zenon
    <3>2. making[1].end = EndItem
      BY <1>1, <2>1 DEF UpToDate
    <3> QED
      BY <1>2, <3>1, <3>2
  <2>3. realized' \subseteq ItemRange /\ call.item \in ItemRange /\ \A i \in ItemRange : i <= call.item => i \in realized'
    <3>1. /\ realized \subseteq ItemRange /\ making[1].item \in ItemRange
          /\ \A i \in ItemRange : i < making[1].item => i \in realized
      BY <1>1, <2>1, Zenon DEF UpToDate
    <3>2. call = making[1] /\ realized' = realized \cup {call.item}
      BY <1>2, <2>2, Zenon
    <3>3. ItemRange \subseteq Int
      BY DEF ItemRange
    <3>4. \A i \in ItemRange : i <= call.item => i < call.item \/ i = call.item
      BY <1>1, <3>3
    <3> QED
      BY <3>1, <3>2, <3>4, Zenon
  <2>4. ItemRange' = ItemRange /\ FirstItem \in Nat /\ EndItem \in Nat /\ call.end = EndItem /\ Ordered(<<>>)
    BY <1>1, <1>2, <2>1, <2>2, RangeTypes DEF ItemRange, ItemsInv, UpToDate, Ordered
  <2>0. call.item + 1 \in Nat
    BY <1>1
  <2>5. CASE making' = <<>> /\ (call.item + 1) .. (EndItem - 1) \subseteq realized'
    <3>1. ItemRange \subseteq realized'
      BY <1>1, <2>3, <2>4, <2>5 DEF ItemRange
    <3> QED
      BY <2>3, <2>4, <2>5, <3>1 DEF UpToDate
  <2>6. ASSUME NEW first \in (call.item + 1) .. (EndItem - 1), making' = <<[item |-> first, end |-> EndItem]>>,
               \A i \in (call.item + 1) .. (EndItem - 1) : i < first => i \in realized'
        PROVE  UpToDate'
    <3>1. Len(making') = 1 /\ making' # <<>> /\ making'[1] = [item |-> first, end |-> EndItem]
      BY <2>6
    <3>2. first \in ItemRange /\ \A i \in ItemRange : i < first => i \in realized'
      BY <1>1, <2>3, <2>4, <2>6 DEF ItemRange
    <3>3. making'[1].end = EndItem' /\ making'[1].item = first
      BY <1>2, <3>1
    <3>4. realized' \subseteq ItemRange' /\ Len(making') <= 1
      BY <2>3, <2>4, <3>1
    <3> QED
      BY <2>4, <3>1, <3>2, <3>3, <3>4 DEF UpToDate
  <2> QED
    BY <2>0, <2>2, <2>4, <2>5, <2>6, AskAlone
<1> QED
  BY <1>2, <1>4, <1>5 DEF ItemsInv

LEMMA FailStep ==
  ASSUME ItemsInv, MakingFails
  PROVE  ItemsInv'
<1>1. making # <<>> /\ Ordered(making)
  BY DEF ItemsInv, MakingFails
<1>2. /\ ItemTypes' /\ ItemRange' = ItemRange /\ outdated' = outdated /\ incomplete' = TRUE
      /\ realized' = realized /\ making' = Front(making)
  BY DEF ItemsInv, ItemTypes, MakingFails, itemSettings, ItemRange, FirstItem, EndItem, VisibleExtent
<1>3. Ordered(Front(making)) /\ (Len(making) <= 1 => Front(making) = <<>>)
  BY <1>1, InnerCalls
<1>4. ASSUME ~outdated'
      PROVE  UpToDate'
  <2>1. UpToDate
    BY <1>2, <1>4 DEF ItemsInv
  <2>2. making' = <<>>
    BY <1>2, <1>3, <2>1 DEF UpToDate
  <2> QED
    BY <1>2, <2>1, <2>2 DEF UpToDate
<1> QED
  BY <1>2, <1>3, <1>4 DEF ItemsInv

(* Once an update is done the items in view have containers, and few       *)
(* others: ItemsRealized, for any numbers and factories nested to any      *)
(* depth that fail or not.                                                 *)
THEOREM ItemsCorrect == ItemsSpec => []ItemsRealized
<1>1. ItemsInit => ItemsInv
  <2> SUFFICES ASSUME ItemsInit
               PROVE  ItemsInv
    OBVIOUS
  <2>1. ItemTypes /\ Ordered(making) /\ making = <<>> /\ realized = {}
    BY ItemsAssumption DEF ItemsInit, ItemTypes, Ordered
  <2>2. ItemRange = {}
    BY DEF ItemsInit, ItemRange, FirstItem, EndItem
  <2> QED
    BY <2>1, <2>2 DEF ItemsInv, UpToDate
<1>2. ItemsInv /\ [ItemsNext]_itemVars => ItemsInv'
  <2> SUFFICES ASSUME ItemsInv, [ItemsNext]_itemVars
               PROVE  ItemsInv'
    OBVIOUS
  <2>1. ASSUME NEW n \in Counts, SetItems(n)
        PROVE  ItemsInv'
    <3>1. ItemTypes' /\ UpdateRealization({})
      BY <2>1, ItemsAssumption DEF SetItems, ItemsInv, ItemTypes
    <3> QED
      BY <3>1, UpdateStep
  <2>2. ASSUME ItemTypes', UpdateRealization(Kept(FirstItem' .. (EndItem' - 1)))
        PROVE  ItemsInv'
    <3>1. Kept(FirstItem' .. (EndItem' - 1)) \subseteq ItemRange'
      BY DEF Kept, ItemRange
    <3> QED
      BY <2>2, <3>1, UpdateStep
  <2>3. ASSUME NEW o \in ViewOffsets, NEW e \in ViewExtents, SetViewport(o, e)
        PROVE  ItemsInv'
    <3>1. ItemTypes' /\ UpdateRealization(Kept(FirstItem' .. (EndItem' - 1)))
      BY <2>3, ItemsAssumption DEF SetViewport, ItemsInv, ItemTypes
    <3> QED
      BY <2>2, <3>1
  <2>4. ASSUME NEW e \in ItemExtents, SetItemExtent(e)
        PROVE  ItemsInv'
    <3>1. ItemTypes' /\ UpdateRealization(Kept(FirstItem' .. (EndItem' - 1)))
      BY <2>4, ItemsAssumption DEF SetItemExtent, ItemsInv, ItemTypes
    <3> QED
      BY <2>2, <3>1
  <2>5. ASSUME NEW e \in ViewExtents, MeasureItems(e)
        PROVE  ItemsInv'
    <3>1. ItemTypes' /\ UpdateRealization(Kept(FirstItem' .. (EndItem' - 1)))
      BY <2>5, ItemsAssumption DEF MeasureItems, ItemsInv, ItemTypes
    <3> QED
      BY <2>2, <3>1
  <2>6. ASSUME NEW n \in CacheLengths, SetCacheLength(n)
        PROVE  ItemsInv'
    BY <2>6, ItemsAssumption DEF SetCacheLength, ItemsInv, ItemTypes
  <2>7. CASE UNCHANGED itemVars
    BY <2>7 DEF itemVars, itemSettings, ItemsInv, ItemTypes, UpToDate, ItemRange, FirstItem, EndItem, VisibleExtent
  <2> QED
    BY <2>1, <2>3, <2>4, <2>5, <2>6, <2>7, MadeStep, FailStep DEF ItemsNext
<1>3. ItemsInv => ItemsRealized
  <2> SUFFICES ASSUME ItemsInv, making = <<>>, ~outdated
               PROVE  /\ \A i \in realized : i \in Items /\ Near(i)
                      /\ ~incomplete => \A i \in Items : InView(i) => i \in realized
    BY DEF ItemsRealized
  <2>1. realized \subseteq ItemRange /\ (~incomplete => ItemRange \subseteq realized)
    BY DEF ItemsInv, UpToDate
  <2>2. \A i \in ItemRange : i \in Int
    BY DEF ItemRange
  <2> QED
    BY <2>1, <2>2, RangeFits DEF ItemsInv, ItemRange, Items
<1> QED
  BY <1>1, <1>2, <1>3, PTL DEF ItemsSpec

-----------------------------------------------------------------------------
(* What is computed along a sequence is well defined.                      *)
Along(b, step, n, f) == f[0] = b /\ \A k \in 1 .. n : f[k] = step[<<k, f[k - 1]>>]

LEMMA OneFurther ==
  ASSUME NEW n \in Nat \ {0}, NEW V, NEW b, NEW step \in [(1 .. n) \X V -> V],
         NEW f \in [0 .. (n - 1) -> V], Along(b, step, n - 1, f)
  PROVE  \E g \in [0 .. n -> V] : Along(b, step, n, g)
<1> DEFINE g == [k \in 0 .. n |-> IF k = n THEN step[<<n, f[n - 1]>>] ELSE f[k]]
<1>1. n \in 1 .. n /\ n - 1 \in 0 .. (n - 1) /\ f[n - 1] \in V
  OBVIOUS
<1>2. step[<<n, f[n - 1]>>] \in V
  BY <1>1
<1>3. g \in [0 .. n -> V]
  BY <1>2
<1>4. g[0] = b
  BY DEF Along
<1>5. ASSUME NEW k \in 1 .. n PROVE g[k] = step[<<k, g[k - 1]>>]
  <2>1. g[k - 1] = f[k - 1]
    OBVIOUS
  <2>2. CASE k = n
    <3>1. g[n] = step[<<n, f[n - 1]>>]
      OBVIOUS
    <3> HIDE DEF g
    <3> QED
      BY <2>1, <2>2, <3>1
  <2>3. CASE k # n
    <3>1. k \in 1 .. (n - 1) /\ k \in 0 .. n
      BY <2>3
    <3>2. f[k] = step[<<k, f[k - 1]>>]
      BY <3>1 DEF Along
    <3> QED
      BY <2>1, <2>3, <3>1, <3>2
  <2> QED
    BY <2>2, <2>3
<1> HIDE DEF g
<1> QED
  BY <1>3, <1>4, <1>5 DEF Along

LEMMA AlongSequence ==
  ASSUME NEW n \in Nat, NEW V, NEW b \in V, NEW step \in [(1 .. n) \X V -> V]
  PROVE  \E f \in [0 .. n -> V] : Along(b, step, n, f)
<1> DEFINE Fails == {m \in 0 .. n : \A f \in [0 .. m -> V] : ~Along(b, step, m, f)}
<1>1. Fails = {}
  <2> SUFFICES ASSUME Fails # {} PROVE FALSE
    OBVIOUS
  <2>1. PICK m \in Fails : \A k \in Fails : m <= k
    <3>1. Fails \subseteq Nat
      OBVIOUS
    <3> HIDE DEF Fails
    <3> QED
      BY <3>1, First
  <2>2. m # 0
    <3>1. [x \in 0 .. 0 |-> b] \in [0 .. 0 -> V] /\ Along(b, step, 0, [x \in 0 .. 0 |-> b])
      BY DEF Along
    <3> QED
      BY <3>1
  <2>3. m \in Nat \ {0} /\ m - 1 \in 0 .. n /\ ~(m <= m - 1) /\ 1 .. m \subseteq 1 .. n
    BY <2>1, <2>2
  <2>4. PICK f \in [0 .. (m - 1) -> V] : Along(b, step, m - 1, f)
    BY <2>1, <2>3
  <2> DEFINE less == [e \in (1 .. m) \X V |-> step[e]]
  <2>5. less \in [(1 .. m) \X V -> V]
    BY <2>3
  <2>6. ASSUME NEW k \in Nat, k <= m, NEW g \in [0 .. k -> V]
        PROVE  Along(b, less, k, g) <=> Along(b, step, k, g)
    <3>1. ASSUME NEW i \in 1 .. k
          PROVE  less[<<i, g[i - 1]>>] = step[<<i, g[i - 1]>>]
      <4>1. i \in 1 .. m /\ g[i - 1] \in V
        BY <2>3, <2>6
      <4> QED
        BY <4>1
    <3> HIDE DEF less
    <3> QED
      BY <3>1 DEF Along
  <2> HIDE DEF less
  <2>7. Along(b, less, m - 1, f)
    BY <2>3, <2>4, <2>6
  <2>8. PICK g \in [0 .. m -> V] : Along(b, less, m, g)
    BY <2>3, <2>4, <2>5, <2>7, OneFurther
  <2> QED
    BY <2>1, <2>3, <2>6, <2>8
<1> QED
  BY <1>1

(* What holds at 0 and is handed on from each number to the next.          *)
LEMMA FromZeroOn ==
  ASSUME NEW n \in Nat, NEW Good, 0 \in Good, \A k \in 1 .. n : k - 1 \in Good => k \in Good
  PROVE  0 .. n \subseteq Good
<1> SUFFICES ASSUME (0 .. n) \ Good # {} PROVE FALSE
  OBVIOUS
<1>1. PICK m \in (0 .. n) \ Good : \A k \in (0 .. n) \ Good : m <= k
  <2>1. (0 .. n) \ Good \subseteq Nat
    OBVIOUS
  <2> QED
    BY <2>1, First
<1>2. m \in 1 .. n /\ m - 1 \in 0 .. n /\ ~(m <= m - 1)
  BY <1>1
<1> QED
  BY <1>1, <1>2

LEMMA Appended ==
  ASSUME NEW S, NEW s \in Seq(S), NEW e \in S
  PROVE  /\ Append(s, e) \in Seq(S)
         /\ ToSet(Append(s, e)) = ToSet(s) \cup {e}
         /\ IsInjective(s) /\ e \notin ToSet(s) => IsInjective(Append(s, e))
<1>1. /\ DOMAIN Append(s, e) = 1 .. Len(s) + 1 /\ DOMAIN s = 1 .. Len(s) /\ Len(s) \in Nat
      /\ \A i \in 1 .. Len(s) + 1 : Append(s, e)[i] = IF i = Len(s) + 1 THEN e ELSE s[i]
  OBVIOUS
<1>2. Append(s, e) \in Seq(S)
  OBVIOUS
<1>3. ToSet(Append(s, e)) = ToSet(s) \cup {e}
  BY <1>1 DEF ToSet
<1>4. IsInjective(s) /\ e \notin ToSet(s) => IsInjective(Append(s, e))
  BY <1>1 DEF ToSet, IsInjective
<1> QED
  BY <1>2, <1>3, <1>4

(* What is left of a sequence without an element.                          *)
LEMMA LeftWithout ==
  ASSUME NEW S, NEW list \in Seq(S), NEW x
  PROVE  /\ Without(list, x) \in Seq(S)
         /\ ToSet(Without(list, x)) = ToSet(list) \ {x}
         /\ IsInjective(list) => IsInjective(Without(list, x))
<1> DEFINE n == Len(list)
           V == Seq(S)
           step == [e \in (1 .. n) \X V |-> IF list[e[1]] # x THEN Append(e[2], list[e[1]]) ELSE e[2]]
           left == CHOOSE left : left = [i \in 0 .. n |-> IF i = 0 THEN <<>>
                                           ELSE IF list[i] # x THEN Append(left[i - 1], list[i]) ELSE left[i - 1]]
<1>1. n \in Nat /\ list \in [1 .. n -> S]
  OBVIOUS
<1>2. step \in [(1 .. n) \X V -> V]
  BY <1>1
<1>3. PICK f \in [0 .. n -> V] : Along(<<>>, step, n, f)
  <2>1. <<>> \in V
    OBVIOUS
  <2> HIDE DEF step, V
  <2> QED
    BY <1>1, <1>2, <2>1, AlongSequence
<1>4. \A k \in 1 .. n : f[k] = IF list[k] # x THEN Append(f[k - 1], list[k]) ELSE f[k - 1]
  <2> SUFFICES ASSUME NEW k \in 1 .. n
               PROVE  f[k] = IF list[k] # x THEN Append(f[k - 1], list[k]) ELSE f[k - 1]
    OBVIOUS
  <2>1. f[k] = step[<<k, f[k - 1]>>]
    BY <1>3 DEF Along
  <2>2. f[k - 1] \in V
    BY <1>1, <1>3
  <2> HIDE DEF V
  <2> QED
    BY <2>1, <2>2
<1>5. f = [i \in 0 .. n |-> IF i = 0 THEN <<>> ELSE IF list[i] # x THEN Append(f[i - 1], list[i]) ELSE f[i - 1]]
  <2>1. f[0] = <<>>
    BY <1>3 DEF Along
  <2>2. \A i \in 0 .. n : i = 0 \/ i \in 1 .. n
    BY <1>1
  <2> HIDE DEF step, V, n
  <2>3. \A i \in 0 .. n : f[i] = IF i = 0 THEN <<>>
                                ELSE IF list[i] # x THEN Append(f[i - 1], list[i]) ELSE f[i - 1]
    BY <1>4, <2>1, <2>2
  <2> QED
    BY <1>3, <2>3
<1>6. left = [i \in 0 .. n |-> IF i = 0 THEN <<>>
                ELSE IF list[i] # x THEN Append(left[i - 1], list[i]) ELSE left[i - 1]]
  BY <1>5
<1>7. Without(list, x) = left[n]
  BY DEF Without
<1> HIDE DEF left, step
<1>8. /\ left[0] = <<>>
      /\ \A k \in 1 .. n : left[k] = IF list[k] # x THEN Append(left[k - 1], list[k]) ELSE left[k - 1]
  <2> HIDE DEF n
  <2>1. \A i \in 0 .. n : left[i] = IF i = 0 THEN <<>>
                ELSE IF list[i] # x THEN Append(left[i - 1], list[i]) ELSE left[i - 1]
    BY <1>6
  <2>2. 0 \in 0 .. n /\ \A k \in 1 .. n : k \in 0 .. n /\ k # 0
    BY <1>1
  <2> QED
    BY <2>1, <2>2
<1> DEFINE Remains(i) == /\ left[i] \in Seq(S)
                         /\ ToSet(left[i]) = {list[k] : k \in 1 .. i} \ {x}
                         /\ IsInjective(list) => IsInjective(left[i])
<1>9. 0 .. n \subseteq {i \in 0 .. n : Remains(i)}
  <2>1. Remains(0)
    BY <1>8 DEF ToSet, IsInjective
  <2>2. ASSUME NEW k \in 1 .. n, k - 1 \in 0 .. n, Remains(k - 1)
        PROVE  Remains(k)
    <3>1. list[k] \in S /\ 1 .. k = (1 .. (k - 1)) \cup {k}
      BY <1>1
    <3>2. {list[i] : i \in 1 .. k} = {list[i] : i \in 1 .. (k - 1)} \cup {list[k]}
      BY <3>1
    <3>3. CASE list[k] = x
      BY <1>8, <2>2, <3>2, <3>3
    <3>4. CASE list[k] # x
      <4>1. left[k] = Append(left[k - 1], list[k])
        BY <1>8, <3>4
      <4>2. IsInjective(list) => list[k] \notin ToSet(left[k - 1])
        BY <1>1, <2>2 DEF IsInjective
      <4>3. left[k] \in Seq(S) /\ ToSet(left[k]) = ToSet(left[k - 1]) \cup {list[k]}
        BY <2>2, <3>1, <4>1, Appended
      <4>4. IsInjective(list) => IsInjective(left[k])
        BY <2>2, <3>1, <4>1, <4>2, Appended
      <4>5. ToSet(left[k]) = {list[i] : i \in 1 .. k} \ {x}
        <5> HIDE DEF n
        <5> QED
          BY <2>2, <3>2, <3>4, <4>3
      <4> QED
        BY <4>3, <4>4, <4>5
    <3> QED
      BY <3>3, <3>4
  <2>3. 0 \in {i \in 0 .. n : Remains(i)}
    BY <1>1, <2>1
  <2>4. \A k \in 1 .. n : k - 1 \in {i \in 0 .. n : Remains(i)} => k \in {i \in 0 .. n : Remains(i)}
    <3> HIDE DEF Remains
    <3> QED
      BY <1>1, <2>2
  <2> HIDE DEF Remains, n
  <2> QED
    BY <1>1, <2>3, <2>4, FromZeroOn
<1>10. Remains(n)
  <2> HIDE DEF Remains
  <2> QED
    BY <1>1, <1>9
<1>11. ToSet(list) = {list[k] : k \in 1 .. n}
  BY <1>1 DEF ToSet
<1> QED
  BY <1>7, <1>10, <1>11

-----------------------------------------------------------------------------
(* The pass.  Its queue and the drain's hold entries, each element's once; *)
(* the subscribers are copied when the drain's queue is empty, and every   *)
(* one that is owed is still to come in the copy; and in the drain's queue *)
(* an element comes before those above it only if they waited from before: *)
(* what one arrange queued is in the order of the tree.                    *)
Entries == [elem : Elements, late : BOOLEAN]

Shapes ==
    /\ alive \subseteq Elements /\ collapsed \subseteq Elements
    /\ empty \subseteq Elements /\ told \subseteq Elements /\ owing \subseteq Elements
    /\ handlers = [e \in Elements |-> [v \in Events |-> handlers[e][v]]]
    /\ \A e \in Elements, v \in Events : handlers[e][v] \in Seq(Handlers[e][v]) /\ IsInjective(handlers[e][v])
    /\ subscribed \in [Elements -> BOOLEAN]
    /\ layoutUpdated \in Seq(Elements) /\ sizeChanged \in Seq(Entries)
    /\ drain \in [queued : Seq(Entries), copied : BOOLEAN, subscribers : Seq(Elements)]
    /\ draining \in BOOLEAN /\ undefined \in BOOLEAN
    /\ raising.elem \in Elements \cup {None}

InQueue(q, e) == \E i \in DOMAIN q : q[i].elem = e
Reported ==
    \A e \in alive \ empty : \/ handlers[e]["SizeChanged"] = <<>> \/ e \in told
                             \/ InQueue(sizeChanged, e) \/ InQueue(drain.queued, e)

Draining ==
    /\ ~draining => drain = NoDrain /\ raising = Nothing /\ owing = {}
    /\ drain.copied => drain.queued = <<>>
    /\ owing \subseteq ToSet(drain.subscribers) \cap ToSet(layoutUpdated)

AboveLate(q) == \A i, j \in DOMAIN q : i < j /\ Ancestor(q[j].elem, q[i].elem) => q[j].late
Late(q) == \A i \in DOMAIN q : q[i].late
Order == Late(sizeChanged) /\ AboveLate(drain.queued)

EventsInv == Shapes /\ QueuedOnce /\ SubscribersMatch /\ Reported /\ Draining /\ Order /\ ParentFirst

-----------------------------------------------------------------------------
(* What an arrange queues: what was queued stays in front, and the moved   *)
(* elements with handlers that were not in it follow in the tree's order.  *)
Once(q) == \A i, j \in DOMAIN q : q[i].elem = q[j].elem => i = j
Follows(q, old, n) ==
    /\ q \in Seq(Entries) /\ Len(old) <= Len(q) /\ Once(q)
    /\ \A i \in 1 .. Len(old) : q[i] = old[i]
    /\ \A i \in 1 .. Len(q) : i > Len(old) => q[i].late = draining /\ \E k \in 1 .. n : q[i].elem = Tree[k]
    /\ \A i, j \in 1 .. Len(q) : i > Len(old) /\ i < j =>
          \E k, l \in 1 .. n : k < l /\ q[i].elem = Tree[k] /\ q[j].elem = Tree[l]
Covers(q, moved, n) ==
    \A k \in 1 .. n : Tree[k] \in moved \ collapsed /\ handlers[Tree[k]]["SizeChanged"] # <<>> => InQueue(q, Tree[k])

LEMMA QueueAppends ==
  ASSUME NEW q, NEW e \in Elements, q \in Seq(Entries), draining \in BOOLEAN
  PROVE  /\ Queue(q, e) \in Seq(Entries)
         /\ Queue(q, e) = q \/ (Queue(q, e) = Append(q, Entry(e)) /\ ~InQueue(q, e))
         /\ handlers[e]["SizeChanged"] # <<>> => InQueue(Queue(q, e), e)
<1>1. Entry(e) \in Entries /\ Entry(e).elem = e
  BY DEF Entry, Entries
<1>2. Append(q, Entry(e)) \in Seq(Entries)
  BY <1>1
<1>3. InQueue(Append(q, Entry(e)), e)
  <2>1. Len(q) + 1 \in DOMAIN Append(q, Entry(e)) /\ Append(q, Entry(e))[Len(q) + 1] = Entry(e)
    BY <1>1
  <2> QED
    BY <1>1, <2>1 DEF InQueue
<1> QED
  BY <1>2, <1>3 DEF Queue, InQueue

LEMMA FollowsOn ==
  ASSUME NEW q, NEW old \in Seq(Entries), NEW k \in DOMAIN Tree, draining \in BOOLEAN,
         Follows(q, old, k - 1)
  PROVE  /\ Follows(q, old, k)
         /\ ~InQueue(q, Tree[k]) => Follows(Append(q, Entry(Tree[k])), old, k)
<1>1. k \in 1 .. Len(Tree) /\ Len(Tree) \in Nat /\ Tree[k] \in Elements
  BY TreeAssumption
<1>2. 1 .. (k - 1) \subseteq 1 .. k /\ k \in 1 .. k /\ \A i \in 1 .. (k - 1) : i < k
  BY <1>1
<1>3. Follows(q, old, k)
  <2>1. \A i \in 1 .. Len(q) : i > Len(old) => q[i].late = draining /\ \E l \in 1 .. k : q[i].elem = Tree[l]
    BY <1>2 DEF Follows
  <2>2. \A i, j \in 1 .. Len(q) : i > Len(old) /\ i < j =>
           \E m, l \in 1 .. k : m < l /\ q[i].elem = Tree[m] /\ q[j].elem = Tree[l]
    <3> SUFFICES ASSUME NEW i \in 1 .. Len(q), NEW j \in 1 .. Len(q), i > Len(old) /\ i < j
                 PROVE  \E m, l \in 1 .. k : m < l /\ q[i].elem = Tree[m] /\ q[j].elem = Tree[l]
      OBVIOUS
    <3>1. PICK m \in 1 .. (k - 1), l \in 1 .. (k - 1) : m < l /\ q[i].elem = Tree[m] /\ q[j].elem = Tree[l]
      BY DEF Follows
    <3> QED
      BY <1>2, <3>1
  <2> QED
    BY <2>1, <2>2 DEF Follows
<1>4. ASSUME ~InQueue(q, Tree[k])
      PROVE  Follows(Append(q, Entry(Tree[k])), old, k)
  <2> DEFINE a == Append(q, Entry(Tree[k]))
  <2>1. Entry(Tree[k]) \in Entries /\ Entry(Tree[k]).elem = Tree[k] /\ Entry(Tree[k]).late = draining
    BY <1>1 DEF Entry, Entries
  <2>2. q \in Seq(Entries) /\ Len(q) \in Nat /\ Len(old) \in Nat /\ Len(old) <= Len(q) /\ DOMAIN q = 1 .. Len(q)
    BY DEF Follows
  <2>3. a \in Seq(Entries) /\ Len(a) = Len(q) + 1 /\ DOMAIN a = 1 .. Len(a)
    BY <2>1, <2>2
  <2>4. \A i \in 1 .. Len(q) : a[i] = q[i]
    BY <2>1, <2>2
  <2>5. a[Len(q) + 1] = Entry(Tree[k])
    BY <2>1, <2>2
  <2> HIDE DEF a
  <2>6. \A i \in 1 .. Len(a) : i \in 1 .. Len(q) \/ i = Len(q) + 1
    BY <2>2, <2>3
  <2>7. Once(a)
    <3>1. \A i \in 1 .. Len(q) : a[i].elem # Tree[k]
      BY <1>4, <2>2, <2>4 DEF InQueue
    <3>2. \A i, j \in 1 .. Len(q) : a[i].elem = a[j].elem => i = j
      BY <2>2, <2>4 DEF Follows, Once
    <3> QED
      BY <2>1, <2>3, <2>5, <2>6, <3>1, <3>2 DEF Once
  <2>8. \A i \in 1 .. Len(old) : a[i] = old[i]
    BY <2>2, <2>4 DEF Follows
  <2>9. \A i \in 1 .. Len(q) : i > Len(old) =>
           a[i].late = draining /\ \E l \in 1 .. (k - 1) : a[i].elem = Tree[l]
    BY <2>4 DEF Follows
  <2>10. \A i \in 1 .. Len(a) : i > Len(old) => a[i].late = draining /\ \E l \in 1 .. k : a[i].elem = Tree[l]
    BY <1>2, <2>1, <2>5, <2>6, <2>9
  <2>11. ASSUME NEW i \in 1 .. Len(a), NEW j \in 1 .. Len(a), i > Len(old), i < j
         PROVE  \E m, l \in 1 .. k : m < l /\ a[i].elem = Tree[m] /\ a[j].elem = Tree[l]
    <3>1. i \in 1 .. Len(q)
      BY <2>2, <2>3, <2>11
    <3>2. CASE j \in 1 .. Len(q)
      <4>1. \E m, l \in 1 .. (k - 1) : m < l /\ q[i].elem = Tree[m] /\ q[j].elem = Tree[l]
        BY <2>11, <3>1, <3>2 DEF Follows
      <4> QED
        BY <1>2, <2>4, <3>1, <3>2, <4>1
    <3>3. CASE j = Len(q) + 1
      <4>1. PICK m \in 1 .. (k - 1) : a[i].elem = Tree[m]
        BY <2>9, <2>11, <3>1
      <4> QED
        BY <1>2, <2>1, <2>5, <3>3, <4>1
    <3> QED
      BY <2>6, <3>2, <3>3
  <2> QED
    BY <2>2, <2>3, <2>7, <2>8, <2>10, <2>11 DEF Follows, a
<1> QED
  BY <1>3, <1>4

LEMMA QueuedFollows ==
  ASSUME NEW moved, draining \in BOOLEAN, sizeChanged \in Seq(Entries), Once(sizeChanged)
  PROVE  /\ Follows(Queued(moved), sizeChanged, Len(Tree))
         /\ Covers(Queued(moved), moved, Len(Tree))
<1> DEFINE n == Len(Tree)
           V == Seq(Entries)
           Next1(k, q) == IF Tree[k] \in moved \ collapsed THEN Queue(q, Tree[k]) ELSE q
           step == [e \in (1 .. n) \X V |-> Next1(e[1], e[2])]
           queue == CHOOSE queue : queue =
             [i \in 0 .. n |-> IF i = 0 THEN sizeChanged
                               ELSE IF Tree[i] \in moved \ collapsed THEN Queue(queue[i - 1], Tree[i])
                               ELSE queue[i - 1]]
<1>1. n \in Nat /\ DOMAIN Tree = 1 .. n /\ \A k \in 1 .. n : Tree[k] \in Elements
  BY TreeAssumption
<1>2. \A k \in 1 .. n, q \in V : Next1(k, q) \in V
  BY <1>1, QueueAppends
<1>3. step \in [(1 .. n) \X V -> V]
  <2> HIDE DEF Next1, V, n
  <2> QED
    BY <1>2
<1>4. PICK f \in [0 .. n -> V] : Along(sizeChanged, step, n, f)
  <2> HIDE DEF step, n
  <2> QED
    BY <1>1, <1>3, AlongSequence
<1>5. \A k \in 1 .. n : f[k] = Next1(k, f[k - 1])
  <2> SUFFICES ASSUME NEW k \in 1 .. n PROVE f[k] = Next1(k, f[k - 1])
    OBVIOUS
  <2>1. f[k] = step[<<k, f[k - 1]>>]
    BY <1>4 DEF Along
  <2>2. f[k - 1] \in V
    BY <1>1, <1>4
  <2> HIDE DEF V, Next1
  <2> QED
    BY <2>1, <2>2
<1>6. f = [i \in 0 .. n |-> IF i = 0 THEN sizeChanged ELSE Next1(i, f[i - 1])]
  <2>1. f[0] = sizeChanged
    BY <1>4 DEF Along
  <2>2. \A i \in 0 .. n : i = 0 \/ i \in 1 .. n
    BY <1>1
  <2> HIDE DEF step, V, n, Next1
  <2>3. \A i \in 0 .. n : f[i] = IF i = 0 THEN sizeChanged ELSE Next1(i, f[i - 1])
    BY <1>5, <2>1, <2>2
  <2> QED
    BY <1>4, <2>3
<1>7. queue = [i \in 0 .. n |-> IF i = 0 THEN sizeChanged ELSE Next1(i, queue[i - 1])]
  BY <1>6
<1>8. Queued(moved) = queue[n]
  BY DEF Queued
<1> HIDE DEF queue, step, Next1
<1>9. queue[0] = sizeChanged /\ \A k \in 1 .. n : queue[k] = Next1(k, queue[k - 1])
  <2> HIDE DEF n
  <2>1. \A i \in 0 .. n : queue[i] = IF i = 0 THEN sizeChanged ELSE Next1(i, queue[i - 1])
    BY <1>7
  <2>2. 0 \in 0 .. n /\ \A k \in 1 .. n : k \in 0 .. n /\ k # 0
    BY <1>1
  <2> QED
    BY <2>1, <2>2
<1> DEFINE Good == {i \in 0 .. n : Follows(queue[i], sizeChanged, i) /\ Covers(queue[i], moved, i)}
<1>10. 0 .. n \subseteq Good
  <2>1. 0 \in Good
    <3>1. Follows(sizeChanged, sizeChanged, 0)
      <4>1. Len(sizeChanged) \in Nat /\ DOMAIN sizeChanged = 1 .. Len(sizeChanged)
        OBVIOUS
      <4>2. \A i \in 1 .. Len(sizeChanged) : ~(i > Len(sizeChanged))
        BY <4>1
      <4> QED
        BY <4>1, <4>2 DEF Follows
    <3>2. Covers(sizeChanged, moved, 0)
      BY DEF Covers
    <3> QED
      BY <1>1, <1>9, <3>1, <3>2
  <2>2. ASSUME NEW k \in 1 .. n, k - 1 \in Good
        PROVE  k \in Good
    <3>1. /\ Follows(queue[k - 1], sizeChanged, k - 1) /\ Covers(queue[k - 1], moved, k - 1)
          /\ k \in DOMAIN Tree /\ Tree[k] \in Elements /\ k \in 0 .. n
      BY <1>1, <2>2
    <3>2. queue[k - 1] \in Seq(Entries)
      BY <3>1 DEF Follows
    <3>3. \/ queue[k] = queue[k - 1]
          \/ queue[k] = Append(queue[k - 1], Entry(Tree[k])) /\ ~InQueue(queue[k - 1], Tree[k])
      BY <1>9, <3>1, <3>2, QueueAppends DEF Next1
    <3>4. Follows(queue[k], sizeChanged, k)
      BY <3>1, <3>3, FollowsOn
    <3>5. Covers(queue[k], moved, k)
      <4>1. Tree[k] \in moved \ collapsed /\ handlers[Tree[k]]["SizeChanged"] # <<>> => InQueue(queue[k], Tree[k])
        BY <1>9, <3>1, <3>2, QueueAppends DEF Next1
      <4>2. \A e \in Elements : InQueue(queue[k - 1], e) => InQueue(queue[k], e)
        <5>1. Entry(Tree[k]) \in Entries
          BY <3>1 DEF Entry, Entries
        <5>2. \A i \in DOMAIN queue[k - 1] : /\ i \in DOMAIN Append(queue[k - 1], Entry(Tree[k]))
                                             /\ Append(queue[k - 1], Entry(Tree[k]))[i] = queue[k - 1][i]
          BY <3>2, <5>1
        <5> QED
          BY <3>3, <5>2 DEF InQueue
      <4>3. \A l \in 1 .. k : (l \in 1 .. (k - 1) /\ Tree[l] \in Elements) \/ l = k
        BY <1>1
      <4> QED
        BY <3>1, <4>1, <4>2, <4>3 DEF Covers
    <3> QED
      BY <3>1, <3>4, <3>5
  <2> HIDE DEF Good, n
  <2> QED
    BY <1>1, <2>1, <2>2, FromZeroOn
<1>11. n \in Good
  <2> HIDE DEF Good
  <2> QED
    BY <1>1, <1>10
<1> QED
  BY <1>8, <1>11

-----------------------------------------------------------------------------
LEMMA EventsInit == Init => EventsInv
<1> SUFFICES ASSUME Init PROVE EventsInv
  OBVIOUS
<1> USE DEF Init
<1>1. \A e \in Elements, v \in Events : handlers[e][v] = <<>>
  OBVIOUS
<1>2. ToSet(layoutUpdated) = {} /\ IsInjective(<<>>)
  BY DEF ToSet, IsInjective
<1>3. Shapes
  <2>1. handlers = [e \in Elements |-> [v \in Events |-> handlers[e][v]]]
    OBVIOUS
  <2>2. \A S : <<>> \in Seq(S)
    OBVIOUS
  <2>3. drain \in [queued : Seq(Entries), copied : BOOLEAN, subscribers : Seq(Elements)] /\ raising.elem \in Elements \cup {None}
    BY <2>2 DEF NoDrain, Nothing
  <2>4. \A e \in Elements, v \in Events : handlers[e][v] \in Seq(Handlers[e][v]) /\ IsInjective(handlers[e][v])
    BY <1>1, <1>2, <2>2
  <2> QED
    BY <2>1, <2>2, <2>3, <2>4 DEF Shapes
<1>4. QueuedOnce /\ Order /\ ParentFirst
  BY DEF QueuedOnce, Order, AboveLate, Late, ParentFirst, NoDrain, Nothing
<1>5. SubscribersMatch
  BY <1>1, <1>2 DEF SubscribersMatch, Events
<1>6. Reported /\ Draining
  BY DEF Reported, Draining, NoDrain
<1> QED
  BY <1>3, <1>4, <1>5, <1>6 DEF EventsInv

(* The subscription follows what is wanted, and no one unsubscribed is     *)
(* still owed.                                                             *)
LEMMA SubscribeFollows ==
  ASSUME Shapes, SubscribersMatch, Draining, NEW e \in Elements, NEW wanted \in BOOLEAN, Subscribe(e, wanted)
  PROVE  /\ subscribed' \in [Elements -> BOOLEAN] /\ layoutUpdated' \in Seq(Elements)
         /\ ToSet(layoutUpdated') = IF wanted THEN ToSet(layoutUpdated) \cup {e} ELSE ToSet(layoutUpdated) \ {e}
         /\ \A x \in Elements : subscribed'[x] <=> x \in ToSet(layoutUpdated')
         /\ IsInjective(layoutUpdated')
         /\ owing' \subseteq owing /\ owing' \subseteq ToSet(layoutUpdated')
<1>1. /\ layoutUpdated \in Seq(Elements) /\ IsInjective(layoutUpdated)
      /\ subscribed \in [Elements -> BOOLEAN] /\ owing \subseteq ToSet(layoutUpdated)
      /\ \A x \in Elements : subscribed[x] <=> x \in ToSet(layoutUpdated)
  BY DEF Shapes, SubscribersMatch, Draining
<1>2. subscribed' = [subscribed EXCEPT ![e] = wanted] /\ owing' = IF wanted THEN owing ELSE owing \ {e}
  BY DEF Subscribe
<1>3. /\ layoutUpdated' \in Seq(Elements) /\ IsInjective(layoutUpdated')
      /\ ToSet(layoutUpdated') = IF wanted THEN ToSet(layoutUpdated) \cup {e} ELSE ToSet(layoutUpdated) \ {e}
  <2>1. CASE wanted = subscribed[e] \/ (wanted /\ e \in ToSet(layoutUpdated))
    <3>1. layoutUpdated' = layoutUpdated /\ (e \in ToSet(layoutUpdated) <=> wanted)
      BY <1>1, <2>1 DEF Subscribe
    <3> QED
      BY <1>1, <3>1
  <2>2. CASE wanted # subscribed[e] /\ ~wanted
    <3>1. layoutUpdated' = Without(layoutUpdated, e)
      BY <2>2 DEF Subscribe
    <3> QED
      BY <1>1, <2>2, <3>1, LeftWithout
  <2>3. CASE wanted # subscribed[e] /\ wanted /\ e \notin ToSet(layoutUpdated)
    <3>1. layoutUpdated' = Append(layoutUpdated, e)
      BY <2>3 DEF Subscribe
    <3> QED
      BY <1>1, <2>3, <3>1, Appended
  <2> QED
    BY <2>1, <2>2, <2>3
<1>4. \A x \in Elements : subscribed'[x] = IF x = e THEN wanted ELSE subscribed[x]
  BY <1>1, <1>2
<1> QED
  BY <1>1, <1>2, <1>3, <1>4

Becomes(e, v, list) == handlers' = [handlers EXCEPT ![e][v] = list]

LEMMA HandlersSet ==
  ASSUME Shapes, NEW e \in Elements, NEW v \in Events, NEW list \in Seq(Handlers[e][v]), IsInjective(list),
         Becomes(e, v, list)
  PROVE  /\ handlers' = [x \in Elements |-> [w \in Events |-> handlers'[x][w]]]
         /\ \A x \in Elements, w \in Events : handlers'[x][w] \in Seq(Handlers[x][w]) /\ IsInjective(handlers'[x][w])
         /\ \A x \in Elements, w \in Events : handlers'[x][w] = IF x = e /\ w = v THEN list ELSE handlers[x][w]
<1>1. handlers = [x \in Elements |-> [w \in Events |-> handlers[x][w]]]
  BY DEF Shapes
<1>2. DOMAIN handlers = Elements /\ \A x \in Elements : DOMAIN handlers[x] = Events
  BY <1>1
<1>3. handlers' = [x \in Elements |-> IF x = e THEN [handlers[e] EXCEPT ![v] = list] ELSE handlers[x]]
  BY <1>2 DEF Becomes
<1>4. \A x \in Elements, w \in Events : handlers'[x][w] = IF x = e /\ w = v THEN list ELSE handlers[x][w]
  BY <1>2, <1>3
<1>5. \A x \in Elements : handlers'[x] = [w \in Events |-> handlers'[x][w]]
  <2> SUFFICES ASSUME NEW x \in Elements PROVE handlers'[x] = [w \in Events |-> handlers'[x][w]]
    OBVIOUS
  <2>1. CASE x = e
    BY <1>2, <1>3, <2>1
  <2>2. CASE x # e
    <3>1. handlers[x] = [w \in Events |-> handlers[x][w]]
      BY <1>1
    <3>2. handlers'[x] = handlers[x]
      BY <1>3, <2>2
    <3> QED
      BY <3>1, <3>2
  <2> QED
    BY <2>1, <2>2
<1>6. handlers' = [x \in Elements |-> [w \in Events |-> handlers'[x][w]]]
  BY <1>3, <1>5
<1>7. \A x \in Elements, w \in Events : handlers'[x][w] \in Seq(Handlers[x][w]) /\ IsInjective(handlers'[x][w])
  BY <1>4 DEF Shapes
<1> QED
  BY <1>4, <1>6, <1>7

(* The lists of one living element's handlers change: the subscribers are  *)
(* still those with handlers.                                              *)
LEMMA SetHandlersKeeps ==
  ASSUME Shapes, SubscribersMatch, Draining, NEW e \in alive, NEW v \in Events,
         NEW list \in Seq(Handlers[e][v]), IsInjective(list), SetHandlers(e, v, list),
         UNCHANGED <<alive, draining, drain, raising>>
  PROVE  /\ handlers' = [x \in Elements |-> [w \in Events |-> handlers'[x][w]]]
         /\ \A x \in Elements, w \in Events : handlers'[x][w] \in Seq(Handlers[x][w]) /\ IsInjective(handlers'[x][w])
         /\ \A x \in Elements, w \in Events : handlers'[x][w] = IF x = e /\ w = v THEN list ELSE handlers[x][w]
         /\ subscribed' \in [Elements -> BOOLEAN] /\ layoutUpdated' \in Seq(Elements) /\ owing' \subseteq Elements
         /\ SubscribersMatch' /\ Draining'
<1>1. e \in Elements /\ Becomes(e, v, list)
  BY DEF Shapes, SetHandlers, Becomes
<1>2. /\ handlers' = [x \in Elements |-> [w \in Events |-> handlers'[x][w]]]
      /\ \A x \in Elements, w \in Events : handlers'[x][w] \in Seq(Handlers[x][w]) /\ IsInjective(handlers'[x][w])
      /\ \A x \in Elements, w \in Events : handlers'[x][w] = IF x = e /\ w = v THEN list ELSE handlers[x][w]
  BY <1>1, HandlersSet
<1>3. "LayoutUpdated" \in Events
  BY DEF Events
<1>4. CASE v = "LayoutUpdated"
  <2>1. Subscribe(e, list # <<>>)
    BY <1>4 DEF SetHandlers, Resubscribe
  <2>2. /\ subscribed' \in [Elements -> BOOLEAN] /\ layoutUpdated' \in Seq(Elements)
        /\ ToSet(layoutUpdated') = IF list # <<>> THEN ToSet(layoutUpdated) \cup {e} ELSE ToSet(layoutUpdated) \ {e}
        /\ \A x \in Elements : subscribed'[x] <=> x \in ToSet(layoutUpdated')
        /\ IsInjective(layoutUpdated')
        /\ owing' \subseteq owing /\ owing' \subseteq ToSet(layoutUpdated')
    <3>1. (list # <<>>) \in BOOLEAN
      OBVIOUS
    <3> QED
      BY <1>1, <2>1, <3>1, SubscribeFollows
  <2>3. SubscribersMatch'
    BY <1>2, <1>3, <1>4, <2>2 DEF SubscribersMatch
  <2>4. Draining'
    BY <2>2 DEF Draining
  <2> QED
    BY <1>2, <2>2, <2>3, <2>4 DEF Shapes
<1>5. CASE v # "LayoutUpdated"
  <2>1. UNCHANGED <<subscribed, layoutUpdated, owing>>
    BY <1>5 DEF SetHandlers, Resubscribe
  <2>2. SubscribersMatch'
    BY <1>2, <1>3, <1>5, <2>1 DEF SubscribersMatch
  <2>3. Draining'
    BY <2>1 DEF Draining
  <2> QED
    BY <1>2, <2>1, <2>2, <2>3 DEF Shapes
<1> QED
  BY <1>4, <1>5

LEMMA AddKeeps ==
  ASSUME EventsInv, NEW e \in Elements, NEW v \in Events, NEW h \in Handlers[e][v], Add(e, v, h)
  PROVE  EventsInv'
<1> USE DEF EventsInv
<1>1. /\ e \in alive /\ SetHandlers(e, v, Append(handlers[e][v], h)) /\ h \notin ToSet(handlers[e][v])
      /\ UNCHANGED <<alive, collapsed, empty, sizeChanged, draining, drain, raising, undefined>>
      /\ told' = IF v = "SizeChanged" /\ handlers[e][v] = <<>> THEN told \cup {e} ELSE told
  BY DEF Add, FreshTokens
<1>2. handlers[e][v] \in Seq(Handlers[e][v]) /\ IsInjective(handlers[e][v])
  BY DEF Shapes
<1>3. Append(handlers[e][v], h) \in Seq(Handlers[e][v]) /\ IsInjective(Append(handlers[e][v], h))
  BY <1>1, <1>2, Appended
<1>4. /\ handlers' = [x \in Elements |-> [w \in Events |-> handlers'[x][w]]]
      /\ \A x \in Elements, w \in Events : handlers'[x][w] \in Seq(Handlers[x][w]) /\ IsInjective(handlers'[x][w])
      /\ \A x \in Elements, w \in Events :
            handlers'[x][w] = IF x = e /\ w = v THEN Append(handlers[e][v], h) ELSE handlers[x][w]
      /\ subscribed' \in [Elements -> BOOLEAN] /\ layoutUpdated' \in Seq(Elements) /\ owing' \subseteq Elements
      /\ SubscribersMatch' /\ Draining'
  BY <1>1, <1>3, SetHandlersKeeps
<1>5. Shapes'
  BY <1>1, <1>4 DEF Shapes
<1>6. QueuedOnce' /\ Order' /\ ParentFirst'
  BY <1>1 DEF QueuedOnce, Order, AboveLate, Late, ParentFirst
<1>7. Reported'
  <2> SUFFICES ASSUME NEW x \in alive \ empty
               PROVE  \/ handlers'[x]["SizeChanged"] = <<>> \/ x \in told'
                      \/ InQueue(sizeChanged, x) \/ InQueue(drain.queued, x)
    BY <1>1 DEF Reported
  <2>1. \/ handlers[x]["SizeChanged"] = <<>> \/ x \in told
        \/ InQueue(sizeChanged, x) \/ InQueue(drain.queued, x)
    BY DEF Reported
  <2>2. x \in Elements /\ "SizeChanged" \in Events
    BY DEF Shapes, Events
  <2> QED
    BY <1>1, <1>4, <2>1, <2>2
<1> QED
  BY <1>4, <1>5, <1>6, <1>7

LEMMA UnregisterKeeps ==
  ASSUME EventsInv, NEW e \in Elements, NEW v \in Events, NEW h \in Handlers[e][v], Unregister(e, v, h)
  PROVE  EventsInv'
<1> USE DEF EventsInv
<1>1. /\ e \in alive /\ SetHandlers(e, v, Without(handlers[e][v], h)) /\ h \in ToSet(handlers[e][v])
      /\ UNCHANGED <<alive, collapsed, empty, told, sizeChanged, draining, drain, raising, undefined>>
  BY DEF Unregister, layout
<1>2. handlers[e][v] \in Seq(Handlers[e][v]) /\ IsInjective(handlers[e][v])
  BY DEF Shapes
<1>3. Without(handlers[e][v], h) \in Seq(Handlers[e][v]) /\ IsInjective(Without(handlers[e][v], h))
  BY <1>1, <1>2, LeftWithout
<1>4. /\ handlers' = [x \in Elements |-> [w \in Events |-> handlers'[x][w]]]
      /\ \A x \in Elements, w \in Events : handlers'[x][w] \in Seq(Handlers[x][w]) /\ IsInjective(handlers'[x][w])
      /\ \A x \in Elements, w \in Events :
            handlers'[x][w] = IF x = e /\ w = v THEN Without(handlers[e][v], h) ELSE handlers[x][w]
      /\ subscribed' \in [Elements -> BOOLEAN] /\ layoutUpdated' \in Seq(Elements) /\ owing' \subseteq Elements
      /\ SubscribersMatch' /\ Draining'
  BY <1>1, <1>3, SetHandlersKeeps
<1>5. Shapes'
  BY <1>1, <1>4 DEF Shapes
<1>6. QueuedOnce' /\ Order' /\ ParentFirst'
  BY <1>1 DEF QueuedOnce, Order, AboveLate, Late, ParentFirst
<1>7. Reported'
  <2> SUFFICES ASSUME NEW x \in alive \ empty
               PROVE  \/ handlers'[x]["SizeChanged"] = <<>> \/ x \in told
                      \/ InQueue(sizeChanged, x) \/ InQueue(drain.queued, x)
    BY <1>1 DEF Reported
  <2>1. \/ handlers[x]["SizeChanged"] = <<>> \/ x \in told
        \/ InQueue(sizeChanged, x) \/ InQueue(drain.queued, x)
    BY DEF Reported
  <2>2. x \in Elements /\ "SizeChanged" \in Events
    BY DEF Shapes, Events
  <2>3. CASE handlers[x]["SizeChanged"] = <<>>
    <3>1. handlers[e][v] # <<>>
      BY <1>1 DEF ToSet
    <3>2. ~(x = e /\ v = "SizeChanged")
      BY <2>3, <3>1
    <3> QED
      BY <1>4, <2>2, <2>3, <3>2
  <2> QED
    BY <2>1, <2>3
<1> QED
  BY <1>4, <1>5, <1>6, <1>7

LEMMA DestroyKeeps ==
  ASSUME EventsInv, NEW e \in Elements, Destroy(e)
  PROVE  EventsInv'
<1> USE DEF EventsInv
<1>1. /\ e \in alive /\ alive' = alive \ {e} /\ handlers' = [handlers EXCEPT ![e] = [v \in Events |-> <<>>]]
      /\ Subscribe(e, FALSE)
      /\ collapsed' = collapsed \ {e} /\ empty' = empty \cup {e} /\ told' = told \cup {e}
      /\ UNCHANGED <<sizeChanged, draining, drain, raising, undefined>>
  BY DEF Destroy
<1>2. /\ subscribed' \in [Elements -> BOOLEAN] /\ layoutUpdated' \in Seq(Elements)
      /\ ToSet(layoutUpdated') = ToSet(layoutUpdated) \ {e}
      /\ \A x \in Elements : subscribed'[x] <=> x \in ToSet(layoutUpdated')
      /\ IsInjective(layoutUpdated')
      /\ owing' \subseteq owing /\ owing' \subseteq ToSet(layoutUpdated')
  BY <1>1, SubscribeFollows
<1>3. handlers = [x \in Elements |-> [v \in Events |-> handlers[x][v]]]
  BY DEF Shapes
<1>4. /\ handlers' = [x \in Elements |-> IF x = e THEN [v \in Events |-> <<>>] ELSE handlers[x]]
      /\ \A x \in Elements, v \in Events : handlers'[x][v] = IF x = e THEN <<>> ELSE handlers[x][v]
  BY <1>1, <1>3
<1>5. handlers' = [x \in Elements |-> [v \in Events |-> handlers'[x][v]]]
  <2>1. \A x \in Elements : handlers'[x] = [v \in Events |-> handlers'[x][v]]
    <3> SUFFICES ASSUME NEW x \in Elements PROVE handlers'[x] = [v \in Events |-> handlers'[x][v]]
      OBVIOUS
    <3>1. CASE x = e
      BY <1>4, <3>1
    <3>2. CASE x # e
      <4>1. handlers'[x] = handlers[x]
        BY <1>4, <3>2
      <4>2. handlers[x] = [v \in Events |-> handlers[x][v]]
        BY <1>3
      <4> QED
        BY <4>1, <4>2
    <3> QED
      BY <3>1, <3>2
  <2> QED
    BY <1>4, <2>1
<1>6. \A x \in Elements, v \in Events : handlers'[x][v] \in Seq(Handlers[x][v]) /\ IsInjective(handlers'[x][v])
  <2>1. \A S : <<>> \in Seq(S)
    OBVIOUS
  <2>2. IsInjective(<<>>)
    BY DEF IsInjective
  <2> QED
    BY <1>4, <2>1, <2>2 DEF Shapes
<1>7. Shapes'
  BY <1>1, <1>2, <1>5, <1>6 DEF Shapes
<1>8. QueuedOnce' /\ Order' /\ ParentFirst'
  BY <1>1 DEF QueuedOnce, Order, AboveLate, Late, ParentFirst
<1>9. SubscribersMatch'
  <2>1. "LayoutUpdated" \in Events
    BY DEF Events
  <2> QED
    BY <1>1, <1>2, <1>4, <2>1 DEF SubscribersMatch
<1>10. Draining'
  BY <1>1, <1>2 DEF Draining
<1>11. Reported'
  <2> SUFFICES ASSUME NEW x \in (alive \ {e}) \ empty, x # e
               PROVE  \/ handlers'[x]["SizeChanged"] = <<>> \/ x \in told
                      \/ InQueue(sizeChanged, x) \/ InQueue(drain.queued, x)
    BY <1>1 DEF Reported
  <2>1. x \in Elements /\ "SizeChanged" \in Events /\ x # e
    BY DEF Shapes, Events
  <2> QED
    BY <1>4, <2>1 DEF Reported
<1> QED
  BY <1>7, <1>8, <1>9, <1>10, <1>11

LEMMA VisibilityKeeps ==
  ASSUME EventsInv, NEW e \in Elements, SetVisibility(e)
  PROVE  EventsInv'
<1> USE DEF EventsInv
<1>1. /\ collapsed' \subseteq collapsed \cup {e}
      /\ UNCHANGED <<alive, empty, told, handlers, subscribed, layoutUpdated, sizeChanged, draining, drain,
                     raising, undefined, owing>>
  BY DEF SetVisibility, registrations
<1>2. Shapes'
  BY <1>1 DEF Shapes
<1>3. QueuedOnce' /\ Order' /\ ParentFirst'
  BY <1>1 DEF QueuedOnce, Order, AboveLate, Late, ParentFirst
<1>4. SubscribersMatch' /\ Draining'
  BY <1>1 DEF SubscribersMatch, Draining
<1>5. Reported'
  BY <1>1 DEF Reported
<1> QED
  BY <1>2, <1>3, <1>4, <1>5

-----------------------------------------------------------------------------
(* In the order of the tree no element is above a later one: the elements  *)
(* that come after an element have only later ones above them.             *)
LEMMA AboveIsLater ==
  ASSUME NEW k \in DOMAIN Tree, NEW l \in DOMAIN Tree, Ancestor(Tree[k], Tree[l])
  PROVE  k > l
<1> DEFINE S == {Tree[j] : j \in {i \in DOMAIN Tree : i > l}}
<1>1. DOMAIN Tree \subseteq Nat /\ \A i \in DOMAIN Tree : Tree[i] \in Elements
  BY TreeAssumption
<1>2. ASSUME NEW i \in DOMAIN Tree, i >= l
      PROVE  Parent[Tree[i]] \in S \cup {None}
  <2>1. Parent[Tree[i]] \in Elements \cup {None}
    BY <1>1, TreeAssumption
  <2>2. CASE Parent[Tree[i]] \in Elements
    <3>1. PICK j \in DOMAIN Tree : Tree[j] = Parent[Tree[i]]
      BY <2>2 DEF Elements, ToSet
    <3>2. i < j
      BY <3>1, TreeAssumption
    <3>3. j > l
      BY <1>1, <1>2, <3>2
    <3> QED
      BY <3>1, <3>3
  <2> QED
    BY <2>1, <2>2
<1>3. S \in SUBSET Elements
  BY <1>1
<1>4. Upwards(S)
  <2> SUFFICES ASSUME NEW x \in S PROVE Parent[x] \in S \cup {None}
    BY DEF Upwards
  <2>1. PICK j \in DOMAIN Tree : j > l /\ x = Tree[j]
    OBVIOUS
  <2> HIDE DEF S
  <2> QED
    BY <1>1, <1>2, <2>1
<1>5. Parent[Tree[l]] \in S \cup {None}
  <2> HIDE DEF S
  <2> QED
    BY <1>1, <1>2
<1>6. Tree[k] \in S
  <2> HIDE DEF S
  <2> QED
    BY <1>3, <1>4, <1>5 DEF Ancestor
<1>7. PICK j \in DOMAIN Tree : j > l /\ Tree[k] = Tree[j]
  BY <1>6
<1>8. k = j
  BY <1>7, TreeAssumption DEF IsInjective
<1> QED
  BY <1>7, <1>8

(* The queue read from its end: an element precedes those above it only    *)
(* if they were queued before this arrange.                                *)
LEMMA BackwardsOrder ==
  ASSUME NEW q, NEW old \in Seq(Entries), Late(old), Follows(q, old, Len(Tree))
  PROVE  /\ Backwards(q) \in Seq(Entries) /\ AboveLate(Backwards(q)) /\ Once(Backwards(q))
         /\ \A e \in Elements : InQueue(Backwards(q), e) <=> InQueue(q, e)
<1> DEFINE r == Backwards(q)
           back(i) == Len(q) - i + 1
<1>1. q \in Seq(Entries) /\ Len(q) \in Nat /\ DOMAIN q = 1 .. Len(q) /\ Len(old) \in Nat /\ DOMAIN old = 1 .. Len(old)
  BY DEF Follows
<1>2. r = [i \in 1 .. Len(q) |-> q[back(i)]]
  BY DEF Backwards, Reverse
<1>3. \A i \in 1 .. Len(q) : back(i) \in 1 .. Len(q) /\ back(back(i)) = i
  BY <1>1
<1>4. \A i, j \in 1 .. Len(q) : (i < j => back(j) < back(i)) /\ (back(i) = back(j) => i = j)
  BY <1>1
<1>5. \A i \in 1 .. Len(q) : r[i] = q[back(i)] /\ q[i] = r[back(i)]
  BY <1>2, <1>3
<1>6. r \in Seq(Entries) /\ DOMAIN r = 1 .. Len(q) /\ Len(r) = Len(q)
  <2>1. \A i \in 1 .. Len(q) : q[i] \in Entries
    BY <1>1
  <2>2. r \in [1 .. Len(q) -> Entries]
    BY <1>2, <1>3, <2>1
  <2> HIDE DEF r
  <2> QED
    BY <1>1, <2>2
<1> HIDE DEF r, back
<1>7. Once(r)
  <2>1. \A i, j \in 1 .. Len(q) : q[i].elem = q[j].elem => i = j
    BY <1>1 DEF Follows, Once
  <2> QED
    BY <1>3, <1>4, <1>5, <1>6, <2>1 DEF Once
<1>8. \A e \in Elements : InQueue(r, e) <=> InQueue(q, e)
  BY <1>1, <1>3, <1>5, <1>6 DEF InQueue
<1>9. ASSUME NEW i \in 1 .. Len(q), NEW j \in 1 .. Len(q), i < j, Ancestor(r[j].elem, r[i].elem)
      PROVE  r[j].late
  <2> DEFINE a == back(j)
             b == back(i)
  <2>1. a \in 1 .. Len(q) /\ b \in 1 .. Len(q) /\ a < b /\ r[j] = q[a] /\ r[i] = q[b]
    BY <1>3, <1>4, <1>5, <1>9
  <2> HIDE DEF a, b
  <2>2. CASE a \in 1 .. Len(old)
    BY <1>1, <2>1, <2>2 DEF Follows, Late
  <2>3. CASE a \notin 1 .. Len(old)
    <3>1. a > Len(old)
      BY <1>1, <2>1, <2>3
    <3>2. PICK k, l \in 1 .. Len(Tree) : k < l /\ q[a].elem = Tree[k] /\ q[b].elem = Tree[l]
      BY <2>1, <3>1 DEF Follows
    <3>3. DOMAIN Tree = 1 .. Len(Tree) /\ Len(Tree) \in Nat
      BY TreeAssumption
    <3>4. k > l
      BY <1>9, <2>1, <3>2, <3>3, AboveIsLater
    <3> QED
      BY <3>2, <3>3, <3>4
  <2> QED
    BY <2>2, <2>3
<1>10. AboveLate(r)
  BY <1>6, <1>9 DEF AboveLate
<1> QED
  BY <1>6, <1>7, <1>8, <1>10 DEF r

LEMMA ArrangeKeeps ==
  ASSUME EventsInv, NEW e \in alive, NEW moved \in CanMove(e), Arrange(e, moved)
  PROVE  EventsInv'
<1> USE DEF EventsInv
<1> DEFINE q == Queued(moved)
<1>1. /\ empty' = (empty \ Under(e)) \cup (Under(e) \cap collapsed) /\ told' = told \ moved
      /\ UNCHANGED <<alive, collapsed, handlers, subscribed, layoutUpdated, raising, undefined, owing>>
  BY DEF Arrange, registrations
<1>2. IF ~draining
      THEN /\ draining' = TRUE /\ drain' = [queued |-> Backwards(q), copied |-> FALSE, subscribers |-> <<>>]
           /\ sizeChanged' = <<>>
      ELSE sizeChanged' = q /\ UNCHANGED <<draining, drain>>
  BY DEF Arrange, Drains, NoDrain
<1>3. /\ draining \in BOOLEAN /\ sizeChanged \in Seq(Entries) /\ Once(sizeChanged)
      /\ layoutUpdated \in Seq(Elements) /\ Late(sizeChanged) /\ alive \subseteq Elements
  BY DEF Shapes, QueuedOnce, Once, Order
<1>4. Follows(q, sizeChanged, Len(Tree)) /\ Covers(q, moved, Len(Tree))
  BY <1>3, QueuedFollows
<1>5. q \in Seq(Entries) /\ Once(q)
  BY <1>4 DEF Follows
<1>6. /\ Backwards(q) \in Seq(Entries) /\ AboveLate(Backwards(q)) /\ Once(Backwards(q))
      /\ \A x \in Elements : InQueue(Backwards(q), x) <=> InQueue(q, x)
  BY <1>3, <1>4, BackwardsOrder
<1>7. \A x \in Elements : InQueue(sizeChanged, x) => InQueue(q, x)
  <2>1. \A i \in DOMAIN sizeChanged : i \in DOMAIN q /\ q[i] = sizeChanged[i]
    BY <1>3, <1>4, <1>5 DEF Follows
  <2> QED
    BY <2>1 DEF InQueue
<1>8. moved \subseteq Under(e) /\ Under(e) \subseteq alive
      /\ \A x \in Under(e) : IF x \in collapsed THEN x \in moved <=> x \notin empty ELSE x \in empty => x \in moved
  BY DEF CanMove, Under
<1> HIDE DEF q
<1>9. Shapes'
  <2>1. empty' \subseteq Elements /\ told' \subseteq Elements
    BY <1>1, <1>3, <1>8 DEF Shapes
  <2>2. sizeChanged' \in Seq(Entries) /\ draining' \in BOOLEAN
    <3>1. <<>> \in Seq(Entries)
      OBVIOUS
    <3> QED
      BY <1>2, <1>3, <1>5, <3>1, Zenon
  <2>3. drain' \in [queued : Seq(Entries), copied : BOOLEAN, subscribers : Seq(Elements)] /\ owing' \subseteq Elements
    <3>1. CASE ~draining
      <4>1. drain' = [queued |-> Backwards(q), copied |-> FALSE, subscribers |-> <<>>] /\ <<>> \in Seq(Elements)
        BY <1>2, <3>1
      <4> QED
        BY <1>1, <1>6, <4>1 DEF Shapes
    <3>2. CASE draining
      BY <1>1, <1>2, <3>2 DEF Shapes
    <3> QED
      BY <3>1, <3>2
  <2> QED
    BY <1>1, <2>1, <2>2, <2>3 DEF Shapes
<1>10. QueuedOnce'
  <2>1. Once(sizeChanged')
    <3>1. Once(<<>>)
      BY DEF Once
    <3> QED
      BY <1>2, <1>5, <3>1
  <2>2. Once(drain'.queued)
    <3>1. CASE ~draining
      BY <1>2, <1>6, <3>1
    <3>2. CASE draining
      BY <1>2, <3>2 DEF QueuedOnce, Once
    <3> QED
      BY <3>1, <3>2
  <2> QED
    BY <2>1, <2>2 DEF QueuedOnce, Once
<1>11. SubscribersMatch'
  BY <1>1 DEF SubscribersMatch
<1>12. Draining'
  <2>1. CASE ~draining
    <3>1. owing' = {} /\ draining' /\ ~drain'.copied
      BY <1>1, <1>2, <2>1 DEF Draining
    <3> QED
      BY <3>1 DEF Draining
  <2>2. CASE draining
    BY <1>1, <1>2, <2>2 DEF Draining
  <2> QED
    BY <2>1, <2>2
<1>13. Order'
  <2>1. CASE ~draining
    <3>1. Late(<<>>)
      BY DEF Late
    <3>2. drain'.queued = Backwards(q) /\ sizeChanged' = <<>>
      BY <1>2, <2>1
    <3>3. AboveLate(drain'.queued)
      BY <1>6, <3>2
    <3> QED
      BY <3>1, <3>2, <3>3 DEF Order, AboveLate, Late
  <2>2. CASE draining
    <3>1. Late(q)
      <4>1. \A i \in 1 .. Len(q) : (i \in 1 .. Len(sizeChanged) /\ q[i] = sizeChanged[i]) \/ q[i].late = draining
        BY <1>3, <1>4, <1>5 DEF Follows
      <4>2. DOMAIN q = 1 .. Len(q) /\ DOMAIN sizeChanged = 1 .. Len(sizeChanged)
        BY <1>3, <1>5
      <4> QED
        BY <1>3, <2>2, <4>1, <4>2, Zenon DEF Late
    <3> QED
      BY <1>2, <2>2, <3>1 DEF Order, AboveLate, Late
  <2> QED
    BY <2>1, <2>2
<1>14. ParentFirst'
  <2>1. CASE ~draining
    <3>1. raising'.elem = None
      BY <1>1, <2>1 DEF Draining, Nothing
    <3> QED
      BY <3>1 DEF ParentFirst
  <2>2. CASE draining
    BY <1>1, <1>2, <2>2 DEF ParentFirst
  <2> QED
    BY <2>1, <2>2
<1>15. Reported'
  <2> SUFFICES ASSUME NEW x \in alive, x \notin empty'
               PROVE  \/ handlers[x]["SizeChanged"] = <<>> \/ x \in told'
                      \/ InQueue(sizeChanged', x) \/ InQueue(drain'.queued, x)
    BY <1>1 DEF Reported
  <2>1. x \in Elements
    BY <1>3
  <2>2. InQueue(q, x) => InQueue(sizeChanged', x) \/ InQueue(drain'.queued, x)
    <3>1. CASE ~draining
      BY <1>2, <1>6, <2>1, <3>1
    <3>2. CASE draining
      BY <1>2, <3>2
    <3> QED
      BY <3>1, <3>2
  <2>3. CASE x \in moved
    <3>1. x \in Under(e) /\ x \notin collapsed
      BY <1>1, <1>8, <2>3
    <3>2. PICK k \in 1 .. Len(Tree) : Tree[k] = x
      BY <2>1, TreeAssumption DEF Elements, ToSet
    <3>3. handlers[x]["SizeChanged"] # <<>> => InQueue(q, x)
      BY <1>4, <2>3, <3>1, <3>2 DEF Covers
    <3> QED
      BY <2>2, <3>3
  <2>4. CASE x \notin moved
    <3>1. x \notin empty
      BY <1>1, <1>8, <2>4
    <3>2. \/ handlers[x]["SizeChanged"] = <<>> \/ x \in told
          \/ InQueue(sizeChanged, x) \/ InQueue(drain.queued, x)
      BY <3>1 DEF Reported
    <3>3. InQueue(drain.queued, x) => draining
      BY DEF Draining, NoDrain, InQueue
    <3> QED
      BY <1>1, <1>2, <1>7, <2>1, <2>2, <2>4, <3>2, <3>3
  <2> QED
    BY <2>3, <2>4
<1> QED
  BY <1>9, <1>10, <1>11, <1>12, <1>13, <1>14, <1>15

-----------------------------------------------------------------------------
(* What is raised is the event for that element, or nothing is left of it. *)
LEMMA Raised ==
  ASSUME NEW e, NEW v, NEW list, Raise(e, v, list)
  PROVE  raising' = Nothing \/ (raising'.elem = e /\ raising'.event = v)
<1>1. CASE FirstThere(e, v, list) = 0
  BY <1>1 DEF Raise
<1>2. CASE FirstThere(e, v, list) # 0
  BY <1>2 DEF Raise
<1> QED
  BY <1>1, <1>2

LEMMA ReturnKeeps ==
  ASSUME EventsInv, HandlerReturns
  PROVE  EventsInv'
<1> USE DEF EventsInv
<1>1. /\ raising.running # None
      /\ undefined' = undefined \/ undefined' = TRUE
      /\ UNCHANGED <<alive, collapsed, empty, told, handlers, subscribed, layoutUpdated, sizeChanged, draining, drain,
                     owing>>
  BY DEF HandlerReturns, layout, registrations
<1>2. raising' = Nothing \/ (raising'.elem = raising.elem /\ raising'.event = raising.event)
  <2>1. CASE Raise(raising.elem, raising.event, raising.rest)
    BY <2>1, Raised
  <2>2. CASE UNCHANGED raising
    BY <2>2
  <2> QED
    BY <2>1, <2>2 DEF HandlerReturns
<1>3. draining
  BY <1>1 DEF Draining, Nothing, Shapes
<1>4. Shapes'
  <2>1. raising'.elem \in Elements \cup {None}
    BY <1>2 DEF Shapes, Nothing
  <2>2. undefined' \in BOOLEAN
    BY <1>1, Zenon DEF Shapes
  <2> QED
    BY <1>1, <2>1, <2>2 DEF Shapes
<1>5. QueuedOnce' /\ Order'
  BY <1>1 DEF QueuedOnce, Order, AboveLate, Late
<1>6. ParentFirst'
  <2>1. CASE raising' = Nothing
    BY <2>1 DEF ParentFirst, Nothing
  <2>2. CASE raising'.elem = raising.elem /\ raising'.event = raising.event
    BY <1>1, <2>2 DEF ParentFirst
  <2> QED
    BY <1>2, <2>1, <2>2
<1>7. SubscribersMatch' /\ Draining'
  BY <1>1, <1>3 DEF SubscribersMatch, Draining
<1>8. Reported'
  BY <1>1 DEF Reported
<1> QED
  BY <1>4, <1>5, <1>6, <1>7, <1>8

(* The rest of a sequence.                                                 *)
LEMMA Rest ==
  ASSUME NEW S, NEW s \in Seq(S), s # <<>>
  PROVE  /\ Head(s) \in S /\ Head(s) = s[1] /\ 1 \in DOMAIN s /\ Tail(s) \in Seq(S) /\ Len(Tail(s)) <= Len(s)
         /\ \A i \in DOMAIN Tail(s) : i + 1 \in DOMAIN s /\ Tail(s)[i] = s[i + 1] /\ i \in Nat
         /\ \A i \in DOMAIN s : i = 1 \/ (i - 1 \in DOMAIN Tail(s) /\ Tail(s)[i - 1] = s[i] /\ i \in Nat)
         /\ ToSet(s) = {Head(s)} \cup ToSet(Tail(s))
<1>1. /\ Len(s) \in Nat \ {0} /\ DOMAIN s = 1 .. Len(s) /\ Head(s) = s[1] /\ Head(s) \in S
      /\ Tail(s) \in Seq(S) /\ Len(Tail(s)) = Len(s) - 1 /\ DOMAIN Tail(s) = 1 .. (Len(s) - 1)
      /\ \A i \in 1 .. (Len(s) - 1) : Tail(s)[i] = s[i + 1]
  OBVIOUS
<1>2. \A i \in DOMAIN Tail(s) : i + 1 \in DOMAIN s /\ Tail(s)[i] = s[i + 1] /\ i \in Nat
  BY <1>1
<1>3. \A i \in DOMAIN s : i = 1 \/ (i - 1 \in DOMAIN Tail(s) /\ Tail(s)[i - 1] = s[i] /\ i \in Nat)
  BY <1>1
<1>4. 1 \in DOMAIN s /\ Len(Tail(s)) <= Len(s)
  BY <1>1
<1>5. ToSet(s) = {Head(s)} \cup ToSet(Tail(s))
  <2>1. \A i \in DOMAIN s : s[i] \in {Head(s)} \cup ToSet(Tail(s))
    BY <1>1, <1>3 DEF ToSet
  <2>2. Head(s) \in ToSet(s) /\ \A i \in DOMAIN Tail(s) : Tail(s)[i] \in ToSet(s)
    BY <1>1, <1>2, <1>4 DEF ToSet
  <2> QED
    BY <2>1, <2>2 DEF ToSet
<1> QED
  BY <1>1, <1>2, <1>3, <1>4, <1>5

LEMMA SizeRaisedKeeps ==
  ASSUME EventsInv, RaiseSizeChanged
  PROVE  EventsInv'
<1> USE DEF EventsInv
<1> DEFINE q == drain.queued
           e == Head(q).elem
<1>1. /\ draining /\ raising = Nothing /\ q # <<>>
      /\ drain' = [drain EXCEPT !.queued = Tail(q)]
      /\ UNCHANGED <<alive, collapsed, empty, handlers, subscribed, layoutUpdated, sizeChanged, draining, owing>>
  BY DEF RaiseSizeChanged, Idle, registrations
<1>2. \/ e \in alive /\ Raise(e, "SizeChanged", handlers[e]["SizeChanged"]) /\ told' = told \cup {e} /\ undefined' = undefined
      \/ e \notin alive /\ undefined' = TRUE /\ raising' = raising /\ told' = told
  BY DEF RaiseSizeChanged
<1>3. q \in Seq(Entries) /\ drain \in [queued : Seq(Entries), copied : BOOLEAN, subscribers : Seq(Elements)]
  BY DEF Shapes
<1>4. /\ Head(q) \in Entries /\ Head(q) = q[1] /\ 1 \in DOMAIN q /\ Tail(q) \in Seq(Entries)
      /\ \A i \in DOMAIN Tail(q) : i + 1 \in DOMAIN q /\ Tail(q)[i] = q[i + 1] /\ i \in Nat
      /\ \A i \in DOMAIN q : i = 1 \/ (i - 1 \in DOMAIN Tail(q) /\ Tail(q)[i - 1] = q[i] /\ i \in Nat)
  BY <1>1, <1>3, Rest
<1>5. drain'.queued = Tail(q) /\ drain'.subscribers = drain.subscribers /\ drain'.copied = drain.copied
      /\ drain' \in [queued : Seq(Entries), copied : BOOLEAN, subscribers : Seq(Elements)]
  BY <1>1, <1>3, <1>4
<1>6. e \in Elements /\ q[1].elem = e
  BY <1>4 DEF Entries
<1>7. raising' = Nothing \/ (raising'.elem = e /\ raising'.event = "SizeChanged")
  BY <1>1, <1>2, Raised
<1> HIDE DEF e
<1>8. Shapes'
  <2>1. /\ raising'.elem \in Elements \cup {None} /\ undefined' \in BOOLEAN /\ told' \subseteq Elements
    <3>1. raising'.elem \in Elements \cup {None}
      BY <1>6, <1>7 DEF Nothing
    <3>2. undefined \in BOOLEAN /\ told \subseteq Elements
      BY DEF Shapes
    <3>3. undefined' \in BOOLEAN
      BY <1>2, <3>2, Zenon
    <3>4. told' \subseteq Elements
      BY <1>2, <1>6, <3>2
    <3> QED
      BY <3>1, <3>3, <3>4
  <2> HIDE DEF q
  <2> QED
    BY <1>1, <1>5, <2>1 DEF Shapes
<1> HIDE DEF q
<1>9. QueuedOnce'
  <2>1. Once(q) /\ Once(sizeChanged)
    BY DEF QueuedOnce, Once, q
  <2>2. Once(Tail(q))
    BY <1>4, <2>1 DEF Once
  <2> QED
    BY <1>1, <1>5, <2>1, <2>2 DEF QueuedOnce, Once
<1>10. Order' /\ ParentFirst'
  <2>1. AboveLate(q) /\ Late(sizeChanged)
    BY DEF Order, q
  <2>2. AboveLate(Tail(q))
    BY <1>4, <2>1 DEF AboveLate
  <2>3. \A i \in DOMAIN Tail(q) : Ancestor(Tail(q)[i].elem, e) => Tail(q)[i].late
    <3> SUFFICES ASSUME NEW i \in DOMAIN Tail(q), Ancestor(Tail(q)[i].elem, e) PROVE Tail(q)[i].late
      OBVIOUS
    <3>1. i + 1 \in DOMAIN q /\ Tail(q)[i] = q[i + 1] /\ 1 < i + 1 /\ 1 \in DOMAIN q
      <4>1. DOMAIN Tail(q) = 1 .. Len(Tail(q)) /\ Len(Tail(q)) \in Nat
        BY <1>4
      <4>2. i \in 1 .. Len(Tail(q))
        BY <4>1
      <4> QED
        BY <1>4, <4>1, <4>2
    <3> QED
      BY <1>6, <2>1, <3>1 DEF AboveLate
  <2>4. Order'
    BY <1>1, <1>5, <2>1, <2>2 DEF Order, AboveLate, Late
  <2>5. ParentFirst'
    <3>1. CASE raising' = Nothing
      BY <3>1 DEF ParentFirst, Nothing
    <3>2. CASE raising'.elem = e
      BY <1>5, <2>3, <3>2 DEF ParentFirst
    <3> QED
      BY <1>7, <3>1, <3>2
  <2> QED
    BY <2>4, <2>5
<1>11. SubscribersMatch' /\ Draining'
  <2>1. ~drain.copied
    BY <1>1 DEF Draining, q
  <2> QED
    BY <1>1, <1>5, <2>1 DEF SubscribersMatch, Draining
<1>12. Reported'
  <2> SUFFICES ASSUME NEW x \in alive \ empty
               PROVE  \/ handlers[x]["SizeChanged"] = <<>> \/ x \in told'
                      \/ InQueue(sizeChanged, x) \/ InQueue(Tail(q), x)
    BY <1>1, <1>5 DEF Reported
  <2>1. \/ handlers[x]["SizeChanged"] = <<>> \/ x \in told
        \/ InQueue(sizeChanged, x) \/ InQueue(q, x)
    BY DEF Reported, q
  <2>2. InQueue(q, x) => x = e \/ InQueue(Tail(q), x)
    BY <1>4, <1>6 DEF InQueue
  <2> QED
    BY <1>2, <2>1, <2>2
<1> QED
  BY <1>8, <1>9, <1>10, <1>11, <1>12

LEMMA CopyKeeps ==
  ASSUME EventsInv, CopySubscribers
  PROVE  EventsInv'
<1> USE DEF EventsInv
<1>1. /\ draining /\ drain.queued = <<>> /\ owing' = ToSet(layoutUpdated)
      /\ drain' = [drain EXCEPT !.copied = TRUE, !.subscribers = layoutUpdated]
      /\ UNCHANGED <<alive, collapsed, empty, told, handlers, subscribed, layoutUpdated, sizeChanged, draining,
                     raising, undefined>>
  BY DEF CopySubscribers, ToUpdate, Idle, layout, registrations
<1>2. /\ layoutUpdated \in Seq(Elements) /\ ToSet(layoutUpdated) \subseteq Elements
      /\ drain \in [queued : Seq(Entries), copied : BOOLEAN, subscribers : Seq(Elements)]
  BY DEF Shapes, ToSet
<1>3. /\ drain' \in [queued : Seq(Entries), copied : BOOLEAN, subscribers : Seq(Elements)]
      /\ drain'.queued = drain.queued /\ drain'.subscribers = layoutUpdated
  BY <1>1, <1>2
<1>4. Shapes'
  BY <1>1, <1>2, <1>3 DEF Shapes
<1>5. QueuedOnce' /\ Order' /\ ParentFirst' /\ Reported'
  BY <1>1, <1>3 DEF QueuedOnce, Order, AboveLate, Late, ParentFirst, Reported
<1>6. SubscribersMatch' /\ Draining'
  BY <1>1, <1>3 DEF SubscribersMatch, Draining
<1> QED
  BY <1>4, <1>5, <1>6

LEMMA UpdateRaisedKeeps ==
  ASSUME EventsInv, RaiseLayoutUpdated
  PROVE  EventsInv' /\ ~undefined'
<1> USE DEF EventsInv
<1> DEFINE s == drain.subscribers
           e == Head(s)
<1>1. /\ draining /\ raising = Nothing /\ s # <<>> /\ ~undefined
      /\ drain' = [drain EXCEPT !.subscribers = Tail(s)]
      /\ UNCHANGED <<alive, collapsed, empty, told, handlers, subscribed, layoutUpdated, sizeChanged, draining>>
  BY DEF RaiseLayoutUpdated, Idle, registrations, layout
<1>2. \/ /\ e \in ToSet(layoutUpdated) /\ Raise(e, "LayoutUpdated", handlers[e]["LayoutUpdated"])
         /\ undefined' = (e \notin alive) /\ owing' = owing \ {e}
      \/ e \notin ToSet(layoutUpdated) /\ UNCHANGED <<raising, undefined, owing>>
  BY DEF RaiseLayoutUpdated, Subscribed
<1>3. s \in Seq(Elements) /\ drain \in [queued : Seq(Entries), copied : BOOLEAN, subscribers : Seq(Elements)]
  BY DEF Shapes
<1>4. e \in Elements /\ Tail(s) \in Seq(Elements) /\ ToSet(s) = {e} \cup ToSet(Tail(s))
  BY <1>1, <1>3, Rest
<1>5. drain'.queued = drain.queued /\ drain'.subscribers = Tail(s) /\ drain'.copied = drain.copied
      /\ drain' \in [queued : Seq(Entries), copied : BOOLEAN, subscribers : Seq(Elements)]
  BY <1>1, <1>3, <1>4
<1>6. raising' = Nothing \/ (raising'.elem = e /\ raising'.event = "LayoutUpdated")
  BY <1>1, <1>2, Raised
<1> HIDE DEF e
<1>7. undefined' = FALSE /\ (e \in ToSet(layoutUpdated) => e \in alive)
  <2>1. e \in ToSet(layoutUpdated) => e \in alive
    BY <1>4 DEF SubscribersMatch
  <2> QED
    BY <1>1, <1>2, <2>1 DEF Shapes
<1>8. owing' \subseteq owing /\ owing' \subseteq ToSet(Tail(s)) \cap ToSet(layoutUpdated)
  <2>1. owing \subseteq ToSet(s) \cap ToSet(layoutUpdated)
    BY DEF Draining
  <2> HIDE DEF s
  <2> QED
    BY <1>2, <1>4, <2>1
<1> HIDE DEF s
<1>9. Shapes'
  <2>1. raising'.elem \in Elements \cup {None}
    BY <1>4, <1>6 DEF Nothing
  <2> QED
    BY <1>1, <1>5, <1>7, <1>8, <2>1 DEF Shapes
<1>10. QueuedOnce' /\ Order'
  BY <1>1, <1>5 DEF QueuedOnce, Order, AboveLate, Late
<1>11. ParentFirst'
  BY <1>6 DEF ParentFirst, Nothing
<1>12. SubscribersMatch' /\ Draining'
  BY <1>1, <1>5, <1>8 DEF SubscribersMatch, Draining
<1>13. Reported'
  BY <1>1, <1>5 DEF Reported
<1> QED
  BY <1>7, <1>9, <1>10, <1>11, <1>12, <1>13

LEMMA EndKeeps ==
  ASSUME EventsInv, EndDrain
  PROVE  EventsInv'
<1> USE DEF EventsInv
<1>1. /\ drain.copied /\ drain.subscribers = <<>> /\ drain' = NoDrain /\ raising = Nothing /\ draining' = FALSE
      /\ UNCHANGED <<alive, collapsed, empty, told, handlers, subscribed, layoutUpdated, sizeChanged,
                     raising, undefined, owing>>
  BY DEF EndDrain, Idle, layout, registrations
<1>2. Shapes'
  <2>1. NoDrain \in [queued : Seq(Entries), copied : BOOLEAN, subscribers : Seq(Elements)]
    <3>1. <<>> \in Seq(Entries) /\ <<>> \in Seq(Elements)
      OBVIOUS
    <3> QED
      BY <3>1 DEF NoDrain
  <2> QED
    BY <1>1, <2>1 DEF Shapes
<1>3. drain.queued = <<>> /\ NoDrain.queued = <<>> /\ ~NoDrain.copied
  BY <1>1 DEF Draining, NoDrain
<1>4. QueuedOnce' /\ Order' /\ ParentFirst'
  BY <1>1, <1>3 DEF QueuedOnce, Order, AboveLate, Late, ParentFirst
<1>5. SubscribersMatch' /\ Reported'
  BY <1>1, <1>3 DEF SubscribersMatch, Reported
<1>6. Draining'
  <2>1. owing = {}
    BY <1>1 DEF Draining, ToSet
  <2> QED
    BY <1>1, <1>3, <2>1 DEF Draining
<1> QED
  BY <1>2, <1>4, <1>5, <1>6

-----------------------------------------------------------------------------
LEMMA EventsStep ==
  ASSUME EventsInv, [Next]_vars
  PROVE  EventsInv'
<1>1. CASE UNCHANGED vars
  BY <1>1 DEF vars, layout, registrations, EventsInv, Shapes, QueuedOnce, SubscribersMatch, Reported, Draining, Order,
              AboveLate, Late, ParentFirst
<1>2. CASE Next
  <2>1. ASSUME NEW e \in Elements, NEW v \in Events, NEW h \in Handlers[e][v], Add(e, v, h) \/ Unregister(e, v, h)
        PROVE  EventsInv'
    BY <2>1, AddKeeps, UnregisterKeeps
  <2>2. ASSUME NEW e \in Elements, Destroy(e) \/ SetVisibility(e)
        PROVE  EventsInv'
    BY <2>2, DestroyKeeps, VisibilityKeeps
  <2>3. ASSUME NEW e \in alive, NEW moved \in CanMove(e), Arrange(e, moved)
        PROVE  EventsInv'
    BY <2>3, ArrangeKeeps
  <2>4. CASE HandlerReturns
    BY <2>4, ReturnKeeps
  <2>5. CASE RaiseSizeChanged
    BY <2>5, SizeRaisedKeeps
  <2>6. CASE RaiseLayoutUpdated
    BY <2>6, UpdateRaisedKeeps
  <2>7. CASE EndDrain
    BY <2>7, EndKeeps
  <2>8. CASE CopySubscribers
    BY <2>8, CopyKeeps
  <2> QED
    BY <1>2, <2>1, <2>2, <2>3, <2>4, <2>5, <2>6, <2>7, <2>8 DEF Next
<1> QED
  BY <1>1, <1>2

LEMMA EventsInvariant == Spec => []EventsInv
<1>1. Init => EventsInv
  BY EventsInit
<1>2. EventsInv /\ [Next]_vars => EventsInv'
  BY EventsStep
<1> QED
  BY <1>1, <1>2, PTL DEF Spec

(* At rest an element's handlers have been told its size, or the pass that *)
(* comes will tell them.                                                   *)
THEOREM SizesReported == Spec => []SizeReported
<1>1. EventsInv => SizeReported
  <2> SUFFICES ASSUME EventsInv, ~draining, NEW e \in alive \ empty
               PROVE  \/ handlers[e]["SizeChanged"] = <<>> \/ e \in told
                      \/ \E i \in DOMAIN sizeChanged : sizeChanged[i].elem = e
    BY DEF SizeReported
  <2>1. drain.queued = <<>>
    BY DEF EventsInv, Draining, NoDrain
  <2>2. ~InQueue(drain.queued, e)
    BY <2>1 DEF InQueue
  <2> QED
    BY <2>2 DEF EventsInv, Reported, InQueue
<1> QED
  BY <1>1, EventsInvariant, PTL

(* The lists are right, a parent hears before its children, everyone who   *)
(* is a subscriber after the last SizeChanged handler hears of the pass    *)
(* unless it leaves first, no drain is started inside another, and none    *)
(* goes to a destroyed element for LayoutUpdated.                          *)
THEOREM DrainCorrect == Spec => DrainProtocol
<1>1. EventsInv => ListsMatch /\ ParentFirst /\ EveryoneUpdated
  <2> SUFFICES ASSUME EventsInv PROVE ListsMatch /\ ParentFirst /\ EveryoneUpdated
    OBVIOUS
  <2>1. TypeOK
    <3>1. \A e \in Elements, v \in Events : ToSet(handlers[e][v]) \subseteq Handlers[e][v] /\ IsInjective(handlers[e][v])
      BY DEF EventsInv, Shapes, ToSet
    <3>2. ToSet(layoutUpdated) \subseteq Elements
      BY DEF EventsInv, Shapes, ToSet
    <3>3. \A i \in DOMAIN sizeChanged : sizeChanged[i].elem \in Elements
      <4>1. sizeChanged \in Seq(Entries)
        BY DEF EventsInv, Shapes
      <4>2. \A i \in DOMAIN sizeChanged : sizeChanged[i] \in Entries
        BY <4>1
      <4> QED
        BY <4>2 DEF Entries
    <3> QED
      BY <3>1, <3>2, <3>3 DEF TypeOK, EventsInv, Shapes
  <2>2. EveryoneUpdated
    BY DEF EveryoneUpdated, EventsInv, Draining
  <2> QED
    BY <2>1, <2>2 DEF EventsInv, ListsMatch
<1>2. ASSUME EventsInv, [Next]_vars, draining, draining'
      PROVE  /\ Len(drain'.queued) <= Len(drain.queued)
             /\ drain.copied => drain'.copied /\ Len(drain'.subscribers) <= Len(drain.subscribers)
  <2>1. /\ drain \in [queued : Seq(Entries), copied : BOOLEAN, subscribers : Seq(Elements)]
        /\ drain.queued \in Seq(Entries) /\ drain.subscribers \in Seq(Elements)
        /\ Len(drain.queued) \in Nat /\ Len(drain.subscribers) \in Nat
    <3>1. drain \in [queued : Seq(Entries), copied : BOOLEAN, subscribers : Seq(Elements)]
      BY <1>2 DEF EventsInv, Shapes
    <3>2. drain.queued \in Seq(Entries) /\ drain.subscribers \in Seq(Elements)
      BY <3>1
    <3> QED
      BY <3>1, <3>2
  <2>2. CASE UNCHANGED drain
    BY <2>1, <2>2
  <2>3. CASE RaiseSizeChanged
    <3>1. drain.queued # <<>> /\ drain' = [drain EXCEPT !.queued = Tail(@)]
      BY <2>3 DEF RaiseSizeChanged
    <3>2. Len(Tail(drain.queued)) <= Len(drain.queued)
      BY <2>1, <3>1, Rest
    <3>3. /\ drain'.queued = Tail(drain.queued) /\ drain'.subscribers = drain.subscribers
          /\ drain'.copied = drain.copied
      BY <2>1, <3>1
    <3> QED
      BY <2>1, <3>2, <3>3
  <2>4. CASE RaiseLayoutUpdated
    <3>1. drain.subscribers # <<>> /\ drain' = [drain EXCEPT !.subscribers = Tail(@)]
      BY <2>4 DEF RaiseLayoutUpdated
    <3>2. Len(Tail(drain.subscribers)) <= Len(drain.subscribers)
      BY <2>1, <3>1, Rest
    <3>3. /\ drain'.queued = drain.queued /\ drain'.subscribers = Tail(drain.subscribers)
          /\ drain'.copied = drain.copied
      BY <2>1, <3>1
    <3> QED
      BY <2>1, <3>2, <3>3
  <2>5. CASE CopySubscribers
    <3>1. ~drain.copied /\ drain'.queued = drain.queued
      BY <2>1, <2>5 DEF CopySubscribers
    <3> QED
      BY <2>1, <3>1
  <2>6. UNCHANGED drain \/ RaiseSizeChanged \/ RaiseLayoutUpdated \/ CopySubscribers
    <3>1. ASSUME NEW e \in alive, NEW moved \in CanMove(e), Arrange(e, moved)
          PROVE  UNCHANGED drain
      BY <1>2, <3>1 DEF Arrange, Drains
    <3>2. ASSUME NEW e \in Elements, NEW v \in Events, NEW h \in Handlers[e][v], Add(e, v, h) \/ Unregister(e, v, h)
          PROVE  UNCHANGED drain
      BY <3>2 DEF Add, Unregister
    <3>3. ASSUME NEW e \in Elements, Destroy(e) \/ SetVisibility(e)
          PROVE  UNCHANGED drain
      BY <3>3 DEF Destroy, SetVisibility
    <3>4. ~EndDrain /\ (HandlerReturns \/ UNCHANGED vars => UNCHANGED drain)
      BY <1>2 DEF HandlerReturns, EndDrain, vars
    <3> QED
      BY <1>2, <3>1, <3>2, <3>3, <3>4 DEF Next
  <2> QED
    BY <2>2, <2>3, <2>4, <2>5, <2>6
<1>3. EventsInv /\ [Next]_vars =>
        [draining /\ draining' =>
            /\ Len(drain'.queued) <= Len(drain.queued)
            /\ drain.copied => drain'.copied /\ Len(drain'.subscribers) <= Len(drain.subscribers)]_vars
  BY <1>2
<1>4. EventsInv /\ [Next]_vars => [RaiseLayoutUpdated => ~undefined']_vars
  BY UpdateRaisedKeeps
<1> QED
  BY <1>1, <1>3, <1>4, EventsInvariant, PTL DEF Spec, DrainProtocol, DrainNotRestarted, UpdatedAlive
=============================================================================
