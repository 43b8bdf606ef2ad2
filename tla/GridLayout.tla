----------------------------- MODULE GridLayout -----------------------------
(* Grid (layout/src/grid.cpp).  MeasureOverride measures the children in   *)
(* four groups, resolving the star columns and rows between them, with a   *)
(* loop where columns and rows depend on each other; ArrangeOverride       *)
(* divides what the grid was given among its definitions and rounds.  Each *)
(* group and each resolution is a step.                                    *)
(* The division of doubles is the integer division of units: what it drops *)
(* is less than a unit for each definition, as Grain says.                 *)
EXTENDS Panels

CONSTANT MaxLoops       \* kLayoutLoopMaxCount

VARIABLES
    inner,          \* what is offered, without the chrome
    todo,           \* the steps of MeasureOverride still to be made
    loops, widths,  \* passes made, and the group-2 widths before the last
    defs,           \* the working copies of the definitions, of each axis
    sizes           \* size_cache of the definitions after SetFinalSize

passVars == <<inner, todo, loops, widths>>
gridVars == <<passVars, defs, sizes>>
gvars == <<pvars, gridVars>>

NoSizes == [a \in Axes |-> <<>>]
Sum(s) == SumFunction(s)
Indexes(n) == [i \in 1 .. n |-> i]
IsGrid == panel.kind = "grid"
Overlay == panel.defs["u"] = <<>> /\ panel.defs["v"] = <<>>

GInit ==
    /\ PInit
    /\ inner = Zero /\ todo = <<>> /\ loops = 0 /\ widths = <<>>
    /\ defs = NoSizes /\ sizes = NoSizes

-----------------------------------------------------------------------------
(* A definition, declared as a type, a value and bounds, gets a kind, a    *)
(* minimum and a measured size.  A star with nothing to share is automatic.*)
OneStar == [type |-> "star", value |-> 1, low |-> 0, high |-> Inf]
Working(d, unbounded) ==
    LET low == IF d.type = "pixel" THEN AtLeast(d.low, AtMost(d.value, d.high)) ELSE d.low
        size == IF d.type = "pixel" THEN d.value ELSE Inf
    IN [type |-> d.type, value |-> d.value, high |-> d.high,
        kind |-> IF d.type = "star" /\ unbounded THEN "auto" ELSE d.type,
        min |-> low, measure |-> AtLeast(low, AtMost(size, d.high))]
ValidateDefinitionsLayout(a, available) ==
    LET declared == IF panel.defs[a] = <<>> THEN <<OneStar>> ELSE panel.defs[a]
    IN [j \in DOMAIN declared |-> Working(declared[j], available = Inf)]

(* UpdateMinSize and PreferredSize. *)
UpdateMinSize(ds, j, candidate) == [ds EXCEPT ![j].min = AtLeast(@, candidate)]
PreferredSize(d) == IF d.kind = "auto" THEN d.min ELSE AtLeast(d.min, d.measure)

(* The definitions a child covers, and the group it is measured in.        *)
Covered(ds, i, a) ==
    LET first == AtMost(kids[i].cell[a].at, Len(ds) - 1) + 1
    IN first .. AtMost(first + kids[i].cell[a].span - 1, Len(ds))
CoversA(ds, kind, i, a) == \E j \in Covered(ds[a], i, a) : ds[a][j].kind = kind
GroupOf(ds, i) ==
    LET star(a) == CoversA(ds, "star", i, a)
    IN CASE ~star("v") /\ ~star("u") -> 1
         [] ~star("v") /\ star("u")  -> 3
         [] star("v") /\ ~star("u") /\ CoversA(ds, "auto", i, "u") -> 2
         [] OTHER -> 4
InGroup(ds, g) == SelectSeq(Indexes(Len(kids)), LAMBDA i : GroupOf(ds, i) = g)

(* MeasureOverride measures group 1 and then takes one of three ways.      *)
LoopSteps == <<"columns", "group3", "rows", "group2", "again">>
Steps(ds) ==
    LET cyclic == \E i \in DOMAIN kids : GroupOf(ds, i) = 3 /\ CoversA(ds, "auto", i, "v")
    IN <<"group1">>
       \o (IF ~cyclic THEN <<"rows", "group2", "columns", "group3">>
           ELSE IF InGroup(ds, 2) = <<>> THEN <<"columns", "group3", "rows">>
           ELSE <<"group2", "start">> \o LoopSteps)
       \o <<"group4">>

MeasureGrid(available) ==
    /\ IsGrid /\ phase \in {"dirty", "arranged"}
    /\ phase' = "measuring"
    /\ offer' = available
    /\ constraint' = FrameworkAvailable(panel, available)
    /\ LET room == [a \in Axes |-> Less(constraint'[a], Chrome(panel, a))]
       IN /\ inner' = room
          /\ IF Overlay THEN defs' = NoSizes /\ todo' = <<"overlay">>
             ELSE /\ defs' = [a \in Axes |-> ValidateDefinitionsLayout(a, room[a])]
                  /\ todo' = Steps(defs')
    /\ loops' = 0 /\ widths' = <<>>
    /\ UNCHANGED <<panel, kids, asked, unclipped, desired, ownUnclipped, ownDesired, slots, ownSlot,
                   scroll, sizes>>

(* Without definitions every child is offered everything.                  *)
MeasureOverlay ==
    /\ phase = "measuring" /\ todo = <<"overlay">>
    /\ LET d == [i \in DOMAIN kids |-> MeasuredChild(kids[i], inner)]
       IN /\ unclipped' = [i \in DOMAIN kids |-> d[i].unclipped]
          /\ desired' = [i \in DOMAIN kids |-> d[i].desired]
    /\ todo' = <<>>
    /\ UNCHANGED <<panel, kids, phase, offer, constraint, asked, ownUnclipped, ownDesired, slots, ownSlot,
                   scroll, inner, loops, widths, defs, sizes>>

-----------------------------------------------------------------------------
(* A child that covers several definitions has its claim shared out.  The  *)
(* sequence order says who comes first; ties keep the order of definition. *)
ByKey(indexes, key(_)) ==
    SetToSortSeq(indexes, LAMBDA i, j : key(i) < key(j) \/ (key(i) = key(j) /\ i < j))

(* What is left to distribute is divided by the number still to be served. *)
ShareMins(ds, order, amount, grown(_, _), taken(_, _, _)) ==
    FoldLeft(LAMBDA acc, n :
               LET j == order[n]
                   part == acc.left \div (Len(order) - n + 1)
                   next == UpdateMinSize(acc.ds, j, grown(acc.ds[j], part))
               IN [ds |-> next, left |-> acc.left - taken(acc.ds[j], part, next[j])],
             [ds |-> ds, left |-> amount], Indexes(Len(order)))

Roof(d) == AtLeast(d.high, d.min)
ShareUpToPreferred(ds, autos, others, requested) ==
    ShareMins(ds, ByKey(others, LAMBDA j : PreferredSize(ds[j])),
              requested - MapThenSumSet(LAMBDA j : ds[j].min, autos),
              LAMBDA d, part : AtMost(part, PreferredSize(d)),
              LAMBDA d, part, now : AtMost(part, PreferredSize(d))).ds
ShareUpToRoof_Skipping(ds, autos, others, requested) ==     \* mutant: what the others could
    LET preferred == MapThenSumSet(LAMBDA j : PreferredSize(ds[j]), autos \cup others)    \* not take
        key(j) == Roof(ds[j])                                                             \* is lost
        grown(d, part) == AtMost(PreferredSize(d) + part, Roof(d))
        taken(d, part, now) == part
        first == ShareMins(ds, ByKey(others, key), requested - preferred, grown, taken)
    IN ShareMins(first.ds, ByKey(autos, key), first.left, grown, taken).ds
ShareUpToRoof(ds, autos, others, requested) ==
    LET preferred == MapThenSumSet(LAMBDA j : PreferredSize(ds[j]), autos \cup others)
        key(j) == Roof(ds[j])
        grown(d, part) == AtMost(PreferredSize(d) + part, Roof(d))
        taken(d, part, now) == now.min - PreferredSize(d)
        first == ShareMins(ds, ByKey(others, key), requested - preferred, grown, taken)
    IN ShareMins(first.ds, ByKey(autos, key), first.left, grown, taken).ds
SharePastRoof(ds, range, requested) ==
    LET count == Cardinality(range)
        equal == requested \div count
        roofs == MapThenSumSet(LAMBDA j : Roof(ds[j]), range)
        highest == Max({Roof(ds[j]) : j \in range})
        gap == highest * count - roofs
        past(j) == IF equal < highest
                   THEN Roof(ds[j]) + ((highest - Roof(ds[j])) * (requested - roofs)) \div gap
                   ELSE equal
    IN [j \in DOMAIN ds |-> IF j \in range THEN UpdateMinSize(ds, j, past(j))[j] ELSE ds[j]]

EnsureMinSizeInDefinitionRange(ds, range, requested) ==
    LET total(f(_)) == MapThenSumSet(LAMBDA j : f(ds[j]), range)
        autos == {j \in range : ds[j].type = "auto"}
    IN CASE requested <= total(LAMBDA d : d.min) -> ds
         [] total(LAMBDA d : d.min) < requested /\ requested <= total(PreferredSize)
                -> ShareUpToPreferred(ds, autos, range \ autos, requested)
         [] total(PreferredSize) < requested /\ requested <= total(Roof)
                -> ShareUpToRoof(ds, autos, range \ autos, requested)
         [] OTHER -> SharePastRoof(ds, range, requested)

(* MeasureCell: infinite room along an automatic definition, and else the  *)
(* measured size of those covered.                                         *)
OfferedCell(ds, i) ==
    [a \in Axes |->
       IF CoversA(ds, "auto", i, a) /\ ~CoversA(ds, "star", i, a) THEN Inf
       ELSE AtMost(Inf, MapThenSumSet(LAMBDA j : IF ds[a][j].kind = "auto" THEN ds[a][j].min
                                                 ELSE ds[a][j].measure, Covered(ds[a], i, a)))]

(* The child's own definition takes its claim at once, bounded by what the *)
(* definition may at most be.                                              *)
Claimed(ds, i, d) ==
    [a \in Axes |-> IF Cardinality(Covered(ds[a], i, a)) # 1 THEN ds[a]
                    ELSE LET j == Min(Covered(ds[a], i, a))
                         IN UpdateMinSize(ds[a], j, AtMost(d[a], ds[a][j].high))]

MeasureEach(group) ==
    FoldLeft(LAMBDA acc, i :
               LET m == MeasuredChild(kids[i], OfferedCell(acc.defs, i))
               IN [defs |-> Claimed(acc.defs, i, m.desired),
                   unclipped |-> [acc.unclipped EXCEPT ![i] = m.unclipped],
                   desired |-> [acc.desired EXCEPT ![i] = m.desired]],
             [defs |-> defs, unclipped |-> unclipped, desired |-> desired], group)

(* The claims of the spanning children, in the order of the map they are   *)
(* collected in: by first definition and then by span.                     *)
SharedClaims(ds, a, group, d) ==
    LET spans == {Covered(ds, i, a) : i \in {k \in ToSet(group) : Cardinality(Covered(ds, k, a)) > 1}}
        claim(range) == Max({d[i][a] : i \in {k \in ToSet(group) : Covered(ds, k, a) = range}})
        order == SetToSortSeq(spans, LAMBDA r, s : \/ Min(r) < Min(s)
                                                   \/ Min(r) = Min(s) /\ Cardinality(r) < Cardinality(s))
    IN FoldLeft(LAMBDA acc, range : EnsureMinSizeInDefinitionRange(acc, range, claim(range)), ds, order)

MeasureCellsGroup(g) ==
    LET group == InGroup(defs, g)
        each == MeasureEach(group)
    IN /\ unclipped' = each.unclipped /\ desired' = each.desired
       /\ defs' = [a \in Axes |-> SharedClaims(each.defs[a], a, group, each.desired)]

-----------------------------------------------------------------------------
(* The stars, the most constrained for its weight first, each take their   *)
(* share of what is left.                                                  *)
StarOrder(ds, stars, rounds) ==
    ByKey(stars, LAMBDA j : IF ds[j].value = 0 THEN 0
                            ELSE RoundLayoutValue(rounds, Roof(ds[j]) \div ds[j].value))
ShareStars_All(ds, stars, available, before, rounds) ==     \* mutant: the weights already served
    LET order == StarOrder(ds, stars, rounds)               \* keep their part of the whole
        weight == MapThenSumSet(LAMBDA j : ds[j].value, stars)
    IN FoldLeft(LAMBDA acc, n :
                  LET j == order[n]
                      share == IF ds[j].value = 0 THEN 0
                               ELSE (AtLeast(0, available - acc.taken) * ds[j].value) \div weight
                      exact == AtLeast(ds[j].min, AtMost(share, ds[j].high))
                      size == RoundLayoutValue(rounds, exact)
                  IN [acc EXCEPT !.taken = @ + size, !.size[j] = size, !.exact[j] = exact],
                [taken |-> before, size |-> [j \in DOMAIN ds |-> 0], exact |-> [j \in DOMAIN ds |-> 0]],
                Indexes(Len(order)))
ShareStars(ds, stars, available, before, rounds) ==
    LET order == StarOrder(ds, stars, rounds)
        weights(n) == MapThenSumSet(LAMBDA m : ds[order[m]].value, n .. Len(order))
    IN FoldLeft(LAMBDA acc, n :
                  LET j == order[n]
                      share == IF ds[j].value = 0 THEN 0
                               ELSE (AtLeast(0, available - acc.taken) * ds[j].value) \div weights(n)
                      exact == AtLeast(ds[j].min, AtMost(share, ds[j].high))
                      size == RoundLayoutValue(rounds, exact)
                  IN [acc EXCEPT !.taken = @ + size, !.size[j] = size, !.exact[j] = exact],
                [taken |-> before, size |-> [j \in DOMAIN ds |-> 0], exact |-> [j \in DOMAIN ds |-> 0]],
                Indexes(Len(order)))

ResolveStar(a) ==
    LET ds == defs[a]
        stars == {j \in DOMAIN ds : ds[j].kind = "star"}
        before == MapThenSumSet(LAMBDA j : IF ds[j].kind = "auto" THEN ds[j].min ELSE ds[j].measure,
                                DOMAIN ds \ stars)
        shared == ShareStars(ds, stars, inner[a], before, FALSE)
    IN [j \in DOMAIN ds |-> IF j \in stars THEN [ds[j] EXCEPT !.measure = shared.size[j]] ELSE ds[j]]

(* One step of MeasureOverride.  Stars are resolved only when some child   *)
(* covers one.                                                             *)
Resolve(a) ==
    /\ defs' = IF \E i \in DOMAIN kids : CoversA(defs, "star", i, a)
               THEN [defs EXCEPT ![a] = ResolveStar(a)] ELSE defs
    /\ UNCHANGED <<unclipped, desired>>

Group2Widths == LET group == InGroup(defs, 2) IN [n \in DOMAIN group |-> desired[group[n]]["u"]]

Step ==
    /\ phase = "measuring" /\ todo # <<>> /\ todo # <<"overlay">>
    /\ CASE Head(todo) = "group1"  -> MeasureCellsGroup(1)
         [] Head(todo) = "group2"  -> MeasureCellsGroup(2)
         [] Head(todo) = "group3"  -> MeasureCellsGroup(3)
         [] Head(todo) = "group4"  -> MeasureCellsGroup(4)
         [] Head(todo) = "columns" -> Resolve("u")
         [] Head(todo) = "rows"    -> Resolve("v")
         [] OTHER -> UNCHANGED <<defs, unclipped, desired>>
    /\ IF Head(todo) = "again" /\ Group2Widths # widths /\ loops < MaxLoops
       THEN todo' = LoopSteps \o Tail(todo) /\ loops' = loops + 1
       ELSE todo' = Tail(todo) /\ loops' = loops
    /\ widths' = IF Head(todo) \in {"start", "again"} THEN Group2Widths ELSE widths
    /\ UNCHANGED <<panel, kids, phase, offer, constraint, asked, ownUnclipped, ownDesired, slots, ownSlot,
                   scroll, inner, sizes>>

(* The grid asks for the sum of the minima.                                *)
AskedGrid(a) ==
    Chrome(panel, a) + (IF Overlay THEN WidestOf(desired, a)
                        ELSE Sum([j \in DOMAIN defs[a] |-> defs[a][j].min]))
EndMeasure ==
    /\ phase = "measuring" /\ todo = <<>>
    /\ phase' = "measured"
    /\ asked' = [a \in Axes |-> AskedGrid(a)]
    /\ ownUnclipped' = Unclipped(panel, asked')
    /\ ownDesired' = Desired(panel, offer, asked')
    /\ UNCHANGED <<panel, kids, offer, constraint, unclipped, desired, slots, ownSlot, scroll, gridVars>>

-----------------------------------------------------------------------------
(* SetFinalSize.  It gives each definition that is not a star its size,    *)
(* shares the rest among the stars, takes back what does not fit, and      *)
(* spreads what rounding left over, one pixel to a definition.             *)
Settled(ds, rounds, final) ==
    LET stars == {j \in DOMAIN ds : ds[j].type = "star"}
        exact(j) == AtLeast(ds[j].min, AtMost(IF ds[j].type = "pixel" THEN ds[j].value ELSE ds[j].min, ds[j].high))
        fixed == [j \in DOMAIN ds |-> RoundLayoutValue(rounds, exact(j))]
        shared == ShareStars(ds, stars, final, MapThenSumSet(LAMBDA j : fixed[j], DOMAIN ds \ stars), rounds)
    IN [size  |-> [j \in DOMAIN ds |-> IF j \in stars THEN shared.size[j] ELSE fixed[j]],
        exact |-> [j \in DOMAIN ds |-> IF j \in stars THEN shared.exact[j] ELSE exact(j)],
        total |-> shared.taken]

Shrunk(ds, rounds, final, now) ==
    LET order == ByKey(DOMAIN ds, LAMBDA j : now.size[j] - ds[j].min)
        cut == FoldLeft(LAMBDA acc, n :
                 LET j == order[n]
                     exact == acc.size[j] + acc.left \div (Len(order) - n + 1)
                     size == AtMost(AtLeast(RoundLayoutValue(rounds, exact), ds[j].min), acc.size[j])
                 IN [size |-> [acc.size EXCEPT ![j] = size],
                     exact |-> [acc.exact EXCEPT ![j] = AtMost(AtLeast(exact, ds[j].min), acc.size[j])],
                     left |-> acc.left - (size - acc.size[j])],
                 [size |-> now.size, exact |-> now.exact, left |-> final - now.total], Indexes(Len(order)))
    IN [size |-> cut.size, exact |-> cut.exact, total |-> final - cut.left]

Drifted(ds, final, now) ==
    LET order == ByKey(DOMAIN ds, LAMBDA j : now.exact[j] - now.size[j])
        turn == IF now.total > final THEN Reverse(order) ELSE order
        moved(acc, j) == IF now.total > final THEN AtLeast(acc.size[j] - Px, ds[j].min) ELSE acc.size[j] + Px
        goes(acc) == IF now.total > final THEN acc.total > final ELSE acc.total < final
    IN FoldLeft(LAMBDA acc, j :
                  IF ~goes(acc) THEN acc
                  ELSE [acc EXCEPT !.size[j] = moved(acc, j),
                                   !.total = IF now.total <= final THEN @ + Px
                                             ELSE IF moved(acc, j) < acc.size[j] THEN @ - Px ELSE @],
                now, turn)

SetFinalSize_Overflowing(ds, rounds, final) ==      \* mutant: what does not fit is not taken back
    Settled(ds, rounds, final).size
SetFinalSize(ds, rounds, final) ==
    LET settled == Settled(ds, rounds, final)
        fitted == IF settled.total > final THEN Shrunk(ds, rounds, final, settled) ELSE settled
        starred == \E j \in DOMAIN ds : ds[j].type = "star"
    IN IF rounds /\ starred /\ fitted.total # final THEN Drifted(ds, final, fitted).size ELSE fitted.size

(* ArrangeOverride, in the slot given to the grid.                         *)
ArrangeGrid(slot) ==
    /\ IsGrid /\ phase = "measured"
    /\ phase' = "arranged"
    /\ ownSlot' = slot
    /\ LET room == Inner(panel, RenderSize(panel, slot, ownUnclipped))
           before(i, a) == 1 .. (Min(Covered(defs[a], i, a)) - 1)
           total(a, range) == MapThenSumSet(LAMBDA j : sizes'[a][j], range)
       IN /\ sizes' = [a \in Axes |-> SetFinalSize(defs[a], panel.rounds, room.size[a])]
          /\ slots' = [i \in DOMAIN kids |->
               IF Overlay THEN room
               ELSE [pos  |-> [a \in Axes |-> room.pos[a] + total(a, before(i, a))],
                     size |-> [a \in Axes |-> total(a, Covered(defs[a], i, a))]]]
    /\ UNCHANGED <<panel, kids, offer, constraint, asked, unclipped, desired, ownUnclipped, ownDesired,
                   scroll, passVars, defs>>

GNext ==
    \/ ~IsGrid /\ PNext /\ UNCHANGED gridVars
    \/ IsGrid /\ (\E l \in ChildLists[panel.kind] : Change(l)) /\ UNCHANGED gridVars
    \/ \E c \in Constraints : MeasureGrid(c)
    \/ MeasureOverlay
    \/ Step
    \/ EndMeasure
    \/ \E f \in Finals : ArrangeGrid(f)
GSpec == GInit /\ [][GNext]_gvars

-----------------------------------------------------------------------------
(* Properties.                                                             *)
FinalInner(a) == Inner(panel, Final).size[a]

(* A grid that was given at least what it asked for cuts no child: its     *)
(* cell has its desired size, less what rounding may take of each          *)
(* definition, unless its one definition may not be that large.            *)
Lost == IF panel.rounds THEN Px \div 2 ELSE 1
Wanted(i, a) ==
    LET cover == Covered(defs[a], i, a)
    IN IF Cardinality(cover) = 1 THEN AtMost(desired[i][a], defs[a][Min(cover)].high) ELSE desired[i][a]
CellsFit ==
    Arranged /\ IsGrid /\ ~Overlay =>
        \A i \in DOMAIN kids, a \in Axes :
            asked[a] <= Final[a] =>
                slots[i].size[a] >= Wanted(i, a) - Lost * Cardinality(Covered(defs[a], i, a))

(* A grid given at least what it asked for divides that among its          *)
(* definitions without exceeding it by a pixel, and uses all of it where a *)
(* star has no maximum; no definition is smaller than its minimum, rounded.*)
Grain == IF panel.rounds THEN Px ELSE 3     \* a pixel, or a unit for each division
GridFilled ==
    Arranged /\ IsGrid /\ ~Overlay =>
        \A a \in Axes :
            /\ \A j \in DOMAIN defs[a] : sizes[a][j] >= defs[a][j].min - Lost
            /\ asked[a] <= Final[a] =>
                 /\ Sum(sizes[a]) <= FinalInner(a) + Grain
                 /\ (\E j \in DOMAIN defs[a] :
                        defs[a][j].type = "star" /\ defs[a][j].value > 0 /\ defs[a][j].high = Inf)
                    => Sum(sizes[a]) >= FinalInner(a) - Grain

GridKept == CellsFit /\ GridFilled
=============================================================================
