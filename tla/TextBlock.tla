------------------------------ MODULE TextBlock ------------------------------
(* A TextBlock (layout/src/text.cpp): its text is broken into lines when   *)
(* it is measured and again when it is arranged, against another width.    *)
(* Measure answers with the lines' extent rounded up to pixels, and must   *)
(* have made room for the lines that Arrange will find.                    *)
(* A text is a sequence of shaped glyphs; the sum of floats is exact here. *)
EXTENDS Layout, Sequences, SequencesExt

CONSTANTS
    Blocks,         \* visible elements with glyphs, and whether they wrap
    LineHeight,
    TextOffers, TextSlots

VARIABLES
    block,
    textPhase,      \* "dirty", "measured" or "arranged"
    measuredWidth,  \* what MeasureOverride was last given
    measuredLines,  \* the widths of the lines it found
    textAsked, textUnclipped,
    drawnWidth,     \* what ArrangeOverride was given
    drawnLines

textVars == <<block, textPhase, measuredWidth, measuredLines, textAsked, textUnclipped, drawnWidth, drawnLines>>

TextInit ==
    /\ block \in Blocks
    /\ textPhase = "dirty"
    /\ measuredWidth = 0 /\ measuredLines = <<>> /\ drawnWidth = 0 /\ drawnLines = <<>>
    /\ textAsked = Zero /\ textUnclipped = Zero

-----------------------------------------------------------------------------
(* Extend, from nothing: the glyphs from the first to before the last.     *)
Extent(g, first, last) == SumFunction([i \in first .. (last - 1) |-> g[i].advance])
FirstFrom(p, n, Stops(_)) == Min({i \in p .. n : Stops(i)} \cup {n + 1})
WordEnd(g, p) == FirstFrom(p, Len(g), LAMBDA i : g[i].space)
SegmentEnd(g, p) == FirstFrom(WordEnd(g, p), Len(g), LAMBDA i : ~g[i].space)

(* How much of a word that no line can hold is put on a line.              *)
Taken_None(g, p, limit) ==      \* mutant: not even one glyph
    Max({p} \cup {e \in p .. WordEnd(g, p) : Extent(g, p, e) <= limit})
Taken(g, p, limit) ==
    Max({p + 1} \cup {e \in p .. WordEnd(g, p) : Extent(g, p, e) <= limit})

(* One turn of the loop of BreakLines: a word with the spaces behind it.   *)
CloseLine(s) == [s EXCEPT !.widths = Append(@, s.visible), !.begin = s.at, !.visible = 0, !.consumed = 0]
NewLine_Always(g, s, limit) ==  \* mutant: the first word of a line too
    s.consumed + Extent(g, s.at, WordEnd(g, s.at)) > limit
NewLine(g, s, limit) ==
    s.at # s.begin /\ s.consumed + Extent(g, s.at, WordEnd(g, s.at)) > limit
BreakWord(g, s, limit) ==
    LET taken == Taken(g, s.at, limit)
    IN [widths |-> Append(s.widths, Extent(g, s.at, taken)),
        at |-> taken, begin |-> taken, visible |-> 0, consumed |-> 0]
AddWord(g, s) ==
    LET visible == s.consumed + Extent(g, s.at, WordEnd(g, s.at))
    IN [s EXCEPT !.visible = visible, !.at = SegmentEnd(g, s.at),
                 !.consumed = visible + Extent(g, WordEnd(g, s.at), SegmentEnd(g, s.at))]
Turn(g, limit, s) ==
    LET line == IF NewLine(g, s, limit) THEN CloseLine(s) ELSE s
    IN IF line.at = line.begin /\ Extent(g, line.at, WordEnd(g, line.at)) > limit
       THEN BreakWord(g, line, limit)
       ELSE AddWord(g, line)

BreakLines(g, limit) ==
    LET start == [widths |-> <<>>, at |-> 1, begin |-> 1, visible |-> 0, consumed |-> 0]
        last == FoldLeft(LAMBDA s, i : IF s.at <= Len(g) THEN Turn(g, limit, s) ELSE s, start, g)
    IN IF last.begin <= Len(g) \/ last.widths = <<>> THEN Append(last.widths, last.visible) ELSE last.widths

(* LayoutText: what the lines of a text extend to.                         *)
LinesOf(b, limit) == BreakLines(b.glyphs, IF b.wraps THEN limit ELSE Inf)
TextSize(lines) == [a \in Axes |-> IF a = "u" THEN Max({0} \cup ToSet(lines)) ELSE Len(lines) * LineHeight]

CeilLayout_Nearest(x) == ((x + Px \div 2) \div Px) * Px     \* mutant: rounded as other sizes are
CeilLayout(x) == ((x + Px - 1) \div Px) * Px

-----------------------------------------------------------------------------
MeasureText(available) ==
    /\ textPhase # "measured"
    /\ textPhase' = "measured"
    /\ measuredWidth' = FrameworkAvailable(block, available)["u"]
    /\ measuredLines' = LinesOf(block, measuredWidth')
    /\ textAsked' = LET size == TextSize(measuredLines')
                    IN IF block.glyphs = <<>> THEN size ELSE [a \in Axes |-> CeilLayout(size[a])]
    /\ textUnclipped' = Unclipped(block, textAsked')
    /\ UNCHANGED <<block, drawnWidth, drawnLines>>

ArrangeText(slot) ==
    /\ textPhase = "measured"
    /\ textPhase' = "arranged"
    /\ drawnWidth' = ArrangeSize(block, slot, textUnclipped)["u"]
    /\ drawnLines' = LinesOf(block, drawnWidth')
    /\ UNCHANGED <<block, measuredWidth, measuredLines, textAsked, textUnclipped>>

(* TextWrapping is set, which asks for another pass.                       *)
SetWrapping ==
    /\ textPhase = "arranged"
    /\ block' = [block EXCEPT !.wraps = ~@] /\ textPhase' = "dirty"
    /\ UNCHANGED <<measuredWidth, measuredLines, textAsked, textUnclipped, drawnWidth, drawnLines>>

TextNext ==
    \/ \E c \in TextOffers : MeasureText(c)
    \/ \E s \in TextSlots : ArrangeText(s)
    \/ SetWrapping
TextSpec == TextInit /\ [][TextNext]_textVars

-----------------------------------------------------------------------------
(* How the comment at BreakLines says that lines are broken: after a run   *)
(* of spaces, and inside a word only if it cannot have a line of its own.  *)
(* A line ends where the first word begins that would not fit whole, or,   *)
(* in a word that fits no line, before the first glyph that would not.     *)
WordBegins(g) == {p \in 2 .. Len(g) : ~g[p].space /\ g[p - 1].space}
NextLine(g, b, limit) ==
    IF Extent(g, b, WordEnd(g, b)) > limit
    THEN FirstFrom(b + 1, WordEnd(g, b) - 1, LAMBDA i : Extent(g, b, i + 1) > limit)
    ELSE Min({p \in WordBegins(g) : p > b /\ Extent(g, b, WordEnd(g, p)) > limit} \cup {Len(g) + 1})
LineBegins(g, limit) ==
    LET begins[n \in 0 .. Len(g)] ==
          IF n = 0 THEN {1}
          ELSE begins[n - 1] \cup {NextLine(g, b, limit) : b \in {x \in begins[n - 1] : x <= Len(g)}}
    IN begins[Len(g)] \ {Len(g) + 1}
Shown(g, first, last) == Extent(g, first, 1 + Max({first - 1} \cup {i \in first .. (last - 1) : ~g[i].space}))
LineWidths(g, limit) ==
    [i \in 1 .. Cardinality(LineBegins(g, limit)) |->
       LET b == SetToSortSeq(LineBegins(g, limit), <)[i] IN Shown(g, b, NextLine(g, b, limit))]

(* Both times the lines are those that the rule asks for, each fits the    *)
(* width or is one glyph wide, and the text is drawn on no more lines than *)
(* were measured: the height asked for, which the parent was promised,     *)
(* holds them, although the width they are broken against is another.      *)
Broken(lines, limit) ==
    /\ lines = LineWidths(block.glyphs, limit)
    /\ \A w \in ToSet(lines) : w <= limit \/ \E i \in DOMAIN block.glyphs : block.glyphs[i].advance = w
LimitOf(width) == IF block.wraps THEN width ELSE Inf
TextKept ==
    block.glyphs # <<>> =>
        /\ textPhase = "measured" => Broken(measuredLines, LimitOf(measuredWidth))
        /\ textPhase = "arranged" => /\ Broken(drawnLines, LimitOf(drawnWidth))
                                    /\ Len(drawnLines) <= Len(measuredLines)
                                    /\ Len(drawnLines) * LineHeight <= textAsked["v"]
=============================================================================
