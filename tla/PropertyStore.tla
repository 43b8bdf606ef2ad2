--------------------------- MODULE PropertyStore ---------------------------
(***************************************************************************)
(* DependencyObject (phase3/layout/src/property.cpp): the value slots of   *)
(* an object's properties, the effective value they and the inheritance    *)
(* parents give, and the observers told when it moves.                     *)
(*                                                                         *)
(* An operation changes the slots at once and then announces each property *)
(* it moved.  OnPropertyChanged, the first to hear, only marks the element *)
(* (element.cpp: needs_measure_); every observer after it is user code     *)
(* that may run any operation, the announcement of which is then nested in *)
(* the one in progress.                                                    *)
(*                                                                         *)
(* Objects are numbers, and a parent is a smaller one: the tree never has  *)
(* a cycle (CanAttachVisualChild).                                         *)
(***************************************************************************)
EXTENDS Integers, Sequences, FiniteSets, SequencesExt

CONSTANTS NObjects,    \* objects 1 .. NObjects
          Props,       \* properties
          Inherits,    \* those whose metadata says Inherits
          Slots,       \* slot names, highest precedence first
          Cells,       \* the slots operations write: <<object, property, slot>>
          Values, Default, Unset,
          Handlers,    \* observers: [at : object, of : property or Whole, id]
          Whole,
          Internal,    \* the handlers that are not user code
          MaxDepth     \* bound: announcements in progress at once

Objects == 1 .. NObjects
NoParent == 0
Metadata == [at |-> 0, of |-> Whole, id |-> 0]    \* the metadata's PropertyChangedCallback
NoObserver == [at |-> 0, of |-> Unset, id |-> 0]

ASSUME SizeAssumption == NObjects \in Nat /\ IsFiniteSet(Cells)
ASSUME SlotAssumption ==
    /\ Inherits \subseteq Props /\ Slots \in Seq(ToSet(Slots))
    /\ Default \in Values /\ Unset \notin Values
    /\ Cells \subseteq Objects \X Props \X {Slots[i] : i \in DOMAIN Slots}
    /\ Internal \subseteq Handlers /\ \A h \in Handlers : h.at \in Objects /\ h.of \in Props \cup {Whole}
    /\ Whole \notin Props

VARIABLES
    value,        \* animated_, local_, style_, built_in_style_
    up,           \* inheritance_parent_
    registered,   \* the handler maps, in the order of their tokens
    spent,        \* tokens that have been given out, which never come back
    stack,        \* announcements and unfinished operations, innermost first
    seen,         \* history: per object and property, the effective value
                  \* when OnPropertyChanged last ran; Unset if an observer
                  \* changed the object, or threw, before it could run
    owed          \* history: <<handler, property>> not yet told the value

vars == <<value, up, registered, spent, stack, seen, owed>>
history == <<seen, owed>>
storeVars == <<value, up, registered, spent, seen, owed>>   \* all but the stack

(* Frames: the properties an operation still has to announce, or the       *)
(* setters a style still has to write, or an observer that is running.     *)
Moved(o, list)   == [kind |-> "moved", obj |-> o, list |-> list]
Setters(o, list) == [kind |-> "setters", obj |-> o, list |-> list]
Telling(o, p, before, after, who, phase, rest) ==
    [kind |-> "telling", obj |-> o, prop |-> p, before |-> before,
     after |-> after, who |-> who, phase |-> phase, rest |-> rest]

TypeOK ==
    /\ value \in [Cells -> Values \cup {Unset}]
    /\ up \in [Objects -> {NoParent} \cup Objects] /\ \A o \in Objects : up[o] < o
    /\ ToSet(registered) \subseteq spent /\ spent \subseteq Handlers
    /\ \A i \in DOMAIN stack : stack[i].kind \in {"moved", "setters", "telling"} /\ stack[i].obj \in Objects
    /\ seen \in [Objects -> [Props -> Values \cup {Unset}]]
    /\ owed \subseteq Handlers \X Props

-----------------------------------------------------------------------------
(* Reading.                                                                *)
Kept(val, o, p) == {i \in DOMAIN Slots : <<o, p, Slots[i]>> \in Cells /\ val[<<o, p, Slots[i]>>] # Unset}
Highest_Last(ranks) == CHOOSE i \in ranks : \A j \in ranks : j <= i  \* mutant
Highest(ranks) == CHOOSE i \in ranks : \A j \in ranks : i <= j
OwnValue(val, o, p) ==
    IF Kept(val, o, p) = {} THEN Unset
    ELSE val[<<o, p, Slots[Highest(Kept(val, o, p))]>>]

GetValue(val, tree, o, p) ==
    LET from[x \in 0 .. NObjects] ==
            IF x = NoParent THEN Default
            ELSE IF OwnValue(val, x, p) # Unset THEN OwnValue(val, x, p)
            ELSE IF p \in Inherits THEN from[tree[x]] ELSE Default
    IN from[o]

Effective(o, p) == GetValue(value, up, o, p)
Below(tree, o) ==
    LET under[x \in 0 .. NObjects] == IF x = NoParent THEN FALSE
                                      ELSE tree[x] = o \/ under[tree[x]]
    IN {x \in Objects : under[x]}

Init ==
    /\ value = [c \in Cells |-> Unset]
    /\ up = [o \in Objects |-> NoParent]
    /\ registered = <<>> /\ spent = {}
    /\ stack = <<>>
    /\ seen = [o \in Objects |-> [p \in Props |-> Default]]
    /\ owed = {}

InUserCode ==
    /\ Len(stack) < MaxDepth
    /\ stack # <<>> => Head(stack).kind = "telling" /\ Head(stack).who \notin Internal \cup {NoObserver}

-----------------------------------------------------------------------------
(* Who hears of a change: the metadata's callback, then the whole-object   *)
(* handlers, then the handlers of the property, in the order of their      *)
(* tokens; each snapshot's members are looked up again before their turn.  *)
Watching(o, p) == {h \in Handlers : h.at = o /\ h.of \in {p, Whole}}
Precedes(h, g) == \E i \in DOMAIN registered : registered[i] = h /\ \A j \in 1 .. i : registered[j] # g
Oldest(hs) == CHOOSE h \in hs : \A g \in hs \ {h} : Precedes(h, g)
OfKind_Oldest(o, which) ==                        \* mutant: one handler per kind
    LET all == {h \in ToSet(registered) : h.at = o /\ h.of = which}
    IN IF all = {} THEN {} ELSE {Oldest(all)}
OfKind(o, which) == {h \in ToSet(registered) : h.at = o /\ h.of = which}
StillThere_Assumed(hs) == hs         \* mutant: no second look-up
StillThere(hs) == hs \cap ToSet(registered)

(* The observer after the one that returned, or none.                      *)
Calling(hs, phase) == [who |-> Oldest(hs), phase |-> phase, rest |-> hs \ {Oldest(hs)}]
NextObserver(f) ==
    LET whole == IF f.who = Metadata THEN OfKind(f.obj, Whole)
                 ELSE IF f.phase = Whole THEN StillThere(f.rest) ELSE {}
        each == IF f.phase = Whole THEN OfKind(f.obj, f.prop) ELSE StillThere(f.rest)
    IN IF whole # {} THEN Calling(whole, Whole)
       ELSE IF each # {} THEN Calling(each, f.prop)
       ELSE [who |-> NoObserver, phase |-> Whole, rest |-> {}]

Told(h, o, p, v, now) == {<<h, p>>} \cap (IF v = now THEN owed ELSE {})

(* InvalidateInherited on the children of o: the descendants that read the *)
(* moved value, down to the first that has one of its own.                 *)
Reaches_Children(val, tree, o, p, before) ==      \* mutant: one level only
    {x \in Objects : tree[x] = o /\ OwnValue(val, x, p) = Unset /\ before # GetValue(val, tree, x, p)}
Reaches(val, tree, o, p, before) ==
    LET heard[x \in 0 .. NObjects] ==
            /\ x # NoParent
            /\ OwnValue(val, x, p) = Unset
            /\ before # GetValue(val, tree, x, p)
            /\ (tree[x] = o \/ heard[tree[x]])
    IN {x \in Objects : heard[x]}

Marked(sn, val, tree, objs, p) ==
    [o \in Objects |-> IF o \in objs THEN [sn[o] EXCEPT ![p] = GetValue(val, tree, o, p)] ELSE sn[o]]

(* ValueMoved, for the property at the head of the innermost list.         *)
SameValue(before, now) == before = now
Announce ==
    /\ stack # <<>> /\ Head(stack).kind = "moved"
    /\ LET f == Head(stack)
           m == Head(f.list)
           now == Effective(f.obj, m.prop)
           rest == IF Len(f.list) = 1 THEN Tail(stack)
                   ELSE <<Moved(f.obj, Tail(f.list))>> \o Tail(stack)
       IN IF SameValue(m.before, now)
          THEN stack' = rest /\ UNCHANGED history
          ELSE /\ stack' = <<Telling(f.obj, m.prop, m.before, now, Metadata, Whole, {})>> \o rest
               /\ seen' = Marked(seen, value, up, {f.obj}, m.prop)
               /\ UNCHANGED owed
    /\ UNCHANGED <<value, up, registered, spent>>

(* The running observer returns: the next one, or the children.            *)
Return ==
    /\ stack # <<>> /\ Head(stack).kind = "telling" /\ Head(stack).who \notin Internal
    /\ LET f == Head(stack)
           n == NextObserver(f)
           heard == IF f.prop \in Inherits THEN Reaches(value, up, f.obj, f.prop, f.before) ELSE {}
       IN \/ /\ n.who # NoObserver
             /\ stack' = <<[f EXCEPT !.who = n.who, !.phase = n.phase, !.rest = n.rest]>> \o Tail(stack)
             /\ owed' = owed \ Told(n.who, f.obj, f.prop, f.after, Effective(f.obj, f.prop))
             /\ UNCHANGED seen
          \/ /\ n.who = NoObserver
             /\ stack' = Tail(stack)
             /\ seen' = Marked(seen, value, up, heard, f.prop)
             /\ UNCHANGED owed
    /\ UNCHANGED <<value, up, registered, spent>>

(* An observer throws: every announcement in progress is abandoned, and    *)
(* with it what it had left to tell.                                       *)
Overtake(sn, objs, props) ==
    [o \in Objects |-> [p \in Props |->
       IF o \in objs /\ p \in props /\ sn[o][p] # Effective(o, p) THEN Unset ELSE sn[o][p]]]
Throw ==
    /\ stack # <<>> /\ Head(stack).kind = "telling"
    /\ stack' = <<>>
    /\ owed' = {}
    /\ seen' = Overtake(seen, Objects, Props)
    /\ UNCHANGED <<value, up, registered, spent>>

-----------------------------------------------------------------------------
(* Writing.  Write puts val in place of value and leaves the announcement  *)
(* of props, each with the value read before, to the frame it pushes.      *)
ToAnnounce(o, props) ==
    SetToSeq({[prop |-> p, before |-> Effective(o, p)] : p \in props})

Write(val, o, list, rest) ==
    /\ value' = val
    /\ stack' = (IF list = <<>> THEN <<>> ELSE <<Moved(o, list)>>) \o rest
    /\ owed' = owed \cup {e \in ToSet(registered) \X (Props \ Inherits) :
                             /\ e[1] \in Watching(o, e[2])
                             /\ GetValue(val, up, o, e[2]) # Effective(o, e[2])}
    /\ seen' = Overtake(seen, {o} \cup Below(up, o), {m.prop : m \in ToSet(list)} \cap Inherits)
    /\ UNCHANGED <<up, registered, spent>>

SetSlot(c, v, rest) ==
    Write([value EXCEPT ![c] = v], c[1], ToAnnounce(c[1], {c[2]}), rest)

(* SetValue, SetStyleValue, SetBuiltInStyleValue, SetAnimatedValue.        *)
Set(c, v) == InUserCode /\ SetSlot(c, v, stack)

(* ClearValue and ClearAnimatedValue: the value before is the slot's own.  *)
Cleared(c) == [value EXCEPT ![c] = Unset]
ClearSlot(c, rest) ==
    Write(Cleared(c), c[1], <<[prop |-> c[2], before |-> value[c]]>>, rest)
Clear(c) == InUserCode /\ c[3] \in {"local", "animated"} /\ value[c] # Unset /\ ClearSlot(c, stack)

(* ClearStyleValues, ClearBuiltInStyleValues, ClearAnimatedValues: every   *)
(* value before is read while the slots are filled.                        *)
Filled(o, s) == {c \in Cells : c[1] = o /\ c[3] = s /\ value[c] # Unset}
ClearAll(o, s) ==
    /\ InUserCode /\ s # "local" /\ Filled(o, s) # {}
    /\ Write([c \in Cells |-> IF c \in Filled(o, s) THEN Unset ELSE value[c]], o,
             ToAnnounce(o, {c[2] : c \in Filled(o, s)}), stack)

(* ApplyStyle and ApplyBuiltInStyle: one setter after the other.           *)
ApplyStyle(o, s, v) ==
    /\ InUserCode /\ s \in {"style", "built_in"}
    /\ LET cells == {c \in Cells : c[1] = o /\ c[3] = s}
       IN /\ cells # {}
          /\ stack' = <<Setters(o, SetToSeq({[cell |-> c, to |-> v] : c \in cells}))>> \o stack
    /\ UNCHANGED <<value, up, registered, spent, history>>

NextSetter ==
    /\ stack # <<>> /\ Head(stack).kind = "setters"
    /\ LET f == Head(stack)
           s == Head(f.list)
           rest == IF Len(f.list) = 1 THEN Tail(stack) ELSE <<Setters(f.obj, Tail(f.list))>> \o Tail(stack)
       IN SetSlot(s.cell, s.to, rest)

(* SetInheritanceParent: the inherited properties o read through the old   *)
(* parent are compared, and the moved ones passed on, before it returns.   *)
SetInheritanceParent(o, q) ==
    /\ InUserCode /\ q < o /\ up[o] # q
    /\ LET tree == [up EXCEPT ![o] = q]
           moved == {p \in Inherits : OwnValue(value, o, p) = Unset /\ Effective(o, p) # GetValue(value, tree, o, p)}
           told == [p \in Inherits |->
                      IF p \in moved THEN {o} \cup Reaches(value, tree, o, p, Effective(o, p)) ELSE {}]
       IN /\ up' = tree
          /\ seen' = [x \in Objects |-> [p \in Props |->
                        IF p \in Inherits /\ x \in told[p] THEN GetValue(value, tree, x, p)
                        ELSE Overtake(seen, {o} \cup Below(up, o), Inherits)[x][p]]]
    /\ UNCHANGED <<value, registered, spent, stack, owed>>

(* AddPropertyChangedHandler, RegisterPropertyChangedCallback.             *)
Register_Reused(h) ==                             \* mutant: a token is given out again
    /\ InUserCode /\ h \notin ToSet(registered)
    /\ registered' = Append(registered, h)
    /\ UNCHANGED <<value, up, spent, stack, history>>
Register(h) ==
    /\ InUserCode /\ h \notin spent
    /\ registered' = Append(registered, h)
    /\ spent' = spent \cup {h}
    /\ UNCHANGED <<value, up, stack, history>>

(* RemovePropertyChangedHandler, UnregisterPropertyChangedCallback.        *)
Forget(h) ==
    /\ registered' = RemoveFirst(registered, h)
    /\ owed' = {e \in owed : e[1] # h}
    /\ UNCHANGED <<value, up, spent, stack, seen>>
Unregister(h) == InUserCode /\ h \in ToSet(registered) /\ Forget(h)

Operations ==
    \/ \E c \in Cells, v \in Values : Set(c, v)
    \/ \E c \in Cells : Clear(c)
    \/ \E o \in Objects, i \in DOMAIN Slots : ClearAll(o, Slots[i])
    \/ \E o \in Objects, i \in DOMAIN Slots, v \in Values : ApplyStyle(o, Slots[i], v)
    \/ \E o \in Objects, q \in 0 .. NObjects : SetInheritanceParent(o, q)
    \/ \E h \in Handlers : Register(h) \/ Unregister(h)

Next == Operations \/ NextSetter \/ Announce \/ Return \/ Throw
Spec == Init /\ [][Next]_vars

-----------------------------------------------------------------------------
(* Properties.                                                             *)

(* Once everything is announced, OnPropertyChanged, which is what marks an *)
(* element for measuring, has run on every object since its effective      *)
(* value last moved, through whatever slot, parent or style: except on an  *)
(* object an observer changed, or that was left behind by an exception,    *)
(* while the value it inherits was still to be passed on.                  *)
MarkedWhenMoved ==
    stack = <<>> => \A o \in Objects, p \in Props : seen[o][p] \in {Unset, Effective(o, p)}

(* Once everything is announced, every handler registered when a property  *)
(* of its own moved has been told the value the property now has, even if  *)
(* other handlers set the property again meanwhile.                        *)
AllTold == stack = <<>> => owed = {}

(* No handler runs after it was removed, whatever list it was in.          *)
OnlyRegisteredTold ==
    [][/\ stack # <<>> /\ Head(stack).kind = "telling"
       /\ Len(stack') = Len(stack) /\ Head(stack').who # Head(stack).who
       => Head(stack').who \in ToSet(registered)]_vars

(* Every observer registered when its property moved is told the value it  *)
(* ends with, and no observer that was removed is told anything.           *)
ObserversTold == [](TypeOK /\ AllTold) /\ OnlyRegisteredTold
=============================================================================
