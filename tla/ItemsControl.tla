---------------------------- MODULE ItemsControl ----------------------------
(* The virtualization of ItemsControl (layout/src/advanced_controls.cpp):  *)
(* of its items, those in the viewport and a few around it have            *)
(* containers.  A container comes from the application's factory, which    *)
(* may fail, and may scroll the control that is asking for it.             *)
(* A factory that calls SetItems destroys itself, and is not modelled.     *)
EXTENDS Integers, Sequences, SequencesExt, FiniteSetsExt

CONSTANTS
    Counts, ItemExtents, ViewOffsets, ViewExtents, CacheLengths,    \* what the application sets
    MaxMaking       \* bound: factories that run at once

ASSUME ItemsAssumption ==
    /\ Counts \subseteq Nat /\ ItemExtents \subseteq Nat \ {0}
    /\ ViewOffsets \subseteq Nat /\ ViewExtents \subseteq Nat /\ CacheLengths \subseteq Nat

VARIABLES
    itemCount, itemExtent, viewOffset, viewExtent, cacheLength,
    realized,       \* the items that have a container
    making,         \* the factory calls in progress, innermost last: the item, and
                    \* the end of the range that its UpdateRealization has computed
    outdated,       \* history: the cache length was set since the last update, or a
                    \* factory changed the window of the update that called it
    incomplete      \* history: the last update failed

itemSettings == <<itemCount, itemExtent, viewOffset, viewExtent, cacheLength>>
itemVars == <<itemSettings, realized, making, outdated, incomplete>>

ItemsInit ==
    /\ itemCount = 0 /\ itemExtent \in ItemExtents
    /\ viewOffset = 0 /\ viewExtent = 0 /\ cacheLength = 1
    /\ realized = {} /\ making = <<>>
    /\ outdated = FALSE /\ incomplete = FALSE

Least(x, y) == IF x <= y THEN x ELSE y
CeilDiv_Floor(x, y) == x \div y         \* mutant: an item in view by a part is not counted
CeilDiv(x, y) == (x + y - 1) \div y

(* The range of UpdateRealization.                                         *)
VisibleExtent == IF viewExtent > 0 THEN viewExtent ELSE itemExtent
FirstItem ==
    IF itemCount = 0 THEN 0
    ELSE LET first == Least(itemCount - 1, viewOffset \div itemExtent)
         IN IF first > cacheLength THEN first - cacheLength ELSE 0
EndItem ==
    IF itemCount = 0 THEN 0
    ELSE Least(itemCount, Least(itemCount, CeilDiv(viewOffset + VisibleExtent, itemExtent)) + cacheLength)

(* The next item of a range that has no container is asked for.            *)
Missing(from, end, have) == (from .. (end - 1)) \ have
Ask(calls, from, end, have) ==
    IF Missing(from, end, have) = {} THEN calls
    ELSE Append(calls, [item |-> Min(Missing(from, end, have)), end |-> end])

Kept_All(range) == realized                     \* mutant: nothing is recycled
Kept(range) == realized \cap range
UpdateRealization(had) ==
    /\ realized' = had
    /\ making' = Ask(making, FirstItem', EndItem', had)
    /\ outdated' = (making # <<>>)
    /\ incomplete' = FALSE

Free == Len(making) < MaxMaking

(* SetItems recycles every container.                                      *)
SetItems(count) ==
    /\ making = <<>>
    /\ itemCount' = count
    /\ UNCHANGED <<itemExtent, viewOffset, viewExtent, cacheLength>>
    /\ UpdateRealization({})

SetViewport(offset, extent) ==
    /\ Free
    /\ viewOffset' = offset /\ viewExtent' = extent
    /\ UNCHANGED <<itemCount, itemExtent, cacheLength>>
    /\ UpdateRealization(Kept(FirstItem' .. (EndItem' - 1)))

SetItemExtent(extent) ==
    /\ Free
    /\ itemExtent' = extent
    /\ UNCHANGED <<itemCount, viewOffset, viewExtent, cacheLength>>
    /\ UpdateRealization(Kept(FirstItem' .. (EndItem' - 1)))

(* set_cache_length only remembers it.                                     *)
SetCacheLength(length) ==
    /\ cacheLength' = length /\ outdated' = TRUE
    /\ UNCHANGED <<itemCount, itemExtent, viewOffset, viewExtent, realized, making, incomplete>>

(* MeasureOverride, in a given finite height: it stands for the viewport   *)
(* until one is set.                                                       *)
MeasureItems(height) ==
    /\ making = <<>>
    /\ viewExtent' = IF viewExtent = 0 THEN height ELSE viewExtent
    /\ UNCHANGED <<itemCount, itemExtent, viewOffset, cacheLength>>
    /\ UpdateRealization(Kept(FirstItem' .. (EndItem' - 1)))

(* The factory of the innermost update returns a container, or throws.     *)
Made ==
    /\ making # <<>>
    /\ realized' = realized \cup {Last(making).item}
    /\ making' = Ask(Front(making), Last(making).item + 1, Last(making).end, realized')
    /\ UNCHANGED <<itemSettings, outdated, incomplete>>

MakingFails ==
    /\ making # <<>>
    /\ making' = Front(making)
    /\ incomplete' = TRUE
    /\ UNCHANGED <<itemSettings, realized, outdated>>

ItemsNext ==
    \/ \E n \in Counts : SetItems(n)
    \/ \E o \in ViewOffsets, e \in ViewExtents : SetViewport(o, e)
    \/ \E e \in ItemExtents : SetItemExtent(e)
    \/ \E n \in CacheLengths : SetCacheLength(n)
    \/ \E e \in ViewExtents : MeasureItems(e)
    \/ Made
    \/ MakingFails
ItemsSpec == ItemsInit /\ [][ItemsNext]_itemVars

-----------------------------------------------------------------------------
(* After an update that did not fail, whichever updates have failed before *)
(* it, every item of which a part is in the viewport has a container, and  *)
(* besides them at most cacheLength items before and after.  After a       *)
(* failed one, no other item has.                                          *)
InView(i) == i * itemExtent < viewOffset + VisibleExtent /\ (i + 1) * itemExtent > viewOffset
Items == 0 .. (itemCount - 1)
Near(i) == \E j \in Items : /\ InView(j) \/ (j = itemCount - 1 /\ ~\E k \in Items : InView(k))
                            /\ j - i <= cacheLength /\ i - j <= cacheLength
ItemsRealized ==
    making = <<>> /\ ~outdated =>
        /\ \A i \in realized : i \in Items /\ Near(i)
        /\ ~incomplete => \A i \in Items : InView(i) => i \in realized
=============================================================================
