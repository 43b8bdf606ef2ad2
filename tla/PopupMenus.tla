----------------------------- MODULE PopupMenus -----------------------------
(***************************************************************************)
(* The two controls that show a native menu (phase3/xamlcore/src/          *)
(* elements.h): MenuFlyoutObject and ComboBoxObject, on one UI thread.     *)
(*                                                                         *)
(* TrackPopupMenuEx pumps messages until the user chooses, dismisses the   *)
(* menu or EndMenu is called, which ends whichever menu is up; a second    *)
(* TrackPopupMenuEx meanwhile fails at once.  Handlers of the events and   *)
(* messages are user code, which may show, hide and select again.          *)
(***************************************************************************)
EXTENDS Integers, Sequences, SequencesExt

CONSTANTS ItemLists,   \* what the ItemsSource may be: sequences without repeats
          NoItem,      \* a null item
          MaxShows     \* bound: shows and selections in progress at once

ASSUME PopupAssumption ==
    /\ MaxShows \in Nat
    /\ \A l \in ItemLists : /\ l \in Seq(ToSet(l)) /\ NoItem \notin ToSet(l)
                           /\ \A i, j \in DOMAIN l : l[i] = l[j] => i = j

VARIABLES
    isOpen,      \* open_ and is_drop_down_open_, per control
    shows,       \* the shows and selections in progress, the innermost last
    ended,       \* EndMenu has been called for the menu that is up
    muddled,     \* history: controls hidden, or shown again, as they were shown
    items,       \* items_source_
    selected,    \* selected_item_
    index,       \* selected_index_
    published,   \* the layout's SelectedIndex
    told,        \* the item x:Bind last read
    outdated     \* history: index was last chosen from a list since replaced

menuVars == <<isOpen, shows, ended, muddled>>
selectionVars == <<items, selected, index, published, told, outdated>>
popupVars == <<menuVars, selectionVars>>

Controls == {"flyout", "combo"}
Items == UNION {ToSet(l) : l \in ItemLists}
Show(of, at, list) == [of |-> of, at |-> at, list |-> list]
Shows == [of : Controls \cup {"select"},
          at : {"opening", "opened", "menu", "closing", "closing to click", "click", "closed",
                "selecting", "index", "item", "changed"},
          list : ItemLists \cup {<<>>}]

PopupInit ==
    /\ isOpen = [c \in Controls |-> FALSE] /\ shows = <<>> /\ ended = FALSE /\ muddled = {}
    /\ items = <<>> /\ selected = NoItem /\ index = -1 /\ published = -1
    /\ told = NoItem /\ outdated = FALSE

PopupTypeOK ==
    /\ isOpen \in [Controls -> BOOLEAN] /\ ended \in BOOLEAN /\ muddled \subseteq Controls
    /\ shows \in Seq(Shows)
    /\ items \in ItemLists \cup {<<>>} /\ {selected, told} \subseteq Items \cup {NoItem}

Innermost(of, at) == shows # <<>> /\ Last(shows).of = of /\ Last(shows).at = at
Showing(c, phases) == \E i \in DOMAIN shows : shows[i].of = c /\ shows[i].at \in phases
MenuIsUp == \E i \in DOMAIN shows : shows[i].at = "menu"

-----------------------------------------------------------------------------
(* The innermost goes on in another phase; one that waited for its choice  *)
(* to be selected goes on with the Closed handlers.                        *)
Turns(at) == shows' = [shows EXCEPT ![Len(shows)].at = at]
Finish ==
    LET rest == Front(shows)
    IN  shows' = IF rest # <<>> /\ Last(rest).at = "selecting"
                 THEN [rest EXCEPT ![Len(rest)].at = "closed"] ELSE rest
MayShow == Len(shows) < MaxShows
EndMenu == ended' = (ended \/ MenuIsUp)

(* MenuFlyout.ShowAt raises Opening whether it is open or not.             *)
ShowAt ==
    /\ MayShow
    /\ shows' = Append(shows, Show("flyout", "opening", <<>>))
    /\ muddled' = muddled \cup {c \in {"flyout"} : Showing(c, {"opened", "menu"})}
    /\ UNCHANGED <<isOpen, ended, selectionVars>>

BuildFails_Open == [isOpen EXCEPT !["flyout"] = TRUE]  \* mutant: left open
BuildFails == [isOpen EXCEPT !["flyout"] = FALSE]

OpeningEnds ==
    /\ Innermost("flyout", "opening")
    /\ \/ isOpen' = [isOpen EXCEPT !["flyout"] = TRUE] /\ Turns("opened")
       \/ isOpen' = BuildFails /\ Turns("closed")
    /\ UNCHANGED <<ended, muddled, selectionVars>>

MayDrop_Always == TRUE                                 \* mutant: no early return
MayDrop == ~isOpen["combo"]

(* ComboBox.ShowDropDown; without an ItemsSource, or when the menu cannot  *)
(* be built, nothing changes.                                              *)
ShowDropDown ==
    /\ MayShow /\ MayDrop
    /\ isOpen' = [isOpen EXCEPT !["combo"] = TRUE]
    /\ shows' = Append(shows, Show("combo", "opened", items))
    /\ UNCHANGED <<ended, muddled, selectionVars>>

(* The Opened handlers have run: TrackPopupMenuEx.                         *)
After(c) == IF c = "flyout" THEN "closing" ELSE "closed"
Track(c) ==
    /\ Innermost(c, "opened")
    /\ \/ ~MenuIsUp /\ Turns("menu") /\ UNCHANGED isOpen
       \/ MenuIsUp /\ Turns(After(c)) /\ isOpen' = [isOpen EXCEPT ![c] = FALSE]
    /\ UNCHANGED <<ended, muddled, selectionVars>>

-----------------------------------------------------------------------------
(* Select: the item and its index are set, then observers are told of the  *)
(* layout's SelectedIndex and of a new revision, then SelectionChanged.    *)
Revised_Index(was, is) == was # is             \* mutant: the index for a revision
Revised(was, is) == TRUE

Published(next, i, base) ==
    /\ published' = i
    /\ IF i # published
       THEN shows' = Append(base, Show("select", "index", <<>>)) /\ UNCHANGED told
       ELSE /\ shows' = Append(base, Show("select", "item", <<>>))
            /\ told' = IF Revised(published, i) THEN next ELSE told

Select(next, i, base, waiting) ==
    /\ index' = i
    /\ IF next = selected
       THEN shows' = waiting /\ UNCHANGED <<selected, published, told>>
       ELSE /\ Len(base) < MaxShows
            /\ selected' = next
            /\ Published(next, i, base)

IndexTold ==
    /\ Innermost("select", "index") /\ Turns("item")
    /\ told' = selected
    /\ UNCHANGED <<isOpen, ended, muddled, items, selected, index, published, outdated>>

ItemTold ==
    /\ Innermost("select", "item") /\ Turns("changed")
    /\ UNCHANGED <<isOpen, ended, muddled, selectionVars>>

IndexOf(list, item) ==
    IF item \in ToSet(list) THEN (CHOOSE i \in DOMAIN list : list[i] = item) - 1 ELSE -1

PutSelectedItem(item) ==
    /\ Select(item, IndexOf(items, item), shows, shows)
    /\ outdated' = FALSE
    /\ UNCHANGED <<isOpen, ended, muddled, items>>

PutSelectedIndex(i) ==
    /\ Select(IF i < 0 THEN NoItem ELSE items[i + 1], i, shows, shows)
    /\ outdated' = FALSE
    /\ UNCHANGED <<isOpen, ended, muddled, items>>

Moved_Kept(list) == index                      \* mutant: the index is kept
MovedTo(list) == IF selected = NoItem THEN index ELSE IndexOf(list, selected)

PutItemsSource(list) ==
    /\ items' = list
    /\ index' = MovedTo(list)
    /\ outdated' = (outdated /\ selected = NoItem)
    /\ UNCHANGED <<menuVars, selected, published, told>>

-----------------------------------------------------------------------------
(* The menu is dismissed or ended, or an item is chosen: a flyout's click  *)
(* is raised between Closing and Closed, a combo box selects.              *)
Dismissed(c) ==
    /\ Innermost(c, "menu")
    /\ isOpen' = [isOpen EXCEPT ![c] = FALSE]
    /\ Turns(After(c)) /\ ended' = FALSE
    /\ UNCHANGED <<muddled, selectionVars>>

FlyoutChosen ==
    /\ Innermost("flyout", "menu") /\ ~ended
    /\ isOpen' = [isOpen EXCEPT !["flyout"] = FALSE]
    /\ Turns("closing to click")
    /\ UNCHANGED <<ended, muddled, selectionVars>>

ComboChosen ==
    /\ Innermost("combo", "menu") /\ ~ended
    /\ isOpen' = [isOpen EXCEPT !["combo"] = FALSE]
    /\ LET list == Last(shows).list
           going(at) == [shows EXCEPT ![Len(shows)].at = at]
       IN  /\ \E i \in DOMAIN list : Select(list[i], i - 1, going("selecting"), going("closed"))
           /\ outdated' = (list # items)
    /\ UNCHANGED <<ended, muddled, items>>

ClosingEnds ==
    /\ \/ Innermost("flyout", "closing") /\ Turns("closed")
       \/ Innermost("flyout", "closing to click") /\ Turns("click")
       \/ Innermost("flyout", "click") /\ Turns("closed")
    /\ UNCHANGED <<isOpen, ended, muddled, selectionVars>>

ShowEnds ==
    /\ Innermost("flyout", "closed") \/ Innermost("combo", "closed") \/ Innermost("select", "changed")
    /\ Finish
    /\ muddled' = IF shows' = <<>> THEN {} ELSE muddled
    /\ UNCHANGED <<isOpen, ended, selectionVars>>

(* Hide and put_IsDropDownOpen(false).                                     *)
Hide(c) ==
    /\ isOpen[c]
    /\ EndMenu
    /\ isOpen' = [isOpen EXCEPT ![c] = FALSE]
    /\ muddled' = muddled \cup {d \in {c} : Showing(d, {"opened"})}
    /\ UNCHANGED <<shows, selectionVars>>

PopupNext ==
    \/ ShowAt \/ OpeningEnds \/ ShowDropDown \/ FlyoutChosen \/ ComboChosen \/ ClosingEnds
    \/ ShowEnds \/ IndexTold \/ ItemTold
    \/ \E c \in Controls : Track(c) \/ Dismissed(c) \/ Hide(c)
    \/ \E item \in Items \cup {NoItem} : PutSelectedItem(item)
    \/ \E i \in -1 .. Len(items) - 1 : PutSelectedIndex(i)
    \/ \E list \in ItemLists : PutItemsSource(list)
PopupSpec == PopupInit /\ [][PopupNext]_popupVars

-----------------------------------------------------------------------------
(* IsOpen of a control is true only while it is being shown, so never at   *)
(* rest or in its Closing, Click and Closed handlers, and it is true while *)
(* its menu is up: unless handlers hid it before the menu came up, or      *)
(* showed a flyout again that was being shown.                             *)
PopupFlags ==
    /\ PopupTypeOK
    /\ \A c \in Controls : isOpen[c] => Showing(c, {"opened", "menu"})
    /\ \A c \in Controls \ muddled : Showing(c, {"menu"}) /\ ~ended => isOpen[c]

(* When all selections have ended, nested ones too, what x:Bind read last  *)
(* is the item selected; and the index is at all times where that item is  *)
(* in the items, unless chosen from a menu of items replaced meanwhile.    *)
SelectionSettled ==
    /\ shows = <<>> => told = selected
    /\ ~outdated => index = IndexOf(items, selected)
=============================================================================
