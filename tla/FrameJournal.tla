---------------------------- MODULE FrameJournal ----------------------------
(* The journal of Frame (layout/src/advanced_controls.cpp).  Realize asks  *)
(* the page's factory, which is the application's, for the page of an      *)
(* entry, and moves to the entry once it has it.  A factory may navigate   *)
(* again before it returns, and may fail.                                  *)
EXTENDS Naturals, Sequences, SequencesExt

CONSTANTS Pages,        \* the types of page that are registered
          Nowhere,
          MaxEntries,   \* bound: entries of the journal
          MaxPages      \* bound: factories that run at once

ASSUME FrameAssumption == Nowhere \notin Pages

VARIABLES
    journal, position,  \* of entries, the first at position 0
    content,            \* the page shown, as its type
    building,           \* the factory calls in progress, innermost last
    overtaken           \* history: a page was shown whose entry, or whose position
                        \* relative to the shown one, had changed while it was made

frameVars == <<journal, position, content, building, overtaken>>

FrameInit ==
    /\ journal = <<>> /\ position = 0 /\ content = Nowhere
    /\ building = <<>> /\ overtaken = FALSE

(* Realize, up to the factory: what it will show, where, and from where.   *)
Realize(at) ==
    /\ at < Len(journal')
    /\ Len(building) < MaxPages
    /\ building' = Append(building, [page |-> journal'[at + 1], at |-> at, from |-> position])
    /\ UNCHANGED <<position, content, overtaken>>

KeptEntries_All == journal                     \* mutant: what was ahead is kept
KeptEntries == IF position + 1 < Len(journal) THEN SubSeq(journal, 1, position + 1) ELSE journal

Navigate(p) ==
    /\ Len(KeptEntries) < MaxEntries
    /\ journal' = Append(KeptEntries, p)
    /\ Realize(Len(journal') - 1)

GoBack ==
    /\ position > 0 /\ journal # <<>>
    /\ UNCHANGED journal
    /\ Realize(position - 1)

GoForward ==
    /\ position + 1 < Len(journal)
    /\ UNCHANGED journal
    /\ Realize(position + 1)

(* The factory returns the page.                                           *)
StillEntry(b) == position = b.from /\ b.at < Len(journal) /\ journal[b.at + 1] = b.page
ArrivedAt_End(b) == Len(journal) - 1      \* mutant: as if the page were always the last
ArrivedAt(b) == b.at
PageMade ==
    /\ building # <<>>
    /\ content' = Last(building).page
    /\ position' = ArrivedAt(Last(building))
    /\ overtaken' = (overtaken \/ ~StillEntry(Last(building)))
    /\ building' = Front(building)
    /\ UNCHANGED journal

(* It throws or returns none: position_ and the content stay.              *)
PageFails ==
    /\ building # <<>>
    /\ building' = Front(building)
    /\ UNCHANGED <<journal, position, content, overtaken>>

FrameNext ==
    \/ \E p \in Pages : Navigate(p)
    \/ GoBack \/ GoForward \/ PageMade \/ PageFails
FrameSpec == FrameInit /\ [][FrameNext]_frameVars

-----------------------------------------------------------------------------
Shown == content # Nowhere
Behind == IF Shown THEN SubSeq(journal, 1, position) ELSE <<>>
Ahead == IF Shown THEN SubSeq(journal, position + 2, Len(journal)) ELSE journal
History == INSTANCE NavigationHistory WITH behind <- Behind, here <- content, ahead <- Ahead

(* Navigation behaves as its history, whichever pages fail to be made and  *)
(* also when a page navigates elsewhere while it is made, unless it is     *)
(* shown nevertheless.                                                     *)
KeepsHistory == History!Spec
=============================================================================
