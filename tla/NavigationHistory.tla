------------------------- MODULE NavigationHistory -------------------------
(* What a Frame is to its user: the pages behind the one that is shown and *)
(* the pages ahead of it, with no journal and no position.  A page that is *)
(* navigated to takes the place of what was ahead and waits there until it *)
(* has been made, also if making it fails.  Before the first page is shown *)
(* the first that was navigated to stays ahead, also when it has failed.   *)
EXTENDS Naturals, Sequences

CONSTANTS Pages, Nowhere

VARIABLES behind, here, ahead,
          overtaken     \* a page was shown whose entry had been replaced meanwhile:
                        \* nothing is promised from then on
history == <<behind, here, ahead, overtaken>>

Init == behind = <<>> /\ here = Nowhere /\ ahead = <<>> /\ overtaken = FALSE

Propose(p) ==
    /\ ahead' = IF here = Nowhere /\ ahead # <<>> THEN <<Head(ahead), p>> ELSE <<p>>
    /\ UNCHANGED <<behind, here, overtaken>>

Show(before, page, after) == behind' = before /\ here' = page /\ ahead' = after /\ UNCHANGED overtaken
Start(i) == here = Nowhere /\ Show(SubSeq(ahead, 1, i - 1), ahead[i], SubSeq(ahead, i + 1, Len(ahead)))
Forward == here # Nowhere /\ ahead # <<>> /\ Show(Append(behind, here), Head(ahead), Tail(ahead))
Back ==
    /\ here # Nowhere /\ behind # <<>>
    /\ Show(SubSeq(behind, 1, Len(behind) - 1), behind[Len(behind)], <<here>> \o ahead)

Step ==
    \/ \E p \in Pages : Propose(p)
    \/ \E i \in DOMAIN ahead : Start(i)
    \/ Forward \/ Back
Spec == Init /\ [][overtaken' \/ Step]_history
=============================================================================
