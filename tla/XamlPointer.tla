---------------------------- MODULE XamlPointer ----------------------------
(***************************************************************************)
(* XamlFocusScope's pointer half (phase3/xamlcore/src/xaml_focus.cpp):     *)
(* hover, tap recognition and the logical capture of one hosted tree, over *)
(* the tree of XamlFocus.  Focus takes no part: nothing is desired, so     *)
(* Reconcile has nothing to do.  Every routed event is user code, which    *)
(* may take further pointer messages (a modal loop), capture, release,     *)
(* change the tree or replace the root before it returns.                  *)
(*                                                                         *)
(* Times, distances and hit tests are left open within what they decide.   *)
(* A route is told to one handler, which may do anything any handler on    *)
(* the route may do.                                                       *)
(***************************************************************************)
EXTENDS XamlFocus, FiniteSets

CONSTANT MaxHandlers   \* bound: handlers of pointer events in progress at once

ASSUME HandlersAssumption == MaxHandlers \in Nat

VARIABLES
    hover,        \* hover_node_
    candidate,    \* tap_candidate_
    lastTap,      \* last_tap_target_
    releasing,    \* releasing_tap_candidate_
    capture,      \* IslandInputManager::pointer_capture_, of this sink
    saved,        \* detached_capture_route_: the element it starts from
    lostTarget,   \* detached_capture_target_
    calls,        \* handlers and what is left to do after them, innermost first
    inside,       \* history: elements told Entered and not yet Exited
    excused,      \* history: those of them that left the hosted tree
    answers,      \* history: taps since the last press of the left button
    crossed       \* history: the pointer moved while Exited was raised, or
                  \* was released again while a release was routed

tapVars     == <<candidate, lastTap, releasing, answers>>
hoverVars   == <<hover, inside, excused>>
captureVars == <<capture, saved, lostTarget>>
pointerVars == <<tapVars, hoverVars, captureVars, calls, crossed>>
focusOnly   == <<host, refusing, stack, kept, focusVars>>
pvars       == <<vars, pointerVars>>

NoTap == [of |-> None, moved |-> FALSE]
Hosted == {t \in Targets : TargetBelongsToRoot(t)}

(* A message with what its button, time and distance decide: only a press  *)
(* of the left button begins a tap, a move may be too far for one, and     *)
(* only a release of the left button in time ends one.                     *)
Messages == {"Pressed", "PressedOther", "Moved", "MovedFar", "Released", "ReleasedOther"}
Moves    == {"Moved", "MovedFar"}
Releases == {"Released", "ReleasedOther"}

(* The frames at which user code runs, and those that only continue.       *)
Handlers == {"left", "exited", "entered", "main", "tapped", "doubled", "lost"}
Telling(at, t)    == [at |-> at, of |-> t]
Main(ended, tap)  == [at |-> "main", ended |-> ended, of |-> tap]
Lost(t, how)      == [at |-> "lost", of |-> t, how |-> how]
Attaching(p, n)   == [at |-> "attach", prev |-> p, new |-> n]
Reporting(l, r)   == [at |-> "report", list |-> l, from |-> r]
Reported(t, p)    == [at |-> "reported", of |-> t, prev |-> p]

PointerInit ==
    /\ hover = None /\ inside = {} /\ excused = {}
    /\ candidate = NoTap /\ lastTap = None /\ releasing = FALSE /\ answers = 0
    /\ capture = None /\ saved = None /\ lostTarget = None
    /\ calls = <<>> /\ crossed = FALSE

Within(ats) == {i \in DOMAIN calls : calls[i].at \in ats}
PInUserCode ==
    /\ Cardinality(Within(Handlers)) < MaxHandlers
    /\ calls # <<>> => Head(calls).at \in Handlers

-----------------------------------------------------------------------------
(* Events raised: hover, then the message itself, then the tap.            *)
TellExited(t)  == inside' = inside \ {t} /\ excused' = excused \ {t}
TellEntered(t) ==
    /\ inside' = inside \cup {t}
    /\ excused' = IF t \in Hosted THEN excused \ {t} ELSE excused \cup {t}

LeaveHover_Silently(rest) ==           \* mutant: no Exited
    /\ hover' = None /\ calls' = rest
    /\ UNCHANGED <<inside, excused>>
LeaveHover(rest) ==
    /\ hover' = None /\ TellExited(hover)
    /\ calls' = <<Telling("left", hover)>> \o rest

Enter(t, rest) ==
    /\ hover' = t
    /\ TellEntered(t)
    /\ calls' = <<Telling("entered", t)>> \o rest

CandidateLeft_Kept(ended, seen) == seen   \* mutant: a release keeps it
CandidateLeft(ended, seen) == IF ended THEN NoTap ELSE seen

(* The message itself; seen is the candidate it found or made.             *)
Route(msg, on, seen, rest) ==
    LET completes == msg = "Released" /\ seen.of # None /\ ~seen.moved /\ on = seen.of
    IN  /\ releasing' = completes
        /\ candidate' = seen
        /\ calls' = <<Main(msg \in Releases, IF completes THEN on ELSE None)>> \o rest

-----------------------------------------------------------------------------
(* OnIslandPointer.  A captured pointer is routed to the capturing element *)
(* wherever it is, and does not hover.                                     *)
RoutedTo(on) == IF capture = None THEN on
                ELSE IF capture \in Hosted THEN capture ELSE None

CandidateAfter(msg, on) ==
    CASE msg = "Pressed" /\ on # None -> [of |-> on, moved |-> FALSE]
      [] msg = "MovedFar" /\ candidate.of # None -> [candidate EXCEPT !.moved = TRUE]
      [] msg \in {"Moved"} \cup Releases -> candidate
      [] OTHER -> NoTap

Message(msg, on, rest) ==
    LET to     == RoutedTo(on)
        seen   == CandidateAfter(msg, on)
        hovers == msg \in Moves /\ capture = None
    IN
    /\ UNCHANGED lastTap
    /\ CASE to = None /\ hovers /\ hover \in Hosted ->
              LeaveHover(rest) /\ candidate' = seen /\ UNCHANGED releasing
         [] to = None /\ ~(hovers /\ hover \in Hosted) ->
              /\ hover' = IF hovers THEN None ELSE hover
              /\ candidate' = CandidateLeft(msg \in Releases, seen)
              /\ calls' = rest /\ UNCHANGED <<releasing, inside, excused>>
         [] to # None /\ hovers /\ hover # to /\ hover \in Hosted ->
              /\ TellExited(hover)
              /\ calls' = <<Telling("exited", to)>> \o rest
              /\ candidate' = seen /\ UNCHANGED <<hover, releasing>>
         [] to # None /\ hovers /\ hover # to /\ hover \notin Hosted ->
              Enter(to, rest) /\ candidate' = seen /\ UNCHANGED releasing
         [] OTHER ->
              Route(msg, on, seen, rest) /\ UNCHANGED hoverVars

OnIslandPointer(msg, on) ==
    /\ PInUserCode /\ root # None
    /\ on \in Hosted \cup {None}
    /\ Message(msg, on, calls)
    /\ answers' = IF msg = "Pressed" /\ on # None THEN 0 ELSE answers
    /\ crossed' = (\/ crossed
                   \/ msg \in Moves /\ Within({"exited"}) # {}
                   \/ msg \in Releases /\ Within({"main"}) # {})
    /\ UNCHANGED <<vars, captureVars>>

(* The rest of it, after the handlers of the message and of the tap.       *)
AfterMain(f, rest) ==
    /\ releasing' = FALSE
    /\ candidate' = CandidateLeft(f.ended, candidate)
    /\ IF f.of \in Hosted
       THEN /\ calls' = <<Telling("tapped", f.of)>> \o rest
            /\ answers' = IF answers < 2 THEN answers + 1 ELSE answers
       ELSE calls' = rest /\ UNCHANGED answers
    /\ UNCHANGED <<lastTap, hoverVars>>

AfterTapped(t, near, rest) ==
    /\ IF near /\ t \in Hosted /\ lastTap = t
       THEN calls' = <<Telling("doubled", t)>> \o rest /\ UNCHANGED lastTap
       ELSE calls' = rest /\ lastTap' = t
    /\ UNCHANGED <<candidate, releasing, answers, hoverVars>>

AfterDoubled(rest) ==
    /\ lastTap' = None /\ calls' = rest
    /\ UNCHANGED <<candidate, releasing, answers, hoverVars>>

-----------------------------------------------------------------------------
(* ClearPointerCapture and OnIslandPointerCaptureLost.                     *)
Reached == IF root = None THEN None
           ELSE IF lostTarget = capture \/ capture \in Hosted THEN capture ELSE None
OverSaved == saved # None /\ lostTarget = capture

ClearPointerCapture(rest) ==
    /\ capture' = None
    /\ candidate' = IF releasing THEN candidate ELSE NoTap
    /\ calls' = IF Reached = None THEN rest
                ELSE <<Lost(Reached, IF OverSaved THEN "saved" ELSE "tree")>> \o rest
    /\ UNCHANGED <<lastTap, releasing, answers>>

Captured(t, rest) ==
    /\ capture' \in {t, capture}           \* the window's capture may fail
    /\ calls' = rest
    /\ UNCHANGED tapVars

CapturePointer(t) ==
    /\ PInUserCode /\ t \in Hosted /\ capture # t
    /\ IF capture = None THEN Captured(t, calls)
       ELSE ClearPointerCapture(<<Telling("capture", t)>> \o calls)
    /\ UNCHANGED <<vars, hoverVars, saved, lostTarget, crossed>>

(* ReleasePointer by the element, or the window loses the capture.         *)
ReleasePointer ==
    /\ PInUserCode /\ capture # None
    /\ ClearPointerCapture(calls)
    /\ UNCHANGED <<vars, hoverVars, saved, lostTarget, crossed>>

(* OnHostPointerCanceled: the event, then the capture.                     *)
PointerCanceled ==
    /\ PInUserCode /\ root # None
    /\ \E on \in Hosted \cup {None} :
        Message("Canceled", on, <<Telling("canceled", None)>> \o calls)
    /\ UNCHANGED <<vars, answers, captureVars, crossed>>

-----------------------------------------------------------------------------
(* AttachRoot and DetachRoot (for None).                                   *)
CommitHosted(prev, new, rest) ==
    /\ calls' = rest
    /\ IF root = prev
       THEN /\ root' = new
            /\ hover' = None /\ candidate' = NoTap /\ lastTap' = None
            /\ excused' = inside
            /\ UNCHANGED <<releasing, answers, inside>>
       ELSE UNCHANGED <<root, hoverVars, tapVars>>

HostRoot(r) ==
    /\ PInUserCode /\ root # r
    /\ IF capture = None
       THEN CommitHosted(root, r, calls) /\ UNCHANGED capture
       ELSE /\ ClearPointerCapture(<<Attaching(root, r)>> \o calls)
            /\ UNCHANGED <<root, hoverVars>>
    /\ UNCHANGED <<place, torn, focusOnly, saved, lostTarget, crossed>>

(* Each child is prepared and detached, then each is reported.             *)
Prepared(list, t) == t \in {list[i] : i \in DOMAIN list}
SavedFor(list) == IF capture = list[Len(list)] THEN capture ELSE None

Take(list, r) ==
    /\ PInUserCode
    /\ \A i \in DOMAIN list : place[list[i]] = r
    /\ Len(list) > 1 => \A t \in Targets : place[t] = r => Prepared(list, t)
    /\ place' = [t \in Targets |-> IF Prepared(list, t) THEN None ELSE place[t]]
    /\ IF root = r
       THEN /\ saved' = SavedFor(list)
            /\ torn' = \E i \in DOMAIN calls : calls[i].at = "lost" /\ calls[i].how = "saved"
            /\ candidate' = IF Prepared(list, candidate.of) THEN NoTap ELSE candidate
            /\ lastTap' = IF Prepared(list, lastTap) THEN None ELSE lastTap
            /\ excused' = excused \cup (inside \cap {t \in Targets : Prepared(list, t)})
            /\ calls' = <<Reporting(list, r)>> \o calls
       ELSE UNCHANGED <<saved, torn, candidate, lastTap, excused, calls>>
    /\ UNCHANGED <<root, focusOnly, releasing, answers, hover, inside, capture, lostTarget, crossed>>

Put(t, r) ==
    /\ PInUserCode
    /\ place[t] = None
    /\ place' = [place EXCEPT ![t] = r]
    /\ UNCHANGED <<root, torn, focusOnly, pointerVars>>

(* OnVisualSubtreeDetached for the first of the list; then the others.     *)
NotifyDetached(f, rest) ==
    LET t == Head(f.list)
        others == IF Len(f.list) = 1 THEN rest
                  ELSE <<Reporting(Tail(f.list), f.from)>> \o rest
    IN  IF root = f.from /\ capture = t
        THEN /\ lostTarget' = t
             /\ calls' = <<Telling("release", t),
                           Reported(t, lostTarget)>> \o others
        ELSE calls' = others /\ UNCHANGED lostTarget

AfterReported(f, rest) ==
    /\ lostTarget' = IF lostTarget = f.of THEN f.prev ELSE lostTarget
    /\ saved' = None
    /\ calls' = rest

-----------------------------------------------------------------------------
Resume ==
    /\ calls # <<>>
    /\ LET f == Head(calls)  rest == Tail(calls) IN
       \/ /\ \/ f.at = "exited"  /\ Enter(f.of, rest) /\ UNCHANGED tapVars
             \/ /\ f.at = "entered"
                /\ Route("Moved", None, candidate, rest)
                /\ UNCHANGED <<lastTap, answers, hoverVars>>
             \/ f.at = "main"    /\ AfterMain(f, rest)
             \/ f.at = "tapped"  /\ \E near \in BOOLEAN : AfterTapped(f.of, near, rest)
             \/ f.at = "doubled" /\ AfterDoubled(rest)
          /\ UNCHANGED <<vars, captureVars>>
       \/ /\ \/ f.at \in {"left", "lost"} /\ calls' = rest /\ UNCHANGED <<tapVars, capture>>
             \/ f.at = "capture" /\ Captured(f.of, rest)
             \/ f.at \in {"release", "canceled"}
                /\ IF capture = None \/ (f.at = "release" /\ capture # f.of)
                   THEN calls' = rest /\ UNCHANGED <<tapVars, capture>>
                   ELSE ClearPointerCapture(rest)
          /\ UNCHANGED <<vars, hoverVars, saved, lostTarget>>
       \/ /\ f.at = "attach"
          /\ CommitHosted(f.prev, f.new, rest)
          /\ UNCHANGED <<place, torn, focusOnly, captureVars>>
       \/ /\ f.at = "report" /\ NotifyDetached(f, rest)
          /\ UNCHANGED <<vars, tapVars, hoverVars, capture, saved>>
       \/ /\ f.at = "reported" /\ AfterReported(f, rest)
          /\ UNCHANGED <<vars, tapVars, hoverVars, capture>>
    /\ UNCHANGED crossed

PointerNext ==
    /\ ~torn
    /\ \/ \E msg \in Messages, on \in Elements : OnIslandPointer(msg, on)
       \/ PointerCanceled
       \/ \E t \in Targets : CapturePointer(t) \/ (\E r \in Roots : Put(t, r))
       \/ ReleasePointer
       \/ \E r \in Panels : HostRoot(r)
       \/ \E list \in Lists, r \in Roots : Take(list, r)
       \/ Resume
PointerSpec == Init /\ PointerInit /\ [][PointerNext]_pvars

-----------------------------------------------------------------------------
AtRest == calls = <<>>

(* "overlapping/z ordered elements receive balanced Exited then Entered    *)
(* routes" (OnIslandPointer): once every handler has returned, an element  *)
(* of the hosted tree that was told Entered, and not Exited since, is the  *)
(* hovered one.  It is so unless a move came while Exited was raised.      *)
HoverBalanced == AtRest /\ ~crossed => inside \ excused \subseteq {hover}

(* A press is answered by one tap at most, whatever the handlers of the    *)
(* release, of its capture and of the tap do, but release once more.       *)
TapEarned == ~crossed => answers < 2

(* What the pointer leaves behind once it has been handled.                *)
PointerProtocol == HoverBalanced /\ TapEarned
=============================================================================
