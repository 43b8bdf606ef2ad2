----------------------------- MODULE XamlFocus -----------------------------
(***************************************************************************)
(* XamlFocusScope (phase3/xamlcore/src/xaml_focus.cpp): which element of   *)
(* one hosted visual tree has logical focus.  Everything runs on one       *)
(* thread, but every event Reconcile raises, and every CaptureLost that    *)
(* releasing the pointer raises, is user code that may move the focus      *)
(* again, replace the root or change the tree before it returns.           *)
(*                                                                         *)
(* A tree is its root panel and the focusable elements directly below it.  *)
(* Which ancestors hear an event (the route) is left out: any handler may  *)
(* do any operation.  The route saved for an element being removed stands  *)
(* as the element it starts from; a behaviour ends where a saved route is  *)
(* changed while its handlers run, which is undefined.                     *)
(***************************************************************************)
EXTENDS Integers, Sequences

CONSTANTS Targets,     \* the focusable elements
          Roots,       \* the root panels
          None,
          MaxDepth     \* bound: frames in progress at once

ASSUME NoneAssumption == None \notin Targets \cup Roots
ASSUME BoundAssumption == MaxDepth \in Nat

VARIABLES
    root,         \* root_, also the one entry of g_scopes
    place,        \* per element: the panel it is below
    desired,      \* desired_
    active,       \* active_
    host,         \* host_focused_
    reconciling,  \* reconciling_
    pending,      \* reconcile_pending_
    notifying,    \* IslandInputManager is inside OnIslandFocusChanged
    refusing,     \* whether handlers cancel or redirect out of the tree
    stack,        \* callbacks and unfinished calls, innermost first
    kept,         \* detached_focus_target_, whose route is saved
    torn,         \* history: a saved route was changed while it was raised
    lostFor       \* history: the transition in which active lost focus

focusVars == <<desired, active, reconciling, pending, notifying, lostFor>>
routeVars == <<kept, torn>>
vars == <<root, place, host, refusing, stack, routeVars, focusVars>>

NoTransition == [old |-> None, new |-> None]
Elements == Targets \cup {None}
Panels   == Roots \cup {None}

(* What a frame on the stack still has to do.                              *)
Raising(kind, to, next) == [kind |-> kind, to |-> to, next |-> next]
CaptureLost(kind, prev, new) ==
    [kind |-> kind, prev |-> prev, new |-> new]
Removed(kind, list, from) == [kind |-> kind, list |-> list, from |-> from]

Lists  == {<<t>> : t \in Targets} \cup {s \in Targets \X Targets : s[1] # s[2]}
Frames == [kind : {"losing", "getting", "lost", "got", "request"}, to : Elements, next : Elements]
          \cup [kind : {"attach", "detach"}, prev : Panels, new : Panels]
          \cup [kind : {"capture", "remove"}, list : Lists, from : Roots]

TypeOK ==
    /\ root \in Panels
    /\ place \in [Targets -> Panels]
    /\ desired \in Elements /\ active \in Elements
    /\ host \in BOOLEAN /\ reconciling \in BOOLEAN /\ pending \in BOOLEAN
    /\ notifying \in BOOLEAN /\ refusing \in BOOLEAN
    /\ stack \in Seq(Frames)
    /\ lostFor \in [old : Elements, new : Elements]
    /\ kept \in Elements /\ torn \in BOOLEAN

Init ==
    /\ root = None
    /\ place \in [Targets -> Panels]
    /\ desired = None /\ active = None
    /\ host = FALSE /\ reconciling = FALSE /\ pending = FALSE
    /\ notifying = FALSE
    /\ refusing \in BOOLEAN
    /\ stack = <<>>
    /\ lostFor = NoTransition
    /\ kept = None /\ torn = FALSE

TargetBelongsToRoot(t) == root # None /\ place[t] = root

-----------------------------------------------------------------------------
(* Reconcile.  Pass is the head of its loop, for the desired element d and *)
(* the host focus h.                                                       *)
Wanted_Always(d, h) == d               \* mutant: host_focused_ is not read
Wanted(d, h) == IF h THEN d ELSE None

Leave(rest) ==
    /\ pending' = FALSE /\ reconciling' = FALSE /\ notifying' = FALSE
    /\ stack' = rest

Pass(rest, d, h) ==
    /\ UNCHANGED <<active, lostFor>>
    /\ \/ /\ active = Wanted(d, h)
          /\ Leave(rest)
       \/ /\ active # Wanted(d, h)
          /\ pending' = FALSE /\ reconciling' = TRUE
          /\ stack' = <<Raising(IF active # None THEN "losing" ELSE "getting",
                                Wanted(d, h), Wanted(d, h))>> \o rest

Nested_Ignored == FALSE                \* mutant: no reconciling_ guard
Nested == reconciling

SetAndReconcile(rest, d, h, byManager) ==
    /\ desired' = d
    /\ IF Nested
       THEN /\ pending' = TRUE
            /\ stack' = rest
            /\ UNCHANGED <<active, reconciling, notifying, lostFor>>
       ELSE /\ Pass(rest, d, h)
            /\ active # Wanted(d, h) => notifying' = byManager

(* After the LosingFocus and GettingFocus handlers.                        *)
Redirectable_Anywhere(n) == TRUE       \* mutant: the redirection is not checked
Redirectable(n) == n \in {None} \cup {t \in Targets : TargetBelongsToRoot(t)}

Restored_Not == desired                \* mutant: the request outlives its refusal
Restored == active

Decide(f, cancel, n, rest) ==
    LET redirected == n # f.to
        refused    == cancel \/ (redirected /\ ~Redirectable(n))
        wanted     == IF redirected THEN n ELSE f.to
    IN
    \/ /\ refused
       /\ desired' = Restored
       /\ Leave(rest)
       /\ UNCHANGED <<active, lostFor>>
    \/ /\ ~refused /\ active # None
       /\ desired' = IF redirected THEN n ELSE desired
       /\ active' = None
       /\ lostFor' = [old |-> active, new |-> wanted]
       /\ stack' = <<Raising("lost", IF kept = active THEN kept ELSE None, None)>> \o rest
       /\ pending' = (pending \/ redirected)
       /\ UNCHANGED <<reconciling, notifying>>
    \/ /\ ~refused /\ active = None /\ wanted # None
       /\ desired' = IF redirected THEN n ELSE desired
       /\ active' = wanted
       /\ lostFor' = NoTransition
       /\ stack' = <<Raising("got", None, None)>> \o rest
       /\ pending' = (pending \/ redirected)
       /\ UNCHANGED <<reconciling, notifying>>
    \/ /\ ~refused /\ active = None /\ wanted = None
       /\ desired' = None
       /\ Leave(rest)
       /\ UNCHANGED <<active, lostFor>>

(* Handlers may cancel and may name another element.                       *)
Raised(f, rest) ==
    \E cancel \in {FALSE, refusing},
       n \in {e \in Elements : refusing \/ e = f.to \/ Redirectable(e)} :
        IF f.kind = "losing" /\ ~cancel /\ f.to # None
        THEN /\ stack' = <<Raising("getting", f.to, n)>> \o rest
             /\ UNCHANGED focusVars
        ELSE Decide(f, cancel, n, rest)

-----------------------------------------------------------------------------
(* AttachRoot and DetachRoot after the pointer is released.                *)
CommitRoot(prev, new, rest) ==
    IF root = prev
    THEN /\ root' = new
         /\ SetAndReconcile(rest, None, host, FALSE)
    ELSE stack' = rest /\ UNCHANGED <<root, focusVars>>

(* One element after another of a changed collection is reported removed.  *)
(* The root is looked at first, and not again after CaptureLost.           *)
Gone(t) == desired = t \/ active = t

IsLast_OffByOne(list) == Len(list) = 0 \* mutant
IsLast(list) == Len(list) = 1

NotifyRemoved(list, from, hosted, rest) ==
    LET after == IF IsLast(list) THEN rest
                 ELSE <<Removed("remove", Tail(list), from)>> \o rest
    IN  IF hosted /\ Gone(Head(list))
        THEN SetAndReconcile(after, None, host, FALSE)
        ELSE stack' = after /\ UNCHANGED focusVars

Return ==
    /\ stack # <<>>
    /\ LET f == Head(stack)  rest == Tail(stack) IN
       \/ /\ f.kind \in {"losing", "getting"}
          /\ Raised(f, rest)
          /\ UNCHANGED <<root, place, host, refusing, routeVars>>
       \/ /\ f.kind \in {"lost", "got"}
          /\ Pass(rest, desired, host)
          /\ active # Wanted(desired, host) => UNCHANGED notifying
          /\ kept' = IF f.kind = "lost" /\ f.to # None THEN None ELSE kept
          /\ UNCHANGED <<root, place, host, refusing, desired, torn>>
       \/ /\ f.kind = "request"           \* RequestHostFocus has succeeded; the
          /\ host \/ notifying            \* manager may report it later
          /\ stack' = rest
          /\ UNCHANGED <<root, place, host, refusing, routeVars, focusVars>>
       \/ /\ f.kind = "request"           \* or failed
          /\ IF desired = f.to
             THEN SetAndReconcile(rest, None, host, FALSE)
             ELSE stack' = rest /\ UNCHANGED focusVars
          /\ UNCHANGED <<root, place, host, refusing, routeVars>>
       \/ /\ f.kind \in {"attach", "detach"}
          /\ CommitRoot(f.prev, f.new, rest)
          /\ UNCHANGED <<place, host, refusing, routeVars>>
       \/ /\ f.kind = "capture"           \* CaptureLost has been raised
          /\ NotifyRemoved(f.list, f.from, TRUE, rest)
          /\ UNCHANGED <<root, place, host, refusing, routeVars>>
       \/ /\ f.kind = "remove"
          /\ \/ NotifyRemoved(f.list, f.from, root = f.from, rest)
             \/ /\ root = f.from
                /\ stack' = <<[f EXCEPT !.kind = "capture"]>> \o rest
                /\ UNCHANGED focusVars
          /\ UNCHANGED <<root, place, host, refusing, routeVars>>

-----------------------------------------------------------------------------
(* The operations, called from outside or from a callback.                 *)
InUserCode ==
    /\ Len(stack) < MaxDepth
    /\ stack # <<>> => Head(stack).kind # "remove"

RequestFocus(t) ==
    /\ InUserCode
    /\ TargetBelongsToRoot(t)
    /\ IF host
       THEN SetAndReconcile(stack, t, host, FALSE)
       ELSE /\ desired' = t /\ pending' = TRUE
            /\ stack' = <<Raising("request", t, None)>> \o stack
            /\ UNCHANGED <<active, reconciling, notifying, lostFor>>
    /\ UNCHANGED <<root, place, host, refusing, routeVars>>

(* The manager never nests its focus callbacks (IslandInput).              *)
OnIslandFocusChanged(b) ==
    /\ InUserCode
    /\ ~notifying
    /\ host # b
    /\ host' = b
    /\ SetAndReconcile(stack, desired, b, TRUE)
    /\ UNCHANGED <<root, place, refusing, routeVars>>

(* Whether the pointer is captured, so that releasing it raises            *)
(* CaptureLost first, is left open.                                        *)
AttachRoot(r) ==
    /\ InUserCode
    /\ root # r
    /\ \/ CommitRoot(root, r, stack)
       \/ /\ root # None
          /\ stack' = <<CaptureLost("attach", root, r)>> \o stack
          /\ UNCHANGED <<root, focusVars>>
    /\ UNCHANGED <<place, host, refusing, routeVars>>

DetachRoot ==
    /\ InUserCode
    /\ root # None
    /\ \/ CommitRoot(root, None, stack)
       \/ /\ stack' = <<CaptureLost("detach", root, None)>> \o stack
          /\ UNCHANGED <<root, focusVars>>
    /\ UNCHANGED <<place, host, refusing, routeVars>>

Insert(t, r) ==
    /\ InUserCode
    /\ place[t] = None
    /\ place' = [place EXCEPT ![t] = r]
    /\ UNCHANGED <<root, host, refusing, stack, routeVars, focusVars>>

(* RemoveAt, or Clear of a panel with several elements: each element is    *)
(* prepared and taken out of the tree, then each is reported.              *)
Remove(list, r) ==
    /\ InUserCode
    /\ \A i \in DOMAIN list : place[list[i]] = r
    /\ Len(list) > 1 => \A t \in Targets : place[t] = r => \E i \in DOMAIN list : list[i] = t
    /\ place' = [t \in Targets |-> IF \E i \in DOMAIN list : list[i] = t
                                   THEN None ELSE place[t]]
    /\ IF root = r
       THEN /\ stack' = <<Removed("remove", list, r)>> \o stack
            /\ kept' = IF active = list[Len(list)] THEN active ELSE None
            /\ torn' = \E i \in DOMAIN stack : stack[i].kind = "lost" /\ stack[i].to # None
       ELSE UNCHANGED <<stack, routeVars>>
    /\ UNCHANGED <<root, host, refusing, focusVars>>

-----------------------------------------------------------------------------
Operation ==
    \/ \E t \in Targets : RequestFocus(t)
    \/ \E b \in BOOLEAN : OnIslandFocusChanged(b)
    \/ \E r \in Panels : AttachRoot(r)
    \/ DetachRoot
    \/ \E t \in Targets, r \in Roots : Insert(t, r)
    \/ \E list \in Lists, r \in Roots : Remove(list, r)

Next == ~torn /\ (Operation \/ Return)
Spec == Init /\ [][Next]_vars

-----------------------------------------------------------------------------
Idle == stack = <<>>

(* A focus change asked for from a focus handler is not raised inside it.  *)
FocusEvents == {i \in DOMAIN stack : stack[i].kind \in {"losing", "getting", "lost", "got"}}
OneFocusEvent == \A i, j \in FocusEvents : i = j

(* Once every handler has returned, and while the window has focus, the    *)
(* active element is the desired one: no request made by a handler, and no *)
(* refusal by one, is left half done.                                      *)
FocusSettled == Idle => ~reconciling /\ (host => active = desired)

(* If no handler refuses, the active element follows the window's focus.   *)
FocusFollowsHost == Idle /\ ~refusing => active = IF host THEN desired ELSE None

(* "Lets a detached tree stop resolving Focus immediately" (xaml_focus.h): *)
(* once every handler has returned, the active element is in the hosted    *)
(* tree.  It is so if no handler refuses.                                  *)
ActiveIsHosted == Idle /\ active # None => TargetBelongsToRoot(active)
WillingIsHosted == ~refusing => ActiveIsHosted

(* "Snapshot every registered element on the route before invoking user    *)
(* code ... so handler removal, content replacement, and object Release    *)
(* are safe" (Reconcile).  The route saved for a removed element is raised *)
(* from the member itself, which the next removal clears.                  *)
RouteIsSnapshot == ~torn

(* Reconcile raises one focus event at a time, and its loop ends with what *)
(* was asked for last and, unless a handler refused, with what the         *)
(* window's focus asks for.                                                *)
OneTransition == TypeOK /\ OneFocusEvent /\ FocusSettled /\ FocusFollowsHost
=============================================================================
