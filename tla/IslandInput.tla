---------------------------- MODULE IslandInput ----------------------------
(***************************************************************************)
(* IslandInputManager (phase3/xamlcore/src/island_input_manager.cpp): the  *)
(* boundary between a XAML island's child window and the one sink that     *)
(* stands for its visual tree.  It runs on one thread, so a stretch of the *)
(* manager's code between two callbacks is one step; what is hard is that  *)
(* each callback is user code that may call the manager again before it    *)
(* returns.  The stack holds, for each callback in progress, what its      *)
(* caller still has to do.                                                 *)
(***************************************************************************)
EXTENDS Integers, Sequences

CONSTANTS Sinks,       \* the IslandInputSink objects
          Nodes,       \* the retained nodes a pointer is captured for
          None,
          MaxDepth,    \* bound: callbacks nested in one another
          IdRange      \* bound: how many values pointer_frame_id_ has (2^32 in the code)

ASSUME NoneAssumption == None \notin Sinks /\ None \notin Sinks \X Nodes
ASSUME DepthAssumption == MaxDepth \in Nat
ASSUME RangeAssumption == IdRange \in Nat /\ IdRange >= 2

VARIABLES
    sink,         \* sink_
    notified,     \* notified_sink_
    focused,      \* host_focused_
    reconciling,  \* reconciling_focus_
    pending,      \* focus_reconcile_pending_
    capture,      \* pointer_capture_ and pointer_capture_sink_
    bound,        \* the host's capture callbacks are set
    hostCapture,  \* User32: the child window has the mouse capture
    frameId,      \* pointer_frame_id_
    stack,        \* callbacks in progress, innermost first
    balance       \* per sink: focus gains it was told of, less the losses

focusVars   == <<notified, reconciling, pending, balance>>
captureVars == <<capture, hostCapture>>
vars == <<sink, focused, focusVars, captureVars, bound, frameId, stack>>

Captures == Sinks \X Nodes
Kinds == {"attach", "detach", "capture", "unbind", "pointer", "cancel",
          "reconcile", "done"}
Frame(kind, s, n) == [kind |-> kind, sink |-> s, node |-> n]
Done == Frame("done", None, None)
Frames == [kind : Kinds, sink : Sinks \cup {None}, node : Nodes \cup {None}]

TypeOK ==
    /\ sink \in Sinks \cup {None}
    /\ notified \in Sinks \cup {None}
    /\ focused \in BOOLEAN
    /\ reconciling \in BOOLEAN
    /\ pending \in BOOLEAN
    /\ capture \in Captures \cup {None}
    /\ bound \in BOOLEAN
    /\ hostCapture \in BOOLEAN
    /\ frameId \in 0..(IdRange - 1)
    /\ stack \in Seq(Frames)
    /\ balance \in [Sinks -> Int]

Init ==
    /\ sink = None
    /\ notified = None
    /\ focused = FALSE
    /\ reconciling = FALSE
    /\ pending = FALSE
    /\ capture = None
    /\ bound = FALSE
    /\ hostCapture = FALSE
    /\ frameId = 0
    /\ stack = <<>>
    /\ balance = [s \in Sinks |-> 0]

-----------------------------------------------------------------------------
MustLose_First(wanted) == notified # None /\ wanted = None  \* mutant: gain first
MustLose(wanted) == notified \notin {wanted, None}

(* ReconcileFocus.  One pass of its loop ends in a focus callback or, when *)
(* the notified sink is the wanted one, leaves the loop.                   *)
Pass(rest, s, isFocused) ==
    LET wanted == IF isFocused THEN s ELSE None IN
    /\ pending' = FALSE
    /\ \/ /\ notified = wanted
          /\ reconciling' = FALSE
          /\ stack' = rest
          /\ UNCHANGED <<notified, balance>>
       \/ /\ MustLose(wanted)
          /\ reconciling' = TRUE
          /\ notified' = None
          /\ balance' = [balance EXCEPT ![notified] = @ - 1]
          /\ stack' = <<Frame("reconcile", None, None)>> \o rest
       \/ /\ ~MustLose(wanted) /\ notified # wanted
          /\ reconciling' = TRUE
          /\ notified' = wanted
          /\ balance' = [balance EXCEPT ![wanted] = @ + 1]
          /\ stack' = <<Frame("reconcile", None, None)>> \o rest

Nested_Ignored == FALSE                \* mutant: no reconciling_focus_ guard
Nested == reconciling

ReconcileFocus(rest, s, isFocused) ==
    IF Nested
    THEN pending' = TRUE /\ stack' = rest /\ UNCHANGED <<notified, reconciling, balance>>
    ELSE Pass(rest, s, isFocused)

(* After a focus callback the loop always goes round again.                *)
LoopAgain_IfAsked == pending           \* mutant: only when a callback asked
LoopAgain == TRUE

AfterFocusCallback(rest) ==
    IF LoopAgain
    THEN Pass(rest, sink, focused)
    ELSE /\ pending' = FALSE /\ reconciling' = FALSE /\ stack' = rest
         /\ UNCHANGED <<notified, balance>>

-----------------------------------------------------------------------------
(* The second halves: what a caller does once its callback has returned.   *)

(* CapturePointer after the earlier capture, if any, is gone: SetCapture,  *)
(* then commit or undo.  Undoing releases the window's capture, of which   *)
(* User32 tells the manager at once (WM_CAPTURECHANGED).                   *)
StillAttached_Assumed(s) == TRUE       \* mutant: sink_ is not compared again
StillAttached(s) == sink = s

CommitCapture(f, rest) ==
    \/ /\ hostCapture' = (hostCapture \/ bound)
       /\ StillAttached(f.sink)
       /\ capture' = <<f.sink, f.node>>
       /\ stack' = rest
    \/ /\ ~StillAttached(f.sink)
       /\ IF bound /\ capture # None
          THEN /\ hostCapture' = FALSE
               /\ capture' = None
               /\ stack' = <<Done>> \o rest
          ELSE /\ hostCapture' = (hostCapture /\ ~bound)
               /\ stack' = rest
               /\ UNCHANGED capture
    \/ /\ bound          \* SetCapture failed
       /\ stack' = rest
       /\ UNCHANGED captureVars

Resume(f, rest) ==
    \/ /\ f.kind = "attach"
       /\ sink' = f.sink
       /\ ReconcileFocus(rest, f.sink, focused)
       /\ UNCHANGED <<focused, captureVars, bound, frameId>>
    \/ /\ f.kind = "detach"
       /\ sink' = None
       /\ ReconcileFocus(rest, None, focused)
       /\ UNCHANGED <<focused, captureVars, bound, frameId>>
    \/ /\ f.kind = "capture"
       /\ CommitCapture(f, rest)
       /\ UNCHANGED <<sink, focused, focusVars, bound, frameId>>
    \/ /\ f.kind = "unbind"
       /\ bound' = FALSE
       /\ stack' = rest
       /\ UNCHANGED <<sink, focused, focusVars, captureVars, frameId>>
    \/ /\ f.kind = "pointer"
       /\ stack' = <<Done>> \o rest
       /\ UNCHANGED <<sink, focused, focusVars, captureVars, bound, frameId>>
    \/ /\ f.kind = "reconcile"
       /\ AfterFocusCallback(rest)
       /\ UNCHANGED <<sink, focused, captureVars, bound, frameId>>
    \/ /\ f.kind = "done"
       /\ stack' = rest
       /\ UNCHANGED <<sink, focused, focusVars, captureVars, bound, frameId>>

(* ClearPointerCapture: the logical capture goes first, then the window's, *)
(* then the owner is told, then the caller's second half f runs.           *)
HostAfterClear_Kept(releaseHost) == hostCapture   \* mutant: no ReleaseCapture
HostAfterClear(releaseHost) == hostCapture /\ ~(releaseHost /\ bound)

ClearThen(f, releaseHost, rest) ==
    IF capture = None
    THEN Resume(f, rest)
    ELSE /\ capture' = None
         /\ hostCapture' = HostAfterClear(releaseHost)
         /\ stack' = <<f>> \o rest
         /\ UNCHANGED <<sink, focused, focusVars, bound, frameId>>

(* A callback returns.  OnHostPointerCanceled clears the capture after its *)
(* own callback.                                                           *)
Return ==
    /\ stack # <<>>
    /\ IF Head(stack).kind = "cancel"
       THEN ClearThen(Done, TRUE, Tail(stack))
       ELSE Resume(Head(stack), Tail(stack))

-----------------------------------------------------------------------------
(* The operations.  Each may be called from outside or from a callback.    *)
InUserCode == Len(stack) < MaxDepth

Attach(s) ==
    /\ InUserCode
    /\ sink # s
    /\ ClearThen(Frame("attach", s, None), TRUE, stack)

Detach(s) ==
    /\ InUserCode
    /\ sink = s
    /\ ClearThen(Frame("detach", s, None), TRUE, stack)

OnHostFocusChanged(isFocused) ==
    /\ InUserCode
    /\ focused # isFocused
    /\ focused' = isFocused
    /\ ReconcileFocus(stack, sink, isFocused)
    /\ UNCHANGED <<sink, captureVars, bound, frameId>>

(* A key or character reaches the notified sink while the host has focus.  *)
ForwardKeyMessage ==
    /\ InUserCode
    /\ focused
    /\ notified # None
    /\ stack' = <<Done>> \o stack
    /\ UNCHANGED <<sink, focused, focusVars, captureVars, bound, frameId>>

(* ++pointer_frame_id_, once more when it came out as zero.                *)
Increment_Unbounded(i) == i + 1        \* mutant: the counter is wider than its type
Increment(i) == (i + 1) % IdRange
NextFrameId_Wraps(i) == Increment(i)   \* mutant: zero is not skipped
NextFrameId(i) == IF Increment(i) = 0 THEN Increment(0) ELSE Increment(i)

(* Messages come from the window, so only while it exists.                 *)
ForwardPointerMessage ==
    /\ InUserCode
    /\ bound
    /\ sink # None
    /\ frameId' = NextFrameId(frameId)
    /\ IF capture # None /\ capture[1] # sink
       THEN /\ capture' = None
            /\ hostCapture' = HostAfterClear(TRUE)
            /\ stack' = <<Frame("pointer", sink, None)>> \o stack
       ELSE stack' = <<Done>> \o stack /\ UNCHANGED captureVars
    /\ UNCHANGED <<sink, focused, focusVars, bound>>

(* A caller of CapturePointer got its pointer from an earlier event.       *)
CapturePointer(s, n) ==
    /\ InUserCode
    /\ frameId # 0
    /\ sink = s
    /\ capture # <<s, n>>
    /\ ClearThen(Frame("capture", s, n), TRUE, stack)

ReleasePointer(s, n) ==
    /\ InUserCode
    /\ sink = s
    /\ capture = <<s, n>>
    /\ ClearThen(Done, TRUE, stack)

(* Another window takes the capture; User32 has made the transition when   *)
(* the manager hears of it.                                                *)
OnHostPointerCaptureLost ==
    /\ InUserCode
    /\ hostCapture
    /\ hostCapture' = FALSE
    /\ IF capture = None
       THEN UNCHANGED <<capture, stack>>
       ELSE capture' = None /\ stack' = <<Done>> \o stack
    /\ UNCHANGED <<sink, focused, focusVars, bound, frameId>>

(* The sink, once it has seen a pointer event, is sent Canceled first.     *)
OnHostPointerCanceled ==
    /\ InUserCode
    /\ IF sink # None /\ frameId # 0
       THEN /\ stack' = <<Frame("cancel", sink, None)>> \o stack
            /\ UNCHANGED <<sink, focused, focusVars, captureVars, bound, frameId>>
       ELSE capture # None /\ ClearThen(Done, TRUE, stack)

(* AttachToWindow; the model follows one window from creation to its end.  *)
SetHostPointerCaptureCallbacks ==
    /\ stack = <<>>
    /\ ~bound /\ frameId = 0
    /\ bound' = TRUE
    /\ UNCHANGED <<sink, focused, focusVars, captureVars, frameId, stack>>

ClearHostPointerCaptureCallbacks ==
    /\ InUserCode
    /\ bound
    /\ ClearThen(Frame("unbind", None, None), TRUE, stack)

-----------------------------------------------------------------------------
Operation ==
    \/ \E s \in Sinks : Attach(s) \/ Detach(s)
    \/ \E b \in BOOLEAN : OnHostFocusChanged(b)
    \/ ForwardKeyMessage \/ ForwardPointerMessage
    \/ \E s \in Sinks, n \in Nodes : CapturePointer(s, n) \/ ReleasePointer(s, n)
    \/ OnHostPointerCaptureLost \/ OnHostPointerCanceled
    \/ SetHostPointerCaptureCallbacks \/ ClearHostPointerCaptureCallbacks

Next == Operation \/ Return
Spec == Init /\ [][Next]_vars

-----------------------------------------------------------------------------
(* "Tracking this separately makes Attach/Detach balanced even when        *)
(* callbacks re-enter" (island_input_manager.h): each sink's gains and     *)
(* losses of focus alternate and at most one sink is left with a gain.     *)
FocusBalanced == \A s \in Sinks : balance[s] = IF notified = s THEN 1 ELSE 0

(* Focus callbacks do not nest: a sink that attaches another one from its  *)
(* own focus callback returns before the other one hears of its focus.     *)
FocusCallbacks == {i \in DOMAIN stack : stack[i].kind = "reconcile"}
OneFocusCallback == \A i, j \in FocusCallbacks : i = j

(* "Callback re-entry is reconciled before this method returns": outside   *)
(* focus callbacks the sink that believes it has focus is the attached     *)
(* one, exactly while the window has focus.                                *)
FocusSettled ==
    FocusCallbacks = {} => /\ notified = IF focused THEN sink ELSE None
                           /\ ~reconciling

(* Logical capture and User32's capture agree between callbacks while the  *)
(* window's capture callbacks stay set.                                    *)
CaptureMatchesHost == bound => (capture # None <=> hostCapture)

(* "The expected sink identity prevents a detached root from capturing for *)
(* its replacement": a capture is granted only to the sink attached when   *)
(* it is committed.                                                        *)
GrantedToAttached == [][capture' \notin {capture, None} => capture'[1] = sink]_vars

(* A pointer frame id is never zero, also after it wraps.                  *)
FrameIdNeverZero == [][frameId' # frameId => frameId' # 0]_vars

(* ReconcileFocus: its callbacks do not nest, and outside of them the sink *)
(* that was told of the focus is the attached one.                         *)
FocusProtocol == OneFocusCallback /\ FocusSettled

(* CapturePointer and its losses: the logical capture is User32's, and is  *)
(* granted to the attached sink only.                                      *)
CaptureProtocol == [](TypeOK /\ CaptureMatchesHost) /\ GrantedToAttached
=============================================================================
