----------------------------- MODULE XamlIsland -----------------------------
(***************************************************************************)
(* DesktopWindowXamlSource (phase3/xamlcore/src/factory.cpp): the host of  *)
(* a XAML island.  It owns the child window, the content root and the      *)
(* frame on display.  Its window's thread runs every operation, and layout *)
(* and the loss of focus and capture call user code in the middle of them, *)
(* which may call any operation again; the stack holds the calls that wait *)
(* for such a callback.  Producers of external surfaces invalidate the     *)
(* frame from threads of their own.                                        *)
(***************************************************************************)
EXTENDS Integers, Sequences

CONSTANTS Roots,      \* elements that may become the content
          None,
          Renderers,  \* threads that change an external surface
          Sizes,      \* client sizes of the window
          Modes,      \* presenters the platform offers: "Dcomp", "Cpu"
          Faults,     \* what may fail, beside "none"
          MaxDepth,   \* bound: calls nested in one another
          MaxCalls    \* bound: operations called and elements changed

ASSUME NoneAssumption == None \notin Roots
ASSUME ModesAssumption == Modes \subseteq {"Dcomp", "Cpu"}
ASSUME FaultsAssumption == Faults \subseteq {"post", "layout", "build", "memory"}
ASSUME BoundsAssumption == MaxDepth \in Nat /\ MaxCalls \in Nat

VARIABLES
    closed,        \* closed_
    window,        \* child_, numbered in order of creation; 0: none
    made,          \* windows created so far
    size,          \* the window's client size
    host,          \* HostState, but for window and cookie
    queue,         \* generations of the rebuild messages in the window's queue
    poster,        \* per thread: its progress in the invalidation callback
    content,       \* content_
    contentEpoch,  \* content_epoch_
    focusRoot,     \* root_ of the focus scope
    sinks,         \* roots attached to invalidation_sink_
    rooted,        \* roots whose XamlRoot is set
    frame,         \* what the window displays
    stale,         \* the content has changed since the frame was built
    unlaid,        \* ... and has not been laid out since
    mode,          \* presentation_mode_, once attached
    fault,         \* what may fail in this behaviour
    stack,         \* calls waiting for a callback, innermost first
    calls

treeVars   == <<content, contentEpoch, focusRoot, sinks, rooted>>
frameVars  == <<frame, stale, unlaid>>
windowVars == <<window, made, size>>
postVars   == <<queue, poster>>
vars == <<closed, windowVars, host, postVars, treeVars, frameVars, mode, fault, stack, calls>>

UI == "ui"
Threads == {UI} \cup Renderers
MaybeRoots == Roots \cup {None}

IdlePoster == [pc |-> "idle", layout |-> FALSE, window |-> 0, gen |-> 0]

Put(v, phase, epoch) ==
    [op |-> "put", user |-> phase # "done", phase |-> phase, value |-> v,
     prev |-> content, prevRoot |-> focusRoot, epoch |-> epoch, attached |-> TRUE]
Puts == [op : {"put"}, user : BOOLEAN, phase : {"capture", "focus", "done"},
         value : MaybeRoots, prev : MaybeRoots, prevRoot : MaybeRoots,
         epoch : Nat, attached : BOOLEAN]
Rebuilds == [op : {"rebuild"}, user : BOOLEAN, window : Nat, epoch : Nat,
             contentEpoch : Nat, content : MaybeRoots, expected : Nat,
             size : Sizes, replacing : BOOLEAN]
Closes == [op : {"close"}, user : {TRUE}, phase : {"focus", "detach"}]
Losing == [op |-> "destroy", user |-> TRUE]
Calls == Puts \cup Rebuilds \cup Closes \cup {Losing}

TypeOK ==
    /\ closed \in BOOLEAN
    /\ window \in Nat /\ made \in Nat /\ size \in Sizes
    /\ host \in [enabled : BOOLEAN, posted : BOOLEAN, dirty : BOOLEAN, epoch : Nat, gen : Nat]
    /\ queue \in SUBSET Nat
    /\ poster \in [Threads -> [pc : {"idle", "notify", "post", "failed"},
                               layout : BOOLEAN, window : Nat, gen : Nat]]
    /\ content \in MaybeRoots /\ contentEpoch \in Nat
    /\ focusRoot \in MaybeRoots
    /\ sinks \in SUBSET Roots /\ rooted \in SUBSET Roots
    /\ frame \in [shows : MaybeRoots, size : Sizes, gen : Nat]
    /\ stale \in BOOLEAN /\ unlaid \in BOOLEAN
    /\ mode \in Modes /\ fault \in Faults \cup {"none"}
    /\ stack \in Seq(Calls)
    /\ calls \in 0..MaxCalls

Init ==
    /\ closed = FALSE
    /\ window = 0 /\ made = 0 /\ size \in Sizes
    /\ host = [enabled |-> FALSE, posted |-> FALSE, dirty |-> FALSE, epoch |-> 1, gen |-> 0]
    /\ queue = {} /\ poster = [t \in Threads |-> IdlePoster]
    /\ content = None /\ contentEpoch = 0 /\ focusRoot = None
    /\ sinks = {} /\ rooted = {}
    /\ frame = [shows |-> None, size |-> size, gen |-> 0]
    /\ stale = FALSE /\ unlaid = FALSE
    /\ mode \in Modes /\ fault \in Faults \cup {"none"}
    /\ stack = <<>> /\ calls = 0

(* User code is running on the window's thread, and may call an operation. *)
InUserCode ==
    /\ poster[UI].pc = "idle"
    /\ Len(stack) < MaxDepth
    /\ stack # <<>> => Head(stack).user

Called ==
    /\ InUserCode
    /\ calls < MaxCalls
    /\ calls' = calls + 1

-----------------------------------------------------------------------------
(* HostState: what the window's thread and the invalidating threads share  *)
(* under its mutex.                                                        *)
Superseded_Back(h) ==                  \* mutant: the generation is wound back
    [h EXCEPT !.posted = FALSE, !.dirty = FALSE, !.gen = @ - 1]
Superseded(h) == [h EXCEPT !.posted = FALSE, !.dirty = FALSE, !.gen = @ + 1]
Cancelled_StillPosted(h) ==            \* mutant: message_posted is not reset
    [h EXCEPT !.dirty = FALSE, !.gen = @ + 1]
Cancelled(h) == Superseded(h)
Enabled(h)  == [Superseded(h) EXCEPT !.enabled = TRUE, !.epoch = @ + 1]
Disabled(h) == [Superseded(h) EXCEPT !.enabled = FALSE, !.epoch = @ + 1]

(* The invalidation callback: under the mutex, then PostMessage, then, if  *)
(* that failed, under the mutex again.                                     *)
DirtyAfter_First(t) ==                 \* mutant: lost when the message is out already
    host.dirty \/ (poster[t].layout /\ ~host.posted)
DirtyAfter(t) == host.dirty \/ poster[t].layout

Notify(t) ==
    /\ poster[t].pc = "notify"
    /\ IF host.enabled
       THEN /\ host' = [host EXCEPT
                  !.dirty = DirtyAfter(t), !.posted = TRUE,
                  !.gen = IF host.posted THEN @ ELSE @ + 1]
            /\ poster' = [poster EXCEPT ![t] =
                  IF host.posted THEN IdlePoster
                  ELSE [@ EXCEPT !.pc = "post", !.window = window, !.gen = host.gen + 1]]
       ELSE /\ poster' = [poster EXCEPT ![t] = IdlePoster]
            /\ UNCHANGED host
    /\ UNCHANGED <<closed, windowVars, queue, treeVars, frameVars, mode, fault, stack, calls>>

Post(t) ==
    /\ poster[t].pc = "post"
    /\ \/ /\ poster[t].window = window
          /\ queue' = queue \cup {poster[t].gen}
          /\ poster' = [poster EXCEPT ![t] = IdlePoster]
       \/ /\ fault = "post" \/ poster[t].window # window
          /\ poster' = [poster EXCEPT ![t].pc = "failed"]
          /\ UNCHANGED queue
    /\ UNCHANGED <<closed, windowVars, host, treeVars, frameVars, mode, fault, stack, calls>>

OwnsFlag_Always(t) == TRUE             \* mutant: the generation is not compared
OwnsFlag(t) == host.gen = poster[t].gen

PostFailed(t) ==
    /\ poster[t].pc = "failed"
    /\ host' = [host EXCEPT !.posted = @ /\ ~OwnsFlag(t)]
    /\ poster' = [poster EXCEPT ![t] = IdlePoster]
    /\ UNCHANGED <<closed, windowVars, queue, treeVars, frameVars, mode, fault, stack, calls>>

(* Elements of an attached tree change: any property on the window's       *)
(* thread, an external surface, which is never a matter of layout, on      *)
(* another.                                                                *)
Mutate(t, r, layout) ==
    /\ IF t = UI THEN InUserCode ELSE poster[t].pc = "idle" /\ ~layout
    /\ calls < MaxCalls
    /\ calls' = calls + 1
    /\ r \in sinks
    /\ poster' = [poster EXCEPT ![t] = [IdlePoster EXCEPT !.pc = "notify", !.layout = layout]]
    /\ stale' = (stale \/ r = content)
    /\ unlaid' = (unlaid \/ (layout /\ r = content))
    /\ UNCHANGED <<closed, windowVars, host, queue, treeVars, frame, mode, fault, stack>>

-----------------------------------------------------------------------------
(* RebuildFrame, in two steps: up to the callbacks of PerformLayout, and   *)
(* from there.                                                             *)
StartRebuild(h, w, layout, replacing, rest, c, e) ==
    IF w # 0 /\ h.enabled
    THEN /\ stack' = <<[op |-> "rebuild", user |-> layout /\ c # None, window |-> w,
                        epoch |-> h.epoch, contentEpoch |-> e, content |-> c,
                        expected |-> frame.gen, size |-> size', replacing |-> replacing]>>
                     \o rest
         /\ unlaid' = (unlaid /\ ~(layout /\ c # None))
    ELSE stack' = rest /\ UNCHANGED unlaid

IsCurrentFrameTarget_Window(f) ==      \* mutant: content_epoch_ is not compared
    host.enabled /\ window = f.window /\ host.epoch = f.epoch
IsCurrentFrameTarget(f) ==
    /\ host.enabled /\ window = f.window /\ host.epoch = f.epoch
    /\ contentEpoch = f.contentEpoch /\ content = f.content

CanPublish_Always(f) == TRUE           \* mutant: PublishFrom ignores the generation
CanPublish(f) == frame.gen = f.expected

(* A DirectComposition update that fails leaves the last tree on display.  *)
(* On the CPU path a replaced content that cannot be drawn leaves a        *)
(* transparent frame, anything else the last one.                          *)
Fallback_Last(f) == frame.shows        \* mutant: no transparent fallback
Fallback(f) == IF f.replacing THEN None ELSE frame.shows

Published(f, built) ==
    LET showing(r) == [shows |-> r, size |-> f.size, gen |-> frame.gen + 1] IN
    IF ~IsCurrentFrameTarget(f) THEN frame
    ELSE IF mode = "Dcomp" THEN IF built THEN showing(f.content) ELSE frame
    ELSE IF ~CanPublish(f) THEN frame
    ELSE IF built THEN showing(f.content)
    ELSE IF f.replacing THEN showing(Fallback(f))
    ELSE frame

FinishRebuild(f, rest) ==
    /\ \E built \in IF f.content = None \/ fault \notin {"layout", "build"} THEN {TRUE}
                    ELSE IF fault = "layout" /\ ~f.user THEN {TRUE} ELSE BOOLEAN :
          frame' = Published(f, built)
    /\ stale' = IF frame' # frame THEN unlaid ELSE stale
    /\ stack' = rest
    /\ UNCHANGED <<closed, windowVars, host, postVars, treeVars, unlaid>>

(* OnInvalidationMessage.                                                  *)
Dispatch(g) ==
    /\ InUserCode
    /\ g \in queue
    /\ queue' = queue \ {g}
    /\ IF host.enabled /\ host.posted /\ host.gen = g
       THEN /\ host' = [host EXCEPT !.posted = FALSE, !.dirty = FALSE]
            /\ size' = size
            /\ StartRebuild(host, window, host.dirty, FALSE, stack, content, contentEpoch)
       ELSE UNCHANGED <<host, size, stack, unlaid>>
    /\ UNCHANGED <<closed, window, made, poster, treeVars, frame, stale, mode, fault, calls>>

OnSize(s) ==
    /\ Called
    /\ window # 0 /\ s # size
    /\ size' = s
    /\ host' = Cancelled(host)
    /\ StartRebuild(host', window, TRUE, FALSE, stack, content, contentEpoch)
    /\ UNCHANGED <<closed, window, made, postVars, treeVars, frame, stale, mode, fault>>

-----------------------------------------------------------------------------
(* put_Content: up to AttachRoot's first callback, between its callbacks,  *)
(* and after it.  Releasing the pointer runs the first, losing focus the   *)
(* second; without a former root there is neither.                         *)
CanReplace_Closed(v) == v # content    \* mutant: closed_ is not read
CanReplace(v) == ~closed /\ v # content

PutContent(v) ==
    /\ Called
    /\ CanReplace(v)
    /\ sinks' = sinks \cup ({v} \ {None})
    /\ content' = v
    /\ contentEpoch' = contentEpoch + 1
    /\ stale' = TRUE /\ unlaid' = (v # None)
    /\ \/ /\ focusRoot \notin {None, v}
          /\ stack' = <<Put(v, "capture", contentEpoch + 1)>> \o stack
          /\ UNCHANGED focusRoot
       \/ /\ focusRoot \in {None, v}
          /\ focusRoot' = v
          /\ stack' = <<Put(v, "done", contentEpoch + 1)>> \o stack
    /\ UNCHANGED <<closed, windowVars, host, postVars, rooted, frame, mode, fault>>

Finished(f, attached) ==
    [f EXCEPT !.phase = "done", !.user = FALSE, !.attached = attached]

ResumeAttach(f, rest) ==
    /\ \/ /\ f.phase = "capture" /\ focusRoot # f.prevRoot
          /\ stack' = <<Finished(f, focusRoot = f.value)>> \o rest
          /\ UNCHANGED focusRoot
       \/ /\ f.phase = "capture" /\ focusRoot = f.prevRoot
          /\ focusRoot' = f.value
          /\ stack' = <<[f EXCEPT !.phase = "focus"]>> \o rest
       \/ /\ f.phase = "capture" /\ focusRoot = f.prevRoot
          /\ fault = "memory" /\ f.value # None     \* no room in the registry
          /\ stack' = <<Finished(f, FALSE)>> \o rest
          /\ UNCHANGED focusRoot
       \/ /\ f.phase = "focus"
          /\ stack' = <<Finished(f, TRUE)>> \o rest
          /\ UNCHANGED focusRoot
    /\ UNCHANGED <<closed, windowVars, host, postVars, content, contentEpoch, sinks, rooted,
                   frameVars>>

TransactionIsCurrent(f) == contentEpoch = f.epoch /\ content = f.value

Reattached_Never(f) == FALSE           \* mutant
Reattached(f) == content = f.prev
Released(f, s) == IF Reattached(f) THEN s ELSE s \ {f.prev}

FinishPut(f, rest) ==
    \/ /\ ~TransactionIsCurrent(f)
       /\ sinks' = Released(f, sinks) /\ rooted' = Released(f, rooted)
       /\ stack' = rest
       /\ UNCHANGED <<closed, windowVars, host, postVars, content, contentEpoch, focusRoot,
                      frameVars>>
    \/ /\ TransactionIsCurrent(f) /\ ~f.attached
       /\ content' = f.prev
       /\ contentEpoch' = contentEpoch + 1
       /\ sinks' = sinks \ {f.value}
       /\ stack' = rest
       /\ UNCHANGED <<closed, windowVars, host, postVars, focusRoot, rooted, frameVars>>
    \/ /\ TransactionIsCurrent(f) /\ f.attached
       /\ rooted' = Released(f, rooted) \cup ({f.value} \ {None})
       /\ sinks' = Released(f, sinks)
       /\ host' = Cancelled(host)
       /\ size' = size
       /\ StartRebuild(host', window, TRUE, TRUE, rest, content, contentEpoch)
       /\ UNCHANGED <<closed, window, made, postVars, content, contentEpoch, focusRoot, frame,
                      stale>>

-----------------------------------------------------------------------------
(* The window: AttachToWindow, its destruction by its parent or by Close,  *)
(* and Close.                                                              *)
AttachToWindow ==
    /\ Called
    /\ ~closed /\ window = 0
    /\ made' = made + 1 /\ window' = made'
    /\ host' = Enabled(host)
    /\ size' = size
    /\ StartRebuild(host', made', TRUE, TRUE, stack, content, contentEpoch)
    /\ stale' = TRUE
    /\ UNCHANGED <<closed, postVars, treeVars, frame, mode, fault>>

(* DirectComposition's tree goes with the window, the cached frame stays.  *)
Unpresented == IF mode = "Dcomp" THEN [frame EXCEPT !.shows = None] ELSE frame

WindowGone ==
    /\ window' = 0 /\ queue' = {}
    /\ host' = Disabled(host)
    /\ frame' = Unpresented
    /\ UNCHANGED <<made, size, poster, stale, unlaid>>

OnWindowDestroyed ==
    /\ Called
    /\ window # 0
    /\ WindowGone
    /\ stack' = <<Losing>> \o stack
    /\ UNCHANGED <<closed, treeVars, mode, fault>>

Close ==
    /\ Called
    /\ ~closed
    /\ closed' = TRUE
    /\ host' = Disabled(host)
    /\ stack' = <<[op |-> "close", user |-> TRUE, phase |-> "focus"]>> \o stack
    /\ UNCHANGED <<windowVars, postVars, treeVars, frameVars, mode, fault>>

DetachAndReleaseContent ==
    /\ focusRoot' = IF focusRoot = content THEN None ELSE focusRoot
    /\ rooted' = rooted \ {content} /\ sinks' = sinks \ {content}
    /\ content' = None
    /\ UNCHANGED contentEpoch

FinishClose(f, rest) ==
    \/ /\ f.phase = "focus"
       /\ contentEpoch' = contentEpoch + 1
       /\ stack' = <<[f EXCEPT !.phase = "detach"]>> \o rest
       /\ UNCHANGED <<closed, windowVars, host, postVars, content, focusRoot, sinks, rooted,
                      frameVars>>
    \/ /\ f.phase = "detach"
       /\ DetachAndReleaseContent
       /\ IF window # 0 THEN WindowGone
          ELSE UNCHANGED <<windowVars, host, postVars, frameVars>>
       /\ stack' = rest
       /\ UNCHANGED closed

-----------------------------------------------------------------------------
Return ==
    /\ stack # <<>>
    /\ poster[UI].pc = "idle"
    /\ LET f == Head(stack)  rest == Tail(stack) IN
       \/ /\ f.op = "rebuild"
          /\ FinishRebuild(f, rest)
       \/ /\ f.op = "put" /\ f.phase # "done"
          /\ ResumeAttach(f, rest)
       \/ /\ f.op = "put" /\ f.phase = "done"
          /\ FinishPut(f, rest)
       \/ /\ f.op = "close"
          /\ FinishClose(f, rest)
       \/ /\ f.op = "destroy"
          /\ stack' = rest
          /\ UNCHANGED <<closed, windowVars, host, postVars, treeVars, frameVars>>
    /\ UNCHANGED <<mode, fault, calls>>

Invalidate == \E t \in Threads : Notify(t) \/ Post(t) \/ PostFailed(t)

Next ==
    \/ Return
    \/ Invalidate
    \/ \E g \in queue : Dispatch(g)
    \/ \E s \in Sizes : OnSize(s)
    \/ \E v \in MaybeRoots : PutContent(v)
    \/ AttachToWindow
    \/ OnWindowDestroyed
    \/ Close
    \/ \E t \in Threads, r \in Roots, layout \in BOOLEAN : Mutate(t, r, layout)

Spec == Init /\ [][Next]_vars

-----------------------------------------------------------------------------
Idle == stack = <<>>
Quiet == Idle /\ queue = {} /\ \A t \in Threads : poster[t].pc = "idle"

(* message_posted is never left set without a message that will clear it:  *)
(* otherwise every later change would wait for that message and none would *)
(* be shown again.                                                         *)
PostedIsCarried ==
    host.posted =>
        \/ host.gen \in queue
        \/ \E t \in Threads : poster[t].pc \in {"post", "failed"} /\ poster[t].gen = host.gen

(* A message of the current generation is still wanted: the failure of an  *)
(* older post does not disown it.                                          *)
CarriedIsPosted == host.gen \in queue => host.posted

(* With nothing failing, once no call, message or notification is under    *)
(* way the window shows the content as it is, laid out.                    *)
FreshWhenQuiet ==
    Quiet /\ window # 0 /\ ~closed /\ fault = "none" => ~stale /\ frame.shows = content

(* ... in a frame of the window's size ("resize produces one new correctly *)
(* sized frame", render/ARCHITECTURE.md).                                  *)
RightExtent ==
    Quiet /\ window # 0 /\ ~closed /\ fault = "none" => frame.size = size
CpuRightExtent == mode = "Cpu" => RightExtent

(* "A root transaction must not display the previous root as the new       *)
(* content" (RebuildFrame).                                                *)
ShowsContentOrNothing ==
    Idle /\ window # 0 /\ ~closed => frame.shows \in {None, content}
CpuShowsContent == mode = "Cpu" /\ fault # "memory" => ShowsContentOrNothing

(* "Publish exactly one XamlRoot identity for this island" (put_Content),  *)
(* and one root that invalidates it.                                       *)
OneRoot ==
    Idle /\ fault # "memory" => sinks = {content} \ {None} /\ rooted = sinks

(* The focus scope serves the content: "the inner transaction wins".       *)
FocusRootIsContent == Idle => focusRoot = content

(* Close is final, whichever callback it was called from.                  *)
ClosedIsFinal == Idle /\ closed => window = 0 /\ content = None /\ sinks = {} /\ rooted = {}

(* No frame of a former content, or for a former window, is published.     *)
NeverStalePublished ==
    [][frame'.gen # frame.gen => frame'.shows \in {None, content} /\ window # 0 /\ ~closed]_vars

(* message_posted says exactly that a message or a post is under way.      *)
PostProtocol == PostedIsCarried /\ CarriedIsPosted

(* The CPU path's frame has the window's extent and the content displayed. *)
CpuFrame == CpuRightExtent /\ CpuShowsContent

(* put_Content and Close: whatever was nested in them, one root at most is *)
(* attached, and a closed island holds nothing.                            *)
RootProtocol == TypeOK /\ OneRoot /\ ClosedIsFinal
=============================================================================
