-------------------------- MODULE IslandInput_proofs --------------------------
(***************************************************************************)
(* IslandInput for any sinks and nodes and for callbacks nested to any     *)
(* depth.  The focus notifications are paired, they do not nest, and       *)
(* outside of them the sink that was told of the focus is the attached     *)
(* one.  The logical capture agrees with User32's, it is granted to the    *)
(* attached sink, and no frame id is zero.                                 *)
(***************************************************************************)
EXTENDS IslandInput, TLAPS

FocusType ==
    /\ sink \in Sinks \cup {None} /\ notified \in Sinks \cup {None}
    /\ focused \in BOOLEAN /\ reconciling \in BOOLEAN
    /\ stack \in Seq(Frames)
    /\ balance \in [Sinks -> Int]

(* The focus callbacks of a stack, by their place.                         *)
NoFocus(st)  == \A i \in DOMAIN st : st[i].kind # "reconcile"
OneFocus(st) == \A i, j \in DOMAIN st :
                   st[i].kind = "reconcile" /\ st[j].kind = "reconcile" => i = j

(* reconciling_focus_ is set exactly while a focus callback is under way.  *)
Guarded == OneFocus(stack) /\ (reconciling <=> ~NoFocus(stack))
Settled == NoFocus(stack) => notified = IF focused THEN sink ELSE None

FocusInv == FocusType /\ FocusBalanced /\ Guarded /\ Settled

(* rest is the stack but for frames that are not focus callbacks.          *)
Alike(rest) ==
    /\ rest \in Seq(Frames)
    /\ NoFocus(rest) <=> NoFocus(stack)
    /\ OneFocus(stack) => OneFocus(rest)

-----------------------------------------------------------------------------
LEMMA PushFrame ==
  ASSUME NEW st \in Seq(Frames), NEW f \in Frames
  PROVE  /\ <<f>> \o st \in Seq(Frames)
         /\ f.kind # "reconcile" => /\ NoFocus(<<f>> \o st) <=> NoFocus(st)
                                    /\ OneFocus(st) => OneFocus(<<f>> \o st)
         /\ f.kind = "reconcile" /\ NoFocus(st) => /\ ~NoFocus(<<f>> \o st)
                                                   /\ OneFocus(<<f>> \o st)
<1> DEFINE new == <<f>> \o st
<1>1. /\ new \in Seq(Frames) /\ Len(new) = Len(st) + 1 /\ Len(st) \in Nat
      /\ new[1] = f
      /\ \A i \in 1..Len(st) : new[i + 1] = st[i]
      /\ DOMAIN st = 1..Len(st) /\ DOMAIN new = 1..(Len(st) + 1)
  OBVIOUS
<1>2. \A i \in DOMAIN new : i # 1 => i - 1 \in DOMAIN st /\ new[i] = st[i - 1]
  BY <1>1
<1>3. \A i \in DOMAIN st : i + 1 \in DOMAIN new /\ new[i + 1] = st[i]
  BY <1>1
<1>4. 1 \in DOMAIN new /\ DOMAIN new \subseteq Nat /\ DOMAIN st \subseteq Nat
  BY <1>1
<1> HIDE DEF new
<1>5. ASSUME f.kind # "reconcile"
      PROVE  (NoFocus(new) <=> NoFocus(st)) /\ (OneFocus(st) => OneFocus(new))
  <2>1. NoFocus(new) <=> NoFocus(st)
    BY <1>1, <1>2, <1>3, <1>5, ZenonT(60) DEF NoFocus
  <2>2. \A i \in DOMAIN new : new[i].kind = "reconcile" => i # 1
    BY <1>1, <1>5
  <2>3. OneFocus(st) => OneFocus(new)
    <3> SUFFICES ASSUME OneFocus(st), NEW i \in DOMAIN new, NEW j \in DOMAIN new,
                        new[i].kind = "reconcile", new[j].kind = "reconcile"
                 PROVE  i = j
      BY DEF OneFocus
    <3>1. i - 1 \in DOMAIN st /\ j - 1 \in DOMAIN st /\ i - 1 = j - 1
      BY <1>2, <2>2 DEF OneFocus
    <3> QED
      BY <1>4, <3>1
  <2> QED
    BY <2>1, <2>3
<1>6. ASSUME f.kind = "reconcile", NoFocus(st)
      PROVE  ~NoFocus(new) /\ OneFocus(new)
  <2>1. \A i \in DOMAIN new : new[i].kind = "reconcile" => i = 1
    BY <1>2, <1>6 DEF NoFocus
  <2> QED
    BY <1>1, <1>4, <1>6, <2>1 DEF NoFocus, OneFocus
<1> QED
  BY <1>1, <1>5, <1>6 DEF new

LEMMA PopFrame ==
  ASSUME NEW st \in Seq(Frames), st # <<>>
  PROVE  /\ Head(st) \in Frames /\ Tail(st) \in Seq(Frames)
         /\ Head(st).kind # "reconcile" => (NoFocus(Tail(st)) <=> NoFocus(st))
         /\ OneFocus(st) => OneFocus(Tail(st))
         /\ Head(st).kind = "reconcile" /\ OneFocus(st) => NoFocus(Tail(st))
<1> DEFINE rest == Tail(st)
<1>1. /\ Head(st) \in Frames /\ rest \in Seq(Frames)
      /\ Head(st) = st[1] /\ Len(st) \in Nat /\ Len(st) >= 1
      /\ Len(rest) = Len(st) - 1
      /\ DOMAIN st = 1..Len(st) /\ DOMAIN rest = 1..(Len(st) - 1)
      /\ \A i \in 1..(Len(st) - 1) : rest[i] = st[i + 1]
  OBVIOUS
<1>2. /\ 1 \in DOMAIN st /\ DOMAIN st \subseteq Nat /\ DOMAIN rest \subseteq Nat
      /\ \A i \in DOMAIN rest : i + 1 \in DOMAIN st /\ i + 1 # 1 /\ rest[i] = st[i + 1]
      /\ \A i \in DOMAIN st : i # 1 => i - 1 \in DOMAIN rest /\ rest[i - 1] = st[i]
  BY <1>1
<1> HIDE DEF rest
<1>3. Head(st).kind # "reconcile" => (NoFocus(rest) <=> NoFocus(st))
  BY <1>1, <1>2 DEF NoFocus
<1>4. ASSUME OneFocus(st)
      PROVE  OneFocus(rest)
  <2> SUFFICES ASSUME NEW i \in DOMAIN rest, NEW j \in DOMAIN rest,
                      rest[i].kind = "reconcile", rest[j].kind = "reconcile"
               PROVE  i = j
    BY DEF OneFocus
  <2>1. i + 1 = j + 1
    BY <1>2, <1>4 DEF OneFocus
  <2> QED
    BY <1>2, <2>1
<1>5. Head(st).kind = "reconcile" /\ OneFocus(st) => NoFocus(rest)
  BY <1>1, <1>2 DEF NoFocus, OneFocus
<1> QED
  BY <1>1, <1>3, <1>4, <1>5 DEF rest

LEMMA FrameTypes ==
  /\ \A s \in Sinks \cup {None}, n \in Nodes \cup {None}, k \in Kinds :
        Frame(k, s, n) \in Frames /\ Frame(k, s, n).kind = k /\ Frame(k, s, n).sink = s
  /\ Done \in Frames /\ Done.kind = "done"
  BY DEF Frame, Frames, Done, Kinds

-----------------------------------------------------------------------------
(* One round of ReconcileFocus' loop, and the call that may be nested.     *)
LEMMA PassStep ==
  ASSUME FocusType, FocusBalanced, NEW rest \in Seq(Frames), NoFocus(rest),
         NEW s \in Sinks \cup {None}, NEW h \in BOOLEAN,
         Pass(rest, s, h), sink' = s, focused' = h
  PROVE  FocusInv'
<1> DEFINE wanted == IF h THEN s ELSE None
           loop == Frame("reconcile", None, None)
<1>1. wanted \in Sinks \cup {None} /\ notified \in Sinks \cup {None}
  BY DEF FocusType
<1>2. loop \in Frames /\ loop.kind = "reconcile"
  BY FrameTypes DEF Kinds
<1>3. OneFocus(rest)
  BY DEF NoFocus, OneFocus
<1> HIDE DEF loop
<1>4. CASE /\ notified = wanted /\ reconciling' = FALSE /\ stack' = rest
           /\ UNCHANGED <<notified, balance>>
  <2>1. FocusType' /\ FocusBalanced'
    BY <1>4 DEF FocusType, FocusBalanced
  <2>2. Guarded' /\ Settled'
    BY <1>3, <1>4 DEF Guarded, Settled
  <2> QED
    BY <2>1, <2>2 DEF FocusInv
<1>5. CASE /\ reconciling' = TRUE /\ stack' = <<loop>> \o rest
           /\ notified' \in Sinks \cup {None}
           /\ balance' \in [Sinks -> Int] /\ FocusBalanced'
  <2>1. stack' \in Seq(Frames) /\ ~NoFocus(stack') /\ OneFocus(stack')
    BY <1>2, <1>5, PushFrame
  <2>2. FocusType'
    BY <1>5, <2>1 DEF FocusType
  <2>3. Guarded' /\ Settled'
    BY <1>5, <2>1 DEF Guarded, Settled
  <2> QED
    BY <1>5, <2>2, <2>3 DEF FocusInv
<1>6. CASE /\ MustLose(wanted) /\ reconciling' = TRUE /\ stack' = <<loop>> \o rest
           /\ notified' = None /\ balance' = [balance EXCEPT ![notified] = @ - 1]
  <2>1. notified \in Sinks /\ None \notin Sinks
    BY <1>1, <1>6, NoneAssumption DEF MustLose
  <2>2. balance' \in [Sinks -> Int] /\ FocusBalanced'
    BY <1>6, <2>1 DEF FocusType, FocusBalanced
  <2> QED
    BY <1>5, <1>6, <2>2
<1>7. CASE /\ ~MustLose(wanted) /\ notified # wanted
           /\ reconciling' = TRUE /\ stack' = <<loop>> \o rest
           /\ notified' = wanted /\ balance' = [balance EXCEPT ![wanted] = @ + 1]
  <2>1. notified = None /\ wanted \in Sinks /\ None \notin Sinks
    BY <1>1, <1>7, NoneAssumption DEF MustLose
  <2>2. balance' \in [Sinks -> Int] /\ FocusBalanced'
    BY <1>7, <2>1 DEF FocusType, FocusBalanced
  <2> QED
    BY <1>1, <1>5, <1>7, <2>2
<1> QED
  BY <1>4, <1>6, <1>7 DEF Pass, loop

LEMMA ReconcileStep ==
  ASSUME FocusInv, NEW rest, Alike(rest),
         NEW s \in Sinks \cup {None}, NEW h \in BOOLEAN,
         ReconcileFocus(rest, s, h), sink' = s, focused' = h
  PROVE  FocusInv'
<1>1. CASE reconciling
  <2>1. stack' = rest /\ UNCHANGED <<notified, reconciling, balance>>
    BY <1>1 DEF ReconcileFocus, Nested
  <2>2. FocusType' /\ FocusBalanced'
    BY <2>1 DEF FocusInv, FocusType, FocusBalanced, Alike
  <2>3. ~NoFocus(stack') /\ OneFocus(stack')
    BY <1>1, <2>1 DEF FocusInv, Guarded, Alike
  <2>4. Guarded' /\ Settled'
    BY <1>1, <2>1, <2>3 DEF Guarded, Settled
  <2> QED
    BY <2>2, <2>4 DEF FocusInv
<1>2. CASE ~reconciling
  <2>1. Pass(rest, s, h)
    BY <1>2 DEF ReconcileFocus, Nested
  <2>2. rest \in Seq(Frames) /\ NoFocus(rest)
    BY <1>2 DEF FocusInv, Guarded, Alike
  <2> QED
    BY <2>1, <2>2, PassStep DEF FocusInv
<1> QED
  BY <1>1, <1>2 DEF FocusInv, FocusType

(* A step that only pushes or pops other frames.                           *)
LEMMA OtherStep ==
  ASSUME FocusInv, Alike(stack'), UNCHANGED <<sink, focused, focusVars>>
  PROVE  FocusInv'
<1>1. FocusType' /\ FocusBalanced'
  BY DEF FocusInv, FocusType, FocusBalanced, Alike, focusVars
<1>2. Guarded' /\ Settled'
  BY DEF FocusInv, Guarded, Settled, Alike, focusVars
<1> QED
  BY <1>1, <1>2 DEF FocusInv

LEMMA PushAlike ==
  ASSUME NEW rest, Alike(rest), NEW f \in Frames, f.kind # "reconcile"
  PROVE  Alike(<<f>> \o rest)
  BY PushFrame DEF Alike

-----------------------------------------------------------------------------
LEMMA ResumeStep ==
  ASSUME FocusInv, NEW rest \in Seq(Frames), NEW f \in Frames,
         f.kind # "reconcile" => Alike(rest),
         f.kind = "reconcile" => NoFocus(rest),
         Resume(f, rest)
  PROVE  FocusInv'
<1>1. FocusType /\ FocusBalanced
  BY DEF FocusInv
<1>2. f.sink \in Sinks \cup {None} /\ None \in Sinks \cup {None} /\ focused \in BOOLEAN
  BY <1>1 DEF Frames, FocusType
<1>3. CASE /\ f.kind = "attach" /\ sink' = f.sink
           /\ ReconcileFocus(rest, f.sink, focused) /\ UNCHANGED focused
  BY <1>2, <1>3, ReconcileStep
<1>4. CASE /\ f.kind = "detach" /\ sink' = None
           /\ ReconcileFocus(rest, None, focused) /\ UNCHANGED focused
  BY <1>2, <1>4, ReconcileStep
<1>5. CASE /\ f.kind = "reconcile" /\ AfterFocusCallback(rest)
           /\ UNCHANGED <<sink, focused>>
  <2>1. Pass(rest, sink, focused) /\ sink \in Sinks \cup {None}
    BY <1>1, <1>5 DEF AfterFocusCallback, LoopAgain, FocusType
  <2> QED
    BY <1>1, <1>2, <1>5, <2>1, PassStep
<1>6. CASE /\ f.kind \notin {"attach", "detach", "reconcile"}
           /\ stack' = rest \/ stack' = <<Done>> \o rest
           /\ UNCHANGED <<sink, focused, focusVars>>
  <2>1. Alike(rest)
    BY <1>6
  <2>2. Alike(<<Done>> \o rest)
    BY <2>1, FrameTypes, PushAlike
  <2> QED
    BY <1>6, <2>1, <2>2, OtherStep
<1> QED
  BY <1>3, <1>4, <1>5, <1>6 DEF Resume, CommitCapture

LEMMA ClearThenStep ==
  ASSUME FocusInv, NEW rest, Alike(rest), NEW f \in Frames, f.kind # "reconcile",
         NEW releaseHost, ClearThen(f, releaseHost, rest)
  PROVE  FocusInv'
<1>1. CASE capture = None
  <2>1. Resume(f, rest) /\ rest \in Seq(Frames)
    BY <1>1 DEF ClearThen, Alike
  <2> QED
    BY <2>1, ResumeStep
<1>2. CASE capture # None
  <2>1. stack' = <<f>> \o rest /\ UNCHANGED <<sink, focused, focusVars>>
    BY <1>2 DEF ClearThen
  <2> QED
    BY <2>1, PushAlike, OtherStep
<1> QED
  BY <1>1, <1>2

LEMMA ReturnStep ==
  ASSUME FocusInv, Return
  PROVE  FocusInv'
<1> DEFINE f == Head(stack)
           rest == Tail(stack)
<1>1. stack \in Seq(Frames) /\ stack # <<>> /\ OneFocus(stack)
  BY DEF Return, FocusInv, FocusType, Guarded
<1>2. /\ f \in Frames /\ rest \in Seq(Frames)
      /\ f.kind # "reconcile" => Alike(rest)
      /\ f.kind = "reconcile" => NoFocus(rest)
  BY <1>1, PopFrame DEF Alike
<1>3. CASE f.kind = "cancel"
  <2>1. ClearThen(Done, TRUE, rest)
    BY <1>3 DEF Return
  <2> QED
    BY <1>2, <1>3, <2>1, FrameTypes, ClearThenStep
<1>4. CASE f.kind # "cancel"
  <2>1. Resume(f, rest)
    BY <1>4 DEF Return
  <2> QED
    BY <1>2, <2>1, ResumeStep
<1> QED
  BY <1>3, <1>4

LEMMA OperationStep ==
  ASSUME FocusInv, Operation
  PROVE  FocusInv'
<1>1. Alike(stack) /\ focused \in BOOLEAN /\ sink \in Sinks \cup {None}
  BY DEF Alike, FocusInv, FocusType
<1>2. ASSUME NEW k \in Kinds \ {"reconcile"}, NEW s \in Sinks \cup {None},
             NEW n \in Nodes \cup {None}
      PROVE  /\ Frame(k, s, n) \in Frames /\ Frame(k, s, n).kind # "reconcile"
             /\ Alike(<<Frame(k, s, n)>> \o stack)
  BY <1>1, FrameTypes, PushAlike
<1>3. Alike(<<Done>> \o stack)
  BY <1>1, FrameTypes, PushAlike
<1>4. ASSUME NEW s \in Sinks, Attach(s) \/ Detach(s)
      PROVE  FocusInv'
  BY <1>1, <1>2, <1>4, ClearThenStep DEF Attach, Detach, Kinds
<1>5. ASSUME NEW b \in BOOLEAN, OnHostFocusChanged(b)
      PROVE  FocusInv'
  BY <1>1, <1>5, ReconcileStep DEF OnHostFocusChanged
<1>6. CASE ForwardKeyMessage
  BY <1>3, <1>6, OtherStep DEF ForwardKeyMessage
<1>7. CASE ForwardPointerMessage
  BY <1>1, <1>2, <1>3, <1>7, OtherStep DEF ForwardPointerMessage, focusVars, Kinds
<1>8. ASSUME NEW s \in Sinks, NEW n \in Nodes, CapturePointer(s, n) \/ ReleasePointer(s, n)
      PROVE  FocusInv'
  BY <1>1, <1>2, <1>8, FrameTypes, ClearThenStep DEF CapturePointer, ReleasePointer, Kinds
<1>9. CASE OnHostPointerCaptureLost
  BY <1>1, <1>3, <1>9, OtherStep DEF OnHostPointerCaptureLost
<1>10. CASE OnHostPointerCanceled
  <2>1. CASE /\ stack' = <<Frame("cancel", sink, None)>> \o stack
             /\ UNCHANGED <<sink, focused, focusVars>>
    <3>1. Alike(stack')
      BY <1>1, <1>2, <2>1 DEF Kinds
    <3> QED
      BY <2>1, <3>1, OtherStep
  <2>2. CASE ClearThen(Done, TRUE, stack)
    BY <1>1, <2>2, FrameTypes, ClearThenStep
  <2> QED
    BY <1>10, <2>1, <2>2 DEF OnHostPointerCanceled
<1>11. CASE SetHostPointerCaptureCallbacks
  BY <1>1, <1>11, OtherStep DEF SetHostPointerCaptureCallbacks
<1>12. CASE ClearHostPointerCaptureCallbacks
  BY <1>1, <1>2, <1>12, ClearThenStep DEF ClearHostPointerCaptureCallbacks, Kinds
<1> QED
  BY <1>4, <1>5, <1>6, <1>7, <1>8, <1>9, <1>10, <1>11, <1>12 DEF Operation

LEMMA InitFocus == Init => FocusInv
<1> SUFFICES ASSUME Init PROVE FocusInv
  OBVIOUS
<1>1. stack \in Seq(Frames) /\ NoFocus(stack) /\ OneFocus(stack)
  <2>1. stack = <<>> /\ stack \in Seq(Frames) /\ DOMAIN stack = {}
    BY DEF Init
  <2> QED
    BY <2>1 DEF NoFocus, OneFocus
<1>2. FocusType
  <2>1. balance \in [Sinks -> Int]
    BY DEF Init
  <2>2. sink \in Sinks \cup {None} /\ notified \in Sinks \cup {None}
    BY DEF Init
  <2>3. focused \in BOOLEAN /\ reconciling \in BOOLEAN
    BY DEF Init
  <2> QED
    BY <1>1, <2>1, <2>2, <2>3 DEF FocusType
<1>3. FocusBalanced
  BY NoneAssumption DEF Init, FocusBalanced
<1>4. Guarded /\ Settled
  BY <1>1 DEF Init, Guarded, Settled
<1> QED
  BY <1>2, <1>3, <1>4 DEF FocusInv

LEMMA NextFocus == FocusInv /\ [Next]_vars => FocusInv'
<1> SUFFICES ASSUME FocusInv, [Next]_vars PROVE FocusInv'
  OBVIOUS
<1>1. CASE UNCHANGED vars
  <2>1. Alike(stack') /\ UNCHANGED <<sink, focused, focusVars>>
    BY <1>1 DEF vars, Alike, FocusInv, FocusType
  <2> QED
    BY <2>1, OtherStep
<1> QED
  BY <1>1, OperationStep, ReturnStep DEF Next

(* However callbacks attach, detach and move the focus again: each sink's  *)
(* gains and losses are paired (IslandInputManager::ReconcileFocus), with  *)
(* one gain left for the notified sink.                                    *)
THEOREM BalanceCorrect == Spec => []FocusBalanced
<1>1. FocusInv => FocusBalanced
  BY DEF FocusInv
<1> QED
  BY <1>1, InitFocus, NextFocus, PTL DEF Spec

(* Focus callbacks do not nest, and outside of them the sink that was told *)
(* of the focus is the attached one, while the window has the focus.       *)
THEOREM FocusCorrect == Spec => []FocusProtocol
<1>1. FocusInv => FocusProtocol
  <2> SUFFICES ASSUME FocusInv PROVE FocusProtocol
    OBVIOUS
  <2>1. FocusCallbacks = {} <=> NoFocus(stack)
    BY DEF FocusCallbacks, NoFocus
  <2>2. OneFocusCallback
    BY DEF FocusInv, Guarded, OneFocus, OneFocusCallback, FocusCallbacks
  <2> QED
    BY <2>1, <2>2 DEF FocusInv, Guarded, Settled, FocusSettled, FocusProtocol
<1> QED
  BY <1>1, InitFocus, NextFocus, PTL DEF Spec

-----------------------------------------------------------------------------
(* The capture and the frame ids.                                          *)

CaptureType ==
    /\ pending \in BOOLEAN /\ bound \in BOOLEAN /\ hostCapture \in BOOLEAN
    /\ capture \in Captures \cup {None}
    /\ frameId \in 0..(IdRange - 1)

(* A suspended CapturePointer names a sink and a node, and there is none   *)
(* before the first pointer event.                                         *)
Asks(f)        == f.kind = "capture" => f.sink \in Sinks /\ f.node \in Nodes
Unasked(f)     == f.kind # "capture"
Requests(st)   == \A i \in DOMAIN st : Asks(st[i])
NoRequests(st) == \A i \in DOMAIN st : Unasked(st[i])

(* No pointer event, no capture: callbacks set afresh start from agreement. *)
Unseen == frameId = 0 => capture = None /\ ~hostCapture /\ NoRequests(stack)

CaptureInv ==
    CaptureType /\ Requests(stack) /\ CaptureMatchesHost /\ Unseen

(* What the grant of a capture and a change of the frame id look like.     *)
Grant  == capture' \notin {capture, None} => capture'[1] = sink
NextId == frameId' # frameId => frameId' # 0

LEMMA PushRequest ==
  ASSUME NEW st \in Seq(Frames), NEW f \in Frames
  PROVE  /\ Asks(f) /\ Requests(st) => Requests(<<f>> \o st)
         /\ Unasked(f) /\ NoRequests(st) => NoRequests(<<f>> \o st)
<1> DEFINE new == <<f>> \o st
<1>1. \A i \in DOMAIN new : new[i] = f \/ \E j \in DOMAIN st : new[i] = st[j]
  <2>1. /\ Len(new) = Len(st) + 1 /\ Len(st) \in Nat /\ new[1] = f
        /\ \A i \in 1..Len(st) : new[i + 1] = st[i]
        /\ DOMAIN st = 1..Len(st) /\ DOMAIN new = 1..(Len(st) + 1)
    OBVIOUS
  <2>2. \A i \in DOMAIN new : i # 1 => i - 1 \in DOMAIN st /\ new[i] = st[i - 1]
    BY <2>1
  <2> QED
    BY <2>1, <2>2
<1> HIDE DEF new
<1>2. /\ Asks(f) /\ Requests(st) => Requests(new)
      /\ Unasked(f) /\ NoRequests(st) => NoRequests(new)
  BY <1>1 DEF Requests, NoRequests, Asks, Unasked
<1> QED
  BY <1>2 DEF new

LEMMA PopRequest ==
  ASSUME NEW st \in Seq(Frames), st # <<>>
  PROVE  /\ Requests(st) => Asks(Head(st)) /\ Requests(Tail(st))
         /\ NoRequests(st) => Unasked(Head(st)) /\ NoRequests(Tail(st))
<1> DEFINE rest == Tail(st)
<1>1. /\ Head(st) = st[1] /\ 1 \in DOMAIN st
      /\ \A i \in DOMAIN rest : i + 1 \in DOMAIN st /\ rest[i] = st[i + 1]
  <2>1. /\ Head(st) = st[1] /\ Len(st) \in Nat /\ Len(st) >= 1
        /\ DOMAIN st = 1..Len(st) /\ DOMAIN rest = 1..(Len(st) - 1)
        /\ \A i \in 1..(Len(st) - 1) : rest[i] = st[i + 1]
    OBVIOUS
  <2> QED
    BY <2>1
<1> HIDE DEF rest
<1>2. /\ Requests(st) => Asks(Head(st)) /\ Requests(rest)
      /\ NoRequests(st) => Unasked(Head(st)) /\ NoRequests(rest)
  BY <1>1 DEF Requests, NoRequests
<1> QED
  BY <1>2 DEF rest

LEMMA NextFrameIdType ==
  ASSUME NEW i \in 0..(IdRange - 1)
  PROVE  NextFrameId(i) \in 1..(IdRange - 1)
<1>1. IdRange \in Nat /\ IdRange >= 2
  BY RangeAssumption
<1>2. \A j \in Nat : j % IdRange \in 0..(IdRange - 1)
  BY <1>1
<1>3. Increment(i) \in 0..(IdRange - 1)
  BY <1>2 DEF Increment
<1>4. Increment(0) = 1
  BY <1>1 DEF Increment
<1> QED
  BY <1>1, <1>3, <1>4 DEF NextFrameId

(* The rest of the stack may be resumed with the present frame id.         *)
Sound(st) ==
    /\ st \in Seq(Frames) /\ Requests(st)
    /\ frameId = 0 => NoRequests(st)

LEMMA SoundPush ==
  ASSUME NEW rest, Sound(rest), NEW f \in Frames, Asks(f),
         frameId = 0 => Unasked(f)
  PROVE  Sound(<<f>> \o rest)
  BY PushFrame, PushRequest DEF Sound

LEMMA SoundDone ==
  ASSUME NEW rest, Sound(rest)
  PROVE  Sound(<<Done>> \o rest)
<1>1. Done \in Frames /\ Done.kind = "done"
  BY FrameTypes
<1> QED
  BY <1>1, SoundPush DEF Asks, Unasked

(* A step that leaves the capture alone.                                   *)
LEMMA CaptureKept ==
  ASSUME CaptureInv, Sound(stack'), pending' \in BOOLEAN,
         bound' \in {bound, FALSE}, UNCHANGED captureVars, UNCHANGED frameId
  PROVE  CaptureInv' /\ Grant /\ NextId
<1>1. capture' = capture /\ hostCapture' = hostCapture /\ frameId' = frameId
  BY DEF captureVars
<1>2. CaptureType' /\ CaptureMatchesHost'
  <2>1. bound' \in BOOLEAN /\ (bound' => bound)
    <3>1. bound' = bound \/ bound' = FALSE
      OBVIOUS
    <3>2. bound \in BOOLEAN
      BY DEF CaptureInv, CaptureType
    <3>3. CASE bound' = bound
      BY <3>2, <3>3, Zenon
    <3>4. CASE bound' = FALSE
      BY <3>4, Zenon
    <3> QED
      BY <3>1, <3>3, <3>4
  <2>2. CaptureType'
    BY <1>1, <2>1 DEF CaptureInv, CaptureType
  <2>3. CaptureMatchesHost'
    BY <1>1, <2>1 DEF CaptureInv, CaptureMatchesHost
  <2> QED
    BY <2>2, <2>3
<1>3. Requests(stack') /\ Unseen'
  BY <1>1 DEF CaptureInv, Sound, Unseen
<1>4. Requests(stack)'
  BY <1>3
<1> QED
  BY <1>1, <1>2, <1>3, <1>4 DEF CaptureInv, Grant, NextId

(* A step that ends the capture, if there is one.                          *)
LEMMA CaptureEnds ==
  ASSUME CaptureInv, Sound(stack'), UNCHANGED pending, UNCHANGED bound,
         capture' = None, hostCapture' \in BOOLEAN,
         bound => ~hostCapture', hostCapture' => hostCapture, UNCHANGED frameId
  PROVE  CaptureInv' /\ Grant /\ NextId
<1>1. CaptureType' /\ CaptureMatchesHost'
  BY DEF CaptureInv, CaptureType, CaptureMatchesHost
<1>2. Requests(stack') /\ Unseen'
  BY DEF CaptureInv, Sound, Unseen
<1>3. Requests(stack)'
  BY <1>2
<1> QED
  BY <1>1, <1>2, <1>3 DEF CaptureInv, Grant, NextId

LEMMA CommitStep ==
  ASSUME CaptureInv, NEW rest, Sound(rest), NEW f \in Frames,
         f.sink \in Sinks, f.node \in Nodes, frameId # 0,
         CommitCapture(f, rest), UNCHANGED <<pending, bound, frameId>>
  PROVE  CaptureInv' /\ Grant /\ NextId
<1>1. CASE /\ hostCapture' = (hostCapture \/ bound) /\ sink = f.sink
           /\ capture' = <<f.sink, f.node>> /\ stack' = rest
  <2>1. capture' \in Captures /\ capture' # None /\ capture'[1] = sink
    BY <1>1, NoneAssumption DEF Captures
  <2>2. CaptureType' /\ CaptureMatchesHost'
    BY <1>1, <2>1 DEF CaptureInv, CaptureType, CaptureMatchesHost
  <2>3. Requests(stack') /\ Unseen'
    BY <1>1 DEF Sound, Unseen
  <2>4. Requests(stack)'
    BY <2>3
  <2> QED
    BY <2>1, <2>2, <2>3, <2>4 DEF CaptureInv, Grant, NextId
<1>2. CASE /\ bound /\ capture # None /\ hostCapture' = FALSE /\ capture' = None
           /\ stack' = <<Done>> \o rest
  BY <1>2, SoundDone, CaptureEnds
<1>3. CASE /\ ~(bound /\ capture # None)
           /\ hostCapture' = (hostCapture /\ ~bound)
           /\ stack' = rest /\ UNCHANGED capture
  <2>1. CASE bound
    <3>1. capture' = None /\ hostCapture' = FALSE
      BY <1>3, <2>1
    <3> QED
      BY <1>3, <3>1, CaptureEnds
  <2>2. CASE ~bound
    <3>1. UNCHANGED captureVars
      BY <1>3, <2>2 DEF captureVars, CaptureInv, CaptureType
    <3> QED
      BY <1>3, <3>1, CaptureKept DEF CaptureInv, CaptureType
  <2> QED
    BY <2>1, <2>2
<1>4. CASE stack' = rest /\ UNCHANGED captureVars
  BY <1>4, CaptureKept DEF CaptureInv, CaptureType
<1> QED
  BY <1>1, <1>2, <1>3, <1>4 DEF CommitCapture, StillAttached

(* The focus calls leave the capture alone, and push focus callbacks only. *)
LEMMA PassPends ==
  ASSUME NEW rest, Sound(rest), NEW s, NEW h, Pass(rest, s, h)
  PROVE  Sound(stack') /\ pending' \in BOOLEAN
<1>1. /\ Frame("reconcile", None, None) \in Frames
      /\ Frame("reconcile", None, None).kind = "reconcile"
  BY FrameTypes DEF Kinds
<1>2. Sound(<<Frame("reconcile", None, None)>> \o rest)
  BY <1>1, SoundPush DEF Asks, Unasked
<1>3. pending' = FALSE
  BY DEF Pass
<1>4. stack' = rest \/ stack' = <<Frame("reconcile", None, None)>> \o rest
  BY DEF Pass
<1> QED
  BY <1>2, <1>3, <1>4

LEMMA ReconcilePends ==
  ASSUME NEW rest, Sound(rest), NEW s, NEW h, ReconcileFocus(rest, s, h)
  PROVE  Sound(stack') /\ pending' \in BOOLEAN
<1>1. CASE Nested
  BY <1>1 DEF ReconcileFocus
<1>2. CASE ~Nested
  BY <1>2, PassPends DEF ReconcileFocus
<1> QED
  BY <1>1, <1>2

LEMMA ResumeCapture ==
  ASSUME CaptureInv, NEW rest, Sound(rest), NEW f \in Frames, Asks(f),
         frameId = 0 => Unasked(f), Resume(f, rest)
  PROVE  CaptureInv' /\ Grant /\ NextId
<1>1. pending \in BOOLEAN
  BY DEF CaptureInv, CaptureType
<1>2. ASSUME NEW s, ReconcileFocus(rest, s, focused),
             UNCHANGED <<captureVars, bound, frameId>>
      PROVE  CaptureInv' /\ Grant /\ NextId
  BY <1>2, ReconcilePends, CaptureKept
<1>3. CASE /\ f.kind = "capture" /\ CommitCapture(f, rest)
           /\ UNCHANGED <<focusVars, bound, frameId>>
  BY <1>3, CommitStep DEF Asks, Unasked, focusVars
<1>4. CASE AfterFocusCallback(rest) /\ UNCHANGED <<captureVars, bound, frameId>>
  <2>1. Pass(rest, sink, focused)
    BY <1>4 DEF AfterFocusCallback, LoopAgain
  <2> QED
    BY <1>4, <2>1, PassPends, CaptureKept
<1>5. CASE /\ stack' = rest \/ stack' = <<Done>> \o rest
           /\ bound' \in {bound, FALSE} /\ UNCHANGED <<focusVars, captureVars, frameId>>
  <2>1. Sound(stack') /\ pending' \in BOOLEAN
    BY <1>1, <1>5, SoundDone DEF focusVars
  <2> QED
    BY <1>5, <2>1, CaptureKept
<1> QED
  BY <1>2, <1>3, <1>4, <1>5 DEF Resume

LEMMA ClearThenCapture ==
  ASSUME CaptureInv, NEW rest, Sound(rest), NEW f \in Frames, Asks(f),
         frameId = 0 => Unasked(f), ClearThen(f, TRUE, rest)
  PROVE  CaptureInv' /\ Grant /\ NextId
<1>1. CASE capture = None
  BY <1>1, ResumeCapture DEF ClearThen
<1>2. CASE capture # None
  <2>1. /\ capture' = None /\ hostCapture' = (hostCapture /\ ~bound)
        /\ stack' = <<f>> \o rest /\ UNCHANGED <<pending, bound, frameId>>
    BY <1>2 DEF ClearThen, HostAfterClear, focusVars
  <2>2. /\ hostCapture' \in BOOLEAN /\ (bound => ~hostCapture')
        /\ (hostCapture' => hostCapture)
    BY <2>1 DEF CaptureInv, CaptureType
  <2>3. Sound(stack')
    BY <2>1, SoundPush
  <2> QED
    BY <2>1, <2>2, <2>3, CaptureEnds
<1> QED
  BY <1>1, <1>2

-----------------------------------------------------------------------------
LEMMA ReturnCapture ==
  ASSUME FocusType, CaptureInv, Return
  PROVE  CaptureInv' /\ Grant /\ NextId
<1> DEFINE f == Head(stack)
           rest == Tail(stack)
<1>1. stack \in Seq(Frames) /\ stack # <<>>
  BY DEF Return, FocusType
<1>2. /\ f \in Frames /\ Asks(f) /\ Sound(rest)
      /\ frameId = 0 => Unasked(f)
  BY <1>1, PopFrame, PopRequest DEF CaptureInv, Unseen, Sound
<1>3. CASE f.kind = "cancel"
  <2>1. ClearThen(Done, TRUE, rest)
    BY <1>3 DEF Return
  <2>2. Done \in Frames /\ Asks(Done) /\ Unasked(Done)
    BY FrameTypes DEF Asks, Unasked
  <2> QED
    BY <1>2, <2>1, <2>2, ClearThenCapture
<1>4. CASE f.kind # "cancel"
  <2>1. Resume(f, rest)
    BY <1>4 DEF Return
  <2> QED
    BY <1>2, <2>1, ResumeCapture
<1> QED
  BY <1>3, <1>4

LEMMA OperationCapture ==
  ASSUME FocusType, CaptureInv, Operation
  PROVE  CaptureInv' /\ Grant /\ NextId
<1>1. Sound(stack) /\ Sound(<<Done>> \o stack) /\ pending \in BOOLEAN
  BY SoundDone DEF Sound, FocusType, CaptureInv, CaptureType, Unseen
<1>2. Done \in Frames /\ Asks(Done) /\ Unasked(Done)
  BY FrameTypes DEF Asks, Unasked
<1>3. ASSUME NEW k \in Kinds \ {"capture"}, NEW s \in Sinks \cup {None}
      PROVE  /\ Frame(k, s, None) \in Frames /\ Asks(Frame(k, s, None))
             /\ Unasked(Frame(k, s, None)) /\ Sound(<<Frame(k, s, None)>> \o stack)
  <2>1. Frame(k, s, None) \in Frames /\ Frame(k, s, None).kind = k
    BY FrameTypes
  <2>2. Asks(Frame(k, s, None)) /\ Unasked(Frame(k, s, None))
    BY <2>1 DEF Asks, Unasked
  <2> QED
    BY <1>1, <2>1, <2>2, SoundPush
<1>4. ASSUME NEW s \in Sinks, Attach(s) \/ Detach(s)
      PROVE  CaptureInv' /\ Grant /\ NextId
  <2>1. \E k \in {"attach", "detach"} : ClearThen(Frame(k, s, None), TRUE, stack)
    BY <1>4 DEF Attach, Detach
  <2> QED
    BY <1>1, <1>3, <2>1, ClearThenCapture DEF Kinds
<1>5. ASSUME NEW b \in BOOLEAN, OnHostFocusChanged(b)
      PROVE  CaptureInv' /\ Grant /\ NextId
  <2>1. ReconcileFocus(stack, sink, b) /\ UNCHANGED <<captureVars, bound, frameId>>
    BY <1>5 DEF OnHostFocusChanged
  <2> QED
    BY <1>1, <2>1, ReconcilePends, CaptureKept
<1>6. CASE ForwardKeyMessage
  BY <1>1, <1>6, CaptureKept DEF ForwardKeyMessage, focusVars
<1>7. CASE ForwardPointerMessage
  <2>1. /\ frameId' = NextFrameId(frameId) /\ bound /\ sink # None
        /\ UNCHANGED <<pending, bound, sink>>
    BY <1>7 DEF ForwardPointerMessage, focusVars
  <2>2. frameId' \in 1..(IdRange - 1)
    BY <2>1, NextFrameIdType DEF CaptureInv, CaptureType
  <2>3. frameId' # 0 /\ frameId' \in 0..(IdRange - 1)
    BY <2>2, RangeAssumption
  <2>4. CASE /\ capture' = None /\ hostCapture' = HostAfterClear(TRUE)
             /\ stack' = <<Frame("pointer", sink, None)>> \o stack
    <3>1. hostCapture' = FALSE
      BY <2>1, <2>4 DEF HostAfterClear
    <3>2. Requests(stack')
      BY <1>3, <2>4 DEF FocusType, Kinds, Sound
    <3>3. Requests(stack)'
      BY <3>2
    <3> QED
      BY <2>1, <2>3, <2>4, <3>1, <3>3
      DEF CaptureInv, CaptureType, CaptureMatchesHost, Unseen, Grant, NextId
  <2>5. CASE stack' = <<Done>> \o stack /\ UNCHANGED captureVars
    <3>1. Requests(stack')
      BY <1>1, <2>5 DEF Sound
    <3>2. Requests(stack)'
      BY <3>1
    <3> QED
      BY <2>1, <2>3, <2>5, <3>2
      DEF CaptureInv, CaptureType, CaptureMatchesHost, Unseen, Grant, NextId, captureVars
  <2> QED
    BY <1>7, <2>4, <2>5 DEF ForwardPointerMessage
<1>8. ASSUME NEW s \in Sinks, NEW n \in Nodes, CapturePointer(s, n)
      PROVE  CaptureInv' /\ Grant /\ NextId
  <2>1. frameId # 0 /\ ClearThen(Frame("capture", s, n), TRUE, stack)
    BY <1>8 DEF CapturePointer
  <2>2. Frame("capture", s, n) \in Frames /\ Asks(Frame("capture", s, n))
    BY DEF Frame, Frames, Kinds, Asks
  <2> QED
    BY <1>1, <2>1, <2>2, ClearThenCapture
<1>9. ASSUME NEW s \in Sinks, NEW n \in Nodes, ReleasePointer(s, n)
      PROVE  CaptureInv' /\ Grant /\ NextId
  BY <1>1, <1>2, <1>9, ClearThenCapture DEF ReleasePointer
<1>10. CASE OnHostPointerCaptureLost
  <2>1. hostCapture' = FALSE /\ UNCHANGED <<pending, bound, frameId>>
    BY <1>10 DEF OnHostPointerCaptureLost, focusVars
  <2>2. capture' = None
    BY <1>10 DEF OnHostPointerCaptureLost
  <2>3. Sound(stack')
    BY <1>1, <1>10 DEF OnHostPointerCaptureLost
  <2> QED
    BY <2>1, <2>2, <2>3, CaptureEnds
<1>11. CASE OnHostPointerCanceled
  <2>1. CASE /\ stack' = <<Frame("cancel", sink, None)>> \o stack
             /\ UNCHANGED <<focusVars, captureVars, bound, frameId>>
    <3>1. Sound(stack')
      BY <1>3, <2>1 DEF FocusType, Kinds
    <3> QED
      BY <1>1, <2>1, <3>1, CaptureKept DEF focusVars
  <2>2. CASE ClearThen(Done, TRUE, stack)
    BY <1>1, <1>2, <2>2, ClearThenCapture
  <2> QED
    BY <1>11, <2>1, <2>2 DEF OnHostPointerCanceled
<1>12. CASE SetHostPointerCaptureCallbacks
  <2>1. /\ frameId = 0 /\ bound' = TRUE /\ pending' = pending
        /\ UNCHANGED <<capture, hostCapture, frameId, stack>>
    BY <1>12 DEF SetHostPointerCaptureCallbacks, focusVars, captureVars
  <2> QED
    BY <2>1 DEF CaptureInv, CaptureType, CaptureMatchesHost, Unseen, Grant, NextId
<1>13. CASE ClearHostPointerCaptureCallbacks
  <2>1. ClearThen(Frame("unbind", None, None), TRUE, stack)
    BY <1>13 DEF ClearHostPointerCaptureCallbacks
  <2> QED
    BY <1>1, <1>3, <2>1, ClearThenCapture DEF Kinds
<1> QED
  BY <1>4, <1>5, <1>6, <1>7, <1>8, <1>9, <1>10, <1>11, <1>12, <1>13 DEF Operation

LEMMA InitCapture == Init => CaptureInv
<1> SUFFICES ASSUME Init PROVE CaptureInv
  OBVIOUS
<1>1. Requests(stack) /\ NoRequests(stack)
  <2>1. stack = <<>> /\ DOMAIN stack = {}
    BY DEF Init
  <2> QED
    BY <2>1 DEF Requests, NoRequests
<1>2. CaptureType
  <2>1. 0 \in 0..(IdRange - 1)
    BY RangeAssumption
  <2>2. pending = FALSE /\ bound = FALSE /\ hostCapture = FALSE
    BY DEF Init
  <2>3. capture = None /\ frameId = 0
    BY DEF Init
  <2> QED
    BY <2>1, <2>2, <2>3 DEF CaptureType
<1> QED
  BY <1>1, <1>2 DEF Init, CaptureInv, CaptureMatchesHost, Unseen

LEMMA NextCapture ==
  FocusInv /\ CaptureInv /\ [Next]_vars => CaptureInv' /\ Grant /\ NextId
<1> SUFFICES ASSUME FocusInv, CaptureInv, [Next]_vars
             PROVE  CaptureInv' /\ Grant /\ NextId
  OBVIOUS
<1>1. FocusType
  BY DEF FocusInv
<1>2. CASE UNCHANGED vars
  <2>1. Sound(stack) /\ pending \in BOOLEAN
    BY <1>1 DEF Sound, FocusType, CaptureInv, CaptureType, Unseen
  <2>2. Sound(stack') /\ pending' \in BOOLEAN
    BY <1>2, <2>1 DEF vars, focusVars
  <2> QED
    BY <1>2, <2>2, CaptureKept DEF vars
<1> QED
  BY <1>1, <1>2, OperationCapture, ReturnCapture DEF Next

(* However callbacks capture, release and replace the root again: the      *)
(* logical capture and User32's agree while the callbacks are set, and     *)
(* CapturePointer grants one to no sink but the attached one.              *)
THEOREM CaptureCorrect == Spec => CaptureProtocol
<1>1. Spec => []FocusInv
  BY InitFocus, NextFocus, PTL DEF Spec
<1>2. Spec => []CaptureInv
  BY <1>1, InitCapture, NextCapture, PTL DEF Spec
<1>3. FocusInv /\ CaptureInv => TypeOK /\ CaptureMatchesHost
  BY DEF FocusInv, FocusType, CaptureInv, CaptureType, TypeOK
<1>4. Grant => [capture' \notin {capture, None} => capture'[1] = sink]_vars
  BY DEF Grant
<1>5. Spec => [](TypeOK /\ CaptureMatchesHost)
  BY <1>1, <1>2, <1>3, PTL
<1>6. Spec => GrantedToAttached
  BY <1>1, <1>2, <1>4, NextCapture, PTL DEF Spec, GrantedToAttached
<1> QED
  BY <1>5, <1>6 DEF CaptureProtocol

(* ++pointer_frame_id_ skips zero, which means that there is no frame, for *)
(* any width of the counter.                                               *)
THEOREM FrameIdCorrect == Spec => FrameIdNeverZero
<1>1. Spec => []FocusInv /\ []CaptureInv
  BY InitFocus, NextFocus, InitCapture, NextCapture, PTL DEF Spec
<1>2. NextId => [frameId' # frameId => frameId' # 0]_vars
  BY DEF NextId
<1> QED
  BY <1>1, <1>2, NextCapture, PTL DEF Spec, FrameIdNeverZero
=============================================================================
