-------------------------- MODULE XamlFocus_proofs --------------------------
(***************************************************************************)
(* XamlFocusScope, for any elements and roots and for callbacks nested to  *)
(* any depth.  Focus: one focus event is raised at a time, the loop ends   *)
(* with what was asked for last, and if no handler refuses the element     *)
(* that keeps the focus is in the hosted tree.  Pointer: Entered and       *)
(* Exited are balanced, and a press is answered by one tap at most.        *)
(***************************************************************************)
EXTENDS XamlPointer, TLAPS

FocusKinds == {"losing", "getting", "lost", "got"}

(* The focus events of a stack, by their place.                            *)
Event(f)     == f.kind \in FocusKinds
NoEvent(st)  == \A i \in DOMAIN st : ~Event(st[i])
OneEvent(st) == \A i, j \in DOMAIN st : Event(st[i]) /\ Event(st[j]) => i = j

(* A call that has still to report t removed from the tree of r.           *)
Named(t, list)     == \E i \in DOMAIN list : list[i] = t
Reports(f, t, r)    == f.kind \in {"remove", "capture"} /\ f.from = r /\ Named(t, f.list)
WillReport(st, t, r) == \E i \in DOMAIN st : Reports(st[i], t, r)

(* reconciling_ is set exactly while a focus event is raised.              *)
Guarded == OneEvent(stack) /\ (reconciling <=> ~NoEvent(stack))

(* Outside of the loop what was asked for last has been done.              *)
Followed ==
    ~reconciling => /\ host => active = desired
                    /\ ~refusing => active = Wanted(desired, host)

(* If no handler refuses, what is asked for is in the hosted tree, or its  *)
(* removal from there has still to be reported.                            *)
DesiredIsHosted ==
    ~refusing /\ desired # None =>
        TargetBelongsToRoot(desired) \/ WillReport(stack, desired, root)

FocusInv == TypeOK /\ Guarded /\ Followed /\ DesiredIsHosted

-----------------------------------------------------------------------------
LEMMA PushFrame ==
  ASSUME NEW st \in Seq(Frames), NEW f \in Frames
  PROVE  /\ <<f>> \o st \in Seq(Frames)
         /\ ~Event(f) => /\ NoEvent(<<f>> \o st) <=> NoEvent(st)
                         /\ OneEvent(st) => OneEvent(<<f>> \o st)
         /\ Event(f) /\ NoEvent(st) => ~NoEvent(<<f>> \o st) /\ OneEvent(<<f>> \o st)
         /\ \A t, r : WillReport(<<f>> \o st, t, r) <=> Reports(f, t, r) \/ WillReport(st, t, r)
<1> DEFINE new == <<f>> \o st
<1>1. /\ new \in Seq(Frames) /\ Len(new) = Len(st) + 1 /\ Len(st) \in Nat
      /\ new[1] = f
      /\ \A i \in 1..Len(st) : new[i + 1] = st[i]
      /\ DOMAIN st = 1..Len(st) /\ DOMAIN new = 1..(Len(st) + 1)
  OBVIOUS
<1>2. \A i \in DOMAIN new : i # 1 => i - 1 \in DOMAIN st /\ new[i] = st[i - 1]
  BY <1>1
<1>3. \A i \in DOMAIN st : i + 1 \in DOMAIN new /\ new[i + 1] = st[i]
  BY <1>1
<1>4. 1 \in DOMAIN new /\ DOMAIN new \subseteq Nat /\ DOMAIN st \subseteq Nat
  BY <1>1
<1> HIDE DEF new
<1>5. ASSUME ~Event(f)
      PROVE  (NoEvent(new) <=> NoEvent(st)) /\ (OneEvent(st) => OneEvent(new))
  <2>1. NoEvent(new) <=> NoEvent(st)
    BY <1>1, <1>2, <1>3, <1>5 DEF NoEvent
  <2>2. \A i \in DOMAIN new : Event(new[i]) => i # 1
    BY <1>1, <1>5
  <2>3. OneEvent(st) => OneEvent(new)
    <3> SUFFICES ASSUME OneEvent(st), NEW i \in DOMAIN new, NEW j \in DOMAIN new,
                        Event(new[i]), Event(new[j])
                 PROVE  i = j
      BY DEF OneEvent
    <3>1. i - 1 \in DOMAIN st /\ j - 1 \in DOMAIN st /\ i - 1 = j - 1
      BY <1>2, <2>2 DEF OneEvent
    <3> QED
      BY <1>4, <3>1
  <2> QED
    BY <2>1, <2>3
<1>6. ASSUME Event(f), NoEvent(st)
      PROVE  ~NoEvent(new) /\ OneEvent(new)
  <2>1. \A i \in DOMAIN new : Event(new[i]) => i = 1
    BY <1>2, <1>6 DEF NoEvent
  <2> QED
    BY <1>1, <1>4, <1>6, <2>1 DEF NoEvent, OneEvent
<1>7. \A t, r : WillReport(new, t, r) <=> Reports(f, t, r) \/ WillReport(st, t, r)
  BY <1>1, <1>2, <1>3, <1>4 DEF WillReport
<1> QED
  BY <1>1, <1>5, <1>6, <1>7 DEF new

LEMMA PopFrame ==
  ASSUME NEW st \in Seq(Frames), st # <<>>
  PROVE  /\ Head(st) \in Frames /\ Tail(st) \in Seq(Frames)
         /\ ~Event(Head(st)) => (NoEvent(Tail(st)) <=> NoEvent(st))
         /\ OneEvent(st) => OneEvent(Tail(st))
         /\ Event(Head(st)) => ~NoEvent(st) /\ (OneEvent(st) => NoEvent(Tail(st)))
         /\ \A t, r : WillReport(st, t, r) <=>
                          Reports(Head(st), t, r) \/ WillReport(Tail(st), t, r)
<1> DEFINE rest == Tail(st)
<1>1. /\ Head(st) \in Frames /\ rest \in Seq(Frames)
      /\ Head(st) = st[1] /\ Len(st) \in Nat /\ Len(st) >= 1
      /\ Len(rest) = Len(st) - 1
      /\ DOMAIN st = 1..Len(st) /\ DOMAIN rest = 1..(Len(st) - 1)
      /\ \A i \in 1..(Len(st) - 1) : rest[i] = st[i + 1]
  OBVIOUS
<1>2. /\ 1 \in DOMAIN st /\ DOMAIN st \subseteq Nat /\ DOMAIN rest \subseteq Nat
      /\ \A i \in DOMAIN rest : i + 1 \in DOMAIN st /\ i + 1 # 1 /\ rest[i] = st[i + 1]
      /\ \A i \in DOMAIN st : i # 1 => i - 1 \in DOMAIN rest /\ rest[i - 1] = st[i]
  BY <1>1
<1> HIDE DEF rest
<1>3. ~Event(Head(st)) => (NoEvent(rest) <=> NoEvent(st))
  BY <1>1, <1>2 DEF NoEvent
<1>4. ASSUME OneEvent(st)
      PROVE  OneEvent(rest)
  <2> SUFFICES ASSUME NEW i \in DOMAIN rest, NEW j \in DOMAIN rest,
                      Event(rest[i]), Event(rest[j])
               PROVE  i = j
    BY DEF OneEvent
  <2>1. i + 1 = j + 1
    BY <1>2, <1>4 DEF OneEvent
  <2> QED
    BY <1>2, <2>1
<1>5. Event(Head(st)) => ~NoEvent(st) /\ (OneEvent(st) => NoEvent(rest))
  BY <1>1, <1>2 DEF NoEvent, OneEvent
<1>6. \A t, r : WillReport(st, t, r) <=> Reports(Head(st), t, r) \/ WillReport(rest, t, r)
  BY <1>1, <1>2 DEF WillReport
<1> QED
  BY <1>1, <1>3, <1>4, <1>5, <1>6 DEF rest

LEMMA ListParts ==
  ASSUME NEW list \in Lists
  PROVE  /\ Head(list) \in Targets /\ list[Len(list)] \in Targets
         /\ Named(Head(list), list)
         /\ IsLast(list) => \A t : Named(t, list) => t = Head(list)
         /\ ~IsLast(list) => /\ Tail(list) \in Lists
                             /\ \A t : Named(t, list) => t = Head(list) \/ Named(t, Tail(list))
<1>1. CASE \E t \in Targets : list = <<t>>
  <2>1. PICK a \in Targets : list = <<a>>
    BY <1>1
  <2> QED
    BY <2>1 DEF IsLast, Named
<1>2. CASE \E a, b \in Targets : list = <<a, b>>
  <2>1. PICK a \in Targets, b \in Targets : list = <<a, b>>
    BY <1>2
  <2>2. /\ Len(list) = 2 /\ Head(list) = a /\ Tail(list) = <<b>>
        /\ list[1] = a /\ list[2] = b /\ DOMAIN list = {1, 2}
    BY <2>1
  <2>3. Tail(list) \in Lists /\ Named(b, Tail(list))
    BY <2>2 DEF Lists, Named
  <2> QED
    BY <2>2, <2>3 DEF IsLast, Named
<1> QED
  BY <1>1, <1>2 DEF Lists

LEMMA FrameTypes ==
  /\ \A k \in FocusKinds \cup {"request"}, e, n \in Elements :
        /\ Raising(k, e, n) \in Frames /\ Raising(k, e, n).kind = k /\ Raising(k, e, n).to = e
        /\ Event(Raising(k, e, n)) <=> k # "request"
        /\ \A t, r : ~Reports(Raising(k, e, n), t, r)
  /\ \A k \in {"attach", "detach"}, p, n \in Panels :
        /\ CaptureLost(k, p, n) \in Frames
        /\ ~Event(CaptureLost(k, p, n)) /\ \A t, r : ~Reports(CaptureLost(k, p, n), t, r)
  /\ \A k \in {"capture", "remove"}, l \in Lists, r \in Roots :
        /\ Removed(k, l, r) \in Frames /\ ~Event(Removed(k, l, r))
        /\ \A t, s : Reports(Removed(k, l, r), t, s) <=> s = r /\ Named(t, l)
<1>1. ASSUME NEW k \in FocusKinds \cup {"request"}, NEW e \in Elements, NEW n \in Elements
      PROVE  /\ Raising(k, e, n) \in Frames /\ Raising(k, e, n).kind = k /\ Raising(k, e, n).to = e
             /\ Event(Raising(k, e, n)) <=> k # "request"
             /\ \A t, r : ~Reports(Raising(k, e, n), t, r)
  BY DEF Raising, Frames, FocusKinds, Event, Reports
<1>2. ASSUME NEW k \in {"attach", "detach"}, NEW p \in Panels, NEW n \in Panels
      PROVE  /\ CaptureLost(k, p, n) \in Frames
             /\ ~Event(CaptureLost(k, p, n)) /\ \A t, r : ~Reports(CaptureLost(k, p, n), t, r)
  BY DEF CaptureLost, Frames, FocusKinds, Event, Reports
<1>3. ASSUME NEW k \in {"capture", "remove"}, NEW l \in Lists, NEW r \in Roots
      PROVE  /\ Removed(k, l, r) \in Frames /\ ~Event(Removed(k, l, r))
             /\ \A t, s : Reports(Removed(k, l, r), t, s) <=> s = r /\ Named(t, l)
  BY DEF Removed, Frames, FocusKinds, Event, Reports
<1> QED
  BY <1>1, <1>2, <1>3

LEMMA FrameFields ==
  ASSUME NEW f \in Frames
  PROVE  /\ f.kind \in FocusKinds \cup {"request"} => f.to \in Elements /\ f.next \in Elements
         /\ f.kind \in {"attach", "detach"} => f.prev \in Panels /\ f.new \in Panels
         /\ f.kind \in {"capture", "remove"} =>
               /\ f.list \in Lists /\ f.from \in Roots
               /\ [f EXCEPT !.kind = "capture"] = Removed("capture", f.list, f.from)
BY DEF Frames, FocusKinds, Removed

-----------------------------------------------------------------------------
(* rest is the stack but for frames that are not focus events.             *)
Alike(rest) ==
    /\ rest \in Seq(Frames)
    /\ NoEvent(rest) <=> NoEvent(stack)
    /\ OneEvent(stack) => OneEvent(rest)

(* What one round of Reconcile's loop, or the call that may be nested,     *)
(* makes of the stack.                                                     *)
Reconciled(rest, d, h) ==
    /\ stack' \in Seq(Frames) /\ Guarded'
    /\ pending' \in BOOLEAN /\ reconciling' \in BOOLEAN
    /\ active' = active /\ lostFor' = lostFor
    /\ ~reconciling' => active' = Wanted(d, h)
    /\ \A t, r : WillReport(stack', t, r) <=> WillReport(rest, t, r)

LEMMA PassStep ==
  ASSUME TypeOK, NEW rest \in Seq(Frames), NoEvent(rest),
         NEW d \in Elements, NEW h \in BOOLEAN, Pass(rest, d, h)
  PROVE  /\ Reconciled(rest, d, h)
         /\ active = Wanted(d, h) => notifying' = FALSE
<1> DEFINE wanted == Wanted(d, h)
<1>1. wanted \in Elements
  BY DEF Wanted, Elements
<1>2. OneEvent(rest)
  BY DEF NoEvent, OneEvent
<1>3. CASE active = wanted /\ Leave(rest)
  <2>1. stack' = rest /\ reconciling' = FALSE /\ pending' = FALSE /\ notifying' = FALSE
    BY <1>3 DEF Leave
  <2>2. Guarded'
    BY <1>2, <2>1 DEF Guarded
  <2> QED
    BY <1>3, <2>1, <2>2 DEF Pass, Reconciled
<1>4. CASE active # wanted /\ ~(active = wanted /\ Leave(rest))
  <2>1. PICK k \in {"losing", "getting"} : stack' = <<Raising(k, wanted, wanted)>> \o rest
    BY <1>4 DEF Pass
  <2>2. reconciling' = TRUE /\ pending' = FALSE
    BY <1>4 DEF Pass
  <2>3. /\ Raising(k, wanted, wanted) \in Frames /\ Event(Raising(k, wanted, wanted))
        /\ \A t, r : ~Reports(Raising(k, wanted, wanted), t, r)
    BY <1>1, FrameTypes DEF FocusKinds
  <2>4. /\ stack' \in Seq(Frames) /\ ~NoEvent(stack') /\ OneEvent(stack')
        /\ \A t, r : WillReport(stack', t, r) <=> WillReport(rest, t, r)
    BY <2>1, <2>3, PushFrame
  <2>5. Guarded'
    BY <2>2, <2>4 DEF Guarded
  <2> QED
    BY <1>4, <2>2, <2>4, <2>5 DEF Pass, Reconciled
<1> QED
  BY <1>3, <1>4 DEF Pass

LEMMA SetStep ==
  ASSUME FocusInv, NEW rest, Alike(rest), NEW d \in Elements, NEW h \in BOOLEAN,
         NEW byManager \in BOOLEAN, SetAndReconcile(rest, d, h, byManager)
  PROVE  /\ Reconciled(rest, d, h)
         /\ desired' = d /\ notifying' \in BOOLEAN
<1>1. TypeOK /\ Guarded
  BY DEF FocusInv
<1>2. CASE reconciling
  <2>1. /\ pending' = TRUE /\ stack' = rest /\ desired' = d
        /\ UNCHANGED <<active, reconciling, notifying, lostFor>>
    BY <1>2 DEF SetAndReconcile, Nested
  <2>2. Guarded'
    BY <1>1, <2>1 DEF Guarded, Alike
  <2> QED
    BY <1>1, <1>2, <2>1, <2>2 DEF Reconciled, Alike, TypeOK
<1>3. CASE ~reconciling
  <2>1. /\ Pass(rest, d, h) /\ desired' = d
        /\ active # Wanted(d, h) => notifying' = byManager
    BY <1>3 DEF SetAndReconcile, Nested
  <2>2. rest \in Seq(Frames) /\ NoEvent(rest)
    BY <1>1, <1>3 DEF Guarded, Alike
  <2> QED
    BY <1>1, <2>1, <2>2, PassStep
<1> QED
  BY <1>2, <1>3

(* A step that does nothing else.                                          *)
LEMMA ReconciledStep ==
  ASSUME FocusInv, NEW rest, NEW d \in Elements, NEW h \in BOOLEAN, Reconciled(rest, d, h),
         desired' = d, host' = h, notifying' \in BOOLEAN, UNCHANGED <<place, refusing, torn>>,
         root' \in Panels, kept' \in Elements,
         ~refusing /\ d # None => (root' # None /\ place[d] = root') \/ WillReport(rest, d, root')
  PROVE  FocusInv'
<1>1. TypeOK'
  BY DEF FocusInv, TypeOK, Reconciled
<1>2. Guarded' /\ (~reconciling' => active' = Wanted(d, h))
  BY DEF Reconciled
<1>3. Followed'
  BY <1>2 DEF Followed, Wanted
<1>4. DesiredIsHosted'
  BY DEF DesiredIsHosted, TargetBelongsToRoot, Reconciled
<1> QED
  BY <1>1, <1>2, <1>3, <1>4 DEF FocusInv

(* A step that only pushes or pops other frames, or changes the tree.      *)
LEMMA OtherStep ==
  ASSUME FocusInv, Alike(stack'), UNCHANGED <<root, host, refusing, focusVars>>,
         place' \in [Targets -> Panels], kept' \in Elements, torn' \in BOOLEAN,
         ~refusing /\ desired # None =>
            (root # None /\ place'[desired] = root) \/ WillReport(stack', desired, root)
  PROVE  FocusInv'
<1>1. UNCHANGED <<desired, active, reconciling, pending, notifying, lostFor>>
  BY DEF focusVars
<1>2. TypeOK'
  BY <1>1 DEF FocusInv, TypeOK, Alike
<1>3. Guarded'
  BY <1>1 DEF FocusInv, Guarded, Alike
<1>4. Followed'
  BY <1>1 DEF FocusInv, Followed, Wanted
<1>5. DesiredIsHosted'
  BY <1>1 DEF DesiredIsHosted, TargetBelongsToRoot
<1> QED
  BY <1>2, <1>3, <1>4, <1>5 DEF FocusInv

-----------------------------------------------------------------------------
(* The handlers of LosingFocus and GettingFocus have run.                  *)
LEMMA DecideStep ==
  ASSUME TypeOK, DesiredIsHosted, reconciling,
         NEW rest \in Seq(Frames), NoEvent(rest),
         \A t, r : WillReport(stack, t, r) => WillReport(rest, t, r),
         NEW f, f.to \in Elements, NEW cancel \in {FALSE, refusing},
         NEW n \in Elements, refusing \/ n = f.to \/ Redirectable(n),
         Decide(f, cancel, n, rest), UNCHANGED <<root, place, host, refusing, routeVars>>
  PROVE  FocusInv'
<1> DEFINE redirected == n # f.to
           refused    == cancel \/ (redirected /\ ~Redirectable(n))
           wanted     == IF redirected THEN n ELSE f.to
<1>1. /\ active \in Elements /\ desired \in Elements /\ wanted \in Elements /\ None \in Elements
      /\ root \in Panels /\ place \in [Targets -> Panels]
      /\ host \in BOOLEAN /\ refusing \in BOOLEAN /\ pending \in BOOLEAN /\ notifying \in BOOLEAN
      /\ lostFor \in [old : Elements, new : Elements] /\ kept \in Elements /\ torn \in BOOLEAN
  BY DEF TypeOK, Elements
<1>2. UNCHANGED <<root, place, host, refusing, kept, torn>>
  BY DEF routeVars
<1>3. refused => refusing
  BY DEF Redirectable
<1>4. OneEvent(rest)
  BY DEF NoEvent, OneEvent
<1>5. redirected /\ ~refused /\ n # None => TargetBelongsToRoot(n)
  BY DEF Redirectable
<1>6. CASE refused /\ desired' = active /\ Leave(rest) /\ UNCHANGED <<active, lostFor>>
  <2>1. stack' = rest /\ reconciling' = FALSE /\ pending' = FALSE /\ notifying' = FALSE
    BY <1>6 DEF Leave
  <2>2. TypeOK'
    BY <1>1, <1>2, <1>6, <2>1 DEF TypeOK
  <2>3. Guarded'
    BY <1>4, <2>1 DEF Guarded
  <2>4. Followed' /\ DesiredIsHosted'
    BY <1>2, <1>3, <1>6 DEF Followed, DesiredIsHosted
  <2> QED
    BY <2>2, <2>3, <2>4 DEF FocusInv
<1>7. CASE /\ ~refused /\ desired' \in {n, desired} /\ (desired' = n => redirected \/ n = desired)
           /\ active' \in Elements /\ lostFor' \in [old : Elements, new : Elements]
           /\ pending' \in BOOLEAN /\ UNCHANGED <<reconciling, notifying>>
           /\ \E k \in {"lost", "got"}, e \in Elements : stack' = <<Raising(k, e, None)>> \o rest
  <2>1. PICK k \in {"lost", "got"}, e \in Elements : stack' = <<Raising(k, e, None)>> \o rest
    BY <1>7
  <2>2. Raising(k, e, None) \in Frames /\ Event(Raising(k, e, None))
    BY <1>1, FrameTypes DEF FocusKinds
  <2>3. /\ stack' \in Seq(Frames) /\ ~NoEvent(stack') /\ OneEvent(stack')
        /\ \A t, r : WillReport(rest, t, r) => WillReport(stack', t, r)
    BY <2>1, <2>2, PushFrame
  <2>4. reconciling' = TRUE
    BY <1>7 DEF TypeOK
  <2>5. TypeOK'
    BY <1>1, <1>2, <1>7, <2>3, <2>4 DEF TypeOK
  <2>6. Guarded' /\ Followed'
    BY <2>3, <2>4 DEF Guarded, Followed
  <2>7. DesiredIsHosted'
    <3>1. CASE desired' = desired
      <4>1. \A t, r : WillReport(stack, t, r) => WillReport(stack', t, r)
        BY <2>3
      <4> QED
        BY <1>2, <3>1, <4>1 DEF DesiredIsHosted, TargetBelongsToRoot
    <3>2. CASE redirected /\ desired' = n
      BY <1>2, <1>5, <1>7, <3>2 DEF DesiredIsHosted, TargetBelongsToRoot
    <3> QED
      BY <1>7, <3>1, <3>2
  <2> QED
    BY <2>5, <2>6, <2>7 DEF FocusInv
<1>8. CASE ~refused /\ active = None /\ desired' = None /\ Leave(rest) /\ UNCHANGED <<active, lostFor>>
  <2>1. stack' = rest /\ reconciling' = FALSE /\ pending' = FALSE /\ notifying' = FALSE
    BY <1>8 DEF Leave
  <2>2. TypeOK'
    BY <1>1, <1>2, <1>8, <2>1 DEF TypeOK
  <2>3. Guarded'
    BY <1>4, <2>1 DEF Guarded
  <2>4. Followed' /\ DesiredIsHosted'
    BY <1>8 DEF Followed, DesiredIsHosted, Wanted
  <2> QED
    BY <2>2, <2>3, <2>4 DEF FocusInv
<1>9. CASE /\ ~refused /\ active # None
           /\ desired' = (IF redirected THEN n ELSE desired)
           /\ active' = None
           /\ lostFor' = [old |-> active, new |-> wanted]
           /\ stack' = <<Raising("lost", IF kept = active THEN kept ELSE None, None)>> \o rest
           /\ pending' = (pending \/ redirected)
           /\ UNCHANGED <<reconciling, notifying>>
  <2>1. (IF kept = active THEN kept ELSE None) \in Elements
    BY <1>1
  <2> HIDE DEF redirected, refused, wanted
  <2>2. PICK e \in Elements : stack' = <<Raising("lost", e, None)>> \o rest
    BY <1>9, <2>1
  <2>3. lostFor' \in [old : Elements, new : Elements] /\ pending' \in BOOLEAN /\ active' \in Elements
    BY <1>1, <1>9 DEF redirected
  <2>4. desired' \in {n, desired} /\ (desired' = n => redirected \/ n = desired)
    BY <1>9
  <2> QED
    BY <1>7, <1>9, <2>2, <2>3, <2>4
<1>10. CASE /\ ~refused /\ active = None /\ wanted # None
            /\ desired' = (IF redirected THEN n ELSE desired)
            /\ active' = wanted
            /\ lostFor' = NoTransition
            /\ stack' = <<Raising("got", None, None)>> \o rest
            /\ pending' = (pending \/ redirected)
            /\ UNCHANGED <<reconciling, notifying>>
  <2> HIDE DEF redirected, refused, wanted
  <2>1. lostFor' \in [old : Elements, new : Elements] /\ pending' \in BOOLEAN /\ active' \in Elements
    BY <1>1, <1>10 DEF redirected, NoTransition
  <2>2. desired' \in {n, desired} /\ (desired' = n => redirected \/ n = desired)
    BY <1>10
  <2> QED
    BY <1>1, <1>7, <1>10, <2>1, <2>2
<1> QED
  BY <1>6, <1>8, <1>9, <1>10 DEF Decide, Restored

LEMMA RaisedStep ==
  ASSUME FocusInv, NEW rest \in Seq(Frames), NoEvent(rest), reconciling,
         \A t, r : WillReport(stack, t, r) => WillReport(rest, t, r),
         NEW f, f.to \in Elements, Raised(f, rest),
         UNCHANGED <<root, place, host, refusing, routeVars>>
  PROVE  FocusInv'
<1>1. TypeOK /\ DesiredIsHosted
  BY DEF FocusInv
<1>2. PICK cancel \in {FALSE, refusing},
           n \in {e \in Elements : refusing \/ e = f.to \/ Redirectable(e)} :
        IF f.kind = "losing" /\ ~cancel /\ f.to # None
        THEN stack' = <<Raising("getting", f.to, n)>> \o rest /\ UNCHANGED focusVars
        ELSE Decide(f, cancel, n, rest)
  BY DEF Raised
<1>3. CASE stack' = <<Raising("getting", f.to, n)>> \o rest /\ UNCHANGED focusVars
  <2>1. Raising("getting", f.to, n) \in Frames /\ Event(Raising("getting", f.to, n))
    BY FrameTypes DEF FocusKinds
  <2>2. /\ stack' \in Seq(Frames) /\ ~NoEvent(stack') /\ OneEvent(stack')
        /\ \A t, r : WillReport(rest, t, r) => WillReport(stack', t, r)
    BY <1>3, <2>1, PushFrame
  <2>3. Alike(stack')
    BY <2>2 DEF Alike, FocusInv, Guarded
  <2>4. ~refusing /\ desired # None =>
            (root # None /\ place[desired] = root) \/ WillReport(stack', desired, root)
    BY <1>1, <2>2 DEF DesiredIsHosted, TargetBelongsToRoot
  <2>5. place \in [Targets -> Panels] /\ kept \in Elements /\ torn \in BOOLEAN
    BY <1>1 DEF TypeOK
  <2> QED
    BY <1>3, <2>3, <2>4, <2>5, OtherStep DEF routeVars
<1>4. CASE Decide(f, cancel, n, rest)
  BY <1>1, <1>4, DecideStep
<1> QED
  BY <1>2, <1>3, <1>4

-----------------------------------------------------------------------------
(* What is asked for instead is nothing, or in the hosted tree.            *)
LEMMA ResetStep ==
  ASSUME FocusInv, NEW rest, Alike(rest), SetAndReconcile(rest, None, host, FALSE),
         UNCHANGED <<place, host, refusing, routeVars>>, root' \in Panels
  PROVE  FocusInv'
<1>1. None \in Elements /\ host \in BOOLEAN /\ FALSE \in BOOLEAN
  BY DEF FocusInv, TypeOK, Elements
<1>2. Reconciled(rest, None, host) /\ desired' = None /\ notifying' \in BOOLEAN
  BY <1>1, SetStep
<1>3. UNCHANGED <<place, refusing, torn>> /\ host' = host /\ kept' \in Elements
  BY DEF routeVars, FocusInv, TypeOK
<1> QED
  BY <1>1, <1>2, <1>3, ReconciledStep

LEMMA CommitRootStep ==
  ASSUME FocusInv, NEW rest, Alike(rest), NEW prev, NEW new \in Panels,
         \A t, r : WillReport(stack, t, r) => WillReport(rest, t, r),
         CommitRoot(prev, new, rest), UNCHANGED <<place, host, refusing, routeVars>>
  PROVE  FocusInv'
<1>1. CASE root = prev
  <2>1. root' = new /\ SetAndReconcile(rest, None, host, FALSE)
    BY <1>1 DEF CommitRoot
  <2> QED
    BY <2>1, ResetStep
<1>2. CASE root # prev
  <2>1. stack' = rest /\ UNCHANGED <<root, focusVars>>
    BY <1>2 DEF CommitRoot
  <2>2. /\ place' \in [Targets -> Panels] /\ kept' \in Elements /\ torn' \in BOOLEAN
        /\ place' = place
    BY DEF routeVars, FocusInv, TypeOK
  <2>3. ~refusing /\ desired # None =>
            (root # None /\ place'[desired] = root) \/ WillReport(stack', desired, root)
    BY <2>1, <2>2 DEF FocusInv, DesiredIsHosted, TargetBelongsToRoot
  <2> QED
    BY <2>1, <2>2, <2>3, OtherStep
<1> QED
  BY <1>1, <1>2

LEMMA NotifyRemovedStep ==
  ASSUME FocusInv, NEW rest, Alike(rest), NEW list \in Lists, NEW from \in Roots,
         NEW hosted \in BOOLEAN, root = from => hosted,
         \A t, r : WillReport(stack, t, r) => (r = from /\ Named(t, list)) \/ WillReport(rest, t, r),
         NotifyRemoved(list, from, hosted, rest), UNCHANGED <<root, place, host, refusing, routeVars>>
  PROVE  FocusInv'
<1> DEFINE after == IF IsLast(list) THEN rest
                    ELSE <<Removed("remove", Tail(list), from)>> \o rest
<1>1. /\ Alike(after)
      /\ \A t, r : WillReport(stack, t, r) =>
                      (r = from /\ t = Head(list)) \/ WillReport(after, t, r)
  <2>1. CASE IsLast(list)
    BY <2>1, ListParts
  <2>2. CASE ~IsLast(list)
    <3>1. /\ Tail(list) \in Lists
          /\ \A t : Named(t, list) => t = Head(list) \/ Named(t, Tail(list))
      BY <2>2, ListParts
    <3>2. /\ Removed("remove", Tail(list), from) \in Frames
          /\ ~Event(Removed("remove", Tail(list), from))
          /\ \A t, s : Reports(Removed("remove", Tail(list), from), t, s) <=>
                           s = from /\ Named(t, Tail(list))
      BY <3>1, FrameTypes
    <3>3. Alike(<<Removed("remove", Tail(list), from)>> \o rest)
      BY <3>2, PushFrame DEF Alike
    <3>4. \A t, r : WillReport(<<Removed("remove", Tail(list), from)>> \o rest, t, r) <=>
                       (r = from /\ Named(t, Tail(list))) \/ WillReport(rest, t, r)
      BY <3>2, PushFrame DEF Alike
    <3> QED
      BY <2>2, <3>1, <3>3, <3>4
  <2> QED
    BY <2>1, <2>2
<1> HIDE DEF after
<1>2. root' \in Panels
  BY DEF FocusInv, TypeOK
<1>3. CASE hosted /\ Gone(Head(list))
  <2>1. SetAndReconcile(after, None, host, FALSE)
    BY <1>3 DEF NotifyRemoved, after
  <2> QED
    BY <1>1, <1>2, <2>1, ResetStep
<1>4. CASE ~(hosted /\ Gone(Head(list)))
  <2>1. stack' = after /\ UNCHANGED focusVars
    BY <1>4 DEF NotifyRemoved, after
  <2>2. WillReport(stack, desired, root) => WillReport(after, desired, root)
    BY <1>1, <1>4 DEF Gone
  <2>3. /\ place' \in [Targets -> Panels] /\ kept' \in Elements /\ torn' \in BOOLEAN
        /\ place' = place
    BY DEF routeVars, FocusInv, TypeOK
  <2>4. ~refusing /\ desired # None =>
            (root # None /\ place'[desired] = root) \/ WillReport(stack', desired, root)
    BY <2>1, <2>2, <2>3 DEF FocusInv, DesiredIsHosted, TargetBelongsToRoot
  <2> QED
    BY <1>1, <2>1, <2>3, <2>4, OtherStep
<1> QED
  BY <1>3, <1>4

-----------------------------------------------------------------------------
LEMMA ReturnStep ==
  ASSUME FocusInv, Return
  PROVE  FocusInv'
<1> DEFINE f == Head(stack)
           rest == Tail(stack)
<1>1. TypeOK /\ stack \in Seq(Frames) /\ stack # <<>> /\ OneEvent(stack)
      /\ (reconciling <=> ~NoEvent(stack)) /\ DesiredIsHosted
  BY DEF Return, FocusInv, TypeOK, Guarded
<1>2. /\ f \in Frames /\ rest \in Seq(Frames)
      /\ ~Event(f) => Alike(rest)
      /\ Event(f) => NoEvent(rest) /\ reconciling
      /\ \A t, r : WillReport(stack, t, r) => Reports(f, t, r) \/ WillReport(rest, t, r)
  BY <1>1, PopFrame DEF Alike
<1>3. /\ f.kind \notin {"capture", "remove"} => \A t, r : ~Reports(f, t, r)
      /\ \A t, r : Reports(f, t, r) => r = f.from /\ Named(t, f.list)
  BY DEF Reports
<1>4. \A t, r : f.kind \notin {"capture", "remove"} /\ WillReport(stack, t, r) => WillReport(rest, t, r)
  BY <1>2, <1>3
<1>5. /\ place \in [Targets -> Panels] /\ kept \in Elements /\ torn \in BOOLEAN
      /\ root \in Panels /\ host \in BOOLEAN /\ desired \in Elements /\ notifying \in BOOLEAN
      /\ None \in Elements
  BY <1>1 DEF TypeOK, Elements
<1> HIDE DEF f, rest
<1>6. CASE /\ f.kind \in {"losing", "getting"} /\ Raised(f, rest)
           /\ UNCHANGED <<root, place, host, refusing, routeVars>>
  <2>1. Event(f) /\ f.to \in Elements
    BY <1>2, <1>6, FrameFields DEF Event, FocusKinds
  <2>2. f.kind \notin {"capture", "remove"}
    BY <1>6
  <2> QED
    BY <1>2, <1>4, <1>6, <2>1, <2>2, RaisedStep
<1>7. CASE /\ f.kind \in {"lost", "got"} /\ Pass(rest, desired, host)
           /\ active # Wanted(desired, host) => UNCHANGED notifying
           /\ kept' = (IF f.kind = "lost" /\ f.to # None THEN None ELSE kept)
           /\ UNCHANGED <<root, place, host, refusing, desired, torn>>
  <2>1. Event(f)
    BY <1>7 DEF Event, FocusKinds
  <2>2. /\ Reconciled(rest, desired, host)
        /\ active = Wanted(desired, host) => notifying' = FALSE
    BY <1>1, <1>2, <1>5, <1>7, <2>1, PassStep
  <2>3. notifying' \in BOOLEAN /\ kept' \in Elements
    BY <1>5, <1>7, <2>2
  <2>4. f.kind \notin {"capture", "remove"}
    BY <1>7
  <2>5. ~refusing /\ desired # None =>
           (root' # None /\ place[desired] = root') \/ WillReport(rest, desired, root')
    BY <1>1, <1>4, <1>7, <2>4 DEF DesiredIsHosted, TargetBelongsToRoot
  <2> QED
    BY <1>5, <1>7, <2>2, <2>3, <2>5, ReconciledStep
<1>8. CASE /\ f.kind \in {"request", "remove"} /\ UNCHANGED <<root, place, host, refusing, routeVars>>
           /\ \/ f.kind = "request" /\ stack' = rest
              \/ /\ f.kind = "remove" /\ root = f.from
                 /\ stack' = <<[f EXCEPT !.kind = "capture"]>> \o rest
           /\ UNCHANGED focusVars
  <2>1. ~Event(f)
    BY <1>8 DEF Event, FocusKinds
  <2>2. Alike(stack') /\ \A t, r : WillReport(stack, t, r) => WillReport(stack', t, r)
    <3>1. CASE f.kind = "request" /\ stack' = rest
      BY <1>2, <1>4, <2>1, <3>1
    <3>2. CASE f.kind = "remove" /\ stack' = <<[f EXCEPT !.kind = "capture"]>> \o rest
      <4>1. /\ f.list \in Lists /\ f.from \in Roots
            /\ stack' = <<Removed("capture", f.list, f.from)>> \o rest
        BY <1>2, <3>2, FrameFields
      <4>2. /\ Removed("capture", f.list, f.from) \in Frames
            /\ ~Event(Removed("capture", f.list, f.from))
            /\ \A t, s : Reports(Removed("capture", f.list, f.from), t, s) <=>
                             s = f.from /\ Named(t, f.list)
        BY <4>1, FrameTypes
      <4>3. Alike(rest)
        BY <1>2, <2>1
      <4>4. Alike(<<Removed("capture", f.list, f.from)>> \o rest)
        BY <4>2, <4>3, PushFrame DEF Alike
      <4>5. \A t, r : WillReport(<<Removed("capture", f.list, f.from)>> \o rest, t, r) <=>
                         (r = f.from /\ Named(t, f.list)) \/ WillReport(rest, t, r)
        BY <4>2, <4>3, PushFrame DEF Alike
      <4> QED
        BY <1>2, <1>3, <4>1, <4>4, <4>5
    <3> QED
      BY <1>8, <3>1, <3>2
  <2>3. ~refusing /\ desired # None =>
            (root # None /\ place[desired] = root) \/ WillReport(stack', desired, root)
    BY <1>1, <2>2 DEF DesiredIsHosted, TargetBelongsToRoot
  <2> QED
    BY <1>5, <1>8, <2>2, <2>3, OtherStep DEF routeVars
<1>9. CASE /\ f.kind = "request" /\ SetAndReconcile(rest, None, host, FALSE)
           /\ UNCHANGED <<root, place, host, refusing, routeVars>>
  <2>1. Alike(rest)
    BY <1>2, <1>9 DEF Event, FocusKinds
  <2> QED
    BY <1>5, <1>9, <2>1, ResetStep
<1>10. CASE /\ f.kind \in {"attach", "detach"} /\ CommitRoot(f.prev, f.new, rest)
            /\ UNCHANGED <<place, host, refusing, routeVars>>
  <2>1. Alike(rest) /\ f.new \in Panels
    BY <1>2, <1>10, FrameFields DEF Event, FocusKinds
  <2>2. f.kind \notin {"capture", "remove"}
    BY <1>10
  <2> QED
    BY <1>4, <1>10, <2>1, <2>2, CommitRootStep
<1>11. CASE /\ f.kind \in {"capture", "remove"}
            /\ NotifyRemoved(f.list, f.from, TRUE, rest) \/ NotifyRemoved(f.list, f.from, root = f.from, rest)
            /\ UNCHANGED <<root, place, host, refusing, routeVars>>
  <2>1. Alike(rest) /\ f.list \in Lists /\ f.from \in Roots
    BY <1>2, <1>11, FrameFields DEF Event, FocusKinds
  <2>2. \A t, r : WillReport(stack, t, r) =>
                     (r = f.from /\ Named(t, f.list)) \/ WillReport(rest, t, r)
    BY <1>2, <1>3
  <2>3. (root = f.from) \in BOOLEAN
    OBVIOUS
  <2> QED
    BY <1>11, <2>1, <2>2, <2>3, NotifyRemovedStep
<1> QED
  BY <1>6, <1>7, <1>8, <1>9, <1>10, <1>11 DEF Return, f, rest

-----------------------------------------------------------------------------
LEMMA Same ==
  ASSUME FocusInv
  PROVE  /\ Alike(stack) /\ \A t, r : WillReport(stack, t, r) => WillReport(stack, t, r)
         /\ root \in Panels /\ place \in [Targets -> Panels]
         /\ host \in BOOLEAN /\ desired \in Elements /\ None \in Elements
         /\ kept \in Elements /\ torn \in BOOLEAN /\ active \in Elements
BY DEF Alike, FocusInv, TypeOK, Guarded, Elements

(* A frame that reports no removal and is no focus event, on top.          *)
LEMMA PushOther ==
  ASSUME FocusInv, NEW f \in Frames, ~Event(f), \A t, r : ~Reports(f, t, r)
  PROVE  /\ Alike(<<f>> \o stack)
         /\ \A t, r : WillReport(<<f>> \o stack, t, r) <=> WillReport(stack, t, r)
BY Same, PushFrame DEF Alike

LEMMA RequestFocusStep ==
  ASSUME FocusInv, NEW t \in Targets, RequestFocus(t)
  PROVE  FocusInv'
<1>1. /\ t \in Elements /\ root # None /\ place[t] = root
      /\ UNCHANGED <<root, place, host, refusing, kept, torn>>
  BY DEF RequestFocus, TargetBelongsToRoot, Elements, routeVars
<1>2. CASE host
  <2>1. SetAndReconcile(stack, t, host, FALSE)
    BY <1>2 DEF RequestFocus
  <2>2. Reconciled(stack, t, host) /\ desired' = t /\ notifying' \in BOOLEAN
    BY <1>1, <2>1, Same, SetStep
  <2> QED
    BY <1>1, <2>2, Same, ReconciledStep
<1>3. CASE ~host
  <2>1. /\ desired' = t /\ pending' = TRUE
        /\ stack' = <<Raising("request", t, None)>> \o stack
        /\ UNCHANGED <<active, reconciling, notifying, lostFor>>
    BY <1>3 DEF RequestFocus
  <2>2. /\ Raising("request", t, None) \in Frames /\ ~Event(Raising("request", t, None))
        /\ \A x, r : ~Reports(Raising("request", t, None), x, r)
    BY <1>1, Same, FrameTypes
  <2>3. Alike(stack')
    BY <2>1, <2>2, PushOther
  <2>4. TypeOK'
    BY <1>1, <2>1, <2>3 DEF FocusInv, TypeOK, Alike
  <2>5. Guarded'
    BY <2>1, <2>3 DEF FocusInv, Guarded, Alike
  <2>6. Followed'
    BY <1>1, <1>3, <2>1 DEF FocusInv, Followed, Wanted
  <2>7. DesiredIsHosted'
    BY <1>1, <2>1 DEF DesiredIsHosted, TargetBelongsToRoot
  <2> QED
    BY <2>4, <2>5, <2>6, <2>7 DEF FocusInv
<1> QED
  BY <1>2, <1>3

LEMMA HostChangedStep ==
  ASSUME FocusInv, NEW b \in BOOLEAN, OnIslandFocusChanged(b)
  PROVE  FocusInv'
<1>1. /\ host' = b /\ SetAndReconcile(stack, desired, b, TRUE)
      /\ UNCHANGED <<root, place, refusing, kept, torn>>
  BY DEF OnIslandFocusChanged, routeVars
<1>2. Reconciled(stack, desired, b) /\ desired' = desired /\ notifying' \in BOOLEAN
  BY <1>1, Same, SetStep
<1>3. ~refusing /\ desired # None =>
          (root' # None /\ place[desired] = root') \/ WillReport(stack, desired, root')
  BY <1>1 DEF FocusInv, DesiredIsHosted, TargetBelongsToRoot
<1> QED
  BY <1>1, <1>2, <1>3, Same, ReconciledStep

LEMMA HostRootStep ==
  ASSUME FocusInv, NEW r \in Panels, AttachRoot(r) \/ DetachRoot
  PROVE  FocusInv'
<1>1. UNCHANGED <<place, host, refusing, routeVars>>
  BY DEF AttachRoot, DetachRoot
<1>2. ASSUME NEW n \in Panels, CommitRoot(root, n, stack)
      PROVE  FocusInv'
  BY <1>1, <1>2, Same, CommitRootStep
<1>3. ASSUME NEW k \in {"attach", "detach"}, NEW n \in Panels,
             stack' = <<CaptureLost(k, root, n)>> \o stack, UNCHANGED <<root, focusVars>>
      PROVE  FocusInv'
  <2>1. /\ CaptureLost(k, root, n) \in Frames /\ ~Event(CaptureLost(k, root, n))
        /\ \A x, s : ~Reports(CaptureLost(k, root, n), x, s)
    BY Same, FrameTypes
  <2>2. /\ Alike(stack')
        /\ \A x, s : WillReport(stack', x, s) <=> WillReport(stack, x, s)
    BY <1>3, <2>1, PushOther
  <2>3. ~refusing /\ desired # None =>
            (root # None /\ place[desired] = root) \/ WillReport(stack', desired, root)
    BY <2>2 DEF FocusInv, DesiredIsHosted, TargetBelongsToRoot
  <2> QED
    BY <1>1, <1>3, <2>2, <2>3, Same, OtherStep DEF routeVars
<1>4. None \in Panels
  BY DEF Panels
<1> QED
  BY <1>2, <1>3, <1>4 DEF AttachRoot, DetachRoot

LEMMA InsertStep ==
  ASSUME FocusInv, NEW t \in Targets, NEW r \in Roots, Insert(t, r)
  PROVE  FocusInv'
<1>1. /\ place[t] = None /\ place' = [place EXCEPT ![t] = r]
      /\ UNCHANGED <<root, host, refusing, stack, kept, torn, focusVars>>
  BY DEF Insert, routeVars
<1>2. place' \in [Targets -> Panels]
  BY <1>1, Same DEF Panels
<1>3. ~refusing /\ desired # None =>
          (root # None /\ place'[desired] = root) \/ WillReport(stack', desired, root)
  <2> SUFFICES ASSUME ~refusing, desired # None, root # None, place[desired] = root
               PROVE  place'[desired] = root
    BY <1>1 DEF FocusInv, DesiredIsHosted, TargetBelongsToRoot
  <2>1. desired # t /\ desired \in Targets
    BY <1>1, Same DEF Elements
  <2> QED
    BY <1>1, <2>1, Same
<1> QED
  BY <1>1, <1>2, <1>3, Same, OtherStep

LEMMA RemoveStep ==
  ASSUME FocusInv, NEW list \in Lists, NEW r \in Roots, Remove(list, r)
  PROVE  FocusInv'
<1>1. /\ \A i \in DOMAIN list : place[list[i]] = r
      /\ place' = [t \in Targets |-> IF Named(t, list) THEN None ELSE place[t]]
      /\ UNCHANGED <<root, host, refusing, focusVars>>
  BY DEF Remove, Named
<1>2. place' \in [Targets -> Panels]
  BY <1>1, Same DEF Panels
<1>3. \A t \in Targets : ~Named(t, list) => place'[t] = place[t]
  BY <1>1
<1>4. \A t : Named(t, list) => place[t] = r
  BY <1>1 DEF Named
<1>5. desired # None => desired \in Targets
  BY Same DEF Elements
<1>6. CASE root = r
  <2>1. /\ stack' = <<Removed("remove", list, r)>> \o stack
        /\ kept' = (IF active = list[Len(list)] THEN active ELSE None)
        /\ torn' = \E i \in DOMAIN stack : stack[i].kind = "lost" /\ stack[i].to # None
    BY <1>6 DEF Remove
  <2>2. kept' \in Elements /\ torn' \in BOOLEAN
    BY <2>1, Same
  <2>3. /\ Removed("remove", list, r) \in Frames /\ ~Event(Removed("remove", list, r))
        /\ \A t, s : Reports(Removed("remove", list, r), t, s) <=> s = r /\ Named(t, list)
    BY FrameTypes
  <2>4. Alike(stack')
    BY <2>1, <2>3, Same, PushFrame DEF Alike
  <2>5. \A t, s : WillReport(stack', t, s) <=> (s = r /\ Named(t, list)) \/ WillReport(stack, t, s)
    BY <2>1, <2>3, Same, PushFrame DEF Alike
  <2>6. ~refusing /\ desired # None =>
            (root # None /\ place'[desired] = root) \/ WillReport(stack', desired, root)
    BY <1>3, <1>5, <1>6, <2>5 DEF FocusInv, DesiredIsHosted, TargetBelongsToRoot
  <2> QED
    BY <1>1, <1>2, <2>2, <2>4, <2>6, OtherStep
<1>7. CASE root # r
  <2>1. UNCHANGED <<stack, kept, torn>>
    BY <1>7 DEF Remove, routeVars
  <2>2. ~refusing /\ desired # None =>
            (root # None /\ place'[desired] = root) \/ WillReport(stack', desired, root)
    BY <1>3, <1>4, <1>5, <1>7, <2>1 DEF FocusInv, DesiredIsHosted, TargetBelongsToRoot
  <2> QED
    BY <1>1, <1>2, <2>1, <2>2, Same, OtherStep
<1> QED
  BY <1>6, <1>7

LEMMA InitFocus == Init => FocusInv
<1> SUFFICES ASSUME Init PROVE FocusInv
  OBVIOUS
<1>1. stack \in Seq(Frames) /\ NoEvent(stack) /\ OneEvent(stack)
  <2>1. stack = <<>> /\ stack \in Seq(Frames) /\ DOMAIN stack = {}
    BY DEF Init
  <2> QED
    BY <2>1 DEF NoEvent, OneEvent
<1>2. TypeOK
  <2>1. None \in Elements /\ None \in Panels
    BY DEF Elements, Panels
  <2>2. lostFor \in [old : Elements, new : Elements]
    BY <2>1 DEF Init, NoTransition
  <2>3. /\ root \in Panels /\ place \in [Targets -> Panels] /\ desired \in Elements
        /\ active \in Elements /\ kept \in Elements /\ refusing \in BOOLEAN
    BY <2>1 DEF Init
  <2>4. /\ host \in BOOLEAN /\ reconciling \in BOOLEAN /\ pending \in BOOLEAN
        /\ notifying \in BOOLEAN /\ torn \in BOOLEAN
    BY DEF Init
  <2> QED
    BY <1>1, <2>2, <2>3, <2>4 DEF TypeOK
<1>3. Guarded /\ Followed /\ DesiredIsHosted
  BY <1>1 DEF Init, Guarded, Followed, Wanted, DesiredIsHosted
<1> QED
  BY <1>2, <1>3 DEF FocusInv

LEMMA NextFocus == FocusInv /\ [Next]_vars => FocusInv'
<1> SUFFICES ASSUME FocusInv, [Next]_vars PROVE FocusInv'
  OBVIOUS
<1>1. CASE Operation
  BY <1>1, RequestFocusStep, HostChangedStep, HostRootStep, InsertStep, RemoveStep
  DEF Operation, Panels
<1>2. CASE UNCHANGED vars
  <2>1. /\ UNCHANGED <<root, host, refusing, focusVars>> /\ stack' = stack
        /\ place' = place /\ kept' = kept /\ torn' = torn
    BY <1>2 DEF vars, routeVars
  <2>2. Alike(stack')
    BY <2>1, Same
  <2>3. ~refusing /\ desired # None =>
            (root # None /\ place'[desired] = root) \/ WillReport(stack', desired, root)
    BY <2>1 DEF FocusInv, DesiredIsHosted, TargetBelongsToRoot
  <2> QED
    BY <2>1, <2>2, <2>3, Same, OtherStep
<1> QED
  BY <1>1, <1>2, ReturnStep DEF Next

LEMMA IdleFacts == Idle => NoEvent(stack) /\ \A t, r : ~WillReport(stack, t, r)
<1> SUFFICES ASSUME Idle PROVE NoEvent(stack) /\ \A t, r : ~WillReport(stack, t, r)
  OBVIOUS
<1>1. stack = <<>> /\ DOMAIN <<>> = {}
  BY DEF Idle
<1> QED
  BY <1>1 DEF NoEvent, WillReport

(* Reconcile raises one focus event at a time, whatever its handlers do,   *)
(* and its loop ends with what was asked for last and, if no handler       *)
(* refuses, with what the window's focus asks for.                         *)
THEOREM TransitionCorrect == Spec => []OneTransition
<1>1. FocusInv => OneTransition
  <2> SUFFICES ASSUME FocusInv PROVE OneTransition
    OBVIOUS
  <2>1. TypeOK /\ Guarded /\ Followed
    BY DEF FocusInv
  <2>2. OneFocusEvent
    BY <2>1 DEF Guarded, OneEvent, OneFocusEvent, FocusEvents, Event, FocusKinds
  <2>3. Idle => ~reconciling
    BY <2>1, IdleFacts DEF Guarded
  <2>4. FocusSettled /\ FocusFollowsHost
    BY <2>1, <2>3 DEF Followed, FocusSettled, FocusFollowsHost, Wanted
  <2> QED
    BY <2>1, <2>2, <2>4 DEF OneTransition
<1> QED
  BY <1>1, InitFocus, NextFocus, PTL DEF Spec

(* If no handler refuses, the element that has the focus once all handlers *)
(* have returned is in the hosted tree, whatever they removed and whatever *)
(* root they attached (XamlFocusScope::AttachRoot, OnVisualSubtreeDetached).*)
THEOREM HostedCorrect == Spec => []WillingIsHosted
<1>1. FocusInv => WillingIsHosted
  <2> SUFFICES ASSUME FocusInv, ~refusing, Idle, active # None PROVE TargetBelongsToRoot(active)
    BY DEF WillingIsHosted, ActiveIsHosted
  <2>1. ~reconciling /\ ~WillReport(stack, desired, root)
    BY IdleFacts DEF FocusInv, Guarded
  <2>2. active = desired
    BY <2>1 DEF FocusInv, Followed, Wanted
  <2> QED
    BY <2>1, <2>2 DEF FocusInv, DesiredIsHosted
<1> QED
  BY <1>1, InitFocus, NextFocus, PTL DEF Spec

-----------------------------------------------------------------------------
(* The pointer.                                                            *)

Telled == {"left", "exited", "entered", "tapped", "doubled", "capture", "release", "canceled"}
Calls == [at : Telled, of : Elements]
         \cup [at : {"main"}, ended : {TRUE}, of : Elements]
         \cup [at : {"main"}, ended : {FALSE}, of : {None}]
         \cup [at : {"lost"}, of : Elements, how : {"saved", "tree"}]
         \cup [at : {"attach"}, prev : Panels, new : Panels]
         \cup [at : {"report"}, list : Lists, from : Roots]
         \cup [at : {"reported"}, of : Elements, prev : Elements]

PointerType ==
    /\ root \in Panels /\ place \in [Targets -> Panels]
    /\ {hover, lastTap, capture, lostTarget} \subseteq Elements
    /\ candidate \in [of : Elements, moved : BOOLEAN]
    /\ answers \in Nat
    /\ calls \in Seq(Calls)

(* The Exited handlers that are to be followed by Entered, and the routes  *)
(* of a release that are to be followed by a tap.                          *)
Exits == {f \in Calls : f.at = "exited"}
Taps  == {f \in Calls : f.at = "main" /\ f.of # None}
NoneIn(st, K) == \A i \in DOMAIN st : st[i] \notin K
OneIn(st, K)  == \A i, j \in DOMAIN st : st[i] \in K /\ st[j] \in K => i = j

(* Unless a move came while Exited was raised: the hosted elements that    *)
(* were told Entered are the hovered one, and none while its successor     *)
(* waits for the Exited handlers.                                          *)
Outstanding == inside \ excused
HoverInv ==
    /\ Outstanding \subseteq Hosted
    /\ ~crossed => /\ Outstanding \subseteq {hover}
                   /\ NoneIn(calls, Exits) \/ Outstanding = {}
                   /\ OneIn(calls, Exits)

(* Unless a release came while one was routed: a press that may still be   *)
(* answered, or is about to be, has not been answered.                     *)
Armed(c) == c.of # None /\ ~c.moved
TapInv ==
    ~crossed => /\ answers < 2
                /\ OneIn(calls, Taps)
                /\ ~NoneIn(calls, Taps) => answers = 0
                /\ Armed(candidate) => answers = 0

PointerInv == PointerType /\ HoverInv /\ TapInv

-----------------------------------------------------------------------------
LEMMA PushCall ==
  ASSUME NEW st \in Seq(Calls), NEW f \in Calls, NEW K
  PROVE  /\ <<f>> \o st \in Seq(Calls)
         /\ f \notin K => /\ NoneIn(st, K) => NoneIn(<<f>> \o st, K)
                          /\ OneIn(st, K) => OneIn(<<f>> \o st, K)
         /\ NoneIn(st, K) => OneIn(<<f>> \o st, K)
<1> DEFINE new == <<f>> \o st
<1>1. /\ new \in Seq(Calls) /\ Len(new) = Len(st) + 1 /\ Len(st) \in Nat
      /\ new[1] = f
      /\ \A i \in 1..Len(st) : new[i + 1] = st[i]
      /\ DOMAIN st = 1..Len(st) /\ DOMAIN new = 1..(Len(st) + 1)
  OBVIOUS
<1>2. /\ \A i \in DOMAIN new : i # 1 => i - 1 \in DOMAIN st /\ new[i] = st[i - 1]
      /\ DOMAIN new \subseteq Nat
  BY <1>1
<1> HIDE DEF new
<1>3. f \notin K /\ NoneIn(st, K) => NoneIn(new, K)
  BY <1>1, <1>2 DEF NoneIn
<1>4. f \notin K /\ OneIn(st, K) => OneIn(new, K)
  <2> SUFFICES ASSUME f \notin K, OneIn(st, K), NEW i \in DOMAIN new, NEW j \in DOMAIN new,
                      new[i] \in K, new[j] \in K
               PROVE  i = j
    BY DEF OneIn
  <2>1. i - 1 \in DOMAIN st /\ j - 1 \in DOMAIN st /\ i - 1 = j - 1
    BY <1>1, <1>2 DEF OneIn
  <2> QED
    BY <1>2, <2>1
<1>5. NoneIn(st, K) => OneIn(new, K)
  <2>1. NoneIn(st, K) => \A i \in DOMAIN new : new[i] \in K => i = 1
    BY <1>2 DEF NoneIn
  <2> QED
    BY <2>1 DEF OneIn
<1> QED
  BY <1>1, <1>3, <1>4, <1>5 DEF new

LEMMA PopCall ==
  ASSUME NEW st \in Seq(Calls), st # <<>>, NEW K
  PROVE  /\ Head(st) \in Calls /\ Tail(st) \in Seq(Calls)
         /\ NoneIn(st, K) => NoneIn(Tail(st), K)
         /\ OneIn(st, K) => OneIn(Tail(st), K)
         /\ Head(st) \in K => ~NoneIn(st, K) /\ (OneIn(st, K) => NoneIn(Tail(st), K))
<1> DEFINE rest == Tail(st)
<1>1. /\ Head(st) \in Calls /\ rest \in Seq(Calls)
      /\ Head(st) = st[1] /\ Len(st) \in Nat /\ Len(st) >= 1
      /\ DOMAIN st = 1..Len(st) /\ DOMAIN rest = 1..(Len(st) - 1)
      /\ \A i \in 1..(Len(st) - 1) : rest[i] = st[i + 1]
  OBVIOUS
<1>2. /\ 1 \in DOMAIN st /\ DOMAIN rest \subseteq Nat
      /\ \A i \in DOMAIN rest : i + 1 \in DOMAIN st /\ i + 1 # 1 /\ rest[i] = st[i + 1]
  BY <1>1
<1> HIDE DEF rest
<1>3. NoneIn(st, K) => NoneIn(rest, K)
  BY <1>2 DEF NoneIn
<1>4. OneIn(st, K) => OneIn(rest, K)
  <2> SUFFICES ASSUME OneIn(st, K), NEW i \in DOMAIN rest, NEW j \in DOMAIN rest,
                      rest[i] \in K, rest[j] \in K
               PROVE  i = j
    BY DEF OneIn
  <2>1. i + 1 = j + 1
    BY <1>2 DEF OneIn
  <2> QED
    BY <1>2, <2>1
<1>5. Head(st) \in K => ~NoneIn(st, K) /\ (OneIn(st, K) => NoneIn(rest, K))
  BY <1>1, <1>2 DEF NoneIn, OneIn
<1> QED
  BY <1>1, <1>3, <1>4, <1>5 DEF rest

(* rest has no more of the two than the calls that are under way.          *)
Fewer(rest) ==
    /\ rest \in Seq(Calls)
    /\ \A K \in {Exits, Taps} : /\ NoneIn(calls, K) => NoneIn(rest, K)
                                /\ OneIn(calls, K) => OneIn(rest, K)
Plain(f) == f \in Calls /\ f \notin Exits /\ f \notin Taps

LEMMA PushPlain ==
  ASSUME NEW rest, Fewer(rest), NEW f, Plain(f)
  PROVE  Fewer(<<f>> \o rest)
BY PushCall DEF Fewer, Plain

LEMMA PlainCalls ==
  /\ \A at \in Telled, t \in Elements : Telling(at, t) \in Calls /\ Telling(at, t) \notin Taps
  /\ \A at \in Telled \ {"exited"}, t \in Elements : Plain(Telling(at, t))
  /\ \A t \in Elements : Main(TRUE, t) \in Calls /\ Main(TRUE, t) \notin Exits
  /\ \A e \in BOOLEAN : Plain(Main(e, None))
  /\ \A t \in Elements, h \in {"saved", "tree"} : Plain(Lost(t, h))
  /\ \A p, n \in Panels : Plain(Attaching(p, n))
  /\ \A l \in Lists, r \in Roots : Plain(Reporting(l, r))
  /\ \A t, p \in Elements : Plain(Reported(t, p))
<1>1. /\ \A at \in Telled, t \in Elements : Telling(at, t) \in Calls /\ Telling(at, t) \notin Taps
      /\ \A at \in Telled \ {"exited"}, t \in Elements : Plain(Telling(at, t))
  BY DEF Telling, Telled, Calls, Taps, Exits, Plain
<1>2. /\ \A t \in Elements : Main(TRUE, t) \in Calls /\ Main(TRUE, t) \notin Exits
      /\ \A e \in BOOLEAN : Plain(Main(e, None))
  <2>1. None \in Elements
    BY DEF Elements
  <2> QED
    BY <2>1 DEF Main, Calls, Taps, Exits, Plain
<1>3. \A t \in Elements, h \in {"saved", "tree"} : Plain(Lost(t, h))
  BY DEF Lost, Calls, Taps, Exits, Plain
<1>4. \A p, n \in Panels : Plain(Attaching(p, n))
  BY DEF Attaching, Calls, Taps, Exits, Plain
<1>5. \A l \in Lists, r \in Roots : Plain(Reporting(l, r))
  BY DEF Reporting, Calls, Taps, Exits, Plain
<1>6. \A t, p \in Elements : Plain(Reported(t, p))
  BY DEF Reported, Calls, Taps, Exits, Plain
<1> QED
  BY <1>1, <1>2, <1>3, <1>4, <1>5, <1>6

LEMMA CallFields ==
  ASSUME NEW f \in Calls
  PROVE  /\ f.at \in Telled \cup {"main", "lost", "reported"} => f.of \in Elements
         /\ f.at = "main" => f.ended \in BOOLEAN /\ (f.of # None => f.ended)
         /\ f.at = "attach" => f.prev \in Panels /\ f.new \in Panels
         /\ f.at = "report" => f.list \in Lists /\ f.from \in Roots
         /\ f.at = "reported" => f.prev \in Elements
BY DEF Calls, Telled, Elements

-----------------------------------------------------------------------------
(* Steps that leave the hover, or the taps, alone.                         *)
LEMMA HoverKept ==
  ASSUME HoverInv, Fewer(calls'), crossed => crossed', UNCHANGED <<hoverVars, root, place>>
  PROVE  HoverInv'
<1>1. Hosted' = Hosted /\ Outstanding' = Outstanding /\ hover' = hover
  BY DEF Hosted, TargetBelongsToRoot, Outstanding, hoverVars
<1>2. /\ NoneIn(calls, Exits) => NoneIn(calls', Exits)
      /\ OneIn(calls, Exits) => OneIn(calls', Exits)
  BY DEF Fewer
<1> QED
  BY <1>1, <1>2 DEF HoverInv

LEMMA TapKept ==
  ASSUME TapInv, Fewer(calls'), crossed => crossed', UNCHANGED answers,
         Armed(candidate') => Armed(candidate)
  PROVE  TapInv'
<1>1. /\ NoneIn(calls, Taps) => NoneIn(calls', Taps)
      /\ OneIn(calls, Taps) => OneIn(calls', Taps)
  BY DEF Fewer
<1>2. Armed(candidate)' => Armed(candidate)
  BY DEF Armed
<1> QED
  BY <1>1, <1>2 DEF TapInv

(* The hover goes on to t, or is over for None; at is what is raised.      *)
LEMMA HoverMoved ==
  ASSUME HoverInv, UNCHANGED <<root, place>>, crossed => crossed',
         NEW rest, calls' = rest, Fewer(rest), ~crossed' => NoneIn(rest, Exits),
         \/ TellExited(hover)
         \/ hover \notin Hosted /\ UNCHANGED <<inside, excused>>
  PROVE  HoverInv' /\ (~crossed' => Outstanding' = {})
<1>1. Hosted' = Hosted
  BY DEF Hosted, TargetBelongsToRoot
<1>2. CASE TellExited(hover)
  <2>1. Outstanding' = Outstanding \ {hover}
    BY <1>2 DEF TellExited, Outstanding
  <2>2. OneIn(rest, Exits) \/ crossed'
    BY DEF NoneIn, OneIn
  <2> QED
    BY <1>1, <2>1, <2>2 DEF HoverInv
<1>3. CASE hover \notin Hosted /\ UNCHANGED <<inside, excused>>
  <2>1. Outstanding' = Outstanding /\ (~crossed => Outstanding = {})
    BY <1>3 DEF HoverInv, Outstanding
  <2>2. OneIn(rest, Exits) \/ crossed'
    BY DEF NoneIn, OneIn
  <2> QED
    BY <1>1, <2>1, <2>2 DEF HoverInv
<1> QED
  BY <1>2, <1>3

LEMMA EnterStep ==
  ASSUME HoverInv, UNCHANGED <<root, place>>, crossed => crossed',
         NEW t \in Elements, NEW rest, Fewer(rest), Enter(t, rest),
         ~crossed' => NoneIn(rest, Exits) /\ Outstanding = {}
  PROVE  HoverInv' /\ Fewer(calls')
<1>1. Hosted' = Hosted
  BY DEF Hosted, TargetBelongsToRoot
<1>2. hover' = t /\ calls' = <<Telling("entered", t)>> \o rest
  BY DEF Enter
<1>3. Plain(Telling("entered", t)) /\ rest \in Seq(Calls)
  BY PlainCalls DEF Telled, Fewer
<1>4. Fewer(calls')
  BY <1>2, <1>3, PushPlain
<1>5. Outstanding' \subseteq Outstanding \cup {t} /\ Outstanding' \subseteq Hosted
  <2>1. CASE t \in Hosted
    BY <2>1 DEF Enter, TellEntered, Outstanding, HoverInv
  <2>2. CASE t \notin Hosted
    BY <2>2 DEF Enter, TellEntered, Outstanding, HoverInv
  <2> QED
    BY <2>1, <2>2
<1>6. ~crossed' => NoneIn(calls', Exits) /\ OneIn(calls', Exits)
  <2>1. NoneIn(rest, Exits) => NoneIn(calls', Exits)
    BY <1>2, <1>3, PushCall DEF Plain
  <2> QED
    BY <2>1 DEF NoneIn, OneIn
<1> QED
  BY <1>1, <1>2, <1>4, <1>5, <1>6 DEF HoverInv

(* The answers are reset, or a candidate is made, only by a press.         *)
LEMMA TapMoved ==
  ASSUME TapInv, crossed => crossed', answers' \in {0, answers},
         NoneIn(calls, Taps) => NoneIn(calls', Taps),
         OneIn(calls, Taps) => OneIn(calls', Taps),
         Armed(candidate') => Armed(candidate) \/ answers' = 0
  PROVE  TapInv'
<1>1. Armed(candidate)' => Armed(candidate) \/ answers' = 0
  BY DEF Armed
<1> QED
  BY <1>1 DEF TapInv

-----------------------------------------------------------------------------
(* A message on its way: what it is about to raise.                        *)
Sent == Messages \cup {"Canceled"}
Heard(msg, on, rest) ==
    /\ Message(msg, on, rest) /\ Fewer(rest)
    /\ UNCHANGED <<root, place>>
    /\ answers' = IF msg = "Pressed" /\ on # None THEN 0 ELSE answers
    /\ crossed => crossed'
    /\ ~crossed' => /\ msg \in Moves => NoneIn(calls, Exits)
                    /\ msg \in Releases => NoneIn(calls, Taps)

LEMMA CandidateStep ==
  ASSUME PointerType, NEW msg \in Sent, NEW on \in Elements
  PROVE  /\ CandidateAfter(msg, on) \in [of : Elements, moved : BOOLEAN]
         /\ Armed(CandidateAfter(msg, on)) =>
               (msg = "Pressed" /\ on # None) \/ CandidateAfter(msg, on) = candidate
         /\ msg = "Released" => CandidateAfter(msg, on) = candidate
         /\ NoTap \in [of : Elements, moved : BOOLEAN] /\ ~Armed(NoTap)
<1> DEFINE seen == CandidateAfter(msg, on)
<1>1. NoTap \in [of : Elements, moved : BOOLEAN] /\ ~Armed(NoTap)
  BY DEF NoTap, Armed, Elements
<1>2. candidate \in [of : Elements, moved : BOOLEAN]
  BY DEF PointerType
<1>3. CASE msg = "Pressed" /\ on # None
  BY <1>1, <1>3 DEF CandidateAfter, Armed, Releases
<1>4. CASE msg = "MovedFar" /\ candidate.of # None
  <2>1. seen = [candidate EXCEPT !.moved = TRUE]
    BY <1>4 DEF CandidateAfter, Releases
  <2>2. seen \in [of : Elements, moved : BOOLEAN] /\ ~Armed(seen)
    BY <1>2, <2>1 DEF Armed
  <2> QED
    BY <1>1, <1>4, <2>2
<1>5. CASE msg \in {"Moved"} \cup Releases
  <2>1. seen = candidate
    BY <1>5 DEF CandidateAfter, Releases
  <2> QED
    BY <1>1, <1>2, <2>1
<1>6. CASE ~(msg = "Pressed" /\ on # None) /\ ~(msg = "MovedFar" /\ candidate.of # None)
           /\ msg \notin {"Moved"} \cup Releases
  <2>1. seen = NoTap
    BY <1>6 DEF CandidateAfter
  <2> QED
    BY <1>1, <1>6, <2>1 DEF Releases
<1> QED
  BY <1>3, <1>4, <1>5, <1>6

LEMMA RouteStep ==
  ASSUME PointerType, TapInv, NEW msg \in Sent, NEW on \in Elements,
         NEW rest, Heard(msg, on, rest), UNCHANGED hoverVars,
         Route(msg, on, CandidateAfter(msg, on), rest)
  PROVE  /\ calls' \in Seq(Calls) /\ TapInv'
         /\ NoneIn(calls, Exits) => NoneIn(calls', Exits)
         /\ OneIn(calls, Exits) => OneIn(calls', Exits)
<1> DEFINE seen == CandidateAfter(msg, on)
<1>1. PICK completes \in BOOLEAN :
          /\ completes <=> msg = "Released" /\ seen.of # None /\ ~seen.moved /\ on = seen.of
          /\ calls' = <<Main(msg \in Releases, IF completes THEN on ELSE None)>> \o rest
  BY DEF Route
<1>2. candidate' = seen
  BY DEF Route
<1>3. /\ rest \in Seq(Calls)
      /\ NoneIn(calls, Exits) => NoneIn(rest, Exits)
      /\ OneIn(calls, Exits) => OneIn(rest, Exits)
      /\ NoneIn(calls, Taps) => NoneIn(rest, Taps)
      /\ OneIn(calls, Taps) => OneIn(rest, Taps)
  BY DEF Heard, Fewer
<1>4. answers' \in {0, answers} /\ (crossed => crossed')
  BY DEF Heard
<1>5. Armed(candidate') => Armed(candidate) \/ answers' = 0
  BY <1>2, CandidateStep DEF Heard
<1>6. CASE completes
  <2>1. calls' = <<Main(TRUE, on)>> \o rest
    BY <1>1, <1>6 DEF Releases
  <2>2. Main(TRUE, on) \in Calls /\ Main(TRUE, on) \notin Exits
    BY PlainCalls
  <2>3. msg = "Released" /\ seen = candidate /\ Armed(candidate)
    BY <1>1, <1>6, CandidateStep DEF Armed
  <2>4. ~crossed' => NoneIn(rest, Taps)
    BY <1>3, <2>3 DEF Heard, Releases
  <2>5. calls' \in Seq(Calls) /\ (NoneIn(rest, Taps) => OneIn(calls', Taps))
    BY <1>3, <2>1, <2>2, PushCall
  <2>6. answers' = answers
    BY <2>3 DEF Heard
  <2>7. ~crossed' => answers' = 0 /\ OneIn(calls', Taps)
    BY <1>4, <2>3, <2>4, <2>5, <2>6 DEF TapInv
  <2>8. TapInv'
    BY <2>7 DEF TapInv
  <2>9. /\ NoneIn(rest, Exits) => NoneIn(calls', Exits)
        /\ OneIn(rest, Exits) => OneIn(calls', Exits)
    BY <1>3, <2>1, <2>2, PushCall
  <2> QED
    BY <1>3, <2>5, <2>8, <2>9
<1>7. CASE ~completes
  <2>1. PICK e \in BOOLEAN : calls' = <<Main(e, None)>> \o rest
    <3>1. CASE msg \in Releases
      <4>1. (msg \in Releases) = TRUE
        BY <3>1
      <4> QED
        BY <1>1, <1>7, <4>1
    <3>2. CASE msg \notin Releases
      <4>1. (msg \in Releases) = FALSE
        BY <3>2
      <4> QED
        BY <1>1, <1>7, <4>1
    <3> QED
      BY <3>1, <3>2
  <2>2. Plain(Main(e, None))
    BY PlainCalls
  <2>3. /\ calls' \in Seq(Calls)
        /\ NoneIn(rest, Exits) => NoneIn(calls', Exits)
        /\ OneIn(rest, Exits) => OneIn(calls', Exits)
    BY <1>3, <2>1, <2>2, PushCall DEF Plain
  <2>4. /\ NoneIn(rest, Taps) => NoneIn(calls', Taps)
        /\ OneIn(rest, Taps) => OneIn(calls', Taps)
    BY <1>3, <2>1, <2>2, PushCall DEF Plain
  <2>5. TapInv'
    BY <1>3, <1>4, <1>5, <2>4, TapMoved
  <2> QED
    BY <1>3, <2>3, <2>5
<1> QED
  BY <1>6, <1>7

LEMMA MessageStep ==
  ASSUME PointerInv, NEW msg \in Sent, NEW on \in Elements, NEW rest, Heard(msg, on, rest)
  PROVE  /\ HoverInv' /\ TapInv'
         /\ hover' \in Elements /\ candidate' \in [of : Elements, moved : BOOLEAN]
         /\ answers' \in Nat /\ calls' \in Seq(Calls) /\ lastTap' = lastTap
<1> DEFINE to     == RoutedTo(on)
           seen   == CandidateAfter(msg, on)
           hovers == msg \in Moves /\ capture = None
<1>1. PointerType /\ HoverInv /\ TapInv
  BY DEF PointerInv
<1>2. to \in Elements /\ hover \in Elements /\ None \in Elements /\ None \notin Hosted
  BY <1>1, NoneAssumption DEF RoutedTo, PointerType, Elements, Hosted
<1>3. /\ Fewer(rest) /\ rest \in Seq(Calls) /\ UNCHANGED <<root, place>>
      /\ answers' \in {0, answers} /\ (crossed => crossed')
      /\ answers' \in Nat /\ lastTap' = lastTap
  BY <1>1 DEF Heard, Fewer, PointerType, Message
<1>4. hovers => (~crossed' => NoneIn(rest, Exits))
  BY DEF Heard, Fewer
<1>5. /\ seen \in [of : Elements, moved : BOOLEAN] /\ NoTap \in [of : Elements, moved : BOOLEAN]
      /\ Armed(seen) => Armed(candidate) \/ answers' = 0
      /\ ~Armed(NoTap)
  BY <1>1, CandidateStep DEF Heard
<1>6. ASSUME candidate' \in {seen, NoTap}, calls' \in Seq(Calls),
             NoneIn(calls, Taps) => NoneIn(calls', Taps),
             OneIn(calls, Taps) => OneIn(calls', Taps)
      PROVE  TapInv' /\ candidate' \in [of : Elements, moved : BOOLEAN]
  BY <1>1, <1>3, <1>5, <1>6, TapMoved
<1>a. CASE to = None /\ hovers /\ hover \in Hosted /\ LeaveHover(rest) /\ candidate' = seen
  <2>1. TellExited(hover) /\ hover' = None /\ calls' = <<Telling("left", hover)>> \o rest
    BY <1>a DEF LeaveHover
  <2>2. Plain(Telling("left", hover))
    BY <1>2, PlainCalls DEF Telled
  <2>3. Fewer(calls')
    BY <1>3, <2>1, <2>2, PushPlain
  <2>4. NoneIn(rest, Exits) => NoneIn(calls', Exits)
    BY <1>3, <2>1, <2>2, PushCall DEF Plain
  <2>5. HoverInv'
    BY <1>1, <1>3, <1>4, <1>a, <2>1, <2>3, <2>4, HoverMoved
  <2>6. TapInv' /\ candidate' \in [of : Elements, moved : BOOLEAN]
    BY <1>6, <1>a, <2>3 DEF Fewer
  <2> QED
    BY <1>2, <1>3, <2>1, <2>3, <2>5, <2>6 DEF Fewer
<1>b. CASE /\ to = None /\ ~(hovers /\ hover \in Hosted)
           /\ hover' = IF hovers THEN None ELSE hover
           /\ candidate' = CandidateLeft(msg \in Releases, seen)
           /\ calls' = rest /\ UNCHANGED <<releasing, inside, excused>>
  <2>1. candidate' \in {seen, NoTap}
    BY <1>b DEF CandidateLeft
  <2>2. HoverInv'
    <3>1. CASE hovers
      BY <1>1, <1>3, <1>4, <1>b, <3>1, HoverMoved
    <3>2. CASE ~hovers
      BY <1>1, <1>3, <1>b, <3>2, HoverKept DEF hoverVars
    <3> QED
      BY <3>1, <3>2
  <2>3. TapInv' /\ candidate' \in [of : Elements, moved : BOOLEAN]
    BY <1>3, <1>6, <1>b, <2>1 DEF Fewer
  <2> QED
    BY <1>2, <1>3, <1>b, <2>2, <2>3
<1>c. CASE /\ to # None /\ hovers /\ hover # to /\ hover \in Hosted
           /\ TellExited(hover)
           /\ calls' = <<Telling("exited", to)>> \o rest
           /\ candidate' = seen /\ UNCHANGED <<hover, releasing>>
  <2>1. Telling("exited", to) \in Calls /\ Telling("exited", to) \notin Taps
    BY <1>2, PlainCalls DEF Telled
  <2>2. /\ calls' \in Seq(Calls)
        /\ NoneIn(rest, Exits) => OneIn(calls', Exits)
        /\ NoneIn(rest, Taps) => NoneIn(calls', Taps)
        /\ OneIn(rest, Taps) => OneIn(calls', Taps)
    BY <1>3, <1>c, <2>1, PushCall
  <2>3. Outstanding' = Outstanding \ {hover} /\ Hosted' = Hosted /\ hover' = hover
    BY <1>3, <1>c DEF TellExited, Outstanding, Hosted, TargetBelongsToRoot
  <2>4. HoverInv'
    BY <1>1, <1>3, <1>4, <1>c, <2>2, <2>3 DEF HoverInv
  <2>5. TapInv' /\ candidate' \in [of : Elements, moved : BOOLEAN]
    BY <1>3, <1>6, <1>c, <2>2 DEF Fewer
  <2> QED
    BY <1>2, <1>3, <2>2, <2>3, <2>4, <2>5
<1>d. CASE to # None /\ hovers /\ hover \notin Hosted /\ Enter(to, rest) /\ candidate' = seen
  <2>1. ~crossed' => NoneIn(rest, Exits) /\ Outstanding = {}
    BY <1>1, <1>3, <1>4, <1>d DEF HoverInv
  <2>2. HoverInv' /\ Fewer(calls')
    BY <1>1, <1>2, <1>3, <1>d, <2>1, EnterStep
  <2>3. TapInv' /\ candidate' \in [of : Elements, moved : BOOLEAN]
    BY <1>6, <1>d, <2>2 DEF Fewer
  <2> QED
    BY <1>2, <1>3, <1>d, <2>2, <2>3 DEF Fewer, Enter
<1>e. CASE Route(msg, on, seen, rest) /\ UNCHANGED hoverVars
  <2>1. /\ calls' \in Seq(Calls) /\ TapInv'
        /\ NoneIn(calls, Exits) => NoneIn(calls', Exits)
        /\ OneIn(calls, Exits) => OneIn(calls', Exits)
    BY <1>1, <1>e, RouteStep
  <2>2. candidate' = seen
    BY <1>e DEF Route
  <2>3. Hosted' = Hosted /\ Outstanding' = Outstanding /\ hover' = hover
    BY <1>3, <1>e DEF Hosted, TargetBelongsToRoot, Outstanding, hoverVars
  <2>4. HoverInv'
    BY <1>1, <1>3, <2>1, <2>3 DEF HoverInv
  <2> QED
    BY <1>2, <1>3, <1>5, <2>1, <2>2, <2>3, <2>4
<1>f. \/ to = None /\ hovers /\ hover \in Hosted /\ LeaveHover(rest) /\ candidate' = seen
      \/ /\ to = None /\ ~(hovers /\ hover \in Hosted)
         /\ hover' = IF hovers THEN None ELSE hover
         /\ candidate' = CandidateLeft(msg \in Releases, seen)
         /\ calls' = rest /\ UNCHANGED <<releasing, inside, excused>>
      \/ /\ to # None /\ hovers /\ hover # to /\ hover \in Hosted
         /\ TellExited(hover)
         /\ calls' = <<Telling("exited", to)>> \o rest
         /\ candidate' = seen /\ UNCHANGED <<hover, releasing>>
      \/ to # None /\ hovers /\ hover \notin Hosted /\ Enter(to, rest) /\ candidate' = seen
      \/ Route(msg, on, seen, rest) /\ UNCHANGED hoverVars
  <2>1. Message(msg, on, rest)
    BY DEF Heard
  <2>2. CASE to = None
    BY <2>1, <2>2 DEF Message
  <2>3. CASE to # None /\ hovers /\ hover # to
    BY <2>1, <2>3 DEF Message
  <2>4. CASE to # None /\ ~(hovers /\ hover # to)
    BY <2>1, <2>4 DEF Message
  <2> QED
    BY <2>2, <2>3, <2>4
<1> QED
  BY <1>a, <1>b, <1>c, <1>d, <1>e, <1>f

-----------------------------------------------------------------------------
(* The handlers of a route, and of a tap, have run.                        *)
LEMMA AfterMainStep ==
  ASSUME PointerInv, calls # <<>>, Head(calls).at = "main",
         AfterMain(Head(calls), Tail(calls)), UNCHANGED <<root, place, crossed, captureVars>>
  PROVE  PointerInv'
<1> DEFINE f == Head(calls)  rest == Tail(calls)
<1>1. PointerType /\ HoverInv /\ TapInv
  BY DEF PointerInv
<1>2. /\ f \in Calls /\ rest \in Seq(Calls) /\ Fewer(rest)
      /\ f \in Taps => ~NoneIn(calls, Taps) /\ (OneIn(calls, Taps) => NoneIn(rest, Taps))
  BY <1>1, PopCall DEF PointerType, Fewer
<1>3. f.of \in Elements /\ f.ended \in BOOLEAN /\ (f.of # None => f.ended)
  BY <1>2, CallFields
<1>4. candidate \in [of : Elements, moved : BOOLEAN] /\ NoTap \in [of : Elements, moved : BOOLEAN]
      /\ ~Armed(NoTap) /\ answers \in Nat
  BY <1>1 DEF PointerType, NoTap, Elements, Armed
<1>5. candidate' \in {candidate, NoTap} /\ (f.ended => candidate' = NoTap)
      /\ UNCHANGED <<lastTap, hoverVars>>
  BY DEF AfterMain, CandidateLeft
<1>6. CASE f.of \in Hosted
  <2>1. /\ calls' = <<Telling("tapped", f.of)>> \o rest
        /\ answers' = IF answers < 2 THEN answers + 1 ELSE answers
    BY <1>6 DEF AfterMain
  <2>2. f \in Taps /\ f.ended
    BY <1>2, <1>3, <1>6, NoneAssumption DEF Taps, Hosted
  <2>3. Plain(Telling("tapped", f.of))
    BY <1>3, PlainCalls DEF Telled
  <2>4. Fewer(calls') /\ (NoneIn(rest, Taps) => NoneIn(calls', Taps))
    BY <1>2, <2>1, <2>3, PushPlain, PushCall DEF Plain
  <2>5. ~crossed => answers = 0 /\ NoneIn(calls', Taps)
    BY <1>1, <1>2, <2>2, <2>4 DEF TapInv
  <2>6. ~crossed' => answers' = 1 /\ NoneIn(calls', Taps) /\ OneIn(calls', Taps)
    BY <2>1, <2>5 DEF NoneIn, OneIn
  <2>7. ~Armed(candidate)'
    BY <1>4, <1>5, <2>2 DEF Armed
  <2>8. TapInv'
    BY <2>6, <2>7 DEF TapInv
  <2>9. HoverInv'
    BY <1>1, <1>5, <2>4, HoverKept
  <2>10. answers' \in Nat
    BY <1>4, <2>1
  <2> QED
    BY <1>1, <1>4, <1>5, <2>4, <2>8, <2>9, <2>10 DEF PointerInv, PointerType, hoverVars, captureVars, Fewer
<1>7. CASE f.of \notin Hosted
  <2>1. calls' = rest /\ answers' = answers
    BY <1>7 DEF AfterMain
  <2>2. Armed(candidate') => Armed(candidate)
    BY <1>4, <1>5
  <2>3. HoverInv' /\ TapInv'
    BY <1>1, <1>2, <1>5, <2>1, <2>2, HoverKept, TapKept
  <2> QED
    BY <1>1, <1>2, <1>4, <1>5, <2>1, <2>3 DEF PointerInv, PointerType, hoverVars, captureVars
<1> QED
  BY <1>6, <1>7

(* A step that leaves the hover alone, presses nothing and raises nothing  *)
(* but what Plain allows.                                                  *)
LEMMA QuietStep ==
  ASSUME PointerInv, Fewer(calls'), UNCHANGED <<root, place, hoverVars, answers, crossed>>,
         candidate' \in {candidate, NoTap},
         {lastTap', capture', lostTarget'} \subseteq Elements
  PROVE  PointerInv'
<1>1. PointerType /\ HoverInv /\ TapInv
  BY DEF PointerInv
<1>2. NoTap \in [of : Elements, moved : BOOLEAN] /\ ~Armed(NoTap)
  BY DEF NoTap, Elements, Armed
<1>3. Armed(candidate') => Armed(candidate)
  BY <1>2
<1>4. HoverInv' /\ TapInv'
  BY <1>1, <1>3, HoverKept, TapKept
<1>5. PointerType'
  BY <1>1, <1>2 DEF PointerType, Fewer, hoverVars
<1> QED
  BY <1>4, <1>5 DEF PointerInv

LEMMA ReleaseStep ==
  ASSUME PointerInv, NEW rest, Fewer(rest), ClearPointerCapture(rest),
         UNCHANGED <<root, place, hoverVars, lostTarget, crossed>>
  PROVE  PointerInv'
<1>1. None \in Elements /\ capture \in Elements /\ lostTarget \in Elements /\ lastTap \in Elements
  BY DEF PointerInv, PointerType, Elements
<1>2. Reached \in Elements
  BY <1>1 DEF Reached
<1>3. Fewer(calls')
  <2>1. CASE Reached = None
    BY <2>1 DEF ClearPointerCapture
  <2>2. CASE Reached # None
    <3>1. PICK how \in {"saved", "tree"} : calls' = <<Lost(Reached, how)>> \o rest
      BY <2>2 DEF ClearPointerCapture
    <3>2. Plain(Lost(Reached, how))
      BY <1>2, PlainCalls
    <3> QED
      BY <3>1, <3>2, PushPlain
  <2> QED
    BY <2>1, <2>2
<1>4. capture' = None /\ candidate' \in {candidate, NoTap} /\ UNCHANGED <<lastTap, answers>>
  BY DEF ClearPointerCapture
<1> QED
  BY <1>1, <1>3, <1>4, QuietStep

LEMMA CommitStep ==
  ASSUME PointerInv, NEW prev \in Panels, NEW new \in Panels, NEW rest, Fewer(rest),
         CommitHosted(prev, new, rest), UNCHANGED <<place, captureVars, crossed>>
  PROVE  PointerInv'
<1>1. PointerType /\ HoverInv /\ TapInv
  BY DEF PointerInv
<1>2. calls' = rest /\ Fewer(calls')
  BY DEF CommitHosted
<1>3. UNCHANGED <<capture, lostTarget>>
  BY DEF captureVars
<1>4. CASE root = prev
  <2>1. /\ root' = new /\ hover' = None /\ candidate' = NoTap /\ lastTap' = None
        /\ excused' = inside /\ inside' = inside /\ answers' = answers
    BY <1>4 DEF CommitHosted
  <2>2. NoTap \in [of : Elements, moved : BOOLEAN] /\ ~Armed(NoTap) /\ None \in Elements
    BY DEF NoTap, Elements, Armed
  <2>3. TapInv'
    BY <1>1, <1>2, <2>1, <2>2, TapKept
  <2>4. Outstanding' = {} /\ (OneIn(calls, Exits) => OneIn(calls', Exits))
    BY <1>2, <2>1 DEF Outstanding, Fewer
  <2>5. HoverInv'
    BY <1>1, <2>4 DEF HoverInv
  <2>6. PointerType'
    BY <1>1, <1>2, <1>3, <2>1, <2>2 DEF PointerType, Fewer
  <2> QED
    BY <2>3, <2>5, <2>6 DEF PointerInv
<1>5. CASE root # prev
  <2>1. UNCHANGED <<root, hoverVars, tapVars>>
    BY <1>5 DEF CommitHosted
  <2> QED
    BY <1>1, <1>2, <1>3, <2>1, QuietStep DEF tapVars, PointerType
<1> QED
  BY <1>4, <1>5

-----------------------------------------------------------------------------
(* The tree of the elements.                                               *)
LEMMA TakeStep ==
  ASSUME PointerInv, NEW list \in Lists, NEW r \in Roots, Take(list, r)
  PROVE  PointerInv'
<1> DEFINE taken == {t \in Targets : Prepared(list, t)}
<1>1. PointerType /\ HoverInv /\ TapInv
  BY DEF PointerInv
<1>2. /\ place' = [t \in Targets |-> IF Prepared(list, t) THEN None ELSE place[t]]
      /\ \A t : Prepared(list, t) => place[t] = r
      /\ root' = root /\ r # None
      /\ UNCHANGED <<hover, inside, answers, capture, lostTarget, crossed>>
  BY NoneAssumption DEF Take, Prepared
<1>3. place' \in [Targets -> Panels]
  BY <1>1, <1>2 DEF PointerType, Panels
<1>4. Hosted' = Hosted \ taken
  BY <1>2, <1>3 DEF Hosted, TargetBelongsToRoot
<1>5. NoTap \in [of : Elements, moved : BOOLEAN] /\ ~Armed(NoTap) /\ None \in Elements
  BY DEF NoTap, Elements, Armed
<1>6. CASE root = r
  <2>1. /\ candidate' \in {candidate, NoTap} /\ lastTap' \in {lastTap, None}
        /\ excused' = excused \cup (inside \cap taken)
        /\ calls' = <<Reporting(list, r)>> \o calls
    BY <1>6 DEF Take
  <2>2. Plain(Reporting(list, r))
    BY PlainCalls
  <2>3. Fewer(calls)
    BY <1>1 DEF Fewer, PointerType
  <2>4. Fewer(calls')
    BY <2>1, <2>2, <2>3, PushPlain
  <2>5. Outstanding' = Outstanding \ taken
    BY <1>2, <2>1 DEF Outstanding
  <2>6. /\ NoneIn(calls, Exits) => NoneIn(calls', Exits)
        /\ OneIn(calls, Exits) => OneIn(calls', Exits)
    BY <2>4 DEF Fewer
  <2>7. HoverInv'
    BY <1>1, <1>2, <1>4, <2>5, <2>6 DEF HoverInv
  <2>8. TapInv'
    BY <1>1, <1>2, <1>5, <2>1, <2>4, TapKept
  <2>9. PointerType'
    BY <1>1, <1>2, <1>3, <1>5, <2>1, <2>4 DEF PointerType, Fewer
  <2> QED
    BY <2>7, <2>8, <2>9 DEF PointerInv
<1>7. CASE root # r
  <2>1. UNCHANGED <<candidate, lastTap, excused, calls>>
    BY <1>7 DEF Take
  <2>2. Outstanding' = Outstanding /\ Hosted' = Hosted
    BY <1>2, <1>4, <1>7, <2>1 DEF Outstanding, Hosted, TargetBelongsToRoot
  <2>3. HoverInv'
    BY <1>1, <1>2, <2>1, <2>2 DEF HoverInv
  <2>4. TapInv'
    BY <1>1, <1>2, <2>1 DEF TapInv, Armed
  <2>5. PointerType'
    BY <1>1, <1>2, <1>3, <2>1 DEF PointerType
  <2> QED
    BY <2>3, <2>4, <2>5 DEF PointerInv
<1> QED
  BY <1>6, <1>7

LEMMA PutStep ==
  ASSUME PointerInv, NEW t \in Targets, NEW r \in Roots, Put(t, r)
  PROVE  PointerInv'
<1>1. PointerType /\ HoverInv /\ TapInv
  BY DEF PointerInv
<1>2. /\ place[t] = None /\ place' = [place EXCEPT ![t] = r] /\ root' = root
      /\ UNCHANGED <<hover, inside, excused, candidate, lastTap, answers, capture, lostTarget,
                     calls, crossed>>
  BY DEF Put, pointerVars, tapVars, hoverVars, captureVars
<1>3. place' \in [Targets -> Panels]
  BY <1>1, <1>2 DEF PointerType, Panels
<1>4. Hosted \subseteq Hosted'
  BY <1>1, <1>2 DEF Hosted, TargetBelongsToRoot, PointerType
<1>5. Outstanding' = Outstanding
  BY <1>2 DEF Outstanding
<1>6. HoverInv'
  BY <1>1, <1>2, <1>4, <1>5 DEF HoverInv
<1>7. TapInv'
  BY <1>1, <1>2 DEF TapInv, Armed
<1>8. PointerType'
  BY <1>1, <1>2, <1>3 DEF PointerType
<1> QED
  BY <1>6, <1>7, <1>8 DEF PointerInv

LEMMA DetachedStep ==
  ASSUME PointerInv, calls # <<>>, Head(calls).at = "report",
         NotifyDetached(Head(calls), Tail(calls)),
         UNCHANGED <<vars, tapVars, hoverVars, capture, crossed>>
  PROVE  PointerInv'
<1> DEFINE f == Head(calls)  rest == Tail(calls)  t == Head(f.list)
<1>1. PointerType
  BY DEF PointerInv
<1>2. f \in Calls /\ Fewer(rest)
  BY <1>1, PopCall DEF PointerType, Fewer
<1>3. f.list \in Lists /\ f.from \in Roots
  BY <1>2, CallFields
<1>4. /\ t \in Elements /\ lostTarget \in Elements
      /\ Len(f.list) # 1 => Tail(f.list) \in Lists
  BY <1>1, <1>3, ListParts DEF IsLast, Elements, PointerType
<1>5. PICK others : /\ Fewer(others)
                    /\ calls' \in {others, <<Telling("release", t), Reported(t, lostTarget)>> \o others}
                    /\ lostTarget' \in {t, lostTarget}
  <2> DEFINE o == IF Len(f.list) = 1 THEN rest
                  ELSE <<Reporting(Tail(f.list), f.from)>> \o rest
  <2>1. Fewer(o)
    <3>1. CASE Len(f.list) = 1
      BY <1>2, <3>1
    <3>2. CASE Len(f.list) # 1
      <4>1. Plain(Reporting(Tail(f.list), f.from))
        BY <1>3, <1>4, <3>2, PlainCalls
      <4> QED
        BY <1>2, <3>2, <4>1, PushPlain
    <3> QED
      BY <3>1, <3>2
  <2>2. /\ calls' \in {o, <<Telling("release", t), Reported(t, lostTarget)>> \o o}
        /\ lostTarget' \in {t, lostTarget}
    BY DEF NotifyDetached
  <2> QED
    BY <2>1, <2>2
<1>6. Fewer(calls')
  <2>1. Plain(Telling("release", t)) /\ Plain(Reported(t, lostTarget))
    BY <1>4, PlainCalls DEF Telled
  <2>2. Fewer(<<Telling("release", t)>> \o (<<Reported(t, lostTarget)>> \o others))
    <3>1. Fewer(<<Reported(t, lostTarget)>> \o others)
      BY <1>5, <2>1, PushPlain
    <3> QED
      BY <2>1, <3>1, PushPlain
  <2>3. <<Telling("release", t), Reported(t, lostTarget)>> \o others
          = <<Telling("release", t)>> \o (<<Reported(t, lostTarget)>> \o others)
    <3>1. others \in Seq(Calls)
      BY <1>5 DEF Fewer
    <3>2. Telling("release", t) \in Calls /\ Reported(t, lostTarget) \in Calls
      BY <2>1 DEF Plain
    <3> HIDE DEF t
    <3> QED
      BY <3>1, <3>2
  <2> QED
    BY <1>5, <2>2, <2>3
<1>7. UNCHANGED <<root, place, candidate, lastTap, answers>>
  BY DEF vars, tapVars
<1> QED
  BY <1>1, <1>4, <1>5, <1>6, <1>7, QuietStep DEF PointerType

-----------------------------------------------------------------------------
LEMMA HeardStep ==
  ASSUME PointerInv, NEW msg \in Sent, NEW on \in Elements, NEW rest, Heard(msg, on, rest),
         UNCHANGED captureVars
  PROVE  PointerInv'
<1>1. PointerType
  BY DEF PointerInv
<1>2. HoverInv' /\ TapInv'
  BY MessageStep
<1>3. /\ hover' \in Elements /\ candidate' \in [of : Elements, moved : BOOLEAN]
      /\ answers' \in Nat /\ calls' \in Seq(Calls) /\ lastTap' = lastTap
  BY MessageStep
<1>4. UNCHANGED <<root, place, capture, lostTarget>>
  BY DEF Heard, captureVars
<1>5. PointerType'
  BY <1>1, <1>3, <1>4 DEF PointerType
<1> QED
  BY <1>2, <1>5 DEF PointerInv

LEMMA AllCalls ==
  ASSUME PointerInv
  PROVE  /\ Fewer(calls) /\ None \in Elements /\ Targets \subseteq Elements
         /\ {hover, lastTap, capture, lostTarget} \subseteq Elements
BY DEF PointerInv, PointerType, Fewer, Elements

LEMMA OnPointerStep ==
  ASSUME PointerInv, NEW msg \in Messages, NEW on \in Elements, OnIslandPointer(msg, on)
  PROVE  PointerInv'
<1>1. ~crossed' => /\ ~crossed
                   /\ msg \in Moves => Within({"exited"}) = {}
                   /\ msg \in Releases => Within({"main"}) = {}
  BY DEF OnIslandPointer
<1>2. Within({"exited"}) = {} => NoneIn(calls, Exits)
  BY DEF Within, NoneIn, Exits
<1>3. Within({"main"}) = {} => NoneIn(calls, Taps)
  BY DEF Within, NoneIn, Taps
<1>4. Heard(msg, on, calls) /\ UNCHANGED captureVars
  BY <1>1, <1>2, <1>3, AllCalls DEF OnIslandPointer, Heard, vars
<1> QED
  BY <1>4, HeardStep DEF Sent

LEMMA CanceledStep ==
  ASSUME PointerInv, PointerCanceled
  PROVE  PointerInv'
<1>1. PICK on \in Elements : Message("Canceled", on, <<Telling("canceled", None)>> \o calls)
  BY DEF PointerCanceled, Hosted, Elements
<1>2. Fewer(<<Telling("canceled", None)>> \o calls)
  <2>1. Plain(Telling("canceled", None))
    BY AllCalls, PlainCalls DEF Telled
  <2> QED
    BY <2>1, AllCalls, PushPlain
<1>3. UNCHANGED <<root, place, answers, captureVars, crossed>>
  BY DEF PointerCanceled, vars
<1>4. Heard("Canceled", on, <<Telling("canceled", None)>> \o calls)
  BY <1>1, <1>2, <1>3 DEF Heard, Moves, Releases
<1> QED
  BY <1>3, <1>4, HeardStep DEF Sent

LEMMA CaptureStep ==
  ASSUME PointerInv, NEW t \in Targets, CapturePointer(t)
  PROVE  PointerInv'
<1>1. UNCHANGED <<root, place, hoverVars, lostTarget, crossed>>
  BY DEF CapturePointer, vars
<1>2. CASE Captured(t, calls)
  <2>1. capture' \in {t, capture} /\ calls' = calls /\ UNCHANGED <<candidate, lastTap, answers>>
    BY <1>2 DEF Captured, tapVars
  <2> QED
    BY <1>1, <2>1, AllCalls, QuietStep
<1>3. CASE ClearPointerCapture(<<Telling("capture", t)>> \o calls)
  <2>1. Plain(Telling("capture", t))
    BY AllCalls, PlainCalls DEF Telled
  <2>2. Fewer(<<Telling("capture", t)>> \o calls)
    BY <2>1, AllCalls, PushPlain
  <2> QED
    BY <1>1, <1>3, <2>2, ReleaseStep
<1> QED
  BY <1>2, <1>3 DEF CapturePointer

LEMMA HostStep ==
  ASSUME PointerInv, NEW r \in Panels, HostRoot(r)
  PROVE  PointerInv'
<1>1. root \in Panels
  BY DEF PointerInv, PointerType
<1>2. UNCHANGED <<place, lostTarget, crossed>>
  BY DEF HostRoot
<1>3. CASE CommitHosted(root, r, calls) /\ UNCHANGED capture
  <2>1. UNCHANGED captureVars
    BY <1>3 DEF HostRoot, captureVars
  <2> QED
    BY <1>1, <1>2, <1>3, <2>1, AllCalls, CommitStep
<1>4. CASE ClearPointerCapture(<<Attaching(root, r)>> \o calls) /\ UNCHANGED <<root, hoverVars>>
  <2>1. Plain(Attaching(root, r))
    BY <1>1, PlainCalls
  <2>2. Fewer(<<Attaching(root, r)>> \o calls)
    BY <2>1, AllCalls, PushPlain
  <2> QED
    BY <1>2, <1>4, <2>2, ReleaseStep
<1> QED
  BY <1>3, <1>4 DEF HostRoot

-----------------------------------------------------------------------------
LEMMA ResumeStep ==
  ASSUME PointerInv, Resume
  PROVE  PointerInv'
<1> DEFINE f == Head(calls)  rest == Tail(calls)
<1>1. PointerType /\ HoverInv /\ TapInv /\ calls # <<>>
  BY DEF PointerInv, Resume
<1>2. /\ f \in Calls /\ rest \in Seq(Calls) /\ Fewer(rest)
      /\ f \in Exits => ~NoneIn(calls, Exits) /\ (OneIn(calls, Exits) => NoneIn(rest, Exits))
  BY <1>1, PopCall DEF PointerType, Fewer
<1>3. /\ f.at \in Telled \cup {"main", "lost", "reported"} => f.of \in Elements
      /\ f.at = "attach" => f.prev \in Panels /\ f.new \in Panels
      /\ f.at = "reported" => f.prev \in Elements
  BY <1>2, CallFields
<1>4. crossed' = crossed
  BY DEF Resume
<1>5. {hover, lastTap, capture, lostTarget} \subseteq Elements /\ None \in Elements
  BY AllCalls
<1>a. CASE f.at = "exited" /\ Enter(f.of, rest) /\ UNCHANGED <<tapVars, vars, captureVars>>
  <2>1. f.of \in Elements
    BY <1>3, <1>a DEF Telled
  <2>2. f \in Exits
    BY <1>2, <1>a DEF Exits
  <2>3. ~crossed' => NoneIn(rest, Exits) /\ Outstanding = {}
    BY <1>1, <1>2, <1>4, <2>2 DEF HoverInv
  <2>4. UNCHANGED <<root, place, candidate, lastTap, answers, capture, lostTarget>>
    BY <1>a DEF vars, tapVars, captureVars
  <2>5. HoverInv' /\ Fewer(calls')
    BY <1>1, <1>2, <1>4, <1>a, <2>1, <2>3, <2>4, EnterStep
  <2>6. TapInv'
    BY <1>1, <1>4, <2>4, <2>5, TapKept
  <2>7. hover' \in Elements
    BY <1>a, <2>1 DEF Enter
  <2> QED
    BY <1>1, <2>4, <2>5, <2>6, <2>7 DEF PointerInv, PointerType, Fewer
<1>b. CASE f.at = "entered" /\ Route("Moved", None, candidate, rest)
           /\ UNCHANGED <<lastTap, answers, hoverVars, vars, captureVars>>
  <2>1. PICK e \in BOOLEAN : calls' = <<Main(e, None)>> \o rest
    <3>1. ("Moved" \in Releases) = FALSE
      BY DEF Releases
    <3> QED
      BY <1>b, <3>1 DEF Route
  <2>2. Fewer(calls')
    BY <1>2, <2>1, PlainCalls, PushPlain
  <2>3. candidate' = candidate
    BY <1>b DEF Route
  <2>4. UNCHANGED <<root, place, hoverVars, answers, crossed, lastTap, capture, lostTarget>>
    BY <1>4, <1>b DEF vars, captureVars
  <2> QED
    BY <1>5, <2>2, <2>3, <2>4, QuietStep
<1>c. CASE f.at = "main" /\ AfterMain(f, rest) /\ UNCHANGED <<vars, captureVars>>
  <2>1. UNCHANGED <<root, place, crossed, captureVars>>
    BY <1>4, <1>c DEF vars
  <2> QED
    BY <1>1, <1>c, <2>1, AfterMainStep
<1>d. CASE /\ f.at \in {"tapped", "doubled"}
           /\ (\E near \in BOOLEAN : AfterTapped(f.of, near, rest)) \/ AfterDoubled(rest)
           /\ UNCHANGED <<vars, captureVars>>
  <2>1. f.of \in Elements
    BY <1>3, <1>d DEF Telled
  <2>2. /\ calls' \in {rest, <<Telling("doubled", f.of)>> \o rest}
        /\ lastTap' \in {lastTap, f.of, None} /\ UNCHANGED <<candidate, answers, hoverVars>>
    BY <1>d DEF AfterTapped, AfterDoubled
  <2>3. Plain(Telling("doubled", f.of))
    BY <2>1, PlainCalls DEF Telled
  <2>4. Fewer(calls')
    BY <1>2, <2>2, <2>3, PushPlain
  <2>5. UNCHANGED <<root, place, crossed, capture, lostTarget>>
    BY <1>4, <1>d DEF vars, captureVars
  <2> QED
    BY <1>5, <2>1, <2>2, <2>4, <2>5, QuietStep
<1>e. CASE /\ \/ calls' = rest /\ UNCHANGED <<tapVars, capture>>
              \/ f.at = "capture" /\ Captured(f.of, rest)
              \/ ClearPointerCapture(rest)
           /\ UNCHANGED <<vars, hoverVars, saved, lostTarget>>
  <2>1. UNCHANGED <<root, place, hoverVars, lostTarget, crossed>>
    BY <1>4, <1>e DEF vars
  <2>2. CASE calls' = rest /\ UNCHANGED <<tapVars, capture>>
    BY <1>2, <1>5, <2>1, <2>2, QuietStep DEF tapVars
  <2>3. CASE f.at = "capture" /\ Captured(f.of, rest)
    <3>1. f.of \in Elements
      BY <1>3, <2>3 DEF Telled
    <3>2. capture' \in Elements /\ calls' = rest /\ UNCHANGED <<candidate, lastTap, answers>>
      BY <1>5, <2>3, <3>1 DEF Captured, tapVars
    <3> QED
      BY <1>2, <1>5, <2>1, <3>2, QuietStep
  <2>4. CASE ClearPointerCapture(rest)
    BY <1>2, <2>1, <2>4, ReleaseStep
  <2> QED
    BY <1>e, <2>2, <2>3, <2>4
<1>f. CASE f.at = "attach" /\ CommitHosted(f.prev, f.new, rest)
           /\ UNCHANGED <<place, torn, focusOnly, captureVars>>
  BY <1>2, <1>3, <1>4, <1>f, CommitStep
<1>g. CASE f.at = "report" /\ NotifyDetached(f, rest)
           /\ UNCHANGED <<vars, tapVars, hoverVars, capture, saved>>
  BY <1>1, <1>4, <1>g, DetachedStep
<1>h. CASE f.at = "reported" /\ AfterReported(f, rest)
           /\ UNCHANGED <<vars, tapVars, hoverVars, capture>>
  <2>1. lostTarget' \in Elements /\ calls' = rest
    BY <1>3, <1>5, <1>h DEF AfterReported
  <2>2. UNCHANGED <<root, place, crossed, candidate, lastTap, answers>>
    BY <1>4, <1>h DEF vars, tapVars
  <2> QED
    BY <1>2, <1>5, <1>h, <2>1, <2>2, QuietStep
<1> QED
  BY <1>a, <1>b, <1>c, <1>d, <1>e, <1>f, <1>g, <1>h DEF Resume

LEMMA InitPointer == Init /\ PointerInit => PointerInv
<1> SUFFICES ASSUME Init, PointerInit PROVE PointerInv
  OBVIOUS
<1>1. /\ root = None /\ place \in [Targets -> Panels]
      /\ hover = None /\ inside = {} /\ candidate = NoTap /\ lastTap = None /\ answers = 0
      /\ capture = None /\ lostTarget = None /\ calls = <<>>
  BY DEF Init, PointerInit
<1>2. PointerType
  BY <1>1 DEF PointerType, Elements, Panels, NoTap
<1>3. NoneIn(calls, Exits) /\ OneIn(calls, Exits) /\ NoneIn(calls, Taps) /\ OneIn(calls, Taps)
  BY <1>1 DEF NoneIn, OneIn
<1>4. HoverInv /\ TapInv
  BY <1>1, <1>3 DEF HoverInv, TapInv, Outstanding
<1> QED
  BY <1>2, <1>4 DEF PointerInv

LEMMA PointerStep == PointerInv /\ [PointerNext]_pvars => PointerInv'
<1> SUFFICES ASSUME PointerInv, [PointerNext]_pvars PROVE PointerInv'
  OBVIOUS
<1>1. CASE UNCHANGED pvars
  <2>1. UNCHANGED <<root, place, hoverVars, answers, crossed, candidate, lastTap, capture,
                    lostTarget, calls>>
    BY <1>1 DEF pvars, vars, pointerVars, tapVars, captureVars
  <2> QED
    BY <2>1, AllCalls, QuietStep
<1>2. CASE \E msg \in Messages, on \in Elements : OnIslandPointer(msg, on)
  BY <1>2, OnPointerStep
<1>3. CASE PointerCanceled
  BY <1>3, CanceledStep
<1>4. CASE \E t \in Targets : CapturePointer(t)
  BY <1>4, CaptureStep
<1>5. CASE \E t \in Targets, r \in Roots : Put(t, r)
  BY <1>5, PutStep
<1>6. CASE ReleasePointer
  BY <1>6, AllCalls, ReleaseStep DEF ReleasePointer, vars
<1>7. CASE \E r \in Panels : HostRoot(r)
  BY <1>7, HostStep
<1>8. CASE \E list \in Lists, r \in Roots : Take(list, r)
  BY <1>8, TakeStep
<1>9. CASE Resume
  BY <1>9, ResumeStep
<1> QED
  BY <1>1, <1>2, <1>3, <1>4, <1>5, <1>6, <1>7, <1>8, <1>9 DEF PointerNext

(* An element of the hosted tree that was told Entered and not Exited is   *)
(* the hovered one once every handler has returned, unless a move came     *)
(* while Exited was raised, and a press is answered by one tap at most     *)
(* unless a release came while one was routed, for any elements and roots  *)
(* and handlers nested to any depth (OnIslandPointer).                     *)
THEOREM PointerCorrect == PointerSpec => []PointerProtocol
<1>1. PointerInv => PointerProtocol
  BY DEF PointerInv, HoverInv, TapInv, Outstanding, PointerProtocol, HoverBalanced, TapEarned
<1> QED
  BY InitPointer, PointerStep, <1>1, PTL DEF PointerSpec
=============================================================================
