--------------------------- MODULE XamlIsland_proofs ---------------------------
(***************************************************************************)
(* For any number of renderers, roots and sizes, without bound on the      *)
(* calls and their nesting: the protocol by which changes of the tree      *)
(* become one posted message (MakeInvalidationCallback,                    *)
(* TakePendingInvalidation and the three functions that supersede a        *)
(* message); what put_Content and Close leave attached; that a change is   *)
(* shown; and what a rebuild that user code held up may publish.           *)
(***************************************************************************)
EXTENDS XamlIsland, TLAPS

HostStates == [enabled : BOOLEAN, posted : BOOLEAN, dirty : BOOLEAN, epoch : Nat, gen : Nat]
Posters == [pc : {"idle", "notify", "post", "failed"}, layout : BOOLEAN, window : Nat, gen : Nat]

PostType ==
    /\ host \in HostStates
    /\ queue \in SUBSET Nat
    /\ poster \in [Threads -> Posters]
    /\ window \in Nat /\ made \in Nat

(* The thread is between taking message_posted and posting, or giving up.  *)
Posting(t) == poster[t].pc \in {"post", "failed"}

(* No message is newer than message_generation; one of that generation is  *)
(* in one place, the queue or a thread, and message_posted says so.        *)
Older ==
    /\ \A g \in queue : g <= host.gen
    /\ \A t \in Threads : Posting(t) => poster[t].gen <= host.gen
Claimed ==
    /\ host.gen \in queue => host.posted
    /\ \A t \in Threads : Posting(t) /\ poster[t].gen = host.gen => host.posted
OneCarrier ==
    /\ \A t, u \in Threads :
          /\ Posting(t) /\ poster[t].gen = host.gen
          /\ Posting(u) /\ poster[u].gen = host.gen
          => t = u
    /\ \A t \in Threads : Posting(t) /\ poster[t].gen = host.gen => host.gen \notin queue

(* A message is out only while there is a window to receive it.            *)
PostedIsEnabled == host.posted => host.enabled

PostInv ==
    PostType /\ Older /\ Claimed /\ OneCarrier /\ PostedIsEnabled /\ PostedIsCarried

-----------------------------------------------------------------------------
(* The steps, as the variables of the protocol see them.                   *)
postingVars == <<host, queue, poster>>

Supersede ==
    /\ host' \in HostStates /\ host'.gen = host.gen + 1 /\ ~host'.posted
    /\ queue' = queue \/ queue' = {}
    /\ UNCHANGED poster

WindowType == window' \in Nat /\ made' \in Nat

LEMMA InitPost == Init => PostInv
  BY DEF Init, PostInv, PostType, HostStates, Posters, IdlePoster, Older, Claimed,
         OneCarrier, PostedIsEnabled, PostedIsCarried, Posting

(* A superseded message leaves no message of the new generation.           *)
LEMMA SupersedeStep ==
  ASSUME PostInv, Supersede, WindowType
  PROVE  PostInv'
<1>1. PostType'
  BY DEF PostInv, PostType, Supersede, WindowType
<1>2. host.gen \in Nat /\ host'.gen = host.gen + 1
  BY DEF PostInv, PostType, HostStates, Supersede
<1>3. queue' \subseteq queue /\ queue \subseteq Nat /\ poster' = poster
  BY DEF PostInv, PostType, Supersede
<1>4. \A t \in Threads : poster[t].gen \in Nat
  BY DEF PostInv, PostType, Posters
<1>5. \A g \in queue' : g < host'.gen
  BY <1>2, <1>3 DEF PostInv, Older
<1>6. \A t \in Threads : Posting(t)' => poster'[t].gen < host'.gen
  BY <1>2, <1>3, <1>4 DEF PostInv, Older, Posting
<1>7. Older'
  <2>1. \A g \in queue' : g <= host'.gen
    BY <1>2, <1>3, <1>5
  <2>2. \A t \in Threads : Posting(t)' => poster'[t].gen <= host'.gen
    BY <1>2, <1>3, <1>4, <1>6
  <2> QED
    BY <2>1, <2>2 DEF Older
<1>8. host'.gen \notin queue' /\ \A t \in Threads : Posting(t)' => poster'[t].gen # host'.gen
  BY <1>2, <1>3, <1>4, <1>5, <1>6
<1>9. Claimed' /\ OneCarrier'
  BY <1>8 DEF Claimed, OneCarrier
<1>10. PostedIsEnabled' /\ PostedIsCarried'
  BY DEF Supersede, PostedIsEnabled, PostedIsCarried
<1> QED
  BY <1>1, <1>7, <1>9, <1>10 DEF PostInv

LEMMA UnchangedStep ==
  ASSUME PostInv, UNCHANGED postingVars, WindowType
  PROVE  PostInv'
  BY DEF postingVars, WindowType, PostInv, PostType, Older, Claimed, OneCarrier,
         PostedIsEnabled, PostedIsCarried, Posting

LEMMA HostAfter ==
  ASSUME NEW h \in HostStates,
         NEW after \in {Cancelled(h), Enabled(h), Disabled(h)}
  PROVE  after \in HostStates /\ after.gen = h.gen + 1 /\ ~after.posted
<1> DEFINE next == h.gen + 1
<1>0. h.gen \in Nat /\ next \in Nat /\ h.epoch \in Nat /\ h.epoch + 1 \in Nat
  BY DEF HostStates
<1> HIDE DEF next
<1>1. /\ Superseded(h) = [h EXCEPT !.posted = FALSE, !.dirty = FALSE, !.gen = next]
      /\ Superseded(h).epoch = h.epoch
  BY DEF Superseded, next
<1>2. Superseded(h) \in HostStates /\ Superseded(h).gen = next /\ ~Superseded(h).posted
  BY <1>0, <1>1 DEF HostStates
<1>3. \A b \in BOOLEAN, n \in Nat :
         LET m == [Superseded(h) EXCEPT !.enabled = b, !.epoch = n]
         IN  m \in HostStates /\ m.gen = next /\ ~m.posted
  BY <1>2 DEF HostStates
<1>4. CASE after = Cancelled(h)
  BY <1>2, <1>4 DEF Cancelled, next
<1>5. CASE after = Enabled(h)
  BY <1>0, <1>1, <1>3, <1>5 DEF Enabled, next
<1>6. CASE after = Disabled(h)
  BY <1>0, <1>1, <1>3, <1>6 DEF Disabled, next
<1> QED
  BY <1>4, <1>5, <1>6

(* The steps of the protocol itself.                                       *)
LEMMA NotifyStep ==
  ASSUME PostInv, NEW t \in Threads, Notify(t)
  PROVE  PostInv'
<1> DEFINE was == poster[t]
<1>1. was \in Posters /\ host \in HostStates /\ was.pc = "notify" /\ host.gen \in Nat
  BY DEF Notify, PostInv, PostType, HostStates
<1>2. window' \in Nat /\ made' \in Nat /\ queue' = queue /\ queue \in SUBSET Nat
  BY DEF Notify, windowVars, PostInv, PostType
<1>3. \A u \in Threads : u # t => poster'[u] = poster[u]
  BY DEF Notify, PostInv, PostType
<1>4. CASE ~host.enabled \/ host.posted
  <2>0. poster' = [poster EXCEPT ![t] = IdlePoster]
    BY <1>4 DEF Notify
  <2>1. poster'[t] = IdlePoster /\ poster' \in [Threads -> Posters]
    BY <2>0 DEF PostInv, PostType, IdlePoster, Posters
  <2>2. /\ host' \in HostStates /\ host'.gen = host.gen
        /\ host'.posted = host.posted /\ host'.enabled = host.enabled
    BY <1>1, <1>4 DEF Notify, HostStates, DirtyAfter, Posters
  <2>3. ~Posting(t) /\ ~Posting(t)' /\ \A u \in Threads : u # t => (Posting(u)' <=> Posting(u))
    BY <1>1, <1>3, <2>1 DEF Posting, IdlePoster
  <2>4. PostType'
    BY <1>2, <2>1, <2>2 DEF PostType
  <2>5. Older' /\ Claimed' /\ OneCarrier'
    BY <1>2, <1>3, <2>2, <2>3 DEF PostInv, Older, Claimed, OneCarrier
  <2>6. PostedIsEnabled'
    BY <2>2 DEF PostInv, PostedIsEnabled
  <2>7. PostedIsCarried'
    BY <1>2, <1>3, <2>2, <2>3 DEF PostInv, PostedIsCarried, Posting
  <2> QED
    BY <2>4, <2>5, <2>6, <2>7 DEF PostInv
<1>5. CASE host.enabled /\ ~host.posted
  <2>1. /\ host' = [host EXCEPT !.dirty = DirtyAfter(t), !.posted = TRUE, !.gen = host.gen + 1]
        /\ poster' = [poster EXCEPT ![t] =
                         [was EXCEPT !.pc = "post", !.window = window, !.gen = host.gen + 1]]
    BY <1>5 DEF Notify
  <2>2. host' \in HostStates /\ host'.gen = host.gen + 1 /\ host'.posted /\ host'.enabled
    <3> DEFINE next == host.gen + 1
               dirty == DirtyAfter(t)
    <3>1. next \in Nat /\ dirty \in BOOLEAN
      BY <1>1 DEF DirtyAfter
    <3>2. host' = [host EXCEPT !.dirty = dirty, !.posted = TRUE, !.gen = next]
      BY <2>1
    <3> HIDE DEF next, dirty
    <3>3. host' \in HostStates /\ host'.gen = next /\ host'.posted /\ host'.enabled
      BY <1>1, <1>5, <3>1, <3>2 DEF HostStates
    <3> QED
      BY <3>3 DEF next
  <2>3. poster'[t] = [was EXCEPT !.pc = "post", !.window = window, !.gen = host.gen + 1]
    BY <2>1 DEF PostInv, PostType
  <2>4. window \in Nat
    BY DEF PostInv, PostType
  <2>5. poster'[t] \in Posters /\ poster'[t].pc = "post" /\ poster'[t].gen = host'.gen
    <3>1. host'.gen \in Nat /\ host'.gen = host.gen + 1
      BY <2>2 DEF HostStates
    <3>2. poster'[t] = [was EXCEPT !.pc = "post", !.window = window, !.gen = host'.gen]
      BY <2>3, <3>1
    <3> QED
      BY <1>1, <2>4, <3>1, <3>2 DEF Posters
  <2>6. PostType'
    BY <1>2, <2>1, <2>2, <2>3, <2>5 DEF PostInv, PostType
  <2>7. \A g \in queue' : g < host'.gen
    <3>1. \A g \in queue' : g \in Nat /\ g <= host.gen
      BY <1>2 DEF PostInv, Older
    <3> QED
      BY <1>1, <2>2, <3>1
  <2>8. \A u \in Threads : poster[u].gen \in Nat
    BY DEF PostInv, PostType, Posters
  <2>9. \A u \in Threads : u # t /\ Posting(u)' => poster'[u].gen < host'.gen
    BY <1>1, <1>3, <2>2, <2>8 DEF PostInv, Older, Posting
  <2>10. Older'
    <3>1. \A g \in queue' : g <= host'.gen
      BY <1>1, <1>2, <2>2, <2>7
    <3>2. \A u \in Threads : Posting(u)' => poster'[u].gen <= host'.gen
      BY <1>1, <1>3, <2>2, <2>5, <2>8, <2>9
    <3> QED
      BY <3>1, <3>2 DEF Older
  <2>11. host'.gen \notin queue'
    BY <1>1, <1>2, <2>2, <2>7
  <2>12. \A u \in Threads : Posting(u)' /\ poster'[u].gen = host'.gen => u = t
    BY <1>1, <1>3, <2>2, <2>8, <2>9
  <2>13. Claimed' /\ OneCarrier'
    BY <2>2, <2>11, <2>12 DEF Claimed, OneCarrier
  <2>14. PostedIsEnabled' /\ PostedIsCarried'
    BY <2>2, <2>5 DEF PostedIsEnabled, PostedIsCarried
  <2> QED
    BY <2>6, <2>10, <2>13, <2>14 DEF PostInv
<1> QED
  BY <1>1, <1>4, <1>5 DEF HostStates

LEMMA PostStep ==
  ASSUME PostInv, NEW t \in Threads, Post(t)
  PROVE  PostInv'
<1>1. /\ poster[t] \in Posters /\ poster[t].pc = "post"
      /\ host' = host /\ host \in HostStates /\ host.gen \in Nat
  BY DEF Post, PostInv, PostType, HostStates
<1>2. window' \in Nat /\ made' \in Nat /\ queue \in SUBSET Nat
  BY DEF Post, windowVars, PostInv, PostType
<1>3. \A u \in Threads : u # t => poster'[u] = poster[u]
  BY DEF Post, PostInv, PostType
<1>4. Posting(t) /\ \A u \in Threads : u # t => (Posting(u)' <=> Posting(u))
  BY <1>1, <1>3 DEF Posting
<1>5. CASE queue' = queue \cup {poster[t].gen} /\ poster' = [poster EXCEPT ![t] = IdlePoster]
  <2>1. poster'[t] = IdlePoster /\ poster' \in [Threads -> Posters]
    BY <1>5 DEF PostInv, PostType, IdlePoster, Posters
  <2>2. poster[t].gen \in Nat /\ ~Posting(t)'
    BY <1>1, <2>1 DEF Posters, IdlePoster, Posting
  <2>3. PostType'
    BY <1>1, <1>2, <1>5, <2>1, <2>2 DEF PostType
  <2>4. Older' /\ Claimed'
    BY <1>1, <1>3, <1>4, <1>5, <2>2 DEF PostInv, Older, Claimed
  <2>5. OneCarrier'
    BY <1>1, <1>3, <1>4, <1>5, <2>2 DEF PostInv, OneCarrier
  <2>6. PostedIsEnabled' /\ PostedIsCarried'
    BY <1>1, <1>3, <1>5 DEF PostInv, PostedIsEnabled, PostedIsCarried
  <2> QED
    BY <2>3, <2>4, <2>5, <2>6 DEF PostInv
<1>6. CASE queue' = queue /\ poster' = [poster EXCEPT ![t].pc = "failed"]
  <2>1. poster'[t] = [poster[t] EXCEPT !.pc = "failed"]
    BY <1>6 DEF PostInv, PostType
  <2>2. poster'[t] \in Posters /\ poster'[t].pc = "failed" /\ poster'[t].gen = poster[t].gen
    BY <1>1, <2>1 DEF Posters
  <2>3. \A u \in Threads : poster'[u].gen = poster[u].gen /\ (Posting(u)' <=> Posting(u))
    BY <1>3, <1>4, <2>2 DEF Posting
  <2>4. PostType'
    BY <1>1, <1>2, <1>6, <2>1, <2>2 DEF PostInv, PostType
  <2>5. Older' /\ Claimed' /\ OneCarrier'
    BY <1>1, <1>6, <2>3 DEF PostInv, Older, Claimed, OneCarrier
  <2>6. PostedIsEnabled' /\ PostedIsCarried'
    BY <1>1, <1>6, <2>3 DEF PostInv, PostedIsEnabled, PostedIsCarried, Posting
  <2> QED
    BY <2>4, <2>5, <2>6 DEF PostInv
<1> QED
  BY <1>5, <1>6 DEF Post

LEMMA PostFailedStep ==
  ASSUME PostInv, NEW t \in Threads, PostFailed(t)
  PROVE  PostInv'
<1> DEFINE left == host.posted /\ ~OwnsFlag(t)
<1>1. /\ poster[t] \in Posters /\ poster[t].pc = "failed"
      /\ host \in HostStates /\ host.gen \in Nat /\ poster[t].gen \in Nat
  BY DEF PostFailed, PostInv, PostType, HostStates, Posters
<1>2. window' \in Nat /\ made' \in Nat /\ queue' = queue /\ queue \in SUBSET Nat
  BY DEF PostFailed, windowVars, PostInv, PostType
<1>3. poster' = [poster EXCEPT ![t] = IdlePoster]
  BY DEF PostFailed
<1>4. poster'[t] = IdlePoster /\ poster' \in [Threads -> Posters]
  BY <1>3 DEF PostInv, PostType, IdlePoster, Posters
<1>5. \A u \in Threads : u # t => poster'[u] = poster[u]
  BY <1>3 DEF PostInv, PostType
<1>6. Posting(t) /\ ~Posting(t)' /\ \A u \in Threads : u # t => (Posting(u)' <=> Posting(u))
  BY <1>1, <1>4, <1>5 DEF Posting, IdlePoster
<1>7. host' = [host EXCEPT !.posted = left] /\ left \in BOOLEAN
  BY <1>1 DEF PostFailed, OwnsFlag, HostStates
<1>8. left <=> host.posted /\ host.gen # poster[t].gen
  BY DEF OwnsFlag
<1> HIDE DEF left
<1>9. /\ host' \in HostStates /\ host'.gen = host.gen
      /\ (host'.posted <=> left) /\ host'.enabled = host.enabled
  BY <1>1, <1>7 DEF HostStates
<1>10. PostType'
  BY <1>2, <1>4, <1>9 DEF PostType
<1>11. Older'
  BY <1>2, <1>5, <1>6, <1>9 DEF PostInv, Older
<1>12. OneCarrier'
  BY <1>2, <1>5, <1>6, <1>9 DEF PostInv, OneCarrier
<1>13. Claimed'
  <2>1. host'.gen \in queue' => host'.posted
    BY <1>1, <1>2, <1>6, <1>8, <1>9 DEF PostInv, Claimed, OneCarrier
  <2>2. \A u \in Threads : Posting(u)' /\ poster'[u].gen = host'.gen => host'.posted
    BY <1>1, <1>5, <1>6, <1>8, <1>9 DEF PostInv, Claimed, OneCarrier
  <2> QED
    BY <2>1, <2>2 DEF Claimed
<1>14. PostedIsEnabled'
  BY <1>8, <1>9 DEF PostInv, PostedIsEnabled
<1>15. PostedIsCarried'
  BY <1>2, <1>5, <1>6, <1>8, <1>9 DEF PostInv, PostedIsCarried, Posting
<1> QED
  BY <1>10, <1>11, <1>12, <1>13, <1>14, <1>15 DEF PostInv

LEMMA MutateStep ==
  ASSUME PostInv, NEW t \in Threads, NEW r \in Roots, NEW layout \in BOOLEAN,
         Mutate(t, r, layout)
  PROVE  PostInv'
<1>1. poster[t].pc = "idle" /\ host' = host /\ queue' = queue
  BY DEF Mutate, InUserCode
<1>2. window' = window /\ made' = made
  BY DEF Mutate, windowVars
<1>3. poster' = [poster EXCEPT ![t] = [IdlePoster EXCEPT !.pc = "notify", !.layout = layout]]
  BY DEF Mutate
<1>4. /\ poster' \in [Threads -> Posters] /\ poster'[t].pc = "notify"
      /\ \A u \in Threads : u # t => poster'[u] = poster[u]
  BY <1>3 DEF PostInv, PostType, IdlePoster, Posters
<1>5. ~Posting(t) /\ ~Posting(t)' /\ \A u \in Threads : u # t => (Posting(u)' <=> Posting(u))
  BY <1>1, <1>4 DEF Posting
<1>6. PostType'
  BY <1>1, <1>2, <1>4 DEF PostInv, PostType
<1>7. Older' /\ Claimed' /\ OneCarrier'
  BY <1>1, <1>4, <1>5 DEF PostInv, Older, Claimed, OneCarrier
<1>8. PostedIsEnabled' /\ PostedIsCarried'
  BY <1>1, <1>4, <1>5 DEF PostInv, PostedIsEnabled, PostedIsCarried, Posting
<1> QED
  BY <1>6, <1>7, <1>8 DEF PostInv

LEMMA DispatchStep ==
  ASSUME PostInv, NEW g \in queue, Dispatch(g)
  PROVE  PostInv'
<1>1. queue' = queue \ {g} /\ poster' = poster /\ window' = window /\ made' = made
  BY DEF Dispatch
<1>2. CASE host.enabled /\ host.posted /\ host.gen = g
  <2>1. host' = [host EXCEPT !.posted = FALSE, !.dirty = FALSE]
    BY <1>2 DEF Dispatch
  <2>2. host' \in HostStates /\ host'.gen = host.gen /\ ~host'.posted
    BY <2>1 DEF PostInv, PostType, HostStates
  <2>3. PostType'
    BY <1>1, <2>2 DEF PostInv, PostType
  <2>4. \A t \in Threads : Posting(t)' => poster'[t].gen # host'.gen
    BY <1>1, <1>2, <2>2 DEF PostInv, OneCarrier, Posting
  <2>5. Older' /\ Claimed' /\ OneCarrier'
    BY <1>1, <1>2, <2>2, <2>4 DEF PostInv, Older, Claimed, OneCarrier, Posting
  <2>6. PostedIsEnabled' /\ PostedIsCarried'
    BY <2>2 DEF PostedIsEnabled, PostedIsCarried
  <2> QED
    BY <2>3, <2>5, <2>6 DEF PostInv
<1>3. CASE ~(host.enabled /\ host.posted /\ host.gen = g)
  <2>1. host' = host
    BY <1>3 DEF Dispatch
  <2>2. PostType'
    BY <1>1, <2>1 DEF PostInv, PostType
  <2>3. Older' /\ Claimed' /\ OneCarrier'
    BY <1>1, <2>1 DEF PostInv, Older, Claimed, OneCarrier, Posting
  <2>4. host.gen # g
    BY <1>3 DEF PostInv, Claimed, PostedIsEnabled
  <2>5. PostedIsEnabled' /\ PostedIsCarried'
    BY <1>1, <2>1, <2>4 DEF PostInv, PostedIsEnabled, PostedIsCarried
  <2> QED
    BY <2>2, <2>3, <2>5 DEF PostInv
<1> QED
  BY <1>2, <1>3

-----------------------------------------------------------------------------
(* The steps that supersede the message, and those that leave it alone.    *)
LEMMA WindowGoneStep ==
  ASSUME PostInv, WindowGone
  PROVE  PostInv'
<1>1. host \in HostStates /\ made \in Nat
  BY DEF PostInv, PostType
<1>2. host' = Disabled(host) /\ queue' = {} /\ poster' = poster /\ window' = 0 /\ made' = made
  BY DEF WindowGone
<1>3. Supersede
  BY <1>1, <1>2, HostAfter DEF Supersede
<1>4. WindowType
  BY <1>1, <1>2 DEF WindowType
<1> QED
  BY <1>3, <1>4, SupersedeStep

(* OnSize, AttachToWindow, Close and the last part of put_Content.         *)
LEMMA HostStep ==
  ASSUME PostInv, host' \in {Cancelled(host), Enabled(host), Disabled(host)},
         UNCHANGED postVars, WindowType
  PROVE  PostInv'
<1>1. host \in HostStates
  BY DEF PostInv, PostType
<1>2. Supersede
  BY <1>1, HostAfter DEF Supersede, postVars
<1> QED
  BY <1>2, SupersedeStep

LEMMA KeepStep ==
  ASSUME PostInv, UNCHANGED <<host, postVars, windowVars>>
  PROVE  PostInv'
<1>1. UNCHANGED postingVars /\ WindowType
  BY DEF postVars, postingVars, windowVars, WindowType, PostInv, PostType
<1> QED
  BY <1>1, UnchangedStep

LEMMA ReturnStep ==
  ASSUME PostInv, Return
  PROVE  PostInv'
<1> DEFINE f == Head(stack)
           rest == Tail(stack)
<1>1. CASE FinishRebuild(f, rest)
  BY <1>1, KeepStep DEF FinishRebuild
<1>2. CASE ResumeAttach(f, rest)
  BY <1>2, KeepStep DEF ResumeAttach
<1>3. CASE FinishPut(f, rest)
  <2>1. CASE UNCHANGED <<host, postVars, windowVars>>
    BY <2>1, KeepStep
  <2>2. CASE host' = Cancelled(host) /\ UNCHANGED <<window, made, postVars>>
    <3>1. WindowType
      BY <2>2 DEF WindowType, PostInv, PostType
    <3> QED
      BY <2>2, <3>1, HostStep
  <2> QED
    BY <1>3, <2>1, <2>2 DEF FinishPut
<1>4. CASE FinishClose(f, rest)
  <2>1. CASE UNCHANGED <<host, postVars, windowVars>>
    BY <2>1, KeepStep
  <2>2. CASE WindowGone
    BY <2>2, WindowGoneStep
  <2> QED
    BY <1>4, <2>1, <2>2 DEF FinishClose
<1>5. CASE UNCHANGED <<host, postVars, windowVars>>
  BY <1>5, KeepStep
<1> QED
  BY <1>1, <1>2, <1>3, <1>4, <1>5 DEF Return

LEMMA NextStep ==
  ASSUME PostInv, [Next]_vars
  PROVE  PostInv'
<1>1. ASSUME NEW t \in Threads, Notify(t) \/ Post(t) \/ PostFailed(t)
      PROVE  PostInv'
  BY <1>1, NotifyStep, PostStep, PostFailedStep
<1>2. ASSUME NEW g \in queue, Dispatch(g)
      PROVE  PostInv'
  BY <1>2, DispatchStep
<1>3. ASSUME NEW s \in Sizes, OnSize(s)
      PROVE  PostInv'
  <2>1. host' = Cancelled(host) /\ UNCHANGED <<window, made, postVars>>
    BY <1>3 DEF OnSize
  <2>2. WindowType
    BY <2>1 DEF WindowType, PostInv, PostType
  <2> QED
    BY <2>1, <2>2, HostStep
<1>4. ASSUME NEW v \in MaybeRoots, PutContent(v)
      PROVE  PostInv'
  BY <1>4, KeepStep DEF PutContent
<1>5. CASE AttachToWindow
  <2>1. host' = Enabled(host) /\ made' = made + 1 /\ window' = made' /\ UNCHANGED postVars
    BY <1>5 DEF AttachToWindow
  <2>2. WindowType
    BY <2>1 DEF WindowType, PostInv, PostType
  <2> QED
    BY <2>1, <2>2, HostStep
<1>6. CASE OnWindowDestroyed
  BY <1>6, WindowGoneStep DEF OnWindowDestroyed
<1>7. CASE Close
  <2>1. host' = Disabled(host) /\ UNCHANGED <<windowVars, postVars>>
    BY <1>7 DEF Close
  <2>2. WindowType
    BY <2>1 DEF windowVars, WindowType, PostInv, PostType
  <2> QED
    BY <2>1, <2>2, HostStep
<1>8. ASSUME NEW t \in Threads, NEW r \in Roots, NEW layout \in BOOLEAN, Mutate(t, r, layout)
      PROVE  PostInv'
  BY <1>8, MutateStep
<1>9. CASE UNCHANGED vars
  BY <1>9, KeepStep DEF vars
<1> QED
  BY <1>1, <1>2, <1>3, <1>4, <1>5, <1>6, <1>7, <1>8, <1>9, ReturnStep DEF Next, Invalidate

(* Whatever the renderers, the window's thread and the calls nested in     *)
(* callbacks do, and whichever posts fail: message_posted is set only      *)
(* while a message of the current generation is queued or about to be      *)
(* posted, so a later change never waits for a message that will not come; *)
(* and such a message is never disowned by the failure of an older post.   *)
THEOREM PostCorrect == Spec => []PostProtocol
<1>1. Init => PostInv
  BY InitPost
<1>2. PostInv /\ [Next]_vars => PostInv'
  BY NextStep
<1>3. PostInv => PostProtocol
  BY DEF PostInv, Claimed, CarriedIsPosted, PostProtocol
<1> QED
  BY <1>1, <1>2, <1>3, PTL DEF Spec

(* One message at a time: at most one of the queued rebuild messages and   *)
(* the posts under way is of the current generation, and none is newer, so *)
(* a burst of invalidations is one rebuild (OnInvalidationMessage drops    *)
(* the others).                                                            *)
THEOREM OneMessage == Spec => [](Older /\ OneCarrier)
<1>1. PostInv => Older /\ OneCarrier
  BY DEF PostInv
<1> QED
  BY InitPost, NextStep, <1>1, PTL DEF Spec

-----------------------------------------------------------------------------
(* The calls under way, and those below the innermost.                     *)
Frames == {stack[i] : i \in 1..Len(stack)}
Below == {stack[i] : i \in 2..Len(stack)}
Pushed(f) == f \in Calls /\ stack' = <<f>> \o stack
Popped == stack # <<>> /\ stack' = Tail(stack)
Replaced(f) == stack # <<>> /\ f \in Calls /\ stack' = <<f>> \o Tail(stack)

FrameRecords == [shows : MaybeRoots, size : Sizes, gen : Nat]
RestType ==
    /\ closed \in BOOLEAN /\ size \in Sizes
    /\ content \in MaybeRoots /\ contentEpoch \in Nat /\ focusRoot \in MaybeRoots
    /\ sinks \in SUBSET Roots /\ rooted \in SUBSET Roots
    /\ frame \in FrameRecords
    /\ stale \in BOOLEAN /\ unlaid \in BOOLEAN
    /\ mode \in Modes /\ fault \in Faults \cup {"none"}
    /\ stack \in Seq(Calls)
    /\ calls \in 0..MaxCalls

LEMMA TypeParts == PostInv /\ RestType => TypeOK
BY DEF PostInv, PostType, HostStates, Posters, RestType, FrameRecords, TypeOK

LEMMA TopCall ==
  ASSUME stack \in Seq(Calls), stack # <<>>
  PROVE  /\ Head(stack) \in Calls /\ Head(stack) = stack[1] /\ Tail(stack) \in Seq(Calls)
         /\ Frames = {Head(stack)} \cup Below /\ Len(stack) \in Nat \ {0}
         /\ Len(Tail(stack)) = Len(stack) - 1
         /\ \A i \in 1..Len(Tail(stack)) : i + 1 \in 2..Len(stack) /\ Tail(stack)[i] = stack[i + 1]
<1>1. Len(stack) \in Nat \ {0}
  OBVIOUS
<1>2. \A i \in 1..Len(stack) : i = 1 \/ i \in 2..Len(stack)
  BY <1>1
<1>3. 1 \in 1..Len(stack) /\ 2..Len(stack) \subseteq 1..Len(stack)
  BY <1>1
<1> QED BY <1>1, <1>2, <1>3 DEF Frames, Below

LEMMA PushedCalls ==
  ASSUME stack \in Seq(Calls), NEW f, Pushed(f)
  PROVE  /\ stack' \in Seq(Calls) /\ Frames' = Frames \cup {f}
         /\ Len(stack') = Len(stack) + 1 /\ Len(stack) \in Nat /\ stack'[1] = f
         /\ \A i \in 2..Len(stack') : i - 1 \in 1..Len(stack) /\ stack'[i] = stack[i - 1]
<1>1. /\ stack' \in Seq(Calls) /\ Len(stack') = Len(stack) + 1 /\ Len(stack) \in Nat /\ stack'[1] = f
      /\ \A i \in 2..Len(stack') : i - 1 \in 1..Len(stack) /\ stack'[i] = stack[i - 1]
  BY DEF Pushed
<1>2. Frames' \subseteq Frames \cup {f}
  <2> SUFFICES ASSUME NEW i \in 1..Len(stack') PROVE stack'[i] \in Frames \cup {f}
    BY DEF Frames
  <2>1. i = 1 \/ i \in 2..Len(stack')
    BY <1>1
  <2> QED BY <1>1, <2>1 DEF Frames
<1>3. Frames \cup {f} \subseteq Frames'
  <2>1. f \in Frames'
    BY <1>1 DEF Frames
  <2>2. ASSUME NEW i \in 1..Len(stack) PROVE stack[i] \in Frames'
    <3>1. i + 1 \in 2..Len(stack') /\ (i + 1) - 1 = i
      BY <1>1
    <3>2. stack'[i + 1] = stack[i] /\ i + 1 \in 1..Len(stack')
      BY <1>1, <3>1
    <3> QED BY <3>2 DEF Frames
  <2> QED BY <2>1, <2>2 DEF Frames
<1> QED BY <1>1, <1>2, <1>3

LEMMA PoppedCalls ==
  ASSUME stack \in Seq(Calls), Popped
  PROVE  /\ stack' \in Seq(Calls) /\ Frames' = Below
         /\ Len(stack') = Len(stack) - 1 /\ Len(stack) \in Nat \ {0}
         /\ \A i \in 1..Len(stack') : i + 1 \in 2..Len(stack) /\ stack'[i] = stack[i + 1]
<1>1. /\ stack' \in Seq(Calls) /\ Len(stack') = Len(stack) - 1 /\ Len(stack) \in Nat \ {0}
      /\ \A i \in 1..Len(stack') : i + 1 \in 2..Len(stack) /\ stack'[i] = stack[i + 1]
  BY TopCall DEF Popped
<1>2. Frames' \subseteq Below
  BY <1>1 DEF Frames, Below
<1>3. Below \subseteq Frames'
  <2> SUFFICES ASSUME NEW i \in 2..Len(stack) PROVE stack[i] \in Frames'
    BY DEF Below
  <2>1. i - 1 \in 1..Len(stack') /\ (i - 1) + 1 = i
    BY <1>1
  <2> QED BY <1>1, <2>1 DEF Frames
<1> QED BY <1>1, <1>2, <1>3

LEMMA ReplacedCalls ==
  ASSUME stack \in Seq(Calls), NEW f, Replaced(f)
  PROVE  /\ stack' \in Seq(Calls) /\ Frames' = Below \cup {f}
         /\ Len(stack') = Len(stack) /\ Len(stack) \in Nat \ {0} /\ stack'[1] = f
         /\ \A i \in 2..Len(stack') : stack'[i] = stack[i]
<1>1. Tail(stack) \in Seq(Calls) /\ Len(Tail(stack)) = Len(stack) - 1 /\ Len(stack) \in Nat \ {0}
  BY TopCall DEF Replaced
<1>2. stack' \in Seq(Calls) /\ Len(stack') = Len(stack) /\ stack'[1] = f
  BY <1>1 DEF Replaced
<1>3. ASSUME NEW i \in 2..Len(stack') PROVE stack'[i] = stack[i]
  <2>1. i - 1 \in 1..Len(Tail(stack)) /\ (i - 1) + 1 = i
    BY <1>1, <1>2
  <2>2. stack'[i] = Tail(stack)[i - 1]
    BY <1>1, <1>2, <2>1 DEF Replaced
  <2> QED BY <2>1, <2>2, TopCall DEF Replaced
<1>4. \A i \in 1..Len(stack') : i = 1 \/ i \in 2..Len(stack)
  BY <1>1, <1>2
<1>5. 1 \in 1..Len(stack') /\ 2..Len(stack) \subseteq 1..Len(stack')
  BY <1>1, <1>2
<1>6. Frames' = Below \cup {f}
  BY <1>2, <1>3, <1>4, <1>5 DEF Frames, Below
<1> QED BY <1>1, <1>2, <1>3, <1>6

LEMMA CallKinds ==
  ASSUME NEW f \in Calls
  PROVE  /\ f.op = "put" => f \in Puts
         /\ f.op = "rebuild" => f \in Rebuilds
         /\ f.op = "close" => f \in Closes
         /\ f.op = "destroy" => f = Losing
         /\ f.op \in {"put", "rebuild", "close", "destroy"}
<1>1. \A g \in Puts : g.op = "put"
  BY DEF Puts
<1>2. \A g \in Rebuilds : g.op = "rebuild"
  BY DEF Rebuilds
<1>3. \A g \in Closes : g.op = "close"
  BY DEF Closes
<1>4. Losing.op = "destroy"
  BY DEF Losing
<1>5. f \in Puts \/ f \in Rebuilds \/ f \in Closes \/ f = Losing
  BY DEF Calls
<1> QED BY <1>1, <1>2, <1>3, <1>4, <1>5

LEMMA HostFields ==
  ASSUME NEW h \in HostStates
  PROVE  /\ h.gen \in Nat /\ h.epoch \in Nat /\ h.enabled \in BOOLEAN /\ h.posted \in BOOLEAN /\ h.dirty \in BOOLEAN
         /\ Cancelled(h) \in HostStates /\ Enabled(h) \in HostStates /\ Disabled(h) \in HostStates
         /\ Cancelled(h).enabled = h.enabled /\ Cancelled(h).epoch = h.epoch
         /\ Enabled(h).enabled /\ Enabled(h).epoch = h.epoch + 1
         /\ ~Disabled(h).enabled /\ Disabled(h).epoch = h.epoch + 1
         /\ \A n \in {Cancelled(h), Enabled(h), Disabled(h)} : n.gen = h.gen + 1 /\ ~n.posted /\ ~n.dirty
<1>1. /\ h.gen \in Nat /\ h.epoch \in Nat /\ h.enabled \in BOOLEAN /\ h.posted \in BOOLEAN /\ h.dirty \in BOOLEAN
  BY DEF HostStates
<1>2. \A n \in {Cancelled(h), Enabled(h), Disabled(h)} : n \in HostStates /\ n.gen = h.gen + 1 /\ ~n.posted
  BY HostAfter
<1>3. /\ Cancelled(h).enabled = h.enabled /\ Cancelled(h).epoch = h.epoch /\ ~Cancelled(h).dirty
      /\ Superseded(h) = Cancelled(h)
  BY DEF Cancelled, Superseded, HostStates
<1>4. DOMAIN Superseded(h) = {"enabled", "posted", "dirty", "epoch", "gen"}
  BY <1>2, <1>3 DEF HostStates
<1>5. Enabled(h).enabled /\ Enabled(h).epoch = h.epoch + 1 /\ ~Enabled(h).dirty
  BY <1>3, <1>4 DEF Enabled
<1>6. ~Disabled(h).enabled /\ Disabled(h).epoch = h.epoch + 1 /\ ~Disabled(h).dirty
  BY <1>3, <1>4 DEF Disabled
<1> QED BY <1>1, <1>2, <1>3, <1>5, <1>6

-----------------------------------------------------------------------------
(* StartRebuild, in terms of the state it leaves.                          *)
Latest(r, replacing) ==
    /\ r \in Rebuilds /\ r.op = "rebuild"
    /\ r.window = window' /\ r.epoch = host'.epoch /\ r.contentEpoch = contentEpoch'
    /\ r.content = content' /\ r.expected = frame'.gen /\ r.size = size' /\ r.replacing = replacing
StartsOn(rest, layout, replacing) ==
    /\ window' # 0 /\ host'.enabled =>
          /\ \E r \in Rebuilds : Latest(r, replacing) /\ stack' = <<r>> \o rest
          /\ unlaid' = (unlaid /\ ~(layout /\ content' # None))
    /\ ~(window' # 0 /\ host'.enabled) => stack' = rest /\ unlaid' = unlaid

LEMMA RebuildIsCall == Rebuilds \subseteq Calls /\ Puts \subseteq Calls /\ Closes \subseteq Calls /\ Losing \in Calls
BY DEF Calls

LEMMA StartsFrom ==
  ASSUME RestType, size' \in Sizes, NEW h \in HostStates, NEW w \in Nat, NEW layout \in BOOLEAN,
         NEW replacing \in BOOLEAN, NEW rest,
         StartRebuild(h, w, layout, replacing, rest, content, contentEpoch),
         window' = w, host'.enabled = h.enabled, host'.epoch = h.epoch,
         content' = content, contentEpoch' = contentEpoch, frame' = frame
  PROVE  StartsOn(rest, layout, replacing)
<1>1. /\ content \in MaybeRoots /\ contentEpoch \in Nat /\ h.epoch \in Nat /\ frame.gen \in Nat
      /\ (layout /\ content # None) \in BOOLEAN
  BY DEF RestType, HostStates, FrameRecords
<1>2. CASE w # 0 /\ h.enabled
  <2> DEFINE r == [op |-> "rebuild", user |-> layout /\ content # None, window |-> w, epoch |-> h.epoch,
                   contentEpoch |-> contentEpoch, content |-> content, expected |-> frame.gen,
                   size |-> size', replacing |-> replacing]
  <2>1. stack' = <<r>> \o rest /\ unlaid' = (unlaid /\ ~(layout /\ content # None))
    BY <1>2 DEF StartRebuild
  <2>2. r \in Rebuilds
    BY <1>1 DEF Rebuilds
  <2>3. Latest(r, replacing)
    BY <2>2 DEF Latest
  <2> QED BY <1>2, <2>1, <2>2, <2>3 DEF StartsOn
<1>3. CASE ~(w # 0 /\ h.enabled)
  BY <1>3 DEF StartRebuild, StartsOn
<1> QED BY <1>2, <1>3

LEMMA StartsType ==
  ASSUME NEW rest \in Seq(Calls), NEW layout \in BOOLEAN, NEW replacing \in BOOLEAN,
         StartsOn(rest, layout, replacing), unlaid \in BOOLEAN
  PROVE  stack' \in Seq(Calls) /\ unlaid' \in BOOLEAN
<1>1. CASE window' # 0 /\ host'.enabled
  <2>1. PICK r \in Rebuilds : stack' = <<r>> \o rest
    BY <1>1 DEF StartsOn
  <2>2. r \in Calls
    BY RebuildIsCall
  <2>3. unlaid' \in BOOLEAN
    BY <1>1 DEF StartsOn
  <2> QED BY <2>1, <2>2, <2>3
<1>2. CASE ~(window' # 0 /\ host'.enabled)
  BY <1>2 DEF StartsOn
<1> QED BY <1>1, <1>2

LEMMA Facts ==
  ASSUME PostInv, RestType
  PROVE  /\ host \in HostStates /\ window \in Nat /\ made \in Nat
         /\ frame.gen \in Nat /\ frame.shows \in MaybeRoots /\ frame.size \in Sizes
         /\ content \in MaybeRoots /\ contentEpoch \in Nat /\ size \in Sizes
         /\ stack \in Seq(Calls) /\ unlaid \in BOOLEAN
BY DEF PostInv, PostType, RestType, FrameRecords

LEMMA DispatchEffect ==
  ASSUME PostInv, RestType, NEW g \in queue, Dispatch(g)
  PROVE  /\ UNCHANGED <<closed, windowVars, poster, treeVars, frame, stale, mode, fault, calls>>
         /\ host'.enabled = host.enabled /\ host'.epoch = host.epoch /\ host'.gen = host.gen
         /\ \/ UNCHANGED <<host, stack, unlaid>>
            \/ /\ host.enabled /\ ~host'.posted /\ ~host'.dirty
               /\ StartsOn(stack, host.dirty, FALSE)
         /\ RestType'
<1>1. UNCHANGED <<closed, windowVars, poster, treeVars, frame, stale, mode, fault, calls>>
  BY DEF Dispatch, windowVars
<1>2. CASE UNCHANGED <<host, stack, unlaid>>
  <2>1. RestType'
    BY <1>1, <1>2 DEF RestType, windowVars, treeVars
  <2> QED BY <1>1, <1>2, <2>1
<1>3. CASE ~UNCHANGED <<host, stack, unlaid>>
  <2>1. /\ host.enabled /\ host' = [host EXCEPT !.posted = FALSE, !.dirty = FALSE]
        /\ StartRebuild(host, window, host.dirty, FALSE, stack, content, contentEpoch)
    BY <1>3 DEF Dispatch
  <2>2. /\ host'.enabled = host.enabled /\ host'.epoch = host.epoch /\ host'.gen = host.gen
        /\ ~host'.posted /\ ~host'.dirty
    BY <2>1, Facts DEF HostStates
  <2>3. StartsOn(stack, host.dirty, FALSE)
    <3>1. host.dirty \in BOOLEAN /\ size' \in Sizes
      BY <1>1, Facts DEF HostStates, windowVars
    <3>2. window' = window /\ frame' = frame /\ content' = content /\ contentEpoch' = contentEpoch
      BY <1>1 DEF windowVars, treeVars
    <3>3. PICK h \in HostStates, layout \in BOOLEAN : h = host /\ layout = host.dirty
      BY <3>1, Facts
    <3>4. /\ StartRebuild(h, window, layout, FALSE, stack, content, contentEpoch)
          /\ window \in Nat /\ host'.enabled = h.enabled /\ host'.epoch = h.epoch
      BY <2>1, <2>2, <3>3, Facts
    <3>5. StartsOn(stack, layout, FALSE)
      BY <3>1, <3>2, <3>4, StartsFrom
    <3> QED BY <3>3, <3>5
  <2>4. host.dirty \in BOOLEAN
    BY Facts DEF HostStates
  <2>5. stack' \in Seq(Calls) /\ unlaid' \in BOOLEAN
    BY <2>3, <2>4, Facts, StartsType
  <2>6. RestType'
    BY <1>1, <2>5 DEF RestType, windowVars, treeVars
  <2> QED BY <1>1, <2>1, <2>2, <2>3, <2>6
<1> QED BY <1>2, <1>3

LEMMA OnSizeEffect ==
  ASSUME PostInv, RestType, NEW s \in Sizes, OnSize(s)
  PROVE  /\ UNCHANGED <<closed, window, made, postVars, treeVars, frame, stale, mode, fault>>
         /\ host' = Cancelled(host) /\ size' = s
         /\ StartsOn(stack, TRUE, FALSE)
         /\ RestType'
<1>1. /\ UNCHANGED <<closed, window, made, postVars, treeVars, frame, stale, mode, fault>>
      /\ host' = Cancelled(host) /\ size' = s
      /\ StartRebuild(host', window, TRUE, FALSE, stack, content, contentEpoch)
  BY DEF OnSize
<1>5. calls' \in 0..MaxCalls
  BY BoundsAssumption DEF OnSize, Called, RestType
<1>2. host' \in HostStates
  BY <1>1, Facts, HostFields
<1>3. StartsOn(stack, TRUE, FALSE)
  <2>1. content' = content /\ contentEpoch' = contentEpoch
    BY <1>1 DEF treeVars
  <2> QED BY <1>1, <1>2, <2>1, Facts, HostFields, StartsFrom
<1>4. RestType'
  BY <1>1, <1>3, <1>5, Facts, StartsType DEF RestType, treeVars
<1> QED BY <1>1, <1>3, <1>4

LEMMA AttachEffect ==
  ASSUME PostInv, RestType, AttachToWindow
  PROVE  /\ UNCHANGED <<closed, size, postVars, treeVars, frame, mode, fault>>
         /\ ~closed /\ window = 0 /\ window' # 0 /\ stale'
         /\ host' = Enabled(host)
         /\ StartsOn(stack, TRUE, TRUE)
         /\ RestType'
<1>1. /\ UNCHANGED <<closed, size, postVars, treeVars, frame, mode, fault>>
      /\ ~closed /\ window = 0 /\ stale' = TRUE
      /\ host' = Enabled(host) /\ made' = made + 1 /\ window' = made'
      /\ StartRebuild(host', made', TRUE, TRUE, stack, content, contentEpoch)
  BY DEF AttachToWindow, windowVars
<1>5. calls' \in 0..MaxCalls
  BY BoundsAssumption DEF AttachToWindow, Called, RestType
<1>2. host' \in HostStates /\ made' \in Nat /\ window' # 0 /\ window' \in Nat
  BY <1>1, Facts, HostFields
<1>3. StartsOn(stack, TRUE, TRUE)
  <2>1. content' = content /\ contentEpoch' = contentEpoch /\ size' \in Sizes
    BY <1>1, Facts DEF treeVars
  <2> QED BY <1>1, <1>2, <2>1, Facts, HostFields, StartsFrom
<1>4. RestType'
  BY <1>1, <1>3, <1>5, Facts, StartsType DEF RestType, treeVars
<1> QED BY <1>1, <1>2, <1>3, <1>4

LEMMA MutateEffect ==
  ASSUME PostInv, RestType, NEW t \in Threads, NEW r \in Roots, NEW layout \in BOOLEAN, Mutate(t, r, layout)
  PROVE  /\ UNCHANGED <<closed, windowVars, host, queue, treeVars, frame, mode, fault, stack>>
         /\ poster[t].pc = "idle"
         /\ poster' = [poster EXCEPT ![t] = [IdlePoster EXCEPT !.pc = "notify", !.layout = layout]]
         /\ stale' = (stale \/ r = content) /\ unlaid' = (unlaid \/ (layout /\ r = content))
         /\ RestType'
<1>1. calls' \in 0..MaxCalls
  BY BoundsAssumption DEF Mutate, RestType
<1>2. stale' \in BOOLEAN /\ unlaid' \in BOOLEAN
  BY DEF Mutate, RestType
<1> QED BY <1>1, <1>2 DEF Mutate, InUserCode, RestType, windowVars, treeVars

LEMMA InvalidateEffect ==
  ASSUME PostInv, RestType, NEW t \in Threads, Notify(t) \/ Post(t) \/ PostFailed(t)
  PROVE  /\ UNCHANGED <<closed, windowVars, treeVars, frameVars, mode, fault, stack>>
         /\ host'.enabled = host.enabled /\ host'.epoch = host.epoch
         /\ RestType'
<1>1. UNCHANGED <<closed, windowVars, treeVars, frameVars, mode, fault, stack, calls>>
  BY DEF Notify, Post, PostFailed
<1>2. /\ \A b, d \in BOOLEAN, n \in Nat :
            LET m == [host EXCEPT !.dirty = d, !.posted = b, !.gen = n]
            IN  m.enabled = host.enabled /\ m.epoch = host.epoch
      /\ \A b \in BOOLEAN :
            LET m == [host EXCEPT !.posted = b]
            IN  m.enabled = host.enabled /\ m.epoch = host.epoch
  BY Facts DEF HostStates
<1>3. host'.enabled = host.enabled /\ host'.epoch = host.epoch
  <2>1. CASE Notify(t)
    <3>1. UNCHANGED host \/ \E d, n : host' = [host EXCEPT !.dirty = d, !.posted = TRUE, !.gen = n]
      BY <2>1 DEF Notify
    <3> QED BY <3>1, Facts DEF HostStates
  <2>2. CASE Post(t)
    BY <2>2 DEF Post
  <2>3. CASE PostFailed(t)
    <3>1. \E b : host' = [host EXCEPT !.posted = b]
      BY <2>3 DEF PostFailed
    <3> QED BY <3>1, Facts DEF HostStates
  <2> QED BY <2>1, <2>2, <2>3
<1>4. RestType'
  BY <1>1 DEF RestType, windowVars, treeVars, frameVars
<1> QED BY <1>1, <1>3, <1>4

LEMMA PutEffect ==
  ASSUME PostInv, RestType, NEW v \in MaybeRoots, PutContent(v)
  PROVE  /\ UNCHANGED <<closed, windowVars, host, postVars, rooted, frame, mode, fault>>
         /\ ~closed /\ v # content /\ content' = v /\ contentEpoch' = contentEpoch + 1
         /\ sinks' = sinks \cup ({v} \ {None})
         /\ stale' /\ unlaid' = (v # None)
         /\ \E phase \in {"capture", "done"} :
               /\ Pushed(Put(v, phase, contentEpoch + 1))
               /\ focusRoot' = IF phase = "capture" THEN focusRoot ELSE v
         /\ RestType'
<1>1. /\ UNCHANGED <<closed, windowVars, host, postVars, rooted, frame, mode, fault>>
      /\ ~closed /\ v # content /\ content' = v /\ contentEpoch' = contentEpoch + 1
      /\ sinks' = sinks \cup ({v} \ {None})
      /\ stale' = TRUE /\ unlaid' = (v # None) /\ calls' \in 0..MaxCalls
  BY BoundsAssumption DEF PutContent, CanReplace, Called, RestType
<1>2. \A phase \in {"capture", "done"} : Put(v, phase, contentEpoch + 1) \in Calls
  <2> SUFFICES ASSUME NEW phase \in {"capture", "done"}
               PROVE  Put(v, phase, contentEpoch + 1) \in Puts
    BY RebuildIsCall
  <2>1. (phase # "done") \in BOOLEAN /\ contentEpoch + 1 \in Nat
    BY DEF RestType
  <2> QED BY <2>1 DEF Put, Puts, RestType
<1>3. \E phase \in {"capture", "done"} :
               /\ Pushed(Put(v, phase, contentEpoch + 1))
               /\ focusRoot' = IF phase = "capture" THEN focusRoot ELSE v
  BY <1>2 DEF PutContent, Pushed
<1>4. stack' \in Seq(Calls)
  BY <1>3, Facts, PushedCalls
<1>5. contentEpoch' \in Nat /\ content' \in MaybeRoots /\ focusRoot' \in MaybeRoots
  BY <1>1, <1>3 DEF RestType
<1>6. sinks' \in SUBSET Roots /\ unlaid' \in BOOLEAN /\ stale' \in BOOLEAN
  BY <1>1 DEF RestType, MaybeRoots
<1>7. RestType'
  BY <1>1, <1>4, <1>5, <1>6 DEF RestType, windowVars
<1> QED BY <1>1, <1>3, <1>7

LEMMA GoneFrame ==
  ASSUME RestType, frame' = Unpresented
  PROVE  /\ frame' \in FrameRecords /\ frame'.gen = frame.gen /\ frame'.size = frame.size
         /\ frame'.shows \in {None, frame.shows}
BY DEF Unpresented, RestType, FrameRecords, MaybeRoots

LEMMA DestroyedEffect ==
  ASSUME PostInv, RestType, OnWindowDestroyed
  PROVE  /\ UNCHANGED <<closed, made, size, treeVars, poster, stale, unlaid, mode, fault>>
         /\ window' = 0 /\ queue' = {} /\ host' = Disabled(host) /\ frame' = Unpresented
         /\ Pushed(Losing)
         /\ RestType'
<1>1. /\ UNCHANGED <<closed, made, size, treeVars, poster, stale, unlaid, mode, fault>>
      /\ window' = 0 /\ queue' = {} /\ host' = Disabled(host) /\ frame' = Unpresented
      /\ calls' \in 0..MaxCalls
  BY BoundsAssumption DEF OnWindowDestroyed, WindowGone, Called, RestType
<1>2. Pushed(Losing)
  BY RebuildIsCall DEF OnWindowDestroyed, Pushed
<1>3. stack' \in Seq(Calls)
  BY <1>2, Facts, PushedCalls
<1> QED BY <1>1, <1>2, <1>3, GoneFrame DEF RestType, treeVars

LEMMA CloseEffect ==
  ASSUME PostInv, RestType, Close
  PROVE  /\ UNCHANGED <<windowVars, postVars, treeVars, frameVars, mode, fault>>
         /\ ~closed /\ closed' /\ host' = Disabled(host)
         /\ Pushed([op |-> "close", user |-> TRUE, phase |-> "focus"])
         /\ RestType'
<1>1. /\ UNCHANGED <<windowVars, postVars, treeVars, frameVars, mode, fault>>
      /\ ~closed /\ closed' = TRUE /\ host' = Disabled(host) /\ calls' \in 0..MaxCalls
  BY BoundsAssumption DEF Close, Called, RestType
<1>2. Pushed([op |-> "close", user |-> TRUE, phase |-> "focus"])
  BY RebuildIsCall DEF Close, Pushed, Closes
<1>3. stack' \in Seq(Calls)
  BY <1>2, Facts, PushedCalls
<1> QED BY <1>1, <1>2, <1>3 DEF RestType, treeVars, windowVars, frameVars

-----------------------------------------------------------------------------
(* The branches of Return, for the innermost call f.                       *)
Returning(f) ==
    /\ stack # <<>> /\ f = Head(stack)
    /\ UNCHANGED <<mode, fault, calls>>

Shows(f) == f.op = "rebuild" /\ IsCurrentFrameTarget(f) /\ (mode = "Dcomp" \/ CanPublish(f))

LEMMA FrameFacts ==
  ASSUME PostInv, RestType, NEW f, Returning(f)
  PROVE  /\ f \in Calls /\ f \in Frames /\ Tail(stack) \in Seq(Calls) /\ f = stack[1]
         /\ \A g \in Calls : stack' = <<g>> \o Tail(stack) => Replaced(g)
         /\ stack' = Tail(stack) => Popped
BY Facts, TopCall DEF Returning, Replaced, Popped

LEMMA RebuildEffect ==
  ASSUME PostInv, RestType, NEW f, Returning(f), f.op = "rebuild", FinishRebuild(f, Tail(stack))
  PROVE  /\ UNCHANGED <<closed, windowVars, host, postVars, treeVars, unlaid, mode, fault>>
         /\ Popped
         /\ \/ /\ UNCHANGED <<frame, stale>>
               /\ Shows(f) => fault \in {"layout", "build"} /\ (mode = "Dcomp" \/ ~f.replacing)
            \/ /\ Shows(f)
               /\ frame'.gen = frame.gen + 1 /\ frame'.size = f.size
               /\ \/ frame'.shows = f.content
                  \/ frame'.shows = None /\ f.replacing /\ fault \in {"layout", "build"}
               /\ stale' = unlaid
         /\ RestType'
<1>1. /\ UNCHANGED <<closed, windowVars, host, postVars, treeVars, unlaid, mode, fault, calls>>
      /\ Popped
  BY FrameFacts DEF FinishRebuild, Returning
<1>2. f \in Rebuilds
  BY FrameFacts, CallKinds
<1>3. f.content \in MaybeRoots /\ f.size \in Sizes /\ f.replacing \in BOOLEAN
  BY <1>2 DEF Rebuilds
<1>4. PICK built \in BOOLEAN : /\ frame' = Published(f, built)
                               /\ ~built => fault \in {"layout", "build"}
  BY DEF FinishRebuild
<1> DEFINE showing(r) == [shows |-> r, size |-> f.size, gen |-> frame.gen + 1]
<1>5. \A r \in MaybeRoots : /\ showing(r) \in FrameRecords
                            /\ showing(r).gen = frame.gen + 1 /\ showing(r).size = f.size
                            /\ showing(r).shows = r
  BY <1>3, Facts DEF FrameRecords
<1>6. showing(f.content) # frame /\ showing(None) # frame /\ None \in MaybeRoots
  BY <1>5, <1>3, Facts DEF MaybeRoots
<1>7. \/ /\ frame' = frame
         /\ Shows(f) => fault \in {"layout", "build"} /\ (mode = "Dcomp" \/ ~f.replacing)
      \/ Shows(f) /\ frame' = showing(f.content)
      \/ Shows(f) /\ frame' = showing(None) /\ f.replacing /\ fault \in {"layout", "build"}
  <2>1. CASE ~Shows(f)
    <3>1. Published(f, built) = frame
      BY <2>1 DEF Published, Shows
    <3> QED BY <1>4, <2>1, <3>1
  <2>2. CASE Shows(f) /\ built
    <3>1. Published(f, built) = showing(f.content)
      BY <2>2 DEF Published, Shows
    <3> QED BY <1>4, <2>2, <3>1
  <2>3. CASE Shows(f) /\ ~built
    <3>1. CASE mode = "Dcomp" \/ ~f.replacing
      <4>1. Published(f, built) = frame
        BY <2>3, <3>1 DEF Published, Shows
      <4> QED BY <1>4, <2>3, <3>1, <4>1
    <3>2. CASE mode # "Dcomp" /\ f.replacing
      <4>1. Published(f, built) = showing(None)
        BY <2>3, <3>2 DEF Published, Shows, Fallback
      <4> QED BY <1>4, <2>3, <3>2, <4>1
    <3> QED BY <3>1, <3>2
  <2> QED BY <2>1, <2>2, <2>3
<1>8. /\ frame' \in FrameRecords
      /\ \/ /\ frame' = frame
            /\ Shows(f) => fault \in {"layout", "build"} /\ (mode = "Dcomp" \/ ~f.replacing)
         \/ /\ Shows(f) /\ frame' # frame
            /\ frame'.gen = frame.gen + 1 /\ frame'.size = f.size
            /\ \/ frame'.shows = f.content
               \/ frame'.shows = None /\ f.replacing /\ fault \in {"layout", "build"}
  <2> HIDE DEF showing
  <2>1. frame \in FrameRecords
    BY DEF RestType
  <2> QED BY <1>3, <1>5, <1>6, <1>7, <2>1
<1>9. stale' = IF frame' # frame THEN unlaid ELSE stale
  BY DEF FinishRebuild
<1>10. RestType'
  <2>1. stack' \in Seq(Calls)
    BY <1>1, Facts, PoppedCalls
  <2>2. stale' \in BOOLEAN
    BY <1>9 DEF RestType
  <2> QED BY <1>1, <1>8, <2>1, <2>2 DEF RestType, windowVars, treeVars
<1> QED BY <1>1, <1>8, <1>9, <1>10

(* AttachRoot goes on, from the call f to the call g.                       *)
Resumes(f, g) ==
    \/ /\ f.phase = "capture" /\ focusRoot # f.prevRoot
       /\ focusRoot' = focusRoot /\ g.phase = "done" /\ (g.attached <=> focusRoot = f.value)
    \/ /\ f.phase = "capture" /\ focusRoot = f.prevRoot
       /\ focusRoot' = f.value /\ g.attached = f.attached
    \/ /\ f.phase = "capture" /\ focusRoot = f.prevRoot /\ fault = "memory"
       /\ focusRoot' = focusRoot /\ g.phase = "done" /\ ~g.attached
    \/ f.phase = "focus" /\ focusRoot' = focusRoot /\ g.attached

LEMMA ResumeEffect ==
  ASSUME PostInv, RestType, NEW f, Returning(f), f.op = "put", f.phase # "done",
         ResumeAttach(f, Tail(stack))
  PROVE  /\ UNCHANGED <<closed, windowVars, host, postVars, content, contentEpoch, sinks, rooted, frameVars, mode, fault>>
         /\ \E g \in Puts :
               /\ Replaced(g)
               /\ g.op = "put" /\ g.value = f.value /\ g.prev = f.prev /\ g.prevRoot = f.prevRoot /\ g.epoch = f.epoch
               /\ g.phase # "capture"
               /\ Resumes(f, g)
         /\ RestType'
<1>1. UNCHANGED <<closed, windowVars, host, postVars, content, contentEpoch, sinks, rooted, frameVars, mode, fault, calls>>
  BY DEF ResumeAttach, Returning
<1>2. f \in Puts
  BY FrameFacts, CallKinds
<1>3. \A b \in BOOLEAN :
         LET g == Finished(f, b) IN
         /\ g \in Puts /\ g.op = "put" /\ g.value = f.value /\ g.prev = f.prev /\ g.prevRoot = f.prevRoot
         /\ g.epoch = f.epoch /\ g.phase = "done" /\ g.attached = b
  BY <1>2 DEF Puts, Finished
<1>4. LET g == [f EXCEPT !.phase = "focus"] IN
         /\ g \in Puts /\ g.op = "put" /\ g.value = f.value /\ g.prev = f.prev /\ g.prevRoot = f.prevRoot
         /\ g.epoch = f.epoch /\ g.phase = "focus" /\ g.attached = f.attached
  BY <1>2 DEF Puts
<1>5. \A g \in Puts : stack' = <<g>> \o Tail(stack) => Replaced(g)
  BY FrameFacts, RebuildIsCall
<1> DEFINE Result(g) ==
               /\ Replaced(g)
               /\ g.op = "put" /\ g.value = f.value /\ g.prev = f.prev /\ g.prevRoot = f.prevRoot /\ g.epoch = f.epoch
               /\ g.phase # "capture"
               /\ Resumes(f, g)
<1>6. \E g \in Puts : Result(g)
  <2>1. CASE f.phase = "capture" /\ focusRoot # f.prevRoot
    <3>1. stack' = <<Finished(f, focusRoot = f.value)>> \o Tail(stack) /\ focusRoot' = focusRoot
      BY <2>1 DEF ResumeAttach
    <3>2. PICK b \in BOOLEAN : b = (focusRoot = f.value)
      OBVIOUS
    <3>3. stack' = <<Finished(f, b)>> \o Tail(stack)
      BY <3>1, <3>2
    <3>4. PICK g \in Puts : /\ g = Finished(f, b) /\ g.op = "put" /\ g.value = f.value /\ g.prev = f.prev
                            /\ g.prevRoot = f.prevRoot /\ g.epoch = f.epoch /\ g.phase = "done" /\ g.attached = b
      BY <1>3
    <3>5. Replaced(g)
      BY <1>5, <3>3, <3>4
    <3>6. Result(g)
      BY <2>1, <3>1, <3>2, <3>4, <3>5 DEF Resumes
    <3> QED BY <3>6
  <2>2. CASE f.phase = "capture" /\ focusRoot = f.prevRoot
             /\ focusRoot' = f.value /\ stack' = <<[f EXCEPT !.phase = "focus"]>> \o Tail(stack)
    <3>1. PICK g \in Puts : /\ g = [f EXCEPT !.phase = "focus"] /\ g.op = "put" /\ g.value = f.value /\ g.prev = f.prev
                            /\ g.prevRoot = f.prevRoot /\ g.epoch = f.epoch /\ g.phase = "focus" /\ g.attached = f.attached
      BY <1>4
    <3>2. Replaced(g)
      BY <1>5, <2>2, <3>1
    <3>3. Result(g)
      BY <2>2, <3>1, <3>2 DEF Resumes
    <3> QED BY <3>3
  <2>3. CASE f.phase = "capture" /\ focusRoot = f.prevRoot /\ fault = "memory"
             /\ stack' = <<Finished(f, FALSE)>> \o Tail(stack) /\ focusRoot' = focusRoot
    <3>1. PICK g \in Puts : /\ g = Finished(f, FALSE) /\ g.op = "put" /\ g.value = f.value /\ g.prev = f.prev
                            /\ g.prevRoot = f.prevRoot /\ g.epoch = f.epoch /\ g.phase = "done" /\ g.attached = FALSE
      BY <1>3
    <3>2. Replaced(g)
      BY <1>5, <2>3, <3>1
    <3>3. Result(g)
      BY <2>3, <3>1, <3>2 DEF Resumes
    <3> QED BY <3>3
  <2>4. CASE f.phase = "focus"
    <3>1. stack' = <<Finished(f, TRUE)>> \o Tail(stack) /\ focusRoot' = focusRoot
      BY <2>4 DEF ResumeAttach
    <3>2. PICK g \in Puts : /\ g = Finished(f, TRUE) /\ g.op = "put" /\ g.value = f.value /\ g.prev = f.prev
                            /\ g.prevRoot = f.prevRoot /\ g.epoch = f.epoch /\ g.phase = "done" /\ g.attached = TRUE
      BY <1>3
    <3>3. Replaced(g)
      BY <1>5, <3>1, <3>2
    <3>4. Result(g)
      BY <2>4, <3>1, <3>2, <3>3 DEF Resumes
    <3> QED BY <3>4
  <2> HIDE DEF Result
  <2> QED BY <2>1, <2>2, <2>3, <2>4 DEF ResumeAttach
<1>7. PICK g \in Puts : Result(g)
  BY <1>6
<1>8. stack' \in Seq(Calls)
  BY <1>7, Facts, RebuildIsCall, ReplacedCalls
<1>9. focusRoot' \in MaybeRoots
  BY <1>2, <1>7 DEF RestType, Puts, Resumes
<1>10. RestType'
  BY <1>1, <1>8, <1>9 DEF RestType, windowVars, frameVars
<1> QED BY <1>1, <1>6, <1>10

LEMMA DropEffect ==
  ASSUME PostInv, RestType, NEW f, Returning(f), f.op = "put",
         ~TransactionIsCurrent(f),
         sinks' = Released(f, sinks), rooted' = Released(f, rooted), stack' = Tail(stack),
         UNCHANGED <<closed, windowVars, host, postVars, content, contentEpoch, focusRoot, frameVars>>
  PROVE  Popped /\ RestType'
<1>1. Popped
  BY FrameFacts
<1>2. stack' \in Seq(Calls)
  BY <1>1, Facts, PoppedCalls
<1>3. sinks' \in SUBSET Roots /\ rooted' \in SUBSET Roots
  BY DEF Released, RestType
<1> QED BY <1>1, <1>2, <1>3 DEF RestType, Returning, windowVars, frameVars

LEMMA RevertEffect ==
  ASSUME PostInv, RestType, NEW f, Returning(f), f.op = "put",
         content' = f.prev, contentEpoch' = contentEpoch + 1, sinks' = sinks \ {f.value},
         stack' = Tail(stack),
         UNCHANGED <<closed, windowVars, host, postVars, focusRoot, rooted, frameVars>>
  PROVE  Popped /\ RestType'
<1>1. Popped
  BY FrameFacts
<1>2. stack' \in Seq(Calls)
  BY <1>1, Facts, PoppedCalls
<1>3. content' \in MaybeRoots
  BY FrameFacts, CallKinds DEF Puts
<1>4. contentEpoch' \in Nat /\ sinks' \in SUBSET Roots
  BY DEF RestType
<1> QED BY <1>1, <1>2, <1>3, <1>4 DEF RestType, Returning, windowVars, frameVars

(* The last part of put_Content, for a transaction still current.          *)
Commits(f) ==
    /\ TransactionIsCurrent(f) /\ f.attached
    /\ rooted' = Released(f, rooted) \cup ({f.value} \ {None})
    /\ sinks' = Released(f, sinks)
    /\ host' = Cancelled(host)
    /\ UNCHANGED <<closed, windowVars, postVars, content, contentEpoch, focusRoot, frame, stale, mode, fault>>

LEMMA CommitEffect ==
  ASSUME PostInv, RestType, NEW f, Returning(f), f.op = "put", Commits(f),
         StartRebuild(host', window, TRUE, TRUE, Tail(stack), content, contentEpoch)
  PROVE  StartsOn(Tail(stack), TRUE, TRUE) /\ RestType'
<1>1. host' \in HostStates /\ size' \in Sizes
  BY Facts, HostFields DEF Commits, windowVars
<1>2. StartsOn(Tail(stack), TRUE, TRUE)
  BY <1>1, Facts, StartsFrom DEF Commits, windowVars
<1>3. stack' \in Seq(Calls) /\ unlaid' \in BOOLEAN
  BY <1>2, FrameFacts, Facts, StartsType
<1>4. f.value \in MaybeRoots
  BY FrameFacts, CallKinds DEF Puts
<1>5. sinks' \in SUBSET Roots /\ rooted' \in SUBSET Roots
  BY <1>4 DEF Commits, Released, RestType, MaybeRoots
<1> QED BY <1>2, <1>3, <1>5 DEF RestType, Commits, Returning, windowVars

LEMMA ReleaseEffect ==
  ASSUME PostInv, RestType, NEW f, Returning(f), f.op = "close", f.phase = "focus",
         contentEpoch' = contentEpoch + 1, stack' = <<[f EXCEPT !.phase = "detach"]>> \o Tail(stack),
         UNCHANGED <<closed, windowVars, host, postVars, content, focusRoot, sinks, rooted, frameVars>>
  PROVE  /\ \E g \in Closes : Replaced(g) /\ g.op = "close" /\ g.phase = "detach"
         /\ RestType'
<1> DEFINE g == [f EXCEPT !.phase = "detach"]
<1>1. f \in Closes
  BY FrameFacts, CallKinds
<1>2. g \in Closes /\ g.op = "close" /\ g.phase = "detach"
  BY <1>1 DEF Closes
<1>3. Replaced(g)
  BY <1>2, FrameFacts, RebuildIsCall
<1>4. stack' \in Seq(Calls)
  BY <1>3, Facts, ReplacedCalls
<1>5. RestType'
  BY <1>4 DEF RestType, Returning, windowVars, frameVars
<1> QED BY <1>2, <1>3, <1>5

LEMMA DetachEffect ==
  ASSUME PostInv, RestType, NEW f, Returning(f), f.op = "close", FinishClose(f, Tail(stack)), f.phase = "detach"
  PROVE  /\ UNCHANGED <<closed, size, contentEpoch, stale, unlaid, mode, fault, poster>>
         /\ content' = None /\ rooted' = rooted \ {content} /\ sinks' = sinks \ {content}
         /\ Popped
         /\ window' = 0
         /\ \/ UNCHANGED <<windowVars, host, queue, frame>>
            \/ host' = Disabled(host) /\ queue' = {}
         /\ frame'.gen = frame.gen
         /\ RestType'
<1>1. /\ UNCHANGED <<closed, contentEpoch, mode, fault, calls>>
      /\ content' = None /\ rooted' = rooted \ {content} /\ sinks' = sinks \ {content}
      /\ focusRoot' = (IF focusRoot = content THEN None ELSE focusRoot)
      /\ stack' = Tail(stack)
      /\ IF window # 0 THEN WindowGone ELSE UNCHANGED <<windowVars, host, postVars, frameVars>>
  BY DEF FinishClose, DetachAndReleaseContent, Returning
<1>2. Popped
  BY <1>1, FrameFacts
<1>3. stack' \in Seq(Calls)
  BY <1>2, Facts, PoppedCalls
<1>4. /\ UNCHANGED <<size, stale, unlaid, poster>> /\ window' = 0
      /\ \/ UNCHANGED <<windowVars, host, queue, frame>>
         \/ host' = Disabled(host) /\ queue' = {}
      /\ frame'.gen = frame.gen /\ frame' \in FrameRecords
  <2>1. CASE window # 0
    BY <1>1, <2>1, GoneFrame DEF WindowGone
  <2>2. CASE window = 0
    BY <1>1, <2>2 DEF windowVars, postVars, frameVars, RestType
  <2> QED BY <2>1, <2>2
<1>5. sinks' \in SUBSET Roots /\ rooted' \in SUBSET Roots /\ content' \in MaybeRoots /\ focusRoot' \in MaybeRoots
  BY <1>1 DEF RestType, MaybeRoots
<1> QED BY <1>1, <1>2, <1>3, <1>4, <1>5 DEF RestType

LEMMA LeaveEffect ==
  ASSUME PostInv, RestType, NEW f, Returning(f), f.op = "destroy", stack' = Tail(stack),
         UNCHANGED <<closed, windowVars, host, postVars, treeVars, frameVars>>
  PROVE  Popped /\ RestType'
<1>1. Popped
  BY FrameFacts
<1>2. stack' \in Seq(Calls)
  BY <1>1, Facts, PoppedCalls
<1> QED BY <1>1, <1>2 DEF RestType, Returning, windowVars, treeVars, frameVars

(* A step either leaves the calls, the tree and the frame alone...         *)
Aside ==
    /\ UNCHANGED <<closed, windowVars, treeVars, frame, mode, fault, stack>>
    /\ host'.enabled = host.enabled /\ host'.epoch = host.epoch

(* ... or starts a rebuild on the calls under way...                       *)
Begins ==
    /\ UNCHANGED <<closed, treeVars, frame, mode, fault>>
    /\ \E layout, replacing \in BOOLEAN :
          /\ StartsOn(stack, layout, replacing)
          /\ \/ UNCHANGED window /\ host'.enabled = host.enabled /\ host'.epoch = host.epoch
                /\ (size' = size \/ ~host'.posted)
             \/ /\ replacing /\ ~closed /\ window = 0 /\ window' # 0
                /\ host'.enabled /\ host'.epoch = host.epoch + 1

(* ... or is one of the branches of Return.                                *)
Drops(f) ==
    /\ ~TransactionIsCurrent(f)
    /\ sinks' = Released(f, sinks) /\ rooted' = Released(f, rooted)
    /\ UNCHANGED <<closed, windowVars, host, postVars, content, contentEpoch, focusRoot, frameVars>>
Reverts(f) ==
    /\ TransactionIsCurrent(f) /\ ~f.attached
    /\ content' = f.prev /\ contentEpoch' = contentEpoch + 1 /\ sinks' = sinks \ {f.value}
    /\ UNCHANGED <<closed, windowVars, host, postVars, focusRoot, rooted, frameVars>>
Releases ==
    /\ contentEpoch' = contentEpoch + 1
    /\ UNCHANGED <<closed, windowVars, host, postVars, content, focusRoot, sinks, rooted, frameVars>>

ReturnsAs(f) ==
    \/ f.op = "rebuild" /\ FinishRebuild(f, Tail(stack))
    \/ f.op = "put" /\ f.phase # "done" /\ ResumeAttach(f, Tail(stack))
    \/ f.op = "put" /\ Drops(f) /\ stack' = Tail(stack)
    \/ f.op = "put" /\ Reverts(f) /\ stack' = Tail(stack)
    \/ f.op = "put" /\ Commits(f)
       /\ StartRebuild(host', window, TRUE, TRUE, Tail(stack), content, contentEpoch)
    \/ f.op = "close" /\ f.phase = "focus" /\ Releases
       /\ stack' = <<[f EXCEPT !.phase = "detach"]>> \o Tail(stack)
    \/ f.op = "close" /\ f.phase = "detach" /\ FinishClose(f, Tail(stack))
    \/ f.op = "destroy" /\ stack' = Tail(stack)
       /\ UNCHANGED <<closed, windowVars, host, postVars, treeVars, frameVars>>

LEMMA ReturnCases ==
  ASSUME PostInv, RestType, Return
  PROVE  \E f \in Calls : Returning(f) /\ ReturnsAs(f)
<1> DEFINE f == Head(stack)
<1>1. stack # <<>> /\ UNCHANGED <<mode, fault, calls>>
  BY DEF Return
<1>2. f \in Calls /\ Returning(f)
  BY <1>1, Facts, TopCall DEF Returning
<1>3. ASSUME FinishPut(f, Tail(stack))
      PROVE  \/ Drops(f) /\ stack' = Tail(stack)
             \/ Reverts(f) /\ stack' = Tail(stack)
             \/ Commits(f) /\ StartRebuild(host', window, TRUE, TRUE, Tail(stack), content, contentEpoch)
  BY <1>1, <1>3 DEF FinishPut, Drops, Reverts, Commits, windowVars
<1>4. ASSUME FinishClose(f, Tail(stack))
      PROVE  \/ f.phase = "focus" /\ Releases /\ stack' = <<[f EXCEPT !.phase = "detach"]>> \o Tail(stack)
             \/ f.phase = "detach"
  BY <1>4 DEF FinishClose, Releases
<1>5. \/ f.op = "rebuild" /\ FinishRebuild(f, Tail(stack))
      \/ f.op = "put" /\ f.phase # "done" /\ ResumeAttach(f, Tail(stack))
      \/ f.op = "put" /\ FinishPut(f, Tail(stack))
      \/ f.op = "close" /\ FinishClose(f, Tail(stack))
      \/ f.op = "destroy" /\ stack' = Tail(stack)
         /\ UNCHANGED <<closed, windowVars, host, postVars, treeVars, frameVars>>
  BY DEF Return
<1> HIDE DEF f
<1> QED BY <1>2, <1>3, <1>4, <1>5 DEF ReturnsAs

LEMMA NextCases ==
  ASSUME PostInv, RestType, [Next]_vars
  PROVE  \/ Return
         \/ Begins /\ RestType'
         \/ \E v \in MaybeRoots : PutContent(v)
         \/ OnWindowDestroyed
         \/ Close
         \/ Aside /\ RestType'
<1>1. CASE Return
  BY <1>1
<1>2. CASE Invalidate
  BY <1>2, InvalidateEffect DEF Invalidate, Aside, frameVars
<1>3. ASSUME NEW g \in queue, Dispatch(g)
      PROVE  (Aside \/ Begins) /\ RestType'
  <2>1. /\ UNCHANGED <<closed, windowVars, poster, treeVars, frame, stale, mode, fault, calls>>
        /\ host'.enabled = host.enabled /\ host'.epoch = host.epoch
        /\ UNCHANGED <<host, stack, unlaid>> \/ StartsOn(stack, host.dirty, FALSE)
        /\ RestType' /\ host.dirty \in BOOLEAN
    BY <1>3, DispatchEffect, Facts, HostFields
  <2>2. CASE UNCHANGED <<host, stack, unlaid>>
    BY <2>1, <2>2 DEF Aside
  <2>3. CASE StartsOn(stack, host.dirty, FALSE)
    <3>1. PICK d \in BOOLEAN : StartsOn(stack, d, FALSE)
      BY <2>1, <2>3
    <3>2. \E layout, replacing \in BOOLEAN : StartsOn(stack, layout, replacing)
      BY <3>1
    <3>3. UNCHANGED window /\ size' = size
      BY <2>1 DEF windowVars
    <3> QED BY <2>1, <3>2, <3>3 DEF Begins
  <2> QED BY <2>1, <2>2, <2>3
<1>4. ASSUME NEW s \in Sizes, OnSize(s)
      PROVE  Begins /\ RestType'
  <2>1. host'.enabled = host.enabled /\ host'.epoch = host.epoch /\ ~host'.posted
    <3>1. host \in HostStates /\ host' = Cancelled(host)
      BY <1>4, OnSizeEffect, Facts
    <3> QED BY <3>1, HostFields
  <2>2. PICK layout, replacing \in BOOLEAN : StartsOn(stack, layout, replacing)
    BY <1>4, OnSizeEffect
  <2> QED BY <1>4, <2>1, <2>2, OnSizeEffect DEF Begins
<1>5. ASSUME AttachToWindow
      PROVE  Begins /\ RestType'
  <2>1. host'.enabled /\ host'.epoch = host.epoch + 1
    BY <1>5, AttachEffect, Facts, HostFields
  <2>2. PICK layout, replacing \in BOOLEAN : StartsOn(stack, layout, replacing) /\ replacing
    BY <1>5, AttachEffect
  <2> QED BY <1>5, <2>1, <2>2, AttachEffect DEF Begins
<1>6. ASSUME NEW t \in Threads, NEW r \in Roots, NEW layout \in BOOLEAN, Mutate(t, r, layout)
      PROVE  Aside /\ RestType'
  BY <1>6, MutateEffect DEF Aside
<1>7. CASE UNCHANGED vars
  BY <1>7 DEF vars, Aside, RestType, windowVars, treeVars, frameVars
<1> QED BY <1>1, <1>2, <1>3, <1>4, <1>5, <1>6, <1>7 DEF Next

-----------------------------------------------------------------------------
Current(f) == f.op = "put" /\ f.epoch = contentEpoch
PutUnderWay == \E f \in Frames : Current(f)
Closing(phase) == \E f \in Frames : f.op = "close" /\ f.phase = phase
PutFrames == {f \in Frames : f.op = "put"}

GoodFrame(f) ==
    /\ f.op = "put" => f.epoch <= contentEpoch /\ (f.phase # "done" => f.attached)
    /\ f.op = "rebuild" => f.contentEpoch <= contentEpoch /\ f.expected <= frame.gen
    /\ f.op = "close" => closed
    /\ Current(f) =>
          /\ content = f.value
          /\ f.phase = "capture" => focusRoot = f.prevRoot
          /\ f.phase # "capture" /\ f.attached => focusRoot = f.value
          /\ ~f.attached => fault = "memory"
GoodFrames == \A f \in Frames : GoodFrame(f)
Ordered ==
    \A i, j \in 1..Len(stack) :
        i < j /\ stack[i].op = "put" /\ stack[j].op = "put" => stack[i].epoch > stack[j].epoch
CloseInv ==
    /\ closed /\ ~Closing("focus") => ~PutUnderWay
    /\ closed /\ ~Closing("focus") /\ ~Closing("detach") => window = 0 /\ content = None
    /\ Closing("detach") => ~PutUnderWay
    /\ host.enabled <=> window # 0 /\ ~closed
CallsInv == GoodFrames /\ Ordered /\ CloseInv

LEMMA FrameTypes ==
  ASSUME NEW f \in Calls
  PROVE  /\ f.op = "put" => f.epoch \in Nat /\ f.value \in MaybeRoots /\ f.prev \in MaybeRoots
         /\ f.op = "rebuild" => f.contentEpoch \in Nat /\ f.expected \in Nat /\ f.epoch \in Nat /\ f.size \in Sizes
                                /\ f.replacing \in BOOLEAN
BY CallKinds DEF Puts, Rebuilds

LEMMA FramesAreCalls ==
  ASSUME PostInv, RestType
  PROVE  Frames \subseteq Calls
BY Facts DEF Frames

LEMMA TopsOnly ==
  ASSUME PostInv, RestType, Ordered, NEW f, Returning(f), f.op = "put"
  PROVE  \A g \in Below : g.op = "put" => g.epoch < f.epoch
<1> SUFFICES ASSUME NEW i \in 2..Len(stack), stack[i].op = "put"
             PROVE  stack[i].epoch < f.epoch
  BY DEF Below
<1>1. f = stack[1] /\ Len(stack) \in Nat \ {0}
  BY FrameFacts, Facts, TopCall DEF Returning
<1>2. 1 \in 1..Len(stack) /\ i \in 1..Len(stack) /\ 1 < i
  BY <1>1
<1>3. stack[1].epoch > stack[i].epoch
  BY <1>1, <1>2 DEF Ordered
<1>4. stack[1] \in Calls /\ stack[i] \in Calls
  BY <1>2, Facts
<1>5. stack[1].epoch \in Nat /\ stack[i].epoch \in Nat
  BY <1>1, <1>4, FrameTypes
<1> QED BY <1>1, <1>3, <1>5

LEMMA OrderedPushed ==
  ASSUME PostInv, RestType, Ordered, NEW f, Pushed(f), f.op # "put" \/ \A g \in Frames : g.op = "put" => g.epoch < f.epoch
  PROVE  Ordered'
<1> SUFFICES ASSUME NEW i \in 1..Len(stack'), NEW j \in 1..Len(stack'),
                    i < j, stack'[i].op = "put", stack'[j].op = "put"
             PROVE  stack'[i].epoch > stack'[j].epoch
  BY DEF Ordered
<1>1. /\ Len(stack') = Len(stack) + 1 /\ Len(stack) \in Nat /\ stack'[1] = f
      /\ \A k \in 2..Len(stack') : k - 1 \in 1..Len(stack) /\ stack'[k] = stack[k - 1]
  BY Facts, PushedCalls
<1>2. j \in 2..Len(stack')
  BY <1>1
<1>3. j - 1 \in 1..Len(stack) /\ stack'[j] = stack[j - 1]
  BY <1>1, <1>2
<1>4. CASE i = 1
  <2>1. stack[j - 1] \in Frames
    BY <1>3 DEF Frames
  <2>2. stack[j - 1].epoch < f.epoch
    BY <1>1, <1>3, <1>4, <2>1
  <2>3. stack[j - 1].epoch \in Nat /\ f.epoch \in Nat
    BY <1>1, <1>3, <1>4, <2>1, FramesAreCalls, FrameTypes DEF Pushed
  <2> QED BY <1>1, <1>3, <1>4, <2>2, <2>3
<1>5. CASE i # 1
  <2>1. i \in 2..Len(stack')
    BY <1>5, <1>1
  <2>2. i - 1 \in 1..Len(stack) /\ stack'[i] = stack[i - 1] /\ i - 1 < j - 1
    BY <1>1, <2>1
  <2> QED BY <1>3, <2>2 DEF Ordered
<1> QED BY <1>4, <1>5

LEMMA OrderedPopped ==
  ASSUME PostInv, RestType, Ordered, Popped
  PROVE  Ordered'
<1> SUFFICES ASSUME NEW i \in 1..Len(stack'), NEW j \in 1..Len(stack'),
                    i < j, stack'[i].op = "put", stack'[j].op = "put"
             PROVE  stack'[i].epoch > stack'[j].epoch
  BY DEF Ordered
<1>1. /\ Len(stack') = Len(stack) - 1 /\ Len(stack) \in Nat \ {0}
      /\ \A k \in 1..Len(stack') : k + 1 \in 2..Len(stack) /\ stack'[k] = stack[k + 1]
  BY Facts, PoppedCalls
<1>2. /\ i + 1 \in 1..Len(stack) /\ j + 1 \in 1..Len(stack) /\ i + 1 < j + 1
      /\ stack'[i] = stack[i + 1] /\ stack'[j] = stack[j + 1]
  BY <1>1
<1> QED BY <1>2 DEF Ordered

LEMMA OrderedReplaced ==
  ASSUME PostInv, RestType, Ordered, NEW f, Replaced(f),
         f.op # "put" \/ (stack[1].op = "put" /\ stack[1].epoch = f.epoch)
  PROVE  Ordered'
<1> SUFFICES ASSUME NEW i \in 1..Len(stack'), NEW j \in 1..Len(stack'),
                    i < j, stack'[i].op = "put", stack'[j].op = "put"
             PROVE  stack'[i].epoch > stack'[j].epoch
  BY DEF Ordered
<1>1. /\ Len(stack') = Len(stack) /\ Len(stack) \in Nat \ {0} /\ stack'[1] = f
      /\ \A k \in 2..Len(stack') : stack'[k] = stack[k]
  BY Facts, ReplacedCalls
<1>2. j \in 2..Len(stack') /\ j \in 1..Len(stack) /\ i \in 1..Len(stack) /\ 1 \in 1..Len(stack)
  BY <1>1
<1>3. stack'[j] = stack[j]
  BY <1>1, <1>2
<1>4. CASE i = 1
  <2>1. stack[1].op = "put" /\ stack[1].epoch = f.epoch
    BY <1>1, <1>4
  <2>2. stack[1].epoch > stack[j].epoch
    BY <1>2, <1>3, <1>4, <2>1 DEF Ordered
  <2> QED BY <1>1, <1>3, <1>4, <2>1, <2>2
<1>5. CASE i # 1
  <2>1. i \in 2..Len(stack')
    BY <1>5, <1>1
  <2>2. stack'[i] = stack[i]
    BY <1>1, <2>1
  <2> QED BY <1>2, <1>3, <2>2 DEF Ordered
<1> QED BY <1>4, <1>5

(* A frame stays good while the epochs only grow and, for a transaction    *)
(* that is still current, the content and the focus root stay.             *)
LEMMA GoodKept ==
  ASSUME PostInv, RestType, RestType', NEW f \in Calls, GoodFrame(f),
         contentEpoch' >= contentEpoch, frame'.gen >= frame.gen,
         closed => closed', fault' = fault,
         Current(f)' => Current(f) /\ content' = content /\ focusRoot' = focusRoot
  PROVE  GoodFrame(f)'
<1>1. /\ f.op = "put" => f.epoch \in Nat
      /\ f.op = "rebuild" => f.contentEpoch \in Nat /\ f.expected \in Nat
  BY FrameTypes
<1>2. contentEpoch \in Nat /\ contentEpoch' \in Nat /\ frame.gen \in Nat /\ frame'.gen \in Nat
  BY DEF RestType, FrameRecords
<1>3. f.op = "put" => f.epoch <= contentEpoch' /\ (f.phase # "done" => f.attached)
  BY <1>1, <1>2 DEF GoodFrame
<1>4. f.op = "rebuild" => f.contentEpoch <= contentEpoch' /\ f.expected <= frame'.gen
  BY <1>1, <1>2 DEF GoodFrame
<1>5. f.op = "close" => closed'
  BY DEF GoodFrame
<1> QED BY <1>3, <1>4, <1>5 DEF GoodFrame, Current

(* The epoch of the content moves past every frame.                        *)
LEMMA NoneCurrent ==
  ASSUME PostInv, RestType, NEW f \in Calls, GoodFrame(f), contentEpoch' = contentEpoch + 1
  PROVE  ~Current(f)'
<1>1. /\ f.op = "put" => f.epoch \in Nat
      /\ contentEpoch \in Nat
  BY FrameTypes, Facts
<1> QED BY <1>1 DEF GoodFrame, Current

(* No transaction below the one at the top is current.                     *)
LEMMA NoneBelow ==
  ASSUME PostInv, RestType, CallsInv, NEW f, Returning(f), f.op = "put"
  PROVE  \A g \in Below : ~Current(g)
<1> SUFFICES ASSUME NEW g \in Below, g.op = "put" PROVE g.epoch # contentEpoch
  BY DEF Current
<1>1. g.epoch < f.epoch
  BY TopsOnly DEF CallsInv
<1>2. f \in Frames /\ g \in Frames
  BY FrameFacts, Facts, TopCall DEF Returning
<1>3. f.epoch <= contentEpoch
  BY <1>2 DEF CallsInv, GoodFrames, GoodFrame
<1>4. f.epoch \in Nat /\ g.epoch \in Nat /\ contentEpoch \in Nat
  BY <1>2, FramesAreCalls, FrameTypes, Facts
<1> QED BY <1>1, <1>3, <1>4

LEMMA CloseKept ==
  ASSUME CloseInv,
         \A phase \in {"focus", "detach"} : Closing(phase)' = Closing(phase),
         PutUnderWay' => PutUnderWay, closed' = closed, content' = content,
         closed => window' = window,
         host'.enabled <=> window' # 0 /\ ~closed'
  PROVE  CloseInv'
BY DEF CloseInv

LEMMA CallsAside ==
  ASSUME PostInv, RestType, RestType', CallsInv, Aside
  PROVE  CallsInv'
<1>1. UNCHANGED <<stack, closed, window, content, contentEpoch, focusRoot, frame, fault>> /\ host'.enabled = host.enabled
  BY DEF Aside, windowVars, treeVars
<1>2. Frames' = Frames
  BY <1>1 DEF Frames
<1>3. GoodFrames'
  <2> SUFFICES ASSUME NEW f \in Frames PROVE GoodFrame(f)'
    BY <1>2 DEF GoodFrames
  <2> QED BY <1>1 DEF CallsInv, GoodFrames, GoodFrame, Current
<1>4. Ordered'
  BY <1>1 DEF CallsInv, Ordered
<1>5. CloseInv'
  BY <1>1, <1>2 DEF CallsInv, CloseInv, Closing, PutUnderWay, Current
<1> QED BY <1>3, <1>4, <1>5 DEF CallsInv

(* A rebuild frame is good as it is made.                                  *)
LEMMA LatestIsGood ==
  ASSUME RestType', NEW r \in Rebuilds, NEW replacing, Latest(r, replacing)
  PROVE  GoodFrame(r)' /\ r.op = "rebuild" /\ ~Current(r)'
<1>1. contentEpoch' \in Nat /\ frame'.gen \in Nat
  BY DEF RestType, FrameRecords
<1>2. r.op = "rebuild" /\ r.contentEpoch = contentEpoch' /\ r.expected = frame'.gen
  BY DEF Latest
<1> QED BY <1>1, <1>2 DEF GoodFrame, Current

LEMMA CallsBegin ==
  ASSUME PostInv, RestType, RestType', CallsInv, Begins
  PROVE  CallsInv'
<1>1. UNCHANGED <<closed, content, contentEpoch, focusRoot, frame, fault>>
  BY DEF Begins, treeVars
<1>2. PICK layout \in BOOLEAN, replacing \in BOOLEAN :
          /\ StartsOn(stack, layout, replacing)
          /\ \/ UNCHANGED window /\ host'.enabled = host.enabled
             \/ /\ replacing /\ ~closed /\ window = 0 /\ window' # 0
                /\ host'.enabled
  BY DEF Begins
<1>3. \A f \in Frames : f \in Calls /\ GoodFrame(f)' /\ (Current(f)' <=> Current(f))
  <2> SUFFICES ASSUME NEW f \in Frames
               PROVE  f \in Calls /\ GoodFrame(f)' /\ (Current(f)' <=> Current(f))
    OBVIOUS
  <2>1. f \in Calls
    BY FramesAreCalls
  <2>2. Current(f)' <=> Current(f)
    BY <1>1 DEF Current
  <2>3. GoodFrame(f)'
    BY <1>1 DEF CallsInv, GoodFrames, GoodFrame, Current
  <2> QED BY <2>1, <2>2, <2>3
<1>4. host'.enabled <=> window' # 0 /\ ~closed'
  BY <1>1, <1>2 DEF CallsInv, CloseInv
<1>5. closed => window' = window
  BY <1>2
<1>6. CASE window' # 0 /\ host'.enabled
  <2>1. PICK r \in Rebuilds : Latest(r, replacing) /\ stack' = <<r>> \o stack
    BY <1>2, <1>6 DEF StartsOn
  <2>2. Pushed(r)
    BY <2>1, RebuildIsCall DEF Pushed
  <2>3. Frames' = Frames \cup {r}
    BY <2>2, Facts, PushedCalls
  <2>4. GoodFrame(r)' /\ r.op = "rebuild" /\ ~Current(r)'
    BY <2>1, LatestIsGood
  <2>5. GoodFrames'
    BY <1>3, <2>3, <2>4 DEF GoodFrames
  <2>6. Ordered'
    BY <2>2, <2>4, OrderedPushed DEF CallsInv
  <2>7. \A phase \in {"focus", "detach"} : Closing(phase)' = Closing(phase)
    BY <2>3, <2>4 DEF Closing
  <2>8. PutUnderWay' => PutUnderWay
    BY <1>3, <2>3, <2>4 DEF PutUnderWay
  <2>9. CloseInv'
    BY <1>1, <1>4, <1>5, <2>7, <2>8, CloseKept DEF CallsInv
  <2> QED BY <2>5, <2>6, <2>9 DEF CallsInv
<1>7. CASE ~(window' # 0 /\ host'.enabled)
  <2>1. stack' = stack
    BY <1>2, <1>7 DEF StartsOn
  <2>2. Frames' = Frames
    BY <2>1 DEF Frames
  <2>3. GoodFrames'
    BY <1>3, <2>2 DEF GoodFrames
  <2>4. Ordered'
    BY <2>1 DEF CallsInv, Ordered
  <2>5. \A phase \in {"focus", "detach"} : Closing(phase)' = Closing(phase)
    BY <2>2 DEF Closing
  <2>6. PutUnderWay' => PutUnderWay
    BY <1>3, <2>2 DEF PutUnderWay
  <2>7. CloseInv'
    BY <1>1, <1>4, <1>5, <2>5, <2>6, CloseKept DEF CallsInv
  <2> QED BY <2>3, <2>4, <2>7 DEF CallsInv
<1> QED BY <1>6, <1>7

LEMMA CallsPut ==
  ASSUME PostInv, RestType, CallsInv, NEW v \in MaybeRoots, PutContent(v)
  PROVE  CallsInv'
<1>1. /\ UNCHANGED <<closed, window, host, frame, fault>> /\ ~closed
      /\ content' = v /\ contentEpoch' = contentEpoch + 1
      /\ RestType'
  BY PutEffect DEF windowVars
<1>2. PICK phase \in {"capture", "done"} :
               /\ Pushed(Put(v, phase, contentEpoch + 1))
               /\ focusRoot' = IF phase = "capture" THEN focusRoot ELSE v
  BY PutEffect
<1> DEFINE p == Put(v, phase, contentEpoch + 1)
<1>3. /\ p.op = "put" /\ p.value = v /\ p.phase = phase /\ p.epoch = contentEpoch + 1 /\ p.prevRoot = focusRoot
      /\ p.attached
  BY DEF Put
<1>4. PICK f : f = p
  OBVIOUS
<1>5. Pushed(f)
  BY <1>2, <1>4
<1>6. Frames' = Frames \cup {f}
  BY <1>5, Facts, PushedCalls
<1>7. contentEpoch \in Nat /\ frame.gen \in Nat
  BY Facts
<1>8. \A g \in Frames : g \in Calls /\ GoodFrame(g) /\ ~Current(g)'
  BY <1>1, FramesAreCalls, NoneCurrent DEF CallsInv, GoodFrames
<1>9. \A g \in Frames : GoodFrame(g)'
  BY <1>1, <1>7, <1>8, GoodKept
<1>10. GoodFrame(f)'
  <2>1. f.op = "put" /\ f.epoch = contentEpoch' /\ f.value = content' /\ f.attached
    BY <1>1, <1>3, <1>4
  <2>2. f.phase = "capture" => focusRoot' = f.prevRoot
    BY <1>2, <1>3, <1>4
  <2>3. f.phase # "capture" => focusRoot' = f.value
    BY <1>2, <1>3, <1>4
  <2>4. f.epoch <= contentEpoch'
    BY <1>1, <1>7, <2>1
  <2> QED BY <2>1, <2>2, <2>3, <2>4 DEF GoodFrame
<1>11. GoodFrames'
  BY <1>6, <1>9, <1>10 DEF GoodFrames
<1>12. Ordered'
  <2>1. f.epoch = contentEpoch + 1
    BY <1>3, <1>4
  <2>2. \A g \in Frames : g.op = "put" => g.epoch < f.epoch
    BY <1>7, <1>8, <2>1, FrameTypes DEF GoodFrame
  <2> QED BY <1>5, <2>2, OrderedPushed DEF CallsInv
<1>13. CloseInv'
  <2>1. \A g \in Frames : g.op # "close"
    BY <1>1, <1>8 DEF GoodFrame
  <2>2. ~Closing("focus")' /\ ~Closing("detach")'
    BY <1>3, <1>4, <1>6, <2>1 DEF Closing
  <2> QED BY <1>1, <2>2 DEF CallsInv, CloseInv
<1> QED BY <1>11, <1>12, <1>13 DEF CallsInv

LEMMA CallsDestroyed ==
  ASSUME PostInv, RestType, CallsInv, OnWindowDestroyed
  PROVE  CallsInv'
<1>1. /\ UNCHANGED <<closed, content, contentEpoch, focusRoot, fault>>
      /\ window' = 0 /\ ~host'.enabled /\ Pushed(Losing) /\ RestType'
      /\ frame'.gen = frame.gen
  <2>1. host \in HostStates
    BY Facts
  <2> QED BY <2>1, DestroyedEffect, HostFields, GoneFrame DEF treeVars
<1>2. Frames' = Frames \cup {Losing} /\ Losing.op = "destroy"
  BY <1>1, Facts, PushedCalls DEF Losing
<1>3. \A f \in Frames : GoodFrame(f)' /\ (Current(f)' <=> Current(f))
  BY <1>1 DEF CallsInv, GoodFrames, GoodFrame, Current
<1>4. GoodFrame(Losing)' /\ ~Current(Losing)'
  BY <1>2 DEF GoodFrame, Current
<1>5. GoodFrames'
  BY <1>2, <1>3, <1>4 DEF GoodFrames
<1>6. Ordered'
  BY <1>1, <1>2, OrderedPushed DEF CallsInv
<1>7. \A phase \in {"focus", "detach"} : Closing(phase)' = Closing(phase)
  BY <1>2 DEF Closing
<1>8. PutUnderWay' => PutUnderWay
  BY <1>2, <1>3, <1>4 DEF PutUnderWay
<1>9. CloseInv'
  BY <1>1, <1>7, <1>8 DEF CallsInv, CloseInv
<1> QED BY <1>5, <1>6, <1>9 DEF CallsInv

LEMMA CallsClose ==
  ASSUME PostInv, RestType, CallsInv, Close
  PROVE  CallsInv'
<1>1. /\ UNCHANGED <<window, content, contentEpoch, focusRoot, frame, fault>>
      /\ ~closed /\ closed' /\ ~host'.enabled /\ RestType'
  <2>1. host \in HostStates
    BY Facts
  <2> QED BY <2>1, CloseEffect, HostFields DEF treeVars, windowVars, frameVars
<1>2. PICK f : Pushed(f) /\ f.op = "close" /\ f.phase = "focus"
  BY CloseEffect
<1>3. Frames' = Frames \cup {f}
  BY <1>2, Facts, PushedCalls
<1>4. \A g \in Frames : GoodFrame(g)' /\ g.op # "close"
  BY <1>1 DEF CallsInv, GoodFrames, GoodFrame, Current
<1>5. GoodFrame(f)'
  BY <1>1, <1>2 DEF GoodFrame, Current
<1>6. GoodFrames'
  BY <1>3, <1>4, <1>5 DEF GoodFrames
<1>7. Ordered'
  BY <1>2, OrderedPushed DEF CallsInv
<1>8. Closing("focus")' /\ ~Closing("detach")'
  BY <1>2, <1>3, <1>4 DEF Closing
<1>9. CloseInv'
  BY <1>1, <1>8 DEF CloseInv
<1> QED BY <1>6, <1>7, <1>9 DEF CallsInv

(* A step that pops a call, or replaces it by one of the same kind.        *)
LEMMA BelowIsGood ==
  ASSUME PostInv, RestType, CallsInv, NEW f, Returning(f)
  PROVE  /\ f \in Calls /\ f \in Frames /\ GoodFrame(f) /\ Frames = Below \cup {f}
         /\ \A g \in Below : g \in Frames /\ g \in Calls /\ GoodFrame(g)
<1>1. Frames = Below \cup {f}
  BY Facts, TopCall DEF Returning
<1> QED BY <1>1, FramesAreCalls DEF CallsInv, GoodFrames

LEMMA CallsPopped ==
  ASSUME PostInv, RestType, RestType', CallsInv, NEW f, Returning(f), Popped, f.op # "close",
         UNCHANGED <<closed, window, content, contentEpoch, focusRoot>>,
         host'.enabled = host.enabled, frame'.gen >= frame.gen
  PROVE  CallsInv'
<1>1. Frames' = Below
  BY Facts, PoppedCalls
<1>2. contentEpoch \in Nat /\ fault' = fault
  BY Facts DEF Returning
<1>3. \A g \in Below : GoodFrame(g)' /\ (Current(g)' <=> Current(g))
  <2> SUFFICES ASSUME NEW g \in Below PROVE GoodFrame(g)' /\ (Current(g)' <=> Current(g))
    OBVIOUS
  <2>1. Current(g)' <=> Current(g)
    BY DEF Current
  <2>2. contentEpoch' >= contentEpoch
    BY <1>2
  <2> QED BY <1>2, <2>1, <2>2, BelowIsGood, GoodKept
<1>4. GoodFrames'
  BY <1>1, <1>3 DEF GoodFrames
<1>5. Ordered'
  BY OrderedPopped DEF CallsInv
<1>6. \A phase \in {"focus", "detach"} : Closing(phase)' = Closing(phase)
  BY <1>1, BelowIsGood DEF Closing
<1>7. PutUnderWay' => PutUnderWay
  BY <1>1, <1>3, BelowIsGood DEF PutUnderWay
<1>8. CloseInv'
  BY <1>6, <1>7 DEF CallsInv, CloseInv
<1> QED BY <1>4, <1>5, <1>8 DEF CallsInv

LEMMA CallsResume ==
  ASSUME PostInv, RestType, CallsInv, NEW f, Returning(f), f.op = "put", f.phase # "done",
         ResumeAttach(f, Tail(stack))
  PROVE  CallsInv'
<1>1. /\ UNCHANGED <<closed, window, host, content, contentEpoch, frame, fault>> /\ RestType'
  BY ResumeEffect DEF windowVars, frameVars
<1>2. PICK g \in Puts :
               /\ Replaced(g)
               /\ g.op = "put" /\ g.value = f.value /\ g.epoch = f.epoch
               /\ g.phase # "capture"
               /\ Resumes(f, g)
  BY ResumeEffect
<1>3. Frames' = Below \cup {g} /\ stack[1] = f
  BY <1>2, Facts, ReplacedCalls, FrameFacts
<1>4. contentEpoch \in Nat /\ frame.gen \in Nat
  BY Facts
<1>5. \A h \in Below : ~Current(h) /\ ~Current(h)'
  BY <1>1, NoneBelow DEF Current
<1>6. \A h \in Below : GoodFrame(h)'
  <2> SUFFICES ASSUME NEW h \in Below PROVE GoodFrame(h)'
    OBVIOUS
  <2>1. contentEpoch' >= contentEpoch /\ frame'.gen >= frame.gen
    BY <1>1, <1>4
  <2> QED BY <1>1, <1>5, <2>1, BelowIsGood, GoodKept
<1>7. GoodFrame(f) /\ f \in Puts /\ f.phase \in {"capture", "focus"}
  BY BelowIsGood, CallKinds DEF Puts
<1>8. Current(g)' <=> Current(f)
  BY <1>1, <1>2 DEF Current
<1>9. GoodFrame(g)'
  <2>4. g.phase # "done" => g.attached
    <3>1. f.attached
      BY <1>7 DEF GoodFrame
    <3> QED BY <1>2, <3>1 DEF Resumes
  <2>1. g.epoch <= contentEpoch'
    BY <1>1, <1>2, <1>7 DEF GoodFrame
  <2>2. ASSUME Current(f)
        PROVE  /\ content = f.value
               /\ f.phase = "capture" => focusRoot = f.prevRoot
               /\ f.phase = "focus" /\ f.attached => focusRoot = f.value
               /\ ~f.attached => fault = "memory"
    BY <1>7, <2>2 DEF GoodFrame
  <2>3. ASSUME Current(f)
        PROVE  /\ content' = g.value
               /\ g.attached => focusRoot' = g.value
               /\ ~g.attached => fault' = "memory"
    <3>1. CASE f.phase = "capture"
      BY <1>1, <1>2, <2>2, <2>3, <3>1 DEF Resumes
    <3>2. CASE f.phase = "focus"
      <4>1. f.attached
        BY <1>7, <3>2 DEF GoodFrame
      <4> QED BY <1>1, <1>2, <2>2, <2>3, <3>2, <4>1 DEF Resumes
    <3> QED BY <1>7, <3>1, <3>2
  <2> QED BY <1>2, <1>8, <2>1, <2>3, <2>4 DEF GoodFrame
<1>10. GoodFrames'
  BY <1>3, <1>6, <1>9 DEF GoodFrames
<1>11. Ordered'
  BY <1>2, <1>3, OrderedReplaced, RebuildIsCall DEF CallsInv
<1>12. \A phase \in {"focus", "detach"} : Closing(phase)' = Closing(phase)
  BY <1>2, <1>3, BelowIsGood DEF Closing
<1>13. PutUnderWay' => PutUnderWay
  BY <1>3, <1>5, <1>8, BelowIsGood DEF PutUnderWay
<1>14. CloseInv'
  BY <1>1, <1>12, <1>13 DEF CallsInv, CloseInv
<1> QED BY <1>10, <1>11, <1>14 DEF CallsInv

LEMMA CallsRevert ==
  ASSUME PostInv, RestType, CallsInv, NEW f, Returning(f), f.op = "put", Reverts(f), stack' = Tail(stack)
  PROVE  CallsInv' /\ RestType' /\ Popped /\ Current(f) /\ fault = "memory"
<1>1. Popped /\ RestType'
  BY RevertEffect DEF Reverts
<1>2. Frames' = Below
  BY <1>1, Facts, PoppedCalls
<1>3. UNCHANGED <<closed, window, host, frame, fault>> /\ contentEpoch' = contentEpoch + 1
  BY DEF Reverts, Returning, windowVars, frameVars
<1>4. Current(f) /\ fault = "memory"
  BY BelowIsGood DEF Reverts, TransactionIsCurrent, Current, GoodFrame
<1>5. contentEpoch \in Nat /\ frame.gen \in Nat
  BY Facts
<1>6. \A g \in Below : GoodFrame(g)' /\ ~Current(g)'
  <2> SUFFICES ASSUME NEW g \in Below PROVE GoodFrame(g)' /\ ~Current(g)'
    OBVIOUS
  <2>1. ~Current(g)'
    BY <1>3, BelowIsGood, NoneCurrent
  <2>2. contentEpoch' >= contentEpoch /\ frame'.gen >= frame.gen
    BY <1>3, <1>5
  <2> QED BY <1>1, <1>3, <2>1, <2>2, BelowIsGood, GoodKept
<1>7. GoodFrames'
  BY <1>2, <1>6 DEF GoodFrames
<1>8. Ordered'
  BY <1>1, OrderedPopped DEF CallsInv
<1>9. \A phase \in {"focus", "detach"} : Closing(phase)' = Closing(phase)
  BY <1>2, BelowIsGood DEF Closing
<1>10. ~PutUnderWay' /\ PutUnderWay
  BY <1>2, <1>4, <1>6, BelowIsGood DEF PutUnderWay
<1>11. CloseInv'
  BY <1>3, <1>9, <1>10 DEF CallsInv, CloseInv
<1> QED BY <1>1, <1>4, <1>7, <1>8, <1>11 DEF CallsInv

LEMMA CallsCommit ==
  ASSUME PostInv, RestType, CallsInv, NEW f, Returning(f), f.op = "put", Commits(f),
         StartRebuild(host', window, TRUE, TRUE, Tail(stack), content, contentEpoch)
  PROVE  CallsInv'
<1>1. StartsOn(Tail(stack), TRUE, TRUE) /\ RestType'
  BY CommitEffect
<1>2. UNCHANGED <<closed, window, content, contentEpoch, focusRoot, frame, fault>> /\ host'.enabled = host.enabled
  BY Facts, HostFields DEF Commits, windowVars
<1>3. CASE window' # 0 /\ host'.enabled
  <2>1. PICK r \in Rebuilds : Latest(r, TRUE) /\ stack' = <<r>> \o Tail(stack)
    BY <1>1, <1>3 DEF StartsOn
  <2>2. Replaced(r) /\ r.op = "rebuild"
    BY <2>1, FrameFacts, RebuildIsCall DEF Latest
  <2>3. Frames' = Below \cup {r}
    BY <2>2, Facts, ReplacedCalls
  <2>4. GoodFrame(r)' /\ ~Current(r)'
    BY <1>1, <2>1, LatestIsGood
  <2>5. \A g \in Below : GoodFrame(g)' /\ (Current(g)' <=> Current(g))
    BY <1>2, BelowIsGood DEF GoodFrame, Current
  <2>6. GoodFrames'
    BY <2>3, <2>4, <2>5 DEF GoodFrames
  <2>7. Ordered'
    BY <2>2, OrderedReplaced DEF CallsInv
  <2>8. \A phase \in {"focus", "detach"} : Closing(phase)' = Closing(phase)
    BY <2>2, <2>3, BelowIsGood DEF Closing
  <2>9. PutUnderWay' => PutUnderWay
    BY <2>3, <2>4, <2>5, BelowIsGood DEF PutUnderWay
  <2>10. CloseInv'
    BY <1>2, <2>8, <2>9 DEF CallsInv, CloseInv
  <2> QED BY <2>6, <2>7, <2>10 DEF CallsInv
<1>4. CASE ~(window' # 0 /\ host'.enabled)
  <2>1. stack' = Tail(stack)
    BY <1>1, <1>4 DEF StartsOn
  <2>2. Popped
    BY <2>1, FrameFacts
  <2>3. frame'.gen >= frame.gen
    BY <1>2, Facts
  <2> QED BY <1>1, <1>2, <2>2, <2>3, CallsPopped
<1> QED BY <1>3, <1>4

LEMMA CallsRelease ==
  ASSUME PostInv, RestType, CallsInv, NEW f, Returning(f), f.op = "close", f.phase = "focus", Releases,
         stack' = <<[f EXCEPT !.phase = "detach"]>> \o Tail(stack)
  PROVE  CallsInv' /\ ~PutUnderWay'
<1>1. RestType'
  BY ReleaseEffect DEF Releases
<1>2. PICK g \in Closes : Replaced(g) /\ g.op = "close" /\ g.phase = "detach"
  BY ReleaseEffect DEF Releases
<1>3. Frames' = Below \cup {g}
  BY <1>2, Facts, ReplacedCalls
<1>4. /\ UNCHANGED <<closed, window, host, content, focusRoot, frame, fault>> /\ contentEpoch' = contentEpoch + 1
      /\ contentEpoch \in Nat /\ frame.gen \in Nat
  BY Facts DEF Releases, Returning, windowVars, frameVars
<1>5. \A h \in Below : GoodFrame(h)' /\ ~Current(h)'
  <2> SUFFICES ASSUME NEW h \in Below PROVE GoodFrame(h)' /\ ~Current(h)'
    OBVIOUS
  <2>1. ~Current(h)'
    BY <1>4, BelowIsGood, NoneCurrent
  <2>2. contentEpoch' >= contentEpoch /\ frame'.gen >= frame.gen
    BY <1>4
  <2> QED BY <1>1, <1>4, <2>1, <2>2, BelowIsGood, GoodKept
<1>6. closed
  BY BelowIsGood DEF GoodFrame
<1>7. GoodFrame(g)' /\ ~Current(g)'
  BY <1>2, <1>4, <1>6 DEF GoodFrame, Current
<1>8. GoodFrames' /\ ~PutUnderWay'
  BY <1>3, <1>5, <1>7 DEF GoodFrames, PutUnderWay
<1>9. Ordered'
  BY <1>2, OrderedReplaced DEF CallsInv
<1>10. Closing("detach")'
  BY <1>2, <1>3 DEF Closing
<1>11. CloseInv'
  BY <1>4, <1>6, <1>8, <1>10 DEF CallsInv, CloseInv
<1> QED BY <1>8, <1>9, <1>11 DEF CallsInv

LEMMA CallsDetach ==
  ASSUME PostInv, RestType, CallsInv, NEW f, Returning(f), f.op = "close", FinishClose(f, Tail(stack)), f.phase = "detach"
  PROVE  CallsInv' /\ ~PutUnderWay /\ closed
<1>1. /\ UNCHANGED <<closed, contentEpoch, fault>> /\ content' = None /\ window' = 0 /\ frame'.gen = frame.gen
      /\ Popped /\ RestType'
  BY DetachEffect
<1>2. Frames' = Below
  BY <1>1, Facts, PoppedCalls
<1>3. ~PutUnderWay /\ closed
  BY BelowIsGood DEF CallsInv, CloseInv, Closing, GoodFrame
<1>4. \A h \in Below : ~Current(h)' /\ GoodFrame(h)'
  <2> SUFFICES ASSUME NEW h \in Below PROVE ~Current(h)' /\ GoodFrame(h)'
    OBVIOUS
  <2>1. ~Current(h)'
    BY <1>1, <1>3, BelowIsGood DEF PutUnderWay, Current
  <2>2. contentEpoch' >= contentEpoch /\ frame'.gen >= frame.gen
    BY <1>1, Facts
  <2> QED BY <1>1, <2>1, <2>2, BelowIsGood, GoodKept
<1>5. GoodFrames' /\ ~PutUnderWay'
  BY <1>2, <1>4 DEF GoodFrames, PutUnderWay
<1>6. Ordered'
  BY <1>1, OrderedPopped DEF CallsInv
<1>7. ~host'.enabled
  <2>1. ~host.enabled
    BY <1>3 DEF CallsInv, CloseInv
  <2>2. host' = host \/ host' = Disabled(host)
    BY DetachEffect
  <2> QED BY <2>1, <2>2, Facts, HostFields
<1>8. CloseInv'
  BY <1>1, <1>5, <1>7 DEF CloseInv
<1> QED BY <1>3, <1>5, <1>6, <1>8 DEF CallsInv

LEMMA CallsRebuilt ==
  ASSUME PostInv, RestType, CallsInv, NEW f, Returning(f), f.op = "rebuild", FinishRebuild(f, Tail(stack))
  PROVE  CallsInv'
<1>1. /\ UNCHANGED <<closed, window, host, content, contentEpoch, focusRoot>> /\ Popped /\ RestType'
  BY RebuildEffect DEF windowVars, treeVars
<1>2. frame'.gen >= frame.gen
  BY RebuildEffect, Facts
<1> QED BY <1>1, <1>2, CallsPopped

LEMMA CallsReturn ==
  ASSUME PostInv, RestType, CallsInv, Return
  PROVE  CallsInv' /\ RestType'
<1>1. PICK f \in Calls : Returning(f) /\ ReturnsAs(f)
  BY ReturnCases
<1>2. CASE f.op = "rebuild" /\ FinishRebuild(f, Tail(stack))
  BY <1>1, <1>2, CallsRebuilt, RebuildEffect
<1>3. CASE f.op = "put" /\ f.phase # "done" /\ ResumeAttach(f, Tail(stack))
  BY <1>1, <1>3, CallsResume, ResumeEffect
<1>4. CASE f.op = "put" /\ Drops(f) /\ stack' = Tail(stack)
  <2>1. Popped /\ RestType'
    BY <1>1, <1>4, DropEffect DEF Drops
  <2>2. UNCHANGED <<closed, window, host, content, contentEpoch, focusRoot, frame>> /\ frame'.gen >= frame.gen
    BY <1>4, Facts DEF Drops, windowVars, frameVars
  <2> QED BY <1>1, <1>4, <2>1, <2>2, CallsPopped
<1>5. CASE f.op = "put" /\ Reverts(f) /\ stack' = Tail(stack)
  BY <1>1, <1>5, CallsRevert
<1>6. CASE f.op = "put" /\ Commits(f)
                  /\ StartRebuild(host', window, TRUE, TRUE, Tail(stack), content, contentEpoch)
  BY <1>1, <1>6, CallsCommit, CommitEffect
<1>7. CASE f.op = "close" /\ f.phase = "focus" /\ Releases
                  /\ stack' = <<[f EXCEPT !.phase = "detach"]>> \o Tail(stack)
  BY <1>1, <1>7, CallsRelease, ReleaseEffect DEF Releases
<1>8. CASE f.op = "close" /\ f.phase = "detach" /\ FinishClose(f, Tail(stack))
  BY <1>1, <1>8, CallsDetach, DetachEffect
<1>9. CASE f.op = "destroy" /\ stack' = Tail(stack)
                  /\ UNCHANGED <<closed, windowVars, host, postVars, treeVars, frameVars>>
  <2>1. Popped /\ RestType'
    BY <1>1, <1>9, LeaveEffect
  <2>2. UNCHANGED <<closed, window, host, content, contentEpoch, focusRoot, frame>> /\ frame'.gen >= frame.gen
    BY <1>9, Facts DEF windowVars, frameVars, treeVars
  <2> QED BY <1>1, <1>9, <2>1, <2>2, CallsPopped
<1> QED BY <1>1, <1>2, <1>3, <1>4, <1>5, <1>6, <1>7, <1>8, <1>9 DEF ReturnsAs

LEMMA CallsStep ==
  ASSUME PostInv, RestType, CallsInv, [Next]_vars
  PROVE  CallsInv' /\ RestType'
<1>1. CASE Return
  BY <1>1, CallsReturn
<1>2. CASE Begins /\ RestType'
  BY <1>2, CallsBegin
<1>3. ASSUME NEW v \in MaybeRoots, PutContent(v)
      PROVE  CallsInv' /\ RestType'
  BY <1>3, CallsPut, PutEffect
<1>4. CASE OnWindowDestroyed
  BY <1>4, CallsDestroyed, DestroyedEffect
<1>5. CASE Close
  BY <1>5, CallsClose, CloseEffect
<1>6. CASE Aside /\ RestType'
  BY <1>6, CallsAside
<1> QED BY <1>1, <1>2, <1>3, <1>4, <1>5, <1>6, NextCases

LEMMA CallsInit ==
  ASSUME Init
  PROVE  CallsInv /\ RestType /\ Frames = {}
<1>1. stack = <<>> /\ Len(stack) = 0
  BY DEF Init
<1>2. Frames = {} /\ Ordered
  BY <1>1 DEF Frames, Ordered
<1>3. ~PutUnderWay /\ GoodFrames
  BY <1>2 DEF PutUnderWay, GoodFrames
<1>4. CloseInv
  <2>1. closed = FALSE /\ window = 0 /\ ~host.enabled
    BY DEF Init
  <2>2. ~Closing("detach") /\ ~Closing("focus")
    BY <1>2 DEF Closing
  <2> QED BY <1>3, <2>1, <2>2 DEF CloseInv
<1>5. RestType
  <2>1. frame \in FrameRecords /\ size \in Sizes
    BY DEF Init, FrameRecords, MaybeRoots
  <2>2. calls \in 0..MaxCalls
    BY BoundsAssumption DEF Init
  <2>3. stack \in Seq(Calls)
    BY <1>1
  <2>4. content \in MaybeRoots /\ focusRoot \in MaybeRoots /\ contentEpoch \in Nat
    BY DEF Init, MaybeRoots
  <2> QED BY <2>1, <2>2, <2>3, <2>4 DEF Init, RestType
<1> QED BY <1>2, <1>3, <1>4, <1>5 DEF CallsInv

-----------------------------------------------------------------------------
Former == {f.prev : f \in PutFrames}
RootInv ==
    /\ None \notin sinks /\ None \notin rooted
    /\ sinks \subseteq {content} \cup Former
    /\ rooted \subseteq {content} \cup Former
    /\ PutUnderWay => rooted \subseteq Former
    /\ fault # "memory" /\ content # None =>
          /\ content \in sinks
          /\ content \in rooted \/ closed \/ PutUnderWay
SafeInv == PostInv /\ RestType /\ CallsInv

LEMMA RootKept ==
  ASSUME RootInv, UNCHANGED <<content, sinks, rooted, fault, Former, PutUnderWay>>, closed => closed'
  PROVE  RootInv'
BY DEF RootInv

(* The calls, seen as transactions only.                                   *)
LEMMA PutsBegin ==
  ASSUME SafeInv, Begins
  PROVE  UNCHANGED <<Former, PutUnderWay>>
<1>1. PICK layout \in BOOLEAN, replacing \in BOOLEAN : StartsOn(stack, layout, replacing)
  BY DEF Begins
<1>2. contentEpoch' = contentEpoch
  BY DEF Begins, treeVars
<1>3. CASE stack' = stack
  BY <1>2, <1>3 DEF Former, PutFrames, PutUnderWay, Frames, Current
<1>4. CASE stack' # stack
  <2>1. PICK r \in Rebuilds : Latest(r, replacing) /\ stack' = <<r>> \o stack
    BY <1>1, <1>4 DEF StartsOn
  <2>2. Pushed(r) /\ r.op = "rebuild"
    BY <2>1, RebuildIsCall DEF Pushed, Latest
  <2>3. Frames' = Frames \cup {r}
    BY <2>2, Facts, PushedCalls DEF SafeInv
  <2> QED BY <1>2, <2>2, <2>3 DEF Former, PutFrames, PutUnderWay, Current
<1> QED BY <1>3, <1>4

LEMMA PutsPopped ==
  ASSUME SafeInv, NEW f, Returning(f), Popped, f.op # "put", contentEpoch' = contentEpoch
  PROVE  UNCHANGED <<Former, PutUnderWay>>
<1>1. Frames' = Below
  BY Facts, PoppedCalls DEF SafeInv
<1> QED BY <1>1, BelowIsGood DEF SafeInv, Former, PutFrames, PutUnderWay, Current

LEMMA PutPopped ==
  ASSUME SafeInv, NEW f, Returning(f), f.op = "put", contentEpoch' = contentEpoch,
         Popped \/ \E r : r.op # "put" /\ Replaced(r)
  PROVE  /\ Former = Former' \cup {f.prev}
         /\ ~PutUnderWay'
         /\ PutUnderWay = Current(f)
<1>1. Frames = Below \cup {f} /\ \A g \in Below : ~Current(g)
  BY NoneBelow, BelowIsGood DEF SafeInv
<1>2. CASE Popped
  <2>1. Frames' = Below
    BY <1>2, Facts, PoppedCalls DEF SafeInv
  <2> QED BY <1>1, <2>1 DEF Former, PutFrames, PutUnderWay, Current
<1>3. ASSUME NEW r, r.op # "put", Replaced(r)
      PROVE  /\ Former = Former' \cup {f.prev}
             /\ ~PutUnderWay'
             /\ PutUnderWay = Current(f)
  <2>1. Frames' = Below \cup {r}
    BY <1>3, Facts, ReplacedCalls DEF SafeInv
  <2> QED BY <1>1, <1>3, <2>1 DEF Former, PutFrames, PutUnderWay, Current
<1> QED BY <1>2, <1>3

LEMMA RootPut ==
  ASSUME SafeInv, RootInv, NEW v \in MaybeRoots, PutContent(v)
  PROVE  RootInv'
<1>1. /\ UNCHANGED <<closed, rooted, fault>> /\ ~closed
      /\ content' = v /\ contentEpoch' = contentEpoch + 1
      /\ sinks' = sinks \cup ({v} \ {None})
  BY PutEffect DEF SafeInv
<1>2. PICK phase : Pushed(Put(v, phase, contentEpoch + 1))
  BY PutEffect DEF SafeInv
<1>3. PICK f : f = Put(v, phase, contentEpoch + 1)
  OBVIOUS
<1>4. f.op = "put" /\ f.prev = content /\ f.epoch = contentEpoch'
  BY <1>1, <1>3 DEF Put
<1>5. Frames' = Frames \cup {f}
  BY <1>2, <1>3, Facts, PushedCalls DEF SafeInv
<1>6. Former' = Former \cup {content} /\ PutUnderWay'
  BY <1>4, <1>5 DEF Former, PutFrames, PutUnderWay, Current
<1>7. rooted' \subseteq Former' /\ sinks' \subseteq {content'} \cup Former'
  BY <1>1, <1>6 DEF RootInv
<1>8. None \notin sinks' /\ None \notin rooted' /\ (content' # None => content' \in sinks')
  BY <1>1 DEF RootInv
<1> QED BY <1>6, <1>7, <1>8 DEF RootInv

LEMMA RootResume ==
  ASSUME SafeInv, RootInv, NEW f, Returning(f), f.op = "put", f.phase # "done", ResumeAttach(f, Tail(stack))
  PROVE  RootInv'
<1>1. UNCHANGED <<closed, content, contentEpoch, sinks, rooted, fault>>
  BY ResumeEffect DEF SafeInv
<1>2. PICK g \in Puts : Replaced(g) /\ g.op = "put" /\ g.prev = f.prev /\ g.epoch = f.epoch
  BY ResumeEffect DEF SafeInv
<1>3. Frames' = Below \cup {g} /\ Frames = Below \cup {f}
  BY <1>2, Facts, ReplacedCalls, BelowIsGood DEF SafeInv
<1>4. Former' = Former /\ PutUnderWay' = PutUnderWay
  BY <1>1, <1>2, <1>3 DEF Former, PutFrames, PutUnderWay, Current
<1> QED BY <1>1, <1>4, RootKept

LEMMA RootDrop ==
  ASSUME SafeInv, RootInv, NEW f, Returning(f), f.op = "put", Drops(f), stack' = Tail(stack)
  PROVE  RootInv'
<1>1. /\ UNCHANGED <<closed, content, contentEpoch, fault>>
      /\ sinks' = Released(f, sinks) /\ rooted' = Released(f, rooted)
  BY DEF Drops, Returning
<1>2. Popped
  BY FrameFacts DEF SafeInv
<1>3. ~Current(f)
  BY BelowIsGood DEF SafeInv, GoodFrame, Drops, TransactionIsCurrent, Current
<1>4. Former = Former' \cup {f.prev} /\ ~PutUnderWay' /\ ~PutUnderWay
  BY <1>1, <1>2, <1>3, PutPopped
<1>5. \A s : s \subseteq {content} \cup Former /\ None \notin s
             => Released(f, s) \subseteq {content} \cup Former' /\ None \notin Released(f, s)
                /\ (content \in s => content \in Released(f, s))
  BY <1>4 DEF Released, Reattached
<1>6. /\ sinks' \subseteq {content} \cup Former' /\ None \notin sinks' /\ (content \in sinks => content \in sinks')
      /\ rooted' \subseteq {content} \cup Former' /\ None \notin rooted' /\ (content \in rooted => content \in rooted')
  BY <1>1, <1>5 DEF RootInv
<1> QED BY <1>1, <1>4, <1>6 DEF RootInv

LEMMA RootRevert ==
  ASSUME SafeInv, RootInv, NEW f, Returning(f), f.op = "put", Reverts(f), stack' = Tail(stack)
  PROVE  RootInv'
<1>1. /\ UNCHANGED <<closed, rooted, fault>> /\ content = f.value
      /\ content' = f.prev /\ sinks' = sinks \ {f.value}
  BY DEF Reverts, Returning, TransactionIsCurrent
<1>2. Popped /\ Current(f) /\ fault = "memory" /\ CallsInv'
  BY CallsRevert DEF SafeInv
<1>3. Frames' = Below /\ Frames = Below \cup {f}
  BY <1>2, Facts, PoppedCalls, BelowIsGood DEF SafeInv
<1>4. PutUnderWay /\ Former = Former' \cup {f.prev}
  BY <1>2, <1>3 DEF PutUnderWay, Former, PutFrames, Current
<1>5. contentEpoch' = contentEpoch + 1
  BY DEF Reverts
<1>6. ~PutUnderWay'
  BY <1>3, <1>5, BelowIsGood, NoneCurrent DEF SafeInv, PutUnderWay
<1> QED BY <1>1, <1>2, <1>4, <1>6 DEF RootInv

LEMMA RootCommit ==
  ASSUME SafeInv, RootInv, NEW f, Returning(f), f.op = "put", Commits(f),
         StartRebuild(host', window, TRUE, TRUE, Tail(stack), content, contentEpoch)
  PROVE  RootInv'
<1>1. /\ UNCHANGED <<closed, content, contentEpoch, fault>> /\ content = f.value
      /\ sinks' = Released(f, sinks) /\ rooted' = Released(f, rooted) \cup ({content} \ {None})
  BY DEF Commits, TransactionIsCurrent
<1>2. StartsOn(Tail(stack), TRUE, TRUE)
  BY CommitEffect DEF SafeInv
<1>3. Popped \/ \E r : r.op # "put" /\ Replaced(r)
  BY <1>2, FrameFacts, RebuildIsCall DEF SafeInv, StartsOn, Latest
<1>4. Former = Former' \cup {f.prev} /\ ~PutUnderWay'
  BY <1>1, <1>3, PutPopped
<1>5. \A s : s \subseteq {content} \cup Former /\ None \notin s
             => Released(f, s) \subseteq {content} \cup Former' /\ None \notin Released(f, s)
                /\ (content \in s => content \in Released(f, s))
  BY <1>4 DEF Released, Reattached
<1>6. /\ sinks' \subseteq {content} \cup Former' /\ None \notin sinks' /\ (content \in sinks => content \in sinks')
      /\ rooted' \subseteq {content} \cup Former' /\ None \notin rooted'
      /\ (content # None => content \in rooted')
  BY <1>1, <1>5 DEF RootInv
<1> QED BY <1>1, <1>4, <1>6 DEF RootInv

LEMMA RootRelease ==
  ASSUME SafeInv, RootInv, NEW f, Returning(f), f.op = "close", f.phase = "focus", Releases,
         stack' = <<[f EXCEPT !.phase = "detach"]>> \o Tail(stack)
  PROVE  RootInv'
<1>1. UNCHANGED <<closed, content, sinks, rooted, fault>>
  BY DEF Releases, Returning
<1>2. ~PutUnderWay' /\ closed
  BY CallsRelease, BelowIsGood DEF SafeInv, GoodFrame
<1>3. PICK g \in Closes : Replaced(g) /\ g.op = "close"
  BY ReleaseEffect DEF SafeInv, Releases
<1>4. Frames' = Below \cup {g} /\ Frames = Below \cup {f}
  BY <1>3, Facts, ReplacedCalls, BelowIsGood DEF SafeInv
<1>5. Former' = Former
  BY <1>3, <1>4 DEF Former, PutFrames
<1> QED BY <1>1, <1>2, <1>5 DEF RootInv

LEMMA RootDetach ==
  ASSUME SafeInv, RootInv, NEW f, Returning(f), f.op = "close", FinishClose(f, Tail(stack)), f.phase = "detach"
  PROVE  RootInv'
<1>1. /\ content' = None /\ rooted' = rooted \ {content} /\ sinks' = sinks \ {content} /\ contentEpoch' = contentEpoch
      /\ Popped
  BY DetachEffect DEF SafeInv
<1>2. UNCHANGED <<Former, PutUnderWay>>
  BY <1>1, PutsPopped
<1>3. ~PutUnderWay
  BY CallsDetach DEF SafeInv
<1> QED BY <1>1, <1>2, <1>3 DEF RootInv

LEMMA RootStep ==
  ASSUME SafeInv, RootInv, [Next]_vars
  PROVE  RootInv'
<1>1. CASE Return
  <2>1. PICK f \in Calls : Returning(f) /\ ReturnsAs(f)
    BY <1>1, ReturnCases DEF SafeInv
  <2>2. CASE f.op = "rebuild" /\ FinishRebuild(f, Tail(stack))
    <3>1. UNCHANGED <<closed, content, contentEpoch, sinks, rooted, fault>> /\ Popped
      BY <2>1, <2>2, RebuildEffect DEF SafeInv, treeVars
    <3>2. UNCHANGED <<Former, PutUnderWay>>
      BY <2>1, <2>2, <3>1, PutsPopped
    <3> QED BY <3>1, <3>2, RootKept
  <2>3. CASE f.op = "destroy" /\ stack' = Tail(stack)
                  /\ UNCHANGED <<closed, windowVars, host, postVars, treeVars, frameVars>>
    <3>1. UNCHANGED <<closed, content, contentEpoch, sinks, rooted, fault>> /\ Popped
      BY <2>1, <2>3, FrameFacts DEF SafeInv, treeVars, Returning
    <3>2. UNCHANGED <<Former, PutUnderWay>>
      BY <2>1, <2>3, <3>1, PutsPopped
    <3> QED BY <3>1, <3>2, RootKept
  <2> QED
    BY <2>1, <2>2, <2>3, RootResume, RootDrop, RootRevert, RootCommit, RootRelease, RootDetach DEF ReturnsAs
<1>2. CASE Begins
  <2>1. UNCHANGED <<closed, content, sinks, rooted, fault>>
    BY <1>2 DEF Begins, treeVars
  <2> QED BY <1>2, <2>1, PutsBegin, RootKept
<1>3. ASSUME NEW v \in MaybeRoots, PutContent(v)
      PROVE  RootInv'
  BY <1>3, RootPut
<1>4. CASE OnWindowDestroyed
  <2>1. UNCHANGED <<closed, content, contentEpoch, sinks, rooted, fault>> /\ Pushed(Losing)
    BY <1>4, DestroyedEffect DEF SafeInv, treeVars
  <2>2. Frames' = Frames \cup {Losing} /\ Losing.op = "destroy"
    BY <2>1, Facts, PushedCalls DEF Losing, SafeInv
  <2>3. UNCHANGED <<Former, PutUnderWay>>
    BY <2>1, <2>2 DEF Former, PutFrames, PutUnderWay, Current
  <2> QED BY <2>1, <2>3, RootKept
<1>5. CASE Close
  <2>1. UNCHANGED <<content, contentEpoch, sinks, rooted, fault>> /\ closed'
    BY <1>5, CloseEffect DEF SafeInv, treeVars
  <2>2. PICK f : Pushed(f) /\ f.op = "close"
    BY <1>5, CloseEffect DEF SafeInv
  <2>3. Frames' = Frames \cup {f}
    BY <2>2, Facts, PushedCalls DEF SafeInv
  <2>4. UNCHANGED <<Former, PutUnderWay>>
    BY <2>1, <2>2, <2>3 DEF Former, PutFrames, PutUnderWay, Current
  <2> QED BY <2>1, <2>4, RootKept
<1>6. CASE Aside
  <2>1. UNCHANGED <<closed, content, contentEpoch, sinks, rooted, fault, stack>>
    BY <1>6 DEF Aside, treeVars
  <2>2. UNCHANGED <<Former, PutUnderWay>>
    BY <2>1 DEF Former, PutFrames, PutUnderWay, Current, Frames
  <2> QED BY <2>1, <2>2, RootKept
<1> QED BY <1>1, <1>2, <1>3, <1>4, <1>5, <1>6, NextCases DEF SafeInv

LEMMA SafeStep ==
  ASSUME SafeInv, [Next]_vars
  PROVE  SafeInv'
BY CallsStep, NextStep DEF SafeInv

LEMMA SafeInit == Init => SafeInv /\ RootInv
<1> SUFFICES ASSUME Init PROVE SafeInv /\ RootInv
  OBVIOUS
<1>1. SafeInv /\ Frames = {}
  BY InitPost, CallsInit DEF SafeInv
<1>2. sinks = {} /\ rooted = {} /\ content = None
  BY DEF Init
<1>3. ~PutUnderWay
  BY <1>1 DEF PutUnderWay
<1> QED BY <1>1, <1>2, <1>3 DEF RootInv

LEMMA RootProtocolHolds ==
  ASSUME SafeInv, RootInv
  PROVE  RootProtocol
<1>1. TypeOK
  BY TypeParts DEF SafeInv
<1>2. ASSUME Idle
      PROVE  Former = {} /\ ~PutUnderWay /\ \A phase \in {"focus", "detach"} : ~Closing(phase)
  <2>1. Frames = {}
    BY <1>2 DEF Idle, Frames
  <2> QED BY <2>1 DEF Former, PutFrames, PutUnderWay, Closing
<1>3. ClosedIsFinal
  <2> SUFFICES ASSUME Idle, closed PROVE window = 0 /\ content = None /\ sinks = {} /\ rooted = {}
    BY DEF ClosedIsFinal
  <2>1. window = 0 /\ content = None
    BY <1>2 DEF SafeInv, CallsInv, CloseInv
  <2> QED BY <1>2, <2>1 DEF RootInv
<1>4. OneRoot
  <2> SUFFICES ASSUME Idle, fault # "memory" PROVE sinks = {content} \ {None} /\ rooted = sinks
    BY DEF OneRoot
  <2>1. CASE content = None
    BY <1>2, <2>1 DEF RootInv
  <2>2. CASE content # None
    <3>1. ~closed
      BY <1>2, <2>2 DEF SafeInv, CallsInv, CloseInv
    <3> QED BY <1>2, <2>2, <3>1 DEF RootInv
  <2> QED BY <2>1, <2>2
<1> QED BY <1>1, <1>3, <1>4 DEF RootProtocol

(* Whatever the user code called in the middle of put_Content, Close or a  *)
(* rebuild calls in its turn, to any depth: when the last call returns one *)
(* root is attached, the content, and it holds the one sink, unless memory *)
(* has run out; and an island once closed has no window, no content and no *)
(* root, whichever callback it was closed from.                            *)
THEOREM RootCorrect == Spec => []RootProtocol
<1>1. Init => SafeInv /\ RootInv
  BY SafeInit
<1>2. SafeInv /\ RootInv /\ [Next]_vars => SafeInv' /\ RootInv'
  BY SafeStep, RootStep
<1>3. SafeInv /\ RootInv => RootProtocol
  BY RootProtocolHolds
<1> QED
  BY <1>1, <1>2, <1>3, PTL DEF Spec

-----------------------------------------------------------------------------
(* Only a rebuild publishes, and only for the window and the content it    *)
(* was started for.                                                        *)
LEMMA PublishStep ==
  ASSUME SafeInv, [Next]_vars
  PROVE  frame'.gen # frame.gen => frame'.shows \in {None, content} /\ window # 0 /\ ~closed
<1> SUFFICES ASSUME frame'.gen # frame.gen
             PROVE  frame'.shows \in {None, content} /\ window # 0 /\ ~closed
  OBVIOUS
<1>1. CASE Return
  <2>1. PICK f \in Calls :
            /\ Returning(f)
            /\ \/ f.op = "rebuild" /\ FinishRebuild(f, Tail(stack))
               \/ frame'.gen = frame.gen
    <3>1. PICK f \in Calls : Returning(f) /\ ReturnsAs(f)
      BY <1>1, ReturnCases DEF SafeInv
    <3>2. f.op = "put" /\ f.phase # "done" /\ ResumeAttach(f, Tail(stack)) => frame' = frame
      BY <3>1, ResumeEffect DEF SafeInv, frameVars
    <3>3. f.op = "close" /\ f.phase = "detach" /\ FinishClose(f, Tail(stack)) => frame'.gen = frame.gen
      BY <3>1, DetachEffect DEF SafeInv
    <3> QED BY <3>1, <3>2, <3>3 DEF ReturnsAs, Drops, Reverts, Commits, Releases, frameVars
  <2>2. Shows(f) /\ (frame'.shows = f.content \/ frame'.shows = None)
    BY <2>1, RebuildEffect DEF SafeInv
  <2>3. content = f.content /\ host.enabled
    BY <2>2 DEF Shows, IsCurrentFrameTarget
  <2> QED BY <2>2, <2>3 DEF SafeInv, CallsInv, CloseInv
<1>2. CASE Begins
  BY <1>2 DEF Begins
<1>3. ASSUME NEW v \in MaybeRoots, PutContent(v)
      PROVE  FALSE
  BY <1>3, PutEffect DEF SafeInv
<1>4. CASE OnWindowDestroyed
  BY <1>4, DestroyedEffect, GoneFrame DEF SafeInv
<1>5. CASE Close
  BY <1>5, CloseEffect DEF SafeInv, frameVars
<1>6. CASE Aside
  BY <1>6 DEF Aside
<1> QED BY <1>1, <1>2, <1>3, <1>4, <1>5, <1>6, NextCases DEF SafeInv

(* No rebuild, however long user code held it up, publishes a frame of a   *)
(* content that has been replaced, or for a window or an island that has   *)
(* gone.                                                                   *)
THEOREM NeverStaleCorrect == Spec => NeverStalePublished
<1>1. Init => SafeInv
  BY SafeInit
<1>2. SafeInv /\ [Next]_vars => SafeInv'
  BY SafeStep
<1>3. SafeInv /\ [Next]_vars
      => [frame'.gen # frame.gen => frame'.shows \in {None, content} /\ window # 0 /\ ~closed]_vars
  BY PublishStep
<1> QED
  BY <1>1, <1>2, <1>3, PTL DEF Spec, NeverStalePublished

-----------------------------------------------------------------------------
Live == host.enabled /\ fault = "none"
Notifying == \E t \in Threads : poster[t].pc = "notify"
LayoutNotified == \E t \in Threads : poster[t].pc = "notify" /\ poster[t].layout
RebuildUnderWay == \E f \in Frames : Shows(f)

(* A change not yet laid out, or not yet shown, is on its way: a thread is *)
(* about to notify it, a message will be, or a call under way ends in a    *)
(* rebuild that is current.                                                *)
LaidOutLater == Live /\ unlaid => LayoutNotified \/ (host.posted /\ host.dirty) \/ PutUnderWay
ShownLater ==
    Live /\ (stale \/ frame.shows # content)
    => Notifying \/ host.posted \/ PutUnderWay \/ RebuildUnderWay
(* The post that carries the message is for this window, and succeeds      *)
(* unless posting fails.                                                   *)
Deliverable ==
    fault # "post" =>
        \A t \in Threads : Posting(t) /\ poster[t].gen = host.gen
                           => poster[t].pc = "post" /\ poster[t].window = window
ChangeInv ==
    /\ unlaid => stale
    /\ unlaid /\ ~closed /\ fault = "none" => content # None
FreshInv == LaidOutLater /\ ShownLater /\ Deliverable /\ ChangeInv

LEMMA FreshKept ==
  ASSUME FreshInv,
         UNCHANGED <<host, poster, window, unlaid, stale, frame, content, contentEpoch, closed, mode, fault>>,
         PutUnderWay => PutUnderWay', \A g \in Frames : Shows(g) => g \in Frames'
  PROVE  FreshInv'
<1>1. RebuildUnderWay => RebuildUnderWay'
  BY DEF RebuildUnderWay, Shows, IsCurrentFrameTarget, CanPublish
<1>2. LaidOutLater'
  BY DEF FreshInv, LaidOutLater, LayoutNotified, Live
<1>3. ShownLater'
  BY <1>1 DEF FreshInv, ShownLater, Notifying, Live
<1>4. Deliverable' /\ ChangeInv'
  BY DEF FreshInv, Deliverable, ChangeInv, Posting
<1> QED BY <1>2, <1>3, <1>4 DEF FreshInv

LEMMA SupersededIsDeliverable ==
  ASSUME PostInv, host'.gen = host.gen + 1, poster' = poster
  PROVE  Deliverable'
<1>1. \A t \in Threads : poster[t].gen \in Nat
  BY DEF PostInv, PostType, Posters
<1>2. host.gen \in Nat
  BY DEF PostInv, PostType, HostStates
<1>3. \A t \in Threads : Posting(t)' => poster'[t].gen # host'.gen
  BY <1>1, <1>2 DEF PostInv, Older, Posting
<1> QED BY <1>3 DEF Deliverable

(* A rebuild that starts is current.                                       *)
LEMMA StartIsCurrent ==
  ASSUME NEW base \in Seq(Calls), NEW layout \in BOOLEAN, NEW replacing \in BOOLEAN,
         StartsOn(base, layout, replacing), window' # 0, host'.enabled
  PROVE  /\ \E r \in Rebuilds : /\ r \in Frames' /\ Shows(r)' /\ r.replacing = replacing /\ r.size = size'
                                /\ stack' = <<r>> \o base
         /\ unlaid' = (unlaid /\ ~(layout /\ content' # None))
<1>1. PICK r \in Rebuilds : Latest(r, replacing) /\ stack' = <<r>> \o base
  BY DEF StartsOn
<1>2. r \in Calls
  BY RebuildIsCall
<1>3. Len(stack') = Len(base) + 1 /\ stack'[1] = r /\ Len(base) \in Nat
  BY <1>1, <1>2
<1>4. r \in Frames'
  BY <1>3 DEF Frames
<1>5. Shows(r)'
  BY <1>1 DEF Latest, Shows, IsCurrentFrameTarget, CanPublish
<1>6. unlaid' = (unlaid /\ ~(layout /\ content' # None))
  BY DEF StartsOn
<1> QED BY <1>1, <1>4, <1>5, <1>6 DEF Latest

LEMMA EnabledOpen ==
  ASSUME SafeInv
  PROVE  host.enabled <=> window # 0 /\ ~closed
BY DEF SafeInv, CallsInv, CloseInv

LEMMA FreshNotify ==
  ASSUME SafeInv, FreshInv, NEW t \in Threads, Notify(t)
  PROVE  FreshInv'
<1>1. /\ UNCHANGED <<closed, window, content, contentEpoch, frame, stale, unlaid, mode, fault, stack>>
      /\ host'.enabled = host.enabled /\ host'.epoch = host.epoch
  BY InvalidateEffect DEF SafeInv, windowVars, treeVars, frameVars
<1>2. /\ poster \in [Threads -> Posters] /\ poster[t].pc = "notify" /\ host \in HostStates /\ host.gen \in Nat
      /\ poster[t].layout \in BOOLEAN /\ host.dirty \in BOOLEAN
  BY HostFields DEF Notify, SafeInv, PostInv, PostType, Posters
<1>3. \A u \in Threads : u # t => poster'[u] = poster[u]
  BY DEF Notify, SafeInv, PostInv, PostType
<1>4. ChangeInv'
  BY <1>1 DEF FreshInv, ChangeInv
<1>5. PutUnderWay' = PutUnderWay /\ RebuildUnderWay' = RebuildUnderWay
  BY <1>1 DEF PutUnderWay, RebuildUnderWay, Frames, Current, Shows, IsCurrentFrameTarget, CanPublish
<1>6. CASE ~host.enabled
  <2>1. poster' = [poster EXCEPT ![t] = IdlePoster] /\ host' = host
    BY <1>6 DEF Notify
  <2>2. poster'[t].pc = "idle"
    BY <1>2, <2>1 DEF IdlePoster
  <2>3. Deliverable'
    BY <1>1, <1>3, <2>1, <2>2 DEF FreshInv, Deliverable, Posting
  <2>4. ~Live'
    BY <1>1, <1>6 DEF Live
  <2> QED BY <1>4, <2>3, <2>4 DEF FreshInv, LaidOutLater, ShownLater
<1>7. CASE host.enabled
  <2>1. host' = [host EXCEPT !.dirty = DirtyAfter(t), !.posted = TRUE,
                             !.gen = IF host.posted THEN host.gen ELSE host.gen + 1]
    BY <1>7 DEF Notify
  <2>2. host'.posted /\ (host'.dirty <=> host.dirty \/ poster[t].layout)
        /\ host'.gen = (IF host.posted THEN host.gen ELSE host.gen + 1)
    <3>1. PICK d, n : d = DirtyAfter(t) /\ n = (IF host.posted THEN host.gen ELSE host.gen + 1)
      OBVIOUS
    <3>2. host' = [host EXCEPT !.dirty = d, !.posted = TRUE, !.gen = n]
      BY <2>1, <3>1
    <3>3. host'.posted = TRUE /\ host'.dirty = d /\ host'.gen = n
      BY <1>2, <3>2 DEF HostStates
    <3> QED BY <3>1, <3>3 DEF DirtyAfter
  <2>3. LaidOutLater'
    <3> SUFFICES ASSUME Live', unlaid' PROVE LayoutNotified' \/ host'.dirty \/ PutUnderWay'
      BY <2>2 DEF LaidOutLater
    <3>1. LayoutNotified \/ host.dirty \/ PutUnderWay
      BY <1>1 DEF FreshInv, LaidOutLater, Live
    <3>2. CASE LayoutNotified
      <4>1. PICK u \in Threads : poster[u].pc = "notify" /\ poster[u].layout
        BY <3>2 DEF LayoutNotified
      <4> QED BY <1>3, <2>2, <4>1 DEF LayoutNotified
    <3> QED BY <1>5, <2>2, <3>1, <3>2
  <2>4. ShownLater'
    BY <2>2 DEF ShownLater
  <2>5. Deliverable'
    <3>1. CASE host.posted
      <4>1. poster' = [poster EXCEPT ![t] = IdlePoster] /\ host'.gen = host.gen
        BY <1>7, <2>2, <3>1 DEF Notify
      <4>2. poster'[t].pc = "idle"
        BY <1>2, <4>1 DEF IdlePoster
      <4> QED BY <1>1, <1>3, <4>1, <4>2 DEF FreshInv, Deliverable, Posting
    <3>2. CASE ~host.posted
      <4>1. /\ poster' = [poster EXCEPT ![t] =
                  [@ EXCEPT !.pc = "post", !.window = window, !.gen = host.gen + 1]]
            /\ host'.gen = host.gen + 1
        BY <1>7, <2>2, <3>2 DEF Notify
      <4>2. poster'[t].pc = "post" /\ poster'[t].window = window
        BY <1>2, <4>1 DEF Posters
      <4>3. \A u \in Threads : poster[u].gen \in Nat
        BY <1>2 DEF Posters
      <4>4. \A u \in Threads : u # t /\ Posting(u)' => poster'[u].gen # host'.gen
        BY <1>2, <1>3, <4>1, <4>3 DEF SafeInv, PostInv, Older, Posting
      <4> QED BY <1>1, <4>2, <4>4 DEF Deliverable
    <3> QED BY <3>1, <3>2
  <2> QED BY <1>4, <2>3, <2>4, <2>5 DEF FreshInv
<1> QED BY <1>6, <1>7

LEMMA FreshPost ==
  ASSUME SafeInv, FreshInv, NEW t \in Threads, Post(t)
  PROVE  FreshInv'
<1>1. UNCHANGED <<closed, window, host, content, contentEpoch, frame, stale, unlaid, mode, fault, stack>>
  BY DEF Post, windowVars, treeVars, frameVars
<1>2. /\ poster \in [Threads -> Posters] /\ poster[t].pc = "post"
  BY DEF Post, SafeInv, PostInv, PostType
<1>3. \A u \in Threads : u # t => poster'[u] = poster[u]
  BY DEF Post, SafeInv, PostInv, PostType
<1>4. ChangeInv'
  BY <1>1 DEF FreshInv, ChangeInv
<1>5. PutUnderWay' = PutUnderWay /\ RebuildUnderWay' = RebuildUnderWay
  BY <1>1 DEF PutUnderWay, RebuildUnderWay, Frames, Current, Shows, IsCurrentFrameTarget, CanPublish
<1>6. (LayoutNotified => LayoutNotified') /\ (Notifying => Notifying')
  BY <1>2, <1>3 DEF LayoutNotified, Notifying
<1>7. LaidOutLater' /\ ShownLater'
  BY <1>1, <1>5, <1>6 DEF FreshInv, LaidOutLater, ShownLater, Live
<1>8. Deliverable'
  <2>1. CASE poster' = [poster EXCEPT ![t] = IdlePoster]
    <3>1. poster'[t].pc = "idle"
      BY <1>2, <2>1 DEF IdlePoster
    <3> QED BY <1>1, <1>3, <3>1 DEF FreshInv, Deliverable, Posting
  <2>2. CASE (fault = "post" \/ poster[t].window # window) /\ poster' = [poster EXCEPT ![t].pc = "failed"]
    <3>1. poster'[t].gen = poster[t].gen
      BY <1>2, <2>2 DEF Posters
    <3>2. fault # "post" => poster[t].gen # host.gen
      BY <1>2, <2>2 DEF FreshInv, Deliverable, Posting
    <3> QED BY <1>1, <1>3, <3>1, <3>2 DEF FreshInv, Deliverable, Posting
  <2> QED BY <2>1, <2>2 DEF Post
<1> QED BY <1>4, <1>7, <1>8 DEF FreshInv

LEMMA FreshPostFailed ==
  ASSUME SafeInv, FreshInv, NEW t \in Threads, PostFailed(t)
  PROVE  FreshInv'
<1>1. /\ UNCHANGED <<closed, window, content, contentEpoch, frame, stale, unlaid, mode, fault, stack>>
      /\ host'.enabled = host.enabled /\ host'.epoch = host.epoch
  BY InvalidateEffect DEF SafeInv, windowVars, treeVars, frameVars
<1>2. /\ poster \in [Threads -> Posters] /\ poster[t].pc = "failed" /\ host \in HostStates
  BY DEF PostFailed, SafeInv, PostInv, PostType
<1>3. (\A u \in Threads : u # t => poster'[u] = poster[u]) /\ poster'[t].pc = "idle"
  BY <1>2 DEF PostFailed, IdlePoster
<1>4. ChangeInv'
  BY <1>1 DEF FreshInv, ChangeInv
<1>5. PutUnderWay' = PutUnderWay /\ RebuildUnderWay' = RebuildUnderWay
  BY <1>1 DEF PutUnderWay, RebuildUnderWay, Frames, Current, Shows, IsCurrentFrameTarget, CanPublish
<1>6. (LayoutNotified => LayoutNotified') /\ (Notifying => Notifying')
  BY <1>2, <1>3 DEF LayoutNotified, Notifying
<1>7. host'.dirty = host.dirty /\ host'.gen = host.gen /\ (host'.posted <=> host.posted /\ host.gen # poster[t].gen)
  <2>1. PICK b \in BOOLEAN : b = (host.posted /\ ~OwnsFlag(t)) /\ host' = [host EXCEPT !.posted = b]
    BY <1>2 DEF PostFailed, HostStates
  <2>2. host'.posted = b /\ host'.dirty = host.dirty /\ host'.gen = host.gen
    BY <1>2, <2>1 DEF HostStates
  <2> QED BY <2>1, <2>2 DEF OwnsFlag
<1>8. fault = "none" => host.gen # poster[t].gen
  BY <1>2 DEF FreshInv, Deliverable, Posting
<1>9. LaidOutLater' /\ ShownLater'
  BY <1>1, <1>5, <1>6, <1>7, <1>8 DEF FreshInv, LaidOutLater, ShownLater, Live
<1>10. Deliverable'
  BY <1>1, <1>3, <1>7 DEF FreshInv, Deliverable, Posting
<1> QED BY <1>4, <1>9, <1>10 DEF FreshInv

LEMMA FreshMutate ==
  ASSUME SafeInv, FreshInv, NEW t \in Threads, NEW r \in Roots, NEW layout \in BOOLEAN, Mutate(t, r, layout)
  PROVE  FreshInv'
<1>1. /\ UNCHANGED <<closed, window, host, content, contentEpoch, frame, mode, fault, stack>>
      /\ poster[t].pc = "idle"
      /\ poster' = [poster EXCEPT ![t] = [IdlePoster EXCEPT !.pc = "notify", !.layout = layout]]
      /\ stale' = (stale \/ r = content) /\ unlaid' = (unlaid \/ (layout /\ r = content))
  BY MutateEffect, ZenonT(60) DEF SafeInv, windowVars, treeVars
<1>2. /\ poster'[t].pc = "notify" /\ poster'[t].layout = layout
      /\ \A u \in Threads : u # t => poster'[u] = poster[u]
  BY <1>1 DEF SafeInv, PostInv, PostType, IdlePoster
<1>3. ChangeInv'
  BY <1>1, NoneAssumption DEF FreshInv, ChangeInv
<1>4. PutUnderWay' = PutUnderWay /\ RebuildUnderWay' = RebuildUnderWay
  BY <1>1 DEF PutUnderWay, RebuildUnderWay, Frames, Current, Shows, IsCurrentFrameTarget, CanPublish
<1>5. (LayoutNotified => LayoutNotified') /\ Notifying'
  BY <1>1, <1>2 DEF LayoutNotified, Notifying
<1>6. layout => LayoutNotified'
  BY <1>2 DEF LayoutNotified
<1>7. LaidOutLater' /\ ShownLater'
  BY <1>1, <1>4, <1>5, <1>6 DEF FreshInv, LaidOutLater, ShownLater, Live
<1>8. Deliverable'
  BY <1>1, <1>2 DEF FreshInv, Deliverable, Posting
<1> QED BY <1>3, <1>7, <1>8 DEF FreshInv

LEMMA FreshDispatch ==
  ASSUME SafeInv, FreshInv, NEW g \in queue, Dispatch(g)
  PROVE  FreshInv'
<1>1. /\ UNCHANGED <<closed, window, poster, content, contentEpoch, frame, stale, mode, fault>>
      /\ host'.enabled = host.enabled /\ host'.epoch = host.epoch /\ host'.gen = host.gen
  BY DispatchEffect DEF SafeInv, windowVars, treeVars
<1>2. CASE UNCHANGED <<host, stack, unlaid>>
  <2>1. Frames' = Frames /\ (PutUnderWay => PutUnderWay')
    BY <1>1, <1>2 DEF PutUnderWay, Frames, Current
  <2> QED BY <1>1, <1>2, <2>1, FreshKept
<1>3. CASE ~UNCHANGED <<host, stack, unlaid>>
  <2>1. host.enabled /\ ~host'.posted /\ StartsOn(stack, host.dirty, FALSE) /\ host.dirty \in BOOLEAN
    BY <1>3, DispatchEffect, Facts, HostFields DEF SafeInv
  <2>2. window' # 0 /\ host'.enabled /\ ~closed
    BY <1>1, <2>1, EnabledOpen
  <2>3. PICK d \in BOOLEAN : d = host.dirty
    BY <2>1
  <2>4. /\ \E r \in Rebuilds : r \in Frames' /\ Shows(r)' /\ stack' = <<r>> \o stack
        /\ unlaid' = (unlaid /\ ~(d /\ content' # None))
    BY <2>1, <2>2, <2>3, Facts, StartIsCurrent DEF SafeInv
  <2>5. RebuildUnderWay'
    BY <2>4 DEF RebuildUnderWay
  <2>6. PutUnderWay => PutUnderWay'
    <3>1. PICK r \in Rebuilds : stack' = <<r>> \o stack
      BY <2>4
    <3>2. Frames' = Frames \cup {r}
      BY <3>1, RebuildIsCall, Facts, PushedCalls DEF SafeInv, Pushed
    <3> QED BY <1>1, <3>2 DEF PutUnderWay, Current
  <2>7. ShownLater'
    BY <2>5 DEF ShownLater
  <2>8. LaidOutLater'
    <3> SUFFICES ASSUME Live', unlaid' PROVE LayoutNotified' \/ PutUnderWay'
      BY DEF LaidOutLater
    <3>1. Live /\ unlaid /\ ~(host.dirty /\ content # None) /\ fault = "none"
      BY <1>1, <2>3, <2>4 DEF Live
    <3>2. content # None
      BY <2>2, <3>1 DEF FreshInv, ChangeInv
    <3>3. LayoutNotified \/ PutUnderWay
      BY <3>1, <3>2 DEF FreshInv, LaidOutLater
    <3> QED BY <1>1, <2>6, <3>3 DEF LayoutNotified
  <2>9. Deliverable' /\ ChangeInv'
    BY <1>1, <2>4 DEF FreshInv, Deliverable, ChangeInv, Posting
  <2> QED BY <2>7, <2>8, <2>9 DEF FreshInv
<1> QED BY <1>2, <1>3

(* A rebuild that lays the content out leaves nothing to be laid out.      *)
LEMMA FreshStart ==
  ASSUME SafeInv, FreshInv, NEW base \in Seq(Calls), NEW replacing \in BOOLEAN,
         StartsOn(base, TRUE, replacing),
         host'.enabled <=> window' # 0 /\ ~closed',
         closed' = closed, content' = content, fault' = fault, stale' \/ stale' = stale,
         host'.gen = host.gen + 1, poster' = poster
  PROVE  FreshInv'
<1>1. CASE Live'
  <2>1. window' # 0 /\ host'.enabled /\ ~closed /\ fault = "none"
    BY <1>1 DEF Live
  <2>2. /\ \E r \in Rebuilds : r \in Frames' /\ Shows(r)'
        /\ unlaid' = (unlaid /\ ~(TRUE /\ content' # None))
    BY <2>1, StartIsCurrent
  <2>3. ~unlaid'
    BY <2>1, <2>2 DEF FreshInv, ChangeInv
  <2>4. RebuildUnderWay'
    BY <2>2 DEF RebuildUnderWay
  <2> QED BY <2>3, <2>4, SupersededIsDeliverable DEF SafeInv, FreshInv, LaidOutLater, ShownLater, ChangeInv
<1>2. CASE ~Live'
  <2>1. unlaid' => unlaid
    BY DEF StartsOn
  <2>2. ChangeInv'
    BY <2>1 DEF FreshInv, ChangeInv
  <2> QED BY <1>2, <2>2, SupersededIsDeliverable DEF SafeInv, FreshInv, LaidOutLater, ShownLater
<1> QED BY <1>1, <1>2

LEMMA FreshOnSize ==
  ASSUME SafeInv, FreshInv, NEW s \in Sizes, OnSize(s)
  PROVE  FreshInv'
<1>1. /\ UNCHANGED <<closed, window, poster, content, fault, stale>>
      /\ host' = Cancelled(host) /\ StartsOn(stack, TRUE, FALSE)
  BY OnSizeEffect DEF SafeInv, treeVars, postVars
<1>2. host \in HostStates /\ stack \in Seq(Calls)
  BY Facts DEF SafeInv
<1>3. host'.enabled = host.enabled /\ host'.gen = host.gen + 1
  BY <1>1, <1>2, HostFields
<1> QED BY <1>1, <1>2, <1>3, EnabledOpen, FreshStart

LEMMA FreshAttach ==
  ASSUME SafeInv, FreshInv, AttachToWindow
  PROVE  FreshInv'
<1>1. /\ UNCHANGED <<closed, poster, content, fault>> /\ stale' /\ ~closed /\ window' # 0
      /\ host' = Enabled(host) /\ StartsOn(stack, TRUE, TRUE)
  BY AttachEffect DEF SafeInv, treeVars, postVars
<1>2. host \in HostStates /\ stack \in Seq(Calls)
  BY Facts DEF SafeInv
<1>3. host'.enabled /\ host'.gen = host.gen + 1
  BY <1>1, <1>2, HostFields
<1> QED BY <1>1, <1>2, <1>3, FreshStart

LEMMA FreshPut ==
  ASSUME SafeInv, FreshInv, NEW v \in MaybeRoots, PutContent(v)
  PROVE  FreshInv'
<1>1. /\ UNCHANGED <<closed, window, host, poster, fault>>
      /\ content' = v /\ contentEpoch' = contentEpoch + 1
      /\ stale' /\ unlaid' = (v # None)
  BY PutEffect DEF SafeInv, windowVars, postVars
<1>2. PICK phase : Pushed(Put(v, phase, contentEpoch + 1))
  BY PutEffect DEF SafeInv
<1>3. PICK f : f = Put(v, phase, contentEpoch + 1)
  OBVIOUS
<1>4. Frames' = Frames \cup {f}
  BY <1>2, <1>3, Facts, PushedCalls DEF SafeInv
<1>5. PutUnderWay'
  BY <1>1, <1>3, <1>4 DEF PutUnderWay, Current, Put
<1>6. Deliverable' /\ ChangeInv'
  BY <1>1 DEF FreshInv, Deliverable, ChangeInv, Posting
<1> QED BY <1>5, <1>6 DEF FreshInv, LaidOutLater, ShownLater

(* While the island is closed, or has no window, only the posts matter.    *)
LEMMA FreshDisabled ==
  ASSUME FreshInv, ~host'.enabled, Deliverable', stale' = stale, unlaid' = unlaid,
         closed' \/ (closed' = closed /\ content' = content /\ fault' = fault)
  PROVE  FreshInv'
BY DEF FreshInv, LaidOutLater, ShownLater, Live, ChangeInv

LEMMA FreshDestroyed ==
  ASSUME SafeInv, FreshInv, OnWindowDestroyed
  PROVE  FreshInv'
<1>1. /\ UNCHANGED <<closed, poster, content, fault, stale, unlaid>> /\ host' = Disabled(host)
  BY DestroyedEffect DEF SafeInv, treeVars
<1>2. host'.gen = host.gen + 1 /\ ~host'.enabled
  <2>1. host \in HostStates
    BY Facts DEF SafeInv
  <2> QED BY <1>1, <2>1, HostFields
<1> QED BY <1>1, <1>2, SupersededIsDeliverable, FreshDisabled DEF SafeInv

LEMMA FreshClose ==
  ASSUME SafeInv, FreshInv, Close
  PROVE  FreshInv'
<1>1. /\ UNCHANGED <<poster, content, fault, stale, unlaid>> /\ host' = Disabled(host) /\ closed'
  BY CloseEffect DEF SafeInv, treeVars, frameVars, postVars
<1>2. host'.gen = host.gen + 1 /\ ~host'.enabled
  <2>1. host \in HostStates
    BY Facts DEF SafeInv
  <2> QED BY <1>1, <2>1, HostFields
<1> QED BY <1>1, <1>2, SupersededIsDeliverable, FreshDisabled DEF SafeInv

LEMMA FreshPopped ==
  ASSUME SafeInv, FreshInv, NEW f, Returning(f), Popped,
         UNCHANGED <<host, poster, window, unlaid, stale, frame, content, contentEpoch, closed>>,
         ~Shows(f), ~Current(f)
  PROVE  FreshInv'
<1>1. Frames' = Below /\ Frames = Below \cup {f}
  BY Facts, PoppedCalls, BelowIsGood DEF SafeInv
<1>2. PutUnderWay => PutUnderWay'
  BY <1>1 DEF PutUnderWay, Current
<1> QED BY <1>1, <1>2, FreshKept DEF Returning

LEMMA FreshResume ==
  ASSUME SafeInv, FreshInv, NEW f, Returning(f), f.op = "put", f.phase # "done", ResumeAttach(f, Tail(stack))
  PROVE  FreshInv'
<1>1. UNCHANGED <<closed, window, host, poster, content, contentEpoch, frame, stale, unlaid, mode, fault>>
  BY ResumeEffect DEF SafeInv, windowVars, postVars, frameVars
<1>2. PICK g \in Puts : Replaced(g) /\ g.op = "put" /\ g.epoch = f.epoch
  BY ResumeEffect DEF SafeInv
<1>3. Frames' = Below \cup {g} /\ Frames = Below \cup {f}
  BY <1>2, Facts, ReplacedCalls, BelowIsGood DEF SafeInv
<1>4. PutUnderWay => PutUnderWay'
  BY <1>1, <1>2, <1>3 DEF PutUnderWay, Current
<1>5. \A h \in Frames : Shows(h) => h \in Frames'
  BY <1>3 DEF Shows
<1> QED BY <1>1, <1>4, <1>5, FreshKept

LEMMA FreshRebuilt ==
  ASSUME SafeInv, FreshInv, NEW f, Returning(f), f.op = "rebuild", FinishRebuild(f, Tail(stack))
  PROVE  FreshInv'
<1>1. /\ UNCHANGED <<closed, window, host, poster, content, contentEpoch, unlaid, mode, fault>> /\ Popped
  BY RebuildEffect DEF SafeInv, windowVars, postVars, treeVars
<1>2. ~Current(f)
  BY DEF Current
<1>3. Frames' = Below /\ Frames = Below \cup {f}
  BY <1>1, Facts, PoppedCalls, BelowIsGood DEF SafeInv
<1>4. PutUnderWay => PutUnderWay'
  BY <1>1, <1>2, <1>3 DEF PutUnderWay, Current
<1>5. CASE UNCHANGED <<frame, stale>> /\ ~Shows(f)
  BY <1>1, <1>2, <1>5, FreshPopped
<1>6. CASE UNCHANGED <<frame, stale>> /\ Shows(f)
  <2>1. fault \in {"layout", "build"}
    BY <1>6, RebuildEffect, Facts DEF SafeInv
  <2>2. ~Live'
    BY <1>1, <2>1 DEF Live
  <2>3. Deliverable' /\ ChangeInv'
    BY <1>1, <1>6 DEF FreshInv, Deliverable, ChangeInv, Posting
  <2> QED BY <2>2, <2>3 DEF FreshInv, LaidOutLater, ShownLater
<1>7. CASE /\ Shows(f) /\ stale' = unlaid
           /\ fault = "none" => frame'.shows = content
  <2>1. LaidOutLater'
    BY <1>1, <1>4 DEF FreshInv, LaidOutLater, LayoutNotified, Live
  <2>2. ShownLater'
    <3> SUFFICES ASSUME Live', stale' PROVE Notifying' \/ host'.posted \/ PutUnderWay'
      BY <1>1, <1>7 DEF ShownLater, Live
    <3>1. Live /\ unlaid
      BY <1>1, <1>7 DEF Live
    <3> QED BY <1>1, <1>4, <3>1 DEF FreshInv, LaidOutLater, LayoutNotified, Notifying
  <2>3. Deliverable' /\ ChangeInv'
    BY <1>1, <1>7 DEF FreshInv, Deliverable, ChangeInv, Posting
  <2> QED BY <2>1, <2>2, <2>3 DEF FreshInv
<1>8. Shows(f) => f.content = content
  BY DEF Shows, IsCurrentFrameTarget
<1> QED BY <1>5, <1>6, <1>7, <1>8, RebuildEffect DEF SafeInv

LEMMA FreshReturn ==
  ASSUME SafeInv, FreshInv, Return
  PROVE  FreshInv'
<1>1. PICK f \in Calls : Returning(f) /\ ReturnsAs(f)
  BY ReturnCases DEF SafeInv
<1>2. CASE f.op = "put" /\ Drops(f) /\ stack' = Tail(stack)
  <2>1. ~Shows(f) /\ ~Current(f) /\ Popped
    BY <1>1, <1>2, BelowIsGood, FrameFacts DEF SafeInv, Shows, GoodFrame, Drops, TransactionIsCurrent, Current
  <2>2. UNCHANGED <<host, poster, window, unlaid, stale, frame, content, contentEpoch, closed>>
    BY <1>2 DEF Drops, windowVars, postVars, frameVars
  <2> QED BY <1>1, <2>1, <2>2, FreshPopped
<1>3. CASE f.op = "put" /\ Reverts(f) /\ stack' = Tail(stack)
  <2>1. fault = "memory" /\ fault' = fault
    BY <1>1, <1>3, CallsRevert DEF SafeInv, Returning
  <2>2. UNCHANGED <<host, poster, window, unlaid, stale>>
    BY <1>3 DEF Reverts, windowVars, postVars, frameVars
  <2>3. ~Live' /\ fault' # "none"
    BY <2>1 DEF Live
  <2>4. Deliverable' /\ ChangeInv'
    BY <2>1, <2>2 DEF FreshInv, Deliverable, ChangeInv, Posting
  <2> QED BY <2>3, <2>4 DEF FreshInv, LaidOutLater, ShownLater
<1>4. CASE f.op = "put" /\ Commits(f)
                  /\ StartRebuild(host', window, TRUE, TRUE, Tail(stack), content, contentEpoch)
  <2>1. StartsOn(Tail(stack), TRUE, TRUE) /\ Tail(stack) \in Seq(Calls)
    BY <1>1, <1>4, CommitEffect, FrameFacts DEF SafeInv
  <2>2. UNCHANGED <<closed, window, content, poster, stale, fault>> /\ host' = Cancelled(host)
    BY <1>4 DEF Commits, windowVars, postVars
  <2>3. host \in HostStates
    BY Facts DEF SafeInv
  <2>4. host'.enabled = host.enabled /\ host'.gen = host.gen + 1
    BY <2>2, <2>3, HostFields
  <2> QED BY <2>1, <2>2, <2>4, EnabledOpen, FreshStart
<1>5. CASE f.op = "close" /\ f.phase = "focus" /\ Releases
  <2>1. closed /\ ~host.enabled
    BY <1>1, <1>5, BelowIsGood, EnabledOpen DEF SafeInv, GoodFrame
  <2>2. UNCHANGED <<closed, window, host, poster, unlaid, stale>>
    BY <1>5 DEF Releases, windowVars, postVars, frameVars
  <2>3. Deliverable'
    BY <1>1, <2>2 DEF FreshInv, Deliverable, Posting, Returning
  <2> QED BY <2>1, <2>2, <2>3, FreshDisabled
<1>6. CASE f.op = "close" /\ f.phase = "detach" /\ FinishClose(f, Tail(stack))
  <2>1. /\ UNCHANGED <<closed, stale, unlaid, fault, poster>>
        /\ UNCHANGED <<window, host>> \/ host' = Disabled(host)
    BY <1>1, <1>6, DetachEffect DEF SafeInv, windowVars
  <2>2. closed /\ ~host.enabled
    BY <1>1, <1>6, CallsDetach, EnabledOpen DEF SafeInv
  <2>3. ~host'.enabled /\ Deliverable'
    <3>1. CASE UNCHANGED <<window, host>>
      BY <2>1, <2>2, <3>1 DEF FreshInv, Deliverable, Posting
    <3>2. CASE host' = Disabled(host)
      <4>1. host \in HostStates
        BY Facts DEF SafeInv
      <4>2. host'.gen = host.gen + 1 /\ ~host'.enabled
        BY <3>2, <4>1, HostFields
      <4> QED BY <2>1, <4>2, SupersededIsDeliverable DEF SafeInv
    <3> QED BY <2>1, <3>1, <3>2
  <2> QED BY <2>1, <2>2, <2>3, FreshDisabled
<1>7. CASE f.op = "destroy" /\ stack' = Tail(stack)
                  /\ UNCHANGED <<closed, windowVars, host, postVars, treeVars, frameVars>>
  <2>1. ~Shows(f) /\ ~Current(f) /\ Popped
    BY <1>1, <1>7, FrameFacts DEF SafeInv, Shows, Current
  <2>2. UNCHANGED <<host, poster, window, unlaid, stale, frame, content, contentEpoch, closed>>
    BY <1>7 DEF windowVars, postVars, frameVars, treeVars
  <2> QED BY <1>1, <2>1, <2>2, FreshPopped
<1> QED BY <1>1, <1>2, <1>3, <1>4, <1>5, <1>6, <1>7, FreshRebuilt, FreshResume DEF ReturnsAs

LEMMA FreshStep ==
  ASSUME SafeInv, FreshInv, [Next]_vars
  PROVE  FreshInv'
<1>1. CASE UNCHANGED vars
  <2>1. UNCHANGED <<host, poster, window, unlaid, stale, frame, content, contentEpoch, closed, mode, fault, stack>>
    BY <1>1 DEF vars, windowVars, postVars, treeVars, frameVars
  <2>2. Frames' = Frames /\ (PutUnderWay => PutUnderWay')
    BY <2>1 DEF Frames, PutUnderWay, Current
  <2> QED BY <2>1, <2>2, FreshKept
<1> QED
  BY <1>1, FreshReturn, FreshNotify, FreshPost, FreshPostFailed, FreshDispatch, FreshOnSize, FreshPut,
     FreshAttach, FreshDestroyed, FreshClose, FreshMutate DEF Next, Invalidate

LEMMA FreshInit == Init => FreshInv
<1> SUFFICES ASSUME Init PROVE FreshInv
  OBVIOUS
<1>1. ~unlaid /\ ~host.enabled /\ \A t \in Threads : ~Posting(t)
  BY DEF Init, IdlePoster, Posting
<1> QED BY <1>1 DEF FreshInv, LaidOutLater, ShownLater, Deliverable, ChangeInv, Live

LEMMA FreshHolds ==
  ASSUME SafeInv, FreshInv
  PROVE  FreshWhenQuiet
<1> SUFFICES ASSUME Quiet, window # 0, ~closed, fault = "none"
             PROVE  ~stale /\ frame.shows = content
  BY DEF FreshWhenQuiet
<1>1. Live
  BY EnabledOpen DEF Live
<1>2. Frames = {}
  BY DEF Quiet, Idle, Frames
<1>3. ~PutUnderWay /\ ~RebuildUnderWay
  BY <1>2 DEF PutUnderWay, RebuildUnderWay
<1>4. ~Notifying
  BY DEF Notifying, Quiet
<1>5. ~host.posted
  BY DEF SafeInv, PostInv, PostedIsCarried, Quiet
<1> QED BY <1>1, <1>3, <1>4, <1>5 DEF FreshInv, ShownLater

(* With nothing failing, once no call, message or notification is under    *)
(* way, the window shows the content as it last changed, laid out: no      *)
(* interleaving of the renderers' posts, of resizing, of attaching and of  *)
(* calls nested in layout loses a change.                                  *)
THEOREM FreshCorrect == Spec => []FreshWhenQuiet
<1>1. Init => SafeInv /\ FreshInv
  BY SafeInit, FreshInit
<1>2. SafeInv /\ FreshInv /\ [Next]_vars => SafeInv' /\ FreshInv'
  BY SafeStep, FreshStep
<1>3. SafeInv /\ FreshInv => FreshWhenQuiet
  BY FreshHolds
<1> QED
  BY <1>1, <1>2, <1>3, PTL DEF Spec

-----------------------------------------------------------------------------
(* On the CPU path: a frame of a former content, or of another size, is    *)
(* about to be replaced, and of the rebuilds that may still be published   *)
(* none has an old size but below one of the present size.                 *)
ReplacedLater ==
    fault # "memory" /\ host.enabled /\ frame.shows \notin {None, content}
    => PutUnderWay \/ \E f \in Frames : Shows(f) /\ f.replacing
ResizedLater ==
    Live /\ frame.size # size => PutUnderWay \/ RebuildUnderWay
NewestIsSized ==
    fault = "none" =>
        \A j \in 1..Len(stack) : Shows(stack[j]) =>
            \/ stack[j].size = size
            \/ \E i \in 1..Len(stack) : i < j /\ Shows(stack[i]) /\ stack[i].size = size
CpuInv == mode = "Cpu" => ReplacedLater /\ ResizedLater /\ NewestIsSized

(* Nothing can be published: the island is disabled, or its content moved. *)
LEMMA CpuDisabled ==
  ASSUME ~host'.enabled
  PROVE  CpuInv'
BY DEF CpuInv, ReplacedLater, ResizedLater, NewestIsSized, Live, Shows, IsCurrentFrameTarget

LEMMA CpuStart ==
  ASSUME SafeInv, SafeInv', CpuInv, NEW base \in Seq(Calls), NEW layout \in BOOLEAN, NEW replacing \in BOOLEAN,
         StartsOn(base, layout, replacing), host'.enabled,
         \/ replacing
         \/ /\ base = stack /\ UNCHANGED <<content, contentEpoch, frame, fault, mode, window>>
            /\ host'.enabled = host.enabled /\ host'.epoch = host.epoch
  PROVE  CpuInv'
<1>1. window' # 0
  BY DEF SafeInv, CallsInv, CloseInv
<1>2. PICK r \in Rebuilds : /\ r \in Frames' /\ Shows(r)' /\ r.replacing = replacing /\ r.size = size'
                            /\ stack' = <<r>> \o base
  BY <1>1, StartIsCurrent
<1>3. ResizedLater'
  BY <1>2 DEF ResizedLater, RebuildUnderWay
<1>4. NewestIsSized'
  <2>1. r \in Calls /\ stack' = <<r>> \o base
    BY <1>2, RebuildIsCall
  <2>2. Len(stack') = Len(base) + 1 /\ Len(base) \in Nat /\ stack'[1] = r
    BY <2>1
  <2>3. Shows(stack[1])' /\ stack'[1].size = size'
    BY <1>2, <2>2 DEF Shows, IsCurrentFrameTarget, CanPublish
  <2>4. 1 \in 1..Len(stack') /\ \A j \in 1..Len(stack') : j = 1 \/ 1 < j
    BY <2>2
  <2> QED BY <2>3, <2>4 DEF NewestIsSized
<1>5. mode' = "Cpu" => ReplacedLater'
  <2>1. CASE replacing
    BY <1>2, <2>1 DEF ReplacedLater
  <2>2. CASE /\ base = stack /\ UNCHANGED <<content, contentEpoch, frame, fault, mode, window>>
             /\ host'.enabled = host.enabled /\ host'.epoch = host.epoch
    <3>1. Frames' = Frames \cup {r}
      BY <1>2, <2>2, RebuildIsCall, Facts, PushedCalls DEF SafeInv, Pushed
    <3>2. \A f \in Frames : Shows(f) => Shows(f)'
      BY <2>2 DEF Shows, IsCurrentFrameTarget, CanPublish
    <3>3. PutUnderWay => PutUnderWay'
      BY <2>2, <3>1 DEF PutUnderWay, Current
    <3> QED BY <2>2, <3>1, <3>2, <3>3 DEF CpuInv, ReplacedLater
  <2> QED BY <2>1, <2>2
<1> QED BY <1>3, <1>4, <1>5 DEF CpuInv

(* Nothing changes that a rebuild under way depends on.                    *)
LEMMA CpuAside ==
  ASSUME SafeInv, CpuInv, Aside
  PROVE  CpuInv'
<1>1. /\ UNCHANGED <<window, size, content, contentEpoch, frame, mode, fault, stack>>
      /\ host'.enabled = host.enabled /\ host'.epoch = host.epoch
  BY DEF Aside, windowVars, treeVars
<1>2. Frames' = Frames /\ PutUnderWay' = PutUnderWay
  BY <1>1 DEF Frames, PutUnderWay, Current
<1>3. \A f : Shows(f)' = Shows(f)
  BY <1>1 DEF Shows, IsCurrentFrameTarget, CanPublish
<1>4. CpuInv => (mode = "Cpu" => ReplacedLater' /\ ResizedLater')
  BY <1>1, <1>2, <1>3 DEF CpuInv, ReplacedLater, ResizedLater, Live, RebuildUnderWay
<1>5. mode = "Cpu" => NewestIsSized'
  BY <1>1, <1>3 DEF CpuInv, NewestIsSized
<1> QED BY <1>1, <1>4, <1>5 DEF CpuInv

LEMMA CpuPut ==
  ASSUME SafeInv, CpuInv, NEW v \in MaybeRoots, PutContent(v)
  PROVE  CpuInv'
<1>1. contentEpoch' = contentEpoch + 1 /\ frame' = frame
  BY PutEffect DEF SafeInv
<1>2. PICK phase : Pushed(Put(v, phase, contentEpoch + 1))
  BY PutEffect DEF SafeInv
<1>3. PICK f : f = Put(v, phase, contentEpoch + 1)
  OBVIOUS
<1>4. f.op = "put" /\ f.epoch = contentEpoch'
  BY <1>1, <1>3 DEF Put
<1>5. Frames' = Frames \cup {f}
  BY <1>2, <1>3, Facts, PushedCalls DEF SafeInv
<1>6. PutUnderWay'
  BY <1>4, <1>5 DEF PutUnderWay, Current
<1>7. \A g \in Frames' : ~Shows(g)'
  <2> SUFFICES ASSUME NEW g \in Frames', g.op = "rebuild" PROVE g.contentEpoch # contentEpoch'
    BY DEF Shows, IsCurrentFrameTarget
  <2>1. g \in Frames
    BY <1>4, <1>5
  <2>2. g.contentEpoch <= contentEpoch /\ g.contentEpoch \in Nat /\ contentEpoch \in Nat
    BY <2>1, FramesAreCalls, FrameTypes, Facts DEF SafeInv, CallsInv, GoodFrames, GoodFrame
  <2> QED BY <1>1, <2>2
<1>8. NewestIsSized'
  BY <1>7 DEF NewestIsSized, Frames
<1> QED BY <1>6, <1>8 DEF CpuInv, ReplacedLater, ResizedLater

(* The innermost call returns, and was not a rebuild that is current: the  *)
(* others move up one place.                                               *)
LEMMA CpuPopped ==
  ASSUME SafeInv, CpuInv, NEW f, Returning(f), Popped, ~Shows(f), ~Current(f),
         UNCHANGED <<window, size, host, content, contentEpoch, frame>>
  PROVE  CpuInv'
<1>1. Frames' = Below /\ Frames = Below \cup {f}
  BY Facts, PoppedCalls, BelowIsGood DEF SafeInv
<1>2. \A g : Shows(g)' = Shows(g)
  BY DEF Shows, IsCurrentFrameTarget, CanPublish, Returning
<1>3. PutUnderWay => PutUnderWay'
  BY <1>1 DEF PutUnderWay, Current
<1>4. mode' = mode /\ fault' = fault
  BY DEF Returning
<1>5. mode = "Cpu" => ReplacedLater' /\ ResizedLater'
  BY <1>1, <1>2, <1>3, <1>4 DEF CpuInv, ReplacedLater, ResizedLater, Live, RebuildUnderWay
<1>6. mode = "Cpu" => NewestIsSized'
  <2> SUFFICES ASSUME mode = "Cpu", fault = "none", NEW j \in 1..Len(stack'), Shows(stack'[j])
               PROVE  \/ stack'[j].size = size
                      \/ \E i \in 1..Len(stack') : i < j /\ Shows(stack'[i]) /\ stack'[i].size = size
    BY <1>2, <1>4 DEF NewestIsSized
  <2>1. /\ Len(stack') = Len(stack) - 1 /\ Len(stack) \in Nat \ {0}
        /\ \A i \in 1..Len(stack') : i + 1 \in 2..Len(stack) /\ stack'[i] = stack[i + 1]
    BY Facts, PoppedCalls DEF SafeInv
  <2>2. j + 1 \in 1..Len(stack) /\ stack'[j] = stack[j + 1]
    BY <2>1
  <2>3. \/ stack[j + 1].size = size
        \/ \E i \in 1..Len(stack) : i < j + 1 /\ Shows(stack[i]) /\ stack[i].size = size
    BY <2>2 DEF CpuInv, NewestIsSized
  <2>4. ASSUME NEW i \in 1..Len(stack), i < j + 1, Shows(stack[i]), stack[i].size = size
        PROVE  \E k \in 1..Len(stack') : k < j /\ Shows(stack'[k]) /\ stack'[k].size = size
    <3>1. i # 1
      BY <2>4, FrameFacts DEF SafeInv
    <3>2. i - 1 \in 1..Len(stack') /\ i - 1 < j /\ (i - 1) + 1 = i
      BY <2>1, <2>4, <3>1
    <3>3. stack'[i - 1] = stack[i]
      BY <2>1, <3>2
    <3> QED BY <2>4, <3>2, <3>3
  <2> QED BY <2>2, <2>3, <2>4
<1> QED BY <1>4, <1>5, <1>6 DEF CpuInv

LEMMA CpuResume ==
  ASSUME SafeInv, CpuInv, NEW f, Returning(f), f.op = "put", f.phase # "done", ResumeAttach(f, Tail(stack))
  PROVE  CpuInv'
<1>1. UNCHANGED <<window, size, host, content, contentEpoch, frame, mode, fault>>
  BY ResumeEffect DEF SafeInv, windowVars, frameVars
<1>2. PICK g \in Puts : Replaced(g) /\ g.op = "put" /\ g.epoch = f.epoch
  BY ResumeEffect DEF SafeInv
<1>3. Frames' = Below \cup {g} /\ Frames = Below \cup {f}
  BY <1>2, Facts, ReplacedCalls, BelowIsGood DEF SafeInv
<1>4. /\ Len(stack') = Len(stack) /\ Len(stack) \in Nat \ {0} /\ stack'[1] = g /\ stack[1] = f
      /\ \A i \in 2..Len(stack') : stack'[i] = stack[i]
  BY <1>2, Facts, ReplacedCalls, FrameFacts DEF SafeInv
<1>5. (\A h : Shows(h)' = Shows(h)) /\ ~Shows(f) /\ ~Shows(g)
  BY <1>1, <1>2 DEF Shows, IsCurrentFrameTarget, CanPublish
<1>6. PutUnderWay => PutUnderWay'
  BY <1>1, <1>2, <1>3 DEF PutUnderWay, Current
<1>7. mode = "Cpu" => ReplacedLater' /\ ResizedLater'
  BY <1>1, <1>3, <1>5, <1>6 DEF CpuInv, ReplacedLater, ResizedLater, Live, RebuildUnderWay
<1>8. mode = "Cpu" => NewestIsSized'
  <2> SUFFICES ASSUME mode = "Cpu", fault = "none", NEW j \in 1..Len(stack'), Shows(stack'[j])
               PROVE  \/ stack'[j].size = size
                      \/ \E i \in 1..Len(stack') : i < j /\ Shows(stack'[i]) /\ stack'[i].size = size
    BY <1>1, <1>5 DEF NewestIsSized
  <2>1. j # 1
    BY <1>4, <1>5
  <2>2. \A i \in 1..Len(stack) : i # 1 => i \in 2..Len(stack')
    BY <1>4
  <2>3. stack'[j] = stack[j] /\ j \in 1..Len(stack)
    BY <1>4, <2>1, <2>2
  <2>4. \/ stack[j].size = size
        \/ \E i \in 1..Len(stack) : i < j /\ Shows(stack[i]) /\ stack[i].size = size
    BY <2>3 DEF CpuInv, NewestIsSized
  <2>5. \A i \in 1..Len(stack) : Shows(stack[i]) => i \in 1..Len(stack') /\ stack'[i] = stack[i]
    BY <1>4, <1>5, <2>2
  <2> QED BY <2>3, <2>4, <2>5
<1> QED BY <1>1, <1>7, <1>8 DEF CpuInv

LEMMA CpuRebuilt ==
  ASSUME SafeInv, CpuInv, NEW f, Returning(f), f.op = "rebuild", FinishRebuild(f, Tail(stack))
  PROVE  CpuInv'
<1>1. UNCHANGED <<window, size, host, content, contentEpoch, mode, fault>> /\ Popped
  BY RebuildEffect DEF SafeInv, windowVars, treeVars
<1>2. ~Current(f)
  BY DEF Current
<1>3. Frames' = Below /\ Frames = Below \cup {f} /\ f = stack[1]
  BY <1>1, Facts, PoppedCalls, BelowIsGood, FrameFacts DEF SafeInv
<1>4. CASE frame' = frame /\ ~Shows(f)
  BY <1>1, <1>2, <1>4, CpuPopped
<1>5. CASE frame' = frame /\ Shows(f) /\ mode = "Cpu"
  <2>1. fault \in {"layout", "build"} /\ ~f.replacing
    BY <1>5, RebuildEffect, Facts DEF SafeInv
  <2>2. \A g : Shows(g)' = Shows(g)
    BY <1>1, <1>5 DEF Shows, IsCurrentFrameTarget, CanPublish
  <2>3. PutUnderWay => PutUnderWay'
    BY <1>1, <1>2, <1>3 DEF PutUnderWay, Current
  <2>4. ReplacedLater'
    BY <1>1, <1>3, <1>5, <2>1, <2>2, <2>3 DEF CpuInv, ReplacedLater
  <2> QED BY <1>1, <2>1, <2>4 DEF CpuInv, ResizedLater, NewestIsSized, Live
<1>6. CASE Shows(f) /\ mode = "Cpu" /\ frame'.gen = frame.gen + 1 /\ frame'.size = f.size
           /\ frame'.shows \in {None, content}
  <2>1. \A g \in Frames' : ~Shows(g)'
    <3> SUFFICES ASSUME NEW g \in Below, g.op = "rebuild" PROVE g.expected # frame'.gen
      BY <1>1, <1>3, <1>6 DEF Shows, CanPublish
    <3>1. g.expected <= frame.gen /\ g.expected \in Nat /\ frame.gen \in Nat
      BY BelowIsGood, FrameTypes, Facts DEF SafeInv, GoodFrame
    <3> QED BY <1>6, <3>1
  <2>2. NewestIsSized'
    BY <2>1 DEF NewestIsSized, Frames
  <2>3. ReplacedLater'
    BY <1>1, <1>6 DEF ReplacedLater
  <2>4. ResizedLater'
    <3> SUFFICES ASSUME fault = "none" PROVE f.size = size
      BY <1>1, <1>6 DEF ResizedLater, Live
    <3>1. Len(stack) \in Nat \ {0}
      BY Facts, TopCall DEF SafeInv, Returning
    <3>2. 1 \in 1..Len(stack) /\ \A i \in 1..Len(stack) : ~(i < 1)
      BY <3>1
    <3> QED BY <1>3, <1>6, <3>2 DEF CpuInv, NewestIsSized
  <2> QED BY <2>2, <2>3, <2>4 DEF CpuInv
<1>7. CASE mode # "Cpu"
  BY <1>1, <1>7 DEF CpuInv
<1>8. Shows(f) => f.content = content
  BY DEF Shows, IsCurrentFrameTarget
<1> QED BY <1>4, <1>5, <1>6, <1>7, <1>8, RebuildEffect DEF SafeInv

LEMMA CpuReturn ==
  ASSUME SafeInv, CpuInv, Return
  PROVE  CpuInv'
<1>1. PICK f \in Calls : Returning(f) /\ ReturnsAs(f)
  BY ReturnCases DEF SafeInv
<1>2. CASE f.op = "put" /\ Drops(f) /\ stack' = Tail(stack)
  <2>1. ~Shows(f) /\ ~Current(f) /\ Popped
    BY <1>1, <1>2, BelowIsGood, FrameFacts DEF SafeInv, Shows, GoodFrame, Drops, TransactionIsCurrent, Current
  <2>2. UNCHANGED <<window, size, host, content, contentEpoch, frame>>
    BY <1>2 DEF Drops, windowVars, frameVars
  <2> QED BY <1>1, <2>1, <2>2, CpuPopped
<1>3. CASE f.op = "put" /\ Reverts(f) /\ stack' = Tail(stack)
  <2>1. fault' = "memory"
    BY <1>1, <1>3, CallsRevert DEF SafeInv, Returning
  <2> QED BY <2>1 DEF CpuInv, ReplacedLater, ResizedLater, NewestIsSized, Live
<1>4. CASE f.op = "put" /\ Commits(f)
                  /\ StartRebuild(host', window, TRUE, TRUE, Tail(stack), content, contentEpoch)
  <2>1. StartsOn(Tail(stack), TRUE, TRUE) /\ Tail(stack) \in Seq(Calls)
    BY <1>1, <1>4, CommitEffect, FrameFacts DEF SafeInv
  <2>2. SafeInv'
    <3>1. [Next]_vars
      BY DEF Next
    <3> QED BY <3>1, SafeStep
  <2>3. PICK replacing \in BOOLEAN : replacing /\ StartsOn(Tail(stack), TRUE, replacing)
    BY <2>1
  <2> QED BY <2>1, <2>2, <2>3, CpuStart, CpuDisabled
<1>5. CASE f.op = "close" /\ f.phase = "focus" /\ Releases
  <2>1. ~host'.enabled
    BY <1>1, <1>5, BelowIsGood, EnabledOpen DEF SafeInv, GoodFrame, Releases
  <2> QED BY <2>1, CpuDisabled
<1>6. CASE f.op = "close" /\ f.phase = "detach" /\ FinishClose(f, Tail(stack))
  <2>1. window' = 0
    BY <1>1, <1>6, DetachEffect DEF SafeInv
  <2>2. SafeInv'
    <3>1. [Next]_vars
      BY DEF Next
    <3> QED BY <3>1, SafeStep
  <2>3. ~host'.enabled
    BY <2>1, <2>2 DEF SafeInv, CallsInv, CloseInv
  <2> QED BY <2>3, CpuDisabled
<1>7. CASE f.op = "destroy" /\ stack' = Tail(stack)
                  /\ UNCHANGED <<closed, windowVars, host, postVars, treeVars, frameVars>>
  <2>1. ~Shows(f) /\ ~Current(f) /\ Popped
    BY <1>1, <1>7, FrameFacts DEF SafeInv, Shows, Current
  <2>2. UNCHANGED <<window, size, host, content, contentEpoch, frame>>
    BY <1>7 DEF windowVars, frameVars, treeVars
  <2> QED BY <1>1, <2>1, <2>2, CpuPopped
<1> QED BY <1>1, <1>2, <1>3, <1>4, <1>5, <1>6, <1>7, CpuRebuilt, CpuResume DEF ReturnsAs

LEMMA CpuStep ==
  ASSUME SafeInv, CpuInv, [Next]_vars
  PROVE  CpuInv'
<1>1. CASE Return
  BY <1>1, CpuReturn
<1>2. CASE Begins
  <2>1. PICK layout \in BOOLEAN, replacing \in BOOLEAN :
          /\ StartsOn(stack, layout, replacing)
          /\ replacing \/ (window' = window /\ host'.enabled = host.enabled /\ host'.epoch = host.epoch)
    BY <1>2 DEF Begins
  <2>2. UNCHANGED <<content, contentEpoch, frame, fault, mode>>
    BY <1>2 DEF Begins, treeVars
  <2>3. SafeInv' /\ stack \in Seq(Calls)
    BY SafeStep, Facts DEF SafeInv
  <2> QED BY <2>1, <2>2, <2>3, CpuStart, CpuDisabled
<1>3. ASSUME NEW v \in MaybeRoots, PutContent(v)
      PROVE  CpuInv'
  BY <1>3, CpuPut
<1>4. CASE OnWindowDestroyed
  <2>1. host' = Disabled(host) /\ host \in HostStates
    BY <1>4, DestroyedEffect, Facts DEF SafeInv
  <2> QED BY <2>1, HostFields, CpuDisabled
<1>5. CASE Close
  <2>1. host' = Disabled(host) /\ host \in HostStates
    BY <1>5, CloseEffect, Facts DEF SafeInv
  <2> QED BY <2>1, HostFields, CpuDisabled
<1>6. CASE Aside
  BY <1>6, CpuAside
<1> QED BY <1>1, <1>2, <1>3, <1>4, <1>5, <1>6, NextCases DEF SafeInv

LEMMA CpuHolds ==
  ASSUME SafeInv, CpuInv
  PROVE  CpuFrame
<1>1. ASSUME Idle
      PROVE  ~PutUnderWay /\ ~RebuildUnderWay /\ \A f \in Frames : FALSE
  <2>1. Frames = {}
    BY <1>1 DEF Idle, Frames
  <2> QED BY <2>1 DEF PutUnderWay, RebuildUnderWay
<1>2. CpuRightExtent
  BY <1>1, EnabledOpen DEF CpuRightExtent, RightExtent, Quiet, CpuInv, ResizedLater, Live
<1>3. CpuShowsContent
  BY <1>1, EnabledOpen DEF CpuShowsContent, ShowsContentOrNothing, CpuInv, ReplacedLater
<1> QED BY <1>2, <1>3 DEF CpuFrame

LEMMA CpuInit == Init => CpuInv
<1> SUFFICES ASSUME Init PROVE CpuInv
  OBVIOUS
<1>1. ~host.enabled
  BY DEF Init
<1> QED BY <1>1 DEF CpuInv, ReplacedLater, ResizedLater, NewestIsSized, Live, Shows, IsCurrentFrameTarget

(* On the CPU path: whenever no call is under way the frame shows the      *)
(* content or nothing, unless memory has run out; and with nothing failing *)
(* it has the window's size once the window is quiet.                      *)
THEOREM CpuCorrect == Spec => []CpuFrame
<1>1. Init => SafeInv /\ CpuInv
  BY SafeInit, CpuInit
<1>2. SafeInv /\ CpuInv /\ [Next]_vars => SafeInv' /\ CpuInv'
  BY SafeStep, CpuStep
<1>3. SafeInv /\ CpuInv => CpuFrame
  BY CpuHolds
<1> QED
  BY <1>1, <1>2, <1>3, PTL DEF Spec
=============================================================================
