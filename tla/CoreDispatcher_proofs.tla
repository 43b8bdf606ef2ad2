----------------------- MODULE CoreDispatcher_proofs -----------------------
(***************************************************************************)
(* Theorems about CoreDispatcher for any set of callers, actions and       *)
(* priorities: its type invariant, the single right to post a wake, that   *)
(* this right keeps an item from being freed twice or run after its        *)
(* RunAsync failed, the order of the callbacks, the completed handler, and *)
(* the refinement of AsyncWork.                                            *)
(***************************************************************************)
EXTENDS CoreDispatcher, TLAPS

InCall(t) == pc[t] \in {"enqueue", "post", "retract"}

(* A thread inside a call has an action, which no other such thread has.   *)
CallInv ==
    /\ \A t \in Threads : pc[t] # "idle" => cur[t] \in Actions
    /\ \A t \in Threads : InCall(t) => /\ reply[cur[t]] = "none"
                                       /\ released[cur[t]] = 0
                                       /\ status[cur[t]] # "fresh"
                                       /\ step[cur[t]] = "none"
    /\ \A t, u \in Threads : InCall(t) /\ InCall(u) /\ cur[t] = cur[u] => t = u
    /\ \A t \in Threads : pc[t] = "enqueue" => cur[t] \notin work
    /\ \A t \in Posting : cur[t] \in work

(* Where an item can be: nowhere yet, queued, taken, or released.          *)
ItemInv ==
    /\ \A a \in Actions : status[a] = "fresh" =>
          reply[a] = "none" /\ released[a] = 0 /\ a \notin work /\ step[a] = "none"
    /\ \A a \in work : released[a] = 0 /\ step[a] = "none" /\ reply[a] # "failed"
    /\ \A a \in Actions : step[a] # "none" => released[a] = 0 /\ reply[a] = "ok"
    /\ \A a \in Actions : released[a] =< 1
    /\ \A a \in work : reply[a] = "none" => \E t \in Posting : cur[t] = a

(* Whoever may wake the owner has an item for it to find.                  *)
WakeInv == messages > 0 \/ Reposting # {} => work # {}

InvokedInv == \A i \in 1..Len(invoked) : reply[invoked[i]] = "ok"

IInv == TypeOK /\ OneWake /\ CallInv /\ ItemInv /\ WakeInv /\ InvokedInv

LEMMA StackTypes ==
  ASSUME stack \in Seq(Actions)
  PROVE  /\ stack # <<>> => Top \in Actions /\ Tail(stack) \in Seq(Actions)
         /\ \A a \in Actions : <<a>> \o stack \in Seq(Actions)
BY DEF Top

(* Steps that only end an action or start its completed handler.           *)
LEMMA CallbackKeepsInv ==
  ASSUME CallInv, ItemInv, Posting' = Posting,
         work' = work, step' = step, reply' = reply, released' = released,
         \A a \in Actions : status[a] = "fresh" <=> status'[a] = "fresh",
         \A t \in Threads : InCall(t)' => InCall(t) /\ cur'[t] = cur[t] /\ pc'[t] = pc[t],
         \A t \in Threads : pc'[t] # "idle" => cur'[t] \in Actions,
         \A t \in Posting : cur'[t] = cur[t]
  PROVE  CallInv' /\ ItemInv'
<1>1. \A t \in Threads : InCall(t)' => cur[t] \in Actions
  BY DEF CallInv, InCall
<1>2. CallInv'
  BY <1>1 DEF CallInv, InCall
<1>3. ItemInv'
  BY DEF ItemInv
<1> QED BY <1>2, <1>3

LEMMA InitInv == Init => IInv
<1> SUFFICES ASSUME Init PROVE IInv
  OBVIOUS
<1> USE DEF Init
<1>1. TypeOK
  <2>1. stack \in Seq(Actions) /\ invoked \in Seq(Actions)
    OBVIOUS
  <2> QED BY <2>1 DEF TypeOK, Steps, Final
<1>2. OneWake /\ WakeInv
  BY DEF OneWake, WakeInv, Posting, Reposting
<1>3. CallInv /\ ItemInv /\ InvokedInv
  BY DEF CallInv, ItemInv, InvokedInv, Posting, InCall
<1> QED BY <1>1, <1>2, <1>3 DEF IInv

LEMMA NextInv == IInv /\ [Next]_vars => IInv'
<1> SUFFICES ASSUME IInv, [Next]_vars PROVE IInv'
  OBVIOUS
<1> USE DEF IInv, queueVars, windowVars, actionVars, callVars, frameVars, seenVars,
            Final, Steps
<1>1. ASSUME NEW t \in Threads, NEW a \in Actions, NEW p \in Priorities, RunAsync(t, a, p)
      PROVE  IInv'
  <2>1. TypeOK'
    BY <1>1 DEF TypeOK, RunAsync, Ready, Goto
  <2>2. OneWake'
    BY <1>1 DEF TypeOK, OneWake, Posting, Reposting, RunAsync, Ready, Goto
  <2>3. CallInv'
    BY <1>1 DEF TypeOK, CallInv, ItemInv, OneWake, InCall, Posting, RunAsync,
          Ready, Goto
  <2>4. ItemInv'
    BY <1>1 DEF TypeOK, ItemInv, CallInv, OneWake, Posting, InCall, RunAsync,
          Ready, Goto
  <2>5. WakeInv'
    BY <1>1 DEF TypeOK, WakeInv, CallInv, OneWake, Posting, Reposting,
          RunAsync, Ready, Goto
  <2>6. InvokedInv'
    BY <1>1 DEF TypeOK, InvokedInv, ItemInv, CallInv, InCall, RunAsync, Ready,
          Goto
  <2> QED BY <2>1, <2>2, <2>3, <2>4, <2>5, <2>6
<1>2. ASSUME NEW t \in Threads, NEW a \in Actions, RunAsyncRefused(t, a)
      PROVE  IInv'
  <2>1. TypeOK'
    BY <1>2 DEF TypeOK, RunAsyncRefused, Ready
  <2>2. OneWake'
    BY <1>2 DEF TypeOK, OneWake, Posting, Reposting, RunAsyncRefused, Ready
  <2>3. CallInv'
    BY <1>2 DEF TypeOK, CallInv, ItemInv, OneWake, InCall, Posting,
          RunAsyncRefused, Ready
  <2>4. ItemInv'
    BY <1>2 DEF TypeOK, ItemInv, CallInv, OneWake, Posting, InCall,
          RunAsyncRefused, Ready
  <2>5. WakeInv'
    BY <1>2 DEF TypeOK, WakeInv, CallInv, OneWake, Posting, Reposting,
          RunAsyncRefused, Ready
  <2>6. InvokedInv'
    BY <1>2 DEF TypeOK, InvokedInv, ItemInv, CallInv, InCall, RunAsyncRefused,
          Ready
  <2> QED BY <2>1, <2>2, <2>3, <2>4, <2>5, <2>6
<1>3. ASSUME NEW t \in Threads, Enqueue(t)
      PROVE  IInv'
  <2>1. cur[t] \in Actions /\ cur[t] \notin work /\ reply[cur[t]] = "none"
    BY <1>3 DEF TypeOK, CallInv, InCall, Enqueue
  <2>2. /\ pc' = [pc EXCEPT ![t] = IF wakePending THEN "idle" ELSE "post"]
       /\ cur' = [cur EXCEPT ![t] = IF wakePending THEN NoAction ELSE cur[t]]
       /\ reply' = [reply EXCEPT ![cur[t]] = IF wakePending THEN "ok" ELSE "none"]
    BY <2>1, <1>3 DEF TypeOK, Enqueue, MustPost, Idle, Goto
  <2>3. TypeOK'
    BY <2>1, <2>2, <1>3 DEF TypeOK, Enqueue
  <2>4. OneWake'
    BY <2>1, <2>2, <1>3 DEF TypeOK, OneWake, Posting, Reposting, Enqueue
  <2>5. CallInv'
    BY <2>1, <2>2, <1>3 DEF TypeOK, CallInv, ItemInv, OneWake, InCall,
          Posting, Enqueue
  <2>6. ItemInv'
    BY <2>1, <2>2, <1>3 DEF TypeOK, ItemInv, CallInv, OneWake, Posting,
          InCall, Enqueue
  <2>7. WakeInv'
    BY <2>1, <2>2, <1>3 DEF TypeOK, WakeInv, CallInv, OneWake, Posting,
          Reposting, Enqueue
  <2>8. InvokedInv'
    BY <2>1, <2>2, <1>3 DEF TypeOK, InvokedInv, ItemInv, CallInv, InCall,
          Enqueue
  <2> QED BY <2>3, <2>4, <2>5, <2>6, <2>7, <2>8
<1>4. ASSUME NEW t \in Threads, PostWake(t)
      PROVE  IInv'
  <2>1. cur[t] \in Actions
    BY <1>4 DEF CallInv, PostWake
  <2>2. TypeOK'
    BY <2>1, <1>4 DEF TypeOK, PostWake, Idle
  <2>3. OneWake'
    BY <2>1, <1>4 DEF TypeOK, OneWake, Posting, Reposting, PostWake, Idle
  <2>4. CallInv'
    BY <2>1, <1>4 DEF TypeOK, CallInv, ItemInv, OneWake, InCall, Posting,
          PostWake, Idle
  <2>5. ItemInv'
    BY <2>1, <1>4 DEF TypeOK, ItemInv, CallInv, OneWake, Posting, InCall,
          PostWake, Idle
  <2>6. WakeInv'
    BY <2>1, <1>4 DEF TypeOK, WakeInv, CallInv, OneWake, Posting, Reposting,
          PostWake, Idle
  <2>7. InvokedInv'
    BY <2>1, <1>4 DEF TypeOK, InvokedInv, ItemInv, CallInv, InCall, PostWake,
          Idle
  <2> QED BY <2>2, <2>3, <2>4, <2>5, <2>6, <2>7
<1>5. ASSUME NEW t \in Threads, PostFails(t)
      PROVE  IInv'
  <2>1. TypeOK'
    BY <1>5 DEF TypeOK, PostFails, Goto
  <2>2. OneWake'
    BY <1>5 DEF TypeOK, OneWake, Posting, Reposting, PostFails, Goto
  <2>3. CallInv'
    BY <1>5 DEF TypeOK, CallInv, ItemInv, OneWake, InCall, Posting, PostFails,
          Goto
  <2>4. ItemInv'
    BY <1>5 DEF TypeOK, ItemInv, CallInv, OneWake, Posting, InCall, PostFails,
          Goto
  <2>5. WakeInv'
    BY <1>5 DEF TypeOK, WakeInv, CallInv, OneWake, Posting, Reposting,
          PostFails, Goto
  <2>6. InvokedInv'
    BY <1>5 DEF TypeOK, InvokedInv, ItemInv, CallInv, InCall, PostFails, Goto
  <2> QED BY <2>1, <2>2, <2>3, <2>4, <2>5, <2>6
<1>6. ASSUME NEW t \in Threads, Retract(t)
      PROVE  IInv'
  <2>1. cur[t] \in Actions /\ reply[cur[t]] = "none" /\ released[cur[t]] = 0
    BY <1>6 DEF CallInv, InCall, Retract
  <2>2. TypeOK'
    BY <2>1, <1>6 DEF TypeOK, Retract, WithoutItem, Idle
  <2>3. OneWake'
    BY <2>1, <1>6 DEF TypeOK, OneWake, Posting, Reposting, Retract,
          WithoutItem, Idle
  <2>4. CallInv'
    BY <2>1, <1>6 DEF TypeOK, CallInv, ItemInv, OneWake, InCall, Posting,
          Retract, WithoutItem, Idle
  <2>5. ItemInv'
    BY <2>1, <1>6 DEF TypeOK, ItemInv, CallInv, OneWake, Posting, InCall,
          Retract, WithoutItem, Idle
  <2>6. WakeInv'
    BY <2>1, <1>6 DEF TypeOK, WakeInv, CallInv, OneWake, Posting, Reposting,
          Retract, WithoutItem, Idle
  <2>7. InvokedInv'
    BY <2>1, <1>6 DEF TypeOK, InvokedInv, ItemInv, CallInv, InCall, Retract,
          WithoutItem, Idle
  <2> QED BY <2>2, <2>3, <2>4, <2>5, <2>6, <2>7
<1>7. ASSUME NEW t \in Threads, NEW a \in Actions, SetCompleted(t, a)
      PROVE  IInv'
  <2>1. pc[t] = "idle" /\ UNCHANGED <<work, messages, wakePending, step, reply, released, invoked>>
    BY <1>7 DEF SetCompleted, Usable, Ready, Unfinished
  <2>2. (pc' = pc /\ cur' = cur) \/ Goto(t, "callback", a)
    BY <1>7 DEF SetCompleted, Usable, Ready, Unfinished
  <2>3. Posting' = Posting /\ Reposting' = Reposting
    BY <2>1, <2>2 DEF TypeOK, Posting, Reposting, Goto
  <2>4. pc' \in [Threads -> {"idle", "enqueue", "post", "retract", "callback"}]
       /\ cur' \in [Threads -> Actions \cup {NoAction}]
    BY <2>2 DEF TypeOK, Goto
  <2>5. \A u \in Threads \ {t} : pc'[u] = pc[u] /\ cur'[u] = cur[u]
    BY <2>2 DEF TypeOK, Goto
  <2>6. pc'[t] \in {"idle", "callback"} /\ (pc'[t] = "callback" => cur'[t] = a)
    BY <2>1, <2>2 DEF TypeOK, Goto
  <2>7. \A x \in Actions : status[x] = "fresh" <=> status'[x] = "fresh"
    BY <1>7 DEF TypeOK, SetCompleted, Usable, Ready, Unfinished
  <2>8. \A u \in Threads : InCall(u)' => InCall(u) /\ cur'[u] = cur[u] /\ pc'[u] = pc[u]
    BY <2>5, <2>6 DEF InCall
  <2>9. \A u \in Threads : pc'[u] # "idle" => cur'[u] \in Actions
    BY <2>5, <2>6 DEF InCall, CallInv
  <2>10. \A u \in Posting : cur'[u] = cur[u]
    BY <2>1, <2>5 DEF Posting
  <2>11. TypeOK'
    BY <1>7, <2>1, <2>4 DEF TypeOK, SetCompleted, Usable, Ready, Unfinished
  <2>12. OneWake'
    BY <2>1, <2>3 DEF OneWake
  <2>13. CallInv'
    BY <2>1, <2>3, <2>7, <2>8, <2>9, <2>10, CallbackKeepsInv
  <2>14. ItemInv'
    BY <2>1, <2>3, <2>7, <2>8, <2>9, <2>10, CallbackKeepsInv
  <2>15. WakeInv'
    BY <2>1, <2>3 DEF WakeInv
  <2>16. InvokedInv'
    BY <2>1 DEF InvokedInv
  <2> QED BY <2>11, <2>12, <2>13, <2>14, <2>15, <2>16
<1>8. ASSUME NEW t \in Threads, NEW a \in Actions, Cancel(t, a)
      PROVE  IInv'
  <2>1. pc[t] = "idle" /\ UNCHANGED <<work, messages, wakePending, step, reply, released, invoked>>
    BY <1>8 DEF Cancel, Usable, Ready
  <2>2. (pc' = pc /\ cur' = cur) \/ Goto(t, "callback", a)
    BY <1>8 DEF Cancel, Usable, Ready
  <2>3. Posting' = Posting /\ Reposting' = Reposting
    BY <2>1, <2>2 DEF TypeOK, Posting, Reposting, Goto
  <2>4. pc' \in [Threads -> {"idle", "enqueue", "post", "retract", "callback"}]
       /\ cur' \in [Threads -> Actions \cup {NoAction}]
    BY <2>2 DEF TypeOK, Goto
  <2>5. \A u \in Threads \ {t} : pc'[u] = pc[u] /\ cur'[u] = cur[u]
    BY <2>2 DEF TypeOK, Goto
  <2>6. pc'[t] \in {"idle", "callback"} /\ (pc'[t] = "callback" => cur'[t] = a)
    BY <2>1, <2>2 DEF TypeOK, Goto
  <2>7. \A x \in Actions : status[x] = "fresh" <=> status'[x] = "fresh"
    BY <1>8 DEF TypeOK, Cancel, Usable, Ready
  <2>8. \A u \in Threads : InCall(u)' => InCall(u) /\ cur'[u] = cur[u] /\ pc'[u] = pc[u]
    BY <2>5, <2>6 DEF InCall
  <2>9. \A u \in Threads : pc'[u] # "idle" => cur'[u] \in Actions
    BY <2>5, <2>6 DEF InCall, CallInv
  <2>10. \A u \in Posting : cur'[u] = cur[u]
    BY <2>1, <2>5 DEF Posting
  <2>11. TypeOK'
    BY <1>8, <2>1, <2>4 DEF TypeOK, Cancel, Usable, Ready
  <2>12. OneWake'
    BY <2>1, <2>3 DEF OneWake
  <2>13. CallInv'
    BY <2>1, <2>3, <2>7, <2>8, <2>9, <2>10, CallbackKeepsInv
  <2>14. ItemInv'
    BY <2>1, <2>3, <2>7, <2>8, <2>9, <2>10, CallbackKeepsInv
  <2>15. WakeInv'
    BY <2>1, <2>3 DEF WakeInv
  <2>16. InvokedInv'
    BY <2>1 DEF InvokedInv
  <2> QED BY <2>11, <2>12, <2>13, <2>14, <2>15, <2>16
<1>9. ASSUME NEW t \in Threads, NEW a \in Actions, Close(t, a)
      PROVE  IInv'
  <2>1. TypeOK'
    BY <1>9 DEF TypeOK, Close, HandlerOnClose
  <2>2. OneWake'
    BY <1>9 DEF TypeOK, OneWake, Posting, Reposting, Close, HandlerOnClose
  <2>3. CallInv'
    BY <1>9 DEF TypeOK, CallInv, ItemInv, OneWake, InCall, Posting, Close,
          HandlerOnClose
  <2>4. ItemInv'
    BY <1>9 DEF TypeOK, ItemInv, CallInv, OneWake, Posting, InCall, Close,
          HandlerOnClose
  <2>5. WakeInv'
    BY <1>9 DEF TypeOK, WakeInv, CallInv, OneWake, Posting, Reposting, Close,
          HandlerOnClose
  <2>6. InvokedInv'
    BY <1>9 DEF TypeOK, InvokedInv, ItemInv, CallInv, InCall, Close,
          HandlerOnClose
  <2> QED BY <2>1, <2>2, <2>3, <2>4, <2>5, <2>6
<1>10. ASSUME NEW t \in Threads, InvokeCompleted(t)
      PROVE  IInv'
  <2>1. TypeOK'
    BY <1>10 DEF TypeOK, CallInv, InvokeCompleted, Idle
  <2>2. OneWake'
    BY <1>10 DEF TypeOK, OneWake, Posting, Reposting, InvokeCompleted, Idle
  <2>3. CallInv'
    BY <1>10 DEF TypeOK, CallInv, ItemInv, OneWake, InCall, Posting,
          InvokeCompleted, Idle
  <2>4. ItemInv'
    BY <1>10 DEF TypeOK, ItemInv, CallInv, OneWake, Posting, InCall,
          InvokeCompleted, Idle
  <2>5. WakeInv'
    BY <1>10 DEF TypeOK, WakeInv, CallInv, OneWake, Posting, Reposting,
          InvokeCompleted, Idle
  <2>6. InvokedInv'
    BY <1>10 DEF TypeOK, InvokedInv, ItemInv, CallInv, InCall,
          InvokeCompleted, Idle
  <2> QED BY <2>1, <2>2, <2>3, <2>4, <2>5, <2>6
<1>11. ASSUME NEW a \in Actions, Dispatch(a)
      PROVE  IInv'
  <2>1. messages = 1 /\ Posting = {} /\ Reposting = {} /\ a \in work /\ reply[a] = "ok"
    BY <1>11 DEF TypeOK, OneWake, ItemInv, Dispatch, WokenUp, Selected,
          StillPending, AfterTaking
  <2>2. Posting' = {} /\ Reposting' \subseteq {a}
    BY <2>1, <1>11 DEF Posting, Reposting, TypeOK, Dispatch, WokenUp,
          Selected, StillPending, AfterTaking
  <2>3. messages' = 0
    BY <2>1, <1>11 DEF Dispatch
  <2>4. Reposting' # {} => wakePending' /\ work' # {}
    BY <2>1, <1>11 DEF Reposting, TypeOK, Dispatch, StillPending, AfterTaking
  <2>5. TypeOK'
    BY <1>11, StackTypes DEF TypeOK, Dispatch, WokenUp, Selected,
          StillPending, AfterTaking
  <2>6. OneWake'
    BY <2>2, <2>3, <2>4 DEF OneWake
  <2>7. CallInv'
    BY <2>1, <2>2, <1>11 DEF TypeOK, CallInv, InCall, Posting, Dispatch,
          WokenUp, Selected, StillPending, AfterTaking
  <2>8. ItemInv'
    BY <2>1, <2>2, <1>11 DEF TypeOK, ItemInv, Dispatch, WokenUp, Selected,
          StillPending, AfterTaking
  <2>9. WakeInv'
    BY <2>3, <2>4 DEF WakeInv
  <2>10. InvokedInv'
    BY <1>11 DEF TypeOK, InvokedInv, ItemInv, CallInv, InCall, Dispatch,
          WokenUp, Selected, StillPending, AfterTaking
  <2> QED BY <2>5, <2>6, <2>7, <2>8, <2>9, <2>10
<1>12. ASSUME Repost
      PROVE  IInv'
  <2>1. Top \in Actions /\ step[Top] = "repost" /\ reply[Top] = "ok"
    BY <1>12, StackTypes DEF TypeOK, ItemInv, Repost, AtTop, StepTo
  <2>2. TypeOK'
    <3>1. messages' \in Nat
      BY <1>12 DEF TypeOK, Repost
    <3>2. step' \in [Actions -> Steps]
      BY <2>1, <1>12 DEF TypeOK, Repost, StepTo
    <3> QED BY <3>1, <3>2, <1>12 DEF TypeOK, Repost, StepTo
  <2>3. OneWake'
    BY <2>1, <1>12 DEF TypeOK, OneWake, Posting, Reposting, Repost, AtTop,
          StepTo
  <2>4. CallInv'
    BY <2>1, <1>12 DEF TypeOK, CallInv, ItemInv, OneWake, InCall, Posting,
          Repost, AtTop, StepTo
  <2>5. ItemInv'
    BY <2>1, <1>12 DEF TypeOK, ItemInv, CallInv, OneWake, Posting, InCall,
          Repost, AtTop, StepTo
  <2>6. WakeInv'
    BY <2>1, <1>12 DEF TypeOK, WakeInv, CallInv, OneWake, Posting, Reposting,
          Repost, AtTop, StepTo
  <2>7. InvokedInv'
    BY <2>1, <1>12 DEF TypeOK, InvokedInv, ItemInv, CallInv, InCall, Repost,
          AtTop, StepTo
  <2> QED BY <2>2, <2>3, <2>4, <2>5, <2>6, <2>7
<1>13. ASSUME Check \/ Invoke
      PROVE  IInv'
  <2>1. /\ Top \in Actions /\ step[Top] \in {"check", "invoking"}
        /\ reply[Top] = "ok" /\ released[Top] = 0
    BY <1>13, StackTypes DEF TypeOK, ItemInv, Check, Invoke, AtTop
  <2>2. \E l \in {"invoking", "running", "skipped"} : step' = [step EXCEPT ![Top] = l]
    BY <1>13 DEF Check, Invoke, StepTo
  <2>3. UNCHANGED <<work, messages, wakePending, pc, cur, reply, released>>
    BY <1>13 DEF Check, Invoke
  <2>4. Posting' = Posting /\ Reposting' = Reposting
    BY <2>1, <2>2, <2>3 DEF TypeOK, Posting, Reposting
  <2>5. step' \in [Actions -> Steps] /\ \A x \in Actions \ {Top} : step'[x] = step[x]
    BY <2>1, <2>2 DEF TypeOK
  <2>6. step'[Top] # "none"
    BY <2>1, <2>2 DEF TypeOK
  <2>7. invoked' = invoked \/ invoked' = Append(invoked, Top)
    BY <1>13 DEF Check, Invoke
  <2>8. invoked \in Seq(Actions)
    BY DEF TypeOK
  <2>9. /\ invoked' \in Seq(Actions)
       /\ \A i \in 1..Len(invoked') :
             invoked'[i] = Top \/ (i \in 1..Len(invoked) /\ invoked'[i] = invoked[i])
    BY ONLY <2>1, <2>7, <2>8
  <2>10. TypeOK'
    BY <1>13, <2>3, <2>5, <2>9 DEF TypeOK, Check, Invoke, StepTo
  <2>11. OneWake'
    BY <2>3, <2>4 DEF OneWake
  <2>12. CallInv'
    BY <1>13, <2>1, <2>3, <2>4, <2>5 DEF TypeOK, CallInv, InCall, Check, Invoke
  <2>13. ItemInv'
    BY <1>13, <2>1, <2>3, <2>4, <2>5, <2>6 DEF TypeOK, ItemInv, Check, Invoke
  <2>14. WakeInv'
    BY <2>3, <2>4 DEF WakeInv
  <2>15. InvokedInv'
    BY <2>1, <2>3, <2>9 DEF InvokedInv
  <2> QED BY <2>10, <2>11, <2>12, <2>13, <2>14, <2>15
<1>14. ASSUME NEW result \in {"Completed", "Error"}, Complete(result)
      PROVE  IInv'
  <2>1. Top \in Actions /\ step[Top] \in {"running", "skipped"} /\ reply[Top] = "ok" /\ released[Top] = 0
    BY <1>14, StackTypes DEF TypeOK, ItemInv, Complete, AtTop, StepTo
  <2>2. \E l \in {"telling", "ended"} : step' = [step EXCEPT ![Top] = l]
    BY <1>14 DEF Complete, AtTop, StepTo
  <2>3. UNCHANGED <<work, messages, wakePending, pc, cur, reply, released>>
    BY <1>14 DEF Complete, AtTop, StepTo
  <2>4. Posting' = Posting /\ Reposting' = Reposting
    BY <2>1, <2>2, <2>3 DEF TypeOK, Posting, Reposting
  <2>5. step' \in [Actions -> Steps] /\ \A x \in Actions \ {Top} : step'[x] = step[x]
    BY <2>1, <2>2 DEF TypeOK
  <2>6. step'[Top] # "none"
    BY <2>1, <2>2 DEF TypeOK
  <2>7. UNCHANGED status \/ status' = [status EXCEPT ![Top] = result]
    BY <1>14 DEF Complete
  <2>8. status' \in [Actions -> Final \cup {"fresh", "Started"}]
       /\ \A x \in Actions : status'[x] = "fresh" => status[x] = "fresh"
    <3>1. status \in [Actions -> Final \cup {"fresh", "Started"}]
      BY DEF TypeOK
    <3>2. result \in Final /\ result # "fresh"
      BY DEF Final
    <3>3. CASE UNCHANGED status
      BY <3>1, <3>3
    <3>4. CASE status' = [status EXCEPT ![Top] = result]
      BY <2>1, <3>1, <3>2, <3>4
    <3> QED
      BY <2>7, <3>3, <3>4
  <2>9. UNCHANGED <<nextOrder, priority, order, alive, completed, closed, stack, invoked, told>>
    BY <1>14 DEF Complete, AtTop, StepTo
  <2>10. \A x \in Actions : status[x] = "fresh" <=> status'[x] = "fresh"
    BY <2>1, <2>7 DEF TypeOK, ItemInv
  <2>11. TypeOK'
    BY <2>3, <2>5, <2>8, <2>9 DEF TypeOK
  <2>12. OneWake'
    BY <2>3, <2>4 DEF OneWake
  <2>13. CallInv'
    BY <2>1, <2>3, <2>4, <2>5, <2>10 DEF TypeOK, CallInv, InCall
  <2>14. ItemInv'
    BY <2>1, <2>3, <2>4, <2>5, <2>6, <2>8 DEF TypeOK, ItemInv
  <2>15. WakeInv'
    BY <2>3, <2>4 DEF WakeInv
  <2>16. InvokedInv'
    BY <2>3, <2>9 DEF InvokedInv
  <2> QED BY <2>11, <2>12, <2>13, <2>14, <2>15, <2>16
<1>15. ASSUME Tell
      PROVE  IInv'
  <2>1. Top \in Actions /\ step[Top] = "telling" /\ reply[Top] = "ok" /\ released[Top] = 0
    BY <1>15, StackTypes DEF TypeOK, ItemInv, Tell, AtTop, StepTo
  <2>2. \E l \in {"told"} : step' = [step EXCEPT ![Top] = l]
    BY <1>15 DEF Tell, AtTop, StepTo
  <2>3. UNCHANGED <<work, messages, wakePending, pc, cur, reply, released>>
    BY <1>15 DEF Tell, AtTop, StepTo
  <2>4. Posting' = Posting /\ Reposting' = Reposting
    BY <2>1, <2>2, <2>3 DEF TypeOK, Posting, Reposting
  <2>5. step' \in [Actions -> Steps] /\ \A x \in Actions \ {Top} : step'[x] = step[x]
    BY <2>1, <2>2 DEF TypeOK
  <2>6. step'[Top] # "none"
    BY <2>1, <2>2 DEF TypeOK
  <2>7. TypeOK'
    BY <1>15, <2>1, <2>3, <2>5 DEF TypeOK, Tell, StepTo
  <2>8. OneWake'
    BY <2>3, <2>4 DEF OneWake
  <2>9. CallInv'
    BY <1>15, <2>1, <2>3, <2>4, <2>5 DEF TypeOK, CallInv, InCall, Tell, AtTop,
          StepTo
  <2>10. ItemInv'
    BY <1>15, <2>1, <2>3, <2>4, <2>5, <2>6 DEF TypeOK, ItemInv, Tell, AtTop,
          StepTo
  <2>11. WakeInv'
    BY <2>3, <2>4 DEF WakeInv
  <2>12. InvokedInv'
    BY <1>15, <2>3 DEF InvokedInv, Tell, AtTop, StepTo
  <2> QED BY <2>7, <2>8, <2>9, <2>10, <2>11, <2>12
<1>16. ASSUME Return
      PROVE  IInv'
  <2>1. Top \in Actions /\ Tail(stack) \in Seq(Actions)
    BY <1>16, StackTypes DEF TypeOK, Return, AtTop
  <2>2. step[Top] \in {"told", "ended"} /\ reply[Top] = "ok" /\ released[Top] = 0
    BY <2>1, <1>16 DEF ItemInv, Return, AtTop
  <2>3. TypeOK'
    BY <2>1, <2>2, <1>16 DEF TypeOK, Return, AtTop
  <2>4. OneWake'
    BY <2>1, <2>2, <1>16 DEF TypeOK, OneWake, Posting, Reposting, Return, AtTop
  <2>5. CallInv'
    BY <2>1, <2>2, <1>16 DEF TypeOK, CallInv, ItemInv, OneWake, InCall,
          Posting, Return, AtTop
  <2>6. ItemInv'
    BY <2>1, <2>2, <1>16 DEF TypeOK, ItemInv, CallInv, OneWake, Posting,
          InCall, Return, AtTop
  <2>7. WakeInv'
    BY <2>1, <2>2, <1>16 DEF TypeOK, WakeInv, CallInv, OneWake, Posting,
          Reposting, Return, AtTop
  <2>8. InvokedInv'
    BY <2>1, <2>2, <1>16 DEF TypeOK, InvokedInv, ItemInv, CallInv, InCall,
          Return, AtTop
  <2> QED BY <2>3, <2>4, <2>5, <2>6, <2>7, <2>8
<1>17. ASSUME OwnerExits
      PROVE  IInv'
  <2>1. TypeOK'
    BY <1>17 DEF TypeOK, OwnerExits
  <2>2. OneWake'
    BY <1>17 DEF TypeOK, OneWake, Posting, Reposting, OwnerExits
  <2>3. CallInv'
    BY <1>17 DEF TypeOK, CallInv, ItemInv, OneWake, InCall, Posting, OwnerExits
  <2>4. ItemInv'
    BY <1>17 DEF TypeOK, ItemInv, CallInv, OneWake, Posting, InCall, OwnerExits
  <2>5. WakeInv'
    BY <1>17 DEF TypeOK, WakeInv, CallInv, OneWake, Posting, Reposting,
          OwnerExits
  <2>6. InvokedInv'
    BY <1>17 DEF TypeOK, InvokedInv, ItemInv, CallInv, InCall, OwnerExits
  <2> QED BY <2>1, <2>2, <2>3, <2>4, <2>5, <2>6
<1>18. CASE UNCHANGED vars
  BY <1>18 DEF vars, TypeOK, OneWake, CallInv, ItemInv, WakeInv,
          InvokedInv, Posting, Reposting, InCall
<1> QED BY <1>1, <1>2, <1>3, <1>4, <1>5, <1>6, <1>7, <1>8, <1>9, <1>10, <1>11,
          <1>12, <1>13, <1>14, <1>15, <1>16, <1>17, <1>18 DEF Next, Request,
          CallStep, OwnerStep

(* Every variable keeps its type, whatever the callers do.                 *)
THEOREM TypeCorrect == Spec => []TypeOK
<1>1. IInv => TypeOK
  BY DEF IInv
<1> QED BY <1>1, InitInv, NextInv, PTL DEF Spec

(* Of the wake message, the threads about to post it and the window        *)
(* procedure about to post it again there is at most one at a time, and a  *)
(* wake message always finds an item.                                      *)
THEOREM WakeCorrect == Spec => []WakeProtocol
<1>1. IInv => WakeProtocol
  BY DEF IInv, WakeInv, WakeCarriesWork, WakeProtocol
<1> QED BY <1>1, InitInv, NextInv, PTL DEF Spec

(* The item a failed post takes back is still queued, no item's references *)
(* are released twice or while someone still holds it, and the callback of *)
(* a RunAsync that reported failure is never invoked.                      *)
THEOREM ReleaseCorrect == Spec => []ReleaseProtocol
<1>1. IInv => RetractOwnsItem /\ ReleasedOnce
  BY DEF IInv, TypeOK, CallInv, ItemInv, Posting, RetractOwnsItem, ReleasedOnce
<1>2. IInv => FailedNeverRuns
  BY DEF IInv, InvokedInv, FailedNeverRuns
<1>3. IInv => ReleaseProtocol
  BY <1>1, <1>2 DEF ReleaseProtocol
<1> QED BY <1>3, InitInv, NextInv, PTL DEF Spec

-----------------------------------------------------------------------------
(* The callbacks invoked so far, and the item between its removal from the *)
(* queue and the look at its status or the call of its callback.           *)
Invoked == {invoked[i] : i \in 1..Len(invoked)}
Checking == {a \in Actions : step[a] \in {"repost", "check", "invoking"}}
Calling(a) == \E t \in Threads : pc[t] = "callback" /\ cur[t] = a

(* Every window procedure but the innermost runs a callback or a handler,  *)
(* and each has an item of its own.                                        *)
StackInv ==
    /\ \A i \in 2..Len(stack) : step[stack[i]] \in {"running", "told"}
    /\ \A i \in 1..Len(stack) : step[stack[i]] # "none"
    /\ \A i, j \in 1..Len(stack) : stack[i] = stack[j] => i = j
    /\ \A a \in Actions : step[a] # "none" => \E i \in 1..Len(stack) : stack[i] = a

(* What was invoked or is about to be precedes what is queued.             *)
Before(a, b) == priority[a] = priority[b] => order[a] < order[b]
OrderInv ==
    /\ \A a \in work : priority[a] \in Priorities /\ order[a] < nextOrder
    /\ \A t \in Threads : InCall(t) => priority[cur[t]] \in Priorities
    /\ \A a \in Invoked \cup Checking :
          order[a] < nextOrder /\ a \notin work /\ \A b \in work : Before(a, b)
    /\ \A a \in Invoked, b \in Checking : a # b /\ Before(a, b)
    /\ \A a, b \in Checking : a = b

(* Of the told handler, the thread about to tell it and the window         *)
(* procedure about to tell it there is at most one, and only for an action *)
(* that has ended.                                                         *)
CompletionInv ==
    /\ \A a \in Actions : told[a] > 0 \/ TookHandler(a) =>
          status[a] \in Final /\ (completed[a] \/ closed[a])
    /\ \A a \in Actions : told[a] =< 1 /\ (told[a] = 1 => ~TookHandler(a))
    /\ \A a \in Actions : step[a] = "telling" => ~Calling(a)
    /\ \A t, u \in Threads : pc[t] = "callback" /\ pc[u] = "callback" /\ cur[t] = cur[u] => t = u
    /\ \A a \in Actions : closed[a] => ~completed[a]

(* Only what was accepted can end, and an item that ends was run or had    *)
(* been closed before its callback was to be called.                       *)
ReplyInv ==
    /\ \A a \in Actions : reply[a] # "ok" => status[a] \in {"fresh", "Started"}
    /\ \A a \in Actions : step[a] = "running" => a \in Invoked
    /\ \A a \in Actions : step[a] = "skipped" =>
          a \notin Invoked /\ (closed[a] \/ status[a] # "Started")

LEMMA TopFacts ==
  ASSUME TypeOK, stack # <<>>
  PROVE  /\ Top = stack[1] /\ 1 \in 1..Len(stack) /\ Top \in Actions
         /\ Len(stack) \in Nat /\ \A i \in 1..Len(stack) : stack[i] \in Actions
         /\ Tail(stack) \in Seq(Actions) /\ Len(Tail(stack)) = Len(stack) - 1
         /\ \A i \in 1..(Len(stack) - 1) : Tail(stack)[i] = stack[i + 1]
BY DEF TypeOK, Top

(* A step of the window procedure that goes on, to a label that holds.     *)
LEMMA RelabelStack ==
  ASSUME TypeOK, StackInv, stack # <<>>, UNCHANGED stack,
         NEW l \in Steps \ {"none"}, step' = [step EXCEPT ![Top] = l],
         step[Top] # "none"
  PROVE  StackInv'
<1>1. \A b \in Actions : step'[b] = IF b = Top THEN l ELSE step[b]
  BY DEF TypeOK
<1>2. \A i \in 2..Len(stack) : i \in 1..Len(stack) /\ stack[i] \in Actions \ {Top}
  BY TopFacts DEF StackInv
<1>3. \A i \in 2..Len(stack) : step'[stack[i]] = step[stack[i]]
  BY <1>1, <1>2
<1>4. \A i \in 1..Len(stack) : step'[stack[i]] # "none"
  BY <1>1, TopFacts DEF StackInv
<1>5. \A b \in Actions : step'[b] # "none" => step[b] # "none"
  BY <1>1
<1> QED BY <1>3, <1>4, <1>5 DEF StackInv

LEMMA StackStep == IInv /\ StackInv /\ [Next]_vars => StackInv'
<1> SUFFICES ASSUME IInv, StackInv, [Next]_vars
             PROVE  StackInv'
  OBVIOUS
<1>1. TypeOK
  BY DEF IInv
<1>2. ASSUME NEW a \in Actions, Dispatch(a)
      PROVE  StackInv'
  <2>1. a \in work /\ step[a] = "none"
    BY <1>2 DEF Dispatch, Selected, IInv, ItemInv
  <2>2. \A i \in 1..Len(stack) : stack[i] # a
    BY <2>1 DEF StackInv
  <2>3. /\ stack' \in Seq(Actions) /\ Len(stack') = Len(stack) + 1 /\ stack'[1] = a
        /\ \A i \in 2..Len(stack') : i - 1 \in 1..Len(stack) /\ stack'[i] = stack[i - 1]
    BY <1>1, <1>2 DEF Dispatch, TypeOK
  <2>4. /\ step'[a] \in {"repost", "check"}
        /\ \A b \in Actions : b # a => step'[b] = step[b]
    BY <1>1, <1>2 DEF Dispatch, TypeOK, AfterTaking
  <2>5. \A i \in 1..Len(stack) : step[stack[i]] \in {"running", "told"}
    BY <1>1, <1>2, TopFacts DEF Dispatch, OwnerInUserCode, StackInv
  <2>6. \A i \in 1..Len(stack) : stack[i] \in Actions /\ Len(stack) \in Nat
    BY <1>1 DEF TypeOK
  <2>7. \A i \in 2..Len(stack') : step'[stack'[i]] \in {"running", "told"} /\ stack'[i] # a
    BY <2>2, <2>3, <2>4, <2>5, <2>6
  <2>8. \A i \in 1..Len(stack') : step'[stack'[i]] # "none"
    BY <2>3, <2>4, <2>6, <2>7
  <2>9. \A i, j \in 1..Len(stack') : stack'[i] = stack'[j] => i = j
    <3> SUFFICES ASSUME NEW i \in 1..Len(stack'), NEW j \in 1..Len(stack'), stack'[i] = stack'[j]
                 PROVE  i = j
      OBVIOUS
    <3>1. CASE i = 1 \/ j = 1
      BY <3>1, <2>3, <2>6, <2>7
    <3>2. CASE i # 1 /\ j # 1
      <4>1. i \in 2..Len(stack') /\ j \in 2..Len(stack')
        BY <3>2, <2>3, <2>6
      <4>2. i - 1 = j - 1
        BY <4>1, <2>3 DEF StackInv
      <4> QED BY <4>1, <4>2
    <3> QED BY <3>1, <3>2
  <2>10. ASSUME NEW b \in Actions, step'[b] # "none"
         PROVE  \E i \in 1..Len(stack') : stack'[i] = b
    <3>1. CASE b = a
      BY <3>1, <2>3, <2>6
    <3>2. CASE b # a
      <4>1. PICK i \in 1..Len(stack) : stack[i] = b
        BY <3>2, <2>4, <2>10 DEF StackInv
      <4>2. i + 1 \in 2..Len(stack') /\ (i + 1) - 1 = i
        BY <2>3, <2>6
      <4>3. stack'[i + 1] = b
        BY <2>3, <4>1, <4>2
      <4> QED BY <4>2, <4>3
    <3> QED BY <3>1, <3>2
  <2> QED BY <2>7, <2>8, <2>9, <2>10 DEF StackInv
<1>3. CASE Repost
  BY <1>1, <1>3, RelabelStack DEF Repost, AtTop, StepTo, Steps
<1>4. CASE Check \/ Invoke
  BY <1>1, <1>4, RelabelStack DEF Check, Invoke, AtTop, StepTo, Steps
<1>5. ASSUME NEW result \in {"Completed", "Error"}, Complete(result)
      PROVE  StackInv'
  BY <1>1, <1>5, RelabelStack DEF Complete, AtTop, StepTo, Steps
<1>6. CASE Tell
  BY <1>1, <1>6, RelabelStack DEF Tell, AtTop, StepTo, Steps
<1>7. CASE Return
  <2>1. /\ stack # <<>> /\ stack' = Tail(stack)
        /\ step' = [step EXCEPT ![Top] = "none"]
    BY <1>7 DEF Return, AtTop
  <2>2. \A i \in 2..Len(stack) : stack[i] # Top
    BY <1>1, <2>1, TopFacts DEF StackInv
  <2>3. /\ Len(stack') = Len(stack) - 1
        /\ \A i \in 1..Len(stack') : /\ i + 1 \in 2..Len(stack) /\ stack'[i] = stack[i + 1]
                                     /\ step'[stack'[i]] = step[stack[i + 1]]
    <3>1. stack \in Seq(Actions) /\ step \in [Actions -> Steps]
      BY <1>1 DEF TypeOK
    <3>2. /\ Len(stack') = Len(stack) - 1 /\ Len(stack) \in Nat
          /\ \A i \in 1..Len(stack') : /\ i + 1 \in 2..Len(stack) /\ stack'[i] = stack[i + 1]
                                       /\ stack[i + 1] \in Actions
      BY <2>1, <3>1
    <3> QED
      BY <2>1, <2>2, <3>1, <3>2
  <2>4. \A i \in 1..Len(stack') : step'[stack'[i]] \in {"running", "told"}
    BY <2>3 DEF StackInv
  <2>5. \A i, j \in 1..Len(stack') : stack'[i] = stack'[j] => i = j
    BY <2>3 DEF StackInv
  <2>6. ASSUME NEW b \in Actions, step'[b] # "none"
        PROVE  \E i \in 1..Len(stack') : stack'[i] = b
    <3>1. b # Top /\ step[b] # "none"
      BY <2>6, <2>1, <1>1 DEF TypeOK
    <3>2. PICK i \in 1..Len(stack) : stack[i] = b
      BY <3>1 DEF StackInv
    <3>3. i # 1
      BY <3>1, <3>2, <1>1, <2>1, TopFacts
    <3>4. i - 1 \in 1..Len(stack') /\ (i - 1) + 1 = i
      BY <2>3, <3>3, <1>1, <2>1, TopFacts
    <3> QED BY <3>4, <3>2, <2>3
  <2>7. Len(stack') \in Nat
    BY <1>1, <2>1, TopFacts
  <2>8. 2..Len(stack') \subseteq 1..Len(stack')
    BY <2>7
  <2> QED BY <2>4, <2>5, <2>6, <2>8 DEF StackInv
<1>8. CASE UNCHANGED <<stack, step>>
  BY <1>8 DEF StackInv
<1> QED BY <1>2, <1>3, <1>4, <1>5, <1>6, <1>7, <1>8
    DEF Next, Request, CallStep, OwnerStep, vars, frameVars, RunAsync, RunAsyncRefused,
        SetCompleted, Cancel, Close, Enqueue, PostWake, PostFails, Retract, InvokeCompleted,
        OwnerExits

(* Steps that leave the queue, the order of the items and what has been    *)
(* invoked alone, and start no call of Enqueue.                            *)
LEMMA SameOrder ==
  ASSUME OrderInv, Checking' = Checking, UNCHANGED <<work, nextOrder, priority, order, invoked>>,
         \A t \in Threads : InCall(t)' => InCall(t) /\ cur'[t] = cur[t]
  PROVE  OrderInv'
<1>1. Invoked' = Invoked
  BY DEF Invoked
<1> QED BY <1>1 DEF OrderInv, Before

LEMMA InvokedWere ==
  ASSUME IInv
  PROVE  \A a \in Invoked : reply[a] = "ok" /\ a \in Actions
BY DEF IInv, InvokedInv, Invoked, TypeOK

LEMMA NothingChecked ==
  ASSUME TypeOK, StackInv, OwnerInUserCode
  PROVE  Checking = {}
<1> SUFFICES ASSUME NEW a \in Actions, step[a] \in {"repost", "check", "invoking"}
             PROVE  FALSE
  BY DEF Checking
<1>1. PICK i \in 1..Len(stack) : stack[i] = a
  BY DEF StackInv
<1>2. Len(stack) \in Nat /\ stack # <<>>
  BY <1>1 DEF TypeOK
<1>3. CASE i = 1
  BY <1>1, <1>2, <1>3, TopFacts DEF OwnerInUserCode
<1>4. CASE i \in 2..Len(stack)
  BY <1>1, <1>4 DEF StackInv
<1> QED BY <1>2, <1>3, <1>4

LEMMA OrderStep == IInv /\ StackInv /\ OrderInv /\ [Next]_vars => OrderInv'
<1> SUFFICES ASSUME IInv, StackInv, OrderInv, [Next]_vars
             PROVE  OrderInv'
  OBVIOUS
<1> USE InvokedWere
<1>1. TypeOK
  BY DEF IInv
<1>2. ASSUME NEW t \in Threads, NEW a \in Actions, NEW p \in Priorities, RunAsync(t, a, p)
      PROVE  OrderInv'
  <2>1. reply[a] = "none" /\ a \notin work /\ step[a] = "none" /\ a \notin Invoked
    BY <1>2 DEF RunAsync, IInv, ItemInv
  <2>2. /\ UNCHANGED <<work, nextOrder, order, step, invoked>>
        /\ priority' = [priority EXCEPT ![a] = p]
        /\ pc' = [pc EXCEPT ![t] = "enqueue"] /\ cur' = [cur EXCEPT ![t] = a]
    BY <1>2 DEF RunAsync, Goto, frameVars, seenVars
  <2>3. \A b \in Actions \ {a} : priority'[b] = priority[b]
    BY <2>2, <1>1 DEF TypeOK
  <2>4. Invoked' = Invoked /\ Checking' = Checking /\ a \notin Checking
    BY <2>1, <2>2 DEF Invoked, Checking
  <2>5. ASSUME NEW u \in Threads, InCall(u)'
        PROVE  priority'[cur'[u]] \in Priorities
    <3>1. CASE u = t
      BY <3>1, <2>2, <1>1 DEF TypeOK
    <3>2. CASE u # t
      <4>1. InCall(u) /\ cur'[u] = cur[u]
        BY <3>2, <2>5, <2>2, <1>1 DEF TypeOK, InCall
      <4>2. cur[u] \in Actions /\ status[cur[u]] # "fresh"
        BY <4>1 DEF IInv, CallInv, InCall
      <4>3. cur[u] # a
        BY <4>2, <1>2 DEF RunAsync
      <4> QED BY <4>1, <4>2, <4>3, <2>3 DEF OrderInv
    <3> QED BY <3>1, <3>2
  <2>6. work \subseteq Actions \ {a} /\ Invoked \subseteq Actions \ {a} /\ Checking \subseteq Actions \ {a}
    BY <2>1, <1>1 DEF TypeOK, Checking
  <2>7. \A b, c \in Actions \ {a} : Before(b, c)' <=> Before(b, c)
    BY <2>2, <2>3 DEF Before
  <2> QED BY <2>2, <2>3, <2>4, <2>5, <2>6, <2>7 DEF OrderInv
<1>3. ASSUME NEW t \in Threads, Enqueue(t)
      PROVE  OrderInv'
  <2>0. PICK a \in Actions : a = cur[t]
    BY <1>3 DEF Enqueue, IInv, CallInv
  <2>1. /\ a \notin work /\ reply[a] = "none" /\ step[a] = "none"
        /\ a \notin Invoked /\ a \notin Checking /\ priority[a] \in Priorities
    BY <1>3, <2>0 DEF Enqueue, IInv, CallInv, InCall, Checking, OrderInv
  <2>2. /\ UNCHANGED <<priority, step, invoked>>
        /\ work' = work \cup {a} /\ nextOrder' = nextOrder + 1
        /\ order' = [order EXCEPT ![a] = nextOrder]
    BY <1>3, <2>0 DEF Enqueue, frameVars
  <2>3. /\ order'[a] = nextOrder /\ nextOrder \in Nat
        /\ \A b \in Actions \ {a} : order'[b] = order[b] /\ order[b] \in Nat
    BY <2>1, <2>2, <1>1 DEF TypeOK
  <2>4. Invoked' = Invoked /\ Checking' = Checking
    BY <2>2 DEF Invoked, Checking
  <2>5. \A u \in Threads : InCall(u)' => InCall(u) /\ cur'[u] = cur[u]
    BY <1>3, <1>1 DEF Enqueue, InCall, Goto, Idle, TypeOK
  <2>6. work \subseteq Actions \ {a} /\ Invoked \subseteq Actions \ {a} /\ Checking \subseteq Actions \ {a}
    BY <2>1, <1>1 DEF TypeOK, Checking
  <2>7. \A b \in work' : priority'[b] \in Priorities /\ order'[b] < nextOrder'
    BY <2>1, <2>2, <2>3, <2>6 DEF OrderInv
  <2>8. ASSUME NEW b \in Invoked \cup Checking
        PROVE  order'[b] < nextOrder' /\ b \notin work' /\ \A c \in work' : Before(b, c)'
    <3>1. b \in Actions \ {a} /\ order[b] < nextOrder /\ b \notin work
      BY <2>6 DEF OrderInv
    <3>2. \A c \in work : Before(b, c)'
      <4>1. \A c \in work : Before(b, c) /\ c \in Actions \ {a}
        BY <2>6 DEF OrderInv
      <4> QED BY <2>2, <2>3, <3>1, <4>1 DEF Before
    <3>3. Before(b, a)'
      BY <2>3, <3>1 DEF Before
    <3> QED BY <3>1, <3>2, <3>3, <2>2, <2>3
  <2>9. \A b \in Invoked, c \in Checking : b # c /\ Before(b, c)'
    <3>1. \A b \in Actions \ {a}, c \in Actions \ {a} : Before(b, c)' <=> Before(b, c)
      BY <2>2, <2>3 DEF Before
    <3> QED BY <2>6, <3>1 DEF OrderInv
  <2>10. \A u \in Threads : InCall(u)' => priority'[cur'[u]] \in Priorities
    BY <2>2, <2>5 DEF OrderInv
  <2> QED BY <2>4, <2>7, <2>8, <2>9, <2>10 DEF OrderInv
<1>4. ASSUME NEW t \in Threads, Retract(t)
      PROVE  OrderInv'
  <2>1. UNCHANGED <<nextOrder, priority, order, step, invoked>> /\ work' \subseteq work
    BY <1>4 DEF Retract, WithoutItem, frameVars
  <2>2. Invoked' = Invoked /\ Checking' = Checking
    BY <2>1 DEF Invoked, Checking
  <2>3. \A u \in Threads : InCall(u)' => InCall(u) /\ cur'[u] = cur[u]
    BY <1>4, <1>1 DEF Retract, InCall, Idle, TypeOK
  <2> QED BY <2>1, <2>2, <2>3 DEF OrderInv, Before
<1>5. ASSUME NEW a \in Actions, Dispatch(a)
      PROVE  OrderInv'
  <2>1. Checking = {}
    BY <1>1, <1>5, NothingChecked DEF Dispatch
  <2>2. /\ a \in work /\ work' = work \ {a}
        /\ UNCHANGED <<nextOrder, priority, order, invoked, pc, cur>>
        /\ step' = [step EXCEPT ![a] = AfterTaking(work')]
    BY <1>5 DEF Dispatch, Selected, callVars, seenVars
  <2>3. Checking' \subseteq {a} /\ Invoked' = Invoked
    BY <2>1, <2>2, <1>1 DEF Checking, Invoked, TypeOK
  <2>4. \A b \in work' : Before(a, b)
    <3> SUFFICES ASSUME NEW b \in work', priority[a] = priority[b]
                 PROVE  order[a] < order[b]
      BY DEF Before
    <3>1. Precedes(a, b)
      BY <1>5, <2>2 DEF Dispatch, Selected
    <3>2. priority[a] \in Int
      BY <2>2, PrioritiesAssumption DEF OrderInv
    <3> QED BY <3>1, <3>2 DEF Precedes
  <2>5. \A b \in work' : b \in work /\ b # a
    BY <2>2
  <2>6. \A b \in Invoked \cup Checking' :
           order'[b] < nextOrder' /\ b \notin work' /\ \A c \in work' : Before(b, c)'
    BY <2>2, <2>3, <2>4, <2>5 DEF OrderInv, Before
  <2>7. \A b \in Invoked, c \in Checking' : b # c /\ Before(b, c)'
    BY <2>2, <2>3 DEF OrderInv, Before
  <2>8. \A u \in Threads : InCall(u)' => priority'[cur'[u]] \in Priorities
    BY <2>2 DEF OrderInv, InCall
  <2>9. \A b \in work' : priority'[b] \in Priorities /\ order'[b] < nextOrder'
    BY <2>2 DEF OrderInv
  <2> QED BY <2>3, <2>6, <2>7, <2>8, <2>9 DEF OrderInv
<1>6. CASE Invoke
  <2>1. /\ UNCHANGED <<work, nextOrder, priority, order, pc, cur>>
        /\ step[Top] = "invoking" /\ Top \in Actions
        /\ step' = [step EXCEPT ![Top] = "running"]
        /\ invoked' = Append(invoked, Top)
    BY <1>1, <1>6, TopFacts DEF Invoke, AtTop, StepTo, queueVars, callVars
  <2>2. Top \in Checking /\ Checking' = {}
    <3>1. Top \in Checking
      BY <2>1 DEF Checking
    <3>2. \A b \in Actions : step'[b] \in {"repost", "check", "invoking"} => b # Top /\ b \in Checking
      BY <2>1, <1>1 DEF Checking, TypeOK
    <3> QED BY <3>1, <3>2 DEF OrderInv, Checking
  <2>3. Invoked' \subseteq Invoked \cup {Top}
    <3>1. invoked \in Seq(Actions)
      BY <1>1 DEF TypeOK
    <3>2. \A i \in 1..Len(invoked') : invoked'[i] = Top \/ (i \in 1..Len(invoked) /\ invoked'[i] = invoked[i])
      BY ONLY <2>1, <3>1
    <3> QED BY <3>2 DEF Invoked
  <2>4. \A b \in Invoked' : order'[b] < nextOrder' /\ b \notin work' /\ \A c \in work' : Before(b, c)'
    BY <2>1, <2>2, <2>3 DEF OrderInv, Before
  <2>5. \A u \in Threads : InCall(u)' => priority'[cur'[u]] \in Priorities
    BY <2>1 DEF OrderInv, InCall
  <2> QED BY <2>1, <2>2, <2>4, <2>5 DEF OrderInv
<1>7. CASE Repost
  <2>1. Checking' = Checking
    BY <1>7, <1>1, TopFacts DEF Repost, AtTop, StepTo, Checking, TypeOK
  <2> QED BY <1>7, <2>1, SameOrder DEF Repost, AtTop, StepTo, InCall, queueVars, callVars, seenVars
<1>8. ASSUME NEW result \in {"Completed", "Error"}, Complete(result)
      PROVE  OrderInv'
  <2>1. Checking' = Checking
    BY <1>8, <1>1, TopFacts DEF Complete, AtTop, StepTo, Checking, TypeOK
  <2> QED BY <1>8, <2>1, SameOrder DEF Complete, InCall, queueVars, callVars, seenVars
<1>9. CASE Tell
  <2>1. Checking' = Checking
    BY <1>9, <1>1, TopFacts DEF Tell, AtTop, StepTo, Checking, TypeOK
  <2> QED BY <1>9, <2>1, SameOrder DEF Tell, InCall, queueVars, callVars, seenVars
<1>10. CASE Return
  <2>1. Checking' = Checking
    BY <1>10, <1>1, TopFacts DEF Return, AtTop, Checking, TypeOK
  <2> QED BY <1>10, <2>1, SameOrder DEF Return, InCall, queueVars, callVars, seenVars
<1>11. ASSUME NEW t \in Threads, NEW a \in Actions,
              RunAsyncRefused(t, a) \/ SetCompleted(t, a) \/ Cancel(t, a) \/ Close(t, a)
       PROVE  OrderInv'
  <2>1. UNCHANGED <<step, work, nextOrder, priority, order, invoked>>
    BY <1>11 DEF RunAsyncRefused, SetCompleted, Cancel, Close, frameVars, queueVars, seenVars
  <2>2. UNCHANGED callVars \/ Goto(t, "callback", a)
    BY <1>11 DEF RunAsyncRefused, SetCompleted, Cancel, Close
  <2>3. \A u \in Threads : InCall(u)' => InCall(u) /\ cur'[u] = cur[u]
    BY <2>2, <1>1 DEF Goto, InCall, callVars, TypeOK
  <2>4. Checking' = Checking
    BY <2>1 DEF Checking
  <2> QED BY <2>1, <2>3, <2>4, SameOrder
<1>12. ASSUME NEW t \in Threads, PostWake(t) \/ PostFails(t) \/ InvokeCompleted(t)
       PROVE  OrderInv'
  <2>1. UNCHANGED <<step, work, nextOrder, priority, order, invoked>>
    BY <1>12 DEF PostWake, PostFails, InvokeCompleted, frameVars, queueVars, seenVars
  <2>2. Idle(t) \/ (pc[t] = "post" /\ Goto(t, "retract", cur[t]))
    BY <1>12 DEF PostWake, PostFails, InvokeCompleted
  <2>3. \A u \in Threads : InCall(u)' => InCall(u) /\ cur'[u] = cur[u]
    BY <2>2, <1>1 DEF Goto, Idle, InCall, TypeOK
  <2>4. Checking' = Checking
    BY <2>1 DEF Checking
  <2> QED BY <2>1, <2>3, <2>4, SameOrder
<1>13. CASE OwnerExits \/ UNCHANGED vars
  <2>1. Checking' = Checking
    BY <1>13 DEF OwnerExits, vars, frameVars, Checking
  <2> QED BY <1>13, <2>1, SameOrder DEF OwnerExits, vars, InCall, queueVars, callVars, seenVars
<1>14. CASE Check
  <2>1. /\ UNCHANGED <<work, nextOrder, priority, order, pc, cur, invoked>>
        /\ step[Top] = "check" /\ Top \in Actions
        /\ \E l \in {"invoking", "skipped"} : step' = [step EXCEPT ![Top] = l]
    BY <1>1, <1>14, TopFacts DEF Check, AtTop, StepTo, queueVars, callVars, seenVars
  <2>2. Checking' \subseteq Checking /\ Invoked' = Invoked
    BY <2>1, <1>1 DEF Checking, Invoked, TypeOK
  <2> QED BY <2>1, <2>2 DEF OrderInv, Before, InCall
<1> QED BY <1>2, <1>3, <1>4, <1>5, <1>6, <1>7, <1>8, <1>9, <1>10, <1>11, <1>12, <1>13, <1>14
    DEF Next, Request, CallStep, OwnerStep


LEMMA FifoStep == IInv /\ OrderInv /\ FifoWithinPriority /\ [Next]_vars => FifoWithinPriority'
<1> SUFFICES ASSUME IInv, OrderInv, FifoWithinPriority, [Next]_vars
             PROVE  FifoWithinPriority'
  OBVIOUS
<1>1. TypeOK /\ invoked \in Seq(Actions)
  BY DEF IInv, TypeOK
<1>2. \A i \in 1..Len(invoked) : invoked[i] \in Invoked /\ invoked[i] \in Actions
  BY <1>1 DEF Invoked
<1>3. ASSUME Invoke
      PROVE  FifoWithinPriority'
  <2>1. Top \in Checking
    BY <1>1, <1>3, TopFacts DEF Invoke, AtTop, Checking
  <2>2. UNCHANGED <<priority, order>>
    BY <1>3 DEF Invoke, queueVars
  <2>3. PICK top : top = Top
    OBVIOUS
  <2>4. /\ Len(invoked) \in Nat /\ Len(invoked') = Len(invoked) + 1
        /\ invoked'[Len(invoked) + 1] = top
        /\ \A i \in 1..Len(invoked) : invoked'[i] = invoked[i]
    BY <1>1, <1>3, <2>1, <2>3 DEF Checking, Invoke
  <2>5. ASSUME NEW j \in 1..Len(invoked'), NEW i \in 1..(j - 1)
        PROVE  /\ invoked'[i] # invoked'[j]
               /\ priority'[invoked'[i]] = priority'[invoked'[j]]
                     => order'[invoked'[i]] < order'[invoked'[j]]
    <3>1. i \in 1..Len(invoked) /\ invoked'[i] = invoked[i]
      BY <2>4
    <3>2. CASE j = Len(invoked) + 1
      BY <3>1, <3>2, <2>1, <2>2, <2>3, <2>4, <1>2 DEF OrderInv, Before
    <3>3. CASE j # Len(invoked) + 1
      <4>1. j \in 1..Len(invoked)
        BY <3>3, <2>4
      <4> QED BY <4>1, <3>1, <2>2, <2>4 DEF FifoWithinPriority
    <3> QED BY <3>2, <3>3
  <2> QED BY <2>5 DEF FifoWithinPriority
<1>4. ASSUME NEW t \in Threads, NEW a \in Actions, NEW p \in Priorities, RunAsync(t, a, p)
      PROVE  FifoWithinPriority'
  <2>1. a \notin Invoked
    BY <1>4, InvokedWere DEF RunAsync, IInv, ItemInv
  <2>2. UNCHANGED <<invoked, order>> /\ \A b \in Actions \ {a} : priority'[b] = priority[b]
    BY <1>1, <1>4 DEF RunAsync, seenVars, TypeOK
  <2> QED BY <1>2, <2>1, <2>2 DEF FifoWithinPriority
<1>5. ASSUME NEW t \in Threads, Enqueue(t)
      PROVE  FifoWithinPriority'
  <2>1. cur[t] \notin Invoked
    BY <1>5, InvokedWere DEF Enqueue, IInv, CallInv, InCall
  <2>2. UNCHANGED <<invoked, priority>> /\ \A b \in Actions \ {cur[t]} : order'[b] = order[b]
    BY <1>1, <1>5 DEF Enqueue, TypeOK
  <2> QED BY <1>2, <2>1, <2>2 DEF FifoWithinPriority
<1>6. CASE UNCHANGED <<invoked, priority, order>>
  BY <1>6 DEF FifoWithinPriority
<1> QED BY <1>3, <1>4, <1>5, <1>6
    DEF Next, Request, CallStep, OwnerStep, vars, queueVars, seenVars, RunAsyncRefused, Dispatch, Repost,
        Check, Complete, Tell, Return, SetCompleted, Cancel, Close, PostWake, PostFails,
        Retract, InvokeCompleted, OwnerExits

(* Steps that tell, set and take no handler.                               *)
LEMMA SameHandlers ==
  ASSUME TypeOK, TypeOK', CompletionInv, UNCHANGED <<completed, closed, told>>,
         \A t \in Threads : pc'[t] = "callback" <=> pc[t] = "callback",
         \A t \in Threads : pc[t] = "callback" => cur'[t] = cur[t],
         \A a \in Actions : step'[a] = "telling" <=> step[a] = "telling",
         \A a \in Actions : status[a] \in Final => status'[a] \in Final
  PROVE  CompletionInv' /\ \A a \in Actions : TookHandler(a)' => TookHandler(a)
<1>1. \A a \in Actions : TookHandler(a)' <=> TookHandler(a)
  BY DEF TookHandler
<1>2. \A a \in Actions : Calling(a)' <=> Calling(a)
  BY DEF Calling
<1> QED BY <1>1, <1>2 DEF CompletionInv

(* A thread that goes from idle to the invocation of the handler of a.     *)
LEMMA TakeHandler ==
  ASSUME TypeOK, CompletionInv, NEW t \in Threads, NEW a \in Actions, pc[t] = "idle",
         Goto(t, "callback", a), UNCHANGED <<step, told, closed>>,
         told[a] = 0, ~TookHandler(a), completed'[a], ~closed[a], status'[a] \in Final,
         \A b \in Actions \ {a} : completed'[b] = completed[b] /\ status'[b] = status[b]
  PROVE  CompletionInv' /\ \A b \in Actions : closed[b] /\ TookHandler(b)' => TookHandler(b)
<1>1. \A u \in Threads : IF u = t THEN pc'[u] = "callback" /\ cur'[u] = a
                                  ELSE pc'[u] = pc[u] /\ cur'[u] = cur[u]
  BY DEF Goto, TypeOK
<1>2. \A b \in Actions \ {a} : (Calling(b)' <=> Calling(b)) /\ (TookHandler(b)' <=> TookHandler(b))
  BY <1>1 DEF Calling, TookHandler
<1>3. step[a] # "telling" /\ \A u \in Threads : pc[u] = "callback" => cur[u] # a
  BY DEF TookHandler
<1>4. \A u, v \in Threads : pc'[u] = "callback" /\ pc'[v] = "callback" /\ cur'[u] = cur'[v] => u = v
  BY <1>1, <1>3 DEF CompletionInv
<1>5. \A b \in Actions : (told'[b] > 0 \/ TookHandler(b)') =>
          status'[b] \in Final /\ (completed'[b] \/ closed'[b])
  BY <1>2 DEF CompletionInv
<1>6. \A b \in Actions : told'[b] =< 1 /\ (told'[b] = 1 => ~TookHandler(b)')
  BY <1>2 DEF CompletionInv
<1>7. \A b \in Actions : step'[b] = "telling" => ~Calling(b)'
  BY <1>2, <1>3 DEF CompletionInv
<1>8. \A b \in Actions : closed'[b] => ~completed'[b]
  BY DEF CompletionInv
<1> QED BY <1>2, <1>4, <1>5, <1>6, <1>7, <1>8 DEF CompletionInv

LEMMA Untold ==
  ASSUME TypeOK, CompletionInv, NEW a \in Actions,
         TookHandler(a) \/ status[a] = "Started" \/ (~completed[a] /\ ~closed[a])
  PROVE  told[a] = 0 /\ (status[a] = "Started" \/ (~completed[a] /\ ~closed[a]) => ~TookHandler(a))
<1>1. told[a] \in Nat
  BY DEF TypeOK
<1>2. told[a] =< 1 /\ (told[a] = 1 => ~TookHandler(a))
  BY DEF CompletionInv
<1>3. told[a] > 0 \/ TookHandler(a) => status[a] # "Started" /\ (completed[a] \/ closed[a])
  BY DEF CompletionInv, Final
<1>4. told[a] = 0 \/ told[a] = 1
  BY <1>1, <1>2
<1>5. CASE told[a] = 0
  BY <1>3, <1>5
<1>6. CASE told[a] = 1
  <2>1. told[a] > 0
    BY <1>6
  <2> QED BY <1>2, <1>3, <1>6, <2>1
<1> QED BY <1>4, <1>5, <1>6

Silent == \A a \in Actions : closed[a] /\ TookHandler(a)' => TookHandler(a)

LEMMA CompletionStep == IInv /\ IInv' /\ CompletionInv /\ [Next]_vars => CompletionInv' /\ Silent
<1> SUFFICES ASSUME IInv, IInv', CompletionInv, [Next]_vars
             PROVE  CompletionInv' /\ Silent
  OBVIOUS
<1> USE DEF Silent, Final
<1>1. TypeOK /\ TypeOK'
  BY DEF IInv
<1>2. ASSUME NEW t \in Threads, NEW a \in Actions,
             RunAsyncRefused(t, a) \/ \E p \in Priorities : RunAsync(t, a, p)
      PROVE  CompletionInv' /\ Silent
  <2>1. /\ UNCHANGED <<completed, closed, told, step>>
        /\ status[a] = "fresh" /\ status' = [status EXCEPT ![a] = "Started"]
    BY <1>2 DEF RunAsync, RunAsyncRefused, frameVars, seenVars
  <2>2. pc[t] = "idle" /\ (UNCHANGED <<pc, cur>> \/ Goto(t, "enqueue", a))
    BY <1>2 DEF RunAsync, RunAsyncRefused, Ready, callVars
  <2>3. \A u \in Threads : /\ pc'[u] = "callback" <=> pc[u] = "callback"
                           /\ pc[u] = "callback" => cur'[u] = cur[u]
    BY <1>1, <2>2 DEF Goto, TypeOK
  <2>4. \A b \in Actions : status[b] \in Final => status'[b] \in Final
    BY <1>1, <2>1 DEF TypeOK
  <2> QED BY <1>1, <2>1, <2>3, <2>4, SameHandlers
<1>3. ASSUME NEW t \in Threads, Enqueue(t) \/ PostWake(t) \/ PostFails(t) \/ Retract(t)
      PROVE  CompletionInv' /\ Silent
  <2>1. UNCHANGED <<completed, closed, told, step, status>>
    BY <1>3 DEF Enqueue, PostWake, PostFails, Retract, actionVars, frameVars, seenVars
  <2>2. /\ pc[t] # "callback"
        /\ Idle(t) \/ Goto(t, "post", cur[t]) \/ Goto(t, "retract", cur[t])
    BY <1>3 DEF Enqueue, PostWake, PostFails, Retract
  <2>3. \A u \in Threads : /\ pc'[u] = "callback" <=> pc[u] = "callback"
                           /\ pc[u] = "callback" => cur'[u] = cur[u]
    BY <1>1, <2>2 DEF Idle, Goto, TypeOK
  <2> QED BY <1>1, <2>1, <2>3, SameHandlers
<1>4. ASSUME NEW t \in Threads, NEW a \in Actions, SetCompleted(t, a)
      PROVE  CompletionInv' /\ Silent
  <2>1. /\ ~closed[a] /\ ~completed[a] /\ completed' = [completed EXCEPT ![a] = TRUE]
        /\ UNCHANGED <<status, closed, step, told>> /\ pc[t] = "idle"
    BY <1>4 DEF SetCompleted, Usable, Ready, frameVars, seenVars
  <2>2. told[a] = 0 /\ ~TookHandler(a)
    BY <2>1, <1>1, Untold
  <2>3. CASE status[a] = "Started"
    <3>1. UNCHANGED <<pc, cur>>
      BY <1>4, <2>3 DEF SetCompleted, Unfinished, callVars
    <3>2. \A b \in Actions : /\ TookHandler(b)' <=> TookHandler(b)
                             /\ Calling(b)' <=> Calling(b)
      BY <3>1, <2>1 DEF TookHandler, Calling
    <3>3. \A b \in Actions : completed'[b] <=> (completed[b] \/ b = a)
      BY <2>1, <1>1 DEF TypeOK
    <3> QED BY <2>1, <3>1, <3>2, <3>3 DEF CompletionInv
  <2>4. CASE status[a] # "Started"
    <3>1. Goto(t, "callback", a)
      BY <1>4, <2>4 DEF SetCompleted, Unfinished
    <3>2. status[a] # "fresh"
      BY <1>4 DEF SetCompleted, Usable, IInv, ItemInv
    <3>3. status[a] \in Final
      BY <3>2, <2>4, <1>1 DEF TypeOK
    <3>4. completed'[a] /\ \A b \in Actions \ {a} : completed'[b] = completed[b]
      BY <2>1, <1>1 DEF TypeOK
    <3> QED BY <1>1, <2>1, <2>2, <3>1, <3>3, <3>4, TakeHandler
  <2> QED BY <2>3, <2>4
<1>5. ASSUME NEW t \in Threads, NEW a \in Actions, Cancel(t, a)
      PROVE  CompletionInv' /\ Silent
  <2>1. /\ status[a] = "Started" /\ status' = [status EXCEPT ![a] = "Canceled"]
        /\ UNCHANGED <<completed, closed, step, told>> /\ pc[t] = "idle"
    BY <1>5 DEF Cancel, Usable, Ready, frameVars, seenVars
  <2>2. told[a] = 0 /\ ~TookHandler(a)
    BY <2>1, <1>1, Untold
  <2>3. status'[a] \in Final /\ \A b \in Actions \ {a} : status'[b] = status[b]
    BY <2>1, <1>1 DEF TypeOK
  <2>4. CASE ~completed[a]
    <3>1. UNCHANGED <<pc, cur>>
      BY <1>5, <2>4 DEF Cancel, callVars
    <3> QED BY <1>1, <2>1, <2>3, <3>1, SameHandlers
  <2>5. CASE completed[a]
    <3>1. Goto(t, "callback", a)
      BY <1>5, <2>5 DEF Cancel
    <3>2. ~closed[a]
      BY <2>5 DEF CompletionInv
    <3> QED BY <1>1, <2>1, <2>2, <2>3, <2>5, <3>1, <3>2, TakeHandler
  <2> QED BY <2>4, <2>5
<1>6. ASSUME NEW t \in Threads, NEW a \in Actions, Close(t, a)
      PROVE  CompletionInv' /\ Silent
  <2>1. /\ UNCHANGED <<status, step, told, pc, cur>>
        /\ \A b \in Actions : closed'[b] <=> (closed[b] \/ b = a)
        /\ \A b \in Actions : completed'[b] <=> (completed[b] /\ b # a)
    BY <1>6, <1>1 DEF Close, HandlerOnClose, TypeOK, callVars, frameVars, seenVars
  <2>2. \A b \in Actions : /\ TookHandler(b)' <=> TookHandler(b)
                           /\ Calling(b)' <=> Calling(b)
    BY <2>1 DEF TookHandler, Calling
  <2> QED BY <2>1, <2>2 DEF CompletionInv
<1>7. ASSUME NEW t \in Threads, InvokeCompleted(t)
      PROVE  CompletionInv' /\ Silent
  <2>1. PICK a \in Actions : a = cur[t]
    BY <1>7 DEF InvokeCompleted, IInv, CallInv
  <2>2. /\ pc[t] = "callback" /\ UNCHANGED <<status, completed, closed, step>>
        /\ told' = [told EXCEPT ![a] = told[a] + 1]
        /\ pc' = [pc EXCEPT ![t] = "idle"] /\ cur' = [cur EXCEPT ![t] = NoAction]
    BY <1>7, <2>1 DEF InvokeCompleted, Idle, actionVars, frameVars
  <2>3. TookHandler(a) /\ Calling(a)
    BY <2>1, <2>2 DEF TookHandler, Calling
  <2>4. told[a] = 0 /\ step[a] # "telling"
    BY <2>3, <1>1, Untold DEF CompletionInv
  <2>5. \A u \in Threads \ {t} : pc[u] = "callback" => cur[u] # a
    BY <2>1, <2>2 DEF CompletionInv
  <2>6. \A u \in Threads : IF u = t THEN pc'[u] = "idle" ELSE pc'[u] = pc[u] /\ cur'[u] = cur[u]
    BY <2>2, <1>1 DEF TypeOK
  <2>7. \A b \in Actions : Calling(b)' <=> (Calling(b) /\ b # a)
    BY <2>1, <2>2, <2>5, <2>6 DEF Calling
  <2>8. \A b \in Actions : TookHandler(b)' <=> (TookHandler(b) /\ b # a)
    BY <2>1, <2>2, <2>4, <2>5, <2>6 DEF TookHandler
  <2>9. \A b \in Actions : told'[b] = IF b = a THEN 1 ELSE told[b]
    BY <2>2, <2>4, <1>1 DEF TypeOK
  <2>10. \A u, v \in Threads : pc'[u] = "callback" /\ pc'[v] = "callback" /\ cur'[u] = cur'[v] => u = v
    BY <2>6 DEF CompletionInv
  <2> QED BY <2>2, <2>3, <2>4, <2>7, <2>8, <2>9, <2>10 DEF CompletionInv
<1>8. CASE (\E a \in Actions : Dispatch(a)) \/ Repost \/ Check \/ Invoke \/ Return
  <2>1. UNCHANGED <<status, completed, closed, pc, cur, told>>
    BY <1>8 DEF Dispatch, Repost, Check, Invoke, Return, actionVars, callVars, seenVars
  <2>2. \A b \in Actions : step'[b] = "telling" <=> step[b] = "telling"
    <3>1. ASSUME NEW a \in Actions, Dispatch(a)
          PROVE  \A b \in Actions : step'[b] = "telling" <=> step[b] = "telling"
      <4>1. step \in [Actions -> Steps] /\ \A x \in work : step[x] = "none"
        BY <1>1 DEF IInv, ItemInv, TypeOK
      <4>2. step[a] = "none"
        BY <3>1, <4>1 DEF Dispatch, Selected
      <4>3. PICK l \in {"repost", "check"} : step' = [step EXCEPT ![a] = l]
        BY <3>1 DEF Dispatch, AfterTaking
      <4>4. a \in Actions /\ step'[a] = l /\ \A b \in Actions \ {a} : step'[b] = step[b]
        BY <4>1, <4>3
      <4> QED
        BY <4>2, <4>4
    <3>2. CASE Repost \/ Check \/ Invoke
      BY <3>2, <1>1, TopFacts DEF Repost, Check, Invoke, AtTop, StepTo, TypeOK
    <3>3. CASE Return
      BY <3>3, <1>1, TopFacts DEF Return, AtTop, TypeOK
    <3> QED BY <3>1, <3>2, <3>3, <1>8
  <2> QED BY <1>1, <2>1, <2>2, SameHandlers
<1>9. ASSUME NEW result \in {"Completed", "Error"}, Complete(result)
      PROVE  CompletionInv' /\ Silent
  <2>1. PICK a \in Actions : a = Top /\ step[a] \in {"running", "skipped"}
    BY <1>9, <1>1, TopFacts DEF Complete, AtTop
  <2>2. UNCHANGED <<pc, cur, completed, closed, told>>
    BY <1>9 DEF Complete, callVars, seenVars
  <2>3. CASE status[a] = "Started" /\ completed[a]
    <3>1. /\ status' = [status EXCEPT ![a] = result]
          /\ step' = [step EXCEPT ![a] = "telling"]
      BY <1>9, <2>1, <2>3 DEF Complete, StepTo
    <3>2. told[a] = 0 /\ ~TookHandler(a) /\ ~closed[a]
      BY <2>3, <1>1, Untold DEF CompletionInv
    <3>3. \A b \in Actions : /\ Calling(b)' <=> Calling(b)
                             /\ TookHandler(b)' <=> (TookHandler(b) \/ b = a)
      BY <3>1, <2>2, <1>1 DEF Calling, TookHandler, TypeOK
    <3>4. \A b \in Actions : /\ step'[b] = IF b = a THEN "telling" ELSE step[b]
                             /\ status'[b] = IF b = a THEN result ELSE status[b]
      BY <3>1, <1>1 DEF TypeOK
    <3>5. ~Calling(a)
      BY <3>2 DEF Calling, TookHandler
    <3> QED BY <2>2, <2>3, <3>2, <3>3, <3>4, <3>5 DEF CompletionInv
  <2>4. CASE ~(status[a] = "Started" /\ completed[a])
    <3>1. /\ step' = [step EXCEPT ![a] = "ended"]
          /\ UNCHANGED status \/ status' = [status EXCEPT ![a] = result]
      BY <1>9, <2>1, <2>4 DEF Complete, StepTo
    <3>2. \A b \in Actions : /\ step'[b] = "telling" <=> step[b] = "telling"
                             /\ status[b] \in Final => status'[b] \in Final
      BY <3>1, <2>1, <1>1 DEF TypeOK
    <3> QED BY <1>1, <2>2, <3>2, SameHandlers
  <2> QED BY <2>3, <2>4
<1>10. CASE Tell
  <2>1. PICK a \in Actions : a = Top /\ step[a] = "telling"
    BY <1>10, <1>1, TopFacts DEF Tell, AtTop
  <2>2. /\ UNCHANGED <<pc, cur, status, completed, closed>>
        /\ told' = [told EXCEPT ![a] = told[a] + 1]
        /\ step' = [step EXCEPT ![a] = "told"]
    BY <1>10, <2>1 DEF Tell, StepTo, actionVars, callVars
  <2>3. told[a] = 0 /\ TookHandler(a) /\ ~Calling(a)
    <3>1. TookHandler(a) /\ ~Calling(a)
      BY <2>1 DEF CompletionInv, TookHandler
    <3> QED BY <3>1, <1>1, Untold
  <2>4. \A b \in Actions : /\ step'[b] = IF b = a THEN "told" ELSE step[b]
                           /\ told'[b] = IF b = a THEN 1 ELSE told[b]
    BY <2>2, <2>3, <1>1 DEF TypeOK
  <2>5. \A b \in Actions : Calling(b)' <=> Calling(b)
    BY <2>2 DEF Calling
  <2>6. \A b \in Actions : TookHandler(b)' <=> (TookHandler(b) /\ b # a)
    BY <2>2, <2>3, <2>4 DEF Calling, TookHandler
  <2> QED BY <2>2, <2>3, <2>4, <2>5, <2>6 DEF CompletionInv
<1>11. CASE OwnerExits \/ UNCHANGED vars
  BY <1>1, <1>11, SameHandlers
     DEF OwnerExits, vars, actionVars, callVars, frameVars, seenVars
<1> QED BY <1>2, <1>3, <1>4, <1>5, <1>6, <1>7, <1>8, <1>9, <1>10, <1>11
    DEF Next, Request, CallStep, OwnerStep

(* A callback is invoked.                                                  *)
LEMMA InvokedOneMore ==
  ASSUME invoked \in Seq(Actions), NEW a \in Actions, invoked' = Append(invoked, a)
  PROVE  Invoked' = Invoked \cup {a}
<1>1. /\ Len(invoked) \in Nat /\ Len(invoked') = Len(invoked) + 1
      /\ invoked'[Len(invoked) + 1] = a
      /\ \A i \in 1..Len(invoked) : invoked'[i] = invoked[i]
  OBVIOUS
<1> QED BY <1>1 DEF Invoked

LEMMA ReplyStep ==
  ASSUME IInv, IInv', ReplyInv, OrderInv, [Next]_vars
  PROVE  ReplyInv'
<1>1. TypeOK /\ TypeOK' /\ invoked \in Seq(Actions)
  BY DEF IInv, TypeOK
<1>2. ASSUME NEW t \in Threads, NEW a \in Actions,
             RunAsyncRefused(t, a) \/ \E p \in Priorities : RunAsync(t, a, p)
      PROVE  ReplyInv'
  <2>1. /\ status' = [status EXCEPT ![a] = "Started"] /\ status[a] = "fresh"
        /\ UNCHANGED <<step, closed, invoked>>
        /\ UNCHANGED reply \/ reply' = [reply EXCEPT ![a] = "failed"]
    BY <1>2 DEF RunAsync, RunAsyncRefused, frameVars, seenVars
  <2>2. step[a] = "none"
    BY <2>1 DEF IInv, ItemInv
  <2>3. \A b \in Actions : /\ status'[b] = IF b = a THEN "Started" ELSE status[b]
                           /\ reply'[b] # "ok" => reply[b] # "ok" \/ b = a
    BY <2>1, <1>1 DEF TypeOK
  <2> QED BY <2>1, <2>2, <2>3 DEF ReplyInv, Invoked
<1>3. ASSUME NEW t \in Threads, Enqueue(t) \/ PostWake(t) \/ PostFails(t) \/ Retract(t)
      PROVE  ReplyInv'
  <2>1. UNCHANGED <<status, step, closed, invoked>>
    BY <1>3 DEF Enqueue, PostWake, PostFails, Retract, actionVars, frameVars, seenVars
  <2>2. UNCHANGED reply \/ \E l \in {"ok", "failed"} : reply' = [reply EXCEPT ![cur[t]] = l]
    BY <1>3 DEF Enqueue, PostWake, PostFails, Retract, seenVars
  <2>3. cur[t] \in Actions /\ reply[cur[t]] = "none"
    BY <1>3 DEF Enqueue, PostWake, PostFails, Retract, IInv, CallInv, InCall
  <2>4. \A b \in Actions : reply'[b] # "ok" => reply[b] # "ok"
    BY <2>2, <2>3, <1>1 DEF TypeOK
  <2> QED BY <2>1, <2>4 DEF ReplyInv, Invoked
<1>4. ASSUME NEW t \in Threads, NEW a \in Actions, SetCompleted(t, a) \/ Cancel(t, a) \/ Close(t, a)
      PROVE  ReplyInv'
  <2>1. reply[a] = "ok" /\ UNCHANGED <<reply, step, invoked>>
    BY <1>4 DEF SetCompleted, Cancel, Close, Usable, frameVars, seenVars
  <2>2. /\ UNCHANGED status \/ status' = [status EXCEPT ![a] = "Canceled"]
        /\ UNCHANGED closed \/ closed' = [closed EXCEPT ![a] = TRUE]
    BY <1>4 DEF SetCompleted, Cancel, Close
  <2>3. \A b \in Actions : /\ reply[b] # "ok" => status'[b] = status[b]
                           /\ closed[b] => closed'[b]
                           /\ status[b] # "Started" => status'[b] # "Started"
    BY <2>1, <2>2, <1>1 DEF TypeOK
  <2> QED BY <2>1, <2>3 DEF ReplyInv, Invoked
<1>5. ASSUME NEW a \in Actions, Dispatch(a)
      PROVE  ReplyInv'
  <2>1. /\ UNCHANGED <<reply, status, closed, invoked>>
        /\ step' = [step EXCEPT ![a] = AfterTaking(work')]
    BY <1>5 DEF Dispatch, actionVars, seenVars
  <2>2. \A b \in Actions : step'[b] \in {"running", "skipped"} => step'[b] = step[b]
    BY <2>1, <1>1 DEF TypeOK, AfterTaking
  <2> QED BY <2>1, <2>2 DEF ReplyInv, Invoked
<1>6. CASE Check
  <2>1. PICK a \in Actions : a = Top /\ step[a] = "check"
    BY <1>6, <1>1, TopFacts DEF Check, AtTop
  <2>2. /\ UNCHANGED <<reply, status, closed, invoked>>
        /\ step' = [step EXCEPT ![a] = IF ShouldInvoke(a) THEN "invoking" ELSE "skipped"]
    BY <1>6, <2>1 DEF Check, StepTo, actionVars, seenVars
  <2>3. a \notin Invoked
    BY <2>1 DEF OrderInv, Checking
  <2>4. \A b \in Actions : step'[b] = IF b = a THEN IF ShouldInvoke(a) THEN "invoking" ELSE "skipped"
                                     ELSE step[b]
    BY <2>2, <1>1 DEF TypeOK
  <2> QED BY <2>2, <2>3, <2>4 DEF ReplyInv, Invoked, ShouldInvoke
<1>10. CASE Invoke
  <2>1. PICK a \in Actions : a = Top /\ step[a] = "invoking"
    BY <1>10, <1>1, TopFacts DEF Invoke, AtTop
  <2>2. /\ UNCHANGED <<reply, status, closed>>
        /\ step' = [step EXCEPT ![a] = "running"] /\ invoked' = Append(invoked, a)
    BY <1>10, <2>1 DEF Invoke, StepTo, actionVars
  <2>3. \A b \in Actions : step'[b] = IF b = a THEN "running" ELSE step[b]
    BY <2>2, <1>1 DEF TypeOK
  <2>4. Invoked' = Invoked \cup {a}
    BY <1>1, <2>2, InvokedOneMore
  <2> QED BY <2>2, <2>3, <2>4 DEF ReplyInv
<1>7. ASSUME NEW result \in {"Completed", "Error"}, Complete(result)
      PROVE  ReplyInv'
  <2>1. PICK a \in Actions : a = Top /\ step[a] # "none"
    BY <1>7, <1>1, TopFacts DEF Complete, AtTop
  <2>2. /\ UNCHANGED <<reply, closed, invoked>>
        /\ UNCHANGED status \/ status' = [status EXCEPT ![a] = result]
        /\ \E l \in {"telling", "ended"} : step' = [step EXCEPT ![a] = l]
    BY <1>7, <2>1 DEF Complete, StepTo, seenVars
  <2>3. reply[a] = "ok"
    BY <2>1 DEF IInv, ItemInv
  <2>4. \A b \in Actions : /\ step'[b] \in {"running", "skipped"} => step'[b] = step[b] /\ status'[b] = status[b]
                           /\ reply[b] # "ok" => status'[b] = status[b]
    BY <2>2, <2>3, <1>1 DEF TypeOK
  <2> QED BY <2>2, <2>4 DEF ReplyInv, Invoked
<1>8. CASE Repost \/ Tell \/ Return
  <2>1. /\ UNCHANGED <<reply, status, closed, invoked>>
        /\ \E l \in {"check", "told", "none"} : step' = [step EXCEPT ![Top] = l]
    BY <1>8 DEF Repost, Tell, Return, StepTo, actionVars, seenVars
  <2>2. \A b \in Actions : step'[b] \in {"running", "skipped"} => step'[b] = step[b]
    BY <2>1, <1>1 DEF TypeOK
  <2> QED BY <2>1, <2>2 DEF ReplyInv, Invoked
<1>9. CASE OwnerExits \/ UNCHANGED vars \/ \E t \in Threads : InvokeCompleted(t)
  <2>1. UNCHANGED <<reply, status, closed, invoked, step>>
    BY <1>9 DEF OwnerExits, vars, InvokeCompleted, actionVars, frameVars, seenVars
  <2> QED BY <2>1 DEF ReplyInv, Invoked
<1> QED BY <1>2, <1>3, <1>4, <1>5, <1>6, <1>7, <1>8, <1>9, <1>10
    DEF Next, Request, CallStep, OwnerStep

-----------------------------------------------------------------------------
(* What the actions of the promise say of the queue.                       *)
LEMMA Promises ==
  ASSUME NEW a \in Actions
  PROVE
  /\ Promise!Ask(a) <=> /\ status[a] = "fresh" /\ status' = [status EXCEPT ![a] = "Started"]
                        /\ UNCHANGED <<reply, closed, Admitted, Begun, Heard>>
  /\ Promise!Accept(a) <=> /\ status[a] # "fresh" /\ reply[a] = "none"
                           /\ reply' = [reply EXCEPT ![a] = "ok"]
                           /\ UNCHANGED <<status, closed, Admitted, Begun, Heard>>
  /\ Promise!Refuse(a) <=> /\ status[a] \in {"fresh", "Started"} /\ reply[a] = "none" /\ ~Begun[a]
                           /\ status' = [status EXCEPT ![a] = "Started"]
                           /\ reply' = [reply EXCEPT ![a] = "failed"]
                           /\ UNCHANGED <<closed, Admitted, Begun, Heard>>
  /\ Promise!Close(a) <=> /\ reply[a] = "ok" /\ closed' = [closed EXCEPT ![a] = TRUE]
                          /\ UNCHANGED <<reply, status, Admitted, Begun, Heard>>
  /\ Promise!Admit(a) <=> /\ status[a] = "Started" /\ reply[a] # "failed" /\ ~closed[a] /\ ~Admitted[a]
                          /\ Admitted' = [Admitted EXCEPT ![a] = TRUE]
                          /\ UNCHANGED <<reply, status, closed, Begun, Heard>>
  /\ Promise!Begin(a) <=> /\ Admitted[a] /\ ~Begun[a]
                          /\ Begun' = [Begun EXCEPT ![a] = TRUE]
                          /\ UNCHANGED <<reply, status, closed, Admitted, Heard>>
  /\ Promise!Tell(a) <=> /\ status[a] \in Final /\ ~Heard[a]
                         /\ Heard' = [Heard EXCEPT ![a] = TRUE]
                         /\ UNCHANGED <<reply, status, closed, Admitted, Begun>>
  /\ \A final : Promise!End(a, final) <=>
       /\ status[a] = "Started" /\ reply[a] # "failed"
       /\ final = "Canceled" => reply[a] = "ok"
       /\ final # "Canceled" => Begun[a] \/ (closed[a] /\ ~Admitted[a])
       /\ status' = [status EXCEPT ![a] = final]
       /\ UNCHANGED <<reply, closed, Admitted, Begun, Heard>>
BY DEF Promise!Ask, Promise!Accept, Promise!Refuse, Promise!Close, Promise!Admit, Promise!Begin,
       Promise!Tell, Promise!End, Promise!Final, Final

LEMMA BegunInvoked ==
  ASSUME invoked \in Seq(Actions)
  PROVE  \A a \in Actions : Begun[a] <=> a \in Invoked
BY DEF Begun, Invoked

FullInv == IInv /\ StackInv /\ OrderInv /\ FifoWithinPriority /\ CompletionInv /\ ReplyInv

LEMMA SameSeen ==
  /\ UNCHANGED invoked => UNCHANGED Begun
  /\ UNCHANGED told => UNCHANGED Heard
  /\ UNCHANGED <<invoked, frameVars>> => UNCHANGED Admitted
BY DEF Begun, Heard, Admitted, frameVars

(* Who has been admitted changes with the label of the innermost window    *)
(* procedure only when that enters or leaves "invoking".                   *)
LEMMA AdmittedBy ==
  ASSUME TypeOK, UNCHANGED invoked, NEW a \in Actions, NEW l \in Steps, step' = [step EXCEPT ![a] = l]
  PROVE  /\ l # "invoking" /\ step[a] # "invoking" => UNCHANGED Admitted
         /\ l = "invoking" => Admitted' = [Admitted EXCEPT ![a] = TRUE]
<1>1. UNCHANGED Begun /\ \A b \in Actions : step'[b] = IF b = a THEN l ELSE step[b]
  BY SameSeen DEF TypeOK
<1>2. Admitted = [b \in Actions |-> Admitted[b]] /\ Admitted' = [b \in Actions |-> Admitted'[b]]
  BY DEF Admitted
<1>3. ASSUME l # "invoking" /\ step[a] # "invoking"
      PROVE  UNCHANGED Admitted
  <2>1. \A b \in Actions : (step'[b] = "invoking" \/ Begun'[b]) = (step[b] = "invoking" \/ Begun[b])
    BY <1>1, <1>3
  <2> QED BY <2>1, Zenon DEF Admitted
<1>4. ASSUME l = "invoking"
      PROVE  Admitted' = [Admitted EXCEPT ![a] = TRUE]
  <2>1. \A b \in Actions : (step'[b] = "invoking" \/ Begun'[b])
                            = IF b = a THEN TRUE ELSE step[b] = "invoking" \/ Begun[b]
    BY <1>1, <1>4
  <2>2. \A b \in Actions : Admitted'[b] = IF b = a THEN TRUE ELSE Admitted[b]
    BY <2>1, Zenon DEF Admitted
  <2> QED BY <1>2, <2>2
<1> QED BY <1>3, <1>4

(* Each step of the queue, its callers and its owner is one of the promise *)
(* or none.                                                                *)
LEMMA PromiseStep ==
  ASSUME FullInv, FullInv', [Next]_vars
  PROVE  Promise!Next \/ UNCHANGED <<reply, status, closed, Admitted, Begun, Heard>>
<1>1. TypeOK /\ TypeOK' /\ IInv /\ invoked \in Seq(Actions) /\ ReplyInv /\ CompletionInv
  BY DEF FullInv, IInv, TypeOK
<1>2. \A a \in Actions : reply[a] # "ok" => ~Begun[a]
  BY <1>1, InvokedWere, BegunInvoked
<1>3. ASSUME NEW t \in Threads, NEW a \in Actions, NEW p \in Priorities, RunAsync(t, a, p)
      PROVE  Promise!Next
  <2>1. Promise!Ask(a)
    BY <1>3, SameSeen, Promises DEF RunAsync, seenVars, frameVars
  <2> QED BY <2>1 DEF Promise!Next
<1>4. ASSUME NEW t \in Threads, NEW a \in Actions, RunAsyncRefused(t, a)
      PROVE  Promise!Next
  <2>1. reply[a] = "none"
    BY <1>1, <1>4 DEF RunAsyncRefused, IInv, ItemInv
  <2>2. Promise!Refuse(a)
    BY <2>1, <1>2, <1>4, SameSeen, Promises DEF RunAsyncRefused, frameVars
  <2> QED BY <2>2 DEF Promise!Next
<1>5. ASSUME NEW t \in Threads, Enqueue(t) \/ PostWake(t) \/ PostFails(t) \/ Retract(t)
      PROVE  Promise!Next \/ UNCHANGED <<reply, status, closed, Admitted, Begun, Heard>>
  <2>1. PICK a \in Actions : a = cur[t]
    BY <1>1, <1>5 DEF Enqueue, PostWake, PostFails, Retract, IInv, CallInv
  <2>2. reply[a] = "none" /\ status[a] = "Started" /\ ~Begun[a]
    <3>1. reply[a] = "none" /\ status[a] # "fresh"
      BY <1>1, <1>5, <2>1 DEF Enqueue, PostWake, PostFails, Retract, IInv, CallInv, InCall
    <3> QED BY <3>1, <1>1, <1>2 DEF ReplyInv
  <2>3. UNCHANGED <<status, closed, Admitted, Begun, Heard>>
    BY <1>5, SameSeen DEF Enqueue, PostWake, PostFails, Retract, actionVars, frameVars, seenVars
  <2>4. \/ UNCHANGED reply
        \/ \E l \in {"ok", "failed"} : reply' = [reply EXCEPT ![a] = l]
    BY <1>5, <2>1 DEF Enqueue, PostWake, PostFails, Retract, seenVars
  <2>5. CASE reply' = [reply EXCEPT ![a] = "ok"]
    <3>1. Promise!Accept(a)
      BY <2>2, <2>3, <2>5, Promises
    <3> QED BY <3>1 DEF Promise!Next
  <2>6. CASE reply' = [reply EXCEPT ![a] = "failed"]
    <3>1. status' = [status EXCEPT ![a] = "Started"]
      BY <2>2, <2>3, <1>1 DEF TypeOK
    <3>2. Promise!Refuse(a)
      BY <2>2, <2>3, <2>6, <3>1, Promises
    <3> QED BY <3>2 DEF Promise!Next
  <2> QED BY <2>3, <2>4, <2>5, <2>6
<1>6. ASSUME NEW t \in Threads, NEW a \in Actions, Cancel(t, a)
      PROVE  Promise!Next
  <2>1. Promise!End(a, "Canceled")
    BY <1>6, SameSeen, Promises DEF Cancel, Usable, seenVars, frameVars
  <2>2. "Canceled" \in Promise!Final
    BY DEF Promise!Final
  <2> QED BY <2>1, <2>2 DEF Promise!Next
<1>7. ASSUME NEW t \in Threads, NEW a \in Actions, Close(t, a)
      PROVE  Promise!Next
  <2>1. Promise!Close(a)
    BY <1>7, SameSeen, Promises DEF Close, Usable, seenVars, frameVars
  <2> QED BY <2>1 DEF Promise!Next
<1>8. ASSUME NEW a \in Actions, TookHandler(a), UNCHANGED <<reply, status, closed, invoked, Admitted>>,
             told' = [told EXCEPT ![a] = @ + 1]
      PROVE  Promise!Next
  <2>1. status[a] \in Final /\ told[a] = 0 /\ told'[a] > 0
    <3>1. told[a] = 0
      BY <1>1, <1>8, Untold
    <3>2. told'[a] = 1
      BY <1>1, <1>8, <3>1 DEF TypeOK
    <3> QED BY <3>1, <3>2, <1>1, <1>8 DEF CompletionInv
  <2>2. \A b \in Actions \ {a} : told'[b] = told[b]
    BY <1>1, <1>8 DEF TypeOK
  <2>3. ~Heard[a] /\ Heard' = [Heard EXCEPT ![a] = TRUE]
    <3>1. \A b \in Actions : (told'[b] > 0) = IF b = a THEN TRUE ELSE told[b] > 0
      BY <2>1, <2>2
    <3>2. ~(told[a] > 0)
      BY <2>1
    <3> QED BY <3>1, <3>2, Zenon DEF Heard
  <2>4. Promise!Tell(a)
    BY <1>8, <2>1, <2>3, SameSeen, Promises
  <2> QED BY <2>4 DEF Promise!Next
<1>9. ASSUME NEW t \in Threads, InvokeCompleted(t)
      PROVE  Promise!Next
  <2>1. PICK a \in Actions : a = cur[t]
    BY <1>1, <1>9 DEF InvokeCompleted, IInv, CallInv
  <2>2. TookHandler(a)
    BY <1>9, <2>1 DEF InvokeCompleted, TookHandler
  <2>3. UNCHANGED Admitted
    BY <1>9, SameSeen DEF InvokeCompleted, frameVars
  <2> QED BY <1>8, <1>9, <2>1, <2>2, <2>3 DEF InvokeCompleted, actionVars
<1>10. CASE Tell
  <2>1. PICK a \in Actions : a = Top /\ step[a] = "telling"
    BY <1>10, <1>1, TopFacts DEF Tell, AtTop
  <2>2. TookHandler(a)
    BY <2>1 DEF TookHandler
  <2>3. UNCHANGED Admitted
    BY <1>1, <1>10, <2>1, AdmittedBy DEF Tell, StepTo, Steps
  <2> QED BY <1>8, <1>10, <2>1, <2>2, <2>3 DEF Tell, actionVars
<1>11. CASE Check
  <2>1. PICK a \in Actions : a = Top /\ step[a] = "check"
    BY <1>11, <1>1, TopFacts DEF Check, AtTop
  <2>2. UNCHANGED <<reply, status, closed, invoked, Begun, Heard>>
    BY <1>11, SameSeen DEF Check, actionVars, seenVars
  <2>3. CASE ShouldInvoke(a)
    <3>1. step' = [step EXCEPT ![a] = "invoking"]
      BY <1>11, <2>1, <2>3 DEF Check, StepTo
    <3>2. Admitted' = [Admitted EXCEPT ![a] = TRUE]
      BY <1>1, <2>2, <3>1, AdmittedBy DEF Steps
    <3>3. ~Begun[a] /\ reply[a] = "ok" /\ step[a] # "invoking"
      <4>1. a \in Checking
        BY <2>1 DEF Checking
      <4>2. a \notin Invoked
        BY <4>1 DEF FullInv, OrderInv
      <4> QED BY <4>2, <2>1, <1>1, BegunInvoked DEF IInv, ItemInv
    <3>4. ~Admitted[a]
      BY <3>3 DEF Admitted
    <3>5. Promise!Admit(a)
      BY <2>2, <2>3, <3>2, <3>3, <3>4, Promises DEF ShouldInvoke
    <3> QED BY <3>5 DEF Promise!Next
  <2>4. CASE ~ShouldInvoke(a)
    <3>1. step' = [step EXCEPT ![a] = "skipped"]
      BY <1>11, <2>1, <2>4 DEF Check, StepTo
    <3>2. UNCHANGED Admitted
      BY <1>1, <2>1, <2>2, <3>1, AdmittedBy DEF Steps
    <3> QED BY <2>2, <3>2
  <2> QED BY <2>3, <2>4
<1>14. CASE Invoke
  <2>1. PICK a \in Actions : a = Top /\ step[a] = "invoking"
    BY <1>14, <1>1, TopFacts DEF Invoke, AtTop
  <2>2. UNCHANGED <<reply, status, closed, Heard>>
    BY <1>14, SameSeen DEF Invoke, actionVars
  <2>3. invoked' = Append(invoked, a) /\ step' = [step EXCEPT ![a] = "running"]
    BY <1>14, <2>1 DEF Invoke, StepTo
  <2>4. \A b \in Actions : Begun'[b] <=> (Begun[b] \/ b = a)
    <3>1. \A b \in Actions : b \in Invoked' <=> (b \in Invoked \/ b = a)
      BY <1>1, <2>3, InvokedOneMore
    <3>2. invoked' \in Seq(Actions)
      BY <1>1 DEF TypeOK
    <3>3. \A b \in Actions : Begun'[b] <=> b \in Invoked'
      <4>1. DOMAIN invoked' = 1..Len(invoked')
        BY <3>2
      <4> QED BY <4>1 DEF Begun, Invoked
    <3> QED BY <3>1, <3>3, <1>1, BegunInvoked
  <2>5. Begun' = [Begun EXCEPT ![a] = TRUE]
    <3>1. \A b \in Actions : Begun[b] \in BOOLEAN /\ Begun'[b] \in BOOLEAN
      BY DEF Begun
    <3>2. Begun = [b \in Actions |-> Begun[b]] /\ Begun' = [b \in Actions |-> Begun'[b]]
      BY DEF Begun
    <3>3. \A b \in Actions : Begun'[b] = IF b = a THEN TRUE ELSE Begun[b]
      BY <2>4, <3>1, Zenon
    <3> QED BY <3>2, <3>3
  <2>6. ~Begun[a] /\ Admitted[a]
    <3>1. a \in Checking
      BY <2>1 DEF Checking
    <3>2. a \notin Invoked
      BY <3>1 DEF FullInv, OrderInv
    <3> QED BY <3>2, <2>1, <1>1, BegunInvoked DEF Admitted
  <2>7. UNCHANGED Admitted
    <3>1. \A b \in Actions : step'[b] = IF b = a THEN "running" ELSE step[b]
      BY <2>3, <1>1 DEF TypeOK
    <3>2. \A b \in Actions : (step'[b] = "invoking" \/ Begun'[b]) <=> (step[b] = "invoking" \/ Begun[b])
      BY <2>1, <2>4, <3>1
    <3>3. \A b \in Actions : (step'[b] = "invoking" \/ Begun'[b]) = (step[b] = "invoking" \/ Begun[b])
      BY <3>2
    <3> QED BY <3>3, Zenon DEF Admitted
  <2>8. Promise!Begin(a)
    BY <2>2, <2>5, <2>6, <2>7, Promises
  <2> QED BY <2>8 DEF Promise!Next
<1>12. ASSUME NEW result \in {"Completed", "Error"}, Complete(result)
       PROVE  Promise!Next \/ UNCHANGED <<reply, status, closed, Admitted, Begun, Heard>>
  <2>1. PICK a \in Actions : a = Top /\ step[a] \in {"running", "skipped"}
    BY <1>12, <1>1, TopFacts DEF Complete, AtTop
  <2>2. UNCHANGED <<reply, closed, Admitted, Begun, Heard>>
    <3>1. UNCHANGED <<reply, closed, invoked, Begun, Heard>>
      BY <1>12, SameSeen DEF Complete, seenVars
    <3>2. \E l \in {"telling", "ended"} : step' = [step EXCEPT ![a] = l]
      BY <1>12, <2>1 DEF Complete, StepTo
    <3>3. UNCHANGED Admitted
      BY <1>1, <2>1, <3>1, <3>2, AdmittedBy DEF Steps
    <3> QED BY <3>1, <3>3
  <2>3. CASE status[a] = "Started"
    <3>1. status' = [status EXCEPT ![a] = result]
      BY <1>12, <2>1, <2>3 DEF Complete
    <3>2. reply[a] = "ok" /\ (Begun[a] \/ (closed[a] /\ ~Admitted[a]))
      <4>1. reply[a] = "ok"
        BY <2>1, <1>1 DEF IInv, ItemInv
      <4>2. CASE step[a] = "running"
        BY <4>1, <4>2, <1>1, BegunInvoked DEF ReplyInv
      <4>3. CASE step[a] = "skipped"
        <5>1. closed[a] /\ ~Begun[a]
          BY <4>3, <2>3, <1>1, BegunInvoked DEF ReplyInv
        <5>2. ~Admitted[a]
          BY <4>3, <5>1 DEF Admitted
        <5> QED BY <4>1, <5>1, <5>2
      <4> QED BY <2>1, <4>2, <4>3
    <3>3. Promise!End(a, result) /\ result \in Promise!Final
      BY <2>2, <2>3, <3>1, <3>2, Promises DEF Promise!Final
    <3> QED BY <3>3 DEF Promise!Next
  <2>4. CASE status[a] # "Started"
    BY <1>12, <2>1, <2>2, <2>4 DEF Complete
  <2> QED BY <2>3, <2>4
<1>13. CASE (\E t \in Threads, a \in Actions : SetCompleted(t, a)) \/ OwnerExits \/ UNCHANGED vars
  BY <1>13, SameSeen DEF SetCompleted, OwnerExits, vars, actionVars, frameVars, seenVars
<1>15. CASE (\E a \in Actions : Dispatch(a)) \/ Repost \/ Return
  <2>1. UNCHANGED <<reply, status, closed, invoked, told>>
    BY <1>15 DEF Dispatch, Repost, Return, actionVars, seenVars
  <2>2. PICK a \in Actions, l \in {"repost", "check", "none"} :
          step' = [step EXCEPT ![a] = l] /\ step[a] \in {"none", "repost", "told", "ended"}
    <3>1. ASSUME NEW a \in Actions, Dispatch(a)
          PROVE  /\ step' = [step EXCEPT ![a] = AfterTaking(work')] /\ step[a] = "none"
                 /\ AfterTaking(work') \in {"repost", "check"}
      BY <3>1, <1>1 DEF Dispatch, Selected, AfterTaking, IInv, ItemInv
    <3>2. CASE Repost
      BY <3>2, <1>1, TopFacts DEF Repost, AtTop, StepTo
    <3>3. CASE Return
      BY <3>3, <1>1, TopFacts DEF Return, AtTop
    <3> QED BY <3>1, <3>2, <3>3, <1>15
  <2>3. UNCHANGED Admitted
    BY <1>1, <2>1, <2>2, AdmittedBy DEF Steps
  <2> QED BY <2>1, <2>3, SameSeen
<1> QED BY <1>3, <1>4, <1>5, <1>6, <1>7, <1>9, <1>10, <1>11, <1>12, <1>13, <1>14, <1>15
    DEF Next, Request, CallStep, OwnerStep

LEMMA InitFull == Init => FullInv
<1> SUFFICES ASSUME Init PROVE FullInv
  OBVIOUS
<1>1. stack = <<>> /\ invoked = <<>> /\ \A a \in Actions : step[a] = "none" /\ told[a] = 0
  BY DEF Init
<1>2. StackInv /\ FifoWithinPriority /\ Invoked = {} /\ Checking = {}
  BY <1>1 DEF StackInv, FifoWithinPriority, Invoked, Checking
<1>3. OrderInv
  BY <1>2 DEF Init, OrderInv, InCall
<1>4. CompletionInv /\ ReplyInv
  BY <1>1 DEF Init, CompletionInv, ReplyInv, TookHandler, Calling
<1> QED BY <1>2, <1>3, <1>4, InitInv DEF FullInv

LEMMA NextFull == FullInv /\ [Next]_vars => FullInv'
BY NextInv, StackStep, OrderStep, FifoStep, CompletionStep, ReplyStep DEF FullInv

(* Callbacks of one priority run in the order their RunAsync calls queued  *)
(* them, each at most once, at any depth of nested message loops.          *)
THEOREM FifoCorrect == Spec => []FifoWithinPriority
<1>1. FullInv => FifoWithinPriority
  BY DEF FullInv
<1> QED BY <1>1, InitFull, NextFull, PTL DEF Spec

(* The completed handler of an action is told at most once, of a final     *)
(* status, and Close keeps it from being taken afterwards.                 *)
THEOREM CompletionCorrect == Spec => CompletionProtocol
<1>1. FullInv => ToldOnce
  <2> SUFFICES ASSUME FullInv, NEW a \in Actions
               PROVE  told[a] =< 1 /\ (told[a] = 1 => status[a] \in Final)
    BY DEF ToldOnce
  <2>1. told[a] = 1 => told[a] > 0
    OBVIOUS
  <2> QED BY <2>1 DEF FullInv, CompletionInv
<1>2. FullInv /\ FullInv' /\ [Next]_vars => [Silent]_vars
  BY CompletionStep DEF FullInv
<1> QED BY <1>1, <1>2, InitFull, NextFull, PTL DEF Spec, CompletionProtocol, ClosedIsSilent, Silent

(* The queue, its wake message and the nested window procedures implement  *)
(* the promise of RunAsync, whatever posts fail and whenever the owner     *)
(* exits.                                                                  *)
THEOREM PromiseCorrect == Spec => KeepsPromise
<1>1. Init => Promise!Init
  <2> SUFFICES ASSUME Init PROVE Promise!Init
    OBVIOUS
  <2>1. /\ Begun = [a \in Actions |-> FALSE] /\ Heard = [a \in Actions |-> FALSE]
        /\ Admitted = [a \in Actions |-> FALSE]
    <3>1. \A a \in Actions : (told[a] > 0) = FALSE
      BY DEF Init
    <3>2. \A a \in Actions : (\E i \in DOMAIN invoked : invoked[i] = a) = FALSE
      BY DEF Init
    <3>3. Heard = [a \in Actions |-> FALSE]
      BY <3>1, Zenon DEF Heard
    <3>4. Begun = [a \in Actions |-> FALSE]
      BY <3>2, Zenon DEF Begun
    <3>5. \A a \in Actions : (step[a] = "invoking" \/ Begun[a]) = FALSE
      BY <3>4 DEF Init
    <3>6. Admitted = [a \in Actions |-> FALSE]
      BY <3>5, Zenon DEF Admitted
    <3> QED BY <3>3, <3>4, <3>6
  <2> QED BY <2>1 DEF Init, Promise!Init
<1>2. FullInv /\ FullInv' /\ [Next]_vars => [Promise!Next]_(Promise!vars)
  BY PromiseStep DEF Promise!vars
<1> QED BY <1>1, <1>2, InitFull, NextFull, PTL DEF Spec, KeepsPromise, Promise!Spec
=============================================================================
