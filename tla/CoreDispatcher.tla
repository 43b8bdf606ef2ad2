-------------------------- MODULE CoreDispatcher --------------------------
(***************************************************************************)
(* The projection of Windows.UI.Core.CoreDispatcher onto a Win32 message   *)
(* loop (phase3/xamlcore/src/core_dispatcher.cpp): a priority queue shared *)
(* by every thread that calls RunAsync, one wake message that makes the    *)
(* owner thread take one item, and the IAsyncAction through which a caller *)
(* cancels, closes or observes an item.                                    *)
(*                                                                         *)
(* An action value stands for one RunAsync call: the DispatcherAction, its *)
(* DispatchWork and its callback.  Every step that runs under              *)
(* queue->lock or the action's lock_ is one action here; what the code     *)
(* does between two critical sections is a step of its own.                *)
(***************************************************************************)
EXTENDS Integers, Sequences

CONSTANTS Clients,        \* threads other than the queue's own
          Owner,          \* the thread whose message loop serves the queue
          Actions,        \* bound: the RunAsync calls ever made
          Kept,           \* bound: the actions whose IAsyncAction is used
          Priorities,     \* the CoreDispatcherPriority values used
          NoAction,
          PostMayFail,    \* PostMessageW may fail on a live window
          MayExit         \* the owner thread may exit

ASSUME OwnerAssumption == Owner \notin Clients
ASSUME PrioritiesAssumption == Priorities \subseteq Int
ASSUME NoActionAssumption == NoAction \notin Actions
ASSUME KeptAssumption == Kept \subseteq Actions
ASSUME SwitchAssumption == PostMayFail \in BOOLEAN /\ MayExit \in BOOLEAN

VARIABLES
    work, wakePending, nextOrder, priority, order,  \* DispatcherQueue
    messages, alive,                                \* its window
    status, completed, closed,                      \* DispatcherAction
    pc, cur,                                        \* a thread inside a call
    stack, step,                                    \* owner: nested window procs
    reply, invoked, told, released                  \* what callers observed

queueVars  == <<work, wakePending, nextOrder, priority, order>>
windowVars == <<messages, alive>>
actionVars == <<status, completed, closed>>
callVars   == <<pc, cur>>
frameVars  == <<stack, step>>
seenVars   == <<reply, invoked, told, released>>
vars == <<queueVars, windowVars, actionVars, callVars, frameVars, seenVars>>

Threads == Clients \cup {Owner}
Final   == {"Completed", "Error", "Canceled"}
Steps   == {"none", "repost", "check", "invoking", "running", "skipped",
            "telling", "told", "ended"}

TypeOK ==
    /\ work \in SUBSET Actions
    /\ wakePending \in BOOLEAN
    /\ nextOrder \in Nat
    /\ priority \in [Actions -> Priorities \cup {NoAction}]
    /\ order \in [Actions -> Nat]
    /\ messages \in Nat
    /\ alive \in BOOLEAN
    /\ status \in [Actions -> Final \cup {"fresh", "Started"}]
    /\ completed \in [Actions -> BOOLEAN]
    /\ closed \in [Actions -> BOOLEAN]
    /\ pc \in [Threads -> {"idle", "enqueue", "post", "retract", "callback"}]
    /\ cur \in [Threads -> Actions \cup {NoAction}]
    /\ stack \in Seq(Actions)
    /\ step \in [Actions -> Steps]
    /\ reply \in [Actions -> {"none", "ok", "failed"}]
    /\ invoked \in Seq(Actions)
    /\ told \in [Actions -> Nat]
    /\ released \in [Actions -> Nat]

Init ==
    /\ work = {}
    /\ wakePending = FALSE
    /\ nextOrder = 0
    /\ priority = [a \in Actions |-> NoAction]
    /\ order = [a \in Actions |-> 0]
    /\ messages = 0
    /\ alive = TRUE
    /\ status = [a \in Actions |-> "fresh"]
    /\ completed = [a \in Actions |-> FALSE]
    /\ closed = [a \in Actions |-> FALSE]
    /\ pc = [t \in Threads |-> "idle"]
    /\ cur = [t \in Threads |-> NoAction]
    /\ stack = <<>>
    /\ step = [a \in Actions |-> "none"]
    /\ reply = [a \in Actions |-> "none"]
    /\ invoked = <<>>
    /\ told = [a \in Actions |-> 0]
    /\ released = [a \in Actions |-> 0]

-----------------------------------------------------------------------------
(* Where the owner thread runs code that is not the dispatcher's: outside  *)
(* every window procedure, or inside a callback, which may call the        *)
(* dispatcher or run a modal message loop of its own.                      *)
Top == Head(stack)
OwnerInUserCode ==
    /\ alive
    /\ pc[Owner] = "idle"
    /\ stack # <<>> => step[Top] \in {"running", "told"}
Ready(t) == pc[t] = "idle" /\ (t = Owner => OwnerInUserCode)

Idle(t) == pc' = [pc EXCEPT ![t] = "idle"] /\ cur' = [cur EXCEPT ![t] = NoAction]
Goto(t, label, a) == pc' = [pc EXCEPT ![t] = label] /\ cur' = [cur EXCEPT ![t] = a]

-----------------------------------------------------------------------------
(* RunAsync up to the IsWindow test of Enqueue.                            *)
RunAsync(t, a, p) ==
    /\ Ready(t)
    /\ status[a] = "fresh"
    /\ alive
    /\ status' = [status EXCEPT ![a] = "Started"]
    /\ priority' = [priority EXCEPT ![a] = p]
    /\ Goto(t, "enqueue", a)
    /\ UNCHANGED <<work, wakePending, nextOrder, order, windowVars, completed,
                   closed, frameVars, seenVars>>

(* The window is gone or an allocation failed: RunAsync reports it.        *)
RunAsyncRefused(t, a) ==
    /\ Ready(t)
    /\ status[a] = "fresh"
    /\ status' = [status EXCEPT ![a] = "Started"]
    /\ reply' = [reply EXCEPT ![a] = "failed"]
    /\ UNCHANGED <<queueVars, windowVars, completed, closed, callVars, frameVars,
                   invoked, told, released>>

MustPost_Always == TRUE                 \* mutant: ignores wake_pending
MustPost == ~wakePending

(* Enqueue under the lock: only the thread that finds no wake pending      *)
(* posts one; every other thread relies on that thread's post.             *)
Enqueue(t) ==
    LET a == cur[t] IN
    /\ pc[t] = "enqueue"
    /\ work' = work \cup {a}
    /\ order' = [order EXCEPT ![a] = nextOrder]
    /\ nextOrder' = nextOrder + 1
    /\ wakePending' = TRUE
    /\ IF MustPost
       THEN Goto(t, "post", a) /\ UNCHANGED reply
       ELSE Idle(t) /\ reply' = [reply EXCEPT ![a] = "ok"]
    /\ UNCHANGED <<priority, windowVars, actionVars, frameVars,
                   invoked, told, released>>

PostWake(t) ==
    /\ pc[t] = "post"
    /\ alive
    /\ messages' = messages + 1
    /\ reply' = [reply EXCEPT ![cur[t]] = "ok"]
    /\ Idle(t)
    /\ UNCHANGED <<queueVars, alive, actionVars, frameVars, invoked, told, released>>

PostFails(t) ==
    /\ pc[t] = "post"
    /\ PostMayFail \/ ~alive
    /\ Goto(t, "retract", cur[t])
    /\ UNCHANGED <<queueVars, windowVars, actionVars, frameVars, seenVars>>

WithoutItem_Kept(a) == work             \* mutant: the item stays queued
WithoutItem(a) == work \ {a}

(* The failure path of Enqueue: take the item back and free it.            *)
Retract(t) ==
    LET a == cur[t] IN
    /\ pc[t] = "retract"
    /\ work' = WithoutItem(a)
    /\ wakePending' = (work' # {})
    /\ reply' = [reply EXCEPT ![a] = "failed"]
    /\ released' = [released EXCEPT ![a] = @ + 1]
    /\ Idle(t)
    /\ UNCHANGED <<nextOrder, priority, order, windowVars, actionVars, frameVars,
                   invoked, told>>

-----------------------------------------------------------------------------
(* The IAsyncAction, used by any thread once RunAsync has returned it.     *)
Usable(t, a) == Ready(t) /\ a \in Kept /\ reply[a] = "ok"

Unfinished_Always(a) == TRUE            \* mutant: the setter never invokes
Unfinished_Never(a) == FALSE            \* mutant: the setter always invokes
Unfinished(a) == status[a] = "Started"

(* put_Completed: a handler set after the end is invoked by the setter.    *)
SetCompleted(t, a) ==
    /\ Usable(t, a)
    /\ ~closed[a]
    /\ ~completed[a]
    /\ completed' = [completed EXCEPT ![a] = TRUE]
    /\ IF Unfinished(a) THEN UNCHANGED callVars ELSE Goto(t, "callback", a)
    /\ UNCHANGED <<queueVars, windowVars, status, closed, frameVars, seenVars>>

(* Finish(Canceled): only the call that ends the action takes the handler. *)
Cancel(t, a) ==
    /\ Usable(t, a)
    /\ status[a] = "Started"
    /\ status' = [status EXCEPT ![a] = "Canceled"]
    /\ IF completed[a] THEN Goto(t, "callback", a) ELSE UNCHANGED callVars
    /\ UNCHANGED <<queueVars, windowVars, completed, closed, frameVars, seenVars>>

HandlerOnClose_Kept(a) == completed[a]  \* mutant: the handler survives Close
HandlerOnClose(a) == FALSE

Close(t, a) ==
    /\ Usable(t, a)
    /\ closed' = [closed EXCEPT ![a] = TRUE]
    /\ completed' = [completed EXCEPT ![a] = HandlerOnClose(a)]
    /\ UNCHANGED <<queueVars, windowVars, status, callVars, frameVars, seenVars>>

(* The handler is invoked after the lock is released.                      *)
InvokeCompleted(t) ==
    /\ pc[t] = "callback"
    /\ told' = [told EXCEPT ![cur[t]] = @ + 1]
    /\ Idle(t)
    /\ UNCHANGED <<queueVars, windowVars, actionVars, frameVars, reply, invoked, released>>

-----------------------------------------------------------------------------
(* The window procedure.  Its branch for an empty queue is not an action:  *)
(* WakeCarriesWork says that no wake message ever meets one.               *)
Precedes_Lifo(a, b) == priority[a] > priority[b]       \* mutant: newest first
                       \/ (priority[a] = priority[b] /\ order[a] > order[b])
Precedes(a, b) == priority[a] > priority[b]
                  \/ (priority[a] = priority[b] /\ order[a] < order[b])
Selected(a) == a \in work /\ \A b \in work \ {a} : Precedes(a, b)

WokenUp_Unasked == TRUE                 \* mutant: runs without a wake message
WokenUp == messages > 0
StillPending_Forgotten(rest) == FALSE   \* mutant: the flag is only cleared
StillPending(rest) == rest # {}
AfterTaking_NoPost(rest) == "check"     \* mutant: never posts again
AfterTaking(rest) == IF rest # {} THEN "repost" ELSE "check"

Dispatch(a) ==
    /\ OwnerInUserCode
    /\ WokenUp
    /\ Selected(a)
    /\ messages' = messages - 1
    /\ work' = work \ {a}
    /\ wakePending' = StillPending(work')
    /\ stack' = <<a>> \o stack
    /\ step' = [step EXCEPT ![a] = AfterTaking(work')]
    /\ UNCHANGED <<nextOrder, priority, order, alive, actionVars, callVars, seenVars>>

AtTop(label) == stack # <<>> /\ pc[Owner] = "idle" /\ step[Top] = label
StepTo(label) == step' = [step EXCEPT ![Top] = label] /\ UNCHANGED stack

(* The result of this PostMessageW is not looked at.                       *)
Repost ==
    /\ AtTop("repost")
    /\ messages' = messages + 1 \/ (PostMayFail /\ messages' = messages)
    /\ StepTo("check")
    /\ UNCHANGED <<queueVars, alive, actionVars, callVars, seenVars>>

ShouldInvoke_Closed(a) == status[a] = "Started"        \* mutant: runs closed items
ShouldInvoke(a) == status[a] = "Started" /\ ~closed[a]

(* ShouldInvoke, which releases the action's lock before it answers.       *)
Check ==
    /\ AtTop("check")
    /\ StepTo(IF ShouldInvoke(Top) THEN "invoking" ELSE "skipped")
    /\ UNCHANGED <<queueVars, windowVars, actionVars, callVars, seenVars>>

(* The call of the handler, if ShouldInvoke said so, whatever Cancel and   *)
(* Close other threads have made since.                                    *)
Invoke ==
    /\ AtTop("invoking")
    /\ StepTo("running")
    /\ invoked' = Append(invoked, Top)
    /\ UNCHANGED <<queueVars, windowVars, actionVars, callVars, reply, told, released>>

(* Complete(result): Finish under lock_.                                   *)
Complete(result) ==
    /\ \/ AtTop("running")
       \/ AtTop("skipped") /\ result = "Completed"
    /\ IF status[Top] = "Started"
       THEN /\ status' = [status EXCEPT ![Top] = result]
            /\ StepTo(IF completed[Top] THEN "telling" ELSE "ended")
       ELSE StepTo("ended") /\ UNCHANGED status
    /\ UNCHANGED <<queueVars, windowVars, completed, closed, callVars, seenVars>>

Tell ==
    /\ AtTop("telling")
    /\ told' = [told EXCEPT ![Top] = @ + 1]
    /\ StepTo("told")
    /\ UNCHANGED <<queueVars, windowVars, actionVars, callVars, reply, invoked, released>>

(* The procedure releases the item and returns.                            *)
Return ==
    /\ AtTop("told") \/ AtTop("ended")
    /\ stack' = Tail(stack)
    /\ step' = [step EXCEPT ![Top] = "none"]
    /\ released' = [released EXCEPT ![Top] = @ + 1]
    /\ UNCHANGED <<queueVars, windowVars, actionVars, callVars, reply, invoked, told>>

(* The thread exits: its window goes, with the messages posted to it.      *)
OwnerExits ==
    /\ MayExit
    /\ alive
    /\ stack = <<>>
    /\ pc[Owner] = "idle"
    /\ alive' = FALSE
    /\ messages' = 0
    /\ UNCHANGED <<queueVars, actionVars, callVars, frameVars, seenVars>>

-----------------------------------------------------------------------------
CallStep(t) == Enqueue(t) \/ PostWake(t) \/ PostFails(t) \/ Retract(t)
               \/ InvokeCompleted(t)
OwnerStep == \/ \E a \in Actions : Dispatch(a)
             \/ Repost \/ Check \/ Invoke \/ Tell \/ Return
             \/ \E result \in {"Completed", "Error"} : Complete(result)
Request(t) == \E a \in Actions :
                 \/ \E p \in Priorities : RunAsync(t, a, p)
                 \/ RunAsyncRefused(t, a)
                 \/ SetCompleted(t, a) \/ Cancel(t, a) \/ Close(t, a)

Next == \/ \E t \in Threads : Request(t) \/ CallStep(t)
        \/ OwnerStep
        \/ OwnerExits

(* Threads inside a call go on, and the owner pumps messages and returns   *)
(* from its callbacks.  Nobody is obliged to ask for anything.             *)
Fairness == /\ \A t \in Threads : WF_vars(CallStep(t))
            /\ WF_vars(OwnerStep)

Spec == Init /\ [][Next]_vars /\ Fairness

-----------------------------------------------------------------------------
Posting == {t \in Threads : pc[t] \in {"post", "retract"}}
Reposting == {a \in Actions : step[a] = "repost"}

(* wake_pending hands out one right to post: the wake message, a thread    *)
(* between its unlock and its PostMessageW (or its retraction), and a      *)
(* window procedure about to post again exclude one another, and each of   *)
(* them is covered by wake_pending.                                        *)
OneWake ==
    /\ messages > 0 \/ Posting # {} \/ Reposting # {} => wakePending
    /\ messages =< 1
    /\ messages = 1 => Posting = {} /\ Reposting = {}
    /\ \A t, u \in Posting : t = u
    /\ \A a, b \in Reposting : a = b
    /\ Posting = {} \/ Reposting = {}

(* A wake message finds an item: the window procedure never runs on an     *)
(* empty queue, whatever posts failed and items were retracted before.     *)
WakeCarriesWork == messages > 0 => work # {}

(* The failure path of Enqueue finds its own item still queued, so the     *)
(* window procedure cannot have taken an item that Enqueue then frees.     *)
RetractOwnsItem == \A t \in Threads : pc[t] = "retract" => cur[t] \in work

(* Each item's handler and action references are released at most once,    *)
(* and never while the queue or a window procedure still holds the item.   *)
ReleasedOnce ==
    \A a \in Actions : /\ released[a] =< 1
                       /\ released[a] = 1 => a \notin work /\ step[a] = "none"

(* A RunAsync that reported failure never runs its callback.               *)
FailedNeverRuns ==
    \A i \in 1..Len(invoked) : reply[invoked[i]] # "failed"

(* Callbacks of one priority run in the order RunAsync queued them, each   *)
(* at most once, nested message loops or not.                              *)
FifoWithinPriority ==
    \A j \in 1..Len(invoked) : \A i \in 1..(j - 1) :
        /\ invoked[i] # invoked[j]
        /\ priority[invoked[i]] = priority[invoked[j]]
              => order[invoked[i]] < order[invoked[j]]

(* The completed handler is told once, of a final status, whichever of     *)
(* put_Completed, Cancel and the window procedure comes first.             *)
ToldOnce ==
    \A a \in Actions : told[a] =< 1 /\ (told[a] = 1 => status[a] \in Final)

(* Closing an action silences it: the handler is told after Close only by  *)
(* a call that had taken it out of the action before.                      *)
TookHandler(a) == step[a] = "telling"
                  \/ \E t \in Threads : pc[t] = "callback" /\ cur[t] = a
ClosedIsSilent ==
    [][\A a \in Actions : closed[a] /\ TookHandler(a)' => TookHandler(a)]_vars

(* "Its RunAsync queue is serviced by that thread's ordinary               *)
(* GetMessage/DispatchMessage loop" (core_dispatcher.h): an item RunAsync  *)
(* accepted reaches a final status while the owner pumps.                  *)
AcceptedIsServiced ==
    \A a \in Actions : reply[a] = "ok" ~> status[a] \in Final

(* A handler set on an open action that was accepted is told.              *)
HandlerIsTold ==
    \A a \in Actions : completed[a] ~> told[a] = 1 \/ closed[a]

(* The queue, the wake message and the nested window procedures implement  *)
(* the promise of RunAsync.                                                *)
Begun == [a \in Actions |-> \E i \in DOMAIN invoked : invoked[i] = a]
Admitted == [a \in Actions |-> step[a] = "invoking" \/ Begun[a]]
Heard == [a \in Actions |-> told[a] > 0]
Promise == INSTANCE AsyncWork WITH admitted <- Admitted, begun <- Begun, told <- Heard
KeepsPromise == Promise!Spec

-----------------------------------------------------------------------------
(* What the runs check, one property for each of the protocols above.      *)

(* wake_pending, the posted message and the queue: one wake at a time, and *)
(* never for an empty queue.                                               *)
WakeProtocol == OneWake /\ WakeCarriesWork

(* Enqueue's failure path and the window procedure never both own an item: *)
(* it is taken back only while queued, released once, and not run after a  *)
(* failure was reported.                                                   *)
ReleaseProtocol == RetractOwnsItem /\ ReleasedOnce /\ FailedNeverRuns

(* put_Completed, Cancel, Close and Finish: the handler hears once, of a   *)
(* final status, and not after a Close.                                    *)
CompletionProtocol == []ToldOnce /\ ClosedIsSilent
=============================================================================
