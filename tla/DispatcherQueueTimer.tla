----------------------- MODULE DispatcherQueueTimer ------------------------
(***************************************************************************)
(* DispatcherQueueTimerObject (phase3/xamlcore/src/factory.cpp): a timer   *)
(* of the dispatcher's message window, whose WM_TIMER carries a plain      *)
(* pointer to it.  Start takes a reference that Stop, or the tick of a     *)
(* timer that does not repeat, gives back.  Tick handlers are user code:   *)
(* they start, stop and change the timer and may pump messages.            *)
(*                                                                         *)
(* KillTimer leaves a WM_TIMER that is already in the queue there.         *)
(***************************************************************************)
EXTENDS Integers, FiniteSets

CONSTANTS MaxOwned,   \* bound: references held by user code
          MaxTicks    \* bound: ticks in progress at once

ASSUME TimerAssumption == MaxOwned \in Nat \ {0} /\ MaxTicks \in Nat \ {0}

VARIABLES
    running,     \* running_
    repeating,   \* repeating_
    armed,       \* timer_id_ is set, and the window has the timer
    due,         \* a WM_TIMER of it is in the queue
    refs,        \* the reference count
    owned,       \* those that user code holds
    ticks,       \* how many OnTick are in progress, the innermost last
    shots,       \* those of them that found one_shot
    stale,       \* history: stopped with its WM_TIMER in the queue
    refused      \* history: SetTimer has failed since Start

timerVars == <<running, repeating, armed, due, refs, owned, ticks, shots, stale, refused>>

TimerInit ==
    /\ running = FALSE /\ repeating = FALSE /\ armed = FALSE /\ due = FALSE
    /\ refs = 1 /\ owned = 1 /\ ticks = 0 /\ shots = {}
    /\ stale = FALSE /\ refused = FALSE

TimerTypeOK ==
    /\ {running, repeating, armed, due, stale, refused} \subseteq BOOLEAN
    /\ refs \in Int /\ owned \in 0..MaxOwned /\ ticks \in 0..MaxTicks
    /\ shots \subseteq 1..ticks

Destroyed == refs <= 0
Reachable == ~Destroyed /\ owned + ticks > 0   \* by user code

Start ==
    /\ Reachable /\ ~running
    /\ \/ armed' = TRUE /\ running' = TRUE /\ refs' = refs + 1 /\ refused' = FALSE
       \/ armed' = FALSE /\ UNCHANGED <<running, refs, refused>>   \* SetTimer fails
    /\ UNCHANGED <<repeating, due, owned, ticks, shots, stale>>

Stop ==
    /\ Reachable /\ running
    /\ armed' = FALSE /\ running' = FALSE /\ refs' = refs - 1
    /\ stale' = (stale \/ due)
    /\ UNCHANGED <<repeating, due, owned, ticks, shots, refused>>

PutInterval ==
    /\ Reachable /\ running
    /\ armed' \in BOOLEAN
    /\ refused' = ~armed'
    /\ UNCHANGED <<running, repeating, due, refs, owned, ticks, shots, stale>>

PutIsRepeating ==
    /\ Reachable
    /\ repeating' = ~repeating
    /\ UNCHANGED <<running, armed, due, refs, owned, ticks, shots, stale, refused>>

Own ==
    /\ Reachable
    /\ \/ owned < MaxOwned /\ owned' = owned + 1 /\ refs' = refs + 1
       \/ owned > 0 /\ owned' = owned - 1 /\ refs' = refs - 1
    /\ armed' = (armed /\ refs' > 0)            \* the destructor kills it
    /\ UNCHANGED <<running, repeating, due, ticks, shots, stale, refused>>

(* The window's timer runs out; one WM_TIMER stands for several.           *)
Fire ==
    /\ armed /\ ~due
    /\ due' = TRUE
    /\ UNCHANGED <<running, repeating, armed, refs, owned, ticks, shots, stale, refused>>

-----------------------------------------------------------------------------
OneShot == ~repeating
StillRuns_Kept(oneShot) == running              \* mutant: it is not stopped
StillRuns(oneShot) == running /\ ~oneShot

OnTick ==
    /\ due /\ ~Destroyed /\ ticks < MaxTicks
    /\ due' = FALSE
    /\ running' = StillRuns(OneShot)
    /\ armed' = (armed /\ ~(OneShot /\ running))
    /\ refs' = refs + 1
    /\ ticks' = ticks + 1
    /\ shots' = IF OneShot THEN shots \cup {ticks + 1} ELSE shots
    /\ UNCHANGED <<repeating, owned, stale, refused>>

Returned_Now(oneShot) == IF OneShot THEN 2 ELSE 1   \* mutant: read again
Returned(oneShot) == IF oneShot THEN 2 ELSE 1

TickEnds ==
    /\ ticks > 0 /\ ~Destroyed
    /\ refs' = refs - Returned(ticks \in shots)
    /\ ticks' = ticks - 1 /\ shots' = shots \ {ticks}
    /\ armed' = (armed /\ refs' > 0)
    /\ UNCHANGED <<running, repeating, due, owned, stale, refused>>

TimerNext ==
    Start \/ Stop \/ PutInterval \/ PutIsRepeating \/ Own \/ Fire \/ OnTick \/ TickEnds
TimerSpec == TimerInit /\ [][TimerNext]_timerVars

-----------------------------------------------------------------------------
(* One reference for each user, for Start and for each tick in progress;   *)
(* a one-shot tick in progress still holds Start's.                        *)
Balanced == refs = owned + (IF running THEN 1 ELSE 0) + ticks + Cardinality(shots)

(* "release Start's running reference" (OnTick): the references add up,    *)
(* a running timer will tick, and no WM_TIMER of a destroyed timer is in   *)
(* the queue.  It is so unless the timer was stopped with its WM_TIMER in  *)
(* the queue: then a tick gives back a reference Start no longer holds.    *)
TimerProtocol ==
    ~stale => /\ TimerTypeOK /\ Balanced
              /\ running => armed \/ refused
              /\ Destroyed => ~due /\ ~armed
=============================================================================
