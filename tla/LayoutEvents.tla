---------------------------- MODULE LayoutEvents ----------------------------
(***************************************************************************)
(* LayoutPass and EventRegistrations (phase3/layout/src/events.cpp) with   *)
(* the part of Element::Arrange that feeds them: the outermost arrange of  *)
(* a tree ends by raising SizeChanged, last queued first, and then         *)
(* LayoutUpdated to everyone who is a subscriber when that is done.  The   *)
(* handlers are user code: they arrange again, register and remove         *)
(* handlers and destroy elements while the queue is drained; an arrange of *)
(* theirs does not drain it again.                                         *)
(* A handler that throws ends the process (the drain is in a destructor),  *)
(* so exceptions have no action.                                           *)
(***************************************************************************)
EXTENDS Integers, Sequences, SequencesExt

CONSTANTS Tree,       \* elements in the order Arrange finishes them:
                      \* children before their parent
          Parent,     \* per element: its parent, or None
          None,
          Handlers    \* per element and event: the handlers it may have

Elements == ToSet(Tree)
Events == {"SizeChanged", "LayoutUpdated"}

ASSUME TreeAssumption ==
    /\ Tree \in Seq(Elements) /\ IsInjective(Tree) /\ None \notin Elements
    /\ Parent \in [Elements -> Elements \cup {None}]
    /\ \A i, j \in DOMAIN Tree : Parent[Tree[i]] = Tree[j] => i < j

VARIABLES
    alive,           \* elements not destroyed
    collapsed,       \* elements whose visibility is Collapsed
    empty,           \* elements whose render_size_ is empty: not arranged
                     \* yet, or collapsed when they were
    handlers,        \* handlers_: per element and event, in token order
    subscribed,      \* subscribed_to_layout_updated_
    layoutUpdated,   \* PassState::layout_updated
    sizeChanged,     \* PassState::size_changed
    draining,        \* PassState::draining
    drain,           \* the drain in progress: what is left to raise
    raising,         \* the event being raised: the running handler, the rest
    undefined,       \* a destroyed element was read
    told,            \* history: elements whose render_size_ is what their
                     \* handlers were last told, or found when first added
    owing            \* history: subscribers of this drain not yet told

layout == <<collapsed, empty, told>>
registrations == <<handlers, subscribed, layoutUpdated>>
vars == <<alive, layout, registrations, sizeChanged, draining, drain, raising, undefined, owing>>

(* The drain has the queue, and, once that is empty, the copy it made of   *)
(* the subscribers.                                                        *)
NoDrain == [queued |-> <<>>, copied |-> FALSE, subscribers |-> <<>>]
Nothing == [elem |-> None, event |-> "LayoutUpdated", running |-> None, rest |-> <<>>]
Entry(e) == [elem |-> e, late |-> draining]    \* the previous size is left out

TypeOK ==
    /\ alive \subseteq Elements
    /\ collapsed \subseteq Elements /\ empty \subseteq Elements /\ told \subseteq Elements
    /\ \A e \in Elements, v \in Events :
          ToSet(handlers[e][v]) \subseteq Handlers[e][v] /\ IsInjective(handlers[e][v])
    /\ subscribed \in [Elements -> BOOLEAN]
    /\ ToSet(layoutUpdated) \subseteq Elements
    /\ \A i \in DOMAIN sizeChanged : sizeChanged[i].elem \in Elements
    /\ draining \in BOOLEAN /\ undefined \in BOOLEAN
    /\ raising.elem \in Elements \cup {None}
    /\ owing \subseteq Elements

Init ==
    /\ alive = Elements
    /\ collapsed = {} /\ empty = Elements /\ told = Elements
    /\ handlers = [e \in Elements |-> [v \in Events |-> <<>>]]
    /\ subscribed = [e \in Elements |-> FALSE]
    /\ layoutUpdated = <<>> /\ sizeChanged = <<>>
    /\ draining = FALSE /\ drain = NoDrain /\ raising = Nothing
    /\ undefined = FALSE /\ owing = {}

InUserCode == ~undefined /\ (draining => raising.running # None)

-----------------------------------------------------------------------------
(* EventRegistrations.  A subscription follows the LayoutUpdated handlers. *)
Without(list, x) ==
    LET left[i \in 0 .. Len(list)] ==
            IF i = 0 THEN <<>>
            ELSE IF list[i] # x THEN Append(left[i - 1], list[i]) ELSE left[i - 1]
    IN left[Len(list)]
Subscribe(e, wanted) ==
    /\ subscribed' = [subscribed EXCEPT ![e] = wanted]
    /\ layoutUpdated' = IF wanted = subscribed[e] THEN layoutUpdated
                        ELSE IF ~wanted THEN Without(layoutUpdated, e)
                        ELSE IF e \in ToSet(layoutUpdated) THEN layoutUpdated
                        ELSE Append(layoutUpdated, e)
    /\ owing' = IF wanted THEN owing ELSE owing \ {e}

Resubscribe_OnAdd(e, v, list) == v = "LayoutUpdated" /\ list # <<>>  \* mutant: Remove forgets
Resubscribe(e, v, list) == v = "LayoutUpdated"

SetHandlers(e, v, list) ==
    /\ handlers' = [handlers EXCEPT ![e][v] = list]
    /\ IF Resubscribe(e, v, list) THEN Subscribe(e, list # <<>>)
       ELSE UNCHANGED <<subscribed, layoutUpdated, owing>>

(* A handler is added under a new token: not under one that a list being   *)
(* raised still holds.                                                     *)
FreshTokens_All(e, v) == Handlers[e][v]                              \* mutant: given out again
FreshTokens(e, v) == Handlers[e][v] \ (ToSet(handlers[e][v]) \cup ToSet(raising.rest))

Add(e, v, h) ==
    /\ InUserCode /\ e \in alive /\ h \in FreshTokens(e, v)
    /\ SetHandlers(e, v, Append(handlers[e][v], h))
    /\ told' = IF v = "SizeChanged" /\ handlers[e][v] = <<>> THEN told \cup {e} ELSE told
    /\ UNCHANGED <<alive, collapsed, empty, sizeChanged, draining, drain, raising, undefined>>

Unregister(e, v, h) ==
    /\ InUserCode /\ e \in alive /\ h \in ToSet(handlers[e][v])
    /\ SetHandlers(e, v, Without(handlers[e][v], h))
    /\ UNCHANGED <<alive, layout, sizeChanged, draining, drain, raising, undefined>>

(* The destructor gives up the subscription, and nothing else: the queue   *)
(* keeps its pointer, and so does a Raise whose handler destroys its own   *)
(* element.                                                                *)
Destroy(e) ==
    /\ InUserCode /\ e \in alive
    /\ \A c \in alive : Parent[c] # e
    /\ alive' = alive \ {e}
    /\ handlers' = [handlers EXCEPT ![e] = [v \in Events |-> <<>>]]
    /\ Subscribe(e, FALSE)
    /\ collapsed' = collapsed \ {e} /\ empty' = empty \cup {e} /\ told' = told \cup {e}
    /\ UNCHANGED <<sizeChanged, draining, drain, raising, undefined>>

-----------------------------------------------------------------------------
(* Arrange of e: e and every element below it that is not in a collapsed   *)
(* one gets a render size.  The sizes are data: moved are the elements     *)
(* whose size is another one than before, any that layout could move.  A   *)
(* change is queued once per visible element that has handlers, and the    *)
(* outermost arrange drains unless a drain is running.                     *)
Under(e) ==
    LET below[x \in Elements \cup {None}] ==
            x # None /\ (x = e \/ (below[Parent[x]] /\ Parent[x] \notin collapsed))
    IN {x \in alive : below[x]}
CanMove(e) == {moved \in SUBSET Under(e) :
                 \A x \in Under(e) : IF x \in collapsed THEN x \in moved <=> x \notin empty
                                      ELSE x \in empty => x \in moved}

Queue_Again(q, e) ==                   \* mutant: queued once per arrange
    IF handlers[e]["SizeChanged"] = <<>> THEN q ELSE Append(q, Entry(e))
Queue_Quiet(q, e) ==                   \* mutant: nothing is queued during a drain
    IF handlers[e]["SizeChanged"] = <<>> \/ draining \/ \E i \in DOMAIN q : q[i].elem = e
    THEN q ELSE Append(q, Entry(e))
Queue(q, e) ==
    IF handlers[e]["SizeChanged"] = <<>> \/ \E i \in DOMAIN q : q[i].elem = e
    THEN q ELSE Append(q, Entry(e))

Queued(moved) ==
    LET queue[n \in 0 .. Len(Tree)] ==
            IF n = 0 THEN sizeChanged
            ELSE IF Tree[n] \in moved \ collapsed THEN Queue(queue[n - 1], Tree[n]) ELSE queue[n - 1]
    IN queue[Len(Tree)]

Backwards_Not(q) == q                  \* mutant: drained in the order queued
Backwards(q) == Reverse(q)

Drains_Always(d) == TRUE               \* mutant: draining is not read
Drains(d) == ~d

Arrange(e, moved) ==
    /\ InUserCode /\ e \in alive
    /\ empty' = (empty \ Under(e)) \cup (Under(e) \cap collapsed)
    /\ told' = told \ moved
    /\ IF Drains(draining)
       THEN /\ draining' = TRUE
            /\ drain' = [NoDrain EXCEPT !.queued = Backwards(Queued(moved))]
            /\ sizeChanged' = <<>>
       ELSE /\ sizeChanged' = Queued(moved)
            /\ UNCHANGED <<draining, drain>>
    /\ UNCHANGED <<alive, collapsed, registrations, raising, undefined, owing>>

SetVisibility(e) ==
    /\ InUserCode /\ e \in alive
    /\ collapsed' = IF e \in collapsed THEN collapsed \ {e} ELSE collapsed \cup {e}
    /\ UNCHANGED <<alive, empty, told, registrations, sizeChanged, draining, drain, raising, undefined, owing>>

-----------------------------------------------------------------------------
(* The drain.  Raise calls those of a snapshot that are still there when   *)
(* their turn comes.                                                       *)
FirstThere(e, v, list) == SelectInSeq(list, LAMBDA h : h \in ToSet(handlers[e][v]))

Raise(e, v, list) ==
    LET i == FirstThere(e, v, list)
    IN raising' = IF i = 0 THEN Nothing
                  ELSE [elem |-> e, event |-> v, running |-> list[i],
                        rest |-> SubSeq(list, i + 1, Len(list))]

(* For the next of the snapshot, the registrations are read again: those   *)
(* of a destroyed element, if the handler has destroyed its own.           *)
HandlerReturns ==
    /\ ~undefined /\ raising.running # None
    /\ IF raising.rest = <<>> \/ raising.elem \in alive
       THEN Raise(raising.elem, raising.event, raising.rest) /\ UNCHANGED undefined
       ELSE undefined' = TRUE /\ UNCHANGED raising
    /\ UNCHANGED <<alive, layout, registrations, sizeChanged, draining, drain, owing>>

Idle == draining /\ raising = Nothing /\ ~undefined

RaiseSizeChanged ==
    /\ Idle /\ drain.queued # <<>>
    /\ LET e == Head(drain.queued).elem
       IN IF e \in alive
          THEN /\ Raise(e, "SizeChanged", handlers[e]["SizeChanged"])
               /\ told' = told \cup {e}
               /\ UNCHANGED undefined
          ELSE /\ undefined' = TRUE
               /\ UNCHANGED <<raising, told>>
    /\ drain' = [drain EXCEPT !.queued = Tail(@)]
    /\ UNCHANGED <<alive, collapsed, empty, registrations, sizeChanged, draining, owing>>

ToUpdate_Arranged == SelectSeq(layoutUpdated, LAMBDA e : e \notin empty)  \* mutant
ToUpdate == layoutUpdated

(* The copy is made after the last SizeChanged handler: who subscribes in  *)
(* one of those is told by this drain, who does so later is not.           *)
CopySubscribers ==
    /\ Idle /\ drain.queued = <<>> /\ ~drain.copied
    /\ drain' = [drain EXCEPT !.copied = TRUE, !.subscribers = ToUpdate]
    /\ owing' = ToSet(layoutUpdated)
    /\ UNCHANGED <<alive, layout, registrations, sizeChanged, draining, raising, undefined>>

Subscribed_Assumed(e) == TRUE          \* mutant: the copy is not checked
Subscribed(e) == e \in ToSet(layoutUpdated)

RaiseLayoutUpdated ==
    /\ Idle /\ drain.copied /\ drain.subscribers # <<>>
    /\ LET e == Head(drain.subscribers)
       IN IF Subscribed(e)
          THEN /\ Raise(e, "LayoutUpdated", handlers[e]["LayoutUpdated"])
               /\ undefined' = (e \notin alive)
               /\ owing' = owing \ {e}
          ELSE UNCHANGED <<raising, undefined, owing>>
    /\ drain' = [drain EXCEPT !.subscribers = Tail(@)]
    /\ UNCHANGED <<alive, layout, registrations, sizeChanged, draining>>

EndDrain ==
    /\ Idle /\ drain.copied /\ drain.subscribers = <<>>
    /\ draining' = FALSE
    /\ drain' = NoDrain
    /\ UNCHANGED <<alive, layout, registrations, sizeChanged, raising, undefined, owing>>

Next ==
    \/ \E e \in Elements, v \in Events : \E h \in Handlers[e][v] : Add(e, v, h) \/ Unregister(e, v, h)
    \/ \E e \in Elements : Destroy(e) \/ SetVisibility(e)
    \/ \E e \in alive : \E moved \in CanMove(e) : Arrange(e, moved)
    \/ HandlerReturns \/ RaiseSizeChanged \/ CopySubscribers \/ RaiseLayoutUpdated \/ EndDrain

Spec == Init /\ [][Next]_vars

-----------------------------------------------------------------------------
(* The elements above e are in every set that has its parent and the       *)
(* parents of its own.                                                     *)
Upwards(S) == \A x \in S : Parent[x] \in S \cup {None}
Ancestor(a, e) == \A S \in SUBSET Elements : Upwards(S) /\ Parent[e] \in S \cup {None} => a \in S

(* A parent hears SizeChanged before its children, unless the parent was   *)
(* queued by an arrange that a handler made, and so waits from before.     *)
ParentFirst ==
    raising.event = "SizeChanged" /\ raising.elem # None =>
        \A i \in DOMAIN drain.queued :
           Ancestor(drain.queued[i].elem, raising.elem) => drain.queued[i].late

(* At rest, the handlers of an element that was visible when it was last   *)
(* arranged were last told the size it has, or it is queued for the pass   *)
(* that comes.                                                             *)
SizeReported ==
    ~draining /\ ~undefined =>
        \A e \in alive \ empty :
           \/ handlers[e]["SizeChanged"] = <<>> \/ e \in told
           \/ \E i \in DOMAIN sizeChanged : sizeChanged[i].elem = e

(* An element is queued once, so it is told once per drain.                *)
QueuedOnce ==
    \A q \in {sizeChanged, drain.queued} :
        \A i, j \in DOMAIN q : q[i].elem = q[j].elem => i = j

(* The subscriber list is exactly the elements that have a handler, each   *)
(* once, and no destroyed one.                                             *)
SubscribersMatch ==
    /\ \A e \in Elements : e \in ToSet(layoutUpdated) <=> e \in alive /\ handlers[e]["LayoutUpdated"] # <<>>
    /\ \A e \in Elements : subscribed[e] <=> e \in ToSet(layoutUpdated)
    /\ IsInjective(layoutUpdated)

(* When a drain ends, everyone who was a subscriber after the last         *)
(* SizeChanged handler, and still is one, has been told.  A drain is never *)
(* started inside another, which would lose its rest or tell it again.     *)
EveryoneUpdated == ~draining /\ ~undefined => owing = {}
DrainNotRestarted ==
    [][draining /\ draining' =>
          /\ Len(drain'.queued) <= Len(drain.queued)
          /\ drain.copied => drain'.copied /\ Len(drain'.subscribers) <= Len(drain.subscribers)]_vars

(* The drain goes to no destroyed element to raise LayoutUpdated; it may   *)
(* only find one in the queue of sizes, or under a handler that destroyed  *)
(* its own.                                                                *)
UpdatedAlive == [][RaiseLayoutUpdated => ~undefined']_vars

(* The queue and the subscriber list hold each element once, and the list  *)
(* exactly those with handlers.                                            *)
ListsMatch == TypeOK /\ QueuedOnce /\ SubscribersMatch

(* The lists are right, and a drain is not restarted inside itself, tells  *)
(* parents first and every subscriber, and goes to none that was destroyed *)
(* for LayoutUpdated.                                                      *)
DrainProtocol == []ListsMatch /\ []ParentFirst /\ []EveryoneUpdated /\ DrainNotRestarted /\ UpdatedAlive
=============================================================================
