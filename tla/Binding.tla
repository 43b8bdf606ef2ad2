------------------------------ MODULE Binding ------------------------------
(***************************************************************************)
(* BindingExpression and PropertyBag (phase3/layout/src/binding.cpp): one  *)
(* expression between one property of a DependencyObject and one path of   *)
(* an observable source.  The source's handlers and the target's observers *)
(* are user code, except for the two the expression itself registers, and  *)
(* run inside the transfer that writes the other side; updating_ drops the *)
(* echo of that write, and with it any other change made meanwhile.        *)
(***************************************************************************)
EXTENDS PropertyStore

CONSTANTS Target,          \* the bound cell: <<object, property, "local">>
          TargetHandler    \* the expression's handler on the target

Modes == {"OneTime", "OneWay", "TwoWay", "OneWayToSource"}
ListensToSource_OneWay == {"OneWay"}   \* mutant: TwoWay is forgotten
ListensToSource == {"OneWay", "TwoWay"}
ListensToTarget == {"TwoWay", "OneWayToSource"}
FromSource == {"OneTime", "OneWay", "TwoWay"}
Listener == "user"         \* a handler of the source that is user code

ASSUME BindingAssumption ==
    /\ Target \in Cells /\ Target[3] = "local"
    /\ TargetHandler \in Internal /\ TargetHandler.at = Target[1] /\ TargetHandler.of = Whole

VARIABLES
    source,        \* PropertyBag::values_ at the path, Unset when absent
    listeners,     \* ObservableObject::handlers_, in the order of tokens
    mode,          \* "none" before the constructor
    fallback,      \* Binding::fallback_value, or Unset
    attached,      \* is_attached
    updating,      \* updating
    dropped        \* history: a change was made while updating, or lost to
                   \* an exception, or written below an animated value

expression == <<listeners, mode, fallback, attached>>
bindingVars == <<source, listeners, mode, fallback, attached, updating, dropped>>
bvars == <<vars, bindingVars>>

Notifying(who, rest) == [kind |-> "source", who |-> who, rest |-> rest]
Transfer == [kind |-> "transfer"]
Constructing == [kind |-> "constructing"]

BTypeOK ==
    /\ value \in [Cells -> Values \cup {Unset}]
    /\ source \in Values \cup {Unset} /\ fallback \in Values \cup {Unset}
    /\ ToSet(listeners) \subseteq {"expression", Listener}
    /\ mode \in Modes \cup {"none"}
    /\ attached \in BOOLEAN /\ updating \in BOOLEAN /\ dropped \in BOOLEAN
    /\ attached => /\ "expression" \in ToSet(listeners) <=> mode \in {"OneWay", "TwoWay"}
                   /\ TargetHandler \in ToSet(registered) <=> mode \in {"TwoWay", "OneWayToSource"}

BInit ==
    /\ source \in Values /\ listeners = <<>>
    /\ mode = "none" /\ fallback = Unset
    /\ attached = FALSE /\ updating = FALSE /\ dropped = FALSE

Has(kind) == \E i \in DOMAIN stack : stack[i].kind = kind
Top(kind) == stack # <<>> /\ Head(stack).kind = kind
BInUserCode ==
    /\ Len(stack) < MaxDepth
    /\ stack # <<>> => \/ Head(stack).kind = "telling" /\ Head(stack).who \notin Internal \cup {NoObserver}
                       \/ Head(stack).kind = "source" /\ Head(stack).who = Listener

TargetValue_AsTold ==                  \* mutant: what the handler was told
    IF Top("telling") THEN Head(stack).after ELSE Effective(Target[1], Target[2])
TargetValue == Effective(Target[1], Target[2])

(* An exception leaves through every call in progress: a transfer resets   *)
(* updating, and a constructor destroys the expression it was making.      *)
Caught_Not(u) == u                     \* mutant: no catch
Caught(u) == FALSE
Unwind ==
    /\ stack' = <<>> /\ owed' = {}
    /\ updating' = Caught(updating)
    /\ attached' = (attached /\ ~Has("constructing"))
    /\ dropped' = (dropped \/ Has("transfer") \/ Has("source") \/ Has("telling") \/ Has("moved"))
    /\ UNCHANGED <<value, up, registered, spent, seen, source, listeners, mode, fallback>>

-----------------------------------------------------------------------------
(* PropertyBag::Set, which tells the handlers only of a real change.       *)
Live(hs) == hs \cap ToSet(listeners)
Foremost(hs) == CHOOSE h \in hs : \A g \in hs \ {h} :
                   \E i \in DOMAIN listeners : listeners[i] = h /\ \A j \in 1 .. i : listeners[j] # g
Tell(hs) == IF hs = {} THEN <<>> ELSE <<Notifying(Foremost(hs), hs \ {Foremost(hs)})>>

SetSource(v, rest) ==
    IF source = v THEN stack' = rest /\ UNCHANGED source
    ELSE source' = v /\ stack' = Tell(ToSet(listeners)) \o rest

BagSet(v) ==
    /\ BInUserCode /\ SetSource(v, stack)
    /\ dropped' = (dropped \/ (Has("transfer") /\ source # v))
    /\ UNCHANGED <<storeVars, expression, updating>>

BagRemove ==
    /\ BInUserCode /\ source # Unset
    /\ source' = Unset /\ stack' = Tell(ToSet(listeners)) \o stack
    /\ dropped' = (dropped \/ Has("transfer"))
    /\ UNCHANGED <<storeVars, expression, updating>>

-----------------------------------------------------------------------------
(* TargetFromSource and SourceFromTarget.                                  *)
Blocked_Detached == ~attached          \* mutant: updating is not read
Blocked == ~attached \/ updating

TargetFromSource(rest) ==
    LET v == IF source = Unset THEN fallback ELSE source
    IN IF Blocked
       THEN /\ stack' = rest
            /\ UNCHANGED <<storeVars, bindingVars>>
       ELSE IF v = Unset THEN Unwind
       ELSE /\ SetSlot(Target, v, <<Transfer>> \o rest)
            /\ updating' = TRUE
            /\ dropped' = (OwnValue(value', Target[1], Target[2]) # v)
            /\ UNCHANGED <<source, expression>>

SourceFromTarget(rest) ==
    IF Blocked
    THEN /\ stack' = rest
         /\ UNCHANGED <<storeVars, bindingVars>>
    ELSE /\ SetSource(TargetValue, <<Transfer>> \o rest)
         /\ updating' = TRUE /\ dropped' = FALSE
         /\ UNCHANGED <<storeVars, expression>>

EndTransfer ==
    /\ Top("transfer")
    /\ updating' = FALSE
    /\ stack' = Tail(stack)
    /\ UNCHANGED <<storeVars, source, expression, dropped>>

(* A handler of the source returns: the next one still registered.         *)
ListenerReturns ==
    /\ Top("source") /\ Head(stack).who = Listener
    /\ stack' = Tell(Live(Head(stack).rest)) \o Tail(stack)
    /\ UNCHANGED <<storeVars, bindingVars>>

SourceHandlerRuns ==
    /\ Top("source") /\ Head(stack).who = "expression"
    /\ TargetFromSource(Tell(Live(Head(stack).rest)) \o Tail(stack))

TargetHandlerRuns ==
    /\ Top("telling") /\ Head(stack).who = TargetHandler
    /\ LET f == Head(stack)
           after == <<[f EXCEPT !.who = NoObserver]>> \o Tail(stack)
       IN IF f.prop = Target[2] THEN SourceFromTarget(after)
          ELSE /\ stack' = after
               /\ UNCHANGED <<storeVars, bindingVars>>

-----------------------------------------------------------------------------
(* The constructor registers what the mode needs and makes the first       *)
(* transfer; one expression per run, made at rest.                         *)
Construct(m, fb) ==
    /\ stack = <<>> /\ mode = "none"
    /\ mode' = m /\ fallback' = fb /\ attached' = TRUE
    /\ listeners' = IF m \in ListensToSource THEN Append(listeners, "expression") ELSE listeners
    /\ IF m \in ListensToTarget
       THEN registered' = Append(registered, TargetHandler) /\ spent' = spent \cup {TargetHandler}
       ELSE UNCHANGED <<registered, spent>>
    /\ stack' = <<Constructing>> \o stack
    /\ UNCHANGED <<value, up, seen, owed, source, updating, dropped>>

(* The frame stays until the transfer is over; "made" marks that it began. *)
Made == [kind |-> "constructing", made |-> TRUE]
FirstTransfer ==
    /\ stack # <<>> /\ Head(stack) = Constructing
    /\ IF mode \in FromSource THEN TargetFromSource(<<Made>> \o Tail(stack))
       ELSE SourceFromTarget(<<Made>> \o Tail(stack))

Constructed ==
    /\ stack # <<>> /\ Head(stack) = Made
    /\ stack' = Tail(stack)
    /\ UNCHANGED <<storeVars, bindingVars>>

UpdateTarget == BInUserCode /\ mode # "none" /\ ~Has("constructing") /\ TargetFromSource(stack)
UpdateSource == BInUserCode /\ mode # "none" /\ ~Has("constructing") /\ SourceFromTarget(stack)

(* Detach, also from the destructor and from move assignment.              *)
Detach ==
    /\ BInUserCode /\ attached /\ ~Has("constructing")
    /\ attached' = FALSE
    /\ listeners' = RemoveFirst(listeners, "expression")
    /\ Forget(TargetHandler)
    /\ UNCHANGED <<source, mode, fallback, updating, dropped>>

AddListener ==
    /\ BInUserCode /\ Listener \notin ToSet(listeners) /\ stack = <<>>
    /\ listeners' = Append(listeners, Listener)
    /\ UNCHANGED <<vars, source, mode, fallback, attached, updating, dropped>>

(* The target's own operations, by anyone.                                 *)
TargetCells == {c \in Cells : c[1] = Target[1]}
WriteTarget ==
    \E c \in TargetCells :
       /\ BInUserCode
       /\ \/ \E v \in Values : SetSlot(c, v, stack)
          \/ value[c] # Unset /\ ClearSlot(c, stack)
       /\ dropped' = (dropped \/ Has("transfer"))
       /\ UNCHANGED <<source, expression, updating>>

BThrow == (Top("telling") \/ Top("source")) /\ BInUserCode /\ Unwind

BNext ==
    \/ \E v \in Values : BagSet(v)
    \/ BagRemove \/ WriteTarget \/ UpdateTarget \/ UpdateSource \/ Detach \/ AddListener
    \/ \E m \in Modes, fb \in {Default, Unset} : Construct(m, fb)
    \/ FirstTransfer \/ Constructed \/ EndTransfer
    \/ SourceHandlerRuns \/ TargetHandlerRuns \/ ListenerReturns \/ BThrow
    \/ (Announce \/ Return) /\ UNCHANGED bindingVars
BSpec == Init /\ BInit /\ [][BNext]_bvars

-----------------------------------------------------------------------------
(* Transfers do not nest: a change that a transfer makes is never copied   *)
(* back by the other direction.                                            *)
OneTransfer ==
    \A i, j \in DOMAIN stack : stack[i].kind = "transfer" /\ stack[j].kind = "transfer" => i = j

(* updating is set only while a transfer is in progress: after a handler   *)
(* threw, the expression still works.                                      *)
UpdatingEnds == updating <=> Has("transfer")

(* At rest, the two sides of an attached TwoWay binding agree, unless the  *)
(* last transfer was written below an animated value, or a change was made *)
(* by an observer while it ran or lost to an exception.                    *)
SidesAgree ==
    stack = <<>> /\ attached /\ mode = "TwoWay" /\ ~dropped
    => TargetValue = IF source = Unset THEN fallback ELSE source

(* updating covers the one transfer in progress and ends with it, and what *)
(* it drops is all that can leave the two sides apart.                     *)
TransferProtocol == BTypeOK /\ OneTransfer /\ UpdatingEnds /\ SidesAgree
=============================================================================
