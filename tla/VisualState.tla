---------------------------- MODULE VisualState ----------------------------
(***************************************************************************)
(* VisualStateManager, VisualStateGroup and Storyboard (phase3/layout/src/ *)
(* visual_state.cpp): a group is in one state at a time, and leaving and   *)
(* entering a state clears and writes animated values of the store one by  *)
(* one, each announced to observers that may change the state again.       *)
(***************************************************************************)
EXTENDS PropertyStore

CONSTANTS Groups,       \* groups_, in the order of their names
          States,       \* VisualState: [group, setters, timelines], where a
                        \* setter or timeline is [cell, to] of an animated cell
          NoState

Lines(s) == s.setters \o s.timelines
CellsOf(s) == {l.cell : l \in ToSet(Lines(s))}

(* Two groups do not animate the same property: the one slot they would    *)
(* share is cleared by whichever leaves its state first.                   *)
ASSUME StateAssumption ==
    /\ NoState \notin States
    /\ \A s \in States : /\ s.setters \in Seq([cell : Cells, to : Values])
                        /\ s.timelines \in Seq([cell : Cells, to : Values])
    /\ \A s \in States : s.group \in Groups /\ CellsOf(s) \subseteq {c \in Cells : c[3] = "animated"}
    /\ \A s, t \in States : CellsOf(s) \cap CellsOf(t) # {} => s.group = t.group

VARIABLES
    current,      \* per group: current_
    base,         \* per state and cell: Storyboard::base_values_, or Unset
    overlapped    \* history: groups that changed state inside a change of state

visualVars == <<current, base, overlapped>>
vvars == <<vars, visualVars>>

(* What a change of state still has to do, one write or clear at a time.   *)
Leaving(s, next, list)  == [kind |-> "leaving", state |-> s, next |-> next, list |-> list]
Stopping(s, next, list) == [kind |-> "stopping", state |-> s, next |-> next, list |-> list]
Entering(s, list)       == [kind |-> "entering", state |-> s, list |-> list]
Sampling(s, list, done) == [kind |-> "sampling", state |-> s, list |-> list, done |-> done]

VTypeOK ==
    /\ value \in [Cells -> Values \cup {Unset}]
    /\ current \in [Groups -> States \cup {NoState}]
    /\ \A g \in Groups : current[g] # NoState => current[g].group = g
    /\ \A s \in States : base[s] \in [CellsOf(s) -> Values \cup {Unset}]
    /\ overlapped \subseteq Groups

VInit ==
    /\ current = [g \in Groups |-> NoState]
    /\ base = [s \in States |-> [c \in CellsOf(s) |-> Unset]]
    /\ overlapped = {}

Doing(kind) == stack # <<>> /\ Head(stack).kind = kind
Changing(g) == \E i \in DOMAIN stack :
    stack[i].kind \in {"leaving", "stopping", "entering", "sampling"} /\ stack[i].state.group = g

-----------------------------------------------------------------------------
(* GoToState: nothing when the state is current; otherwise Clear, which    *)
(* ends by forgetting the state, then current_, the setters, the timelines.*)
Undo(s) == [i \in DOMAIN s.setters |-> s.setters[i].cell]

Stopped_None(s) == <<>>                \* mutant: the timelines' values stay
Stopped(s) == [i \in DOMAIN s.timelines |-> s.timelines[i].cell]

Enter_First(s) == [current EXCEPT ![CHOOSE g \in Groups : TRUE] = s]  \* mutant: the first group
Enter(s) == [current EXCEPT ![s.group] = s]

GoToState(s) ==
    /\ InUserCode /\ current[s.group] # s
    /\ overlapped' = IF Changing(s.group) THEN overlapped \cup {s.group} ELSE overlapped
    /\ IF current[s.group] # NoState
       THEN stack' = <<Leaving(current[s.group], s, Undo(current[s.group]))>> \o stack /\ UNCHANGED current
       ELSE /\ current' = Enter(s)
            /\ stack' = <<Entering(s, s.setters)>> \o stack
    /\ UNCHANGED <<storeVars, base>>

(* Clear: each setter's animated value, then those of the timelines of the *)
(* state that is current by now (an observer may have changed it); the     *)
(* bases of that storyboard are forgotten only after the last.             *)
Forgotten_Kept(s) == base              \* mutant: base_values_ is not cleared
Forgotten(s) == [base EXCEPT ![s] = [c \in CellsOf(s) |-> Unset]]

ClearNext ==
    /\ Doing("leaving") \/ Doing("stopping")
    /\ Head(stack).list # <<>>
    /\ LET f == Head(stack)
           rest == <<[f EXCEPT !.list = Tail(@)]>> \o Tail(stack)
           c == Head(f.list)
       IN IF value[c] # Unset THEN ClearSlot(c, rest)
          ELSE stack' = rest /\ UNCHANGED storeVars
    /\ UNCHANGED visualVars

StopStoryboard ==
    /\ Doing("leaving") /\ Head(stack).list = <<>>
    /\ LET f == Head(stack)
           now == current[f.state.group]
       IN /\ now # NoState        \* dereferenced: no change ends without a state
          /\ stack' = <<Stopping(now, f.next, Stopped(now))>> \o Tail(stack)
    /\ UNCHANGED <<storeVars, visualVars>>

Left ==
    /\ Doing("stopping") /\ Head(stack).list = <<>>
    /\ LET f == Head(stack)
       IN /\ base' = Forgotten(f.state)
          /\ current' = Enter(f.next)
          /\ stack' = <<Entering(f.next, f.next.setters)>> \o Tail(stack)
    /\ UNCHANGED <<storeVars, overlapped>>

ApplySetter ==
    /\ Doing("entering") /\ Head(stack).list # <<>>
    /\ LET f == Head(stack)
           l == Head(f.list)
       IN SetSlot(l.cell, l.to, <<[f EXCEPT !.list = Tail(@)]>> \o Tail(stack))
    /\ UNCHANGED visualVars

Entered ==
    /\ Doing("entering") /\ Head(stack).list = <<>>
    /\ stack' = <<Sampling(Head(stack).state, Head(stack).state.timelines, TRUE)>> \o Tail(stack)
    /\ UNCHANGED <<storeVars, visualVars>>

(* Storyboard::Sample: a discrete timeline holds the base value, the one   *)
(* the property had when it was first sampled, until it is done.           *)
SampleNext ==
    /\ Doing("sampling") /\ Head(stack).list # <<>>
    /\ LET f == Head(stack)
           l == Head(f.list)
           from == IF base[f.state][l.cell] # Unset THEN base[f.state][l.cell]
                   ELSE Effective(l.cell[1], l.cell[2])
       IN /\ base' = [base EXCEPT ![f.state][l.cell] = from]
          /\ SetSlot(l.cell, IF f.done THEN l.to ELSE from,
                     <<[f EXCEPT !.list = Tail(@)]>> \o Tail(stack))
    /\ UNCHANGED <<current, overlapped>>

Sampled ==
    /\ Doing("sampling") /\ Head(stack).list = <<>>
    /\ stack' = Tail(stack)
    /\ UNCHANGED <<storeVars, visualVars>>

SampleCurrent(g, done) ==
    /\ InUserCode /\ current[g] # NoState
    /\ stack' = <<Sampling(current[g], current[g].timelines, done)>> \o stack
    /\ overlapped' = IF Changing(g) THEN overlapped \cup {g} ELSE overlapped
    /\ UNCHANGED <<storeVars, current, base>>

(* Local values of the properties the states animate.                      *)
WriteLocal ==
    \E c \in {d \in Cells : d[3] = "local"}, v \in Values : Set(c, v) /\ UNCHANGED visualVars

VNext ==
    \/ \E s \in States : GoToState(s)
    \/ \E g \in Groups, done \in BOOLEAN : SampleCurrent(g, done)
    \/ ClearNext \/ StopStoryboard \/ Left \/ ApplySetter \/ Entered \/ SampleNext \/ Sampled \/ WriteLocal
    \/ (Announce \/ Return) /\ UNCHANGED visualVars
VSpec == Init /\ VInit /\ [][VNext]_vvars

-----------------------------------------------------------------------------
IsLast(s, c, i) ==
    /\ i \in DOMAIN Lines(s) /\ Lines(s)[i].cell = c
    /\ \A j \in DOMAIN Lines(s) : j > i => Lines(s)[j].cell # c
FinalValue(s, c) == Lines(s)[CHOOSE i \in DOMAIN Lines(s) : IsLast(s, c, i)].to

(* At rest, an animated value of a group that never changed state inside   *)
(* one of its own changes comes from the state the group is in: a setter's *)
(* value, or a timeline's, or the base the timeline holds.                 *)
AnimatedByCurrent ==
    stack = <<>> =>
        \A g \in Groups \ overlapped, s \in States, c \in Cells :
           s.group = g /\ c \in CellsOf(s) =>
              IF current[g] # NoState /\ c \in CellsOf(current[g])
              THEN value[c] \in {FinalValue(current[g], c), base[current[g]][c]} \ {Unset}
              ELSE value[c] = Unset

(* Only the state a group is in remembers base values: entered again, a    *)
(* storyboard samples the property afresh.                                 *)
BaseOfCurrent ==
    stack = <<>> =>
        \A s \in States : s.group \notin overlapped /\ current[s.group] # s
            => base[s] = [c \in CellsOf(s) |-> Unset]

(* The animated and base values are those of the groups' current states.   *)
StateApplied == VTypeOK /\ AnimatedByCurrent /\ BaseOfCurrent
=============================================================================
