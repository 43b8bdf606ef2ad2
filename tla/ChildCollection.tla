--------------------------- MODULE ChildCollection ---------------------------
(***************************************************************************)
(* The children of XAML elements: Vector (phase3/xamlcore/src/collection.h)*)
(* and the hooks by which it keeps the visual tree of its owner            *)
(* (XamlElement, elements.h; Element, layout/src/element.cpp).             *)
(*                                                                         *)
(* A collection lists the children it lays out; visual_parent_ is the way  *)
(* back.  Both change in one call, but a removed child is reported to the  *)
(* focus scope of its island between the two, and the handlers of          *)
(* CaptureLost and LostFocus are user code that may change any collection. *)
(***************************************************************************)
EXTENDS Integers, Sequences, FiniteSets

CONSTANTS Elements,
          Panels,    \* the elements that have children
          Hosted,    \* the roots of islands
          None,
          MaxDepth   \* bound: calls nested in one another

ASSUME ElementsAssumption == Hosted \subseteq Panels /\ Panels \subseteq Elements
ASSUME NoneAssumption == None \notin Elements
ASSUME BoundAssumption == MaxDepth \in Nat

VARIABLES
    entries,      \* per panel: entries_, and projected_ with it
    parent,       \* per element: visual_parent_
    pending,      \* per panel: pending_detached_roots_, by element
    refs,         \* per element: references of collections and their calls
    stack,        \* calls inside Removed, innermost first
    interrupted,  \* history: a handler of SetAt's changed a collection
    undefined     \* an iterator of pending was used after its erasure

Seqs == INSTANCE SequencesExt

vars == <<entries, parent, pending, refs, stack, interrupted, undefined>>

(* A call that is reporting the first of list removed; user: in a handler, *)
(* found: it holds the iterator of the pending entry.                      *)
Calls == [owner : Panels, list : Seq(Elements), added : Elements \cup {None},
          removed : Seq(Elements), found : BOOLEAN, user : BOOLEAN]

TypeOK ==
    /\ entries \in [Panels -> Seq(Elements)]
    /\ parent \in [Elements -> Panels \cup {None}]
    /\ pending \in [Panels -> [Elements -> Elements \cup {None}]]
    /\ refs \in [Elements -> Nat]
    /\ stack \in Seq(Calls)
    /\ interrupted \in BOOLEAN /\ undefined \in BOOLEAN

Init ==
    /\ entries = [p \in Panels |-> <<>>]
    /\ parent = [e \in Elements |-> None]
    /\ pending = [p \in Panels |-> [e \in Elements |-> None]]
    /\ refs = [e \in Elements |-> 0]
    /\ stack = <<>>
    /\ interrupted = FALSE /\ undefined = FALSE

-----------------------------------------------------------------------------
(* The tree.                                                               *)
Upward(S) == \A x \in S : parent[x] \in S \cup {None}
Ancestors(e) ==                        \* e and what is above it
    {x \in Elements : \A S \in SUBSET Elements : e \in S /\ Upward(S) => x \in S}

IsRoot(e) == parent[e] = None
VisualRoot(e) == CHOOSE r \in Ancestors(e) : IsRoot(r)

CanAttachVisualChild_NoWalk(p, e) ==   \* mutant: ancestors are not searched
    parent[e] \in {None, p} /\ (parent[e] # p => e \notin Hosted)
CanAttachVisualChild(p, e) ==
    /\ parent[e] \in {None, p}
    /\ parent[e] # p => e \notin Hosted
    /\ e \notin Ancestors(p)

Attached(p, e) ==
    IF e # None /\ CanAttachVisualChild(p, e) THEN [parent EXCEPT ![e] = p] ELSE parent

Detached_Last(p, list) ==              \* mutant: Clear detaches one child
    [parent EXCEPT ![Seqs!Last(list)] = None]
Detached(p, list) ==
    [e \in Elements |-> IF e \in Seqs!ToSet(list) /\ parent[e] = p THEN None ELSE parent[e]]

-----------------------------------------------------------------------------
(* The collection.                                                         *)
Contains_Not(p, e) == FALSE            \* mutant
Contains(p, e) == e \in Seqs!ToSet(entries[p])

Adopt_Borrowed(e) == refs              \* mutant: no AddRef
Adopt(e) == IF e = None THEN refs ELSE [refs EXCEPT ![e] = @ + 1]

Release_None(removed) == refs          \* mutant: the reference is kept
Release(removed) ==
    [e \in Elements |-> IF e \in Seqs!ToSet(removed) THEN refs[e] - 1 ELSE refs[e]]

InUserCode ==
    /\ ~undefined
    /\ Len(stack) < MaxDepth
    /\ stack # <<>> => Head(stack).user

(* A handler of SetAt's runs the operation.                                *)
Interrupts == interrupted \/ \E i \in DOMAIN stack : stack[i].added # None

(* Removed of the first of list: what is found in the pending roots.       *)
Reporting(p, list, added, removed, roots) ==
    LET root == roots[p][Head(list)]
    IN  [owner |-> p, list |-> list, added |-> added, removed |-> removed,
         found |-> root # None, user |-> root \in Hosted]

(* Validate, Adopt, Removing, the change of the list and its projection,   *)
(* up to the first Removed.                                                *)
Replace(p, list, new, added) ==
    /\ parent' = Detached(p, list)
    /\ entries' = [entries EXCEPT ![p] = new]
    /\ refs' = Adopt(added)
    /\ pending' = [pending EXCEPT ![p] = [e \in Elements |->
                      IF e \in Seqs!ToSet(list) THEN VisualRoot(e) ELSE @[e]]]
    /\ stack' = <<Reporting(p, list, added, list, pending')>> \o stack
    /\ interrupted' = Interrupts
    /\ UNCHANGED undefined

(* Append is InsertAt past the end, RemoveAtEnd is RemoveAt of the last.   *)
InsertAt(p, i, e) ==
    /\ InUserCode
    /\ ~Contains(p, e)
    /\ CanAttachVisualChild(p, e)
    /\ entries' = [entries EXCEPT ![p] = Seqs!InsertAt(@, i, e)]
    /\ refs' = Adopt(e)
    /\ parent' = Attached(p, e)
    /\ interrupted' = Interrupts
    /\ UNCHANGED <<pending, stack, undefined>>

SetAt(p, i, e) ==
    /\ InUserCode
    /\ ~Contains(p, e)
    /\ CanAttachVisualChild(p, e)
    /\ Replace(p, <<entries[p][i]>>, [entries[p] EXCEPT ![i] = e], e)

RemoveAt(p, i) ==
    /\ InUserCode
    /\ Replace(p, <<entries[p][i]>>, Seqs!RemoveAt(entries[p], i), None)

Clear(p) ==
    /\ InUserCode
    /\ entries[p] # <<>>
    /\ Replace(p, entries[p], <<>>, None)

-----------------------------------------------------------------------------
(* The handlers have returned: the pending root is erased, then the next   *)
(* child is reported, or Changed attaches the one that was added.          *)
Reported_IfDetached(f) ==              \* mutant: not for a child put back
    f.found /\ parent[Head(f.list)] = None
Reported(f) == f.found

Return ==
    /\ stack # <<>> /\ ~undefined
    /\ LET f == Head(stack)  rest == Tail(stack)  e == Head(f.list)
           roots == [pending EXCEPT ![f.owner][e] = IF Reported(f) THEN None ELSE @]
       IN
       \/ /\ f.found /\ pending[f.owner][e] = None  \* another call erased it
          /\ undefined' = TRUE
          /\ UNCHANGED <<entries, parent, pending, refs, stack>>
       \/ /\ f.found => pending[f.owner][e] # None
          /\ Len(f.list) > 1
          /\ pending' = roots
          /\ stack' = <<Reporting(f.owner, Tail(f.list), f.added, f.removed, roots)>> \o rest
          /\ UNCHANGED <<entries, parent, refs, undefined>>
       \/ /\ f.found => pending[f.owner][e] # None
          /\ Len(f.list) = 1
          /\ pending' = roots
          /\ parent' = Attached(f.owner, f.added)
          /\ refs' = Release(f.removed)
          /\ stack' = rest
          /\ UNCHANGED <<entries, undefined>>
    /\ UNCHANGED interrupted

Next ==
    \/ \E p \in Panels, e \in Elements : \E i \in 1..Len(entries[p]) + 1 : InsertAt(p, i, e)
    \/ \E p \in Panels, e \in Elements : \E i \in DOMAIN entries[p] : SetAt(p, i, e)
    \/ \E p \in Panels : \E i \in DOMAIN entries[p] : RemoveAt(p, i)
    \/ \E p \in Panels : Clear(p)
    \/ Return

Spec == Init /\ [][Next]_vars

-----------------------------------------------------------------------------
(* The child a call has listed and not attached yet.                       *)
Incoming(p) == {stack[i].added : i \in {j \in DOMAIN stack : stack[j].owner = p}}

(* A panel lists exactly the children whose visual parent it is, at every  *)
(* moment a handler can look, but for the one SetAt is about to attach;    *)
(* unless a handler of SetAt's has changed a collection (ChangedAttaches). *)
ListedIsAttached ==
    ~interrupted /\ ~undefined =>
        \A p \in Panels, e \in Elements :
            Contains(p, e) <=> (parent[e] = p \/ e \in Incoming(p))

(* "An element cannot have two visual parents or form a cycle" (Adopt,     *)
(* element.cpp), whatever handlers do.                                     *)
Acyclic == \A e \in Elements : \E r \in Ancestors(e) : IsRoot(r)

(* No collection lists an element twice, whatever handlers do: layout      *)
(* would arrange it twice.                                                 *)
ListedOnce == \A p \in Panels : Cardinality(Seqs!ToSet(entries[p])) = Len(entries[p])

(* An element has one reference for each collection that lists it and for  *)
(* each call that has still to report it removed.                          *)
RefsBalanced ==
    \A e \in Elements :
        refs[e] = Cardinality({p \in Panels : Contains(p, e)})
                  + Cardinality({i \in DOMAIN stack : e \in Seqs!ToSet(stack[i].removed)})

(* Every removal has been reported once no call is under way: no root is   *)
(* remembered for a child that may since have moved to another island.     *)
AllReported ==
    stack = <<>> => \A p \in Panels, e \in Elements : pending[p][e] = None

(* A removal, however nested, gives back what it took.                     *)
RemovalProtocol == RefsBalanced /\ AllReported

(* "Validation ran before the collection changed.  Failure here can only   *)
(* mean an internal ordering bug" (OnOwnedCollectionChanged): what SetAt   *)
(* has listed it attaches.                                                 *)
ChangedAttaches ==
    [][Len(stack') < Len(stack) /\ Head(stack).added # None
       => parent'[Head(stack).added] = Head(stack).owner]_vars

(* The children the panels list are their visual children, each once, and  *)
(* the tree has no cycle.                                                  *)
ListsAreTheTree == TypeOK /\ ListedIsAttached /\ ListedOnce /\ Acyclic
=============================================================================
