----------------------- MODULE ChildCollection_proofs ------------------------
(***************************************************************************)
(* The children of XAML elements, for any elements and panels, and for     *)
(* handlers that change collections at any depth: a panel lists the        *)
(* children whose visual parent it is, each once, the visual tree has no   *)
(* cycle, and a removal, however nested, gives back what it took.          *)
(***************************************************************************)
EXTENDS ChildCollection, FiniteSetTheorems, TLAPS

(* The panels that list e, and the calls that have still to report it.     *)
Listing(e)      == {p \in Panels : Contains(p, e)}
Removing(st, e) == {i \in DOMAIN st : e \in Seqs!ToSet(st[i].removed)}

(* Each collection is a list without repetitions.                          *)
Unrepeated(s) == \A i, j \in DOMAIN s : s[i] = s[j] => i = j
Distinct == \A p \in Panels : Unrepeated(entries[p])

(* RefsBalanced, and that it counts finite sets.                           *)
Counted ==
    \A e \in Elements :
        /\ IsFiniteSet(Listing(e))
        /\ refs[e] = Cardinality(Listing(e)) + Cardinality(Removing(stack, e))

(* A remembered root waits for the call that will erase it.                *)
Erases(f, p, e) ==
    /\ f.owner = p
    /\ \/ f.found /\ f.list # <<>> /\ e = Head(f.list)
       \/ \E j \in DOMAIN f.list : j > 1 /\ e = f.list[j]
WillErase(st, p, e) == \E i \in DOMAIN st : Erases(st[i], p, e)
Covered == \A p \in Panels, e \in Elements : pending[p][e] # None => WillErase(stack, p, e)

(* No elements are each below another one of them.                         *)
NoCycle == \A S \in SUBSET Elements : S # {} => \E x \in S : parent[x] \notin S

(* Unless a handler of SetAt's has changed a collection, only the innermost*)
(* call has a child to attach, and nothing has come in its way.            *)
Attachable(f) ==
    f.added # None => /\ parent[f.added] = None /\ f.added \notin Hosted
                      /\ f.added \notin Ancestors(f.owner)
Added(st) == {i \in DOMAIN st : st[i].added # None}
Awaited ==
    ~interrupted /\ ~undefined =>
        /\ Added(stack) \subseteq {1}
        /\ stack # <<>> => Attachable(Head(stack))

CollectionInv ==
    TypeOK /\ Distinct /\ Counted /\ Covered /\ NoCycle /\ Awaited /\ ListedIsAttached

-----------------------------------------------------------------------------
LEMMA PushCall ==
  ASSUME NEW st \in Seq(Calls), NEW f \in Calls
  PROVE  /\ <<f>> \o st \in Seq(Calls) /\ <<f>> \o st # <<>> /\ Head(<<f>> \o st) = f
         /\ \A p, e : WillErase(<<f>> \o st, p, e) <=> Erases(f, p, e) \/ WillErase(st, p, e)
         /\ Added(st) = {} => Added(<<f>> \o st) \subseteq {1}
         /\ f.added = None /\ Added(st) = {} => Added(<<f>> \o st) = {}
<1> DEFINE new == <<f>> \o st
<1>1. /\ new \in Seq(Calls) /\ new # <<>> /\ Head(new) = f
      /\ Len(new) = Len(st) + 1 /\ Len(st) \in Nat /\ new[1] = f
      /\ \A i \in 1..Len(st) : new[i + 1] = st[i]
      /\ DOMAIN st = 1..Len(st) /\ DOMAIN new = 1..(Len(st) + 1)
  OBVIOUS
<1>2. \A i \in DOMAIN new : i # 1 => i - 1 \in DOMAIN st /\ new[i] = st[i - 1]
  BY <1>1
<1>3. \A i \in DOMAIN st : i + 1 \in DOMAIN new /\ new[i + 1] = st[i]
  BY <1>1
<1>4. 1 \in DOMAIN new
  BY <1>1
<1> HIDE DEF new
<1>5. \A p, e : WillErase(new, p, e) <=> Erases(f, p, e) \/ WillErase(st, p, e)
  BY <1>1, <1>2, <1>3, <1>4 DEF WillErase
<1>6. Added(st) = {} => Added(new) \subseteq {1}
  BY <1>2 DEF Added
<1>7. f.added = None /\ Added(st) = {} => Added(new) = {}
  BY <1>1, <1>2 DEF Added
<1> QED
  BY <1>1, <1>5, <1>6, <1>7 DEF new

LEMMA PopCall ==
  ASSUME NEW st \in Seq(Calls), st # <<>>
  PROVE  /\ Head(st) \in Calls /\ Tail(st) \in Seq(Calls)
         /\ st = <<Head(st)>> \o Tail(st)
         /\ Added(st) \subseteq {1} => Added(Tail(st)) = {}
         /\ Head(st).added # None => Added(st) # {}
<1>1. Head(st) \in Calls /\ Tail(st) \in Seq(Calls) /\ st = <<Head(st)>> \o Tail(st)
  OBVIOUS
<1>2. /\ DOMAIN st = 1..Len(st) /\ DOMAIN Tail(st) = 1..(Len(st) - 1) /\ Len(st) \in Nat
      /\ \A i \in 1..(Len(st) - 1) : Tail(st)[i] = st[i + 1]
      /\ Head(st) = st[1] /\ Len(st) >= 1
  OBVIOUS
<1>3. Added(st) \subseteq {1} => Added(Tail(st)) = {}
  <2> SUFFICES ASSUME NEW i \in Added(Tail(st)) PROVE i + 1 \in Added(st) /\ i + 1 # 1
    OBVIOUS
  <2> QED
    BY <1>2 DEF Added
<1>4. Head(st).added # None => 1 \in Added(st)
  BY <1>2 DEF Added
<1> QED
  BY <1>1, <1>3, <1>4

(* What a call on top adds to the elements being removed.                  *)
LEMMA RemovingGrows ==
  ASSUME NEW st \in Seq(Calls), NEW f \in Calls, NEW e
  PROVE  /\ Cardinality(Removing(st, e)) \in Nat
         /\ Cardinality(Removing(<<f>> \o st, e)) =
                Cardinality(Removing(st, e)) + IF e \in Seqs!ToSet(f.removed) THEN 1 ELSE 0
<1> DEFINE new == <<f>> \o st
           old == Removing(st, e)
           up  == {i + 1 : i \in old}
<1>1. /\ Len(new) = Len(st) + 1 /\ Len(st) \in Nat /\ new[1] = f
      /\ \A i \in 1..Len(st) : new[i + 1] = st[i]
      /\ DOMAIN st = 1..Len(st) /\ DOMAIN new = 1..(Len(st) + 1)
  OBVIOUS
<1> HIDE DEF new
<1>2. IsFiniteSet(old)
  <2>1. IsFiniteSet(1..Len(st))
    BY <1>1, FS_Interval
  <2>2. old \in SUBSET (1..Len(st))
    BY <1>1 DEF Removing
  <2> QED
    BY <2>1, <2>2, FS_Subset
<1>3. ExistsBijection(old, up)
  <2> DEFINE g == [i \in old |-> i + 1]
  <2>1. old \subseteq Nat
    BY <1>1 DEF Removing
  <2>2. g \in Bijection(old, up)
    BY <2>1 DEF Bijection, Injection, IsInjective, Surjection
  <2> QED
    BY <2>2 DEF ExistsBijection
<1>4. IsFiniteSet(up) /\ Cardinality(up) = Cardinality(old) /\ Cardinality(old) \in Nat
  BY <1>2, <1>3, FS_Bijection, FS_CardinalityType
<1>5. Removing(new, e) = IF e \in Seqs!ToSet(f.removed) THEN up \cup {1} ELSE up
  <2>1. ASSUME NEW i \in DOMAIN new, i # 1
        PROVE  i \in Removing(new, e) <=> i \in up
    <3>1. i - 1 \in DOMAIN st /\ new[i] = st[i - 1] /\ (i - 1) + 1 = i
      BY <1>1, <2>1
    <3>2. i \in up <=> i - 1 \in old
      BY <1>1, <3>1 DEF Removing
    <3> QED
      BY <3>1, <3>2, <2>1 DEF Removing
  <2>2. up \subseteq DOMAIN new /\ 1 \notin up
    BY <1>1 DEF Removing
  <2>3. 1 \in Removing(new, e) <=> e \in Seqs!ToSet(f.removed)
    BY <1>1 DEF Removing
  <2>4. Removing(new, e) \subseteq DOMAIN new
    BY DEF Removing
  <2> QED
    BY <2>1, <2>2, <2>3, <2>4
<1>6. 1 \notin up
  BY <1>1 DEF Removing
<1>7. Cardinality(up \cup {1}) = Cardinality(up) + 1
  BY <1>4, <1>6, FS_AddElement
<1> HIDE DEF old, up
<1>8. Cardinality(Removing(new, e)) = Cardinality(old) + IF e \in Seqs!ToSet(f.removed) THEN 1 ELSE 0
  BY <1>4, <1>5, <1>7
<1> QED
  BY <1>4, <1>8 DEF new, old

-----------------------------------------------------------------------------
(* The new lists of a collection.                                          *)
LEMMA Joined ==
  ASSUME NEW T, NEW a \in Seq(T), NEW b \in Seq(T), NEW c, c = a \o b
  PROVE  /\ c \in Seq(T) /\ Len(c) = Len(a) + Len(b) /\ DOMAIN c = 1..(Len(a) + Len(b))
         /\ \A j \in 1..Len(a) : c[j] = a[j]
         /\ \A j \in (Len(a) + 1)..(Len(a) + Len(b)) : c[j] = b[j - Len(a)]
OBVIOUS

LEMMA SetEntry ==
  ASSUME NEW T, NEW s \in Seq(T), Unrepeated(s), NEW i \in DOMAIN s,
         NEW e \in T, e \notin Seqs!ToSet(s)
  PROVE  LET new == [s EXCEPT ![i] = e]
         IN  /\ new \in Seq(T) /\ Unrepeated(new)
             /\ Seqs!ToSet(new) = (Seqs!ToSet(s) \ {s[i]}) \cup {e}
<1> DEFINE new == [s EXCEPT ![i] = e]
<1>1. new \in Seq(T) /\ DOMAIN new = DOMAIN s /\ new[i] = e
      /\ \A j \in DOMAIN s : j # i => new[j] = s[j]
  OBVIOUS
<1> HIDE DEF new
<1>2. Unrepeated(new)
  BY <1>1 DEF Unrepeated, Seqs!ToSet
<1>3. Seqs!ToSet(new) = (Seqs!ToSet(s) \ {s[i]}) \cup {e}
  BY <1>1 DEF Unrepeated, Seqs!ToSet
<1> QED
  BY <1>1, <1>2, <1>3 DEF new

LEMMA DropEntry ==
  ASSUME NEW T, NEW s \in Seq(T), Unrepeated(s), NEW i \in DOMAIN s
  PROVE  LET new == Seqs!RemoveAt(s, i)
         IN  /\ new \in Seq(T) /\ Unrepeated(new)
             /\ Seqs!ToSet(new) = Seqs!ToSet(s) \ {s[i]}
<1> DEFINE new == Seqs!RemoveAt(s, i)
<1>1. /\ Len(s) \in Nat /\ DOMAIN s = 1..Len(s) /\ i \in 1..Len(s)
      /\ \A j \in DOMAIN s : s[j] \in T
  OBVIOUS
<1>2. /\ SubSeq(s, 1, i - 1) \in Seq(T) /\ Len(SubSeq(s, 1, i - 1)) = i - 1
      /\ SubSeq(s, i + 1, Len(s)) \in Seq(T) /\ Len(SubSeq(s, i + 1, Len(s))) = Len(s) - i
      /\ \A j \in 1..(i - 1) : SubSeq(s, 1, i - 1)[j] = s[j]
      /\ \A j \in 1..(Len(s) - i) : SubSeq(s, i + 1, Len(s))[j] = s[i + j]
  BY <1>1
<1>3. /\ new \in Seq(T) /\ DOMAIN new = 1..(Len(s) - 1)
      /\ \A j \in 1..(i - 1) : new[j] = s[j]
      /\ \A j \in i..(Len(s) - 1) : new[j] = s[j + 1]
  <2>1. PICK a \in Seq(T), b \in Seq(T) :
            /\ new = a \o b /\ Len(a) = i - 1 /\ Len(b) = Len(s) - i
            /\ \A j \in 1..(i - 1) : a[j] = s[j]
            /\ \A j \in 1..(Len(s) - i) : b[j] = s[i + j]
    BY <1>2 DEF Seqs!RemoveAt
  <2> HIDE DEF new
  <2>2. /\ new \in Seq(T) /\ DOMAIN new = 1..(Len(a) + Len(b))
        /\ \A j \in 1..Len(a) : new[j] = a[j]
        /\ \A j \in (Len(a) + 1)..(Len(a) + Len(b)) : new[j] = b[j - Len(a)]
    BY <2>1, Joined
  <2>3. /\ Len(a) + Len(b) = Len(s) - 1 /\ Len(a) + 1 = i
        /\ \A j \in i..(Len(s) - 1) : j - Len(a) = j - i + 1
    BY <1>1, <2>1
  <2>4. ASSUME NEW j \in i..(Len(s) - 1)
        PROVE  new[j] = s[j + 1]
    <3>1. j - i + 1 \in 1..(Len(s) - i) /\ i + (j - i + 1) = j + 1
      BY <1>1
    <3>2. j \in (Len(a) + 1)..(Len(a) + Len(b)) /\ j - Len(a) = j - i + 1
      BY <1>1, <2>3
    <3>3. new[j] = b[j - i + 1]
      BY <2>2, <3>2
    <3>4. b[j - i + 1] = s[i + (j - i + 1)]
      BY <2>1, <3>1
    <3> QED
      BY <3>1, <3>3, <3>4
  <2> QED
    BY <2>1, <2>2, <2>3, <2>4
<1> HIDE DEF new
<1>4. \A j \in DOMAIN new : /\ new[j] = s[IF j < i THEN j ELSE j + 1]
                            /\ (IF j < i THEN j ELSE j + 1) \in DOMAIN s \ {i}
  BY <1>1, <1>3
<1>5. \A k \in DOMAIN s \ {i} : \E j \in DOMAIN new : new[j] = s[k]
  <2> SUFFICES ASSUME NEW k \in DOMAIN s, k # i PROVE \E j \in DOMAIN new : new[j] = s[k]
    OBVIOUS
  <2>1. CASE k < i
    BY <1>1, <1>3, <2>1
  <2>2. CASE k > i
    <3>1. k - 1 \in i..(Len(s) - 1) /\ (k - 1) + 1 = k
      BY <1>1, <2>2
    <3>2. k - 1 \in DOMAIN new /\ new[k - 1] = s[k]
      BY <1>1, <1>3, <3>1
    <3> QED
      BY <3>2
  <2> QED
    BY <1>1, <2>1, <2>2
<1>6. Unrepeated(new)
  <2> SUFFICES ASSUME NEW j \in DOMAIN new, NEW k \in DOMAIN new, new[j] = new[k] PROVE j = k
    BY DEF Unrepeated
  <2>1. (IF j < i THEN j ELSE j + 1) = (IF k < i THEN k ELSE k + 1)
    BY <1>4 DEF Unrepeated
  <2> QED
    BY <1>1, <1>3, <2>1
<1>7. Seqs!ToSet(new) = Seqs!ToSet(s) \ {s[i]}
  BY <1>4, <1>5 DEF Seqs!ToSet, Unrepeated
<1> QED
  BY <1>3, <1>6, <1>7 DEF new

LEMMA AddEntry ==
  ASSUME NEW T, NEW s \in Seq(T), Unrepeated(s), NEW i \in 1..(Len(s) + 1),
         NEW e \in T, e \notin Seqs!ToSet(s)
  PROVE  LET new == Seqs!InsertAt(s, i, e)
         IN  /\ new \in Seq(T) /\ Unrepeated(new)
             /\ Seqs!ToSet(new) = Seqs!ToSet(s) \cup {e}
<1> DEFINE new == Seqs!InsertAt(s, i, e)
<1>1. Len(s) \in Nat /\ DOMAIN s = 1..Len(s) /\ \A j \in DOMAIN s : s[j] \in T
  OBVIOUS
<1>2. /\ SubSeq(s, 1, i - 1) \in Seq(T) /\ Len(SubSeq(s, 1, i - 1)) = i - 1
      /\ SubSeq(s, i, Len(s)) \in Seq(T) /\ Len(SubSeq(s, i, Len(s))) = Len(s) - i + 1
      /\ \A j \in 1..(i - 1) : SubSeq(s, 1, i - 1)[j] = s[j]
      /\ \A j \in 1..(Len(s) - i + 1) : SubSeq(s, i, Len(s))[j] = s[i + j - 1]
  BY <1>1
<1>3. /\ new \in Seq(T) /\ DOMAIN new = 1..(Len(s) + 1) /\ new[i] = e
      /\ \A j \in 1..(i - 1) : new[j] = s[j]
      /\ \A j \in (i + 1)..(Len(s) + 1) : new[j] = s[j - 1]
  <2>1. PICK a \in Seq(T), b \in Seq(T) :
            /\ new = a \o <<e>> \o b /\ Len(a) = i - 1 /\ Len(b) = Len(s) - i + 1
            /\ \A j \in 1..(i - 1) : a[j] = s[j]
            /\ \A j \in 1..(Len(s) - i + 1) : b[j] = s[i + j - 1]
    BY <1>2 DEF Seqs!InsertAt
  <2> HIDE DEF new
  <2> DEFINE c == a \o <<e>>
  <2>2. /\ c \in Seq(T) /\ Len(c) = i /\ c[i] = e /\ \A j \in 1..(i - 1) : c[j] = a[j]
    BY <1>1, <2>1
  <2>3. new = c \o b
    BY <2>1
  <2> HIDE DEF c
  <2>4. /\ new \in Seq(T) /\ DOMAIN new = 1..(i + Len(b))
        /\ \A j \in 1..i : new[j] = c[j]
        /\ \A j \in (i + 1)..(i + Len(b)) : new[j] = b[j - i]
    BY <2>1, <2>2, <2>3, Joined, SMTT(60)
  <2>5. i + Len(b) = Len(s) + 1
    BY <1>1, <2>1
  <2>6. ASSUME NEW j \in (i + 1)..(Len(s) + 1)
        PROVE  new[j] = s[j - 1]
    <3>1. j - i \in 1..(Len(s) - i + 1) /\ i + (j - i) - 1 = j - 1
      BY <1>1
    <3> QED
      BY <2>1, <2>4, <2>5, <3>1
  <2>7. new \in Seq(T) /\ DOMAIN new = 1..(Len(s) + 1)
    BY <2>4, <2>5
  <2>8. \A j \in 1..(i - 1) : new[j] = s[j]
    BY <1>1, <2>1, <2>2, <2>4
  <2>9. new[i] = e
    BY <1>1, <2>2, <2>4
  <2> QED
    BY <2>6, <2>7, <2>8, <2>9
<1> HIDE DEF new
<1>4. \A j \in DOMAIN new : j # i => /\ new[j] = s[IF j < i THEN j ELSE j - 1]
                                     /\ (IF j < i THEN j ELSE j - 1) \in DOMAIN s
  BY <1>1, <1>3
<1>5. \A k \in DOMAIN s : \E j \in DOMAIN new : new[j] = s[k]
  <2> SUFFICES ASSUME NEW k \in DOMAIN s PROVE \E j \in DOMAIN new : new[j] = s[k]
    OBVIOUS
  <2>1. CASE k < i
    BY <1>1, <1>3, <2>1
  <2>2. CASE k >= i
    <3>1. k + 1 \in (i + 1)..(Len(s) + 1) /\ (k + 1) - 1 = k
      BY <1>1, <2>2
    <3>2. k + 1 \in DOMAIN new /\ new[k + 1] = s[k]
      BY <1>1, <1>3, <3>1
    <3> QED
      BY <3>2
  <2> QED
    BY <1>1, <2>1, <2>2
<1>6. Unrepeated(new)
  <2> SUFFICES ASSUME NEW j \in DOMAIN new, NEW k \in DOMAIN new, new[j] = new[k] PROVE j = k
    BY DEF Unrepeated
  <2>1. new[i] = e /\ \A l \in DOMAIN new : l # i => new[l] # e
    BY <1>3, <1>4 DEF Seqs!ToSet
  <2>2. CASE j = i \/ k = i
    BY <2>1, <2>2
  <2>3. CASE j # i /\ k # i
    <3>1. (IF j < i THEN j ELSE j - 1) = (IF k < i THEN k ELSE k - 1)
      BY <1>4, <2>3 DEF Unrepeated
    <3> QED
      BY <1>1, <1>3, <2>3, <3>1
  <2> QED
    BY <2>2, <2>3
<1>7. Seqs!ToSet(new) = Seqs!ToSet(s) \cup {e}
  <2>1. i \in DOMAIN new
    BY <1>1, <1>3
  <2> QED
    BY <1>3, <1>4, <1>5, <2>1 DEF Seqs!ToSet
<1> QED
  BY <1>3, <1>6, <1>7 DEF new

LEMMA EmptyEntries ==
  ASSUME NEW T
  PROVE  <<>> \in Seq(T) /\ Unrepeated(<<>>) /\ Seqs!ToSet(<<>>) = {}
BY DEF Unrepeated, Seqs!ToSet

-----------------------------------------------------------------------------
(* The tree.                                                               *)
LEMMA AncestorsClosed ==
  ASSUME NEW e \in Elements, parent \in [Elements -> Panels \cup {None}]
  PROVE  e \in Ancestors(e) /\ Upward(Ancestors(e)) /\ Ancestors(e) \in SUBSET Elements
<1>1. e \in Ancestors(e) /\ Ancestors(e) \in SUBSET Elements
  BY DEF Ancestors
<1>2. Upward(Ancestors(e))
  <2> SUFFICES ASSUME NEW x \in Ancestors(e), parent[x] # None
               PROVE  parent[x] \in Ancestors(e)
    BY DEF Upward
  <2>1. x \in Elements /\ parent[x] \in Elements
    BY <1>1, ElementsAssumption
  <2>2. \A S \in SUBSET Elements : e \in S /\ Upward(S) => parent[x] \in S
    BY DEF Ancestors, Upward
  <2> QED
    BY <2>1, <2>2 DEF Ancestors
<1> QED
  BY <1>1, <1>2

LEMMA NoCycleRoots ==
  ASSUME NoCycle, parent \in [Elements -> Panels \cup {None}]
  PROVE  Acyclic /\ \A e \in Elements : VisualRoot(e) \in Elements
<1> SUFFICES ASSUME NEW e \in Elements
             PROVE  /\ \E r \in Ancestors(e) : IsRoot(r)
                    /\ VisualRoot(e) \in Elements
  BY DEF Acyclic
<1>1. e \in Ancestors(e) /\ Upward(Ancestors(e)) /\ Ancestors(e) \in SUBSET Elements
  BY AncestorsClosed
<1>2. PICK r \in Ancestors(e) : parent[r] \notin Ancestors(e)
  BY <1>1 DEF NoCycle
<1>3. IsRoot(r)
  BY <1>1, <1>2 DEF Upward, IsRoot
<1>4. VisualRoot(e) \in Ancestors(e)
  BY <1>3 DEF VisualRoot
<1> QED
  BY <1>1, <1>3, <1>4

(* Detaching leaves no more above an element.                              *)
LEMMA Detaching ==
  ASSUME parent \in [Elements -> Panels \cup {None}], parent' \in [Elements -> Panels \cup {None}],
         \A x \in Elements : parent'[x] \in {parent[x], None}
  PROVE  /\ NoCycle => NoCycle'
         /\ \A e \in Elements : Ancestors(e)' \subseteq Ancestors(e)
<1>1. NoCycle => NoCycle'
  <2> SUFFICES ASSUME NoCycle, NEW S \in SUBSET Elements, S # {}
               PROVE  \E x \in S : parent'[x] \notin S
    BY DEF NoCycle
  <2>1. PICK x \in S : parent[x] \notin S
    BY DEF NoCycle
  <2>2. None \notin S
    BY NoneAssumption
  <2> QED
    BY <2>1, <2>2
<1>2. \A e \in Elements : Ancestors(e)' \subseteq Ancestors(e)
  <2>1. \A S \in SUBSET Elements : Upward(S) => Upward(S)'
    BY DEF Upward
  <2> QED
    BY <2>1 DEF Ancestors
<1> QED
  BY <1>1, <1>2

LEMMA Attaching ==
  ASSUME NoCycle, parent \in [Elements -> Panels \cup {None}],
         NEW p \in Panels, NEW e \in Elements, CanAttachVisualChild(p, e),
         parent' = [parent EXCEPT ![e] = p]
  PROVE  NoCycle'
<1> SUFFICES ASSUME NEW S \in SUBSET Elements, S # {}, \A x \in S : parent'[x] \in S
             PROVE  FALSE
  BY DEF NoCycle
<1> DEFINE A == Ancestors(p)
<1>1. p \in Elements /\ p \in A /\ Upward(A) /\ A \in SUBSET Elements /\ e \notin A
  BY AncestorsClosed, ElementsAssumption DEF CanAttachVisualChild
<1>2. CASE e \notin S
  BY <1>2 DEF NoCycle
<1>3. CASE e \in S
  <2>1. p \in S \cap A
    BY <1>1, <1>3
  <2>2. \A x \in S \cap A : parent[x] \in S \cap A
    BY <1>1, NoneAssumption DEF Upward
  <2> QED
    BY <1>1, <2>1, <2>2 DEF NoCycle
<1> QED
  BY <1>2, <1>3

-----------------------------------------------------------------------------
(* The children that the calls of a stack are about to attach.             *)
AddedBy(st, q) == {st[i].added : i \in {j \in DOMAIN st : st[j].owner = q}}

LEMMA AddedByPush ==
  ASSUME NEW st \in Seq(Calls), NEW f \in Calls
  PROVE  /\ \A q, e : e \in AddedBy(<<f>> \o st, q) <=>
                          (f.owner = q /\ e = f.added) \/ e \in AddedBy(st, q)
         /\ Added(st) = {} => \A q : AddedBy(st, q) \subseteq {None}
<1> DEFINE new == <<f>> \o st
<1>1. /\ new[1] = f /\ Len(st) \in Nat
      /\ \A i \in 1..Len(st) : new[i + 1] = st[i]
      /\ DOMAIN st = 1..Len(st) /\ DOMAIN new = 1..(Len(st) + 1)
  OBVIOUS
<1>2. \A i \in DOMAIN new : i # 1 => i - 1 \in DOMAIN st /\ new[i] = st[i - 1]
  BY <1>1
<1>3. 1 \in DOMAIN new /\ \A i \in DOMAIN st : i + 1 \in DOMAIN new /\ new[i + 1] = st[i]
  BY <1>1
<1> HIDE DEF new
<1>4. ASSUME NEW q, NEW e
      PROVE  e \in AddedBy(new, q) <=> (f.owner = q /\ e = f.added) \/ e \in AddedBy(st, q)
  <2>1. e \in AddedBy(new, q) => (f.owner = q /\ e = f.added) \/ e \in AddedBy(st, q)
    BY <1>1, <1>2 DEF AddedBy
  <2>2. f.owner = q /\ e = f.added => e \in AddedBy(new, q)
    BY <1>1, <1>3 DEF AddedBy
  <2>3. e \in AddedBy(st, q) => e \in AddedBy(new, q)
    BY <1>3 DEF AddedBy
  <2> QED
    BY <2>1, <2>2, <2>3
<1>5. Added(st) = {} => \A q : AddedBy(st, q) \subseteq {None}
  BY DEF Added, AddedBy
<1> QED
  BY <1>4, <1>5 DEF new

LEMMA SequenceFacts ==
  ASSUME NEW s \in Seq(Elements), s # <<>>
  PROVE  /\ Head(s) \in Elements /\ Head(s) \in Seqs!ToSet(s) /\ Seqs!ToSet(s) \subseteq Elements
         /\ \A e \in Seqs!ToSet(s) : e = Head(s) \/ \E j \in DOMAIN s : j > 1 /\ e = s[j]
<1>1. Len(s) \in Nat /\ Len(s) >= 1 /\ DOMAIN s = 1..Len(s) /\ Head(s) = s[1]
      /\ \A i \in DOMAIN s : s[i] \in Elements
  OBVIOUS
<1> QED
  BY <1>1 DEF Seqs!ToSet

-----------------------------------------------------------------------------
(* A call takes list out of the collection, and may put added into it.     *)
LEMMA ReplaceStep ==
  ASSUME CollectionInv, ~undefined, NEW p \in Panels,
         NEW list \in Seq(Elements), list # <<>>, Seqs!ToSet(list) \subseteq Seqs!ToSet(entries[p]),
         NEW new \in Seq(Elements), Unrepeated(new), NEW added \in Elements \cup {None},
         Seqs!ToSet(new) = (Seqs!ToSet(entries[p]) \ Seqs!ToSet(list)) \cup ({added} \ {None}),
         added # None => added \notin Seqs!ToSet(entries[p]) /\ CanAttachVisualChild(p, added),
         Replace(p, list, new, added)
  PROVE  CollectionInv'
<1> DEFINE gone == Seqs!ToSet(list)
<1>1. /\ entries \in [Panels -> Seq(Elements)] /\ parent \in [Elements -> Panels \cup {None}]
      /\ pending \in [Panels -> [Elements -> Elements \cup {None}]] /\ refs \in [Elements -> Nat]
      /\ stack \in Seq(Calls) /\ interrupted \in BOOLEAN
      /\ Panels \subseteq Elements /\ None \notin Elements
  BY ElementsAssumption, NoneAssumption DEF CollectionInv, TypeOK
<1>2. /\ entries' = [entries EXCEPT ![p] = new] /\ parent' = Detached(p, list)
      /\ refs' = Adopt(added) /\ interrupted' = Interrupts /\ undefined' = undefined
      /\ pending' = [pending EXCEPT ![p] = [e \in Elements |->
                      IF e \in Seqs!ToSet(list) THEN VisualRoot(e) ELSE @[e]]]
      /\ stack' = <<Reporting(p, list, added, list, pending')>> \o stack
  BY DEF Replace
<1>3. /\ parent' \in [Elements -> Panels \cup {None}]
      /\ \A x \in Elements : parent'[x] = IF x \in gone /\ parent[x] = p THEN None ELSE parent[x]
  BY <1>1, <1>2 DEF Detached
<1>4. \A e \in Elements : VisualRoot(e) \in Elements
  BY <1>1, NoCycleRoots DEF CollectionInv
<1>5. /\ pending' \in [Panels -> [Elements -> Elements \cup {None}]]
      /\ \A q \in Panels, e \in Elements : q # p \/ e \notin gone => pending'[q][e] = pending[q][e]
  BY <1>1, <1>2, <1>4
<1>6. PICK f \in Calls : /\ f.owner = p /\ f.list = list /\ f.added = added /\ f.removed = list
                         /\ f.found <=> pending'[p][Head(list)] # None
                         /\ stack' = <<f>> \o stack
  <2> DEFINE g == Reporting(p, list, added, list, pending')
  <2>1. g \in Calls
    BY DEF Reporting, Calls
  <2>2. /\ g.owner = p /\ g.list = list /\ g.added = added /\ g.removed = list
        /\ g.found <=> pending'[p][Head(list)] # None
    BY DEF Reporting
  <2> QED
    BY <1>2, <2>1, <2>2
<1>7. stack' \in Seq(Calls) /\ stack' # <<>> /\ Head(stack') = f
  BY <1>1, <1>6, PushCall
<1>8. /\ entries' \in [Panels -> Seq(Elements)] /\ entries'[p] = new
      /\ \A q \in Panels \ {p} : entries'[q] = entries[q]
  BY <1>1, <1>2
<1>9. interrupted' \in BOOLEAN /\ refs' \in [Elements -> Nat] /\ undefined' \in BOOLEAN
      /\ \A e \in Elements : refs'[e] = refs[e] + IF e = added THEN 1 ELSE 0
  BY <1>1, <1>2 DEF Interrupts, Adopt, CollectionInv, TypeOK
<1>10. TypeOK'
  BY <1>3, <1>5, <1>7, <1>8, <1>9 DEF TypeOK
<1>11. Distinct'
  BY <1>8 DEF CollectionInv, Distinct
<1>12. /\ \A q \in Panels \ {p} : \A e : Contains(q, e)' <=> Contains(q, e)
       /\ \A e : Contains(p, e)' <=> (Contains(p, e) /\ e \notin gone) \/ (e = added /\ e # None)
  BY <1>8 DEF Contains
<1>13. Counted'
  <2> SUFFICES ASSUME NEW e \in Elements
               PROVE  /\ IsFiniteSet(Listing(e)')
                      /\ refs'[e] = Cardinality(Listing(e)') + Cardinality(Removing(stack', e))
    BY DEF Counted
  <2>1. /\ IsFiniteSet(Listing(e)) /\ Cardinality(Listing(e)) \in Nat
        /\ refs[e] = Cardinality(Listing(e)) + Cardinality(Removing(stack, e))
    BY FS_CardinalityType DEF CollectionInv, Counted
  <2>2. /\ Cardinality(Removing(stack, e)) \in Nat
        /\ Cardinality(Removing(stack', e)) =
               Cardinality(Removing(stack, e)) + IF e \in gone THEN 1 ELSE 0
    BY <1>1, <1>6, RemovingGrows
  <2>3. CASE e \in gone
    <3>1. e # added /\ Contains(p, e)
      BY <1>1, <2>3 DEF Contains
    <3>2. Listing(e)' = Listing(e) \ {p} /\ p \in Listing(e)
      BY <1>12, <2>3, <3>1 DEF Listing
    <3>3. IsFiniteSet(Listing(e)') /\ Cardinality(Listing(e)') = Cardinality(Listing(e)) - 1
      BY <2>1, <3>2, FS_RemoveElement
    <3> QED
      BY <1>9, <2>1, <2>2, <2>3, <3>1, <3>3
  <2>4. CASE e \notin gone /\ e = added
    <3>1. Listing(e)' = Listing(e) \cup {p} /\ p \notin Listing(e)
      BY <1>1, <1>12, <2>4 DEF Listing, Contains
    <3>2. IsFiniteSet(Listing(e)') /\ Cardinality(Listing(e)') = Cardinality(Listing(e)) + 1
      BY <2>1, <3>1, FS_AddElement
    <3> QED
      BY <1>9, <2>1, <2>2, <2>4, <3>2
  <2>5. CASE e \notin gone /\ e # added
    <3>1. Listing(e)' = Listing(e)
      BY <1>12, <2>5 DEF Listing
    <3> QED
      BY <1>9, <2>1, <2>2, <2>5, <3>1
  <2> QED
    BY <2>3, <2>4, <2>5
<1>14. Covered'
  <2> SUFFICES ASSUME NEW q \in Panels, NEW e \in Elements, pending'[q][e] # None
               PROVE  WillErase(stack', q, e)
    BY DEF Covered
  <2>1. WillErase(stack', q, e) <=> Erases(f, q, e) \/ WillErase(stack, q, e)
    BY <1>1, <1>6, PushCall
  <2>2. CASE q = p /\ e \in gone
    <3>1. e = Head(list) \/ \E j \in DOMAIN list : j > 1 /\ e = list[j]
      BY <2>2, SequenceFacts
    <3> QED
      BY <1>6, <2>1, <2>2, <3>1 DEF Erases
  <2>3. CASE ~(q = p /\ e \in gone)
    BY <1>5, <2>1, <2>3 DEF CollectionInv, Covered
  <2> QED
    BY <2>2, <2>3
<1>15. NoCycle' /\ \A e \in Elements : Ancestors(e)' \subseteq Ancestors(e)
  BY <1>1, <1>3, Detaching DEF CollectionInv
<1>16. ASSUME ~interrupted'
       PROVE  /\ Added(stack) = {} /\ \A q : AddedBy(stack, q) \subseteq {None}
              /\ \A q \in Panels, e \in Elements : Contains(q, e) <=> parent[e] = q
  <2>1. Added(stack) = {} /\ ~interrupted
    BY <1>2, <1>16 DEF Interrupts, Added
  <2>2. \A q : AddedBy(stack, q) \subseteq {None}
    BY <1>1, <2>1, AddedByPush
  <2>3. \A q : Incoming(q) = AddedBy(stack, q)
    BY DEF Incoming, AddedBy
  <2> QED
    BY <1>1, <2>1, <2>2, <2>3 DEF CollectionInv, ListedIsAttached
<1>17. ASSUME ~interrupted', added # None
       PROVE  parent[added] = None /\ added \notin Hosted /\ added \notin Ancestors(p)
  <2>1. parent[added] # p
    BY <1>16, <1>17 DEF Contains
  <2> QED
    BY <1>17, <2>1 DEF CanAttachVisualChild
<1>18. Awaited'
  <2> SUFFICES ASSUME ~interrupted' PROVE Added(stack') \subseteq {1} /\ Attachable(f)'
    BY <1>7 DEF Awaited
  <2>1. Added(stack') \subseteq {1}
    BY <1>1, <1>6, <1>16, PushCall
  <2>2. added # None => parent'[added] = None /\ added \notin Hosted /\ added \notin Ancestors(p)'
    BY <1>1, <1>3, <1>15, <1>17
  <2> QED
    BY <1>6, <2>1, <2>2 DEF Attachable
<1>19. ListedIsAttached'
  <2> SUFFICES ASSUME ~interrupted', NEW q \in Panels, NEW e \in Elements
               PROVE  Contains(q, e)' <=> (parent'[e] = q \/ e \in Incoming(q)')
    BY DEF ListedIsAttached
  <2>1. Incoming(q)' = AddedBy(stack', q)
    BY DEF Incoming, AddedBy
  <2>2. e \in AddedBy(stack', q) <=> q = p /\ e = added
    BY <1>1, <1>6, <1>16, AddedByPush
  <2>3. CASE q # p
    BY <1>1, <1>3, <1>12, <1>16, <2>1, <2>2, <2>3
  <2>4. CASE q = p
    BY <1>1, <1>3, <1>12, <1>16, <2>1, <2>2, <2>4
  <2> QED
    BY <2>3, <2>4
<1> QED
  BY <1>10, <1>11, <1>13, <1>14, <1>15, <1>18, <1>19 DEF CollectionInv

-----------------------------------------------------------------------------
(* The operations of a collection.                                         *)
LEMMA Single ==
  ASSUME NEW T, NEW x \in T
  PROVE  <<x>> \in Seq(T) /\ <<x>> # <<>> /\ Seqs!ToSet(<<x>>) = {x}
BY DEF Seqs!ToSet

LEMMA SetAtStep ==
  ASSUME CollectionInv, NEW p \in Panels, NEW e \in Elements, NEW i \in DOMAIN entries[p],
         SetAt(p, i, e)
  PROVE  CollectionInv'
<1> DEFINE list == <<entries[p][i]>>
           new  == [entries[p] EXCEPT ![i] = e]
<1>1. entries[p] \in Seq(Elements) /\ Unrepeated(entries[p]) /\ e # None
  BY NoneAssumption DEF CollectionInv, TypeOK, Distinct
<1>2. /\ ~undefined /\ e \notin Seqs!ToSet(entries[p]) /\ CanAttachVisualChild(p, e)
      /\ Replace(p, list, new, e)
  BY DEF SetAt, InUserCode, Contains
<1>3. entries[p][i] \in Elements /\ entries[p][i] \in Seqs!ToSet(entries[p])
  BY <1>1 DEF Seqs!ToSet
<1>4. list \in Seq(Elements) /\ list # <<>> /\ Seqs!ToSet(list) = {entries[p][i]}
  BY <1>3, Single
<1>5. /\ new \in Seq(Elements) /\ Unrepeated(new)
      /\ Seqs!ToSet(new) = (Seqs!ToSet(entries[p]) \ {entries[p][i]}) \cup {e}
  BY <1>1, <1>2, SetEntry
<1> HIDE DEF list, new
<1>6. /\ Seqs!ToSet(list) \subseteq Seqs!ToSet(entries[p])
      /\ Seqs!ToSet(new) = (Seqs!ToSet(entries[p]) \ Seqs!ToSet(list)) \cup ({e} \ {None})
  BY <1>1, <1>3, <1>4, <1>5
<1> QED
  BY <1>2, <1>4, <1>5, <1>6, ReplaceStep

LEMMA RemoveAtStep ==
  ASSUME CollectionInv, NEW p \in Panels, NEW i \in DOMAIN entries[p], RemoveAt(p, i)
  PROVE  CollectionInv'
<1> DEFINE list == <<entries[p][i]>>
           new  == Seqs!RemoveAt(entries[p], i)
<1>1. entries[p] \in Seq(Elements) /\ Unrepeated(entries[p])
  BY DEF CollectionInv, TypeOK, Distinct
<1>2. ~undefined /\ Replace(p, list, new, None)
  BY DEF RemoveAt, InUserCode
<1>3. entries[p][i] \in Elements /\ entries[p][i] \in Seqs!ToSet(entries[p])
  BY <1>1 DEF Seqs!ToSet
<1>4. list \in Seq(Elements) /\ list # <<>> /\ Seqs!ToSet(list) = {entries[p][i]}
  BY <1>3, Single
<1>5. /\ new \in Seq(Elements) /\ Unrepeated(new)
      /\ Seqs!ToSet(new) = Seqs!ToSet(entries[p]) \ {entries[p][i]}
  BY <1>1, DropEntry
<1> HIDE DEF list, new
<1>6. /\ Seqs!ToSet(list) \subseteq Seqs!ToSet(entries[p])
      /\ Seqs!ToSet(new) = (Seqs!ToSet(entries[p]) \ Seqs!ToSet(list)) \cup ({None} \ {None})
  BY <1>3, <1>4, <1>5
<1> QED
  BY <1>2, <1>4, <1>5, <1>6, ReplaceStep

LEMMA ClearStep ==
  ASSUME CollectionInv, NEW p \in Panels, Clear(p)
  PROVE  CollectionInv'
<1>1. entries[p] \in Seq(Elements) /\ entries[p] # <<>>
  BY DEF CollectionInv, TypeOK, Clear
<1>2. ~undefined /\ Replace(p, entries[p], <<>>, None)
  BY DEF Clear, InUserCode
<1>3. <<>> \in Seq(Elements) /\ Unrepeated(<<>>) /\ Seqs!ToSet(<<>>) = {}
  BY EmptyEntries
<1>4. Seqs!ToSet(<<>>) = (Seqs!ToSet(entries[p]) \ Seqs!ToSet(entries[p])) \cup ({None} \ {None})
  BY <1>3
<1> QED
  BY <1>1, <1>2, <1>3, <1>4, ReplaceStep

-----------------------------------------------------------------------------
(* A child is listed and attached in one step: no handler runs.            *)
LEMMA InsertAtStep ==
  ASSUME CollectionInv, NEW p \in Panels, NEW e \in Elements, NEW i \in 1..Len(entries[p]) + 1,
         InsertAt(p, i, e)
  PROVE  CollectionInv'
<1>1. /\ entries \in [Panels -> Seq(Elements)] /\ parent \in [Elements -> Panels \cup {None}]
      /\ refs \in [Elements -> Nat] /\ stack \in Seq(Calls) /\ interrupted \in BOOLEAN
      /\ Panels \subseteq Elements /\ None \notin Elements
  BY ElementsAssumption, NoneAssumption DEF CollectionInv, TypeOK
<1>2. /\ ~undefined /\ ~Contains(p, e) /\ CanAttachVisualChild(p, e)
      /\ entries' = [entries EXCEPT ![p] = Seqs!InsertAt(@, i, e)]
      /\ parent' = [parent EXCEPT ![e] = p] /\ refs' = [refs EXCEPT ![e] = @ + 1]
      /\ interrupted' = Interrupts
      /\ pending' = pending /\ stack' = stack /\ undefined' = undefined
  BY <1>1 DEF InsertAt, InUserCode, Attached, Adopt
<1>3. /\ entries'[p] \in Seq(Elements) /\ Unrepeated(entries'[p])
      /\ Seqs!ToSet(entries'[p]) = Seqs!ToSet(entries[p]) \cup {e}
  <2>1. entries[p] \in Seq(Elements) /\ Unrepeated(entries[p]) /\ e \notin Seqs!ToSet(entries[p])
    BY <1>1, <1>2 DEF CollectionInv, Distinct, Contains
  <2>2. entries'[p] = Seqs!InsertAt(entries[p], i, e)
    BY <1>1, <1>2
  <2> QED
    BY <2>1, <2>2, AddEntry
<1>4. entries' \in [Panels -> Seq(Elements)] /\ \A q \in Panels \ {p} : entries'[q] = entries[q]
  BY <1>1, <1>2, <1>3
<1>5. interrupted' \in BOOLEAN
  BY <1>1, <1>2 DEF Interrupts
<1>6. TypeOK'
  BY <1>1, <1>2, <1>4, <1>5 DEF CollectionInv, TypeOK
<1>7. Distinct'
  BY <1>3, <1>4 DEF CollectionInv, Distinct
<1>8. /\ \A q \in Panels \ {p} : \A x : Contains(q, x)' <=> Contains(q, x)
      /\ \A x : Contains(p, x)' <=> Contains(p, x) \/ x = e
  BY <1>3, <1>4 DEF Contains
<1>9. Counted'
  <2> SUFFICES ASSUME NEW x \in Elements
               PROVE  /\ IsFiniteSet(Listing(x)')
                      /\ refs'[x] = Cardinality(Listing(x)') + Cardinality(Removing(stack, x))
    BY <1>2 DEF Counted
  <2>1. /\ IsFiniteSet(Listing(x)) /\ Cardinality(Listing(x)) \in Nat
        /\ refs[x] = Cardinality(Listing(x)) + Cardinality(Removing(stack, x))
    BY FS_CardinalityType DEF CollectionInv, Counted
  <2>2. CASE x = e
    <3>1. Listing(x)' = Listing(x) \cup {p} /\ p \notin Listing(x)
      BY <1>2, <1>8, <2>2 DEF Listing
    <3>2. IsFiniteSet(Listing(x)') /\ Cardinality(Listing(x)') = Cardinality(Listing(x)) + 1
      BY <2>1, <3>1, FS_AddElement
    <3>3. refs'[x] = refs[x] + 1 /\ refs[x] \in Nat
      BY <1>1, <1>2, <2>2
    <3>4. IsFiniteSet(Removing(stack, x)) => Cardinality(Removing(stack, x)) \in Nat
      BY FS_CardinalityType
    <3>5. Cardinality(Removing(stack, x)) \in Nat
      <4>1. Removing(stack, x) \in SUBSET (1..Len(stack)) /\ Len(stack) \in Nat
        BY <1>1 DEF Removing
      <4>2. IsFiniteSet(1..Len(stack))
        BY <4>1, FS_Interval
      <4> QED
        BY <3>4, <4>1, <4>2, FS_Subset
    <3> QED
      BY <2>1, <3>2, <3>3, <3>5
  <2>3. CASE x # e
    <3>1. Listing(x)' = Listing(x)
      BY <1>8, <2>3 DEF Listing
    <3> QED
      BY <1>1, <1>2, <2>1, <2>3, <3>1
  <2> QED
    BY <2>2, <2>3
<1>10. Covered'
  BY <1>2 DEF CollectionInv, Covered
<1>11. NoCycle'
  BY <1>1, <1>2, Attaching DEF CollectionInv
<1>12. ASSUME ~interrupted'
       PROVE  /\ Added(stack) = {} /\ \A q : AddedBy(stack, q) \subseteq {None}
              /\ \A q \in Panels, x \in Elements : Contains(q, x) <=> parent[x] = q
  <2>1. Added(stack) = {} /\ ~interrupted
    BY <1>2, <1>12 DEF Interrupts, Added
  <2>2. \A q : AddedBy(stack, q) \subseteq {None}
    BY <2>1 DEF Added, AddedBy
  <2>3. \A q : Incoming(q) = AddedBy(stack, q)
    BY DEF Incoming, AddedBy
  <2> QED
    BY <1>1, <1>2, <2>1, <2>2, <2>3 DEF CollectionInv, ListedIsAttached
<1>13. Awaited'
  <2> SUFFICES ASSUME ~interrupted'
               PROVE  Added(stack) \subseteq {1} /\ (stack # <<>> => Head(stack).added = None)
    BY <1>2 DEF Awaited, Attachable
  <2> QED
    BY <1>1, <1>12, PopCall
<1>14. ListedIsAttached'
  <2> SUFFICES ASSUME ~interrupted', NEW q \in Panels, NEW x \in Elements
               PROVE  Contains(q, x)' <=> (parent'[x] = q \/ x \in Incoming(q)')
    BY DEF ListedIsAttached
  <2>1. Incoming(q)' = AddedBy(stack, q)
    BY <1>2 DEF Incoming, AddedBy
  <2>2. x \notin Incoming(q)'
    BY <1>1, <1>12, <2>1
  <2>3. parent[e] # p
    BY <1>2, <1>12
  <2>4. parent[e] = None
    BY <1>2, <2>3 DEF CanAttachVisualChild
  <2>5. Contains(q, x) <=> parent[x] = q
    BY <1>12
  <2>6. CASE x = e
    BY <1>1, <1>2, <1>8, <2>2, <2>4, <2>5, <2>6
  <2>7. CASE x # e
    BY <1>1, <1>2, <1>8, <2>2, <2>5, <2>7
  <2> QED
    BY <2>6, <2>7
<1> QED
  BY <1>6, <1>7, <1>9, <1>10, <1>11, <1>13, <1>14 DEF CollectionInv

-----------------------------------------------------------------------------
LEMMA Only ==
  ASSUME NEW st \in Seq(Calls), NEW f \in Calls, Added(<<f>> \o st) \subseteq {1}
  PROVE  Added(st) = {}
<1> DEFINE new == <<f>> \o st
<1>1. /\ \A i \in 1..Len(st) : new[i + 1] = st[i]
      /\ DOMAIN st = 1..Len(st) /\ DOMAIN new = 1..(Len(st) + 1) /\ Len(st) \in Nat
  OBVIOUS
<1> HIDE DEF new
<1>2. \A i \in DOMAIN st : i + 1 \in DOMAIN new /\ new[i + 1] = st[i] /\ i + 1 # 1
  BY <1>1
<1>3. Added(new) \subseteq {1}
  BY DEF new
<1> QED
  BY <1>2, <1>3 DEF Added

LEMMA TailFacts ==
  ASSUME NEW s \in Seq(Elements), Len(s) > 1
  PROVE  /\ s # <<>> /\ Head(s) \in Elements
         /\ Tail(s) \in Seq(Elements) /\ Tail(s) # <<>> /\ Head(Tail(s)) \in Elements
         /\ Head(Tail(s)) = s[2] /\ DOMAIN Tail(s) = 1..(Len(s) - 1)
         /\ \A k \in 1..(Len(s) - 1) : Tail(s)[k] = s[k + 1]
<1>1. s # <<>>
  OBVIOUS
<1> DEFINE t == Tail(s)
<1>2. t \in Seq(Elements)
  BY <1>1
<1>3. /\ Len(t) = Len(s) - 1 /\ Len(s) \in Nat /\ \A k \in 1..(Len(s) - 1) : t[k] = s[k + 1]
  BY <1>1
<1> HIDE DEF t
<1>4. Head(t) = t[1] /\ t[1] = s[2] /\ s[2] \in Elements /\ t # <<>> /\ DOMAIN t = 1..(Len(s) - 1)
  BY <1>2, <1>3
<1> QED
  BY <1>1, <1>2, <1>3, <1>4 DEF t

(* What a call that has returned leaves to the others.                     *)
LEMMA NextReport ==
  ASSUME NEW f \in Calls, NEW g \in Calls, Len(f.list) > 1,
         NEW p \in Panels, NEW e \in Elements, Erases(f, p, e), e # Head(f.list) \/ ~f.found,
         g.owner = f.owner, g.list = Tail(f.list), g.found \/ e # Head(Tail(f.list))
  PROVE  Erases(g, p, e)
<1>1. f.list \in Seq(Elements) /\ f.found \in BOOLEAN /\ g.found \in BOOLEAN
  BY DEF Calls
<1>2. /\ Tail(f.list) # <<>> /\ Head(Tail(f.list)) = f.list[2]
      /\ DOMAIN f.list = 1..Len(f.list) /\ Len(f.list) \in Nat
      /\ DOMAIN Tail(f.list) = 1..(Len(f.list) - 1)
      /\ \A k \in 1..(Len(f.list) - 1) : Tail(f.list)[k] = f.list[k + 1]
  BY <1>1, TailFacts
<1>3. PICK j \in DOMAIN f.list : j > 1 /\ e = f.list[j]
  BY DEF Erases
<1>4. CASE j = 2
  BY <1>2, <1>3, <1>4 DEF Erases
<1>5. CASE j # 2
  <2>1. /\ j - 1 \in DOMAIN Tail(f.list) /\ j - 1 \in 1..(Len(f.list) - 1)
        /\ (j - 1) + 1 = j /\ j - 1 > 1
    BY <1>2, <1>3, <1>5
  <2>2. e = Tail(f.list)[j - 1]
    BY <1>2, <1>3, <2>1
  <2> QED
    BY <2>1, <2>2 DEF Erases
<1> QED
  BY <1>4, <1>5

(* The next child of the list is reported.                                 *)
LEMMA ReportStep ==
  ASSUME CollectionInv, ~undefined, NEW f \in Calls, NEW rest \in Seq(Calls),
         stack = <<f>> \o rest, Len(f.list) > 1,
         pending' = [pending EXCEPT ![f.owner][Head(f.list)] = IF f.found THEN None ELSE @],
         stack' = <<Reporting(f.owner, Tail(f.list), f.added, f.removed, pending')>> \o rest,
         UNCHANGED <<entries, parent, refs, undefined, interrupted>>
  PROVE  CollectionInv'
<1>1. /\ f.owner \in Panels /\ f.list \in Seq(Elements) /\ f.added \in Elements \cup {None}
      /\ f.removed \in Seq(Elements) /\ f.found \in BOOLEAN
  BY DEF Calls
<1>2. /\ f.list # <<>> /\ Head(f.list) \in Elements
      /\ Tail(f.list) \in Seq(Elements) /\ Tail(f.list) # <<>> /\ Head(Tail(f.list)) \in Elements
  BY <1>1, TailFacts
<1>3. pending \in [Panels -> [Elements -> Elements \cup {None}]]
  BY DEF CollectionInv, TypeOK
<1>4. /\ pending' \in [Panels -> [Elements -> Elements \cup {None}]]
      /\ \A p \in Panels, e \in Elements :
            pending'[p][e] = IF f.found /\ p = f.owner /\ e = Head(f.list) THEN None ELSE pending[p][e]
  <2>1. pending'[f.owner] = [pending[f.owner] EXCEPT ![Head(f.list)] = IF f.found THEN None ELSE @]
    BY <1>1, <1>3
  <2>2. \A p \in Panels \ {f.owner} : pending'[p] = pending[p]
    BY <1>3
  <2>3. pending[f.owner] \in [Elements -> Elements \cup {None}]
    BY <1>1, <1>3
  <2>4. /\ pending'[f.owner] \in [Elements -> Elements \cup {None}]
        /\ \A e \in Elements : pending'[f.owner][e] =
              IF f.found /\ e = Head(f.list) THEN None ELSE pending[f.owner][e]
    BY <1>2, <2>1, <2>3
  <2> QED
    BY <1>1, <1>3, <2>2, <2>4
<1>5. PICK g \in Calls : /\ g.owner = f.owner /\ g.list = Tail(f.list) /\ g.added = f.added
                         /\ g.removed = f.removed
                         /\ g.found <=> pending'[f.owner][Head(Tail(f.list))] # None
                         /\ stack' = <<g>> \o rest
  <2> DEFINE h == Reporting(f.owner, Tail(f.list), f.added, f.removed, pending')
  <2>1. h \in Calls
    BY <1>1, <1>2 DEF Reporting, Calls
  <2>2. /\ h.owner = f.owner /\ h.list = Tail(f.list) /\ h.added = f.added /\ h.removed = f.removed
        /\ h.found <=> pending'[f.owner][Head(Tail(f.list))] # None
    BY DEF Reporting
  <2> QED
    BY <2>1, <2>2
<1>6. stack' \in Seq(Calls) /\ stack' # <<>> /\ Head(stack') = g
  BY <1>5, PushCall
<1>7. TypeOK'
  BY <1>4, <1>6 DEF CollectionInv, TypeOK
<1>8. Distinct' /\ NoCycle'
  BY DEF CollectionInv, Distinct, NoCycle
<1>9. Counted'
  <2> SUFFICES ASSUME NEW e \in Elements
               PROVE  /\ IsFiniteSet(Listing(e)')
                      /\ refs'[e] = Cardinality(Listing(e)') + Cardinality(Removing(stack', e))
    BY DEF Counted
  <2>1. Listing(e)' = Listing(e)
    BY DEF Listing, Contains
  <2>2. Cardinality(Removing(stack', e)) = Cardinality(Removing(stack, e))
    BY <1>5, RemovingGrows
  <2> QED
    BY <2>1, <2>2 DEF CollectionInv, Counted
<1>10. Covered'
  <2> SUFFICES ASSUME NEW p \in Panels, NEW e \in Elements, pending'[p][e] # None
               PROVE  Erases(g, p, e) \/ WillErase(rest, p, e)
    BY <1>5, PushCall DEF Covered
  <2>1. pending[p][e] # None /\ ~(f.found /\ p = f.owner /\ e = Head(f.list))
    BY <1>4
  <2>2. Erases(f, p, e) \/ WillErase(rest, p, e)
    BY <2>1, PushCall DEF CollectionInv, Covered
  <2>3. ASSUME Erases(f, p, e) PROVE Erases(g, p, e)
    <3>1. p = f.owner /\ (e # Head(f.list) \/ ~f.found)
      BY <2>1, <2>3 DEF Erases
    <3>2. g.found \/ e # Head(Tail(f.list))
      BY <1>5, <3>1
    <3> QED
      BY <1>2, <1>5, <2>3, <3>1, <3>2, NextReport
  <2> QED
    BY <2>2, <2>3
<1>11. Awaited'
  <2> SUFFICES ASSUME ~interrupted
               PROVE  Added(stack') \subseteq {1} /\ Attachable(g)'
    BY <1>6 DEF Awaited
  <2>1. Added(stack) \subseteq {1} /\ Attachable(f)
    BY PushCall DEF CollectionInv, Awaited
  <2>2. Added(rest) = {}
    BY <2>1, Only
  <2>3. Ancestors(f.owner)' = Ancestors(f.owner)
    BY DEF Ancestors, Upward
  <2>4. Attachable(g)'
    BY <1>5, <2>1, <2>3 DEF Attachable
  <2> QED
    BY <1>5, <2>2, <2>4, PushCall
<1>12. ListedIsAttached'
  <2> SUFFICES ASSUME ~interrupted, NEW q \in Panels, NEW e \in Elements
               PROVE  Contains(q, e)' <=> (parent[e] = q \/ e \in Incoming(q)')
    BY DEF ListedIsAttached
  <2>1. Contains(q, e)' <=> Contains(q, e)
    BY DEF Contains
  <2>2. e \in Incoming(q) <=> e \in AddedBy(stack, q)
    BY DEF Incoming, AddedBy
  <2>3. e \in Incoming(q)' <=> e \in AddedBy(stack', q)
    BY DEF Incoming, AddedBy
  <2>4. e \in AddedBy(stack, q) <=> e \in AddedBy(stack', q)
    BY <1>5, AddedByPush
  <2> QED
    BY <2>1, <2>2, <2>3, <2>4 DEF CollectionInv, ListedIsAttached
<1> QED
  BY <1>7, <1>8, <1>9, <1>10, <1>11, <1>12 DEF CollectionInv

(* The last child has been reported: Changed attaches the one added.       *)
LEMMA ChangedStep ==
  ASSUME CollectionInv, ~undefined, NEW f \in Calls, NEW rest \in Seq(Calls),
         stack = <<f>> \o rest, Len(f.list) = 1,
         pending' = [pending EXCEPT ![f.owner][Head(f.list)] = IF f.found THEN None ELSE @],
         parent' = Attached(f.owner, f.added), refs' = Release(f.removed), stack' = rest,
         UNCHANGED <<entries, undefined, interrupted>>
  PROVE  CollectionInv'
<1>1. /\ f.owner \in Panels /\ f.list \in Seq(Elements) /\ f.added \in Elements \cup {None}
      /\ f.removed \in Seq(Elements) /\ f.found \in BOOLEAN
  BY DEF Calls
<1>2. f.list # <<>> /\ Head(f.list) \in Elements /\ DOMAIN f.list = {1}
  BY <1>1
<1>3. /\ pending \in [Panels -> [Elements -> Elements \cup {None}]]
      /\ parent \in [Elements -> Panels \cup {None}] /\ refs \in [Elements -> Nat]
      /\ Panels \subseteq Elements /\ None \notin Elements
  BY ElementsAssumption, NoneAssumption DEF CollectionInv, TypeOK
<1>4. /\ pending' \in [Panels -> [Elements -> Elements \cup {None}]]
      /\ \A p \in Panels, e \in Elements :
            pending'[p][e] = IF f.found /\ p = f.owner /\ e = Head(f.list) THEN None ELSE pending[p][e]
  <2>1. pending'[f.owner] = [pending[f.owner] EXCEPT ![Head(f.list)] = IF f.found THEN None ELSE @]
    BY <1>1, <1>3
  <2>2. \A p \in Panels \ {f.owner} : pending'[p] = pending[p]
    BY <1>3
  <2>3. pending[f.owner] \in [Elements -> Elements \cup {None}]
    BY <1>1, <1>3
  <2>4. /\ pending'[f.owner] \in [Elements -> Elements \cup {None}]
        /\ \A e \in Elements : pending'[f.owner][e] =
              IF f.found /\ e = Head(f.list) THEN None ELSE pending[f.owner][e]
    BY <1>2, <2>1, <2>3
  <2> QED
    BY <1>1, <1>3, <2>2, <2>4
<1>5. /\ parent' \in [Elements -> Panels \cup {None}] /\ NoCycle'
      /\ \A x \in Elements : parent'[x] =
            IF x = f.added /\ CanAttachVisualChild(f.owner, x) THEN f.owner ELSE parent[x]
  <2>1. CASE f.added # None /\ CanAttachVisualChild(f.owner, f.added)
    <3>1. parent' = [parent EXCEPT ![f.added] = f.owner]
      BY <2>1 DEF Attached
    <3>2. NoCycle'
      BY <1>1, <1>3, <2>1, <3>1, Attaching DEF CollectionInv
    <3> QED
      BY <1>1, <1>3, <2>1, <3>1, <3>2
  <2>2. CASE ~(f.added # None /\ CanAttachVisualChild(f.owner, f.added))
    <3>1. parent' = parent
      BY <2>2 DEF Attached
    <3>2. NoCycle'
      BY <3>1 DEF CollectionInv, NoCycle
    <3> QED
      BY <1>3, <2>2, <3>1, <3>2
  <2> QED
    BY <2>1, <2>2
<1>6. \A e \in Elements :
        /\ IsFiniteSet(Listing(e)) /\ Cardinality(Listing(e)) \in Nat /\ Listing(e)' = Listing(e)
        /\ Cardinality(Removing(rest, e)) \in Nat
        /\ refs[e] = Cardinality(Listing(e)) + Cardinality(Removing(rest, e))
                     + IF e \in Seqs!ToSet(f.removed) THEN 1 ELSE 0
  <2> TAKE e \in Elements
  <2>1. /\ IsFiniteSet(Listing(e)) /\ Cardinality(Listing(e)) \in Nat
        /\ refs[e] = Cardinality(Listing(e)) + Cardinality(Removing(stack, e))
    BY FS_CardinalityType DEF CollectionInv, Counted
  <2>2. Listing(e)' = Listing(e)
    BY DEF Listing, Contains
  <2>3. /\ Cardinality(Removing(rest, e)) \in Nat
        /\ Cardinality(Removing(stack, e)) = Cardinality(Removing(rest, e))
                                             + IF e \in Seqs!ToSet(f.removed) THEN 1 ELSE 0
    BY RemovingGrows
  <2> QED
    BY <2>1, <2>2, <2>3
<1>7. /\ refs' \in [Elements -> Nat]
      /\ \A e \in Elements : refs'[e] = Cardinality(Listing(e)) + Cardinality(Removing(rest, e))
  <2>1. refs' = [e \in Elements |-> IF e \in Seqs!ToSet(f.removed) THEN refs[e] - 1 ELSE refs[e]]
    BY DEF Release
  <2>2. \A e \in Elements : /\ refs'[e] = Cardinality(Listing(e)) + Cardinality(Removing(rest, e))
                            /\ refs'[e] \in Nat
    BY <1>6, <2>1
  <2> QED
    BY <2>1, <2>2
<1>8. TypeOK'
  BY <1>4, <1>5, <1>7 DEF CollectionInv, TypeOK
<1>9. Distinct'
  BY DEF CollectionInv, Distinct
<1>10. Counted'
  <2> SUFFICES ASSUME NEW e \in Elements
               PROVE  /\ IsFiniteSet(Listing(e)')
                      /\ refs'[e] = Cardinality(Listing(e)') + Cardinality(Removing(stack', e))
    BY DEF Counted
  <2> QED
    BY <1>6, <1>7
<1>11. Covered'
  <2> SUFFICES ASSUME NEW p \in Panels, NEW e \in Elements, pending'[p][e] # None
               PROVE  WillErase(rest, p, e)
    BY DEF Covered
  <2>1. pending[p][e] # None /\ ~(f.found /\ p = f.owner /\ e = Head(f.list))
    BY <1>4
  <2>2. Erases(f, p, e) \/ WillErase(rest, p, e)
    BY <2>1, PushCall DEF CollectionInv, Covered
  <2>3. ~Erases(f, p, e)
    BY <1>2, <2>1 DEF Erases
  <2> QED
    BY <2>2, <2>3
<1>12. ASSUME ~interrupted
       PROVE  Added(rest) = {} /\ Attachable(f)
  <2>1. Added(stack) \subseteq {1} /\ Attachable(f)
    BY <1>12, PushCall DEF CollectionInv, Awaited
  <2> QED
    BY <2>1, Only
<1>13. Awaited'
  <2> SUFFICES ASSUME ~interrupted
               PROVE  Added(rest) \subseteq {1} /\ (rest # <<>> => Head(rest).added = None)
    BY DEF Awaited, Attachable
  <2> QED
    BY <1>12, PopCall
<1>14. ListedIsAttached'
  <2> SUFFICES ASSUME ~interrupted, NEW q \in Panels, NEW e \in Elements
               PROVE  Contains(q, e)' <=> (parent'[e] = q \/ e \in Incoming(q)')
    BY DEF ListedIsAttached
  <2>1. Contains(q, e)' <=> Contains(q, e)
    BY DEF Contains
  <2>2. e \notin Incoming(q)'
    <3>1. e \in Incoming(q)' <=> e \in AddedBy(rest, q)
      BY DEF Incoming, AddedBy
    <3>2. AddedBy(rest, q) \subseteq {None}
      BY <1>12 DEF Added, AddedBy
    <3> QED
      BY <1>3, <3>1, <3>2
  <2>3. e \in Incoming(q) <=> f.owner = q /\ e = f.added
    <3>1. e \in Incoming(q) <=> e \in AddedBy(stack, q)
      BY DEF Incoming, AddedBy
    <3>2. AddedBy(rest, q) \subseteq {None}
      BY <1>12 DEF Added, AddedBy
    <3> QED
      BY <1>3, <3>1, <3>2, AddedByPush
  <2>4. Contains(q, e) <=> (parent[e] = q \/ e \in Incoming(q))
    BY DEF CollectionInv, ListedIsAttached
  <2>5. CASE e = f.added
    <3>1. parent[e] = None /\ CanAttachVisualChild(f.owner, e)
      BY <1>3, <1>12, <2>5 DEF Attachable, CanAttachVisualChild
    <3> QED
      BY <1>3, <1>5, <2>1, <2>2, <2>3, <2>4, <2>5, <3>1
  <2>6. CASE e # f.added
    BY <1>5, <2>1, <2>2, <2>3, <2>4, <2>6
  <2> QED
    BY <2>5, <2>6
<1> QED
  BY <1>5, <1>8, <1>9, <1>10, <1>11, <1>13, <1>14 DEF CollectionInv

LEMMA ReturnStep ==
  ASSUME CollectionInv, Return
  PROVE  CollectionInv'
<1>1. stack \in Seq(Calls) /\ stack # <<>> /\ ~undefined /\ interrupted' = interrupted
  BY DEF CollectionInv, TypeOK, Return
<1>2. PICK f \in Calls, rest \in Seq(Calls) :
          f = Head(stack) /\ rest = Tail(stack) /\ stack = <<f>> \o rest
  BY <1>1, PopCall
<1>3. CASE undefined' = TRUE /\ UNCHANGED <<entries, parent, pending, refs, stack, interrupted>>
  <2>1. TypeOK'
    BY <1>3 DEF CollectionInv, TypeOK
  <2>2. Counted'
    BY <1>3 DEF CollectionInv, Counted, Listing, Contains
  <2> QED
    BY <1>3, <2>1, <2>2 DEF CollectionInv, Distinct, Covered, NoCycle, Awaited, ListedIsAttached
<1>4. CASE /\ Len(f.list) > 1
           /\ pending' = [pending EXCEPT ![f.owner][Head(f.list)] = IF f.found THEN None ELSE @]
           /\ stack' = <<Reporting(f.owner, Tail(f.list), f.added, f.removed, pending')>> \o rest
           /\ UNCHANGED <<entries, parent, refs, undefined, interrupted>>
  BY <1>1, <1>2, <1>4, ReportStep
<1>5. CASE /\ Len(f.list) = 1
           /\ pending' = [pending EXCEPT ![f.owner][Head(f.list)] = IF f.found THEN None ELSE @]
           /\ parent' = Attached(f.owner, f.added) /\ refs' = Release(f.removed) /\ stack' = rest
           /\ UNCHANGED <<entries, undefined, interrupted>>
  BY <1>1, <1>2, <1>5, ChangedStep
<1> QED
  BY <1>1, <1>2, <1>3, <1>4, <1>5 DEF Return, Reported

-----------------------------------------------------------------------------
(* The invariant holds in every reachable state.                           *)
LEMMA CollectionInit == Init => CollectionInv
<1> SUFFICES ASSUME Init PROVE CollectionInv
  OBVIOUS
<1>1. /\ entries = [p \in Panels |-> <<>>] /\ parent = [e \in Elements |-> None]
      /\ pending = [p \in Panels |-> [e \in Elements |-> None]]
      /\ refs = [e \in Elements |-> 0] /\ stack = <<>> /\ interrupted = FALSE /\ undefined = FALSE
      /\ Panels \subseteq Elements /\ None \notin Elements
  BY ElementsAssumption, NoneAssumption DEF Init
<1>2. TypeOK
  <2>1. entries \in [Panels -> Seq(Elements)] /\ stack \in Seq(Calls)
    BY <1>1
  <2>2. pending \in [Panels -> [Elements -> Elements \cup {None}]]
    <3>1. [e \in Elements |-> None] \in [Elements -> Elements \cup {None}]
      OBVIOUS
    <3> QED
      BY <1>1, <3>1
  <2>3. parent \in [Elements -> Panels \cup {None}] /\ refs \in [Elements -> Nat]
    BY <1>1
  <2> QED
    BY <1>1, <2>1, <2>2, <2>3 DEF TypeOK
<1>3. \A p \in Panels : \A e : ~Contains(p, e)
  BY <1>1, EmptyEntries DEF Contains
<1>4. Distinct
  BY <1>1, EmptyEntries DEF Distinct
<1>5. \A e : Listing(e) = {} /\ Removing(stack, e) = {}
  BY <1>1, <1>3 DEF Listing, Removing
<1>6. Counted
  <2>1. IsFiniteSet({}) /\ Cardinality({}) = 0
    BY FS_EmptySet
  <2>2. \A e \in Elements : refs[e] = 0
    BY <1>1
  <2> SUFFICES ASSUME NEW e \in Elements
               PROVE  /\ IsFiniteSet(Listing(e))
                      /\ refs[e] = Cardinality(Listing(e)) + Cardinality(Removing(stack, e))
    BY DEF Counted
  <2>3. Listing(e) = {} /\ Removing(stack, e) = {}
    BY <1>5
  <2> QED
    BY <2>1, <2>2, <2>3
<1>7. Covered
  <2>1. ASSUME NEW p \in Panels, NEW e \in Elements PROVE pending[p][e] = None
    <3>1. pending[p] = [x \in Elements |-> None]
      BY <1>1
    <3> QED
      BY <3>1
  <2> QED
    BY <2>1 DEF Covered
<1>8. NoCycle
  BY <1>1 DEF NoCycle
<1>9. Awaited
  BY <1>1 DEF Awaited, Added
<1>10. ListedIsAttached
  <2>1. \A p : Incoming(p) = {}
    BY <1>1 DEF Incoming
  <2> QED
    BY <1>1, <1>3, <2>1 DEF ListedIsAttached
<1> QED
  BY <1>2, <1>4, <1>6, <1>7, <1>8, <1>9, <1>10 DEF CollectionInv

LEMMA CollectionStep == CollectionInv /\ [Next]_vars => CollectionInv'
<1> SUFFICES ASSUME CollectionInv, [Next]_vars PROVE CollectionInv'
  OBVIOUS
<1>1. ASSUME NEW p \in Panels, NEW e \in Elements, NEW i \in 1..Len(entries[p]) + 1,
             InsertAt(p, i, e)
      PROVE  CollectionInv'
  BY <1>1, InsertAtStep
<1>2. ASSUME NEW p \in Panels, NEW e \in Elements, NEW i \in DOMAIN entries[p], SetAt(p, i, e)
      PROVE  CollectionInv'
  BY <1>2, SetAtStep
<1>3. ASSUME NEW p \in Panels, NEW i \in DOMAIN entries[p], RemoveAt(p, i)
      PROVE  CollectionInv'
  BY <1>3, RemoveAtStep
<1>4. ASSUME NEW p \in Panels, Clear(p)
      PROVE  CollectionInv'
  BY <1>4, ClearStep
<1>5. ASSUME Return
      PROVE  CollectionInv'
  BY <1>5, ReturnStep
<1>6. ASSUME UNCHANGED vars
      PROVE  CollectionInv'
  <2>1. /\ entries' = entries /\ parent' = parent /\ pending' = pending /\ refs' = refs
        /\ stack' = stack /\ interrupted' = interrupted /\ undefined' = undefined
    BY <1>6 DEF vars
  <2>2. TypeOK'
    BY <2>1 DEF CollectionInv, TypeOK
  <2>3. Distinct' /\ Covered' /\ NoCycle'
    BY <2>1 DEF CollectionInv, Distinct, Covered, NoCycle
  <2>4. Counted'
    BY <2>1 DEF CollectionInv, Counted, Listing, Contains
  <2>5. Awaited'
    BY <2>1 DEF CollectionInv, Awaited, Attachable, Ancestors, Upward
  <2>6. ListedIsAttached'
    BY <2>1 DEF CollectionInv, ListedIsAttached, Contains, Incoming
  <2> QED
    BY <2>2, <2>3, <2>4, <2>5, <2>6 DEF CollectionInv
<1> QED
  BY <1>1, <1>2, <1>3, <1>4, <1>5, <1>6 DEF Next

(* Removed and Changed (collection.h) keep the lists, the visual parents,  *)
(* the pending roots and the references in step at every call they make.   *)
THEOREM CollectionInvariant == Spec => []CollectionInv
  BY CollectionInit, CollectionStep, PTL DEF Spec

(* A list without repetitions has as many elements as entries.             *)
LEMMA UnrepeatedCount ==
  ASSUME NEW s \in Seq(Elements), Unrepeated(s)
  PROVE  Cardinality(Seqs!ToSet(s)) = Len(s)
<1>1. Len(s) \in Nat /\ DOMAIN s = 1..Len(s)
  OBVIOUS
<1>2. s \in Bijection(1..Len(s), Seqs!ToSet(s))
  BY <1>1 DEF Bijection, Injection, IsInjective, Surjection, Unrepeated, Seqs!ToSet
<1>3. IsFiniteSet(1..Len(s)) /\ Cardinality(1..Len(s)) = Len(s)
  BY <1>1, FS_Interval
<1>4. ExistsBijection(1..Len(s), Seqs!ToSet(s))
  BY <1>2 DEF ExistsBijection
<1> QED
  BY <1>3, <1>4, FS_Bijection

(* OnOwnedCollectionChanged (elements.h): a panel lists exactly the        *)
(* children whose visual parent it is, until a handler of SetAt's changes a*)
(* collection; no panel lists a child twice and the tree has no cycle.     *)
THEOREM ListsCorrect == Spec => []ListsAreTheTree
<1>1. CollectionInv => ListsAreTheTree
  <2> SUFFICES ASSUME CollectionInv PROVE ListsAreTheTree
    OBVIOUS
  <2>1. TypeOK /\ ListedIsAttached /\ NoCycle /\ Distinct
    BY DEF CollectionInv
  <2>2. Acyclic
    BY <2>1, NoCycleRoots DEF TypeOK
  <2>3. ListedOnce
    BY <2>1, UnrepeatedCount DEF TypeOK, Distinct, ListedOnce
  <2> QED
    BY <2>1, <2>2, <2>3 DEF ListsAreTheTree
<1> QED
  BY <1>1, CollectionInvariant, PTL

(* Adopt and Release are balanced for each element, and the pending root of*)
(* each child removed has been erased when no call is under way.           *)
THEOREM RemovalCorrect == Spec => []RemovalProtocol
<1>1. CollectionInv => RemovalProtocol
  <2> SUFFICES ASSUME CollectionInv PROVE RemovalProtocol
    OBVIOUS
  <2>1. RefsBalanced
    BY DEF CollectionInv, Counted, Listing, Removing, RefsBalanced
  <2>2. AllReported
    BY DEF CollectionInv, Covered, WillErase, AllReported
  <2> QED
    BY <2>1, <2>2 DEF RemovalProtocol
<1> QED
  BY <1>1, CollectionInvariant, PTL
=============================================================================
